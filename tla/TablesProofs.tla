---------------------------- MODULE TablesProofs ----------------------------
(***************************************************************************)
(* Proofs about Club, for any number of poems, comments, readers and calls *)
(* in flight: a number under a poem is right unless its last recount was   *)
(* overtaken, and a thread is one level deep.  Then proofs about Caches,   *)
(* for any number of callers, reads and changes and any times.  Those of   *)
(* SessionTable are in SessionProofs; at the end, what is proved of the    *)
(* three holds of them side by side.                                       *)
(*                                                                         *)
(* In the club, two writes of one poem meet between the statement of the   *)
(* one and the commit of the other, so the invariant says what a write     *)
(* that counts may rely on: the rows it touches are touched by nobody      *)
(* else, the rows an insert names are not being deleted, and as long as    *)
(* nobody has committed a write of the same number the count is still what *)
(* its own commit will make true.                                          *)
(*                                                                         *)
(* In the caches, CachesInv ties the version that a read carries and that  *)
(* a caller has to the time since which it may be out of date.             *)
(***************************************************************************)
EXTENDS Tables, SessionProofs, FiniteSetTheorems

\* What a comment hangs under and what it answers are in one thread of one poem.
Hangs(on, parent, replyTo) ==
    /\ on \in Poems /\ Printed(on)
    /\ parent # Nothing =>
         /\ Written(parent) /\ remark[parent].on = on /\ remark[parent].parent = Nothing
    /\ replyTo # Nothing =>
         /\ parent # Nothing /\ Written(replyTo) /\ remark[replyTo].parent = parent

ThreadsHang ==
    \A c \in Remarks :
        /\ Written(c) => Hangs(remark[c].on, remark[c].parent, remark[c].replyTo)
        /\ ~Written(c) => remark[c].on = Nothing

\* What was looked at may be gone by now, but it has not become another row.
Aimed(on, parent, replyTo) ==
    /\ parent # Nothing =>
         /\ remark[parent].st # "none"
         /\ Written(parent) => remark[parent].on = on /\ remark[parent].parent = Nothing
    /\ replyTo # Nothing =>
         /\ parent # Nothing /\ remark[replyTo].st # "none"
         /\ Written(replyTo) => remark[replyTo].parent = parent

\* What a write that counts has made sure of, and its locks keep so.
CountIsSound(k) ==
    /\ k.on \in Poems /\ Printed(k.on)
    /\ KindOf(k) = "likes" => k.by \in Fans
    /\ KindOf(k) = "remarks" => k.remark \in Remarks
    /\ k.op = "send" => remark[k.remark].st = "none" /\ Hangs(k.on, k.parent, k.replyTo)
    /\ k.op \in {"decide", "drop"} => Written(k.remark) /\ remark[k.remark].on = k.on

CallIsSound(k) ==
    /\ k.pc = "aiming" => k.op = "send" /\ k.on \in Poems /\ k.replyTo \in Remarks
    /\ k.pc = "writing" => k.op = "send" /\ k.on \in Poems /\ Aimed(k.on, k.parent, k.replyTo)
    /\ k.pc \in {"missed", "found"} => k.op = "like" /\ k.on \in Poems /\ k.by \in Fans
    /\ k.pc = "counting" => CountIsSound(k)

CallsAreSound == \A r \in Calls : CallIsSound(call[r])

Drops(q) == Counting(q) /\ call[q].op = "drop"

LocksExclude ==
    \A q, r \in Calls : q # r =>
        /\ Touches(q) \cap Touches(r) = {}
        /\ Drops(q) => Doomed(call[q].remark) \cap Needs(r) = {}

CountsAreFresh ==
    \A r \in Calls : Counting(r) /\ ~call[r].late => call[r].count = CountAfter(call[r])

HiddenPoemsAreBare ==
    \A p \in Poems : ~Printed(p) =>
        /\ \A kind \in Kinds : poem[p].number[kind] = 0
        /\ \A u \in Fans : <<p, u>> \notin liked

ClubInv == /\ ClubTypeOK
           /\ ThreadsHang
           /\ CallsAreSound
           /\ LocksExclude
           /\ CountsAreFresh
           /\ HiddenPoemsAreBare
           /\ NumbersCatchUp

Poem   == [st : {"none", "gone"} \cup Statuses, number : [Kinds -> Nat]]
Remark == [st : {"none", "gone"} \cup Statuses, on : Poems \cup {Nothing},
           parent : Remarks \cup {Nothing}, replyTo : Remarks \cup {Nothing}]
Call   == [pc : {"rest", "missed", "found", "aiming", "writing", "counting"},
           op : Writes, by : Fans \cup {Nothing}, on : Poems \cup {Nothing},
           remark : Remarks \cup {Nothing}, parent : Remarks \cup {Nothing},
           replyTo : Remarks \cup {Nothing}, st : Statuses,
           count : Nat, late : BOOLEAN]

LEMMA Types ==
  ClubTypeOK <=> /\ poem \in [Poems -> Poem] /\ liked \subseteq Poems \X Fans
                 /\ remark \in [Remarks -> Remark] /\ call \in [Calls -> Call]
                 /\ blurred \subseteq Poems \X Kinds
  BY DEF ClubTypeOK, Poem, Remark, Call

LEMMA TypesAfter ==
  ClubTypeOK' <=> /\ poem' \in [Poems -> Poem] /\ liked' \subseteq Poems \X Fans
                  /\ remark' \in [Remarks -> Remark] /\ call' \in [Calls -> Call]
                  /\ blurred' \subseteq Poems \X Kinds
  BY DEF ClubTypeOK, Poem, Remark, Call

-----------------------------------------------------------------------------
(* What is counted.                                                        *)

LEMMA CountsAreNumbers ==
  /\ \A p, L : LikesOf(p, L) \in Nat
  /\ \A p, R : RemarksOf(p, R) \in Nat
<1>1. ASSUME NEW p, NEW L PROVE LikesOf(p, L) \in Nat
  BY FinitenessAssumption, FS_Subset, FS_CardinalityType DEF LikesOf
<1>2. ASSUME NEW p, NEW R PROVE RemarksOf(p, R) \in Nat
  BY FinitenessAssumption, FS_Subset, FS_CardinalityType DEF RemarksOf
<1> QED
  BY <1>1, <1>2

LEMMA CountAfterIsNumber == \A k : CountAfter(k) \in Nat
  BY CountsAreNumbers DEF CountAfter

\* Sets of likes, or tables of comments, that agree on a poem count alike.
LEMMA SameLikes ==
  ASSUME NEW p, NEW L, NEW M, \A u \in Fans : <<p, u>> \in L <=> <<p, u>> \in M
  PROVE  LikesOf(p, L) = LikesOf(p, M)
<1>1. {u \in Fans : <<p, u>> \in L} = {u \in Fans : <<p, u>> \in M}
  OBVIOUS
<1> QED
  BY <1>1 DEF LikesOf

LEMMA SameRemarks ==
  ASSUME NEW p, NEW R, NEW Q,
         \A c \in Remarks : R[c].on = p /\ R[c].st = "approved"
                            <=> Q[c].on = p /\ Q[c].st = "approved"
  PROVE  RemarksOf(p, R) = RemarksOf(p, Q)
<1>1. {c \in Remarks : R[c].on = p /\ R[c].st = "approved"}
        = {c \in Remarks : Q[c].on = p /\ Q[c].st = "approved"}
  OBVIOUS
<1> QED
  BY <1>1 DEF RemarksOf

\* A step leaves the likes, or the comments, of poem p as they are.
LikesStand(p)   == \A u \in Fans : <<p, u>> \in liked' <=> <<p, u>> \in liked
RemarksStand(p) ==
    \A c \in Remarks : remark[c].on = p \/ remark'[c].on = p =>
        /\ remark'[c].on = remark[c].on /\ remark'[c].st = remark[c].st
        /\ remark'[c].parent = remark[c].parent

LEMMA StandingActual ==
  ASSUME NEW p
  PROVE  /\ LikesStand(p) => Actual(p, "likes")' = Actual(p, "likes")
         /\ RemarksStand(p) => Actual(p, "remarks")' = Actual(p, "remarks")
<1>1. ASSUME LikesStand(p) PROVE LikesOf(p, liked') = LikesOf(p, liked)
  BY <1>1, SameLikes DEF LikesStand
<1>2. ASSUME RemarksStand(p) PROVE RemarksOf(p, remark') = RemarksOf(p, remark)
  <2>1. \A c \in Remarks : remark'[c].on = p /\ remark'[c].st = "approved"
                           <=> remark[c].on = p /\ remark[c].st = "approved"
    BY <1>2 DEF RemarksStand
  <2> QED
    BY <2>1, SameRemarks
<1> QED
  BY <1>1, <1>2 DEF Actual

LEMMA StandingLikes ==
  ASSUME NEW k \in Call, KindOf(k) = "likes", LikesStand(k.on)
  PROVE  CountAfter(k)' = CountAfter(k)
<1>1. \A u \in Fans : <<k.on, u>> \in LikesAfter(k)' <=> <<k.on, u>> \in LikesAfter(k)
  BY DEF LikesStand, LikesAfter
<1> QED
  BY <1>1, SameLikes DEF CountAfter, KindOf

\* The rows that a comment takes along are of its poem, hence a write of another
\* poem leaves what it will count alone.
LEMMA StandingRemarks ==
  ASSUME ClubTypeOK, ClubTypeOK', ThreadsHang, ThreadsHang', NEW k \in Call,
         CountIsSound(k), CountIsSound(k)', KindOf(k) = "remarks", RemarksStand(k.on)
  PROVE  CountAfter(k)' = CountAfter(k)
<1> DEFINE p == k.on
           R == RemarksAfter(k)
           Q == RemarksAfter(k)'
<1>1. p \in Poems /\ p # Nothing /\ k.remark \in Remarks /\ k.op \in {"send", "decide", "drop"}
  BY ClubAssumption DEF CountIsSound, Call, KindOf, Writes
<1>2. \A c \in Remarks : Q[c].on = p /\ Q[c].st = "approved"
                         <=> R[c].on = p /\ R[c].st = "approved"
  <2>1. CASE k.op = "send"
    <3>1. /\ \A c \in Remarks \ {k.remark} : R[c] = remark[c] /\ Q[c] = remark'[c]
          /\ R[k.remark].st = "held" /\ Q[k.remark].st = "held"
      BY <2>1, <1>1, Types, TypesAfter DEF RemarksAfter
    <3> QED
      BY <3>1 DEF RemarksStand
  <2>2. CASE k.op = "decide"
    <3>1. remark[k.remark].on = p /\ remark'[k.remark].on = p
      BY <2>2 DEF CountIsSound
    <3>2. /\ \A c \in Remarks \ {k.remark} : R[c] = remark[c] /\ Q[c] = remark'[c]
          /\ R[k.remark].st = k.st /\ R[k.remark].on = remark[k.remark].on
          /\ Q[k.remark].st = k.st /\ Q[k.remark].on = remark'[k.remark].on
      BY <2>2, <1>1, Types, TypesAfter DEF RemarksAfter, Remark
    <3> QED
      BY <3>1, <3>2 DEF RemarksStand
  <2>3. CASE k.op = "drop"
    <3>1. R = Without(k.remark) /\ Q = Without(k.remark)'
      BY <2>3 DEF RemarksAfter
    <3>2. \A c \in Remarks : remark[c].on = p \/ remark'[c].on = p =>
            (c \in Doomed(k.remark)' <=> c \in Doomed(k.remark))
      BY <2>3 DEF RemarksStand, Doomed, Replies, Written
    <3>3. \A c \in Remarks : /\ R[c].st = "approved" => c \notin Doomed(k.remark)
                             /\ Q[c].st = "approved" => c \notin Doomed(k.remark)'
      BY <3>1 DEF Without, Gone, NoRemark
    <3>4. \A c \in Remarks \ Doomed(k.remark) :
            R[c].on = remark[c].on /\ R[c].st = remark[c].st
      BY <3>1, Types, TypesAfter DEF Without, Remark
    <3>5. \A c \in Remarks : c \notin Doomed(k.remark)' =>
            Q[c].on = remark'[c].on /\ Q[c].st = remark'[c].st
      BY <3>1, Types, TypesAfter DEF Without, Remark
    <3> QED
      BY <3>2, <3>3, <3>4, <3>5 DEF RemarksStand
  <2> QED
    BY <1>1, <2>1, <2>2, <2>3
<1>3. RemarksOf(p, Q) = RemarksOf(p, R)
  BY <1>2, SameRemarks
<1> QED
  BY <1>3 DEF CountAfter

-----------------------------------------------------------------------------
(* Steps that leave the rows of likes and comments alone.                  *)

LEMMA SameRowsCount ==
  ASSUME liked' = liked, remark' = remark, NEW k
  PROVE  CountAfter(k)' = CountAfter(k)
  BY DEF CountAfter, LikesAfter, RemarksAfter, Without, Doomed, Orphaned, Replies, Referrers,
         Written

LEMMA SameRowsActual ==
  ASSUME liked' = liked, remark' = remark
  PROVE  \A p, kind : Actual(p, kind)' = Actual(p, kind)
  BY DEF Actual

LEMMA SameRowsDoomed ==
  ASSUME remark' = remark
  PROVE  \A c : Written(c)' = Written(c) /\ Doomed(c)' = Doomed(c) /\ Orphaned(c)' = Orphaned(c)
  BY DEF Doomed, Orphaned, Replies, Referrers, Written

\* As long as no poem goes, what hangs in a thread or is sound stays so.
LEMMA SoundWhileRowsStay ==
  ASSUME remark' = remark, \A p \in Poems : Printed(p) => Printed(p)'
  PROVE  /\ ThreadsHang => ThreadsHang'
         /\ \A k \in Call : CallIsSound(k) => CallIsSound(k)'
<1>1. \A on, parent, replyTo : Hangs(on, parent, replyTo) => Hangs(on, parent, replyTo)'
  BY SameRowsDoomed DEF Hangs
<1>2. \A on, parent, replyTo : Aimed(on, parent, replyTo) => Aimed(on, parent, replyTo)'
  BY SameRowsDoomed DEF Aimed
<1>3. \A k \in Call : CountIsSound(k) => CountIsSound(k)'
  BY <1>1, SameRowsDoomed DEF CountIsSound
<1>4. \A k \in Call : CallIsSound(k) => CallIsSound(k)'
  BY <1>2, <1>3 DEF CallIsSound
<1>5. ASSUME ThreadsHang PROVE ThreadsHang'
  BY <1>1, <1>5, SameRowsDoomed DEF ThreadsHang
<1> QED
  BY <1>4, <1>5

LEMMA PoemIsPrinted ==
  ASSUME ClubInv, NEW p \in Poems, NEW st \in Statuses, PoemsOnly,
         poem' = [poem EXCEPT ![p].st = st], Printed(p) \/ poem[p].st = "none"
  PROVE  ClubInv'
<1> USE DEF ClubInv
<1>1. /\ poem' \in [Poems -> Poem]
      /\ \A q \in Poems : poem'[q].number = poem[q].number
      /\ \A q \in Poems : Printed(q) => Printed(q)'
      /\ Printed(p)'
      /\ \A q \in Poems \ {p} : Printed(q)' => Printed(q)
  BY Types DEF Poem, Printed
<1>2. ClubTypeOK'
  BY <1>1, Types, TypesAfter DEF PoemsOnly
<1>3. ThreadsHang'
  BY <1>1, SoundWhileRowsStay DEF PoemsOnly
<1>4. CallsAreSound'
  BY <1>1, Types, SoundWhileRowsStay DEF PoemsOnly, CallsAreSound
<1>5. LocksExclude'
  BY SameRowsDoomed DEF PoemsOnly, LocksExclude, Drops, Touches, Needs, Counting, KindOf
<1>6. CountsAreFresh'
  BY SameRowsCount DEF PoemsOnly, CountsAreFresh, Counting
<1>7. HiddenPoemsAreBare'
  BY <1>1 DEF PoemsOnly, HiddenPoemsAreBare
<1>8. NumbersCatchUp'
  <2>1. ASSUME ~Printed(p), NEW kind \in Kinds PROVE poem[p].number[kind] = 0 /\ Actual(p, kind) = 0
    <3>1. poem[p].number[kind] = 0 /\ \A u \in Fans : <<p, u>> \notin liked
      BY <2>1 DEF HiddenPoemsAreBare
    <3>2. \A c \in Remarks : ~(remark[c].on = p /\ remark[c].st = "approved")
      BY <2>1 DEF ThreadsHang, Hangs, Written, Statuses
    <3>3. LikesOf(p, liked) = 0
      <4>1. {u \in Fans : <<p, u>> \in liked} = {}
        BY <3>1
      <4> QED
        BY <4>1, FS_EmptySet DEF LikesOf
    <3>4. RemarksOf(p, remark) = 0
      <4>1. {c \in Remarks : remark[c].on = p /\ remark[c].st = "approved"} = {}
        BY <3>2
      <4> QED
        BY <4>1, FS_EmptySet DEF RemarksOf
    <3> QED
      BY <3>1, <3>3, <3>4 DEF Actual, Kinds
  <2>2. \A q \in Poems, kind \in Kinds : Actual(q, kind)' = Actual(q, kind)
    BY SameRowsActual DEF PoemsOnly
  <2> QED
    BY <1>1, <2>1, <2>2 DEF PoemsOnly, NumbersCatchUp
<1> QED
  BY <1>2, <1>3, <1>4, <1>5, <1>6, <1>7, <1>8

\* A call looks, or ends.
LEMMA CallLooks ==
  ASSUME ClubInv, RowsStay, NEW r \in Calls, NEW k \in Call, Goes(r, k),
         k.pc # "counting", CallIsSound(k)
  PROVE  ClubInv'
<1> USE DEF ClubInv
<1>1. /\ call' \in [Calls -> Call] /\ call'[r] = k /\ \A q \in Calls \ {r} : call'[q] = call[q]
  BY Types DEF Goes
<1>2. ClubTypeOK'
  BY <1>1, Types, TypesAfter DEF RowsStay
<1>3. ThreadsHang'
  BY SoundWhileRowsStay DEF RowsStay, Printed
<1>4. CallsAreSound'
  BY <1>1, Types, SoundWhileRowsStay DEF RowsStay, CallsAreSound, Printed
<1>5. LocksExclude'
  <2>1. ~Counting(r)' /\ Touches(r)' = {} /\ Needs(r)' = {}
    BY <1>1 DEF Counting, Touches, Needs
  <2>2. \A q \in Calls \ {r} : /\ Touches(q)' = Touches(q) /\ Needs(q)' = Needs(q)
                               /\ Drops(q)' = Drops(q)
                               /\ Doomed(call[q].remark)' = Doomed(call[q].remark)
    BY <1>1, SameRowsDoomed DEF RowsStay, Counting, Touches, Needs, Drops
  <2> QED
    BY <2>1, <2>2 DEF LocksExclude, Drops
<1>6. CountsAreFresh'
  BY <1>1, SameRowsCount DEF RowsStay, CountsAreFresh, Counting
<1>7. HiddenPoemsAreBare'
  BY DEF RowsStay, HiddenPoemsAreBare, Printed
<1>8. NumbersCatchUp'
  BY SameRowsActual DEF RowsStay, NumbersCatchUp, Printed
<1> QED
  BY <1>2, <1>3, <1>4, <1>5, <1>6, <1>7, <1>8

\* The statement of a write takes its rows: they are free, and what an insert
\* names stays.
LEMMA StatementCounts ==
  ASSUME ClubInv, RowsStay, NEW r \in Calls, ~Counting(r), NEW k \in Call, Counts(r, k),
         CountIsSound(k),
         KindOf(k) = "remarks" => /\ AreFree({k.remark})
                                  /\ k.op = "drop" => /\ MayGo(Doomed(k.remark))
                                                      /\ AreFree(Orphaned(k.remark)),
         k.op = "send" => \A q \in Calls : Drops(q) =>
              Doomed(call[q].remark) \cap ({k.parent, k.replyTo} \ {Nothing}) = {}
  PROVE  ClubInv'
<1> USE DEF ClubInv
<1> DEFINE n == [k EXCEPT !.pc = "counting", !.count = CountAfter(k)]
<1>1. /\ n \in Call /\ n.pc = "counting" /\ n.op = k.op /\ n.on = k.on /\ n.by = k.by
      /\ n.remark = k.remark /\ n.parent = k.parent /\ n.replyTo = k.replyTo
      /\ n.st = k.st /\ n.count = CountAfter(k) /\ KindOf(n) = KindOf(k)
  BY CountAfterIsNumber DEF Call, KindOf
<1>2. CountIsSound(n) /\ CallIsSound(n) /\ CountAfter(n) = CountAfter(k)
  <2>1. CountIsSound(n)
    BY <1>1 DEF CountIsSound
  <2>2. CountAfter(n) = CountAfter(k)
    BY <1>1 DEF CountAfter, LikesAfter, RemarksAfter
  <2> QED
    BY <2>1, <2>2, <1>1 DEF CallIsSound
<1>3. call' = [call EXCEPT ![r] = n]
  BY DEF Counts, Goes
<1> HIDE DEF n
<1>4. call' \in [Calls -> Call] /\ call'[r] = n /\ \A q \in Calls \ {r} : call'[q] = call[q]
  BY <1>1, <1>3, Types
<1>5. ClubTypeOK'
  BY <1>4, Types, TypesAfter DEF RowsStay
<1>6. ThreadsHang'
  BY SoundWhileRowsStay DEF RowsStay, Printed
<1>7. CallsAreSound'
  BY <1>1, <1>2, <1>4, Types, SoundWhileRowsStay DEF RowsStay, CallsAreSound, Printed
<1>8. LocksExclude'
  <2>1. \A q \in Calls \ {r} : /\ Touches(q)' = Touches(q) /\ Needs(q)' = Needs(q)
                               /\ Drops(q)' = Drops(q)
                               /\ Doomed(call[q].remark)' = Doomed(call[q].remark)
    BY <1>4, SameRowsDoomed DEF RowsStay, Counting, Touches, Needs, Drops
  <2>2. ASSUME NEW q \in Calls \ {r} PROVE Touches(q) \cap Touches(r)' = {}
    <3>1. CASE KindOf(k) = "likes"
      BY <3>1, <1>1, <1>4 DEF Touches
    <3>2. CASE KindOf(k) # "likes" /\ k.op # "drop"
      <4>1. Touches(r)' = {k.remark}
        BY <3>2, <1>1, <1>4 DEF Touches, Counting
      <4> QED
        BY <4>1, <3>2 DEF KindOf, AreFree
    <3>3. CASE KindOf(k) # "likes" /\ k.op = "drop"
      <4>1. Touches(r)' = Doomed(k.remark) \cup Orphaned(k.remark)
        BY <3>3, <1>1, <1>4, SameRowsDoomed DEF Touches, Counting, RowsStay
      <4>2. Touches(q) \cap Doomed(k.remark) = {} /\ Touches(q) \cap Orphaned(k.remark) = {}
        BY <3>3 DEF KindOf, AreFree, MayGo
      <4> QED
        BY <4>1, <4>2
    <3> QED
      BY <3>1, <3>2, <3>3
  <2>3. ASSUME NEW q \in Calls \ {r}, Drops(q) PROVE Doomed(call[q].remark) \cap Needs(r)' = {}
    BY <2>3, <1>1, <1>4 DEF Needs, Counting
  <2>4. ASSUME NEW q \in Calls \ {r}, Drops(r)' PROVE (Doomed(call[r].remark) \cap Needs(q))' = {}
    <3>1. k.op = "drop" /\ KindOf(k) = "remarks"
      BY <2>4, <1>1, <1>4 DEF Drops, KindOf
    <3>2. Needs(q) \cap Doomed(k.remark) = {}
      BY <3>1 DEF MayGo
    <3>3. call'[r].remark = k.remark
      BY <1>1, <1>4
    <3>4. Doomed(call[r].remark)' = Doomed(k.remark)
      BY <3>3, SameRowsDoomed DEF RowsStay
    <3> QED
      BY <2>1, <3>2, <3>4
  <2> QED
    BY <1>4, <2>1, <2>2, <2>3, <2>4 DEF LocksExclude
<1>9. CountsAreFresh'
  BY <1>1, <1>2, <1>4, SameRowsCount DEF RowsStay, CountsAreFresh, Counting
<1>10. HiddenPoemsAreBare'
  BY DEF RowsStay, HiddenPoemsAreBare, Printed
<1>11. NumbersCatchUp'
  BY SameRowsActual DEF RowsStay, NumbersCatchUp, Printed
<1> QED
  BY <1>5, <1>6, <1>7, <1>8, <1>9, <1>10, <1>11

-----------------------------------------------------------------------------
(* Steps that change the rows.                                             *)

\* A row that was there keeps its place, or goes for good.
RemarksAge ==
    \A c \in Remarks : remark[c].st # "none" =>
        /\ remark'[c].st # "none"
        /\ Written(c)' => /\ Written(c)
                          /\ remark'[c].on = remark[c].on /\ remark'[c].parent = remark[c].parent
                          /\ remark'[c].replyTo \in {remark[c].replyTo, Nothing}

\* The writes that go on counting are those that did, on the same rows.
CallsStand ==
    \A q \in Calls :
        \/ call'[q].pc = "rest"
        \/ /\ call'[q].pc = call[q].pc /\ call'[q].op = call[q].op
           /\ call'[q].on = call[q].on /\ call'[q].by = call[q].by
           /\ call'[q].remark = call[q].remark /\ call'[q].parent = call[q].parent
           /\ call'[q].replyTo = call[q].replyTo
           /\ ~call'[q].late => call'[q] = call[q]

LEMMA SoundStays ==
  ASSUME ClubTypeOK, CallsAreSound, CallsStand, RemarksAge,
         \A q \in Calls : Counting(q)' => CountIsSound(call[q])'
  PROVE  CallsAreSound'
<1>1. \A on : \A parent, replyTo \in Remarks \cup {Nothing} :
        Aimed(on, parent, replyTo) => Aimed(on, parent, replyTo)'
  BY DEF Aimed, RemarksAge
<1>2. ASSUME NEW q \in Calls, call'[q].pc # "rest" PROVE CallIsSound(call[q])'
  <2>1. call[q] \in Call /\ CallIsSound(call[q])
    BY Types DEF CallsAreSound
  <2>2. call[q].parent \in Remarks \cup {Nothing} /\ call[q].replyTo \in Remarks \cup {Nothing}
    BY <2>1 DEF Call
  <2>3. call'[q].pc = "writing" => Aimed(call[q].on, call[q].parent, call[q].replyTo)'
    <3>1. ASSUME call'[q].pc = "writing"
          PROVE  Aimed(call[q].on, call[q].parent, call[q].replyTo)
      BY <2>1, <1>2, <3>1 DEF CallsStand, CallIsSound
    <3> QED
      BY <1>1, <1>2, <2>2, <3>1 DEF CallsStand
  <2> QED
    BY <1>2, <2>1, <2>3 DEF CallsStand, CallIsSound, Counting
<1> QED
  BY <1>2 DEF CallsAreSound, CallIsSound

\* What a deletion touches never grows while it counts, unless a new comment
\* hangs there.
LEMMA DoomedShrinks ==
  ASSUME ClubTypeOK, RemarksAge, NEW x \in Remarks,
         \A c \in Remarks : remark[c].st = "none" /\ Written(c)' =>
             remark'[c].parent # x /\ remark'[c].replyTo \notin Doomed(x)
  PROVE  /\ Doomed(x)' \subseteq Doomed(x)
         /\ Orphaned(x)' \subseteq Doomed(x) \cup Orphaned(x)
<1>1. Doomed(x)' \subseteq Doomed(x)
  BY DEF Doomed, Replies, RemarksAge
<1>2. ASSUME NEW d \in Orphaned(x)', d \notin Doomed(x) PROVE d \in Orphaned(x)
  <2>1. PICK e \in Doomed(x) : d \in Referrers(e)'
    BY <1>1, <1>2 DEF Orphaned
  <2>2. e \in Remarks /\ e # Nothing
    BY ClubAssumption DEF Doomed, Replies
  <2>3. d \in Referrers(e)
    BY <2>1, <2>2 DEF Referrers, RemarksAge
  <2>4. Referrers(e) \in {Referrers(f) : f \in Doomed(x)}
    BY <2>1
  <2> QED
    BY <1>2, <2>3, <2>4 DEF Orphaned
<1> QED
  BY <1>1, <1>2

LEMMA LocksStay ==
  ASSUME LocksExclude, CallsStand,
         \A q \in Calls : Drops(q)' =>
            /\ Doomed(call[q].remark)' \subseteq Doomed(call[q].remark)
            /\ Orphaned(call[q].remark)' \subseteq Doomed(call[q].remark) \cup Orphaned(call[q].remark)
  PROVE  LocksExclude'
<1>1. \A q \in Calls : Touches(q)' \subseteq Touches(q)
  BY DEF CallsStand, Touches, Counting, KindOf, Drops
<1>2. \A q \in Calls : Needs(q)' \subseteq Needs(q)
  BY DEF CallsStand, Needs, Counting
<1>3. \A q \in Calls : Drops(q)' => Drops(q)
  BY DEF CallsStand, Drops, Counting
<1> QED
  BY <1>1, <1>2, <1>3 DEF LocksExclude

\* A count stays fresh while its poem's likes, or comments, stand.
LEMMA FreshStays ==
  ASSUME ClubTypeOK, ClubTypeOK', ThreadsHang, ThreadsHang', CallsAreSound, CallsAreSound',
         CountsAreFresh, CallsStand,
         \A q \in Calls : Counting(q)' /\ ~call'[q].late =>
            /\ KindOf(call[q]) = "likes" => LikesStand(call[q].on)
            /\ KindOf(call[q]) = "remarks" => RemarksStand(call[q].on)
  PROVE  CountsAreFresh'
<1> SUFFICES ASSUME NEW q \in Calls, Counting(q)', ~call'[q].late
             PROVE  call'[q].count = CountAfter(call[q])'
  BY DEF CountsAreFresh
<1>1. call'[q] = call[q] /\ Counting(q) /\ ~call[q].late /\ call[q] \in Call
  BY Types DEF CallsStand, Counting
<1>2. CountIsSound(call[q]) /\ CountIsSound(call[q])'
  BY <1>1 DEF CallsAreSound, CallIsSound, Counting
<1>3. \A k \in Call : k = call[q] => CountAfter(k)' = CountAfter(k)
  <2> SUFFICES ASSUME NEW k \in Call, k = call[q] PROVE CountAfter(k)' = CountAfter(k)
    OBVIOUS
  <2>1. CASE KindOf(k) = "likes"
    BY <2>1, StandingLikes
  <2>2. CASE KindOf(k) = "remarks"
    <3>1. CountIsSound(k) /\ CountIsSound(k)'
      BY <1>1, <1>2
    <3> QED
      BY <2>2, <3>1, StandingRemarks
  <2> QED
    BY <2>1, <2>2 DEF KindOf
<1>4. CountAfter(call[q])' = CountAfter(call[q])
  BY <1>1, <1>3
<1> QED
  BY <1>1, <1>4 DEF CountsAreFresh

\* Rows S go: with a root its replies, and an answer forgets whom it answered.
RemarksGo(S) ==
    \A c \in Remarks :
        /\ c \in S => remark'[c] = Gone
        /\ c \notin S =>
             /\ remark'[c].st = remark[c].st /\ remark'[c].on = remark[c].on
             /\ remark'[c].parent = remark[c].parent
             /\ Written(c) => remark'[c].replyTo = IF remark[c].replyTo \in S THEN Nothing
                                                   ELSE remark[c].replyTo

LEMMA ThreadsGoWhole ==
  ASSUME ClubTypeOK, ThreadsHang, NEW S \in SUBSET Remarks, RemarksGo(S),
         \A c \in S : remark[c].st # "none",
         \A c \in Remarks : Written(c) /\ remark[c].parent \in S => c \in S,
         \A c \in Remarks \ S : Written(c) => Printed(remark[c].on)'
  PROVE  /\ RemarksAge /\ ThreadsHang'
         /\ \A c \in Remarks : remark[c].st = "none" => remark'[c].st = "none"
         /\ \A on : \A parent, replyTo \in (Remarks \cup {Nothing}) \ S :
              Hangs(on, parent, replyTo) /\ Printed(on)' => Hangs(on, parent, replyTo)'
<1>1. Nothing \notin S /\ Gone.st = "gone"
  BY ClubAssumption DEF Gone, NoRemark
<1>2. \A c \in Remarks : remark[c].st = "none" => remark'[c].st = "none"
  BY DEF RemarksGo
<1>3. \A c \in Remarks : Written(c)' <=> Written(c) /\ c \notin S
  BY <1>1 DEF RemarksGo, Written, Statuses
<1>4. RemarksAge
  BY <1>1, <1>3 DEF RemarksGo, RemarksAge
<1>5. \A on : \A parent, replyTo \in (Remarks \cup {Nothing}) \ S :
        Hangs(on, parent, replyTo) /\ Printed(on)' => Hangs(on, parent, replyTo)'
  BY <1>3 DEF Hangs, RemarksGo
<1>6. ASSUME NEW c \in Remarks, Written(c)'
      PROVE  Hangs(remark[c].on, remark[c].parent, remark[c].replyTo)'
  <2>1. /\ Written(c) /\ c \notin S /\ remark'[c].on = remark[c].on
        /\ remark'[c].parent = remark[c].parent
        /\ remark'[c].replyTo \in {remark[c].replyTo, Nothing} \ S
        /\ Printed(remark[c].on)'
    BY <1>1, <1>3, <1>6 DEF RemarksGo, Printed
  <2>2. Hangs(remark[c].on, remark[c].parent, remark[c].replyTo)
    BY <2>1 DEF ThreadsHang
  <2>3. /\ remark[c].parent \in (Remarks \cup {Nothing}) \ S
        /\ remark[c].replyTo \in Remarks \cup {Nothing}
    BY <2>1, Types DEF Remark
  <2> QED
    BY <1>3, <2>1, <2>2, <2>3 DEF Hangs, RemarksGo, Printed
<1>7. \A c \in Remarks : ~Written(c)' => remark'[c].on = Nothing
  BY <1>1, <1>3 DEF RemarksGo, Gone, NoRemark, ThreadsHang
<1> QED
  BY <1>2, <1>4, <1>5, <1>6, <1>7 DEF ThreadsHang

-----------------------------------------------------------------------------
(* A poem is deleted.                                                      *)

LEMMA PoemIsDeleted ==
  ASSUME ClubInv, NEW p \in Poems, DeletePoem(p)
  PROVE  ClubInv'
<1> USE DEF ClubInv
<1> DEFINE S == {c \in Remarks : remark[c].on = p}
<1>1. /\ poem' \in [Poems -> Poem] /\ ~Printed(p)'
      /\ \A kind \in Kinds : poem'[p].number[kind] = 0
      /\ \A q \in Poems \ {p} : poem'[q] = poem[q] /\ (Printed(q)' <=> Printed(q))
  BY Types DEF DeletePoem, Poem, NoPoem, Printed, Statuses
<1>2. call' = call /\ CallsStand
  BY DEF DeletePoem, CallsStand
<1>3. remark' \in [Remarks -> Remark]
  BY Types DEF DeletePoem, Remark, Gone, NoRemark
<1>4. ClubTypeOK'
  BY <1>1, <1>2, <1>3, Types, TypesAfter DEF DeletePoem
<1>5. p # Nothing /\ RemarksGo(S)
  <2>1. p # Nothing /\ \A c \in Remarks : remark'[c] = IF remark[c].on = p THEN Gone ELSE remark[c]
    BY ClubAssumption DEF DeletePoem
  <2>2. ASSUME NEW c \in Remarks, Written(c), remark[c].on # p, remark[c].replyTo # Nothing
        PROVE  remark[c].replyTo \notin S
    BY <2>2, Types DEF ThreadsHang, Hangs, Remark
  <2>3. Nothing \notin S
    BY ClubAssumption
  <2> QED
    BY <2>1, <2>2, <2>3 DEF RemarksGo
<1> HIDE DEF S
<1>6. /\ RemarksAge /\ ThreadsHang'
      /\ \A c \in Remarks : remark[c].st = "none" => remark'[c].st = "none"
      /\ \A on : \A parent, replyTo \in (Remarks \cup {Nothing}) \ S :
           Hangs(on, parent, replyTo) /\ Printed(on)' => Hangs(on, parent, replyTo)'
  <2>1. S \in SUBSET Remarks
    BY DEF S
  <2>2. \A c \in S : remark[c].st # "none"
    BY <1>5 DEF S, ThreadsHang, Written, Statuses
  <2>3. \A c \in Remarks : Written(c) /\ remark[c].parent \in S => c \in S
    BY ClubAssumption DEF S, ThreadsHang, Hangs
  <2>4. \A c \in Remarks \ S : Written(c) => Printed(remark[c].on)'
    BY <1>1, <1>5 DEF S, ThreadsHang, Hangs, RemarksGo, Printed
  <2> QED
    BY <1>5, <2>1, <2>2, <2>3, <2>4, ThreadsGoWhole
<1>7. ASSUME NEW q \in Calls, Counting(q)' PROVE CountIsSound(call[q])'
  <2>1. Counting(q) /\ call[q].on # p /\ CountIsSound(call[q]) /\ call[q] \in Call
    BY <1>2, <1>7, Types DEF DeletePoem, Counting, CallsAreSound, CallIsSound
  <2>2. call[q].on \in Poems /\ Printed(call[q].on)'
    BY <1>1, <1>2, <2>1 DEF CountIsSound, Printed
  <2>3. ASSUME call[q].op = "send" PROVE Hangs(call[q].on, call[q].parent, call[q].replyTo)'
    <3>1. Hangs(call[q].on, call[q].parent, call[q].replyTo)
      BY <2>1, <2>3 DEF CountIsSound
    <3>2. /\ call[q].parent \in (Remarks \cup {Nothing}) \ S
          /\ call[q].replyTo \in (Remarks \cup {Nothing}) \ S
      BY <2>1, <3>1, ClubAssumption DEF S, Hangs, Call, ThreadsHang
    <3> QED
      BY <1>2, <1>6, <2>2, <3>1, <3>2 DEF Printed
  <2>4. call[q].op \in {"decide", "drop"} =>
          Written(call[q].remark)' /\ remark'[call[q].remark].on = call[q].on
    BY <1>2, <1>5, <2>1 DEF CountIsSound, KindOf, RemarksGo, S, Written
  <2>5. call[q].op = "send" => remark'[call[q].remark].st = "none"
    BY <1>6, <2>1 DEF CountIsSound, KindOf
  <2> QED
    BY <1>2, <2>1, <2>2, <2>3, <2>4, <2>5 DEF CountIsSound, KindOf, Written
<1>8. CallsAreSound'
  BY <1>2, <1>6, <1>7, SoundStays
<1>9. LocksExclude'
  <2>1. ASSUME NEW q \in Calls, Drops(q)'
        PROVE  /\ Doomed(call[q].remark)' \subseteq Doomed(call[q].remark)
               /\ Orphaned(call[q].remark)'
                    \subseteq Doomed(call[q].remark) \cup Orphaned(call[q].remark)
    <3>1. call[q].remark \in Remarks
      BY <1>2, <2>1 DEF Drops, Counting, CallsAreSound, CallIsSound, CountIsSound, KindOf
    <3>2. \A x \in Remarks : /\ Doomed(x)' \subseteq Doomed(x)
                             /\ Orphaned(x)' \subseteq Doomed(x) \cup Orphaned(x)
      BY <1>6, DoomedShrinks DEF Written, Statuses
    <3> QED
      BY <1>2, <3>1, <3>2
  <2> QED
    BY <1>2, <2>1, LocksStay
<1>10. \A q \in Poems \ {p} : LikesStand(q) /\ RemarksStand(q)
  <2>1. \A q \in Poems \ {p} : LikesStand(q)
    BY DEF DeletePoem, LikesStand
  <2>2. \A q \in Poems \ {p} : RemarksStand(q)
    BY ClubAssumption, <1>5 DEF RemarksStand, RemarksGo, S, Gone, NoRemark
  <2> QED
    BY <2>1, <2>2
<1>11. CountsAreFresh'
  <2>1. \A q \in Calls : Counting(q)' => call[q].on \in Poems \ {p}
    BY <1>2 DEF DeletePoem, Counting, CallsAreSound, CallIsSound, CountIsSound
  <2> QED
    BY <1>2, <1>4, <1>6, <1>8, <1>10, <2>1, FreshStays
<1>12. HiddenPoemsAreBare'
  BY <1>1 DEF DeletePoem, HiddenPoemsAreBare
<1>13. NumbersCatchUp'
  <2>1. \A q \in Poems \ {p}, kind \in Kinds : Actual(q, kind)' = Actual(q, kind)
    BY <1>10, StandingActual DEF Kinds
  <2>2. \A q \in Poems \ {p}, kind \in Kinds : <<q, kind>> \notin blurred' => <<q, kind>> \notin blurred
    BY DEF DeletePoem
  <2> QED
    BY <1>1, <2>1, <2>2 DEF NumbersCatchUp
<1> QED
  BY <1>4, <1>6, <1>8, <1>9, <1>11, <1>12, <1>13

-----------------------------------------------------------------------------
(* A write commits.                                                        *)

LEMMA CommitsCall ==
  ASSUME ClubInv, NEW r \in Calls, Commit(r)
  PROVE  /\ call[r] \in Call /\ Counting(r) /\ CountIsSound(call[r])
         /\ call' \in [Calls -> Call] /\ CallsStand
         /\ \A q \in Calls : Counting(q)' => q # r /\ Counting(q)
         /\ \A q \in Calls : Counting(q)' /\ ~call'[q].late =>
              <<call[q].on, KindOf(call[q])>> # <<call[r].on, KindOf(call[r])>>
<1>1. call[r] \in Call /\ Counting(r) /\ CountIsSound(call[r])
  BY Types DEF ClubInv, Commit, CallsAreSound, CallIsSound, Counting
<1>2. AtRest \in Call /\ AtRest.pc = "rest"
  BY DEF AtRest, Call, Writes, Statuses
<1> DEFINE Late(q) == Counting(q) /\ <<call[q].on, KindOf(call[q])>> = <<call[r].on, KindOf(call[r])>>
<1>3. call' = [q \in Calls |-> IF q = r THEN AtRest
                              ELSE [call[q] EXCEPT !.late = @ \/ Late(q)]]
  BY DEF Commit
<1>4. call'[r] = AtRest
  BY <1>3
<1>5. ASSUME NEW q \in Calls \ {r}
      PROVE  /\ call'[q] \in Call
             /\ call'[q].pc = call[q].pc /\ call'[q].op = call[q].op
             /\ call'[q].on = call[q].on /\ call'[q].by = call[q].by
             /\ call'[q].remark = call[q].remark /\ call'[q].parent = call[q].parent
             /\ call'[q].replyTo = call[q].replyTo
             /\ ~call'[q].late => ~Late(q) /\ call'[q] = call[q]
  <2>1. call[q] \in Call
    BY Types DEF ClubInv
  <2>2. PICK b \in BOOLEAN : /\ call'[q] = [call[q] EXCEPT !.late = b]
                             /\ b <=> call[q].late \/ Late(q)
    BY <1>3, <2>1 DEF Call
  <2> HIDE DEF Late
  <2>3. ~b => call[q].late = b /\ [call[q] EXCEPT !.late = b] = call[q]
    BY <2>1, <2>2 DEF Call
  <2> QED
    BY <2>1, <2>2, <2>3 DEF Call
<1>6. call' \in [Calls -> Call]
  <2>1. \A q \in Calls : call'[q] \in Call
    BY <1>2, <1>4, <1>5
  <2> QED
    BY <1>3, <2>1
<1> QED
  BY <1>1, <1>2, <1>4, <1>5, <1>6 DEF CallsStand, Counting

LEMMA CommitsPoem ==
  ASSUME ClubInv, NEW r \in Calls, Commit(r)
  PROVE  LET k == call[r]
         IN  /\ poem' \in [Poems -> Poem]
             /\ \A p : Printed(p)' <=> Printed(p)
             /\ \A p \in Poems, kind \in Kinds :
                  poem'[p].number[kind] =
                     IF <<p, kind>> # <<k.on, KindOf(k)>> THEN poem[p].number[kind]
                     ELSE IF CountsAgain(k) THEN CountAfter(k) ELSE k.count
<1> DEFINE k == call[r]
           n == IF CountsAgain(k) THEN CountAfter(k) ELSE k.count
<1>1. k \in Call /\ k.on \in Poems /\ KindOf(k) \in Kinds
  BY CommitsCall DEF CountIsSound, KindOf, Kinds
<1>2. n \in Nat
  BY <1>1, CountAfterIsNumber DEF Call
<1>3. poem' = [poem EXCEPT ![k.on].number[KindOf(k)] = n]
  BY DEF Commit, Stored
<1> HIDE DEF k, n
<1>4. poem \in [Poems -> Poem]
  BY Types DEF ClubInv
<1>5. /\ poem' \in [Poems -> Poem]
      /\ \A p \in Poems : poem'[p].st = poem[p].st
      /\ \A p \in Poems, kind \in Kinds :
           poem'[p].number[kind] = IF p = k.on /\ kind = KindOf(k) THEN n
                                   ELSE poem[p].number[kind]
  BY <1>1, <1>2, <1>3, <1>4 DEF Poem
<1>6. \A p : Printed(p)' <=> Printed(p)
  BY <1>3, <1>4, <1>5 DEF Printed
<1> QED
  BY <1>5, <1>6 DEF k, n

\* What the four kinds of write have to show for their rows.
LEMMA ClubCommitKeeps ==
  ASSUME ClubInv, NEW r \in Calls, Commit(r),
         liked' \subseteq Poems \X Fans, remark' \in [Remarks -> Remark],
         ThreadsHang', RemarksAge,
         \A q \in Calls : Counting(q)' => CountIsSound(call[q])',
         \A q \in Calls : Drops(q)' =>
            /\ Doomed(call[q].remark)' \subseteq Doomed(call[q].remark)
            /\ Orphaned(call[q].remark)' \subseteq Doomed(call[q].remark) \cup Orphaned(call[q].remark),
         \A p \in Poems, u \in Fans : <<p, u>> \in liked' => <<p, u>> \in liked \/ p = call[r].on,
         \A p \in Poems : /\ <<p, "likes">> # <<call[r].on, KindOf(call[r])>> => LikesStand(p)
                          /\ <<p, "remarks">> # <<call[r].on, KindOf(call[r])>> => RemarksStand(p)
  PROVE  ClubInv'
<1> DEFINE k == call[r]
           n == <<k.on, KindOf(k)>>
<1>1. /\ k \in Call /\ Counting(r) /\ CountIsSound(k)
      /\ call' \in [Calls -> Call] /\ CallsStand
      /\ \A q \in Calls : Counting(q)' => q # r /\ Counting(q)
      /\ \A q \in Calls : Counting(q)' /\ ~call'[q].late => <<call[q].on, KindOf(call[q])>> # n
  BY CommitsCall
<1>2. /\ poem' \in [Poems -> Poem]
      /\ \A p : Printed(p)' <=> Printed(p)
      /\ \A p \in Poems, kind \in Kinds :
           poem'[p].number[kind] = IF <<p, kind>> # n THEN poem[p].number[kind]
                                   ELSE IF CountsAgain(k) THEN CountAfter(k) ELSE k.count
  BY CommitsPoem
<1>3. k.on \in Poems /\ KindOf(k) \in Kinds /\ Printed(k.on)
  BY <1>1 DEF CountIsSound, KindOf, Kinds
<1>4. liked' = LikesAfter(k) /\ remark' = RemarksAfter(k)
  BY DEF Commit
<1>5. blurred' = IF k.late /\ ~CountsAgain(k) THEN blurred \cup {n} ELSE blurred \ {n}
  BY DEF Commit
<1>6. /\ ClubTypeOK /\ ThreadsHang /\ CallsAreSound /\ LocksExclude /\ CountsAreFresh
      /\ HiddenPoemsAreBare /\ NumbersCatchUp
  BY DEF ClubInv
<1>7. \A p \in Poems, kind \in Kinds : <<p, kind>> # n => Actual(p, kind)' = Actual(p, kind)
  BY StandingActual DEF Kinds
<1>8. Actual(k.on, KindOf(k)) \in Nat /\ CountAfter(k) =
        IF KindOf(k) = "likes" THEN LikesOf(k.on, liked') ELSE RemarksOf(k.on, remark')
  BY <1>4, CountsAreNumbers DEF CountAfter, Actual
<1>9. \A p \in Poems, kind \in Kinds : <<p, kind>> = n => Actual(p, kind)' = CountAfter(k)
  BY <1>8 DEF Actual
<1>10. ~k.late => k.count = CountAfter(k)
  BY <1>1, <1>6 DEF CountsAreFresh
<1> HIDE DEF k, n
<1>11. ClubTypeOK'
  <2>1. blurred' \subseteq Poems \X Kinds
    BY <1>3, <1>5, <1>6, Types DEF n
  <2> QED
    BY <1>1, <1>2, <2>1, TypesAfter
<1>12. CallsAreSound'
  BY <1>1, <1>6, SoundStays
<1>13. LocksExclude'
  BY <1>1, <1>6, LocksStay
<1>14. CountsAreFresh'
  <2>1. ASSUME NEW q \in Calls, Counting(q)', ~call'[q].late
        PROVE  /\ KindOf(call[q]) = "likes" => LikesStand(call[q].on)
               /\ KindOf(call[q]) = "remarks" => RemarksStand(call[q].on)
    <3>1. call[q].on \in Poems /\ <<call[q].on, KindOf(call[q])>> # n
      BY <1>1, <1>6, <2>1 DEF CallsAreSound, CallIsSound, CountIsSound, Counting
    <3> QED
      BY <3>1 DEF n, k
  <2> QED
    BY <1>1, <1>6, <1>11, <1>12, <2>1, FreshStays
<1>15. HiddenPoemsAreBare'
  <2>1. ASSUME NEW p \in Poems, ~Printed(p)' PROVE p # k.on /\ ~Printed(p)
    BY <1>2, <1>3, <2>1
  <2> QED
    BY <1>2, <1>6, <2>1 DEF HiddenPoemsAreBare, n, k
<1>16. NumbersCatchUp'
  <2>1. ASSUME NEW p \in Poems, NEW kind \in Kinds, Printed(p)', <<p, kind>> \notin blurred'
        PROVE  poem'[p].number[kind] = Actual(p, kind)'
    <3>1. CASE <<p, kind>> = n
      BY <2>1, <3>1, <1>2, <1>5, <1>9, <1>10
    <3>2. CASE <<p, kind>> # n
      BY <2>1, <3>2, <1>2, <1>5, <1>6, <1>7 DEF NumbersCatchUp
    <3> QED
      BY <3>1, <3>2
  <2> QED
    BY <2>1 DEF NumbersCatchUp
<1> QED
  BY <1>11, <1>12, <1>13, <1>14, <1>15, <1>16 DEF ClubInv

LEMMA CountStaysSound ==
  ASSUME ClubInv, CallsStand, NEW q \in Calls, Counting(q)', Counting(q),
         \A p : Printed(p)' <=> Printed(p),
         call[q].op = "send" =>
            /\ remark'[call[q].remark].st = "none"
            /\ Hangs(call[q].on, call[q].parent, call[q].replyTo)',
         call[q].op \in {"decide", "drop"} =>
            Written(call[q].remark)' /\ remark'[call[q].remark].on = call[q].on
  PROVE  CountIsSound(call[q])'
<1>1. /\ call'[q].op = call[q].op /\ call'[q].on = call[q].on /\ call'[q].by = call[q].by
      /\ call'[q].remark = call[q].remark
  BY DEF CallsStand, Counting
<1>2. CountIsSound(call[q])
  BY DEF ClubInv, CallsAreSound, CallIsSound, Counting
<1> QED
  BY <1>1, <1>2 DEF CountIsSound, KindOf

LEMMA CommitOfLike ==
  ASSUME ClubInv, NEW r \in Calls, Commit(r), KindOf(call[r]) = "likes"
  PROVE  ClubInv'
<1> DEFINE k == call[r]
<1>1. /\ k \in Call /\ CountIsSound(k) /\ CallsStand
      /\ \A q \in Calls : Counting(q)' => q # r /\ Counting(q)
  BY CommitsCall
<1>2. \A p : Printed(p)' <=> Printed(p)
  BY CommitsPoem
<1>3. k.op \in {"like", "unlike"} /\ k.on \in Poems /\ k.by \in Fans
  BY <1>1 DEF KindOf, CountIsSound
<1>4. /\ liked' = IF k.op = "like" THEN liked \cup {<<k.on, k.by>>} ELSE liked \ {<<k.on, k.by>>}
      /\ remark' = remark
  BY <1>3 DEF Commit, LikesAfter, RemarksAfter
<1>5. ClubTypeOK /\ ThreadsHang
  BY DEF ClubInv
<1> HIDE DEF k
<1>6. liked' \subseteq Poems \X Fans /\ remark' \in [Remarks -> Remark]
  BY <1>3, <1>4, <1>5, Types
<1>7. ThreadsHang'
  BY <1>2, <1>4, <1>5, SoundWhileRowsStay
<1>8. RemarksAge
  BY <1>4 DEF RemarksAge, Written
<1>9. ASSUME NEW q \in Calls, Counting(q)' PROVE CountIsSound(call[q])'
  <2>1. CountIsSound(call[q]) /\ Counting(q)
    BY <1>1, <1>9 DEF ClubInv, CallsAreSound, CallIsSound, Counting
  <2>2. /\ call'[q].on = call[q].on /\ call'[q].parent = call[q].parent
        /\ call'[q].replyTo = call[q].replyTo /\ call'[q].remark = call[q].remark
    BY <1>1, <1>9 DEF CallsStand, Counting
  <2>3. call[q].op = "send" =>
            /\ remark'[call[q].remark].st = "none"
            /\ Hangs(call[q].on, call[q].parent, call[q].replyTo)'
    BY <1>2, <1>4, <2>1, <2>2, SameRowsDoomed DEF CountIsSound, Hangs
  <2>4. call[q].op \in {"decide", "drop"} =>
            Written(call[q].remark)' /\ remark'[call[q].remark].on = call[q].on
    BY <1>4, <2>1, <2>2, SameRowsDoomed DEF CountIsSound
  <2> QED
    BY <1>1, <1>2, <1>9, <2>1, <2>3, <2>4, CountStaysSound
<1>10. \A q \in Calls : Drops(q)' =>
            /\ Doomed(call[q].remark)' \subseteq Doomed(call[q].remark)
            /\ Orphaned(call[q].remark)' \subseteq Doomed(call[q].remark) \cup Orphaned(call[q].remark)
  BY <1>1, <1>4, SameRowsDoomed DEF CallsStand, Drops, Counting
<1>11. \A p \in Poems, u \in Fans : <<p, u>> \in liked' => <<p, u>> \in liked \/ p = k.on
  BY <1>4
<1>12. \A p \in Poems : /\ <<p, "likes">> # <<k.on, KindOf(k)>> => LikesStand(p)
                        /\ RemarksStand(p)
  BY <1>4 DEF LikesStand, RemarksStand, k
<1> QED
  BY <1>6, <1>7, <1>8, <1>9, <1>10, <1>11, <1>12, ClubCommitKeeps DEF k

LEMMA CommitOfComment ==
  ASSUME ClubInv, NEW r \in Calls, Commit(r), call[r].op = "send"
  PROVE  ClubInv'
<1> DEFINE k == call[r]
           c == k.remark
<1>1. /\ k \in Call /\ Counting(r) /\ CountIsSound(k) /\ CallsStand
      /\ \A q \in Calls : Counting(q)' => q # r /\ Counting(q)
  BY CommitsCall
<1>2. \A p : Printed(p)' <=> Printed(p)
  BY CommitsPoem
<1>3. KindOf(k) = "remarks" /\ c \in Remarks /\ k.on \in Poems
      /\ remark[c].st = "none" /\ Hangs(k.on, k.parent, k.replyTo)
  BY <1>1 DEF KindOf, CountIsSound
<1>4. /\ liked' = liked
      /\ remark' = [remark EXCEPT ![c] = [st |-> "held", on |-> k.on, parent |-> k.parent,
                                          replyTo |-> k.replyTo]]
  BY DEF Commit, LikesAfter, RemarksAfter
<1>5. ClubTypeOK /\ ThreadsHang /\ LocksExclude
  BY DEF ClubInv
<1>6. liked' \subseteq Poems \X Fans /\ remark' \in [Remarks -> Remark]
  BY <1>1, <1>3, <1>4, <1>5, Types DEF Remark, Call, Statuses
<1>7. /\ Needs(r) = {k.parent, k.replyTo} \ {Nothing} /\ Touches(r) = {c}
  BY <1>1, <1>3 DEF Needs, Touches
<1> HIDE DEF k
<1>8. /\ remark'[c].st = "held" /\ remark'[c].on = k.on /\ remark'[c].parent = k.parent
      /\ remark'[c].replyTo = k.replyTo
      /\ \A d \in Remarks \ {c} : remark'[d] = remark[d]
      /\ \A d \in Remarks : Written(d)' <=> Written(d) \/ d = c
      /\ ~Written(c)
  BY <1>3, <1>4, <1>5, Types DEF Written, Statuses
<1> HIDE DEF c
<1>9. RemarksAge
  BY <1>3, <1>8 DEF RemarksAge
<1>10. \A on : \A parent, replyTo \in Remarks \cup {Nothing} :
         Hangs(on, parent, replyTo) => Hangs(on, parent, replyTo)'
  BY <1>2, <1>8 DEF Hangs
<1>11. ThreadsHang'
  <2>1. ASSUME NEW d \in Remarks, Written(d)'
        PROVE  Hangs(remark[d].on, remark[d].parent, remark[d].replyTo)'
    <3>1. Hangs(remark'[d].on, remark'[d].parent, remark'[d].replyTo)
      BY <1>3, <1>5, <1>8, <2>1 DEF ThreadsHang
    <3>2. remark'[d].parent \in Remarks \cup {Nothing} /\ remark'[d].replyTo \in Remarks \cup {Nothing}
      BY <1>6 DEF Remark
    <3> QED
      BY <1>10, <3>1, <3>2
  <2>2. \A d \in Remarks : ~Written(d)' => remark'[d].on = Nothing
    BY <1>5, <1>8 DEF ThreadsHang
  <2> QED
    BY <2>1, <2>2 DEF ThreadsHang
<1>12. ASSUME NEW q \in Calls, Counting(q)' PROVE CountIsSound(call[q])'
  <2>1. q # r /\ CountIsSound(call[q]) /\ Counting(q) /\ call[q] \in Call
    BY <1>1, <1>12, Types DEF ClubInv, CallsAreSound, CallIsSound, Counting
  <2>2. /\ call'[q].on = call[q].on /\ call'[q].parent = call[q].parent
        /\ call'[q].replyTo = call[q].replyTo /\ call'[q].remark = call[q].remark
    BY <1>1, <1>12 DEF CallsStand, Counting
  <2>3. KindOf(call[q]) = "remarks" => call[q].remark \in Remarks /\ call[q].remark # c
    <3>1. ASSUME KindOf(call[q]) = "remarks" PROVE call[q].remark \in Touches(q)
      BY <2>1, <3>1 DEF Touches, Doomed, KindOf
    <3>2. c \notin Touches(q)
      BY <1>5, <1>7, <2>1 DEF LocksExclude
    <3> QED
      BY <2>1, <3>1, <3>2 DEF CountIsSound
  <2>4. ASSUME call[q].op = "send"
        PROVE  /\ remark'[call[q].remark].st = "none"
               /\ Hangs(call[q].on, call[q].parent, call[q].replyTo)'
    <3>1. Hangs(call[q].on, call[q].parent, call[q].replyTo)
      BY <2>1, <2>4 DEF CountIsSound
    <3>2. call[q].parent \in Remarks \cup {Nothing} /\ call[q].replyTo \in Remarks \cup {Nothing}
      BY <2>1 DEF Call
    <3> QED
      BY <1>8, <1>10, <2>1, <2>2, <2>3, <2>4, <3>1, <3>2 DEF CountIsSound, KindOf
  <2>5. call[q].op \in {"decide", "drop"} =>
            Written(call[q].remark)' /\ remark'[call[q].remark].on = call[q].on
    BY <1>8, <2>1, <2>2, <2>3 DEF CountIsSound, KindOf
  <2> QED
    BY <1>1, <1>2, <1>12, <2>1, <2>4, <2>5, CountStaysSound
<1>13. ASSUME NEW q \in Calls, Drops(q)'
       PROVE /\ Doomed(call[q].remark)' \subseteq Doomed(call[q].remark)
             /\ Orphaned(call[q].remark)' \subseteq Doomed(call[q].remark) \cup Orphaned(call[q].remark)
  <2>1. q # r /\ Drops(q) /\ call'[q].remark = call[q].remark /\ call[q].remark \in Remarks
    BY <1>1, <1>13 DEF CallsStand, Drops, Counting, ClubInv, CallsAreSound, CallIsSound, CountIsSound, KindOf
  <2>2. Doomed(call[q].remark) \cap ({k.parent, k.replyTo} \ {Nothing}) = {}
    BY <1>5, <1>7, <2>1 DEF LocksExclude
  <2>3. \A x \in Remarks : Doomed(x) \subseteq Remarks /\ x \in Doomed(x)
    BY DEF Doomed, Replies
  <2>4. \A x \in Remarks : Doomed(x) \cap ({k.parent, k.replyTo} \ {Nothing}) = {} =>
          /\ Doomed(x)' \subseteq Doomed(x)
          /\ Orphaned(x)' \subseteq Doomed(x) \cup Orphaned(x)
    <3> SUFFICES ASSUME NEW x \in Remarks, Doomed(x) \cap ({k.parent, k.replyTo} \ {Nothing}) = {}
                 PROVE  /\ Doomed(x)' \subseteq Doomed(x)
                        /\ Orphaned(x)' \subseteq Doomed(x) \cup Orphaned(x)
      OBVIOUS
    <3>1. k.parent # x /\ k.replyTo \notin Doomed(x)
      BY <2>3, ClubAssumption
    <3>2. \A d \in Remarks : remark[d].st = "none" /\ Written(d)' => d = c
      BY <1>8 DEF Written, Statuses
    <3> QED
      BY <1>5, <1>8, <1>9, <3>1, <3>2, DoomedShrinks
  <2> QED
    BY <2>1, <2>2, <2>4
<1>14. \A p \in Poems : /\ LikesStand(p)
                        /\ p # k.on => RemarksStand(p)
  <2>1. \A p \in Poems : remark[c].on # p
    BY <1>3, <1>5, <1>8, ClubAssumption DEF ThreadsHang
  <2> QED
    BY <1>4, <1>8, <2>1 DEF LikesStand, RemarksStand
<1>15. \A p \in Poems : /\ <<p, "likes">> # <<k.on, KindOf(k)>> => LikesStand(p)
                        /\ <<p, "remarks">> # <<k.on, KindOf(k)>> => RemarksStand(p)
  BY <1>3, <1>14
<1>16. \A p \in Poems, u \in Fans : <<p, u>> \in liked' => <<p, u>> \in liked \/ p = k.on
  BY <1>4
<1> QED
  BY <1>6, <1>9, <1>11, <1>12, <1>13, <1>15, <1>16, ClubCommitKeeps DEF k

LEMMA CommitOfDecision ==
  ASSUME ClubInv, NEW r \in Calls, Commit(r), call[r].op = "decide"
  PROVE  ClubInv'
<1> DEFINE k == call[r]
           c == k.remark
<1>1. /\ k \in Call /\ Counting(r) /\ CountIsSound(k) /\ CallsStand
      /\ \A q \in Calls : Counting(q)' => q # r /\ Counting(q)
  BY CommitsCall
<1>2. \A p : Printed(p)' <=> Printed(p)
  BY CommitsPoem
<1>3. /\ KindOf(k) = "remarks" /\ c \in Remarks /\ k.on \in Poems
      /\ Written(c) /\ remark[c].on = k.on /\ k.st \in Statuses
  BY <1>1 DEF KindOf, CountIsSound, Call
<1>4. liked' = liked /\ remark' = [remark EXCEPT ![c].st = k.st]
  BY DEF Commit, LikesAfter, RemarksAfter
<1>5. ClubTypeOK /\ ThreadsHang
  BY DEF ClubInv
<1> HIDE DEF k, c
<1>6. liked' \subseteq Poems \X Fans /\ remark' \in [Remarks -> Remark]
  BY <1>3, <1>4, <1>5, Types DEF Remark
<1>7. /\ \A d \in Remarks \ {c} : remark'[d] = remark[d]
      /\ \A d \in Remarks : /\ remark'[d].on = remark[d].on /\ remark'[d].parent = remark[d].parent
                            /\ remark'[d].replyTo = remark[d].replyTo
                            /\ Written(d)' <=> Written(d)
      /\ Written(c)
  BY <1>3, <1>4, <1>5, Types DEF Written, Remark
<1>8. RemarksAge
  BY <1>3, <1>7 DEF RemarksAge, Written, Statuses
<1>9. \A on : \A parent, replyTo \in Remarks \cup {Nothing} :
         Hangs(on, parent, replyTo) => Hangs(on, parent, replyTo)'
  BY <1>2, <1>7 DEF Hangs
<1>10. ThreadsHang'
  <2>1. ASSUME NEW d \in Remarks, Written(d)'
        PROVE  Hangs(remark[d].on, remark[d].parent, remark[d].replyTo)'
    <3>1. Hangs(remark'[d].on, remark'[d].parent, remark'[d].replyTo)
      BY <1>5, <1>7, <2>1 DEF ThreadsHang
    <3>2. remark'[d].parent \in Remarks \cup {Nothing} /\ remark'[d].replyTo \in Remarks \cup {Nothing}
      BY <1>6 DEF Remark
    <3> QED
      BY <1>9, <3>1, <3>2
  <2> QED
    BY <1>5, <1>7, <2>1 DEF ThreadsHang
<1>11. ASSUME NEW q \in Calls, Counting(q)' PROVE CountIsSound(call[q])'
  <2>1. CountIsSound(call[q]) /\ Counting(q) /\ call[q] \in Call
    BY <1>1, <1>11, Types DEF ClubInv, CallsAreSound, CallIsSound, Counting
  <2>2. /\ call'[q].on = call[q].on /\ call'[q].parent = call[q].parent
        /\ call'[q].replyTo = call[q].replyTo /\ call'[q].remark = call[q].remark
    BY <1>1, <1>11 DEF CallsStand, Counting
  <2>3. ASSUME call[q].op = "send"
        PROVE  /\ remark'[call[q].remark].st = "none"
               /\ Hangs(call[q].on, call[q].parent, call[q].replyTo)'
    <3>1. Hangs(call[q].on, call[q].parent, call[q].replyTo)
      BY <2>1, <2>3 DEF CountIsSound
    <3>2. call[q].parent \in Remarks \cup {Nothing} /\ call[q].replyTo \in Remarks \cup {Nothing}
      BY <2>1 DEF Call
    <3>3. call[q].remark \in Remarks \ {c} /\ remark[call[q].remark].st = "none"
      BY <1>7, <2>1, <2>3 DEF CountIsSound, KindOf, Written, Statuses
    <3> QED
      BY <1>7, <1>9, <2>2, <3>1, <3>2, <3>3
  <2>4. call[q].op \in {"decide", "drop"} =>
            Written(call[q].remark)' /\ remark'[call[q].remark].on = call[q].on
    BY <1>7, <2>1, <2>2 DEF CountIsSound, KindOf
  <2> QED
    BY <1>1, <1>2, <1>11, <2>1, <2>3, <2>4, CountStaysSound
<1>12. ASSUME NEW q \in Calls, Drops(q)'
       PROVE /\ Doomed(call[q].remark)' \subseteq Doomed(call[q].remark)
             /\ Orphaned(call[q].remark)' \subseteq Doomed(call[q].remark) \cup Orphaned(call[q].remark)
  <2>1. call'[q].remark = call[q].remark /\ call[q].remark \in Remarks
    BY <1>1, <1>12 DEF CallsStand, Drops, Counting, ClubInv, CallsAreSound, CallIsSound, CountIsSound, KindOf
  <2>2. \A x \in Remarks : /\ Doomed(x)' \subseteq Doomed(x)
                           /\ Orphaned(x)' \subseteq Doomed(x) \cup Orphaned(x)
    BY <1>5, <1>7, <1>8, DoomedShrinks DEF Written, Statuses
  <2> QED
    BY <2>1, <2>2
<1>13. \A p \in Poems : /\ <<p, "likes">> # <<k.on, KindOf(k)>> => LikesStand(p)
                        /\ <<p, "remarks">> # <<k.on, KindOf(k)>> => RemarksStand(p)
  BY <1>3, <1>4, <1>7 DEF LikesStand, RemarksStand
<1>14. \A p \in Poems, u \in Fans : <<p, u>> \in liked' => <<p, u>> \in liked \/ p = k.on
  BY <1>4
<1> QED
  BY <1>6, <1>8, <1>10, <1>11, <1>12, <1>13, <1>14, ClubCommitKeeps DEF k

LEMMA CommitOfDrop ==
  ASSUME ClubInv, NEW r \in Calls, Commit(r), call[r].op = "drop"
  PROVE  ClubInv'
<1> DEFINE k == call[r]
           S == Doomed(k.remark)
<1>1. /\ k \in Call /\ Counting(r) /\ CountIsSound(k) /\ CallsStand
      /\ \A q \in Calls : Counting(q)' => q # r /\ Counting(q)
  BY CommitsCall
<1>2. \A p : Printed(p)' <=> Printed(p)
  BY CommitsPoem
<1>3. /\ KindOf(k) = "remarks" /\ k.remark \in Remarks /\ k.on \in Poems
      /\ Written(k.remark) /\ remark[k.remark].on = k.on
  BY <1>1 DEF KindOf, CountIsSound
<1>4. liked' = liked /\ remark' = Without(k.remark)
  BY DEF Commit, LikesAfter, RemarksAfter
<1>5. ClubTypeOK /\ ThreadsHang /\ LocksExclude
  BY DEF ClubInv
<1>6. Drops(r) /\ Touches(r) = S \cup Orphaned(k.remark)
  BY <1>1, <1>3 DEF Drops, Touches
<1> HIDE DEF k
<1>7. liked' \subseteq Poems \X Fans /\ remark' \in [Remarks -> Remark]
  BY <1>4, <1>5, Types DEF Without, Remark, Gone, NoRemark
<1>8. /\ S \in SUBSET Remarks
      /\ \A c \in S : Written(c) /\ remark[c].on = k.on
      /\ \A c \in Remarks : Written(c) /\ remark[c].parent \in S => c \in S
  <2>1. \A c \in Remarks : c \in S <=> c = k.remark \/ (Written(c) /\ remark[c].parent = k.remark)
    BY DEF Doomed, Replies
  <2>2. S \in SUBSET Remarks
    BY <1>3 DEF Doomed, Replies
  <2>3. k.remark # Nothing
    BY <1>3, ClubAssumption
  <2> HIDE DEF S
  <2>4. \A c \in S : Written(c) /\ remark[c].on = k.on
    BY <1>3, <1>5, <2>1, <2>2, <2>3 DEF ThreadsHang, Hangs
  <2>5. ASSUME NEW c \in Remarks, Written(c), remark[c].parent \in S PROVE c \in S
    <3>1. remark[c].parent # Nothing /\ remark[remark[c].parent].parent = Nothing
      BY <1>5, <2>2, <2>5, ClubAssumption DEF ThreadsHang, Hangs
    <3> QED
      BY <2>1, <2>2, <2>3, <2>5, <3>1
  <2> QED
    BY <2>2, <2>4, <2>5
<1>9. RemarksGo(S)
  <2>1. \A c \in Remarks : Written(c) =>
          (c \in Orphaned(k.remark) <=> c \notin S /\ remark[c].replyTo \in S)
    BY DEF Orphaned, Referrers
  <2>2. \A c \in Remarks : remark'[c] = IF c \in S THEN Gone
                             ELSE IF c \in Orphaned(k.remark) THEN [remark[c] EXCEPT !.replyTo = Nothing]
                             ELSE remark[c]
    BY <1>4 DEF Without
  <2> HIDE DEF S
  <2>3. \A c \in Remarks : remark[c] \in Remark
    BY <1>5, Types
  <2>4. ASSUME NEW c \in Remarks \ S
        PROVE  /\ remark'[c].st = remark[c].st /\ remark'[c].on = remark[c].on
               /\ remark'[c].parent = remark[c].parent
               /\ remark'[c].replyTo = IF c \in Orphaned(k.remark) THEN Nothing
                                       ELSE remark[c].replyTo
    BY <2>2, <2>3, <2>4 DEF Remark
  <2> QED
    BY <2>1, <2>2, <2>4 DEF RemarksGo
<1> HIDE DEF S
<1>10. /\ RemarksAge /\ ThreadsHang'
       /\ \A c \in Remarks : remark[c].st = "none" => remark'[c].st = "none"
       /\ \A on : \A parent, replyTo \in (Remarks \cup {Nothing}) \ S :
            Hangs(on, parent, replyTo) /\ Printed(on)' => Hangs(on, parent, replyTo)'
  <2>1. \A c \in S : remark[c].st # "none"
    BY <1>8 DEF Written, Statuses
  <2>2. \A c \in Remarks \ S : Written(c) => Printed(remark[c].on)'
    BY <1>2, <1>5, <1>9 DEF ThreadsHang, Hangs, RemarksGo, Printed
  <2> QED
    BY <1>5, <1>8, <1>9, <2>1, <2>2, ThreadsGoWhole
<1>11. ASSUME NEW q \in Calls, Counting(q)' PROVE CountIsSound(call[q])'
  <2>1. q # r /\ CountIsSound(call[q]) /\ Counting(q) /\ call[q] \in Call
    BY <1>1, <1>11, Types DEF ClubInv, CallsAreSound, CallIsSound, Counting
  <2>2. /\ call'[q].on = call[q].on /\ call'[q].parent = call[q].parent
        /\ call'[q].replyTo = call[q].replyTo /\ call'[q].remark = call[q].remark
    BY <1>1, <1>11 DEF CallsStand, Counting
  <2>3. KindOf(call[q]) = "remarks" => call[q].remark \in Remarks \ S
    <3>1. ASSUME KindOf(call[q]) = "remarks" PROVE call[q].remark \in Touches(q)
      BY <2>1, <3>1 DEF Touches, Doomed, KindOf
    <3>2. S \cap Touches(q) = {}
      BY <1>5, <1>6, <2>1 DEF LocksExclude
    <3> QED
      BY <2>1, <3>1, <3>2 DEF CountIsSound
  <2>4. ASSUME call[q].op = "send"
        PROVE  /\ remark'[call[q].remark].st = "none"
               /\ Hangs(call[q].on, call[q].parent, call[q].replyTo)'
    <3>1. Hangs(call[q].on, call[q].parent, call[q].replyTo) /\ Printed(call[q].on)
      BY <2>1, <2>4 DEF CountIsSound
    <3>2. S \cap ({call[q].parent, call[q].replyTo} \ {Nothing}) = {}
      <4>1. Needs(q) = {call[q].parent, call[q].replyTo} \ {Nothing}
        BY <2>1, <2>4 DEF Needs
      <4>2. S \cap Needs(q) = {}
        BY <1>5, <1>6, <2>1 DEF LocksExclude, S, k
      <4> QED
        BY <4>1, <4>2
    <3>3. /\ call[q].parent \in (Remarks \cup {Nothing}) \ S
          /\ call[q].replyTo \in (Remarks \cup {Nothing}) \ S
      BY <1>8, <2>1, <3>2, ClubAssumption DEF Call
    <3>4. remark'[call[q].remark].st = "none"
      BY <1>10, <2>1, <2>3, <2>4 DEF CountIsSound, KindOf
    <3> QED
      BY <1>2, <1>10, <2>2, <3>1, <3>3, <3>4
  <2>5. call[q].op \in {"decide", "drop"} =>
            Written(call[q].remark)' /\ remark'[call[q].remark].on = call[q].on
    BY <1>9, <2>1, <2>2, <2>3 DEF CountIsSound, KindOf, RemarksGo, Written
  <2> QED
    BY <1>1, <1>2, <1>11, <2>1, <2>4, <2>5, CountStaysSound
<1>12. ASSUME NEW q \in Calls, Drops(q)'
       PROVE /\ Doomed(call[q].remark)' \subseteq Doomed(call[q].remark)
             /\ Orphaned(call[q].remark)' \subseteq Doomed(call[q].remark) \cup Orphaned(call[q].remark)
  <2>1. call'[q].remark = call[q].remark /\ call[q].remark \in Remarks
    BY <1>1, <1>12 DEF CallsStand, Drops, Counting, ClubInv, CallsAreSound, CallIsSound, CountIsSound, KindOf
  <2>2. \A x \in Remarks : /\ Doomed(x)' \subseteq Doomed(x)
                           /\ Orphaned(x)' \subseteq Doomed(x) \cup Orphaned(x)
    BY <1>5, <1>10, DoomedShrinks DEF Written, Statuses
  <2> QED
    BY <2>1, <2>2
<1>13. \A p \in Poems : /\ <<p, "likes">> # <<k.on, KindOf(k)>> => LikesStand(p)
                        /\ <<p, "remarks">> # <<k.on, KindOf(k)>> => RemarksStand(p)
  <2>1. \A p \in Poems : LikesStand(p)
    BY <1>4 DEF LikesStand
  <2>2. \A p \in Poems \ {k.on} : RemarksStand(p)
    BY <1>8, <1>9, ClubAssumption DEF RemarksStand, RemarksGo, Gone, NoRemark
  <2> QED
    BY <1>3, <2>1, <2>2
<1>14. \A p \in Poems, u \in Fans : <<p, u>> \in liked' => <<p, u>> \in liked \/ p = k.on
  BY <1>4
<1> QED
  BY <1>7, <1>10, <1>11, <1>12, <1>13, <1>14, ClubCommitKeeps DEF k

-----------------------------------------------------------------------------
(* The invariant.                                                          *)

LEMMA ClubInitInv == ClubInit => ClubInv
<1> SUFFICES ASSUME ClubInit PROVE ClubInv
  OBVIOUS
<1>1. /\ \A p \in Poems : poem[p] = NoPoem
      /\ \A c \in Remarks : remark[c] = NoRemark
      /\ \A r \in Calls : call[r] = AtRest
      /\ liked = {} /\ blurred = {}
  BY DEF ClubInit
<1>2. ClubTypeOK
  BY Types DEF ClubInit, Poem, NoPoem, Remark, NoRemark, Call, AtRest, Statuses, Writes
<1>3. \A p \in Poems : ~Printed(p)
  BY <1>1 DEF Printed, NoPoem, Statuses
<1>4. ThreadsHang
  BY <1>1 DEF ThreadsHang, Written, NoRemark, Statuses
<1>5. \A r \in Calls : ~Counting(r)
  BY <1>1 DEF Counting, AtRest
<1>6. CallsAreSound
  BY <1>1 DEF CallsAreSound, CallIsSound, AtRest
<1>7. LocksExclude
  BY <1>5 DEF LocksExclude, Touches, Drops
<1>8. CountsAreFresh
  BY <1>5 DEF CountsAreFresh
<1>9. HiddenPoemsAreBare
  BY <1>1 DEF HiddenPoemsAreBare, NoPoem
<1>10. NumbersCatchUp
  BY <1>3 DEF NumbersCatchUp
<1> QED
  BY <1>2, <1>4, <1>6, <1>7, <1>8, <1>9, <1>10 DEF ClubInv

LEMMA CommitInv ==
  ASSUME ClubInv, NEW r \in Calls, Commit(r)
  PROVE  ClubInv'
<1>1. call[r].op \in Writes
  BY CommitsCall DEF Call
<1> QED
  BY <1>1, CommitOfLike, CommitOfComment, CommitOfDecision, CommitOfDrop DEF Writes, KindOf

LEMMA RestInv ==
  ASSUME ClubInv, NEW r \in Calls, CallFails(r)
  PROVE  ClubInv'
<1>1. AtRest \in Call /\ AtRest.pc = "rest"
  BY DEF AtRest, Call, Writes, Statuses
<1> QED
  BY <1>1, CallLooks DEF CallFails, Ends, Goes, CallIsSound

LEMMA PoemsInv ==
  ASSUME ClubInv, PoemsNext
  PROVE  ClubInv'
<1>1. PICK p \in Poems : CreatePoem(p) \/ EditPoem(p) \/ DeletePoem(p)
                        \/ \E st \in Statuses : SetPoemStatus(p, st)
  BY DEF PoemsNext
<1>2. CASE CreatePoem(p)
  BY <1>2, PoemIsPrinted DEF CreatePoem, Statuses
<1>3. CASE EditPoem(p)
  BY <1>3, PoemIsPrinted DEF EditPoem, Statuses
<1>4. CASE DeletePoem(p)
  BY <1>4, PoemIsDeleted
<1>5. ASSUME NEW st \in Statuses, SetPoemStatus(p, st) PROVE ClubInv'
  BY <1>5, PoemIsPrinted DEF SetPoemStatus
<1> QED
  BY <1>1, <1>2, <1>3, <1>4, <1>5

LEMMA LikesInv ==
  ASSUME ClubInv, LikesNext
  PROVE  ClubInv'
<1>1. PICK r \in Calls :
        \/ \E p \in Poems, u \in Fans : Unlike(r, p, u) \/ MissesLike(r, p, u)
        \/ FindsPublished(r) \/ InsertLike(r) \/ Commit(r) \/ CallFails(r)
  BY DEF LikesNext
<1>2. ClubTypeOK /\ call[r] \in Call /\ CallIsSound(call[r])
  BY Types DEF ClubInv, CallsAreSound
<1>3. ASSUME NEW p \in Poems, NEW u \in Fans, Unlike(r, p, u) PROVE ClubInv'
  <2> DEFINE k == Like(p, u, "unlike")
  <2>1. k \in Call /\ k.op = "unlike" /\ k.on = p /\ k.by = u
    BY DEF Like, AtRest, Call, Writes, Statuses
  <2>2. Printed(p)
    BY <1>3 DEF ClubInv, HiddenPoemsAreBare, Unlike
  <2>3. CountIsSound(k) /\ KindOf(k) = "likes"
    BY <2>1, <2>2 DEF CountIsSound, KindOf
  <2>4. RowsStay /\ ~Counting(r) /\ Counts(r, k)
    BY <1>3 DEF Unlike, Idles, Counting
  <2> HIDE DEF k
  <2> QED
    BY <2>1, <2>3, <2>4, StatementCounts
<1>4. ASSUME NEW p \in Poems, NEW u \in Fans, MissesLike(r, p, u) PROVE ClubInv'
  <2> DEFINE k == [Like(p, u, "like") EXCEPT !.pc = "missed"]
  <2>1. k \in Call /\ k.op = "like" /\ k.on = p /\ k.by = u /\ k.pc = "missed"
    BY DEF Like, AtRest, Call, Writes, Statuses
  <2>2. RowsStay /\ Goes(r, k)
    BY <1>4 DEF MissesLike
  <2> HIDE DEF k
  <2>3. CallIsSound(k)
    BY <2>1 DEF CallIsSound
  <2> QED
    BY <2>1, <2>2, <2>3, CallLooks
<1>5. CASE FindsPublished(r)
  <2> DEFINE k == [call[r] EXCEPT !.pc = "found"]
  <2>1. k \in Call /\ k.pc = "found" /\ k.op = call[r].op /\ k.on = call[r].on /\ k.by = call[r].by
    BY <1>2 DEF Call
  <2>2. RowsStay /\ Goes(r, k) /\ call[r].pc = "missed"
    BY <1>5 DEF FindsPublished
  <2> HIDE DEF k
  <2>3. CallIsSound(k)
    BY <1>2, <2>1, <2>2 DEF CallIsSound
  <2> QED
    BY <2>1, <2>2, <2>3, CallLooks
<1>6. CASE InsertLike(r)
  <2>1. RowsStay /\ call[r].pc = "found" /\ Printed(call[r].on) /\ Counts(r, call[r])
    BY <1>6 DEF InsertLike
  <2>2. CountIsSound(call[r]) /\ KindOf(call[r]) = "likes" /\ call[r].op = "like" /\ ~Counting(r)
    BY <1>2, <2>1 DEF CallIsSound, CountIsSound, KindOf, Counting
  <2>3. \A k \in Call : k = call[r] => ClubInv'
    BY <2>1, <2>2, StatementCounts
  <2> QED
    BY <1>2, <2>3
<1> QED
  BY <1>1, <1>3, <1>4, <1>5, <1>6, CommitInv, RestInv

LEMMA RemarksInv ==
  ASSUME ClubInv, RemarksNext
  PROVE  ClubInv'
<1>1. PICK r \in Calls :
        \/ \E p \in Poems : Comment(r, p)
        \/ \E c \in Remarks : DropRemark(r, c) \/ \E st \in Statuses : Decide(r, c, st)
        \/ Aim(r) \/ InsertRemark(r) \/ Commit(r) \/ CallFails(r)
  BY DEF RemarksNext
<1>2. ClubTypeOK /\ ThreadsHang /\ call[r] \in Call /\ CallIsSound(call[r])
  BY Types DEF ClubInv, CallsAreSound
<1>3. ASSUME NEW p \in Poems, Comment(r, p) PROVE ClubInv'
  <2>1. PICK c \in Remarks \cup {Nothing} :
          Goes(r, [AtRest EXCEPT !.op = "send", !.on = p, !.replyTo = c,
                                 !.pc = IF c = Nothing THEN "writing" ELSE "aiming"])
    BY <1>3 DEF Comment
  <2> DEFINE k == [AtRest EXCEPT !.op = "send", !.on = p, !.replyTo = c,
                                 !.pc = IF c = Nothing THEN "writing" ELSE "aiming"]
  <2>2. /\ k \in Call /\ k.op = "send" /\ k.on = p /\ k.replyTo = c /\ k.parent = Nothing
        /\ k.pc = IF c = Nothing THEN "writing" ELSE "aiming"
    BY DEF AtRest, Call, Writes, Statuses
  <2>3. RowsStay /\ Goes(r, k)
    BY <1>3, <2>1 DEF Comment
  <2> HIDE DEF k
  <2>4. CallIsSound(k)
    BY <2>2 DEF CallIsSound, Aimed
  <2> QED
    BY <2>2, <2>3, <2>4, CallLooks
<1>4. CASE Aim(r)
  <2> DEFINE c == call[r].replyTo
             k == [call[r] EXCEPT !.pc = "writing", !.parent = Root(c),
                                  !.replyTo = IF Root(c) = c THEN Nothing ELSE c]
  <2>1. /\ call[r].pc = "aiming" /\ remark[c].on = call[r].on /\ remark[c].st = "approved"
        /\ RowsStay /\ Goes(r, k)
    BY <1>4 DEF Aim
  <2>2. call[r].op = "send" /\ call[r].on \in Poems /\ c \in Remarks
    BY <1>2, <2>1 DEF CallIsSound
  <2>3. Hangs(call[r].on, remark[c].parent, remark[c].replyTo) /\ Written(c)
    BY <1>2, <2>1, <2>2 DEF ThreadsHang, Written, Statuses
  <2>4. remark[c].parent \in Remarks \cup {Nothing}
    BY <1>2, <2>2, Types DEF Remark
  <2>5. /\ k \in Call /\ k.pc = "writing" /\ k.op = "send" /\ k.on = call[r].on
        /\ k.parent = Root(c) /\ k.replyTo = IF Root(c) = c THEN Nothing ELSE c
    BY <1>2, <2>2, <2>4 DEF Call, Root
  <2> HIDE DEF k
  <2>6. Aimed(call[r].on, Root(c), IF Root(c) = c THEN Nothing ELSE c)
    BY <2>1, <2>2, <2>3, ClubAssumption DEF Aimed, Hangs, Root, Written, Statuses
  <2>7. CallIsSound(k)
    BY <2>2, <2>5, <2>6 DEF CallIsSound
  <2> QED
    BY <2>1, <2>5, <2>7, CallLooks
<1>5. CASE InsertRemark(r)
  <2> DEFINE refs == {call[r].parent, call[r].replyTo} \ {Nothing}
  <2>1. /\ call[r].pc = "writing" /\ Printed(call[r].on) /\ RowsStay
        /\ \A d \in refs : Written(d)
        /\ \A q \in Calls : Drops(q) => Doomed(call[q].remark) \cap refs = {}
    BY <1>5 DEF InsertRemark, Drops
  <2>2. PICK c \in Remarks : /\ remark[c].st = "none" /\ AreFree({c})
                            /\ Counts(r, [call[r] EXCEPT !.remark = c])
    BY <1>5 DEF InsertRemark
  <2> DEFINE k == [call[r] EXCEPT !.remark = c]
  <2>3. /\ k \in Call /\ k.op = call[r].op /\ k.on = call[r].on /\ k.remark = c
        /\ k.parent = call[r].parent /\ k.replyTo = call[r].replyTo
    BY <1>2 DEF Call
  <2>4. call[r].op = "send" /\ call[r].on \in Poems
        /\ Aimed(call[r].on, call[r].parent, call[r].replyTo)
    BY <1>2, <2>1 DEF CallIsSound
  <2>5. Counts(r, k) /\ ~Counting(r)
    BY <2>1, <2>2 DEF Counting
  <2> HIDE DEF k
  <2>6. Hangs(call[r].on, call[r].parent, call[r].replyTo)
    BY <2>1, <2>4 DEF Aimed, Hangs
  <2>7. CountIsSound(k) /\ k.op = "send"
    BY <2>1, <2>2, <2>3, <2>4, <2>6 DEF CountIsSound, KindOf
  <2> QED
    BY <2>1, <2>2, <2>3, <2>5, <2>7, StatementCounts
<1>6. ASSUME NEW c \in Remarks, NEW op \in {"decide", "drop"}, NEW st \in Statuses, Idles(r), Written(c),
             AreFree({c}), RowsStay, Counts(r, OnRemark(c, op, st)),
             op = "drop" => MayGo(Doomed(c)) /\ AreFree(Orphaned(c))
      PROVE  ClubInv'
  <2> DEFINE k == OnRemark(c, op, st)
  <2>1. remark[c].on \in Poems /\ Printed(remark[c].on)
    BY <1>2, <1>6 DEF ThreadsHang, Hangs
  <2>2. k \in Call /\ k.op = op /\ k.on = remark[c].on /\ k.remark = c
    BY <2>1 DEF OnRemark, AtRest, Call, Writes, Statuses
  <2>3. Counts(r, k) /\ ~Counting(r)
    BY <1>6 DEF Idles, Counting
  <2> HIDE DEF k
  <2>4. CountIsSound(k) /\ k.op # "send"
    BY <1>6, <2>1, <2>2 DEF CountIsSound, KindOf
  <2>5. \A n \in Call : n = k => ClubInv'
    BY <1>6, <2>2, <2>3, <2>4, StatementCounts
  <2> QED
    BY <2>2, <2>5
<1>7. ASSUME NEW c \in Remarks, NEW st \in Statuses, Decide(r, c, st) PROVE ClubInv'
  BY <1>6, <1>7 DEF Decide
<1>8. ASSUME NEW c \in Remarks, DropRemark(r, c) PROVE ClubInv'
  <2>1. AreFree({c})
    BY <1>8 DEF DropRemark, MayGo, AreFree, Doomed
  <2> QED
    BY <1>6, <1>8, <2>1 DEF DropRemark, Statuses
<1> QED
  BY <1>1, <1>3, <1>4, <1>5, <1>7, <1>8, CommitInv, RestInv

\* The rows, the locks and the counts of the club fit together in every state
\* (Club.tla: all of its actions, migrations/001_init.sql:495-640).
THEOREM ClubInvariance == ClubSpec => []ClubInv
<1>1. ClubInv /\ [ClubNext]_clubVars => ClubInv'
  <2> SUFFICES ASSUME ClubInv, [ClubNext]_clubVars PROVE ClubInv'
    OBVIOUS
  <2>1. CASE PoemsNext
    BY <2>1, PoemsInv
  <2>2. CASE LikesNext
    BY <2>2, LikesInv
  <2>3. CASE RemarksNext
    BY <2>3, RemarksInv
  <2>4. CASE UNCHANGED clubVars
    <3>1. /\ poem' = poem /\ liked' = liked /\ remark' = remark /\ call' = call
          /\ blurred' = blurred
      BY <2>4 DEF clubVars
    <3>2. ClubTypeOK' /\ HiddenPoemsAreBare'
      BY <3>1 DEF ClubInv, ClubTypeOK, HiddenPoemsAreBare, Printed
    <3>3. ThreadsHang' /\ CallsAreSound'
      BY <3>1, Types, SoundWhileRowsStay DEF ClubInv, CallsAreSound, Printed
    <3>4. LocksExclude'
      BY <3>1, SameRowsDoomed DEF ClubInv, LocksExclude, Drops, Touches, Needs, Counting, KindOf
    <3>5. CountsAreFresh'
      BY <3>1, SameRowsCount DEF ClubInv, CountsAreFresh, Counting
    <3>6. NumbersCatchUp'
      BY <3>1, SameRowsActual DEF ClubInv, NumbersCatchUp, Printed
    <3> QED
      BY <3>2, <3>3, <3>4, <3>5, <3>6 DEF ClubInv
  <2> QED
    BY <2>1, <2>2, <2>3, <2>4 DEF ClubNext
<1> QED
  BY <1>1, ClubInitInv, PTL DEF ClubSpec

\* The state of the club keeps its types (Club.tla).
THEOREM ClubTypeCorrectness == ClubSpec => []ClubTypeOK
<1>1. ClubInv => ClubTypeOK
  BY DEF ClubInv
<1> QED
  BY <1>1, ClubInvariance, PTL

\* A number under a poem is the number of its likes, or of its approved
\* comments, unless the last recount was overtaken by another commit
\* (migrations/001_init.sql:595-630, however many writes meet).
THEOREM NumbersAreRight == ClubSpec => []NumbersCatchUp
<1>1. ClubInv => NumbersCatchUp
  BY DEF ClubInv
<1> QED
  BY <1>1, ClubInvariance, PTL

\* A comment hangs under a root of its poem and answers one of the same thread,
\* whatever is deleted meanwhile (lib/club/actions.ts:313-357).
THEOREM ThreadsStayShallow == ClubSpec => []ThreadsAreShallow
<1>1. ClubInv => ThreadsAreShallow
  BY DEF ClubInv, ThreadsHang, Hangs, ThreadsAreShallow
<1> QED
  BY <1>1, ClubInvariance, PTL

-----------------------------------------------------------------------------
(* Types.                                                                  *)

CacheRows  == [full : BOOLEAN, v : Values, at : 0..MaxTick]
FlightRows == [st : {"free", "asked", "answered", "failed"}, v : Values,
               since : 0..MaxTick, wait : SUBSET Readers, tell : BOOLEAN]
ReaderRows == [st : {"away", "loading", "has"}, v : Values, at : 0..MaxTick]
Changes    == [st : {"idle", "write", "drop"},
               how : {"write first", "drop first", "sign out"}, quiet : BOOLEAN]

LEMMA TypeUnfolded ==
  CachesTypeOK <=>
    /\ subject \in Subjects /\ tick \in 0..MaxTick /\ version \in Versions
    /\ replaced \in [Versions -> 0..MaxTick] /\ cache \in CacheRows
    /\ slot \in Flights \cup {NoFlight} /\ flight \in [Flights -> FlightRows]
    /\ reader \in [Readers -> ReaderRows] /\ change \in Changes
    /\ floor \in Versions /\ calm \in BOOLEAN
BY DEF CachesTypeOK, CacheRows, FlightRows, ReaderRows, Changes

LEMMA RowTypes ==
  /\ Empty \in CacheRows /\ Grounded \in FlightRows /\ Away \in ReaderRows
  /\ NoChange \in Changes /\ 1 \in Versions /\ Guest \in Values /\ 0 \in 0..MaxTick
  /\ \A v \in Values, t \in 0..MaxTick :
       /\ [full |-> TRUE, v |-> v, at |-> t] \in CacheRows
       /\ [st |-> "has", v |-> v, at |-> t] \in ReaderRows
  /\ [st |-> "loading", v |-> Guest, at |-> 0] \in ReaderRows
  /\ \A t \in 0..MaxTick, who \in SUBSET Readers, tell \in BOOLEAN :
       [st |-> "asked", v |-> Guest, since |-> t, wait |-> who, tell |-> tell] \in FlightRows
  /\ \A f \in FlightRows :
       /\ \A st \in {"answered", "failed"} : [f EXCEPT !.st = st] \in FlightRows
       /\ \A v \in Values : [f EXCEPT !.st = "answered", !.v = v] \in FlightRows
       /\ \A r \in Readers : /\ [f EXCEPT !.wait = @ \cup {r}] \in FlightRows
                             /\ [f EXCEPT !.wait = @ \ {r}] \in FlightRows
  /\ \A c \in Changes :
       /\ [c EXCEPT !.quiet = FALSE] \in Changes
       /\ \A st \in {"write", "drop"} : [c EXCEPT !.st = st] \in Changes
<1> USE DEF CacheRows, FlightRows, ReaderRows, Changes
<1>1. 1 \in Versions /\ Guest \in Values /\ 0 \in 0..MaxTick
      BY CachesAssumption DEF Versions, Values, Guest
<1>2. /\ Empty \in CacheRows /\ Grounded \in FlightRows /\ Away \in ReaderRows
      /\ NoChange \in Changes
      BY <1>1 DEF Empty, Grounded, Away, NoChange
<1>3. ASSUME NEW v \in Values, NEW t \in 0..MaxTick
      PROVE  /\ [full |-> TRUE, v |-> v, at |-> t] \in CacheRows
             /\ [st |-> "has", v |-> v, at |-> t] \in ReaderRows
      OBVIOUS
<1>4. [st |-> "loading", v |-> Guest, at |-> 0] \in ReaderRows
      BY <1>1
<1>5. ASSUME NEW t \in 0..MaxTick, NEW who \in SUBSET Readers, NEW tell \in BOOLEAN
      PROVE  [st |-> "asked", v |-> Guest, since |-> t, wait |-> who, tell |-> tell] \in FlightRows
      BY <1>1
<1>6. ASSUME NEW f \in FlightRows
      PROVE  /\ \A st \in {"answered", "failed"} : [f EXCEPT !.st = st] \in FlightRows
             /\ \A v \in Values : [f EXCEPT !.st = "answered", !.v = v] \in FlightRows
             /\ \A r \in Readers : /\ [f EXCEPT !.wait = @ \cup {r}] \in FlightRows
                                   /\ [f EXCEPT !.wait = @ \ {r}] \in FlightRows
      OBVIOUS
<1>7. ASSUME NEW c \in Changes
      PROVE  /\ [c EXCEPT !.quiet = FALSE] \in Changes
             /\ \A st \in {"write", "drop"} : [c EXCEPT !.st = st] \in Changes
      OBVIOUS
<1> HIDE DEF CacheRows, FlightRows, ReaderRows, Changes
<1> QED
    BY <1>1, <1>2, <1>3, <1>4, <1>5, <1>6, <1>7

LEMMA InitType == CachesInit => CachesTypeOK
<1> SUFFICES ASSUME CachesInit PROVE CachesTypeOK
    OBVIOUS
<1>1. /\ replaced \in [Versions -> 0..MaxTick] /\ flight \in [Flights -> FlightRows]
      /\ reader \in [Readers -> ReaderRows]
  <2>1. MaxTick \in 0..MaxTick
        BY CachesAssumption
  <2> QED
      BY <2>1, RowTypes DEF CachesInit
<1> QED
    BY <1>1, TypeUnfolded, RowTypes DEF CachesInit

LEMMA NextType == CachesTypeOK /\ CachesNext => CachesTypeOK'
<1> SUFFICES ASSUME CachesTypeOK, CachesNext PROVE CachesTypeOK'
    OBVIOUS
<1> DEFINE Goal == /\ subject' \in Subjects /\ tick' \in 0..MaxTick /\ version' \in Versions
                   /\ replaced' \in [Versions -> 0..MaxTick] /\ cache' \in CacheRows
                   /\ slot' \in Flights \cup {NoFlight} /\ flight' \in [Flights -> FlightRows]
                   /\ reader' \in [Readers -> ReaderRows] /\ change' \in Changes
                   /\ floor' \in Versions /\ calm' \in BOOLEAN
<1>0. /\ subject \in Subjects /\ tick \in 0..MaxTick /\ version \in Versions
      /\ replaced \in [Versions -> 0..MaxTick] /\ cache \in CacheRows
      /\ slot \in Flights \cup {NoFlight} /\ flight \in [Flights -> FlightRows]
      /\ reader \in [Readers -> ReaderRows] /\ change \in Changes
      /\ floor \in Versions /\ calm \in BOOLEAN
      BY TypeUnfolded
<1>a. cache.v \in Values /\ version \in Values /\ change.quiet \in BOOLEAN
      /\ \A f \in Flights : flight[f] \in FlightRows /\ flight[f].v \in Values
      BY <1>0 DEF CacheRows, FlightRows, Changes, Values
<1> SUFFICES Goal
    BY TypeUnfolded DEF CachesTypeOK, CacheRows, FlightRows, ReaderRows, Changes
<1>1. ASSUME NEW r \in Readers, Hit(r) PROVE Goal
      BY <1>1, <1>0, <1>a, RowTypes DEF Hit, Shows
<1>2. ASSUME NEW r \in Readers, Join(r) PROVE Goal
  <2>1. slot \in Flights /\ [flight[slot] EXCEPT !.wait = @ \cup {r}] \in FlightRows
        BY <1>2, <1>0, <1>a, RowTypes DEF Join
  <2> QED
      BY <1>2, <1>0, <2>1, RowTypes DEF Join, Loading
<1>3. ASSUME NEW r \in Readers, Ask(r) PROVE Goal
  <2>1. PICK f \in Flights \ InAir : /\ flight' = [flight EXCEPT ![f] = Asked({r}, FALSE)]
                                     /\ slot' = IF Shares THEN f ELSE slot
        BY <1>3 DEF Ask
  <2>2. Asked({r}, FALSE) \in FlightRows
        BY <1>0, RowTypes DEF Asked
  <2> QED
      BY <1>3, <1>0, <2>1, <2>2, RowTypes DEF Ask, Loading
<1>4. ASSUME NEW f \in Flights, ServerReads(f) PROVE Goal
  <2>1. [flight[f] EXCEPT !.st = "answered", !.v = version] \in FlightRows
        BY <1>a, RowTypes
  <2> QED
      BY <1>4, <1>0, <2>1 DEF ServerReads
<1>5. ASSUME NEW f \in Flights, ServerFails(f) PROVE Goal
  <2>1. \A st \in {"answered", "failed"} : [flight[f] EXCEPT !.st = st] \in FlightRows
        BY <1>a, RowTypes
  <2> QED
      BY <1>5, <1>0, <2>1 DEF ServerFails
<1>6. ASSUME NEW f \in Flights, Land(f) PROVE Goal
      BY <1>6, <1>0, <1>a, RowTypes DEF Land, Kept, Shows
<1>7. ASSUME NEW f \in Flights, Reject(f) PROVE Goal
      BY <1>7, <1>0, <1>a, RowTypes DEF Reject
<1>8. ASSUME NEW r \in Readers, Unmount(r) PROVE Goal
  <2>1. \A f \in Flights : [flight[f] EXCEPT !.wait = @ \ {r}] \in FlightRows
        BY <1>a, RowTypes
  <2> QED
      BY <1>8, <1>0, <2>1, RowTypes DEF Unmount
<1>9. ASSUME NEW how \in {"write first", "drop first", "sign out"}, BeginChange(how) PROVE Goal
  <2>1. change' \in Changes
        BY <1>9 DEF BeginChange, Changes
  <2> QED
      BY <1>9, <1>0, <2>1 DEF BeginChange
<1>10. CASE Write
  <2>1. version' \in Versions
    <3>1. version < MaxVersion /\ version' = version + 1
          BY <1>10 DEF Write
    <3>2. version \in Versions
          BY <1>0
    <3> QED
        BY <3>1, <3>2, CachesAssumption DEF Versions
  <2>2. change' \in Changes /\ floor' \in Versions /\ calm' \in BOOLEAN
        BY <1>10, <1>0, <1>a, <2>1, RowTypes DEF Write, Over
  <2> QED
      BY <1>10, <1>0, <2>1, <2>2 DEF Write
<1>11. CASE WriteFails
      BY <1>11, <1>0, RowTypes DEF WriteFails
<1>12. CASE AnswerLost
      BY <1>12, <1>0, RowTypes DEF AnswerLost
<1>13. CASE Drop
  <2>1. change' \in Changes /\ floor' \in Versions /\ calm' \in BOOLEAN
        BY <1>13, <1>0, <1>a, RowTypes DEF Drop, Over
  <2>2. UNCHANGED <<subject, tick, version, replaced>>
        BY <1>13 DEF Drop
  <2>3. CASE DropOnServer
        BY <2>1, <2>2, <2>3, <1>0, RowTypes DEF DropOnServer
  <2>4. CASE RefreshUser
    <3>1. PICK f \in Flights \ InAir : flight' = [flight EXCEPT ![f] = Asked({}, TRUE)] /\ slot' = f
          BY <2>4 DEF RefreshUser
    <3>2. Asked({}, TRUE) \in FlightRows
          BY <1>0, RowTypes DEF Asked
    <3> QED
        BY <2>1, <2>2, <2>4, <3>1, <3>2, <1>0, RowTypes DEF RefreshUser
  <2>5. CASE Clear
        BY <2>1, <2>2, <2>5, <1>0, RowTypes DEF Clear, Kept, Shows
  <2> QED
      BY <1>13, <2>3, <2>4, <2>5 DEF Drop
<1>14. CASE CachesTick
      BY <1>14, <1>0, CachesAssumption DEF CachesTick
<1> HIDE DEF Goal
<1> QED
    BY CachesNext, <1>1, <1>2, <1>3, <1>4, <1>5, <1>6, <1>7, <1>8, <1>9, <1>10, <1>11, <1>12,
       <1>13, <1>14 DEF CachesNext

-----------------------------------------------------------------------------
(* What every step does to the reads on their way, field by field.         *)

\* The rows of the reads stay, but for those who wait.
SameReads ==
  \A f \in Flights :
    /\ flight'[f].st = flight[f].st /\ flight'[f].v = flight[f].v
    /\ flight'[f].since = flight[f].since /\ flight'[f].tell = flight[f].tell

\* The read f alone has changed.
OnlyRead(f) == \A g \in Flights : g # f => flight'[g] = flight[g]

LEMMA RowFields ==
  \A f \in FlightRows :
    /\ \A st \in {"answered", "failed"} :
         /\ [f EXCEPT !.st = st].st = st /\ [f EXCEPT !.st = st].v = f.v
         /\ [f EXCEPT !.st = st].since = f.since /\ [f EXCEPT !.st = st].tell = f.tell
    /\ \A v \in Values :
         /\ [f EXCEPT !.st = "answered", !.v = v].st = "answered"
         /\ [f EXCEPT !.st = "answered", !.v = v].v = v
         /\ [f EXCEPT !.st = "answered", !.v = v].since = f.since
         /\ [f EXCEPT !.st = "answered", !.v = v].tell = f.tell
    /\ \A W \in SUBSET Readers :
         /\ [f EXCEPT !.wait = W].st = f.st /\ [f EXCEPT !.wait = W].v = f.v
         /\ [f EXCEPT !.wait = W].since = f.since /\ [f EXCEPT !.wait = W].tell = f.tell
BY DEF FlightRows

LEMMA ReadsTyped ==
  CachesTypeOK =>
    /\ flight \in [Flights -> FlightRows] /\ reader \in [Readers -> ReaderRows]
    /\ version \in Values /\ change \in Changes
    /\ \A f \in Flights : flight[f] \in FlightRows /\ flight[f].wait \subseteq Readers
<1> SUFFICES ASSUME CachesTypeOK
             PROVE  /\ flight \in [Flights -> FlightRows] /\ reader \in [Readers -> ReaderRows]
                    /\ version \in Values /\ change \in Changes
                    /\ \A f \in Flights : flight[f] \in FlightRows /\ flight[f].wait \subseteq Readers
    OBVIOUS
<1> QED
    BY DEF CachesTypeOK, FlightRows, ReaderRows, Changes, Values

LEMMA ChangeFields ==
  ASSUME CachesTypeOK, NEW st \in {"write", "drop"}, change' = [change EXCEPT !.st = st]
  PROVE  change'.st = st /\ change'.how = change.how /\ change'.quiet = change.quiet
BY ReadsTyped DEF Changes

LEMMA ValuesAreNumbers == Values \subseteq Nat /\ Versions \subseteq Values /\ Guest = 0
BY CachesAssumption DEF Values, Versions, Guest

LEMMA Numbers ==
  CachesTypeOK =>
    /\ version \in Nat /\ floor \in Nat /\ cache.v \in Nat /\ cache.at \in Nat /\ tick \in Nat
    /\ \A f \in Flights : flight[f].v \in Nat /\ flight[f].since \in Nat
    /\ \A r \in Readers : reader[r].v \in Nat /\ reader[r].at \in Nat
    /\ version >= 1
<1> SUFFICES ASSUME CachesTypeOK
             PROVE  /\ version \in Nat /\ floor \in Nat /\ cache.v \in Nat /\ cache.at \in Nat /\ tick \in Nat
                    /\ \A f \in Flights : flight[f].v \in Nat /\ flight[f].since \in Nat
                    /\ \A r \in Readers : reader[r].v \in Nat /\ reader[r].at \in Nat
                    /\ version >= 1
    OBVIOUS
<1>1. version \in 1..MaxVersion /\ floor \in 1..MaxVersion /\ tick \in 0..MaxTick
      BY DEF CachesTypeOK, Versions
<1>2. cache.v \in Values /\ cache.at \in 0..MaxTick
      BY DEF CachesTypeOK
<1>3. \A f \in Flights : flight[f].v \in Values /\ flight[f].since \in 0..MaxTick
      BY DEF CachesTypeOK
<1>4. \A r \in Readers : reader[r].v \in Values /\ reader[r].at \in 0..MaxTick
      BY DEF CachesTypeOK
<1>5. (\A n \in 0..MaxTick : n \in Nat) /\ \A v \in Values : v \in Nat
      BY CachesAssumption, ValuesAreNumbers
<1>6. version \in Nat /\ floor \in Nat /\ tick \in Nat /\ version >= 1
      BY <1>1, CachesAssumption
<1> QED
    BY <1>2, <1>3, <1>4, <1>5, <1>6

LEMMA JoinReads ==
  CachesTypeOK => \A r \in Readers : Join(r) =>
    SameReads
<1> SUFFICES ASSUME CachesTypeOK, NEW r \in Readers, Join(r)
             PROVE  SameReads
    OBVIOUS
<1>1. slot \in Flights /\ flight' = [flight EXCEPT ![slot] = [flight[slot] EXCEPT !.wait = @ \cup {r}]]
      BY DEF Join, CachesTypeOK
<1>2. flight[slot].wait \cup {r} \in SUBSET Readers
      BY <1>1, ReadsTyped
<1> QED
    BY <1>1, <1>2, ReadsTyped, RowFields DEF SameReads

LEMMA UnmountReads ==
  CachesTypeOK => \A r \in Readers : Unmount(r) =>
    SameReads
<1> SUFFICES ASSUME CachesTypeOK, NEW r \in Readers, Unmount(r)
             PROVE  SameReads
    OBVIOUS
<1>1. \A f \in Flights : flight[f].wait \ {r} \in SUBSET Readers
      BY ReadsTyped
<1>2. \A f \in Flights : flight'[f] = [flight[f] EXCEPT !.wait = flight[f].wait \ {r}]
      BY DEF Unmount
<1>3. ASSUME NEW f \in Flights
      PROVE  /\ flight'[f].st = flight[f].st /\ flight'[f].v = flight[f].v
             /\ flight'[f].since = flight[f].since /\ flight'[f].tell = flight[f].tell
  <2>1. PICK W \in SUBSET Readers : flight'[f] = [flight[f] EXCEPT !.wait = W]
        BY <1>1, <1>2
  <2> QED
      BY <2>1, ReadsTyped, RowFields
<1> QED
    BY <1>3 DEF SameReads

LEMMA AskReads ==
  CachesTypeOK => \A r \in Readers : Ask(r) =>
    \E f \in Flights :
      /\ flight[f].st = "free" /\ OnlyRead(f)
      /\ flight'[f].st = "asked" /\ flight'[f].v = Guest
      /\ flight'[f].since = tick /\ flight'[f].tell = FALSE
      /\ slot' = IF Shares THEN f ELSE slot
<1> SUFFICES ASSUME CachesTypeOK, NEW r \in Readers, Ask(r)
             PROVE  \E f \in Flights :
                      /\ flight[f].st = "free" /\ OnlyRead(f)
                      /\ flight'[f].st = "asked" /\ flight'[f].v = Guest
                      /\ flight'[f].since = tick /\ flight'[f].tell = FALSE
                      /\ slot' = IF Shares THEN f ELSE slot
    OBVIOUS
<1>1. PICK f \in Flights \ InAir : /\ flight' = [flight EXCEPT ![f] = Asked({r}, FALSE)]
                                   /\ slot' = IF Shares THEN f ELSE slot
      BY DEF Ask
<1> QED
    BY <1>1, ReadsTyped DEF OnlyRead, Asked, InAir

LEMMA RefreshReads ==
  CachesTypeOK /\ RefreshUser =>
    \E f \in Flights :
      /\ flight[f].st = "free" /\ OnlyRead(f)
      /\ flight'[f].st = "asked" /\ flight'[f].v = Guest
      /\ flight'[f].since = tick /\ flight'[f].tell = TRUE
      /\ slot' = f
<1> SUFFICES ASSUME CachesTypeOK, RefreshUser
             PROVE  \E f \in Flights :
                      /\ flight[f].st = "free" /\ OnlyRead(f)
                      /\ flight'[f].st = "asked" /\ flight'[f].v = Guest
                      /\ flight'[f].since = tick /\ flight'[f].tell = TRUE
                      /\ slot' = f
    OBVIOUS
<1>1. PICK f \in Flights \ InAir : /\ flight' = [flight EXCEPT ![f] = Asked({}, TRUE)]
                                   /\ slot' = f
      BY DEF RefreshUser
<1> QED
    BY <1>1, ReadsTyped DEF OnlyRead, Asked, InAir

LEMMA ServerReadsReads ==
  CachesTypeOK => \A f \in Flights : ServerReads(f) =>
    /\ OnlyRead(f) /\ flight[f].st = "asked"
    /\ flight'[f].st = "answered" /\ flight'[f].v = version
    /\ flight'[f].since = flight[f].since /\ flight'[f].tell = flight[f].tell
<1> SUFFICES ASSUME CachesTypeOK, NEW f \in Flights, ServerReads(f)
             PROVE  /\ OnlyRead(f) /\ flight[f].st = "asked"
                    /\ flight'[f].st = "answered" /\ flight'[f].v = version
                    /\ flight'[f].since = flight[f].since /\ flight'[f].tell = flight[f].tell
    OBVIOUS
<1> QED
    BY ReadsTyped, RowFields DEF ServerReads, OnlyRead

LEMMA ServerFailsReads ==
  CachesTypeOK => \A f \in Flights : ServerFails(f) =>
    /\ OnlyRead(f) /\ flight[f].st = "asked"
    /\ flight'[f].st = (IF subject = "me" THEN "answered" ELSE "failed")
    /\ flight'[f].v = flight[f].v
    /\ flight'[f].since = flight[f].since /\ flight'[f].tell = flight[f].tell
<1> SUFFICES ASSUME CachesTypeOK, NEW f \in Flights, ServerFails(f)
             PROVE  /\ OnlyRead(f) /\ flight[f].st = "asked"
                    /\ flight'[f].st = (IF subject = "me" THEN "answered" ELSE "failed")
                    /\ flight'[f].v = flight[f].v
                    /\ flight'[f].since = flight[f].since /\ flight'[f].tell = flight[f].tell
    OBVIOUS
<1> QED
    BY ReadsTyped, RowFields DEF ServerFails, OnlyRead

LEMMA LandReads ==
  CachesTypeOK => \A f \in Flights : Land(f) =>
    /\ OnlyRead(f) /\ flight'[f].st = "free" /\ flight'[f].v = Guest
    /\ flight[f].st = "answered"
BY ReadsTyped DEF Land, OnlyRead, Grounded

LEMMA RejectReads ==
  CachesTypeOK => \A f \in Flights : Reject(f) =>
    /\ OnlyRead(f) /\ flight'[f].st = "free" /\ flight'[f].v = Guest
    /\ flight[f].st = "failed"
BY ReadsTyped DEF Reject, OnlyRead, Grounded

LEMMA CacheWrites ==
  CachesNext =>
    \/ cache' = cache
    \/ cache' = Empty /\ UNCHANGED <<subject, tick, version, replaced>>
    \/ subject = "me" /\ cache' = Kept(Guest) /\ UNCHANGED <<subject, tick, version, replaced>>
    \/ \E f \in Flights : Land(f)
<1> SUFFICES ASSUME CachesNext
             PROVE  \/ cache' = cache
                    \/ cache' = Empty /\ UNCHANGED <<subject, tick, version, replaced>>
                    \/ /\ subject = "me" /\ cache' = Kept(Guest)
                       /\ UNCHANGED <<subject, tick, version, replaced>>
                    \/ \E f \in Flights : Land(f)
    OBVIOUS
<1>1. CASE Drop
      BY <1>1 DEF Drop, DropOnServer, RefreshUser, Clear
<1> QED
    BY <1>1 DEF CachesNext, Hit, Join, Ask, ServerReads, ServerFails, Reject, Unmount,
       BeginChange, Write, WriteFails, AnswerLost, CachesTick

LEMMA ReadWrites ==
  CachesTypeOK /\ CachesNext =>
    \/ SameReads
    \/ /\ UNCHANGED <<subject, tick, version, replaced>>
       /\ \E f \in Flights :
           /\ OnlyRead(f)
           /\ \/ flight'[f].st = "asked" /\ flight'[f].v = Guest /\ flight'[f].since = tick
              \/ /\ flight[f].st = "asked" /\ flight'[f].since = flight[f].since
                 /\ \/ flight'[f].st = "answered" /\ flight'[f].v = version
                    \/ subject = "me" /\ flight'[f].st = "answered" /\ flight'[f].v = flight[f].v
                    \/ subject # "me" /\ flight'[f].st = "failed" /\ flight'[f].v = flight[f].v
              \/ flight'[f].st = "free" /\ flight'[f].v = Guest
<1> DEFINE Goal ==
      \/ SameReads
      \/ /\ UNCHANGED <<subject, tick, version, replaced>>
         /\ \E f \in Flights :
             /\ OnlyRead(f)
             /\ \/ flight'[f].st = "asked" /\ flight'[f].v = Guest /\ flight'[f].since = tick
                \/ /\ flight[f].st = "asked" /\ flight'[f].since = flight[f].since
                   /\ \/ flight'[f].st = "answered" /\ flight'[f].v = version
                      \/ subject = "me" /\ flight'[f].st = "answered" /\ flight'[f].v = flight[f].v
                      \/ subject # "me" /\ flight'[f].st = "failed" /\ flight'[f].v = flight[f].v
                \/ flight'[f].st = "free" /\ flight'[f].v = Guest
<1> SUFFICES ASSUME CachesTypeOK, CachesNext PROVE Goal
    OBVIOUS
<1>1. ASSUME NEW r \in Readers, Join(r) \/ Unmount(r) PROVE Goal
      BY <1>1, JoinReads, UnmountReads
<1>2. ASSUME NEW r \in Readers, Ask(r) PROVE Goal
  <2>1. UNCHANGED <<subject, tick, version, replaced>>
        BY <1>2 DEF Ask
  <2> QED
      BY <1>2, <2>1, AskReads
<1>3. ASSUME NEW f \in Flights, ServerReads(f) PROVE Goal
  <2>1. UNCHANGED <<subject, tick, version, replaced>>
        BY <1>3 DEF ServerReads
  <2> QED
      BY <1>3, <2>1, ServerReadsReads
<1>4. ASSUME NEW f \in Flights, ServerFails(f) PROVE Goal
  <2>1. UNCHANGED <<subject, tick, version, replaced>>
        BY <1>4 DEF ServerFails
  <2> QED
      BY <1>4, <2>1, ServerFailsReads
<1>5. ASSUME NEW f \in Flights, Land(f) \/ Reject(f) PROVE Goal
  <2>1. UNCHANGED <<subject, tick, version, replaced>>
        BY <1>5 DEF Land, Reject
  <2> QED
      BY <1>5, <2>1, LandReads, RejectReads
<1>6. CASE Drop
  <2>1. UNCHANGED <<subject, tick, version, replaced>>
        BY <1>6 DEF Drop
  <2>2. CASE RefreshUser
        BY <2>1, <2>2, RefreshReads
  <2>3. CASE UNCHANGED flight
        BY <2>3 DEF SameReads
  <2> QED
      BY <1>6, <2>2, <2>3 DEF Drop, DropOnServer, Clear
<1>7. CASE UNCHANGED flight
      BY <1>7 DEF SameReads
<1>8. ASSUME NEW r \in Readers, Hit(r) PROVE UNCHANGED flight
      BY <1>8 DEF Hit
<1>9. ASSUME NEW how \in {"write first", "drop first", "sign out"}, BeginChange(how)
      PROVE  UNCHANGED flight
      BY <1>9 DEF BeginChange
<1>10. Write \/ WriteFails \/ AnswerLost \/ CachesTick => UNCHANGED flight
      BY DEF Write, WriteFails, AnswerLost, CachesTick
<1> HIDE DEF Goal
<1> QED
    BY CachesNext, <1>1, <1>2, <1>3, <1>4, <1>5, <1>6, <1>7, <1>8, <1>9, <1>10 DEF CachesNext

\* What a caller or a component has after a step.
Given(r) ==
  \/ reader'[r] = reader[r]
  \/ reader'[r].st # "has" /\ reader'[r].v = Guest /\ reader'[r].at = 0
  \/ /\ UNCHANGED <<subject, tick, version, replaced>>
     /\ reader'[r].st = "has" /\ reader'[r].at = tick
     /\ \/ Usable /\ reader'[r].v = cache.v
        \/ \E f \in Flights : flight[f].st = "answered" /\ reader'[r].v = flight[f].v
        \/ subject = "me" /\ reader'[r].v = Guest

LEMMA ReaderWrites == CachesTypeOK /\ CachesNext => \A r \in Readers : Given(r)
<1> SUFFICES ASSUME CachesTypeOK, CachesNext, NEW q \in Readers PROVE Given(q)
    OBVIOUS
<1>0. reader \in [Readers -> ReaderRows]
      BY ReadsTyped
<1>1. ASSUME NEW r \in Readers, Hit(r) PROVE Given(q)
      BY <1>0, <1>1 DEF Hit, Shows, Given
<1>2. ASSUME NEW r \in Readers, Join(r) \/ Ask(r) \/ Unmount(r) PROVE Given(q)
  <2>1. \/ reader' = [reader EXCEPT ![r] = [st |-> "loading", v |-> Guest, at |-> 0]]
        \/ reader' = [reader EXCEPT ![r] = [st |-> "away", v |-> Guest, at |-> 0]]
        BY <1>2 DEF Join, Ask, Unmount, Loading, Away
  <2> QED
      BY <1>0, <2>1 DEF Given
<1>3. ASSUME NEW f \in Flights, Land(f) PROVE Given(q)
      BY <1>0, <1>3 DEF Land, Shows, Given
<1>4. ASSUME NEW f \in Flights, Reject(f) PROVE Given(q)
      BY <1>0, <1>4 DEF Reject, Away, Given
<1>5. CASE Drop
  <2>1. UNCHANGED <<subject, tick, version, replaced>>
        BY <1>5 DEF Drop
  <2>2. CASE Clear
    <3>1. /\ subject = "me"
          /\ reader'[q] = IF reader[q].st = "away" THEN [st |-> "away", v |-> Guest, at |-> 0]
                          ELSE [st |-> "has", v |-> Guest, at |-> tick]
          BY <2>2 DEF Clear, Shows, Away
    <3> QED
        BY <2>1, <3>1 DEF Given
  <2>3. CASE UNCHANGED reader
        BY <2>3 DEF Given
  <2> QED
      BY <1>5, <2>2, <2>3 DEF Drop, DropOnServer, RefreshUser
<1>6. ASSUME NEW f \in Flights, ServerReads(f) \/ ServerFails(f) PROVE Given(q)
      BY <1>6 DEF ServerReads, ServerFails, Given
<1>7. ASSUME NEW how \in {"write first", "drop first", "sign out"}, BeginChange(how) PROVE Given(q)
      BY <1>7 DEF BeginChange, Given
<1>8. Write \/ WriteFails \/ AnswerLost \/ CachesTick => Given(q)
      BY DEF Write, WriteFails, AnswerLost, CachesTick, Given
<1> QED
    BY CachesNext, <1>1, <1>2, <1>3, <1>4, <1>5, <1>6, <1>7, <1>8 DEF CachesNext

\* A new version, while nothing else happens; or time, while no read is late.
LEMMA VersionWrites ==
  CachesNext =>
    /\ UNCHANGED subject
    /\ \/ UNCHANGED <<version, replaced>>
       \/ /\ version' = version + 1 /\ replaced' = [replaced EXCEPT ![version] = tick]
          /\ UNCHANGED <<tick, cache, flight, reader>>
    /\ \/ UNCHANGED tick
       \/ /\ tick' = tick + 1 /\ UNCHANGED <<version, replaced, cache, flight, reader>>
          /\ \A f \in InAir : tick < flight[f].since + ReadTime
    /\ \/ UNCHANGED floor
       \/ floor' = version'
<1> USE DEF Hit, Join, Ask, ServerReads, ServerFails, Land, Reject, Unmount, BeginChange,
            WriteFails, AnswerLost
<1>1. Write => /\ UNCHANGED <<subject, tick, cache, flight, reader>>
               /\ version' = version + 1 /\ replaced' = [replaced EXCEPT ![version] = tick]
               /\ floor' \in {floor, version'}
      BY DEF Write, Over
<1>2. Drop => UNCHANGED <<subject, tick, version, replaced>> /\ floor' \in {floor, version'}
      BY DEF Drop, Over
<1>3. CachesTick => /\ UNCHANGED <<subject, version, replaced, cache, flight, reader, floor>>
                    /\ tick' = tick + 1 /\ \A f \in InAir : tick < flight[f].since + ReadTime
      BY DEF CachesTick
<1> QED
    BY <1>1, <1>2, <1>3 DEF CachesNext

-----------------------------------------------------------------------------
(* What is kept, on its way and shown.                                     *)

LEMMA NextReal ==
  CachesTypeOK /\ KeptIsReal /\ ReadsAreReal /\ ShownIsReal /\ CachesNext
    => KeptIsReal' /\ ReadsAreReal' /\ ShownIsReal'
<1> SUFFICES ASSUME CachesTypeOK, KeptIsReal, ReadsAreReal, ShownIsReal, CachesNext
             PROVE  KeptIsReal' /\ ReadsAreReal' /\ ShownIsReal'
    OBVIOUS
<1>0. /\ version' >= version /\ version' \in Nat /\ subject' = subject
      /\ floor' <= version' /\ 0 <= version
      BY VersionWrites, Numbers DEF KeptIsReal
<1>1. KeptIsReal'
  <2>1. ASSUME NEW f \in Flights, Land(f)
        PROVE  cache'.v = flight[f].v /\ flight[f].st = "answered" /\ flight[f].v <= version
        BY <2>1 DEF Land, Kept, ReadsAreReal
  <2>2. CASE cache' = cache
        BY <1>0, <2>2, Numbers DEF KeptIsReal
  <2>3. CASE cache' = Empty \/ (subject = "me" /\ cache' = Kept(Guest))
        BY <1>0, <2>3, Numbers DEF KeptIsReal, Empty, Kept, Guest
  <2>4. ASSUME NEW f \in Flights, Land(f) PROVE KeptIsReal'
        BY <1>0, <2>1, <2>4, Numbers DEF KeptIsReal, ReadsAreReal
  <2> QED
      BY <2>2, <2>3, <2>4, CacheWrites
<1>2. ReadsAreReal'
  <2>1. CASE SameReads
        BY <1>0, <2>1, Numbers DEF ReadsAreReal, SameReads
  <2>2. CASE ~SameReads
        BY <1>0, <2>2, Numbers, ReadWrites DEF ReadsAreReal, OnlyRead, Guest
  <2> QED
      BY <2>1, <2>2
<1>3. ShownIsReal'
  <2> SUFFICES ASSUME NEW r \in Readers
               PROVE  /\ reader'[r].v <= version'
                      /\ (subject' # "me" /\ reader'[r].st = "has") => reader'[r].v # Guest
      BY DEF ShownIsReal
  <2>1. Given(r)
        BY ReaderWrites
  <2> QED
      BY <1>0, <2>1, Numbers DEF Given, Usable, ShownIsReal, KeptIsReal, ReadsAreReal, Guest
<1> QED
    BY <1>1, <1>2, <1>3

LEMMA NextChange == CachesTypeOK /\ ChangeIsReal /\ CachesNext => ChangeIsReal'
<1> SUFFICES ASSUME CachesTypeOK, ChangeIsReal, CachesNext PROVE ChangeIsReal'
    OBVIOUS
<1>0. subject' = subject /\ change \in Changes
      BY VersionWrites, ReadsTyped
<1> USE <1>0 DEF ChangeIsReal, Ways, Changes
<1>1. ASSUME NEW how \in {"write first", "drop first", "sign out"}, BeginChange(how)
      PROVE  ChangeIsReal'
      BY <1>1 DEF BeginChange
<1>2. Write \/ WriteFails \/ AnswerLost \/ Drop
        => change'.st = "idle" \/ (change'.how = change.how /\ change.st # "idle")
  <2>1. Write \/ WriteFails \/ AnswerLost \/ Drop
          => /\ change.st # "idle"
             /\ \/ change' = [st |-> "idle", how |-> "write first", quiet |-> TRUE]
                \/ change' = [change EXCEPT !.st = "drop"]
                \/ change' = [change EXCEPT !.st = "write"]
        BY DEF Write, WriteFails, AnswerLost, Drop, Over, NoChange
  <2>2. CASE change' = [change EXCEPT !.st = "drop"]
        BY <2>1, <2>2, ChangeFields
  <2>3. CASE change' = [change EXCEPT !.st = "write"]
        BY <2>1, <2>3, ChangeFields
  <2>4. CASE change' = [st |-> "idle", how |-> "write first", quiet |-> TRUE]
        BY <2>4
  <2> QED
      BY <2>1, <2>2, <2>3, <2>4
<1>3. ASSUME NEW r \in Readers, Ask(r)
      PROVE  change' = change \/ (change'.how = change.how /\ change.st # "idle")
      BY <1>3 DEF Ask
<1> QED
    BY <1>1, <1>2, <1>3 DEF CachesNext, Hit, Join, ServerReads, ServerFails, Land, Reject, Unmount,
       CachesTick

LEMMA NextQuiet == CachesTypeOK /\ KeptIsReal /\ ReadsAreReal /\ QuietIsQuiet /\ CachesNext => QuietIsQuiet'
<1> SUFFICES ASSUME CachesTypeOK, KeptIsReal, ReadsAreReal, QuietIsQuiet, CachesNext PROVE QuietIsQuiet'
    OBVIOUS
<1>0. floor <= version /\ \A f \in Flights : flight[f].st = "asked" => flight[f].v = Guest
      BY DEF KeptIsReal, ReadsAreReal
<1> USE <1>0, Numbers, ReadsTyped DEF QuietIsQuiet, InAir, Changes, Guest, OnlyRead, SameReads
<1>1. ASSUME NEW r \in Readers, Hit(r) PROVE QuietIsQuiet'
      BY <1>1 DEF Hit
<1>2. ASSUME NEW r \in Readers, Join(r) PROVE QuietIsQuiet'
      BY <1>2, JoinReads DEF Join
<1>3. ASSUME NEW r \in Readers, Ask(r) PROVE QuietIsQuiet'
      BY <1>3, AskReads DEF Ask
<1>4. ASSUME NEW f \in Flights, ServerReads(f) PROVE QuietIsQuiet'
      BY <1>4, ServerReadsReads DEF ServerReads
<1>5. ASSUME NEW f \in Flights, ServerFails(f) PROVE QuietIsQuiet'
      BY <1>5, ServerFailsReads DEF ServerFails
<1>6. ASSUME NEW f \in Flights, Land(f) PROVE QuietIsQuiet'
      BY <1>6, LandReads DEF Land, Kept
<1>7. ASSUME NEW f \in Flights, Reject(f) PROVE QuietIsQuiet'
      BY <1>7, RejectReads DEF Reject
<1>8. ASSUME NEW r \in Readers, Unmount(r) PROVE QuietIsQuiet'
  <2>1. UNCHANGED <<change, cache, floor>> /\ SameReads
        BY <1>8, UnmountReads DEF Unmount
  <2> QED
      BY <2>1
<1>9. ASSUME NEW how \in {"write first", "drop first", "sign out"}, BeginChange(how)
      PROVE  QuietIsQuiet'
      BY <1>9 DEF BeginChange
<1>10. CASE Write
      BY <1>10 DEF Write, Over, NoChange
<1>11. CASE WriteFails
  <2>1. change.st = "write" /\ UNCHANGED <<cache, flight, floor>>
        BY <1>11 DEF WriteFails
  <2>2. \/ change' = [change EXCEPT !.st = "drop"]
        \/ change' = [st |-> "idle", how |-> "write first", quiet |-> TRUE]
        BY <1>11 DEF WriteFails, NoChange
  <2>3. CASE change' = [change EXCEPT !.st = "drop"]
    <3>1. change'.st = "drop" /\ change'.quiet = change.quiet
          BY <2>3, ChangeFields
    <3> QED
        BY <2>1, <3>1
  <2>4. CASE change' = [st |-> "idle", how |-> "write first", quiet |-> TRUE]
    <3>1. change'.st = "idle"
          BY <2>4
    <3> QED
        BY <2>1, <3>1
  <2> QED
      BY <2>2, <2>3, <2>4
<1>12. CASE AnswerLost
      BY <1>12 DEF AnswerLost, NoChange
<1>13. CASE Drop
  <2>1. /\ UNCHANGED <<subject, tick, version, replaced>>
        /\ change' = IF change.how = "drop first" THEN [change EXCEPT !.st = "write"] ELSE NoChange
        /\ floor' = IF change.how # "drop first" /\ change.quiet THEN version ELSE floor
        /\ change.st = "drop"
        BY <1>13 DEF Drop, Over
  <2>2. CASE DropOnServer
        BY <2>1, <2>2 DEF DropOnServer, Empty, NoChange
  <2>3. CASE RefreshUser
        BY <2>1, <2>3, RefreshReads DEF RefreshUser, NoChange
  <2>4. CASE Clear
        BY <2>1, <2>4 DEF Clear, NoChange
  <2> QED
      BY <1>13, <2>2, <2>3, <2>4 DEF Drop
<1>14. CASE CachesTick
      BY <1>14 DEF CachesTick
<1> QED
    BY CachesNext, <1>1, <1>2, <1>3, <1>4, <1>5, <1>6, <1>7, <1>8, <1>9, <1>10, <1>11, <1>12,
       <1>13, <1>14 DEF CachesNext

-----------------------------------------------------------------------------
(* How old things are.                                                     *)

LEMMA NextAges ==
  CachesTypeOK /\ KeptIsReal /\ ReadsAreReal /\ ShownIsReal /\ AgesAreSound /\ CachesNext
    => AgesAreSound'
<1> SUFFICES ASSUME CachesTypeOK, KeptIsReal, ReadsAreReal, ShownIsReal, AgesAreSound, CachesNext
             PROVE  AgesAreSound'
    OBVIOUS
<1> USE Numbers
<1>0. replaced \in [Versions -> 0..MaxTick] /\ ReadTime \in Nat /\ subject' = subject
      BY CachesAssumption, VersionWrites DEF CachesTypeOK
<1>1. tick' >= tick /\ tick' \in Nat
      BY VersionWrites
<1>2. \A f \in InAir' : flight'[f].since <= tick' /\ tick' <= flight'[f].since + ReadTime
  <2> SUFFICES ASSUME NEW f \in Flights, flight'[f].st # "free"
               PROVE  flight'[f].since <= tick' /\ tick' <= flight'[f].since + ReadTime
      BY DEF InAir
  <2>1. CASE SameReads
    <3>1. f \in InAir /\ flight'[f].since = flight[f].since
          BY <2>1 DEF SameReads, InAir
    <3> QED
        BY <1>0, <3>1, VersionWrites DEF AgesAreSound
  <2>2. CASE ~SameReads
    <3>1. tick' = tick
          BY <2>2, ReadWrites
    <3>2. \/ flight'[f].since = tick
          \/ f \in InAir /\ flight'[f].since = flight[f].since
          BY <2>2, ReadWrites DEF OnlyRead, InAir
    <3> QED
        BY <1>0, <3>1, <3>2 DEF AgesAreSound
  <2> QED
      BY <2>1, <2>2
<1>3. \A r \in Readers : reader'[r].at <= tick'
      BY <1>1, ReaderWrites DEF AgesAreSound, Given
<1>4. cache'.at <= tick'
  <2>1. ASSUME NEW f \in Flights, Land(f) PROVE cache'.at = tick
        BY <2>1 DEF Land, Kept
  <2> QED
      BY <1>1, <2>1, CacheWrites DEF AgesAreSound, Empty, Kept
<1>5. ASSUME subject # "me"
      PROVE  /\ \A f \in Flights :
                 (flight'[f].st = "answered" /\ flight'[f].v # version')
                   => replaced'[flight'[f].v] >= flight'[f].since
             /\ (cache'.full /\ cache'.v # version') => replaced'[cache'.v] + ReadTime >= cache'.at
  <2>0. /\ \A f \in Flights : flight[f].st = "answered" => flight[f].v \in Versions
        /\ cache.full => cache.v \in Versions
        BY <1>5 DEF ReadsAreReal, KeptIsReal, CachesTypeOK, Values, Versions, Guest
  <2>1. CASE UNCHANGED <<version, replaced>>
    <3>1. \A f \in Flights :
            (flight'[f].st = "answered" /\ flight'[f].v # version')
              => replaced'[flight'[f].v] >= flight'[f].since
      <4>1. CASE SameReads
            BY <1>5, <2>1, <4>1 DEF SameReads, AgesAreSound
      <4>2. CASE ~SameReads
            BY <1>5, <2>1, <4>2, ReadWrites DEF OnlyRead, AgesAreSound
      <4> QED
          BY <4>1, <4>2
    <3>2. (cache'.full /\ cache'.v # version') => replaced'[cache'.v] + ReadTime >= cache'.at
      <4>1. ASSUME NEW f \in Flights, Land(f)
            PROVE  (cache'.full /\ cache'.v # version') => replaced'[cache'.v] + ReadTime >= cache'.at
        <5>1. cache'.v = flight[f].v /\ cache'.at = tick /\ flight[f].st = "answered"
              BY <4>1 DEF Land, Kept
        <5>2. f \in InAir /\ flight[f].v \in Versions
              BY <2>0, <5>1 DEF InAir
        <5>3. replaced[flight[f].v] \in Nat /\ tick <= flight[f].since + ReadTime
              BY <1>0, <5>2, CachesAssumption DEF AgesAreSound
        <5> QED
            BY <1>0, <1>5, <2>1, <5>1, <5>3 DEF AgesAreSound
      <4>2. CASE cache' = cache
            BY <1>5, <2>1, <4>2 DEF AgesAreSound
      <4> QED
          BY <1>5, <4>1, <4>2, CacheWrites DEF Empty
    <3> QED
        BY <3>1, <3>2
  <2>2. CASE /\ version' = version + 1 /\ replaced' = [replaced EXCEPT ![version] = tick]
             /\ UNCHANGED <<tick, cache, flight, reader>>
    <3>1. version \in Versions
          BY DEF CachesTypeOK
    <3>2. \A v \in Versions : replaced'[v] = IF v = version THEN tick ELSE replaced[v]
          BY <1>0, <2>2, <3>1
    <3>3. ASSUME NEW f \in Flights, flight[f].st = "answered"
          PROVE  replaced'[flight[f].v] >= flight[f].since
      <4>1. flight[f].since <= tick
            BY <3>3 DEF InAir, AgesAreSound
      <4>2. flight[f].v # version => replaced[flight[f].v] >= flight[f].since
            BY <1>5, <3>3 DEF AgesAreSound
      <4> QED
          BY <2>0, <3>2, <3>3, <4>1, <4>2
    <3>4. ASSUME cache.full PROVE replaced'[cache.v] + ReadTime >= cache.at
      <4>1. cache.v # version => replaced[cache.v] + ReadTime >= cache.at
            BY <1>5, <3>4 DEF AgesAreSound
      <4> QED
          BY <1>0, <2>0, <3>2, <3>4, <4>1 DEF AgesAreSound
    <3> QED
        BY <2>2, <3>3, <3>4
  <2> QED
      BY <2>1, <2>2, VersionWrites
<1> QED
    BY <1>0, <1>2, <1>3, <1>4, <1>5 DEF AgesAreSound

LEMMA NextStale ==
  CachesTypeOK /\ KeptIsReal /\ ReadsAreReal /\ ShownIsReal /\ AgesAreSound /\ StaleForABoundedTime
    /\ CachesNext => StaleForABoundedTime'
<1> SUFFICES ASSUME CachesTypeOK, KeptIsReal, ReadsAreReal, ShownIsReal, AgesAreSound,
                    StaleForABoundedTime, CachesNext
             PROVE  StaleForABoundedTime'
    OBVIOUS
<1> SUFFICES ASSUME NEW r \in Readers,
                    subject' # "me", reader'[r].st = "has", reader'[r].v # version'
             PROVE  replaced'[reader'[r].v] + CacheTtl + ReadTime > reader'[r].at
    BY DEF StaleForABoundedTime
<1> USE Numbers
<1>0. /\ replaced \in [Versions -> 0..MaxTick] /\ ReadTime \in Nat /\ CacheTtl \in Nat
      /\ CacheTtl > 0 /\ subject # "me"
  <2>1. CacheTtl \in Nat \ {0} /\ ReadTime \in Nat
        BY CachesAssumption
  <2>2. replaced \in [Versions -> 0..MaxTick]
        BY DEF CachesTypeOK
  <2>3. subject # "me"
        BY VersionWrites
  <2> QED
      BY <2>1, <2>2, <2>3
<1>a. \A v \in Versions : replaced[v] \in Nat
      BY <1>0, CachesAssumption
<1>1. Given(r)
      BY ReaderWrites
<1>2. CASE reader'[r] = reader[r] /\ UNCHANGED <<version, replaced>>
      BY <1>0, <1>2 DEF StaleForABoundedTime
<1>3. CASE /\ reader'[r] = reader[r]
           /\ version' = version + 1 /\ replaced' = [replaced EXCEPT ![version] = tick]
  <2>1. reader[r].v \in Versions /\ version \in Versions
        BY <1>0, <1>3 DEF CachesTypeOK, ShownIsReal, Values, Guest
  <2>2. replaced'[reader[r].v] = IF reader[r].v = version THEN tick ELSE replaced[reader[r].v]
        BY <1>0, <1>3, <2>1
  <2>3. reader[r].at <= tick
        BY DEF AgesAreSound
  <2>4. reader[r].v # version => replaced[reader[r].v] + CacheTtl + ReadTime > reader[r].at
        BY <1>0, <1>3 DEF StaleForABoundedTime
  <2> QED
      BY <1>0, <1>3, <2>2, <2>3, <2>4
<1>4. CASE UNCHANGED <<version, replaced>> /\ Usable /\ reader'[r].v = cache.v /\ reader'[r].at = tick
  <2>1. cache.v \in Versions
        BY <1>0, <1>4 DEF Usable, KeptIsReal, CachesTypeOK, Values, Guest
  <2>2. replaced[cache.v] + ReadTime >= cache.at
        BY <1>0, <1>4 DEF Usable, AgesAreSound
  <2>3. tick < cache.at + CacheTtl
        BY <1>0, <1>4 DEF Usable
  <2>4. replaced[cache.v] \in Nat
        BY <1>a, <2>1
  <2> QED
      BY <1>0, <1>4, <2>2, <2>3, <2>4
<1>5. ASSUME UNCHANGED <<version, replaced>>, reader'[r].at = tick,
             NEW f \in Flights, flight[f].st = "answered", reader'[r].v = flight[f].v
      PROVE  replaced'[reader'[r].v] + CacheTtl + ReadTime > reader'[r].at
  <2>1. flight[f].v \in Versions
        BY <1>0, <1>5 DEF ReadsAreReal, CachesTypeOK, Values, Guest
  <2>2. replaced[flight[f].v] >= flight[f].since /\ tick <= flight[f].since + ReadTime
        BY <1>0, <1>5 DEF AgesAreSound, InAir
  <2>3. replaced[flight[f].v] \in Nat
        BY <1>a, <2>1
  <2> QED
      BY <1>0, <1>5, <2>2, <2>3
<1>6. \/ UNCHANGED <<version, replaced>>
      \/ version' = version + 1 /\ replaced' = [replaced EXCEPT ![version] = tick]
      BY VersionWrites
<1> QED
    BY <1>0, <1>1, <1>2, <1>3, <1>4, <1>5, <1>6 DEF Given

-----------------------------------------------------------------------------
(* After a quiet change.                                                   *)

LEMMA NextSeen == CachesTypeOK /\ QuietIsQuiet /\ QuietChangeIsSeen /\ CachesNext => QuietChangeIsSeen'
<1> SUFFICES ASSUME CachesTypeOK, QuietIsQuiet, QuietChangeIsSeen, CachesNext
             PROVE  QuietChangeIsSeen'
    OBVIOUS
<1> USE DEF QuietChangeIsSeen
<1>1. CASE UNCHANGED <<cache, floor>>
      BY <1>1
<1>2. ASSUME NEW f \in Flights, Land(f) PROVE QuietChangeIsSeen'
  <2>1. cache'.v = flight[f].v /\ flight[f].st = "answered" /\ floor' = floor
        BY <1>2 DEF Land, Kept
  <2> QED
      BY <2>1 DEF QuietIsQuiet
<1>3. CASE Drop
  <2>1. \/ cache' = [full |-> FALSE, v |-> Guest, at |-> 0]
        \/ cache' = [full |-> TRUE, v |-> Guest, at |-> tick]
        BY <1>3 DEF Drop, DropOnServer, RefreshUser, Clear, Empty, Kept
  <2>2. cache'.v = Guest
        BY <2>1
  <2> QED
      BY <2>2
<1>4. CASE Write
  <2>1. /\ cache' = cache /\ change.st = "write"
        /\ floor' = floor \/ (change.how = "drop first" /\ change.quiet)
        BY <1>4 DEF Write, Over
  <2> QED
      BY <1>1, <2>1 DEF QuietIsQuiet
<1> QED
    BY <1>1, <1>2, <1>3, <1>4 DEF CachesNext, Hit, Join, Ask, ServerReads, ServerFails, Reject,
       Unmount, BeginChange, WriteFails, AnswerLost, CachesTick

LEMMA NextCalm ==
  CachesTypeOK /\ ReadsAreReal /\ ChangeIsReal /\ QuietIsQuiet /\ PageIsCalm /\ CachesNext
    => PageIsCalm'
<1> SUFFICES ASSUME CachesTypeOK, ReadsAreReal, ChangeIsReal, QuietIsQuiet, PageIsCalm, CachesNext,
                    subject' = "me", calm'
             PROVE  PageIsCalm'
    BY DEF PageIsCalm
<1>0. subject = "me" /\ NoFlight \notin Flights /\ slot \in Flights \cup {NoFlight}
      BY CachesAssumption, VersionWrites DEF CachesTypeOK
<1> DEFINE OneRead == InAir' = (IF slot' = NoFlight THEN {} ELSE {slot'})
           WillTell == slot' # NoFlight =>
             ~cache'.full /\ (flight'[slot'].tell \/ \A r \in Readers : reader'[r].st # "has")
           Agree == slot' = NoFlight =>
             \A r \in Readers : reader'[r].st = "has" => cache'.full /\ reader'[r].v = cache'.v
<1> SUFFICES OneRead /\ WillTell /\ Agree
    BY DEF PageIsCalm
<1>a. SameReads => InAir' = InAir
      BY DEF SameReads, InAir
<1>b. reader \in [Readers -> ReaderRows]
      BY ReadsTyped
<1>c. calm => /\ InAir = (IF slot = NoFlight THEN {} ELSE {slot})
              /\ slot # NoFlight =>
                   ~cache.full /\ (flight[slot].tell \/ \A r \in Readers : reader[r].st # "has")
              /\ slot = NoFlight =>
                   \A r \in Readers : reader[r].st = "has" => cache.full /\ reader[r].v = cache.v
      BY <1>0 DEF PageIsCalm
<1>1. ASSUME NEW r \in Readers, Hit(r) PROVE OneRead /\ WillTell /\ Agree
  <2>1. /\ calm /\ UNCHANGED <<flight, slot, cache>> /\ cache.full
        /\ reader' = [reader EXCEPT ![r] = Shows(cache.v)]
        BY <1>1 DEF Hit, Usable
  <2>2. slot = NoFlight /\ OneRead /\ WillTell
        BY <1>c, <2>1 DEF InAir
  <2>3. \A q \in Readers : reader'[q] = IF q = r THEN Shows(cache.v) ELSE reader[q]
        BY <1>b, <2>1
  <2> QED
      BY <1>c, <2>1, <2>2, <2>3 DEF Shows
<1>2. ASSUME NEW r \in Readers, Join(r) PROVE OneRead /\ WillTell /\ Agree
  <2>1. /\ calm /\ UNCHANGED <<slot, cache>> /\ slot # NoFlight /\ slot \in Flights
        /\ reader' = [reader EXCEPT ![r] = [st |-> "loading", v |-> Guest, at |-> 0]]
        BY <1>0, <1>2 DEF Join, Loading
  <2>2. SameReads
        BY <1>2, JoinReads
  <2>3. \A q \in Readers : reader'[q].st = "has" => reader[q].st = "has"
        BY <1>b, <2>1
  <2> QED
      BY <1>a, <1>c, <2>1, <2>2, <2>3 DEF SameReads
<1>3. ASSUME NEW r \in Readers, Ask(r) PROVE OneRead /\ WillTell /\ Agree
  <2>1. /\ calm /\ cache' = cache /\ slot = NoFlight /\ ~cache.full /\ Shares
        /\ reader' = [reader EXCEPT ![r] = [st |-> "loading", v |-> Guest, at |-> 0]]
        BY <1>0, <1>3 DEF Ask, Loading, Shares, Usable
  <2>2. PICK f \in Flights : /\ OnlyRead(f) /\ flight'[f].st = "asked" /\ slot' = f
        BY <1>3, <2>1, AskReads
  <2>3. InAir = {} /\ \A q \in Readers : reader[q].st # "has"
        BY <1>c, <2>1
  <2>4. \A q \in Readers : reader'[q].st # "has"
        BY <1>b, <2>1, <2>3
  <2>5. InAir' = {f}
        BY <2>2, <2>3 DEF InAir, OnlyRead
  <2> QED
      BY <1>0, <2>1, <2>2, <2>4, <2>5
<1>4. ASSUME NEW f \in Flights, ServerReads(f) \/ ServerFails(f) PROVE OneRead /\ WillTell /\ Agree
  <2>1. calm /\ UNCHANGED <<slot, cache, reader>>
        BY <1>4 DEF ServerReads, ServerFails
  <2>2. /\ OnlyRead(f) /\ flight[f].st = "asked" /\ flight'[f].st # "free"
        /\ flight'[f].tell = flight[f].tell
        BY <1>4, ServerReadsReads, ServerFailsReads
  <2>3. InAir' = InAir
        BY <2>2 DEF InAir, OnlyRead
  <2> QED
      BY <1>0, <1>c, <2>1, <2>2, <2>3 DEF OnlyRead
<1>5. ASSUME NEW f \in Flights, Land(f) PROVE OneRead /\ WillTell /\ Agree
  <2>1. calm /\ slot' = NoFlight /\ cache'.full /\ cache'.v = flight[f].v /\ flight[f].st = "answered"
        BY <1>0, <1>5 DEF Land, Shares, Kept
  <2>2. OnlyRead(f) /\ flight'[f].st = "free"
        BY <1>5, LandReads
  <2>3. f \in InAir
        BY <2>1 DEF InAir
  <2>4. f = slot /\ InAir = {f}
        BY <1>c, <2>1, <2>3
  <2>5. InAir' = {}
        BY <2>2, <2>4 DEF InAir, OnlyRead
  <2>6. ASSUME NEW q \in Readers, reader'[q].st = "has" PROVE reader'[q].v = cache'.v
    <3>1. reader'[q] = IF q \in Told(f) THEN Shows(flight[f].v) ELSE reader[q]
          BY <1>5 DEF Land
    <3>2. q \notin Told(f) => reader[q].st # "has"
          BY <1>c, <2>1, <2>4, <1>0 DEF Told
    <3> QED
        BY <2>1, <2>6, <3>1, <3>2 DEF Shows
  <2> QED
      BY <2>1, <2>5, <2>6
<1>6. ASSUME NEW f \in Flights, Reject(f) PROVE FALSE
      BY <1>0, <1>6 DEF Reject, ReadsAreReal
<1>7. ASSUME NEW r \in Readers, Unmount(r) PROVE OneRead /\ WillTell /\ Agree
  <2>1. calm /\ UNCHANGED <<slot, cache>> /\ reader' = [reader EXCEPT ![r] = Away]
        BY <1>7 DEF Unmount
  <2>2. SameReads
        BY <1>7, UnmountReads
  <2>3. \A q \in Readers : reader'[q].st = "has" => reader'[q] = reader[q]
        BY <1>b, <2>1 DEF Away
  <2> QED
      BY <1>0, <1>a, <1>c, <2>1, <2>2, <2>3 DEF SameReads
<1>8. CASE calm /\ UNCHANGED <<flight, slot, cache, reader>>
      BY <1>c, <1>8 DEF InAir
<1>9. CASE Write
  <2>1. UNCHANGED <<flight, slot, cache, reader>> /\ change.st = "write"
        BY <1>9 DEF Write
  <2>2. change.how # "drop first"
        BY <1>0, <2>1 DEF ChangeIsReal, Ways
  <2>3. calm
        BY <1>9, <2>2 DEF Write, Over
  <2> QED
      BY <1>8, <2>1, <2>3
<1>10. CASE Drop
  <2>1. change.st = "drop" /\ change.how # "drop first"
        BY <1>0, <1>10 DEF Drop, ChangeIsReal, Ways
  <2>2. change.quiet
        BY <1>10, <2>1 DEF Drop, Over
  <2>3. InAir = {}
        BY <2>1, <2>2 DEF QuietIsQuiet
  <2>4. CASE RefreshUser
    <3>1. PICK f \in Flights : /\ OnlyRead(f) /\ flight'[f].st = "asked" /\ slot' = f
                               /\ flight'[f].tell = TRUE
          BY <2>4, RefreshReads
    <3>2. InAir' = {f} /\ ~cache'.full
      <4>1. cache' = [full |-> FALSE, v |-> Guest, at |-> 0]
            BY <2>4 DEF RefreshUser, Empty
      <4>2. InAir' = {f}
            BY <2>3, <3>1 DEF InAir, OnlyRead
      <4> QED
          BY <4>1, <4>2
    <3> QED
        BY <1>0, <3>1, <3>2
  <2>5. CASE Clear
    <3>1. /\ slot' = NoFlight /\ flight' = flight /\ cache'.full /\ cache'.v = Guest
          /\ \A q \in Readers : reader'[q] = IF reader[q].st = "away" THEN Away ELSE Shows(Guest)
          BY <2>5 DEF Clear, Kept
    <3>2. InAir' = {}
          BY <2>3, <3>1 DEF InAir
    <3> QED
        BY <3>1, <3>2 DEF Away, Shows
  <2> QED
      BY <1>0, <1>10, <2>4, <2>5 DEF Drop, DropOnServer
<1>11. ASSUME NEW how \in {"write first", "drop first", "sign out"}, BeginChange(how)
       PROVE  OneRead /\ WillTell /\ Agree
       BY <1>8, <1>11 DEF BeginChange
<1>12. CASE WriteFails \/ AnswerLost \/ CachesTick
       BY <1>8, <1>12 DEF WriteFails, AnswerLost, CachesTick
<1> HIDE DEF OneRead, WillTell, Agree
<1> QED
    BY <1>1, <1>2, <1>3, <1>4, <1>5, <1>6, <1>7, <1>9, <1>10, <1>11, <1>12 DEF CachesNext

-----------------------------------------------------------------------------
LEMMA CachesInitInv == CachesInit => CachesInv
<1> SUFFICES ASSUME CachesInit PROVE CachesInv
    OBVIOUS
<1>1. CachesTypeOK
      BY InitType
<1>2. /\ \A f \in Flights : flight[f].st = "free" /\ flight[f].v = Guest
      /\ \A r \in Readers : reader[r].st = "away" /\ reader[r].v = Guest /\ reader[r].at = 0
      BY DEF CachesInit, Grounded, Away
<1>3. ~cache.full /\ cache.v = Guest /\ cache.at = 0 /\ change.st = "idle"
  <2>1. /\ cache = [full |-> FALSE, v |-> Guest, at |-> 0]
        /\ change = [st |-> "idle", how |-> "write first", quiet |-> TRUE]
        BY DEF CachesInit, Empty, NoChange
  <2> QED
      BY <2>1
<1>4. tick = 0 /\ version = 1 /\ floor = 1 /\ slot = NoFlight /\ InAir = {}
      BY <1>2 DEF CachesInit, InAir
<1>5. KeptIsReal /\ ReadsAreReal /\ ShownIsReal /\ ChangeIsReal
      BY <1>2, <1>3, <1>4 DEF KeptIsReal, ReadsAreReal, ShownIsReal, ChangeIsReal, Guest
<1>6. AgesAreSound /\ QuietIsQuiet /\ PageIsCalm /\ StaleForABoundedTime /\ QuietChangeIsSeen
      BY <1>2, <1>3, <1>4 DEF AgesAreSound, QuietIsQuiet, PageIsCalm, StaleForABoundedTime,
         QuietChangeIsSeen
<1> QED
    BY <1>1, <1>5, <1>6 DEF CachesInv

LEMMA CachesNextInv == CachesInv /\ [CachesNext]_cachesVars => CachesInv'
<1> SUFFICES ASSUME CachesInv, [CachesNext]_cachesVars PROVE CachesInv'
    OBVIOUS
<1> USE DEF CachesInv
<1>1. CASE UNCHANGED cachesVars
  <2>1. CachesTypeOK' /\ KeptIsReal' /\ ReadsAreReal' /\ ShownIsReal' /\ ChangeIsReal'
        BY <1>1 DEF cachesVars, CachesTypeOK, KeptIsReal, ReadsAreReal, ShownIsReal, ChangeIsReal, Ways
  <2>2. AgesAreSound' /\ QuietIsQuiet' /\ PageIsCalm' /\ StaleForABoundedTime' /\ QuietChangeIsSeen'
        BY <1>1 DEF cachesVars, AgesAreSound, QuietIsQuiet, PageIsCalm, StaleForABoundedTime,
                    QuietChangeIsSeen, InAir
  <2> QED
      BY <2>1, <2>2
<1>2. CASE CachesNext
      BY <1>2, NextType, NextReal, NextChange, NextAges, NextQuiet, NextCalm, NextStale, NextSeen
<1> QED
    BY <1>1, <1>2

(* The invariant holds of a cache at every step of its reads and changes.  *)
THEOREM CachesInvariance == CachesSpec => []CachesInv
<1> QED
    BY CachesInitInv, CachesNextInv, PTL DEF CachesSpec

(* The value kept, the reads and the callers have their types.             *)
THEOREM CachesTypeCorrectness == CachesSpec => []CachesTypeOK
<1>1. CachesInv => CachesTypeOK
      BY DEF CachesInv
<1> QED
    BY <1>1, CachesInvariance, PTL

(* What getSetting and cachedAvailability give out was current within the  *)
(* last CacheTtl and ReadTime, however reads and changes overlap.          *)
THEOREM BoundedStaleness == CachesSpec => []StaleForABoundedTime
<1>1. CachesInv => StaleForABoundedTime
      BY DEF CachesInv
<1> QED
    BY <1>1, CachesInvariance, PTL

(* A setSetting, an administrator's change of a question or a              *)
(* refreshCurrentUser that no read overlapped leaves nothing older behind. *)
THEOREM QuietChangesAreSeen == CachesSpec => []QuietChangeIsSeen
<1>1. CachesInv => QuietChangeIsSeen
      BY DEF CachesInv
<1> QED
    BY <1>1, CachesInvariance, PTL

(* All components of a page show one user once nothing is on its way, if   *)
(* the last change was a quiet one (use-current-user.ts).                  *)
THEOREM Agreement == CachesSpec => []ComponentsAgree
<1>1. CachesInv => ComponentsAgree
  <2> SUFFICES ASSUME CachesInv, subject = "me", InAir = {}, calm PROVE ComponentsAgree
      BY DEF ComponentsAgree
  <2>1. slot = NoFlight
        BY DEF CachesInv, PageIsCalm
  <2> QED
      BY <2>1 DEF CachesInv, PageIsCalm, ComponentsAgree
<1> QED
    BY <1>1, CachesInvariance, PTL
-----------------------------------------------------------------------------
\* Whatever Tables does is a behaviour of the sessions, one of the club and one of
\* the caches: none of them touches a variable of another.
THEOREM TablesAreAll == TablesSpec => Spec /\ ClubSpec /\ CachesSpec
<1>1. TablesInit => Init /\ ClubInit /\ CachesInit
  BY DEF TablesInit
<1>2. [TablesNext]_tablesVars => [Next]_vars /\ [ClubNext]_clubVars /\ [CachesNext]_cachesVars
  BY DEF TablesNext, tablesVars, ClubNext
<1> QED
  BY <1>1, <1>2, PTL DEF TablesSpec, Spec, ClubSpec, CachesSpec

\* The rows, requests, transactions and caches of all three keep their types.
THEOREM TablesTypeCorrectness == TablesSpec => []TablesTypeOK
<1>1. TypeOK /\ ClubTypeOK /\ CachesTypeOK => TablesTypeOK
  BY DEF TablesTypeOK
<1> QED
  BY <1>1, TablesAreAll, TypeCorrectness, ClubTypeCorrectness, CachesTypeCorrectness, PTL
=============================================================================
