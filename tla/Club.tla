-------------------------------- MODULE Club --------------------------------
(***************************************************************************)
(* Sarva Club: the poems that an administrator has passed, the readers'    *)
(* likes, the threads of comments, and the two numbers under a poem, which *)
(* the triggers club_likes_count and club_comments_count recount.          *)
(*                                                                         *)
(* Under READ COMMITTED a statement sees what was committed when it began. *)
(* A write of a like or a comment is here two steps: the statement takes   *)
(* its rows, and its trigger counts them ("counting"); when the poem's row *)
(* is free the number is stored and the transaction commits.  A transaction*)
(* that waits for the poem's row meanwhile keeps the count it has made.    *)
(***************************************************************************)
EXTENDS Naturals, FiniteSets

CONSTANTS Poems,     \* rows of club_posts there may ever be
          Remarks,   \* rows of club_comments there may ever be
          Fans,      \* readers who are signed in
          Calls,     \* server actions in flight together
          Nothing

ASSUME ClubAssumption == Nothing \notin Poems \cup Remarks \cup Fans

\* A table holds finitely many rows, and its trigger counts them.
ASSUME FinitenessAssumption == IsFiniteSet(Remarks) /\ IsFiniteSet(Fans)

VARIABLES poem,     \* club_posts: its status and the two numbers
          liked,    \* club_likes
          remark,   \* club_comments
          call,     \* a server action between two of its statements
          blurred   \* history: the numbers whose last recount was overtaken
                    \* by the commit of another write

clubVars == <<poem, liked, remark, call, blurred>>

Kinds    == {"likes", "remarks"}
Statuses == {"held", "approved"}     \* held: pending or rejected
Writes   == {"like", "unlike", "send", "decide", "drop"}

NoPoem   == [st |-> "none", number |-> [k \in Kinds |-> 0]]
NoRemark == [st |-> "none", on |-> Nothing, parent |-> Nothing, replyTo |-> Nothing]
Gone     == [NoRemark EXCEPT !.st = "gone"]
AtRest   == [pc |-> "rest", op |-> "like", by |-> Nothing, on |-> Nothing,
             remark |-> Nothing, parent |-> Nothing, replyTo |-> Nothing,
             st |-> "held", count |-> 0, late |-> FALSE]

Printed(p)   == poem[p].st \in Statuses              \* the row exists
Written(c)   == remark[c].st \in Statuses
Published(p) == poem[p].st = "approved"
Replies(c)   == {d \in Remarks : Written(d) /\ remark[d].parent = c}
Referrers(c) == {d \in Remarks : Written(d) /\ remark[d].replyTo = c}
Doomed(c)    == {c} \cup Replies(c)                   \* on delete cascade
Orphaned(c)  == (UNION {Referrers(d) : d \in Doomed(c)}) \ Doomed(c)   \* on delete set null

ClubInit ==
    /\ poem = [p \in Poems |-> NoPoem]
    /\ liked = {}
    /\ remark = [c \in Remarks |-> NoRemark]
    /\ call = [r \in Calls |-> AtRest]
    /\ blurred = {}

-----------------------------------------------------------------------------
(* What a write k does to the rows, and what its trigger counts then.      *)

KindOf(k) == IF k.op \in {"like", "unlike"} THEN "likes" ELSE "remarks"

LikesAfter(k) ==
    CASE k.op = "like"   -> liked \cup {<<k.on, k.by>>}
      [] k.op = "unlike" -> liked \ {<<k.on, k.by>>}
      [] OTHER           -> liked

Without(c) ==
    [d \in Remarks |-> IF d \in Doomed(c) THEN Gone
                       ELSE IF d \in Orphaned(c) THEN [remark[d] EXCEPT !.replyTo = Nothing]
                       ELSE remark[d]]

RemarksAfter(k) ==
    CASE k.op = "send"   -> [remark EXCEPT ![k.remark] =
                               [st |-> "held", on |-> k.on, parent |-> k.parent,
                                replyTo |-> k.replyTo]]
      [] k.op = "decide" -> [remark EXCEPT ![k.remark].st = k.st]
      [] k.op = "drop"   -> Without(k.remark)
      [] OTHER           -> remark

LikesOf(p, L)   == Cardinality({u \in Fans : <<p, u>> \in L})
RemarksOf(p, R) == Cardinality({c \in Remarks : R[c].on = p /\ R[c].st = "approved"})

\* club_sync_like_count, club_sync_comment_count.
CountAfter(k) ==
    IF KindOf(k) = "likes" THEN LikesOf(k.on, LikesAfter(k))
    ELSE RemarksOf(k.on, RemarksAfter(k))

\* A deletion that takes other rows along counts once for each of them; from
\* the first of these counts on it has the poem's row, and nobody else commits.
CountsAgain(k) == k.op = "drop" /\ Doomed(k.remark) \cup Orphaned(k.remark) # {k.remark}

-----------------------------------------------------------------------------
(* Which rows a write in flight has.                                       *)

Counting(q) == call[q].pc = "counting"
HasLike(q, p, u) ==
    Counting(q) /\ KindOf(call[q]) = "likes" /\ call[q].on = p /\ call[q].by = u
Touches(q)    == IF ~Counting(q) \/ KindOf(call[q]) = "likes" THEN {}
                 ELSE IF call[q].op = "drop"
                      THEN Doomed(call[q].remark) \cup Orphaned(call[q].remark)
                      ELSE {call[q].remark}
\* The foreign keys of an insert keep the rows they name from being deleted.
Needs(q)      == IF Counting(q) /\ call[q].op = "send"
                 THEN {call[q].parent, call[q].replyTo} \ {Nothing} ELSE {}

LikeIsFree(p, u) == \A q \in Calls : ~HasLike(q, p, u)
AreFree(S)       == \A q \in Calls : Touches(q) \cap S = {}
MayGo(S)         == AreFree(S) /\ \A q \in Calls : Needs(q) \cap S = {}

Idles(r)   == call[r].pc = "rest"
Ends(r)    == call' = [call EXCEPT ![r] = AtRest]
Goes(r, k) == call' = [call EXCEPT ![r] = k]

\* The statement has its rows, and its trigger counts.
Counts(r, k) == Goes(r, [k EXCEPT !.pc = "counting", !.count = CountAfter(k)])

\* Mutant: the trigger is one of inserts and updates only.
CommitsUnlessLess(r) ==
    LET k == call[r] IN
    [poem EXCEPT ![k.on].number[KindOf(k)] = IF k.op \in {"unlike", "drop"} THEN @ ELSE k.count]

\* The number that the transaction leaves under the poem.
Stored(r) ==
    LET k == call[r] IN
    [poem EXCEPT ![k.on].number[KindOf(k)] = IF CountsAgain(k) THEN CountAfter(k) ELSE k.count]

Commit(r) ==
    LET k == call[r]
        n == <<k.on, KindOf(k)>>
    IN  /\ Counting(r)
        /\ liked' = LikesAfter(k)
        /\ remark' = RemarksAfter(k)
        /\ poem' = Stored(r)
        /\ blurred' = IF k.late /\ ~CountsAgain(k) THEN blurred \cup {n} ELSE blurred \ {n}
        /\ call' = [q \in Calls |->
              IF q = r THEN AtRest
              ELSE [call[q] EXCEPT !.late =
                      @ \/ (Counting(q) /\ <<call[q].on, KindOf(call[q])>> = n)]]

-----------------------------------------------------------------------------
(* Poems.  Each of these is one statement.                                 *)

PoemsOnly == UNCHANGED <<liked, remark, call, blurred>>

\* The limits of a day and of the queue may refuse; nothing else depends on them.
CreatePoem(p) ==
    /\ poem[p].st = "none"
    /\ poem' = [poem EXCEPT ![p].st = "held"]
    /\ PoemsOnly

\* updateClubPost: a text that was changed goes back to the queue.
EditPoem(p) ==
    /\ Printed(p)
    /\ poem' = [poem EXCEPT ![p].st = "held"]
    /\ PoemsOnly

SetPoemStatus(p, st) ==
    /\ Printed(p)
    /\ poem' = [poem EXCEPT ![p].st = st]
    /\ PoemsOnly

\* By its author or by an administrator; likes and comments go along, for which
\* it waits for every write that has one of them.
DeletePoem(p) ==
    /\ Printed(p)
    /\ \A q \in Calls : ~(Counting(q) /\ call[q].on = p)
    /\ poem' = [poem EXCEPT ![p] = [NoPoem EXCEPT !.st = "gone"]]
    /\ liked' = {l \in liked : l[1] # p}
    /\ remark' = [c \in Remarks |-> IF remark[c].on = p THEN Gone ELSE remark[c]]
    /\ blurred' = {n \in blurred : n[1] # p}
    /\ UNCHANGED call

-----------------------------------------------------------------------------
(* Likes: one transaction of toggleClubLike.                               *)

RowsStay == UNCHANGED <<poem, liked, remark, blurred>>

Like(p, u, op) == [AtRest EXCEPT !.op = op, !.on = p, !.by = u]

\* delete ... returning takes the like away,
Unlike(r, p, u) ==
    /\ Idles(r) /\ <<p, u>> \in liked /\ LikeIsFree(p, u)
    /\ Counts(r, Like(p, u, "unlike"))
    /\ RowsStay

\* or finds none, not even one that is not committed yet.
MissesLike(r, p, u) ==
    /\ Idles(r) /\ <<p, u>> \notin liked
    /\ Goes(r, [Like(p, u, "like") EXCEPT !.pc = "missed"])
    /\ RowsStay

FindsPublished(r) ==
    /\ call[r].pc = "missed" /\ Published(call[r].on)
    /\ Goes(r, [call[r] EXCEPT !.pc = "found"])
    /\ RowsStay

\* The primary key waits for whoever writes the same like, and refuses a second one.
InsertLike(r) ==
    LET k == call[r] IN
    /\ k.pc = "found" /\ Printed(k.on)
    /\ LikeIsFree(k.on, k.by) /\ <<k.on, k.by>> \notin liked
    /\ Counts(r, k)
    /\ RowsStay

-----------------------------------------------------------------------------
(* Comments.                                                               *)

\* createClubComment: the poem is published; then the target of a reply.
Comment(r, p) ==
    /\ Idles(r) /\ Published(p)
    /\ \E c \in Remarks \cup {Nothing} :
        Goes(r, [AtRest EXCEPT !.op = "send", !.on = p, !.replyTo = c,
                               !.pc = IF c = Nothing THEN "writing" ELSE "aiming"])
    /\ RowsStay

\* Mutant: a reply hangs under what it answers.
UnderTarget(c) == c

\* A thread is indented once: a reply to a reply hangs under the same root,
Root(c) == IF remark[c].parent = Nothing THEN c ELSE remark[c].parent

\* and remembers whom it answers.
Aim(r) ==
    LET k == call[r]
        c == k.replyTo
    IN  /\ k.pc = "aiming"
        /\ remark[c].on = k.on /\ remark[c].st = "approved"
        /\ Goes(r, [k EXCEPT !.pc = "writing", !.parent = Root(c),
                             !.replyTo = IF Root(c) = c THEN Nothing ELSE c])
        /\ RowsStay

\* The foreign keys: the poem, the root and the target are there, and stay.
InsertRemark(r) ==
    LET k    == call[r]
        refs == {k.parent, k.replyTo} \ {Nothing}
    IN  /\ k.pc = "writing" /\ Printed(k.on)
        /\ \A d \in refs : Written(d)
        /\ \A q \in Calls : Counting(q) /\ call[q].op = "drop"
                            => Doomed(call[q].remark) \cap refs = {}
        /\ \E c \in Remarks :
            /\ remark[c].st = "none" /\ AreFree({c})
            /\ Counts(r, [k EXCEPT !.remark = c])
        /\ RowsStay

OnRemark(c, op, st) == [AtRest EXCEPT !.op = op, !.on = remark[c].on, !.remark = c, !.st = st]

\* clubAdminSetCommentStatus.
Decide(r, c, st) ==
    /\ Idles(r) /\ Written(c) /\ AreFree({c})
    /\ Counts(r, OnRemark(c, "decide", st))
    /\ RowsStay

\* deleteClubComment, clubAdminDeleteComment.
DropRemark(r, c) ==
    /\ Idles(r) /\ Written(c)
    /\ MayGo(Doomed(c)) /\ AreFree(Orphaned(c))
    /\ Counts(r, OnRemark(c, "drop", "held"))
    /\ RowsStay

\* A look that finds nothing, a key that refuses, a statement that fails, a
\* deadlock that Postgres ends: the transaction is rolled back.
CallFails(r) == ~Idles(r) /\ Ends(r) /\ RowsStay

PoemsNext ==
    \E p \in Poems : CreatePoem(p) \/ EditPoem(p) \/ DeletePoem(p)
                     \/ \E st \in Statuses : SetPoemStatus(p, st)

LikesNext ==
    \E r \in Calls :
        \/ \E p \in Poems, u \in Fans : Unlike(r, p, u) \/ MissesLike(r, p, u)
        \/ FindsPublished(r) \/ InsertLike(r) \/ Commit(r) \/ CallFails(r)

RemarksNext ==
    \E r \in Calls :
        \/ \E p \in Poems : Comment(r, p)
        \/ \E c \in Remarks : DropRemark(r, c) \/ \E st \in Statuses : Decide(r, c, st)
        \/ Aim(r) \/ InsertRemark(r) \/ Commit(r) \/ CallFails(r)

ClubNext == PoemsNext \/ LikesNext \/ RemarksNext

ClubSpec == ClubInit /\ [][ClubNext]_clubVars

-----------------------------------------------------------------------------
ClubTypeOK ==
    /\ poem \in [Poems -> [st : {"none", "gone"} \cup Statuses,
                           number : [Kinds -> Nat]]]
    /\ liked \subseteq Poems \X Fans
    /\ remark \in [Remarks -> [st : {"none", "gone"} \cup Statuses, on : Poems \cup {Nothing},
                               parent : Remarks \cup {Nothing}, replyTo : Remarks \cup {Nothing}]]
    /\ call \in [Calls -> [pc : {"rest", "missed", "found", "aiming", "writing", "counting"},
                           op : Writes, by : Fans \cup {Nothing}, on : Poems \cup {Nothing},
                           remark : Remarks \cup {Nothing}, parent : Remarks \cup {Nothing},
                           replyTo : Remarks \cup {Nothing}, st : Statuses,
                           count : Nat, late : BOOLEAN]]
    /\ blurred \subseteq Poems \X Kinds

\* The rows that are committed, counted.
Actual(p, kind) == IF kind = "likes" THEN LikesOf(p, liked) ELSE RemarksOf(p, remark)

\* The number under a poem is the number of its likes, or of its approved
\* comments, unless another write of the same poem was committed while the last
\* one waited for the poem's row; the next one that meets nobody puts it right.
NumbersCatchUp ==
    \A p \in Poems, kind \in Kinds :
        Printed(p) /\ <<p, kind>> \notin blurred => poem[p].number[kind] = Actual(p, kind)

\* The page draws roots and, under each, its replies (CommentThread.tsx): a
\* comment hangs under a root of the same poem, however targets are deleted
\* between the look at them and the insert, and answers one of the same thread.
ThreadsAreShallow ==
    \A c \in Remarks : Written(c) =>
        /\ Printed(remark[c].on)
        /\ remark[c].parent # Nothing =>
              /\ Written(remark[c].parent) /\ remark[remark[c].parent].on = remark[c].on
              /\ remark[remark[c].parent].parent = Nothing
        /\ remark[c].replyTo # Nothing =>
              /\ Written(remark[c].replyTo)
              /\ remark[remark[c].replyTo].parent = remark[c].parent

-----------------------------------------------------------------------------
\* "The count comes from the counter that the database keeps, so it is right
\* even when two readers like a poem at the same moment" (actions.ts:378-380).
LikesAreRight == \A p \in Poems : Printed(p) => poem[p].number["likes"] = Actual(p, "likes")
=============================================================================
