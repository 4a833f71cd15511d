----------------------------- MODULE SessionProofs -----------------------------
(***************************************************************************)
(* Proofs about the sessions, for any number of rows, requests, browsers   *)
(* and clock readings, in three parts.                                     *)
(*                                                                         *)
(* The table: the rows of a sign-in form one chain with at most one row    *)
(* that is not rotated away, and revoked_at is written once.  The argument *)
(* is Inv: RequestsAreSound says what a lock protects, and every UPDATE    *)
(* that could touch the row of a rotation waits for it (LocksRow, Free).   *)
(*                                                                         *)
(* The refinement: SessionTable implements LoginFamily.  Only three kinds  *)
(* of statement change the table.  An UPDATE that revokes closes some open *)
(* families and opens none; the commit of a rotation moves the one live    *)
(* row of its family and so leaves the family open; an insert of a new     *)
(* session opens a family no row was of.                                   *)
(*                                                                         *)
(* The cookies: a browser whose rotated cookies all arrived is never taken *)
(* for a thief, provided that the grace window is longer than two          *)
(* journeys.  The argument is CookiesInv: a token that a rotation made is  *)
(* unknown to everybody until its answer arrives (HeirsAreUnseen), so that *)
(* a burnt token in a jar is followed by the answer with its heir          *)
(* (JarsAreFollowed), and whoever still presents it does so in time and    *)
(* before the heir is rotated in its turn (LateOnesRace).                  *)
(***************************************************************************)
EXTENDS SessionCookies, TLAPS

LEMMA EntryType ==
  ASSUME NEW state \in {"idle"} \cup Running \cup Answer,
         NEW token \in Sid \cup {None}, NEW heir \in Sid \cup {None},
         NEW snap \in SUBSET Sid, NEW issue \in BOOLEAN, NEW since \in 0..MaxTime
  PROVE  Entry(state, token, heir, snap, issue, since) \in Requests
  BY DEF Entry, Requests

LEMMA ZeroIsATime == 0 \in 0..MaxTime /\ 0 \in 0..(MaxTime + Ttl)
  BY TimeAssumption

LEMMA InitInv == Init => Inv
<1> SUFFICES ASSUME Init PROVE Inv
  OBVIOUS
<1>1. Idle \in Requests
  BY EntryType, ZeroIsATime DEF Idle
<1>2. TypeOK
  BY <1>1, ZeroIsATime DEF Init, TypeOK
<1>3. RowsAreSound /\ ChainIsSound /\ OneTipPerFamily
  BY DEF Init, RowsAreSound, ChainIsSound, OneTipPerFamily, Rotated, Revoked
<1>4. RequestsAreSound
  BY DEF Init, RequestsAreSound, Idle, Entry, At
<1> QED
  BY <1>2, <1>3, <1>4 DEF Inv

(* A request that only changes its own entry in tx, and does not come to   *)
(* hold a lock, disturbs nothing.                                          *)
LEMMA TxOnly ==
  ASSUME Inv, UNCHANGED <<now, table>>, isBanned' \in BOOLEAN,
         NEW r \in Tx, NEW t,
         t \in Requests,
         t.pc \notin {"rotating", "reusing"}, t.held = {},
         tx' = [tx EXCEPT ![r] = t]
  PROVE  Inv'
<1>1. TypeOK'
  BY DEF Inv, TypeOK, table
<1>2. RowsAreSound' /\ ChainIsSound' /\ OneTipPerFamily'
  BY DEF Inv, RowsAreSound, ChainIsSound, OneTipPerFamily, table, Rotated, Revoked
<1>3. \A q \in Tx : q # r => tx'[q] = tx[q]
  BY DEF Inv, TypeOK
<1>4. tx'[r] = t
  BY DEF Inv, TypeOK
<1>5. RequestsAreSound'
  BY <1>3, <1>4 DEF Inv, RequestsAreSound, At, table, Rotated, Revoked
<1> QED
  BY <1>1, <1>2, <1>5 DEF Inv
(* The kinds of statement that do change rows.  First an UPDATE that       *)
(* revokes: its rows are locked by no rotation.                            *)
LEMMA RevokeStep ==
  ASSUME Inv, NEW S, Revoke(S),
         UNCHANGED <<now, rows, familyId, rotatedTo, expiresAt, isBanned>>,
         \A q \in Tx : At(q, "rotating") => tx[q].token \notin S,
         NEW r \in Tx, NEW a \in ({"idle"} \cup Running \cup Answer) \ {"rotating", "reusing"},
         Answers(r, a, None)
  PROVE  Inv' /\ \A s \in Sid : Revoked(s) => revokedAt'[s] = revokedAt[s]
<1>1. tx'[r] = Entry(a, None, None, {}, FALSE, 0)
  BY DEF Inv, TypeOK, Answers
<1>2. \A q \in Tx : q # r => tx'[q] = tx[q]
  BY DEF Inv, TypeOK, Answers
<1>3. tx'[r] \in Requests
  BY <1>1, EntryType, ZeroIsATime
<1>4. /\ revokedAt' \in [Sid -> (0..MaxTime) \cup {None}]
      /\ \A s \in Sid : revokedAt'[s] =
           IF s \in S /\ Live(s) THEN now ELSE revokedAt[s]
  BY DEF Inv, TypeOK, Revoke
<1>5. \A s \in Sid : Revoked(s) => revokedAt'[s] = revokedAt[s]
  BY <1>4 DEF Live
<1>6. TypeOK'
  BY <1>3, <1>4 DEF Inv, TypeOK, Answers
<1>7. RowsAreSound'
  BY <1>4 DEF Inv, TypeOK, RowsAreSound, Rotated, Revoked, Live
<1>8. ChainIsSound' /\ OneTipPerFamily'
  BY <1>5 DEF Inv, TypeOK, ChainIsSound, OneTipPerFamily, Rotated, Revoked
<1>9. RequestsAreSound'
  <2>1. tx'[r].pc \notin {"rotating", "reusing"} /\ tx'[r].held = {}
    BY <1>1 DEF Entry
  <2>2. \A q \in Tx : At(q, "rotating") => revokedAt'[tx[q].token] = revokedAt[tx[q].token]
    BY <1>4 DEF Inv, TypeOK, RequestsAreSound
  <2> QED
    BY <1>2, <2>1, <2>2 DEF Inv, RequestsAreSound, At, Rotated, Revoked
<1> QED
  BY <1>5, <1>6, <1>7, <1>8, <1>9 DEF Inv

(* The commit of a rotation.                                               *)
LEMMA CommitStep ==
  ASSUME Inv, NEW r \in Tx, RefreshCommit(r)
  PROVE  Inv' /\ \A s \in Sid : Revoked(s) => revokedAt'[s] = revokedAt[s]
<1> DEFINE s == tx[r].token
           h == tx[r].heir
<1>1. /\ At(r, "rotating")
      /\ s \in rows /\ ~Rotated(s) /\ ~Revoked(s)
      /\ h \in Sid \ rows /\ s # h /\ s \in Sid /\ h \in Sid
      /\ ~Rotated(h) /\ ~Revoked(h)
  BY DEF RefreshCommit, Inv, RequestsAreSound, RowsAreSound, TypeOK
<1>2. /\ rows' = rows \cup {h}
      /\ familyId'  = [familyId  EXCEPT ![h] = familyId[s]]
      /\ expiresAt' = [expiresAt EXCEPT ![h] = expiresAt[s]]
      /\ rotatedTo' = [rotatedTo EXCEPT ![s] = h]
      /\ revokedAt' = [revokedAt EXCEPT ![s] = tx[r].since]
      /\ UNCHANGED <<now, isBanned>>
  BY DEF RefreshCommit
<1>3. tx' = [tx EXCEPT ![r] = Entry("rotated", None, h, {}, FALSE, 0)]
  BY DEF RefreshCommit, Answers
<1>4. tx'[r].pc = "rotated" /\ tx'[r].held = {} /\ \A q \in Tx : q # r => tx'[q] = tx[q]
  BY <1>3 DEF Inv, TypeOK, Entry
<1>5. tx[r].since \in 0..MaxTime /\ tx[r].since # None
  BY NoneAssumption DEF Inv, TypeOK, Requests
<1>6. TypeOK'
  <2>1. Entry("rotated", None, h, {}, FALSE, 0) \in Requests
    BY <1>1, EntryType, ZeroIsATime DEF Answer
  <2> QED
    BY <1>1, <1>2, <1>3, <1>5, <2>1 DEF Inv, TypeOK
<1>7. RowsAreSound'
  BY <1>1, <1>2 DEF Inv, TypeOK, RowsAreSound, Rotated, Revoked
<1>8. ChainIsSound'
  <2> SUFFICES ASSUME NEW x \in rows', Rotated(x)'
               PROVE  /\ Revoked(x)'
                      /\ rotatedTo'[x] \in rows'
                      /\ familyId'[rotatedTo'[x]] = familyId'[x]
                      /\ expiresAt'[rotatedTo'[x]] = expiresAt'[x]
                      /\ \A q \in rows' : rotatedTo'[q] = rotatedTo'[x] => q = x
    BY DEF ChainIsSound
  <2>1. x # h /\ x \in rows
    BY <1>1, <1>2, NoneAssumption DEF Inv, TypeOK, Rotated
  <2>2. \A y \in rows : rotatedTo[y] # h
    BY <1>1, NoneAssumption DEF Inv, TypeOK, ChainIsSound, Rotated
  <2>3. rotatedTo'[h] = None /\ h # None
    BY <1>1, <1>2, NoneAssumption DEF Inv, TypeOK, Rotated
  <2>4. CASE x = s
    BY <1>1, <1>2, <1>5, <2>2, <2>3, <2>4 DEF Inv, TypeOK, Revoked
  <2>5. CASE x # s
    <3>1. Rotated(x) /\ rotatedTo'[x] = rotatedTo[x] /\ rotatedTo[x] \in rows
      BY <1>1, <1>2, <2>1, <2>5 DEF Inv, TypeOK, ChainIsSound, Rotated
    <3> QED
      BY <1>1, <1>2, <2>1, <2>2, <2>3, <2>5, <3>1
      DEF Inv, TypeOK, ChainIsSound, Rotated, Revoked
  <2> QED
    BY <2>4, <2>5
<1>9. OneTipPerFamily'
  BY <1>1, <1>2, NoneAssumption DEF Inv, TypeOK, OneTipPerFamily, RowsAreSound, Rotated
<1>10. RequestsAreSound'
  BY <1>1, <1>2, <1>4, NoneAssumption DEF Inv, TypeOK, RequestsAreSound, At, Rotated, Revoked
<1>11. \A x \in Sid : Revoked(x) => revokedAt'[x] = revokedAt[x]
  BY <1>1, <1>2 DEF Inv, TypeOK, Revoked
<1> QED
  BY <1>6, <1>7, <1>8, <1>9, <1>10, <1>11 DEF Inv

(* Taking the lock of a row that no one else has locked.                   *)
LEMMA RotateStep ==
  ASSUME Inv, NEW r \in Tx, NEW s \in Sid \cup {None}, NEW t \in 0..now,
         RefreshRotate(r, s, t)
  PROVE  Inv'
<1>1. PICK h \in Fresh : tx' = [tx EXCEPT ![r] = Entry("rotating", s, h, {}, FALSE, t)]
  BY DEF RefreshRotate
<1>2. /\ s \in rows /\ ~Rotated(s) /\ ~Revoked(s) /\ Free(s)
      /\ UNCHANGED <<now, table, isBanned>>
  BY DEF RefreshRotate, Reads
<1>3. h \in Sid \ rows /\ \A q \in Tx : tx[q].heir # h
  BY DEF Fresh
<1>4. t \in 0..MaxTime
  BY TimeAssumption DEF Inv, TypeOK
<1>5. tx'[r] = Entry("rotating", s, h, {}, FALSE, t)
  BY <1>1 DEF Inv, TypeOK
<1>6. \A q \in Tx : q # r => tx'[q] = tx[q]
  BY <1>1 DEF Inv, TypeOK
<1>7. TypeOK'
  <2>1. Entry("rotating", s, h, {}, FALSE, t) \in Requests
    BY <1>3, <1>4, EntryType DEF Running
  <2> QED
    BY <1>1, <1>2, <2>1 DEF Inv, TypeOK, table
<1>8. RowsAreSound' /\ ChainIsSound' /\ OneTipPerFamily'
  BY <1>2 DEF Inv, RowsAreSound, ChainIsSound, OneTipPerFamily, table, Rotated, Revoked
<1>9. \A q \in Tx : /\ At(q, "rotating") => tx[q].token # s
                    /\ s \notin tx[q].held
  BY <1>2 DEF Free, Holds, At
<1>10. /\ At(r, "rotating")' /\ tx'[r].token = s /\ tx'[r].heir = h
       /\ ~At(r, "reusing")' /\ tx'[r].held = {}
  BY <1>5 DEF Entry, At
<1>11. RequestsAreSound'
  BY <1>2, <1>3, <1>6, <1>9, <1>10 DEF Inv, RequestsAreSound, At, table, Rotated, Revoked
<1> QED
  BY <1>7, <1>8, <1>11 DEF Inv

LEMMA ReuseStep ==
  ASSUME Inv, NEW r \in Tx, NEW s \in Sid \cup {None}, NEW t \in 0..now,
         RefreshReuse(r, s, t)
  PROVE  Inv'
<1> DEFINE open == {m \in Members(familyId[s]) : Live(m)}
<1>1. /\ tx' = [tx EXCEPT ![r] = Entry("reusing", s, None, open, FALSE, 0)]
      /\ s \in rows /\ Rotated(s)
      /\ UNCHANGED <<now, table, isBanned>>
  BY DEF RefreshReuse
<1>2. tx'[r] = Entry("reusing", s, None, open, FALSE, 0)
  BY <1>1 DEF Inv, TypeOK
<1>3. \A q \in Tx : q # r => tx'[q] = tx[q]
  BY <1>1 DEF Inv, TypeOK
<1>4. TypeOK'
  <2>1. open \subseteq Sid
    BY DEF Inv, TypeOK, Members
  <2>2. Entry("reusing", s, None, open, FALSE, 0) \in Requests
    BY <2>1, EntryType, ZeroIsATime DEF Running
  <2> QED
    BY <1>1, <2>2 DEF Inv, TypeOK, table
<1>5. RowsAreSound' /\ ChainIsSound' /\ OneTipPerFamily'
  BY <1>1 DEF Inv, RowsAreSound, ChainIsSound, OneTipPerFamily, table, Rotated, Revoked
<1>6. tx'[r].pc = "reusing" /\ tx'[r].token = s /\ tx'[r].held = {}
  BY <1>2 DEF Entry
<1>7. RequestsAreSound'
  <2>1. s \in rows' /\ Rotated(s)' /\ UNCHANGED <<rows, rotatedTo, revokedAt>>
    BY <1>1 DEF table, Rotated
  <2> HIDE DEF open
  <2> QED
    BY <1>3, <1>6, <2>1 DEF Inv, RequestsAreSound, At, Rotated, Revoked
<1> QED
  BY <1>4, <1>5, <1>7 DEF Inv

(* An UPDATE comes to one of its rows, which no rotation has locked.       *)
LEMMA LockStep ==
  ASSUME Inv, NEW r \in Tx, NEW s \in Sid, LocksRow(r, s)
  PROVE  Inv'
<1> DEFINE e == [tx[r] EXCEPT !.held = @ \cup {s}]
<1>1. /\ tx[r].pc \in Updating
      /\ \A q \in Tx \ {r} : ~Holds(q, s)
      /\ tx' = [tx EXCEPT ![r] = e]
      /\ UNCHANGED <<now, table, isBanned>>
  BY DEF LocksRow
<1>2. e \in Requests /\ e.pc = tx[r].pc /\ e.token = tx[r].token /\ e.heir = tx[r].heir
      /\ e.held = tx[r].held \cup {s}
  BY DEF Inv, TypeOK, Requests
<1>3. tx'[r] = e /\ \A q \in Tx : q # r => tx'[q] = tx[q]
  BY <1>1 DEF Inv, TypeOK
<1> HIDE DEF e
<1>4. TypeOK'
  BY <1>1, <1>2 DEF Inv, TypeOK, table
<1>5. RowsAreSound' /\ ChainIsSound' /\ OneTipPerFamily'
  BY <1>1 DEF Inv, RowsAreSound, ChainIsSound, OneTipPerFamily, table, Rotated, Revoked
<1>6. \A q \in Tx : At(q, "rotating") /\ q # r => tx[q].token # s
  BY <1>1 DEF Holds, At
<1>7. tx[r].pc # "rotating"
  BY <1>1 DEF Updating
<1>8. UNCHANGED <<rows, rotatedTo, revokedAt>>
  BY <1>1 DEF table
<1>9. RequestsAreSound'
  BY <1>2, <1>3, <1>6, <1>7, <1>8 DEF Inv, RequestsAreSound, At, Rotated, Revoked
<1> QED
  BY <1>4, <1>5, <1>9 DEF Inv

(* A new family: its id was nobody's, so no row is of it yet.              *)
LEMMA CreateStep ==
  ASSUME Inv, NEW r \in Tx, CreateSession(r), now + Ttl \in 0..(MaxTime + Ttl)
  PROVE  Inv' /\ revokedAt' = revokedAt
<1>1. PICK h \in Fresh :
        /\ rows' = rows \cup {h}
        /\ familyId'  = [familyId  EXCEPT ![h] = h]
        /\ expiresAt' = [expiresAt EXCEPT ![h] = now + Ttl]
        /\ tx' = [tx EXCEPT ![r] = Entry("issued", None, h, {}, FALSE, 0)]
  BY DEF CreateSession, Answers
<1>2. UNCHANGED <<now, rotatedTo, revokedAt, isBanned>>
  BY DEF CreateSession
<1>3. /\ h \in Sid \ rows /\ \A q \in Tx : tx[q].heir # h
      /\ ~Rotated(h) /\ ~Revoked(h)
      /\ \A x \in rows : familyId[x] # h
  BY DEF Fresh, Inv, RowsAreSound
<1>4. tx'[r] = Entry("issued", None, h, {}, FALSE, 0)
  BY <1>1 DEF Inv, TypeOK
<1>5. \A q \in Tx : q # r => tx'[q] = tx[q]
  BY <1>1 DEF Inv, TypeOK
<1>6. TypeOK'
  <2>1. Entry("issued", None, h, {}, FALSE, 0) \in Requests
    BY <1>3, EntryType, ZeroIsATime DEF Answer
  <2> QED
    BY <1>1, <1>2, <1>3, <2>1 DEF Inv, TypeOK
<1>7. RowsAreSound'
  BY <1>1, <1>2, <1>3 DEF Inv, TypeOK, RowsAreSound, Rotated, Revoked
<1>8. ChainIsSound'
  BY <1>1, <1>2, <1>3 DEF Inv, TypeOK, ChainIsSound, Rotated, Revoked
<1>9. OneTipPerFamily'
  BY <1>1, <1>2, <1>3 DEF Inv, TypeOK, OneTipPerFamily, Rotated
<1>10. tx'[r].pc = "issued" /\ tx'[r].held = {}
  BY <1>4 DEF Entry
<1>11. RequestsAreSound'
  BY <1>1, <1>2, <1>3, <1>5, <1>10 DEF Inv, TypeOK, RequestsAreSound, At, Rotated, Revoked
<1> QED
  BY <1>2, <1>6, <1>7, <1>8, <1>9, <1>11 DEF Inv

(* revokeAllSessions picks its rows.                                       *)
LEMMA CondemnStep ==
  ASSUME Inv, NEW r \in Tx, NEW issue \in BOOLEAN, Condemn(r, issue),
         UNCHANGED <<now, table, isBanned>>
  PROVE  Inv' /\ revokedAt' = revokedAt
<1> DEFINE open == {s \in rows : Live(s)}
           e == Entry("revokeAll", None, None, open, issue, 0)
<1>1. e \in Requests
  <2>1. open \subseteq Sid
    BY DEF Inv, TypeOK
  <2> QED
    BY <2>1, EntryType, ZeroIsATime DEF Running
<1>2. e.pc \notin {"rotating", "reusing"} /\ e.held = {}
  BY DEF Entry
<1>3. tx' = [tx EXCEPT ![r] = e]
  BY DEF Condemn
<1> HIDE DEF e
<1> QED
  BY <1>1, <1>2, <1>3, TxOnly DEF table, Inv, TypeOK

(* Every step.                                                             *)
WrittenOnce == \A s \in Sid : Revoked(s) => revokedAt'[s] = revokedAt[s]

LEMMA NextInv == Inv /\ [Next]_vars => Inv' /\ WrittenOnce
<1> SUFFICES ASSUME Inv, [Next]_vars PROVE Inv' /\ WrittenOnce
  OBVIOUS
<1> USE DEF WrittenOnce
<1>1. ASSUME NEW r \in Tx, Request(r) PROVE Inv' /\ WrittenOnce
  <2>1. ASSUME NEW state \in {"refresh", "login", "logout"}, NEW s \in Sid \cup {None},
               NEW t \in 0..MaxTime, Arrive(r, state, s, t)
        PROVE  Inv' /\ WrittenOnce
    <3>1. Entry(state, s, None, {}, FALSE, t) \in Requests
      BY EntryType DEF Running
    <3>2. /\ Entry(state, s, None, {}, FALSE, t).pc \notin {"rotating", "reusing"}
          /\ Entry(state, s, None, {}, FALSE, t).held = {}
      BY DEF Entry
    <3> QED
      BY <2>1, <3>1, <3>2, TxOnly DEF Arrive, table, Inv, TypeOK
  <2>2. now \in 0..MaxTime /\ 0 \in 0..MaxTime
    BY ZeroIsATime DEF Inv, TypeOK
  <2>3. ASSUME NEW s \in Sid \cup {None}, BeginRefresh(r, s) PROVE Inv' /\ WrittenOnce
    BY <2>1, <2>2, <2>3 DEF BeginRefresh
  <2>4. ASSUME NEW s \in Sid \cup {None}, BeginLogout(r, s) PROVE Inv' /\ WrittenOnce
    BY <2>1, <2>2, <2>4 DEF BeginLogout
  <2>5. CASE BeginLogin(r)
    BY <2>1, <2>2, <2>5 DEF BeginLogin
  <2>6. CASE BeginRevokeAll(r)
    BY <2>6, CondemnStep DEF BeginRevokeAll
  <2>7. CASE Ban(r)
    <3>1. Entry("banned", None, None, {}, FALSE, 0) \in Requests
      BY EntryType, ZeroIsATime DEF Running
    <3>2. /\ Entry("banned", None, None, {}, FALSE, 0).pc \notin {"rotating", "reusing"}
          /\ Entry("banned", None, None, {}, FALSE, 0).held = {}
      BY DEF Entry
    <3> QED
      BY <2>7, <3>1, <3>2, TxOnly DEF Ban, table
  <2> QED
    BY <1>1, <2>3, <2>4, <2>5, <2>6, <2>7 DEF Request
<1>2. ASSUME NEW r \in Tx, NEW a \in {"idle"} \cup Running \cup Answer,
             a \notin {"rotating", "reusing"},
             NEW h \in Sid \cup {None}, Answers(r, a, h),
             UNCHANGED <<now, table, isBanned>>
      PROVE  Inv' /\ WrittenOnce
  <2>1. Entry(a, None, h, {}, FALSE, 0) \in Requests
    BY EntryType, ZeroIsATime
  <2>2. /\ Entry(a, None, h, {}, FALSE, 0).pc \notin {"rotating", "reusing"}
        /\ Entry(a, None, h, {}, FALSE, 0).held = {}
    BY <1>2 DEF Entry
  <2> QED
    BY <1>2, <2>1, <2>2, TxOnly DEF Answers, table, Inv, TypeOK
<1>3. ASSUME NEW r \in Tx, Refresh(r) PROVE Inv' /\ WrittenOnce
  <2>1. ASSUME NEW s \in Sid \cup {None}, NEW t \in 0..now, RefreshNone(r, s, t)
        PROVE  Inv' /\ WrittenOnce
    BY <1>2, <2>1 DEF RefreshNone, Answer
  <2>2. ASSUME NEW s \in Sid \cup {None}, NEW t \in 0..now, RefreshRotate(r, s, t)
        PROVE  Inv' /\ WrittenOnce
    BY <2>2, RotateStep DEF RefreshRotate, table
  <2>3. ASSUME NEW s \in Sid \cup {None}, NEW t \in 0..now, RefreshRace(r, s, t)
        PROVE  Inv' /\ WrittenOnce
    <3>1. rotatedTo[s] \in Sid \cup {None}
      BY <2>3 DEF RefreshRace, Inv, TypeOK
    <3> QED
      BY <1>2, <2>3, <3>1 DEF RefreshRace, Answers, Running
  <2>4. ASSUME NEW s \in Sid \cup {None}, NEW t \in 0..now, RefreshReuse(r, s, t)
        PROVE  Inv' /\ WrittenOnce
    BY <2>4, ReuseStep DEF RefreshReuse, table
  <2>5. CASE RefreshCommit(r)
    BY <2>5, CommitStep
  <2>6. CASE RaceAnswer(r)
    <3>1. tx[r].heir \in Sid \cup {None}
      BY DEF Inv, TypeOK, Requests
    <3> QED
      BY <1>2, <2>6, <3>1 DEF RaceAnswer, Answer
  <2>7. CASE ReuseCommit(r)
    <3>1. \A q \in Tx : At(q, "rotating") => tx[q].token \notin tx[r].snap
      BY <2>7 DEF ReuseCommit, UpdateDone, At, Inv, RequestsAreSound
    <3> QED
      BY <2>7, <3>1, RevokeStep DEF ReuseCommit, Answer
  <2> QED
    BY <1>3, <2>1, <2>2, <2>3, <2>4, <2>5, <2>6, <2>7 DEF Refresh
<1>4. ASSUME NEW r \in Tx, Serve(r) PROVE Inv' /\ WrittenOnce
  <2>1. CASE CreateSession(r)
    <3>1. now + Ttl \in 0..(MaxTime + Ttl)
      BY TimeAssumption DEF Inv, TypeOK
    <3> QED
      BY <2>1, <3>1, CreateStep
  <2>2. CASE Logout(r)
    <3>1. \A q \in Tx : At(q, "rotating") => tx[q].token \notin {tx[r].token}
      BY <2>2 DEF Logout, Free, Holds, At, Inv, RequestsAreSound
    <3> QED
      BY <2>2, <3>1, RevokeStep DEF Logout, Answer
  <2>3. CASE RevokeAll(r)
    <3>1. \A q \in Tx : At(q, "rotating") => tx[q].token \notin tx[r].snap
      BY <2>3 DEF RevokeAll, UpdateDone, At, Inv, RequestsAreSound
    <3> QED
      BY <2>3, <3>1, RevokeStep DEF RevokeAll, Answer, Running
  <2>4. CASE BeginBanRevoke(r)
    BY <2>4, CondemnStep DEF BeginBanRevoke
  <2>5. ASSUME NEW s \in Sid, LocksRow(r, s) PROVE Inv' /\ WrittenOnce
    BY <2>5, LockStep DEF LocksRow, table
  <2> QED
    BY <1>3, <1>4, <2>1, <2>2, <2>3, <2>4, <2>5 DEF Serve, LockRow
<1>5. ASSUME NEW r \in Tx, Finish(r) \/ Fail(r) \/ LogoutFail(r) PROVE Inv' /\ WrittenOnce
  <2>1. PICK a \in {"idle"} \cup Answer : Answers(r, a, None) /\ UNCHANGED <<now, table, isBanned>>
    BY <1>5 DEF Finish, Fail, LogoutFail, Answers, Idle, Answer
  <2>2. a \notin {"rotating", "reusing"}
    BY DEF Answer
  <2> QED
    BY <1>2, <2>1, <2>2
<1>6. ASSUME UNCHANGED <<table, tx>>, TypeOK' PROVE Inv' /\ WrittenOnce
  <2>1. RowsAreSound' /\ ChainIsSound' /\ OneTipPerFamily'
    BY <1>6 DEF Inv, RowsAreSound, ChainIsSound, OneTipPerFamily, table, Rotated, Revoked
  <2>2. RequestsAreSound'
    BY <1>6 DEF Inv, RequestsAreSound, At, table, Rotated, Revoked
  <2> QED
    BY <1>6, <2>1, <2>2 DEF Inv, table
<1>7. CASE Unban
  BY <1>6, <1>7 DEF Unban, Inv, TypeOK, table
<1>8. CASE Tick
  <2>1. now' \in 0..MaxTime
    BY <1>8, TimeAssumption DEF Tick, Inv, TypeOK
  <2>2. TypeOK'
    BY <1>8, <2>1 DEF Tick, Inv, TypeOK, table
  <2> QED
    BY <1>6, <1>8, <2>2 DEF Tick
<1>9. CASE UNCHANGED vars
  BY <1>6, <1>9 DEF vars, Inv, TypeOK, table
<1> QED
  BY <1>1, <1>4, <1>5, <1>7, <1>8, <1>9 DEF Next
-----------------------------------------------------------------------------
(* The invariant of SessionTable, for every value of its constants.        *)
THEOREM Invariance == Spec => []Inv
<1>1. Inv /\ [Next]_vars => Inv'
  BY NextInv
<1> QED
  BY InitInv, <1>1, PTL DEF Spec

(* The state of the store is always well typed.                            *)
THEOREM TypeCorrectness == Spec => []TypeOK
<1>1. Inv => TypeOK
  BY DEF Inv
<1> QED
  BY <1>1, Invariance, PTL

(* However refreshes, sign-outs and revocations interleave, a sign-in has  *)
(* at most one row that was not rotated away.                              *)
THEOREM SingleTip == Spec => []OneTipPerFamily
<1>1. Inv => OneTipPerFamily
  BY DEF Inv
<1> QED
  BY <1>1, Invariance, PTL

(* A burnt token leads to the one heir it has in its own sign-in.          *)
THEOREM SoundChains == Spec => []ChainIsSound
<1>1. Inv => ChainIsSound
  BY DEF Inv
<1> QED
  BY <1>1, Invariance, PTL

(* No statement writes revoked_at a second time.                           *)
THEOREM RevocationIsFinal == Spec => RevokedOnce
<1>1. Inv /\ [Next]_vars => [\A s \in Sid : Revoked(s) => revokedAt'[s] = revokedAt[s]]_vars
  BY NextInv DEF WrittenOnce
<1> QED
  BY <1>1, Invariance, PTL DEF Spec, RevokedOnce
-----------------------------------------------------------------------------
(* The refinement.                                                         *)

(* What a step does to the table.                                          *)
RevokesRows == \E S \in SUBSET Sid : Revoke(S) /\ UNCHANGED <<rows, familyId, expiresAt>>

LEMMA TableStep ==
  Inv /\ [Next]_vars => \/ UNCHANGED table
                        \/ RevokesRows
                        \/ \E r \in Tx : RefreshCommit(r) \/ CreateSession(r)
<1> SUFFICES ASSUME Inv, [Next]_vars, ~UNCHANGED table,
                    ~\E r \in Tx : RefreshCommit(r) \/ CreateSession(r)
             PROVE  RevokesRows
  OBVIOUS
<1>1. PICK r \in Tx : Request(r) \/ Serve(r) \/ Finish(r) \/ Fail(r) \/ LogoutFail(r)
  BY DEF Next, Unban, Tick, vars
<1>2. ~Request(r) /\ ~Finish(r) /\ ~Fail(r) /\ ~LogoutFail(r)
  BY DEF Request, BeginRefresh, BeginLogout, BeginLogin, BeginRevokeAll, Ban, Arrive,
         Finish, Fail, LogoutFail
<1>3. ReuseCommit(r) \/ Logout(r) \/ RevokeAll(r)
  BY <1>1, <1>2 DEF Serve, Refresh, RefreshNone, RefreshRotate, RefreshRace, RaceAnswer,
                    RefreshReuse, BeginBanRevoke, LockRow, LocksRow
<1>4. tx[r].snap \in SUBSET Sid
  BY DEF Inv, TypeOK, Requests
<1>5. CASE Logout(r)
  <2>1. Revoke({tx[r].token})
    BY <1>5 DEF Logout
  <2>2. Revoke({tx[r].token} \cap Sid)
    BY <2>1 DEF Revoke
  <2> QED
    BY <1>5, <2>2 DEF Logout, RevokesRows
<1> QED
  BY <1>3, <1>4, <1>5 DEF ReuseCommit, RevokeAll, RevokesRows

LEMMA StatusType == \A f : StatusOf(f) \in {"unborn", "open", "closed"}
  BY DEF StatusOf

(* Nothing live is created by revoking.                                    *)
LEMMA RevokesCloses ==
  ASSUME Inv, RevokesRows
  PROVE  /\ \A f \in Sid : DeadlinesOf(f)' = DeadlinesOf(f)
         /\ \A f \in Sid : StatusOf(f)' # StatusOf(f) =>
               StatusOf(f) = "open" /\ StatusOf(f)' = "closed"
<1>1. PICK S \in SUBSET Sid : Revoke(S) /\ UNCHANGED <<rows, familyId, expiresAt>>
  BY DEF RevokesRows
<1>2. \A s \in rows : Live(s)' => Live(s)
  BY <1>1, NoneAssumption DEF Revoke, Live, Revoked, Inv, TypeOK
<1>3. \A f : Members(f)' = Members(f)
  BY <1>1 DEF Members
<1>4. \A f \in Sid : DeadlinesOf(f)' = DeadlinesOf(f)
  BY <1>1, <1>3 DEF DeadlinesOf
<1>5. \A f \in Sid : StatusOf(f)' # StatusOf(f) =>
         StatusOf(f) = "open" /\ StatusOf(f)' = "closed"
  BY <1>2, <1>3 DEF StatusOf, Members
<1> QED
  BY <1>4, <1>5

(* The heir takes over the place of the row it replaces.                   *)
LEMMA CommitKeeps ==
  ASSUME Inv, NEW r \in Tx, RefreshCommit(r), NEW f \in Sid
  PROVE  StatusOf(f)' = StatusOf(f) /\ DeadlinesOf(f)' = DeadlinesOf(f)
<1>1. PICK s \in rows, h \in Sid \ rows :
        /\ s = tx[r].token /\ h = tx[r].heir
        /\ ~Revoked(s) /\ s \in Sid /\ s # h /\ ~Revoked(h)
  BY DEF RefreshCommit, Inv, RequestsAreSound, RowsAreSound, TypeOK
<1>2. /\ rows' = rows \cup {h}
      /\ familyId'  = [familyId  EXCEPT ![h] = familyId[s]]
      /\ expiresAt' = [expiresAt EXCEPT ![h] = expiresAt[s]]
      /\ revokedAt' = [revokedAt EXCEPT ![s] = tx[r].since]
  BY <1>1 DEF RefreshCommit
<1>3. \A x \in rows : x # h /\ familyId'[x] = familyId[x] /\ expiresAt'[x] = expiresAt[x]
  BY <1>1, <1>2 DEF Inv, TypeOK
<1>4. familyId'[h] = familyId[s] /\ expiresAt'[h] = expiresAt[s] /\ revokedAt'[h] = None
  BY <1>1, <1>2 DEF Inv, TypeOK, Revoked
<1>5. CASE f = familyId[s]
  <2>1. Members(f)' = Members(f) \cup {h} /\ s \in Members(f)
    BY <1>1, <1>2, <1>3, <1>4, <1>5 DEF Members
  <2>2. Live(s) /\ Live(h)'
    BY <1>1, <1>2, <1>4 DEF Live, Revoked
  <2>3. StatusOf(f)' = "open" /\ StatusOf(f) = "open"
    BY <2>1, <2>2 DEF StatusOf
  <2>4. DeadlinesOf(f)' = DeadlinesOf(f)
    BY <1>3, <1>4, <2>1 DEF DeadlinesOf, Members
  <2> QED
    BY <2>3, <2>4
<1>6. CASE f # familyId[s]
  <2>1. Members(f)' = Members(f) /\ s \notin Members(f)
    BY <1>1, <1>2, <1>3, <1>4, <1>6 DEF Members
  <2>2. \A x \in Members(f) : Live(x)' <=> Live(x)
    BY <1>1, <1>2, <2>1 DEF Inv, TypeOK, Members, Live, Revoked
  <2>3. DeadlinesOf(f)' = DeadlinesOf(f)
    BY <1>3, <2>1 DEF DeadlinesOf, Members
  <2> QED
    BY <2>1, <2>2, <2>3 DEF StatusOf
<1> QED
  BY <1>5, <1>6

LEMMA CreateOpens ==
  ASSUME Inv, NEW r \in Tx, CreateSession(r)
  PROVE  \E h \in Sid :
           /\ StatusOf(h) = "unborn" /\ StatusOf(h)' = "open"
           /\ DeadlinesOf(h)' = {now + Ttl}
           /\ \A f \in Sid \ {h} : StatusOf(f)' = StatusOf(f) /\ DeadlinesOf(f)' = DeadlinesOf(f)
<1>1. PICK h \in Fresh :
        /\ rows' = rows \cup {h}
        /\ familyId'  = [familyId  EXCEPT ![h] = h]
        /\ expiresAt' = [expiresAt EXCEPT ![h] = now + Ttl]
  BY DEF CreateSession
<1>2. revokedAt' = revokedAt
  BY DEF CreateSession
<1>3. /\ h \in Sid \ rows /\ ~Revoked(h)
      /\ \A x \in rows : familyId[x] # h
  BY DEF Fresh, Inv, RowsAreSound
<1>4. \A x \in rows : x \in Sid /\ x # h /\ familyId'[x] = familyId[x] /\ expiresAt'[x] = expiresAt[x]
  BY <1>1, <1>3 DEF Inv, TypeOK
<1>5. familyId'[h] = h /\ expiresAt'[h] = now + Ttl
  BY <1>1, <1>3 DEF Inv, TypeOK
<1>6. Members(h) = {} /\ Members(h)' = {h} /\ Live(h)'
  BY <1>1, <1>2, <1>3, <1>4, <1>5 DEF Members, Live, Revoked
<1>7. StatusOf(h) = "unborn" /\ StatusOf(h)' = "open" /\ DeadlinesOf(h)' = {now + Ttl}
  BY <1>5, <1>6 DEF StatusOf, DeadlinesOf
<1>8. ASSUME NEW f \in Sid \ {h}
      PROVE  StatusOf(f)' = StatusOf(f) /\ DeadlinesOf(f)' = DeadlinesOf(f)
  <2>1. Members(f)' = Members(f)
    BY <1>1, <1>4, <1>5 DEF Members
  <2>2. \A x \in Members(f) : Live(x)' <=> Live(x)
    BY <1>1, <1>2 DEF Live, Revoked, Members
  <2>3. DeadlinesOf(f)' = DeadlinesOf(f)
    BY <1>4, <2>1 DEF DeadlinesOf, Members
  <2> QED
    BY <2>1, <2>2, <2>3 DEF StatusOf
<1> QED
  BY <1>3, <1>7, <1>8
-----------------------------------------------------------------------------
(* A sign-in opens once, keeps its deadline, and never opens again once it *)
(* was closed, whatever requests run side by side.                         *)
THEOREM Refinement == Spec => ImplementsLoginFamily
<1>1. Init => Families!Init
  BY DEF Init, Families!Init, StatusOf, DeadlinesOf, Members
<1>2. Inv /\ [Next]_vars => [Families!Next]_(Families!vars)
  <2> SUFFICES ASSUME Inv, [Next]_vars
               PROVE  Families!Next \/ UNCHANGED Families!vars
    OBVIOUS
  <2> DEFINE st == [f \in Sid |-> StatusOf(f)]
             dl == [f \in Sid |-> DeadlinesOf(f)]
  <2>1. CASE UNCHANGED table
    <3>1. \A f : Members(f)' = Members(f)
      BY <2>1 DEF table, Members
    <3>2. \A x : Live(x)' <=> Live(x)
      BY <2>1 DEF table, Live, Revoked
    <3>3. \A f : StatusOf(f)' = StatusOf(f) /\ DeadlinesOf(f)' = DeadlinesOf(f)
      BY <2>1, <3>1, <3>2 DEF table, StatusOf, DeadlinesOf
    <3> QED
      BY <3>3 DEF Families!vars
  <2>2. CASE RevokesRows
    <3> DEFINE F == {f \in Sid : StatusOf(f)' # StatusOf(f)}
    <3>1. \A f \in F : StatusOf(f) = "open" /\ StatusOf(f)' = "closed"
      BY <2>2, RevokesCloses
    <3>2. dl' = dl
      BY <2>2, RevokesCloses
    <3>3. st' = [f \in Sid |-> IF f \in F THEN "closed" ELSE st[f]]
      BY <3>1
    <3>4. Families!Close(F)
      BY <3>1, <3>2, <3>3 DEF Families!Close
    <3> QED
      BY <3>4 DEF Families!Next
  <2>3. ASSUME NEW r \in Tx, RefreshCommit(r)
        PROVE  UNCHANGED Families!vars
    BY <2>3, CommitKeeps DEF Families!vars
  <2>4. ASSUME NEW r \in Tx, CreateSession(r)
        PROVE  Families!Next
    <3>1. PICK h \in Sid :
           /\ StatusOf(h) = "unborn" /\ StatusOf(h)' = "open"
           /\ DeadlinesOf(h)' = {now + Ttl}
           /\ \A f \in Sid \ {h} : StatusOf(f)' = StatusOf(f) /\ DeadlinesOf(f)' = DeadlinesOf(f)
      BY <2>4, CreateOpens
    <3>2. now + Ttl \in 0..(MaxTime + Ttl)
      BY TimeAssumption DEF Inv, TypeOK
    <3>3. st[h] = "unborn" /\ st' = [st EXCEPT ![h] = "open"] /\ dl' = [dl EXCEPT ![h] = {now + Ttl}]
      BY <3>1
    <3>4. Families!Open(h)
      BY <3>2, <3>3 DEF Families!Open
    <3> QED
      BY <3>4 DEF Families!Next
  <2> QED
    BY <2>1, <2>2, <2>3, <2>4, TableStep
<1> QED
  BY <1>1, <1>2, Invariance, PTL DEF Spec, ImplementsLoginFamily, Families!Spec
-----------------------------------------------------------------------------
(* The cookies.                                                            *)

(* The heir of a request that nobody has presented yet; a refresh that the *)
(* server has not decided.                                                 *)
Carrying(r) == tx[r].pc \in {"rotating", "rotated", "issued"}
Pending(r)  == tx[r].pc \in {"refresh", "rotating"}

(* The tokens of a browser: in its jar, presented, or on the way to it.    *)
Has(b, u) ==
  /\ u # None
  /\ \/ jar[b] = u
     \/ \E r \in Tx : /\ mail[r].by = b
                      /\ \/ tx[r].token = u
                         \/ tx[r].pc \in {"rotated", "issued"} /\ tx[r].heir = u

(* Who has sent a request, and when.                                       *)
MailIsSound ==
  \A r \in Tx :
    /\ mail[r].by = None =>
         /\ tx[r].pc \in {"idle", "banned", "revokeAll", "revoked", "failed"}
         /\ ~tx[r].issue /\ tx[r].token = None
    /\ mail[r].by # None =>
         /\ tx[r].pc # "idle"
         /\ mail[r].sent <= now /\ now <= mail[r].sent + Latency
         /\ Pending(r) => mail[r].sent <= tx[r].since /\ tx[r].since <= now

(* Two browsers never have tokens of one sign-in.                          *)
TokensAreOwned ==
  \A b \in Browser, u \in Sid : Has(b, u) =>
     /\ u \in rows
     /\ \A c \in Browser, w \in Sid : Has(c, w) /\ familyId[w] = familyId[u] => c = b

(* A token is presented and rotated only after its answer has arrived.     *)
HeirsAreUnseen ==
  \A r \in Tx : Carrying(r) =>
     /\ tx[r].heir # None /\ ~Rotated(tx[r].heir)
     /\ \A b \in Browser : jar[b] # tx[r].heir
     /\ \A q \in Tx : /\ tx[q].token # tx[r].heir
                      /\ Carrying(q) /\ tx[q].heir = tx[r].heir => q = r
     /\ ~At(r, "rotating") => tx[r].heir \in rows

(* A burnt token in a jar: the answer with its heir is on the way.         *)
JarsAreFollowed ==
  \A b \in Browser \ dropped : jar[b] # None /\ Rotated(jar[b]) =>
     \E r \in Tx : /\ mail[r].by = b /\ At(r, "rotated")
                   /\ tx[r].heir = rotatedTo[jar[b]]
                   /\ mail[r].sent <= revokedAt[jar[b]]

(* A browser without a valid access token refreshes with one token only.   *)
OneTokenIsOut ==
  \A b \in Browser, r \in Tx :
     ~access[b] /\ jar[b] # None /\ mail[r].by = b /\ Pending(r) => tx[r].token = jar[b]

(* A refresh that comes late with a burnt token comes within the window,   *)
(* and while the heir is still the tip.                                    *)
LateOnesRace ==
  \A b \in Browser \ dropped, r \in Tx, s \in rows :
     mail[r].by = b /\ At(r, "refresh") /\ tx[r].token = s /\ Rotated(s) =>
       /\ mail[r].sent <= revokedAt[s] + Latency
       /\ ~Rotated(rotatedTo[s])
       /\ \A q \in Tx : Pending(q) => tx[q].token # rotatedTo[s]

ReuseTakesNothing ==
  \A b \in Browser \ dropped, r \in Tx : mail[r].by = b /\ At(r, "reusing") =>
     \A s \in tx[r].snap : s \in rows /\ Expired(s, now)

CookiesInv ==
  /\ CookiesTypeOK /\ Inv /\ MailIsSound
  /\ TokensAreOwned /\ HeirsAreUnseen /\ JarsAreFollowed /\ OneTokenIsOut
  /\ LateOnesRace

\* What the steps below have to show, the table's own invariant apart.
Sound == /\ MailIsSound
         /\ TokensAreOwned /\ HeirsAreUnseen /\ JarsAreFollowed /\ OneTokenIsOut
         /\ LateOnesRace
-----------------------------------------------------------------------------
(* What is in a jar or presented is a row of the table.                    *)
LEMMA TokensAreRows ==
  ASSUME CookiesInv
  PROVE  /\ \A b \in Browser : jar[b] # None => jar[b] \in rows
         /\ \A r \in Tx : tx[r].token # None => tx[r].token \in rows
<1> USE DEF CookiesInv
<1>1. ASSUME NEW b \in Browser, jar[b] # None PROVE jar[b] \in rows
  <2>1. jar[b] \in Sid /\ Has(b, jar[b])
    BY <1>1 DEF CookiesTypeOK, Has
  <2> QED
    BY <2>1 DEF TokensAreOwned
<1>2. ASSUME NEW r \in Tx, tx[r].token # None PROVE tx[r].token \in rows
  <2>1. mail[r].by \in Browser /\ tx[r].token \in Sid
    BY <1>2 DEF CookiesTypeOK, TypeOK, Requests, MailIsSound
  <2>2. Has(mail[r].by, tx[r].token)
    BY <1>2 DEF Has
  <2> QED
    BY <2>1, <2>2 DEF TokensAreOwned
<1> QED
  BY <1>1, <1>2

(* A burnt row was revoked at a time, and leads to a row of its family.    *)
LEMMA BurntRows ==
  ASSUME Inv, NEW s \in rows, Rotated(s)
  PROVE  /\ Revoked(s) /\ revokedAt[s] \in 0..MaxTime
         /\ rotatedTo[s] \in rows /\ familyId[rotatedTo[s]] = familyId[s]
         /\ expiresAt[rotatedTo[s]] = expiresAt[s]
  BY DEF Inv, ChainIsSound, TypeOK, Revoked

(* A step of the server that only changes its own request and may revoke.  *)
LEMMA QuietStep ==
  ASSUME CookiesInv, WrittenOnce,
         UNCHANGED <<now, rows, familyId, rotatedTo, expiresAt, browserVars, mail>>,
         NEW r \in Tx, NEW e \in Requests, tx' = [tx EXCEPT ![r] = e],
         tx[r].pc \notin {"rotated", "issued"},
         e.pc \notin {"refresh", "rotated", "issued"},
         e.token \in {tx[r].token, None},
         mail[r].by # None => e.pc # "idle",
         mail[r].by = None => /\ e.pc \in {"idle", "banned", "revokeAll", "revoked", "failed"}
                              /\ ~e.issue,
         e.pc = "rotating" => /\ At(r, "refresh") /\ e.token = tx[r].token
                              /\ e.heir \in Fresh
                              /\ tx[r].since <= e.since /\ e.since <= now
  PROVE  Sound'
<1> USE DEF CookiesInv
<1>1. tx'[r] = e /\ \A q \in Tx : q # r => tx'[q] = tx[q]
  BY DEF CookiesTypeOK, TypeOK
<1>2. /\ now \in Nat /\ \A q \in Tx : tx[q].since \in Nat /\ mail[q].sent \in Nat
      /\ e.since \in Nat /\ Latency \in Nat
  BY TimeAssumption, NetworkAssumption DEF CookiesTypeOK, TypeOK, Requests
<1>3. UNCHANGED <<now, rows, familyId, rotatedTo, jar, access, mail, dropped>>
  BY DEF browserVars
<1>4. MailIsSound'
  <2> SUFFICES ASSUME NEW q \in Tx
               PROVE  /\ mail[q].by = None =>
                           /\ tx'[q].pc \in {"idle", "banned", "revokeAll", "revoked", "failed"}
                           /\ ~tx'[q].issue /\ tx'[q].token = None
                      /\ mail[q].by # None =>
                           /\ tx'[q].pc # "idle"
                           /\ mail[q].sent <= now /\ now <= mail[q].sent + Latency
                           /\ tx'[q].pc \in {"refresh", "rotating"} =>
                                mail[q].sent <= tx'[q].since /\ tx'[q].since <= now
    BY <1>3 DEF MailIsSound, Pending
  <2>1. CASE q # r
    BY <1>1, <2>1 DEF MailIsSound, Pending
  <2>2. CASE q = r
    BY <1>1, <1>2, <2>2 DEF MailIsSound, Pending, At
  <2> QED
    BY <2>1, <2>2
<1>5. ASSUME NEW b \in Browser, NEW u \in Sid, Has(b, u)' PROVE Has(b, u)
  BY <1>1, <1>3, <1>5 DEF Has
<1>6. TokensAreOwned'
  BY <1>3, <1>5 DEF TokensAreOwned
<1>7. \A q \in Tx : tx'[q].token \in {tx[q].token, None}
  BY <1>1
<1>8. HeirsAreUnseen'
  <2> SUFFICES ASSUME NEW q \in Tx, Carrying(q)'
               PROVE  /\ tx'[q].heir # None /\ rotatedTo[tx'[q].heir] = None
                      /\ \A b \in Browser : jar[b] # tx'[q].heir
                      /\ \A p \in Tx : /\ tx'[p].token # tx'[q].heir
                                       /\ Carrying(p)' /\ tx'[p].heir = tx'[q].heir => p = q
                      /\ ~At(q, "rotating")' => tx'[q].heir \in rows
    BY <1>3 DEF HeirsAreUnseen, Rotated, Carrying, At
  <2>1. CASE e.pc # "rotating"
    <3>1. \A p \in Tx : Carrying(p)' => Carrying(p) /\ p # r /\ tx'[p] = tx[p]
      BY <1>1, <2>1 DEF Carrying
    <3>2. Carrying(q) /\ tx'[q] = tx[q] /\ tx[q].heir # None
      BY <3>1 DEF HeirsAreUnseen
    <3> QED
      BY <1>3, <1>7, <3>1, <3>2 DEF HeirsAreUnseen, Rotated, At
  <2>2. CASE e.pc = "rotating"
    <3>1. e.heir \in Sid \ rows /\ \A p \in Tx : tx[p].heir # e.heir
      BY <2>2 DEF Fresh
    <3>2. e.heir # None /\ ~Rotated(e.heir)
      BY <3>1, NoneAssumption DEF Inv, RowsAreSound
    <3>3. \A b \in Browser : jar[b] # e.heir
      BY <3>1, <3>2, TokensAreRows
    <3>4. \A p \in Tx : tx'[p].token # e.heir
      BY <1>7, <3>1, <3>2, TokensAreRows
    <3>5. CASE q = r
      BY <1>1, <1>3, <2>2, <3>1, <3>2, <3>3, <3>4, <3>5 DEF Rotated, At
    <3>6. CASE q # r
      <4>1. Carrying(q) /\ tx'[q] = tx[q] /\ tx[q].heir # e.heir
        BY <1>1, <3>1, <3>6 DEF Carrying
      <4>2. tx[q].heir # None
        BY <4>1 DEF HeirsAreUnseen
      <4>3. \A p \in Tx : p # r /\ Carrying(p)' => Carrying(p) /\ tx'[p] = tx[p]
        BY <1>1 DEF Carrying
      <4> QED
        BY <1>1, <1>3, <1>7, <4>1, <4>2, <4>3 DEF HeirsAreUnseen, Rotated, At
    <3> QED
      BY <3>5, <3>6
  <2> QED
    BY <2>1, <2>2
<1>9. \A s \in rows : Rotated(s) => revokedAt'[s] = revokedAt[s]
  BY BurntRows DEF WrittenOnce, TypeOK, CookiesTypeOK
<1>10. JarsAreFollowed'
  <2> SUFFICES ASSUME NEW b \in Browser \ dropped, jar[b] # None, Rotated(jar[b])
               PROVE  \E q \in Tx : /\ mail[q].by = b /\ At(q, "rotated")'
                                    /\ tx'[q].heir = rotatedTo[jar[b]]
                                    /\ mail[q].sent <= revokedAt'[jar[b]]
    BY <1>3 DEF JarsAreFollowed, Rotated
  <2>1. PICK q \in Tx : /\ mail[q].by = b /\ At(q, "rotated")
                        /\ tx[q].heir = rotatedTo[jar[b]]
                        /\ mail[q].sent <= revokedAt[jar[b]]
    BY DEF JarsAreFollowed
  <2>2. q # r
    BY <2>1 DEF At
  <2> QED
    BY <1>1, <1>9, <2>1, <2>2, TokensAreRows DEF At
<1>11. \A q \in Tx : Pending(q)' => Pending(q) /\ tx'[q].token = tx[q].token
  BY <1>1 DEF Pending, At
<1>12. OneTokenIsOut'
  BY <1>3, <1>11 DEF OneTokenIsOut
<1>13. LateOnesRace'
  <2>1. \A q \in Tx : At(q, "refresh")' => q # r /\ tx'[q] = tx[q] /\ At(q, "refresh")
    BY <1>1 DEF At
  <2> QED
    BY <1>3, <1>9, <1>11, <2>1 DEF LateOnesRace, Rotated
<1> QED
  BY <1>4, <1>6, <1>8, <1>10, <1>12, <1>13 DEF Sound

(* The commit of a rotation: the heir becomes a token of the browser whose *)
(* request it was, and everything that follows rests on that answer.       *)
LEMMA CookieCommit ==
  ASSUME CookiesInv, Inv', NEW r \in Tx, RefreshCommit(r), UNCHANGED <<browserVars, mail>>
  PROVE  Sound'
<1> USE DEF CookiesInv
<1> DEFINE s == tx[r].token
           h == tx[r].heir
           b == mail[r].by
<1>1. /\ At(r, "rotating") /\ s \in rows /\ s \in Sid /\ ~Rotated(s) /\ ~Revoked(s)
      /\ h \in Sid \ rows /\ s # h /\ h # None /\ ~Rotated(h)
  BY NoneAssumption DEF RefreshCommit, Inv, RequestsAreSound, RowsAreSound, TypeOK
<1>2. /\ rows' = rows \cup {h}
      /\ familyId'  = [familyId  EXCEPT ![h] = familyId[s]]
      /\ rotatedTo' = [rotatedTo EXCEPT ![s] = h]
      /\ revokedAt' = [revokedAt EXCEPT ![s] = tx[r].since]
      /\ UNCHANGED <<now, jar, access, mail, dropped>>
  BY DEF RefreshCommit, browserVars
<1>3. /\ tx'[r] = Entry("rotated", None, h, {}, FALSE, 0)
      /\ \A q \in Tx : q # r => tx'[q] = tx[q]
  BY DEF RefreshCommit, Answers, CookiesTypeOK, TypeOK
<1>4. /\ tx'[r].pc = "rotated" /\ tx'[r].token = None /\ tx'[r].heir = h /\ ~tx'[r].issue
  BY <1>3 DEF Entry
<1>5. b \in Browser /\ b # None
  BY <1>1 DEF MailIsSound, At, CookiesTypeOK
<1>6. mail[r].sent <= tx[r].since /\ tx[r].since <= now /\ now <= mail[r].sent + Latency
  BY <1>1, <1>5 DEF MailIsSound, At, Pending
<1>7. /\ now \in Nat /\ \A q \in Tx : tx[q].since \in Nat /\ mail[q].sent \in Nat
      /\ Latency \in Nat
  BY TimeAssumption, NetworkAssumption DEF CookiesTypeOK, TypeOK, Requests
<1>8. Has(b, s)
  BY <1>1, NoneAssumption DEF Has
<1>9. /\ \A x \in Sid : x # s => rotatedTo'[x] = rotatedTo[x] /\ revokedAt'[x] = revokedAt[x]
      /\ rotatedTo'[s] = h /\ revokedAt'[s] = tx[r].since
      /\ \A x \in rows : familyId'[x] = familyId[x]
      /\ familyId'[h] = familyId[s]
  BY <1>1, <1>2 DEF CookiesTypeOK, TypeOK
<1>10. MailIsSound'
  BY <1>2, <1>3, <1>4, <1>5 DEF MailIsSound, Pending, At
<1>11. ASSUME NEW c \in Browser, NEW u \in Sid, Has(c, u)'
       PROVE  Has(c, u) \/ (c = b /\ u = h)
  BY <1>2, <1>3, <1>4, <1>11 DEF Has
<1>12. ASSUME NEW c \in Browser, NEW u \in Sid, Has(c, u)' PROVE u \in rows'
  BY <1>2, <1>11, <1>12 DEF TokensAreOwned
<1>13. ASSUME NEW c \in Browser, NEW u \in Sid, Has(c, u)'
       PROVE  \E w \in rows : Has(c, w) /\ familyId[w] = familyId'[u]
  <2>1. CASE Has(c, u)
    BY <1>9, <2>1 DEF TokensAreOwned
  <2>2. CASE c = b /\ u = h
    BY <1>1, <1>8, <1>9, <2>2
  <2> QED
    BY <1>11, <1>13, <2>1, <2>2
<1>14. TokensAreOwned'
  <2> SUFFICES ASSUME NEW c \in Browser, NEW u \in Sid, Has(c, u)',
                      NEW d \in Browser, NEW w \in Sid, Has(d, w)',
                      familyId'[w] = familyId'[u]
               PROVE  d = c
    BY <1>12 DEF TokensAreOwned
  <2>1. PICK x \in rows : Has(c, x) /\ familyId[x] = familyId'[u]
    BY <1>13
  <2>2. PICK y \in rows : Has(d, y) /\ familyId[y] = familyId'[w]
    BY <1>13
  <2> QED
    BY <2>1, <2>2 DEF TokensAreOwned, TypeOK, CookiesTypeOK
<1>15. /\ \A c \in Browser : jar[c] # h
       /\ \A q \in Tx : tx[q].token # h
  BY <1>1, TokensAreRows
<1>16. \A q \in Tx : Carrying(q)' <=> Carrying(q)
  BY <1>1, <1>3, <1>4 DEF Carrying, At
<1>17. \A q \in Tx : tx'[q].heir = tx[q].heir /\ tx'[q].token \in {tx[q].token, None}
  BY <1>3, <1>4
<1>18. HeirsAreUnseen'
  <2> SUFFICES ASSUME NEW q \in Tx, Carrying(q)
               PROVE  /\ tx[q].heir # None /\ rotatedTo'[tx[q].heir] = None
                      /\ \A c \in Browser : jar[c] # tx[q].heir
                      /\ \A p \in Tx : /\ tx'[p].token # tx[q].heir
                                       /\ Carrying(p) /\ tx[p].heir = tx[q].heir => p = q
                      /\ ~At(q, "rotating")' => tx[q].heir \in rows'
    BY <1>2, <1>16, <1>17 DEF HeirsAreUnseen, Rotated
  <2>1. /\ tx[q].heir # None /\ rotatedTo[tx[q].heir] = None /\ tx[q].heir \in Sid
        /\ tx[q].heir # s
    BY DEF HeirsAreUnseen, Rotated, CookiesTypeOK, TypeOK, Requests
  <2>2. rotatedTo'[tx[q].heir] = None
    BY <1>9, <2>1
  <2>3. ~At(q, "rotating")' => tx[q].heir \in rows'
    BY <1>2, <1>3 DEF HeirsAreUnseen, At
  <2> QED
    BY <1>17, <2>1, <2>2, <2>3 DEF HeirsAreUnseen
<1>19. JarsAreFollowed'
  <2> SUFFICES ASSUME NEW c \in Browser \ dropped, jar[c] # None, rotatedTo'[jar[c]] # None
               PROVE  \E q \in Tx : /\ mail[q].by = c /\ At(q, "rotated")'
                                    /\ tx'[q].heir = rotatedTo'[jar[c]]
                                    /\ mail[q].sent <= revokedAt'[jar[c]]
    BY <1>2 DEF JarsAreFollowed, Rotated
  <2>1. jar[c] \in rows /\ jar[c] \in Sid /\ Has(c, jar[c])
    BY TokensAreRows DEF CookiesTypeOK, TypeOK, Has
  <2>2. CASE jar[c] = s
    <3>1. c = b
      BY <1>5, <1>8, <2>1, <2>2 DEF TokensAreOwned
    <3> QED
      BY <1>4, <1>6, <1>9, <2>2, <3>1 DEF At
  <2>3. CASE jar[c] # s
    <3>1. Rotated(jar[c])
      BY <1>9, <2>1, <2>3 DEF Rotated
    <3>2. PICK q \in Tx : /\ mail[q].by = c /\ At(q, "rotated")
                          /\ tx[q].heir = rotatedTo[jar[c]]
                          /\ mail[q].sent <= revokedAt[jar[c]]
      BY <3>1 DEF JarsAreFollowed
    <3>3. q # r
      BY <1>1, <3>2 DEF At
    <3> QED
      BY <1>3, <1>9, <2>1, <2>3, <3>2, <3>3 DEF At
  <2> QED
    BY <2>2, <2>3
<1>20. \A q \in Tx : Pending(q)' => Pending(q) /\ q # r /\ tx'[q] = tx[q]
  BY <1>3, <1>4 DEF Pending
<1>21. OneTokenIsOut'
  BY <1>2, <1>20 DEF OneTokenIsOut
<1>22. LateOnesRace'
  <2> SUFFICES ASSUME NEW c \in Browser \ dropped, NEW q \in Tx, NEW x \in rows',
                      mail[q].by = c, At(q, "refresh")', tx'[q].token = x,
                      rotatedTo'[x] # None
               PROVE  /\ mail[q].sent <= revokedAt'[x] + Latency
                      /\ rotatedTo'[rotatedTo'[x]] = None
                      /\ \A p \in Tx : Pending(p)' => tx'[p].token # rotatedTo'[x]
    BY <1>2 DEF LateOnesRace, Rotated
  <2>1. /\ q # r /\ At(q, "refresh") /\ tx[q].token = x /\ x # None
        /\ x \in rows /\ x \in Sid
    <3>1. q # r /\ tx'[q] = tx[q]
      BY <1>3, <1>4 DEF At
    <3>2. x # None
      BY <1>1, <1>2, NoneAssumption DEF TypeOK, CookiesTypeOK
    <3> QED
      BY <3>1, <3>2, TokensAreRows DEF At, TypeOK, CookiesTypeOK
  <2>2. CASE x = s
    <3>1. mail[q].sent <= now
      BY BrowserAssumption DEF MailIsSound
    <3>2. mail[q].sent <= tx[r].since + Latency
      BY <1>6, <1>7, <3>1
    <3>3. rotatedTo'[h] = None
      BY <1>1, <1>9 DEF Rotated
    <3> QED
      BY <1>9, <1>15, <1>20, <2>2, <3>2, <3>3
  <2>3. CASE x # s
    <3>1. Rotated(x) /\ rotatedTo'[x] = rotatedTo[x]
      BY <1>9, <2>1, <2>3 DEF Rotated
    <3>2. /\ mail[q].sent <= revokedAt[x] + Latency
          /\ ~Rotated(rotatedTo[x])
          /\ \A p \in Tx : Pending(p) => tx[p].token # rotatedTo[x]
      BY <2>1, <3>1 DEF LateOnesRace
    <3>3. rotatedTo[x] # s /\ rotatedTo[x] \in Sid
      BY <1>1, <2>1, <3>1, <3>2, BurntRows DEF Pending, At, CookiesTypeOK, TypeOK
    <3> QED
      BY <1>9, <1>20, <2>1, <2>3, <3>1, <3>2, <3>3 DEF Rotated
  <2> QED
    BY <2>2, <2>3
<1> QED
  BY <1>10, <1>14, <1>18, <1>19, <1>21, <1>22 DEF Sound

(* A new session: its family is nobody's yet.                              *)
LEMMA CookieCreate ==
  ASSUME CookiesInv, NEW r \in Tx, CreateSession(r), UNCHANGED <<browserVars, mail>>
  PROVE  Sound'
<1> USE DEF CookiesInv
<1>1. PICK h \in Fresh :
        /\ rows' = rows \cup {h}
        /\ familyId'  = [familyId  EXCEPT ![h] = h]
        /\ tx' = [tx EXCEPT ![r] = Entry("issued", None, h, {}, FALSE, 0)]
  BY DEF CreateSession, Answers
<1>a. rows' = rows \cup {h}
  BY <1>1
<1>2. UNCHANGED <<now, rotatedTo, revokedAt, jar, access, mail, dropped>> /\ At(r, "login")
  BY DEF CreateSession, browserVars
<1>3. /\ h \in Sid \ rows /\ \A q \in Tx : tx[q].heir # h
      /\ ~Rotated(h) /\ h # None
      /\ \A x \in rows : familyId[x] # h
  BY NoneAssumption DEF Fresh, Inv, RowsAreSound
<1>4. /\ tx'[r] = Entry("issued", None, h, {}, FALSE, 0)
      /\ \A q \in Tx : q # r => tx'[q] = tx[q]
  BY <1>1 DEF CookiesTypeOK, TypeOK
<1>5. tx'[r].pc = "issued" /\ tx'[r].token = None /\ tx'[r].heir = h /\ ~tx'[r].issue
  BY <1>4 DEF Entry
<1>6. mail[r].by \in Browser /\ mail[r].by # None
  BY <1>2 DEF MailIsSound, At, CookiesTypeOK
<1>7. MailIsSound'
  BY <1>2, <1>4, <1>5, <1>6 DEF MailIsSound, Pending, At
<1>8. familyId'[h] = h /\ \A x \in rows : familyId'[x] = familyId[x]
  BY <1>1, <1>3 DEF CookiesTypeOK, TypeOK
<1>9. ASSUME NEW c \in Browser, NEW u \in Sid, Has(c, u)'
      PROVE  (Has(c, u) /\ u \in rows) \/ (c = mail[r].by /\ u = h)
  BY <1>2, <1>4, <1>5, <1>9 DEF Has, TokensAreOwned
<1>10. TokensAreOwned'
  <2> SUFFICES ASSUME NEW c \in Browser, NEW u \in Sid, Has(c, u)',
                      NEW d \in Browser, NEW w \in Sid, Has(d, w)',
                      familyId'[w] = familyId'[u]
               PROVE  d = c
    BY <1>1, <1>9 DEF TokensAreOwned
  <2> QED
    BY <1>3, <1>8, <1>9 DEF TokensAreOwned
<1>11. /\ \A c \in Browser : jar[c] # h
       /\ \A q \in Tx : tx[q].token # h
  BY <1>3, TokensAreRows
<1>12. HeirsAreUnseen'
  <2> SUFFICES ASSUME NEW q \in Tx, Carrying(q)'
               PROVE  /\ tx'[q].heir # None /\ rotatedTo[tx'[q].heir] = None
                      /\ \A c \in Browser : jar[c] # tx'[q].heir
                      /\ \A p \in Tx : /\ tx'[p].token # tx'[q].heir
                                       /\ Carrying(p)' /\ tx'[p].heir = tx'[q].heir => p = q
                      /\ ~At(q, "rotating")' => tx'[q].heir \in rows'
    BY <1>2 DEF HeirsAreUnseen, Rotated
  <2>1. \A p \in Tx : p # r => (Carrying(p)' <=> Carrying(p))
    BY <1>4 DEF Carrying
  <2>2. \A p \in Tx : tx'[p].token \in {tx[p].token, None}
    BY <1>4, <1>5
  <2>3. CASE q = r
    <3>1. \A p \in Tx : tx'[p].token # h
      BY <1>3, <1>11, <2>2
    <3>2. \A p \in Tx : tx'[p].heir = h => p = r
      BY <1>3, <1>4
    <3> QED
      BY <1>a, <1>3, <1>5, <1>11, <2>3, <3>1, <3>2 DEF Rotated
  <2>4. CASE q # r
    <3>1. Carrying(q) /\ tx'[q] = tx[q] /\ tx[q].heir # h
      BY <1>3, <1>4, <2>1, <2>4
    <3>2. /\ tx[q].heir # None /\ ~Rotated(tx[q].heir)
          /\ \A c \in Browser : jar[c] # tx[q].heir
          /\ \A p \in Tx : /\ tx[p].token # tx[q].heir
                           /\ Carrying(p) /\ tx[p].heir = tx[q].heir => p = q
          /\ ~At(q, "rotating") => tx[q].heir \in rows
      BY <3>1 DEF HeirsAreUnseen
    <3>3. \A p \in Tx : Carrying(p)' /\ tx'[p].heir = tx[q].heir => p = q
      BY <1>4, <1>5, <2>1, <3>1, <3>2
    <3> QED
      BY <1>a, <2>2, <3>1, <3>2, <3>3 DEF Rotated, At
  <2> QED
    BY <2>3, <2>4
<1>13. JarsAreFollowed'
  BY <1>2, <1>4 DEF JarsAreFollowed, Rotated, At
<1>14. \A q \in Tx : Pending(q)' => Pending(q) /\ q # r /\ tx'[q] = tx[q]
  BY <1>4, <1>5 DEF Pending
<1>15. OneTokenIsOut'
  BY <1>2, <1>14 DEF OneTokenIsOut
<1>16. LateOnesRace'
  <2> SUFFICES ASSUME NEW c \in Browser \ dropped, NEW q \in Tx, NEW x \in rows',
                      mail[q].by = c, At(q, "refresh")', tx'[q].token = x,
                      rotatedTo[x] # None
               PROVE  /\ mail[q].sent <= revokedAt[x] + Latency
                      /\ rotatedTo[rotatedTo[x]] = None
                      /\ \A p \in Tx : Pending(p)' => tx'[p].token # rotatedTo[x]
    BY <1>2 DEF LateOnesRace, Rotated
  <2>1. q # r /\ tx'[q] = tx[q] /\ At(q, "refresh") /\ x \in rows
    BY <1>a, <1>3, <1>4, <1>5 DEF At, Rotated
  <2> QED
    BY <1>14, <2>1 DEF LateOnesRace, Rotated
<1> QED
  BY <1>7, <1>10, <1>12, <1>13, <1>15, <1>16 DEF Sound

(* A request sets out.  A refresh with a token that was burnt meanwhile    *)
(* sets out before the heir has arrived, and so in time.                   *)
LEMMA ArrivalStep ==
  ASSUME CookiesInv, UNCHANGED <<now, table, browserVars>>,
         NEW r \in Tx, At(r, "idle"), NEW b \in Browser, NEW v,
         NEW e \in Requests, tx' = [tx EXCEPT ![r] = e], Sends(b, r, v),
         e.pc \in {"refresh", "logout", "login", "revokeAll"},
         e.token \in {jar[b], None},
         e.pc = "refresh" => /\ ~access[b] /\ jar[b] # None
                             /\ e.token = jar[b] /\ e.since = now
  PROVE  Sound'
<1> USE DEF CookiesInv
<1>1. tx'[r] = e /\ \A q \in Tx : q # r => tx'[q] = tx[q]
  BY DEF CookiesTypeOK, TypeOK
<1>2. /\ mail'[r].by = b /\ mail'[r].sent = now
      /\ \A q \in Tx : q # r => mail'[q] = mail[q]
  BY DEF Sends, CookiesTypeOK
<1>3. /\ UNCHANGED <<now, rows, familyId, rotatedTo, revokedAt, jar, access, dropped>>
      /\ b # None
  BY BrowserAssumption DEF table, browserVars
<1>4. /\ now \in Nat /\ \A q \in Tx : tx[q].since \in Nat /\ mail[q].sent \in Nat
      /\ Latency \in Nat
  BY TimeAssumption, NetworkAssumption DEF CookiesTypeOK, TypeOK, Requests
<1>5. MailIsSound'
  <2> SUFFICES ASSUME NEW q \in Tx
               PROVE  /\ mail'[q].by = None =>
                           /\ tx'[q].pc \in {"idle", "banned", "revokeAll", "revoked", "failed"}
                           /\ ~tx'[q].issue /\ tx'[q].token = None
                      /\ mail'[q].by # None =>
                           /\ tx'[q].pc # "idle"
                           /\ mail'[q].sent <= now /\ now <= mail'[q].sent + Latency
                           /\ tx'[q].pc \in {"refresh", "rotating"} =>
                                mail'[q].sent <= tx'[q].since /\ tx'[q].since <= now
    BY <1>3 DEF MailIsSound, Pending
  <2>1. CASE q # r
    BY <1>1, <1>2, <2>1 DEF MailIsSound, Pending
  <2>2. CASE q = r
    BY <1>1, <1>2, <1>3, <1>4, <2>2
  <2> QED
    BY <2>1, <2>2
<1>6. ASSUME NEW c \in Browser, NEW u \in Sid, Has(c, u)' PROVE Has(c, u)
  BY <1>1, <1>2, <1>3, <1>6 DEF Has
<1>7. TokensAreOwned'
  BY <1>3, <1>6 DEF TokensAreOwned
<1>8. \A q \in Tx : Carrying(q)' => Carrying(q) /\ q # r /\ tx'[q] = tx[q]
  BY <1>1 DEF Carrying
<1>9. HeirsAreUnseen'
  BY <1>1, <1>3, <1>8 DEF HeirsAreUnseen, Rotated, At
<1>10. ASSUME NEW c \in Browser \ dropped, jar[c] # None, Rotated(jar[c])
       PROVE  \E q \in Tx : /\ q # r /\ mail[q].by = c /\ At(q, "rotated")
                            /\ tx[q].heir = rotatedTo[jar[c]]
                            /\ mail[q].sent <= revokedAt[jar[c]]
  BY <1>10 DEF JarsAreFollowed, At
<1>11. JarsAreFollowed'
  BY <1>1, <1>2, <1>3, <1>10 DEF JarsAreFollowed, Rotated, At
<1>12. OneTokenIsOut'
  BY <1>1, <1>2, <1>3 DEF OneTokenIsOut, Pending
<1>13. LateOnesRace'
  <2> SUFFICES ASSUME NEW c \in Browser \ dropped, NEW q \in Tx, NEW x \in rows,
                      mail'[q].by = c, tx'[q].pc = "refresh", tx'[q].token = x, Rotated(x)
               PROVE  /\ mail'[q].sent <= revokedAt[x] + Latency
                      /\ ~Rotated(rotatedTo[x])
                      /\ \A p \in Tx : Pending(p)' => tx'[p].token # rotatedTo[x]
    BY <1>3 DEF LateOnesRace, Rotated, At
  <2>1. revokedAt[x] \in Nat /\ x \in Sid /\ x # None /\ rotatedTo[x] \in rows
        /\ familyId[rotatedTo[x]] = familyId[x] /\ rotatedTo[x] \in Sid
    BY BurntRows, TimeAssumption, NoneAssumption DEF CookiesTypeOK, TypeOK
  <2>2. ASSUME jar[c] = x
        PROVE  /\ now <= revokedAt[x] + Latency
               /\ ~Rotated(rotatedTo[x])
               /\ \A p \in Tx : tx[p].token # rotatedTo[x]
               /\ jar[c] # rotatedTo[x]
    <3>1. PICK p \in Tx : /\ mail[p].by = c /\ At(p, "rotated")
                          /\ tx[p].heir = rotatedTo[jar[c]]
                          /\ mail[p].sent <= revokedAt[jar[c]]
      BY <1>10, <2>1, <2>2
    <3>2. now <= mail[p].sent + Latency
      BY <3>1, BrowserAssumption DEF MailIsSound
    <3>3. Carrying(p)
      BY <3>1 DEF Carrying, At
    <3>4. /\ ~Rotated(rotatedTo[x]) /\ jar[c] # rotatedTo[x]
          /\ \A o \in Tx : tx[o].token # rotatedTo[x]
      BY <2>2, <3>1, <3>3 DEF HeirsAreUnseen
    <3> QED
      BY <1>4, <2>1, <2>2, <3>1, <3>2, <3>4
  <2>3. CASE q = r
    <3>1. c = b /\ jar[c] = x
      BY <1>1, <1>2, <2>3
    <3> QED
      BY <1>1, <1>2, <2>2, <2>3, <3>1 DEF Pending
  <2>4. CASE q # r
    <3>1. mail[q].by = c /\ At(q, "refresh") /\ tx[q].token = x /\ Pending(q)
      BY <1>1, <1>2, <2>4 DEF At, Pending
    <3>2. /\ mail'[q].sent <= revokedAt[x] + Latency
          /\ ~Rotated(rotatedTo[x])
          /\ \A p \in Tx : Pending(p) => tx[p].token # rotatedTo[x]
      BY <1>2, <2>4, <3>1 DEF LateOnesRace
    <3>3. ASSUME e.pc = "refresh", jar[b] = rotatedTo[x] PROVE FALSE
      <4>1. Has(c, x) /\ Has(b, rotatedTo[x])
        BY <2>1, <3>1, <3>3 DEF Has
      <4>2. c = b
        BY <2>1, <4>1 DEF TokensAreOwned
      <4>3. x = jar[b]
        BY <3>1, <3>3, <4>2 DEF OneTokenIsOut
      <4> QED
        BY <2>2, <3>3, <4>2, <4>3
    <3> QED
      BY <1>1, <3>2, <3>3 DEF Pending
  <2> QED
    BY <2>3, <2>4
<1> QED
  BY <1>5, <1>7, <1>9, <1>11, <1>12, <1>13 DEF Sound

(* An answer arrives, or is lost on the way.  k is what the jar holds then.*)
LEMMA AnswerStep ==
  ASSUME CookiesInv, NEW r \in Tx, NEW b \in Browser, mail[r].by = b, Finish(r),
         mail' = [mail EXCEPT ![r] = NoMail],
         NEW k \in {jar[b], None, tx[r].heir}, NEW v \in BOOLEAN,
         jar' = [jar EXCEPT ![b] = k], access' = [access EXCEPT ![b] = v],
         k \in {jar[b], None} \/ (tx[r].pc \in {"rotated", "issued"} /\ v),
         k # None /\ ~v => k = jar[b] /\ ~access[b],
         dropped \subseteq dropped',
         At(r, "rotated") /\ k # tx[r].heir => b \in dropped'
  PROVE  Sound'
<1> USE DEF CookiesInv
<1>1. tx'[r] = Idle /\ \A q \in Tx : q # r => tx'[q] = tx[q]
  BY DEF Finish, CookiesTypeOK, TypeOK
<1>2. /\ tx'[r].pc = "idle" /\ tx'[r].token = None /\ ~tx'[r].issue
  BY <1>1 DEF Idle, Entry
<1>3. /\ mail'[r].by = None
      /\ \A q \in Tx : q # r => mail'[q] = mail[q]
  BY DEF NoMail, CookiesTypeOK
<1>4. /\ UNCHANGED <<now, rows, familyId, rotatedTo, revokedAt>>
      /\ b # None
  BY BrowserAssumption DEF Finish, table
<1>5. /\ jar'[b] = k /\ access'[b] = v
      /\ \A c \in Browser : c # b => jar'[c] = jar[c] /\ access'[c] = access[c]
  BY DEF CookiesTypeOK
<1>6. MailIsSound'
  BY <1>1, <1>2, <1>3, <1>4 DEF MailIsSound, Pending
<1>7. ASSUME NEW c \in Browser, NEW u \in Sid, Has(c, u)' PROVE Has(c, u)
  <2>1. CASE jar'[c] = u
    BY <1>5, <1>7, <2>1 DEF Has
  <2>2. CASE jar'[c] # u
    BY <1>1, <1>3, <1>4, <1>7, <2>2, BrowserAssumption DEF Has
  <2> QED
    BY <2>1, <2>2
<1>8. TokensAreOwned'
  BY <1>4, <1>7 DEF TokensAreOwned
<1>9. \A q \in Tx : Carrying(q)' => Carrying(q) /\ q # r /\ tx'[q] = tx[q]
  BY <1>1, <1>2 DEF Carrying
<1>10. HeirsAreUnseen'
  <2> SUFFICES ASSUME NEW q \in Tx, Carrying(q), q # r, tx'[q] = tx[q]
               PROVE  /\ tx[q].heir # None /\ ~Rotated(tx[q].heir)
                      /\ \A c \in Browser : jar'[c] # tx[q].heir
                      /\ \A p \in Tx : /\ tx'[p].token # tx[q].heir
                                       /\ Carrying(p)' /\ tx'[p].heir = tx[q].heir => p = q
                      /\ ~At(q, "rotating") => tx[q].heir \in rows
    BY <1>4, <1>9 DEF HeirsAreUnseen, Rotated, At
  <2>1. /\ tx[q].heir # None /\ ~Rotated(tx[q].heir)
        /\ \A c \in Browser : jar[c] # tx[q].heir
        /\ \A p \in Tx : /\ tx[p].token # tx[q].heir
                         /\ Carrying(p) /\ tx[p].heir = tx[q].heir => p = q
        /\ ~At(q, "rotating") => tx[q].heir \in rows
    BY DEF HeirsAreUnseen
  <2>2. k # tx[q].heir
    BY <2>1 DEF Carrying
  <2> QED
    BY <1>1, <1>2, <1>5, <1>9, <2>1, <2>2
<1>11. JarsAreFollowed'
  <2> SUFFICES ASSUME NEW c \in Browser \ dropped', jar'[c] # None, Rotated(jar'[c])
               PROVE  \E q \in Tx : /\ mail'[q].by = c /\ At(q, "rotated")'
                                    /\ tx'[q].heir = rotatedTo[jar'[c]]
                                    /\ mail'[q].sent <= revokedAt[jar'[c]]
    BY <1>4 DEF JarsAreFollowed, Rotated
  <2>1. jar'[c] = jar[c]
    <3>1. CASE c # b
      BY <1>5, <3>1
    <3>2. CASE c = b /\ tx[r].pc \in {"rotated", "issued"} /\ k = tx[r].heir
      BY <1>5, <3>2 DEF HeirsAreUnseen, Carrying
    <3> QED
      BY <1>5, <3>1, <3>2
  <2>2. PICK q \in Tx : /\ mail[q].by = c /\ At(q, "rotated")
                        /\ tx[q].heir = rotatedTo[jar[c]]
                        /\ mail[q].sent <= revokedAt[jar[c]]
    BY <2>1 DEF JarsAreFollowed
  <2>3. q # r
    <3>1. ASSUME q = r PROVE FALSE
      <4>1. c = b /\ At(r, "rotated") /\ Carrying(r)
        BY <2>2, <3>1 DEF At, Carrying
      <4>2. k # tx[r].heir
        BY <1>5, <2>1, <4>1 DEF HeirsAreUnseen
      <4> QED
        BY <4>1, <4>2
    <3> QED
      BY <3>1
  <2> QED
    BY <1>1, <1>3, <2>1, <2>2, <2>3 DEF At
<1>12. \A q \in Tx : Pending(q)' => Pending(q) /\ q # r /\ tx'[q] = tx[q]
  BY <1>1, <1>2 DEF Pending
<1>13. OneTokenIsOut'
  BY <1>3, <1>5, <1>12 DEF OneTokenIsOut
<1>14. LateOnesRace'
  BY <1>1, <1>2, <1>3, <1>4, <1>12 DEF LateOnesRace, Rotated, At
<1> QED
  BY <1>6, <1>8, <1>10, <1>11, <1>13, <1>14 DEF Sound
-----------------------------------------------------------------------------
(* Every step of the browsers is one of the table, or leaves it alone.     *)
LEMMA IsATableStep ==
  ASSUME TypeOK, CookiesNext
  PROVE  Next \/ UNCHANGED vars
<1>1. ASSUME NEW r \in Tx, NEW s, BeginRefresh(r, s) \/ BeginLogout(r, s) PROVE Request(r)
  BY <1>1 DEF Request, BeginRefresh, BeginLogout, TypeOK
<1>2. ASSUME NEW r \in Tx, NEW b \in Browser,
             \/ \E v \in Doors : Visit(b, r, v)
             \/ BrowserSignsIn(b, r) \/ BrowserSignsOut(b, r) \/ BrowserSignsOutEverywhere(b, r)
      PROVE  Request(r)
  BY <1>1, <1>2
  DEF Request, Visit, BrowserSignsIn, BrowserSignsOut, BrowserSignsOutEverywhere
<1>3. ASSUME NEW r \in Tx, NEW b \in Browser, Deliver(b, r) \/ Lose(b, r) PROVE Finish(r)
  BY <1>3 DEF Deliver, Lose
<1>4. ASSUME NEW r \in Tx, AdminBans(r) PROVE Request(r)
  BY <1>4 DEF AdminBans, Request
<1>5. ASSUME NEW r \in Tx, AdminAnswered(r) PROVE Finish(r)
  BY <1>5 DEF AdminAnswered
<1>6. ASSUME NEW b \in Browser, AccessExpires(b) PROVE UNCHANGED vars
  BY <1>6 DEF AccessExpires
<1>7. ClockTicks => Tick
  BY DEF ClockTicks
<1> QED
  BY <1>2, <1>3, <1>4, <1>5, <1>6, <1>7 DEF CookiesNext, Next

(* A request of a browser sets out.                                        *)
LEMMA RequestStep ==
  ASSUME CookiesInv, NEW r \in Tx, NEW b \in Browser,
         \/ \E v \in Doors : Visit(b, r, v)
         \/ BrowserSignsIn(b, r) \/ BrowserSignsOut(b, r) \/ BrowserSignsOutEverywhere(b, r)
  PROVE  Sound'
<1> USE DEF CookiesInv
<1>1. now \in 0..MaxTime /\ 0 \in 0..MaxTime /\ jar[b] \in Sid \cup {None}
  BY ZeroIsATime DEF CookiesTypeOK, TypeOK
<1>2. ASSUME NEW state \in {"refresh", "login", "logout"}, NEW s \in {jar[b], None},
             NEW t \in 0..MaxTime, Arrive(r, state, s, t), NEW v, Sends(b, r, v),
             UNCHANGED browserVars,
             state = "refresh" => ~access[b] /\ jar[b] # None /\ s = jar[b] /\ t = now
      PROVE  Sound'
  <2> DEFINE e == Entry(state, s, None, {}, FALSE, t)
  <2>1. e \in Requests
    BY <1>1, EntryType DEF Running
  <2>2. e.pc = state /\ e.token = s /\ e.since = t
    BY DEF Entry
  <2>3. tx' = [tx EXCEPT ![r] = e] /\ At(r, "idle") /\ UNCHANGED <<now, table>>
    BY <1>2 DEF Arrive
  <2> HIDE DEF e
  <2> QED
    BY <1>2, <2>1, <2>2, <2>3, ArrivalStep
<1>3. ASSUME NEW v \in Doors, Visit(b, r, v) PROVE Sound'
  BY <1>1, <1>2, <1>3 DEF Visit, BeginRefresh
<1>4. CASE BrowserSignsIn(b, r)
  BY <1>1, <1>2, <1>4 DEF BrowserSignsIn, BeginLogin
<1>5. CASE BrowserSignsOut(b, r)
  BY <1>1, <1>2, <1>5 DEF BrowserSignsOut, BeginLogout
<1>6. CASE BrowserSignsOutEverywhere(b, r)
  <2> DEFINE open == {s \in rows : Live(s)}
             e == Entry("revokeAll", None, None, open, TRUE, 0)
  <2>1. open \subseteq Sid
    BY DEF CookiesTypeOK, TypeOK
  <2>2. e \in Requests
    BY <1>1, <2>1, EntryType DEF Running
  <2>3. e.pc = "revokeAll" /\ e.token = None
    BY DEF Entry
  <2>4. /\ tx' = [tx EXCEPT ![r] = e] /\ At(r, "idle")
        /\ UNCHANGED <<now, table, browserVars>> /\ Sends(b, r, "page")
    BY <1>6 DEF BrowserSignsOutEverywhere, BeginRevokeAll, Condemn
  <2> HIDE DEF e
  <2> QED
    BY <2>2, <2>3, <2>4, ArrivalStep
<1> QED
  BY <1>3, <1>4, <1>5, <1>6

(* What the server does with a request, but for the two inserts.           *)
LEMMA ServerStep ==
  ASSUME CookiesInv, Inv', WrittenOnce, UNCHANGED <<browserVars, mail>>, NEW r \in Tx,
         Serve(r) \/ Fail(r) \/ LogoutFail(r)
  PROVE  Sound'
<1> USE DEF CookiesInv
<1>1. now \in 0..MaxTime /\ 0 \in 0..MaxTime
  BY ZeroIsATime DEF CookiesTypeOK, TypeOK
<1>2. ASSUME mail[r].by = None
      PROVE  /\ tx[r].pc \in {"idle", "banned", "revokeAll", "revoked", "failed"}
             /\ ~tx[r].issue
  BY <1>2 DEF MailIsSound
<1>3. ASSUME NEW a \in {"racing", "login", "revoked"} \cup Answer,
             a \notin {"rotated", "issued"}, NEW h \in Sid \cup {None},
             tx' = [tx EXCEPT ![r] = Entry(a, None, h, {}, FALSE, 0)],
             UNCHANGED <<now, rows, familyId, rotatedTo, expiresAt>>,
             tx[r].pc \in Running,
             mail[r].by = None => a \in {"revoked", "failed"}
      PROVE  Sound'
  <2> DEFINE e == Entry(a, None, h, {}, FALSE, 0)
  <2>1. e \in Requests
    <3>1. a \in {"idle"} \cup Running \cup Answer
      BY DEF Running, Answer
    <3> QED
      BY <1>1, <3>1, EntryType
  <2>2. e.pc = a /\ e.token = None /\ ~e.issue
    BY DEF Entry
  <2>3. /\ a \notin {"idle", "refresh", "rotated", "issued", "rotating"}
        /\ tx[r].pc \notin {"rotated", "issued"}
    BY <1>3 DEF Answer, Running
  <2>4. tx' = [tx EXCEPT ![r] = e]
    BY <1>3
  <2> HIDE DEF e
  <2> QED
    BY <1>3, <2>1, <2>2, <2>3, <2>4, QuietStep
<1>4. ASSUME NEW s \in Sid \cup {None}, NEW t \in 0..now, RefreshNone(r, s, t) PROVE Sound'
  BY <1>2, <1>3, <1>4 DEF RefreshNone, Reads, Answers, Answer, Running, At, table
<1>5. ASSUME NEW s \in Sid \cup {None}, NEW t \in 0..now, RefreshRace(r, s, t) PROVE Sound'
  <2>1. rotatedTo[s] \in Sid \cup {None}
    BY <1>5 DEF RefreshRace, CookiesTypeOK, TypeOK
  <2> QED
    BY <1>2, <1>3, <1>5, <2>1 DEF RefreshRace, Reads, Running, At, table
<1>6. CASE RaceAnswer(r)
  <2>1. tx[r].heir \in Sid \cup {None}
    BY DEF CookiesTypeOK, TypeOK, Requests
  <2> QED
    BY <1>2, <1>3, <1>6, <2>1 DEF RaceAnswer, Answers, Answer, Running, At, table
<1>7. CASE ReuseCommit(r)
  BY <1>2, <1>3, <1>7 DEF ReuseCommit, Answers, Answer, Running, At
<1>8. CASE Logout(r) \/ LogoutFail(r)
  BY <1>2, <1>3, <1>8 DEF Logout, LogoutFail, Answers, Answer, Running, At, table
<1>9. CASE RevokeAll(r)
  <2>1. /\ tx[r].pc \in Running
        /\ UNCHANGED <<now, rows, familyId, rotatedTo, expiresAt>>
    BY <1>9 DEF RevokeAll, Running, At
  <2>2. CASE tx[r].issue
    BY <1>2, <1>3, <1>9, <2>1, <2>2 DEF RevokeAll, Answers
  <2>3. CASE ~tx[r].issue
    BY <1>3, <1>9, <2>1, <2>3 DEF RevokeAll, Answers
  <2> QED
    BY <2>2, <2>3
<1>10. CASE Fail(r)
  BY <1>2, <1>3, <1>10 DEF Fail, Answers, Answer, Running, table
<1>11. CASE BeginBanRevoke(r)
  <2> DEFINE open == {s \in rows : Live(s)}
             e == Entry("revokeAll", None, None, open, FALSE, 0)
  <2>1. open \subseteq Sid
    BY DEF CookiesTypeOK, TypeOK
  <2>2. e \in Requests
    BY <1>1, <2>1, EntryType DEF Running
  <2>3. e.pc = "revokeAll" /\ e.token = None /\ ~e.issue
    BY DEF Entry
  <2>4. /\ tx' = [tx EXCEPT ![r] = e] /\ At(r, "banned")
        /\ UNCHANGED <<now, rows, familyId, rotatedTo, expiresAt>>
    BY <1>11 DEF BeginBanRevoke, Condemn, table
  <2>5. tx[r].pc \notin {"rotated", "issued"}
    BY <2>4 DEF At
  <2> HIDE DEF e
  <2> QED
    BY <2>2, <2>3, <2>4, <2>5, QuietStep
<1>12. ASSUME NEW s \in Sid \cup {None}, NEW t \in 0..now, RefreshRotate(r, s, t) PROVE Sound'
  <2>1. PICK h \in Fresh : tx' = [tx EXCEPT ![r] = Entry("rotating", s, h, {}, FALSE, t)]
    BY <1>12 DEF RefreshRotate
  <2> DEFINE e == Entry("rotating", s, h, {}, FALSE, t)
  <2>2. /\ At(r, "refresh") /\ tx[r].token = s /\ t \in tx[r].since..now
        /\ UNCHANGED <<now, rows, familyId, rotatedTo, expiresAt>>
    BY <1>12 DEF RefreshRotate, Reads, table
  <2>3. t \in 0..MaxTime /\ tx[r].since <= t /\ t <= now
    BY <1>1, <2>2, TimeAssumption DEF CookiesTypeOK, TypeOK, Requests
  <2>4. e \in Requests
    <3>1. h \in Sid
      BY DEF Fresh
    <3> QED
      BY <2>3, <3>1, EntryType DEF Running
  <2>5. e.pc = "rotating" /\ e.token = s /\ e.heir = h /\ e.since = t
    BY DEF Entry
  <2>6. mail[r].by # None /\ tx[r].pc \notin {"rotated", "issued"}
    BY <1>2, <2>2 DEF At
  <2>7. tx' = [tx EXCEPT ![r] = e]
    BY <2>1
  <2> HIDE DEF e
  <2> QED
    BY <2>2, <2>3, <2>4, <2>5, <2>6, <2>7, QuietStep
<1>13. ASSUME NEW s \in Sid \cup {None}, NEW t \in 0..now, RefreshReuse(r, s, t) PROVE Sound'
  <2> DEFINE open == {m \in Members(familyId[s]) : Live(m)}
             e == Entry("reusing", s, None, open, FALSE, 0)
  <2>1. open \subseteq Sid
    BY DEF Members, CookiesTypeOK, TypeOK
  <2>2. e \in Requests
    BY <1>1, <2>1, EntryType DEF Running
  <2>3. e.pc = "reusing" /\ e.token = s /\ ~e.issue
    BY DEF Entry
  <2>4. /\ tx' = [tx EXCEPT ![r] = e] /\ At(r, "refresh") /\ tx[r].token = s
        /\ UNCHANGED <<now, rows, familyId, rotatedTo, expiresAt>>
    BY <1>13 DEF RefreshReuse, Reads, table
  <2>5. mail[r].by # None /\ tx[r].pc \notin {"rotated", "issued"}
    BY <1>2, <2>4 DEF At
  <2> HIDE DEF e
  <2> QED
    BY <2>2, <2>3, <2>4, <2>5, QuietStep
<1>14. CASE RefreshCommit(r)
  BY <1>14, CookieCommit
<1>15. CASE CreateSession(r)
  BY <1>15, CookieCreate
<1>16. ASSUME NEW s \in Sid, LocksRow(r, s) PROVE Sound'
  <2> DEFINE e == [tx[r] EXCEPT !.held = @ \cup {s}]
  <2>1. /\ tx[r].pc \in {"reusing", "revokeAll"} /\ tx' = [tx EXCEPT ![r] = e]
        /\ UNCHANGED <<now, rows, familyId, rotatedTo, expiresAt>>
    BY <1>16 DEF LocksRow, Updating, table
  <2>2. e \in Requests /\ e.pc = tx[r].pc /\ e.token = tx[r].token /\ e.issue = tx[r].issue
    BY DEF CookiesTypeOK, TypeOK, Requests
  <2> HIDE DEF e
  <2> QED
    BY <1>2, <2>1, <2>2, QuietStep
<1>17. CASE Refresh(r)
  BY <1>4, <1>5, <1>6, <1>7, <1>12, <1>13, <1>14, <1>17 DEF Refresh
<1> QED
  BY <1>8, <1>9, <1>10, <1>11, <1>15, <1>17, <1>16 DEF Serve, LockRow

(* An answer comes to its browser with the cookies it has, or is lost.     *)
LEMMA DeliveryStep ==
  ASSUME CookiesInv, NEW r \in Tx, NEW b \in Browser, Deliver(b, r) \/ Lose(b, r)
  PROVE  /\ Sound'
         /\ jar' \in [Browser -> Sid \cup {None}] /\ access' \in [Browser -> BOOLEAN]
         /\ dropped' \in SUBSET Browser
<1> USE DEF CookiesInv
<1>1. /\ mail[r].by = b /\ Finish(r) /\ mail' = [mail EXCEPT ![r] = NoMail]
      /\ jar[b] \in Sid \cup {None} /\ tx[r].heir \in Sid \cup {None} /\ access[b] \in BOOLEAN
  BY DEF Deliver, Lose, CookiesTypeOK, TypeOK, Requests
<1>2. dropped \subseteq dropped' /\ dropped' \in SUBSET Browser
  BY DEF Deliver, Lose, Misses, CookiesTypeOK
<1>3. ASSUME NEW k \in {jar[b], None, tx[r].heir}, NEW v \in BOOLEAN,
             jar' = [jar EXCEPT ![b] = k], access' = [access EXCEPT ![b] = v],
             k \in {jar[b], None} \/ (tx[r].pc \in {"rotated", "issued"} /\ v),
             k # None /\ ~v => k = jar[b] /\ ~access[b],
             At(r, "rotated") /\ k # tx[r].heir => b \in dropped'
      PROVE  /\ Sound'
             /\ jar' \in [Browser -> Sid \cup {None}] /\ access' \in [Browser -> BOOLEAN]
  <2>1. Sound'
    BY <1>1, <1>2, <1>3, AnswerStep
  <2> QED
    BY <1>1, <1>3, <2>1 DEF CookiesTypeOK
<1>4. CASE UNCHANGED <<jar, access>> /\ (At(r, "rotated") => b \in dropped')
  <2>1. jar' = [jar EXCEPT ![b] = jar[b]] /\ access' = [access EXCEPT ![b] = access[b]]
    BY <1>4 DEF CookiesTypeOK
  <2> QED
    BY <1>1, <1>2, <1>3, <1>4, <2>1
<1>5. CASE Lose(b, r)
  BY <1>4, <1>5 DEF Lose, Misses
<1>6. CASE Deliver(b, r)
  <2>1. CASE At(r, "failed") \/ Redirected(r)
    BY <1>4, <1>6, <2>1 DEF Deliver, SetCookies, Misses, At
  <2>2. CASE tx[r].pc \in {"rotated", "issued"} /\ Store(b, tx[r].heir, TRUE)
    BY <1>2, <1>3, <2>2 DEF Store
  <2>3. CASE At(r, "race") /\ Store(b, jar[b], TRUE)
    BY <1>2, <1>3, <2>3 DEF Store, At
  <2>4. CASE tx[r].pc \in {"none", "reuse", "loggedOut"} /\ Store(b, None, FALSE)
    BY <1>2, <1>3, <2>4 DEF Store, At
  <2> QED
    BY <1>6, <2>1, <2>2, <2>3, <2>4 DEF Deliver, SetCookies
<1> QED
  BY <1>2, <1>5, <1>6

(* What is typed stays so.                                                 *)
LEMMA CookiesTyping ==
  ASSUME CookiesInv, TypeOK', [CookiesNext]_allVars
  PROVE  CookiesTypeOK'
<1> USE DEF CookiesInv
<1>1. ASSUME UNCHANGED <<browserVars, mail>> PROVE CookiesTypeOK'
  BY <1>1 DEF browserVars, CookiesTypeOK
<1>2. ASSUME NEW r \in Tx, NEW b \in Browser, NEW v \in {"page", "/auth", "/panel"},
             Sends(b, r, v)
      PROVE  mail' \in [Tx -> [by : Browser \cup {None},
                               visit : {"page", "/auth", "/panel"}, sent : 0..MaxTime]]
  BY <1>2 DEF Sends, CookiesTypeOK, TypeOK
<1>3. ASSUME NEW r \in Tx, NEW b \in Browser,
             \/ \E v \in Doors : Visit(b, r, v)
             \/ BrowserSignsIn(b, r) \/ BrowserSignsOut(b, r) \/ BrowserSignsOutEverywhere(b, r)
      PROVE  UNCHANGED browserVars /\ \E v \in {"page", "/auth", "/panel"} : Sends(b, r, v)
  BY <1>3, DoorsAssumption
  DEF Visit, BrowserSignsIn, BrowserSignsOut, BrowserSignsOutEverywhere
<1>4. ASSUME NEW r \in Tx, NEW b \in Browser, Deliver(b, r) \/ Lose(b, r)
      PROVE  /\ mail' = [mail EXCEPT ![r] = NoMail]
             /\ jar' \in [Browser -> Sid \cup {None}] /\ access' \in [Browser -> BOOLEAN]
             /\ dropped' \in SUBSET Browser
  BY <1>4, DeliveryStep DEF Deliver, Lose
<1>5. NoMail \in [by : Browser \cup {None}, visit : {"page", "/auth", "/panel"},
                  sent : 0..MaxTime]
  BY ZeroIsATime DEF NoMail
<1>6. ASSUME NEW b \in Browser, AccessExpires(b)
      PROVE  /\ UNCHANGED <<jar, mail, dropped>> /\ access' \in [Browser -> BOOLEAN]
  BY <1>6 DEF AccessExpires, CookiesTypeOK
<1>7. CASE CookiesNext
  <2>1. ASSUME NEW r \in Tx, NEW b \in Browser,
               \/ \E v \in Doors : Visit(b, r, v)
               \/ BrowserSignsIn(b, r) \/ BrowserSignsOut(b, r)
               \/ BrowserSignsOutEverywhere(b, r)
        PROVE  CookiesTypeOK'
    BY <1>2, <1>3, <2>1 DEF browserVars, CookiesTypeOK
  <2>2. ASSUME NEW r \in Tx, NEW b \in Browser, Deliver(b, r) \/ Lose(b, r)
        PROVE  CookiesTypeOK'
    BY <1>4, <1>5, <2>2 DEF CookiesTypeOK
  <2>3. ASSUME NEW b \in Browser, AccessExpires(b) PROVE CookiesTypeOK'
    BY <1>6, <2>3 DEF CookiesTypeOK
  <2>4. ASSUME NEW r \in Tx,
               \/ AdminBans(r) \/ AdminAnswered(r)
               \/ (Serve(r) \/ Fail(r) \/ LogoutFail(r)) /\ UNCHANGED <<browserVars, mail>>
        PROVE  CookiesTypeOK'
    BY <1>1, <2>4 DEF AdminBans, AdminAnswered
  <2>5. CASE ClockTicks \/ (Unban /\ UNCHANGED <<browserVars, mail>>)
    BY <1>1, <2>5 DEF ClockTicks
  <2> QED
    BY <1>7, <2>1, <2>2, <2>3, <2>4, <2>5 DEF CookiesNext
<1>8. CASE UNCHANGED allVars
  BY <1>1, <1>8 DEF allVars, browserVars
<1> QED
  BY <1>7, <1>8

(* Time passes, an access token expires: nothing has moved.                *)
LEMMA RestStep ==
  ASSUME CookiesInv, UNCHANGED <<table, tx, jar, mail, dropped>>,
         \/ UNCHANGED <<now, access>>
         \/ UNCHANGED now /\ \E b \in Browser : AccessExpires(b)
         \/ UNCHANGED access /\ ClockTicks
  PROVE  Sound'
<1> USE DEF CookiesInv
<1>1. UNCHANGED <<rows, familyId, rotatedTo, revokedAt>>
  BY DEF table
<1>2. /\ now \in Nat /\ \A q \in Tx : tx[q].since \in Nat /\ mail[q].sent \in Nat
      /\ Latency \in Nat
  BY TimeAssumption, NetworkAssumption DEF CookiesTypeOK, TypeOK, Requests
<1>3. now' \in Nat /\ now <= now'
  BY <1>2 DEF ClockTicks, Tick
<1>4. ASSUME NEW q \in Tx, mail[q].by # None PROVE now' <= mail[q].sent + Latency
  <2>1. now <= mail[q].sent + Latency /\ mail[q].by \in Browser
    BY <1>4 DEF MailIsSound, CookiesTypeOK
  <2>2. CASE ClockTicks
    BY <1>2, <2>1, <2>2 DEF ClockTicks, Tick, InFlight
  <2> QED
    BY <2>1, <2>2
<1>5. MailIsSound'
  BY <1>2, <1>3, <1>4 DEF MailIsSound, Pending
<1>6. TokensAreOwned'
  BY <1>1 DEF TokensAreOwned, Has
<1>7. HeirsAreUnseen' /\ JarsAreFollowed' /\ LateOnesRace'
  BY <1>1 DEF HeirsAreUnseen, JarsAreFollowed, LateOnesRace, Carrying, Pending, Rotated, At
<1>8. OneTokenIsOut'
  <2>1. CASE UNCHANGED access
    BY <2>1 DEF OneTokenIsOut, Pending
  <2>2. ASSUME NEW b \in Browser, AccessExpires(b) PROVE OneTokenIsOut'
    <3>1. /\ \A c \in Browser : c # b => access'[c] = access[c]
          /\ \A q \in Tx : mail[q].by # b
      BY <2>2 DEF AccessExpires, InFlight, CookiesTypeOK
    <3> QED
      BY <3>1 DEF OneTokenIsOut, Pending
  <2> QED
    BY <2>1, <2>2
<1> QED
  BY <1>5, <1>6, <1>7, <1>8 DEF Sound

(* Every step.                                                             *)
LEMMA CookiesStep ==
  ASSUME CookiesInv, [CookiesNext]_allVars
  PROVE  CookiesInv'
<1>1. [Next]_vars
  BY IsATableStep DEF CookiesInv, CookiesTypeOK, allVars
<1>2. Inv' /\ WrittenOnce
  BY <1>1, NextInv DEF CookiesInv
<1>3. CookiesTypeOK'
  BY <1>2, CookiesTyping DEF Inv
<1>4. ASSUME NEW r \in Tx, (Serve(r) \/ Fail(r) \/ LogoutFail(r)) /\ UNCHANGED <<browserVars, mail>>
      PROVE  Sound'
  BY <1>2, <1>4, ServerStep
<1>5. ASSUME NEW r \in Tx, AdminBans(r) PROVE Sound'
  <2> DEFINE e == Entry("banned", None, None, {}, FALSE, 0)
  <2>1. e \in Requests
    BY EntryType, ZeroIsATime DEF Running
  <2>2. e.pc = "banned" /\ e.token = None /\ ~e.issue
    BY DEF Entry
  <2>3. /\ tx' = [tx EXCEPT ![r] = e] /\ At(r, "idle")
        /\ UNCHANGED <<now, rows, familyId, rotatedTo, expiresAt, browserVars, mail>>
    BY <1>5 DEF AdminBans, Ban, table
  <2>4. mail[r].by = None /\ tx[r].pc \notin {"rotated", "issued"}
    BY <2>3 DEF CookiesInv, MailIsSound, At
  <2> HIDE DEF e
  <2> QED
    BY <1>2, <2>1, <2>2, <2>3, <2>4, QuietStep
<1>6. ASSUME NEW r \in Tx, AdminAnswered(r) PROVE Sound'
  <2>1. Idle \in Requests /\ Idle.pc = "idle" /\ Idle.token = None /\ ~Idle.issue
    BY EntryType, ZeroIsATime DEF Idle, Entry
  <2>2. /\ tx' = [tx EXCEPT ![r] = Idle] /\ mail[r].by = None
        /\ UNCHANGED <<now, rows, familyId, rotatedTo, expiresAt, browserVars, mail>>
    BY <1>6 DEF AdminAnswered, Finish, table
  <2>3. tx[r].pc \notin {"rotated", "issued"}
    BY <2>2 DEF CookiesInv, MailIsSound
  <2> QED
    BY <1>2, <2>1, <2>2, <2>3, QuietStep
<1>7. ASSUME NEW r \in Tx, NEW b \in Browser, Deliver(b, r) \/ Lose(b, r) PROVE Sound'
  BY <1>7, DeliveryStep
<1>8. ASSUME NEW r \in Tx, NEW b \in Browser,
             \/ \E v \in Doors : Visit(b, r, v)
             \/ BrowserSignsIn(b, r) \/ BrowserSignsOut(b, r) \/ BrowserSignsOutEverywhere(b, r)
      PROVE  Sound'
  BY <1>8, RequestStep
<1>9. ASSUME NEW b \in Browser, AccessExpires(b) PROVE Sound'
  BY <1>9, RestStep DEF AccessExpires, vars
<1>10. ASSUME ClockTicks \/ (Unban /\ UNCHANGED <<browserVars, mail>>) \/ UNCHANGED allVars
       PROVE  Sound'
  BY <1>10, RestStep DEF ClockTicks, Tick, Unban, allVars, browserVars, vars
<1>11. Sound'
  BY <1>4, <1>5, <1>6, <1>7, <1>8, <1>9, <1>10 DEF CookiesNext
<1> QED
  BY <1>2, <1>3, <1>11 DEF CookiesInv, Sound
-----------------------------------------------------------------------------
(* What the window is for: a refresh of a browser that lost nothing finds  *)
(* its burnt token within Grace, so that the heir, the only row of the     *)
(* family that may be live, is not.                                        *)
LEMMA InTime ==
  ASSUME CookiesInv, 2 * Latency < Grace,
         NEW r \in Tx, NEW b \in Browser \ dropped, mail[r].by = b,
         NEW s \in Sid \cup {None}, NEW t \in 0..now, RefreshReuse(r, s, t),
         NEW m \in Members(familyId[s]), Live(m)
  PROVE  m \in rows /\ Expired(m, now)
<1> USE DEF CookiesInv
<1>1. /\ At(r, "refresh") /\ tx[r].token = s /\ s \in rows /\ Rotated(s)
      /\ ~HarmlessRace(s, t)
  BY DEF RefreshReuse, Reads
<1>2. /\ mail[r].sent <= revokedAt[s] + Latency /\ ~Rotated(rotatedTo[s])
  BY <1>1 DEF LateOnesRace
<1>3. now <= mail[r].sent + Latency
  BY BrowserAssumption DEF MailIsSound
<1>4. /\ revokedAt[s] \in Nat /\ mail[r].sent \in Nat /\ Latency \in Nat /\ now \in Nat
      /\ Grace \in Nat /\ t \in Nat /\ t <= now
  BY <1>1, BurntRows, TimeAssumption, NetworkAssumption DEF CookiesTypeOK, TypeOK
<1>5. revokedAt[s] + Grace > t
  BY <1>2, <1>3, <1>4
<1>6. ~Live(rotatedTo[s]) \/ Expired(rotatedTo[s], t)
  BY <1>1, <1>5 DEF HarmlessRace
<1>7. m \in rows /\ familyId[m] = familyId[s] /\ ~Rotated(m)
  BY DEF Members, Live, Inv, ChainIsSound
<1>8. m = rotatedTo[s]
  <2>1. rotatedTo[s] \in rows /\ familyId[rotatedTo[s]] = familyId[s]
    BY <1>1, BurntRows
  <2> QED
    BY <1>2, <1>7, <2>1 DEF Inv, OneTipPerFamily
<1>9. expiresAt[m] \in Nat
  BY <1>7, TimeAssumption DEF CookiesTypeOK, TypeOK
<1> QED
  BY <1>4, <1>6, <1>7, <1>8, <1>9 DEF Expired

(* Rows stay, with their deadlines, and a request comes to reuse in one way.*)
LEMMA TableGrows ==
  ASSUME Inv, [Next]_vars
  PROVE  /\ rows \subseteq rows' /\ now <= now'
         /\ \A x \in rows : expiresAt'[x] = expiresAt[x]
         /\ \A r \in Tx : At(r, "reusing")' =>
              \/ At(r, "reusing") /\ tx'[r].snap = tx[r].snap
              \/ \E s \in Sid \cup {None}, t \in 0..now :
                   RefreshReuse(r, s, t) /\ UNCHANGED <<now, table>>
<1> DEFINE Grown == /\ rows \subseteq rows' /\ now <= now'
                    /\ \A x \in rows : expiresAt'[x] = expiresAt[x]
           Calm == \A q \in Tx : At(q, "reusing")' =>
                      At(q, "reusing") /\ tx'[q].snap = tx[q].snap
<1> USE DEF Inv
<1>1. now \in Nat
  BY TimeAssumption DEF TypeOK
<1>2. ASSUME UNCHANGED <<now, rows, expiresAt>> PROVE Grown
  BY <1>1, <1>2
<1>3. ASSUME NEW r \in Tx, NEW e, tx' = [tx EXCEPT ![r] = e], e.pc # "reusing" PROVE Calm
  BY <1>3 DEF TypeOK, At
<1>4. ASSUME NEW r \in Tx, NEW a, a # "reusing", NEW token, NEW heir, NEW snap, NEW issue,
             NEW since, tx' = [tx EXCEPT ![r] = Entry(a, token, heir, snap, issue, since)]
      PROVE  Calm
  <2> DEFINE e == Entry(a, token, heir, snap, issue, since)
  <2>1. e.pc = a
    BY DEF Entry
  <2> HIDE DEF e, Calm
  <2> QED
    BY <1>3, <1>4, <2>1 DEF e
<1>5. ASSUME NEW r \in Tx, NEW a, NEW h, Answers(r, a, h), a # "reusing" PROVE Calm
  BY <1>4, <1>5 DEF Answers
<1>6. ASSUME NEW r \in Tx, Request(r) PROVE Grown /\ Calm
  <2>1. ASSUME NEW state, NEW s, NEW t, Arrive(r, state, s, t), state # "reusing"
        PROVE  Grown /\ Calm
    BY <1>2, <1>4, <2>1 DEF Arrive, table
  <2>2. ASSUME NEW issue, Condemn(r, issue), UNCHANGED <<now, table>> PROVE Grown /\ Calm
    BY <1>2, <1>4, <2>2 DEF Condemn, table
  <2>3. CASE Ban(r)
    BY <1>2, <1>4, <2>3 DEF Ban, table
  <2> QED
    BY <1>6, <2>1, <2>2, <2>3
    DEF Request, BeginRefresh, BeginLogout, BeginLogin, BeginRevokeAll
<1>7. ASSUME NEW r \in Tx, RefreshCommit(r) PROVE Grown /\ Calm
  <2>1. /\ tx[r].heir \in Sid \ rows /\ rows' = rows \cup {tx[r].heir} /\ now' = now
        /\ expiresAt' = [expiresAt EXCEPT ![tx[r].heir] = expiresAt[tx[r].token]]
    BY <1>7 DEF RefreshCommit, RequestsAreSound
  <2> QED
    BY <1>1, <1>5, <1>7, <2>1 DEF RefreshCommit, TypeOK
<1>8. ASSUME NEW r \in Tx, CreateSession(r) PROVE Grown /\ Calm
  <2>1. PICK h \in Fresh : /\ rows' = rows \cup {h}
                           /\ expiresAt' = [expiresAt EXCEPT ![h] = now + Ttl]
                           /\ Answers(r, "issued", h)
    BY <1>8 DEF CreateSession
  <2>2. now' = now /\ h \in Sid \ rows
    BY <1>8 DEF CreateSession, Fresh
  <2> QED
    BY <1>1, <1>5, <2>1, <2>2 DEF TypeOK
<1>9. ASSUME NEW r \in Tx, NEW s \in Sid \cup {None}, NEW t \in 0..now, RefreshReuse(r, s, t)
      PROVE  /\ Grown /\ UNCHANGED <<now, table>>
             /\ \A q \in Tx : q # r => tx'[q] = tx[q]
  BY <1>2, <1>9 DEF RefreshReuse, table, TypeOK
<1>10. ASSUME NEW r \in Tx, NEW s \in Sid \cup {None}, NEW t \in 0..now,
              RefreshNone(r, s, t) \/ RefreshRotate(r, s, t) \/ RefreshRace(r, s, t)
       PROVE  Grown /\ Calm
  <2>1. UNCHANGED <<now, rows, expiresAt>>
    BY <1>10 DEF RefreshNone, RefreshRotate, RefreshRace, table
  <2>2. CASE RefreshNone(r, s, t)
    BY <1>2, <1>5, <2>1, <2>2 DEF RefreshNone
  <2>3. CASE RefreshRotate(r, s, t)
    <3>1. PICK h \in Fresh : tx' = [tx EXCEPT ![r] = Entry("rotating", s, h, {}, FALSE, t)]
      BY <2>3 DEF RefreshRotate
    <3> QED
      BY <1>2, <1>4, <2>1, <3>1
  <2>4. CASE RefreshRace(r, s, t)
    BY <1>2, <1>4, <2>1, <2>4 DEF RefreshRace
  <2> QED
    BY <1>10, <2>2, <2>3, <2>4
<1>11. ASSUME NEW r \in Tx,
              \/ RaceAnswer(r) \/ ReuseCommit(r) \/ Logout(r) \/ RevokeAll(r)
              \/ Fail(r) \/ LogoutFail(r)
       PROVE  Grown /\ Calm
  <2>1. UNCHANGED <<now, rows, expiresAt>>
    BY <1>11 DEF RaceAnswer, ReuseCommit, Logout, RevokeAll, Fail, LogoutFail, table
  <2>2. \E a, h : Answers(r, a, h) /\ a # "reusing"
    BY <1>11 DEF RaceAnswer, ReuseCommit, Logout, RevokeAll, Fail, LogoutFail
  <2> QED
    BY <1>2, <1>5, <2>1, <2>2
<1>12. ASSUME NEW r \in Tx, BeginBanRevoke(r) \/ Finish(r) PROVE Grown /\ Calm
  <2>1. UNCHANGED <<now, rows, expiresAt>>
    BY <1>12 DEF BeginBanRevoke, Finish, table
  <2>2. CASE BeginBanRevoke(r)
    BY <1>2, <1>4, <2>1, <2>2 DEF BeginBanRevoke, Condemn
  <2>3. CASE Finish(r)
    BY <1>2, <1>4, <2>1, <2>3 DEF Finish, Idle
  <2> QED
    BY <1>12, <2>2, <2>3
<1>13. ASSUME NEW r \in Tx, NEW s \in Sid, LocksRow(r, s) PROVE Grown /\ Calm
  <2>1. UNCHANGED <<now, rows, expiresAt>> /\ tx' = [tx EXCEPT ![r].held = @ \cup {s}]
    BY <1>13 DEF LocksRow, table
  <2>2. \A q \in Tx : tx'[q].pc = tx[q].pc /\ tx'[q].snap = tx[q].snap
    BY <2>1 DEF TypeOK, Requests
  <2> QED
    BY <1>2, <2>1, <2>2 DEF At
<1>14. CASE Unban \/ Tick \/ UNCHANGED vars
  BY <1>1, <1>14 DEF Unban, Tick, vars, table, At
<1>15. ASSUME NEW r \in Tx, Serve(r)
       PROVE  Grown /\ (Calm \/ \E s \in Sid \cup {None}, t \in 0..now :
                           /\ RefreshReuse(r, s, t) /\ UNCHANGED <<now, table>>
                           /\ \A q \in Tx : q # r => tx'[q] = tx[q])
  <2>1. CASE Refresh(r)
    BY <1>7, <1>9, <1>10, <1>11, <2>1 DEF Refresh
  <2> QED
    BY <1>8, <1>11, <1>12, <1>15, <1>13, <2>1 DEF Serve, LockRow
<1>16. Grown
  BY <1>6, <1>11, <1>12, <1>14, <1>15 DEF Next
<1>17. Calm \/ \E r \in Tx, s \in Sid \cup {None}, t \in 0..now :
                  /\ RefreshReuse(r, s, t) /\ UNCHANGED <<now, table>>
                  /\ \A q \in Tx : q # r => tx'[q] = tx[q]
  <2>1. CASE Unban \/ Tick \/ UNCHANGED vars
    BY <2>1 DEF Unban, Tick, vars, At
  <2> QED
    BY <1>6, <1>11, <1>12, <1>15, <2>1 DEF Next
<1> QED
  BY <1>16, <1>17 DEF At

LEMMA ReuseTakesNothingStep ==
  ASSUME 2 * Latency < Grace, CookiesInv, ReuseTakesNothing, [CookiesNext]_allVars
  PROVE  ReuseTakesNothing'
<1> USE DEF CookiesInv
<1>1. [Next]_vars
  BY IsATableStep DEF CookiesTypeOK, allVars
<1>2. dropped \subseteq dropped'
  BY DEF CookiesNext, Visit, BrowserSignsIn, BrowserSignsOut, BrowserSignsOutEverywhere,
         Deliver, Lose, Misses, AdminBans, AdminAnswered, AccessExpires, ClockTicks,
         browserVars, allVars
<1>3. ASSUME NEW r \in Tx, At(r, "reusing")' PROVE mail'[r] = mail[r]
  <2>1. ASSUME NEW q \in Tx, NEW b \in Browser, Deliver(b, q) \/ Lose(b, q)
        PROVE  mail'[r] = mail[r]
    <3>1. tx' = [tx EXCEPT ![q] = Idle] /\ mail' = [mail EXCEPT ![q] = NoMail]
      BY <2>1 DEF Deliver, Lose, Finish
    <3>2. q # r
      BY <1>3, <3>1 DEF CookiesTypeOK, TypeOK, At, Idle, Entry
    <3> QED
      BY <3>1, <3>2 DEF CookiesTypeOK
  <2>2. ASSUME NEW q \in Tx, NEW b \in Browser,
               \/ \E v \in Doors : Visit(b, q, v)
               \/ BrowserSignsIn(b, q) \/ BrowserSignsOut(b, q)
               \/ BrowserSignsOutEverywhere(b, q)
        PROVE  mail'[r] = mail[r]
    <3>1. \E v : Sends(b, q, v)
      BY <2>2 DEF Visit, BrowserSignsIn, BrowserSignsOut, BrowserSignsOutEverywhere
    <3>2. tx'[q].pc # "reusing"
      <4>1. ASSUME NEW state, NEW token, NEW t, Arrive(q, state, token, t),
                   state # "reusing"
            PROVE  tx'[q].pc # "reusing"
        BY <4>1 DEF Arrive, Entry, CookiesTypeOK, TypeOK
      <4>2. CASE BrowserSignsOutEverywhere(b, q)
        BY <4>2 DEF BrowserSignsOutEverywhere, BeginRevokeAll, Condemn, Entry, CookiesTypeOK,
                    TypeOK
      <4>3. CASE BrowserSignsIn(b, q)
        BY <4>1, <4>3 DEF BrowserSignsIn, BeginLogin
      <4>4. CASE BrowserSignsOut(b, q)
        BY <4>1, <4>4 DEF BrowserSignsOut, BeginLogout
      <4>5. ASSUME NEW v, Visit(b, q, v) PROVE tx'[q].pc # "reusing"
        BY <4>1, <4>5 DEF Visit, BeginRefresh
      <4> QED
        BY <2>2, <4>2, <4>3, <4>4, <4>5
    <3>3. q # r
      BY <1>3, <3>2 DEF At
    <3> QED
      BY <3>1, <3>3 DEF CookiesTypeOK, Sends
  <2> QED
    BY <2>1, <2>2
    DEF CookiesNext, AdminBans, AdminAnswered, AccessExpires, ClockTicks, allVars
<1>4. SUFFICES ASSUME NEW b \in Browser \ dropped, NEW r \in Tx, mail[r].by = b,
                      At(r, "reusing")', NEW s \in tx'[r].snap
               PROVE  s \in rows' /\ expiresAt'[s] <= now'
  BY <1>2, <1>3 DEF ReuseTakesNothing, Expired
<1>5. /\ rows \subseteq rows' /\ now <= now' /\ now \in Nat /\ now' \in Nat
      /\ \A x \in rows : expiresAt'[x] = expiresAt[x] /\ expiresAt[x] \in Nat
  <2>1. now' \in Nat
    BY <1>1, NextInv, TimeAssumption DEF Inv, TypeOK
  <2> QED
    BY <1>1, <2>1, TableGrows, TimeAssumption DEF CookiesTypeOK, TypeOK
<1>6. s \in rows /\ expiresAt[s] <= now
  <2>1. CASE At(r, "reusing") /\ tx'[r].snap = tx[r].snap
    BY <1>4, <2>1 DEF ReuseTakesNothing, Expired
  <2>2. ASSUME NEW x \in Sid \cup {None}, NEW t \in 0..now, RefreshReuse(r, x, t)
        PROVE  s \in rows /\ expiresAt[s] <= now
    <3>1. tx'[r].snap = {m \in Members(familyId[x]) : Live(m)}
      BY <2>2 DEF RefreshReuse, Entry, CookiesTypeOK, TypeOK
    <3> QED
      BY <1>4, <2>2, <3>1, InTime DEF Expired
  <2> QED
    BY <1>1, <1>4, <2>1, <2>2, TableGrows
<1> QED
  BY <1>5, <1>6
-----------------------------------------------------------------------------
LEMMA InitCookiesInv == CookiesInit => CookiesInv /\ ReuseTakesNothing
<1> SUFFICES ASSUME CookiesInit PROVE CookiesInv /\ ReuseTakesNothing
  OBVIOUS
<1>1. Inv
  BY InitInv DEF CookiesInit
<1>2. \A r \in Tx : tx[r].pc = "idle" /\ ~tx[r].issue /\ tx[r].token = None
  BY DEF CookiesInit, Init, Idle, Entry
<1>3. /\ \A b \in Browser : jar[b] = None
      /\ \A r \in Tx : mail[r].by = None
  BY DEF CookiesInit, NoMail
<1>4. NoMail \in [by : Browser \cup {None}, visit : {"page", "/auth", "/panel"},
                  sent : 0..MaxTime]
  BY ZeroIsATime DEF NoMail
<1>5. CookiesTypeOK
  BY <1>1, <1>4 DEF CookiesInit, CookiesTypeOK, Inv
<1>6. MailIsSound
  BY <1>2, <1>3 DEF MailIsSound
<1>7. TokensAreOwned
  BY <1>3, BrowserAssumption DEF TokensAreOwned, Has
<1>8. HeirsAreUnseen /\ JarsAreFollowed /\ OneTokenIsOut /\ LateOnesRace /\ ReuseTakesNothing
  BY <1>2, <1>3
  DEF HeirsAreUnseen, JarsAreFollowed, OneTokenIsOut, LateOnesRace, ReuseTakesNothing,
      Carrying, At
<1> QED
  BY <1>1, <1>5, <1>6, <1>7, <1>8 DEF CookiesInv

(* The invariant of the cookies, for any window.                           *)
THEOREM CookiesInvariance == CookiesSpec => []CookiesInv
<1>1. CookiesInv /\ [CookiesNext]_allVars => CookiesInv'
  BY CookiesStep
<1> QED
  BY InitCookiesInv, <1>1, PTL DEF CookiesSpec

(* A browser at rest that missed no answer holds the newest token of its   *)
(* sign-in, whatever the order in which answers of its tabs arrived.       *)
THEOREM JarsHoldTips == CookiesSpec => []JarHoldsTip
<1>1. CookiesInv => JarHoldsTip
  <2> SUFFICES ASSUME CookiesInv, NEW b \in Browser \ dropped, InFlight(b) = {},
                      jar[b] # None, Rotated(jar[b])
               PROVE  FALSE
    BY DEF JarHoldsTip
  <2> QED
    BY DEF CookiesInv, JarsAreFollowed, InFlight
<1> QED
  BY <1>1, CookiesInvariance, PTL

(* If the grace window is longer than two journeys, a browser that missed  *)
(* no answer is never taken for a thief (session.ts:91-94).                *)
THEOREM NoHonestThief ==
  ASSUME 2 * Latency < Grace
  PROVE  CookiesSpec => []ReuseOnlyAfterDrop
<1>1. CookiesInv /\ ReuseTakesNothing /\ [CookiesNext]_allVars => ReuseTakesNothing'
  BY ReuseTakesNothingStep
<1>2. CookiesInv /\ ReuseTakesNothing => ReuseOnlyAfterDrop
  BY DEF ReuseTakesNothing, ReuseOnlyAfterDrop, KillsSession
<1> QED
  BY InitCookiesInv, CookiesInvariance, <1>1, <1>2, PTL DEF CookiesSpec

(* The behaviours of the browsers are behaviours of the table, and so what *)
(* is proved of the table holds in front of them as well.                  *)
THEOREM CookiesImplementTable == CookiesSpec => Spec
<1>1. CookiesInit => Init
  BY DEF CookiesInit
<1>2. CookiesInv /\ [CookiesNext]_allVars => [Next]_vars
  BY IsATableStep DEF CookiesInv, CookiesTypeOK, allVars
<1> QED
  BY CookiesInvariance, <1>1, <1>2, PTL DEF CookiesSpec, Spec

(* What browsers present, and which answers they miss, changes nothing for  *)
(* the table: the guarantees of a sign-in hold with any number of them.     *)
THEOREM BrowsersKeepSignIns ==
  CookiesSpec => ImplementsLoginFamily /\ RevokedOnce /\ [](OneTipPerFamily /\ ChainIsSound)
<1> QED
  BY CookiesImplementTable, Refinement, RevocationIsFinal, SingleTip, SoundChains, PTL
=============================================================================
