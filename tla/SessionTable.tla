---------------------------- MODULE SessionTable ----------------------------
(***************************************************************************)
(* The sessions table of one user and the server-side operations on it     *)
(* (lib/auth/session.ts and the routes that call it), as Postgres runs     *)
(* them: READ COMMITTED, every statement on its own snapshot, row locks    *)
(* held to the end of the transaction.                                     *)
(*                                                                         *)
(* A row stands for its refresh token: the hash is a key of the table and  *)
(* the raw value is never stored, so "the token of row s" is s.  Every     *)
(* query of the code names a hash, an id, a family or a user; rows of      *)
(* other users are never touched and one user is enough.                   *)
(*                                                                         *)
(* now() is the moment a transaction began, which lies somewhere between   *)
(* the arrival of its request and the moment it gets the row it waits for. *)
(***************************************************************************)
EXTENDS Integers, FiniteSets

CONSTANTS Sid,      \* session ids there may ever be
          Tx,       \* server-side requests that may be in flight together
          None,     \* SQL null
          Grace,    \* ROTATION_GRACE_SECONDS
          Ttl,      \* refreshTtlSeconds()
          MaxTime   \* bound on the clock

ASSUME NoneAssumption == None \notin Sid /\ None \notin Int
ASSUME TimeAssumption == Grace \in Nat /\ Ttl \in Nat /\ MaxTime \in Nat

VARIABLES now,        \* the clock
          rows,       \* ids of the committed rows
          familyId, rotatedTo, revokedAt, expiresAt,   \* columns, by id
          isBanned,   \* users.is_banned
          tx          \* the request in flight, by Tx

table == <<rows, familyId, rotatedTo, revokedAt, expiresAt>>
vars == <<now, table, isBanned, tx>>

(* Where a request stands.  "rotating" and "reusing" hold the FOR UPDATE   *)
(* lock of the row they were presented; "reusing" and "revokeAll" are in   *)
(* an UPDATE of many rows, and hold the ones it has come to; the answers   *)
(* are what the caller gets to see.                                        *)
Running == {"refresh", "rotating", "racing", "reusing",
            "logout", "login", "banned", "revokeAll"}
Updating == {"reusing", "revokeAll"}
Answer == {"none", "rotated", "race", "reuse", "failed",
           "loggedOut", "issued", "revoked"}

Entry(state, token, heir, snap, issue, since) ==
  [pc |-> state, token |-> token, heir |-> heir, snap |-> snap,
   held |-> {}, issue |-> issue, since |-> since]
Idle == Entry("idle", None, None, {}, FALSE, 0)

Requests == [pc    : {"idle"} \cup Running \cup Answer,
             token : Sid \cup {None},
             heir  : Sid \cup {None},
             snap  : SUBSET Sid,   \* the rows its UPDATE names
             held  : SUBSET Sid,   \* those of them it has locked
             issue : BOOLEAN,
             since : 0..MaxTime]

TypeOK ==
  /\ now \in 0..MaxTime
  /\ rows \subseteq Sid
  /\ familyId  \in [Sid -> Sid \cup {None}]
  /\ rotatedTo \in [Sid -> Sid \cup {None}]
  /\ revokedAt \in [Sid -> (0..MaxTime) \cup {None}]
  /\ expiresAt \in [Sid -> 0..(MaxTime + Ttl)]
  /\ isBanned \in BOOLEAN
  /\ tx \in [Tx -> Requests]

Init ==
  /\ now = 0
  /\ rows = {}
  /\ familyId  = [s \in Sid |-> None]
  /\ rotatedTo = [s \in Sid |-> None]
  /\ revokedAt = [s \in Sid |-> None]
  /\ expiresAt = [s \in Sid |-> 0]
  /\ isBanned = FALSE
  /\ tx = [r \in Tx |-> Idle]
-----------------------------------------------------------------------------
(* Reading the table.                                                      *)

Revoked(s) == revokedAt[s] # None
Rotated(s) == rotatedTo[s] # None
Expired(s, t) == expiresAt[s] <= t
Live(s) == s \in rows /\ ~Revoked(s)
Members(f) == {s \in rows : familyId[s] = f}
At(r, state) == tx[r].pc = state

\* Mutant: no grace window, every burnt token is reuse.
NoGrace(s, t) == FALSE

(* recently_rotated and the look at the heir, with now() = t               *)
HarmlessRace(s, t) == /\ revokedAt[s] + Grace > t
                      /\ Live(rotatedTo[s])
                      /\ ~Expired(rotatedTo[s], t)

\* Mutant: the branch of the harmless race never ends its transaction.
HoldsOn(q, s) == \/ tx[q].pc \in {"rotating", "reusing"} /\ tx[q].token = s
                 \/ s \in tx[q].held
                 \/ At(q, "race") /\ s \in rows /\ rotatedTo[s] = tx[q].heir

(* Row locks, held to the end of the transaction.                          *)
Holds(q, s) == \/ tx[q].pc \in {"rotating", "reusing"} /\ tx[q].token = s
               \/ s \in tx[q].held
Free(s) == \A q \in Tx : ~Holds(q, s)

(* gen_random_uuid(): an id that no row and no open insert uses            *)
Fresh == {s \in Sid \ rows : \A q \in Tx : tx[q].heir # s}

\* Mutant: the condition is forgotten, and burnt rows are stamped again.
RevokeAgain(S) == revokedAt' = [s \in Sid |-> IF s \in S THEN now ELSE revokedAt[s]]

(* One UPDATE ... where revoked_at is null.  The rows are picked on the    *)
(* statement's snapshot; each is locked, and then the condition is         *)
(* evaluated again, so a row revoked meanwhile keeps its revoked_at.       *)
Revoke(S) ==
  revokedAt' = [s \in Sid |-> IF s \in S /\ Live(s) THEN now ELSE revokedAt[s]]

(* The end of a request; an answer may carry the id of a session.          *)
Answers(r, a, h) == tx' = [tx EXCEPT ![r] = Entry(a, None, h, {}, FALSE, 0)]
-----------------------------------------------------------------------------
(* Refreshing.                                                             *)

(* A request arrives and presents a token, known or not.                   *)
Arrive(r, state, s, t) ==
  /\ At(r, "idle")
  /\ tx' = [tx EXCEPT ![r] = Entry(state, s, None, {}, FALSE, t)]
  /\ UNCHANGED <<now, table, isBanned>>

BeginRefresh(r, s) == s \in rows \cup {None} /\ Arrive(r, "refresh", s, now)

\* Mutant: a plain select, without for update.
ReadsUnlocked(r, s, t) == At(r, "refresh") /\ tx[r].token = s /\ t \in tx[r].since..now

(* select ... for update: waits for the row, then sees it as committed.    *)
(* now() was read on the way.                                              *)
Reads(r, s, t) == /\ At(r, "refresh")
                  /\ tx[r].token = s
                  /\ t \in tx[r].since..now
                  /\ s \in rows => Free(s)

(* Unknown, signed out, expired or banned: "sign in again".                *)
RefreshNone(r, s, t) ==
  /\ Reads(r, s, t)
  /\ \/ s \notin rows
     \/ /\ s \in rows /\ ~Rotated(s)
        /\ Revoked(s) \/ Expired(s, t) \/ isBanned
  /\ Answers(r, "none", None)
  /\ UNCHANGED <<now, table, isBanned>>

\* Mutant: revoked_at is not looked at.
RefreshRotateRevoked(r, s, t) ==
  /\ Reads(r, s, t)
  /\ s \in rows
  /\ ~Rotated(s) /\ ~Expired(s, t) /\ ~isBanned
  /\ \E h \in Fresh : tx' = [tx EXCEPT ![r] = Entry("rotating", s, h, {}, FALSE, t)]
  /\ UNCHANGED <<now, table, isBanned>>

(* The normal case: the heir is inserted and the row updated, neither      *)
(* visible to anyone before the commit.                                    *)
RefreshRotate(r, s, t) ==
  /\ Reads(r, s, t)
  /\ s \in rows
  /\ ~Rotated(s) /\ ~Revoked(s) /\ ~Expired(s, t) /\ ~isBanned
  /\ \E h \in Fresh :
       tx' = [tx EXCEPT ![r] = Entry("rotating", s, h, {}, FALSE, t)]
  /\ UNCHANGED <<now, table, isBanned>>

\* Mutant: the heir gets thirty days of its own.
RefreshCommitRenewed(r) ==
  LET s == tx[r].token
      h == tx[r].heir
  IN /\ At(r, "rotating")
     /\ rows' = rows \cup {h}
     /\ familyId'  = [familyId  EXCEPT ![h] = familyId[s]]
     /\ expiresAt' = [expiresAt EXCEPT ![h] = now + Ttl]
     /\ rotatedTo' = [rotatedTo EXCEPT ![s] = h]
     /\ revokedAt' = [revokedAt EXCEPT ![s] = tx[r].since]
     /\ Answers(r, "rotated", h)
     /\ UNCHANGED <<now, isBanned>>

RefreshCommit(r) ==
  LET s == tx[r].token
      h == tx[r].heir
  IN /\ At(r, "rotating")
     /\ rows' = rows \cup {h}
     /\ familyId'  = [familyId  EXCEPT ![h] = familyId[s]]
     /\ expiresAt' = [expiresAt EXCEPT ![h] = expiresAt[s]]
     /\ rotatedTo' = [rotatedTo EXCEPT ![s] = h]
     /\ revokedAt' = [revokedAt EXCEPT ![s] = tx[r].since]
     /\ Answers(r, "rotated", h)
     /\ UNCHANGED <<now, isBanned>>

(* Rotated a moment ago and the heir is alive: the harmless race of two    *)
(* requests with one cookie.  The transaction ends here.                   *)
RefreshRace(r, s, t) ==
  /\ Reads(r, s, t)
  /\ s \in rows /\ Rotated(s) /\ HarmlessRace(s, t)
  /\ tx' = [tx EXCEPT ![r] = Entry("racing", None, rotatedTo[s], {}, FALSE, 0)]
  /\ UNCHANGED <<now, table, isBanned>>

(* The user is read again outside the transaction.                         *)
RaceAnswer(r) ==
  /\ At(r, "racing")
  /\ IF isBanned THEN Answers(r, "none", None) ELSE Answers(r, "race", tx[r].heir)
  /\ UNCHANGED <<now, table, isBanned>>

\* Mutant: the update names burnt rows as well.
RefreshReuseAll(r, s, t) ==
  /\ Reads(r, s, t)
  /\ s \in rows /\ Rotated(s) /\ ~HarmlessRace(s, t)
  /\ tx' = [tx EXCEPT ![r] = Entry("reusing", s, None, Members(familyId[s]), FALSE, 0)]
  /\ UNCHANGED <<now, table, isBanned>>

(* Otherwise a burnt token is being used again: the family goes.           *)
RefreshReuse(r, s, t) ==
  /\ Reads(r, s, t)
  /\ s \in rows /\ Rotated(s) /\ ~HarmlessRace(s, t)
  /\ LET open == {m \in Members(familyId[s]) : Live(m)}
     IN tx' = [tx EXCEPT ![r] = Entry("reusing", s, None, open, FALSE, 0)]
  /\ UNCHANGED <<now, table, isBanned>>

(* The UPDATE takes its rows one after the other, in an order SQL leaves   *)
(* open, waits for each, and lets go of none before the commit.            *)
LocksRow(r, s) ==
  /\ tx[r].pc \in Updating
  /\ s \in tx[r].snap \ tx[r].held
  /\ \A q \in Tx \ {r} : ~Holds(q, s)
  /\ tx' = [tx EXCEPT ![r].held = @ \cup {s}]
  /\ UNCHANGED <<now, table, isBanned>>
LockRow(r) == \E s \in Sid : LocksRow(r, s)

UpdateDone(r) == tx[r].snap \subseteq tx[r].held

ReuseCommit(r) ==
  /\ At(r, "reusing")
  /\ UpdateDone(r)
  /\ Revoke(tx[r].snap)
  /\ Answers(r, "reuse", None)
  /\ UNCHANGED <<now, rows, familyId, rotatedTo, expiresAt, isBanned>>

-----------------------------------------------------------------------------
(* Signing in and out.                                                     *)

(* The user row is read and the password verified; the session is inserted *)
(* in a later statement, whatever happened in between.                     *)
BeginLogin(r) == ~isBanned /\ Arrive(r, "login", None, 0)

CreateSession(r) ==
  /\ At(r, "login")
  /\ \E h \in Fresh :
       /\ rows' = rows \cup {h}
       /\ familyId'  = [familyId  EXCEPT ![h] = h]
       /\ expiresAt' = [expiresAt EXCEPT ![h] = now + Ttl]
       /\ Answers(r, "issued", h)
  /\ UNCHANGED <<now, rotatedTo, revokedAt, isBanned>>

BeginLogout(r, s) == s \in rows \cup {None} /\ Arrive(r, "logout", s, 0)

(* One UPDATE of one row, which a lock makes wait.                         *)
Logout(r) ==
  /\ At(r, "logout")
  /\ tx[r].token \in rows => Free(tx[r].token)
  /\ Revoke({tx[r].token})
  /\ Answers(r, "loggedOut", None)
  /\ UNCHANGED <<now, rows, familyId, rotatedTo, expiresAt, isBanned>>

(* A failing UPDATE is logged and the answer is the same.                  *)
LogoutFail(r) ==
  /\ At(r, "logout")
  /\ Answers(r, "loggedOut", None)
  /\ UNCHANGED <<now, table, isBanned>>

(* revokeAllSessions, called by change-password, reset-password and        *)
(* "sign out everywhere" (which then create a session) and by a ban.       *)
Condemn(r, issue) ==
  LET open == {s \in rows : Live(s)}
  IN tx' = [tx EXCEPT ![r] = Entry("revokeAll", None, None, open, issue, 0)]

BeginRevokeAll(r) ==
  /\ At(r, "idle")
  /\ Condemn(r, TRUE)
  /\ UNCHANGED <<now, table, isBanned>>

RevokeAll(r) ==
  /\ At(r, "revokeAll")
  /\ UpdateDone(r)
  /\ Revoke(tx[r].snap)
  /\ Answers(r, IF tx[r].issue THEN "login" ELSE "revoked", None)
  /\ UNCHANGED <<now, rows, familyId, rotatedTo, expiresAt, isBanned>>

(* adminSetUserBanned: the flag first, the sessions in a later statement.  *)
Ban(r) ==
  /\ At(r, "idle")
  /\ isBanned' = TRUE
  /\ tx' = [tx EXCEPT ![r] = Entry("banned", None, None, {}, FALSE, 0)]
  /\ UNCHANGED <<now, table>>

BeginBanRevoke(r) ==
  /\ At(r, "banned")
  /\ Condemn(r, FALSE)
  /\ UNCHANGED <<now, table, isBanned>>

Unban == isBanned /\ isBanned' = FALSE /\ UNCHANGED <<now, table, tx>>

(* A limiter's 429, a lost connection, a failing statement, Postgres's     *)
(* victim of a deadlock: the open transaction rolls back, the error is     *)
(* caught by proxy.ts or handleError, and what earlier statements          *)
(* committed stays.                                                        *)
Fail(r) ==
  /\ tx[r].pc \in Running \ {"logout"}
  /\ Answers(r, "failed", None)
  /\ UNCHANGED <<now, table, isBanned>>
-----------------------------------------------------------------------------
(* The answer has left the server.                                         *)
Finish(r) == /\ tx[r].pc \in Answer
             /\ tx' = [tx EXCEPT ![r] = Idle]
             /\ UNCHANGED <<now, table, isBanned>>

Tick == now < MaxTime /\ now' = now + 1 /\ UNCHANGED <<table, isBanned, tx>>

Refresh(r) == \/ \E s \in Sid \cup {None}, t \in 0..now :
                   \/ RefreshNone(r, s, t) \/ RefreshRotate(r, s, t)
                   \/ RefreshRace(r, s, t) \/ RefreshReuse(r, s, t)
              \/ RefreshCommit(r) \/ RaceAnswer(r) \/ ReuseCommit(r)

(* What the server does of its own accord once a request is in.            *)
Serve(r) == \/ Refresh(r) \/ CreateSession(r) \/ Logout(r)
            \/ LockRow(r) \/ RevokeAll(r) \/ BeginBanRevoke(r)

Request(r) == \/ \E s \in Sid \cup {None} : BeginRefresh(r, s) \/ BeginLogout(r, s)
              \/ BeginLogin(r) \/ BeginRevokeAll(r) \/ Ban(r)

Next == \/ \E r \in Tx : Request(r) \/ Serve(r) \/ Finish(r) \/ Fail(r) \/ LogoutFail(r)
        \/ Unban \/ Tick

-----------------------------------------------------------------------------
(* Requests that wait for each other.                                      *)

(* q can go on only when p has ended.                                      *)
Awaits(q, p) ==
  /\ q # p
  /\ \/ tx[q].pc \in {"refresh", "logout"} /\ Holds(p, tx[q].token)
     \/ tx[q].pc \in Updating /\ \E s \in tx[q].snap \ tx[q].held : Holds(p, s)

(* Nobody in S can go on before somebody else in S does.                   *)
Stuck(S) == S # {} /\ \A q \in S : \E p \in S : Awaits(q, p)
Circle(S) == Stuck(S) /\ \A P \in SUBSET S : Stuck(P) => P = S

(* deadlock_timeout has passed and Postgres's detector finds a circle: one *)
(* of those in it gets an error.                                           *)
BreakDeadlock(r) == /\ \E S \in SUBSET Tx : r \in S /\ Circle(S)
                    /\ Fail(r)

(* Postgres and the event loop go on with every request they have taken,   *)
(* and a row lock is handed out in the order it was asked for, so that a   *)
(* request that waits gets it, unless it waits in a circle: no circle      *)
(* lasts.  Other failures, and users, owe the server nothing.              *)
Fairness == \A r \in Tx : SF_vars(Serve(r) \/ BreakDeadlock(r))

Spec == Init /\ [][Next]_vars
FairSpec == Spec /\ Fairness
-----------------------------------------------------------------------------
(* Properties.                                                             *)

(* "Otherwise both see the row as not rotated and make two parallel        *)
(* chains" (session.ts:118): the rows of one sign-in have at most one that *)
(* has not been rotated away, and so at most one usable token.             *)
OneTipPerFamily ==
  \A s, q \in rows : familyId[s] = familyId[q] /\ ~Rotated(s) /\ ~Rotated(q)
                      => s = q

(* A burnt token leads to exactly the sign-in it came from: its heir is a  *)
(* row of the same family with the same deadline, heir of nobody else, and *)
(* the burnt row itself is revoked.                                        *)
ChainIsSound ==
  \A s \in rows : Rotated(s) =>
     /\ Revoked(s)
     /\ rotatedTo[s] \in rows
     /\ familyId[rotatedTo[s]] = familyId[s]
     /\ expiresAt[rotatedTo[s]] = expiresAt[s]
     /\ \A q \in rows : rotatedTo[q] = rotatedTo[s] => q = s

(* revoked_at is written once.  Every "and revoked_at is null" of          *)
(* session.ts is there for it: a sign-out that repeats, or arrives after   *)
(* the rotation, must not restart the grace window of a burnt token.       *)
RevokedOnce == [][\A s \in Sid : Revoked(s) => revokedAt'[s] = revokedAt[s]]_vars

(* Why the two hold: what is true of a row before it is committed, of the  *)
(* rows a waiting UPDATE has picked, and of the lock of a rotation, whose  *)
(* row nobody revokes or rotates until it commits.                         *)
RowsAreSound ==
  /\ \A s \in rows : familyId[s] \in rows
  /\ \A s \in Sid \ rows : ~Rotated(s) /\ ~Revoked(s)

RequestsAreSound ==
  /\ \A r \in Tx : At(r, "rotating") =>
        /\ tx[r].token \in rows /\ ~Rotated(tx[r].token) /\ ~Revoked(tx[r].token)
        /\ tx[r].heir \in Sid \ rows
  /\ \A r \in Tx : At(r, "reusing") => tx[r].token \in rows /\ Rotated(tx[r].token)
  /\ \A r, q \in Tx : At(r, "rotating") /\ At(q, "rotating") /\ r # q =>
        tx[r].token # tx[q].token /\ tx[r].heir # tx[q].heir
  /\ \A r, q \in Tx : At(r, "rotating") /\ r # q => tx[r].token \notin tx[q].held

Inv == /\ TypeOK
       /\ RowsAreSound
       /\ RequestsAreSound
       /\ ChainIsSound
       /\ OneTipPerFamily

(* Refreshes, the reuse detection and sign-outs never deadlock: their      *)
(* UPDATEs have one row to wait for, and of one family's row locks each    *)
(* leads to a newer row.  Only requests to revoke everything can, which    *)
(* name rows of many families (session.ts:165-168, 288-292), and it takes  *)
(* two of them.                                                            *)
OnlyRevocationsDeadlock ==
  \A S \in SUBSET Tx : Circle(S) =>
    \E q, p \in S : q # p /\ At(q, "revokeAll") /\ At(p, "revokeAll")

(* Whatever is presented and however the requests interleave, every        *)
(* request is answered, if only with an error: no transaction ends without *)
(* letting go of its rows, and nobody waits for one that never ends.  (Out *)
(* of ids, a bound of the model, nobody can insert.)                       *)
EveryRequestAnswered ==
  \A r \in Tx : tx[r].pc \in Running ~>
     tx[r].pc \in Answer \/ (tx[r].pc \in {"refresh", "login"} /\ Fresh = {})

(* The table implements LoginFamily: a family is open while one of its     *)
(* rows is not revoked.                                                    *)
StatusOf(f) == IF \E s \in Members(f) : Live(s) THEN "open"
               ELSE IF Members(f) = {} THEN "unborn" ELSE "closed"
DeadlinesOf(f) == {expiresAt[s] : s \in Members(f)}

Families == INSTANCE LoginFamily
  WITH Family <- Sid, Deadline <- 0..(MaxTime + Ttl),
       status <- [f \in Sid |-> StatusOf(f)],
       deadlines <- [f \in Sid |-> DeadlinesOf(f)]

ImplementsLoginFamily == Families!Spec
-----------------------------------------------------------------------------
(* A claim of the repository's comments that the code does not keep.       *)

(* "Called after a password change, a reset and a ban: the three places    *)
(* where everyone who is signed in now has to go out" (session.ts:282-287).*)
(* When revokeAllSessions is done, no sign-in that was open when it began  *)
(* is still open.                                                          *)
NobodyStaysSignedIn ==
  [][\A r \in Tx : At(r, "revokeAll") /\ tx'[r].pc \in {"login", "revoked"} =>
        \A s \in tx[r].snap : StatusOf(familyId[s])' = "closed"]_vars
=============================================================================
