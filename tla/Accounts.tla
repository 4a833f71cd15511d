------------------------------ MODULE Accounts ------------------------------
(***************************************************************************)
(* The users table and whoever writes it: registration, the sign-ins by    *)
(* password and by Google, change-password, forgot-password and            *)
(* reset-password, and the administrators of lib/admin/user-actions.ts.    *)
(* Every statement is a transaction of its own unless transaction() says   *)
(* otherwise, so between two steps of a request the others may do anything.*)
(*                                                                         *)
(* A user is an address.  An era of a user ends when everybody who is      *)
(* signed in has to go out: with a new password, a ban or at his own wish. *)
(* A session is known by the era in which the right to it was read.  How   *)
(* it is rotated is the subject of SessionTable: here the rows of a user   *)
(* are only inserted, revoked and, one at a time, ended.                   *)
(***************************************************************************)
EXTENDS Naturals, FiniteSets

CONSTANTS Users,
          Links,      \* rows of password_resets there may ever be
          Visitors,   \* requests that may be in flight together
          Nobody,
          MaxEra,     \* bound of the model: eras of a user
          MaxVisits   \* bound of the model: requests in all

ASSUME AccountsAssumption ==
    /\ Nobody \notin Users /\ Nobody \notin Links
    /\ MaxEra \in Nat /\ MaxVisits \in Nat

VARIABLES account,    \* the row of a user, and whether Google knows him
          era,        \* history: the era of a user
          live,       \* sessions that are not revoked, by era
          link,       \* password_resets; saw: history, the older links that
                      \* were there when this one's request voided them
          visitor,    \* the request in flight
          visits,     \* how many there were
          cleared,      \* history: no session of an older era is live any more
          stale       \* history: somebody used a right of an administrator
                      \* that he no longer had

accountsVars == <<account, era, live, link, visitor, visits, cleared, stale>>

Eras   == 0..MaxEra
Roles  == {"student", "admin"}
Deeds  == {"promote", "demote", "ban", "unban", "delete"}

\* Where a request waits: for which of its statements.
SigningIn  == {"signing", "linking"}
Statements == SigningIn \cup {"creating", "changing", "revoking", "voiding",
                              "inserting", "looking", "counting", "acting"}

Rest    == [pc |-> "rest", who |-> Nobody, by |-> Nobody, deed |-> "none",
            seen |-> 0, saw |-> {}]
NoUser  == [st |-> "none", role |-> "student", banned |-> FALSE,
            password |-> FALSE, google |-> FALSE]
NoLink  == [st |-> "none", who |-> Nobody, saw |-> {}]
Dead    == [NoLink EXCEPT !.st = "dead"]     \* used up, voided or expired

Exists(u)  == account[u].st = "here"
Welcome(u) == Exists(u) /\ ~account[u].banned
Admins     == {u \in Users : Exists(u) /\ account[u].role = "admin"}
Rulers     == {u \in Admins : ~account[u].banned}   \* whom requireAdmin lets in
OpenLinks(u) == {l \in Links : link[l].st = "open" /\ link[l].who = u}

Stands(r, pc)  == visitor[r].pc = pc
Rests(r)   == visitor' = [visitor EXCEPT ![r] = Rest]
Moves(r, pc) == visitor' = [visitor EXCEPT ![r].pc = pc]
Arrives(r) == Stands(r, "rest") /\ visits < MaxVisits /\ visits' = visits + 1
Comes(r, pc, u) ==
    /\ Arrives(r)
    /\ visitor' = [visitor EXCEPT ![r] = [Rest EXCEPT
          !.pc = pc, !.who = u, !.seen = IF pc \in SigningIn THEN era[u] ELSE 0]]

\* The site begins with the administrators of scripts/seed-admin.mjs.
AccountsInit ==
    /\ \E seeds \in (SUBSET Users) \ {{}} :
        account = [u \in Users |-> IF u \in seeds
                    THEN [NoUser EXCEPT !.st = "here", !.role = "admin", !.password = TRUE]
                    ELSE NoUser]
    /\ era = [u \in Users |-> 0]
    /\ live = [u \in Users |-> {}]
    /\ link = [l \in Links |-> NoLink]
    /\ visitor = [r \in Visitors |-> Rest]
    /\ visits = 0
    /\ cleared = [u \in Users |-> 0]
    /\ stale = FALSE

-----------------------------------------------------------------------------
(* Signing in.                                                             *)

\* The right password, compared with the hash that was read before; a user
\* that only Google knows has none.
Login(r, u) ==
    /\ Welcome(u) /\ account[u].password
    /\ Comes(r, "signing", u)
    /\ UNCHANGED <<account, era, live, link, cleared, stale>>

\* insert ... on conflict (email) do nothing: the index is the judge.
Register(r, u) ==
    /\ account[u].st = "none"
    /\ account' = [account EXCEPT ![u] = [NoUser EXCEPT !.st = "here", !.password = TRUE]]
    /\ Comes(r, "signing", u)
    /\ UNCHANGED <<era, live, link, cleared, stale>>

\* The callback of Google: a known identity; a user with the address that
\* Google has verified; nobody.
GoogleFinds(r, u) ==
    /\ \/ Welcome(u) /\ account[u].google /\ Comes(r, "signing", u)
       \/ Welcome(u) /\ ~account[u].google /\ Comes(r, "linking", u)
       \/ account[u].st = "none" /\ Comes(r, "creating", u)
    /\ UNCHANGED <<account, era, live, link, cleared, stale>>

GoogleLinks(r) ==
    LET u == visitor[r].who IN
    /\ Stands(r, "linking") /\ Exists(u)
    /\ account' = [account EXCEPT ![u].google = TRUE]
    /\ Moves(r, "signing")
    /\ UNCHANGED <<visits, era, live, link, cleared, stale>>

\* Mutant: the identity in a statement of its own, after the user.
GoogleCreatesBare(r) ==
    LET u == visitor[r].who IN
    /\ Stands(r, "creating") /\ account[u].st = "none"
    /\ account' = [account EXCEPT ![u] = [NoUser EXCEPT !.st = "here"]]
    /\ Moves(r, "linking")
    /\ UNCHANGED <<visits, era, live, link, cleared, stale>>

\* The user and his identity in one transaction.
GoogleCreates(r) ==
    LET u == visitor[r].who IN
    /\ Stands(r, "creating") /\ account[u].st = "none"
    /\ account' = [account EXCEPT ![u] = [NoUser EXCEPT !.st = "here", !.google = TRUE]]
    /\ Moves(r, "signing")     \* with seen = 0, the era of a new user
    /\ UNCHANGED <<visits, era, live, link, cleared, stale>>

\* createSession, whatever became of the user's row since it was read; of a
\* user who is gone the insert fails.
SignIn(r) ==
    LET u == visitor[r].who IN
    /\ Stands(r, "signing") /\ Exists(u)
    /\ live' = [live EXCEPT ![u] = @ \cup {visitor[r].seen}]
    /\ Rests(r)
    /\ UNCHANGED <<account, visits, era, link, cleared, stale>>

\* The last session of an era is signed out, or has expired.
SignOut(u, e) ==
    /\ e \in live[u]
    /\ live' = [live EXCEPT ![u] = @ \ {e}]
    /\ UNCHANGED <<account, visits, era, link, visitor, cleared, stale>>

-----------------------------------------------------------------------------
(* A new password.                                                         *)

\* requireUser, and the current password, which is compared with what was read.
ChangePassword(r, u) ==
    /\ Welcome(u) /\ account[u].password
    /\ Comes(r, "changing", u)
    /\ UNCHANGED <<account, era, live, link, cleared, stale>>

\* From here on everybody who is signed in has to go out.
NewEra(u) == era[u] < MaxEra /\ era' = [era EXCEPT ![u] = @ + 1]
Revokes(r, u) ==
    visitor' = [visitor EXCEPT ![r] = [@ EXCEPT !.pc = "revoking", !.who = u, !.seen = era'[u]]]

\* DELETE /api/v1/auth/sessions.
SignOutEverywhere(r, u) ==
    /\ Welcome(u)
    /\ Arrives(r)
    /\ NewEra(u)
    /\ Revokes(r, u)
    /\ UNCHANGED <<account, live, link, cleared, stale>>

WritePassword(r) ==
    LET u == visitor[r].who IN
    /\ Stands(r, "changing") /\ Exists(u)
    /\ NewEra(u)
    /\ account' = [account EXCEPT ![u].password = TRUE]
    /\ Revokes(r, u)
    /\ UNCHANGED <<visits, live, link, cleared, stale>>

ForgotPassword(r, u) ==
    /\ Exists(u)
    /\ Comes(r, "voiding", u)
    /\ UNCHANGED <<account, era, live, link, cleared, stale>>

\* Mutant: the condition is turned round, and what is void is voided again.
VoidDeadLinks(r) ==
    /\ Stands(r, "voiding")
    /\ visitor' = [visitor EXCEPT ![r].pc = "inserting",
                                  ![r].saw = {l \in Links : link[l].st # "none"}]
    /\ UNCHANGED <<account, era, live, link, visits, cleared, stale>>

\* "Two open links are two ways in."
VoidLinks(r) ==
    LET u == visitor[r].who IN
    /\ Stands(r, "voiding")
    /\ link' = [l \in Links |-> IF l \in OpenLinks(u) THEN Dead ELSE link[l]]
    /\ visitor' = [visitor EXCEPT ![r].pc = "inserting",
                                  ![r].saw = {l \in Links : link[l].st # "none"}]
    /\ UNCHANGED <<account, visits, era, live, cleared, stale>>

\* A mail that does not arrive is a link that is never used.
InsertLink(r) ==
    LET u == visitor[r].who IN
    /\ Stands(r, "inserting") /\ Exists(u)
    /\ \E l \in Links :
        /\ link[l].st = "none"
        /\ link' = [link EXCEPT ![l] = [st |-> "open", who |-> u, saw |-> visitor[r].saw]]
    /\ Rests(r)
    /\ UNCHANGED <<account, visits, era, live, cleared, stale>>

LinkExpires(l) ==
    /\ link[l].st = "open"
    /\ link' = [link EXCEPT ![l] = Dead]
    /\ UNCHANGED <<account, visits, era, live, visitor, cleared, stale>>

\* The link is used up and the password written in one transaction; the
\* condition is part of the update, so of two requests one gets the row.
ResetPassword(r, l) ==
    LET u == link[l].who IN
    /\ Arrives(r)
    /\ link[l].st = "open"
    /\ link' = [link EXCEPT ![l] = Dead]
    /\ NewEra(u)
    /\ account' = [account EXCEPT ![u].password = TRUE]
    /\ Revokes(r, u)
    /\ UNCHANGED <<live, cleared, stale>>

\* A request that will still sign in with a right it read in an older era.
Overtaken(u, e) ==
    \E q \in Visitors : /\ visitor[q].who = u /\ visitor[q].seen < e
                        /\ visitor[q].pc \in SigningIn \cup {"revoking"}

\* Mutant: only the session of the request itself, whichever that is.
RevokesOne(r) ==
    LET u == visitor[r].who IN
    live' = [live EXCEPT ![u] = @ \ {CHOOSE e \in Eras : live[u] # {} => e \in live[u]}]

\* revokeAllSessions.
RevokesAll(r) == live' = [live EXCEPT ![visitor[r].who] = {}]

\* A ban ends here; the others go on to a session of their own.
RevokeSessions(r) ==
    LET u == visitor[r].who
        e == visitor[r].seen
    IN  /\ Stands(r, "revoking")
        /\ RevokesAll(r)
        /\ cleared' = [cleared EXCEPT ![u] = IF e > @ /\ ~Overtaken(u, e) THEN e ELSE @]
        /\ IF visitor[r].deed = "ban" THEN Rests(r) ELSE Moves(r, "signing")
        /\ UNCHANGED <<account, visits, era, link, stale>>

-----------------------------------------------------------------------------
(* The administrators.                                                     *)

\* Mutant: whoever asks may also mean himself.
AnythingGoes(a, t, deed) == TRUE

\* Nobody takes the role from himself, bans or deletes himself.
Permitted(a, t, deed) == a = t => deed \in {"promote", "unban"}

\* requireAdmin reads the row of whoever asks.
Administer(r, a, t, deed) ==
    /\ a \in Rulers /\ Permitted(a, t, deed)
    /\ Arrives(r)
    /\ visitor' = [visitor EXCEPT ![r] = [Rest EXCEPT !.pc = "looking", !.who = t,
                                                      !.by = a, !.deed = deed]]
    /\ UNCHANGED <<account, era, live, link, cleared, stale>>

LookAtTarget(r) ==
    LET t == visitor[r].who IN
    /\ Stands(r, "looking") /\ Exists(t)
    /\ Moves(r, IF visitor[r].deed = "delete" /\ t \in Admins THEN "counting" ELSE "acting")
    /\ UNCHANGED <<account, era, live, link, visits, cleared, stale>>

\* Administrators are counted before one of them is deleted, the banned ones too.
CountAdmins(r) ==
    /\ Stands(r, "counting")
    /\ IF Cardinality(Admins) <= 1 THEN Rests(r) ELSE Moves(r, "acting")
    /\ UNCHANGED <<account, era, live, link, visits, cleared, stale>>

\* A ruler goes, at the hand of one who is none any more.
NotesStale(r, t) ==
    stale' = (stale \/ (t \in Rulers /\ visitor[r].by \notin Rulers))

SetRole(r, t, deed, role) ==
    /\ visitor[r].deed = deed
    /\ account' = [account EXCEPT ![t].role = role]
    /\ Rests(r)
    /\ UNCHANGED <<era, live, link>>

BanUser(r, t) ==
    /\ visitor[r].deed = "ban"
    /\ account' = [account EXCEPT ![t].banned = TRUE]
    /\ NewEra(t)
    /\ Revokes(r, t)
    /\ UNCHANGED <<live, link>>

UnbanUser(r, t) ==
    /\ visitor[r].deed = "unban"
    /\ account' = [account EXCEPT ![t].banned = FALSE]
    /\ Rests(r)
    /\ UNCHANGED <<era, live, link>>

\* on delete cascade: sessions, identities and links go with the user.
Delete(r, t) ==
    /\ visitor[r].deed = "delete"
    /\ account' = [account EXCEPT ![t] = [NoUser EXCEPT !.st = "gone"]]
    /\ live' = [live EXCEPT ![t] = {}]
    /\ link' = [l \in Links |-> IF l \in OpenLinks(t) THEN Dead ELSE link[l]]
    /\ Rests(r)
    /\ UNCHANGED era

Act(r) ==
    LET t == visitor[r].who IN
    /\ Stands(r, "acting") /\ Exists(t)
    /\ \/ SetRole(r, t, "promote", "admin") \/ SetRole(r, t, "demote", "student")
       \/ BanUser(r, t) \/ UnbanUser(r, t) \/ Delete(r, t)
    /\ NotesStale(r, t)
    /\ UNCHANGED <<visits, cleared>>

\* A statement that fails, or that finds the user gone: what earlier ones
\* committed stays.
Breaks(r) ==
    /\ visitor[r].pc \in Statements
    /\ Rests(r)
    /\ UNCHANGED <<account, era, live, link, visits, cleared, stale>>

AccountsNext ==
    \/ \E r \in Visitors, u \in Users :
        \/ Login(r, u) \/ Register(r, u) \/ GoogleFinds(r, u)
        \/ ChangePassword(r, u) \/ ForgotPassword(r, u) \/ SignOutEverywhere(r, u)
        \/ \E a \in Users, deed \in Deeds : Administer(r, a, u, deed)
    \/ \E r \in Visitors :
        \/ GoogleLinks(r) \/ GoogleCreates(r) \/ SignIn(r) \/ WritePassword(r)
        \/ VoidLinks(r) \/ InsertLink(r) \/ RevokeSessions(r)
        \/ LookAtTarget(r) \/ CountAdmins(r) \/ Act(r) \/ Breaks(r)
        \/ \E l \in Links : ResetPassword(r, l)
    \/ \E u \in Users, e \in Eras : SignOut(u, e)
    \/ \E l \in Links : LinkExpires(l)

AccountsSpec == AccountsInit /\ [][AccountsNext]_accountsVars

-----------------------------------------------------------------------------
UserRows == [st : {"none", "here", "gone"}, role : Roles, banned : BOOLEAN,
             password : BOOLEAN, google : BOOLEAN]
LinkRows == [st : {"none", "open", "dead"}, who : Users \cup {Nobody}, saw : SUBSET Links]
Visits   == [pc : {"rest"} \cup Statements, who : Users \cup {Nobody},
             by : Users \cup {Nobody}, deed : Deeds \cup {"none"},
             seen : Eras, saw : SUBSET Links]

AccountsTypeOK ==
    /\ account \in [Users -> UserRows]
    /\ era \in [Users -> Eras]
    /\ live \in [Users -> SUBSET Eras]
    /\ link \in [Links -> LinkRows]
    /\ visitor \in [Visitors -> Visits]
    /\ visits \in 0..MaxVisits
    /\ cleared \in [Users -> Eras]
    /\ stale \in BOOLEAN

\* A new password, a ban or "sign out everywhere" throws out everybody: unless
\* a sign-in was under way that had read its right before, no session of an
\* older right is live afterwards, and none comes back, whatever else is written
\* meanwhile.  (Rotations stand still here; SessionTable shows what one does to
\* revokeAllSessions.)
SurvivorsAreNew ==
    \A u \in Users : \A e \in live[u] : e >= cleared[u]

\* Of two links that work at once neither request saw the other's: only
\* requests that overlapped leave a user two ways in.
LinksOnlyMeetInFlight ==
    \A u \in Users : \A l, k \in OpenLinks(u) : l \notin link[k].saw

\* The panel has an administrator whom requireAdmin lets in, unless one was
\* removed by somebody who had lost that right himself in the meantime.
PanelStaysOpen == stale \/ Rulers # {}

\* "A user who is created without his identity has no way in" (link-account.ts).
EveryUserHasAWayIn ==
    \A u \in Users : Exists(u) => account[u].password \/ account[u].google

-----------------------------------------------------------------------------
(* Why they hold.                                                          *)

\* Eras begin with the user, and a link is open only as long as he exists.
UsersAreSound ==
    /\ \A u \in Users : cleared[u] <= era[u] /\ (account[u].st = "none" => era[u] = 0)
    /\ \A l \in Links : link[l].st = "open" => link[l].who \in Users /\ Exists(link[l].who)

\* What a request has read before, and what nobody can have changed since.
VisitsAreSound ==
    \A r \in Visitors : visitor[r].pc # "rest" =>
        /\ visitor[r].who \in Users
        /\ visitor[r].seen <= era[visitor[r].who]
        /\ visitor[r].pc = "creating" => visitor[r].seen = 0
        /\ visitor[r].pc \in SigningIn \cup {"revoking"} =>
              cleared[visitor[r].who] <= visitor[r].seen
        /\ visitor[r].pc \in {"looking", "counting", "acting"} =>
              visitor[r].by \in Users /\ Permitted(visitor[r].by, visitor[r].who, visitor[r].deed)

\* What a request for a link has seen is there, and void.
LinksAreSound ==
    /\ \A r \in Visitors : visitor[r].pc = "inserting" =>
          \A l \in visitor[r].saw : link[l].st # "none" /\ l \notin OpenLinks(visitor[r].who)
    /\ \A k \in Links : \A l \in link[k].saw : link[l].st # "none"

AccountsInv ==
    /\ AccountsTypeOK /\ UsersAreSound /\ VisitsAreSound /\ LinksAreSound
    /\ SurvivorsAreNew /\ LinksOnlyMeetInFlight /\ PanelStaysOpen /\ EveryUserHasAWayIn

-----------------------------------------------------------------------------
\* What adminDeleteUser counts the administrators for: "a site without any
\* administrator is a panel that is closed for ever".
LastAdminStays == Admins # {}
=============================================================================
