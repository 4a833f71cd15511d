---------------------------- MODULE ServerProofs ----------------------------
(***************************************************************************)
(* The safety properties of Accounts, for any number of users, links and   *)
(* requests: AccountsInv is inductive.  Those of SessionCookies are in     *)
(* SessionProofs, those of EmailCodes in EmailCodesProofs; at the end, all *)
(* hold of the three side by side.                                         *)
(***************************************************************************)
EXTENDS Server, SessionProofs, EmailCodesProofs

-----------------------------------------------------------------------------
(* Types.                                                                  *)

LEMMA UserTypes ==
  /\ NoUser \in UserRows
  /\ [NoUser EXCEPT !.st = "here", !.role = "admin", !.password = TRUE] \in UserRows
  /\ [NoUser EXCEPT !.st = "here", !.password = TRUE] \in UserRows
  /\ [NoUser EXCEPT !.st = "here", !.google = TRUE] \in UserRows
  /\ [NoUser EXCEPT !.st = "gone"] \in UserRows
  /\ \A row \in UserRows :
       /\ [row EXCEPT !.google = TRUE] \in UserRows
       /\ [row EXCEPT !.password = TRUE] \in UserRows
       /\ \A role \in Roles : [row EXCEPT !.role = role] \in UserRows
       /\ \A b \in BOOLEAN : [row EXCEPT !.banned = b] \in UserRows
BY DEF NoUser, UserRows, Roles

LEMMA LinkTypes ==
  /\ NoLink \in LinkRows /\ Dead \in LinkRows
  /\ \A u \in Users, S \in SUBSET Links : [st |-> "open", who |-> u, saw |-> S] \in LinkRows
BY DEF NoLink, Dead, LinkRows

LEMMA VisitTypes ==
  /\ Rest \in Visits
  /\ \A pc \in Statements, u \in Users, e \in Eras :
       [Rest EXCEPT !.pc = pc, !.who = u, !.seen = e] \in Visits
  /\ \A a, t \in Users, d \in Deeds :
       [Rest EXCEPT !.pc = "looking", !.who = t, !.by = a, !.deed = d] \in Visits
  /\ \A v \in Visits :
       /\ \A pc \in Statements : [v EXCEPT !.pc = pc] \in Visits
       /\ \A u \in Users, e \in Eras :
            [v EXCEPT !.pc = "revoking", !.who = u, !.seen = e] \in Visits
       /\ \A S \in SUBSET Links : [v EXCEPT !.pc = "inserting", !.saw = S] \in Visits
<1> USE DEF Visits, Statements, SigningIn, Deeds
<1>1. 0 \in Eras
      BY AccountsAssumption DEF Eras
<1>2. Rest \in Visits
      BY <1>1 DEF Rest
<1>3. ASSUME NEW pc \in Statements, NEW u \in Users, NEW e \in Eras
      PROVE  [Rest EXCEPT !.pc = pc, !.who = u, !.seen = e] \in Visits
      BY DEF Rest
<1>4. ASSUME NEW a \in Users, NEW t \in Users, NEW d \in Deeds
      PROVE  [Rest EXCEPT !.pc = "looking", !.who = t, !.by = a, !.deed = d] \in Visits
      BY <1>1 DEF Rest
<1>5. ASSUME NEW v \in Visits, NEW pc \in Statements
      PROVE  [v EXCEPT !.pc = pc] \in Visits
      OBVIOUS
<1>6. ASSUME NEW v \in Visits, NEW u \in Users, NEW e \in Eras
      PROVE  [v EXCEPT !.pc = "revoking", !.who = u, !.seen = e] \in Visits
      OBVIOUS
<1>7. ASSUME NEW v \in Visits, NEW S \in SUBSET Links
      PROVE  [v EXCEPT !.pc = "inserting", !.saw = S] \in Visits
      OBVIOUS
<1> HIDE DEF Visits, Statements, Deeds
<1> QED
    BY <1>2, <1>3, <1>4, <1>5, <1>6, <1>7

LEMMA InitType == AccountsInit => AccountsTypeOK
<1> SUFFICES ASSUME AccountsInit PROVE AccountsTypeOK
    OBVIOUS
<1>1. 0 \in Eras /\ 0 \in 0..MaxVisits
      BY AccountsAssumption DEF Eras
<1>2. account \in [Users -> UserRows]
      BY UserTypes DEF AccountsInit
<1>3. link \in [Links -> LinkRows] /\ visitor \in [Visitors -> Visits]
      BY LinkTypes, VisitTypes DEF AccountsInit
<1> QED
    BY <1>1, <1>2, <1>3 DEF AccountsInit, AccountsTypeOK

(* Beginning a request, going on with it, and a new era.                   *)
LEMMA ArriveType ==
  ASSUME AccountsTypeOK, NEW r \in Visitors, Arrives(r)
  PROVE  visits' \in 0..MaxVisits
BY AccountsAssumption DEF Arrives, AccountsTypeOK

LEMMA ComeType ==
  ASSUME AccountsTypeOK, NEW r \in Visitors, NEW u \in Users, NEW pc \in Statements,
         Comes(r, pc, u)
  PROVE  visits' \in 0..MaxVisits /\ visitor' \in [Visitors -> Visits]
<1> DEFINE e == IF pc \in SigningIn THEN era[u] ELSE 0
<1>1. e \in Eras
      BY AccountsAssumption DEF AccountsTypeOK, Eras
<1>2. visitor' = [visitor EXCEPT ![r] = [Rest EXCEPT !.pc = pc, !.who = u, !.seen = e]]
      BY DEF Comes
<1> HIDE DEF e
<1>3. [Rest EXCEPT !.pc = pc, !.who = u, !.seen = e] \in Visits
      BY <1>1, VisitTypes
<1>4. visitor' \in [Visitors -> Visits]
      BY <1>2, <1>3 DEF AccountsTypeOK
<1> QED
    BY <1>4, ArriveType DEF Comes

LEMMA MoveType ==
  ASSUME AccountsTypeOK, NEW r \in Visitors, NEW pc \in Statements,
         Rests(r) \/ Moves(r, pc)
  PROVE  visitor' \in [Visitors -> Visits]
<1>1. visitor[r] \in Visits
      BY DEF AccountsTypeOK
<1>2. [visitor[r] EXCEPT !.pc = pc] \in Visits
      BY <1>1, VisitTypes
<1> QED
    BY <1>2, VisitTypes DEF Rests, Moves, AccountsTypeOK

LEMMA EraType ==
  ASSUME AccountsTypeOK, NEW r \in Visitors, NEW u \in Users, NewEra(u), Revokes(r, u)
  PROVE  era' \in [Users -> Eras] /\ visitor' \in [Visitors -> Visits]
<1>1. era[u] + 1 \in Eras
      BY AccountsAssumption DEF NewEra, AccountsTypeOK, Eras
<1>2. era' \in [Users -> Eras]
      BY <1>1 DEF NewEra, AccountsTypeOK
<1>3. visitor[r] \in Visits /\ era'[u] \in Eras
      BY <1>2 DEF AccountsTypeOK
<1>4. [visitor[r] EXCEPT !.pc = "revoking", !.who = u, !.seen = era'[u]] \in Visits
      BY <1>3, VisitTypes
<1> QED
    BY <1>2, <1>4 DEF Revokes, AccountsTypeOK

LEMMA ActType ==
  ASSUME AccountsTypeOK, VisitsAreSound, NEW r \in Visitors, Act(r)
  PROVE  AccountsTypeOK'
<1> DEFINE t == visitor[r].who
<1>1. t \in Users /\ account[t] \in UserRows /\ NoLink \in LinkRows /\ Dead \in LinkRows
  <2>1. t \in Users
        BY DEF Act, Stands, VisitsAreSound
  <2> QED
      BY <2>1, LinkTypes DEF AccountsTypeOK
<1>2. UNCHANGED <<visits, cleared>> /\ stale' \in BOOLEAN
      BY DEF Act, NotesStale, AccountsTypeOK
<1>3. CASE \E deed \in Deeds, role \in Roles : SetRole(r, t, deed, role)
  <2>1. PICK deed \in Deeds, role \in Roles : SetRole(r, t, deed, role)
        BY <1>3
  <2>2. [account[t] EXCEPT !.role = role] \in UserRows
        BY <1>1, UserTypes
  <2>3. account' \in [Users -> UserRows] /\ visitor' \in [Visitors -> Visits]
        BY <1>1, <2>1, <2>2, VisitTypes DEF SetRole, Rests, AccountsTypeOK
  <2> QED
      BY <1>2, <2>1, <2>3 DEF SetRole, AccountsTypeOK
<1>4. CASE BanUser(r, t)
  <2>1. account' \in [Users -> UserRows]
        BY <1>1, <1>4, UserTypes DEF BanUser, AccountsTypeOK
  <2>2. era' \in [Users -> Eras] /\ visitor' \in [Visitors -> Visits]
        BY <1>1, <1>4, EraType DEF BanUser
  <2> QED
      BY <1>2, <1>4, <2>1, <2>2 DEF BanUser, AccountsTypeOK
<1>5. CASE UnbanUser(r, t)
  <2>1. account' \in [Users -> UserRows] /\ visitor' \in [Visitors -> Visits]
        BY <1>1, <1>5, UserTypes, VisitTypes DEF UnbanUser, Rests, AccountsTypeOK
  <2> QED
      BY <1>2, <1>5, <2>1 DEF UnbanUser, AccountsTypeOK
<1>6. CASE Delete(r, t)
  <2>1. account' \in [Users -> UserRows] /\ visitor' \in [Visitors -> Visits]
        BY <1>1, <1>6, UserTypes, VisitTypes DEF Delete, Rests, AccountsTypeOK
  <2>2. live' \in [Users -> SUBSET Eras] /\ link' \in [Links -> LinkRows]
        BY <1>1, <1>6 DEF Delete, AccountsTypeOK
  <2> QED
      BY <1>2, <1>6, <2>1, <2>2 DEF Delete, AccountsTypeOK
<1> QED
    BY <1>3, <1>4, <1>5, <1>6 DEF Act, Deeds, Roles

(* A request that has come so far knows whom it is about.                  *)
LEMMA NextType ==
  ASSUME AccountsTypeOK, VisitsAreSound, UsersAreSound, AccountsNext
  PROVE  AccountsTypeOK'
<1>1. ASSUME NEW r \in Visitors, NEW u \in Users,
             \/ Login(r, u) \/ GoogleFinds(r, u) \/ ChangePassword(r, u) \/ ForgotPassword(r, u)
      PROVE  AccountsTypeOK'
  <2>1. PICK pc \in Statements : Comes(r, pc, u)
        BY <1>1 DEF Login, GoogleFinds, ChangePassword, ForgotPassword, Statements, SigningIn
  <2>2. UNCHANGED <<account, era, live, link, cleared, stale>>
        BY <1>1 DEF Login, GoogleFinds, ChangePassword, ForgotPassword
  <2> QED
      BY <2>1, <2>2, ComeType DEF AccountsTypeOK
<1>2. ASSUME NEW r \in Visitors, NEW u \in Users, Register(r, u)
      PROVE  AccountsTypeOK'
  <2>1. account' \in [Users -> UserRows]
        BY <1>2, UserTypes DEF Register, AccountsTypeOK
  <2>2. visits' \in 0..MaxVisits /\ visitor' \in [Visitors -> Visits]
        BY <1>2, ComeType DEF Register, Statements, SigningIn
  <2> QED
      BY <1>2, <2>1, <2>2 DEF Register, AccountsTypeOK
<1>3. ASSUME NEW r \in Visitors, NEW u \in Users, SignOutEverywhere(r, u)
      PROVE  AccountsTypeOK'
      BY <1>3, EraType, ArriveType DEF SignOutEverywhere, AccountsTypeOK
<1>4. ASSUME NEW r \in Visitors, NEW u \in Users, NEW a \in Users, NEW deed \in Deeds,
             Administer(r, a, u, deed)
      PROVE  AccountsTypeOK'
  <2>1. visitor' \in [Visitors -> Visits]
        BY <1>4, VisitTypes DEF Administer, AccountsTypeOK
  <2> QED
      BY <1>4, <2>1, ArriveType DEF Administer, AccountsTypeOK
<1>5. ASSUME NEW r \in Visitors,
             \/ GoogleLinks(r) \/ GoogleCreates(r) \/ WritePassword(r)
      PROVE  AccountsTypeOK'
  <2>1. visitor[r].who \in Users
        BY <1>5 DEF VisitsAreSound, Stands, GoogleLinks, GoogleCreates, WritePassword
  <2>2. account' \in [Users -> UserRows]
        BY <1>5, <2>1, UserTypes DEF GoogleLinks, GoogleCreates, WritePassword, AccountsTypeOK
  <2>3. era' \in [Users -> Eras] /\ visitor' \in [Visitors -> Visits]
    <3>1. CASE Moves(r, "signing") /\ UNCHANGED era
          BY <3>1, MoveType DEF AccountsTypeOK, Statements, SigningIn
    <3>2. CASE WritePassword(r)
          BY <3>2, <2>1, EraType DEF WritePassword
    <3> QED
        BY <1>5, <3>1, <3>2 DEF GoogleLinks, GoogleCreates
  <2> QED
      BY <1>5, <2>2, <2>3 DEF GoogleLinks, GoogleCreates, WritePassword, AccountsTypeOK
<1>6. ASSUME NEW r \in Visitors, SignIn(r) \/ RevokeSessions(r)
      PROVE  AccountsTypeOK'
  <2>1. visitor[r].who \in Users /\ visitor[r].seen \in Eras
        BY <1>6 DEF VisitsAreSound, Stands, SignIn, RevokeSessions, AccountsTypeOK, Visits
  <2>2. visitor' \in [Visitors -> Visits]
        BY <1>6, MoveType DEF SignIn, RevokeSessions, Statements, SigningIn
  <2>3. live' \in [Users -> SUBSET Eras] /\ cleared' \in [Users -> Eras]
    <3>1. CASE SignIn(r)
          BY <2>1, <3>1 DEF SignIn, AccountsTypeOK
    <3>2. CASE RevokeSessions(r)
          BY <2>1, <3>2 DEF RevokeSessions, RevokesAll, AccountsTypeOK
    <3> QED
        BY <1>6, <3>1, <3>2
  <2> QED
      BY <1>6, <2>2, <2>3 DEF SignIn, RevokeSessions, AccountsTypeOK
<1>7. ASSUME NEW r \in Visitors, VoidLinks(r)
      PROVE  AccountsTypeOK'
  <2> DEFINE S == {l \in Links : link[l].st # "none"}
  <2>1. visitor[r] \in Visits /\ S \in SUBSET Links
        BY DEF AccountsTypeOK
  <2>2. visitor' = [visitor EXCEPT ![r] = [visitor[r] EXCEPT !.pc = "inserting", !.saw = S]]
        BY <1>7, <2>1 DEF VoidLinks, AccountsTypeOK, Visits
  <2> HIDE DEF S
  <2>3. visitor' \in [Visitors -> Visits]
        BY <2>1, <2>2, VisitTypes DEF AccountsTypeOK
  <2>4. link' \in [Links -> LinkRows]
        BY <1>7, LinkTypes DEF VoidLinks, AccountsTypeOK
  <2> QED
      BY <1>7, <2>3, <2>4 DEF VoidLinks, AccountsTypeOK
<1>8. ASSUME NEW r \in Visitors, InsertLink(r)
      PROVE  AccountsTypeOK'
  <2>1. visitor[r].who \in Users /\ visitor[r].saw \in SUBSET Links
        BY <1>8 DEF VisitsAreSound, Stands, InsertLink, AccountsTypeOK, Visits
  <2>2. link' \in [Links -> LinkRows]
        BY <1>8, <2>1, LinkTypes DEF InsertLink, AccountsTypeOK
  <2>3. visitor' \in [Visitors -> Visits]
        BY <1>8, VisitTypes DEF InsertLink, Rests, AccountsTypeOK
  <2> QED
      BY <1>8, <2>2, <2>3 DEF InsertLink, AccountsTypeOK
<1>9. ASSUME NEW r \in Visitors, LookAtTarget(r) \/ CountAdmins(r) \/ Breaks(r)
      PROVE  AccountsTypeOK'
  <2>1. visitor' \in [Visitors -> Visits]
        BY <1>9, MoveType DEF LookAtTarget, CountAdmins, Breaks, Statements
  <2> QED
      BY <1>9, <2>1 DEF LookAtTarget, CountAdmins, Breaks, AccountsTypeOK
<1>10. ASSUME NEW r \in Visitors, NEW l \in Links, ResetPassword(r, l)
       PROVE  AccountsTypeOK'
  <2>1. link[l].who \in Users
        BY <1>10 DEF ResetPassword, UsersAreSound
  <2>2. account' \in [Users -> UserRows] /\ link' \in [Links -> LinkRows]
        BY <1>10, <2>1, UserTypes, LinkTypes DEF ResetPassword, AccountsTypeOK
  <2>3. era' \in [Users -> Eras] /\ visitor' \in [Visitors -> Visits] /\ visits' \in 0..MaxVisits
        BY <1>10, <2>1, EraType, ArriveType DEF ResetPassword
  <2> QED
      BY <1>10, <2>2, <2>3 DEF ResetPassword, AccountsTypeOK
<1>11. ASSUME NEW u \in Users, NEW e \in Eras, SignOut(u, e)
       PROVE  AccountsTypeOK'
       BY <1>11 DEF SignOut, AccountsTypeOK
<1>12. ASSUME NEW l \in Links, LinkExpires(l)
       PROVE  AccountsTypeOK'
       BY <1>12, LinkTypes DEF LinkExpires, AccountsTypeOK
<1> QED
    BY <1>1, <1>2, <1>3, <1>4, <1>5, <1>6, <1>7, <1>8, <1>9, <1>10, <1>11, <1>12, ActType
    DEF AccountsNext

-----------------------------------------------------------------------------
(* Requests.                                                               *)

(* VisitsAreSound of one request v, with the eras e and what is cleared c. *)
VisitIsSound(v, e, c) ==
  v.pc # "rest" =>
     /\ v.who \in Users
     /\ v.seen <= e[v.who]
     /\ v.pc = "creating" => v.seen = 0
     /\ v.pc \in SigningIn \cup {"revoking"} => c[v.who] <= v.seen
     /\ v.pc \in {"looking", "counting", "acting"} =>
           v.by \in Users /\ Permitted(v.by, v.who, v.deed)

LEMMA SoundOnes ==
  /\ VisitsAreSound <=> \A r \in Visitors : VisitIsSound(visitor[r], era, cleared)
  /\ VisitsAreSound' <=> \A r \in Visitors : VisitIsSound(visitor'[r], era', cleared')
BY DEF VisitsAreSound, VisitIsSound

(* A step of one request, or of none, leaves the others as sound as before. *)
LEMMA OthersStaySound ==
  ASSUME AccountsTypeOK, AccountsTypeOK', VisitsAreSound,
         \A u \in Users : era[u] <= era'[u], cleared' = cleared,
         NEW r \in Visitors, \A q \in Visitors \ {r} : visitor'[q] = visitor[q],
         VisitIsSound(visitor'[r], era', cleared)
  PROVE  VisitsAreSound'
<1>1. ASSUME NEW q \in Visitors \ {r} PROVE VisitIsSound(visitor'[q], era', cleared)
  <2>1. VisitIsSound(visitor[q], era, cleared) /\ visitor'[q] = visitor[q]
        BY SoundOnes
  <2>2. visitor[q].pc # "rest" => visitor[q].seen <= era'[visitor[q].who]
    <3> SUFFICES ASSUME visitor[q].pc # "rest" PROVE visitor[q].seen <= era'[visitor[q].who]
        OBVIOUS
    <3> DEFINE u == visitor[q].who
    <3>1. u \in Users /\ visitor[q].seen <= era[u] /\ visitor[q].seen \in Eras
          BY <2>1 DEF VisitIsSound, AccountsTypeOK, Visits
    <3>2. era[u] \in Nat /\ era'[u] \in Nat /\ visitor[q].seen \in Nat /\ era[u] <= era'[u]
          BY <3>1 DEF AccountsTypeOK, Eras
    <3> QED
        BY <3>1, <3>2
  <2> QED
      BY <2>1, <2>2 DEF VisitIsSound
<1> QED
    BY <1>1, SoundOnes

LEMMA ComeSound ==
  ASSUME AccountsTypeOK, AccountsTypeOK', UsersAreSound, VisitsAreSound,
         NEW r \in Visitors, NEW u \in Users,
         NEW pc \in {"signing", "linking", "creating", "changing", "voiding"},
         Comes(r, pc, u), pc = "creating" => account[u].st = "none",
         UNCHANGED <<era, cleared>>
  PROVE  VisitsAreSound'
<1>1. /\ \A q \in Visitors \ {r} : visitor'[q] = visitor[q]
      /\ visitor'[r].pc = pc /\ visitor'[r].who = u
      /\ visitor'[r].seen = IF pc \in SigningIn THEN era[u] ELSE 0
      BY DEF Comes, AccountsTypeOK, Rest
<1>2. era[u] \in Nat /\ cleared[u] <= era[u]
      BY DEF AccountsTypeOK, Eras, UsersAreSound
<1>3. VisitIsSound(visitor'[r], era', cleared)
      BY <1>1, <1>2 DEF VisitIsSound, SigningIn
<1>4. \A w \in Users : era[w] <= era'[w]
      BY DEF AccountsTypeOK, Eras
<1> QED
    BY <1>1, <1>3, <1>4, OthersStaySound

(* A request that begins an era of u and is about to revoke.               *)
LEMMA RevokingSound ==
  ASSUME AccountsTypeOK, AccountsTypeOK', UsersAreSound, VisitsAreSound,
         NEW r \in Visitors, NEW u \in Users, NewEra(u), Revokes(r, u), cleared' = cleared
  PROVE  /\ VisitsAreSound'
         /\ \A w \in Users : era[w] <= era'[w] /\ (w # u => era'[w] = era[w])
<1>1. era[u] \in Nat /\ era'[u] = era[u] + 1 /\ cleared[u] \in Nat /\ cleared[u] <= era[u]
      BY DEF NewEra, AccountsTypeOK, Eras, UsersAreSound
<1>2. \A w \in Users : era[w] <= era'[w] /\ (w # u => era'[w] = era[w])
  <2>1. \A w \in Users : era[w] \in Nat
        BY DEF AccountsTypeOK, Eras
  <2> QED
      BY <1>1, <2>1 DEF NewEra, AccountsTypeOK
<1>3. visitor[r] \in Visits
      BY DEF AccountsTypeOK
<1>4. /\ \A q \in Visitors \ {r} : visitor'[q] = visitor[q]
      /\ visitor'[r].pc = "revoking" /\ visitor'[r].who = u /\ visitor'[r].seen = era'[u]
      BY <1>3 DEF Revokes, AccountsTypeOK, Visits
<1>5. VisitIsSound(visitor'[r], era', cleared)
      BY <1>1, <1>4 DEF VisitIsSound, SigningIn
<1> QED
    BY <1>2, <1>4, <1>5, OthersStaySound

LEMMA RestSound ==
  ASSUME AccountsTypeOK, AccountsTypeOK', VisitsAreSound, NEW r \in Visitors, Rests(r),
         UNCHANGED <<era, cleared>>
  PROVE  VisitsAreSound'
<1>1. visitor'[r].pc = "rest" /\ \A q \in Visitors \ {r} : visitor'[q] = visitor[q]
      BY DEF Rests, AccountsTypeOK, Rest
<1>2. \A w \in Users : era[w] <= era'[w]
      BY DEF AccountsTypeOK, Eras
<1> QED
    BY <1>1, <1>2, OthersStaySound DEF VisitIsSound

(* After revokeAllSessions whoever will still sign in has read a right of  *)
(* the new era, unless cleared stays as it was.                            *)
LEMMA RevokeSound ==
  ASSUME AccountsTypeOK, AccountsTypeOK', UsersAreSound, VisitsAreSound,
         NEW r \in Visitors, RevokeSessions(r)
  PROVE  VisitsAreSound'
<1> DEFINE u == visitor[r].who
           e == visitor[r].seen
<1>1. /\ u \in Users /\ e \in Nat /\ e <= era[u] /\ cleared[u] <= e /\ cleared[u] \in Nat
      /\ visitor[r].pc = "revoking" /\ visitor[r] \in Visits
      BY DEF RevokeSessions, Stands, VisitsAreSound, AccountsTypeOK, Visits, Eras
<1>2. /\ \A q \in Visitors \ {r} : visitor'[q] = visitor[q]
      /\ \/ visitor'[r].pc = "rest"
         \/ visitor'[r].pc = "signing" /\ visitor'[r].who = u /\ visitor'[r].seen = e
      BY <1>1 DEF RevokeSessions, Rests, Moves, Rest, AccountsTypeOK, Visits
<1>3. era' = era /\ \A w \in Users \ {u} : cleared'[w] = cleared[w]
      BY <1>1 DEF RevokeSessions, AccountsTypeOK
<1>4. CASE cleared'[u] = cleared[u]
  <2>1. cleared' = cleared
        BY <1>3, <1>4 DEF AccountsTypeOK
  <2>2. VisitIsSound(visitor'[r], era', cleared)
        BY <1>1, <1>2, <1>3 DEF VisitIsSound, SigningIn
  <2>3. \A w \in Users : era[w] <= era'[w]
        BY <1>3 DEF AccountsTypeOK, Eras
  <2> QED
      BY <1>2, <2>1, <2>2, <2>3, OthersStaySound
<1>5. CASE cleared'[u] = e /\ ~Overtaken(u, e)
  <2>1. ASSUME NEW q \in Visitors PROVE VisitIsSound(visitor'[q], era', cleared')
    <3>1. CASE q = r
          BY <1>1, <1>2, <1>3, <1>5, <3>1 DEF VisitIsSound, SigningIn
    <3>2. CASE q # r /\ visitor[q].who # u
          BY <1>2, <1>3, <3>2, SoundOnes DEF VisitIsSound
    <3>3. CASE q # r /\ visitor[q].who = u
      <4>1. visitor[q].seen \in Nat /\ VisitIsSound(visitor[q], era, cleared)
            BY SoundOnes DEF AccountsTypeOK, Visits, Eras
      <4>2. visitor[q].pc \in SigningIn \cup {"revoking"} => e <= visitor[q].seen
            BY <1>1, <1>5, <3>3, <4>1 DEF Overtaken
      <4> QED
          BY <1>2, <1>3, <1>5, <3>3, <4>1, <4>2 DEF VisitIsSound
    <3> QED
        BY <3>1, <3>2, <3>3
  <2> QED
      BY <2>1, SoundOnes
<1> QED
    BY <1>1, <1>4, <1>5 DEF RevokeSessions, AccountsTypeOK

LEMMA NextVisits ==
  ASSUME AccountsTypeOK, AccountsTypeOK', UsersAreSound, VisitsAreSound, AccountsNext
  PROVE  VisitsAreSound'
<1>1. ASSUME NEW r \in Visitors, NEW u \in Users,
             \/ Login(r, u) \/ Register(r, u) \/ GoogleFinds(r, u)
             \/ ChangePassword(r, u) \/ ForgotPassword(r, u)
      PROVE  VisitsAreSound'
  <2>1. UNCHANGED <<era, cleared>>
        BY <1>1 DEF Login, Register, GoogleFinds, ChangePassword, ForgotPassword
  <2>2. PICK pc \in {"signing", "linking", "creating", "changing", "voiding"} :
           Comes(r, pc, u) /\ (pc = "creating" => account[u].st = "none")
        BY <1>1 DEF Login, Register, GoogleFinds, ChangePassword, ForgotPassword
  <2> QED
      BY <2>1, <2>2, ComeSound
<1>2. ASSUME NEW r \in Visitors, NEW u \in Users, SignOutEverywhere(r, u)
      PROVE  VisitsAreSound'
  <2>1. NewEra(u) /\ Revokes(r, u) /\ cleared' = cleared
        BY <1>2 DEF SignOutEverywhere
  <2> QED
      BY <2>1, RevokingSound
<1>3. ASSUME NEW r \in Visitors, NEW u \in Users, NEW a \in Users, NEW deed \in Deeds,
             Administer(r, a, u, deed)
      PROVE  VisitsAreSound'
  <2>1. /\ \A q \in Visitors \ {r} : visitor'[q] = visitor[q]
        /\ visitor'[r].pc = "looking" /\ visitor'[r].who = u /\ visitor'[r].seen = 0
        /\ visitor'[r].by = a /\ visitor'[r].deed = deed
        BY <1>3 DEF Administer, AccountsTypeOK, Rest
  <2>2. \A w \in Users : era'[w] = era[w] /\ era[w] \in Nat
        BY <1>3 DEF Administer, AccountsTypeOK, Eras
  <2>3. VisitIsSound(visitor'[r], era', cleared)
        BY <1>3, <2>1, <2>2 DEF VisitIsSound, SigningIn, Administer
  <2>4. \A w \in Users : era[w] <= era'[w]
        BY <2>2
  <2> QED
      BY <1>3, <2>1, <2>3, <2>4, OthersStaySound DEF Administer
<1>4. ASSUME NEW r \in Visitors, GoogleLinks(r) \/ GoogleCreates(r) \/ LookAtTarget(r)
                                 \/ (CountAdmins(r) /\ Moves(r, "acting"))
      PROVE  VisitsAreSound'
  <2> DEFINE w == visitor'[r]
  <2>0. UNCHANGED <<era, cleared>> /\ visitor[r] \in Visits /\ visitor[r].pc # "rest"
        BY <1>4 DEF GoogleLinks, GoogleCreates, LookAtTarget, CountAdmins, Stands, AccountsTypeOK
  <2>1. PICK pc \in {"signing", "counting", "acting"} :
           /\ Moves(r, pc)
           /\ (pc = "signing" => GoogleLinks(r) \/ GoogleCreates(r))
           /\ (pc # "signing" => visitor[r].pc \in {"looking", "counting"})
    <3>1. CASE GoogleLinks(r) \/ GoogleCreates(r)
          BY <3>1 DEF GoogleLinks, GoogleCreates
    <3>2. CASE LookAtTarget(r)
          BY <3>2 DEF LookAtTarget, Stands
    <3>3. CASE CountAdmins(r) /\ Moves(r, "acting")
          BY <3>3 DEF CountAdmins, Stands
    <3> QED
        BY <1>4, <3>1, <3>2, <3>3
  <2>2. /\ \A q \in Visitors \ {r} : visitor'[q] = visitor[q]
        /\ w.pc = pc /\ w.who = visitor[r].who /\ w.seen = visitor[r].seen
        /\ w.by = visitor[r].by /\ w.deed = visitor[r].deed
        BY <2>0, <2>1 DEF Moves, AccountsTypeOK, Visits
  <2>3. VisitIsSound(visitor[r], era, cleared)
        BY SoundOnes
  <2>4. pc = "signing" => cleared[w.who] <= w.seen
    <3>1. CASE GoogleLinks(r)
          BY <2>2, <2>3, <3>1 DEF GoogleLinks, Stands, VisitIsSound, SigningIn
    <3>2. CASE GoogleCreates(r)
      <4>1. visitor[r].who \in Users /\ visitor[r].seen = 0 /\ account[visitor[r].who].st = "none"
            BY <2>3, <3>2 DEF GoogleCreates, Stands, VisitIsSound
      <4>2. cleared[visitor[r].who] <= 0
            BY <4>1 DEF UsersAreSound
      <4> QED
          BY <2>2, <4>1, <4>2
    <3> QED
        BY <2>1, <3>1, <3>2
  <2>5. VisitIsSound(w, era', cleared)
        BY <2>0, <2>1, <2>2, <2>3, <2>4 DEF VisitIsSound, SigningIn
  <2>6. \A u \in Users : era[u] <= era'[u]
        BY <2>0 DEF AccountsTypeOK, Eras
  <2> QED
      BY <2>0, <2>2, <2>5, <2>6, OthersStaySound
<1>5. ASSUME NEW r \in Visitors, WritePassword(r)
      PROVE  VisitsAreSound'
  <2>1. visitor[r].who \in Users
        BY <1>5 DEF VisitsAreSound, Stands, WritePassword
  <2> QED
      BY <1>5, <2>1, RevokingSound DEF WritePassword
<1>6. ASSUME NEW r \in Visitors, NEW l \in Links, ResetPassword(r, l)
      PROVE  VisitsAreSound'
  <2>1. link[l].who \in Users
        BY <1>6 DEF ResetPassword, UsersAreSound
  <2> QED
      BY <1>6, <2>1, RevokingSound DEF ResetPassword
<1>7. ASSUME NEW r \in Visitors,
             \/ SignIn(r) \/ InsertLink(r) \/ Breaks(r)
             \/ (CountAdmins(r) /\ Rests(r))
      PROVE  VisitsAreSound'
  <2>1. Rests(r) /\ UNCHANGED <<era, cleared>>
        BY <1>7 DEF SignIn, InsertLink, Breaks, CountAdmins
  <2> QED
      BY <2>1, RestSound
<1>8. ASSUME NEW r \in Visitors, VoidLinks(r)
      PROVE  VisitsAreSound'
  <2>1. visitor[r] \in Visits /\ UNCHANGED <<era, cleared>>
        BY <1>8 DEF VoidLinks, AccountsTypeOK
  <2>2. /\ \A q \in Visitors \ {r} : visitor'[q] = visitor[q]
        /\ visitor'[r].pc = "inserting" /\ visitor'[r].who = visitor[r].who
        /\ visitor'[r].seen = visitor[r].seen
        BY <1>8, <2>1 DEF VoidLinks, AccountsTypeOK, Visits
  <2>3. VisitIsSound(visitor'[r], era', cleared)
        BY <1>8, <2>1, <2>2, SoundOnes DEF VisitIsSound, SigningIn, VoidLinks, Stands
  <2>4. \A w \in Users : era[w] <= era'[w]
        BY <2>1 DEF AccountsTypeOK, Eras
  <2> QED
      BY <2>1, <2>2, <2>3, <2>4, OthersStaySound
<1>9. ASSUME NEW r \in Visitors, Act(r)
      PROVE  VisitsAreSound'
  <2>1. cleared' = cleared /\ visitor[r].who \in Users
        BY <1>9 DEF Act, Stands, VisitsAreSound
  <2>2. CASE BanUser(r, visitor[r].who)
        BY <2>1, <2>2, RevokingSound DEF BanUser
  <2>3. CASE Rests(r) /\ UNCHANGED era
        BY <2>1, <2>3, RestSound
  <2> QED
      BY <1>9, <2>2, <2>3 DEF Act, SetRole, UnbanUser, Delete
<1>10. ASSUME NEW u \in Users, NEW e \in Eras, SignOut(u, e)
       PROVE  VisitsAreSound'
       BY <1>10 DEF SignOut, VisitsAreSound
<1>11. ASSUME NEW l \in Links, LinkExpires(l)
       PROVE  VisitsAreSound'
       BY <1>11 DEF LinkExpires, VisitsAreSound
<1>13. ASSUME NEW r \in Visitors, RevokeSessions(r)
       PROVE  VisitsAreSound'
       BY <1>13, RevokeSound
<1>12. ASSUME NEW r \in Visitors, CountAdmins(r)
       PROVE  VisitsAreSound'
  <2>1. Rests(r) \/ Moves(r, "acting")
        BY <1>12 DEF CountAdmins
  <2> QED
      BY <1>4, <1>7, <1>12, <2>1
<1>14. ASSUME NEW r \in Visitors,
              \/ GoogleLinks(r) \/ GoogleCreates(r) \/ SignIn(r) \/ WritePassword(r)
              \/ VoidLinks(r) \/ InsertLink(r) \/ RevokeSessions(r)
              \/ LookAtTarget(r) \/ CountAdmins(r) \/ Act(r) \/ Breaks(r)
       PROVE  VisitsAreSound'
       BY <1>4, <1>5, <1>7, <1>8, <1>9, <1>12, <1>13, <1>14
<1> QED
    BY <1>1, <1>2, <1>3, <1>6, <1>10, <1>11, <1>14 DEF AccountsNext

-----------------------------------------------------------------------------
(* Users.                                                                  *)

(* What a step may do to the row of a user, and with what: it writes one   *)
(* row at most, and only an administrator's request changes who rules.     *)
Touches(t) ==
  \A u \in Users \ {t} : account'[u] = account[u]

Admits(t) ==
  /\ Touches(t)
  /\ account'[t].st = "here"
  /\ account'[t].password \/ account'[t].google
  /\ \/ account[t].st = "none"
     \/ /\ Exists(t) /\ account'[t].role = account[t].role
        /\ account'[t].banned = account[t].banned

LEMMA AccountWrites ==
  ASSUME AccountsTypeOK, VisitsAreSound, UsersAreSound, AccountsNext
  PROVE  \/ UNCHANGED <<account, stale>>
         \/ \E r \in Visitors : Act(r) /\ Touches(visitor[r].who)
         \/ stale' = stale /\ \E t \in Users : Admits(t)
<1> DEFINE Goal == \/ UNCHANGED <<account, stale>>
                   \/ \E r \in Visitors : Act(r) /\ Touches(visitor[r].who)
                   \/ stale' = stale /\ \E t \in Users : Admits(t)
<1>1. ASSUME NEW r \in Visitors, NEW u \in Users, Register(r, u)
      PROVE  Goal
  <2>1. /\ account[u].st = "none" /\ account'[u].st = "here" /\ account'[u].password
        /\ Touches(u) /\ stale' = stale
        BY <1>1 DEF Register, AccountsTypeOK, NoUser, Touches
  <2> QED
      BY <2>1 DEF Admits
<1>2. ASSUME NEW r \in Visitors, GoogleLinks(r)
      PROVE  Goal
  <2> DEFINE u == visitor[r].who
  <2>1. u \in Users
        BY <1>2 DEF VisitsAreSound, GoogleLinks, Stands
  <2>2. account[u] \in UserRows /\ Exists(u)
        BY <1>2, <2>1 DEF AccountsTypeOK, GoogleLinks
  <2>3. /\ account'[u].st = "here" /\ account'[u].google
        /\ account'[u].role = account[u].role /\ account'[u].banned = account[u].banned
        /\ Touches(u) /\ stale' = stale
        BY <1>2, <2>1, <2>2 DEF GoogleLinks, AccountsTypeOK, UserRows, Touches, Exists
  <2> QED
      BY <2>1, <2>2, <2>3 DEF Admits
<1>3. ASSUME NEW r \in Visitors, GoogleCreates(r)
      PROVE  Goal
  <2> DEFINE u == visitor[r].who
  <2>1. u \in Users
        BY <1>3 DEF VisitsAreSound, GoogleCreates, Stands
  <2>2. /\ account[u].st = "none" /\ account'[u].st = "here" /\ account'[u].google
        /\ Touches(u) /\ stale' = stale
        BY <1>3, <2>1 DEF GoogleCreates, AccountsTypeOK, NoUser, Touches
  <2> QED
      BY <2>1, <2>2 DEF Admits
<1>4. ASSUME NEW r \in Visitors, NEW u \in Users, Exists(u), stale' = stale,
             account' = [account EXCEPT ![u].password = TRUE]
      PROVE  Goal
  <2>1. account[u] \in UserRows
        BY DEF AccountsTypeOK
  <2>2. /\ account'[u].st = "here" /\ account'[u].password
        /\ account'[u].role = account[u].role /\ account'[u].banned = account[u].banned
        /\ Touches(u)
        BY <1>4, <2>1 DEF AccountsTypeOK, UserRows, Touches, Exists
  <2> QED
      BY <1>4, <2>2 DEF Admits
<1>5. ASSUME NEW r \in Visitors, WritePassword(r)
      PROVE  Goal
  <2>1. visitor[r].who \in Users
        BY <1>5 DEF VisitsAreSound, WritePassword, Stands
  <2>2. /\ Exists(visitor[r].who) /\ stale' = stale
        /\ account' = [account EXCEPT ![visitor[r].who].password = TRUE]
        BY <1>5 DEF WritePassword
  <2> HIDE DEF Goal
  <2> QED
      BY <1>4, <2>1, <2>2
<1>6. ASSUME NEW r \in Visitors, NEW l \in Links, ResetPassword(r, l)
      PROVE  Goal
  <2>1. link[l].who \in Users /\ Exists(link[l].who)
        BY <1>6 DEF ResetPassword, UsersAreSound
  <2>2. stale' = stale /\ account' = [account EXCEPT ![link[l].who].password = TRUE]
        BY <1>6 DEF ResetPassword
  <2> HIDE DEF Goal
  <2> QED
      BY <1>4, <2>1, <2>2
<1>7. ASSUME NEW r \in Visitors, Act(r)
      PROVE  Goal
  <2>1. visitor[r].who \in Users
        BY <1>7 DEF VisitsAreSound, Act, Stands
  <2>2. Touches(visitor[r].who)
        BY <1>7, <2>1 DEF Act, SetRole, BanUser, UnbanUser, Delete, AccountsTypeOK, Touches
  <2> QED
      BY <1>7, <2>2
<1>8. ASSUME NEW r \in Visitors, NEW u \in Users,
             \/ Login(r, u) \/ GoogleFinds(r, u) \/ ChangePassword(r, u)
             \/ ForgotPassword(r, u) \/ SignOutEverywhere(r, u)
             \/ \E a \in Users, deed \in Deeds : Administer(r, a, u, deed)
      PROVE  UNCHANGED <<account, stale>>
      BY <1>8 DEF Login, GoogleFinds, ChangePassword, ForgotPassword, SignOutEverywhere, Administer
<1>9. ASSUME NEW r \in Visitors,
             \/ SignIn(r) \/ VoidLinks(r) \/ InsertLink(r) \/ RevokeSessions(r)
             \/ LookAtTarget(r) \/ CountAdmins(r) \/ Breaks(r)
      PROVE  UNCHANGED <<account, stale>>
      BY <1>9 DEF SignIn, VoidLinks, InsertLink, RevokeSessions, LookAtTarget, CountAdmins, Breaks
<1>10. ASSUME (\E u \in Users, e \in Eras : SignOut(u, e)) \/ \E l \in Links : LinkExpires(l)
       PROVE  UNCHANGED <<account, stale>>
       BY <1>10 DEF SignOut, LinkExpires
<1>11. ASSUME UNCHANGED <<account, stale>> PROVE Goal
       BY <1>11
<1> HIDE DEF Goal
<1>12. Goal
       BY <1>1, <1>2, <1>3, <1>5, <1>6, <1>7, <1>8, <1>9, <1>10, <1>11 DEF AccountsNext
<1> QED
    BY <1>12 DEF Goal

(* An administrator's request changes the row of a user who is there, and  *)
(* takes the rule from nobody but him.                                     *)
LEMMA ActWrites ==
  ASSUME AccountsTypeOK, VisitsAreSound, NEW r \in Visitors, Act(r)
  PROVE  /\ visitor[r].who \in Users /\ Exists(visitor[r].who)
         /\ \/ account'[visitor[r].who].st = "gone"
            \/ /\ account'[visitor[r].who].st = "here"
               /\ account'[visitor[r].who].password = account[visitor[r].who].password
               /\ account'[visitor[r].who].google = account[visitor[r].who].google
         /\ visitor[r].deed \in {"promote", "unban"} =>
               (visitor[r].who \in Rulers => visitor[r].who \in Rulers')
<1> DEFINE t == visitor[r].who
<1>1. t \in Users /\ account[t] \in UserRows /\ Exists(t)
      BY DEF Act, Stands, VisitsAreSound, AccountsTypeOK
<1> HIDE DEF t
<1>2. CASE SetRole(r, t, "promote", "admin") \/ SetRole(r, t, "demote", "student")
  <2>1. /\ account'[t].st = account[t].st /\ account'[t].banned = account[t].banned
        /\ account'[t].password = account[t].password /\ account'[t].google = account[t].google
        /\ visitor[r].deed \in {"promote", "unban"} => account'[t].role = "admin"
        BY <1>1, <1>2 DEF SetRole, AccountsTypeOK, UserRows
  <2> QED
      BY <1>1, <2>1 DEF t, Exists, Rulers, Admins
<1>3. CASE BanUser(r, t) \/ UnbanUser(r, t)
  <2>1. /\ account'[t].st = account[t].st /\ account'[t].role = account[t].role
        /\ account'[t].password = account[t].password /\ account'[t].google = account[t].google
        /\ visitor[r].deed \in {"promote", "unban"} => account'[t].banned = FALSE
        BY <1>1, <1>3 DEF BanUser, UnbanUser, AccountsTypeOK, UserRows
  <2> QED
      BY <1>1, <2>1 DEF t, Exists, Rulers, Admins
<1>4. CASE Delete(r, t)
  <2>1. account'[t].st = "gone" /\ visitor[r].deed = "delete"
        BY <1>1, <1>4 DEF Delete, AccountsTypeOK, NoUser
  <2> QED
      BY <1>1, <2>1 DEF t
<1> QED
    BY <1>2, <1>3, <1>4 DEF Act, t

LEMMA NextPanel ==
  ASSUME AccountsTypeOK, VisitsAreSound, UsersAreSound, PanelStaysOpen, AccountsNext
  PROVE  PanelStaysOpen'
<1>1. CASE UNCHANGED <<account, stale>>
      BY <1>1 DEF PanelStaysOpen, Rulers, Admins, Exists
<1>2. ASSUME NEW t \in Users, stale' = stale, Admits(t)
      PROVE  PanelStaysOpen'
  <2>1. ASSUME NEW u \in Rulers PROVE u \in Rulers'
    <3>1. CASE u = t
          BY <1>2, <3>1 DEF Admits, Rulers, Admins, Exists
    <3>2. CASE u # t
          BY <1>2, <3>2 DEF Admits, Touches, Rulers, Admins, Exists
    <3> QED
        BY <3>1, <3>2
  <2> QED
      BY <1>2, <2>1 DEF PanelStaysOpen
<1>3. ASSUME NEW r \in Visitors, Act(r), Touches(visitor[r].who)
      PROVE  PanelStaysOpen'
  <2> DEFINE t == visitor[r].who
             a == visitor[r].by
  <2>1. \A u \in Rulers \ {t} : u \in Rulers'
        BY <1>3 DEF Touches, Rulers, Admins, Exists
  <2>2. stale' = (stale \/ (t \in Rulers /\ a \notin Rulers))
        BY <1>3 DEF Act, NotesStale
  <2>3. CASE t \notin Rulers
        BY <2>1, <2>2, <2>3 DEF PanelStaysOpen
  <2>4. CASE t \in Rulers /\ a \notin Rulers
        BY <2>2, <2>4 DEF PanelStaysOpen
  <2>5. CASE t \in Rulers /\ a \in Rulers
    <3>1. a = t => visitor[r].deed \in {"promote", "unban"}
          BY <1>3 DEF Act, Stands, VisitsAreSound, Permitted
    <3>2. CASE a # t
          BY <2>1, <2>5, <3>2 DEF PanelStaysOpen
    <3>3. CASE a = t
          BY <1>3, <2>5, <3>1, <3>3, ActWrites DEF PanelStaysOpen
    <3> QED
        BY <3>2, <3>3
  <2> QED
      BY <2>3, <2>4, <2>5
<1> QED
    BY <1>1, <1>2, <1>3, AccountWrites

LEMMA NextWayIn ==
  ASSUME AccountsTypeOK, VisitsAreSound, UsersAreSound, EveryUserHasAWayIn, AccountsNext
  PROVE  EveryUserHasAWayIn'
<1>1. CASE UNCHANGED <<account, stale>>
      BY <1>1 DEF EveryUserHasAWayIn, Exists
<1>2. ASSUME NEW t \in Users, Admits(t)
      PROVE  EveryUserHasAWayIn'
      BY <1>2 DEF Admits, Touches, EveryUserHasAWayIn, Exists
<1>3. ASSUME NEW r \in Visitors, Act(r), Touches(visitor[r].who)
      PROVE  EveryUserHasAWayIn'
  <2>1. /\ visitor[r].who \in Users /\ Exists(visitor[r].who)
        /\ account'[visitor[r].who].st = "here" =>
              /\ account'[visitor[r].who].password = account[visitor[r].who].password
              /\ account'[visitor[r].who].google = account[visitor[r].who].google
        BY <1>3, ActWrites DEF Exists
  <2> QED
      BY <1>3, <2>1 DEF Touches, EveryUserHasAWayIn, Exists
<1> QED
    BY <1>1, <1>2, <1>3, AccountWrites

(* Eras begin one at a time, and only of a user who is there.              *)
LEMMA EraWrites ==
  ASSUME AccountsTypeOK, VisitsAreSound, UsersAreSound, AccountsNext
  PROVE  \A u \in Users : era[u] <= era'[u] /\ (account[u].st = "none" => era'[u] = era[u])
<1> DEFINE Goal == \A u \in Users :
              era[u] <= era'[u] /\ (account[u].st = "none" => era'[u] = era[u])
<1>1. ASSUME NEW u \in Users, NewEra(u), Exists(u) PROVE Goal
  <2>1. \A w \in Users : era[w] \in Nat
        BY DEF AccountsTypeOK, Eras
  <2> QED
      BY <1>1, <2>1 DEF NewEra, Exists, AccountsTypeOK
<1>2. ASSUME UNCHANGED era PROVE Goal
      BY <1>2 DEF AccountsTypeOK, Eras
<1> HIDE DEF Goal
<1>3. ASSUME NEW r \in Visitors, NEW u \in Users, SignOutEverywhere(r, u) PROVE Goal
      BY <1>1, <1>3 DEF SignOutEverywhere, Welcome
<1>4. ASSUME NEW r \in Visitors, WritePassword(r) PROVE Goal
      BY <1>1, <1>4 DEF WritePassword, VisitsAreSound, Stands
<1>5. ASSUME NEW r \in Visitors, NEW l \in Links, ResetPassword(r, l) PROVE Goal
      BY <1>1, <1>5 DEF ResetPassword, UsersAreSound
<1>6. ASSUME NEW r \in Visitors, Act(r) PROVE Goal
  <2>1. visitor[r].who \in Users /\ Exists(visitor[r].who)
        BY <1>6 DEF Act, VisitsAreSound, Stands
  <2>2. NewEra(visitor[r].who) \/ UNCHANGED era
        BY <1>6 DEF Act, SetRole, BanUser, UnbanUser, Delete
  <2> QED
      BY <1>1, <1>2, <2>1, <2>2
<1>7. ASSUME NEW r \in Visitors, NEW u \in Users,
             \/ Login(r, u) \/ Register(r, u) \/ GoogleFinds(r, u)
             \/ ChangePassword(r, u) \/ ForgotPassword(r, u)
             \/ \E a \in Users, deed \in Deeds : Administer(r, a, u, deed)
      PROVE  UNCHANGED era
      BY <1>7 DEF Login, Register, GoogleFinds, ChangePassword, ForgotPassword, Administer
<1>8. ASSUME NEW r \in Visitors,
             \/ GoogleLinks(r) \/ GoogleCreates(r) \/ SignIn(r) \/ VoidLinks(r) \/ InsertLink(r)
             \/ RevokeSessions(r) \/ LookAtTarget(r) \/ CountAdmins(r) \/ Breaks(r)
      PROVE  UNCHANGED era
      BY <1>8 DEF GoogleLinks, GoogleCreates, SignIn, VoidLinks, InsertLink, RevokeSessions,
                  LookAtTarget, CountAdmins, Breaks
<1>9. ASSUME (\E u \in Users, e \in Eras : SignOut(u, e)) \/ \E l \in Links : LinkExpires(l)
      PROVE  UNCHANGED era
      BY <1>9 DEF SignOut, LinkExpires
<1>10. Goal
       BY <1>2, <1>3, <1>4, <1>5, <1>6, <1>7, <1>8, <1>9 DEF AccountsNext
<1> QED
    BY <1>10 DEF Goal

(* A link is inserted, or some that are open die.                          *)
LEMMA LinkWrites ==
  ASSUME AccountsTypeOK, VisitsAreSound, UsersAreSound, AccountsNext
  PROVE  \/ \E r \in Visitors : InsertLink(r)
         \/ \A l \in Links : link'[l] = link[l] \/ (link[l].st = "open" /\ link'[l] = Dead)
<1> DEFINE Goal ==
      \A l \in Links : link'[l] = link[l] \/ (link[l].st = "open" /\ link'[l] = Dead)
<1>1. ASSUME NEW r \in Visitors, VoidLinks(r) PROVE Goal
      BY <1>1 DEF VoidLinks, OpenLinks
<1>2. ASSUME NEW r \in Visitors, NEW k \in Links, ResetPassword(r, k) PROVE Goal
      BY <1>2 DEF ResetPassword, AccountsTypeOK
<1>3. ASSUME NEW k \in Links, LinkExpires(k) PROVE Goal
      BY <1>3 DEF LinkExpires, AccountsTypeOK
<1>4. ASSUME NEW r \in Visitors, Act(r) PROVE Goal
      BY <1>4 DEF Act, SetRole, BanUser, UnbanUser, Delete, OpenLinks
<1>5. ASSUME UNCHANGED link PROVE Goal
      BY <1>5
<1> HIDE DEF Goal
<1>6. ASSUME NEW r \in Visitors, NEW u \in Users,
             \/ Login(r, u) \/ Register(r, u) \/ GoogleFinds(r, u)
             \/ ChangePassword(r, u) \/ ForgotPassword(r, u) \/ SignOutEverywhere(r, u)
             \/ \E a \in Users, deed \in Deeds : Administer(r, a, u, deed)
      PROVE  UNCHANGED link
      BY <1>6 DEF Login, Register, GoogleFinds, ChangePassword, ForgotPassword, Administer,
                  SignOutEverywhere
<1>7. ASSUME NEW r \in Visitors,
             \/ GoogleLinks(r) \/ GoogleCreates(r) \/ SignIn(r) \/ WritePassword(r)
             \/ RevokeSessions(r) \/ LookAtTarget(r) \/ CountAdmins(r) \/ Breaks(r)
      PROVE  UNCHANGED link
      BY <1>7 DEF GoogleLinks, GoogleCreates, SignIn, WritePassword, RevokeSessions,
                  LookAtTarget, CountAdmins, Breaks
<1>8. ASSUME NEW u \in Users, NEW e \in Eras, SignOut(u, e) PROVE UNCHANGED link
      BY <1>8 DEF SignOut
<1>9. (\E r \in Visitors : InsertLink(r)) \/ Goal
      BY <1>1, <1>2, <1>3, <1>4, <1>5, <1>6, <1>7, <1>8 DEF AccountsNext
<1> QED
    BY <1>9 DEF Goal

(* cleared changes with revokeAllSessions alone.                           *)
LEMMA ClearedWrites ==
  ASSUME AccountsTypeOK, VisitsAreSound, AccountsNext
  PROVE  \A u \in Users : \/ cleared'[u] = cleared[u]
                         \/ \E r \in Visitors : /\ RevokeSessions(r) /\ visitor[r].who = u
                                                /\ cleared'[u] = visitor[r].seen
<1> DEFINE Goal == \A u \in Users : \/ cleared'[u] = cleared[u]
                                   \/ \E r \in Visitors : /\ RevokeSessions(r) /\ visitor[r].who = u
                                                          /\ cleared'[u] = visitor[r].seen
<1>1. ASSUME NEW r \in Visitors, RevokeSessions(r) PROVE Goal
  <2>1. visitor[r].who \in Users
        BY <1>1 DEF RevokeSessions, Stands, VisitsAreSound
  <2>2. PICK e : /\ cleared' = [cleared EXCEPT ![visitor[r].who] = e]
                 /\ e \in {visitor[r].seen, cleared[visitor[r].who]}
        BY <1>1 DEF RevokeSessions
  <2> QED
      BY <1>1, <2>1, <2>2 DEF AccountsTypeOK
<1>2. ASSUME UNCHANGED cleared PROVE Goal
      BY <1>2
<1> HIDE DEF Goal
<1>3. ASSUME NEW r \in Visitors, NEW u \in Users,
             \/ Login(r, u) \/ Register(r, u) \/ GoogleFinds(r, u)
             \/ ChangePassword(r, u) \/ ForgotPassword(r, u) \/ SignOutEverywhere(r, u)
             \/ \E a \in Users, deed \in Deeds : Administer(r, a, u, deed)
      PROVE  UNCHANGED cleared
      BY <1>3 DEF Login, Register, GoogleFinds, ChangePassword, ForgotPassword, Administer,
                  SignOutEverywhere
<1>4. ASSUME NEW r \in Visitors,
             \/ GoogleLinks(r) \/ GoogleCreates(r) \/ SignIn(r) \/ WritePassword(r) \/ VoidLinks(r)
             \/ InsertLink(r) \/ LookAtTarget(r) \/ CountAdmins(r) \/ Breaks(r)
             \/ Act(r) \/ \E l \in Links : ResetPassword(r, l)
      PROVE  UNCHANGED cleared
      BY <1>4 DEF GoogleLinks, GoogleCreates, SignIn, WritePassword, VoidLinks, InsertLink,
                  LookAtTarget, CountAdmins, Breaks, Act, ResetPassword
<1>5. ASSUME (\E u \in Users, e \in Eras : SignOut(u, e)) \/ \E l \in Links : LinkExpires(l)
      PROVE  UNCHANGED cleared
      BY <1>5 DEF SignOut, LinkExpires
<1>6. Goal
      BY <1>1, <1>2, <1>3, <1>4, <1>5 DEF AccountsNext
<1> QED
    BY <1>6 DEF Goal

LEMMA NextUsers ==
  ASSUME AccountsTypeOK, AccountsTypeOK', VisitsAreSound, UsersAreSound, AccountsNext
  PROVE  UsersAreSound'
<1>1. ASSUME NEW u \in Users PROVE cleared'[u] <= era'[u]
  <2>1. /\ era[u] \in Nat /\ era'[u] \in Nat /\ cleared[u] \in Nat
        /\ era[u] <= era'[u] /\ cleared[u] <= era[u]
        BY EraWrites DEF AccountsTypeOK, Eras, UsersAreSound
  <2>2. ASSUME NEW r \in Visitors, RevokeSessions(r), visitor[r].who = u
        PROVE  visitor[r].seen <= era[u] /\ visitor[r].seen \in Nat
        BY <2>2 DEF RevokeSessions, Stands, VisitsAreSound, AccountsTypeOK, Visits, Eras
  <2>3. CASE cleared'[u] = cleared[u]
        BY <2>1, <2>3
  <2>4. ASSUME NEW r \in Visitors, RevokeSessions(r), visitor[r].who = u,
               cleared'[u] = visitor[r].seen
        PROVE  cleared'[u] <= era'[u]
        BY <2>1, <2>2, <2>4
  <2> QED
      BY <2>3, <2>4, ClearedWrites
<1>2. ASSUME NEW u \in Users, account'[u].st = "none" PROVE account[u].st = "none"
  <2>1. CASE UNCHANGED <<account, stale>>
        BY <1>2, <2>1
  <2>2. ASSUME NEW r \in Visitors, Act(r), Touches(visitor[r].who)
        PROVE  account[u].st = "none"
        BY <1>2, <2>2, ActWrites DEF Touches
  <2>3. ASSUME NEW t \in Users, Admits(t)
        PROVE  account[u].st = "none"
        BY <1>2, <2>3 DEF Admits, Touches
  <2> QED
      BY <2>1, <2>2, <2>3, AccountWrites
<1>3. \A u \in Users : account'[u].st = "none" => era'[u] = 0
      BY <1>2, EraWrites DEF UsersAreSound
<1>4. ASSUME NEW l \in Links, link'[l].st = "open"
      PROVE  link'[l].who \in Users /\ account'[link'[l].who].st = "here"
  <2>1. ASSUME NEW r \in Visitors, InsertLink(r)
        PROVE  link'[l].who \in Users /\ account'[link'[l].who].st = "here"
    <3>1. /\ visitor[r].who \in Users /\ Exists(visitor[r].who) /\ account' = account
          /\ link'[l] = link[l] \/ link'[l].who = visitor[r].who
          BY <2>1 DEF InsertLink, Stands, VisitsAreSound, AccountsTypeOK
    <3> QED
        BY <1>4, <3>1 DEF UsersAreSound, Exists
  <2>2. CASE link'[l] = link[l] \/ (link[l].st = "open" /\ link'[l] = Dead)
    <3> DEFINE u == link[l].who
    <3>1. link'[l] = link[l] /\ u \in Users /\ Exists(u)
          BY <1>4, <2>2 DEF UsersAreSound, Dead, NoLink
    <3>2. CASE UNCHANGED <<account, stale>>
          BY <3>1, <3>2 DEF Exists
    <3>3. ASSUME NEW t \in Users, Admits(t)
          PROVE  account'[u].st = "here"
          BY <3>1, <3>3 DEF Admits, Touches, Exists
    <3>4. ASSUME NEW r \in Visitors, Act(r), Touches(visitor[r].who)
          PROVE  account'[u].st = "here"
      <4>1. CASE u # visitor[r].who
            BY <3>1, <3>4, <4>1 DEF Touches, Exists
      <4>2. CASE u = visitor[r].who /\ account'[u].st = "gone"
        <5>1. Delete(r, u)
          <6>1. account[u] \in UserRows /\ account[u].st = "here" /\ account \in [Users -> UserRows]
                BY <3>1 DEF AccountsTypeOK, Exists
          <6>2. \/ SetRole(r, u, "promote", "admin") \/ SetRole(r, u, "demote", "student")
                \/ BanUser(r, u) \/ UnbanUser(r, u) \/ Delete(r, u)
                BY <3>4, <4>2 DEF Act
          <6>3. ASSUME NEW role, SetRole(r, u, visitor[r].deed, role) PROVE FALSE
                BY <3>1, <4>2, <6>1, <6>3 DEF SetRole, UserRows
          <6>4. CASE BanUser(r, u) \/ UnbanUser(r, u)
                BY <3>1, <4>2, <6>1, <6>4 DEF BanUser, UnbanUser, UserRows
          <6> QED
              BY <6>2, <6>3, <6>4 DEF SetRole
        <5>2. link'[l] = Dead
              BY <1>4, <3>1, <5>1 DEF Delete, OpenLinks
        <5> QED
            BY <1>4, <5>2 DEF Dead, NoLink
      <4> QED
          BY <3>4, <4>1, <4>2, ActWrites
    <3> QED
        BY <3>1, <3>2, <3>3, <3>4, AccountWrites
  <2> QED
      BY <2>1, <2>2, LinkWrites
<1> QED
    BY <1>1, <1>3, <1>4 DEF UsersAreSound, Exists

-----------------------------------------------------------------------------
(* Links.                                                                  *)

(* Where requests for links stand after a step.                            *)
LEMMA InsertersWait ==
  ASSUME AccountsTypeOK, AccountsNext, NEW r \in Visitors, visitor'[r].pc = "inserting"
  PROVE  visitor'[r] = visitor[r] \/ VoidLinks(r)
<1> DEFINE Goal == visitor'[r] = visitor[r] \/ VoidLinks(r)
<1>1. ASSUME NEW q \in Visitors, NEW u \in Users,
             \/ Login(q, u) \/ Register(q, u) \/ GoogleFinds(q, u)
             \/ ChangePassword(q, u) \/ ForgotPassword(q, u)
      PROVE  Goal
  <2>1. PICK pc \in {"signing", "linking", "creating", "changing", "voiding"} : Comes(q, pc, u)
        BY <1>1 DEF Login, Register, GoogleFinds, ChangePassword, ForgotPassword
  <2> QED
      BY <2>1 DEF Comes, Rest, AccountsTypeOK
<1>2. ASSUME NEW q \in Visitors, NEW u \in Users, Revokes(q, u)
      PROVE  Goal
  <2>1. visitor[q] \in Visits
        BY DEF AccountsTypeOK
  <2>2. visitor' = [visitor EXCEPT ![q] = [visitor[q] EXCEPT
                       !.pc = "revoking", !.who = u, !.seen = era'[u]]]
        BY <1>2 DEF Revokes
  <2>3. [visitor[q] EXCEPT !.pc = "revoking", !.who = u, !.seen = era'[u]].pc = "revoking"
        BY <2>1 DEF Visits
  <2> QED
      BY <2>2, <2>3 DEF AccountsTypeOK
<1>3. ASSUME NEW q \in Visitors, NEW pc \in {"signing", "counting", "acting"},
             Rests(q) \/ Moves(q, pc)
      PROVE  Goal
      BY <1>3 DEF Rests, Moves, Rest, AccountsTypeOK, Visits
<1>4. ASSUME NEW q \in Visitors, NEW u \in Users, NEW a \in Users, NEW deed \in Deeds,
             Administer(q, a, u, deed)
      PROVE  Goal
      BY <1>4 DEF Administer, Rest, AccountsTypeOK
<1>5. ASSUME NEW q \in Visitors, VoidLinks(q)
      PROVE  Goal
      BY <1>5 DEF VoidLinks, AccountsTypeOK
<1>6. ASSUME (\E u \in Users, e \in Eras : SignOut(u, e)) \/ \E l \in Links : LinkExpires(l)
      PROVE  Goal
      BY <1>6 DEF SignOut, LinkExpires
<1>7. ASSUME NEW q \in Visitors,
             \/ GoogleLinks(q) \/ GoogleCreates(q) \/ SignIn(q) \/ InsertLink(q)
             \/ RevokeSessions(q) \/ LookAtTarget(q) \/ CountAdmins(q) \/ Breaks(q)
      PROVE  \E pc \in {"signing", "counting", "acting"} : Rests(q) \/ Moves(q, pc)
      BY <1>7 DEF GoogleLinks, GoogleCreates, SignIn, InsertLink, RevokeSessions,
                  LookAtTarget, CountAdmins, Breaks
<1> HIDE DEF Goal
<1>8. ASSUME NEW q \in Visitors,
             WritePassword(q) \/ Act(q) \/ \E l \in Links : ResetPassword(q, l)
      PROVE  Goal
  <2>1. CASE Rests(q)
        BY <1>3, <2>1
  <2>2. ASSUME NEW u, Revokes(q, u) PROVE Goal
    <3>1. visitor[q] \in Visits
          BY DEF AccountsTypeOK
    <3>2. [visitor[q] EXCEPT !.pc = "revoking", !.who = u, !.seen = era'[u]].pc = "revoking"
          BY <3>1 DEF Visits
    <3> QED
        BY <2>2, <3>2 DEF Revokes, AccountsTypeOK, Goal
  <2> QED
      BY <1>8, <2>1, <2>2 DEF WritePassword, Act, ResetPassword, SetRole, BanUser, UnbanUser, Delete
<1>9. ASSUME NEW q \in Visitors, NEW u \in Users, SignOutEverywhere(q, u) PROVE Goal
      BY <1>2, <1>9 DEF SignOutEverywhere
<1>10. ASSUME NEW q \in Visitors,
             \/ GoogleLinks(q) \/ GoogleCreates(q) \/ SignIn(q) \/ InsertLink(q)
             \/ RevokeSessions(q) \/ LookAtTarget(q) \/ CountAdmins(q) \/ Breaks(q)
      PROVE  Goal
      BY <1>3, <1>7, <1>10
<1>11. Goal
      BY <1>1, <1>4, <1>5, <1>6, <1>8, <1>9, <1>10 DEF AccountsNext
<1> QED
    BY <1>11 DEF Goal

LEMMA LinkInserted ==
  ASSUME AccountsTypeOK, VisitsAreSound, NEW q \in Visitors, InsertLink(q)
  PROVE  \E n \in Links :
            /\ link[n].st = "none" /\ visitor[q].pc = "inserting"
            /\ link'[n].st = "open" /\ link'[n].who = visitor[q].who
            /\ link'[n].saw = visitor[q].saw
            /\ \A l \in Links \ {n} : link'[l] = link[l]
BY DEF InsertLink, Stands, AccountsTypeOK

LEMMA NextLinks ==
  ASSUME AccountsTypeOK, VisitsAreSound, UsersAreSound, LinksAreSound, AccountsNext
  PROVE  LinksAreSound'
<1>1. ASSUME NEW r \in Visitors, visitor'[r].pc = "inserting", NEW l \in visitor'[r].saw,
             VoidLinks(r)
      PROVE  link'[l].st # "none" /\ ~(link'[l].st = "open" /\ link'[l].who = visitor'[r].who)
  <2>1. visitor[r] \in Visits /\ link \in [Links -> LinkRows]
        BY DEF AccountsTypeOK
  <2>2. l \in Links /\ link[l].st # "none" /\ visitor'[r].who = visitor[r].who
        BY <1>1, <2>1 DEF VoidLinks, AccountsTypeOK, Visits
  <2>3. CASE l \in OpenLinks(visitor[r].who)
        BY <1>1, <2>2, <2>3 DEF VoidLinks, Dead, NoLink
  <2>4. CASE l \notin OpenLinks(visitor[r].who)
        BY <1>1, <2>2, <2>4 DEF VoidLinks, OpenLinks
  <2> QED
      BY <2>3, <2>4
<1>2. ASSUME NEW r \in Visitors, visitor[r].pc = "inserting", NEW l \in visitor[r].saw
      PROVE  link'[l].st # "none" /\ ~(link'[l].st = "open" /\ link'[l].who = visitor[r].who)
  <2>1. l \in Links /\ link[l].st # "none" /\ l \notin OpenLinks(visitor[r].who)
        BY <1>2 DEF LinksAreSound, AccountsTypeOK, Visits
  <2>2. CASE \E q \in Visitors : InsertLink(q)
        BY <2>1, <2>2, LinkInserted DEF OpenLinks
  <2>3. CASE link'[l] = link[l] \/ (link[l].st = "open" /\ link'[l] = Dead)
        BY <2>1, <2>3 DEF OpenLinks, Dead, NoLink
  <2> QED
      BY <2>1, <2>2, <2>3, LinkWrites
<1>3. ASSUME NEW k \in Links, NEW l \in link'[k].saw
      PROVE  link'[l].st # "none"
  <2>1. ASSUME NEW m \in Links, link[m].st # "none" PROVE link'[m].st # "none"
        BY <2>1, LinkWrites, LinkInserted DEF Dead, NoLink
  <2>2. CASE \E q \in Visitors : InsertLink(q)
    <3>1. PICK q \in Visitors : InsertLink(q)
          BY <2>2
    <3>2. \/ l \in visitor[q].saw /\ visitor[q].pc = "inserting"
          \/ l \in link[k].saw
          BY <1>3, <3>1, LinkInserted
    <3>3. l \in Links /\ link[l].st # "none"
          BY <3>2 DEF LinksAreSound, AccountsTypeOK, Visits, LinkRows
    <3> QED
        BY <2>1, <3>3
  <2>3. CASE link'[k] = link[k] \/ (link[k].st = "open" /\ link'[k] = Dead)
    <3>1. l \in link[k].saw
          BY <1>3, <2>3 DEF Dead, NoLink
    <3>2. l \in Links /\ link[l].st # "none"
          BY <3>1 DEF LinksAreSound, AccountsTypeOK, LinkRows
    <3> QED
        BY <2>1, <3>2
  <2> QED
      BY <2>2, <2>3, LinkWrites
<1>4. ASSUME NEW r \in Visitors, visitor'[r].pc = "inserting", NEW l \in visitor'[r].saw
      PROVE  link'[l].st # "none" /\ ~(link'[l].st = "open" /\ link'[l].who = visitor'[r].who)
      BY <1>1, <1>2, <1>4, InsertersWait
<1> QED
    BY <1>3, <1>4 DEF LinksAreSound, OpenLinks

LEMMA NextMeet ==
  ASSUME AccountsTypeOK, VisitsAreSound, UsersAreSound, LinksAreSound, LinksOnlyMeetInFlight,
         AccountsNext
  PROVE  LinksOnlyMeetInFlight'
<1> SUFFICES ASSUME NEW u \in Users, NEW l \in Links, NEW k \in Links,
                    link'[l].st = "open", link'[l].who = u,
                    link'[k].st = "open", link'[k].who = u, l \in link'[k].saw
             PROVE  FALSE
    BY DEF LinksOnlyMeetInFlight, OpenLinks
<1>1. ASSUME NEW q \in Visitors, InsertLink(q) PROVE FALSE
  <2>1. PICK n \in Links :
            /\ link[n].st = "none" /\ visitor[q].pc = "inserting"
            /\ link'[n].st = "open" /\ link'[n].who = visitor[q].who
            /\ link'[n].saw = visitor[q].saw
            /\ \A m \in Links \ {n} : link'[m] = link[m]
        BY <1>1, LinkInserted
  <2>2. CASE k = n
    <3>1. link[l].st # "none" /\ l \notin OpenLinks(u)
          BY <2>1, <2>2 DEF LinksAreSound
    <3>2. link'[l] = link[l]
          BY <2>1, <3>1
    <3> QED
        BY <3>1, <3>2 DEF OpenLinks
  <2>3. CASE k # n
    <3>1. link'[k] = link[k] /\ link[l].st # "none"
          BY <2>1, <2>3 DEF LinksAreSound
    <3>2. link'[l] = link[l]
          BY <2>1, <3>1
    <3> QED
        BY <3>1, <3>2 DEF OpenLinks, LinksOnlyMeetInFlight
  <2> QED
      BY <2>2, <2>3
<1>2. CASE \A m \in Links : link'[m] = link[m] \/ (link[m].st = "open" /\ link'[m] = Dead)
  <2>1. link'[l] = link[l] /\ link'[k] = link[k]
        BY <1>2 DEF Dead, NoLink
  <2> QED
      BY <2>1 DEF OpenLinks, LinksOnlyMeetInFlight
<1> QED
    BY <1>1, <1>2, LinkWrites

-----------------------------------------------------------------------------
(* Sessions.                                                               *)

(* A session comes with a sign-in, and all of them go when cleared changes. *)
LEMMA LiveWrites ==
  ASSUME AccountsTypeOK, VisitsAreSound, AccountsNext
  PROVE  \/ \E r \in Visitors : SignIn(r)
         \/ \E r \in Visitors : RevokeSessions(r)
         \/ (\A u \in Users : live'[u] \subseteq live[u]) /\ UNCHANGED cleared
<1> DEFINE Goal == (\A u \in Users : live'[u] \subseteq live[u]) /\ UNCHANGED cleared
<1>1. ASSUME NEW u \in Users, NEW e \in Eras, SignOut(u, e) PROVE Goal
      BY <1>1 DEF SignOut, AccountsTypeOK
<1>2. ASSUME NEW r \in Visitors, Act(r) PROVE Goal
  <2>1. cleared' = cleared
        BY <1>2 DEF Act
  <2>2. \A u \in Users : live'[u] = live[u] \/ live'[u] = {}
        BY <1>2 DEF Act, SetRole, BanUser, UnbanUser, Delete, AccountsTypeOK
  <2> QED
      BY <2>1, <2>2
<1>3. ASSUME UNCHANGED <<live, cleared>> PROVE Goal
      BY <1>3
<1> HIDE DEF Goal
<1>4. ASSUME NEW r \in Visitors, NEW u \in Users,
             \/ Login(r, u) \/ Register(r, u) \/ GoogleFinds(r, u)
             \/ ChangePassword(r, u) \/ ForgotPassword(r, u) \/ SignOutEverywhere(r, u)
             \/ \E a \in Users, deed \in Deeds : Administer(r, a, u, deed)
      PROVE  UNCHANGED <<live, cleared>>
      BY <1>4 DEF Login, Register, GoogleFinds, ChangePassword, ForgotPassword, Administer,
                  SignOutEverywhere
<1>5. ASSUME NEW r \in Visitors,
             \/ GoogleLinks(r) \/ GoogleCreates(r) \/ WritePassword(r) \/ VoidLinks(r)
             \/ InsertLink(r) \/ LookAtTarget(r) \/ CountAdmins(r) \/ Breaks(r)
             \/ \E l \in Links : ResetPassword(r, l)
      PROVE  UNCHANGED <<live, cleared>>
      BY <1>5 DEF GoogleLinks, GoogleCreates, WritePassword, VoidLinks, InsertLink,
                  LookAtTarget, CountAdmins, Breaks, ResetPassword
<1>6. ASSUME NEW l \in Links, LinkExpires(l) PROVE UNCHANGED <<live, cleared>>
      BY <1>6 DEF LinkExpires
<1>7. \/ \E r \in Visitors : SignIn(r)
      \/ \E r \in Visitors : RevokeSessions(r)
      \/ Goal
      BY <1>1, <1>2, <1>3, <1>4, <1>5, <1>6 DEF AccountsNext
<1> QED
    BY <1>7 DEF Goal

LEMMA NextSurvivors ==
  ASSUME AccountsTypeOK, VisitsAreSound, SurvivorsAreNew, AccountsNext
  PROVE  SurvivorsAreNew'
<1>1. ASSUME NEW r \in Visitors, SignIn(r) PROVE SurvivorsAreNew'
  <2>1. /\ visitor[r].who \in Users /\ visitor[r].seen \in Nat
        /\ cleared[visitor[r].who] <= visitor[r].seen /\ cleared[visitor[r].who] \in Nat
        BY <1>1 DEF SignIn, Stands, VisitsAreSound, SigningIn, AccountsTypeOK, Visits, Eras
  <2>2. cleared' = cleared /\ \A u \in Users : \A e \in live'[u] :
           e \in live[u] \/ (u = visitor[r].who /\ e = visitor[r].seen)
        BY <1>1, <2>1 DEF SignIn, AccountsTypeOK
  <2> QED
      BY <2>1, <2>2 DEF SurvivorsAreNew
<1>2. ASSUME NEW r \in Visitors, RevokeSessions(r) PROVE SurvivorsAreNew'
  <2>1. visitor[r].who \in Users
        BY <1>2 DEF RevokeSessions, Stands, VisitsAreSound
  <2>2. /\ live'[visitor[r].who] = {}
        /\ \A u \in Users \ {visitor[r].who} : live'[u] = live[u] /\ cleared'[u] = cleared[u]
        BY <1>2, <2>1 DEF RevokeSessions, RevokesAll, AccountsTypeOK
  <2> QED
      BY <2>2 DEF SurvivorsAreNew
<1>3. CASE (\A u \in Users : live'[u] \subseteq live[u]) /\ UNCHANGED cleared
      BY <1>3 DEF SurvivorsAreNew
<1> QED
    BY <1>1, <1>2, <1>3, LiveWrites

-----------------------------------------------------------------------------
LEMMA AccountsInitInv == AccountsInit => AccountsInv
<1> SUFFICES ASSUME AccountsInit PROVE AccountsInv
    OBVIOUS
<1>1. AccountsTypeOK
      BY InitType
<1>2. UsersAreSound /\ LinksAreSound /\ LinksOnlyMeetInFlight
      BY DEF AccountsInit, UsersAreSound, LinksAreSound, LinksOnlyMeetInFlight, OpenLinks,
             NoLink, Rest
<1>3. VisitsAreSound /\ SurvivorsAreNew
      BY DEF AccountsInit, VisitsAreSound, Rest, SurvivorsAreNew
<1>4. PanelStaysOpen
  <2>1. PICK seeds \in (SUBSET Users) \ {{}} :
          account = [u \in Users |-> IF u \in seeds
                      THEN [NoUser EXCEPT !.st = "here", !.role = "admin", !.password = TRUE]
                      ELSE NoUser]
        BY DEF AccountsInit
  <2>2. PICK u \in Users : u \in seeds
        BY <2>1
  <2>3. account[u].st = "here" /\ account[u].role = "admin" /\ account[u].banned = FALSE
        BY <2>1, <2>2 DEF NoUser
  <2> QED
      BY <2>2, <2>3 DEF PanelStaysOpen, Rulers, Admins, Exists
<1>5. EveryUserHasAWayIn
      BY DEF AccountsInit, EveryUserHasAWayIn, NoUser, Exists
<1> QED
    BY <1>1, <1>2, <1>3, <1>4, <1>5 DEF AccountsInv

LEMMA AccountsNextInv == AccountsInv /\ [AccountsNext]_accountsVars => AccountsInv'
<1> SUFFICES ASSUME AccountsInv, [AccountsNext]_accountsVars PROVE AccountsInv'
    OBVIOUS
<1> USE DEF AccountsInv
<1>1. CASE UNCHANGED accountsVars
  <2>1. AccountsTypeOK' /\ UsersAreSound' /\ VisitsAreSound' /\ LinksAreSound'
        BY <1>1 DEF accountsVars, AccountsTypeOK, UsersAreSound, VisitsAreSound, LinksAreSound,
                    Exists, OpenLinks
  <2>2. SurvivorsAreNew' /\ LinksOnlyMeetInFlight' /\ PanelStaysOpen' /\ EveryUserHasAWayIn'
        BY <1>1 DEF accountsVars, SurvivorsAreNew, LinksOnlyMeetInFlight, PanelStaysOpen,
                    EveryUserHasAWayIn, Exists, OpenLinks, Rulers, Admins
  <2> QED
      BY <2>1, <2>2
<1>2. CASE AccountsNext
  <2>1. AccountsTypeOK'
        BY <1>2, NextType
  <2> QED
      BY <1>2, <2>1, NextVisits, NextUsers, NextLinks, NextMeet, NextSurvivors, NextPanel, NextWayIn
<1> QED
    BY <1>1, <1>2

THEOREM AccountsInvariance == AccountsSpec => []AccountsInv
<1> QED
    BY AccountsInitInv, AccountsNextInv, PTL DEF AccountsSpec

(* The rows, the requests and the history have their types.                *)
THEOREM AccountsTypeCorrectness == AccountsSpec => []AccountsTypeOK
<1>1. AccountsInv => AccountsTypeOK
      BY DEF AccountsInv
<1> QED
    BY <1>1, AccountsInvariance, PTL

(* revokeAllSessions after a new password, a ban or a wish of the user's    *)
(* leaves no session of an older right, nor does one come back, unless a    *)
(* sign-in was under way (change-password, reset-password, user-actions).   *)
THEOREM NoSurvivors == AccountsSpec => []SurvivorsAreNew
<1>1. AccountsInv => SurvivorsAreNew
      BY DEF AccountsInv
<1> QED
    BY <1>1, AccountsInvariance, PTL

(* Two links of forgot-password that work at once come from requests that  *)
(* overlapped.                                                             *)
THEOREM LinksMeet == AccountsSpec => []LinksOnlyMeetInFlight
<1>1. AccountsInv => LinksOnlyMeetInFlight
      BY DEF AccountsInv
<1> QED
    BY <1>1, AccountsInvariance, PTL

(* Every order of promotions, demotions, bans and deletions leaves an      *)
(* administrator who is let in, unless one of them was decided by somebody *)
(* who had lost the right since it was looked at (user-actions.ts).        *)
THEOREM OpenPanel == AccountsSpec => []PanelStaysOpen
<1>1. AccountsInv => PanelStaysOpen
      BY DEF AccountsInv
<1> QED
    BY <1>1, AccountsInvariance, PTL

(* Registration, Google's two branches and the seeds: nobody is left       *)
(* without a password and without an identity (link-account.ts).           *)
THEOREM WayIn == AccountsSpec => []EveryUserHasAWayIn
<1>1. AccountsInv => EveryUserHasAWayIn
      BY DEF AccountsInv
<1> QED
    BY <1>1, AccountsInvariance, PTL
-----------------------------------------------------------------------------
\* Whatever Server does is a behaviour of the accounts, one of the browsers and
\* one of the codes: none touches a variable of another.
THEOREM ServerIsAll == ServerSpec => AccountsSpec /\ CookiesSpec /\ CodesSpec
<1>1. ServerInit => AccountsInit /\ CookiesInit /\ CodesInit
  BY DEF ServerInit
<1>2. [ServerNext]_serverVars =>
        [AccountsNext]_accountsVars /\ [CookiesNext]_allVars /\ [CodesNext]_codesVars
  BY DEF ServerNext, serverVars
<1> QED
  BY <1>1, <1>2, PTL DEF ServerSpec, AccountsSpec, CookiesSpec, CodesSpec

\* The rows, requests, cookies and answers of all three keep their types.
THEOREM ServerTypeCorrectness == ServerSpec => []ServerTypeOK
<1>1. CookiesInv => CookiesTypeOK
  BY DEF CookiesInv
<1>2. AccountsTypeOK /\ CookiesTypeOK /\ CodesTypeOK => ServerTypeOK
  BY DEF ServerTypeOK
<1> QED
  BY <1>1, <1>2, ServerIsAll, AccountsTypeCorrectness, CookiesInvariance,
     CodesTypeCorrectness, PTL
=============================================================================
