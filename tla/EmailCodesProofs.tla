--------------------------- MODULE EmailCodesProofs ---------------------------
(***************************************************************************)
(* Proofs about EmailCodes, for any number of rows and requests and any    *)
(* configuration.  The invariant adds to the properties what they rest on: *)
(* a comparison is always paid for with an attempt, what was of no use to  *)
(* a request stays so, and a row that is picked was not expired.           *)
(***************************************************************************)
EXTENDS EmailCodes, FiniteSetTheorems, TLAPS

Paid == \A c \in Code : compared[c] <= attempts[c]

(* What a request knows about the rows it has to do with.                  *)
Fits(r) ==
  LET code == req[r].code
      dead == req[r].dead
  IN  /\ \A c \in dead : c \in issued /\ Useless(c)
      /\ Doing(r, "counting") /\ code \in dead =>
           consumed[code] \/ attempts[code] >= MaxAttempts
      /\ req[r].pc \in {"consuming", "verifying"} => code \notin dead /\ compared[code] > 0
      /\ Doing(r, "verifying") => consumed[code]

Confirmed == emailVerified => \E c \in issued : consumed[c] /\ compared[c] > 0

CodesInv == /\ CodesTypeOK /\ Paid /\ GuessesAreLimited
            /\ \A r \in Req : Fits(r)
            /\ Confirmed

(* The table only ever grows, and what is spent stays spent.               *)
Grows ==
  /\ minute <= minute' /\ issued \subseteq issued'
  /\ \A c \in issued : createdAt'[c] = createdAt[c]
  /\ \A c \in Code : /\ consumed[c] => consumed'[c]
                     /\ attempts[c] <= attempts'[c]
                     /\ compared[c] <= compared'[c]
-----------------------------------------------------------------------------
LEMMA ConfigNat == /\ MaxAttempts \in Nat /\ MaxPerEmail \in Nat /\ Cooldown \in Nat
                   /\ CodeTtl \in Nat /\ Window \in Nat /\ MaxMinute \in Nat
  BY CodesAssumption

\* The request that moves to pc, or ends; all others stay as they are.
LEMMA ReqGoes ==
  ASSUME CodesTypeOK, NEW r \in Req, NEW pc \in Issuing \cup Checking \cup Replies, Goes(r, pc)
  PROVE  /\ req' \in [Req -> CodeRequests]
         /\ req'[r].pc = pc /\ req'[r].code = req[r].code
         /\ req'[r].guess = req[r].guess /\ req'[r].dead = req[r].dead
         /\ \A q \in Req : q # r => req'[q] = req[q]
  BY DEF CodesTypeOK, Goes, CodeRequests

LEMMA ReqEnds ==
  ASSUME CodesTypeOK, NEW r \in Req, NEW answer \in Replies, Ends(r, answer)
  PROVE  /\ req' \in [Req -> CodeRequests]
         /\ req'[r].pc = answer /\ req'[r].dead = {}
         /\ \A q \in Req : q # r => req'[q] = req[q]
  BY NoCodeAssumption DEF CodesTypeOK, Ends, NoRequest, CodeRequests

LEMMA CodesInitInv == CodesInit => CodesInv
<1> SUFFICES ASSUME CodesInit PROVE CodesInv
  OBVIOUS
<1>1. NoRequest \in CodeRequests /\ NoRequest.pc = "idle" /\ NoRequest.dead = {}
  BY DEF NoRequest, CodeRequests, Replies
<1>2. \A r \in Req : req[r] = NoRequest
  BY DEF CodesInit
<1>3. CodesTypeOK
  <2>1. minute \in 0..MaxMinute /\ createdAt \in [Code -> 0..MaxMinute]
    BY ConfigNat DEF CodesInit
  <2>2. req \in [Req -> CodeRequests] /\ \A r \in Req : req[r].pc \notin Working
    BY <1>1, <1>2 DEF CodesInit, Working
  <2> QED
    BY <2>1, <2>2 DEF CodesInit, CodesTypeOK
<1>4. \A r \in Req : Fits(r)
  BY <1>1, <1>2 DEF Fits, Doing
<1> QED
  BY <1>3, <1>4, ConfigNat DEF CodesInit, CodesInv, Paid, GuessesAreLimited, Confirmed
-----------------------------------------------------------------------------
(* The type invariant is inductive.                                        *)
LEMMA CodesTyping == CodesTypeOK /\ [CodesNext]_codesVars => CodesTypeOK'
<1> SUFFICES ASSUME CodesTypeOK, [CodesNext]_codesVars PROVE CodesTypeOK'
  OBVIOUS
<1> USE ConfigNat, NoCodeAssumption
<1>1. CASE UNCHANGED codesVars
  BY <1>1 DEF codesVars, codesTable, CodesTypeOK
<1>2. CASE MinutePasses
  BY <1>2 DEF MinutePasses, codesTable, CodesTypeOK
<1>3. ASSUME NEW r \in Req, CodeRequest(r) PROVE CodesTypeOK'
  <2>1. ASSUME NEW pc \in {"limiting", "picking"}, NEW guess \in Code \cup {NoCode}, Begin(r, pc, guess)
        PROVE  CodesTypeOK'
    <3> DEFINE new == [pc |-> pc, guess |-> guess, code |-> NoCode, dead |-> {c \in issued : Useless(c)}]
    <3>1. new \in CodeRequests /\ new.pc \notin Working
      BY <2>1 DEF CodesTypeOK, CodeRequests, Issuing, Checking, Working
    <3>2. [NoRequest EXCEPT !.pc = "already"] \in CodeRequests /\ [NoRequest EXCEPT !.pc = "already"].pc \notin Working
      BY DEF NoRequest, CodeRequests, Replies, Working
    <3> HIDE DEF new
    <3>3. PICK entry \in CodeRequests : entry.pc \notin Working /\ req' = [req EXCEPT ![r] = entry]
      BY <2>1, <3>1, <3>2, Zenon DEF Begin, new
    <3>4. /\ req' \in [Req -> CodeRequests]
          /\ \A q \in Req : req'[q].pc \in Working => req'[q] = req[q]
      BY <3>3 DEF CodesTypeOK
    <3>5. UNCHANGED <<minute, codesTable, emailVerified, compared>>
      BY <2>1 DEF Begin
    <3> QED
      BY <3>4, <3>5 DEF codesTable, CodesTypeOK
  <2>2. CASE SendVerification(r)
    BY <2>1, <2>2 DEF SendVerification
  <2>3. ASSUME NEW guess \in Code \cup {NoCode}, VerifyEmail(r, guess) PROVE CodesTypeOK'
    BY <2>1, <2>3 DEF VerifyEmail
  <2>4. CASE Limits(r)
    BY <2>4, ReqGoes, ReqEnds DEF Limits, codesTable, CodesTypeOK, Issuing, Working, Replies
  <2>5. CASE Void(r)
    BY <2>5, ReqGoes DEF Void, CodesTypeOK, Issuing, Working
  <2>6. CASE Insert(r)
    BY <2>6, ReqEnds DEF Insert, CodesTypeOK, Working, Replies
  <2>7. CASE Pick(r)
    <3>1. CASE Usable = {}
      BY <2>7, <3>1, ReqEnds DEF Pick, codesTable, CodesTypeOK, Working, Replies
    <3>2. CASE Usable # {}
      <4>1. PICK c \in issued : req' = [req EXCEPT ![r].pc = "counting", ![r].code = c]
        BY <2>7, <3>2 DEF Pick, Newest, Usable
      <4>2. /\ [req[r] EXCEPT !.pc = "counting", !.code = c] \in CodeRequests
            /\ [req[r] EXCEPT !.pc = "counting", !.code = c].code = c
        BY DEF CodesTypeOK, CodeRequests, Checking, Working
      <4>3. /\ req' \in [Req -> CodeRequests]
            /\ \A q \in Req : req'[q].pc \in Working => req'[q].code \in issued
        BY <4>1, <4>2 DEF CodesTypeOK
      <4> QED
        BY <2>7, <4>3 DEF Pick, codesTable, CodesTypeOK
    <3> QED BY <3>1, <3>2
  <2>8. CASE Count(r)
    <3> DEFINE c == req[r].code
    <3>1. c \in issued /\ c \in Code
      BY <2>8 DEF Count, Doing, CodesTypeOK, Working
    <3>2. CASE ~Unspent(c)
      BY <2>8, <3>2, ReqEnds DEF Count, CodesTypeOK, Working, Replies
    <3>3. CASE Unspent(c)
      <4>1. /\ attempts' \in [Code -> Nat] /\ compared' \in [Code -> Nat]
            /\ UNCHANGED <<minute, issued, createdAt, consumed, emailVerified>>
        BY <2>8, <3>1, <3>3 DEF Count, Compare, CodesTypeOK
      <4>2. \/ \E pc \in {"burning", "consuming"} : Goes(r, pc)
            \/ Ends(r, "invalid")
        BY <2>8, <3>3 DEF Count, Compare
      <4>3. /\ req' \in [Req -> CodeRequests]
            /\ \A q \in Req : req'[q].pc \in Working => req'[q].code \in issued
        BY <3>1, <4>2, ReqGoes, ReqEnds DEF CodesTypeOK, Working, Checking, Replies
      <4> QED
        BY <4>1, <4>3 DEF CodesTypeOK
    <3> QED BY <3>2, <3>3
  <2>9. CASE Burn(r)
    BY <2>9, ReqEnds DEF Burn, Spend, CodesTypeOK, Working, Replies
  <2>10. CASE Consume(r)
    BY <2>10, ReqGoes DEF Consume, Spend, Doing, CodesTypeOK, Working, Checking
  <2>11. CASE Verify(r)
    BY <2>11, ReqEnds DEF Verify, codesTable, CodesTypeOK, Working, Replies
  <2>12. CASE CodeFails(r)
    BY <2>12, ReqEnds DEF CodeFails, codesTable, CodesTypeOK, Working, Replies
  <2>13. CASE CodeAnswered(r)
    BY <2>13, ReqEnds DEF CodeAnswered, codesTable, CodesTypeOK, Working, Replies
  <2> QED
    BY <1>3, <2>2, <2>3, <2>4, <2>5, <2>6, <2>7, <2>8, <2>9, <2>10, <2>11, <2>12, <2>13
    DEF CodeRequest
<1> QED BY <1>1, <1>2, <1>3 DEF CodesNext
-----------------------------------------------------------------------------
(* The table only grows, so what a request knows stays true.               *)

LEMMA Growth == CodesTypeOK /\ [CodesNext]_codesVars => Grows
<1> SUFFICES ASSUME CodesTypeOK, [CodesNext]_codesVars PROVE Grows
  OBVIOUS
<1> USE DEF Grows
<1>1. CASE UNCHANGED codesVars
  BY <1>1 DEF codesVars, codesTable, CodesTypeOK
<1>2. CASE MinutePasses
  BY <1>2 DEF MinutePasses, codesTable, CodesTypeOK
<1>3. ASSUME NEW r \in Req, CodeRequest(r) PROVE Grows
  <2>1. CASE UNCHANGED <<minute, codesTable, compared>>
    BY <2>1 DEF codesTable, CodesTypeOK
  <2>2. CASE Void(r)
    BY <2>2 DEF Void, CodesTypeOK
  <2>3. CASE Insert(r)
    BY <2>3 DEF Insert, CodesTypeOK
  <2>4. CASE Count(r)
    BY <2>4 DEF Count, Compare, Doing, CodesTypeOK, Working
  <2>5. CASE Burn(r) \/ Consume(r)
    BY <2>5 DEF Burn, Consume, Spend, CodesTypeOK
  <2> QED
    BY <1>3, <2>1, <2>2, <2>3, <2>4, <2>5
    DEF CodeRequest, SendVerification, VerifyEmail, Begin, Limits, Pick, Verify, CodeFails, CodeAnswered
<1> QED BY <1>1, <1>2, <1>3 DEF CodesNext

LEMMA DeadStays ==
  ASSUME CodesTypeOK, CodesTypeOK', Grows, NEW c \in issued, Useless(c)
  PROVE  c \in issued' /\ Useless(c)'
  BY ConfigNat DEF CodesTypeOK, Grows, Useless, Outdated

\* A request that does not move still fits.
LEMMA StaysFit ==
  ASSUME CodesTypeOK, CodesTypeOK', Grows, NEW q \in Req, Fits(q), req'[q] = req[q]
  PROVE  Fits(q)'
<1> DEFINE code == req[q].code
<1>1. \A c \in req[q].dead : c \in issued' /\ Useless(c)'
  BY DeadStays DEF Fits
<1>2. req[q].pc \in Working => code \in Code
  BY DEF CodesTypeOK
<1>3. req[q].pc \in Working =>
        /\ consumed[code] => consumed'[code]
        /\ attempts[code] >= MaxAttempts => attempts'[code] >= MaxAttempts
        /\ compared[code] > 0 => compared'[code] > 0
  BY <1>2, ConfigNat DEF Grows, CodesTypeOK
<1> QED
  BY <1>1, <1>3 DEF Fits, Doing, Working
-----------------------------------------------------------------------------
(* The request that moves.                                                 *)

LEMMA ActorFits ==
  ASSUME CodesTypeOK, CodesTypeOK', Grows, Paid, NEW r \in Req, Fits(r), CodeRequest(r)
  PROVE  Fits(r)'
<1>1. ASSUME NEW answer \in Replies, Ends(r, answer) PROVE Fits(r)'
  BY <1>1, ReqEnds DEF Fits, Doing, Replies
<1>2. ASSUME NEW pc \in {"voiding", "inserting", "burning"}, Goes(r, pc) PROVE Fits(r)'
  <2>1. req'[r].pc = pc /\ req'[r].dead = req[r].dead
    BY <1>2, ReqGoes DEF Issuing, Checking, Working
  <2> QED
    BY <2>1, DeadStays DEF Fits, Doing
<1>3. ASSUME NEW pc \in {"limiting", "picking"}, NEW guess \in Code \cup {NoCode}, Begin(r, pc, guess)
      PROVE  Fits(r)'
  <2>1. CASE emailVerified
    <3>1. Ends(r, "already")
      BY <1>3, <2>1 DEF Begin, Ends
    <3> QED BY <1>1, <3>1 DEF Replies
  <2>2. CASE ~emailVerified
    <3>1. req'[r].pc = pc /\ req'[r].dead = {c \in issued : Useless(c)}
      BY <1>3, <2>2 DEF Begin, CodesTypeOK
    <3> QED
      BY <3>1, DeadStays DEF Fits, Doing
  <2> QED BY <2>1, <2>2
<1>4. CASE SendVerification(r)
  BY <1>3, <1>4 DEF SendVerification
<1>5. ASSUME NEW guess \in Code \cup {NoCode}, VerifyEmail(r, guess) PROVE Fits(r)'
  BY <1>3, <1>5 DEF VerifyEmail
<1>6. CASE Limits(r) \/ Void(r) \/ Insert(r) \/ Burn(r) \/ Verify(r) \/ CodeFails(r) \/ CodeAnswered(r)
  BY <1>1, <1>2, <1>6 DEF Limits, Void, Insert, Burn, Verify, CodeFails, CodeAnswered, Replies
<1>7. CASE Pick(r)
  <2>1. CASE Usable = {}
    BY <1>1, <1>7, <2>1 DEF Pick, Replies
  <2>2. CASE Usable # {}
    <3>1. PICK c \in Usable : req' = [req EXCEPT ![r].pc = "counting", ![r].code = c]
      BY <1>7, <2>2 DEF Pick, Newest
    <3>2. req'[r].pc = "counting" /\ req'[r].code = c /\ req'[r].dead = req[r].dead
      BY <3>1 DEF CodesTypeOK, CodeRequests
    <3>3. c \in issued /\ ~Outdated(c) /\ UNCHANGED <<consumed, attempts>>
      BY <1>7 DEF Usable, Pick, codesTable
    <3>4. c \in req[r].dead => consumed'[c] \/ attempts'[c] >= MaxAttempts
      BY <3>3 DEF Fits, Useless
    <3> QED
      BY <3>2, <3>4, DeadStays DEF Fits, Doing
  <2> QED BY <2>1, <2>2
<1>8. CASE Count(r)
  <2> DEFINE c == req[r].code
  <2>1. c \in issued /\ c \in Code /\ Doing(r, "counting") /\ attempts[c] \in Nat /\ compared[c] \in Nat
    BY <1>8 DEF Count, Doing, CodesTypeOK, Working
  <2>2. \/ \E pc \in {"burning"} : Goes(r, pc)
        \/ Ends(r, "invalid")
        \/ /\ Goes(r, "consuming") /\ Unspent(c) /\ attempts[c] + 1 <= MaxAttempts
           /\ compared'[c] = compared[c] + 1
    BY <1>8, <2>1, ConfigNat DEF Count, Compare, CodesTypeOK
  <2>3. CASE Goes(r, "consuming") /\ Unspent(c) /\ attempts[c] + 1 <= MaxAttempts
             /\ compared'[c] = compared[c] + 1
    <3>1. req'[r].pc = "consuming" /\ req'[r].code = c /\ req'[r].dead = req[r].dead
      BY <2>3, ReqGoes DEF Checking, Working
    <3>2. c \notin req[r].dead
      BY <2>1, <2>3, ConfigNat DEF Fits, Unspent
    <3>3. compared'[c] > 0
      BY <2>1, <2>3
    <3> QED
      BY <3>1, <3>2, <3>3, DeadStays DEF Fits, Doing
  <2> QED
    BY <1>1, <1>2, <2>2, <2>3 DEF Replies
<1>9. CASE Consume(r)
  <2> DEFINE c == req[r].code
  <2>1. req'[r].pc = "verifying" /\ req'[r].code = c /\ req'[r].dead = req[r].dead
    BY <1>9, ReqGoes DEF Consume, Checking, Working
  <2>2. c \in Code /\ consumed'[c] /\ UNCHANGED compared /\ Doing(r, "consuming")
    BY <1>9 DEF Consume, Spend, Doing, CodesTypeOK, Working
  <2> QED
    BY <2>1, <2>2, DeadStays DEF Fits, Doing
<1> QED
  BY <1>4, <1>5, <1>6, <1>7, <1>8, <1>9 DEF CodeRequest

LEMMA OthersWait ==
  ASSUME NEW r \in Req, CodeRequest(r), NEW q \in Req \ {r}, CodesTypeOK
  PROVE  req'[q] = req[q]
  BY DEF CodesTypeOK, CodeRequest, SendVerification, VerifyEmail, Begin, Limits, Void, Insert, Pick,
     Count, Compare, Burn, Consume, Verify, CodeFails, CodeAnswered, Goes, Ends
-----------------------------------------------------------------------------
(* The counters, and the address.                                          *)

LEMMA CountersStep ==
  ASSUME CodesInv, [CodesNext]_codesVars
  PROVE  Paid' /\ GuessesAreLimited'
<1> USE DEF CodesInv
<1>1. CASE UNCHANGED <<attempts, compared>>
  BY <1>1 DEF Paid, GuessesAreLimited
<1>2. ASSUME NEW r \in Req, Count(r) PROVE Paid' /\ GuessesAreLimited'
  <2> DEFINE c == req[r].code
  <2>1. c \in Code
    BY <1>2 DEF Count, Doing, CodesTypeOK, Working
  <2>2. CASE Unspent(c)
    <3>1. /\ attempts' = [attempts EXCEPT ![c] = @ + 1]
          /\ compared' = [compared EXCEPT ![c] = IF attempts[c] + 1 > MaxAttempts THEN @ ELSE @ + 1]
      BY <1>2, <2>2 DEF Count, Compare
    <3> QED
      BY <2>1, <3>1, ConfigNat DEF CodesTypeOK, Paid, GuessesAreLimited
  <2> QED
    BY <1>1, <1>2, <2>2 DEF Count
<1>3. ASSUME NEW r \in Req, CodeRequest(r), ~Count(r) PROVE UNCHANGED <<attempts, compared>>
  BY <1>3
  DEF CodeRequest, SendVerification, VerifyEmail, Begin, Limits, Void, Insert, Pick, Burn, Consume,
      Verify, CodeFails, CodeAnswered, codesTable
<1> QED
  BY <1>1, <1>2, <1>3 DEF CodesNext, MinutePasses, codesVars, codesTable

LEMMA ConfirmedStep ==
  ASSUME CodesInv, CodesTypeOK', Grows, [CodesNext]_codesVars
  PROVE  Confirmed'
<1> USE DEF CodesInv
<1>1. ASSUME NEW c \in issued, consumed[c], compared[c] > 0
      PROVE  c \in issued' /\ consumed'[c] /\ compared'[c] > 0
  BY <1>1 DEF Grows, CodesTypeOK
<1>2. CASE UNCHANGED emailVerified
  BY <1>1, <1>2 DEF Confirmed
<1>3. ASSUME NEW r \in Req, Verify(r) PROVE Confirmed'
  <2>1. req[r].code \in issued /\ consumed[req[r].code] /\ compared[req[r].code] > 0
    BY <1>3 DEF Verify, Doing, Fits, CodesTypeOK, Working
  <2> QED
    BY <1>1, <2>1 DEF Confirmed
<1>4. ASSUME NEW r \in Req, CodeRequest(r), ~Verify(r) PROVE UNCHANGED emailVerified
  BY <1>4
  DEF CodeRequest, SendVerification, VerifyEmail, Begin, Limits, Void, Insert, Pick, Count, Burn,
      Consume, CodeFails, CodeAnswered
<1> QED
  BY <1>2, <1>3, <1>4 DEF CodesNext, MinutePasses, codesVars
-----------------------------------------------------------------------------
(* The invariant holds for every configuration and any number of requests. *)
THEOREM CodesInvariance == CodesSpec => []CodesInv
<1>1. CodesInv /\ [CodesNext]_codesVars => CodesInv'
  <2> SUFFICES ASSUME CodesInv, [CodesNext]_codesVars PROVE CodesInv'
    OBVIOUS
  <2>1. CodesTypeOK' /\ Grows
    BY CodesTyping, Growth DEF CodesInv
  <2>2. \A q \in Req : Fits(q)'
    <3> SUFFICES ASSUME NEW q \in Req PROVE Fits(q)'
      OBVIOUS
    <3>1. CASE UNCHANGED codesVars \/ MinutePasses
      BY <2>1, <3>1, StaysFit DEF CodesInv, codesVars, MinutePasses
    <3>2. ASSUME NEW r \in Req, CodeRequest(r) PROVE Fits(q)'
      BY <2>1, <3>2, StaysFit, ActorFits, OthersWait DEF CodesInv
    <3> QED BY <3>1, <3>2 DEF CodesNext
  <2> QED
    BY <2>1, <2>2, CountersStep, ConfirmedStep DEF CodesInv
<1> QED BY CodesInitInv, <1>1, PTL DEF CodesSpec

(* However many requests count at once, and whatever fails: no code is     *)
(* compared with more than maxAttempts guesses (checkOtp).                 *)
THEOREM LimitedGuesses == CodesSpec => []GuessesAreLimited
<1>1. CodesInv => GuessesAreLimited BY DEF CodesInv
<1> QED BY CodesInvariance, <1>1, PTL

(* No request accepts a code that was of no use when it began (checkOtp).  *)
THEOREM DeadForGood == CodesSpec => []DeadCodesStayDead
<1>1. CodesInv => DeadCodesStayDead BY DEF CodesInv, Fits, DeadCodesStayDead
<1> QED BY CodesInvariance, <1>1, PTL

(* An address is confirmed only by a code that was compared and spent.     *)
THEOREM ConfirmedBySpending == CodesSpec => []ConfirmedByACode
<1>1. CodesInv => ConfirmedByACode BY DEF CodesInv, Fits, Confirmed, ConfirmedByACode
<1> QED BY CodesInvariance, <1>1, PTL

(* The state of the model keeps its types (EmailCodes: all of its actions). *)
THEOREM CodesTypeCorrectness == CodesSpec => []CodesTypeOK
<1>1. CodesInv => CodesTypeOK BY DEF CodesInv
<1> QED BY CodesInvariance, <1>1, PTL
-----------------------------------------------------------------------------
(* How many codes there are.  A request that has voided the earlier codes  *)
(* has a place for the one it is about to insert; a request that has passed *)
(* the limits has one among the recent.                                     *)
Open      == {c \in issued : ~consumed[c]}
Inserting == {r \in Req : Doing(r, "inserting")}
Passed    == {r \in Req : req[r].pc \in {"voiding", "inserting"}}

IssueInv == /\ IsFiniteSet(issued)
            /\ Cardinality(Open) + Cardinality(Inserting) <= Cardinality(Req)
            /\ Cardinality(Recent) + Cardinality(Passed) < MaxPerEmail + Cardinality(Req)

LEMMA FiniteParts ==
  ASSUME IsFiniteSet(issued)
  PROVE  /\ \A S \in SUBSET issued : IsFiniteSet(S) /\ Cardinality(S) \in Nat
         /\ \A S \in SUBSET Req : /\ IsFiniteSet(S) /\ Cardinality(S) \in Nat
                                  /\ Cardinality(S) <= Cardinality(Req)
         /\ Cardinality(Req) \in Nat /\ Cardinality(Req) > 0
<1>1. \A S : IsFiniteSet(S) => Cardinality(S) \in Nat
  BY FS_CardinalityType
<1>2. Cardinality(Req) # 0
  BY ReqAssumption, FS_EmptySet
<1> QED
  BY <1>1, <1>2, ReqAssumption, FS_Subset

\* Fewer codes, fewer requests on their way.
LEMMA IssuesShrink ==
  ASSUME IssueInv, issued' = issued, Open' \subseteq Open, Inserting' \subseteq Inserting,
         Recent' \subseteq Recent, Passed' \subseteq Passed
  PROVE  IssueInv'
<1>1. /\ Open \in SUBSET issued /\ Recent \in SUBSET issued
      /\ Inserting \in SUBSET Req /\ Passed \in SUBSET Req
  BY DEF Open, Recent, Inserting, Passed
<1>2. /\ IsFiniteSet(Open) /\ IsFiniteSet(Recent) /\ IsFiniteSet(Inserting) /\ IsFiniteSet(Passed)
  BY <1>1, FiniteParts DEF IssueInv
<1>3. /\ Cardinality(Open') <= Cardinality(Open) /\ Cardinality(Recent') <= Cardinality(Recent)
      /\ Cardinality(Inserting') <= Cardinality(Inserting)
      /\ Cardinality(Passed') <= Cardinality(Passed)
  BY <1>2, FS_Subset
<1>4. /\ Open' \in SUBSET issued /\ Recent' \in SUBSET issued
      /\ Inserting' \in SUBSET Req /\ Passed' \in SUBSET Req
  BY <1>1
<1>5. \A S \in {Open, Recent, Inserting, Passed, Open', Recent', Inserting', Passed'} : Cardinality(S) \in Nat
  BY <1>1, <1>4, FiniteParts DEF IssueInv
<1> QED
  BY <1>3, <1>5, FiniteParts, ConfigNat DEF IssueInv

LEMMA IssuesInit == CodesInit => IssueInv
<1> SUFFICES ASSUME CodesInit PROVE IssueInv
  OBVIOUS
<1>1. issued = {} /\ Open = {} /\ Recent = {} /\ Inserting = {} /\ Passed = {}
  BY DEF CodesInit, Open, Recent, Inserting, Passed, Doing, NoRequest
<1>2. IsFiniteSet(issued) /\ Cardinality({}) = 0
  BY <1>1, FS_EmptySet
<1> QED
  BY <1>1, <1>2, FiniteParts, ConfigNat DEF IssueInv

LEMMA IssuesStep ==
  ASSUME CodesTypeOK, IssueInv, [CodesNext]_codesVars
  PROVE  IssueInv'
<1>1. /\ Open \in SUBSET issued /\ Recent \in SUBSET issued
      /\ Inserting \in SUBSET Req /\ Passed \in SUBSET Req
  BY DEF Open, Recent, Inserting, Passed
<1>2. /\ IsFiniteSet(Open) /\ IsFiniteSet(Recent) /\ IsFiniteSet(Inserting) /\ IsFiniteSet(Passed)
      /\ Cardinality(Open) \in Nat /\ Cardinality(Recent) \in Nat
      /\ Cardinality(Inserting) \in Nat /\ Cardinality(Passed) \in Nat
      /\ Cardinality(Req) \in Nat /\ Cardinality(Req) > 0
  BY <1>1, FiniteParts DEF IssueInv
<1>3. CASE UNCHANGED codesVars
  BY <1>3, IssuesShrink DEF codesVars, codesTable, Open, Recent, Inserting, Passed, Doing
<1>4. CASE MinutePasses
  <2>1. Recent' \subseteq Recent
    BY <1>4, ConfigNat DEF MinutePasses, codesTable, Recent, CodesTypeOK
  <2> QED
    BY <1>4, <2>1, IssuesShrink DEF MinutePasses, codesTable, Open, Inserting, Passed, Doing
<1>5. ASSUME NEW r \in Req, CodeRequest(r) PROVE IssueInv'
  <2>1. /\ \A q \in Req \ {r} : req'[q] = req[q]
        /\ req' \in [Req -> CodeRequests]
    BY <1>5, OthersWait, CodesTyping DEF CodesNext, CodesTypeOK
  \* The request is not on its way to a new code, and no code is added.
  <2>2. ASSUME issued' = issued, createdAt' = createdAt, minute' = minute,
               \A c \in issued : consumed[c] => consumed'[c],
               req'[r].pc \notin {"voiding", "inserting"}
        PROVE  IssueInv'
    BY <2>1, <2>2, IssuesShrink DEF Open, Recent, Inserting, Passed, Doing
  <2>3. ASSUME NEW answer \in Replies, Ends(r, answer), issued' = issued, createdAt' = createdAt,
               minute' = minute, \A c \in issued : consumed[c] => consumed'[c]
        PROVE  IssueInv'
    BY <2>2, <2>3, ReqEnds DEF Replies
  <2>4. CASE Limits(r)
    <3>1. CASE Ends(r, "refused")
      BY <2>3, <2>4, <3>1 DEF Limits, codesTable, Replies
    <3>2. CASE MayIssue /\ Goes(r, "voiding")
      <4>1. /\ Open' = Open /\ Recent' = Recent /\ issued' = issued
        BY <2>4 DEF Limits, codesTable, Open, Recent
      <4>2. req'[r].pc = "voiding"
        BY <3>2, ReqGoes DEF Issuing
      <4>3. Inserting' \subseteq Inserting /\ Passed' \in SUBSET Req
        BY <2>1, <4>2 DEF Inserting, Passed, Doing
      <4>4. Cardinality(Inserting') <= Cardinality(Inserting) /\ Cardinality(Inserting') \in Nat
        BY <1>2, <4>3, FS_Subset, FS_CardinalityType
      <4>5. Cardinality(Passed') <= Cardinality(Req) /\ Cardinality(Passed') \in Nat
        BY <4>3, FiniteParts DEF IssueInv
      <4>6. Cardinality(Recent) < MaxPerEmail
        BY <3>2 DEF MayIssue
      <4> QED
        BY <1>2, <4>1, <4>4, <4>5, <4>6, ConfigNat DEF IssueInv
    <3> QED
      BY <2>4, <3>1, <3>2 DEF Limits
  <2>5. CASE Void(r)
    <3>1. /\ Open' = {} /\ Recent' = Recent /\ issued' = issued
      BY <2>5 DEF Void, Open, Recent, CodesTypeOK
    <3>2. req'[r].pc = "inserting" /\ req[r].pc = "voiding"
      BY <2>5, ReqGoes DEF Void, Doing, Issuing
    <3>3. Inserting' \in SUBSET Req /\ Passed' = Passed
      BY <2>1, <3>2 DEF Inserting, Passed, Doing
    <3>4. Cardinality(Inserting') <= Cardinality(Req) /\ Cardinality(Inserting') \in Nat
      BY <3>3, FiniteParts DEF IssueInv
    <3>5. Cardinality(Open') = 0
      BY <3>1, FS_EmptySet
    <3> QED
      BY <1>2, <3>1, <3>3, <3>4, <3>5 DEF IssueInv
  <2>6. CASE Insert(r)
    <3>1. PICK c \in Code \ issued : issued' = issued \cup {c} /\ createdAt' = [createdAt EXCEPT ![c] = minute]
      BY <2>6 DEF Insert
    <3>2. /\ Open' \subseteq Open \cup {c} /\ Recent' \subseteq Recent \cup {c}
      BY <2>6, <3>1 DEF Insert, Open, Recent, CodesTypeOK
    <3>3. req[r].pc = "inserting" /\ req'[r].pc \notin {"voiding", "inserting"}
      BY <2>6, ReqEnds DEF Insert, Doing, Replies
    <3>4. Inserting' = Inserting \ {r} /\ r \in Inserting /\ Passed' = Passed \ {r} /\ r \in Passed
      BY <2>1, <3>3 DEF Inserting, Passed, Doing
    <3>5. /\ Cardinality(Inserting') = Cardinality(Inserting) - 1
          /\ Cardinality(Passed') = Cardinality(Passed) - 1
      BY <1>2, <3>4, FS_RemoveElement
    <3>6. /\ IsFiniteSet(Open \cup {c}) /\ Cardinality(Open \cup {c}) <= Cardinality(Open) + 1
          /\ IsFiniteSet(Recent \cup {c}) /\ Cardinality(Recent \cup {c}) <= Cardinality(Recent) + 1
          /\ IsFiniteSet(issued')
      <4>1. \A S : IsFiniteSet(S) => /\ IsFiniteSet(S \cup {c})
                                     /\ Cardinality(S \cup {c}) =
                                          IF c \in S THEN Cardinality(S) ELSE Cardinality(S) + 1
        BY FS_AddElement
      <4>2. IsFiniteSet(issued')
        BY <3>1, <4>1 DEF IssueInv
      <4> QED
        BY <1>2, <4>1, <4>2
    <3>7. /\ Cardinality(Open') <= Cardinality(Open \cup {c}) /\ IsFiniteSet(Open')
          /\ Cardinality(Recent') <= Cardinality(Recent \cup {c}) /\ IsFiniteSet(Recent')
      BY <3>2, <3>6, FS_Subset
    <3>8. /\ Cardinality(Open') \in Nat /\ Cardinality(Open \cup {c}) \in Nat
          /\ Cardinality(Recent') \in Nat /\ Cardinality(Recent \cup {c}) \in Nat
      BY <3>6, <3>7, FS_CardinalityType
    <3> QED
      BY <1>2, <3>5, <3>6, <3>7, <3>8, ConfigNat DEF IssueInv
  <2>7. ASSUME NEW pc \in {"limiting", "picking"}, NEW guess \in Code \cup {NoCode}, Begin(r, pc, guess)
        PROVE  IssueInv'
    <3>1. req'[r].pc \in {"already", pc}
      BY <2>7 DEF Begin, CodesTypeOK, NoRequest
    <3> QED
      BY <2>2, <2>7, <3>1 DEF Begin, codesTable
  <2>8. CASE SendVerification(r)
    BY <2>7, <2>8 DEF SendVerification
  <2>9. ASSUME NEW guess \in Code \cup {NoCode}, VerifyEmail(r, guess) PROVE IssueInv'
    BY <2>7, <2>9 DEF VerifyEmail
  <2>10. CASE Pick(r)
    <3>1. CASE Usable = {}
      BY <2>3, <2>10, <3>1 DEF Pick, codesTable, Replies
    <3>2. CASE Usable # {}
      <4>1. PICK c \in Usable : req' = [req EXCEPT ![r].pc = "counting", ![r].code = c]
        BY <2>10, <3>2 DEF Pick, Newest
      <4>2. req'[r].pc = "counting"
        BY <4>1 DEF CodesTypeOK, CodeRequests
      <4> QED
        BY <2>2, <2>10, <4>2 DEF Pick, codesTable
    <3> QED BY <3>1, <3>2
  <2>11. CASE Count(r)
    <3>1. Goes(r, "burning") \/ Goes(r, "consuming") \/ Ends(r, "invalid")
      BY <2>11 DEF Count, Compare
    <3>2. req'[r].pc \in {"burning", "consuming", "invalid"}
      BY <3>1, ReqGoes, ReqEnds DEF Checking, Working, Replies
    <3> QED
      BY <2>2, <2>11, <3>2 DEF Count
  <2>12. CASE Burn(r)
    BY <2>3, <2>12 DEF Burn, Spend, Replies, CodesTypeOK
  <2>13. CASE Consume(r)
    <3>1. req'[r].pc = "verifying"
      BY <2>13, ReqGoes DEF Consume, Checking, Working
    <3> QED
      BY <2>2, <2>13, <3>1 DEF Consume, Spend, CodesTypeOK
  <2>14. CASE Verify(r)
    BY <2>3, <2>14 DEF Verify, codesTable, Replies
  <2>15. CASE CodeFails(r)
    BY <2>3, <2>15 DEF CodeFails, codesTable, Replies
  <2>16. CASE CodeAnswered(r)
    BY <2>3, <2>16 DEF CodeAnswered, codesTable, Replies
  <2> QED
    BY <1>5, <2>4, <2>5, <2>6, <2>8, <2>9, <2>10, <2>11, <2>12, <2>13, <2>14, <2>15, <2>16 DEF CodeRequest
<1> QED
  BY <1>3, <1>4, <1>5 DEF CodesNext

(* However many requests pass the limits of an address together: each of   *)
(* them leaves at most one code that works, and together they exceed the   *)
(* limit of the window by less than their number (issueOtp).               *)
THEOREM LimitedIssues == CodesSpec => []IssuesAreLimited
<1>1. CodesTypeOK /\ IssueInv /\ [CodesNext]_codesVars => IssueInv'
  BY IssuesStep
<1>2. CodesSpec => []IssueInv
  BY IssuesInit, <1>1, CodesTypeCorrectness, PTL DEF CodesSpec
<1>3. IssueInv => IssuesAreLimited
  <2> SUFFICES ASSUME IssueInv PROVE IssuesAreLimited
    OBVIOUS
  <2>1. /\ Open \in SUBSET issued /\ Recent \in SUBSET issued
        /\ Inserting \in SUBSET Req /\ Passed \in SUBSET Req
    BY DEF Open, Recent, Inserting, Passed
  <2>2. /\ Cardinality(Open) \in Nat /\ Cardinality(Recent) \in Nat
        /\ Cardinality(Inserting) \in Nat /\ Cardinality(Passed) \in Nat
        /\ Cardinality(Req) \in Nat
    BY <2>1, FiniteParts DEF IssueInv
  <2>3. Cardinality(Open) <= Cardinality(Req) /\ Cardinality(Recent) < MaxPerEmail + Cardinality(Req)
    BY <2>2, ConfigNat DEF IssueInv
  <2> QED
    BY <2>3 DEF IssuesAreLimited, Open
<1> QED BY <1>2, <1>3, PTL
=============================================================================
