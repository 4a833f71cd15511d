----------------------------- MODULE EmailCodes -----------------------------
(***************************************************************************)
(* The codes that confirm an email address (lib/auth/otp.ts, and the       *)
(* routes send-verification and verify-email that call it): the rows of    *)
(* email_otps of one address and purpose, and the requests of its owner,   *)
(* several at a time.  Every statement is a transaction of its own, so     *)
(* between any two awaits of a request the others may do anything.         *)
(*                                                                         *)
(* A row stands for its six digits: a guess is the code of a row, or       *)
(* NoCode for digits that no row has.  Two rows never share their digits   *)
(* here.                                                                   *)
(***************************************************************************)
EXTENDS Integers, FiniteSets

CONSTANTS Code,         \* rows there may ever be
          Req,          \* requests that may be in flight together
          NoCode,
          MaxAttempts, MaxPerEmail, Cooldown, CodeTtl,   \* config()
          Window,       \* the quarter of an hour in which issues are counted
          MaxMinute,    \* bound on the clock
          MaxCounted    \* bound on the guesses a row may be asked for

ASSUME NoCodeAssumption == NoCode \notin Code
ASSUME ReqAssumption == IsFiniteSet(Req) /\ Req # {}
ASSUME CodesAssumption ==
  {MaxAttempts, MaxPerEmail, Cooldown, CodeTtl, Window, MaxMinute, MaxCounted} \subseteq Nat

VARIABLES minute,
          issued, createdAt, attempts, consumed, \* email_otps, by row
          emailVerified,                         \* users.email_verified_at is set
          req,                                   \* the request in flight, by Req
          compared    \* history: how often a guess was compared with a row's code

codesTable == <<issued, createdAt, attempts, consumed>>
codesVars == <<minute, codesTable, emailVerified, req, compared>>

(* Where a request waits: for which of its statements.                     *)
Issuing == {"limiting", "voiding", "inserting"}
Working == {"counting", "burning", "consuming", "verifying"}   \* on a row
Checking == {"picking"} \cup Working
Replies == {"idle", "already", "refused", "sent", "invalid", "verified", "failed"}

CodeRequests == [pc    : Issuing \cup Checking \cup Replies,
                 guess : Code \cup {NoCode},
                 code  : Code \cup {NoCode}, \* the row the statement works on
                 dead  : SUBSET Code]        \* history: no use when it began

CodesTypeOK ==
  /\ minute \in 0..MaxMinute
  /\ issued \subseteq Code
  /\ createdAt \in [Code -> 0..MaxMinute]
  /\ attempts \in [Code -> Nat]
  /\ consumed \in [Code -> BOOLEAN]
  /\ emailVerified \in BOOLEAN
  /\ req \in [Req -> CodeRequests]
  /\ \A r \in Req : req[r].pc \in Working => req[r].code \in issued
  /\ compared \in [Code -> Nat]

NoRequest == [pc |-> "idle", guess |-> NoCode, code |-> NoCode, dead |-> {}]

CodesInit ==
  /\ minute = 0
  /\ issued = {}
  /\ createdAt = [c \in Code |-> 0]
  /\ attempts = [c \in Code |-> 0]
  /\ consumed = [c \in Code |-> FALSE]
  /\ emailVerified = FALSE
  /\ req = [r \in Req |-> NoRequest]
  /\ compared = [c \in Code |-> 0]
-----------------------------------------------------------------------------
Doing(r, pc) == req[r].pc = pc
Goes(r, pc) == req' = [req EXCEPT ![r].pc = pc]
Ends(r, answer) == req' = [req EXCEPT ![r] = [NoRequest EXCEPT !.pc = answer]]

\* Mutant: the condition is forgotten.
UnspentAny(c) == TRUE

(* consumed_at is null                                                     *)
Unspent(c) == ~consumed[c]

Outdated(c) == createdAt[c] + CodeTtl <= minute

(* A code that no request which begins now may have accepted.              *)
Useless(c) == consumed[c] \/ Outdated(c) \/ attempts[c] >= MaxAttempts

(* Both routes begin with the user as it is in the table.                  *)
Begin(r, pc, guess) ==
  /\ Doing(r, "idle")
  /\ req' = [req EXCEPT ![r] =
       IF emailVerified
       THEN [NoRequest EXCEPT !.pc = "already"]
       ELSE [pc |-> pc, guess |-> guess, code |-> NoCode, dead |-> {c \in issued : Useless(c)}]]
  /\ UNCHANGED <<minute, codesTable, emailVerified, compared>>
-----------------------------------------------------------------------------
(* POST send-verification.                                                 *)

SendVerification(r) == Begin(r, "limiting", NoCode)

Recent == {c \in issued : createdAt[c] > minute - Window}
CoolingDown == \E c \in issued : minute - createdAt[c] < Cooldown

\* Mutant: one too many.
MayIssueOneMore == ~CoolingDown /\ Cardinality(Recent) <= MaxPerEmail

(* The limits of the address, read in one statement.                       *)
MayIssue == ~CoolingDown /\ Cardinality(Recent) < MaxPerEmail
(* ipFull: what other addresses asked for from the same device             *)
Limits(r) ==
  /\ Doing(r, "limiting")
  /\ \E ipFull \in BOOLEAN :
       IF MayIssue /\ ~ipFull THEN Goes(r, "voiding") ELSE Ends(r, "refused")
  /\ UNCHANGED <<minute, codesTable, emailVerified, compared>>

Void(r) ==
  /\ Doing(r, "voiding")
  /\ consumed' = [c \in Code |-> consumed[c] \/ c \in issued]
  /\ Goes(r, "inserting")
  /\ UNCHANGED <<minute, issued, createdAt, attempts, emailVerified, compared>>

(* The new row; its digits go out by mail, which may fail as well.         *)
Insert(r) ==
  /\ Doing(r, "inserting")
  /\ \E c \in Code \ issued :
       /\ issued' = issued \cup {c}
       /\ createdAt' = [createdAt EXCEPT ![c] = minute]
  /\ \E answer \in {"sent", "failed"} : Ends(r, answer)
  /\ UNCHANGED <<minute, attempts, consumed, emailVerified, compared>>
-----------------------------------------------------------------------------
(* POST verify-email.                                                      *)

(* The body brings a guess.  (The second conjunct is the bound MaxCounted.) *)
VerifyEmail(r, guess) ==
  /\ guess \in issued \cup {NoCode}
  /\ \A c \in issued : attempts[c] + Cardinality(Req) <= MaxCounted
  /\ Begin(r, "picking", guess)

(* The subselect of the update: the newest row that is alive now.          *)
Usable == {c \in issued : Unspent(c) /\ ~Outdated(c)}
Newest(S) == {c \in S : \A d \in S : createdAt[d] <= createdAt[c]}

Pick(r) ==
  /\ Doing(r, "picking")
  /\ IF Usable = {}
     THEN Ends(r, "invalid")
     ELSE \E c \in Newest(Usable) :
            req' = [req EXCEPT ![r].pc = "counting", ![r].code = c]
  /\ UNCHANGED <<minute, codesTable, emailVerified, compared>>

(* The answer to guess number n: compared with the code, unless there have *)
(* been too many.                                                          *)
Compare(r, n) ==
  LET c == req[r].code
      right == req[r].guess = c
  IN  /\ compared' = [compared EXCEPT ![c] = IF n > MaxAttempts THEN @ ELSE @ + 1]
      /\ \/ n > MaxAttempts /\ Goes(r, "burning")
         \/ n <= MaxAttempts /\ right /\ Goes(r, "consuming")
         \/ n = MaxAttempts /\ ~right /\ Goes(r, "burning")
         \/ n < MaxAttempts /\ ~right /\ Ends(r, "invalid")

\* Mutant: all requests that picked the row together count as one.
CountTogether(r) ==
  LET c == req[r].code
      alone == \A q \in Req \ {r} : ~(Doing(q, "counting") /\ req[q].code = c)
  IN  /\ Doing(r, "counting")
      /\ IF Unspent(c)
         THEN /\ attempts' = IF alone THEN [attempts EXCEPT ![c] = @ + 1] ELSE attempts
              /\ Compare(r, attempts[c] + 1)
         ELSE Ends(r, "invalid") /\ UNCHANGED <<attempts, compared>>
      /\ UNCHANGED <<minute, issued, createdAt, consumed, emailVerified>>

(* The update itself.  It takes the row's lock, looks at consumed_at once  *)
(* more and adds to the attempts that are there.                           *)
Count(r) ==
  LET c == req[r].code
  IN  /\ Doing(r, "counting")
      /\ IF Unspent(c)
         THEN /\ attempts' = [attempts EXCEPT ![c] = @ + 1]
              /\ Compare(r, attempts[c] + 1)
         ELSE Ends(r, "invalid") /\ UNCHANGED <<attempts, compared>>
      /\ UNCHANGED <<minute, issued, createdAt, consumed, emailVerified>>

\* Mutant: the row is left as it is.
SpendNothing(r) == UNCHANGED consumed

Spend(r) == consumed' = [consumed EXCEPT ![req[r].code] = TRUE]

Burn(r) ==
  /\ Doing(r, "burning")
  /\ Spend(r)
  /\ Ends(r, "invalid")
  /\ UNCHANGED <<minute, issued, createdAt, attempts, emailVerified, compared>>

(* The code was right.                                                     *)
Consume(r) ==
  /\ Doing(r, "consuming")
  /\ Spend(r)
  /\ Goes(r, "verifying")
  /\ UNCHANGED <<minute, issued, createdAt, attempts, emailVerified, compared>>

Verify(r) ==
  /\ Doing(r, "verifying")
  /\ emailVerified' = TRUE
  /\ Ends(r, "verified")
  /\ UNCHANGED <<minute, codesTable, compared>>
-----------------------------------------------------------------------------
(* Any statement may fail, and nothing takes back the ones before it.      *)
CodeFails(r) ==
  /\ req[r].pc \in Issuing \cup Checking
  /\ Ends(r, "failed")
  /\ UNCHANGED <<minute, codesTable, emailVerified, compared>>

CodeAnswered(r) ==
  /\ req[r].pc \in Replies \ {"idle"}
  /\ Ends(r, "idle")
  /\ UNCHANGED <<minute, codesTable, emailVerified, compared>>

MinutePasses ==
  /\ minute < MaxMinute
  /\ minute' = minute + 1
  /\ UNCHANGED <<codesTable, emailVerified, req, compared>>

CodeRequest(r) ==
  \/ SendVerification(r)
  \/ \E guess \in Code \cup {NoCode} : VerifyEmail(r, guess)
  \/ Limits(r) \/ Void(r) \/ Insert(r)
  \/ Pick(r) \/ Count(r) \/ Burn(r) \/ Consume(r) \/ Verify(r)
  \/ CodeFails(r) \/ CodeAnswered(r)

CodesNext == MinutePasses \/ \E r \in Req : CodeRequest(r)

CodesSpec == CodesInit /\ [][CodesNext]_codesVars
-----------------------------------------------------------------------------
(* The attempts are counted under the row's lock before a guess is looked  *)
(* at, so that a burst of requests gets no more comparisons with a code    *)
(* than maxAttempts, whatever they read before and however many fail       *)
(* before they burn it (otp.ts, checkOtp; scripts/check-otp-attempts.ts).  *)
GuessesAreLimited == \A c \in Code : compared[c] <= MaxAttempts

(* A code that was spent, voided, expired or used up when a request began  *)
(* is not accepted by it, even if the statement that should have burnt it  *)
(* failed (otp.ts, checkOtp).                                              *)
DeadCodesStayDead ==
  \A r \in Req : req[r].pc \in {"consuming", "verifying"} =>
    req[r].code \notin req[r].dead

(* issueOtp reads its limits, voids the earlier codes and inserts the new  *)
(* one in three statements.  Requests that pass the limits together may    *)
(* each leave a code that works, but no more than one each, and there are  *)
(* never more issues in the window than if each of them had been the last  *)
(* one allowed.                                                            *)
IssuesAreLimited ==
  /\ Cardinality({c \in issued : ~consumed[c]}) <= Cardinality(Req)
  /\ Cardinality(Recent) < MaxPerEmail + Cardinality(Req)

(* An address is confirmed only by a code of its own that is spent, and    *)
(* whose attempts show it: a failure between the statements of the check   *)
(* may cost the owner a code and never confirms without one.               *)
ConfirmedByACode ==
  /\ \A r \in Req : Doing(r, "verifying") => consumed[req[r].code]
  /\ emailVerified => \E c \in issued : consumed[c] /\ compared[c] > 0
=============================================================================
