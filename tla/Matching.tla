------------------------------ MODULE Matching ------------------------------
(***************************************************************************)
(* hasFullAssignment of lib/grammar-circuit/matching.ts, which decides     *)
(* whether what is left of the pieces can fill the slots that are left:    *)
(* Kuhn's augmenting paths.  tryAssign calls itself for the holders of a   *)
(* full role; the calls that are open at a time are a path of slots, and   *)
(* one Step is one turn of the loop of the innermost of them.  Only roles  *)
(* count, a role's capacity is the number of its pieces.                   *)
(*                                                                         *)
(* Assignable says what it decides.  The search that asks it is module     *)
(* ChoiceSearch.                                                           *)
(***************************************************************************)
EXTENDS Naturals, FiniteSets, Sequences

CONSTANTS MaxSlots, MaxRoles, MaxCapacity  \* bounds of the model: size of a question

ASSUME MatchingAssumption == MaxSlots \in Nat /\ MaxRoles \in Nat /\ MaxCapacity \in Nat

RoleIndex == 1..MaxRoles
Stock == [RoleIndex -> 0..MaxCapacity]

HowMany(f, r) == Cardinality({s \in DOMAIN f : f[s] = r})
Accepted(slotRoles, f) == \A s \in DOMAIN f : f[s] \in slotRoles[s]
Affordable(f, left) == \A r \in RoleIndex : HowMany(f, r) <= left[r]

\* Roles can be given to the slots within what is left of them.
Assignable(slotRoles, slots, left) ==
    \E f \in [slots -> RoleIndex] : Accepted(slotRoles, f) /\ Affordable(f, left)

-----------------------------------------------------------------------------
NoRole == 0                                \* a slot that has not tried a role yet
Untried(s) == [slot |-> s, role |-> NoRole]

\* has: who is assigned to which role; todo: the slots whose turn is to come.
\* Of the turn of one slot: path, the open calls of tryAssign; met, the roles
\* visited; asked, the holders that were called.
Outset(slots) ==
    [has |-> [s \in {} |-> NoRole], todo |-> slots,
     path |-> <<>>, met |-> {}, asked |-> {}, answer |-> "none"]

Top(call) == call.path[Len(call.path)]
Holders(call, r) == {s \in DOMAIN call.has : call.has[s] = r}

NextTurn(call) ==
    LET s == CHOOSE t \in call.todo : TRUE
    IN  [call EXCEPT !.todo = @ \ {s}, !.path = <<Untried(s)>>, !.met = {}, !.asked = {}]

\* The role is full: one of its holders is called to find itself another.
AskHolder(call, holder) ==
    [call EXCEPT !.path = Append(@, Untried(holder)), !.asked = @ \cup {holder}]

\* Every slot of the path takes the role that it tries.
Settled(has, path) ==
    [s \in DOMAIN has \cup {path[i].slot : i \in DOMAIN path} |->
        IF \E i \in DOMAIN path : path[i].slot = s
        THEN path[CHOOSE i \in DOMAIN path : path[i].slot = s].role
        ELSE has[s]]

Try(call, left, r) ==
    LET path == [call.path EXCEPT ![Len(call.path)].role = r]
    IN  IF HowMany(call.has, r) < left[r]
        THEN [call EXCEPT !.has = Settled(@, path), !.path = <<>>]
        ELSE [call EXCEPT !.path = path, !.met = @ \cup {r}]

\* No role is left to try; when that is the slot whose turn it is, there is no way.
GiveUp(call) ==
    [call EXCEPT !.path = SubSeq(@, 1, Len(@) - 1),
                 !.answer = IF Len(call.path) = 1 THEN "no" ELSE @]

\* The mistake of a greedy answer: nobody who holds a role is asked for another.
StepNeverAsks(slotRoles, left, call) ==
    IF call.answer # "none" THEN call
    ELSE IF call.path = <<>>
    THEN IF call.todo = {} THEN [call EXCEPT !.answer = "yes"] ELSE NextTurn(call)
    ELSE LET roles == slotRoles[Top(call).slot] \ call.met
         IN  IF roles # {} THEN Try(call, left, CHOOSE r \in roles : TRUE) ELSE GiveUp(call)

\* Roles and holders are taken in any order: the answer does not depend on it.
Step(slotRoles, left, call) ==
    IF call.answer # "none" THEN call
    ELSE IF call.path = <<>>
    THEN IF call.todo = {} THEN [call EXCEPT !.answer = "yes"] ELSE NextTurn(call)
    ELSE LET holders == Holders(call, Top(call).role) \ call.asked
             roles   == slotRoles[Top(call).slot] \ call.met
         IN  IF holders # {} THEN AskHolder(call, CHOOSE h \in holders : TRUE)
             ELSE IF roles # {} THEN Try(call, left, CHOOSE r \in roles : TRUE)
             ELSE GiveUp(call)

\* A turn meets every role once, calls every holder once and gives up once for
\* every call.
Turn(slots) == 2 * Cardinality(slots) + MaxRoles + 2
Enough(slots) == 1 + Cardinality(slots) * Turn(slots)

Course(slotRoles, slots, left) ==
    LET call[n \in 0..Enough(slots)] ==
            IF n = 0 THEN Outset(slots) ELSE Step(slotRoles, left, call[n - 1])
    IN  call

HasFullAssignment(slotRoles, slots, left) ==
    Course(slotRoles, slots, left)[Enough(slots)].answer = "yes"
=============================================================================
