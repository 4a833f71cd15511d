---------------------------- MODULE ChoiceSearch ----------------------------
(***************************************************************************)
(* isChoiceSafe of lib/grammar-circuit/matching.ts: a search over the ways *)
(* to put pieces of accepted roles to the slots of a question, one Visit   *)
(* for every state it pops.  Of every state it asks hasFullAssignment of   *)
(* module Matching.  ByLogic says what it decides.                         *)
(***************************************************************************)
EXTENDS Matching

CONSTANT MaxStates                         \* MAX_STATES, 200 000

ASSUME SearchAssumption == MaxStates \in Nat

VARIABLES problem, queue, seen, visited, verdict

matchingVars == <<problem, queue, seen, visited, verdict>>

\* Questions without a slot, and those with more than MAX_SLOTS = 16, are refused
\* before anything is searched; they are not among the problems here, MaxSlots
\* stands for any number up to that limit.
Problems ==
    UNION {[slotRoles : [1..n -> SUBSET RoleIndex], capacities : Stock] : n \in 1..MaxSlots}

SlotsOf(pb) == DOMAIN pb.slotRoles

-----------------------------------------------------------------------------
Nothing == [mask |-> {}, consumed |-> [r \in RoleIndex |-> 0]]

MatchingInit ==
    /\ problem \in Problems
    /\ queue = {Nothing}
    /\ seen = {Nothing}
    /\ visited = 0
    /\ verdict = "searching"

Left(pb, used) == [r \in RoleIndex |-> pb.capacities[r] - used.consumed[r]]

\* The placements that the state allows, as the states they lead to.
Placements(pb, from) ==
    UNION {{[mask |-> from.mask \cup {s}, consumed |-> [from.consumed EXCEPT ![r] = @ + 1]]
                : r \in {q \in pb.slotRoles[s] : Left(pb, from)[q] > 0}}
            : s \in SlotsOf(pb) \ from.mask}

Feasible(pb, at) ==
    \/ at.mask = SlotsOf(pb)
    \/ HasFullAssignment(pb.slotRoles, SlotsOf(pb) \ at.mask, Left(pb, at))

Begin ==
    /\ visited = 0
    /\ ~HasFullAssignment(problem.slotRoles, SlotsOf(problem), problem.capacities)

\* Pops a state, any will do; the first placement that leaves no way to the end decides.
Visit ==
    /\ verdict = "searching"
    /\ IF Begin
       THEN verdict' = "unsafe" /\ UNCHANGED <<queue, seen, visited>>
       ELSE IF queue = {}
       THEN verdict' = "safe" /\ UNCHANGED <<queue, seen, visited>>
       ELSE LET from == CHOOSE st \in queue : TRUE
                new  == Placements(problem, from) \ seen
            IN  /\ visited' = visited + 1
                /\ verdict' = IF visited' > MaxStates THEN "tooLarge"
                              ELSE IF \A to \in new : Feasible(problem, to) THEN "searching"
                              ELSE "unsafe"
                /\ queue' = (queue \ {from}) \cup new
                /\ seen' = seen \cup new
    /\ UNCHANGED problem

MatchingSpec == MatchingInit /\ [][Visit]_matchingVars

-----------------------------------------------------------------------------
\* Every accepted, affordable choice of roles for some slots can be completed.
ByLogic(pb) ==
    \A some \in SUBSET SlotsOf(pb) :
        \A f \in [some -> RoleIndex] :
            Accepted(pb.slotRoles, f) /\ Affordable(f, pb.capacities)
            => Assignable(pb.slotRoles, SlotsOf(pb) \ some,
                          [r \in RoleIndex |-> pb.capacities[r] - HowMany(f, r)])

\* hasFullAssignment finds an assignment of some slots whenever there is one.
TellsAssignable(pb) ==
    \A slots \in SUBSET SlotsOf(pb) :
        HasFullAssignment(pb.slotRoles, slots, pb.capacities)
        <=> Assignable(pb.slotRoles, slots, pb.capacities)

MatchingTypeOK ==
    /\ visited \in 0..(MaxStates + 1)
    /\ verdict \in {"searching", "safe", "unsafe", "tooLarge"}
    /\ \A st \in seen : st.mask \subseteq SlotsOf(problem)

\* The augmenting paths find an assignment of any of the slots whenever there is
\* one, and the search accepts a question if and only if no accepted placement,
\* in any order, can leave the rest without a solution.
SearchDecides ==
    /\ visited = 0 => TellsAssignable(problem)
    /\ verdict = "safe" => ByLogic(problem)
    /\ verdict = "unsafe" => ~ByLogic(problem)
=============================================================================
