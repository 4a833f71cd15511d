-------------------------------- MODULE Pages --------------------------------
(***************************************************************************)
(* What lives in one page of a browser, side by side for one run of the    *)
(* model checker: a behaviour is one of the bookmark flags, of the Grammar *)
(* Circuit, of the test that admits its questions, or of the Aruz Bridge.  *)
(* No variable of one is read by another, so the behaviours of the four,   *)
(* one at a time, are all that there is to see of each.                    *)
(***************************************************************************)
EXTENDS BookmarkStore, GrammarCircuit, AruzBridge, ChoiceSearch

VARIABLE part

pagesVars == <<part, vars, circuitVars, bridgeVars, matchingVars>>

AnyProblem == CHOOSE pb \in Problems : TRUE

\* A part that is left alone has one initial state.
PagesInit ==
    /\ part \in {"bookmarks", "circuit", "matching", "bridge"}
    /\ problem \in (IF part = "matching" THEN Problems ELSE {AnyProblem})
    /\ rounds \in (IF part = "bridge" THEN 0..GuestLimit ELSE {0})
    /\ mark \in (IF part = "bookmarks" THEN [Ref -> Flag] ELSE [Ref -> {"unmarked"}])
    /\ Init /\ CircuitInit /\ BridgeInit /\ MatchingInit

PagesNext ==
    /\ UNCHANGED part
    /\ \/ part = "bookmarks" /\ Next /\ UNCHANGED <<circuitVars, bridgeVars, matchingVars>>
       \/ part = "circuit" /\ CircuitNext /\ UNCHANGED <<vars, bridgeVars, matchingVars>>
       \/ part = "bridge" /\ BridgeNext /\ UNCHANGED <<vars, circuitVars, matchingVars>>
       \/ part = "matching" /\ Visit /\ UNCHANGED <<vars, circuitVars, bridgeVars>>

PagesSpec ==
    /\ PagesInit /\ [][PagesNext]_pagesVars
    /\ Fairness /\ CircuitFairness /\ BridgeFairness

PagesTypeOK == TypeOK /\ CircuitTypeOK /\ BridgeTypeOK /\ MatchingTypeOK
=============================================================================
