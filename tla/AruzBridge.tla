----------------------------- MODULE AruzBridge -----------------------------
(***************************************************************************)
(* The Aruz Bridge game: the machine of lib/aruz-bridge/machine.ts, the    *)
(* hook that feeds it (useAruzBridgeGame.ts), the countdown that waits for *)
(* the scene (Countdown.tsx, SceneReady.tsx) and the quota of guests       *)
(* (AruzBridgeGame.tsx with lib/guest/use-guest-rounds.ts, one tab).  A    *)
(* player crosses a bridge of glass, one step per question, by the side    *)
(* with the right pattern; the first mistake ends the run.                 *)
(*                                                                         *)
(* bridge is the machine, shown what React committed last: keys and        *)
(* buttons are those of shown, and are committed at once; the one timer of *)
(* a state belongs to the commit that started it.                          *)
(***************************************************************************)
EXTENDS Naturals, FiniteSets, Sequences

CONSTANTS BridgeQuestions,
          MaxSteps,      \* bound of the model: steps of a run
          SideRun,       \* MAX_RUN, 3
          GuestLimit,    \* rounds of a guest: 1 for this game
          MaxStarts      \* bound of the model: runs begun

ASSUME BridgeAssumption ==
    /\ MaxSteps \in Nat \ {0} /\ SideRun \in Nat \ {0}
    /\ GuestLimit \in Nat /\ MaxStarts \in Nat

VARIABLES bridge,     \* MachineState
          shown,      \* the one that is drawn
          ticking,    \* the timer of shown is under way
          sceneReady,
          loading,    \* beginRun waits for the pool
          pooled,     \* poolRef: the questions have been fetched
          user,       \* "checking" until /me is answered
          rounds,     \* guest rounds recorded, in localStorage
          endedRef,   \* the end that is shown has been recorded
          history     \* runs begun, runs ended, runs begun while checking

bridgeVars == <<bridge, shown, ticking, sceneReady, loading, pooled, user, rounds,
                endedRef, history>>

Side == {"left", "right"}
Other(side) == IF side = "left" THEN "right" ELSE "left"
BridgeStates ==
    {"intro", "countdown", "preparing", "showingQuestion", "waitingForAnswer", "jumping",
     "landing", "timeout", "correct", "cracking", "shattering", "falling", "gameOver",
     "finished"}
Resting == {"intro", "gameOver", "finished"}
Over    == {"gameOver", "finished"}

-----------------------------------------------------------------------------
(* prepareSteps: the sides are drawn by lot, but never more than SideRun   *)
(* times the same in a row.                                                *)

LastSide(sides) == IF sides = <<>> THEN "none" ELSE sides[Len(sides)]

\* How often the last side has come in a row.
RunLength(sides) ==
    Cardinality({i \in DOMAIN sides : \A j \in i..Len(sides) : sides[j] = LastSide(sides)})

\* The side drawn by lot, or the other one where the row would get too long.
Seated(side, before) ==
    IF side = LastSide(before) /\ RunLength(before) >= SideRun THEN Other(side) ELSE side

Sides(length) ==
    {sides \in [1..length -> Side] :
        \E lot \in [1..length -> Side] :
            \A i \in 1..length : sides[i] = Seated(lot[i], SubSeq(sides, 1, i - 1))}

Steps(questions, sides) == [i \in DOMAIN questions |-> [q |-> questions[i], side |-> sides[i]]]

Draws(length) ==
    {Steps(questions, sides) :
        questions \in [1..length -> BridgeQuestions], sides \in Sides(length)}

-----------------------------------------------------------------------------
(* The machine.                                                            *)

InitialMachine ==
    [state |-> "intro", epoch |-> 0, steps |-> <<>>, index |-> 1, chosen |-> "none",
     failure |-> "none", streak |-> 0, best |-> 0, correct |-> 0, answered |-> 0,
     failed |-> {}]

To(m, state) == [m EXCEPT !.state = state, !.epoch = @ + 1]
StepOf(m) == m.steps[m.index]
Fails(m, why) ==
    [m EXCEPT !.failure = why, !.streak = 0, !.answered = @ + 1,
              !.failed = @ \cup {StepOf(m).q}]

ResolvedTwice(m) ==
    IF m.state = "timeout" THEN To(Fails(m, "timeout"), "cracking")
    ELSE IF m.chosen # StepOf(m).side THEN To(Fails(m, "wrong"), "cracking")
    ELSE To([m EXCEPT !.streak = @ + 1, !.correct = @ + 1, !.answered = @ + 1,
                      !.best = IF m.streak + 1 > @ THEN m.streak + 1 ELSE @], "correct")

\* resolve: the glass of a timeout only cracks, that of a jump is judged.
Resolved(m) ==
    IF m.state = "timeout" THEN To(m, "cracking")
    ELSE IF m.chosen # StepOf(m).side THEN To(Fails(m, "wrong"), "cracking")
    ELSE To([m EXCEPT !.streak = @ + 1, !.correct = @ + 1, !.answered = @ + 1,
                      !.best = IF m.streak + 1 > @ THEN m.streak + 1 ELSE @], "correct")

Advanced(m) ==
    IF m.index >= Len(m.steps) THEN To(m, "finished")
    ELSE To([m EXCEPT !.index = @ + 1, !.chosen = "none"], "waitingForAnswer")

\* What the timer of a state makes of the machine when it is in that state.
TimerOf(state, m) ==
    CASE state = "preparing"        -> To([m EXCEPT !.chosen = "none"], "showingQuestion")
      [] state = "showingQuestion"  -> To(m, "waitingForAnswer")
      [] state = "waitingForAnswer" -> To(Fails(m, "timeout"), "timeout")
      [] state = "jumping"          -> To(m, "landing")
      [] state \in {"landing", "timeout"} -> Resolved(m)
      [] state = "correct"          -> Advanced(m)
      [] state = "cracking"         -> To(m, "shattering")
      [] state = "shattering"       -> To(m, "falling")
      [] state = "falling"          -> To(m, "gameOver")

\* resolve is one action for two states, every other one is for its own.
Takes(state, m) ==
    IF state \in {"landing", "timeout"} THEN m.state \in {"landing", "timeout"}
    ELSE m.state = state

Timed == BridgeStates \ (Resting \cup {"countdown"})

-----------------------------------------------------------------------------
BridgeInit ==
    /\ bridge = InitialMachine /\ shown = bridge
    /\ ticking = FALSE /\ sceneReady = FALSE
    /\ loading = FALSE /\ pooled = FALSE
    /\ user = "checking"
    /\ rounds \in 0..GuestLimit
    /\ endedRef = FALSE
    /\ history = [begun |-> 0, ended |-> 0, early |-> 0, before |-> rounds]

\* The effects of a commit: the timer of the state, and the round of a guest,
\* recorded with the end of a run and once.
Show(m) ==
    /\ bridge' = m /\ shown' = m
    /\ ticking' = IF m.epoch = shown.epoch /\ m.state = shown.state THEN ticking
                  ELSE m.state \in Timed
    /\ endedRef' = (m.state \in Over)
    /\ rounds' = IF m.state \in Over /\ ~endedRef /\ user # "member" THEN rounds + 1 ELSE rounds
    /\ history' = IF m.state \in Over /\ ~endedRef
                  THEN [history EXCEPT !.ended = @ + 1] ELSE history

Render ==
    /\ shown # bridge
    /\ Show(bridge)
    /\ UNCHANGED <<sceneReady, loading, pooled, user>>

Samples == UNION {Draws(n) : n \in 1..MaxSteps}

\* buildReviewQuestions: what failed, once each; else a sample of the pool.
NewRuns(kind) ==
    IF kind = "review"
    THEN {steps \in Draws(Cardinality(shown.failed)) :
            {steps[i].q : i \in DOMAIN steps} = shown.failed}
    ELSE Samples

\* start, accepted where a run may begin; the machine is anew.
Started(m, steps) ==
    IF m.state \in Resting
    THEN [To(InitialMachine, "countdown") EXCEPT !.steps = steps] ELSE m

BlockedInSetup == shown.state = "intro" /\ user = "guest" /\ rounds >= GuestLimit
BlockedGuest == user = "guest" /\ rounds >= GuestLimit

\* guardGuest and beginRun, from the setup, whose button waits for a load, or
\* again after an end.  Only the first load takes time, and may fail.
BeginRun(kind) ==
    /\ shown.state \in Resting /\ ~loading /\ ~BlockedGuest
    /\ history.begun < MaxStarts
    /\ kind = "review" => shown.failed # {}
    /\ sceneReady' = FALSE
    /\ IF pooled
       THEN /\ \E steps \in NewRuns(kind) : bridge' = Started(bridge, steps)
            /\ UNCHANGED loading
       ELSE loading' = TRUE /\ UNCHANGED bridge
    /\ history' = [history EXCEPT !.begun = @ + 1,
                                  !.early = IF user = "checking" THEN @ + 1 ELSE @]
    /\ UNCHANGED <<shown, ticking, pooled, user, rounds, endedRef>>

PoolArrives ==
    /\ loading
    /\ \E steps \in NewRuns("first") : bridge' = Started(bridge, steps)
    /\ loading' = FALSE /\ pooled' = TRUE
    /\ UNCHANGED <<shown, ticking, sceneReady, user, rounds, endedRef, history>>

PoolFails ==
    /\ loading
    /\ loading' = FALSE
    /\ UNCHANGED <<bridge, shown, ticking, sceneReady, pooled, user, rounds, endedRef, history>>

\* backToSetup.
BackToSetup ==
    /\ shown.state \in Over
    /\ Show(InitialMachine)
    /\ UNCHANGED <<sceneReady, loading, pooled, user>>

SceneReadyOnce ==
    /\ shown.state \notin Resting /\ ~sceneReady /\ history.ended = 0
    /\ sceneReady' = TRUE
    /\ UNCHANGED <<bridge, shown, ticking, loading, pooled, user, rounds, endedRef, history>>

\* The scene, which is there with the bridge, has drawn a frame.
MarkSceneReady ==
    /\ shown.state \notin Resting /\ ~sceneReady
    /\ sceneReady' = TRUE
    /\ UNCHANGED <<bridge, shown, ticking, loading, pooled, user, rounds, endedRef, history>>

TheRestWaits == UNCHANGED <<shown, sceneReady, loading, pooled, user, rounds, endedRef, history>>

\* The countdown on the screen has come to its end.
CountdownDone ==
    /\ shown.state = "countdown" /\ sceneReady /\ bridge.state = "countdown"
    /\ bridge' = To(bridge, "preparing")
    /\ UNCHANGED ticking /\ TheRestWaits

TimerFires ==
    /\ ticking
    /\ ticking' = FALSE
    /\ bridge' = IF Takes(shown.state, bridge) THEN TimerOf(shown.state, bridge) ELSE bridge
    /\ TheRestWaits

\* A key, a click or a tap on the glass.
Answer(side) ==
    /\ shown.state = "waitingForAnswer"
    /\ Show(IF bridge.state # "waitingForAnswer" THEN bridge
            ELSE To([bridge EXCEPT !.chosen = side], "jumping"))
    /\ UNCHANGED <<sceneReady, loading, pooled, user>>

\* /me is answered.
UserKnown ==
    /\ user = "checking"
    /\ user' \in {"guest", "member"}
    /\ UNCHANGED <<bridge, shown, ticking, sceneReady, loading, pooled, rounds, endedRef, history>>

BridgeNext ==
    \/ Render \/ \E kind \in {"first", "review"} : BeginRun(kind)
    \/ PoolArrives \/ PoolFails \/ BackToSetup
    \/ MarkSceneReady \/ CountdownDone \/ TimerFires
    \/ \E side \in Side : Answer(side)
    \/ UserKnown

\* Timers fire, React commits, the scene draws and the countdown counts; the
\* player need not answer.
BridgeFairness ==
    /\ WF_bridgeVars(Render) /\ WF_bridgeVars(TimerFires)
    /\ WF_bridgeVars(MarkSceneReady) /\ WF_bridgeVars(CountdownDone)

BridgeSpec == BridgeInit /\ [][BridgeNext]_bridgeVars /\ BridgeFairness

-----------------------------------------------------------------------------
Machines ==
    [state : BridgeStates, epoch : Nat,
     steps : Seq([q : BridgeQuestions, side : Side]), index : 1..MaxSteps,
     chosen : Side \cup {"none"}, failure : {"none", "wrong", "timeout"},
     streak : 0..MaxSteps, best : 0..MaxSteps, correct : 0..MaxSteps,
     answered : 0..MaxSteps, failed : SUBSET BridgeQuestions]

BridgeTypeOK ==
    /\ bridge \in Machines /\ shown \in Machines
    /\ {ticking, sceneReady, loading, pooled, endedRef} \subseteq BOOLEAN
    /\ user \in {"checking", "guest", "member"}
    /\ rounds \in 0..(GuestLimit + MaxStarts)
    /\ history \in [begun : 0..MaxStarts, ended : 0..MaxStarts, early : 0..MaxStarts,
                     before : 0..GuestLimit]

Judged(m) == m.state \in {"correct", "timeout", "cracking", "shattering", "falling"} \cup Over

\* Every step of a run is judged once, whatever keys, clicks and the timer do
\* to it at the same time: what the result screen counts adds up, the run goes
\* on exactly while everything is right, and the questions to review are the
\* one that failed.
RunTally ==
    bridge.state # "intro" =>
        /\ bridge.answered = bridge.index - (IF Judged(bridge) THEN 0 ELSE 1)
        /\ bridge.correct = bridge.answered - (IF bridge.failure = "none" THEN 0 ELSE 1)
        /\ bridge.best = bridge.correct
        /\ bridge.failed = (IF bridge.failure = "none" THEN {} ELSE {StepOf(bridge).q})
        /\ bridge.state = "gameOver" => bridge.failure # "none"
        /\ bridge.state = "finished" => bridge.correct = Len(bridge.steps)

\* A guest does not end more runs than the quota has left, with those that
\* were begun before /me had said who it is.
GuestStops ==
    user = "guest" => history.ended <= (GuestLimit - history.before) + history.early

\* A run that was begun comes to its end, also when the player only watches.
EveryRunEnds == (bridge.state \notin Resting) ~> (bridge.state \in Resting)
=============================================================================
