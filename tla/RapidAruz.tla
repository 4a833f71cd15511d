------------------------------ MODULE RapidAruz ------------------------------
(***************************************************************************)
(* One tab playing Rapid Aruz: the reducer (lib/aruz-rapid/machine.ts) and *)
(* the effects that feed it (components/UI/aruz-rapid/useRapidAruzGame.ts, *)
(* useSuspendableTimeout.ts, useRapidAruzPause.ts).                        *)
(*                                                                         *)
(* Events reach the reducer at once; listeners, timers and buttons belong  *)
(* to the last state React has committed, which may lag behind it: "shown" *)
(* is what the effects know, and Render brings it up to date.              *)
(*                                                                         *)
(* Time is a count of ticks.  activeAccumMs is counted from the first unit *)
(* of the run, because only differences of it are used.                    *)
(***************************************************************************)
EXTENDS Integers, FiniteSets

CONSTANTS Questions,    \* number of questions of a session
          Units,        \* number of units of a question
          AnswerTime, FirstUnitExtra,   \* getUnitDuration
          Epsilon,      \* DEADLINE_EPSILON_MS
          ReplayPreviewOnReset,
          Reason,       \* PauseReason, those that something of the game sends
          None,
          MaxRun,       \* bound on runId
          MaxResume     \* bound on resumeSeq

ASSUME SizesAssumption == Questions \in Nat \ {0} /\ Units \in Nat \ {0}
ASSUME TimesAssumption == /\ AnswerTime \in Nat /\ FirstUnitExtra \in Nat
                          /\ Epsilon \in 0..AnswerTime
ASSUME ReasonAssumption == Reason \subseteq {"visibility", "windowBlur", "layoutTransition"}
ASSUME NoneAssumption == None \notin [id : Nat, deadlineActive : Nat, committed : BOOLEAN]
ASSUME ConfigAssumption == ReplayPreviewOnReset \in BOOLEAN
ASSUME BoundsAssumption == MaxRun \in Nat /\ MaxResume \in Nat

VARIABLES state,      \* RapidAruzState
          elapsed,    \* performance.now() - activeSince
          shown,      \* what the effects of the last commit know
          spent,      \* by kind of wait, the key whose entry is done
          away,       \* why the player is away
          played,     \* history: ticks of this run in which input counted
          ended,      \* history: the last attempt of the session with an outcome
          left,       \* history: a question has been left before its session
          missed      \* history: reasons whose end nobody listened for

history == <<played, ended, left, missed>>
vars == <<state, elapsed, shown, spent, away, history>>
-----------------------------------------------------------------------------
Gameplay == {"preview", "spoilerTransition", "armingUnit", "playing",
             "resetFeedbackWrong", "resetFeedbackTimeout", "resetting", "completed"}
BoardVisible == Gameplay \cup {"waitingForFont"}
Feedback == {"resetFeedbackWrong", "resetFeedbackTimeout"}
Results == {"questionResults", "sessionResults"}
Phase == {"intro", "loadingQuestion", "waitingForFont", "error"} \cup Gameplay \cup Results

getUnitDuration(u) == IF u = 0 THEN AnswerTime + FirstUnitExtra ELSE AnswerTime
Attempt == [id : Nat, deadlineActive : Nat, committed : BOOLEAN]

State == [phase : Phase, questionIndex : 0..(Questions - 1), questionEpoch : Nat,
          runId : Nat, unitAttemptId : Nat, unitIndex : 0..(Units - 1),
          attempt : Attempt \cup {None}, activeAccum : Nat, running : BOOLEAN,
          pauseReasons : SUBSET Reason, resuming : BOOLEAN, resumeSeq : Nat,
          currentStreak : 0..Units, attemptCount : Nat, wrongChoices : Nat, timeouts : Nat]

createInitialState ==
  [phase |-> "intro", questionIndex |-> 0, questionEpoch |-> 0, runId |-> 0,
   unitAttemptId |-> 0, unitIndex |-> 0, attempt |-> None, activeAccum |-> 0,
   running |-> FALSE, pauseReasons |-> {}, resuming |-> FALSE, resumeSeq |-> 0,
   currentStreak |-> 0, attemptCount |-> 0, wrongChoices |-> 0, timeouts |-> 0]

isPaused(s) == s.pauseReasons # {}
activeNow == IF state.running THEN state.activeAccum + elapsed ELSE state.activeAccum
canAcceptInput(s) == /\ s.phase = "playing"
                     /\ s.attempt # None /\ ~s.attempt.committed
                     /\ ~isPaused(s) /\ ~s.resuming

(* The waits of useSuspendableTimeout and their keys.                      *)
Kind == {"preview", "spoiler", "feedback", "reset", "complete", "resume"}
WaitPhases(k) == CASE k = "preview" -> {"preview"}
                   [] k = "spoiler" -> {"spoilerTransition"}
                   [] k = "feedback" -> Feedback
                   [] k = "reset" -> {"resetting"}
                   [] k = "complete" -> {"completed"}
                   [] k = "resume" -> {}

timeoutKey(k, v) ==
  IF k = "resume" THEN IF v.resuming THEN <<v.questionEpoch, v.runId, v.resumeSeq>> ELSE None
  ELSE IF v.phase \in WaitPhases(k) THEN <<v.questionEpoch, v.runId, 0>> ELSE None

View(s) == [phase |-> s.phase, questionEpoch |-> s.questionEpoch, runId |-> s.runId,
            unitAttemptId |-> s.unitAttemptId, paused |-> isPaused(s),
            resuming |-> s.resuming, resumeSeq |-> s.resumeSeq]
Views == [phase : Phase, questionEpoch : Nat, runId : Nat, unitAttemptId : Nat,
          paused : BOOLEAN, resuming : BOOLEAN, resumeSeq : Nat]

TypeOK ==
  /\ state \in State
  /\ elapsed \in Nat
  /\ shown \in Views
  /\ spent \in [Kind -> (Nat \X Nat \X Nat) \cup {None}]
  /\ away \in SUBSET Reason
  /\ played \in Nat
  /\ ended \in Nat
  /\ left \in BOOLEAN
  /\ missed \in SUBSET Reason

Init ==
  /\ state = createInitialState
  /\ elapsed = 0
  /\ shown = View(createInitialState)
  /\ spent = [k \in Kind |-> None]
  /\ away = {}
  /\ played = 0 /\ ended = 0 /\ left = FALSE /\ missed = {}
-----------------------------------------------------------------------------
(* The reducer.                                                            *)

Stopped(s, e) == [s EXCEPT !.activeAccum = IF s.running THEN @ + e ELSE @,
                           !.running = FALSE]

beginQuestion(s, i) ==
  [s EXCEPT !.phase = "waitingForFont", !.questionIndex = i,
            !.questionEpoch = @ + 1, !.runId = @ + 1, !.unitAttemptId = @ + 1,
            !.unitIndex = 0, !.currentStreak = 0, !.attempt = None,
            !.activeAccum = 0, !.running = FALSE, !.resuming = FALSE,
            !.attemptCount = 0, !.wrongChoices = 0, !.timeouts = 0]

(* What SPOILER_DONE and startNewRun do alike.                             *)
freshRun(s, p) ==
  [s EXCEPT !.phase = p, !.runId = @ + 1, !.unitAttemptId = @ + 1,
            !.unitIndex = 0, !.currentStreak = 0, !.attempt = None,
            !.attemptCount = @ + 1]

\* Mutant: a new run keeps the attempt's id.
startNewRunSameAttempt(s) ==
  [freshRun(s, "armingUnit") EXCEPT !.unitAttemptId = s.unitAttemptId]

startNewRun(s) == freshRun(s, IF ReplayPreviewOnReset THEN "preview" ELSE "armingUnit")

\* Mutant: a timeout is not counted.
mistakeWrongOnly(s, wrong) ==
  [s EXCEPT !.phase = IF wrong THEN "resetFeedbackWrong" ELSE "resetFeedbackTimeout",
            !.attempt.committed = TRUE, !.currentStreak = 0,
            !.wrongChoices = IF wrong THEN @ + 1 ELSE @]

(* commitOutcome, on a state whose clock is stopped.                       *)
mistake(s, wrong) ==
  [s EXCEPT !.phase = IF wrong THEN "resetFeedbackWrong" ELSE "resetFeedbackTimeout",
            !.attempt.committed = TRUE, !.currentStreak = 0,
            !.wrongChoices = IF wrong THEN @ + 1 ELSE @,
            !.timeouts = IF wrong THEN @ ELSE @ + 1]

correct(s) ==
  IF s.unitIndex = Units - 1
  THEN [s EXCEPT !.phase = "completed", !.attempt.committed = TRUE, !.currentStreak = @ + 1]
  ELSE [s EXCEPT !.phase = "armingUnit", !.unitIndex = @ + 1, !.unitAttemptId = @ + 1,
                 !.attempt = None, !.currentStreak = @ + 1]

\* Mutant: the clock of a pause keeps running.
pauseKeepsClock(s, r, e) ==
  IF r \in s.pauseReasons THEN s
  ELSE [s EXCEPT !.pauseReasons = @ \cup {r}, !.resuming = FALSE]

pause(s, r, e) ==
  IF r \in s.pauseReasons THEN s
  ELSE Stopped([s EXCEPT !.pauseReasons = @ \cup {r}, !.resuming = FALSE], e)

\* Mutant: a return lifts nothing while another reason is left.
resumeLast(s, r) ==
  IF s.pauseReasons # {r} THEN s
  ELSE [s EXCEPT !.pauseReasons = {}, !.resuming = TRUE, !.resumeSeq = @ + 1]

resume(s, r) ==
  IF r \notin s.pauseReasons THEN s
  ELSE [s EXCEPT !.pauseReasons = @ \ {r},
                 !.resuming = (s.pauseReasons = {r}),
                 !.resumeSeq = IF s.pauseReasons = {r} THEN @ + 1 ELSE @]

(* An event that has a new state for the reducer, and nothing else.        *)
Dispatch(s) == state' = s /\ UNCHANGED <<elapsed, shown, spent, away, history>>
-----------------------------------------------------------------------------
(* Buttons and loading.                                                    *)

startSession ==
  /\ shown.phase = "intro"
  /\ Dispatch([state EXCEPT !.phase = "loadingQuestion"])

(* getQuestions resolves, with or without a question, or rejects.          *)
Loaded ==
  /\ shown.phase = "loadingQuestion" /\ state.phase = "loadingQuestion"
  /\ Dispatch(beginQuestion(state, 0))

LoadFailed ==
  /\ shown.phase = "loadingQuestion" /\ state.phase = "loadingQuestion"
  /\ Dispatch([state EXCEPT !.phase = "error"])

FontReady ==
  /\ shown.phase = "waitingForFont" /\ state.phase = "waitingForFont"
  /\ Dispatch([state EXCEPT !.phase = "preview"])

nextQuestion ==
  /\ shown.phase = "questionResults" /\ state.phase = "questionResults"
  /\ state.runId < MaxRun
  /\ Dispatch(beginQuestion(state, state.questionIndex + 1))

retryQuestion ==
  /\ shown.phase \in Results /\ state.phase \in Results
  /\ state.runId < MaxRun
  /\ Dispatch(beginQuestion(state, state.questionIndex))

(* The exit of the top bar, of the results and of the error notice.        *)
backToIntro ==
  /\ shown.phase \in BoardVisible \cup Results \cup {"error"}
  /\ state' = createInitialState
  /\ ended' = 0 /\ played' = 0 /\ missed' = {}
  /\ left' = (left \/ state.questionEpoch > 0)
  /\ UNCHANGED <<elapsed, shown, spent, away>>
-----------------------------------------------------------------------------
(* Playing a unit.                                                         *)

(* The second of two animation frames after the unit was painted.          *)
ArmUnit ==
  /\ shown.phase = "armingUnit" /\ ~shown.paused /\ ~shown.resuming
  /\ state.phase = "armingUnit" /\ ~isPaused(state) /\ ~state.resuming
  /\ LET began == IF state.unitIndex = 0 THEN 0 ELSE state.activeAccum
     IN /\ state' = [state EXCEPT !.phase = "playing", !.running = TRUE,
                       !.activeAccum = began,
                       !.attempt = [id |-> state.unitAttemptId,
                                    deadlineActive |-> began + getUnitDuration(state.unitIndex),
                                    committed |-> FALSE]]
        /\ played' = IF state.unitIndex = 0 THEN 0 ELSE played
  /\ elapsed' = 0
  /\ UNCHANGED <<shown, spent, away, ended, left, missed>>

(* Once the deadline has come nothing depends on how long ago.             *)
Tick ==
  /\ state.running /\ activeNow < state.attempt.deadlineActive
  /\ elapsed' = elapsed + 1
  /\ played' = IF canAcceptInput(state) THEN played + 1 ELSE played
  /\ UNCHANGED <<state, shown, spent, away, ended, left, missed>>

Late == activeNow >= state.attempt.deadlineActive - Epsilon

Outcome(s) == /\ state' = s
              /\ ended' = state.attempt.id
              /\ UNCHANGED <<elapsed, shown, spent, away, played, left, missed>>

(* A key or a button; a late answer is a timeout, right or wrong.          *)
requestAnswer(right) ==
  /\ shown.phase \in BoardVisible
  /\ canAcceptInput(state)
  /\ Outcome(CASE Late -> mistake(Stopped(state, elapsed), FALSE)
               [] ~Late /\ right -> correct(Stopped(state, elapsed))
               [] OTHER -> mistake(Stopped(state, elapsed), TRUE))

(* The alarm sleeps again while any of the deadline is left.               *)
DeadlineReached ==
  /\ shown.phase = "playing" /\ ~shown.paused /\ ~shown.resuming
  /\ canAcceptInput(state) /\ state.attempt.id = shown.unitAttemptId
  /\ activeNow >= state.attempt.deadlineActive
  /\ Outcome(mistake(Stopped(state, elapsed), FALSE))
-----------------------------------------------------------------------------
(* Waits.                                                                  *)

(* What the reducer makes of the end of a wait; epoch and run are those    *)
(* the callback was made with.                                             *)
Ends(k, s, epoch, run) ==
  CASE k = "preview" /\ s.phase = "preview" -> [s EXCEPT !.phase = "spoilerTransition"]
    [] k = "spoiler" /\ s.phase = "spoilerTransition" -> freshRun(s, "armingUnit")
    [] k = "feedback" /\ s.phase \in Feedback /\ run = s.runId /\ epoch = s.questionEpoch
         -> [s EXCEPT !.phase = "resetting"]
    [] k = "reset" /\ s.phase = "resetting" /\ epoch = s.questionEpoch -> startNewRun(s)
    [] k = "complete" /\ s.phase = "completed" /\ epoch = s.questionEpoch
         -> [s EXCEPT !.phase = IF s.questionIndex = Questions - 1
                                THEN "sessionResults" ELSE "questionResults"]
    [] k = "resume" /\ ~isPaused(s) /\ s.resuming
         -> [s EXCEPT !.resuming = FALSE,
                      !.running = IF s.phase = "playing" /\ s.attempt # None THEN TRUE ELSE @]
    [] OTHER -> s

(* A timeout fires: its entry is done, whatever becomes of the event.      *)
Fire(k) ==
  /\ timeoutKey(k, shown) # None /\ ~shown.paused
  /\ spent[k] # timeoutKey(k, shown)
  /\ k \in {"spoiler", "reset"} => state.runId < MaxRun
  /\ spent' = [spent EXCEPT ![k] = timeoutKey(k, shown)]
  /\ state' = Ends(k, state, shown.questionEpoch, shown.runId)
  /\ elapsed' = IF state'.running # state.running THEN 0 ELSE elapsed
  /\ UNCHANGED <<shown, away, history>>
-----------------------------------------------------------------------------
(* Pauses.                                                                 *)

(* The listeners are there while the board is drawn.                       *)
Listening(v, r) == /\ v.phase \in BoardVisible
                   /\ r = "layoutTransition" => v.phase # "completed"

(* A turn of the screen is only noticed by its listener.                   *)
LookAway(r) ==
  /\ r \notin away /\ state.resumeSeq < MaxResume
  /\ r = "layoutTransition" => Listening(shown, r)
  /\ away' = away \cup {r}
  /\ state' = IF Listening(shown, r) THEN pause(state, r, elapsed) ELSE state
  /\ UNCHANGED <<elapsed, shown, spent, history>>

ComeBack(r) ==
  /\ r \in away
  /\ away' = away \ {r}
  /\ IF Listening(shown, r)
     THEN state' = resume(state, r) /\ missed' = missed \ {r}
     ELSE state' = state /\ missed' = missed \cup (state.pauseReasons \cap {r})
  /\ UNCHANGED <<elapsed, shown, spent, played, ended, left>>

(* React commits: effects are cleaned up and set up again for what is new. *)
(* An entry is replaced by that of another key.  A hidden tab pauses a     *)
(* game it finds; a turn of the screen under way is over with its listener.*)
Render ==
  LET next == View(state)
      found == ~Listening(shown, "visibility") /\ Listening(next, "visibility") /\ "visibility" \in away
      lost == Listening(shown, "layoutTransition") /\ ~Listening(next, "layoutTransition")
                /\ "layoutTransition" \in away
  IN /\ shown # next
     /\ found => state.resumeSeq < MaxResume
     /\ shown' = next
     /\ spent' = [k \in Kind |-> IF timeoutKey(k, next) \in {None, spent[k]} THEN spent[k] ELSE None]
     /\ away' = IF lost THEN away \ {"layoutTransition"} ELSE away
     /\ state' = CASE found -> pause(state, "visibility", elapsed)
                   [] lost -> resume(state, "layoutTransition")
                   [] OTHER -> state
     /\ UNCHANGED <<elapsed, history>>
-----------------------------------------------------------------------------
Next == \/ startSession \/ Loaded \/ LoadFailed \/ FontReady
        \/ nextQuestion \/ retryQuestion \/ backToIntro
        \/ ArmUnit \/ Tick \/ DeadlineReached
        \/ \E right \in BOOLEAN : requestAnswer(right)
        \/ \E k \in Kind : Fire(k)
        \/ \E r \in Reason : LookAway(r) \/ ComeBack(r)
        \/ Render

(* Promises settle, timeouts and animation frames come, React commits and  *)
(* time passes.  Nothing is assumed of the player.                         *)
Fairness == /\ WF_vars(Loaded \/ LoadFailed) /\ WF_vars(FontReady)
            /\ WF_vars(ArmUnit) /\ WF_vars(Tick) /\ WF_vars(DeadlineReached)
            /\ \A k \in Kind : WF_vars(Fire(k))
            /\ WF_vars(Render)

Spec == Init /\ [][Next]_vars
FairSpec == Spec /\ Fairness
-----------------------------------------------------------------------------
(* Properties.                                                             *)

(* "The time of a unit is counted in interactive milliseconds, not by the  *)
(* wall clock" (machine.ts:15-18): whatever pauses, overlays and late      *)
(* frames a run has seen, its clock shows exactly the ticks in which an    *)
(* answer would have counted, and it runs when one would count.            *)
ClockIsInteractive ==
  /\ state.running <=> canAcceptInput(state)
  /\ state.phase = "playing" \/ (state.phase = "armingUnit" /\ state.unitIndex > 0)
       => activeNow = played

(* Every run of a question is counted once, ends in at most one mistake,   *)
(* and the streak is the unit the player has come to.                      *)
Counted == {"armingUnit", "playing", "completed"} \cup Results
EveryRunIsCounted ==
  /\ ~ReplayPreviewOnReset =>
       state.attemptCount = state.wrongChoices + state.timeouts
                              + (IF state.phase \in Counted THEN 1 ELSE 0)
  /\ state.phase \in {"armingUnit", "playing"} => state.currentStreak = state.unitIndex
  /\ state.phase \in {"completed"} \cup Results => state.currentStreak = Units

(* "Every attempt at a unit gets exactly one outcome" (machine.ts:23-25),  *)
(* however answers, the alarm, pauses and late commits meet.               *)
OneOutcomeEach ==
  [][DeadlineReached \/ (\E right \in BOOLEAN : requestAnswer(right)) => ended' > ended]_vars

(* Why these hold.                                                         *)
PlaysAnOpenAttempt ==
  state.phase = "playing" => /\ state.attempt # None /\ ~state.attempt.committed
                             /\ state.attempt.id = state.unitAttemptId
OutcomesInOrder ==
  /\ ended <= state.unitAttemptId
  /\ state.phase \in {"armingUnit", "playing"} => ended < state.unitAttemptId

NextIsThere == state.phase = "questionResults" => state.questionIndex < Questions - 1
IntroIsReal == shown.phase = "intro" => state.phase \in {"intro", "loadingQuestion"}

Inv == /\ TypeOK
       /\ IntroIsReal
       /\ PlaysAnOpenAttempt
       /\ OutcomesInOrder
       /\ ClockIsInteractive
       /\ EveryRunIsCounted
       /\ NextIsThere

(* The game never hangs in a phase that ends by itself, in an overlay or   *)
(* with input closed: unless the player is away, it comes to a page with a *)
(* button.  (What a return that nobody listens for does is excluded, see   *)
(* GoesOnAfterReturn, and so are sessions after one that was left, see     *)
(* GoesOnAfterExit; out of runs, a bound of the model, nobody can start.)  *)
Rests == state.phase \in {"intro", "error"} \cup Results
Excused == state.pauseReasons \cap away # {} \/ state.runId = MaxRun
GameGoesOn == ~Rests /\ ~left /\ missed = {} ~> Rests \/ Excused \/ left \/ missed # {}
-----------------------------------------------------------------------------
(* Two claims of the repository that the code does not keep.               *)

(* "Clears a question's state completely, with a fresh id, so that no old  *)
(* callback sticks" (machine.ts:282): a preview ends in every session.     *)
GoesOnAfterExit ==
  state.phase = "preview" ~> state.phase # "preview" \/ isPaused(state) \/ state.runId = MaxRun

(* "To go on come back to this page" (RapidAruzGame.tsx:387): the overlay  *)
(* of a paused game does not stay over a board whose player is back.       *)
Covered == shown.phase \in BoardVisible /\ isPaused(state) /\ away = {}
GoesOnAfterReturn == Covered /\ ~left ~> ~Covered \/ left
=============================================================================
