--------------------------- MODULE RapidAruzProofs ---------------------------
(***************************************************************************)
(* The invariants of RapidAruz for any number of questions and units, any  *)
(* deadlines and any number of runs and pauses.                            *)
(***************************************************************************)
EXTENDS RapidAruz, TLAPS

(* What is said of the reducer's state alone, so that an action has to be  *)
(* followed on the one record it changes.                                  *)
Sound(s) ==
  /\ s \in State
  /\ s.phase = "playing" => /\ s.attempt # None /\ ~s.attempt.committed
                            /\ s.attempt.id = s.unitAttemptId
  /\ s.running <=> canAcceptInput(s)
  /\ ~ReplayPreviewOnReset =>
       s.attemptCount = s.wrongChoices + s.timeouts + (IF s.phase \in Counted THEN 1 ELSE 0)
  /\ s.phase \in {"armingUnit", "playing"} => s.currentStreak = s.unitIndex
  /\ s.phase \in {"completed"} \cup Results => s.currentStreak = Units
  /\ s.phase = "questionResults" => s.questionIndex < Questions - 1

Surroundings ==
  /\ elapsed \in Nat /\ shown \in Views
  /\ spent \in [Kind -> (Nat \X Nat \X Nat) \cup {None}]
  /\ away \in SUBSET Reason
  /\ played \in Nat /\ ended \in Nat /\ left \in BOOLEAN
  /\ missed \in SUBSET Reason

(* activeNow of a state.                                                   *)
Clock(s, e) == IF s.running THEN s.activeAccum + e ELSE s.activeAccum

ClockShows ==
  state.phase = "playing" \/ (state.phase = "armingUnit" /\ state.unitIndex > 0)
    => Clock(state, elapsed) = played

USE SizesAssumption, TimesAssumption, ReasonAssumption, ConfigAssumption, NoneAssumption

LEMMA InvParts ==
  Inv <=> Sound(state) /\ Surroundings /\ IntroIsReal /\ OutcomesInOrder /\ ClockShows
BY DEF Inv, Sound, Surroundings, Clock, ClockShows, activeNow,
       TypeOK, PlaysAnOpenAttempt, ClockIsInteractive, EveryRunIsCounted, NextIsThere

LEMMA InvPartsPrime ==
  Inv' <=> Sound(state)' /\ Surroundings' /\ IntroIsReal' /\ OutcomesInOrder' /\ ClockShows'
BY InvParts, PTL

LEMMA Ranges ==
  /\ 0 \in 0..(Questions - 1) /\ 0 \in 0..(Units - 1) /\ 0 \in 0..Units /\ 0 \in Nat
  /\ \A n \in Nat : n + 1 \in Nat
  /\ \A p \in {"intro", "loadingQuestion", "waitingForFont", "error"} \cup Gameplay \cup Results :
       p \in Phase
BY DEF Phase

(* Stopping the clock changes nothing else.                                *)
LEMMA StoppedState ==
  ASSUME NEW s \in State, NEW e \in Nat
  PROVE  /\ Stopped(s, e) \in State
         /\ Stopped(s, e).running = FALSE
         /\ Stopped(s, e).activeAccum = Clock(s, e)
         /\ Stopped(s, e).phase = s.phase
         /\ Stopped(s, e).attempt = s.attempt
         /\ Stopped(s, e).unitAttemptId = s.unitAttemptId
         /\ Stopped(s, e).unitIndex = s.unitIndex
         /\ Stopped(s, e).currentStreak = s.currentStreak
         /\ Stopped(s, e).attemptCount = s.attemptCount
         /\ Stopped(s, e).wrongChoices = s.wrongChoices
         /\ Stopped(s, e).timeouts = s.timeouts
         /\ Stopped(s, e).pauseReasons = s.pauseReasons
         /\ Stopped(s, e).questionIndex = s.questionIndex
<1> DEFINE n == IF s.running THEN s.activeAccum + e ELSE s.activeAccum
<1>1. n \in Nat
      BY DEF State
<1>2. Stopped(s, e) = [s EXCEPT !.activeAccum = n, !.running = FALSE]
      BY DEF Stopped
<1> HIDE DEF n
<1>3. [s EXCEPT !.activeAccum = n, !.running = FALSE] \in State
      BY <1>1, Zenon DEF State
<1>4. [s EXCEPT !.activeAccum = n, !.running = FALSE].activeAccum = n
      BY DEF State
<1>5. Stopped(s, e).activeAccum = Clock(s, e)
      BY <1>2, <1>4 DEF n, Clock
<1> QED
    BY <1>2, <1>3, <1>5 DEF State

(* Two moments of one unit, between which no interactive time has passed.  *)
Alike(s, e, t, f) == /\ t.phase = s.phase /\ t.unitIndex = s.unitIndex
                     /\ t.unitAttemptId = s.unitAttemptId
                     /\ Clock(t, f) = Clock(s, e)

(* A pause or its end changes neither the phase nor the attempt.           *)
LEMMA PauseSound ==
  ASSUME NEW s, Sound(s), NEW r \in Reason, NEW e \in Nat
  PROVE  Sound(pause(s, r, e)) /\ Alike(s, e, pause(s, r, e), e)
<1> DEFINE q == [s EXCEPT !.pauseReasons = @ \cup {r}, !.resuming = FALSE]
<1>1. CASE r \in s.pauseReasons
      BY <1>1 DEF pause, Alike
<1>2. CASE r \notin s.pauseReasons
  <2>1. s \in State
        BY DEF Sound
  <2>2. q \in State
        BY <2>1, Zenon DEF State
  <2>3. /\ q.phase = s.phase /\ q.attempt = s.attempt
        /\ q.unitAttemptId = s.unitAttemptId /\ q.unitIndex = s.unitIndex
        /\ q.currentStreak = s.currentStreak /\ q.attemptCount = s.attemptCount
        /\ q.wrongChoices = s.wrongChoices /\ q.timeouts = s.timeouts
        /\ r \in q.pauseReasons
        /\ q.running = s.running /\ q.activeAccum = s.activeAccum
        /\ q.questionIndex = s.questionIndex
        BY <2>1 DEF State
  <2>4. pause(s, r, e) = Stopped(q, e)
        BY <1>2 DEF pause
  <2> HIDE DEF q
  <2> DEFINE z == Stopped(q, e)
  <2>5. /\ z \in State /\ z.running = FALSE /\ z.phase = s.phase /\ z.attempt = s.attempt
        /\ z.unitAttemptId = s.unitAttemptId /\ z.unitIndex = s.unitIndex
        /\ z.currentStreak = s.currentStreak /\ z.attemptCount = s.attemptCount
        /\ z.wrongChoices = s.wrongChoices /\ z.timeouts = s.timeouts
        /\ r \in z.pauseReasons /\ z.activeAccum = Clock(q, e)
        /\ z.questionIndex = s.questionIndex
        BY <2>2, <2>3, StoppedState
  <2> HIDE DEF z
  <2>6. ~canAcceptInput(z)
        BY <2>5 DEF canAcceptInput, isPaused
  <2>7. Sound(z)
        BY <2>5, <2>6 DEF Sound
  <2>8. Alike(s, e, z, e)
        BY <2>3, <2>5 DEF Alike, Clock
  <2> QED
      BY <2>4, <2>7, <2>8 DEF z
<1> QED
    BY <1>1, <1>2

LEMMA ResumeSound ==
  ASSUME NEW s, Sound(s), NEW r \in Reason, NEW e \in Nat
  PROVE  Sound(resume(s, r)) /\ Alike(s, e, resume(s, r), e)
<1> DEFINE q == resume(s, r)
<1>1. CASE r \notin s.pauseReasons
      BY <1>1 DEF resume, Alike
<1>2. CASE r \in s.pauseReasons
  <2>1. s \in State
        BY DEF Sound
  <2> DEFINE n == IF s.pauseReasons = {r} THEN s.resumeSeq + 1 ELSE s.resumeSeq
  <2>2. n \in Nat
        BY <2>1 DEF State
  <2>3. q = [s EXCEPT !.pauseReasons = @ \ {r}, !.resuming = (s.pauseReasons = {r}),
                      !.resumeSeq = n]
        BY <1>2 DEF resume
  <2> HIDE DEF n, q
  <2>4. q \in State
        BY <2>1, <2>2, <2>3, Zenon DEF State
  <2>5. /\ q.phase = s.phase /\ q.attempt = s.attempt /\ q.running = s.running
        /\ q.unitAttemptId = s.unitAttemptId /\ q.unitIndex = s.unitIndex
        /\ q.currentStreak = s.currentStreak /\ q.attemptCount = s.attemptCount
        /\ q.wrongChoices = s.wrongChoices /\ q.timeouts = s.timeouts
        /\ q.activeAccum = s.activeAccum /\ q.questionIndex = s.questionIndex
        BY <2>1, <2>3 DEF State
  <2>6. q.pauseReasons = s.pauseReasons \ {r} /\ q.resuming = (s.pauseReasons = {r})
        BY <2>1, <2>3 DEF State
  <2>7. ~canAcceptInput(q)
    <3>1. CASE s.pauseReasons = {r}
          BY <2>6, <3>1 DEF canAcceptInput
    <3>2. CASE s.pauseReasons # {r}
          BY <1>2, <2>6, <3>2 DEF canAcceptInput, isPaused
    <3> QED
        BY <3>1, <3>2
  <2>8. ~s.running
        BY <1>2 DEF Sound, canAcceptInput, isPaused
  <2>9. Sound(q)
        BY <2>4, <2>5, <2>7, <2>8 DEF Sound
  <2>10. Alike(s, e, q, e)
        BY <2>5 DEF Alike, Clock
  <2> QED
      BY <2>9, <2>10 DEF q
<1> QED
    BY <1>1, <1>2

(* A question begins with nothing tried.                                   *)
LEMMA BeginSound ==
  ASSUME NEW s \in State, NEW i \in 0..(Questions - 1)
  PROVE  /\ Sound(beginQuestion(s, i))
         /\ beginQuestion(s, i).phase = "waitingForFont"
         /\ beginQuestion(s, i).unitAttemptId = s.unitAttemptId + 1
<1> DEFINE b == beginQuestion(s, i)
<1>1. "waitingForFont" \in Phase
      BY DEF Phase
<1>2. b \in State
      BY <1>1, Ranges, ZenonT(60) DEF beginQuestion, State
<1>3. /\ b.phase = "waitingForFont" /\ ~b.running
      /\ b.attemptCount = 0 /\ b.wrongChoices = 0 /\ b.timeouts = 0
      /\ b.unitAttemptId = s.unitAttemptId + 1
      BY DEF beginQuestion, State
<1> QED
    BY <1>2, <1>3 DEF Sound, canAcceptInput, Counted, Results

(* A run begins: it is counted, nothing has been answered in it.           *)
LEMMA FreshRunSound ==
  ASSUME NEW s, Sound(s), s.phase \in {"spoilerTransition", "resetting"},
         NEW p \in {"armingUnit", "preview"}, p = "preview" => ReplayPreviewOnReset
  PROVE  /\ Sound(freshRun(s, p))
         /\ freshRun(s, p).unitAttemptId = s.unitAttemptId + 1
         /\ freshRun(s, p).phase = p
         /\ freshRun(s, p).unitIndex = 0
<1> DEFINE f == freshRun(s, p)
<1>1. s \in State
      BY DEF Sound
<1>2. p \in Phase
      BY DEF Phase, Gameplay
<1>3. f \in State
      BY <1>1, <1>2, Ranges, ZenonT(60) DEF freshRun, State
<1>4. /\ f.phase = p /\ f.unitIndex = 0 /\ f.currentStreak = 0
      /\ f.attemptCount = s.attemptCount + 1
      /\ f.wrongChoices = s.wrongChoices /\ f.timeouts = s.timeouts
      /\ f.running = s.running /\ f.unitAttemptId = s.unitAttemptId + 1
      BY <1>1 DEF freshRun, State
<1>5. s.attemptCount \in Nat /\ s.wrongChoices \in Nat /\ s.timeouts \in Nat
      BY <1>1 DEF State
<1>6. ~s.running
      BY DEF Sound, canAcceptInput
<1> HIDE DEF f
<1>7. Sound(f)
      BY <1>3, <1>4, <1>5, <1>6 DEF Sound, canAcceptInput, Counted, Results
<1> QED
    BY <1>4, <1>7 DEF f

(* A mistake ends the run that was counted when it began,                  *)
LEMMA MistakeSound ==
  ASSUME NEW s, Sound(s), canAcceptInput(s), NEW e \in Nat, NEW w \in BOOLEAN
  PROVE  /\ Sound(mistake(Stopped(s, e), w))
         /\ mistake(Stopped(s, e), w).phase \in Feedback
         /\ mistake(Stopped(s, e), w).unitAttemptId = s.unitAttemptId
<1> DEFINE z == Stopped(s, e)
           m == mistake(z, w)
<1>1. s \in State /\ s.phase = "playing" /\ s.attempt \in Attempt
      BY DEF Sound, canAcceptInput, State
<1>2. /\ z \in State /\ z.running = FALSE /\ z.attempt = s.attempt
      /\ z.attemptCount = s.attemptCount /\ z.wrongChoices = s.wrongChoices
      /\ z.timeouts = s.timeouts /\ z.unitAttemptId = s.unitAttemptId
      BY <1>1, StoppedState
<1> HIDE DEF z
<1>3. [z.attempt EXCEPT !.committed = TRUE] \in Attempt
      BY <1>1, <1>2 DEF Attempt
<1>4. Feedback \subseteq Phase
      BY DEF Feedback, Phase, Gameplay
<1> DEFINE p == IF w THEN "resetFeedbackWrong" ELSE "resetFeedbackTimeout"
           x == IF w THEN z.wrongChoices + 1 ELSE z.wrongChoices
           y == IF w THEN z.timeouts ELSE z.timeouts + 1
           t == [z.attempt EXCEPT !.committed = TRUE]
<1>5. /\ p \in Feedback /\ x \in Nat /\ y \in Nat
      /\ x + y = z.wrongChoices + z.timeouts + 1
      BY <1>2 DEF State, Feedback
<1>6. m = [z EXCEPT !.phase = p, !.attempt = t, !.currentStreak = 0,
                    !.wrongChoices = x, !.timeouts = y]
      BY DEF mistake
<1> HIDE DEF m, p, x, y, t
<1>7. t \in Attempt
      BY <1>3 DEF t
<1>8. m \in State
      BY <1>2, <1>4, <1>5, <1>6, <1>7, Ranges, ZenonT(60) DEF State
<1>9. /\ m.phase = p /\ m.running = FALSE /\ m.wrongChoices = x /\ m.timeouts = y
      /\ m.attemptCount = s.attemptCount /\ m.unitAttemptId = s.unitAttemptId
      BY <1>2, <1>6 DEF State
<1>10. ~ReplayPreviewOnReset => s.attemptCount = s.wrongChoices + s.timeouts + 1
      BY <1>1 DEF Sound, Counted
<1>11. ~ReplayPreviewOnReset => m.attemptCount = m.wrongChoices + m.timeouts
      BY <1>2, <1>5, <1>9, <1>10
<1>12. /\ m.phase \in Feedback
       /\ m.phase \notin Counted \cup {"playing", "armingUnit", "completed"} \cup Results
      BY <1>5, <1>9 DEF Feedback, Counted, Results
<1>13. m.attemptCount \in Nat /\ m.wrongChoices \in Nat /\ m.timeouts \in Nat
      BY <1>8 DEF State
<1>14. Sound(m)
      BY <1>8, <1>9, <1>11, <1>12, <1>13 DEF Sound, canAcceptInput, Results
<1> QED
    BY <1>9, <1>12, <1>14 DEF m, z

(* and a right answer makes the streak the number of units passed.         *)
LEMMA CorrectSound ==
  ASSUME NEW s, Sound(s), canAcceptInput(s), NEW e \in Nat, NEW c, c = correct(Stopped(s, e))
  PROVE  /\ Sound(c)
         /\ \/ c.phase = "completed" /\ c.unitAttemptId = s.unitAttemptId
            \/ /\ c.phase = "armingUnit" /\ c.unitAttemptId = s.unitAttemptId + 1
               /\ c.activeAccum = Stopped(s, e).activeAccum
<1> DEFINE z == Stopped(s, e)
<1>1. s \in State /\ s.phase = "playing" /\ s.attempt \in Attempt
      BY DEF Sound, canAcceptInput, State
<1>2. /\ z \in State /\ z.running = FALSE /\ z.attempt = s.attempt
      /\ z.attemptCount = s.attemptCount /\ z.wrongChoices = s.wrongChoices
      /\ z.timeouts = s.timeouts /\ z.unitAttemptId = s.unitAttemptId
      /\ z.unitIndex = s.unitIndex /\ z.currentStreak = s.currentStreak
      BY <1>1, StoppedState
<1>3. /\ ~ReplayPreviewOnReset => s.attemptCount = s.wrongChoices + s.timeouts + 1
      /\ s.currentStreak = s.unitIndex
      BY <1>1 DEF Sound, Counted
<1>4. c = correct(z) /\ z.activeAccum = Stopped(s, e).activeAccum
      OBVIOUS
<1> HIDE DEF z
<1> DEFINE t == [z.attempt EXCEPT !.committed = TRUE]
           n == z.currentStreak + 1
           u == z.unitIndex + 1
<1>5. t \in Attempt
      BY <1>1, <1>2 DEF Attempt
<1>6. s.unitIndex \in 0..(Units - 1)
      BY <1>1 DEF State
<1>7. {"completed", "armingUnit"} \subseteq Phase
      BY DEF Phase, Gameplay
<1>8. CASE z.unitIndex = Units - 1
  <2>1. c = [z EXCEPT !.phase = "completed", !.attempt = t, !.currentStreak = n]
        BY <1>4, <1>8 DEF correct
  <2>2. n \in 0..Units /\ n = Units
        BY <1>2, <1>3, <1>6, <1>8
  <2> HIDE DEF n, t
  <2>3. c \in State
        BY <1>2, <1>5, <1>7, <2>1, <2>2, ZenonT(60) DEF State
  <2>4. /\ c.phase = "completed" /\ c.running = FALSE /\ c.currentStreak = n
        /\ c.attemptCount = s.attemptCount /\ c.unitAttemptId = s.unitAttemptId
        /\ c.wrongChoices = s.wrongChoices /\ c.timeouts = s.timeouts
        BY <1>2, <2>1 DEF State
  <2>5. Sound(c)
        BY <1>3, <2>2, <2>3, <2>4 DEF Sound, canAcceptInput, Counted
  <2> QED
      BY <2>4, <2>5
<1>9. CASE z.unitIndex # Units - 1
  <2> DEFINE k == z.unitAttemptId + 1
  <2>1. c = [z EXCEPT !.phase = "armingUnit", !.unitIndex = u, !.unitAttemptId = k,
                      !.attempt = None, !.currentStreak = n]
        BY <1>4, <1>9 DEF correct
  <2>2. n \in 0..Units /\ n = u /\ u \in 0..(Units - 1) /\ k \in Nat /\ k = s.unitAttemptId + 1
        BY <1>2, <1>3, <1>6, <1>9 DEF State
  <2> HIDE DEF n, t, u, k
  <2>3. c \in State
        BY <1>2, <1>7, <2>1, <2>2, ZenonT(60) DEF State
  <2>4. /\ c.phase = "armingUnit" /\ c.running = FALSE /\ c.currentStreak = n
        /\ c.unitIndex = u /\ c.activeAccum = z.activeAccum
        /\ c.attemptCount = s.attemptCount /\ c.unitAttemptId = k
        /\ c.wrongChoices = s.wrongChoices /\ c.timeouts = s.timeouts
        BY <1>2, <2>1 DEF State
  <2>5. Sound(c)
        BY <1>3, <2>2, <2>3, <2>4 DEF Sound, canAcceptInput, Counted, Results
  <2> QED
      BY <1>4, <2>2, <2>4, <2>5
<1> QED
    BY <1>8, <1>9

(* The initial states satisfy the invariant.                               *)
LEMMA InitInv == Init => Inv
<1> SUFFICES ASSUME Init PROVE Inv
    OBVIOUS
<1>1. createInitialState \in State
      BY Ranges DEF createInitialState, State
<1>2. View(createInitialState) \in Views
      BY Ranges DEF createInitialState, View, Views, isPaused
<1>3. Sound(state)
      BY <1>1 DEF Init, Sound, createInitialState, canAcceptInput, Counted, Results
<1>4. Surroundings
      BY <1>2 DEF Init, Surroundings
<1> QED
    BY <1>3, <1>4, InvParts
       DEF Init, IntroIsReal, OutcomesInOrder, ClockShows, createInitialState
-----------------------------------------------------------------------------
(* Steps by what they do to the game.                                      *)

(* Into a phase without a unit.                                            *)
LEMMA Leaves ==
  ASSUME Inv, NEW s, state' = s, Sound(s), Surroundings', IntroIsReal',
         s.phase \notin {"armingUnit", "playing"}, ended' <= s.unitAttemptId
  PROVE  Inv'
BY InvPartsPrime DEF Sound, OutcomesInOrder, ClockShows, canAcceptInput

(* Within a unit.                                                          *)
LEMMA Stays ==
  ASSUME Inv, NEW s, state' = s, Sound(s), Surroundings', IntroIsReal',
         Alike(state, elapsed, s, elapsed'), UNCHANGED <<played, ended>>
  PROVE  Inv'
BY InvParts, InvPartsPrime DEF Sound, OutcomesInOrder, ClockShows, canAcceptInput, Alike, Clock

(* To another phase, with no run begun, ended or passed.                   *)
LEMMA PhaseSound ==
  ASSUME NEW s, Sound(s), NEW p \in Phase \ {"armingUnit", "playing"}, s.phase # "playing",
         p \in Counted <=> s.phase \in Counted,
         p \in {"completed"} \cup Results => s.phase \in {"completed"} \cup Results,
         p = "questionResults" => s.questionIndex < Questions - 1
  PROVE  LET t == [s EXCEPT !.phase = p]
         IN Sound(t) /\ t.phase = p /\ t.unitAttemptId = s.unitAttemptId
<1> DEFINE t == [s EXCEPT !.phase = p]
<1>1. s \in State
      BY DEF Sound
<1>2. t \in State
      BY <1>1, Zenon DEF State
<1>3. /\ t.phase = p /\ t.unitAttemptId = s.unitAttemptId /\ t.running = s.running
      /\ t.questionIndex = s.questionIndex
      /\ t.currentStreak = s.currentStreak /\ t.attemptCount = s.attemptCount
      /\ t.wrongChoices = s.wrongChoices /\ t.timeouts = s.timeouts
      BY <1>1 DEF State
<1> HIDE DEF t
<1>4. Sound(t)
      BY <1>2, <1>3 DEF Sound, canAcceptInput
<1> QED
    BY <1>3, <1>4 DEF t

(* The intro is only left for the loading of questions.                    *)
LEMMA IntroStep ==
  ASSUME Inv, Next
  PROVE  IntroIsReal'
<1> USE DEF IntroIsReal
<1>1. IntroIsReal /\ Sound(state) /\ Surroundings
      BY InvParts
<1>2. ASSUME startSession PROVE IntroIsReal'
      BY <1>1, <1>2 DEF startSession, Dispatch, Sound, State
<1>3. ASSUME \/ Loaded \/ LoadFailed \/ FontReady \/ nextQuestion \/ retryQuestion
             \/ ArmUnit \/ DeadlineReached \/ \E right \in BOOLEAN : requestAnswer(right)
      PROVE  IntroIsReal'
      BY <1>3 DEF Loaded, LoadFailed, FontReady, nextQuestion, retryQuestion, ArmUnit,
         DeadlineReached, requestAnswer, Outcome, Dispatch, Results, BoardVisible, Gameplay
<1>4. ASSUME backToIntro PROVE IntroIsReal'
      BY <1>4 DEF backToIntro, createInitialState
<1>5. ASSUME Tick PROVE IntroIsReal'
      BY <1>1, <1>5 DEF Tick
<1>6. ASSUME NEW k \in Kind, Fire(k) PROVE IntroIsReal'
  <2>1. shown' = shown /\ state' = Ends(k, state, shown.questionEpoch, shown.runId)
        BY <1>6 DEF Fire
  <2>2. SUFFICES ASSUME shown.phase = "intro" PROVE state'.phase = state.phase
        BY <1>1, <2>1
  <2>3. k = "resume"
        BY <1>6, <2>2 DEF Fire, timeoutKey, WaitPhases, Kind, Feedback
  <2>4. \/ state' = state
        \/ \E b : state' = [state EXCEPT !.resuming = FALSE, !.running = b]
        BY <2>1, <2>3 DEF Ends
  <2> QED
      BY <1>1, <2>4 DEF Sound, State
<1>7. ASSUME NEW r \in Reason, LookAway(r) PROVE IntroIsReal'
  <2>1. /\ shown' = shown /\ elapsed \in Nat
        /\ state' = state \/ state' = pause(state, r, elapsed)
        BY <1>1, <1>7 DEF LookAway, Surroundings
  <2>2. state'.phase = state.phase
        BY <1>1, <2>1, PauseSound DEF Alike
  <2> QED
      BY <1>1, <2>1, <2>2
<1>8. ASSUME NEW r \in Reason, ComeBack(r) PROVE IntroIsReal'
  <2>1. /\ shown' = shown /\ elapsed \in Nat
        /\ state' = state \/ state' = resume(state, r)
        BY <1>1, <1>8 DEF ComeBack, Surroundings
  <2>2. state'.phase = state.phase
        BY <1>1, <2>1, ResumeSound DEF Alike
  <2> QED
      BY <1>1, <2>1, <2>2
<1>9. ASSUME Render PROVE IntroIsReal'
  <2>1. shown'.phase = state.phase
        BY <1>9 DEF Render, View
  <2>2. state'.phase = state.phase
    <3>1. \A r \in Reason : /\ pause(state, r, elapsed).phase = state.phase
                            /\ resume(state, r).phase = state.phase
          BY <1>1, PauseSound, ResumeSound DEF Surroundings, Alike
    <3>2. away \subseteq Reason
          BY <1>1 DEF Surroundings
    <3> QED
        BY <1>9, <3>1, <3>2 DEF Render
  <2> QED
      BY <2>1, <2>2
<1> QED
    BY <1>2, <1>3, <1>4, <1>5, <1>6, <1>7, <1>8, <1>9 DEF Next

(* Buttons, loading and the font.                                          *)
LEMMA ButtonStep ==
  ASSUME Inv, IntroIsReal',
         \/ startSession \/ Loaded \/ LoadFailed \/ FontReady
         \/ nextQuestion \/ retryQuestion \/ backToIntro
  PROVE  Inv'
<1>1. Sound(state) /\ Surroundings /\ IntroIsReal /\ OutcomesInOrder
      BY InvParts
<1>2. state \in State /\ state.unitAttemptId \in Nat /\ ended \in Nat /\ ended <= state.unitAttemptId
      BY <1>1 DEF Sound, Surroundings, OutcomesInOrder, State
<1>3. CASE startSession
  <2>1. Sound([state EXCEPT !.phase = "loadingQuestion"])
        BY <1>1, <1>3, PhaseSound DEF startSession, IntroIsReal, Counted, Results, Phase
  <2> QED
      BY <1>1, <1>2, <1>3, <2>1, Leaves DEF startSession, Dispatch, history, Surroundings, State
<1>4. CASE LoadFailed
  <2>1. Sound([state EXCEPT !.phase = "error"])
        BY <1>1, <1>4, PhaseSound DEF LoadFailed, Counted, Results, Phase
  <2> QED
      BY <1>1, <1>2, <1>4, <2>1, Leaves DEF LoadFailed, Dispatch, history, Surroundings, State
<1>5. CASE FontReady
  <2>1. Sound([state EXCEPT !.phase = "preview"])
        BY <1>1, <1>5, PhaseSound DEF FontReady, Counted, Results, Phase, Gameplay
  <2> QED
      BY <1>1, <1>2, <1>5, <2>1, Leaves DEF FontReady, Dispatch, history, Surroundings, State
<1>6. CASE Loaded \/ nextQuestion \/ retryQuestion
  <2>1. PICK i \in 0..(Questions - 1) : state' = beginQuestion(state, i)
    <3>1. CASE Loaded
          BY <3>1, Ranges DEF Loaded, Dispatch
    <3>2. CASE nextQuestion
      <4>1. state.questionIndex + 1 \in 0..(Questions - 1)
            BY <1>1, <1>2, <3>2 DEF nextQuestion, Sound, State
      <4> QED
          BY <3>2, <4>1 DEF nextQuestion, Dispatch
    <3>3. CASE retryQuestion
          BY <1>2, <3>3 DEF retryQuestion, Dispatch, State
    <3> QED
        BY <1>6, <3>1, <3>2, <3>3
  <2>2. UNCHANGED <<elapsed, shown, spent, away, played, ended, left, missed>>
        BY <1>6 DEF Loaded, nextQuestion, retryQuestion, Dispatch, history
  <2> QED
      BY <1>1, <1>2, <2>1, <2>2, BeginSound, Leaves DEF Surroundings
<1>7. CASE backToIntro
  <2>1. createInitialState \in State
        BY Ranges DEF createInitialState, State
  <2>2. Sound(createInitialState)
        BY <2>1 DEF Sound, createInitialState, canAcceptInput, Counted, Results
  <2>3. Surroundings'
        BY <1>1, <1>7 DEF backToIntro, Surroundings
  <2> QED
      BY <1>7, <2>2, <2>3, Leaves DEF backToIntro, createInitialState
<1> QED
    BY <1>3, <1>4, <1>5, <1>6, <1>7

(* Arming a unit and the time it lasts.                                    *)
LEMMA ArmStep == ASSUME Inv, IntroIsReal', ArmUnit PROVE Inv'
<1>1. Sound(state) /\ Surroundings /\ OutcomesInOrder /\ ClockShows
      BY InvParts
<1>2. state \in State
      BY <1>1 DEF Sound
<1> DEFINE began == IF state.unitIndex = 0 THEN 0 ELSE state.activeAccum
           a == [id |-> state.unitAttemptId,
                 deadlineActive |-> began + getUnitDuration(state.unitIndex),
                 committed |-> FALSE]
<1>3. began \in Nat /\ a \in Attempt
      BY <1>2 DEF State, Attempt, getUnitDuration
<1>4. a # None /\ ~a.committed /\ a.id = state.unitAttemptId
      BY <1>3 DEF Attempt
<1>5. state' = [state EXCEPT !.phase = "playing", !.running = TRUE,
                             !.activeAccum = began, !.attempt = a]
      BY <1>2 DEF ArmUnit, State
<1>6. played' = IF state.unitIndex = 0 THEN 0 ELSE played
      BY DEF ArmUnit
<1>7. state.unitIndex # 0 => began = played
      BY <1>1, <1>2 DEF ArmUnit, ClockShows, Clock, Sound, canAcceptInput, State
<1>8. state.unitIndex = 0 => began = 0
      OBVIOUS
<1> HIDE DEF a, began
<1>9. "playing" \in Phase
      BY DEF Phase, Gameplay
<1>10. state' \in State
      BY <1>2, <1>3, <1>5, <1>9, ZenonT(60) DEF State
<1>11. /\ state'.phase = "playing" /\ state'.running = TRUE
       /\ state'.activeAccum = began /\ state'.attempt = a
       /\ state'.unitIndex = state.unitIndex /\ state'.unitAttemptId = state.unitAttemptId
       /\ state'.pauseReasons = state.pauseReasons /\ state'.resuming = state.resuming
       /\ state'.currentStreak = state.currentStreak
       /\ state'.attemptCount = state.attemptCount
       /\ state'.wrongChoices = state.wrongChoices /\ state'.timeouts = state.timeouts
      BY <1>2, <1>5 DEF State
<1>12. Sound(state')
      BY <1>1, <1>4, <1>10, <1>11 DEF ArmUnit, Sound, canAcceptInput, isPaused, Counted, Results
<1>13. ClockShows'
      BY <1>3, <1>6, <1>7, <1>8, <1>11 DEF ArmUnit, ClockShows, Clock
<1>14. OutcomesInOrder'
      BY <1>1, <1>11 DEF ArmUnit, OutcomesInOrder
<1>15. Surroundings'
      BY <1>1 DEF ArmUnit, Surroundings
<1> QED
    BY <1>12, <1>13, <1>14, <1>15, InvPartsPrime

LEMMA TickStep == ASSUME Inv, IntroIsReal', Tick PROVE Inv'
<1>1. Sound(state) /\ Surroundings /\ OutcomesInOrder /\ ClockShows
      BY InvParts
<1>2. state \in State /\ canAcceptInput(state)
      BY <1>1 DEF Sound, Tick
<1>3. elapsed' = elapsed + 1 /\ played' = played + 1 /\ state' = state
      BY <1>2 DEF Tick
<1>4. ClockShows'
      BY <1>1, <1>2, <1>3 DEF ClockShows, Clock, State, Surroundings, canAcceptInput, Tick
<1> QED
    BY <1>1, <1>3, <1>4, InvPartsPrime DEF Tick, Surroundings, OutcomesInOrder

(* An outcome.                                                             *)
LEMMA OutcomeStep ==
  ASSUME Inv, IntroIsReal', DeadlineReached \/ \E right \in BOOLEAN : requestAnswer(right)
  PROVE  Inv' /\ ended' > ended
<1>1. Sound(state) /\ Surroundings /\ OutcomesInOrder /\ ClockShows
      BY InvParts
<1>2. canAcceptInput(state) /\ state.attempt.id = state.unitAttemptId
      BY <1>1 DEF DeadlineReached, requestAnswer, Sound, canAcceptInput
<1>3. ended' = state.unitAttemptId /\ UNCHANGED <<elapsed, shown, spent, away, played, left, missed>>
      BY <1>2 DEF DeadlineReached, requestAnswer, Outcome
<1>4. \/ \E w \in BOOLEAN : state' = mistake(Stopped(state, elapsed), w)
      \/ state' = correct(Stopped(state, elapsed))
      BY DEF DeadlineReached, requestAnswer, Outcome
<1>5. /\ state \in State /\ state.unitAttemptId \in Nat /\ elapsed \in Nat
      /\ state.phase = "playing" /\ ended < state.unitAttemptId
      BY <1>1, <1>2 DEF Sound, State, Surroundings, OutcomesInOrder, canAcceptInput
<1>6. Surroundings'
      BY <1>1, <1>3, <1>5 DEF Surroundings
<1>7. CASE \E w \in BOOLEAN : state' = mistake(Stopped(state, elapsed), w)
      BY <1>1, <1>2, <1>3, <1>5, <1>6, <1>7, MistakeSound, Leaves DEF Feedback
<1>8. CASE state' = correct(Stopped(state, elapsed))
  <2>1. /\ Sound(state')
        /\ \/ state'.phase = "completed" /\ state'.unitAttemptId = state.unitAttemptId
           \/ /\ state'.phase = "armingUnit" /\ state'.unitAttemptId = state.unitAttemptId + 1
              /\ state'.activeAccum = Stopped(state, elapsed).activeAccum
        BY <1>1, <1>2, <1>5, <1>8, CorrectSound
  <2>2. CASE state'.phase = "completed"
        BY <1>3, <1>5, <1>6, <2>1, <2>2, Leaves
  <2>3. CASE state'.phase = "armingUnit"
    <3>1. state'.activeAccum = played'
          BY <1>1, <1>3, <1>5, <2>1, <2>3, StoppedState DEF ClockShows
    <3>2. ClockShows'
          BY <2>1, <2>3, <3>1 DEF ClockShows, Clock, Sound, canAcceptInput
    <3>3. OutcomesInOrder'
          BY <1>3, <1>5, <2>1, <2>3 DEF OutcomesInOrder
    <3> QED
        BY <1>3, <1>5, <1>6, <2>1, <3>2, <3>3, InvPartsPrime
  <2> QED
      BY <1>3, <1>5, <2>1, <2>2, <2>3
<1> QED
    BY <1>3, <1>4, <1>5, <1>7, <1>8

(* Pauses, their ends and React's commits.                                 *)
LEMMA PauseStep ==
  ASSUME Inv, IntroIsReal', Render \/ \E r \in Reason : LookAway(r) \/ ComeBack(r)
  PROVE  Inv'
<1>1. Sound(state) /\ Surroundings
      BY InvParts
<1>2. UNCHANGED <<elapsed, played, ended, left>>
      BY DEF Render, LookAway, ComeBack, history
<1>3. elapsed \in Nat /\ away \subseteq Reason /\ state \in State
      BY <1>1 DEF Surroundings, Sound
<1>4. \/ state' = state
      \/ \E r \in Reason : state' = pause(state, r, elapsed) \/ state' = resume(state, r)
      BY <1>3 DEF Render, LookAway, ComeBack
<1>5. Sound(state') /\ Alike(state, elapsed, state', elapsed')
      BY <1>1, <1>2, <1>3, <1>4, PauseSound, ResumeSound DEF Alike
<1>6. View(state) \in Views
      BY <1>3 DEF View, Views, State, isPaused
<1>7. Surroundings'
  <2>1. away' \in SUBSET Reason
        BY <1>3 DEF Render, LookAway, ComeBack
  <2>2. shown' \in Views
        BY <1>1, <1>6 DEF Render, LookAway, ComeBack, Surroundings
  <2>3. spent' \in [Kind -> (Nat \X Nat \X Nat) \cup {None}]
        BY <1>1 DEF Render, LookAway, ComeBack, Surroundings
  <2>4. missed' \in SUBSET Reason
        BY <1>1 DEF Render, LookAway, ComeBack, Surroundings, history
  <2> QED
      BY <1>1, <1>2, <2>1, <2>2, <2>3, <2>4 DEF Surroundings
<1> QED
    BY <1>2, <1>5, <1>7, Stays

(* The overlay is over: the clock of a unit goes on.                       *)
LEMMA ReadySound ==
  ASSUME NEW s, Sound(s), ~isPaused(s), s.resuming, NEW e \in Nat, NEW t,
         t = [s EXCEPT !.resuming = FALSE,
                       !.running = IF s.phase = "playing" /\ s.attempt # None THEN TRUE ELSE @]
  PROVE  Sound(t) /\ Alike(s, e, t, IF t.running # s.running THEN 0 ELSE e)
<1>1. s \in State /\ ~s.running
      BY DEF Sound, canAcceptInput
<1> DEFINE b == IF s.phase = "playing" /\ s.attempt # None THEN TRUE ELSE s.running
<1>2. b \in BOOLEAN /\ (b <=> s.phase = "playing")
      BY <1>1 DEF State, Sound
<1>3. t = [s EXCEPT !.resuming = FALSE, !.running = b]
      OBVIOUS
<1> HIDE DEF b
<1>4. t \in State
      BY <1>1, <1>2, <1>3, Zenon DEF State
<1>5. /\ t.phase = s.phase /\ t.attempt = s.attempt /\ t.running = b /\ t.resuming = FALSE
      /\ t.unitAttemptId = s.unitAttemptId /\ t.unitIndex = s.unitIndex
      /\ t.currentStreak = s.currentStreak /\ t.attemptCount = s.attemptCount
      /\ t.wrongChoices = s.wrongChoices /\ t.timeouts = s.timeouts
      /\ t.questionIndex = s.questionIndex /\ t.activeAccum = s.activeAccum
      /\ t.pauseReasons = s.pauseReasons
      BY <1>1, <1>3 DEF State
<1>6. Sound(t)
      BY <1>2, <1>4, <1>5 DEF Sound, canAcceptInput, isPaused
<1>7. s.activeAccum \in Nat /\ s.running \in BOOLEAN
      BY <1>1 DEF State
<1> DEFINE f == IF t.running # s.running THEN 0 ELSE e
<1>8. Clock(s, e) = s.activeAccum
      BY <1>1 DEF Clock
<1>9. Clock(t, f) = s.activeAccum
  <2>1. CASE s.phase = "playing"
    <3>1. t.running = TRUE /\ s.running = FALSE
          BY <1>1, <1>2, <1>5, <1>7, <2>1
    <3>2. f = 0
          BY <3>1
    <3>3. Clock(t, 0) = s.activeAccum
          BY <1>5, <1>7, <3>1 DEF Clock
    <3> HIDE DEF f
    <3> QED
        BY <3>2, <3>3
  <2>2. CASE s.phase # "playing"
    <3>1. t.running = FALSE
          BY <1>2, <1>5, <2>2
    <3> QED
        BY <1>5, <3>1 DEF Clock
  <2> QED
      BY <2>1, <2>2
<1> QED
    BY <1>5, <1>6, <1>8, <1>9 DEF Alike

(* The end of a wait.                                                      *)
LEMMA FireStep == ASSUME Inv, IntroIsReal', NEW k \in Kind, Fire(k) PROVE Inv'
<1> DEFINE s == state
           done == Ends(k, state, shown.questionEpoch, shown.runId)
<1>1. Sound(state) /\ Surroundings /\ OutcomesInOrder
      BY InvParts
<1>2. /\ state' = done /\ UNCHANGED <<shown, away, played, ended, left, missed>>
      /\ elapsed' = IF state'.running # state.running THEN 0 ELSE elapsed
      BY DEF Fire, history
<1>3. /\ state \in State /\ ended \in Nat /\ state.unitAttemptId \in Nat /\ elapsed \in Nat
      /\ ended <= state.unitAttemptId /\ state.questionIndex \in 0..(Questions - 1)
      BY <1>1 DEF Surroundings, OutcomesInOrder, Sound, State
<1>4. timeoutKey(k, shown) \in (Nat \X Nat \X Nat) \cup {None}
      BY <1>1 DEF timeoutKey, Surroundings, Views
<1>5. Surroundings'
      BY <1>1, <1>2, <1>3, <1>4 DEF Fire, Surroundings
<1>6. CASE done = state
  <2>1. elapsed' = elapsed
        BY <1>2, <1>6
  <2> QED
      BY <1>1, <1>2, <1>5, <1>6, <2>1, Stays DEF Alike
<1>7. CASE done # state
  <2>1. CASE k = "preview" \/ k = "feedback" \/ k = "complete"
    <3>1. PICK p \in Phase \ {"armingUnit", "playing"} :
            /\ done = [state EXCEPT !.phase = p]
            /\ state.phase # "playing"
            /\ p \in Counted <=> state.phase \in Counted
            /\ p \in {"completed"} \cup Results => state.phase \in {"completed"} \cup Results
            /\ p = "questionResults" => state.questionIndex < Questions - 1
      <4>1. CASE k = "preview"
        <5>1. done = [state EXCEPT !.phase = "spoilerTransition"] /\ state.phase = "preview"
              BY <1>7, <4>1 DEF Ends
        <5> QED
            BY <5>1 DEF Counted, Results, Phase, Gameplay
      <4>2. CASE k = "feedback"
        <5>1. done = [state EXCEPT !.phase = "resetting"] /\ state.phase \in Feedback
              BY <1>7, <4>2 DEF Ends
        <5> QED
            BY <5>1 DEF Counted, Results, Phase, Gameplay, Feedback
      <4>3. CASE k = "complete"
        <5> DEFINE p == IF state.questionIndex = Questions - 1 THEN "sessionResults" ELSE "questionResults"
        <5>1. done = [state EXCEPT !.phase = p] /\ state.phase = "completed"
              BY <1>7, <4>3 DEF Ends
        <5>2. p = "questionResults" => state.questionIndex < Questions - 1
              BY <1>3
        <5>3. p \in Results
              BY DEF Results
        <5> HIDE DEF p
        <5> QED
            BY <5>1, <5>2, <5>3 DEF Counted, Results, Phase, Gameplay
      <4> QED
          BY <2>1, <4>1, <4>2, <4>3
    <3>2. Sound(done) /\ done.phase = p /\ done.unitAttemptId = state.unitAttemptId
          BY <1>1, <3>1, PhaseSound
    <3> QED
        BY <1>2, <1>3, <1>5, <3>2, Leaves
  <2>2. CASE k = "spoiler" \/ k = "reset"
    <3>1. PICK p \in {"armingUnit", "preview"} :
            /\ done = freshRun(state, p)
            /\ p = "preview" => ReplayPreviewOnReset
            /\ state.phase \in {"spoilerTransition", "resetting"}
      <4>1. CASE k = "spoiler"
        <5>1. done = freshRun(state, "armingUnit") /\ state.phase = "spoilerTransition"
              BY <1>7, <4>1 DEF Ends
        <5> QED
            BY <5>1
      <4>2. CASE k = "reset"
        <5>1. done = startNewRun(state) /\ state.phase = "resetting"
              BY <1>7, <4>2 DEF Ends
        <5> QED
            BY <5>1 DEF startNewRun
      <4> QED
          BY <2>2, <4>1, <4>2
    <3>2. /\ Sound(done) /\ done.phase = p /\ done.unitIndex = 0
          /\ done.unitAttemptId = state.unitAttemptId + 1
          BY <1>1, <3>1, FreshRunSound
    <3> HIDE DEF done
    <3>3. ClockShows'
          BY <1>2, <3>1, <3>2 DEF ClockShows
    <3>4. OutcomesInOrder'
          BY <1>2, <1>3, <3>2 DEF OutcomesInOrder
    <3> QED
        BY <1>2, <1>5, <3>2, <3>3, <3>4, InvPartsPrime
  <2>3. CASE k = "resume"
    <3>1. /\ ~isPaused(state) /\ state.resuming
          /\ done = [state EXCEPT !.resuming = FALSE,
                        !.running = IF state.phase = "playing" /\ state.attempt # None THEN TRUE ELSE @]
          BY <1>7, <2>3 DEF Ends
    <3>2. Sound(done) /\ Alike(state, elapsed, done, IF done.running # state.running THEN 0 ELSE elapsed)
          BY <1>1, <1>3, <3>1, ReadySound
    <3> HIDE DEF done
    <3> QED
        BY <1>2, <1>5, <3>2, Stays
  <2> QED
      BY <2>1, <2>2, <2>3 DEF Kind
<1> QED
    BY <1>6, <1>7
-----------------------------------------------------------------------------
LEMMA NextInv == Inv /\ [Next]_vars => Inv'
<1>1. ASSUME Inv, UNCHANGED vars PROVE Inv'
      BY <1>1 DEF vars, history, Inv, TypeOK, IntroIsReal, PlaysAnOpenAttempt, OutcomesInOrder,
         ClockIsInteractive, EveryRunIsCounted, NextIsThere, activeNow, canAcceptInput, isPaused
<1>2. ASSUME Inv, Next PROVE Inv'
  <2>1. IntroIsReal'
        BY <1>2, IntroStep
  <2> QED
      BY <1>2, <2>1, ButtonStep, ArmStep, TickStep, OutcomeStep, FireStep, PauseStep DEF Next
<1> QED
    BY <1>1, <1>2

(* The state of the game has its type for any questions, deadlines and     *)
(* number of runs.                                                         *)
THEOREM Invariance == Spec => []Inv
BY InitInv, NextInv, PTL DEF Spec

THEOREM TypeCorrectness == Spec => []TypeOK
<1>1. Inv => TypeOK
      BY DEF Inv
<1> QED
    BY <1>1, Invariance, PTL

(* The clock of a run shows exactly the time in which an answer would have *)
(* counted.                                                                *)
THEOREM InteractiveClock == Spec => []ClockIsInteractive
<1>1. Inv => ClockIsInteractive
      BY DEF Inv
<1> QED
    BY <1>1, Invariance, PTL

(* Every run is counted once and ends in at most one mistake.              *)
THEOREM RunsAreCounted == Spec => []EveryRunIsCounted
<1>1. Inv => EveryRunIsCounted
      BY DEF Inv
<1> QED
    BY <1>1, Invariance, PTL

(* Every attempt at a unit gets at most one outcome.                       *)
THEOREM OneOutcome == Spec => OneOutcomeEach
<1>1. Inv /\ [Next]_vars =>
        [DeadlineReached \/ (\E right \in BOOLEAN : requestAnswer(right)) => ended' > ended]_vars
  <2> SUFFICES ASSUME Inv, Next, DeadlineReached \/ \E right \in BOOLEAN : requestAnswer(right)
               PROVE  ended' > ended
      OBVIOUS
  <2>1. IntroIsReal'
        BY IntroStep
  <2> QED
      BY <2>1, OutcomeStep
<1> QED
    BY <1>1, Invariance, PTL DEF Spec, OneOutcomeEach
=============================================================================
