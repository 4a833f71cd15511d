--------------------------- MODULE GrammarCircuit ---------------------------
(***************************************************************************)
(* The Grammar Circuit game: the reducer of lib/grammar-circuit/reducer.ts *)
(* with the component that feeds it (GrammarCircuitGame.tsx, the drag of   *)
(* useCircuitDnD.ts, the current of CircuitSvgLayer.tsx).  The player fits *)
(* pieces, each with a grammatical role, to the slots of a sentence, asks  *)
(* for a check, corrects what was wrong, and goes on when the lamp is lit. *)
(*                                                                         *)
(* circuit is the reducer's state, drawn the state of the last commit: a   *)
(* button is the drawn one, its action meets the state of the moment, and  *)
(* React commits at once; a timer's action and the end of a load leave a   *)
(* gap until Commit.  Timers belong to the drawn run: the commit of another *)
(* run, or of another phase, clears them.                                  *)
(***************************************************************************)
EXTENDS Naturals, FiniteSets, Sequences

CONSTANTS Pieces, NoPiece, Roles,
          SlotCount,      \* slots of a question, in the order of the check
          Questions,      \* the set of questions that exist, see Question
          SessionLength,
          MaxLoads,       \* bound of the model: loads at the same time
          MaxRun,         \* bound of the model: validationRunId
          MaxLooks        \* bound of the model: changes of motion or size

Slots == 1..SlotCount

\* A question: the roles every slot accepts, the role of every piece.
Question == [accepts : [Slots -> SUBSET Roles], role : [Pieces -> Roles]]

ASSUME CircuitAssumption ==
    /\ SlotCount \in Nat \ {0} /\ SessionLength \in Nat \ {0}
    /\ MaxLoads \in Nat /\ MaxRun \in Nat /\ MaxLooks \in Nat
    /\ Questions \subseteq Question
    /\ NoPiece \notin Pieces

-----------------------------------------------------------------------------
(* Which questions the game is given.                                      *)

Boards == [Slots -> Pieces \cup {NoPiece}]
BareBoard == [s \in Slots |-> NoPiece]

Used(board)   == {board[s] : s \in Slots} \ {NoPiece}
Filled(board) == {s \in Slots : board[s] # NoPiece}
Legal(board)  == \A s, t \in Filled(board) : board[s] = board[t] => s = t
Fits(q, board, s) == board[s] # NoPiece /\ q.role[board[s]] \in q.accepts[s]
AllFilled(board) == Filled(board) = Slots

\* Pieces that fit, wherever they are, can be completed to a whole solution.
Solution(q, board) == Legal(board) /\ \A s \in Slots : Fits(q, board, s)
Completes(q, whole, board) ==
    Solution(q, whole) /\ \A s \in Filled(board) : whole[s] = board[s]
Sound(q, board) == Legal(board) /\ \A s \in Filled(board) : Fits(q, board, s)

HasCompleteAssignment(q) == \E whole \in Boards : Solution(q, whole)

\* isChoiceSafe, by what it decides; how it does is in module ChoiceSearch.
ChoiceSafe(q) ==
    \A board \in Boards :
        Sound(q, board) => \E whole \in Boards : Completes(q, whole, board)

AdmittedIfSolvable(q) == HasCompleteAssignment(q)

\* filterValidQuestions keeps what passes both tests of the validator.
Admitted(q) == HasCompleteAssignment(q) /\ ChoiceSafe(q)

Pool == {q \in Questions : Admitted(q)}

\* buildSessionQuestions: shuffled, none twice.
Sessions ==
    {quiz \in UNION {[1..n -> Pool] : n \in 1..SessionLength} :
        \A i, j \in DOMAIN quiz : quiz[i] = quiz[j] => i = j}

-----------------------------------------------------------------------------
VARIABLES circuit,   \* the reducer's state, with starting of the component
          drawn,     \* what is on the screen
          hand,      \* the piece under the pointer
          loads,     \* startSession calls that wait for their questions
          diagnosis, \* timers of the check: how many have fired, the verdicts
          fizzle,    \* timers of a failure: 0 none, 1 to pop, 2 to the end
          light,     \* timers and animation of a success
          looks      \* changes of motion or size so far

circuitVars == <<circuit, drawn, hand, loads, diagnosis, fizzle, light, looks>>

CircuitPhases ==
    {"arranging", "readyToValidate", "validating", "failureSequence",
     "failureReview", "successCurrent", "questionComplete"}
Verdicts == {"none", "pending", "checking", "correct", "wrong"}
Unasked  == SlotCount + 1   \* firstAttemptCorrect: null

NoVerdicts == [s \in Slots |-> "none"]
Fresh(c, index) ==
    [c EXCEPT !.run = @ + 1, !.index = index, !.phase = "arranging",
              !.board = BareBoard, !.verdict = NoVerdicts, !.locked = {},
              !.selected = NoPiece, !.attempts = 0, !.first = Unasked]

NoDiagnosis == [on |-> FALSE, step |-> 0, fits |-> {}]
Dark == [lead |-> FALSE, travel |-> FALSE, rewards |-> 0]

InitialCircuit ==
    [screen |-> "setup", starting |-> FALSE, run |-> 0, quiz |-> <<>>, index |-> 1,
     phase |-> "arranging", board |-> BareBoard, verdict |-> NoVerdicts,
     locked |-> {}, selected |-> NoPiece, attempts |-> 0, first |-> Unasked,
     results |-> <<>>]

CircuitInit ==
    /\ circuit = InitialCircuit
    /\ drawn = circuit
    /\ hand = NoPiece
    /\ loads = 0
    /\ diagnosis = NoDiagnosis
    /\ fizzle = 0
    /\ light = Dark
    /\ looks = 0

IsArrangeable(phase) == phase \in {"arranging", "readyToValidate", "failureReview"}
Current(c) == c.quiz[c.index]
AfterArrangement(board) == IF AllFilled(board) THEN "readyToValidate" ELSE "arranging"

-----------------------------------------------------------------------------
(* React draws the state c: the effects of the phases start, those of an   *)
(* earlier run or phase are cleaned up.                                    *)

\* The one place where the game asks whether a piece is right.
Verified(c) == {s \in Slots : Fits(Current(c), c.board, s)}

SameEffect(c) == c.run = drawn.run /\ c.phase = drawn.phase

Draw(c) ==
    /\ circuit' = c
    /\ drawn' = c
    /\ diagnosis' =
        IF c.phase # "validating" THEN NoDiagnosis
        ELSE IF SameEffect(c) THEN diagnosis
        ELSE [on |-> TRUE, step |-> 0, fits |-> Verified(c)]
    /\ fizzle' = IF c.phase # "failureSequence" THEN 0
                 ELSE IF SameEffect(c) THEN fizzle ELSE 1
    /\ light' = IF c.run # drawn.run THEN Dark
                ELSE IF c.phase = "successCurrent" /\ ~SameEffect(c)
                     THEN [light EXCEPT !.lead = TRUE]
                ELSE [light EXCEPT !.lead = @ /\ SameEffect(c)]

Commit ==
    /\ drawn # circuit
    /\ Draw(circuit)
    /\ UNCHANGED <<hand, loads, looks>>

LooksChangeStops ==
    /\ looks < MaxLooks /\ drawn = circuit /\ drawn.screen = "playing"
    /\ looks' = looks + 1
    /\ diagnosis' = NoDiagnosis
    /\ fizzle' = 0
    /\ UNCHANGED <<circuit, drawn, hand, loads, light>>

\* A reduced-motion setting or a size changes: effects that depend on it
\* start anew, those already past their effect run on.
LooksChange ==
    /\ looks < MaxLooks /\ drawn = circuit /\ drawn.screen = "playing"
    /\ looks' = looks + 1
    /\ diagnosis' = IF diagnosis.on THEN [diagnosis EXCEPT !.step = 0] ELSE diagnosis
    /\ fizzle' = IF fizzle # 0 THEN 1 ELSE 0
    /\ light' = [light EXCEPT !.lead = drawn.phase = "successCurrent"]
    /\ UNCHANGED <<circuit, drawn, hand, loads>>

-----------------------------------------------------------------------------
(* The player.  Every one of these is a discrete event: it meets circuit,  *)
(* and what comes of it is drawn at once.                                  *)

Playing == drawn.screen = "playing"
Touchable == Playing /\ IsArrangeable(drawn.phase)
StillTouchable == circuit.screen = "playing" /\ IsArrangeable(circuit.phase)

TogglePiece(p) ==
    /\ Touchable
    /\ p \notin Used(drawn.board)
    /\ Draw(IF StillTouchable /\ p \notin Used(circuit.board)
            THEN [circuit EXCEPT !.selected = IF @ = p THEN NoPiece ELSE p]
            ELSE circuit)
    /\ UNCHANGED <<hand, loads, looks>>

PlacedTwice(c, p, s) ==
    IF c.screen = "playing" /\ IsArrangeable(c.phase)
        /\ s \notin c.locked /\ c.board[s] = NoPiece
    THEN LET board == [c.board EXCEPT ![s] = p]
         IN  [c EXCEPT !.board = board, !.verdict[s] = "pending",
                       !.selected = NoPiece, !.phase = AfterArrangement(board)]
    ELSE c

\* PLACE of the reducer: never asks whether the piece is right.
Placed(c, p, s) ==
    IF c.screen = "playing" /\ IsArrangeable(c.phase)
        /\ s \notin c.locked /\ p \notin Used(c.board) /\ c.board[s] = NoPiece
    THEN LET board == [c.board EXCEPT ![s] = p]
         IN  [c EXCEPT !.board = board, !.verdict[s] = "pending",
                       !.selected = NoPiece, !.phase = AfterArrangement(board)]
    ELSE c

LiftedKeepsVerdict(c, s) ==
    IF c.screen = "playing" /\ IsArrangeable(c.phase)
        /\ c.board[s] # NoPiece /\ s \notin c.locked
    THEN LET board == [c.board EXCEPT ![s] = NoPiece]
         IN  [c EXCEPT !.board = board, !.selected = NoPiece,
                       !.phase = AfterArrangement(board)]
    ELSE c

Lifted(c, s) ==
    IF c.screen = "playing" /\ IsArrangeable(c.phase)
        /\ c.board[s] # NoPiece /\ s \notin c.locked
    THEN LET board == [c.board EXCEPT ![s] = NoPiece]
         IN  [c EXCEPT !.board = board, !.verdict[s] = "none",
                       !.selected = NoPiece, !.phase = AfterArrangement(board)]
    ELSE c

\* A tap on a socket: the selected piece goes there, else its piece comes out.
SocketActivate(s) ==
    /\ Touchable /\ s \notin drawn.locked
    /\ \/ drawn.selected # NoPiece /\ Draw(Placed(circuit, drawn.selected, s))
       \/ drawn.selected = NoPiece /\ drawn.board[s] # NoPiece /\ Draw(Lifted(circuit, s))
    /\ UNCHANGED <<hand, loads, looks>>

PickUp(p) ==
    /\ Touchable /\ hand = NoPiece
    /\ p \notin Used(drawn.board)
    /\ hand' = p
    /\ UNCHANGED <<circuit, drawn, loads, diagnosis, fizzle, light, looks>>

\* The piece is let go over a socket, whatever has become of the question.
Drop(s) ==
    /\ Playing /\ hand # NoPiece
    /\ Draw(Placed(circuit, hand, s))
    /\ hand' = NoPiece
    /\ UNCHANGED <<loads, looks>>

\* Escape, a lost pointer, a turned device, a hidden tab.
Cancel ==
    /\ Draw([circuit EXCEPT !.selected = NoPiece])
    /\ hand' = NoPiece
    /\ hand # NoPiece \/ circuit.selected # NoPiece
    /\ UNCHANGED <<loads, looks>>

BeginValidation ==
    /\ Playing /\ drawn.phase = "readyToValidate"
    /\ circuit.run < MaxRun
    /\ Draw(IF circuit.phase # "readyToValidate" THEN circuit
            ELSE [circuit EXCEPT
                    !.phase = "validating", !.run = @ + 1, !.attempts = @ + 1,
                    !.verdict = [s \in Slots |-> IF s \in circuit.locked
                                                 THEN "correct" ELSE "pending"],
                    !.selected = NoPiece])
    /\ UNCHANGED <<hand, loads, looks>>

RightOnes(c) == {s \in Slots : c.verdict[s] = "correct"}

EnterCorrection ==
    /\ Playing /\ drawn.phase = "failureReview"
    /\ LET right == RightOnes(circuit)
           board == [s \in Slots |-> IF s \in right THEN circuit.board[s] ELSE NoPiece]
       IN  Draw(IF circuit.phase # "failureReview" THEN circuit
                ELSE [circuit EXCEPT
                        !.board = board, !.locked = right, !.selected = NoPiece,
                        !.verdict = [s \in Slots |-> IF s \in right THEN "correct" ELSE "none"],
                        !.phase = AfterArrangement(board)])
    /\ UNCHANGED <<hand, loads, looks>>

ClearBoard ==
    /\ Touchable /\ Filled(drawn.board) # {}
    /\ Draw(IF circuit.phase \in {"validating", "successCurrent"} THEN circuit
            ELSE [circuit EXCEPT !.board = BareBoard, !.verdict = NoVerdicts,
                                 !.locked = {}, !.selected = NoPiece, !.phase = "arranging"])
    /\ UNCHANGED <<hand, loads, looks>>

Result(c) == [attempts |-> c.attempts, first |-> IF c.first = Unasked THEN 0 ELSE c.first]

NextQuestion ==
    /\ Playing /\ drawn.phase = "questionComplete"
    /\ circuit.run < MaxRun
    /\ LET told == [circuit EXCEPT !.results = Append(@, Result(circuit))]
       IN  Draw(IF circuit.index >= Len(circuit.quiz)
                THEN [Fresh(told, circuit.index) EXCEPT !.screen = "results"]
                ELSE Fresh(told, circuit.index + 1))
    /\ UNCHANGED <<hand, loads, looks>>

ExitToSetup ==
    /\ drawn.screen # "setup" /\ circuit.run < MaxRun
    /\ Draw([Fresh(circuit, 1) EXCEPT !.screen = "setup", !.quiz = <<>>, !.results = <<>>])
    /\ UNCHANGED <<hand, loads, looks>>

\* startSession, from the setup, whose button waits for the load before it,
\* or again from the results, whose button does not.
AskStart ==
    /\ \/ drawn.screen = "setup" /\ ~drawn.starting
       \/ drawn.screen = "results"
    /\ loads < MaxLoads
    /\ Draw([circuit EXCEPT !.starting = TRUE])
    /\ loads' = loads + 1
    /\ UNCHANGED <<hand, looks>>

-----------------------------------------------------------------------------
(* What comes back by itself, drawn by a later Commit.                     *)

Unattended == <<drawn, hand, looks>>

\* START: whatever is on the screen, a new game.
Land(quiz) ==
    /\ loads > 0 /\ circuit.run < MaxRun
    /\ loads' = loads - 1
    /\ circuit' = [Fresh(circuit, 1) EXCEPT !.screen = "playing", !.starting = FALSE,
                                            !.quiz = quiz, !.results = <<>>]
    /\ UNCHANGED Unattended /\ UNCHANGED <<diagnosis, fizzle, light>>

LandFails ==
    /\ loads > 0
    /\ loads' = loads - 1
    /\ circuit' = [circuit EXCEPT !.starting = FALSE]
    /\ UNCHANGED Unattended /\ UNCHANGED <<diagnosis, fizzle, light>>

\* The reducer refuses a timer of another phase or run.
Heeds(phase) == circuit.phase = phase /\ circuit.run = drawn.run

\* Timer number step of the check: odd ones begin a slot, even ones end it.
Probe(c) ==
    LET s    == (diagnosis.step + 2) \div 2
        told == IF diagnosis.step % 2 = 0 THEN "checking"
                ELSE IF s \in diagnosis.fits THEN "correct" ELSE "wrong"
    IN  [c EXCEPT !.verdict[s] = told]

Diagnose ==
    /\ diagnosis.on /\ diagnosis.step < 2 * SlotCount
    /\ diagnosis' = [diagnosis EXCEPT !.step = @ + 1]
    /\ circuit' = IF Heeds("validating") THEN Probe(circuit) ELSE circuit
    /\ UNCHANGED Unattended /\ UNCHANGED <<loads, fizzle, light>>

ValidationFinishedAnew ==
    /\ diagnosis.on /\ diagnosis.step = 2 * SlotCount
    /\ diagnosis' = [diagnosis EXCEPT !.step = @ + 1]
    /\ circuit' =
        IF ~Heeds("validating") THEN circuit
        ELSE [circuit EXCEPT
                !.phase = IF diagnosis.fits = Slots THEN "successCurrent" ELSE "failureSequence",
                !.first = Cardinality(RightOnes(circuit))]
    /\ UNCHANGED Unattended /\ UNCHANGED <<loads, fizzle, light>>

ValidationFinished ==
    /\ diagnosis.on /\ diagnosis.step = 2 * SlotCount
    /\ diagnosis' = [diagnosis EXCEPT !.step = @ + 1]
    /\ circuit' =
        IF ~Heeds("validating") THEN circuit
        ELSE [circuit EXCEPT
                !.phase = IF diagnosis.fits = Slots THEN "successCurrent" ELSE "failureSequence",
                !.first = IF circuit.attempts = 1 THEN Cardinality(RightOnes(circuit)) ELSE @]
    /\ UNCHANGED Unattended /\ UNCHANGED <<loads, fizzle, light>>

Pop ==
    /\ fizzle = 1
    /\ fizzle' = 2
    /\ UNCHANGED <<circuit, loads, diagnosis, light>> /\ UNCHANGED Unattended

FailureSequenceDone ==
    /\ fizzle = 2
    /\ fizzle' = 0
    /\ circuit' = IF Heeds("failureSequence") THEN [circuit EXCEPT !.phase = "failureReview"]
                  ELSE circuit
    /\ UNCHANGED Unattended /\ UNCHANGED <<loads, diagnosis, light>>

\* The lead-in starts the current, unless it flows already.
LeadInDone ==
    /\ light.lead
    /\ light' = [light EXCEPT !.lead = FALSE, !.travel = TRUE]
    /\ UNCHANGED <<circuit, loads, diagnosis, fizzle>> /\ UNCHANGED Unattended

\* onCurrentFinished: the lamp turns on, and its two timers run.
TravelDone ==
    /\ light.travel
    /\ light' = [light EXCEPT !.travel = FALSE, !.rewards = @ + 1]
    /\ UNCHANGED <<circuit, loads, diagnosis, fizzle>> /\ UNCHANGED Unattended

\* CURRENT_FINISHED and REWARD_DONE in one go.
RewardDone ==
    /\ light.rewards > 0
    /\ light' = [light EXCEPT !.rewards = @ - 1]
    /\ circuit' = IF Heeds("successCurrent") THEN [circuit EXCEPT !.phase = "questionComplete"]
                  ELSE circuit
    /\ UNCHANGED Unattended /\ UNCHANGED <<loads, diagnosis, fizzle>>

Timers ==
    \/ Diagnose \/ ValidationFinished \/ Pop \/ FailureSequenceDone
    \/ LeadInDone \/ TravelDone \/ RewardDone

CircuitNext ==
    \/ \E p \in Pieces : TogglePiece(p) \/ PickUp(p)
    \/ \E s \in Slots : SocketActivate(s) \/ Drop(s)
    \/ Cancel \/ BeginValidation \/ EnterCorrection \/ ClearBoard \/ NextQuestion
    \/ ExitToSetup \/ AskStart \/ \E quiz \in Sessions : Land(quiz)
    \/ LandFails \/ Timers \/ Commit \/ LooksChange

\* Timers fire and React commits; the player and the network promise nothing.
CircuitFairness ==
    /\ WF_circuitVars(Diagnose) /\ WF_circuitVars(ValidationFinished)
    /\ WF_circuitVars(Pop) /\ WF_circuitVars(FailureSequenceDone)
    /\ WF_circuitVars(LeadInDone) /\ WF_circuitVars(TravelDone)
    /\ WF_circuitVars(RewardDone) /\ WF_circuitVars(Commit)

CircuitSpec == CircuitInit /\ [][CircuitNext]_circuitVars /\ CircuitFairness

-----------------------------------------------------------------------------
CircuitStates ==
    [screen : {"setup", "playing", "results"}, starting : BOOLEAN, run : 0..MaxRun,
     quiz : Sessions \cup {<<>>}, index : 1..SessionLength, phase : CircuitPhases,
     board : Boards, verdict : [Slots -> Verdicts], locked : SUBSET Slots,
     selected : Pieces \cup {NoPiece}, attempts : 0..MaxRun, first : 0..Unasked,
     results : Seq([attempts : 0..MaxRun, first : 0..SlotCount])]

CircuitTypeOK ==
    /\ circuit \in CircuitStates
    /\ drawn \in CircuitStates
    /\ hand \in Pieces \cup {NoPiece}
    /\ loads \in 0..MaxLoads
    /\ diagnosis \in [on : BOOLEAN, step : 0..(2 * SlotCount + 1), fits : SUBSET Slots]
    /\ fizzle \in 0..2
    /\ light \in [lead : BOOLEAN, travel : BOOLEAN, rewards : 0..(MaxLooks + 1)]
    /\ looks \in 0..MaxLooks

\* A slot that is shown green or red holds a piece that is right or wrong
\* there, whatever was lifted, put, cleared or corrected after the check.
VerdictsFitTheBoard ==
    circuit.screen = "playing" =>
        \A s \in Slots :
            /\ circuit.verdict[s] = "correct" => Fits(Current(circuit), circuit.board, s)
            /\ circuit.verdict[s] = "wrong" => circuit.board[s] # NoPiece
                                             /\ ~Fits(Current(circuit), circuit.board, s)

\* The current flows and the lamp is lit only for a whole solution that uses
\* every piece once.
LightMeansSolved ==
    (circuit.screen = "playing" /\ circuit.phase \in {"successCurrent", "questionComplete"})
        => Solution(Current(circuit), circuit.board)

\* However the player arrived there, the slots that a correction locked can be
\* completed to a solution: nobody is locked into a question without a way out.
LockedBoardIsSolvable ==
    circuit.screen = "playing" =>
        \E whole \in Boards :
            /\ Solution(Current(circuit), whole)
            /\ \A s \in circuit.locked : whole[s] = circuit.board[s]

\* Every question that was left forwards has one result, and one attempt means
\* that the first check found every slot right, and only that.
ResultsTell ==
    /\ circuit.screen = "playing" => Len(circuit.results) = circuit.index - 1
    /\ circuit.screen = "results" => Len(circuit.results) = Len(circuit.quiz)
    /\ \A i \in DOMAIN circuit.results :
        circuit.results[i].attempts > 0 =>
            (circuit.results[i].attempts = 1 <=> circuit.results[i].first = SlotCount)

Sequencing == circuit.phase \in {"validating", "failureSequence", "successCurrent"}

\* A check, a failure and a success come to their end, also when the effects
\* are started again on the way: no phase without buttons stays for ever.
SequencesEnd == Sequencing ~> ~Sequencing
=============================================================================
