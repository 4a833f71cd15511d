-------------------------- MODULE PageGamesProofs --------------------------
(***************************************************************************)
(* What two games of a page show is true, whatever comes at the same time. *)
(*                                                                         *)
(* The Grammar Circuit, for any questions, any number of slots and pieces, *)
(* and any order of clicks, drags, timers and loads.  Every action makes   *)
(* one state of the reducer follow another (Follows); what a state must be *)
(* is Good, and what ties the timers of a check to the board they were     *)
(* started for is Checked.  For the results, TellInv follows the count of  *)
(* the first check until it is told.                                       *)
(*                                                                         *)
(* The Aruz Bridge, for runs of any length and any quota.  What the        *)
(* machine counts is what has become of its run (Counted), whichever timer *)
(* or key comes first; QuotaInv counts the run under way with the rounds a *)
(* guest has used.                                                         *)
(*                                                                         *)
(* The tests that admit the circuit's questions decide what Admitted says: *)
(* Admitted speaks of boards and pieces, the search of roles and numbers.  *)
(***************************************************************************)
EXTENDS GrammarCircuit, AruzBridge, MatchingProofs

Outcomes == [attempts : Nat, first : Nat]

\* A state of the reducer, without the bounds of the model.
Shapes ==
    [screen : {"setup", "playing", "results"}, starting : BOOLEAN, run : Nat,
     quiz : Sessions \cup {<<>>}, index : Nat \ {0}, phase : CircuitPhases,
     board : Boards, verdict : [Slots -> Verdicts], locked : SUBSET Slots,
     selected : Pieces \cup {NoPiece}, attempts : Nat, first : Nat, results : Seq(Outcomes)]

\* The index is one of the quiz.
InQuiz(c) == c.screen = "playing" => c.quiz \in Sessions /\ c.index \in DOMAIN c.quiz

Truthful(c) ==
    \A s \in Slots :
        /\ s \in c.locked => Fits(Current(c), c.board, s)
        /\ c.verdict[s] = "correct" => Fits(Current(c), c.board, s)
        /\ c.verdict[s] = "wrong" => c.board[s] # NoPiece /\ ~Fits(Current(c), c.board, s)

Good(c) ==
    /\ c \in Shapes /\ InQuiz(c) /\ Truthful(c)
    /\ Legal(c.board)
    /\ c.phase # "arranging" => AllFilled(c.board)
    /\ c.phase \in {"successCurrent", "questionComplete"} => Solution(Current(c), c.board)

\* The boards of two states that belong to one check are the same.
SameCheck(c, d) ==
    (d.run = c.run /\ d.phase = "validating")
        => c.phase = "validating" /\ d.board = c.board /\ d.quiz = c.quiz /\ d.index = c.index

Follows(c, d) == Good(d) /\ d.run >= c.run /\ SameCheck(c, d)

\* The timers of a check know the board that is being checked.
Checked ==
    /\ drawn.run \in Nat /\ drawn.run <= circuit.run
    /\ drawn.phase = "validating" => SameCheck(drawn, circuit)
    /\ diagnosis.on => drawn.phase = "validating" /\ diagnosis.fits = Verified(drawn)

CircuitInv == Good(circuit) /\ Checked

-----------------------------------------------------------------------------
(* From one state to the next.                                             *)

LEMMA Drawn == CircuitInv /\ (\E d : Follows(circuit, d) /\ Draw(d)) => CircuitInv'
<1> SUFFICES ASSUME CircuitInv, NEW d, Follows(circuit, d), Draw(d) PROVE CircuitInv'
    OBVIOUS
<1>1. circuit' = d /\ drawn' = d /\ Good(d) /\ d.run \in Nat
      BY DEF Draw, Follows, Good, Shapes
<1>2. diagnosis'.on => d.phase = "validating" /\ diagnosis'.fits = Verified(d)
  <2>1. CASE d.phase # "validating"
        BY <2>1 DEF Draw, NoDiagnosis
  <2>2. CASE d.phase = "validating" /\ ~SameEffect(d)
        BY <2>2 DEF Draw
  <2>3. CASE d.phase = "validating" /\ SameEffect(d)
    <3>1. d.run = drawn.run /\ drawn.phase = "validating" /\ diagnosis' = diagnosis
          BY <2>3 DEF Draw, SameEffect
    <3>2. circuit.run \in Nat /\ d.run >= circuit.run /\ drawn.run <= circuit.run /\ drawn.run \in Nat
          BY DEF CircuitInv, Good, Shapes, Follows, Checked
    <3>3. d.run = circuit.run
          BY <1>1, <3>1, <3>2
    <3>4. circuit.phase = "validating" /\ d.board = circuit.board /\ d.quiz = circuit.quiz
          /\ d.index = circuit.index
          BY <2>3, <3>3 DEF Follows, SameCheck
    <3>5. circuit.board = drawn.board /\ circuit.quiz = drawn.quiz /\ circuit.index = drawn.index
          BY <3>1, <3>3, <3>4 DEF CircuitInv, Checked, SameCheck
    <3>6. Verified(d) = Verified(drawn)
          BY <3>4, <3>5 DEF Verified, Current
    <3> QED
        BY <2>3, <3>1, <3>6 DEF CircuitInv, Checked
  <2> QED
      BY <2>1, <2>2, <2>3
<1> QED
    BY <1>1, <1>2 DEF CircuitInv, Checked, SameCheck

LEMMA Unseen ==
  (/\ CircuitInv /\ Follows(circuit, circuit') /\ drawn' = drawn
   /\ diagnosis'.on => diagnosis.on /\ diagnosis'.fits = diagnosis.fits)
  => CircuitInv'
<1> SUFFICES ASSUME CircuitInv, Follows(circuit, circuit'), drawn' = drawn,
                    diagnosis'.on => diagnosis.on /\ diagnosis'.fits = diagnosis.fits
             PROVE  CircuitInv'
    OBVIOUS
<1>1. /\ circuit.run \in Nat /\ circuit'.run \in Nat /\ drawn.run \in Nat
      /\ circuit'.run >= circuit.run /\ drawn.run <= circuit.run
      BY DEF CircuitInv, Good, Shapes, Follows, Checked
<1>2. drawn.phase = "validating" => SameCheck(drawn, circuit')
  <2> SUFFICES ASSUME drawn.phase = "validating", circuit'.run = drawn.run, circuit'.phase = "validating"
               PROVE  /\ circuit'.board = drawn.board /\ circuit'.quiz = drawn.quiz
                      /\ circuit'.index = drawn.index
      BY DEF SameCheck
  <2>1. circuit'.run = circuit.run
        BY <1>1
  <2> QED
      BY <2>1 DEF CircuitInv, Checked, Follows, SameCheck
<1>3. diagnosis'.on => drawn'.phase = "validating" /\ diagnosis'.fits = Verified(drawn')
      BY DEF CircuitInv, Checked, Verified, Current
<1> QED
    BY <1>1, <1>2, <1>3 DEF CircuitInv, Checked, Follows

LEMMA Staying == ASSUME NEW c, Good(c) PROVE Follows(c, c)
BY DEF Follows, Good, Shapes, SameCheck

-----------------------------------------------------------------------------
(* The operations of the reducer, one by one.                              *)

\* A state of the same question, and of the same run.
SameQuestion(c, d) ==
    /\ d \in Shapes /\ d.run = c.run /\ d.screen = c.screen
    /\ d.quiz = c.quiz /\ d.index = c.index

\* Whatever moves the pieces: what is still said of a slot was said before,
\* of the same piece.
LEMMA Rearranged ==
  \A c, d :
    (/\ Good(c) /\ SameQuestion(c, d) /\ Legal(d.board)
     /\ d.phase = AfterArrangement(d.board) \/ d.phase = "arranging"
     /\ \A s \in Slots :
          /\ s \in d.locked => s \in c.locked \/ c.verdict[s] = "correct"
          /\ d.verdict[s] = "correct" => c.verdict[s] = "correct"
          /\ d.verdict[s] = "wrong" => c.verdict[s] = "wrong"
          /\ (s \in d.locked \/ d.verdict[s] \in {"correct", "wrong"}) => d.board[s] = c.board[s])
    => Follows(c, d)
<1> SUFFICES ASSUME NEW c, NEW d, Good(c), SameQuestion(c, d), Legal(d.board),
                    d.phase = AfterArrangement(d.board) \/ d.phase = "arranging",
                    \A s \in Slots :
                      /\ s \in d.locked => s \in c.locked \/ c.verdict[s] = "correct"
                      /\ d.verdict[s] = "correct" => c.verdict[s] = "correct"
                      /\ d.verdict[s] = "wrong" => c.verdict[s] = "wrong"
                      /\ (s \in d.locked \/ d.verdict[s] \in {"correct", "wrong"})
                            => d.board[s] = c.board[s]
             PROVE  Follows(c, d)
    OBVIOUS
<1>1. d \in Shapes /\ InQuiz(d) /\ Current(d) = Current(c)
      BY DEF Good, SameQuestion, InQuiz, Current
<1>2. Truthful(d)
      BY <1>1 DEF Good, Truthful, Fits
<1>3. d.phase \in {"arranging", "readyToValidate"}
      BY DEF AfterArrangement
<1>4. d.phase # "arranging" => AllFilled(d.board)
      BY DEF AfterArrangement
<1>5. d.run \in Nat /\ d.run = c.run
      BY DEF SameQuestion, Shapes
<1> QED
    BY <1>1, <1>2, <1>3, <1>4, <1>5 DEF Follows, Good, SameCheck

\* The board changes in one slot, or not at all.
LEMMA Boarded ==
  ASSUME NEW b \in Boards, NEW s \in Slots, NEW p \in Pieces \cup {NoPiece}
  PROVE  LET e == [b EXCEPT ![s] = p]
         IN  /\ e \in Boards /\ e[s] = p /\ \A t \in Slots : t # s => e[t] = b[t]
             /\ (Legal(b) /\ (p = NoPiece \/ p \notin Used(b))) => Legal(e)
<1> DEFINE e == [b EXCEPT ![s] = p]
<1>1. e \in Boards /\ e[s] = p /\ \A t \in Slots : t # s => e[t] = b[t]
      BY DEF Boards
<1>2. ASSUME Legal(b), p = NoPiece \/ p \notin Used(b) PROVE Legal(e)
  <2> SUFFICES ASSUME NEW x \in Slots, NEW y \in Slots, e[x] # NoPiece, e[y] # NoPiece,
                      e[x] = e[y], x # y
               PROVE  FALSE
      BY DEF Legal, Filled
  <2>1. CASE x # s /\ y # s
        BY <1>1, <1>2, <2>1 DEF Legal, Filled
  <2>2. CASE x = s \/ y = s
    <3>1. p # NoPiece /\ (b[x] = p \/ b[y] = p)
          BY <1>1, <2>2
    <3>2. p \in Used(b)
          BY <3>1 DEF Used
    <3> QED
        BY <1>2, <3>1, <3>2
  <2> QED
      BY <2>1, <2>2
<1> QED
    BY <1>1, <1>2

LEMMA Placing ==
  \A c, s, p : (Good(c) /\ p \in Pieces /\ s \in Slots) => Follows(c, Placed(c, p, s))
<1> SUFFICES ASSUME NEW c, Good(c), NEW p \in Pieces, NEW s \in Slots
             PROVE  Follows(c, Placed(c, p, s))
    OBVIOUS
<1> DEFINE Guard == c.screen = "playing" /\ IsArrangeable(c.phase)
                    /\ s \notin c.locked /\ p \notin Used(c.board) /\ c.board[s] = NoPiece
<1>1. CASE ~Guard
      BY <1>1, Staying DEF Placed
<1>2. CASE Guard
  <2> DEFINE b == [c.board EXCEPT ![s] = p]
             v == [c.verdict EXCEPT ![s] = "pending"]
             d == [c EXCEPT !.board = b, !.verdict = v, !.selected = NoPiece,
                            !.phase = AfterArrangement(b)]
  <2>1. c \in Shapes /\ Legal(c.board) /\ c.board \in Boards /\ c.verdict \in [Slots -> Verdicts]
        BY DEF Good, Shapes
  <2>2. b \in Boards /\ b[s] = p /\ Legal(b) /\ \A t \in Slots : t # s => b[t] = c.board[t]
        BY <1>2, <2>1, Boarded
  <2>3. v \in [Slots -> Verdicts] /\ v[s] = "pending" /\ \A t \in Slots : t # s => v[t] = c.verdict[t]
        BY <2>1 DEF Verdicts
  <2>4. AfterArrangement(b) \in CircuitPhases
        BY DEF AfterArrangement, CircuitPhases
  <2> HIDE DEF b, v
  <2>5. SameQuestion(c, d) /\ d.board = b /\ d.verdict = v /\ d.locked = c.locked
        /\ d.phase = AfterArrangement(b)
        BY <2>1, <2>2, <2>3, <2>4 DEF SameQuestion, Shapes
  <2> HIDE DEF d
  <2>6. Follows(c, d)
        BY <1>2, <2>2, <2>3, <2>5, Rearranged
  <2>7. Placed(c, p, s) = d
        BY <1>2, <2>1 DEF Placed, d, b, v, Shapes
  <2> QED
      BY <2>6, <2>7
<1> QED
    BY <1>1, <1>2

LEMMA Lifting ==
  \A c, s : (Good(c) /\ s \in Slots) => Follows(c, Lifted(c, s))
<1> SUFFICES ASSUME NEW c, Good(c), NEW s \in Slots PROVE Follows(c, Lifted(c, s))
    OBVIOUS
<1> DEFINE Guard == c.screen = "playing" /\ IsArrangeable(c.phase)
                    /\ c.board[s] # NoPiece /\ s \notin c.locked
<1>1. CASE ~Guard
      BY <1>1, Staying DEF Lifted
<1>2. CASE Guard
  <2> DEFINE b == [c.board EXCEPT ![s] = NoPiece]
             v == [c.verdict EXCEPT ![s] = "none"]
             d == [c EXCEPT !.board = b, !.verdict = v, !.selected = NoPiece,
                            !.phase = AfterArrangement(b)]
  <2>1. c \in Shapes /\ Legal(c.board) /\ c.board \in Boards /\ c.verdict \in [Slots -> Verdicts]
        BY DEF Good, Shapes
  <2>2. b \in Boards /\ Legal(b) /\ \A t \in Slots : t # s => b[t] = c.board[t]
        BY <1>2, <2>1, Boarded
  <2>3. v \in [Slots -> Verdicts] /\ v[s] = "none" /\ \A t \in Slots : t # s => v[t] = c.verdict[t]
        BY <2>1 DEF Verdicts
  <2>4. AfterArrangement(b) \in CircuitPhases
        BY DEF AfterArrangement, CircuitPhases
  <2> HIDE DEF b, v
  <2>5. SameQuestion(c, d) /\ d.board = b /\ d.verdict = v /\ d.locked = c.locked
        /\ d.phase = AfterArrangement(b)
        BY <2>1, <2>2, <2>3, <2>4 DEF SameQuestion, Shapes
  <2> HIDE DEF d
  <2>6. Follows(c, d)
        BY <1>2, <2>2, <2>3, <2>5, Rearranged
  <2>7. Lifted(c, s) = d
        BY <1>2, <2>1 DEF Lifted, d, b, v, Shapes
  <2> QED
      BY <2>6, <2>7
<1> QED
    BY <1>1, <1>2

LEMMA Letting == \A c, p : (Good(c) /\ p \in Pieces \cup {NoPiece}) => Follows(c, [c EXCEPT !.selected = p])
<1> SUFFICES ASSUME NEW c, Good(c), NEW p \in Pieces \cup {NoPiece}
             PROVE  Follows(c, [c EXCEPT !.selected = p])
    OBVIOUS
<1> DEFINE d == [c EXCEPT !.selected = p]
<1>1. c \in Shapes
      BY DEF Good
<1>2. SameQuestion(c, d) /\ d.board = c.board /\ d.verdict = c.verdict /\ d.locked = c.locked
      /\ d.phase = c.phase
      BY <1>1 DEF SameQuestion, Shapes
<1> HIDE DEF d
<1>3. InQuiz(d) /\ Current(d) = Current(c)
      BY <1>2 DEF SameQuestion, InQuiz, Current, Good
<1>4. Good(d)
      BY <1>2, <1>3 DEF Good, Truthful, SameQuestion
<1>5. SameCheck(c, d) /\ d.run \in Nat /\ c.run = d.run
      BY <1>1, <1>2 DEF SameCheck, SameQuestion, Shapes
<1> QED
    BY <1>4, <1>5 DEF Follows, d

LEMMA Starting == \A c, b : (Good(c) /\ b \in BOOLEAN) => Follows(c, [c EXCEPT !.starting = b])
<1> SUFFICES ASSUME NEW c, Good(c), NEW b \in BOOLEAN
             PROVE  Follows(c, [c EXCEPT !.starting = b])
    OBVIOUS
<1> DEFINE d == [c EXCEPT !.starting = b]
<1>1. c \in Shapes
      BY DEF Good
<1>2. SameQuestion(c, d) /\ d.board = c.board /\ d.verdict = c.verdict /\ d.locked = c.locked
      /\ d.phase = c.phase
      BY <1>1 DEF SameQuestion, Shapes
<1> HIDE DEF d
<1>3. InQuiz(d) /\ Current(d) = Current(c)
      BY <1>2 DEF SameQuestion, InQuiz, Current, Good
<1>4. Good(d)
      BY <1>2, <1>3 DEF Good, Truthful, SameQuestion
<1>5. SameCheck(c, d) /\ d.run \in Nat /\ c.run = d.run
      BY <1>1, <1>2 DEF SameCheck, SameQuestion, Shapes
<1> QED
    BY <1>4, <1>5 DEF Follows, d

\* BEGIN_VALIDATION of the reducer: a run of its own, what was locked is right.
Begun(c) ==
    [c EXCEPT !.phase = "validating", !.run = @ + 1, !.attempts = @ + 1,
              !.verdict = [s \in Slots |-> IF s \in c.locked THEN "correct" ELSE "pending"],
              !.selected = NoPiece]

LEMMA Beginning == \A c : (Good(c) /\ c.phase = "readyToValidate") => Follows(c, Begun(c))
<1> SUFFICES ASSUME NEW c, Good(c), c.phase = "readyToValidate" PROVE Follows(c, Begun(c))
    OBVIOUS
<1> DEFINE v == [s \in Slots |-> IF s \in c.locked THEN "correct" ELSE "pending"]
           d == Begun(c)
<1>1. c \in Shapes
      BY DEF Good
<1>2. v \in [Slots -> Verdicts] /\ \A s \in Slots : /\ v[s] = "correct" => s \in c.locked
                                                    /\ v[s] # "wrong"
      BY DEF Verdicts
<1> HIDE DEF v
<1> DEFINE next == c.run + 1
           more == c.attempts + 1
<1>3. c.run \in Nat /\ next \in Nat /\ more \in Nat /\ "validating" \in CircuitPhases
      BY <1>1 DEF Shapes, CircuitPhases
<1> HIDE DEF next, more
<1>31. d = [c EXCEPT !.phase = "validating", !.run = next, !.attempts = more,
                    !.verdict = v, !.selected = NoPiece]
      BY DEF Begun, v, next, more
<1> HIDE DEF d
<1>32. d \in Shapes
      BY <1>1, <1>2, <1>3, <1>31 DEF Shapes
<1>4. /\ d.run = next /\ d.screen = c.screen /\ d.quiz = c.quiz
      /\ d.index = c.index /\ d.board = c.board /\ d.verdict = v /\ d.locked = c.locked
      /\ d.phase = "validating"
      BY <1>1, <1>31 DEF Shapes
<1>5. InQuiz(d) /\ Current(d) = Current(c)
      BY <1>4 DEF InQuiz, Current, Good
<1>6. Truthful(d)
      BY <1>2, <1>4, <1>5 DEF Good, Truthful
<1>7. Good(d)
      BY <1>32, <1>4, <1>5, <1>6 DEF Good
<1>8. d.run > c.run
      BY <1>3, <1>4 DEF next
<1> QED
    BY <1>3, <1>4, <1>7, <1>8 DEF Follows, SameCheck, d

\* ENTER_CORRECTION of the reducer: what is right stays and is locked.
Kept(c) == [s \in Slots |-> IF s \in RightOnes(c) THEN c.board[s] ELSE NoPiece]
Corrected(c) ==
    [c EXCEPT !.board = Kept(c), !.locked = RightOnes(c), !.selected = NoPiece,
              !.verdict = [s \in Slots |-> IF s \in RightOnes(c) THEN "correct" ELSE "none"],
              !.phase = AfterArrangement(Kept(c))]

LEMMA Correcting == \A c : Good(c) => Follows(c, Corrected(c))
<1> SUFFICES ASSUME NEW c, Good(c) PROVE Follows(c, Corrected(c))
    OBVIOUS
<1> DEFINE b == Kept(c)
           r == RightOnes(c)
           v == [s \in Slots |-> IF s \in RightOnes(c) THEN "correct" ELSE "none"]
           d == Corrected(c)
<1>1. c \in Shapes /\ c.board \in Boards /\ Legal(c.board)
      BY DEF Good, Shapes
<1>2. r \in SUBSET Slots /\ \A s \in Slots : s \in r <=> c.verdict[s] = "correct"
      BY DEF RightOnes
<1>3. b \in Boards /\ \A s \in Slots : /\ s \in r => b[s] = c.board[s]
                                       /\ s \notin r => b[s] = NoPiece
      BY <1>1 DEF Kept, Boards
<1>4. v \in [Slots -> Verdicts] /\ \A s \in Slots : /\ v[s] = "correct" <=> s \in r
                                                    /\ v[s] # "wrong"
      BY DEF Verdicts
<1>5. AfterArrangement(b) \in CircuitPhases
      BY DEF AfterArrangement, CircuitPhases
<1> HIDE DEF b, v, r
<1>6. Legal(b)
      BY <1>1, <1>3 DEF Legal, Filled
<1>7. SameQuestion(c, d) /\ d.board = b /\ d.verdict = v /\ d.locked = r
      /\ d.phase = AfterArrangement(b)
      BY <1>1, <1>2, <1>3, <1>4, <1>5 DEF SameQuestion, Shapes, Corrected, b, v, r
<1> HIDE DEF d
<1>8. Follows(c, d)
  <2>1. \A s \in Slots :
          /\ s \in d.locked => s \in c.locked \/ c.verdict[s] = "correct"
          /\ d.verdict[s] = "correct" => c.verdict[s] = "correct"
          /\ d.verdict[s] = "wrong" => c.verdict[s] = "wrong"
          /\ (s \in d.locked \/ d.verdict[s] \in {"correct", "wrong"}) => d.board[s] = c.board[s]
        BY <1>2, <1>3, <1>4, <1>7
  <2> QED
      BY <1>6, <1>7, <2>1, Rearranged
<1> QED
    BY <1>8 DEF d

\* CLEAR_BOARD of the reducer.
Cleared(c) ==
    [c EXCEPT !.board = BareBoard, !.verdict = NoVerdicts,
              !.locked = {}, !.selected = NoPiece, !.phase = "arranging"]

LEMMA Bare == /\ BareBoard \in Boards /\ Legal(BareBoard) /\ NoVerdicts \in [Slots -> Verdicts]
              /\ \A s \in Slots : NoVerdicts[s] = "none"
BY DEF BareBoard, Boards, Legal, Filled, NoVerdicts, Verdicts

LEMMA Clearing == \A c : Good(c) => Follows(c, Cleared(c))
<1> SUFFICES ASSUME NEW c, Good(c) PROVE Follows(c, Cleared(c))
    OBVIOUS
<1> DEFINE d == Cleared(c)
<1>1. c \in Shapes /\ "arranging" \in CircuitPhases
      BY DEF Good, CircuitPhases
<1>2. SameQuestion(c, d) /\ d.board = BareBoard /\ d.verdict = NoVerdicts /\ d.locked = {}
      /\ d.phase = "arranging"
      BY <1>1, Bare DEF SameQuestion, Shapes, Cleared
<1> HIDE DEF d
<1>3. Follows(c, d)
      BY <1>2, Bare, Rearranged
<1> QED
    BY <1>3 DEF d

-----------------------------------------------------------------------------
(* Another question.                                                       *)

LEMMA Quizzes == \A quiz \in Sessions : /\ quiz # <<>> /\ Len(quiz) \in Nat \ {0}
                                        /\ DOMAIN quiz = 1..Len(quiz)
                                        /\ \A i \in DOMAIN quiz : quiz[i] \in Pool
<1> SUFFICES ASSUME NEW quiz \in Sessions
             PROVE  /\ quiz # <<>> /\ Len(quiz) \in Nat \ {0} /\ DOMAIN quiz = 1..Len(quiz)
                    /\ \A i \in DOMAIN quiz : quiz[i] \in Pool
    OBVIOUS
<1>1. PICK n \in 1..SessionLength : quiz \in [1..n -> Pool]
      BY DEF Sessions
<1>2. n \in Nat /\ n > 0 /\ quiz \in Seq(Pool) /\ Len(quiz) = n
      BY <1>1, CircuitAssumption
<1> QED
    BY <1>1, <1>2

LEMMA Anew ==
  \A c, d :
    (/\ Good(c) /\ d \in Shapes /\ InQuiz(d) /\ d.run = c.run + 1 /\ d.board = BareBoard
     /\ d.verdict = NoVerdicts /\ d.locked = {} /\ d.phase = "arranging")
    => Follows(c, d)
<1> SUFFICES ASSUME NEW c, NEW d, Good(c), d \in Shapes, InQuiz(d), d.run = c.run + 1,
                    d.board = BareBoard, d.verdict = NoVerdicts, d.locked = {},
                    d.phase = "arranging"
             PROVE  Follows(c, d)
    OBVIOUS
<1>1. Truthful(d)
      BY Bare DEF Truthful
<1>2. c.run \in Nat
      BY DEF Good, Shapes
<1> QED
    BY <1>1, <1>2, Bare DEF Follows, Good, SameCheck

LEMMA FreshOnes ==
  \A c, i : (c \in Shapes /\ i \in Nat \ {0}) =>
    LET d == Fresh(c, i)
    IN  /\ d \in Shapes /\ d.run = c.run + 1 /\ d.index = i /\ d.phase = "arranging"
        /\ d.board = BareBoard /\ d.verdict = NoVerdicts /\ d.locked = {}
        /\ d.screen = c.screen /\ d.quiz = c.quiz
<1> SUFFICES ASSUME NEW c \in Shapes, NEW i \in Nat \ {0}
             PROVE  /\ Fresh(c, i) \in Shapes /\ Fresh(c, i).run = c.run + 1
                    /\ Fresh(c, i).index = i /\ Fresh(c, i).phase = "arranging"
                    /\ Fresh(c, i).board = BareBoard /\ Fresh(c, i).verdict = NoVerdicts
                    /\ Fresh(c, i).locked = {} /\ Fresh(c, i).screen = c.screen
                    /\ Fresh(c, i).quiz = c.quiz
    OBVIOUS
<1> DEFINE next == c.run + 1
           d == Fresh(c, i)
<1>1. "arranging" \in CircuitPhases /\ Unasked \in Nat /\ next \in Nat
      BY CircuitAssumption DEF CircuitPhases, Unasked, Shapes
<1>2. d = [c EXCEPT !.run = next, !.index = i, !.phase = "arranging", !.board = BareBoard,
                    !.verdict = NoVerdicts, !.locked = {}, !.selected = NoPiece,
                    !.attempts = 0, !.first = Unasked]
      BY DEF Fresh
<1> HIDE DEF d, next
<1>3. d \in Shapes
      BY <1>1, <1>2, Bare DEF Shapes
<1>4. /\ d.run = next /\ d.index = i /\ d.phase = "arranging" /\ d.board = BareBoard
      /\ d.verdict = NoVerdicts /\ d.locked = {} /\ d.screen = c.screen /\ d.quiz = c.quiz
      BY <1>2 DEF Shapes
<1> QED
    BY <1>3, <1>4 DEF d, next

\* NEXT_QUESTION, EXIT_TO_SETUP and START of the reducer.
Told(c) == [c EXCEPT !.results = Append(@, Result(c))]

LEMMA Telling ==
  \A c \in Shapes : /\ Told(c) \in Shapes /\ Told(c).run = c.run /\ Told(c).index = c.index
                    /\ Told(c).quiz = c.quiz /\ Told(c).screen = c.screen
<1> SUFFICES ASSUME NEW c \in Shapes
             PROVE  /\ Told(c) \in Shapes /\ Told(c).run = c.run /\ Told(c).index = c.index
                    /\ Told(c).quiz = c.quiz /\ Told(c).screen = c.screen
    OBVIOUS
<1> DEFINE rs == Append(c.results, Result(c))
           d == Told(c)
<1>1. Result(c) \in Outcomes
      BY DEF Result, Outcomes, Shapes
<1>2. rs \in Seq(Outcomes)
      BY <1>1 DEF Shapes
<1>3. d = [c EXCEPT !.results = rs]
      BY DEF Told
<1> HIDE DEF rs, d
<1>4. d \in Shapes
      BY <1>2, <1>3 DEF Shapes
<1>5. d.run = c.run /\ d.index = c.index /\ d.quiz = c.quiz /\ d.screen = c.screen
      BY <1>3 DEF Shapes
<1> QED
    BY <1>4, <1>5 DEF d

Forward(c) ==
    IF c.index >= Len(c.quiz)
    THEN [Fresh(Told(c), c.index) EXCEPT !.screen = "results"]
    ELSE Fresh(Told(c), c.index + 1)

LEMMA GoingOn == \A c : Good(c) => Follows(c, Forward(c))
<1> SUFFICES ASSUME NEW c, Good(c) PROVE Follows(c, Forward(c))
    OBVIOUS
<1> DEFINE t == Told(c)
<1>1. c \in Shapes /\ c.index \in Nat \ {0} /\ InQuiz(c)
      BY DEF Good, Shapes
<1>2. /\ t \in Shapes /\ t.run = c.run /\ t.index = c.index
      /\ t.quiz = c.quiz /\ t.screen = c.screen
      BY <1>1, Telling
<1> HIDE DEF t
<1>3. CASE c.index >= Len(c.quiz)
  <2> DEFINE f == Fresh(t, c.index)
             d == [f EXCEPT !.screen = "results"]
  <2>1. /\ f \in Shapes /\ f.run = c.run + 1 /\ f.phase = "arranging" /\ f.board = BareBoard
        /\ f.verdict = NoVerdicts /\ f.locked = {}
        BY <1>1, <1>2, FreshOnes
  <2> HIDE DEF f
  <2>2. /\ d \in Shapes /\ d.run = c.run + 1 /\ d.phase = "arranging" /\ d.board = BareBoard
        /\ d.verdict = NoVerdicts /\ d.locked = {} /\ d.screen = "results"
        BY <2>1 DEF Shapes
  <2> HIDE DEF d
  <2>3. Follows(c, d)
        BY <2>2, Anew DEF InQuiz
  <2> QED
      BY <1>3, <2>3 DEF Forward, d, f, t
<1>4. CASE ~(c.index >= Len(c.quiz))
  <2> DEFINE d == Fresh(t, c.index + 1)
  <2>1. c.index + 1 \in Nat \ {0}
        BY <1>1
  <2>2. /\ d \in Shapes /\ d.run = c.run + 1 /\ d.index = c.index + 1 /\ d.phase = "arranging"
        /\ d.board = BareBoard /\ d.verdict = NoVerdicts /\ d.locked = {} /\ d.quiz = c.quiz
        /\ d.screen = c.screen
        BY <1>2, <2>1, FreshOnes
  <2> HIDE DEF d
  <2>3. InQuiz(d)
    <3> SUFFICES ASSUME c.screen = "playing" PROVE d.quiz \in Sessions /\ d.index \in DOMAIN d.quiz
        BY <2>2 DEF InQuiz
    <3>1. c.quiz \in Sessions
          BY <1>1 DEF InQuiz
    <3>2. c.index + 1 \in 1..Len(c.quiz)
          BY <1>1, <1>4, <3>1, Quizzes
    <3> QED
        BY <2>2, <3>1, <3>2, Quizzes
  <2>4. Follows(c, d)
        BY <2>2, <2>3, Anew
  <2> QED
      BY <1>4, <2>4 DEF Forward, d, t
<1> QED
    BY <1>3, <1>4

Quit(c) == [Fresh(c, 1) EXCEPT !.screen = "setup", !.quiz = <<>>, !.results = <<>>]

LEMMA Leaving == \A c : Good(c) => Follows(c, Quit(c))
<1> SUFFICES ASSUME NEW c, Good(c) PROVE Follows(c, Quit(c))
    OBVIOUS
<1> DEFINE f == Fresh(c, 1)
           d == [f EXCEPT !.screen = "setup", !.quiz = <<>>, !.results = <<>>]
<1>1. /\ f \in Shapes /\ f.run = c.run + 1 /\ f.phase = "arranging" /\ f.board = BareBoard
      /\ f.verdict = NoVerdicts /\ f.locked = {}
      BY FreshOnes DEF Good
<1>2. <<>> \in Seq(Outcomes)
      OBVIOUS
<1> HIDE DEF f
<1>3. /\ d \in Shapes /\ d.run = c.run + 1 /\ d.phase = "arranging" /\ d.board = BareBoard
      /\ d.verdict = NoVerdicts /\ d.locked = {} /\ d.screen = "setup"
      BY <1>1, <1>2 DEF Shapes
<1> HIDE DEF d
<1>4. Follows(c, d)
      BY <1>3, Anew DEF InQuiz
<1> QED
    BY <1>4 DEF Quit, d, f

Landed(c, quiz) ==
    [Fresh(c, 1) EXCEPT !.screen = "playing", !.starting = FALSE, !.quiz = quiz, !.results = <<>>]

LEMMA Landing == \A c, quiz : (Good(c) /\ quiz \in Sessions) => Follows(c, Landed(c, quiz))
<1> SUFFICES ASSUME NEW c, Good(c), NEW quiz \in Sessions PROVE Follows(c, Landed(c, quiz))
    OBVIOUS
<1> DEFINE f == Fresh(c, 1)
           d == [f EXCEPT !.screen = "playing", !.starting = FALSE, !.quiz = quiz, !.results = <<>>]
<1>1. /\ f \in Shapes /\ f.run = c.run + 1 /\ f.phase = "arranging" /\ f.board = BareBoard
      /\ f.verdict = NoVerdicts /\ f.locked = {} /\ f.index = 1
      BY FreshOnes DEF Good
<1>2. <<>> \in Seq(Outcomes)
      OBVIOUS
<1> HIDE DEF f
<1>3. /\ d \in Shapes /\ d.run = c.run + 1 /\ d.phase = "arranging" /\ d.board = BareBoard
      /\ d.verdict = NoVerdicts /\ d.locked = {} /\ d.index = 1 /\ d.quiz = quiz
      BY <1>1, <1>2 DEF Shapes
<1> HIDE DEF d
<1>4. InQuiz(d)
      BY <1>3, Quizzes DEF InQuiz
<1>5. Follows(c, d)
      BY <1>3, <1>4, Anew
<1> QED
    BY <1>5 DEF Landed, d, f

-----------------------------------------------------------------------------
(* The timers of a check, of a failure and of a success.                   *)

\* A timer that is heeded belongs to the check of the board on the table.
LEMMA Heeding ==
  (CircuitInv /\ diagnosis.on /\ Heeds("validating")) => diagnosis.fits = Verified(circuit)
BY DEF CircuitInv, Checked, Heeds, SameCheck, Verified, Current

LEMMA Probing ==
  (CircuitInv /\ diagnosis.on /\ diagnosis.step \in Nat /\ diagnosis.step < 2 * SlotCount
   /\ Heeds("validating")) => Follows(circuit, Probe(circuit))
<1> SUFFICES ASSUME CircuitInv, diagnosis.on, diagnosis.step \in Nat,
                    diagnosis.step < 2 * SlotCount, Heeds("validating")
             PROVE  Follows(circuit, Probe(circuit))
    OBVIOUS
<1> DEFINE s    == (diagnosis.step + 2) \div 2
           told == IF diagnosis.step % 2 = 0 THEN "checking"
                   ELSE IF s \in diagnosis.fits THEN "correct" ELSE "wrong"
           v    == [circuit.verdict EXCEPT ![s] = told]
           d    == [circuit EXCEPT !.verdict = v]
<1>1. Good(circuit) /\ circuit \in Shapes /\ circuit.verdict \in [Slots -> Verdicts]
      /\ circuit.phase = "validating" /\ circuit.run \in Nat
      BY DEF CircuitInv, Good, Shapes, Heeds
<1>2. s \in Slots /\ told \in {"checking", "correct", "wrong"}
      BY CircuitAssumption DEF Slots
<1>3. /\ told = "correct" => s \in diagnosis.fits
      /\ told = "wrong" => s \notin diagnosis.fits
      OBVIOUS
<1>4. diagnosis.fits = Verified(circuit)
      BY Heeding
<1> HIDE DEF s, told
<1>5. v \in [Slots -> Verdicts] /\ v[s] = told /\ \A t \in Slots : t # s => v[t] = circuit.verdict[t]
      BY <1>1, <1>2 DEF Verdicts
<1> HIDE DEF v
<1>6. SameQuestion(circuit, d) /\ d.verdict = v /\ d.board = circuit.board
      /\ d.locked = circuit.locked /\ d.phase = circuit.phase
      BY <1>1, <1>5 DEF SameQuestion, Shapes
<1>7. Probe(circuit) = d
      BY <1>1 DEF Probe, d, v, told, s, Shapes
<1> HIDE DEF d
<1>8. InQuiz(d) /\ Current(d) = Current(circuit)
      BY <1>1, <1>6 DEF SameQuestion, InQuiz, Current, Good
<1>9. Truthful(d)
  <2> SUFFICES ASSUME NEW t \in Slots
               PROVE  /\ t \in d.locked => Fits(Current(d), d.board, t)
                      /\ d.verdict[t] = "correct" => Fits(Current(d), d.board, t)
                      /\ d.verdict[t] = "wrong" => d.board[t] # NoPiece
                                                 /\ ~Fits(Current(d), d.board, t)
      BY DEF Truthful
  <2>1. Truthful(circuit) /\ Filled(circuit.board) = Slots
        BY <1>1 DEF Good, AllFilled
  <2>2. CASE t # s
        BY <1>5, <1>6, <1>8, <2>1, <2>2 DEF Truthful
  <2>3. CASE t = s
    <3>1. told = "correct" => Fits(Current(circuit), circuit.board, s)
          BY <1>3, <1>4 DEF Verified
    <3>2. told = "wrong" => ~Fits(Current(circuit), circuit.board, s)
          BY <1>2, <1>3, <1>4 DEF Verified
    <3>3. circuit.board[s] # NoPiece
          BY <1>2, <2>1 DEF Filled
    <3>4. s \in circuit.locked => Fits(Current(circuit), circuit.board, s)
          BY <1>2, <2>1 DEF Truthful
    <3> QED
        BY <1>5, <1>6, <1>8, <2>3, <3>1, <3>2, <3>3, <3>4
  <2> QED
      BY <2>2, <2>3
<1>10. Good(d)
       BY <1>1, <1>6, <1>8, <1>9 DEF Good, SameQuestion
<1>11. SameCheck(circuit, d) /\ d.run >= circuit.run
       BY <1>1, <1>6 DEF SameCheck, SameQuestion
<1> QED
    BY <1>7, <1>10, <1>11 DEF Follows

\* A phase that follows another, with the board as it is.
LEMMA Phased ==
  \A c, d :
    (/\ Good(c) /\ SameQuestion(c, d) /\ d.board = c.board /\ d.verdict = c.verdict
     /\ d.locked = c.locked /\ c.phase # "arranging" /\ d.phase # "validating"
     /\ d.phase \in {"successCurrent", "questionComplete"} => Solution(Current(c), c.board))
    => Follows(c, d)
<1> SUFFICES ASSUME NEW c, NEW d, Good(c), SameQuestion(c, d), d.board = c.board,
                    d.verdict = c.verdict, d.locked = c.locked, c.phase # "arranging",
                    d.phase # "validating",
                    d.phase \in {"successCurrent", "questionComplete"}
                        => Solution(Current(c), c.board)
             PROVE  Follows(c, d)
    OBVIOUS
<1>1. InQuiz(d) /\ Current(d) = Current(c)
      BY DEF SameQuestion, InQuiz, Current, Good
<1>2. Good(d)
      BY <1>1 DEF Good, SameQuestion, Truthful
<1>3. d.run \in Nat /\ d.run = c.run
      BY DEF SameQuestion, Shapes
<1> QED
    BY <1>2, <1>3 DEF Follows, SameCheck

LEMMA Counting == \A c : Cardinality(RightOnes(c)) \in Nat
<1> SUFFICES ASSUME NEW c PROVE Cardinality(RightOnes(c)) \in Nat
    OBVIOUS
<1>1. IsFiniteSet(Slots)
      BY CircuitAssumption, FS_Interval DEF Slots
<1>2. RightOnes(c) \subseteq Slots
      BY DEF RightOnes
<1> QED
    BY <1>1, <1>2, FS_Subset, FS_CardinalityType

\* The reducer's VALIDATION_FINISHED, FAILURE_SEQUENCE_DONE and REWARD_DONE.
Finished(c) ==
    [c EXCEPT
        !.phase = IF diagnosis.fits = Slots THEN "successCurrent" ELSE "failureSequence",
        !.first = IF c.attempts = 1 THEN Cardinality(RightOnes(c)) ELSE @]

LEMMA Finishing ==
  (CircuitInv /\ diagnosis.on /\ Heeds("validating")) => Follows(circuit, Finished(circuit))
<1> SUFFICES ASSUME CircuitInv, diagnosis.on, Heeds("validating")
             PROVE  Follows(circuit, Finished(circuit))
    OBVIOUS
<1> DEFINE ph == IF diagnosis.fits = Slots THEN "successCurrent" ELSE "failureSequence"
           n  == IF circuit.attempts = 1 THEN Cardinality(RightOnes(circuit)) ELSE circuit.first
           d  == [circuit EXCEPT !.phase = ph, !.first = n]
<1>1. Good(circuit) /\ circuit \in Shapes /\ circuit.phase = "validating"
      BY DEF CircuitInv, Good, Heeds
<1>2. ph \in CircuitPhases /\ ph \in {"successCurrent", "failureSequence"}
      BY DEF CircuitPhases
<1>3. n \in Nat
      BY <1>1, Counting DEF Shapes
<1>4. ph = "successCurrent" => Solution(Current(circuit), circuit.board)
      BY <1>1, Heeding DEF Verified, Solution, Good
<1> HIDE DEF ph, n
<1>5. SameQuestion(circuit, d) /\ d.verdict = circuit.verdict /\ d.board = circuit.board
      /\ d.locked = circuit.locked /\ d.phase = ph
      BY <1>1, <1>2, <1>3 DEF SameQuestion, Shapes
<1>6. Finished(circuit) = d
      BY <1>1 DEF Finished, d, n, ph, Shapes
<1> HIDE DEF d
<1> QED
    BY <1>1, <1>2, <1>4, <1>5, <1>6, Phased

Reached(c, ph) == [c EXCEPT !.phase = ph]

LEMMA Reaching ==
  \A c : Good(c) =>
    /\ c.phase = "failureSequence" => Follows(c, Reached(c, "failureReview"))
    /\ c.phase = "successCurrent" => Follows(c, Reached(c, "questionComplete"))
<1> SUFFICES ASSUME NEW c, Good(c), NEW ph \in {"failureReview", "questionComplete"},
                    c.phase # "arranging",
                    ph = "questionComplete" => Solution(Current(c), c.board)
             PROVE  Follows(c, Reached(c, ph))
    BY DEF Good
<1> DEFINE d == Reached(c, ph)
<1>1. c \in Shapes /\ ph \in CircuitPhases
      BY DEF Good, CircuitPhases
<1>2. SameQuestion(c, d) /\ d.verdict = c.verdict /\ d.board = c.board
      /\ d.locked = c.locked /\ d.phase = ph
      BY <1>1 DEF SameQuestion, Shapes, Reached
<1> HIDE DEF d
<1>3. Follows(c, d)
      BY <1>2, Phased
<1> QED
    BY <1>3 DEF d

-----------------------------------------------------------------------------
(* Every step of the game makes one state follow another.                  *)

Diagnoses == [on : BOOLEAN, step : Nat, fits : SUBSET Slots]

\* What the pointer holds and the screen shows as selected are pieces.
Handled ==
    /\ hand \in Pieces \cup {NoPiece}
    /\ drawn.selected \in Pieces \cup {NoPiece}
    /\ diagnosis \in Diagnoses

GameInv == CircuitInv /\ Handled

Shown == \E d : Follows(circuit, d) /\ Draw(d)
Waits == /\ Follows(circuit, circuit') /\ drawn' = drawn /\ diagnosis' \in Diagnoses
         /\ diagnosis'.on => diagnosis.on /\ diagnosis'.fits = diagnosis.fits
Advance == hand' \in Pieces \cup {NoPiece} /\ (Shown \/ Waits)

LEMMA Advancing == GameInv /\ Advance => GameInv'
<1> SUFFICES ASSUME GameInv, Advance PROVE GameInv'
    OBVIOUS
<1>1. CASE Shown
  <2>1. PICK d : Follows(circuit, d) /\ Draw(d)
        BY <1>1 DEF Shown
  <2>2. CircuitInv'
        BY <2>1, Drawn DEF GameInv
  <2>3. drawn'.selected \in Pieces \cup {NoPiece}
        BY <2>1 DEF Draw, Follows, Good, Shapes
  <2>4. diagnosis' \in Diagnoses
    <3>1. NoDiagnosis \in Diagnoses /\ [on |-> TRUE, step |-> 0, fits |-> Verified(d)] \in Diagnoses
          BY DEF NoDiagnosis, Diagnoses, Verified
    <3>2. \/ diagnosis' = NoDiagnosis \/ diagnosis' = diagnosis
          \/ diagnosis' = [on |-> TRUE, step |-> 0, fits |-> Verified(d)]
          BY <2>1 DEF Draw
    <3> QED
        BY <3>1, <3>2 DEF GameInv, Handled
  <2> QED
      BY <2>2, <2>3, <2>4 DEF GameInv, Handled, Advance
<1>2. CASE Waits
  <2>1. CircuitInv'
        BY <1>2, Unseen DEF Waits, GameInv
  <2> QED
      BY <1>2, <2>1 DEF GameInv, Handled, Advance, Waits
<1> QED
    BY <1>1, <1>2 DEF Advance

\* The player's actions.
LEMMA PlayerAdvances ==
  GameInv /\ (\/ \E p \in Pieces : TogglePiece(p) \/ PickUp(p)
              \/ \E s \in Slots : SocketActivate(s) \/ Drop(s)
              \/ Cancel \/ BeginValidation \/ EnterCorrection \/ ClearBoard \/ NextQuestion
              \/ ExitToSetup \/ AskStart)
    => Advance
<1> SUFFICES ASSUME GameInv,
                    \/ \E p \in Pieces : TogglePiece(p) \/ PickUp(p)
                    \/ \E s \in Slots : SocketActivate(s) \/ Drop(s)
                    \/ Cancel \/ BeginValidation \/ EnterCorrection \/ ClearBoard \/ NextQuestion
                    \/ ExitToSetup \/ AskStart
             PROVE  Advance
    OBVIOUS
<1>0. /\ Good(circuit) /\ Follows(circuit, circuit) /\ hand \in Pieces \cup {NoPiece}
      /\ drawn.selected \in Pieces \cup {NoPiece} /\ diagnosis \in Diagnoses
      BY Staying DEF GameInv, CircuitInv, Handled
<1>1. ASSUME NEW p \in Pieces, TogglePiece(p) PROVE Advance
  <2>1. Follows(circuit, [circuit EXCEPT !.selected = IF @ = p THEN NoPiece ELSE p])
        BY <1>0, Letting
  <2> QED
      BY <1>0, <1>1, <2>1 DEF TogglePiece, Advance, Shown
<1>2. ASSUME NEW p \in Pieces, PickUp(p) PROVE Advance
      BY <1>0, <1>2 DEF PickUp, Advance, Waits
<1>3. ASSUME NEW s \in Slots, SocketActivate(s) PROVE Advance
  <2>1. CASE drawn.selected # NoPiece /\ Draw(Placed(circuit, drawn.selected, s))
    <3>1. Follows(circuit, Placed(circuit, drawn.selected, s))
          BY <1>0, <2>1, Placing
    <3> QED
        BY <1>0, <1>3, <2>1, <3>1 DEF SocketActivate, Advance, Shown
  <2>2. CASE Draw(Lifted(circuit, s))
    <3>1. Follows(circuit, Lifted(circuit, s))
          BY <1>0, Lifting
    <3> QED
        BY <1>0, <1>3, <2>2, <3>1 DEF SocketActivate, Advance, Shown
  <2> QED
      BY <1>3, <2>1, <2>2 DEF SocketActivate
<1>4. ASSUME NEW s \in Slots, Drop(s) PROVE Advance
  <2>1. hand # NoPiece /\ Draw(Placed(circuit, hand, s)) /\ hand' = NoPiece
        BY <1>4 DEF Drop
  <2>2. Follows(circuit, Placed(circuit, hand, s))
        BY <1>0, <2>1, Placing
  <2> QED
      BY <2>1, <2>2 DEF Advance, Shown
<1>5. CASE Cancel
  <2>1. Follows(circuit, [circuit EXCEPT !.selected = NoPiece])
        BY <1>0, Letting
  <2> QED
      BY <1>5, <2>1 DEF Cancel, Advance, Shown
<1>6. CASE BeginValidation
  <2>1. circuit.phase = "readyToValidate" => Follows(circuit, Begun(circuit))
        BY <1>0, Beginning
  <2>2. hand' = hand /\ Draw(IF circuit.phase # "readyToValidate" THEN circuit ELSE Begun(circuit))
        BY <1>6 DEF BeginValidation, Begun
  <2> QED
      BY <1>0, <2>1, <2>2 DEF Advance, Shown
<1>7. CASE EnterCorrection
  <2>1. Follows(circuit, Corrected(circuit))
        BY <1>0, Correcting
  <2>2. hand' = hand /\ Draw(IF circuit.phase # "failureReview" THEN circuit ELSE Corrected(circuit))
        BY <1>7 DEF EnterCorrection, Corrected, Kept
  <2> QED
      BY <1>0, <2>1, <2>2 DEF Advance, Shown
<1>8. CASE ClearBoard
  <2>1. Follows(circuit, Cleared(circuit))
        BY <1>0, Clearing
  <2>2. hand' = hand /\ (Draw(circuit) \/ Draw(Cleared(circuit)))
        BY <1>8 DEF ClearBoard, Cleared
  <2> QED
      BY <1>0, <2>1, <2>2 DEF Advance, Shown
<1>9. CASE NextQuestion
  <2>1. Follows(circuit, Forward(circuit))
        BY <1>0, GoingOn
  <2>2. hand' = hand /\ Draw(Forward(circuit))
        BY <1>9 DEF NextQuestion, Forward, Told
  <2> QED
      BY <1>0, <2>1, <2>2 DEF Advance, Shown
<1>10. CASE ExitToSetup
  <2>1. Follows(circuit, Quit(circuit))
        BY <1>0, Leaving
  <2>2. hand' = hand /\ Draw(Quit(circuit))
        BY <1>10 DEF ExitToSetup, Quit
  <2> QED
      BY <1>0, <2>1, <2>2 DEF Advance, Shown
<1>11. CASE AskStart
  <2>1. Follows(circuit, [circuit EXCEPT !.starting = TRUE])
        BY <1>0, Starting
  <2>2. hand' = hand /\ Draw([circuit EXCEPT !.starting = TRUE])
        BY <1>11 DEF AskStart
  <2> QED
      BY <1>0, <2>1, <2>2 DEF Advance, Shown
<1> QED
    BY <1>1, <1>2, <1>3, <1>4, <1>5, <1>6, <1>7, <1>8, <1>9, <1>10, <1>11

\* What comes back by itself, and what React does.
LEMMA OthersAdvance ==
  GameInv /\ (\/ \E quiz \in Sessions : Land(quiz)
              \/ LandFails \/ Timers \/ Commit \/ LooksChange \/ UNCHANGED circuitVars)
    => Advance
<1> SUFFICES ASSUME GameInv,
                    \/ \E quiz \in Sessions : Land(quiz)
                    \/ LandFails \/ Timers \/ Commit \/ LooksChange \/ UNCHANGED circuitVars
             PROVE  Advance
    OBVIOUS
<1>0. /\ Good(circuit) /\ Follows(circuit, circuit) /\ hand \in Pieces \cup {NoPiece}
      /\ diagnosis \in Diagnoses
      BY Staying DEF GameInv, CircuitInv, Handled
<1>1. ASSUME NEW quiz \in Sessions, Land(quiz) PROVE Advance
  <2>1. Follows(circuit, Landed(circuit, quiz))
        BY <1>0, Landing
  <2> QED
      BY <1>0, <1>1, <2>1 DEF Land, Landed, Unattended, Advance, Waits
<1>2. CASE LandFails
  <2>1. Follows(circuit, [circuit EXCEPT !.starting = FALSE])
        BY <1>0, Starting
  <2> QED
      BY <1>0, <1>2, <2>1 DEF LandFails, Unattended, Advance, Waits
<1>3. ASSUME diagnosis' = [diagnosis EXCEPT !.step = @ + 1]
      PROVE  diagnosis' \in Diagnoses /\ diagnosis'.on = diagnosis.on /\ diagnosis'.fits = diagnosis.fits
      BY <1>0, <1>3 DEF Diagnoses
<1>4. CASE Diagnose
  <2>1. diagnosis.step \in Nat
        BY <1>0 DEF Diagnoses
  <2>2. Follows(circuit, circuit')
        BY <1>0, <1>4, <2>1, Probing DEF Diagnose, GameInv
  <2> QED
      BY <1>0, <1>3, <1>4, <2>2 DEF Diagnose, Unattended, Advance, Waits
<1>5. CASE ValidationFinished
  <2>1. circuit' = IF ~Heeds("validating") THEN circuit ELSE Finished(circuit)
        BY <1>5 DEF ValidationFinished, Finished
  <2>2. Follows(circuit, circuit')
        BY <1>0, <1>5, <2>1, Finishing DEF ValidationFinished, GameInv
  <2> QED
      BY <1>0, <1>3, <1>5, <2>2 DEF ValidationFinished, Unattended, Advance, Waits
<1>6. CASE Pop \/ LeadInDone \/ TravelDone
      BY <1>0, <1>6 DEF Pop, LeadInDone, TravelDone, Unattended, Advance, Waits
<1>7. CASE FailureSequenceDone
  <2>1. circuit' = IF Heeds("failureSequence") THEN Reached(circuit, "failureReview") ELSE circuit
        BY <1>7 DEF FailureSequenceDone, Reached
  <2>2. Follows(circuit, circuit')
        BY <1>0, <2>1, Reaching DEF Heeds
  <2> QED
      BY <1>0, <1>7, <2>2 DEF FailureSequenceDone, Unattended, Advance, Waits
<1>8. CASE RewardDone
  <2>1. circuit' = IF Heeds("successCurrent") THEN Reached(circuit, "questionComplete") ELSE circuit
        BY <1>8 DEF RewardDone, Reached
  <2>2. Follows(circuit, circuit')
        BY <1>0, <2>1, Reaching DEF Heeds
  <2> QED
      BY <1>0, <1>8, <2>2 DEF RewardDone, Unattended, Advance, Waits
<1>9. CASE Commit
      BY <1>0, <1>9 DEF Commit, Advance, Shown
<1>10. CASE LooksChange
  <2>1. /\ diagnosis' \in Diagnoses
        /\ diagnosis'.on => diagnosis.on /\ diagnosis'.fits = diagnosis.fits
        BY <1>0, <1>10 DEF LooksChange, Diagnoses
  <2> QED
      BY <1>0, <1>10, <2>1 DEF LooksChange, Advance, Waits
<1>11. CASE UNCHANGED circuitVars
       BY <1>0, <1>11 DEF circuitVars, Advance, Waits
<1> QED
    BY <1>1, <1>2, <1>4, <1>5, <1>6, <1>7, <1>8, <1>9, <1>10, <1>11 DEF Timers

LEMMA Beginnings == CircuitInit => GameInv
<1> SUFFICES ASSUME CircuitInit PROVE GameInv
    OBVIOUS
<1> DEFINE c == InitialCircuit
<1>1. "arranging" \in CircuitPhases /\ Unasked \in Nat /\ <<>> \in Seq(Outcomes)
      BY CircuitAssumption DEF CircuitPhases, Unasked
<1>2. c \in Shapes
      BY <1>1, Bare DEF InitialCircuit, Shapes
<1>3. /\ c.screen = "setup" /\ c.phase = "arranging" /\ c.board = BareBoard /\ c.run = 0
      /\ c.verdict = NoVerdicts /\ c.locked = {} /\ c.selected = NoPiece
      BY DEF InitialCircuit
<1>4. circuit = c /\ drawn = c /\ hand = NoPiece /\ diagnosis = NoDiagnosis
      BY DEF CircuitInit
<1> HIDE DEF c
<1>5. Good(c)
      BY <1>2, <1>3, Bare DEF Good, InQuiz, Truthful
<1>6. Checked
      BY <1>3, <1>4 DEF Checked, NoDiagnosis
<1>7. Handled
      BY <1>3, <1>4 DEF Handled, NoDiagnosis, Diagnoses
<1> QED
    BY <1>4, <1>5, <1>6, <1>7 DEF GameInv, CircuitInv

\* Whatever the player, the timers, the loads and React do, the state of the
\* reducer is good and the timers know the board they were started for.
THEOREM Invariance == CircuitSpec => []GameInv
<1>1. GameInv /\ [CircuitNext]_circuitVars => GameInv'
  <2> SUFFICES ASSUME GameInv, [CircuitNext]_circuitVars PROVE GameInv'
      OBVIOUS
  <2>1. Advance
        BY PlayerAdvances, OthersAdvance DEF CircuitNext
  <2> QED
      BY <2>1, Advancing
<1> QED
    BY <1>1, Beginnings, PTL DEF CircuitSpec

\* What is shown green is right and what is shown red is wrong.
THEOREM TruthfulVerdicts == CircuitSpec => []VerdictsFitTheBoard
<1>1. GameInv => VerdictsFitTheBoard
      BY DEF GameInv, CircuitInv, Good, Truthful, VerdictsFitTheBoard
<1> QED
    BY <1>1, Invariance, PTL

\* The lamp is lit only for a whole solution.
THEOREM HonestLight == CircuitSpec => []LightMeansSolved
<1>1. GameInv => LightMeansSolved
      BY DEF GameInv, CircuitInv, Good, LightMeansSolved
<1> QED
    BY <1>1, Invariance, PTL

\* What a correction locks can always be completed to a solution.
THEOREM NoWayIsBarred == CircuitSpec => []LockedBoardIsSolvable
<1>1. GameInv => LockedBoardIsSolvable
  <2> SUFFICES ASSUME GameInv, circuit.screen = "playing"
               PROVE  \E whole \in Boards :
                        /\ Solution(Current(circuit), whole)
                        /\ \A s \in circuit.locked : whole[s] = circuit.board[s]
      BY DEF LockedBoardIsSolvable
  <2> DEFINE q == Current(circuit)
             kept == [s \in Slots |-> IF s \in circuit.locked THEN circuit.board[s] ELSE NoPiece]
  <2>1. /\ Good(circuit) /\ circuit.board \in Boards /\ Legal(circuit.board)
        /\ Truthful(circuit) /\ circuit.locked \subseteq Slots
        BY DEF GameInv, CircuitInv, Good, Shapes
  <2>2. ChoiceSafe(q)
    <3>1. circuit.quiz \in Sessions /\ circuit.index \in DOMAIN circuit.quiz
          BY <2>1 DEF Good, InQuiz
    <3>2. q \in Pool
          BY <3>1, Quizzes DEF Current
    <3> QED
        BY <3>2 DEF Pool, Admitted
  <2>3. kept \in Boards /\ \A s \in Slots : /\ s \in circuit.locked => kept[s] = circuit.board[s]
                                            /\ s \notin circuit.locked => kept[s] = NoPiece
        BY <2>1 DEF Boards
  <2>4. \A s \in circuit.locked : Fits(q, circuit.board, s)
        BY <2>1 DEF Truthful
  <2> HIDE DEF kept, q
  <2>5. Filled(kept) = circuit.locked
        BY <2>1, <2>3, <2>4 DEF Filled, Fits
  <2>6. Legal(kept)
        BY <2>1, <2>3, <2>5 DEF Legal, Filled
  <2>7. Sound(q, kept)
        BY <2>1, <2>3, <2>4, <2>5, <2>6 DEF Sound, Fits
  <2>8. PICK whole \in Boards : Completes(q, whole, kept)
        BY <2>2, <2>3, <2>7 DEF ChoiceSafe
  <2> QED
      BY <2>1, <2>3, <2>5, <2>8 DEF Completes, q
<1> QED
    BY <1>1, Invariance, PTL

-----------------------------------------------------------------------------
(* The results: what is counted of a question, from its first check on.    *)

OneMeansAll(attempts, first) == attempts > 0 => (attempts = 1 <=> first = SlotCount)
Lit(phase) == phase \in {"successCurrent", "questionComplete"}

ResultsFit(c) ==
    /\ c.screen = "playing" => Len(c.results) + 1 = c.index
    /\ c.screen = "results" => Len(c.results) = Len(c.quiz)
    /\ \A i \in DOMAIN c.results : OneMeansAll(c.results[i].attempts, c.results[i].first)

\* The first check counted every slot exactly if the lamp is lit after it.
FirstFits(c) ==
    /\ c.attempts = 1 /\ Lit(c.phase) => c.first = SlotCount
    /\ c.attempts = 1 /\ ~Lit(c.phase) /\ c.phase # "validating" => c.first # SlotCount
    /\ c.attempts > 1 => c.first # SlotCount

\* The screen is behind by the phases that come by themselves, or by the
\* landing of a new game.
Lagging ==
    \/ /\ circuit.run = drawn.run /\ circuit.screen = drawn.screen
       /\ drawn.phase \notin {"validating", "failureSequence", "successCurrent"}
            => circuit.phase = drawn.phase
    \/ /\ circuit.run > drawn.run /\ circuit.screen = "playing"
       /\ circuit.phase = "arranging" /\ circuit.attempts = 0

\* The slots whose timers have fired show what was found of them.
Probed ==
    (diagnosis.on /\ Heeds("validating")) =>
        \A s \in Slots : 2 * s <= diagnosis.step =>
            (circuit.verdict[s] = "correct" <=> s \in diagnosis.fits)

TellInv == ResultsFit(circuit) /\ FirstFits(circuit) /\ Lagging /\ Probed

\* What a click makes of a state, for the results.
SameTale(c, d) ==
    /\ d.screen = c.screen /\ d.quiz = c.quiz /\ d.index = c.index /\ d.results = c.results
    /\ d.first = c.first
Rests(c, d) == /\ SameTale(c, d) /\ d.run = c.run /\ d.attempts = c.attempts
               /\ d.phase = c.phase /\ d.verdict = c.verdict
Moves(c, d) == /\ SameTale(c, d) /\ d.attempts = c.attempts
               /\ IsArrangeable(c.phase) /\ IsArrangeable(d.phase)
Checks(c, d) == /\ SameTale(c, d) /\ d.run = c.run + 1 /\ d.attempts = c.attempts + 1
                /\ c.phase = "readyToValidate"
Restarts(c, d) == d.phase = "arranging" /\ d.attempts = 0 /\ ResultsFit(d)
Tells(c, d) == Rests(c, d) \/ Moves(c, d) \/ (Checks(c, d) /\ d.phase = "validating") \/ Restarts(c, d)

LEMMA ClicksTell ==
  ASSUME GameInv, TellInv, NEW d \in Shapes, Draw(d), Tells(circuit, d)
  PROVE  TellInv'
<1>1. circuit' = d /\ drawn' = d
      BY DEF Draw
<1>2. /\ circuit \in Shapes /\ circuit.attempts \in Nat /\ circuit.run \in Nat
      /\ drawn.run \in Nat /\ drawn.run <= circuit.run /\ d.run \in Nat
      BY DEF GameInv, CircuitInv, Good, Checked, Shapes
<1>3. ResultsFit(d)
      BY DEF Tells, Rests, Moves, Checks, Restarts, SameTale, TellInv, ResultsFit
<1>4. FirstFits(d)
  <2>1. CASE Rests(circuit, d)
        BY <2>1 DEF Rests, SameTale, TellInv, FirstFits
  <2>2. CASE Moves(circuit, d)
        BY <2>2 DEF Moves, SameTale, TellInv, FirstFits, IsArrangeable, Lit
  <2>3. CASE Checks(circuit, d) /\ d.phase = "validating"
        BY <1>2, <2>3 DEF Checks, SameTale, TellInv, FirstFits, Lit
  <2>4. CASE Restarts(circuit, d)
        BY <2>4 DEF Restarts, FirstFits
  <2> QED
      BY <2>1, <2>2, <2>3, <2>4 DEF Tells
<1>5. Lagging'
      BY <1>1 DEF Lagging
<1>6. Probed'
  <2>1. CASE d.phase # "validating"
        BY <1>1, <2>1 DEF Probed, Heeds
  <2>2. CASE d.phase = "validating" /\ ~SameEffect(d)
    <3>1. diagnosis'.step = 0
          BY <2>2 DEF Draw
    <3>2. \A s \in Slots : ~(2 * s <= 0)
          BY CircuitAssumption DEF Slots
    <3> QED
        BY <3>1, <3>2 DEF Probed
  <2>3. CASE d.phase = "validating" /\ SameEffect(d)
    <3>1. diagnosis' = diagnosis /\ d.run = drawn.run
          BY <2>3 DEF Draw, SameEffect
    <3>2. Rests(circuit, d)
          BY <1>2, <2>3, <3>1 DEF Tells, Moves, Checks, Restarts, IsArrangeable
    <3>3. circuit.run = drawn.run /\ circuit.phase = "validating" /\ circuit.verdict = d.verdict
          BY <2>3, <3>1, <3>2 DEF Rests
    <3> QED
        BY <1>1, <3>1, <3>3 DEF TellInv, Probed, Heeds
  <2> QED
      BY <2>1, <2>2, <2>3
<1> QED
    BY <1>1, <1>3, <1>4, <1>5, <1>6 DEF TellInv

\* What the player does to the pieces.
LEMMA Unmoved == \A c : Tells(c, c)
BY DEF Tells, Rests, SameTale

LEMMA Handling ==
  \A c \in Shapes : \A s \in Slots : \A p :
    /\ Tells(c, Placed(c, p, s)) /\ Tells(c, Lifted(c, s))
    /\ Tells(c, [c EXCEPT !.selected = p]) /\ Tells(c, [c EXCEPT !.starting = p])
<1> SUFFICES ASSUME NEW c \in Shapes, NEW s \in Slots, NEW p
             PROVE  /\ Tells(c, Placed(c, p, s)) /\ Tells(c, Lifted(c, s))
                    /\ Tells(c, [c EXCEPT !.selected = p]) /\ Tells(c, [c EXCEPT !.starting = p])
    OBVIOUS
<1>1. \A b : IsArrangeable(AfterArrangement(b))
      BY DEF IsArrangeable, AfterArrangement
<1>2. Tells(c, Placed(c, p, s))
  <2> DEFINE b == [c.board EXCEPT ![s] = p]
             v == [c.verdict EXCEPT ![s] = "pending"]
             d == [c EXCEPT !.board = b, !.verdict = v, !.selected = NoPiece,
                            !.phase = AfterArrangement(b)]
  <2>1. Placed(c, p, s) = d \/ Placed(c, p, s) = c
        BY DEF Placed, Shapes
  <2>2. ASSUME Placed(c, p, s) # c PROVE IsArrangeable(c.phase)
        BY <2>2 DEF Placed
  <2>3. SameTale(c, d) /\ d.attempts = c.attempts /\ IsArrangeable(d.phase)
        BY <1>1 DEF SameTale, Shapes
  <2> QED
      BY <2>1, <2>2, <2>3, Unmoved DEF Tells, Moves
<1>3. Tells(c, Lifted(c, s))
  <2> DEFINE b == [c.board EXCEPT ![s] = NoPiece]
             v == [c.verdict EXCEPT ![s] = "none"]
             d == [c EXCEPT !.board = b, !.verdict = v, !.selected = NoPiece,
                            !.phase = AfterArrangement(b)]
  <2>1. Lifted(c, s) = d \/ Lifted(c, s) = c
        BY DEF Lifted, Shapes
  <2>2. ASSUME Lifted(c, s) # c PROVE IsArrangeable(c.phase)
        BY <2>2 DEF Lifted
  <2>3. SameTale(c, d) /\ d.attempts = c.attempts /\ IsArrangeable(d.phase)
        BY <1>1 DEF SameTale, Shapes
  <2> QED
      BY <2>1, <2>2, <2>3, Unmoved DEF Tells, Moves
<1>4. Tells(c, [c EXCEPT !.selected = p]) /\ Tells(c, [c EXCEPT !.starting = p])
      BY DEF Tells, Rests, SameTale, Shapes
<1> QED
    BY <1>2, <1>3, <1>4

LEMMA Reviewing ==
  \A c \in Shapes :
    /\ c.phase = "failureReview" => Tells(c, Corrected(c))
    /\ IsArrangeable(c.phase) => Tells(c, Cleared(c))
    /\ c.phase = "readyToValidate" => Tells(c, Begun(c))
<1> SUFFICES ASSUME NEW c \in Shapes
             PROVE  /\ c.phase = "failureReview" => Tells(c, Corrected(c))
                    /\ IsArrangeable(c.phase) => Tells(c, Cleared(c))
                    /\ c.phase = "readyToValidate" => Tells(c, Begun(c))
    OBVIOUS
<1>1. IsArrangeable(AfterArrangement(Kept(c))) /\ IsArrangeable("failureReview")
      /\ IsArrangeable("arranging")
      BY DEF IsArrangeable, AfterArrangement
<1>2. SameTale(c, Corrected(c)) /\ Corrected(c).attempts = c.attempts
      /\ Corrected(c).phase = AfterArrangement(Kept(c))
      BY DEF Corrected, SameTale, Shapes
<1>3. SameTale(c, Cleared(c)) /\ Cleared(c).attempts = c.attempts /\ Cleared(c).phase = "arranging"
      BY DEF Cleared, SameTale, Shapes
<1>4. SameTale(c, Begun(c)) /\ Begun(c).run = c.run + 1 /\ Begun(c).attempts = c.attempts + 1
      /\ Begun(c).phase = "validating"
      BY DEF Begun, SameTale, Shapes
<1> QED
    BY <1>1, <1>2, <1>3, <1>4 DEF Tells, Moves, Checks

\* A question that is left forwards has its result, a fitting one.
LEMMA ForwardTells ==
  ASSUME NEW c, Good(c), ResultsFit(c), FirstFits(c), c.screen = "playing",
         Lit(c.phase) \/ c.attempts = 0
  PROVE  Tells(c, Forward(c))
<1> DEFINE r  == Result(c)
           rs == Append(c.results, r)
           t  == Told(c)
<1>1. /\ c \in Shapes /\ c.attempts \in Nat /\ c.first \in Nat /\ c.index \in Nat
      /\ c.results \in Seq(Outcomes) /\ c.quiz \in Sessions /\ c.index \in DOMAIN c.quiz
      BY DEF Good, Shapes, InQuiz
<1>2. Len(c.quiz) \in Nat /\ c.index <= Len(c.quiz)
      BY <1>1, Quizzes
<1>3. r \in Outcomes /\ OneMeansAll(r.attempts, r.first)
      BY <1>1, CircuitAssumption DEF FirstFits, OneMeansAll, Result, Outcomes, Unasked
<1> HIDE DEF r
<1>4. Len(rs) = Len(c.results) + 1 /\ Len(c.results) + 1 = c.index
      BY <1>1, <1>3 DEF ResultsFit
<1>5. \A i \in DOMAIN rs : OneMeansAll(rs[i].attempts, rs[i].first)
  <2> SUFFICES ASSUME NEW i \in DOMAIN rs PROVE OneMeansAll(rs[i].attempts, rs[i].first)
      OBVIOUS
  <2>1. rs[i] = r \/ (i \in DOMAIN c.results /\ rs[i] = c.results[i])
        BY <1>1, <1>3
  <2> QED
      BY <1>3, <2>1 DEF ResultsFit
<1>6. t \in Shapes /\ t.index = c.index /\ t.quiz = c.quiz /\ t.screen = c.screen
      BY <1>1, Telling
<1>7. t.results = rs
      BY <1>1 DEF Told, Shapes, r
<1> HIDE DEF rs, t
<1>8. \A i : LET f == Fresh(t, i)
             IN  /\ f.results = rs /\ f.attempts = 0 /\ f.phase = "arranging"
                 /\ f.screen = "playing" /\ f.quiz = c.quiz /\ f.index = i
      BY <1>6, <1>7 DEF Fresh, Shapes
<1>9. CASE c.index >= Len(c.quiz)
  <2> DEFINE f == Fresh(t, c.index)
             d == [f EXCEPT !.screen = "results"]
  <2>1. f \in Shapes /\ f.results = rs /\ f.attempts = 0 /\ f.phase = "arranging" /\ f.quiz = c.quiz
        BY <1>1, <1>6, <1>8, FreshOnes DEF Shapes
  <2> HIDE DEF f
  <2>2. /\ d.results = rs /\ d.attempts = 0 /\ d.phase = "arranging" /\ d.quiz = c.quiz
        /\ d.screen = "results"
        BY <2>1 DEF Shapes
  <2> HIDE DEF d
  <2>3. ResultsFit(d)
        BY <1>1, <1>2, <1>4, <1>5, <1>9, <2>2 DEF ResultsFit
  <2>4. Tells(c, d)
        BY <2>2, <2>3 DEF Tells, Restarts
  <2> QED
      BY <1>9, <2>4 DEF Forward, d, f, t
<1>10. CASE ~(c.index >= Len(c.quiz))
  <2> DEFINE d == Fresh(t, c.index + 1)
  <2>1. /\ d.results = rs /\ d.attempts = 0 /\ d.phase = "arranging" /\ d.screen = "playing"
        /\ d.index = c.index + 1
        BY <1>8
  <2> HIDE DEF d
  <2>2. ResultsFit(d)
        BY <1>4, <1>5, <2>1 DEF ResultsFit
  <2>3. Tells(c, d)
        BY <2>1, <2>2 DEF Tells, Restarts
  <2> QED
      BY <1>10, <2>3 DEF Forward, d, t
<1> QED
    BY <1>9, <1>10

LEMMA QuitTells == \A c \in Shapes : Tells(c, Quit(c))
<1> SUFFICES ASSUME NEW c \in Shapes PROVE Tells(c, Quit(c))
    OBVIOUS
<1>1. /\ Quit(c).screen = "setup" /\ Quit(c).phase = "arranging" /\ Quit(c).attempts = 0
      /\ Quit(c).results = <<>>
      BY DEF Quit, Fresh, Shapes
<1>2. ResultsFit(Quit(c))
      BY <1>1 DEF ResultsFit
<1> QED
    BY <1>1, <1>2 DEF Tells, Restarts

\* Whoever may touch the drawn board touches one that can be arranged; the
\* button that goes on meets a question that is done, or one just landed.
LEMMA Behind ==
  TellInv =>
    /\ Touchable => IsArrangeable(circuit.phase)
    /\ Playing /\ drawn.phase = "questionComplete"
        => circuit.screen = "playing" /\ (Lit(circuit.phase) \/ circuit.attempts = 0)
BY DEF TellInv, Lagging, Touchable, Playing, IsArrangeable, Lit

LEMMA PlayerTells ==
  GameInv /\ TellInv
  /\ (\/ \E p \in Pieces : TogglePiece(p)
      \/ \E s \in Slots : SocketActivate(s) \/ Drop(s)
      \/ Cancel \/ BeginValidation \/ EnterCorrection \/ ClearBoard \/ NextQuestion
      \/ ExitToSetup \/ AskStart \/ Commit)
    => TellInv'
<1> SUFFICES ASSUME GameInv, TellInv,
                    \/ \E p \in Pieces : TogglePiece(p)
                    \/ \E s \in Slots : SocketActivate(s) \/ Drop(s)
                    \/ Cancel \/ BeginValidation \/ EnterCorrection \/ ClearBoard \/ NextQuestion
                    \/ ExitToSetup \/ AskStart \/ Commit
             PROVE  TellInv'
    OBVIOUS
<1>0. /\ Good(circuit) /\ circuit \in Shapes /\ Tells(circuit, circuit)
      /\ hand \in Pieces \cup {NoPiece} /\ drawn.selected \in Pieces \cup {NoPiece}
      BY Unmoved DEF GameInv, CircuitInv, Handled, Good
<1> SUFFICES \E d \in Shapes : Draw(d) /\ Tells(circuit, d)
    BY ClicksTell
<1>1. ASSUME NEW p \in Pieces, TogglePiece(p) PROVE \E d \in Shapes : Draw(d) /\ Tells(circuit, d)
  <2> DEFINE q == IF circuit.selected = p THEN NoPiece ELSE p
  <2>1. [circuit EXCEPT !.selected = q] \in Shapes /\ Tells(circuit, [circuit EXCEPT !.selected = q])
    <3>1. \E s : s \in Slots
          BY CircuitAssumption DEF Slots
    <3> QED
        BY <1>0, <3>1, Handling, Letting DEF Follows, Good
  <2> QED
      BY <1>0, <1>1, <2>1 DEF TogglePiece
<1>2. ASSUME NEW s \in Slots, SocketActivate(s) PROVE \E d \in Shapes : Draw(d) /\ Tells(circuit, d)
  <2>1. CASE drawn.selected # NoPiece /\ Draw(Placed(circuit, drawn.selected, s))
        BY <1>0, <2>1, Placing, Handling DEF Follows, Good
  <2>2. CASE Draw(Lifted(circuit, s))
        BY <1>0, <2>2, Lifting, Handling DEF Follows, Good
  <2> QED
      BY <1>2, <2>1, <2>2 DEF SocketActivate
<1>3. ASSUME NEW s \in Slots, Drop(s) PROVE \E d \in Shapes : Draw(d) /\ Tells(circuit, d)
  <2>1. hand # NoPiece /\ Draw(Placed(circuit, hand, s))
        BY <1>3 DEF Drop
  <2> QED
      BY <1>0, <2>1, Placing, Handling DEF Follows, Good
<1>4. 1 \in Slots
      BY CircuitAssumption DEF Slots
<1>5. CASE Cancel
  <2>1. [circuit EXCEPT !.selected = NoPiece] \in Shapes /\ Tells(circuit, [circuit EXCEPT !.selected = NoPiece])
        BY <1>0, <1>4, Handling, Letting DEF Follows, Good
  <2> QED
      BY <1>5, <2>1 DEF Cancel
<1>6. CASE BeginValidation
  <2>1. Draw(IF circuit.phase # "readyToValidate" THEN circuit ELSE Begun(circuit))
        BY <1>6 DEF BeginValidation, Begun
  <2> QED
      BY <1>0, <2>1, Beginning, Reviewing DEF Follows, Good
<1>7. CASE EnterCorrection
  <2>1. Draw(IF circuit.phase # "failureReview" THEN circuit ELSE Corrected(circuit))
        BY <1>7 DEF EnterCorrection, Corrected, Kept
  <2> QED
      BY <1>0, <2>1, Correcting, Reviewing DEF Follows, Good
<1>8. CASE ClearBoard
  <2>1. (Draw(circuit) \/ Draw(Cleared(circuit))) /\ Touchable
        BY <1>8 DEF ClearBoard, Cleared
  <2> QED
      BY <1>0, <2>1, Behind, Clearing, Reviewing DEF Follows, Good
<1>9. CASE NextQuestion
  <2>1. Draw(Forward(circuit)) /\ Playing /\ drawn.phase = "questionComplete"
        BY <1>9 DEF NextQuestion, Forward, Told
  <2>2. Tells(circuit, Forward(circuit))
        BY <1>0, <2>1, Behind, ForwardTells DEF TellInv
  <2> QED
      BY <1>0, <2>1, <2>2, GoingOn DEF Follows, Good
<1>10. CASE ExitToSetup
  <2>1. Draw(Quit(circuit))
        BY <1>10 DEF ExitToSetup, Quit
  <2> QED
      BY <1>0, <2>1, Leaving, QuitTells DEF Follows, Good
<1>11. CASE AskStart
  <2>1. [circuit EXCEPT !.starting = TRUE] \in Shapes /\ Tells(circuit, [circuit EXCEPT !.starting = TRUE])
        BY <1>0, <1>4, Handling, Starting DEF Follows, Good
  <2> QED
      BY <1>11, <2>1 DEF AskStart
<1>12. CASE Commit
       BY <1>0, <1>12 DEF Commit
<1> QED
    BY <1>1, <1>2, <1>3, <1>5, <1>6, <1>7, <1>8, <1>9, <1>10, <1>11, <1>12

-----------------------------------------------------------------------------
(* The timers and the loads, for the results.                              *)

\* A check that has probed every slot has found right what is right.
LEMMA AllProbed ==
  (CircuitInv /\ TellInv /\ diagnosis.on /\ diagnosis.step = 2 * SlotCount /\ Heeds("validating")
   /\ diagnosis \in Diagnoses)
    => (diagnosis.fits = Slots <=> Cardinality(RightOnes(circuit)) = SlotCount)
<1> SUFFICES ASSUME CircuitInv, TellInv, diagnosis.on, diagnosis.step = 2 * SlotCount,
                    Heeds("validating"), diagnosis \in Diagnoses
             PROVE  diagnosis.fits = Slots <=> Cardinality(RightOnes(circuit)) = SlotCount
    OBVIOUS
<1>1. SlotCount \in Nat /\ \A s \in Slots : 2 * s <= diagnosis.step
      BY CircuitAssumption DEF Slots
<1>2. RightOnes(circuit) = diagnosis.fits
      BY <1>1 DEF TellInv, Probed, RightOnes, Diagnoses
<1>3. IsFiniteSet(Slots) /\ Cardinality(Slots) = SlotCount
      BY <1>1, FS_Interval DEF Slots
<1>4. \A S : S \subseteq Slots /\ Cardinality(S) = Cardinality(Slots) => S = Slots
      BY <1>3, FS_Subset
<1> QED
    BY <1>2, <1>3, <1>4 DEF RightOnes

\* What waits leaves the screen, and the results with everything before them.
LEMMA WaitsTell ==
  (/\ TellInv /\ GameInv /\ drawn' = drawn
   /\ SameTale(circuit, circuit') /\ circuit'.run = circuit.run /\ circuit'.attempts = circuit.attempts
   /\ circuit'.phase = circuit.phase /\ Probed')
    => TellInv'
BY DEF TellInv, ResultsFit, FirstFits, Lagging, SameTale

LEMMA DiagnoseTells == GameInv /\ TellInv /\ Diagnose => TellInv'
<1> SUFFICES ASSUME GameInv, TellInv, Diagnose PROVE TellInv'
    OBVIOUS
<1> DEFINE s    == (diagnosis.step + 2) \div 2
           told == IF diagnosis.step % 2 = 0 THEN "checking"
                   ELSE IF s \in diagnosis.fits THEN "correct" ELSE "wrong"
           v    == [circuit.verdict EXCEPT ![s] = told]
<1>1. /\ circuit \in Shapes /\ circuit.verdict \in [Slots -> Verdicts] /\ diagnosis \in Diagnoses
      /\ diagnosis.step \in Nat /\ diagnosis.step < 2 * SlotCount
      BY DEF GameInv, CircuitInv, Good, Shapes, Handled, Diagnoses, Diagnose
<1>2. /\ drawn' = drawn /\ diagnosis'.on = diagnosis.on /\ diagnosis'.fits = diagnosis.fits
      /\ diagnosis'.step = diagnosis.step + 1
      BY <1>1 DEF Diagnose, Unattended, Diagnoses
<1>3. CASE ~Heeds("validating")
  <2>1. circuit' = circuit /\ ~Heeds("validating")'
        BY <1>2, <1>3 DEF Diagnose, Heeds
  <2> QED
      BY <1>2, <2>1, WaitsTell DEF SameTale, Probed
<1>4. CASE Heeds("validating")
  <2>1. circuit' = [circuit EXCEPT !.verdict = v]
        BY <1>1, <1>4 DEF Diagnose, Probe, Shapes
  <2> HIDE DEF v
  <2>2. /\ SameTale(circuit, circuit') /\ circuit'.run = circuit.run /\ circuit'.verdict = v
        /\ circuit'.attempts = circuit.attempts /\ circuit'.phase = circuit.phase
        BY <1>1, <2>1 DEF SameTale, Shapes
  <2>3. \A t \in Slots : 2 * t <= diagnosis.step + 1 => (v[t] = "correct" <=> t \in diagnosis.fits)
    <3> SUFFICES ASSUME NEW t \in Slots, 2 * t <= diagnosis.step + 1
                 PROVE  v[t] = "correct" <=> t \in diagnosis.fits
        OBVIOUS
    <3>1. t \in Nat /\ s \in Slots
          BY <1>1, CircuitAssumption DEF Slots
    <3>2. CASE t = s
      <4>1. diagnosis.step % 2 # 0
            BY <1>1, <3>1, <3>2
      <4>2. v[t] = told
            BY <1>1, <3>1, <3>2 DEF v
      <4> QED
          BY <3>2, <4>1, <4>2
    <3>3. CASE t # s
      <4>1. 2 * t <= diagnosis.step
            BY <1>1, <3>1, <3>3
      <4>2. v[t] = circuit.verdict[t]
            BY <1>1, <3>1, <3>3 DEF v
      <4>3. diagnosis.on
            BY DEF Diagnose
      <4> QED
          BY <1>4, <4>1, <4>2, <4>3 DEF TellInv, Probed
    <3> QED
        BY <3>2, <3>3
  <2>4. Probed'
        BY <1>2, <2>2, <2>3 DEF Probed
  <2> QED
      BY <1>2, <2>2, <2>4, WaitsTell
<1> QED
    BY <1>3, <1>4

LEMMA FinishTells == GameInv /\ TellInv /\ ValidationFinished => TellInv'
<1> SUFFICES ASSUME GameInv, TellInv, ValidationFinished PROVE TellInv'
    OBVIOUS
<1>1. circuit \in Shapes /\ circuit.attempts \in Nat /\ diagnosis \in Diagnoses /\ CircuitInv
      /\ drawn' = drawn /\ diagnosis.on /\ diagnosis.step = 2 * SlotCount
      BY DEF GameInv, CircuitInv, Good, Shapes, Handled, ValidationFinished, Unattended
<1>2. CASE ~Heeds("validating")
  <2>1. circuit' = circuit /\ ~Heeds("validating")'
        BY <1>1, <1>2 DEF ValidationFinished, Heeds
  <2> QED
      BY <1>1, <2>1, WaitsTell DEF SameTale, Probed
<1>3. CASE Heeds("validating")
  <2> DEFINE all == diagnosis.fits = Slots
             n   == IF circuit.attempts = 1 THEN Cardinality(RightOnes(circuit)) ELSE circuit.first
             ph  == IF diagnosis.fits = Slots THEN "successCurrent" ELSE "failureSequence"
  <2>1. circuit' = [circuit EXCEPT !.phase = ph, !.first = n]
        BY <1>1, <1>3 DEF ValidationFinished, Shapes
  <2>2. circuit.attempts = 1 => (all <=> n = SlotCount)
        BY <1>1, <1>3, AllProbed
  <2>3. circuit.attempts # 1 => n = circuit.first
        OBVIOUS
  <2>4. ph = (IF all THEN "successCurrent" ELSE "failureSequence")
        OBVIOUS
  <2> HIDE DEF all, n, ph
  <2>5. /\ circuit'.phase = ph /\ circuit'.first = n /\ circuit'.attempts = circuit.attempts
        /\ circuit'.run = circuit.run /\ circuit'.screen = circuit.screen
        /\ circuit'.quiz = circuit.quiz /\ circuit'.index = circuit.index
        /\ circuit'.results = circuit.results
        BY <1>1, <2>1 DEF Shapes
  <2>6. ResultsFit(circuit')
        BY <2>5 DEF TellInv, ResultsFit
  <2>7. FirstFits(circuit')
        BY <1>1, <2>2, <2>3, <2>4, <2>5 DEF TellInv, FirstFits, Lit
  <2>8. Lagging'
        BY <1>1, <1>3, <2>5 DEF TellInv, Lagging, Heeds
  <2>9. Probed'
        BY <2>4, <2>5 DEF Probed, Heeds
  <2> QED
      BY <2>6, <2>7, <2>8, <2>9 DEF TellInv
<1> QED
    BY <1>2, <1>3

LEMMA PhasesTell == GameInv /\ TellInv /\ (FailureSequenceDone \/ RewardDone) => TellInv'
<1> SUFFICES ASSUME GameInv, TellInv, FailureSequenceDone \/ RewardDone PROVE TellInv'
    OBVIOUS
<1>1. circuit \in Shapes /\ drawn' = drawn /\ diagnosis' = diagnosis
      BY DEF GameInv, CircuitInv, Good, FailureSequenceDone, RewardDone, Unattended
<1>2. CASE circuit' = circuit
      BY <1>1, <1>2, WaitsTell DEF SameTale, TellInv, Probed, Heeds
<1>3. ASSUME NEW ph \in {"failureReview", "questionComplete"}, circuit' = Reached(circuit, ph),
             Heeds(IF ph = "failureReview" THEN "failureSequence" ELSE "successCurrent")
      PROVE  TellInv'
  <2>1. /\ SameTale(circuit, circuit') /\ circuit'.run = circuit.run
        /\ circuit'.attempts = circuit.attempts /\ circuit'.phase = ph
        BY <1>1, <1>3 DEF Reached, SameTale, Shapes
  <2>2. ResultsFit(circuit')
        BY <2>1 DEF TellInv, ResultsFit, SameTale
  <2>3. FirstFits(circuit')
        BY <1>3, <2>1 DEF TellInv, FirstFits, SameTale, Lit, Heeds
  <2>4. Lagging'
        BY <1>1, <1>3, <2>1 DEF TellInv, Lagging, SameTale, Heeds
  <2>5. Probed'
        BY <1>3, <2>1 DEF Probed, Heeds
  <2> QED
      BY <2>2, <2>3, <2>4, <2>5 DEF TellInv
<1>4. \/ circuit' = circuit
      \/ Heeds("failureSequence") /\ circuit' = Reached(circuit, "failureReview")
      \/ Heeds("successCurrent") /\ circuit' = Reached(circuit, "questionComplete")
      BY DEF FailureSequenceDone, RewardDone, Reached
<1>5. CASE Heeds("failureSequence") /\ circuit' = Reached(circuit, "failureReview")
      BY <1>3, <1>5
<1>6. CASE Heeds("successCurrent") /\ circuit' = Reached(circuit, "questionComplete")
      BY <1>3, <1>6
<1> QED
    BY <1>2, <1>4, <1>5, <1>6

LEMMA LandTells == GameInv /\ TellInv /\ (\E quiz \in Sessions : Land(quiz)) => TellInv'
<1> SUFFICES ASSUME GameInv, TellInv, NEW quiz \in Sessions, Land(quiz) PROVE TellInv'
    OBVIOUS
<1>1. circuit \in Shapes /\ circuit.run \in Nat /\ drawn.run \in Nat /\ drawn.run <= circuit.run
      /\ drawn' = drawn
      BY DEF GameInv, CircuitInv, Good, Checked, Shapes, Land, Unattended
<1>2. /\ circuit'.screen = "playing" /\ circuit'.phase = "arranging" /\ circuit'.attempts = 0
      /\ circuit'.results = <<>> /\ circuit'.index = 1 /\ circuit'.run = circuit.run + 1
      BY <1>1 DEF Land, Fresh, Shapes
<1>3. ResultsFit(circuit')
      BY <1>2 DEF ResultsFit
<1>4. FirstFits(circuit') /\ Probed'
      BY <1>2 DEF FirstFits, Probed, Heeds
<1>5. Lagging'
      BY <1>1, <1>2 DEF Lagging
<1> QED
    BY <1>3, <1>4, <1>5 DEF TellInv

LEMMA OthersTell ==
  GameInv /\ TellInv
  /\ (\/ \E p \in Pieces : PickUp(p)
      \/ LandFails \/ Pop \/ LeadInDone \/ TravelDone \/ LooksChange \/ UNCHANGED circuitVars)
    => TellInv'
<1> SUFFICES ASSUME GameInv, TellInv,
                    \/ \E p \in Pieces : PickUp(p)
                    \/ LandFails \/ Pop \/ LeadInDone \/ TravelDone \/ LooksChange
                    \/ UNCHANGED circuitVars
             PROVE  TellInv'
    OBVIOUS
<1>1. circuit \in Shapes /\ diagnosis \in Diagnoses
      BY DEF GameInv, CircuitInv, Good, Handled
<1>2. CASE LandFails
  <2>1. /\ SameTale(circuit, circuit') /\ circuit'.run = circuit.run /\ circuit'.verdict = circuit.verdict
        /\ circuit'.attempts = circuit.attempts /\ circuit'.phase = circuit.phase
        /\ drawn' = drawn /\ diagnosis' = diagnosis
        BY <1>1, <1>2 DEF LandFails, Unattended, SameTale, Shapes
  <2>2. Probed'
        BY <2>1 DEF TellInv, Probed, Heeds
  <2> QED
      BY <2>1, <2>2, WaitsTell
<1>3. CASE LooksChange
  <2>1. circuit' = circuit /\ drawn' = drawn
        BY <1>3 DEF LooksChange
  <2>2. diagnosis'.on => diagnosis'.step = 0
        BY <1>1, <1>3 DEF LooksChange, Diagnoses
  <2>3. Probed'
        BY <2>2, CircuitAssumption DEF Probed, Slots
  <2> QED
      BY <2>1, <2>3, WaitsTell DEF SameTale
<1>4. CASE \/ \E p \in Pieces : PickUp(p)
           \/ Pop \/ LeadInDone \/ TravelDone \/ UNCHANGED circuitVars
  <2>1. circuit' = circuit /\ drawn' = drawn /\ diagnosis' = diagnosis
        BY <1>4 DEF PickUp, Pop, LeadInDone, TravelDone, circuitVars, Unattended
  <2> QED
      BY <2>1 DEF TellInv, Lagging, Probed, Heeds
<1> QED
    BY <1>2, <1>3, <1>4

LEMMA GameTells == CircuitSpec => []TellInv
<1>1. CircuitInit => TellInv
  <2> SUFFICES ASSUME CircuitInit PROVE TellInv
      OBVIOUS
  <2>1. circuit = InitialCircuit /\ drawn = circuit /\ ~diagnosis.on
        BY DEF CircuitInit, NoDiagnosis
  <2>2. /\ circuit.screen = "setup" /\ circuit.attempts = 0 /\ circuit.results = <<>>
        BY <2>1 DEF InitialCircuit
  <2>3. DOMAIN circuit.results = {}
        BY <2>2
  <2> QED
      BY <2>1, <2>2, <2>3 DEF TellInv, ResultsFit, FirstFits, Lagging, Probed
<1>2. GameInv /\ TellInv /\ [CircuitNext]_circuitVars => TellInv'
      BY PlayerTells, DiagnoseTells, FinishTells, PhasesTell, LandTells, OthersTell
      DEF CircuitNext, Timers
<1> QED
    BY <1>1, <1>2, Invariance, PTL DEF CircuitSpec

\* Every question left forwards has one result, and a result of one attempt
\* is that of a question whose first check found every slot right.
THEOREM ResultsTellTheGame == CircuitSpec => []ResultsTell
<1>1. GameInv /\ TellInv => ResultsTell
  <2> SUFFICES ASSUME GameInv, TellInv PROVE ResultsTell
      OBVIOUS
  <2>1. circuit.results \in Seq(Outcomes) /\ circuit.index \in Nat
        BY DEF GameInv, CircuitInv, Good, Shapes
  <2> QED
      BY <2>1 DEF TellInv, ResultsFit, ResultsTell, OneMeansAll
<1> QED
    BY <1>1, Invariance, GameTells, PTL

-----------------------------------------------------------------------------
(* The bounds: what the numbers of a game can grow to.                     *)

Tallies == [attempts : 0..MaxRun, first : 0..SlotCount]

InBounds(c) ==
    /\ c.run <= MaxRun /\ c.attempts <= c.run
    /\ c.index <= SessionLength /\ c.first <= Unasked
    /\ c.results \in Seq(Tallies)

SameNumbers(c, d) ==
    /\ d.run = c.run /\ d.attempts = c.attempts /\ d.index = c.index
    /\ d.first = c.first /\ d.results = c.results

\* Leads, travels and rewards that are under way.
Lights == [lead : BOOLEAN, travel : BOOLEAN, rewards : Nat]
Bit(b) == IF b THEN 1 ELSE 0
Lamps(l) == Bit(l.lead) + Bit(l.travel) + l.rewards

\* A lamp that is on the screen is not put out without a new run.
Onward(d) ==
    d.run = drawn.run =>
        /\ drawn.phase = "successCurrent" => Lit(d.phase)
        /\ drawn.phase = "questionComplete" => d.phase = "questionComplete"

\* The current is led in once for every run, and again when the looks change.
BoundInv ==
    /\ InBounds(circuit) /\ InBounds(drawn) /\ drawn \in Shapes
    /\ loads \in 0..MaxLoads /\ looks \in 0..MaxLooks /\ fizzle \in 0..2
    /\ diagnosis.step <= 2 * SlotCount + 1
    /\ light \in Lights /\ Lamps(light) <= looks + 1
    /\ ~Lit(drawn.phase) => light = Dark
    /\ Onward(circuit)

LEMMA BoundedStates == \A c \in Shapes : InBounds(c) => c \in CircuitStates
<1> SUFFICES ASSUME NEW c \in Shapes, InBounds(c) PROVE c \in CircuitStates
    OBVIOUS
<1>1. c.run \in 0..MaxRun /\ c.attempts \in 0..MaxRun /\ c.index \in 1..SessionLength
      /\ c.first \in 0..Unasked /\ c.results \in Seq(Tallies)
      BY CircuitAssumption DEF Shapes, InBounds, Unasked
<1> QED
    BY <1>1 DEF Shapes, CircuitStates, Tallies

LEMMA StaysInBounds == \A c, d : InBounds(c) /\ SameNumbers(c, d) => InBounds(d)
BY DEF InBounds, SameNumbers

LEMMA HandlingCounts ==
  \A c \in Shapes : \A s \in Slots : \A p :
    /\ SameNumbers(c, Placed(c, p, s)) /\ SameNumbers(c, Lifted(c, s))
    /\ SameNumbers(c, [c EXCEPT !.selected = p]) /\ SameNumbers(c, [c EXCEPT !.starting = p])
    /\ SameNumbers(c, Corrected(c)) /\ SameNumbers(c, Cleared(c)) /\ SameNumbers(c, Reached(c, p))
<1> SUFFICES ASSUME NEW c \in Shapes, NEW s \in Slots, NEW p
             PROVE  /\ SameNumbers(c, Placed(c, p, s)) /\ SameNumbers(c, Lifted(c, s))
                    /\ SameNumbers(c, [c EXCEPT !.selected = p])
                    /\ SameNumbers(c, [c EXCEPT !.starting = p])
                    /\ SameNumbers(c, Corrected(c)) /\ SameNumbers(c, Cleared(c))
                    /\ SameNumbers(c, Reached(c, p))
    OBVIOUS
<1>1. SameNumbers(c, Placed(c, p, s))
      BY DEF SameNumbers, Placed, Shapes
<1>2. SameNumbers(c, Lifted(c, s))
      BY DEF SameNumbers, Lifted, Shapes
<1>3. SameNumbers(c, Corrected(c)) /\ SameNumbers(c, Cleared(c)) /\ SameNumbers(c, Reached(c, p))
      BY DEF SameNumbers, Corrected, Cleared, Reached, Shapes
<1>4. SameNumbers(c, [c EXCEPT !.selected = p]) /\ SameNumbers(c, [c EXCEPT !.starting = p])
      BY DEF SameNumbers, Shapes
<1> QED
    BY <1>1, <1>2, <1>3, <1>4

LEMMA BegunCounts ==
  \A c \in Shapes : InBounds(c) /\ c.run < MaxRun => InBounds(Begun(c)) /\ Begun(c).run = c.run + 1
<1> SUFFICES ASSUME NEW c \in Shapes, InBounds(c), c.run < MaxRun
             PROVE  InBounds(Begun(c)) /\ Begun(c).run = c.run + 1
    OBVIOUS
<1>1. /\ Begun(c).run = c.run + 1 /\ Begun(c).attempts = c.attempts + 1
      /\ Begun(c).index = c.index /\ Begun(c).first = c.first /\ Begun(c).results = c.results
      BY DEF Begun, Shapes
<1>2. c.run \in Nat /\ c.attempts \in Nat /\ MaxRun \in Nat
      BY CircuitAssumption DEF Shapes
<1> QED
    BY <1>1, <1>2 DEF InBounds

LEMMA FreshCounts ==
  \A c \in Shapes : \A i \in 1..SessionLength :
    InBounds(c) /\ c.run < MaxRun =>
        /\ InBounds(Fresh(c, i)) /\ Fresh(c, i).run = c.run + 1
        /\ Fresh(c, i).phase = "arranging"
<1> SUFFICES ASSUME NEW c \in Shapes, NEW i \in 1..SessionLength, InBounds(c), c.run < MaxRun
             PROVE  InBounds(Fresh(c, i)) /\ Fresh(c, i).run = c.run + 1
                    /\ Fresh(c, i).phase = "arranging"
    OBVIOUS
<1>1. /\ Fresh(c, i).run = c.run + 1 /\ Fresh(c, i).attempts = 0 /\ Fresh(c, i).index = i
      /\ Fresh(c, i).first = Unasked /\ Fresh(c, i).results = c.results
      /\ Fresh(c, i).phase = "arranging"
      BY DEF Fresh, Shapes
<1>2. c.run \in Nat /\ MaxRun \in Nat /\ Unasked \in Nat
      BY CircuitAssumption DEF Shapes, Unasked
<1> QED
    BY <1>1, <1>2, CircuitAssumption DEF InBounds

\* NEXT_QUESTION tells what was counted, and there are no more questions than that.
LEMMA ForwardCounts ==
  \A c : Good(c) /\ InBounds(c) /\ c.screen = "playing" /\ c.run < MaxRun
         => InBounds(Forward(c)) /\ Forward(c).run = c.run + 1
<1> SUFFICES ASSUME NEW c, Good(c), InBounds(c), c.screen = "playing", c.run < MaxRun
             PROVE  InBounds(Forward(c)) /\ Forward(c).run = c.run + 1
    OBVIOUS
<1> DEFINE t == Told(c)
<1>1. c \in Shapes /\ c.quiz \in Sessions /\ c.index \in DOMAIN c.quiz /\ c.index \in Nat \ {0}
      BY DEF Good, InQuiz, Shapes
<1>2. Len(c.quiz) \in Nat /\ Len(c.quiz) <= SessionLength
  <2>1. PICK n \in 1..SessionLength : c.quiz \in [1..n -> Pool]
        BY <1>1 DEF Sessions
  <2>2. n \in Nat /\ c.quiz \in Seq(Pool) /\ Len(c.quiz) = n
        BY <2>1, CircuitAssumption
  <2> QED
      BY <2>1, <2>2
<1>3. t \in Shapes /\ t.run = c.run /\ t.index = c.index /\ t.quiz = c.quiz
      BY <1>1, Telling
<1>4. Result(c) \in Tallies
  <2>1. c.attempts \in Nat /\ c.first \in Nat /\ c.run \in Nat
        BY <1>1 DEF Shapes
  <2>2. c.attempts \in 0..MaxRun
        BY <2>1, CircuitAssumption DEF InBounds
  <2>3. (IF c.first = Unasked THEN 0 ELSE c.first) \in 0..SlotCount
        BY <2>1, CircuitAssumption DEF InBounds, Unasked
  <2> QED
      BY <2>2, <2>3 DEF Result, Tallies
<1>5. InBounds(t)
  <2>1. t.results = Append(c.results, Result(c)) /\ t.attempts = c.attempts /\ t.first = c.first
        BY <1>1 DEF Told, Shapes
  <2>2. Append(c.results, Result(c)) \in Seq(Tallies)
        BY <1>4 DEF InBounds
  <2> QED
      BY <1>3, <2>1, <2>2 DEF InBounds
<1> HIDE DEF t
<1>6. CASE c.index >= Len(c.quiz)
  <2> DEFINE f == Fresh(t, c.index)
             d == [f EXCEPT !.screen = "results"]
  <2>1. c.index \in 1..SessionLength
        BY <1>1, CircuitAssumption DEF InBounds
  <2>2. InBounds(f) /\ f.run = c.run + 1
        BY <1>3, <1>5, <2>1, FreshCounts
  <2>3. f \in Shapes
        BY <1>1, <1>3, FreshOnes
  <2> HIDE DEF f
  <2>4. SameNumbers(f, d)
        BY <2>3 DEF SameNumbers, Shapes
  <2>5. Forward(c) = d
        BY <1>6 DEF Forward, d, f, t
  <2> HIDE DEF d
  <2> QED
      BY <2>2, <2>4, <2>5, StaysInBounds DEF SameNumbers
<1>7. CASE ~(c.index >= Len(c.quiz))
  <2>1. c.index + 1 \in 1..SessionLength
        BY <1>1, <1>2, <1>7, CircuitAssumption
  <2>2. InBounds(Fresh(t, c.index + 1)) /\ Fresh(t, c.index + 1).run = c.run + 1
        BY <1>3, <1>5, <2>1, FreshCounts
  <2> QED
      BY <1>7, <2>2 DEF Forward, t
<1> QED
    BY <1>6, <1>7

LEMMA LeavingCounts ==
  \A c \in Shapes : \A quiz :
    InBounds(c) /\ c.run < MaxRun =>
      /\ InBounds(Quit(c)) /\ Quit(c).run = c.run + 1
      /\ InBounds(Landed(c, quiz)) /\ Landed(c, quiz).run = c.run + 1
<1> SUFFICES ASSUME NEW c \in Shapes, NEW quiz, InBounds(c), c.run < MaxRun
             PROVE  /\ InBounds(Quit(c)) /\ Quit(c).run = c.run + 1
                    /\ InBounds(Landed(c, quiz)) /\ Landed(c, quiz).run = c.run + 1
    OBVIOUS
<1> DEFINE f == Fresh(c, 1)
<1>1. 1 \in 1..SessionLength
      BY CircuitAssumption
<1>2. InBounds(f) /\ f.run = c.run + 1
      BY <1>1, FreshCounts
<1>3. f \in Shapes
      BY FreshOnes
<1>4. <<>> \in Seq(Tallies)
      OBVIOUS
<1> DEFINE q == [f EXCEPT !.screen = "setup", !.quiz = <<>>, !.results = <<>>]
           l == [f EXCEPT !.screen = "playing", !.starting = FALSE, !.quiz = quiz, !.results = <<>>]
<1>5. Quit(c) = q /\ Landed(c, quiz) = l
      BY DEF Quit, Landed
<1> HIDE DEF f
<1>6. /\ q.run = f.run /\ q.attempts = f.attempts /\ q.index = f.index /\ q.first = f.first
      /\ q.results = <<>>
      BY <1>3 DEF Shapes
<1>7. /\ l.run = f.run /\ l.attempts = f.attempts /\ l.index = f.index /\ l.first = f.first
      /\ l.results = <<>>
      BY <1>3 DEF Shapes
<1> HIDE DEF q, l
<1> QED
    BY <1>2, <1>4, <1>5, <1>6, <1>7 DEF InBounds

LEMMA FinishedCounts ==
  \A c \in Shapes : InBounds(c) => InBounds(Finished(c)) /\ Finished(c).run = c.run
<1> SUFFICES ASSUME NEW c \in Shapes, InBounds(c)
             PROVE  InBounds(Finished(c)) /\ Finished(c).run = c.run
    OBVIOUS
<1> DEFINE n == Cardinality(RightOnes(c))
<1>1. n \in Nat /\ n <= SlotCount
  <2>1. IsFiniteSet(Slots) /\ Cardinality(Slots) = SlotCount
        BY CircuitAssumption, FS_Interval DEF Slots
  <2>2. RightOnes(c) \subseteq Slots
        BY DEF RightOnes
  <2> QED
      BY <2>1, <2>2, FS_Subset, Counting
<1> HIDE DEF n
<1>2. /\ Finished(c).run = c.run /\ Finished(c).attempts = c.attempts
      /\ Finished(c).index = c.index /\ Finished(c).results = c.results
      /\ Finished(c).first \in {n, c.first}
      BY DEF Finished, Shapes, n
<1>3. Finished(c).first <= Unasked
      BY <1>1, <1>2, CircuitAssumption DEF InBounds, Unasked
<1> QED
    BY <1>2, <1>3 DEF InBounds

-----------------------------------------------------------------------------
(* The lamp, for the bounds.                                               *)

LEMMA NumberTypes ==
  ASSUME GameInv, BoundInv
  PROVE  /\ Good(circuit) /\ circuit \in Shapes /\ circuit.run \in Nat
         /\ drawn.run \in Nat /\ drawn.run <= circuit.run /\ looks \in Nat
         /\ loads \in Nat /\ MaxLoads \in Nat /\ MaxLooks \in Nat
         /\ diagnosis \in Diagnoses /\ diagnosis.step \in Nat /\ SlotCount \in Nat
BY CircuitAssumption DEF GameInv, CircuitInv, Good, Shapes, Checked, Handled, Diagnoses, BoundInv

\* What the player does while the lamp is dark, or in a new run, puts out nothing.
LEMMA GoesOnward ==
  ASSUME GameInv, BoundInv, NEW d
  PROVE  /\ ~Lit(drawn.phase) => Onward(d)
         /\ d.run = circuit.run + 1 => Onward(d)
         /\ d.run = circuit.run /\ d.phase = circuit.phase => Onward(d)
         /\ d.run = circuit.run /\ ~Lit(circuit.phase) => Onward(d)
<1>1. Onward(circuit)
      BY DEF BoundInv
<1> QED
    BY <1>1, NumberTypes DEF Onward, Lit

LEMMA Bits ==
  /\ Bit(TRUE) = 1 /\ Bit(FALSE) = 0
  /\ \A b \in BOOLEAN : Bit(b) \in {0, 1}
  /\ \A b, e \in BOOLEAN : Bit(b /\ e) <= Bit(b)
<1>1. Bit(TRUE) = 1 /\ Bit(FALSE) = 0
      BY DEF Bit
<1>2. ASSUME NEW b \in BOOLEAN PROVE Bit(b) \in {0, 1}
  <2>1. CASE b
        BY <2>1 DEF Bit
  <2>2. CASE ~b
        BY <2>2 DEF Bit
  <2> QED
      BY <2>1, <2>2
<1>3. ASSUME NEW b \in BOOLEAN, NEW e \in BOOLEAN PROVE Bit(b /\ e) <= Bit(b)
  <2>1. CASE b /\ e
        BY <2>1 DEF Bit
  <2>2. CASE ~(b /\ e)
    <3>1. Bit(b /\ e) = 0
          BY <2>2 DEF Bit
    <3> QED
        BY <1>2, <3>1
  <2> QED
      BY <2>1, <2>2
<1> QED
    BY <1>1, <1>2, <1>3

LEMMA CountedLamps ==
  ASSUME NEW l \in Lights
  PROVE  /\ l.lead \in BOOLEAN /\ l.travel \in BOOLEAN /\ l.rewards \in Nat
         /\ Bit(l.lead) \in {0, 1} /\ Bit(l.travel) \in {0, 1} /\ Lamps(l) \in Nat
<1>1. l.lead \in BOOLEAN /\ l.travel \in BOOLEAN /\ l.rewards \in Nat
      BY DEF Lights
<1>2. Bit(l.lead) \in {0, 1} /\ Bit(l.travel) \in {0, 1}
      BY <1>1, Bits
<1> QED
    BY <1>1, <1>2 DEF Lamps

LEMMA DarkLamps == Dark \in Lights /\ Lamps(Dark) = 0 /\ [Dark EXCEPT !.lead = TRUE] \in Lights
                   /\ Lamps([Dark EXCEPT !.lead = TRUE]) = 1
<1> DEFINE m == [Dark EXCEPT !.lead = TRUE]
<1>1. Dark \in Lights /\ m \in Lights
      BY DEF Dark, Lights
<1>2. /\ ~Dark.lead /\ ~Dark.travel /\ Dark.rewards = 0
      /\ m.lead /\ ~m.travel /\ m.rewards = 0
      BY DEF Dark
<1> HIDE DEF m
<1>3. Bit(Dark.lead) = 0 /\ Bit(Dark.travel) = 0 /\ Bit(m.lead) = 1 /\ Bit(m.travel) = 0
      BY <1>2 DEF Bit
<1>4. Dark.rewards = 0 /\ m.rewards = 0
      BY <1>2
<1>5. Lamps(Dark) = 0 /\ Lamps(m) = 1
      BY <1>3, <1>4 DEF Lamps
<1> QED
    BY <1>1, <1>5 DEF m

LEMMA LessLight ==
  ASSUME NEW l \in Lights, NEW b \in BOOLEAN
  PROVE  LET m == [l EXCEPT !.lead = @ /\ b]
         IN  /\ m \in Lights /\ Lamps(m) <= Lamps(l)
             /\ l = Dark => m = Dark
             /\ Lamps(l) \in Nat /\ Lamps(m) \in Nat
<1> DEFINE e == l.lead /\ b
           m == [l EXCEPT !.lead = e]
<1>1. l.lead \in BOOLEAN /\ l.travel \in BOOLEAN /\ l.rewards \in Nat /\ e \in BOOLEAN
      BY CountedLamps
<1>2. Bit(e) <= Bit(l.lead)
      BY <1>1, Bits
<1>3. ASSUME l = Dark PROVE m = l
  <2>1. ~l.lead /\ l.lead \in BOOLEAN
        BY <1>3 DEF Dark
  <2>2. ~e
        BY <2>1
  <2> HIDE DEF e
  <2>3. e = l.lead
        BY <1>1, <2>1, <2>2
  <2> QED
      BY <2>3 DEF Lights
<1> HIDE DEF e
<1>4. m.lead = e /\ m.travel = l.travel /\ m.rewards = l.rewards /\ m \in Lights
      BY <1>1 DEF Lights
<1> HIDE DEF m
<1>5. Bit(m.lead) = Bit(e) /\ Bit(m.travel) = Bit(l.travel)
      BY <1>4
<1>6. Bit(m.lead) \in {0, 1} /\ Bit(l.lead) \in {0, 1} /\ Bit(l.travel) \in {0, 1}
      /\ Lamps(l) \in Nat /\ Lamps(m) \in Nat
      BY <1>4, CountedLamps
<1>7. Lamps(m) <= Lamps(l)
      BY <1>1, <1>2, <1>4, <1>5, <1>6 DEF Lamps
<1> QED
    BY <1>3, <1>4, <1>6, <1>7 DEF m, e

LEMMA ShownInBounds ==
  ASSUME GameInv, BoundInv, NEW d \in Shapes, Draw(d), InBounds(d), Onward(d),
         loads' \in 0..MaxLoads, looks' = looks
  PROVE  BoundInv'
<1>1. circuit' = d /\ drawn' = d
      BY DEF Draw
<1>2. Onward(circuit)'
      BY <1>1 DEF Onward, Lit
<1>3. light' \in Lights /\ Lamps(light') <= looks + 1 /\ (~Lit(d.phase) => light' = Dark)
  <2>0. light \in Lights /\ Lamps(light) <= looks + 1 /\ (~Lit(drawn.phase) => light = Dark)
        /\ looks \in Nat
        BY NumberTypes DEF BoundInv
  <2>1. CASE d.run # drawn.run
    <3>1. light' = Dark
          BY <2>1 DEF Draw
    <3> QED
        BY <2>0, <3>1, DarkLamps
  <2>2. CASE d.run = drawn.run /\ d.phase = "successCurrent" /\ ~SameEffect(d)
    <3>1. light' = [light EXCEPT !.lead = TRUE]
          BY <2>2 DEF Draw
    <3>2. drawn.phase # "successCurrent" /\ drawn.phase # "questionComplete"
          BY <2>2 DEF SameEffect, Onward
    <3>3. light = Dark
          BY <2>0, <3>2 DEF Lit
    <3>4. Lit(d.phase)
          BY <2>2 DEF Lit
    <3> QED
        BY <2>0, <3>1, <3>3, <3>4, DarkLamps
  <2>3. CASE d.run = drawn.run /\ ~(d.phase = "successCurrent" /\ ~SameEffect(d))
    <3> DEFINE same == SameEffect(d)
               m == [light EXCEPT !.lead = @ /\ same]
    <3>1. light' = m
          BY <2>3 DEF Draw
    <3>2. same \in BOOLEAN
          BY DEF SameEffect
    <3>3. same => d.phase = drawn.phase
          BY DEF SameEffect
    <3>4. Lit(drawn.phase) => Lit(d.phase)
          BY <2>3 DEF Onward, Lit
    <3> HIDE DEF same
    <3>5. /\ m \in Lights /\ Lamps(m) <= Lamps(light) /\ (light = Dark => m = Dark)
          /\ Lamps(light) \in Nat /\ Lamps(m) \in Nat
          BY <2>0, <3>2, LessLight
    <3> HIDE DEF m
    <3> QED
        BY <2>0, <3>1, <3>4, <3>5
  <2> QED
      BY <2>1, <2>2, <2>3
<1>4. diagnosis'.step <= 2 * SlotCount + 1
  <2>1. diagnosis' \in {NoDiagnosis, diagnosis, [on |-> TRUE, step |-> 0, fits |-> Verified(d)]}
        BY DEF Draw
  <2>2. diagnosis'.step = 0 \/ diagnosis'.step = diagnosis.step
        BY <2>1 DEF NoDiagnosis
  <2>3. diagnosis.step <= 2 * SlotCount + 1 /\ SlotCount \in Nat
        BY CircuitAssumption DEF BoundInv
  <2> QED
      BY <2>2, <2>3
<1>5. fizzle' \in 0..2
      BY DEF Draw, BoundInv
<1> QED
    BY <1>1, <1>2, <1>3, <1>4, <1>5 DEF BoundInv

LEMMA PlayerInBounds ==
  GameInv /\ TellInv /\ BoundInv
  /\ (\/ \E p \in Pieces : TogglePiece(p)
      \/ \E s \in Slots : SocketActivate(s) \/ Drop(s)
      \/ Cancel \/ BeginValidation \/ EnterCorrection \/ ClearBoard \/ NextQuestion
      \/ ExitToSetup \/ AskStart \/ Commit)
    => BoundInv'
<1> SUFFICES ASSUME GameInv, TellInv, BoundInv,
                    \/ \E p \in Pieces : TogglePiece(p)
                    \/ \E s \in Slots : SocketActivate(s) \/ Drop(s)
                    \/ Cancel \/ BeginValidation \/ EnterCorrection \/ ClearBoard \/ NextQuestion
                    \/ ExitToSetup \/ AskStart \/ Commit
             PROVE  BoundInv'
    OBVIOUS
<1> DEFINE Fine(d) == d \in Shapes /\ Draw(d) /\ InBounds(d) /\ Onward(d)
<1>0. /\ Good(circuit) /\ circuit \in Shapes /\ InBounds(circuit) /\ Onward(circuit)
      /\ hand \in Pieces \cup {NoPiece} /\ drawn.selected \in Pieces \cup {NoPiece}
      BY NumberTypes DEF GameInv, Handled, BoundInv
<1>1. loads' \in 0..MaxLoads /\ looks' = looks
  <2>1. looks' = looks /\ (loads' = loads \/ (loads < MaxLoads /\ loads' = loads + 1))
        BY DEF TogglePiece, SocketActivate, Drop, Cancel, BeginValidation, EnterCorrection,
               ClearBoard, NextQuestion, ExitToSetup, AskStart, Commit
  <2>2. loads \in 0..MaxLoads /\ MaxLoads \in Nat
        BY CircuitAssumption DEF BoundInv
  <2> QED
      BY <2>1, <2>2
<1> SUFFICES \E d : Fine(d)
    BY <1>1, ShownInBounds
<1>2. /\ Touchable => ~Lit(drawn.phase)
      /\ \A c \in Shapes : \A p, s : IsArrangeable(c.phase) \/ Placed(c, p, s) = c
      BY DEF Touchable, IsArrangeable, Lit, Placed
<1>3. \A d : d \in Shapes /\ Draw(d) /\ SameNumbers(circuit, d) /\ Onward(d) => Fine(d)
      BY <1>0, StaysInBounds
<1>4. 1 \in Slots
      BY CircuitAssumption DEF Slots
<1>5. ASSUME NEW p \in Pieces, TogglePiece(p) PROVE \E d : Fine(d)
  <2> DEFINE q == IF circuit.selected = p THEN NoPiece ELSE p
             d == [circuit EXCEPT !.selected = q]
  <2>1. Draw(circuit) \/ Draw(d)
        BY <1>5 DEF TogglePiece
  <2>2. d \in Shapes
        BY <1>0, Letting DEF Follows, Good
  <2>3. SameNumbers(circuit, d) /\ SameNumbers(circuit, circuit)
        BY <1>0, <1>4, HandlingCounts DEF SameNumbers
  <2> HIDE DEF d
  <2>4. Onward(d)
        BY <1>2, <1>5, GoesOnward DEF TogglePiece
  <2> QED
      BY <1>0, <1>3, <2>1, <2>2, <2>3, <2>4
<1>6. ASSUME NEW s \in Slots, SocketActivate(s) PROVE \E d : Fine(d)
  <2>1. ~Lit(drawn.phase)
        BY <1>2, <1>6 DEF SocketActivate
  <2>2. CASE drawn.selected # NoPiece /\ Draw(Placed(circuit, drawn.selected, s))
    <3>1. Placed(circuit, drawn.selected, s) \in Shapes
          BY <1>0, <2>2, Placing DEF Follows, Good
    <3>2. SameNumbers(circuit, Placed(circuit, drawn.selected, s))
          BY <1>0, HandlingCounts
    <3> QED
        BY <1>3, <2>1, <2>2, <3>1, <3>2, GoesOnward
  <2>3. CASE Draw(Lifted(circuit, s))
    <3>1. Lifted(circuit, s) \in Shapes
          BY <1>0, Lifting DEF Follows, Good
    <3>2. SameNumbers(circuit, Lifted(circuit, s))
          BY <1>0, HandlingCounts
    <3> QED
        BY <1>3, <2>1, <2>3, <3>1, <3>2, GoesOnward
  <2> QED
      BY <1>6, <2>2, <2>3 DEF SocketActivate
<1>7. ASSUME NEW s \in Slots, Drop(s) PROVE \E d : Fine(d)
  <2> DEFINE d == Placed(circuit, hand, s)
  <2>1. hand \in Pieces /\ Draw(d)
        BY <1>0, <1>7 DEF Drop
  <2>2. d \in Shapes
        BY <1>0, <2>1, Placing DEF Follows, Good
  <2>3. SameNumbers(circuit, d)
        BY <1>0, HandlingCounts
  <2>4. d = circuit \/ ~Lit(circuit.phase)
        BY <1>0, <1>2 DEF IsArrangeable, Lit
  <2> HIDE DEF d
  <2>5. Onward(d)
        BY <1>0, <2>3, <2>4, GoesOnward DEF SameNumbers
  <2> QED
      BY <1>3, <2>1, <2>2, <2>3, <2>5
<1>8. CASE Cancel
  <2> DEFINE d == [circuit EXCEPT !.selected = NoPiece]
  <2>1. Draw(d)
        BY <1>8 DEF Cancel
  <2>2. d \in Shapes
        BY <1>0, Letting DEF Follows, Good
  <2>3. SameNumbers(circuit, d) /\ d.phase = circuit.phase
        BY <1>0, <1>4, HandlingCounts DEF Shapes
  <2> HIDE DEF d
  <2>4. Onward(d)
        BY <2>3, GoesOnward DEF SameNumbers
  <2> QED
      BY <1>3, <2>1, <2>2, <2>3, <2>4
<1>9. CASE BeginValidation
  <2>1. drawn.phase = "readyToValidate" /\ circuit.run < MaxRun
        /\ Draw(IF circuit.phase # "readyToValidate" THEN circuit ELSE Begun(circuit))
        BY <1>9 DEF BeginValidation, Begun
  <2>2. \A d : Onward(d)
        BY <2>1, GoesOnward DEF Lit
  <2>3. circuit.phase = "readyToValidate" => Begun(circuit) \in Shapes
        BY <1>0, Beginning DEF Follows, Good
  <2>4. InBounds(Begun(circuit))
        BY <1>0, <2>1, BegunCounts
  <2> QED
      BY <1>0, <2>1, <2>2, <2>3, <2>4
<1>10. CASE EnterCorrection
  <2>1. drawn.phase = "failureReview"
        /\ Draw(IF circuit.phase # "failureReview" THEN circuit ELSE Corrected(circuit))
        BY <1>10 DEF EnterCorrection, Corrected, Kept
  <2>2. \A d : Onward(d)
        BY <2>1, GoesOnward DEF Lit
  <2>3. Corrected(circuit) \in Shapes
        BY <1>0, Correcting DEF Follows, Good
  <2>4. SameNumbers(circuit, Corrected(circuit))
        BY <1>0, <1>4, HandlingCounts
  <2> QED
      BY <1>0, <1>3, <2>1, <2>2, <2>3, <2>4
<1>11. CASE ClearBoard
  <2>1. (Draw(circuit) \/ Draw(Cleared(circuit))) /\ ~Lit(drawn.phase)
        BY <1>2, <1>11 DEF ClearBoard, Cleared
  <2>2. \A d : Onward(d)
        BY <2>1, GoesOnward
  <2>3. Cleared(circuit) \in Shapes
        BY <1>0, Clearing DEF Follows, Good
  <2>4. SameNumbers(circuit, Cleared(circuit))
        BY <1>0, <1>4, HandlingCounts
  <2> QED
      BY <1>0, <1>3, <2>1, <2>2, <2>3, <2>4
<1>12. CASE NextQuestion
  <2>1. Draw(Forward(circuit)) /\ Playing /\ drawn.phase = "questionComplete" /\ circuit.run < MaxRun
        BY <1>12 DEF NextQuestion, Forward, Told
  <2>2. InBounds(Forward(circuit)) /\ Forward(circuit).run = circuit.run + 1
        BY <1>0, <2>1, Behind, ForwardCounts
  <2>3. Forward(circuit) \in Shapes
        BY <1>0, GoingOn DEF Follows, Good
  <2> QED
      BY <2>1, <2>2, <2>3, GoesOnward
<1>13. CASE ExitToSetup
  <2>1. Draw(Quit(circuit)) /\ circuit.run < MaxRun
        BY <1>13 DEF ExitToSetup, Quit
  <2>2. InBounds(Quit(circuit)) /\ Quit(circuit).run = circuit.run + 1
        BY <1>0, <2>1, LeavingCounts
  <2>3. Quit(circuit) \in Shapes
        BY <1>0, Leaving DEF Follows, Good
  <2> QED
      BY <2>1, <2>2, <2>3, GoesOnward
<1>14. CASE AskStart
  <2> DEFINE d == [circuit EXCEPT !.starting = TRUE]
  <2>1. Draw(d)
        BY <1>14 DEF AskStart
  <2>2. d \in Shapes
        BY <1>0, Starting DEF Follows, Good
  <2>3. SameNumbers(circuit, d) /\ d.phase = circuit.phase
        BY <1>0, <1>4, HandlingCounts DEF Shapes
  <2> HIDE DEF d
  <2>4. Onward(d)
        BY <2>3, GoesOnward DEF SameNumbers
  <2> QED
      BY <1>3, <2>1, <2>2, <2>3, <2>4
<1>15. CASE Commit
  <2>1. Draw(circuit)
        BY <1>15 DEF Commit
  <2> QED
      BY <1>0, <2>1
<1> QED
    BY <1>5, <1>6, <1>7, <1>8, <1>9, <1>10, <1>11, <1>12, <1>13, <1>14, <1>15

\* What is not drawn at once leaves the lamp as it is on the screen.
LEMMA UnseenInBounds ==
  ASSUME GameInv, BoundInv, drawn' = drawn, InBounds(circuit'), Onward(circuit)',
         loads' \in 0..MaxLoads, fizzle' \in 0..2, diagnosis'.step <= 2 * SlotCount + 1,
         looks' = looks, light' = light
  PROVE  BoundInv'
BY DEF BoundInv

LEMMA OthersInBounds ==
  GameInv /\ TellInv /\ BoundInv
  /\ (\/ \E quiz \in Sessions : Land(quiz)
      \/ LandFails \/ Diagnose \/ ValidationFinished \/ Pop \/ FailureSequenceDone
      \/ (\E p \in Pieces : PickUp(p)) \/ UNCHANGED circuitVars)
    => BoundInv'
<1> SUFFICES ASSUME GameInv, TellInv, BoundInv,
                    \/ \E quiz \in Sessions : Land(quiz)
                    \/ LandFails \/ Diagnose \/ ValidationFinished \/ Pop \/ FailureSequenceDone
                    \/ (\E p \in Pieces : PickUp(p)) \/ UNCHANGED circuitVars
             PROVE  BoundInv'
    OBVIOUS
<1>0. /\ Good(circuit) /\ circuit \in Shapes /\ InBounds(circuit) /\ Onward(circuit)
      /\ drawn' = drawn /\ looks' = looks /\ light' = light
      BY NumberTypes DEF BoundInv, Land, LandFails, Diagnose, ValidationFinished, Pop,
                         FailureSequenceDone, PickUp, circuitVars, Unattended
<1>1. /\ loads \in 0..MaxLoads /\ fizzle \in 0..2 /\ diagnosis.step <= 2 * SlotCount + 1
      /\ diagnosis.step \in Nat /\ SlotCount \in Nat /\ MaxLoads \in Nat /\ diagnosis \in Diagnoses
      BY NumberTypes DEF BoundInv
<1>2. 1 \in Slots
      BY CircuitAssumption DEF Slots
<1>3. Onward(circuit') <=> Onward(circuit)'
      BY <1>0 DEF Onward
<1>4. ASSUME NEW quiz \in Sessions, Land(quiz) PROVE BoundInv'
  <2>1. circuit' = Landed(circuit, quiz) /\ circuit.run < MaxRun /\ loads > 0 /\ loads' = loads - 1
        /\ fizzle' = fizzle /\ diagnosis' = diagnosis
        BY <1>4 DEF Land, Landed
  <2>2. InBounds(circuit') /\ circuit'.run = circuit.run + 1
        BY <1>0, <2>1, LeavingCounts
  <2>3. Onward(circuit)'
        BY <1>3, <2>2, GoesOnward
  <2>4. loads' \in 0..MaxLoads
        BY <1>1, <2>1
  <2> QED
      BY <1>0, <1>1, <2>1, <2>2, <2>3, <2>4, UnseenInBounds
<1>5. CASE LandFails
  <2>1. circuit' = [circuit EXCEPT !.starting = FALSE] /\ loads > 0 /\ loads' = loads - 1
        /\ fizzle' = fizzle /\ diagnosis' = diagnosis
        BY <1>5 DEF LandFails
  <2>2. SameNumbers(circuit, circuit') /\ circuit'.phase = circuit.phase
        BY <1>0, <1>2, <2>1, HandlingCounts DEF Shapes
  <2>3. InBounds(circuit')
        BY <1>0, <2>2, StaysInBounds
  <2>4. Onward(circuit)'
        BY <1>3, <2>2, GoesOnward DEF SameNumbers
  <2>5. loads' \in 0..MaxLoads
        BY <1>1, <2>1
  <2> QED
      BY <1>0, <1>1, <2>1, <2>3, <2>4, <2>5, UnseenInBounds
<1>6. CASE Diagnose
  <2>1. /\ circuit' = IF Heeds("validating") THEN Probe(circuit) ELSE circuit
        /\ diagnosis' = [diagnosis EXCEPT !.step = @ + 1] /\ diagnosis.step < 2 * SlotCount
        /\ loads' = loads /\ fizzle' = fizzle
        BY <1>6 DEF Diagnose
  <2>2. SameNumbers(circuit, circuit') /\ circuit'.phase = circuit.phase
        BY <1>0, <2>1 DEF Probe, SameNumbers, Shapes
  <2>3. diagnosis'.step = diagnosis.step + 1
        BY <1>1, <2>1 DEF Diagnoses
  <2>4. diagnosis'.step <= 2 * SlotCount + 1
        BY <1>1, <2>1, <2>3
  <2>5. InBounds(circuit') /\ Onward(circuit)'
        BY <1>0, <1>3, <2>2, StaysInBounds, GoesOnward DEF SameNumbers
  <2> QED
      BY <1>0, <1>1, <2>1, <2>4, <2>5, UnseenInBounds
<1>7. CASE ValidationFinished
  <2>1. /\ circuit' = IF ~Heeds("validating") THEN circuit ELSE Finished(circuit)
        /\ diagnosis' = [diagnosis EXCEPT !.step = @ + 1] /\ diagnosis.step = 2 * SlotCount
        /\ loads' = loads /\ fizzle' = fizzle
        BY <1>7 DEF ValidationFinished, Finished
  <2>2. InBounds(Finished(circuit)) /\ Finished(circuit).run = circuit.run
        BY <1>0, FinishedCounts
  <2>3. Heeds("validating") => Onward(Finished(circuit))
        BY <2>2, GoesOnward DEF Heeds, Lit
  <2>4. InBounds(circuit') /\ Onward(circuit)'
        BY <1>0, <1>3, <2>1, <2>2, <2>3
  <2>5. diagnosis'.step = diagnosis.step + 1
        BY <1>1, <2>1 DEF Diagnoses
  <2>6. diagnosis'.step <= 2 * SlotCount + 1
        BY <1>1, <2>1, <2>5
  <2> QED
      BY <1>0, <1>1, <2>1, <2>4, <2>6, UnseenInBounds
<1>8. CASE FailureSequenceDone
  <2>1. /\ circuit' = IF Heeds("failureSequence") THEN Reached(circuit, "failureReview") ELSE circuit
        /\ loads' = loads /\ fizzle' = 0 /\ diagnosis' = diagnosis
        BY <1>8 DEF FailureSequenceDone, Reached
  <2>2. SameNumbers(circuit, Reached(circuit, "failureReview"))
        BY <1>0, <1>2, HandlingCounts
  <2>3. Heeds("failureSequence") => Onward(Reached(circuit, "failureReview"))
        BY <2>2, GoesOnward DEF Heeds, Lit, SameNumbers
  <2>4. InBounds(circuit') /\ Onward(circuit)'
        BY <1>0, <1>3, <2>1, <2>2, <2>3, StaysInBounds
  <2> QED
      BY <1>0, <1>1, <2>1, <2>4, UnseenInBounds
<1>9. CASE Pop \/ (\E p \in Pieces : PickUp(p)) \/ UNCHANGED circuitVars
  <2>1. circuit' = circuit /\ loads' = loads /\ diagnosis' = diagnosis /\ fizzle' \in 0..2
        BY <1>1, <1>9 DEF Pop, PickUp, circuitVars
  <2>2. InBounds(circuit') /\ Onward(circuit)'
        BY <1>0, <1>3, <2>1
  <2> QED
      BY <1>0, <1>1, <2>1, <2>2, UnseenInBounds
<1> QED
    BY <1>4, <1>5, <1>6, <1>7, <1>8, <1>9

\* The current: led in, it travels, and the lamp rewards.
LEMMA LightInBounds ==
  GameInv /\ TellInv /\ BoundInv /\ (LeadInDone \/ TravelDone \/ RewardDone \/ LooksChange)
    => BoundInv'
<1> SUFFICES ASSUME GameInv, TellInv, BoundInv,
                    LeadInDone \/ TravelDone \/ RewardDone \/ LooksChange
             PROVE  BoundInv'
    OBVIOUS
<1>0. /\ Good(circuit) /\ circuit \in Shapes /\ InBounds(circuit) /\ Onward(circuit)
      /\ looks \in Nat /\ MaxLooks \in Nat /\ SlotCount \in Nat /\ diagnosis \in Diagnoses
      BY NumberTypes DEF BoundInv
<1>1. /\ light \in Lights /\ Lamps(light) <= looks + 1 /\ (~Lit(drawn.phase) => light = Dark)
      /\ drawn' = drawn
      BY DEF BoundInv, LeadInDone, TravelDone, RewardDone, LooksChange, Unattended
<1>2. Dark.lead = FALSE /\ Dark.travel = FALSE /\ Dark.rewards = 0
      BY DEF Dark
<1>3. CASE LeadInDone \/ TravelDone
  <2>1. /\ circuit' = circuit /\ loads' = loads /\ diagnosis' = diagnosis /\ fizzle' = fizzle
        /\ looks' = looks
        BY <1>3 DEF LeadInDone, TravelDone, Unattended
  <2>2. light' \in Lights /\ Lamps(light') <= Lamps(light) /\ Lamps(light) \in Nat /\ Lamps(light') \in Nat
    <3>1. ASSUME LeadInDone PROVE light' \in Lights /\ Lamps(light') <= Lamps(light)
      <4>1. light' = [light EXCEPT !.lead = FALSE, !.travel = TRUE]
            BY <3>1 DEF LeadInDone
      <4>2. light.lead
            BY <3>1 DEF LeadInDone
      <4>3. light' \in Lights /\ light'.lead = FALSE /\ light'.travel = TRUE
            BY <1>1, <4>1 DEF Lights
      <4>4. light'.rewards = light.rewards
            BY <1>1, <4>1 DEF Lights
      <4>5. Bit(light.lead) = 1 /\ Bit(light'.lead) = 0 /\ Bit(light'.travel) = 1
            BY <4>2, <4>3 DEF Bit
      <4>6. light.rewards \in Nat /\ Bit(light.travel) \in {0, 1}
            BY <1>1, CountedLamps
      <4>7. Lamps(light') <= Lamps(light)
            BY <4>4, <4>5, <4>6 DEF Lamps
      <4> QED
          BY <4>3, <4>7
    <3>2. ASSUME TravelDone PROVE light' \in Lights /\ Lamps(light') <= Lamps(light)
      <4>1. light' = [light EXCEPT !.travel = FALSE, !.rewards = @ + 1]
            BY <3>2 DEF TravelDone
      <4>2. light.travel
            BY <3>2 DEF TravelDone
      <4>3. light' \in Lights /\ light'.travel = FALSE
        <5> DEFINE n == light.rewards + 1
        <5>1. light' = [light EXCEPT !.travel = FALSE, !.rewards = n]
              BY <4>1
        <5>2. light \in Lights /\ n \in Nat
              BY <1>1, CountedLamps
        <5> HIDE DEF n
        <5>3. light' \in Lights
              BY <5>1, <5>2 DEF Lights
        <5>4. light'.travel = FALSE
              BY <5>1, <5>2 DEF Lights
        <5> QED
            BY <5>3, <5>4
      <4>4. light'.rewards = light.rewards + 1
            BY <1>1, <4>1 DEF Lights
      <4>5. light'.lead = light.lead
            BY <1>1, <4>1 DEF Lights
      <4>6. Bit(light.travel) = 1 /\ Bit(light'.travel) = 0
            BY <4>2, <4>3 DEF Bit
      <4>7. Bit(light'.lead) = Bit(light.lead)
            BY <4>5, Zenon
      <4>8. light.rewards \in Nat /\ Bit(light.lead) \in {0, 1}
            BY <1>1, CountedLamps
      <4>9. Lamps(light') <= Lamps(light)
            BY <4>4, <4>6, <4>7, <4>8 DEF Lamps
      <4> QED
          BY <4>3, <4>9
    <3> QED
        BY <1>1, <1>3, <3>1, <3>2, CountedLamps
  <2>3. Lit(drawn.phase)
        BY <1>1, <1>2, <1>3 DEF LeadInDone, TravelDone
  <2> QED
      BY <1>0, <1>1, <2>1, <2>2, <2>3 DEF BoundInv, Onward
<1>4. CASE RewardDone
  <2>1. /\ circuit' = IF Heeds("successCurrent") THEN Reached(circuit, "questionComplete") ELSE circuit
        /\ loads' = loads /\ diagnosis' = diagnosis /\ fizzle' = fizzle /\ looks' = looks
        /\ light.rewards > 0 /\ light' = [light EXCEPT !.rewards = @ - 1]
        BY <1>4 DEF RewardDone, Reached, Unattended
  <2>2. light' \in Lights /\ Lamps(light') <= Lamps(light) /\ Lamps(light) \in Nat /\ Lamps(light') \in Nat
    <3>1. light' \in Lights /\ light'.lead = light.lead /\ light'.travel = light.travel
          /\ light'.rewards = light.rewards - 1
          BY <1>1, <2>1 DEF Lights
    <3>2. light.rewards \in Nat /\ Lamps(light) \in Nat /\ Lamps(light') \in Nat
          /\ Bit(light.lead) \in {0, 1} /\ Bit(light.travel) \in {0, 1}
          BY <1>1, <3>1, CountedLamps
    <3>3. Lamps(light') <= Lamps(light)
          BY <3>1, <3>2 DEF Lamps
    <3> QED
        BY <3>1, <3>2, <3>3
  <2>3. Lit(drawn.phase)
        BY <1>1, <1>2, <2>1
  <2>4. SameNumbers(circuit, Reached(circuit, "questionComplete"))
        /\ Reached(circuit, "questionComplete").phase = "questionComplete"
    <3>1. 1 \in Slots
          BY CircuitAssumption DEF Slots
    <3> QED
        BY <1>0, <3>1, HandlingCounts DEF Reached, Shapes
  <2>5. Onward(Reached(circuit, "questionComplete"))
        BY <2>4 DEF Onward, Lit
  <2>6. InBounds(circuit') /\ Onward(circuit')
        BY <1>0, <2>1, <2>4, <2>5, StaysInBounds
  <2>7. Onward(circuit)'
        BY <1>1, <2>6 DEF Onward
  <2> QED
      BY <1>0, <1>1, <2>1, <2>2, <2>3, <2>6, <2>7 DEF BoundInv
<1>5. CASE LooksChange
  <2>1. /\ circuit' = circuit /\ loads' = loads /\ looks < MaxLooks /\ looks' = looks + 1
        /\ light' = [light EXCEPT !.lead = drawn.phase = "successCurrent"]
        /\ fizzle' \in 0..2 /\ diagnosis'.step \in {0, diagnosis.step}
        BY <1>0, <1>5 DEF LooksChange, Diagnoses
  <2>2. light' \in Lights /\ Lamps(light') <= Lamps(light) + 1 /\ Lamps(light) \in Nat
        /\ Lamps(light') \in Nat
    <3>1. light' \in Lights /\ light'.travel = light.travel /\ light'.rewards = light.rewards
          BY <1>1, <2>1 DEF Lights
    <3>2. /\ light.rewards \in Nat /\ Lamps(light) \in Nat /\ Lamps(light') \in Nat
          /\ Bit(light.lead) \in {0, 1} /\ Bit(light.travel) \in {0, 1} /\ Bit(light'.lead) \in {0, 1}
          BY <1>1, <3>1, CountedLamps
    <3>3. Lamps(light') <= Lamps(light) + 1
          BY <3>1, <3>2 DEF Lamps
    <3> QED
        BY <3>1, <3>2, <3>3
  <2>3. Lamps(light') <= looks' + 1 /\ looks' \in 0..MaxLooks
        BY <1>0, <1>1, <2>1, <2>2
  <2>4. ~Lit(drawn.phase) => light' = Dark
    <3> SUFFICES ASSUME ~Lit(drawn.phase) PROVE light' = Dark
        OBVIOUS
    <3>1. light = Dark /\ (drawn.phase = "successCurrent") = FALSE
          BY <1>1 DEF Lit
    <3> QED
        BY <2>1, <3>1 DEF Dark
  <2>5. diagnosis'.step <= 2 * SlotCount + 1
        BY <1>0, <2>1 DEF BoundInv
  <2>6. Onward(circuit)'
        BY <1>0, <1>1, <2>1 DEF Onward
  <2> QED
      BY <1>0, <1>1, <2>1, <2>2, <2>3, <2>4, <2>5, <2>6 DEF BoundInv
<1> QED
    BY <1>3, <1>4, <1>5

\* The numbers of the reducer, the loads and the timers stay within their bounds:
\* a lamp is led in once for every run and once more for every change of looks, so
\* no more rewards can be under way.
THEOREM CircuitTypeCorrectness == CircuitSpec => []CircuitTypeOK
<1>1. CircuitInit => BoundInv
  <2> SUFFICES ASSUME CircuitInit PROVE BoundInv
      OBVIOUS
  <2>1. circuit = InitialCircuit /\ drawn = InitialCircuit /\ loads = 0 /\ looks = 0 /\ fizzle = 0
        /\ diagnosis.step = 0 /\ light = Dark
        BY DEF CircuitInit, NoDiagnosis
  <2>2. InitialCircuit \in Shapes
        BY Beginnings, <2>1 DEF GameInv, CircuitInv, Good
  <2>3. <<>> \in Seq(Tallies)
        OBVIOUS
  <2>4. InBounds(InitialCircuit)
        BY <2>3, CircuitAssumption DEF InBounds, InitialCircuit, Unasked
  <2>5. InitialCircuit.phase = "arranging"
        BY DEF InitialCircuit
  <2> HIDE DEF CircuitInit
  <2> QED
      BY <2>1, <2>2, <2>4, <2>5, DarkLamps, CircuitAssumption DEF BoundInv, Onward, Lit
<1>2. GameInv /\ TellInv /\ BoundInv /\ [CircuitNext]_circuitVars => BoundInv'
      BY PlayerInBounds, OthersInBounds, LightInBounds DEF CircuitNext, Timers
<1>3. GameInv /\ BoundInv => CircuitTypeOK
  <2> SUFFICES ASSUME GameInv, BoundInv PROVE CircuitTypeOK
      OBVIOUS
  <2>1. circuit \in CircuitStates /\ drawn \in CircuitStates
        BY NumberTypes, BoundedStates DEF BoundInv
  <2>2. diagnosis \in [on : BOOLEAN, step : 0..(2 * SlotCount + 1), fits : SUBSET Slots]
        BY NumberTypes DEF BoundInv, Diagnoses
  <2>3. light \in [lead : BOOLEAN, travel : BOOLEAN, rewards : 0..(MaxLooks + 1)]
    <3>1. light.rewards <= Lamps(light) /\ light.rewards \in Nat /\ Lamps(light) \in Nat
      <4>1. /\ light \in Lights /\ light.rewards \in Nat /\ Lamps(light) \in Nat
            /\ Bit(light.lead) \in {0, 1} /\ Bit(light.travel) \in {0, 1}
            BY CountedLamps DEF BoundInv
      <4> QED
          BY <4>1 DEF Lamps
    <3>2. light.rewards <= MaxLooks + 1
      <4>1. Lamps(light) <= looks + 1 /\ looks <= MaxLooks /\ looks \in Nat /\ MaxLooks \in Nat
            BY CircuitAssumption DEF BoundInv
      <4> QED
          BY <3>1, <4>1
    <3> QED
        BY <3>1, <3>2 DEF BoundInv, Lights
  <2> QED
      BY <2>1, <2>2, <2>3 DEF CircuitTypeOK, BoundInv, GameInv, Handled
<1> QED
    BY <1>1, <1>2, <1>3, Invariance, GameTells, PTL DEF CircuitSpec

-----------------------------------------------------------------------------
(* The Aruz Bridge: what a run counts.                                     *)

AnyRun == UNION {Draws(n) : n \in 1..MaxSteps}

\* A state of the machine, without the bounds of its numbers.
Frames ==
    [state : BridgeStates, epoch : Nat, steps : AnyRun \cup {<<>>}, index : Nat,
     chosen : Side \cup {"none"}, failure : {"none", "wrong", "timeout"},
     streak : Nat, best : Nat, correct : Nat, answered : Nat, failed : SUBSET BridgeQuestions]

Failing == {"timeout", "cracking", "shattering", "falling", "gameOver"}

CountedRun(m) ==
    /\ m.steps \in AnyRun /\ m.index \in 1..Len(m.steps)
    /\ m.answered = m.index - (IF Judged(m) THEN 0 ELSE 1)
    /\ m.correct = m.answered - (IF m.failure = "none" THEN 0 ELSE 1)
    /\ m.best = m.correct
    /\ m.streak = (IF m.failure = "none" THEN m.correct ELSE 0)
    /\ m.failed = (IF m.failure = "none" THEN {} ELSE {StepOf(m).q})
    /\ m.failure = "none" <=> m.state \notin Failing
    /\ m.state = "finished" => m.index = Len(m.steps)

\* What the machine has counted is what has become of its run so far.
Counted(m) == /\ m \in Frames
              /\ IF m.state = "intro" THEN m = InitialMachine ELSE CountedRun(m)

BridgeInv ==
    /\ Counted(bridge) /\ Counted(shown)
    /\ ticking => shown.state \in Timed

LEMMA Glasses ==
  \A steps \in AnyRun : /\ Len(steps) \in 1..MaxSteps /\ DOMAIN steps = 1..Len(steps)
                        /\ steps \in Seq([q : BridgeQuestions, side : Side])
                        /\ \A i \in 1..Len(steps) : steps[i].q \in BridgeQuestions
<1> SUFFICES ASSUME NEW steps \in AnyRun
             PROVE  /\ Len(steps) \in 1..MaxSteps /\ DOMAIN steps = 1..Len(steps)
                    /\ steps \in Seq([q : BridgeQuestions, side : Side])
                    /\ \A i \in 1..Len(steps) : steps[i].q \in BridgeQuestions
    OBVIOUS
<1>1. PICK n \in 1..MaxSteps : steps \in Draws(n)
      BY DEF AnyRun
<1>2. n \in Nat
      BY <1>1, BridgeAssumption
<1>3. PICK questions \in [1..n -> BridgeQuestions], sides \in Sides(n) :
        steps = Steps(questions, sides)
      BY <1>1 DEF Draws
<1>4. sides \in [1..n -> Side]
      BY DEF Sides
<1> DEFINE Glass == [q : BridgeQuestions, side : Side]
<1>5. steps \in [1..n -> Glass] /\ \A i \in 1..n : steps[i].q \in BridgeQuestions
      BY <1>3, <1>4 DEF Steps
<1>6. steps \in Seq(Glass) /\ Len(steps) = n
  <2> HIDE DEF Glass
  <2> QED
      BY <1>2, <1>5
<1> QED
    BY <1>1, <1>5, <1>6

LEMMA DrawnRuns ==
  \A n \in 1..MaxSteps : \A steps \in Draws(n) : steps \in AnyRun /\ Len(steps) > 0
<1> SUFFICES ASSUME NEW n \in 1..MaxSteps, NEW steps \in Draws(n)
             PROVE  steps \in AnyRun /\ Len(steps) > 0
    OBVIOUS
<1>1. steps \in AnyRun
      BY DEF AnyRun
<1> QED
    BY <1>1, Glasses

\* Going to a state changes the state and the epoch.
LEMMA Going ==
  \A m \in Frames, st \in BridgeStates :
    /\ To(m, st) \in Frames /\ To(m, st).state = st
    /\ To(m, st).steps = m.steps /\ To(m, st).index = m.index
    /\ To(m, st).answered = m.answered /\ To(m, st).correct = m.correct
    /\ To(m, st).best = m.best /\ To(m, st).streak = m.streak
    /\ To(m, st).failure = m.failure /\ To(m, st).failed = m.failed
<1> SUFFICES ASSUME NEW m \in Frames, NEW st \in BridgeStates
             PROVE  /\ To(m, st) \in Frames /\ To(m, st).state = st
                    /\ To(m, st).steps = m.steps /\ To(m, st).index = m.index
                    /\ To(m, st).answered = m.answered /\ To(m, st).correct = m.correct
                    /\ To(m, st).best = m.best /\ To(m, st).streak = m.streak
                    /\ To(m, st).failure = m.failure /\ To(m, st).failed = m.failed
    OBVIOUS
<1> DEFINE next == m.epoch + 1
           d    == To(m, st)
<1>1. next \in Nat
      BY DEF Frames
<1>2. d = [m EXCEPT !.state = st, !.epoch = next]
      BY DEF To
<1> HIDE DEF next, d
<1>3. d \in Frames
      BY <1>1, <1>2 DEF Frames
<1>4. /\ d.state = st /\ d.steps = m.steps /\ d.index = m.index
      /\ d.answered = m.answered /\ d.correct = m.correct /\ d.best = m.best
      /\ d.streak = m.streak /\ d.failure = m.failure /\ d.failed = m.failed
      BY <1>2 DEF Frames
<1> QED
    BY <1>3, <1>4 DEF d

\* A step that judges nothing.
LEMMA Passing ==
  \A m \in Frames, st \in BridgeStates \ {"intro", "finished"} :
    (/\ CountedRun(m) /\ (st \in Failing <=> m.state \in Failing)
     /\ (Judged(m) <=> st \in {"correct", "timeout", "cracking", "shattering", "falling", "gameOver"}))
    => Counted(To(m, st))
<1> SUFFICES ASSUME NEW m \in Frames, NEW st \in BridgeStates \ {"intro", "finished"},
                    CountedRun(m), st \in Failing <=> m.state \in Failing,
                    Judged(m) <=> st \in {"correct", "timeout", "cracking", "shattering",
                                          "falling", "gameOver"}
             PROVE  Counted(To(m, st))
    OBVIOUS
<1> DEFINE d == To(m, st)
<1>1. /\ d \in Frames /\ d.state = st /\ d.steps = m.steps /\ d.index = m.index
      /\ d.answered = m.answered /\ d.correct = m.correct /\ d.best = m.best
      /\ d.streak = m.streak /\ d.failure = m.failure /\ d.failed = m.failed
      BY Going
<1> HIDE DEF d
<1>2. Judged(d) <=> Judged(m)
      BY <1>1 DEF Judged, Over
<1>3. StepOf(d) = StepOf(m)
      BY <1>1 DEF StepOf
<1>4. CountedRun(d)
      BY <1>1, <1>2, <1>3 DEF CountedRun
<1> QED
    BY <1>1, <1>4 DEF Counted, d

LEMMA MissedRuns ==
  \A m \in Frames, why \in {"wrong", "timeout"}, st \in {"timeout", "cracking"} :
    (CountedRun(m) /\ ~Judged(m)) => Counted(To(Fails(m, why), st))
<1> SUFFICES ASSUME NEW m \in Frames, NEW why \in {"wrong", "timeout"},
                    NEW st \in {"timeout", "cracking"}, CountedRun(m), ~Judged(m)
             PROVE  Counted(To(Fails(m, why), st))
    OBVIOUS
<1> DEFINE more == m.answered + 1
           bad  == m.failed \cup {StepOf(m).q}
           f    == Fails(m, why)
           d    == To(f, st)
<1>1. /\ m.failure = "none" /\ m.failed = {} /\ m.answered \in Nat /\ m.correct = m.answered
      /\ m.best = m.correct /\ m.index \in Nat /\ m.answered = m.index - 1
  <2>1. m.state \notin Failing
        BY DEF Judged, Failing, Over
  <2> QED
      BY <2>1 DEF CountedRun, Frames
<1>2. StepOf(m).q \in BridgeQuestions
      BY Glasses DEF StepOf, CountedRun
<1>3. more \in Nat /\ more = m.index /\ bad = {StepOf(m).q} /\ bad \in SUBSET BridgeQuestions
      BY <1>1, <1>2
<1>4. f = [m EXCEPT !.failure = why, !.streak = 0, !.answered = more, !.failed = bad]
      BY DEF Fails
<1> HIDE DEF more, bad, f
<1>5. /\ f \in Frames /\ f.failure = why /\ f.streak = 0 /\ f.answered = more /\ f.failed = bad
      /\ f.steps = m.steps /\ f.index = m.index /\ f.best = m.best /\ f.correct = m.correct
      BY <1>3, <1>4 DEF Frames
<1>6. st \in BridgeStates
      BY DEF BridgeStates
<1>7. /\ d \in Frames /\ d.state = st /\ d.failure = why /\ d.streak = 0 /\ d.answered = more
      /\ d.failed = bad /\ d.steps = m.steps /\ d.index = m.index /\ d.best = m.best
      /\ d.correct = m.correct
      BY <1>5, <1>6, Going
<1> HIDE DEF d
<1>8. Judged(d) /\ StepOf(d) = StepOf(m) /\ d.state \in Failing
      BY <1>7 DEF Judged, StepOf, Failing
<1>9. CountedRun(d)
      BY <1>1, <1>3, <1>7, <1>8 DEF CountedRun
<1> QED
    BY <1>7, <1>9 DEF Counted, d, f

LEMMA WonRuns ==
  \A m \in Frames :
    (CountedRun(m) /\ m.state = "landing" /\ m.chosen = StepOf(m).side) => Counted(Resolved(m))
<1> SUFFICES ASSUME NEW m \in Frames, CountedRun(m), m.state = "landing", m.chosen = StepOf(m).side
             PROVE  Counted(Resolved(m))
    OBVIOUS
<1> DEFINE more == m.answered + 1
           right == m.correct + 1
           run == m.streak + 1
           top == IF m.streak + 1 > m.best THEN m.streak + 1 ELSE m.best
           f == [m EXCEPT !.streak = run, !.correct = right, !.answered = more, !.best = top]
           d == To(f, "correct")
<1>1. /\ m.failure = "none" /\ m.failed = {} /\ m.answered \in Nat /\ m.correct = m.answered
      /\ m.best = m.correct /\ m.streak = m.correct /\ m.index \in Nat /\ m.answered = m.index - 1
  <2>1. m.state \notin Failing /\ ~Judged(m)
        BY DEF Judged, Failing, Over
  <2> QED
      BY <2>1 DEF CountedRun, Frames
<1>2. more \in Nat /\ more = m.index /\ right = more /\ run = more /\ top = more
      BY <1>1
<1>3. Resolved(m) = d
      BY DEF Resolved
<1> HIDE DEF more, right, run, top
<1>4. /\ f \in Frames /\ f.failure = m.failure /\ f.streak = more /\ f.answered = more
      /\ f.failed = m.failed /\ f.steps = m.steps /\ f.index = m.index /\ f.best = more
      /\ f.correct = more
      BY <1>2 DEF Frames
<1> HIDE DEF f
<1>5. "correct" \in BridgeStates
      BY DEF BridgeStates
<1>6. /\ d \in Frames /\ d.state = "correct" /\ d.failure = m.failure /\ d.streak = more
      /\ d.answered = more /\ d.failed = m.failed /\ d.steps = m.steps /\ d.index = m.index
      /\ d.best = more /\ d.correct = more
      BY <1>4, <1>5, Going
<1> HIDE DEF d
<1>7. Judged(d) /\ d.state \notin Failing
      BY <1>6 DEF Judged, Failing
<1>8. CountedRun(d)
      BY <1>1, <1>2, <1>6, <1>7 DEF CountedRun
<1> QED
    BY <1>3, <1>6, <1>8 DEF Counted

LEMMA AdvancedRuns == \A m \in Frames : (CountedRun(m) /\ m.state = "correct") => Counted(Advanced(m))
<1> SUFFICES ASSUME NEW m \in Frames, CountedRun(m), m.state = "correct"
             PROVE  Counted(Advanced(m))
    OBVIOUS
<1>1. /\ m.failure = "none" /\ m.failed = {} /\ m.answered \in Nat /\ m.correct = m.answered
      /\ m.best = m.correct /\ m.streak = m.correct /\ m.index \in Nat /\ m.answered = m.index
  <2>1. m.state \notin Failing /\ Judged(m)
        BY DEF Judged, Failing
  <2> QED
      BY <2>1 DEF CountedRun, Frames
<1>2. Len(m.steps) \in Nat /\ m.index <= Len(m.steps) /\ m.index >= 1 /\ m.steps \in AnyRun
      BY Glasses DEF CountedRun
<1>3. CASE m.index >= Len(m.steps)
  <2> DEFINE d == To(m, "finished")
  <2>1. "finished" \in BridgeStates
        BY DEF BridgeStates
  <2>2. /\ d \in Frames /\ d.state = "finished" /\ d.steps = m.steps /\ d.index = m.index
        /\ d.answered = m.answered /\ d.correct = m.correct /\ d.best = m.best
        /\ d.streak = m.streak /\ d.failure = m.failure /\ d.failed = m.failed
        BY <2>1, Going
  <2> HIDE DEF d
  <2>3. Judged(d) /\ d.state \notin Failing
        BY <2>2 DEF Judged, Failing, Over
  <2>4. CountedRun(d)
        BY <1>1, <1>2, <1>3, <2>2, <2>3 DEF CountedRun
  <2> QED
      BY <1>3, <2>2, <2>4 DEF Counted, Advanced, d
<1>4. CASE ~(m.index >= Len(m.steps))
  <2> DEFINE next == m.index + 1
             f == [m EXCEPT !.index = next, !.chosen = "none"]
             d == To(f, "waitingForAnswer")
  <2>0. next \in 1..Len(m.steps) /\ next \in Nat /\ m.answered = next - 1
        BY <1>1, <1>2, <1>4
  <2>1. "waitingForAnswer" \in BridgeStates
        BY DEF BridgeStates
  <2>2. Advanced(m) = d
        BY <1>4 DEF Advanced
  <2> HIDE DEF next
  <2>3. /\ f \in Frames /\ f.steps = m.steps /\ f.index = next
        /\ f.answered = m.answered /\ f.correct = m.correct /\ f.best = m.best
        /\ f.streak = m.streak /\ f.failure = m.failure /\ f.failed = m.failed
        BY <2>0 DEF Frames
  <2> HIDE DEF f
  <2>4. /\ d \in Frames /\ d.state = "waitingForAnswer" /\ d.steps = m.steps /\ d.index = next
        /\ d.answered = m.answered /\ d.correct = m.correct /\ d.best = m.best
        /\ d.streak = m.streak /\ d.failure = m.failure /\ d.failed = m.failed
        BY <2>1, <2>3, Going
  <2> HIDE DEF d
  <2>5. ~Judged(d) /\ d.state \notin Failing
        BY <2>4 DEF Judged, Failing, Over
  <2>6. CountedRun(d)
        BY <1>1, <1>2, <2>0, <2>4, <2>5 DEF CountedRun
  <2> QED
      BY <2>2, <2>4, <2>6 DEF Counted
<1> QED
    BY <1>3, <1>4

\* A timer of a state, whatever has become of the machine since.
LEMMA Timing ==
  \A m, st : (Counted(m) /\ st \in Timed /\ Takes(st, m)) => Counted(TimerOf(st, m))
<1> SUFFICES ASSUME NEW m, NEW st \in Timed, Counted(m), Takes(st, m) PROVE Counted(TimerOf(st, m))
    OBVIOUS
<1> USE DEF BridgeStates
<1>1. /\ st \in {"preparing", "showingQuestion", "waitingForAnswer", "jumping", "landing",
                 "timeout", "correct", "cracking", "shattering", "falling"}
      /\ m \in Frames
      /\ st \notin {"landing", "timeout"} => m.state = st
      /\ st \in {"landing", "timeout"} => m.state \in {"landing", "timeout"}
      BY DEF Timed, Resting, Takes, Counted
<1>2. CountedRun(m)
      BY <1>1 DEF Counted
<1>3. CASE st = "preparing"
  <2> DEFINE f == [m EXCEPT !.chosen = "none"]
  <2>1. /\ f \in Frames /\ f.state = m.state /\ f.steps = m.steps /\ f.index = m.index
        /\ f.answered = m.answered /\ f.correct = m.correct /\ f.best = m.best
        /\ f.streak = m.streak /\ f.failure = m.failure /\ f.failed = m.failed
        BY <1>1 DEF Frames
  <2>2. TimerOf(st, m) = To(f, "showingQuestion")
        BY <1>3 DEF TimerOf
  <2> HIDE DEF f
  <2>3. CountedRun(f)
        BY <1>2, <2>1 DEF CountedRun, Judged, StepOf
  <2>4. ~Judged(f) /\ f.state \notin Failing
        BY <1>1, <1>3, <2>1 DEF Judged, Over, Failing
  <2> QED
      BY <2>1, <2>2, <2>3, <2>4, Passing DEF Failing
<1>4. CASE st = "showingQuestion"
  <2>1. TimerOf(st, m) = To(m, "waitingForAnswer")
        BY <1>4 DEF TimerOf
  <2>2. ~Judged(m) /\ m.state \notin Failing
        BY <1>1, <1>4 DEF Judged, Over, Failing
  <2> QED
      BY <1>1, <1>2, <2>1, <2>2, Passing DEF Failing
<1>5. CASE st = "waitingForAnswer"
  <2>1. TimerOf(st, m) = To(Fails(m, "timeout"), "timeout")
        BY <1>5 DEF TimerOf
  <2>2. ~Judged(m)
        BY <1>1, <1>5 DEF Judged, Over
  <2> QED
      BY <1>1, <1>2, <2>1, <2>2, MissedRuns
<1>6. CASE st = "jumping"
  <2>1. TimerOf(st, m) = To(m, "landing")
        BY <1>6 DEF TimerOf
  <2>2. ~Judged(m) /\ m.state \notin Failing
        BY <1>1, <1>6 DEF Judged, Over, Failing
  <2> QED
      BY <1>1, <1>2, <2>1, <2>2, Passing DEF Failing
<1>7. CASE st \in {"landing", "timeout"}
  <2>1. TimerOf(st, m) = Resolved(m)
        BY <1>7 DEF TimerOf
  <2>2. CASE m.state = "timeout"
    <3>1. Resolved(m) = To(m, "cracking") /\ Judged(m) /\ m.state \in Failing
          BY <2>2 DEF Resolved, Judged, Failing
    <3> QED
        BY <1>1, <1>2, <2>1, <3>1, Passing DEF Failing
  <2>3. CASE m.state = "landing" /\ m.chosen # StepOf(m).side
    <3>1. Resolved(m) = To(Fails(m, "wrong"), "cracking") /\ ~Judged(m)
          BY <2>3 DEF Resolved, Judged, Over
    <3> QED
        BY <1>1, <1>2, <2>1, <3>1, MissedRuns
  <2>4. CASE m.state = "landing" /\ m.chosen = StepOf(m).side
        BY <1>1, <1>2, <2>1, <2>4, WonRuns
  <2> QED
      BY <1>1, <1>7, <2>2, <2>3, <2>4
<1>8. CASE st = "correct"
  <2>1. TimerOf(st, m) = Advanced(m)
        BY <1>8 DEF TimerOf
  <2> QED
      BY <1>1, <1>2, <1>8, <2>1, AdvancedRuns
<1>9. CASE st \in {"cracking", "shattering", "falling"}
  <2>1. PICK to \in {"shattering", "falling", "gameOver"} : TimerOf(st, m) = To(m, to)
        BY <1>9 DEF TimerOf
  <2>2. Judged(m) /\ m.state \in Failing
        BY <1>1, <1>9 DEF Judged, Failing
  <2> QED
      BY <1>1, <1>2, <2>1, <2>2, Passing DEF Failing
<1> QED
    BY <1>1, <1>3, <1>4, <1>5, <1>6, <1>7, <1>8, <1>9

\* A run begins where it may, with the steps drawn for it.
LEMMA BeginningRuns ==
  \A m, steps : (Counted(m) /\ steps \in AnyRun /\ Len(steps) > 0) => Counted(Started(m, steps))
<1> SUFFICES ASSUME NEW m, NEW steps \in AnyRun, Counted(m), Len(steps) > 0, m.state \in Resting
             PROVE  Counted(Started(m, steps))
    BY DEF Started
<1> DEFINE i == InitialMachine
           t == To(i, "countdown")
           d == [t EXCEPT !.steps = steps]
<1>1. i \in Frames /\ i.index = 1 /\ i.answered = 0 /\ i.correct = 0 /\ i.best = 0 /\ i.streak = 0
      /\ i.failure = "none" /\ i.failed = {} /\ "countdown" \in BridgeStates
      BY DEF InitialMachine, Frames, BridgeStates, Side
<1> HIDE DEF i
<1>2. t \in Frames /\ t.state = "countdown" /\ t.index = 1 /\ t.answered = 0 /\ t.correct = 0
      /\ t.best = 0 /\ t.streak = 0 /\ t.failure = "none" /\ t.failed = {}
      BY <1>1, Going
<1>3. Started(m, steps) = d
      BY DEF Started, i
<1> HIDE DEF t
<1>4. d \in Frames /\ d.state = "countdown" /\ d.index = 1 /\ d.answered = 0 /\ d.correct = 0
      /\ d.best = 0 /\ d.streak = 0 /\ d.failure = "none" /\ d.failed = {} /\ d.steps = steps
      BY <1>2 DEF Frames
<1> HIDE DEF d
<1>5. ~Judged(d) /\ d.state \notin Failing
      BY <1>4 DEF Judged, Over, Failing
<1>6. CountedRun(d)
      BY <1>4, <1>5, Glasses DEF CountedRun
<1> QED
    BY <1>3, <1>4, <1>6 DEF Counted

\* At most the question that failed is to be reviewed.
LEMMA ReviewRuns ==
  ASSUME BridgeInv, NEW kind \in {"first", "review"}, kind = "review" => shown.failed # {},
         NEW steps \in NewRuns(kind)
  PROVE  steps \in AnyRun /\ Len(steps) > 0
<1>1. CASE kind = "review"
  <2>1. shown.failed # {}
        BY <1>1
  <2>2. PICK q : shown.failed = {q}
    <3>1. InitialMachine.failed = {}
          BY DEF InitialMachine
    <3> QED
        BY <2>1, <3>1 DEF BridgeInv, Counted, CountedRun
  <2>3. Cardinality(shown.failed) = 1
        BY <2>2, FS_Singleton
  <2>4. steps \in Draws(1) /\ 1 \in 1..MaxSteps
        BY <1>1, <2>3, BridgeAssumption DEF NewRuns
  <2> QED
      BY <2>4, DrawnRuns
<1>2. CASE kind = "first"
  <2>1. PICK n \in 1..MaxSteps : steps \in Draws(n)
        BY <1>2 DEF NewRuns, Samples
  <2> QED
      BY <2>1, DrawnRuns, BridgeAssumption
<1> QED
    BY <1>1, <1>2

LEMMA IntroCounted == Counted(InitialMachine) /\ InitialMachine.state = "intro"
BY DEF InitialMachine, Counted, Frames, BridgeStates, Side

LEMMA ShowCounts == ASSUME BridgeInv, NEW m, Counted(m), Show(m) PROVE BridgeInv'
<1>1. bridge' = m /\ shown' = m
      BY DEF Show
<1>2. ticking' => m.state \in Timed
      BY DEF Show, BridgeInv
<1> QED
    BY <1>1, <1>2 DEF BridgeInv

LEMMA BridgeCounts == BridgeInv /\ [BridgeNext]_bridgeVars => BridgeInv'
<1> SUFFICES ASSUME BridgeInv, [BridgeNext]_bridgeVars PROVE BridgeInv'
    OBVIOUS
<1>1. CASE Render
      BY <1>1, ShowCounts DEF Render, BridgeInv
<1>2. ASSUME NEW kind \in {"first", "review"}, BeginRun(kind) PROVE BridgeInv'
  <2>1. \A steps \in NewRuns(kind) : Counted(Started(bridge, steps))
        BY <1>2, ReviewRuns, BeginningRuns DEF BeginRun, BridgeInv
  <2>2. Counted(bridge') /\ shown' = shown /\ ticking' = ticking
        BY <1>2, <2>1 DEF BeginRun, BridgeInv
  <2> QED
      BY <2>2 DEF BridgeInv
<1>3. CASE PoolArrives
  <2>1. \A steps \in NewRuns("first") : Counted(Started(bridge, steps))
        BY ReviewRuns, BeginningRuns DEF BridgeInv
  <2>2. Counted(bridge') /\ shown' = shown /\ ticking' = ticking
        BY <1>3, <2>1 DEF PoolArrives
  <2> QED
      BY <2>2 DEF BridgeInv
<1>4. CASE PoolFails \/ MarkSceneReady \/ UserKnown \/ UNCHANGED bridgeVars
      BY <1>4 DEF PoolFails, MarkSceneReady, UserKnown, bridgeVars, BridgeInv
<1>5. CASE BackToSetup
      BY <1>5, ShowCounts, IntroCounted DEF BackToSetup
<1>6. CASE CountdownDone
  <2>1. bridge \in Frames /\ CountedRun(bridge) /\ "preparing" \in BridgeStates \ {"intro", "finished"}
        /\ ~Judged(bridge) /\ bridge.state \notin Failing
        BY <1>6 DEF CountdownDone, BridgeInv, Counted, BridgeStates, Judged, Over, Failing
  <2>2. Counted(To(bridge, "preparing"))
        BY <2>1, Passing DEF Failing
  <2> QED
      BY <1>6, <2>2 DEF CountdownDone, TheRestWaits, BridgeInv
<1>7. CASE TimerFires
  <2>1. Takes(shown.state, bridge) => Counted(TimerOf(shown.state, bridge))
        BY <1>7, Timing DEF TimerFires, BridgeInv
  <2> QED
      BY <1>7, <2>1 DEF TimerFires, TheRestWaits, BridgeInv
<1>8. ASSUME NEW side \in Side, Answer(side) PROVE BridgeInv'
  <2> DEFINE f == [bridge EXCEPT !.chosen = side]
  <2>1. CASE bridge.state # "waitingForAnswer"
        BY <1>8, <2>1, ShowCounts DEF Answer, BridgeInv
  <2>2. CASE bridge.state = "waitingForAnswer"
    <3>1. bridge \in Frames /\ CountedRun(bridge)
          BY <2>2 DEF BridgeInv, Counted
    <3>2. /\ f \in Frames /\ f.state = bridge.state /\ f.steps = bridge.steps /\ f.index = bridge.index
          /\ f.answered = bridge.answered /\ f.correct = bridge.correct /\ f.best = bridge.best
          /\ f.streak = bridge.streak /\ f.failure = bridge.failure /\ f.failed = bridge.failed
          BY <3>1 DEF Frames
    <3>3. Show(To(f, "jumping"))
          BY <1>8, <2>2 DEF Answer
    <3> HIDE DEF f
    <3>4. CountedRun(f)
          BY <3>1, <3>2 DEF CountedRun, Judged, StepOf
    <3>5. ~Judged(f) /\ f.state \notin Failing /\ "jumping" \in BridgeStates \ {"intro", "finished"}
          BY <2>2, <3>2 DEF Judged, Over, Failing, BridgeStates
    <3>6. Counted(To(f, "jumping"))
          BY <3>2, <3>4, <3>5, Passing DEF Failing
    <3> QED
        BY <3>3, <3>6, ShowCounts
  <2> QED
      BY <2>1, <2>2
<1> QED
    BY <1>1, <1>2, <1>3, <1>4, <1>5, <1>6, <1>7, <1>8 DEF BridgeNext

\* Whatever comes at the same time, what the machine counts is its run.
THEOREM BridgeInvariance == BridgeSpec => []BridgeInv
<1>1. BridgeInit => BridgeInv
      BY IntroCounted DEF BridgeInit, BridgeInv
<1> QED
    BY <1>1, BridgeCounts, PTL DEF BridgeSpec

\* Every step of a run is judged once, whatever keys, clicks and the timer do
\* at the same time, and the counts on the result screen add up.
THEOREM RunsAddUp == BridgeSpec => []RunTally
<1>1. BridgeInv => RunTally
  <2> SUFFICES ASSUME BridgeInv, bridge.state # "intro"
               PROVE  /\ bridge.answered = bridge.index - (IF Judged(bridge) THEN 0 ELSE 1)
                      /\ bridge.correct = bridge.answered - (IF bridge.failure = "none" THEN 0 ELSE 1)
                      /\ bridge.best = bridge.correct
                      /\ bridge.failed = (IF bridge.failure = "none" THEN {} ELSE {StepOf(bridge).q})
                      /\ bridge.state = "gameOver" => bridge.failure # "none"
                      /\ bridge.state = "finished" => bridge.correct = Len(bridge.steps)
      BY DEF RunTally
  <2>1. CountedRun(bridge) /\ bridge \in Frames
        BY DEF BridgeInv, Counted
  <2>2. bridge.state = "gameOver" => bridge.failure # "none"
        BY <2>1 DEF CountedRun, Failing
  <2>3. bridge.state = "finished" => bridge.correct = Len(bridge.steps)
    <3> SUFFICES ASSUME bridge.state = "finished" PROVE bridge.correct = Len(bridge.steps)
        OBVIOUS
    <3>1. Judged(bridge) /\ bridge.failure = "none"
          BY <2>1 DEF CountedRun, Judged, Over, Failing
    <3> QED
        BY <2>1, <3>1 DEF CountedRun, Frames
  <2> QED
      BY <2>1, <2>2, <2>3 DEF CountedRun
<1> QED
    BY <1>1, BridgeInvariance, PTL

-----------------------------------------------------------------------------
(* The quota of a guest.                                                   *)

\* A run under way whose end has not been recorded.
Pending == loading \/ bridge.state \notin Resting \/ (bridge.state \in Over /\ ~endedRef)
UnderWay == IF Pending THEN 1 ELSE 0

QuotaInv ==
    /\ rounds \in Nat /\ history.before \in 0..GuestLimit
    /\ history \in [begun : Nat, ended : Nat, early : Nat, before : Nat]
    /\ endedRef \in BOOLEAN /\ (endedRef <=> shown.state \in Over)
    /\ loading => ~pooled
    /\ ~pooled => bridge.state = "intro"
    /\ user # "member" => rounds = history.before + history.ended
    /\ user = "checking" => history.ended + UnderWay <= history.early
    /\ user = "guest" => history.ended + UnderWay <= (GuestLimit - history.before) + history.early
    /\ history.ended + UnderWay <= history.begun /\ history.early <= history.begun
    /\ history.begun <= MaxStarts /\ rounds <= history.before + history.ended

LEMMA Counters == UnderWay \in {0, 1} /\ (UnderWay = 0 <=> ~Pending)
BY DEF UnderWay

\* Nothing is recorded, and nothing more is under way.
LEMMA QuotaKept ==
  ASSUME QuotaInv, UNCHANGED <<user, rounds, endedRef, history>>, shown'.state \in Over <=> shown.state \in Over,
         loading' => ~pooled', ~pooled' => bridge'.state = "intro", Pending' => Pending
  PROVE  QuotaInv'
<1>1. UnderWay' <= UnderWay /\ UnderWay \in Nat /\ UnderWay' \in Nat
      BY DEF UnderWay
<1>2. history.before \in Nat /\ history.ended \in Nat /\ history.early \in Nat /\ GuestLimit \in Nat
      BY BridgeAssumption DEF QuotaInv
<1> QED
    BY <1>1, <1>2 DEF QuotaInv

\* A machine is shown: an end is recorded, once.
LEMMA QuotaShown ==
  ASSUME QuotaInv, NEW m, Show(m), UNCHANGED <<loading, pooled, user>>,
         ~pooled => m.state = "intro",
         m.state \notin Resting => Pending,
         m.state \in Over /\ ~endedRef => Pending
  PROVE  QuotaInv'
<1>1. /\ bridge' = m /\ shown' = m /\ (endedRef' <=> m.state \in Over)
      BY DEF Show
<1>0. endedRef' \in BOOLEAN
      BY DEF Show
<1>2. history.before \in Nat /\ history.ended \in Nat /\ history.early \in Nat /\ GuestLimit \in Nat
      /\ rounds \in Nat /\ history.begun \in Nat
      BY BridgeAssumption DEF QuotaInv
<1>3. CASE m.state \in Over /\ ~endedRef
  <2>1. /\ history' = [history EXCEPT !.ended = @ + 1]
        /\ rounds' = IF user # "member" THEN rounds + 1 ELSE rounds
        BY <1>3 DEF Show
  <2>2. /\ history'.ended = history.ended + 1 /\ history'.before = history.before
        /\ history'.early = history.early
        /\ history' \in [begun : Nat, ended : Nat, early : Nat, before : Nat]
        BY <1>2, <2>1 DEF QuotaInv
  <2>3. ~loading
        BY <1>3 DEF QuotaInv, Over
  <2>4. ~Pending'
        BY <1>1, <1>3, <2>3 DEF Pending, Resting, Over
  <2>5. UnderWay = 1 /\ UnderWay' = 0
        BY <1>3, <2>4 DEF UnderWay
  <2>6. rounds' \in Nat /\ (user # "member" => rounds' = rounds + 1) /\ rounds' <= rounds + 1
        BY <1>2, <2>1
  <2>7. history'.begun = history.begun
        BY <2>1 DEF QuotaInv
  <2>8. /\ history'.ended + UnderWay' <= history'.begun /\ history'.early <= history'.begun
        /\ history'.begun <= MaxStarts /\ rounds' <= history'.before + history'.ended
        BY <1>2, <2>2, <2>5, <2>6, <2>7, BridgeAssumption DEF QuotaInv
  <2> QED
      BY <1>0, <1>1, <1>2, <2>2, <2>3, <2>5, <2>6, <2>8 DEF QuotaInv
<1>4. CASE ~(m.state \in Over /\ ~endedRef)
  <2>1. history' = history /\ rounds' = rounds
        BY <1>4 DEF Show
  <2>2. Pending' => Pending
        BY <1>1 DEF Pending
  <2>3. UnderWay' <= UnderWay /\ UnderWay \in Nat /\ UnderWay' \in Nat
        BY <2>2 DEF UnderWay
  <2> QED
      BY <1>0, <1>1, <1>2, <2>1, <2>3 DEF QuotaInv
<1> QED
    BY <1>3, <1>4

LEMMA QuotaBegins ==
  ASSUME QuotaInv, NEW kind \in {"first", "review"}, BeginRun(kind) PROVE QuotaInv'
<1>1. history.before \in Nat /\ history.ended \in Nat /\ history.early \in Nat /\ GuestLimit \in Nat
      /\ rounds \in Nat /\ history.begun \in Nat /\ history.before <= GuestLimit
      BY BridgeAssumption DEF QuotaInv
<1>2. UNCHANGED <<shown, pooled, user, rounds, endedRef>>
      BY DEF BeginRun
<1>3. /\ history'.ended = history.ended /\ history'.before = history.before
      /\ history'.begun = history.begun + 1
      /\ history'.early = (IF user = "checking" THEN history.early + 1 ELSE history.early)
      /\ history' \in [begun : Nat, ended : Nat, early : Nat, before : Nat]
  <2> DEFINE e == IF user = "checking" THEN history.early + 1 ELSE history.early
             b == history.begun + 1
  <2>1. history' = [history EXCEPT !.begun = b, !.early = e]
        BY DEF BeginRun
  <2>2. b \in Nat /\ e \in Nat
        BY <1>1
  <2>3. history \in [begun : Nat, ended : Nat, early : Nat, before : Nat]
        BY DEF QuotaInv
  <2> HIDE DEF b, e
  <2>4. /\ history'.ended = history.ended /\ history'.before = history.before
        /\ history'.early = e /\ history' \in [begun : Nat, ended : Nat, early : Nat, before : Nat]
        /\ history'.begun = b
        BY <2>1, <2>2, <2>3
  <2> QED
      BY <2>4 DEF e, b
<1>4. loading' => ~pooled'
      BY DEF BeginRun, QuotaInv
<1>5. ~pooled' => bridge'.state = "intro"
      BY DEF BeginRun, QuotaInv
<1>6. UnderWay \in {0, 1} /\ UnderWay' \in {0, 1}
      BY DEF UnderWay
<1>7. user' = "guest" => history'.ended + UnderWay' <= (GuestLimit - history'.before) + history'.early
  <2> SUFFICES ASSUME user = "guest"
               PROVE  history.ended + UnderWay' <= (GuestLimit - history.before) + history.early
      BY <1>2, <1>3
  <2>1. rounds < GuestLimit /\ rounds = history.before + history.ended
        BY <1>1 DEF BeginRun, BlockedGuest, QuotaInv
  <2> QED
      BY <1>1, <1>6, <2>1
<1>8. user' = "checking" => history'.ended + UnderWay' <= history'.early
      BY <1>1, <1>2, <1>3, <1>6 DEF QuotaInv
<1>9. /\ history'.ended + UnderWay' <= history'.begun /\ history'.early <= history'.begun
      /\ history'.begun <= MaxStarts /\ rounds' <= history'.before + history'.ended
  <2>1. history.begun < MaxStarts
        BY DEF BeginRun
  <2>2. UnderWay \in Nat /\ history.ended + UnderWay <= history.begun
        BY DEF QuotaInv, UnderWay
  <2> QED
      BY <1>1, <1>2, <1>3, <1>6, <2>1, <2>2, BridgeAssumption DEF QuotaInv
<1> QED
    BY <1>1, <1>2, <1>3, <1>4, <1>5, <1>7, <1>8, <1>9 DEF QuotaInv

LEMMA QuotaHolds == BridgeInv /\ QuotaInv /\ [BridgeNext]_bridgeVars => QuotaInv'
<1> SUFFICES ASSUME BridgeInv, QuotaInv, [BridgeNext]_bridgeVars PROVE QuotaInv'
    OBVIOUS
<1>1. CASE Render
      BY <1>1, QuotaShown DEF Render, Pending, QuotaInv
<1>2. ASSUME NEW kind \in {"first", "review"}, BeginRun(kind) PROVE QuotaInv'
      BY <1>2, QuotaBegins
<1>3. CASE PoolArrives
  <2>1. UNCHANGED <<user, rounds, endedRef, history, shown>> /\ Pending /\ pooled' = TRUE /\ loading' = FALSE
        BY <1>3 DEF PoolArrives, Pending
  <2> QED
      BY <2>1, QuotaKept
<1>4. CASE PoolFails \/ MarkSceneReady \/ UNCHANGED bridgeVars
  <2>1. UNCHANGED <<user, rounds, endedRef, history, shown, bridge, pooled>> /\ (loading' => loading)
        BY <1>4 DEF PoolFails, MarkSceneReady, bridgeVars
  <2>2. Pending' => Pending
        BY <2>1 DEF Pending
  <2> QED
      BY <2>1, <2>2, QuotaKept DEF QuotaInv
<1>5. CASE BackToSetup
      BY <1>5, QuotaShown, IntroCounted DEF BackToSetup, Resting, Over
<1>6. CASE CountdownDone \/ TimerFires
  <2>1. UNCHANGED <<user, rounds, endedRef, history, shown, loading, pooled>>
        BY <1>6 DEF CountdownDone, TimerFires, TheRestWaits
  <2>2. bridge' = bridge \/ bridge.state \in {"countdown"} \cup Timed
    <3>1. \A st \in Timed : Takes(st, bridge) => bridge.state \in Timed
          BY DEF Takes, Timed, Resting, BridgeStates
    <3> QED
        BY <1>6, <3>1 DEF CountdownDone, TimerFires, BridgeInv
  <2>3. \A st \in {"countdown"} \cup Timed : st \notin Resting
        BY DEF Timed, Resting
  <2>4. Pending' => Pending
        BY <2>1, <2>2, <2>3 DEF Pending
  <2>5. ~pooled' => bridge'.state = "intro"
        BY <2>1, <2>2, <2>3 DEF QuotaInv, Resting
  <2> QED
      BY <2>1, <2>4, <2>5, QuotaKept DEF QuotaInv
<1>7. ASSUME NEW side \in Side, Answer(side) PROVE QuotaInv'
  <2> DEFINE f == [bridge EXCEPT !.chosen = side]
             m == IF bridge.state # "waitingForAnswer" THEN bridge ELSE To(f, "jumping")
  <2>1. Show(m) /\ UNCHANGED <<loading, pooled, user>>
        BY <1>7 DEF Answer
  <2>2. f \in Frames /\ "jumping" \in BridgeStates
        BY DEF BridgeInv, Counted, Frames, BridgeStates
  <2>3. m = bridge \/ (m.state = "jumping" /\ bridge.state = "waitingForAnswer")
        BY <2>2, Going
  <2> HIDE DEF m
  <2>4. /\ ~pooled => m.state = "intro"
        /\ m.state \notin Resting => Pending
        /\ m.state \in Over /\ ~endedRef => Pending
        BY <2>3 DEF QuotaInv, Pending, Over, Resting
  <2> QED
      BY <2>1, <2>4, QuotaShown
<1>8. CASE UserKnown
  <2>1. UNCHANGED <<rounds, endedRef, history, shown, bridge, loading, pooled>>
        /\ user = "checking" /\ user' \in {"guest", "member"}
        BY <1>8 DEF UserKnown
  <2>2. UnderWay' = UnderWay /\ UnderWay \in Nat
        BY <2>1 DEF UnderWay, Pending
  <2>3. history.before \in Nat /\ history.ended \in Nat /\ history.early \in Nat /\ GuestLimit \in Nat
        /\ history.before <= GuestLimit /\ history.ended + UnderWay <= history.early
        BY <2>1, BridgeAssumption DEF QuotaInv
  <2> QED
      BY <2>1, <2>2, <2>3 DEF QuotaInv
<1> QED
    BY <1>1, <1>2, <1>3, <1>4, <1>5, <1>6, <1>7, <1>8 DEF BridgeNext

LEMMA QuotaInvariance == BridgeSpec => []QuotaInv
<1>1. BridgeInit => QuotaInv
  <2> SUFFICES ASSUME BridgeInit PROVE QuotaInv
      OBVIOUS
  <2>1. /\ bridge.state = "intro" /\ shown.state = "intro" /\ ~endedRef /\ ~loading
        /\ history = [begun |-> 0, ended |-> 0, early |-> 0, before |-> rounds]
        /\ rounds \in 0..GuestLimit /\ user = "checking" /\ endedRef \in BOOLEAN
        BY IntroCounted DEF BridgeInit
  <2>2. UnderWay = 0
        BY <2>1 DEF UnderWay, Pending, Resting, Over
  <2> QED
      BY <2>1, <2>2, BridgeAssumption DEF QuotaInv, Over
<1> QED
    BY <1>1, BridgeInvariance, QuotaHolds, PTL DEF BridgeSpec

\* Whatever a guest does while /me, the pool and the screen are late, no more
\* runs end than the quota had left and those begun before /me answered.
THEOREM QuotaStopsGuests == BridgeSpec => []GuestStops
<1>1. QuotaInv => GuestStops
  <2> SUFFICES ASSUME QuotaInv, user = "guest"
               PROVE  history.ended <= (GuestLimit - history.before) + history.early
      BY DEF GuestStops
  <2>1. UnderWay \in Nat /\ history.ended \in Nat /\ history.early \in Nat /\ history.before \in Nat
        /\ GuestLimit \in Nat
        BY BridgeAssumption DEF QuotaInv, UnderWay
  <2> QED
      BY <2>1 DEF QuotaInv
<1> QED
    BY <1>1, QuotaInvariance, PTL
-----------------------------------------------------------------------------
(* The bridge's types, and the sides of its glass.                         *)

LEMMA MachinesInBounds == \A m : Counted(m) => m \in Machines
<1> SUFFICES ASSUME NEW m, Counted(m) PROVE m \in Machines
    OBVIOUS
<1>1. MaxSteps \in Nat \ {0}
      BY BridgeAssumption
<1>2. CASE m = InitialMachine
      BY <1>1, <1>2 DEF InitialMachine, Machines, BridgeStates
<1>3. CASE m # InitialMachine
  <2>1. m \in Frames /\ CountedRun(m)
        BY <1>3 DEF Counted
  <2>2. Len(m.steps) \in 1..MaxSteps /\ m.steps \in Seq([q : BridgeQuestions, side : Side])
        BY <2>1, Glasses DEF CountedRun
  <2>3. m.index \in 1..Len(m.steps) /\ m.answered <= m.index /\ m.correct <= m.answered
        /\ m.best = m.correct /\ m.streak <= m.correct
    <3>1. m.index \in Nat /\ m.answered \in Nat /\ m.correct \in Nat /\ m.streak \in Nat
          BY <2>1 DEF Frames
    <3> QED
        BY <2>1, <3>1 DEF CountedRun
  <2>4. /\ m.index \in 1..MaxSteps /\ m.answered \in 0..MaxSteps /\ m.correct \in 0..MaxSteps
        /\ m.best \in 0..MaxSteps /\ m.streak \in 0..MaxSteps
    <3>1. /\ m.index \in Nat /\ m.answered \in Nat /\ m.correct \in Nat /\ m.streak \in Nat
          /\ Len(m.steps) \in Nat
          BY <1>1, <2>1, <2>2 DEF Frames
    <3> QED
        BY <1>1, <2>2, <2>3, <3>1
  <2> QED
      BY <2>1, <2>2, <2>4 DEF Frames, Machines
<1> QED
    BY <1>2, <1>3

Switches ==
    /\ ticking \in BOOLEAN /\ sceneReady \in BOOLEAN /\ loading \in BOOLEAN
    /\ pooled \in BOOLEAN /\ user \in {"checking", "guest", "member"}

LEMMA SwitchesStay == Switches /\ [BridgeNext]_bridgeVars => Switches'
<1> SUFFICES ASSUME Switches, [BridgeNext]_bridgeVars PROVE Switches'
    OBVIOUS
<1>1. ASSUME NEW m, Show(m), UNCHANGED <<sceneReady, loading, pooled, user>> PROVE Switches'
  <2> DEFINE same == m.epoch = shown.epoch /\ m.state = shown.state
  <2>1. ticking' = IF same THEN ticking ELSE m.state \in Timed
        BY <1>1, Zenon DEF Show
  <2> HIDE DEF same
  <2>2. ticking' \in BOOLEAN
    <3>1. CASE same
      <4>1. ticking' = ticking
            BY <2>1, <3>1
      <4> QED
          BY <4>1 DEF Switches
    <3>2. CASE ~same
      <4>1. ticking' = (m.state \in Timed)
            BY <2>1, <3>2
      <4> QED
          BY <4>1
    <3> QED
        BY <3>1, <3>2
  <2> QED
      BY <1>1, <2>2 DEF Switches
<1>2. CASE Render \/ BackToSetup \/ \E side \in Side : Answer(side)
      BY <1>1, <1>2 DEF Render, BackToSetup, Answer
<1>3. CASE \E kind \in {"first", "review"} : BeginRun(kind)
      BY <1>3 DEF BeginRun, Switches
<1>4. CASE PoolArrives \/ PoolFails
      BY <1>4 DEF PoolArrives, PoolFails, Switches
<1>5. CASE MarkSceneReady \/ CountdownDone \/ TimerFires
      BY <1>5 DEF MarkSceneReady, CountdownDone, TimerFires, TheRestWaits, Switches
<1>6. CASE UserKnown \/ UNCHANGED bridgeVars
      BY <1>6 DEF UserKnown, bridgeVars, Switches
<1> QED
    BY <1>2, <1>3, <1>4, <1>5, <1>6 DEF BridgeNext

\* Counts, rounds and runs stay within the length of a run, the quota and the
\* starts: an end is recorded once for a run that was begun, and no more often.
THEOREM BridgeTypeCorrectness == BridgeSpec => []BridgeTypeOK
<1>1. BridgeInit => Switches
      BY DEF BridgeInit, Switches
<1>2. BridgeInv /\ QuotaInv /\ Switches => BridgeTypeOK
  <2> SUFFICES ASSUME BridgeInv, QuotaInv, Switches PROVE BridgeTypeOK
      OBVIOUS
  <2>1. bridge \in Machines /\ shown \in Machines
        BY MachinesInBounds DEF BridgeInv
  <2>2. /\ history \in [begun : Nat, ended : Nat, early : Nat, before : Nat]
        /\ history.before \in 0..GuestLimit /\ GuestLimit \in Nat /\ MaxStarts \in Nat
        /\ UnderWay \in Nat /\ rounds \in Nat
        BY BridgeAssumption DEF QuotaInv, UnderWay
  <2>3. /\ history.begun \in 0..MaxStarts /\ history.ended \in 0..MaxStarts
        /\ history.early \in 0..MaxStarts
        BY <2>2 DEF QuotaInv
  <2>4. rounds \in 0..(GuestLimit + MaxStarts)
    <3>1. rounds <= history.before + history.ended
          BY DEF QuotaInv
    <3> QED
        BY <2>2, <2>3, <3>1
  <2>5. history \in [begun : 0..MaxStarts, ended : 0..MaxStarts, early : 0..MaxStarts,
                     before : 0..GuestLimit]
        BY <2>2, <2>3
  <2>6. {ticking, sceneReady, loading, pooled, endedRef} \subseteq BOOLEAN
        BY DEF Switches, QuotaInv
  <2> QED
      BY <2>1, <2>4, <2>5, <2>6 DEF BridgeTypeOK, Switches
<1> QED
    BY <1>1, <1>2, BridgeInvariance, QuotaInvariance, SwitchesStay, PTL DEF BridgeSpec

-----------------------------------------------------------------------------
(* The sides.                                                              *)

\* prepareSteps: whatever the lots, the right side is never the same more than
\* SideRun times in a row, as its comment promises.
THEOREM SidesVary ==
  \A length \in Nat : \A sides \in Sides(length) : \A i \in 1..length :
    i + SideRun <= length => \E j \in i..(i + SideRun) : sides[j] # sides[i]
<1> SUFFICES ASSUME NEW length \in Nat, NEW sides \in Sides(length), NEW i \in 1..length,
                    i + SideRun <= length, \A j \in i..(i + SideRun) : sides[j] = sides[i]
             PROVE  FALSE
    OBVIOUS
<1> DEFINE k == i + SideRun
           before == SubSeq(sides, 1, k - 1)
           row == {h \in DOMAIN before : \A j \in h..Len(before) : before[j] = LastSide(before)}
<1>1. i \in Nat /\ k \in Nat /\ SideRun \in Nat \ {0} /\ k \in 1..length /\ i <= k - 1 /\ k - 1 \in Nat
      BY BridgeAssumption
<1>2. sides \in [1..length -> Side] /\ sides \in Seq(Side) /\ Len(sides) = length
      BY DEF Sides
<1>3. Len(before) = k - 1 /\ DOMAIN before = 1..(k - 1)
      /\ \A j \in 1..(k - 1) : before[j] = sides[j]
  <2>1. before = [j \in 1..(k - 1) |-> sides[j]]
        BY <1>1, <1>2
  <2> HIDE DEF before, k
  <2>2. \A j \in 1..(k - 1) : j \in 1..length
        BY <1>1
  <2>3. before \in [1..(k - 1) -> Side]
        BY <1>2, <2>1, <2>2
  <2> QED
      BY <1>1, <2>1, <2>3
<1>4. sides[k] = sides[i] /\ \A j \in i..(k - 1) : before[j] = sides[i]
      BY <1>1, <1>3
<1>5. PICK side \in Side : sides[k] = Seated(side, before)
      BY <1>1 DEF Sides
<1> HIDE DEF before, k
<1>6. LastSide(before) = sides[i]
  <2>1. before # <<>> /\ k - 1 \in i..(k - 1)
        BY <1>1, <1>3
  <2> QED
      BY <1>3, <1>4, <2>1 DEF LastSide
<1>7. RunLength(before) >= SideRun
  <2>1. i..(k - 1) \subseteq row
    <3> SUFFICES ASSUME NEW h \in i..(k - 1) PROVE h \in row
        OBVIOUS
    <3>1. h \in 1..(k - 1)
          BY <1>1
    <3>2. \A j \in h..(k - 1) : j \in i..(k - 1)
          BY <1>1
    <3>3. h \in DOMAIN before /\ Len(before) = k - 1
          BY <1>3, <3>1
    <3>4. \A j \in h..Len(before) : before[j] = LastSide(before)
          BY <1>4, <1>6, <3>2, <3>3
    <3> QED
        BY <3>3, <3>4
  <2>2. row \subseteq 1..(k - 1)
        BY <1>3
  <2>3. RunLength(before) = Cardinality(row)
        BY DEF RunLength
  <2> HIDE DEF row
  <2>4. IsFiniteSet(1..(k - 1))
        BY <1>1, FS_Interval
  <2>5. IsFiniteSet(row)
        BY <2>2, <2>4, FS_Subset
  <2>6. Cardinality(i..(k - 1)) <= Cardinality(row)
        BY <2>1, <2>5, FS_Subset
  <2>7. Cardinality(i..(k - 1)) = SideRun
    <3>1. Cardinality(i..(k - 1)) = (k - 1) - i + 1
          BY <1>1, FS_Interval
    <3> QED
        BY <1>1, <3>1 DEF k
  <2> QED
      BY <2>3, <2>6, <2>7
<1>8. CASE side = LastSide(before)
  <2>1. sides[k] = Other(side)
        BY <1>5, <1>7, <1>8 DEF Seated
  <2>2. Other(side) # side
        BY DEF Side, Other
  <2> QED
      BY <1>4, <1>6, <1>8, <2>1, <2>2
<1>9. CASE side # LastSide(before)
  <2>1. sides[k] = side
        BY <1>5, <1>9 DEF Seated
  <2> QED
      BY <1>4, <1>6, <1>9, <2>1
<1> QED
    BY <1>8, <1>9

-----------------------------------------------------------------------------
\* What the search decides is what the game is promised: Admitted of module
\* GrammarCircuit speaks of boards and pieces, the search of roles and numbers.

PiecesOf(q, r) == {p \in Pieces : q.role[p] = r}

\* compile: code gives every role its index.
Compiled(q, pb, code) ==
    /\ q \in Question /\ pb \in Problems /\ IsFiniteSet(Pieces)
    /\ code \in [Roles -> RoleIndex] /\ \A r, t \in Roles : code[r] = code[t] => r = t
    /\ SlotsOf(pb) = Slots
    /\ \A s \in Slots : pb.slotRoles[s] = {code[r] : r \in q.accepts[s]}
    /\ \A r \in Roles : pb.capacities[code[r]] = Cardinality(PiecesOf(q, r))

\* More lies on a board: pieces that fit, of the roles that g wants for D.
Extends(q, code, more, board, D, g) ==
    /\ Sound(q, more) /\ Filled(more) = Filled(board) \cup D
    /\ \A s \in Filled(board) : more[s] = board[s]
    /\ \A s \in D : code[q.role[more[s]]] = g[s]

RolesOn(q, code, board) == [s \in Filled(board) |-> code[q.role[board[s]]]]

LEMMA CompiledShape ==
  ASSUME NEW q, NEW pb, NEW code, Compiled(q, pb, code)
  PROVE  /\ q.role \in [Pieces -> Roles] /\ q.accepts \in [Slots -> SUBSET Roles]
         /\ pb \in Problems /\ SlotsOf(pb) = Slots /\ IsFiniteSet(Slots)
         /\ code \in [Roles -> RoleIndex] /\ \A r, t \in Roles : code[r] = code[t] => r = t
         /\ \A r \in Roles : /\ IsFiniteSet(PiecesOf(q, r))
                             /\ Cardinality(PiecesOf(q, r)) \in Nat
                             /\ pb.capacities[code[r]] = Cardinality(PiecesOf(q, r))
         /\ NoPiece \notin Pieces
<1>1. \A r \in Roles : IsFiniteSet(PiecesOf(q, r)) /\ Cardinality(PiecesOf(q, r)) \in Nat
  <2> TAKE r \in Roles
  <2>1. PiecesOf(q, r) \subseteq Pieces /\ IsFiniteSet(Pieces)
    BY DEF PiecesOf, Compiled
  <2> QED
    BY <2>1, FS_Subset, FS_CardinalityType
<1>2. IsFiniteSet(Slots)
  BY ProblemShape DEF Compiled
<1> QED
  BY <1>1, <1>2, CircuitAssumption DEF Compiled, Question

\* The roles on a sound board are a choice: no role has more pieces on the board
\* than there are.
LEMMA SoundIsAChoice ==
  ASSUME NEW q, NEW pb, NEW code, Compiled(q, pb, code), NEW board \in Boards, Sound(q, board)
  PROVE  RolesOn(q, code, board) \in PartialChoices(pb)
<1> DEFINE f == RolesOn(q, code, board)
<1>1. /\ DOMAIN f = Filled(board) /\ Filled(board) \subseteq Slots
      /\ \A s \in Filled(board) : f[s] = code[q.role[board[s]]] /\ board[s] \in Pieces
                                  /\ q.role[board[s]] \in Roles
  BY CompiledShape DEF RolesOn, Filled, Boards
<1>2. f \in [DOMAIN f -> RoleIndex]
  BY <1>1, CompiledShape DEF RolesOn
<1> HIDE DEF f
<1>3. Accepted(pb.slotRoles, f)
  <2> SUFFICES ASSUME NEW s \in Filled(board) PROVE f[s] \in pb.slotRoles[s]
    BY <1>1 DEF Accepted
  <2>1. q.role[board[s]] \in q.accepts[s]
    BY DEF Sound, Fits
  <2> QED
    BY <1>1, <2>1 DEF Compiled
<1>4. Affordable(f, pb.capacities)
  <2> SUFFICES ASSUME NEW i \in RoleIndex PROVE HowMany(f, i) <= pb.capacities[i]
    BY DEF Affordable
  <2> DEFINE S == {s \in DOMAIN f : f[s] = i}
  <2>1. CASE \E r \in Roles : code[r] = i
    <3>1. PICK r \in Roles : code[r] = i
      BY <2>1
    <3> DEFINE h == [s \in S |-> board[s]]
    <3>2. \A s \in S : board[s] \in PiecesOf(q, r)
      BY <1>1, <3>1, CompiledShape DEF PiecesOf
    <3>3. \A s, t \in S : board[s] = board[t] => s = t
      BY <1>1 DEF Sound, Legal
    <3> HIDE DEF S
    <3>4. h \in Injection(S, PiecesOf(q, r))
      BY <3>2, <3>3 DEF Injection, IsInjective
    <3>5. Cardinality(S) <= Cardinality(PiecesOf(q, r))
      BY <3>1, <3>4, CompiledShape, FS_Injection
    <3> QED
      BY <3>1, <3>5, CompiledShape DEF HowMany, S
  <2>2. CASE \A r \in Roles : code[r] # i
    <3>1. S = {}
      BY <1>1, <2>2
    <3>2. HowMany(f, i) = 0
      BY <3>1, FS_EmptySet DEF HowMany
    <3> QED
      BY <3>2, ProblemShape, CompiledShape, MatchingAssumption DEF Stock
  <2> QED
    BY <2>1, <2>2
<1>5. DOMAIN f \subseteq SlotsOf(pb)
  BY <1>1, CompiledShape
<1> QED
  BY <1>2, <1>3, <1>4, <1>5 DEF PartialChoices, f

\* What is afforded on top of a sound board can be laid with pieces.
LEMMA PiecesAreThere ==
  ASSUME NEW q, NEW pb, NEW code, Compiled(q, pb, code), NEW board \in Boards, Sound(q, board),
         NEW D \in SUBSET (Slots \ Filled(board)), NEW g \in [D -> RoleIndex],
         Accepted(pb.slotRoles, g),
         \A r \in Roles : HowMany(g, code[r]) + HowMany(RolesOn(q, code, board), code[r])
                            <= pb.capacities[code[r]]
  PROVE  \E more \in Boards : Extends(q, code, more, board, D, g)
<1> DEFINE f == RolesOn(q, code, board)
           lack(r) == {s \in D : g[s] = code[r]}
           laid(r) == {s \in Filled(board) : f[s] = code[r]}
           gone(r) == {board[s] : s \in laid(r)}
           free(r) == PiecesOf(q, r) \ gone(r)
<1>1. /\ DOMAIN f = Filled(board) /\ Filled(board) \subseteq Slots /\ DOMAIN g = D
      /\ \A s \in Filled(board) : f[s] = code[q.role[board[s]]] /\ board[s] \in Pieces
                                  /\ q.role[board[s]] \in Roles
  BY CompiledShape DEF RolesOn, Filled, Boards
<1> HIDE DEF f
<1>2. ASSUME NEW r \in Roles
      PROVE  /\ IsFiniteSet(lack(r)) /\ IsFiniteSet(free(r))
             /\ Cardinality(lack(r)) <= Cardinality(free(r))
  <2>1. IsFiniteSet(lack(r)) /\ IsFiniteSet(laid(r))
    BY <1>1, CompiledShape, FS_Subset
  <2>2. Cardinality(lack(r)) \in Nat /\ Cardinality(laid(r)) \in Nat
    BY <2>1, FS_CardinalityType
  <2>3. Cardinality(lack(r)) + Cardinality(laid(r)) <= Cardinality(PiecesOf(q, r))
    BY <1>1, CompiledShape DEF HowMany, f
  <2>4. IsFiniteSet(gone(r)) /\ Cardinality(gone(r)) <= Cardinality(laid(r))
    <3> DEFINE h == [s \in laid(r) |-> board[s]]
    <3>1. h \in Surjection(laid(r), gone(r))
      BY DEF Surjection
    <3> HIDE DEF h
    <3> QED
      BY <2>1, <3>1, FS_Surjection
  <2>5. gone(r) \subseteq PiecesOf(q, r)
    BY <1>1, CompiledShape DEF PiecesOf
  <2>6. PiecesOf(q, r) \cap gone(r) = gone(r)
    BY <2>5
  <2> HIDE DEF lack, laid, gone
  <2>7. IsFiniteSet(free(r))
        /\ Cardinality(free(r)) = Cardinality(PiecesOf(q, r)) - Cardinality(gone(r))
    BY <2>6, CompiledShape, FS_Difference
  <2>8. Cardinality(gone(r)) \in Nat /\ Cardinality(PiecesOf(q, r)) \in Nat
    BY <2>4, CompiledShape, FS_CardinalityType
  <2> HIDE DEF free
  <2> QED
    BY <2>1, <2>2, <2>3, <2>4, <2>7, <2>8
<1> HIDE DEF lack, free
<1> DEFINE lay == [r \in Roles |-> CHOOSE h \in [lack(r) -> free(r)] :
                                      \A s, t \in lack(r) : h[s] = h[t] => s = t]
           role == [s \in D |-> CHOOSE r \in q.accepts[s] : code[r] = g[s]]
           more == [s \in Slots |-> IF s \in D THEN lay[role[s]][s] ELSE board[s]]
<1>3. \A r \in Roles : /\ lay[r] \in [lack(r) -> free(r)]
                       /\ \A s, t \in lack(r) : lay[r][s] = lay[r][t] => s = t
  <2> TAKE r \in Roles
  <2>1. \E h \in [lack(r) -> free(r)] : \A s, t \in lack(r) : h[s] = h[t] => s = t
    BY <1>2, InjectionExists
  <2> QED
    BY <2>1
<1>4. \A s \in D : /\ role[s] \in q.accepts[s] /\ code[role[s]] = g[s]
                   /\ role[s] \in Roles /\ s \in lack(role[s])
  <2> TAKE s \in D
  <2>1. g[s] \in {code[r] : r \in q.accepts[s]}
    BY <1>1 DEF Accepted, Compiled
  <2>2. role[s] \in q.accepts[s] /\ code[role[s]] = g[s]
    BY <2>1
  <2>3. role[s] \in Roles
    BY <2>2, CompiledShape
  <2> QED
    BY <2>2, <2>3 DEF lack
<1> HIDE DEF lay, role
<1>5. \A s \in D : /\ more[s] \in Pieces /\ q.role[more[s]] = role[s]
                   /\ more[s] = lay[role[s]][s] /\ more[s] \in free(role[s])
  <2> TAKE s \in D
  <2>1. more[s] = lay[role[s]][s] /\ more[s] \in free(role[s])
    BY <1>3, <1>4
  <2> QED
    BY <2>1 DEF free, PiecesOf
<1>6. \A s \in Slots \ D : more[s] = board[s]
  OBVIOUS
<1>7. more \in Boards
  BY <1>5 DEF Boards
<1> HIDE DEF more
<1>8. Filled(more) = Filled(board) \cup D
  BY <1>1, <1>5, <1>6, CompiledShape DEF Filled
<1>9. \A s \in Filled(board) : more[s] = board[s]
  BY <1>1, <1>6
<1>10. ASSUME NEW s \in Filled(board), NEW t \in D, more[s] = more[t] PROVE FALSE
  <2>1. board[s] \in free(role[t]) /\ q.role[board[s]] = role[t]
    BY <1>5, <1>9, <1>10
  <2>2. s \in laid(role[t])
    BY <1>1, <2>1
  <2> QED
    BY <2>1, <2>2 DEF free
<1>11. Legal(more)
  <2> SUFFICES ASSUME NEW s \in Filled(more), NEW t \in Filled(more), more[s] = more[t]
               PROVE  s = t
    BY DEF Legal
  <2>1. CASE s \in D /\ t \in D
    <3>1. role[s] = role[t]
      BY <1>5, <2>1
    <3>2. lay[role[s]][s] = lay[role[s]][t] /\ s \in lack(role[s]) /\ t \in lack(role[s])
      BY <1>4, <1>5, <2>1, <3>1
    <3> QED
      BY <1>3, <1>4, <2>1, <3>2
  <2>2. CASE s \in Filled(board) /\ t \in Filled(board)
    BY <1>9, <2>2 DEF Sound, Legal
  <2> QED
    BY <1>8, <1>10, <2>1, <2>2
<1>12. \A s \in Filled(more) : Fits(q, more, s)
  <2> TAKE s \in Filled(more)
  <2>1. more[s] # NoPiece
    BY DEF Filled
  <2>2. CASE s \in D
    BY <1>4, <1>5, <2>1, <2>2 DEF Fits
  <2>3. CASE s \in Filled(board)
    BY <1>9, <2>1, <2>3 DEF Fits, Sound
  <2> QED
    BY <1>8, <2>2, <2>3
<1>13. \A s \in D : code[q.role[more[s]]] = g[s]
  BY <1>4, <1>5
<1> QED
  BY <1>7, <1>8, <1>9, <1>11, <1>12, <1>13 DEF Sound, Extends

\* A board on which nothing lies, and what its roles are.
LEMMA BareIsSound ==
  ASSUME NEW q
  PROVE  BareBoard \in Boards /\ Sound(q, BareBoard) /\ Filled(BareBoard) = {}
<1>1. BareBoard \in Boards /\ Filled(BareBoard) = {}
  BY DEF BareBoard, Boards, Filled
<1> QED
  BY <1>1 DEF Sound, Legal

\* A question that the search's definition accepts is safe on the board.
LEMMA LogicIsSafe ==
  ASSUME NEW q, NEW pb, NEW code, Compiled(q, pb, code), ByLogic(pb)
  PROVE  Admitted(q)
<1>1. ASSUME NEW board \in Boards, Sound(q, board)
      PROVE  \E whole \in Boards : Completes(q, whole, board)
  <2> DEFINE f == RolesOn(q, code, board)
             D == Slots \ Filled(board)
             left == [r \in RoleIndex |-> pb.capacities[r] - HowMany(f, r)]
  <2>1. f \in PartialChoices(pb) /\ DOMAIN f = Filled(board)
    BY <1>1, SoundIsAChoice DEF RolesOn
  <2>2. Left(pb, Taken(f)) = left /\ \A r \in RoleIndex : HowMany(f, r) \in Nat
    BY <2>1, CompiledShape, ChoiceShape
  <2>3. Assignable(pb.slotRoles, D, left)
    <3>1. pb \in Problems /\ SlotsOf(pb) \ DOMAIN f = D
      BY <2>1, CompiledShape
    <3> HIDE DEF f, D
    <3>2. Assignable(pb.slotRoles, SlotsOf(pb) \ DOMAIN f, Left(pb, Taken(f)))
      BY <2>1, <3>1, ByLogicOfChoices
    <3> QED
      BY <2>2, <3>1, <3>2
  <2> HIDE DEF f, D
  <2>4. PICK g \in [D -> RoleIndex] : Accepted(pb.slotRoles, g) /\ Affordable(g, left)
    BY <2>3 DEF Assignable
  <2>5. ASSUME NEW r \in Roles
        PROVE  HowMany(g, code[r]) + HowMany(f, code[r]) <= pb.capacities[code[r]]
    <3>1. code[r] \in RoleIndex
      BY CompiledShape
    <3>2. HowMany(g, code[r]) <= pb.capacities[code[r]] - HowMany(f, code[r])
      BY <2>4, <3>1 DEF Affordable
    <3>3. HowMany(g, code[r]) \in Nat
      BY CompiledShape, HowManyType DEF D
    <3>4. pb.capacities[code[r]] \in Nat /\ HowMany(f, code[r]) \in Nat
      BY <2>2, <3>1, CompiledShape
    <3> QED
      BY <3>2, <3>3, <3>4
  <2>6. PICK more \in Boards : Extends(q, code, more, board, D, g)
    <3>1. D \in SUBSET (Slots \ Filled(board))
      BY DEF D
    <3>2. \A r \in Roles : HowMany(g, code[r]) + HowMany(RolesOn(q, code, board), code[r])
                             <= pb.capacities[code[r]]
      BY <2>5 DEF f
    <3> HIDE DEF left
    <3>3. g \in [D -> RoleIndex] /\ Accepted(pb.slotRoles, g)
      BY <2>4
    <3> QED
      BY <1>1, <3>1, <3>2, <3>3, PiecesAreThere
  <2>7. Filled(more) = Slots
    BY <2>6 DEF D, Filled, Extends
  <2>8. Completes(q, more, board)
    BY <2>6, <2>7 DEF Completes, Solution, Sound, Extends
  <2> QED
    BY <2>8
<1>2. ChoiceSafe(q)
  BY <1>1 DEF ChoiceSafe
<1>3. HasCompleteAssignment(q)
  BY <1>2, BareIsSound DEF ChoiceSafe, HasCompleteAssignment, Completes
<1> QED
  BY <1>2, <1>3 DEF Admitted

\* And a question that is safe on the board the search's definition accepts.
LEMMA SafeIsLogic ==
  ASSUME NEW q, NEW pb, NEW code, Compiled(q, pb, code), Admitted(q)
  PROVE  ByLogic(pb)
<1> SUFFICES ASSUME NEW f \in PartialChoices(pb)
             PROVE  Assignable(pb.slotRoles, SlotsOf(pb) \ DOMAIN f, Left(pb, Taken(f)))
  BY CompiledShape, ByLogicOfChoices
<1> DEFINE some == DOMAIN f
           left == Left(pb, Taken(f))
<1>1. /\ some \subseteq Slots /\ f \in [some -> RoleIndex] /\ Accepted(pb.slotRoles, f)
      /\ Affordable(f, pb.capacities) /\ \A r \in RoleIndex : HowMany(f, r) \in Nat
      /\ left = [r \in RoleIndex |-> pb.capacities[r] - HowMany(f, r)]
  BY CompiledShape, ChoiceShape
<1> HIDE DEF left
<1>2. \A r : HowMany(RolesOn(q, code, BareBoard), r) = 0
  <2> TAKE r
  <2>1. DOMAIN RolesOn(q, code, BareBoard) = {}
    BY BareIsSound DEF RolesOn
  <2>2. {s \in DOMAIN RolesOn(q, code, BareBoard) :
            RolesOn(q, code, BareBoard)[s] = r} = {}
    BY <2>1
  <2> QED
    BY <2>2, FS_EmptySet DEF HowMany
<1>3. \A r \in Roles :
        HowMany(f, code[r]) + HowMany(RolesOn(q, code, BareBoard), code[r])
          <= pb.capacities[code[r]]
  <2> TAKE r \in Roles
  <2>1. code[r] \in RoleIndex
    BY CompiledShape
  <2>2. HowMany(f, code[r]) \in Nat /\ HowMany(f, code[r]) <= pb.capacities[code[r]]
    BY <1>1, <2>1 DEF Affordable
  <2>3. HowMany(f, code[r]) + 0 = HowMany(f, code[r])
    BY <2>2
  <2> QED
    BY <1>2, <2>2, <2>3
<1>4. PICK board \in Boards :
        /\ Sound(q, board) /\ Filled(board) = some
        /\ \A s \in some : code[q.role[board[s]]] = f[s]
  <2>1. some \in SUBSET (Slots \ Filled(BareBoard)) /\ some = Filled(BareBoard) \cup some
    BY <1>1, BareIsSound
  <2>2. f \in [some -> RoleIndex] /\ Accepted(pb.slotRoles, f)
    BY <1>1
  <2>3. PICK bare \in Boards : bare = BareBoard /\ Sound(q, bare)
    BY BareIsSound
  <2>4. \A r \in Roles :
          HowMany(f, code[r]) + HowMany(RolesOn(q, code, bare), code[r]) <= pb.capacities[code[r]]
    BY <1>3, <2>3
  <2>5. some \in SUBSET (Slots \ Filled(bare)) /\ some = Filled(bare) \cup some
    BY <2>1, <2>3
  <2> HIDE DEF some
  <2>6. PICK more \in Boards : Extends(q, code, more, bare, some, f)
    BY <2>2, <2>3, <2>4, <2>5, PiecesAreThere
  <2> QED
    BY <2>5, <2>6 DEF Extends
<1>5. PICK whole \in Boards : Completes(q, whole, board)
  BY <1>4 DEF Admitted, ChoiceSafe
<1>6. /\ Sound(q, whole) /\ Filled(whole) = Slots
      /\ \A s \in some : whole[s] = board[s]
  BY <1>4, <1>5 DEF Completes, Solution, Sound, Fits, Filled
<1> DEFINE all == RolesOn(q, code, whole)
           rest == Slots \ some
           g == [s \in rest |-> all[s]]
<1>7. all \in PartialChoices(pb) /\ DOMAIN all = Slots
  BY <1>6, SoundIsAChoice DEF RolesOn
<1>8. /\ all \in [Slots -> RoleIndex] /\ Accepted(pb.slotRoles, all)
      /\ Affordable(all, pb.capacities)
  BY <1>7, CompiledShape, ChoiceShape
<1>9. \A s \in some : all[s] = f[s]
  BY <1>1, <1>4, <1>6 DEF RolesOn
<1> HIDE DEF all, some
<1>10. g \in [rest -> RoleIndex] /\ DOMAIN g = rest /\ \A s \in rest : g[s] = all[s]
  BY <1>8
<1> HIDE DEF g
<1>11. Accepted(pb.slotRoles, g)
  BY <1>8, <1>10 DEF Accepted
<1>12. ASSUME NEW r \in RoleIndex PROVE HowMany(g, r) <= left[r]
  <2> DEFINE A == {s \in DOMAIN f : f[s] = r}
             B == {s \in DOMAIN g : g[s] = r}
             C == {s \in DOMAIN all : all[s] = r}
  <2>1. C = A \cup B /\ A \cap B = {}
    BY <1>1, <1>8, <1>9, <1>10 DEF some
  <2>2. IsFiniteSet(A) /\ IsFiniteSet(B)
    BY <1>1, <1>10, CompiledShape, FS_Subset DEF some
  <2> HIDE DEF A, B, C
  <2>3. Cardinality(A \cap B) = 0
    BY <2>1, FS_EmptySet
  <2>4. Cardinality(C) = Cardinality(A) + Cardinality(B) - 0
    BY <2>1, <2>2, <2>3, FS_Union
  <2>5. Cardinality(A) \in Nat /\ Cardinality(B) \in Nat
    BY <2>2, FS_CardinalityType
  <2>6. /\ HowMany(f, r) = Cardinality(A) /\ HowMany(g, r) = Cardinality(B)
        /\ HowMany(all, r) = Cardinality(C)
    BY DEF HowMany, A, B, C
  <2>7. HowMany(all, r) <= pb.capacities[r]
    BY <1>8 DEF Affordable
  <2>8. left[r] = pb.capacities[r] - HowMany(f, r)
    BY <1>1
  <2>9. pb.capacities[r] \in Nat
    BY CompiledShape, ProblemShape, MatchingAssumption DEF Stock
  <2> QED
    BY <2>4, <2>5, <2>6, <2>7, <2>8, <2>9
<1>13. Assignable(pb.slotRoles, rest, left)
  BY <1>10, <1>11, <1>12 DEF Assignable, Affordable
<1> QED
  BY <1>13, CompiledShape DEF some, left

\* isChoiceSafe accepts the questions of which module GrammarCircuit assumes that
\* they are admitted, and no others: whatever pieces have been put where they fit,
\* the board can be completed.
THEOREM SearchAdmits ==
  ASSUME NEW q, NEW code
  PROVE  MatchingSpec /\ Compiled(q, problem, code)
         => [](/\ verdict = "safe" => Admitted(q)
               /\ verdict = "unsafe" => ~Admitted(q))
<1> DEFINE Same == Compiled(q, problem, code)
           Verdict == /\ verdict = "safe" => Admitted(q)
                      /\ verdict = "unsafe" => ~Admitted(q)
<1>1. Same /\ [Visit]_matchingVars => Same'
  BY DEF Visit, matchingVars
<1>2. SearchInv /\ Same => Verdict
  <2> SUFFICES ASSUME SearchInv, Same PROVE Verdict
    OBVIOUS
  <2>1. ASSUME verdict = "safe" PROVE Admitted(q)
    BY <2>1, SafeMeansByLogic, LogicIsSafe
  <2>2. ASSUME verdict = "unsafe", Admitted(q) PROVE FALSE
    <3>1. ~ByLogic(problem)
      BY <2>2 DEF SearchInv
    <3> QED
      BY <2>2, <3>1, SafeIsLogic
  <2> QED
    BY <2>1, <2>2
<1> QED
  BY <1>1, <1>2, SearchInvariance, PTL DEF MatchingSpec
=============================================================================
