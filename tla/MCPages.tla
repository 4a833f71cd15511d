------------------------------ MODULE MCPages ------------------------------
EXTENDS Pages, TLC

CONSTANTS p1, p2, a, b, word, pill, modal

AB == p1 :> a @@ p2 :> b

\* Two solutions, one solution, and a question that is solvable but not safe.
MCQuestions ==
    {[accepts |-> <<{a, b}, {a, b}>>, role |-> AB],
     [accepts |-> <<{b}, {a}>>, role |-> AB],
     [accepts |-> <<{a, b}, {a}>>, role |-> AB]}

\* The pill and the modal of VocabGame show the flag of one word.
ShowOneWord == [k \in Button |-> word]
=============================================================================
