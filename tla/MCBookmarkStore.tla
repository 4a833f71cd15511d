--------------------------- MODULE MCBookmarkStore ---------------------------
(* Values for the constants of BookmarkStore: the pill and the modal of    *)
(* VocabGame show the flag of one word; a round may have another word.     *)
EXTENDS BookmarkStore

CONSTANTS q1, q2, pill, modal

ShowOne == [b \in Button |-> q1]
=============================================================================
