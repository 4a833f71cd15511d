----------------------------- MODULE LoginFamily -----------------------------
(***************************************************************************)
(* What the session store of Sarva promises about one sign-in, with no row,*)
(* token, lock or transaction in sight.                                    *)
(*                                                                         *)
(* Every sign-in starts a "family" (sessions.family_id,                    *)
(* migrations/014_refresh_rotation.sql).  However often its refresh token  *)
(* is rotated afterwards, the family                                       *)
(*   - opens once,                                                         *)
(*   - keeps the deadline it was opened with, and                          *)
(*   - once closed (sign-out, password change, ban, reuse of a burnt       *)
(*     token) is never open again.                                         *)
(***************************************************************************)
EXTENDS FiniteSets

CONSTANTS Family,     \* every sign-in there can be
          Deadline    \* the moments a sign-in may expire at

VARIABLES status,     \* [Family -> {"unborn", "open", "closed"}]
          deadlines   \* [Family -> the deadlines its sessions ever carried]

vars == <<status, deadlines>>

TypeOK == /\ status \in [Family -> {"unborn", "open", "closed"}]
          /\ deadlines \in [Family -> SUBSET Deadline]

Init == /\ status = [f \in Family |-> "unborn"]
        /\ deadlines = [f \in Family |-> {}]

(* A sign-in.                                                              *)
Open(f) == /\ status[f] = "unborn"
           /\ status' = [status EXCEPT ![f] = "open"]
           /\ \E d \in Deadline : deadlines' = [deadlines EXCEPT ![f] = {d}]

(* One statement of the database may close several families at once.      *)
Close(F) == /\ \A f \in F : status[f] = "open"
            /\ status' = [f \in Family |->
                            IF f \in F THEN "closed" ELSE status[f]]
            /\ UNCHANGED deadlines

Next == \/ \E f \in Family : Open(f)
        \/ \E F \in SUBSET Family : Close(F)

Spec == Init /\ [][Next]_vars
=============================================================================
