-------------------------- MODULE RequestLifecycle --------------------------
(* What a client may believe of a booking request it talks to: the status    *)
(* moves only by operations that succeed, each in one step and only from a   *)
(* status the operation accepts; a failed operation does not move it.  Once  *)
(* an operation was left half done (torn) nothing is promised any more.      *)

VARIABLES status, torn

vars == <<status, torn>>

Statuses == {"PENDING", "RESERVED", "CANCELED", "RESCINDED", "gone"}

Init == status = "PENDING" /\ torn = FALSE

Confirm == status = "PENDING" /\ status' = "RESERVED"
Close   == status \in {"PENDING", "RESERVED"} /\ status' \in {"CANCELED", "RESCINDED"}
Delete  == status # "gone" /\ status' = "gone"

Succeed == ~torn /\ UNCHANGED torn /\ (Confirm \/ Close \/ Delete)
Tear    == torn' = TRUE /\ status' \in Statuses

Next == Succeed \/ Tear

Spec == Init /\ [][Next]_vars
=============================================================================
