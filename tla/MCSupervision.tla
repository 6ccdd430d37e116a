----------------------------- MODULE MCSupervision -----------------------------
(* Instances of Supervision for TLC. *)
EXTENDS Supervision

OneGroup == <<"g0">>
Shutdown == <<"OP", "PREOP">>
=============================================================================
