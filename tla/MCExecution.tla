---------------------------- MODULE MCExecution -----------------------------
(* A compilation and the execution of its output, for TLC. *)
EXTENDS Execution, PassProperties, Vocabulary
=============================================================================
