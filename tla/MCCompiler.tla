----------------------------- MODULE MCCompiler -----------------------------
(* One compilation, for TLC. *)
EXTENDS PassProperties, CompilerInvariant, Vocabulary
=============================================================================
