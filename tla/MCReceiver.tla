----------------------------- MODULE MCReceiver -----------------------------
(* A code of two bits with both bit values. *)
EXTENDS IRReceiver

MCRemoteCode == {<<1, 0>>}
=============================================================================
