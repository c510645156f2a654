------------------------------- MODULE MCPins -------------------------------
(* A0 and the servos' A4 and A5 are on one port, 9 and 10 on one timer. *)
EXTENDS Pins

MCPin == {9, 10, 14, 18, 19}
MCHandlerPin == {18, 19}
=============================================================================
