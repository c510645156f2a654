----------------------------- MODULE MCLibrary -----------------------------
(* What a compiled program calls: the functions for a robot with its        *)
(* numbers, and those that wait.  They share no state, so a behaviour has   *)
(* one of the two only.                                                     *)
EXTENDS Robot, Waits

(* Every angle and the values around each limit; ranges up to the ends of   *)
(* an int8_t and beyond.  Integer types of 3, 5 and 7 bits, and the numbers *)
(* around the ends of each, with and without a sign.                        *)
MCValue == (-1..181) \cup {199, 200, 543, 544, 545, 1500, 2399, 2400, 2401, 3000}
MCPulseRange == { <<544, 2400>>, <<1000, 2000>>, <<36, 2912>>, <<1057, 1891>>, <<1060, 1500>> }
MCInts == (0..9) \cup (14..17) \cup (30..33) \cup {40}
MCHalves == {-8, -3} \cup (-1..4) \cup (6..9) \cup (13..17) \cup (30..33) \cup (62..65) \cup {80}
MCADC == 0..3

VARIABLE waits      \* whether this behaviour is one of Waits
libraryVars == <<vars, waitsVars, waits>>

Waiting(A) == waits /\ A /\ UNCHANGED <<vars, waits>>

LibraryInit == /\ Init /\ WaitsInit
               /\ waits \in BOOLEAN
               /\ waits => uses = "numbers" /\ servoIndex = 0
LibraryNext == \/ ~waits /\ Next /\ UNCHANGED <<waitsVars, waits>>
               \/ Waiting(WaitsNext)
LibrarySpec == /\ LibraryInit /\ [][LibraryNext]_libraryVars
               /\ WF_libraryVars(Waiting(Tick)) /\ WF_libraryVars(Waiting(Program))
=============================================================================
