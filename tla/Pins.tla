-------------------------------- MODULE Pins --------------------------------
(***************************************************************************)
(* The functions of the pins at work.  A register is shared by all pins of *)
(* a port or of a timer, and a pin is a bit of it.  The program changes    *)
(* pins, and so do the handlers of interrupts (Servo.cpp 52-75,            *)
(* IRReadOnlyRemote.cpp 233).                                              *)
(***************************************************************************)
EXTENDS Digital

CONSTANTS
  Pin,           \* the pins in use
  HandlerPin     \* those that handlers write and read; the program uses the others

(* setup() of stdc_avr.cpp gives the handlers pins 2 and A4.                *)
ASSUME PinsAssumption ==
  /\ HandlerPin \subseteq Pin /\ Pin \subseteq DigitalPin
  /\ \A p \in HandlerPin : digitalPinToTimer(p) = NOT_ON_TIMER

VARIABLE
  wanted         \* history: for each pin, what its last functions ask for

vars == <<avrVars, wanted>>

-----------------------------------------------------------------------------
(* What a function leaves the pins of its instructions at.                  *)
Registers(p) == {"mode", "output"} \cup (IF OnTimer(p) THEN {"timer"} ELSE {})
Changes(i, p, of) == i.register = RegisterOf(p, of) /\ BitOf(p, of) \in i.clear \cup i.set
LastChange(instructions, k, p, of) ==
  /\ Changes(instructions[k], p, of)
  /\ \A j \in k+1..Len(instructions) : ~Changes(instructions[j], p, of)
Wanted(instructions) ==
  [p \in Pin |-> [of \in Registers(p) |->
    LET last == { k \in DOMAIN instructions : LastChange(instructions, k, p, of) }
    IN  IF last = {} THEN wanted[p][of]
        ELSE \E k \in last : BitOf(p, of) \in instructions[k].set ]]

Calls(p) ==
  { PinMode(p, mode) : mode \in {"INPUT", "INPUT_PULLUP", "OUTPUT"} }
  \cup { DigitalWrite(p, val) : val \in {"LOW", "HIGH"} }
  \cup { DigitalRead(p) }
  \cup { AnalogWrite(p, val) : val \in {0, 127, 128, 255} }

ProgramCalls == \E p \in Pin \ HandlerPin : \E f \in Calls(p) \ {<< >>} :
  ProgramStarts(f) /\ wanted' = Wanted(f)

(* The handler of the servos' timer ends a pulse, begins another, or both.  *)
(* The one of the infrared receiver reads its pin, on no timer: it stores   *)
(* nothing.                                                                 *)
Pulses == { DigitalWrite(p, val) : p \in HandlerPin, val \in {"LOW", "HIGH"} }
          \cup { DigitalWrite(pq[1], "LOW") \o DigitalWrite(pq[2], "HIGH") :
                   pq \in { x \in HandlerPin \X HandlerPin : x[1] # x[2] } }
Interrupt == \E f \in Pulses : HandlerStarts(f) /\ wanted' = Wanted(f)

Init ==
  /\ AvrInit([r \in UNION { { RegisterOf(p, of) : of \in Registers(p) } : p \in Pin } |-> {}],
             TRUE, << >>)
  /\ wanted = [p \in Pin |-> [of \in Registers(p) |-> FALSE]]

Next == \/ ProgramCalls \/ Interrupt
        \/ \E c \in Context : Step(c) /\ UNCHANGED wanted

Spec == Init /\ [][Next]_vars

-----------------------------------------------------------------------------
(* Whatever interrupt comes when, a pin is as the last functions called for *)
(* it left it: no change of another pin of the register is lost             *)
(* (wiring_digital.c 31-61, 140-165, wiring_analog.c 106-295).              *)
Busy(p, of) == \E c \in Context : \E k \in DOMAIN todo[c] : Changes(todo[c][k], p, of)
PinsAreAsWanted ==
  \A p \in Pin : \A of \in Registers(p) : ~Busy(p, of) => IsOn(p, of) = wanted[p][of]

(* Interrupts are off as long as a handler runs, whatever functions it      *)
(* calls, and on again when the program's function is over.                 *)
InterruptsAreKept == (todo["handler"] # << >> => ~enabled) /\ (Idle => enabled)
=============================================================================
