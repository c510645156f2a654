------------------------------- MODULE Digital -------------------------------
(***************************************************************************)
(* The functions of the pins as the instructions they come to:             *)
(* arduinowire/wiring_digital.c and analogWrite of wiring_analog.c.        *)
(***************************************************************************)
EXTENDS Avr, Board

(* The registers of a pin and its bit in them: the mode and the output      *)
(* register of its port, and TCCRnA of its timer.                           *)
OnTimer(p) == digitalPinToTimer(p) # NOT_ON_TIMER
RegisterOf(p, of) ==
  CASE of = "mode" -> portModeRegister(digitalPinToPort(p))
    [] of = "output" -> portOutputRegister(digitalPinToPort(p))
    [] of = "timer" -> digitalPinToTimer(p)[1]
BitOf(p, of) == IF of = "timer" THEN digitalPinToTimer(p)[2] ELSE digitalPinToBit(p)
IsOn(p, of) == BitOf(p, of) \in register[RegisterOf(p, of)]

Switch(p, of, on) ==
  LET bit == {BitOf(p, of)}
  IN  Change(RegisterOf(p, of), IF on THEN {} ELSE bit, IF on THEN bit ELSE {})

PinMode(p, mode) ==
  Guarded(CASE mode = "INPUT" -> Switch(p, "mode", FALSE) \o Switch(p, "output", FALSE)
            [] mode = "INPUT_PULLUP" -> Switch(p, "mode", FALSE) \o Switch(p, "output", TRUE)
            [] mode = "OUTPUT" -> Switch(p, "mode", TRUE))

TurnOffPWM(p) == IF OnTimer(p) THEN Switch(p, "timer", FALSE) ELSE << >>
DigitalWrite(p, val) == TurnOffPWM(p) \o Guarded(Switch(p, "output", val = "HIGH"))
DigitalRead(p) == TurnOffPWM(p)

(* The value is one of its cases: 0, 255, and those below 128 or not, which *)
(* tell apart only pins that are on no timer.                               *)
AnalogWrite(p, val) ==
  PinMode(p, "OUTPUT")
  \o CASE val = 0 -> DigitalWrite(p, "LOW")
       [] val = 255 -> DigitalWrite(p, "HIGH")
       [] val \notin {0, 255} /\ OnTimer(p) -> Switch(p, "timer", TRUE)
       [] OTHER -> DigitalWrite(p, IF val < 128 THEN "LOW" ELSE "HIGH")
=============================================================================
