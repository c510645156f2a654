-------------------------------- MODULE Board --------------------------------
(***************************************************************************)
(* The pins of the board, arduinowire/pins_default.h for the ATmega328p:   *)
(* the port and the bit each is on, and its timer.                         *)
(***************************************************************************)
EXTENDS Integers

DigitalPin == 0..19

digitalPinToPort(p) ==
  CASE p \in 0..7 -> "PD" [] p \in 8..13 -> "PB" [] p \in 14..19 -> "PC"

digitalPinToBit(p) == CASE p \in 0..7 -> p [] p \in 8..13 -> p - 8 [] p \in 14..19 -> p - 14

portModeRegister(port) == CASE port = "PB" -> "DDRB" [] port = "PC" -> "DDRC" [] port = "PD" -> "DDRD"
portOutputRegister(port) ==
  CASE port = "PB" -> "PORTB" [] port = "PC" -> "PORTC" [] port = "PD" -> "PORTD"

(* The register and the bit that connect the timer of a pin to it.          *)
NOT_ON_TIMER == <<"none", "none">>
digitalPinToTimer(p) ==
  CASE p = 3 -> <<"TCCR2A", "COM2B1">>
    [] p = 5 -> <<"TCCR0A", "COM0B1">>
    [] p = 6 -> <<"TCCR0A", "COM0A1">>
    [] p = 9 -> <<"TCCR1A", "COM1A1">>
    [] p = 10 -> <<"TCCR1A", "COM1B1">>
    [] p = 11 -> <<"TCCR2A", "COM2A1">>
    [] OTHER -> NOT_ON_TIMER
digitalPinHasPWM(p) == p \in {3, 5, 6, 9, 10, 11}

(* The table and the macro are two statements of one fact.                  *)
ASSUME TablesAgree ==
  \A p \in DigitalPin : digitalPinHasPWM(p) <=> digitalPinToTimer(p) # NOT_ON_TIMER

NOT_AN_INTERRUPT == -1
digitalPinToInterrupt(p) == CASE p = 2 -> 0 [] p = 3 -> 1 [] OTHER -> NOT_AN_INTERRUPT
=============================================================================
