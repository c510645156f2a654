------------------------------- MODULE Startup -------------------------------
(***************************************************************************)
(* What runs on the board before and under a program's statements: the     *)
(* constructor of the infrared receiver, init() of arduinowire/wiring.c,   *)
(* setup() of stdc_avr.cpp with attach() of Servo.cpp, and then statements *)
(* that attach and detach interrupts and turn PWM off.  The handlers of    *)
(* the timers change no register that these do.                            *)
(***************************************************************************)
EXTENDS Interrupts, Digital

VARIABLE
  phase          \* "constructor", "main" until setup() returns, "statements"

vars == <<avrVars, interruptVars, phase>>

-----------------------------------------------------------------------------
sbi(r, bit) == Change(r, {}, {bit})

initTimer0 == sbi("TCCR0A", "WGM01") \o sbi("TCCR0A", "WGM00")
              \o sbi("TCCR0B", "CS01") \o sbi("TCCR0B", "CS00") \o sbi("TIMSK0", "TOIE0")
initTimer1 == Put("TCCR1B", {}) \o sbi("TCCR1B", "CS11") \o sbi("TCCR1B", "CS10")
              \o sbi("TCCR1A", "WGM10")
initTimer2 == sbi("TCCR2B", "CS22") \o sbi("TCCR2A", "WGM20")
initADC == sbi("ADCSRA", "ADPS2") \o sbi("ADCSRA", "ADPS1") \o sbi("ADCSRA", "ADPS0")
           \o sbi("ADCSRA", "ADEN")
init == ChangesSREG("sei") \o initTimer0 \o initTimer1 \o initTimer2 \o initADC \o Put("UCSR0B", {})

(* TCNT1 and TIFR1, which it clears too, are in Servo.tla.                  *)
initISR == Put("TCCR1A", {}) \o Put("TCCR1B", {"CS11"}) \o sbi("TIMSK1", "OCIE1A")

(* servo.write() changes no register: it is in Robot.tla.                   *)
setup == PinMode(2, "INPUT") \o PinMode(14, "OUTPUT")
         \o PinMode(3, "OUTPUT") \o PinMode(4, "OUTPUT") \o PinMode(5, "OUTPUT")
         \o PinMode(6, "OUTPUT") \o PinMode(7, "OUTPUT") \o PinMode(8, "OUTPUT")
         \o PinMode(9, "OUTPUT") \o PinMode(10, "OUTPUT") \o PinMode(11, "OUTPUT")
         \o PinMode(12, "OUTPUT") \o PinMode(13, "OUTPUT")
         \o PinMode(18, "OUTPUT") \o initISR

(* Mutant: setup() before init(). *)
mainSwapped == setup \o init

(* setup_llvm_global calls init, then setup.                                *)
main == init \o setup

constructor == attachInterrupt(digitalPinToInterrupt(2), "irISR", "CHANGE")

-----------------------------------------------------------------------------
Main == /\ phase = "constructor" /\ phase' = "main"
        /\ ProgramStarts(main) /\ UNCHANGED interruptVars

Statement ==
  /\ phase # "constructor" /\ phase' = "statements"
  /\ \/ \E n \in Number : \/ Detach(n)
                          \/ \E f \in Function, mode \in {"CHANGE", "FALLING", "RISING"} :
                               Attach(n, f, mode)
     \/ /\ \E f \in { TurnOffPWM(5), TurnOffPWM(9), PinMode(14, "OUTPUT") } : ProgramStarts(f)
        /\ UNCHANGED interruptVars

(* The bootloader may leave timer 1 running and the USART on.               *)
Registers == {"EICRA", "EIMSK", "TCCR0A", "TCCR0B", "TIMSK0", "TCCR1A", "TCCR1B", "TIMSK1",
              "TCCR2A", "TCCR2B", "ADCSRA", "UCSR0B", "DDRB", "DDRC", "DDRD", "PORTB", "PORTC",
              "PORTD"}
Pointers == { Low(n) : n \in Number } \cup { High(n) : n \in Number }
Init ==
  /\ \E left \in BOOLEAN :
       AvrInit([r \in Registers \cup Pointers |->
                  CASE r \in Pointers -> {"nothing"}
                    [] left /\ r = "TCCR1B" -> {"CS12", "CS10"}
                    [] left /\ r = "UCSR0B" -> {"RXEN0", "TXEN0"}
                    [] OTHER -> {}],
               FALSE, constructor)
  /\ flag = {} /\ level \in [Number -> BOOLEAN] /\ due = {}
  /\ attached = [n \in Number |-> None]
  /\ changing = [number |-> 0, to |-> [function |-> "irISR", mode |-> "CHANGE"]]
  /\ phase = "constructor"

Next == \/ Main \/ Statement
        \/ /\ \/ \E n \in Number : Edge(n) \/ Handle(n)
              \/ \E c \in Context : Execute(c)
           /\ UNCHANGED phase

(* The processor executes instructions, and enters the handler of what is   *)
(* pending and enabled after one more of them at most: also if the program  *)
(* goes on to detach and attach it.  Nothing makes an edge come, or a       *)
(* program go on.                                                           *)
Spec ==
  /\ Init /\ [][Next]_vars
  /\ \A c \in Context : WF_vars(Execute(c) /\ UNCHANGED phase)
  /\ \A n \in Number : SF_vars(Handle(n) /\ UNCHANGED phase)
  /\ WF_vars(Main)

-----------------------------------------------------------------------------
(* Whatever a program's statements do, and whatever the bootloader left,    *)
(* the timers count as the other modules have them: timer 0 to 256 in steps *)
(* of 4 us with its interrupt (micros, wiring.c 68-107), timer 1 to 65536   *)
(* in steps of 0.5 us with its (Servo.cpp 27-28, 126-134), the converter is *)
(* on, and the pins are what setup() made them (wiring.c 252-370).          *)
Outputs == (3..13) \cup {14, 18}
BoardIsReady ==
  phase = "statements" =>
    /\ {"WGM00", "WGM01"} \subseteq register["TCCR0A"]
    /\ register["TCCR0B"] = {"CS00", "CS01"} /\ "TOIE0" \in register["TIMSK0"]
    /\ register["TCCR1A"] \cap {"WGM10", "WGM11"} = {}
    /\ register["TCCR1B"] = {"CS11"} /\ "OCIE1A" \in register["TIMSK1"]
    /\ register["ADCSRA"] = {"ADEN", "ADPS0", "ADPS1", "ADPS2"} /\ register["UCSR0B"] = {}
    /\ \A p \in 2..13 \cup {14, 18} :
         p \in Outputs <=> IsOn(p, "mode")
    /\ Idle => enabled
=============================================================================
