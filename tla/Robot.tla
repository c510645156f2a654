-------------------------------- MODULE Robot --------------------------------
(***************************************************************************)
(* A compiled program at work: the functions stdc_avr.cpp has for it, and  *)
(* its IN, OUT and DELAY with the numbers that reach the board's library.  *)
(* setup() and what else a robot's own functions do with the servo are     *)
(* calls of its class.                                                     *)
(***************************************************************************)
EXTENDS ServoAngle, Coercion

VARIABLES
  uses,          \* what the program uses: the servo and numbers share no state, so
                 \* a behaviour with both would show nothing more
  position,      \* whether setup() ran, and only the program moved the servo since
  last           \* the last statement's number in the text, and what came of it

vars == <<servoIndex, min, max, ticks, given, asked, uses, position, last>>

Nothing == [call |-> "none", form |-> "none", variable |-> FALSE, n |-> 0, got |-> 0]

SERVO_MIN_POS == 82

-----------------------------------------------------------------------------
(* servo.attach(A4); servo.write(SERVO_MIN_POS)                             *)
setup ==
  /\ uses = "servo" /\ servoIndex < MAX_SERVOS
  /\ min' = Distance(MIN_PULSE_WIDTH, MIN_PULSE_WIDTH)
  /\ max' = Distance(MAX_PULSE_WIDTH, MAX_PULSE_WIDTH)
  /\ given' = <<MIN_PULSE_WIDTH, MAX_PULSE_WIDTH>>
  /\ ticks' = usToTicks(map(SERVO_MIN_POS, 0, 180, MIN_PULSE_WIDTH, MAX_PULSE_WIDTH)
                        - TRIM_DURATION)
  /\ asked' = SERVO_MIN_POS
  /\ position' = "own"
  /\ UNCHANGED <<servoIndex, uses, last>>

Move(degrees) == write(degrees) /\ UNCHANGED <<uses, position, last>>
Stay == UNCHANGED vars

(* Mutant: the step is allowed up to the limit and beyond it. *)
MayIncAlways(a) == a <= SERVO_MIN_POS + 40

MayInc(a) == a < SERVO_MIN_POS + 40

(* The delay(15) that ends both has no effect but time.                     *)
SERVO_POS_INC == /\ position # "unset"
                 /\ IF MayInc(read) THEN Move(read + 5) ELSE Stay
SERVO_POS_DEC == /\ position # "unset"
                 /\ IF read > SERVO_MIN_POS THEN Move(read - 5) ELSE Stay

OwnCode == /\ uses = "servo" /\ AngleNext
           /\ position' = (IF position = "own" THEN "other" ELSE position)
           /\ UNCHANGED <<uses, last>>

-----------------------------------------------------------------------------
(* analogRead takes the number of a pin or of a channel.                    *)
Channel(pin) == (IF pin >= 14 THEN pin - 14 ELSE pin) % 8

Comes(call, e, variable, got) ==
  /\ last' = [call |-> call, form |-> e.form, variable |-> variable, n |-> e.n, got |-> got]
  /\ UNCHANGED <<angleVars, uses, position>>

In(e, variable) == \E v \in Result(e, variable) : \E p \in Port(v) :
  Comes("in", e, variable, p.is)
OutTo(e, variable) == \E v \in Result(e, variable) : \E p \in OutPort(v) :
  Comes("port", e, variable, p.is)
Out(e, variable) == \E v \in Result(e, variable) : \E o \in Output(v) :
  Comes("out", e, variable, o.is)
Delay(e, variable) == \E v \in Result(e, variable) : \E ms \in Milliseconds(v) :
  Comes("delay", e, variable, ms.is)

Statement == uses = "numbers" /\ \E e \in Operand : \E variable \in BOOLEAN :
  In(e, variable) \/ OutTo(e, variable) \/ Out(e, variable) \/ Delay(e, variable)

-----------------------------------------------------------------------------
Init == AngleInit /\ uses \in {"servo", "numbers"} /\ position = "unset" /\ last = Nothing
Next == setup \/ SERVO_POS_INC \/ SERVO_POS_DEC \/ OwnCode \/ Statement
Spec == Init /\ [][Next]_vars

TypeOK ==
  /\ servoIndex \in {0, INVALID_SERVO} /\ min \in -128..127 /\ max \in -128..127
  /\ ticks \in 0..UINT16_MAX /\ asked \in -2..180
  /\ position \in {"unset", "own", "other"} /\ last.got \in 0..(LongSize - 1)

(* However often a program calls SERVO_POS_INC and SERVO_POS_DEC, the servo *)
(* stays between its lowest position and 40 degrees above, at a multiple of *)
(* the step, so that equal numbers of both lead back (stdc_avr.cpp 42-59).  *)
PositionIsWithinLimits ==
  position = "own" =>
    read \in { SERVO_MIN_POS + 5 * k : k \in 0..8 }

(* The largest number that a conversion is for, by what the board takes and *)
(* how the program holds it: an INT constant is a signed word, a variable   *)
(* holds all of it.                                                         *)
Limit(call, form, variable) ==
  CASE call = "in" -> ByteSize \div (IF variable \/ form = "DBL" THEN 2 ELSE 1)
    [] call \in {"out", "port"} -> ByteSize
    [] call = "delay" -> IF variable \/ form = "DBL" THEN WordSize ELSE WordSize \div 2

(* A number of the text arrives at the board as it is written, without its  *)
(* fraction: through a variable or not, from a constant or from a sensor    *)
(* (backllvm.cpp 159-186, 204-210, 298-317, 423-443).                       *)
NumbersArrive ==
  last.call # "none" /\ last.n \in 0..(2 * Limit(last.call, last.form, last.variable) - 1) =>
    last.got = last.n \div 2
=============================================================================
