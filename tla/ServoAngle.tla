----------------------------- MODULE ServoAngle -----------------------------
(***************************************************************************)
(* Degrees, microseconds and ticks: the part of arduinowire/Servo.cpp that *)
(* turns what write() is given into the ticks of a pulse and back, with    *)
(* the integer divisions and the widths of the variables it has on the     *)
(* board.  Servo.tla has the pulses themselves.                            *)
(***************************************************************************)
EXTENDS Integers

CONSTANTS
  Value,         \* the values that write() and writeMicroseconds() are given
  PulseRange     \* the pairs of limits that attach(pin, min, max) is given

ASSUME ServoAngleAssumption == Value \subseteq Int /\ PulseRange \subseteq Nat \X Nat

MIN_PULSE_WIDTH == 544
MAX_PULSE_WIDTH == 2400
DEFAULT_PULSE_WIDTH == 1500
TRIM_DURATION == 2
MAX_SERVOS == 12
INVALID_SERVO == 255

VARIABLES
  servoIndex,    \* the channel of this servo, or INVALID_SERVO
  min, max,      \* its limits, as distances from the default in steps of 4 us
  ticks,         \* servos[servoIndex].ticks
  given,         \* history: the limits attach() was last given
  asked          \* history: the degrees last written, if any

angleVars == <<servoIndex, min, max, ticks, given, asked>>
NothingWritten == -2     \* since attach()
NoAngle == -1            \* microseconds were written

-----------------------------------------------------------------------------
(* The division of C rounds towards zero; the divisors are positive.        *)
Quot(a, b) == IF a >= 0 THEN a \div b ELSE -((-a) \div b)
Int8(x) == ((x + 128) % 256) - 128
Int16(x) == ((x + 32768) % 65536) - 32768
UInt16(x) == x % 65536
UINT16_MAX == 65535

map(x, in_min, in_max, out_min, out_max) ==
  Quot((x - in_min) * (out_max - out_min), in_max - in_min) + out_min

clockCyclesPerMicrosecond == 16
usToTicks(us) == Quot(clockCyclesPerMicrosecond * us, 8)
ticksToUs(t) == UInt16(t * 8) \div clockCyclesPerMicrosecond

SERVO_MIN == MIN_PULSE_WIDTH - min * 4
SERVO_MAX == MAX_PULSE_WIDTH - max * 4

Within(us) == IF us < SERVO_MIN THEN SERVO_MIN
              ELSE IF us > SERVO_MAX THEN SERVO_MAX ELSE us

readMicroseconds ==
  IF servoIndex = INVALID_SERVO THEN 0 ELSE UInt16(ticksToUs(ticks) + TRIM_DURATION)

(* Mutant: without the microsecond that makes up for the rounding of write(). *)
readRounded == Int16(map(readMicroseconds, SERVO_MIN, SERVO_MAX, 0, 180))

read == Int16(map(readMicroseconds + 1, SERVO_MIN, SERVO_MAX, 0, 180))

-----------------------------------------------------------------------------
(* Servo::Servo(): a channel and the default width, unless all channels are *)
(* taken.  min and max of a static object are zero.                         *)
AngleInit ==
  /\ servoIndex \in {0, INVALID_SERVO}
  /\ min = 0 /\ max = 0
  /\ ticks = usToTicks(DEFAULT_PULSE_WIDTH)
  /\ given = <<MIN_PULSE_WIDTH, MAX_PULSE_WIDTH>> /\ asked = NothingWritten

(* Mutant: the distance in microseconds, which an int8_t does not hold. *)
DistanceInMicros(from, to) == Int8(from - to)

Distance(from, to) == Int8(Quot(from - to, 4))

attach(lo, hi) ==
  /\ servoIndex < MAX_SERVOS
  /\ min' = Distance(MIN_PULSE_WIDTH, lo) /\ max' = Distance(MAX_PULSE_WIDTH, hi)
  /\ given' = <<lo, hi>> /\ asked' = NothingWritten
  /\ UNCHANGED <<servoIndex, ticks>>

Store(us) ==
  /\ servoIndex < MAX_SERVOS
  /\ ticks' = Int16(usToTicks(Within(us) - TRIM_DURATION))
  /\ UNCHANGED <<servoIndex, min, max, given>>

writeMicroseconds(us) == Store(us) /\ asked' = NoAngle

(* Mutant: the limits of the argument of map() are forgotten. *)
AnyAngle(value) == value

Angle(value) == IF value < 0 THEN 0 ELSE IF value > 180 THEN 180 ELSE value

(* A value below the shortest width is an angle.                            *)
write(value) ==
  IF value < MIN_PULSE_WIDTH
  THEN /\ Store(map(Angle(value), 0, 180, SERVO_MIN, SERVO_MAX))
       /\ asked' = Angle(value)
  ELSE writeMicroseconds(value)

AngleNext == \/ \E value \in Value : write(value) \/ writeMicroseconds(value)
             \/ \E range \in PulseRange : attach(range[1], range[2])

-----------------------------------------------------------------------------
(* read() returns the degrees that were written, although both conversions  *)
(* round, whatever limits attach() was given: as an int8_t keeps them apart *)
(* (Servo.cpp 264-312; Servo.h: "Gets the last written servo pulse width as *)
(* an angle").                                                              *)
ReadsWhatWasWritten == asked >= 0 => read = asked

(* After any write the pulse is within the limits given to attach(), to the *)
(* 4 us they are kept to, as long as they are near enough to the defaults   *)
(* for an int8_t, which nothing checks (Servo.cpp 240-242, 275-295).        *)
NearDefault == /\ given[1] - MIN_PULSE_WIDTH \in -511..515
               /\ given[2] - MAX_PULSE_WIDTH \in -511..515
PulseIsWithinLimits ==
  asked # NothingWritten /\ NearDefault =>
    readMicroseconds \in (given[1] - 3)..(given[2] + 3)
=============================================================================
