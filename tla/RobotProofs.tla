----------------------------- MODULE RobotProofs -----------------------------
(***************************************************************************)
(* For every value and every pair of limits: what read() returns is what   *)
(* was written, a pulse is within its limits, and the position of the      *)
(* robot's servo is one of nine.  For all widths of the board's integers:  *)
(* a number of the program's text arrives as it is written.                *)
(***************************************************************************)
EXTENDS Robot, TLAPS

(* The width of the pulse that write() asks for.                            *)
Pulse(degrees) == ((degrees * (SERVO_MAX - SERVO_MIN)) \div 180) + SERVO_MIN
IsWritten(us) == /\ ticks = 2 * (us - TRIM_DURATION)
                 /\ asked >= 0 => us = Pulse(asked)
Positions == { SERVO_MIN_POS + 5 * k : k \in 0..8 }

(* What a step relies on.  read() is right although it rounds because only  *)
(* writes change asked and ticks, together, and attach(), which moves the   *)
(* limits, forgets what was asked.                                          *)
AngleInv ==
  /\ servoIndex \in {0, INVALID_SERVO} /\ ticks \in Int
  /\ given \in Nat \X Nat
  /\ min = Distance(MIN_PULSE_WIDTH, given[1]) /\ max = Distance(MAX_PULSE_WIDTH, given[2])
  /\ asked \in -2..180
  /\ asked # NothingWritten =>
       servoIndex = 0 /\ \E us \in SERVO_MIN..SERVO_MAX : IsWritten(us)
Inv == AngleInv /\ (position = "own" => asked \in Positions)

-----------------------------------------------------------------------------
(* Division.                                                                *)

LEMMA QuotientIsUnique ==
  ASSUME NEW a \in Int, NEW b \in Nat \ {0}, NEW d \in Int, b * d <= a, a < b * d + b
  PROVE  a \div b = d
OBVIOUS

LEMMA QuotientBy180 ==
  ASSUME NEW x \in Nat
  PROVE  /\ x \div 180 \in Nat
         /\ 180 * (x \div 180) <= x /\ x < 180 * (x \div 180) + 180
OBVIOUS

LEMMA ProductIsMonotonic ==
  ASSUME NEW d \in 0..180, NEW span \in Nat
  PROVE  d * span \in Nat /\ d * span <= 180 * span
<1>1. d * span \in Nat  OBVIOUS
<1>2. (180 - d) * span \in Nat  OBVIOUS
<1>3. (180 - d) * span = 180 * span - d * span  OBVIOUS
<1> QED  BY <1>1, <1>2, <1>3

(* Both divisions round down, and the microsecond that read() adds makes up *)
(* for it if a degree is more than a microsecond.                           *)
LEMMA DegreesAreReadBack ==
  ASSUME NEW span \in Nat, span > 180, NEW d \in 0..180
  PROVE  ((((d * span) \div 180) + 1) * 180) \div span = d
<1> DEFINE x == d * span
           q == x \div 180
<1>1. x \in Nat  BY ProductIsMonotonic
<1> HIDE DEF x
<1>2. q \in Nat /\ 180 * q <= x /\ x < 180 * q + 180  BY <1>1, QuotientBy180
<1> HIDE DEF q
<1>3. span * d <= (q + 1) * 180 /\ (q + 1) * 180 < span * d + span
  <2> DEFINE y == span * d
  <2>1. x = y  BY DEF x
  <2> HIDE DEF y
  <2>2. y <= (q + 1) * 180 /\ (q + 1) * 180 < y + span  BY <1>1, <1>2, <2>1
  <2> QED  BY <2>2 DEF y
<1>4. ((q + 1) * 180) \div span = d  BY <1>2, <1>3, QuotientIsUnique
<1> QED  BY <1>4 DEF x, q

LEMMA WidthIsWithinLimits ==
  ASSUME NEW span \in Nat, NEW d \in 0..180
  PROVE  (d * span) \div 180 \in 0..span
<1> DEFINE x == d * span
<1>1. x \in Nat /\ x <= 180 * span  BY ProductIsMonotonic
<1> HIDE DEF x
<1>2. x \div 180 \in 0..span  BY <1>1
<1> QED  BY <1>2 DEF x

-----------------------------------------------------------------------------
(* The limits, and what the ticks of a width come to.                       *)

LEMMA DistanceFitsAByte ==
  ASSUME NEW from \in Nat, NEW to \in Nat
  PROVE  Distance(from, to) \in -128..127
<1> DEFINE q == Quot(from - to, 4)
<1>1. q \in Int  BY DEF Quot
<1> HIDE DEF q
<1>2. Int8(q) \in -128..127  BY <1>1 DEF Int8
<1> QED  BY <1>2 DEF Distance, q

LEMMA Limits ==
  ASSUME min \in -128..127, max \in -128..127
  PROVE  SERVO_MIN \in 36..1056 /\ SERVO_MAX \in 1892..2912
BY DEF SERVO_MIN, SERVO_MAX, MIN_PULSE_WIDTH, MAX_PULSE_WIDTH

LEMMA TicksOfWidth ==
  ASSUME NEW us \in Nat, us >= 36, us <= 2912
  PROVE  Int16(usToTicks(us - TRIM_DURATION)) = 2 * (us - TRIM_DURATION)
<1>1. usToTicks(us - TRIM_DURATION) = 2 * (us - TRIM_DURATION)
  BY DEF usToTicks, Quot, clockCyclesPerMicrosecond, TRIM_DURATION
<1>2. us - TRIM_DURATION \in Nat /\ us - TRIM_DURATION <= 3000  BY DEF TRIM_DURATION
<1> DEFINE t == 2 * (us - TRIM_DURATION)
<1>3. Int16(t) = t
  <2> HIDE DEF t
  <2>1. t \in Nat /\ t <= 6000  BY <1>2 DEF t
  <2> QED  BY <2>1 DEF Int16
<1> QED  BY <1>1, <1>3

LEMMA WidthOfTicks ==
  ASSUME NEW us \in Nat, us >= 36, us <= 2912, IsWritten(us), servoIndex = 0
  PROVE  readMicroseconds = us
<1>1. ticksToUs(ticks) = us - 2
  <2>1. (ticks * 8) % 65536 = 16 * (us - 2)  BY DEF IsWritten, TRIM_DURATION
  <2> QED  BY <2>1 DEF ticksToUs, UInt16, clockCyclesPerMicrosecond
<1>2. UInt16(us - 2 + 2) = us  BY DEF UInt16
<1> QED  BY <1>1, <1>2 DEF readMicroseconds, INVALID_SERVO, TRIM_DURATION

LEMMA InvLimits ==
  ASSUME AngleInv
  PROVE  /\ min \in -128..127 /\ max \in -128..127
         /\ SERVO_MIN \in 36..1056 /\ SERVO_MAX \in 1892..2912
<1>1. min \in -128..127 /\ max \in -128..127
  <2>1. given[1] \in Nat /\ given[2] \in Nat  BY DEF AngleInv
  <2>2. MIN_PULSE_WIDTH \in Nat /\ MAX_PULSE_WIDTH \in Nat
    BY DEF MIN_PULSE_WIDTH, MAX_PULSE_WIDTH
  <2>3. /\ Distance(MIN_PULSE_WIDTH, given[1]) \in -128..127
        /\ Distance(MAX_PULSE_WIDTH, given[2]) \in -128..127
    BY <2>1, <2>2, DistanceFitsAByte
  <2> QED  BY <2>3 DEF AngleInv
<1> QED  BY <1>1, Limits

-----------------------------------------------------------------------------
(* What the invariant means.                                                *)

LEMMA InvReads == AngleInv => ReadsWhatWasWritten
<1> SUFFICES ASSUME AngleInv, asked >= 0 PROVE read = asked  BY DEF ReadsWhatWasWritten
<1>1. SERVO_MIN \in 36..1056 /\ SERVO_MAX \in 1892..2912  BY InvLimits
<1>2. asked \in 0..180  BY DEF AngleInv
<1>3. PICK us \in SERVO_MIN..SERVO_MAX : IsWritten(us)  BY <1>2 DEF AngleInv, NothingWritten
<1>4. us \in Nat /\ us >= 36 /\ us <= 2912  BY <1>1, <1>3
<1>5. readMicroseconds = us
  <2>1. servoIndex = 0  BY <1>2 DEF AngleInv, NothingWritten
  <2> QED  BY <2>1, <1>3, <1>4, WidthOfTicks
<1> DEFINE span == SERVO_MAX - SERVO_MIN
           w == (asked * span) \div 180
<1>6. span \in Nat /\ span > 180  BY <1>1
<1>7. us = w + SERVO_MIN  BY <1>2, <1>3 DEF IsWritten, Pulse
<1>8. w \in 0..span  BY <1>2, <1>6, WidthIsWithinLimits
<1>9. ((w + 1) * 180) \div span = asked  BY <1>2, <1>6, DegreesAreReadBack
<1> HIDE DEF w, span
<1>10. us + 1 - SERVO_MIN = w + 1  BY <1>1, <1>7, <1>8
<1>11. map(us + 1, SERVO_MIN, SERVO_MAX, 0, 180) = asked
  <2>1. (w + 1) * 180 >= 0  BY <1>6, <1>8
  <2>2. map(us + 1, SERVO_MIN, SERVO_MAX, 0, 180) = Quot((w + 1) * 180, span) + 0
    <3> DEFINE a == us + 1
    <3>1. (a - SERVO_MIN) * (180 - 0) = (w + 1) * 180
      <4>1. a - SERVO_MIN = w + 1  BY <1>1, <1>4, <1>8, <1>10
      <4> QED  BY <4>1, <1>8
    <3> HIDE DEF a
    <3>2. map(a, SERVO_MIN, SERVO_MAX, 0, 180)
            = Quot((a - SERVO_MIN) * (180 - 0), SERVO_MAX - SERVO_MIN) + 0
      BY DEF map
    <3>3. map(a, SERVO_MIN, SERVO_MAX, 0, 180) = Quot((w + 1) * 180, span) + 0
      BY <3>1, <3>2 DEF span
    <3> QED  BY <3>3 DEF a
  <2>3. Quot((w + 1) * 180, span) = asked  BY <2>1, <1>9 DEF Quot
  <2> QED  BY <2>2, <2>3, <1>2
<1>12. Int16(asked) = asked  BY <1>2 DEF Int16
<1> QED  BY <1>5, <1>11, <1>12 DEF read

LEMMA InvPulse == AngleInv => PulseIsWithinLimits
<1> SUFFICES ASSUME AngleInv, asked # NothingWritten, NearDefault
             PROVE  readMicroseconds \in (given[1] - 3)..(given[2] + 3)
  BY DEF PulseIsWithinLimits
<1>1. SERVO_MIN \in 36..1056 /\ SERVO_MAX \in 1892..2912  BY InvLimits
<1>2. PICK us \in SERVO_MIN..SERVO_MAX : IsWritten(us)  BY DEF AngleInv
<1>3. readMicroseconds = us
  <2>1. servoIndex = 0  BY DEF AngleInv
  <2>2. us \in Nat /\ us >= 36 /\ us <= 2912  BY <1>1, <1>2
  <2> QED  BY <2>1, <2>2, <1>2, WidthOfTicks
<1>4. given[1] \in Nat /\ given[2] \in Nat  BY DEF AngleInv
<1>5. \A x \in Int : -515 <= x /\ x <= 511 => Int8(Quot(x, 4)) * 4 \in (x - 3)..(x + 3)
  BY DEF Int8, Quot
<1>6. SERVO_MIN >= given[1] - 3
  <2>1. min * 4 \in (MIN_PULSE_WIDTH - given[1] - 3)..(MIN_PULSE_WIDTH - given[1] + 3)
    <3> DEFINE x == MIN_PULSE_WIDTH - given[1]
    <3>1. x \in Int /\ -515 <= x /\ x <= 511  BY <1>4, SMTT(30) DEF NearDefault, MIN_PULSE_WIDTH
    <3>2. min = Int8(Quot(x, 4))  BY DEF AngleInv, Distance
    <3> QED  BY <3>1, <3>2, <1>5
  <2> QED  BY <2>1, <1>4 DEF SERVO_MIN, MIN_PULSE_WIDTH
<1>7. SERVO_MAX <= given[2] + 3
  <2>1. max * 4 \in (MAX_PULSE_WIDTH - given[2] - 3)..(MAX_PULSE_WIDTH - given[2] + 3)
    <3> DEFINE x == MAX_PULSE_WIDTH - given[2]
    <3>1. x \in Int /\ -515 <= x /\ x <= 511  BY <1>4, SMTT(30) DEF NearDefault, MAX_PULSE_WIDTH
    <3>2. max = Int8(Quot(x, 4))  BY DEF AngleInv, Distance
    <3> QED  BY <3>1, <3>2, <1>5
  <2> QED  BY <2>1, <1>4 DEF SERVO_MAX, MAX_PULSE_WIDTH
<1> QED  BY <1>1, <1>2, <1>3, <1>4, <1>6, <1>7

LEMMA InvPosition == Inv => PositionIsWithinLimits
<1> SUFFICES ASSUME Inv, position = "own" PROVE read \in Positions
  BY DEF PositionIsWithinLimits, Positions
<1>1. AngleInv /\ asked \in Positions  BY DEF Inv
<1>2. asked >= 0  BY <1>1 DEF Positions, SERVO_MIN_POS
<1> QED  BY <1>1, <1>2, InvReads DEF ReadsWhatWasWritten

-----------------------------------------------------------------------------
(* The steps of the servo.                                                  *)

LEMMA ReadIsAnInteger == AngleInv => read \in Int
<1> SUFFICES ASSUME AngleInv PROVE read \in Int  OBVIOUS
<1>1. SERVO_MIN \in 36..1056 /\ SERVO_MAX \in 1892..2912  BY InvLimits
<1>2. readMicroseconds \in Int
  BY DEF AngleInv, readMicroseconds, UInt16, ticksToUs, clockCyclesPerMicrosecond, TRIM_DURATION
<1> DEFINE us == readMicroseconds + 1
           span == SERVO_MAX - SERVO_MIN
           a == (us - SERVO_MIN) * (180 - 0)
<1>3. span \in Nat \ {0} /\ a \in Int  BY <1>1, <1>2
<1> HIDE DEF us
<1>4. map(us, SERVO_MIN, SERVO_MAX, 0, 180) = Quot(a, span) + 0  BY DEF map
<1> HIDE DEF a, span
<1>5. map(us, SERVO_MIN, SERVO_MAX, 0, 180) \in Int  BY <1>3, <1>4 DEF Quot
<1>6. \A x \in Int : Int16(x) \in Int  BY DEF Int16
<1> QED  BY <1>5, <1>6 DEF read, us

LEMMA StoreWrites ==
  ASSUME AngleInv, NEW us \in Int, Store(us)
  PROVE  /\ servoIndex = 0 /\ Within(us) \in SERVO_MIN..SERVO_MAX
         /\ ticks' = 2 * (Within(us) - TRIM_DURATION)
<1>1. SERVO_MIN \in 36..1056 /\ SERVO_MAX \in 1892..2912  BY InvLimits
<1>2. servoIndex = 0  BY DEF Store, AngleInv, MAX_SERVOS, INVALID_SERVO
<1>3. Within(us) \in SERVO_MIN..SERVO_MAX  BY <1>1 DEF Within
<1> DEFINE w == Within(us)
<1>4. w \in Nat /\ w >= 36 /\ w <= 2912  BY <1>1, <1>3
<1> HIDE DEF w
<1>5. Int16(usToTicks(w - TRIM_DURATION)) = 2 * (w - TRIM_DURATION)  BY <1>4, TicksOfWidth
<1> QED  BY <1>2, <1>3, <1>5 DEF Store, w

(* The width that write() asks for is within the limits as it is.           *)
LEMMA AngleIsWithin ==
  ASSUME AngleInv, NEW d \in 0..180
  PROVE  /\ map(d, 0, 180, SERVO_MIN, SERVO_MAX) = Pulse(d)
         /\ Pulse(d) \in SERVO_MIN..SERVO_MAX /\ Within(Pulse(d)) = Pulse(d)
<1>1. SERVO_MIN \in 36..1056 /\ SERVO_MAX \in 1892..2912  BY InvLimits
<1> DEFINE span == SERVO_MAX - SERVO_MIN
           x == d * span
<1>2. span \in Nat  BY <1>1
<1>3. x \in Nat  BY <1>2, ProductIsMonotonic
<1>4. x \div 180 \in 0..span  BY <1>2, WidthIsWithinLimits
<1>5. map(d, 0, 180, SERVO_MIN, SERVO_MAX) = Quot(x, 180) + SERVO_MIN
  <2>1. d - 0 = d /\ 180 - 0 = 180  OBVIOUS
  <2>2. map(d, 0, 180, SERVO_MIN, SERVO_MAX)
          = Quot((d - 0) * (SERVO_MAX - SERVO_MIN), 180 - 0) + SERVO_MIN  BY DEF map
  <2> QED  BY <2>1, <2>2
<1>6. Pulse(d) = (x \div 180) + SERVO_MIN  BY DEF Pulse
<1> HIDE DEF x
<1>7. Quot(x, 180) = x \div 180  BY <1>3 DEF Quot
<1>8. Pulse(d) \in SERVO_MIN..SERVO_MAX
  <2>1. (x \div 180) + SERVO_MIN \in SERVO_MIN..(span + SERVO_MIN)  BY <1>1, <1>2, <1>4
  <2> QED  BY <2>1, <1>1, <1>6
<1>9. Within(Pulse(d)) = Pulse(d)  BY <1>1, <1>8 DEF Within
<1> QED  BY <1>5, <1>6, <1>7, <1>8, <1>9

LEMMA MicrosecondsAreKept ==
  ASSUME AngleInv, NEW us \in Int, writeMicroseconds(us)
  PROVE  AngleInv' /\ asked' = NoAngle
<1>1. Store(us) /\ asked' = NoAngle  BY DEF writeMicroseconds
<1>2. /\ servoIndex = 0 /\ Within(us) \in SERVO_MIN..SERVO_MAX
      /\ ticks' = 2 * (Within(us) - TRIM_DURATION)  BY <1>1, StoreWrites
<1>3. UNCHANGED <<servoIndex, min, max, given>>  BY <1>1 DEF Store
<1>4. SERVO_MIN' = SERVO_MIN /\ SERVO_MAX' = SERVO_MAX  BY <1>3 DEF SERVO_MIN, SERVO_MAX
<1>5. SERVO_MIN \in 36..1056 /\ SERVO_MAX \in 1892..2912  BY InvLimits
<1>6. ticks' \in Int  BY <1>2, <1>5 DEF TRIM_DURATION
<1>7. PICK w \in SERVO_MIN..SERVO_MAX : w = Within(us)  BY <1>2
<1>8. IsWritten(w)'  BY <1>1, <1>2, <1>7 DEF IsWritten, NoAngle
<1>9. \E v \in SERVO_MIN'..SERVO_MAX' : IsWritten(v)'  BY <1>4, <1>7, <1>8
<1> QED  BY <1>1, <1>2, <1>3, <1>6, <1>9 DEF AngleInv, NoAngle

LEMMA AngleIsKept ==
  ASSUME AngleInv, NEW value \in Int, write(value)
  PROVE  AngleInv' /\ (value < MIN_PULSE_WIDTH => asked' = Angle(value))
<1>1. CASE value < MIN_PULSE_WIDTH
  <2> DEFINE d == Angle(value)
  <2>1. d \in 0..180  BY DEF Angle
  <2>2. Store(map(d, 0, 180, SERVO_MIN, SERVO_MAX)) /\ asked' = d  BY <1>1 DEF write
  <2> HIDE DEF d
  <2>3. /\ map(d, 0, 180, SERVO_MIN, SERVO_MAX) = Pulse(d)
        /\ Pulse(d) \in SERVO_MIN..SERVO_MAX /\ Within(Pulse(d)) = Pulse(d)
    BY <2>1, AngleIsWithin
  <2>4. SERVO_MIN \in 36..1056 /\ SERVO_MAX \in 1892..2912  BY InvLimits
  <2>5. Pulse(d) \in Int /\ Store(Pulse(d))  BY <2>2, <2>3, <2>4
  <2>6. servoIndex = 0 /\ ticks' = 2 * (Pulse(d) - TRIM_DURATION)  BY <2>3, <2>5, StoreWrites
  <2>7. UNCHANGED <<servoIndex, min, max, given>>  BY <2>5 DEF Store
  <2>8. SERVO_MIN' = SERVO_MIN /\ SERVO_MAX' = SERVO_MAX  BY <2>7 DEF SERVO_MIN, SERVO_MAX
  <2>9. Pulse(asked)' = Pulse(d)  BY <2>2, <2>8 DEF Pulse
  <2>10. PICK w \in SERVO_MIN..SERVO_MAX : w = Pulse(d)  BY <2>3
  <2>11. IsWritten(w)'  BY <2>6, <2>9, <2>10 DEF IsWritten
  <2>12. \E v \in SERVO_MIN'..SERVO_MAX' : IsWritten(v)'  BY <2>8, <2>10, <2>11
  <2>13. ticks' \in Int  BY <2>5, <2>6 DEF TRIM_DURATION
  <2> QED  BY <2>1, <2>2, <2>6, <2>7, <2>12, <2>13 DEF AngleInv, d
<1>2. CASE ~(value < MIN_PULSE_WIDTH)
  <2>1. writeMicroseconds(value)  BY <1>2 DEF write
  <2> QED  BY <1>2, <2>1, MicrosecondsAreKept
<1> QED  BY <1>1, <1>2

LEMMA AttachForgets ==
  ASSUME AngleInv, NEW lo \in Nat, NEW hi \in Nat, attach(lo, hi)
  PROVE  AngleInv' /\ asked' = NothingWritten
<1>1. given' = <<lo, hi>> /\ UNCHANGED <<servoIndex, ticks>> /\ asked' = NothingWritten
  BY DEF attach
<1>2. min' = Distance(MIN_PULSE_WIDTH, lo) /\ max' = Distance(MAX_PULSE_WIDTH, hi)
  BY DEF attach
<1>3. given'[1] = lo /\ given'[2] = hi /\ given' \in Nat \X Nat  BY <1>1
<1> QED  BY <1>1, <1>2, <1>3 DEF AngleInv, NothingWritten

-----------------------------------------------------------------------------
(* Every step.                                                              *)

LEMMA InitInv == Init => Inv
<1> SUFFICES ASSUME Init PROVE Inv  OBVIOUS
<1>1. AngleInit /\ position = "unset"  BY DEF Init
<1>2. Distance(MIN_PULSE_WIDTH, MIN_PULSE_WIDTH) = 0 /\ Distance(MAX_PULSE_WIDTH, MAX_PULSE_WIDTH) = 0
  BY DEF Distance, Int8, Quot, MIN_PULSE_WIDTH, MAX_PULSE_WIDTH
<1>3. usToTicks(DEFAULT_PULSE_WIDTH) \in Int
  BY DEF usToTicks, Quot, DEFAULT_PULSE_WIDTH, clockCyclesPerMicrosecond
<1>4. MIN_PULSE_WIDTH \in Nat /\ MAX_PULSE_WIDTH \in Nat
  BY DEF MIN_PULSE_WIDTH, MAX_PULSE_WIDTH
<1> QED  BY <1>1, <1>2, <1>3, <1>4 DEF AngleInit, AngleInv, Inv, NothingWritten

LEMMA SetupKeeps == Inv /\ setup => Inv'
<1> SUFFICES ASSUME Inv, setup PROVE Inv'  OBVIOUS
<1>1. AngleInv /\ servoIndex = 0
  BY DEF Inv, AngleInv, setup, MAX_SERVOS, INVALID_SERVO
<1>2. servoIndex' = 0 /\ given' = <<MIN_PULSE_WIDTH, MAX_PULSE_WIDTH>> /\ asked' = 82
  BY <1>1 DEF setup, SERVO_MIN_POS
<1>3. min' = Distance(MIN_PULSE_WIDTH, given'[1]) /\ max' = Distance(MAX_PULSE_WIDTH, given'[2])
  BY <1>2 DEF setup
<1>4. min' = 0 /\ max' = 0
  BY DEF setup, Distance, Int8, Quot, MIN_PULSE_WIDTH, MAX_PULSE_WIDTH
<1>5. SERVO_MIN' = 544 /\ SERVO_MAX' = 2400
  BY <1>4 DEF SERVO_MIN, SERVO_MAX, MIN_PULSE_WIDTH, MAX_PULSE_WIDTH
<1>6. map(SERVO_MIN_POS, 0, 180, MIN_PULSE_WIDTH, MAX_PULSE_WIDTH) = 1389
  BY DEF map, Quot, SERVO_MIN_POS, MIN_PULSE_WIDTH, MAX_PULSE_WIDTH
<1>7. ticks' = 2 * (1389 - TRIM_DURATION)
  BY <1>6 DEF setup, usToTicks, Quot, clockCyclesPerMicrosecond, TRIM_DURATION
<1>8. Pulse(asked)' = 1389  BY <1>2, <1>5 DEF Pulse
<1>9. \E us \in SERVO_MIN'..SERVO_MAX' : IsWritten(us)'
  BY <1>5, <1>7, <1>8 DEF IsWritten
<1>10. ticks' \in Int /\ given' \in Nat \X Nat
  BY <1>2, <1>7 DEF TRIM_DURATION, MIN_PULSE_WIDTH, MAX_PULSE_WIDTH
<1>11. asked' \in Positions  BY <1>2 DEF Positions, SERVO_MIN_POS
<1> QED  BY <1>2, <1>3, <1>9, <1>10, <1>11 DEF Inv, AngleInv

LEMMA MoveKeeps ==
  ASSUME Inv, NEW degrees \in Int, Move(degrees),
         position = "own" => degrees \in Positions
  PROVE  Inv'
<1>1. AngleInv /\ write(degrees) /\ position' = position  BY DEF Inv, Move
<1>2. AngleInv' /\ (degrees < MIN_PULSE_WIDTH => asked' = Angle(degrees))
  BY <1>1, AngleIsKept
<1>3. position' = "own" => asked' \in Positions
  BY <1>1, <1>2 DEF Positions, Angle, SERVO_MIN_POS, MIN_PULSE_WIDTH
<1> QED  BY <1>2, <1>3 DEF Inv

LEMMA StayKeeps == Inv /\ UNCHANGED angleVars /\ UNCHANGED position => Inv'
BY DEF Inv, AngleInv, angleVars, IsWritten, Pulse, SERVO_MIN, SERVO_MAX

LEMMA IncAndDecKeep == Inv /\ (SERVO_POS_INC \/ SERVO_POS_DEC) => Inv'
<1> SUFFICES ASSUME Inv, SERVO_POS_INC \/ SERVO_POS_DEC PROVE Inv'  OBVIOUS
<1>1. read \in Int  BY ReadIsAnInteger DEF Inv
<1>2. position = "own" => read \in Positions  BY InvPosition DEF PositionIsWithinLimits, Positions
<1>3. CASE Stay  BY <1>3, StayKeeps DEF Stay, vars, angleVars
<1>4. CASE MayInc(read) /\ Move(read + 5)
  <2>1. read < SERVO_MIN_POS + 40  BY <1>4 DEF MayInc
  <2>2. position = "own" => read + 5 \in Positions
    BY <1>2, <2>1 DEF Positions, SERVO_MIN_POS
  <2>3. read + 5 \in Int  BY <1>1
  <2> QED  BY <1>4, <2>2, <2>3, MoveKeeps
<1>5. CASE read > SERVO_MIN_POS /\ Move(read - 5)
  <2>1. position = "own" => read - 5 \in Positions
    BY <1>2, <1>5 DEF Positions, SERVO_MIN_POS
  <2>2. read - 5 \in Int  BY <1>1
  <2> QED  BY <1>5, <2>1, <2>2, MoveKeeps
<1> QED  BY <1>3, <1>4, <1>5 DEF SERVO_POS_INC, SERVO_POS_DEC

LEMMA OwnCodeKeeps == Inv /\ OwnCode => Inv'
<1> SUFFICES ASSUME Inv, OwnCode PROVE Inv'  OBVIOUS
<1>1. AngleInv /\ AngleNext /\ position' # "own"  BY DEF Inv, OwnCode
<1>2. AngleInv'
  <2>1. CASE \E value \in Value : write(value) \/ writeMicroseconds(value)
    <3>1. PICK value \in Value : write(value) \/ writeMicroseconds(value)  BY <2>1
    <3>2. value \in Int  BY ServoAngleAssumption
    <3> QED  BY <1>1, <3>1, <3>2, AngleIsKept, MicrosecondsAreKept
  <2>2. CASE \E range \in PulseRange : attach(range[1], range[2])
    <3>1. PICK range \in PulseRange : attach(range[1], range[2])  BY <2>2
    <3>2. range[1] \in Nat /\ range[2] \in Nat  BY ServoAngleAssumption
    <3> QED  BY <1>1, <3>1, <3>2, AttachForgets
  <2> QED  BY <1>1, <2>1, <2>2 DEF AngleNext
<1> QED  BY <1>1, <1>2 DEF Inv

LEMMA StatementKeeps == Inv /\ Statement => Inv'
BY StayKeeps DEF Statement, In, OutTo, Out, Delay, Comes

LEMMA NextInv == Inv /\ [Next]_vars => Inv'
<1> SUFFICES ASSUME Inv, [Next]_vars PROVE Inv'  OBVIOUS
<1>1. CASE setup  BY <1>1, SetupKeeps
<1>2. CASE SERVO_POS_INC \/ SERVO_POS_DEC  BY <1>2, IncAndDecKeep
<1>3. CASE OwnCode  BY <1>3, OwnCodeKeeps
<1>4. CASE Statement  BY <1>4, StatementKeeps
<1>5. CASE UNCHANGED vars  BY <1>5, StayKeeps DEF vars, angleVars
<1> QED  BY <1>1, <1>2, <1>3, <1>4, <1>5 DEF Next

LEMMA InvHolds == Spec => []Inv
BY InitInv, NextInv, PTL DEF Spec

-----------------------------------------------------------------------------
(* read() returns the degrees that were written, for every range of pulses  *)
(* (Servo.cpp 264-312).                                                     *)
THEOREM ReadingIsWriting == Spec => []ReadsWhatWasWritten
<1>1. Inv => ReadsWhatWasWritten  BY InvReads DEF Inv
<1> QED  BY <1>1, InvHolds, PTL

(* Every pulse that was written is within the limits that attach() was      *)
(* given, to 3 us, if they are near enough to the defaults (Servo.cpp       *)
(* 240-242, 275-295).                                                       *)
THEOREM PulsesKeepTheirLimits == Spec => []PulseIsWithinLimits
<1>1. Inv => PulseIsWithinLimits  BY InvPulse DEF Inv
<1> QED  BY <1>1, InvHolds, PTL

(* SERVO_POS_INC and SERVO_POS_DEC, called however often, keep the servo at *)
(* one of nine positions (stdc_avr.cpp 42-59).                              *)
THEOREM PositionKeepsItsLimits == Spec => []PositionIsWithinLimits
BY InvHolds, InvPosition, PTL

-----------------------------------------------------------------------------
(* The numbers.                                                             *)

LEMMA Sizes ==
  /\ ByteSize \in Nat \ {0} /\ WordSize \in Nat \ {0} /\ LongSize \in Nat \ {0}
  /\ ByteSize % 2 = 0 /\ WordSize % 2 = 0 /\ LongSize % 2 = 0
  /\ ByteSize <= WordSize /\ WordSize <= LongSize
  /\ Size["byte"] = ByteSize /\ Size["word"] = WordSize /\ Size["long"] = LongSize
<1>1. /\ ByteSize \in Nat \ {0} /\ WordSize \in Nat \ {0} /\ LongSize \in Nat \ {0}
      /\ ByteSize % 2 = 0 /\ WordSize % 2 = 0 /\ LongSize % 2 = 0
      /\ WordSize % ByteSize = 0 /\ LongSize % WordSize = 0
  BY CoercionAssumption
<1>2. \A a, b \in Nat \ {0} : a % b = 0 => b <= a
  <2> SUFFICES ASSUME NEW a \in Nat \ {0}, NEW b \in Nat \ {0}, a < b PROVE a % b # 0
    OBVIOUS
  <2>1. a % b = a  OBVIOUS
  <2> QED  BY <2>1
<1> QED  BY <1>1, <1>2 DEF Size

(* The last byte of a word is not changed by taking whole words off.        *)
LEMMA LastByteIsKept ==
  ASSUME NEW m \in 0..ByteSize - 1
  PROVE  m % ByteSize = m /\ (m - WordSize) % ByteSize = m
<1>1. ByteSize \in Nat \ {0} /\ WordSize \in Nat \ {0} /\ WordSize % ByteSize = 0
  BY CoercionAssumption
<1>2. \A b \in Nat \ {0} : \A w \in Nat : \A x \in 0..b - 1 :
        w % b = 0 => x % b = x /\ (x - w) % b = x
  <2> SUFFICES ASSUME NEW b \in Nat \ {0}, NEW w \in Nat, NEW x \in 0..b - 1, w % b = 0
      PROVE  x % b = x /\ (x - w) % b = x
    OBVIOUS
  <2>1. PICK k \in Int : w = k * b
    <3>1. w \div b \in Int /\ w = (w \div b) * b  OBVIOUS
    <3> QED  BY <3>1
  <2>2. x - w = (-k) * b + x  BY <2>1
  <2> QED  BY <2>1, <2>2
<1> QED  BY <1>1, <1>2

LEMMA RestFits ==
  ASSUME NEW s \in Nat \ {0}, NEW n \in Int
  PROVE  n % s \in 0..s - 1 /\ (n \in 0..s - 1 => n % s = n)
OBVIOUS

LEMMA BitsFit ==
  ASSUME NEW type \in {"byte", "word", "long"}, NEW n \in Int
  PROVE  /\ Bits(type, n).is \in 0..LongSize - 1 /\ Bits(type, n).type = type
         /\ Bits(type, n).is = n % Size[type]
         /\ Bits(type, n).is \in 0..Size[type] - 1
         /\ n \in 0..Size[type] - 1 => Bits(type, n).is = n
<1>1. Size[type] \in Nat \ {0} /\ Size[type] <= LongSize /\ LongSize \in Nat  BY Sizes
<1>2. n % Size[type] \in 0..Size[type] - 1 /\ (n \in 0..Size[type] - 1 => n % Size[type] = n)
  BY <1>1, RestFits
<1>3. Bits(type, n).is = n % Size[type] /\ Bits(type, n).type = type  BY DEF Bits
<1> HIDE DEF Bits
<1> QED  BY <1>1, <1>2, <1>3

LEMMA WholeIs ==
  ASSUME NEW x \in Int
  PROVE  Whole(Float(x)) \in Int /\ (x >= 0 => Whole(Float(x)) = x \div 2)
         /\ Float(x).type = "float"
<1>1. Float(x).is = x /\ Float(x).type = "float"  BY DEF Float
<1>2. x \div 2 \in Int /\ (-x) \div 2 \in Int  OBVIOUS
<1> QED  BY <1>1, <1>2 DEF Whole

(* A float becomes an integer of that many bits, the right one if it fits.  *)
LEMMA FloatArrives ==
  ASSUME NEW x \in Int, NEW type \in {"byte", "long"}, NEW unsig \in BOOLEAN,
         NEW r \in default_coersion(Float(x), type, unsig)
  PROVE  /\ r.is \in 0..LongSize - 1
         /\ x >= 0 /\ x \div 2 < (IF unsig THEN Size[type] ELSE Size[type] \div 2)
              => r.is = x \div 2
<1> DEFINE w == Whole(Float(x))
           s == Size[type]
           half == s \div 2
<1>1. w \in Int /\ (x >= 0 => w = x \div 2) /\ Float(x).type = "float"  BY WholeIs
<1>2. s \in Nat \ {0} /\ half \in Nat /\ half <= s  BY Sizes
<1>3. r \in FloatToInt(Float(x), type, unsig)  BY <1>1 DEF default_coersion
<1>4. r \in (IF unsig THEN FPToUI(Float(x), type) ELSE FPToSI(Float(x), type))
  BY <1>3 DEF FloatToInt
<1> HIDE DEF w, s, half
<1>5. \/ r = Bits(type, w)
      \/ /\ \E n \in 0..s - 1 : r = Bits(type, n)
         /\ w \notin (IF unsig THEN 0..s - 1 ELSE (-half)..(half - 1))
  <2>1. CASE unsig  BY <1>4, <2>1 DEF FPToUI, w, s
  <2>2. CASE ~unsig  BY <1>4, <2>2 DEF FPToSI, w, s, half
  <2> QED  BY <2>1, <2>2
<1>6. r.is \in 0..LongSize - 1
  <2>1. \A n \in 0..s - 1 : n \in Int  BY <1>2
  <2> QED  BY <1>1, <1>5, <2>1, BitsFit
<1>7. ASSUME x >= 0, x \div 2 < (IF unsig THEN s ELSE half)
      PROVE  r.is = x \div 2
  <2>1. w = x \div 2 /\ w \in Nat  BY <1>1, <1>7
  <2>2. w < s  BY <1>2, <1>7, <2>1
  <2>3. w \in (IF unsig THEN 0..s - 1 ELSE (-half)..(half - 1))
    BY <1>2, <1>7, <2>1
  <2>4. r = Bits(type, w)  BY <1>5, <2>3
  <2>5. w \in 0..s - 1  BY <1>2, <2>1, <2>2
  <2> QED  BY <2>1, <2>4, <2>5, BitsFit DEF s
<1> QED  BY <1>6, <1>7 DEF s, half

(* Cutting a word off keeps what fits; the sign comes along when it does    *)
(* not: a word up to half its size is none the longer for it.               *)
LEMMA WordArrives ==
  ASSUME NEW m \in Nat, NEW type \in {"byte", "long"}, NEW unsig \in BOOLEAN,
         NEW r \in default_coersion(Bits("word", m), type, unsig)
  PROVE  /\ r.is \in 0..LongSize - 1
         /\ type = "byte" /\ m < ByteSize => r.is = m
         /\ type = "long" /\ m < WordSize \div 2 => r.is = m
<1> DEFINE v == Bits("word", m)
           b == m % WordSize
<1>1. v.type = "word" /\ v.is = b /\ b \in 0..WordSize - 1 /\ (m < WordSize => b = m)
  <2>1. m \in Int /\ WordSize \in Nat \ {0} /\ Size["word"] = WordSize  BY Sizes
  <2>2. b \in 0..WordSize - 1 /\ (m \in 0..WordSize - 1 => b = m)  BY <2>1, RestFits
  <2>3. v.type = "word" /\ v.is = b  BY <2>1, BitsFit
  <2> QED  BY <2>1, <2>2, <2>3
<1>2. r = Bits(type, AsSigned(v))  BY <1>1 DEF default_coersion
<1> HIDE DEF v, b
<1>3. AsSigned(v) = IF 2 * b < WordSize THEN b ELSE b - WordSize
  BY <1>1, Sizes DEF AsSigned
<1>4. AsSigned(v) \in Int  BY <1>1, <1>3, Sizes
<1>5. r.is \in 0..LongSize - 1  BY <1>2, <1>4, BitsFit
<1>6. ASSUME type = "byte", m < ByteSize PROVE r.is = m
  <2>1. b = m  BY <1>1, <1>6, Sizes
  <2>2. r.is = AsSigned(v) % ByteSize  BY <1>2, <1>4, <1>6, BitsFit, Sizes
  <2>3. m % ByteSize = m /\ (m - WordSize) % ByteSize = m  BY <1>6, Sizes, LastByteIsKept
  <2> QED  BY <1>3, <2>1, <2>2, <2>3
<1>7. ASSUME type = "long", m < WordSize \div 2 PROVE r.is = m
  <2>1. 2 * m < WordSize /\ m < WordSize  BY <1>7, Sizes
  <2>2. AsSigned(v) = m  BY <1>1, <1>3, <2>1
  <2>3. m \in 0..LongSize - 1  BY <2>1, Sizes
  <2>4. m \in Int /\ m \in 0..Size["long"] - 1  BY <2>3, Sizes
  <2>5. r = Bits("long", m)  BY <1>2, <1>7, <2>2
  <2> QED  BY <2>4, <2>5, BitsFit
<1> QED  BY <1>5, <1>6, <1>7

(* What a variable or a constant holds.                                     *)
LEMMA ResultIs ==
  ASSUME NEW e \in Operand, NEW variable \in BOOLEAN, NEW v \in Result(e, variable)
  PROVE  /\ e.n \in Int
         /\ \/ e.form = "DBL" /\ v = Float(e.n)
            \/ /\ e.form # "DBL" /\ e.n \in Nat /\ e.n = 2 * (e.n \div 2)
               /\ IF variable THEN v = Float(2 * ((e.n \div 2) % WordSize))
                              ELSE v = Bits("word", e.n \div 2)
<1>1. CASE e.form = "DBL"
  <2>1. e.n \in Int  BY <1>1, CoercionAssumption DEF Operand
  <2>2. Constant(e) = Float(e.n)  BY <1>1 DEF Constant
  <2>3. Assigned(e) = {Float(e.n)}  BY <2>2 DEF Assigned, default_coersion, Float
  <2> QED  BY <1>1, <2>1, <2>2, <2>3 DEF Result
<1>2. CASE e.form # "DBL"
  <2>1. PICK i \in Nat : e.n = 2 * i
    <3>1. ADC \subseteq Nat  BY CoercionAssumption, Sizes
    <3> QED  BY <1>2, <3>1, CoercionAssumption DEF Operand
  <2>2. e.n \div 2 = i /\ e.n \in Nat  BY <2>1
  <2>3. Constant(e) = Bits("word", i)  BY <1>2, <2>2 DEF Constant
  <2>4. Bits("word", i).type = "word" /\ Bits("word", i).is = i % WordSize
    <3>1. i \in Int /\ Size["word"] = WordSize  BY Sizes
    <3> QED  BY <3>1, BitsFit
  <2>5. Assigned(e) = {Float(2 * (i % WordSize))}
    BY <2>3, <2>4 DEF Assigned, default_coersion, IntToFloat, UIToFP
  <2> QED  BY <1>2, <2>1, <2>2, <2>3, <2>5 DEF Result
<1> QED  BY <1>1, <1>2

Converted(call, v) == CASE call = "in" -> Port(v) [] call = "port" -> OutPort(v)
                        [] call = "out" -> Output(v) [] call = "delay" -> Milliseconds(v)

LEMMA ConversionIsRight ==
  ASSUME NEW e \in Operand, NEW variable \in BOOLEAN, NEW v \in Result(e, variable),
         NEW call \in {"in", "port", "out", "delay"}, NEW r \in Converted(call, v)
  PROVE  /\ r.is \in 0..LongSize - 1
         /\ e.n \in 0..(2 * Limit(call, e.form, variable) - 1) => r.is = e.n \div 2
<1> DEFINE type == IF call = "delay" THEN "long" ELSE "byte"
           unsig == call # "in"
           limit == Limit(call, e.form, variable)
<1>1. r \in default_coersion(v, type, unsig) /\ type \in {"byte", "long"} /\ unsig \in BOOLEAN
  BY DEF Converted, Port, OutPort, Output, Milliseconds
<1>2. limit = IF variable \/ e.form = "DBL"
              THEN CASE call = "in" -> ByteSize \div 2 [] call = "delay" -> WordSize
                     [] OTHER -> ByteSize
              ELSE IF call = "delay" THEN WordSize \div 2 ELSE ByteSize
  <2>1. ByteSize \div 1 = ByteSize  BY Sizes
  <2> QED  BY <2>1 DEF Limit
<1>3. limit \in Nat /\ limit <= WordSize
  <2>1. ByteSize \div 2 \in Nat /\ ByteSize \div 2 <= ByteSize
        /\ WordSize \div 2 \in Nat /\ WordSize \div 2 <= WordSize
    BY Sizes
  <2> QED  BY <1>2, <2>1, Sizes
<1>4. variable \/ e.form = "DBL" =>
        limit <= IF unsig THEN Size[type] ELSE Size[type] \div 2
  BY <1>2, Sizes
<1>5. ~variable /\ e.form # "DBL" =>
        limit = IF type = "byte" THEN ByteSize ELSE WordSize \div 2
  BY <1>2
<1> HIDE DEF limit, type, unsig
<1>6. e.n \in Int /\ (e.n \in 0..(2 * limit - 1) => e.n \in Nat /\ e.n \div 2 \in 0..limit - 1)
  BY <1>3, ResultIs
<1>7. CASE e.form = "DBL"
  <2>1. v = Float(e.n)  BY <1>7, ResultIs
  <2>2. /\ r.is \in 0..LongSize - 1
        /\ e.n >= 0 /\ e.n \div 2 < (IF unsig THEN Size[type] ELSE Size[type] \div 2)
             => r.is = e.n \div 2
    BY <1>1, <1>6, <2>1, FloatArrives
  <2>3. ASSUME e.n \in 0..(2 * limit - 1) PROVE r.is = e.n \div 2
    <3>1. e.n >= 0 /\ e.n \div 2 < limit  BY <1>3, <1>6, <2>3
    <3>2. Size[type] \in Nat /\ Size[type] \div 2 \in Nat  BY <1>1, Sizes
    <3>3. limit <= IF unsig THEN Size[type] ELSE Size[type] \div 2  BY <1>4, <1>7
    <3> HIDE DEF limit
    <3> QED  BY <1>3, <1>6, <2>2, <3>1, <3>2, <3>3
  <2> QED  BY <2>2, <2>3 DEF limit
<1>8. CASE e.form # "DBL" /\ variable
  <2> DEFINE m == e.n \div 2
             x == 2 * (m % WordSize)
  <2>1. v = Float(x) /\ e.n \in Nat /\ e.n = 2 * m  BY <1>8, ResultIs
  <2>2. m \in Nat /\ m % WordSize \in 0..WordSize - 1 /\ (m < WordSize => m % WordSize = m)
    <3>1. m \in Nat /\ m \in Int /\ WordSize \in Nat \ {0}  BY <2>1, Sizes
    <3> HIDE DEF m
    <3>2. m % WordSize \in 0..WordSize - 1 /\ (m \in 0..WordSize - 1 => m % WordSize = m)
      BY <3>1, RestFits
    <3> QED  BY <3>1, <3>2
  <2>3. x \in Int /\ x >= 0 /\ (m < WordSize => x = e.n)  BY <2>1, <2>2, Sizes
  <2> HIDE DEF m, x
  <2>4. /\ r.is \in 0..LongSize - 1
        /\ x >= 0 /\ x \div 2 < (IF unsig THEN Size[type] ELSE Size[type] \div 2)
             => r.is = x \div 2
    BY <1>1, <2>1, <2>3, FloatArrives
  <2>5. ASSUME e.n \in 0..(2 * limit - 1) PROVE r.is = e.n \div 2
    <3>1. m \in 0..limit - 1  BY <1>6, <2>5 DEF m
    <3>2. x = e.n  BY <1>3, <2>2, <2>3, <3>1, Sizes
    <3>3. x \div 2 < (IF unsig THEN Size[type] ELSE Size[type] \div 2)
      <4>1. Size[type] \in Nat /\ Size[type] \div 2 \in Nat  BY <1>1, Sizes
      <4>2. limit <= IF unsig THEN Size[type] ELSE Size[type] \div 2  BY <1>4, <1>8
      <4>3. x \div 2 = m  BY <3>2 DEF m
      <4> QED  BY <1>3, <2>2, <3>1, <4>1, <4>2, <4>3
    <3> QED  BY <2>3, <2>4, <3>2, <3>3
  <2> QED  BY <2>4, <2>5 DEF limit
<1>9. CASE e.form # "DBL" /\ ~variable
  <2>1. v = Bits("word", e.n \div 2) /\ e.n \in Nat  BY <1>9, ResultIs
  <2>2. e.n \div 2 \in Nat  BY <2>1
  <2>3. /\ r.is \in 0..LongSize - 1
        /\ type = "byte" /\ e.n \div 2 < ByteSize => r.is = e.n \div 2
        /\ type = "long" /\ e.n \div 2 < WordSize \div 2 => r.is = e.n \div 2
    BY <1>1, <2>1, <2>2, WordArrives
  <2>4. ASSUME e.n \in 0..(2 * limit - 1) PROVE r.is = e.n \div 2
    <3>1. e.n \div 2 < limit  BY <1>3, <1>6, <2>2, <2>4
    <3> QED  BY <1>1, <1>5, <1>9, <2>3, <3>1
  <2> QED  BY <2>3, <2>4 DEF limit
<1> QED  BY <1>7, <1>8, <1>9

-----------------------------------------------------------------------------
GotFits == last.got \in 0..(LongSize - 1)
TicksFit == ticks \in 0..UINT16_MAX
Unasked == asked = NothingWritten => TicksFit
PositionOK == position \in {"unset", "own", "other"}

(* What was written lies within the limits; attach() leaves it as it is.    *)
LEMMA TicksAlwaysFit == Inv /\ Unasked => TicksFit
<1> SUFFICES ASSUME Inv, asked # NothingWritten PROVE TicksFit  BY DEF Unasked
<1>1. SERVO_MIN \in 36..1056 /\ SERVO_MAX \in 1892..2912  BY InvLimits DEF Inv
<1>2. PICK us \in SERVO_MIN..SERVO_MAX : IsWritten(us)  BY DEF Inv, AngleInv
<1>3. us \in Nat /\ us >= 36 /\ us <= 2912  BY <1>1, <1>2
<1>4. ticks = 2 * (us - 2)  BY <1>2 DEF IsWritten, TRIM_DURATION
<1>5. ticks \in Int /\ 0 <= ticks /\ ticks <= UINT16_MAX /\ UINT16_MAX \in Int
  BY <1>3, <1>4 DEF UINT16_MAX
<1> QED  BY <1>5 DEF TicksFit

LEMMA UnaskedInit == Init => Unasked /\ PositionOK
<1>1. usToTicks(DEFAULT_PULSE_WIDTH) = 3000
  BY DEF usToTicks, Quot, DEFAULT_PULSE_WIDTH, clockCyclesPerMicrosecond
<1>2. 3000 \in 0..UINT16_MAX  BY DEF UINT16_MAX
<1> QED  BY <1>1, <1>2 DEF Init, AngleInit, Unasked, TicksFit, PositionOK

LEMMA UnaskedStep ==
  ASSUME TicksFit, PositionOK, [Next]_vars
  PROVE  Unasked' /\ PositionOK'
<1>1. ASSUME NEW value, write(value) \/ writeMicroseconds(value) PROVE asked' # NothingWritten
  <2>1. Angle(value) # NothingWritten  BY DEF Angle, NothingWritten
  <2> QED  BY <1>1, <2>1 DEF write, writeMicroseconds, NothingWritten, NoAngle
<1>2. Unasked'
  <2>1. asked' # NothingWritten \/ UNCHANGED ticks
    BY <1>1 DEF Next, setup, SERVO_MIN_POS, NothingWritten, SERVO_POS_INC, SERVO_POS_DEC,
                Move, Stay, OwnCode, AngleNext, attach, Statement, In, OutTo, Out, Delay,
                Comes, angleVars, vars
  <2> QED  BY <2>1 DEF Unasked, TicksFit
<1>3. PositionOK'
  BY DEF Next, setup, SERVO_POS_INC, SERVO_POS_DEC, Move, Stay, OwnCode, Statement, In, OutTo,
         Out, Delay, Comes, vars, PositionOK
<1> QED  BY <1>2, <1>3

LEMMA NumbersInit == Init => GotFits /\ NumbersArrive
BY Sizes DEF Init, Nothing, GotFits, NumbersArrive

LEMMA NumbersStep ==
  ASSUME GotFits, NumbersArrive, [Next]_vars
  PROVE  GotFits' /\ NumbersArrive'
<1>1. CASE UNCHANGED last
  BY <1>1 DEF GotFits, NumbersArrive, Limit
<1>2. CASE Statement
  <2>1. PICK e \in Operand, variable \in BOOLEAN :
          In(e, variable) \/ OutTo(e, variable) \/ Out(e, variable) \/ Delay(e, variable)
    BY <1>2 DEF Statement
  <2>2. PICK call \in {"in", "port", "out", "delay"} :
          \E v \in Result(e, variable) : \E r \in Converted(call, v) :
            Comes(call, e, variable, r.is)
    BY <2>1 DEF In, OutTo, Out, Delay, Converted
  <2>v. PICK v \in Result(e, variable) : \E r \in Converted(call, v) :
          Comes(call, e, variable, r.is)
    BY <2>2
  <2>3. PICK r \in Converted(call, v) : Comes(call, e, variable, r.is)  BY <2>v
  <2>4. /\ r.is \in 0..LongSize - 1
        /\ e.n \in 0..(2 * Limit(call, e.form, variable) - 1) => r.is = e.n \div 2
    BY <2>3, ConversionIsRight
  <2>5. last' = [call |-> call, form |-> e.form, variable |-> variable, n |-> e.n, got |-> r.is]
    BY <2>3 DEF Comes
  <2>6. last'.call = call /\ last'.form = e.form /\ last'.variable = variable /\ last'.n = e.n
        /\ last'.got = r.is
    BY <2>5
  <2>7. Limit(last.call, last.form, last.variable)' = Limit(call, e.form, variable)
    BY <2>6 DEF Limit
  <2> QED  BY <2>4, <2>6, <2>7 DEF GotFits, NumbersArrive
<1>3. CASE setup \/ SERVO_POS_INC \/ SERVO_POS_DEC \/ OwnCode \/ UNCHANGED vars
  <2>1. UNCHANGED last
    BY <1>3 DEF setup, SERVO_POS_INC, SERVO_POS_DEC, OwnCode, Move, Stay, vars
  <2> QED  BY <1>1, <2>1
<1> QED  BY <1>2, <1>3 DEF Next

(* A number of the text arrives at the board as it is written, without its  *)
(* fraction, through a variable or not, whatever the sizes of the types     *)
(* (backllvm.cpp 159-186, 298-317, 423-443).                                *)
THEOREM TextReachesTheBoard == Spec => []NumbersArrive
<1>1. GotFits /\ NumbersArrive /\ [Next]_vars => GotFits' /\ NumbersArrive'  BY NumbersStep
<1> QED  BY <1>1, NumbersInit, PTL DEF Spec

(* Ticks are a uint16_t, limits are an int8_t, and what reaches the board   *)
(* has the bits of its type.                                                *)
THEOREM RobotTypes == Spec => []TypeOK
<1>1. GotFits /\ NumbersArrive /\ [Next]_vars => GotFits' /\ NumbersArrive'  BY NumbersStep
<1>2. Inv /\ Unasked /\ PositionOK /\ [Next]_vars => Unasked' /\ PositionOK'
  BY TicksAlwaysFit, UnaskedStep
<1>3. Inv /\ Unasked /\ PositionOK /\ GotFits => TypeOK
  <2> SUFFICES ASSUME Inv, Unasked, PositionOK, GotFits PROVE TypeOK  OBVIOUS
  <2>1. min \in -128..127 /\ max \in -128..127  BY InvLimits DEF Inv
  <2>2. TicksFit  BY TicksAlwaysFit
  <2>3. servoIndex \in {0, INVALID_SERVO}  BY DEF Inv, AngleInv
  <2> QED  BY <2>1, <2>2, <2>3 DEF TicksFit, PositionOK, GotFits, TypeOK, Inv, AngleInv
<1> QED  BY <1>1, <1>2, <1>3, NumbersInit, UnaskedInit, InvHolds, PTL DEF Spec
=============================================================================
