---------------------------- MODULE Timer0Proofs ----------------------------
(***************************************************************************)
(* For every period, every length of a millisecond and all times: the      *)
(* clock does not drift and loses no overflow, micros() and millis()       *)
(* return what was true during the call, and delay() is long enough.       *)
(***************************************************************************)
EXTENDS Timer0, TLAPS

(* What the counters are worth together.  The fraction is what the          *)
(* milliseconds leave of the time of the overflows handled so far: this is  *)
(* why no carry is ever lost.  Elapsed are the milliseconds before the      *)
(* counter goes round.                                                      *)
Worth(n, elapsed) ==
  /\ n * MICROSECONDS_PER_TIMER0_OVERFLOW = elapsed * Ms + timer0_fract * FractUnit
  /\ timer0_overflow_count = n % Width /\ timer0_millis = elapsed % Width

(* A pending overflow is handled before the next one.                       *)
Pending == now \in Nat /\ TOV0 \in BOOLEAN
           /\ (TOV0 => now \div Period >= 1 /\ now % Period < Period - 1)
ClockInv ==
  /\ Pending
  /\ timer0_fract \in Nat /\ timer0_fract < FRACT_MAX
  /\ \E elapsed \in Nat : Worth(Handled, elapsed)

-----------------------------------------------------------------------------
(* Division.                                                                *)

LEMMA QuotientIsUnique ==
  ASSUME NEW a \in Int, NEW b \in Nat \ {0}, NEW q \in Int, NEW r \in Nat,
         a = q * b + r, r < b
  PROVE  a \div b = q /\ a % b = r
OBVIOUS

LEMMA QuotientAndRest ==
  ASSUME NEW a \in Nat, NEW b \in Nat \ {0}
  PROVE  /\ a \div b \in Nat /\ a % b \in Nat /\ a % b < b
         /\ a = (a \div b) * b + (a % b)
OBVIOUS

LEMMA QuotientGrows ==
  ASSUME NEW a \in Nat, NEW c \in Nat, NEW b \in Nat \ {0}, a <= c
  PROVE  a \div b <= c \div b
<1> DEFINE q == a \div b
           p == c \div b
<1>1. q \in Nat /\ q * b <= a  BY QuotientAndRest
<1>2. p \in Nat /\ c < (p + 1) * b
  <2>1. p \in Nat /\ c % b < b /\ c % b \in Nat /\ c = p * b + (c % b)  BY QuotientAndRest, Zenon
  <2>2. (p + 1) * b = p * b + b  BY <2>1
  <2> QED  BY <2>1, <2>2
<1> HIDE DEF q, p
<1>3. q < p + 1
  <2>1. q * b < (p + 1) * b  BY <1>1, <1>2
  <2>2. q >= p + 1 => q * b >= (p + 1) * b  BY <1>1, <1>2
  <2> QED  BY <1>1, <1>2, <2>1, <2>2
<1> QED  BY <1>1, <1>2, <1>3 DEF q, p

LEMMA RestOfSum ==
  ASSUME NEW a \in Nat, NEW c \in Nat, NEW b \in Nat \ {0}
  PROVE  ((a % b) + c) % b = (a + c) % b
<1> DEFINE q == a \div b
           r == a % b
           s == (r + c) \div b
           t == (r + c) % b
<1>1. q \in Nat /\ r \in Nat /\ a = q * b + r  BY QuotientAndRest
<1>2. s \in Nat /\ t \in Nat /\ t < b /\ r + c = s * b + t
  <2>1. r + c \in Nat  BY <1>1
  <2> QED  BY <2>1, QuotientAndRest
<1>3. a + c = (q + s) * b + t
  <2> HIDE DEF q, r, s, t
  <2>1. (q + s) * b = q * b + s * b  BY <1>1, <1>2
  <2> QED  BY <1>1, <1>2, <2>1
<1>4. (a + c) % b = t
  <2>1. a + c \in Int /\ q + s \in Int  BY <1>1, <1>2
  <2> HIDE DEF q, r, s, t
  <2> QED  BY <1>2, <1>3, <2>1, QuotientIsUnique
<1> QED  BY <1>4

-----------------------------------------------------------------------------
(* The constants: MILLIS_INC and FRACT_INC are worth one overflow.          *)

LEMMA ConstantsAreNumbers ==
  /\ Period \in Nat \ {0} /\ Period > 2 /\ TickMicros \in Nat \ {0} /\ Ms \in Nat \ {0}
  /\ FractUnit \in Nat \ {0} /\ Half \in Nat \ {0}
  /\ MICROSECONDS_PER_TIMER0_OVERFLOW \in Nat /\ Width \in Nat \ {0}
<1>1. /\ Period \in Nat \ {0} /\ Period > 2 /\ TickMicros \in Nat \ {0} /\ Ms \in Nat \ {0}
      /\ FractUnit \in Nat \ {0} /\ Half \in Nat \ {0}
  BY TimerAssumption
<1>2. MICROSECONDS_PER_TIMER0_OVERFLOW \in Nat
  BY <1>1 DEF MICROSECONDS_PER_TIMER0_OVERFLOW
<1>3. \A h \in Nat \ {0} : h * h \in Nat \ {0}  OBVIOUS
<1>4. Width \in Nat \ {0}  BY <1>1, <1>3 DEF Width
<1> QED  BY <1>1, <1>2, <1>4

LEMMA OverflowIsWorth ==
  /\ MILLIS_INC \in Nat /\ FRACT_INC \in Nat /\ FRACT_MAX \in Nat /\ FRACT_INC < FRACT_MAX
  /\ FRACT_MAX * FractUnit = Ms
  /\ MILLIS_INC * Ms + FRACT_INC * FractUnit = MICROSECONDS_PER_TIMER0_OVERFLOW
<1> DEFINE M == MICROSECONDS_PER_TIMER0_OVERFLOW
           k == M \div FractUnit
           rest == M % Ms
<1>1. M \in Nat /\ Ms \in Nat \ {0} /\ FractUnit \in Nat \ {0}  BY ConstantsAreNumbers
<1>2. MILLIS_INC \in Nat /\ rest \in Nat /\ rest < Ms /\ M = MILLIS_INC * Ms + rest
  BY <1>1, QuotientAndRest DEF MILLIS_INC
<1>3. FRACT_MAX \in Nat /\ FRACT_MAX * FractUnit = Ms
  <2>1. Ms % FractUnit = 0  BY TimerAssumption
  <2> QED  BY <1>1, <2>1, QuotientAndRest DEF FRACT_MAX
<1>4. k \in Nat /\ M = k * FractUnit
  <2>1. M % FractUnit = 0  BY TimerAssumption
  <2> QED  BY <1>1, <2>1, QuotientAndRest
<1> DEFINE p == MILLIS_INC * FRACT_MAX
           j == k - p
<1>5. p \in Int /\ j \in Int  BY <1>2, <1>3, <1>4
<1>6. rest = j * FractUnit + 0
  <2>1. p * FractUnit = MILLIS_INC * Ms
    <3>1. \A a, b, c \in Int : (a * b) * c = a * (b * c)  OBVIOUS
    <3> QED  BY <1>1, <1>2, <1>3, <3>1
  <2> HIDE DEF M, k, rest, p
  <2>2. (k - p) * FractUnit = k * FractUnit - p * FractUnit  BY <1>1, <1>4, <1>5
  <2> DEFINE x == k * FractUnit
             y == MILLIS_INC * Ms
             z == p * FractUnit
  <2>3. x \in Int /\ y \in Int /\ z \in Int /\ rest \in Int  BY <1>1, <1>2, <1>4, <1>5
  <2>4. x = y + rest /\ z = y /\ j * FractUnit = x - z  BY <1>2, <1>4, <2>1, <2>2
  <2> HIDE DEF j, x, y, z
  <2> QED  BY <2>3, <2>4
<1>7. FRACT_INC = j
  <2>1. rest \in Int /\ 0 \in Nat /\ 0 < FractUnit  BY <1>1, <1>2
  <2> HIDE DEF rest, j
  <2>2. rest \div FractUnit = j  BY <1>1, <1>5, <1>6, <2>1, QuotientIsUnique
  <2> QED  BY <2>2 DEF FRACT_INC, rest
<1>8. FRACT_INC \in Nat /\ FRACT_INC < FRACT_MAX
  <2>0. rest \in Nat /\ rest < Ms  BY <1>2
  <2> HIDE DEF rest, j
  <2>1. j * FractUnit >= 0 /\ j * FractUnit < FRACT_MAX * FractUnit
    <3> DEFINE x == j * FractUnit
    <3>1. x \in Int /\ rest = x + 0  BY <1>1, <1>5, <1>6
    <3>2. FRACT_MAX * FractUnit = Ms  BY <1>3
    <3> HIDE DEF x
    <3>3. x >= 0 /\ x < Ms  BY <2>0, <3>1
    <3> QED  BY <3>2, <3>3 DEF x
  <2>2. j >= 0 /\ j < FRACT_MAX  BY <1>1, <1>3, <1>5, <2>1
  <2> QED  BY <1>5, <1>7, <2>2
<1>9. rest = FRACT_INC * FractUnit
  <2> HIDE DEF rest, j
  <2> QED  BY <1>1, <1>5, <1>6, <1>7
<1>10. M = MILLIS_INC * Ms + FRACT_INC * FractUnit
  <2> HIDE DEF M, rest
  <2> QED  BY <1>2, <1>9
<1> QED  BY <1>2, <1>3, <1>8, <1>10

-----------------------------------------------------------------------------
(* What the invariant means: the counter is the whole milliseconds.         *)

LEMMA HandledIsNat == Pending => Handled \in Nat
BY ConstantsAreNumbers, QuotientAndRest DEF Pending, Handled

LEMMA InvNeverDrifts == ClockInv => MillisNeverDrifts
<1> SUFFICES ASSUME ClockInv PROVE MillisNeverDrifts  OBVIOUS
<1>1. PICK elapsed \in Nat : Worth(Handled, elapsed)  BY DEF ClockInv
<1> DEFINE total == Handled * MICROSECONDS_PER_TIMER0_OVERFLOW
           rest == timer0_fract * FractUnit
<1>2. total \in Int  BY HandledIsNat, ConstantsAreNumbers DEF ClockInv
<1>3. rest \in Nat /\ rest < Ms
  <2>1. timer0_fract \in Nat /\ timer0_fract < FRACT_MAX  BY DEF ClockInv
  <2>2. FractUnit \in Nat \ {0} /\ FRACT_MAX \in Nat  BY ConstantsAreNumbers, OverflowIsWorth
  <2>3. timer0_fract * FractUnit < FRACT_MAX * FractUnit  BY <2>1, <2>2
  <2> QED  BY <2>1, <2>2, <2>3, OverflowIsWorth
<1>4. total = elapsed * Ms + rest  BY <1>1 DEF Worth
<1>5. total \div Ms = elapsed
  <2>1. Ms \in Nat \ {0}  BY ConstantsAreNumbers
  <2> HIDE DEF total, rest
  <2> QED  BY <1>2, <1>3, <1>4, <2>1, QuotientIsUnique
<1> QED  BY <1>1, <1>5 DEF MillisNeverDrifts, MillisOf, Worth

-----------------------------------------------------------------------------
(* The steps.                                                               *)

LEMMA InitClockInv == Init => ClockInv
<1> SUFFICES ASSUME Init PROVE ClockInv  OBVIOUS
<1>1. now \div Period = 0 /\ now % Period = 0
  BY ConstantsAreNumbers, QuotientIsUnique DEF Init
<1>2. Handled = 0  BY <1>1 DEF Handled, Init
<1>3. 0 % Width = 0  BY ConstantsAreNumbers
<1>4. Worth(Handled, 0)
  BY <1>2, <1>3, ConstantsAreNumbers DEF Worth, Init
<1>5. 0 < FRACT_MAX  BY OverflowIsWorth
<1> QED  BY <1>4, <1>5 DEF ClockInv, Pending, Init

(* An overflow only becomes pending when none is: so none is lost.          *)
LEMMA TickKeepsClockInv == ClockInv /\ Tick => ClockInv'
<1> SUFFICES ASSUME ClockInv, Tick PROVE ClockInv'  OBVIOUS
<1> DEFINE q == now \div Period
           r == now % Period
<1>1. Period \in Nat \ {0} /\ Period > 2 /\ now \in Nat /\ now' = now + 1
  BY ConstantsAreNumbers DEF ClockInv, Pending, Tick
<1>2. q \in Nat /\ r \in Nat /\ r < Period /\ now = q * Period + r
  BY <1>1, QuotientAndRest
<1>3. UNCHANGED counters /\ TOV0' = (TOV0 \/ r = Period - 1)  BY DEF Tick, TCNT0
<1>4. Pending' /\ Handled' = Handled
  <2>1. CASE r = Period - 1
    <3>1. ~TOV0
      <4>1. TOV0 => r < Period - 1  BY DEF ClockInv, Pending
      <4> HIDE DEF r
      <4> QED  BY <1>1, <1>2, <2>1, <4>1
    <3>2. now + 1 = (q + 1) * Period + 0
      <4> HIDE DEF q, r
      <4>1. (q + 1) * Period = q * Period + Period  BY <1>1, <1>2
      <4> QED  BY <1>1, <1>2, <2>1, <4>1
    <3>3. (now + 1) \div Period = q + 1 /\ (now + 1) % Period = 0
      <4>1. now + 1 \in Int /\ q + 1 \in Int /\ 0 < Period  BY <1>1, <1>2
      <4> HIDE DEF q, r
      <4> QED  BY <1>1, <3>2, <4>1, QuotientIsUnique
    <3> HIDE DEF r
    <3>4. TOV0' = TRUE  BY <1>3, <2>1
    <3> QED  BY <1>1, <1>2, <3>1, <3>3, <3>4 DEF Pending, Handled
  <2>2. CASE r # Period - 1
    <3>1. now + 1 = q * Period + (r + 1) /\ r + 1 \in Nat /\ r + 1 < Period
      <4> HIDE DEF q, r
      <4> QED  BY <1>1, <1>2, <2>2
    <3>2. (now + 1) \div Period = q /\ (now + 1) % Period = r + 1
      <4>1. now + 1 \in Int /\ q \in Int  BY <1>1, <1>2
      <4> HIDE DEF q, r
      <4> QED  BY <1>1, <3>1, <4>1, QuotientIsUnique
    <3>3. TOV0' = TOV0  BY <1>3, <2>2 DEF ClockInv, Pending
    <3>4. TOV0 => (now + 1) % Period < Period - 1  BY DEF Tick
    <3> HIDE DEF r
    <3> QED  BY <1>1, <1>2, <3>2, <3>3, <3>4 DEF ClockInv, Pending, Handled
  <2> QED  BY <2>1, <2>2
<1>5. PICK elapsed \in Nat : Worth(Handled, elapsed)  BY DEF ClockInv
<1>6. Worth(Handled, elapsed)'  BY <1>3, <1>4, <1>5 DEF Worth, counters
<1> QED  BY <1>3, <1>4, <1>6 DEF ClockInv, counters

(* What the handler adds is worth one overflow, whether the fraction        *)
(* carries over or not.                                                     *)
LEMMA OverflowKeepsClockInv == ClockInv /\ TIMER0_OVF => ClockInv'
<1> SUFFICES ASSUME ClockInv, TIMER0_OVF PROVE ClockInv'  OBVIOUS
<1> DEFINE f == timer0_fract + FRACT_INC
           carry == Carried(f)[1]
           left == Carried(f)[2]
           n == Handled
           M == MICROSECONDS_PER_TIMER0_OVERFLOW
<1>1. /\ TOV0 /\ TOV0' = FALSE /\ now' = now /\ timer0_fract' = left
      /\ timer0_millis' = (timer0_millis + MILLIS_INC + carry) % Width
      /\ timer0_overflow_count' = (timer0_overflow_count + 1) % Width
  BY DEF TIMER0_OVF
<1>2. PICK elapsed \in Nat : Worth(n, elapsed)  BY DEF ClockInv
<1>3. n \in Nat /\ M \in Nat /\ Ms \in Nat \ {0} /\ FractUnit \in Nat \ {0} /\ Width \in Nat \ {0}
  BY HandledIsNat, ConstantsAreNumbers DEF ClockInv
<1>4. Pending' /\ Handled' = n + 1
  <2>1. now \div Period \in Nat  BY ConstantsAreNumbers, QuotientAndRest DEF ClockInv, Pending
  <2>2. Pending  BY DEF ClockInv
  <2>3. TOV0 /\ TOV0' = FALSE /\ now' = now  BY <1>1
  <2>4. Pending'  BY <2>2, <2>3 DEF Pending
  <2>5. n = now \div Period - 1  BY <2>3 DEF Handled
  <2>6. Handled' = now \div Period - 0  BY <2>3 DEF Handled
  <2> HIDE DEF n
  <2> QED  BY <2>1, <2>4, <2>5, <2>6
<1>5. f \in Nat /\ f < 2 * FRACT_MAX  BY OverflowIsWorth DEF ClockInv
<1>6. /\ carry \in Nat /\ left \in Nat /\ left < FRACT_MAX
      /\ f * FractUnit = carry * Ms + left * FractUnit
  <2> HIDE DEF f
  <2>1. FRACT_MAX \in Nat /\ FRACT_MAX * FractUnit = Ms  BY OverflowIsWorth
  <2>2. CASE f >= FRACT_MAX
    <3>1. carry = 1 /\ left = f - FRACT_MAX  BY <2>2 DEF Carried
    <3>2. (f - FRACT_MAX) * FractUnit = f * FractUnit - FRACT_MAX * FractUnit
      BY <1>3, <1>5, <2>1
    <3> QED  BY <1>3, <1>5, <2>1, <2>2, <3>1, <3>2
  <2>3. CASE ~(f >= FRACT_MAX)
    <3>1. carry = 0 /\ left = f  BY <2>3 DEF Carried
    <3> QED  BY <1>3, <1>5, <2>1, <2>3, <3>1
  <2> QED  BY <2>2, <2>3
<1> DEFINE more == MILLIS_INC + carry
<1>7. more \in Nat  BY <1>6, OverflowIsWorth
<1>8. (n + 1) * M = (elapsed + more) * Ms + left * FractUnit
  <2> DEFINE a == elapsed * Ms
             b == timer0_fract * FractUnit
             c == MILLIS_INC * Ms
             d == FRACT_INC * FractUnit
             e == carry * Ms
  <2>1. n * M = a + b  BY <1>2 DEF Worth
  <2>2. M = c + d  BY OverflowIsWorth
  <2>3. f * FractUnit = b + d  BY <1>3, OverflowIsWorth DEF ClockInv
  <2>4. (elapsed + more) * Ms = a + c + e
    <3>1. carry \in Nat /\ MILLIS_INC \in Nat  BY <1>6, OverflowIsWorth
    <3> HIDE DEF carry
    <3> QED  BY <1>3, <3>1
  <2>5. (n + 1) * M = n * M + M
    <3> HIDE DEF n, M
    <3> QED  BY <1>3
  <2>6. /\ a \in Int /\ b \in Int /\ c \in Int /\ d \in Int /\ e \in Int
        /\ left * FractUnit \in Int
    <3>1. carry \in Nat /\ left \in Nat /\ MILLIS_INC \in Nat /\ FRACT_INC \in Nat
          /\ timer0_fract \in Nat
      BY <1>6, OverflowIsWorth DEF ClockInv
    <3> HIDE DEF carry, left
    <3> QED  BY <1>3, <3>1
  <2>7. f * FractUnit = e + left * FractUnit  BY <1>6
  <2> HIDE DEF a, b, c, d, e, f, left, more, n, M
  <2> QED  BY <2>7, <2>1, <2>2, <2>3, <2>4, <2>5, <2>6
<1>9. timer0_overflow_count' = (n + 1) % Width
  <2>1. timer0_overflow_count = n % Width  BY <1>2 DEF Worth
  <2> HIDE DEF n
  <2>2. ((n % Width) + 1) % Width = (n + 1) % Width  BY <1>3, RestOfSum
  <2> QED  BY <1>1, <2>1, <2>2, Zenon
<1>10. timer0_millis' = (elapsed + more) % Width
  <2>1. timer0_millis = elapsed % Width  BY <1>2 DEF Worth
  <2>2. timer0_millis + MILLIS_INC + carry = (elapsed % Width) + more
    <3>1. carry \in Nat /\ MILLIS_INC \in Nat /\ elapsed % Width \in Nat
      BY <1>3, <1>6, OverflowIsWorth, QuotientAndRest
    <3> HIDE DEF carry
    <3> QED  BY <2>1, <3>1
  <2> HIDE DEF carry, more
  <2> QED  BY <1>1, <1>3, <1>7, <2>2, RestOfSum
<1>11. PICK total \in Nat : total = elapsed + more  BY <1>7
<1> HIDE DEF left, more, n, M
<1>12. Worth(Handled, total)'
  <2>1. Handled' * MICROSECONDS_PER_TIMER0_OVERFLOW = total * Ms + timer0_fract' * FractUnit
    BY <1>1, <1>4, <1>8, <1>11 DEF M
  <2> QED  BY <1>4, <1>9, <1>10, <1>11, <2>1 DEF Worth
<1> QED  BY <1>1, <1>4, <1>6, <1>12 DEF ClockInv

LEMMA OthersKeepClockInv == ClockInv /\ UNCHANGED <<now, TOV0, counters>> => ClockInv'
BY DEF ClockInv, Pending, Worth, Handled, counters

LEMMA NextKeepsClockInv == ClockInv /\ [Next]_vars => ClockInv'
<1> SUFFICES ASSUME ClockInv, [Next]_vars PROVE ClockInv'  OBVIOUS
<1>1. CASE Tick  BY <1>1, TickKeepsClockInv
<1>2. CASE TIMER0_OVF  BY <1>2, OverflowKeepsClockInv
<1>3. ASSUME NEW c \in Context, Instruction(c) PROVE ClockInv'
  <2>1. UNCHANGED <<now, TOV0, counters>>
    BY <1>3 DEF Instruction, SaveAndCli, ReadLow, ReadHigh, ReadTCNT0, ReadTIFR0, Restore
  <2> QED  BY <2>1, OthersKeepClockInv
<1>4. CASE PinInterrupt \/ HandlerReturns \/ ProgramCalls \/ ProgramGets
  BY <1>4, OthersKeepClockInv DEF PinInterrupt, HandlerReturns, ProgramCalls, ProgramGets
<1>5. CASE DelayCalled \/ DelayStarts \/ DelayPolls \/ DelayCounts \/ DelayReturns
  BY <1>5, OthersKeepClockInv
  DEF DelayCalled, DelayStarts, DelayPolls, DelayCounts, DelayReturns, hardware
<1>6. CASE UNCHANGED vars  BY <1>6, OthersKeepClockInv DEF vars, hardware
<1> QED  BY <1>1, <1>2, <1>3, <1>4, <1>5, <1>6 DEF Next

(* No overflow is lost and no microsecond of it either: the counters are    *)
(* the overflows and the whole milliseconds of all that were handled        *)
(* (wiring.c 45-66).                                                        *)
THEOREM ClockNeverDrifts == Spec => []MillisNeverDrifts
<1>1. Spec => []ClockInv
  <2>1. Init => ClockInv  BY InitClockInv
  <2>2. ClockInv /\ [Next]_vars => ClockInv'  BY NextKeepsClockInv
  <2> QED  BY <2>1, <2>2, PTL DEF Spec
<1>2. ClockInv => MillisNeverDrifts  BY InvNeverDrifts
<1> QED  BY <1>1, <1>2, PTL

-----------------------------------------------------------------------------
(* What the calls of micros(), millis() and delay() have read.              *)

(* The I bit is off from the second instruction of a call to its last one,  *)
(* and in a handler: so no handler runs in the middle of a call.            *)
Middle == {"low", "high", "TCNT0", "TIFR0", "restore"}
Masked ==
  /\ inHandler => ~enabled /\ call["program"].step \notin Middle
  /\ ~inHandler => call["handler"].step = "none"
  /\ \A c \in Context : call[c].step \in Middle => ~enabled
  /\ call["handler"].step \in Middle => ~call["handler"].oldSREG

(* t was the count at the last instruction, and an overflow since then is   *)
(* pending.                                                                 *)
CountRead(c) ==
  LET x == IF ticked THEN now - 1 ELSE now
  IN  /\ x >= call[c].began /\ call[c].t = x % Period
      /\ ticked /\ now % Period = 0 => TOV0

(* What a call has read so far.                                             *)
CallInv(c) ==
  /\ call[c].began <= now
  /\ call[c].step = "high" => call[c].low = Read(c) % Half
  /\ call[c].step \in {"TCNT0", "TIFR0"} =>
       call[c].of = "micros" /\ call[c].m = timer0_overflow_count
  /\ call[c].step = "TIFR0" => CountRead(c)
  /\ call[c].step = "restore" =>
       IF call[c].of = "micros"
       THEN \E x \in call[c].began..now :
              call[c].t = x % Period /\ call[c].m = (x \div Period) % Width
       ELSE call[c].m = timer0_millis
  /\ call[c].step = "value" => TrueDuring(c)

(* The start of the millisecond that delay() waits for, as a time that does *)
(* not go round: no later than the poll in progress began.                  *)
StartedAt(s) ==
  /\ delayed.start = s % Width
  /\ s >= delayed.began * TickMicros + (delayed.asked - delayed.ms) * Ms
  /\ s <= now * TickMicros
  /\ call["program"].step # "none" => s <= call["program"].began * TickMicros
DelayInv ==
  /\ delayed.does # "nothing" /\ call["program"].step # "none" =>
       call["program"].of = "micros"
  /\ delayed.does = "starts" =>
       /\ call["program"].step # "none" /\ delayed.ms = delayed.asked
       /\ delayed.began <= call["program"].began
  /\ delayed.does = "waits" =>
       /\ call["program"].step # "none" => delayed.ms > 0
       /\ \E s \in Nat : StartedAt(s)

CallsInv ==
  /\ ClockInv /\ TypeOK /\ Masked /\ DelayInv
  /\ \A c \in Context : CallInv(c)

-----------------------------------------------------------------------------
(* Types.                                                                   *)

LEMMA RestIsBelow ==
  ASSUME NEW a \in Nat, NEW b \in Nat \ {0}
  PROVE  a % b \in 0..b - 1
BY QuotientAndRest

LEMMA CallIsTyped ==
  ASSUME TypeOK, NEW c \in Context
  PROVE  /\ call[c] \in Call /\ call[c].low \in Nat /\ call[c].m \in Nat /\ call[c].t \in Nat
         /\ call[c].began \in Nat /\ call[c].step \in Step /\ call[c].of \in Function
         /\ call[c].oldSREG \in BOOLEAN
BY DEF TypeOK, Call

LEMMA GoKeepsTypes ==
  ASSUME TypeOK, NEW c \in Context, NEW new \in Call, Go(c, new),
         UNCHANGED <<now, TOV0, counters>>, enabled' \in BOOLEAN, inHandler' \in BOOLEAN,
         delayed' \in Delay
  PROVE  TypeOK'
BY DEF TypeOK, Go, counters

LEMMA CountersAreNumbers ==
  ASSUME TypeOK
  PROVE  /\ now \in Nat /\ timer0_overflow_count \in Nat /\ timer0_millis \in Nat
         /\ timer0_overflow_count < Width /\ timer0_millis < Width
         /\ \A c \in Context : Read(c) \in Nat /\ Read(c) < Width
BY ConstantsAreNumbers DEF TypeOK, Read

LEMMA InstructionKeepsTypes ==
  ASSUME TypeOK, NEW c \in Context, Instruction(c)
  PROVE  TypeOK'
<1> USE CallIsTyped DEF Call
<1>0. delayed \in Delay /\ enabled \in BOOLEAN /\ inHandler \in BOOLEAN  BY DEF TypeOK
<1>1. CASE SaveAndCli(c)
  <2>1. [call[c] EXCEPT !.step = "low", !.oldSREG = enabled] \in Call  BY <1>0 DEF Step
  <2> QED  BY <1>0, <1>1, <2>1, GoKeepsTypes DEF SaveAndCli, Cli
<1>2. CASE ReadLow(c)
  <2>1. Read(c) % Half \in Nat  BY CountersAreNumbers, ConstantsAreNumbers, QuotientAndRest
  <2>2. [call[c] EXCEPT !.step = "high", !.low = Read(c) % Half] \in Call
    BY <2>1 DEF Step
  <2> QED  BY <1>0, <1>2, <2>2, GoKeepsTypes DEF ReadLow
<1>3. CASE ReadHigh(c)
  <2> DEFINE m == (Read(c) \div Half) * Half + call[c].low
  <2>1. m \in Nat
    <3>1. Read(c) \div Half \in Nat /\ Half \in Nat
      BY CountersAreNumbers, ConstantsAreNumbers, QuotientAndRest
    <3> QED  BY <3>1
  <2> HIDE DEF m
  <2>2. [call[c] EXCEPT !.m = m, !.low = 0,
           !.step = IF call[c].of = "micros" THEN "TCNT0" ELSE "restore"] \in Call
    BY <2>1 DEF Step
  <2> QED  BY <1>0, <1>3, <2>2, GoKeepsTypes DEF ReadHigh, m
<1>4. CASE ReadTCNT0(c)
  <2>1. TCNT0 \in Nat  BY CountersAreNumbers, ConstantsAreNumbers, QuotientAndRest DEF TCNT0
  <2>2. [call[c] EXCEPT !.step = "TIFR0", !.t = TCNT0] \in Call  BY <2>1 DEF Step
  <2> QED  BY <1>0, <1>4, <2>2, GoKeepsTypes DEF ReadTCNT0
<1>5. CASE ReadTIFR0(c)
  <2> DEFINE m == IF PendingOverflow(call[c].t) THEN (call[c].m + 1) % Width ELSE call[c].m
  <2>1. m \in Nat
    <3>1. call[c].m + 1 \in Nat /\ Width \in Nat \ {0}  BY ConstantsAreNumbers
    <3>2. (call[c].m + 1) % Width \in Nat  BY <3>1, QuotientAndRest
    <3> QED  BY <3>2
  <2> HIDE DEF m
  <2>2. [call[c] EXCEPT !.step = "restore", !.m = m] \in Call  BY <2>1 DEF Step
  <2> QED  BY <1>0, <1>5, <2>2, GoKeepsTypes DEF ReadTIFR0, m
<1>6. CASE Restore(c)
  <2>1. Returned(c) \in Nat
    <3>1. (call[c].m * Period + call[c].t) * TickMicros \in Nat /\ Width \in Nat \ {0}
      BY ConstantsAreNumbers
    <3> HIDE DEF Call
    <3>2. ((call[c].m * Period + call[c].t) * TickMicros) % Width \in Nat
      BY <3>1, QuotientAndRest
    <3> QED  BY <3>2 DEF Returned
  <2>2. [NoCall EXCEPT !.step = "value", !.of = call[c].of,
                       !.m = Returned(c), !.began = call[c].began] \in Call
    BY <2>1 DEF NoCall, Step
  <2> QED  BY <1>0, <1>6, <2>2, GoKeepsTypes DEF Restore
<1> QED  BY <1>1, <1>2, <1>3, <1>4, <1>5, <1>6 DEF Instruction

LEMMA NewCallIsTyped ==
  ASSUME TypeOK, NEW f \in Function
  PROVE  NoCall \in Call /\ [NoCall EXCEPT !.step = "cli", !.of = f, !.began = now] \in Call
BY CountersAreNumbers DEF NoCall, Call, Step, Function

LEMMA NextKeepsTypes == TypeOK /\ DelayInv /\ [Next]_vars => TypeOK'
<1> SUFFICES ASSUME TypeOK, DelayInv, [Next]_vars PROVE TypeOK'  OBVIOUS
<1>0. delayed \in Delay /\ enabled \in BOOLEAN /\ inHandler \in BOOLEAN  BY DEF TypeOK
<1>a. "program" \in Context /\ "handler" \in Context /\ "micros" \in Function
  BY DEF Context, Function
<1>1. CASE Tick  BY <1>1 DEF Tick, TypeOK, counters, InCall
<1>2. CASE TIMER0_OVF
  <2> DEFINE f == timer0_fract + FRACT_INC
  <2>1. f \in Nat /\ f < 2 * FRACT_MAX /\ FRACT_MAX \in Nat
    BY OverflowIsWorth DEF TypeOK
  <2> HIDE DEF f
  <2>2. Carried(f)[1] \in Nat /\ Carried(f)[2] \in 0..FRACT_MAX - 1
    BY <2>1 DEF Carried
  <2>3. (timer0_overflow_count + 1) % Width \in 0..Width - 1
    <3>1. timer0_overflow_count + 1 \in Nat  BY CountersAreNumbers
    <3> QED  BY <3>1, RestIsBelow, ConstantsAreNumbers
  <2>4. (timer0_millis + MILLIS_INC + Carried(f)[1]) % Width \in 0..Width - 1
    <3>1. timer0_millis + MILLIS_INC + Carried(f)[1] \in Nat
      BY CountersAreNumbers, OverflowIsWorth, <2>2
    <3> QED  BY <3>1, RestIsBelow, ConstantsAreNumbers
  <2> QED  BY <1>2, <2>2, <2>3, <2>4 DEF TIMER0_OVF, TypeOK, f
<1>3. ASSUME NEW c \in Context, Instruction(c) PROVE TypeOK'
  BY <1>3, InstructionKeepsTypes
<1>4. CASE PinInterrupt
  BY <1>0, <1>a, <1>4, NewCallIsTyped, GoKeepsTypes DEF PinInterrupt, Calling, counters
<1>5. CASE HandlerReturns
  BY <1>0, <1>a, <1>5, NewCallIsTyped, GoKeepsTypes DEF HandlerReturns, counters
<1>6. CASE ProgramCalls
  BY <1>0, <1>a, <1>6, NewCallIsTyped, GoKeepsTypes DEF ProgramCalls, Calling, counters
<1>7. CASE ProgramGets
  BY <1>0, <1>a, <1>7, NewCallIsTyped, GoKeepsTypes DEF ProgramGets, counters
<1>8. CASE DelayCalled
  <2>1. PICK ms \in 0..MaxDelay :
          /\ delayed' = [does |-> "starts", ms |-> ms, start |-> 0, asked |-> ms, began |-> now]
          /\ Calling("program", "micros")
          /\ UNCHANGED <<now, TOV0, enabled, counters, inHandler>>
    BY <1>8 DEF DelayCalled
  <2>2. delayed' \in Delay  BY <2>1, CountersAreNumbers DEF Delay
  <2> QED  BY <1>0, <1>a, <2>1, <2>2, NewCallIsTyped, GoKeepsTypes DEF Calling
<1>9. CASE DelayStarts
  <2>1. Value("program") \in Nat  BY <1>a, CallIsTyped DEF Value
  <2>2. delayed' \in Delay  BY <1>0, <1>9, <2>1 DEF DelayStarts, Delay
  <2> QED  BY <1>0, <1>a, <1>9, <2>2, NewCallIsTyped, GoKeepsTypes DEF DelayStarts
<1>10. CASE DelayPolls
  BY <1>0, <1>a, <1>10, NewCallIsTyped, GoKeepsTypes DEF DelayPolls, Calling
<1>11. CASE DelayCounts
  <2>1. delayed.ms > 0 /\ delayed.start \in Nat /\ delayed.ms \in Nat
    BY <1>0, <1>11 DEF DelayCounts, DelayInv, At, Delay
  <2>2. Started(delayed.start) \in Nat
    <3>1. delayed.start + Ms \in Nat  BY <2>1, ConstantsAreNumbers
    <3> QED  BY <3>1, ConstantsAreNumbers, QuotientAndRest DEF Started
  <2>3. [delayed EXCEPT !.ms = @ - 1, !.start = Started(@)] \in Delay
    <3> DEFINE ms == delayed.ms - 1
               start == Started(delayed.start)
    <3>1. ms \in Nat /\ start \in Nat  BY <2>1, <2>2
    <3>2. [delayed EXCEPT !.ms = @ - 1, !.start = Started(@)]
            = [delayed EXCEPT !.ms = ms, !.start = start]
      BY <1>0 DEF Delay
    <3> HIDE DEF ms, start
    <3>3. [delayed EXCEPT !.ms = ms, !.start = start] \in Delay  BY <1>0, <3>1 DEF Delay
    <3> QED  BY <3>2, <3>3
  <2>4. delayed' \in Delay  BY <1>0, <1>11, <2>3 DEF DelayCounts
  <2> QED  BY <1>0, <1>a, <1>11, <2>4, NewCallIsTyped, GoKeepsTypes DEF DelayCounts
<1>12. CASE DelayReturns
  <2>1. NoDelay \in Delay  BY DEF NoDelay, Delay
  <2> QED  BY <1>12, <2>1 DEF DelayReturns, TypeOK, hardware, counters
<1>13. CASE UNCHANGED vars  BY <1>13 DEF vars, hardware, counters, TypeOK
<1> QED
  BY <1>1, <1>2, <1>3, <1>4, <1>5, <1>6, <1>7, <1>8, <1>9, <1>10, <1>11, <1>12, <1>13 DEF Next

-----------------------------------------------------------------------------
(* Who runs while interrupts are off.                                       *)

(* What a step of a call leaves alone.                                      *)
LEMMA InstructionSteps ==
  ASSUME TypeOK, NEW c \in Context, Instruction(c)
  PROVE  /\ Running(c) /\ UNCHANGED <<now, TOV0, counters, inHandler, delayed>>
         /\ ticked' = FALSE /\ \A d \in Context \ {c} : call'[d] = call[d]
<1>1. PICK new : Go(c, new)
  BY DEF Instruction, SaveAndCli, ReadLow, ReadHigh, ReadTCNT0, ReadTIFR0, Restore
<1>2. Running(c) /\ UNCHANGED <<now, TOV0, counters, inHandler, delayed>>
  BY DEF Instruction, SaveAndCli, ReadLow, ReadHigh, ReadTCNT0, ReadTIFR0, Restore, At
<1> QED  BY <1>1, <1>2 DEF Go, TypeOK

LEMMA NextKeepsMasked == TypeOK /\ Masked /\ [Next]_vars => Masked'
<1> SUFFICES ASSUME TypeOK, Masked, [Next]_vars PROVE Masked'  OBVIOUS
<1>a. Context = {"program", "handler"}  BY DEF Context
<1>b. \A c \in Context : call[c] \in Call  BY CallIsTyped
<1>c. DOMAIN call = Context  BY DEF TypeOK
<1>1. CASE Tick \/ TIMER0_OVF \/ DelayReturns
  BY <1>1 DEF Tick, TIMER0_OVF, DelayReturns, Masked, hardware
<1>2. ASSUME NEW c \in Context, Instruction(c) PROVE Masked'
  <2>0. \A d \in Context \ {c} : call'[d] = call[d]  BY <1>2, InstructionSteps
  <2>1. CASE SaveAndCli(c)
    BY <1>a, <1>b, <1>c, <2>0, <2>1 DEF SaveAndCli, Cli, Go, At, Running, Masked, Middle, Call
  <2>2. CASE ReadLow(c)
    BY <1>a, <1>b, <1>c, <2>0, <2>2 DEF ReadLow, Go, At, Running, Masked, Middle, Call
  <2>3. CASE ReadHigh(c)
    BY <1>a, <1>b, <1>c, <2>0, <2>3 DEF ReadHigh, Go, At, Running, Masked, Middle, Call
  <2>4. CASE ReadTCNT0(c)
    BY <1>a, <1>b, <1>c, <2>0, <2>4 DEF ReadTCNT0, Go, At, Running, Masked, Middle, Call
  <2>5. CASE ReadTIFR0(c)
    BY <1>a, <1>b, <1>c, <2>0, <2>5 DEF ReadTIFR0, Go, At, Running, Masked, Middle, Call
  <2>6. CASE Restore(c)
    BY <1>a, <1>b, <1>c, <2>0, <2>6
    DEF Restore, Go, At, Running, Masked, Middle, Call, NoCall
  <2> QED  BY <1>2, <2>1, <2>2, <2>3, <2>4, <2>5, <2>6 DEF Instruction
<1>3. CASE PinInterrupt
  BY <1>a, <1>c, <1>3 DEF PinInterrupt, Calling, Go, NoCall, Masked, Middle
<1>4. CASE HandlerReturns
  BY <1>a, <1>c, <1>4 DEF HandlerReturns, Go, NoCall, At, Running, Masked, Middle
<1>5. ASSUME NEW new, Go("program", new), new.step \in {"none", "cli"},
             Running("program"), UNCHANGED <<enabled, inHandler>>
      PROVE  Masked'
  BY <1>a, <1>c, <1>5 DEF Go, Running, Masked, Middle
<1>6. CASE ProgramCalls \/ ProgramGets \/ DelayPolls \/ DelayCalled \/ DelayStarts \/ DelayCounts
  <2>1. CASE ProgramCalls \/ DelayPolls \/ DelayCalled
    <3>1. PICK f : Calling("program", f) /\ Running("program") /\ UNCHANGED <<enabled, inHandler>>
      BY <2>1 DEF ProgramCalls, DelayPolls, DelayCalled, At
    <3> QED  BY <1>5, <3>1 DEF Calling, NoCall
  <2>2. CASE ProgramGets \/ DelayStarts \/ DelayCounts
    BY <1>5, <2>2 DEF ProgramGets, DelayStarts, DelayCounts, At, NoCall
  <2> QED  BY <1>6, <2>1, <2>2
<1>7. CASE UNCHANGED vars  BY <1>7 DEF vars, hardware, Masked
<1> QED  BY <1>1, <1>2, <1>3, <1>4, <1>5, <1>6, <1>7 DEF Next

-----------------------------------------------------------------------------
(* A step that is not the call's own leaves what it has read true.          *)

LEMMA TrueDuringGrows ==
  ASSUME TypeOK, NEW c \in Context, call'[c] = call[c], now' \in Nat, now' >= now,
         TrueDuring(c)
  PROVE  TrueDuring(c)'
<1>1. call[c].began \in Nat /\ now \in Nat  BY CallIsTyped, CountersAreNumbers
<1>2. CASE call[c].of = "micros"
  <2>1. PICK x \in call[c].began..now : Value(c) = (x * TickMicros) % Width
    BY <1>2 DEF TrueDuring
  <2>2. x \in call[c].began..now'  BY <1>1, <2>1
  <2> QED  BY <1>2, <2>1, <2>2 DEF TrueDuring, Value
<1>3. CASE call[c].of # "micros"
  <2>1. PICK n \in call[c].began \div Period - 1..now \div Period :
          n >= 0 /\ Value(c) = MillisOf(n)
    BY <1>3 DEF TrueDuring
  <2>2. now \div Period <= now' \div Period
    BY <1>1, ConstantsAreNumbers, QuotientGrows
  <2>3. /\ now \div Period \in Int /\ now' \div Period \in Int
        /\ call[c].began \div Period \in Int
    BY <1>1, ConstantsAreNumbers, QuotientAndRest
  <2>4. n \in call[c].began \div Period - 1..now' \div Period  BY <2>1, <2>2, <2>3
  <2>5. Value(c)' = MillisOf(n)  BY <2>1 DEF Value
  <2> QED  BY <1>3, <2>1, <2>4, <2>5 DEF TrueDuring
<1> QED  BY <1>2, <1>3

LEMMA OthersKeepCallInv ==
  ASSUME TypeOK, NEW c \in Context, CallInv(c), call'[c] = call[c],
         UNCHANGED <<now, TOV0, counters>>, call[c].step = "TIFR0" => ticked' = ticked
  PROVE  CallInv(c)'
<1>1. now \in Nat  BY CountersAreNumbers
<1>2. TrueDuring(c) => TrueDuring(c)'  BY <1>1, TrueDuringGrows
<1>3. Read(c)' = Read(c)  BY DEF Read, counters
<1>4. call[c].step = "TIFR0" => CountRead(c)'  BY DEF CallInv, CountRead
<1> QED  BY <1>2, <1>3, <1>4 DEF CallInv, counters

(* A call that begins, or is over. *)
LEMMA NewCallInv ==
  ASSUME TypeOK, NEW c \in Context, now' = now, call'[c].step \in {"none", "cli"},
         call'[c].began \in {0, now}
  PROVE  CallInv(c)'
BY CountersAreNumbers DEF CallInv

LEMMA OneInMiddle ==
  ASSUME Masked, NEW c \in Context, NEW d \in Context, c # d, Running(d)
  PROVE  call[c].step \notin Middle
BY DEF Masked, Running, Context, Middle

(* The timer counts on: the last count that was read is one old at most,    *)
(* and when it goes round meanwhile the overflow is pending.                *)
LEMMA TickKeepsCallInv ==
  ASSUME TypeOK, Pending, NEW c \in Context, CallInv(c), Tick
  PROVE  CallInv(c)'
<1>1. /\ now \in Nat /\ now' = now + 1 /\ UNCHANGED <<call, counters>>
      /\ ticked' = InCall /\ (InCall => ~ticked) /\ TOV0' = (TOV0 \/ TCNT0 = Period - 1)
  BY CountersAreNumbers DEF Tick
<1>2. call[c].began \in Nat  BY CallIsTyped
<1>3. TrueDuring(c) => TrueDuring(c)'  BY <1>1, TrueDuringGrows
<1>4. Read(c)' = Read(c)  BY <1>1 DEF Read, counters
<1>5. now' % Period = 0 => TOV0'
  <2> DEFINE q == now \div Period
             r == now % Period
  <2>1. q \in Nat /\ r \in Nat /\ r < Period /\ now = q * Period + r /\ Period \in Nat \ {0}
    BY <1>1, ConstantsAreNumbers, QuotientAndRest
  <2>2. ASSUME r < Period - 1 PROVE (now + 1) % Period = r + 1
    <3>1. now + 1 = q * Period + (r + 1) /\ r + 1 \in Nat /\ r + 1 < Period
      <4> HIDE DEF q, r
      <4> QED  BY <2>1, <2>2
    <3>2. now + 1 \in Int /\ q \in Int  BY <1>1, <2>1
    <3> HIDE DEF q, r
    <3> QED  BY <2>1, <3>1, <3>2, QuotientIsUnique
  <2> HIDE DEF q, r
  <2>3. now' % Period = 0 => r = Period - 1  BY <1>1, <2>1, <2>2
  <2> QED  BY <1>1, <2>3 DEF r, TCNT0
<1>6. call[c].step = "TIFR0" => CountRead(c)'
  <2> SUFFICES ASSUME call[c].step = "TIFR0" PROVE CountRead(c)'  OBVIOUS
  <2>1. InCall  BY DEF InCall
  <2>2. ~ticked /\ ticked'  BY <1>1, <2>1
  <2>3. now >= call[c].began /\ call[c].t = now % Period  BY <2>2 DEF CallInv, CountRead
  <2>4. now' - 1 = now /\ now' - 1 >= call'[c].began /\ call'[c].t = (now' - 1) % Period
    BY <1>1, <1>2, <2>3
  <2> QED  BY <1>5, <2>2, <2>4 DEF CountRead
<1>7. ASSUME call[c].step = "restore", call[c].of = "micros"
      PROVE  \E x \in call'[c].began..now' :
               call'[c].t = x % Period /\ call'[c].m = (x \div Period) % Width
  <2>1. PICK x \in call[c].began..now :
          call[c].t = x % Period /\ call[c].m = (x \div Period) % Width
    BY <1>7 DEF CallInv
  <2>2. x \in call[c].began..now'  BY <1>1, <1>2, <2>1
  <2> QED  BY <1>1, <2>1, <2>2
<1> QED  BY <1>1, <1>2, <1>3, <1>4, <1>6, <1>7 DEF CallInv, counters

LEMMA OverflowKeepsCallInv ==
  ASSUME TypeOK, Masked, NEW c \in Context, CallInv(c), TIMER0_OVF
  PROVE  CallInv(c)'
<1>1. call' = call /\ now' = now /\ enabled  BY DEF TIMER0_OVF
<1>2. call[c].step \notin Middle  BY <1>1 DEF Masked
<1>3. TrueDuring(c) => TrueDuring(c)'  BY <1>1, CountersAreNumbers, TrueDuringGrows
<1> QED  BY <1>1, <1>2, <1>3 DEF CallInv, Middle

-----------------------------------------------------------------------------
(* The instructions of micros() and millis().                               *)

(* The count and t make the time at which t was read: an overflow that is   *)
(* pending and not in the count came before t, unless t is at its end.      *)
LEMMA OverflowIsCounted ==
  ASSUME ClockInv, NEW c \in Context, CountRead(c), call[c].m = timer0_overflow_count
  PROVE  (IF PendingOverflow(call[c].t) THEN (call[c].m + 1) % Width ELSE call[c].m)
           = ((IF ticked THEN now - 1 ELSE now) \div Period) % Width
<1> DEFINE x == IF ticked THEN now - 1 ELSE now
           q == now \div Period
           r == now % Period
<1>1. /\ now \in Nat /\ Period \in Nat \ {0} /\ Width \in Nat \ {0}
      /\ TOV0 \in BOOLEAN /\ (TOV0 => q >= 1 /\ r < Period - 1)
  BY ConstantsAreNumbers DEF ClockInv, Pending
<1>2. q \in Nat /\ r \in Nat /\ r < Period /\ now = q * Period + r
  BY <1>1, QuotientAndRest
<1>3. call[c].m = Handled % Width  BY InvNeverDrifts DEF MillisNeverDrifts
<1>4. call[c].t = x % Period  BY DEF CountRead
<1>5. /\ TOV0 => Handled = q - 1
      /\ ~TOV0 => Handled = q
  <2>1. TOV0 => Handled = q - 1  BY DEF Handled
  <2>2. ~TOV0 => Handled = q - 0  BY DEF Handled
  <2> HIDE DEF q
  <2> QED  BY <1>2, <2>1, <2>2
<1>6. TOV0 => (call[c].m + 1) % Width = q % Width
  <2> HIDE DEF q
  <2>1. ASSUME TOV0 PROVE (((q - 1) % Width) + 1) % Width = (q - 1 + 1) % Width
    BY <1>1, <1>2, <2>1, RestOfSum
  <2> QED  BY <1>2, <1>3, <1>5, <2>1
<1>7. CASE ticked /\ r = 0
  <2>1. TOV0  BY <1>7 DEF CountRead
  <2>2. x = (q - 1) * Period + (Period - 1)
    <3> HIDE DEF q, r
    <3>1. (q - 1) * Period = q * Period - Period  BY <1>1, <1>2
    <3> QED  BY <1>1, <1>2, <1>7, <3>1
  <2>3. x \div Period = q - 1 /\ x % Period = Period - 1
    <3>1. x \in Int /\ q - 1 \in Int /\ Period - 1 \in Nat /\ Period - 1 < Period
      BY <1>1, <1>2
    <3> HIDE DEF x, q
    <3> QED  BY <1>1, <2>2, <3>1, QuotientIsUnique
  <2>4. ~PendingOverflow(call[c].t)  BY <1>1, <1>4, <2>3 DEF PendingOverflow
  <2> HIDE DEF x, q, r
  <2> QED  BY <1>3, <1>5, <2>1, <2>3, <2>4 DEF x
<1>8. CASE ~(ticked /\ r = 0)
  <2> DEFINE s == IF ticked THEN r - 1 ELSE r
  <2>1. s \in Nat /\ s < Period /\ s <= r /\ x = q * Period + s
    <3> HIDE DEF q, r
    <3> QED  BY <1>1, <1>2, <1>8
  <2>2. x \div Period = q /\ x % Period = s
    <3>1. x \in Int /\ q \in Int  BY <1>1, <1>2
    <3> HIDE DEF x, q, r, s
    <3> QED  BY <1>1, <2>1, <3>1, QuotientIsUnique
  <2> HIDE DEF x, q, r, s
  <2>3. PendingOverflow(call[c].t) <=> TOV0
    BY <1>1, <1>2, <1>4, <2>1, <2>2 DEF PendingOverflow
  <2>4. x \div Period = q  BY <2>2
  <2> QED  BY <1>3, <1>5, <1>6, <2>3, <2>4 DEF x
<1> QED  BY <1>7, <1>8

LEMMA RestOfMultiple ==
  ASSUME NEW a \in Nat, NEW k \in Nat, NEW b \in Nat \ {0}
  PROVE  (a + k * b) % b = a % b
<1> DEFINE q == a \div b
           r == a % b
<1>1. q \in Nat /\ r \in Nat /\ r < b /\ a = q * b + r  BY QuotientAndRest
<1>2. a + k * b = (q + k) * b + r
  <2> HIDE DEF q, r
  <2>1. (q + k) * b = q * b + k * b  BY <1>1
  <2> QED  BY <1>1, <2>1
<1>3. a + k * b \in Int /\ q + k \in Int  BY <1>1
<1> HIDE DEF q, r
<1>4. (a + k * b) % b = r  BY <1>1, <1>2, <1>3, QuotientIsUnique
<1> QED  BY <1>4 DEF r

(* That the count goes round does not show in what micros() returns.        *)
LEMMA MicrosOf ==
  ASSUME NEW x \in Nat
  PROVE  ((((x \div Period) % Width) * Period + (x % Period)) * TickMicros) % Width
           = (x * TickMicros) % Width
<1> DEFINE q == x \div Period
           t == x % Period
           k == q \div Width
           m == q % Width
           P == Period
           T == TickMicros
           W == Width
<1>1. P \in Nat \ {0} /\ T \in Nat \ {0} /\ W \in Nat \ {0}  BY ConstantsAreNumbers
<1>2. q \in Nat /\ t \in Nat /\ x = q * P + t  BY <1>1, QuotientAndRest
<1>3. k \in Nat /\ m \in Nat /\ q = k * W + m  BY <1>1, <1>2, QuotientAndRest
<1> HIDE DEF q, t, k, m, P, T, W
<1>4. x * T = (m * P + t) * T + (k * P * T) * W
  <2>1. q * P = (k * P) * W + m * P  BY <1>1, <1>3
  <2>2. x = (k * P) * W + (m * P + t)  BY <1>1, <1>2, <1>3, <2>1
  <2> DEFINE y == m * P + t
             z == k * P
  <2>3. y \in Nat /\ z \in Nat  BY <1>1, <1>2, <1>3
  <2> HIDE DEF y, z
  <2>4. (z * W + y) * T = y * T + (z * T) * W  BY <1>1, <2>3
  <2> QED  BY <2>2, <2>4 DEF y, z
<1>5. (m * P + t) * T \in Nat /\ k * P * T \in Nat  BY <1>1, <1>2, <1>3
<1>6. ((m * P + t) * T + (k * P * T) * W) % W = ((m * P + t) * T) % W
  <2> DEFINE y == (m * P + t) * T
             z == k * P * T
  <2> HIDE DEF y, z
  <2>1. (y + z * W) % W = y % W  BY <1>1, <1>5, RestOfMultiple DEF y, z
  <2> QED  BY <2>1 DEF y, z
<1> QED  BY <1>4, <1>6 DEF q, t, m, P, T, W

LEMMA InstructionKeepsOwn ==
  ASSUME TypeOK, ClockInv, Masked, NEW c \in Context, CallInv(c), Instruction(c)
  PROVE  CallInv(c)'
<1>1. /\ now \in Nat /\ UNCHANGED <<now, TOV0, counters>> /\ ticked' = FALSE
      /\ Read(c) \in Nat /\ Read(c) < Width
  BY CountersAreNumbers, InstructionSteps
<1>2. /\ call[c] \in Call /\ call[c].began \in Nat /\ call[c].began <= now
      /\ call[c].low \in Nat /\ call[c].m \in Nat /\ call[c].t \in Nat
      /\ call[c].of \in {"micros", "millis"}
  BY CallIsTyped DEF CallInv, Function
<1>3. ASSUME NEW new \in Call, Go(c, new) PROVE call'[c] = new
  BY <1>3 DEF Go, TypeOK
<1>4. CASE SaveAndCli(c)
  <2>1. call'[c].step = "low" /\ call'[c].began = call[c].began
    BY <1>2, <1>4 DEF SaveAndCli, Go, TypeOK, Call
  <2> QED  BY <1>1, <1>2, <2>1 DEF CallInv
<1>5. CASE ReadLow(c)
  <2>1. /\ call'[c].step = "high" /\ call'[c].began = call[c].began
        /\ call'[c].of = call[c].of /\ call'[c].low = Read(c) % Half
    BY <1>2, <1>5 DEF ReadLow, Go, TypeOK, Call
  <2>2. Read(c)' = Read(c)  BY <1>1, <2>1 DEF Read, counters
  <2> QED  BY <1>1, <1>2, <2>1, <2>2 DEF CallInv
<1>6. CASE ReadHigh(c)
  <2> DEFINE m == (Read(c) \div Half) * Half + call[c].low
  <2>1. /\ call'[c].step = (IF call[c].of = "micros" THEN "TCNT0" ELSE "restore")
        /\ call'[c].began = call[c].began /\ call'[c].of = call[c].of /\ call'[c].m = m
    BY <1>2, <1>6 DEF ReadHigh, Go, TypeOK, Call
  <2>2. m = Read(c)
    <3>1. call[c].low = Read(c) % Half  BY <1>6 DEF ReadHigh, At, CallInv
    <3>2. Read(c) = (Read(c) \div Half) * Half + (Read(c) % Half)
      BY <1>1, ConstantsAreNumbers, QuotientAndRest
    <3> QED  BY <3>1, <3>2
  <2> HIDE DEF m
  <2>3. CASE call[c].of = "micros"
    BY <1>1, <1>2, <2>1, <2>2, <2>3 DEF CallInv, Read, counters
  <2>4. CASE call[c].of = "millis"
    BY <1>1, <1>2, <2>1, <2>2, <2>4 DEF CallInv, Read, counters
  <2> QED  BY <1>2, <2>3, <2>4
<1>7. CASE ReadTCNT0(c)
  <2>1. /\ call'[c].step = "TIFR0" /\ call'[c].began = call[c].began /\ call'[c].m = call[c].m
        /\ call'[c].of = call[c].of /\ call'[c].t = now % Period
    BY <1>2, <1>7 DEF ReadTCNT0, TCNT0, Go, TypeOK, Call
  <2>2. call[c].of = "micros" /\ call[c].m = timer0_overflow_count
    BY <1>7 DEF ReadTCNT0, At, CallInv
  <2>3. CountRead(c)'  BY <1>1, <1>2, <2>1 DEF CountRead
  <2> QED  BY <1>1, <1>2, <2>1, <2>2, <2>3 DEF CallInv, counters
<1>8. CASE ReadTIFR0(c)
  <2> DEFINE m == IF PendingOverflow(call[c].t) THEN (call[c].m + 1) % Width ELSE call[c].m
             x == IF ticked THEN now - 1 ELSE now
  <2>1. /\ call'[c].step = "restore" /\ call'[c].began = call[c].began /\ call'[c].m = m
        /\ call'[c].of = call[c].of /\ call'[c].t = call[c].t
    BY <1>2, <1>8 DEF ReadTIFR0, Go, TypeOK, Call
  <2>2. call[c].of = "micros" /\ call[c].m = timer0_overflow_count /\ CountRead(c)
    BY <1>8 DEF ReadTIFR0, At, CallInv
  <2>3. x \in call[c].began..now /\ call[c].t = x % Period
    BY <1>1, <1>2, <2>2 DEF CountRead
  <2>4. m = (x \div Period) % Width  BY <2>2, OverflowIsCounted
  <2> HIDE DEF m, x
  <2> QED  BY <1>1, <1>2, <2>1, <2>2, <2>3, <2>4 DEF CallInv
<1>9. CASE Restore(c)
  <2>1. /\ call'[c].step = "value" /\ call'[c].began = call[c].began
        /\ call'[c].of = call[c].of /\ call'[c].m = Returned(c)
    BY <1>2, <1>9 DEF Restore, NoCall, Go, TypeOK, Call
  <2>2. ASSUME call[c].of = "micros" PROVE TrueDuring(c)'
    <3>1. PICK x \in call[c].began..now :
            call[c].t = x % Period /\ call[c].m = (x \div Period) % Width
      BY <1>9, <2>2 DEF Restore, At, CallInv
    <3>2. x \in Nat  BY <1>1, <1>2, <3>1
    <3>3. Returned(c) = (x * TickMicros) % Width
      BY <2>2, <3>1, <3>2, MicrosOf DEF Returned
    <3> QED  BY <1>1, <2>1, <2>2, <3>1, <3>3 DEF TrueDuring, Value
  <2>3. ASSUME call[c].of = "millis" PROVE TrueDuring(c)'
    <3>1. Returned(c) = timer0_millis  BY <1>9, <2>3 DEF Restore, At, CallInv, Returned
    <3>2. timer0_millis = MillisOf(Handled)  BY InvNeverDrifts DEF MillisNeverDrifts
    <3>3. Handled \in call[c].began \div Period - 1..now \div Period /\ Handled >= 0
      <4>1. call[c].began \div Period <= now \div Period
        BY <1>1, <1>2, ConstantsAreNumbers, QuotientGrows
      <4>2. call[c].began \div Period \in Int /\ now \div Period \in Int
        BY <1>1, <1>2, ConstantsAreNumbers, QuotientAndRest
      <4>3. Handled \in Nat  BY HandledIsNat DEF ClockInv
      <4>4. Handled = now \div Period \/ Handled = now \div Period - 1
        BY <4>2 DEF Handled
      <4> QED  BY <4>1, <4>2, <4>3, <4>4
    <3> QED  BY <1>1, <2>1, <2>3, <3>1, <3>2, <3>3 DEF TrueDuring, Value
  <2>4. TrueDuring(c)'  BY <1>2, <2>2, <2>3
  <2> QED  BY <1>1, <1>2, <2>1, <2>4 DEF CallInv
<1> QED  BY <1>4, <1>5, <1>6, <1>7, <1>8, <1>9 DEF Instruction

(* Every step keeps what the calls have read true.                          *)
LEMMA NextKeepsCallInv ==
  ASSUME TypeOK, ClockInv, Masked, NEW c \in Context, CallInv(c), [Next]_vars
  PROVE  CallInv(c)'
<1>a. "program" \in Context /\ "handler" \in Context  BY DEF Context
<1>1. CASE Tick  BY <1>1, TickKeepsCallInv DEF ClockInv
<1>2. CASE TIMER0_OVF  BY <1>2, OverflowKeepsCallInv
<1>3. ASSUME NEW d \in Context, Instruction(d) PROVE CallInv(c)'
  <2>1. CASE d = c  BY <1>3, <2>1, InstructionKeepsOwn
  <2>2. CASE d # c
    <3>1. call'[c] = call[c] /\ UNCHANGED <<now, TOV0, counters>> /\ Running(d)
      BY <1>3, <2>2, InstructionSteps
    <3>2. call[c].step # "TIFR0"  BY <2>2, <3>1, OneInMiddle DEF Middle
    <3> QED  BY <3>1, <3>2, OthersKeepCallInv
  <2> QED  BY <2>1, <2>2
<1>4. ASSUME NEW d \in Context, NEW new, Go(d, new), UNCHANGED <<now, TOV0, counters>>,
             new.step \in {"none", "cli"}, new.began \in {0, now},
             call[c].step # "TIFR0"
      PROVE  CallInv(c)'
  <2>1. CASE d = c
    <3>1. call'[c] = new  BY <1>4, <2>1 DEF Go, TypeOK
    <3> QED  BY <1>4, <3>1, NewCallInv
  <2>2. CASE d # c
    <3>1. call'[c] = call[c]  BY <1>4, <2>2 DEF Go, TypeOK
    <3> QED  BY <1>4, <3>1, OthersKeepCallInv
  <2> QED  BY <2>1, <2>2
<1>5. CASE PinInterrupt
  <2>1. call[c].step # "TIFR0"  BY <1>5 DEF PinInterrupt, Masked, Middle
  <2> QED  BY <1>4, <1>5, <1>a, <2>1 DEF PinInterrupt, Calling, NoCall
<1>6. CASE HandlerReturns
  <2>1. call[c].step # "TIFR0"
    BY <1>6 DEF HandlerReturns, At, Running, Masked, Middle, Context
  <2> QED  BY <1>4, <1>6, <1>a, <2>1 DEF HandlerReturns, NoCall
<1>7. CASE ProgramCalls \/ ProgramGets \/ DelayCalled \/ DelayStarts \/ DelayPolls \/ DelayCounts
  <2>1. At("program", "none") \/ At("program", "value")
    BY <1>7 DEF ProgramCalls, ProgramGets, DelayCalled, DelayStarts, DelayPolls, DelayCounts
  <2>2. call[c].step # "TIFR0"
    BY <2>1 DEF At, Running, Masked, Middle, Context
  <2>3. PICK new : /\ Go("program", new) /\ UNCHANGED <<now, TOV0, counters>>
                   /\ new.step \in {"none", "cli"} /\ new.began \in {0, now}
    <3>1. NoCall.step = "none" /\ NoCall.began = 0  BY DEF NoCall
    <3>2. ASSUME NEW f PROVE LET new == [NoCall EXCEPT !.step = "cli", !.of = f, !.began = now]
                             IN  new.step = "cli" /\ new.began = now
      BY DEF NoCall
    <3>3. CASE ProgramGets \/ DelayStarts \/ DelayCounts
      BY <3>1, <3>3 DEF ProgramGets, DelayStarts, DelayCounts
    <3>4. CASE ProgramCalls \/ DelayCalled \/ DelayPolls
      <4>1. PICK f : Calling("program", f) /\ UNCHANGED <<now, TOV0, counters>>
        BY <3>4 DEF ProgramCalls, DelayCalled, DelayPolls
      <4> QED  BY <3>2, <4>1 DEF Calling
    <3> QED  BY <1>7, <3>3, <3>4
  <2> QED  BY <1>4, <1>a, <2>2, <2>3
<1>8. CASE DelayReturns \/ UNCHANGED vars
  BY <1>8, OthersKeepCallInv DEF DelayReturns, vars, hardware
<1> QED  BY <1>1, <1>2, <1>3, <1>5, <1>6, <1>7, <1>8 DEF Next

-----------------------------------------------------------------------------
(* delay().                                                                 *)

LEMMA RestOfDifference ==
  ASSUME NEW a \in Nat, NEW c \in Nat, NEW b \in Nat \ {0}
  PROVE  ((a % b) - (c % b)) % b = (a - c) % b
<1> DEFINE q == a \div b
           r == a % b
           p == c \div b
           u == c % b
           w == IF r >= u THEN r - u ELSE r - u + b
           k == IF r >= u THEN 0 ELSE -1
<1>1. q \in Nat /\ r \in Nat /\ r < b /\ a = q * b + r  BY QuotientAndRest
<1>2. p \in Nat /\ u \in Nat /\ u < b /\ c = p * b + u  BY QuotientAndRest
<1> HIDE DEF q, r, p, u
<1>3. w \in Nat /\ w < b /\ k \in Int /\ r - u = k * b + w  BY <1>1, <1>2
<1>4. a - c = (q - p + k) * b + w
  <2> HIDE DEF w, k
  <2>1. (q - p + k) * b = q * b - p * b + k * b  BY <1>1, <1>2, <1>3
  <2> QED  BY <1>1, <1>2, <1>3, <2>1
<1> HIDE DEF w, k
<1>5. (r - u) % b = w
  <2>1. r - u \in Int  BY <1>1, <1>2
  <2> QED  BY <1>3, <2>1, QuotientIsUnique
<1>6. (a - c) % b = w
  <2>1. a - c \in Int /\ q - p + k \in Int  BY <1>1, <1>2, <1>3
  <2> QED  BY <1>3, <1>4, <2>1, QuotientIsUnique
<1> QED  BY <1>5, <1>6 DEF r, u

(* A step that leaves delay() alone and its call of micros() in progress.   *)
LEMMA OthersKeepDelayInv ==
  ASSUME TypeOK, DelayInv, delayed' = delayed, now' \in Nat, now' >= now,
         (call'["program"].step = "none") <=> (call["program"].step = "none"),
         call'["program"].of = call["program"].of,
         call'["program"].began = call["program"].began
  PROVE  DelayInv'
<1>1. now * TickMicros <= now' * TickMicros
  <2>1. now \in Nat /\ TickMicros \in Nat  BY CountersAreNumbers, ConstantsAreNumbers
  <2>2. \A a, b, c \in Nat : a <= b => a * c <= b * c  OBVIOUS
  <2> QED  BY <2>1, <2>2
<1>2. now * TickMicros \in Nat /\ now' * TickMicros \in Nat
  <2>1. now \in Nat /\ TickMicros \in Nat  BY CountersAreNumbers, ConstantsAreNumbers
  <2>2. \A a, c \in Nat : a * c \in Nat  OBVIOUS
  <2> QED  BY <2>1, <2>2
<1>3. ASSUME NEW s \in Nat, StartedAt(s) PROVE StartedAt(s)'
  BY <1>1, <1>2, <1>3 DEF StartedAt
<1> QED  BY <1>3 DEF DelayInv

(* The first look at the time is the start of the first millisecond.        *)
LEMMA StartsKeepsDelayInv ==
  ASSUME TypeOK, DelayInv, CallInv("program"), DelayStarts
  PROVE  DelayInv'
<1>1. /\ call["program"].step = "value" /\ call["program"].of = "micros"
      /\ delayed.ms = delayed.asked /\ delayed.began <= call["program"].began
      /\ delayed' = [delayed EXCEPT !.does = "waits", !.start = Value("program")]
      /\ now' = now
  BY DEF DelayStarts, At, DelayInv
<1>2. call'["program"].step = "none"  BY DEF DelayStarts, Go, NoCall, TypeOK, Context
<1>3. delayed \in Delay /\ now \in Nat /\ call["program"].began \in Nat
  BY CountersAreNumbers, CallIsTyped DEF TypeOK, Context
<1>4. PICK x \in call["program"].began..now : Value("program") = (x * TickMicros) % Width
  BY <1>1 DEF CallInv, TrueDuring
<1> DEFINE s == x * TickMicros
<1>5. s \in Nat /\ s <= now * TickMicros /\ s >= delayed.began * TickMicros
  <2>1. x \in Nat /\ x <= now /\ delayed.began <= x /\ delayed.began \in Nat
    BY <1>1, <1>3, <1>4 DEF Delay
  <2> QED  BY <1>3, <2>1, ConstantsAreNumbers
<1>6. /\ delayed'.does = "waits" /\ delayed'.start = s % Width
      /\ delayed'.began = delayed.began /\ (delayed'.asked - delayed'.ms) * Ms = 0
  BY <1>1, <1>3, <1>4, ConstantsAreNumbers DEF Delay
<1> HIDE DEF s
<1>7. StartedAt(s)'
  <2>1. delayed'.began * TickMicros \in Int
    BY <1>3, <1>6, ConstantsAreNumbers DEF Delay
  <2> QED  BY <1>1, <1>2, <1>5, <1>6, <2>1 DEF StartedAt
<1> QED  BY <1>2, <1>5, <1>6, <1>7 DEF DelayInv

(* A millisecond is counted when it is over, wherever micros() went round.  *)
LEMMA CountsKeepsDelayInv ==
  ASSUME TypeOK, DelayInv, CallInv("program"), DelayCounts
  PROVE  DelayInv'
<1>1. /\ call["program"].step = "value" /\ call["program"].of = "micros"
      /\ delayed.does = "waits" /\ delayed.ms > 0 /\ now' = now
  BY DEF DelayCounts, At, DelayInv
<1>2. call'["program"].step = "none"  BY DEF DelayCounts, Go, NoCall, TypeOK, Context
<1>3. delayed \in Delay /\ now \in Nat /\ call["program"].began \in Nat
  BY CountersAreNumbers, CallIsTyped DEF TypeOK, Context
<1>4. PICK x \in call["program"].began..now : Value("program") = (x * TickMicros) % Width
  BY <1>1 DEF CallInv, TrueDuring
<1>5. PICK s \in Nat : StartedAt(s)  BY <1>1 DEF DelayInv
<1> DEFINE v == x * TickMicros
           since == (Value("program") - delayed.start) % Width
<1>6. v \in Nat /\ s <= v /\ v <= now * TickMicros
  <2>1. x \in Nat /\ call["program"].began <= x /\ x <= now  BY <1>3, <1>4
  <2>2. s <= call["program"].began * TickMicros  BY <1>1, <1>5 DEF StartedAt
  <2>3. call["program"].began * TickMicros <= v  BY <1>3, <2>1, ConstantsAreNumbers
  <2>4. v <= now * TickMicros /\ v \in Nat  BY <1>3, <2>1, ConstantsAreNumbers
  <2>5. call["program"].began * TickMicros \in Nat  BY <1>3, ConstantsAreNumbers
  <2> HIDE DEF v
  <2> QED  BY <2>2, <2>3, <2>4, <2>5
<1>7. since = (v - s) % Width
  <2> HIDE DEF v
  <2>1. ((v % Width) - (s % Width)) % Width = (v - s) % Width
    BY <1>6, RestOfDifference, ConstantsAreNumbers
  <2>2. Value("program") = v % Width /\ delayed.start = s % Width
    BY <1>4, <1>5 DEF v, StartedAt
  <2> QED  BY <2>1, <2>2
<1>8. CASE since >= Ms
  <2> DEFINE start == Started(delayed.start)
             ms == delayed.ms - 1
             t == s + Ms
  <2>1. v - s >= Ms
    <3> HIDE DEF v
    <3>1. v - s \in Nat /\ Width \in Nat \ {0}  BY <1>6, ConstantsAreNumbers
    <3>2. /\ (v - s) \div Width \in Nat /\ (v - s) % Width \in Nat
          /\ v - s = ((v - s) \div Width) * Width + ((v - s) % Width)
      BY <3>1, QuotientAndRest
    <3>3. ((v - s) \div Width) * Width \in Nat
      <4>1. \A a, b \in Nat : a * b \in Nat  OBVIOUS
      <4> QED  BY <3>1, <3>2, <4>1
    <3> HIDE DEF since
    <3>4. (v - s) % Width >= Ms  BY <1>7, <1>8
    <3> QED  BY <3>1, <3>2, <3>3, <3>4, ConstantsAreNumbers
  <2>2. start = t % Width
    <3>1. ((s % Width) + Ms) % Width = (s + Ms) % Width
      BY RestOfSum, ConstantsAreNumbers
    <3> QED  BY <1>5, <3>1 DEF Started, StartedAt
  <2>3. delayed' = [delayed EXCEPT !.ms = ms, !.start = start]
    BY <1>3, <1>8 DEF DelayCounts, Delay
  <2>4. ms \in Nat /\ start \in Nat
    <3>1. t \in Nat /\ Width \in Nat \ {0}  BY ConstantsAreNumbers
    <3> HIDE DEF start, t
    <3>2. start \in Nat  BY <2>2, <3>1, QuotientAndRest
    <3> QED  BY <1>1, <1>3, <3>2 DEF Delay
  <2> HIDE DEF start, v, since
  <2>5. /\ delayed'.ms = delayed.ms - 1 /\ delayed'.start = t % Width
        /\ delayed'.does = "waits" /\ delayed'.began = delayed.began
        /\ delayed'.asked = delayed.asked
    BY <1>1, <1>3, <2>2, <2>3, <2>4 DEF Delay
  <2>6. t \in Nat /\ t <= now * TickMicros
    BY <1>3, <1>6, <2>1, ConstantsAreNumbers
  <2>7. t >= delayed'.began * TickMicros + (delayed'.asked - delayed'.ms) * Ms
    <3>1. s >= delayed.began * TickMicros + (delayed.asked - delayed.ms) * Ms
      BY <1>5 DEF StartedAt
    <3>2. /\ delayed.began \in Nat /\ delayed.asked \in Nat /\ delayed.ms \in Nat
          /\ Ms \in Nat /\ TickMicros \in Nat
      BY <1>3, ConstantsAreNumbers DEF Delay
    <3>3. (delayed.asked - (delayed.ms - 1)) * Ms = (delayed.asked - delayed.ms) * Ms + Ms
      <4>1. \A a, b, c \in Nat : (a - (b - 1)) * c = (a - b) * c + c  OBVIOUS
      <4> QED  BY <3>2, <4>1
    <3>4. delayed.began * TickMicros \in Int /\ (delayed.asked - delayed.ms) * Ms \in Int
      BY <3>2
    <3> QED  BY <2>5, <3>1, <3>2, <3>3, <3>4
  <2>8. StartedAt(t)'  BY <1>1, <1>2, <2>5, <2>6, <2>7 DEF StartedAt
  <2> QED  BY <1>2, <2>5, <2>6, <2>8 DEF DelayInv
<1>9. CASE ~(since >= Ms)
  <2>1. delayed' = delayed  BY <1>9 DEF DelayCounts
  <2>2. StartedAt(s)'  BY <1>1, <1>2, <1>5, <2>1 DEF StartedAt
  <2> QED  BY <1>1, <1>2, <2>1, <2>2 DEF DelayInv
<1> QED  BY <1>8, <1>9

LEMMA NextKeepsDelayInv ==
  ASSUME TypeOK, Masked, DelayInv, CallInv("program"), [Next]_vars
  PROVE  DelayInv'
<1>a. "program" \in Context /\ "handler" \in Context  BY DEF Context
<1>b. now \in Nat /\ call["program"] \in Call /\ call["program"].began \in Nat
  BY <1>a, CountersAreNumbers, CallIsTyped
<1>1. CASE Tick  BY <1>1, <1>b, OthersKeepDelayInv DEF Tick
<1>2. CASE TIMER0_OVF  BY <1>2, <1>b, OthersKeepDelayInv DEF TIMER0_OVF
<1>3. ASSUME NEW d \in Context, Instruction(d) PROVE DelayInv'
  <2>1. UNCHANGED <<now, delayed>>  BY <1>3, InstructionSteps
  <2>2. /\ (call'["program"].step = "none") <=> (call["program"].step = "none")
        /\ call'["program"].of = call["program"].of
        /\ call'["program"].began = call["program"].began
    <3>1. CASE d # "program"
      <4>1. call'["program"] = call["program"]  BY <1>3, <1>a, <3>1, InstructionSteps
      <4> QED  BY <4>1
    <3>2. CASE d = "program"
      <4>1. CASE SaveAndCli(d)
        BY <1>a, <1>b, <3>2, <4>1 DEF SaveAndCli, Go, At, Call, TypeOK
      <4>2. CASE ReadLow(d)
        BY <1>a, <1>b, <3>2, <4>2 DEF ReadLow, Go, At, Call, TypeOK
      <4>3. CASE ReadHigh(d)
        BY <1>a, <1>b, <3>2, <4>3 DEF ReadHigh, Go, At, Call, TypeOK
      <4>4. CASE ReadTCNT0(d)
        BY <1>a, <1>b, <3>2, <4>4 DEF ReadTCNT0, Go, At, Call, TypeOK
      <4>5. CASE ReadTIFR0(d)
        BY <1>a, <1>b, <3>2, <4>5 DEF ReadTIFR0, Go, At, Call, TypeOK
      <4>6. CASE Restore(d)
        BY <1>a, <1>b, <3>2, <4>6 DEF Restore, Go, At, NoCall, TypeOK
      <4> QED  BY <1>3, <4>1, <4>2, <4>3, <4>4, <4>5, <4>6 DEF Instruction
    <3> QED  BY <3>1, <3>2
  <2> QED  BY <1>b, <2>1, <2>2, OthersKeepDelayInv
<1>4. CASE PinInterrupt \/ HandlerReturns
  <2>1. call'["program"] = call["program"] /\ UNCHANGED <<now, delayed>>
    BY <1>4, <1>a DEF PinInterrupt, HandlerReturns, Calling, Go, TypeOK
  <2> QED  BY <1>b, <2>1, OthersKeepDelayInv
<1>5. CASE ProgramCalls \/ ProgramGets
  BY <1>5 DEF ProgramCalls, ProgramGets, DelayInv
<1>6. CASE DelayCalled
  <2>1. PICK ms \in 0..MaxDelay :
          /\ delayed' = [does |-> "starts", ms |-> ms, start |-> 0, asked |-> ms, began |-> now]
          /\ Calling("program", "micros")
    BY <1>6 DEF DelayCalled
  <2>2. /\ call'["program"].step = "cli" /\ call'["program"].of = "micros"
        /\ call'["program"].began = now
    BY <1>a, <2>1 DEF Calling, Go, NoCall, TypeOK
  <2> QED  BY <1>b, <2>1, <2>2 DEF DelayInv
<1>7. CASE DelayStarts  BY <1>7, StartsKeepsDelayInv
<1>8. CASE DelayPolls
  <2>1. /\ call'["program"].step = "cli" /\ call'["program"].of = "micros"
        /\ call'["program"].began = now /\ UNCHANGED <<now, delayed>>
        /\ delayed.does = "waits" /\ delayed.ms > 0
    BY <1>a, <1>8 DEF DelayPolls, Calling, Go, NoCall, TypeOK
  <2>2. PICK s \in Nat : StartedAt(s)  BY <2>1 DEF DelayInv
  <2>3. StartedAt(s)'  BY <2>1, <2>2 DEF StartedAt
  <2> QED  BY <2>1, <2>3 DEF DelayInv
<1>9. CASE DelayCounts  BY <1>9, CountsKeepsDelayInv
<1>10. CASE DelayReturns  BY <1>10 DEF DelayReturns, NoDelay, DelayInv
<1>11. CASE UNCHANGED vars  BY <1>11, <1>b, OthersKeepDelayInv DEF vars, hardware
<1> QED
  BY <1>1, <1>2, <1>3, <1>4, <1>5, <1>6, <1>7, <1>8, <1>9, <1>10, <1>11 DEF Next

-----------------------------------------------------------------------------
(* What the program and a handler get.                                      *)

LEMMA InitCallsInv == Init => CallsInv
<1> SUFFICES ASSUME Init PROVE CallsInv  OBVIOUS
<1>1. ClockInv  BY InitClockInv
<1>2. TypeOK
  <2>1. NoCall \in Call /\ NoDelay \in Delay
    BY DEF NoCall, Call, Step, Function, NoDelay, Delay
  <2>2. 0 < Width /\ 0 < FRACT_MAX /\ Width \in Nat /\ FRACT_MAX \in Nat
    BY ConstantsAreNumbers, OverflowIsWorth
  <2>3. 0 \in 0..Width - 1 /\ 0 \in 0..FRACT_MAX - 1  BY <2>2
  <2>4. call \in [Context -> Call]  BY <2>1 DEF Init
  <2> QED  BY <2>1, <2>3, <2>4 DEF Init, TypeOK
<1>3. \A c \in Context : call[c].step = "none" /\ call[c].began = 0
  BY DEF Init, NoCall
<1>4. Masked  BY <1>3 DEF Init, Masked, Middle, Context
<1>5. DelayInv  BY DEF Init, NoDelay, DelayInv
<1>6. \A c \in Context : CallInv(c)  BY <1>3 DEF Init, CallInv
<1> QED  BY <1>1, <1>2, <1>4, <1>5, <1>6 DEF CallsInv

LEMMA NextKeepsCallsInv == CallsInv /\ [Next]_vars => CallsInv'
<1> SUFFICES ASSUME CallsInv, [Next]_vars PROVE CallsInv'  OBVIOUS
<1> USE DEF CallsInv
<1>1. ClockInv'  BY NextKeepsClockInv
<1>2. TypeOK'  BY NextKeepsTypes
<1>3. Masked'  BY NextKeepsMasked
<1>4. DelayInv'  BY NextKeepsDelayInv DEF Context
<1>5. \A c \in Context : CallInv(c)'  BY NextKeepsCallInv
<1> QED  BY <1>1, <1>2, <1>3, <1>4, <1>5

LEMMA CallsInvHolds == Spec => []CallsInv
<1>1. Init => CallsInv  BY InitCallsInv
<1>2. CallsInv /\ [Next]_vars => CallsInv'  BY NextKeepsCallsInv
<1> QED  BY <1>1, <1>2, PTL DEF Spec

LEMMA WaitedForWhatIsCounted == TypeOK /\ DelayInv => DelayWaits
<1> SUFFICES ASSUME TypeOK, DelayInv, delayed.does = "waits"
             PROVE  (now - delayed.began) * TickMicros >= (delayed.asked - delayed.ms) * Ms
  BY DEF DelayWaits
<1>1. PICK s \in Nat : StartedAt(s)  BY DEF DelayInv
<1>2. /\ now \in Nat /\ delayed.began \in Nat /\ delayed.asked \in Nat /\ delayed.ms \in Nat
      /\ TickMicros \in Nat /\ Ms \in Nat
  BY ConstantsAreNumbers DEF TypeOK, Delay
<1>3. (now - delayed.began) * TickMicros = now * TickMicros - delayed.began * TickMicros
  <2>1. \A a, b, c \in Nat : (a - b) * c = a * c - b * c  OBVIOUS
  <2> QED  BY <1>2, <2>1
<1>4. /\ now * TickMicros \in Int /\ delayed.began * TickMicros \in Int
      /\ (delayed.asked - delayed.ms) * Ms \in Int
  <2>1. \A a, b, c \in Nat : a * c \in Int /\ (a - b) * c \in Int  OBVIOUS
  <2> QED  BY <1>2, <2>1
<1> QED  BY <1>1, <1>3, <1>4 DEF StartedAt

(* The counters of the clock stay unsigned longs and the fraction less than *)
(* a millisecond, and the calls are as the model describes them (45-120).   *)
THEOREM ClockTypes == Spec => []TypeOK
<1>1. CallsInv => TypeOK  BY DEF CallsInv
<1> QED  BY <1>1, CallsInvHolds, PTL

(* Whatever micros() and millis() return, in the program or in a handler,   *)
(* was the time at some moment of the call, although an unsigned long is    *)
(* read in parts and an overflow may come at any of the steps (68-107).     *)
THEOREM TimesWereTrue == Spec => []ValuesWereTrue
<1>1. CallsInv => ValuesWereTrue  BY DEF CallsInv, CallInv, ValuesWereTrue
<1> QED  BY <1>1, CallsInvHolds, PTL

(* delay() has waited at least for the milliseconds it has counted,         *)
(* wherever micros() went round and however late it looked (109-120).       *)
THEOREM DelayIsLongEnough == Spec => []DelayWaits
<1>1. CallsInv => DelayWaits  BY WaitedForWhatIsCounted DEF CallsInv
<1> QED  BY <1>1, CallsInvHolds, PTL
=============================================================================
