----------------------------- MODULE ServoProofs -----------------------------
(***************************************************************************)
(* For any number of servos, widths of pulses and delays of the handler:   *)
(* no match is missed, a pulse has the width that was written, and servos  *)
(* are refreshed no faster than the interval.                              *)
(***************************************************************************)
EXTENDS Servo, TLAPS

At(place) == handler.at = place
Calling(steps) == calling.does \in steps

Doing == {"nothing", "initISR", "arm", "activate", "low", "high"}
Types ==
  /\ TypeOK
  /\ handler \in [at : {"none", "timing", "setting"}, next : 0..Width - 1]
  /\ calling \in [does : Doing, servo : Servos, value : Ticks \cup {0}, oldSREG : BOOLEAN]
  /\ waited \in Nat /\ whole \in [Servos -> BOOLEAN]

SameLow(a, b) == a % Half = b % Half

(* Interrupts are off in the handler and while ticks is written, so that    *)
(* the handler reads what was written; no servo is active in initISR.       *)
Program ==
  /\ enabled <=> At("none") /\ ~Calling({"low", "high"})
  /\ Calling({"low", "high"}) => At("none") /\ calling.oldSREG /\ calling.value \in Ticks
  /\ \A s \in Servos : ticks[s] \in Ticks \/ (Calling({"high"}) /\ calling.servo = s)
  /\ Calling({"high"}) => SameLow(ticks[calling.servo], calling.value)
  /\ Calling({"initISR", "arm"}) => ~isTimerActive
  /\ \A s \in Servos : whole[s] => isActive[s]

(* The latest that the timer is read for channel c in a round, and the      *)
(* least that the pulses of the channels before it take.                    *)
Start(c) == c * (Longest + Late + Lag)
Least(c) == c * Shortest

(* Until the first match the compare register is 0.                         *)
First == OCR1A = 0
Timing ==
  /\ First => /\ Channel = IF At("none") THEN 0 ELSE 1
              /\ \A s \in Servos : ~high[s] /\ age[s] = MaxAge
  /\ ~First => Shortest <= OCR1A /\ OCR1A <= LongestRound
  /\ ~OCIE1A => At("none") /\ ~OCF1A /\ First
  /\ Calling({"arm"}) => TCNT1 < Shortest
  /\ At("none") =>
       /\ Channel = -1 => OCR1A >= REFRESH
       /\ Channel >= 0 => OCR1A <= Start(Channel) + Lag + Longest
       /\ ~OCF1A /\ ~First => TCNT1 < OCR1A
       /\ OCF1A => waited <= Late /\ (TCNT1 = OCR1A + waited \/ Calling({"arm"}))
  /\ ~At("none") =>
       /\ Channel >= 0 /\ ~OCF1A /\ waited <= Lag /\ waited <= TCNT1
       /\ \/ OCR1A <= TCNT1
          \/ Channel = 0 /\ OCR1A >= REFRESH
          \/ Calling({"arm"}) /\ ~First
  /\ At("timing") => TCNT1 <= Start(Channel) + waited
  /\ At("setting") =>
       /\ TCNT1 <= Start(Channel) + Lag + waited
       /\ IF RoundOver(Channel)
          THEN /\ handler.next >= TCNT1 - waited + 4
               /\ handler.next \in REFRESH..LongestRound
          ELSE handler.next - (TCNT1 - waited) \in Ticks

(* How long a pulse has been and how much of it is left.                    *)
Pulses == \A s \in Servos : InPulse(s) =>
  /\ At("none") /\ Channel = s /\ ~First
  /\ age[s] + (IF OCF1A THEN -waited ELSE OCR1A - TCNT1) \in (Shortest - Lag)..Longest

(* How long ago a servo was pulsed at least.  Before its turn in a round it *)
(* is the refresh interval, less what the turn before may have been late,   *)
(* and the pulses since; afterwards the time in the round tells.            *)
AtLeast(a, n) == a >= n \/ a = MaxAge
Latest(s) == Start(s) + 2 * Lag
Turn(s, c) == REFRESH - Latest(s) + Least(c)
IsBefore(s) == Channel >= 0 /\ IF At("none") THEN Channel < s ELSE Channel <= s
Refresh == \A s \in Servos :
  /\ ~IsBefore(s) => AtLeast(age[s], TCNT1 - Latest(s))
  /\ At("none") /\ Channel = -1 /\ OCF1A => AtLeast(age[s], Turn(s, 0))
  /\ IsBefore(s) =>
       /\ At("none") =>
            AtLeast(age[s], Turn(s, Channel + 1) - (IF OCF1A THEN 0 ELSE OCR1A - TCNT1))
       /\ At("timing") => AtLeast(age[s], Turn(s, Channel))
       /\ At("setting") =>
            /\ AtLeast(age[s], Turn(s, Channel))
            /\ AtLeast(age[s], Turn(s, Channel + 1) - (handler.next - TCNT1))

Times == Timing /\ Pulses /\ Refresh
ServoInv == Types /\ Program /\ Times
-----------------------------------------------------------------------------
(* The constants.                                                           *)

LEMMA Numbers ==
  /\ ServoCount \in Nat \ {0} /\ Half \in Nat \ {0} /\ DEFAULT \in Ticks
  /\ REFRESH \in Nat /\ Width \in Nat /\ Late \in Nat /\ Lag \in Nat
  /\ Shortest \in Nat /\ Longest \in Nat /\ Shortest <= Longest
  /\ \A t \in Ticks : t \in Nat /\ Shortest <= t /\ t <= Longest
  /\ Lag < 4 /\ Late + Lag < Shortest /\ Longest + Late < REFRESH
  /\ 2 * Lag < REFRESH /\ 4 <= REFRESH
<1>1. Shortest \in Ticks /\ Longest \in Ticks /\ Ticks \subseteq Nat /\ Ticks \subseteq Shortest..Longest
  BY ServoAssumption
<1>2. Shortest \in Nat /\ Longest \in Nat  BY <1>1
<1>3. \A t \in Ticks : t \in Nat /\ Shortest <= t /\ t <= Longest  BY <1>1, <1>2
<1> HIDE DEF Shortest, Longest
<1>4. Shortest <= Longest  BY <1>1, <1>2, <1>3
<1> QED  BY <1>1, <1>2, <1>3, <1>4, ServoAssumption

LEMMA RoundTimes ==
  ASSUME NEW c \in Nat
  PROVE  /\ Start(c) \in Nat /\ Least(c) \in Nat /\ Start(0) = 0 /\ Least(0) = 0
         /\ Start(c + 1) = Start(c) + Longest + Late + Lag
         /\ Least(c + 1) = Least(c) + Shortest
         /\ Least(c) <= Start(c)
         /\ \A n \in Nat : c <= n => Start(c) <= Start(n)
<1> DEFINE k == Longest + Late + Lag
<1>1. k \in Nat /\ Shortest \in Nat /\ Shortest <= k  BY Numbers
<1>2. /\ k = Longest + Late + Lag
      /\ \A n : Start(n) = n * k /\ Least(n) = n * Shortest
  BY DEF Start, Least
<1> HIDE DEF k
<1>3. c * k \in Nat /\ c * Shortest \in Nat /\ 0 * k = 0 /\ 0 * Shortest = 0  BY <1>1
<1>4. (c + 1) * k = c * k + k /\ (c + 1) * Shortest = c * Shortest + Shortest  BY <1>1
<1>5. c * Shortest <= c * k  BY <1>1
<1>6. ASSUME NEW n \in Nat, c <= n PROVE c * k <= n * k  BY <1>1, <1>6
<1>7. Start(c + 1) = Start(c) + Longest + Late + Lag
  <2>1. Start(c) \in Nat /\ Start(c + 1) = Start(c) + k  BY <1>2, <1>3, <1>4
  <2> QED  BY <1>2, <2>1, Numbers
<1> QED  BY <1>2, <1>3, <1>4, <1>5, <1>6, <1>7

LEMMA RoundFits ==
  /\ Start(ServoCount) + Lag + 4 <= LongestRound /\ REFRESH <= LongestRound
  /\ LongestRound = REFRESH \/ LongestRound = Start(ServoCount) + Lag + 4
  /\ LongestRound + Late < Width /\ LongestRound \in Nat
<1>1. ServoCount \in Nat /\ Start(ServoCount) \in Nat  BY Numbers, RoundTimes
<1> QED  BY <1>1, Numbers, ServoAssumption DEF LongestRound, Start

LEMMA ChannelFits ==
  ASSUME NEW c \in Nat, c < ServoCount
  PROVE  Start(c) + Lag + Longest <= LongestRound /\ Start(c) + Longest + Late + Lag <= Start(ServoCount)
<1>1. c + 1 \in Nat /\ c + 1 <= ServoCount /\ ServoCount \in Nat  BY Numbers
<1>2. Start(c + 1) <= Start(ServoCount) /\ Start(ServoCount) \in Nat  BY <1>1, RoundTimes
<1>3. Start(c + 1) = Start(c) + Longest + Late + Lag /\ Start(c) \in Nat  BY RoundTimes
<1> QED  BY <1>2, <1>3, RoundFits, Numbers

LEMMA Rest ==
  ASSUME NEW n \in Nat, NEW m \in Nat \ {0}
  PROVE  n % m \in 0..m - 1 /\ (n < m => n % m = n)
OBVIOUS

LEMMA Bytes ==
  ASSUME NEW a \in Nat, NEW b \in Nat, NEW h \in Nat \ {0}
  PROVE  /\ (a \div h) * h + (b % h) \in Nat
         /\ ((a \div h) * h + (b % h)) % h = b % h
         /\ (b \div h) * h + (b % h) = b
<1> DEFINE q == a \div h
           r == b % h
           p == b \div h
<1>1. q \in Nat  OBVIOUS
<1>2. r \in Nat /\ r < h /\ p \in Nat /\ b = p * h + r  OBVIOUS
<1> HIDE DEF q, r, p
<1>3. q * h \in Nat  BY <1>1
<1>4. \A x \in Nat : x = q * h + r => x % h = r  BY <1>1, <1>2
<1>5. q * h + r \in Nat  BY <1>2, <1>3
<1> QED  BY <1>2, <1>4, <1>5 DEF q, r, p

-----------------------------------------------------------------------------
(* The variables.                                                           *)

LEMMA Variables ==
  ASSUME Types
  PROVE  /\ TCNT1 \in Nat /\ TCNT1 < Width /\ OCR1A \in Nat /\ OCR1A < Width /\ waited \in Nat
         /\ Channel \in Int /\ Channel >= -1 /\ Channel <= ServoCount
         /\ At("none") => Channel < ServoCount
         /\ At("none") \/ At("timing") \/ At("setting")
         /\ handler.next \in Nat /\ handler.next < Width
         /\ calling.servo \in Servos /\ calling.value \in Nat /\ calling.does \in Doing
         /\ \A s \in Servos : s \in Nat /\ s < ServoCount /\ age[s] \in Nat /\ age[s] <= MaxAge
<1>1. ServoCount \in Nat /\ Width \in Nat /\ MaxAge \in Nat  BY Numbers DEF MaxAge
<1>2. \A s \in Servos : s \in Nat /\ s < ServoCount  BY <1>1 DEF Servos
<1>3. calling.value \in Nat  BY Numbers DEF Types
<1> QED  BY <1>1, <1>2, <1>3 DEF Types, TypeOK, At

LEMMA TypesInit == Init => Types
<1> SUFFICES ASSUME Init PROVE Types  OBVIOUS
<1>1. 0 \in Servos /\ 0 \in 0..Width - 1 /\ MaxAge \in 0..MaxAge /\ ServoCount > 0
      /\ 0 \in -1..ServoCount /\ DEFAULT \in Nat
  BY Numbers, RoundFits DEF Servos, MaxAge
<1>2. TypeOK  BY <1>1 DEF Init, TypeOK, NotRunning
<1>3. NotRunning \in [at : {"none", "timing", "setting"}, next : 0..Width - 1]
      /\ NoCall \in [does : Doing, servo : Servos, value : Ticks \cup {0}, oldSREG : BOOLEAN]
  BY <1>1 DEF NotRunning, NoCall, Doing
<1> QED  BY <1>2, <1>3 DEF Types, Init

LEMMA TypesStep ==
  ASSUME Types, Program, [Next]_vars
  PROVE  Types'
<1>0. /\ ServoCount \in Nat \ {0} /\ Width \in Nat /\ Width > 0 /\ MaxAge \in Nat /\ Half \in Nat \ {0}
      /\ Ticks \subseteq Nat
  BY Numbers, RoundFits DEF MaxAge
<1>1. CASE Tick
  <2>1. (TCNT1 + 1) % Width \in 0..Width - 1
    <3>1. TCNT1 + 1 \in Nat /\ Width \in Nat \ {0}  BY <1>0, Variables
    <3> QED  BY <3>1, Rest
  <2>2. waited' \in Nat  BY <1>1, Variables DEF Tick
  <2>3. age' \in [Servos -> 0..MaxAge]  BY <1>0, <1>1, Variables DEF Tick
  <2> QED  BY <1>1, <2>1, <2>2, <2>3 DEF Tick, Types, TypeOK, servos
<1>2. CASE EndPulse
  <2>1. /\ Channel + 1 \in -1..ServoCount /\ (IF Channel < 0 THEN 0 ELSE TCNT1) \in 0..Width - 1
    <3>1. At("none") => Channel < ServoCount  BY Variables
    <3>2. enabled /\ TCNT1 \in 0..Width - 1  BY <1>2 DEF Types, TypeOK, EndPulse
    <3>3. Channel < ServoCount  BY <1>2, <3>1, <3>2 DEF Program
    <3> QED  BY <1>0, <3>2, <3>3, Variables
  <2>2. Lowered(Channel) \in [Servos -> BOOLEAN]  BY DEF Lowered, Active, Types, TypeOK
  <2>3. [NotRunning EXCEPT !.at = "timing"]
          \in [at : {"none", "timing", "setting"}, next : 0..Width - 1]
    BY <1>0 DEF NotRunning
  <2>4. handler'.at # "none"  BY <1>2 DEF EndPulse, NotRunning
  <2> QED  BY <1>2, <2>1, <2>2, <2>3, <2>4 DEF EndPulse, Types, TypeOK, servos
<1>3. CASE ReadTimer
  <2> DEFINE n == IF Channel \in Servos THEN PulseEnd(ticks[Channel]) ELSE RefreshEnd(TCNT1) % Width
  <2>1. n \in 0..Width - 1
    <3>1. CASE Channel \in Servos
      <4>1. ticks[Channel] \in Nat  BY <3>1 DEF Types, TypeOK
      <4>2. TCNT1 + ticks[Channel] \in Nat /\ Width \in Nat \ {0}  BY <1>0, <4>1, Variables
      <4> QED  BY <3>1, <4>2, Rest DEF PulseEnd
    <3>2. CASE Channel \notin Servos
      <4>1. RefreshEnd(TCNT1) \in Nat /\ Width \in Nat \ {0}
        BY <1>0, Variables, Numbers DEF RefreshEnd
      <4> QED  BY <3>2, <4>1, Rest
    <3> QED  BY <3>1, <3>2
  <2> HIDE DEF n
  <2>2. handler' = [at |-> "setting", next |-> n] /\ waited' = 0  BY <1>3 DEF ReadTimer, n
  <2> QED  BY <1>3, <2>1, <2>2 DEF ReadTimer, Types, TypeOK, timer, servos, pins
<1>4. CASE StartPulse
  <2>1. Channel' \in -1..ServoCount /\ Channel' < ServoCount
    BY <1>0, <1>4, Variables DEF StartPulse, RoundOver
  <2>2. /\ high' \in [Servos -> BOOLEAN] /\ age' \in [Servos -> 0..MaxAge]
        /\ whole' \in [Servos -> BOOLEAN]
    <3>1. CASE Active(Channel)
      <4>1. Rise(Channel)  BY <1>4, <3>1 DEF StartPulse
      <4>2. Channel \in Servos /\ 0 \in 0..MaxAge  BY <1>0, <3>1 DEF Active
      <4>3. (IF high[Channel] THEN age[Channel] ELSE 0) \in 0..MaxAge
            /\ (~high[Channel] \/ whole[Channel]) \in BOOLEAN
        BY <4>2 DEF Types, TypeOK
      <4> QED  BY <4>1, <4>2, <4>3 DEF Rise, Types, TypeOK
    <3>2. CASE ~Active(Channel)  BY <1>4, <3>2 DEF StartPulse, pins, Types, TypeOK
    <3> QED  BY <3>1, <3>2
  <2>3. handler.next \in 0..Width - 1 /\ 0 \in 0..Width - 1  BY <1>0 DEF Types
  <2> QED  BY <1>4, <2>1, <2>2, <2>3 DEF StartPulse, Types, TypeOK, servos, NotRunning
<1> USE DEF NoCall
<1>5. ASSUME NEW s \in Servos, Attach(s) PROVE Types'
  BY <1>5 DEF Attach, Types, TypeOK, Doing, timer, servos, pins
<1>6. CASE ClearCount
  BY <1>0, <1>6 DEF ClearCount, Types, TypeOK, Doing, servos, pins
<1>7. CASE Arm
  BY <1>7 DEF Arm, Types, TypeOK, Doing, servos, pins
<1>n. NoCall \in [does : Doing, servo : Servos, value : Ticks \cup {0}, oldSREG : BOOLEAN]
  BY <1>0 DEF Servos, Doing
<1>8. CASE Activate
  BY <1>8, <1>n, Variables DEF Activate, Finish, Types, TypeOK, timer, pins
<1>9. ASSUME NEW s \in Servos, Detach(s) PROVE Types'
  BY <1>9 DEF Detach, Types, TypeOK, timer
<1>10. ASSUME NEW s \in Servos, Write(s) PROVE Types'
  <2>1. PICK t \in Ticks : calling' = [does |-> "low", servo |-> s, value |-> t, oldSREG |-> enabled]
    BY <1>10 DEF Write
  <2>2. calling' \in [does : Doing, servo : Servos, value : Ticks \cup {0}, oldSREG : BOOLEAN]
    BY <2>1 DEF Doing, Types, TypeOK
  <2>3. UNCHANGED <<timer, Channel, servos, handler, waited, pins>> /\ enabled' = FALSE
    BY <1>10 DEF Write
  <2> QED  BY <2>2, <2>3 DEF Types, TypeOK, timer, servos, pins
<1>11. CASE WriteLow
  <2> DEFINE old == ticks[calling.servo]
             new == (old \div Half) * Half + (calling.value % Half)
  <2>1. old \in Nat /\ calling.value \in Nat /\ calling.servo \in Servos
    BY Variables DEF Types, TypeOK
  <2>2. new \in Nat  BY <1>0, <2>1, Bytes
  <2>3. ticks' = [ticks EXCEPT ![calling.servo] = new]  BY <1>11 DEF WriteLow
  <2> HIDE DEF new
  <2> QED  BY <1>11, <2>1, <2>2, <2>3 DEF WriteLow, Types, TypeOK, Doing, timer, pins
<1>12. CASE WriteHigh
  <2> DEFINE old == ticks[calling.servo]
             new == (calling.value \div Half) * Half + (old % Half)
  <2>1. old \in Nat /\ calling.value \in Nat /\ calling.servo \in Servos
    BY Variables DEF Types, TypeOK
  <2>2. new \in Nat  BY <1>0, <2>1, Bytes
  <2>3. ticks' = [ticks EXCEPT ![calling.servo] = new]  BY <1>12 DEF WriteHigh
  <2> HIDE DEF new
  <2> QED  BY <1>12, <1>n, <2>1, <2>2, <2>3 DEF WriteHigh, Finish, Types, TypeOK, timer, pins
<1>13. CASE UNCHANGED vars
  BY <1>13 DEF vars, Types, TypeOK, timer, servos, pins
<1> QED  BY <1>1, <1>2, <1>3, <1>4, <1>5, <1>6, <1>7, <1>8, <1>9, <1>10, <1>11, <1>12, <1>13 DEF Next
-----------------------------------------------------------------------------
(* The program.                                                             *)

LEMMA NoCallDoesNothing == NoCall.does = "nothing"
BY DEF NoCall

LEMMA ProgramInit == Init => Program
<1> SUFFICES ASSUME Init PROVE Program  OBVIOUS
<1>1. calling.does = "nothing"  BY NoCallDoesNothing DEF Init
<1>2. At("none")  BY DEF Init, At, NotRunning
<1> QED  BY <1>1, <1>2, Numbers DEF Init, Program, Calling, isTimerActive

LEMMA ProgramStep ==
  ASSUME Types, Program, Timing, [Next]_vars
  PROVE  Program'
<1> USE DEF At, Calling
<1>1. CASE Tick
  BY <1>1 DEF Tick, Program, servos, isTimerActive
<1>2. CASE EndPulse
  BY <1>2 DEF EndPulse, Program, servos, isTimerActive, NotRunning
<1>3. CASE ReadTimer
  BY <1>3 DEF ReadTimer, Program, servos, isTimerActive, pins
<1>4. CASE StartPulse
  <2>1. \A s \in Servos : whole'[s] => isActive[s]
    <3>1. CASE Active(Channel)
      BY <1>4, <3>1 DEF StartPulse, Rise, Active, Program, Types
    <3>2. CASE ~Active(Channel)  BY <1>4, <3>2 DEF StartPulse, pins, Program
    <3> QED  BY <3>1, <3>2
  <2> QED  BY <1>4, <2>1 DEF StartPulse, Program, servos, isTimerActive, NotRunning
<1>5. ASSUME NEW s \in Servos, Attach(s) PROVE Program'
  BY <1>5 DEF Attach, Does, Program, NoCall, servos, pins, isTimerActive
<1>6. CASE ClearCount
  BY <1>6 DEF ClearCount, Does, Program, servos, pins, isTimerActive
<1>7. CASE Arm
  BY <1>7 DEF Arm, Does, Program, servos, pins, isTimerActive
<1>8. CASE Activate
  <2>1. calling'.does = "nothing"  BY <1>8, NoCallDoesNothing DEF Activate, Finish
  <2>2. isActive' = [isActive EXCEPT ![calling.servo] = TRUE]
        /\ UNCHANGED <<enabled, ticks, handler, whole>> /\ calling.does = "activate"
    BY <1>8 DEF Activate, Does, pins
  <2>3. \A s \in Servos : isActive[s] => isActive'[s]  BY <2>2 DEF Types, TypeOK
  <2> QED  BY <2>1, <2>2, <2>3 DEF Program
<1>9. ASSUME NEW s \in Servos, Detach(s) PROVE Program'
  BY <1>9 DEF Detach, Does, Program, servos, pins, isTimerActive, Types, TypeOK
<1>10. ASSUME NEW s \in Servos, Write(s) PROVE Program'
  <2>1. PICK t \in Ticks : calling' = [does |-> "low", servo |-> s, value |-> t, oldSREG |-> enabled]
    BY <1>10 DEF Write
  <2> QED  BY <1>10, <2>1 DEF Write, Does, Program, servos, pins, isTimerActive
<1>11. CASE WriteLow
  <2> DEFINE old == ticks[calling.servo]
             new == (old \div Half) * Half + (calling.value % Half)
  <2>1. old \in Nat /\ calling.value \in Nat /\ calling.servo \in Servos
    BY Variables DEF Types, TypeOK
  <2>2. new \in Nat /\ SameLow(new, calling.value)  BY <2>1, Bytes, Numbers DEF SameLow
  <2>3. ticks' = [ticks EXCEPT ![calling.servo] = new]  BY <1>11 DEF WriteLow
  <2> HIDE DEF new
  <2>4. \A s \in Servos : ticks'[s] = IF s = calling.servo THEN new ELSE ticks[s]
    BY <2>3 DEF Types, TypeOK
  <2>5. calling'.does = "high" /\ calling'.servo = calling.servo /\ calling'.value = calling.value
        /\ calling'.oldSREG = calling.oldSREG
    BY <1>11 DEF WriteLow, Types
  <2> QED  BY <1>11, <2>1, <2>2, <2>4, <2>5 DEF WriteLow, Does, Program, pins, isTimerActive
<1>12. CASE WriteHigh
  <2> DEFINE old == ticks[calling.servo]
             new == (calling.value \div Half) * Half + (old % Half)
  <2>1. old \in Nat /\ calling.value \in Ticks /\ calling.value \in Nat /\ calling.servo \in Servos
    BY <1>12, Variables DEF Types, TypeOK, Program, WriteHigh, Does
  <2>2. ticks' = [ticks EXCEPT ![calling.servo] = new]  BY <1>12 DEF WriteHigh
  <2>3. \A s \in Servos : ticks'[s] = IF s = calling.servo THEN new ELSE ticks[s]
    BY <2>2 DEF Types, TypeOK
  <2>4. new = calling.value
    <3>1. old \in Nat /\ SameLow(old, calling.value)
      BY <1>12, <2>1 DEF Program, WriteHigh, Does, Types, TypeOK
    <3>2. old % Half = calling.value % Half  BY <3>1 DEF SameLow
    <3> QED  BY <3>2, <2>1, <3>1, Bytes, Numbers
  <2> HIDE DEF new
  <2>5. calling'.does = "nothing"  BY <1>12, NoCallDoesNothing DEF WriteHigh, Finish
  <2>6. UNCHANGED <<isActive, handler, whole>> /\ enabled' = calling.oldSREG
    BY <1>12 DEF WriteHigh, pins
  <2>7. calling.does = "high" /\ At("none")  BY <1>12 DEF WriteHigh, Does
  <2> QED  BY <2>1, <2>3, <2>4, <2>5, <2>6, <2>7 DEF Program, isTimerActive
<1>13. CASE UNCHANGED vars
  BY <1>13 DEF vars, Program, servos, pins, isTimerActive
<1> QED  BY <1>1, <1>2, <1>3, <1>4, <1>5, <1>6, <1>7, <1>8, <1>9, <1>10, <1>11, <1>12, <1>13 DEF Next
-----------------------------------------------------------------------------
(* Times.                                                                   *)

LEMMA Turns ==
  ASSUME NEW s \in Servos, NEW c \in Nat
  PROVE  /\ Latest(s) \in Nat /\ Latest(s) = Start(s) + 2 * Lag
         /\ Turn(s, c) \in Int /\ Turn(s, c + 1) = Turn(s, c) + Shortest
         /\ Turn(s, 0) = REFRESH - Latest(s)
         /\ Turn(s, s) = REFRESH - Jitter(s) /\ Jitter(s) \in Nat
<1>1. s \in Nat  BY Numbers DEF Servos
<1>2. Start(s) \in Nat /\ Least(s) \in Nat /\ Least(0) = 0  BY <1>1, RoundTimes
<1>3. Least(c) \in Nat /\ Least(c + 1) = Least(c) + Shortest  BY RoundTimes
<1>4. Start(s) - Least(s) = s * (Longest - Shortest + Late + Lag)
  <2> DEFINE k == Longest + Late + Lag
  <2>1. k \in Nat /\ Shortest \in Nat  BY Numbers
  <2>2. Start(s) = s * k /\ Least(s) = s * Shortest  BY DEF Start, Least
  <2>3. Longest - Shortest + Late + Lag = k - Shortest  BY Numbers
  <2> HIDE DEF k
  <2>4. s * (k - Shortest) = s * k - s * Shortest  BY <1>1, <2>1
  <2> QED  BY <2>2, <2>3, <2>4
<1>5. Least(s) <= Start(s)  BY <1>1, RoundTimes
<1>6. Jitter(s) = Start(s) - Least(s) + 2 * Lag  BY <1>4 DEF Jitter
<1> QED  BY <1>2, <1>3, <1>5, <1>6, Numbers DEF Latest, Turn

LEMMA TimesInit == Init => Times
<1> SUFFICES ASSUME Init PROVE Times  OBVIOUS
<1>1. calling.does = "nothing" /\ At("none")  BY NoCallDoesNothing DEF Init, At, NotRunning
<1>2. Start(0) = 0 /\ 0 < ServoCount  BY RoundTimes, Numbers
<1>3. \A s \in Servos : ~high[s] /\ age[s] = MaxAge  BY DEF Init
<1>4. ~At("timing") /\ ~At("setting")  BY <1>1 DEF At
<1>5. Timing  BY <1>1, <1>2, <1>3, <1>4, Numbers DEF Init, Timing, First, Calling
<1>6. Pulses  BY <1>3 DEF Pulses, InPulse
<1>7. Refresh  BY <1>1, <1>3, <1>4 DEF Refresh, AtLeast
<1> QED  BY <1>5, <1>6, <1>7 DEF Times

(* A step of the program that does not touch the timer.                     *)
LEMMA QuietStep ==
  ASSUME Times, UNCHANGED <<timer, Channel, handler, waited, high, age>>,
         Calling({"arm"})' = Calling({"arm"}), \A s \in Servos : whole'[s] => whole[s]
  PROVE  Times'
<1> USE DEF timer
<1>1. Timing'  BY DEF Times, Timing, First, At
<1>2. Pulses'  BY DEF Times, Pulses, InPulse, First, At
<1>3. Refresh'
  <2>1. \A s : IsBefore(s)' = IsBefore(s)  BY DEF IsBefore, At
  <2> QED  BY <2>1 DEF Times, Refresh, At, AtLeast
<1> QED  BY <1>1, <1>2, <1>3 DEF Times

(* The timer overflows only before the first match, and no match comes      *)
(* while the handler runs.                                                  *)
LEMMA TickCounts ==
  ASSUME Types, Timing, Tick
  PROVE  /\ TCNT1' = TCNT1 + 1 \/ (First /\ At("none") /\ ~OCF1A)
         /\ ~At("none") => ~OCF1A' /\ waited' = waited + 1 /\ waited < Lag
         /\ At("none") /\ OCF1A =>
              /\ OCF1A' /\ waited' = waited + 1 /\ waited < Late
              /\ ~Calling({"arm"}) => TCNT1 = OCR1A + waited
         /\ At("none") /\ ~OCF1A => waited' = 0 /\ (OCF1A' <=> TCNT1' = OCR1A)
         /\ Calling({"arm"}) => TCNT1' = TCNT1 + 1 /\ TCNT1 < Shortest - 1
<1>1. /\ TCNT1' = (TCNT1 + 1) % Width /\ OCF1A \in BOOLEAN
      /\ Calling({"arm"}) => TCNT1 < Shortest - 1
      /\ OCF1A' = (OCF1A \/ TCNT1' = OCR1A)
      /\ ~At("none") => waited < Lag
      /\ At("none") /\ OCF1A => waited < Late
      /\ waited' = IF ~At("none") \/ OCF1A THEN waited + 1 ELSE 0
  BY DEF Tick, At, Calling, Types, TypeOK
<1>2. TCNT1 \in Nat /\ waited \in Nat /\ OCR1A \in Nat /\ Channel \in Int /\ Channel <= ServoCount
  BY Variables
<1>3. /\ TCNT1 + 1 \in Nat /\ Width \in Nat \ {0}
      /\ TCNT1 + 1 < Width => TCNT1' = TCNT1 + 1
  <2>1. TCNT1 + 1 \in Nat /\ Width \in Nat \ {0}  BY <1>2, Numbers, RoundFits
  <2> QED  BY <1>1, <2>1, Rest
<1>4. ~At("none") =>
         /\ Start(Channel) \in Nat /\ Start(ServoCount) \in Nat
         /\ Start(Channel) <= Start(ServoCount) /\ TCNT1 + 1 <= Start(Channel) + 2 * Lag
  <2>1. ~At("none") => Channel \in Nat /\ ServoCount \in Nat  BY <1>2, Numbers DEF Timing
  <2>2. ~At("none") => Start(Channel) \in Nat /\ Start(Channel) <= Start(ServoCount)
                       /\ Start(ServoCount) \in Nat
    BY <1>2, <2>1, RoundTimes
  <2>3. ~At("none") => At("timing") \/ At("setting")  BY Variables
  <2>4. ~At("none") => TCNT1 <= Start(Channel) + Lag + waited
    BY <1>2, <2>2, <2>3, Numbers DEF Timing
  <2> QED  BY <1>1, <1>2, <2>2, <2>4, Numbers
<1>5. ~At("none") => TCNT1 + 1 < Width
  BY <1>2, <1>4, RoundFits, Numbers
<1>6. ASSUME ~First \/ OCF1A \/ Calling({"arm"}), At("none") PROVE TCNT1 + 1 < Width
  <2>1. CASE OCF1A /\ ~Calling({"arm"})
    <3>1. OCR1A <= LongestRound
      BY <1>2, RoundFits DEF Timing, First
    <3> QED  BY <1>1, <1>2, <1>6, <2>1, <3>1, RoundFits, Numbers DEF Timing
  <2>2. CASE ~OCF1A /\ ~Calling({"arm"})
    BY <1>2, <1>6, <2>2, RoundFits, Numbers DEF Timing
  <2>3. CASE Calling({"arm"})
    <3>0. ServoCount \in Nat /\ Shortest < REFRESH  BY Numbers
    <3>1. Shortest < REFRESH /\ Start(ServoCount) \in Nat  BY <3>0, RoundTimes
    <3> QED  BY <1>1, <1>2, <2>3, <3>1, RoundFits, Numbers
  <2> QED  BY <2>1, <2>2, <2>3
<1>7. TCNT1' = TCNT1 + 1 \/ (First /\ At("none") /\ ~OCF1A)
  BY <1>3, <1>5, <1>6
<1>8. ~At("none") => ~OCF1A'
  <2> SUFFICES ASSUME ~At("none") PROVE ~OCF1A'  OBVIOUS
  <2>1. ~OCF1A /\ TCNT1' = TCNT1 + 1  BY <1>7 DEF Timing
  <2>2. TCNT1 + 1 # OCR1A
    <3>1. CASE OCR1A <= TCNT1  BY <1>2, <3>1
    <3>2. CASE Channel = 0 /\ OCR1A >= REFRESH
      <4>1. Start(0) = 0  BY RoundTimes
      <4> QED  BY <1>2, <1>4, <3>2, <4>1, Numbers
    <3>3. CASE Calling({"arm"}) /\ ~First
      BY <1>1, <1>2, <3>3, Numbers DEF Timing
    <3> QED  BY <3>1, <3>2, <3>3 DEF Timing
  <2> QED  BY <1>1, <2>1, <2>2
<1>9. Calling({"arm"}) => TCNT1' = TCNT1 + 1  BY <1>3, <1>5, <1>6
<1> QED  BY <1>1, <1>7, <1>8, <1>9 DEF Timing

LEMMA TickAges ==
  ASSUME Types, Tick, NEW s \in Servos
  PROVE  /\ age'[s] = MaxAge \/ age'[s] = age[s] + 1
         /\ age[s] < MaxAge => age'[s] = age[s] + 1
         /\ \A n, m \in Int : AtLeast(age[s], n) /\ m <= n + 1 => AtLeast(age'[s], m)
<1>1. age'[s] = IF age[s] < MaxAge THEN age[s] + 1 ELSE MaxAge  BY DEF Tick
<1>2. age[s] \in Nat /\ age[s] <= MaxAge /\ MaxAge \in Nat  BY Variables, Numbers DEF MaxAge
<1> QED  BY <1>1, <1>2 DEF AtLeast

LEMMA TickStep ==
  ASSUME Types, Times, Tick
  PROVE  Times'
<1> USE DEF Times
<1>0. /\ UNCHANGED <<OCR1A, OCIE1A, Channel, handler, high, whole>>
      /\ OCIE1A
      /\ Calling({"arm"})' = Calling({"arm"})
      /\ \A x : At(x)' = At(x)
      /\ First' = First
      /\ \A s : IsBefore(s)' = IsBefore(s)
  BY DEF Tick, At, Calling, First, IsBefore
<1>1. /\ TCNT1 \in Nat /\ TCNT1' \in Nat /\ waited \in Nat /\ OCR1A \in Nat /\ Channel \in Int
      /\ Channel >= -1
      /\ TCNT1' = TCNT1 + 1 \/ (First /\ At("none") /\ ~OCF1A)
  <2>0. TCNT1 + 1 \in Nat /\ Width \in Nat \ {0}  BY Variables, Numbers, RoundFits
  <2>1. (TCNT1 + 1) % Width \in Nat  BY <2>0, Rest
  <2> QED  BY <2>1, Variables, TickCounts DEF Tick
<1>t. /\ ~At("none") => ~OCF1A' /\ waited' = waited + 1 /\ waited < Lag
      /\ At("none") /\ OCF1A =>
           /\ OCF1A' /\ waited' = waited + 1 /\ waited < Late
           /\ ~Calling({"arm"}) => TCNT1 = OCR1A + waited
      /\ At("none") /\ ~OCF1A => waited' = 0 /\ (OCF1A' <=> TCNT1' = OCR1A)
      /\ Calling({"arm"}) => TCNT1' = TCNT1 + 1 /\ TCNT1 < Shortest - 1
  BY TickCounts
<1>2. Timing'
  <2>1. At("none")' /\ OCF1A' => waited' <= Late /\ (TCNT1' = OCR1A + waited' \/ Calling({"arm"}))
    BY <1>0, <1>1, <1>t, Numbers DEF Timing
  <2>2. At("none")' /\ ~OCF1A' /\ ~First => TCNT1' < OCR1A
    BY <1>0, <1>1, <1>t, Numbers DEF Timing
  <2>3. Calling({"arm"})' => TCNT1' < Shortest
    BY <1>0, <1>1, <1>t, Numbers DEF Timing
  <2>4. First => \A s \in Servos : ~high'[s] /\ age'[s] = MaxAge
    <3>1. \A s \in Servos : age[s] = MaxAge => age'[s] = MaxAge  BY Numbers DEF Tick, MaxAge
    <3> QED  BY <1>0, <3>1 DEF Timing
  <2>5. ~At("none") =>
           /\ TCNT1' = TCNT1 + 1 /\ waited' = waited + 1 /\ waited < Lag /\ ~OCF1A'
           /\ Channel \in Nat /\ Start(Channel) \in Nat
    <3>1. ~At("none") => Channel \in Nat  BY <1>1 DEF Timing
    <3> QED  BY <1>0, <1>1, <3>1, <1>t, RoundTimes DEF Timing
  <2>6. At("setting") => handler.next - (TCNT1' - waited') = handler.next - (TCNT1 - waited)
                         /\ TCNT1' - waited' = TCNT1 - waited
    <3>1. At("setting") => ~At("none")  BY DEF At
    <3> QED  BY <1>1, <2>5, <3>1, Variables
  <2>7. ~At("none")' =>
          /\ Channel' >= 0 /\ ~OCF1A' /\ waited' <= Lag /\ waited' <= TCNT1'
          /\ \/ OCR1A' <= TCNT1'
             \/ Channel' = 0 /\ OCR1A' >= REFRESH
             \/ Calling({"arm"})' /\ ~First'
    BY <1>0, <1>1, <2>5, Numbers DEF Timing
  <2>8. At("timing")' => TCNT1' <= Start(Channel') + waited'
    BY <1>0, <1>1, <2>5, Numbers DEF Timing, At
  <2>9. At("setting")' => TCNT1' <= Start(Channel') + Lag + waited'
    BY <1>0, <1>1, <2>5, Numbers DEF Timing, At
  <2> QED  BY <1>0, <2>1, <2>2, <2>3, <2>4, <2>6, <2>7, <2>8, <2>9 DEF Timing, RoundOver
<1>3. Pulses'
  <2> SUFFICES ASSUME NEW s \in Servos, InPulse(s)'
               PROVE /\ At("none")' /\ Channel' = s /\ ~First'
                     /\ age'[s] + (IF OCF1A' THEN -waited' ELSE OCR1A' - TCNT1')
                          \in (Shortest - Lag)..Longest
    BY DEF Pulses
  <2>1. InPulse(s)  BY <1>0 DEF InPulse
  <2> DEFINE left == IF OCF1A THEN -waited ELSE OCR1A - TCNT1
             left1 == IF OCF1A' THEN -waited' ELSE OCR1A' - TCNT1'
  <2>2. At("none") /\ Channel = s /\ ~First /\ age[s] + left \in (Shortest - Lag)..Longest
    BY <2>1 DEF Pulses
  <2>3. age[s] \in Nat /\ TCNT1' = TCNT1 + 1  BY <1>1, <2>2, Variables
  <2>4. left \in Int /\ left1 = left - 1
    BY <1>0, <1>1, <2>2, <2>3, <1>t
  <2>5. left > -Late
    BY <1>0, <1>1, <2>2, <2>3, <1>t, Numbers DEF Timing
  <2> HIDE DEF left, left1
  <2>6. age[s] < MaxAge  BY <2>2, <2>3, <2>4, <2>5, Numbers DEF MaxAge
  <2>7. age'[s] = age[s] + 1  BY <2>6, TickAges
  <2>8. age'[s] + left1 = age[s] + left  BY <2>3, <2>4, <2>7
  <2> QED  BY <1>0, <2>2, <2>8 DEF left1
<1>4. Refresh'
  <2> SUFFICES ASSUME NEW s \in Servos
               PROVE
                 /\ ~IsBefore(s) => AtLeast(age'[s], TCNT1' - Latest(s))
                 /\ At("none") /\ Channel = -1 /\ OCF1A' => AtLeast(age'[s], Turn(s, 0))
                 /\ IsBefore(s) =>
                     /\ At("none") => AtLeast(age'[s], Turn(s, Channel + 1)
                                                        - (IF OCF1A' THEN 0 ELSE OCR1A - TCNT1'))
                     /\ At("timing") => AtLeast(age'[s], Turn(s, Channel))
                     /\ At("setting") =>
                          /\ AtLeast(age'[s], Turn(s, Channel))
                          /\ AtLeast(age'[s], Turn(s, Channel + 1) - (handler.next - TCNT1'))
    <3>1. UNCHANGED <<OCR1A, Channel, handler>> /\ \A x : IsBefore(x)' = IsBefore(x)  BY <1>0
    <3>2. At("none") \/ At("timing") \/ At("setting")  BY Variables
    <3> QED  BY <3>1, <3>2 DEF Refresh, AtLeast, At
  <2>0. /\ \A n, m \in Int : AtLeast(age[s], n) /\ m <= n + 1 => AtLeast(age'[s], m)
        /\ Latest(s) \in Nat /\ Turn(s, 0) = REFRESH - Latest(s) /\ REFRESH \in Nat
        /\ handler.next \in Nat
    BY TickAges, Turns, Numbers, Variables
  <2>1. CASE First /\ At("none") /\ ~OCF1A
    <3>1. age'[s] = MaxAge  BY <1>0, <1>2, <2>1 DEF Timing
    <3>2. \A n : AtLeast(age'[s], n)  BY <3>1 DEF AtLeast
    <3> QED  BY <2>1, <3>2 DEF At
  <2>2. CASE TCNT1' = TCNT1 + 1
    <3>1. ~IsBefore(s) => AtLeast(age'[s], TCNT1' - Latest(s))
      <4>1. ~IsBefore(s) => AtLeast(age[s], TCNT1 - Latest(s))  BY DEF Refresh
      <4>2. TCNT1' - Latest(s) <= (TCNT1 - Latest(s)) + 1 /\ TCNT1 - Latest(s) \in Int
            /\ TCNT1' - Latest(s) \in Int
        BY <1>1, <2>0, <2>2
      <4> QED  BY <2>0, <4>1, <4>2
    <3>2. ASSUME At("none"), Channel = -1, OCF1A' PROVE AtLeast(age'[s], Turn(s, 0))
      <4>0. Turn(s, 0) \in Int /\ Turn(s, 0) <= Turn(s, 0) + 1  BY <2>0
      <4>1. CASE OCF1A
        <5>1. AtLeast(age[s], Turn(s, 0))  BY <3>2, <4>1 DEF Refresh
        <5> QED  BY <2>0, <4>0, <5>1
      <4>2. CASE ~OCF1A
        <5>1. TCNT1' = OCR1A /\ OCR1A >= REFRESH  BY <3>2, <4>2, <1>t DEF Timing
        <5>2. ~IsBefore(s)  BY <3>2 DEF IsBefore
        <5>0. TCNT1 - Latest(s) \in Int  BY <2>0, <1>1
        <5>3. AtLeast(age[s], TCNT1 - Latest(s)) /\ TCNT1 - Latest(s) \in Int
          BY <5>0, <5>2 DEF Refresh
        <5>4. Turn(s, 0) <= TCNT1 - Latest(s) + 1  BY <1>1, <2>0, <2>2, <5>1
        <5> QED  BY <2>0, <4>0, <5>3, <5>4
      <4> QED  BY <4>1, <4>2
    <3>3. ASSUME IsBefore(s)
          PROVE  /\ At("none") => AtLeast(age'[s], Turn(s, Channel + 1)
                                                    - (IF OCF1A' THEN 0 ELSE OCR1A - TCNT1'))
                 /\ At("timing") => AtLeast(age'[s], Turn(s, Channel))
                 /\ At("setting") =>
                      /\ AtLeast(age'[s], Turn(s, Channel))
                      /\ AtLeast(age'[s], Turn(s, Channel + 1) - (handler.next - TCNT1'))
      <4>1. Channel \in Nat  BY <1>1, <3>3 DEF IsBefore
      <4>2. Turn(s, Channel) \in Int /\ Turn(s, Channel + 1) \in Int  BY <4>1, Turns, Numbers
      <4>3. CASE At("none")
        <5> DEFINE n == Turn(s, Channel + 1) - (IF OCF1A THEN 0 ELSE OCR1A - TCNT1)
                   m == Turn(s, Channel + 1) - (IF OCF1A' THEN 0 ELSE OCR1A - TCNT1')
        <5>1. AtLeast(age[s], n)  BY <3>3, <4>3 DEF Refresh
        <5>2. n \in Int /\ m \in Int /\ m <= n + 1  BY <1>1, <2>2, <4>2, <4>3, <1>t
        <5>3. AtLeast(age'[s], m)  BY <2>0, <5>1, <5>2
        <5> QED  BY <4>3, <5>3 DEF At
      <4>4. CASE At("timing")
        <5>1. AtLeast(age[s], Turn(s, Channel))  BY <3>3, <4>4 DEF Refresh, At
        <5> QED  BY <2>0, <4>2, <4>4, <5>1 DEF At
      <4>5. CASE At("setting")
        <5> DEFINE n == Turn(s, Channel + 1) - (handler.next - TCNT1)
                   m == Turn(s, Channel + 1) - (handler.next - TCNT1')
        <5>1. AtLeast(age[s], Turn(s, Channel)) /\ AtLeast(age[s], n)  BY <3>3, <4>5 DEF Refresh, At
        <5>2. n \in Int /\ m \in Int /\ m <= n + 1  BY <1>1, <2>0, <2>2, <4>2
        <5>3. AtLeast(age'[s], m) /\ AtLeast(age'[s], Turn(s, Channel))
          BY <2>0, <4>2, <5>1, <5>2
        <5> QED  BY <4>5, <5>3 DEF At
      <4> QED  BY <4>3, <4>4, <4>5
    <3> QED  BY <3>1, <3>2, <3>3
  <2> QED  BY <1>1, <2>1, <2>2
<1> QED  BY <1>2, <1>3, <1>4

(* The handler.                                                             *)
LEMMA EndPulseStep ==
  ASSUME Types, Program, Times, EndPulse
  PROVE  Times'
<1> USE DEF Times
<1>0. /\ UNCHANGED <<OCR1A, OCIE1A, calling, age, whole>>
      /\ OCF1A /\ OCIE1A /\ enabled /\ ~OCF1A' /\ waited' = 0
      /\ TCNT1' = IF Channel < 0 THEN 0 ELSE TCNT1
      /\ Channel' = Channel + 1 /\ high' = Lowered(Channel)
      /\ At("timing")' /\ ~At("none")' /\ ~At("setting")'
      /\ Calling({"arm"})' = Calling({"arm"}) /\ First' = First
  BY DEF EndPulse, At, NotRunning, Calling, First
<1>1. /\ TCNT1 \in Nat /\ waited \in Nat /\ OCR1A \in Nat /\ Channel \in Int /\ Channel >= -1
      /\ Channel < ServoCount /\ At("none")
      /\ waited <= Late /\ (TCNT1 = OCR1A + waited \/ (Calling({"arm"}) /\ TCNT1 < Shortest))
  BY <1>0, Variables DEF Program, Timing
<1>2. Timing'
  <2>1. First' => Channel' = 1 /\ \A s \in Servos : ~high'[s] /\ age'[s] = MaxAge
    <3>1. \A s \in Servos : ~high[s] => ~high'[s]
      BY <1>0 DEF Lowered, Active, Types, TypeOK
    <3> QED  BY <1>0, <1>1, <3>1 DEF Timing
  <2>2. TCNT1' <= TCNT1 /\ TCNT1' \in Nat  BY <1>0, <1>1
  <2>3. TCNT1' <= Start(Channel') + waited'
    <3>1. CASE Channel < 0
      BY <1>0, <1>1, <3>1, RoundTimes
    <3>2. CASE Channel >= 0
      <4>1. Start(Channel + 1) = Start(Channel) + Longest + Late + Lag /\ Start(Channel) \in Nat
        <5>1. Channel \in Nat  BY <1>1, <3>2
        <5> QED  BY <5>1, RoundTimes
      <4>2. TCNT1 <= Start(Channel) + Longest + Late + Lag
        BY <1>1, <3>2, <4>1, Numbers DEF Timing
      <4> QED  BY <1>0, <1>1, <3>2, <4>1, <4>2, Numbers
    <3> QED  BY <1>1, <3>1, <3>2
  <2>4. \/ OCR1A' <= TCNT1'
        \/ Channel' = 0 /\ OCR1A' >= REFRESH
        \/ Calling({"arm"})' /\ ~First'
    <3>1. CASE Channel < 0  BY <1>0, <1>1, <3>1 DEF Timing
    <3>2. CASE Channel >= 0  BY <1>0, <1>1, <3>2 DEF First
    <3> QED  BY <1>1, <3>1, <3>2
  <2>5. Calling({"arm"})' => TCNT1' < Shortest  BY <1>0, <1>1, <2>2, Numbers DEF Timing
  <2>6. Channel' >= 0 /\ ~OCF1A' /\ waited' <= Lag /\ waited' <= TCNT1'
    BY <1>0, <1>1, <2>2, Numbers
  <2>7. ~First' => Shortest <= OCR1A' /\ OCR1A' <= LongestRound  BY <1>0 DEF Timing
  <2> QED  BY <1>0, <2>1, <2>3, <2>4, <2>5, <2>6, <2>7 DEF Timing
<1>3. Pulses'
  <2> SUFFICES ASSUME NEW s \in Servos, InPulse(s)' PROVE FALSE  BY DEF Pulses
  <2>1. high'[s] /\ whole[s] /\ high[s]
    BY <1>0 DEF InPulse, Lowered, Active, Types, TypeOK
  <2>2. Channel = s /\ isActive[s]  BY <2>1 DEF Pulses, InPulse, Program
  <2> QED  BY <1>0, <2>1, <2>2 DEF Lowered, Active, Types, TypeOK
<1>4. Refresh'
  <2> SUFFICES ASSUME NEW s \in Servos
               PROVE  /\ ~IsBefore(s)' => AtLeast(age[s], TCNT1' - Latest(s))
                      /\ IsBefore(s)' => AtLeast(age[s], Turn(s, Channel + 1))
    BY <1>0 DEF Refresh, AtLeast
  <2>1. s \in Nat /\ (IsBefore(s)' <=> Channel < s)
    BY <1>0, <1>1, Variables DEF IsBefore
  <2>2. CASE Channel = -1
    <3>1. AtLeast(age[s], Turn(s, 0))  BY <1>0, <1>1, <2>2 DEF Refresh
    <3> QED  BY <2>1, <2>2, <3>1
  <2>3. CASE Channel >= 0
    <3>1. IsBefore(s) <=> Channel < s  BY <1>1, <2>3 DEF IsBefore
    <3>2. IsBefore(s) => AtLeast(age[s], Turn(s, Channel + 1) - 0)  BY <1>0, <1>1 DEF Refresh
    <3>3. Turn(s, Channel + 1) - 0 = Turn(s, Channel + 1)
      <4>1. Channel + 1 \in Nat  BY <1>1, <2>3
      <4> QED  BY <4>1, Turns
    <3>4. ~IsBefore(s) => AtLeast(age[s], TCNT1 - Latest(s))  BY DEF Refresh
    <3> QED  BY <1>0, <1>1, <2>1, <2>3, <3>1, <3>2, <3>3, <3>4
  <2> QED  BY <1>1, <2>2, <2>3
<1> QED  BY <1>2, <1>3, <1>4

LEMMA ReadTimerRest ==
  ASSUME Types, Program, Times, ReadTimer,
         IF Channel = ServoCount
         THEN handler'.next >= TCNT1 + 4 /\ handler'.next \in REFRESH..LongestRound
         ELSE handler'.next - TCNT1 \in Ticks
  PROVE  Times'
<1> USE DEF Times
<1>0. /\ UNCHANGED <<TCNT1, OCR1A, OCF1A, OCIE1A, Channel, calling, age, high, whole>>
      /\ waited' = 0 /\ At("timing") /\ ~At("none")
      /\ At("setting")' /\ ~At("none")' /\ ~At("timing")'
      /\ Calling({"arm"})' = Calling({"arm"}) /\ First' = First
  BY DEF ReadTimer, At, Calling, First, timer, pins
<1>1. /\ TCNT1 \in Nat /\ waited \in Nat /\ OCR1A \in Nat /\ Channel \in Nat
      /\ waited <= Lag /\ Start(Channel) \in Nat /\ TCNT1 <= Start(Channel) + Lag + 0
      /\ TCNT1 - 0 = TCNT1 /\ 0 <= TCNT1 /\ 0 <= Lag
  <2>1. Channel \in Nat  BY <1>0, Variables DEF Timing
  <2>2. Start(Channel) \in Nat  BY <2>1, RoundTimes
  <2> QED  BY <1>0, <2>1, <2>2, Variables, Numbers DEF Timing
<1>2. Timing'
  <2>1. First => Channel = 1 /\ \A s \in Servos : ~high[s] /\ age[s] = MaxAge
    BY <1>0 DEF Timing
  <2>2. ~First => Shortest <= OCR1A /\ OCR1A <= LongestRound  BY DEF Timing
  <2>3. OCIE1A /\ ~OCF1A /\ (Calling({"arm"}) => TCNT1 < Shortest)  BY <1>0 DEF Timing
  <2>4. \/ OCR1A <= TCNT1
        \/ Channel = 0 /\ OCR1A >= REFRESH
        \/ Calling({"arm"}) /\ ~First
    BY <1>0 DEF Timing
  <2>5. IF RoundOver(Channel)
        THEN handler'.next >= TCNT1 - 0 + 4 /\ handler'.next \in REFRESH..LongestRound
        ELSE handler'.next - (TCNT1 - 0) \in Ticks
    BY <1>1 DEF RoundOver
  <2> QED  BY <1>0, <1>1, <2>1, <2>2, <2>3, <2>4, <2>5 DEF Timing, RoundOver
<1>3. Pulses'  BY <1>0 DEF Pulses, InPulse
<1>4. Refresh'
  <2> SUFFICES ASSUME NEW s \in Servos
               PROVE  /\ ~IsBefore(s) => AtLeast(age[s], TCNT1 - Latest(s))
                      /\ IsBefore(s) =>
                           /\ AtLeast(age[s], Turn(s, Channel))
                           /\ AtLeast(age[s], Turn(s, Channel + 1) - (handler'.next - TCNT1))
    BY <1>0 DEF Refresh, AtLeast, IsBefore
  <2>1. ASSUME IsBefore(s)
        PROVE  AtLeast(age[s], Turn(s, Channel + 1) - (handler'.next - TCNT1))
    <3>1. AtLeast(age[s], Turn(s, Channel))  BY <1>0, <2>1 DEF Refresh
    <3>2. Channel # ServoCount  BY <1>0, <1>1, <2>1, Variables, Numbers DEF IsBefore
    <3>3. handler'.next - TCNT1 \in Ticks  BY <3>2
    <3>4. /\ Turn(s, Channel) \in Int /\ Turn(s, Channel + 1) = Turn(s, Channel) + Shortest
          /\ age[s] \in Nat
      BY <1>1, Turns, Variables
    <3> DEFINE d == handler'.next - TCNT1
    <3>5. d \in Nat /\ d >= Shortest /\ Shortest \in Nat  BY <3>3, Numbers
    <3> HIDE DEF d
    <3>6. Turn(s, Channel + 1) - d <= Turn(s, Channel) /\ Turn(s, Channel + 1) - d \in Int
      BY <3>4, <3>5
    <3>7. AtLeast(age[s], Turn(s, Channel + 1) - d)  BY <3>1, <3>4, <3>6 DEF AtLeast
    <3> QED  BY <3>7 DEF d
  <2> QED  BY <1>0, <2>1 DEF Refresh
<1> QED  BY <1>2, <1>3, <1>4

LEMMA ReadTimerStep ==
  ASSUME Types, Program, Times, ReadTimer
  PROVE  Times'
<1> USE DEF Times
<1>0. /\ UNCHANGED <<TCNT1, OCR1A, OCF1A, OCIE1A, Channel, calling, age, high, whole>>
      /\ waited' = 0 /\ At("timing") /\ ~At("none")
      /\ At("setting")' /\ ~At("none")' /\ ~At("timing")'
      /\ handler'.next = IF Channel \in Servos THEN PulseEnd(ticks[Channel])
                                               ELSE RefreshEnd(TCNT1) % Width
      /\ Calling({"arm"})' = Calling({"arm"}) /\ First' = First
  BY DEF ReadTimer, At, Calling, First, timer, pins
<1>1. /\ TCNT1 \in Nat /\ waited \in Nat /\ OCR1A \in Nat /\ Channel \in Nat
      /\ Channel <= ServoCount /\ waited <= Lag /\ ServoCount \in Nat
      /\ Start(Channel) \in Nat /\ TCNT1 <= Start(Channel) + Lag
      /\ (Channel \in Servos <=> Channel < ServoCount)
  <2>1. Channel \in Nat /\ ServoCount \in Nat /\ Channel <= ServoCount
    BY <1>0, Variables, Numbers DEF Timing
  <2>2. Start(Channel) \in Nat  BY <2>1, RoundTimes
  <2>3. Channel \in Servos <=> Channel < ServoCount  BY <2>1 DEF Servos
  <2> QED  BY <1>0, <2>1, <2>2, <2>3, Variables, Numbers DEF Timing
(* The end of the pulse or of the interval is after the count and in reach. *)
<1>2. CASE Channel < ServoCount
  <2>1. ticks[Channel] \in Ticks /\ ticks[Channel] \in Nat
    <3>1. Channel \in Servos /\ ~Calling({"high"})
      BY <1>0, <1>1, <1>2 DEF Program, Calling
    <3>2. ticks[Channel] \in Ticks  BY <3>1 DEF Program
    <3> QED  BY <3>2, Numbers
  <2>2. TCNT1 + ticks[Channel] < Width
    <3>1. Start(Channel) + Lag + Longest <= LongestRound  BY <1>1, <1>2, ChannelFits
    <3> QED  BY <1>1, <2>1, <3>1, RoundFits, Numbers
  <2>3. handler'.next = TCNT1 + ticks[Channel]
    <3>1. TCNT1 + ticks[Channel] \in Nat /\ Width \in Nat \ {0}  BY <1>1, <2>1, Numbers, RoundFits
    <3> QED  BY <1>0, <1>1, <1>2, <2>2, <3>1, Rest DEF PulseEnd
  <2>4. handler'.next - (TCNT1 - 0) = ticks[Channel]  BY <1>1, <2>1, <2>3
  <2> QED  BY <1>0, <1>1, <1>2, <2>1, <2>3, <2>4, ReadTimerRest
<1>3. CASE Channel = ServoCount
  <2>1. /\ RefreshEnd(TCNT1) \in REFRESH..LongestRound /\ RefreshEnd(TCNT1) >= TCNT1 + 4
        /\ RefreshEnd(TCNT1) \in Nat
    BY <1>1, <1>3, RoundFits, Numbers DEF RefreshEnd
  <2>2. handler'.next = RefreshEnd(TCNT1)
    <3>1. Width \in Nat \ {0} /\ RefreshEnd(TCNT1) < Width  BY <2>1, RoundFits, Numbers
    <3>2. handler'.next = RefreshEnd(TCNT1) % Width  BY <1>0, <1>1, <1>3
    <3> QED  BY <2>1, <3>1, <3>2, Rest
  <2> QED  BY <1>0, <1>1, <1>3, <2>1, <2>2, ReadTimerRest
<1> QED  BY <1>1, <1>2, <1>3

LEMMA StartPulseTimes ==
  ASSUME Types, Times, StartPulse
  PROVE  /\ Channel \in Nat /\ Start(Channel) \in Nat /\ waited \in Nat /\ TCNT1 \in Nat
         /\ handler.next \in Nat /\ waited <= Lag /\ waited <= TCNT1
         /\ TCNT1 <= Start(Channel) + 2 * Lag
         /\ Shortest <= handler.next /\ handler.next <= LongestRound /\ handler.next > TCNT1
         /\ Channel = ServoCount => handler.next >= REFRESH
         /\ Channel # ServoCount =>
              /\ handler.next <= Start(Channel) + Lag + Longest
              /\ handler.next - TCNT1 \in (Shortest - Lag)..Longest
<1> USE DEF Times
<1>1. /\ Channel \in Nat /\ At("setting") /\ ~At("none") /\ waited \in Nat /\ TCNT1 \in Nat
      /\ handler.next \in Nat /\ waited <= Lag /\ waited <= TCNT1 /\ Channel <= ServoCount
      /\ TCNT1 <= Start(Channel) + Lag + waited
  <2>1. At("setting") /\ ~At("none")  BY DEF StartPulse, At
  <2> QED  BY <2>1, Variables DEF Timing
<1>2. Start(Channel) \in Nat  BY <1>1, RoundTimes
<1>3. TCNT1 <= Start(Channel) + 2 * Lag  BY <1>1, <1>2, Numbers
<1>4. CASE Channel = ServoCount
  <2>1. /\ handler.next >= TCNT1 - waited + 4
        /\ REFRESH <= handler.next /\ handler.next <= LongestRound
    BY <1>1, <1>4, Numbers, RoundFits DEF Timing, RoundOver
  <2> QED  BY <1>1, <1>2, <1>3, <1>4, <2>1, Numbers
<1>5. CASE Channel # ServoCount
  <2>1. handler.next - (TCNT1 - waited) \in Ticks  BY <1>1, <1>5 DEF Timing, RoundOver
  <2> DEFINE d == handler.next - (TCNT1 - waited)
  <2>2. d \in Nat /\ Shortest <= d /\ d <= Longest  BY <2>1, Numbers
  <2>3. handler.next = TCNT1 - waited + d  BY <1>1
  <2> HIDE DEF d
  <2>4. Start(Channel) + Lag + Longest <= LongestRound
    <3>1. Channel < ServoCount  BY <1>1, <1>5, Numbers
    <3> QED  BY <1>1, <3>1, ChannelFits
  <2>5. handler.next <= Start(Channel) + Lag + Longest /\ Shortest <= handler.next
    BY <1>1, <1>2, <2>2, <2>3, Numbers
  <2>6. handler.next - TCNT1 = d - waited  BY <1>1, <2>2, <2>3
  <2>7. d - waited \in (Shortest - Lag)..Longest /\ d - waited > 0
    BY <1>1, <2>2, Numbers
  <2> QED  BY <1>1, <1>2, <1>3, <1>5, <2>4, <2>5, <2>6, <2>7, RoundFits, Numbers
<1> QED  BY <1>4, <1>5

(* A rise of the pin is the start of the pulse of Channel.                  *)
LEMMA StartPulsePins ==
  ASSUME Types, StartPulse, NEW s \in Servos
  PROVE  /\ s # Channel => UNCHANGED <<high[s], age[s], whole[s]>>
         /\ high[s] => UNCHANGED <<high[s], age[s], whole[s]>>
         /\ ~high[s] /\ high'[s] => s = Channel /\ age'[s] = 0
         /\ ~high'[s] => UNCHANGED age[s]
<1>1. CASE Active(Channel)
  <2>1. Rise(Channel) /\ Channel \in Servos  BY <1>1 DEF StartPulse, Active
  <2> QED  BY <2>1 DEF Rise, Types, TypeOK
<1>2. CASE ~Active(Channel)  BY <1>2 DEF StartPulse, pins
<1> QED  BY <1>1, <1>2

LEMMA StartPulseStep ==
  ASSUME Types, Times, StartPulse
  PROVE  Times'
<1> USE DEF Times
<1>0. /\ UNCHANGED <<TCNT1, OCF1A, OCIE1A, calling>>
      /\ OCR1A' = handler.next /\ waited' = 0 /\ At("setting") /\ ~At("none")
      /\ At("none")' /\ ~At("setting")' /\ ~At("timing")'
      /\ Channel' = IF Channel = ServoCount THEN -1 ELSE Channel
      /\ Calling({"arm"})' = Calling({"arm"})
  BY DEF StartPulse, At, Calling, NotRunning, RoundOver
<1>1. ~OCF1A /\ OCIE1A /\ ~First'
  BY <1>0, StartPulseTimes, Numbers DEF Timing, First
<1>2. Timing'
  BY <1>0, <1>1, StartPulseTimes, Numbers DEF Timing, First
<1>3. Pulses'
  <2> SUFFICES ASSUME NEW s \in Servos, InPulse(s)'
               PROVE  Channel' = s /\ age'[s] + (OCR1A' - TCNT1') \in (Shortest - Lag)..Longest
    BY <1>0, <1>1 DEF Pulses
  <2>1. ~InPulse(s)  BY <1>0 DEF Pulses
  <2>2. ~high[s]  BY <2>1, StartPulsePins DEF InPulse
  <2>3. s = Channel /\ age'[s] = 0  BY <2>2, StartPulsePins DEF InPulse
  <2>4. Channel # ServoCount  BY <2>3, Variables, Numbers
  <2>5. handler.next - TCNT1 \in (Shortest - Lag)..Longest /\ handler.next - TCNT1 \in Int
    BY <2>4, StartPulseTimes, Numbers
  <2>6. 0 + (handler.next - TCNT1) = handler.next - TCNT1  BY <2>5
  <2> QED  BY <1>0, <2>3, <2>4, <2>5, <2>6
<1>4. Refresh'
  <2> SUFFICES ASSUME NEW s \in Servos
               PROVE  /\ ~IsBefore(s)' => AtLeast(age'[s], TCNT1 - Latest(s))
                      /\ IsBefore(s)' =>
                           AtLeast(age'[s], Turn(s, Channel' + 1) - (handler.next - TCNT1))
    BY <1>0, <1>1 DEF Refresh, AtLeast
  <2>1. /\ s \in Nat /\ s < ServoCount /\ ServoCount \in Nat /\ Channel \in Nat
        /\ (IsBefore(s) <=> Channel <= s)
        /\ (IsBefore(s)' <=> Channel < s)
    BY <1>0, StartPulseTimes, Variables, Numbers DEF IsBefore
  <2>2. CASE s = Channel
    <3>1. TCNT1 - Latest(s) <= 0 /\ TCNT1 - Latest(s) \in Int
      BY <2>1, <2>2, StartPulseTimes, Turns, Numbers
    <3>2. age'[s] \in Nat
      <4>1. age[s] \in Nat  BY Variables
      <4>2. age'[s] = 0 \/ age'[s] = age[s]  BY StartPulsePins DEF Types, TypeOK
      <4> QED  BY <4>1, <4>2
    <3> QED  BY <2>1, <2>2, <3>1, <3>2 DEF AtLeast
  <2>3. CASE s # Channel
    <3>1. age'[s] = age[s]  BY <2>3, StartPulsePins
    <3>2. IsBefore(s)' <=> IsBefore(s)  BY <2>1, <2>3
    <3>3. IsBefore(s) => Channel' = Channel  BY <1>0, <2>1
    <3> QED  BY <1>0, <3>1, <3>2, <3>3 DEF Refresh
  <2> QED  BY <2>2, <2>3
<1> QED  BY <1>2, <1>3, <1>4

(* attach()                                                                 *)
LEMMA ClearCountStep ==
  ASSUME Types, Program, Times, ClearCount
  PROVE  Times'
<1> USE DEF Times
<1>0. /\ UNCHANGED <<OCR1A, OCF1A, OCIE1A, Channel, handler, waited, high, age, whole>>
      /\ TCNT1' = 0 /\ At("none") /\ Calling({"initISR", "arm"}) /\ First' = First
      /\ \A x : At(x)' = At(x)
  BY DEF ClearCount, Does, pins, servos, At, Calling, First
<1>1. ~At("timing") /\ ~At("setting") /\ TCNT1 \in Nat /\ OCR1A \in Nat /\ Channel \in Int
      /\ OCF1A \in BOOLEAN
  BY <1>0, Variables DEF At, Types, TypeOK
<1>2. Calling({"arm"})'  BY DEF ClearCount, Calling, Types
<1>3. Timing'
  <2>1. ~First => 0 < OCR1A  BY <1>1, Numbers DEF Timing
  <2> QED  BY <1>0, <1>1, <1>2, <2>1, Numbers DEF Timing
<1>4. Pulses'
  <2>1. \A s \in Servos : ~whole[s]  BY <1>0 DEF Program, isTimerActive
  <2> QED  BY <1>0, <2>1 DEF Pulses, InPulse
<1>5. Refresh'
  <2> SUFFICES ASSUME NEW s \in Servos
               PROVE  /\ ~IsBefore(s) => AtLeast(age[s], 0 - Latest(s))
                      /\ Channel = -1 /\ OCF1A => AtLeast(age[s], Turn(s, 0))
                      /\ IsBefore(s) =>
                           AtLeast(age[s], Turn(s, Channel + 1) - (IF OCF1A THEN 0 ELSE OCR1A - 0))
    <3>1. \A x : IsBefore(x)' = IsBefore(x)  BY <1>0 DEF IsBefore
    <3> QED  BY <1>0, <1>1, <3>1 DEF Refresh, AtLeast
  <2>1. age[s] \in Nat /\ Latest(s) \in Nat  BY Variables, Turns, Numbers
  <2>2. AtLeast(age[s], 0 - Latest(s))  BY <2>1 DEF AtLeast
  <2>3. ASSUME IsBefore(s)
        PROVE  AtLeast(age[s], Turn(s, Channel + 1) - (IF OCF1A THEN 0 ELSE OCR1A - 0))
    <3>1. Channel + 1 \in Nat  BY <1>1, <2>3 DEF IsBefore
    <3>2. Turn(s, Channel + 1) \in Int  BY <3>1, Turns
    <3>3. AtLeast(age[s], Turn(s, Channel + 1) - (IF OCF1A THEN 0 ELSE OCR1A - TCNT1))
      BY <1>0, <2>3 DEF Refresh
    <3> QED  BY <1>1, <2>1, <3>2, <3>3 DEF AtLeast
  <2> QED  BY <1>0, <2>2, <2>3 DEF Refresh
<1> QED  BY <1>3, <1>4, <1>5

LEMMA ArmStep ==
  ASSUME Types, Program, Times, Arm
  PROVE  Times'
<1> USE DEF Times
<1>0. /\ UNCHANGED <<TCNT1, OCR1A, Channel, handler, high, age, whole>>
      /\ ~OCF1A' /\ OCIE1A' /\ waited' = 0 /\ At("none") /\ First' = First
      /\ Calling({"arm"}) /\ Calling({"initISR", "arm"})
      /\ \A x : At(x)' = At(x)
  BY DEF Arm, Does, pins, servos, At, Calling, First
<1>1. ~At("timing") /\ ~At("setting") /\ TCNT1 \in Nat /\ OCR1A \in Nat /\ Channel \in Int
  BY <1>0, Variables DEF At
<1>2. ~Calling({"arm"})'  BY DEF Arm, Calling, Types
<1>3. ~First => TCNT1 < OCR1A  BY <1>0, <1>1, Numbers DEF Timing
<1>4. Timing'  BY <1>0, <1>1, <1>2, <1>3, Numbers DEF Timing
<1>5. Pulses'
  <2>1. \A s \in Servos : ~whole[s]  BY <1>0 DEF Program, isTimerActive
  <2> QED  BY <1>0, <2>1 DEF Pulses, InPulse
<1>6. Refresh'
  <2> SUFFICES ASSUME NEW s \in Servos
               PROVE  /\ ~IsBefore(s) => AtLeast(age[s], TCNT1 - Latest(s))
                      /\ IsBefore(s) => AtLeast(age[s], Turn(s, Channel + 1) - (OCR1A - TCNT1))
    <3>1. \A x : IsBefore(x)' = IsBefore(x)  BY <1>0 DEF IsBefore
    <3> QED  BY <1>0, <1>1, <3>1 DEF Refresh, AtLeast
  <2>1. CASE First
    <3>1. age[s] = MaxAge  BY <2>1 DEF Timing
    <3> QED  BY <3>1 DEF AtLeast
  <2>2. ASSUME ~First, IsBefore(s)
        PROVE  AtLeast(age[s], Turn(s, Channel + 1) - (OCR1A - TCNT1))
    <3>1. Channel + 1 \in Nat  BY <1>1, <2>2 DEF IsBefore
    <3>2. Turn(s, Channel + 1) \in Int /\ age[s] \in Nat  BY <3>1, Turns, Variables
    <3>3. AtLeast(age[s], Turn(s, Channel + 1) - (IF OCF1A THEN 0 ELSE OCR1A - TCNT1))
      BY <1>0, <2>2 DEF Refresh
    <3> QED  BY <1>1, <1>3, <2>2, <3>2, <3>3 DEF AtLeast
  <2> QED  BY <2>1, <2>2 DEF Refresh
<1> QED  BY <1>4, <1>5, <1>6

LEMMA TimesStep ==
  ASSUME Types, Program, Times, [Next]_vars
  PROVE  Times'
<1> USE DEF Calling
<1>1. CASE Tick  BY <1>1, TickStep
<1>2. CASE EndPulse  BY <1>2, EndPulseStep
<1>3. CASE ReadTimer  BY <1>3, ReadTimerStep
<1>4. CASE StartPulse  BY <1>4, StartPulseStep
<1>5. CASE ClearCount  BY <1>5, ClearCountStep
<1>6. CASE Arm  BY <1>6, ArmStep
<1>7. ASSUME NEW s \in Servos, Attach(s) PROVE Times'
  <2>1. Calling({"arm"})' = Calling({"arm"})  BY <1>7 DEF Attach, Does, NoCall
  <2> QED  BY <1>7, <2>1, QuietStep DEF Attach, pins
<1>8. ASSUME NEW s \in Servos, Detach(s) PROVE Times'
  <2>1. \A x \in Servos : whole'[x] => whole[x]  BY <1>8 DEF Detach, Types
  <2> QED  BY <1>8, <2>1, QuietStep DEF Detach
<1>9. ASSUME NEW s \in Servos, Write(s) PROVE Times'
  <2>1. Calling({"arm"})' = Calling({"arm"})  BY <1>9 DEF Write, Does
  <2> QED  BY <1>9, <2>1, QuietStep DEF Write, pins
<1>10. CASE Activate
  <2>1. Calling({"arm"})' = Calling({"arm"})
    BY <1>10, NoCallDoesNothing DEF Activate, Does, Finish
  <2> QED  BY <1>10, <2>1, QuietStep DEF Activate, pins
<1>11. CASE WriteLow
  <2>1. Calling({"arm"})' = Calling({"arm"})  BY <1>11 DEF WriteLow, Does, Types
  <2> QED  BY <1>11, <2>1, QuietStep DEF WriteLow, pins
<1>12. CASE WriteHigh
  <2>1. Calling({"arm"})' = Calling({"arm"})
    BY <1>12, NoCallDoesNothing DEF WriteHigh, Does, Finish
  <2> QED  BY <1>12, <2>1, QuietStep DEF WriteHigh, pins
<1>13. CASE UNCHANGED vars
  BY <1>13, QuietStep DEF vars, pins
<1> QED
  BY <1>1, <1>2, <1>3, <1>4, <1>5, <1>6, <1>7, <1>8, <1>9, <1>10, <1>11, <1>12, <1>13 DEF Next

-----------------------------------------------------------------------------
(* The invariant is inductive.                                              *)

LEMMA ServosRun == Spec => []ServoInv
<1>1. Init => ServoInv  BY TypesInit, ProgramInit, TimesInit DEF ServoInv
<1>2. ServoInv /\ [Next]_vars => ServoInv'
  BY TypesStep, ProgramStep, TimesStep DEF ServoInv, Times
<1> QED  BY <1>1, <1>2, PTL DEF Spec

(* No register, table or pin of the servo library leaves its range, and the *)
(* channel that the handler counts up is always a servo, the interval or    *)
(* the one past the last servo (Servo.cpp lines 52-74).                     *)
THEOREM ServoTypes == Spec => []TypeOK
<1>1. ServoInv => TypeOK  BY DEF ServoInv, Types
<1> QED  BY <1>1, ServosRun, PTL

(* A pulse that nothing detaches ends in time, and no two are at once: the  *)
(* match at its end is neither lost nor set behind the timer.               *)
THEOREM PulsesEnd == Spec => []PulsesAreNotTooLong
<1>1. ASSUME ServoInv PROVE PulsesAreNotTooLong
  <2> SUFFICES ASSUME NEW s \in Servos, InPulse(s)
               PROVE  age[s] <= Longest + Late /\ Channel = s
    BY DEF PulsesAreNotTooLong
  <2> USE <1>1 DEF ServoInv, Times
  <2>1. /\ At("none") /\ Channel = s /\ ~First
        /\ age[s] + (IF OCF1A THEN -waited ELSE OCR1A - TCNT1) \in (Shortest - Lag)..Longest
    BY DEF Pulses
  <2>2. OCF1A => waited <= Late  BY <2>1 DEF Timing
  <2>3. ~OCF1A => TCNT1 < OCR1A  BY <2>1 DEF Timing
  <2>4. age[s] \in Nat /\ TCNT1 \in Nat /\ OCR1A \in Nat /\ waited \in Nat  BY Variables
  <2> QED  BY <2>1, <2>2, <2>3, <2>4, Numbers
<1> QED  BY <1>1, ServosRun, PTL

(* The compare register is never set to a count that the timer has passed,  *)
(* whatever the handler's delays: the next match is a round away at most.   *)
THEOREM MatchesComeInTime == Spec => []NoMatchIsMissed
<1>1. ASSUME ServoInv PROVE NoMatchIsMissed
  <2> SUFFICES ASSUME OCIE1A, At("none"), ~OCF1A, OCR1A # 0
               PROVE  (OCR1A - TCNT1) % Width <= LongestRound
    BY DEF NoMatchIsMissed, At
  <2> USE <1>1 DEF ServoInv, Times
  <2>1. TCNT1 < OCR1A /\ OCR1A <= LongestRound  BY DEF Timing, First
  <2>2. TCNT1 \in Nat /\ OCR1A \in Nat  BY Variables
  <2>3. /\ OCR1A - TCNT1 \in Nat /\ OCR1A - TCNT1 < Width /\ Width \in Nat \ {0}
        /\ OCR1A - TCNT1 <= LongestRound
    BY <2>1, <2>2, RoundFits, Numbers
  <2> QED  BY <2>3, Rest
<1> QED  BY <1>1, ServosRun, PTL

(* A pulse that nothing detaches is not cut short by more than the delay    *)
(* between two steps of the handler.                                        *)
THEOREM PulsesLast == Spec => PulsesAreNotTooShort
<1> DEFINE Step == \A s \in Servos : InPulse(s) /\ ~high'[s] => age[s] >= Shortest - Lag
<1>1. ServoInv /\ [Next]_vars => [Step]_vars
  <2> SUFFICES ASSUME ServoInv, Next, NEW s \in Servos, InPulse(s), ~high'[s]
               PROVE  age[s] >= Shortest - Lag
    OBVIOUS
  <2> USE DEF ServoInv, Times
  <2>1. high[s] /\ At("none")  BY DEF InPulse, Pulses
  <2>2. EndPulse
    <3>1. ~StartPulse  BY <2>1, StartPulsePins
    <3> QED
      BY <2>1, <3>1 DEF Next, Tick, ReadTimer, Attach, Detach, Write, ClearCount, Arm, Activate,
                        WriteLow, WriteHigh, pins
  <2>3. OCF1A  BY <2>2 DEF EndPulse
  <2>4. age[s] + -waited \in (Shortest - Lag)..Longest  BY <2>3 DEF Pulses
  <2>5. age[s] \in Nat /\ waited \in Nat  BY Variables
  <2> QED  BY <2>4, <2>5, Numbers
<1>2. PulsesAreNotTooShort <=> [][Step]_vars  BY DEF PulsesAreNotTooShort
<1> HIDE DEF Step
<1> QED  BY <1>1, <1>2, ServosRun, PTL DEF Spec

(* A servo is not pulsed again before the refresh interval is over, but for *)
(* what the pulses before its own may have become shorter.                  *)
THEOREM ServosRest == Spec => RefreshedInTime
<1> DEFINE Step == \A s \in Servos : ~high[s] /\ high'[s] => age[s] >= REFRESH - Jitter(s)
<1>1. ServoInv /\ [Next]_vars => [Step]_vars
  <2> SUFFICES ASSUME ServoInv, Next, NEW s \in Servos, ~high[s], high'[s]
               PROVE  age[s] >= REFRESH - Jitter(s)
    OBVIOUS
  <2> USE DEF ServoInv, Times
  <2>1. StartPulse
    <3>1. ~EndPulse  BY DEF EndPulse, Lowered, Active, Types, TypeOK
    <3> QED
      BY <3>1 DEF Next, Tick, ReadTimer, Attach, Detach, Write, ClearCount, Arm, Activate,
                  WriteLow, WriteHigh, pins
  <2>2. s = Channel  BY <2>1, StartPulsePins
  <2>3. At("setting") /\ ~At("none")  BY <2>1 DEF StartPulse, At
  <2>4. s \in Nat  BY Variables
  <2>5. IsBefore(s)  BY <2>2, <2>3, <2>4 DEF IsBefore
  <2>6. AtLeast(age[s], Turn(s, s))  BY <2>2, <2>3, <2>5 DEF Refresh
  <2>7. Turn(s, s) = REFRESH - Jitter(s) /\ Jitter(s) \in Nat  BY <2>4, Turns
  <2> QED  BY <2>6, <2>7, Numbers, Variables DEF AtLeast, MaxAge
<1>2. RefreshedInTime <=> [][Step]_vars  BY DEF RefreshedInTime
<1> HIDE DEF Step
<1> QED  BY <1>1, <1>2, ServosRun, PTL DEF Spec

=============================================================================
