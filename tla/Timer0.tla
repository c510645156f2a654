------------------------------- MODULE Timer0 -------------------------------
(***************************************************************************)
(* The clock of the board (arduinowire/wiring.c): the hardware timer 0,    *)
(* the handler of its overflow, and millis(), micros() and delay().  The   *)
(* program calls them, and so does the handler of a pin interrupt: irISR   *)
(* of IRReadOnlyRemote.cpp begins with micros().                           *)
(*                                                                         *)
(* An unsigned long is read in two parts, as the 8-bit processor does, so  *)
(* that it matters that interrupts are off meanwhile.                      *)
(***************************************************************************)
EXTENDS Integers

CONSTANTS
  Period,      \* ticks of timer 0 between overflows (256)
  TickMicros,  \* microseconds in a tick: 64 / clockCyclesPerMicrosecond() (4)
  Ms,          \* microseconds in a millisecond (1000)
  FractUnit,   \* the fraction is kept in units of this many microseconds (8)
  Half,        \* one part of an unsigned long (2^16)
  MaxDelay,    \* bound: the argument of delay()
  MaxTime      \* bound: ticks since the start

MICROSECONDS_PER_TIMER0_OVERFLOW == Period * TickMicros
MILLIS_INC == MICROSECONDS_PER_TIMER0_OVERFLOW \div Ms
FRACT_INC == (MICROSECONDS_PER_TIMER0_OVERFLOW % Ms) \div FractUnit
FRACT_MAX == Ms \div FractUnit
Width == Half * Half                       \* an unsigned long is mod Width

(* "for the clock speeds we care about this doesn't lose precision" *)
ASSUME TimerAssumption ==
  /\ {Period, TickMicros, Ms, FractUnit, Half} \subseteq Nat \ {0}
  /\ Period > 2 /\ MaxDelay \in Nat /\ MaxTime \in Nat
  /\ Ms % FractUnit = 0 /\ MICROSECONDS_PER_TIMER0_OVERFLOW % FractUnit = 0

VARIABLES
  now,                    \* ticks since the timer was started: the true time
  TOV0,                   \* its overflow flag
  enabled,                \* the I bit of SREG
  timer0_overflow_count, timer0_millis, timer0_fract,
  call,                   \* the call of micros() or millis() of each context
  ticked,                 \* the timer moved on after the last instruction
  inHandler,              \* the handler of a pin interrupt is running
  delayed                 \* the call of delay() of the program

hardware == <<now, TOV0, ticked>>
counters == <<timer0_overflow_count, timer0_millis, timer0_fract>>
vars == <<hardware, enabled, counters, call, inHandler, delayed>>

Context == {"program", "handler"}
Function == {"micros", "millis"}
Step == {"none", "cli", "low", "high", "TCNT0", "TIFR0", "restore", "value"}

(* m, t and oldSREG are the local variables of micros() and millis(), low   *)
(* is the part of m read so far; began is when the call was made.           *)
Call == [step : Step, of : Function, oldSREG : BOOLEAN, low : Nat, m : Nat,
         t : Nat, began : Nat]
NoCall == [step |-> "none", of |-> "micros", oldSREG |-> FALSE, low |-> 0,
           m |-> 0, t |-> 0, began |-> 0]

(* For "waits" ms and start are those of delay(); asked and began are its   *)
(* argument and when it was called.                                         *)
Delay == [does : {"nothing", "starts", "waits"}, ms : Nat, start : Nat,
          asked : Nat, began : Nat]
NoDelay == [does |-> "nothing", ms |-> 0, start |-> 0, asked |-> 0, began |-> 0]

TCNT0 == now % Period

Init ==
  /\ now = 0 /\ TOV0 = FALSE /\ ticked = FALSE /\ enabled = TRUE
  /\ timer0_overflow_count = 0 /\ timer0_millis = 0 /\ timer0_fract = 0
  /\ call = [c \in Context |-> NoCall]
  /\ inHandler = FALSE /\ delayed = NoDelay

-----------------------------------------------------------------------------
(* The timer counts by itself.  Two assumptions on the speed of the code:   *)
(* it takes less than a tick from an instruction of micros() to the next    *)
(* (64 cycles), and interrupts are never off for so long that a pending     *)
(* overflow would wait until the count is at its end again (about 1 ms).    *)
InCall == \E c \in Context : call[c].step # "none"
Tick ==
  /\ now < MaxTime
  /\ InCall => ~ticked
  /\ TOV0 => (now + 1) % Period < Period - 1
  /\ now' = now + 1
  /\ ticked' = InCall
  /\ TOV0' = (TOV0 \/ TCNT0 = Period - 1)
  /\ UNCHANGED <<enabled, counters, call, inHandler, delayed>>

(* Mutant: the fraction starts again from 0. *)
CarriedAway(f) == IF f >= FRACT_MAX THEN <<1, 0>> ELSE <<0, f>>

(* Mutant: the fraction carries over only beyond its maximum. *)
CarriedLate(f) == IF f > FRACT_MAX THEN <<1, f - FRACT_MAX>> ELSE <<0, f>>

(* What the fraction carries over to the milliseconds, and what is left.    *)
Carried(f) == IF f >= FRACT_MAX THEN <<1, f - FRACT_MAX>> ELSE <<0, f>>

(* ISR(TIMER0_OVF_vect), with interrupts off from beginning to end *)
TIMER0_OVF ==
  LET c == Carried(timer0_fract + FRACT_INC)
  IN  /\ enabled /\ TOV0
      /\ TOV0' = FALSE
      /\ timer0_millis' = (timer0_millis + MILLIS_INC + c[1]) % Width
      /\ timer0_fract' = c[2]
      /\ timer0_overflow_count' = (timer0_overflow_count + 1) % Width
      /\ UNCHANGED <<now, ticked, enabled, call, inHandler, delayed>>

-----------------------------------------------------------------------------
Running(c) == inHandler = (c = "handler")
At(c, step) == Running(c) /\ call[c].step = step
Read(c) == IF call[c].of = "micros" THEN timer0_overflow_count ELSE timer0_millis

Go(c, new) == /\ call' = [call EXCEPT ![c] = new]
              /\ ticked' = FALSE
Calling(c, f) == Go(c, [NoCall EXCEPT !.step = "cli", !.of = f, !.began = now])

(* Mutant: interrupts stay on. *)
CliForgotten == enabled' = enabled
Cli == enabled' = FALSE

SaveAndCli(c) ==
  /\ At(c, "cli") /\ Cli
  /\ Go(c, [call[c] EXCEPT !.step = "low", !.oldSREG = enabled])
  /\ UNCHANGED <<now, TOV0, counters, inHandler, delayed>>

ReadLow(c) ==
  /\ At(c, "low")
  /\ Go(c, [call[c] EXCEPT !.step = "high", !.low = Read(c) % Half])
  /\ UNCHANGED <<now, TOV0, enabled, counters, inHandler, delayed>>

ReadHigh(c) ==
  /\ At(c, "high")
  /\ Go(c, [call[c] EXCEPT !.m = (Read(c) \div Half) * Half + call[c].low, !.low = 0,
                           !.step = IF call[c].of = "micros" THEN "TCNT0" ELSE "restore"])
  /\ UNCHANGED <<now, TOV0, enabled, counters, inHandler, delayed>>

ReadTCNT0(c) ==
  /\ At(c, "TCNT0")
  /\ Go(c, [call[c] EXCEPT !.step = "TIFR0", !.t = TCNT0])
  /\ UNCHANGED <<now, TOV0, enabled, counters, inHandler, delayed>>

(* Mutant: a pending overflow counts whatever t is. *)
PendingOverflowAlways(t) == TOV0

(* An overflow that is pending came before t was read, unless t is 255.     *)
PendingOverflow(t) == TOV0 /\ t < Period - 1

ReadTIFR0(c) ==
  /\ At(c, "TIFR0")
  /\ Go(c, [call[c] EXCEPT !.step = "restore",
              !.m = IF PendingOverflow(call[c].t) THEN (@ + 1) % Width ELSE @])
  /\ UNCHANGED <<now, TOV0, enabled, counters, inHandler, delayed>>

(* SREG = oldSREG; and m becomes what the call returns.                     *)
Returned(c) == IF call[c].of = "millis" THEN call[c].m
               ELSE ((call[c].m * Period + call[c].t) * TickMicros) % Width

Restore(c) ==
  /\ At(c, "restore")
  /\ enabled' = call[c].oldSREG
  /\ Go(c, [NoCall EXCEPT !.step = "value", !.of = call[c].of,
                          !.m = Returned(c), !.began = call[c].began])
  /\ UNCHANGED <<now, TOV0, counters, inHandler, delayed>>

Value(c) == call[c].m

Instruction(c) == \/ SaveAndCli(c) \/ ReadLow(c) \/ ReadHigh(c) \/ ReadTCNT0(c)
                \/ ReadTIFR0(c) \/ Restore(c)

-----------------------------------------------------------------------------
(* A pin interrupt comes, and its handler calls micros() first of all.      *)
PinInterrupt ==
  /\ enabled /\ ~inHandler
  /\ inHandler' = TRUE /\ enabled' = FALSE
  /\ Calling("handler", "micros")
  /\ UNCHANGED <<now, TOV0, counters, delayed>>

HandlerReturns ==
  /\ At("handler", "value")
  /\ inHandler' = FALSE /\ enabled' = TRUE
  /\ Go("handler", NoCall)
  /\ UNCHANGED <<now, TOV0, counters, delayed>>

(* The program calls millis() or micros(), and gets the value. *)
ProgramCalls == \E f \in Function :
  /\ At("program", "none") /\ delayed.does = "nothing"
  /\ Calling("program", f)
  /\ UNCHANGED <<now, TOV0, enabled, counters, inHandler, delayed>>

ProgramGets ==
  /\ At("program", "value") /\ delayed.does = "nothing"
  /\ Go("program", NoCall)
  /\ UNCHANGED <<now, TOV0, enabled, counters, inHandler, delayed>>

(* delay(ms): start = micros(); ... *)
DelayCalled == \E ms \in 0..MaxDelay :
  /\ At("program", "none") /\ delayed.does = "nothing"
  /\ delayed' = [does |-> "starts", ms |-> ms, start |-> 0, asked |-> ms, began |-> now]
  /\ Calling("program", "micros")
  /\ UNCHANGED <<now, TOV0, enabled, counters, inHandler>>

DelayStarts ==
  /\ At("program", "value") /\ delayed.does = "starts"
  /\ delayed' = [delayed EXCEPT !.does = "waits", !.start = Value("program")]
  /\ Go("program", NoCall)
  /\ UNCHANGED <<now, TOV0, enabled, counters, inHandler>>

(* ... while (ms > 0) { yield(); while (ms > 0 && micros() - start >= 1000) *)
DelayPolls ==
  /\ At("program", "none") /\ delayed.does = "waits" /\ delayed.ms > 0
  /\ Calling("program", "micros")
  /\ UNCHANGED <<now, TOV0, enabled, counters, inHandler, delayed>>

(* Mutant: start stays the time of the first poll. *)
StartKept(start) == start

(* start += 1000 *)
Started(start) == (start + Ms) % Width

DelayCounts ==
  /\ At("program", "value") /\ delayed.does = "waits"
  /\ delayed' = IF (Value("program") - delayed.start) % Width >= Ms
                THEN [delayed EXCEPT !.ms = @ - 1, !.start = Started(@)]
                ELSE delayed
  /\ Go("program", NoCall)
  /\ UNCHANGED <<now, TOV0, enabled, counters, inHandler>>

DelayReturns ==
  /\ At("program", "none") /\ delayed.does = "waits" /\ delayed.ms = 0
  /\ delayed' = NoDelay
  /\ UNCHANGED <<hardware, enabled, counters, call, inHandler>>

Next ==
  \/ Tick \/ TIMER0_OVF
  \/ PinInterrupt \/ HandlerReturns
  \/ \E c \in Context : Instruction(c)
  \/ ProgramCalls \/ ProgramGets
  \/ DelayCalled \/ DelayStarts \/ DelayPolls \/ DelayCounts \/ DelayReturns

Spec == Init /\ [][Next]_vars

-----------------------------------------------------------------------------
TypeOK ==
  /\ now \in Nat /\ TOV0 \in BOOLEAN /\ ticked \in BOOLEAN /\ enabled \in BOOLEAN
  /\ timer0_overflow_count \in 0..Width - 1 /\ timer0_millis \in 0..Width - 1
  /\ timer0_fract \in 0..FRACT_MAX - 1
  /\ call \in [Context -> Call] /\ inHandler \in BOOLEAN /\ delayed \in Delay

(* The overflows handled so far, and the milliseconds they are worth.       *)
Handled == now \div Period - (IF TOV0 THEN 1 ELSE 0)
MillisOf(n) == ((n * MICROSECONDS_PER_TIMER0_OVERFLOW) \div Ms) % Width

(* timer0_millis is the time of the last overflow in whole milliseconds:    *)
(* adding MILLIS_INC and carrying the fraction never drifts (wiring.c       *)
(* 53-65), and no overflow is lost.                                         *)
MillisNeverDrifts ==
  /\ timer0_overflow_count = Handled % Width
  /\ timer0_millis = MillisOf(Handled)

(* micros() and millis() return a value that was true at some moment of the *)
(* call, also when the overflow comes during it, or was already pending     *)
(* because a handler made the call with interrupts off (wiring.c 68-107).   *)
TrueDuring(c) ==
  IF call[c].of = "micros"
  THEN \E x \in call[c].began..now : Value(c) = (x * TickMicros) % Width
  ELSE \E n \in call[c].began \div Period - 1..now \div Period :
         n >= 0 /\ Value(c) = MillisOf(n)
ValuesWereTrue == \A c \in Context : call[c].step = "value" => TrueDuring(c)

(* However the polls fall, and when micros() goes round, delay() has really *)
(* waited for every millisecond it has counted (wiring.c 109-120).          *)
DelayWaits ==
  delayed.does = "waits" =>
    (now - delayed.began) * TickMicros >= (delayed.asked - delayed.ms) * Ms
=============================================================================
