------------------------------- MODULE Servo -------------------------------
(***************************************************************************)
(* The servo library (arduinowire/Servo.cpp) on the one 16-bit timer of    *)
(* the ATmega328p: the handler of its compare match, which ends the pulse  *)
(* of one servo and starts the next one's, and attach(), detach() and      *)
(* writeMicroseconds(), which the program calls meanwhile.                 *)
(*                                                                         *)
(* Time passes between the steps of the handler and of the program.  Every *)
(* servo has a pin of its own, so that a servo stands for its pin too.     *)
(***************************************************************************)
EXTENDS Integers

CONSTANTS
  ServoCount,     \* servos constructed: 0..ServoCount-1
  Ticks,          \* widths of a pulse that are written, in ticks of the timer
  DEFAULT,        \* usToTicks(DEFAULT_PULSE_WIDTH)
  REFRESH,        \* usToTicks(REFRESH_INTERVAL)
  Width,          \* of TCNT1 and OCR1A (2^16)
  Half,           \* one byte of servo_t.ticks (2^8)
  Late,           \* at most so many ticks from a match to its handler
  Lag             \* and from one step of the handler to the next

Shortest == CHOOSE t \in Ticks : \A u \in Ticks : t <= u
Longest == CHOOSE t \in Ticks : \A u \in Ticks : t >= u
LongestRound ==
  LET pulses == ServoCount * (Longest + Late + Lag) + Lag + 4
  IN  IF pulses < REFRESH THEN REFRESH ELSE pulses

(* There are a shortest and a longest pulse.  The handler takes less time   *)
(* than a pulse and the refresh interval, and a round ends before the timer *)
(* overflows.                                                               *)
ASSUME ServoAssumption ==
  /\ ServoCount \in Nat \ {0} /\ Ticks \subseteq Nat /\ DEFAULT \in Ticks /\ Half \in Nat \ {0}
  /\ {REFRESH, Width, Late, Lag} \subseteq Nat
  /\ {Shortest, Longest} \subseteq Ticks /\ Ticks \subseteq Shortest..Longest
  /\ Lag < 4 /\ Late + Lag < Shortest /\ Longest + Late < REFRESH
  /\ 2 * Lag < REFRESH /\ 4 <= REFRESH /\ LongestRound + Late < Width

VARIABLES
  TCNT1, OCR1A, OCF1A, OCIE1A,   \* count, compare value, match flag, its enable bit
  enabled,                       \* the I bit of SREG
  Channel,                       \* the servo being pulsed, -1 in the refresh interval
  ticks, isActive,               \* of each servo
  handler,                       \* the running call of handle_interrupts
  calling,                       \* the running call of the program
  waited,                        \* ticks since the match or since the last step
  high, age,                     \* is the pin HIGH, ticks since it last went HIGH
  whole                          \* history: not detached since then

timer == <<TCNT1, OCR1A, OCF1A, OCIE1A>>
servos == <<ticks, isActive>>
pins == <<high, age, whole>>
vars == <<timer, enabled, Channel, servos, handler, calling, waited, pins>>

Servos == 0..ServoCount - 1
MaxAge == REFRESH                  \* bound: age counts no further
NoCall == [does |-> "nothing", servo |-> 0, value |-> 0, oldSREG |-> FALSE]
NotRunning == [at |-> "none", next |-> 0]

Init ==
  /\ TCNT1 = 0 /\ OCR1A = 0 /\ OCF1A = FALSE /\ OCIE1A = FALSE /\ enabled = TRUE
  /\ Channel = 0
  /\ ticks = [s \in Servos |-> DEFAULT] /\ isActive = [s \in Servos |-> FALSE]
  /\ handler = NotRunning /\ calling = NoCall /\ waited = 0
  /\ high = [s \in Servos |-> FALSE] /\ age = [s \in Servos |-> MaxAge]
  /\ whole = [s \in Servos |-> FALSE]

(* The timer counts; it matters from the first attach() on.  Handlers of    *)
(* other interrupts hold initISR up for less than a pulse.                  *)
Tick ==
  /\ OCIE1A
  /\ calling.does = "arm" => TCNT1 < Shortest - 1
  /\ handler.at # "none" => waited < Lag
  /\ handler.at = "none" /\ OCF1A => waited < Late
  /\ TCNT1' = (TCNT1 + 1) % Width
  /\ OCF1A' = (OCF1A \/ TCNT1' = OCR1A)
  /\ waited' = IF handler.at # "none" \/ OCF1A THEN waited + 1 ELSE 0
  /\ age' = [s \in Servos |-> IF age[s] < MaxAge THEN age[s] + 1 ELSE MaxAge]
  /\ UNCHANGED <<OCR1A, OCIE1A, enabled, Channel, servos, handler, calling, high, whole>>

-----------------------------------------------------------------------------
(* handle_interrupts                                                        *)

Active(c) == c \in Servos /\ isActive[c]

(* Mutant: Channel was incremented before. *)
LoweredNext(c) == IF Active(c + 1) THEN [high EXCEPT ![c + 1] = FALSE] ELSE high
Lowered(c) == IF Active(c) THEN [high EXCEPT ![c] = FALSE] ELSE high

(* TIMER1_COMPA: the refresh interval ends, or the pulse of Channel does.   *)
EndPulse ==
  /\ enabled /\ OCF1A /\ OCIE1A
  /\ OCF1A' = FALSE /\ enabled' = FALSE
  /\ TCNT1' = IF Channel < 0 THEN 0 ELSE TCNT1
  /\ high' = Lowered(Channel)
  /\ Channel' = Channel + 1
  /\ handler' = [NotRunning EXCEPT !.at = "timing"] /\ waited' = 0
  /\ UNCHANGED <<OCR1A, OCIE1A, servos, calling, age, whole>>

(* Mutant: no ticks are allowed for. *)
RefreshEndTight(now) == IF now < REFRESH THEN REFRESH ELSE now

(* Mutant: without the refresh interval. *)
RefreshEndAtOnce(now) == now + 4

(* "allow a few ticks to ensure the next OCR1A not missed" *)
RefreshEnd(now) == IF now + 4 < REFRESH THEN REFRESH ELSE now + 4

(* Mutant: the delay of digitalWrite is compensated a second time. *)
PulseEndTrimmed(t) == (TCNT1 + t - 1) % Width
PulseEnd(t) == (TCNT1 + t) % Width

ReadTimer ==
  /\ handler.at = "timing"
  /\ handler' = [at |-> "setting",
                 next |-> IF Channel \in Servos THEN PulseEnd(ticks[Channel])
                                                ELSE RefreshEnd(TCNT1) % Width]
  /\ waited' = 0
  /\ UNCHANGED <<timer, enabled, Channel, servos, calling, pins>>

(* Mutant: one more channel before the refresh interval. *)
RoundOverLate(c) == c = ServoCount + 1
RoundOver(c) == c = ServoCount

Rise(c) == /\ high' = [high EXCEPT ![c] = TRUE]
           /\ age' = [age EXCEPT ![c] = IF high[c] THEN @ ELSE 0]
           /\ whole' = [whole EXCEPT ![c] = ~high[c] \/ @]

StartPulse ==
  /\ handler.at = "setting"
  /\ OCR1A' = handler.next
  /\ Channel' = IF RoundOver(Channel) THEN -1 ELSE Channel
  /\ IF Active(Channel) THEN Rise(Channel) ELSE UNCHANGED pins
  /\ handler' = NotRunning /\ enabled' = TRUE /\ waited' = 0
  /\ UNCHANGED <<TCNT1, OCF1A, OCIE1A, servos, calling>>

-----------------------------------------------------------------------------
(* The program, which runs when no handler does.                            *)

Does(what) == handler.at = "none" /\ calling.does = what
Finish == calling' = NoCall

isTimerActive == \E s \in Servos : isActive[s]

(* attach(): initISR if no servo is active, then isActive, "after the check *)
(* for isTimerActive".                                                      *)
Attach(s) ==
  /\ Does("nothing")
  /\ calling' = [NoCall EXCEPT !.does = IF isTimerActive THEN "activate" ELSE "initISR",
                               !.servo = s]
  /\ UNCHANGED <<timer, enabled, Channel, servos, handler, waited, pins>>

(* TCNT1 = 0; TIFR1 |= _BV(OCF1A); TIMSK1 |= _BV(OCIE1A);                   *)
ClearCount ==
  /\ Does("initISR")
  /\ TCNT1' = 0
  /\ calling' = [calling EXCEPT !.does = "arm"]
  /\ UNCHANGED <<OCR1A, OCF1A, OCIE1A, enabled, Channel, servos, handler, waited, pins>>

Arm ==
  /\ Does("arm")
  /\ OCF1A' = FALSE /\ OCIE1A' = TRUE
  /\ calling' = [calling EXCEPT !.does = "activate"] /\ waited' = 0
  /\ UNCHANGED <<TCNT1, OCR1A, enabled, Channel, servos, handler, pins>>

Activate ==
  /\ Does("activate")
  /\ isActive' = [isActive EXCEPT ![calling.servo] = TRUE]
  /\ Finish
  /\ UNCHANGED <<timer, enabled, Channel, ticks, handler, waited, pins>>

Detach(s) ==
  /\ Does("nothing") /\ isActive[s]
  /\ isActive' = [isActive EXCEPT ![s] = FALSE]
  /\ whole' = [whole EXCEPT ![s] = FALSE]
  /\ UNCHANGED <<timer, enabled, Channel, ticks, handler, calling, waited, high, age>>

(* writeMicroseconds(): cli(), the two bytes of ticks, SREG = oldSREG       *)

Write(s) == \E t \in Ticks :
  /\ Does("nothing") /\ t # ticks[s]
  /\ enabled' = FALSE
  /\ calling' = [does |-> "low", servo |-> s, value |-> t, oldSREG |-> enabled]
  /\ UNCHANGED <<timer, Channel, servos, handler, waited, pins>>

WriteLow ==
  /\ Does("low")
  /\ ticks' = [ticks EXCEPT ![calling.servo] = (@ \div Half) * Half + (calling.value % Half)]
  /\ calling' = [calling EXCEPT !.does = "high"]
  /\ UNCHANGED <<timer, enabled, Channel, isActive, handler, waited, pins>>

WriteHigh ==
  /\ Does("high")
  /\ ticks' = [ticks EXCEPT ![calling.servo] = (calling.value \div Half) * Half + (@ % Half)]
  /\ enabled' = calling.oldSREG
  /\ Finish
  /\ UNCHANGED <<timer, Channel, isActive, handler, waited, pins>>

Next ==
  \/ Tick
  \/ EndPulse \/ ReadTimer \/ StartPulse
  \/ \E s \in Servos : Attach(s) \/ Detach(s) \/ Write(s)
  \/ ClearCount \/ Arm \/ Activate \/ WriteLow \/ WriteHigh

Spec == Init /\ [][Next]_vars

-----------------------------------------------------------------------------
TypeOK ==
  /\ TCNT1 \in 0..Width - 1 /\ OCR1A \in 0..Width - 1
  /\ OCF1A \in BOOLEAN /\ OCIE1A \in BOOLEAN /\ enabled \in BOOLEAN
  /\ Channel \in -1..ServoCount
  /\ handler.at = "none" => Channel < ServoCount
  /\ ticks \in [Servos -> Nat] /\ isActive \in [Servos -> BOOLEAN]
  /\ high \in [Servos -> BOOLEAN] /\ age \in [Servos -> 0..MaxAge]

(* The pin of a servo that is not detached during its pulse is HIGH for the *)
(* ticks of some call of writeMicroseconds(), give or take the delays of    *)
(* the handler, and only one such pin is at a time: no write is half seen   *)
(* and no match is lost in a pulse (lines 52-66, 275-294).                  *)
InPulse(s) == high[s] /\ whole[s]
PulsesAreNotTooLong ==
  \A s \in Servos : InPulse(s) => age[s] <= Longest + Late /\ Channel = s
PulsesAreNotTooShort ==
  [][\A s \in Servos : InPulse(s) /\ ~high'[s] => age[s] >= Shortest - Lag]_vars

(* The next match is never so far ahead that it had been missed: no pulse   *)
(* and no refresh interval waits for the timer to overflow (lines 62-74).   *)
(* Before the first match OCR1A is 0.                                       *)
NoMatchIsMissed ==
  OCIE1A /\ handler.at = "none" /\ ~OCF1A /\ OCR1A # 0 =>
    (OCR1A - TCNT1) % Width <= LongestRound

(* REFRESH_INTERVAL is the "minumim time to refresh servos": from a pulse   *)
(* of a servo to its next one no less time passes, but for what the pulses  *)
(* before it in the round have become shorter (lines 61-73).                *)
Jitter(s) == s * (Longest - Shortest + Late + Lag) + 2 * Lag
RefreshedInTime ==
  [][\A s \in Servos : ~high[s] /\ high'[s] => age[s] >= REFRESH - Jitter(s)]_vars
=============================================================================
