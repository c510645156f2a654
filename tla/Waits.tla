-------------------------------- MODULE Waits --------------------------------
(***************************************************************************)
(* The functions of the board's library that wait: delay, delay2 and       *)
(* delayMicroseconds of arduinowire/wiring.c, pulseInLong of               *)
(* wiring_pulse.c.  micros() is the true time here, which Timer0.tla       *)
(* shows, and goes round.                                                  *)
(***************************************************************************)
EXTENDS Integers

CONSTANTS
  Wrap,          \* micros() goes round after so long, 2^32
  Ms,            \* 1000, the microseconds of a millisecond
  Lag,           \* the longest time from one step of the program to the next
  MinLevel,      \* the shortest time the pin stays at a level
  Delays,        \* the milliseconds that delay() is called with
  Timeouts,      \* the timeouts that pulseInLong() is called with
  IntSize,       \* 2^16, of the unsigned int that delayMicroseconds() counts down
  MaxAge         \* the bound of the times that the properties need

(* Between two reads of the pin lie two steps.  No counter goes round       *)
(* between two looks at it: from the last look at the time of one loop to   *)
(* that of the last loop are five steps.                                    *)
ASSUME WaitsAssumption ==
  /\ {Wrap, Ms, Lag, MinLevel, MaxAge} \subseteq Nat \ {0}
  /\ Delays \subseteq Nat /\ Timeouts \subseteq Nat
  /\ IntSize \in Nat /\ IntSize % 4 = 0 /\ IntSize > 8
  /\ MinLevel > 2 * Lag /\ MinLevel <= MaxAge /\ Ms + 2 * Lag < Wrap
  /\ \A t \in Timeouts : t + 5 * Lag < Wrap /\ t + 7 * Lag < MaxAge

VARIABLES
  now,           \* what micros() returns at this moment
  idle,          \* the time since the program's last step
  call,          \* the call in progress: what it does next, and its variables
  pin,           \* whether the pin is at the state that pulseInLong() measures
  age,           \* the time since the pin changed
  waited,        \* history: the time since the call began
  width          \* history: the width of the last pulse that began in the call

waitsVars == <<now, idle, call, pin, age, waited, width>>

NoCall == [fn |-> "none", at |-> "none", arg |-> 0, left |-> 0,
           startMicros |-> 0, start |-> 0, value |-> 0]
NoWidth == -1
Capped(t) == IF t > MaxAge THEN MaxAge ELSE t

WaitsInit ==
  /\ now = 0 /\ idle = 0 /\ call = NoCall
  /\ pin = FALSE /\ age = 0 /\ waited = 0 /\ width = NoWidth

-----------------------------------------------------------------------------
(* Time, and the pin.  It matters while pulseInLong() looks at it only; at  *)
(* the call it is at either level for any time.                             *)
Tick ==
  /\ call.fn # "none" => idle < Lag
  /\ now' = (now + 1) % Wrap
  /\ idle' = (IF call.fn = "none" THEN 0 ELSE idle + 1)
  /\ waited' = (IF call.fn = "none" THEN 0 ELSE Capped(waited + 1))
  /\ age' = (IF call.fn = "pulseInLong" THEN Capped(age + 1) ELSE age)
  /\ UNCHANGED <<call, pin, width>>

PinChanges ==
  /\ call.fn = "pulseInLong" /\ age >= MinLevel
  /\ pin' = ~pin /\ age' = 0
  /\ width' = (IF pin /\ age <= waited THEN age ELSE width)
  /\ UNCHANGED <<now, idle, call, waited>>

(* micros() - t *)
Elapsed(t) == (now - t) % Wrap

Calls(fn, at, arg) ==
  /\ call = NoCall
  /\ call' = [NoCall EXCEPT !.fn = fn, !.at = at, !.arg = arg, !.left = arg]
  /\ idle' = 0 /\ waited' = 0 /\ width' = NoWidth /\ UNCHANGED now

(* The next step of the call fn that is at at.                              *)
Step(fn, at, next) ==
  /\ call.fn = fn /\ call.at = at /\ call' = next
  /\ idle' = 0 /\ UNCHANGED <<now, pin, age, waited, width>>

-----------------------------------------------------------------------------
DelayCalled == \E ms \in Delays :
  Calls("delay", "start", ms) /\ UNCHANGED <<pin, age>>
DelayStarts == Step("delay", "start", [call EXCEPT !.at = "loop", !.start = now])

(* Mutant: a moment is waited for and not a time, which fails when micros() *)
(* goes round.                                                              *)
DueAt == now >= call.start + Ms

Due == Elapsed(call.start) >= Ms

Advanced == (call.start + Ms) % Wrap

DelayLoops ==
  /\ call.left > 0
  /\ Step("delay", "loop",
          IF Due THEN [call EXCEPT !.left = @ - 1, !.start = Advanced] ELSE call)
DelayReturns == call.left = 0 /\ Step("delay", "loop", NoCall)

-----------------------------------------------------------------------------
(* pulseInLong(): three loops with a look at the pin and one at the time.   *)
PulseCalled == \E t \in Timeouts, level \in BOOLEAN, since \in 0..MinLevel :
  Calls("pulseInLong", "startMicros", t) /\ pin' = level /\ age' = since
PulseStarts ==
  Step("pulseInLong", "startMicros", [call EXCEPT !.at = "previous", !.startMicros = now])

Loop == {"previous", "wait", "pulse"}
Stays(loop) == IF loop = "wait" THEN ~pin ELSE pin
After(loop) == CASE loop = "previous" -> "wait" [] loop = "wait" -> "start" [] loop = "pulse" -> "end"
Check(loop) == CASE loop = "previous" -> "previous?" [] loop = "wait" -> "wait?"
                 [] loop = "pulse" -> "pulse?"

(* Mutant: each loop has the whole timeout, the last one from its start. *)
TimedOutAnew(loop) ==
  (IF loop = "pulse" THEN Elapsed(call.start) ELSE Elapsed(call.startMicros)) > call.arg

TimedOut(loop) == Elapsed(call.startMicros) > call.arg

Returns(value) == [call EXCEPT !.at = "return", !.value = value]
PulseReads(loop) ==
  Step("pulseInLong", loop,
       [call EXCEPT !.at = IF Stays(loop) THEN Check(loop) ELSE After(loop)])
PulseChecks(loop) ==
  Step("pulseInLong", Check(loop),
       IF TimedOut(loop) THEN Returns(0) ELSE [call EXCEPT !.at = loop])

(* Mutant: the time is counted from the beginning of the call. *)
MeasuredFromCall == call.startMicros

MeasuredFrom == now

PulseBegins == Step("pulseInLong", "start", [call EXCEPT !.at = "pulse", !.start = MeasuredFrom])
PulseEnds == Step("pulseInLong", "end", Returns(Elapsed(call.start)))
PulseReturns == Step("pulseInLong", "return", NoCall)

-----------------------------------------------------------------------------
(* delayMicroseconds() at 16 MHz: the cycles from the call to the return.   *)
(* The loop counts down to 0 and so goes round if it begins there; its last *)
(* branch is not taken.                                                     *)

(* Mutant: the cycles of the preceding instructions are not taken off. *)
LoopsUntrimmed(us) == (4 * us) % IntSize

Loops(us) == (((4 * us) % IntSize) - 5) % IntSize
Cycles(us) ==
  IF us <= 1 THEN 16
  ELSE 17 + 4 * (IF Loops(us) = 0 THEN IntSize ELSE Loops(us)) - 1 + 4

BusyCalled == \E us \in 0..(IntSize - 1) :
  Calls("delayMicroseconds", "loop", us) /\ UNCHANGED <<pin, age>>
BusyWaits == Step("delayMicroseconds", "loop", Returns(Cycles(call.arg)))
BusyReturns == Step("delayMicroseconds", "return", NoCall)

(* delay2(): a busy wait of a millisecond each time.                        *)
Delay2Called == \E ms \in Delays : Calls("delay2", "loop", ms) /\ UNCHANGED <<pin, age>>
Delay2Loops ==
  /\ call.left > 0
  /\ Step("delay2", "loop", [call EXCEPT !.left = @ - 1, !.value = @ + Cycles(Ms)])
Delay2Returns == call.left = 0 /\ Step("delay2", "loop", NoCall)

-----------------------------------------------------------------------------
Program ==
  \/ DelayStarts \/ DelayLoops \/ DelayReturns
  \/ PulseStarts \/ PulseBegins \/ PulseEnds \/ PulseReturns
  \/ \E loop \in Loop : PulseReads(loop) \/ PulseChecks(loop)
  \/ BusyWaits \/ BusyReturns \/ Delay2Loops \/ Delay2Returns
Called == DelayCalled \/ PulseCalled \/ BusyCalled \/ Delay2Called

WaitsNext == Tick \/ PinChanges \/ Called \/ Program

(* Time passes, and the processor executes the program.                     *)
WaitsSpec == WaitsInit /\ [][WaitsNext]_waitsVars /\ WF_waitsVars(Tick) /\ WF_waitsVars(Program)

(* What pulseInLong() returns, if not 0, is the width of a pulse that began *)
(* and ended during the call, whenever it was called and wherever micros()  *)
(* went round, to three steps of the program at either end                  *)
(* (wiring_pulse.c 60-95).                                                  *)
WidthIsTrue ==
  call.fn = "pulseInLong" /\ call.at = "return" /\ call.value # 0 =>
    /\ width # NoWidth
    /\ call.value \in (width - 3 * Lag)..(width + 3 * Lag)

(* The timeout is that of the whole call and not of each of its loops.  Up  *)
(* to seven steps are not looked at (wiring_pulse.c 71-93).                 *)
TimeoutIsKept == call.fn = "pulseInLong" => waited <= call.arg + 7 * Lag

(* delayMicroseconds() takes the microseconds it is given, to two cycles,   *)
(* as long as four loops for each are a number of its word - and two more,  *)
(* by the way its subtraction goes round (wiring.c 167-182, 242-247).       *)
BusyWaitIsExact ==
  call.fn = "delayMicroseconds" /\ call.at = "return"
    /\ call.arg \in 1..(IntSize \div 4 + 1) =>
      call.value \in (16 * call.arg - 2)..(16 * call.arg + 2)

(* Every wait ends, also if the pin never changes and when micros() goes    *)
(* round in it (wiring.c 109-120, wiring_pulse.c 73-93).                    *)
WaitsEnd == call.fn # "none" ~> call.fn = "none"
=============================================================================
