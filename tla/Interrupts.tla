----------------------------- MODULE Interrupts -----------------------------
(***************************************************************************)
(* The registration of functions that external interrupts call,            *)
(* arduinowire/WInterrupts.c for the ATmega328p.  A pointer is two bytes,  *)
(* stored one after the other; a handler reads both, as nothing interrupts *)
(* it.                                                                     *)
(***************************************************************************)
EXTENDS Avr, Integers

CONSTANTS
  Function,      \* the functions that programs register
  Once           \* those of them that detach the interrupt they are called for

ASSUME InterruptsAssumption == Once \subseteq Function /\ "nothing" \notin Function

EXTERNAL_NUM_INTERRUPTS == 2
Number == 0..(EXTERNAL_NUM_INTERRUPTS - 1)

VARIABLES
  flag,          \* EIFR: the numbers whose interrupt is pending
  level,         \* whether the pin of each number is high
  attached,      \* history: the function and mode each was attached with, if any
  changing,      \* history: the program's call in progress, and what it attaches
  due            \* history: the numbers that had such an edge and no call since

interruptVars == <<flag, level, attached, changing, due>>
None == [function |-> "nothing", mode |-> "none"]
NoChange == [number |-> -1, to |-> None]

-----------------------------------------------------------------------------
(* The mode is shifted into the two bits of the number in EICRA.            *)
Sense(n) == << {"ISC00", "ISC01"}, {"ISC10", "ISC11"} >>[n + 1]
ModeBits(n, mode) ==
  LET bit == << <<"ISC00", "ISC01">>, <<"ISC10", "ISC11">> >>[n + 1]
  IN  CASE mode = "CHANGE" -> {bit[1]} [] mode = "FALLING" -> {bit[2]} [] mode = "RISING" -> Sense(n)
Low(n) == << "intFunc0 low", "intFunc1 low" >>[n + 1]
High(n) == << "intFunc0 high", "intFunc1 high" >>[n + 1]
SetFunction(n, f) == Put(Low(n), {f}) \o Put(High(n), {f})

(* EIMSK |= ... and EIMSK &= ~... are sbi and cbi.                          *)
Enable(n) == ChangeAtOnce("EIMSK", {}, {n})
Disable(n) == ChangeAtOnce("EIMSK", {n}, {})

(* Mutant: the other number's bits are cleared too. *)
ConfigureOnly(n, mode) == Change("EICRA", Sense(0) \cup Sense(1), ModeBits(n, mode))

Configure(n, mode) == Change("EICRA", Sense(n), ModeBits(n, mode))

(* Mutant: enabled before the function is there. *)
attachInterruptEarly(n, f, mode) ==
  IF n \in Number THEN Configure(n, mode) \o Enable(n) \o SetFunction(n, f) ELSE << >>

attachInterrupt(n, f, mode) ==
  IF n \in Number THEN SetFunction(n, f) \o Configure(n, mode) \o Enable(n) ELSE << >>

detachInterrupt(n) ==
  IF n \in Number THEN Disable(n) \o SetFunction(n, "nothing") ELSE << >>

-----------------------------------------------------------------------------
(* An edge sets the flag if it is what the bits say.  Edges do not come     *)
(* while a handler runs, nor while an interrupt of a higher number waits,   *)
(* which the lower one could keep off for ever.                             *)
Senses(n, rises) ==
  \E mode \in {"CHANGE", IF rises THEN "RISING" ELSE "FALLING"} :
    register["EICRA"] \cap Sense(n) = ModeBits(n, mode)
Asks(n, rises) ==
  changing.number # n /\ attached[n].mode \in {"CHANGE", IF rises THEN "RISING" ELSE "FALLING"}
Edge(n) ==
  /\ todo["handler"] = << >> /\ \A m \in flag \cap register["EIMSK"] : m < n
  /\ level' = [level EXCEPT ![n] = ~@]
  /\ flag' = (IF Senses(n, level'[n]) THEN flag \cup {n} ELSE flag)
  /\ due' = (IF Asks(n, level'[n]) THEN due \cup {n} ELSE due)
  /\ UNCHANGED <<avrVars, attached, changing>>

(* IMPLEMENT_ISR: intFunc[interrupt]().  The lower number goes first.  A    *)
(* function that does not detach is like irISR, which calls micros().       *)
Fetched(n) == IF register[Low(n)] = register[High(n)] THEN CHOOSE f \in register[Low(n)] : TRUE
                                                      ELSE "garbage"
Called(n) == IF Fetched(n) \in Once THEN detachInterrupt(n) ELSE Guarded(<< >>)
Handle(n) ==
  /\ n \in flag \cap register["EIMSK"]
  /\ \A m \in flag \cap register["EIMSK"] : n <= m
  /\ HandlerStarts(Called(n))
  /\ flag' = flag \ {n} /\ due' = due \ {n}
  /\ attached' = (IF Fetched(n) \in Once THEN [attached EXCEPT ![n] = None] ELSE attached)
  /\ UNCHANGED <<level, changing>>

(* The program's calls.  As nothing protects the pointer of a number that   *)
(* is attached, it is attached again with noInterrupts() and interrupts().  *)
WithoutInterrupts(instructions) == ChangesSREG("cli") \o instructions \o ChangesSREG("sei")
Attach(n, f, mode) ==
  LET attach == attachInterrupt(n, f, mode)
  IN  /\ ProgramStarts(IF attached[n] = None THEN attach ELSE WithoutInterrupts(attach))
      /\ changing' = [number |-> n, to |-> [function |-> f, mode |-> mode]]
      /\ UNCHANGED <<flag, level, attached, due>>
Detach(n) ==
  /\ ProgramStarts(detachInterrupt(n))
  /\ changing' = [number |-> n, to |-> None] /\ due' = due \ {n}
  /\ UNCHANGED <<flag, level, attached>>
Returns == /\ changing' = NoChange
           /\ attached' = [n \in Number |-> IF n = changing.number THEN changing.to ELSE attached[n]]
Execute(c) ==
  /\ Step(c)
  /\ IF c = "program" /\ Len(todo[c]) = 1 THEN Returns ELSE UNCHANGED <<attached, changing>>
  /\ UNCHANGED <<flag, level, due>>

-----------------------------------------------------------------------------
(* Interrupts call the function that is attached and no other, and none     *)
(* whose pointer is half written (WInterrupts.c 70, 270, 280-283).          *)
CallsWhatIsAttached ==
  [][\A n \in Number :
       Handle(n) => attached[n] # None /\ Fetched(n) = attached[n].function]_<<avrVars, interruptVars>>

(* An edge of the kind an attached function asks for is followed by its     *)
(* call, whatever is attached and detached elsewhere meanwhile, also if it  *)
(* came before init() let interrupts in (WInterrupts.c 116-190).            *)
EdgesAreServed == \A n \in Number : n \in due ~> n \notin due
=============================================================================
