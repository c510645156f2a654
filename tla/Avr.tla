--------------------------------- MODULE Avr ---------------------------------
(***************************************************************************)
(* The board's processor, as far as the library in arduinowire/ depends on *)
(* it: registers of bits, an I bit that lets handlers of interrupts in,    *)
(* and instructions that are executed one at a time.  Every function of    *)
(* the library is the sequence of the instructions it comes to.            *)
(***************************************************************************)
EXTENDS Sequences

VARIABLES
  register,      \* the bits that are 1 in each
  enabled,       \* the I bit of SREG
  todo,          \* the instructions left of the function each context runs
  loaded,        \* the register it has loaded
  oldSREG        \* the local variable of the functions

avrVars == <<register, enabled, todo, loaded, oldSREG>>
Context == {"program", "handler"}
Idle == todo = [c \in Context |-> << >>]

-----------------------------------------------------------------------------
I(does, r, clear, set) == [does |-> does, register |-> r, clear |-> clear, set |-> set]
ChangesSREG(does) == << I(does, "SREG", {}, {}) >>

(* sbi, cbi and |= load the register and store it.                          *)
Change(r, clear, set) == << I("load", r, clear, set), I("store", r, clear, set) >>

(* Some registers have their bits changed by one instruction.               *)
ChangeAtOnce(r, clear, set) == << I("change", r, clear, set) >>

(* An assignment of a constant.                                             *)
Put(r, value) == << I("put", r, {}, value) >>

(* Mutant: only the change itself. *)
WithoutCli(changes) == changes

(* uint8_t oldSREG = SREG; cli(); ... SREG = oldSREG;                       *)
Guarded(changes) == ChangesSREG("cli") \o changes \o ChangesSREG("restore")

(* Mutant: sei() instead. *)
RestoredOn(c) == TRUE

(* SREG = oldSREG *)
Restored(c) == oldSREG[c]

-----------------------------------------------------------------------------
Starts(c, instructions) ==
  /\ todo' = [todo EXCEPT ![c] = instructions]
  /\ UNCHANGED <<register, loaded, oldSREG>>

ProgramStarts(instructions) == Idle /\ Starts("program", instructions) /\ UNCHANGED enabled

(* A handler is entered with interrupts off.                                *)
HandlerStarts(instructions) ==
  /\ enabled /\ todo["handler"] = << >>
  /\ Starts("handler", instructions)
  /\ enabled' = FALSE

Running(c) == todo[c] # << >> /\ (c = "program" => todo["handler"] = << >>)

(* The last instruction of a handler is followed by its return.             *)
Done(c, on) == enabled' = (IF c = "handler" /\ Len(todo[c]) = 1 THEN TRUE ELSE on)

Bits(before, i) == (before \ i.clear) \cup i.set
Stores(r, bits) == register' = [register EXCEPT ![r] = bits]

Step(c) ==
  LET i == Head(todo[c])
  IN  /\ Running(c)
      /\ todo' = [todo EXCEPT ![c] = Tail(@)]
      /\ \/ /\ i.does = "cli"
            /\ oldSREG' = [oldSREG EXCEPT ![c] = enabled]
            /\ Done(c, FALSE) /\ UNCHANGED <<register, loaded>>
         \/ /\ i.does \in {"sei", "restore"}
            /\ Done(c, i.does = "sei" \/ Restored(c)) /\ UNCHANGED <<register, loaded, oldSREG>>
         \/ /\ i.does = "load"
            /\ loaded' = [loaded EXCEPT ![c] = register[i.register]]
            /\ Done(c, enabled) /\ UNCHANGED <<register, oldSREG>>
         \/ /\ i.does = "store"
            /\ Stores(i.register, Bits(loaded[c], i))
            /\ loaded' = [loaded EXCEPT ![c] = {}]
            /\ Done(c, enabled) /\ UNCHANGED oldSREG
         \/ /\ i.does = "change"
            /\ Stores(i.register, Bits(register[i.register], i))
            /\ Done(c, enabled) /\ UNCHANGED <<loaded, oldSREG>>
         \/ /\ i.does = "put"
            /\ Stores(i.register, i.set)
            /\ Done(c, enabled) /\ UNCHANGED <<loaded, oldSREG>>

AvrInit(registers, on, instructions) ==
  /\ register = registers /\ enabled = on
  /\ todo = [c \in Context |-> IF c = "program" THEN instructions ELSE << >>]
  /\ loaded = [c \in Context |-> {}] /\ oldSREG = [c \in Context |-> on]
=============================================================================
