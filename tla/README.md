# The scalc compiler and its board, in TLA+

The repository is a compiler course's project. `scalc` translates a small
language (assignments, `PRINT`, `WHILE`, `IF`/`ELSE`, `FUNCTION`, `OUT`,
`DELAY`, calls of extern functions) to LLVM IR; the program is linked with
`stdc_avr.cpp` and a reduced Arduino library (`arduinowire/`) and runs on an
ATmega328p robot with an infrared remote control and servos. The two halves
are hard in different ways: the compiler is one thread that walks and rewrites
a tree of pointers, the board is a program and four interrupt handlers that
share registers and variables.

Paths below are relative to `src/`.

## 1. Inventory

### The compiler

| component | state | operations | what makes it correct |
|---|---|---|---|
| Lexer, `scalc.l` | `yylval`, the line | one token per call | the right token kinds; no state that a later token depends on, except `yylval` after an error |
| Parser, `scalc.y` | bison's stack, the tree on the heap, the symbol table `synames` | the reductions of the rules; `create_no`, `add_symbol`, `search_symbol`; recovery at `error ;` | what it leaves in `$1` is a tree of nodes; a name has one symbol |
| `collapse_stmts`, `semantic.c` 6-37 | the tree, the recursion of `visitor_leaf_first` | graft the list of a list into it, by `realloc` and `free` | no statement is lost, moved or duplicated, whatever address `realloc` returns; no list below a list is left |
| `declared_vars`, `semantic.c` 39-71 | `exists` of every symbol, `error_count` | report a use that no assignment precedes | exactly those uses; what passes can be generated |
| Code generator, `backllvm.cpp` | the LLVM module, the builder's insertion point, `current_func`, `llvm` of every symbol, the recursion of `generate_llvm_nodes` and its locals | one case per node type | every block is ended once, at its end; each function's blocks are its own; the module does what the text says |
| Target functions, `backarduino.cpp` | the declarations of `analogRead`, `digitalWrite`, `delay`, `setup`, `init` | `IN`, `OUT` and `DELAY` become calls of `analogRead`, `digitalWrite` and `delay` | the right callee and argument types |
| Driver, rule `program` and `main` | none of its own | the passes in order, exit after errors | a program with an undeclared variable is not compiled |

The parts interact by shared memory only: the parser makes the tree and the
symbols, `collapse_stmts` replaces parts of the tree while
`visitor_leaf_first` holds pointers into it, `declared_vars` sets `exists`, and
the generator reads the tree and keeps in each symbol's `llvm` the value of the
first assignment or the last definition it met. Everything runs in one thread.
Hard are: pointers that outlive what they point to, the loop bound the visitor
reads again while its callback changes it, the walk order on which both passes
depend, and the generator's "current block", which is never stored: it is
spread over the builder, the return values and the locals of active calls.

### The board

| component | state | operations | what makes it correct |
|---|---|---|---|
| Clock, `wiring.c`, `wiring_pulse.c` | timer 0 and its flag, `timer0_overflow_count`, `timer0_millis`, `timer0_fract` | overflow handler; `millis`, `micros`, `delay`, `delay2`, `delayMicroseconds`, `pulseInLong` | no drift; a value that was true during the call; waits are as long as they say, and end; what is measured was there |
| Infrared receiver, `IRReadOnlyRemote.cpp` | decoder state, ring buffer | handler `irISR` on each edge; `read` | stores exactly the undamaged codes; a queue for the program |
| Servos, `Servo.cpp` | `Channel`, `servos[]`, each servo's limits, timer 1 and its compare register | compare handler; `attach`, `detach`, `write`, `writeMicroseconds`, `read` | pulses as wide as written, one at a time, within the limits, no compare match missed, refreshed no faster than `REFRESH_INTERVAL`; an angle reads back as it was written |
| Pins, `wiring_digital.c`, `wiring_analog.c`, `pins_default.h` | port and timer registers shared by several pins | `pinMode`, `digitalWrite`, `digitalRead`, `analogWrite`, `analogRead` | a change of one pin is never undone by a change of another |
| Library of compiled programs, `stdc_avr.cpp`, `stdc.c` | the servo's position | `setup`, `READ_IR`, `READ_MICROS`, `SERVO_POS_INC`, `SERVO_POS_DEC` | the position stays between its limits |
| Interrupt registration, `WInterrupts.c` | table of functions, `EICRA`, `EIMSK`, the flags | `attachInterrupt`, `detachInterrupt`, the handlers | only what is attached is called; no edge that was asked for is lost |
| Start, `init` of `wiring.c`, `setup`, the receiver's constructor | the timers' and the converter's registers, the pins' modes | each once, in this order | the board is what the other parts take it for |
| Rest of `arduinowire/` | headers, shift functions | | (nothing calls it) |

They interact through the status register's interrupt bit, which functions
save, clear and restore, and through variables and registers that both a
handler and the program change. Hard are: multi-byte reads on an 8-bit
processor, read-modify-write of shared registers, a flag that is already
pending when interrupts are off, counters that go round, and frames that come
damaged.

`PROJECT.json` lists the components with the modules of each, and under
`hazards` every place where one of these things bites, with the properties that
watch it.

## 2. Modules

    Expressions <- SyntaxTree <- Parser, Semantic, Codegen <- Compiler
    SourceOrder (reference definitions), Vocabulary (bounded expressions)
    Compiler + SourceOrder <- PassProperties        Compiler <- CompilerInvariant
    PassProperties, CompilerInvariant, Vocabulary <- MCCompiler
    Compiler, SourceRun (INSTANCE) <- Execution; with PassProperties <- MCExecution
    CompilerInvariant, PassProperties <- CompilerProofs <- PassProofs
    Timer0 <- Timer0Proofs      Servo <- ServoProofs
    CodeQueue (INSTANCE) <- IRReceiver <- MCReceiver;  IRReceiver, Waits <- SignalProofs
    Avr, Board <- Digital <- Pins <- MCPins, PinsProofs
    Avr <- Interrupts;  Interrupts, Digital <- Startup <- StartupProofs
    ServoAngle, Coercion <- Robot <- RobotProofs;  Robot, Waits <- MCLibrary

| module | models | state and actions |
|---|---|---|
| `Expressions` | the operand trees of rules `logical` .. `unary` and what `gen_llvm_subtree` returns for them | values, no state: no pass rewrites an expression |
| `SyntaxTree` | heap, `create_no`, symbol table | `tree` (address = index), `freed`, `root`, `synames` |
| `Parser` | the grammar's reductions | `stack`; an action is the tokens of one statement or opening, or one reduction. The behaviours are the parses of *every* program of the bounded vocabulary |
| `Semantic` | `visitor_leaf_first` with `collapse_stmts` and `declared_vars` | `frames` is the C call stack: `r` as it was read at line 7, and `i`. `GraftInPlace` and `GraftMoved` are the two outcomes of `realloc` |
| `Codegen` | `setup_llvm_global`, `generate_llvm_nodes`, `print_llvm_ir` | `work` is the C call stack with the locals of each case; `pending` says whether a call begins or has returned. `blocks` is the module: function and instructions of each basic block |
| `Compiler` | the driver | the phases, and the end of the process: `done`, `exit` (errors reported), `rejected`, `fault` (the process is killed) |
| `SourceOrder` | the text of a tree (`Listing`), which call means which definition | reference definitions, on any tree: a pointer that leads nowhere, or round, reads as `NoText` |
| `Execution` | the printed module running on the board | `ip`, `rstack`; one action per kind of control transfer. Conditions depend on sensors, so both branches are possible |
| `SourceRun` | what a program *means*: its text run statement by statement | abstract specification that `Execution` implements |
| `PassProperties` | the properties of the passes | |
| `CompilerInvariant` | the inductive invariant of the proofs | |
| `Timer0` | timer 0, its handler, `millis`, `micros`, `delay` | `call[c]` is the call that the program or a pin's handler has in progress, one action per instruction that matters: save and `cli`, low part, high part, `TCNT0`, `TIFR0`, restore |
| `CodeQueue` | what `read()` promises | abstract specification that `IRReceiver` implements |
| `IRReceiver` | remote control, `irISR`, `read` | `burst` is the durations of what is being sent, `heard` how many of them are over; `irISR` takes one, `read` is three steps |
| `Servo` | timer 1, `handle_interrupts`, `attach`, `detach`, `writeMicroseconds` | `handler` and `calling` are the calls in progress; time may pass between any two steps |
| `ServoAngle` | the numbers of `Servo.cpp`: limits, `map`, `usToTicks`, `read` | the divisions of C and the widths of the variables: `min` and `max` are signed bytes, `ticks` 16 bits; an action per method |
| `Coercion` | `default_coersion` and where `generate_llvm_nodes` calls it | no state: a value is the bits of an integer type, or a float in halves; an undefined conversion is any value |
| `Robot` | `setup`, `SERVO_POS_INC`, `SERVO_POS_DEC` over `ServoAngle`; `IN`, `OUT`, `DELAY` over `Coercion` | what a compiled program does with the servo and with numbers |
| `Waits` | `delay`, `delay2`, `delayMicroseconds`, `pulseInLong` | `call` is the call in progress with its variables; `Tick` and `PinChanges` come between any two steps. `micros()` is the true time here, which `Timer0` shows |
| `Avr` | the processor: registers of bits, the I bit, instructions | a function *is* its sequence of instructions; `Step` runs one, in the program or in a handler |
| `Board` | the tables of `pins_default.h` | |
| `Digital` | `pinMode`, `digitalWrite`, `digitalRead`, `analogWrite` | their instructions, on the registers that `Board` names |
| `Pins` | the program and the servos' handler that call them | `wanted` is what the last calls ask for |
| `Interrupts` | `attachInterrupt`, `detachInterrupt`, `IMPLEMENT_ISR` | a pointer is two bytes, two registers of `Avr`; `Edge` flags an interrupt, `Handle` calls the function that both bytes make |
| `Startup` | the constructor, `init`, `setup`, then statements | the registers after reset, or as a bootloader left them; all instructions of the three |
| `CompilerProofs`, `PassProofs`, `RobotProofs`, `Timer0Proofs`, `SignalProofs`, `ServoProofs`, `PinsProofs`, `StartupProofs` | | theorems |

How some of the code's constructs became TLA+:

- **Statements and tokens.** The text is not there character by character: an
  action such as `StmtAttr` is the reading of `VAR '=' arit ';'` and its
  reduction, with a name and an expression out of small sets. The stack after
  it, and so which rules may follow (`MayBegin`, `TopIs`), are bison's.
- **Recursion.** Both tree walks are recursive C functions that keep pointers
  and blocks in locals across the inner call. Their stacks are variables, so
  that every property can talk about the moment in between.
- **Memory.** A node that `realloc` moves gets a new address and the old one
  joins `freed`; the caller's `r` still holds the old one, as in the code.
  The caller's loop then reads its bound in freed memory, and the model lets it
  find what was there: nothing is allocated between the two moments, and `free`
  of the C library the Makefile links with overwrites the first 16 bytes of a
  chunk, while `childcount` is at byte 24. `StalePointersEndTheLoop` shows that
  this is *all* the code relies on: the bound ends the loop, no child is ever
  fetched from a freed node.
- **Faults.** Following a pointer to no node, loading a symbol without an LLVM
  value, calling a null function, or an operator without a case are the phase
  `fault`.
- **Two parts.** An `unsigned long` (`Timer0`) and a servo's `ticks` are read
  and written in two parts, because the processor does it in single bytes.
- **Durations.** What `irISR` does with a duration is to compare it with
  limits, so a duration is the name of the limits it falls in (`HDR_MARK`,
  `ONE_SPACE`, ...), or `NO_SPAN`.
- **Codes.** A code is its bits, a function on `1..FRAME_SIZE`, as all that
  `irISR` does with one is to shift a bit in (`Shifted`), to clear it and to set
  it to the repeat code.

## 3. Runs

The runs and their properties; `PROJECT.json` gives one mutant of the code per
property, a plausible bug that the property then catches.

### The compiler

**whole** - programs of three statements, two constructs deep, with every
statement kind and syntax errors, over two names of which one is also a
function; a copy of a variable, a read as an operand, two reads in one
expression, and a condition with `AND`. `IInv` is the invariant of the proofs, so TLC has seen that it
holds before it is proved. `ErrorsAreTheUncoveredUses`: the passes walk a tree
that was rebuilt, where children grafted in place are visited again, and still
the count is that of the uses in the *text* with no assignment before them.
`OnlyHolesFault`: where every statement is a node, the compiler dies only at a
statement that itself uses `AND` or `OR`, calls a function not defined before it or
copies a variable not assigned before it (`Hole`; section 6).
`Terminates`: every compilation ends. Three statements are enough for the
cases the properties tell apart: assignment before, inside and after a
construct; a call before and after its definition; a function in a function; a
list of three, whose inner list is grafted while the outer walk is at it.

**execution** - every nesting of `WHILE`, `IF`, `ELSE`, `ELSE IF`, `FUNCTION`
and calls in programs of five statements, three deep, functions not inside one
another, then *run*, with at most two calls active. `RunsTheSource` is the
refinement: on every path through the printed module the statements happen in
the order `SourceRun` allows on the text as it was parsed, conditions are
evaluated where the text has them, calls go to the last definition before them
and come back behind the call. With it `TextIsKept`,
`StalePointersEndTheLoop` and `ListsAreFlat` (the tree during and after
`collapse_stmts`; a tree that is not one any more has `NoText` somewhere, which
is no program's text), `NothingAfterTerminator`,
`EveryBlockEnds`, `InsertsInCurrentFunc`, `BranchesStayInFunction` (the module
during and after generation), `OneVariablePerName` (all accesses of a name use
one LLVM value). Five statements give a construct with a statement before,
inside, and after it inside another one, and `IF`/`ELSE` whose both lists end
in a construct: every way a case of `generate_llvm_nodes` can receive a
block that is not the one it passed down.

**nested_function**, **extern_twice**, **error_statement** - the findings of section
6, each with the smallest vocabulary that shows it.

### The board

**clock** - a timer that overflows every 4 ticks of 2 us, milliseconds of
5 us, so that an overflow is 1 ms and 3/5: the fraction carries over after
different numbers of overflows, as with the real 1024 us and 1000 us. Counters
are two parts of 4, so `micros` goes round after 16 us: within the 21 ticks of
a run the clock goes round more than twice and `delay(2)` is called on every
side of it. A tick, an overflow and the interrupt of a pin may come between any
two instructions. `MillisNeverDrifts`, `ValuesWereTrue`, `DelayWaits`.

**receiver** - frames of two bits, the code 10 (both bit values) and the repeat
code, and the four slots of the real buffer, so that it overruns at every
position of the ring. Between the frames come all their disturbed forms: one
span out of all limits, an early end, a missing beginning. `read` may begin at
any moment. `GoodFramesAreStored`: an undamaged code is stored whatever came before
it, and an undamaged repeat frame is refused if and only if, since the last good code
frame, a burst was damaged whose header mark was recognised. That is the history
variable `noticed`, and what `dataLost` is meant to know; the mutant abandons a frame
without setting `dataLost`. `IsAQueue`: the receiver implements
`CodeQueue`, with the ring read from tail to head as the queue. Two bits and one
code suffice for the decoder since it never looks at a code, only counts bits.

**dropped_repeat** - the same frames. `RepeatsFollowTheirFrame` is what line 273 says:
it speaks of every code frame that was dropped (`dropped`), not only of those that the
decoder noticed, and it fails (section 6).

**servo** - two servos, pulses of 3 or 4 ticks, a refresh interval of 12, a
timer of 32 and up to one tick of delay before the handler and between its two
steps. `attach`, `detach` and writes come at any moment. `PulsesAreNotTooLong`,
`PulsesAreNotTooShort`, `NoMatchIsMissed`, `RefreshedInTime`. 3 and 4 differ in
both parts of `ticks` (parts of 4), so a write that is half seen is a pulse of 0
or 7. One servo could not show a pulse confused with another's, and the code
treats a third as the second.

**pins** - A0 and the handler's A4 and A5 share port C, 9 and 10 share a port
and a timer: a pair of pins for every kind of sharing between program and
handler and within the program. Every call of the four functions, interleaved
instruction by instruction with handlers that lower one pin and raise another.
`PinsAreAsWanted`, `InterruptsAreKept`.

**library** - what a compiled program calls: `Robot` and `Waits`. They share
nothing, so a behaviour is one of the two (`LibrarySpec`). Of `Robot`, every angle, the values around 0, 180, 200, 544 and the limits,
with limits at the defaults, in the usual range, at both ends of a signed byte
and beyond it. `ReadsWhatWasWritten`: `write` rounds twice (degrees to
microseconds, limits to 4 us) and `read` once, with a microsecond added to make up for it;
one degree lost would add up in `SERVO_POS_INC`. `PulseIsWithinLimits`,
`PositionIsWithinLimits`: nine positions and no other, whatever the order of
the two functions, as long as nothing else writes to the servo.
`NumbersArrive`: constants with and without a point, sensors, and variables
that were assigned one, as a port, an output or milliseconds. Integer types have
3, 5 and 7 bits there instead of 8, 16 and 32, and the numbers are those around
the ends of each, where the property stops: an `INT` constant is a signed word
and extended as one, so half the range of `DELAY` is for variables and numbers
with a point only. The servo and the numbers share nothing either, so a behaviour
uses one of them.

Of `Waits`, a clock that goes round after 16, milliseconds of 4, a program that
takes a step at least every tick and may take many in one, a pin that stays at
a level for 3 ticks or more. A timeout of 1 ends in any of the three loops
of `pulseInLong`; one of 10 leaves room for pulses of several widths, and is the longest for
which the clock does not go round between two looks at it. Calls come at every value of the
clock. `WidthIsTrue`: what is returned is the width of a pulse that began and
ended in the call. `TimeoutIsKept`: one timeout for all loops, to seven steps, and no fewer. `BusyWaitIsExact`:
all arguments of `delayMicroseconds` with words of 5 bits; it is exact to two
cycles up to `IntSize \div 4 + 1`, as the subtraction makes up for the
overflow of the shift in two cases. `WaitsEnd`.

**startup** - the three functions, then statements that attach and detach both
interrupts in all modes and turn PWM off, one at a time, with edges at any
moment between two instructions, and with a function that detaches its own
interrupt. `CallsWhatIsAttached`: no pointer is called that is half written or
gone. `EdgesAreServed`: also edges from before `sei()`, and those of one
interrupt while the other is attached, detached or configured. `BoardIsReady`:
at every later moment the timers count as `Timer0` and `Servo` assume.


### Bounds

`MaxStmts`, `MaxOpen`, `MaxFuncs` (programs), `MaxCalls` (active calls when
running), `MaxDelay`, `MaxTime` (`Timer0`), `MaxAge` (`Servo`: ages count no
further, and no property distinguishes ages beyond it). The other constants are
parameters of the code with smaller values. In `Waits` the bound of the times is
`MaxAge`; `WaitsAssumption` says that no property needs more (a call takes at most
seven steps longer than its timeout). `clock.cfg` does not check for
deadlock because the model stops at `MaxTime`, `library.cfg` because a servo for which no
channel is left can do nothing; a compilation that is over
stutters (`Ended`), and all other models never stop.

### Fairness

`Terminates` assumes weak fairness of `Next`:
`scalc` is one thread that reads a file and never waits, so it takes its next
step as long as there is one. `Reject` is the end of the input. That reading
goes on for ever is excluded by `MaxStmts`, a file being finite.

`WaitsEnd` assumes weak fairness of `Tick` and of `Program`: time passes and the
processor executes the call. Nothing is assumed of the pin, which may stay as it
is for ever, nor that anything is called.

`EdgesAreServed` assumes weak fairness of the instructions in each context and
strong fairness of `Handle(n)`: the processor takes a flagged and enabled
interrupt after one more instruction at most, so it cannot be passed over
each time the program has interrupts on for a moment. Edges come at a bounded
rate (`Edge`): an interrupt with the higher priority that comes without
pause would keep the other off for ever, on the board too.

The other models of the board are checked for safety only: the handlers must
come soon enough, and "soon enough" is part of the models' timing (below), not
fairness.

### Assumptions on the board

- A handler runs before the next edge on its pin (`Edge`), and before its
  timer's next overflow (`Tick` of `Timer0`): 0.5 ms and 1 ms against handlers of
  some 10 us.
- From one instruction of `micros` to the next less than one tick passes (64
  clock cycles).
- A servo's handler comes at most `Late` ticks after the match, its two steps
  are at most `Lag` ticks apart, and `initISR` is not held up for as long as the
  shortest pulse. `ServoAssumption` relates these to the widths. `Lag < 4`: line 69
  allows 4 ticks between its look at the timer and the compare register.
  `Late + Lag < Shortest`: the handler is done before the pulse it begins is over; a
  real one is 544 us. `Longest + Late < REFRESH`, `2 * Lag < REFRESH` and
  `4 <= REFRESH`: the interval is longer than a pulse, 20 ms against 2.4. And
  `LongestRound + Late < Width`: a round with all servos at their longest ends
  before the timer goes round. For the twelve servos that `Servo.h` allows on a timer these
  are 28.8 ms and the delays, of 32.7.
- Every servo has its own pin, and no handler's pin is on a timer: `setup()` of
  `stdc_avr.cpp` takes pins 2 and A4. `turnOffPWM` changes a timer's register
  without `cli()`, which is sound for this reason only (`PinsAssumption`).
- A number that is attached is attached again only between `noInterrupts()`
  and `interrupts()`: line 72 of `WInterrupts.c` stores the pointer in two bytes,
  and an interrupt between them would call a mixture. Nothing in the library
  prevents that; its one caller attaches once.
- `pulseInLong` sees every level of the pin: it stays for longer than two steps
  of the loops (`MinLevel`). The function's comment asks for 2 to 3 us. So a level
  too short to be seen, and the pulse missed with it, is assumed away, not checked.
- The timeout of `pulseInLong` is at least five steps of the loops below 2^32: the
  last loop may look at the clock that long after the timeout, and a clock that
  has gone round by then starts it anew. A caller that passes the largest `unsigned
  long` may wait for ever (`WaitsEnd` fails then, if no step falls on the
  last microsecond).
- A damaged span falls within no limits, and a button's code is neither all
  zeros nor all ones. A span that falls within wrong limits gives a wrong code,
  which NEC's redundancy could detect and this receiver does not look at.

## 4. Proofs

TLAPS checks, for every vocabulary and bound (`ExprAssumption`,
`ParserAssumption` and nothing else), the first five in `CompilerProofs` and the others in
`PassProofs`:

| theorem | states |
|---|---|
| `InvariantHolds` | `Spec => []IInv` |
| `TypesHold` | `Spec => []TypeOK` |
| `NothingFollowsATerminator` | no instruction follows a terminator, at any time |
| `PrintedBlocksEnd` | in a printed module every block has its terminator |
| `VariablesAreOne` | `Spec => []OneVariablePerName` |
| `TheTextIsKept` | `Spec => []TextIsKept` |
| `StalePointersAreNotFollowed` | `Spec => []StalePointersEndTheLoop` |
| `NoListInAList` | `Spec => []ListsAreFlat` |
| `ErrorsAreTheUses` | `Spec => []ErrorsAreTheUncoveredUses` |
| `TheHolesAreKnown` | `Spec => []OnlyHolesFault` |
| `TheBuilderStaysInItsFunction` | `Spec => []InsertsInCurrentFunc`, if `MaxFuncs <= 1` |
| `NoBranchLeavesItsFunction` | `Spec => []BranchesStayInFunction`, if `MaxFuncs <= 1` |

LLVM demands of every basic block exactly one terminator, at its end.
`NothingAfterTerminator` and `EveryBlockEnds` say so of the generator, and
neither is inductive: whether the branch `IfDone` appends is the first of its
block depends on which blocks every active call still means to write to. These
are in C locals, so the invariant collects them: `Held(f)` is what a call will
write to after its child returns (`condwhile`, `endif` and `elseif`,
`oldblock`), `Target` is the block of the next instruction, and the core of `IInv` is

    OpenBlocks(blocks) = HeldBy(work) \cup {Target}
    Target \notin HeldBy(work)
    Apart(work)               (no two calls hold the same block)

A construct opens blocks and holds all of them but one, and gives each back as
it ends it. When the generator's walk is over `work` is empty, so the one open
block is `Target`, and `print_llvm_ir` ends it. The argument needs that a list
follows a list or a construct in a definite way (`FrameShape`), that only lists and
`IF` are the bodies of constructs (`TreeShape`: a body that were a simple
statement would return no block), and this in turn of the parser's stack
(`StackShape`) and of `collapse_stmts`, which must not change it while `realloc`
moves lists (`FramesShape`: the loop of every waiting call is at a child of its
node). `Implemented`, `declared_vars` and the values of variables play no
part: blocks are well formed in every program that gets that far, nested
functions included.

`VariablesAreOne` follows from `VariablesInv`: a symbol's `llvm` is given once, by
the first assignment (only a definition overwrites it, and the property leaves
out the names of definitions), and every instruction that stores to or prints
a name uses what its symbol has *now* (`Accesses`).

The three theorems about `collapse_stmts` rest on `HeapInv`. While the parser
runs, the heap is a `Forest`: every node but those on the stack has one parent, and
parents are younger than their children. `Accept` makes it the tree that the
passes walk (`Linked`): what root leads to is closed under children, was not
freed, and has one parent each, with a rank that decreases from parent to child
(`Ranking`), which is what rules cycles out when `realloc` puts a parent at a
*new* address. `Path` says where the walk is: the slot of every waiting call still
holds the list the call began with, but that of the innermost may have been
moved, and then its loop has ended - `StalePointersEndTheLoop`. `Progress` names a
set of nodes whose walk is over: it is closed under children and has no list in a
list; with the end of the walk it is everything (`AllDone`), hence `ListsAreFlat`.
That a graft changes no text is `GraftText`: in both outcomes of `realloc` the
listing of every node that is left is what it was. It is proved by induction on
the rank, and the listing itself, a recursive *function*, is first shown to be
determined by its equation, which holds at all depths that are enough.
`Listing` is defined by functions and folds for any sequence of nodes, tree or
not, so that there need not be a tree before the text can be spoken of.

`ErrorsAreTheUses` says of the other pass that it meets the statements as the
program text has them. `ErrorsInv` has, for every state of that walk, a text `at[k]`
for each call: what was told before it began. A call at its `i`-th child has told
the part of its node's listing before that child (`Told`), so each text is the one
before and that part (`Telling`), a call that returns has told its whole
listing, and the first one `SourceText`, by `HeapInv`. `error_count` is the number of
uncovered uses of what has been told (`Counted`), and the names that exist are those
assigned there, but for the assignment being visited, which declares its variable
only when its call returns (`DeclaredText`): that is why `A = A + 1.0;` is an
error. It needs of the first pass that it leaves every statement as it
was parsed (`Copied`), that the lists it makes have no expressions
(`PlainNodes`), and that no name exists before the second pass begins (`Unused`).

`TheHolesAreKnown` says it of the generator too: whatever `declared_vars` lets pass,
code generation ends, unless it comes to a statement that itself has one of the three
causes of `Hole`, or some statement is no node (`EveryStatementIsANode`). `HolesInv` has for each call of the generator what had been
told when it began (`Speaking`, `Said`), like the visitor's texts in `ErrorsInv`. The walk must
not be ahead of its memory: every name assigned in the text told so far has an
`llvm` value, and every function whose definition has begun is a function (`Valued`). As no use
is uncovered when generation begins (`UncoveredUses` is empty, by `ErrorsInv`), a
read finds a value; a copy or a call that does not is the hole. That no
pointer the passes follow is null where every statement was a node is `NoNull`,
which `collapse_stmts` has to keep at every graft, and that the nodes of each
construct have the children the generator asks for is `Sized`.

`FunctionsInv` is about programs that open no `FUNCTION` in another one. It is an
assumption on the program, and the run **nested_function** shows that it is
needed: `LeaveFunction` goes back to main, whatever was generated before. A set
`T` holds the nodes of all bodies: it is closed under children, holds no definition
(`FunctionsApart`), and `collapse_stmts` keeps such a set, putting the new address
of a list in it exactly if the old one was. In the generator (`Working`) at
most one call is that of a definition; calls above it are for nodes of `T`; the
blocks that a call holds (`Own`) are of `current_func` above it and of main below it
(`HomeOf`), which is why `oldblock` is a block of main when the definition is
over. Every branch goes to a block that the call holds or has just made, and so
stays in the function (`BranchesIn`).

Of the board, `RobotProofs` proves for all values and limits that any caller
may pass (`ServoAngleAssumption`):

| theorem | states |
|---|---|
| `ReadingIsWriting` | `Spec => []ReadsWhatWasWritten` |
| `PulsesKeepTheirLimits` | `Spec => []PulseIsWithinLimits` |
| `PositionKeepsItsLimits` | `Spec => []PositionIsWithinLimits` |

The invariant `AngleInv` says that `ticks` is, since a write, the exact double of
some width between the limits (no 16-bit conversion ever cuts it, as a signed
byte keeps the limits within 36 and 2912 us), and if degrees were written, of
the width `map` gives for them. `DegreesAreReadBack` is the arithmetic: with
`span` microseconds for 180 degrees,
`((d * span \div 180) + 1) * 180 \div span = d` whenever `span > 180`, and a
span is at least 836. It fails without the microsecond, which is the mutant. `position` adds
that only `setup` and the two functions wrote: then what was asked is one of the
nine positions, and by the first theorem what is read is so too, from which the
next step starts.

`RobotTypes` (`Spec => []TypeOK`) and `TextReachesTheBoard` (`Spec =>
[]NumbersArrive`) are about the same module. The latter holds for all sizes of
the three integer types that divide one another (`CoercionAssumption`), and its lemmas
follow a number through the conversions: `FloatArrives` (a float that fits becomes
that integer, and one that does not is any), `WordArrives` (a word loses nothing in a
byte if it fits, and a sign bit is all that can go wrong in a long), `ResultIs` (what a
constant, a sensor or a variable holds).

Of the clock, `Timer0Proofs` proves, for every period, width and times that
`TimerAssumption` allows (`MaxTime` is any number):

| theorem | states |
|---|---|
| `ClockNeverDrifts` | `Spec => []MillisNeverDrifts` |
| `ClockTypes` | `Spec => []TypeOK` |
| `TimesWereTrue` | `Spec => []ValuesWereTrue` |
| `DelayIsLongEnough` | `Spec => []DelayWaits` |

`MillisNeverDrifts` alone is not inductive:
whether the next overflow carries a millisecond depends on `timer0_fract`. The
invariant `ClockInv` adds

- that `timer0_fract`, in its units, is exactly what the whole milliseconds leave
  of the time of the overflows handled so far, and is less than a millisecond
  (`Worth`; the milliseconds are an unbounded number of which `timer0_millis` is
  the rest, so that going round loses nothing). It rests on `OverflowIsWorth`:
  `MILLIS_INC` and `FRACT_INC` are together exactly one overflow, which is the
  source's remark that the division loses no precision, and the reason for the
  two conditions on `FractUnit`;
- that a pending overflow is handled before the next one (`Pending`), which
  follows from the assumption on the speed of the code in `Tick`.

The other three come from `CallsInv`, which says of every call what it has read so far
(`CallInv`): the low part is that of the counter, which cannot change as interrupts are off
(`Masked`); after `TCNT0` the tick it was read in and whether an overflow has been
missed since (`CountRead`, the case for which `micros` looks at `TIFR0`); then the time that
was true. `DelayInv` says of `delay` that its `start` is a time that has not gone round
(`StartedAt`), no earlier than the milliseconds counted so far and no later than
the poll in progress began: this is why one subtraction modulo 2^32 is enough.

Of the receiver, `SignalProofs` proves, for every length of a frame, set of buttons
and size of the buffer (`ReceiverAssumption`):

| theorem | states |
|---|---|
| `ReceiverTypes` | `Spec => []TypeOK` |
| `UndamagedFramesAreStored` | `Spec => []GoodFramesAreStored` |
| `RingIsAQueue` | `Spec => IsAQueue`, the refinement of `CodeQueue` |

`GoodFramesAreStored` is about the end of a burst, and the invariant `ReceiverInv`
says what each state of the decoder means on the way: between two bursts
(`Between`) the decoder is anywhere a damaged frame may have left it, but not one
bit mark short of a complete one; in the header it has
heard two durations (`InHeader`); in the bits (`InBits`) the burst has been that of the
frame so far, `irBitCount` is half of what was heard and `irData` holds those bits
(`FirstBits`), which is why a damaged frame never has its 32nd bit; if it
waits again (`Waiting`), the frame is complete and stored, or damaged. All along,
`Losses` ties `dataLost` to the history: in the gap and the header mark it is
`noticed`, later what `noticed` will be when the burst is over (`Noticing`). `BurstInv` has
the one fact about `Damaged` that this needs: a burst with a header mark is its
frame with some durations out of all limits or cut short.
The refinement needs `Reading` - interrupts are off in the middle of `read()`, so that
nothing moves the tail - and that the ring read from tail to head is the queue
(`Contents`): `PutInRing` and `TakeFromRing` show it for every
position of both, also when the buffer overruns.

Of the waits, the same module proves for every width of the clock and of a word, every timeout and
every time between two steps (`WaitsAssumption`):

| theorem | states |
|---|---|
| `PulsesAreMeasured` | `WaitsSpec => []WidthIsTrue` |
| `CallsKeepTheirTimeout` | `WaitsSpec => []TimeoutIsKept` |
| `BusyWaitsAreExact` | `WaitsSpec => []BusyWaitIsExact` |

The invariant `WaitsInv` has two parts for `pulseInLong`. `Timing`: by how many steps
the call can be beyond its timeout at each place of the three loops; as this is
less than what is missing to 2^32, the clock has not gone round where the loops
look at it. `Measuring`: where the pulse is that is measured - it rose after the pin
was last seen low, it fell, if it did, after it was last seen high - and how far the
time that `start` holds is from the edge. The proof of `Timing` showed that the assumption
on timeouts was too weak: four steps are not enough, and TLC then found the call that
never ends (section 3, assumptions).

Of the servos, `ServoProofs` proves for any number of servos, any widths and any delays
that `ServoAssumption` allows:

| theorem | states |
|---|---|
| `ServoTypes` | `Spec => []TypeOK` |
| `MatchesComeInTime` | `Spec => []NoMatchIsMissed` |
| `PulsesEnd` | `Spec => []PulsesAreNotTooLong` |
| `PulsesLast` | `Spec => PulsesAreNotTooShort`, an action property |
| `ServosRest` | `Spec => RefreshedInTime`, an action property |

The invariant `ServoInv` has the program's side in `Program`: interrupts are off in
the handler and while `ticks` is written, so that the handler never reads a
width of which one byte is old (`SameLow` is the one moment between). `Timing` is
the core: by which count of the timer each channel's turn has begun at the
latest (`Start`), so that the compare register is ahead of the timer whenever
it is written, and a round ends before the timer goes round. `Pulses` says of a pulse that
its age and what is left of it make a width that may be written, `Refresh` how
much of the interval has passed for a servo whose turn is still to come (`Turn`).
The proof found that the model's assumption had been too weak: with a refresh interval that the
handler's delay could eat up, the old compare value matched again while the
handler was running, which TLC then showed as a pulse of no width. The conditions
on `REFRESH` and `LongestRound` are what was missing, and the real numbers satisfy
them by far.

Of the pins, `PinsProofs` proves for any pins of the board, shared out between
the program and the handlers as `PinsAssumption` allows:

| theorem | states |
|---|---|
| `PinsKeepTheirLevel` | `Spec => []PinsAreAsWanted` |
| `InterruptsComeBack` | `Spec => []InterruptsAreKept` |

`PinsAreAsWanted` is about pins that no call in progress changes, and the invariant
`PinsInv` says what the rest of a call will do, instruction by instruction.
`Functions`: a rest loads and stores one register after the other, ports only between `cli()`
and the restoring of SREG (`Orderly`), and changes only its own pins. `Masks`:
interrupts are off exactly there (`InGuard`), and each context restores what it
saved. `Fresh`: what is about to be stored is based on what the register holds. `Promises`: the last
instruction of a rest that changes a pin leaves it as wanted, and if there is none
it is so already. That no instruction for one pin changes another is
`OnePlace`, from the tables of `pins_default.h`. `turnOffPWM` has no guard, and `Fresh`
holds in it because handlers leave the registers of timers alone.

Of the interrupts, `StartupProofs` proves for any functions that are attached, also such as
detach the interrupt that calls them (`InterruptsAssumption`):

| theorem | states |
|---|---|
| `InterruptsCallWhatIsAttached` | `Spec => CallsWhatIsAttached`, an action property |

A handler that is entered must find two bytes of one function, and that function must be
the one `attachInterrupt` was called with. `CallsInv` tells for how many
instructions the program's call (`Calling`) and the handler's function (`Handling`) have gone,
and what they have stored so far; `Pointed`: an enabled interrupt has both bytes of what is attached,
or the program is attaching it anew with interrupts off, or its own handler is
about to disable it. Two things carry the argument: `attachInterrupt` enables
last and `detachInterrupt` disables first; and a handler can detach only what called it, which was
enabled, so the program's call for the same interrupt has not begun to change
anything. All other functions - the whole of `main`, some ninety instructions - touch
neither pointers nor `EIMSK` (`Neutral`).

The proofs of the compiler are ordered like the model: the parser, the passes, the
generator, with one lemma per action and conjunct that it can disturb, and
facts on sequences and open blocks that several of them use; then the whole.

Only model-checked: `Terminates`, `WaitsEnd`, `EdgesAreServed` (liveness), `RunsTheSource`
(a refinement whose abstract side is found by searching the text), and
`BoardIsReady`, which is the outcome of one fixed sequence of instructions.

## 5. What is abstracted or left out

- **Expressions.** One arithmetic operator and one comparison stand for all, as
  no pass tells them apart; the instructions of an expression are one `eval`. So
  the order in which operands are evaluated is not modelled (C++ leaves the
  order of the arguments of `CreateFAdd` open). Nor are the types of operands: in
  `A = 1.0 + 1;` the integer constant stays an `i16` operand of a float instruction
  (`backllvm.cpp` 198; the repository's `testein.txt` has `A+3 <= 8`), which needs no
  model to be seen. `AND` and `OR` have rules in
  the grammar and no case in the back end: they are a fault in the model
  (`Implemented`). One run, `whole`, has `AND` among its conditions.
- **Numbers.** The modules of the compiler have no values of variables, so both
  branches of a condition are always possible. `Coercion` has the numbers of
  single statements; floats are exact in it, so the rounding of `READ_IR` and
  `READ_MICROS` above 2^24 is not.
- **Symbols.** Names have no length and the table no limit of 100 entries.
- **LLVM.** The module is what the builder calls make of it. The target set-up,
  pass pipeline and verifier are not modelled; `setup` and `init` are calls at the start
  of `main` without an effect on control. Assertions of a debug build of LLVM
  would end some faults earlier.
- **Exit status.** `main` ignores `yyparse`'s result. `rejected` and `exit`
  differ only in what was reported.
- **Lexer.** The vocabulary of tokens comes with the actions of `Parser`.
- **Board.** `pulseIn` counts the rounds of `countPulseASM`, whose source is not
  in the repository; the branches of `delayMicroseconds`, `init`, `WInterrupts.c`
  and the tables for other clock rates and processors; the mode `LOW` of
  `attachInterrupt`, which asks for no edge; the registers of the converter
  but `ADCSRA`, and `analogReference`; the duty of PWM, which shares its register
  `OCR1A` with the servos if pin 9 is given to `analogWrite`; `shiftIn` and `shiftOut`,
  loops over eight bits that nothing calls; headers of strings, streams and
  USB, whose sources are not in the repository.

## 6. What the models found

Four runs end in a violation. Each states what a comment or test of the repository
says, and the trace is a short program, or two frames of the remote control.

- **nested_function**. `FUNCTION F() { FUNCTION G() { A = 1.0; } B = 2.0; }`: line 411
  of `backllvm.cpp` makes main the current function after any definition, also
  after one inside a function. What follows in the outer function is appended to
  its block while its new blocks and variables are made in main.
- **extern_twice**. `A = READ(); A = READ();`: each use creates a function of
  that name; LLVM calls the second one `READ.1`, which the link stage does not
  have (line 213: "it should exists in the link stage"). The property is about
  programs that give the name to no variable or function of their own: LLVM keeps
  all these names apart, so an extern that is used after a variable of its name
  is renamed at its first use (`READ = READ();`), which nothing in the repository
  rules on.
- **error_statement**. The statement of `error ;` (line 89 of `scalc.y`) gets no
  node, its value is whatever the lexer left, and as nothing counts the error the
  passes run and follow that value as a node (line 36 declares it one). The trace is
  a program of one such statement; `Makefile` 16 compiles `teste02.txt`, whose third
  line is `9 = 10;`.
- **dropped_repeat**. A frame whose first mark is no header mark is dropped in lines
  240 to 242 of `IRReadOnlyRemote.cpp` without setting `dataLost`, and the repeat frame
  after it is stored as one of the code before, which line 273 says must not happen.
  In the trace the dropped frame is a code frame that comes without its beginning.

The models have these too, and their properties and assumptions say so; no run is
spent on them:

- A servo detached during its pulse keeps its pin HIGH: its handler lowers only
  pins of active servos (`InPulse` in `Servo`).
- A timeout of `pulseInLong` within five steps of 2^32 may never end the call
  (`WaitsAssumption`): the difference it is compared with has gone round.
- `write` treats values from 200 to 543 as angles, `Servo.h` 108 says as widths;
  `attach` returns 255 and not 0 if it fails (`Servo.h` 105).

Behaviours with no text to contradict, which the models have and the properties
name as exceptions: a direct copy `B = A;` of a variable nobody assigned passes
`declared_vars` and kills the generator, as do a call of a function that is
not defined before and a condition with `AND` or `OR`, which the grammar has and
`gen_llvm_subtree` sends to its default case (`Hole` in `PassProperties`); that there
are no others is `TheHolesAreKnown`; a variable first assigned in a
function is a stack slot of that function, which main then uses; a variable and
a function of one name share one `llvm` value; children grafted in place are visited
again by the walk that is at them, harmlessly (`ErrorsAreTheUncoveredUses`).

## 7. Plan

The compiler, the board's parts and their theorems above are done. What would
come next, in order of importance:

1. `BoardIsReady` as a theorem: what the rest of `main` leaves in each register, as
   `Promises` of `PinsProofs` says it of pins.
2. One model of the board in which `Timer0`'s time, `Servo`'s pulses and
   `Interrupts`' handlers are the same time: how late a servo's handler can be
   while `irISR` runs, which `ServoAssumption` takes as given.
