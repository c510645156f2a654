--------------------------- MODULE StartupProofs ---------------------------
(***************************************************************************)
(* What interrupts call, for any functions that programs attach: while an  *)
(* interrupt is enabled, both bytes of its pointer are those of the        *)
(* function that is attached, or interrupts are off.                       *)
(***************************************************************************)
EXTENDS Startup, TLAPS

Mode == {"CHANGE", "FALLING", "RISING"}
Attachment == [function : Function \cup {"irISR"}, mode : Mode]
Named == Registers \cup Pointers

(* What bits and bytes are.                                                 *)
Bit == 0..7 \cup Function
       \cup {"nothing", "irISR", "WGM00", "WGM01", "WGM10", "WGM20", "CS00", "CS01", "CS10",
             "CS11", "CS12", "CS22", "TOIE0", "OCIE1A", "ADEN", "ADPS0", "ADPS1", "ADPS2",
             "ISC00", "ISC01", "ISC10", "ISC11", "RXEN0", "TXEN0",
             "COM0A1", "COM0B1", "COM1A1", "COM1B1", "COM2A1", "COM2B1"}
Watched == Pointers \cup {"EIMSK"}
Quiet == {"TCCR0A", "TCCR0B", "TIMSK0", "TCCR1A", "TCCR1B", "TIMSK1", "TCCR2A", "TCCR2B",
          "ADCSRA", "UCSR0B", "DDRB", "DDRC", "DDRD", "PORTB", "PORTC", "PORTD", "SREG", "EICRA"}
Instruction == [does : {"cli", "sei", "restore", "load", "store", "change", "put"},
                register : Watched \cup Quiet, clear : SUBSET Bit, set : SUBSET Bit]

(* Instructions that change no pointer, and enable and disable nothing.     *)
Neutral(s) ==
  s \in Seq(Instruction)
  /\ \A k \in DOMAIN s : s[k].register \in Watched => s[k].does = "load"

(* What is left of a function when k of its instructions are done.          *)
Left(s, all, k) ==
  /\ s \in Seq(Instruction) /\ all \in Seq(Instruction) /\ k \in 0..Len(all)
  /\ Len(s) = Len(all) - k /\ \A j \in 1..Len(s) : s[j] = all[k + j]

-----------------------------------------------------------------------------
Types ==
  /\ DOMAIN register = Named /\ enabled \in BOOLEAN
  /\ oldSREG \in [Context -> BOOLEAN] /\ todo = [c \in Context |-> todo[c]]
  /\ attached \in [Number -> Attachment \cup {None}]
  /\ changing \in [number : Number, to : Attachment \cup {None}] \cup {NoChange}

Enabled(n) == n \in register["EIMSK"]
LowIs(n, f) == register[Low(n)] = {f}
HighIs(n, f) == register[High(n)] = {f}

(* The program's call: of a function that attaches and detaches nothing,    *)
(* or of attachInterrupt or detachInterrupt, of which k steps are done.     *)
Attaching(n, to, k) ==
  /\ k < 5 /\ to \in Attachment
  /\ Left(todo["program"], attachInterrupt(n, to.function, to.mode), k)
  /\ ~Enabled(n) /\ attached[n] = None
  /\ k >= 1 => LowIs(n, to.function)
  /\ k >= 2 => HighIs(n, to.function)
AttachingAnew(n, to, k) ==
  /\ k < 7 /\ to \in Attachment
  /\ Left(todo["program"], WithoutInterrupts(attachInterrupt(n, to.function, to.mode)), k)
  /\ k >= 1 => ~enabled /\ todo["handler"] = << >>
  /\ k >= 2 => LowIs(n, to.function)
  /\ k >= 3 => HighIs(n, to.function)
Detaching(n, to, k) ==
  /\ k < 3 /\ Left(todo["program"], detachInterrupt(n), k)
  /\ to = None
  /\ k >= 1 => ~Enabled(n)
Calling ==
  \/ changing = NoChange /\ Neutral(todo["program"])
  \/ \E n \in Number : \E k \in 0..6 :
       /\ changing.number = n
       /\ \/ Attaching(n, changing.to, k) \/ AttachingAnew(n, changing.to, k)
          \/ Detaching(n, changing.to, k)

(* A handler's function detaches the interrupt that called it, or touches   *)
(* none; the program's call for that interrupt has not begun.               *)
DetachesItself(n, k) ==
  /\ Left(todo["handler"], detachInterrupt(n), k)
  /\ attached[n] = None
  /\ k >= 1 => ~Enabled(n)
  /\ changing.number = n =>
       AttachingAnew(n, changing.to, 0) \/ Detaching(n, changing.to, 0)
Handling ==
  \/ todo["handler"] = << >>
  \/ ~enabled /\ \E k \in 0..1 : /\ Left(todo["handler"], Guarded(<< >>), k)
                                 /\ k = 1 => ~oldSREG["handler"]
  \/ ~enabled /\ \E n \in Number : \E k \in 0..2 : DetachesItself(n, k)

(* An enabled interrupt has a whole pointer, to what is attached.           *)
Replacing(n) == \E k \in 1..6 : changing.number = n /\ AttachingAnew(n, changing.to, k)
PointsTo(n) ==
  attached[n] # None /\ LowIs(n, attached[n].function) /\ HighIs(n, attached[n].function)
Pointed ==
  \A n \in Number :
    Enabled(n) => PointsTo(n) \/ Replacing(n) \/ (~enabled /\ DetachesItself(n, 0))

CallsInv == Types /\ Calling /\ Handling /\ Pointed

-----------------------------------------------------------------------------
(* Sequences of instructions. *)

LEMMA NothingIsNeutral == Neutral(<< >>)
<1>1. << >> \in Seq(Instruction) /\ DOMAIN << >> = {} OBVIOUS
<1> QED BY <1>1 DEF Neutral

LEMMA BothAreNeutral ==
  ASSUME NEW s, NEW t, Neutral(s), Neutral(t)
  PROVE Neutral(s \o t)
<1>1. s \in Seq(Instruction) /\ t \in Seq(Instruction) BY DEF Neutral
<1>2. \A k \in DOMAIN (s \o t) :
        (k \in DOMAIN s /\ (s \o t)[k] = s[k])
        \/ (k - Len(s) \in DOMAIN t /\ (s \o t)[k] = t[k - Len(s)])
  BY <1>1
<1> QED BY <1>1, <1>2 DEF Neutral

LEMMA OneIsNeutral ==
  ASSUME NEW i \in Instruction, i.register \notin Watched
  PROVE Neutral(<< i >>)
<1>1. << i >> \in Seq(Instruction) /\ DOMAIN << i >> = {1} /\ << i >>[1] = i OBVIOUS
<1> QED BY <1>1 DEF Neutral

LEMMA RestIsNeutral ==
  ASSUME NEW s, Neutral(s), s # << >>
  PROVE /\ s[1] \in Instruction /\ (s[1].register \in Watched => s[1].does = "load")
        /\ Neutral(Tail(s))
<1>1. s \in Seq(Instruction) BY DEF Neutral
<1>2. /\ 1 \in DOMAIN s /\ s[1] \in Instruction /\ Tail(s) \in Seq(Instruction)
      /\ \A k \in DOMAIN Tail(s) : k + 1 \in DOMAIN s /\ Tail(s)[k] = s[k + 1]
  BY <1>1
<1> QED BY <1>2 DEF Neutral

(* No interrupt's pointer is shared, nor is it a register of bits. *)
LEMMA OwnBytes ==
  ASSUME NEW n \in Number
  PROVE /\ Low(n) \in Watched /\ High(n) \in Watched /\ Low(n) # High(n)
        /\ Low(n) \in Named /\ High(n) \in Named /\ "EIMSK" \in Named
        /\ Low(n) # "EIMSK" /\ High(n) # "EIMSK"
        /\ \A m \in Number : m # n => /\ Low(m) # Low(n) /\ High(m) # High(n)
                                      /\ Low(m) # High(n) /\ High(m) # Low(n)
<1>1. Number = {0, 1} BY DEF Number, EXTERNAL_NUM_INTERRUPTS
<1>2. /\ Low(0) = "intFunc0 low" /\ Low(1) = "intFunc1 low"
      /\ High(0) = "intFunc0 high" /\ High(1) = "intFunc1 high"
  BY DEF Low, High
<1>3. Low(n) \in Pointers /\ High(n) \in Pointers BY DEF Pointers
<1> QED BY <1>1, <1>2, <1>3 DEF Watched, Named, Registers

LEMMA WatchedNames ==
  Watched = {"intFunc0 low", "intFunc1 low", "intFunc0 high", "intFunc1 high", "EIMSK"}
<1>1. Number = {0, 1} BY DEF Number, EXTERNAL_NUM_INTERRUPTS
<1>2. /\ Low(0) = "intFunc0 low" /\ Low(1) = "intFunc1 low"
      /\ High(0) = "intFunc0 high" /\ High(1) = "intFunc1 high"
  BY DEF Low, High
<1> QED BY <1>1, <1>2 DEF Watched, Pointers

(* The pieces that main is made of. *)
LEMMA PieceIsNeutral ==
  ASSUME NEW r \in Quiet, NEW clear \in SUBSET Bit, NEW set \in SUBSET Bit
  PROVE Neutral(Change(r, clear, set)) /\ Neutral(Put(r, set))
<1>1. r \notin Watched BY WatchedNames DEF Quiet
<1>2. ASSUME NEW does \in {"load", "store", "put"}, NEW c \in SUBSET Bit
      PROVE Neutral(<< I(does, r, c, set) >>)
  <2>1. I(does, r, c, set) \in Instruction /\ I(does, r, c, set).register = r
    BY <1>1 DEF I, Instruction
  <2> QED BY <1>1, <2>1, OneIsNeutral
<1>3. Neutral(Put(r, set)) BY <1>2 DEF Put
<1>4. Change(r, clear, set) = << I("load", r, clear, set) >> \o << I("store", r, clear, set) >>
  BY DEF Change
<1>5. Neutral(Change(r, clear, set))
  <2>1. Neutral(<< I("load", r, clear, set) >>) /\ Neutral(<< I("store", r, clear, set) >>)
    BY <1>2
  <2> QED BY <1>4, <2>1, BothAreNeutral
<1> QED BY <1>3, <1>5

LEMMA GuardIsNeutral ==
  /\ Neutral(ChangesSREG("cli")) /\ Neutral(ChangesSREG("sei"))
  /\ \A s : Neutral(s) => Neutral(Guarded(s))
<1>1. ASSUME NEW does \in {"cli", "sei", "restore"} PROVE Neutral(ChangesSREG(does))
  <2>1. I(does, "SREG", {}, {}) \in Instruction /\ I(does, "SREG", {}, {}).register = "SREG"
    BY DEF I, Instruction, Quiet
  <2>2. "SREG" \notin Watched BY WatchedNames
  <2> QED BY <2>1, <2>2, OneIsNeutral DEF ChangesSREG
<1>2. Neutral(ChangesSREG("cli")) /\ Neutral(ChangesSREG("sei")) /\ Neutral(ChangesSREG("restore"))
  BY <1>1
<1> QED BY <1>2, BothAreNeutral DEF Guarded

LEMMA PinsAreNeutral ==
  ASSUME NEW p \in DigitalPin
  PROVE Neutral(PinMode(p, "OUTPUT")) /\ Neutral(PinMode(p, "INPUT")) /\ Neutral(TurnOffPWM(p))
<1>1. ASSUME NEW of \in {"mode", "output"}, NEW on \in BOOLEAN PROVE Neutral(Switch(p, of, on))
  <2>1. digitalPinToPort(p) \in {"PB", "PC", "PD"} /\ digitalPinToBit(p) \in 0..7
    BY DEF DigitalPin, digitalPinToPort, digitalPinToBit
  <2>2. RegisterOf(p, of) \in Quiet
    BY <2>1 DEF RegisterOf, portModeRegister, portOutputRegister, Quiet
  <2>3. BitOf(p, of) \in Bit BY <2>1 DEF BitOf, Bit
  <2>4. {} \in SUBSET Bit /\ {BitOf(p, of)} \in SUBSET Bit BY <2>3
  <2> QED BY <2>2, <2>4, PieceIsNeutral DEF Switch
<1>2. Neutral(TurnOffPWM(p))
  <2>1. CASE OnTimer(p)
    <3>1. digitalPinToTimer(p)[1] \in Quiet /\ digitalPinToTimer(p)[2] \in Bit
      BY <2>1 DEF OnTimer, digitalPinToTimer, NOT_ON_TIMER, Quiet, Bit
    <3>2. {} \in SUBSET Bit /\ {BitOf(p, "timer")} \in SUBSET Bit BY <3>1 DEF BitOf
    <3>3. Neutral(Switch(p, "timer", FALSE))
      BY <3>1, <3>2, PieceIsNeutral DEF Switch, RegisterOf
    <3> QED BY <2>1, <3>3 DEF TurnOffPWM
  <2>2. CASE ~OnTimer(p) BY <2>2, NothingIsNeutral DEF TurnOffPWM
  <2> QED BY <2>1, <2>2
<1>3. Neutral(PinMode(p, "OUTPUT"))
  <2>1. PinMode(p, "OUTPUT") = Guarded(Switch(p, "mode", TRUE)) BY DEF PinMode
  <2> QED BY <1>1, <2>1, GuardIsNeutral
<1>4. Neutral(PinMode(p, "INPUT"))
  <2>1. PinMode(p, "INPUT") = Guarded(Switch(p, "mode", FALSE) \o Switch(p, "output", FALSE))
    BY DEF PinMode
  <2>2. Neutral(Switch(p, "mode", FALSE)) /\ Neutral(Switch(p, "output", FALSE)) BY <1>1
  <2> QED BY <2>1, <2>2, GuardIsNeutral, BothAreNeutral
<1> QED BY <1>2, <1>3, <1>4

LEMMA MainIsNeutral == Neutral(main)
<1>1. ASSUME NEW r \in Quiet, NEW bit \in Bit PROVE Neutral(sbi(r, bit))
  BY PieceIsNeutral DEF sbi
<1>2. ASSUME NEW r \in Quiet PROVE Neutral(Put(r, {})) BY PieceIsNeutral
<1>3. Neutral(initTimer0)
  <2>1. Neutral(sbi("TCCR0A", "WGM01")) /\ Neutral(sbi("TCCR0A", "WGM00"))
        /\ Neutral(sbi("TCCR0B", "CS01")) /\ Neutral(sbi("TCCR0B", "CS00"))
        /\ Neutral(sbi("TIMSK0", "TOIE0"))
    BY <1>1 DEF Quiet, Bit
  <2> QED BY <2>1, BothAreNeutral DEF initTimer0
<1>4. Neutral(initTimer1)
  <2>1. Neutral(Put("TCCR1B", {})) /\ Neutral(sbi("TCCR1B", "CS11"))
        /\ Neutral(sbi("TCCR1B", "CS10")) /\ Neutral(sbi("TCCR1A", "WGM10"))
    BY <1>1, <1>2 DEF Quiet, Bit
  <2> QED BY <2>1, BothAreNeutral DEF initTimer1
<1>5. Neutral(initTimer2)
  <2>1. Neutral(sbi("TCCR2B", "CS22")) /\ Neutral(sbi("TCCR2A", "WGM20"))
    BY <1>1 DEF Quiet, Bit
  <2> QED BY <2>1, BothAreNeutral DEF initTimer2
<1>6. Neutral(initADC)
  <2>1. Neutral(sbi("ADCSRA", "ADPS2")) /\ Neutral(sbi("ADCSRA", "ADPS1"))
        /\ Neutral(sbi("ADCSRA", "ADPS0")) /\ Neutral(sbi("ADCSRA", "ADEN"))
    BY <1>1 DEF Quiet, Bit
  <2> QED BY <2>1, BothAreNeutral DEF initADC
<1>7. Neutral(init)
  <2>1. Neutral(Put("UCSR0B", {})) BY <1>2 DEF Quiet
  <2> QED BY <1>3, <1>4, <1>5, <1>6, <2>1, GuardIsNeutral, BothAreNeutral DEF init
<1>8. Neutral(initISR)
  <2>1. Neutral(Put("TCCR1A", {})) /\ Neutral(sbi("TIMSK1", "OCIE1A"))
    BY <1>1, <1>2 DEF Quiet, Bit
  <2>2. Neutral(Put("TCCR1B", {"CS11"})) BY PieceIsNeutral DEF Quiet, Bit
  <2> QED BY <2>1, <2>2, BothAreNeutral DEF initISR
<1>9. Neutral(setup)
  <2>1. \A p \in 0..19 : Neutral(PinMode(p, "OUTPUT")) /\ Neutral(PinMode(p, "INPUT"))
    BY PinsAreNeutral DEF DigitalPin
  <2>2. \A p \in {3, 4, 5, 6, 7, 8, 9, 10, 11, 12, 13, 14, 18} : Neutral(PinMode(p, "OUTPUT"))
    BY <2>1
  <2>3. Neutral(PinMode(2, "INPUT")) BY <2>1
  <2> QED BY <1>8, <2>2, <2>3, BothAreNeutral DEF setup
<1> QED BY <1>7, <1>9, BothAreNeutral DEF main

-----------------------------------------------------------------------------
(* The functions of WInterrupts.c, instruction by instruction. *)

LEMMA BothInOrder ==
  ASSUME NEW s \in Seq(Instruction), NEW t \in Seq(Instruction)
  PROVE /\ s \o t \in Seq(Instruction) /\ Len(s \o t) = Len(s) + Len(t)
        /\ \A j \in 1..Len(s) : (s \o t)[j] = s[j]
        /\ \A j \in 1..Len(t) : (s \o t)[Len(s) + j] = t[j]
OBVIOUS

LEMMA OneInstruction ==
  ASSUME NEW i \in Instruction
  PROVE << i >> \in Seq(Instruction) /\ Len(<< i >>) = 1 /\ << i >>[1] = i
OBVIOUS

LEMMA PointersAre ==
  ASSUME NEW n \in Number, NEW f \in Function \cup {"nothing", "irISR"}
  PROVE LET low == I("put", Low(n), {}, {f})
            high == I("put", High(n), {}, {f})
        IN  low \in Instruction /\ high \in Instruction /\ SetFunction(n, f) = << low >> \o << high >>
<1>1. Low(n) \in Watched /\ High(n) \in Watched BY OwnBytes
<1>2. {} \in SUBSET Bit /\ {f} \in SUBSET Bit BY DEF Bit
<1> QED BY <1>1, <1>2 DEF I, Instruction, SetFunction, Put

LEMMA DetachIs ==
  ASSUME NEW n \in Number
  PROVE LET d == detachInterrupt(n)
        IN  /\ d \in Seq(Instruction) /\ Len(d) = 3
            /\ d[1] = I("change", "EIMSK", {n}, {})
            /\ d[2] = I("put", Low(n), {}, {"nothing"})
            /\ d[3] = I("put", High(n), {}, {"nothing"})
<1> DEFINE off == I("change", "EIMSK", {n}, {})
           low == I("put", Low(n), {}, {"nothing"})
           high == I("put", High(n), {}, {"nothing"})
<1>1. off \in Instruction
  <2>1. n \in Bit BY DEF Bit, Number, EXTERNAL_NUM_INTERRUPTS
  <2>2. {} \in SUBSET Bit /\ {n} \in SUBSET Bit BY <2>1
  <2> QED BY <2>2 DEF I, Instruction, Watched
<1>2. low \in Instruction /\ high \in Instruction
      /\ SetFunction(n, "nothing") = << low >> \o << high >>
  BY PointersAre
<1>3. detachInterrupt(n) = << off >> \o SetFunction(n, "nothing")
  BY DEF detachInterrupt, Disable, ChangeAtOnce
<1> HIDE DEF off, low, high
<1>4. detachInterrupt(n) = << off >> \o (<< low >> \o << high >>) BY <1>2, <1>3
<1> DEFINE d == detachInterrupt(n)
<1>5. d \in Seq(Instruction) /\ Len(d) = 3 /\ d[1] = off /\ d[2] = low /\ d[3] = high
  BY <1>1, <1>2, <1>4
<1> QED BY <1>5 DEF off, low, high

LEMMA AttachIs ==
  ASSUME NEW n \in Number, NEW to \in Attachment
  PROVE LET a == attachInterrupt(n, to.function, to.mode)
        IN  /\ a \in Seq(Instruction) /\ Len(a) = 5
            /\ a[1] = I("put", Low(n), {}, {to.function})
            /\ a[2] = I("put", High(n), {}, {to.function})
            /\ a[3].does = "load"
            /\ a[4].does = "store" /\ a[4].register = "EICRA"
            /\ a[5] = I("change", "EIMSK", {}, {n})
<1> DEFINE f == to.function
           low == I("put", Low(n), {}, {f})
           high == I("put", High(n), {}, {f})
           load == I("load", "EICRA", Sense(n), ModeBits(n, to.mode))
           store == I("store", "EICRA", Sense(n), ModeBits(n, to.mode))
           on == I("change", "EIMSK", {}, {n})
<1>1. on \in Instruction
  <2>1. n \in Bit BY DEF Bit, Number, EXTERNAL_NUM_INTERRUPTS
  <2>2. {} \in SUBSET Bit /\ {n} \in SUBSET Bit BY <2>1
  <2> QED BY <2>2 DEF I, Instruction, Watched
<1>2. low \in Instruction /\ high \in Instruction /\ SetFunction(n, f) = << low >> \o << high >>
  <2>1. f \in Function \cup {"nothing", "irISR"} BY DEF Attachment
  <2> QED BY <2>1, PointersAre
<1>3. load \in Instruction /\ store \in Instruction
  <2>1. Sense(n) \in SUBSET Bit /\ ModeBits(n, to.mode) \in SUBSET Bit
    <3>1. n = 0 \/ n = 1 BY DEF Number, EXTERNAL_NUM_INTERRUPTS
    <3>2. /\ Sense(0) = {"ISC00", "ISC01"} /\ Sense(1) = {"ISC10", "ISC11"} BY DEF Sense
    <3>3. to.mode \in Mode BY DEF Attachment
    <3>4. CASE n = 0 BY <3>2, <3>3, <3>4 DEF ModeBits, Mode, Bit
    <3>5. CASE n = 1 BY <3>2, <3>3, <3>5 DEF ModeBits, Mode, Bit
    <3> QED BY <3>1, <3>4, <3>5
  <2> QED BY <2>1 DEF I, Instruction, Quiet
<1>4. attachInterrupt(n, f, to.mode)
        = SetFunction(n, f) \o (<< load >> \o << store >>) \o << on >>
  <2>1. << load, store >> = << load >> \o << store >> OBVIOUS
  <2> QED BY <2>1 DEF attachInterrupt, Configure, Change, Enable, ChangeAtOnce
<1>5. load.does = "load" /\ store.does = "store" /\ store.register = "EICRA" BY DEF I
<1> HIDE DEF low, high, load, store, on
<1>6. attachInterrupt(n, f, to.mode)
        = (<< low >> \o << high >>) \o (<< load >> \o << store >>) \o << on >>
  BY <1>2, <1>4
<1> DEFINE a == attachInterrupt(n, f, to.mode)
<1>7. /\ a \in Seq(Instruction) /\ Len(a) = 5
      /\ a[1] = low /\ a[2] = high /\ a[3] = load /\ a[4] = store /\ a[5] = on
  <2> DEFINE p == << low >> \o << high >>
             q == << load >> \o << store >>
  <2>1. p \in Seq(Instruction) /\ Len(p) = 2 /\ p[1] = low /\ p[2] = high BY <1>2
  <2>2. q \in Seq(Instruction) /\ Len(q) = 2 /\ q[1] = load /\ q[2] = store BY <1>3
  <2>3. a = p \o q \o << on >> BY <1>6
  <2> HIDE DEF p, q, a
  <2> DEFINE r == p \o q
             last == << on >>
  <2>4. last \in Seq(Instruction) /\ Len(last) = 1 /\ last[1] = on BY <1>1, OneInstruction
  <2>5. a = r \o last BY <2>3
  <2> HIDE DEF last
  <2>6. /\ r \in Seq(Instruction) /\ Len(r) = Len(p) + Len(q)
        /\ \A j \in 1..Len(p) : r[j] = p[j]
        /\ \A j \in 1..Len(q) : r[Len(p) + j] = q[j]
    BY <2>1, <2>2, BothInOrder
  <2> HIDE DEF r
  <2>7. Len(r) = 4 /\ r[1] = low /\ r[2] = high BY <2>1, <2>2, <2>6
  <2>8. r[2 + 1] = load /\ r[2 + 2] = store BY <2>1, <2>2, <2>6
  <2>9. /\ a \in Seq(Instruction) /\ Len(a) = Len(r) + Len(last)
        /\ \A j \in 1..Len(r) : a[j] = r[j]
        /\ \A j \in 1..Len(last) : a[Len(r) + j] = last[j]
    BY <2>4, <2>5, <2>6, BothInOrder
  <2>10. Len(a) = 5 /\ a[4 + 1] = on BY <2>4, <2>7, <2>9
  <2>11. a[1] = low /\ a[2] = high /\ a[3] = load /\ a[4] = store BY <2>7, <2>8, <2>9
  <2>12. 4 + 1 = 5 OBVIOUS
  <2> QED BY <2>9, <2>10, <2>11, <2>12
<1> QED BY <1>5, <1>7 DEF low, high, on

LEMMA AnewIs ==
  ASSUME NEW n \in Number, NEW to \in Attachment
  PROVE LET a == attachInterrupt(n, to.function, to.mode)
            w == WithoutInterrupts(a)
        IN  /\ w \in Seq(Instruction) /\ Len(w) = 7
            /\ w[1].does = "cli" /\ w[7].does = "sei"
            /\ \A k \in 1..5 : w[k + 1] = a[k]
<1> DEFINE a == attachInterrupt(n, to.function, to.mode)
           w == WithoutInterrupts(a)
           cli == I("cli", "SREG", {}, {})
           sei == I("sei", "SREG", {}, {})
<1>1. a \in Seq(Instruction) /\ Len(a) = 5 BY AttachIs
<1>2. w = << cli >> \o a \o << sei >> BY DEF WithoutInterrupts, ChangesSREG
<1>3. cli \in Instruction /\ sei \in Instruction /\ cli.does = "cli" /\ sei.does = "sei"
  BY DEF I, Instruction, Quiet
<1> HIDE DEF a, w, cli, sei
<1>4. /\ w \in Seq(Instruction) /\ Len(w) = 7 /\ w[1] = cli /\ w[7] = sei
      /\ \A k \in 1..5 : w[k + 1] = a[k]
  <2> DEFINE first == << cli >>
             last == << sei >>
             r == first \o a
  <2>1. /\ first \in Seq(Instruction) /\ Len(first) = 1 /\ first[1] = cli
        /\ last \in Seq(Instruction) /\ Len(last) = 1 /\ last[1] = sei
    BY <1>3, OneInstruction
  <2>2. w = r \o last BY <1>2
  <2> HIDE DEF first, last
  <2>3. /\ r \in Seq(Instruction) /\ Len(r) = Len(first) + Len(a)
        /\ \A j \in 1..Len(first) : r[j] = first[j]
        /\ \A j \in 1..Len(a) : r[Len(first) + j] = a[j]
    BY <1>1, <2>1, BothInOrder
  <2> HIDE DEF r
  <2>4. Len(r) = 6 /\ r[1] = cli BY <1>1, <2>1, <2>3
  <2>5. \A k \in 1..5 : r[k + 1] = a[k]
    <3>1. \A k \in 1..5 : k \in 1..Len(a) /\ Len(first) + k = k + 1 BY <1>1, <2>1
    <3> QED BY <2>3, <3>1
  <2>6. /\ w \in Seq(Instruction) /\ Len(w) = Len(r) + Len(last)
        /\ \A j \in 1..Len(r) : w[j] = r[j]
        /\ \A j \in 1..Len(last) : w[Len(r) + j] = last[j]
    BY <2>1, <2>2, <2>3, BothInOrder
  <2>7. Len(w) = 7 /\ w[6 + 1] = sei /\ w[1] = cli BY <2>1, <2>4, <2>6
  <2>8. \A k \in 1..5 : w[k + 1] = a[k]
    <3>1. \A k \in 1..5 : k + 1 \in 1..Len(r) BY <2>4
    <3> QED BY <2>5, <2>6, <3>1
  <2>9. 6 + 1 = 7 OBVIOUS
  <2> QED BY <2>6, <2>7, <2>8, <2>9
<1> QED BY <1>3, <1>4 DEF a, w

LEMMA NothingGuardedIs ==
  LET g == Guarded(<< >>)
  IN  g \in Seq(Instruction) /\ Len(g) = 2 /\ g[1].does = "cli" /\ g[2].does = "restore"
<1> DEFINE g == Guarded(<< >>)
           cli == I("cli", "SREG", {}, {})
           restore == I("restore", "SREG", {}, {})
<1>1. g = << cli >> \o << >> \o << restore >> BY DEF Guarded, ChangesSREG
<1>2. /\ cli \in Instruction /\ restore \in Instruction
      /\ cli.does = "cli" /\ restore.does = "restore"
  BY DEF I, Instruction, Quiet
<1> HIDE DEF g, cli, restore
<1>3. g \in Seq(Instruction) /\ Len(g) = 2 /\ g[1] = cli /\ g[2] = restore BY <1>1, <1>2
<1> QED BY <1>2, <1>3 DEF g

-----------------------------------------------------------------------------
(* One instruction of a function. *)

LEMMA LeftAtFirst == ASSUME NEW s \in Seq(Instruction) PROVE Left(s, s, 0)
<1>1. \A j \in 1..Len(s) : s[j] = s[0 + j] OBVIOUS
<1> QED BY <1>1 DEF Left

LEMMA NextLeft ==
  ASSUME NEW s, NEW all, NEW k, Left(s, all, k)
  PROVE /\ s # << >> <=> k < Len(all)
        /\ s # << >> => /\ Head(s) = s[1] /\ s[1] = all[k + 1] /\ s[1] \in Instruction
                        /\ Left(Tail(s), all, k + 1)
                        /\ (Len(s) = 1 <=> k + 1 = Len(all))
                        /\ (Tail(s) = << >> <=> k + 1 = Len(all))
<1>1. /\ s \in Seq(Instruction) /\ all \in Seq(Instruction) /\ k \in 0..Len(all)
      /\ Len(s) = Len(all) - k /\ \A j \in 1..Len(s) : s[j] = all[k + j]
  BY DEF Left
<1>2. \A x \in Seq(Instruction) : x = << >> <=> Len(x) = 0 OBVIOUS
<1>3. Len(all) \in Nat /\ Len(s) \in Nat /\ k \in Nat BY <1>1
<1>4. s # << >> <=> k < Len(all) BY <1>1, <1>2, <1>3
<1>5. ASSUME s # << >>
      PROVE /\ Head(s) = s[1] /\ s[1] = all[k + 1] /\ s[1] \in Instruction
            /\ Left(Tail(s), all, k + 1)
            /\ (Len(s) = 1 <=> k + 1 = Len(all))
            /\ (Tail(s) = << >> <=> k + 1 = Len(all))
  <2> DEFINE t == Tail(s)
  <2>1. Len(s) >= 1 BY <1>1, <1>2, <1>5
  <2>2. /\ Head(s) = s[1] /\ t \in Seq(Instruction) /\ Len(t) = Len(s) - 1
        /\ \A j \in 1..Len(t) : t[j] = s[j + 1]
    BY <1>1, <1>5
  <2>3. 1 \in 1..Len(s) BY <1>3, <2>1
  <2>4. s[1] = all[k + 1] /\ s[1] \in Instruction BY <1>1, <2>3
  <2> HIDE DEF t
  <2>5. k + 1 \in 0..Len(all) /\ Len(t) = Len(all) - (k + 1) BY <1>1, <1>3, <2>1, <2>2
  <2>6. \A j \in 1..Len(t) : t[j] = all[(k + 1) + j]
    <3>1. \A j \in 1..Len(t) : j + 1 \in 1..Len(s) /\ k + (j + 1) = (k + 1) + j
      BY <1>3, <2>2
    <3> QED BY <1>1, <2>2, <3>1
  <2>7. Left(t, all, k + 1) BY <1>1, <2>2, <2>5, <2>6 DEF Left
  <2>8. Len(s) = 1 <=> k + 1 = Len(all) BY <1>1, <1>3
  <2>9. t = << >> <=> k + 1 = Len(all) BY <1>2, <1>3, <2>2, <2>5
  <2> QED BY <2>2, <2>4, <2>7, <2>8, <2>9 DEF t
<1> QED BY <1>4, <1>5

(* What is left of a call is orderly for Step to take its first instruction. *)
LEMMA StepDoes ==
  ASSUME CallsInv, NEW c \in Context, Step(c),
         todo[c] # << >> => Head(todo[c]) = todo[c][1] /\ todo[c][1] \in Instruction
  PROVE LET i == todo[c][1]
        IN  /\ todo[c] # << >> /\ (c = "program" => todo["handler"] = << >>)
            /\ todo' = [todo EXCEPT ![c] = Tail(todo[c])]
            /\ i.does = "cli" => oldSREG'[c] = enabled
            /\ i.does # "cli" => oldSREG' = oldSREG
            /\ \/ i.does \in {"cli", "sei", "restore", "load"} /\ register' = register
               \/ /\ i.does \in {"change", "put", "store"}
                  /\ \E v : Stores(i.register, v)
                  /\ i.does = "change" =>
                       Stores(i.register, (register[i.register] \ i.clear) \cup i.set)
                  /\ i.does = "put" => Stores(i.register, i.set)
            /\ ~(c = "handler" /\ Len(todo[c]) = 1) =>
                 enabled' = CASE i.does = "cli" -> FALSE [] i.does = "sei" -> TRUE
                              [] i.does = "restore" -> oldSREG[c] [] OTHER -> enabled
            /\ c = "handler" /\ Len(todo[c]) = 1 => enabled' = TRUE
            /\ enabled' \in BOOLEAN /\ oldSREG' \in [Context -> BOOLEAN]
<1> DEFINE i == todo[c][1]
           e == IF c = "handler" /\ Len(todo[c]) = 1 THEN TRUE ELSE enabled
<1>1. todo[c] # << >> /\ (c = "program" => todo["handler"] = << >>) BY DEF Step, Running
<1>2. Head(todo[c]) = i /\ i \in Instruction BY <1>1
<1>3. i.does \in {"cli", "sei", "restore", "load", "store", "change", "put"}
  BY <1>2 DEF Instruction
<1>4. todo' = [todo EXCEPT ![c] = Tail(todo[c])] BY DEF Step
<1>5. enabled \in BOOLEAN /\ oldSREG \in [Context -> BOOLEAN] BY DEF CallsInv, Types
<1>6. CASE i.does = "cli"
  <2>1. Done(c, FALSE) /\ oldSREG' = [oldSREG EXCEPT ![c] = enabled] /\ register' = register
    BY <1>2, <1>6 DEF Step
  <2> HIDE DEF i
  <2> QED BY <1>1, <1>4, <1>5, <1>6, <2>1 DEF Done, i
<1>7. CASE i.does = "sei"
  <2>1. Done(c, Head(todo[c]).does = "sei" \/ Restored(c))
        /\ register' = register /\ oldSREG' = oldSREG
    BY <1>2, <1>7 DEF Step
  <2>2. (Head(todo[c]).does = "sei" \/ Restored(c)) = TRUE BY <1>2, <1>7
  <2>3. Done(c, TRUE) BY <2>1, <2>2
  <2> QED BY <1>1, <1>4, <1>5, <1>7, <2>1, <2>3 DEF Done
<1>8. CASE i.does = "restore"
  <2>1. Done(c, Head(todo[c]).does = "sei" \/ Restored(c))
        /\ register' = register /\ oldSREG' = oldSREG
    BY <1>2, <1>8 DEF Step
  <2>2. (Head(todo[c]).does = "sei" \/ Restored(c)) = oldSREG[c]
    <3>1. oldSREG[c] \in BOOLEAN BY <1>5
    <3>2. ~(Head(todo[c]).does = "sei") BY <1>2, <1>8
    <3>3. Restored(c) = oldSREG[c] BY DEF Restored
    <3> QED BY <3>1, <3>2, <3>3
  <2>3. Done(c, oldSREG[c]) BY <2>1, <2>2
  <2> QED BY <1>1, <1>4, <1>5, <1>8, <2>1, <2>3 DEF Done
<1>9. CASE i.does = "load"
  <2>1. Done(c, enabled) /\ register' = register /\ oldSREG' = oldSREG BY <1>2, <1>9 DEF Step
  <2> QED BY <1>1, <1>4, <1>5, <1>9, <2>1 DEF Done
<1>10. CASE i.does \in {"store", "change", "put"}
  <2>1. Done(c, enabled) /\ oldSREG' = oldSREG BY <1>2, <1>10 DEF Step
  <2>2. \E v : Stores(i.register, v)
    BY <1>2, <1>10 DEF Step
  <2>3. i.does = "change" =>
          Stores(i.register, (register[i.register] \ i.clear) \cup i.set)
    BY <1>2 DEF Step, Bits
  <2>4. i.does = "put" => Stores(i.register, i.set)
    BY <1>2 DEF Step
  <2> HIDE DEF i
  <2>5. enabled' = e BY <2>1 DEF Done
  <2> QED BY <1>1, <1>4, <1>5, <1>10, <2>1, <2>2, <2>3, <2>4, <2>5 DEF i
<1> QED BY <1>3, <1>6, <1>7, <1>8, <1>9, <1>10

(* Interrupts and pointers that nothing is stored to are as they were. *)
LEMMA OthersAreAsTheyWere ==
  ASSUME CallsInv, NEW r, NEW v, Stores(r, v)
  PROVE /\ DOMAIN register' = Named
        /\ \A n \in Number :
             /\ r # "EIMSK" => (Enabled(n)' <=> Enabled(n))
             /\ r # Low(n) => register'[Low(n)] = register[Low(n)]
             /\ r # High(n) => register'[High(n)] = register[High(n)]
             /\ r = Low(n) => register'[Low(n)] = v
             /\ r = High(n) => register'[High(n)] = v
        /\ r = "EIMSK" => register'["EIMSK"] = v
<1>1. DOMAIN register = Named BY DEF CallsInv, Types
<1>2. DOMAIN register' = Named /\ \A q \in Named : register'[q] = IF q = r THEN v ELSE register[q]
  BY <1>1 DEF Stores
<1>3. \A n \in Number : Low(n) \in Named /\ High(n) \in Named /\ "EIMSK" \in Named BY OwnBytes
<1>4. "EIMSK" \in Named BY DEF Named, Registers
<1> QED BY <1>1, <1>2, <1>3, <1>4 DEF Enabled

(* The part of the invariant that no instruction changes.                   *)
LEMMA StepTypes ==
  ASSUME CallsInv, NEW c \in Context, Step(c),
         todo[c] # << >> => Head(todo[c]) = todo[c][1] /\ todo[c][1] \in Instruction,
         (Returns /\ changing # NoChange) \/ UNCHANGED <<attached, changing>>
  PROVE /\ Types'
        /\ todo'[c] = Tail(todo[c]) /\ \A d \in Context : d # c => todo'[d] = todo[d]
<1>1. Types BY DEF CallsInv
<1>2. todo' = [todo EXCEPT ![c] = Tail(todo[c])]
      /\ enabled' \in BOOLEAN /\ oldSREG' \in [Context -> BOOLEAN]
  BY StepDoes
<1>3. DOMAIN register' = Named
  <2>1. register' = register \/ \E r, v : Stores(r, v) BY StepDoes
  <2> QED BY <1>1, <2>1 DEF Types, Stores
<1>4. attached' \in [Number -> Attachment \cup {None}]
      /\ changing' \in [number : Number, to : Attachment \cup {None}] \cup {NoChange}
  <2>1. CASE Returns /\ changing # NoChange
    <3>1. changing.to \in Attachment \cup {None} BY <1>1, <2>1 DEF Types
    <3> QED BY <1>1, <2>1, <3>1 DEF Returns, Types
  <2>2. CASE UNCHANGED <<attached, changing>> BY <1>1, <2>2 DEF Types
  <2> QED BY <2>1, <2>2
<1>5. todo' = [d \in Context |-> todo'[d]] BY <1>1, <1>2 DEF Types
<1>6. todo'[c] = Tail(todo[c]) /\ \A d \in Context : d # c => todo'[d] = todo[d]
  BY <1>1, <1>2 DEF Types
<1> QED BY <1>2, <1>3, <1>4, <1>5, <1>6 DEF Types

-----------------------------------------------------------------------------
(* The program's instructions, while no handler runs. *)

LEMMA NoHandler ==
  ASSUME CallsInv, todo["handler"] = << >>, NEW n \in Number
  PROVE /\ \A k \in 0..2 : ~DetachesItself(n, k)
        /\ Enabled(n) => PointsTo(n) \/ Replacing(n)
<1>1. \A k \in 0..2 : ~DetachesItself(n, k)
  <2>1. SUFFICES ASSUME NEW k \in 0..2, DetachesItself(n, k) PROVE FALSE OBVIOUS
  <2>2. Left(<< >>, detachInterrupt(n), k) BY <2>1 DEF DetachesItself
  <2>3. Len(detachInterrupt(n)) = 3 BY DetachIs
  <2>4. ~(k < Len(detachInterrupt(n))) BY <2>2, NextLeft
  <2> QED BY <2>3, <2>4
<1>2. 0 \in 0..2 OBVIOUS
<1> QED BY <1>1, <1>2 DEF CallsInv, Pointed

(* An instruction that is no part of attaching and detaching. *)
LEMMA NeutralKeeps ==
  ASSUME CallsInv, Execute("program"), changing = NoChange, Neutral(todo["program"]),
         todo["program"] # << >>
  PROVE CallsInv'
<1> DEFINE s == todo["program"]
           i == s[1]
<1>1. /\ i \in Instruction /\ (i.register \in Watched => i.does = "load") /\ Neutral(Tail(s))
      /\ Head(s) = i
  <2>1. Head(s) = i OBVIOUS
  <2> HIDE DEF s
  <2> QED BY <2>1, RestIsNeutral DEF s
<1>2. "program" \in Context /\ "handler" \in Context /\ Step("program")
  BY DEF Context, Execute
<1>3. attached' = attached /\ changing' = changing
  <2>1. changing.number \notin Number BY DEF NoChange, Number, EXTERNAL_NUM_INTERRUPTS
  <2>2. attached = [n \in Number |-> attached[n]] BY DEF CallsInv, Types
  <2> QED BY <2>1, <2>2 DEF Execute, Returns
<1>4. Types' /\ todo'["program"] = Tail(s) /\ todo'["handler"] = todo["handler"]
  BY <1>1, <1>2, <1>3, StepTypes
<1>5. todo["handler"] = << >> BY <1>1, <1>2, StepDoes
<1>6. ASSUME NEW n \in Number
      PROVE /\ Enabled(n)' <=> Enabled(n)
            /\ register'[Low(n)] = register[Low(n)] /\ register'[High(n)] = register[High(n)]
  <2>1. Low(n) \in Watched /\ High(n) \in Watched /\ "EIMSK" \in Watched BY OwnBytes DEF Watched
  <2>2. CASE register' = register BY <2>2 DEF Enabled
  <2>3. CASE i.does # "load" /\ \E v : Stores(i.register, v)
    <3>1. i.register # Low(n) /\ i.register # High(n) /\ i.register # "EIMSK"
      BY <1>1, <2>1, <2>3
    <3> QED BY <2>3, <3>1, OthersAreAsTheyWere
  <2>4. \/ register' = register
        \/ i.does # "load" /\ \E v : Stores(i.register, v)
    BY <1>1, <1>2, StepDoes
  <2> QED BY <2>2, <2>3, <2>4
<1>7. Calling' BY <1>1, <1>3, <1>4 DEF Calling
<1>8. Handling' BY <1>4, <1>5 DEF Handling
<1>9. Pointed'
  <2>1. SUFFICES ASSUME NEW n \in Number, Enabled(n)' PROVE PointsTo(n)' BY DEF Pointed
  <2>2. ~Replacing(n) BY DEF Replacing, NoChange, Number, EXTERNAL_NUM_INTERRUPTS
  <2>3. PointsTo(n) BY <1>5, <1>6, <2>1, <2>2, NoHandler
  <2> QED BY <1>3, <1>6, <2>3 DEF PointsTo, LowIs, HighIs
<1> QED BY <1>4, <1>7, <1>8, <1>9 DEF CallsInv

(* What the instructions of attachInterrupt and detachInterrupt change. *)
LEMMA AttachChanges ==
  ASSUME CallsInv, NEW n \in Number, NEW to \in Attachment, NEW k \in 0..4,
         Step("program"), todo["program"] # << >>,
         Head(todo["program"]) = todo["program"][1], todo["program"][1] \in Instruction,
         todo["program"][1] = attachInterrupt(n, to.function, to.mode)[k + 1]
  PROVE /\ enabled' = enabled
        /\ \A m \in Number : m # n =>
             /\ Enabled(m)' <=> Enabled(m)
             /\ register'[Low(m)] = register[Low(m)] /\ register'[High(m)] = register[High(m)]
        /\ register'[Low(n)] = IF k = 0 THEN {to.function} ELSE register[Low(n)]
        /\ register'[High(n)] = IF k = 1 THEN {to.function} ELSE register[High(n)]
        /\ Enabled(n)' <=> Enabled(n) \/ k = 4
<1> DEFINE i == todo["program"][1]
           a == attachInterrupt(n, to.function, to.mode)
<1>1. /\ a[1] = I("put", Low(n), {}, {to.function})
      /\ a[2] = I("put", High(n), {}, {to.function})
      /\ a[3].does = "load"
      /\ a[4].does = "store" /\ a[4].register = "EICRA"
      /\ a[5] = I("change", "EIMSK", {}, {n})
  BY AttachIs
<1>2. "program" \in Context BY DEF Context
<1>3. i.does \in {"put", "load", "store", "change"} /\ i = a[k + 1]
  <2>1. k + 1 \in {1, 2, 3, 4, 5} OBVIOUS
  <2> HIDE DEF i, a
  <2>2. i = a[k + 1] BY DEF i, a
  <2> QED BY <1>1, <2>1, <2>2 DEF I
<1>4. enabled' = enabled
  <2>1. enabled' = CASE i.does = "cli" -> FALSE [] i.does = "sei" -> TRUE
                     [] i.does = "restore" -> oldSREG["program"] [] OTHER -> enabled
    BY <1>2, StepDoes
  <2> HIDE DEF i
  <2> QED BY <1>3, <2>1
<1>5. \A m \in Number :
        /\ Low(m) # High(m) /\ Low(m) # "EIMSK" /\ High(m) # "EIMSK"
        /\ Low(m) # "EICRA" /\ High(m) # "EICRA"
        /\ \A j \in Number : j # m => /\ Low(j) # Low(m) /\ High(j) # High(m)
                                      /\ Low(j) # High(m) /\ High(j) # Low(m)
  <2>1. \A m \in Number : Low(m) \in Watched /\ High(m) \in Watched BY OwnBytes
  <2>2. "EICRA" \notin Watched BY WatchedNames
  <2> QED BY <2>1, <2>2, OwnBytes
<1>6. CASE k = 0
  <2>1. i = I("put", Low(n), {}, {to.function}) BY <1>1, <1>3, <1>6
  <2>2. i.does = "put" /\ i.register = Low(n) /\ i.set = {to.function} BY <2>1 DEF I
  <2>3. Stores(Low(n), {to.function}) BY <1>2, <2>2, StepDoes
  <2> QED BY <1>4, <1>5, <1>6, <2>3, OthersAreAsTheyWere
<1>7. CASE k = 1
  <2>1. i = I("put", High(n), {}, {to.function}) BY <1>1, <1>3, <1>7
  <2>2. i.does = "put" /\ i.register = High(n) /\ i.set = {to.function} BY <2>1 DEF I
  <2>3. Stores(High(n), {to.function}) BY <1>2, <2>2, StepDoes
  <2> QED BY <1>4, <1>5, <1>7, <2>3, OthersAreAsTheyWere
<1>8. CASE k = 2
  <2>1. i.does = "load" BY <1>1, <1>3, <1>8
  <2>2. register' = register BY <1>2, <2>1, StepDoes
  <2> QED BY <1>4, <1>8, <2>2 DEF Enabled
<1>9. CASE k = 3
  <2>1. i.does = "store" /\ i.register = "EICRA" BY <1>1, <1>3, <1>9
  <2>4. \E v : Stores(i.register, v)
    <3>1. i.does \notin {"cli", "sei", "restore", "load"} BY <2>1
    <3> HIDE DEF i
    <3> QED BY <1>2, <3>1, StepDoes DEF i
  <2>2. PICK v : Stores("EICRA", v) BY <2>1, <2>4
  <2> QED BY <1>4, <1>5, <1>9, <2>2, OthersAreAsTheyWere
<1>10. CASE k = 4
  <2>1. i = I("change", "EIMSK", {}, {n}) BY <1>1, <1>3, <1>10
  <2>2. i.does = "change" /\ i.register = "EIMSK" /\ i.clear = {} /\ i.set = {n} BY <2>1 DEF I
  <2> DEFINE v == (register["EIMSK"] \ {}) \cup {n}
  <2>3. Stores("EIMSK", v) BY <1>2, <2>2, StepDoes
  <2>4. \A m : m \in v <=> m \in register["EIMSK"] \/ m = n OBVIOUS
  <2> HIDE DEF v
  <2>5. register'["EIMSK"] = v BY <2>3, OthersAreAsTheyWere
  <2>6. \A m \in Number : register'[Low(m)] = register[Low(m)] /\ register'[High(m)] = register[High(m)]
    BY <1>5, <2>3, OthersAreAsTheyWere
  <2> QED BY <1>4, <1>10, <2>4, <2>5, <2>6 DEF Enabled
<1> QED BY <1>6, <1>7, <1>8, <1>9, <1>10

LEMMA DetachChanges ==
  ASSUME CallsInv, NEW n \in Number, NEW k \in 0..2, NEW c \in Context,
         Step(c), todo[c] # << >>, Head(todo[c]) = todo[c][1], todo[c][1] \in Instruction,
         todo[c][1] = detachInterrupt(n)[k + 1]
  PROVE /\ todo[c][1].does \in {"change", "put"}
        /\ \A m \in Number : m # n =>
             /\ Enabled(m)' <=> Enabled(m)
             /\ register'[Low(m)] = register[Low(m)] /\ register'[High(m)] = register[High(m)]
        /\ Enabled(n)' <=> Enabled(n) /\ k > 0
<1> DEFINE i == todo[c][1]
           d == detachInterrupt(n)
<1>1. /\ d[1] = I("change", "EIMSK", {n}, {})
      /\ d[2] = I("put", Low(n), {}, {"nothing"})
      /\ d[3] = I("put", High(n), {}, {"nothing"})
  BY DetachIs
<1>2. \A m \in Number :
        /\ Low(m) # High(m) /\ Low(m) # "EIMSK" /\ High(m) # "EIMSK"
        /\ \A j \in Number : j # m => /\ Low(j) # Low(m) /\ High(j) # High(m)
                                      /\ Low(j) # High(m) /\ High(j) # Low(m)
  BY OwnBytes
<1>3. CASE k = 0
  <2>1. i = I("change", "EIMSK", {n}, {}) BY <1>1, <1>3
  <2>2. i.does = "change" /\ i.register = "EIMSK" /\ i.clear = {n} /\ i.set = {} BY <2>1 DEF I
  <2> DEFINE v == (register["EIMSK"] \ {n}) \cup {}
  <2>3. Stores("EIMSK", v) BY <2>2, StepDoes
  <2>4. \A m : m \in v <=> m \in register["EIMSK"] /\ m # n OBVIOUS
  <2> HIDE DEF v
  <2>5. register'["EIMSK"] = v BY <2>3, OthersAreAsTheyWere
  <2>6. \A m \in Number : register'[Low(m)] = register[Low(m)] /\ register'[High(m)] = register[High(m)]
    BY <1>2, <2>3, OthersAreAsTheyWere
  <2> QED BY <1>3, <2>2, <2>4, <2>5, <2>6 DEF Enabled
<1>4. CASE k = 1
  <2>1. i = I("put", Low(n), {}, {"nothing"}) BY <1>1, <1>4
  <2>2. i.does = "put" /\ i.register = Low(n) /\ i.set = {"nothing"} BY <2>1 DEF I
  <2>3. Stores(Low(n), {"nothing"}) BY <2>2, StepDoes
  <2> QED BY <1>2, <1>4, <2>2, <2>3, OthersAreAsTheyWere
<1>5. CASE k = 2
  <2>1. i = I("put", High(n), {}, {"nothing"}) BY <1>1, <1>5
  <2>2. i.does = "put" /\ i.register = High(n) /\ i.set = {"nothing"} BY <2>1 DEF I
  <2>3. Stores(High(n), {"nothing"}) BY <2>2, StepDoes
  <2> QED BY <1>2, <1>5, <2>2, <2>3, OthersAreAsTheyWere
<1> QED BY <1>3, <1>4, <1>5

(* The program's call goes on, or returns. *)
LEMMA CallGoesOn ==
  ASSUME CallsInv, Execute("program"), NEW n \in Number, changing.number = n, NEW all, NEW k,
         Left(todo["program"], all, k), k < Len(all)
  PROVE LET s == todo["program"]
        IN  /\ Step("program") /\ s # << >> /\ Head(s) = s[1] /\ s[1] = all[k + 1]
            /\ s[1] \in Instruction
            /\ Types' /\ todo["handler"] = << >> /\ todo'["handler"] = << >>
            /\ k + 1 # Len(all) => /\ changing' = changing /\ attached' = attached
                                   /\ Left(todo'["program"], all, k + 1)
            /\ k + 1 = Len(all) => Returns /\ todo'["program"] = << >>
<1> DEFINE s == todo["program"]
<1>1. /\ s # << >> /\ Head(s) = s[1] /\ s[1] = all[k + 1] /\ s[1] \in Instruction
      /\ Left(Tail(s), all, k + 1) /\ (Len(s) = 1 <=> k + 1 = Len(all))
      /\ (Tail(s) = << >> <=> k + 1 = Len(all))
  BY NextLeft
<1>2. "program" \in Context /\ "handler" \in Context /\ Step("program")
  BY DEF Context, Execute
<1>3. changing # NoChange BY DEF NoChange, Number, EXTERNAL_NUM_INTERRUPTS
<1>4. IF k + 1 = Len(all) THEN Returns ELSE UNCHANGED <<attached, changing>>
  BY <1>1 DEF Execute
<1>5. Types' /\ todo'["program"] = Tail(s) /\ todo'["handler"] = todo["handler"]
  BY <1>1, <1>2, <1>3, <1>4, StepTypes
<1>6. todo["handler"] = << >> BY <1>1, <1>2, StepDoes
<1> QED BY <1>1, <1>2, <1>4, <1>5, <1>6

LEMMA OthersArePointed ==
  ASSUME CallsInv, todo["handler"] = << >>, NEW n \in Number, changing.number = n,
         attached' = attached \/ Returns,
         NEW m \in Number, m # n, Enabled(m)' <=> Enabled(m),
         register'[Low(m)] = register[Low(m)], register'[High(m)] = register[High(m)]
  PROVE Enabled(m)' => PointsTo(m)'
<1>1. SUFFICES ASSUME Enabled(m)' PROVE PointsTo(m)' OBVIOUS
<1>2. ~Replacing(m) BY DEF Replacing
<1>3. PointsTo(m) BY <1>1, <1>2, NoHandler
<1>4. attached'[m] = attached[m] BY DEF Returns
<1> QED BY <1>3, <1>4 DEF PointsTo, LowIs, HighIs

(* Attached as changing has it, when attachInterrupt returns. *)
LEMMA ReturnsAttached ==
  ASSUME CallsInv, Returns, NEW n \in Number, changing.number = n, changing.to \in Attachment,
         register'[Low(n)] = {changing.to.function}, register'[High(n)] = {changing.to.function}
  PROVE PointsTo(n)'
<1>1. attached'[n] = changing.to BY DEF Returns
<1>2. changing.to.function # "nothing" BY InterruptsAssumption DEF Attachment
<1>3. changing.to # None BY <1>2 DEF None
<1> QED BY <1>1, <1>3 DEF PointsTo, LowIs, HighIs

LEMMA CallReturns ==
  ASSUME todo'["program"] = << >>, Returns
  PROVE Calling'
<1>1. (changing = NoChange)' BY DEF Returns
<1>2. Neutral(todo'["program"]) BY NothingIsNeutral
<1> QED BY <1>1, <1>2 DEF Calling

LEMMA AttachingKeeps ==
  ASSUME CallsInv, Execute("program"), NEW n \in Number, NEW k \in 0..6,
         changing.number = n, Attaching(n, changing.to, k)
  PROVE CallsInv'
<1> DEFINE to == changing.to
           f == changing.to.function
           a == attachInterrupt(n, to.function, to.mode)
<1>1. /\ k \in 0..4 /\ to \in Attachment /\ Left(todo["program"], a, k)
      /\ ~Enabled(n) /\ attached[n] = None
      /\ (k >= 1 => LowIs(n, f)) /\ (k >= 2 => HighIs(n, f))
  BY DEF Attaching
<1>2. a \in Seq(Instruction) /\ Len(a) = 5 BY <1>1, AttachIs
<1>3. /\ Step("program") /\ todo["program"] # << >> /\ Head(todo["program"]) = todo["program"][1]
      /\ todo["program"][1] = a[k + 1] /\ todo["program"][1] \in Instruction
      /\ Types' /\ todo["handler"] = << >> /\ todo'["handler"] = << >>
      /\ k # 4 => changing' = changing /\ attached' = attached /\ Left(todo'["program"], a, k + 1)
      /\ k = 4 => Returns /\ todo'["program"] = << >>
  <2> HIDE DEF a
  <2>1. Left(todo["program"], a, k) /\ k < Len(a) BY <1>1, <1>2
  <2>2. /\ Step("program") /\ todo["program"] # << >> /\ Head(todo["program"]) = todo["program"][1]
        /\ todo["program"][1] = a[k + 1] /\ todo["program"][1] \in Instruction
        /\ Types' /\ todo["handler"] = << >> /\ todo'["handler"] = << >>
        /\ k + 1 # Len(a) => /\ changing' = changing /\ attached' = attached
                             /\ Left(todo'["program"], a, k + 1)
        /\ k + 1 = Len(a) => Returns /\ todo'["program"] = << >>
    BY <2>1, CallGoesOn
  <2>3. k + 1 = Len(a) <=> k = 4 BY <1>1, <1>2
  <2> QED BY <2>2, <2>3
<1>4. /\ \A m \in Number : m # n =>
             /\ Enabled(m)' <=> Enabled(m)
             /\ register'[Low(m)] = register[Low(m)] /\ register'[High(m)] = register[High(m)]
      /\ register'[Low(n)] = IF k = 0 THEN {f} ELSE register[Low(n)]
      /\ register'[High(n)] = IF k = 1 THEN {f} ELSE register[High(n)]
      /\ Enabled(n)' <=> Enabled(n) \/ k = 4
  <2>1. /\ to \in Attachment /\ k \in 0..4 /\ Step("program") /\ todo["program"] # << >>
        /\ Head(todo["program"]) = todo["program"][1] /\ todo["program"][1] \in Instruction
        /\ todo["program"][1] = attachInterrupt(n, to.function, to.mode)[k + 1]
    BY <1>1, <1>3
  <2> HIDE DEF to
  <2> QED BY <2>1, AttachChanges DEF to
<1>5. register'[Low(n)] = {f} /\ (k >= 1 => register'[High(n)] = {f})
  BY <1>1, <1>4 DEF LowIs, HighIs
<1>6. CASE k = 4
  <2>1. Returns /\ todo'["program"] = << >> BY <1>3, <1>6
  <2>2. Calling' BY <2>1, CallReturns
  <2>3. Handling' BY <1>3 DEF Handling
  <2>4. PointsTo(n)' BY <1>1, <1>5, <1>6, <2>1, ReturnsAttached
  <2>5. Pointed'
    <3>1. \A m \in Number : m # n => (Enabled(m)' => PointsTo(m)')
      BY <1>3, <1>4, <2>1, OthersArePointed
    <3> QED BY <2>4, <3>1 DEF Pointed
  <2> QED BY <1>3, <2>2, <2>3, <2>5 DEF CallsInv
<1>7. CASE k # 4
  <2>1. changing' = changing /\ attached' = attached /\ Left(todo'["program"], a, k + 1)
    BY <1>3, <1>7
  <2>2. ~Enabled(n)' BY <1>1, <1>4, <1>7
  <2>3. Attaching(n, to, k + 1)'
    <3>1. k + 1 < 5 /\ to' = to /\ f' = f BY <1>1, <1>7, <2>1
    <3>2. (LowIs(n, f))' /\ (k + 1 >= 2 => (HighIs(n, f))')
      BY <1>1, <1>5, <3>1 DEF LowIs, HighIs
    <3>3. Left(todo["program"], a, k + 1)' BY <2>1, <3>1
    <3>4. attached'[n] = None BY <1>1, <2>1
    <3> QED BY <1>1, <2>2, <3>1, <3>2, <3>3, <3>4 DEF Attaching
  <2>4. Calling'
    <3>1. k + 1 \in 0..6 /\ changing'.number = n BY <1>1, <2>1
    <3> QED BY <2>3, <3>1 DEF Calling
  <2>5. Handling' BY <1>3 DEF Handling
  <2>6. Pointed'
    <3>1. \A m \in Number : m # n => (Enabled(m)' => PointsTo(m)')
      BY <1>3, <1>4, <2>1, OthersArePointed
    <3> QED BY <2>2, <3>1 DEF Pointed
  <2> QED BY <1>3, <2>4, <2>5, <2>6 DEF CallsInv
<1> QED BY <1>6, <1>7

LEMMA AttachingAnewKeeps ==
  ASSUME CallsInv, Execute("program"), NEW n \in Number, NEW k \in 0..6,
         changing.number = n, AttachingAnew(n, changing.to, k)
  PROVE CallsInv'
<1> DEFINE to == changing.to
           f == changing.to.function
           a == attachInterrupt(n, to.function, to.mode)
           w == WithoutInterrupts(a)
<1>1. /\ to \in Attachment /\ Left(todo["program"], w, k)
      /\ (k >= 1 => ~enabled)
      /\ (k >= 2 => LowIs(n, f)) /\ (k >= 3 => HighIs(n, f))
  BY DEF AttachingAnew
<1>2. /\ w \in Seq(Instruction) /\ Len(w) = 7 /\ w[1].does = "cli" /\ w[7].does = "sei"
      /\ \A j \in 1..5 : w[j + 1] = a[j]
  BY <1>1, AnewIs
<1>3. /\ Step("program") /\ todo["program"] # << >> /\ Head(todo["program"]) = todo["program"][1]
      /\ todo["program"][1] = w[k + 1] /\ todo["program"][1] \in Instruction
      /\ Types' /\ todo["handler"] = << >> /\ todo'["handler"] = << >>
      /\ k # 6 => changing' = changing /\ attached' = attached /\ Left(todo'["program"], w, k + 1)
      /\ k = 6 => Returns /\ todo'["program"] = << >>
  <2> HIDE DEF w
  <2>1. Left(todo["program"], w, k) /\ k < Len(w) BY <1>1, <1>2
  <2>2. /\ Step("program") /\ todo["program"] # << >> /\ Head(todo["program"]) = todo["program"][1]
        /\ todo["program"][1] = w[k + 1] /\ todo["program"][1] \in Instruction
        /\ Types' /\ todo["handler"] = << >> /\ todo'["handler"] = << >>
        /\ k + 1 # Len(w) => /\ changing' = changing /\ attached' = attached
                             /\ Left(todo'["program"], w, k + 1)
        /\ k + 1 = Len(w) => Returns /\ todo'["program"] = << >>
    BY <2>1, CallGoesOn
  <2>3. k + 1 = Len(w) <=> k = 6 BY <1>1, <1>2
  <2> QED BY <2>2, <2>3
<1>4. "program" \in Context BY DEF Context
<1>5. Handling' BY <1>3 DEF Handling
<1>6. CASE k = 0 \/ k = 6
  <2>1. register' = register /\ (k = 0 => enabled' = FALSE)
    <3> DEFINE i == todo["program"][1]
    <3>1. i.does = IF k = 0 THEN "cli" ELSE "sei"
      <4>1. 0 + 1 = 1 /\ 6 + 1 = 7 OBVIOUS
      <4> HIDE DEF i, w
      <4>2. i = w[k + 1] BY <1>3 DEF i
      <4>3. CASE k = 0 BY <1>2, <4>1, <4>2, <4>3
      <4>4. CASE k = 6 BY <1>2, <4>1, <4>2, <4>4
      <4> QED BY <1>6, <4>3, <4>4
    <3>2. /\ (i.does \in {"cli", "sei", "restore", "load"} /\ register' = register)
             \/ i.does \in {"change", "put", "store"}
          /\ enabled' = CASE i.does = "cli" -> FALSE [] i.does = "sei" -> TRUE
                           [] i.does = "restore" -> oldSREG["program"] [] OTHER -> enabled
      BY <1>3, <1>4, StepDoes
    <3> HIDE DEF i
    <3> QED BY <3>1, <3>2
  <2>2. \A m \in Number : Enabled(m)' <=> Enabled(m) BY <2>1 DEF Enabled
  <2>3. CASE k = 6
    <3>1. Returns /\ todo'["program"] = << >> BY <1>3, <2>3
    <3>2. Calling' BY <3>1, CallReturns
    <3>3. PointsTo(n)'
      <4>1. register'[Low(n)] = {f} /\ register'[High(n)] = {f}
        BY <1>1, <2>1, <2>3 DEF LowIs, HighIs
      <4> QED BY <1>1, <3>1, <4>1, ReturnsAttached
    <3>4. \A m \in Number : m # n => (Enabled(m)' => PointsTo(m)')
      BY <1>3, <2>1, <2>2, <3>1, OthersArePointed
    <3>5. Pointed' BY <3>3, <3>4 DEF Pointed
    <3> QED BY <1>3, <1>5, <3>2, <3>5 DEF CallsInv
  <2>4. CASE k = 0
    <3>1. changing' = changing /\ attached' = attached /\ Left(todo'["program"], w, k + 1)
      BY <1>3, <2>4
    <3>2. AttachingAnew(n, to, 1)'
      <4>1. to' = to /\ f' = f /\ 0 + 1 = 1 BY <3>1
      <4>2. Left(todo["program"], w, 1)' BY <2>4, <3>1, <4>1
      <4>3. ~enabled' /\ todo'["handler"] = << >> BY <1>3, <2>1, <2>4
      <4> QED BY <1>1, <4>1, <4>2, <4>3 DEF AttachingAnew
    <3>3. 1 \in 0..6 /\ 1 \in 1..6 /\ changing'.number = n BY <3>1
    <3>4. Calling' BY <3>2, <3>3 DEF Calling
    <3>5. Replacing(n)' BY <3>2, <3>3 DEF Replacing
    <3>6. \A m \in Number : m # n => (Enabled(m)' => PointsTo(m)')
      BY <1>3, <2>1, <2>2, <3>1, OthersArePointed
    <3>7. Pointed' BY <3>5, <3>6 DEF Pointed
    <3> QED BY <1>3, <1>5, <3>4, <3>7 DEF CallsInv
  <2> QED BY <1>6, <2>3, <2>4
<1>7. CASE k # 0 /\ k # 6
  <2>1. k - 1 \in 0..4 /\ k \in 1..5 /\ (k - 1) + 1 = k BY <1>7
  <2>2. todo["program"][1] = a[k] BY <1>2, <1>3, <2>1
  <2>3. todo["program"][1] = a[(k - 1) + 1] BY <2>1, <2>2
  <2>4. /\ enabled' = enabled
        /\ \A m \in Number : m # n =>
             /\ Enabled(m)' <=> Enabled(m)
             /\ register'[Low(m)] = register[Low(m)] /\ register'[High(m)] = register[High(m)]
        /\ register'[Low(n)] = IF k - 1 = 0 THEN {f} ELSE register[Low(n)]
        /\ register'[High(n)] = IF k - 1 = 1 THEN {f} ELSE register[High(n)]
    BY <1>1, <1>3, <2>1, <2>3, AttachChanges
  <2>5. register'[Low(n)] = {f} /\ (k >= 2 => register'[High(n)] = {f})
    BY <1>1, <2>1, <2>4 DEF LowIs, HighIs
  <2>6. changing' = changing /\ attached' = attached /\ Left(todo'["program"], w, k + 1)
    BY <1>3, <1>7
  <2>7. AttachingAnew(n, to, k + 1)'
    <3>1. to' = to /\ f' = f /\ k + 1 < 7 BY <1>7, <2>1, <2>6
    <3>2. Left(todo["program"], w, k + 1)' BY <2>6, <3>1
    <3>3. ~enabled' /\ todo'["handler"] = << >> BY <1>1, <1>3, <2>1, <2>4
    <3>4. (LowIs(n, f))' /\ (k + 1 >= 3 => (HighIs(n, f))')
      BY <2>1, <2>5, <3>1 DEF LowIs, HighIs
    <3> QED BY <1>1, <3>1, <3>2, <3>3, <3>4 DEF AttachingAnew
  <2>8. k + 1 \in 0..6 /\ k + 1 \in 1..6 /\ changing'.number = n BY <2>1, <2>6
  <2>9. Calling' BY <2>7, <2>8 DEF Calling
  <2>10. Replacing(n)' BY <2>7, <2>8 DEF Replacing
  <2>11. \A m \in Number : m # n => (Enabled(m)' => PointsTo(m)')
    BY <1>3, <2>4, <2>6, OthersArePointed
  <2>12. Pointed' BY <2>10, <2>11 DEF Pointed
  <2> QED BY <1>3, <1>5, <2>9, <2>12 DEF CallsInv
<1> QED BY <1>6, <1>7

LEMMA DetachingKeeps ==
  ASSUME CallsInv, Execute("program"), NEW n \in Number, NEW k \in 0..6,
         changing.number = n, Detaching(n, changing.to, k)
  PROVE CallsInv'
<1> DEFINE to == changing.to
           d == detachInterrupt(n)
<1>1. k \in 0..2 /\ Left(todo["program"], d, k) /\ to = None /\ (k >= 1 => ~Enabled(n))
  BY DEF Detaching
<1>2. d \in Seq(Instruction) /\ Len(d) = 3 BY DetachIs
<1>3. /\ Step("program") /\ todo["program"] # << >> /\ Head(todo["program"]) = todo["program"][1]
      /\ todo["program"][1] = d[k + 1] /\ todo["program"][1] \in Instruction
      /\ Types' /\ todo["handler"] = << >> /\ todo'["handler"] = << >>
      /\ k # 2 => changing' = changing /\ attached' = attached /\ Left(todo'["program"], d, k + 1)
      /\ k = 2 => Returns /\ todo'["program"] = << >>
  <2> HIDE DEF d
  <2>1. Left(todo["program"], d, k) /\ k < Len(d) BY <1>1, <1>2
  <2>2. /\ Step("program") /\ todo["program"] # << >> /\ Head(todo["program"]) = todo["program"][1]
        /\ todo["program"][1] = d[k + 1] /\ todo["program"][1] \in Instruction
        /\ Types' /\ todo["handler"] = << >> /\ todo'["handler"] = << >>
        /\ k + 1 # Len(d) => /\ changing' = changing /\ attached' = attached
                             /\ Left(todo'["program"], d, k + 1)
        /\ k + 1 = Len(d) => Returns /\ todo'["program"] = << >>
    BY <2>1, CallGoesOn
  <2>3. k + 1 = Len(d) <=> k = 2 BY <1>1, <1>2
  <2> QED BY <2>2, <2>3
<1>4. "program" \in Context BY DEF Context
<1>5. /\ \A m \in Number : m # n =>
             /\ Enabled(m)' <=> Enabled(m)
             /\ register'[Low(m)] = register[Low(m)] /\ register'[High(m)] = register[High(m)]
      /\ Enabled(n)' <=> Enabled(n) /\ k > 0
  BY <1>1, <1>3, <1>4, DetachChanges
<1>6. ~Enabled(n)' BY <1>1, <1>5
<1>7. Handling' BY <1>3 DEF Handling
<1>8. Pointed'
  <2>1. attached' = attached \/ Returns BY <1>3
  <2>2. \A m \in Number : m # n => (Enabled(m)' => PointsTo(m)')
    BY <1>3, <1>5, <2>1, OthersArePointed
  <2> QED BY <1>6, <2>2 DEF Pointed
<1>9. Calling'
  <2>1. CASE k = 2
    <3>1. Returns /\ todo'["program"] = << >> BY <1>3, <2>1
    <3> QED BY <3>1, CallReturns
  <2>2. CASE k # 2
    <3>1. changing' = changing /\ Left(todo'["program"], d, k + 1) BY <1>3, <2>2
    <3>2. k + 1 < 3 /\ k + 1 \in 0..6 /\ changing'.number = n /\ to' = None BY <1>1, <2>2, <3>1
    <3>3. Detaching(n, to, k + 1)' BY <1>6, <3>1, <3>2 DEF Detaching
    <3> QED BY <3>2, <3>3 DEF Calling
  <2> QED BY <2>1, <2>2
<1> QED BY <1>3, <1>7, <1>8, <1>9 DEF CallsInv

LEMMA ProgramKeeps == ASSUME CallsInv, Execute("program") PROVE CallsInv'
<1>1. CASE changing = NoChange /\ Neutral(todo["program"])
  <2>1. todo["program"] # << >> BY DEF Execute, Step, Running
  <2> QED BY <1>1, <2>1, NeutralKeeps
<1>2. CASE \E n \in Number : \E k \in 0..6 :
             /\ changing.number = n
             /\ \/ Attaching(n, changing.to, k) \/ AttachingAnew(n, changing.to, k)
                \/ Detaching(n, changing.to, k)
  <2>1. PICK n \in Number, k \in 0..6 :
          /\ changing.number = n
          /\ \/ Attaching(n, changing.to, k) \/ AttachingAnew(n, changing.to, k)
             \/ Detaching(n, changing.to, k)
    BY <1>2
  <2> QED BY <2>1, AttachingKeeps, AttachingAnewKeeps, DetachingKeeps
<1> QED BY <1>1, <1>2 DEF CallsInv, Calling

-----------------------------------------------------------------------------
(* The handler's instructions. *)

(* The program's call is where it was, unless it is for an interrupt whose  *)
(* handler detaches it: then none of it is done.                            *)
LEMMA CallWaits ==
  ASSUME CallsInv, todo["handler"] # << >> \/ enabled, UNCHANGED changing,
         todo'["program"] = todo["program"],
         \A n \in Number : Enabled(n)' => Enabled(n),
         \A n \in Number : changing.number = n =>
           \/ AttachingAnew(n, changing.to, 0) \/ Detaching(n, changing.to, 0)
           \/ /\ attached'[n] = attached[n]
              /\ register'[Low(n)] = register[Low(n)] /\ register'[High(n)] = register[High(n)]
  PROVE /\ Calling'
        /\ \A n \in Number : AttachingAnew(n, changing.to, 0) => AttachingAnew(n, changing.to, 0)'
        /\ \A n \in Number : Detaching(n, changing.to, 0) => Detaching(n, changing.to, 0)'
<1>1. \A n \in Number : AttachingAnew(n, changing.to, 0) => AttachingAnew(n, changing.to, 0)'
  BY DEF AttachingAnew
<1>2. \A n \in Number : Detaching(n, changing.to, 0) => Detaching(n, changing.to, 0)'
  BY DEF Detaching
<1>3. ASSUME changing = NoChange, Neutral(todo["program"]) PROVE Calling' BY <1>3 DEF Calling
<1>4. ASSUME \E n \in Number : \E k \in 0..6 :
               /\ changing.number = n
               /\ \/ Attaching(n, changing.to, k) \/ AttachingAnew(n, changing.to, k)
                  \/ Detaching(n, changing.to, k)
      PROVE Calling'
  <2>1. PICK n \in Number, k \in 0..6 :
          /\ changing.number = n
          /\ \/ Attaching(n, changing.to, k) \/ AttachingAnew(n, changing.to, k)
             \/ Detaching(n, changing.to, k)
    BY <1>4
  <2>2. changing'.number = n /\ 0 \in 0..6 BY <2>1
  <2>3. CASE AttachingAnew(n, changing.to, 0) \/ Detaching(n, changing.to, 0)
    BY <1>1, <1>2, <2>2, <2>3 DEF Calling
  <2>4. CASE /\ attached'[n] = attached[n]
             /\ register'[Low(n)] = register[Low(n)] /\ register'[High(n)] = register[High(n)]
    <3>1. CASE Attaching(n, changing.to, k)
      <4>1. changing'.number = n /\ Attaching(n, changing.to, k)' BY <2>2, <2>4, <3>1 DEF Attaching, LowIs, HighIs
      <4> QED BY <4>1 DEF Calling
    <3>2. CASE AttachingAnew(n, changing.to, k)
      <4>1. k = 0 BY <3>2 DEF AttachingAnew
      <4> QED BY <2>3, <3>2, <4>1
    <3>3. CASE Detaching(n, changing.to, k)
      <4>1. changing'.number = n /\ Detaching(n, changing.to, k)' BY <2>2, <3>3 DEF Detaching
      <4> QED BY <4>1 DEF Calling
    <3> QED BY <2>1, <3>1, <3>2, <3>3
  <2> QED BY <2>1, <2>3, <2>4
<1> QED BY <1>1, <1>2, <1>3, <1>4 DEF CallsInv, Calling

(* While a handler runs nothing is being attached anew. *)
LEMMA NothingReplaced ==
  ASSUME CallsInv, todo["handler"] # << >> \/ enabled, NEW n \in Number
  PROVE ~Replacing(n)
BY DEF Replacing, AttachingAnew

LEMMA GuardedKeeps ==
  ASSUME CallsInv, Execute("handler"), ~enabled, NEW k \in 0..1,
         Left(todo["handler"], Guarded(<< >>), k), k = 1 => ~oldSREG["handler"]
  PROVE CallsInv'
<1> DEFINE s == todo["handler"]
           g == Guarded(<< >>)
           i == s[1]
<1>1. g \in Seq(Instruction) /\ Len(g) = 2 /\ g[1].does = "cli" /\ g[2].does = "restore"
  BY NothingGuardedIs
<1>2. /\ s # << >> /\ Head(s) = s[1] /\ i = g[k + 1] /\ i \in Instruction
      /\ Left(Tail(s), g, k + 1)
      /\ (Len(s) = 1 <=> k = 1) /\ (Tail(s) = << >> <=> k = 1)
  <2> HIDE DEF g
  <2>1. k < Len(g) BY <1>1
  <2>2. k + 1 = Len(g) <=> k = 1 BY <1>1
  <2>3. Left(s, g, k) BY DEF g
  <2> HIDE DEF s
  <2> QED BY <2>1, <2>2, <2>3, NextLeft
<1>3. i.does = IF k = 0 THEN "cli" ELSE "restore"
  <2>1. 0 + 1 = 1 /\ 1 + 1 = 2 OBVIOUS
  <2> HIDE DEF i, g
  <2>2. CASE k = 0 BY <1>1, <1>2, <2>1, <2>2
  <2>3. CASE k = 1 BY <1>1, <1>2, <2>1, <2>3
  <2> QED BY <2>2, <2>3
<1>4. "program" \in Context /\ "handler" \in Context /\ "program" # "handler" /\ Step("handler")
      /\ UNCHANGED <<attached, changing>>
  BY DEF Context, Execute
<1>5. Types' /\ todo'["handler"] = Tail(s) /\ todo'["program"] = todo["program"]
  BY <1>2, <1>4, StepTypes
<1>6. /\ register' = register
      /\ i.does = "cli" => oldSREG'["handler"] = enabled
      /\ Len(s) # 1 => enabled' = CASE i.does = "cli" -> FALSE [] i.does = "sei" -> TRUE
                                     [] i.does = "restore" -> oldSREG["handler"] [] OTHER -> enabled
      /\ Len(s) = 1 => enabled' = TRUE
  <2>1. /\ (i.does \in {"cli", "sei", "restore", "load"} /\ register' = register)
           \/ i.does \in {"change", "put", "store"}
        /\ i.does = "cli" => oldSREG'["handler"] = enabled
        /\ ~("handler" = "handler" /\ Len(s) = 1) =>
             enabled' = CASE i.does = "cli" -> FALSE [] i.does = "sei" -> TRUE
                          [] i.does = "restore" -> oldSREG["handler"] [] OTHER -> enabled
        /\ "handler" = "handler" /\ Len(s) = 1 => enabled' = TRUE
    BY <1>2, <1>4, StepDoes
  <2> HIDE DEF i, s
  <2> QED BY <1>3, <2>1
<1>7. ASSUME NEW n \in Number
      PROVE (Enabled(n)' <=> Enabled(n)) /\ (Enabled(n) => PointsTo(n)')
  <2>1. Enabled(n)' <=> Enabled(n) BY <1>6 DEF Enabled
  <2>2. ~Replacing(n) BY <1>2, NothingReplaced
  <2>3. ~DetachesItself(n, 0)
    <3>1. SUFFICES ASSUME DetachesItself(n, 0) PROVE FALSE OBVIOUS
    <3>2. Left(s, detachInterrupt(n), 0) BY <3>1 DEF DetachesItself
    <3>3. s[1] = detachInterrupt(n)[0 + 1] BY <1>2, <3>2, NextLeft
    <3>6. detachInterrupt(n)[1] = I("change", "EIMSK", {n}, {}) BY DetachIs
    <3>4. detachInterrupt(n)[1].does = "change" /\ 0 + 1 = 1 BY <3>6 DEF I
    <3>5. i.does = "change" BY <3>3, <3>4
    <3> HIDE DEF i
    <3> QED BY <1>3, <3>5
  <2>4. Enabled(n) => PointsTo(n) BY <2>2, <2>3 DEF CallsInv, Pointed
  <2> QED BY <1>4, <1>6, <2>1, <2>4 DEF PointsTo, LowIs, HighIs
<1>8. Pointed' BY <1>7 DEF Pointed
<1>9. Calling'
  <2>1. \A n \in Number : Enabled(n)' => Enabled(n) BY <1>7
  <2> QED BY <1>2, <1>4, <1>5, <1>6, <2>1, CallWaits
<1>10. Handling'
  <2>1. CASE k = 1 BY <1>2, <1>5, <2>1 DEF Handling
  <2>2. CASE k = 0
    <3>1. ~enabled' /\ ~oldSREG'["handler"]
      <4>1. i.does = "cli" /\ Len(s) # 1 BY <1>2, <1>3, <2>2
      <4> HIDE DEF i
      <4> QED BY <1>6, <4>1
    <3>2. Left(todo'["handler"], g, 1)
      <4>1. 0 + 1 = 1 OBVIOUS
      <4> QED BY <1>2, <1>5, <2>2, <4>1
    <3>3. 1 \in 0..1 OBVIOUS
    <3>4. (Left(todo["handler"], Guarded(<< >>), 1))' BY <3>2
    <3> HIDE DEF g
    <3> QED BY <3>1, <3>3, <3>4 DEF Handling
  <2> QED BY <2>1, <2>2
<1> QED BY <1>5, <1>8, <1>9, <1>10 DEF CallsInv

LEMMA DetachingItselfKeeps ==
  ASSUME CallsInv, Execute("handler"), ~enabled, NEW n \in Number, NEW k \in 0..2,
         DetachesItself(n, k)
  PROVE CallsInv'
<1> DEFINE s == todo["handler"]
           d == detachInterrupt(n)
           i == s[1]
<1>1. Left(s, d, k) /\ attached[n] = None /\ (k >= 1 => ~Enabled(n))
      /\ (changing.number = n =>
            AttachingAnew(n, changing.to, 0) \/ Detaching(n, changing.to, 0))
  BY DEF DetachesItself
<1>2. Len(d) = 3 BY DetachIs
<1>3. s # << >> BY DEF Execute, Step, Running
<1>4. /\ Head(s) = s[1] /\ i = d[k + 1] /\ i \in Instruction /\ Left(Tail(s), d, k + 1)
      /\ (Len(s) = 1 <=> k = 2) /\ (Tail(s) = << >> <=> k = 2)
  <2>1. k + 1 = Len(d) <=> k = 2 BY <1>2
  <2>2. Left(s, d, k) /\ s # << >> BY <1>1, <1>3
  <2> HIDE DEF d, s
  <2>3. /\ Head(s) = s[1] /\ s[1] = d[k + 1] /\ s[1] \in Instruction /\ Left(Tail(s), d, k + 1)
        /\ (Len(s) = 1 <=> k + 1 = Len(d)) /\ (Tail(s) = << >> <=> k + 1 = Len(d))
    BY <2>2, NextLeft
  <2> QED BY <2>1, <2>3
<1>5. "program" \in Context /\ "handler" \in Context /\ "program" # "handler" /\ Step("handler")
      /\ UNCHANGED <<attached, changing>>
  BY DEF Context, Execute
<1>6. Types' /\ todo'["handler"] = Tail(s) /\ todo'["program"] = todo["program"]
  BY <1>3, <1>4, <1>5, StepTypes
<1>7. /\ i.does \in {"change", "put"}
      /\ \A m \in Number : m # n =>
           /\ Enabled(m)' <=> Enabled(m)
           /\ register'[Low(m)] = register[Low(m)] /\ register'[High(m)] = register[High(m)]
      /\ Enabled(n)' <=> Enabled(n) /\ k > 0
  BY <1>3, <1>4, <1>5, DetachChanges
<1>8. ~Enabled(n)' BY <1>1, <1>7
<1>9. k # 2 => ~enabled'
  <2>1. ~("handler" = "handler" /\ Len(s) = 1) =>
          enabled' = CASE i.does = "cli" -> FALSE [] i.does = "sei" -> TRUE
                       [] i.does = "restore" -> oldSREG["handler"] [] OTHER -> enabled
    BY <1>3, <1>4, <1>5, StepDoes
  <2> HIDE DEF i, s
  <2> QED BY <1>4, <1>7, <2>1
<1>10. Calling' /\ (changing.number = n =>
                      AttachingAnew(n, changing.to, 0)' \/ Detaching(n, changing.to, 0)')
  <2>1. \A m \in Number : Enabled(m)' => Enabled(m) BY <1>7
  <2>2. \A m \in Number : changing.number = m =>
          \/ AttachingAnew(m, changing.to, 0) \/ Detaching(m, changing.to, 0)
          \/ /\ attached'[m] = attached[m]
             /\ register'[Low(m)] = register[Low(m)] /\ register'[High(m)] = register[High(m)]
    BY <1>1, <1>5, <1>7
  <2>3. UNCHANGED changing BY <1>5
  <2>4. /\ Calling'
        /\ \A m \in Number : AttachingAnew(m, changing.to, 0) => AttachingAnew(m, changing.to, 0)'
        /\ \A m \in Number : Detaching(m, changing.to, 0) => Detaching(m, changing.to, 0)'
    BY <1>3, <1>6, <2>1, <2>2, <2>3, CallWaits
  <2> QED BY <1>1, <2>4
<1>11. Handling'
  <2>1. CASE k = 2 BY <1>4, <1>6, <2>1 DEF Handling
  <2>2. CASE k # 2
    <3>1. k + 1 \in 0..2 /\ ~enabled' BY <1>9, <2>2
    <3>2. Left(todo'["handler"], d, k + 1) /\ attached'[n] = None BY <1>1, <1>4, <1>5, <1>6
    <3>3. changing' = changing BY <1>5
    <3>4. DetachesItself(n, k + 1)' BY <1>8, <1>10, <3>2, <3>3 DEF DetachesItself
    <3> QED BY <3>1, <3>4 DEF Handling
  <2> QED BY <2>1, <2>2
<1>12. Pointed'
  <2>1. SUFFICES ASSUME NEW m \in Number, Enabled(m)' PROVE PointsTo(m)' BY DEF Pointed
  <2>2. m # n /\ Enabled(m) BY <1>7, <1>8, <2>1
  <2>3. ~Replacing(m) BY <1>3, NothingReplaced
  <2>4. ~DetachesItself(m, 0)
    <3>1. SUFFICES ASSUME DetachesItself(m, 0) PROVE FALSE OBVIOUS
    <3>2. Left(s, detachInterrupt(m), 0) BY <3>1 DEF DetachesItself
    <3>10. 0 + 1 = 1 OBVIOUS
    <3> HIDE DEF s
    <3>3. s[1] = detachInterrupt(m)[0 + 1] BY <1>3, <3>2, NextLeft
    <3>4. detachInterrupt(m)[1] = I("change", "EIMSK", {m}, {}) BY DetachIs
    <3>5. i.does = "change" /\ i.clear = {m} BY <3>3, <3>4, <3>10 DEF I
    <3>6. /\ d[1] = I("change", "EIMSK", {n}, {}) /\ d[2] = I("put", Low(n), {}, {"nothing"})
          /\ d[3] = I("put", High(n), {}, {"nothing"})
      BY DetachIs
    <3>7. k + 1 \in {1, 2, 3} BY <1>2
    <3> HIDE DEF d, i
    <3>8. i.clear = {n}
      <4>1. CASE k + 1 = 1 BY <1>4, <3>6, <4>1 DEF I
      <4>2. CASE k + 1 = 2
        <5>1. i.does = "put" BY <1>4, <3>6, <4>2 DEF I
        <5> QED BY <3>5, <5>1
      <4>3. CASE k + 1 = 3
        <5>1. i.does = "put" BY <1>4, <3>6, <4>3 DEF I
        <5> QED BY <3>5, <5>1
      <4> QED BY <3>7, <4>1, <4>2, <4>3
    <3>9. {m} = {n} BY <3>5, <3>8
    <3> QED BY <2>2, <3>9
  <2>5. PointsTo(m) BY <2>2, <2>3, <2>4 DEF CallsInv, Pointed
  <2> QED BY <1>5, <1>7, <2>2, <2>5 DEF PointsTo, LowIs, HighIs
<1> QED BY <1>6, <1>10, <1>11, <1>12 DEF CallsInv

LEMMA HandlerKeeps == ASSUME CallsInv, Execute("handler") PROVE CallsInv'
<1>1. todo["handler"] # << >> BY DEF Execute, Step, Running
<1>2. ASSUME ~enabled, NEW k \in 0..1, Left(todo["handler"], Guarded(<< >>), k),
             k = 1 => ~oldSREG["handler"]
      PROVE CallsInv'
  BY <1>2, GuardedKeeps
<1>3. CASE ~enabled /\ \E n \in Number : \E k \in 0..2 : DetachesItself(n, k)
  BY <1>3, DetachingItselfKeeps
<1> QED BY <1>1, <1>2, <1>3 DEF CallsInv, Handling

-----------------------------------------------------------------------------
(* A handler is entered. *)

LEMMA HandledIsAttached ==
  ASSUME CallsInv, NEW n \in Number, Handle(n)
  PROVE /\ enabled /\ todo["handler"] = << >> /\ Enabled(n) /\ PointsTo(n)
        /\ Fetched(n) = attached[n].function
<1>1. enabled /\ todo["handler"] = << >> /\ Enabled(n) BY DEF Handle, HandlerStarts, Enabled
<1>2. ~Replacing(n) BY <1>1, NothingReplaced
<1>3. PointsTo(n) BY <1>1, <1>2, NoHandler
<1>4. register[Low(n)] = {attached[n].function} /\ register[High(n)] = {attached[n].function}
  BY <1>3 DEF PointsTo, LowIs, HighIs
<1>5. (CHOOSE f \in {attached[n].function} : TRUE) = attached[n].function OBVIOUS
<1>6. Fetched(n) = attached[n].function BY <1>4, <1>5 DEF Fetched
<1> QED BY <1>1, <1>3, <1>6

LEMMA HandleKeeps == ASSUME CallsInv, NEW n \in Number, Handle(n) PROVE CallsInv'
<1>1. enabled /\ todo["handler"] = << >> /\ Enabled(n) /\ PointsTo(n) BY HandledIsAttached
<1>2. todo' = [todo EXCEPT !["handler"] = Called(n)] /\ enabled' = FALSE
      /\ UNCHANGED <<register, oldSREG, changing>>
      /\ attached' = (IF Fetched(n) \in Once THEN [attached EXCEPT ![n] = None] ELSE attached)
  BY DEF Handle, HandlerStarts, Starts
<1>3. Types BY DEF CallsInv
<1>4. "program" \in Context /\ "handler" \in Context /\ "program" # "handler" BY DEF Context
<1>5. todo'["handler"] = Called(n) /\ todo'["program"] = todo["program"]
      /\ todo' = [c \in Context |-> todo'[c]]
  BY <1>2, <1>3, <1>4 DEF Types
<1>6. attached' \in [Number -> Attachment \cup {None}]
      /\ (\A m \in Number : m # n => attached'[m] = attached[m])
      /\ (Fetched(n) \in Once => attached'[n] = None)
      /\ (Fetched(n) \notin Once => attached'[n] = attached[n])
  BY <1>2, <1>3 DEF Types
<1>7. Types' BY <1>2, <1>3, <1>5, <1>6 DEF Types
<1>8. \A m \in Number : Enabled(m)' <=> Enabled(m) BY <1>2 DEF Enabled
<1>9. changing.number = n =>
        AttachingAnew(n, changing.to, 0) \/ Detaching(n, changing.to, 0)
  <2>1. SUFFICES ASSUME changing.number = n
                 PROVE AttachingAnew(n, changing.to, 0) \/ Detaching(n, changing.to, 0)
    OBVIOUS
  <2>2. changing # NoChange BY <2>1 DEF NoChange, Number, EXTERNAL_NUM_INTERRUPTS
  <2>3. PICK k \in 0..6 : \/ Attaching(n, changing.to, k) \/ AttachingAnew(n, changing.to, k)
                          \/ Detaching(n, changing.to, k)
    BY <2>1, <2>2 DEF CallsInv, Calling
  <2>4. ~Attaching(n, changing.to, k) BY <1>1 DEF Attaching
  <2>5. AttachingAnew(n, changing.to, k) => k = 0 BY <1>1 DEF AttachingAnew
  <2>6. Detaching(n, changing.to, k) => k = 0 BY <1>1 DEF Detaching
  <2> QED BY <2>3, <2>4, <2>5, <2>6
<1>10. Calling' /\ (changing.number = n =>
                      AttachingAnew(n, changing.to, 0)' \/ Detaching(n, changing.to, 0)')
  <2>1. \A m \in Number : Enabled(m)' => Enabled(m) BY <1>8
  <2>2. \A m \in Number : changing.number = m =>
          \/ AttachingAnew(m, changing.to, 0) \/ Detaching(m, changing.to, 0)
          \/ /\ attached'[m] = attached[m]
             /\ register'[Low(m)] = register[Low(m)] /\ register'[High(m)] = register[High(m)]
    BY <1>2, <1>6, <1>9
  <2>3. UNCHANGED changing BY <1>2
  <2>4. /\ Calling'
        /\ \A m \in Number : AttachingAnew(m, changing.to, 0) => AttachingAnew(m, changing.to, 0)'
        /\ \A m \in Number : Detaching(m, changing.to, 0) => Detaching(m, changing.to, 0)'
    BY <1>1, <1>5, <2>1, <2>2, <2>3, CallWaits
  <2> QED BY <1>9, <2>4
<1>11. \A m \in Number : Enabled(m) => PointsTo(m)
  BY <1>1, NothingReplaced, NoHandler
<1>12. CASE Fetched(n) \in Once
  <2>1. todo'["handler"] = detachInterrupt(n) BY <1>5, <1>12 DEF Called
  <2>2. DetachesItself(n, 0)'
    <3>1. Left(detachInterrupt(n), detachInterrupt(n), 0) BY DetachIs, LeftAtFirst
    <3>2. changing' = changing BY <1>2
    <3> QED BY <1>6, <1>10, <1>12, <2>1, <3>1, <3>2 DEF DetachesItself
  <2>3. 0 \in 0..2 OBVIOUS
  <2>4. Handling' BY <1>2, <2>2, <2>3 DEF Handling
  <2>5. Pointed'
    <3>1. SUFFICES ASSUME NEW m \in Number, Enabled(m)'
                   PROVE PointsTo(m)' \/ (~enabled' /\ DetachesItself(m, 0)')
      BY DEF Pointed
    <3>2. CASE m = n BY <1>2, <2>2, <3>2
    <3>3. CASE m # n
      <4>1. PointsTo(m) BY <1>8, <1>11, <3>1
      <4> QED BY <1>2, <1>6, <3>3, <4>1 DEF PointsTo, LowIs, HighIs
    <3> QED BY <3>2, <3>3
  <2> QED BY <1>7, <1>10, <2>4, <2>5 DEF CallsInv
<1>13. CASE Fetched(n) \notin Once
  <2>1. todo'["handler"] = Guarded(<< >>) BY <1>5, <1>13 DEF Called
  <2>2. Handling'
    <3>1. Left(Guarded(<< >>), Guarded(<< >>), 0) BY NothingGuardedIs, LeftAtFirst
    <3>2. 0 \in 0..1 /\ ~(0 = 1) OBVIOUS
    <3>3. (Left(todo["handler"], Guarded(<< >>), 0))' BY <2>1, <3>1
    <3> QED BY <1>2, <3>2, <3>3 DEF Handling
  <2>3. Pointed'
    <3>1. \A m \in Number : attached'[m] = attached[m] BY <1>6, <1>13
    <3> QED BY <1>2, <1>8, <1>11, <3>1 DEF Pointed, PointsTo, LowIs, HighIs
  <2> QED BY <1>7, <1>10, <2>2, <2>3 DEF CallsInv
<1> QED BY <1>12, <1>13

-----------------------------------------------------------------------------
(* What the program does when nothing is left of its last call. *)

LEMMA NoCallIsLeft ==
  ASSUME CallsInv, Idle
  PROVE /\ todo["program"] = << >> /\ todo["handler"] = << >> /\ changing = NoChange
        /\ \A n \in Number : Enabled(n) => PointsTo(n)
<1>1. todo["program"] = << >> /\ todo["handler"] = << >> BY DEF Idle, Context
<1>2. changing = NoChange
  <2>1. SUFFICES ASSUME changing # NoChange PROVE FALSE OBVIOUS
  <2>2. PICK n \in Number, k \in 0..6 :
          \/ Attaching(n, changing.to, k) \/ AttachingAnew(n, changing.to, k)
          \/ Detaching(n, changing.to, k)
    BY <2>1 DEF CallsInv, Calling
  <2>3. \A all : Left(<< >>, all, k) => ~(k < Len(all)) BY NextLeft
  <2>4. CASE Attaching(n, changing.to, k)
    <3> DEFINE a == attachInterrupt(n, changing.to.function, changing.to.mode)
    <3>1. changing.to \in Attachment /\ Left(<< >>, a, k) /\ k < 5 BY <1>1, <2>4 DEF Attaching
    <3>2. Len(a) = 5 BY <3>1, AttachIs
    <3> QED BY <2>3, <3>1, <3>2
  <2>5. CASE AttachingAnew(n, changing.to, k)
    <3> DEFINE w == WithoutInterrupts(attachInterrupt(n, changing.to.function, changing.to.mode))
    <3>1. changing.to \in Attachment /\ Left(<< >>, w, k) /\ k < 7
      BY <1>1, <2>5 DEF AttachingAnew
    <3>2. Len(w) = 7 BY <3>1, AnewIs
    <3> QED BY <2>3, <3>1, <3>2
  <2>6. CASE Detaching(n, changing.to, k)
    <3>1. Left(<< >>, detachInterrupt(n), k) /\ k < 3 BY <1>1, <2>6 DEF Detaching
    <3>2. Len(detachInterrupt(n)) = 3 BY DetachIs
    <3> QED BY <2>3, <3>1, <3>2
  <2> QED BY <2>2, <2>4, <2>5, <2>6
<1>3. \A n \in Number : ~Replacing(n)
  BY <1>2 DEF Replacing, NoChange, Number, EXTERNAL_NUM_INTERRUPTS
<1> QED BY <1>1, <1>2, <1>3, NoHandler

(* The call of any function: nothing is changed yet. *)
LEMMA StartKeeps ==
  ASSUME CallsInv, NEW f, ProgramStarts(f), UNCHANGED attached,
         changing' \in [number : Number, to : Attachment \cup {None}] \cup {NoChange},
         Calling'
  PROVE CallsInv'
<1>1. Idle /\ todo' = [todo EXCEPT !["program"] = f] /\ UNCHANGED <<register, oldSREG, enabled>>
  BY DEF ProgramStarts, Starts
<1>2. Types BY DEF CallsInv
<1>3. "program" \in Context /\ "handler" \in Context /\ "program" # "handler" BY DEF Context
<1>4. todo'["handler"] = todo["handler"] /\ todo' = [c \in Context |-> todo'[c]]
  BY <1>1, <1>2, <1>3 DEF Types
<1>5. Types' BY <1>1, <1>2, <1>4 DEF Types
<1>6. todo["handler"] = << >> /\ \A n \in Number : Enabled(n) => PointsTo(n)
  BY <1>1, NoCallIsLeft
<1>7. Handling' BY <1>4, <1>6 DEF Handling
<1>8. Pointed' BY <1>1, <1>6 DEF Pointed, Enabled, PointsTo, LowIs, HighIs
<1> QED BY <1>5, <1>7, <1>8 DEF CallsInv

LEMMA StartsAre ==
  ASSUME CallsInv, NEW f, ProgramStarts(f)
  PROVE todo'["program"] = f
<1>1. todo' = [todo EXCEPT !["program"] = f] BY DEF ProgramStarts, Starts
<1>2. "program" \in Context BY DEF Context
<1> QED BY <1>1, <1>2 DEF CallsInv, Types

LEMMA NeutralStartKeeps ==
  ASSUME CallsInv, NEW f, Neutral(f), ProgramStarts(f), UNCHANGED interruptVars
  PROVE CallsInv'
<1>1. Idle BY DEF ProgramStarts
<1>2. changing' = NoChange /\ attached' = attached
  BY <1>1, NoCallIsLeft DEF interruptVars
<1>3. Calling' BY <1>2, StartsAre DEF Calling
<1> QED BY <1>2, <1>3, StartKeeps

LEMMA AttachKeeps ==
  ASSUME CallsInv, NEW n \in Number, NEW f \in Function, NEW mode \in Mode, Attach(n, f, mode)
  PROVE CallsInv'
<1> DEFINE to == [function |-> f, mode |-> mode]
           a == attachInterrupt(n, f, mode)
           w == WithoutInterrupts(a)
<1>1. to \in Attachment /\ to.function = f /\ to.mode = mode BY DEF Attachment
<1>2. /\ ProgramStarts(IF attached[n] = None THEN a ELSE w)
      /\ changing' = [number |-> n, to |-> to] /\ attached' = attached
  BY DEF Attach
<1>3. a \in Seq(Instruction) /\ w \in Seq(Instruction) BY <1>1, AttachIs, AnewIs
<1>4. changing'.number = n /\ changing'.to = to /\ 0 \in 0..6 BY <1>2
<1>5. CASE attached[n] = None
  <2>1. ProgramStarts(a) BY <1>2, <1>5
  <2>2. todo'["program"] = a BY <2>1, StartsAre
  <2>3. Idle /\ register' = register BY <2>1 DEF ProgramStarts, Starts
  <2>4. ~Enabled(n)' BY <1>5, <2>3, NoCallIsLeft DEF PointsTo, Enabled
  <2>5. Left(todo'["program"], a, 0) BY <1>3, <2>2, LeftAtFirst
  <2>6. Attaching(n, changing.to, 0)' BY <1>1, <1>2, <1>4, <1>5, <2>4, <2>5 DEF Attaching
  <2>7. Calling' BY <1>4, <2>6 DEF Calling
  <2> QED BY <1>1, <1>2, <2>1, <2>7, StartKeeps
<1>6. CASE attached[n] # None
  <2>1. ProgramStarts(w) BY <1>2, <1>6
  <2>2. todo'["program"] = w BY <2>1, StartsAre
  <2>3. Left(todo'["program"], w, 0) BY <1>3, <2>2, LeftAtFirst
  <2>4. AttachingAnew(n, changing.to, 0)' BY <1>1, <1>4, <2>3 DEF AttachingAnew
  <2>5. Calling' BY <1>4, <2>4 DEF Calling
  <2> QED BY <1>1, <1>2, <2>1, <2>5, StartKeeps
<1> QED BY <1>5, <1>6

LEMMA DetachKeeps == ASSUME CallsInv, NEW n \in Number, Detach(n) PROVE CallsInv'
<1> DEFINE d == detachInterrupt(n)
<1>1. ProgramStarts(d) /\ changing' = [number |-> n, to |-> None] /\ attached' = attached
  BY DEF Detach
<1>2. changing'.number = n /\ changing'.to = None /\ 0 \in 0..6 BY <1>1
<1>3. todo'["program"] = d BY <1>1, StartsAre
<1>4. Left(todo'["program"], d, 0) BY <1>3, DetachIs, LeftAtFirst
<1>5. Detaching(n, changing.to, 0)' BY <1>2, <1>4 DEF Detaching
<1>6. Calling' BY <1>2, <1>5 DEF Calling
<1> QED BY <1>1, <1>6, StartKeeps

-----------------------------------------------------------------------------
(* The whole. *)

LEMMA CallsInitially == ASSUME Init PROVE CallsInv
<1> DEFINE to == [function |-> "irISR", mode |-> "CHANGE"]
           a == attachInterrupt(0, "irISR", "CHANGE")
<1>1. to \in Attachment /\ to.function = "irISR" /\ to.mode = "CHANGE" BY DEF Attachment, Mode
<1>2. 0 \in Number /\ 0 \in 0..6 BY DEF Number, EXTERNAL_NUM_INTERRUPTS
<1>3. constructor = a BY DEF constructor, digitalPinToInterrupt
<1>4. /\ todo = [c \in Context |-> IF c = "program" THEN constructor ELSE << >>]
      /\ enabled = FALSE /\ oldSREG = [c \in Context |-> FALSE]
      /\ attached = [n \in Number |-> None] /\ changing = [number |-> 0, to |-> to]
  BY DEF Init, AvrInit
<1>5. DOMAIN register = Named /\ register["EIMSK"] = {}
  <2>1. PICK left \in BOOLEAN :
          register = [r \in Registers \cup Pointers |->
                        CASE r \in Pointers -> {"nothing"}
                          [] left /\ r = "TCCR1B" -> {"CS12", "CS10"}
                          [] left /\ r = "UCSR0B" -> {"RXEN0", "TXEN0"}
                          [] OTHER -> {}]
    BY DEF Init, AvrInit
  <2>2. "EIMSK" \in Named BY DEF Named, Registers
  <2>3. "EIMSK" \notin Pointers
    <3>1. \A n \in Number : Low(n) # "EIMSK" /\ High(n) # "EIMSK" BY OwnBytes
    <3> QED BY <3>1 DEF Pointers
  <2> QED BY <2>1, <2>2, <2>3 DEF Named
<1>6. Types
  <2>1. changing \in [number : Number, to : Attachment \cup {None}] BY <1>1, <1>2, <1>4
  <2>2. attached \in [Number -> Attachment \cup {None}] BY <1>4
  <2>3. todo = [c \in Context |-> todo[c]] /\ oldSREG \in [Context -> BOOLEAN] BY <1>4
  <2> QED BY <1>4, <1>5, <2>1, <2>2, <2>3 DEF Types
<1>7. todo["program"] = a /\ todo["handler"] = << >> BY <1>3, <1>4 DEF Context
<1>8. \A n \in Number : ~Enabled(n) BY <1>5 DEF Enabled
<1>9. Calling
  <2>1. changing.number = 0 /\ changing.to = to BY <1>4
  <2>2. Left(todo["program"], a, 0)
    <3>1. a \in Seq(Instruction) BY <1>1, <1>2, AttachIs
    <3> QED BY <1>7, <3>1, LeftAtFirst
  <2>3. attached[0] = None BY <1>2, <1>4
  <2>4. Attaching(0, changing.to, 0) BY <1>1, <1>2, <1>8, <2>1, <2>2, <2>3 DEF Attaching
  <2> QED BY <1>2, <2>1, <2>4 DEF Calling
<1>10. Handling BY <1>7 DEF Handling
<1>11. Pointed BY <1>8 DEF Pointed
<1> QED BY <1>6, <1>9, <1>10, <1>11 DEF CallsInv

LEMMA OtherStepsKeep ==
  ASSUME CallsInv, UNCHANGED <<avrVars, attached, changing>>
  PROVE CallsInv'
<1>1. UNCHANGED <<register, enabled, todo, oldSREG, attached, changing>> BY DEF avrVars
<1>2. Types' BY <1>1 DEF CallsInv, Types
<1>3. \A n \in Number : (Enabled(n)' <=> Enabled(n)) /\ (PointsTo(n)' <=> PointsTo(n))
  BY <1>1 DEF Enabled, PointsTo, LowIs, HighIs
<1>4. \A n \in Number : \A k \in 0..6 :
        /\ Attaching(n, changing.to, k)' <=> Attaching(n, changing.to, k)
        /\ AttachingAnew(n, changing.to, k)' <=> AttachingAnew(n, changing.to, k)
        /\ Detaching(n, changing.to, k)' <=> Detaching(n, changing.to, k)
  <2> SUFFICES ASSUME NEW n \in Number, NEW k \in 0..6
               PROVE /\ Attaching(n, changing.to, k)' <=> Attaching(n, changing.to, k)
                     /\ AttachingAnew(n, changing.to, k)' <=> AttachingAnew(n, changing.to, k)
                     /\ Detaching(n, changing.to, k)' <=> Detaching(n, changing.to, k)
    OBVIOUS
  <2>1. Attaching(n, changing.to, k)' <=> Attaching(n, changing.to, k)
    BY <1>1 DEF Attaching, Enabled, LowIs, HighIs
  <2>2. AttachingAnew(n, changing.to, k)' <=> AttachingAnew(n, changing.to, k)
    BY <1>1 DEF AttachingAnew, LowIs, HighIs
  <2>3. Detaching(n, changing.to, k)' <=> Detaching(n, changing.to, k)
    BY <1>1 DEF Detaching, Enabled
  <2> QED BY <2>1, <2>2, <2>3
<1>5. 0 \in 0..6 /\ \A k \in 1..6 : k \in 0..6 OBVIOUS
<1>6. \A n \in Number : (Replacing(n)' <=> Replacing(n))
                        /\ \A k \in 0..2 : DetachesItself(n, k)' <=> DetachesItself(n, k)
  BY <1>1, <1>3, <1>4, <1>5 DEF Replacing, DetachesItself
<1>7. Calling' BY <1>1, <1>4 DEF CallsInv, Calling
<1>8. Handling' BY <1>1, <1>6 DEF CallsInv, Handling
<1>9. Pointed'
  <2>1. 0 \in 0..2 OBVIOUS
  <2> QED BY <1>1, <1>3, <1>6, <2>1 DEF CallsInv, Pointed
<1> QED BY <1>2, <1>7, <1>8, <1>9 DEF CallsInv

LEMMA CallsStep == ASSUME CallsInv, [Next]_vars PROVE CallsInv'
<1>1. CASE Main
  <2>1. ProgramStarts(main) /\ UNCHANGED interruptVars BY <1>1 DEF Main
  <2> QED BY <2>1, MainIsNeutral, NeutralStartKeeps
<1>2. CASE Statement
  <2>1. CASE \E n \in Number : Detach(n) BY <2>1, DetachKeeps
  <2>2. CASE \E n \in Number, f \in Function, mode \in {"CHANGE", "FALLING", "RISING"} :
               Attach(n, f, mode)
    BY <2>2, AttachKeeps DEF Mode
  <2>3. CASE /\ \E f \in { TurnOffPWM(5), TurnOffPWM(9), PinMode(14, "OUTPUT") } : ProgramStarts(f)
             /\ UNCHANGED interruptVars
    <3>1. \A p \in 0..19 : Neutral(PinMode(p, "OUTPUT")) /\ Neutral(TurnOffPWM(p))
      BY PinsAreNeutral DEF DigitalPin
    <3>2. Neutral(TurnOffPWM(5)) /\ Neutral(TurnOffPWM(9)) /\ Neutral(PinMode(14, "OUTPUT"))
      BY <3>1
    <3>3. PICK f \in { TurnOffPWM(5), TurnOffPWM(9), PinMode(14, "OUTPUT") } : ProgramStarts(f)
      BY <2>3
    <3>4. Neutral(f) BY <3>2, <3>3
    <3> QED BY <2>3, <3>3, <3>4, NeutralStartKeeps
  <2> QED BY <1>2, <2>1, <2>2, <2>3 DEF Statement
<1>3. CASE \E n \in Number : Edge(n) BY <1>3, OtherStepsKeep DEF Edge
<1>4. CASE \E n \in Number : Handle(n) BY <1>4, HandleKeeps
<1>5. CASE \E c \in Context : Execute(c) BY <1>5, ProgramKeeps, HandlerKeeps DEF Context
<1>6. CASE UNCHANGED vars BY <1>6, OtherStepsKeep DEF vars, interruptVars
<1> QED BY <1>1, <1>2, <1>3, <1>4, <1>5, <1>6 DEF Next

LEMMA CallsAlways == Spec => []CallsInv
<1>1. Init => CallsInv BY CallsInitially
<1>2. CallsInv /\ [Next]_vars => CallsInv' BY CallsStep
<1> QED BY <1>1, <1>2, PTL DEF Spec

(* Whatever functions programs attach and detach, in their statements and   *)
(* in the functions themselves, an interrupt calls the function that is     *)
(* attached, and none whose pointer is half written (WInterrupts.c 70, 270, *)
(* 280-283).                                                                *)
THEOREM InterruptsCallWhatIsAttached == Spec => CallsWhatIsAttached
<1>1. CallsInv /\ [Next]_vars =>
        [\A n \in Number : Handle(n) => attached[n] # None /\ Fetched(n) = attached[n].function]_
        <<avrVars, interruptVars>>
  <2>1. ASSUME CallsInv, NEW n \in Number, Handle(n)
        PROVE attached[n] # None /\ Fetched(n) = attached[n].function
    BY <2>1, HandledIsAttached DEF PointsTo
  <2> QED BY <2>1
<1> QED BY <1>1, CallsAlways, PTL DEF Spec, CallsWhatIsAttached
=============================================================================
