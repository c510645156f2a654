----------------------------- MODULE PinsProofs -----------------------------
(***************************************************************************)
(* Theorems about the pins, for any pins of the board that the program and *)
(* the handlers share out.                                                 *)
(*                                                                         *)
(* A function is a sequence of instructions, and what is left of it says   *)
(* all: whether it is between cli() and the restoring of SREG (InGuard),   *)
(* and how it will leave each pin (LastChange).  Orderly is what every     *)
(* function of the library, and every rest of one, has in common.          *)
(***************************************************************************)
EXTENDS Pins, TLAPS

Port == {"DDRB", "DDRC", "DDRD", "PORTB", "PORTC", "PORTD"}
Timer == {"TCCR0A", "TCCR1A", "TCCR2A"}
Bit == 0..7 \cup {"COM0A1", "COM0B1", "COM1A1", "COM1B1", "COM2A1", "COM2B1"}
Used == UNION { { RegisterOf(p, of) : of \in Registers(p) } : p \in Pin }

Instruction == [does : {"cli", "restore", "load", "store"},
                register : Used \cup {"SREG"}, clear : SUBSET Bit, set : SUBSET Bit]

(* The function has saved and cleared the I bit before instruction k, and   *)
(* will restore it.                                                         *)
InGuard(s, k) ==
  \E j \in k..Len(s) : s[j].does = "restore" /\ \A m \in k..j : s[m].does # "cli"

(* A change is a load and a store of one register; that of a port is made   *)
(* with interrupts off; the I bit is restored once for each time it was     *)
(* saved.                                                                   *)
Accesses(i) == i.does \in {"load", "store"}
StoresAfter(i, j) == /\ i.does = "load" /\ j.does = "store"
                     /\ j.register = i.register /\ j.clear = i.clear /\ j.set = i.set
InOrder(s, k) ==
  /\ Accesses(s[k]) => s[k].register \in Used
  /\ s[k].does = "load" => k + 1 \in DOMAIN s /\ StoresAfter(s[k], s[k + 1])
  /\ s[k].does = "store" /\ k > 1 => StoresAfter(s[k - 1], s[k])
  /\ Accesses(s[k]) /\ s[k].register \in Port => InGuard(s, k)
  /\ s[k].does = "cli" => InGuard(s, k + 1)
  /\ s[k].does = "restore" => ~InGuard(s, k + 1)
  /\ ~Accesses(s[k]) => s[k].clear \cup s[k].set = {}
Orderly(s) == s \in Seq(Instruction) /\ \A k \in DOMAIN s : InOrder(s, k)

(* A function from its beginning. *)
Whole(s) == Orderly(s) /\ ~InGuard(s, 1) /\ (s # << >> => s[1].does # "store")

(* The pins that a context changes. *)
Own(c) == IF c = "handler" THEN HandlerPin ELSE Pin \ HandlerPin
Keeps(s, P) == \A k \in DOMAIN s : \A p \in P : \A of \in Registers(p) : ~Changes(s[k], p, of)

-----------------------------------------------------------------------------
Types ==
  /\ register \in [Used -> SUBSET Bit] /\ enabled \in BOOLEAN
  /\ loaded \in [Context -> SUBSET Bit] /\ oldSREG \in [Context -> BOOLEAN]
  /\ DOMAIN todo = Context /\ todo = [c \in Context |-> todo[c]]
  /\ \A p \in Pin : wanted[p] \in [Registers(p) -> BOOLEAN]

Functions ==
  /\ \A c \in Context : Orderly(todo[c]) /\ Keeps(todo[c], Pin \ Own(c))
  /\ \A k \in DOMAIN todo["handler"] :
       Accesses(todo["handler"][k]) => todo["handler"][k].register \in Port

Masks ==
  /\ todo["handler"] = << >> => (enabled <=> ~InGuard(todo["program"], 1))
  /\ todo["handler"] # << >> => ~enabled /\ ~InGuard(todo["program"], 1)
  /\ InGuard(todo["program"], 1) => oldSREG["program"]
  /\ InGuard(todo["handler"], 1) => ~oldSREG["handler"]

Fresh ==
  \A c \in Context :
    todo[c] # << >> /\ todo[c][1].does = "store" => loaded[c] = register[todo[c][1].register]

WillBe(s, p, of) ==
  /\ \A k \in DOMAIN s :
       LastChange(s, k, p, of) => (BitOf(p, of) \in s[k].set <=> wanted[p][of])
  /\ (\A k \in DOMAIN s : ~Changes(s[k], p, of)) => (IsOn(p, of) <=> wanted[p][of])
Promises == \A c \in Context : \A p \in Own(c) : \A of \in Registers(p) : WillBe(todo[c], p, of)

PinsInv == Types /\ Functions /\ Masks /\ Fresh /\ Promises

-----------------------------------------------------------------------------
(* The board: every pin has its own bits. *)

(* The registers of pins_default.h, and the numbers of the bits in them. *)
LEMMA PinRegisters == ASSUME NEW p \in DigitalPin, NEW of \in Registers(p)
  PROVE /\ of = "timer" => RegisterOf(p, of) \in Timer
        /\ of # "timer" => RegisterOf(p, of) \in Port
        /\ BitOf(p, of) \in Bit
<1>1. CASE of = "mode"
  <2>1. digitalPinToPort(p) \in {"PB", "PC", "PD"} /\ digitalPinToBit(p) \in 0..7
    BY DEF DigitalPin, digitalPinToPort, digitalPinToBit
  <2> QED BY <1>1, <2>1 DEF RegisterOf, BitOf, Port, Bit, portModeRegister
<1>2. CASE of = "output"
  <2>1. digitalPinToPort(p) \in {"PB", "PC", "PD"} /\ digitalPinToBit(p) \in 0..7
    BY DEF DigitalPin, digitalPinToPort, digitalPinToBit
  <2> QED BY <1>2, <2>1 DEF RegisterOf, BitOf, Port, Bit, portOutputRegister
<1>3. CASE of = "timer" /\ OnTimer(p)
  BY <1>3 DEF RegisterOf, BitOf, OnTimer, digitalPinToTimer, NOT_ON_TIMER, Timer, Bit
<1> QED BY <1>1, <1>2, <1>3 DEF Registers

(* No two pins share a bit of a register. *)
LEMMA OnePlace ==
  ASSUME NEW p \in DigitalPin, NEW of \in Registers(p),
         NEW q \in DigitalPin, NEW at \in Registers(q),
         RegisterOf(p, of) = RegisterOf(q, at), BitOf(p, of) = BitOf(q, at)
  PROVE p = q /\ of = at
<1>1. CASE of = "timer"
  <2>1. at = "timer" BY <1>1, PinRegisters DEF Port, Timer
  <2>2. OnTimer(p) /\ OnTimer(q) BY <1>1, <2>1 DEF Registers
  <2>3. digitalPinToTimer(p)[1] = digitalPinToTimer(q)[1]
        /\ digitalPinToTimer(p)[2] = digitalPinToTimer(q)[2]
    BY <1>1, <2>1 DEF RegisterOf, BitOf
  <2> QED BY <1>1, <2>1, <2>2, <2>3 DEF OnTimer, digitalPinToTimer, NOT_ON_TIMER
<1>2. CASE of # "timer"
  <2>1. at # "timer" BY <1>2, PinRegisters DEF Port, Timer
  <2>2. of \in {"mode", "output"} /\ at \in {"mode", "output"}
    BY <1>2, <2>1 DEF Registers
  <2>3. digitalPinToBit(p) = digitalPinToBit(q) BY <1>2, <2>1 DEF BitOf
  <2>4. \A x \in DigitalPin : digitalPinToPort(x) \in {"PB", "PC", "PD"}
    BY DEF DigitalPin, digitalPinToPort
  <2>5. digitalPinToPort(p) = digitalPinToPort(q) /\ of = at
    BY <2>2, <2>4 DEF RegisterOf, portModeRegister, portOutputRegister
  <2> QED BY <2>3, <2>5 DEF DigitalPin, digitalPinToPort, digitalPinToBit
<1> QED BY <1>1, <1>2

-----------------------------------------------------------------------------
(* What is left of a function, and one function after another. *)

(* A rest has the guards of the whole. *)
LEMMA GuardOfTail ==
  ASSUME NEW S, NEW s \in Seq(S), s # << >>, NEW k \in Nat \ {0}
  PROVE InGuard(Tail(s), k) <=> InGuard(s, k + 1)
<1> DEFINE t == Tail(s)
<1>1. Len(t) = Len(s) - 1 /\ Len(s) \in Nat /\ \A j \in 1..Len(t) : t[j] = s[j + 1]
  OBVIOUS
<1>2. ASSUME InGuard(t, k) PROVE InGuard(s, k + 1)
  <2>1. PICK j \in k..Len(t) : t[j].does = "restore" /\ \A m \in k..j : t[m].does # "cli"
    BY <1>2 DEF InGuard
  <2>2. \A m \in k+1..j+1 : m - 1 \in k..j /\ s[m] = t[m - 1] BY <1>1, <2>1
  <2>3. \A m \in k+1..j+1 : s[m].does # "cli" BY <2>1, <2>2
  <2>4. j + 1 \in k+1..Len(s) /\ s[j + 1] = t[j] BY <1>1, <2>1
  <2> QED BY <2>1, <2>3, <2>4 DEF InGuard
<1>3. ASSUME InGuard(s, k + 1) PROVE InGuard(t, k)
  <2>1. PICK j \in k+1..Len(s) :
          s[j].does = "restore" /\ \A m \in k+1..j : s[m].does # "cli"
    BY <1>3 DEF InGuard
  <2>2. \A m \in k..j-1 : m + 1 \in k+1..j /\ s[m + 1] = t[m] BY <1>1, <2>1
  <2>3. \A m \in k..j-1 : t[m].does # "cli" BY <2>1, <2>2
  <2>4. j - 1 \in k..Len(t) /\ s[j] = t[j - 1] BY <1>1, <2>1
  <2> QED BY <2>1, <2>3, <2>4 DEF InGuard
<1> QED BY <1>2, <1>3

(* Only cli() and the restoring change it. *)
LEMMA GuardOfHead ==
  ASSUME NEW S, NEW s \in Seq(S), s # << >>
  PROVE /\ s[1].does = "cli" => ~InGuard(s, 1)
        /\ s[1].does = "restore" => InGuard(s, 1)
        /\ s[1].does \notin {"cli", "restore"} => (InGuard(s, 1) <=> InGuard(Tail(s), 1))
<1>1. Len(s) \in Nat /\ Len(s) >= 1 OBVIOUS
<1>2. s[1].does = "cli" => ~InGuard(s, 1) BY <1>1 DEF InGuard
<1>3. s[1].does = "restore" => InGuard(s, 1)
  <2>1. SUFFICES ASSUME s[1].does = "restore" PROVE InGuard(s, 1) OBVIOUS
  <2>2. \A m \in 1..1 : s[m].does # "cli" BY <2>1
  <2> QED BY <1>1, <2>1, <2>2 DEF InGuard
<1>4. ASSUME s[1].does \notin {"cli", "restore"} PROVE InGuard(s, 1) <=> InGuard(s, 2)
  <2>1. ASSUME InGuard(s, 1) PROVE InGuard(s, 2)
    <3>1. PICK j \in 1..Len(s) : s[j].does = "restore" /\ \A m \in 1..j : s[m].does # "cli"
      BY <2>1 DEF InGuard
    <3>2. j \in 2..Len(s) BY <1>1, <1>4, <3>1
    <3>3. \A m \in 2..j : m \in 1..j BY <3>2
    <3> QED BY <3>1, <3>2, <3>3 DEF InGuard
  <2>2. ASSUME InGuard(s, 2) PROVE InGuard(s, 1)
    <3>1. PICK j \in 2..Len(s) : s[j].does = "restore" /\ \A m \in 2..j : s[m].does # "cli"
      BY <2>2 DEF InGuard
    <3>2. \A m \in 1..j : m = 1 \/ m \in 2..j BY <3>1
    <3>3. j \in 1..Len(s) BY <3>1
    <3> QED BY <1>4, <3>1, <3>2, <3>3 DEF InGuard
  <2> QED BY <2>1, <2>2
<1>5. InGuard(Tail(s), 1) <=> InGuard(s, 2) BY GuardOfTail
<1> QED BY <1>2, <1>3, <1>4, <1>5

LEMMA GuardOfBoth ==
  ASSUME NEW S, NEW s \in Seq(S), NEW t \in Seq(S), ~InGuard(t, 1)
  PROVE /\ \A k \in 1..Len(s) + 1 : InGuard(s \o t, k) <=> InGuard(s, k)
        /\ \A k \in 1..Len(t) + 1 : InGuard(s \o t, Len(s) + k) <=> InGuard(t, k)
<1> DEFINE b == s \o t
           n == Len(s)
<1>1. /\ n \in Nat /\ Len(t) \in Nat /\ Len(b) = n + Len(t)
      /\ \A j \in 1..n : b[j] = s[j]
      /\ \A j \in 1..Len(t) : b[n + j] = t[j]
  OBVIOUS
<1>2. ASSUME NEW k \in 1..n + 1, InGuard(s, k) PROVE InGuard(b, k)
  <2>1. PICK j \in k..n : s[j].does = "restore" /\ \A m \in k..j : s[m].does # "cli"
    BY <1>2 DEF InGuard
  <2>2. \A m \in k..j : b[m] = s[m] BY <1>1, <2>1
  <2>3. j \in k..Len(b) /\ j \in k..j BY <1>1, <2>1
  <2> QED BY <2>1, <2>2, <2>3 DEF InGuard
<1>3. ASSUME NEW k \in 1..n + 1, InGuard(b, k) PROVE InGuard(s, k)
  <2>1. PICK j \in k..Len(b) : b[j].does = "restore" /\ \A m \in k..j : b[m].does # "cli"
    BY <1>3 DEF InGuard
  <2>2. CASE j <= n
    <3>1. \A m \in k..j : b[m] = s[m] BY <1>1, <2>2
    <3> QED BY <2>1, <2>2, <3>1, <1>1 DEF InGuard
  <2>3. CASE j > n
    <3>1. j - n \in 1..Len(t) /\ t[j - n] = b[j] BY <1>1, <2>1, <2>3
    <3>2. \A m \in 1..j-n : n + m \in k..j /\ t[m] = b[n + m] BY <1>1, <2>1, <2>3
    <3>3. \A m \in 1..j-n : t[m].does # "cli" BY <2>1, <3>2
    <3> QED BY <2>1, <3>1, <3>3 DEF InGuard
  <2> QED BY <1>1, <2>1, <2>2, <2>3
<1>4. ASSUME NEW k \in 1..Len(t) + 1, InGuard(t, k) PROVE InGuard(b, n + k)
  <2>1. PICK j \in k..Len(t) : t[j].does = "restore" /\ \A m \in k..j : t[m].does # "cli"
    BY <1>4 DEF InGuard
  <2>2. \A m \in n+k..n+j : m - n \in k..j /\ b[m] = t[m - n] BY <1>1, <2>1
  <2>3. \A m \in n+k..n+j : b[m].does # "cli" BY <2>1, <2>2
  <2>4. n + j \in n+k..Len(b) /\ b[n + j] = t[j] BY <1>1, <2>1
  <2> QED BY <2>1, <2>3, <2>4 DEF InGuard
<1>5. ASSUME NEW k \in 1..Len(t) + 1, InGuard(b, n + k) PROVE InGuard(t, k)
  <2>1. PICK j \in n+k..Len(b) : b[j].does = "restore" /\ \A m \in n+k..j : b[m].does # "cli"
    BY <1>5 DEF InGuard
  <2>2. \A m \in k..j-n : n + m \in n+k..j /\ t[m] = b[n + m] BY <1>1, <2>1
  <2>3. \A m \in k..j-n : t[m].does # "cli" BY <2>1, <2>2
  <2>4. j - n \in k..Len(t) /\ t[j - n] = b[j] BY <1>1, <2>1
  <2> QED BY <2>1, <2>3, <2>4 DEF InGuard
<1> QED BY <1>2, <1>3, <1>4, <1>5

(* The rest of an orderly function is orderly. *)
LEMMA RestIsOrderly ==
  ASSUME NEW s, Orderly(s), s # << >>
  PROVE Orderly(Tail(s))
<1> DEFINE t == Tail(s)
<1>1. s \in Seq(Instruction) /\ t \in Seq(Instruction) BY DEF Orderly
<1>2. /\ Len(t) = Len(s) - 1 /\ Len(s) \in Nat /\ DOMAIN s = 1..Len(s) /\ DOMAIN t = 1..Len(t)
      /\ \A j \in 1..Len(t) : t[j] = s[j + 1]
  BY <1>1
<1>3. ASSUME NEW k \in DOMAIN t PROVE InOrder(t, k)
  <2>1. InOrder(s, k + 1) BY <1>2, <1>3 DEF Orderly
  <2>2. t[k] = s[k + 1] /\ k + 1 \in Nat /\ k \in Nat \ {0} /\ k + 1 \in Nat \ {0} BY <1>2, <1>3
  <2>3. InGuard(t, k) <=> InGuard(s, k + 1) BY <1>1, <2>2, GuardOfTail
  <2>4. InGuard(t, k + 1) <=> InGuard(s, k + 1 + 1) BY <1>1, <2>2, GuardOfTail
  <2>5. k + 1 + 1 \in DOMAIN s => k + 1 \in DOMAIN t /\ t[k + 1] = s[k + 1 + 1] BY <1>2, <1>3
  <2>6. k > 1 => t[k - 1] = s[(k + 1) - 1] /\ k + 1 > 1 BY <1>2, <1>3
  <2> QED BY <2>1, <2>2, <2>3, <2>4, <2>5, <2>6 DEF InOrder
<1> QED BY <1>1, <1>3 DEF Orderly

(* Of two functions, one after the other. *)
LEMMA BothAreWhole ==
  ASSUME NEW s, NEW t, Whole(s), Whole(t)
  PROVE Whole(s \o t)
<1> DEFINE b == s \o t
           n == Len(s)
<1>1. s \in Seq(Instruction) /\ t \in Seq(Instruction) /\ b \in Seq(Instruction)
  BY DEF Whole, Orderly
<1>2. /\ n \in Nat /\ Len(t) \in Nat /\ Len(b) = n + Len(t)
      /\ DOMAIN s = 1..n /\ DOMAIN t = 1..Len(t) /\ DOMAIN b = 1..Len(b)
      /\ \A j \in 1..n : b[j] = s[j]
      /\ \A j \in 1..Len(t) : b[n + j] = t[j]
  BY <1>1
<1>3. ~InGuard(s, 1) /\ ~InGuard(t, 1) BY DEF Whole
<1>4. /\ \A k \in 1..n + 1 : InGuard(b, k) <=> InGuard(s, k)
      /\ \A k \in 1..Len(t) + 1 : InGuard(b, n + k) <=> InGuard(t, k)
  BY <1>1, <1>3, GuardOfBoth
<1>5. ASSUME NEW k \in 1..n PROVE InOrder(b, k)
  <2>1. InOrder(s, k) BY <1>2 DEF Whole, Orderly
  <2>2. b[k] = s[k] /\ (k > 1 => b[k - 1] = s[k - 1]) BY <1>2
  <2>3. k + 1 \in DOMAIN s => k + 1 \in DOMAIN b /\ b[k + 1] = s[k + 1] BY <1>2
  <2>4. (InGuard(b, k) <=> InGuard(s, k)) /\ (InGuard(b, k + 1) <=> InGuard(s, k + 1))
    BY <1>2, <1>4
  <2> QED BY <2>1, <2>2, <2>3, <2>4 DEF InOrder
<1>6. ASSUME NEW k \in 1..Len(t) PROVE InOrder(b, n + k)
  <2>1. InOrder(t, k) BY <1>2 DEF Whole, Orderly
  <2>2. b[n + k] = t[k] /\ (k > 1 => b[(n + k) - 1] = t[k - 1])
    <3>1. k > 1 => k - 1 \in 1..Len(t) /\ (n + k) - 1 = n + (k - 1) BY <1>2
    <3> QED BY <1>2, <3>1
  <2>3. k + 1 \in DOMAIN t => (n + k) + 1 \in DOMAIN b /\ b[(n + k) + 1] = t[k + 1]
    <3>1. (n + k) + 1 = n + (k + 1) BY <1>2
    <3> QED BY <1>2, <3>1
  <2>4. InGuard(b, n + k) <=> InGuard(t, k) BY <1>2, <1>4
  <2>5. InGuard(b, (n + k) + 1) <=> InGuard(t, k + 1)
    <3>1. k \in Nat /\ k <= Len(t) /\ k >= 1 BY <1>2
    <3>2. (n + k) + 1 = n + (k + 1) BY <1>2, <3>1
    <3>3. k + 1 \in 1..Len(t) + 1 BY <1>2, <3>1
    <3>4. InGuard(b, n + (k + 1)) <=> InGuard(t, k + 1) BY <1>4, <3>3
    <3> QED BY <3>2, <3>4
  <2>6. t[k].does = "store" => k > 1
    <3>1. t # << >> /\ (k = 1 \/ k > 1) BY <1>2
    <3> QED BY <3>1 DEF Whole
  <2> QED BY <1>2, <2>1, <2>2, <2>3, <2>4, <2>5, <2>6 DEF InOrder
<1>7. ASSUME NEW k \in DOMAIN b PROVE InOrder(b, k)
  <2>1. k \in 1..n \/ (k - n \in 1..Len(t) /\ k = n + (k - n)) BY <1>2
  <2> QED BY <1>5, <1>6, <2>1
<1>8. ~InGuard(b, 1) BY <1>2, <1>3, <1>4
<1>9. b # << >> => b[1].does # "store"
  <2>1. CASE s # << >> BY <1>1, <1>2, <2>1 DEF Whole
  <2>2. CASE s = << >> BY <1>1, <2>2 DEF Whole
  <2> QED BY <2>1, <2>2
<1> QED BY <1>1, <1>7, <1>8, <1>9 DEF Whole, Orderly

LEMMA BothKeep ==
  ASSUME NEW s \in Seq(Instruction), NEW t \in Seq(Instruction), NEW P,
         Keeps(s, P), Keeps(t, P)
  PROVE Keeps(s \o t, P)
<1>1. ASSUME NEW k \in DOMAIN (s \o t)
      PROVE (k \in DOMAIN s /\ (s \o t)[k] = s[k])
            \/ (k - Len(s) \in DOMAIN t /\ (s \o t)[k] = t[k - Len(s)])
  OBVIOUS
<1> QED BY <1>1 DEF Keeps

-----------------------------------------------------------------------------
(* The functions of the library are whole. *)

(* Loads and their stores, no more. *)
Body(s) ==
  s \in Seq(Instruction) /\ \A k \in DOMAIN s :
    /\ Accesses(s[k]) /\ s[k].register \in Used
    /\ s[k].does = "load" => k + 1 \in DOMAIN s /\ StoresAfter(s[k], s[k + 1])
    /\ s[k].does = "store" => k > 1 /\ StoresAfter(s[k - 1], s[k])

LEMMA ChangeIsBody ==
  ASSUME NEW r \in Used, NEW clear \in SUBSET Bit, NEW set \in SUBSET Bit
  PROVE /\ Body(Change(r, clear, set))
        /\ \A k \in DOMAIN Change(r, clear, set) :
             /\ Change(r, clear, set)[k].register = r
             /\ Change(r, clear, set)[k].clear = clear /\ Change(r, clear, set)[k].set = set
<1> DEFINE s == Change(r, clear, set)
           load == I("load", r, clear, set)
           store == I("store", r, clear, set)
<1>1. load \in Instruction /\ store \in Instruction BY DEF I, Instruction
<1>2. /\ load.does = "load" /\ load.register = r /\ load.clear = clear /\ load.set = set
      /\ store.does = "store" /\ store.register = r /\ store.clear = clear /\ store.set = set
  BY DEF I
<1> HIDE DEF load, store
<1>3. s = <<load, store>> BY DEF Change, load, store
<1> HIDE DEF s
<1>4. s \in Seq(Instruction) /\ DOMAIN s = {1, 2} /\ s[1] = load /\ s[2] = store
  BY <1>1, <1>3
<1>5. Body(s) BY <1>2, <1>4 DEF Body, Accesses, StoresAfter
<1>6. \A k \in DOMAIN s : s[k].register = r /\ s[k].clear = clear /\ s[k].set = set
  BY <1>2, <1>4
<1> QED BY <1>5, <1>6 DEF s

LEMMA BothAreBody ==
  ASSUME NEW s, NEW t, Body(s), Body(t)
  PROVE Body(s \o t)
<1> DEFINE b == s \o t
           n == Len(s)
<1>1. s \in Seq(Instruction) /\ t \in Seq(Instruction) /\ b \in Seq(Instruction)
  BY DEF Body
<1>2. /\ n \in Nat /\ Len(t) \in Nat /\ Len(b) = n + Len(t)
      /\ DOMAIN s = 1..n /\ DOMAIN t = 1..Len(t) /\ DOMAIN b = 1..Len(b)
      /\ \A j \in 1..n : b[j] = s[j]
      /\ \A j \in 1..Len(t) : b[n + j] = t[j]
  BY <1>1
<1>3. SUFFICES ASSUME NEW k \in DOMAIN b
      PROVE /\ Accesses(b[k]) /\ b[k].register \in Used
            /\ b[k].does = "load" => k + 1 \in DOMAIN b /\ StoresAfter(b[k], b[k + 1])
            /\ b[k].does = "store" => k > 1 /\ StoresAfter(b[k - 1], b[k])
  BY <1>1 DEF Body
<1>4. CASE k \in 1..n
  <2>1. b[k] = s[k] /\ (k > 1 => b[k - 1] = s[k - 1]) BY <1>2, <1>4
  <2>2. k + 1 \in DOMAIN s => k + 1 \in DOMAIN b /\ b[k + 1] = s[k + 1] BY <1>2
  <2> QED BY <1>2, <1>4, <2>1, <2>2 DEF Body
<1>5. CASE k \notin 1..n
  <2>1. PICK i \in 1..Len(t) : k = n + i
    <3>1. k - n \in 1..Len(t) /\ k = n + (k - n) BY <1>2, <1>5
    <3> QED BY <3>1
  <2>2. b[k] = t[i] BY <1>2, <2>1
  <2>3. i > 1 => k > 1 /\ b[k - 1] = t[i - 1]
    <3>1. i > 1 => i - 1 \in 1..Len(t) /\ k - 1 = n + (i - 1) BY <1>2, <2>1
    <3> QED BY <1>2, <2>1, <3>1
  <2>4. i + 1 \in DOMAIN t => k + 1 \in DOMAIN b /\ b[k + 1] = t[i + 1]
    <3>1. i + 1 \in DOMAIN t => i + 1 \in 1..Len(t) /\ k + 1 = n + (i + 1) BY <1>2, <2>1
    <3> QED BY <1>2, <2>1, <3>1
  <2> QED BY <1>2, <2>2, <2>3, <2>4 DEF Body
<1> QED BY <1>4, <1>5

(* Between cli() and the restoring of SREG it is whole. *)
LEMMA GuardedIsWhole ==
  ASSUME NEW s, Body(s)
  PROVE /\ Whole(Guarded(s))
        /\ \A k \in DOMAIN Guarded(s) :
             \/ ~Accesses(Guarded(s)[k]) /\ Guarded(s)[k].clear \cup Guarded(s)[k].set = {}
             \/ \E j \in DOMAIN s : Guarded(s)[k] = s[j]
<1> DEFINE g == Guarded(s)
           n == Len(s)
           cli == I("cli", "SREG", {}, {})
           restore == I("restore", "SREG", {}, {})
<1>1. cli \in Instruction /\ restore \in Instruction BY DEF I, Instruction
<1>2. /\ cli.does = "cli" /\ cli.clear = {} /\ cli.set = {}
      /\ restore.does = "restore" /\ restore.clear = {} /\ restore.set = {}
  BY DEF I
<1> HIDE DEF cli, restore
<1>3. g = << cli >> \o s \o << restore >> BY DEF Guarded, ChangesSREG, cli, restore
<1>4. s \in Seq(Instruction) /\ n \in Nat /\ DOMAIN s = 1..n BY DEF Body
<1> HIDE DEF g
<1>5. /\ g \in Seq(Instruction) /\ Len(g) = n + 2 /\ DOMAIN g = 1..n+2
      /\ g[1] = cli /\ g[n + 2] = restore
      /\ \A k \in 1..n : g[k + 1] = s[k]
  BY <1>1, <1>3, <1>4
<1>6. \A k \in 2..n+1 : k - 1 \in 1..n /\ g[k] = s[k - 1]
  <2>1. \A k \in 2..n+1 : k - 1 \in 1..n /\ (k - 1) + 1 = k BY <1>4
  <2> QED BY <1>5, <2>1
<1>7. \A k \in 2..n+2 : g[k].does # "cli"
  <2>1. \A k \in 2..n+1 : g[k].does # "cli" BY <1>4, <1>6 DEF Body, Accesses
  <2>2. \A k \in 2..n+2 : k \in 2..n+1 \/ k = n + 2 BY <1>4
  <2> QED BY <1>2, <1>5, <2>1, <2>2
<1>8. \A k \in 2..n+2 : InGuard(g, k)
  <2>1. SUFFICES ASSUME NEW k \in 2..n+2 PROVE InGuard(g, k) OBVIOUS
  <2>2. n + 2 \in k..Len(g) /\ \A m \in k..n+2 : m \in 2..n+2 BY <1>4, <1>5, <2>1
  <2> QED BY <1>2, <1>5, <1>7, <2>2 DEF InGuard
<1>9. ~InGuard(g, 1) /\ ~InGuard(g, n + 2 + 1)
  <2>1. ~InGuard(g, 1) BY <1>2, <1>4, <1>5 DEF InGuard
  <2>2. ~InGuard(g, n + 2 + 1) BY <1>4, <1>5 DEF InGuard
  <2> QED BY <2>1, <2>2
<1>10. InOrder(g, 1)
  <2>1. 1 + 1 \in 2..n+2 /\ 1 + 1 = 2 BY <1>4
  <2> QED BY <1>2, <1>5, <1>8, <2>1 DEF InOrder, Accesses
<1>11. InOrder(g, n + 2)
  BY <1>2, <1>5, <1>9 DEF InOrder, Accesses
<1>12. ASSUME NEW k \in 2..n+1 PROVE InOrder(g, k)
  <2>1. PICK i \in 1..n : k = i + 1 /\ g[k] = s[i] BY <1>4, <1>6
  <2>2. i + 1 \in DOMAIN s => k + 1 \in DOMAIN g /\ g[k + 1] = s[i + 1] BY <1>4, <1>5, <2>1
  <2>3. i > 1 => g[k - 1] = s[i - 1]
    <3>1. i > 1 => i - 1 \in 1..n /\ k - 1 = (i - 1) + 1 BY <1>4, <2>1
    <3> QED BY <1>5, <3>1
  <2>4. InGuard(g, k) BY <1>4, <1>8
  <2>5. /\ Accesses(s[i]) /\ s[i].register \in Used
        /\ s[i].does = "load" => i + 1 \in DOMAIN s /\ StoresAfter(s[i], s[i + 1])
        /\ s[i].does = "store" => i > 1 /\ StoresAfter(s[i - 1], s[i])
    BY <1>4 DEF Body
  <2> QED BY <2>1, <2>2, <2>3, <2>4, <2>5 DEF InOrder, Accesses
<1>13. \A k \in DOMAIN g : InOrder(g, k)
  <2>1. \A k \in DOMAIN g : k = 1 \/ k \in 2..n+1 \/ k = n + 2 BY <1>4, <1>5
  <2> QED BY <1>10, <1>11, <1>12, <2>1
<1>14. Whole(g) BY <1>2, <1>5, <1>9, <1>13 DEF Whole, Orderly
<1>15. ASSUME NEW k \in DOMAIN g
       PROVE \/ ~Accesses(g[k]) /\ g[k].clear \cup g[k].set = {}
             \/ \E j \in DOMAIN s : g[k] = s[j]
  <2>1. k = 1 \/ k \in 2..n+1 \/ k = n + 2 BY <1>4, <1>5
  <2>2. CASE k = 1 BY <1>2, <1>5, <2>2 DEF Accesses
  <2>3. CASE k = n + 2 BY <1>2, <1>5, <2>3 DEF Accesses
  <2>4. CASE k \in 2..n+1 BY <1>4, <1>6, <2>4
  <2> QED BY <2>1, <2>2, <2>3, <2>4
<1> QED BY <1>14, <1>15 DEF g

(* So it is without them, on the registers of timers. *)
LEMMA TimersAreWhole ==
  ASSUME NEW s, Body(s), \A k \in DOMAIN s : s[k].register \in Timer
  PROVE Whole(s)
<1>1. s \in Seq(Instruction) /\ DOMAIN s = 1..Len(s) /\ Len(s) \in Nat BY DEF Body
<1>2. \A k \in DOMAIN s : s[k].does \in {"load", "store"} BY DEF Body, Accesses
<1>3. ~InGuard(s, 1) BY <1>1, <1>2 DEF InGuard
<1>4. s # << >> => s[1].does # "store" BY <1>1 DEF Body
<1>5. \A r \in Timer : r \notin Port BY DEF Timer, Port
<1>6. \A k \in DOMAIN s : InOrder(s, k) BY <1>2, <1>5 DEF Body, InOrder, Accesses
<1> QED BY <1>1, <1>3, <1>4, <1>6 DEF Whole, Orderly

(* All changes are of one pin. *)
ChangesOnly(i, p) ==
  \E of \in Registers(p) : i.register = RegisterOf(p, of) /\ i.clear \cup i.set = {BitOf(p, of)}
OnlyOf(s, p) ==
  \A k \in DOMAIN s :
    ChangesOnly(s[k], p) \/ (~Accesses(s[k]) /\ s[k].clear \cup s[k].set = {})
Part(s, p) == Body(s) /\ \A k \in DOMAIN s : ChangesOnly(s[k], p)
Function(s, p) == Whole(s) /\ OnlyOf(s, p)

LEMMA SwitchIsPart ==
  ASSUME NEW p \in Pin, NEW of \in Registers(p), NEW on \in BOOLEAN
  PROVE /\ Part(Switch(p, of, on), p)
        /\ \A k \in DOMAIN Switch(p, of, on) : Switch(p, of, on)[k].register = RegisterOf(p, of)
<1> DEFINE bit == {BitOf(p, of)}
           clear == IF on THEN {} ELSE bit
           set == IF on THEN bit ELSE {}
           r == RegisterOf(p, of)
<1>1. BitOf(p, of) \in Bit BY PinRegisters, PinsAssumption
<1>2. clear \in SUBSET Bit /\ set \in SUBSET Bit /\ clear \cup set = bit BY <1>1
<1>3. r \in Used BY DEF Used
<1>4. Switch(p, of, on) = Change(r, clear, set) BY DEF Switch
<1> HIDE DEF clear, set
<1>5. Body(Change(r, clear, set)) BY <1>2, <1>3, ChangeIsBody
<1>6. \A k \in DOMAIN Change(r, clear, set) :
        /\ Change(r, clear, set)[k].register = r
        /\ Change(r, clear, set)[k].clear = clear /\ Change(r, clear, set)[k].set = set
  BY <1>2, <1>3, ChangeIsBody
<1> QED BY <1>2, <1>4, <1>5, <1>6 DEF Part, ChangesOnly

LEMMA BothAreParts ==
  ASSUME NEW s, NEW t, NEW p, Part(s, p), Part(t, p)
  PROVE Part(s \o t, p)
<1>1. Body(s \o t) BY BothAreBody DEF Part
<1>2. s \in Seq(Instruction) /\ t \in Seq(Instruction) BY DEF Part, Body
<1>3. \A k \in DOMAIN (s \o t) :
        (k \in DOMAIN s /\ (s \o t)[k] = s[k])
        \/ (k - Len(s) \in DOMAIN t /\ (s \o t)[k] = t[k - Len(s)])
  BY <1>2
<1> QED BY <1>1, <1>3 DEF Part

LEMMA GuardedIsFunction ==
  ASSUME NEW s, NEW p, Part(s, p)
  PROVE Function(Guarded(s), p)
<1>1. Body(s) BY DEF Part
<1>2. Whole(Guarded(s)) BY <1>1, GuardedIsWhole
<1>3. \A k \in DOMAIN Guarded(s) :
        \/ ~Accesses(Guarded(s)[k]) /\ Guarded(s)[k].clear \cup Guarded(s)[k].set = {}
        \/ \E j \in DOMAIN s : Guarded(s)[k] = s[j]
  BY <1>1, GuardedIsWhole
<1> QED BY <1>2, <1>3 DEF Function, OnlyOf, Part

LEMMA BothAreFunctions ==
  ASSUME NEW s, NEW t, NEW p, Function(s, p), Function(t, p)
  PROVE Function(s \o t, p)
<1>1. Whole(s \o t) BY BothAreWhole DEF Function
<1>2. s \in Seq(Instruction) /\ t \in Seq(Instruction) BY DEF Function, Whole, Orderly
<1>3. \A k \in DOMAIN (s \o t) :
        (k \in DOMAIN s /\ (s \o t)[k] = s[k])
        \/ (k - Len(s) \in DOMAIN t /\ (s \o t)[k] = t[k - Len(s)])
  BY <1>2
<1> QED BY <1>1, <1>3 DEF Function, OnlyOf

LEMMA TimerSwitch ==
  ASSUME NEW p \in Pin, OnTimer(p), NEW on \in BOOLEAN
  PROVE Function(Switch(p, "timer", on), p)
<1> DEFINE s == Switch(p, "timer", on)
<1>1. "timer" \in Registers(p) BY DEF Registers
<1>2. Part(s, p) /\ \A k \in DOMAIN s : s[k].register = RegisterOf(p, "timer")
  BY <1>1, SwitchIsPart
<1>3. RegisterOf(p, "timer") \in Timer BY <1>1, PinRegisters, PinsAssumption
<1> HIDE DEF s
<1>4. Whole(s) BY <1>2, <1>3, TimersAreWhole DEF Part
<1> QED BY <1>2, <1>4 DEF Function, OnlyOf, Part, s

LEMMA PinModeIsFunction ==
  ASSUME NEW p \in Pin, NEW mode \in {"INPUT", "INPUT_PULLUP", "OUTPUT"}
  PROVE Function(PinMode(p, mode), p)
<1>1. "mode" \in Registers(p) /\ "output" \in Registers(p) BY DEF Registers
<1>2. Part(Switch(p, "mode", FALSE), p) /\ Part(Switch(p, "mode", TRUE), p)
      /\ Part(Switch(p, "output", FALSE), p) /\ Part(Switch(p, "output", TRUE), p)
  BY <1>1, SwitchIsPart
<1>3. CASE mode = "INPUT"
  <2>1. PinMode(p, mode) = Guarded(Switch(p, "mode", FALSE) \o Switch(p, "output", FALSE))
    BY <1>3 DEF PinMode
  <2> QED BY <1>2, <2>1, BothAreParts, GuardedIsFunction
<1>4. CASE mode = "INPUT_PULLUP"
  <2>1. PinMode(p, mode) = Guarded(Switch(p, "mode", FALSE) \o Switch(p, "output", TRUE))
    BY <1>4 DEF PinMode
  <2> QED BY <1>2, <2>1, BothAreParts, GuardedIsFunction
<1>5. CASE mode = "OUTPUT"
  <2>1. PinMode(p, mode) = Guarded(Switch(p, "mode", TRUE)) BY <1>5 DEF PinMode
  <2> QED BY <1>2, <2>1, GuardedIsFunction
<1> QED BY <1>3, <1>4, <1>5

LEMMA TurnOffIsFunction ==
  ASSUME NEW p \in Pin
  PROVE Function(TurnOffPWM(p), p)
<1>1. CASE OnTimer(p)
  <2>1. TurnOffPWM(p) = Switch(p, "timer", FALSE) BY <1>1 DEF TurnOffPWM
  <2> QED BY <1>1, <2>1, TimerSwitch
<1>2. CASE ~OnTimer(p)
  <2>1. TurnOffPWM(p) = << >> BY <1>2 DEF TurnOffPWM
  <2>2. << >> \in Seq(Instruction) /\ DOMAIN << >> = {} /\ Len(<< >>) = 0 OBVIOUS
  <2>3. ~InGuard(<< >>, 1) BY DEF InGuard
  <2> QED BY <2>1, <2>2, <2>3 DEF Function, OnlyOf, Whole, Orderly
<1> QED BY <1>1, <1>2

LEMMA DigitalWriteIsFunction ==
  ASSUME NEW p \in Pin, NEW val \in {"LOW", "HIGH"}
  PROVE Function(DigitalWrite(p, val), p)
<1>1. "output" \in Registers(p) /\ (val = "HIGH") \in BOOLEAN BY DEF Registers
<1>2. Part(Switch(p, "output", val = "HIGH"), p) BY <1>1, SwitchIsPart
<1>3. Function(Guarded(Switch(p, "output", val = "HIGH")), p) BY <1>2, GuardedIsFunction
<1> QED BY <1>3, TurnOffIsFunction, BothAreFunctions DEF DigitalWrite

LEMMA AnalogWriteIsFunction ==
  ASSUME NEW p \in Pin, NEW val \in {0, 127, 128, 255}
  PROVE Function(AnalogWrite(p, val), p)
<1> DEFINE mode == PinMode(p, "OUTPUT")
           rest == CASE val = 0 -> DigitalWrite(p, "LOW")
                     [] val = 255 -> DigitalWrite(p, "HIGH")
                     [] val \notin {0, 255} /\ OnTimer(p) -> Switch(p, "timer", TRUE)
                     [] OTHER -> DigitalWrite(p, IF val < 128 THEN "LOW" ELSE "HIGH")
<1>1. AnalogWrite(p, val) = mode \o rest BY DEF AnalogWrite
<1>2. Function(mode, p) BY PinModeIsFunction
<1>3. Function(rest, p)
  <2>1. Function(DigitalWrite(p, "LOW"), p) /\ Function(DigitalWrite(p, "HIGH"), p)
    BY DigitalWriteIsFunction
  <2>2. OnTimer(p) => Function(Switch(p, "timer", TRUE), p) BY TimerSwitch
  <2>3. \/ rest = DigitalWrite(p, "LOW") \/ rest = DigitalWrite(p, "HIGH")
        \/ OnTimer(p) /\ rest = Switch(p, "timer", TRUE)
    <3>1. CASE val = 0 BY <3>1
    <3>2. CASE val = 255 BY <3>2
    <3>3. ASSUME val \in {127, 128}
          PROVE rest = IF OnTimer(p) THEN Switch(p, "timer", TRUE)
                       ELSE DigitalWrite(p, IF val < 128 THEN "LOW" ELSE "HIGH")
      <4>1. ~(val = 0) /\ ~(val = 255) /\ val \notin {0, 255} BY <3>3
      <4> QED BY <4>1
    <3>4. (IF val < 128 THEN "LOW" ELSE "HIGH") \in {"LOW", "HIGH"} OBVIOUS
    <3> HIDE DEF rest
    <3> QED BY <3>1, <3>2, <3>3, <3>4
  <2> QED BY <2>1, <2>2, <2>3
<1> HIDE DEF mode, rest
<1> QED BY <1>1, <1>2, <1>3, BothAreFunctions

-----------------------------------------------------------------------------
(* What the contexts may be given to do. *)
Suits(s, c) ==
  /\ Whole(s) /\ Keeps(s, Pin \ Own(c))
  /\ c = "handler" => \A k \in DOMAIN s : Accesses(s[k]) => s[k].register \in Port

LEMMA FunctionSuits ==
  ASSUME NEW s, NEW c \in Context, NEW p \in Own(c), Function(s, p)
  PROVE Suits(s, c)
<1>1. p \in Pin /\ Pin \subseteq DigitalPin BY PinsAssumption DEF Own
<1>2. ASSUME NEW k \in DOMAIN s, NEW q \in Pin \ Own(c), NEW at \in Registers(q)
      PROVE ~Changes(s[k], q, at)
  <2>1. SUFFICES ASSUME Changes(s[k], q, at) PROVE FALSE OBVIOUS
  <2>2. PICK of \in Registers(p) :
          s[k].register = RegisterOf(p, of) /\ s[k].clear \cup s[k].set = {BitOf(p, of)}
    BY <2>1 DEF Function, OnlyOf, ChangesOnly, Changes
  <2>3. RegisterOf(p, of) = RegisterOf(q, at) /\ BitOf(p, of) = BitOf(q, at)
    BY <2>1, <2>2 DEF Changes
  <2>4. q \in DigitalPin BY <1>1
  <2>5. p = q BY <1>1, <2>3, <2>4, OnePlace
  <2> QED BY <2>5
<1>3. ASSUME c = "handler", NEW k \in DOMAIN s, Accesses(s[k]) PROVE s[k].register \in Port
  <2>1. p \in HandlerPin BY <1>3 DEF Own
  <2>2. ~OnTimer(p) BY <2>1, PinsAssumption DEF OnTimer
  <2>3. PICK of \in Registers(p) : s[k].register = RegisterOf(p, of)
    BY <1>3 DEF Function, OnlyOf, ChangesOnly
  <2>4. of # "timer" BY <2>2, <2>3 DEF Registers
  <2>5. RegisterOf(p, of) \in Port BY <1>1, <2>4, PinRegisters
  <2> QED BY <2>3, <2>5
<1> QED BY <1>2, <1>3 DEF Suits, Keeps, Function

LEMMA CallsSuit ==
  ASSUME NEW p \in Pin \ HandlerPin, NEW f \in Calls(p)
  PROVE Suits(f, "program")
<1>1. p \in Own("program") /\ "program" \in Context /\ p \in Pin BY DEF Own, Context
<1>2. Function(f, p)
  <2>1. CASE \E mode \in {"INPUT", "INPUT_PULLUP", "OUTPUT"} : f = PinMode(p, mode)
    BY <1>1, <2>1, PinModeIsFunction
  <2>2. CASE \E val \in {"LOW", "HIGH"} : f = DigitalWrite(p, val)
    BY <1>1, <2>2, DigitalWriteIsFunction
  <2>3. CASE f = DigitalRead(p) BY <1>1, <2>3, TurnOffIsFunction DEF DigitalRead
  <2>4. CASE \E val \in {0, 127, 128, 255} : f = AnalogWrite(p, val)
    BY <1>1, <2>4, AnalogWriteIsFunction
  <2> QED BY <2>1, <2>2, <2>3, <2>4 DEF Calls
<1> QED BY <1>1, <1>2, FunctionSuits

LEMMA PulsesSuit ==
  ASSUME NEW f \in Pulses
  PROVE Suits(f, "handler")
<1>1. ASSUME NEW p \in HandlerPin, NEW val \in {"LOW", "HIGH"}
      PROVE Suits(DigitalWrite(p, val), "handler")
  <2>1. p \in Own("handler") /\ "handler" \in Context /\ p \in Pin
    BY PinsAssumption DEF Own, Context
  <2>2. Function(DigitalWrite(p, val), p) BY <2>1, DigitalWriteIsFunction
  <2> QED BY <2>1, <2>2, FunctionSuits
<1>2. ASSUME NEW s, NEW t, Suits(s, "handler"), Suits(t, "handler")
      PROVE Suits(s \o t, "handler")
  <2>1. s \in Seq(Instruction) /\ t \in Seq(Instruction) BY <1>2 DEF Suits, Whole, Orderly
  <2>2. Whole(s \o t) BY <1>2, BothAreWhole DEF Suits
  <2>3. Keeps(s \o t, Pin \ Own("handler")) BY <1>2, <2>1, BothKeep DEF Suits
  <2>4. \A k \in DOMAIN (s \o t) :
          (k \in DOMAIN s /\ (s \o t)[k] = s[k])
          \/ (k - Len(s) \in DOMAIN t /\ (s \o t)[k] = t[k - Len(s)])
    BY <2>1
  <2> QED BY <1>2, <2>2, <2>3, <2>4 DEF Suits
<1>3. CASE \E p \in HandlerPin : \E val \in {"LOW", "HIGH"} : f = DigitalWrite(p, val)
  BY <1>1, <1>3
<1>4. CASE \E p, q \in HandlerPin : f = DigitalWrite(p, "LOW") \o DigitalWrite(q, "HIGH")
  BY <1>1, <1>2, <1>4
<1>5. CASE f \in { DigitalWrite(p, val) : p \in HandlerPin, val \in {"LOW", "HIGH"} }
  BY <1>3, <1>5
<1>6. CASE f \in { DigitalWrite(pq[1], "LOW") \o DigitalWrite(pq[2], "HIGH") :
                     pq \in { x \in HandlerPin \X HandlerPin : x[1] # x[2] } }
  <2>1. PICK pq \in HandlerPin \X HandlerPin :
          f = DigitalWrite(pq[1], "LOW") \o DigitalWrite(pq[2], "HIGH")
    BY <1>6
  <2>2. pq[1] \in HandlerPin /\ pq[2] \in HandlerPin BY <2>1
  <2> QED BY <1>4, <2>1, <2>2
<1> QED BY <1>5, <1>6 DEF Pulses

(* A handler that nothing is to be done in is left out. *)
LEMMA PulsesAreSome == ASSUME NEW f \in Pulses PROVE f # << >>
<1>1. ASSUME NEW p \in HandlerPin, NEW val \in {"LOW", "HIGH"}
      PROVE DigitalWrite(p, val) \in Seq(Instruction) /\ DigitalWrite(p, val) # << >>
  <2>1. p \in Pin /\ "output" \in Registers(p) /\ (val = "HIGH") \in BOOLEAN
    BY PinsAssumption DEF Registers
  <2> DEFINE s == Switch(p, "output", val = "HIGH")
             g == Guarded(s)
  <2>2. s \in Seq(Instruction) BY <2>1, SwitchIsPart DEF Part, Body
  <2> HIDE DEF s
  <2>3. g \in Seq(Instruction) /\ g # << >>
    <3>1. I("cli", "SREG", {}, {}) \in Instruction /\ I("restore", "SREG", {}, {}) \in Instruction
      BY DEF I, Instruction
    <3>2. g = << I("cli", "SREG", {}, {}) >> \o s \o << I("restore", "SREG", {}, {}) >>
      BY DEF Guarded, ChangesSREG
    <3> HIDE DEF g
    <3> QED BY <2>2, <3>1, <3>2
  <2>4. TurnOffPWM(p) \in Seq(Instruction)
    BY <2>1, TurnOffIsFunction DEF Function, Whole, Orderly
  <2>5. DigitalWrite(p, val) = TurnOffPWM(p) \o g BY DEF DigitalWrite, s
  <2> HIDE DEF g
  <2> QED BY <2>3, <2>4, <2>5
<1>2. CASE f \in { DigitalWrite(p, val) : p \in HandlerPin, val \in {"LOW", "HIGH"} }
  BY <1>1, <1>2
<1>3. CASE f \in { DigitalWrite(pq[1], "LOW") \o DigitalWrite(pq[2], "HIGH") :
                     pq \in { x \in HandlerPin \X HandlerPin : x[1] # x[2] } }
  <2>1. PICK pq \in HandlerPin \X HandlerPin :
          f = DigitalWrite(pq[1], "LOW") \o DigitalWrite(pq[2], "HIGH")
    BY <1>3
  <2>2. pq[1] \in HandlerPin /\ pq[2] \in HandlerPin BY <2>1
  <2>3. \A s, t \in Seq(Instruction) : s # << >> => s \o t # << >> OBVIOUS
  <2>4. /\ DigitalWrite(pq[1], "LOW") \in Seq(Instruction)
        /\ DigitalWrite(pq[1], "LOW") # << >>
        /\ DigitalWrite(pq[2], "HIGH") \in Seq(Instruction)
    BY <1>1, <2>2
  <2> QED BY <2>1, <2>3, <2>4
<1> QED BY <1>2, <1>3 DEF Pulses

-----------------------------------------------------------------------------
(* The invariant holds, and every step keeps it. *)

LEMMA NothingLeft == Orderly(<< >>) /\ ~InGuard(<< >>, 1) /\ \A P : Keeps(<< >>, P)
<1>1. << >> \in Seq(Instruction) /\ DOMAIN << >> = {} /\ Len(<< >>) = 0 OBVIOUS
<1> QED BY <1>1 DEF Orderly, InGuard, Keeps

LEMMA AtFirst == Init => PinsInv
<1> SUFFICES ASSUME Init PROVE PinsInv OBVIOUS
<1>1. /\ register = [r \in Used |-> {}] /\ enabled = TRUE
      /\ todo = [c \in Context |-> << >>]
      /\ loaded = [c \in Context |-> {}] /\ oldSREG = [c \in Context |-> TRUE]
      /\ wanted = [p \in Pin |-> [of \in Registers(p) |-> FALSE]]
  BY DEF Init, AvrInit, Used
<1>2. "handler" \in Context /\ "program" \in Context BY DEF Context
<1>3. Types BY <1>1 DEF Types
<1>4. Functions BY <1>1, <1>2, NothingLeft DEF Functions
<1>5. Masks BY <1>1, <1>2, NothingLeft DEF Masks
<1>6. Fresh BY <1>1 DEF Fresh
<1>7. ASSUME NEW c \in Context, NEW p \in Own(c), NEW of \in Registers(p)
      PROVE WillBe(todo[c], p, of)
  <2>1. p \in Pin BY PinsAssumption DEF Own
  <2>2. RegisterOf(p, of) \in Used BY <2>1 DEF Used
  <2>3. ~IsOn(p, of) /\ ~wanted[p][of] BY <1>1, <2>1, <2>2 DEF IsOn
  <2>4. todo[c] = << >> /\ DOMAIN << >> = {} BY <1>1
  <2> QED BY <2>3, <2>4 DEF WillBe
<1> QED BY <1>3, <1>4, <1>5, <1>6, <1>7 DEF PinsInv, Promises

(* What a function asks for is what its last changes make. *)
LEMMA WantedIs ==
  ASSUME NEW f \in Seq(Instruction), NEW p \in Pin, NEW of \in Registers(p)
  PROVE /\ \A k \in DOMAIN f :
             LastChange(f, k, p, of) => (BitOf(p, of) \in f[k].set <=> Wanted(f)[p][of])
        /\ (\A k \in DOMAIN f : ~Changes(f[k], p, of)) => Wanted(f)[p][of] = wanted[p][of]
<1> DEFINE last == { k \in DOMAIN f : LastChange(f, k, p, of) }
<1>1. Wanted(f)[p][of] = IF last = {} THEN wanted[p][of]
                         ELSE \E k \in last : BitOf(p, of) \in f[k].set
  BY DEF Wanted
<1>2. DOMAIN f = 1..Len(f) /\ Len(f) \in Nat OBVIOUS
<1>3. ASSUME NEW k \in last, NEW j \in last PROVE k = j
  <2>1. k \in Nat /\ j \in Nat /\ k <= Len(f) /\ j <= Len(f) BY <1>2
  <2>2. ~(j > k) /\ ~(k > j) BY <1>2, <2>1 DEF LastChange
  <2> QED BY <2>1, <2>2
<1>4. ASSUME NEW k \in DOMAIN f, LastChange(f, k, p, of)
      PROVE BitOf(p, of) \in f[k].set <=> Wanted(f)[p][of]
  <2>1. k \in last BY <1>4
  <2> HIDE DEF last
  <2>2. Wanted(f)[p][of] = \E j \in last : BitOf(p, of) \in f[j].set BY <1>1, <2>1
  <2> QED BY <1>3, <2>1, <2>2
<1>5. (\A k \in DOMAIN f : ~Changes(f[k], p, of)) => last = {} BY DEF LastChange
<1> QED BY <1>1, <1>4, <1>5

LEMMA WantedTypes ==
  ASSUME Types, NEW f \in Seq(Instruction)
  PROVE \A p \in Pin : Wanted(f)[p] \in [Registers(p) -> BOOLEAN]
<1>1. ASSUME NEW p \in Pin PROVE Wanted(f)[p] \in [Registers(p) -> BOOLEAN]
  <2>1. Wanted(f)[p] = [of \in Registers(p) |->
           LET last == { k \in DOMAIN f : LastChange(f, k, p, of) }
           IN  IF last = {} THEN wanted[p][of] ELSE \E k \in last : BitOf(p, of) \in f[k].set]
    BY DEF Wanted
  <2>2. \A of \in Registers(p) : wanted[p][of] \in BOOLEAN BY DEF Types
  <2> QED BY <2>1, <2>2
<1> QED BY <1>1

(* A function starts. *)
LEMMA FunctionStarts ==
  ASSUME PinsInv, NEW c \in Context, NEW f, Suits(f, c), todo[c] = << >>,
         Starts(c, f), wanted' = Wanted(f), enabled' \in BOOLEAN
  PROVE Types' /\ Functions' /\ Fresh' /\ Promises'
<1> USE DEF PinsInv
<1>1. /\ todo' = [todo EXCEPT ![c] = f]
      /\ register' = register /\ loaded' = loaded /\ oldSREG' = oldSREG
  BY DEF Starts
<1>2. todo'[c] = f /\ \A d \in Context : d # c => todo'[d] = todo[d] BY <1>1 DEF Types
<1>3. f \in Seq(Instruction) /\ Orderly(f) BY DEF Suits, Whole, Orderly
<1>4. Types'
  <2>1. DOMAIN todo' = Context /\ todo' = [d \in Context |-> todo'[d]] BY <1>1 DEF Types
  <2> QED BY <1>1, <1>3, <2>1, WantedTypes DEF Types
<1>5. Functions' BY <1>2, <1>3 DEF Functions, Suits, Context
<1>6. Fresh'
  <2>1. f # << >> => f[1].does # "store" BY DEF Suits, Whole
  <2>2. SUFFICES ASSUME NEW d \in Context, todo'[d] # << >> /\ todo'[d][1].does = "store"
                 PROVE loaded'[d] = register'[todo'[d][1].register]
    BY DEF Fresh
  <2>3. d # c BY <1>2, <2>1, <2>2
  <2> QED BY <1>1, <1>2, <2>2, <2>3 DEF Fresh
<1>7. ASSUME NEW d \in Context, NEW p \in Own(d), NEW of \in Registers(p)
      PROVE WillBe(todo[d], p, of)'
  <2>1. p \in Pin BY PinsAssumption DEF Own
  <2>2. IsOn(p, of)' <=> IsOn(p, of) BY <1>1 DEF IsOn
  <2>3. WillBe(todo[d], p, of) BY DEF Promises
  <2>4. CASE d = c
    <3>1. IsOn(p, of) <=> wanted[p][of]
      <4>1. todo[d] = << >> /\ DOMAIN << >> = {} BY <2>4
      <4> QED BY <2>3, <4>1 DEF WillBe
    <3>2. /\ \A k \in DOMAIN f :
               LastChange(f, k, p, of) => (BitOf(p, of) \in f[k].set <=> wanted'[p][of])
          /\ (\A k \in DOMAIN f : ~Changes(f[k], p, of)) => wanted'[p][of] = wanted[p][of]
      BY <1>3, <2>1, WantedIs
    <3> QED BY <1>2, <2>2, <2>4, <3>1, <3>2 DEF WillBe
  <2>5. CASE d # c
    <3>1. p \in Pin \ Own(c) BY <2>1, <2>5 DEF Own, Context
    <3>2. \A k \in DOMAIN f : ~Changes(f[k], p, of) BY <3>1 DEF Suits, Keeps
    <3>3. wanted'[p][of] = wanted[p][of] BY <1>3, <2>1, <3>2, WantedIs
    <3> QED BY <1>2, <2>2, <2>3, <2>5, <3>3 DEF WillBe
  <2> QED BY <2>4, <2>5
<1> QED BY <1>4, <1>5, <1>6, <1>7 DEF Promises

LEMMA ProgramCallsKeeps == ASSUME PinsInv, ProgramCalls PROVE PinsInv'
<1>1. PICK p \in Pin \ HandlerPin :
        \E g \in Calls(p) : ProgramStarts(g) /\ wanted' = Wanted(g)
  BY DEF ProgramCalls
<1>2. PICK f \in Calls(p) : ProgramStarts(f) /\ wanted' = Wanted(f) BY <1>1
<1>3. Suits(f, "program") BY CallsSuit
<1>4. /\ todo["program"] = << >> /\ todo["handler"] = << >>
      /\ Starts("program", f) /\ enabled' = enabled
  BY <1>2 DEF ProgramStarts, Idle, Context
<1>5. "program" \in Context /\ "handler" \in Context BY DEF Context
<1>6. Types' /\ Functions' /\ Fresh' /\ Promises'
  <2>1. enabled' \in BOOLEAN BY <1>4 DEF PinsInv, Types
  <2> QED BY <1>2, <1>3, <1>4, <1>5, <2>1, FunctionStarts
<1>7. Masks'
  <2>1. todo'["program"] = f /\ todo'["handler"] = << >> /\ oldSREG' = oldSREG
    BY <1>4, <1>5 DEF Starts, PinsInv, Types
  <2>2. ~InGuard(f, 1) BY <1>3 DEF Suits, Whole
  <2>3. enabled' = TRUE BY <1>4, NothingLeft DEF PinsInv, Masks, Types
  <2> QED BY <2>1, <2>2, <2>3, NothingLeft DEF Masks
<1> QED BY <1>6, <1>7 DEF PinsInv

LEMMA InterruptKeeps == ASSUME PinsInv, Interrupt PROVE PinsInv'
<1>1. PICK f \in Pulses : HandlerStarts(f) /\ wanted' = Wanted(f) BY DEF Interrupt
<1>2. Suits(f, "handler") BY PulsesSuit
<1>3. todo["handler"] = << >> /\ Starts("handler", f) /\ enabled = TRUE /\ enabled' = FALSE
  BY <1>1 DEF HandlerStarts, PinsInv, Types
<1>4. "program" \in Context /\ "handler" \in Context BY DEF Context
<1>5. Types' /\ Functions' /\ Fresh' /\ Promises'
  BY <1>1, <1>2, <1>3, <1>4, FunctionStarts
<1>6. Masks'
  <2>1. todo'["handler"] = f /\ todo'["program"] = todo["program"] /\ oldSREG' = oldSREG
    BY <1>3, <1>4 DEF Starts, PinsInv, Types
  <2>2. ~InGuard(f, 1) BY <1>2 DEF Suits, Whole
  <2>3. ~InGuard(todo["program"], 1) BY <1>3 DEF PinsInv, Masks
  <2>4. f # << >> BY PulsesAreSome
  <2> QED BY <1>3, <2>1, <2>2, <2>3, <2>4 DEF Masks
<1> QED BY <1>5, <1>6 DEF PinsInv

-----------------------------------------------------------------------------
(* One instruction. *)

(* What is known of the first instruction of an orderly rest. *)
LEMMA FirstOf ==
  ASSUME NEW s, Orderly(s), s # << >>
  PROVE /\ s \in Seq(Instruction) /\ Head(s) = s[1] /\ s[1] \in Instruction
        /\ Tail(s) \in Seq(Instruction) /\ Orderly(Tail(s))
        /\ Accesses(s[1]) => s[1].register \in Used
        /\ s[1].does = "load" => Tail(s) # << >> /\ StoresAfter(s[1], Tail(s)[1])
        /\ Tail(s) # << >> /\ Tail(s)[1].does = "store" => StoresAfter(s[1], Tail(s)[1])
        /\ Accesses(s[1]) /\ s[1].register \in Port => InGuard(s, 1)
        /\ s[1].does = "cli" => ~InGuard(s, 1) /\ InGuard(Tail(s), 1)
        /\ s[1].does = "restore" => InGuard(s, 1) /\ ~InGuard(Tail(s), 1)
        /\ Accesses(s[1]) => (InGuard(s, 1) <=> InGuard(Tail(s), 1))
        /\ ~Accesses(s[1]) => s[1].clear \cup s[1].set = {}
        /\ Tail(s) = << >> <=> Len(s) = 1
<1>1. s \in Seq(Instruction) BY DEF Orderly
<1>2. /\ Head(s) = s[1] /\ s[1] \in Instruction /\ Tail(s) \in Seq(Instruction)
      /\ Tail(s) = << >> <=> Len(s) = 1
      /\ 1 \in DOMAIN s
      /\ 1 + 1 \in DOMAIN s => Tail(s) # << >> /\ Tail(s)[1] = s[1 + 1]
      /\ Tail(s) # << >> => 1 + 1 \in DOMAIN s /\ Tail(s)[1] = s[1 + 1]
  <2> DEFINE t == Tail(s)
  <2>1. /\ Len(s) \in Nat /\ Len(s) >= 1 /\ DOMAIN s = 1..Len(s)
        /\ t \in Seq(Instruction) /\ Len(t) = Len(s) - 1
        /\ \A k \in 1..Len(t) : t[k] = s[k + 1]
    BY <1>1
  <2>2. Head(s) = s[1] /\ s[1] \in Instruction BY <1>1
  <2>3. t = << >> <=> Len(t) = 0
    <3>1. \A x \in Seq(Instruction) : x = << >> <=> Len(x) = 0 OBVIOUS
    <3> QED BY <2>1, <3>1
  <2> HIDE DEF t
  <2>4. 1 + 1 \in DOMAIN s <=> Len(t) > 0 BY <2>1
  <2>5. Len(t) > 0 => t[1] = s[1 + 1] BY <2>1
  <2> QED BY <2>1, <2>2, <2>3, <2>4, <2>5 DEF t
<1>3. InOrder(s, 1) BY <1>2 DEF Orderly
<1>4. InGuard(Tail(s), 1) <=> InGuard(s, 1 + 1) BY <1>1, GuardOfTail
<1>5. /\ s[1].does = "cli" => ~InGuard(s, 1)
      /\ s[1].does = "restore" => InGuard(s, 1)
      /\ s[1].does \notin {"cli", "restore"} => (InGuard(s, 1) <=> InGuard(Tail(s), 1))
  BY <1>1, GuardOfHead
<1>6. Tail(s) # << >> /\ Tail(s)[1].does = "store" => StoresAfter(s[1], Tail(s)[1])
  <2>1. SUFFICES ASSUME Tail(s) # << >>, Tail(s)[1].does = "store"
                 PROVE StoresAfter(s[1], Tail(s)[1])
    OBVIOUS
  <2>2. 1 + 1 \in DOMAIN s /\ Tail(s)[1] = s[1 + 1] BY <1>2, <2>1
  <2>3. InOrder(s, 1 + 1) BY <2>2 DEF Orderly
  <2>4. (1 + 1) - 1 = 1 /\ 1 + 1 > 1 OBVIOUS
  <2> QED BY <2>1, <2>2, <2>3, <2>4 DEF InOrder
<1>7. Orderly(Tail(s)) BY RestIsOrderly
<1> QED BY <1>1, <1>2, <1>3, <1>4, <1>5, <1>6, <1>7 DEF InOrder, Accesses

LEMMA RestKeeps ==
  ASSUME NEW s \in Seq(Instruction), s # << >>, NEW P, Keeps(s, P)
  PROVE /\ Keeps(Tail(s), P)
        /\ \A p \in P : \A of \in Registers(p) : ~Changes(s[1], p, of)
<1>1. 1 \in DOMAIN s /\ \A k \in DOMAIN Tail(s) : k + 1 \in DOMAIN s /\ Tail(s)[k] = s[k + 1]
  OBVIOUS
<1> QED BY <1>1 DEF Keeps

(* The last change of a pin is the first instruction, or one of the rest. *)
LEMMA RestChanges ==
  ASSUME NEW s \in Seq(Instruction), s # << >>, NEW p, NEW of
  PROVE /\ \A k \in DOMAIN Tail(s) :
             LastChange(Tail(s), k, p, of)
               => k + 1 \in DOMAIN s /\ Tail(s)[k] = s[k + 1] /\ LastChange(s, k + 1, p, of)
        /\ (\A k \in DOMAIN Tail(s) : ~Changes(Tail(s)[k], p, of))
             => IF Changes(s[1], p, of) THEN LastChange(s, 1, p, of)
                ELSE \A k \in DOMAIN s : ~Changes(s[k], p, of)
<1> DEFINE t == Tail(s)
<1>1. /\ Len(s) \in Nat /\ Len(s) > 0 /\ Len(t) = Len(s) - 1
      /\ DOMAIN s = 1..Len(s) /\ DOMAIN t = 1..Len(t)
      /\ \A k \in 1..Len(t) : t[k] = s[k + 1]
  OBVIOUS
<1> HIDE DEF t
<1>2. ASSUME NEW k \in DOMAIN t, LastChange(t, k, p, of)
      PROVE k + 1 \in DOMAIN s /\ t[k] = s[k + 1] /\ LastChange(s, k + 1, p, of)
  <2>1. k + 1 \in DOMAIN s /\ t[k] = s[k + 1] BY <1>1
  <2>2. \A j \in k+1+1..Len(s) : j - 1 \in k+1..Len(t) /\ t[j - 1] = s[j]
    <3>1. \A j \in k+1+1..Len(s) : j - 1 \in k+1..Len(t) /\ j - 1 \in 1..Len(t) /\ (j - 1) + 1 = j
      BY <1>1
    <3> QED BY <1>1, <3>1
  <2> QED BY <1>2, <2>1, <2>2 DEF LastChange
<1>3. ASSUME \A k \in DOMAIN t : ~Changes(t[k], p, of)
      PROVE \A j \in 2..Len(s) : ~Changes(s[j], p, of)
  <2>1. \A j \in 2..Len(s) : j - 1 \in DOMAIN t /\ t[j - 1] = s[j]
    <3>1. \A j \in 2..Len(s) : j - 1 \in 1..Len(t) /\ (j - 1) + 1 = j BY <1>1
    <3> QED BY <1>1, <3>1
  <2> QED BY <1>3, <2>1
<1>4. \A k \in DOMAIN s : k = 1 \/ k \in 2..Len(s) BY <1>1
<1>5. ASSUME \A k \in DOMAIN t : ~Changes(t[k], p, of)
      PROVE IF Changes(s[1], p, of) THEN LastChange(s, 1, p, of)
            ELSE \A k \in DOMAIN s : ~Changes(s[k], p, of)
  <2>1. 1 + 1 = 2 OBVIOUS
  <2> QED BY <1>3, <1>4, <1>5, <2>1 DEF LastChange
<1> QED BY <1>2, <1>5 DEF t

(* What the instruction does. *)
LEMMA StepDoes ==
  ASSUME PinsInv, NEW c \in Context, Step(c)
  PROVE /\ todo[c] # << >> /\ (c = "program" => todo["handler"] = << >>)
        /\ todo' = [todo EXCEPT ![c] = Tail(todo[c])]
        /\ \/ /\ todo[c][1].does = "cli" /\ Done(c, FALSE)
              /\ oldSREG' = [oldSREG EXCEPT ![c] = enabled]
              /\ register' = register /\ loaded' = loaded
           \/ /\ todo[c][1].does = "restore" /\ Done(c, oldSREG[c])
              /\ register' = register /\ loaded' = loaded /\ oldSREG' = oldSREG
           \/ /\ todo[c][1].does = "load" /\ Done(c, enabled)
              /\ loaded' = [loaded EXCEPT ![c] = register[todo[c][1].register]]
              /\ register' = register /\ oldSREG' = oldSREG
           \/ /\ todo[c][1].does = "store" /\ Done(c, enabled)
              /\ register' = [register EXCEPT ![todo[c][1].register] = Bits(loaded[c], todo[c][1])]
              /\ loaded' = [loaded EXCEPT ![c] = {}] /\ oldSREG' = oldSREG
<1>1. todo[c] # << >> /\ (c = "program" => todo["handler"] = << >>) BY DEF Step, Running
<1>2. Head(todo[c]) = todo[c][1] /\ todo[c][1] \in Instruction
  BY <1>1, FirstOf DEF PinsInv, Functions
<1>3. todo[c][1].does \in {"cli", "restore", "load", "store"} BY <1>2 DEF Instruction
<1>4. todo' = [todo EXCEPT ![c] = Tail(todo[c])] BY DEF Step
<1>5. CASE todo[c][1].does = "cli" BY <1>1, <1>2, <1>4, <1>5 DEF Step
<1>6. CASE todo[c][1].does = "restore"
  <2>1. Done(c, Head(todo[c]).does = "sei" \/ Restored(c))
        /\ register' = register /\ loaded' = loaded /\ oldSREG' = oldSREG
    BY <1>2, <1>6 DEF Step
  <2>2. (Head(todo[c]).does = "sei" \/ Restored(c)) = oldSREG[c]
    <3>1. oldSREG[c] \in BOOLEAN BY DEF PinsInv, Types
    <3>2. ~(Head(todo[c]).does = "sei") BY <1>2, <1>6
    <3>3. Restored(c) = oldSREG[c] BY DEF Restored
    <3> QED BY <3>1, <3>2, <3>3
  <2>3. Done(c, oldSREG[c]) BY <2>1, <2>2
  <2> QED BY <1>1, <1>4, <1>6, <2>1, <2>3
<1>7. CASE todo[c][1].does = "load" BY <1>1, <1>2, <1>4, <1>7 DEF Step
<1>8. CASE todo[c][1].does = "store" BY <1>1, <1>2, <1>4, <1>8 DEF Step, Stores
<1> QED BY <1>3, <1>5, <1>6, <1>7, <1>8

LEMMA StepTypes == ASSUME PinsInv, NEW c \in Context, Step(c), wanted' = wanted PROVE Types'
<1>1. todo[c] # << >> BY StepDoes
<1>2. /\ todo[c][1] \in Instruction
      /\ Accesses(todo[c][1]) => todo[c][1].register \in Used
  BY <1>1, FirstOf DEF PinsInv, Functions
<1>3. Types BY DEF PinsInv
<1>4. enabled' \in BOOLEAN BY <1>3, StepDoes DEF Done, Types
<1>5. register' \in [Used -> SUBSET Bit]
  <2>1. Bits(loaded[c], todo[c][1]) \subseteq Bit BY <1>2, <1>3 DEF Bits, Types, Instruction
  <2>2. \/ register' = register
        \/ register' = [register EXCEPT ![todo[c][1].register] = Bits(loaded[c], todo[c][1])]
    BY StepDoes
  <2> QED BY <1>3, <2>1, <2>2 DEF Types
<1>6. loaded' \in [Context -> SUBSET Bit]
  <2>1. todo[c][1].does = "load" => register[todo[c][1].register] \subseteq Bit
    BY <1>2, <1>3 DEF Types, Accesses
  <2>2. \/ loaded' = loaded \/ loaded' = [loaded EXCEPT ![c] = {}]
        \/ /\ todo[c][1].does = "load"
           /\ loaded' = [loaded EXCEPT ![c] = register[todo[c][1].register]]
    BY StepDoes
  <2> QED BY <1>3, <2>1, <2>2 DEF Types
<1>7. oldSREG' \in [Context -> BOOLEAN] BY <1>3, StepDoes DEF Types
<1>8. DOMAIN todo' = Context /\ todo' = [d \in Context |-> todo'[d]]
  BY <1>3, StepDoes DEF Types
<1> QED BY <1>3, <1>4, <1>5, <1>6, <1>7, <1>8 DEF Types

(* The other context is where it was. *)
LEMMA StepMoves ==
  ASSUME PinsInv, NEW c \in Context, Step(c)
  PROVE /\ todo[c] # << >> /\ todo'[c] = Tail(todo[c])
        /\ \A d \in Context : d # c => todo'[d] = todo[d]
BY StepDoes DEF PinsInv, Types

LEMMA StepFunctions == ASSUME PinsInv, NEW c \in Context, Step(c) PROVE Functions'
<1> DEFINE s == todo[c]
<1>1. s # << >> /\ todo'[c] = Tail(s) /\ \A d \in Context : d # c => todo'[d] = todo[d]
  BY StepMoves
<1>2. Orderly(s) /\ Keeps(s, Pin \ Own(c)) BY DEF PinsInv, Functions
<1>3. s \in Seq(Instruction) /\ Orderly(Tail(s)) BY <1>1, <1>2, FirstOf
<1>4. Keeps(Tail(s), Pin \ Own(c)) BY <1>1, <1>2, <1>3, RestKeeps
<1>5. c = "handler" => \A k \in DOMAIN Tail(s) : Accesses(Tail(s)[k]) => Tail(s)[k].register \in Port
  <2>1. \A k \in DOMAIN Tail(s) : k + 1 \in DOMAIN s /\ Tail(s)[k] = s[k + 1] BY <1>1, <1>3
  <2> QED BY <2>1 DEF PinsInv, Functions
<1> HIDE DEF s
<1>6. \A d \in Context : Orderly(todo'[d]) /\ Keeps(todo'[d], Pin \ Own(d))
  BY <1>1, <1>3, <1>4 DEF PinsInv, Functions
<1>7. \A k \in DOMAIN todo'["handler"] :
        Accesses(todo'["handler"][k]) => todo'["handler"][k].register \in Port
  <2>1. "handler" \in Context BY DEF Context
  <2>2. CASE c = "handler" BY <1>1, <1>5, <2>2
  <2>3. CASE c # "handler" BY <1>1, <2>1, <2>3 DEF PinsInv, Functions
  <2> QED BY <2>2, <2>3
<1> QED BY <1>6, <1>7 DEF Functions

LEMMA StepMasks == ASSUME PinsInv, NEW c \in Context, Step(c) PROVE Masks'
<1> DEFINE s == todo[c]
           t == Tail(s)
<1>1. s # << >> /\ todo'[c] = t /\ \A d \in Context : d # c => todo'[d] = todo[d]
  BY StepMoves
<1>2. "program" \in Context /\ "handler" \in Context /\ c \in {"program", "handler"}
  BY DEF Context
<1>3. /\ s[1].does = "cli" => ~InGuard(s, 1) /\ InGuard(t, 1)
      /\ s[1].does = "restore" => InGuard(s, 1) /\ ~InGuard(t, 1)
      /\ Accesses(s[1]) => (InGuard(s, 1) <=> InGuard(t, 1))
      /\ t = << >> <=> Len(s) = 1
  <2>1. Orderly(s) BY DEF PinsInv, Functions
  <2> HIDE DEF s
  <2> QED BY <1>1, <2>1, FirstOf
<1>4. /\ enabled \in BOOLEAN /\ oldSREG \in [Context -> BOOLEAN]
      /\ todo["handler"] = << >> => (enabled <=> ~InGuard(todo["program"], 1))
      /\ todo["handler"] # << >> => ~enabled /\ ~InGuard(todo["program"], 1)
      /\ InGuard(todo["program"], 1) => oldSREG["program"]
      /\ InGuard(todo["handler"], 1) => ~oldSREG["handler"]
  BY DEF PinsInv, Types, Masks
<1>5. \/ s[1].does = "cli" /\ Done(c, FALSE) /\ oldSREG' = [oldSREG EXCEPT ![c] = enabled]
      \/ s[1].does = "restore" /\ Done(c, oldSREG[c]) /\ oldSREG' = oldSREG
      \/ Accesses(s[1]) /\ Done(c, enabled) /\ oldSREG' = oldSREG
  BY StepDoes DEF Accesses
<1>6. CASE c = "program"
  <2>1. todo["handler"] = << >> /\ todo'["handler"] = << >> /\ todo["program"] = s
    BY <1>1, <1>2, <1>6, StepDoes
  <2>2. todo'["program"] = t BY <1>1, <1>6
  <2> HIDE DEF s, t
  <2>3. enabled' <=> ~InGuard(t, 1)
    BY <1>3, <1>4, <1>5, <1>6, <2>1 DEF Done
  <2>4. InGuard(t, 1) => oldSREG'["program"]
    BY <1>2, <1>3, <1>4, <1>5, <1>6, <2>1
  <2> QED BY <2>1, <2>2, <2>3, <2>4, NothingLeft DEF Masks
<1>7. CASE c = "handler"
  <2>1. todo["handler"] = s /\ todo'["handler"] = t /\ todo'["program"] = todo["program"]
    BY <1>1, <1>2, <1>7
  <2>2. ~enabled /\ ~InGuard(todo["program"], 1) BY <1>1, <1>4, <2>1
  <2>3. (InGuard(s, 1) => ~oldSREG["handler"]) /\ Len(todo[c]) = Len(s) BY <1>4, <2>1
  <2> HIDE DEF s, t
  <2>4. t = << >> => enabled' BY <1>3, <1>5, <1>7, <2>3 DEF Done
  <2>5. t # << >> => ~enabled' BY <1>3, <1>5, <1>7, <2>2, <2>3 DEF Done
  <2>6. InGuard(t, 1) => ~oldSREG'["handler"]
    BY <1>2, <1>3, <1>4, <1>5, <1>7, <2>2, <2>3
  <2> QED BY <2>1, <2>2, <2>4, <2>5, <2>6 DEF Masks
<1> QED BY <1>2, <1>6, <1>7

LEMMA StepFresh == ASSUME PinsInv, NEW c \in Context, Step(c) PROVE Fresh'
<1> DEFINE s == todo[c]
           t == Tail(s)
<1>1. s # << >> /\ todo'[c] = t /\ \A d \in Context : d # c => todo'[d] = todo[d]
  BY StepMoves
<1>2. /\ t # << >> /\ t[1].does = "store" => StoresAfter(s[1], t[1])
      /\ s[1].register \in Used \/ ~Accesses(s[1])
  <2>1. Orderly(s) BY DEF PinsInv, Functions
  <2> HIDE DEF s
  <2> QED BY <1>1, <2>1, FirstOf
<1>3. SUFFICES ASSUME NEW d \in Context, todo'[d] # << >>, todo'[d][1].does = "store"
               PROVE loaded'[d] = register'[todo'[d][1].register]
  BY DEF Fresh
<1>4. CASE d = c
  <2>1. s[1].does = "load" /\ t[1].register = s[1].register
    BY <1>1, <1>2, <1>3, <1>4 DEF StoresAfter
  <2>2. loaded' = [loaded EXCEPT ![c] = register[s[1].register]] /\ register' = register
    BY <2>1, StepDoes
  <2>3. loaded \in [Context -> SUBSET Bit] BY DEF PinsInv, Types
  <2> QED BY <1>1, <1>4, <2>1, <2>2, <2>3
(* The program is in the middle of a change: the handler is not at work, or *)
(* it works on another register.                                            *)
<1>5. CASE d # c
  <2>1. c = "handler" /\ d = "program" /\ todo'[d] = todo[d] /\ todo["handler"] # << >>
    <3>1. c = "program" => todo["handler"] = << >> BY StepDoes
    <3>2. todo'[d] = todo[d] BY <1>1, <1>5
    <3> QED BY <1>1, <1>3, <1>5, <3>1, <3>2 DEF Context
  <2> DEFINE j == todo[d][1]
  <2>2. todo[d] # << >> /\ j.does = "store" BY <1>3, <2>1
  <2>3. ~InGuard(todo[d], 1) BY <2>1 DEF PinsInv, Masks
  <2>4. j.register \notin Port /\ j.register \in Used
    <3>1. Orderly(todo[d]) BY DEF PinsInv, Functions
    <3> QED BY <2>2, <2>3, <3>1, FirstOf DEF Accesses
  <2>5. loaded[d] = register[j.register] BY <2>2 DEF PinsInv, Fresh
  <2>6. Accesses(s[1]) => s[1].register \in Port
    <3>1. 1 \in DOMAIN s
      <4>1. s \in Seq(Instruction) BY DEF PinsInv, Functions, Orderly
      <4> HIDE DEF s
      <4> QED BY <1>1, <4>1
    <3> QED BY <2>1, <3>1 DEF PinsInv, Functions
  <2>7. register'[j.register] = register[j.register]
    <3>1. \/ register' = register
          \/ /\ Accesses(s[1])
             /\ register' = [register EXCEPT ![s[1].register] = Bits(loaded[c], s[1])]
      BY StepDoes DEF Accesses
    <3>2. register \in [Used -> SUBSET Bit] BY DEF PinsInv, Types
    <3> HIDE DEF s, j
    <3> QED BY <2>4, <2>6, <3>1, <3>2
  <2>8. loaded'[d] = loaded[d]
    <3>1. loaded \in [Context -> SUBSET Bit] BY DEF PinsInv, Types
    <3>2. loaded' = loaded \/ \E x : loaded' = [loaded EXCEPT ![c] = x] BY StepDoes
    <3> QED BY <1>5, <3>1, <3>2
  <2> QED BY <2>1, <2>5, <2>7, <2>8
<1> QED BY <1>4, <1>5

(* A store changes the bits that are its own, and no other. *)
LEMMA StoreChanges ==
  ASSUME PinsInv, NEW c \in Context, todo[c] # << >>, todo[c][1].does = "store",
         register' = [register EXCEPT ![todo[c][1].register] = Bits(loaded[c], todo[c][1])],
         NEW p \in Pin, NEW of \in Registers(p)
  PROVE IsOn(p, of)' <=> IF Changes(todo[c][1], p, of) THEN BitOf(p, of) \in todo[c][1].set
                         ELSE IsOn(p, of)
<1> DEFINE i == todo[c][1]
           r == RegisterOf(p, of)
           bit == BitOf(p, of)
<1>1. register \in [Used -> SUBSET Bit] /\ r \in Used BY DEF PinsInv, Types, Used
<1>2. loaded[c] = register[i.register] BY DEF PinsInv, Fresh
<1>3. register'[r] = IF i.register = r THEN (register[r] \ i.clear) \cup i.set ELSE register[r]
  <2> HIDE DEF i, r
  <2>1. register' = [register EXCEPT ![i.register] = (register[i.register] \ i.clear) \cup i.set]
    BY <1>2 DEF Bits, i
  <2> QED BY <1>1, <2>1
<1>4. (IsOn(p, of)' <=> bit \in register'[r]) /\ (IsOn(p, of) <=> bit \in register[r]) BY DEF IsOn
<1>5. Changes(i, p, of) <=> i.register = r /\ bit \in i.clear \cup i.set BY DEF Changes
<1> HIDE DEF i, r, bit
<1>6. IsOn(p, of)' <=> IF Changes(i, p, of) THEN bit \in i.set ELSE IsOn(p, of)
  BY <1>3, <1>4, <1>5
<1> QED BY <1>6 DEF i, bit

LEMMA StepPromises ==
  ASSUME PinsInv, NEW c \in Context, Step(c), wanted' = wanted
  PROVE Promises'
<1> DEFINE s == todo[c]
           t == Tail(s)
<1>1. s # << >> /\ todo'[c] = t /\ \A d \in Context : d # c => todo'[d] = todo[d]
  BY StepMoves
<1>2. /\ s \in Seq(Instruction)
      /\ s[1].does = "load" => t # << >> /\ StoresAfter(s[1], t[1])
      /\ ~Accesses(s[1]) => s[1].clear \cup s[1].set = {}
      /\ t \in Seq(Instruction)
  <2>1. Orderly(s) BY DEF PinsInv, Functions
  <2> HIDE DEF s
  <2> QED BY <1>1, <2>1, FirstOf
<1>3. ASSUME NEW d \in Context, NEW p \in Own(d), NEW of \in Registers(p)
      PROVE WillBe(todo[d], p, of)'
  <2>1. p \in Pin BY PinsAssumption DEF Own
  <2>2. WillBe(todo[d], p, of) BY DEF PinsInv, Promises
  <2>3. \/ /\ s[1].does = "store"
           /\ IsOn(p, of)' <=> IF Changes(s[1], p, of) THEN BitOf(p, of) \in s[1].set
                               ELSE IsOn(p, of)
        \/ s[1].does # "store" /\ (IsOn(p, of)' <=> IsOn(p, of))
    <3>1. CASE s[1].does = "store"
      <4>1. register' = [register EXCEPT ![s[1].register] = Bits(loaded[c], s[1])]
        BY <3>1, StepDoes
      <4> QED BY <1>1, <2>1, <3>1, <4>1, StoreChanges
    <3>2. CASE s[1].does # "store"
      <4>1. register' = register BY <3>2, StepDoes
      <4> QED BY <3>2, <4>1 DEF IsOn
    <3> QED BY <3>1, <3>2
  <2>4. CASE d = c
    <3>1. /\ \A k \in DOMAIN t :
               LastChange(t, k, p, of)
                 => k + 1 \in DOMAIN s /\ t[k] = s[k + 1] /\ LastChange(s, k + 1, p, of)
          /\ (\A k \in DOMAIN t : ~Changes(t[k], p, of))
               => IF Changes(s[1], p, of) THEN LastChange(s, 1, p, of)
                  ELSE \A k \in DOMAIN s : ~Changes(s[k], p, of)
      <4> HIDE DEF s
      <4> QED BY <1>1, <1>2, RestChanges
    <3>2. /\ \A k \in DOMAIN s :
               LastChange(s, k, p, of) => (BitOf(p, of) \in s[k].set <=> wanted[p][of])
          /\ (\A k \in DOMAIN s : ~Changes(s[k], p, of)) => (IsOn(p, of) <=> wanted[p][of])
      BY <2>2, <2>4 DEF WillBe
    <3>3. 1 \in DOMAIN s /\ (t # << >> => 1 \in DOMAIN t)
      <4> HIDE DEF s
      <4> QED BY <1>1, <1>2
    <3> HIDE DEF s, t
    <3>4. \A k \in DOMAIN t :
            LastChange(t, k, p, of) => (BitOf(p, of) \in t[k].set <=> wanted[p][of])
      BY <3>1, <3>2
    <3>5. ASSUME \A k \in DOMAIN t : ~Changes(t[k], p, of)
          PROVE IsOn(p, of)' <=> wanted[p][of]
      <4>1. CASE Changes(s[1], p, of)
        <5>1. s[1].does = "store"
          <6>1. Accesses(s[1]) BY <1>2, <4>1 DEF Changes
          <6>2. s[1].does # "load"
            <7>1. SUFFICES ASSUME s[1].does = "load" PROVE FALSE OBVIOUS
            <7>2. Changes(t[1], p, of) BY <1>2, <4>1, <7>1 DEF Changes, StoresAfter
            <7> QED BY <1>2, <3>3, <3>5, <7>1, <7>2
          <6> QED BY <6>1, <6>2 DEF Accesses
        <5>2. BitOf(p, of) \in s[1].set <=> wanted[p][of] BY <3>1, <3>2, <3>3, <3>5, <4>1
        <5> QED BY <2>3, <4>1, <5>1, <5>2
      <4>2. CASE ~Changes(s[1], p, of)
        <5>1. IsOn(p, of) <=> wanted[p][of] BY <3>1, <3>2, <3>5, <4>2
        <5> QED BY <2>3, <4>2, <5>1
      <4> QED BY <4>1, <4>2
    <3> QED BY <1>1, <2>4, <3>4, <3>5 DEF WillBe
  <2>5. CASE d # c
    <3>1. p \in Pin \ Own(c) BY <2>1, <2>5 DEF Own, Context
    <3>2. Keeps(s, Pin \ Own(c)) BY DEF PinsInv, Functions
    <3>3. ~Changes(s[1], p, of)
      <4> HIDE DEF s
      <4> QED BY <1>1, <1>2, <3>1, <3>2, RestKeeps
    <3>4. IsOn(p, of)' <=> IsOn(p, of) BY <2>3, <3>3
    <3>5. todo'[d] = todo[d] BY <1>1, <2>5
    <3> QED BY <2>2, <3>4, <3>5 DEF WillBe
  <2> QED BY <2>4, <2>5
<1> QED BY <1>3 DEF Promises

LEMMA StepKeeps ==
  ASSUME PinsInv, NEW c \in Context, Step(c), UNCHANGED wanted
  PROVE PinsInv'
BY StepTypes, StepFunctions, StepMasks, StepFresh, StepPromises DEF PinsInv

LEMMA PinsStutter == ASSUME PinsInv, UNCHANGED vars PROVE PinsInv'
<1>1. /\ register' = register /\ enabled' = enabled /\ todo' = todo
      /\ loaded' = loaded /\ oldSREG' = oldSREG /\ wanted' = wanted
  BY DEF vars, avrVars
<1>2. Types' /\ Functions' /\ Masks' /\ Fresh'
  BY <1>1 DEF PinsInv, Types, Functions, Masks, Fresh
<1>3. Promises' BY <1>1 DEF PinsInv, Promises, WillBe, IsOn
<1> QED BY <1>2, <1>3 DEF PinsInv

LEMMA PinsRun == Spec => []PinsInv
<1>1. Init => PinsInv BY AtFirst
<1>2. PinsInv /\ [Next]_vars => PinsInv'
  <2>1. SUFFICES ASSUME PinsInv, [Next]_vars PROVE PinsInv' OBVIOUS
  <2>2. CASE ProgramCalls BY <2>1, <2>2, ProgramCallsKeeps
  <2>3. CASE Interrupt BY <2>1, <2>3, InterruptKeeps
  <2>4. CASE \E c \in Context : Step(c) /\ UNCHANGED wanted BY <2>1, <2>4, StepKeeps
  <2>5. CASE UNCHANGED vars BY <2>1, <2>5, PinsStutter
  <2> QED BY <2>1, <2>2, <2>3, <2>4, <2>5 DEF Next
<1> QED BY <1>1, <1>2, PTL DEF Spec

-----------------------------------------------------------------------------
(* Every pin is as the last functions called for it leave it, whatever      *)
(* handlers come between two instructions (wiring_digital.c 31-61, 140-165, *)
(* wiring_analog.c 106-295): a load of a port and its store are in one      *)
(* guard, and the registers of timers are left alone by handlers.           *)
THEOREM PinsKeepTheirLevel == Spec => []PinsAreAsWanted
<1>1. ASSUME PinsInv PROVE PinsAreAsWanted
  <2>1. SUFFICES ASSUME NEW p \in Pin, NEW of \in Registers(p), ~Busy(p, of)
                 PROVE IsOn(p, of) = wanted[p][of]
    BY DEF PinsAreAsWanted
  <2>2. PICK c \in Context : p \in Own(c) BY DEF Own, Context
  <2>3. \A k \in DOMAIN todo[c] : ~Changes(todo[c][k], p, of) BY <2>1 DEF Busy
  <2>4. IsOn(p, of) <=> wanted[p][of] BY <1>1, <2>2, <2>3 DEF PinsInv, Promises, WillBe
  <2>5. wanted[p][of] \in BOOLEAN /\ IsOn(p, of) \in BOOLEAN
    BY <1>1, <2>1 DEF PinsInv, Types, IsOn
  <2> QED BY <2>4, <2>5
<1> QED BY <1>1, PinsRun, PTL

(* SREG = oldSREG leaves the I bit as it was found, so a handler is not     *)
(* interrupted by the functions it calls, and the program's functions leave *)
(* interrupts on.                                                           *)
THEOREM InterruptsComeBack == Spec => []InterruptsAreKept
<1>1. ASSUME PinsInv PROVE InterruptsAreKept
  <2>1. Idle => todo["handler"] = << >> /\ todo["program"] = << >> BY DEF Idle, Context
  <2> QED BY <1>1, <2>1, NothingLeft DEF InterruptsAreKept, PinsInv, Masks
<1> QED BY <1>1, PinsRun, PTL
=============================================================================
