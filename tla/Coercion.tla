------------------------------ MODULE Coercion ------------------------------
(***************************************************************************)
(* The numbers of a program on their way to the board: default_coersion of *)
(* backllvm.cpp and the types that generate_llvm_nodes and backarduino.cpp *)
(* have it convert to.                                                     *)
(***************************************************************************)
EXTENDS Integers

CONSTANTS
  ByteSize, WordSize, LongSize,  \* 2^8, 2^16 and 2^32 on the board
  Ints,                          \* the constants without a point in the text
  Halves,                        \* the others, negative ones by "-", in halves
  ADC                            \* what the converter returns

ASSUME CoercionAssumption ==
  /\ \A s \in {ByteSize, WordSize, LongSize} : s \in Nat \ {0} /\ s % 2 = 0
  /\ WordSize % ByteSize = 0 /\ LongSize % WordSize = 0
  /\ Ints \subseteq Nat /\ Halves \subseteq Int /\ ADC \subseteq 0..(WordSize \div 2 - 1)

-----------------------------------------------------------------------------
(* A value of LLVM: the bits of an integer type, or a float in halves.      *)
Size == [byte |-> ByteSize, word |-> WordSize, long |-> LongSize]
Bits(type, n) == [type |-> type, is |-> n % Size[type]]
Float(halves) == [type |-> "float", is |-> halves]
AsSigned(v) == IF 2 * v.is < Size[v.type] THEN v.is ELSE v.is - Size[v.type]

(* fptoui and fptosi cut the fraction off; what does not fit may become     *)
(* anything.                                                                *)
Whole(v) == IF v.is >= 0 THEN v.is \div 2 ELSE -((-v.is) \div 2)
FPToUI(v, type) ==
  IF Whole(v) \in 0..(Size[type] - 1) THEN {Bits(type, Whole(v))}
                                      ELSE { Bits(type, n) : n \in 0..(Size[type] - 1) }
FPToSI(v, type) ==
  LET half == Size[type] \div 2
  IN  IF Whole(v) \in (-half)..(half - 1) THEN {Bits(type, Whole(v))}
                                          ELSE { Bits(type, n) : n \in 0..(Size[type] - 1) }
SIToFP(v) == Float(2 * AsSigned(v))
UIToFP(v) == Float(2 * v.is)

(* Mutant: what unsig says is what is done. *)
IntToFP(v, unsig) == IF unsig THEN UIToFP(v) ELSE SIToFP(v)

(* The code converts as signed what is said to be unsigned, and vice versa. *)
IntToFloat(v, unsig) == IF unsig THEN SIToFP(v) ELSE UIToFP(v)

FloatToInt(v, type, unsig) == IF unsig THEN FPToUI(v, type) ELSE FPToSI(v, type)

default_coersion(v, type, unsig) ==
  CASE v.type = type -> {v}
    [] v.type = "float" /\ type # "float" -> FloatToInt(v, type, unsig)
    [] v.type # "float" /\ type = "float" -> {IntToFloat(v, unsig)}
    [] OTHER -> {Bits(type, AsSigned(v))}        \* CreateSExtOrTrunc

-----------------------------------------------------------------------------
(* Operands: an INT, a DBL, IN, and a variable that was assigned one.  n is *)
(* the number it stands for in the text, in halves.                         *)
Operand == { [form |-> "INT", n |-> 2 * i] : i \in Ints }
           \cup { [form |-> "DBL", n |-> h] : h \in Halves }
           \cup { [form |-> "IN", n |-> 2 * i] : i \in ADC }
Constant(e) == IF e.form = "DBL" THEN Float(e.n) ELSE Bits("word", e.n \div 2)

(* NO_ATTR stores a float, with unsig as it is by default.                  *)
Assigned(e) == default_coersion(Constant(e), "float", FALSE)
Result(e, variable) == IF variable THEN Assigned(e) ELSE {Constant(e)}

(* What reaches analogRead, digitalWrite and delay.                         *)
Port(v) == default_coersion(v, "byte", FALSE)
OutPort(v) == default_coersion(v, "byte", TRUE)
Output(v) == default_coersion(v, "byte", TRUE)
Milliseconds(v) == default_coersion(v, "long", TRUE)
=============================================================================
