---------------------------- MODULE Expressions ----------------------------
(***************************************************************************)
(* The expressions of the scalc language: the subtrees that the rules      *)
(* logical .. unary of scalc.y build and gen_llvm_subtree of backllvm.cpp  *)
(* turns into IR.  No pass ever rewrites one, so an expression is a value, *)
(* not a set of nodes in memory.  The constants, the arithmetic operators  *)
(* and the comparisons differ in nothing any pass looks at, so each group  *)
(* has one member.                                                         *)
(***************************************************************************)
EXTENDS Naturals, Sequences, SequencesExt

CONSTANTS
  Name,   \* the identifiers a program may use
  Expr    \* the expressions it may use: a finite set, closed under operands

NoName == ""

Leaf == {"I", "D", "V", "C"}             \* INT, DBL, VAR and VAR '(' ')'
Operator == {"N", "UNA", "ARIT", "CMP", "AND", "OR"}

Tok(op, name) == [op |-> op, name |-> name, kids |-> <<>>]
IntConst == Tok("I", NoName)
DblConst == Tok("D", NoName)
Var(name) == Tok("V", name)
FCall(name) == Tok("C", name)
Op(op, kids) == [op |-> op, name |-> NoName, kids |-> kids]

-----------------------------------------------------------------------------
IsVar(e) == e.op = "V"

OfKids(f, e) == FlattenSeq([k \in DOMAIN e.kids |-> f[e.kids[k]]])

(* The variables whose 'V' leaf lies in e, in the order a visitor sees them. *)
Reads[e \in Expr] == IF IsVar(e) THEN <<e.name>> ELSE OfKids(Reads, e)

(* The functions that the 'C' leaves of e call. *)
Calls[e \in Expr] == IF e.op = "C" THEN <<e.name>> ELSE OfKids(Calls, e)

(* AND and OR are grammar, but fall into the default case of the back end.  *)
Implemented[e \in Expr] ==
  e.op \notin {"AND", "OR"} /\ \A k \in DOMAIN e.kids : Implemented[e.kids[k]]

-----------------------------------------------------------------------------
(* What every pass relies on: the names an expression mentions are names.   *)
ASSUME ExprAssumption ==
  /\ NoName \notin Name
  /\ \A e \in Expr : Reads[e] \in Seq(Name) /\ Calls[e] \in Seq(Name)
=============================================================================
