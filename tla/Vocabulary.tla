----------------------------- MODULE Vocabulary -----------------------------
(* The expressions that the bounded programs of the runs are made of.       *)
EXTENDS Expressions

Sum(x, y) == Op("ARIT", <<x, y>>)
Less(x, y) == Op("CMP", <<x, y>>)
Neg(x) == Op("UNA", <<x>>)
Both(x, y) == Op("AND", <<x, y>>)

(* The expressions in use and all their operands. *)
Closed(es) == es \cup UNION {ToSet(e.kids) : e \in es}

(* One variable and one condition: the shapes of control, not the data.     *)
ShapeRvalue == {DblConst}
ShapeCond == {Less(DblConst, DblConst)}
ShapeExpr == Closed(ShapeRvalue \cup ShapeCond)

(* Reads of two variables, as a copy, as an operand, and twice in one, and  *)
(* an operator that is not implemented.                                     *)
ReadRvalue == {DblConst, Var("A"), Neg(Var("A")), Sum(Var("A"), Var("B"))}
ReadCond == {Less(Var("A"), DblConst), Both(Less(Var("A"), DblConst), Less(Var("A"), DblConst))}
ReadPort == {IntConst, Var("B")}
ReadExpr == Closed(ReadRvalue \cup ReadCond \cup ReadPort)

(* A sensor read by a function of the link stage: A = READ();               *)
ExternRvalue == {FCall("READ")}
ExternExpr == Closed(ExternRvalue)
=============================================================================
