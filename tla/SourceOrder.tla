----------------------------- MODULE SourceOrder -----------------------------
(***************************************************************************)
(* Reference definitions over a syntax tree: the statements in the order   *)
(* the program text has them, and what a use of a variable needs.  t is a  *)
(* sequence of nodes as in SyntaxTree, n an address.                       *)
(***************************************************************************)
EXTENDS Integers, Sequences, SequencesExt, FiniteSetsExt

IsList(t, n) == t[n].type \in {"STMTS", "STMT"}

(* What a pointer leads to that cannot be followed, or not to an end.       *)
NoText == <<-1>>

(* The text of node n if text has that of its children, with the end of     *)
(* every nested construct marked so that two trees have one listing only if *)
(* they nest alike.                                                         *)
TextOf(t, n, text) ==
  LET under == FlattenSeq([k \in DOMAIN t[n].kids |->
                  text[t[n].kids[k]] \o (IF IsList(t, n) THEN <<>> ELSE <<0>>)])
  IN  IF IsList(t, n) THEN under ELSE <<n>> \o under

(* The text under node n: no node of a tree is deeper than there are nodes. *)
Listing(t, n) ==
  LET text[d \in 0..Len(t)] ==
        [m \in Nat |-> IF d = 0 \/ m \notin DOMAIN t THEN NoText
                       ELSE TextOf(t, m, text[d - 1])]
  IN  text[Len(t)][n]

Position(text, n) == CHOOSE j \in DOMAIN text : text[j] = n

(* The function that a call at statement n means: the last one of its name  *)
(* whose definition begins before the call.                                 *)
Definitions(t, text, name, n) ==
  {j \in 1..Position(text, n) : /\ text[j] # 0 /\ t[text[j]].type = "FUNC"
                                /\ t[text[j]].name = name}
=============================================================================
