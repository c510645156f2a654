----------------------------- MODULE SyntaxTree -----------------------------
(***************************************************************************)
(* What the passes of scalc share: the syntax tree on the heap and the     *)
(* symbol table.                                                           *)
(*                                                                         *)
(* The address of a node is its index in tree, and 0 is a pointer to no    *)
(* node at all (what `error ';'' leaves in $$).  kids holds the children   *)
(* that are statements.  The children that are expressions come before     *)
(* them in every node and are kept by value: exprs.  For NO_ATTR name is   *)
(* the variable of its first child.                                        *)
(***************************************************************************)
EXTENDS Expressions, FiniteSets

VARIABLES
  phase,     \* what the process is doing
  tree,      \* every node create_no or realloc has made
  freed,     \* the addresses given back to the allocator
  root,      \* $1 of the rule program
  synames    \* the first sycount symbols

treeVars == <<tree, freed, root>>

ListType == {"STMTS", "STMT"}
LeafType == {"ATTR", "PRNT", "OUT", "DELAY", "CALL"}
NodeType == ListType \cup LeafType \cup {"WHILE", "IF", "FUNC"}

NodeRec == [type  : NodeType,
            name  : Name \cup {NoName},
            exprs : Seq(Expr),
            kids  : Seq(Nat)]

(* create_no, and the assignments to the new node that follow each call.   *)
create_no(type, name, exprs, kids) ==
  [type |-> type, name |-> name, exprs |-> exprs, kids |-> kids]

(* The value of a symbol: no LLVM value yet, a global variable, a slot on  *)
(* the stack of the function of block `at', or a function.                 *)
ValueKind == {"null", "global", "local", "func"}
Value == [kind : ValueKind, at : Nat]
NullValue == [kind |-> "null", at |-> 0]

Symbol == [name : Name, exists : BOOLEAN, llvm : Value]

(* The index of a name among the symbols, or 0 (the code's -1).  No name is *)
(* there twice: only add_symbol adds one.                                   *)
Found(syms, name) == \E i \in DOMAIN syms : syms[i].name = name
search_symbol(syms, name) ==
  IF Found(syms, name) THEN CHOOSE i \in DOMAIN syms : syms[i].name = name ELSE 0

(* Mutant: the value of a new entry is not set. *)
add_symbol_unset(syms, name) ==
  IF Found(syms, name) THEN syms ELSE Append(syms, [name |-> name, exists |-> FALSE])

add_symbol(syms, name) ==
  IF Found(syms, name) THEN syms
  ELSE Append(syms, [name |-> name, exists |-> FALSE, llvm |-> NullValue])

(* The names that the expressions of a node read, and that they call.      *)
ReadSet(node) == UNION {ToSet(Reads[node.exprs[k]]) : k \in DOMAIN node.exprs}
CallSet(node) == UNION {ToSet(Calls[node.exprs[k]]) : k \in DOMAIN node.exprs}

(* The nodes that pointers lead to from the root, one generation of         *)
(* children after the other.                                                *)
WithChildren(nodes) == nodes \cup UNION {ToSet(tree[n].kids) : n \in nodes \ {0}}
Reachable ==
  LET gen[k \in 0..Len(tree)] ==
        IF k = 0 THEN {root} ELSE WithChildren(gen[k - 1])
  IN  gen[Len(tree)]
=============================================================================
