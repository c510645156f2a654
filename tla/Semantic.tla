------------------------------ MODULE Semantic ------------------------------
(***************************************************************************)
(* The two passes of semantic.c over the tree.  frames is the call stack   *)
(* of visitor_leaf_first.  A frame has r, the pointer its caller's slot    *)
(* held when the call began, and its loop variable i, from 1.  The visits  *)
(* of the expression children, which come first in every node and which    *)
(* no pass changes, happen in the step that enters the node.               *)
(***************************************************************************)
EXTENDS SyntaxTree

VARIABLES
  frames,        \* the active calls of visitor_leaf_first, innermost last
  error_count

semanticVars == <<frames, error_count>>

Frame == [r : Nat, i : Nat \ {0}]

Top == Last(frames)
Caller == frames[Len(frames) - 1]

(* What the parameter root of the frame at depth d points to, now. *)
Slot(d) == IF d = 1 THEN root ELSE tree[frames[d - 1].r].kids[frames[d - 1].i]

(* node with the k-th child pointer replaced *)
SetKid(node, k, no) == [node EXCEPT !.kids = [@ EXCEPT ![k] = no]]

IsDeclared(name) ==
  LET s == search_symbol(synames, name) IN s # 0 /\ synames[s].exists

(* declared_vars looks up the 'V' leaves of a node's expressions, but not   *)
(* one that is itself a child of NO_ATTR, and the name of a NO_PRNT.  An    *)
(* error is counted for each that is not declared yet.                      *)
(* Mutant: only the last expression of a statement is looked at. *)
CheckedLast(node) ==
  IF (node.type = "ATTR" /\ IsVar(node.exprs[1])) \/ node.exprs = <<>>
  THEN {} ELSE {Len(node.exprs)}

Checked(node) ==
  IF node.type = "ATTR" /\ IsVar(node.exprs[1]) THEN {} ELSE DOMAIN node.exprs
UndeclaredReads(e) == {k \in DOMAIN Reads[e] : ~IsDeclared(Reads[e][k])}
(* Mutant: a name is reported once in a statement. *)
ErrorsOfNames(node) ==
  IF node.type = "PRNT" THEN IF IsDeclared(node.name) THEN 0 ELSE 1
  ELSE Cardinality({v \in Name : \E j \in Checked(node) :
         \E k \in UndeclaredReads(node.exprs[j]) : Reads[node.exprs[j]][k] = v})

Errors(node) ==
  IF node.type = "PRNT" THEN IF IsDeclared(node.name) THEN 0 ELSE 1
  ELSE Cardinality(UNION {{j} \X UndeclaredReads(node.exprs[j]) : j \in Checked(node)})

-----------------------------------------------------------------------------
(* visitor_leaf_first(slot, act), called for the child no *)
Enter(no) ==
  /\ no # 0
  /\ frames' = Append(frames, [r |-> no, i |-> 1])
  /\ error_count' = error_count + IF phase = "declare" THEN Errors(tree[no]) ELSE 0
  /\ UNCHANGED <<phase, tree, freed, root, synames>>

(* The call follows a wild pointer: the process is killed, or worse. *)
Wild(no) ==
  /\ no = 0
  /\ phase' = "fault"
  /\ UNCHANGED <<tree, freed, root, synames, frames, error_count>>

Visiting == phase \in {"collapse", "declare"} /\ frames # <<>>
MoreKids == Top.i <= Len(tree[Top.r].kids)
Kid == tree[Top.r].kids[Top.i]

(* rule program: the passes start at $1, one after the other *)
VisitRoot == /\ phase \in {"collapse", "declare"} /\ frames = <<>>
             /\ (Enter(root) \/ Wild(root))

VisitKid == Visiting /\ MoreKids /\ (Enter(Kid) \/ Wild(Kid))

(* The loop has ended: back in the caller, which acts on the child and goes *)
(* on.  The frame of the first call returns to the rule program.            *)
Returns == Visiting /\ ~MoreKids /\ Len(frames) > 1
ActOn == tree[Caller.r].kids[Caller.i]       \* the argument no of act
ActRoot == Slot(Len(frames) - 1)             \* the argument *root of act
(* Mutant: the loop variable of the caller is not incremented. *)
ResumeSame == frames' = SubSeq(frames, 1, Len(frames) - 1)

Resume == frames' = [SubSeq(frames, 1, Len(frames) - 1)
                       EXCEPT ![Len(frames) - 1].i = @ + 1]

(* act = collapse_stmts on a list that is the child of a list.  realloc may *)
(* extend the parent where it is, or move it and free the old place; then   *)
(* r in the caller keeps pointing to the old place.                         *)
(* Mutants: only the list of the program is flattened; the last child of    *)
(* the child is not copied; its children are put in front.                  *)
GraftsAtRoot == /\ {ActRoot, ActOn} \subseteq DOMAIN tree /\ ActRoot = root
                /\ tree[ActRoot].type = "STMTS" /\ tree[ActOn].type = "STMTS"
GraftedShort == [tree[ActRoot] EXCEPT !.kids = Front(@) \o Front(tree[ActOn].kids)]
GraftedInFront == [tree[ActRoot] EXCEPT !.kids = tree[ActOn].kids \o Front(@)]

Grafts == /\ {ActRoot, ActOn} \subseteq DOMAIN tree
          /\ tree[ActRoot].type = "STMTS" /\ tree[ActOn].type = "STMTS"
Grafted == [tree[ActRoot] EXCEPT !.kids = Front(@) \o tree[ActOn].kids]

GraftInPlace ==
  /\ Returns /\ phase = "collapse" /\ Grafts
  /\ tree' = [tree EXCEPT ![ActRoot] = Grafted]
  /\ freed' = freed \cup {ActOn}
  /\ Resume
  /\ UNCHANGED <<phase, root, synames, error_count>>

GraftMoved ==
  LET moved == Len(tree) + 1
      d == Len(frames) - 1
  IN  /\ Returns /\ phase = "collapse" /\ Grafts
      /\ tree' = Append(IF d = 1 THEN tree
                        ELSE [tree EXCEPT ![frames[d - 1].r] =
                                SetKid(@, frames[d - 1].i, moved)],
                        Grafted)
      /\ root' = IF d = 1 THEN moved ELSE root
      /\ freed' = freed \cup {ActOn, ActRoot}
      /\ Resume
      /\ UNCHANGED <<phase, synames, error_count>>

NoGraft ==
  /\ Returns /\ phase = "collapse" /\ ~Grafts
  /\ Resume
  /\ UNCHANGED <<phase, tree, freed, root, synames, error_count>>

(* act = declared_vars: an assignment declares its variable *)
Declare ==
  LET s == search_symbol(synames, tree[ActOn].name)
  IN  /\ Returns /\ phase = "declare"
      /\ synames' = IF tree[ActOn].type = "ATTR" /\ s # 0
                    THEN [synames EXCEPT ![s].exists = TRUE] ELSE synames
      /\ Resume
      /\ UNCHANGED <<phase, tree, freed, root, error_count>>

(* The first call returns, and the rule program goes on. *)
PassDone ==
  /\ Visiting /\ ~MoreKids /\ Len(frames) = 1
  /\ frames' = <<>>
  /\ phase' = CASE phase = "collapse" -> "declare"
                [] phase = "declare" -> IF error_count > 0 THEN "exit" ELSE "setup"
  /\ UNCHANGED <<tree, freed, root, synames, error_count>>

SemanticInit == frames = <<>> /\ error_count = 0

Analyse == \/ VisitRoot \/ VisitKid \/ NoGraft \/ GraftInPlace \/ GraftMoved
           \/ Declare \/ PassDone

SemanticTypeOK == frames \in Seq(Frame) /\ error_count \in Nat
=============================================================================
