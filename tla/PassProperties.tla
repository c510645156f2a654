--------------------------- MODULE PassProperties ---------------------------
(***************************************************************************)
(* What the passes of the compiler promise each other.                     *)
(***************************************************************************)
EXTENDS Compiler, SourceOrder

SourceText == Listing(source.tree, source.root)

(* collapse_stmts keeps every statement, in its place and its order, at     *)
(* every moment of the pass, wherever realloc puts the nodes: what is        *)
(* reachable is a tree of memory that was not freed, with the text that     *)
(* was parsed (semantic.c 15-37).                                           *)
TextIsKept ==
  phase \in {"collapse", "declare", "setup"} =>
    /\ Reachable \cap freed = {}
    /\ Listing(tree, root) = SourceText

(* The loop of a call may be at a list that realloc has moved away.  Then    *)
(* all that it still reads of the freed memory is the count of the children *)
(* that ends it: no child is fetched, and none visited, through a pointer   *)
(* that is stale (semantic.c 7-12, 24).                                     *)
StalePointersEndTheLoop ==
  \A k \in DOMAIN frames : frames[k].r \in freed => k = Len(frames) /\ ~MoreKids

(* When the pass is over no list is left as the child of a list: "visitante *)
(* que elimina os stmts da arvore", header.h:72.                            *)
ListsAreFlat ==
  phase \in {"declare", "setup", "gen", "done", "exit"} =>
    \A n \in Reachable : tree[n].type = "STMTS" =>
      \A k \in DOMAIN tree[n].kids : tree[tree[n].kids[k]].type # "STMTS"

(* The names that a statement of the text reads, one expression after the   *)
(* other.  A copy of one variable to another is not looked at, and says so  *)
(* below.                                                                   *)
ReadsOf(node) ==
  CASE node.type = "PRNT" -> << <<node.name>> >>
    [] node.type = "ATTR" /\ IsVar(node.exprs[1]) -> <<>>
    [] OTHER -> [j \in DOMAIN node.exprs |-> Reads[node.exprs[j]]]
AssignedBefore(t, text, j) ==
  {t[text[i]].name : i \in {h \in 1..j - 1 : text[h] # 0 /\ t[text[h]].type = "ATTR"}}

(* The reads of statement i that no earlier assignment covers, each by the  *)
(* number of its expression and its place there.                            *)
UncoveredReads(t, text, i) ==
  LET reads == ReadsOf(t[text[i]])
      assigned == AssignedBefore(t, text, i)
  IN  UNION {{j} \X {k \in DOMAIN reads[j] : reads[j][k] \notin assigned} : j \in DOMAIN reads}
UncoveredUses(t, text) ==
  UNION {{i} \X UncoveredReads(t, text, i) : i \in {h \in DOMAIN text : text[h] # 0}}

(* declared_vars counts an error for exactly the uses that no assignment    *)
(* precedes in the text, each once, although it walks the tree the other    *)
(* pass rebuilt; and only a program without one is compiled (scalc.y 48-51).*)
ErrorsAreTheUncoveredUses ==
  /\ phase \in {"setup", "gen", "done", "exit"} =>
       error_count = Cardinality(UncoveredUses(source.tree, SourceText))
  /\ phase \in {"setup", "gen", "done"} => error_count = 0

-----------------------------------------------------------------------------
(* Where every statement is a node, the compiler only dies at one that has  *)
(* a hole of its own: AND or OR, a call that no definition of its function  *)
(* precedes in the text, or the direct copy of a variable that no           *)
(* assignment precedes, which declared_vars does not look at.  Whatever     *)
(* else declared_vars lets pass, generate_llvm_nodes finds a value for      *)
(* (backllvm.cpp 200-203, 319-326).                                         *)
CopyOf(node) == IF node.type = "ATTR" /\ IsVar(node.exprs[1]) THEN ReadSet(node) ELSE {}
DefinedBefore(t, text, j) ==
  {t[text[i]].name : i \in {h \in 1..j - 1 : text[h] # 0 /\ t[text[h]].type = "FUNC"}}
Hole(t, text, j) ==
  LET node == t[text[j]]
  IN  \/ \E k \in DOMAIN node.exprs : ~Implemented[node.exprs[k]]
      \/ node.type = "CALL" /\ node.name \notin DefinedBefore(t, text, j)
      \/ \E v \in CopyOf(node) : v # node.name /\ v \notin AssignedBefore(t, text, j)
EveryStatementIsANode ==
  \A n \in DOMAIN source.tree : 0 \notin ToSet(source.tree[n].kids)
OnlyHolesFault ==
  phase = "fault" /\ EveryStatementIsANode =>
    \E j \in DOMAIN SourceText :
      SourceText[j] = No /\ No # 0 /\ Hole(source.tree, SourceText, j)

(* A name is one variable: all the instructions that assign or print it use *)
(* the same LLVM value, however WHILE, IF and FUNCTION nest the statements. *)
(* That leaves out the names that are also a function's: both share the one *)
(* llvm field of their symbol.                                              *)
AccessesOf(v) == {i \in UNION {ToSet(blocks[b].code) : b \in DOMAIN blocks} :
                    i.op \in {"store", "print"} /\ tree[i.no].name = v}
FunctionNames == {tree[n].name : n \in {m \in DOMAIN tree : tree[m].type = "FUNC"}}
OneVariablePerName ==
  \A v \in Name \ FunctionNames : \A i, j \in AccessesOf(v) : i.uses = j.uses

(* Every compilation comes to an end, for every program and wherever        *)
(* realloc puts the lists that the visitor is walking.                      *)
Terminates == <>(phase \in Over)

-----------------------------------------------------------------------------
(* Claims of the repository that the code does not keep.                    *)

(* "it should exists in the link stage", backllvm.cpp:213: however often it *)
(* is used, an extern function is called under the name the link stage      *)
(* knows, if the program gives that name to nothing of its own.             *)
OwnNames == {source.tree[n].name :
               n \in {m \in DOMAIN source.tree : source.tree[m].type \in {"ATTR", "FUNC"}}}
ExternsKeepTheirName == unresolved \subseteq OwnNames

(* "./scalc teste02.txt", the test of src/Makefile:16, compiles a program   *)
(* whose third line is no statement, which the rule "stmt : error ';'" is   *)
(* there to survive: a syntax error does not kill the compiler.             *)
SyntaxErrorsAreSurvived == phase = "fault" => EveryStatementIsANode
=============================================================================
