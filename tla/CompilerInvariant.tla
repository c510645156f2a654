-------------------------- MODULE CompilerInvariant --------------------------
(***************************************************************************)
(* The inductive invariant behind NothingAfterTerminator and               *)
(* EveryBlockEnds.  The code generator never notes which blocks it still   *)
(* has to write to: they are in the local variables of the active calls    *)
(* (condwhile, endif, elseif, oldblock), and the invariant says that these *)
(* and the block the next instruction goes to are exactly the blocks       *)
(* without a terminator, no two calls holding the same one.                *)
(***************************************************************************)
EXTENDS Compiler

IsClosed(code) == \E k \in DOMAIN code : code[k].op \in Terminator
WellEnded(code) == \A k \in DOMAIN code : code[k].op \in Terminator => k = Len(code)
OpenBlocks(bs) == {b \in DOMAIN bs : ~IsClosed(bs[b].code)}

(* The blocks that a call will write to after its current child returns.   *)
Held(f) == CASE f.k = "list" -> {}
             [] f.k = "then" -> {f.b1, f.b2} \ {0}
             [] OTHER -> {f.b1}
HeldBy(w) == UNION {Held(w[k]) : k \in DOMAIN w}
Apart(w) == \A j, k \in DOMAIN w : j # k => Held(w[j]) \cap Held(w[k]) = {}

(* The block of the next instruction. *)
Target == IF pending.do = "ret" /\ pending.block # 0 THEN pending.block ELSE insert

-----------------------------------------------------------------------------
(* The shape of the tree, at all times: the lists that grammar rules put in *)
(* a node stay lists when realloc moves them.                               *)
BodyType == ListType \cup {"IF"}
NamedType == {"ATTR", "PRNT", "CALL", "FUNC"}
NodeShape(t, node) ==
  /\ node.type \in NamedType => node.name \in Name
  /\ node.type \in BodyType \cup {"WHILE", "FUNC"} => node.kids # <<>>
  /\ \A k \in DOMAIN node.kids : node.kids[k] \in DOMAIN t \cup {0}
  /\ node.type \in {"WHILE", "FUNC", "IF"} => \A k \in DOMAIN node.kids :
       node.kids[k] \in DOMAIN t /\ t[node.kids[k]].type \in BodyType

TreeShape == \A n \in DOMAIN tree : NodeShape(tree, tree[n])

ItemShape(item) ==
  /\ item.sym = "stmt" => item.no \in DOMAIN tree \cup {0}
  /\ item.sym \in {"stmts", "if"} =>
       item.no \in DOMAIN tree /\ tree[item.no].type \in BodyType
  /\ item.sym = "stmts" => tree[item.no].type \in ListType
  /\ item.sym = "inFunction" => item.name \in Name
StackShape == \A j \in DOMAIN stack : ItemShape(stack[j])

RootShape == phase \notin {"parse", "rejected"} =>
               root \in DOMAIN tree /\ tree[root].type \in ListType

(* The loop of every call that waits for one is at a child of its node,     *)
(* though realloc may have replaced that node meanwhile.                    *)
FramesShape == \A k \in DOMAIN frames :
  /\ frames[k].r \in DOMAIN tree
  /\ k < Len(frames) => frames[k].i \in DOMAIN tree[frames[k].r].kids

-----------------------------------------------------------------------------
(* The calls of generate_llvm_nodes. *)
FrameShape(w, k) ==
  LET f == w[k]
  IN  /\ f.no \in DOMAIN tree
      /\ f.k = "list" => /\ tree[f.no].type \in ListType
                         /\ f.b1 # 0 => f.b1 = f.at
                         /\ f.b1 = 0 /\ k > 1 => f.at = w[k - 1].at
      /\ f.k = "while" => k > 1 /\ w[k - 1].k = "list" /\ f.at = f.b2
      /\ f.k = "func" => k > 1 /\ f.b1 = w[k - 1].at
      /\ f.k \in {"then", "else"} => f.b1 # 0 /\ f.b1 # f.b2
      /\ f.k = "then" /\ f.b2 # 0 => /\ tree[f.no].type = "IF"
                                     /\ Len(tree[f.no].kids) > 1
WorkShape(w) == \A k \in DOMAIN w : FrameShape(w, k)

TopIsList == work # <<>> /\ CurrentFrame.k = "list"

PendingShape ==
  /\ pending.do = "gen" =>
       /\ pending.no \in DOMAIN tree \cup {0}
       /\ work # <<>> => insert = CurrentFrame.at
       /\ ~TopIsList => pending.no # 0 /\ tree[pending.no].type \in BodyType
  /\ pending.do = "ret" =>
       /\ pending.block # 0 /\ ~TopIsList => insert = pending.block
       /\ pending.block = 0 /\ work # <<>> => insert = CurrentFrame.at

BlocksShape ==
  /\ OpenBlocks(blocks) = HeldBy(work) \cup {Target}
  /\ Target \notin HeldBy(work)
  /\ Apart(work)

GenShape == /\ WorkShape(work)
            /\ PendingShape
            /\ BlocksShape

-----------------------------------------------------------------------------
IInv ==
  /\ TypeOK
  /\ TreeShape /\ StackShape /\ RootShape /\ FramesShape
  /\ phase \notin {"gen", "done", "fault"} => work = <<>>
  /\ phase = "gen" => GenShape
  /\ NothingAfterTerminator
  /\ EveryBlockEnds
=============================================================================
