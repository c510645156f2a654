------------------------------- MODULE Codegen -------------------------------
(***************************************************************************)
(* backllvm.cpp: the recursive walk generate_llvm_nodes over the tree and  *)
(* the LLVM IR it builds.  work is its call stack.  pending says whether   *)
(* the next thing to happen is the body of a call ("gen", of the node no)  *)
(* or what follows a call in its caller ("ret", with the basic block that  *)
(* the call returned, or 0 for NULL).                                      *)
(***************************************************************************)
EXTENDS SyntaxTree

VARIABLES
  blocks,        \* the basic blocks of the module: the function each is in, its code
  insert,        \* the block the IRBuilder appends to
  current_func,  \* a function is named by its entry block
  modnames,      \* the names of the program that the module has given away
  unresolved,    \* the extern functions that LLVM renamed: their name was taken
  work,
  pending

codegenVars == <<blocks, insert, current_func, modnames, unresolved, work, pending>>

main_func == 1     \* the first entry block

Terminator == {"br", "condbr", "ret"}
InstrOp == Terminator \cup {"eval", "alloca", "store", "print", "out", "delay", "call"}

(* An instruction: the statement no it was generated for, the LLVM values  *)
(* it works on, and the blocks it may continue in.  "eval" stands for the  *)
(* loads, calls and operations of one expression.                          *)
Instr == [op : InstrOp, no : Nat, uses : SUBSET Value, to : Seq(Nat)]
I(op, no, uses, to) == [op |-> op, no |-> no, uses |-> uses, to |-> to]

Block == [func : Nat, code : Seq(Instr)]

(* One call of generate_llvm_nodes.  Of the frame's fields, a list uses i   *)
(* and b1 (iblock); "while" b1, b2 (condwhile, bodywhile); "then" b1, b2     *)
(* (endif, elseif, 0 without else); "else" b1 (endif); "func" b1 (oldblock). *)
(* at is the insertion point its current child was called with: the code    *)
(* keeps no such variable, only the invariants read it.                     *)
FrameKind == {"list", "while", "then", "else", "func"}
WorkFrame == [k : FrameKind, no : Nat, i : Nat, b1 : Nat, b2 : Nat, at : Nat]

(* Mutant: the case of the statement does not return its last block. *)
RetNoBlock(b) == [do |-> "ret", no |-> 0, block |-> 0]

Gen(no) == [do |-> "gen", no |-> no, block |-> 0]
Ret(b) == [do |-> "ret", no |-> 0, block |-> b]
Pending == [do : {"gen", "ret"}, no : Nat, block : Nat]

CurrentFrame == Last(work)
Push(k, no, b1, b2, at) ==
  work' = Append(work, [k |-> k, no |-> no, i |-> 1, b1 |-> b1, b2 |-> b2, at |-> at])
PopFrame == work' = SubSeq(work, 1, Len(work) - 1)

(* Mutant: every block is created in main. *)
NewBlockInMain(bs, f) == Append(bs, [func |-> main_func, code |-> <<>>])

NewBlock(bs, f) == Append(bs, [func |-> f, code |-> <<>>])
Emit(bs, b, instrs) == [bs EXCEPT ![b].code = @ \o instrs]

-----------------------------------------------------------------------------
(* gen_llvm_subtree, on all the expressions of a node; env is the LLVM      *)
(* value each name has by then.                                             *)
Env == [v \in Name |-> LET s == search_symbol(synames, v)
                       IN  IF s = 0 THEN NullValue ELSE synames[s].llvm]

(* The functions among the 'C' leaves that have another leaf.              *)
Twice(node) == {f \in CallSet(node) :
  \E j, m \in DOMAIN node.exprs : \E k \in DOMAIN Calls[node.exprs[j]] :
    \E l \in DOMAIN Calls[node.exprs[m]] :
      /\ <<j, k>> # <<m, l>>
      /\ Calls[node.exprs[j]][k] = f /\ Calls[node.exprs[m]][l] = f}

(* The process dies of it: a load of a symbol that does not exist or has no *)
(* value yet, or an operator without an implementation.                     *)
Dies(node, env) ==
  \/ \E v \in ReadSet(node) : env[v].kind = "null"
  \/ \E k \in DOMAIN node.exprs : ~Implemented[node.exprs[k]]

EvalCode(no, node, env) ==
  IF node.exprs = <<>> THEN <<>>
  ELSE <<I("eval", no, {env[v] : v \in ReadSet(node)}, <<>>)>>

(* Each 'C' leaf declares its function again, under another name where the  *)
(* module has one of that name.  LLVM renames a variable or a FUNC that     *)
(* comes second as well, but those are used by their pointers: the name     *)
(* only matters where something outside the module has to be found by it.   *)
DeclareCalls(node, taken) ==
  /\ modnames' = taken \cup CallSet(node)
  /\ unresolved' = unresolved \cup (CallSet(node) \cap taken) \cup Twice(node)

-----------------------------------------------------------------------------
setup_llvm_global ==
  /\ phase = "setup"
  /\ phase' = "gen"
  /\ blocks' = << [func |-> main_func, code |-> <<>>] >>
  /\ insert' = 1
  /\ current_func' = main_func
  /\ pending' = Gen(root)
  /\ UNCHANGED <<treeVars, synames, modnames, unresolved, work>>

print_llvm_ir ==
  /\ phase = "gen" /\ work = <<>> /\ pending.do = "ret"
  /\ blocks' = Emit(blocks, insert, <<I("ret", 0, {}, <<>>)>>)
  /\ phase' = "done"
  /\ UNCHANGED <<treeVars, synames, insert, current_func, modnames, unresolved,
                 work, pending>>

No == pending.no       \* the parameter no, when a call begins
N == tree[No]
Called(types) == /\ phase = "gen" /\ pending.do = "gen"
                 /\ No # 0 /\ N.type \in types

(* A call is back in a frame of this kind. *)
Back(kind) == /\ phase = "gen" /\ pending.do = "ret"
              /\ work # <<>> /\ CurrentFrame.k = kind

(* The value of NO_ATTR's variable, which is made on its first assignment,  *)
(* before the right side is generated.                                      *)
Fresh == Env[N.name].kind = "null"
(* Mutant: each assignment in a function makes a slot of its own. *)
VariableAnew == IF current_func # main_func THEN [kind |-> "local", at |-> insert]
                ELSE IF Fresh THEN [kind |-> "global", at |-> 0] ELSE Env[N.name]

Variable == IF ~Fresh THEN Env[N.name]
            ELSE IF current_func = main_func THEN [kind |-> "global", at |-> 0]
            ELSE [kind |-> "local", at |-> insert]
AttrEnv == [Env EXCEPT ![N.name] = Variable]

GenDies ==
  /\ \/ Called({"WHILE", "IF", "OUT", "DELAY"}) /\ Dies(N, Env)
     \/ Called({"ATTR"}) /\ Dies(N, AttrEnv)
     \/ Called({"PRNT"}) /\ Env[N.name].kind = "null"
     \/ Called({"CALL"}) /\ Env[N.name].kind # "func"
  /\ phase' = "fault"
  /\ UNCHANGED <<treeVars, synames, codegenVars>>

GenAttr ==
  LET s == search_symbol(synames, N.name)
      made == IF Fresh THEN {Variable.kind} ELSE {}
  IN  /\ Called({"ATTR"}) /\ ~Dies(N, AttrEnv)
      /\ synames' = [synames EXCEPT ![s].llvm = Variable]
      /\ blocks' = Emit(blocks, insert,
           (IF "local" \in made THEN <<I("alloca", No, {Variable}, <<>>)>> ELSE <<>>)
             \o EvalCode(No, N, AttrEnv) \o <<I("store", No, {Variable}, <<>>)>>)
      /\ DeclareCalls(N, modnames \cup (IF "global" \in made THEN {N.name} ELSE {}))
      /\ pending' = Ret(0)
      /\ UNCHANGED <<phase, treeVars, insert, current_func, work>>

(* The statements that are one instruction after their expressions. *)
GenSimple(type, op, uses) ==
  /\ Called({type}) /\ ~Dies(N, Env)
  /\ blocks' = Emit(blocks, insert,
                    EvalCode(No, N, Env) \o <<I(op, No, uses, <<>>)>>)
  /\ DeclareCalls(N, modnames)
  /\ pending' = Ret(0)
  /\ UNCHANGED <<phase, treeVars, synames, insert, current_func, work>>

GenOut == GenSimple("OUT", "out", {})
GenDelay == GenSimple("DELAY", "delay", {})
GenPrnt == GenSimple("PRNT", "print", {Env[N.name]}) /\ Env[N.name].kind # "null"
GenCall == GenSimple("CALL", "call", {Env[N.name]}) /\ Env[N.name].kind = "func"

-----------------------------------------------------------------------------
(* NO_STMTS, NO_STMT: the loop over the children *)
GenList ==
  /\ Called(ListType)
  /\ Push("list", No, 0, 0, insert)
  /\ pending' = Gen(N.kids[1])
  /\ UNCHANGED <<phase, treeVars, synames, blocks, insert, current_func, modnames,
                 unresolved>>

ListNext ==
  LET f == CurrentFrame
      b == pending.block
      iblock == IF b # 0 THEN b ELSE f.b1
      point == IF b # 0 THEN b ELSE insert
      kids == tree[f.no].kids
  IN  /\ Back("list")
      /\ insert' = point
      /\ \/ /\ f.i < Len(kids)
            /\ work' = [work EXCEPT ![Len(work)] =
                          [f EXCEPT !.i = @ + 1, !.b1 = iblock, !.at = point]]
            /\ pending' = Gen(kids[f.i + 1])
         \/ /\ f.i >= Len(kids)
            /\ PopFrame
            /\ pending' = Ret(iblock)
      /\ UNCHANGED <<phase, treeVars, synames, blocks, current_func, modnames,
                     unresolved>>

(* NO_WHILE: up to the call for the body, and after it *)
GenWhile ==
  LET condwhile == Len(blocks) + 1
      bodywhile == Len(blocks) + 2
      made == NewBlock(NewBlock(blocks, current_func), current_func)
  IN  /\ Called({"WHILE"}) /\ ~Dies(N, Env)
      /\ blocks' = Emit(Emit(made, insert, <<I("br", No, {}, <<condwhile>>)>>),
                        condwhile, EvalCode(No, N, Env))
      /\ DeclareCalls(N, modnames)
      /\ insert' = bodywhile
      /\ Push("while", No, condwhile, bodywhile, bodywhile)
      /\ pending' = Gen(N.kids[1])
      /\ UNCHANGED <<phase, treeVars, synames, current_func>>

WhileDone ==
  LET f == CurrentFrame
      last == IF pending.block # 0 THEN pending.block ELSE f.b2
      endwhile == Len(blocks) + 1
  IN  /\ Back("while")
      /\ blocks' = Emit(Emit(NewBlock(blocks, current_func),
                             f.b1, <<I("condbr", f.no, {}, <<f.b2, endwhile>>)>>),
                        last, <<I("br", f.no, {}, <<f.b1>>)>>)
      /\ insert' = last
      /\ PopFrame
      /\ pending' = Ret(endwhile)
      /\ UNCHANGED <<phase, treeVars, synames, current_func, modnames, unresolved>>

(* NO_IF: up to the call for the first list.  Without an else there is no   *)
(* block for it, and the false branch goes to endif.                        *)
GenIf ==
  LET then == Len(blocks) + 1
      hasElse == Len(N.kids) > 1
      elseif == IF hasElse THEN then + 1 ELSE 0
      endif == IF hasElse THEN then + 2 ELSE then + 1
      two == NewBlock(NewBlock(blocks, current_func), current_func)
      made == IF hasElse THEN NewBlock(two, current_func) ELSE two
  IN  /\ Called({"IF"}) /\ ~Dies(N, Env)
      /\ blocks' = Emit(made, insert, EvalCode(No, N, Env) \o
             <<I("condbr", No, {}, <<then, IF hasElse THEN elseif ELSE endif>>)>>)
      /\ DeclareCalls(N, modnames)
      /\ insert' = then
      /\ Push("then", No, endif, elseif, then)
      /\ pending' = Gen(N.kids[1])
      /\ UNCHANGED <<phase, treeVars, synames, current_func>>

(* Where the branch to endif goes: without an else the code leaves it at    *)
(* the builder's point and does not look at the block that was returned.    *)
(* Mutant: it goes to the end of the block the list began in. *)
BranchPointFirst(f) == f.at

BranchPoint(f) ==
  IF (f.k = "then" /\ f.b2 = 0) \/ pending.block = 0 THEN insert ELSE pending.block

IfDone ==
  LET f == CurrentFrame
  IN  /\ (Back("then") /\ f.b2 = 0) \/ Back("else")
      /\ blocks' = Emit(blocks, BranchPoint(f), <<I("br", f.no, {}, <<f.b1>>)>>)
      /\ insert' = f.b1
      /\ PopFrame
      /\ pending' = Ret(f.b1)
      /\ UNCHANGED <<phase, treeVars, synames, current_func, modnames, unresolved>>

ThenDone ==
  LET f == CurrentFrame
  IN  /\ Back("then") /\ f.b2 # 0
      /\ blocks' = Emit(blocks, BranchPoint(f), <<I("br", f.no, {}, <<f.b1>>)>>)
      /\ insert' = f.b2
      /\ work' = [work EXCEPT ![Len(work)] = [f EXCEPT !.k = "else", !.b2 = 0, !.at = f.b2]]
      /\ pending' = Gen(tree[f.no].kids[2])
      /\ UNCHANGED <<phase, treeVars, synames, current_func, modnames, unresolved>>

(* NO_FUNC *)
GenFunc ==
  LET entry == Len(blocks) + 1
      s == search_symbol(synames, N.name)
  IN  /\ Called({"FUNC"})
      /\ modnames' = modnames \cup {N.name}
      /\ synames' = [synames EXCEPT ![s].llvm = [kind |-> "func", at |-> entry]]
      /\ blocks' = NewBlock(blocks, entry)
      /\ current_func' = entry
      /\ insert' = entry
      /\ Push("func", No, insert, 0, entry)
      /\ pending' = Gen(N.kids[1])
      /\ UNCHANGED <<phase, treeVars, unresolved>>

(* Mutant: the next statements still count as the function's. *)
LeaveBlock == UNCHANGED current_func /\ insert' = CurrentFrame.b1

(* The builder goes back to the block around the definition, and the        *)
(* functions to main, whatever function that block is in.                   *)
LeaveFunction == current_func' = main_func /\ insert' = CurrentFrame.b1

FuncDone ==
  /\ Back("func")
  /\ blocks' = Emit(blocks, insert, <<I("ret", CurrentFrame.no, {}, <<>>)>>)
  /\ LeaveFunction
  /\ PopFrame
  /\ pending' = Ret(0)
  /\ UNCHANGED <<phase, treeVars, synames, modnames, unresolved>>

CodegenInit ==
  /\ blocks = <<>> /\ insert = 0 /\ current_func = 0
  /\ modnames = {} /\ unresolved = {}
  /\ work = <<>> /\ pending = Ret(0)

Generate ==
  \/ setup_llvm_global \/ print_llvm_ir \/ GenDies
  \/ GenAttr \/ GenOut \/ GenDelay \/ GenPrnt \/ GenCall
  \/ GenList \/ ListNext
  \/ GenWhile \/ WhileDone \/ GenIf \/ ThenDone \/ IfDone
  \/ GenFunc \/ FuncDone

CodegenTypeOK ==
  /\ blocks \in Seq(Block) /\ insert \in Nat /\ current_func \in Nat
  /\ modnames \subseteq Name /\ unresolved \subseteq Name
  /\ work \in Seq(WorkFrame) /\ pending \in Pending
=============================================================================
