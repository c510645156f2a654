------------------------------ MODULE Execution ------------------------------
(***************************************************************************)
(* The printed module at work on the board: what the instructions of       *)
(* backllvm.cpp do to the control of the program, by the meaning LLVM      *)
(* gives them.  The values of conditions come from the sensors and are     *)
(* free.  Shown to implement SourceRun.                                    *)
(***************************************************************************)
EXTENDS Compiler, Integers

CONSTANT MaxCalls    \* bound: calls active at a time

VARIABLES
  ip,        \* the next instruction: its block, and its place there
  rstack     \* the return addresses

boardVars == <<ip, rstack>>

At(p) == blocks[p[1]].code[p[2]]
After1(p) == <<p[1], p[2] + 1>>

ExecInit == Init /\ ip = <<1, 1>> /\ rstack = <<>>

Goes(p) == ip' = p /\ UNCHANGED <<vars, rstack>>

Falls == /\ At(ip).op \notin Terminator \cup {"call"}
         /\ Goes(After1(ip))
Jumps == /\ At(ip).op \in {"br", "condbr"}
         /\ \E b \in ToSet(At(ip).to) : Goes(<<b, 1>>)
Invokes == /\ At(ip).op = "call" /\ Len(rstack) < MaxCalls
          /\ \E f \in At(ip).uses : ip' = <<f.at, 1>>
          /\ rstack' = Append(rstack, After1(ip))
          /\ UNCHANGED vars
ComesBack == /\ At(ip).op = "ret" /\ rstack # <<>>
            /\ ip' = Last(rstack)
            /\ rstack' = Front(rstack)
            /\ UNCHANGED vars

Run == phase = "done" /\ (Falls \/ Jumps \/ Invokes \/ ComesBack)

ExecNext == (Next /\ UNCHANGED boardVars) \/ Run

ExecSpec == ExecInit /\ [][ExecNext]_<<vars, boardVars>>

-----------------------------------------------------------------------------
(* The next instruction from p on that is the effect of a statement, or a   *)
(* choice or an end of one.                                                 *)
RECURSIVE Event(_)
Event(p) == CASE At(p).op \in {"eval", "alloca"} -> Event(After1(p))
              [] At(p).op = "br" -> Event(<<At(p).to[1], 1>>)
              [] OTHER -> At(p).no

(* The module does at every statement what the program text says, on every  *)
(* path through WHILE, IF, FUNCTION and calls: backllvm.cpp 285-448 after   *)
(* collapse_stmts, against the tree that was parsed.                        *)
Source == INSTANCE SourceRun WITH
  program <- IF phase = "done" THEN source ELSE [tree |-> <<>>, root |-> 0],
  at <- IF phase = "done" THEN Event(ip) ELSE -1,
  returns <- [k \in DOMAIN rstack |-> Event(rstack[k])]
RunsTheSource == Source!Spec
=============================================================================
