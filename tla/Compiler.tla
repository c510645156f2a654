------------------------------ MODULE Compiler ------------------------------
(***************************************************************************)
(* One run of scalc: the parser, the two passes over the tree and the code *)
(* generator, one after the other in a single thread (rule program of      *)
(* scalc.y).                                                               *)
(***************************************************************************)
EXTENDS Parser, Semantic, Codegen

VARIABLE source   \* history: the tree and the root as they were parsed

vars == <<phase, tree, freed, root, synames, stack, read, frames, error_count,
          blocks, insert, current_func, modnames, unresolved, work, pending, source>>

Phase == {"parse", "collapse", "declare", "setup", "gen", "done",
          "exit", "rejected", "fault"}
Over == {"done", "exit", "rejected", "fault"}

Init ==
  /\ phase = "parse"
  /\ tree = <<>> /\ freed = {} /\ root = 0 /\ synames = <<>>
  /\ source = [tree |-> <<>>, root |-> 0]
  /\ ParserInit /\ SemanticInit /\ CodegenInit

KeepSource == source' = IF phase = "parse" /\ phase' = "collapse"
                        THEN [tree |-> tree', root |-> root'] ELSE source

ParserStep == Parse /\ UNCHANGED <<semanticVars, codegenVars>>
SemanticStep == Analyse /\ UNCHANGED <<parserVars, codegenVars>>
CodegenStep == Generate /\ UNCHANGED <<parserVars, semanticVars>>

(* The process has ended. *)
Ended == phase \in Over /\ UNCHANGED vars

Next == \/ /\ ParserStep \/ SemanticStep \/ CodegenStep
           /\ KeepSource
        \/ Ended

Spec == Init /\ [][Next]_vars

(* One thread that never blocks: it goes on as long as it can.             *)
FairSpec == Spec /\ WF_vars(Next)

-----------------------------------------------------------------------------
TypeOK ==
  /\ phase \in Phase
  /\ tree \in Seq(NodeRec) /\ freed \subseteq Nat /\ root \in Nat
  /\ synames \in Seq(Symbol)
  /\ ParserTypeOK /\ SemanticTypeOK /\ CodegenTypeOK

(* Basic blocks: no instruction is ever put after a terminator, whatever    *)
(* the nesting of WHILE, IF and FUNCTION ...                                *)
IsTerminated(b) == \E k \in DOMAIN blocks[b].code : blocks[b].code[k].op \in Terminator
NothingAfterTerminator ==
  \A b \in DOMAIN blocks : \A k \in DOMAIN blocks[b].code :
    blocks[b].code[k].op \in Terminator => k = Len(blocks[b].code)

(* ... and in the module that is printed every block ends in one, so that   *)
(* the control flow never runs out of a block.                              *)
EveryBlockEnds == phase = "done" => \A b \in DOMAIN blocks : IsTerminated(b)

(* The builder appends to a block of the function being generated, and no   *)
(* branch leaves its function.                                              *)
InsertsInCurrentFunc ==
  phase = "gen" => insert \in DOMAIN blocks /\ blocks[insert].func = current_func
BranchesStayInFunction ==
  \A b \in DOMAIN blocks : \A k \in DOMAIN blocks[b].code :
    \A t \in ToSet(blocks[b].code[k].to) :
      t \in DOMAIN blocks /\ blocks[t].func = blocks[b].func
=============================================================================
