------------------------------- MODULE Parser -------------------------------
(***************************************************************************)
(* The bison parser of scalc.y and the actions of its rules.  stack is the *)
(* parser's stack: statements and lists already reduced, and the openings  *)
(* of the constructs whose '}' has not been read.  Every action is the     *)
(* reading of some tokens and the reduction they allow, so the behaviours  *)
(* are the parses of every program of the bounded vocabulary.              *)
(***************************************************************************)
EXTENDS SyntaxTree

CONSTANTS
  Construct,   \* the statements the program may use
  FuncName,    \* the names it may define or call as functions
  Rvalue,      \* the expressions of assignments, OUT and DELAY
  Port,        \* the ports of OUT
  Cond,        \* the conditions of WHILE and IF
  MaxStmts,    \* bound: statements in the program
  MaxOpen,     \* bound: constructs open at a time
  MaxFuncs     \* bound: FUNCTION constructs open at a time

ASSUME ParserAssumption ==
  /\ FuncName \subseteq Name
  /\ Rvalue \cup Port \cup Cond \subseteq Expr
  /\ MaxStmts \in Nat /\ MaxOpen \in Nat /\ MaxFuncs \in Nat

VARIABLES
  stack,    \* the parser's stack
  read      \* how many statements have been begun

parserVars == <<stack, read>>

Opening == {"inWhile", "inThen", "inElse", "inFunction"}
Item == [sym : Opening \cup {"stmt", "stmts", "if"},
         no : Nat, name : Name \cup {NoName}, exprs : Seq(Expr)]

Mark(sym, name, exprs) == [sym |-> sym, no |-> 0, name |-> name, exprs |-> exprs]
Node(sym, no) == [sym |-> sym, no |-> no, name |-> NoName, exprs |-> <<>>]

(* The symbol k places below the top of the stack. *)
Below(k) == stack[Len(stack) - k]
TopIs(syms) ==   \* the topmost symbols, the top last
  /\ Len(syms) <= Len(stack)
  /\ \A j \in DOMAIN syms : Below(Len(syms) - j).sym = syms[j]
Pop(k) == SubSeq(stack, 1, Len(stack) - k)

(* The rule stmt applies after an opening, a statement, or at the start.   *)
MayBegin(st) == st # <<>> => Last(st).sym \in Opening \cup {"stmt"}
Begin(kind) == /\ phase = "parse"
               /\ kind \in Construct
               /\ MayBegin(stack)
               /\ read < MaxStmts
               /\ read' = read + 1

CountOf(syms) == Cardinality({j \in DOMAIN stack : stack[j].sym \in syms})

(* Make a node and leave it on the stack in place of the k topmost symbols. *)
Reduce(k, sym, node) ==
  /\ tree' = Append(tree, node)
  /\ stack' = Append(Pop(k), Node(sym, Len(tree) + 1))
  /\ UNCHANGED <<phase, freed, root>>

-----------------------------------------------------------------------------
(* stmt : VAR '=' arit ';' *)
StmtAttr == \E v \in Name, e \in Rvalue :
  /\ Begin("ATTR")
  /\ synames' = add_symbol(synames, v)
  /\ Reduce(0, "stmt", create_no("ATTR", v, <<e>>, <<>>))

(* stmt : print ';' | functioncall ';' *)
StmtNamed(kind, names) == \E v \in names :
  /\ Begin(kind)
  /\ Reduce(0, "stmt", create_no(kind, v, <<>>, <<>>))
  /\ UNCHANGED synames

(* stmt : out ';' *)
StmtOut == \E p \in Port, e \in Rvalue :
  /\ Begin("OUT")
  /\ Reduce(0, "stmt", create_no("OUT", NoName, <<p, e>>, <<>>))
  /\ UNCHANGED synames

(* stmt : delay ';' *)
StmtDelay == \E e \in Rvalue :
  /\ Begin("DELAY")
  /\ Reduce(0, "stmt", create_no("DELAY", NoName, <<e>>, <<>>))
  /\ UNCHANGED synames

(* stmt : error ';'.  yyerror reports and counts nothing; bison pops to the *)
(* innermost state that can begin a statement, forgetting what is above,    *)
(* and the empty action leaves in $$ whatever yylval held.                  *)
StmtError == \E k \in 0..Len(stack) :
  /\ phase = "parse" /\ "error" \in Construct /\ read < MaxStmts
  /\ MayBegin(SubSeq(stack, 1, k))
  /\ \A j \in k + 1..Len(stack) : ~MayBegin(SubSeq(stack, 1, j))
  /\ read' = read + 1
  /\ stack' = Append(SubSeq(stack, 1, k), Node("stmt", 0))
  /\ UNCHANGED <<phase, tree, freed, root, synames>>

(* The tokens of while, if and functiondef up to and including their '{'. *)
Open(kind, mark) ==
  /\ Begin(kind)
  /\ CountOf(Opening) < MaxOpen
  /\ stack' = Append(stack, mark)
  /\ UNCHANGED <<phase, tree, freed, root, synames>>

OpenWhile == \E c \in Cond : Open("WHILE", Mark("inWhile", NoName, <<c>>))
OpenIf == \E c \in Cond : Open("IF", Mark("inThen", NoName, <<c>>))
OpenFunction == \E f \in FuncName :
  /\ CountOf({"inFunction"}) < MaxFuncs
  /\ Open("FUNC", Mark("inFunction", f, <<>>))

(* stmts : stmt  -- the last statement of a list *)
ReduceLast ==
  /\ phase = "parse" /\ TopIs(<<"stmt">>)
  /\ Reduce(1, "stmts", create_no("STMT", NoName, <<>>, <<Below(0).no>>))
  /\ UNCHANGED <<read, synames>>

(* Mutant: stmts : stmts stmt, the list before the statement. *)
ListFirst == <<Below(0).no, Below(1).no>>
StmtFirst == <<Below(1).no, Below(0).no>>

(* stmts : stmt stmts *)
ReduceStmts ==
  /\ phase = "parse" /\ TopIs(<<"stmt", "stmts">>)
  /\ Reduce(2, "stmts", create_no("STMTS", NoName, <<>>, StmtFirst))
  /\ UNCHANGED <<read, synames>>

(* while : WHILE '(' logical ')' '{' stmts '}' *)
CloseWhile ==
  /\ phase = "parse" /\ TopIs(<<"inWhile", "stmts">>)
  /\ Reduce(2, "stmt", create_no("WHILE", NoName, Below(1).exprs, <<Below(0).no>>))
  /\ UNCHANGED <<read, synames>>

(* functiondef : FUNCTION VAR '(' ')' '{' stmts '}' *)
CloseFunction ==
  /\ phase = "parse" /\ TopIs(<<"inFunction", "stmts">>)
  /\ synames' = add_symbol(synames, Below(1).name)
  /\ Reduce(2, "stmt", create_no("FUNC", Below(1).name, <<>>, <<Below(0).no>>))
  /\ UNCHANGED read

(* if : IF '(' logical ')' '{' stmts '}' *)
CloseIf ==
  /\ phase = "parse" /\ TopIs(<<"inThen", "stmts">>)
  /\ Reduce(2, "if", create_no("IF", NoName, Below(1).exprs, <<Below(0).no>>))
  /\ UNCHANGED <<read, synames>>

(* ... '}' ELSE '{', and ... '}' ELSE IF '(' logical ')' '{' *)
OpenElse == \E mark \in {Mark("inElse", NoName, <<>>)}
                        \cup {Mark("inThen", NoName, <<c>>) : c \in Cond} :
  /\ phase = "parse" /\ TopIs(<<"inThen", "stmts">>) /\ read < MaxStmts
  /\ stack' = Append(stack, mark)
  /\ read' = read + 1
  /\ UNCHANGED <<phase, tree, freed, root, synames>>

(* if : IF '(' logical ')' '{' stmts '}' ELSE '{' stmts '}' *)
CloseElse ==
  /\ phase = "parse" /\ TopIs(<<"inThen", "stmts", "inElse", "stmts">>)
  /\ Reduce(4, "if", create_no("IF", NoName, Below(3).exprs,
                               <<Below(2).no, Below(0).no>>))
  /\ UNCHANGED <<read, synames>>

(* if : IF '(' logical ')' '{' stmts '}' ELSE if *)
CloseElseIf ==
  /\ phase = "parse" /\ TopIs(<<"inThen", "stmts", "if">>)
  /\ Reduce(3, "if", create_no("IF", NoName, Below(2).exprs,
                               <<Below(1).no, Below(0).no>>))
  /\ UNCHANGED <<read, synames>>

(* stmt : if  -- one that no ELSE comes before *)
StmtIf ==
  /\ phase = "parse" /\ TopIs(<<"if">>) /\ ~TopIs(<<"stmts", "if">>)
  /\ stack' = Append(Pop(1), Node("stmt", Below(0).no))
  /\ UNCHANGED <<phase, tree, freed, root, read, synames>>

-----------------------------------------------------------------------------
(* program : stmts *)
Accept ==
  /\ phase = "parse" /\ TopIs(<<"stmts">>) /\ Len(stack) = 1
  /\ phase' = "collapse"
  /\ root' = Below(0).no
  /\ stack' = <<>>
  /\ UNCHANGED <<tree, freed, read, synames>>

(* The end of the file inside a statement or an open construct: there is no *)
(* ';' to recover at, yyparse fails, and main, which ignores its result,    *)
(* returns 0.                                                               *)
Reject ==
  /\ phase = "parse"
  /\ phase' = "rejected"
  /\ UNCHANGED <<tree, freed, root, stack, read, synames>>

ParserInit == stack = <<>> /\ read = 0

Parse ==
  \/ StmtAttr \/ StmtOut \/ StmtDelay \/ StmtError
  \/ StmtNamed("PRNT", Name) \/ StmtNamed("CALL", FuncName)
  \/ OpenWhile \/ OpenIf \/ OpenFunction \/ OpenElse
  \/ ReduceLast \/ ReduceStmts
  \/ CloseWhile \/ CloseFunction \/ CloseIf \/ CloseElse \/ CloseElseIf
  \/ StmtIf
  \/ Accept \/ Reject

ParserTypeOK == stack \in Seq(Item) /\ read \in Nat
=============================================================================
