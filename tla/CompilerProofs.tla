---------------------------- MODULE CompilerProofs ----------------------------
(***************************************************************************)
(* What one run of scalc keeps, for every vocabulary of programs and every *)
(* bound.  In this order:                                                  *)
(*   IInv          the parser and the two passes of semantic.c keep the    *)
(*                 tree, the stack and the frames well formed, and the     *)
(*                 code generator the blocks;                              *)
(*   VariablesInv  a name is one LLVM value wherever it is used.           *)
(* What the passes do to the text of the program is in PassProofs.         *)
(***************************************************************************)
EXTENDS CompilerInvariant, PassProperties, TLAPS, SequenceTheorems, FiniteSetTheorems

(* The part of IInv that the parser can disturb. *)
ParseInv == /\ TypeOK
            /\ TreeShape /\ StackShape /\ RootShape /\ FramesShape

-----------------------------------------------------------------------------
(* The symbols that TopIs names are on the stack. *)
LEMMA TopOne ==
  ASSUME stack \in Seq(Item), NEW a, TopIs(<<a>>)
  PROVE  /\ 1 <= Len(stack)
         /\ Below(0) \in Item /\ Below(0).sym = a
         /\ \E j \in DOMAIN stack : stack[j] = Below(0)
<1>1. 1 <= Len(stack) /\ Below(1 - 1).sym = a
  BY DEF TopIs
<1>2. Len(stack) - 0 \in DOMAIN stack
  BY <1>1
<1> QED BY <1>1, <1>2 DEF Below

LEMMA TopTwo ==
  ASSUME stack \in Seq(Item), NEW a, NEW b, TopIs(<<a, b>>)
  PROVE  /\ 2 <= Len(stack)
         /\ Below(0) \in Item /\ Below(0).sym = b
         /\ Below(1) \in Item /\ Below(1).sym = a
         /\ \E j \in DOMAIN stack : stack[j] = Below(0)
         /\ \E j \in DOMAIN stack : stack[j] = Below(1)
<1>1. 2 <= Len(stack) /\ Below(2 - 1).sym = a /\ Below(2 - 2).sym = b
  BY DEF TopIs
<1>2. Len(stack) - 0 \in DOMAIN stack /\ Len(stack) - 1 \in DOMAIN stack
  BY <1>1
<1> QED BY <1>1, <1>2 DEF Below

LEMMA TopThree ==
  ASSUME stack \in Seq(Item), NEW a, NEW b, NEW c, TopIs(<<a, b, c>>)
  PROVE  /\ 3 <= Len(stack)
         /\ Below(0) \in Item /\ Below(0).sym = c
         /\ Below(1) \in Item /\ Below(1).sym = b
         /\ Below(2) \in Item
         /\ \E j \in DOMAIN stack : stack[j] = Below(0)
         /\ \E j \in DOMAIN stack : stack[j] = Below(1)
<1>1. 3 <= Len(stack) /\ Below(3 - 2).sym = b /\ Below(3 - 3).sym = c
  BY DEF TopIs
<1>2. /\ Len(stack) - 0 \in DOMAIN stack /\ Len(stack) - 1 \in DOMAIN stack
      /\ Len(stack) - 2 \in DOMAIN stack
  BY <1>1
<1> QED BY <1>1, <1>2 DEF Below

LEMMA TopFour ==
  ASSUME stack \in Seq(Item), NEW a, NEW b, NEW c, NEW d, TopIs(<<a, b, c, d>>)
  PROVE  /\ 4 <= Len(stack)
         /\ Below(0) \in Item /\ Below(0).sym = d
         /\ Below(2) \in Item /\ Below(2).sym = b
         /\ Below(3) \in Item
         /\ \E j \in DOMAIN stack : stack[j] = Below(0)
         /\ \E j \in DOMAIN stack : stack[j] = Below(2)
<1>1. 4 <= Len(stack) /\ Below(4 - 2).sym = b /\ Below(4 - 4).sym = d
  BY DEF TopIs
<1>2. /\ Len(stack) - 0 \in DOMAIN stack /\ Len(stack) - 2 \in DOMAIN stack
      /\ Len(stack) - 3 \in DOMAIN stack
  BY <1>1
<1> QED BY <1>1, <1>2 DEF Below

(* A reduction leaves a well-formed tree and stack when its node is one. *)
LEMMA ReduceKeeps ==
  ASSUME ParseInv, phase = "parse",
         NEW k \in Nat, k <= Len(stack),
         NEW sym \in {"stmt", "stmts", "if"},
         NEW node \in NodeRec, NodeShape(tree, node),
         sym = "stmts" => node.type \in ListType,
         sym = "if" => node.type = "IF",
         Reduce(k, sym, node)
  PROVE  /\ tree' \in Seq(NodeRec) /\ stack' \in Seq(Item)
         /\ TreeShape' /\ StackShape' /\ RootShape' /\ phase' = "parse"
         /\ \A n \in DOMAIN tree : n \in DOMAIN tree' /\ tree'[n] = tree[n]
<1> USE DEF ParseInv, TypeOK, ParserTypeOK
<1>1. /\ tree' = Append(tree, node)
      /\ stack' = Append(SubSeq(stack, 1, Len(stack) - k),
                         [sym |-> sym, no |-> Len(tree) + 1, name |-> NoName, exprs |-> <<>>])
      /\ phase' = "parse"
  BY DEF Reduce, Pop, Node
<1>2. /\ tree' \in Seq(NodeRec) /\ Len(tree') = Len(tree) + 1
      /\ tree'[Len(tree) + 1] = node
      /\ \A n \in DOMAIN tree : n \in DOMAIN tree' /\ tree'[n] = tree[n]
      /\ DOMAIN tree' = DOMAIN tree \cup {Len(tree) + 1}
  BY <1>1
<1>3. SubSeq(stack, 1, Len(stack) - k) \in Seq(Item)
  BY SubSeqProperties
<1>4. [sym |-> sym, no |-> Len(tree) + 1, name |-> NoName, exprs |-> <<>>] \in Item
  BY DEF Item
<1>5. stack' \in Seq(Item)
  BY <1>1, <1>3, <1>4
<1>6. TreeShape'
  <2>1. \A m \in NodeRec : NodeShape(tree, m) => NodeShape(tree', m)
    BY <1>2 DEF NodeShape, NodeRec
  <2>2. \A n \in DOMAIN tree' : tree'[n] \in NodeRec /\ NodeShape(tree', tree'[n])
    BY <1>2, <2>1 DEF TreeShape
  <2> QED BY <2>2 DEF TreeShape
<1>7. StackShape'
  <2> SUFFICES ASSUME NEW j \in DOMAIN stack' PROVE ItemShape(stack[j])'
    BY DEF StackShape
  <2>1. CASE j = Len(stack')
    <3>1. stack'[j] = [sym |-> sym, no |-> Len(tree) + 1, name |-> NoName, exprs |-> <<>>]
      BY <1>1, <1>3, <2>1
    <3> QED BY <3>1, <1>2 DEF ItemShape, BodyType, ListType
  <2>2. CASE j # Len(stack')
    <3>1. j \in DOMAIN stack /\ stack'[j] = stack[j]
      BY <1>1, <1>3, <2>2
    <3>2. ItemShape(stack[j])
      BY <3>1 DEF StackShape
    <3> QED BY <3>1, <3>2, <1>2 DEF ItemShape
  <2> QED BY <2>1, <2>2
<1>8. RootShape'
  BY <1>1 DEF RootShape
<1> QED BY <1>1, <1>2, <1>5, <1>6, <1>7, <1>8

LEMMA AddSymbolType ==
  ASSUME NEW syms \in Seq(Symbol), NEW name \in Name
  PROVE  add_symbol(syms, name) \in Seq(Symbol)
<1>1. [name |-> name, exists |-> FALSE, llvm |-> NullValue] \in Symbol
  BY DEF Symbol, NullValue, Value, ValueKind
<1> QED BY <1>1 DEF add_symbol

(* A new node is one: the reductions of statements without a body ...       *)
LEMMA LeafNode ==
  ASSUME NEW type \in LeafType, NEW name \in Name \cup {NoName}, NEW exprs \in Seq(Expr),
         type \in NamedType => name \in Name
  PROVE  /\ create_no(type, name, exprs, <<>>) \in NodeRec
         /\ NodeShape(tree, create_no(type, name, exprs, <<>>))
BY DEF create_no, NodeRec, NodeShape, LeafType, NodeType, BodyType, ListType

(* ... and those of the others.                                             *)
LEMMA BodyNode ==
  ASSUME tree \in Seq(NodeRec), NEW type \in {"WHILE", "FUNC", "IF", "STMTS", "STMT"},
         NEW name \in Name \cup {NoName}, NEW exprs \in Seq(Expr), NEW kids \in Seq(Nat),
         kids # <<>>, type = "FUNC" => name \in Name,
         \A k \in DOMAIN kids : kids[k] \in DOMAIN tree \cup {0},
         type \in {"WHILE", "FUNC", "IF"} => \A k \in DOMAIN kids :
           kids[k] \in DOMAIN tree /\ tree[kids[k]].type \in BodyType
  PROVE  /\ create_no(type, name, exprs, kids) \in NodeRec
         /\ NodeShape(tree, create_no(type, name, exprs, kids))
         /\ create_no(type, name, exprs, kids).type = type
<1>1. type \in NodeType
  BY DEF NodeType, ListType, LeafType
<1> QED BY <1>1 DEF create_no, NodeRec, NodeShape, NamedType

(* What a parser action has to show of the variables it may change. *)
ParserOutcome ==
  /\ tree' \in Seq(NodeRec) /\ stack' \in Seq(Item) /\ synames' \in Seq(Symbol)
  /\ TreeShape' /\ StackShape' /\ RootShape'
  /\ phase' \in {"parse", "collapse", "rejected"}
  /\ \A n \in DOMAIN tree : n \in DOMAIN tree' /\ tree'[n] = tree[n]
  /\ read' \in Nat /\ freed' = freed /\ root' \in Nat

LEMMA BeginFacts ==
  ASSUME ParseInv, NEW kind, Begin(kind)
  PROVE  phase = "parse" /\ read' \in Nat /\ Len(stack) \in Nat
BY DEF Begin, ParseInv, TypeOK, ParserTypeOK

LEMMA LeafKeeps ==
  ASSUME ParseInv, NEW type \in LeafType, NEW name \in Name \cup {NoName},
         NEW exprs \in Seq(Expr), type \in NamedType => name \in Name,
         Begin(type), synames' \in Seq(Symbol),
         Reduce(0, "stmt", create_no(type, name, exprs, <<>>))
  PROVE  ParserOutcome
<1> DEFINE node == create_no(type, name, exprs, <<>>)
<1>1. phase = "parse" /\ read' \in Nat /\ 0 <= Len(stack)
  BY BeginFacts DEF ParseInv, TypeOK, ParserTypeOK
<1>2. node \in NodeRec /\ NodeShape(tree, node)
  BY LeafNode
<1>3. /\ tree' \in Seq(NodeRec) /\ stack' \in Seq(Item)
      /\ TreeShape' /\ StackShape' /\ RootShape' /\ phase' = "parse"
      /\ \A n \in DOMAIN tree : n \in DOMAIN tree' /\ tree'[n] = tree[n]
  <2> HIDE DEF node
  <2>1. Reduce(0, "stmt", node)
    BY DEF node
  <2> QED BY <1>1, <1>2, <2>1, ReduceKeeps
<1>4. root' = root /\ freed' = freed /\ root \in Nat
  BY DEF Reduce, ParseInv, TypeOK
<1> QED BY <1>1, <1>3, <1>4 DEF ParserOutcome

LEMMA StmtAttrKeeps == ASSUME ParseInv, StmtAttr PROVE ParserOutcome
<1> PICK v \in Name, e \in Rvalue :
       /\ Begin("ATTR") /\ synames' = add_symbol(synames, v)
       /\ Reduce(0, "stmt", create_no("ATTR", v, <<e>>, <<>>))
  BY DEF StmtAttr
<1>1. <<e>> \in Seq(Expr) /\ "ATTR" \in LeafType /\ v \in Name \cup {NoName}
  BY ParserAssumption DEF LeafType
<1>2. synames' \in Seq(Symbol)
  BY AddSymbolType DEF ParseInv, TypeOK
<1> QED BY <1>1, <1>2, LeafKeeps

LEMMA StmtNamedKeeps ==
  ASSUME ParseInv, NEW kind \in {"PRNT", "CALL"}, NEW names \in SUBSET Name,
         StmtNamed(kind, names)
  PROVE  ParserOutcome
<1> PICK v \in names :
       /\ Begin(kind) /\ synames' = synames
       /\ Reduce(0, "stmt", create_no(kind, v, <<>>, <<>>))
  BY DEF StmtNamed
<1>1. <<>> \in Seq(Expr) /\ kind \in LeafType /\ v \in Name \cup {NoName}
  BY DEF LeafType
<1>2. synames' \in Seq(Symbol)
  BY DEF ParseInv, TypeOK
<1> QED BY <1>1, <1>2, LeafKeeps

LEMMA StmtOutKeeps == ASSUME ParseInv, StmtOut PROVE ParserOutcome
<1> PICK p \in Port, e \in Rvalue :
       /\ Begin("OUT") /\ synames' = synames
       /\ Reduce(0, "stmt", create_no("OUT", NoName, <<p, e>>, <<>>))
  BY DEF StmtOut
<1>1. <<p, e>> \in Seq(Expr) /\ "OUT" \in LeafType /\ NoName \in Name \cup {NoName}
      /\ "OUT" \notin NamedType
  BY ParserAssumption DEF LeafType, NamedType
<1>2. synames' \in Seq(Symbol)
  BY DEF ParseInv, TypeOK
<1> QED BY <1>1, <1>2, LeafKeeps

LEMMA StmtDelayKeeps == ASSUME ParseInv, StmtDelay PROVE ParserOutcome
<1> PICK e \in Rvalue :
       /\ Begin("DELAY") /\ synames' = synames
       /\ Reduce(0, "stmt", create_no("DELAY", NoName, <<e>>, <<>>))
  BY DEF StmtDelay
<1>1. <<e>> \in Seq(Expr) /\ "DELAY" \in LeafType /\ NoName \in Name \cup {NoName}
      /\ "DELAY" \notin NamedType
  BY ParserAssumption DEF LeafType, NamedType
<1>2. synames' \in Seq(Symbol)
  BY DEF ParseInv, TypeOK
<1> QED BY <1>1, <1>2, LeafKeeps

(* A mark or a statement without a node, pushed on a prefix of the stack. *)
LEMMA MarkKeeps ==
  ASSUME ParseInv, phase = "parse", NEW k \in 0..Len(stack), NEW item \in Item,
         item.sym \in {"stmts", "if"} => FALSE,
         item.sym = "stmt" => item.no = 0,
         item.sym = "inFunction" => item.name \in Name,
         stack' = Append(SubSeq(stack, 1, k), item),
         UNCHANGED <<phase, tree, freed, root, synames>>, read' \in Nat
  PROVE  ParserOutcome
<1> USE DEF ParseInv, TypeOK, ParserTypeOK
<1>1. SubSeq(stack, 1, k) \in Seq(Item) /\ Len(SubSeq(stack, 1, k)) = k
  BY SubSeqProperties
<1>2. stack' \in Seq(Item)
  BY <1>1
<1>3. StackShape'
  <2> SUFFICES ASSUME NEW j \in DOMAIN stack' PROVE ItemShape(stack[j])'
    BY DEF StackShape
  <2>1. CASE j = Len(stack')
    BY <1>1, <2>1 DEF ItemShape
  <2>2. CASE j # Len(stack')
    <3>1. j \in DOMAIN stack /\ stack'[j] = stack[j]
      BY <1>1, <2>2
    <3> QED BY <3>1 DEF StackShape, ItemShape
  <2> QED BY <2>1, <2>2
<1> QED BY <1>2, <1>3 DEF ParserOutcome, TreeShape, RootShape

(* A reduction of the n topmost symbols to the node of a construct. *)
LEMMA BodyKeeps ==
  ASSUME ParseInv, phase = "parse", NEW n \in Nat, n <= Len(stack),
         NEW sym \in {"stmt", "stmts", "if"},
         NEW type \in {"WHILE", "FUNC", "IF", "STMTS", "STMT"},
         NEW name \in Name \cup {NoName}, NEW exprs \in Seq(Expr), NEW kids \in Seq(Nat),
         type = "FUNC" => name \in Name,
         kids # <<>>, sym = "stmts" => type \in ListType, sym = "if" => type = "IF",
         \A k \in DOMAIN kids : kids[k] \in DOMAIN tree \cup {0},
         type \in {"WHILE", "FUNC", "IF"} => \A k \in DOMAIN kids :
           kids[k] \in DOMAIN tree /\ tree[kids[k]].type \in BodyType,
         Reduce(n, sym, create_no(type, name, exprs, kids)),
         synames' \in Seq(Symbol), read' = read
  PROVE  ParserOutcome
<1> DEFINE node == create_no(type, name, exprs, kids)
<1>2. node \in NodeRec /\ NodeShape(tree, node) /\ node.type = type
  BY BodyNode DEF ParseInv, TypeOK
<1>3. /\ tree' \in Seq(NodeRec) /\ stack' \in Seq(Item)
      /\ TreeShape' /\ StackShape' /\ RootShape' /\ phase' = "parse"
      /\ \A m \in DOMAIN tree : m \in DOMAIN tree' /\ tree'[m] = tree[m]
  <2> HIDE DEF node
  <2>1. Reduce(n, sym, node)
    BY DEF node
  <2> QED BY <1>2, <2>1, ReduceKeeps
<1>4. root' = root /\ freed' = freed /\ root \in Nat /\ read' \in Nat
  BY DEF Reduce, ParseInv, TypeOK, ParserTypeOK
<1> QED BY <1>3, <1>4 DEF ParserOutcome

LEMMA ListKeeps == ASSUME ParseInv, ReduceLast \/ ReduceStmts PROVE ParserOutcome
<1>0. /\ stack \in Seq(Item) /\ synames \in Seq(Symbol) /\ StackShape
      /\ NoName \in Name \cup {NoName} /\ <<>> \in Seq(Expr)
      /\ "STMTS" \in ListType /\ "STMT" \in ListType
  BY DEF ParseInv, TypeOK, ParserTypeOK, ListType
<1>1. CASE ReduceLast
  <2> DEFINE kids == <<Below(0).no>>
  <2>1. /\ phase = "parse" /\ TopIs(<<"stmt">>) /\ read' = read /\ synames' = synames
        /\ Reduce(1, "stmts", create_no("STMT", NoName, <<>>, kids))
    BY <1>1 DEF ReduceLast
  <2>2. 1 <= Len(stack) /\ ItemShape(Below(0)) /\ Below(0) \in Item /\ Below(0).sym = "stmt"
    BY <1>0, <2>1, TopOne DEF StackShape
  <2>3. Below(0).no \in Nat /\ Below(0).no \in DOMAIN tree \cup {0}
    BY <2>2 DEF Item, ItemShape
  <2>4. kids \in Seq(Nat) /\ kids # <<>> /\ \A k \in DOMAIN kids : kids[k] \in DOMAIN tree \cup {0}
    BY <2>3
  <2> HIDE DEF kids
  <2> QED BY <1>0, <2>1, <2>2, <2>4, BodyKeeps
<1>2. CASE ReduceStmts
  <2> DEFINE kids == <<Below(1).no, Below(0).no>>
  <2>1. /\ phase = "parse" /\ TopIs(<<"stmt", "stmts">>) /\ read' = read /\ synames' = synames
        /\ Reduce(2, "stmts", create_no("STMTS", NoName, <<>>, kids))
    BY <1>2 DEF ReduceStmts, StmtFirst
  <2>2. /\ 2 <= Len(stack)
        /\ Below(0) \in Item /\ Below(0).sym = "stmts" /\ ItemShape(Below(0))
        /\ Below(1) \in Item /\ Below(1).sym = "stmt" /\ ItemShape(Below(1))
    BY <1>0, <2>1, TopTwo DEF StackShape
  <2>3. /\ Below(0).no \in Nat /\ Below(0).no \in DOMAIN tree \cup {0}
        /\ Below(1).no \in Nat /\ Below(1).no \in DOMAIN tree \cup {0}
    BY <2>2 DEF Item, ItemShape
  <2>4. kids \in Seq(Nat) /\ kids # <<>> /\ \A k \in DOMAIN kids : kids[k] \in DOMAIN tree \cup {0}
    BY <2>3
  <2> HIDE DEF kids
  <2> QED BY <1>0, <2>1, <2>2, <2>4, BodyKeeps
<1> QED BY <1>1, <1>2

(* The children that a closing '}' gives to its node. *)
BodyKids(kids) ==
  /\ kids \in Seq(Nat) /\ kids # <<>>
  /\ \A k \in DOMAIN kids : /\ kids[k] \in DOMAIN tree \cup {0}
                            /\ kids[k] \in DOMAIN tree
                            /\ tree[kids[k]].type \in BodyType

LEMMA InOpening ==
  ASSUME ParseInv, NEW sym, TopIs(<<sym, "stmts">>)
  PROVE  /\ 2 <= Len(stack)
         /\ Below(1).exprs \in Seq(Expr)
         /\ sym = "inFunction" => Below(1).name \in Name
         /\ BodyKids(<<Below(0).no>>)
<1>1. /\ 2 <= Len(stack)
      /\ Below(0) \in Item /\ Below(0).sym = "stmts" /\ ItemShape(Below(0))
      /\ Below(1) \in Item /\ Below(1).sym = sym /\ ItemShape(Below(1))
  BY TopTwo DEF StackShape, ParseInv, TypeOK, ParserTypeOK
<1>2. /\ Below(0).no \in Nat /\ Below(0).no \in DOMAIN tree
      /\ tree[Below(0).no].type \in BodyType
      /\ Below(1).exprs \in Seq(Expr)
      /\ sym = "inFunction" => Below(1).name \in Name
  BY <1>1 DEF Item, ItemShape
<1>3. BodyKids(<<Below(0).no>>)
  BY <1>2 DEF BodyKids
<1> QED BY <1>1, <1>2, <1>3

LEMMA ConstructKeeps ==
  ASSUME ParseInv, phase = "parse", NEW n \in Nat, n <= Len(stack),
         NEW sym \in {"stmt", "if"}, NEW type \in {"WHILE", "FUNC", "IF"},
         sym = "if" => type = "IF",
         NEW name \in Name \cup {NoName}, NEW exprs \in Seq(Expr),
         type = "FUNC" => name \in Name,
         NEW kids, BodyKids(kids),
         Reduce(n, sym, create_no(type, name, exprs, kids)),
         synames' \in Seq(Symbol), read' = read
  PROVE  ParserOutcome
<1>1. /\ kids \in Seq(Nat) /\ kids # <<>>
      /\ \A k \in DOMAIN kids : kids[k] \in DOMAIN tree \cup {0}
      /\ \A k \in DOMAIN kids : kids[k] \in DOMAIN tree /\ tree[kids[k]].type \in BodyType
  BY DEF BodyKids
<1>2. sym \in {"stmt", "stmts", "if"} /\ sym # "stmts"
  OBVIOUS
<1>3. type \in {"WHILE", "FUNC", "IF", "STMTS", "STMT"}
  OBVIOUS
<1> QED BY <1>1, <1>2, <1>3, BodyKeeps

LEMMA CloseKeeps ==
  ASSUME ParseInv, CloseWhile \/ CloseFunction \/ CloseIf \/ CloseElse \/ CloseElseIf
  PROVE  ParserOutcome
<1>0. NoName \in Name \cup {NoName} /\ <<>> \in Seq(Expr) /\ synames \in Seq(Symbol)
  BY DEF ParseInv, TypeOK
<1>1. CASE CloseWhile
  <2>1. /\ phase = "parse" /\ TopIs(<<"inWhile", "stmts">>) /\ read' = read /\ synames' = synames
        /\ Reduce(2, "stmt", create_no("WHILE", NoName, Below(1).exprs, <<Below(0).no>>))
    BY <1>1 DEF CloseWhile
  <2>2. 2 <= Len(stack) /\ Below(1).exprs \in Seq(Expr) /\ BodyKids(<<Below(0).no>>)
    BY <2>1, InOpening
  <2> QED BY <1>0, <2>1, <2>2, ConstructKeeps
<1>2. CASE CloseIf
  <2>1. /\ phase = "parse" /\ TopIs(<<"inThen", "stmts">>) /\ read' = read /\ synames' = synames
        /\ Reduce(2, "if", create_no("IF", NoName, Below(1).exprs, <<Below(0).no>>))
    BY <1>2 DEF CloseIf
  <2>2. 2 <= Len(stack) /\ Below(1).exprs \in Seq(Expr) /\ BodyKids(<<Below(0).no>>)
    BY <2>1, InOpening
  <2> QED BY <1>0, <2>1, <2>2, ConstructKeeps
<1>3. CASE CloseFunction
  <2>1. /\ phase = "parse" /\ TopIs(<<"inFunction", "stmts">>) /\ read' = read
        /\ synames' = add_symbol(synames, Below(1).name)
        /\ Reduce(2, "stmt", create_no("FUNC", Below(1).name, <<>>, <<Below(0).no>>))
    BY <1>3 DEF CloseFunction
  <2>2. 2 <= Len(stack) /\ Below(1).name \in Name /\ BodyKids(<<Below(0).no>>)
    BY <2>1, InOpening
  <2>3. synames' \in Seq(Symbol)
    BY <1>0, <2>1, <2>2, AddSymbolType
  <2> QED BY <1>0, <2>1, <2>2, <2>3, ConstructKeeps
<1>4. CASE CloseElse
  <2>1. /\ phase = "parse" /\ read' = read /\ synames' = synames
        /\ TopIs(<<"inThen", "stmts", "inElse", "stmts">>)
        /\ Reduce(4, "if", create_no("IF", NoName, Below(3).exprs,
                                     <<Below(2).no, Below(0).no>>))
    BY <1>4 DEF CloseElse
  <2>2. /\ 4 <= Len(stack)
        /\ Below(0) \in Item /\ Below(0).sym = "stmts" /\ ItemShape(Below(0))
        /\ Below(2) \in Item /\ Below(2).sym = "stmts" /\ ItemShape(Below(2))
        /\ Below(3) \in Item
    BY <2>1, TopFour DEF StackShape, ParseInv, TypeOK, ParserTypeOK
  <2>3. /\ Below(0).no \in Nat /\ Below(0).no \in DOMAIN tree
        /\ tree[Below(0).no].type \in BodyType
        /\ Below(2).no \in Nat /\ Below(2).no \in DOMAIN tree
        /\ tree[Below(2).no].type \in BodyType
        /\ Below(3).exprs \in Seq(Expr)
    BY <2>2 DEF Item, ItemShape
  <2>4. BodyKids(<<Below(2).no, Below(0).no>>)
    BY <2>3 DEF BodyKids
  <2> QED BY <1>0, <2>1, <2>2, <2>3, <2>4, ConstructKeeps
<1>5. CASE CloseElseIf
  <2>1. /\ phase = "parse" /\ read' = read /\ synames' = synames
        /\ TopIs(<<"inThen", "stmts", "if">>)
        /\ Reduce(3, "if", create_no("IF", NoName, Below(2).exprs,
                                     <<Below(1).no, Below(0).no>>))
    BY <1>5 DEF CloseElseIf
  <2>2. /\ 3 <= Len(stack)
        /\ Below(0) \in Item /\ Below(0).sym = "if" /\ ItemShape(Below(0))
        /\ Below(1) \in Item /\ Below(1).sym = "stmts" /\ ItemShape(Below(1))
        /\ Below(2) \in Item
    BY <2>1, TopThree DEF StackShape, ParseInv, TypeOK, ParserTypeOK
  <2>3. /\ Below(0).no \in Nat /\ Below(0).no \in DOMAIN tree
        /\ tree[Below(0).no].type \in BodyType
        /\ Below(1).no \in Nat /\ Below(1).no \in DOMAIN tree
        /\ tree[Below(1).no].type \in BodyType
        /\ Below(2).exprs \in Seq(Expr)
    BY <2>2 DEF Item, ItemShape
  <2>4. BodyKids(<<Below(1).no, Below(0).no>>)
    BY <2>3 DEF BodyKids
  <2> QED BY <1>0, <2>1, <2>2, <2>3, <2>4, ConstructKeeps
<1> QED BY <1>1, <1>2, <1>3, <1>4, <1>5

(* The openings, a statement of `error ';'', and an if that is a statement. *)
LEMMA MarkIsItem ==
  ASSUME NEW sym \in Opening, NEW name \in Name \cup {NoName}, NEW exprs \in Seq(Expr)
  PROVE  /\ Mark(sym, name, exprs) \in Item
         /\ Mark(sym, name, exprs).sym = sym /\ Mark(sym, name, exprs).name = name
         /\ Mark(sym, name, exprs).sym \notin {"stmt", "stmts", "if"}
<1>1. sym \notin {"stmt", "stmts", "if"}
  BY DEF Opening
<1> QED BY <1>1 DEF Mark, Item

LEMMA PushKeeps ==
  ASSUME ParseInv, phase = "parse", NEW sym \in Opening, NEW name \in Name \cup {NoName},
         NEW exprs \in Seq(Expr), sym = "inFunction" => name \in Name,
         stack' = Append(stack, Mark(sym, name, exprs)),
         UNCHANGED <<phase, tree, freed, root, synames>>, read' \in Nat
  PROVE  ParserOutcome
<1> DEFINE mark == Mark(sym, name, exprs)
<1>1. /\ Len(stack) \in 0..Len(stack) /\ SubSeq(stack, 1, Len(stack)) = stack
  BY SubSeqFull DEF ParseInv, TypeOK, ParserTypeOK
<1>2. /\ mark \in Item /\ mark.sym = sym /\ mark.name = name
      /\ mark.sym \notin {"stmt", "stmts", "if"}
  BY MarkIsItem
<1>3. stack' = Append(SubSeq(stack, 1, Len(stack)), mark)
  BY <1>1
<1> HIDE DEF mark
<1> QED BY <1>1, <1>2, <1>3, MarkKeeps

LEMMA OpenKeeps ==
  ASSUME ParseInv, OpenWhile \/ OpenIf \/ OpenFunction \/ OpenElse
  PROVE  ParserOutcome
<1>0. /\ \A c \in Cond : <<c>> \in Seq(Expr)
      /\ <<>> \in Seq(Expr) /\ NoName \in Name \cup {NoName}
      /\ {"inWhile", "inThen", "inElse", "inFunction"} \subseteq Opening
  BY ParserAssumption DEF Opening
<1>1. CASE OpenWhile
  <2>1. PICK c \in Cond : Open("WHILE", Mark("inWhile", NoName, <<c>>))
    BY <1>1 DEF OpenWhile
  <2>2. /\ phase = "parse" /\ read' \in Nat /\ stack' = Append(stack, Mark("inWhile", NoName, <<c>>))
        /\ UNCHANGED <<phase, tree, freed, root, synames>>
    BY <2>1, BeginFacts DEF Open
  <2> QED BY <1>0, <2>2, PushKeeps
<1>2. CASE OpenIf
  <2>1. PICK c \in Cond : Open("IF", Mark("inThen", NoName, <<c>>))
    BY <1>2 DEF OpenIf
  <2>2. /\ phase = "parse" /\ read' \in Nat /\ stack' = Append(stack, Mark("inThen", NoName, <<c>>))
        /\ UNCHANGED <<phase, tree, freed, root, synames>>
    BY <2>1, BeginFacts DEF Open
  <2> QED BY <1>0, <2>2, PushKeeps
<1>3. CASE OpenFunction
  <2>1. PICK f \in FuncName : Open("FUNC", Mark("inFunction", f, <<>>))
    BY <1>3 DEF OpenFunction
  <2>2. /\ phase = "parse" /\ read' \in Nat /\ stack' = Append(stack, Mark("inFunction", f, <<>>))
        /\ UNCHANGED <<phase, tree, freed, root, synames>>
    BY <2>1, BeginFacts DEF Open
  <2>3. f \in Name
    BY ParserAssumption
  <2> QED BY <1>0, <2>2, <2>3, PushKeeps
<1>4. CASE OpenElse
  <2>1. /\ phase = "parse" /\ read' = read + 1
        /\ UNCHANGED <<phase, tree, freed, root, synames>>
    BY <1>4 DEF OpenElse
  <2>2. read' \in Nat
    BY <2>1 DEF ParseInv, TypeOK, ParserTypeOK
  <2>3. \/ stack' = Append(stack, Mark("inElse", NoName, <<>>))
        \/ \E c \in Cond : stack' = Append(stack, Mark("inThen", NoName, <<c>>))
    BY <1>4, Zenon DEF OpenElse
  <2>4. CASE stack' = Append(stack, Mark("inElse", NoName, <<>>))
    BY <1>0, <2>1, <2>2, <2>4, PushKeeps
  <2>5. CASE \E c \in Cond : stack' = Append(stack, Mark("inThen", NoName, <<c>>))
    <3> PICK c \in Cond : stack' = Append(stack, Mark("inThen", NoName, <<c>>))
      BY <2>5
    <3> QED BY <1>0, <2>1, <2>2, PushKeeps
  <2> QED BY <2>3, <2>4, <2>5
<1> QED BY <1>1, <1>2, <1>3, <1>4

(* A statement that was reduced already, on a prefix of the stack. *)
LEMMA StmtItemKeeps ==
  ASSUME ParseInv, phase = "parse", NEW k \in 0..Len(stack),
         NEW no \in DOMAIN tree \cup {0},
         stack' = Append(SubSeq(stack, 1, k), Node("stmt", no)),
         UNCHANGED <<phase, tree, freed, root, synames>>, read' \in Nat
  PROVE  ParserOutcome
<1> USE DEF ParseInv, TypeOK, ParserTypeOK
<1>1. SubSeq(stack, 1, k) \in Seq(Item) /\ Len(SubSeq(stack, 1, k)) = k
  BY SubSeqProperties
<1>2. Node("stmt", no) \in Item /\ ItemShape(Node("stmt", no))
  BY DEF Node, Item, ItemShape
<1>3. StackShape'
  <2> SUFFICES ASSUME NEW j \in DOMAIN stack' PROVE ItemShape(stack'[j])
    BY DEF StackShape, ItemShape
  <2>1. CASE j = k + 1
    BY <1>1, <1>2, <2>1
  <2>2. CASE j # k + 1
    <3>1. j \in DOMAIN stack /\ stack'[j] = stack[j]
      BY <1>1, <2>2
    <3> QED BY <3>1 DEF StackShape
  <2> QED BY <2>1, <2>2
<1> QED BY <1>1, <1>2, <1>3 DEF ParserOutcome, TreeShape, RootShape

LEMMA StmtErrorKeeps == ASSUME ParseInv, StmtError PROVE ParserOutcome
<1>1. PICK k \in 0..Len(stack) :
        /\ phase = "parse" /\ read' = read + 1
        /\ stack' = Append(SubSeq(stack, 1, k), Node("stmt", 0))
        /\ UNCHANGED <<phase, tree, freed, root, synames>>
  BY DEF StmtError
<1>2. read' \in Nat
  BY <1>1 DEF ParseInv, TypeOK, ParserTypeOK
<1> QED BY <1>1, <1>2, StmtItemKeeps

LEMMA StmtIfKeeps == ASSUME ParseInv, StmtIf PROVE ParserOutcome
<1>1. /\ phase = "parse" /\ TopIs(<<"if">>) /\ read' = read
      /\ stack' = Append(SubSeq(stack, 1, Len(stack) - 1), Node("stmt", Below(0).no))
      /\ UNCHANGED <<phase, tree, freed, root, synames>>
  BY DEF StmtIf, Pop
<1>2. 1 <= Len(stack) /\ Below(0).sym = "if" /\ ItemShape(Below(0)) /\ read \in Nat
  BY <1>1, TopOne DEF ParseInv, TypeOK, ParserTypeOK, StackShape
<1>3. Below(0).no \in DOMAIN tree
  BY <1>2 DEF ItemShape
<1>4. Len(stack) - 1 \in 0..Len(stack)
  BY <1>2 DEF ParseInv, TypeOK, ParserTypeOK
<1> QED BY <1>1, <1>2, <1>3, <1>4, StmtItemKeeps

LEMMA EndKeeps == ASSUME ParseInv, Accept \/ Reject PROVE ParserOutcome
<1> USE DEF ParseInv, TypeOK, ParserTypeOK
<1>1. CASE Accept
  <2>1. /\ TopIs(<<"stmts">>) /\ phase' = "collapse" /\ root' = Below(0).no /\ stack' = <<>>
        /\ UNCHANGED <<tree, freed, read, synames>>
    BY <1>1 DEF Accept
  <2>2. Below(0) \in Item /\ Below(0).sym = "stmts" /\ ItemShape(Below(0))
    BY <2>1, TopOne DEF StackShape
  <2>3. /\ root' \in Nat /\ root' \in DOMAIN tree' /\ tree'[root'].type \in ListType
    BY <2>1, <2>2 DEF Item, ItemShape
  <2>4. stack' \in Seq(Item) /\ StackShape'
    BY <2>1 DEF StackShape
  <2>5. TreeShape'
    BY <2>1 DEF TreeShape
  <2> QED BY <2>1, <2>3, <2>4, <2>5 DEF ParserOutcome, RootShape
<1>2. CASE Reject
  BY <1>2 DEF Reject, ParserOutcome, TreeShape, StackShape, ItemShape, RootShape
<1> QED BY <1>1, <1>2

LEMMA ParserStepKeeps ==
  ASSUME ParseInv, ParserStep
  PROVE  ParseInv' /\ phase' \in {"parse", "collapse", "rejected"} /\ phase = "parse"
<1>1. ParserOutcome
  <2>1. {"PRNT", "CALL"} \subseteq {"PRNT", "CALL"} /\ FuncName \in SUBSET Name /\ Name \in SUBSET Name
    BY ParserAssumption
  <2> QED BY <2>1, StmtAttrKeeps, StmtNamedKeeps, StmtOutKeeps, StmtDelayKeeps, StmtErrorKeeps,
             OpenKeeps, ListKeeps, CloseKeeps, StmtIfKeeps, EndKeeps DEF ParserStep, Parse
<1>2. phase = "parse"
  BY DEF ParserStep, Parse, StmtAttr, StmtNamed, StmtOut, StmtDelay, StmtError, Begin, Open,
         OpenWhile, OpenIf, OpenFunction, OpenElse, ReduceLast, ReduceStmts, CloseWhile,
         CloseFunction, CloseIf, CloseElse, CloseElseIf, StmtIf, Accept, Reject
<1>3. UNCHANGED <<semanticVars, codegenVars>>
  BY DEF ParserStep
<1>4. TypeOK'
  BY <1>1, <1>3 DEF ParserOutcome, ParseInv, TypeOK, ParserTypeOK, SemanticTypeOK,
        CodegenTypeOK, semanticVars, codegenVars, Phase
<1>5. FramesShape'
  <2>1. frames' = frames
    BY <1>3 DEF semanticVars
  <2>2. \A n \in DOMAIN tree : n \in DOMAIN tree' /\ tree'[n] = tree[n]
    BY <1>1 DEF ParserOutcome
  <2> QED BY <2>1, <2>2 DEF ParseInv, FramesShape
<1> QED BY <1>1, <1>2, <1>4, <1>5 DEF ParserOutcome, ParseInv

-----------------------------------------------------------------------------
(* The passes.                                                              *)

LEMMA UpTo == ASSUME NEW n \in Nat, NEW S \in SUBSET (1..n) PROVE IsFiniteSet(S)
<1>1. 1 \in Int /\ n \in Int
  OBVIOUS
<1>2. IsFiniteSet(1..n)
  BY <1>1, FS_Interval
<1> QED BY <1>2, FS_Subset

(* The errors of one node are a number: there are finitely many reads.      *)
ErrorReads(node) == UNION {{j} \X UndeclaredReads(node.exprs[j]) : j \in Checked(node)}

LEMMA ErrorsFinite == ASSUME NEW node \in NodeRec PROVE IsFiniteSet(ErrorReads(node))
<1> DEFINE S(j) == {j} \X UndeclaredReads(node.exprs[j])
           T == {S(j) : j \in Checked(node)}
           f == [j \in Checked(node) |-> S(j)]
<1>1. node.exprs \in Seq(Expr)
  BY DEF NodeRec
<1>2. Len(node.exprs) \in Nat /\ Checked(node) \subseteq 1..Len(node.exprs)
  <2>1. Checked(node) = {} \/ Checked(node) = DOMAIN node.exprs
    BY Zenon DEF Checked
  <2> QED BY <1>1, <2>1
<1>3. IsFiniteSet(Checked(node))
  BY <1>2, UpTo
<1>4. ASSUME NEW j \in Checked(node) PROVE IsFiniteSet(S(j))
  <2>1. node.exprs[j] \in Expr
    BY <1>1, <1>2
  <2>2. Reads[node.exprs[j]] \in Seq(Name) /\ Len(Reads[node.exprs[j]]) \in Nat
    BY <2>1, ExprAssumption
  <2>3. UndeclaredReads(node.exprs[j]) \subseteq 1..Len(Reads[node.exprs[j]])
    BY <2>2 DEF UndeclaredReads
  <2>4. IsFiniteSet(UndeclaredReads(node.exprs[j]))
    BY <2>2, <2>3, UpTo
  <2>5. IsFiniteSet({j})
    BY FS_Singleton
  <2> QED BY <2>4, <2>5, FS_Product
<1>5. f \in Surjection(Checked(node), T)
  BY DEF Surjection
<1>6. IsFiniteSet(T)
  BY <1>3, <1>5, FS_Surjection
<1>7. IsFiniteSet(UNION T)
  BY <1>4, <1>6, FS_UNION
<1> QED BY <1>7 DEF ErrorReads

LEMMA ErrorsType == ASSUME NEW node \in NodeRec PROVE Errors(node) \in Nat
BY ErrorsFinite, FS_CardinalityType DEF Errors, ErrorReads

-----------------------------------------------------------------------------
(* A step of the passes may replace nodes if types and slots survive.       *)
NodesKept == \A n \in DOMAIN tree :
  /\ n \in DOMAIN tree' /\ tree'[n].type = tree[n].type
  /\ Len(tree[n].kids) <= Len(tree'[n].kids)

LEMMA ShapesKept ==
  ASSUME NodesKept
  PROVE  /\ \A node \in NodeRec : NodeShape(tree, node) => NodeShape(tree', node)
         /\ stack' = stack /\ StackShape => StackShape'
<1>1. ASSUME NEW node \in NodeRec, NodeShape(tree, node) PROVE NodeShape(tree', node)
  BY <1>1 DEF NodeShape, NodesKept
<1>2. ASSUME stack' = stack, StackShape PROVE StackShape'
  BY <1>2 DEF StackShape, ItemShape, NodesKept
<1> QED BY <1>1, <1>2

(* What a step of the passes has to show of the variables it may change.    *)
PassOutcome ==
  /\ tree' \in Seq(NodeRec) /\ NodesKept /\ TreeShape'
  /\ root' \in Nat /\ RootShape'
  /\ freed' \subseteq Nat /\ synames' \in Seq(Symbol)
  /\ phase' \in {"collapse", "declare", "exit", "setup", "fault"}
  /\ SemanticTypeOK' /\ FramesShape'

PassPhase == phase \in {"collapse", "declare"}

LEMMA RootIsList ==
  ASSUME ParseInv, PassPhase
  PROVE  root \in DOMAIN tree /\ tree[root].type \in ListType
BY DEF ParseInv, RootShape, PassPhase

(* The steps that leave the tree alone. *)
LEMMA SameTreeKeeps ==
  ASSUME ParseInv, PassPhase, UNCHANGED <<tree, freed, root>>,
         synames' \in Seq(Symbol),
         phase' \in {"collapse", "declare", "exit", "setup", "fault"},
         SemanticTypeOK', FramesShape'
  PROVE  PassOutcome
<1>1. NodesKept /\ tree' \in Seq(NodeRec)
  <2>1. \A n \in DOMAIN tree : Len(tree[n].kids) \in Nat
    BY DEF ParseInv, TypeOK, NodeRec
  <2> QED BY <2>1 DEF NodesKept, ParseInv, TypeOK
<1>2. TreeShape' /\ RootShape'
  BY RootIsList DEF ParseInv, TreeShape, RootShape
<1> QED BY <1>1, <1>2 DEF PassOutcome, ParseInv, TypeOK

LEMMA EnterKeeps ==
  ASSUME ParseInv, PassPhase, NEW no \in DOMAIN tree, Enter(no),
         frames # <<>> => Top.i \in DOMAIN tree[Top.r].kids
  PROVE  PassOutcome
<1>0. /\ frames \in Seq(Frame) /\ error_count \in Nat
      /\ synames \in Seq(Symbol) /\ tree \in Seq(NodeRec) /\ FramesShape
  BY DEF ParseInv, TypeOK, SemanticTypeOK
<1>1. /\ frames' = Append(frames, [r |-> no, i |-> 1])
      /\ UNCHANGED <<phase, tree, freed, root, synames>>
      /\ error_count' = error_count + (IF phase = "declare" THEN Errors(tree[no]) ELSE 0)
  BY DEF Enter
<1>2. error_count' \in Nat
  <2>1. tree[no] \in NodeRec
    BY <1>0
  <2>2. Errors(tree[no]) \in Nat
    BY <2>1, ErrorsType
  <2> QED BY <1>0, <1>1, <2>2
<1>3. [r |-> no, i |-> 1] \in Frame /\ no \in Nat
  BY <1>0 DEF Frame
<1>4. SemanticTypeOK'
  BY <1>0, <1>1, <1>2, <1>3 DEF SemanticTypeOK
<1>5. FramesShape'
  <2> SUFFICES ASSUME NEW k \in DOMAIN frames'
               PROVE  /\ frames'[k].r \in DOMAIN tree
                      /\ k < Len(frames') => frames'[k].i \in DOMAIN tree[frames'[k].r].kids
    BY <1>1 DEF FramesShape
  <2>1. CASE k = Len(frames) + 1
    BY <1>0, <1>1, <2>1
  <2>2. CASE k = Len(frames) /\ frames # <<>>
    <3>1. frames'[k] = Last(frames) /\ frames'[k] = frames[k] /\ k \in DOMAIN frames
      BY <1>0, <1>1, <2>2 DEF Last
    <3> QED BY <1>0, <3>1 DEF Top, FramesShape
  <2>3. CASE k < Len(frames)
    <3>1. frames'[k] = frames[k] /\ k \in DOMAIN frames
      BY <1>0, <1>1, <2>3
    <3> QED BY <1>0, <2>3, <3>1 DEF FramesShape
  <2> QED BY <1>0, <1>1, <2>1, <2>2, <2>3
<1> QED BY <1>0, <1>1, <1>4, <1>5, SameTreeKeeps DEF PassPhase

LEMMA WildKeeps == ASSUME ParseInv, PassPhase, NEW no, Wild(no) PROVE PassOutcome
<1>1. /\ phase' = "fault"
      /\ UNCHANGED <<tree, freed, root, synames, frames, error_count>>
  BY DEF Wild
<1>2. SemanticTypeOK' /\ FramesShape' /\ synames' \in Seq(Symbol)
  BY <1>1 DEF ParseInv, TypeOK, SemanticTypeOK, FramesShape
<1> QED BY <1>1, <1>2, SameTreeKeeps

LEMMA VisitKeeps == ASSUME ParseInv, VisitRoot \/ VisitKid PROVE PassOutcome
<1>1. CASE VisitRoot
  <2>1. PassPhase /\ frames = <<>> /\ (Enter(root) \/ Wild(root))
    BY <1>1 DEF VisitRoot, PassPhase
  <2> QED BY <2>1, RootIsList, EnterKeeps, WildKeeps
<1>2. CASE VisitKid
  <2>1. /\ PassPhase /\ frames # <<>> /\ Top.i <= Len(tree[Top.r].kids)
        /\ (Enter(Kid) \/ Wild(Kid))
    BY <1>2 DEF VisitKid, Visiting, MoreKids, PassPhase
  <2>2. Top \in Frame /\ Top.r \in DOMAIN tree
    BY <2>1 DEF Top, Last, FramesShape, ParseInv, TypeOK, SemanticTypeOK
  <2>3. tree[Top.r] \in NodeRec /\ NodeShape(tree, tree[Top.r])
    BY <2>2 DEF ParseInv, TypeOK, TreeShape
  <2>4. Top.i \in DOMAIN tree[Top.r].kids
    BY <2>1, <2>2, <2>3 DEF Frame, NodeRec
  <2>5. Kid \in DOMAIN tree \cup {0}
    BY <2>3, <2>4 DEF Kid, NodeShape
  <2>6. CASE Enter(Kid)
    <3>1. Kid \in DOMAIN tree
      BY <2>5, <2>6 DEF Enter
    <3> QED BY <2>1, <2>4, <2>6, <3>1, EnterKeeps
  <2> QED BY <2>1, <2>6, WildKeeps
<1> QED BY <1>1, <1>2

-----------------------------------------------------------------------------
(* The return of a call: act gets a child of the caller's node.             *)
LEMMA ActOnIsKid ==
  ASSUME ParseInv, Returns
  PROVE  /\ PassPhase /\ Caller \in Frame /\ Caller.r \in DOMAIN tree
         /\ ActOn \in Nat
         /\ frames \in Seq(Frame) /\ Len(frames) > 1
<1>1. PassPhase /\ Len(frames) > 1 /\ frames \in Seq(Frame) /\ FramesShape
      /\ tree \in Seq(NodeRec)
  BY DEF Returns, Visiting, PassPhase, ParseInv, TypeOK, SemanticTypeOK
<1>2. Len(frames) - 1 \in DOMAIN frames /\ Len(frames) - 1 < Len(frames)
  BY <1>1
<1>3. Caller \in Frame /\ Caller.r \in DOMAIN tree /\ Caller.i \in DOMAIN tree[Caller.r].kids
  BY <1>1, <1>2 DEF Caller, FramesShape
<1>4. tree[Caller.r].kids \in Seq(Nat)
  <2>1. tree[Caller.r] \in NodeRec
    BY <1>1, <1>3
  <2> QED BY <2>1 DEF NodeRec
<1>5. ActOn \in Nat
  BY <1>3, <1>4 DEF ActOn
<1> QED BY <1>1, <1>3, <1>5

LEMMA Before == ASSUME NEW n \in Nat, n > 1 PROVE n - 1 \in Nat \ {0} /\ n - 1 < n
OBVIOUS

LEMMA TwoBefore ==
  ASSUME NEW n \in Nat, n > 1, n - 1 # 1 PROVE (n - 1) - 1 \in 1..n /\ (n - 1) - 1 < n
OBVIOUS

LEMMA ResumeKeeps ==
  ASSUME ParseInv, Returns, Resume, NodesKept, tree' \in Seq(NodeRec),
         error_count' = error_count
  PROVE  SemanticTypeOK' /\ FramesShape'
<1>1. /\ PassPhase /\ ActOn \in Nat /\ frames \in Seq(Frame) /\ Len(frames) > 1
      /\ error_count \in Nat /\ FramesShape
      /\ tree \in Seq(NodeRec)
  BY ActOnIsKid DEF ParseInv, TypeOK, SemanticTypeOK
<1> DEFINE d == Len(frames) - 1
           below == SubSeq(frames, 1, d)
<1>2. frames' = [below EXCEPT ![d].i = @ + 1]
  BY DEF Resume
<1>3. below \in Seq(Frame) /\ Len(below) = d /\ d \in Nat \ {0}
      /\ \A k \in 1..d : below[k] = frames[k]
  <2>0. Len(frames) \in Nat /\ Len(frames) > 1
    BY <1>1
  <2>1. d \in Nat \ {0} /\ d < Len(frames)
    BY <2>0, Before
  <2> HIDE DEF d
  <2>2. below \in Seq(Frame) /\ Len(below) = d
    BY <1>1, <2>1, SubSeqProperties
  <2>3. \A k \in 1..d : below[k] = frames[k]
    BY <1>1, <2>1
  <2> QED BY <2>1, <2>2, <2>3
<1>4. /\ frames' \in Seq(Frame) /\ Len(frames') = d
      /\ \A k \in 1..d : /\ frames'[k] \in Frame /\ frames'[k].r = frames[k].r
                         /\ k < d => frames'[k].i = frames[k].i
  <2>1. \A f \in Frame : [f EXCEPT !.i = @ + 1] \in Frame /\ [f EXCEPT !.i = @ + 1].r = f.r
    BY DEF Frame
  <2>2. frames' = [below EXCEPT ![d] = [below[d] EXCEPT !.i = @ + 1]]
    BY <1>2, <1>3
  <2> HIDE DEF d, below
  <2>3. below[d] \in Frame
    BY <1>3
  <2>4. frames' \in Seq(Frame) /\ Len(frames') = d
    BY <1>3, <2>1, <2>2, <2>3
  <2>5. \A k \in 1..d : k < d => frames'[k] = frames[k]
    BY <1>3, <2>2
  <2>6. frames'[d].r = frames[d].r
    BY <1>3, <2>1, <2>2, <2>3
  <2>7. \A k \in 1..d : frames'[k] \in Frame
    BY <2>4
  <2> QED BY <2>4, <2>5, <2>6, <2>7
<1>5. FramesShape'
  <2>0. DOMAIN frames' = 1..d /\ Len(frames') = d
    BY <1>4
  <2> HIDE DEF d, below
  <2> SUFFICES ASSUME NEW k \in 1..d
               PROVE  /\ frames'[k].r \in DOMAIN tree'
                      /\ k < d => frames'[k].i \in DOMAIN tree'[frames'[k].r].kids
    BY <2>0, Zenon DEF FramesShape
  <2>1. k \in DOMAIN frames /\ k < Len(frames)
    BY <1>1 DEF d
  <2>2. /\ frames[k].r \in DOMAIN tree
        /\ frames[k].i \in DOMAIN tree[frames[k].r].kids
    BY <1>1, <2>1 DEF FramesShape
  <2>3. /\ frames[k].r \in DOMAIN tree'
        /\ Len(tree[frames[k].r].kids) <= Len(tree'[frames[k].r].kids)
    BY <2>2 DEF NodesKept
  <2>4. tree[frames[k].r] \in NodeRec /\ tree'[frames[k].r] \in NodeRec
    BY <1>1, <2>2, <2>3
  <2>5. tree[frames[k].r].kids \in Seq(Nat) /\ tree'[frames[k].r].kids \in Seq(Nat)
    BY <2>4 DEF NodeRec
  <2>6. frames[k].i \in DOMAIN tree'[frames[k].r].kids
    BY <2>2, <2>3, <2>5
  <2>7. frames'[k].r = frames[k].r /\ (k < d => frames'[k].i = frames[k].i)
    BY <1>4
  <2> QED BY <2>3, <2>6, <2>7
<1>6. SemanticTypeOK'
  BY <1>1, <1>2, <1>4 DEF SemanticTypeOK
<1> QED BY <1>5, <1>6

LEMMA NoGraftKeeps == ASSUME ParseInv, NoGraft \/ Declare PROVE PassOutcome
<1>1. Returns /\ Resume /\ UNCHANGED <<phase, tree, freed, root, error_count>>
  BY DEF NoGraft, Declare
<1>2. synames' \in Seq(Symbol)
  <2>1. synames \in Seq(Symbol)
    BY DEF ParseInv, TypeOK
  <2>2. CASE synames' = synames
    BY <2>1, <2>2
  <2>3. CASE \E s \in DOMAIN synames : synames' = [synames EXCEPT ![s].exists = TRUE]
    <3> PICK s \in DOMAIN synames : synames' = [synames EXCEPT ![s].exists = TRUE]
      BY <2>3
    <3>1. \A y \in Symbol : [y EXCEPT !.exists = TRUE] \in Symbol
      BY DEF Symbol
    <3>2. synames' = [synames EXCEPT ![s] = [synames[s] EXCEPT !.exists = TRUE]]
      BY <2>1
    <3>3. [synames[s] EXCEPT !.exists = TRUE] \in Symbol
      BY <2>1, <3>1
    <3> QED BY <2>1, <3>2, <3>3
  <2>4. search_symbol(synames, tree[ActOn].name) \in DOMAIN synames \cup {0}
    BY DEF search_symbol, Found
  <2>5. synames' = synames \/ \E s \in DOMAIN synames : synames' = [synames EXCEPT ![s].exists = TRUE]
    <3>1. CASE NoGraft
      BY <3>1 DEF NoGraft
    <3>2. CASE Declare
      BY <2>4, <3>2 DEF Declare
    <3> QED BY <3>1, <3>2
  <2> QED BY <2>2, <2>3, <2>5
<1>3. PassPhase /\ tree' \in Seq(NodeRec) /\ NodesKept
  <2>1. \A n \in DOMAIN tree : Len(tree[n].kids) \in Nat
    BY DEF ParseInv, TypeOK, NodeRec
  <2> QED BY <1>1, <2>1, ActOnIsKid DEF NodesKept, ParseInv, TypeOK
<1>4. SemanticTypeOK' /\ FramesShape'
  BY <1>1, <1>3, ResumeKeeps
<1> QED BY <1>1, <1>2, <1>3, <1>4, SameTreeKeeps DEF PassPhase

LEMMA GraftedSeq ==
  ASSUME NEW s \in Seq(Nat), NEW front \in Seq(Nat), NEW t \in Seq(Nat), t # <<>>,
         Len(s) = Len(front) + 1, \A k \in 1..Len(front) : front[k] = s[k]
  PROVE  /\ front \o t \in Seq(Nat) /\ front \o t # <<>> /\ Len(s) <= Len(front \o t)
         /\ \A k \in DOMAIN (front \o t) :
              \/ \E j \in DOMAIN s : (front \o t)[k] = s[j]
              \/ \E j \in DOMAIN t : (front \o t)[k] = t[j]
<1> DEFINE g == front \o t
           n == Len(front)
<1>1. n \in Nat /\ Len(t) \in Nat /\ 1 <= Len(t)
  OBVIOUS
<1>2. /\ g \in Seq(Nat) /\ Len(g) = n + Len(t)
      /\ \A k \in 1..n + Len(t) : g[k] = IF k <= n THEN front[k] ELSE t[k - n]
  OBVIOUS
<1> HIDE DEF g
<1>3. ASSUME NEW k \in DOMAIN g
      PROVE  \/ \E j \in DOMAIN s : g[k] = s[j]
             \/ \E j \in DOMAIN t : g[k] = t[j]
  <2>1. k \in 1..n + Len(t)
    BY <1>2
  <2>2. CASE k <= n
    <3>0. k \in 1..n
      BY <1>1, <2>1, <2>2
    <3>0a. g[k] = IF k <= n THEN front[k] ELSE t[k - n]
      BY <1>2, <2>1
    <3>1. k \in 1..n /\ g[k] = front[k]
      BY <2>2, <3>0, <3>0a
    <3>2. k \in DOMAIN s
      BY <1>1, <3>1
    <3>3. front[k] = s[k]
      BY <3>1
    <3> QED BY <3>1, <3>2, <3>3
  <2>3. CASE k > n
    <3>0. k \in Nat /\ ~(k <= n) /\ k - n \in 1..Len(t)
      BY <1>1, <2>1, <2>3
    <3>0a. g[k] = IF k <= n THEN front[k] ELSE t[k - n]
      BY <1>2, <2>1
    <3>1. k - n \in DOMAIN t /\ g[k] = t[k - n]
      BY <3>0, <3>0a
    <3> QED BY <3>1
  <2> QED BY <1>1, <2>1, <2>2, <2>3
<1>4. g # <<>> /\ Len(s) <= Len(g)
  BY <1>1, <1>2
<1> QED BY <1>2, <1>3, <1>4 DEF g

LEMMA FrontSeq ==
  ASSUME NEW s \in Seq(Nat), s # <<>>
  PROVE  /\ SubSeq(s, 1, Len(s) - 1) \in Seq(Nat)
         /\ Len(s) = Len(SubSeq(s, 1, Len(s) - 1)) + 1
         /\ \A k \in 1..Len(SubSeq(s, 1, Len(s) - 1)) : SubSeq(s, 1, Len(s) - 1)[k] = s[k]
<1> DEFINE n == Len(s) - 1
<1>1. n \in Nat /\ n <= Len(s) /\ Len(s) = n + 1
  OBVIOUS
<1> HIDE DEF n
<1>2. /\ SubSeq(s, 1, n) \in Seq(Nat) /\ Len(SubSeq(s, 1, n)) = n
      /\ \A k \in 1..n : SubSeq(s, 1, n)[k] = s[k]
  BY <1>1, SubSeqProperties
<1> QED BY <1>1, <1>2 DEF n

(* The node that realloc and the copy of the children leave.                *)
LEMMA GraftedNode ==
  ASSUME ParseInv, Grafts
  PROVE  /\ ActRoot \in DOMAIN tree /\ ActOn \in DOMAIN tree
         /\ Grafted \in NodeRec /\ Grafted.type = "STMTS"
         /\ tree[ActRoot].type = "STMTS"
         /\ NodeShape(tree, Grafted)
         /\ Len(tree[ActRoot].kids) <= Len(Grafted.kids)
<1> DEFINE p == tree[ActRoot]
           c == tree[ActOn]
<1>1. /\ ActRoot \in DOMAIN tree /\ ActOn \in DOMAIN tree
      /\ p.type = "STMTS" /\ c.type = "STMTS"
  BY DEF Grafts
<1>2. /\ p \in NodeRec /\ c \in NodeRec /\ NodeShape(tree, p) /\ NodeShape(tree, c)
  BY <1>1 DEF ParseInv, TypeOK, TreeShape
<1>3. Grafted = [p EXCEPT !.kids = SubSeq(p.kids, 1, Len(p.kids) - 1) \o c.kids]
  BY DEF Grafted, Front
<1> HIDE DEF p, c
<1>4. /\ p.kids \in Seq(Nat) /\ c.kids \in Seq(Nat) /\ p.kids # <<>> /\ c.kids # <<>>
  BY <1>1, <1>2 DEF NodeRec, NodeShape, BodyType, ListType
<1> DEFINE front == SubSeq(p.kids, 1, Len(p.kids) - 1)
           g == front \o c.kids
<1>a. /\ front \in Seq(Nat) /\ Len(p.kids) = Len(front) + 1
      /\ \A k \in 1..Len(front) : front[k] = p.kids[k]
  BY <1>4, FrontSeq
<1> HIDE DEF front
<1>5. /\ g \in Seq(Nat) /\ g # <<>> /\ Len(p.kids) <= Len(g)
      /\ \A k \in DOMAIN g : \/ \E j \in DOMAIN p.kids : g[k] = p.kids[j]
                             \/ \E j \in DOMAIN c.kids : g[k] = c.kids[j]
  BY <1>4, <1>a, GraftedSeq
<1>6. Grafted = [p EXCEPT !.kids = g]
  BY <1>3, Zenon DEF front
<1> HIDE DEF g
<1>7. /\ Grafted \in NodeRec /\ Grafted.type = "STMTS" /\ Grafted.kids = g
  BY <1>1, <1>2, <1>5, <1>6 DEF NodeRec
<1>8. Len(p.kids) <= Len(Grafted.kids) /\ Grafted.kids # <<>>
  BY <1>5, <1>7
<1>9. \A k \in DOMAIN Grafted.kids : Grafted.kids[k] \in DOMAIN tree \cup {0}
  BY <1>2, <1>5, <1>7 DEF NodeShape
<1>10. NodeShape(tree, Grafted)
  BY <1>7, <1>8, <1>9 DEF NodeShape, BodyType, ListType, NamedType
<1> QED BY <1>1, <1>7, <1>8, <1>10 DEF p

LEMMA GraftInPlaceKeeps == ASSUME ParseInv, GraftInPlace PROVE PassOutcome
<1>1. /\ Returns /\ phase = "collapse" /\ Grafts /\ Resume
      /\ tree' = [tree EXCEPT ![ActRoot] = Grafted]
      /\ freed' = freed \cup {ActOn}
      /\ UNCHANGED <<phase, root, synames, error_count>>
  BY DEF GraftInPlace
<1>2. /\ ActRoot \in DOMAIN tree /\ ActOn \in Nat
      /\ Grafted \in NodeRec /\ Grafted.type = "STMTS" /\ tree[ActRoot].type = "STMTS"
      /\ NodeShape(tree, Grafted)
      /\ Len(tree[ActRoot].kids) <= Len(Grafted.kids)
      /\ tree \in Seq(NodeRec)
  BY <1>1, GraftedNode, ActOnIsKid DEF ParseInv, TypeOK
<1>3. tree' \in Seq(NodeRec) /\ DOMAIN tree' = DOMAIN tree
  BY <1>1, <1>2
<1>4. NodesKept
  <2>1. \A n \in DOMAIN tree : Len(tree[n].kids) \in Nat
    BY <1>2 DEF NodeRec
  <2> QED BY <1>1, <1>2, <1>3, <2>1 DEF NodesKept
<1>5. TreeShape'
  <2>1. \A node \in NodeRec : NodeShape(tree, node) => NodeShape(tree', node)
    BY <1>3, <1>4, ShapesKept
  <2>2. \A n \in DOMAIN tree' : tree'[n] \in NodeRec /\ NodeShape(tree, tree'[n])
    BY <1>1, <1>2, <1>3 DEF ParseInv, TreeShape
  <2> QED BY <2>1, <2>2 DEF TreeShape
<1>6. SemanticTypeOK' /\ FramesShape'
  BY <1>1, <1>3, <1>4, ResumeKeeps
<1>7. RootShape'
  BY <1>1, <1>4, RootIsList DEF RootShape, NodesKept, PassPhase
<1> QED BY <1>1, <1>2, <1>3, <1>4, <1>5, <1>6, <1>7 DEF PassOutcome, ParseInv, TypeOK

LEMMA SetKidNode ==
  ASSUME NEW node \in NodeRec, NEW i \in DOMAIN node.kids, NEW m \in Nat
  PROVE  /\ SetKid(node, i, m) \in NodeRec
         /\ SetKid(node, i, m).type = node.type
         /\ SetKid(node, i, m).name = node.name
         /\ SetKid(node, i, m).kids = [node.kids EXCEPT ![i] = m]
         /\ Len(SetKid(node, i, m).kids) = Len(node.kids) /\ Len(node.kids) \in Nat
         /\ DOMAIN SetKid(node, i, m).kids = DOMAIN node.kids
<1>1. node.kids \in Seq(Nat)
  BY DEF NodeRec
<1> DEFINE kids == [node.kids EXCEPT ![i] = m]
<1>2. /\ kids \in Seq(Nat) /\ Len(kids) = Len(node.kids) /\ Len(node.kids) \in Nat
      /\ DOMAIN kids = DOMAIN node.kids
  BY <1>1, ExceptSeq
<1>3. SetKid(node, i, m) = [node EXCEPT !.kids = kids]
  BY Zenon DEF SetKid
<1> HIDE DEF kids
<1>4. /\ SetKid(node, i, m) \in NodeRec
      /\ SetKid(node, i, m).type = node.type
      /\ SetKid(node, i, m).name = node.name
      /\ SetKid(node, i, m).kids = kids
  BY <1>2, <1>3 DEF NodeRec
<1> QED BY <1>2, <1>4 DEF kids

(* The caller's slot gets the new address, and the node goes there.         *)
LEMMA MovedTree ==
  ASSUME ParseInv, NEW m, m = Len(tree) + 1, NEW node \in NodeRec,
         NodeShape(tree, node), node.type = "STMTS",
         NEW r \in DOMAIN tree, NEW i \in DOMAIN tree[r].kids,
         tree' = Append([tree EXCEPT ![r] = SetKid(@, i, m)], node)
  PROVE  tree' \in Seq(NodeRec) /\ NodesKept /\ TreeShape'
<1> DEFINE mid == [tree EXCEPT ![r] = SetKid(tree[r], i, m)]
<1>1. tree \in Seq(NodeRec) /\ m \in Nat /\ tree[r] \in NodeRec
  BY DEF ParseInv, TypeOK
<1>2. /\ SetKid(tree[r], i, m) \in NodeRec
      /\ SetKid(tree[r], i, m).type = tree[r].type
      /\ SetKid(tree[r], i, m).name = tree[r].name
      /\ SetKid(tree[r], i, m).kids = [tree[r].kids EXCEPT ![i] = m]
      /\ Len(SetKid(tree[r], i, m).kids) = Len(tree[r].kids)
      /\ DOMAIN SetKid(tree[r], i, m).kids = DOMAIN tree[r].kids
  BY <1>1, SetKidNode
<1>3. mid \in Seq(NodeRec) /\ Len(mid) = Len(tree) /\ DOMAIN mid = DOMAIN tree
      /\ \A n \in DOMAIN tree : mid[n] = IF n = r THEN SetKid(tree[r], i, m) ELSE tree[n]
  BY <1>1, <1>2
<1>4. tree' = Append(mid, node)
  OBVIOUS
<1> HIDE DEF mid
<1>5. /\ tree' \in Seq(NodeRec) /\ DOMAIN tree' = DOMAIN tree \cup {m}
      /\ tree'[m] = node /\ \A n \in DOMAIN tree : tree'[n] = mid[n]
  BY <1>1, <1>3, <1>4
<1>6. NodesKept
  <2>1. \A n \in DOMAIN tree : Len(tree[n].kids) \in Nat
    BY <1>1 DEF NodeRec
  <2> QED BY <1>2, <1>3, <1>5, <2>1 DEF NodesKept
<1>7. \A x \in NodeRec : NodeShape(tree, x) => NodeShape(tree', x)
  BY <1>6, ShapesKept
<1>8. NodeShape(tree', SetKid(tree[r], i, m))
  <2>1. NodeShape(tree', tree[r])
    BY <1>1, <1>7 DEF ParseInv, TreeShape
  <2>2. m \in DOMAIN tree' /\ tree'[m].type \in BodyType
    BY <1>5 DEF BodyType, ListType
  <2>3. \A k \in DOMAIN tree[r].kids :
          SetKid(tree[r], i, m).kids[k] \in {tree[r].kids[k], m}
    BY <1>1, <1>2 DEF NodeRec
  <2>4. tree[r].kids # <<>> => SetKid(tree[r], i, m).kids # <<>>
    <3>1. tree[r].kids \in Seq(Nat) /\ SetKid(tree[r], i, m).kids \in Seq(Nat)
      BY <1>1, <1>2 DEF NodeRec
    <3> QED BY <1>2, <3>1
  <2> QED BY <1>2, <2>1, <2>2, <2>3, <2>4 DEF NodeShape
<1>9. TreeShape'
  <2> SUFFICES ASSUME NEW n \in DOMAIN tree' PROVE NodeShape(tree', tree'[n])
    BY DEF TreeShape
  <2>1. CASE n = m
    BY <1>5, <1>7, <2>1
  <2>2. CASE n = r
    BY <1>3, <1>5, <1>8, <2>2
  <2>3. CASE n \in DOMAIN tree /\ n # r
    <3>1. tree'[n] = tree[n] /\ tree[n] \in NodeRec /\ NodeShape(tree, tree[n])
      BY <1>1, <1>3, <1>5, <2>3 DEF ParseInv, TreeShape
    <3> QED BY <1>7, <3>1
  <2> QED BY <1>5, <2>1, <2>2, <2>3
<1> QED BY <1>5, <1>6, <1>9

(* When the caller was itself called for the root there is no slot above.   *)
LEMMA MovedRoot ==
  ASSUME ParseInv, NEW node \in NodeRec, NodeShape(tree, node), tree' = Append(tree, node)
  PROVE  tree' \in Seq(NodeRec) /\ NodesKept /\ TreeShape'
<1>1. tree \in Seq(NodeRec) /\ TreeShape
  BY DEF ParseInv, TypeOK
<1>2. /\ tree' \in Seq(NodeRec) /\ DOMAIN tree' = DOMAIN tree \cup {Len(tree) + 1}
      /\ tree'[Len(tree) + 1] = node /\ \A n \in DOMAIN tree : tree'[n] = tree[n]
  BY <1>1
<1>3. NodesKept
  <2>1. \A n \in DOMAIN tree : Len(tree[n].kids) \in Nat
    BY <1>1 DEF NodeRec
  <2> QED BY <1>2, <2>1 DEF NodesKept
<1>4. \A n \in DOMAIN tree' : tree'[n] \in NodeRec /\ NodeShape(tree, tree'[n])
  BY <1>1, <1>2 DEF TreeShape
<1>5. TreeShape'
  BY <1>3, <1>4, ShapesKept DEF TreeShape
<1> QED BY <1>2, <1>3, <1>5

LEMMA GraftMovedKeeps == ASSUME ParseInv, GraftMoved PROVE PassOutcome
<1> DEFINE moved == Len(tree) + 1
           d == Len(frames) - 1
           above == frames[d - 1]
<1>1. /\ Returns /\ phase = "collapse" /\ Grafts /\ Resume
      /\ tree' = Append(IF d = 1 THEN tree
                        ELSE [tree EXCEPT ![above.r] = SetKid(@, above.i, moved)],
                        Grafted)
      /\ root' = IF d = 1 THEN moved ELSE root
      /\ freed' = freed \cup {ActOn, ActRoot}
      /\ UNCHANGED <<phase, synames, error_count>>
  BY DEF GraftMoved
<1>2. /\ ActRoot \in DOMAIN tree /\ ActOn \in Nat
      /\ Grafted \in NodeRec /\ Grafted.type = "STMTS"
      /\ NodeShape(tree, Grafted)
      /\ tree \in Seq(NodeRec) /\ root \in Nat /\ freed \subseteq Nat
      /\ synames \in Seq(Symbol)
  BY <1>1, GraftedNode, ActOnIsKid DEF ParseInv, TypeOK
<1>3. moved \in Nat /\ ActRoot \in Nat
  BY <1>2
<1>4. /\ tree' \in Seq(NodeRec) /\ NodesKept /\ TreeShape'
      /\ moved \in DOMAIN tree' /\ tree'[moved] = Grafted
  <2>1. CASE d = 1
    <3>1. tree' = Append(tree, Grafted)
      BY <1>1, <2>1, Zenon
    <3>2. moved \in DOMAIN tree' /\ tree'[moved] = Grafted
      BY <1>2, <3>1
    <3> QED BY <1>2, <3>1, <3>2, MovedRoot
  <2>2. CASE d # 1
    <3>1. frames \in Seq(Frame) /\ Len(frames) > 1 /\ Len(frames) \in Nat
      BY <1>1, ActOnIsKid
    <3>2. d - 1 \in DOMAIN frames /\ d - 1 < Len(frames)
      <4>1. d - 1 \in 1..Len(frames) /\ d - 1 < Len(frames)
        BY <2>2, <3>1, TwoBefore
      <4> QED BY <3>1, <4>1
    <3> HIDE DEF d
    <3>3. above.r \in DOMAIN tree /\ above.i \in DOMAIN tree[above.r].kids
      BY <3>2 DEF ParseInv, FramesShape
    <3> HIDE DEF above
    <3>4. tree' = Append([tree EXCEPT ![above.r] = SetKid(@, above.i, moved)], Grafted)
      BY <1>1, <2>2
    <3>5. moved \in DOMAIN tree' /\ tree'[moved] = Grafted
      <4> DEFINE mid == [tree EXCEPT ![above.r] = SetKid(tree[above.r], above.i, moved)]
      <4>1. SetKid(tree[above.r], above.i, moved) \in NodeRec
        <5>1. tree[above.r] \in NodeRec
          BY <1>2, <3>3
        <5> QED BY <1>3, <3>3, <5>1, SetKidNode
      <4>2. mid \in Seq(NodeRec) /\ Len(mid) = Len(tree)
        BY <1>2, <3>3, <4>1
      <4>3. tree' = Append(mid, Grafted)
        BY <3>4
      <4> HIDE DEF mid
      <4> QED BY <4>2, <4>3
    <3> HIDE DEF moved
    <3>6. moved = Len(tree) + 1
      BY DEF moved
    <3> QED BY <1>2, <3>3, <3>4, <3>5, <3>6, MovedTree
  <2> QED BY <2>1, <2>2
<1> HIDE DEF moved, d, above
<1>5. SemanticTypeOK' /\ FramesShape'
  BY <1>1, <1>4, ResumeKeeps
<1>6. root' \in Nat /\ freed' \subseteq Nat
  BY <1>1, <1>2, <1>3
<1>7. RootShape'
  <2>1. root \in DOMAIN tree /\ tree[root].type \in ListType
    BY <1>1, RootIsList DEF PassPhase
  <2>2. root' \in DOMAIN tree' /\ tree'[root'].type \in ListType
    <3>1. CASE root' = moved
      BY <1>2, <1>4, <3>1 DEF ListType
    <3>2. CASE root' = root
      BY <1>4, <2>1, <3>2 DEF NodesKept
    <3> QED BY <1>1, <3>1, <3>2
  <2> QED BY <2>2 DEF RootShape
<1> QED BY <1>1, <1>2, <1>4, <1>5, <1>6, <1>7 DEF PassOutcome

LEMMA PassDoneKeeps == ASSUME ParseInv, PassDone PROVE PassOutcome
<1>1. /\ PassPhase /\ frames' = <<>>
      /\ UNCHANGED <<tree, freed, root, synames, error_count>>
      /\ phase' \in {"collapse", "declare", "exit", "setup", "fault"}
  BY DEF PassDone, Visiting, PassPhase
<1>2. SemanticTypeOK' /\ FramesShape' /\ synames' \in Seq(Symbol)
  BY <1>1 DEF ParseInv, TypeOK, SemanticTypeOK, FramesShape
<1> QED BY <1>1, <1>2, SameTreeKeeps

LEMMA SemanticStepKeeps ==
  ASSUME ParseInv, SemanticStep
  PROVE  /\ ParseInv' /\ PassPhase
         /\ phase' \in {"collapse", "declare", "exit", "setup", "fault"}
<1>1. PassOutcome
  BY VisitKeeps, NoGraftKeeps, GraftInPlaceKeeps, GraftMovedKeeps, PassDoneKeeps
     DEF SemanticStep, Analyse
<1>2. PassPhase
  BY DEF SemanticStep, Analyse, VisitRoot, VisitKid, NoGraft, GraftInPlace, GraftMoved,
         Declare, PassDone, Returns, Visiting, PassPhase
<1>3. UNCHANGED <<parserVars, codegenVars>>
  BY DEF SemanticStep
<1>4. TypeOK'
  BY <1>1, <1>3 DEF PassOutcome, ParseInv, TypeOK, ParserTypeOK,
        CodegenTypeOK, parserVars, codegenVars, Phase
<1>5. StackShape'
  BY <1>1, <1>3, ShapesKept DEF PassOutcome, ParseInv, parserVars
<1> QED BY <1>1, <1>2, <1>4, <1>5 DEF PassOutcome, ParseInv

-----------------------------------------------------------------------------

(* Blocks of which exactly those in open can still be appended to. *)
Blocks(bs, open) ==
  /\ bs \in Seq(Block) /\ OpenBlocks(bs) = open
  /\ \A b \in DOMAIN bs : WellEnded(bs[b].code)

Plain(code) == code \in Seq(Instr) /\ ~IsClosed(code)
Ending(code) == code \in Seq(Instr) /\ IsClosed(code) /\ WellEnded(code)

LEMMA PlainAppend ==
  ASSUME NEW code, Plain(code), NEW i \in Instr, i.op \notin Terminator
  PROVE  Plain(code \o <<i>>)
<1>1. /\ code \o <<i>> \in Seq(Instr)
      /\ \A k \in DOMAIN (code \o <<i>>) :
           (k \in DOMAIN code /\ (code \o <<i>>)[k] = code[k]) \/ (code \o <<i>>)[k] = i
  BY DEF Plain
<1> QED BY <1>1 DEF Plain, IsClosed

LEMMA EndingAppend ==
  ASSUME NEW code, Plain(code), NEW i \in Instr, i.op \in Terminator
  PROVE  Ending(code \o <<i>>)
<1>1. /\ code \o <<i>> \in Seq(Instr) /\ Len(code \o <<i>>) = Len(code) + 1
      /\ Len(code) + 1 \in DOMAIN (code \o <<i>>) /\ (code \o <<i>>)[Len(code) + 1] = i
      /\ \A k \in DOMAIN (code \o <<i>>) :
           (k \in DOMAIN code /\ (code \o <<i>>)[k] = code[k]) \/ k = Len(code) + 1
  BY DEF Plain
<1> QED BY <1>1 DEF Plain, Ending, IsClosed, WellEnded

LEMMA PlainEmpty == Plain(<<>>)
BY DEF Plain, IsClosed

LEMMA PlainOne == ASSUME NEW i \in Instr, i.op \notin Terminator PROVE Plain(<<i>>)
BY DEF Plain, IsClosed

LEMMA EndingOne == ASSUME NEW i \in Instr, i.op \in Terminator PROVE Ending(<<i>>)
BY DEF Ending, IsClosed, WellEnded

(* What Emit does to one block and to the others. *)
LEMMA EmitBlocks ==
  ASSUME NEW bs \in Seq(Block), NEW b \in DOMAIN bs, NEW code \in Seq(Instr)
  PROVE  /\ Emit(bs, b, code) \in Seq(Block)
         /\ DOMAIN Emit(bs, b, code) = DOMAIN bs /\ Len(Emit(bs, b, code)) = Len(bs)
         /\ Emit(bs, b, code)[b].code = bs[b].code \o code
         /\ \A c \in DOMAIN bs : c # b => Emit(bs, b, code)[c] = bs[c]
<1> DEFINE c == bs[b].code \o code
           x == [bs[b] EXCEPT !.code = c]
<1>1. bs[b] \in Block
  OBVIOUS
<1>2. c \in Seq(Instr)
  BY <1>1 DEF Block
<1>3. Emit(bs, b, code) = [bs EXCEPT ![b] = x]
  BY Zenon DEF Emit
<1>4. x \in Block /\ x.code = c
  <2> HIDE DEF c
  <2> QED BY <1>1, <1>2 DEF Block
<1> HIDE DEF x
<1> QED BY <1>3, <1>4

LEMMA ClosedConcat ==
  ASSUME NEW c \in Seq(Instr), NEW d \in Seq(Instr)
  PROVE  /\ IsClosed(c \o d) <=> IsClosed(c) \/ IsClosed(d)
         /\ ~IsClosed(c) /\ WellEnded(d) => WellEnded(c \o d)
<1> DEFINE s == c \o d
<1>1. /\ Len(s) = Len(c) + Len(d) /\ Len(c) \in Nat /\ Len(d) \in Nat
      /\ DOMAIN s = 1..Len(c) + Len(d) /\ DOMAIN c = 1..Len(c) /\ DOMAIN d = 1..Len(d)
      /\ \A k \in 1..Len(c) : s[k] = c[k]
      /\ \A k \in 1..Len(d) : s[Len(c) + k] = d[k]
  OBVIOUS
<1> HIDE DEF s
<1>2. \A k \in DOMAIN s : k \in DOMAIN c \/ (k - Len(c) \in DOMAIN d /\ s[k] = d[k - Len(c)])
  <2> SUFFICES ASSUME NEW k \in DOMAIN s, k \notin DOMAIN c
               PROVE  k - Len(c) \in DOMAIN d /\ s[k] = d[k - Len(c)]
    OBVIOUS
  <2>1. k - Len(c) \in 1..Len(d) /\ Len(c) + (k - Len(c)) = k
    BY <1>1
  <2> QED BY <1>1, <2>1
<1>3. IsClosed(c) \/ IsClosed(d) => IsClosed(s)
  <2>1. \A k \in DOMAIN c : k \in DOMAIN s
    BY <1>1
  <2>2. \A k \in DOMAIN d : Len(c) + k \in DOMAIN s
    BY <1>1
  <2> QED BY <1>1, <2>1, <2>2 DEF IsClosed
<1>4. IsClosed(s) => IsClosed(c) \/ IsClosed(d)
  BY <1>1, <1>2 DEF IsClosed
<1>5. ~IsClosed(c) /\ WellEnded(d) => WellEnded(s)
  <2> SUFFICES ASSUME ~IsClosed(c), WellEnded(d), NEW k \in DOMAIN s, s[k].op \in Terminator
               PROVE  k = Len(s)
    BY DEF WellEnded
  <2>1. k \notin DOMAIN c
    BY <1>1 DEF IsClosed
  <2>2. k - Len(c) \in DOMAIN d /\ d[k - Len(c)].op \in Terminator
    BY <1>2, <2>1
  <2>3. k - Len(c) = Len(d)
    BY <2>2 DEF WellEnded
  <2> QED BY <1>1, <2>3
<1> QED BY <1>3, <1>4, <1>5 DEF s

LEMMA EmitPlain ==
  ASSUME NEW bs, NEW open, Blocks(bs, open), NEW b \in open, NEW code, Plain(code)
  PROVE  Blocks(Emit(bs, b, code), open) /\ Len(Emit(bs, b, code)) = Len(bs)
<1>1. /\ bs \in Seq(Block) /\ b \in DOMAIN bs /\ ~IsClosed(bs[b].code)
      /\ bs[b].code \in Seq(Instr) /\ code \in Seq(Instr)
  <2>1. bs \in Seq(Block) /\ b \in DOMAIN bs /\ ~IsClosed(bs[b].code) /\ code \in Seq(Instr)
    BY DEF Blocks, OpenBlocks, Plain
  <2>2. bs[b] \in Block
    BY <2>1
  <2> QED BY <2>1, <2>2 DEF Block
<1> DEFINE x == Emit(bs, b, code)
<1>2. /\ x \in Seq(Block) /\ DOMAIN x = DOMAIN bs /\ Len(x) = Len(bs)
      /\ x[b].code = bs[b].code \o code
      /\ \A c \in DOMAIN bs : c # b => x[c] = bs[c]
  BY <1>1, EmitBlocks
<1>3. ~IsClosed(x[b].code)
  BY <1>1, <1>2, ClosedConcat DEF Plain
<1>4. WellEnded(x[b].code)
  BY <1>3 DEF IsClosed, WellEnded
<1> HIDE DEF x
<1>5. OpenBlocks(x) = open
  BY <1>1, <1>2, <1>3 DEF Blocks, OpenBlocks
<1>6. \A c \in DOMAIN x : WellEnded(x[c].code)
  BY <1>2, <1>4 DEF Blocks
<1> QED BY <1>2, <1>5, <1>6 DEF Blocks, x

LEMMA EmitEnding ==
  ASSUME NEW bs, NEW open, Blocks(bs, open), NEW b \in open, NEW code, Ending(code)
  PROVE  Blocks(Emit(bs, b, code), open \ {b}) /\ Len(Emit(bs, b, code)) = Len(bs)
<1>1. /\ bs \in Seq(Block) /\ b \in DOMAIN bs /\ ~IsClosed(bs[b].code)
      /\ bs[b].code \in Seq(Instr) /\ code \in Seq(Instr)
  <2>1. bs \in Seq(Block) /\ b \in DOMAIN bs /\ ~IsClosed(bs[b].code) /\ code \in Seq(Instr)
    BY DEF Blocks, OpenBlocks, Ending
  <2>2. bs[b] \in Block
    BY <2>1
  <2> QED BY <2>1, <2>2 DEF Block
<1> DEFINE x == Emit(bs, b, code)
<1>2. /\ x \in Seq(Block) /\ DOMAIN x = DOMAIN bs /\ Len(x) = Len(bs)
      /\ x[b].code = bs[b].code \o code
      /\ \A c \in DOMAIN bs : c # b => x[c] = bs[c]
  BY <1>1, EmitBlocks
<1>3. IsClosed(x[b].code) /\ WellEnded(x[b].code)
  BY <1>1, <1>2, ClosedConcat DEF Ending
<1> HIDE DEF x
<1>5. OpenBlocks(x) = open \ {b}
  BY <1>1, <1>2, <1>3 DEF Blocks, OpenBlocks
<1>6. \A c \in DOMAIN x : WellEnded(x[c].code)
  BY <1>2, <1>3 DEF Blocks
<1> QED BY <1>2, <1>5, <1>6 DEF Blocks, x

LEMMA NewOpen ==
  ASSUME NEW bs, NEW open, Blocks(bs, open), NEW f \in Nat
  PROVE  /\ Blocks(NewBlock(bs, f), open \cup {Len(bs) + 1})
         /\ Len(NewBlock(bs, f)) = Len(bs) + 1 /\ Len(bs) \in Nat
         /\ Len(bs) + 1 \notin open
<1> DEFINE x == [func |-> f, code |-> <<>>]
           y == NewBlock(bs, f)
<1>1. x \in Block /\ x.code = <<>>
  BY DEF Block
<1>2. y = Append(bs, x) /\ bs \in Seq(Block)
  BY DEF NewBlock, Blocks
<1>3. ~IsClosed(x.code) /\ WellEnded(x.code)
  BY <1>1 DEF IsClosed, WellEnded
<1> HIDE DEF x, y
<1>4. /\ y \in Seq(Block) /\ Len(y) = Len(bs) + 1 /\ DOMAIN y = DOMAIN bs \cup {Len(bs) + 1}
      /\ y[Len(bs) + 1] = x /\ \A c \in DOMAIN bs : y[c] = bs[c]
      /\ Len(bs) + 1 \notin DOMAIN bs
  BY <1>1, <1>2
<1>5. OpenBlocks(y) = open \cup {Len(bs) + 1}
  BY <1>3, <1>4 DEF Blocks, OpenBlocks
<1>6. \A c \in DOMAIN y : WellEnded(y[c].code)
  BY <1>3, <1>4 DEF Blocks
<1>7. Len(bs) + 1 \notin open
  BY <1>4 DEF Blocks, OpenBlocks
<1> QED BY <1>2, <1>4, <1>5, <1>6, <1>7 DEF Blocks, y

-----------------------------------------------------------------------------
(* A frame on top of the stack w. *)
FrameOn(f, w) ==
  /\ f.no \in DOMAIN tree
  /\ f.k = "list" => /\ tree[f.no].type \in ListType
                     /\ f.b1 # 0 => f.b1 = f.at
                     /\ f.b1 = 0 /\ w # <<>> => f.at = w[Len(w)].at
  /\ f.k = "while" => w # <<>> /\ w[Len(w)].k = "list" /\ f.at = f.b2
  /\ f.k = "func" => w # <<>> /\ f.b1 = w[Len(w)].at
  /\ f.k \in {"then", "else"} => f.b1 # 0 /\ f.b1 # f.b2
  /\ f.k = "then" /\ f.b2 # 0 => /\ tree[f.no].type = "IF"
                                 /\ Len(tree[f.no].kids) > 1

LEMMA AppendFacts ==
  ASSUME NEW w \in Seq(WorkFrame), NEW f \in WorkFrame, NEW u, u = Append(w, f)
  PROVE  /\ u \in Seq(WorkFrame) /\ u # <<>> /\ Last(u) = f
         /\ Len(u) = Len(w) + 1 /\ Len(w) \in Nat
         /\ DOMAIN w = 1..Len(w) /\ DOMAIN u = 1..Len(w) + 1
         /\ \A k \in DOMAIN w : k \in DOMAIN u /\ u[k] = w[k]
         /\ u[Len(w) + 1] = f
BY DEF Last

LEMMA HeldAppend ==
  ASSUME NEW w \in Seq(WorkFrame), NEW f \in WorkFrame, NEW u, u = Append(w, f)
  PROVE  /\ HeldBy(u) = HeldBy(w) \cup Held(f)
         /\ Apart(u) <=> Apart(w) /\ Held(f) \cap HeldBy(w) = {}
<1>1. /\ Len(w) \in Nat /\ DOMAIN w = 1..Len(w) /\ DOMAIN u = 1..Len(w) + 1
      /\ \A k \in DOMAIN w : k \in DOMAIN u /\ u[k] = w[k]
      /\ u[Len(w) + 1] = f
  BY AppendFacts
<1>2. \A k \in DOMAIN u : (k \in DOMAIN w /\ u[k] = w[k]) \/ (k = Len(w) + 1 /\ u[k] = f)
  BY <1>1
<1>3. Len(w) + 1 \in DOMAIN u /\ Len(w) + 1 \notin DOMAIN w
  BY <1>1
<1>4. HeldBy(u) = HeldBy(w) \cup Held(f)
  BY <1>1, <1>2, <1>3 DEF HeldBy
<1>5. ASSUME Apart(u) PROVE Apart(w) /\ Held(f) \cap HeldBy(w) = {}
  <2>1. Apart(w)
    BY <1>1, <1>5 DEF Apart
  <2>2. ASSUME NEW k \in DOMAIN w PROVE Held(f) \cap Held(w[k]) = {}
    <3>1. k # Len(w) + 1 /\ k \in DOMAIN u /\ u[k] = w[k]
      BY <1>1, <1>3
    <3> QED BY <1>1, <1>3, <1>5, <3>1 DEF Apart
  <2> QED BY <2>1, <2>2 DEF HeldBy
<1>6. ASSUME Apart(w), Held(f) \cap HeldBy(w) = {} PROVE Apart(u)
  <2>1. \A k \in DOMAIN w : Held(f) \cap Held(w[k]) = {}
    BY <1>6 DEF HeldBy
  <2> SUFFICES ASSUME NEW j \in DOMAIN u, NEW k \in DOMAIN u, j # k
               PROVE  Held(u[j]) \cap Held(u[k]) = {}
    BY DEF Apart
  <2>2. CASE j \in DOMAIN w /\ k \in DOMAIN w
    BY <1>1, <1>6, <2>2 DEF Apart
  <2>3. CASE j \in DOMAIN w /\ k \notin DOMAIN w
    BY <1>2, <2>1, <2>3
  <2>4. CASE j \notin DOMAIN w /\ k \in DOMAIN w
    BY <1>2, <2>1, <2>4
  <2> QED BY <1>2, <2>2, <2>3, <2>4
<1> QED BY <1>4, <1>5, <1>6

LEMMA ShapeAppend ==
  ASSUME NEW w \in Seq(WorkFrame), NEW f \in WorkFrame, NEW u, u = Append(w, f)
  PROVE  WorkShape(u) <=> WorkShape(w) /\ FrameOn(f, w)
<1>1. /\ Len(w) \in Nat /\ DOMAIN w = 1..Len(w) /\ DOMAIN u = 1..Len(w) + 1
      /\ \A k \in DOMAIN w : k \in DOMAIN u /\ u[k] = w[k]
      /\ u[Len(w) + 1] = f
  BY AppendFacts
<1>2. \A k \in DOMAIN u : k \in DOMAIN w \/ k = Len(w) + 1
  BY <1>1
<1>3. ASSUME NEW k \in DOMAIN w PROVE FrameShape(u, k) <=> FrameShape(w, k)
  <2>1. k \in DOMAIN u /\ u[k] = w[k] /\ (k > 1 => u[k - 1] = w[k - 1])
    <3>1. k > 1 => k - 1 \in DOMAIN w
      BY <1>1
    <3> QED BY <1>1, <3>1
  <2> QED BY <2>1 DEF FrameShape
<1>4. FrameShape(u, Len(w) + 1) <=> FrameOn(f, w)
  <2>1. w # <<>> <=> Len(w) + 1 > 1
    BY <1>1
  <2>2. Len(w) + 1 > 1 => u[(Len(w) + 1) - 1] = w[Len(w)]
    <3>1. Len(w) + 1 > 1 => Len(w) \in DOMAIN w
      BY <1>1
    <3>2. (Len(w) + 1) - 1 = Len(w)
      BY <1>1
    <3> QED BY <1>1, <3>1, <3>2
  <2> QED BY <1>1, <2>1, <2>2 DEF FrameShape, FrameOn
<1>5. Len(w) + 1 \in DOMAIN u
  BY <1>1
<1> QED BY <1>1, <1>2, <1>3, <1>4, <1>5 DEF WorkShape

(* The stack without the frame that ends. *)
LEMMA SplitWork ==
  ASSUME NEW u \in Seq(WorkFrame), u # <<>>, NEW w, w = SubSeq(u, 1, Len(u) - 1)
  PROVE  /\ w \in Seq(WorkFrame) /\ Last(u) \in WorkFrame /\ u = Append(w, Last(u))
         /\ Len(u) = Len(w) + 1
<1> DEFINE n == Len(u) - 1
<1>1. n \in Nat /\ n <= Len(u) /\ Len(u) = n + 1 /\ Len(u) \in DOMAIN u
  OBVIOUS
<1>2. w = SubSeq(u, 1, n)
  OBVIOUS
<1> HIDE DEF n
<1>3. w \in Seq(WorkFrame) /\ Len(w) = n /\ \A k \in 1..n : w[k] = u[k]
  BY <1>1, <1>2, SubSeqProperties
<1>4. Last(u) = u[Len(u)] /\ Last(u) \in WorkFrame
  BY <1>1 DEF Last
<1> DEFINE v == Append(w, Last(u))
<1>5. /\ v \in Seq(WorkFrame) /\ Len(v) = n + 1 /\ \A k \in 1..n : v[k] = w[k]
      /\ v[n + 1] = Last(u)
  BY <1>1, <1>3, <1>4
<1> HIDE DEF v
<1>6. \A k \in 1..Len(u) : u[k] = v[k]
  <2>1. \A k \in 1..Len(u) : k \in 1..n \/ k = n + 1
    BY <1>1
  <2> QED BY <1>1, <1>3, <1>4, <1>5, <2>1
<1>7. u = v
  BY <1>1, <1>5, <1>6, SeqEqual
<1> QED BY <1>1, <1>3, <1>4, <1>7 DEF v

-----------------------------------------------------------------------------
(* The part of IInv that the code generator can disturb. *)
GenInv == /\ ParseInv /\ phase = "gen"
          /\ GenShape /\ NothingAfterTerminator

(* What an action has to show beside the stack, the blocks and the pending  *)
(* call, which the two lemmas Settle... ask for.                            *)
Rest == /\ UNCHANGED treeVars /\ phase' = "gen" /\ synames' \in Seq(Symbol)
        /\ current_func' \in Nat /\ modnames' \subseteq Name /\ unresolved' \subseteq Name

GenOutcome == /\ Rest /\ CodegenTypeOK' /\ GenShape'
              /\ \A b \in DOMAIN blocks' : WellEnded(blocks'[b].code)

LEMMA GenFacts ==
  ASSUME GenInv
  PROVE  /\ tree \in Seq(NodeRec) /\ synames \in Seq(Symbol)
         /\ work \in Seq(WorkFrame) /\ WorkShape(work) /\ Apart(work)
         /\ insert \in Nat /\ current_func \in Nat /\ pending \in Pending
         /\ modnames \subseteq Name /\ unresolved \subseteq Name
         /\ Target \in Nat /\ Target \notin HeldBy(work) /\ PendingShape
         /\ Blocks(blocks, HeldBy(work) \cup {Target})
<1>1. \A b \in DOMAIN blocks : WellEnded(blocks[b].code)
  BY DEF GenInv, NothingAfterTerminator, WellEnded
<1>2. Target \in Nat
  BY DEF GenInv, ParseInv, TypeOK, CodegenTypeOK, Target, Pending
<1> QED BY <1>1, <1>2 DEF GenInv, ParseInv, TypeOK, CodegenTypeOK, GenShape, BlocksShape, Blocks

LEMMA Settle ==
  ASSUME Rest, NEW w \in Seq(WorkFrame), work' = w, WorkShape(w), Apart(w),
         Target' \notin HeldBy(w), Blocks(blocks', HeldBy(w) \cup {Target'}),
         PendingShape', insert' \in Nat, pending' \in Pending
  PROVE  GenOutcome
<1>1. tree' = tree
  BY DEF Rest, treeVars
<1>2. WorkShape(work)'
  BY <1>1 DEF WorkShape, FrameShape
<1>3. BlocksShape'
  BY DEF BlocksShape, Blocks, OpenBlocks, HeldBy, Apart
<1>4. CodegenTypeOK'
  BY DEF CodegenTypeOK, Rest, Blocks
<1> QED BY <1>2, <1>3, <1>4 DEF GenOutcome, GenShape, Blocks

(* The call stack with one frame more. *)
LEMMA PushedFrame ==
  ASSUME NEW w \in Seq(WorkFrame), NEW f \in WorkFrame, NEW u, u = Append(w, f),
         WorkShape(w), FrameOn(f, w), Apart(w), Held(f) \cap HeldBy(w) = {}
  PROVE  /\ u \in Seq(WorkFrame) /\ u # <<>> /\ Last(u) = f
         /\ HeldBy(u) = HeldBy(w) \cup Held(f) /\ Apart(u) /\ WorkShape(u)
<1>1. u \in Seq(WorkFrame) /\ u # <<>> /\ Last(u) = f
  BY AppendFacts
<1>2. HeldBy(u) = HeldBy(w) \cup Held(f) /\ Apart(u)
  BY HeldAppend
<1>3. WorkShape(u)
  BY ShapeAppend
<1> QED BY <1>1, <1>2, <1>3

(* A frame is pushed and its first call, or its next one, begins.           *)
LEMMA SettleGen ==
  ASSUME Rest, NEW w \in Seq(WorkFrame), NEW f \in WorkFrame, work' = Append(w, f),
         WorkShape(w), FrameOn(f, w), Apart(w), Held(f) \cap HeldBy(w) = {},
         NEW t \in Nat, insert' = t, f.at = t, t \notin HeldBy(w), t \notin Held(f),
         Blocks(blocks', HeldBy(w) \cup Held(f) \cup {t}),
         NEW no \in Nat, pending' = Gen(no), no \in DOMAIN tree \cup {0},
         f.k # "list" => no # 0 /\ tree[no].type \in BodyType
  PROVE  GenOutcome
<1> DEFINE u == Append(w, f)
<1>0. u = Append(w, f) /\ work' = u
  OBVIOUS
<1> HIDE DEF u
<1>1. /\ u \in Seq(WorkFrame) /\ u # <<>> /\ Last(u) = f /\ work' = u
      /\ HeldBy(u) = HeldBy(w) \cup Held(f) /\ Apart(u) /\ WorkShape(u)
  BY <1>0, PushedFrame
<1>2. pending'.do = "gen" /\ pending'.no = no /\ pending' \in Pending
  BY DEF Gen, Pending
<1>3. Target' = t
  BY <1>2 DEF Target
<1>4. PendingShape'
  <2>1. tree' = tree
    BY DEF Rest, treeVars
  <2>2. CurrentFrame' = f
    BY <1>1 DEF CurrentFrame
  <2> QED BY <1>1, <1>2, <2>1, <2>2 DEF PendingShape, TopIsList
<1> QED BY <1>1, <1>2, <1>3, <1>4, Settle

(* A call returns b. *)
LEMMA SettleRet ==
  ASSUME Rest, NEW w \in Seq(WorkFrame), work' = w, WorkShape(w), Apart(w),
         NEW b \in Nat, pending' = Ret(b), insert' \in Nat,
         NEW t, t = (IF b # 0 THEN b ELSE insert'),
         t \notin HeldBy(w), Blocks(blocks', HeldBy(w) \cup {t}),
         b # 0 => insert' = b \/ (w # <<>> /\ Last(w).k = "list"),
         b = 0 /\ w # <<>> => insert' = Last(w).at
  PROVE  GenOutcome
<1>1. pending'.do = "ret" /\ pending'.block = b /\ pending' \in Pending
  BY DEF Ret, Pending
<1>2. Target' = t
  BY <1>1 DEF Target
<1>3. PendingShape'
  <2>1. CurrentFrame' = Last(w) /\ (TopIsList' <=> w # <<>> /\ Last(w).k = "list")
    BY DEF CurrentFrame, TopIsList
  <2>2. /\ b # 0 /\ ~TopIsList' => insert' = b
        /\ b = 0 /\ work' # <<>> => insert' = CurrentFrame'.at
    BY <2>1
  <2> QED BY <1>1, <2>2 DEF PendingShape
<1> QED BY <1>1, <1>2, <1>3, Settle

(* What holds when a call of generate_llvm_nodes begins ...                 *)
LEMMA CalledFacts ==
  ASSUME GenInv, NEW types, Called(types)
  PROVE  /\ No \in DOMAIN tree /\ No \in Nat
         /\ N \in NodeRec /\ NodeShape(tree, N) /\ N.type \in types
         /\ N.type \notin BodyType => work # <<>> /\ Last(work).k = "list"
         /\ work # <<>> => insert = Last(work).at
         /\ insert \notin HeldBy(work) /\ Blocks(blocks, HeldBy(work) \cup {insert})
<1>1. pending.do = "gen" /\ No # 0 /\ N.type \in types /\ No = pending.no
  BY DEF Called, No
<1>2. Target = insert /\ PendingShape /\ tree \in Seq(NodeRec)
  BY <1>1, GenFacts DEF Target
<1>3. No \in DOMAIN tree /\ (work # <<>> => insert = Last(work).at)
  BY <1>1, <1>2 DEF PendingShape, CurrentFrame
<1>4. N.type \notin BodyType => work # <<>> /\ Last(work).k = "list"
  BY <1>1, <1>2 DEF PendingShape, CurrentFrame, TopIsList, N, No
<1>5. N \in NodeRec /\ NodeShape(tree, N) /\ No \in Nat
  BY <1>2, <1>3 DEF N, GenInv, ParseInv, TreeShape
<1> QED BY <1>1, <1>2, <1>3, <1>4, <1>5, GenFacts

(* ... and when one is back in its caller, the frame f on the stack w.      *)
LEMMA BackFacts ==
  ASSUME GenInv, NEW kind, Back(kind),
         NEW w, w = SubSeq(work, 1, Len(work) - 1), NEW f, f = CurrentFrame
  PROVE  /\ w \in Seq(WorkFrame) /\ f \in WorkFrame /\ f.k = kind /\ work = Append(w, f)
         /\ Len(work) = Len(w) + 1
         /\ WorkShape(w) /\ FrameOn(f, w) /\ Apart(w) /\ Held(f) \cap HeldBy(w) = {}
         /\ pending.block \in Nat /\ Target \notin HeldBy(w) /\ Target \notin Held(f)
         /\ Blocks(blocks, HeldBy(w) \cup Held(f) \cup {Target})
         /\ pending.block = 0 => insert = f.at /\ Target = insert
         /\ pending.block # 0 => Target = pending.block
         /\ kind # "list" => Target = insert
<1>1. pending.do = "ret" /\ work # <<>> /\ CurrentFrame.k = kind /\ f = Last(work)
  BY DEF Back, CurrentFrame
<1>2. w \in Seq(WorkFrame) /\ f \in WorkFrame /\ work = Append(w, f) /\ Len(work) = Len(w) + 1
  BY <1>1, GenFacts, SplitWork
<1>3. /\ HeldBy(work) = HeldBy(w) \cup Held(f)
      /\ Apart(w) /\ Held(f) \cap HeldBy(w) = {} /\ WorkShape(w) /\ FrameOn(f, w)
  BY <1>2, GenFacts, HeldAppend, ShapeAppend
<1>4. pending.block \in Nat /\ PendingShape
  BY GenFacts DEF Pending
<1>5. /\ pending.block = 0 => insert = f.at /\ Target = insert
      /\ pending.block # 0 => Target = pending.block
  BY <1>1, <1>4 DEF PendingShape, Target, CurrentFrame
<1>6. kind # "list" => Target = insert
  BY <1>1, <1>4, <1>5 DEF PendingShape, TopIsList
<1> QED BY <1>1, <1>2, <1>3, <1>4, <1>5, <1>6, GenFacts

-----------------------------------------------------------------------------
(* The code of expressions: no terminator in it. *)
LEMMA InstrType ==
  ASSUME NEW op \in InstrOp, NEW no \in Nat, NEW uses \in SUBSET Value, NEW to \in Seq(Nat)
  PROVE  I(op, no, uses, to) \in Instr /\ I(op, no, uses, to).op = op
BY DEF I, Instr

LEMMA NamesOf ==
  ASSUME NEW node \in NodeRec
  PROVE  ReadSet(node) \subseteq Name /\ CallSet(node) \subseteq Name /\ Twice(node) \subseteq Name
<1>1. \A k \in DOMAIN node.exprs : node.exprs[k] \in Expr
  BY DEF NodeRec
<1>2. \A k \in DOMAIN node.exprs :
        /\ ToSet(Reads[node.exprs[k]]) \subseteq Name
        /\ ToSet(Calls[node.exprs[k]]) \subseteq Name
  <2>1. \A s \in Seq(Name) : ToSet(s) \subseteq Name
    BY DEF ToSet
  <2> QED BY <1>1, <2>1, ExprAssumption
<1> QED BY <1>2 DEF ReadSet, CallSet, Twice

LEMMA EnvType == ASSUME GenInv PROVE Env \in [Name -> Value]
<1>1. synames \in Seq(Symbol) /\ NullValue \in Value
  BY GenFacts DEF NullValue, Value, ValueKind
<1>2. ASSUME NEW s \in DOMAIN synames PROVE synames[s].llvm \in Value
  <2>1. synames[s] \in Symbol
    BY <1>1
  <2> QED BY <2>1 DEF Symbol
<1>3. \A v \in Name : search_symbol(synames, v) \in DOMAIN synames \cup {0}
  BY DEF search_symbol, Found
<1> QED BY <1>1, <1>2, <1>3 DEF Env

LEMMA EvalPlain ==
  ASSUME NEW node \in NodeRec, NEW env \in [Name -> Value], NEW no \in Nat
  PROVE  Plain(EvalCode(no, node, env))
<1> DEFINE uses == {env[v] : v \in ReadSet(node)}
           i == I("eval", no, uses, <<>>)
<1>1. uses \in SUBSET Value
  BY NamesOf
<1>2. "eval" \in InstrOp /\ "eval" \notin Terminator /\ <<>> \in Seq(Nat)
  BY DEF InstrOp, Terminator
<1> HIDE DEF uses
<1>3. i \in Instr /\ i.op \notin Terminator
  BY <1>1, <1>2, InstrType
<1> HIDE DEF i
<1>4. Plain(<<>> \o <<i>>)
  BY <1>3, PlainAppend, PlainEmpty
<1>5. <<>> \o <<i>> = <<i>>
  BY <1>3
<1> QED BY <1>4, <1>5, PlainEmpty DEF EvalCode, i, uses

LEMMA DeclaredNames ==
  ASSUME GenInv, NEW node \in NodeRec, NEW taken \in SUBSET Name, DeclareCalls(node, taken)
  PROVE  modnames' \subseteq Name /\ unresolved' \subseteq Name
BY NamesOf, GenFacts DEF DeclareCalls

(* The statements that append to the block they find. *)
LEMMA StraightKeeps ==
  ASSUME GenInv, NEW type \in LeafType, Called({type}), Rest,
         NEW code, Plain(code), blocks' = Emit(blocks, insert, code),
         pending' = Ret(0), UNCHANGED <<insert, work>>
  PROVE  GenOutcome
<1>1. N.type \in {type} /\ type \notin BodyType
  BY CalledFacts DEF LeafType, BodyType, ListType
<1>2. N.type \notin BodyType
  BY <1>1
<1>5. work # <<>>
  BY <1>2, CalledFacts
<1>6. /\ insert = Last(work).at
       /\ insert \notin HeldBy(work) /\ Blocks(blocks, HeldBy(work) \cup {insert})
  BY <1>5, CalledFacts
<1>3. Blocks(blocks', HeldBy(work) \cup {insert})
  BY <1>6, EmitPlain
<1>4. work \in Seq(WorkFrame) /\ WorkShape(work) /\ Apart(work) /\ insert \in Nat
  BY GenFacts
<1> QED BY <1>5, <1>6, <1>3, <1>4, SettleRet

LEMMA GenSimpleKeeps ==
  ASSUME GenInv, NEW type \in LeafType, NEW op \in InstrOp \ Terminator,
         NEW uses \in SUBSET Value, GenSimple(type, op, uses)
  PROVE  GenOutcome
<1> DEFINE i == I(op, No, uses, <<>>)
           code == EvalCode(No, N, Env) \o <<i>>
<1>1. /\ Called({type}) /\ blocks' = Emit(blocks, insert, code)
      /\ DeclareCalls(N, modnames) /\ pending' = Ret(0)
      /\ UNCHANGED <<phase, treeVars, synames, insert, current_func, work>>
  BY DEF GenSimple
<1>2. N \in NodeRec /\ No \in Nat
  BY <1>1, CalledFacts
<1>3. Plain(code)
  <2>1. i \in Instr /\ i.op \notin Terminator
    <3>1. op \in InstrOp /\ op \notin Terminator /\ <<>> \in Seq(Nat) /\ No \in Nat
      BY <1>2
    <3>2. I(op, No, uses, <<>>) \in Instr /\ I(op, No, uses, <<>>).op = op
      BY <3>1, InstrType
    <3> QED BY <3>1, <3>2
  <2> HIDE DEF i
  <2>2. Plain(EvalCode(No, N, Env))
    BY <1>2, EnvType, EvalPlain
  <2> QED BY <2>1, <2>2, PlainAppend
<1>4. Rest
  BY <1>1, <1>2, GenFacts, DeclaredNames DEF Rest, GenInv
<1> HIDE DEF code
<1> QED BY <1>1, <1>3, <1>4, StraightKeeps

LEMMA SimpleKeeps ==
  ASSUME GenInv, GenOut \/ GenDelay \/ GenPrnt \/ GenCall
  PROVE  GenOutcome
<1>1. {"OUT", "DELAY", "PRNT", "CALL"} \subseteq LeafType
  BY DEF LeafType
<1>2. {"out", "delay", "print", "call"} \subseteq InstrOp \ Terminator
  BY DEF InstrOp, Terminator
<1>3. CASE GenOut
  BY <1>1, <1>2, <1>3, GenSimpleKeeps DEF GenOut
<1>4. CASE GenDelay
  BY <1>1, <1>2, <1>4, GenSimpleKeeps DEF GenDelay
<1>5. ASSUME NEW type \in {"PRNT", "CALL"}, NEW op, GenSimple(type, op, {Env[N.name]})
      PROVE  {Env[N.name]} \in SUBSET Value
  <2>1. Called({type})
    BY <1>5 DEF GenSimple
  <2>2. NodeShape(tree, N) /\ N.type = type
    BY <2>1, CalledFacts
  <2>3. N.name \in Name
    BY <2>2 DEF NodeShape, NamedType
  <2> QED BY <2>3, EnvType
<1>6. CASE GenPrnt
  BY <1>1, <1>2, <1>5, <1>6, GenSimpleKeeps DEF GenPrnt
<1>7. CASE GenCall
  BY <1>1, <1>2, <1>5, <1>7, GenSimpleKeeps DEF GenCall
<1> QED BY <1>3, <1>4, <1>6, <1>7

(* An assignment also gives its variable a value, on the first one. *)
LEMMA SetSymbol ==
  ASSUME synames \in Seq(Symbol), NEW v \in Value, NEW name
  PROVE  [synames EXCEPT ![search_symbol(synames, name)].llvm = v] \in Seq(Symbol)
<1> DEFINE s == search_symbol(synames, name)
           x == [synames[s] EXCEPT !.llvm = v]
<1>2. [synames EXCEPT ![s].llvm = v] = [synames EXCEPT ![s] = x]
  BY Zenon
<1>3. s \in DOMAIN synames => x \in Symbol
  <2>1. \A y \in Symbol : [y EXCEPT !.llvm = v] \in Symbol
    BY DEF Symbol
  <2> QED BY <2>1
<1> HIDE DEF s, x
<1>4. [synames EXCEPT ![s] = x] \in Seq(Symbol)
  <2>1. CASE s \in DOMAIN synames
    BY <1>3, <2>1
  <2>2. CASE s \notin DOMAIN synames
    <3>1. [synames EXCEPT ![s] = x] = synames
      BY <2>2
    <3> QED BY <3>1
  <2> QED BY <2>1, <2>2
<1> QED BY <1>2, <1>4 DEF s

LEMMA PlainConcat ==
  ASSUME NEW c, Plain(c), NEW d, Plain(d)
  PROVE  Plain(c \o d)
BY ClosedConcat DEF Plain

LEMMA AttrValue ==
  ASSUME GenInv, NEW type \in NamedType, Called({type})
  PROVE  N.name \in Name /\ Env[N.name] \in Value /\ Variable \in Value
         /\ AttrEnv \in [Name -> Value]
<1>1. N.name \in Name
  <2>1. NodeShape(tree, N) /\ N.type \in {type}
    BY CalledFacts
  <2> QED BY <2>1 DEF NodeShape
<1>2. Env \in [Name -> Value]
  BY EnvType
<1>3. Variable \in Value
  <2>1. insert \in Nat
    BY GenFacts
  <2>2. \A k \in ValueKind : \A a \in Nat : [kind |-> k, at |-> a] \in Value
    BY DEF Value
  <2>3. [kind |-> "global", at |-> 0] \in Value /\ [kind |-> "local", at |-> insert] \in Value
    BY <2>1, <2>2 DEF ValueKind
  <2> QED BY <1>1, <1>2, <2>3 DEF Variable
<1> QED BY <1>1, <1>2, <1>3 DEF AttrEnv

LEMMA GenAttrKeeps == ASSUME GenInv, GenAttr PROVE GenOutcome
<1> DEFINE made == IF Fresh THEN {Variable.kind} ELSE {}
           slot == IF "local" \in made THEN <<I("alloca", No, {Variable}, <<>>)>> ELSE <<>>
           store == I("store", No, {Variable}, <<>>)
           code == slot \o EvalCode(No, N, AttrEnv) \o <<store>>
           taken == modnames \cup (IF "global" \in made THEN {N.name} ELSE {})
<1>1. /\ Called({"ATTR"})
      /\ synames' = [synames EXCEPT ![search_symbol(synames, N.name)].llvm = Variable]
      /\ blocks' = Emit(blocks, insert, code)
      /\ DeclareCalls(N, taken) /\ pending' = Ret(0)
      /\ UNCHANGED <<phase, treeVars, insert, current_func, work>>
  BY DEF GenAttr
<1>2. "ATTR" \in NamedType /\ "ATTR" \in LeafType
  BY DEF NamedType, LeafType
<1>3. N \in NodeRec /\ No \in Nat
  BY <1>1, CalledFacts
<1>4. N.name \in Name /\ Variable \in Value /\ AttrEnv \in [Name -> Value]
  BY <1>1, <1>2, AttrValue
<1>5. Plain(code)
  <2>1. /\ I("alloca", No, {Variable}, <<>>) \in Instr
        /\ I("alloca", No, {Variable}, <<>>).op \notin Terminator
        /\ store \in Instr /\ store.op \notin Terminator
    <3>1. {"alloca", "store"} \subseteq InstrOp \ Terminator
      BY DEF InstrOp, Terminator
    <3>2. {Variable} \in SUBSET Value /\ <<>> \in Seq(Nat)
      BY <1>4
    <3> QED BY <1>3, <3>1, <3>2, InstrType
  <2> HIDE DEF store
  <2>2. Plain(<<I("alloca", No, {Variable}, <<>>)>>)
    <3> DEFINE i == I("alloca", No, {Variable}, <<>>)
    <3>1. i \in Instr /\ i.op \notin Terminator
      BY <2>1
    <3> HIDE DEF i
    <3>2. Plain(<<i>>)
      BY <3>1, PlainOne
    <3> QED BY <3>2 DEF i
  <2>3. Plain(slot)
    BY <2>2, PlainEmpty
  <2> HIDE DEF slot
  <2>4. Plain(slot \o EvalCode(No, N, AttrEnv))
    BY <1>3, <1>4, <2>3, EvalPlain, PlainConcat
  <2> QED BY <2>1, <2>4, PlainAppend
<1>6. Rest
  <2>1. taken \in SUBSET Name
    BY <1>4, GenFacts
  <2> HIDE DEF taken
  <2>2. modnames' \subseteq Name /\ unresolved' \subseteq Name
    BY <1>1, <1>3, <2>1, DeclaredNames
  <2>3. synames' \in Seq(Symbol)
    BY <1>1, <1>4, GenFacts, SetSymbol
  <2> QED BY <1>1, <2>2, <2>3, GenFacts DEF Rest, GenInv
<1> HIDE DEF code
<1> QED BY <1>1, <1>2, <1>5, <1>6, StraightKeeps

-----------------------------------------------------------------------------
(* A call that finds a list as its node holds nothing back. *)
LEMMA GenListKeeps == ASSUME GenInv, GenList PROVE GenOutcome
<1> DEFINE f == [k |-> "list", no |-> No, i |-> 1, b1 |-> 0, b2 |-> 0, at |-> insert]
<1>1. /\ Called(ListType) /\ work' = Append(work, f) /\ pending' = Gen(N.kids[1])
      /\ UNCHANGED <<phase, treeVars, synames, blocks, insert, current_func, modnames,
                     unresolved>>
  BY DEF GenList, Push
<1>2. /\ No \in DOMAIN tree /\ No \in Nat /\ NodeShape(tree, N) /\ N.type \in ListType
      /\ N \in NodeRec /\ (work # <<>> => insert = Last(work).at)
      /\ insert \notin HeldBy(work) /\ Blocks(blocks, HeldBy(work) \cup {insert})
  BY <1>1, CalledFacts
<1>3. /\ work \in Seq(WorkFrame) /\ WorkShape(work) /\ Apart(work) /\ insert \in Nat
  BY GenFacts
<1>4. f \in WorkFrame /\ f.k = "list" /\ f.no = No /\ f.b1 = 0 /\ f.at = insert
  BY <1>2, <1>3 DEF WorkFrame, FrameKind
<1> HIDE DEF f
<1>5. Held(f) = {}
  BY <1>4 DEF Held
<1>6. FrameOn(f, work)
  BY <1>2, <1>4 DEF FrameOn, Last, N
<1>7. N.kids[1] \in DOMAIN tree \cup {0} /\ N.kids[1] \in Nat
  <2>1. N.kids \in Seq(Nat) /\ N.kids # <<>>
    BY <1>2 DEF NodeShape, BodyType, NodeRec
  <2>2. 1 \in DOMAIN N.kids
    BY <2>1
  <2> QED BY <1>2, <2>1, <2>2 DEF NodeShape
<1>8. Rest
  BY <1>1, GenFacts DEF Rest, GenInv
<1>9. HeldBy(work) \cup Held(f) \cup {insert} = HeldBy(work) \cup {insert}
  BY <1>5
<1> DEFINE no == N.kids[1]
<1>10. pending' = Gen(no) /\ no \in Nat /\ no \in DOMAIN tree \cup {0}
  BY <1>1, <1>7
<1> HIDE DEF no
<1> QED BY <1>1, <1>2, <1>3, <1>4, <1>5, <1>6, <1>8, <1>9, <1>10, SettleGen

(* The loop over the children goes to the next one, or ends. *)
LEMMA TopReplaced ==
  ASSUME NEW w \in Seq(WorkFrame), NEW f \in WorkFrame, NEW g \in WorkFrame,
         NEW u, u = Append(w, f)
  PROVE  [u EXCEPT ![Len(u)] = g] = Append(w, g)
<1> DEFINE x == [u EXCEPT ![Len(u)] = g]
           y == Append(w, g)
<1>1. /\ u \in Seq(WorkFrame) /\ Len(u) = Len(w) + 1 /\ Len(w) \in Nat
      /\ \A k \in 1..Len(w) : u[k] = w[k]
  OBVIOUS
<1>2. /\ x \in Seq(WorkFrame) /\ Len(x) = Len(w) + 1 /\ \A k \in 1..Len(w) : x[k] = w[k]
      /\ x[Len(w) + 1] = g
  <2> DEFINE n == Len(w) + 1
  <2>1. n \in DOMAIN u /\ n \in 1..Len(u) /\ DOMAIN u = 1..Len(u) /\ Len(u) \in Nat
        /\ x = [u EXCEPT ![n] = g]
    BY <1>1
  <2>2. \A k \in 1..Len(w) : k # n
    BY <1>1
  <2> HIDE DEF n, x
  <2>3. x \in Seq(WorkFrame) /\ Len(x) = Len(u)
        /\ \A k \in 1..Len(u) : x[k] = IF k = n THEN g ELSE u[k]
    BY <1>1, <2>1, ExceptSeq
  <2>4. \A k \in 1..Len(w) : k \in DOMAIN u
    BY <1>1
  <2>5. x \in Seq(WorkFrame) /\ Len(x) = Len(w) + 1 /\ x[Len(w) + 1] = g
    BY <1>1, <2>1, <2>3 DEF n
  <2>6. \A k \in 1..Len(w) : x[k] = w[k]
    BY <1>1, <2>1, <2>2, <2>3, <2>4
  <2> QED BY <2>5, <2>6
<1>3. /\ y \in Seq(WorkFrame) /\ Len(y) = Len(w) + 1 /\ \A k \in 1..Len(w) : y[k] = w[k]
      /\ y[Len(w) + 1] = g
  OBVIOUS
<1> HIDE DEF x, y
<1>4. \A k \in 1..Len(x) : x[k] = y[k]
  <2>1. \A k \in 1..Len(x) : k \in 1..Len(w) \/ k = Len(w) + 1
    BY <1>1, <1>2
  <2> QED BY <1>2, <1>3, <2>1
<1>5. x = y
  BY <1>2, <1>3, <1>4, SeqEqual
<1> QED BY <1>5 DEF x, y

(* A call that ended passes the block it returned on to its caller. *)
LEMMA ListNextKeeps == ASSUME GenInv, ListNext PROVE GenOutcome
<1> DEFINE w == SubSeq(work, 1, Len(work) - 1)
           f == CurrentFrame
           b == pending.block
           iblock == IF b # 0 THEN b ELSE f.b1
           point == IF b # 0 THEN b ELSE insert
           kids == tree[f.no].kids
           g == [f EXCEPT !.i = @ + 1, !.b1 = iblock, !.at = point]
<1>1. /\ Back("list") /\ insert' = point
      /\ UNCHANGED <<phase, treeVars, synames, blocks, current_func, modnames, unresolved>>
  BY DEF ListNext
<1>2. /\ w \in Seq(WorkFrame) /\ f \in WorkFrame /\ f.k = "list" /\ work = Append(w, f)
      /\ WorkShape(w) /\ FrameOn(f, w) /\ Apart(w)
      /\ b \in Nat /\ Target \notin HeldBy(w)
      /\ Blocks(blocks, HeldBy(w) \cup Held(f) \cup {Target})
      /\ b = 0 => insert = f.at /\ Target = insert
      /\ b # 0 => Target = b
  BY <1>1, BackFacts
<1>3. point = Target /\ point \in Nat /\ insert \in Nat
  BY <1>2, GenFacts
<1>4. Held(f) = {}
  BY <1>2 DEF Held
<1>5. Rest
  BY <1>1, GenFacts DEF Rest, GenInv
<1>6. /\ f.no \in DOMAIN tree /\ tree[f.no].type \in ListType
      /\ f.b1 # 0 => f.b1 = f.at
      /\ f.b1 = 0 /\ w # <<>> => f.at = w[Len(w)].at
  BY <1>2 DEF FrameOn
<1>7. f.b1 \in Nat /\ f.i \in Nat /\ iblock \in Nat /\ f.no \in Nat /\ f.b2 \in Nat
  BY <1>2 DEF WorkFrame
<1>8. CASE /\ f.i < Len(kids)
           /\ work' = [work EXCEPT ![Len(work)] = g] /\ pending' = Gen(kids[f.i + 1])
  <2>1. g \in WorkFrame /\ g.k = "list" /\ g.no = f.no /\ g.b1 = iblock /\ g.at = point
    <3> DEFINE i == f.i + 1
    <3>1. g = [f EXCEPT !.i = i, !.b1 = iblock, !.at = point]
      BY Zenon
    <3>2. i \in Nat
      BY <1>7
    <3>3. f \in WorkFrame /\ iblock \in Nat /\ point \in Nat
      BY <1>2, <1>3, <1>7
    <3> HIDE DEF f, g, i, iblock, point
    <3>4. g \in WorkFrame /\ g.k = f.k /\ g.no = f.no /\ g.b1 = iblock /\ g.at = point
      <4>1. /\ f.k \in FrameKind /\ f.no \in Nat /\ f.b2 \in Nat
            /\ g = [k |-> f.k, no |-> f.no, i |-> i, b1 |-> iblock, b2 |-> f.b2, at |-> point]
        BY <3>1, <3>3 DEF WorkFrame
      <4> QED BY <3>2, <3>3, <4>1 DEF WorkFrame
    <3> QED BY <1>2, <3>4
  <2> HIDE DEF g
  <2>2. work' = Append(w, g)
    BY <1>2, <1>8, <2>1, TopReplaced
  <2>3. FrameOn(g, w)
    <3>1. iblock # 0 => iblock = point
      BY <1>2, <1>6
    <3>2. iblock = 0 => f.b1 = 0 /\ point = f.at
      BY <1>2
    <3> QED BY <1>6, <2>1, <3>1, <3>2 DEF FrameOn
  <2>4. Held(g) = {}
    BY <2>1 DEF Held
  <2>5. kids[f.i + 1] \in Nat /\ kids[f.i + 1] \in DOMAIN tree \cup {0}
    <3>1. tree[f.no] \in NodeRec /\ NodeShape(tree, tree[f.no])
      BY <1>6, GenFacts DEF GenInv, ParseInv, TreeShape
    <3>2. kids \in Seq(Nat)
      BY <3>1 DEF NodeRec
    <3>3. f.i + 1 \in DOMAIN kids
      BY <1>7, <1>8, <3>2
    <3> QED BY <3>1, <3>2, <3>3 DEF NodeShape
  <2> DEFINE no == kids[f.i + 1]
  <2>6. pending' = Gen(no) /\ no \in Nat /\ no \in DOMAIN tree \cup {0}
    BY <1>8, <2>5
  <2>7. /\ insert' = point /\ point \notin HeldBy(w) /\ point \notin Held(g)
        /\ Blocks(blocks', HeldBy(w) \cup Held(g) \cup {point})
    <3>1. Held(f) = {} /\ Held(g) = {}
      BY <1>4, <2>4
    <3>2. HeldBy(w) \cup Held(f) \cup {Target} = HeldBy(w) \cup Held(g) \cup {point}
      BY <1>3, <3>1
    <3>3. blocks' = blocks /\ insert' = point
      BY <1>1
    <3> HIDE DEF w, f, point
    <3> QED BY <1>2, <1>3, <3>1, <3>2, <3>3
  <2> HIDE DEF no, w, f, point, iblock
  <2> QED BY <1>2, <1>3, <1>5, <2>1, <2>2, <2>3, <2>4, <2>6, <2>7, SettleGen
<1>9. CASE f.i >= Len(kids) /\ PopFrame /\ pending' = Ret(iblock)
  <2>1. work' = w
    BY <1>9 DEF PopFrame
  <2> DEFINE t == IF iblock # 0 THEN iblock ELSE insert'
  <2>2. t = point
    BY <1>1, <1>2, <1>6, <1>3
  <2>3. iblock # 0 => insert' = iblock
    BY <1>1, <1>2, <1>6, <1>3
  <2>4. iblock = 0 /\ w # <<>> => insert' = Last(w).at
    BY <1>1, <1>2, <1>6 DEF Last
  <2>5. t \notin HeldBy(w) /\ Blocks(blocks', HeldBy(w) \cup {t}) /\ insert' \in Nat
    <3>1. HeldBy(w) \cup Held(f) \cup {Target} = HeldBy(w) \cup {Target}
      BY <1>4
    <3>2. blocks' = blocks
      BY <1>1
    <3> QED BY <1>1, <1>2, <1>3, <2>2, <3>1, <3>2
  <2>6. pending' = Ret(iblock)
    BY <1>9
  <2> HIDE DEF w, iblock, t
  <2>7. t = (IF iblock # 0 THEN iblock ELSE insert')
    BY DEF t
  <2> QED BY <1>2, <1>5, <1>7, <2>1, <2>3, <2>4, <2>5, <2>6, <2>7, SettleRet
<1>10. \/ /\ f.i < Len(kids)
          /\ work' = [work EXCEPT ![Len(work)] = g] /\ pending' = Gen(kids[f.i + 1])
       \/ f.i >= Len(kids) /\ PopFrame /\ pending' = Ret(iblock)
  BY DEF ListNext
<1> QED BY <1>8, <1>9, <1>10

-----------------------------------------------------------------------------
(* The children that WHILE, IF and FUNCTION are generated from are bodies.  *)
LEMMA BodyKid ==
  ASSUME GenInv, NEW no \in DOMAIN tree, tree[no].type \in {"WHILE", "IF", "FUNC"}
  PROVE  /\ tree[no].kids[1] \in Nat /\ tree[no].kids[1] \in DOMAIN tree
         /\ tree[no].kids[1] # 0 /\ tree[tree[no].kids[1]].type \in BodyType
         /\ Len(tree[no].kids) > 1 =>
              /\ tree[no].kids[2] \in Nat /\ tree[no].kids[2] \in DOMAIN tree
              /\ tree[no].kids[2] # 0 /\ tree[tree[no].kids[2]].type \in BodyType
<1>1. tree \in Seq(NodeRec) /\ NodeShape(tree, tree[no])
  BY GenFacts DEF GenInv, ParseInv, TreeShape
<1>2. tree[no] \in NodeRec /\ 0 \notin DOMAIN tree /\ \A n \in DOMAIN tree : n \in Nat
  BY <1>1
<1>3. tree[no].kids \in Seq(Nat) /\ tree[no].kids # <<>>
  BY <1>1, <1>2 DEF NodeShape, BodyType, NodeRec
<1>4. 1 \in DOMAIN tree[no].kids /\ (Len(tree[no].kids) > 1 => 2 \in DOMAIN tree[no].kids)
  BY <1>3
<1>5. \A k \in DOMAIN tree[no].kids : tree[no].kids[k] \in DOMAIN tree
                                      /\ tree[tree[no].kids[k]].type \in BodyType
  BY <1>1 DEF NodeShape
<1> QED BY <1>2, <1>4, <1>5

(* The expressions of the node of a call. *)
LEMMA CallEval ==
  ASSUME GenInv, NEW types, Called(types)
  PROVE  Plain(EvalCode(No, N, Env))
BY CalledFacts, EnvType, EvalPlain

LEMMA Terminated ==
  ASSUME NEW op \in Terminator, NEW no \in Nat, NEW to \in Seq(Nat)
  PROVE  /\ Ending(<<I(op, no, {}, to)>>)
         /\ \A code : Plain(code) => Ending(code \o <<I(op, no, {}, to)>>)
<1> DEFINE i == I(op, no, {}, to)
<1>1. i \in Instr /\ i.op \in Terminator
  BY InstrType DEF InstrOp
<1> HIDE DEF i
<1>2. Ending(<<i>>) /\ \A code : Plain(code) => Ending(code \o <<i>>)
  BY <1>1, EndingOne, EndingAppend
<1> QED BY <1>2 DEF i

(* What GenWhile, GenIf do to the variables that are not control. *)
LEMMA EvalRest ==
  ASSUME GenInv, NEW types, Called(types), DeclareCalls(N, modnames),
         UNCHANGED <<phase, treeVars, synames, current_func>>
  PROVE  Rest
<1>1. N \in NodeRec
  BY CalledFacts
<1>2. modnames' \subseteq Name /\ unresolved' \subseteq Name
  BY <1>1, GenFacts, DeclaredNames
<1> QED BY <1>2, GenFacts DEF Rest, GenInv

LEMMA GenWhileKeeps == ASSUME GenInv, GenWhile PROVE GenOutcome
<1> DEFINE n == Len(blocks) + 1
           m == Len(blocks) + 2
           one == NewBlock(blocks, current_func)
           two == NewBlock(one, current_func)
           jump == <<I("br", No, {}, <<n>>)>>
           f == [k |-> "while", no |-> No, i |-> 1, b1 |-> n, b2 |-> m, at |-> m]
           no == N.kids[1]
           open == HeldBy(work) \cup {insert}
<1>1. /\ Called({"WHILE"}) /\ DeclareCalls(N, modnames)
      /\ blocks' = Emit(Emit(two, insert, jump), n, EvalCode(No, N, Env))
      /\ insert' = m /\ work' = Append(work, f) /\ pending' = Gen(no)
      /\ UNCHANGED <<phase, treeVars, synames, current_func>>
  BY DEF GenWhile, Push
<1>2. /\ No \in DOMAIN tree /\ No \in Nat /\ N.type \in {"WHILE"}
      /\ N.type \notin BodyType => work # <<>> /\ Last(work).k = "list"
      /\ insert \notin HeldBy(work) /\ Blocks(blocks, open)
  BY <1>1, CalledFacts
<1>3. work \in Seq(WorkFrame) /\ WorkShape(work) /\ Apart(work) /\ current_func \in Nat
  BY GenFacts
<1>4. no \in Nat /\ no \in DOMAIN tree /\ no # 0 /\ tree[no].type \in BodyType
  BY <1>2, BodyKid DEF N
<1>5. /\ Blocks(one, open \cup {n}) /\ Len(one) = n /\ n \notin open /\ n \in Nat /\ n # 0
  <2>1. Len(blocks) \in Nat
    BY <1>2 DEF Blocks
  <2> QED BY <1>2, <1>3, <2>1, NewOpen
<1>6. Blocks(two, open \cup {n} \cup {m}) /\ m \notin open \cup {n} /\ m \in Nat
  <2>1. Len(one) + 1 = m
    BY <1>5
  <2>2. m \in Nat
    BY <1>5
  <2> HIDE DEF one, n, m, open
  <2> QED BY <1>3, <1>5, <2>1, <2>2, NewOpen
<1>7. Ending(jump)
  <2>1. "br" \in Terminator
    BY DEF Terminator
  <2>2. <<n>> \in Seq(Nat)
    BY <1>5
  <2> HIDE DEF n
  <2> QED BY <1>2, <2>1, <2>2, Terminated
<1>8. Plain(EvalCode(No, N, Env))
  BY <1>1, CallEval
<1>9. Blocks(blocks', HeldBy(work) \cup {n} \cup {m})
  <2>1. Blocks(Emit(two, insert, jump), (open \cup {n} \cup {m}) \ {insert})
    <3> HIDE DEF two, n, m, jump
    <3> QED BY <1>6, <1>7, EmitEnding
  <2>2. (open \cup {n} \cup {m}) \ {insert} = HeldBy(work) \cup {n} \cup {m}
    <3> HIDE DEF n, m
    <3> QED BY <1>2, <1>5, <1>6
  <2> DEFINE three == Emit(two, insert, jump)
  <2> HIDE DEF n, m, open
  <2>3. Blocks(three, HeldBy(work) \cup {n} \cup {m})
    BY <2>1, <2>2
  <2>4. blocks' = Emit(three, n, EvalCode(No, N, Env))
    BY <1>1
  <2> HIDE DEF three
  <2> QED BY <1>8, <2>3, <2>4, EmitPlain
<1>10. f \in WorkFrame /\ f.k = "while" /\ f.no = No /\ f.b1 = n /\ f.b2 = m /\ f.at = m
  <2> HIDE DEF n, m
  <2> QED BY <1>2, <1>5, <1>6 DEF WorkFrame, FrameKind
<1>11. Rest
  BY <1>1, EvalRest
<1>12. work # <<>> /\ work[Len(work)].k = "list"
  BY <1>2 DEF BodyType, ListType, Last
<1> HIDE DEF f, n, m, no, open
<1>13. FrameOn(f, work)
  BY <1>2, <1>10, <1>12 DEF FrameOn
<1>14. Held(f) = {n}
  BY <1>10 DEF Held
<1>15. /\ insert' = m /\ f.at = m /\ m \notin HeldBy(work) /\ m \notin Held(f)
       /\ Held(f) \cap HeldBy(work) = {}
       /\ Blocks(blocks', HeldBy(work) \cup Held(f) \cup {m})
  BY <1>1, <1>5, <1>6, <1>9, <1>10, <1>14 DEF open
<1> QED BY <1>1, <1>3, <1>4, <1>6, <1>10, <1>11, <1>13, <1>15, SettleGen

LEMMA WhileDoneKeeps == ASSUME GenInv, WhileDone PROVE GenOutcome
<1> DEFINE w == SubSeq(work, 1, Len(work) - 1)
           f == CurrentFrame
           last == IF pending.block # 0 THEN pending.block ELSE f.b2
           n == Len(blocks) + 1
           one == NewBlock(blocks, current_func)
           test == <<I("condbr", f.no, {}, <<f.b2, n>>)>>
           jump == <<I("br", f.no, {}, <<f.b1>>)>>
           two == Emit(one, f.b1, test)
<1>1. /\ Back("while") /\ blocks' = Emit(two, last, jump) /\ insert' = last
      /\ work' = w /\ pending' = Ret(n)
      /\ UNCHANGED <<phase, treeVars, synames, current_func, modnames, unresolved>>
  BY DEF WhileDone, PopFrame
<1>2. /\ w \in Seq(WorkFrame) /\ f \in WorkFrame /\ f.k = "while"
      /\ WorkShape(w) /\ FrameOn(f, w) /\ Apart(w) /\ Held(f) \cap HeldBy(w) = {}
      /\ Target \notin HeldBy(w) /\ Target \notin Held(f)
      /\ Blocks(blocks, HeldBy(w) \cup Held(f) \cup {Target})
      /\ pending.block = 0 => insert = f.at
      /\ pending.block # 0 => Target = pending.block
      /\ Target = insert
  <2>1. Back("while") /\ "while" # "list"
    BY <1>1
  <2> QED BY <2>1, BackFacts
<1>3. w # <<>> /\ Last(w).k = "list" /\ f.at = f.b2
  BY <1>2 DEF FrameOn, Last
<1>4. last = Target /\ Held(f) = {f.b1} /\ Target \in Nat /\ current_func \in Nat
  BY <1>2, <1>3, GenFacts DEF Held
<1>5. f.b1 \in Nat /\ f.b2 \in Nat /\ f.no \in Nat
  BY <1>2 DEF WorkFrame
<1> HIDE DEF w, f, last
<1> DEFINE open == HeldBy(w) \cup Held(f) \cup {Target}
<1>6. Blocks(one, open \cup {n}) /\ n \notin open /\ n \in Nat /\ n # 0
  <2>1. Len(blocks) \in Nat
    BY <1>2 DEF Blocks
  <2>2. Blocks(blocks, open)
    BY <1>2
  <2> HIDE DEF open
  <2> QED BY <1>4, <2>1, <2>2, NewOpen
<1>7. Ending(test) /\ Ending(jump)
  <2>1. {"br", "condbr"} \subseteq Terminator
    BY DEF Terminator
  <2>2. <<f.b2, n>> \in Seq(Nat) /\ <<f.b1>> \in Seq(Nat)
    BY <1>5, <1>6
  <2> HIDE DEF n
  <2> QED BY <1>5, <2>1, <2>2, Terminated
<1> HIDE DEF n, one, test, jump
<1>8. Blocks(two, (open \cup {n}) \ {f.b1})
  BY <1>4, <1>6, <1>7, EmitEnding
<1> HIDE DEF two
<1>9. Blocks(blocks', ((open \cup {n}) \ {f.b1}) \ {Target})
  <2>1. Target \in (open \cup {n}) \ {f.b1}
    BY <1>2, <1>4
  <2> HIDE DEF open
  <2> QED BY <1>1, <1>4, <1>7, <1>8, <2>1, EmitEnding
<1>10. ((open \cup {n}) \ {f.b1}) \ {Target} = HeldBy(w) \cup {n}
  BY <1>2, <1>4, <1>6
<1>11. Blocks(blocks', HeldBy(w) \cup {n}) /\ n \notin HeldBy(w)
  BY <1>6, <1>9, <1>10
<1>12. Rest
  BY <1>1, GenFacts DEF Rest, GenInv
<1> DEFINE t == IF n # 0 THEN n ELSE insert'
<1>13. t = n /\ insert' \in Nat
  BY <1>1, <1>4, <1>6
<1>14. t \notin HeldBy(w) /\ Blocks(blocks', HeldBy(w) \cup {t})
  BY <1>11, <1>13
<1>15. t = (IF n # 0 THEN n ELSE insert')
  OBVIOUS
<1> HIDE DEF t
<1> QED BY <1>1, <1>2, <1>3, <1>6, <1>12, <1>13, <1>14, <1>15, SettleRet

LEMMA GenIfKeeps == ASSUME GenInv, GenIf PROVE GenOutcome
<1> DEFINE n == Len(blocks) + 1
           hasElse == Len(N.kids) > 1
           elseif == IF hasElse THEN n + 1 ELSE 0
           endif == IF hasElse THEN n + 2 ELSE n + 1
           one == NewBlock(blocks, current_func)
           two == NewBlock(one, current_func)
           made == IF hasElse THEN NewBlock(two, current_func) ELSE two
           to == <<n, IF hasElse THEN elseif ELSE endif>>
           code == EvalCode(No, N, Env) \o <<I("condbr", No, {}, to)>>
           f == [k |-> "then", no |-> No, i |-> 1, b1 |-> endif, b2 |-> elseif, at |-> n]
           no == N.kids[1]
           open == HeldBy(work) \cup {insert}
<1>1. /\ Called({"IF"}) /\ DeclareCalls(N, modnames)
      /\ blocks' = Emit(made, insert, code)
      /\ insert' = n /\ work' = Append(work, f) /\ pending' = Gen(no)
      /\ UNCHANGED <<phase, treeVars, synames, current_func>>
  BY DEF GenIf, Push
<1>2. /\ No \in DOMAIN tree /\ No \in Nat /\ N.type \in {"IF"}
      /\ insert \notin HeldBy(work) /\ Blocks(blocks, open)
  BY <1>1, CalledFacts
<1>3. work \in Seq(WorkFrame) /\ WorkShape(work) /\ Apart(work) /\ current_func \in Nat
  BY GenFacts
<1>4. no \in Nat /\ no \in DOMAIN tree /\ no # 0 /\ tree[no].type \in BodyType
  BY <1>2, BodyKid DEF N
<1>5. /\ Blocks(one, open \cup {n}) /\ Len(one) = n /\ n \notin open /\ n \in Nat /\ n # 0
  <2>1. Len(blocks) \in Nat
    BY <1>2 DEF Blocks
  <2> HIDE DEF open
  <2>2. Blocks(blocks, open) /\ current_func \in Nat
    BY <1>2, <1>3
  <2>3. /\ Blocks(one, open \cup {n}) /\ Len(one) = n /\ n \notin open
    BY <2>2, NewOpen
  <2> QED BY <2>1, <2>3
<1> HIDE DEF one, open, n
<1>6. /\ Blocks(two, open \cup {n} \cup {n + 1}) /\ Len(two) = n + 1
      /\ n + 1 \notin open \cup {n}
  BY <1>3, <1>5, NewOpen
<1> HIDE DEF two
<1>7. /\ Blocks(NewBlock(two, current_func), open \cup {n} \cup {n + 1} \cup {n + 2})
      /\ n + 2 \notin open \cup {n} \cup {n + 1}
  <2> DEFINE m == n + 2
             now == open \cup {n} \cup {n + 1}
  <2>1. Len(two) + 1 = m
    BY <1>5, <1>6
  <2>2. Blocks(two, now)
    BY <1>6
  <2> HIDE DEF m, now
  <2>3. Blocks(NewBlock(two, current_func), now \cup {m}) /\ m \notin now
    BY <1>3, <2>1, <2>2, NewOpen
  <2> QED BY <2>3 DEF m, now
<1>8. /\ endif \in Nat /\ elseif \in Nat /\ endif # 0 /\ endif # elseif
      /\ n # elseif /\ n # endif
      /\ elseif # 0 => hasElse
  BY <1>5
<1>9. {endif, elseif} \ {0} = IF hasElse THEN {n + 1, n + 2} ELSE {n + 1}
  BY <1>5
<1>10. ({endif, elseif} \ {0}) \cap (open \cup {n}) = {}
  BY <1>6, <1>7, <1>9
<1>11. Blocks(made, open \cup {n} \cup ({endif, elseif} \ {0}))
  <2>1. CASE hasElse
    <3>1. open \cup {n} \cup ({endif, elseif} \ {0}) = open \cup {n} \cup {n + 1} \cup {n + 2}
      BY <1>9, <2>1
    <3>2. made = NewBlock(two, current_func)
      BY <2>1
    <3> QED BY <1>7, <3>1, <3>2
  <2>2. CASE ~hasElse
    <3>1. open \cup {n} \cup ({endif, elseif} \ {0}) = open \cup {n} \cup {n + 1}
      BY <1>9, <2>2
    <3>2. made = two
      BY <2>2
    <3> QED BY <1>6, <3>1, <3>2
  <2> QED BY <2>1, <2>2
<1>12. Ending(code)
  <2>1. "condbr" \in Terminator
    BY DEF Terminator
  <2>2. to \in Seq(Nat)
    BY <1>5, <1>8
  <2>3. Plain(EvalCode(No, N, Env))
    BY <1>1, CallEval
  <2> HIDE DEF to
  <2> QED BY <1>2, <2>1, <2>2, <2>3, Terminated
<1>13. f \in WorkFrame /\ f.k = "then" /\ f.no = No /\ f.b1 = endif /\ f.b2 = elseif /\ f.at = n
  <2> HIDE DEF endif, elseif
  <2> QED BY <1>2, <1>5, <1>8 DEF WorkFrame, FrameKind
<1>14. Rest
  BY <1>1, EvalRest
<1>15. f.b2 # 0 => tree[No].type = "IF" /\ Len(tree[No].kids) > 1
  BY <1>2, <1>8, <1>13 DEF N
<1> HIDE DEF f, no, made, code, endif, elseif
<1>16. FrameOn(f, work)
  BY <1>2, <1>8, <1>13, <1>15 DEF FrameOn
<1>17. Held(f) = {endif, elseif} \ {0}
  BY <1>13 DEF Held
<1>18. Blocks(blocks', HeldBy(work) \cup Held(f) \cup {n})
  <2>1. insert \in open \cup {n} \cup ({endif, elseif} \ {0})
    BY DEF open
  <2>2. Blocks(Emit(made, insert, code), (open \cup {n} \cup ({endif, elseif} \ {0})) \ {insert})
    BY <1>11, <1>12, <2>1, EmitEnding
  <2>3. (open \cup {n} \cup ({endif, elseif} \ {0})) \ {insert}
          = HeldBy(work) \cup Held(f) \cup {n}
    BY <1>2, <1>5, <1>10, <1>17 DEF open
  <2> QED BY <1>1, <2>2, <2>3
<1>19. /\ f.at = n /\ n \notin HeldBy(work) /\ n \notin Held(f)
       /\ Held(f) \cap HeldBy(work) = {}
  BY <1>5, <1>8, <1>10, <1>13, <1>17 DEF open
<1>20. insert' = n /\ work' = Append(work, f) /\ pending' = Gen(no)
  BY <1>1
<1> QED BY <1>3, <1>4, <1>5, <1>13, <1>14, <1>16, <1>18, <1>19, <1>20, SettleGen

(* After the first list of an if: what is still open.                       *)
LEMMA ThenFacts ==
  ASSUME GenInv, NEW kind \in {"then", "else"}, Back(kind),
         NEW w, w = SubSeq(work, 1, Len(work) - 1), NEW f, f = CurrentFrame
  PROVE  /\ BranchPoint(f) = Target
         /\ f.b1 \in Nat /\ f.b2 \in Nat /\ f.b1 # 0 /\ f.b1 # f.b2
         /\ Held(f) = IF kind = "then" THEN {f.b1, f.b2} \ {0} ELSE {f.b1}
         /\ \A bs : /\ bs = Emit(blocks, BranchPoint(f), <<I("br", f.no, {}, <<f.b1>>)>>)
                    => Blocks(bs, HeldBy(w) \cup Held(f))
<1>1. kind # "list"
  OBVIOUS
<1>2. /\ w \in Seq(WorkFrame) /\ f \in WorkFrame /\ f.k = kind /\ FrameOn(f, w)
      /\ Target \notin HeldBy(w) /\ Target \notin Held(f)
      /\ Blocks(blocks, HeldBy(w) \cup Held(f) \cup {Target})
      /\ pending.block # 0 => Target = pending.block
      /\ Target = insert
  BY <1>1, BackFacts
<1>3. BranchPoint(f) = Target
  BY <1>2 DEF BranchPoint
<1>4. f.b1 \in Nat /\ f.b2 \in Nat /\ f.no \in Nat
  BY <1>2 DEF WorkFrame
<1>5. f.b1 # 0 /\ f.b1 # f.b2
  BY <1>2 DEF FrameOn
<1>6. Held(f) = IF kind = "then" THEN {f.b1, f.b2} \ {0} ELSE {f.b1}
  BY <1>2 DEF Held
<1> DEFINE jump == <<I("br", f.no, {}, <<f.b1>>)>>
<1>7. Ending(jump)
  <2>1. "br" \in Terminator /\ <<f.b1>> \in Seq(Nat)
    BY <1>4 DEF Terminator
  <2> QED BY <1>4, <2>1, Terminated
<1> HIDE DEF jump
<1>8. Blocks(Emit(blocks, Target, jump), HeldBy(w) \cup Held(f))
  <2> DEFINE open == HeldBy(w) \cup Held(f) \cup {Target}
  <2>1. Blocks(blocks, open) /\ Target \in open /\ open \ {Target} = HeldBy(w) \cup Held(f)
    BY <1>2
  <2> HIDE DEF open
  <2> QED BY <1>7, <2>1, EmitEnding
<1> QED BY <1>3, <1>4, <1>5, <1>6, <1>8 DEF jump

LEMMA IfDoneKeeps == ASSUME GenInv, IfDone PROVE GenOutcome
<1> DEFINE w == SubSeq(work, 1, Len(work) - 1)
           f == CurrentFrame
<1>1. /\ (Back("then") /\ f.b2 = 0) \/ Back("else")
      /\ blocks' = Emit(blocks, BranchPoint(f), <<I("br", f.no, {}, <<f.b1>>)>>)
      /\ insert' = f.b1 /\ work' = w /\ pending' = Ret(f.b1)
      /\ UNCHANGED <<phase, treeVars, synames, current_func, modnames, unresolved>>
  BY DEF IfDone, PopFrame
<1>2. PICK kind \in {"then", "else"} : Back(kind) /\ (kind = "then" => f.b2 = 0)
  BY <1>1
<1>3. /\ f.b1 \in Nat /\ f.b1 # 0 /\ Held(f) = {f.b1}
      /\ Blocks(blocks', HeldBy(w) \cup Held(f))
  BY <1>1, <1>2, ThenFacts
<1>4. /\ w \in Seq(WorkFrame) /\ WorkShape(w) /\ Apart(w) /\ Held(f) \cap HeldBy(w) = {}
  BY <1>2, BackFacts
<1>5. Rest
  BY <1>1, GenFacts DEF Rest, GenInv
<1> DEFINE b == f.b1
<1>6. /\ b \in Nat /\ b # 0 /\ insert' = b /\ pending' = Ret(b) /\ work' = w
      /\ b \notin HeldBy(w) /\ Blocks(blocks', HeldBy(w) \cup {b})
  BY <1>1, <1>3, <1>4
<1> HIDE DEF b, w, f
<1>7. b = (IF b # 0 THEN b ELSE insert')
  BY <1>6
<1> QED BY <1>4, <1>5, <1>6, <1>7, SettleRet

LEMMA ThenDoneKeeps == ASSUME GenInv, ThenDone PROVE GenOutcome
<1> DEFINE w == SubSeq(work, 1, Len(work) - 1)
           f == CurrentFrame
           g == [f EXCEPT !.k = "else", !.b2 = 0, !.at = f.b2]
           no == tree[f.no].kids[2]
           t == f.b2
<1>1. /\ Back("then") /\ f.b2 # 0
      /\ blocks' = Emit(blocks, BranchPoint(f), <<I("br", f.no, {}, <<f.b1>>)>>)
      /\ insert' = t /\ work' = [work EXCEPT ![Len(work)] = g] /\ pending' = Gen(no)
      /\ UNCHANGED <<phase, treeVars, synames, current_func, modnames, unresolved>>
  BY DEF ThenDone
<1>2. /\ f.b1 \in Nat /\ f.b2 \in Nat /\ f.b1 # 0 /\ f.b1 # f.b2
      /\ Held(f) = {f.b1, f.b2}
      /\ Blocks(blocks', HeldBy(w) \cup Held(f))
  <2>1. "then" \in {"then", "else"} /\ Back("then")
    BY <1>1
  <2>2. /\ f.b1 \in Nat /\ f.b2 \in Nat /\ f.b1 # 0 /\ f.b1 # f.b2
        /\ Held(f) = {f.b1, f.b2} \ {0} /\ Blocks(blocks', HeldBy(w) \cup Held(f))
    BY <1>1, <2>1, ThenFacts
  <2> QED BY <1>1, <2>2
<1>3. /\ w \in Seq(WorkFrame) /\ f \in WorkFrame /\ f.k = "then" /\ work = Append(w, f)
      /\ WorkShape(w) /\ FrameOn(f, w) /\ Apart(w) /\ Held(f) \cap HeldBy(w) = {}
  BY <1>1, BackFacts
<1>4. Rest
  BY <1>1, GenFacts DEF Rest, GenInv
<1>5. f.no \in DOMAIN tree /\ tree[f.no].type = "IF" /\ Len(tree[f.no].kids) > 1
  BY <1>1, <1>3 DEF FrameOn
<1>6. no \in Nat /\ no \in DOMAIN tree /\ no # 0 /\ tree[no].type \in BodyType
  BY <1>5, BodyKid
<1>7. g \in WorkFrame /\ g.k = "else" /\ g.no = f.no /\ g.b1 = f.b1 /\ g.b2 = 0 /\ g.at = t
  <2>1. /\ f.no \in Nat /\ f.i \in Nat /\ f.b1 \in Nat
        /\ g = [k |-> "else", no |-> f.no, i |-> f.i, b1 |-> f.b1, b2 |-> 0, at |-> t]
    <3>1. f \in WorkFrame
      BY <1>3
    <3> HIDE DEF f
    <3> DEFINE e == "else"
               z == 0
    <3>2. g = [f EXCEPT !.k = e, !.b2 = z, !.at = t]
      BY Zenon
    <3> HIDE DEF g, t, e, z
    <3>3. /\ f.no \in Nat /\ f.i \in Nat /\ f.b1 \in Nat
          /\ g = [k |-> e, no |-> f.no, i |-> f.i, b1 |-> f.b1, b2 |-> z, at |-> t]
      BY <3>1, <3>2 DEF WorkFrame
    <3> QED BY <3>3 DEF e, z
  <2> HIDE DEF f, t
  <2> HIDE DEF g
  <2>2. t \in Nat
    BY <1>2 DEF t
  <2>3. "else" \in FrameKind
    BY DEF FrameKind
  <2> QED BY <2>1, <2>2, <2>3 DEF WorkFrame
<1> HIDE DEF f, w, g, no
<1>8. work' = Append(w, g)
  BY <1>1, <1>3, <1>7, TopReplaced
<1>9. FrameOn(g, w)
  BY <1>2, <1>5, <1>7 DEF FrameOn
<1>10. Held(g) = {f.b1}
  BY <1>7 DEF Held
<1>11. /\ t \in Nat /\ t \notin HeldBy(w) /\ t \notin Held(g)
       /\ Held(g) \cap HeldBy(w) = {} /\ g.at = t /\ insert' = t
       /\ HeldBy(w) \cup Held(g) \cup {t} = HeldBy(w) \cup Held(f)
  BY <1>1, <1>2, <1>3, <1>7, <1>10
<1>12. Blocks(blocks', HeldBy(w) \cup Held(g) \cup {t}) /\ pending' = Gen(no)
  BY <1>1, <1>2, <1>11
<1> HIDE DEF t
<1> QED BY <1>3, <1>4, <1>6, <1>7, <1>8, <1>9, <1>11, <1>12, SettleGen

-----------------------------------------------------------------------------
LEMMA GenFuncKeeps == ASSUME GenInv, GenFunc PROVE GenOutcome
<1> DEFINE n == Len(blocks) + 1
           f == [k |-> "func", no |-> No, i |-> 1, b1 |-> insert, b2 |-> 0, at |-> n]
           v == [kind |-> "func", at |-> n]
           no == N.kids[1]
           open == HeldBy(work) \cup {insert}
<1>1. /\ Called({"FUNC"}) /\ modnames' = modnames \cup {N.name}
      /\ synames' = [synames EXCEPT ![search_symbol(synames, N.name)].llvm = v]
      /\ blocks' = NewBlock(blocks, n) /\ current_func' = n
      /\ insert' = n /\ work' = Append(work, f) /\ pending' = Gen(no)
      /\ UNCHANGED <<phase, treeVars, unresolved>>
  BY DEF GenFunc, Push
<1>2. /\ No \in DOMAIN tree /\ No \in Nat /\ N.type \in {"FUNC"}
      /\ N.type \notin BodyType => work # <<>> /\ Last(work).k = "list"
      /\ work # <<>> => insert = Last(work).at
      /\ insert \notin HeldBy(work) /\ Blocks(blocks, open)
  BY <1>1, CalledFacts
<1>3. /\ work \in Seq(WorkFrame) /\ WorkShape(work) /\ Apart(work) /\ insert \in Nat
      /\ synames \in Seq(Symbol) /\ modnames \subseteq Name /\ unresolved \subseteq Name
  BY GenFacts
<1>4. no \in Nat /\ no \in DOMAIN tree /\ no # 0 /\ tree[no].type \in BodyType
  BY <1>2, BodyKid DEF N
<1>5. n \in Nat
  <2>1. Len(blocks) \in Nat
    BY <1>2 DEF Blocks
  <2> QED BY <2>1
<1>6. Blocks(blocks', open \cup {n}) /\ n \notin open
  <2> HIDE DEF open
  <2>1. Blocks(blocks, open)
    BY <1>2
  <2>2. \A k \in Nat : Blocks(NewBlock(blocks, k), open \cup {n}) /\ n \notin open
    BY <2>1, NewOpen
  <2> QED BY <1>1, <1>5, <2>2
<1>7. Rest
  <2>1. N.name \in Name
    <3>1. "FUNC" \in NamedType
      BY DEF NamedType
    <3> QED BY <1>1, <3>1, AttrValue
  <2>2. v \in Value
    BY <1>5 DEF Value, ValueKind
  <2> HIDE DEF v
  <2>3. synames' \in Seq(Symbol)
    BY <1>1, <1>3, <2>2, SetSymbol
  <2> QED BY <1>1, <1>3, <1>5, <2>1, <2>3 DEF Rest, GenInv
<1>8. work # <<>> /\ insert = work[Len(work)].at
  BY <1>2 DEF BodyType, ListType, Last
<1> HIDE DEF n
<1>9. /\ f \in WorkFrame /\ f.k = "func" /\ f.no = No /\ f.b1 = insert /\ f.at = n
  BY <1>2, <1>3, <1>5 DEF WorkFrame, FrameKind
<1> HIDE DEF f, no
<1>10. FrameOn(f, work)
  BY <1>2, <1>8, <1>9 DEF FrameOn
<1>11. Held(f) = {insert}
  BY <1>9 DEF Held
<1>12. /\ n \notin HeldBy(work) /\ n \notin Held(f) /\ Held(f) \cap HeldBy(work) = {}
       /\ Blocks(blocks', HeldBy(work) \cup Held(f) \cup {n})
  BY <1>2, <1>6, <1>11
<1>13. insert' = n /\ work' = Append(work, f) /\ pending' = Gen(no)
  BY <1>1
<1> QED BY <1>3, <1>4, <1>5, <1>7, <1>9, <1>10, <1>12, <1>13, SettleGen

LEMMA FuncDoneKeeps == ASSUME GenInv, FuncDone PROVE GenOutcome
<1> DEFINE w == SubSeq(work, 1, Len(work) - 1)
           f == CurrentFrame
           ret == <<I("ret", f.no, {}, <<>>)>>
<1>1. /\ Back("func") /\ blocks' = Emit(blocks, insert, ret)
      /\ current_func' = main_func /\ insert' = f.b1 /\ work' = w /\ pending' = Ret(0)
      /\ UNCHANGED <<phase, treeVars, synames, modnames, unresolved>>
  BY DEF FuncDone, PopFrame, LeaveFunction
<1>2. /\ w \in Seq(WorkFrame) /\ f \in WorkFrame /\ f.k = "func"
      /\ WorkShape(w) /\ FrameOn(f, w) /\ Apart(w) /\ Held(f) \cap HeldBy(w) = {}
      /\ Target \notin HeldBy(w) /\ Target \notin Held(f)
      /\ Blocks(blocks, HeldBy(w) \cup Held(f) \cup {Target})
      /\ Target = insert
  <2>1. Back("func") /\ "func" # "list"
    BY <1>1
  <2> QED BY <2>1, BackFacts
<1>3. f.b1 \in Nat /\ f.no \in Nat
  BY <1>2 DEF WorkFrame
<1>4. Held(f) = {f.b1} /\ w # <<>> /\ f.b1 = Last(w).at
  BY <1>2 DEF FrameOn, Held, Last
<1>5. Ending(ret)
  <2>1. "ret" \in Terminator /\ <<>> \in Seq(Nat)
    BY DEF Terminator
  <2> QED BY <1>3, <2>1, Terminated
<1>6. Rest
  BY <1>1, GenFacts DEF Rest, GenInv, main_func
<1> HIDE DEF w, f, ret
<1>7. Blocks(blocks', HeldBy(w) \cup {f.b1})
  <2> DEFINE open == HeldBy(w) \cup Held(f) \cup {Target}
  <2>1. Blocks(blocks, open) /\ Target \in open /\ open \ {Target} = HeldBy(w) \cup {f.b1}
    BY <1>2, <1>4
  <2> HIDE DEF open
  <2> QED BY <1>1, <1>2, <1>5, <2>1, EmitEnding
<1> DEFINE t == f.b1
<1>8. /\ t = (IF 0 # 0 THEN 0 ELSE insert') /\ t \notin HeldBy(w) /\ t \in Nat
      /\ Blocks(blocks', HeldBy(w) \cup {t}) /\ insert' = Last(w).at /\ insert' \in Nat
  BY <1>1, <1>2, <1>3, <1>4, <1>7
<1>9. work' = w /\ pending' = Ret(0) /\ 0 \in Nat
  BY <1>1
<1> HIDE DEF t
<1> QED BY <1>2, <1>6, <1>8, <1>9, SettleRet

-----------------------------------------------------------------------------
(* How the walk begins ... *)
LEMMA SetupKeeps ==
  ASSUME ParseInv, work = <<>>, setup_llvm_global
  PROVE  GenOutcome
<1> DEFINE b == [func |-> main_func, code |-> <<>>]
<1>1. /\ phase = "setup" /\ phase' = "gen" /\ blocks' = <<b>> /\ insert' = 1
      /\ current_func' = main_func /\ pending' = Gen(root)
      /\ UNCHANGED <<treeVars, synames, modnames, unresolved, work>>
  BY DEF setup_llvm_global
<1>2. Rest
  BY <1>1 DEF Rest, ParseInv, TypeOK, CodegenTypeOK, main_func
<1>3. HeldBy(<<>>) = {} /\ Apart(<<>>) /\ WorkShape(<<>>) /\ <<>> \in Seq(WorkFrame)
  BY DEF HeldBy, Apart, WorkShape
<1>4. Blocks(blocks', {1})
  <2>1. b \in Block /\ b.code = <<>>
    BY DEF Block, main_func
  <2>2. ~IsClosed(b.code) /\ WellEnded(b.code)
    BY <2>1 DEF IsClosed, WellEnded
  <2> HIDE DEF b
  <2>3. <<b>> \in Seq(Block) /\ DOMAIN <<b>> = {1} /\ <<b>>[1] = b
    BY <2>1
  <2> QED BY <1>1, <2>2, <2>3 DEF Blocks, OpenBlocks
<1>5. /\ root \in DOMAIN tree /\ tree[root].type \in BodyType /\ root \in Nat /\ root # 0
  <2>1. tree \in Seq(NodeRec)
    BY DEF ParseInv, TypeOK
  <2> QED BY <1>1, <2>1 DEF ParseInv, RootShape, BodyType
<1>6. pending'.do = "gen" /\ pending'.no = root /\ pending' \in Pending
  BY <1>1, <1>5 DEF Gen, Pending
<1>7. Target' = 1
  BY <1>1, <1>6 DEF Target
<1>8. PendingShape'
  <2>1. tree' = tree /\ work' = <<>>
    BY <1>1 DEF treeVars
  <2> QED BY <1>5, <1>6, <2>1 DEF PendingShape
<1>9. work' = <<>> /\ insert' \in Nat
  BY <1>1
<1>10. Target' \notin HeldBy(<<>>) /\ Blocks(blocks', HeldBy(<<>>) \cup {Target'})
  BY <1>3, <1>4, <1>7
<1> QED BY <1>2, <1>3, <1>6, <1>8, <1>9, <1>10, Settle

(* ... and how it ends: the block of the last instruction was the only one  *)
(* still open.                                                              *)
LEMMA PrintKeeps ==
  ASSUME GenInv, print_llvm_ir
  PROVE  /\ phase' = "done" /\ CodegenTypeOK' /\ UNCHANGED <<treeVars, synames>>
         /\ \A b \in DOMAIN blocks' : IsClosed(blocks'[b].code) /\ WellEnded(blocks'[b].code)
<1> DEFINE ret == <<I("ret", 0, {}, <<>>)>>
<1>1. /\ work = <<>> /\ pending.do = "ret" /\ blocks' = Emit(blocks, insert, ret)
      /\ phase' = "done"
      /\ UNCHANGED <<treeVars, synames, insert, current_func, modnames, unresolved,
                     work, pending>>
  BY DEF print_llvm_ir
<1>2. HeldBy(work) = {}
  BY <1>1 DEF HeldBy
<1>3. Target = insert
  <2>1. PendingShape
    BY GenFacts
  <2> QED BY <1>1, <2>1 DEF PendingShape, TopIsList, Target
<1>4. Blocks(blocks, {insert})
  BY <1>2, <1>3, GenFacts
<1>5. Ending(ret)
  <2>1. "ret" \in Terminator /\ <<>> \in Seq(Nat)
    BY DEF Terminator
  <2> QED BY <2>1, Terminated
<1> HIDE DEF ret
<1>6. Blocks(blocks', {})
  <2>1. Blocks(blocks', {insert} \ {insert})
    BY <1>1, <1>4, <1>5, EmitEnding
  <2>2. {insert} \ {insert} = {}
    OBVIOUS
  <2> QED BY <2>1, <2>2
<1>7. CodegenTypeOK'
  BY <1>1, <1>6, GenFacts DEF CodegenTypeOK, Blocks
<1> QED BY <1>1, <1>6, <1>7 DEF Blocks, OpenBlocks

-----------------------------------------------------------------------------
(* The whole run.                                                           *)

(* The two passes of the front end build no basic block. *)
LEMMA FrontKeeps ==
  ASSUME IInv, ParserStep \/ SemanticStep
  PROVE  IInv'
<1>1. ParseInv /\ NothingAfterTerminator
  BY DEF IInv, ParseInv
<1>2. /\ ParseInv' /\ UNCHANGED codegenVars
      /\ phase \in {"parse", "collapse", "declare"}
      /\ phase' \notin {"gen", "done"}
  <2>1. CASE ParserStep
    <3>1. ParseInv' /\ phase = "parse" /\ phase' \in {"parse", "collapse", "rejected"}
      BY <1>1, <2>1, ParserStepKeeps
    <3>2. UNCHANGED codegenVars
      BY <2>1 DEF ParserStep
    <3> QED BY <3>1, <3>2
  <2>2. CASE SemanticStep
    <3>1. /\ ParseInv' /\ PassPhase
          /\ phase' \in {"collapse", "declare", "exit", "setup", "fault"}
      BY <1>1, <2>2, SemanticStepKeeps
    <3>2. UNCHANGED codegenVars
      BY <2>2 DEF SemanticStep
    <3> QED BY <3>1, <3>2 DEF PassPhase
  <2> QED BY <2>1, <2>2
<1>3. work' = <<>>
  <2>1. work = <<>>
    BY <1>2 DEF IInv
  <2> QED BY <1>2, <2>1 DEF codegenVars
<1>4. NothingAfterTerminator'
  BY <1>1, <1>2 DEF NothingAfterTerminator, codegenVars
<1>5. EveryBlockEnds' /\ (phase' = "gen" => GenShape')
  BY <1>2 DEF EveryBlockEnds
<1> QED BY <1>2, <1>3, <1>4, <1>5 DEF IInv, ParseInv

(* What a step of the code generator leaves of the other modules' parts.    *)
LEMMA GenFrame ==
  ASSUME ParseInv, UNCHANGED <<treeVars, parserVars, semanticVars>>,
         phase \in {"setup", "gen"}, phase' \in {"gen", "done", "fault"},
         synames' \in Seq(Symbol), CodegenTypeOK'
  PROVE  ParseInv'
<1>1. /\ tree' = tree /\ freed' = freed /\ root' = root /\ stack' = stack /\ read' = read
      /\ frames' = frames /\ error_count' = error_count
  BY DEF treeVars, parserVars, semanticVars
<1>2. TypeOK'
  BY <1>1 DEF ParseInv, TypeOK, ParserTypeOK, SemanticTypeOK, Phase
<1>3. TreeShape' /\ StackShape' /\ FramesShape'
  BY <1>1 DEF ParseInv, TreeShape, StackShape, ItemShape, FramesShape
<1>4. RootShape'
  BY <1>1 DEF ParseInv, RootShape
<1> QED BY <1>2, <1>3, <1>4 DEF ParseInv

LEMMA GenerateKeeps ==
  ASSUME IInv, CodegenStep
  PROVE  IInv'
<1>1. ParseInv /\ NothingAfterTerminator
  BY DEF IInv, ParseInv
<1>2. Generate /\ UNCHANGED <<parserVars, semanticVars>>
  BY DEF CodegenStep
<1>3. phase = "gen" => GenInv
  BY <1>1 DEF IInv, GenInv
<1>4. ASSUME GenOutcome, phase \in {"setup", "gen"} PROVE IInv'
  <2>1. /\ UNCHANGED treeVars /\ phase' = "gen" /\ synames' \in Seq(Symbol)
        /\ CodegenTypeOK' /\ GenShape'
        /\ \A b \in DOMAIN blocks' : WellEnded(blocks'[b].code)
    BY <1>4 DEF GenOutcome, Rest
  <2>2. ParseInv'
    BY <1>1, <1>2, <1>4, <2>1, GenFrame
  <2>3. NothingAfterTerminator' /\ EveryBlockEnds'
    BY <2>1 DEF NothingAfterTerminator, EveryBlockEnds, WellEnded
  <2> QED BY <2>1, <2>2, <2>3 DEF IInv, ParseInv
<1>5. CASE setup_llvm_global
  <2>1. phase = "setup"
    BY <1>5 DEF setup_llvm_global
  <2>2. work = <<>>
    BY <2>1 DEF IInv
  <2> QED BY <1>1, <1>4, <1>5, <2>1, <2>2, SetupKeeps
<1>6. CASE print_llvm_ir
  <2>1. phase = "gen"
    BY <1>6 DEF print_llvm_ir
  <2>2. /\ phase' = "done" /\ CodegenTypeOK' /\ UNCHANGED <<treeVars, synames>>
        /\ \A b \in DOMAIN blocks' : IsClosed(blocks'[b].code) /\ WellEnded(blocks'[b].code)
    BY <1>3, <1>6, <2>1, PrintKeeps
  <2>3. synames' \in Seq(Symbol)
    BY <1>1, <2>2 DEF ParseInv, TypeOK
  <2>4. ParseInv'
    BY <1>1, <1>2, <2>1, <2>2, <2>3, GenFrame
  <2>5. NothingAfterTerminator' /\ EveryBlockEnds'
    BY <2>2 DEF NothingAfterTerminator, EveryBlockEnds, WellEnded, IsClosed, IsTerminated
  <2> QED BY <2>2, <2>4, <2>5 DEF IInv, ParseInv
<1>7. CASE GenDies
  <2>1. /\ phase = "gen" /\ phase' = "fault" /\ UNCHANGED <<treeVars, synames, codegenVars>>
    BY <1>7 DEF GenDies, Called
  <2>2. synames' \in Seq(Symbol) /\ CodegenTypeOK'
    BY <1>1, <2>1 DEF ParseInv, TypeOK, CodegenTypeOK, codegenVars
  <2>3. ParseInv'
    BY <1>1, <1>2, <2>1, <2>2, GenFrame
  <2>4. NothingAfterTerminator' /\ EveryBlockEnds'
    BY <1>1, <2>1 DEF NothingAfterTerminator, EveryBlockEnds, codegenVars
  <2> QED BY <2>1, <2>3, <2>4 DEF IInv, ParseInv
<1>8. CASE \/ GenAttr \/ GenOut \/ GenDelay \/ GenPrnt \/ GenCall
           \/ GenList \/ ListNext \/ GenWhile \/ WhileDone \/ GenIf \/ ThenDone \/ IfDone
           \/ GenFunc \/ FuncDone
  <2>1. phase = "gen"
    BY <1>8 DEF GenAttr, GenOut, GenDelay, GenPrnt, GenCall, GenSimple, GenList, ListNext,
         GenWhile, WhileDone, GenIf, ThenDone, IfDone, GenFunc, FuncDone, Called, Back
  <2>2. GenOutcome
    BY <1>3, <1>8, <2>1, GenAttrKeeps, SimpleKeeps, GenListKeeps, ListNextKeeps,
       GenWhileKeeps, WhileDoneKeeps, GenIfKeeps, ThenDoneKeeps, IfDoneKeeps,
       GenFuncKeeps, FuncDoneKeeps
  <2> QED BY <1>4, <2>1, <2>2
<1> QED BY <1>2, <1>5, <1>6, <1>7, <1>8 DEF Generate

-----------------------------------------------------------------------------
(* A run starts with an empty tree and without blocks.                      *)
LEMMA InitKeeps == ASSUME Init PROVE IInv
<1> USE DEF Init, ParserInit, SemanticInit, CodegenInit
<1>1. TypeOK
  <2>1. pending \in Pending
    BY DEF Ret, Pending
  <2>2. ParserTypeOK /\ SemanticTypeOK
    BY DEF ParserTypeOK, SemanticTypeOK
  <2>3. CodegenTypeOK
    BY <2>1 DEF CodegenTypeOK
  <2>4. phase \in Phase
    BY DEF Phase
  <2> QED BY <2>2, <2>3, <2>4 DEF TypeOK
<1>2. TreeShape /\ StackShape /\ RootShape /\ FramesShape
  BY DEF TreeShape, StackShape, RootShape, FramesShape
<1>3. NothingAfterTerminator /\ EveryBlockEnds
  BY DEF NothingAfterTerminator, EveryBlockEnds
<1> QED BY <1>1, <1>2, <1>3 DEF IInv

LEMMA StutterKeeps == ASSUME IInv, UNCHANGED vars PROVE IInv'
BY DEF IInv, vars, TypeOK, ParserTypeOK, SemanticTypeOK, CodegenTypeOK, TreeShape, StackShape,
       ItemShape, RootShape, FramesShape, GenShape, WorkShape, FrameShape, PendingShape,
       CurrentFrame, TopIsList, BlocksShape, HeldBy, Apart, Target, NothingAfterTerminator,
       EveryBlockEnds, IsTerminated

LEMMA NextKeeps == ASSUME IInv, [Next]_vars PROVE IInv'
<1>1. CASE ParserStep \/ SemanticStep
  BY <1>1, FrontKeeps
<1>2. CASE CodegenStep
  BY <1>2, GenerateKeeps
<1>3. CASE UNCHANGED vars
  BY <1>3, StutterKeeps
<1> QED BY <1>1, <1>2, <1>3 DEF Next, Ended

(* The inductive invariant: which basic blocks are open, and which active   *)
(* call of generate_llvm_nodes will write to each of them.                  *)
THEOREM InvariantHolds == Spec => []IInv
<1>1. Init => IInv
  BY InitKeeps
<1>2. IInv /\ [Next]_vars => IInv'
  BY NextKeeps
<1> QED BY <1>1, <1>2, PTL DEF Spec

(* Every pass leaves tree, symbols, stacks and blocks well formed.          *)
THEOREM TypesHold == Spec => []TypeOK
<1>1. IInv => TypeOK
  BY DEF IInv
<1> QED BY <1>1, InvariantHolds, PTL

(* No program whatever, however its WHILE, IF and FUNCTION are nested, makes *)
(* the code generator append to a block that it has already ended.          *)
THEOREM NothingFollowsATerminator == Spec => []NothingAfterTerminator
<1>1. IInv => NothingAfterTerminator
  BY DEF IInv
<1> QED BY <1>1, InvariantHolds, PTL

(* The module that print_llvm_ir writes has no block without a terminator,  *)
(* though nested statements leave their blocks to their callers to end.     *)
THEOREM PrintedBlocksEnd == Spec => []EveryBlockEnds
<1>1. IInv => EveryBlockEnds
  BY DEF IInv
<1> QED BY <1>1, InvariantHolds, PTL

-----------------------------------------------------------------------------
(***************************************************************************)
(* Variables: each symbol keeps the value that its first assignment gave it, *)
(* and every instruction that assigns or prints a variable uses that value. *)
(***************************************************************************)
Declared(t, syms) ==
  \A n \in DOMAIN t : t[n].type \in {"ATTR", "FUNC"} => Found(syms, t[n].name)
NoBlocksYet == phase \notin {"gen", "done", "fault"} => blocks = <<>>
CodeOf(bs) == UNION {ToSet(bs[b].code) : b \in DOMAIN bs}
Accesses(i) ==
  /\ i.no \in DOMAIN tree /\ tree[i.no].name \in Name
  /\ tree[i.no].name \notin FunctionNames =>
       Env[tree[i.no].name].kind # "null" /\ i.uses = {Env[tree[i.no].name]}
IsAccess(i) == i.op \in {"store", "print"}
VariablesInv ==
  /\ Declared(tree, synames)
  /\ NoBlocksYet
  /\ \A i \in CodeOf(blocks) : IsAccess(i) => Accesses(i)

(* Symbols are found where they were. *)
LEMMA FoundStill ==
  ASSUME NEW syms \in Seq(Symbol), NEW new \in Seq(Symbol), DOMAIN new = DOMAIN syms,
         \A i \in DOMAIN syms : new[i].name = syms[i].name, NEW name
  PROVE  /\ search_symbol(new, name) = search_symbol(syms, name)
         /\ Found(new, name) <=> Found(syms, name)
<1>1. \A i : (i \in DOMAIN new /\ new[i].name = name) <=> (i \in DOMAIN syms /\ syms[i].name = name)
  OBVIOUS
<1>2. (CHOOSE i \in DOMAIN new : new[i].name = name) = (CHOOSE i \in DOMAIN syms : syms[i].name = name)
  BY <1>1
<1> QED BY <1>1, <1>2 DEF search_symbol, Found

LEMMA FoundIs ==
  ASSUME NEW syms \in Seq(Symbol), NEW name, Found(syms, name)
  PROVE  /\ search_symbol(syms, name) \in DOMAIN syms
         /\ search_symbol(syms, name) # 0
         /\ syms[search_symbol(syms, name)].name = name
<1>1. PICK i \in DOMAIN syms : syms[i].name = name
  BY DEF Found
<1> QED BY <1>1 DEF search_symbol, Found

LEMMA FoundAdded ==
  ASSUME NEW syms \in Seq(Symbol), NEW name \in Name
  PROVE  /\ Found(add_symbol(syms, name), name)
         /\ \A other : Found(syms, other) => Found(add_symbol(syms, name), other)
<1>1. CASE Found(syms, name)
  BY <1>1 DEF add_symbol
<1>2. CASE ~Found(syms, name)
  <2> DEFINE symbol == [name |-> name, exists |-> FALSE, llvm |-> NullValue]
  <2>1. add_symbol(syms, name) = Append(syms, symbol) /\ symbol.name = name
    BY <1>2 DEF add_symbol
  <2> HIDE DEF symbol
  <2>2. /\ Len(syms) + 1 \in DOMAIN Append(syms, symbol)
        /\ Append(syms, symbol)[Len(syms) + 1] = symbol
        /\ \A i \in DOMAIN syms : i \in DOMAIN Append(syms, symbol) /\ Append(syms, symbol)[i] = syms[i]
    OBVIOUS
  <2> QED BY <2>1, <2>2 DEF Found
<1> QED BY <1>1, <1>2

-----------------------------------------------------------------------------
(* The parser: a symbol is added before its node is made. *)
LEMMA ReduceDeclares ==
  ASSUME ParseInv, Declared(tree, synames), NEW k, NEW sym, NEW node, Reduce(k, sym, node),
         node.type \in {"ATTR", "FUNC"} => Found(synames', node.name),
         \A name : Found(synames, name) => Found(synames', name)
  PROVE  Declared(tree', synames')
<1>1. tree' = Append(tree, node) /\ tree \in Seq(NodeRec)
  BY DEF Reduce, ParseInv, TypeOK
<1>2. \A n \in DOMAIN tree' : (n \in DOMAIN tree /\ tree'[n] = tree[n]) \/ tree'[n] = node
  BY <1>1
<1> QED BY <1>2 DEF Declared

LEMMA ParserDeclares ==
  ASSUME ParseInv, Declared(tree, synames), Parse
  PROVE  Declared(tree', synames')
<1>0. synames \in Seq(Symbol)
  BY DEF ParseInv, TypeOK
<1>1. ASSUME UNCHANGED <<tree, synames>> PROVE Declared(tree', synames')
  BY <1>1 DEF Declared
<1>2. ASSUME NEW type \in {"PRNT", "CALL", "OUT", "DELAY", "STMT", "STMTS", "WHILE", "IF"},
             NEW name, NEW exprs, NEW kids, NEW k, NEW sym,
             Reduce(k, sym, create_no(type, name, exprs, kids)), UNCHANGED synames
      PROVE  Declared(tree', synames')
  <2>1. create_no(type, name, exprs, kids).type \notin {"ATTR", "FUNC"}
    BY DEF create_no
  <2> QED BY <1>2, <2>1, ReduceDeclares
<1>3. ASSUME NEW type \in {"ATTR", "FUNC"}, NEW name \in Name, NEW exprs, NEW kids, NEW k, NEW sym,
             Reduce(k, sym, create_no(type, name, exprs, kids)),
             synames' = add_symbol(synames, name)
      PROVE  Declared(tree', synames')
  <2>1. create_no(type, name, exprs, kids).name = name
    BY DEF create_no
  <2> QED BY <1>0, <1>3, <2>1, FoundAdded, ReduceDeclares
<1>4. CASE StmtAttr
  BY <1>3, <1>4 DEF StmtAttr
<1>5. CASE StmtOut \/ StmtDelay
  BY <1>2, <1>5 DEF StmtOut, StmtDelay
<1>6. CASE StmtNamed("PRNT", Name) \/ StmtNamed("CALL", FuncName)
  BY <1>2, <1>6 DEF StmtNamed
<1>7. CASE StmtError \/ OpenWhile \/ OpenIf \/ OpenFunction \/ OpenElse \/ StmtIf \/ Accept \/ Reject
  BY <1>1, <1>7 DEF StmtError, OpenWhile, OpenIf, OpenFunction, Open, OpenElse, StmtIf, Accept, Reject
<1>8. CASE ReduceLast \/ ReduceStmts \/ CloseWhile \/ CloseIf \/ CloseElse \/ CloseElseIf
  BY <1>2, <1>8 DEF ReduceLast, ReduceStmts, CloseWhile, CloseIf, CloseElse, CloseElseIf
<1>9. CASE CloseFunction
  <2>1. /\ TopIs(<<"inFunction", "stmts">>)
        /\ synames' = add_symbol(synames, Below(1).name)
        /\ Reduce(2, "stmt", create_no("FUNC", Below(1).name, <<>>, <<Below(0).no>>))
    BY <1>9 DEF CloseFunction
  <2>2. Below(1).name \in Name
    <3>1. Below(1).sym = "inFunction" /\ \E j \in DOMAIN stack : stack[j] = Below(1)
      BY <2>1, TopTwo DEF ParseInv, TypeOK, ParserTypeOK
    <3> QED BY <3>1 DEF ParseInv, StackShape, ItemShape
  <2> QED BY <1>3, <2>1, <2>2
<1> QED BY <1>4, <1>5, <1>6, <1>7, <1>8, <1>9 DEF Parse

-----------------------------------------------------------------------------
(* The passes change no name. *)
LEMMA GraftDeclares ==
  ASSUME ParseInv, Declared(tree, synames), GraftInPlace \/ GraftMoved
  PROVE  Declared(tree', synames')
<1>1. tree \in Seq(NodeRec) /\ UNCHANGED synames
  BY DEF ParseInv, TypeOK, GraftInPlace, GraftMoved
<1>2. Grafted.type = "STMTS" /\ Grafted.type \notin {"ATTR", "FUNC"} /\ ActRoot \in DOMAIN tree
      /\ Grafted.type = tree[ActRoot].type /\ Grafted.name = tree[ActRoot].name
  <2>1. ActRoot \in DOMAIN tree /\ tree[ActRoot].type = "STMTS" /\ tree[ActRoot] \in NodeRec
    BY <1>1 DEF GraftInPlace, GraftMoved, Grafts
  <2>2. \A kids : \A node \in NodeRec : [node EXCEPT !.kids = kids].type = node.type
                                        /\ [node EXCEPT !.kids = kids].name = node.name
    BY DEF NodeRec
  <2> QED BY <2>1, <2>2 DEF Grafted
<1>3. CASE GraftInPlace
  <2>1. tree' = [tree EXCEPT ![ActRoot] = Grafted]
    BY <1>3 DEF GraftInPlace
  <2> QED BY <1>1, <1>2, <2>1 DEF Declared
<1>4. CASE GraftMoved
  <2> DEFINE d == Len(frames) - 1
             up == frames[d - 1].r
             node == SetKid(tree[up], frames[d - 1].i, Len(tree) + 1)
             before == IF d = 1 THEN tree ELSE [tree EXCEPT ![up] = node]
  <2>1. tree' = Append(before, Grafted)
    BY <1>4, Zenon DEF GraftMoved
  <2>2. \A x \in NodeRec : \A i, no : SetKid(x, i, no).type = x.type /\ SetKid(x, i, no).name = x.name
    BY DEF NodeRec, SetKid
  <2>3. /\ Len(before) = Len(tree) /\ DOMAIN before = DOMAIN tree /\ before \in Seq(NodeRec \cup {node})
        /\ \A n \in DOMAIN tree : before[n].type = tree[n].type /\ before[n].name = tree[n].name
    <3>1. up \in DOMAIN tree => node.type = tree[up].type /\ node.name = tree[up].name
      BY <1>1, <2>2
    <3> HIDE DEF node, up
    <3> QED BY <1>1, <3>1
  <2> HIDE DEF before
  <2>4. \A n \in DOMAIN tree' : \/ n \in DOMAIN tree /\ tree'[n] = before[n]
                                \/ tree'[n] = Grafted
    BY <2>1, <2>3
  <2> QED BY <1>1, <1>2, <2>3, <2>4 DEF Declared
<1> QED BY <1>3, <1>4

LEMMA PassDeclares ==
  ASSUME ParseInv, Declared(tree, synames), Analyse
  PROVE  Declared(tree', synames')
<1>0. synames \in Seq(Symbol)
  BY DEF ParseInv, TypeOK
<1>1. CASE GraftInPlace \/ GraftMoved
  BY <1>1, GraftDeclares
<1>2. CASE Declare
  <2> DEFINE s == search_symbol(synames, tree[ActOn].name)
  <2>1. tree' = tree /\ (synames' = synames \/ synames' = [synames EXCEPT ![s].exists = TRUE])
    BY <1>2 DEF Declare
  <2>2. synames' \in Seq(Symbol)
    <3>1. PassOutcome
      BY <1>2, NoGraftKeeps
    <3> QED BY <3>1 DEF PassOutcome
  <2>3. DOMAIN synames' = DOMAIN synames /\ \A i \in DOMAIN synames : synames'[i].name = synames[i].name
    <3> DEFINE x == [synames[s] EXCEPT !.exists = TRUE]
    <3>1. s \in DOMAIN synames => x.name = synames[s].name
      <4>1. \A y \in Symbol : [y EXCEPT !.exists = TRUE].name = y.name
        BY DEF Symbol
      <4> QED BY <1>0, <4>1
    <3>2. synames' = synames \/ synames' = [synames EXCEPT ![s] = x]
      BY <2>1, Zenon
    <3> HIDE DEF s, x
    <3> QED BY <1>0, <3>1, <3>2
  <2> QED BY <1>0, <2>1, <2>2, <2>3, FoundStill DEF Declared
<1>3. CASE VisitRoot \/ VisitKid \/ NoGraft \/ PassDone
  <2>1. UNCHANGED <<tree, synames>>
    BY <1>3 DEF VisitRoot, VisitKid, Enter, Wild, NoGraft, PassDone
  <2> QED BY <2>1 DEF Declared
<1> QED BY <1>1, <1>2, <1>3 DEF Analyse

-----------------------------------------------------------------------------
(* The instructions that a step adds. *)
Silent(bs, new) ==
  /\ new \in Seq(Block) /\ Len(new) \in Nat
  /\ \A i \in CodeOf(new) : i \in CodeOf(bs) \/ ~IsAccess(i)

LEMMA EmitCode ==
  ASSUME NEW bs \in Seq(Block), NEW b, NEW code \in Seq(Instr)
  PROVE  Emit(bs, b, code) \in Seq(Block) /\ CodeOf(Emit(bs, b, code)) \subseteq CodeOf(bs) \cup ToSet(code)
<1>1. CASE b \in DOMAIN bs
  <2> DEFINE new == Emit(bs, b, code)
  <2>1. /\ new \in Seq(Block) /\ DOMAIN new = DOMAIN bs
        /\ new[b].code = bs[b].code \o code
        /\ \A c \in DOMAIN bs : c # b => new[c] = bs[c]
    BY <1>1, EmitBlocks
  <2>2. bs[b].code \in Seq(Instr)
    <3>1. bs[b] \in Block
      BY <1>1
    <3> QED BY <3>1 DEF Block
  <2>3. \A c, d \in Seq(Instr) : ToSet(c \o d) \subseteq ToSet(c) \cup ToSet(d)
    BY DEF ToSet
  <2>4. ToSet(new[b].code) \subseteq ToSet(bs[b].code) \cup ToSet(code)
    BY <2>1, <2>2, <2>3
  <2> HIDE DEF new
  <2>5. CodeOf(new) \subseteq CodeOf(bs) \cup ToSet(code)
    BY <1>1, <2>1, <2>4 DEF CodeOf
  <2> QED BY <2>1, <2>5 DEF new
<1>2. CASE b \notin DOMAIN bs
  <2>1. Emit(bs, b, code) = bs
    BY <1>2 DEF Emit
  <2> QED BY <2>1
<1> QED BY <1>1, <1>2

LEMMA SilentEmit ==
  ASSUME NEW bs \in Seq(Block), NEW old, Silent(old, bs), NEW b, NEW code \in Seq(Instr),
         \A i \in ToSet(code) : ~IsAccess(i)
  PROVE  Silent(old, Emit(bs, b, code)) /\ Emit(bs, b, code) \in Seq(Block)
<1>1. Emit(bs, b, code) \in Seq(Block) /\ CodeOf(Emit(bs, b, code)) \subseteq CodeOf(bs) \cup ToSet(code)
  BY EmitCode
<1>2. Len(Emit(bs, b, code)) \in Nat
  BY <1>1
<1> QED BY <1>1, <1>2 DEF Silent

LEMMA SilentNew ==
  ASSUME NEW bs \in Seq(Block), NEW old, Silent(old, bs), NEW f \in Nat
  PROVE  Silent(old, NewBlock(bs, f)) /\ NewBlock(bs, f) \in Seq(Block)
<1> DEFINE x == [func |-> f, code |-> <<>>]
           new == Append(bs, x)
<1>1. x \in Block /\ x.code = <<>>
  BY DEF Block
<1>2. ToSet(x.code) = {}
  BY <1>1 DEF ToSet
<1> HIDE DEF x
<1>3. /\ new \in Seq(Block) /\ Len(new) \in Nat
      /\ \A b \in DOMAIN new : (b \in DOMAIN bs /\ new[b] = bs[b]) \/ new[b] = x
  BY <1>1
<1> HIDE DEF new
<1>4. CodeOf(new) \subseteq CodeOf(bs)
  BY <1>2, <1>3 DEF CodeOf
<1>5. Silent(old, new)
  BY <1>3, <1>4 DEF Silent
<1>6. NewBlock(bs, f) = new
  BY DEF NewBlock, new, x
<1> QED BY <1>3, <1>5, <1>6

LEMMA SilentSame == ASSUME NEW bs \in Seq(Block) PROVE Silent(bs, bs)
BY DEF Silent

(* One instruction that is no access, and the code of an expression. *)
LEMMA QuietOne ==
  ASSUME NEW op \in InstrOp \ {"store", "print"}, NEW no \in Nat, NEW uses \in SUBSET Value,
         NEW to \in Seq(Nat)
  PROVE  <<I(op, no, uses, to)>> \in Seq(Instr) /\ \A i \in ToSet(<<I(op, no, uses, to)>>) : ~IsAccess(i)
<1> DEFINE i == I(op, no, uses, to)
<1>1. i \in Instr /\ i.op = op
  BY InstrType
<1> HIDE DEF i
<1>2. <<i>> \in Seq(Instr) /\ ToSet(<<i>>) = {i}
  BY <1>1 DEF ToSet
<1> QED BY <1>1, <1>2 DEF IsAccess, i

LEMMA QuietEval ==
  ASSUME NEW node \in NodeRec, NEW env \in [Name -> Value], NEW no \in Nat
  PROVE  EvalCode(no, node, env) \in Seq(Instr) /\ \A i \in ToSet(EvalCode(no, node, env)) : ~IsAccess(i)
<1>1. EvalCode(no, node, env) \in Seq(Instr)
  BY EvalPlain DEF Plain
<1>2. CASE node.exprs = <<>>
  BY <1>1, <1>2 DEF EvalCode, ToSet
<1>3. CASE node.exprs # <<>>
  <2> DEFINE uses == {env[v] : v \in ReadSet(node)}
  <2>1. uses \in SUBSET Value
    BY NamesOf
  <2>2. EvalCode(no, node, env) = <<I("eval", no, uses, <<>>)>>
    BY <1>3 DEF EvalCode
  <2>3. "eval" \in InstrOp \ {"store", "print"} /\ <<>> \in Seq(Nat)
    BY DEF InstrOp
  <2> HIDE DEF uses
  <2> QED BY <2>1, <2>2, <2>3, QuietOne
<1> QED BY <1>1, <1>2, <1>3

LEMMA QuietConcat ==
  ASSUME NEW c \in Seq(Instr), NEW d \in Seq(Instr),
         \A i \in ToSet(c) : ~IsAccess(i), \A i \in ToSet(d) : ~IsAccess(i)
  PROVE  c \o d \in Seq(Instr) /\ \A i \in ToSet(c \o d) : ~IsAccess(i)
<1>1. ToSet(c \o d) \subseteq ToSet(c) \cup ToSet(d)
  BY DEF ToSet
<1> QED BY <1>1


-----------------------------------------------------------------------------
(* A step of the code generator: no variable changes the value it has, and *)
(* what is new either accesses nothing or accesses that value.             *)
LEMMA VariablesStep ==
  ASSUME VariablesInv, tree' = tree, phase' \in {"gen", "done", "fault"},
         Declared(tree, synames'),
         \A v \in Name \ FunctionNames : Env[v].kind # "null" => Env'[v] = Env[v],
         \A i \in CodeOf(blocks') : i \in CodeOf(blocks) \/ ~IsAccess(i) \/ Accesses(i)'
  PROVE  VariablesInv'
<1>1. FunctionNames' = FunctionNames
  BY DEF FunctionNames
<1>2. ASSUME NEW i \in CodeOf(blocks), IsAccess(i) PROVE Accesses(i)'
  <2>1. Accesses(i)
    BY <1>2 DEF VariablesInv
  <2> DEFINE v == tree[i.no].name
  <2>2. i.no \in DOMAIN tree /\ v \in Name
    BY <2>1 DEF Accesses
  <2>3. v \notin FunctionNames => Env[v].kind # "null" /\ i.uses = {Env[v]}
    BY <2>1 DEF Accesses
  <2>4. v \notin FunctionNames => Env'[v].kind # "null" /\ i.uses = {Env'[v]}
    BY <2>2, <2>3
  <2> HIDE DEF v
  <2>5. v = tree'[i.no].name
    BY DEF v
  <2> QED BY <1>1, <2>2, <2>4, <2>5 DEF Accesses
<1>3. \A i \in CodeOf(blocks') : IsAccess(i) => Accesses(i)'
  BY <1>2
<1> QED BY <1>3 DEF VariablesInv, NoBlocksYet

LEMMA SilentStep ==
  ASSUME VariablesInv, tree' = tree, synames' = synames, phase' \in {"gen", "done", "fault"},
         Silent(blocks, blocks')
  PROVE  VariablesInv'
<1>1. Env' = Env
  BY DEF Env
<1>2. Declared(tree, synames')
  BY DEF VariablesInv
<1> QED BY <1>1, <1>2, VariablesStep DEF Silent

(* A symbol gets a value. *)
LEMMA EnvAfter ==
  ASSUME synames \in Seq(Symbol), NEW name \in Name, Found(synames, name), NEW v,
         synames' = [synames EXCEPT ![search_symbol(synames, name)].llvm = v]
  PROVE  /\ \A other : Found(synames', other) <=> Found(synames, other)
         /\ Env'[name] = v /\ \A other \in Name \ {name} : Env'[other] = Env[other]
<1> DEFINE s == search_symbol(synames, name)
           x == [synames[s] EXCEPT !.llvm = v]
<1>1. s \in DOMAIN synames /\ s # 0 /\ synames[s].name = name
  BY FoundIs
<1>2. synames' = [synames EXCEPT ![s] = x]
  BY Zenon
<1>3. x.llvm = v /\ x.name = synames[s].name
  <2>1. \A y \in Symbol : [y EXCEPT !.llvm = v].llvm = v /\ [y EXCEPT !.llvm = v].name = y.name
    BY DEF Symbol
  <2> QED BY <1>1, <2>1
<1> HIDE DEF x
<1>4. /\ DOMAIN synames' = DOMAIN synames
      /\ \A i \in DOMAIN synames : synames'[i].name = synames[i].name
  BY <1>1, <1>2, <1>3
<1>5. \A other : /\ search_symbol(synames', other) = search_symbol(synames, other)
                 /\ Found(synames', other) <=> Found(synames, other)
  <2>1. \A other : (CHOOSE i \in DOMAIN synames' : synames'[i].name = other)
                      = (CHOOSE i \in DOMAIN synames : synames[i].name = other)
    <3> SUFFICES ASSUME NEW other
                 PROVE (CHOOSE i \in DOMAIN synames' : synames'[i].name = other)
                      = (CHOOSE i \in DOMAIN synames : synames[i].name = other)
      OBVIOUS
    <3>1. \A i : (i \in DOMAIN synames' /\ synames'[i].name = other)
                   <=> (i \in DOMAIN synames /\ synames[i].name = other)
      BY <1>4
    <3> QED BY <3>1
  <2>2. \A other : Found(synames', other) <=> Found(synames, other)
    BY <1>4 DEF Found
  <2> QED
    <3> SUFFICES ASSUME NEW other
                 PROVE  search_symbol(synames', other) = search_symbol(synames, other)
      BY <2>2
    <3> DEFINE a == CHOOSE i \in DOMAIN synames' : synames'[i].name = other
               b == CHOOSE i \in DOMAIN synames : synames[i].name = other
    <3>1. a = b
      BY <2>1
    <3>2. /\ search_symbol(synames', other) = IF Found(synames', other) THEN a ELSE 0
          /\ search_symbol(synames, other) = IF Found(synames, other) THEN b ELSE 0
      BY Zenon DEF search_symbol
    <3> HIDE DEF a, b
    <3> QED BY <2>2, <3>1, <3>2
<1>6. Env'[name] = v
  BY <1>1, <1>2, <1>3, <1>5 DEF Env
<1>7. ASSUME NEW other \in Name \ {name} PROVE Env'[other] = Env[other]
  <2> DEFINE o == search_symbol(synames, other)
  <2>1. o = 0 \/ (o \in DOMAIN synames /\ synames[o].name = other)
    BY FoundIs DEF search_symbol
  <2>2. o # s
    BY <1>1, <2>1
  <2>3. o # 0 => synames'[o] = synames[o]
    BY <1>2, <2>1, <2>2
  <2>4. search_symbol(synames', other) = o
    BY <1>5
  <2>5. /\ Env[other] = IF o = 0 THEN NullValue ELSE synames[o].llvm
        /\ Env'[other] = IF search_symbol(synames', other) = 0 THEN NullValue
                         ELSE synames'[search_symbol(synames', other)].llvm
    BY DEF Env
  <2> HIDE DEF o
  <2> QED BY <2>3, <2>4, <2>5
<1> QED BY <1>5, <1>6, <1>7

(* An assignment: the first one makes the value that the others use.       *)
LEMMA GenAttrVariables == ASSUME GenInv, VariablesInv, GenAttr PROVE VariablesInv'
<1> DEFINE made == IF Fresh THEN {Variable.kind} ELSE {}
           slot == IF "local" \in made THEN <<I("alloca", No, {Variable}, <<>>)>> ELSE <<>>
           store == I("store", No, {Variable}, <<>>)
           eval == EvalCode(No, N, AttrEnv)
           code == slot \o eval \o <<store>>
<1>1. /\ Called({"ATTR"})
      /\ synames' = [synames EXCEPT ![search_symbol(synames, N.name)].llvm = Variable]
      /\ blocks' = Emit(blocks, insert, code)
      /\ UNCHANGED <<phase, treeVars, insert, current_func, work>>
  BY DEF GenAttr
<1>2. "ATTR" \in NamedType
  BY DEF NamedType
<1>3. N \in NodeRec /\ No \in Nat /\ No \in DOMAIN tree /\ N.type = "ATTR"
  BY <1>1, CalledFacts
<1>4. N.name \in Name /\ Variable \in Value /\ AttrEnv \in [Name -> Value]
  BY <1>1, <1>2, AttrValue
<1>5. /\ I("alloca", No, {Variable}, <<>>) \in Instr
      /\ I("alloca", No, {Variable}, <<>>).op = "alloca"
      /\ store \in Instr /\ store.no = No /\ store.uses = {Variable}
  <2>1. {"alloca", "store"} \subseteq InstrOp
    BY DEF InstrOp
  <2>2. {Variable} \in SUBSET Value /\ <<>> \in Seq(Nat)
    BY <1>4
  <2> QED BY <1>3, <2>1, <2>2, InstrType DEF I
<1>6. slot \in Seq(Instr) /\ \A i \in ToSet(slot) : ~IsAccess(i)
  <2> DEFINE one == <<I("alloca", No, {Variable}, <<>>)>>
             none == <<>>
  <2>1. one \in Seq(Instr) /\ \A i \in ToSet(one) : ~IsAccess(i)
    <3>1. "alloca" \in InstrOp \ {"store", "print"} /\ {Variable} \in SUBSET Value /\ <<>> \in Seq(Nat)
      BY <1>4 DEF InstrOp
    <3> QED BY <1>3, <3>1, QuietOne
  <2>2. none \in Seq(Instr) /\ \A i \in ToSet(none) : ~IsAccess(i)
    BY DEF ToSet
  <2>3. slot = one \/ slot = none
    OBVIOUS
  <2> HIDE DEF one, none, slot
  <2> QED BY <2>1, <2>2, <2>3
<1>7. eval \in Seq(Instr) /\ \A i \in ToSet(eval) : ~IsAccess(i)
  BY <1>3, <1>4, QuietEval
<1> HIDE DEF slot, eval, store
<1>8. slot \o eval \in Seq(Instr) /\ \A i \in ToSet(slot \o eval) : ~IsAccess(i)
  BY <1>6, <1>7, QuietConcat
<1> DEFINE before == slot \o eval
<1>9. code \in Seq(Instr) /\ \A i \in ToSet(code) : ~IsAccess(i) \/ i = store
  <2>1. code = before \o <<store>>
    OBVIOUS
  <2> HIDE DEF before, code
  <2>2. ToSet(before \o <<store>>) \subseteq ToSet(before) \cup {store}
    BY <1>5, <1>8 DEF ToSet, before
  <2> QED BY <1>5, <1>8, <2>1, <2>2 DEF before
<1>10. blocks \in Seq(Block)
  BY GenFacts DEF Blocks
<1> HIDE DEF code
<1>11. \A i \in CodeOf(blocks') : i \in CodeOf(blocks) \/ ~IsAccess(i) \/ i = store
  BY <1>1, <1>9, <1>10, EmitCode
<1>12. Found(synames, N.name) /\ synames \in Seq(Symbol)
  BY <1>3, GenFacts DEF VariablesInv, Declared, N
<1>13. /\ \A other : Found(synames', other) <=> Found(synames, other)
       /\ Env'[N.name] = Variable /\ \A other \in Name \ {N.name} : Env'[other] = Env[other]
  BY <1>1, <1>4, <1>12, EnvAfter
<1>14. Env[N.name].kind # "null" => Variable = Env[N.name]
  BY DEF Variable, Fresh
<1>15. Variable.kind # "null"
  BY DEF Variable, Fresh
<1>16. tree' = tree /\ phase' \in {"gen", "done", "fault"}
  BY <1>1 DEF treeVars, GenInv
<1>17. ASSUME NEW i, i = store PROVE Accesses(i)'
  <2>1. tree'[i.no].name = N.name /\ i.no \in DOMAIN tree' /\ i.uses = {Variable}
    BY <1>3, <1>5, <1>16, <1>17 DEF N
  <2>2. Env'[N.name] = Variable
    BY <1>13
  <2> QED BY <1>4, <1>15, <2>1, <2>2 DEF Accesses
<1>18. Declared(tree, synames')
  BY <1>13 DEF Declared, VariablesInv
<1>19. \A i \in CodeOf(blocks') : i \in CodeOf(blocks) \/ ~IsAccess(i) \/ Accesses(i)'
  BY <1>11, <1>17
<1>20. \A v \in Name \ FunctionNames : Env[v].kind # "null" => Env'[v] = Env[v]
  BY <1>13, <1>14
<1> QED BY <1>16, <1>18, <1>19, <1>20, VariablesStep

(* NO_PRNT, NO_OUT, NO_DELAY, NO_CALL *)
LEMMA SimpleVariables ==
  ASSUME GenInv, VariablesInv, GenOut \/ GenDelay \/ GenPrnt \/ GenCall
  PROVE  VariablesInv'
<1>0. blocks \in Seq(Block)
  BY GenFacts DEF Blocks
<1>1. ASSUME NEW type, NEW op \in InstrOp, NEW uses \in SUBSET Value, GenSimple(type, op, uses)
      PROVE  /\ tree' = tree /\ synames' = synames /\ phase' \in {"gen", "done", "fault"}
             /\ Called({type}) /\ No \in DOMAIN tree
             /\ op # "print" /\ op # "store" => Silent(blocks, blocks')
             /\ \A i \in CodeOf(blocks') : i \in CodeOf(blocks) \/ ~IsAccess(i) \/ (i.no = No /\ i.uses = uses)
  <2> DEFINE i == I(op, No, uses, <<>>)
             eval == EvalCode(No, N, Env)
  <2>1. /\ Called({type}) /\ blocks' = Emit(blocks, insert, eval \o <<i>>)
        /\ UNCHANGED <<phase, treeVars, synames>>
    BY <1>1 DEF GenSimple
  <2>2. N \in NodeRec /\ No \in Nat /\ No \in DOMAIN tree
    BY <2>1, CalledFacts
  <2>3. i \in Instr /\ i.op = op /\ i.no = No /\ i.uses = uses
    <3>1. <<>> \in Seq(Nat)
      OBVIOUS
    <3> QED BY <2>2, <3>1, InstrType DEF I
  <2>4. eval \in Seq(Instr) /\ \A j \in ToSet(eval) : ~IsAccess(j)
    BY <2>2, EnvType, QuietEval
  <2> HIDE DEF i, eval
  <2>5. eval \o <<i>> \in Seq(Instr) /\ ToSet(eval \o <<i>>) \subseteq ToSet(eval) \cup {i}
    BY <2>3, <2>4 DEF ToSet
  <2>6. CodeOf(blocks') \subseteq CodeOf(blocks) \cup ToSet(eval \o <<i>>) /\ blocks' \in Seq(Block)
    BY <1>0, <2>1, <2>5, EmitCode
  <2>7. tree' = tree /\ synames' = synames /\ phase' \in {"gen", "done", "fault"}
    BY <2>1 DEF treeVars, GenInv
  <2>8. Len(blocks') \in Nat
    BY <2>6
  <2>9. \A j \in CodeOf(blocks') : j \in CodeOf(blocks) \/ ~IsAccess(j) \/ j = i
    BY <2>4, <2>5, <2>6
  <2>10. op # "print" /\ op # "store" => ~IsAccess(i)
    BY <2>3 DEF IsAccess
  <2> QED BY <2>1, <2>2, <2>3, <2>6, <2>7, <2>8, <2>9, <2>10 DEF Silent
<1>2. {"out", "delay", "print", "call"} \subseteq InstrOp
  BY DEF InstrOp
<1>3. ASSUME NEW type \in {"PRNT", "CALL"}, Called({type})
      PROVE  N.name \in Name /\ {Env[N.name]} \in SUBSET Value
  <2>1. type \in NamedType
    BY DEF NamedType
  <2> QED BY <1>3, <2>1, AttrValue
<1>4. CASE GenOut \/ GenDelay
  <2>1. {} \in SUBSET Value
    OBVIOUS
  <2> QED BY <1>1, <1>2, <1>4, <2>1, SilentStep DEF GenOut, GenDelay
<1>5. CASE GenCall
  <2>1. GenSimple("CALL", "call", {Env[N.name]}) /\ Called({"CALL"})
    BY <1>5 DEF GenCall, GenSimple
  <2> QED BY <1>1, <1>2, <1>3, <2>1, SilentStep
<1>6. CASE GenPrnt
  <2>1. GenSimple("PRNT", "print", {Env[N.name]}) /\ Called({"PRNT"}) /\ Env[N.name].kind # "null"
    BY <1>6 DEF GenPrnt, GenSimple
  <2> DEFINE uses == {Env[N.name]}
  <2>2. N.name \in Name /\ uses \in SUBSET Value
    BY <1>3, <2>1
  <2>3. /\ tree' = tree /\ synames' = synames /\ phase' \in {"gen", "done", "fault"}
        /\ No \in DOMAIN tree
        /\ \A i \in CodeOf(blocks') : i \in CodeOf(blocks) \/ ~IsAccess(i) \/ (i.no = No /\ i.uses = uses)
    <3> HIDE DEF uses
    <3>1. GenSimple("PRNT", "print", uses)
      BY <2>1 DEF uses
    <3> QED BY <1>1, <1>2, <2>2, <3>1
  <2>4. Env' = Env
    BY <2>3 DEF Env
  <2>5. ASSUME NEW i, i.no = No, i.uses = uses PROVE Accesses(i)'
    <3>1. tree'[i.no].name = N.name /\ i.no \in DOMAIN tree'
      BY <2>3, <2>5 DEF N
    <3> QED BY <2>1, <2>2, <2>4, <2>5, <3>1 DEF Accesses
  <2>6. Declared(tree, synames')
    BY <2>3 DEF VariablesInv
  <2> HIDE DEF uses
  <2> QED BY <2>3, <2>4, <2>5, <2>6, VariablesStep
<1> QED BY <1>4, <1>5, <1>6

(* The actions that assign and print nothing. *)
LEMMA ListVariables ==
  ASSUME GenInv, VariablesInv, GenList \/ ListNext
  PROVE  VariablesInv'
<1>1. UNCHANGED <<phase, treeVars, synames, blocks>>
  BY DEF GenList, ListNext
<1>2. blocks \in Seq(Block)
  BY GenFacts DEF Blocks
<1> QED BY <1>1, <1>2, SilentSame, SilentStep DEF treeVars, GenInv

(* The instructions of control. *)
LEMMA QuietControl ==
  ASSUME NEW op \in Terminator, NEW no \in Nat, NEW to \in Seq(Nat)
  PROVE  /\ <<I(op, no, {}, to)>> \in Seq(Instr)
         /\ \A i \in ToSet(<<I(op, no, {}, to)>>) : ~IsAccess(i)
<1>1. op \in InstrOp \ {"store", "print"} /\ {} \in SUBSET Value
  BY DEF InstrOp, Terminator
<1> QED BY <1>1, QuietOne

LEMMA WhileVariables == ASSUME GenInv, VariablesInv, GenWhile PROVE VariablesInv'
<1> DEFINE n == Len(blocks) + 1
           one == NewBlock(blocks, current_func)
           two == NewBlock(one, current_func)
           jump == <<I("br", No, {}, <<n>>)>>
           three == Emit(two, insert, jump)
           eval == EvalCode(No, N, Env)
<1>1. /\ Called({"WHILE"}) /\ blocks' = Emit(three, n, eval)
      /\ UNCHANGED <<phase, treeVars, synames>>
  BY DEF GenWhile
<1>2. blocks \in Seq(Block) /\ current_func \in Nat /\ n \in Nat
  <2>1. blocks \in Seq(Block) /\ current_func \in Nat
    BY GenFacts DEF Blocks
  <2> QED BY <2>1
<1>3. No \in Nat /\ N \in NodeRec
  BY <1>1, CalledFacts
<1>4. eval \in Seq(Instr) /\ \A i \in ToSet(eval) : ~IsAccess(i)
  BY <1>3, EnvType, QuietEval
<1>5. jump \in Seq(Instr) /\ \A i \in ToSet(jump) : ~IsAccess(i)
  <2>1. "br" \in Terminator /\ <<n>> \in Seq(Nat)
    BY <1>2 DEF Terminator
  <2> HIDE DEF n
  <2> QED BY <1>3, <2>1, QuietControl
<1> HIDE DEF n, jump, eval
<1>6. Silent(blocks, one) /\ one \in Seq(Block)
  BY <1>2, SilentSame, SilentNew
<1> HIDE DEF one
<1>7. Silent(blocks, two) /\ two \in Seq(Block)
  BY <1>2, <1>6, SilentNew
<1> HIDE DEF two
<1>8. Silent(blocks, three) /\ three \in Seq(Block)
  BY <1>5, <1>7, SilentEmit
<1> HIDE DEF three
<1>9. Silent(blocks, blocks')
  BY <1>1, <1>4, <1>8, SilentEmit
<1> QED BY <1>1, <1>9, SilentStep DEF treeVars, GenInv

LEMMA WhileDoneVariables == ASSUME GenInv, VariablesInv, WhileDone PROVE VariablesInv'
<1> DEFINE f == CurrentFrame
           last == IF pending.block # 0 THEN pending.block ELSE f.b2
           n == Len(blocks) + 1
           one == NewBlock(blocks, current_func)
           test == <<I("condbr", f.no, {}, <<f.b2, n>>)>>
           jump == <<I("br", f.no, {}, <<f.b1>>)>>
           two == Emit(one, f.b1, test)
<1>1. /\ Back("while") /\ blocks' = Emit(two, last, jump)
      /\ UNCHANGED <<phase, treeVars, synames>>
  BY DEF WhileDone
<1>2. blocks \in Seq(Block) /\ current_func \in Nat /\ n \in Nat
  <2>1. blocks \in Seq(Block) /\ current_func \in Nat
    BY GenFacts DEF Blocks
  <2> QED BY <2>1
<1>3. f.no \in Nat /\ f.b1 \in Nat /\ f.b2 \in Nat
  <2>1. f \in WorkFrame
    BY <1>1, BackFacts
  <2> HIDE DEF f
  <2> QED BY <2>1 DEF WorkFrame
<1>4. /\ test \in Seq(Instr) /\ \A i \in ToSet(test) : ~IsAccess(i)
      /\ jump \in Seq(Instr) /\ \A i \in ToSet(jump) : ~IsAccess(i)
  <2>1. {"br", "condbr"} \subseteq Terminator /\ <<f.b2, n>> \in Seq(Nat) /\ <<f.b1>> \in Seq(Nat)
    BY <1>2, <1>3 DEF Terminator
  <2> HIDE DEF n, f
  <2> QED BY <1>3, <2>1, QuietControl
<1> HIDE DEF f, last, n, test, jump
<1>5. Silent(blocks, one) /\ one \in Seq(Block)
  BY <1>2, SilentSame, SilentNew
<1> HIDE DEF one
<1>6. Silent(blocks, two) /\ two \in Seq(Block)
  BY <1>4, <1>5, SilentEmit
<1> HIDE DEF two
<1>7. Silent(blocks, blocks')
  BY <1>1, <1>4, <1>6, SilentEmit
<1> QED BY <1>1, <1>7, SilentStep DEF treeVars, GenInv

LEMMA IfVariables == ASSUME GenInv, VariablesInv, GenIf PROVE VariablesInv'
<1> DEFINE then == Len(blocks) + 1
           hasElse == Len(N.kids) > 1
           elseif == IF hasElse THEN then + 1 ELSE 0
           endif == IF hasElse THEN then + 2 ELSE then + 1
           one == NewBlock(blocks, current_func)
           two == NewBlock(one, current_func)
           three == NewBlock(two, current_func)
           made == IF hasElse THEN three ELSE two
           eval == EvalCode(No, N, Env)
           other == IF hasElse THEN elseif ELSE endif
           test == <<I("condbr", No, {}, <<then, other>>)>>
<1>1. /\ Called({"IF"}) /\ blocks' = Emit(made, insert, eval \o test)
      /\ UNCHANGED <<phase, treeVars, synames>>
  BY DEF GenIf
<1>2. blocks \in Seq(Block) /\ current_func \in Nat /\ then \in Nat /\ other \in Nat
  <2>1. blocks \in Seq(Block) /\ current_func \in Nat
    BY GenFacts DEF Blocks
  <2>2. then \in Nat
    BY <2>1
  <2> HIDE DEF then
  <2> QED BY <2>1, <2>2
<1>3. No \in Nat /\ N \in NodeRec
  BY <1>1, CalledFacts
<1>4. eval \in Seq(Instr) /\ \A i \in ToSet(eval) : ~IsAccess(i)
  BY <1>3, EnvType, QuietEval
<1> HIDE DEF then, other, eval
<1>5. test \in Seq(Instr) /\ \A i \in ToSet(test) : ~IsAccess(i)
  <2>1. "condbr" \in Terminator /\ <<then, other>> \in Seq(Nat)
    BY <1>2 DEF Terminator
  <2> QED BY <1>3, <2>1, QuietControl
<1> HIDE DEF test
<1>6. Silent(blocks, one) /\ one \in Seq(Block)
  BY <1>2, SilentSame, SilentNew
<1> HIDE DEF one
<1>7. Silent(blocks, two) /\ two \in Seq(Block)
  BY <1>2, <1>6, SilentNew
<1> HIDE DEF two
<1>8. Silent(blocks, three) /\ three \in Seq(Block)
  BY <1>2, <1>7, SilentNew
<1>9. Silent(blocks, made) /\ made \in Seq(Block)
  BY <1>7, <1>8
<1> HIDE DEF made
<1>10. Silent(blocks, blocks')
  <2> DEFINE code == eval \o test
  <2>1. code \in Seq(Instr) /\ \A i \in ToSet(code) : ~IsAccess(i)
    BY <1>4, <1>5, QuietConcat
  <2>2. blocks' = Emit(made, insert, code)
    BY <1>1
  <2> HIDE DEF code
  <2> QED BY <1>9, <2>1, <2>2, SilentEmit
<1> QED BY <1>1, <1>10, SilentStep DEF treeVars, GenInv

LEMMA IfDoneVariables ==
  ASSUME GenInv, VariablesInv, IfDone \/ ThenDone
  PROVE  VariablesInv'
<1> DEFINE f == CurrentFrame
           jump == <<I("br", f.no, {}, <<f.b1>>)>>
<1>1. /\ (Back("then") \/ Back("else")) /\ blocks' = Emit(blocks, BranchPoint(f), jump)
      /\ UNCHANGED <<phase, treeVars, synames>>
  BY DEF IfDone, ThenDone
<1>2. blocks \in Seq(Block)
  BY GenFacts DEF Blocks
<1>3. f.no \in Nat /\ f.b1 \in Nat
  <2>1. f \in WorkFrame
    BY <1>1, BackFacts
  <2> HIDE DEF f
  <2> QED BY <2>1 DEF WorkFrame
<1>4. jump \in Seq(Instr) /\ \A i \in ToSet(jump) : ~IsAccess(i)
  <2>1. "br" \in Terminator /\ <<f.b1>> \in Seq(Nat)
    BY <1>3 DEF Terminator
  <2> HIDE DEF f
  <2> QED BY <1>3, <2>1, QuietControl
<1> HIDE DEF f, jump
<1>5. Silent(blocks, blocks')
  BY <1>1, <1>2, <1>4, SilentSame, SilentEmit
<1> QED BY <1>1, <1>5, SilentStep DEF treeVars, GenInv

LEMMA FuncDoneVariables == ASSUME GenInv, VariablesInv, FuncDone PROVE VariablesInv'
<1> DEFINE f == CurrentFrame
           ret == <<I("ret", f.no, {}, <<>>)>>
<1>1. /\ Back("func") /\ blocks' = Emit(blocks, insert, ret)
      /\ UNCHANGED <<phase, treeVars, synames>>
  BY DEF FuncDone
<1>2. blocks \in Seq(Block)
  BY GenFacts DEF Blocks
<1>3. f.no \in Nat
  <2>1. f \in WorkFrame
    BY <1>1, BackFacts
  <2> HIDE DEF f
  <2> QED BY <2>1 DEF WorkFrame
<1>4. ret \in Seq(Instr) /\ \A i \in ToSet(ret) : ~IsAccess(i)
  <2>1. "ret" \in Terminator /\ <<>> \in Seq(Nat)
    BY DEF Terminator
  <2> HIDE DEF f
  <2> QED BY <1>3, <2>1, QuietControl
<1> HIDE DEF f, ret
<1>5. Silent(blocks, blocks')
  BY <1>1, <1>2, <1>4, SilentSame, SilentEmit
<1> QED BY <1>1, <1>5, SilentStep DEF treeVars, GenInv

(* A definition gives its own name another value. *)
LEMMA FuncVariables == ASSUME GenInv, VariablesInv, GenFunc PROVE VariablesInv'
<1> DEFINE n == Len(blocks) + 1
           v == [kind |-> "func", at |-> n]
<1>1. /\ Called({"FUNC"}) /\ blocks' = NewBlock(blocks, n)
      /\ synames' = [synames EXCEPT ![search_symbol(synames, N.name)].llvm = v]
      /\ UNCHANGED <<phase, treeVars>>
  BY DEF GenFunc
<1> HIDE DEF v
<1>2. blocks \in Seq(Block) /\ synames \in Seq(Symbol) /\ n \in Nat
  <2>1. blocks \in Seq(Block) /\ synames \in Seq(Symbol)
    BY GenFacts DEF Blocks
  <2> QED BY <2>1
<1> HIDE DEF n
<1>3. No \in DOMAIN tree /\ N.type = "FUNC"
  BY <1>1, CalledFacts
<1>4. N.name \in Name /\ N.name \in FunctionNames
  <2>1. "FUNC" \in NamedType
    BY DEF NamedType
  <2> QED BY <1>1, <1>3, <2>1, AttrValue DEF FunctionNames, N
<1>5. Found(synames, N.name)
  BY <1>3 DEF VariablesInv, Declared, N
<1>6. /\ \A other : Found(synames', other) <=> Found(synames, other)
      /\ \A other \in Name \ {N.name} : Env'[other] = Env[other]
  BY <1>1, <1>2, <1>4, <1>5, EnvAfter
<1>7. Declared(tree, synames')
  BY <1>6 DEF Declared, VariablesInv
<1>8. Silent(blocks, blocks')
  BY <1>1, <1>2, SilentSame, SilentNew
<1>9. tree' = tree /\ phase' \in {"gen", "done", "fault"}
  BY <1>1 DEF treeVars, GenInv
<1> QED BY <1>4, <1>6, <1>7, <1>8, <1>9, VariablesStep DEF Silent

-----------------------------------------------------------------------------
LEMMA GenerateVariables == ASSUME IInv, VariablesInv, CodegenStep PROVE VariablesInv'
<1>1. ParseInv /\ (phase = "gen" => GenInv)
  BY DEF IInv, ParseInv, GenInv
<1>2. Generate /\ blocks \in Seq(Block)
  BY DEF CodegenStep, IInv, TypeOK, CodegenTypeOK
<1>3. CASE setup_llvm_global
  <2> DEFINE b == [func |-> main_func, code |-> <<>>]
  <2>1. /\ phase' = "gen" /\ blocks' = <<b>> /\ UNCHANGED <<treeVars, synames>>
    BY <1>3 DEF setup_llvm_global
  <2>2. b \in Block /\ b.code = <<>>
    BY DEF Block, main_func
  <2> HIDE DEF b
  <2>3. CodeOf(blocks') = {}
    BY <2>1, <2>2 DEF CodeOf, ToSet
  <2>4. blocks' \in Seq(Block) /\ Len(blocks') \in Nat
    BY <2>1, <2>2
  <2> QED BY <2>1, <2>3, <2>4, SilentStep DEF Silent, treeVars
<1>4. CASE print_llvm_ir
  <2> DEFINE ret == <<I("ret", 0, {}, <<>>)>>
  <2>1. phase' = "done" /\ blocks' = Emit(blocks, insert, ret) /\ UNCHANGED <<treeVars, synames>>
    BY <1>4 DEF print_llvm_ir
  <2>2. ret \in Seq(Instr) /\ \A i \in ToSet(ret) : ~IsAccess(i)
    <3>1. "ret" \in Terminator /\ <<>> \in Seq(Nat) /\ 0 \in Nat
      BY DEF Terminator
    <3> QED BY <3>1, QuietControl
  <2> HIDE DEF ret
  <2>3. Silent(blocks, blocks')
    BY <1>2, <2>1, <2>2, SilentSame, SilentEmit
  <2> QED BY <2>1, <2>3, SilentStep DEF treeVars
<1>5. CASE GenDies
  <2>1. phase' = "fault" /\ UNCHANGED <<treeVars, synames, blocks>>
    BY <1>5 DEF GenDies, codegenVars
  <2> QED BY <1>2, <2>1, SilentSame, SilentStep DEF treeVars
<1>6. CASE \/ GenAttr \/ GenOut \/ GenDelay \/ GenPrnt \/ GenCall
           \/ GenList \/ ListNext \/ GenWhile \/ WhileDone \/ GenIf \/ ThenDone \/ IfDone
           \/ GenFunc \/ FuncDone
  <2>1. phase = "gen"
    BY <1>6 DEF GenAttr, GenOut, GenDelay, GenPrnt, GenCall, GenSimple, GenList, ListNext,
         GenWhile, WhileDone, GenIf, ThenDone, IfDone, GenFunc, FuncDone, Called, Back
  <2> QED BY <1>1, <1>6, <2>1, GenAttrVariables, SimpleVariables, ListVariables, WhileVariables,
             WhileDoneVariables, IfVariables, IfDoneVariables, FuncVariables, FuncDoneVariables
<1> QED BY <1>2, <1>3, <1>4, <1>5, <1>6 DEF Generate

LEMMA FrontVariables ==
  ASSUME IInv, VariablesInv, ParserStep \/ SemanticStep
  PROVE  VariablesInv'
<1>1. ParseInv
  BY DEF IInv, ParseInv
<1>2. /\ UNCHANGED codegenVars /\ Declared(tree', synames')
      /\ phase \in {"parse", "collapse", "declare"}
  <2>1. CASE ParserStep
    BY <1>1, <2>1, ParserStepKeeps, ParserDeclares DEF ParserStep, VariablesInv
  <2>2. CASE SemanticStep
    BY <1>1, <2>2, SemanticStepKeeps, PassDeclares DEF SemanticStep, VariablesInv, PassPhase
  <2> QED BY <2>1, <2>2
<1>3. blocks = <<>> /\ blocks' = <<>>
  <2>1. blocks = <<>>
    BY <1>2 DEF VariablesInv, NoBlocksYet
  <2> QED BY <1>2, <2>1 DEF codegenVars
<1>4. CodeOf(blocks') = {}
  BY <1>3 DEF CodeOf
<1> QED BY <1>2, <1>3, <1>4 DEF VariablesInv, NoBlocksYet

LEMMA VariablesKept == ASSUME IInv, VariablesInv, [Next]_vars PROVE VariablesInv'
<1>1. CASE ParserStep \/ SemanticStep
  BY <1>1, FrontVariables
<1>2. CASE CodegenStep
  BY <1>2, GenerateVariables
<1>3. CASE UNCHANGED vars
  BY <1>3 DEF vars, VariablesInv, Declared, NoBlocksYet, CodeOf, Accesses, FunctionNames, Env
<1> QED BY <1>1, <1>2, <1>3 DEF Next, Ended

LEMMA VariablesHold == Spec => []VariablesInv
<1>1. Init => VariablesInv
  BY DEF Init, CodegenInit, VariablesInv, Declared, NoBlocksYet, CodeOf
<1>2. IInv /\ VariablesInv /\ [Next]_vars => VariablesInv'
  BY VariablesKept
<1> QED BY <1>1, <1>2, InvariantHolds, PTL DEF Spec

(* However the statements of a program nest, all the assignments and prints *)
(* of one variable use one LLVM value: the one its symbol has.              *)
THEOREM VariablesAreOne == Spec => []OneVariablePerName
<1>1. VariablesInv => OneVariablePerName
  <2> SUFFICES ASSUME VariablesInv, NEW v \in Name \ FunctionNames, NEW i \in AccessesOf(v)
               PROVE  i.uses = {Env[v]}
    BY DEF OneVariablePerName
  <2>1. i \in CodeOf(blocks) /\ IsAccess(i) /\ tree[i.no].name = v
    BY DEF AccessesOf, CodeOf, IsAccess
  <2> QED BY <2>1 DEF VariablesInv, Accesses
<1> QED BY <1>1, VariablesHold, PTL
=============================================================================
