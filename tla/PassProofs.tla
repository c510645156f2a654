------------------------------ MODULE PassProofs ------------------------------
(***************************************************************************)
(* What the two passes of semantic.c do to a program, and that its         *)
(* functions stay apart, for every vocabulary and every bound:             *)
(*   texts         induction over the numbers, FlattenSeq, and that a      *)
(*                 Listing is the same after a list is grafted into its    *)
(*                 parent;                                                 *)
(*   HeapInv       collapse_stmts on a heap where realloc moves the lists  *)
(*                 that the visitor is walking;                            *)
(*   FunctionsInv  where no FUNCTION is opened in another, the nodes of a  *)
(*                 body, the calls that generate them and the blocks those *)
(*                 hold are of one function;                               *)
(*   ErrorsInv     what declared_vars has counted are the uncovered uses   *)
(*                 of the text that its walk has told so far;              *)
(*   HolesInv      the code generator is at a place of the same text, and  *)
(*                 has a value for every name assigned before that place.  *)
(***************************************************************************)
EXTENDS CompilerProofs, WellFoundedInduction

(***************************************************************************)
(* Texts.  Every construct of a tree is a node with a list of children, so *)
(* one lemma about the listing of a node from those of its children, and   *)
(* induction over the depth of the tree, say what grafting does to a text. *)
(***************************************************************************)
(* Induction over the numbers, for the functions that are defined by        *)
(* recursion: a set of numbers with 0 and every successor is all of them.  *)
Precedes == {p \in Nat \X Nat : p[1] < p[2]}

LEMMA PrecedesWellFounded == IsWellFoundedOn(Precedes, Nat)
BY NatLessThanWellFounded DEF OpToRel, Precedes

LEMMA SetInduction ==
  ASSUME NEW S \in SUBSET Nat, 0 \in S, \A n \in S : n + 1 \in S
  PROVE  S = Nat
<1> DEFINE T == Nat \ S
<1>1. SUFFICES ASSUME T # {} PROVE FALSE
  OBVIOUS
<1>2. PICK x \in T : \A y \in T : ~(<<y, x>> \in Precedes)
  BY <1>1, PrecedesWellFounded, WFMin, T \subseteq Nat
<1>3. x # 0 /\ x - 1 \in Nat /\ x - 1 < x
  BY SMT
<1>4. x - 1 \in S
  BY <1>2, <1>3 DEF Precedes
<1> QED BY <1>3, <1>4

(* A value computed step by step is there. *)
Steps(f, n, V, v0, G) ==
  f \in [0..n -> V] /\ f[0] = v0 /\ \A k \in 0..n - 1 : f[k + 1] = G[k][f[k]]

LEMMA StepsExist ==
  ASSUME NEW V, NEW v0 \in V, NEW G \in [Nat -> [V -> V]], NEW n \in Nat
  PROVE  \E f : Steps(f, n, V, v0, G)
<1> DEFINE K == {k \in Nat : \E f : Steps(f, k, V, v0, G)}
<1>1. 0 \in K
  <2> DEFINE f == [i \in 0..0 |-> v0]
  <2>1. Steps(f, 0, V, v0, G)
    BY DEF Steps
  <2> QED BY <2>1
<1>2. ASSUME NEW k \in K PROVE k + 1 \in K
  <2>1. PICK f : Steps(f, k, V, v0, G)
    OBVIOUS
  <2> DEFINE next == G[k][f[k]]
             g == [i \in 0..k + 1 |-> IF i <= k THEN f[i] ELSE next]
  <2>2. next \in V
    BY <2>1 DEF Steps
  <2> HIDE DEF next
  <2>3. g \in [0..k + 1 -> V] /\ g[0] = v0 /\ g[k + 1] = next /\ \A i \in 0..k : g[i] = f[i]
    BY <2>1, <2>2 DEF Steps
  <2> HIDE DEF g
  <2>4. ASSUME NEW i \in 0..(k + 1) - 1 PROVE g[i + 1] = G[i][g[i]]
    <3>1. CASE i = k
      BY <2>3, <3>1 DEF next
    <3>2. CASE i # k
      <4>1. i \in 0..k - 1 /\ i + 1 \in 0..k /\ i \in 0..k
        BY <3>2
      <4> QED BY <2>1, <2>3, <4>1 DEF Steps
    <3> QED BY <3>1, <3>2
  <2>5. Steps(g, k + 1, V, v0, G)
    BY <2>3, <2>4 DEF Steps
  <2> QED BY <2>5
<1>3. K = Nat
  <2> HIDE DEF K
  <2>1. K \in SUBSET Nat
    BY DEF K
  <2> QED BY <1>1, <1>2, <2>1, SetInduction
<1> QED BY <1>3

-----------------------------------------------------------------------------
(* What FlattenSeq does, one sequence after the other. *)
Joins(seqs, f) ==
  f = [i \in 1..Len(seqs) |-> IF i = 1 THEN seqs[i] ELSE f[i - 1] \o seqs[i]]
Joined(seqs) == CHOOSE f : Joins(seqs, f)

LEMMA FlattenIs ==
  ASSUME NEW seqs, Len(seqs) # 0
  PROVE  FlattenSeq(seqs) = Joined(seqs)[Len(seqs)]
BY DEF FlattenSeq, Joined, Joins

LEMMA JoinsExists ==
  ASSUME NEW S, NEW seqs \in Seq(Seq(S)), Len(seqs) # 0
  PROVE  LET f == Joined(seqs)
         IN  /\ f[1] = seqs[1]
             /\ \A i \in 2..Len(seqs) : f[i] = f[i - 1] \o seqs[i]
<1> DEFINE n == Len(seqs)
           V == Seq(S)
           G == [k \in Nat |-> [v \in V |-> IF k + 2 \in 1..n THEN v \o seqs[k + 2] ELSE v]]
<1>1. n \in Nat /\ n - 1 \in Nat /\ seqs[1] \in V /\ \A i \in 1..n : seqs[i] \in V
  OBVIOUS
<1>2. G \in [Nat -> [V -> V]]
  <2> HIDE DEF n
  <2>1. \A k \in Nat : [v \in V |-> IF k + 2 \in 1..n THEN v \o seqs[k + 2] ELSE v] \in [V -> V]
    BY <1>1
  <2> QED BY <2>1
<1> HIDE DEF n, V
<1>3. PICK f : Steps(f, n - 1, V, seqs[1], G)
  <2> HIDE DEF G
  <2> QED BY <1>1, <1>2, StepsExist
<1> DEFINE g == [i \in 1..n |-> f[i - 1]]
<1>4. \A i \in 1..n : g[i] = IF i = 1 THEN seqs[i] ELSE g[i - 1] \o seqs[i]
  <2> SUFFICES ASSUME NEW i \in 1..n PROVE g[i] = IF i = 1 THEN seqs[i] ELSE g[i - 1] \o seqs[i]
    OBVIOUS
  <2>1. CASE i = 1
    BY <1>3, <2>1 DEF Steps
  <2>2. CASE i # 1
    <3> DEFINE k == i - 2
    <3>1. k \in 0..(n - 1) - 1 /\ k \in Nat /\ k + 2 = i /\ k + 1 = i - 1
      BY <1>1, <2>2
    <3>2. f[k + 1] = G[k][f[k]] /\ f[k] \in V
      <4>1. k \in 0..n - 1
        BY <1>1, <3>1
      <4> HIDE DEF k, G
      <4> QED BY <1>3, <3>1, <4>1 DEF Steps
    <3>3. f[k + 1] = f[k] \o seqs[k + 2]
      <4> HIDE DEF k
      <4>1. G[k][f[k]] = IF k + 2 \in 1..n THEN f[k] \o seqs[k + 2] ELSE f[k]
        BY <3>1, <3>2
      <4> QED BY <3>1, <3>2, <4>1
    <3>4. g[i] = f[k + 1] /\ g[i - 1] = f[k]
      BY <1>1, <2>2, <3>1
    <3> QED BY <2>2, <3>1, <3>3, <3>4
  <2> QED BY <2>1, <2>2
<1>5. \E h : Joins(seqs, h)
  <2> DEFINE h == [i \in 1..n |-> IF i = 1 THEN seqs[i] ELSE g[i - 1] \o seqs[i]]
  <2>1. \A i \in 1..n : g[i] = h[i]
    BY <1>4
  <2>2. g = h
    BY <2>1, Zenon
  <2>3. Joins(seqs, g)
    BY <2>2 DEF Joins, n
  <2> QED BY <2>3
<1>6. Joins(seqs, Joined(seqs))
  BY <1>5 DEF Joined
<1> DEFINE j == Joined(seqs)
<1>7. j = [i \in 1..n |-> IF i = 1 THEN seqs[i] ELSE j[i - 1] \o seqs[i]]
  BY <1>6 DEF Joins, n
<1> HIDE DEF j
<1>8. j[1] = seqs[1] /\ \A i \in 2..n : j[i] = j[i - 1] \o seqs[i]
  <2>1. \A i \in 1..n : j[i] = IF i = 1 THEN seqs[i] ELSE j[i - 1] \o seqs[i]
    BY <1>7, Zenon
  <2>2. 1 \in 1..n /\ \A i \in 2..n : i \in 1..n /\ i # 1
    BY <1>1
  <2> QED BY <2>1, <2>2, Zenon
<1> QED BY <1>8 DEF j, n

LEMMA FlattenEmpty == FlattenSeq(<<>>) = <<>>
BY DEF FlattenSeq

LEMMA JoinedType ==
  ASSUME NEW S, NEW seqs \in Seq(Seq(S)), Len(seqs) # 0
  PROVE  \A i \in 1..Len(seqs) : Joined(seqs)[i] \in Seq(S)
<1> DEFINE j == Joined(seqs)
           K == {k \in Nat : k + 1 \in 1..Len(seqs) => j[k + 1] \in Seq(S)}
<1>1. j[1] = seqs[1] /\ \A i \in 2..Len(seqs) : j[i] = j[i - 1] \o seqs[i]
  BY JoinsExists
<1> HIDE DEF j
<1>2. Len(seqs) \in Nat /\ \A i \in 1..Len(seqs) : seqs[i] \in Seq(S)
  OBVIOUS
<1>3. 0 \in K
  BY <1>1, <1>2
<1>4. ASSUME NEW k \in K PROVE k + 1 \in K
  <2> SUFFICES ASSUME (k + 1) + 1 \in 1..Len(seqs) PROVE j[(k + 1) + 1] \in Seq(S)
    OBVIOUS
  <2> DEFINE m == k + 2
  <2>1. /\ k + 1 \in 1..Len(seqs) /\ m \in 2..Len(seqs) /\ m \in 1..Len(seqs)
        /\ m - 1 = k + 1 /\ (k + 1) + 1 = m
    BY <1>2
  <2> HIDE DEF m
  <2>2. j[k + 1] \in Seq(S) /\ seqs[m] \in Seq(S)
    BY <1>2, <2>1
  <2>3. j[m] = j[k + 1] \o seqs[m]
    BY <1>1, <2>1
  <2>4. j[m] \in Seq(S)
    BY <2>2, <2>3
  <2> QED BY <2>1, <2>4
<1>5. K = Nat
  <2> HIDE DEF K
  <2>1. K \in SUBSET Nat
    BY DEF K
  <2> QED BY <1>3, <1>4, <2>1, SetInduction
<1>6. ASSUME NEW i \in 1..Len(seqs) PROVE j[i] \in Seq(S)
  <2>1. PICK k \in Nat : k + 1 = i
    BY <1>2, i - 1 \in Nat, (i - 1) + 1 = i
  <2>2. k \in K
    BY <1>5
  <2> QED BY <2>1, <2>2
<1> QED BY <1>6 DEF j

LEMMA FlattenType ==
  ASSUME NEW S, NEW seqs \in Seq(Seq(S))
  PROVE  FlattenSeq(seqs) \in Seq(S)
<1>1. CASE Len(seqs) = 0
  <2>1. seqs = <<>> /\ <<>> \in Seq(S)
    BY <1>1
  <2> QED BY <2>1, FlattenEmpty, Zenon
<1>2. CASE Len(seqs) # 0
  <2>1. Len(seqs) \in 1..Len(seqs)
    BY <1>2
  <2> QED BY <1>2, <2>1, FlattenIs, JoinedType
<1> QED BY <1>1, <1>2

LEMMA FlattenAppend ==
  ASSUME NEW S, NEW seqs \in Seq(Seq(S)), NEW x \in Seq(S)
  PROVE  FlattenSeq(Append(seqs, x)) = FlattenSeq(seqs) \o x
<1> DEFINE more == Append(seqs, x)
           n == Len(seqs)
<1>1. /\ more \in Seq(Seq(S)) /\ Len(more) = n + 1 /\ n \in Nat /\ more[n + 1] = x
      /\ \A i \in 1..n : more[i] = seqs[i]
  OBVIOUS
<1> HIDE DEF more
<1>2. Len(more) # 0 /\ FlattenSeq(more) = Joined(more)[n + 1]
  BY <1>1, FlattenIs
<1> DEFINE j == Joined(more)
<1>3. j[1] = more[1] /\ \A i \in 2..n + 1 : j[i] = j[i - 1] \o more[i]
  BY <1>1, <1>2, JoinsExists
<1> HIDE DEF j
<1>4. CASE n = 0
  <2>1. seqs = <<>> /\ FlattenSeq(more) = x
    BY <1>1, <1>2, <1>3, <1>4 DEF j
  <2> QED BY <2>1, FlattenEmpty DEF more
<1>5. CASE n # 0
  <2> DEFINE h == Joined(seqs)
             K == {k \in Nat : k + 1 \in 1..n => j[k + 1] = h[k + 1]}
  <2>1. h[1] = seqs[1] /\ \A i \in 2..n : h[i] = h[i - 1] \o seqs[i]
    BY <1>5, JoinsExists
  <2> HIDE DEF h, n
  <2>2. 0 \in K
    BY <1>1, <1>3, <2>1
  <2>3. ASSUME NEW k \in K PROVE k + 1 \in K
    <3> SUFFICES ASSUME (k + 1) + 1 \in 1..n PROVE j[(k + 1) + 1] = h[(k + 1) + 1]
      OBVIOUS
    <3> DEFINE m == k + 2
    <3>1. /\ k + 1 \in 1..n /\ m \in 2..n /\ m \in 2..n + 1 /\ m \in 1..n
          /\ m - 1 = k + 1 /\ (k + 1) + 1 = m
      BY <1>1
    <3> HIDE DEF m
    <3>2. j[m] = j[k + 1] \o more[m] /\ h[m] = h[k + 1] \o seqs[m]
      BY <1>3, <2>1, <3>1
    <3> QED BY <1>1, <3>1, <3>2
  <2>4. K = Nat
    <3> HIDE DEF K
    <3>1. K \in SUBSET Nat
      BY DEF K
    <3> QED BY <2>2, <2>3, <3>1, SetInduction
  <2>5. j[n] = h[n]
    <3>1. PICK k \in Nat : k + 1 = n
      BY <1>1, <1>5, n - 1 \in Nat, (n - 1) + 1 = n
    <3>2. k \in K
      BY <2>4
    <3>3. n \in 1..n
      BY <1>1, <1>5
    <3> QED BY <3>1, <3>2, <3>3
  <2>6. j[n + 1] = j[n] \o x
    <3>1. n + 1 \in 2..n + 1 /\ (n + 1) - 1 = n
      BY <1>1, <1>5
    <3> QED BY <1>1, <1>3, <3>1
  <2>7. FlattenSeq(seqs) = h[n]
    BY <1>5, FlattenIs DEF h, n
  <2> QED BY <1>2, <2>5, <2>6, <2>7 DEF j, more
<1> QED BY <1>4, <1>5

LEMMA FlattenOne ==
  ASSUME NEW S, NEW x \in Seq(S)
  PROVE  FlattenSeq(<<x>>) = x
<1>1. <<>> \in Seq(Seq(S)) /\ <<x>> = Append(<<>>, x) /\ <<>> \o x = x
  OBVIOUS
<1>2. FlattenSeq(Append(<<>>, x)) = FlattenSeq(<<>>) \o x
  BY <1>1, FlattenAppend
<1> QED BY <1>1, <1>2, FlattenEmpty

LEMMA FlattenConcat ==
  ASSUME NEW S, NEW a \in Seq(Seq(S)), NEW b \in Seq(Seq(S))
  PROVE  FlattenSeq(a \o b) = FlattenSeq(a) \o FlattenSeq(b)
<1> DEFINE V == Seq(Seq(S))
           K == {k \in Nat : \A c \in V : Len(c) = k =>
                               FlattenSeq(a \o c) = FlattenSeq(a) \o FlattenSeq(c)}
<1>0. FlattenSeq(a) \in Seq(S)
  BY FlattenType
<1>1. 0 \in K
  <2> SUFFICES ASSUME NEW c \in V, Len(c) = 0
               PROVE  FlattenSeq(a \o c) = FlattenSeq(a) \o FlattenSeq(c)
    OBVIOUS
  <2>1. c = <<>> /\ a \o c = a
    OBVIOUS
  <2> QED BY <1>0, <2>1, FlattenEmpty
<1>2. ASSUME NEW k \in K PROVE k + 1 \in K
  <2> SUFFICES ASSUME NEW c \in V, Len(c) = k + 1
               PROVE  FlattenSeq(a \o c) = FlattenSeq(a) \o FlattenSeq(c)
    OBVIOUS
  <2> DEFINE d == SubSeq(c, 1, k)
             x == c[k + 1]
  <2>1. d \in V /\ Len(d) = k /\ x \in Seq(S) /\ c = Append(d, x)
    OBVIOUS
  <2> HIDE DEF d, x
  <2>2. a \o c = Append(a \o d, x) /\ a \o d \in V
    BY <2>1
  <2>3. FlattenSeq(a \o d) = FlattenSeq(a) \o FlattenSeq(d)
    BY <2>1
  <2>4. FlattenSeq(a \o c) = FlattenSeq(a \o d) \o x /\ FlattenSeq(c) = FlattenSeq(d) \o x
    BY <2>1, <2>2, FlattenAppend
  <2>5. FlattenSeq(d) \in Seq(S)
    BY <2>1, FlattenType
  <2>6. (FlattenSeq(a) \o FlattenSeq(d)) \o x = FlattenSeq(a) \o (FlattenSeq(d) \o x)
    BY <1>0, <2>1, <2>5, ConcatAssociative
  <2> QED BY <2>3, <2>4, <2>6
<1>3. K = Nat
  <2> HIDE DEF K
  <2>1. K \in SUBSET Nat
    BY DEF K
  <2> QED BY <1>1, <1>2, <2>1, SetInduction
<1>4. Len(b) \in K /\ b \in V
  BY <1>3
<1> QED BY <1>4

-----------------------------------------------------------------------------
(* Listing, one generation of nodes after the other. *)
Nodes(t) == /\ Len(t) \in Nat /\ DOMAIN t = 1..Len(t)
            /\ \A n \in DOMAIN t : t[n].kids \in Seq(Nat)
Text == Seq(Int)
Texts(t) == CHOOSE text : text = [d \in 0..Len(t) |->
  [m \in Nat |-> IF d = 0 \/ m \notin DOMAIN t THEN NoText ELSE TextOf(t, m, text[d - 1])]]

LEMMA ListingIs == \A t, n : Listing(t, n) = Texts(t)[Len(t)][n]
BY DEF Listing, Texts

(* The text of a node needs that of its children. *)
LEMMA TextType ==
  ASSUME NEW t, Nodes(t), NEW n \in DOMAIN t, NEW f \in [Nat -> Text]
  PROVE  TextOf(t, n, f) \in Text
<1> DEFINE end == IF IsList(t, n) THEN <<>> ELSE <<0>>
           parts == [k \in DOMAIN t[n].kids |-> f[t[n].kids[k]] \o end]
<1>1. t[n].kids \in Seq(Nat) /\ n \in Nat
  BY DEF Nodes
<1>2. end \in Seq(Int)
  OBVIOUS
<1>3. TextOf(t, n, f) = IF IsList(t, n) THEN FlattenSeq(parts) ELSE <<n>> \o FlattenSeq(parts)
  BY Zenon DEF TextOf
<1> HIDE DEF end
<1>4. parts \in Seq(Seq(Int))
  <2>1. \A k \in DOMAIN t[n].kids : f[t[n].kids[k]] \o end \in Seq(Int)
    <3> SUFFICES ASSUME NEW k \in DOMAIN t[n].kids PROVE f[t[n].kids[k]] \o end \in Seq(Int)
      OBVIOUS
    <3>1. f[t[n].kids[k]] \in Seq(Int)
      <4>1. t[n].kids[k] \in Nat
        BY <1>1
      <4>2. f[t[n].kids[k]] \in Text
        BY <4>1
      <4> QED BY <4>2 DEF Text
    <3> QED BY <1>2, <3>1
  <2> DEFINE m == Len(t[n].kids)
             part(k) == f[t[n].kids[k]] \o end
  <2>2. m \in Nat /\ DOMAIN t[n].kids = 1..m /\ parts = [k \in 1..m |-> part(k)]
    BY <1>1
  <2> HIDE DEF m, part, parts
  <2>3. \A k \in 1..m : part(k) \in Seq(Int)
    BY <2>1, <2>2 DEF part
  <2> QED BY <2>2, <2>3
<1> HIDE DEF parts
<1>5. FlattenSeq(parts) \in Seq(Int)
  BY <1>4, FlattenType
<1>6. <<n>> \in Seq(Int)
  BY <1>1
<1>7. <<n>> \o FlattenSeq(parts) \in Seq(Int)
  BY <1>5, <1>6
<1> QED BY <1>3, <1>5, <1>7 DEF Text

LEMMA SameText ==
  ASSUME NEW t, NEW n, NEW f, NEW g,
         \A k \in DOMAIN t[n].kids : f[t[n].kids[k]] = g[t[n].kids[k]]
  PROVE  TextOf(t, n, f) = TextOf(t, n, g)
<1> DEFINE parts(h) == [k \in DOMAIN t[n].kids |-> h[t[n].kids[k]] \o (IF IsList(t, n) THEN <<>> ELSE <<0>>)]
<1>1. parts(f) = parts(g)
  OBVIOUS
<1>2. \A h : TextOf(t, n, h) = IF IsList(t, n) THEN FlattenSeq(parts(h)) ELSE <<n>> \o FlattenSeq(parts(h))
  BY Zenon DEF TextOf
<1> HIDE DEF parts
<1> QED BY <1>1, <1>2

LEMMA TextSteps ==
  ASSUME NEW t, Nodes(t), NEW text, text = Texts(t)
  PROVE  /\ \A d \in 0..Len(t) : text[d] \in [Nat -> Text]
         /\ \A m \in Nat : text[0][m] = NoText
         /\ \A d \in 0..Len(t) - 1 : \A m \in Nat :
              text[d + 1][m] = IF m \notin DOMAIN t THEN NoText ELSE TextOf(t, m, text[d])
<1> DEFINE V == [Nat -> Text]
           next(f) == [m \in Nat |-> IF m \notin DOMAIN t THEN NoText ELSE TextOf(t, m, f)]
           G == [d \in Nat |-> [f \in V |-> next(f)]]
           v0 == [m \in Nat |-> NoText]
           n == Len(t)
           def(f) == [d \in 0..n |->
             [m \in Nat |-> IF d = 0 \/ m \notin DOMAIN t THEN NoText ELSE TextOf(t, m, f[d - 1])]]
<1>1. NoText \in Text /\ n \in Nat
  BY DEF NoText, Text, Nodes
<1>2. v0 \in V
  BY <1>1
<1>3. ASSUME NEW f \in V PROVE next(f) \in V
  BY <1>1, TextType
<1>4. G \in [Nat -> [V -> V]]
  <2> HIDE DEF V, next
  <2> QED BY <1>3
<1>5. PICK f : Steps(f, n, V, v0, G)
  <2> HIDE DEF V, v0, G, n
  <2> QED BY <1>1, <1>2, <1>4, StepsExist
<1>6. f = def(f)
  <2>1. f \in [0..n -> V] /\ f[0] = v0 /\ \A k \in 0..n - 1 : f[k + 1] = G[k][f[k]]
    BY <1>5 DEF Steps
  <2>2. \A k \in 0..n - 1 : f[k + 1] = next(f[k])
    <3> SUFFICES ASSUME NEW k \in 0..n - 1 PROVE f[k + 1] = next(f[k])
      OBVIOUS
    <3>1. k \in Nat /\ f[k] \in V
      BY <1>1, <2>1
    <3> HIDE DEF V, next
    <3> QED BY <2>1, <3>1
  <2>3. \A d \in 0..n : f[d] = def(f)[d]
    <3> SUFFICES ASSUME NEW d \in 0..n PROVE f[d] = def(f)[d]
      OBVIOUS
    <3>1. CASE d = 0
      BY <2>1, <3>1
    <3>2. CASE d # 0
      <4>1. d - 1 \in 0..n - 1 /\ (d - 1) + 1 = d
        BY <1>1, <3>2
      <4>2. f[d] = next(f[d - 1])
        BY <2>2, <4>1
      <4> HIDE DEF n
      <4> QED BY <3>2, <4>2
    <3> QED BY <3>1, <3>2
  <2> HIDE DEF n, v0, V
  <2>4. DOMAIN f = 0..n /\ f = [d \in DOMAIN f |-> f[d]]
    BY <2>1, Zenon
  <2> QED BY <2>3, <2>4
<1>7. text = def(text)
  BY <1>6 DEF Texts
<1> HIDE DEF n
<1>8. \A d \in 0..n : text[d] =
        [m \in Nat |-> IF d = 0 \/ m \notin DOMAIN t THEN NoText ELSE TextOf(t, m, text[d - 1])]
  BY <1>7, Zenon
<1>9. \A m \in Nat : text[0][m] = NoText
  <2>1. 0 \in 0..n
    BY <1>1
  <2> QED BY <1>8, <2>1, Zenon
<1>10. \A d \in 0..n - 1 : text[d + 1] = next(text[d])
  <2> SUFFICES ASSUME NEW d \in 0..n - 1 PROVE text[d + 1] = next(text[d])
    OBVIOUS
  <2> DEFINE e == d + 1
  <2>1. e \in 0..n /\ e # 0 /\ e - 1 = d
    BY <1>1
  <2> HIDE DEF e
  <2>2. text[e] = [m \in Nat |-> IF e = 0 \/ m \notin DOMAIN t THEN NoText ELSE TextOf(t, m, text[e - 1])]
    BY <1>8, <2>1, Zenon
  <2>3. text[e] = next(text[d])
    BY <2>1, <2>2
  <2> QED BY <2>3 DEF e
<1>11. \A d \in 0..n : text[d] \in V
  <2> DEFINE K == {k \in Nat : k <= n => text[k] \in V}
  <2>1. 0 \in K
    <3>1. 0 \in 0..n
      BY <1>1
    <3>2. text[0] = [m \in Nat |-> IF 0 = 0 \/ m \notin DOMAIN t THEN NoText ELSE TextOf(t, m, text[0 - 1])]
      BY <1>8, <3>1, Zenon
    <3>3. text[0] = v0
      BY <3>2, Zenon
    <3> HIDE DEF V, v0
    <3> QED BY <1>2, <3>3
  <2>2. ASSUME NEW k \in K PROVE k + 1 \in K
    <3> SUFFICES ASSUME k + 1 <= n PROVE text[k + 1] \in V
      OBVIOUS
    <3>1. k \in 0..n - 1 /\ k <= n
      BY <1>1
    <3> HIDE DEF V, next
    <3> QED BY <1>3, <1>10, <3>1
  <2>3. K = Nat
    <3> HIDE DEF K
    <3>1. K \in SUBSET Nat
      BY DEF K
    <3> QED BY <2>1, <2>2, <3>1, SetInduction
  <2> SUFFICES ASSUME NEW d \in 0..n PROVE text[d] \in V
    OBVIOUS
  <2>4. d \in K /\ d <= n
    <3>1. d \in Nat /\ d <= n
      BY <1>1
    <3> HIDE DEF K
    <3> QED BY <2>3, <3>1
  <2> HIDE DEF V
  <2> QED BY <2>4
<1>12. \A d \in 0..n - 1 : \A m \in Nat :
         text[d + 1][m] = IF m \notin DOMAIN t THEN NoText ELSE TextOf(t, m, text[d])
  BY <1>10, Zenon
<1> QED BY <1>9, <1>11, <1>12 DEF n

(* Nodes that lead to no node outside of them, and not in a circle. *)
ClosedUnder(t, S) ==
  S \subseteq DOMAIN t /\ \A n \in S : \A k \in DOMAIN t[n].kids : t[n].kids[k] \in S \cup {0}
Ranking(t, S, rank) ==
  /\ rank \in [DOMAIN t -> 0..Len(t) - 1]
  /\ \A n \in S : \A k \in DOMAIN t[n].kids :
       t[n].kids[k] # 0 => rank[t[n].kids[k]] < rank[n]

(* L gives each node of S the text that follows from that of its children. *)
Listed(t, S, L) ==
  L \in [Nat -> Text] /\ L[0] = NoText /\ \A n \in S : L[n] = TextOf(t, n, L)

(* There is one such reading, and Listing is it. *)
LEMMA ListingUnique ==
  ASSUME NEW t, Nodes(t), NEW S, ClosedUnder(t, S), NEW rank, Ranking(t, S, rank),
         NEW L, Listed(t, S, L)
  PROVE  \A n \in S : Listing(t, n) = L[n]
<1> DEFINE text == Texts(t)
           K == {d \in Nat : d <= Len(t) => \A n \in S : rank[n] < d => text[d][n] = L[n]}
<1>1. /\ \A m \in Nat : text[0][m] = NoText
      /\ \A d \in 0..Len(t) - 1 : \A m \in Nat :
              text[d + 1][m] = IF m \notin DOMAIN t THEN NoText ELSE TextOf(t, m, text[d])
  BY TextSteps
<1> HIDE DEF text
<1>2. Len(t) \in Nat /\ DOMAIN t = 1..Len(t) /\ \A n \in S : n \in DOMAIN t /\ n \in Nat /\ rank[n] \in 0..Len(t) - 1
  BY DEF Nodes, ClosedUnder, Ranking
<1>3. \A d \in 0..Len(t) : text[d][0] = NoText
  <2> SUFFICES ASSUME NEW d \in 0..Len(t) PROVE text[d][0] = NoText
    OBVIOUS
  <2>1. CASE d = 0
    BY <1>1, <2>1
  <2>2. CASE d # 0
    <3>1. PICK e \in 0..Len(t) - 1 : d = e + 1
      BY <1>2, <2>2, d - 1 \in 0..Len(t) - 1, (d - 1) + 1 = d
    <3>2. 0 \notin DOMAIN t /\ 0 \in Nat
      BY <1>2
    <3> QED BY <1>1, <3>1, <3>2
  <2> QED BY <2>1, <2>2
<1>4. 0 \in K
  BY <1>2
<1>5. ASSUME NEW d \in K PROVE d + 1 \in K
  <2> SUFFICES ASSUME d + 1 <= Len(t), NEW n \in S, rank[n] < d + 1
               PROVE  text[d + 1][n] = L[n]
    OBVIOUS
  <2>1. d \in 0..Len(t) - 1 /\ d \in 0..Len(t) /\ d <= Len(t)
    BY <1>2
  <2>2. text[d + 1][n] = TextOf(t, n, text[d])
    BY <1>1, <1>2, <2>1
  <2>3. ASSUME NEW k \in DOMAIN t[n].kids PROVE text[d][t[n].kids[k]] = L[t[n].kids[k]]
    <3> DEFINE c == t[n].kids[k]
    <3>1. CASE c = 0
      BY <1>3, <2>1, <3>1 DEF Listed
    <3>2. CASE c # 0
      <4>1. c \in S
        BY <3>2 DEF ClosedUnder
      <4>2. rank[c] < rank[n]
        BY <3>2 DEF Ranking
      <4>3. rank[c] < d
        BY <1>2, <2>1, <4>1, <4>2
      <4> HIDE DEF c
      <4>4. text[d][c] = L[c]
        BY <2>1, <4>1, <4>3
      <4> QED BY <4>4 DEF c
    <3> QED BY <3>1, <3>2
  <2>4. TextOf(t, n, text[d]) = TextOf(t, n, L)
    BY <2>3, SameText
  <2> QED BY <2>2, <2>4 DEF Listed
<1>6. K = Nat
  <2> HIDE DEF K
  <2>1. K \in SUBSET Nat
    BY DEF K
  <2> QED BY <1>4, <1>5, <2>1, SetInduction
<1>7. Len(t) \in K
  <2> HIDE DEF K
  <2> QED BY <1>2, <1>6
<1> SUFFICES ASSUME NEW n \in S PROVE Listing(t, n) = L[n]
  OBVIOUS
<1>8. rank[n] < Len(t)
  BY <1>2
<1>9. text[Len(t)][n] = L[n]
  BY <1>2, <1>7, <1>8
<1> QED BY <1>9, ListingIs DEF text

LEMMA ListingReads ==
  ASSUME NEW t, Nodes(t), NEW S, ClosedUnder(t, S), NEW rank, Ranking(t, S, rank)
  PROVE  Listed(t, S, [n \in Nat |-> Listing(t, n)])
<1> DEFINE text == Texts(t)
           K == {d \in Nat : d + 1 <= Len(t) => \A n \in S : rank[n] < d => text[d][n] = text[d + 1][n]}
           L == [n \in Nat |-> Listing(t, n)]
           top == Len(t)
<1>1. /\ \A m \in Nat : text[0][m] = NoText
      /\ \A d \in 0..top : text[d] \in [Nat -> Text]
      /\ \A d \in 0..top - 1 : \A m \in Nat :
              text[d + 1][m] = IF m \notin DOMAIN t THEN NoText ELSE TextOf(t, m, text[d])
  BY TextSteps
<1> HIDE DEF text, top
<1>2. /\ top \in Nat /\ DOMAIN t = 1..top
      /\ \A n \in S : n \in DOMAIN t /\ n \in Nat /\ rank[n] \in 0..top - 1
  BY DEF Nodes, ClosedUnder, Ranking, top
<1>3. \A d \in 0..top : text[d][0] = NoText
  <2> SUFFICES ASSUME NEW d \in 0..top PROVE text[d][0] = NoText
    OBVIOUS
  <2>1. CASE d = 0
    BY <1>1, <2>1
  <2>2. CASE d # 0
    <3>1. PICK e \in 0..top - 1 : d = e + 1
      BY <1>2, <2>2, d - 1 \in 0..top - 1, (d - 1) + 1 = d
    <3>2. 0 \notin DOMAIN t /\ 0 \in Nat
      BY <1>2
    <3> QED BY <1>1, <3>1, <3>2
  <2> QED BY <2>1, <2>2
<1>4. 0 \in K
  BY <1>2
<1>5. ASSUME NEW d \in K PROVE d + 1 \in K
  <2> DEFINE e == d + 1
  <2> SUFFICES ASSUME e + 1 <= top, NEW n \in S, rank[n] < e
               PROVE  text[e][n] = text[e + 1][n]
    BY DEF top
  <2>1. /\ d \in 0..top - 1 /\ e \in 0..top - 1 /\ d + 1 <= top
        /\ d \in 0..top /\ e \in 0..top /\ e \in Nat
    BY <1>2
  <2>2. text[d + 1][n] = TextOf(t, n, text[d])
    BY <1>1, <1>2, <2>1
  <2>3. text[e + 1][n] = TextOf(t, n, text[e])
    <3> HIDE DEF e
    <3> QED BY <1>1, <1>2, <2>1
  <2>4. ASSUME NEW k \in DOMAIN t[n].kids PROVE text[d][t[n].kids[k]] = text[e][t[n].kids[k]]
    <3> DEFINE c == t[n].kids[k]
    <3>1. CASE c = 0
      BY <1>3, <2>1, <3>1
    <3>2. CASE c # 0
      <4>1. c \in S
        BY <3>2 DEF ClosedUnder
      <4>2. rank[c] < rank[n]
        BY <3>2 DEF Ranking
      <4>3. rank[c] < d
        BY <1>2, <2>1, <4>1, <4>2
      <4> HIDE DEF c
      <4>4. text[d][c] = text[e][c]
        BY <2>1, <4>1, <4>3 DEF top
      <4> QED BY <4>4 DEF c
    <3> QED BY <3>1, <3>2
  <2>5. TextOf(t, n, text[d]) = TextOf(t, n, text[e])
    BY <2>4, SameText
  <2> QED BY <2>2, <2>3, <2>5
<1>6. K = Nat
  <2> HIDE DEF K
  <2>1. K \in SUBSET Nat
    BY DEF K
  <2> QED BY <1>4, <1>5, <2>1, SetInduction
<1>7. \A n \in Nat : L[n] = text[top][n]
  BY ListingIs DEF text, top
<1>8. L \in [Nat -> Text]
  <2>1. top \in 0..top
    BY <1>2
  <2>2. \A n \in Nat : text[top][n] \in Text
    BY <1>1, <2>1
  <2> QED BY <1>7, <2>2
<1>9. L[0] = NoText
  <2>1. top \in 0..top /\ 0 \in Nat
    BY <1>2
  <2> HIDE DEF L
  <2> QED BY <1>3, <1>7, <2>1
<1> HIDE DEF L
<1>10. ASSUME NEW n \in S PROVE L[n] = TextOf(t, n, L)
  <2> DEFINE d == top - 1
  <2>1. /\ d \in 0..top - 1 /\ d \in Nat /\ d + 1 = top /\ d \in 0..top /\ d + 1 <= top /\ n \in Nat /\ n \in DOMAIN t
        /\ top - 1 = d
    BY <1>2
  <2> HIDE DEF d
  <2>2. text[d + 1][n] = TextOf(t, n, text[d])
    BY <1>1, <2>1
  <2>3. ASSUME NEW k \in DOMAIN t[n].kids PROVE text[d][t[n].kids[k]] = L[t[n].kids[k]]
    <3> DEFINE c == t[n].kids[k]
    <3>1. CASE c = 0
      BY <1>3, <1>9, <2>1, <3>1
    <3>2. CASE c # 0
      <4>1. c \in S
        BY <3>2 DEF ClosedUnder
      <4>2. rank[c] < rank[n]
        BY <3>2 DEF Ranking
      <4>3. rank[c] < d
        <5> HIDE DEF c
        <5>1. rank[n] <= d /\ rank[n] \in Nat /\ rank[c] \in Nat
          BY <1>2, <2>1, <4>1
        <5> QED BY <2>1, <4>2, <5>1
      <4> HIDE DEF c
      <4>4. d \in K
        <5> HIDE DEF K
        <5> QED BY <1>6, <2>1
      <4>5. text[d][c] = text[d + 1][c]
        BY <2>1, <4>1, <4>3, <4>4 DEF top
      <4>6. text[d][c] = L[c]
        BY <1>2, <1>7, <2>1, <4>1, <4>5
      <4> QED BY <4>6 DEF c
    <3> QED BY <3>1, <3>2
  <2>4. TextOf(t, n, text[d]) = TextOf(t, n, L)
    BY <2>3, SameText
  <2> QED BY <1>7, <2>1, <2>2, <2>4
<1> QED BY <1>8, <1>9, <1>10 DEF Listed, L

-----------------------------------------------------------------------------
(* What a graft does to the nodes S that are in use: b, the last child of   *)
(* the list a, is gone, m is a with the children of b in its place, and     *)
(* whoever pointed to a points to m.                                        *)
OneParent(t, S) ==
  \A n \in S, o \in S : \A j \in DOMAIN t[n].kids, k \in DOMAIN t[o].kids :
    t[n].kids[j] = t[o].kids[k] /\ t[n].kids[j] # 0 => n = o /\ j = k
Orphan(t, S, r) == \A n \in S : \A k \in DOMAIN t[n].kids : t[n].kids[k] # r

Place(c, a, m) == IF c = a THEN m ELSE c
Left(S, a, b, m) == (S \ {a, b}) \cup {m}

Grafting(t, u, S, a, b, m) ==
  /\ a \in S /\ b \in S /\ a # b
  /\ Len(t[a].kids) = 2 /\ t[a].kids[2] = b
  /\ u[m].kids = <<t[a].kids[1]>> \o t[b].kids
  /\ m \in DOMAIN u /\ DOMAIN t \subseteq DOMAIN u
  /\ m = a \/ m \notin DOMAIN t
  /\ t[a].type = "STMTS" /\ t[b].type = "STMTS" /\ u[m].type = "STMTS"
  /\ \A n \in S \ {a, b} :
       /\ u[n].type = t[n].type /\ DOMAIN u[n].kids = DOMAIN t[n].kids
       /\ \A k \in DOMAIN t[n].kids : u[n].kids[k] = Place(t[n].kids[k], a, m)

(* Where a pointer of the new tree was before.                              *)
Origin(n, k, a, b, m) ==
  IF n # m THEN <<n, k>> ELSE IF k = 1 THEN <<a, 1>> ELSE <<b, k - 1>>

LEMMA GraftOrigin ==
  ASSUME NEW t, Nodes(t), NEW u, Nodes(u), NEW S, ClosedUnder(t, S), OneParent(t, S),
         NEW rank, Ranking(t, S, rank), NEW a, NEW b, NEW m, Grafting(t, u, S, a, b, m),
         NEW n \in Left(S, a, b, m), NEW k \in DOMAIN u[n].kids
  PROVE  LET o == Origin(n, k, a, b, m)
         IN  /\ o[1] \in S /\ o[2] \in DOMAIN t[o[1]].kids
             /\ t[o[1]].kids[o[2]] # b
             /\ u[n].kids[k] = Place(t[o[1]].kids[o[2]], a, m)
             /\ n = m => t[o[1]].kids[o[2]] # a
             /\ n = m /\ t[o[1]].kids[o[2]] # 0 => rank[t[o[1]].kids[o[2]]] < rank[a]
<1>1. /\ a \in S /\ b \in S /\ a # b /\ Len(t[a].kids) = 2 /\ t[a].kids[2] = b
      /\ a \in DOMAIN t /\ b \in DOMAIN t /\ 0 \notin DOMAIN t
      /\ t[a].kids \in Seq(Nat) /\ t[b].kids \in Seq(Nat)
  BY DEF Grafting, Nodes, ClosedUnder
<1>2. 1 \in DOMAIN t[a].kids /\ 2 \in DOMAIN t[a].kids /\ b # 0 /\ a # 0
  BY <1>1
<1>3. \A c \in S : \A j \in DOMAIN t[c].kids : t[c].kids[j] = b => c = a /\ j = 2
  BY <1>1, <1>2 DEF OneParent
<1>4. \A c \in S : \A j \in DOMAIN t[c].kids : t[c].kids[j] # 0 =>
        rank[t[c].kids[j]] \in Nat /\ rank[t[c].kids[j]] < rank[c]
  <2> SUFFICES ASSUME NEW c \in S, NEW j \in DOMAIN t[c].kids, t[c].kids[j] # 0
               PROVE  rank[t[c].kids[j]] \in Nat /\ rank[t[c].kids[j]] < rank[c]
    OBVIOUS
  <2>1. t[c].kids[j] \in DOMAIN t
    BY DEF ClosedUnder
  <2>2. rank[t[c].kids[j]] \in 0..Len(t) - 1 /\ Len(t) \in Nat
    BY <2>1 DEF Ranking, Nodes
  <2> QED BY <2>2 DEF Ranking
<1>5. rank[b] < rank[a] /\ rank[a] \in Nat /\ rank[b] \in Nat
  <2>1. rank[a] \in 0..Len(t) - 1 /\ rank[b] \in 0..Len(t) - 1 /\ Len(t) \in Nat
    BY <1>1 DEF Ranking, Nodes
  <2> QED BY <1>1, <1>2, <1>4, <2>1
<1>6. CASE n # m
  <2>1. n \in S \ {a, b}
    BY <1>6 DEF Left
  <2>2. Origin(n, k, a, b, m) = <<n, k>>
    BY <1>6 DEF Origin
  <2>3. k \in DOMAIN t[n].kids /\ u[n].kids[k] = Place(t[n].kids[k], a, m)
    BY <2>1 DEF Grafting
  <2> QED BY <1>3, <1>6, <2>1, <2>2, <2>3
<1>7. CASE n = m
  <2>1. u[n].kids = <<t[a].kids[1]>> \o t[b].kids
    BY <1>7 DEF Grafting
  <2>2. CASE k = 1
    <3>1. u[n].kids[k] = t[a].kids[1]
      BY <1>1, <1>2, <2>1, <2>2
    <3>2. t[a].kids[1] # b
      BY <1>1, <1>2, <1>3
    <3>3. t[a].kids[1] # 0 => rank[t[a].kids[1]] < rank[a]
      BY <1>1, <1>2, <1>4
    <3>4. t[a].kids[1] # a
      BY <1>2, <1>5, <3>3
    <3>5. Origin(n, k, a, b, m) = <<a, 1>>
      BY <1>7, <2>2 DEF Origin
    <3> QED BY <1>1, <1>2, <3>1, <3>2, <3>3, <3>4, <3>5 DEF Place
  <2>3. CASE k # 1
    <3> DEFINE j == k - 1
    <3>1. j \in DOMAIN t[b].kids /\ u[n].kids[k] = t[b].kids[j]
      BY <1>1, <1>2, <2>1, <2>3
    <3>2. Origin(n, k, a, b, m) = <<b, j>>
      BY <1>7, <2>3 DEF Origin
    <3> HIDE DEF j
    <3>3. t[b].kids[j] # b
      BY <1>1, <1>3, <3>1
    <3>4. t[b].kids[j] # 0 => rank[t[b].kids[j]] < rank[a]
      <4>1. t[b].kids[j] # 0 => rank[t[b].kids[j]] \in Nat /\ rank[t[b].kids[j]] < rank[b]
        BY <1>1, <1>4, <3>1
      <4> QED BY <1>5, <4>1
    <3>5. t[b].kids[j] # a
      BY <1>2, <1>5, <3>4
    <3> QED BY <1>1, <3>1, <3>2, <3>3, <3>4, <3>5 DEF Place
  <2> QED BY <2>2, <2>3
<1> QED BY <1>6, <1>7

LEMMA GraftClosed ==
  ASSUME NEW t, Nodes(t), NEW u, Nodes(u), NEW S, ClosedUnder(t, S), OneParent(t, S),
         NEW rank, Ranking(t, S, rank), NEW a, NEW b, NEW m, Grafting(t, u, S, a, b, m)
  PROVE  /\ ClosedUnder(u, Left(S, a, b, m)) /\ OneParent(u, Left(S, a, b, m))
         /\ \A r \in S : Orphan(t, S, r) =>
              /\ Place(r, a, m) \in Left(S, a, b, m)
              /\ Orphan(u, Left(S, a, b, m), Place(r, a, m))
<1> DEFINE T == Left(S, a, b, m)
<1>1. \A n \in T : \A k \in DOMAIN u[n].kids :
        LET o == Origin(n, k, a, b, m)
        IN  /\ o[1] \in S /\ o[2] \in DOMAIN t[o[1]].kids
            /\ t[o[1]].kids[o[2]] # b
            /\ u[n].kids[k] = Place(t[o[1]].kids[o[2]], a, m)
  BY GraftOrigin
<1>2. /\ a \in S /\ b \in S /\ a # b /\ a # 0 /\ m # 0 /\ m \in DOMAIN u
      /\ S \subseteq DOMAIN t /\ DOMAIN t \subseteq DOMAIN u /\ 0 \notin DOMAIN t
      /\ (m = a \/ m \notin S)
      /\ 2 \in DOMAIN t[a].kids /\ t[a].kids[2] = b
  BY DEF Grafting, Nodes, ClosedUnder
<1>3. ASSUME NEW c \in S \cup {0}, c # b
      PROVE  Place(c, a, m) \in T \cup {0} /\ (Place(c, a, m) = 0 <=> c = 0)
  BY <1>2, <1>3 DEF Place, Left
<1>4. ASSUME NEW c \in S \cup {0}, NEW d \in S \cup {0}, Place(c, a, m) = Place(d, a, m) PROVE c = d
  BY <1>2, <1>4 DEF Place
<1>5. \A n \in S : \A k \in DOMAIN t[n].kids : t[n].kids[k] \in S \cup {0}
  BY DEF ClosedUnder
<1>6. ClosedUnder(u, T)
  <2>1. T \subseteq DOMAIN u
    BY <1>2 DEF Left
  <2>2. \A n \in T : \A k \in DOMAIN u[n].kids : u[n].kids[k] \in T \cup {0}
    BY <1>1, <1>3, <1>5
  <2> HIDE DEF T
  <2> QED BY <2>1, <2>2 DEF ClosedUnder
<1>7. OneParent(u, T)
  <2> SUFFICES ASSUME NEW n \in T, NEW n2 \in T, NEW j \in DOMAIN u[n].kids, NEW k \in DOMAIN u[n2].kids,
                      u[n].kids[j] = u[n2].kids[k], u[n].kids[j] # 0
               PROVE  n = n2 /\ j = k
    BY DEF OneParent
  <2> DEFINE o == Origin(n, j, a, b, m)
             p == Origin(n2, k, a, b, m)
             c == t[o[1]].kids[o[2]]
             d == t[p[1]].kids[p[2]]
  <2>1. o[1] \in S /\ o[2] \in DOMAIN t[o[1]].kids /\ u[n].kids[j] = Place(c, a, m) /\ c # b
    BY <1>1
  <2>2. p[1] \in S /\ p[2] \in DOMAIN t[p[1]].kids /\ u[n2].kids[k] = Place(d, a, m) /\ d # b
    BY <1>1
  <2>3. o[1] = p[1] /\ o[2] = p[2]
    <3> HIDE DEF o, p
    <3>1. c \in S \cup {0} /\ d \in S \cup {0}
      BY <1>5, <2>1, <2>2
    <3>2. c = d /\ c # 0
      <4> HIDE DEF c, d
      <4> QED BY <1>3, <1>4, <2>1, <2>2, <3>1
    <3> QED BY <2>1, <2>2, <3>2 DEF OneParent
  <2> HIDE DEF T
  <2>4. j \in Nat /\ k \in Nat
    <3>1. n \in DOMAIN u /\ n2 \in DOMAIN u
      BY <1>6 DEF ClosedUnder
    <3>2. u[n].kids \in Seq(Nat) /\ u[n2].kids \in Seq(Nat)
      BY <3>1 DEF Nodes
    <3> QED BY <3>2
  <2>5. \A x \in T : x = m \/ x \in S \ {a, b}
    BY DEF T, Left
  <2> QED BY <1>2, <2>3, <2>4, <2>5 DEF Origin
<1>8. ASSUME NEW r \in S, Orphan(t, S, r)
      PROVE  Place(r, a, m) \in T /\ Orphan(u, T, Place(r, a, m))
  <2>1. r # b
    BY <1>2, <1>8 DEF Orphan
  <2>2. Place(r, a, m) \in T
    BY <1>2, <2>1 DEF Place, Left
  <2>3. ASSUME NEW n \in T, NEW k \in DOMAIN u[n].kids PROVE u[n].kids[k] # Place(r, a, m)
    <3> DEFINE o == Origin(n, k, a, b, m)
               c == t[o[1]].kids[o[2]]
    <3>1. o[1] \in S /\ o[2] \in DOMAIN t[o[1]].kids /\ u[n].kids[k] = Place(c, a, m)
      BY <1>1
    <3> HIDE DEF o
    <3>2. c \in S \cup {0} /\ c # r
      BY <1>5, <1>8, <3>1 DEF Orphan
    <3> HIDE DEF c
    <3> QED BY <1>4, <3>1, <3>2
  <2> HIDE DEF T
  <2> QED BY <2>2, <2>3 DEF Orphan
<1> QED BY <1>6, <1>7, <1>8

LEMMA GraftRanking ==
  ASSUME NEW t, Nodes(t), NEW u, Nodes(u), NEW S, ClosedUnder(t, S), OneParent(t, S),
         NEW rank, Ranking(t, S, rank), NEW a, NEW b, NEW m, Grafting(t, u, S, a, b, m)
  PROVE  \E rank2 : Ranking(u, Left(S, a, b, m), rank2)
<1> DEFINE T == Left(S, a, b, m)
           r2 == [n \in DOMAIN u |-> IF n = m THEN rank[a] ELSE IF n \in DOMAIN t THEN rank[n] ELSE 0]
<1>1. /\ Len(t) \in Nat /\ Len(u) \in Nat /\ Len(t) <= Len(u) /\ Len(u) # 0
      /\ a \in DOMAIN t /\ b \in DOMAIN t /\ m \in DOMAIN u /\ m # 0 /\ 0 \notin DOMAIN t
      /\ DOMAIN t \subseteq DOMAIN u
      /\ \A n \in DOMAIN t : rank[n] \in 0..Len(t) - 1
      /\ S \subseteq DOMAIN t /\ (m = a \/ m \notin DOMAIN t)
  <2>1. /\ Len(t) \in Nat /\ Len(u) \in Nat /\ DOMAIN t = 1..Len(t) /\ DOMAIN u = 1..Len(u)
        /\ a \in DOMAIN t /\ b \in DOMAIN t /\ m \in DOMAIN u /\ DOMAIN t \subseteq DOMAIN u
        /\ \A n \in DOMAIN t : rank[n] \in 0..Len(t) - 1
        /\ S \subseteq DOMAIN t /\ (m = a \/ m \notin DOMAIN t)
    BY DEF Grafting, Nodes, ClosedUnder, Ranking
  <2> QED BY <2>1
<1>2. r2 \in [DOMAIN u -> 0..Len(u) - 1]
  <2>1. \A n \in DOMAIN t : rank[n] \in 0..Len(u) - 1
    BY <1>1
  <2>2. 0 \in 0..Len(u) - 1
    BY <1>1
  <2> QED BY <1>1, <2>1, <2>2
<1>3. \A n \in DOMAIN u : r2[n] = IF n = m THEN rank[a] ELSE IF n \in DOMAIN t THEN rank[n] ELSE 0
  OBVIOUS
<1> HIDE DEF r2
<1>4. ASSUME NEW c \in S PROVE r2[Place(c, a, m)] = rank[c]
  BY <1>1, <1>3 DEF Place
<1>5. ASSUME NEW n \in T, NEW k \in DOMAIN u[n].kids, u[n].kids[k] # 0
      PROVE  r2[u[n].kids[k]] < r2[n]
  <2> DEFINE o == Origin(n, k, a, b, m)
             c == t[o[1]].kids[o[2]]
  <2>1. /\ o[1] \in S /\ o[2] \in DOMAIN t[o[1]].kids /\ u[n].kids[k] = Place(c, a, m)
        /\ n = m /\ c # 0 => rank[c] < rank[a]
    BY GraftOrigin
  <2>2. n # m => o[1] = n /\ n \in S
    BY DEF Origin, Left
  <2> HIDE DEF o
  <2>3. c \in S \cup {0}
    BY <2>1 DEF ClosedUnder
  <2>4. c # 0 => rank[c] < rank[o[1]]
    BY <2>1 DEF Ranking
  <2> HIDE DEF c
  <2>5. c # 0 /\ c \in S
    BY <1>1, <1>5, <2>1, <2>3 DEF Place
  <2>6. r2[u[n].kids[k]] = rank[c]
    BY <1>4, <2>1, <2>5
  <2> QED BY <1>1, <1>3, <2>1, <2>2, <2>4, <2>5, <2>6
<1>6. Ranking(u, T, r2)
  <2> HIDE DEF T
  <2> QED BY <1>2, <1>5 DEF Ranking
<1> QED BY <1>6

(* The texts of the children of a node, and the text of a list of them.    *)
PartsOf(t, n, f) == [k \in DOMAIN t[n].kids |-> f[t[n].kids[k]]]

LEMMA ListText ==
  ASSUME NEW t, NEW n, NEW f, t[n].type = "STMTS", t[n].kids \in Seq(Nat), f \in [Nat -> Text]
  PROVE  TextOf(t, n, f) = FlattenSeq(PartsOf(t, n, f))
<1> DEFINE p == [k \in DOMAIN t[n].kids |-> f[t[n].kids[k]] \o (IF IsList(t, n) THEN <<>> ELSE <<0>>)]
       q == [k \in DOMAIN t[n].kids |-> f[t[n].kids[k]]]
<1>1. IsList(t, n)
  BY DEF IsList
<1>2. ASSUME NEW k \in DOMAIN t[n].kids
      PROVE  f[t[n].kids[k]] \o (IF IsList(t, n) THEN <<>> ELSE <<0>>) = f[t[n].kids[k]]
  <2>1. t[n].kids[k] \in Nat
    OBVIOUS
  <2>2. f[t[n].kids[k]] \in Seq(Int)
    BY <2>1 DEF Text
  <2> HIDE DEF p
  <2>3. \A s \in Seq(Int) : s \o <<>> = s
    OBVIOUS
  <2> QED BY <1>1, <2>2, <2>3
<1>3. p = q
  BY <1>2
<1>4. TextOf(t, n, f) = IF IsList(t, n) THEN FlattenSeq(p) ELSE <<n>> \o FlattenSeq(p)
  BY Zenon DEF TextOf
<1> HIDE DEF p, q
<1>5. TextOf(t, n, f) = FlattenSeq(q)
  BY <1>1, <1>3, <1>4
<1> QED BY <1>5 DEF q, PartsOf

(* A graft keeps the text of every list and of every statement. *)
LEMMA GraftText ==
  ASSUME NEW t, Nodes(t), NEW u, Nodes(u), NEW S, ClosedUnder(t, S), OneParent(t, S),
         NEW rank, Ranking(t, S, rank), NEW a, NEW b, NEW m, Grafting(t, u, S, a, b, m)
  PROVE  \A n \in S \ {b} : Listing(u, Place(n, a, m)) = Listing(t, n)
<1> DEFINE T == Left(S, a, b, m)
           L == [n \in Nat |-> Listing(t, n)]
           M == [n \in Nat |-> IF n = m THEN L[a] ELSE L[n]]
<1>1. Listed(t, S, L)
  BY ListingReads
<1>2. /\ a \in S /\ b \in S /\ a # b /\ m \in DOMAIN u /\ m \in Nat /\ m # 0 /\ 0 \in Nat
      /\ a \in Nat /\ b \in Nat
      /\ a # 0 /\ S \subseteq DOMAIN t /\ (m = a \/ m \notin S) /\ \A n \in S : n \in Nat
      /\ t[a].kids \in Seq(Nat) /\ t[b].kids \in Seq(Nat) /\ 0 \notin DOMAIN t
  <2>1. /\ DOMAIN t = 1..Len(t) /\ DOMAIN u = 1..Len(u) /\ Len(t) \in Nat /\ Len(u) \in Nat
        /\ \A n \in DOMAIN t : t[n].kids \in Seq(Nat)
    BY DEF Nodes
  <2>2. a \in S /\ b \in S /\ a # b /\ m \in DOMAIN u /\ (m = a \/ m \notin DOMAIN t)
    BY DEF Grafting
  <2>3. S \subseteq DOMAIN t
    BY DEF ClosedUnder
  <2> HIDE DEF L, M, T
  <2>4. 0 \notin DOMAIN t /\ 0 \notin DOMAIN u /\ \A n \in DOMAIN t \cup DOMAIN u : n \in Nat
    BY <2>1
  <2> QED BY <2>1, <2>2, <2>3, <2>4
<1> HIDE DEF L
<1>3. /\ L \in [Nat -> Text] /\ L[0] = NoText /\ \A n \in S : L[n] = TextOf(t, n, L)
  BY <1>1 DEF Listed
<1>4. /\ M \in [Nat -> Text] /\ M[0] = NoText /\ M[m] = L[a]
      /\ \A n \in S \ {b} : M[Place(n, a, m)] = L[n]
  BY <1>2, <1>3 DEF Place
<1> HIDE DEF M
<1>5. ASSUME NEW c \in S \cup {0}, c # b PROVE M[Place(c, a, m)] = L[c]
  BY <1>2, <1>3, <1>4, <1>5 DEF Place
<1>6. ASSUME NEW n \in T, n # m PROVE M[n] = TextOf(u, n, M)
  <2>1. n \in S \ {a, b}
    BY <1>6 DEF Left
  <2>2. /\ u[n].type = t[n].type /\ DOMAIN u[n].kids = DOMAIN t[n].kids
        /\ \A k \in DOMAIN t[n].kids : u[n].kids[k] = Place(t[n].kids[k], a, m)
    BY <2>1 DEF Grafting
  <2>3. \A k \in DOMAIN t[n].kids : M[u[n].kids[k]] = L[t[n].kids[k]]
    <3> SUFFICES ASSUME NEW k \in DOMAIN t[n].kids PROVE M[u[n].kids[k]] = L[t[n].kids[k]]
      OBVIOUS
    <3>1. t[n].kids[k] \in S \cup {0}
      BY <2>1 DEF ClosedUnder
    <3>2. t[n].kids[k] # b
      <4>1. Origin(n, k, a, b, m) = <<n, k>>
        BY <1>6 DEF Origin
      <4>2. k \in DOMAIN u[n].kids
        BY <2>2
      <4> QED BY <4>1, <4>2, GraftOrigin
    <3> QED BY <1>5, <2>2, <3>1, <3>2
  <2>4. TextOf(u, n, M) = TextOf(t, n, L)
    <3> DEFINE parts == [k \in DOMAIN t[n].kids |-> L[t[n].kids[k]] \o (IF IsList(t, n) THEN <<>> ELSE <<0>>)]
               parts2 == [k \in DOMAIN u[n].kids |-> M[u[n].kids[k]] \o (IF IsList(u, n) THEN <<>> ELSE <<0>>)]
    <3>1. IsList(t, n) <=> IsList(u, n)
      BY <2>2 DEF IsList
    <3>2. parts = parts2
      BY <2>2, <2>3, <3>1
    <3>3. TextOf(t, n, L) = IF IsList(t, n) THEN FlattenSeq(parts) ELSE <<n>> \o FlattenSeq(parts)
      BY Zenon DEF TextOf
    <3>4. TextOf(u, n, M) = IF IsList(u, n) THEN FlattenSeq(parts2) ELSE <<n>> \o FlattenSeq(parts2)
      BY Zenon DEF TextOf
    <3> HIDE DEF parts, parts2
    <3> QED BY <3>1, <3>2, <3>3, <3>4
  <2>5. M[n] = L[n]
    <3>1. Place(n, a, m) = n
      BY <2>1 DEF Place
    <3> QED BY <1>4, <2>1, <3>1
  <2> QED BY <1>3, <2>1, <2>4, <2>5
<1>7. M[m] = TextOf(u, m, M)
  <2> DEFINE part(k) == M[u[m].kids[k]]
             parts == [k \in DOMAIN u[m].kids |-> part(k)]
             lpart(n) == [k \in DOMAIN t[n].kids |-> L[t[n].kids[k]]]
             x == t[a].kids[1]
  <2>1. /\ t[a].type = "STMTS" /\ t[b].type = "STMTS" /\ u[m].type = "STMTS"
        /\ u[m].kids = <<x>> \o t[b].kids /\ Len(t[a].kids) = 2 /\ t[a].kids[2] = b
        /\ u[m].kids \in Seq(Nat)
    BY <1>2 DEF Grafting, Nodes
  <2>2. /\ TextOf(u, m, M) = FlattenSeq(parts)
        /\ TextOf(t, a, L) = FlattenSeq(lpart(a)) /\ TextOf(t, b, L) = FlattenSeq(lpart(b))
    <3> HIDE DEF x
    <3>1. TextOf(u, m, M) = FlattenSeq(PartsOf(u, m, M))
      BY <1>4, <2>1, ListText
    <3>2. TextOf(t, a, L) = FlattenSeq(PartsOf(t, a, L))
      BY <1>2, <1>3, <2>1, ListText
    <3>3. TextOf(t, b, L) = FlattenSeq(PartsOf(t, b, L))
      BY <1>2, <1>3, <2>1, ListText
    <3> QED BY <3>1, <3>2, <3>3 DEF PartsOf
  <2>3. x \in Nat /\ L[x] \in Seq(Int) /\ L[b] \in Seq(Int)
    <3>1. x \in Nat
      BY <1>2, <2>1
    <3> HIDE DEF x
    <3>2. L[x] \in Text /\ L[b] \in Text
      BY <1>2, <1>3, <3>1
    <3> QED BY <3>1, <3>2 DEF Text
  <2>4. lpart(a) = <<L[x], L[b]>>
    <3>1. DOMAIN t[a].kids = 1..2
      BY <1>2, <2>1
    <3>2. lpart(a) = [k \in 1..2 |-> IF k = 1 THEN L[x] ELSE L[b]]
      BY <2>1, <3>1
    <3> HIDE DEF lpart, x
    <3> QED BY <2>3, <3>2
  <2>5. parts = <<L[x]>> \o lpart(b)
    <3> DEFINE kb == t[b].kids
    <3>1. lpart(b) = [k \in 1..Len(kb) |-> L[kb[k]]] /\ kb \in Seq(Nat) /\ Len(kb) \in Nat
      BY <1>2
    <3>2. lpart(b) \in Seq(Seq(Int)) /\ Len(lpart(b)) = Len(kb)
      <4>1. \A k \in 1..Len(kb) : L[kb[k]] \in Seq(Int)
        <5> SUFFICES ASSUME NEW k \in 1..Len(kb) PROVE L[kb[k]] \in Seq(Int)
          OBVIOUS
        <5>1. kb[k] \in Nat
          BY <3>1
        <5>2. L[kb[k]] \in Text
          BY <1>3, <5>1
        <5> QED BY <5>2 DEF Text
      <4> DEFINE y(k) == L[kb[k]]
      <4>2. lpart(b) = [k \in 1..Len(kb) |-> y(k)] /\ \A k \in 1..Len(kb) : y(k) \in Seq(Int)
        BY <3>1, <4>1
      <4> DEFINE z == lpart(b)
                 l == Len(kb)
      <4>3. z = [k \in 1..l |-> y(k)] /\ \A k \in 1..l : y(k) \in Seq(Int) /\ l \in Nat
        BY <3>1, <4>2
      <4> HIDE DEF y, z, l
      <4>4. z \in Seq(Seq(Int)) /\ Len(z) = l
        BY <3>1, <4>3 DEF l
      <4> QED BY <4>4 DEF z, l
    <3>3. DOMAIN u[m].kids = 1..Len(kb) + 1
      BY <2>1, <2>3, <3>1
    <3>4. ASSUME NEW k \in DOMAIN u[m].kids
          PROVE  part(k) = IF k = 1 THEN L[x] ELSE lpart(b)[k - 1]
      <4> DEFINE o == Origin(m, k, a, b, m)
                 c == t[o[1]].kids[o[2]]
      <4>1. m \in T
        BY DEF Left
      <4>2. /\ o[1] \in S /\ o[2] \in DOMAIN t[o[1]].kids
            /\ c # b /\ u[m].kids[k] = Place(c, a, m)
        BY <3>4, <4>1, GraftOrigin
      <4>3. c \in S \cup {0}
        <5> HIDE DEF o
        <5> QED BY <4>2 DEF ClosedUnder
      <4>4. part(k) = L[c]
        <5> HIDE DEF c
        <5> QED BY <1>5, <4>2, <4>3
      <4>5. CASE k = 1
        <5>1. o = <<a, 1>>
          BY <4>5 DEF Origin
        <5> QED BY <4>4, <4>5, <5>1
      <4>6. CASE k # 1
        <5>1. o = <<b, k - 1>>
          BY <4>6 DEF Origin
        <5>2. k - 1 \in 1..Len(kb)
          BY <3>1, <3>3, <4>6
        <5>3. lpart(b)[k - 1] = L[kb[k - 1]]
          BY <3>1, <5>2
        <5> HIDE DEF lpart, part
        <5> QED BY <4>4, <4>6, <5>1, <5>3
      <4> QED BY <4>5, <4>6
    <3> DEFINE l == lpart(b)
    <3> HIDE DEF part, l, x, kb
    <3>5. parts = [k \in 1..Len(l) + 1 |-> IF k = 1 THEN L[x] ELSE l[k - 1]]
      BY <3>2, <3>3, <3>4 DEF l
    <3>6. l \in Seq(Seq(Int)) /\ <<L[x]>> \in Seq(Seq(Int))
      BY <2>3, <3>2 DEF l
    <3> HIDE DEF parts
    <3>7. parts = <<L[x]>> \o l
      BY <3>5, <3>6
    <3> QED BY <3>7 DEF l
  <2> DEFINE s == L[x]
             l == lpart(b)
  <2>6. l \in Seq(Seq(Int)) /\ <<s>> \in Seq(Seq(Int)) /\ s \in Seq(Int)
    <3> DEFINE kb == t[b].kids
               y(k) == L[kb[k]]
    <3>1. \A k \in 1..Len(kb) : y(k) \in Seq(Int)
      <4> SUFFICES ASSUME NEW k \in 1..Len(kb) PROVE y(k) \in Seq(Int)
        OBVIOUS
      <4>1. kb[k] \in Nat
        BY <1>2
      <4>2. L[kb[k]] \in Text
        BY <1>3, <4>1
      <4> QED BY <4>2 DEF Text
    <3>2. l = [k \in 1..Len(kb) |-> y(k)] /\ Len(kb) \in Nat
      BY <1>2
    <3> HIDE DEF y, kb, l, s
    <3> QED BY <2>3, <3>1, <3>2 DEF s
  <2>7. FlattenSeq(parts) = FlattenSeq(<<s>>) \o FlattenSeq(l)
    <3> HIDE DEF s, l, parts
    <3>1. parts = <<s>> \o l
      BY <2>5 DEF s, l
    <3> QED BY <2>6, <3>1, FlattenConcat
  <2>8. FlattenSeq(<<s>>) = s
    <3> HIDE DEF s
    <3> QED BY <2>6, FlattenOne
  <2>9. FlattenSeq(l) = L[b]
    BY <1>2, <1>3, <2>2
  <2>10. L[a] = FlattenSeq(<<s, L[b]>>)
    BY <1>2, <1>3, <2>2, <2>4
  <2>11. FlattenSeq(<<s, L[b]>>) = s \o L[b]
    <3> DEFINE e == L[b]
    <3>1. s \in Seq(Int) /\ e \in Seq(Int)
      BY <2>3
    <3> HIDE DEF s, e
    <3>2. <<s, e>> = <<s>> \o <<e>> /\ <<s>> \in Seq(Seq(Int)) /\ <<e>> \in Seq(Seq(Int))
      BY <3>1
    <3>3. FlattenSeq(<<s>> \o <<e>>) = s \o e
      <4>1. FlattenSeq(<<s>> \o <<e>>) = FlattenSeq(<<s>>) \o FlattenSeq(<<e>>)
        BY <3>2, FlattenConcat
      <4>2. FlattenSeq(<<s>>) = s
        BY <3>1, FlattenOne
      <4>3. FlattenSeq(<<e>>) = e
        BY <3>1, FlattenOne
      <4> QED BY <4>1, <4>2, <4>3
    <3> QED BY <3>2, <3>3 DEF e
  <2> HIDE DEF s, l, parts, lpart
  <2> QED BY <1>4, <2>2, <2>7, <2>8, <2>9, <2>10, <2>11
<1>8. Listed(u, T, M)
  <2>1. \A n \in T : M[n] = TextOf(u, n, M)
    BY <1>6, <1>7
  <2> HIDE DEF T
  <2> QED BY <1>4, <2>1 DEF Listed
<1>9. \A n \in T : Listing(u, n) = M[n]
  <2>1. PICK rank2 : Ranking(u, T, rank2)
    BY GraftRanking
  <2>2. ClosedUnder(u, T)
    BY GraftClosed
  <2> HIDE DEF T
  <2> QED BY <1>8, <2>1, <2>2, ListingUnique
<1>10. ASSUME NEW n \in S \ {b} PROVE Listing(u, Place(n, a, m)) = Listing(t, n)
  <2>1. Place(n, a, m) \in T
    BY <1>2 DEF Place, Left
  <2>2. L[n] = Listing(t, n)
    BY <1>2 DEF L
  <2> QED BY <1>4, <1>9, <2>1, <2>2
<1> QED BY <1>10

-----------------------------------------------------------------------------
(***************************************************************************)
(* The heap: the tree while it is parsed, the frames of the visitor and what *)
(* they point to, the two outcomes of a graft, and what the pass has done. *)
(***************************************************************************)
NotList(t, n) == n # 0 => t[n].type # "STMTS"
Flat(t, n) == t[n].type = "STMTS" =>
                \A k \in DOMAIN t[n].kids : NotList(t, t[n].kids[k])
Raw(t, n) == Len(t[n].kids) = 2 /\ NotList(t, t[n].kids[1])

(* While the parser works the tree is a forest: every node has one parent,  *)
(* or one place on the stack, and is younger than its children.             *)
Younger(t) == \A n \in DOMAIN t : \A k \in DOMAIN t[n].kids : t[n].kids[k] < n
RawLists(t) == \A n \in DOMAIN t : t[n].type = "STMTS" => Raw(t, n)
OnStack(t, st) == \A i \in DOMAIN st :
  /\ st[i].sym \in {"stmt", "if"} => NotList(t, st[i].no)
  /\ st[i].no # 0 => /\ st[i].no \in DOMAIN t
                     /\ Orphan(t, DOMAIN t, st[i].no)
                     /\ \A j \in DOMAIN st : st[j].no = st[i].no => j = i
Forest(t, st) == Younger(t) /\ OneParent(t, DOMAIN t) /\ RawLists(t) /\ OnStack(t, st)

LEMMA ForestPush ==
  ASSUME NEW t, NEW st \in Seq(Item), Forest(t, st), NEW k \in 0..Len(st), NEW item \in Item,
         item.sym \in {"stmt", "if"} => NotList(t, item.no),
         item.no # 0 => /\ item.no \in DOMAIN t
                        /\ Orphan(t, DOMAIN t, item.no)
                        /\ \A j \in 1..k : st[j].no # item.no
  PROVE  Forest(t, Append(SubSeq(st, 1, k), item))
<1> DEFINE new == Append(SubSeq(st, 1, k), item)
<1>1. /\ DOMAIN new = 1..k + 1 /\ new[k + 1] = item /\ k \in Nat
      /\ \A j \in 1..k : j \in DOMAIN st /\ new[j] = st[j]
  OBVIOUS
<1> HIDE DEF new
<1>2. \A j \in DOMAIN new : (j \in 1..k /\ j \in DOMAIN st /\ new[j] = st[j]) \/ (j = k + 1 /\ new[j] = item)
  BY <1>1
<1>3. OnStack(t, new)
  BY <1>1, <1>2 DEF OnStack, Forest
<1> QED BY <1>3 DEF Forest, new

(* The children of a new node are taken from the stack, each from a place   *)
(* of its own.                                                              *)
Taken(kids, st, k) ==
  \E pos \in [DOMAIN kids -> Len(st) - k + 1..Len(st)] :
    /\ \A j \in DOMAIN kids : kids[j] = st[pos[j]].no
    /\ \A i, j \in DOMAIN kids : pos[i] = pos[j] => i = j

LEMMA ForestReduce ==
  ASSUME NEW t \in Seq(NodeRec), NEW st \in Seq(Item), Forest(t, st), NEW k \in 0..Len(st),
         NEW node \in NodeRec, Taken(node.kids, st, k),
         node.type = "STMTS" => Len(node.kids) = 2 /\ NotList(t, node.kids[1]),
         NEW sym \in {"stmt", "stmts", "if"}, sym # "stmts" => node.type # "STMTS"
  PROVE  Forest(Append(t, node), Append(SubSeq(st, 1, Len(st) - k), Node(sym, Len(t) + 1)))
<1> DEFINE m == Len(t) + 1
           u == Append(t, node)
           l == Len(st) - k
           item == Node(sym, m)
           new == Append(SubSeq(st, 1, l), item)
<1>1. /\ m \in Nat /\ m # 0 /\ DOMAIN t = 1..m - 1 /\ DOMAIN u = 1..m /\ u[m] = node
      /\ \A n \in DOMAIN t : u[n] = t[n] /\ t[n].kids \in Seq(Nat) /\ n \in Nat /\ n < m
      /\ node.kids \in Seq(Nat)
  <2>1. node.kids \in Seq(Nat) /\ \A x \in NodeRec : x.kids \in Seq(Nat)
    BY DEF NodeRec
  <2> DEFINE len == Len(t)
  <2>2. /\ len \in Nat /\ DOMAIN t = 1..len /\ DOMAIN u = 1..len + 1 /\ u[len + 1] = node
        /\ \A n \in DOMAIN t : u[n] = t[n] /\ t[n] \in NodeRec
    OBVIOUS
  <2> HIDE DEF u
  <2>3. m = len + 1 /\ m \in Nat /\ m # 0 /\ 1..len = 1..m - 1
    BY <2>2
  <2> HIDE DEF len, m
  <2>4. \A n \in 1..m - 1 : n \in Nat /\ n < m
    BY <2>3
  <2> QED BY <2>1, <2>2, <2>3, <2>4
<1>2. /\ DOMAIN new = 1..l + 1 /\ new[l + 1] = item /\ l \in Nat
      /\ \A j \in 1..l : j \in DOMAIN st /\ new[j] = st[j]
  OBVIOUS
<1>3. item.sym = sym /\ item.no = m
  BY DEF Node
<1>4. PICK pos \in [DOMAIN node.kids -> l + 1..Len(st)] :
        /\ \A j \in DOMAIN node.kids : node.kids[j] = st[pos[j]].no
        /\ \A i, j \in DOMAIN node.kids : pos[i] = pos[j] => i = j
  BY DEF Taken
<1> HIDE DEF new, u, item, l, m
<1>5. \A j \in DOMAIN node.kids : pos[j] \in DOMAIN st /\ pos[j] \notin 1..l /\ pos[j] \in l + 1..Len(st)
  BY <1>2, <1>4
<1>6. \A i \in DOMAIN st : st[i].no # 0 =>
        /\ st[i].no \in DOMAIN t /\ Orphan(t, DOMAIN t, st[i].no)
        /\ \A j \in DOMAIN st : st[j].no = st[i].no => j = i
  BY DEF Forest, OnStack
<1>7. \A j \in DOMAIN node.kids : node.kids[j] # 0 =>
        node.kids[j] \in DOMAIN t /\ Orphan(t, DOMAIN t, node.kids[j])
  BY <1>4, <1>5, <1>6
<1>8. \A n \in DOMAIN u : (n \in DOMAIN t /\ u[n] = t[n]) \/ (n = m /\ u[n] = node)
  BY <1>1
<1>9. \A n \in DOMAIN t : \A j \in DOMAIN t[n].kids :
        t[n].kids[j] < n /\ (t[n].kids[j] = 0 \/ t[n].kids[j] \in DOMAIN t)
  <2> SUFFICES ASSUME NEW n \in DOMAIN t, NEW j \in DOMAIN t[n].kids
               PROVE  t[n].kids[j] < n /\ (t[n].kids[j] = 0 \/ t[n].kids[j] \in DOMAIN t)
    OBVIOUS
  <2>1. t[n].kids[j] < n /\ t[n].kids[j] \in Nat
    BY <1>1 DEF Forest, Younger
  <2> QED BY <1>1, <2>1
<1>10. Younger(u)
  <2> SUFFICES ASSUME NEW n \in DOMAIN u, NEW j \in DOMAIN u[n].kids PROVE u[n].kids[j] < n
    BY DEF Younger
  <2>1. CASE n \in DOMAIN t
    BY <1>1, <1>9, <2>1
  <2>2. CASE n = m
    <3>1. j \in DOMAIN node.kids /\ u[n].kids[j] = node.kids[j]
      BY <1>1, <2>2
    <3>2. node.kids[j] = 0 \/ node.kids[j] \in DOMAIN t
      BY <1>7, <3>1
    <3> QED BY <1>1, <2>2, <3>1, <3>2
  <2> QED BY <1>8, <2>1, <2>2
<1>11. OneParent(u, DOMAIN u)
  <2> SUFFICES ASSUME NEW n \in DOMAIN u, NEW o \in DOMAIN u, NEW i \in DOMAIN u[n].kids, NEW j \in DOMAIN u[o].kids,
                      u[n].kids[i] = u[o].kids[j], u[n].kids[i] # 0
               PROVE  n = o /\ i = j
    BY DEF OneParent
  <2>1. CASE n \in DOMAIN t /\ o \in DOMAIN t
    BY <1>1, <2>1 DEF Forest, OneParent
  <2>2. CASE n = m /\ o = m
    <3>1. i \in DOMAIN node.kids /\ j \in DOMAIN node.kids /\ node.kids[i] = node.kids[j] /\ node.kids[i] # 0
      BY <1>1, <2>2
    <3>2. st[pos[i]].no = st[pos[j]].no /\ st[pos[i]].no # 0 /\ pos[i] \in DOMAIN st /\ pos[j] \in DOMAIN st
      BY <1>4, <1>5, <3>1
    <3>3. pos[i] = pos[j]
      BY <1>6, <3>2
    <3> QED BY <1>4, <2>2, <3>1, <3>3
  <2>3. CASE n = m /\ o \in DOMAIN t
    BY <1>1, <1>7, <2>3 DEF Orphan
  <2>4. CASE n \in DOMAIN t /\ o = m
    BY <1>1, <1>7, <2>4 DEF Orphan
  <2> QED BY <1>8, <2>1, <2>2, <2>3, <2>4
<1>12. \A c : c = 0 \/ c \in DOMAIN t => (NotList(t, c) <=> NotList(u, c))
  BY <1>1 DEF NotList
<1>13. RawLists(u)
  <2> SUFFICES ASSUME NEW n \in DOMAIN u, u[n].type = "STMTS" PROVE Raw(u, n)
    BY DEF RawLists
  <2>1. CASE n \in DOMAIN t
    <3>1. Raw(t, n) /\ u[n] = t[n]
      BY <1>1, <2>1 DEF Forest, RawLists
    <3>2. 1 \in DOMAIN t[n].kids
      BY <1>1, <2>1, <3>1 DEF Raw
    <3> QED BY <1>9, <1>12, <2>1, <3>1, <3>2 DEF Raw
  <2>2. CASE n = m
    <3>1. Len(node.kids) = 2 /\ NotList(t, node.kids[1])
      BY <1>1, <2>2
    <3>2. 1 \in DOMAIN node.kids
      BY <1>1, <3>1
    <3> QED BY <1>1, <1>7, <1>12, <2>2, <3>1, <3>2 DEF Raw
  <2> QED BY <1>8, <2>1, <2>2
<1>14. OnStack(u, new)
  <2> SUFFICES ASSUME NEW i \in DOMAIN new
               PROVE  /\ new[i].sym \in {"stmt", "if"} => NotList(u, new[i].no)
                      /\ new[i].no # 0 => /\ new[i].no \in DOMAIN u
                                          /\ Orphan(u, DOMAIN u, new[i].no)
                                          /\ \A j \in DOMAIN new : new[j].no = new[i].no => j = i
    BY DEF OnStack
  <2>0. \A j \in DOMAIN new : (j \in 1..l /\ j \in DOMAIN st /\ new[j] = st[j]) \/ (j = l + 1 /\ new[j] = item)
    BY <1>2
  <2>1. \A j \in DOMAIN new : new[j].no = m <=> j = l + 1
    <3>1. \A j \in DOMAIN st : st[j].no # m
      BY <1>1, <1>6
    <3>2. l + 1 \notin 1..l
      BY <1>2
    <3> QED BY <1>3, <2>0, <3>1, <3>2
  <2>2. CASE i = l + 1
    <3>1. new[i].no = m /\ new[i].sym = sym
      BY <1>2, <1>3, <2>2
    <3>2. sym \in {"stmt", "if"} => NotList(u, m)
      BY <1>1 DEF NotList
    <3>3. Orphan(u, DOMAIN u, m)
      <4> SUFFICES ASSUME NEW n \in DOMAIN u, NEW j \in DOMAIN u[n].kids PROVE u[n].kids[j] # m
        BY DEF Orphan
      <4>1. u[n].kids[j] < n
        BY <1>10 DEF Younger
      <4>2. u[n].kids \in Seq(Nat)
        BY <1>1, <1>8
      <4>3. u[n].kids[j] \in Nat /\ n \in Nat /\ n <= m
        BY <1>1, <4>2
      <4> QED BY <1>1, <4>1, <4>3
    <3> QED BY <1>1, <2>1, <2>2, <3>1, <3>2, <3>3
  <2>3. CASE i # l + 1
    <3>1. i \in 1..l /\ i \in DOMAIN st /\ new[i] = st[i]
      BY <2>0, <2>3
    <3>2. st[i].sym \in {"stmt", "if"} => NotList(t, st[i].no)
      BY <3>1 DEF Forest, OnStack
    <3>3. st[i].sym \in {"stmt", "if"} => NotList(u, st[i].no)
      BY <1>6, <1>12, <3>1, <3>2
    <3>4. ASSUME st[i].no # 0 PROVE Orphan(u, DOMAIN u, st[i].no)
      <4> SUFFICES ASSUME NEW n \in DOMAIN u, NEW j \in DOMAIN u[n].kids PROVE u[n].kids[j] # st[i].no
        BY DEF Orphan
      <4>1. CASE n \in DOMAIN t
        BY <1>1, <1>6, <3>1, <3>4, <4>1 DEF Orphan
      <4>2. CASE n = m
        <5>1. j \in DOMAIN node.kids /\ u[n].kids[j] = st[pos[j]].no
          BY <1>1, <1>4, <4>2
        <5>2. pos[j] # i /\ pos[j] \in DOMAIN st
          BY <1>5, <3>1, <5>1
        <5> QED BY <1>6, <3>1, <3>4, <5>1, <5>2
      <4> QED BY <1>8, <4>1, <4>2
    <3>5. ASSUME st[i].no # 0, NEW j \in DOMAIN new, new[j].no = st[i].no PROVE j = i
      BY <1>1, <1>6, <2>0, <2>1, <3>1, <3>5
    <3>6. st[i].no # 0 => st[i].no \in DOMAIN u
      BY <1>1, <1>6, <3>1
    <3> QED BY <3>1, <3>3, <3>4, <3>5, <3>6
  <2> QED BY <2>2, <2>3
<1>15. Forest(u, new)
  BY <1>10, <1>11, <1>13, <1>14 DEF Forest
<1> QED BY <1>15 DEF u, new, item, m, l

LEMMA TakenNone == ASSUME NEW st \in Seq(Item), NEW k \in 0..Len(st) PROVE Taken(<<>>, st, k)
<1> DEFINE pos == [j \in {} |-> j]
<1>1. DOMAIN <<>> = {} /\ pos \in [{} -> Len(st) - k + 1..Len(st)]
  OBVIOUS
<1> QED BY <1>1 DEF Taken

LEMMA TakenOne ==
  ASSUME NEW st \in Seq(Item), NEW k \in 0..Len(st), NEW a \in 0..k - 1
  PROVE  Taken(<<st[Len(st) - a].no>>, st, k)
<1> DEFINE kids == <<st[Len(st) - a].no>>
           pos == [j \in {1} |-> Len(st) - a]
<1>1. DOMAIN kids = {1} /\ kids[1] = st[Len(st) - a].no /\ Len(st) - a \in Len(st) - k + 1..Len(st)
  OBVIOUS
<1>2. pos \in [{1} -> Len(st) - k + 1..Len(st)] /\ pos[1] = Len(st) - a
  BY <1>1
<1> HIDE DEF kids, pos
<1>3. Taken(kids, st, k)
  BY <1>1, <1>2 DEF Taken
<1> QED BY <1>3 DEF kids

LEMMA TakenTwo ==
  ASSUME NEW st \in Seq(Item), NEW k \in 0..Len(st), NEW a \in 0..k - 1, NEW b \in 0..k - 1, a # b
  PROVE  Taken(<<st[Len(st) - a].no, st[Len(st) - b].no>>, st, k)
<1> DEFINE kids == <<st[Len(st) - a].no, st[Len(st) - b].no>>
           pos == [j \in {1, 2} |-> IF j = 1 THEN Len(st) - a ELSE Len(st) - b]
<1>1. /\ DOMAIN kids = {1, 2} /\ kids[1] = st[Len(st) - a].no /\ kids[2] = st[Len(st) - b].no
      /\ Len(st) - a \in Len(st) - k + 1..Len(st) /\ Len(st) - b \in Len(st) - k + 1..Len(st)
      /\ Len(st) - a # Len(st) - b
  OBVIOUS
<1>2. /\ pos \in [{1, 2} -> Len(st) - k + 1..Len(st)]
      /\ pos[1] = Len(st) - a /\ pos[2] = Len(st) - b
  BY <1>1
<1> HIDE DEF kids, pos
<1>3. Taken(kids, st, k)
  BY <1>1, <1>2 DEF Taken
<1> QED BY <1>3 DEF kids

LEMMA TakenBelow ==
  ASSUME stack \in Seq(Item), NEW k \in 0..Len(stack), NEW a \in 0..k - 1, NEW b \in 0..k - 1
  PROVE  /\ Taken(<<Below(a).no>>, stack, k)
         /\ a # b => Taken(<<Below(a).no, Below(b).no>>, stack, k)
<1>1. Taken(<<stack[Len(stack) - a].no>>, stack, k)
  BY TakenOne
<1>2. ASSUME a # b PROVE Taken(<<stack[Len(stack) - a].no, stack[Len(stack) - b].no>>, stack, k)
  BY <1>2, TakenTwo
<1> QED BY <1>1, <1>2 DEF Below

LEMMA ReduceForest ==
  ASSUME ParseInv, tree' \in Seq(NodeRec), Forest(tree, stack), NEW k \in 0..Len(stack),
         NEW sym \in {"stmt", "stmts", "if"}, NEW type, NEW name, NEW exprs, NEW kids,
         Reduce(k, sym, create_no(type, name, exprs, kids)), Taken(kids, stack, k),
         type = "STMTS" => Len(kids) = 2 /\ NotList(tree, kids[1]),
         sym # "stmts" => type # "STMTS"
  PROVE  Forest(tree', stack')
<1> DEFINE node == create_no(type, name, exprs, kids)
<1>1. tree \in Seq(NodeRec) /\ stack \in Seq(Item)
  BY DEF ParseInv, TypeOK, ParserTypeOK
<1>2. node.type = type /\ node.kids = kids
  BY DEF create_no
<1> HIDE DEF node
<1>3. /\ tree' = Append(tree, node)
      /\ stack' = Append(SubSeq(stack, 1, Len(stack) - k), Node(sym, Len(tree) + 1))
  BY DEF Reduce, Pop, node
<1>4. node \in NodeRec
  BY <1>1, <1>3
<1> QED BY <1>1, <1>2, <1>3, <1>4, ForestReduce

LEMMA PushForest ==
  ASSUME ParseInv, Forest(tree, stack), NEW k \in 0..Len(stack), NEW item, tree' = tree,
         stack' \in Seq(Item), stack' = Append(SubSeq(stack, 1, k), item), item.no = 0
  PROVE  Forest(tree', stack')
<1>1. stack \in Seq(Item)
  BY DEF ParseInv, TypeOK, ParserTypeOK
<1>2. item \in Item
  <2>1. SubSeq(stack, 1, k) \in Seq(Item)
    BY <1>1
  <2>2. item = stack'[Len(stack')]
    BY <1>1, <2>1
  <2> QED BY <2>1, <2>2
<1>3. NotList(tree, item.no)
  BY DEF NotList
<1> QED BY <1>1, <1>2, <1>3, ForestPush

LEMMA OpenForest ==
  ASSUME ParseInv, Forest(tree, stack), stack' \in Seq(Item), OpenWhile \/ OpenIf \/ OpenFunction \/ OpenElse
  PROVE  Forest(tree', stack')
<1>1. PICK mark : tree' = tree /\ stack' = Append(stack, mark) /\ mark.no = 0
  <2>1. \A sym, name, exprs : Mark(sym, name, exprs).no = 0
    BY DEF Mark
  <2>2. \A kind, mark : Open(kind, mark) => tree' = tree /\ stack' = Append(stack, mark)
    BY DEF Open
  <2>3. CASE OpenWhile \/ OpenIf \/ OpenFunction
    <3>1. PICK kind, sym, name, exprs : Open(kind, Mark(sym, name, exprs))
      BY <2>3, Zenon DEF OpenWhile, OpenIf, OpenFunction
    <3> QED BY <2>1, <2>2, <3>1
  <2>4. CASE OpenElse
    <3>1. PICK mark \in {Mark("inElse", NoName, <<>>)} \cup {Mark("inThen", NoName, <<c>>) : c \in Cond} :
            tree' = tree /\ stack' = Append(stack, mark)
      BY <2>4 DEF OpenElse
    <3> QED BY <2>1, <3>1
  <2> QED BY <2>3, <2>4
<1>2. Len(stack) \in 0..Len(stack) /\ SubSeq(stack, 1, Len(stack)) = stack
  BY SubSeqFull DEF ParseInv, TypeOK, ParserTypeOK
<1> QED BY <1>1, <1>2, PushForest

LEMMA ParserForest ==
  ASSUME ParseInv, tree' \in Seq(NodeRec), stack' \in Seq(Item), Forest(tree, stack), Parse, ~Accept, ~Reject
  PROVE  Forest(tree', stack')
<1>0. stack \in Seq(Item) /\ Len(stack) \in Nat
  BY DEF ParseInv, TypeOK, ParserTypeOK
<1>1. 0 \in 0..Len(stack) /\ Taken(<<>>, stack, 0)
  <2>1. 0 \in 0..Len(stack)
    BY <1>0
  <2> QED BY <1>0, <2>1, TakenNone
<1>2. CASE StmtAttr \/ StmtOut \/ StmtDelay \/ StmtNamed("PRNT", Name) \/ StmtNamed("CALL", FuncName)
  <2>0. PICK type \in LeafType : \E name, exprs : Reduce(0, "stmt", create_no(type, name, exprs, <<>>))
    BY <1>2, Zenon DEF StmtAttr, StmtOut, StmtDelay, StmtNamed, LeafType
  <2>1. PICK name, exprs : Reduce(0, "stmt", create_no(type, name, exprs, <<>>))
    BY <2>0
  <2>2. type # "STMTS"
    BY DEF LeafType
  <2> QED BY <1>1, <2>1, <2>2, ReduceForest
<1>3. CASE StmtError
  <2>1. PICK k \in 0..Len(stack) : tree' = tree /\ stack' = Append(SubSeq(stack, 1, k), Node("stmt", 0))
    BY <1>3 DEF StmtError
  <2>2. Node("stmt", 0).no = 0
    BY DEF Node
  <2> QED BY <2>1, <2>2, PushForest
<1>4. CASE OpenWhile \/ OpenIf \/ OpenFunction \/ OpenElse
  BY <1>4, OpenForest
<1>5. CASE ReduceLast
  <2>1. TopIs(<<"stmt">>) /\ Reduce(1, "stmts", create_no("STMT", NoName, <<>>, <<Below(0).no>>))
    BY <1>5 DEF ReduceLast
  <2>2. 1 \in 0..Len(stack) /\ 0 \in 0..1 - 1
    BY <1>0, <2>1, TopOne
  <2>3. Taken(<<Below(0).no>>, stack, 1)
    BY <1>0, <2>2, TakenBelow
  <2> QED BY <2>1, <2>2, <2>3, ReduceForest
<1>6. CASE ReduceStmts
  <2>1. TopIs(<<"stmt", "stmts">>) /\ Reduce(2, "stmts", create_no("STMTS", NoName, <<>>, <<Below(1).no, Below(0).no>>))
    BY <1>6 DEF ReduceStmts, StmtFirst
  <2>2. /\ 2 \in 0..Len(stack) /\ 0 \in 0..2 - 1 /\ 1 \in 0..2 - 1
        /\ Below(1).sym = "stmt" /\ \E j \in DOMAIN stack : stack[j] = Below(1)
    BY <1>0, <2>1, TopTwo
  <2>3. Taken(<<Below(1).no, Below(0).no>>, stack, 2)
    <3>1. 1 # 0 => Taken(<<Below(1).no, Below(0).no>>, stack, 2)
      BY <1>0, <2>2, TakenBelow, Zenon
    <3> QED BY <3>1
  <2>4. Len(<<Below(1).no, Below(0).no>>) = 2 /\ NotList(tree, <<Below(1).no, Below(0).no>>[1])
    BY <2>2 DEF Forest, OnStack
  <2> QED BY <2>1, <2>2, <2>3, <2>4, ReduceForest
<1>7. CASE CloseWhile \/ CloseFunction \/ CloseIf
  <2>1. PICK type, sym, name, exprs, open :
          /\ type \in {"WHILE", "FUNC", "IF"} /\ sym \in {"stmt", "if"}
          /\ TopIs(<<open, "stmts">>) /\ Reduce(2, sym, create_no(type, name, exprs, <<Below(0).no>>))
    BY <1>7, Zenon DEF CloseWhile, CloseFunction, CloseIf
  <2>2. 2 \in 0..Len(stack) /\ 0 \in 0..2 - 1
    BY <1>0, <2>1, TopTwo
  <2>3. Taken(<<Below(0).no>>, stack, 2)
    BY <1>0, <2>2, TakenBelow
  <2>4. type # "STMTS" /\ sym \in {"stmt", "stmts", "if"}
    BY <2>1
  <2> QED BY <2>1, <2>2, <2>3, <2>4, ReduceForest
<1>8. CASE CloseElse
  <2>1. /\ TopIs(<<"inThen", "stmts", "inElse", "stmts">>)
        /\ Reduce(4, "if", create_no("IF", NoName, Below(3).exprs, <<Below(2).no, Below(0).no>>))
    BY <1>8 DEF CloseElse
  <2>2. 4 \in 0..Len(stack) /\ 0 \in 0..4 - 1 /\ 2 \in 0..4 - 1
    BY <1>0, <2>1, TopFour
  <2>3. Taken(<<Below(2).no, Below(0).no>>, stack, 4)
    <3>1. 2 # 0 => Taken(<<Below(2).no, Below(0).no>>, stack, 4)
      BY <1>0, <2>2, TakenBelow, Zenon
    <3> QED BY <3>1
  <2> QED BY <2>1, <2>2, <2>3, ReduceForest
<1>9. CASE CloseElseIf
  <2>1. /\ TopIs(<<"inThen", "stmts", "if">>)
        /\ Reduce(3, "if", create_no("IF", NoName, Below(2).exprs, <<Below(1).no, Below(0).no>>))
    BY <1>9 DEF CloseElseIf
  <2>2. 3 \in 0..Len(stack) /\ 0 \in 0..3 - 1 /\ 1 \in 0..3 - 1
    BY <1>0, <2>1, TopThree
  <2>3. Taken(<<Below(1).no, Below(0).no>>, stack, 3)
    <3>1. 1 # 0 => Taken(<<Below(1).no, Below(0).no>>, stack, 3)
      BY <1>0, <2>2, TakenBelow, Zenon
    <3> QED BY <3>1
  <2> QED BY <2>1, <2>2, <2>3, ReduceForest
<1>10. CASE StmtIf
  <2> DEFINE no == Below(0).no
             l == Len(stack)
             item == Node("stmt", no)
  <2>1. /\ TopIs(<<"if">>) /\ tree' = tree
        /\ stack' = Append(SubSeq(stack, 1, l - 1), item)
    BY <1>10 DEF StmtIf, Pop
  <2>2. /\ l \in DOMAIN stack /\ Below(0) = stack[l] /\ Below(0).sym = "if" /\ ItemShape(stack[l])
        /\ l - 1 \in 0..l /\ l \in Nat
    BY <1>0, <2>1, TopOne DEF Below, ParseInv, StackShape
  <2>3. /\ no \in DOMAIN tree /\ NotList(tree, no) /\ no # 0
        /\ Orphan(tree, DOMAIN tree, no)
        /\ \A j \in DOMAIN stack : stack[j].no = no => j = l
    <3>1. no \in DOMAIN tree /\ no = stack[l].no
      BY <2>2 DEF ItemShape
    <3>2. tree \in Seq(NodeRec)
      BY DEF ParseInv, TypeOK
    <3>3. no # 0
      BY <3>1, <3>2
    <3> HIDE DEF l, no
    <3> QED BY <2>2, <3>1, <3>3 DEF Forest, OnStack
  <2>4. item \in Item /\ item.no = no
    <3>1. no \in Nat
      <4>1. Below(0) \in Item
        BY <1>0, <2>2
      <4> QED BY <4>1 DEF Item
    <3> QED BY <3>1 DEF Node, Item
  <2>5. \A j \in 1..l - 1 : j \in DOMAIN stack /\ j # l
    BY <1>0, <2>2
  <2> HIDE DEF item, no, l
  <2>6. \A j \in 1..l - 1 : stack[j].no # no
    BY <2>3, <2>5
  <2>7. l - 1 \in 0..Len(stack)
    BY <2>2 DEF l
  <2>8. Forest(tree, Append(SubSeq(stack, 1, l - 1), item))
    BY <1>0, <2>3, <2>4, <2>6, <2>7, ForestPush
  <2> QED BY <2>1, <2>8
<1> QED BY <1>2, <1>3, <1>4, <1>5, <1>6, <1>7, <1>8, <1>9, <1>10 DEF Parse

-----------------------------------------------------------------------------
(* Afterwards: the nodes that were not freed are a tree, and realloc leaves *)
(* no pointer to a freed node in it.                                        *)
Linked(t, gone, r) ==
  LET S == DOMAIN t \ gone
  IN  /\ gone \subseteq DOMAIN t /\ r \in S
      /\ ClosedUnder(t, S) /\ OneParent(t, S) /\ Orphan(t, S, r)
      /\ \A n \in S : t[n].type = "STMTS" => Raw(t, n) \/ Flat(t, n)
      /\ \E rank : Ranking(t, S, rank)

LEMMA TreeIsNodes == ASSUME NEW t \in Seq(NodeRec) PROVE Nodes(t)
<1>1. \A n \in DOMAIN t : t[n].kids \in Seq(Nat)
  <2>1. \A node \in NodeRec : node.kids \in Seq(Nat)
    BY DEF NodeRec
  <2> QED BY <2>1
<1> QED BY <1>1 DEF Nodes

LEMMA AcceptLinked ==
  ASSUME ParseInv, Forest(tree, stack), freed = {}, Accept
  PROVE  Linked(tree', freed', root')
<1>1. /\ tree' = tree /\ freed' = {} /\ root' = Below(0).no /\ TopIs(<<"stmts">>)
      /\ tree \in Seq(NodeRec) /\ stack \in Seq(Item)
  BY DEF Accept, ParseInv, TypeOK, ParserTypeOK
<1> DEFINE r == Below(0).no
<1>2. PICK l \in DOMAIN stack : stack[l] = Below(0) /\ stack[l].sym = "stmts"
  BY <1>1, TopOne
<1>3. r \in DOMAIN tree /\ r # 0
  <2>1. ItemShape(stack[l])
    BY DEF ParseInv, StackShape
  <2> QED BY <1>1, <1>2, <2>1 DEF ItemShape
<1>4. Orphan(tree, DOMAIN tree, r)
  BY <1>2, <1>3 DEF Forest, OnStack
<1>5. Nodes(tree) /\ Len(tree) \in Nat /\ DOMAIN tree = 1..Len(tree)
  BY <1>1, TreeIsNodes
<1>6. ClosedUnder(tree, DOMAIN tree)
  <2>1. \A n \in DOMAIN tree : \A k \in DOMAIN tree[n].kids : tree[n].kids[k] \in DOMAIN tree \cup {0}
    BY DEF ParseInv, TreeShape, NodeShape
  <2> QED BY <2>1 DEF ClosedUnder
<1>7. \E rank : Ranking(tree, DOMAIN tree, rank)
  <2> DEFINE rank == [n \in DOMAIN tree |-> n - 1]
  <2>1. rank \in [DOMAIN tree -> 0..Len(tree) - 1]
    BY <1>5
  <2>2. ASSUME NEW n \in DOMAIN tree, NEW k \in DOMAIN tree[n].kids, tree[n].kids[k] # 0
        PROVE  rank[tree[n].kids[k]] < rank[n]
    <3>1. tree[n].kids[k] < n /\ tree[n].kids[k] \in DOMAIN tree
      BY <1>6, <2>2 DEF Forest, Younger, ClosedUnder
    <3> QED BY <1>5, <3>1
  <2> HIDE DEF rank
  <2> QED BY <2>1, <2>2 DEF Ranking
<1>8. OneParent(tree, DOMAIN tree) /\ \A n \in DOMAIN tree : tree[n].type = "STMTS" => Raw(tree, n)
  BY DEF Forest, RawLists
<1>9. DOMAIN tree \ {} = DOMAIN tree
  OBVIOUS
<1>10. Linked(tree, {}, r)
  BY <1>3, <1>4, <1>6, <1>7, <1>8, <1>9, Zenon DEF Linked
<1> QED BY <1>1, <1>10

(* A graft leaves such a tree again, with the same text.                    *)
LEMMA GraftLinked ==
  ASSUME NEW t, Nodes(t), NEW u, Nodes(u), NEW gone, NEW r, Linked(t, gone, r),
         NEW gone2, NEW a, NEW b, NEW m, Grafting(t, u, DOMAIN t \ gone, a, b, m),
         gone2 \subseteq DOMAIN u, DOMAIN u \ gone2 = Left(DOMAIN t \ gone, a, b, m),
         \A n \in DOMAIN t : u[n].type = t[n].type,
         NotList(t, t[a].kids[1]), \A k \in DOMAIN t[b].kids : NotList(t, t[b].kids[k])
  PROVE  /\ Linked(u, gone2, Place(r, a, m))
         /\ Listing(u, Place(r, a, m)) = Listing(t, r)
<1> DEFINE S == DOMAIN t \ gone
           T == Left(S, a, b, m)
<1>1. PICK rank : Ranking(t, S, rank)
  BY DEF Linked
<1>2. ClosedUnder(t, S) /\ OneParent(t, S) /\ Orphan(t, S, r) /\ r \in S
      /\ \A n \in S : t[n].type = "STMTS" => Raw(t, n) \/ Flat(t, n)
  BY DEF Linked
<1> HIDE DEF S
<1>3. Grafting(t, u, S, a, b, m)
  BY DEF S
<1> HIDE DEF T
<1>4. /\ ClosedUnder(u, T) /\ OneParent(u, T) /\ Place(r, a, m) \in T
      /\ Orphan(u, T, Place(r, a, m))
  BY <1>1, <1>2, <1>3, GraftClosed DEF T
<1>5. \E rank2 : Ranking(u, T, rank2)
  BY <1>1, <1>2, <1>3, GraftRanking DEF T
<1>6. r # b
  <2>1. a \in S /\ b \in S /\ Len(t[a].kids) = 2 /\ t[a].kids[2] = b /\ t[a].kids \in Seq(Nat)
    BY <1>2, <1>3 DEF Grafting, ClosedUnder, Nodes
  <2>2. 2 \in DOMAIN t[a].kids
    BY <2>1
  <2> QED BY <1>2, <2>1, <2>2 DEF Orphan
<1>7. Listing(u, Place(r, a, m)) = Listing(t, r)
  BY <1>1, <1>2, <1>3, <1>6, GraftText
<1>8. /\ a \in S /\ b \in S /\ a # b /\ a \in DOMAIN t /\ b \in DOMAIN t /\ m # 0 /\ a # 0
      /\ m = a \/ m \notin DOMAIN t
      /\ t[a].type = "STMTS" /\ u[m].type = "STMTS" /\ 0 \notin DOMAIN t /\ 0 \notin DOMAIN u
      /\ \A n \in S : n \in DOMAIN t
  <2>1. S \subseteq DOMAIN t /\ 0 \notin DOMAIN t /\ 0 \notin DOMAIN u
    BY <1>2 DEF ClosedUnder, Nodes
  <2> QED BY <1>3, <2>1 DEF Grafting
<1>9. \A c \in S \cup {0} : NotList(u, Place(c, a, m)) <=> NotList(t, c)
  BY <1>8 DEF NotList, Place
<1>10. ASSUME NEW n \in T, u[n].type = "STMTS" PROVE Raw(u, n) \/ Flat(u, n)
  <2>1. CASE n = m
    <3>1. \A k \in DOMAIN u[m].kids : NotList(u, u[m].kids[k])
      <4> SUFFICES ASSUME NEW k \in DOMAIN u[m].kids PROVE NotList(u, u[m].kids[k])
        OBVIOUS
      <4> DEFINE o == Origin(m, k, a, b, m)
                 c == t[o[1]].kids[o[2]]
      <4>1. o[1] \in S /\ o[2] \in DOMAIN t[o[1]].kids /\ u[m].kids[k] = Place(c, a, m)
        BY <1>1, <1>2, <1>3, <2>1, GraftOrigin DEF T
      <4>2. (o[1] = a /\ o[2] = 1) \/ o[1] = b
        BY DEF Origin
      <4> HIDE DEF o
      <4>3. NotList(t, c) /\ c \in S \cup {0}
        BY <1>2, <4>1, <4>2 DEF ClosedUnder
      <4> QED BY <1>9, <4>1, <4>3
    <3> QED BY <2>1, <3>1 DEF Flat
  <2>2. CASE n # m
    <3>1. n \in S \ {a, b}
      BY <2>2 DEF T, Left
    <3>2. /\ u[n].type = t[n].type /\ DOMAIN u[n].kids = DOMAIN t[n].kids
          /\ \A k \in DOMAIN t[n].kids : u[n].kids[k] = Place(t[n].kids[k], a, m)
      BY <1>3, <3>1 DEF Grafting
    <3>3. \A k \in DOMAIN t[n].kids : NotList(u, u[n].kids[k]) <=> NotList(t, t[n].kids[k])
      BY <1>2, <1>9, <3>1, <3>2 DEF ClosedUnder
    <3>4. t[n].kids \in Seq(Nat) /\ u[n].kids \in Seq(Nat)
      <4>1. T \subseteq DOMAIN u
        BY <1>4 DEF ClosedUnder
      <4> QED BY <1>8, <3>1, <4>1 DEF Nodes
    <3>5. Len(u[n].kids) = Len(t[n].kids)
      BY <3>2, <3>4
    <3>6. Raw(t, n) \/ Flat(t, n)
      BY <1>2, <1>10, <3>1, <3>2
    <3>7. CASE Raw(t, n)
      <4>1. 1 \in DOMAIN t[n].kids
        BY <3>4, <3>7 DEF Raw
      <4> QED BY <3>3, <3>5, <3>7, <4>1 DEF Raw
    <3>8. CASE Flat(t, n)
      BY <1>10, <3>2, <3>3, <3>8 DEF Flat
    <3> QED BY <3>6, <3>7, <3>8
  <2> QED BY <2>1, <2>2
<1>11. DOMAIN u \ gone2 = T
  BY DEF S, T
<1>12. Linked(u, gone2, Place(r, a, m))
  BY <1>4, <1>5, <1>10, <1>11 DEF Linked
<1> QED BY <1>7, <1>12

GraftReady(t, gone, r, u, gone2, a, b, m) ==
  /\ Nodes(t) /\ Nodes(u) /\ Linked(t, gone, r)
  /\ Grafting(t, u, DOMAIN t \ gone, a, b, m)
  /\ gone2 \subseteq DOMAIN u /\ DOMAIN u \ gone2 = Left(DOMAIN t \ gone, a, b, m)
  /\ \A n \in DOMAIN t : u[n].type = t[n].type
  /\ NotList(t, t[a].kids[1]) /\ \A k \in DOMAIN t[b].kids : NotList(t, t[b].kids[k])

LEMMA ReadyLinked ==
  ASSUME NEW t, NEW gone, NEW r, NEW u, NEW gone2, NEW a, NEW b, NEW m,
         GraftReady(t, gone, r, u, gone2, a, b, m)
  PROVE  /\ Linked(u, gone2, Place(r, a, m))
         /\ Listing(u, Place(r, a, m)) = Listing(t, r)
<1>1. /\ Nodes(t) /\ Nodes(u) /\ Linked(t, gone, r)
      /\ Grafting(t, u, DOMAIN t \ gone, a, b, m)
      /\ gone2 \subseteq DOMAIN u /\ DOMAIN u \ gone2 = Left(DOMAIN t \ gone, a, b, m)
      /\ \A n \in DOMAIN t : u[n].type = t[n].type
      /\ NotList(t, t[a].kids[1]) /\ \A k \in DOMAIN t[b].kids : NotList(t, t[b].kids[k])
  BY DEF GraftReady
<1> QED BY <1>1, GraftLinked

-----------------------------------------------------------------------------
(* The calls of visitor_leaf_first: what the slot of the call at depth k    *)
(* holds now.  Only the last call can be at a node that was freed, and its  *)
(* loop is over.                                                            *)
SlotIn(t, r, fr, k) == IF k = 1 THEN r ELSE t[fr[k - 1].r].kids[fr[k - 1].i]
Path(t, gone, r, fr) == \A k \in DOMAIN fr :
  /\ fr[k].r \in DOMAIN t
  /\ fr[k].r \notin gone => SlotIn(t, r, fr, k) = fr[k].r
  /\ fr[k].r \in gone => /\ k = Len(fr) /\ fr[k].i > Len(t[fr[k].r].kids)
                         /\ SlotIn(t, r, fr, k) \in DOMAIN t \ gone
  /\ \A j \in DOMAIN fr : fr[j].r = fr[k].r => j = k

LEMMA SlotIs == \A k : Slot(k) = SlotIn(tree, root, frames, k)
BY DEF Slot, SlotIn

Walking == ParseInv /\ Linked(tree, freed, root) /\ Path(tree, freed, root, frames)

LEMMA WalkFacts ==
  ASSUME Walking
  PROVE  /\ frames \in Seq(Frame) /\ Len(frames) \in Nat /\ DOMAIN frames = 1..Len(frames)
         /\ tree \in Seq(NodeRec) /\ Nodes(tree)
         /\ \A k \in DOMAIN frames : frames[k].i \in Nat /\ frames[k].i > 0
         /\ \A n \in DOMAIN tree : tree[n].kids \in Seq(Nat) /\ n # 0
<1>1. frames \in Seq(Frame) /\ tree \in Seq(NodeRec)
  BY DEF Walking, ParseInv, TypeOK, SemanticTypeOK
<1>2. Nodes(tree)
  BY <1>1, TreeIsNodes
<1>3. \A f \in Frame : f.i \in Nat /\ f.i > 0
  BY DEF Frame
<1>4. \A n \in DOMAIN tree : tree[n].kids \in Seq(Nat) /\ n # 0
  BY <1>2 DEF Nodes
<1> QED BY <1>1, <1>2, <1>3, <1>4

(* The call in progress is at a node in use when its loop goes on. *)
LEMMA TopLive ==
  ASSUME Walking, frames # <<>>, MoreKids
  PROVE  LET l == Len(frames)
         IN  /\ l \in DOMAIN frames /\ Top = frames[l]
             /\ Top.r \in DOMAIN tree \ freed
             /\ Top.i \in DOMAIN tree[Top.r].kids
             /\ Kid \in (DOMAIN tree \ freed) \cup {0}
<1> DEFINE l == Len(frames)
<1>1. /\ l \in DOMAIN frames /\ Top = frames[l] /\ Top.i <= Len(tree[Top.r].kids)
      /\ frames[l].i \in Nat /\ frames[l].i > 0
  BY WalkFacts DEF Top, Last, MoreKids
<1> HIDE DEF l
<1>2. Top.r \in DOMAIN tree /\ tree[Top.r].kids \in Seq(Nat)
  BY <1>1, WalkFacts DEF Walking, Path
<1>3. Top.i \in DOMAIN tree[Top.r].kids
  BY <1>1, <1>2
<1>4. Top.r \notin freed
  <2>1. ~(Top.i > Len(tree[Top.r].kids))
    BY <1>1, <1>2
  <2> QED BY <1>1, <2>1 DEF Walking, Path
<1>5. Kid \in (DOMAIN tree \ freed) \cup {0}
  BY <1>2, <1>3, <1>4 DEF Kid, Walking, Linked, ClosedUnder
<1> QED BY <1>1, <1>2, <1>3, <1>4, <1>5 DEF l

(* The calls that wait are at the nodes that their slots hold. *)
LEMMA WaitingLive ==
  ASSUME Walking, NEW k \in DOMAIN frames, k < Len(frames)
  PROVE  /\ frames[k].r \in DOMAIN tree \ freed /\ frames[k].i \in DOMAIN tree[frames[k].r].kids
         /\ SlotIn(tree, root, frames, k) = frames[k].r
BY WalkFacts DEF Walking, Path, ParseInv, FramesShape

LEMMA EnterPath ==
  ASSUME Walking, NEW no, no \in DOMAIN tree \ freed,
         frames' = Append(frames, [r |-> no, i |-> 1]), UNCHANGED <<tree, freed, root>>,
         \/ frames = <<>> /\ no = root
         \/ frames # <<>> /\ MoreKids /\ no = Kid
  PROVE  Path(tree', freed', root', frames')
<1> DEFINE l == Len(frames)
           new == [r |-> no, i |-> 1]
           fr == Append(frames, new)
<1>1. /\ l \in Nat /\ DOMAIN frames = 1..l /\ DOMAIN fr = 1..l + 1 /\ fr[l + 1] = new /\ Len(fr) = l + 1
      /\ \A k \in 1..l : fr[k] = frames[k] /\ k # l + 1
      /\ new.r = no /\ new.i = 1
  BY WalkFacts
<1> HIDE DEF fr, new
<1>2. \A k \in 1..l + 1 : (k \in 1..l /\ fr[k] = frames[k]) \/ (k = l + 1 /\ fr[k] = new)
  BY <1>1
<1>3. \A k \in 1..l + 1 : (k - 1) + 1 = k /\ (k # 1 => k - 1 \in 1..l)
  BY <1>1
<1>4. \A k \in 1..l : SlotIn(tree, root, fr, k) = SlotIn(tree, root, frames, k)
  <2> SUFFICES ASSUME NEW k \in 1..l PROVE SlotIn(tree, root, fr, k) = SlotIn(tree, root, frames, k)
    OBVIOUS
  <2>1. k # 1 => k - 1 \in 1..l
    BY <1>1
  <2> QED BY <1>1, <2>1 DEF SlotIn
<1>5. \A k \in 1..l : frames[k].r \in DOMAIN tree \ freed /\ SlotIn(tree, root, frames, k) = frames[k].r
  <2> SUFFICES ASSUME NEW k \in 1..l PROVE frames[k].r \in DOMAIN tree \ freed /\ SlotIn(tree, root, frames, k) = frames[k].r
    OBVIOUS
  <2>1. k \in DOMAIN frames /\ frames # <<>>
    BY <1>1
  <2>2. frames[k].r \in DOMAIN tree \ freed
    <3>1. CASE k = l
      BY <2>1, <3>1, TopLive DEF l
    <3>2. CASE k # l
      <4>0. k < l
        <5> HIDE DEF l
        <5>1. l \in Nat /\ k \in 1..l
          BY <1>1
        <5> QED BY <3>2, <5>1
      <4>1. k < Len(frames)
        BY <4>0 DEF l
      <4> QED BY <2>1, <4>1, WaitingLive
    <3> QED BY <3>1, <3>2
  <2> QED BY <2>1, <2>2 DEF Walking, Path
<1>6. SlotIn(tree, root, fr, l + 1) = no
  <2>1. CASE frames = <<>>
    <3>1. l + 1 = 1 /\ no = root
      BY <2>1, TopLive DEF l
    <3> QED BY <3>1 DEF SlotIn
  <2>2. CASE frames # <<>>
    <3>1. l \in DOMAIN frames /\ Top = frames[l] /\ no = Kid
      BY <2>2, TopLive DEF l
    <3>2. l + 1 # 1 /\ (l + 1) - 1 = l /\ l \in 1..l
      BY <1>1, <3>1
    <3> QED BY <1>1, <3>1, <3>2 DEF SlotIn, Kid
  <2> QED BY <2>1, <2>2
<1>7. \A k \in 1..l : frames[k].r # no
  <2> SUFFICES ASSUME NEW k \in 1..l, frames[k].r = no PROVE FALSE
    OBVIOUS
  <2>1. /\ l \in DOMAIN frames /\ Top = frames[l] /\ Top.r \in DOMAIN tree \ freed
        /\ Top.i \in DOMAIN tree[Top.r].kids /\ no = tree[Top.r].kids[Top.i]
    <3>1. frames # <<>> /\ MoreKids /\ no = Kid
      BY <1>1
    <3> QED BY <3>1, TopLive DEF Kid, l
  <2>2. CASE k = 1
    <3>1. no = root
      BY <1>5, <2>2 DEF SlotIn
    <3> QED BY <2>1, <3>1 DEF Walking, Linked, Orphan
  <2>3. CASE k # 1
    <3> DEFINE j == k - 1
    <3>1. j \in 1..l /\ j < l /\ j \in DOMAIN frames
      BY <1>1, <2>3
    <3>2. no = tree[frames[j].r].kids[frames[j].i]
      BY <1>5, <2>3 DEF SlotIn
    <3> HIDE DEF j
    <3>3. frames[j].r \in DOMAIN tree \ freed /\ frames[j].i \in DOMAIN tree[frames[j].r].kids
      BY <3>1, WaitingLive DEF l
    <3>4. no # 0
      BY WalkFacts
    <3>5. frames[j].r = Top.r
      <4>1. OneParent(tree, DOMAIN tree \ freed)
        BY DEF Walking, Linked
      <4> DEFINE n == Top.r
                 o == frames[j].r
                 x == Top.i
                 y == frames[j].i
      <4>2. /\ n \in DOMAIN tree \ freed /\ o \in DOMAIN tree \ freed
            /\ x \in DOMAIN tree[n].kids /\ y \in DOMAIN tree[o].kids
            /\ tree[n].kids[x] = tree[o].kids[y] /\ tree[n].kids[x] # 0
        BY <2>1, <3>2, <3>3, <3>4
      <4> HIDE DEF n, o, x, y
      <4>3. n = o
        BY <4>1, <4>2, Zenon DEF OneParent
      <4> QED BY <4>3 DEF n, o
    <3>6. j = l
      BY <2>1, <3>1, <3>5 DEF Walking, Path
    <3> QED BY <1>1, <3>1, <3>6
  <2> QED BY <2>2, <2>3
<1>8. Path(tree, freed, root, fr)
  <2> SUFFICES ASSUME NEW k \in 1..l + 1
               PROVE  /\ fr[k].r \in DOMAIN tree /\ fr[k].r \notin freed
                      /\ SlotIn(tree, root, fr, k) = fr[k].r
                      /\ \A j \in 1..l + 1 : fr[j].r = fr[k].r => j = k
    BY <1>1, Zenon DEF Path
  <2>1. CASE k = l + 1
    BY <1>1, <1>2, <1>6, <1>7, <2>1
  <2>2. CASE k \in 1..l
    <3>1. fr[k] = frames[k] /\ frames[k].r # no
      BY <1>1, <1>7, <2>2
    <3>2. \A j \in 1..l : frames[j].r = frames[k].r => j = k
      BY <1>1, <2>2 DEF Walking, Path
    <3> QED BY <1>1, <1>2, <1>4, <1>5, <2>2, <3>1, <3>2
  <2> QED BY <1>2, <2>1, <2>2
<1> QED BY <1>8 DEF fr, new

(* The frames when a call has returned. *)
Resumed(fr, new) ==
  LET d == Len(fr) - 1
  IN  /\ DOMAIN new = 1..d /\ Len(new) = d
      /\ \A k \in 1..d : new[k].r = fr[k].r /\ new[k].i = IF k = d THEN fr[k].i + 1 ELSE fr[k].i

LEMMA ResumeIs ==
  ASSUME Walking, Returns, Resume
  PROVE  Resumed(frames, frames')
<1> DEFINE d == Len(frames) - 1
           below == SubSeq(frames, 1, d)
<1>1. frames \in Seq(Frame) /\ d \in Nat /\ d <= Len(frames) /\ d \in 1..d
  BY WalkFacts DEF Returns
<1>2. frames' = [below EXCEPT ![d].i = @ + 1]
  BY DEF Resume
<1> HIDE DEF d
<1>3. DOMAIN below = 1..d /\ Len(below) = d /\ \A k \in 1..d : below[k] = frames[k] /\ frames[k] \in Frame
      /\ below \in Seq(Frame)
  BY <1>1
<1> HIDE DEF below
<1>4. \A f \in Frame : LET g == [f EXCEPT !.i = @ + 1] IN g.r = f.r /\ g.i = f.i + 1
  BY DEF Frame
<1> DEFINE top == [below[d] EXCEPT !.i = @ + 1]
<1>5. frames' = [below EXCEPT ![d] = top]
  BY <1>2, Zenon
<1>6. top.r = frames[d].r /\ top.i = frames[d].i + 1
  BY <1>1, <1>3, <1>4
<1> HIDE DEF top
<1>7. DOMAIN frames' = 1..d /\ Len(frames') = d /\ \A k \in 1..d : frames'[k] = IF k = d THEN top ELSE frames[k]
  BY <1>1, <1>3, <1>5
<1>8. Resumed(frames, frames')
  <2>1. Len(frames) - 1 = d
    BY DEF d
  <2> QED BY <1>6, <1>7, <2>1 DEF Resumed
<1> QED BY <1>8

(* act gets two nodes in use, the first the parent of the second. *)
LEMMA ActFacts ==
  ASSUME Walking, Returns
  PROVE  LET l == Len(frames)
             d == Len(frames) - 1
             S == DOMAIN tree \ freed
         IN  /\ l \in DOMAIN frames /\ d \in DOMAIN frames /\ d < l
             /\ Caller = frames[d] /\ ActRoot = frames[d].r
             /\ ActRoot \in S /\ Caller.i \in DOMAIN tree[ActRoot].kids
             /\ tree[ActRoot].kids[Caller.i] = ActOn
             /\ SlotIn(tree, root, frames, l) = ActOn
             /\ ActOn \in S /\ ActOn # ActRoot /\ ActOn # root
<1> DEFINE l == Len(frames)
           d == Len(frames) - 1
           S == DOMAIN tree \ freed
<1>1. l \in DOMAIN frames /\ d \in DOMAIN frames /\ d < l /\ l # 1 /\ l - 1 = d /\ d # l
  <2>1. l \in Nat /\ l > 1 /\ DOMAIN frames = 1..l
    BY WalkFacts DEF Returns
  <2>2. d = l - 1
    OBVIOUS
  <2> HIDE DEF l, d
  <2> QED BY <2>1, <2>2
<1>2. Caller = frames[d] /\ ActRoot = SlotIn(tree, root, frames, d)
  BY SlotIs DEF Caller, ActRoot
<1>3. frames[d].r \in S /\ frames[d].i \in DOMAIN tree[frames[d].r].kids /\ ActRoot = frames[d].r
  <2> HIDE DEF d
  <2> QED BY <1>1, <1>2, WaitingLive
<1>4. SlotIn(tree, root, frames, l) = ActOn
  BY <1>1, <1>2 DEF SlotIn, ActOn
<1>5. ActOn \in S
  <2> HIDE DEF l, d
  <2>1. CASE frames[l].r \in freed
    BY <1>1, <1>4, <2>1 DEF Walking, Path
  <2>2. CASE frames[l].r \notin freed
    BY <1>1, <1>4, <2>2 DEF Walking, Path
  <2> QED BY <2>1, <2>2
<1> HIDE DEF l, d, S
<1>6. tree[ActRoot].kids[Caller.i] = ActOn /\ Caller.i \in DOMAIN tree[ActRoot].kids
  BY <1>2, <1>3 DEF ActOn
<1>7. ActOn # root
  BY <1>3, <1>5, <1>6 DEF Walking, Linked, Orphan, S
<1>8. ActOn # ActRoot
  <2>1. PICK rank : Ranking(tree, S, rank)
    BY DEF Walking, Linked, S
  <2>2. ActOn # 0
    BY <1>5, WalkFacts DEF S
  <2>3. rank[ActOn] < rank[ActRoot]
    BY <1>3, <1>6, <2>1, <2>2 DEF Ranking
  <2>4. rank[ActOn] \in Nat
    <3>1. Len(tree) \in Nat /\ ActOn \in DOMAIN tree
      BY <1>5, WalkFacts DEF S
    <3> QED BY <2>1, <3>1 DEF Ranking
  <2> QED BY <2>3, <2>4
<1> QED BY <1>1, <1>2, <1>3, <1>4, <1>5, <1>6, <1>7, <1>8 DEF l, d, S

(* The slots of the calls that wait are where they were, unless their nodes *)
(* are replaced.                                                            *)
LEMMA ResumedPath ==
  ASSUME Walking, Returns, NEW t, NEW gone, NEW r, NEW fr, Resumed(frames, fr),
         DOMAIN tree \subseteq DOMAIN t,
         \A k \in 1..Len(frames) - 2 : frames[k].r \notin gone /\ SlotIn(t, r, fr, k) = frames[k].r,
         LET d == Len(frames) - 1
         IN  \/ frames[d].r \notin gone /\ SlotIn(t, r, fr, d) = frames[d].r
             \/ /\ frames[d].r \in gone
                /\ fr[d].i > Len(t[frames[d].r].kids)
                /\ SlotIn(t, r, fr, d) \in DOMAIN t \ gone
  PROVE  Path(t, gone, r, fr)
<1> DEFINE l == Len(frames)
           d == l - 1
<1>1. /\ DOMAIN fr = 1..d /\ Len(fr) = d /\ \A k \in 1..d : fr[k].r = frames[k].r
  BY DEF Resumed
<1>2. l \in Nat /\ l > 1 /\ DOMAIN frames = 1..l /\ d \in Nat /\ d < l /\ l - 2 = d - 1
  BY WalkFacts DEF Returns
<1>3. \A k \in 1..d - 1 : frames[k].r \notin gone /\ SlotIn(t, r, fr, k) = frames[k].r
  BY <1>2
<1>4. \/ frames[d].r \notin gone /\ SlotIn(t, r, fr, d) = frames[d].r
      \/ /\ frames[d].r \in gone
         /\ fr[d].i > Len(t[frames[d].r].kids)
         /\ SlotIn(t, r, fr, d) \in DOMAIN t \ gone
  BY Zenon
<1> HIDE DEF d, l
<1>5. ASSUME NEW k \in 1..d
      PROVE  /\ fr[k].r \in DOMAIN t
             /\ fr[k].r \notin gone => SlotIn(t, r, fr, k) = fr[k].r
             /\ fr[k].r \in gone => /\ k = d /\ fr[k].i > Len(t[fr[k].r].kids)
                                    /\ SlotIn(t, r, fr, k) \in DOMAIN t \ gone
             /\ \A j \in 1..d : fr[j].r = fr[k].r => j = k
  <2>1. fr[k].r = frames[k].r /\ k \in DOMAIN frames /\ \A j \in 1..d : j \in DOMAIN frames
    BY <1>1, <1>2
  <2>2. frames[k].r \in DOMAIN tree /\ \A j \in DOMAIN frames : frames[j].r = frames[k].r => j = k
    BY <2>1 DEF Walking, Path
  <2>3. k = d \/ k \in 1..d - 1
    BY <1>2
  <2> QED BY <1>1, <1>3, <1>4, <2>1, <2>2, <2>3
<1> QED BY <1>1, <1>5 DEF Path

(* ... so they are when the tree stays.                                     *)
LEMMA SlotsStay ==
  ASSUME Walking, Returns, NEW fr, Resumed(frames, fr)
  PROVE  \A k \in 1..Len(frames) - 1 : SlotIn(tree, root, fr, k) = SlotIn(tree, root, frames, k)
<1> DEFINE l == Len(frames)
           d == l - 1
<1>1. /\ \A k \in 1..d : fr[k].r = frames[k].r /\ (k # d => fr[k].i = frames[k].i)
  BY DEF Resumed
<1>2. l \in Nat /\ l > 1 /\ d \in Nat /\ d < l
  BY WalkFacts DEF Returns
<1> SUFFICES ASSUME NEW k \in 1..d PROVE SlotIn(tree, root, fr, k) = SlotIn(tree, root, frames, k)
  OBVIOUS
<1> HIDE DEF d, l
<1>3. k # 1 => k - 1 \in 1..d /\ k - 1 # d
  BY <1>2
<1> QED BY <1>1, <1>3 DEF SlotIn

LEMMA NoGraftPath ==
  ASSUME Walking, Returns, Resume, UNCHANGED <<tree, freed, root>>
  PROVE  Path(tree', freed', root', frames')
<1> DEFINE l == Len(frames)
           d == l - 1
<1>1. Resumed(frames, frames')
  BY ResumeIs
<1>2. l \in Nat /\ l > 1 /\ d \in Nat /\ d < l /\ l - 2 = d - 1 /\ DOMAIN frames = 1..l
  BY WalkFacts DEF Returns
<1>3. \A k \in 1..d : SlotIn(tree, root, frames', k) = SlotIn(tree, root, frames, k)
  BY <1>1, SlotsStay
<1>4. \A k \in 1..d : frames[k].r \notin freed /\ SlotIn(tree, root, frames', k) = frames[k].r
  <2> SUFFICES ASSUME NEW k \in 1..d
               PROVE  frames[k].r \notin freed /\ SlotIn(tree, root, frames', k) = frames[k].r
    OBVIOUS
  <2>1. k \in DOMAIN frames /\ k < l
    <3> HIDE DEF d, l
    <3> QED BY <1>2
  <2>2. k < Len(frames)
    BY <2>1
  <2> QED BY <1>3, <2>1, <2>2, WaitingLive
<1>5. d \in 1..d /\ \A k \in 1..l - 2 : k \in 1..d
  <2> HIDE DEF l, d
  <2> QED BY <1>2
<1>6. Path(tree, freed, root, frames')
  <2> DEFINE fr == frames'
  <2> HIDE DEF fr
  <2> QED BY <1>1, <1>4, <1>5, ResumedPath DEF fr
<1> QED BY <1>6

-----------------------------------------------------------------------------
(* What the pass has done: D has the nodes whose calls have returned, with  *)
(* everything under them, and no list of D is the parent of a list.         *)
DoneClosed(t, D) ==
  D \subseteq DOMAIN t /\ \A n \in D : Flat(t, n) /\ \A k \in DOMAIN t[n].kids : t[n].kids[k] \in D

(* The j-th child of node n is done. *)
KidDone(t, n, j, D) ==
  t[n].kids[j] \in D /\ (t[n].type = "STMTS" => NotList(t, t[n].kids[j]))

(* The calls in progress are done with the children that their loops have   *)
(* passed, and with all of them when their node was moved away.             *)
Progress(t, gone, r, fr, D) ==
  /\ DoneClosed(t, D)
  /\ \A k \in DOMAIN fr : \A j \in DOMAIN t[SlotIn(t, r, fr, k)].kids :
       fr[k].r \in gone \/ j < fr[k].i => KidDone(t, SlotIn(t, r, fr, k), j, D)

LEMMA BackSeen ==
  ASSUME Walking, frames # <<>>, ~MoreKids, NEW D, Progress(tree, freed, root, frames, D)
  PROVE  LET n == SlotIn(tree, root, frames, Len(frames))
         IN  /\ n \in DOMAIN tree \ freed /\ Flat(tree, n)
             /\ \A k \in DOMAIN tree[n].kids : tree[n].kids[k] \in D
<1> DEFINE l == Len(frames)
           n == SlotIn(tree, root, frames, l)
<1>1. l \in DOMAIN frames /\ Top = frames[l]
  BY WalkFacts DEF Top, Last
<1>2. n \in DOMAIN tree \ freed /\ (Top.r \notin freed => n = Top.r)
  BY <1>1 DEF Walking, Path
<1>3. tree[n].kids \in Seq(Nat) /\ Top.i \in Nat
  BY <1>1, <1>2, WalkFacts
<1>4. \A j \in DOMAIN tree[n].kids : Top.r \in freed \/ j < Top.i
  BY <1>2, <1>3 DEF MoreKids
<1>5. \A j \in DOMAIN tree[n].kids : KidDone(tree, n, j, D)
  BY <1>1, <1>4 DEF Progress
<1> HIDE DEF n
<1>6. Flat(tree, n) /\ \A k \in DOMAIN tree[n].kids : tree[n].kids[k] \in D
  BY <1>5 DEF Flat, KidDone
<1> QED BY <1>2, <1>6 DEF n

LEMMA EnterProgress ==
  ASSUME Walking, NEW no, frames' = Append(frames, [r |-> no, i |-> 1]), no \in DOMAIN tree \ freed,
         UNCHANGED <<tree, freed, root>>, NEW D, Progress(tree, freed, root, frames, D),
         Path(tree', freed', root', frames')
  PROVE  Progress(tree', freed', root', frames', D)
<1> DEFINE l == Len(frames)
           fr == Append(frames, [r |-> no, i |-> 1])
<1>1. /\ l \in Nat /\ DOMAIN frames = 1..l /\ DOMAIN fr = 1..l + 1 /\ fr[l + 1] = [r |-> no, i |-> 1]
      /\ \A k \in 1..l : fr[k] = frames[k]
  BY WalkFacts
<1>2. fr[l + 1].r = no /\ fr[l + 1].i = 1
  BY <1>1
<1>3. Path(tree, freed, root, fr)
  OBVIOUS
<1> HIDE DEF fr
<1>4. \A k \in 1..l + 1 : k \in 1..l \/ k = l + 1
  BY <1>1
<1>5. ASSUME NEW k \in 1..l + 1, NEW j \in DOMAIN tree[SlotIn(tree, root, fr, k)].kids,
             fr[k].r \in freed \/ j < fr[k].i
      PROVE  KidDone(tree, SlotIn(tree, root, fr, k), j, D)
  <2>1. CASE k \in 1..l
    <3>1. k # 1 => k - 1 \in 1..l
      BY <1>1, <2>1
    <3>2. SlotIn(tree, root, fr, k) = SlotIn(tree, root, frames, k) /\ fr[k] = frames[k]
      BY <1>1, <2>1, <3>1 DEF SlotIn
    <3> QED BY <1>1, <1>5, <2>1, <3>2 DEF Progress
  <2>2. CASE k = l + 1
    <3>1. SlotIn(tree, root, fr, k) = no
      BY <1>1, <1>2, <1>3, <2>2 DEF Path
    <3>2. j \in Nat /\ j >= 1
      <4>1. tree[no].kids \in Seq(Nat)
        BY WalkFacts
      <4> QED BY <3>1, <4>1
    <3> QED BY <1>2, <1>5, <2>2, <3>2
  <2> QED BY <1>4, <2>1, <2>2
<1>6. Progress(tree, freed, root, fr, D)
  BY <1>1, <1>5 DEF Progress
<1> QED BY <1>6 DEF fr

LEMMA NoGraftProgress ==
  ASSUME Walking, Returns, Resume, UNCHANGED <<tree, freed, root>>, ~Grafts,
         NEW D, Progress(tree, freed, root, frames, D)
  PROVE  Progress(tree', freed', root', frames', D \cup {ActOn})
<1> DEFINE l == Len(frames)
           d == l - 1
           E == D \cup {ActOn}
           fr == frames'
<1>1. Resumed(frames, fr) /\ \A k \in 1..d : SlotIn(tree, root, fr, k) = SlotIn(tree, root, frames, k)
  BY ResumeIs, SlotsStay
<1>2. l \in Nat /\ l > 1 /\ d \in Nat /\ d < l /\ DOMAIN frames = 1..l /\ d \in DOMAIN frames /\ d # l
  <2>1. l \in Nat /\ l > 1 /\ DOMAIN frames = 1..l /\ d = l - 1
    BY WalkFacts DEF Returns
  <2> HIDE DEF l, d
  <2> QED BY <2>1
<1>3. DOMAIN fr = 1..d /\ \A k \in 1..d : fr[k].r = frames[k].r /\ fr[k].i = IF k = d THEN frames[k].i + 1 ELSE frames[k].i
  BY <1>1 DEF Resumed
<1>4. frames # <<>> /\ ~MoreKids
  BY DEF Returns, Visiting
<1>5. /\ ActOn \in DOMAIN tree \ freed /\ Flat(tree, ActOn)
      /\ \A k \in DOMAIN tree[ActOn].kids : tree[ActOn].kids[k] \in D
  BY <1>4, BackSeen, ActFacts
<1>6. /\ Caller = frames[d] /\ ActRoot = frames[d].r /\ ActRoot \in DOMAIN tree \ freed
      /\ tree[ActRoot].kids[Caller.i] = ActOn
  BY ActFacts
<1>7. tree[ActRoot].type = "STMTS" => NotList(tree, ActOn)
  BY <1>5, <1>6 DEF Grafts, NotList
<1> HIDE DEF fr
<1>8. SlotIn(tree, root, frames, d) = ActRoot
  <2> HIDE DEF d
  <2> QED BY <1>2, <1>6 DEF Walking, Path
<1> HIDE DEF E
<1>9. DoneClosed(tree, E)
  BY <1>5 DEF E, DoneClosed, Progress
<1> HIDE DEF l, d
<1>10. ASSUME NEW k \in 1..d, NEW j \in DOMAIN tree[SlotIn(tree, root, frames, k)].kids,
             fr[k].r \in freed \/ j < fr[k].i
      PROVE  KidDone(tree, SlotIn(tree, root, frames, k), j, E)
  <2>1. k \in DOMAIN frames
    BY <1>2
  <2>2. CASE frames[k].r \in freed \/ j < frames[k].i
    BY <2>1, <2>2 DEF Progress, KidDone, E
  <2>3. CASE k = d /\ frames[d].r \notin freed /\ ~(j < frames[d].i)
    <3>1. frames[d].i \in Nat /\ j < frames[d].i + 1
      BY <1>2, <1>3, <1>10, <2>3, WalkFacts
    <3>2. j \in Nat
      <4>1. tree[ActRoot].kids \in Seq(Nat)
        BY <1>6, WalkFacts
      <4> QED BY <1>8, <2>3, <4>1
    <3>3. j = frames[d].i
      BY <2>3, <3>1, <3>2
    <3> QED BY <1>6, <1>7, <1>8, <2>3, <3>3 DEF KidDone, E
  <2> QED BY <1>3, <1>10, <2>2, <2>3
<1>11. Progress(tree, freed, root, fr, E)
  BY <1>1, <1>3, <1>9, <1>10 DEF Progress
<1> QED BY <1>11 DEF fr, E

(* A list that is grafted into its parent is the second child of the pair   *)
(* that the grammar made, and it is flat already.                           *)
LEMMA GraftFacts ==
  ASSUME Walking, Returns, Grafts, NEW D, Progress(tree, freed, root, frames, D)
  PROVE  LET d == Len(frames) - 1
             a == ActRoot
             b == ActOn
         IN  /\ d \in DOMAIN frames /\ frames[d].r = a /\ frames[d].i = 2 /\ Caller = frames[d]
             /\ a \in DOMAIN tree \ freed /\ b \in DOMAIN tree \ freed /\ a # b /\ b # root
             /\ tree[a].type = "STMTS" /\ tree[b].type = "STMTS"
             /\ Len(tree[a].kids) = 2 /\ tree[a].kids[2] = b
             /\ tree[a].kids[1] \in D /\ NotList(tree, tree[a].kids[1])
             /\ \A k \in DOMAIN tree[b].kids : tree[b].kids[k] \in D /\ NotList(tree, tree[b].kids[k])
             /\ a \notin D
             /\ Grafted.type = "STMTS" /\ Grafted.kids = <<tree[a].kids[1]>> \o tree[b].kids
<1> DEFINE d == Len(frames) - 1
           a == ActRoot
           b == ActOn
<1>1. /\ d \in DOMAIN frames /\ Caller = frames[d] /\ a = frames[d].r
      /\ a \in DOMAIN tree \ freed /\ Caller.i \in DOMAIN tree[a].kids /\ tree[a].kids[Caller.i] = b
      /\ b \in DOMAIN tree \ freed /\ a # b /\ b # root
  BY ActFacts
<1>2. tree[a].type = "STMTS" /\ tree[b].type = "STMTS"
  BY DEF Grafts
<1>3. frames # <<>> /\ ~MoreKids
  BY DEF Returns, Visiting
<1>4. /\ Flat(tree, b) /\ \A k \in DOMAIN tree[b].kids : tree[b].kids[k] \in D
  BY <1>3, BackSeen, ActFacts
<1>5. /\ SlotIn(tree, root, frames, d) = a
  <2> HIDE DEF d
  <2> QED BY <1>1 DEF Walking, Path
<1> HIDE DEF d, a, b
<1>6. b # 0 /\ tree[a].kids \in Seq(Nat) /\ tree[b].kids \in Seq(Nat)
  BY <1>1, WalkFacts
<1>7. ~NotList(tree, b)
  BY <1>2, <1>6 DEF NotList
<1>8. ~Flat(tree, a)
  BY <1>1, <1>2, <1>7 DEF Flat
<1>9. Len(tree[a].kids) = 2 /\ NotList(tree, tree[a].kids[1])
  BY <1>1, <1>2, <1>8 DEF Walking, Linked, Raw
<1>10. DOMAIN tree[a].kids = 1..2
  BY <1>6, <1>9
<1>11. Caller.i = 2
  <2>1. Caller.i = 1 \/ Caller.i = 2
    BY <1>1, <1>10
  <2> QED BY <1>1, <1>7, <1>9, <2>1
<1>12. KidDone(tree, a, 1, D)
  <2>1. 1 < frames[d].i /\ 1 \in DOMAIN tree[a].kids
    BY <1>1, <1>10, <1>11
  <2> QED BY <1>1, <1>5, <2>1 DEF Progress
<1>13. a \notin D
  BY <1>8 DEF Progress, DoneClosed
<1>14. Grafted.type = "STMTS" /\ Grafted.kids = <<tree[a].kids[1]>> \o tree[b].kids
  <2>1. tree[a] \in NodeRec
    BY <1>1, WalkFacts
  <2>2. Grafted = [tree[a] EXCEPT !.kids = Front(@) \o tree[b].kids]
    BY DEF Grafted, a, b
  <2>3. Grafted.type = tree[a].type /\ Grafted.kids = Front(tree[a].kids) \o tree[b].kids
    <3> DEFINE new == Front(tree[a].kids) \o tree[b].kids
    <3>1. Grafted = [tree[a] EXCEPT !.kids = new]
      BY <2>2, Zenon
    <3> HIDE DEF new
    <3>2. Grafted.type = tree[a].type /\ Grafted.kids = new
      BY <2>1, <3>1 DEF NodeRec
    <3> QED BY <3>2 DEF new
  <2>4. Front(tree[a].kids) = <<tree[a].kids[1]>>
    <3> DEFINE s == tree[a].kids
    <3>1. s \in Seq(Nat) /\ Len(s) = 2 /\ Front(s) = SubSeq(s, 1, Len(s) - 1)
      BY <1>6, <1>9 DEF Front
    <3> HIDE DEF s
    <3>2. Front(s) = SubSeq(s, 1, 1)
      BY <3>1
    <3>3. SubSeq(s, 1, 1) = <<s[1]>>
      <4> DEFINE f == SubSeq(s, 1, 1)
                 g == <<s[1]>>
      <4>1. s[1] \in Nat
        BY <3>1
      <4>2. f \in Seq(Nat) /\ Len(f) = 1 /\ f[1] = s[1]
        BY <3>1
      <4>3. g \in Seq(Nat) /\ Len(g) = 1 /\ g[1] = s[1]
        BY <4>1
      <4> HIDE DEF f, g
      <4>4. \A i \in 1..Len(f) : f[i] = g[i]
        BY <4>2, <4>3
      <4>5. f = g
        BY <4>2, <4>3, <4>4, SeqEqual
      <4> QED BY <4>5 DEF f, g
    <3> QED BY <3>2, <3>3 DEF s
  <2> QED BY <1>2, <2>3, <2>4
<1>15. \A k \in DOMAIN tree[b].kids : tree[b].kids[k] \in D /\ NotList(tree, tree[b].kids[k])
  BY <1>2, <1>4 DEF Flat
<1> QED BY <1>1, <1>2, <1>9, <1>11, <1>12, <1>13, <1>14, <1>15, <1>1 DEF KidDone, d, a, b

(* The calls that wait below the two are at other nodes.                    *)
LEMMA OthersWait ==
  ASSUME Walking, Returns, NEW k \in 1..Len(frames) - 2
  PROVE  /\ k \in DOMAIN frames /\ frames[k].r \in DOMAIN tree \ freed /\ frames[k].r # ActRoot /\ frames[k].r # ActOn
         /\ SlotIn(tree, root, frames, k) = frames[k].r
         /\ frames[k].i \in DOMAIN tree[frames[k].r].kids
<1> DEFINE l == Len(frames)
           d == l - 1
<1>1. l \in Nat /\ l > 1 /\ DOMAIN frames = 1..l /\ d = l - 1 /\ l - 2 = d - 1
  BY WalkFacts DEF Returns
<1>2. /\ ActRoot = frames[d].r /\ ActRoot \in DOMAIN tree \ freed
      /\ tree[ActRoot].kids[Caller.i] = ActOn /\ Caller.i \in DOMAIN tree[ActRoot].kids
      /\ ActOn # root /\ ActOn \in DOMAIN tree \ freed
  BY ActFacts
<1>3. k < Len(frames) /\ k \in DOMAIN frames
  BY <1>1
<1>4. /\ frames[k].r \in DOMAIN tree \ freed /\ SlotIn(tree, root, frames, k) = frames[k].r
      /\ frames[k].i \in DOMAIN tree[frames[k].r].kids
  BY <1>3, WaitingLive
<1> HIDE DEF d
<1>5. d \in DOMAIN frames /\ k # d /\ (k # 1 => k - 1 \in DOMAIN frames /\ k - 1 < l /\ k - 1 # d)
  <2>1. k \in 1..l - 2
    OBVIOUS
  <2> HIDE DEF l
  <2> QED BY <1>1, <2>1
<1>6. frames[k].r # ActRoot
  BY <1>2, <1>3, <1>5 DEF Walking, Path
<1>7. frames[k].r # ActOn
  <2> SUFFICES ASSUME frames[k].r = ActOn PROVE FALSE
    OBVIOUS
  <2>1. k # 1
    BY <1>2, <1>4 DEF SlotIn
  <2> DEFINE o == frames[k - 1].r
             y == frames[k - 1].i
  <2>2. o \in DOMAIN tree \ freed /\ y \in DOMAIN tree[o].kids
    BY <1>5, <2>1, WaitingLive
  <2>3. tree[o].kids[y] = ActOn
    BY <1>4, <2>1 DEF SlotIn
  <2>4. ActOn # 0
    BY <1>2, WalkFacts
  <2>5. OneParent(tree, DOMAIN tree \ freed)
    BY DEF Walking, Linked
  <2>6. o # ActRoot
    BY <1>2, <1>5, <2>1 DEF Walking, Path
  <2> DEFINE n == ActRoot
             x == Caller.i
  <2>7. /\ n \in DOMAIN tree \ freed /\ x \in DOMAIN tree[n].kids /\ tree[n].kids[x] = ActOn
    BY <1>2
  <2> HIDE DEF o, y, n, x
  <2>8. o = n
    BY <2>2, <2>3, <2>4, <2>5, <2>7, Zenon DEF OneParent
  <2> QED BY <2>6, <2>8 DEF n
<1> QED BY <1>3, <1>4, <1>6, <1>7

(* One step of the pass that grafts list b into its parent a, which is then *)
(* node m: the calls, and what is done.                                     *)
LEMMA GraftStep ==
  ASSUME Walking, Returns, Grafts, NEW D, Progress(tree, freed, root, frames, D),
         NEW u, Nodes(u), NEW gone, NEW m, NEW fr, Resumed(frames, fr),
         Grafting(tree, u, DOMAIN tree \ freed, ActRoot, ActOn, m),
         gone \subseteq DOMAIN u, DOMAIN u \ gone = Left(DOMAIN tree \ freed, ActRoot, ActOn, m),
         \A n \in DOMAIN tree : u[n].type = tree[n].type,
         \A n \in D : u[n] = tree[n],
         m # ActRoot => u[ActRoot] = tree[ActRoot]
  PROVE  LET r == Place(root, ActRoot, m)
         IN  /\ Linked(u, gone, r) /\ Listing(u, r) = Listing(tree, root)
             /\ Path(u, gone, r, fr) /\ Progress(u, gone, r, fr, D)
<1> DEFINE l == Len(frames)
           d == l - 1
           a == ActRoot
           b == ActOn
           S == DOMAIN tree \ freed
           r == Place(root, a, m)
<1>1. /\ l \in Nat /\ l > 1 /\ DOMAIN frames = 1..l /\ d = l - 1 /\ l - 2 = d - 1 /\ d \in Nat /\ d \in 1..d
      /\ \A k \in 1..d - 1 : k \in 1..d /\ k # d
      /\ \A k \in 1..d : k = d \/ k \in 1..d - 1
  <2>1. l \in Nat /\ l > 1 /\ DOMAIN frames = 1..l /\ d = l - 1
    BY WalkFacts DEF Returns
  <2> HIDE DEF l, d
  <2> QED BY <2>1
<1>2. /\ DOMAIN fr = 1..d
      /\ \A k \in 1..d : fr[k].r = frames[k].r /\ fr[k].i = IF k = d THEN frames[k].i + 1 ELSE frames[k].i
  BY DEF Resumed
<1>3. /\ frames[d].r = a /\ frames[d].i = 2
      /\ a \in S /\ b \in S /\ a # b
      /\ Len(tree[a].kids) = 2 /\ tree[a].kids[2] = b
      /\ tree[a].kids[1] \in D /\ NotList(tree, tree[a].kids[1])
      /\ \A k \in DOMAIN tree[b].kids : tree[b].kids[k] \in D /\ NotList(tree, tree[b].kids[k])
      /\ a \notin D
  BY GraftFacts
<1>4. Linked(u, gone, r) /\ Listing(u, r) = Listing(tree, root)
  <2>1. Nodes(tree) /\ Linked(tree, freed, root)
    BY WalkFacts DEF Walking
  <2>2. NotList(tree, tree[a].kids[1]) /\ \A k \in DOMAIN tree[b].kids : NotList(tree, tree[b].kids[k])
    BY <1>3
  <2>3. /\ Nodes(u) /\ Grafting(tree, u, DOMAIN tree \ freed, a, b, m)
        /\ gone \subseteq DOMAIN u /\ DOMAIN u \ gone = Left(DOMAIN tree \ freed, a, b, m)
        /\ \A n \in DOMAIN tree : u[n].type = tree[n].type
    OBVIOUS
  <2> HIDE DEF a, b
  <2>4. /\ Linked(u, gone, Place(root, a, m))
        /\ Listing(u, Place(root, a, m)) = Listing(tree, root)
    <3>1. GraftReady(tree, freed, root, u, gone, a, b, m)
      BY <2>1, <2>2, <2>3 DEF GraftReady
    <3> QED BY <3>1, ReadyLinked
  <2> QED BY <2>4
<1>5. ASSUME NEW k \in 1..d - 1
      PROVE  /\ frames[k].r \in S /\ frames[k].r # a /\ frames[k].r # b
             /\ SlotIn(tree, root, frames, k) = frames[k].r /\ frames[k].i \in DOMAIN tree[frames[k].r].kids
  <2>1. k \in 1..Len(frames) - 2
    BY <1>1
  <2> QED BY <2>1, OthersWait
<1>6. SlotIn(tree, root, frames, d) = a
  <2>1. d \in DOMAIN frames
    BY GraftFacts
  <2> HIDE DEF d
  <2> QED BY <1>3, <2>1 DEF Walking, Path
<1>7. Grafting(tree, u, S, a, b, m)
  OBVIOUS
<1> HIDE DEF l, d, a, b, S
<1>8. ASSUME NEW k \in 1..d PROVE SlotIn(u, r, fr, k) = Place(SlotIn(tree, root, frames, k), a, m)
  <2>1. CASE k = 1
    BY <2>1 DEF SlotIn
  <2>2. CASE k # 1
    <3> DEFINE j == k - 1
    <3>1. j \in 1..d - 1 /\ j \in 1..d /\ j # d
      BY <1>1, <2>2
    <3> HIDE DEF j
    <3>2. frames[j].r \in S \ {a, b} /\ frames[j].i \in DOMAIN tree[frames[j].r].kids
      BY <1>5, <3>1
    <3>3. fr[j].r = frames[j].r /\ fr[j].i = frames[j].i
      BY <1>2, <3>1
    <3> DEFINE n == frames[j].r
               x == frames[j].i
    <3>4. n \in S \ {a, b} /\ x \in DOMAIN tree[n].kids
      BY <3>2
    <3> HIDE DEF n, x
    <3>5. u[n].kids[x] = Place(tree[n].kids[x], a, m)
      BY <1>7, <3>4 DEF Grafting
    <3> QED BY <2>2, <3>3, <3>5 DEF SlotIn, j, n, x
  <2> QED BY <2>1, <2>2
<1>9. \A k \in 1..d - 1 : frames[k].r \notin gone /\ SlotIn(u, r, fr, k) = frames[k].r
  <2> SUFFICES ASSUME NEW k \in 1..d - 1 PROVE frames[k].r \notin gone /\ SlotIn(u, r, fr, k) = frames[k].r
    OBVIOUS
  <2>1. frames[k].r \in Left(S, a, b, m)
    BY <1>5 DEF Left
  <2>2. DOMAIN u \ gone = Left(S, a, b, m)
    BY DEF S, a, b
  <2> QED BY <1>1, <1>5, <1>8, <2>1, <2>2 DEF Place
<1>10. SlotIn(u, r, fr, d) = m
  BY <1>1, <1>6, <1>8 DEF Place
<1>11. DOMAIN u \ gone = Left(S, a, b, m) /\ m \in DOMAIN u \ gone
  BY DEF Left, S, a, b
<1>12. \/ frames[d].r \notin gone /\ SlotIn(u, r, fr, d) = frames[d].r
       \/ /\ frames[d].r \in gone
          /\ fr[d].i > Len(u[frames[d].r].kids)
          /\ SlotIn(u, r, fr, d) \in DOMAIN u \ gone
  <2>1. CASE m = a
    BY <1>3, <1>10, <1>11, <2>1
  <2>2. CASE m # a
    <3>1. a \in DOMAIN u /\ u[a] = tree[a]
      BY <1>3, <1>7, <2>2 DEF Grafting, S, a
    <3>2. a \in gone
      BY <1>11, <2>2, <3>1 DEF Left
    <3>3. fr[d].i = 2 + 1
      BY <1>1, <1>2, <1>3
    <3>4. fr[d].i > Len(u[frames[d].r].kids)
      <4>1. Len(u[frames[d].r].kids) = 2
        BY <1>3, <3>1
      <4> QED BY <3>3, <4>1
    <3> QED BY <1>3, <1>10, <1>11, <3>2, <3>4
  <2> QED BY <2>1, <2>2
<1>13. Path(u, gone, r, fr)
  <2>1. DOMAIN tree \subseteq DOMAIN u
    BY <1>7 DEF Grafting
  <2>2. \A k \in 1..Len(frames) - 2 : frames[k].r \notin gone /\ SlotIn(u, r, fr, k) = frames[k].r
    <3>1. 1..Len(frames) - 2 = 1..d - 1
      BY <1>1 DEF l
    <3> QED BY <1>9, <3>1
  <2>3. d = Len(frames) - 1
    BY DEF d, l
  <2> HIDE DEF r
  <2>4. LET e == Len(frames) - 1
        IN  \/ frames[e].r \notin gone /\ SlotIn(u, r, fr, e) = frames[e].r
            \/ /\ frames[e].r \in gone
               /\ fr[e].i > Len(u[frames[e].r].kids)
               /\ SlotIn(u, r, fr, e) \in DOMAIN u \ gone
    BY <1>12, <2>3
  <2> QED BY <2>1, <2>2, <2>4, ResumedPath
<1>14. \A n \in D : n \in DOMAIN tree /\ (NotList(u, n) <=> NotList(tree, n))
  BY DEF Progress, DoneClosed, NotList
<1>15. DoneClosed(u, D)
  <2>1. DOMAIN tree \subseteq DOMAIN u
    BY <1>7 DEF Grafting
  <2> SUFFICES ASSUME NEW n \in D
               PROVE Flat(u, n) /\ \A k \in DOMAIN u[n].kids : u[n].kids[k] \in D
    BY <1>14, <2>1 DEF DoneClosed
  <2>2. u[n] = tree[n]
    OBVIOUS
  <2>3. Flat(tree, n) /\ \A k \in DOMAIN tree[n].kids : tree[n].kids[k] \in D
    BY DEF Progress, DoneClosed
  <2> QED BY <1>14, <2>2, <2>3 DEF Flat
<1>16. ASSUME NEW k \in 1..d - 1, NEW j \in DOMAIN u[SlotIn(u, r, fr, k)].kids,
              fr[k].r \in gone \/ j < fr[k].i
       PROVE  KidDone(u, SlotIn(u, r, fr, k), j, D)
  <2> DEFINE n == frames[k].r
  <2>1. n \in S \ {a, b} /\ SlotIn(tree, root, frames, k) = n /\ SlotIn(u, r, fr, k) = n /\ n \notin gone
    BY <1>5, <1>9
  <2>2. k \in DOMAIN frames /\ j < frames[k].i
    BY <1>1, <1>2, <1>16, <2>1
  <2>3. j \in DOMAIN tree[n].kids /\ u[n].kids[j] = Place(tree[n].kids[j], a, m) /\ u[n].type = tree[n].type
    BY <1>7, <2>1 DEF Grafting
  <2>4. KidDone(tree, n, j, D)
    BY <2>1, <2>2, <2>3 DEF Progress
  <2>5. u[n].kids[j] = tree[n].kids[j]
    BY <1>3, <2>3, <2>4 DEF KidDone, Place
  <2> QED BY <1>14, <2>1, <2>3, <2>4, <2>5 DEF KidDone
<1>17. ASSUME NEW j \in DOMAIN u[m].kids PROVE KidDone(u, m, j, D)
  <2> DEFINE s == tree[b].kids
             x == tree[a].kids[1]
  <2>1. u[m].kids = <<x>> \o s
    BY <1>7 DEF Grafting
  <2>2. s \in Seq(Nat) /\ x \in Nat
    <3>1. tree[a].kids \in Seq(Nat) /\ tree[b].kids \in Seq(Nat) /\ Len(tree[a].kids) = 2
      BY <1>3, WalkFacts DEF S
    <3> QED BY <3>1
  <2>3. x \in D /\ NotList(tree, x) /\ \A k \in DOMAIN s : s[k] \in D /\ NotList(tree, s[k])
    BY <1>3
  <2> HIDE DEF s, x
  <2> DEFINE one == <<x>>
  <2>7. one \in Seq(Nat) /\ Len(one) = 1 /\ one[1] = x
    BY <2>2
  <2> HIDE DEF one
  <2>8. /\ Len(one \o s) = 1 + Len(s) /\ one \o s \in Seq(Nat)
        /\ \A i \in 1..1 + Len(s) : (one \o s)[i] = IF i <= 1 THEN one[i] ELSE s[i - 1]
    <3>1. /\ one \o s \in Seq(Nat) /\ Len(one \o s) = Len(one) + Len(s)
          /\ \A i \in 1..Len(one) + Len(s) :
               (one \o s)[i] = IF i <= Len(one) THEN one[i] ELSE s[i - Len(one)]
      BY <2>2, <2>7, ConcatProperties
    <3> QED BY <2>7, <3>1
  <2>9. j \in 1..1 + Len(s) /\ DOMAIN s = 1..Len(s) /\ Len(s) \in Nat
    <3>1. u[m].kids = one \o s
      BY <2>1 DEF one
    <3> QED BY <2>2, <2>8, <3>1
  <2>4. j = 1 \/ (j - 1 \in DOMAIN s /\ ~(j <= 1))
    BY <2>9
  <2>5. (j = 1 => (one \o s)[j] = x) /\ (j - 1 \in DOMAIN s /\ ~(j <= 1) => (one \o s)[j] = s[j - 1])
    BY <2>7, <2>8, <2>9
  <2>6. u[m].kids[j] \in D /\ NotList(tree, u[m].kids[j])
    BY <2>1, <2>3, <2>4, <2>5 DEF one
  <2> QED BY <1>14, <2>6 DEF KidDone
<1>18. Progress(u, gone, r, fr, D)
  <2> SUFFICES ASSUME NEW k \in 1..d, NEW j \in DOMAIN u[SlotIn(u, r, fr, k)].kids,
                      fr[k].r \in gone \/ j < fr[k].i
               PROVE  KidDone(u, SlotIn(u, r, fr, k), j, D)
    BY <1>2, <1>15 DEF Progress
  <2>1. CASE k = d
    BY <1>10, <1>17, <2>1
  <2>2. CASE k # d
    BY <1>1, <1>16, <2>2
  <2> QED BY <2>1, <2>2
<1> QED BY <1>4, <1>13, <1>18 DEF a

Kept(D) ==
  /\ Linked(tree', freed', root') /\ Listing(tree', root') = Listing(tree, root)
  /\ Path(tree', freed', root', frames') /\ Progress(tree', freed', root', frames', D)

LEMMA InPlaceKeeps ==
  ASSUME Walking, NEW D, Progress(tree, freed, root, frames, D), GraftInPlace, tree' \in Seq(NodeRec)
  PROVE  Kept(D)
<1> DEFINE a == ActRoot
           b == ActOn
           S == DOMAIN tree \ freed
           u == tree'
           gone == freed'
           fr == frames'
<1>1. Returns /\ Grafts /\ Resume /\ u = [tree EXCEPT ![a] = Grafted] /\ gone = freed \cup {b} /\ root' = root
  BY DEF GraftInPlace
<1>2. Nodes(u) /\ Resumed(frames, fr)
  BY <1>1, TreeIsNodes, ResumeIs
<1>3. /\ a \in S /\ b \in S /\ a # b /\ a \notin D
      /\ tree[a].type = "STMTS" /\ tree[b].type = "STMTS"
      /\ Len(tree[a].kids) = 2 /\ tree[a].kids[2] = b
      /\ Grafted.type = "STMTS" /\ Grafted.kids = <<tree[a].kids[1]>> \o tree[b].kids
  BY <1>1, GraftFacts
<1>4. /\ DOMAIN u = DOMAIN tree /\ u[a] = Grafted
      /\ \A n \in DOMAIN tree : n # a => u[n] = tree[n]
  BY <1>1, <1>3, WalkFacts
<1>5. freed \subseteq DOMAIN tree /\ D \subseteq DOMAIN tree
  BY DEF Walking, Linked, Progress, DoneClosed
<1> HIDE DEF u, gone, fr, a, b
<1>6. Grafting(tree, u, S, a, b, a)
  <2>1. \A c : Place(c, a, a) = c
    BY DEF Place
  <2>2. \A n \in S \ {a, b} : u[n] = tree[n]
    BY <1>4
  <2> QED BY <1>3, <1>4, <2>1, <2>2 DEF Grafting
<1>7. /\ gone \subseteq DOMAIN u /\ DOMAIN u \ gone = Left(S, a, b, a)
      /\ \A n \in DOMAIN tree : u[n].type = tree[n].type
      /\ \A n \in D : u[n] = tree[n]
  BY <1>1, <1>3, <1>4, <1>5 DEF Left
<1>8. LET r == Place(root, a, a)
      IN  /\ Linked(u, gone, r) /\ Listing(u, r) = Listing(tree, root)
          /\ Path(u, gone, r, fr) /\ Progress(u, gone, r, fr, D)
  <2> DEFINE m == a
  <2>1. Grafting(tree, u, DOMAIN tree \ freed, a, b, m) /\ DOMAIN u \ gone = Left(DOMAIN tree \ freed, a, b, m)
    BY <1>6, <1>7
  <2>2. m # a => u[a] = tree[a]
    OBVIOUS
  <2> HIDE DEF m
  <2>3. LET r == Place(root, a, m)
        IN  /\ Linked(u, gone, r) /\ Listing(u, r) = Listing(tree, root)
            /\ Path(u, gone, r, fr) /\ Progress(u, gone, r, fr, D)
    <3>1. /\ Returns /\ Grafts /\ Nodes(u) /\ Resumed(frames, fr)
          /\ Grafting(tree, u, DOMAIN tree \ freed, ActRoot, ActOn, m)
          /\ gone \subseteq DOMAIN u /\ DOMAIN u \ gone = Left(DOMAIN tree \ freed, ActRoot, ActOn, m)
          /\ \A n \in DOMAIN tree : u[n].type = tree[n].type
          /\ \A n \in D : u[n] = tree[n]
      BY <1>1, <1>2, <1>7, <2>1 DEF a, b
    <3>2. m # ActRoot => u[ActRoot] = tree[ActRoot]
      BY <2>2 DEF a
    <3> QED BY <3>1, <3>2, GraftStep, Zenon DEF a
  <2> QED BY <2>3 DEF m
<1>9. Place(root, a, a) = root'
  BY <1>1 DEF Place
<1> QED BY <1>8, <1>9 DEF Kept, u, gone, fr

LEMMA MovedKeeps ==
  ASSUME Walking, NEW D, Progress(tree, freed, root, frames, D), GraftMoved, tree' \in Seq(NodeRec)
  PROVE  Kept(D)
<1> DEFINE a == ActRoot
           b == ActOn
           S == DOMAIN tree \ freed
           u == tree'
           gone == freed'
           fr == frames'
           m == Len(tree) + 1
           d == Len(frames) - 1
           above == frames[d - 1].r
           i == frames[d - 1].i
           rest == IF d = 1 THEN tree ELSE [tree EXCEPT ![above] = SetKid(@, i, m)]
<1>1. /\ Returns /\ Grafts /\ Resume /\ u = Append(rest, Grafted) /\ gone = freed \cup {b, a}
      /\ root' = IF d = 1 THEN m ELSE root
  BY DEF GraftMoved
<1>2. Nodes(u) /\ Resumed(frames, fr)
  BY <1>1, TreeIsNodes, ResumeIs
<1>3. /\ a \in S /\ b \in S /\ a # b /\ a \notin D
      /\ tree[a].type = "STMTS" /\ tree[b].type = "STMTS"
      /\ Len(tree[a].kids) = 2 /\ tree[a].kids[2] = b
      /\ Grafted.type = "STMTS" /\ Grafted.kids = <<tree[a].kids[1]>> \o tree[b].kids
      /\ d \in DOMAIN frames /\ frames[d].r = a
  BY <1>1, GraftFacts
<1>4. freed \subseteq DOMAIN tree /\ D \subseteq DOMAIN tree /\ OneParent(tree, S) /\ Orphan(tree, S, root)
      /\ DoneClosed(tree, D)
  BY DEF Walking, Linked, Progress, DoneClosed
<1>5. SlotIn(tree, root, frames, d) = a
  <2> HIDE DEF d
  <2> QED BY <1>3 DEF Walking, Path
<1>6. /\ rest \in Seq(NodeRec) /\ Len(rest) = Len(tree) /\ root' = Place(root, a, m)
      /\ \A n \in D : rest[n] = tree[n]
      /\ \A n \in DOMAIN tree : rest[n].type = tree[n].type
      /\ rest[a] = tree[a]
      /\ \A n \in S \ {a, b} : /\ DOMAIN rest[n].kids = DOMAIN tree[n].kids
                               /\ \A k \in DOMAIN tree[n].kids : rest[n].kids[k] = Place(tree[n].kids[k], a, m)
  <2>1. CASE d = 1
    <3>1. rest = tree /\ root' = m
      BY <1>1, <2>1
    <3>2. root = a
      BY <1>5, <2>1 DEF SlotIn
    <3>3. \A n \in S : \A k \in DOMAIN tree[n].kids : tree[n].kids[k] = Place(tree[n].kids[k], a, m)
      BY <1>4, <3>2 DEF Orphan, Place
    <3>4. rest \in Seq(NodeRec)
      BY <3>1, WalkFacts
    <3> HIDE DEF rest
    <3> QED BY <3>1, <3>2, <3>3, <3>4 DEF Place
  <2>2. CASE d # 1
    <3>1. d - 1 \in 1..Len(frames) - 2
      <4> DEFINE l == Len(frames)
      <4>1. l \in Nat /\ l > 1 /\ l - 1 # 1 /\ d = l - 1
        BY <1>1, <2>2, WalkFacts DEF Returns
      <4> HIDE DEF d, l
      <4>2. d - 1 \in 1..l - 2
        BY <4>1
      <4> QED BY <4>2 DEF l
    <3> DEFINE c == d - 1
    <3>2. /\ above = frames[c].r /\ i = frames[c].i
      OBVIOUS
    <3>3. /\ above \in S \ {a, b} /\ i \in DOMAIN tree[above].kids
      <4> HIDE DEF c
      <4>1. c \in 1..Len(frames) - 2
        BY <3>1 DEF c
      <4> QED BY <1>1, <3>2, <4>1, OthersWait
    <3>4. tree[above].kids[i] = a
      BY <1>5, <2>2 DEF SlotIn
    <3>5. root # a /\ root' = root
      BY <1>1, <1>4, <2>2, <3>3, <3>4 DEF Orphan
    <3>6. rest = [tree EXCEPT ![above] = SetKid(@, i, m)]
      BY <2>2
    <3> HIDE DEF rest, above, i, m, d
    <3>7. tree \in Seq(NodeRec) /\ above \in DOMAIN tree /\ tree[above] \in NodeRec /\ m \in Nat /\ a # 0
      BY <1>3, <3>3, WalkFacts DEF m
    <3> DEFINE new == SetKid(tree[above], i, m)
    <3>8. /\ new \in NodeRec /\ new.type = tree[above].type
          /\ new.kids = [tree[above].kids EXCEPT ![i] = m]
          /\ DOMAIN new.kids = DOMAIN tree[above].kids
      BY <3>3, <3>7, SetKidNode
    <3>9. rest = [tree EXCEPT ![above] = new]
      BY <3>6, Zenon
    <3> HIDE DEF new
    <3>10. /\ rest \in Seq(NodeRec) /\ Len(rest) = Len(tree)
           /\ \A n \in DOMAIN tree : rest[n] = IF n = above THEN new ELSE tree[n]
      BY <3>7, <3>8, <3>9
    <3>11. above \notin D
      BY <1>3, <1>4, <3>3, <3>4 DEF DoneClosed
    <3>12. \A n \in D : rest[n] = tree[n]
      BY <1>4, <3>10, <3>11
    <3>13. \A n \in DOMAIN tree : rest[n].type = tree[n].type
      BY <3>8, <3>10
    <3>14. rest[a] = tree[a]
      BY <1>3, <3>3, <3>10
    <3>15. ASSUME NEW n \in S \ {a, b}
           PROVE  /\ DOMAIN rest[n].kids = DOMAIN tree[n].kids
                  /\ \A k \in DOMAIN tree[n].kids : rest[n].kids[k] = Place(tree[n].kids[k], a, m)
      <4>1. CASE n = above
        <5>1. \A k \in DOMAIN tree[n].kids : tree[n].kids[k] = a => k = i
          <6> SUFFICES ASSUME NEW k \in DOMAIN tree[n].kids, tree[n].kids[k] = a PROVE k = i
            OBVIOUS
          <6> HIDE DEF S
          <6>1. /\ n \in S /\ above \in S /\ i \in DOMAIN tree[above].kids /\ OneParent(tree, S)
                /\ tree[n].kids[k] = tree[above].kids[i] /\ tree[n].kids[k] # 0
            BY <1>4, <3>3, <3>4, <3>7, <4>1
          <6>2. k \in DOMAIN tree[n].kids
            OBVIOUS
          <6> QED BY <6>1, <6>2 DEF OneParent
        <5>2. \A k \in DOMAIN tree[n].kids : new.kids[k] = IF k = i THEN m ELSE tree[n].kids[k]
          BY <3>7, <3>8, <4>1
        <5> QED BY <3>4, <3>7, <3>8, <3>10, <4>1, <5>1, <5>2 DEF Place
      <4>2. CASE n # above
        <5>1. \A k \in DOMAIN tree[n].kids : tree[n].kids[k] # a
          BY <1>4, <3>3, <3>4, <3>7, <4>2, Zenon DEF OneParent
        <5> QED BY <3>10, <4>2, <5>1 DEF Place
      <4> QED BY <4>1, <4>2
    <3> QED BY <3>5, <3>10, <3>12, <3>13, <3>14, <3>15 DEF Place
  <2> QED BY <2>1, <2>2
<1>7. Grafted \in NodeRec
  BY <1>1, GraftedNode, ActOnIsKid DEF Walking, ParseInv, TypeOK
<1> HIDE DEF u, gone, fr, a, b, rest, d
<1>8. /\ DOMAIN u = DOMAIN tree \cup {m} /\ u[m] = Grafted /\ m \notin DOMAIN tree
      /\ \A n \in DOMAIN tree : u[n] = rest[n]
  BY <1>1, <1>6, <1>7, WalkFacts
<1> HIDE DEF m
<1>9. Grafting(tree, u, S, a, b, m)
  <2>1. ASSUME NEW n \in S \ {a, b}
        PROVE  /\ u[n].type = tree[n].type /\ DOMAIN u[n].kids = DOMAIN tree[n].kids
               /\ \A k \in DOMAIN tree[n].kids : u[n].kids[k] = Place(tree[n].kids[k], a, m)
    BY <1>6, <1>8
  <2>2. /\ u[m].kids = <<tree[a].kids[1]>> \o tree[b].kids /\ u[m].type = "STMTS"
        /\ m \in DOMAIN u /\ DOMAIN tree \subseteq DOMAIN u
    BY <1>3, <1>8
  <2> HIDE DEF S
  <2> QED BY <1>3, <1>8, <2>1, <2>2, Zenon DEF Grafting
<1>10. /\ gone \subseteq DOMAIN u /\ DOMAIN u \ gone = Left(S, a, b, m)
       /\ \A n \in DOMAIN tree : u[n].type = tree[n].type
       /\ \A n \in D : u[n] = tree[n]
       /\ u[a] = tree[a]
  BY <1>1, <1>3, <1>4, <1>6, <1>8 DEF Left
<1>11. LET r == Place(root, a, m)
       IN  /\ Linked(u, gone, r) /\ Listing(u, r) = Listing(tree, root)
           /\ Path(u, gone, r, fr) /\ Progress(u, gone, r, fr, D)
  BY <1>1, <1>2, <1>9, <1>10, GraftStep DEF a, b
<1> QED BY <1>6, <1>11 DEF Kept, u, gone, fr

-----------------------------------------------------------------------------
(* What is reachable is in every set that has the root and is closed under  *)
(* pointers.                                                                *)
Generations == CHOOSE gen : gen = [k \in 0..Len(tree) |-> IF k = 0 THEN {root} ELSE WithChildren(gen[k - 1])]

LEMMA ReachableIs == Reachable = Generations[Len(tree)]
BY DEF Reachable, Generations

LEMMA ReachableIn ==
  ASSUME Len(tree) \in Nat, NEW C, root \in C,
         \A n \in C \ {0} : \A k \in DOMAIN tree[n].kids : tree[n].kids[k] \in C
  PROVE  Reachable \subseteq C
<1> DEFINE V == SUBSET C
           G == [k \in Nat |-> [v \in V |-> WithChildren(v)]]
           n == Len(tree)
           def(f) == [k \in 0..n |-> IF k = 0 THEN {root} ELSE WithChildren(f[k - 1])]
           gen == Generations
<1>1. n \in Nat /\ {root} \in V
  OBVIOUS
<1>2. ASSUME NEW v \in V PROVE WithChildren(v) \in V
  BY DEF WithChildren, ToSet
<1>3. G \in [Nat -> [V -> V]]
  <2> HIDE DEF V
  <2> QED BY <1>2
<1>4. PICK f : Steps(f, n, V, {root}, G)
  <2> HIDE DEF V, G, n
  <2> QED BY <1>1, <1>3, StepsExist
<1>5. f = def(f)
  <2>1. f \in [0..n -> V] /\ f[0] = {root} /\ \A k \in 0..n - 1 : f[k + 1] = G[k][f[k]]
    BY <1>4 DEF Steps
  <2>2. \A k \in 0..n - 1 : f[k + 1] = WithChildren(f[k])
    <3> SUFFICES ASSUME NEW k \in 0..n - 1 PROVE f[k + 1] = WithChildren(f[k])
      OBVIOUS
    <3>1. k \in Nat /\ f[k] \in V
      BY <1>1, <2>1
    <3> HIDE DEF V
    <3> QED BY <2>1, <3>1
  <2>3. \A d \in 0..n : f[d] = def(f)[d]
    <3> SUFFICES ASSUME NEW d \in 0..n PROVE f[d] = def(f)[d]
      OBVIOUS
    <3>1. CASE d = 0
      BY <2>1, <3>1
    <3>2. CASE d # 0
      <4>1. d - 1 \in 0..n - 1 /\ (d - 1) + 1 = d
        BY <1>1, <3>2
      <4>2. f[d] = WithChildren(f[d - 1])
        BY <2>2, <4>1
      <4> HIDE DEF n
      <4> QED BY <3>2, <4>2
    <3> QED BY <3>1, <3>2
  <2> HIDE DEF n, V
  <2>4. DOMAIN f = 0..n /\ f = [d \in DOMAIN f |-> f[d]]
    BY <2>1, Zenon
  <2> QED BY <2>3, <2>4
<1>6. gen = def(gen)
  BY <1>5, Zenon DEF Generations
<1> HIDE DEF n, gen
<1>7. \A k \in 0..n : gen[k] = IF k = 0 THEN {root} ELSE WithChildren(gen[k - 1])
  BY <1>6, Zenon
<1> DEFINE K == {k \in Nat : k <= n => gen[k] \in V}
<1>8. 0 \in K
  <2>1. 0 \in 0..n
    BY <1>1
  <2>2. gen[0] = {root}
    BY <1>7, <2>1, Zenon
  <2> QED BY <1>1, <2>2
<1>9. ASSUME NEW k \in K PROVE k + 1 \in K
  <2> SUFFICES ASSUME k + 1 <= n PROVE gen[k + 1] \in V
    OBVIOUS
  <2> DEFINE e == k + 1
  <2>1. e \in 0..n /\ e # 0 /\ e - 1 = k /\ k <= n
    BY <1>1
  <2>2. gen[k] \in V
    BY <2>1
  <2> HIDE DEF e
  <2>3. gen[e] = WithChildren(gen[k])
    BY <1>7, <2>1
  <2> HIDE DEF V
  <2> QED BY <1>2, <2>2, <2>3 DEF e
<1>10. K = Nat
  <2> HIDE DEF K
  <2>1. K \in SUBSET Nat
    BY DEF K
  <2> QED BY <1>8, <1>9, <2>1, SetInduction
<1>11. gen[n] \in V
  <2>1. n \in K /\ n <= n
    <3> HIDE DEF K
    <3> QED BY <1>1, <1>10
  <2> QED BY <2>1
<1> QED BY <1>11, ReachableIs DEF n, gen

-----------------------------------------------------------------------------
(* The invariant of the heap.  Until the parser is done it builds a forest  *)
(* that it only adds to; from then on root leads to a tree of nodes in use  *)
(* with the text that was parsed, and the pass leaves no list in a list.    *)
Parsed == phase \notin {"parse", "rejected"}
AfterPass == phase \in {"declare", "setup", "gen", "done", "exit"}
AllDone(t, r, D) == r \in D /\ DoneClosed(t, D)

HeapInv ==
  /\ ~Parsed => freed = {} /\ frames = <<>>
  /\ phase = "parse" => Forest(tree, stack)
  /\ Parsed => /\ Linked(tree, freed, root) /\ Path(tree, freed, root, frames)
               /\ Listing(tree, root) = SourceText
  /\ phase = "collapse" => \E D : Progress(tree, freed, root, frames, D)
  /\ AfterPass => \E D : AllDone(tree, root, D)

LEMMA ParserHeap ==
  ASSUME ParseInv, HeapInv, ParserStep, KeepSource
  PROVE  HeapInv'
<1>1. /\ ParseInv' /\ phase' \in {"parse", "collapse", "rejected"} /\ phase = "parse"
      /\ tree' \in Seq(NodeRec) /\ stack' \in Seq(Item)
  BY ParserStepKeeps DEF ParseInv, TypeOK, ParserTypeOK
<1>2. /\ Parse /\ frames' = frames /\ frames = <<>> /\ freed = {} /\ Forest(tree, stack)
  BY <1>1 DEF ParserStep, semanticVars, HeapInv, Parsed
<1>3. CASE Accept
  <2>1. phase' = "collapse" /\ tree' = tree
    BY <1>3 DEF Accept
  <2>2. Linked(tree', freed', root')
    BY <1>2, <1>3, AcceptLinked
  <2>3. Path(tree', freed', root', frames') /\ Progress(tree', freed', root', frames', {})
    BY <1>2 DEF Path, Progress, DoneClosed
  <2>4. SourceText' = Listing(tree', root')
    <3>1. source' = [tree |-> tree', root |-> root']
      BY <1>1, <2>1 DEF KeepSource
    <3>2. source'.tree = tree' /\ source'.root = root'
      BY <3>1
    <3> QED BY <3>2 DEF SourceText
  <2> QED BY <2>1, <2>2, <2>3, <2>4 DEF HeapInv, Parsed, AfterPass
<1>4. CASE Reject
  BY <1>2, <1>4 DEF HeapInv, Parsed, AfterPass, Reject
<1>5. CASE ~Accept /\ ~Reject
  <2>1. Forest(tree', stack')
    BY <1>1, <1>2, <1>5, ParserForest
  <2>2. phase' = phase /\ freed' = freed
    BY <1>2, <1>5 DEF Parse, StmtAttr, StmtNamed, StmtOut, StmtDelay, StmtError, Begin, Open,
         OpenWhile, OpenIf, OpenFunction, OpenElse, ReduceLast, ReduceStmts, CloseWhile,
         CloseFunction, CloseIf, CloseElse, CloseElseIf, StmtIf, Reduce
  <2> QED BY <1>1, <1>2, <2>1, <2>2 DEF HeapInv, Parsed, AfterPass
<1> QED BY <1>3, <1>4, <1>5

(* What a step of a pass has to show of the heap. *)
LEMMA PassHeap ==
  ASSUME HeapInv, PassPhase, KeepSource,
         Linked(tree', freed', root'), Path(tree', freed', root', frames'),
         Listing(tree', root') = Listing(tree, root),
         phase' \in {"collapse", "declare", "exit", "setup", "fault"},
         phase' = "collapse" => \E D : Progress(tree', freed', root', frames', D),
         AfterPass' => \E D : AllDone(tree', root', D)
  PROVE  HeapInv'
<1>1. source' = source /\ Parsed /\ Parsed' /\ phase' # "parse"
  BY DEF KeepSource, PassPhase, Parsed
<1>2. SourceText' = SourceText
  BY <1>1 DEF SourceText
<1> QED BY <1>1, <1>2 DEF HeapInv

LEMMA WalkingNow == ASSUME ParseInv, HeapInv, PassPhase PROVE Walking /\ Listing(tree, root) = SourceText
BY DEF HeapInv, PassPhase, Parsed, Walking

(* The heap and the calls as they were. *)
LEMMA SameHeap ==
  ASSUME ParseInv, HeapInv, PassPhase, KeepSource, UNCHANGED <<tree, freed, root>>,
         Path(tree', freed', root', frames'),
         \/ phase' = "fault"
         \/ phase = "declare" /\ phase' \in {"declare", "exit", "setup"}
         \/ phase = "collapse" /\ phase' = "collapse" /\ \E D : Progress(tree', freed', root', frames', D)
         \/ phase = "collapse" /\ phase' = "declare" /\ \E D : AllDone(tree', root', D)
  PROVE  HeapInv'
<1>1. Linked(tree', freed', root') /\ Listing(tree', root') = Listing(tree, root)
  BY WalkingNow DEF Walking
<1>2. phase = "declare" => \E D : AllDone(tree', root', D)
  BY DEF HeapInv, AfterPass
<1> QED BY <1>1, <1>2, PassHeap DEF AfterPass

LEMMA EnterHeap ==
  ASSUME ParseInv, HeapInv, PassPhase, KeepSource, VisitRoot \/ VisitKid
  PROVE  HeapInv'
<1>1. PICK no : /\ Enter(no) \/ Wild(no)
                /\ \/ frames = <<>> /\ no = root
                   \/ frames # <<>> /\ MoreKids /\ no = Kid
  BY DEF VisitRoot, VisitKid, Visiting
<1>2. Walking
  BY WalkingNow
<1>3. CASE Wild(no)
  <2>1. Path(tree', freed', root', frames') /\ phase' = "fault" /\ UNCHANGED <<tree, freed, root>>
    BY <1>2, <1>3 DEF Wild, Walking
  <2> QED BY <2>1, SameHeap
<1>4. CASE Enter(no)
  <2>1. /\ no # 0 /\ frames' = Append(frames, [r |-> no, i |-> 1])
        /\ UNCHANGED <<phase, tree, freed, root>>
    BY <1>4 DEF Enter
  <2>2. no \in DOMAIN tree \ freed
    <3>1. CASE frames = <<>>
      BY <1>1, <1>2, <3>1 DEF Walking, Linked
    <3>2. CASE frames # <<>>
      BY <1>1, <1>2, <2>1, <3>2, TopLive
    <3> QED BY <3>1, <3>2
  <2>3. Path(tree', freed', root', frames')
    BY <1>1, <1>2, <2>1, <2>2, EnterPath
  <2>4. phase = "collapse" => \E D : Progress(tree', freed', root', frames', D)
    <3> SUFFICES ASSUME phase = "collapse" PROVE \E D : Progress(tree', freed', root', frames', D)
      OBVIOUS
    <3>1. PICK D : Progress(tree, freed, root, frames, D)
      BY DEF HeapInv
    <3>2. Progress(tree', freed', root', frames', D)
      BY <1>2, <2>1, <2>2, <2>3, <3>1, EnterProgress
    <3> QED BY <3>2
  <2> QED BY <2>1, <2>3, <2>4, SameHeap DEF PassPhase
<1> QED BY <1>1, <1>3, <1>4

LEMMA ActHeap ==
  ASSUME ParseInv, HeapInv, KeepSource, NoGraft \/ Declare
  PROVE  HeapInv'
<1>1. Returns /\ Resume /\ UNCHANGED <<tree, freed, root, phase>> /\ PassPhase
      /\ (phase = "collapse" => ~Grafts)
  BY DEF NoGraft, Declare, Returns, Visiting, PassPhase
<1>2. Walking
  BY <1>1, WalkingNow
<1>3. Path(tree', freed', root', frames')
  BY <1>1, <1>2, NoGraftPath
<1>4. phase = "collapse" => \E D : Progress(tree', freed', root', frames', D)
  <2> SUFFICES ASSUME phase = "collapse" PROVE \E D : Progress(tree', freed', root', frames', D)
    OBVIOUS
  <2>1. PICK D : Progress(tree, freed, root, frames, D)
    BY DEF HeapInv
  <2>2. Progress(tree', freed', root', frames', D \cup {ActOn})
    BY <1>1, <1>2, <2>1, NoGraftProgress
  <2> QED BY <2>2
<1> QED BY <1>1, <1>3, <1>4, SameHeap DEF PassPhase

LEMMA GraftHeap ==
  ASSUME ParseInv, HeapInv, KeepSource, tree' \in Seq(NodeRec), GraftInPlace \/ GraftMoved
  PROVE  HeapInv'
<1>1. phase = "collapse" /\ phase' = "collapse" /\ PassPhase
  BY DEF GraftInPlace, GraftMoved, PassPhase
<1>2. Walking
  BY <1>1, WalkingNow
<1>3. PICK D : Progress(tree, freed, root, frames, D)
  BY <1>1 DEF HeapInv
<1>4. Kept(D)
  BY <1>2, <1>3, InPlaceKeeps, MovedKeeps
<1> QED BY <1>1, <1>4, PassHeap DEF Kept, AfterPass

LEMMA DoneHeap ==
  ASSUME ParseInv, HeapInv, KeepSource, PassDone
  PROVE  HeapInv'
<1>1. /\ PassPhase /\ ~MoreKids /\ Len(frames) = 1 /\ frames # <<>> /\ frames' = <<>>
      /\ UNCHANGED <<tree, freed, root>>
      /\ phase = "collapse" => phase' = "declare"
      /\ phase = "declare" => phase' \in {"exit", "setup"}
  BY DEF PassDone, Visiting, PassPhase
<1>2. Walking
  BY <1>1, WalkingNow
<1>3. Path(tree', freed', root', frames')
  BY <1>1 DEF Path
<1>4. phase = "collapse" => \E D : AllDone(tree', root', D)
  <2> SUFFICES ASSUME phase = "collapse" PROVE \E D : AllDone(tree', root', D)
    OBVIOUS
  <2>1. PICK D : Progress(tree, freed, root, frames, D)
    BY DEF HeapInv
  <2>2. SlotIn(tree, root, frames, Len(frames)) = root
    BY <1>1 DEF SlotIn
  <2>3. root \in DOMAIN tree /\ Flat(tree, root) /\ \A k \in DOMAIN tree[root].kids : tree[root].kids[k] \in D
    BY <1>1, <1>2, <2>1, <2>2, BackSeen
  <2>4. AllDone(tree, root, D \cup {root})
    BY <2>1, <2>3 DEF AllDone, DoneClosed, Progress
  <2> QED BY <1>1, <2>4
<1> QED BY <1>1, <1>3, <1>4, SameHeap DEF PassPhase

LEMMA SemanticHeap ==
  ASSUME ParseInv, HeapInv, SemanticStep, KeepSource
  PROVE  HeapInv'
<1>1. PassPhase /\ tree' \in Seq(NodeRec) /\ Analyse
  BY SemanticStepKeeps DEF SemanticStep, ParseInv, TypeOK
<1> QED BY <1>1, EnterHeap, ActHeap, GraftHeap, DoneHeap DEF Analyse

LEMMA CodegenLeaves ==
  ASSUME Generate
  PROVE  /\ UNCHANGED treeVars
         /\ phase \in {"setup", "gen"} /\ phase' \in {"gen", "done", "fault"}
<1>1. CASE setup_llvm_global \/ print_llvm_ir \/ GenDies
  BY <1>1 DEF setup_llvm_global, print_llvm_ir, GenDies, Called, Back
<1>2. CASE GenAttr \/ GenOut \/ GenDelay \/ GenPrnt \/ GenCall
  BY <1>2 DEF GenAttr, GenOut, GenDelay, GenPrnt, GenCall, GenSimple, Called
<1>3. CASE \/ GenList \/ ListNext \/ GenWhile \/ WhileDone \/ GenIf \/ ThenDone \/ IfDone
           \/ GenFunc \/ FuncDone
  BY <1>3 DEF GenList, ListNext, GenWhile, WhileDone, GenIf, ThenDone, IfDone, GenFunc, FuncDone, Called, Back
<1> QED BY <1>1, <1>2, <1>3 DEF Generate

LEMMA HeapKept == ASSUME IInv, HeapInv, [Next]_vars PROVE HeapInv'
<1>1. ParseInv
  BY DEF IInv, ParseInv
<1>2. CASE ParserStep /\ KeepSource
  BY <1>1, <1>2, ParserHeap
<1>3. CASE SemanticStep /\ KeepSource
  BY <1>1, <1>3, SemanticHeap
<1>4. CASE CodegenStep /\ KeepSource
  <2>1. /\ UNCHANGED treeVars /\ phase \in {"setup", "gen"} /\ phase' \in {"gen", "done", "fault"}
        /\ frames' = frames
    BY <1>4, CodegenLeaves DEF CodegenStep, semanticVars
  <2>2. source' = source
    BY <1>4, <2>1 DEF KeepSource
  <2>3. UNCHANGED <<tree, freed, root>>
    BY <2>1 DEF treeVars
  <2>4. SourceText' = SourceText
    BY <2>2 DEF SourceText
  <2> QED BY <2>1, <2>3, <2>4 DEF HeapInv, Parsed, AfterPass
<1>5. CASE UNCHANGED vars
  <2>1. UNCHANGED <<phase, tree, freed, root, stack, frames, source>>
    BY <1>5 DEF vars
  <2>2. SourceText' = SourceText
    BY <2>1 DEF SourceText
  <2> QED BY <2>1, <2>2 DEF HeapInv, Parsed, AfterPass
<1> QED BY <1>2, <1>3, <1>4, <1>5 DEF Next, Ended

(* From its first state to its last, the compiler has the heap that HeapInv *)
(* describes.                                                               *)
THEOREM HeapHolds == Spec => [](IInv /\ HeapInv)
<1>1. Init => HeapInv
  <2> SUFFICES ASSUME Init PROVE HeapInv
    OBVIOUS
  <2>1. phase = "parse" /\ tree = <<>> /\ freed = {} /\ frames = <<>> /\ stack = <<>>
    BY DEF Init, ParserInit, SemanticInit
  <2>2. Forest(tree, stack)
    BY <2>1 DEF Forest, Younger, OneParent, RawLists, OnStack
  <2> QED BY <2>1, <2>2 DEF HeapInv, Parsed, AfterPass
<1>2. IInv /\ HeapInv /\ [Next]_vars => HeapInv'
  BY HeapKept
<1> QED BY <1>1, <1>2, InvariantHolds, PTL DEF Spec

(* collapse_stmts, wherever realloc puts the lists that it grows while the  *)
(* visitor is walking them, leaves every statement in its place: what root  *)
(* leads to is memory in use, and reads as the program that was parsed.     *)
THEOREM TheTextIsKept == Spec => []TextIsKept
<1>1. IInv /\ HeapInv => TextIsKept
  <2> SUFFICES ASSUME IInv, HeapInv, phase \in {"collapse", "declare", "setup"}
               PROVE  Reachable \cap freed = {} /\ Listing(tree, root) = SourceText
    BY DEF TextIsKept
  <2>1. Linked(tree, freed, root) /\ Listing(tree, root) = SourceText
    BY DEF HeapInv, Parsed
  <2>2. Len(tree) \in Nat
    BY DEF IInv, TypeOK
  <2> DEFINE C == (DOMAIN tree \ freed) \cup {0}
  <2>3. root \in C /\ \A n \in C \ {0} : \A k \in DOMAIN tree[n].kids : tree[n].kids[k] \in C
    BY <2>1 DEF Linked, ClosedUnder
  <2>4. Reachable \subseteq C
    <3> HIDE DEF C
    <3> QED BY <2>2, <2>3, ReachableIn
  <2>5. 0 \notin freed
    BY <2>1, <2>2 DEF Linked, IInv, TypeOK
  <2> QED BY <2>1, <2>4, <2>5
<1> QED BY <1>1, HeapHolds, PTL

(* The visitor may be inside the loop over a list that realloc has freed.   *)
(* It is then in its innermost call, and takes no more children from there. *)
THEOREM StalePointersAreNotFollowed == Spec => []StalePointersEndTheLoop
<1>1. IInv /\ HeapInv => StalePointersEndTheLoop
  <2> SUFFICES ASSUME IInv, HeapInv, NEW k \in DOMAIN frames, frames[k].r \in freed
               PROVE  k = Len(frames) /\ ~MoreKids
    BY DEF StalePointersEndTheLoop
  <2>1. Parsed
    BY DEF HeapInv
  <2>2. k = Len(frames) /\ frames[k].i > Len(tree[frames[k].r].kids) /\ frames[k].r \in DOMAIN tree
    BY <2>1 DEF HeapInv, Path
  <2>3. frames \in Seq(Frame) /\ tree \in Seq(NodeRec)
    BY DEF IInv, TypeOK, SemanticTypeOK
  <2>4. frames[k].i \in Nat
    <3>1. frames[k] \in Frame
      BY <2>3
    <3>2. \A f \in Frame : f.i \in Nat
      BY DEF Frame
    <3> QED BY <3>1, <3>2
  <2>5. Len(tree[frames[k].r].kids) \in Nat
    <3>1. Nodes(tree)
      BY <2>3, TreeIsNodes
    <3> QED BY <2>2, <3>1 DEF Nodes
  <2>6. Top = frames[k]
    BY <2>2 DEF Top, Last
  <2> QED BY <2>2, <2>4, <2>5, <2>6 DEF MoreKids
<1> QED BY <1>1, HeapHolds, PTL

(* However deep a program nests its lists, the pass leaves no list of it as *)
(* the child of a list.                                                     *)
THEOREM NoListInAList == Spec => []ListsAreFlat
<1>1. IInv /\ HeapInv => ListsAreFlat
  <2> SUFFICES ASSUME IInv, HeapInv, phase \in {"declare", "setup", "gen", "done", "exit"},
                      NEW n \in Reachable, tree[n].type = "STMTS", NEW k \in DOMAIN tree[n].kids
               PROVE  tree[tree[n].kids[k]].type # "STMTS"
    BY DEF ListsAreFlat
  <2>1. PICK D : AllDone(tree, root, D)
    BY DEF HeapInv, AfterPass
  <2>2. tree \in Seq(NodeRec)
    BY DEF IInv, TypeOK
  <2>3. Len(tree) \in Nat /\ \A m \in DOMAIN tree : m # 0
    BY <2>2
  <2>4. n \in D
    <3>1. Reachable \subseteq D
      BY <2>1, <2>3, ReachableIn DEF AllDone, DoneClosed
    <3> QED BY <3>1
  <2>5. Flat(tree, n) /\ tree[n].kids[k] # 0
    BY <2>1, <2>3, <2>4 DEF AllDone, DoneClosed
  <2> QED BY <2>5 DEF Flat, NotList
<1> QED BY <1>1, HeapHolds, PTL

-----------------------------------------------------------------------------
(***************************************************************************)
(* Functions: where the language nests none, the builder stays in the one  *)
(* that it is generating.                                                  *)
(***************************************************************************)
-----------------------------------------------------------------------------
(* Where the program nests no FUNCTION, T is what the bodies of functions   *)
(* are made of: nodes that lead to each other, none of them a definition.   *)
FunctionsApart(t, T) ==
  /\ T \subseteq DOMAIN t
  /\ \A n \in DOMAIN t :
       /\ n \in T => t[n].type # "FUNC"
       /\ n \in T \/ t[n].type = "FUNC" =>
            \A k \in DOMAIN t[n].kids : t[n].kids[k] \in T \cup {0}

(* At most one FUNCTION is open, and all that was read in it is in T. *)
IsFunction(item) == item.sym = "inFunction"
Within(st, j) == \E i \in DOMAIN st : i < j /\ IsFunction(st[i])
OpenFunctions(st, T) ==
  /\ \A i, j \in DOMAIN st : IsFunction(st[i]) /\ IsFunction(st[j]) => i = j
  /\ \A j \in DOMAIN st : Within(st, j) => st[j].no \in T \cup {0}

LEMMA ApartMore ==
  ASSUME NEW t \in Seq(NodeRec), NEW T, FunctionsApart(t, T), NEW node, NEW U,
         U = T \/ (U = T \cup {Len(t) + 1} /\ node.type # "FUNC"),
         Len(t) + 1 \in U \/ node.type = "FUNC" =>
           \A k \in DOMAIN node.kids : node.kids[k] \in T \cup {0}
  PROVE  FunctionsApart(Append(t, node), U)
<1> DEFINE m == Len(t) + 1
           u == Append(t, node)
<1>1. /\ DOMAIN u = DOMAIN t \cup {m} /\ m \notin DOMAIN t /\ u[m] = node
      /\ \A n \in DOMAIN t : u[n] = t[n]
  OBVIOUS
<1> HIDE DEF m, u
<1>2. T \subseteq U /\ U \subseteq T \cup {m} /\ m \notin T
  BY <1>1 DEF FunctionsApart, m
<1>3. ASSUME NEW n \in DOMAIN t
      PROVE  /\ n \in U => u[n].type # "FUNC"
             /\ n \in U \/ u[n].type = "FUNC" =>
                  \A k \in DOMAIN u[n].kids : u[n].kids[k] \in U \cup {0}
  <2>1. u[n] = t[n] /\ (n \in U <=> n \in T)
    BY <1>1, <1>2
  <2> QED BY <1>2, <2>1 DEF FunctionsApart
<1>4. /\ m \in U => u[m].type # "FUNC"
      /\ m \in U \/ u[m].type = "FUNC" =>
           \A k \in DOMAIN u[m].kids : u[m].kids[k] \in U \cup {0}
  BY <1>1, <1>2 DEF m
<1>5. U \subseteq DOMAIN u
  BY <1>1, <1>2 DEF FunctionsApart
<1>6. FunctionsApart(u, U)
  BY <1>1, <1>3, <1>4, <1>5 DEF FunctionsApart
<1> QED BY <1>6 DEF u

LEMMA FunctionsPush ==
  ASSUME NEW st \in Seq(Item), NEW T, OpenFunctions(st, T), NEW k \in 0..Len(st), NEW item,
         NEW U, T \subseteq U,
         IsFunction(item) => \A i \in DOMAIN st : ~IsFunction(st[i]),
         (\E i \in 1..k : IsFunction(st[i])) => item.no \in U \cup {0}
  PROVE  OpenFunctions(Append(SubSeq(st, 1, k), item), U)
<1> DEFINE new == Append(SubSeq(st, 1, k), item)
<1>1. /\ DOMAIN new = 1..k + 1 /\ new[k + 1] = item /\ k \in Nat
      /\ \A j \in 1..k : j \in DOMAIN st /\ new[j] = st[j]
  OBVIOUS
<1> HIDE DEF new
<1>2. \A j \in DOMAIN new : \/ j \in 1..k /\ j \in DOMAIN st /\ new[j] = st[j]
                            \/ j = k + 1 /\ new[j] = item
  BY <1>1
<1>3. \A i, j \in DOMAIN new : IsFunction(new[i]) /\ IsFunction(new[j]) => i = j
  BY <1>2 DEF OpenFunctions
<1>4. ASSUME NEW j \in DOMAIN new, Within(new, j) PROVE new[j].no \in U \cup {0}
  <2>1. PICK i \in DOMAIN new : i < j /\ IsFunction(new[i])
    BY <1>4 DEF Within
  <2>2. i \in 1..k /\ i \in DOMAIN st /\ IsFunction(st[i])
    BY <1>1, <1>2, <2>1
  <2>3. CASE j \in 1..k
    <3>1. j \in DOMAIN st /\ new[j] = st[j] /\ Within(st, j)
      BY <1>1, <2>1, <2>2, <2>3 DEF Within
    <3> QED BY <3>1 DEF OpenFunctions
  <2>4. CASE j = k + 1
    BY <1>1, <2>2, <2>4
  <2> QED BY <1>2, <2>3, <2>4
<1> QED BY <1>3, <1>4 DEF OpenFunctions, new

(* The parser's outcome for a new node: it belongs to the body of the       *)
(* function that is open, if one is.                                        *)
ApartParse == \E U : FunctionsApart(tree', U) /\ OpenFunctions(stack', U)

LEMMA ReduceApart ==
  ASSUME ParseInv, NEW T, FunctionsApart(tree, T), OpenFunctions(stack, T),
         NEW k \in 0..Len(stack), NEW sym \in {"stmt", "stmts", "if"},
         NEW type, NEW name, NEW exprs, NEW kids,
         Reduce(k, sym, create_no(type, name, exprs, kids)), Taken(kids, stack, k),
         type = "FUNC" => /\ \A j \in DOMAIN kids : kids[j] \in T \cup {0}
                          /\ \A i \in 1..Len(stack) - k : ~IsFunction(stack[i])
  PROVE  ApartParse
<1> DEFINE l == Len(stack) - k
           m == Len(tree) + 1
           node == create_no(type, name, exprs, kids)
           inside == \E i \in 1..l : IsFunction(stack[i])
           U == IF inside THEN T \cup {m} ELSE T
<1>1. /\ tree \in Seq(NodeRec) /\ stack \in Seq(Item) /\ l \in 0..Len(stack)
      /\ Len(stack) \in Nat /\ DOMAIN stack = 1..Len(stack)
  BY DEF ParseInv, TypeOK, ParserTypeOK
<1>2. node.type = type /\ node.kids = kids
  BY DEF create_no
<1>3. tree' = Append(tree, node) /\ stack' = Append(SubSeq(stack, 1, l), Node(sym, m))
  BY DEF Reduce, Pop
<1>4. ASSUME inside, NEW j \in DOMAIN kids PROVE kids[j] \in T \cup {0}
  <2>1. PICK pos \in [DOMAIN kids -> l + 1..Len(stack)] : kids[j] = stack[pos[j]].no
    BY DEF Taken
  <2>2. pos[j] \in l + 1..Len(stack)
    OBVIOUS
  <2>3. PICK i \in 1..l : IsFunction(stack[i])
    BY <1>4
  <2> DEFINE p == pos[j]
  <2> HIDE DEF p, l
  <2>4. p \in DOMAIN stack /\ i \in DOMAIN stack /\ i < p
    BY <1>1, <2>2 DEF p
  <2>5. Within(stack, p)
    BY <2>3, <2>4 DEF Within
  <2> QED BY <2>1, <2>4, <2>5 DEF OpenFunctions, p
<1>5. T \subseteq U /\ (inside => m \in U) /\ (~inside => m \notin U)
  <2>1. m \notin DOMAIN tree
    BY <1>1
  <2>2. m \notin T
    BY <2>1 DEF FunctionsApart
  <2> QED BY <2>2
<1>6. type = "FUNC" => ~inside
  OBVIOUS
<1>7. U = T \/ (U = T \cup {m} /\ type # "FUNC")
  BY <1>6
<1> HIDE DEF node, inside, U
<1>8. FunctionsApart(tree', U)
  <2>1. m \in U \/ node.type = "FUNC" => \A j \in DOMAIN node.kids : node.kids[j] \in T \cup {0}
    BY <1>2, <1>4, <1>5
  <2>2. U = T \/ (U = T \cup {Len(tree) + 1} /\ node.type # "FUNC")
    BY <1>2, <1>7
  <2> QED BY <1>1, <1>3, <2>1, <2>2, ApartMore
<1>9. OpenFunctions(stack', U)
  <2>1. ~IsFunction(Node(sym, m)) /\ Node(sym, m).no = m
    BY DEF Node, IsFunction
  <2>2. (\E i \in 1..l : IsFunction(stack[i])) => Node(sym, m).no \in U \cup {0}
    BY <1>5, <2>1 DEF inside
  <2> HIDE DEF l, m
  <2> QED BY <1>1, <1>3, <1>5, <2>1, <2>2, FunctionsPush
<1> QED BY <1>8, <1>9 DEF ApartParse

LEMMA PushApart ==
  ASSUME ParseInv, NEW T, FunctionsApart(tree, T), OpenFunctions(stack, T),
         NEW k \in 0..Len(stack), NEW item, tree' = tree,
         stack' = Append(SubSeq(stack, 1, k), item),
         IsFunction(item) => \A i \in DOMAIN stack : ~IsFunction(stack[i]),
         (\E i \in 1..k : IsFunction(stack[i])) => item.no \in T \cup {0}
  PROVE  ApartParse
<1>1. stack \in Seq(Item)
  BY DEF ParseInv, TypeOK, ParserTypeOK
<1>2. OpenFunctions(stack', T)
  BY <1>1, FunctionsPush
<1> QED BY <1>2 DEF ApartParse

(* OpenFunction waits until no FUNCTION is open. *)
LEMMA NoneOpen ==
  ASSUME ParseInv, MaxFuncs <= 1, CountOf({"inFunction"}) < MaxFuncs
  PROVE  \A i \in DOMAIN stack : ~IsFunction(stack[i])
<1> DEFINE S == {j \in DOMAIN stack : stack[j].sym \in {"inFunction"}}
<1>1. stack \in Seq(Item) /\ Len(stack) \in Nat
  BY DEF ParseInv, TypeOK, ParserTypeOK
<1>2. S \in SUBSET (1..Len(stack))
  BY <1>1
<1>3. IsFiniteSet(S) /\ Cardinality(S) \in Nat /\ Cardinality(S) < MaxFuncs /\ MaxFuncs \in Nat
  <2>1. IsFiniteSet(S)
    BY <1>1, <1>2, UpTo
  <2> QED BY <2>1, FS_CardinalityType, ParserAssumption DEF CountOf
<1>4. Cardinality(S) = 0
  <2> HIDE DEF S
  <2> QED BY <1>3
<1>5. S = {}
  <2> HIDE DEF S
  <2> QED BY <1>3, <1>4, FS_EmptySet
<1> QED BY <1>5 DEF IsFunction

LEMMA OpenApart ==
  ASSUME ParseInv, MaxFuncs <= 1, NEW T, FunctionsApart(tree, T), OpenFunctions(stack, T),
         OpenWhile \/ OpenIf \/ OpenFunction \/ OpenElse
  PROVE  ApartParse
<1>1. \A sym, name, exprs : /\ Mark(sym, name, exprs).no = 0
                            /\ IsFunction(Mark(sym, name, exprs)) <=> sym = "inFunction"
  BY DEF Mark, IsFunction
<1>2. PICK mark : /\ tree' = tree /\ stack' = Append(stack, mark) /\ mark.no = 0
                  /\ IsFunction(mark) => \A i \in DOMAIN stack : ~IsFunction(stack[i])
  <2>1. \A kind, mark : Open(kind, mark) => tree' = tree /\ stack' = Append(stack, mark)
    BY DEF Open
  <2>2. CASE OpenWhile
    <3>1. PICK c \in Cond : Open("WHILE", Mark("inWhile", NoName, <<c>>))
      BY <2>2 DEF OpenWhile
    <3> QED BY <1>1, <2>1, <3>1
  <2>5. CASE OpenIf
    <3>1. PICK c \in Cond : Open("IF", Mark("inThen", NoName, <<c>>))
      BY <2>5 DEF OpenIf
    <3> QED BY <1>1, <2>1, <3>1
  <2>3. CASE OpenFunction
    <3>1. PICK f \in FuncName : Open("FUNC", Mark("inFunction", f, <<>>))
      BY <2>3 DEF OpenFunction
    <3>2. \A i \in DOMAIN stack : ~IsFunction(stack[i])
      BY <2>3, NoneOpen DEF OpenFunction
    <3> QED BY <1>1, <2>1, <3>1, <3>2
  <2>4. CASE OpenElse
    <3>1. PICK mark \in {Mark("inElse", NoName, <<>>)} \cup {Mark("inThen", NoName, <<c>>) : c \in Cond} :
            tree' = tree /\ stack' = Append(stack, mark)
      BY <2>4 DEF OpenElse
    <3>2. mark.no = 0 /\ ~IsFunction(mark)
      <4>1. CASE mark = Mark("inElse", NoName, <<>>)
        BY <1>1, <4>1
      <4>2. ASSUME NEW c \in Cond, mark = Mark("inThen", NoName, <<c>>)
            PROVE  mark.no = 0 /\ ~IsFunction(mark)
        BY <1>1, <4>2
      <4> QED BY <4>1, <4>2
    <3> QED BY <3>1, <3>2
  <2> QED BY <2>2, <2>3, <2>4, <2>5
<1>3. Len(stack) \in 0..Len(stack) /\ SubSeq(stack, 1, Len(stack)) = stack
  BY SubSeqFull DEF ParseInv, TypeOK, ParserTypeOK
<1> QED BY <1>2, <1>3, PushApart

LEMMA CloseFunctionApart ==
  ASSUME ParseInv, NEW T, FunctionsApart(tree, T), OpenFunctions(stack, T), CloseFunction
  PROVE  ApartParse
<1> DEFINE l == Len(stack)
           kids == <<Below(0).no>>
<1>0. stack \in Seq(Item) /\ l \in Nat /\ DOMAIN stack = 1..l
  BY DEF ParseInv, TypeOK, ParserTypeOK
<1>1. /\ TopIs(<<"inFunction", "stmts">>)
      /\ Reduce(2, "stmt", create_no("FUNC", Below(1).name, <<>>, kids))
  BY DEF CloseFunction
<1>2. 2 <= l /\ Below(1).sym = "inFunction"
  BY <1>0, <1>1, TopTwo
<1>3. /\ l - 1 \in DOMAIN stack /\ l \in DOMAIN stack /\ l - 1 < l
      /\ Below(1) = stack[l - 1] /\ Below(0) = stack[l] /\ \A i \in 1..l - 2 : i \in DOMAIN stack /\ i # l - 1
  <2>1. Below(1) = stack[l - 1] /\ Below(0) = stack[l - 0]
    BY DEF Below
  <2>2. l - 0 = l
    BY <1>0
  <2> HIDE DEF l
  <2> QED BY <1>0, <1>2, <2>1, <2>2
<1> HIDE DEF l
<1>4. IsFunction(stack[l - 1])
  BY <1>2, <1>3 DEF IsFunction
<1>5. stack[l].no \in T \cup {0}
  BY <1>3, <1>4 DEF OpenFunctions, Within
<1>6. \A i \in 1..Len(stack) - 2 : ~IsFunction(stack[i])
  BY <1>3, <1>4 DEF OpenFunctions, l
<1>7. 2 \in 0..Len(stack) /\ Taken(kids, stack, 2)
  <2>1. 2 \in 0..Len(stack) /\ 0 \in 0..2 - 1
    BY <1>0, <1>2 DEF l
  <2> QED BY <1>0, <2>1, TakenBelow
<1>8. \A j \in DOMAIN kids : kids[j] \in T \cup {0}
  BY <1>3, <1>5
<1> HIDE DEF kids
<1> QED BY <1>1, <1>6, <1>7, <1>8, ReduceApart

LEMMA StmtIfApart ==
  ASSUME ParseInv, NEW T, FunctionsApart(tree, T), OpenFunctions(stack, T), StmtIf
  PROVE  ApartParse
<1> DEFINE l == Len(stack)
           item == Node("stmt", Below(0).no)
<1>0. stack \in Seq(Item) /\ l \in Nat /\ DOMAIN stack = 1..l
  BY DEF ParseInv, TypeOK, ParserTypeOK
<1>1. /\ TopIs(<<"if">>) /\ tree' = tree
      /\ stack' = Append(SubSeq(stack, 1, l - 1), item)
  BY DEF StmtIf, Pop
<1>2. 1 <= l
  BY <1>0, <1>1, TopOne
<1>3. Below(0) = stack[l]
  <2>1. Below(0) = stack[l - 0]
    BY DEF Below
  <2> HIDE DEF l
  <2> QED BY <1>0, <2>1
<1>4. item.no = stack[l].no /\ ~IsFunction(item)
  BY <1>3 DEF Node, IsFunction
<1> HIDE DEF item, l
<1>5. /\ l - 1 \in 0..l /\ l \in DOMAIN stack
      /\ \A i \in 1..l - 1 : i \in DOMAIN stack /\ i < l
  BY <1>0, <1>2
<1>6. (\E i \in 1..l - 1 : IsFunction(stack[i])) => item.no \in T \cup {0}
  BY <1>4, <1>5 DEF OpenFunctions, Within
<1>7. l - 1 \in 0..Len(stack)
  BY <1>5 DEF l
<1> QED BY <1>1, <1>4, <1>6, <1>7, PushApart

LEMMA ParserApart ==
  ASSUME ParseInv, MaxFuncs <= 1, NEW T, FunctionsApart(tree, T), OpenFunctions(stack, T),
         Parse, ~Accept, ~Reject
  PROVE  ApartParse
<1>0. stack \in Seq(Item) /\ Len(stack) \in Nat
  BY DEF ParseInv, TypeOK, ParserTypeOK
<1>1. 0 \in 0..Len(stack) /\ Taken(<<>>, stack, 0)
  <2>1. 0 \in 0..Len(stack)
    BY <1>0
  <2> QED BY <1>0, <2>1, TakenNone
<1>2. CASE StmtAttr \/ StmtOut \/ StmtDelay \/ StmtNamed("PRNT", Name) \/ StmtNamed("CALL", FuncName)
  <2>0. PICK type \in LeafType :
               \E name, exprs : Reduce(0, "stmt", create_no(type, name, exprs, <<>>))
    BY <1>2, Zenon DEF StmtAttr, StmtOut, StmtDelay, StmtNamed, LeafType
  <2>1. PICK name, exprs : Reduce(0, "stmt", create_no(type, name, exprs, <<>>))
    BY <2>0
  <2>2. type # "FUNC"
    BY DEF LeafType
  <2> QED BY <1>1, <2>1, <2>2, ReduceApart
<1>3. CASE StmtError
  <2>1. PICK k \in 0..Len(stack) : tree' = tree /\ stack' = Append(SubSeq(stack, 1, k), Node("stmt", 0))
    BY <1>3 DEF StmtError
  <2>2. Node("stmt", 0).no = 0 /\ ~IsFunction(Node("stmt", 0))
    BY DEF Node, IsFunction
  <2> QED BY <2>1, <2>2, PushApart
<1>4. CASE OpenWhile \/ OpenIf \/ OpenFunction \/ OpenElse
  BY <1>4, OpenApart
<1>5. CASE ReduceLast
  <2>1. TopIs(<<"stmt">>) /\ Reduce(1, "stmts", create_no("STMT", NoName, <<>>, <<Below(0).no>>))
    BY <1>5 DEF ReduceLast
  <2>2. 1 \in 0..Len(stack) /\ 0 \in 0..1 - 1
    BY <1>0, <2>1, TopOne
  <2>3. Taken(<<Below(0).no>>, stack, 1)
    BY <1>0, <2>2, TakenBelow
  <2> QED BY <2>1, <2>2, <2>3, ReduceApart
<1>6. CASE ReduceStmts
  <2>1. /\ TopIs(<<"stmt", "stmts">>)
        /\ Reduce(2, "stmts", create_no("STMTS", NoName, <<>>, <<Below(1).no, Below(0).no>>))
    BY <1>6 DEF ReduceStmts, StmtFirst
  <2>2. 2 \in 0..Len(stack) /\ 0 \in 0..2 - 1 /\ 1 \in 0..2 - 1
    BY <1>0, <2>1, TopTwo
  <2>3. 1 # 0 => Taken(<<Below(1).no, Below(0).no>>, stack, 2)
    BY <1>0, <2>2, TakenBelow, Zenon
  <2> QED BY <2>1, <2>2, <2>3, ReduceApart
<1>7. CASE CloseWhile \/ CloseIf
  <2>1. PICK type, sym, exprs, open :
          /\ type \in {"WHILE", "IF"} /\ sym \in {"stmt", "if"}
          /\ TopIs(<<open, "stmts">>)
          /\ Reduce(2, sym, create_no(type, NoName, exprs, <<Below(0).no>>))
    BY <1>7, Zenon DEF CloseWhile, CloseIf
  <2>2. 2 \in 0..Len(stack) /\ 0 \in 0..2 - 1
    BY <1>0, <2>1, TopTwo
  <2>3. Taken(<<Below(0).no>>, stack, 2)
    BY <1>0, <2>2, TakenBelow
  <2>4. type # "FUNC" /\ sym \in {"stmt", "stmts", "if"}
    BY <2>1
  <2> QED BY <2>1, <2>2, <2>3, <2>4, ReduceApart
<1>8. CASE CloseElse
  <2>1. /\ TopIs(<<"inThen", "stmts", "inElse", "stmts">>)
        /\ Reduce(4, "if", create_no("IF", NoName, Below(3).exprs, <<Below(2).no, Below(0).no>>))
    BY <1>8 DEF CloseElse
  <2>2. 4 \in 0..Len(stack) /\ 0 \in 0..4 - 1 /\ 2 \in 0..4 - 1
    BY <1>0, <2>1, TopFour
  <2>3. 2 # 0 => Taken(<<Below(2).no, Below(0).no>>, stack, 4)
    BY <1>0, <2>2, TakenBelow, Zenon
  <2> QED BY <2>1, <2>2, <2>3, ReduceApart
<1>9. CASE CloseElseIf
  <2>1. /\ TopIs(<<"inThen", "stmts", "if">>)
        /\ Reduce(3, "if", create_no("IF", NoName, Below(2).exprs, <<Below(1).no, Below(0).no>>))
    BY <1>9 DEF CloseElseIf
  <2>2. 3 \in 0..Len(stack) /\ 0 \in 0..3 - 1 /\ 1 \in 0..3 - 1
    BY <1>0, <2>1, TopThree
  <2>3. 1 # 0 => Taken(<<Below(1).no, Below(0).no>>, stack, 3)
    BY <1>0, <2>2, TakenBelow, Zenon
  <2> QED BY <2>1, <2>2, <2>3, ReduceApart
<1>10. CASE CloseFunction
  BY <1>10, CloseFunctionApart
<1>11. CASE StmtIf
  BY <1>11, StmtIfApart
<1> QED BY <1>2, <1>3, <1>4, <1>5, <1>6, <1>7, <1>8, <1>9, <1>10, <1>11 DEF Parse

-----------------------------------------------------------------------------
(* A graft inside the body of a function stays in it. *)
LEMMA GraftKids ==
  ASSUME Walking, Returns, Grafts, NEW D, Progress(tree, freed, root, frames, D),
         NEW T, FunctionsApart(tree, T)
  PROVE  /\ ActRoot \in DOMAIN tree /\ tree[ActRoot].type = "STMTS" /\ Grafted.type = "STMTS"
         /\ ActRoot \in T => \A k \in DOMAIN Grafted.kids : Grafted.kids[k] \in T \cup {0}
<1> DEFINE a == ActRoot
           b == ActOn
<1>1. /\ a \in DOMAIN tree /\ b \in DOMAIN tree /\ tree[a].type = "STMTS"
      /\ Len(tree[a].kids) = 2 /\ tree[a].kids[2] = b
      /\ Grafted.type = "STMTS" /\ Grafted.kids = <<tree[a].kids[1]>> \o tree[b].kids
  BY GraftFacts
<1>2. /\ tree[a] \in NodeRec /\ tree[b] \in NodeRec /\ b # 0
  <2>1. tree \in Seq(NodeRec)
    BY DEF Walking, ParseInv, TypeOK
  <2> HIDE DEF a, b
  <2> QED BY <1>1, <2>1
<1>3. /\ tree[a].kids \in Seq(Nat) /\ tree[b].kids \in Seq(Nat)
      /\ 1 \in DOMAIN tree[a].kids /\ 2 \in DOMAIN tree[a].kids
  <2>1. tree[a].kids \in Seq(Nat) /\ tree[b].kids \in Seq(Nat)
    BY <1>2 DEF NodeRec
  <2> HIDE DEF a, b
  <2> QED BY <1>1, <2>1
<1> HIDE DEF a, b
<1>4. ASSUME a \in T, NEW k \in DOMAIN Grafted.kids PROVE Grafted.kids[k] \in T \cup {0}
  <2>1. tree[a].kids[1] \in T \cup {0} /\ b \in T
    BY <1>1, <1>2, <1>3, <1>4 DEF FunctionsApart
  <2>2. \A j \in DOMAIN tree[b].kids : tree[b].kids[j] \in T \cup {0}
    BY <1>1, <2>1 DEF FunctionsApart
  <2>3. \/ Grafted.kids[k] = tree[a].kids[1]
        \/ \E j \in DOMAIN tree[b].kids : Grafted.kids[k] = tree[b].kids[j]
    <3> DEFINE x == tree[a].kids[1]
               s == tree[b].kids
    <3>1. x \in Nat /\ s \in Seq(Nat) /\ k \in DOMAIN (<<x>> \o s) /\ Grafted.kids[k] = (<<x>> \o s)[k]
      BY <1>1, <1>3
    <3> HIDE DEF x, s
    <3>2. (<<x>> \o s)[k] = x \/ \E j \in DOMAIN s : (<<x>> \o s)[k] = s[j]
      <4>1. k \in 1..1 + Len(s) /\ Len(s) \in Nat
        BY <3>1
      <4>2. CASE k = 1
        BY <3>1, <4>2
      <4>3. CASE k # 1
        <5>1. k - 1 \in DOMAIN s /\ (<<x>> \o s)[k] = s[k - 1]
          BY <3>1, <4>1, <4>3
        <5> QED BY <5>1
      <4> QED BY <4>2, <4>3
    <3> QED BY <3>1, <3>2 DEF x, s
  <2> QED BY <2>1, <2>2, <2>3
<1> QED BY <1>1, <1>4 DEF a

LEMMA InPlaceApart ==
  ASSUME Walking, NEW D, Progress(tree, freed, root, frames, D), GraftInPlace,
         NEW T, FunctionsApart(tree, T)
  PROVE  FunctionsApart(tree', T)
<1>1. Returns /\ Grafts /\ tree' = [tree EXCEPT ![ActRoot] = Grafted]
  BY DEF GraftInPlace
<1>2. /\ ActRoot \in DOMAIN tree /\ Grafted.type = "STMTS"
      /\ ActRoot \in T => \A k \in DOMAIN Grafted.kids : Grafted.kids[k] \in T \cup {0}
  BY <1>1, GraftKids
<1>3. /\ DOMAIN tree' = DOMAIN tree
      /\ \A n \in DOMAIN tree : tree'[n] = IF n = ActRoot THEN Grafted ELSE tree[n]
  BY <1>1
<1> QED BY <1>2, <1>3 DEF FunctionsApart

LEMMA SlotApart ==
  ASSUME NEW t \in Seq(NodeRec), NEW T, FunctionsApart(t, T),
         NEW p \in DOMAIN t, NEW i \in DOMAIN t[p].kids,
         t[p].kids[i] \in T \/ t[p].kids[i] \notin T \cup {0},
         NEW m, m = Len(t) + 1, NEW node, node.type = "STMTS",
         NEW U, U = IF t[p].kids[i] \in T THEN T \cup {m} ELSE T,
         t[p].kids[i] \in T => \A k \in DOMAIN node.kids : node.kids[k] \in T \cup {0}
  PROVE  FunctionsApart(Append([t EXCEPT ![p] = SetKid(@, i, m)], node), U)
<1> DEFINE new == SetKid(t[p], i, m)
           mid == [t EXCEPT ![p] = SetKid(@, i, m)]
           v == Append(mid, node)
<1>1. m \in Nat /\ t[p] \in NodeRec /\ m \notin DOMAIN t
  OBVIOUS
<1>2. /\ new \in NodeRec /\ new.type = t[p].type
      /\ new.kids = [t[p].kids EXCEPT ![i] = m] /\ DOMAIN new.kids = DOMAIN t[p].kids
  BY <1>1, SetKidNode
<1>3. mid = [t EXCEPT ![p] = new]
  BY Zenon
<1> HIDE DEF new, mid
<1>4. /\ mid \in Seq(NodeRec) /\ Len(mid) = Len(t) /\ DOMAIN mid = DOMAIN t
      /\ \A n \in DOMAIN t : mid[n] = IF n = p THEN new ELSE t[n]
  BY <1>2, <1>3
<1>5. /\ DOMAIN v = DOMAIN t \cup {m} /\ v[m] = node
      /\ \A n \in DOMAIN t : v[n] = mid[n]
  BY <1>1, <1>4
<1> HIDE DEF v
<1>6. /\ T \subseteq U /\ U \subseteq T \cup {m} /\ m \notin T
      /\ m \in U <=> t[p].kids[i] \in T
  BY <1>1 DEF FunctionsApart
<1>7. \A k \in DOMAIN new.kids : new.kids[k] = IF k = i THEN m ELSE t[p].kids[k]
  BY <1>1, <1>2 DEF NodeRec
<1>8. ASSUME NEW n \in DOMAIN t
      PROVE  /\ n \in U => v[n].type # "FUNC"
             /\ n \in U \/ v[n].type = "FUNC" =>
                  \A k \in DOMAIN v[n].kids : v[n].kids[k] \in U \cup {0}
  <2>1. v[n].type = t[n].type /\ (n \in U <=> n \in T)
    BY <1>1, <1>2, <1>4, <1>5, <1>6
  <2>2. /\ n \in T => t[n].type # "FUNC"
        /\ n \in T \/ t[n].type = "FUNC" => \A k \in DOMAIN t[n].kids : t[n].kids[k] \in T \cup {0}
    BY DEF FunctionsApart
  <2>3. CASE n = p
    <3>1. v[n] = new
      BY <1>4, <1>5, <2>3
    <3> QED BY <1>2, <1>6, <1>7, <2>1, <2>2, <2>3, <3>1
  <2>4. CASE n # p
    <3>1. v[n] = t[n]
      BY <1>4, <1>5, <2>4
    <3> QED BY <1>6, <2>1, <2>2, <3>1
  <2> QED BY <2>3, <2>4
<1>9. /\ m \in U => v[m].type # "FUNC"
      /\ m \in U \/ v[m].type = "FUNC" => \A k \in DOMAIN v[m].kids : v[m].kids[k] \in U \cup {0}
  BY <1>5, <1>6
<1>10. U \subseteq DOMAIN v
  BY <1>5, <1>6 DEF FunctionsApart
<1>11. FunctionsApart(v, U)
  BY <1>5, <1>8, <1>9, <1>10 DEF FunctionsApart
<1> QED BY <1>11 DEF v, mid

LEMMA MovedApart ==
  ASSUME Walking, NEW D, Progress(tree, freed, root, frames, D), GraftMoved,
         NEW T, FunctionsApart(tree, T)
  PROVE  \E U : FunctionsApart(tree', U)
<1> DEFINE a == ActRoot
           m == Len(tree) + 1
           d == Len(frames) - 1
           p == frames[d - 1].r
           i == frames[d - 1].i
           U == IF a \in T THEN T \cup {m} ELSE T
<1>1. /\ Returns /\ Grafts
      /\ tree' = Append(IF d = 1 THEN tree ELSE [tree EXCEPT ![p] = SetKid(@, i, m)], Grafted)
  BY DEF GraftMoved
<1>2. /\ a \in DOMAIN tree /\ tree[a].type = "STMTS" /\ Grafted.type = "STMTS"
      /\ a \in T => \A k \in DOMAIN Grafted.kids : Grafted.kids[k] \in T \cup {0}
  BY <1>1, GraftKids
<1>3. tree \in Seq(NodeRec) /\ a # 0
  BY <1>2, WalkFacts
<1>4. CASE d = 1
  <2>1. tree' = Append(tree, Grafted)
    BY <1>1, <1>4
  <2>2. U = T \/ (U = T \cup {Len(tree) + 1} /\ Grafted.type # "FUNC")
    BY <1>2
  <2>3. Len(tree) + 1 \in U => a \in T
    <3>1. Len(tree) + 1 \notin DOMAIN tree
      BY <1>3
    <3>2. Len(tree) + 1 \notin T
      BY <3>1 DEF FunctionsApart
    <3> QED BY <3>2
  <2> HIDE DEF a, d, U
  <2> QED BY <1>2, <1>3, <2>1, <2>2, <2>3, ApartMore
<1>5. CASE d # 1
  <2>1. /\ d - 1 \in DOMAIN frames /\ d - 1 < Len(frames) /\ d \in DOMAIN frames
    <3> DEFINE l == Len(frames)
    <3>1. l \in Nat /\ l > 1 /\ l - 1 # 1 /\ d = l - 1 /\ DOMAIN frames = 1..l
      BY <1>1, <1>5, WalkFacts DEF Returns
    <3> HIDE DEF d, l
    <3>2. d - 1 \in 1..l /\ d - 1 < l /\ d \in 1..l
      BY <3>1
    <3> QED BY <3>1, <3>2 DEF l
  <2>2. p \in DOMAIN tree /\ i \in DOMAIN tree[p].kids
    <3> DEFINE c == d - 1
    <3>1. c \in DOMAIN frames /\ c < Len(frames)
      BY <2>1
    <3> HIDE DEF c
    <3>2. frames[c].r \in DOMAIN tree /\ frames[c].i \in DOMAIN tree[frames[c].r].kids
      BY <3>1, WaitingLive
    <3> QED BY <3>2 DEF c
  <2>3. tree[p].kids[i] = a
    <3>1. a = SlotIn(tree, root, frames, d)
      BY SlotIs DEF ActRoot
    <3> QED BY <1>5, <3>1 DEF SlotIn
  <2>4. tree' = Append([tree EXCEPT ![p] = SetKid(@, i, m)], Grafted)
    BY <1>1, <1>5
  <2>5. a \in T \/ a \notin T \cup {0}
    BY <1>3
  <2>6. FunctionsApart(Append([tree EXCEPT ![p] = SetKid(@, i, m)], Grafted), U)
    <3>1. m = Len(tree) + 1 /\ U = IF tree[p].kids[i] \in T THEN T \cup {m} ELSE T
      BY <2>3
    <3> HIDE DEF a, p, i, m, U
    <3> QED BY <1>2, <1>3, <2>2, <2>3, <2>5, <3>1, SlotApart
  <2> QED BY <2>4, <2>6
<1> QED BY <1>4, <1>5

LEMMA PassApart ==
  ASSUME ParseInv, HeapInv, Analyse, NEW T, FunctionsApart(tree, T)
  PROVE  \E U : FunctionsApart(tree', U)
<1>1. CASE GraftInPlace \/ GraftMoved
  <2>1. phase = "collapse" /\ PassPhase
    BY <1>1 DEF GraftInPlace, GraftMoved, PassPhase
  <2>2. Walking
    BY <2>1, WalkingNow
  <2>3. PICK D : Progress(tree, freed, root, frames, D)
    BY <2>1 DEF HeapInv
  <2> QED BY <1>1, <2>2, <2>3, InPlaceApart, MovedApart
<1>2. CASE VisitRoot \/ VisitKid \/ NoGraft \/ Declare \/ PassDone
  <2>1. tree' = tree
    BY <1>2 DEF VisitRoot, VisitKid, Enter, Wild, NoGraft, Declare, PassDone
  <2> QED BY <2>1
<1> QED BY <1>1, <1>2 DEF Analyse

-----------------------------------------------------------------------------
(* The blocks of a function. *)
InFunc(bs, b, f) == b \in DOMAIN bs /\ bs[b].func = f
StaysIn(bs, code, f) ==
  \A k \in DOMAIN code : \A t \in ToSet(code[k].to) : InFunc(bs, t, f)
BranchesIn(bs) == \A b \in DOMAIN bs : StaysIn(bs, bs[b].code, bs[b].func)

(* The blocks that new has of bs are in the functions they were in. *)
Extends(bs, new) ==
  /\ new \in Seq(Block) /\ Len(new) \in Nat
  /\ \A b, f : InFunc(bs, b, f) => InFunc(new, b, f)

LEMMA ExtendsStays ==
  ASSUME NEW bs, NEW new, Extends(bs, new), NEW code, NEW f, StaysIn(bs, code, f)
  PROVE  StaysIn(new, code, f)
BY DEF Extends, StaysIn

LEMMA ExtendsSame == ASSUME NEW bs \in Seq(Block) PROVE Extends(bs, bs)
BY DEF Extends

LEMMA ExtendsMore ==
  ASSUME NEW a, NEW b, NEW c, Extends(a, b), Extends(b, c)
  PROVE  Extends(a, c)
BY DEF Extends

LEMMA NewBlockIn ==
  ASSUME NEW bs \in Seq(Block), BranchesIn(bs), NEW f \in Nat, NEW n, n = Len(bs) + 1
  PROVE  /\ Extends(bs, NewBlock(bs, f)) /\ BranchesIn(NewBlock(bs, f))
         /\ InFunc(NewBlock(bs, f), n, f) /\ Len(NewBlock(bs, f)) = n /\ n \in Nat /\ n # 0
<1> DEFINE x == [func |-> f, code |-> <<>>]
           new == Append(bs, x)
<1>1. x \in Block /\ x.func = f /\ x.code = <<>>
  BY DEF Block
<1> HIDE DEF x
<1>2. /\ new \in Seq(Block) /\ Len(new) = n /\ n \in Nat /\ n # 0
      /\ DOMAIN new = DOMAIN bs \cup {n} /\ new[n] = x
      /\ \A b \in DOMAIN bs : new[b] = bs[b]
  BY <1>1
<1> HIDE DEF new
<1>3. Extends(bs, new) /\ InFunc(new, n, f)
  BY <1>1, <1>2 DEF Extends, InFunc
<1>4. ASSUME NEW b \in DOMAIN new PROVE StaysIn(new, new[b].code, new[b].func)
  <2>1. CASE b \in DOMAIN bs
    <3>1. StaysIn(bs, bs[b].code, bs[b].func) /\ new[b] = bs[b]
      BY <1>2, <2>1 DEF BranchesIn
    <3> QED BY <1>3, <3>1, ExtendsStays
  <2>2. CASE b = n
    BY <1>1, <1>2, <2>2 DEF StaysIn
  <2> QED BY <1>2, <2>1, <2>2
<1>5. BranchesIn(new)
  BY <1>4 DEF BranchesIn
<1>6. NewBlock(bs, f) = new
  BY DEF NewBlock, new, x
<1> QED BY <1>2, <1>3, <1>5, <1>6

LEMMA StaysConcat ==
  ASSUME NEW bs, NEW f, NEW c \in Seq(Instr), NEW d \in Seq(Instr),
         StaysIn(bs, c, f), StaysIn(bs, d, f)
  PROVE  c \o d \in Seq(Instr) /\ StaysIn(bs, c \o d, f)
<1> DEFINE e == c \o d
<1>1. /\ e \in Seq(Instr)
      /\ \A k \in DOMAIN e : \/ k \in DOMAIN c /\ e[k] = c[k]
                             \/ \E j \in DOMAIN d : e[k] = d[j]
  <2>1. e \in Seq(Instr) /\ Len(c) \in Nat /\ Len(d) \in Nat /\ DOMAIN e = 1..Len(c) + Len(d)
    OBVIOUS
  <2>2. \A k \in 1..Len(c) : e[k] = c[k]
    OBVIOUS
  <2>3. \A k \in DOMAIN e : k \notin 1..Len(c) => k - Len(c) \in DOMAIN d /\ e[k] = d[k - Len(c)]
    BY <2>1
  <2> HIDE DEF e
  <2>4. DOMAIN c = 1..Len(c)
    OBVIOUS
  <2> QED BY <2>1, <2>2, <2>3, <2>4
<1> HIDE DEF e
<1>2. StaysIn(bs, e, f)
  BY <1>1 DEF StaysIn
<1> QED BY <1>1, <1>2 DEF e

LEMMA StaysOne ==
  ASSUME NEW bs, NEW f, NEW op \in InstrOp, NEW no \in Nat, NEW uses \in SUBSET Value,
         NEW to \in Seq(Nat), \A t \in ToSet(to) : InFunc(bs, t, f)
  PROVE  <<I(op, no, uses, to)>> \in Seq(Instr) /\ StaysIn(bs, <<I(op, no, uses, to)>>, f)
<1> DEFINE i == I(op, no, uses, to)
<1>1. i \in Instr /\ i.to = to
  BY DEF I, Instr
<1> HIDE DEF i
<1>2. <<i>> \in Seq(Instr) /\ DOMAIN <<i>> = {1} /\ <<i>>[1] = i
  BY <1>1
<1>3. StaysIn(bs, <<i>>, f)
  BY <1>1, <1>2 DEF StaysIn
<1> QED BY <1>2, <1>3 DEF i

LEMMA EmitIn ==
  ASSUME NEW bs \in Seq(Block), BranchesIn(bs), NEW b, NEW f, InFunc(bs, b, f),
         NEW code \in Seq(Instr), StaysIn(bs, code, f)
  PROVE  /\ Extends(bs, Emit(bs, b, code)) /\ BranchesIn(Emit(bs, b, code))
         /\ Len(Emit(bs, b, code)) = Len(bs)
<1> DEFINE new == Emit(bs, b, code)
<1>1. b \in DOMAIN bs /\ bs[b].func = f /\ bs[b].code \in Seq(Instr)
  <2>1. b \in DOMAIN bs /\ bs[b].func = f
    BY DEF InFunc
  <2>2. bs[b] \in Block
    BY <2>1
  <2> QED BY <2>1, <2>2 DEF Block
<1>2. /\ new \in Seq(Block) /\ DOMAIN new = DOMAIN bs /\ Len(new) = Len(bs) /\ Len(bs) \in Nat
      /\ new[b].code = bs[b].code \o code
      /\ \A c \in DOMAIN bs : c # b => new[c] = bs[c]
  BY <1>1, EmitBlocks
<1>3. new[b].func = f
  <2> DEFINE c == bs[b].code \o code
             x == [bs[b] EXCEPT !.code = c]
  <2>1. bs[b] \in Block
    BY <1>1
  <2>2. new = [bs EXCEPT ![b] = x]
    BY Zenon DEF Emit
  <2>3. x.func = f
    <3> HIDE DEF c
    <3> QED BY <1>1, <2>1 DEF Block
  <2> HIDE DEF x, new
  <2> QED BY <1>1, <2>2, <2>3
<1> HIDE DEF new
<1>4. Extends(bs, new)
  BY <1>1, <1>2, <1>3 DEF Extends, InFunc
<1>5. StaysIn(bs, bs[b].code \o code, f)
  BY <1>1, StaysConcat DEF BranchesIn
<1>6. ASSUME NEW c \in DOMAIN new PROVE StaysIn(new, new[c].code, new[c].func)
  <2>1. CASE c = b
    BY <1>2, <1>3, <1>4, <1>5, <2>1, ExtendsStays
  <2>2. CASE c # b
    <3>1. StaysIn(bs, bs[c].code, bs[c].func) /\ new[c] = bs[c]
      BY <1>2, <2>2 DEF BranchesIn
    <3> QED BY <1>4, <3>1, ExtendsStays
  <2> QED BY <2>1, <2>2
<1>7. BranchesIn(new)
  BY <1>6 DEF BranchesIn
<1> QED BY <1>2, <1>4, <1>7 DEF new

(* The code of an expression leads nowhere else. *)
LEMMA StaysEval ==
  ASSUME NEW no \in Nat, NEW node \in NodeRec, NEW env \in [Name -> Value], NEW bs, NEW f
  PROVE  EvalCode(no, node, env) \in Seq(Instr) /\ StaysIn(bs, EvalCode(no, node, env), f)
<1>1. CASE node.exprs = <<>>
  BY <1>1 DEF EvalCode, StaysIn
<1>2. CASE node.exprs # <<>>
  <2> DEFINE uses == {env[v] : v \in ReadSet(node)}
  <2>1. uses \in SUBSET Value
    BY NamesOf
  <2>2. "eval" \in InstrOp /\ <<>> \in Seq(Nat) /\ \A t \in ToSet(<<>>) : InFunc(bs, t, f)
    BY DEF InstrOp, ToSet
  <2>3. EvalCode(no, node, env) = <<I("eval", no, uses, <<>>)>>
    BY <1>2 DEF EvalCode
  <2> HIDE DEF uses
  <2> QED BY <2>1, <2>2, <2>3, StaysOne
<1> QED BY <1>1, <1>2

-----------------------------------------------------------------------------
(* The calls of generate_llvm_nodes: the blocks that a call holds are in    *)
(* the function of the definition that it was made for, the one that        *)
(* current_func names, or in main.                                          *)
IsFuncCall(f) == f.k = "func"
FuncCall(w) == \E j \in DOMAIN w : IsFuncCall(w[j])
Under(w, k) == \E j \in DOMAIN w : j < k /\ IsFuncCall(w[j])
HomeOf(w, k, f) == IF Under(w, k) THEN f ELSE main_func

(* The blocks in the local variables of a call. *)
Own(f) == CASE f.k = "list" -> {f.b1} \ {0}
            [] f.k = "while" -> {f.b1, f.b2}
            [] f.k = "then" -> {f.b1} \cup ({f.b2} \ {0})
            [] OTHER -> {f.b1}

OwnIn(bs, f, home) == \A b \in Own(f) : InFunc(bs, b, home)
CallsApart(w, T, bs, f) ==
  /\ FuncCall(w) \/ f = main_func
  /\ \A i, j \in DOMAIN w : IsFuncCall(w[i]) /\ IsFuncCall(w[j]) => i = j
  /\ \A k \in DOMAIN w : Under(w, k) => w[k].no \in T
  /\ \A k \in DOMAIN w : OwnIn(bs, w[k], HomeOf(w, k, f))

Working(T) ==
  /\ CallsApart(work, T, blocks, current_func)
  /\ InFunc(blocks, insert, current_func)
  /\ pending.do = "gen" /\ FuncCall(work) => pending.no \in T \cup {0}
  /\ pending.block # 0 => InFunc(blocks, pending.block, current_func)

LEMMA OwnStays ==
  ASSUME NEW bs, NEW new, Extends(bs, new), NEW f, NEW home, OwnIn(bs, f, home)
  PROVE  OwnIn(new, f, home)
BY DEF OwnIn, Extends

(* With one call more the others are where they were. *)
LEMMA UnderAppend ==
  ASSUME NEW w \in Seq(WorkFrame), NEW f \in WorkFrame, NEW u, u = Append(w, f)
  PROVE  /\ \A k \in DOMAIN w : Under(u, k) <=> Under(w, k)
         /\ Under(u, Len(w) + 1) <=> FuncCall(w)
         /\ FuncCall(u) <=> FuncCall(w) \/ IsFuncCall(f)
<1> DEFINE n == Len(w) + 1
<1>1. /\ DOMAIN w = 1..Len(w) /\ DOMAIN u = 1..n /\ Len(w) \in Nat
      /\ \A k \in DOMAIN w : k \in DOMAIN u /\ u[k] = w[k]
      /\ u[n] = f
  BY AppendFacts
<1>2. /\ n \in DOMAIN u /\ \A k \in DOMAIN w : k < n /\ ~(n < k)
      /\ \A k \in DOMAIN u : k \in DOMAIN w \/ k = n
      /\ ~(n < n)
  BY <1>1
<1> HIDE DEF n
<1>3. \A k \in DOMAIN w : Under(u, k) <=> Under(w, k)
  BY <1>1, <1>2 DEF Under
<1>4. Under(u, n) <=> FuncCall(w)
  BY <1>1, <1>2 DEF Under, FuncCall
<1>5. FuncCall(u) <=> FuncCall(w) \/ IsFuncCall(f)
  BY <1>1, <1>2 DEF FuncCall
<1> QED BY <1>3, <1>4, <1>5 DEF n

LEMMA CallsSame ==
  ASSUME NEW w, NEW T, NEW bs, NEW f, CallsApart(w, T, bs, f), NEW new, Extends(bs, new)
  PROVE  CallsApart(w, T, new, f)
BY OwnStays DEF CallsApart

LEMMA CallsPush ==
  ASSUME NEW w \in Seq(WorkFrame), NEW T, NEW bs, NEW f, CallsApart(w, T, bs, f),
         NEW new, Extends(bs, new), NEW call \in WorkFrame, ~IsFuncCall(call),
         FuncCall(w) => call.no \in T, OwnIn(new, call, f)
  PROVE  CallsApart(Append(w, call), T, new, f)
<1> DEFINE u == Append(w, call)
           n == Len(w) + 1
<1>1. /\ DOMAIN w = 1..Len(w) /\ DOMAIN u = 1..n /\ Len(w) \in Nat
      /\ \A k \in DOMAIN w : k \in DOMAIN u /\ u[k] = w[k]
      /\ u[n] = call
  BY AppendFacts
<1>2. /\ \A k \in DOMAIN w : Under(u, k) <=> Under(w, k)
      /\ Under(u, n) <=> FuncCall(w)
      /\ FuncCall(u) <=> FuncCall(w)
  BY UnderAppend
<1>3. \A k \in DOMAIN u : k \in DOMAIN w \/ k = n
  BY <1>1
<1> HIDE DEF u, n
<1>4. CallsApart(w, T, new, f)
  BY CallsSame
<1>5. \A i, j \in DOMAIN u : IsFuncCall(u[i]) /\ IsFuncCall(u[j]) => i = j
  BY <1>1, <1>3, <1>4 DEF CallsApart
<1>6. \A k \in DOMAIN u : Under(u, k) => u[k].no \in T
  BY <1>1, <1>2, <1>3, <1>4 DEF CallsApart
<1>7. ASSUME NEW k \in DOMAIN u PROVE OwnIn(new, u[k], HomeOf(u, k, f))
  <2>1. CASE k \in DOMAIN w
    BY <1>1, <1>2, <1>4, <2>1 DEF CallsApart, HomeOf
  <2>2. CASE k = n
    <3>1. HomeOf(u, k, f) = f
      BY <1>2, <1>4, <2>2 DEF CallsApart, HomeOf
    <3> QED BY <1>1, <2>2, <3>1
  <2> QED BY <1>3, <2>1, <2>2
<1>8. CallsApart(u, T, new, f)
  BY <1>2, <1>4, <1>5, <1>6, <1>7 DEF CallsApart
<1> QED BY <1>8 DEF u

(* A definition in main: its call holds the block of main to go back to.    *)
LEMMA CallsEnter ==
  ASSUME NEW w \in Seq(WorkFrame), NEW T, NEW bs, NEW f, CallsApart(w, T, bs, f), ~FuncCall(w),
         NEW new, Extends(bs, new), NEW call \in WorkFrame, IsFuncCall(call),
         OwnIn(new, call, f), NEW entry
  PROVE  CallsApart(Append(w, call), T, new, entry)
<1> DEFINE u == Append(w, call)
           n == Len(w) + 1
<1>1. /\ DOMAIN w = 1..Len(w) /\ DOMAIN u = 1..n /\ Len(w) \in Nat
      /\ \A k \in DOMAIN w : k \in DOMAIN u /\ u[k] = w[k]
      /\ u[n] = call
  BY AppendFacts
<1>2. /\ \A k \in DOMAIN w : Under(u, k) <=> Under(w, k)
      /\ ~Under(u, n) /\ FuncCall(u)
  BY UnderAppend
<1>3. \A k \in DOMAIN u : k \in DOMAIN w \/ k = n
  BY <1>1
<1> HIDE DEF u, n
<1>4. CallsApart(w, T, new, f) /\ f = main_func
  BY CallsSame DEF CallsApart
<1>5. \A k \in DOMAIN w : ~IsFuncCall(w[k]) /\ ~Under(w, k)
  BY DEF FuncCall, Under
<1>6. \A i, j \in DOMAIN u : IsFuncCall(u[i]) /\ IsFuncCall(u[j]) => i = j
  BY <1>1, <1>3, <1>5
<1>7. \A k \in DOMAIN u : ~Under(u, k)
  BY <1>2, <1>3, <1>5
<1>8. ASSUME NEW k \in DOMAIN u PROVE OwnIn(new, u[k], HomeOf(u, k, entry))
  <2>1. HomeOf(u, k, entry) = main_func
    BY <1>7 DEF HomeOf
  <2>2. CASE k \in DOMAIN w
    BY <1>1, <1>4, <1>5, <2>1, <2>2 DEF CallsApart, HomeOf
  <2>3. CASE k = n
    BY <1>1, <1>4, <2>1, <2>3
  <2> QED BY <1>3, <2>2, <2>3
<1>9. CallsApart(u, T, new, entry)
  BY <1>2, <1>6, <1>7, <1>8 DEF CallsApart
<1> QED BY <1>9 DEF u

(* The calls without the one that ends, and the blocks it held. *)
LEMMA CallsPop ==
  ASSUME NEW w \in Seq(WorkFrame), NEW call \in WorkFrame, NEW u, u = Append(w, call),
         NEW T, NEW bs, NEW f, CallsApart(u, T, bs, f)
  PROVE  /\ ~IsFuncCall(call) => /\ CallsApart(w, T, bs, f) /\ OwnIn(bs, call, f)
                                 /\ FuncCall(u) <=> FuncCall(w)
                                 /\ FuncCall(w) => call.no \in T
         /\ IsFuncCall(call) => /\ CallsApart(w, T, bs, main_func) /\ OwnIn(bs, call, main_func)
                                /\ ~FuncCall(w)
<1> DEFINE n == Len(w) + 1
<1>1. /\ DOMAIN w = 1..Len(w) /\ DOMAIN u = 1..n /\ Len(w) \in Nat
      /\ \A k \in DOMAIN w : k \in DOMAIN u /\ u[k] = w[k]
      /\ u[n] = call
  BY AppendFacts
<1>2. /\ \A k \in DOMAIN w : Under(u, k) <=> Under(w, k)
      /\ Under(u, n) <=> FuncCall(w)
      /\ FuncCall(u) <=> FuncCall(w) \/ IsFuncCall(call)
  BY UnderAppend
<1>3. n \in DOMAIN u /\ n \notin DOMAIN w
  BY <1>1
<1> HIDE DEF n
<1>4. \A i, j \in DOMAIN w : IsFuncCall(w[i]) /\ IsFuncCall(w[j]) => i = j
  BY <1>1 DEF CallsApart
<1>5. \A k \in DOMAIN w : Under(w, k) => w[k].no \in T
  BY <1>1, <1>2 DEF CallsApart
<1>6. \A k \in DOMAIN w : OwnIn(bs, w[k], HomeOf(w, k, f))
  BY <1>1, <1>2 DEF CallsApart, HomeOf
<1>7. OwnIn(bs, call, HomeOf(u, n, f))
  BY <1>1, <1>3 DEF CallsApart
<1>8. CASE ~IsFuncCall(call)
  <2>1. HomeOf(u, n, f) = f
    BY <1>2, <1>8 DEF CallsApart, HomeOf
  <2>2. FuncCall(w) => call.no \in T
    BY <1>1, <1>2, <1>3 DEF CallsApart
  <2> QED BY <1>2, <1>4, <1>5, <1>6, <1>7, <1>8, <2>1, <2>2 DEF CallsApart
<1>9. CASE IsFuncCall(call)
  <2>1. ~FuncCall(w)
    BY <1>1, <1>3, <1>9 DEF CallsApart, FuncCall
  <2>2. HomeOf(u, n, f) = main_func /\ \A k \in DOMAIN w : ~Under(w, k)
    BY <1>2, <2>1 DEF HomeOf, Under, FuncCall
  <2>3. \A k \in DOMAIN w : HomeOf(w, k, f) = main_func /\ HomeOf(w, k, main_func) = main_func
    BY <2>2 DEF HomeOf
  <2> QED BY <1>4, <1>5, <1>6, <1>7, <1>9, <2>1, <2>2, <2>3 DEF CallsApart
<1> QED BY <1>8, <1>9

-----------------------------------------------------------------------------
(* The steps of the code generator. *)
WorkApart(T) == GenInv /\ FunctionsApart(tree, T) /\ Working(T) /\ BranchesIn(blocks)
ApartGen(T) == Working(T)' /\ BranchesIn(blocks')

LEMMA SettleApart ==
  ASSUME NEW T, NEW w, work' = w, CallsApart(w, T, blocks', current_func'),
         InFunc(blocks', insert', current_func'), BranchesIn(blocks'),
         \/ \E no : pending' = Gen(no) /\ (FuncCall(w) => no \in T \cup {0})
         \/ \E b : pending' = Ret(b) /\ (b # 0 => InFunc(blocks', b, current_func'))
  PROVE  ApartGen(T)
<1>1. CASE \E no : pending' = Gen(no) /\ (FuncCall(w) => no \in T \cup {0})
  <2>1. PICK no : pending' = Gen(no) /\ (FuncCall(w) => no \in T \cup {0})
    BY <1>1
  <2>2. pending'.no = no /\ pending'.block = 0
    BY <2>1 DEF Gen
  <2> QED BY <2>1, <2>2 DEF ApartGen, Working
<1>2. CASE \E b : pending' = Ret(b) /\ (b # 0 => InFunc(blocks', b, current_func'))
  <2>1. PICK b : pending' = Ret(b) /\ (b # 0 => InFunc(blocks', b, current_func'))
    BY <1>2
  <2>2. pending'.do = "ret" /\ pending'.block = b
    BY <2>1 DEF Ret
  <2> QED BY <2>1, <2>2 DEF ApartGen, Working
<1> QED BY <1>1, <1>2

LEMMA ReadyFacts ==
  ASSUME NEW T, WorkApart(T)
  PROVE  /\ work \in Seq(WorkFrame) /\ blocks \in Seq(Block) /\ Len(blocks) \in Nat
         /\ current_func \in Nat /\ tree \in Seq(NodeRec)
         /\ CallsApart(work, T, blocks, current_func)
         /\ InFunc(blocks, insert, current_func) /\ BranchesIn(blocks)
         /\ pending.block # 0 => InFunc(blocks, pending.block, current_func)
         /\ \A b, f : InFunc(blocks, b, f) => b \in Nat
<1>1. blocks \in Seq(Block)
  BY GenFacts DEF Blocks, WorkApart
<1>2. \A b, f : InFunc(blocks, b, f) => b \in Nat
  BY <1>1 DEF InFunc
<1> QED BY <1>1, <1>2, GenFacts DEF WorkApart, Working

(* When a call for a node begins in a function, the node is of its body. *)
LEMMA CalledApart ==
  ASSUME NEW T, WorkApart(T), NEW types, Called(types)
  PROVE  /\ No \in Nat /\ N \in NodeRec /\ N.type \in types
         /\ FuncCall(work) => /\ No \in T /\ N.type # "FUNC"
                              /\ \A k \in DOMAIN N.kids : N.kids[k] \in T \cup {0}
         /\ N.type \in BodyType \cup {"WHILE", "FUNC"} => 1 \in DOMAIN N.kids
         /\ N.type = "FUNC" => \A k \in DOMAIN N.kids : N.kids[k] \in T \cup {0}
<1>1. /\ No \in DOMAIN tree /\ No \in Nat /\ N \in NodeRec /\ NodeShape(tree, N) /\ N.type \in types
  BY CalledFacts DEF WorkApart
<1>2. pending.do = "gen" /\ No = pending.no /\ No # 0 /\ N = tree[No]
  BY DEF Called, No, N
<1>3. FuncCall(work) => No \in T
  BY <1>2 DEF WorkApart, Working
<1>4. N.type \in BodyType \cup {"WHILE", "FUNC"} => 1 \in DOMAIN N.kids
  <2>1. N.kids \in Seq(Nat)
    BY <1>1 DEF NodeRec
  <2>2. N.type \in BodyType \cup {"WHILE", "FUNC"} => N.kids # <<>>
    BY <1>1 DEF NodeShape
  <2> QED BY <2>1, <2>2
<1>5. /\ No \in T => N.type # "FUNC"
      /\ No \in T \/ N.type = "FUNC" => \A k \in DOMAIN N.kids : N.kids[k] \in T \cup {0}
  BY <1>1, <1>2 DEF WorkApart, FunctionsApart
<1> QED BY <1>1, <1>3, <1>4, <1>5

Inside(no, T) == no \in T /\ \A k \in DOMAIN tree[no].kids : tree[no].kids[k] \in T \cup {0}

(* When one is back in its caller, that one's blocks are of the function. *)
LEMMA BackApart ==
  ASSUME NEW T, WorkApart(T), NEW kind, Back(kind),
         NEW w, w = SubSeq(work, 1, Len(work) - 1), NEW f, f = CurrentFrame
  PROVE  /\ w \in Seq(WorkFrame) /\ f \in WorkFrame /\ f.k = kind /\ work = Append(w, f)
         /\ f.no \in DOMAIN tree
         /\ kind # "func" =>
              /\ CallsApart(w, T, blocks, current_func) /\ OwnIn(blocks, f, current_func)
              /\ FuncCall(w) => Inside(f.no, T)
         /\ kind = "func" => CallsApart(w, T, blocks, main_func) /\ OwnIn(blocks, f, main_func)
<1>1. w \in Seq(WorkFrame) /\ f \in WorkFrame /\ f.k = kind /\ work = Append(w, f) /\ f.no \in DOMAIN tree
  <2>1. GenInv
    BY DEF WorkApart
  <2>2. w \in Seq(WorkFrame) /\ f \in WorkFrame /\ f.k = kind /\ work = Append(w, f) /\ FrameOn(f, w)
    BY <2>1, BackFacts
  <2> QED BY <2>2 DEF FrameOn
<1>2. CallsApart(work, T, blocks, current_func)
  BY ReadyFacts
<1>3. IsFuncCall(f) <=> kind = "func"
  BY <1>1 DEF IsFuncCall
<1>4. /\ kind # "func" => /\ CallsApart(w, T, blocks, current_func) /\ OwnIn(blocks, f, current_func)
                          /\ FuncCall(w) => f.no \in T
      /\ kind = "func" => CallsApart(w, T, blocks, main_func) /\ OwnIn(blocks, f, main_func)
  BY <1>1, <1>2, <1>3, CallsPop
<1>5. f.no \in T => \A k \in DOMAIN tree[f.no].kids : tree[f.no].kids[k] \in T \cup {0}
  BY <1>1 DEF WorkApart, FunctionsApart
<1> QED BY <1>1, <1>4, <1>5 DEF Inside

LEMMA Pushed ==
  ASSUME NEW w \in Seq(WorkFrame), NEW f, Append(w, f) \in Seq(WorkFrame)
  PROVE  f \in WorkFrame
<1> DEFINE u == Append(w, f)
<1>1. Len(u) = Len(w) + 1 /\ u[Len(w) + 1] = f /\ Len(w) + 1 \in DOMAIN u
  OBVIOUS
<1>2. u \in Seq(WorkFrame)
  OBVIOUS
<1> HIDE DEF u
<1>3. u[Len(w) + 1] \in WorkFrame
  BY <1>1, <1>2
<1> QED BY <1>1, <1>3

LEMMA StraightApart ==
  ASSUME NEW T, WorkApart(T), NEW code \in Seq(Instr), StaysIn(blocks, code, current_func),
         blocks' = Emit(blocks, insert, code), pending' = Ret(0),
         UNCHANGED <<insert, current_func, work>>
  PROVE  ApartGen(T)
<1>1. /\ Extends(blocks, blocks') /\ BranchesIn(blocks')
  BY ReadyFacts, EmitIn
<1>2. CallsApart(work, T, blocks', current_func)
  BY <1>1, ReadyFacts, CallsSame
<1>3. InFunc(blocks', insert', current_func')
  BY <1>1, ReadyFacts DEF Extends
<1>4. \E b : pending' = Ret(b) /\ (b # 0 => InFunc(blocks', b, current_func'))
  OBVIOUS
<1> QED BY <1>1, <1>2, <1>3, <1>4, SettleApart

LEMMA SimpleApart ==
  ASSUME NEW T, WorkApart(T), GenOut \/ GenDelay \/ GenPrnt \/ GenCall
  PROVE  ApartGen(T)
<1>1. PICK type \in LeafType, op \in InstrOp, uses \in SUBSET Value : GenSimple(type, op, uses)
  <2>1. {"OUT", "DELAY", "PRNT", "CALL"} \subseteq LeafType
        /\ {"out", "delay", "print", "call"} \subseteq InstrOp
    BY DEF LeafType, InstrOp
  <2>2. ASSUME NEW type \in {"PRNT", "CALL"}, NEW op, GenSimple(type, op, {Env[N.name]})
        PROVE  {Env[N.name]} \in SUBSET Value
    <3>1. Called({type})
      BY <2>2 DEF GenSimple
    <3>2. NodeShape(tree, N) /\ N.type = type
      BY <3>1, CalledFacts DEF WorkApart
    <3>3. N.name \in Name
      BY <3>2 DEF NodeShape, NamedType
    <3> QED BY <3>3, EnvType DEF WorkApart
  <2>3. CASE GenOut
    BY <2>1, <2>3 DEF GenOut
  <2>4. CASE GenDelay
    BY <2>1, <2>4 DEF GenDelay
  <2>5. CASE GenPrnt
    <3>1. GenSimple("PRNT", "print", {Env[N.name]})
      BY <2>5 DEF GenPrnt
    <3> QED BY <2>1, <2>2, <3>1
  <2>6. CASE GenCall
    <3>1. GenSimple("CALL", "call", {Env[N.name]})
      BY <2>6 DEF GenCall
    <3> QED BY <2>1, <2>2, <3>1
  <2> QED BY <2>3, <2>4, <2>5, <2>6
<1> DEFINE eval == EvalCode(No, N, Env)
           last == <<I(op, No, uses, <<>>)>>
           code == eval \o last
<1>2. /\ Called({type}) /\ blocks' = Emit(blocks, insert, code) /\ pending' = Ret(0)
      /\ UNCHANGED <<insert, current_func, work>>
  BY <1>1 DEF GenSimple
<1>3. No \in Nat /\ N \in NodeRec
  BY <1>2, CalledApart
<1>4. eval \in Seq(Instr) /\ StaysIn(blocks, eval, current_func)
  BY <1>3, EnvType, StaysEval DEF WorkApart
<1>5. last \in Seq(Instr) /\ StaysIn(blocks, last, current_func)
  <2>1. <<>> \in Seq(Nat) /\ \A t \in ToSet(<<>>) : InFunc(blocks, t, current_func)
    BY DEF ToSet
  <2> QED BY <1>3, <2>1, StaysOne
<1> HIDE DEF eval, last
<1>6. code \in Seq(Instr) /\ StaysIn(blocks, code, current_func)
  BY <1>4, <1>5, StaysConcat
<1> HIDE DEF code
<1> QED BY <1>2, <1>6, StraightApart

LEMMA GenAttrApart == ASSUME NEW T, WorkApart(T), GenAttr PROVE ApartGen(T)
<1> DEFINE made == IF Fresh THEN {Variable.kind} ELSE {}
           alloca == <<I("alloca", No, {Variable}, <<>>)>>
           slot == IF "local" \in made THEN alloca ELSE <<>>
           eval == EvalCode(No, N, AttrEnv)
           store == <<I("store", No, {Variable}, <<>>)>>
           code == slot \o eval \o store
<1>1. /\ Called({"ATTR"}) /\ blocks' = Emit(blocks, insert, code) /\ pending' = Ret(0)
      /\ UNCHANGED <<insert, current_func, work>>
  BY DEF GenAttr
<1>2. No \in Nat /\ N \in NodeRec
  BY <1>1, CalledApart
<1>3. {Variable} \in SUBSET Value /\ AttrEnv \in [Name -> Value]
  <2>1. "ATTR" \in NamedType
    BY DEF NamedType
  <2> QED BY <1>1, <2>1, AttrValue DEF WorkApart
<1>4. <<>> \in Seq(Nat) /\ \A t \in ToSet(<<>>) : InFunc(blocks, t, current_func)
  BY DEF ToSet
<1>5. /\ alloca \in Seq(Instr) /\ StaysIn(blocks, alloca, current_func)
      /\ store \in Seq(Instr) /\ StaysIn(blocks, store, current_func)
  <2>1. {"alloca", "store"} \subseteq InstrOp
    BY DEF InstrOp
  <2> QED BY <1>2, <1>3, <1>4, <2>1, StaysOne
<1>6. eval \in Seq(Instr) /\ StaysIn(blocks, eval, current_func)
  BY <1>2, <1>3, StaysEval
<1>7. slot \in Seq(Instr) /\ StaysIn(blocks, slot, current_func)
  <2>1. <<>> \in Seq(Instr) /\ StaysIn(blocks, <<>>, current_func)
    BY DEF StaysIn
  <2> HIDE DEF alloca, made
  <2> QED BY <1>5, <2>1
<1> HIDE DEF slot, eval, store
<1>8. code \in Seq(Instr) /\ StaysIn(blocks, code, current_func)
  BY <1>5, <1>6, <1>7, StaysConcat
<1> HIDE DEF code
<1> QED BY <1>1, <1>8, StraightApart

LEMMA GenListApart == ASSUME NEW T, WorkApart(T), GenList PROVE ApartGen(T)
<1> DEFINE f == [k |-> "list", no |-> No, i |-> 1, b1 |-> 0, b2 |-> 0, at |-> insert]
<1>1. /\ Called(ListType) /\ work' = Append(work, f) /\ pending' = Gen(N.kids[1])
      /\ UNCHANGED <<blocks, insert, current_func>>
  BY DEF GenList, Push
<1>2. /\ No \in Nat /\ N.type \in ListType
      /\ FuncCall(work) => No \in T /\ \A k \in DOMAIN N.kids : N.kids[k] \in T \cup {0}
      /\ N.type \in BodyType => 1 \in DOMAIN N.kids
  BY <1>1, CalledApart
<1>3. work \in Seq(WorkFrame) /\ insert \in Nat /\ Extends(blocks, blocks)
  BY ReadyFacts, ExtendsSame
<1>4. f \in WorkFrame /\ ~IsFuncCall(f) /\ f.no = No /\ OwnIn(blocks, f, current_func)
  BY <1>2, <1>3 DEF WorkFrame, FrameKind, IsFuncCall, OwnIn, Own
<1>5. 1 \in DOMAIN N.kids
  BY <1>2 DEF BodyType
<1> HIDE DEF f
<1> DEFINE w == Append(work, f)
<1>6. CallsApart(w, T, blocks, current_func)
  BY <1>2, <1>3, <1>4, ReadyFacts, CallsPush
<1>7. FuncCall(w) => N.kids[1] \in T \cup {0}
  BY <1>2, <1>3, <1>4, <1>5, UnderAppend
<1>8. work' = w
  BY <1>1
<1> HIDE DEF w
<1>9. \E no : pending' = Gen(no) /\ (FuncCall(w) => no \in T \cup {0})
  BY <1>1, <1>7
<1> QED BY <1>1, <1>6, <1>8, <1>9, ReadyFacts, SettleApart

LEMMA ListNextApart == ASSUME NEW T, WorkApart(T), ListNext PROVE ApartGen(T)
<1> DEFINE w == SubSeq(work, 1, Len(work) - 1)
           f == CurrentFrame
           b == pending.block
           iblock == IF b # 0 THEN b ELSE f.b1
           point == IF b # 0 THEN b ELSE insert
           kids == tree[f.no].kids
           g == [f EXCEPT !.i = @ + 1, !.b1 = iblock, !.at = point]
<1>1. /\ Back("list") /\ insert' = point
      /\ UNCHANGED <<blocks, current_func>>
  BY DEF ListNext
<1>2. /\ w \in Seq(WorkFrame) /\ f \in WorkFrame /\ f.k = "list" /\ work = Append(w, f)
      /\ f.no \in DOMAIN tree
      /\ CallsApart(w, T, blocks, current_func) /\ OwnIn(blocks, f, current_func)
      /\ FuncCall(w) => f.no \in T /\ \A k \in DOMAIN kids : kids[k] \in T \cup {0}
  <2>1. Back("list") /\ w = SubSeq(work, 1, Len(work) - 1) /\ f = CurrentFrame /\ "list" # "func"
    BY <1>1
  <2>2. kids = tree[f.no].kids
    OBVIOUS
  <2> HIDE DEF w, f, kids
  <2>3. /\ w \in Seq(WorkFrame) /\ f \in WorkFrame /\ f.k = "list" /\ work = Append(w, f)
        /\ f.no \in DOMAIN tree
    BY <2>1, BackApart
  <2>4. /\ CallsApart(w, T, blocks, current_func) /\ OwnIn(blocks, f, current_func)
        /\ FuncCall(w) => Inside(f.no, T)
    <3>1. ASSUME NEW kind, Back(kind), kind # "func"
          PROVE  /\ CallsApart(w, T, blocks, current_func) /\ OwnIn(blocks, f, current_func)
                 /\ FuncCall(w) => Inside(f.no, T)
      BY <2>1, <3>1, BackApart
    <3> QED BY <2>1, <3>1
  <2> QED BY <2>2, <2>3, <2>4 DEF Inside
<1>3. /\ InFunc(blocks, point, current_func) /\ point \in Nat
      /\ iblock # 0 => InFunc(blocks, iblock, current_func)
  BY <1>2, ReadyFacts DEF OwnIn, Own
<1>4. InFunc(blocks', insert', current_func') /\ BranchesIn(blocks')
  BY <1>1, <1>3, ReadyFacts
<1>5. f.i \in Nat /\ f.b1 \in Nat /\ iblock \in Nat
  <2>1. f.i \in Nat /\ f.b1 \in Nat
    BY <1>2 DEF WorkFrame
  <2> QED BY <2>1, <1>3
<1>6. CASE /\ f.i < Len(kids)
           /\ work' = [work EXCEPT ![Len(work)] = g] /\ pending' = Gen(kids[f.i + 1])
  <2>1. g \in WorkFrame /\ g.k = "list" /\ g.no = f.no /\ g.b1 = iblock
    <3> DEFINE i == f.i + 1
    <3>1. g = [f EXCEPT !.i = i, !.b1 = iblock, !.at = point]
      BY Zenon
    <3>2. i \in Nat
      BY <1>5
    <3>3. f \in WorkFrame /\ iblock \in Nat /\ point \in Nat
      BY <1>2, <1>3, <1>5
    <3> HIDE DEF f, g, i, iblock, point
    <3>4. g \in WorkFrame /\ g.k = f.k /\ g.no = f.no /\ g.b1 = iblock
      <4>1. /\ f.k \in FrameKind /\ f.no \in Nat /\ f.b2 \in Nat
            /\ g = [k |-> f.k, no |-> f.no, i |-> i, b1 |-> iblock, b2 |-> f.b2, at |-> point]
        BY <3>1, <3>3 DEF WorkFrame
      <4> QED BY <3>2, <3>3, <4>1 DEF WorkFrame
    <3> QED BY <1>2, <3>4
  <2>2. ~IsFuncCall(g) /\ OwnIn(blocks, g, current_func)
    <3> HIDE DEF g, iblock
    <3> QED BY <1>3, <2>1 DEF IsFuncCall, OwnIn, Own
  <2>3. f.i + 1 \in DOMAIN kids
    <3>1. tree[f.no] \in NodeRec
      BY <1>2, ReadyFacts
    <3>2. kids \in Seq(Nat)
      BY <3>1 DEF NodeRec
    <3> HIDE DEF f, kids
    <3> QED BY <1>5, <1>6, <3>2
  <2> DEFINE no == kids[f.i + 1]
  <2>4. FuncCall(w) => no \in T \cup {0}
    BY <1>2, <2>3
  <2>5. pending' = Gen(no)
    BY <1>6
  <2> HIDE DEF g, no
  <2>6. work' = Append(w, g)
    BY <1>2, <1>6, <2>1, TopReplaced
  <2> DEFINE u == Append(w, g)
  <2> HIDE DEF w, f
  <2>7. CallsApart(u, T, blocks, current_func)
    <3>1. blocks \in Seq(Block)
      BY ReadyFacts
    <3>2. Extends(blocks, blocks)
      BY <3>1, ExtendsSame
    <3>3. FuncCall(w) => g.no \in T
      BY <1>2, <2>1
    <3> QED BY <1>2, <2>1, <2>2, <3>2, <3>3, CallsPush
  <2>8. FuncCall(u) => FuncCall(w)
    BY <1>2, <2>1, <2>2, UnderAppend
  <2> HIDE DEF u
  <2>9. work' = u
    BY <2>6 DEF u
  <2>10. \E n : pending' = Gen(n) /\ (FuncCall(u) => n \in T \cup {0})
    BY <2>4, <2>5, <2>8
  <2> QED BY <1>1, <1>4, <2>7, <2>9, <2>10, SettleApart
<1>7. CASE f.i >= Len(kids) /\ PopFrame /\ pending' = Ret(iblock)
  <2>1. work' = w
    BY <1>7 DEF PopFrame
  <2> HIDE DEF w, f, iblock
  <2>2. \E c : pending' = Ret(c) /\ (c # 0 => InFunc(blocks', c, current_func'))
    BY <1>1, <1>3, <1>7
  <2> QED BY <1>1, <1>2, <1>4, <2>1, <2>2, SettleApart
<1>8. \/ /\ f.i < Len(kids)
         /\ work' = [work EXCEPT ![Len(work)] = g] /\ pending' = Gen(kids[f.i + 1])
      \/ f.i >= Len(kids) /\ PopFrame /\ pending' = Ret(iblock)
  BY DEF ListNext
<1> QED BY <1>6, <1>7, <1>8

LEMMA GenFuncApart == ASSUME NEW T, WorkApart(T), GenFunc PROVE ApartGen(T)
<1> DEFINE entry == Len(blocks) + 1
           f == [k |-> "func", no |-> No, i |-> 1, b1 |-> insert, b2 |-> 0, at |-> entry]
<1>1. /\ Called({"FUNC"}) /\ blocks' = NewBlock(blocks, entry)
      /\ current_func' = entry /\ insert' = entry
      /\ work' = Append(work, f) /\ pending' = Gen(N.kids[1])
  BY DEF GenFunc, Push
<1>2. /\ No \in Nat /\ N.type = "FUNC" /\ ~FuncCall(work)
      /\ 1 \in DOMAIN N.kids /\ N.kids[1] \in T \cup {0}
  BY <1>1, CalledApart
<1>3. /\ entry \in Nat /\ Extends(blocks, blocks') /\ BranchesIn(blocks')
      /\ InFunc(blocks', entry, entry)
  <2>1. entry \in Nat /\ blocks \in Seq(Block) /\ BranchesIn(blocks)
    BY ReadyFacts
  <2> QED BY <1>1, <2>1, NewBlockIn
<1>4. work \in Seq(WorkFrame) /\ insert \in Nat
  BY ReadyFacts
<1> HIDE DEF entry
<1>5. f \in WorkFrame /\ IsFuncCall(f) /\ OwnIn(blocks', f, current_func)
  <2>1. f \in WorkFrame /\ f.k = "func" /\ f.b1 = insert
    BY <1>2, <1>3, <1>4 DEF WorkFrame, FrameKind
  <2> HIDE DEF f
  <2>2. InFunc(blocks', insert, current_func)
    BY <1>3, ReadyFacts DEF Extends
  <2> QED BY <2>1, <2>2 DEF IsFuncCall, OwnIn, Own
<1> HIDE DEF f
<1> DEFINE w == Append(work, f)
<1>6. CallsApart(w, T, blocks', entry)
  BY <1>2, <1>3, <1>4, <1>5, ReadyFacts, CallsEnter
<1>7. work' = w /\ InFunc(blocks', insert', current_func') /\ CallsApart(w, T, blocks', current_func')
  BY <1>1, <1>3, <1>6
<1> HIDE DEF w
<1>8. \E no : pending' = Gen(no) /\ (FuncCall(w) => no \in T \cup {0})
  BY <1>1, <1>2
<1> QED BY <1>3, <1>7, <1>8, SettleApart

LEMMA FuncDoneApart == ASSUME NEW T, WorkApart(T), FuncDone PROVE ApartGen(T)
<1> DEFINE w == SubSeq(work, 1, Len(work) - 1)
           f == CurrentFrame
           ret == <<I("ret", f.no, {}, <<>>)>>
<1>1. /\ Back("func") /\ blocks' = Emit(blocks, insert, ret)
      /\ current_func' = main_func /\ insert' = f.b1 /\ work' = w /\ pending' = Ret(0)
  BY DEF FuncDone, LeaveFunction, PopFrame
<1>2. /\ w \in Seq(WorkFrame) /\ f \in WorkFrame /\ f.k = "func"
      /\ CallsApart(w, T, blocks, main_func) /\ OwnIn(blocks, f, main_func)
  BY <1>1, BackApart
<1>3. ret \in Seq(Instr) /\ StaysIn(blocks, ret, current_func)
  <2>1. f.no \in Nat
    BY <1>2 DEF WorkFrame
  <2>2. /\ "ret" \in InstrOp /\ {} \in SUBSET Value /\ <<>> \in Seq(Nat)
        /\ \A t \in ToSet(<<>>) : InFunc(blocks, t, current_func)
    BY DEF InstrOp, Terminator, ToSet
  <2> HIDE DEF f
  <2> QED BY <2>1, <2>2, StaysOne
<1>4. InFunc(blocks, f.b1, main_func)
  BY <1>2 DEF OwnIn, Own
<1> HIDE DEF ret, w, f
<1>5. Extends(blocks, blocks') /\ BranchesIn(blocks')
  BY <1>1, <1>3, ReadyFacts, EmitIn
<1>6. /\ CallsApart(w, T, blocks', current_func') /\ InFunc(blocks', insert', current_func')
  <2>1. CallsApart(w, T, blocks', main_func)
    BY <1>2, <1>5, CallsSame
  <2> QED BY <1>1, <1>4, <1>5, <2>1 DEF Extends
<1>7. \E b : pending' = Ret(b) /\ (b # 0 => InFunc(blocks', b, current_func'))
  BY <1>1
<1> QED BY <1>1, <1>5, <1>6, <1>7, SettleApart

-----------------------------------------------------------------------------
(* A call that begins, and one that ends, in the function they are in.      *)
LEMMA EnterApart ==
  ASSUME NEW T, NEW w \in Seq(WorkFrame), CallsApart(w, T, blocks, current_func),
         Extends(blocks, blocks'), BranchesIn(blocks'),
         NEW call \in WorkFrame, ~IsFuncCall(call), FuncCall(w) => call.no \in T,
         OwnIn(blocks', call, current_func), work' = Append(w, call),
         current_func' = current_func, InFunc(blocks', insert', current_func),
         NEW no, pending' = Gen(no), FuncCall(w) => no \in T \cup {0}
  PROVE  ApartGen(T)
<1> DEFINE u == Append(w, call)
<1>1. CallsApart(u, T, blocks', current_func)
  BY CallsPush
<1>2. FuncCall(u) => FuncCall(w)
  BY UnderAppend
<1>3. work' = u
  OBVIOUS
<1> HIDE DEF u
<1>4. \E n : pending' = Gen(n) /\ (FuncCall(u) => n \in T \cup {0})
  BY <1>2
<1> QED BY <1>1, <1>3, <1>4, SettleApart

LEMMA LeaveApart ==
  ASSUME NEW T, NEW w, CallsApart(w, T, blocks, current_func),
         Extends(blocks, blocks'), BranchesIn(blocks'), work' = w,
         current_func' = current_func, InFunc(blocks', insert', current_func),
         NEW b, pending' = Ret(b), InFunc(blocks', b, current_func)
  PROVE  ApartGen(T)
<1>1. CallsApart(w, T, blocks', current_func)
  BY CallsSame
<1>2. \E c : pending' = Ret(c) /\ (c # 0 => InFunc(blocks', c, current_func'))
  OBVIOUS
<1> QED BY <1>1, <1>2, SettleApart

LEMMA BranchesOne ==
  ASSUME NEW no \in Nat, NEW bs, NEW f, NEW t, InFunc(bs, t, f), t \in Nat
  PROVE  /\ <<I("br", no, {}, <<t>>)>> \in Seq(Instr)
         /\ StaysIn(bs, <<I("br", no, {}, <<t>>)>>, f)
<1>1. /\ "br" \in InstrOp /\ {} \in SUBSET Value /\ <<t>> \in Seq(Nat)
      /\ \A x \in ToSet(<<t>>) : InFunc(bs, x, f)
  BY DEF InstrOp, Terminator, ToSet
<1> QED BY <1>1, StaysOne

LEMMA BranchesTwo ==
  ASSUME NEW no \in Nat, NEW bs, NEW f, NEW t \in Nat, NEW u \in Nat,
         InFunc(bs, t, f), InFunc(bs, u, f)
  PROVE  /\ <<I("condbr", no, {}, <<t, u>>)>> \in Seq(Instr)
         /\ StaysIn(bs, <<I("condbr", no, {}, <<t, u>>)>>, f)
<1>1. /\ "condbr" \in InstrOp /\ {} \in SUBSET Value /\ <<t, u>> \in Seq(Nat)
      /\ \A x \in ToSet(<<t, u>>) : InFunc(bs, x, f)
  BY DEF InstrOp, Terminator, ToSet
<1> QED BY <1>1, StaysOne

LEMMA GenWhileApart == ASSUME NEW T, WorkApart(T), GenWhile PROVE ApartGen(T)
<1> DEFINE n == Len(blocks) + 1
           m == Len(blocks) + 2
           one == NewBlock(blocks, current_func)
           two == NewBlock(one, current_func)
           jump == <<I("br", No, {}, <<n>>)>>
           three == Emit(two, insert, jump)
           eval == EvalCode(No, N, Env)
           f == [k |-> "while", no |-> No, i |-> 1, b1 |-> n, b2 |-> m, at |-> m]
           no == N.kids[1]
<1>1. /\ Called({"WHILE"}) /\ blocks' = Emit(three, n, eval)
      /\ insert' = m /\ work' = Append(work, f) /\ pending' = Gen(no)
      /\ current_func' = current_func
  BY DEF GenWhile, Push
<1>2. /\ No \in Nat /\ N \in NodeRec
      /\ FuncCall(work) => No \in T /\ no \in T \cup {0}
  BY <1>1, CalledApart
<1>3. /\ blocks \in Seq(Block) /\ BranchesIn(blocks) /\ current_func \in Nat /\ work \in Seq(WorkFrame)
      /\ CallsApart(work, T, blocks, current_func) /\ InFunc(blocks, insert, current_func)
  BY ReadyFacts
<1>4. /\ Extends(blocks, one) /\ BranchesIn(one) /\ one \in Seq(Block)
      /\ InFunc(one, n, current_func) /\ Len(one) = n /\ n \in Nat
  BY <1>3, NewBlockIn DEF Extends
<1>5. m = Len(one) + 1
  BY <1>3, <1>4
<1> HIDE DEF one, n, m
<1>6. /\ Extends(one, two) /\ BranchesIn(two) /\ two \in Seq(Block)
      /\ InFunc(two, m, current_func) /\ m \in Nat
  BY <1>3, <1>4, <1>5, NewBlockIn DEF Extends
<1> HIDE DEF two
<1>7. Extends(blocks, two) /\ InFunc(two, n, current_func) /\ InFunc(two, insert, current_func)
  BY <1>3, <1>4, <1>6, ExtendsMore DEF Extends
<1>8. jump \in Seq(Instr) /\ StaysIn(two, jump, current_func)
  BY <1>2, <1>4, <1>7, BranchesOne
<1> HIDE DEF jump
<1>9. Extends(two, three) /\ BranchesIn(three) /\ three \in Seq(Block)
  BY <1>6, <1>7, <1>8, EmitIn DEF Extends
<1> HIDE DEF three
<1>10. eval \in Seq(Instr) /\ StaysIn(three, eval, current_func)
  BY <1>2, EnvType, StaysEval DEF WorkApart
<1> HIDE DEF eval
<1>11. InFunc(three, n, current_func)
  BY <1>7, <1>9 DEF Extends
<1>12. Extends(three, blocks') /\ BranchesIn(blocks')
  BY <1>1, <1>9, <1>10, <1>11, EmitIn
<1>13. Extends(two, blocks')
  BY <1>9, <1>12, ExtendsMore
<1>14. /\ Extends(blocks, blocks') /\ InFunc(blocks', n, current_func)
       /\ InFunc(blocks', m, current_func)
  BY <1>6, <1>7, <1>13, ExtendsMore DEF Extends
<1>15. f \in WorkFrame /\ f.k = "while" /\ f.no = No /\ f.b1 = n /\ f.b2 = m
  BY <1>2, <1>4, <1>6 DEF WorkFrame, FrameKind
<1> HIDE DEF f, no
<1>16. ~IsFuncCall(f) /\ OwnIn(blocks', f, current_func)
  BY <1>14, <1>15 DEF IsFuncCall, OwnIn, Own
<1>17. FuncCall(work) => f.no \in T
  BY <1>2, <1>15
<1>18. InFunc(blocks', insert', current_func)
  BY <1>1, <1>14
<1> QED BY <1>1, <1>2, <1>3, <1>12, <1>14, <1>15, <1>16, <1>17, <1>18, EnterApart

(* Back in a call that is not of a definition. *)
LEMMA BackInside ==
  ASSUME NEW T, WorkApart(T), NEW kind \in {"while", "then", "else"}, Back(kind),
         NEW w, w = SubSeq(work, 1, Len(work) - 1), NEW f, f = CurrentFrame
  PROVE  /\ w \in Seq(WorkFrame) /\ f \in WorkFrame /\ f.k = kind /\ work = Append(w, f)
         /\ f.no \in Nat /\ f.b1 \in Nat /\ f.b2 \in Nat /\ f.i \in Nat
         /\ CallsApart(w, T, blocks, current_func) /\ OwnIn(blocks, f, current_func)
         /\ FuncCall(w) => Inside(f.no, T)
         /\ kind = "then" /\ f.b2 # 0 => Len(tree[f.no].kids) > 1
<1>1. kind # "func"
  OBVIOUS
<1>2. /\ w \in Seq(WorkFrame) /\ f \in WorkFrame /\ f.k = kind /\ work = Append(w, f)
      /\ CallsApart(w, T, blocks, current_func) /\ OwnIn(blocks, f, current_func)
      /\ FuncCall(w) => Inside(f.no, T)
  BY <1>1, BackApart
<1>3. f.no \in Nat /\ f.b1 \in Nat /\ f.b2 \in Nat /\ f.i \in Nat
  BY <1>2 DEF WorkFrame
<1>4. kind = "then" /\ f.b2 # 0 => Len(tree[f.no].kids) > 1
  <2>1. GenInv
    BY DEF WorkApart
  <2>2. FrameOn(f, w)
    BY <2>1, BackFacts
  <2> QED BY <1>2, <2>2 DEF FrameOn
<1> QED BY <1>2, <1>3, <1>4

LEMMA WhileDoneApart == ASSUME NEW T, WorkApart(T), WhileDone PROVE ApartGen(T)
<1> DEFINE w == SubSeq(work, 1, Len(work) - 1)
           f == CurrentFrame
           last == IF pending.block # 0 THEN pending.block ELSE f.b2
           n == Len(blocks) + 1
           one == NewBlock(blocks, current_func)
           test == <<I("condbr", f.no, {}, <<f.b2, n>>)>>
           jump == <<I("br", f.no, {}, <<f.b1>>)>>
           two == Emit(one, f.b1, test)
<1>1. /\ Back("while") /\ blocks' = Emit(two, last, jump) /\ insert' = last
      /\ work' = w /\ pending' = Ret(n) /\ current_func' = current_func
  BY DEF WhileDone, PopFrame
<1>2. /\ f.k = "while" /\ f.no \in Nat /\ f.b1 \in Nat /\ f.b2 \in Nat
      /\ CallsApart(w, T, blocks, current_func) /\ OwnIn(blocks, f, current_func)
  BY <1>1, BackInside
<1>3. /\ blocks \in Seq(Block) /\ BranchesIn(blocks) /\ current_func \in Nat
      /\ InFunc(blocks, insert, current_func)
      /\ pending.block # 0 => InFunc(blocks, pending.block, current_func)
  BY ReadyFacts
<1> HIDE DEF w, f
<1>4. InFunc(blocks, f.b1, current_func) /\ InFunc(blocks, f.b2, current_func)
  BY <1>2 DEF OwnIn, Own
<1>5. InFunc(blocks, last, current_func)
  BY <1>3, <1>4
<1> HIDE DEF last
<1>6. /\ Extends(blocks, one) /\ BranchesIn(one) /\ one \in Seq(Block)
      /\ InFunc(one, n, current_func) /\ n \in Nat
  BY <1>3, NewBlockIn DEF Extends
<1> HIDE DEF one, n
<1>7. /\ InFunc(one, f.b1, current_func) /\ InFunc(one, f.b2, current_func)
      /\ InFunc(one, last, current_func)
  BY <1>4, <1>5, <1>6 DEF Extends
<1>8. test \in Seq(Instr) /\ StaysIn(one, test, current_func)
  BY <1>2, <1>6, <1>7, BranchesTwo
<1> HIDE DEF test
<1>9. Extends(one, two) /\ BranchesIn(two) /\ two \in Seq(Block)
  BY <1>6, <1>7, <1>8, EmitIn DEF Extends
<1> HIDE DEF two
<1>10. InFunc(two, f.b1, current_func) /\ InFunc(two, last, current_func)
  BY <1>7, <1>9 DEF Extends
<1>11. jump \in Seq(Instr) /\ StaysIn(two, jump, current_func)
  BY <1>2, <1>10, BranchesOne
<1> HIDE DEF jump
<1>12. Extends(two, blocks') /\ BranchesIn(blocks')
  BY <1>1, <1>9, <1>10, <1>11, EmitIn
<1>13. Extends(one, blocks')
  BY <1>9, <1>12, ExtendsMore
<1>14. /\ Extends(blocks, blocks') /\ InFunc(blocks', n, current_func)
       /\ InFunc(blocks', insert', current_func)
  BY <1>1, <1>6, <1>7, <1>13, ExtendsMore DEF Extends
<1> QED BY <1>1, <1>2, <1>12, <1>14, LeaveApart

(* The branch to endif, from where the list ended. *)
LEMMA EndifApart ==
  ASSUME NEW T, WorkApart(T), NEW kind \in {"then", "else"}, Back(kind), NEW f, f = CurrentFrame,
         blocks' = Emit(blocks, BranchPoint(f), <<I("br", f.no, {}, <<f.b1>>)>>)
  PROVE  /\ Extends(blocks, blocks') /\ BranchesIn(blocks')
         /\ InFunc(blocks', f.b1, current_func)
         /\ kind = "then" /\ f.b2 # 0 => InFunc(blocks', f.b2, current_func)
<1> DEFINE jump == <<I("br", f.no, {}, <<f.b1>>)>>
           point == BranchPoint(f)
<1>1. /\ f.k = kind /\ f.no \in Nat /\ f.b1 \in Nat /\ f.b2 \in Nat
      /\ OwnIn(blocks, f, current_func)
  BY BackInside
<1>2. /\ blocks \in Seq(Block) /\ BranchesIn(blocks) /\ InFunc(blocks, insert, current_func)
      /\ pending.block # 0 => InFunc(blocks, pending.block, current_func)
  BY ReadyFacts
<1>3. InFunc(blocks, point, current_func)
  BY <1>2 DEF BranchPoint
<1>4. /\ InFunc(blocks, f.b1, current_func)
      /\ kind = "then" /\ f.b2 # 0 => InFunc(blocks, f.b2, current_func)
  BY <1>1 DEF OwnIn, Own
<1>5. jump \in Seq(Instr) /\ StaysIn(blocks, jump, current_func)
  BY <1>1, <1>4, BranchesOne
<1> HIDE DEF jump, point
<1>6. blocks' = Emit(blocks, point, jump)
  BY DEF jump, point
<1>7. Extends(blocks, blocks') /\ BranchesIn(blocks')
  BY <1>2, <1>3, <1>5, <1>6, EmitIn
<1> QED BY <1>4, <1>7 DEF Extends

LEMMA IfDoneApart == ASSUME NEW T, WorkApart(T), IfDone PROVE ApartGen(T)
<1> DEFINE w == SubSeq(work, 1, Len(work) - 1)
           f == CurrentFrame
<1>1. /\ Back("then") \/ Back("else")
      /\ blocks' = Emit(blocks, BranchPoint(f), <<I("br", f.no, {}, <<f.b1>>)>>)
      /\ insert' = f.b1 /\ work' = w /\ pending' = Ret(f.b1) /\ current_func' = current_func
  BY DEF IfDone, PopFrame
<1>2. PICK kind \in {"then", "else"} : Back(kind)
  BY <1>1
<1>3. f = CurrentFrame /\ w = SubSeq(work, 1, Len(work) - 1)
  OBVIOUS
<1> HIDE DEF w, f
<1>4. CallsApart(w, T, blocks, current_func)
  BY <1>2, <1>3, BackInside
<1>5. Extends(blocks, blocks') /\ BranchesIn(blocks') /\ InFunc(blocks', f.b1, current_func)
  BY <1>1, <1>2, <1>3, EndifApart
<1>6. InFunc(blocks', insert', current_func)
  BY <1>1, <1>5
<1> QED BY <1>1, <1>4, <1>5, <1>6, LeaveApart

LEMMA ThenDoneApart == ASSUME NEW T, WorkApart(T), ThenDone PROVE ApartGen(T)
<1> DEFINE w == SubSeq(work, 1, Len(work) - 1)
           f == CurrentFrame
           g == [f EXCEPT !.k = "else", !.b2 = 0, !.at = f.b2]
           no == tree[f.no].kids[2]
<1>1. /\ Back("then") /\ f.b2 # 0
      /\ blocks' = Emit(blocks, BranchPoint(f), <<I("br", f.no, {}, <<f.b1>>)>>)
      /\ insert' = f.b2 /\ work' = [work EXCEPT ![Len(work)] = g] /\ pending' = Gen(no)
      /\ current_func' = current_func
  BY DEF ThenDone
<1>2. f = CurrentFrame /\ w = SubSeq(work, 1, Len(work) - 1)
  OBVIOUS
<1>3. g = [f EXCEPT !.k = "else", !.b2 = 0, !.at = f.b2] /\ no = tree[f.no].kids[2]
  BY Zenon
<1> HIDE DEF w, f, g, no
<1>4. /\ w \in Seq(WorkFrame) /\ f \in WorkFrame /\ work = Append(w, f) /\ f.no \in Nat
      /\ CallsApart(w, T, blocks, current_func) /\ Len(tree[f.no].kids) > 1
      /\ FuncCall(w) => Inside(f.no, T)
  BY <1>1, <1>2, BackInside
<1>5. /\ Extends(blocks, blocks') /\ BranchesIn(blocks')
      /\ InFunc(blocks', f.b1, current_func) /\ InFunc(blocks', f.b2, current_func)
  BY <1>1, <1>2, EndifApart
<1>6. g \in WorkFrame /\ g.k = "else" /\ g.no = f.no /\ g.b1 = f.b1 /\ g.b2 = 0
  <2>1. "else" \in FrameKind /\ 0 \in Nat
    BY DEF FrameKind
  <2> DEFINE e == "else"
             z == 0
  <2>2. g = [f EXCEPT !.k = e, !.b2 = z, !.at = f.b2]
    BY <1>3, Zenon
  <2>3. e \in FrameKind /\ z \in Nat
    BY <2>1
  <2> HIDE DEF e, z
  <2>4. /\ f.i \in Nat /\ f.b1 \in Nat /\ f.b2 \in Nat
        /\ g = [k |-> e, no |-> f.no, i |-> f.i, b1 |-> f.b1, b2 |-> z, at |-> f.b2]
    BY <1>4, <2>2 DEF WorkFrame
  <2>5. g \in WorkFrame /\ g.k = e /\ g.no = f.no /\ g.b1 = f.b1 /\ g.b2 = z
    BY <1>4, <2>3, <2>4 DEF WorkFrame
  <2> QED BY <2>5 DEF e, z
<1>7. work' = Append(w, g)
  BY <1>1, <1>4, <1>6, TopReplaced
<1>8. ~IsFuncCall(g) /\ OwnIn(blocks', g, current_func)
  BY <1>5, <1>6 DEF IsFuncCall, OwnIn, Own
<1>9. FuncCall(w) => g.no \in T /\ no \in T \cup {0}
  <2>1. 2 \in DOMAIN tree[f.no].kids
    <3>1. f.no \in DOMAIN tree
      BY <1>1, <1>2, BackApart
    <3>2. tree[f.no] \in NodeRec
      BY <3>1, ReadyFacts
    <3>3. tree[f.no].kids \in Seq(Nat)
      BY <3>2 DEF NodeRec
    <3> QED BY <1>4, <3>3
  <2> QED BY <1>3, <1>4, <1>6, <2>1 DEF Inside
<1>10. InFunc(blocks', insert', current_func)
  BY <1>1, <1>5
<1> QED BY <1>1, <1>4, <1>5, <1>6, <1>7, <1>8, <1>9, <1>10, EnterApart

LEMMA GenIfApart == ASSUME NEW T, WorkApart(T), GenIf PROVE ApartGen(T)
<1> DEFINE n == Len(blocks) + 1
           hasElse == Len(N.kids) > 1
           elseif == IF hasElse THEN n + 1 ELSE 0
           endif == IF hasElse THEN n + 2 ELSE n + 1
           one == NewBlock(blocks, current_func)
           two == NewBlock(one, current_func)
           three == NewBlock(two, current_func)
           made == IF hasElse THEN three ELSE two
           other == IF hasElse THEN elseif ELSE endif
           eval == EvalCode(No, N, Env)
           test == <<I("condbr", No, {}, <<n, other>>)>>
           code == eval \o test
           f == [k |-> "then", no |-> No, i |-> 1, b1 |-> endif, b2 |-> elseif, at |-> n]
           no == N.kids[1]
<1>1. /\ Called({"IF"}) /\ blocks' = Emit(made, insert, code)
      /\ insert' = n /\ work' = Append(work, f) /\ pending' = Gen(no)
      /\ current_func' = current_func
  BY DEF GenIf, Push
<1>2. /\ No \in Nat /\ N \in NodeRec
      /\ FuncCall(work) => No \in T /\ no \in T \cup {0}
  <2>1. 1 \in DOMAIN N.kids
    BY <1>1, CalledApart DEF BodyType
  <2> QED BY <1>1, <2>1, CalledApart
<1>3. /\ blocks \in Seq(Block) /\ BranchesIn(blocks) /\ current_func \in Nat /\ work \in Seq(WorkFrame)
      /\ CallsApart(work, T, blocks, current_func) /\ InFunc(blocks, insert, current_func)
  BY ReadyFacts
<1>4. /\ Extends(blocks, one) /\ BranchesIn(one) /\ one \in Seq(Block)
      /\ InFunc(one, n, current_func) /\ Len(one) = n /\ n \in Nat
  BY <1>3, NewBlockIn DEF Extends
<1> HIDE DEF one, n
<1> DEFINE m == n + 1
<1>5. /\ Extends(one, two) /\ BranchesIn(two) /\ two \in Seq(Block)
      /\ InFunc(two, m, current_func) /\ Len(two) = m /\ m \in Nat
  BY <1>3, <1>4, NewBlockIn DEF Extends
<1>6. n + 2 = m + 1
  BY <1>4
<1> HIDE DEF two, m
<1>7. /\ Extends(two, three) /\ BranchesIn(three) /\ three \in Seq(Block)
      /\ InFunc(three, n + 2, current_func) /\ n + 2 \in Nat
  BY <1>3, <1>5, <1>6, NewBlockIn DEF Extends
<1> HIDE DEF three
<1>8. /\ Extends(two, made) /\ BranchesIn(made) /\ made \in Seq(Block)
      /\ endif \in Nat /\ elseif \in Nat /\ InFunc(made, endif, current_func)
      /\ elseif # 0 => InFunc(made, elseif, current_func)
      /\ other \in Nat /\ InFunc(made, other, current_func)
  <2>1. CASE hasElse
    <3>1. InFunc(three, m, current_func)
      BY <1>5, <1>7 DEF Extends
    <3>2. made = three /\ endif = n + 2 /\ elseif = m /\ other = m
      BY <2>1 DEF m
    <3> HIDE DEF made, endif, elseif, other
    <3> QED BY <1>5, <1>7, <3>1, <3>2
  <2>2. CASE ~hasElse
    <3>1. made = two /\ endif = m /\ elseif = 0 /\ other = m
      BY <2>2 DEF m
    <3>2. Extends(two, two)
      BY <1>5, ExtendsSame
    <3> HIDE DEF made, endif, elseif, other
    <3> QED BY <1>5, <3>1, <3>2
  <2> QED BY <2>1, <2>2
<1> HIDE DEF made, endif, elseif, other
<1>9. Extends(one, made)
  BY <1>5, <1>8, ExtendsMore
<1>10. /\ Extends(blocks, made) /\ InFunc(made, n, current_func)
       /\ InFunc(made, insert, current_func)
  BY <1>3, <1>4, <1>9, ExtendsMore DEF Extends
<1>11. eval \in Seq(Instr) /\ StaysIn(made, eval, current_func)
  BY <1>2, EnvType, StaysEval DEF WorkApart
<1>12. test \in Seq(Instr) /\ StaysIn(made, test, current_func)
  BY <1>2, <1>4, <1>8, <1>10, BranchesTwo
<1> HIDE DEF eval, test
<1>13. code \in Seq(Instr) /\ StaysIn(made, code, current_func)
  BY <1>11, <1>12, StaysConcat
<1> HIDE DEF code
<1>14. Extends(made, blocks') /\ BranchesIn(blocks')
  BY <1>1, <1>8, <1>10, <1>13, EmitIn
<1>15. /\ Extends(blocks, blocks') /\ InFunc(blocks', insert', current_func)
       /\ InFunc(blocks', endif, current_func)
       /\ elseif # 0 => InFunc(blocks', elseif, current_func)
  BY <1>1, <1>8, <1>10, <1>14, ExtendsMore DEF Extends
<1>16. f \in WorkFrame /\ f.k = "then" /\ f.no = No /\ f.b1 = endif /\ f.b2 = elseif
  BY <1>2, <1>4, <1>8 DEF WorkFrame, FrameKind
<1> HIDE DEF f, no
<1>17. ~IsFuncCall(f) /\ OwnIn(blocks', f, current_func)
  BY <1>15, <1>16 DEF IsFuncCall, OwnIn, Own
<1>18. FuncCall(work) => f.no \in T
  BY <1>2, <1>16
<1> QED BY <1>1, <1>2, <1>3, <1>14, <1>15, <1>16, <1>17, <1>18, EnterApart

-----------------------------------------------------------------------------
(* The nodes of the functions in the tree that is being read, walked or     *)
(* generated, and the calls that are generating one.                        *)
FunctionsInv ==
  /\ BranchesIn(blocks)
  /\ \E T : /\ FunctionsApart(tree, T)
            /\ phase = "parse" => OpenFunctions(stack, T)
            /\ phase = "gen" => Working(T)

LEMMA SetupFunctions ==
  ASSUME IInv, NEW T, FunctionsApart(tree, T), setup_llvm_global
  PROVE  FunctionsInv'
<1> DEFINE b == [func |-> main_func, code |-> <<>>]
<1>1. /\ phase' = "gen" /\ tree' = tree /\ work' = work /\ blocks' = <<b>>
      /\ insert' = 1 /\ current_func' = main_func /\ pending' = Gen(root)
  BY DEF setup_llvm_global, treeVars
<1>2. work = <<>>
  BY DEF IInv, setup_llvm_global
<1>3. b.func = main_func /\ b.code = <<>>
  OBVIOUS
<1> HIDE DEF b
<1>4. DOMAIN blocks' = {1} /\ blocks'[1] = b
  BY <1>1
<1>5. InFunc(blocks', insert', current_func') /\ BranchesIn(blocks')
  BY <1>1, <1>3, <1>4 DEF InFunc, BranchesIn, StaysIn
<1>6. work' = <<>> /\ ~FuncCall(work')
  BY <1>1, <1>2 DEF FuncCall
<1>7. CallsApart(work', T, blocks', current_func')
  BY <1>1, <1>6 DEF CallsApart
<1>8. pending'.block = 0
  BY <1>1 DEF Gen
<1>9. Working(T)'
  BY <1>5, <1>6, <1>7, <1>8 DEF Working
<1> QED BY <1>1, <1>5, <1>9 DEF FunctionsInv

LEMMA PrintFunctions ==
  ASSUME IInv, NEW T, FunctionsApart(tree, T), Working(T), BranchesIn(blocks), print_llvm_ir
  PROVE  FunctionsInv'
<1> DEFINE ret == <<I("ret", 0, {}, <<>>)>>
<1>1. phase' = "done" /\ tree' = tree /\ blocks' = Emit(blocks, insert, ret)
  BY DEF print_llvm_ir, treeVars
<1>2. blocks \in Seq(Block) /\ InFunc(blocks, insert, current_func)
  BY DEF IInv, TypeOK, CodegenTypeOK, Working
<1>3. ret \in Seq(Instr) /\ StaysIn(blocks, ret, current_func)
  <2>1. /\ "ret" \in InstrOp /\ {} \in SUBSET Value /\ <<>> \in Seq(Nat) /\ 0 \in Nat
        /\ \A t \in ToSet(<<>>) : InFunc(blocks, t, current_func)
    BY DEF InstrOp, Terminator, ToSet
  <2> QED BY <2>1, StaysOne
<1> HIDE DEF ret
<1>4. BranchesIn(blocks')
  BY <1>1, <1>2, <1>3, EmitIn
<1> QED BY <1>1, <1>4 DEF FunctionsInv

LEMMA GenerateFunctions == ASSUME IInv, FunctionsInv, Generate PROVE FunctionsInv'
<1>1. PICK T : /\ FunctionsApart(tree, T)
               /\ phase = "gen" => Working(T)
  BY DEF FunctionsInv
<1>2. tree' = tree /\ phase' \in {"gen", "done", "fault"} /\ BranchesIn(blocks)
  BY CodegenLeaves DEF treeVars, FunctionsInv
<1>3. CASE setup_llvm_global
  BY <1>1, <1>3, SetupFunctions
<1>4. CASE print_llvm_ir
  BY <1>1, <1>2, <1>4, PrintFunctions DEF print_llvm_ir
<1>5. CASE GenDies
  <2>1. phase' = "fault" /\ blocks' = blocks
    BY <1>5 DEF GenDies, codegenVars
  <2> QED BY <1>1, <1>2, <2>1 DEF FunctionsInv
<1>6. CASE \/ GenAttr \/ GenOut \/ GenDelay \/ GenPrnt \/ GenCall
           \/ GenList \/ ListNext \/ GenWhile \/ WhileDone \/ GenIf \/ ThenDone \/ IfDone
           \/ GenFunc \/ FuncDone
  <2>1. phase = "gen"
    BY <1>6 DEF GenAttr, GenOut, GenDelay, GenPrnt, GenCall, GenSimple, GenList, ListNext,
         GenWhile, WhileDone, GenIf, ThenDone, IfDone, GenFunc, FuncDone, Called, Back
  <2>2. GenInv
    BY <2>1 DEF IInv, ParseInv, GenInv
  <2>3. WorkApart(T)
    BY <1>1, <1>2, <2>1, <2>2 DEF WorkApart
  <2>4. ApartGen(T)
    BY <1>6, <2>3, GenAttrApart, SimpleApart, GenListApart, ListNextApart, GenWhileApart,
       WhileDoneApart, GenIfApart, ThenDoneApart, IfDoneApart, GenFuncApart, FuncDoneApart
  <2> QED BY <1>1, <1>2, <2>4 DEF ApartGen, FunctionsInv
<1> QED BY <1>3, <1>4, <1>5, <1>6 DEF Generate

LEMMA FrontFunctions ==
  ASSUME IInv, HeapInv, FunctionsInv, MaxFuncs <= 1, ParserStep \/ SemanticStep
  PROVE  FunctionsInv'
<1>1. ParseInv
  BY DEF IInv, ParseInv
<1>2. PICK T : /\ FunctionsApart(tree, T)
               /\ phase = "parse" => OpenFunctions(stack, T)
  BY DEF FunctionsInv
<1>3. BranchesIn(blocks')
  BY DEF FunctionsInv, ParserStep, SemanticStep, codegenVars
<1>4. CASE ParserStep
  <2>1. phase = "parse" /\ phase' \in {"parse", "collapse", "rejected"} /\ Parse
    BY <1>1, <1>4, ParserStepKeeps DEF ParserStep
  <2>2. CASE Accept \/ Reject
    <3>1. tree' = tree /\ phase' \in {"collapse", "rejected"}
      BY <2>2 DEF Accept, Reject
    <3> QED BY <1>2, <1>3, <3>1 DEF FunctionsInv
  <2>3. CASE ~Accept /\ ~Reject
    <3>1. PICK U : FunctionsApart(tree', U) /\ OpenFunctions(stack', U)
      BY <1>1, <1>2, <2>1, <2>3, ParserApart DEF ApartParse
    <3> QED BY <1>3, <2>1, <3>1 DEF FunctionsInv
  <2> QED BY <2>2, <2>3
<1>5. CASE SemanticStep
  <2>1. phase' \in {"collapse", "declare", "exit", "setup", "fault"} /\ Analyse
    BY <1>1, <1>5, SemanticStepKeeps DEF SemanticStep
  <2>2. PICK U : FunctionsApart(tree', U)
    BY <1>1, <1>2, <2>1, PassApart
  <2> QED BY <1>3, <2>1, <2>2 DEF FunctionsInv
<1> QED BY <1>4, <1>5

LEMMA FunctionsKept ==
  ASSUME IInv, HeapInv, FunctionsInv, MaxFuncs <= 1, [Next]_vars
  PROVE  FunctionsInv'
<1>1. CASE ParserStep \/ SemanticStep
  BY <1>1, FrontFunctions
<1>2. CASE CodegenStep
  BY <1>2, GenerateFunctions DEF CodegenStep
<1>3. CASE UNCHANGED vars
  BY <1>3 DEF vars, FunctionsInv, Working
<1> QED BY <1>1, <1>2, <1>3 DEF Next, Ended

LEMMA FunctionsHold == ASSUME MaxFuncs <= 1 PROVE Spec => []FunctionsInv
<1>1. Init => FunctionsInv
  <2> SUFFICES ASSUME Init PROVE FunctionsInv
    OBVIOUS
  <2>1. phase = "parse" /\ tree = <<>> /\ stack = <<>> /\ blocks = <<>>
    BY DEF Init, ParserInit, CodegenInit
  <2>2. FunctionsApart(tree, {}) /\ OpenFunctions(stack, {}) /\ BranchesIn(blocks)
    BY <2>1 DEF FunctionsApart, OpenFunctions, BranchesIn
  <2> QED BY <2>1, <2>2 DEF FunctionsInv
<1>2. IInv /\ HeapInv /\ FunctionsInv /\ [Next]_vars => FunctionsInv'
  BY FunctionsKept
<1> QED BY <1>1, <1>2, HeapHolds, PTL DEF Spec

(* Where a program opens no FUNCTION in another one, the builder is always  *)
(* at a block of the function being generated, also while the statements of *)
(* a loop or a branch move it, and after LeaveFunction.                     *)
THEOREM TheBuilderStaysInItsFunction ==
  ASSUME MaxFuncs <= 1 PROVE Spec => []InsertsInCurrentFunc
<1>1. FunctionsInv => InsertsInCurrentFunc
  BY DEF FunctionsInv, Working, InFunc, InsertsInCurrentFunc
<1> QED BY <1>1, FunctionsHold, PTL

(* Then no branch leaves its function either: the blocks that the calls     *)
(* hold for their branches are of the function whose statements they        *)
(* generate.                                                                *)
THEOREM NoBranchLeavesItsFunction ==
  ASSUME MaxFuncs <= 1 PROVE Spec => []BranchesStayInFunction
<1>1. FunctionsInv => BranchesStayInFunction
  BY DEF FunctionsInv, BranchesIn, StaysIn, InFunc, BranchesStayInFunction
<1> QED BY <1>1, FunctionsHold, PTL
-----------------------------------------------------------------------------
(***************************************************************************)
(* Errors: declared_vars walks the tree in the order of the text.          *)
(***************************************************************************)
(* The names that the statements of one type give, in the text so far.      *)
NamesBefore(t, type, text, j) ==
  {t[text[i]].name : i \in {h \in 1..j - 1 : text[h] # 0 /\ t[text[h]].type = type}}
NamesIn(t, type, text) == NamesBefore(t, type, text, Len(text) + 1)

LEMMA NamesAppend ==
  ASSUME NEW t, NEW type, NEW text \in Text, NEW n \in Int
  PROVE  /\ \A i \in 1..Len(text) + 1 :
              NamesBefore(t, type, Append(text, n), i) = NamesBefore(t, type, text, i)
         /\ \A v : v \in NamesIn(t, type, Append(text, n)) <=>
                   v \in NamesIn(t, type, text) \/ (n # 0 /\ t[n].type = type /\ v = t[n].name)
<1> DEFINE more == Append(text, n)
           l == Len(text)
<1>1. /\ l \in Nat /\ Len(more) = l + 1 /\ more[l + 1] = n
      /\ \A i \in 1..l : more[i] = text[i]
  BY DEF Text
<1> HIDE DEF more, l
<1>2. ASSUME NEW i \in 1..l + 1
      PROVE  NamesBefore(t, type, more, i) = NamesBefore(t, type, text, i)
  <2>1. \A h \in 1..i - 1 : more[h] = text[h]
    BY <1>1
  <2> QED BY <2>1 DEF NamesBefore
<1>3. \A v : v \in NamesIn(t, type, more) <=>
              v \in NamesIn(t, type, text) \/ (n # 0 /\ t[n].type = type /\ v = t[n].name)
  <2> DEFINE Is(s, h) == s[h] # 0 /\ t[s[h]].type = type
  <2>1. \A h : h \in 1..(l + 1 + 1) - 1 <=> (h \in 1..(l + 1) - 1 \/ h = l + 1)
    BY <1>1
  <2>2. \A h \in 1..(l + 1) - 1 : more[h] = text[h]
    BY <1>1
  <2>3. NamesIn(t, type, more) = {t[more[i]].name : i \in {h \in 1..(l + 1 + 1) - 1 : Is(more, h)}}
    BY <1>1 DEF NamesIn, NamesBefore
  <2>4. NamesIn(t, type, text) = {t[text[i]].name : i \in {h \in 1..(l + 1) - 1 : Is(text, h)}}
    BY DEF NamesIn, NamesBefore, l
  <2> QED BY <1>1, <2>1, <2>2, <2>3, <2>4
<1> QED BY <1>2, <1>3 DEF more, l

Assigned(t, text) == AssignedBefore(t, text, Len(text) + 1)

(* What is assigned before a statement does not depend on what follows. *)
LEMMA AssignedAppend ==
  ASSUME NEW t, NEW text \in Text, NEW n \in Int
  PROVE  /\ \A i \in 1..Len(text) + 1 :
              AssignedBefore(t, Append(text, n), i) = AssignedBefore(t, text, i)
         /\ Assigned(t, Append(text, n)) =
              Assigned(t, text) \cup (IF n # 0 /\ t[n].type = "ATTR" THEN {t[n].name} ELSE {})
<1>1. \A s, i : AssignedBefore(t, s, i) = NamesBefore(t, "ATTR", s, i)
  BY DEF AssignedBefore, NamesBefore
<1>2. \A s : Assigned(t, s) = NamesIn(t, "ATTR", s)
  BY <1>1 DEF Assigned, NamesIn
<1>3. /\ \A i \in 1..Len(text) + 1 :
           NamesBefore(t, "ATTR", Append(text, n), i) = NamesBefore(t, "ATTR", text, i)
      /\ \A v : v \in NamesIn(t, "ATTR", Append(text, n)) <=>
                v \in NamesIn(t, "ATTR", text) \/ (n # 0 /\ t[n].type = "ATTR" /\ v = t[n].name)
  BY NamesAppend
<1>4. \A i \in 1..Len(text) + 1 :
        AssignedBefore(t, Append(text, n), i) = AssignedBefore(t, text, i)
  BY <1>1, <1>3
<1>5. Assigned(t, Append(text, n)) =
        Assigned(t, text) \cup (IF n # 0 /\ t[n].type = "ATTR" THEN {t[n].name} ELSE {})
  <2>1. CASE n # 0 /\ t[n].type = "ATTR"
    BY <1>2, <1>3, <2>1
  <2>2. CASE ~(n # 0 /\ t[n].type = "ATTR")
    BY <1>2, <1>3, <2>2
  <2> QED BY <2>1, <2>2
<1> QED BY <1>4, <1>5

(* Which reads of a statement are uncovered depends on the statement and on *)
(* the names that are assigned before it.                                   *)
Missing(reads, names) ==
  UNION {{j} \X {k \in DOMAIN reads[j] : reads[j][k] \notin names} : j \in DOMAIN reads}

LEMMA UncoveredIs ==
  \A t, text, i :
    UncoveredReads(t, text, i) = Missing(ReadsOf(t[text[i]]), AssignedBefore(t, text, i))
BY Zenon DEF UncoveredReads, Missing

(* One statement more. *)
LEMMA UsesAppend ==
  ASSUME NEW t, NEW text \in Text, NEW n \in Int
  PROVE  UncoveredUses(t, Append(text, n)) =
           UncoveredUses(t, text)
             \cup IF n = 0 THEN {}
                  ELSE {Len(text) + 1} \X UncoveredReads(t, Append(text, n), Len(text) + 1)
<1> DEFINE more == Append(text, n)
           l == Len(text)
           At(s, i) == {i} \X UncoveredReads(t, s, i)
           Is(s, i) == i \in DOMAIN s /\ s[i] # 0
<1>1. /\ l \in Nat /\ DOMAIN text = 1..l /\ DOMAIN more = 1..l + 1 /\ more[l + 1] = n
      /\ \A i \in 1..l : more[i] = text[i]
  BY DEF Text
<1>2. \A i \in 1..l : AssignedBefore(t, more, i) = AssignedBefore(t, text, i)
  <2>1. \A i \in 1..l : i \in 1..l + 1
    BY <1>1
  <2> HIDE DEF more
  <2> QED BY <2>1, AssignedAppend DEF more
<1> HIDE DEF more, l
<1>3. ASSUME NEW i \in 1..l PROVE At(more, i) = At(text, i)
  <2>1. more[i] = text[i] /\ AssignedBefore(t, more, i) = AssignedBefore(t, text, i)
    BY <1>1, <1>2
  <2>2. UncoveredReads(t, more, i) = UncoveredReads(t, text, i)
    BY <2>1, UncoveredIs
  <2> QED BY <2>2
<1>4. \A s : UncoveredUses(t, s) = UNION {At(s, i) : i \in {h \in DOMAIN s : s[h] # 0}}
  BY Zenon DEF UncoveredUses
<1> HIDE DEF At
<1>5. \A x, s : x \in UncoveredUses(t, s) <=> \E i : Is(s, i) /\ x \in At(s, i)
  BY <1>4
<1>6. \A i : Is(more, i) <=> Is(text, i) \/ (i = l + 1 /\ n # 0)
  BY <1>1
<1>7. \A i : Is(text, i) => At(more, i) = At(text, i)
  BY <1>1, <1>3
<1> HIDE DEF Is
<1>8. \A x : x \in UncoveredUses(t, more) <=>
        x \in UncoveredUses(t, text) \/ (n # 0 /\ x \in At(more, l + 1))
  BY <1>5, <1>6, <1>7
<1>9. UncoveredUses(t, more) = UncoveredUses(t, text) \cup (IF n = 0 THEN {} ELSE At(more, l + 1))
  BY <1>8
<1> QED BY <1>9 DEF At, more, l

(* ... and what it adds to the number of uses. *)
LEMMA UsesCount ==
  ASSUME NEW t, NEW text \in Text, NEW n \in Int, n # 0,
         IsFiniteSet(UncoveredUses(t, text)),
         IsFiniteSet(UncoveredReads(t, Append(text, n), Len(text) + 1))
  PROVE  /\ IsFiniteSet(UncoveredUses(t, Append(text, n)))
         /\ Cardinality(UncoveredUses(t, Append(text, n))) =
              Cardinality(UncoveredUses(t, text))
                + Cardinality(UncoveredReads(t, Append(text, n), Len(text) + 1))
<1> DEFINE l == Len(text)
           R == UncoveredReads(t, Append(text, n), l + 1)
           U == UncoveredUses(t, text)
           A == {l + 1} \X R
<1>1. UncoveredUses(t, Append(text, n)) = U \cup A
  BY UsesAppend
<1>2. U \cap A = {}
  <2>1. \A x \in U : \E i \in DOMAIN text : x \in {i} \X UncoveredReads(t, text, i)
    BY DEF UncoveredUses
  <2>2. \A x \in U : x[1] \in DOMAIN text
    <3> HIDE DEF U
    <3> QED BY <2>1
  <2>3. l + 1 \notin DOMAIN text
    BY DEF Text
  <2>4. \A x \in A : x[1] = l + 1
    <3> HIDE DEF R, l
    <3> QED OBVIOUS
  <2> HIDE DEF A, U
  <2> QED BY <2>2, <2>3, <2>4
<1> HIDE DEF R, U
<1>3. IsFiniteSet({l + 1}) /\ Cardinality({l + 1}) = 1
  BY FS_Singleton
<1>4. IsFiniteSet(R) /\ IsFiniteSet(U)
  BY DEF R, U
<1>5. Cardinality(R) \in Nat /\ Cardinality(U) \in Nat
  BY <1>4, FS_CardinalityType
<1>6. IsFiniteSet(A) /\ Cardinality(A) = Cardinality({l + 1}) * Cardinality(R)
  BY <1>3, <1>4, FS_Product
<1>7. Cardinality(A) = Cardinality(R)
  BY <1>3, <1>5, <1>6
<1> HIDE DEF A
<1>8. IsFiniteSet(U \cup A) /\ Cardinality(U \cup A) = Cardinality(U) + Cardinality(A) - Cardinality(U \cap A)
  BY <1>4, <1>6, FS_Union
<1>9. Cardinality(U \cap A) = 0
  BY <1>2, FS_EmptySet
<1> QED BY <1>1, <1>5, <1>7, <1>8, <1>9 DEF U, R, l

(* declared_vars finds the uses of one statement that the text before it    *)
(* does not cover.                                                          *)
LEMMA ErrorsAreReads ==
  ASSUME NEW src, NEW text \in Text, NEW n \in Int, NEW node \in NodeRec,
         src[n].type = node.type, src[n].name = node.name, src[n].exprs = node.exprs,
         node.type \in NamedType => node.name \in Name,
         \A v \in Name : IsDeclared(v) <=> v \in Assigned(src, text)
  PROVE  LET R == UncoveredReads(src, Append(text, n), Len(text) + 1)
         IN  IsFiniteSet(R) /\ Errors(node) = Cardinality(R)
<1> DEFINE l == Len(text)
           more == Append(text, n)
           R == UncoveredReads(src, more, l + 1)
           reads == ReadsOf(src[n])
           names == Assigned(src, text)
           LeftOut(j) == {k \in DOMAIN reads[j] : reads[j][k] \notin names}
<1>1. l \in Nat /\ more[l + 1] = n /\ AssignedBefore(src, more, l + 1) = names
  <2>1. l \in Nat /\ more[l + 1] = n /\ l + 1 \in 1..l + 1
    BY DEF Text
  <2>2. AssignedBefore(src, more, l + 1) = AssignedBefore(src, text, l + 1)
    BY <2>1, AssignedAppend
  <2> QED BY <2>1, <2>2 DEF Assigned
<1>2. R = UNION {{j} \X LeftOut(j) : j \in DOMAIN reads}
  <2>1. R = Missing(ReadsOf(src[more[l + 1]]), AssignedBefore(src, more, l + 1))
    BY UncoveredIs, Zenon
  <2>2. R = Missing(reads, names)
    <3> HIDE DEF more, l
    <3> QED BY <1>1, <2>1
  <2> QED BY <2>2, Zenon DEF Missing
<1> HIDE DEF R, more, l
<1>3. CASE node.type = "PRNT"
  <2>1. reads = << <<node.name>> >>
    BY <1>3 DEF ReadsOf
  <2>2. LeftOut(1) = IF node.name \in names THEN {} ELSE {1}
    BY <2>1
  <2>3. R = {1} \X LeftOut(1)
    BY <1>2, <2>1
  <2>4. Errors(node) = IF IsDeclared(node.name) THEN 0 ELSE 1
    BY <1>3 DEF Errors
  <2>5. IsDeclared(node.name) <=> node.name \in names
    BY <1>3 DEF NamedType
  <2>6. CASE node.name \in names
    <3>1. R = {}
      BY <2>2, <2>3, <2>6
    <3> QED BY <2>4, <2>5, <2>6, <3>1, FS_EmptySet DEF R, more, l
  <2>7. CASE node.name \notin names
    <3>1. R = {<<1, 1>>}
      BY <2>2, <2>3, <2>7
    <3> QED BY <2>4, <2>5, <2>7, <3>1, FS_Singleton DEF R, more, l
  <2> QED BY <2>6, <2>7
<1>4. CASE node.type # "PRNT"
  <2>1. DOMAIN reads = Checked(node) /\ \A j \in Checked(node) : reads[j] = Reads[node.exprs[j]]
    <3>1. CASE node.type = "ATTR" /\ IsVar(node.exprs[1])
      <4>1. reads = <<>> /\ Checked(node) = {}
        BY <3>1 DEF ReadsOf, Checked
      <4> QED BY <4>1
    <3>2. CASE ~(node.type = "ATTR" /\ IsVar(node.exprs[1]))
      <4>1. reads = [j \in DOMAIN node.exprs |-> Reads[node.exprs[j]]] /\ Checked(node) = DOMAIN node.exprs
        BY <1>4, <3>2 DEF ReadsOf, Checked
      <4> HIDE DEF reads
      <4> QED BY <4>1
    <3> QED BY <3>1, <3>2
  <2>2. ASSUME NEW j \in Checked(node) PROVE LeftOut(j) = UndeclaredReads(node.exprs[j])
    <3>1. node.exprs[j] \in Expr
      <4>1. node.exprs \in Seq(Expr) /\ Checked(node) \subseteq DOMAIN node.exprs
        BY DEF NodeRec, Checked
      <4> QED BY <4>1
    <3>2. Reads[node.exprs[j]] \in Seq(Name)
      BY <3>1, ExprAssumption
    <3>3. reads[j] = Reads[node.exprs[j]] /\ \A k \in DOMAIN reads[j] : reads[j][k] \in Name
      BY <2>1, <3>2
    <3> HIDE DEF reads, names
    <3>4. \A k \in DOMAIN reads[j] : IsDeclared(reads[j][k]) <=> reads[j][k] \in names
      BY <3>3 DEF names
    <3> QED BY <3>3, <3>4 DEF UndeclaredReads
  <2>3. R = ErrorReads(node)
    <3> HIDE DEF reads, LeftOut
    <3> QED BY <1>2, <2>1, <2>2 DEF ErrorReads
  <2>4. Errors(node) = Cardinality(R)
    BY <1>4, <2>3 DEF Errors, ErrorReads
  <2> QED BY <2>3, <2>4, ErrorsFinite DEF R, more, l
<1> QED BY <1>3, <1>4

(* A list has no expression of its own. *)
LEMMA ListsHaveNone ==
  ASSUME NEW node, node.type \in ListType, node.exprs = <<>>
  PROVE  Errors(node) = 0
<1>1. Checked(node) = {} /\ node.type # "PRNT"
  BY DEF Checked, ListType
<1>2. UNION {{j} \X UndeclaredReads(node.exprs[j]) : j \in Checked(node)} = {}
  BY <1>1
<1> QED BY <1>1, <1>2, FS_EmptySet DEF Errors

-----------------------------------------------------------------------------
(* The text that a call has told when its loop has passed i children.       *)
Begins(t, n) == IF IsList(t, n) THEN <<>> ELSE <<n>>
Ends(t, n) == IF IsList(t, n) THEN <<>> ELSE <<0>>
ToldParts(t, n) == [k \in DOMAIN t[n].kids |-> Listing(t, t[n].kids[k]) \o Ends(t, n)]
Told(t, n, i) == Begins(t, n) \o FlattenSeq(SubSeq(ToldParts(t, n), 1, i))

LEMMA PrefixAppend ==
  ASSUME NEW V, NEW s \in Seq(V), NEW i \in DOMAIN s
  PROVE  /\ SubSeq(s, 1, i - 1) \in Seq(V)
         /\ SubSeq(s, 1, i) = Append(SubSeq(s, 1, i - 1), s[i])
OBVIOUS

LEMMA ToldFacts ==
  ASSUME NEW t, Nodes(t), NEW S, S \subseteq DOMAIN t, NEW n \in S,
         Listed(t, S, [m \in Nat |-> Listing(t, m)])
  PROVE  /\ Told(t, n, 0) = Begins(t, n)
         /\ \A i \in DOMAIN t[n].kids :
              Told(t, n, i) = Told(t, n, i - 1) \o (Listing(t, t[n].kids[i]) \o Ends(t, n))
         /\ Told(t, n, Len(t[n].kids)) = Listing(t, n)
         /\ \A i \in 0..Len(t[n].kids) : Told(t, n, i) \in Text
         /\ \A i \in DOMAIN t[n].kids : Listing(t, t[n].kids[i]) \in Text
<1> DEFINE parts == ToldParts(t, n)
           kids == t[n].kids
           L == [m \in Nat |-> Listing(t, m)]
           begin == Begins(t, n)
           end == Ends(t, n)
<1>1. n \in Nat /\ kids \in Seq(Nat) /\ Len(kids) \in Nat /\ DOMAIN kids = 1..Len(kids)
  BY DEF Nodes
<1>2. begin \in Seq(Int) /\ end \in Seq(Int)
  BY <1>1 DEF Begins, Ends
<1>3. \A m \in Nat : Listing(t, m) \in Seq(Int)
  <2>1. L \in [Nat -> Text]
    BY DEF Listed
  <2> QED BY <2>1 DEF Text
<1>4. Listing(t, n) = begin \o FlattenSeq(parts)
  <2>1. L[n] = TextOf(t, n, L)
    BY DEF Listed
  <2>2. ToldParts(t, n) = [k \in DOMAIN t[n].kids |-> L[t[n].kids[k]] \o (IF IsList(t, n) THEN <<>> ELSE <<0>>)]
    <3>1. \A k \in DOMAIN t[n].kids : L[t[n].kids[k]] = Listing(t, t[n].kids[k])
      BY <1>1
    <3> HIDE DEF L
    <3> QED BY <3>1 DEF ToldParts, Ends
  <2>3. TextOf(t, n, L) = IF IsList(t, n) THEN FlattenSeq(parts) ELSE <<n>> \o FlattenSeq(parts)
    <3> HIDE DEF L
    <3> QED BY <2>2, Zenon DEF TextOf
  <2>4. L[n] = Listing(t, n)
    BY <1>1
  <2> HIDE DEF L, parts
  <2>5. CASE IsList(t, n)
    <3>1. begin = <<>> /\ FlattenSeq(parts) \in Seq(Int)
      <4>1. Listing(t, n) = FlattenSeq(parts)
        BY <2>1, <2>3, <2>4, <2>5
      <4> QED BY <1>1, <1>3, <2>5, <4>1 DEF Begins
    <3>2. <<>> \o FlattenSeq(parts) = FlattenSeq(parts)
      BY <3>1
    <3> QED BY <2>1, <2>3, <2>4, <2>5, <3>1, <3>2
  <2>6. CASE ~IsList(t, n)
    BY <2>1, <2>3, <2>4, <2>6 DEF Begins
  <2> QED BY <2>5, <2>6
<1>5. parts \in Seq(Seq(Int)) /\ Len(parts) = Len(kids) /\ DOMAIN parts = DOMAIN kids
      /\ \A k \in DOMAIN kids : parts[k] = Listing(t, kids[k]) \o end
  <2>1. parts = [k \in 1..Len(kids) |-> Listing(t, kids[k]) \o end]
    BY <1>1 DEF ToldParts
  <2>2. \A k \in 1..Len(kids) : Listing(t, kids[k]) \o end \in Seq(Int)
    <3> SUFFICES ASSUME NEW k \in 1..Len(kids) PROVE Listing(t, kids[k]) \o end \in Seq(Int)
      OBVIOUS
    <3>1. kids[k] \in Nat
      BY <1>1
    <3>2. Listing(t, kids[k]) \in Seq(Int)
      BY <1>3, <3>1
    <3> HIDE DEF end, kids
    <3> QED BY <1>2, <3>2
  <2> DEFINE part(k) == Listing(t, kids[k]) \o end
  <2>3. parts = [k \in 1..Len(kids) |-> part(k)] /\ \A k \in 1..Len(kids) : part(k) \in Seq(Int)
    BY <2>1, <2>2
  <2> HIDE DEF part, parts, kids
  <2>4. parts \in Seq(Seq(Int)) /\ Len(parts) = Len(kids) /\ DOMAIN parts = DOMAIN kids
        /\ \A k \in DOMAIN kids : parts[k] = part(k)
    BY <1>1, <2>3
  <2> QED BY <2>4 DEF part
<1>6. \A i : Told(t, n, i) = begin \o FlattenSeq(SubSeq(parts, 1, i))
  BY DEF Told
<1> HIDE DEF parts, kids, begin, end, L
<1>7. Told(t, n, 0) = begin
  <2>1. SubSeq(parts, 1, 0) = <<>>
    BY <1>5
  <2>2. begin \o <<>> = begin
    BY <1>2
  <2> QED BY <1>6, <2>1, <2>2, FlattenEmpty
<1>8. Told(t, n, Len(kids)) = Listing(t, n)
  <2>1. SubSeq(parts, 1, Len(kids)) = parts
    BY <1>5
  <2> QED BY <1>4, <1>6, <2>1
<1>9. ASSUME NEW i \in 0..Len(kids)
      PROVE  FlattenSeq(SubSeq(parts, 1, i)) \in Seq(Int) /\ Told(t, n, i) \in Text
  <2>1. SubSeq(parts, 1, i) \in Seq(Seq(Int))
    BY <1>1, <1>5
  <2>2. FlattenSeq(SubSeq(parts, 1, i)) \in Seq(Int)
    BY <2>1, FlattenType
  <2> DEFINE x == FlattenSeq(SubSeq(parts, 1, i))
  <2>3. x \in Seq(Int) /\ Told(t, n, i) = begin \o x
    BY <1>6, <2>2
  <2> HIDE DEF x
  <2>4. begin \o x \in Seq(Int)
    BY <1>2, <2>3
  <2> QED BY <2>2, <2>3, <2>4 DEF Text
<1>10. ASSUME NEW i \in DOMAIN kids
       PROVE  Told(t, n, i) = Told(t, n, i - 1) \o (Listing(t, kids[i]) \o end)
  <2>1. i \in DOMAIN parts /\ parts[i] \in Seq(Int) /\ i - 1 \in 0..Len(kids)
    BY <1>1, <1>5
  <2>2. SubSeq(parts, 1, i - 1) \in Seq(Seq(Int)) /\ SubSeq(parts, 1, i) = Append(SubSeq(parts, 1, i - 1), parts[i])
    BY <1>5, <2>1, PrefixAppend
  <2>3. FlattenSeq(SubSeq(parts, 1, i)) = FlattenSeq(SubSeq(parts, 1, i - 1)) \o parts[i]
    BY <2>1, <2>2, FlattenAppend
  <2>4. FlattenSeq(SubSeq(parts, 1, i - 1)) \in Seq(Int)
    BY <1>9, <2>1
  <2>5. begin \o (FlattenSeq(SubSeq(parts, 1, i - 1)) \o parts[i]) =
          (begin \o FlattenSeq(SubSeq(parts, 1, i - 1))) \o parts[i]
    <3> DEFINE x == FlattenSeq(SubSeq(parts, 1, i - 1))
               y == parts[i]
    <3>1. x \in Seq(Int) /\ y \in Seq(Int)
      BY <2>1, <2>4
    <3> HIDE DEF x, y
    <3>2. (begin \o x) \o y = begin \o (x \o y)
      BY <1>2, <3>1, ConcatAssociative
    <3> QED BY <3>2 DEF x, y
  <2> QED BY <1>5, <1>6, <2>3, <2>5
<1>11. \A i \in DOMAIN kids : Listing(t, kids[i]) \in Text
  BY <1>1, <1>3 DEF Text
<1> QED BY <1>7, <1>8, <1>9, <1>10, <1>11 DEF kids, begin, end

-----------------------------------------------------------------------------
(* The walk of declared_vars: at[k] is the text before the call at depth k, *)
(* and the last entry all that has been told.                               *)
Telling(t, gone, fr, at) ==
  /\ at \in [1..Len(fr) + 1 -> Text] /\ at[1] = <<>>
  /\ \A k \in DOMAIN fr :
       /\ fr[k].r \notin gone /\ fr[k].i - 1 \in 0..Len(t[fr[k].r].kids)
       /\ at[k + 1] = at[k] \o Told(t, fr[k].r, fr[k].i - 1)
Cut(at, m, text) == [k \in 1..m |-> IF k = m THEN text ELSE at[k]]

LEMMA ToldNow ==
  ASSUME Walking, NEW n \in DOMAIN tree \ freed
  PROVE  /\ Told(tree, n, 0) = Begins(tree, n)
         /\ \A i \in DOMAIN tree[n].kids :
              Told(tree, n, i) = Told(tree, n, i - 1) \o (Listing(tree, tree[n].kids[i]) \o Ends(tree, n))
         /\ Told(tree, n, Len(tree[n].kids)) = Listing(tree, n)
         /\ \A i \in 0..Len(tree[n].kids) : Told(tree, n, i) \in Text
         /\ \A i \in DOMAIN tree[n].kids : Listing(tree, tree[n].kids[i]) \in Text
         /\ Begins(tree, n) \in Text /\ Ends(tree, n) \in Text
<1> DEFINE S == DOMAIN tree \ freed
<1>1. Nodes(tree)
  BY WalkFacts
<1>2. PICK rank : Ranking(tree, S, rank)
  BY DEF Walking, Linked
<1>3. ClosedUnder(tree, S)
  BY DEF Walking, Linked
<1> HIDE DEF S
<1>4. Listed(tree, S, [m \in Nat |-> Listing(tree, m)])
  BY <1>1, <1>2, <1>3, ListingReads
<1>5. n \in S /\ S \subseteq DOMAIN tree
  BY DEF S
<1>6. Begins(tree, n) \in Text /\ Ends(tree, n) \in Text
  <2>1. n \in Int
    BY <1>1 DEF Nodes
  <2> QED BY <2>1 DEF Begins, Ends, Text
<1> QED BY <1>1, <1>4, <1>5, <1>6, ToldFacts

LEMMA TextConcat ==
  ASSUME NEW a \in Text, NEW b \in Text, NEW c \in Text
  PROVE  a \o b \in Text /\ (a \o b) \o c = a \o (b \o c)
BY DEF Text

LEMMA TextAppend ==
  ASSUME NEW a \in Text, NEW n \in Int PROVE a \o <<n>> = Append(a, n)
BY DEF Text

LEMMA EnterTelling ==
  ASSUME Walking, NEW at, Telling(tree, freed, frames, at), NEW no \in DOMAIN tree \ freed,
         frames' = Append(frames, [r |-> no, i |-> 1])
  PROVE  LET l == Len(frames)
         IN  Telling(tree, freed, frames', Cut(at, l + 2, at[l + 1] \o Begins(tree, no)))
<1> DEFINE l == Len(frames)
           fr == frames'
           new == Cut(at, l + 2, at[l + 1] \o Begins(tree, no))
<1>1. frames \in Seq(Frame) /\ l \in Nat /\ DOMAIN frames = 1..l
  BY WalkFacts
<1>2. /\ Len(fr) = l + 1 /\ DOMAIN fr = 1..l + 1 /\ fr[l + 1].r = no /\ fr[l + 1].i = 1
      /\ \A k \in 1..l : fr[k] = frames[k]
  BY <1>1
<1> HIDE DEF l, fr
<1>3. at[l + 1] \in Text /\ at[1] = <<>> /\ \A k \in 1..l + 1 : at[k] \in Text
  BY <1>1 DEF Telling, l
<1>4. at[l + 1] \o Begins(tree, no) \in Text
  BY <1>3, ToldNow, TextConcat
<1>5. /\ new \in [1..(l + 1) + 1 -> Text] /\ new[l + 2] = at[l + 1] \o Begins(tree, no)
      /\ \A k \in 1..l + 1 : new[k] = at[k]
  BY <1>1, <1>3, <1>4 DEF Cut
<1> HIDE DEF new
<1>6. ASSUME NEW k \in 1..l + 1
      PROVE  /\ fr[k].r \notin freed /\ fr[k].i - 1 \in 0..Len(tree[fr[k].r].kids)
             /\ new[k + 1] = new[k] \o Told(tree, fr[k].r, fr[k].i - 1)
  <2>1. CASE k = l + 1
    <3>1. Told(tree, no, 0) = Begins(tree, no)
      BY ToldNow
    <3>2. Len(tree[no].kids) \in Nat
      BY WalkFacts
    <3>3. k + 1 = l + 2 /\ fr[k].i - 1 = 0
      BY <1>1, <1>2, <2>1
    <3>4. new[k + 1] = at[l + 1] \o Begins(tree, no) /\ new[k] = at[l + 1]
      BY <1>5, <2>1, <3>3
    <3>5. fr[k].r = no /\ no \notin freed
      BY <1>2, <2>1
    <3>6. new[k + 1] = new[k] \o Told(tree, fr[k].r, fr[k].i - 1)
      <4>1. Told(tree, fr[k].r, fr[k].i - 1) = Begins(tree, no)
        BY <3>1, <3>3, <3>5
      <4> QED BY <3>4, <4>1
    <3>7. 0 \in 0..Len(tree[fr[k].r].kids)
      BY <3>2, <3>5
    <3> QED BY <3>3, <3>5, <3>6, <3>7
  <2>2. CASE k # l + 1
    <3>1. k \in 1..l /\ k \in DOMAIN frames /\ k + 1 \in 1..l + 1 /\ fr[k] = frames[k]
      BY <1>1, <1>2, <2>2
    <3> QED BY <1>5, <3>1 DEF Telling
  <2> QED BY <2>1, <2>2
<1>7. new[1] = <<>>
  <2>1. 1 \in 1..l + 1
    BY <1>1
  <2> QED BY <1>3, <1>5, <2>1
<1> QED BY <1>2, <1>5, <1>6, <1>7 DEF Telling, new, l, fr

(* A call that has told all its children has told the child that its caller *)
(* is at.                                                                   *)
LEMMA ReturnTelling ==
  ASSUME Walking, Returns, Resume, NEW at, Telling(tree, freed, frames, at)
  PROVE  LET l == Len(frames)
         IN  Telling(tree, freed, frames', Cut(at, l, at[l + 1] \o Ends(tree, Caller.r)))
<1> DEFINE l == Len(frames)
           d == Len(frames) - 1
           fr == frames'
           n == Caller.r
           i == Caller.i
           c == frames[l].r
           new == Cut(at, l, at[l + 1] \o Ends(tree, n))
<1>1. Resumed(frames, frames')
  BY ResumeIs
<1>2. l \in Nat /\ l > 1 /\ d \in Nat /\ d + 1 = l /\ l \in DOMAIN frames /\ d \in DOMAIN frames
      /\ DOMAIN frames = 1..l /\ Caller = frames[d]
      /\ n \in DOMAIN tree \ freed /\ i \in DOMAIN tree[n].kids /\ tree[n].kids[i] = ActOn
      /\ SlotIn(tree, root, frames, l) = ActOn
  <2>1. l \in Nat /\ l > 1
    BY WalkFacts DEF Returns
  <2> QED BY <2>1, ActFacts
<1>3. c \notin freed /\ c \in DOMAIN tree /\ c = ActOn
  <2> HIDE DEF l
  <2> QED BY <1>2 DEF Telling, Walking, Path
<1>4. /\ DOMAIN fr = 1..d /\ Len(fr) = d
      /\ \A k \in 1..d : fr[k].r = frames[k].r /\ fr[k].i = IF k = d THEN frames[k].i + 1 ELSE frames[k].i
  BY <1>1 DEF Resumed
<1> HIDE DEF fr
<1>5. /\ \A k \in 1..l + 1 : at[k] \in Text
      /\ \A k \in DOMAIN frames :
           /\ frames[k].r \notin freed /\ frames[k].i - 1 \in 0..Len(tree[frames[k].r].kids)
           /\ at[k + 1] = at[k] \o Told(tree, frames[k].r, frames[k].i - 1)
      /\ at[1] = <<>>
  BY DEF Telling
<1>6. at[l + 1] = at[l] \o Listing(tree, c)
  <2>1. frames[l].i - 1 = Len(tree[c].kids)
    <3>1. Top = frames[l]
      BY DEF Top, Last
    <3>2. ~(frames[l].i <= Len(tree[c].kids))
      BY <3>1 DEF Returns, MoreKids
    <3>3. frames[l].i - 1 \in 0..Len(tree[c].kids) /\ frames[l].i \in Nat /\ Len(tree[c].kids) \in Nat
      <4>1. l \in DOMAIN frames /\ c = frames[l].r
        BY <1>2
      <4>2. Len(tree[c].kids) \in Nat
        <5> HIDE DEF c
        <5> QED BY <1>3, WalkFacts
      <4>3. frames[l].i \in Nat
        <5> HIDE DEF l
        <5> QED BY <4>1, WalkFacts
      <4> QED BY <1>5, <4>1, <4>2, <4>3
    <3> HIDE DEF c, l
    <3> QED BY <3>2, <3>3
  <2>2. Told(tree, c, Len(tree[c].kids)) = Listing(tree, c)
    <3> HIDE DEF c
    <3> QED BY <1>3, ToldNow
  <2> QED BY <1>2, <1>5, <2>1, <2>2
<1> HIDE DEF l, d, c, n, i
<1>7. /\ at[d] \in Text /\ at[l] = at[d] \o Told(tree, n, i - 1)
      /\ frames[d].r = n /\ frames[d].i = i
  <2>1. frames[d].r = n /\ frames[d].i = i
    BY <1>2 DEF n, i
  <2>2. d \in 1..l + 1
    BY <1>2
  <2> QED BY <1>2, <1>5, <2>1, <2>2
<1>8. i \in Nat /\ i - 1 \in 0..Len(tree[n].kids) /\ i \in 0..Len(tree[n].kids) /\ i > 0
  <2>1. tree[n].kids \in Seq(Nat)
    BY <1>2, WalkFacts
  <2> QED BY <1>2, <2>1
<1>9. at[l + 1] \o Ends(tree, n) = at[d] \o Told(tree, n, i)
  <2> DEFINE x == Told(tree, n, i - 1)
             y == Listing(tree, c)
             z == Ends(tree, n)
  <2>1. x \in Text /\ y \in Text /\ z \in Text /\ Told(tree, n, i) = x \o (y \o z)
    BY <1>2, <1>3, <1>8, ToldNow
  <2>2. at[l + 1] = (at[d] \o x) \o y
    BY <1>6, <1>7
  <2> HIDE DEF x, y, z
  <2>3. (at[d] \o x) \o y = at[d] \o (x \o y) /\ x \o y \in Text
    BY <1>7, <2>1, TextConcat
  <2>4. (x \o y) \o z = x \o (y \o z)
    BY <2>1, TextConcat
  <2>5. (at[d] \o (x \o y)) \o z = at[d] \o ((x \o y) \o z)
    <3> DEFINE w == x \o y
    <3>1. w \in Text
      BY <2>3
    <3> HIDE DEF w
    <3>2. (at[d] \o w) \o z = at[d] \o (w \o z)
      BY <1>7, <2>1, <3>1, TextConcat
    <3> QED BY <3>2 DEF w
  <2> QED BY <2>5, <2>1, <2>2, <2>3, <2>4 DEF z
<1>10. at[l + 1] \o Ends(tree, n) \in Text
  <2>1. at[l + 1] \in Text
    BY <1>2, <1>5
  <2> QED BY <1>2, <2>1, ToldNow, TextConcat
<1>11. /\ new \in [1..d + 1 -> Text] /\ new[d + 1] = at[l + 1] \o Ends(tree, n)
       /\ \A k \in 1..d : new[k] = at[k]
  BY <1>2, <1>5, <1>10 DEF Cut
<1> HIDE DEF new
<1>12. ASSUME NEW k \in 1..d
       PROVE  /\ fr[k].r \notin freed /\ fr[k].i - 1 \in 0..Len(tree[fr[k].r].kids)
              /\ new[k + 1] = new[k] \o Told(tree, fr[k].r, fr[k].i - 1)
  <2>0. k \in DOMAIN frames
    BY <1>2
  <2>1. CASE k = d
    <3>1. fr[k].r = n /\ fr[k].i = i + 1 /\ fr[k].i - 1 = i
      BY <1>4, <1>7, <1>8, <2>1
    <3> QED BY <1>2, <1>8, <1>9, <1>11, <2>1, <3>1
  <2>2. CASE k # d
    <3>1. k + 1 \in 1..d /\ fr[k].r = frames[k].r /\ fr[k].i = frames[k].i
      BY <1>2, <1>4, <2>2
    <3> QED BY <1>5, <1>11, <2>0, <3>1
  <2> QED BY <2>1, <2>2
<1>13. new[1] = <<>>
  <2>1. 1 \in 1..d
    BY <1>2
  <2> QED BY <1>5, <1>11, <2>1
<1> QED BY <1>4, <1>11, <1>12, <1>13 DEF Telling, new, fr, l, n

-----------------------------------------------------------------------------
(* Lists have no expressions and simple statements no children.  The pass   *)
(* that flattens the lists makes no other node, and the second pass finds   *)
(* every statement as it was parsed.                                        *)
PlainNodes(t) == \A n \in DOMAIN t :
  /\ t[n].type \in ListType => t[n].exprs = <<>>
  /\ t[n].type \in LeafType => t[n].kids = <<>>
Same(x, y) == x.type = y.type /\ x.name = y.name /\ x.exprs = y.exprs
Copied(t, src) == \A n \in DOMAIN t : t[n].type \notin ListType => Same(src[n], t[n])
Unused(syms) == \A s \in DOMAIN syms : ~syms[s].exists

LEMMA ReducePlain ==
  ASSUME ParseInv, PlainNodes(tree), NEW k, NEW sym, NEW type, NEW name, NEW exprs, NEW kids,
         Reduce(k, sym, create_no(type, name, exprs, kids)),
         type \in ListType => exprs = <<>>, type \in LeafType => kids = <<>>
  PROVE  PlainNodes(tree')
<1> DEFINE node == create_no(type, name, exprs, kids)
<1>1. tree' = Append(tree, node) /\ tree \in Seq(NodeRec)
  BY DEF Reduce, ParseInv, TypeOK
<1>2. node.type = type /\ node.exprs = exprs /\ node.kids = kids
  BY DEF create_no
<1> HIDE DEF node
<1>3. \A n \in DOMAIN tree' : (n \in DOMAIN tree /\ tree'[n] = tree[n]) \/ tree'[n] = node
  BY <1>1
<1> QED BY <1>2, <1>3 DEF PlainNodes

LEMMA AddUnused ==
  ASSUME NEW syms \in Seq(Symbol), Unused(syms), NEW name
  PROVE  Unused(add_symbol(syms, name))
<1> DEFINE symbol == [name |-> name, exists |-> FALSE, llvm |-> NullValue]
<1>1. add_symbol(syms, name) = syms \/ add_symbol(syms, name) = Append(syms, symbol)
  BY DEF add_symbol
<1>2. ~symbol.exists
  OBVIOUS
<1> HIDE DEF symbol
<1>3. \A s \in DOMAIN Append(syms, symbol) :
        (s \in DOMAIN syms /\ Append(syms, symbol)[s] = syms[s]) \/ Append(syms, symbol)[s] = symbol
  OBVIOUS
<1> QED BY <1>1, <1>2, <1>3, Zenon DEF Unused

LEMMA ParserPlain ==
  ASSUME ParseInv, PlainNodes(tree), Unused(synames), Parse
  PROVE  PlainNodes(tree') /\ Unused(synames')
<1>0. synames \in Seq(Symbol)
  BY DEF ParseInv, TypeOK
<1>1. ASSUME UNCHANGED <<tree, synames>> PROVE PlainNodes(tree') /\ Unused(synames')
  BY <1>1 DEF PlainNodes, Unused
<1>2. ASSUME synames' = synames \/ \E name : synames' = add_symbol(synames, name)
      PROVE  Unused(synames')
  BY <1>0, <1>2, AddUnused
<1>3. ASSUME NEW type \in LeafType, NEW name, NEW exprs, NEW k, NEW sym,
             Reduce(k, sym, create_no(type, name, exprs, <<>>))
      PROVE  PlainNodes(tree')
  <2>1. type \notin ListType
    BY DEF LeafType, ListType
  <2> QED BY <1>3, <2>1, ReducePlain
<1>4. ASSUME NEW type \in {"WHILE", "IF", "FUNC"}, NEW name, NEW exprs, NEW kids, NEW k, NEW sym,
             Reduce(k, sym, create_no(type, name, exprs, kids))
      PROVE  PlainNodes(tree')
  <2>1. type \notin ListType /\ type \notin LeafType
    BY DEF LeafType, ListType
  <2> QED BY <1>4, <2>1, ReducePlain
<1>5. ASSUME NEW type \in ListType, NEW kids, NEW k, NEW sym,
             Reduce(k, sym, create_no(type, NoName, <<>>, kids))
      PROVE  PlainNodes(tree')
  <2>1. type \notin LeafType
    BY DEF LeafType, ListType
  <2> QED BY <1>5, <2>1, ReducePlain
<1>6. CASE StmtAttr \/ StmtOut \/ StmtDelay \/ StmtNamed("PRNT", Name) \/ StmtNamed("CALL", FuncName)
  <2>1. synames' = synames \/ \E name : synames' = add_symbol(synames, name)
    BY <1>6 DEF StmtAttr, StmtOut, StmtDelay, StmtNamed
  <2>2. PICK type \in LeafType : \E name, exprs, k, sym :
          Reduce(k, sym, create_no(type, name, exprs, <<>>))
    BY <1>6 DEF StmtAttr, StmtOut, StmtDelay, StmtNamed, LeafType
  <2>3. PICK name, exprs, k, sym : Reduce(k, sym, create_no(type, name, exprs, <<>>))
    BY <2>2
  <2> QED BY <1>2, <1>3, <2>1, <2>3
<1>7. CASE StmtError \/ OpenWhile \/ OpenIf \/ OpenFunction \/ OpenElse \/ StmtIf \/ Accept \/ Reject
  BY <1>1, <1>7 DEF StmtError, OpenWhile, OpenIf, OpenFunction, Open, OpenElse, StmtIf, Accept, Reject
<1>8. CASE ReduceLast \/ ReduceStmts
  <2>1. synames' = synames
    BY <1>8 DEF ReduceLast, ReduceStmts
  <2>2. PICK type \in ListType : \E kids, k, sym :
          Reduce(k, sym, create_no(type, NoName, <<>>, kids))
    BY <1>8 DEF ReduceLast, ReduceStmts, ListType
  <2>3. PICK kids, k, sym : Reduce(k, sym, create_no(type, NoName, <<>>, kids))
    BY <2>2
  <2> QED BY <1>2, <1>5, <2>1, <2>3
<1>9. CASE CloseWhile \/ CloseIf \/ CloseElse \/ CloseElseIf \/ CloseFunction
  <2>1. synames' = synames \/ \E name : synames' = add_symbol(synames, name)
    BY <1>9 DEF CloseWhile, CloseIf, CloseElse, CloseElseIf, CloseFunction
  <2>2. PICK type \in {"WHILE", "IF", "FUNC"} : \E name, exprs, kids, k, sym :
          Reduce(k, sym, create_no(type, name, exprs, kids))
    BY <1>9 DEF CloseWhile, CloseIf, CloseElse, CloseElseIf, CloseFunction
  <2>3. PICK name, exprs, kids, k, sym : Reduce(k, sym, create_no(type, name, exprs, kids))
    BY <2>2
  <2> QED BY <1>2, <1>4, <2>1, <2>3
<1> QED BY <1>6, <1>7, <1>8, <1>9 DEF Parse

(* What a graft does to the nodes. *)
Grown(t, u) == \A n \in DOMAIN u :
  \/ n \in DOMAIN t /\ Same(u[n], t[n]) /\ (t[n].kids = <<>> => u[n].kids = <<>>)
  \/ u[n].type = "STMTS" /\ u[n].exprs = <<>>

LEMMA GrownPlain ==
  ASSUME NEW t, NEW u, NEW src, Grown(t, u), PlainNodes(t), Copied(t, src)
  PROVE  PlainNodes(u) /\ Copied(u, src)
<1>1. "STMTS" \in ListType /\ "STMTS" \notin LeafType
  BY DEF ListType, LeafType
<1> QED BY <1>1 DEF Grown, PlainNodes, Copied, Same

LEMMA GraftGrown ==
  ASSUME ParseInv, PlainNodes(tree), GraftInPlace \/ GraftMoved
  PROVE  Grown(tree, tree')
<1>1. tree \in Seq(NodeRec)
  BY DEF ParseInv, TypeOK
<1>2. Grafted.type = "STMTS" /\ Grafted.exprs = <<>> /\ ActRoot \in DOMAIN tree
  <2>1. ActRoot \in DOMAIN tree /\ tree[ActRoot].type = "STMTS" /\ tree[ActRoot] \in NodeRec
    BY <1>1 DEF GraftInPlace, GraftMoved, Grafts
  <2>2. \A kids : \A node \in NodeRec : [node EXCEPT !.kids = kids].type = node.type
                                        /\ [node EXCEPT !.kids = kids].exprs = node.exprs
    BY DEF NodeRec
  <2>3. tree[ActRoot].exprs = <<>>
    BY <2>1 DEF PlainNodes, ListType
  <2> QED BY <2>1, <2>2, <2>3 DEF Grafted
<1>3. CASE GraftInPlace
  <2>1. tree' = [tree EXCEPT ![ActRoot] = Grafted]
    BY <1>3 DEF GraftInPlace
  <2> QED BY <1>1, <1>2, <2>1 DEF Grown, Same
<1>4. CASE GraftMoved
  <2> DEFINE d == Len(frames) - 1
             up == frames[d - 1].r
             node == SetKid(tree[up], frames[d - 1].i, Len(tree) + 1)
             before == IF d = 1 THEN tree ELSE [tree EXCEPT ![up] = node]
  <2>1. tree' = Append(before, Grafted)
    BY <1>4, Zenon DEF GraftMoved
  <2>2. \A x \in NodeRec : \A i, no : /\ Same(SetKid(x, i, no), x)
                                      /\ x.kids = <<>> => SetKid(x, i, no).kids = <<>>
    BY DEF NodeRec, SetKid, Same
  <2>3. /\ Len(before) = Len(tree) /\ DOMAIN before = DOMAIN tree /\ before \in Seq(NodeRec \cup {node})
        /\ \A n \in DOMAIN tree : /\ Same(before[n], tree[n])
                                  /\ tree[n].kids = <<>> => before[n].kids = <<>>
    <3>1. up \in DOMAIN tree => Same(node, tree[up]) /\ (tree[up].kids = <<>> => node.kids = <<>>)
      BY <1>1, <2>2
    <3> HIDE DEF node, up
    <3> QED BY <1>1, <3>1 DEF Same
  <2> HIDE DEF before
  <2>4. \A n \in DOMAIN tree' : \/ n \in DOMAIN tree /\ tree'[n] = before[n]
                                \/ tree'[n] = Grafted
    BY <2>1, <2>3
  <2> QED BY <1>1, <1>2, <2>3, <2>4 DEF Grown
<1> QED BY <1>3, <1>4

-----------------------------------------------------------------------------
(* The invariant of the errors.  While the second pass walks the tree, what *)
(* it has counted are the uncovered uses of what it has told, and the names *)
(* that exist are those assigned there; the assignment that it is visiting  *)
(* is told but declares its name when its call returns.                     *)
Counted(src, count, text) ==
  IsFiniteSet(UncoveredUses(src, text)) /\ count = Cardinality(UncoveredUses(src, text))
DeclaredText(t, fr, at) ==
  IF fr # <<>> /\ t[fr[Len(fr)].r].type = "ATTR" THEN at[Len(fr)] ELSE at[Len(fr) + 1]
Declaring(at) ==
  /\ Telling(tree, freed, frames, at)
  /\ Counted(source.tree, error_count, at[Len(frames) + 1])
  /\ \A v \in Name : IsDeclared(v) <=> v \in Assigned(source.tree, DeclaredText(tree, frames, at))
ErrorsInv ==
  /\ PlainNodes(tree)
  /\ phase \in {"parse", "collapse"} => error_count = 0 /\ Unused(synames)
  /\ PassPhase => Copied(tree, source.tree)
  /\ phase = "declare" => \E at : Declaring(at)
  /\ ErrorsAreTheUncoveredUses

(* A new call. *)
LEMMA EnterDeclaring ==
  ASSUME Walking, PlainNodes(tree), Copied(tree, source.tree), NEW at, Declaring(at),
         NEW no \in DOMAIN tree \ freed, Enter(no), phase = "declare", UNCHANGED source,
         \/ frames = <<>>
         \/ frames # <<>> /\ MoreKids
  PROVE  \E new : Declaring(new)'
<1> DEFINE l == Len(frames)
           text == at[l + 1]
           node == tree[no]
           src == source.tree
           new == Cut(at, l + 2, text \o Begins(tree, no))
<1>1. /\ frames' = Append(frames, [r |-> no, i |-> 1]) /\ error_count' = error_count + Errors(node)
      /\ UNCHANGED <<tree, freed, root, synames>>
  BY DEF Enter
<1>2. /\ frames \in Seq(Frame) /\ l \in Nat /\ DOMAIN frames = 1..l
      /\ Len(frames') = l + 1 /\ frames'[l + 1].r = no /\ frames' # <<>>
  BY <1>1, WalkFacts
<1>3. Telling(tree, freed, frames', new)
  BY <1>1, EnterTelling DEF Declaring
<1>4. /\ text \in Text /\ text \o Begins(tree, no) \in Text
      /\ new[l + 2] = text \o Begins(tree, no) /\ new[l + 1] = text
  <2>1. text \in Text
    BY <1>2 DEF Declaring, Telling
  <2>2. l + 2 \in 1..l + 2 /\ l + 1 \in 1..l + 2 /\ l + 1 # l + 2
    BY <1>2
  <2> HIDE DEF l, text
  <2>3. text \o Begins(tree, no) \in Text
    BY <2>1, ToldNow, TextConcat
  <2> QED BY <2>1, <2>2, <2>3 DEF Cut, text
<1>5. DeclaredText(tree, frames, at) = text
  <2>1. CASE frames = <<>>
    BY <2>1 DEF DeclaredText
  <2>2. CASE frames # <<>> /\ MoreKids
    <3>1. l \in DOMAIN frames /\ frames[l].r \in DOMAIN tree /\ frames[l].i \in DOMAIN tree[frames[l].r].kids
      BY <2>2, TopLive
    <3>2. tree[frames[l].r].type # "ATTR"
      BY <3>1 DEF PlainNodes, LeafType
    <3> QED BY <3>2 DEF DeclaredText
  <2> QED BY <2>1, <2>2
<1> HIDE DEF new, text
<1>6. \A v \in Name : IsDeclared(v) <=> v \in Assigned(src, text)
  BY <1>5 DEF Declaring
<1>7. IsFiniteSet(UncoveredUses(src, text)) /\ error_count = Cardinality(UncoveredUses(src, text))
  BY DEF Declaring, Counted, text
<1>8. node \in NodeRec /\ no \in Int /\ no # 0 /\ (node.type \in NamedType => node.name \in Name)
  <2>1. tree \in Seq(NodeRec) /\ NodeShape(tree, tree[no])
    BY DEF Walking, ParseInv, TypeOK, TreeShape
  <2> QED BY <2>1 DEF NodeShape
<1>9. /\ Counted(src, error_count', new[l + 2])
      /\ node.type # "ATTR" => Assigned(src, new[l + 2]) = Assigned(src, text)
  <2>1. CASE IsList(tree, no)
    <3>1. node.type \in ListType
      BY <2>1 DEF IsList, ListType
    <3>2. Errors(node) = 0
      BY <3>1, ListsHaveNone DEF PlainNodes
    <3>3. new[l + 2] = text
      <4>1. Begins(tree, no) = <<>> /\ text \o <<>> = text
        BY <1>4, <2>1 DEF Begins, Text
      <4> QED BY <1>4, <4>1
    <3>4. error_count' = error_count
      BY <1>1, <3>2 DEF Walking, ParseInv, TypeOK, SemanticTypeOK
    <3> QED BY <1>7, <3>3, <3>4 DEF Counted
  <2>2. CASE ~IsList(tree, no)
    <3> DEFINE more == Append(text, no)
    <3>1. new[l + 2] = more
      <4>1. Begins(tree, no) = <<no>> /\ text \o <<no>> = Append(text, no)
        BY <1>4, <1>8, <2>2 DEF Begins, Text
      <4> QED BY <1>4, <4>1
    <3>2. src[no].type = node.type /\ src[no].name = node.name /\ src[no].exprs = node.exprs
      <4>1. node.type \notin ListType
        BY <2>2 DEF IsList, ListType
      <4> QED BY <4>1 DEF Copied, Same
    <3> HIDE DEF node, src
    <3>3. LET R == UncoveredReads(src, more, Len(text) + 1)
          IN  IsFiniteSet(R) /\ Errors(node) = Cardinality(R)
      BY <1>4, <1>6, <1>8, <3>2, ErrorsAreReads
    <3> HIDE DEF more
    <3>4. /\ IsFiniteSet(UncoveredUses(src, more))
          /\ Cardinality(UncoveredUses(src, more)) =
               Cardinality(UncoveredUses(src, text)) + Cardinality(UncoveredReads(src, more, Len(text) + 1))
      BY <1>4, <1>7, <1>8, <3>3, UsesCount DEF more
    <3>5. Counted(src, error_count', more)
      BY <1>1, <1>7, <3>3, <3>4 DEF Counted
    <3>6. node.type # "ATTR" => Assigned(src, more) = Assigned(src, text)
      <4>1. Assigned(src, more) =
              Assigned(src, text) \cup (IF no # 0 /\ src[no].type = "ATTR" THEN {src[no].name} ELSE {})
        BY <1>4, <1>8, AssignedAppend, Zenon DEF more
      <4> QED BY <3>2, <4>1
    <3> QED BY <3>1, <3>5, <3>6
  <2> QED BY <2>1, <2>2
<1>10. Assigned(src, DeclaredText(tree, frames', new)) = Assigned(src, text)
  <2>1. (l + 1) + 1 = l + 2
    BY <1>2
  <2>2. DeclaredText(tree, frames', new) = IF node.type = "ATTR" THEN text ELSE new[l + 2]
    BY <1>2, <1>4, <2>1 DEF DeclaredText
  <2> QED BY <1>9, <2>2
<1>11. \A v : IsDeclared(v)' <=> IsDeclared(v)
  BY <1>1 DEF IsDeclared
<1>12. Counted(src, error_count', new[Len(frames') + 1])
  <2>1. Len(frames') + 1 = l + 2
    BY <1>2
  <2> QED BY <1>9, <2>1
<1>13. source' = source /\ tree' = tree /\ freed' = freed
  BY <1>1
<1>14. PICK x : x = new
  OBVIOUS
<1>15. Declaring(x)'
  <2>1. Telling(tree', freed', frames', x) /\ Counted(source'.tree, error_count', x[Len(frames') + 1])
    BY <1>3, <1>12, <1>13, <1>14 DEF src
  <2>2. \A v \in Name : IsDeclared(v)' <=> v \in Assigned(source'.tree, DeclaredText(tree', frames', x))
    BY <1>6, <1>10, <1>11, <1>13, <1>14 DEF src
  <2> QED BY <2>1, <2>2, Zenon DEF Declaring
<1> QED BY <1>15

(* The symbol of an assigned name, and no other, begins to exist. *)
Existing(syms, v) == LET s == search_symbol(syms, v) IN s # 0 /\ syms[s].exists

LEMMA DeclaredIs == \A v : IsDeclared(v) <=> Existing(synames, v)
BY DEF IsDeclared, Existing

DeclaredIn(syms, name, new) ==
  new = [syms EXCEPT ![search_symbol(syms, name)].exists = TRUE]

LEMMA ExistsNow ==
  ASSUME NEW syms \in Seq(Symbol), NEW name, Found(syms, name), NEW new,
         DeclaredIn(syms, name, new)
  PROVE  \A v : Existing(new, v) <=> Existing(syms, v) \/ v = name
<1> DEFINE s == search_symbol(syms, name)
           entry == [syms[s] EXCEPT !.exists = TRUE]
<1>1. s \in DOMAIN syms /\ s # 0 /\ syms[s].name = name /\ s \in Nat
  BY FoundIs
<1> HIDE DEF s
<1>2. entry.name = name /\ entry.exists = TRUE /\ entry \in Symbol
  <2>1. \A y \in Symbol : LET z == [y EXCEPT !.exists = TRUE]
                          IN  z.name = y.name /\ z.exists = TRUE /\ z \in Symbol
    BY DEF Symbol
  <2>2. syms[s] \in Symbol
    BY <1>1
  <2> QED BY <1>1, <2>1, <2>2
<1>3. new = [syms EXCEPT ![s] = entry]
  BY Zenon DEF s, DeclaredIn
<1> HIDE DEF entry
<1>4. /\ new \in Seq(Symbol) /\ DOMAIN new = DOMAIN syms /\ new[s] = entry
      /\ \A i \in DOMAIN syms : i # s => new[i] = syms[i]
  <2> DEFINE other == [syms EXCEPT ![s] = entry]
  <2>1. /\ other \in Seq(Symbol) /\ DOMAIN other = DOMAIN syms /\ other[s] = entry
        /\ \A i \in DOMAIN syms : i # s => other[i] = syms[i]
    BY <1>1, <1>2
  <2> HIDE DEF other
  <2>2. new = other
    BY <1>3 DEF other
  <2> QED BY <2>1, <2>2
<1>5. \A i \in DOMAIN syms : new[i].name = syms[i].name
  BY <1>1, <1>2, <1>4
<1>6. \A v : search_symbol(new, v) = search_symbol(syms, v)
  BY <1>4, <1>5, FoundStill
<1>7. ASSUME NEW v, search_symbol(syms, v) # 0
      PROVE  search_symbol(syms, v) \in DOMAIN syms /\ syms[search_symbol(syms, v)].name = v
  <2>1. Found(syms, v)
    BY <1>7 DEF search_symbol
  <2> QED BY <2>1, FoundIs
<1> SUFFICES ASSUME NEW v PROVE Existing(new, v) <=> Existing(syms, v) \/ v = name
  OBVIOUS
<1>8. CASE v = name
  <2>1. search_symbol(new, v) = s /\ new[s].exists = TRUE
    BY <1>2, <1>4, <1>6, <1>8 DEF s
  <2>2. Existing(new, v)
    BY <1>1, <2>1, Zenon DEF Existing
  <2> QED BY <1>8, <2>2
<1>9. CASE v # name
  <2>1. search_symbol(syms, v) # 0 => new[search_symbol(syms, v)] = syms[search_symbol(syms, v)]
    BY <1>1, <1>4, <1>7, <1>9
  <2>2. Existing(new, v) <=> Existing(syms, v)
    <3>1. search_symbol(new, v) = search_symbol(syms, v)
      BY <1>6
    <3>2. CASE search_symbol(syms, v) = 0
      BY <3>1, <3>2, Zenon DEF Existing
    <3>3. CASE search_symbol(syms, v) # 0
      <4>1. new[search_symbol(new, v)] = syms[search_symbol(syms, v)]
        BY <2>1, <3>1, <3>3
      <4> QED BY <3>1, <4>1, Zenon DEF Existing
    <3> QED BY <3>2, <3>3
  <2> QED BY <1>9, <2>2
<1> QED BY <1>8, <1>9

(* A call returns. *)
LEMMA ReturnDeclaring ==
  ASSUME Walking, PlainNodes(tree), Copied(tree, source.tree), Declared(tree, synames),
         NEW at, Declaring(at), Declare, UNCHANGED source
  PROVE  \E new : Declaring(new)'
<1> DEFINE l == Len(frames)
           d == Len(frames) - 1
           text == at[l + 1]
           n == Caller.r
           c == ActOn
           src == source.tree
           new == Cut(at, l, text \o Ends(tree, n))
<1>1. /\ Returns /\ Resume /\ UNCHANGED <<phase, tree, freed, root, error_count>>
  BY DEF Declare
<1>2. l \in Nat /\ l > 1 /\ d \in Nat /\ d + 1 = l /\ l \in DOMAIN frames /\ d \in DOMAIN frames
      /\ DOMAIN frames = 1..l /\ Caller = frames[d]
      /\ n \in DOMAIN tree \ freed /\ Caller.i \in DOMAIN tree[n].kids
      /\ SlotIn(tree, root, frames, l) = c /\ c \in DOMAIN tree \ freed
      /\ synames \in Seq(Symbol) /\ tree \in Seq(NodeRec)
  <2>1. l \in Nat /\ l > 1
    BY <1>1, WalkFacts DEF Returns
  <2>2. synames \in Seq(Symbol) /\ tree \in Seq(NodeRec)
    BY DEF Walking, ParseInv, TypeOK
  <2> QED BY <1>1, <2>1, <2>2, ActFacts
<1>3. Telling(tree, freed, frames', new)
  BY <1>1, ReturnTelling DEF Declaring
<1>4. /\ Len(frames') = d /\ d \in DOMAIN frames' /\ frames'[d].r = n /\ frames' # <<>>
  <2>1. Resumed(frames, frames')
    BY <1>1, ResumeIs
  <2>2. d \in 1..d /\ frames[d].r = n
    BY <1>2
  <2>3. DOMAIN frames' = 1..d /\ Len(frames') = d /\ \A k \in 1..d : frames'[k].r = frames[k].r
    BY <2>1 DEF Resumed
  <2> HIDE DEF d, n
  <2>4. Len(frames') # 0
    BY <1>2, <2>2, <2>3
  <2> QED BY <2>2, <2>3, <2>4
<1>5. frames[l].r = c /\ frames[l].r \notin freed
  <2> HIDE DEF l
  <2> QED BY <1>2 DEF Declaring, Telling, Walking, Path
<1>6. /\ text \in Text /\ at[l] \in Text
      /\ frames[l].i - 1 \in 0..Len(tree[c].kids)
      /\ text = at[l] \o Told(tree, c, frames[l].i - 1)
  <2>1. l \in 1..l + 1 /\ l + 1 \in 1..l + 1
    BY <1>2
  <2> QED BY <1>2, <1>5, <2>1 DEF Declaring, Telling
<1>7. new[l] = text \o Ends(tree, n)
  <2>1. l \in 1..l
    BY <1>2
  <2> QED BY <2>1 DEF Cut
<1> DEFINE told == at[l]
<1>a. l = Len(frames) /\ text = at[Len(frames) + 1] /\ told = at[l] /\ c = ActOn
  OBVIOUS
<1> HIDE DEF new, text, n, c, l, d, told
<1>8. tree[n].type # "ATTR"
  BY <1>2 DEF PlainNodes, LeafType
<1>9. /\ UncoveredUses(src, new[l]) = UncoveredUses(src, text)
      /\ Assigned(src, new[l]) = Assigned(src, text)
  <2>1. CASE IsList(tree, n)
    <3>1. new[l] = text
      <4>1. text \o <<>> = text
        BY <1>6 DEF Text
      <4> QED BY <1>7, <2>1, <4>1 DEF Ends
    <3> QED BY <3>1
  <2>2. CASE ~IsList(tree, n)
    <3>1. new[l] = Append(text, 0)
      <4>1. text \o <<0>> = Append(text, 0)
        <5>1. text \in Text /\ 0 \in Int
          BY <1>6
        <5> QED BY <5>1, TextAppend
      <4> QED BY <1>7, <2>2, <4>1 DEF Ends
    <3>2. UncoveredUses(src, Append(text, 0)) = UncoveredUses(src, text)
      <4>1. 0 \in Int /\ text \in Text
        BY <1>6
      <4>2. UncoveredUses(src, Append(text, 0)) =
              UncoveredUses(src, text)
                \cup IF 0 = 0 THEN {}
                     ELSE {Len(text) + 1} \X UncoveredReads(src, Append(text, 0), Len(text) + 1)
        BY <4>1, UsesAppend, Zenon
      <4> QED BY <4>2
    <3>3. Assigned(src, Append(text, 0)) = Assigned(src, text)
      <4>1. 0 \in Int /\ text \in Text
        BY <1>6
      <4>2. Assigned(src, Append(text, 0)) =
              Assigned(src, text) \cup (IF 0 # 0 /\ src[0].type = "ATTR" THEN {src[0].name} ELSE {})
        BY <4>1, AssignedAppend, Zenon
      <4> QED BY <4>2
    <3> QED BY <3>1, <3>2, <3>3
  <2> QED BY <2>1, <2>2
<1>10. DeclaredText(tree, frames', new) = new[l]
  <2>1. Len(frames') + 1 = l
    BY <1>2, <1>4
  <2> QED BY <1>4, <1>8, <2>1 DEF DeclaredText
<1>11. Counted(src, error_count', new[Len(frames') + 1])
  <2>1. Len(frames') + 1 = l
    BY <1>2, <1>4
  <2>2. Counted(src, error_count, text)
    BY <1>a DEF Declaring
  <2>3. error_count' = error_count
    BY <1>1
  <2> QED BY <1>9, <2>1, <2>2, <2>3 DEF Counted
<1>12. \A v \in Name : Existing(synames', v) <=> v \in Assigned(src, text)
  <2>1. \A v \in Name : Existing(synames, v) <=> v \in Assigned(src, DeclaredText(tree, frames, at))
    BY DeclaredIs DEF Declaring
  <2>2. CASE tree[c].type = "ATTR"
    <3>1. tree[c].kids = <<>> /\ Begins(tree, c) = <<c>> /\ Same(src[c], tree[c])
      BY <1>2, <2>2 DEF PlainNodes, LeafType, Begins, IsList, Copied, ListType
    <3>2. text = Append(at[l], c) /\ c \in Int /\ c # 0
      <4>1. frames[l].i - 1 = 0
        <5>1. Len(tree[c].kids) = 0
          BY <3>1
        <5> QED BY <1>6, <5>1
      <4>2. Told(tree, c, 0) = <<c>>
        BY <1>2, <3>1, ToldNow
      <4>3. c \in Int /\ c # 0
        BY <1>2
      <4>4. told \o <<c>> = Append(told, c)
        BY <1>6, <1>a, <4>3, TextAppend
      <4>5. text = told \o <<c>>
        BY <1>6, <1>a, <4>1, <4>2
      <4> QED BY <1>a, <4>3, <4>4, <4>5
    <3>3. Assigned(src, text) = Assigned(src, at[l]) \cup {tree[c].name}
      <4>1. Assigned(src, Append(at[l], c)) =
              Assigned(src, at[l]) \cup (IF c # 0 /\ src[c].type = "ATTR" THEN {src[c].name} ELSE {})
        BY <1>6, <3>2, AssignedAppend, Zenon
      <4> QED BY <2>2, <3>1, <3>2, <4>1 DEF Same
    <3>4. DeclaredText(tree, frames, at) = at[l]
      <4>1. frames # <<>>
        BY <1>2
      <4> QED BY <1>a, <1>5, <2>2, <4>1 DEF DeclaredText
    <3>5. Found(synames, tree[c].name)
      BY <1>2, <2>2 DEF Declared
    <3>6. synames' = [synames EXCEPT ![search_symbol(synames, tree[c].name)].exists = TRUE]
      <4>1. search_symbol(synames, tree[c].name) # 0
        BY <1>2, <3>5, FoundIs
      <4>2. tree[ActOn].type = "ATTR" /\ search_symbol(synames, tree[ActOn].name) # 0
            /\ tree[ActOn].name = tree[c].name
        BY <1>a, <2>2, <4>1
      <4> QED BY <4>2, Zenon DEF Declare
    <3>7. \A v : Existing(synames', v) <=> Existing(synames, v) \/ v = tree[c].name
      <4> DEFINE name == tree[c].name
                 after == synames'
      <4>1. synames \in Seq(Symbol) /\ Found(synames, name)
            /\ DeclaredIn(synames, name, after)
        BY <1>2, <3>5, <3>6, Zenon DEF DeclaredIn
      <4> HIDE DEF name, after
      <4>2. \A v : Existing(after, v) <=> Existing(synames, v) \/ v = name
        BY <4>1, ExistsNow
      <4> QED BY <4>2 DEF name, after
    <3> QED BY <2>1, <3>3, <3>4, <3>7
  <2>3. CASE tree[c].type # "ATTR"
    <3>1. synames' = synames
      <4>1. tree[ActOn].type # "ATTR"
        BY <1>a, <2>3
      <4> QED BY <4>1, Zenon DEF Declare
    <3>2. DeclaredText(tree, frames, at) = text
      BY <1>a, <1>5, <2>3 DEF DeclaredText
    <3> QED BY <2>1, <3>1, <3>2
  <2> QED BY <2>2, <2>3
<1>13. source' = source /\ tree' = tree /\ freed' = freed
  BY <1>1
<1>14. PICK x : x = new
  OBVIOUS
<1>15. Declaring(x)'
  <2>1. Telling(tree', freed', frames', x) /\ Counted(source'.tree, error_count', x[Len(frames') + 1])
    BY <1>3, <1>11, <1>13, <1>14 DEF src
  <2>2. \A v \in Name : IsDeclared(v)' <=> v \in Assigned(source'.tree, DeclaredText(tree', frames', x))
    <3>1. \A v : IsDeclared(v)' <=> Existing(synames', v)
      BY DEF IsDeclared, Existing
    <3> QED BY <1>9, <1>10, <1>12, <1>13, <1>14, <3>1 DEF src
  <2> QED BY <2>1, <2>2, Zenon DEF Declaring
<1> QED BY <1>15

-----------------------------------------------------------------------------
LEMMA ParserErrors ==
  ASSUME ParseInv, ErrorsInv, ParserStep, KeepSource
  PROVE  ErrorsInv'
<1>1. phase = "parse" /\ phase' \in {"parse", "collapse", "rejected"}
  BY ParserStepKeeps
<1>2. /\ Parse /\ error_count' = 0
      /\ PlainNodes(tree') /\ Unused(synames')
  BY <1>1, ParserPlain DEF ErrorsInv, ParserStep, semanticVars
<1>3. phase' = "collapse" => Copied(tree', source'.tree)
  <2> SUFFICES ASSUME phase' = "collapse" PROVE Copied(tree', source'.tree)
    OBVIOUS
  <2>1. source' = [tree |-> tree', root |-> root']
    BY <1>1 DEF KeepSource
  <2>2. source'.tree = tree'
    BY <2>1
  <2> QED BY <2>2 DEF Copied, Same
<1> QED BY <1>1, <1>2, <1>3 DEF ErrorsInv, PassPhase, ErrorsAreTheUncoveredUses

(* The steps of the pass that flattens the lists. *)
LEMMA CollapseErrors ==
  ASSUME ParseInv, ErrorsInv, phase = "collapse", KeepSource,
         VisitRoot \/ VisitKid \/ NoGraft \/ GraftInPlace \/ GraftMoved
  PROVE  ErrorsInv'
<1>1. source' = source /\ error_count = 0 /\ Unused(synames) /\ PlainNodes(tree) /\ Copied(tree, source.tree)
  BY DEF KeepSource, ErrorsInv, PassPhase
<1>2. phase' \in {"collapse", "fault"} /\ synames' = synames /\ error_count' = 0
  BY <1>1 DEF VisitRoot, VisitKid, Enter, Wild, NoGraft, GraftInPlace, GraftMoved
<1>3. PlainNodes(tree') /\ Copied(tree', source'.tree)
  <2>1. CASE VisitRoot \/ VisitKid \/ NoGraft
    <3>1. tree' = tree
      BY <2>1 DEF VisitRoot, VisitKid, Enter, Wild, NoGraft
    <3> QED BY <1>1, <3>1
  <2>2. CASE GraftInPlace \/ GraftMoved
    <3>1. Grown(tree, tree')
      BY <1>1, <2>2, GraftGrown
    <3> QED BY <1>1, <3>1, GrownPlain
  <2> QED BY <2>1, <2>2
<1>4. Unused(synames')
  BY <1>1, <1>2
<1> QED BY <1>2, <1>3, <1>4 DEF ErrorsInv, PassPhase, ErrorsAreTheUncoveredUses

LEMMA NothingUsed ==
  ASSUME NEW t
  PROVE  UncoveredUses(t, <<>>) = {} /\ Assigned(t, <<>>) = {}
<1>1. DOMAIN <<>> = {} /\ Len(<<>>) = 0
  OBVIOUS
<1>2. UncoveredUses(t, <<>>) = {}
  BY <1>1 DEF UncoveredUses
<1>3. \A h : h \notin 1..(0 + 1) - 1
  OBVIOUS
<1> QED BY <1>1, <1>2, <1>3 DEF Assigned, AssignedBefore

(* Between the passes nothing is told, and no name exists. *)
LEMMA DeclaringStarts ==
  ASSUME ParseInv, ErrorsInv, phase = "collapse", KeepSource, PassDone
  PROVE  ErrorsInv'
<1>1. /\ source' = source /\ error_count' = 0 /\ Unused(synames) /\ PlainNodes(tree) /\ Copied(tree, source.tree)
      /\ frames' = <<>> /\ phase' = "declare" /\ UNCHANGED <<tree, freed, synames>>
  BY DEF KeepSource, ErrorsInv, PassPhase, PassDone
<1> DEFINE new == [k \in 1..1 |-> <<>>]
<1>2. new \in [1..Len(<<>>) + 1 -> Text] /\ new[1] = <<>> /\ new[Len(<<>>) + 1] = <<>>
  BY DEF Text
<1>3. PICK x : x = new
  OBVIOUS
<1> HIDE DEF new
<1>4. Telling(tree', freed', frames', x)
  BY <1>1, <1>2, <1>3 DEF Telling
<1>5. Counted(source'.tree, error_count', x[Len(frames') + 1])
  <2>1. IsFiniteSet({}) /\ Cardinality({}) = 0
    BY FS_EmptySet
  <2> QED BY <1>1, <1>2, <1>3, <2>1, NothingUsed DEF Counted
<1>6. \A v : ~IsDeclared(v)'
  <2>1. synames \in Seq(Symbol)
    BY DEF ParseInv, TypeOK
  <2>2. ASSUME NEW v, search_symbol(synames, v) # 0
        PROVE  search_symbol(synames, v) \in DOMAIN synames
    <3>1. Found(synames, v)
      BY <2>2 DEF search_symbol
    <3> QED BY <2>1, <3>1, FoundIs
  <2>3. \A v : ~Existing(synames, v)
    BY <1>1, <2>2, Zenon DEF Existing, Unused
  <2>4. \A v : IsDeclared(v)' <=> Existing(synames', v)
    BY DEF IsDeclared, Existing
  <2> QED BY <1>1, <2>3, <2>4
<1>7. DeclaredText(tree', frames', x) = <<>>
  BY <1>1, <1>2, <1>3 DEF DeclaredText
<1>8. Declaring(x)'
  <2>1. \A v \in Name : IsDeclared(v)' <=> v \in Assigned(source'.tree, DeclaredText(tree', frames', x))
    BY <1>6, <1>7, NothingUsed
  <2> QED BY <1>4, <1>5, <2>1, Zenon DEF Declaring
<1> QED BY <1>1, <1>8 DEF ErrorsInv, PassPhase, ErrorsAreTheUncoveredUses

(* At the end of the second pass the whole text is told. *)
LEMMA DeclaringCounted ==
  ASSUME ParseInv, HeapInv, ErrorsInv, phase = "declare", PassDone
  PROVE  Counted(source.tree, error_count, SourceText)
<1>1. Len(frames) = 1 /\ ~MoreKids
  BY DEF PassDone
<1>2. Walking /\ Listing(tree, root) = SourceText
  BY WalkingNow DEF PassPhase
<1>3. PICK at : Declaring(at)
  BY DEF ErrorsInv
<1>4. 1 \in DOMAIN frames /\ DOMAIN frames = 1..1 /\ Top = frames[1]
  BY <1>1, <1>2, WalkFacts DEF Top, Last
<1>5. frames[1].r = root /\ root \in DOMAIN tree \ freed
  <2>1. frames[1].r \notin freed
    BY <1>3, <1>4 DEF Declaring, Telling
  <2>2. SlotIn(tree, root, frames, 1) = frames[1].r /\ frames[1].r \in DOMAIN tree
    BY <1>2, <1>4, <2>1 DEF Walking, Path
  <2>3. SlotIn(tree, root, frames, 1) = root
    BY DEF SlotIn
  <2> QED BY <2>1, <2>2, <2>3
<1>6. frames[1].i - 1 = Len(tree[root].kids)
  <2>1. ~(frames[1].i <= Len(tree[root].kids))
    BY <1>1, <1>4, <1>5 DEF MoreKids
  <2>2. frames[1].i - 1 \in 0..Len(tree[root].kids)
    BY <1>3, <1>4, <1>5 DEF Declaring, Telling
  <2>3. frames[1].i \in Nat /\ Len(tree[root].kids) \in Nat
    BY <1>2, <1>4, <1>5, WalkFacts
  <2> QED BY <2>1, <2>2, <2>3
<1>7. at[Len(frames) + 1] = SourceText
  <2>1. at[1] = <<>> /\ at[1 + 1] = at[1] \o Told(tree, root, Len(tree[root].kids))
    BY <1>3, <1>4, <1>5, <1>6 DEF Declaring, Telling
  <2>2. Len(tree[root].kids) \in 0..Len(tree[root].kids)
    BY <1>2, <1>5, WalkFacts
  <2>3. Told(tree, root, Len(tree[root].kids)) = SourceText /\ SourceText \in Text
    BY <1>2, <1>5, <2>2, ToldNow
  <2>4. <<>> \o SourceText = SourceText
    BY <2>3 DEF Text
  <2> QED BY <1>1, <2>1, <2>3, <2>4
<1> QED BY <1>3, <1>7 DEF Declaring, Counted

LEMMA DeclaringEnds ==
  ASSUME ParseInv, HeapInv, ErrorsInv, phase = "declare", KeepSource, PassDone
  PROVE  ErrorsInv'
<1>1. /\ source' = source /\ error_count' = error_count /\ tree' = tree /\ PlainNodes(tree)
      /\ phase' = IF error_count > 0 THEN "exit" ELSE "setup"
  BY DEF KeepSource, ErrorsInv, PassDone
<1>2. error_count = Cardinality(UncoveredUses(source.tree, SourceText)) /\ error_count \in Nat
  BY DeclaringCounted DEF Counted, ParseInv, TypeOK, SemanticTypeOK
<1>3. SourceText' = SourceText
  BY <1>1 DEF SourceText
<1> QED BY <1>1, <1>2, <1>3 DEF ErrorsInv, PassPhase, ErrorsAreTheUncoveredUses

LEMMA DeclareErrors ==
  ASSUME ParseInv, HeapInv, Declared(tree, synames), ErrorsInv, phase = "declare", KeepSource,
         VisitRoot \/ VisitKid \/ Declare
  PROVE  ErrorsInv'
<1>1. source' = source /\ PlainNodes(tree) /\ Copied(tree, source.tree)
  BY DEF KeepSource, ErrorsInv, PassPhase
<1>2. Walking
  BY WalkingNow DEF PassPhase
<1>3. PICK at : Declaring(at)
  BY DEF ErrorsInv
<1>4. tree' = tree
  BY DEF VisitRoot, VisitKid, Enter, Wild, Declare
<1>5. CASE phase' = "fault"
  BY <1>1, <1>4, <1>5 DEF ErrorsInv, PassPhase, ErrorsAreTheUncoveredUses
<1>6. CASE phase' = "declare" /\ \E new : Declaring(new)'
  BY <1>1, <1>4, <1>6 DEF ErrorsInv, PassPhase, ErrorsAreTheUncoveredUses
<1>7. CASE Declare
  <2>1. \E new : Declaring(new)'
    BY <1>1, <1>2, <1>3, <1>7, ReturnDeclaring
  <2>2. phase' = "declare"
    BY <1>7 DEF Declare
  <2> QED BY <1>6, <2>1, <2>2
<1>8. CASE VisitRoot \/ VisitKid
  <2>1. PICK no : /\ Enter(no) \/ Wild(no)
                  /\ \/ frames = <<>> /\ no = root
                     \/ frames # <<>> /\ MoreKids /\ no = Kid
    BY <1>8 DEF VisitRoot, VisitKid, Visiting
  <2>2. CASE Wild(no)
    BY <1>5, <2>2 DEF Wild
  <2>3. CASE Enter(no)
    <3>1. no # 0 /\ phase' = "declare"
      BY <2>3 DEF Enter
    <3>2. no \in DOMAIN tree \ freed
      <4>1. CASE frames = <<>>
        BY <1>2, <2>1, <4>1 DEF Walking, Linked
      <4>2. CASE frames # <<>>
        BY <1>2, <2>1, <3>1, <4>2, TopLive
      <4> QED BY <4>1, <4>2
    <3>3. \E new : Declaring(new)'
      BY <1>1, <1>2, <1>3, <2>1, <2>3, <3>2, EnterDeclaring
    <3> QED BY <1>6, <3>1, <3>3
  <2> QED BY <2>1, <2>2, <2>3
<1> QED BY <1>7, <1>8

LEMMA ErrorsKept ==
  ASSUME IInv, HeapInv, VariablesInv, ErrorsInv, [Next]_vars
  PROVE  ErrorsInv'
<1>1. ParseInv /\ Declared(tree, synames)
  BY DEF IInv, ParseInv, VariablesInv
<1>2. CASE ParserStep /\ KeepSource
  BY <1>1, <1>2, ParserErrors
<1>3. CASE SemanticStep /\ KeepSource
  <2>1. Analyse /\ phase \in {"collapse", "declare"}
    BY <1>1, <1>3, SemanticStepKeeps DEF SemanticStep, PassPhase
  <2>2. CASE PassDone
    BY <1>1, <1>3, <2>1, <2>2, DeclaringStarts, DeclaringEnds
  <2>3. CASE phase = "collapse" /\ ~PassDone
    <3>1. ~Declare
      BY <2>3 DEF Declare
    <3> QED BY <1>1, <1>3, <2>1, <2>3, <3>1, CollapseErrors DEF Analyse
  <2>4. CASE phase = "declare" /\ ~PassDone
    <3>1. ~NoGraft /\ ~GraftInPlace /\ ~GraftMoved
      BY <2>4 DEF NoGraft, GraftInPlace, GraftMoved
    <3> QED BY <1>1, <1>3, <2>1, <2>4, <3>1, DeclareErrors DEF Analyse
  <2> QED BY <2>1, <2>2, <2>3, <2>4
<1>4. CASE CodegenStep /\ KeepSource
  <2>1. /\ UNCHANGED treeVars /\ phase \in {"setup", "gen"} /\ phase' \in {"gen", "done", "fault"}
        /\ error_count' = error_count
    BY <1>4, CodegenLeaves DEF CodegenStep, semanticVars
  <2>2. source' = source /\ tree' = tree
    BY <1>4, <2>1 DEF KeepSource, treeVars
  <2>3. SourceText' = SourceText
    BY <2>2 DEF SourceText
  <2> QED BY <2>1, <2>2, <2>3 DEF ErrorsInv, PassPhase, ErrorsAreTheUncoveredUses
<1>5. CASE UNCHANGED vars
  <2>1. UNCHANGED <<phase, tree, freed, synames, frames, error_count, source>>
    BY <1>5 DEF vars
  <2>2. SourceText' = SourceText
    BY <2>1 DEF SourceText
  <2>3. \A x : Declaring(x) => Declaring(x)'
    BY <2>1 DEF Declaring, IsDeclared
  <2> QED BY <2>1, <2>2, <2>3 DEF ErrorsInv, PassPhase, ErrorsAreTheUncoveredUses
<1> QED BY <1>2, <1>3, <1>4, <1>5 DEF Next, Ended

LEMMA ErrorsHold == Spec => []ErrorsInv
<1>1. Init => ErrorsInv
  <2> SUFFICES ASSUME Init PROVE ErrorsInv
    OBVIOUS
  <2>1. phase = "parse" /\ tree = <<>> /\ synames = <<>> /\ error_count = 0
    BY DEF Init, SemanticInit
  <2> QED BY <2>1 DEF ErrorsInv, PlainNodes, Unused, PassPhase, ErrorsAreTheUncoveredUses
<1>2. IInv /\ HeapInv /\ VariablesInv /\ ErrorsInv /\ [Next]_vars => ErrorsInv'
  BY ErrorsKept
<1> QED BY <1>1, <1>2, HeapHolds, VariablesHold, PTL DEF Spec

(* declared_vars, whose walk is over the tree that collapse_stmts rebuilt,  *)
(* and which looks at a table that it fills on its way, counts the uses of  *)
(* the text as it was parsed that no assignment before them covers.         *)
THEOREM ErrorsAreTheUses == Spec => []ErrorsAreTheUncoveredUses
<1>1. ErrorsInv => ErrorsAreTheUncoveredUses
  BY DEF ErrorsInv
<1> QED BY <1>1, ErrorsHold, PTL
-----------------------------------------------------------------------------
(***************************************************************************)
(* Holes: the code generator walks the tree in the order of the text too.  *)
(***************************************************************************)
(* A text that begins with another.                                         *)
Opens(a, s) == \E b \in Text : s = a \o b

LEMMA OpensLess ==
  ASSUME NEW a \in Text, NEW b \in Text, NEW s, Opens(a \o b, s)
  PROVE  Opens(a, s)
<1>1. PICK c \in Text : s = (a \o b) \o c
  BY DEF Opens
<1>2. (a \o b) \o c = a \o (b \o c) /\ b \o c \in Text
  BY TextConcat
<1> QED BY <1>1, <1>2 DEF Opens

LEMMA OpensMore ==
  ASSUME NEW a \in Text, NEW b \in Text, NEW s, Opens(a, s)
  PROVE  Opens(a, s \o b)
<1>1. PICK c \in Text : s = a \o c
  BY DEF Opens
<1>2. (a \o c) \o b = a \o (c \o b) /\ c \o b \in Text
  BY TextConcat
<1> QED BY <1>1, <1>2 DEF Opens

LEMMA OpensWithin ==
  ASSUME NEW x \in Text, NEW a \in Text, NEW s, Opens(a, s), NEW all, Opens(x \o s, all)
  PROVE  Opens(x \o a, all)
<1>1. PICK c \in Text : s = a \o c
  BY DEF Opens
<1>2. PICK d \in Text : all = (x \o s) \o d
  BY DEF Opens
<1>3. (x \o a) \o c = x \o (a \o c) /\ x \o a \in Text
  BY DEF Text
<1> DEFINE xa == x \o a
<1>4. all = (xa \o c) \o d
  BY <1>1, <1>2, <1>3
<1>5. xa \in Text
  BY <1>3
<1> HIDE DEF xa
<1>6. (xa \o c) \o d = xa \o (c \o d) /\ c \o d \in Text
  BY <1>5, TextConcat
<1>7. Opens(xa, all)
  BY <1>4, <1>6 DEF Opens
<1> QED BY <1>7 DEF xa

LEMMA OpensSame == ASSUME NEW a \in Text PROVE Opens(a, a)
<1>1. <<>> \in Text /\ a \o <<>> = a
  BY DEF Text
<1> QED BY <1>1 DEF Opens

(* The names before a place of the whole text are those in what leads to it.*)
LEMMA NamesThere ==
  ASSUME NEW t, NEW type, NEW text \in Text, NEW n \in Int, NEW all,
         Opens(text \o <<n>>, all)
  PROVE  LET j == Len(text) + 1
         IN  /\ j \in DOMAIN all /\ all[j] = n
             /\ NamesBefore(t, type, all, j) = NamesIn(t, type, text)
<1> DEFINE l == Len(text)
           more == Append(text, n)
<1>1. PICK b \in Text : all = more \o b
  BY TextAppend DEF Opens
<1>2. /\ l \in Nat /\ Len(more) = l + 1 /\ more[l + 1] = n
      /\ \A i \in 1..l : more[i] = text[i]
      /\ more \in Text
  BY DEF Text
<1> HIDE DEF l, more
<1>3. /\ l + 1 \in DOMAIN all /\ \A i \in 1..l + 1 : all[i] = more[i]
  BY <1>1, <1>2 DEF Text
<1>4. \A h \in 1..(l + 1) - 1 : all[h] = text[h]
  BY <1>2, <1>3
<1>5. l + 1 \in 1..l + 1
  BY <1>2
<1>6. NamesBefore(t, type, all, l + 1) = NamesBefore(t, type, text, l + 1)
  BY <1>4 DEF NamesBefore
<1> QED BY <1>2, <1>3, <1>5, <1>6 DEF NamesIn, l

-----------------------------------------------------------------------------
(* What a call tells up to the end of a child opens the text of its node.   *)
LEMMA ToldStarts ==
  ASSUME Walking, NEW n \in DOMAIN tree \ freed, NEW i \in DOMAIN tree[n].kids
  PROVE  Opens(Told(tree, n, i - 1) \o Listing(tree, tree[n].kids[i]), Listing(tree, n))
<1> DEFINE told(j) == Told(tree, n, j)
           len == Len(tree[n].kids)
           x == told(i - 1) \o Listing(tree, tree[n].kids[i])
           K == {d \in Nat : i + d <= len => Opens(x, told(i + d))}
<1>1. len \in Nat /\ DOMAIN tree[n].kids = 1..len
  <2>1. tree[n].kids \in Seq(Nat)
    BY WalkFacts
  <2> QED BY <2>1
<1>2. /\ \A j \in 1..len : told(j) = told(j - 1) \o (Listing(tree, tree[n].kids[j]) \o Ends(tree, n))
      /\ told(len) = Listing(tree, n)
      /\ \A j \in 0..len : told(j) \in Text
      /\ \A j \in 1..len : Listing(tree, tree[n].kids[j]) \in Text
      /\ Ends(tree, n) \in Text
  BY <1>1, ToldNow
<1> DEFINE kid(j) == Listing(tree, tree[n].kids[j])
           end == Ends(tree, n)
<1>3. i \in 1..len /\ i - 1 \in 0..len
  BY <1>1
<1>4. /\ \A j \in 1..len : told(j) = told(j - 1) \o (kid(j) \o end)
      /\ \A j \in 1..len : kid(j) \in Text
      /\ end \in Text /\ x = told(i - 1) \o kid(i)
  BY <1>2
<1> HIDE DEF told, len, kid, end, x
<1>5. x \in Text /\ x \o end = told(i)
  <2>1. told(i - 1) \in Text /\ kid(i) \in Text /\ end \in Text
    BY <1>2, <1>3, <1>4
  <2>2. (told(i - 1) \o kid(i)) \o end = told(i - 1) \o (kid(i) \o end) /\ told(i - 1) \o kid(i) \in Text
    BY <2>1, TextConcat
  <2> QED BY <1>3, <1>4, <2>2
<1>6. 0 \in K
  <2>1. Opens(x, x)
    BY <1>5, OpensSame
  <2>2. Opens(x, x \o end)
    BY <1>4, <1>5, <2>1, OpensMore
  <2>3. i + 0 = i
    BY <1>3
  <2> QED BY <1>5, <2>2, <2>3
<1>7. ASSUME NEW d \in K PROVE d + 1 \in K
  <2> SUFFICES ASSUME i + (d + 1) <= len PROVE Opens(x, told(i + (d + 1)))
    OBVIOUS
  <2>1. i + d <= len /\ i + (d + 1) \in 1..len /\ (i + (d + 1)) - 1 = i + d
    BY <1>1, <1>3
  <2>2. told(i + (d + 1)) = told(i + d) \o (kid(i + (d + 1)) \o end)
    BY <1>4, <2>1
  <2>3. kid(i + (d + 1)) \o end \in Text
    BY <1>4, <2>1, TextConcat
  <2>4. Opens(x, told(i + d))
    BY <2>1
  <2> DEFINE rest == kid(i + (d + 1)) \o end
  <2>5. rest \in Text /\ told(i + (d + 1)) = told(i + d) \o rest
    BY <2>2, <2>3
  <2> HIDE DEF rest
  <2>6. Opens(x, told(i + d) \o rest)
    BY <1>5, <2>4, <2>5, OpensMore
  <2> QED BY <2>5, <2>6
<1>8. K = Nat
  <2> HIDE DEF K
  <2>1. K \in SUBSET Nat
    BY DEF K
  <2> QED BY <1>6, <1>7, <2>1, SetInduction
<1>9. len - i \in Nat /\ i + (len - i) = len
  BY <1>1, <1>3
<1>10. Opens(x, told(len))
  <2>1. len - i \in K
    BY <1>8, <1>9
  <2>2. i + (len - i) <= len
    BY <1>1, <1>9
  <2> HIDE DEF K
  <2>3. Opens(x, told(i + (len - i)))
    BY <2>1, <2>2 DEF K
  <2> QED BY <1>9, <2>3
<1> QED BY <1>2, <1>10 DEF x, told, kid

(* The text of a statement opens with its number.                           *)
LEMMA TextBegins ==
  ASSUME Walking, NEW n \in DOMAIN tree \ freed
  PROVE  Opens(Begins(tree, n), Listing(tree, n))
<1> DEFINE kids == tree[n].kids
<1>1. kids \in Seq(Nat)
  BY WalkFacts
<1>2. Told(tree, n, 0) = Begins(tree, n) /\ Begins(tree, n) \in Text
  BY ToldNow
<1>3. CASE Len(kids) = 0
  <2>1. Listing(tree, n) = Begins(tree, n)
    BY <1>2, <1>3, ToldNow
  <2> QED BY <1>2, <2>1, OpensSame
<1>4. CASE Len(kids) # 0
  <2>1. 1 \in DOMAIN kids
    BY <1>1, <1>4
  <2>2. Opens(Told(tree, n, 1 - 1) \o Listing(tree, kids[1]), Listing(tree, n))
    BY <2>1, ToldStarts
  <2>3. Listing(tree, kids[1]) \in Text
    BY <2>1, ToldNow
  <2>4. 1 - 1 = 0
    OBVIOUS
  <2> HIDE DEF kids
  <2> QED BY <1>2, <2>2, <2>3, <2>4, OpensLess
<1> QED BY <1>3, <1>4

(* A simple statement is all of its text.                                   *)
LEMMA LeafText ==
  ASSUME Walking, PlainNodes(tree), NEW n \in DOMAIN tree \ freed, tree[n].type \in LeafType
  PROVE  Listing(tree, n) = <<n>>
<1>1. tree[n].kids = <<>> /\ Len(<<>>) = 0
  BY DEF PlainNodes
<1>2. Begins(tree, n) = <<n>>
  BY DEF Begins, IsList, LeafType
<1> QED BY <1>1, <1>2, ToldNow

-----------------------------------------------------------------------------
(* The walk of the code generator: at[k] is the text before the node of the *)
(* call at depth k, and the last entry the text before what the innermost   *)
(* call is waiting for.                                                     *)
ChildAt(f) == CASE f.k = "list" -> f.i [] f.k = "else" -> 2 [] OTHER -> 1
NodeOf(w, k) == IF k = 1 THEN root ELSE tree[w[k - 1].no].kids[ChildAt(w[k - 1])]
HasElse(f) == f.k = "else" \/ (f.k = "then" /\ f.b2 # 0)
Fits(f) ==
  /\ f.no \in DOMAIN tree \ freed
  /\ f.k = "list" <=> IsList(tree, f.no)
  /\ ChildAt(f) \in DOMAIN tree[f.no].kids
  /\ f.k # "list" => Len(tree[f.no].kids) = IF HasElse(f) THEN 2 ELSE 1
Said(w, at) ==
  /\ at \in [1..Len(w) + 1 -> Text] /\ at[1] = <<>>
  /\ \A k \in DOMAIN w : /\ Fits(w[k]) /\ w[k].no = NodeOf(w, k)
                         /\ at[k + 1] = at[k] \o Told(tree, w[k].no, ChildAt(w[k]) - 1)
  /\ \A k \in 1..Len(w) + 1 : Opens(at[k] \o Listing(tree, NodeOf(w, k)), SourceText)

(* What a call tells when its child has returned.                           *)
LEMMA Spoken ==
  ASSUME Walking, NEW n \in DOMAIN tree \ freed, NEW i \in DOMAIN tree[n].kids, NEW x \in Text
  PROVE  /\ x \o Told(tree, n, i - 1) \in Text
         /\ ((x \o Told(tree, n, i - 1)) \o Listing(tree, tree[n].kids[i])) \o Ends(tree, n) =
              x \o Told(tree, n, i)
<1> DEFINE a == Told(tree, n, i - 1)
           b == Listing(tree, tree[n].kids[i])
           c == Ends(tree, n)
<1>1. i - 1 \in 0..Len(tree[n].kids)
  <2>1. tree[n].kids \in Seq(Nat)
    BY WalkFacts
  <2> QED BY <2>1
<1>2. a \in Text /\ b \in Text /\ c \in Text /\ Told(tree, n, i) = a \o (b \o c)
  BY <1>1, ToldNow
<1> HIDE DEF a, b, c
<1>3. x \o a \in Text /\ b \o c \in Text /\ (x \o a) \o (b \o c) = x \o (a \o (b \o c))
  <2> DEFINE bc == b \o c
  <2>1. bc \in Text
    BY <1>2, TextConcat
  <2> HIDE DEF bc
  <2>2. x \o a \in Text /\ (x \o a) \o bc = x \o (a \o bc)
    BY <1>2, <2>1, TextConcat
  <2> QED BY <2>1, <2>2 DEF bc
<1> DEFINE xa == x \o a
<1>4. (xa \o b) \o c = xa \o (b \o c)
  <2>1. xa \in Text
    BY <1>3
  <2> HIDE DEF xa
  <2> QED BY <1>2, <2>1, TextConcat
<1> QED BY <1>2, <1>3, <1>4 DEF a, b, c

(* A call that begins the node its caller is waiting for.                   *)
Pushes(w, f, at, u, new, text) ==
  /\ Said(w, at) /\ Fits(f) /\ f.no = NodeOf(w, Len(w) + 1)
  /\ u = Append(w, f) /\ new = Cut(at, Len(w) + 2, text)
  /\ text = at[Len(w) + 1] \o Told(tree, f.no, ChildAt(f) - 1)
LEMMA AppendSaid ==
  ASSUME Walking, NEW w \in Seq(WorkFrame), NEW f \in WorkFrame, NEW at,
         NEW u, NEW new, NEW text, Pushes(w, f, at, u, new, text)
  PROVE  /\ Said(u, new) /\ new[Len(u) + 1] = text /\ text \in Text
         /\ NodeOf(u, Len(u) + 1) = tree[f.no].kids[ChildAt(f)]
<1> DEFINE l == Len(w)
           all == SourceText
<1>0. /\ Said(w, at) /\ Fits(f) /\ f.no = NodeOf(w, Len(w) + 1)
      /\ u = Append(w, f) /\ new = Cut(at, Len(w) + 2, text)
      /\ text = at[Len(w) + 1] \o Told(tree, f.no, ChildAt(f) - 1)
  BY DEF Pushes
<1>1. /\ l \in Nat /\ DOMAIN w = 1..l /\ Len(u) = l + 1 /\ DOMAIN u = 1..l + 1 /\ u[l + 1] = f
      /\ \A k \in 1..l : u[k] = w[k]
  BY <1>0
<1>2. /\ \A k \in 1..l + 1 : at[k] \in Text
      /\ at[1] = <<>>
      /\ \A k \in 1..l : /\ Fits(w[k]) /\ w[k].no = NodeOf(w, k)
                         /\ at[k + 1] = at[k] \o Told(tree, w[k].no, ChildAt(w[k]) - 1)
      /\ \A k \in 1..l + 1 : Opens(at[k] \o Listing(tree, NodeOf(w, k)), all)
  BY <1>0, <1>1 DEF Said
<1> HIDE DEF l, all
<1>3. /\ f.no \in DOMAIN tree \ freed /\ ChildAt(f) \in DOMAIN tree[f.no].kids
      /\ at[l + 1] \in Text
  BY <1>0, <1>1, <1>2 DEF Fits
<1>4. text \in Text
  BY <1>0, <1>3, Spoken DEF l
<1>5. /\ new \in [1..(l + 1) + 1 -> Text] /\ new[l + 2] = text /\ l + 2 = (l + 1) + 1
      /\ \A k \in 1..l + 1 : new[k] = at[k]
  <2>1. new = [k \in 1..l + 2 |-> IF k = l + 2 THEN text ELSE at[k]]
    BY <1>0 DEF Cut, l
  <2>2. \A k \in 1..l + 1 : at[k] \in Text
    BY <1>2
  <2>3. l + 2 = (l + 1) + 1 /\ \A k \in 1..l + 2 : k = l + 2 \/ k \in 1..l + 1
    BY <1>1
  <2>4. l + 2 \in 1..l + 2 /\ \A k \in 1..l + 1 : k \in 1..l + 2 /\ k # l + 2
    BY <1>1
  <2> QED BY <1>4, <2>1, <2>2, <2>3, <2>4
<1>6. \A k \in 1..l + 1 : NodeOf(u, k) = NodeOf(w, k)
  <2> SUFFICES ASSUME NEW k \in 1..l + 1 PROVE NodeOf(u, k) = NodeOf(w, k)
    OBVIOUS
  <2>1. CASE k = 1
    BY <2>1 DEF NodeOf
  <2>2. CASE k # 1
    <3>1. k - 1 \in 1..l
      BY <1>1, <2>2
    <3> QED BY <1>1, <3>1 DEF NodeOf
  <2> QED BY <2>1, <2>2
<1>7. NodeOf(u, l + 2) = tree[f.no].kids[ChildAt(f)]
  <2>1. l + 2 # 1 /\ (l + 2) - 1 = l + 1
    BY <1>1
  <2> QED BY <1>1, <2>1 DEF NodeOf
<1>8. ASSUME NEW k \in 1..l + 1
      PROVE  /\ Fits(u[k]) /\ u[k].no = NodeOf(u, k)
             /\ new[k + 1] = new[k] \o Told(tree, u[k].no, ChildAt(u[k]) - 1)
  <2>1. CASE k = l + 1
    <3>1. new[k + 1] = text /\ new[k] = at[l + 1] /\ u[k] = f /\ NodeOf(u, k) = NodeOf(w, l + 1)
      BY <1>1, <1>5, <1>6, <2>1
    <3> QED BY <1>0, <3>1 DEF l
  <2>2. CASE k # l + 1
    <3>1. k \in 1..l /\ k + 1 \in 1..l + 1
      BY <1>1, <2>2
    <3>2. new[k + 1] = at[k + 1] /\ new[k] = at[k] /\ u[k] = w[k] /\ NodeOf(u, k) = NodeOf(w, k)
      BY <1>1, <1>5, <1>6, <3>1
    <3> QED BY <1>2, <3>1, <3>2
  <2> QED BY <2>1, <2>2
<1>9. ASSUME NEW k \in 1..l + 2
      PROVE  Opens(new[k] \o Listing(tree, NodeOf(u, k)), all)
  <2>1. CASE k = l + 2
    <3> DEFINE told == Told(tree, f.no, ChildAt(f) - 1)
               kid == Listing(tree, tree[f.no].kids[ChildAt(f)])
               x == at[l + 1]
    <3>1. Opens(told \o kid, Listing(tree, f.no))
      BY <1>3, ToldStarts
    <3>2. Opens(x \o Listing(tree, f.no), all)
      <4>1. l + 1 \in 1..l + 1
        BY <1>1
      <4> QED BY <1>0, <1>2, <4>1 DEF l
    <3>3. told \in Text /\ kid \in Text /\ x \in Text
      <4>1. tree[f.no].kids \in Seq(Nat)
        BY <1>3, WalkFacts
      <4>2. ChildAt(f) - 1 \in 0..Len(tree[f.no].kids)
        BY <1>3, <4>1
      <4> QED BY <1>3, <4>2, ToldNow
    <3>4. new[k] = x \o told /\ NodeOf(u, k) = tree[f.no].kids[ChildAt(f)]
      BY <1>0, <1>5, <1>7, <2>1 DEF l
    <3>5. Opens(new[k] \o Listing(tree, NodeOf(u, k)), all) <=> Opens((x \o told) \o kid, all)
      BY <3>4
    <3> HIDE DEF told, kid, x
    <3>6. told \o kid \in Text /\ (x \o told) \o kid = x \o (told \o kid)
      BY <3>3, TextConcat
    <3> DEFINE part == told \o kid
    <3>7. part \in Text /\ Opens(part, Listing(tree, f.no)) /\ (x \o told) \o kid = x \o part
      BY <3>1, <3>6
    <3> HIDE DEF part
    <3>8. Opens(x \o part, all)
      BY <3>2, <3>3, <3>7, OpensWithin
    <3> QED BY <3>5, <3>7, <3>8
  <2>2. CASE k # l + 2
    <3>1. k \in 1..l + 1
      BY <1>1, <2>2
    <3> QED BY <1>2, <1>5, <1>6, <3>1
  <2> QED BY <2>1, <2>2
<1>10. new[1] = <<>>
  <2>1. 1 \in 1..l + 1
    BY <1>1
  <2> QED BY <1>2, <1>5, <2>1
<1>11. Said(u, new)
  <2>1. /\ new \in [1..Len(u) + 1 -> Text]
        /\ \A k \in DOMAIN u : /\ Fits(u[k]) /\ u[k].no = NodeOf(u, k)
                               /\ new[k + 1] = new[k] \o Told(tree, u[k].no, ChildAt(u[k]) - 1)
    BY <1>1, <1>5, <1>8
  <2>2. Len(u) + 1 = l + 2
    BY <1>1
  <2>3. \A k \in 1..Len(u) + 1 : Opens(new[k] \o Listing(tree, NodeOf(u, k)), SourceText)
    BY <1>9, <2>2 DEF all
  <2> QED BY <1>10, <2>1, <2>3 DEF Said
<1>12. Len(u) + 1 = l + 2
  BY <1>1
<1> QED BY <1>4, <1>5, <1>7, <1>11, <1>12

(* A call that is back in its caller.                                       *)
Returned(w, f, u, at, new) ==
  u = Append(w, f) /\ Said(u, at) /\ new = Cut(at, Len(w) + 1, at[Len(w) + 1])

LEMMA PopSaid ==
  ASSUME NEW w \in Seq(WorkFrame), NEW f \in WorkFrame, NEW u, NEW at, NEW new,
         Returned(w, f, u, at, new)
  PROVE  /\ Said(w, new) /\ new[Len(w) + 1] = at[Len(w) + 1] /\ at[Len(w) + 1] \in Text
         /\ Fits(f) /\ f.no = NodeOf(w, Len(w) + 1)
         /\ at[Len(u) + 1] = at[Len(w) + 1] \o Told(tree, f.no, ChildAt(f) - 1)
         /\ NodeOf(u, Len(u) + 1) = tree[f.no].kids[ChildAt(f)]
<1> DEFINE l == Len(w)
<1>0. u = Append(w, f) /\ Said(u, at) /\ new = Cut(at, Len(w) + 1, at[Len(w) + 1])
  BY DEF Returned
<1>1. /\ l \in Nat /\ DOMAIN w = 1..l /\ Len(u) = l + 1 /\ DOMAIN u = 1..l + 1 /\ u[l + 1] = f
      /\ \A k \in 1..l : u[k] = w[k]
  BY <1>0
<1> HIDE DEF l
<1>2. /\ \A k \in 1..l + 2 : at[k] \in Text
      /\ at[1] = <<>>
      /\ \A k \in 1..l + 1 : /\ Fits(u[k]) /\ u[k].no = NodeOf(u, k)
                             /\ at[k + 1] = at[k] \o Told(tree, u[k].no, ChildAt(u[k]) - 1)
      /\ \A k \in 1..l + 2 : Opens(at[k] \o Listing(tree, NodeOf(u, k)), SourceText)
  <2>1. Len(u) + 1 = l + 2
    BY <1>1
  <2> QED BY <1>0, <1>1, <2>1 DEF Said
<1>3. l + 1 \in 1..l + 2 /\ l + 1 \in 1..l + 1 /\ l + 2 # 1 /\ (l + 2) - 1 = l + 1 /\ (l + 1) + 1 = l + 2
  BY <1>1
<1>4. \A k \in 1..l + 1 : NodeOf(u, k) = NodeOf(w, k)
  <2> SUFFICES ASSUME NEW k \in 1..l + 1 PROVE NodeOf(u, k) = NodeOf(w, k)
    OBVIOUS
  <2>1. CASE k = 1
    BY <2>1 DEF NodeOf
  <2>2. CASE k # 1
    <3>1. k - 1 \in 1..l
      BY <1>1, <2>2
    <3> QED BY <1>1, <3>1 DEF NodeOf
  <2> QED BY <2>1, <2>2
<1>5. /\ new \in [1..l + 1 -> Text] /\ \A k \in 1..l + 1 : new[k] = at[k]
  <2>1. new = [k \in 1..l + 1 |-> IF k = l + 1 THEN at[l + 1] ELSE at[k]]
    BY <1>0 DEF Cut, l
  <2>2. \A k \in 1..l + 1 : k \in 1..l + 2
    BY <1>1
  <2> QED BY <1>2, <2>1, <2>2
<1>6. NodeOf(u, l + 2) = tree[f.no].kids[ChildAt(f)]
  BY <1>1, <1>3 DEF NodeOf
<1>7. Said(w, new)
  <2>1. ASSUME NEW k \in 1..l
        PROVE  /\ Fits(w[k]) /\ w[k].no = NodeOf(w, k)
               /\ new[k + 1] = new[k] \o Told(tree, w[k].no, ChildAt(w[k]) - 1)
    <3>1. k \in 1..l + 1 /\ k + 1 \in 1..l + 1
      BY <1>1
    <3> QED BY <1>1, <1>2, <1>4, <1>5, <3>1
  <2>2. ASSUME NEW k \in 1..l + 1
        PROVE  Opens(new[k] \o Listing(tree, NodeOf(w, k)), SourceText)
    <3>1. k \in 1..l + 2
      BY <1>1
    <3> QED BY <1>2, <1>4, <1>5, <3>1
  <2>3. new[1] = <<>>
    <3>1. 1 \in 1..l + 1
      BY <1>1
    <3> QED BY <1>2, <1>5, <3>1
  <2> QED BY <1>1, <1>5, <2>1, <2>2, <2>3 DEF Said, l
<1>8. at[l + 1] \in Text /\ new[l + 1] = at[l + 1] /\ Fits(f) /\ f.no = NodeOf(w, l + 1)
      /\ at[l + 2] = at[l + 1] \o Told(tree, f.no, ChildAt(f) - 1)
  BY <1>1, <1>2, <1>3, <1>4, <1>5
<1> QED BY <1>1, <1>3, <1>6, <1>7, <1>8 DEF l

-----------------------------------------------------------------------------
(* Every name assigned in the text so far has a value, and every name of a  *)
(* function that began there is a function.                                 *)
Valued(env, text) == \A v \in Name :
  /\ v \in NamesIn(source.tree, "ATTR", text) => env[v].kind # "null"
  /\ v \in NamesIn(source.tree, "FUNC", text) => env[v].kind = "func"
Grows(env, new) == \A v \in Name :
  /\ env[v].kind # "null" => new[v].kind # "null"
  /\ env[v].kind = "func" => new[v].kind = "func"

LEMMA ValuedStill ==
  ASSUME NEW env, NEW new, NEW text, Valued(env, text), Grows(env, new)
  PROVE  Valued(new, text)
BY DEF Valued, Grows

LEMMA ValuedMore ==
  ASSUME NEW env, NEW new, NEW text \in Text, NEW n \in Int, Valued(env, text), Grows(env, new),
         n # 0 /\ source.tree[n].type = "ATTR" => new[source.tree[n].name].kind # "null",
         n # 0 /\ source.tree[n].type = "FUNC" => new[source.tree[n].name].kind = "func"
  PROVE  Valued(new, text \o <<n>>)
<1> DEFINE more == Append(text, n)
<1>1. \A type, v : v \in NamesIn(source.tree, type, more) <=>
        \/ v \in NamesIn(source.tree, type, text)
        \/ n # 0 /\ source.tree[n].type = type /\ v = source.tree[n].name
  BY NamesAppend
<1>2. text \o <<n>> = more
  BY TextAppend
<1> HIDE DEF more
<1>3. Valued(new, text)
  BY ValuedStill
<1>4. ASSUME NEW v \in Name, v \in NamesIn(source.tree, "ATTR", more) PROVE new[v].kind # "null"
  <2>1. v \in NamesIn(source.tree, "ATTR", text) \/ (n # 0 /\ source.tree[n].type = "ATTR" /\ v = source.tree[n].name)
    BY <1>1, <1>4
  <2> QED BY <1>3, <2>1 DEF Valued
<1>5. ASSUME NEW v \in Name, v \in NamesIn(source.tree, "FUNC", more) PROVE new[v].kind = "func"
  <2>1. v \in NamesIn(source.tree, "FUNC", text) \/ (n # 0 /\ source.tree[n].type = "FUNC" /\ v = source.tree[n].name)
    BY <1>1, <1>5
  <2> QED BY <1>3, <2>1 DEF Valued
<1>6. Valued(new, more)
  BY <1>4, <1>5 DEF Valued
<1> QED BY <1>2, <1>6

(* The calls of generate_llvm_nodes are where the text is.                  *)
NowText(w, p, at) ==
  IF p.do = "gen" THEN at[Len(w) + 1] ELSE at[Len(w) + 1] \o Listing(tree, NodeOf(w, Len(w) + 1))
Speaking(at) ==
  /\ Said(work, at)
  /\ pending.do = "gen" => pending.no = NodeOf(work, Len(work) + 1)
  /\ Valued(Env, NowText(work, pending, at))
Sized(t) == \A n \in DOMAIN t :
  /\ t[n].type \in {"WHILE", "FUNC"} => Len(t[n].kids) = 1
  /\ t[n].type = "IF" => Len(t[n].kids) \in {1, 2}
WorkSaid(at) ==
  /\ GenInv /\ Walking /\ Declared(tree, synames)
  /\ PlainNodes(tree) /\ Sized(tree) /\ Copied(tree, source.tree)
  /\ Speaking(at)
SameSource == UNCHANGED <<tree, freed, root, source>>
SpeaksNext == \E at : Speaking(at)'

LEMMA SettleSaid ==
  ASSUME SameSource, NEW w, work' = w, NEW at, Said(w, at), NEW text, Valued(Env', text),
         \/ /\ pending' = Gen(NodeOf(w, Len(w) + 1)) /\ text = at[Len(w) + 1]
         \/ /\ \E b : pending' = Ret(b)
            /\ text = at[Len(w) + 1] \o Listing(tree, NodeOf(w, Len(w) + 1))
  PROVE  SpeaksNext
<1>1. tree' = tree /\ freed' = freed /\ root' = root /\ source' = source /\ SourceText' = SourceText
  BY DEF SameSource, SourceText
<1>2. Said(work, at)'
  BY <1>1 DEF Said, Fits, NodeOf
<1>3. \/ /\ pending'.do = "gen" /\ pending'.no = NodeOf(w, Len(w) + 1) /\ text = at[Len(w) + 1]
      \/ /\ pending'.do = "ret"
         /\ text = at[Len(w) + 1] \o Listing(tree, NodeOf(w, Len(w) + 1))
  <2>1. \A n : Gen(n).do = "gen" /\ Gen(n).no = n /\ Ret(n).do = "ret"
    BY DEF Gen, Ret
  <2> QED BY <2>1
<1>4. NodeOf(work, Len(work) + 1)' = NodeOf(w, Len(w) + 1)
  BY <1>1 DEF NodeOf
<1>5. NowText(work, pending, at)' = text
  BY <1>1, <1>3, <1>4 DEF NowText
<1>6. Valued(Env, NowText(work, pending, at))'
  BY <1>1, <1>5 DEF Valued
<1>7. Speaking(at)'
  BY <1>2, <1>3, <1>4, <1>6 DEF Speaking
<1> QED BY <1>7 DEF SpeaksNext

LEMMA SameEnv == ASSUME synames' = synames PROVE Env' = Env /\ Grows(Env, Env')
BY DEF Env, Grows

(* A call begins at the place of its node in the text.                      *)
LEMMA CalledSaid ==
  ASSUME NEW at, WorkSaid(at), NEW types, Called(types)
  PROVE  LET text == at[Len(work) + 1]
         IN  /\ No \in DOMAIN tree \ freed /\ No # 0 /\ No \in Int /\ N = tree[No] /\ N.type \in types
             /\ No = NodeOf(work, Len(work) + 1)
             /\ work \in Seq(WorkFrame) /\ text \in Text /\ Valued(Env, text)
             /\ Opens(text \o Listing(tree, No), SourceText)
             /\ N.type \notin ListType => /\ source.tree[No].type = N.type
                                          /\ source.tree[No].name = N.name
                                          /\ source.tree[No].exprs = N.exprs
<1>1. /\ No # 0 /\ No = pending.no /\ pending.do = "gen" /\ N = tree[No] /\ N.type \in types
      /\ No \in DOMAIN tree /\ No \in Nat
  BY CalledFacts DEF WorkSaid, Called, No, N
<1>2. Said(work, at) /\ No = NodeOf(work, Len(work) + 1)
  BY <1>1 DEF WorkSaid, Speaking
<1>3. work \in Seq(WorkFrame) /\ Len(work) \in Nat /\ DOMAIN work = 1..Len(work)
  <2>1. work \in Seq(WorkFrame)
    BY GenFacts DEF WorkSaid
  <2> QED BY <2>1
<1>4. No \notin freed
  <2>1. CASE Len(work) = 0
    BY <1>2, <2>1 DEF NodeOf, WorkSaid, Walking, Linked
  <2>2. CASE Len(work) # 0
    <3> DEFINE f == work[Len(work)]
    <3>1. Len(work) \in DOMAIN work /\ (Len(work) + 1) - 1 = Len(work) /\ Len(work) + 1 # 1
      BY <1>3, <2>2
    <3>2. Fits(f) /\ No = tree[f.no].kids[ChildAt(f)]
      BY <1>2, <3>1 DEF NodeOf, Said
    <3> HIDE DEF f
    <3>3. tree[f.no].kids[ChildAt(f)] \in (DOMAIN tree \ freed) \cup {0}
      BY <3>2 DEF Fits, WorkSaid, Walking, Linked, ClosedUnder
    <3> QED BY <1>1, <3>2, <3>3
  <2> QED BY <2>1, <2>2
<1>5. /\ at[Len(work) + 1] \in Text
      /\ Opens(at[Len(work) + 1] \o Listing(tree, No), SourceText)
  <2>1. Len(work) + 1 \in 1..Len(work) + 1
    BY <1>3
  <2> QED BY <1>2, <2>1 DEF Said
<1>6. Valued(Env, at[Len(work) + 1])
  BY <1>1 DEF WorkSaid, Speaking, NowText
<1>7. N.type \notin ListType => /\ source.tree[No].type = N.type
                                /\ source.tree[No].name = N.name
                                /\ source.tree[No].exprs = N.exprs
  BY <1>1 DEF WorkSaid, Copied, Same
<1> QED BY <1>1, <1>2, <1>3, <1>4, <1>5, <1>6, <1>7

(* A simple statement.                                                      *)
LEMMA LeafSaid ==
  ASSUME NEW at, WorkSaid(at), NEW types, Called(types), N.type \in LeafType, SameSource,
         work' = work, pending' = Ret(0), Grows(Env, Env'),
         N.type = "ATTR" => Env'[N.name].kind # "null"
  PROVE  SpeaksNext
<1> DEFINE text == at[Len(work) + 1]
<1>1. /\ No \in DOMAIN tree \ freed /\ No # 0 /\ No \in Int /\ N = tree[No]
      /\ No = NodeOf(work, Len(work) + 1) /\ text \in Text /\ Valued(Env, text)
      /\ N.type \notin ListType => /\ source.tree[No].type = N.type
                                   /\ source.tree[No].name = N.name
  BY CalledSaid
<1>2. N.type \notin ListType /\ N.type # "FUNC"
  BY DEF LeafType, ListType
<1>3. Listing(tree, No) = <<No>>
  BY <1>1, LeafText DEF WorkSaid
<1> HIDE DEF text
<1>4. Valued(Env', text \o <<No>>)
  BY <1>1, <1>2, ValuedMore
<1>5. Said(work, at)
  BY DEF WorkSaid, Speaking
<1>6. /\ \E b : pending' = Ret(b)
      /\ text \o <<No>> = at[Len(work) + 1] \o Listing(tree, NodeOf(work, Len(work) + 1))
  BY <1>1, <1>3 DEF text
<1> QED BY <1>4, <1>5, <1>6, SettleSaid

(* A call that calls itself for the first child of its node.                *)
LEMMA PushSaid ==
  ASSUME NEW at, WorkSaid(at), NEW types, Called(types), NEW f \in WorkFrame,
         Fits(f), f.no = No, ChildAt(f) = 1, SameSource,
         work' = Append(work, f), pending' = Gen(N.kids[1]), Grows(Env, Env'),
         N.type # "ATTR", N.type = "FUNC" => Env'[N.name].kind = "func"
  PROVE  SpeaksNext
<1> DEFINE before == at[Len(work) + 1]
<1>0. PICK u, text, new : /\ u = Append(work, f)
                          /\ text = at[Len(work) + 1] \o Told(tree, f.no, ChildAt(f) - 1)
                          /\ new = Cut(at, Len(work) + 2, text)
  OBVIOUS
<1>1. /\ No \in DOMAIN tree \ freed /\ No # 0 /\ No \in Int /\ N = tree[No]
      /\ No = NodeOf(work, Len(work) + 1) /\ before \in Text /\ Valued(Env, before)
      /\ work \in Seq(WorkFrame)
      /\ N.type \notin ListType => /\ source.tree[No].type = N.type
                                   /\ source.tree[No].name = N.name
  BY CalledSaid
<1>2. Walking /\ Said(work, at)
  BY DEF WorkSaid, Speaking
<1>3. /\ Said(u, new) /\ new[Len(u) + 1] = text
      /\ NodeOf(u, Len(u) + 1) = tree[f.no].kids[ChildAt(f)]
  <2>1. Pushes(work, f, at, u, new, text)
    BY <1>0, <1>1, <1>2 DEF Pushes
  <2> QED BY <1>1, <1>2, <2>1, AppendSaid
<1>4. text = before \o Begins(tree, No)
  <2>1. 1 - 1 = 0 /\ Told(tree, No, 0) = Begins(tree, No)
    BY <1>1, <1>2, ToldNow
  <2> QED BY <1>0, <2>1
<1> HIDE DEF before
<1>5. Valued(Env', text)
  <2>1. CASE IsList(tree, No)
    <3>1. before \o <<>> = before
      BY <1>1 DEF Text
    <3>2. text = before
      BY <1>4, <2>1, <3>1 DEF Begins
    <3> QED BY <1>1, <3>2, ValuedStill
  <2>2. CASE ~IsList(tree, No)
    <3>1. N.type \notin ListType
      BY <1>1, <2>2 DEF IsList, ListType
    <3>2. text = before \o <<No>>
      BY <1>4, <2>2 DEF Begins
    <3>3. Valued(Env', before \o <<No>>)
      BY <1>1, <3>1, ValuedMore
    <3> QED BY <3>2, <3>3
  <2> QED BY <2>1, <2>2
<1>6. pending' = Gen(NodeOf(u, Len(u) + 1)) /\ text = new[Len(u) + 1] /\ work' = u
  BY <1>0, <1>1, <1>3
<1> QED BY <1>3, <1>5, <1>6, SettleSaid

(* Back in the caller, what it has told ends with its child.                *)
BackIn(kind, w, f) == Back(kind) /\ w = SubSeq(work, 1, Len(work) - 1) /\ f = CurrentFrame
LEMMA BackSaid ==
  ASSUME NEW at, WorkSaid(at), NEW kind, NEW w, NEW f, BackIn(kind, w, f)
  PROVE  /\ w \in Seq(WorkFrame) /\ f \in WorkFrame /\ f.k = kind /\ work = Append(w, f)
         /\ Said(w, Cut(at, Len(w) + 1, at[Len(w) + 1]))
         /\ Cut(at, Len(w) + 1, at[Len(w) + 1])[Len(w) + 1] = at[Len(w) + 1]
         /\ Fits(f) /\ f.no = NodeOf(w, Len(w) + 1) /\ at[Len(w) + 1] \in Text
         /\ Valued(Env, at[Len(w) + 1] \o Told(tree, f.no, ChildAt(f)))
<1>1. w \in Seq(WorkFrame) /\ f \in WorkFrame /\ f.k = kind /\ work = Append(w, f)
  BY BackFacts DEF WorkSaid, BackIn
<1>2. Walking /\ Said(work, at) /\ pending.do = "ret"
  BY DEF WorkSaid, Speaking, Back, BackIn
<1>0. PICK new : new = Cut(at, Len(w) + 1, at[Len(w) + 1])
  OBVIOUS
<1> DEFINE x == at[Len(w) + 1]
           kid == Listing(tree, tree[f.no].kids[ChildAt(f)])
           now == (x \o Told(tree, f.no, ChildAt(f) - 1)) \o kid
<1>3. /\ Said(w, new) /\ new[Len(w) + 1] = x /\ x \in Text
      /\ Fits(f) /\ f.no = NodeOf(w, Len(w) + 1)
      /\ at[Len(work) + 1] = x \o Told(tree, f.no, ChildAt(f) - 1)
      /\ NodeOf(work, Len(work) + 1) = tree[f.no].kids[ChildAt(f)]
  <2>1. Returned(w, f, work, at, new)
    BY <1>0, <1>1, <1>2 DEF Returned
  <2>2. w \in Seq(WorkFrame) /\ f \in WorkFrame
    BY <1>1
  <2> QED BY <1>2, <2>1, <2>2, PopSaid
<1>4. NowText(work, pending, at) = now
  BY <1>2, <1>3 DEF NowText
<1>5. Valued(Env, now)
  BY <1>4 DEF WorkSaid, Speaking
<1>6. f.no \in DOMAIN tree \ freed /\ ChildAt(f) \in DOMAIN tree[f.no].kids
  BY <1>3 DEF Fits
<1>7. /\ x \o Told(tree, f.no, ChildAt(f) - 1) \in Text
      /\ now \o Ends(tree, f.no) = x \o Told(tree, f.no, ChildAt(f))
  BY <1>2, <1>3, <1>6, Spoken
<1>8. now \in Text
  <2> DEFINE a == x \o Told(tree, f.no, ChildAt(f) - 1)
  <2>1. a \in Text /\ kid \in Text
    BY <1>2, <1>6, <1>7, ToldNow
  <2> HIDE DEF a, kid
  <2>2. a \o kid \in Text
    BY <2>1, TextConcat
  <2> QED BY <2>2 DEF a
<1>9. Valued(Env, now \o Ends(tree, f.no))
  <2> HIDE DEF now
  <2>1. CASE IsList(tree, f.no)
    <3>1. now \o <<>> = now
      BY <1>8 DEF Text
    <3>2. Ends(tree, f.no) = <<>>
      BY <2>1 DEF Ends
    <3> QED BY <1>5, <3>1, <3>2
  <2>2. CASE ~IsList(tree, f.no)
    <3>1. Ends(tree, f.no) = <<0>> /\ Grows(Env, Env)
      BY <2>2 DEF Ends, Grows
    <3>2. Valued(Env, now \o <<0>>)
      BY <1>5, <1>8, <3>1, ValuedMore
    <3> QED BY <3>1, <3>2
  <2> QED BY <2>1, <2>2
<1> QED BY <1>0, <1>1, <1>3, <1>7, <1>9

(* It goes on with its next child, ...                                      *)
LEMMA NextSaid ==
  ASSUME NEW at, WorkSaid(at), NEW kind, NEW w, NEW f, BackIn(kind, w, f),
         NEW g \in WorkFrame, Fits(g), g.no = f.no, ChildAt(g) - 1 = ChildAt(f),
         SameSource, synames' = synames, work' = Append(w, g),
         pending' = Gen(tree[f.no].kids[ChildAt(g)])
  PROVE  SpeaksNext
<1>0. PICK cut : cut = Cut(at, Len(w) + 1, at[Len(w) + 1])
  OBVIOUS
<1>1. /\ w \in Seq(WorkFrame) /\ Said(w, cut) /\ cut[Len(w) + 1] = at[Len(w) + 1]
      /\ f.no = NodeOf(w, Len(w) + 1)
      /\ Valued(Env, at[Len(w) + 1] \o Told(tree, f.no, ChildAt(f)))
  BY <1>0, BackSaid
<1>2. Walking
  BY DEF WorkSaid
<1>6. PICK u, text, new : /\ u = Append(w, g)
                          /\ text = cut[Len(w) + 1] \o Told(tree, g.no, ChildAt(g) - 1)
                          /\ new = Cut(cut, Len(w) + 2, text)
  OBVIOUS
<1>3. /\ Said(u, new) /\ new[Len(u) + 1] = text
      /\ NodeOf(u, Len(u) + 1) = tree[g.no].kids[ChildAt(g)]
  <2>1. Pushes(w, g, cut, u, new, text)
    BY <1>1, <1>6 DEF Pushes
  <2> QED BY <1>1, <1>2, <2>1, AppendSaid
<1>4. Valued(Env', text)
  BY <1>1, <1>6, SameEnv
<1>5. pending' = Gen(NodeOf(u, Len(u) + 1)) /\ text = new[Len(u) + 1] /\ work' = u
  BY <1>3, <1>6
<1> QED BY <1>3, <1>4, <1>5, SettleSaid

(* ... or returns after the last one.                                       *)
LEMMA LeaveSaid ==
  ASSUME NEW at, WorkSaid(at), NEW kind, NEW w, NEW f, BackIn(kind, w, f),
         ChildAt(f) = Len(tree[f.no].kids),
         SameSource, synames' = synames, work' = w, \E b : pending' = Ret(b)
  PROVE  SpeaksNext
<1> DEFINE cut == Cut(at, Len(w) + 1, at[Len(w) + 1])
           text == at[Len(w) + 1] \o Told(tree, f.no, ChildAt(f))
<1>1. /\ Said(w, cut) /\ cut[Len(w) + 1] = at[Len(w) + 1]
      /\ f.no = NodeOf(w, Len(w) + 1) /\ Fits(f)
      /\ Valued(Env, text)
  BY BackSaid
<1>2. Told(tree, f.no, Len(tree[f.no].kids)) = Listing(tree, f.no)
  <2>1. Walking /\ f.no \in DOMAIN tree \ freed
    BY <1>1 DEF WorkSaid, Fits
  <2> QED BY <2>1, ToldNow
<1>3. text = cut[Len(w) + 1] \o Listing(tree, NodeOf(w, Len(w) + 1))
  BY <1>1, <1>2
<1>4. Valued(Env', text)
  BY <1>1, SameEnv
<1> HIDE DEF cut, text
<1> QED BY <1>1, <1>3, <1>4, SettleSaid

-----------------------------------------------------------------------------
(* The actions of the code generator, one by one.                           *)
LEMMA SourceStill ==
  ASSUME UNCHANGED treeVars, UNCHANGED source PROVE SameSource
BY DEF treeVars, SameSource

LEMMA PushFits ==
  ASSUME NEW at, WorkSaid(at), NEW types, Called(types), NEW f, f.no = No, f.i = 1,
         \/ f.k = "list" /\ N.type \in ListType
         \/ f.k \in {"while", "func"} /\ N.type \in {"WHILE", "FUNC"}
         \/ f.k = "then" /\ N.type = "IF" /\ (f.b2 # 0 <=> Len(N.kids) > 1)
  PROVE  Fits(f) /\ ChildAt(f) = 1
<1>1. No \in DOMAIN tree \ freed /\ N = tree[No]
  BY CalledSaid
<1>2. N \in NodeRec /\ NodeShape(tree, N) /\ GenInv
  BY CalledFacts DEF WorkSaid
<1>3. N.kids \in Seq(Nat) /\ N.kids # <<>>
  BY <1>2 DEF NodeShape, BodyType, NodeRec
<1>4. 1 \in DOMAIN N.kids /\ Len(N.kids) \in Nat
  BY <1>3
<1>5. /\ N.type \in {"WHILE", "FUNC"} => Len(N.kids) = 1
      /\ N.type = "IF" => Len(N.kids) \in {1, 2}
  BY <1>1 DEF WorkSaid, Sized
<1>6. ChildAt(f) = 1
  BY DEF ChildAt
<1>7. f.k = "list" <=> IsList(tree, f.no)
  BY <1>1 DEF IsList, ListType
<1>8. f.k # "list" => Len(N.kids) = IF HasElse(f) THEN 2 ELSE 1
  <2>1. CASE f.k = "list"
    BY <2>1
  <2>2. CASE f.k \in {"while", "func"} /\ N.type \in {"WHILE", "FUNC"}
    BY <1>5, <2>2 DEF HasElse
  <2>3. CASE f.k = "then" /\ N.type = "IF" /\ (f.b2 # 0 <=> Len(N.kids) > 1)
    <3> DEFINE len == Len(N.kids)
    <3>1. len \in {1, 2} /\ (f.b2 # 0 <=> len > 1) /\ f.k = "then"
      BY <1>5, <2>3
    <3> HIDE DEF len
    <3>2. len = IF HasElse(f) THEN 2 ELSE 1
      BY <3>1 DEF HasElse
    <3> QED BY <3>2 DEF len
  <2> QED BY <2>1, <2>2, <2>3
<1> QED BY <1>1, <1>4, <1>6, <1>7, <1>8 DEF Fits

LEMMA GenAttrSaid ==
  ASSUME NEW at, WorkSaid(at), GenAttr, UNCHANGED source
  PROVE  SpeaksNext
<1>1. /\ Called({"ATTR"}) /\ work' = work /\ pending' = Ret(0) /\ UNCHANGED treeVars
      /\ synames' = [synames EXCEPT ![search_symbol(synames, N.name)].llvm = Variable]
  BY DEF GenAttr
<1>2. GenInv /\ "ATTR" \in NamedType /\ N.name \in Name /\ N.type = "ATTR" /\ No \in DOMAIN tree
  <2>1. GenInv /\ "ATTR" \in NamedType
    BY DEF WorkSaid, NamedType
  <2> QED BY <1>1, <2>1, AttrValue, CalledFacts
<1>3. Found(synames, N.name) /\ synames \in Seq(Symbol)
  BY <1>2, GenFacts DEF WorkSaid, Declared, N
<1>4. Env'[N.name] = Variable /\ \A other \in Name \ {N.name} : Env'[other] = Env[other]
  BY <1>1, <1>2, <1>3, EnvAfter
<1>5. /\ Variable.kind # "null"
      /\ Env[N.name].kind = "func" => Variable.kind = "func"
  <2>1. CASE Fresh
    BY <2>1 DEF Variable, Fresh
  <2>2. CASE ~Fresh
    BY <2>2 DEF Variable, Fresh
  <2> QED BY <2>1, <2>2
<1>6. Grows(Env, Env')
  <2> SUFFICES ASSUME NEW v \in Name
               PROVE  /\ Env[v].kind # "null" => Env'[v].kind # "null"
                      /\ Env[v].kind = "func" => Env'[v].kind = "func"
    BY DEF Grows
  <2>1. CASE v = N.name
    BY <1>4, <1>5, <2>1
  <2>2. CASE v # N.name
    <3>1. Env'[v] = Env[v]
      BY <1>4, <2>2
    <3> QED BY <3>1
  <2> QED BY <2>1, <2>2
<1>7. SameSource /\ N.type \in LeafType
  BY <1>1, <1>2, SourceStill DEF LeafType
<1> QED BY <1>1, <1>4, <1>5, <1>6, <1>7, LeafSaid

LEMMA SimpleSaid ==
  ASSUME NEW at, WorkSaid(at), GenOut \/ GenDelay \/ GenPrnt \/ GenCall, UNCHANGED source
  PROVE  SpeaksNext
<1>1. PICK type \in {"OUT", "DELAY", "PRNT", "CALL"} :
        /\ Called({type}) /\ work' = work /\ pending' = Ret(0) /\ UNCHANGED treeVars
        /\ synames' = synames
  BY DEF GenOut, GenDelay, GenPrnt, GenCall, GenSimple
<1>2. N.type = type
  BY <1>1 DEF Called
<1>3. N.type \in LeafType /\ N.type # "ATTR"
  BY <1>2 DEF LeafType
<1> QED BY <1>1, <1>3, SourceStill, SameEnv, LeafSaid

LEMMA GenListSaid ==
  ASSUME NEW at, WorkSaid(at), GenList, UNCHANGED source
  PROVE  SpeaksNext
<1>1. PICK f : f = [k |-> "list", no |-> No, i |-> 1, b1 |-> 0, b2 |-> 0, at |-> insert]
  OBVIOUS
<1>2. /\ Called(ListType) /\ work' = Append(work, f) /\ pending' = Gen(N.kids[1])
      /\ UNCHANGED treeVars /\ synames' = synames
  BY <1>1 DEF GenList, Push
<1>3. N.type \in ListType /\ No \in Nat /\ insert \in Nat
  BY <1>2, CalledFacts, GenFacts DEF WorkSaid
<1>4. f \in WorkFrame /\ f.no = No /\ f.i = 1 /\ f.k = "list"
  BY <1>1, <1>3 DEF WorkFrame, FrameKind
<1>5. Fits(f) /\ ChildAt(f) = 1
  BY <1>2, <1>3, <1>4, PushFits
<1>6. N.type # "ATTR" /\ N.type # "FUNC"
  BY <1>3 DEF ListType
<1> QED BY <1>2, <1>4, <1>5, <1>6, SourceStill, SameEnv, PushSaid

LEMMA GenWhileSaid ==
  ASSUME NEW at, WorkSaid(at), GenWhile, UNCHANGED source
  PROVE  SpeaksNext
<1>1. PICK n, m : n = Len(blocks) + 1 /\ m = Len(blocks) + 2
  OBVIOUS
<1>2. PICK f : f = [k |-> "while", no |-> No, i |-> 1, b1 |-> n, b2 |-> m, at |-> m]
  OBVIOUS
<1>3. /\ Called({"WHILE"}) /\ work' = Append(work, f) /\ pending' = Gen(N.kids[1])
      /\ UNCHANGED treeVars /\ synames' = synames
  BY <1>1, <1>2 DEF GenWhile, Push
<1>4. N.type = "WHILE" /\ No \in Nat /\ n \in Nat /\ m \in Nat
  BY <1>1, <1>3, CalledFacts DEF WorkSaid, GenInv, ParseInv, TypeOK, CodegenTypeOK
<1>5. f \in WorkFrame /\ f.no = No /\ f.i = 1 /\ f.k = "while"
  BY <1>2, <1>4 DEF WorkFrame, FrameKind
<1>6. Fits(f) /\ ChildAt(f) = 1
  BY <1>3, <1>4, <1>5, PushFits
<1> QED BY <1>3, <1>4, <1>5, <1>6, SourceStill, SameEnv, PushSaid

LEMMA GenIfSaid ==
  ASSUME NEW at, WorkSaid(at), GenIf, UNCHANGED source
  PROVE  SpeaksNext
<1>1. PICK n, elseif, endif :
        /\ n = Len(blocks) + 1
        /\ elseif = IF Len(N.kids) > 1 THEN n + 1 ELSE 0
        /\ endif = IF Len(N.kids) > 1 THEN n + 2 ELSE n + 1
  OBVIOUS
<1>2. PICK f : f = [k |-> "then", no |-> No, i |-> 1, b1 |-> endif, b2 |-> elseif, at |-> n]
  OBVIOUS
<1>3. /\ Called({"IF"}) /\ work' = Append(work, f) /\ pending' = Gen(N.kids[1])
      /\ UNCHANGED treeVars /\ synames' = synames
  BY <1>1, <1>2 DEF GenIf, Push
<1>4. /\ N.type = "IF" /\ No \in Nat /\ n \in Nat /\ elseif \in Nat /\ endif \in Nat
      /\ elseif # 0 <=> Len(N.kids) > 1
  BY <1>1, <1>3, CalledFacts DEF WorkSaid, GenInv, ParseInv, TypeOK, CodegenTypeOK
<1>5. f \in WorkFrame /\ f.no = No /\ f.i = 1 /\ f.k = "then" /\ f.b2 = elseif
  BY <1>2, <1>4 DEF WorkFrame, FrameKind
<1>6. Fits(f) /\ ChildAt(f) = 1
  BY <1>3, <1>4, <1>5, PushFits
<1> QED BY <1>3, <1>4, <1>5, <1>6, SourceStill, SameEnv, PushSaid

LEMMA GenFuncSaid ==
  ASSUME NEW at, WorkSaid(at), GenFunc, UNCHANGED source
  PROVE  SpeaksNext
<1>1. PICK n : n = Len(blocks) + 1
  OBVIOUS
<1>2. PICK f, value : /\ f = [k |-> "func", no |-> No, i |-> 1, b1 |-> insert, b2 |-> 0, at |-> n]
                      /\ value = [kind |-> "func", at |-> n]
  OBVIOUS
<1>3. /\ Called({"FUNC"}) /\ work' = Append(work, f) /\ pending' = Gen(N.kids[1])
      /\ UNCHANGED treeVars
      /\ synames' = [synames EXCEPT ![search_symbol(synames, N.name)].llvm = value]
  BY <1>1, <1>2 DEF GenFunc, Push
<1>4. GenInv /\ "FUNC" \in NamedType /\ N.name \in Name /\ N.type = "FUNC" /\ No \in DOMAIN tree
  <2>1. GenInv /\ "FUNC" \in NamedType
    BY DEF WorkSaid, NamedType
  <2> QED BY <1>3, <2>1, AttrValue, CalledFacts
<1>5. Found(synames, N.name) /\ synames \in Seq(Symbol)
  BY <1>4, GenFacts DEF WorkSaid, Declared, N
<1>6. Env'[N.name] = value /\ \A other \in Name \ {N.name} : Env'[other] = Env[other]
  BY <1>3, <1>4, <1>5, EnvAfter
<1>7. Grows(Env, Env') /\ Env'[N.name].kind = "func"
  <2>1. value.kind = "func"
    BY <1>2
  <2> SUFFICES ASSUME NEW v \in Name
               PROVE  /\ Env[v].kind # "null" => Env'[v].kind # "null"
                      /\ Env[v].kind = "func" => Env'[v].kind = "func"
    BY <1>6, <2>1 DEF Grows
  <2>2. CASE v = N.name
    BY <1>6, <2>1, <2>2
  <2>3. CASE v # N.name
    <3>1. Env'[v] = Env[v]
      BY <1>6, <2>3
    <3> QED BY <3>1
  <2> QED BY <2>2, <2>3
<1>8. No \in Nat /\ n \in Nat /\ insert \in Nat
  BY <1>1, <1>3, <1>4, GenFacts, CalledFacts DEF GenInv, ParseInv, TypeOK, CodegenTypeOK
<1>9. f \in WorkFrame /\ f.no = No /\ f.i = 1 /\ f.k = "func"
  BY <1>2, <1>8 DEF WorkFrame, FrameKind
<1>10. Fits(f) /\ ChildAt(f) = 1
  BY <1>3, <1>4, <1>9, PushFits
<1> QED BY <1>3, <1>4, <1>7, <1>9, <1>10, SourceStill, PushSaid

LEMMA ListNextSaid ==
  ASSUME NEW at, WorkSaid(at), ListNext, UNCHANGED source
  PROVE  SpeaksNext
<1>1. PICK w, f, iblock, point :
        /\ w = SubSeq(work, 1, Len(work) - 1) /\ f = CurrentFrame
        /\ iblock = IF pending.block # 0 THEN pending.block ELSE f.b1
        /\ point = IF pending.block # 0 THEN pending.block ELSE insert
  OBVIOUS
<1>2. PICK g : g = [f EXCEPT !.i = @ + 1, !.b1 = iblock, !.at = point]
  OBVIOUS
<1>3. /\ Back("list") /\ UNCHANGED treeVars /\ synames' = synames
      /\ \/ /\ f.i < Len(tree[f.no].kids)
            /\ work' = [work EXCEPT ![Len(work)] = g]
            /\ pending' = Gen(tree[f.no].kids[f.i + 1])
         \/ f.i >= Len(tree[f.no].kids) /\ work' = w /\ pending' = Ret(iblock)
  BY <1>1, <1>2 DEF ListNext, PopFrame
<1>4. BackIn("list", w, f)
  BY <1>1, <1>3 DEF BackIn
<1>5. /\ w \in Seq(WorkFrame) /\ f \in WorkFrame /\ f.k = "list" /\ work = Append(w, f) /\ Fits(f)
  BY <1>4, BackSaid
<1>6. /\ f.no \in DOMAIN tree \ freed /\ IsList(tree, f.no) /\ ChildAt(f) = f.i
      /\ f.i \in DOMAIN tree[f.no].kids /\ tree[f.no].kids \in Seq(Nat)
  <2>1. /\ f.no \in DOMAIN tree \ freed /\ IsList(tree, f.no) /\ ChildAt(f) = f.i
        /\ f.i \in DOMAIN tree[f.no].kids
    BY <1>5 DEF Fits, ChildAt
  <2> QED BY <2>1, WalkFacts DEF WorkSaid
<1>7. SameSource
  BY <1>3, SourceStill
<1>8. f.i \in Nat /\ f.i <= Len(tree[f.no].kids) /\ Len(tree[f.no].kids) \in Nat
  BY <1>6
<1>9. CASE /\ f.i < Len(tree[f.no].kids)
           /\ work' = [work EXCEPT ![Len(work)] = g]
           /\ pending' = Gen(tree[f.no].kids[f.i + 1])
  <2>1. g \in WorkFrame /\ g.k = "list" /\ g.no = f.no /\ g.i = f.i + 1
    <3>1. f.b1 \in Nat /\ f.b2 \in Nat /\ f.no \in Nat /\ f.k \in FrameKind /\ f.i + 1 \in Nat
      BY <1>5 DEF WorkFrame
    <3>2. iblock \in Nat /\ point \in Nat
      <4>1. pending.block \in Nat /\ insert \in Nat
        BY GenFacts DEF WorkSaid, Pending
      <4> QED BY <1>1, <3>1, <4>1
    <3> DEFINE i == f.i + 1
    <3>3. g = [f EXCEPT !.i = i, !.b1 = iblock, !.at = point]
      BY <1>2, Zenon
    <3>4. i \in Nat
      BY <3>1
    <3> HIDE DEF i
    <3>5. g = [k |-> f.k, no |-> f.no, i |-> i, b1 |-> iblock, b2 |-> f.b2, at |-> point]
      BY <1>5, <3>3 DEF WorkFrame
    <3>6. g \in WorkFrame /\ g.k = f.k /\ g.no = f.no /\ g.i = i
      BY <3>1, <3>2, <3>4, <3>5 DEF WorkFrame
    <3> QED BY <1>5, <3>6 DEF i
  <2>2. work' = Append(w, g)
    BY <1>5, <1>9, <2>1, TopReplaced
  <2>3. ChildAt(g) = f.i + 1 /\ ChildAt(g) - 1 = ChildAt(f)
    BY <1>6, <1>8, <2>1 DEF ChildAt
  <2>4. f.i + 1 \in DOMAIN tree[f.no].kids
    BY <1>6, <1>8, <1>9
  <2>5. Fits(g)
    BY <1>6, <2>1, <2>3, <2>4 DEF Fits
  <2>6. pending' = Gen(tree[f.no].kids[ChildAt(g)])
    BY <1>9, <2>3
  <2> QED BY <1>3, <1>4, <1>7, <2>1, <2>2, <2>3, <2>5, <2>6, NextSaid
<1>10. CASE f.i >= Len(tree[f.no].kids) /\ work' = w /\ pending' = Ret(iblock)
  <2>1. ChildAt(f) = Len(tree[f.no].kids)
    BY <1>6, <1>8, <1>10
  <2>2. \E b : pending' = Ret(b)
    BY <1>10
  <2> QED BY <1>3, <1>4, <1>7, <1>10, <2>1, <2>2, LeaveSaid
<1> QED BY <1>3, <1>9, <1>10

LEMMA ThenDoneSaid ==
  ASSUME NEW at, WorkSaid(at), ThenDone, UNCHANGED source
  PROVE  SpeaksNext
<1>1. PICK w, f : w = SubSeq(work, 1, Len(work) - 1) /\ f = CurrentFrame
  OBVIOUS
<1>2. PICK g : g = [f EXCEPT !.k = "else", !.b2 = 0, !.at = f.b2]
  OBVIOUS
<1>3. /\ Back("then") /\ f.b2 # 0 /\ UNCHANGED treeVars /\ synames' = synames
      /\ work' = [work EXCEPT ![Len(work)] = g] /\ pending' = Gen(tree[f.no].kids[2])
  BY <1>1, <1>2 DEF ThenDone
<1>4. BackIn("then", w, f)
  BY <1>1, <1>3 DEF BackIn
<1>5. /\ w \in Seq(WorkFrame) /\ f \in WorkFrame /\ f.k = "then" /\ work = Append(w, f) /\ Fits(f)
  BY <1>4, BackSaid
<1>6. /\ f.no \in DOMAIN tree \ freed /\ ~IsList(tree, f.no) /\ ChildAt(f) = 1
      /\ Len(tree[f.no].kids) = 2 /\ tree[f.no].kids \in Seq(Nat)
  <2>1. /\ f.no \in DOMAIN tree \ freed /\ ~IsList(tree, f.no) /\ ChildAt(f) = 1
        /\ Len(tree[f.no].kids) = 2
    BY <1>3, <1>5 DEF Fits, ChildAt, HasElse
  <2> QED BY <2>1, WalkFacts DEF WorkSaid
<1>7. g \in WorkFrame /\ g.k = "else" /\ g.no = f.no
  <2>1. f.b1 \in Nat /\ f.b2 \in Nat /\ f.no \in Nat /\ f.i \in Nat
    BY <1>5 DEF WorkFrame
  <2>2. g = [k |-> "else", no |-> f.no, i |-> f.i, b1 |-> f.b1, b2 |-> 0, at |-> f.b2]
    BY <1>2, <1>5 DEF WorkFrame
  <2> QED BY <2>1, <2>2 DEF WorkFrame, FrameKind
<1>8. work' = Append(w, g)
  BY <1>3, <1>5, <1>7, TopReplaced
<1>9. ChildAt(g) = 2 /\ ChildAt(g) - 1 = ChildAt(f)
  BY <1>6, <1>7 DEF ChildAt
<1>10. Fits(g)
  <2>1. 2 \in DOMAIN tree[f.no].kids
    BY <1>6
  <2>2. HasElse(g) /\ g.k # "list"
    BY <1>7 DEF HasElse
  <2> QED BY <1>6, <1>7, <1>9, <2>1, <2>2 DEF Fits
<1>11. pending' = Gen(tree[f.no].kids[ChildAt(g)])
  BY <1>3, <1>9
<1>12. SameSource /\ synames' = synames
  BY <1>3, SourceStill
<1> QED BY <1>4, <1>7, <1>8, <1>9, <1>10, <1>11, <1>12, NextSaid

LEMMA DoneSaid ==
  ASSUME NEW at, WorkSaid(at), WhileDone \/ IfDone \/ FuncDone, UNCHANGED source
  PROVE  SpeaksNext
<1>1. PICK w, f : w = SubSeq(work, 1, Len(work) - 1) /\ f = CurrentFrame
  OBVIOUS
<1>2. PICK kind \in {"while", "then", "else", "func"} :
        /\ Back(kind) /\ (kind = "then" => f.b2 = 0)
        /\ UNCHANGED treeVars /\ synames' = synames
        /\ work' = w /\ \E b : pending' = Ret(b)
  <2>1. CASE WhileDone
    BY <1>1, <2>1 DEF WhileDone, PopFrame
  <2>2. CASE IfDone
    BY <1>1, <2>2 DEF IfDone, PopFrame
  <2>3. CASE FuncDone
    BY <1>1, <2>3 DEF FuncDone, PopFrame
  <2> QED BY <2>1, <2>2, <2>3
<1>3. BackIn(kind, w, f)
  BY <1>1, <1>2 DEF BackIn
<1>4. f.k = kind /\ Fits(f)
  BY <1>3, BackSaid
<1>5. ChildAt(f) = Len(tree[f.no].kids)
  <2>1. CASE kind = "else"
    BY <1>4, <2>1 DEF Fits, ChildAt, HasElse
  <2>2. CASE kind # "else"
    <3>1. ~HasElse(f) /\ f.k # "list" /\ ChildAt(f) = 1
      BY <1>2, <1>4, <2>2 DEF HasElse, ChildAt
    <3> QED BY <1>4, <3>1 DEF Fits
  <2> QED BY <2>1, <2>2
<1> QED BY <1>2, <1>3, <1>5, SourceStill, LeaveSaid

-----------------------------------------------------------------------------
(* Where the text has no uncovered use, every read of a statement follows   *)
(* an assignment.                                                           *)
LEMMA ReadsAreCovered ==
  ASSUME NEW t, NEW text, NEW j \in DOMAIN text, text[j] # 0, UncoveredUses(t, text) = {},
         NEW reads, reads = ReadsOf(t[text[j]]), NEW m \in DOMAIN reads, NEW k \in DOMAIN reads[m]
  PROVE  reads[m][k] \in AssignedBefore(t, text, j)
<1>1. ASSUME NEW x \in UncoveredReads(t, text, j) PROVE FALSE
  <2>1. <<j, x>> \in {j} \X UncoveredReads(t, text, j)
    BY <1>1
  <2>2. j \in {h \in DOMAIN text : text[h] # 0}
    OBVIOUS
  <2>3. <<j, x>> \in UncoveredUses(t, text)
    BY <2>1, <2>2, Zenon DEF UncoveredUses
  <2> QED BY <2>3
<1> DEFINE names == AssignedBefore(t, text, j)
<1>2. UncoveredReads(t, text, j) = Missing(reads, names)
  BY UncoveredIs
<1> HIDE DEF names
<1>3. ASSUME reads[m][k] \notin names PROVE <<m, k>> \in Missing(reads, names)
  <2>1. <<m, k>> \in {m} \X {i \in DOMAIN reads[m] : reads[m][i] \notin names}
    BY <1>3
  <2> QED BY <2>1, Zenon DEF Missing
<1> QED BY <1>1, <1>2, <1>3 DEF names

(* The statement that the code generator is at, in the text.                *)
InText(j) ==
  /\ j \in DOMAIN SourceText /\ SourceText[j] = No /\ No # 0
  /\ N.type = source.tree[No].type /\ N.name = source.tree[No].name
  /\ N.exprs = source.tree[No].exprs
  /\ \A v \in Name : /\ v \in AssignedBefore(source.tree, SourceText, j) => Env[v].kind # "null"
                     /\ v \in DefinedBefore(source.tree, SourceText, j) => Env[v].kind = "func"
LEMMA CalledInText ==
  ASSUME NEW at, WorkSaid(at), NEW types, Called(types), N.type \notin ListType
  PROVE  \E j : InText(j)
<1>1. PICK text : text = at[Len(work) + 1]
  OBVIOUS
<1>2. /\ No \in DOMAIN tree \ freed /\ No # 0 /\ No \in Int /\ N = tree[No]
      /\ text \in Text /\ Valued(Env, text)
      /\ Opens(text \o Listing(tree, No), SourceText)
      /\ source.tree[No].type = N.type /\ source.tree[No].name = N.name
      /\ source.tree[No].exprs = N.exprs
  BY <1>1, CalledSaid
<1>3. Opens(text \o <<No>>, SourceText)
  <2>1. Begins(tree, No) = <<No>>
    BY <1>2 DEF Begins, IsList, ListType
  <2>2. Opens(<<No>>, Listing(tree, No))
    BY <1>2, <2>1, TextBegins DEF WorkSaid
  <2>3. <<No>> \in Text
    BY <1>2 DEF Text
  <2> QED BY <1>2, <2>2, <2>3, OpensWithin
<1>4. PICK j : j = Len(text) + 1
  OBVIOUS
<1>5. \A type : /\ j \in DOMAIN SourceText /\ SourceText[j] = No
                /\ NamesBefore(source.tree, type, SourceText, j) = NamesIn(source.tree, type, text)
  BY <1>2, <1>3, <1>4, NamesThere
<1>6. /\ AssignedBefore(source.tree, SourceText, j) = NamesIn(source.tree, "ATTR", text)
      /\ DefinedBefore(source.tree, SourceText, j) = NamesIn(source.tree, "FUNC", text)
  BY <1>5 DEF AssignedBefore, DefinedBefore, NamesBefore
<1>7. InText(j)
  BY <1>2, <1>5, <1>6 DEF InText, Valued
<1> QED BY <1>7

(* generate_llvm_nodes dies of a hole only.                                 *)
LEMMA DeathIsAHole ==
  ASSUME NEW at, WorkSaid(at), UncoveredUses(source.tree, SourceText) = {}, GenDies
  PROVE  \E j \in DOMAIN SourceText :
           SourceText[j] = No /\ No # 0 /\ Hole(source.tree, SourceText, j)
<1>1. PICK type \in {"WHILE", "IF", "OUT", "DELAY", "ATTR", "PRNT", "CALL"} :
        /\ Called({type})
        /\ type \in {"WHILE", "IF", "OUT", "DELAY"} => Dies(N, Env)
        /\ type = "ATTR" => Dies(N, AttrEnv)
        /\ type = "PRNT" => Env[N.name].kind = "null"
        /\ type = "CALL" => Env[N.name].kind # "func"
  <2>1. CASE Called({"WHILE", "IF", "OUT", "DELAY"}) /\ Dies(N, Env)
    BY <2>1 DEF Called
  <2>2. CASE Called({"ATTR"}) /\ Dies(N, AttrEnv)
    BY <2>2
  <2>3. CASE Called({"PRNT"}) /\ Env[N.name].kind = "null"
    BY <2>3
  <2>4. CASE Called({"CALL"}) /\ Env[N.name].kind # "func"
    BY <2>4
  <2> QED BY <2>1, <2>2, <2>3, <2>4 DEF GenDies
<1>2. N.type = type /\ N.type \notin ListType /\ GenInv
  BY <1>1 DEF Called, ListType, WorkSaid
<1>3. N \in NodeRec /\ ReadSet(N) \subseteq Name /\ NodeShape(tree, N)
  <2>1. N \in NodeRec /\ NodeShape(tree, N)
    BY <1>1, <1>2, CalledFacts
  <2> QED BY <2>1, NamesOf
<1>4. PICK j : InText(j)
  BY <1>1, <1>2, CalledInText
<1>5. PICK node : node = source.tree[No]
  OBVIOUS
<1> DEFINE assigned == AssignedBefore(source.tree, SourceText, j)
<1>6. /\ j \in DOMAIN SourceText /\ SourceText[j] = No /\ No # 0
      /\ node.type = type /\ node.name = N.name /\ node.exprs = N.exprs
      /\ \A v \in Name : /\ v \in assigned => Env[v].kind # "null"
                         /\ v \in DefinedBefore(source.tree, SourceText, j) => Env[v].kind = "func"
  BY <1>2, <1>4, <1>5 DEF InText
<1>7. ReadSet(node) = ReadSet(N) /\ node = source.tree[SourceText[j]]
  BY <1>5, <1>6 DEF ReadSet
<1> SUFFICES Hole(source.tree, SourceText, j)
  BY <1>6
<1>8. ASSUME NEW m \in DOMAIN ReadsOf(node), NEW k \in DOMAIN ReadsOf(node)[m]
      PROVE  ReadsOf(node)[m][k] \in assigned
  <2>1. PICK reads : reads = ReadsOf(node)
    OBVIOUS
  <2>2. SourceText[j] # 0
    BY <1>6
  <2> QED BY <1>6, <1>7, <1>8, <2>1, <2>2, ReadsAreCovered
<1> HIDE DEF assigned
<1>9. CASE \E k \in DOMAIN node.exprs : ~Implemented[node.exprs[k]]
  BY <1>7, <1>9 DEF Hole
<1>10. CASE type = "CALL"
  <2>1. N.name \in Name
    BY <1>2, <1>3, <1>10 DEF NodeShape, NamedType
  <2>2. node.name \notin DefinedBefore(source.tree, SourceText, j)
    BY <1>1, <1>6, <1>10, <2>1
  <2> QED BY <1>6, <1>7, <1>10, <2>2 DEF Hole
<1>11. CASE type = "PRNT"
  <2>1. N.name \in Name
    BY <1>2, <1>3, <1>11 DEF NodeShape, NamedType
  <2>2. ReadsOf(node) = << <<node.name>> >>
    BY <1>6, <1>11 DEF ReadsOf
  <2>3. 1 \in DOMAIN ReadsOf(node) /\ 1 \in DOMAIN ReadsOf(node)[1] /\ ReadsOf(node)[1][1] = N.name
    BY <1>6, <2>2
  <2>4. N.name \in assigned
    BY <1>8, <2>3
  <2> QED BY <1>1, <1>6, <1>11, <2>1, <2>4
<1>12. CASE /\ type \notin {"CALL", "PRNT"}
            /\ \A k \in DOMAIN node.exprs : Implemented[node.exprs[k]]
  <2>1. PICK env : /\ Dies(N, env)
                   /\ (type # "ATTR" /\ env = Env) \/ (type = "ATTR" /\ env = AttrEnv)
    BY <1>1, <1>12
  <2>2. PICK v \in ReadSet(N) : env[v].kind = "null"
    BY <1>6, <1>12, <2>1 DEF Dies
  <2>3. v \in Name
    BY <1>3
  <2>4. Env[v].kind = "null" /\ (type = "ATTR" => v # N.name)
    <3>1. CASE type # "ATTR"
      BY <2>1, <2>2, <3>1
    <3>2. CASE type = "ATTR"
      <4>1. N.name \in Name /\ Env \in [Name -> Value]
        BY <1>2, <1>3, <3>2, EnvType DEF NodeShape, NamedType
      <4>2. AttrEnv[N.name] = Variable /\ \A other \in Name \ {N.name} : AttrEnv[other] = Env[other]
        BY <4>1 DEF AttrEnv
      <4>3. Variable.kind # "null"
        <5>1. CASE Fresh
          BY <5>1 DEF Variable
        <5>2. CASE ~Fresh
          BY <5>2 DEF Variable, Fresh
        <5> QED BY <5>1, <5>2
      <4>4. env = AttrEnv
        BY <2>1, <3>2
      <4>5. v # N.name
        BY <2>2, <4>2, <4>3, <4>4
      <4>6. AttrEnv[v] = Env[v]
        BY <2>3, <4>2, <4>5
      <4> QED BY <2>2, <4>4, <4>5, <4>6
    <3> QED BY <3>1, <3>2
  <2>5. v \notin assigned
    BY <1>6, <2>3, <2>4
  <2>6. CASE type = "ATTR" /\ IsVar(node.exprs[1])
    <3>1. v \in CopyOf(node) /\ v # node.name
      BY <1>6, <1>7, <2>2, <2>4, <2>6 DEF CopyOf
    <3> QED BY <1>7, <2>5, <3>1 DEF Hole, assigned
  <2>7. CASE ~(type = "ATTR" /\ IsVar(node.exprs[1]))
    <3>1. ReadsOf(node) = [k \in DOMAIN node.exprs |-> Reads[node.exprs[k]]]
      BY <1>6, <1>12, <2>7 DEF ReadsOf
    <3>2. PICK m \in DOMAIN node.exprs : v \in ToSet(Reads[node.exprs[m]])
      BY <1>7, <2>2 DEF ReadSet
    <3>3. PICK k \in DOMAIN Reads[node.exprs[m]] : Reads[node.exprs[m]][k] = v
      <4>1. \A s : ToSet(s) = {s[i] : i \in DOMAIN s}
        BY DEF ToSet
      <4> QED BY <3>2, <4>1
    <3>4. m \in DOMAIN ReadsOf(node) /\ k \in DOMAIN ReadsOf(node)[m] /\ ReadsOf(node)[m][k] = v
      BY <3>1, <3>3
    <3> QED BY <1>8, <2>5, <3>4
  <2> QED BY <2>6, <2>7
<1> QED BY <1>9, <1>10, <1>11, <1>12

-----------------------------------------------------------------------------
(* How many children a rule gives a node, and that a null pointer in the    *)
(* tree was there when it was parsed.                                       *)
NoNull(t) == \A n \in DOMAIN t : \A k \in DOMAIN t[n].kids : t[n].kids[k] # 0

LEMMA ReduceSized ==
  ASSUME ParseInv, Sized(tree), NEW k, NEW sym, NEW type, NEW name, NEW exprs, NEW kids,
         Reduce(k, sym, create_no(type, name, exprs, kids)),
         type \in {"WHILE", "FUNC"} => Len(kids) = 1, type = "IF" => Len(kids) \in {1, 2}
  PROVE  Sized(tree')
<1> DEFINE node == create_no(type, name, exprs, kids)
<1>1. tree' = Append(tree, node) /\ tree \in Seq(NodeRec)
  BY DEF Reduce, ParseInv, TypeOK
<1>2. node.type = type /\ node.kids = kids
  BY DEF create_no
<1> HIDE DEF node
<1>3. \A n \in DOMAIN tree' : (n \in DOMAIN tree /\ tree'[n] = tree[n]) \/ tree'[n] = node
  BY <1>1
<1> QED BY <1>2, <1>3 DEF Sized

LEMMA ParserSized ==
  ASSUME ParseInv, Sized(tree), Parse
  PROVE  Sized(tree')
<1>1. ASSUME NEW type \in {"WHILE", "FUNC"}, NEW name, NEW exprs, NEW x, NEW k, NEW sym,
             Reduce(k, sym, create_no(type, name, exprs, <<x>>))
      PROVE  Sized(tree')
  <2>1. Len(<<x>>) = 1
    OBVIOUS
  <2> QED BY <1>1, <2>1, ReduceSized
<1>2. ASSUME NEW name, NEW exprs, NEW x, NEW k, NEW sym,
             Reduce(k, sym, create_no("IF", name, exprs, <<x>>))
      PROVE  Sized(tree')
  <2>1. Len(<<x>>) \in {1, 2}
    OBVIOUS
  <2> QED BY <1>2, <2>1, ReduceSized
<1>3. ASSUME NEW name, NEW exprs, NEW x, NEW y, NEW k, NEW sym,
             Reduce(k, sym, create_no("IF", name, exprs, <<x, y>>))
      PROVE  Sized(tree')
  <2>1. Len(<<x, y>>) \in {1, 2}
    OBVIOUS
  <2> QED BY <1>3, <2>1, ReduceSized
<1>4. ASSUME NEW type \in LeafType \cup ListType, NEW name, NEW exprs, NEW kids, NEW k, NEW sym,
             Reduce(k, sym, create_no(type, name, exprs, kids))
      PROVE  Sized(tree')
  <2>1. type \notin {"WHILE", "FUNC"} /\ type # "IF"
    BY DEF LeafType, ListType
  <2> QED BY <1>4, <2>1, ReduceSized
<1>5. CASE StmtAttr \/ StmtOut \/ StmtDelay \/ StmtNamed("PRNT", Name) \/ StmtNamed("CALL", FuncName)
  <2>1. PICK type \in LeafType \cup ListType : \E name, exprs, kids, k, sym :
          Reduce(k, sym, create_no(type, name, exprs, kids))
    BY <1>5 DEF StmtAttr, StmtOut, StmtDelay, StmtNamed, LeafType
  <2>2. PICK name, exprs, kids, k, sym : Reduce(k, sym, create_no(type, name, exprs, kids))
    BY <2>1
  <2> QED BY <1>4, <2>2
<1>6. CASE ReduceLast \/ ReduceStmts
  <2>1. PICK type \in LeafType \cup ListType : \E name, exprs, kids, k, sym :
          Reduce(k, sym, create_no(type, name, exprs, kids))
    BY <1>6 DEF ReduceLast, ReduceStmts, ListType
  <2>2. PICK name, exprs, kids, k, sym : Reduce(k, sym, create_no(type, name, exprs, kids))
    BY <2>1
  <2> QED BY <1>4, <2>2
<1>7. CASE CloseWhile \/ CloseFunction
  <2>1. PICK type \in {"WHILE", "FUNC"} : \E name, exprs, x, k, sym :
          Reduce(k, sym, create_no(type, name, exprs, <<x>>))
    BY <1>7 DEF CloseWhile, CloseFunction
  <2>2. PICK name, exprs, x, k, sym : Reduce(k, sym, create_no(type, name, exprs, <<x>>))
    BY <2>1
  <2> QED BY <1>1, <2>2
<1>8. CASE CloseIf
  BY <1>2, <1>8 DEF CloseIf
<1>9. CASE CloseElse \/ CloseElseIf
  BY <1>3, <1>9 DEF CloseElse, CloseElseIf
<1>10. CASE StmtError \/ OpenWhile \/ OpenIf \/ OpenFunction \/ OpenElse \/ StmtIf \/ Accept \/ Reject
  <2>1. tree' = tree
    BY <1>10 DEF StmtError, OpenWhile, OpenIf, OpenFunction, Open, OpenElse, StmtIf, Accept, Reject
  <2> QED BY <2>1
<1> QED BY <1>5, <1>6, <1>7, <1>8, <1>9, <1>10 DEF Parse

LEMMA GraftedKids ==
  ASSUME ParseInv, Grafts, NoNull(tree)
  PROVE  \A k \in DOMAIN Grafted.kids : Grafted.kids[k] # 0
<1> DEFINE p == tree[ActRoot]
           c == tree[ActOn]
<1>1. /\ ActRoot \in DOMAIN tree /\ ActOn \in DOMAIN tree /\ p.type = "STMTS" /\ c.type = "STMTS"
  BY DEF Grafts
<1>2. /\ p \in NodeRec /\ c \in NodeRec /\ NodeShape(tree, p) /\ NodeShape(tree, c)
      /\ \A k \in DOMAIN p.kids : p.kids[k] # 0
      /\ \A k \in DOMAIN c.kids : c.kids[k] # 0
  BY <1>1 DEF ParseInv, TypeOK, TreeShape, NoNull
<1>3. Grafted = [p EXCEPT !.kids = SubSeq(p.kids, 1, Len(p.kids) - 1) \o c.kids]
  BY DEF Grafted, Front
<1> HIDE DEF p, c
<1>4. /\ p.kids \in Seq(Nat) /\ c.kids \in Seq(Nat) /\ p.kids # <<>> /\ c.kids # <<>>
  BY <1>1, <1>2 DEF NodeRec, NodeShape, BodyType, ListType
<1> DEFINE front == SubSeq(p.kids, 1, Len(p.kids) - 1)
           g == front \o c.kids
<1>5. /\ front \in Seq(Nat) /\ Len(p.kids) = Len(front) + 1
      /\ \A k \in 1..Len(front) : front[k] = p.kids[k]
  BY <1>4, FrontSeq
<1> HIDE DEF front
<1>6. \A k \in DOMAIN g : \/ \E j \in DOMAIN p.kids : g[k] = p.kids[j]
                          \/ \E j \in DOMAIN c.kids : g[k] = c.kids[j]
  BY <1>4, <1>5, GraftedSeq
<1>7. Grafted = [p EXCEPT !.kids = g]
  BY <1>3, Zenon DEF front
<1> HIDE DEF g
<1>8. Grafted.kids = g
  BY <1>2, <1>7 DEF NodeRec
<1> QED BY <1>2, <1>6, <1>8

(* A node of the tree that a graft leaves.                                  *)
Spread(node) ==
  /\ \/ node.type = "STMTS"
     \/ \E n \in DOMAIN tree : node.type = tree[n].type /\ Len(node.kids) = Len(tree[n].kids)
  /\ NoNull(tree) => \A k \in DOMAIN node.kids : node.kids[k] # 0

LEMMA GraftSpread ==
  ASSUME ParseInv, GraftInPlace \/ GraftMoved
  PROVE  (Sized(tree) => Sized(tree')) /\ (NoNull(tree) => NoNull(tree'))
<1>1. Grafts /\ Returns
  BY DEF GraftInPlace, GraftMoved
<1>2. Spread(Grafted) /\ Grafted \in NodeRec /\ ActRoot \in DOMAIN tree /\ tree \in Seq(NodeRec)
  BY <1>1, GraftedNode, GraftedKids DEF Spread, ParseInv, TypeOK
<1>3. \A n \in DOMAIN tree : Spread(tree[n])
  BY DEF Spread, NoNull
<1>4. ASSUME NEW n \in DOMAIN tree' PROVE Spread(tree'[n])
  <2>1. CASE GraftInPlace
    <3>1. tree' = [tree EXCEPT ![ActRoot] = Grafted]
      BY <2>1 DEF GraftInPlace
    <3>2. n \in DOMAIN tree /\ (tree'[n] = tree[n] \/ tree'[n] = Grafted)
      BY <1>2, <1>4, <3>1
    <3> QED BY <1>2, <1>3, <3>2
  <2>2. CASE GraftMoved
    <3> DEFINE d == Len(frames) - 1
               above == frames[d - 1]
               node == SetKid(tree[above.r], above.i, Len(tree) + 1)
               before == IF d = 1 THEN tree ELSE [tree EXCEPT ![above.r] = node]
    <3>1. tree' = Append(before, Grafted)
      BY <2>2, Zenon DEF GraftMoved
    <3>2. CASE d = 1
      <4>1. tree' = Append(tree, Grafted)
        BY <3>1, <3>2
      <4>2. (n \in DOMAIN tree /\ tree'[n] = tree[n]) \/ tree'[n] = Grafted
        BY <1>2, <1>4, <4>1
      <4> QED BY <1>2, <1>3, <4>2
    <3>3. CASE d # 1
      <4>1. frames \in Seq(Frame) /\ Len(frames) > 1 /\ Len(frames) \in Nat
        BY <1>1, ActOnIsKid
      <4>2. d - 1 \in DOMAIN frames /\ d - 1 < Len(frames)
        <5>1. d - 1 \in 1..Len(frames) /\ d - 1 < Len(frames)
          BY <3>3, <4>1, TwoBefore
        <5> QED BY <4>1, <5>1
      <4>3. tree' = Append([tree EXCEPT ![above.r] = node], Grafted)
        BY <3>1, <3>3
      <4> HIDE DEF d
      <4>4. above.r \in DOMAIN tree /\ above.i \in DOMAIN tree[above.r].kids
        BY <4>2 DEF ParseInv, FramesShape
      <4> HIDE DEF above
      <4>5. Len(tree) + 1 \in Nat /\ Len(tree) + 1 # 0 /\ tree[above.r] \in NodeRec
        BY <1>2, <4>4
      <4> DEFINE moved == Len(tree) + 1
                 kids == tree[above.r].kids
      <4>6. /\ node \in NodeRec /\ node.type = tree[above.r].type
            /\ node.kids = [kids EXCEPT ![above.i] = moved]
            /\ Len(node.kids) = Len(kids) /\ DOMAIN node.kids = DOMAIN kids
        BY <4>4, <4>5, SetKidNode
      <4> HIDE DEF node
      <4>7. Spread(node)
        <5>1. \A k \in DOMAIN node.kids : node.kids[k] = moved \/ node.kids[k] = kids[k]
          <6>1. kids \in Seq(Nat)
            BY <4>5 DEF NodeRec
          <6> HIDE DEF kids, moved
          <6> QED BY <4>6, <6>1
        <5>2. NoNull(tree) => \A k \in DOMAIN node.kids : node.kids[k] # 0
          BY <4>4, <4>5, <4>6, <5>1 DEF NoNull
        <5> QED BY <4>4, <4>6, <5>2 DEF Spread
      <4> DEFINE mid == [tree EXCEPT ![above.r] = node]
      <4>8. mid \in Seq(NodeRec) /\ Len(mid) = Len(tree) /\ DOMAIN mid = DOMAIN tree
            /\ \A m \in DOMAIN tree : mid[m] = tree[m] \/ mid[m] = node
        BY <1>2, <4>4, <4>6
      <4>9. tree' = Append(mid, Grafted)
        BY <4>3
      <4> HIDE DEF mid
      <4>10. (n \in DOMAIN tree /\ tree'[n] = mid[n]) \/ tree'[n] = Grafted
        BY <1>4, <4>8, <4>9
      <4> QED BY <1>2, <1>3, <4>7, <4>8, <4>10
    <3> QED BY <3>2, <3>3
  <2> QED BY <2>1, <2>2
<1>5. NoNull(tree) => NoNull(tree')
  BY <1>4 DEF Spread, NoNull
<1>6. Sized(tree) => Sized(tree')
  BY <1>4 DEF Spread, Sized
<1> QED BY <1>5, <1>6

-----------------------------------------------------------------------------
(* The invariant of the holes: while code is generated, the text before the *)
(* statement that is next holds no name without its value; and where every  *)
(* statement was a node, every pointer that the passes follow leads to one. *)
HolesInv ==
  /\ Sized(tree)
  /\ PassPhase /\ EveryStatementIsANode => NoNull(tree)
  /\ phase \in {"setup", "gen"} =>
       Copied(tree, source.tree) /\ UncoveredUses(source.tree, SourceText) = {}
  /\ phase = "gen" => \E at : Speaking(at)
  /\ OnlyHolesFault

LEMMA ParserHoles ==
  ASSUME ParseInv, HolesInv, ParserStep, KeepSource
  PROVE  HolesInv'
<1>1. phase = "parse" /\ phase' \in {"parse", "collapse", "rejected"} /\ Parse
  BY ParserStepKeeps DEF ParserStep
<1>2. Sized(tree')
  BY <1>1, ParserSized DEF HolesInv
<1>3. phase' = "collapse" /\ EveryStatementIsANode' => NoNull(tree')
  <2> SUFFICES ASSUME phase' = "collapse", EveryStatementIsANode' PROVE NoNull(tree')
    OBVIOUS
  <2>1. source'.tree = tree'
    <3>1. source' = [tree |-> tree', root |-> root']
      BY <1>1 DEF KeepSource
    <3> QED BY <3>1
  <2>2. \A s : ToSet(s) = {s[i] : i \in DOMAIN s}
    BY DEF ToSet
  <2> QED BY <2>1, <2>2 DEF EveryStatementIsANode, NoNull
<1> QED BY <1>1, <1>2, <1>3 DEF HolesInv, PassPhase, OnlyHolesFault

LEMMA PassHoles ==
  ASSUME ParseInv, HeapInv, ErrorsInv, HolesInv, SemanticStep, KeepSource
  PROVE  HolesInv'
<1>1. /\ PassPhase /\ Analyse /\ source' = source
      /\ phase' \in {"collapse", "declare", "exit", "setup", "fault"}
  BY SemanticStepKeeps DEF SemanticStep, KeepSource, PassPhase
<1>2. /\ EveryStatementIsANode' = EveryStatementIsANode /\ SourceText' = SourceText
      /\ Sized(tree) /\ (EveryStatementIsANode => NoNull(tree))
  BY <1>1 DEF EveryStatementIsANode, SourceText, HolesInv
<1>3. Sized(tree') /\ (EveryStatementIsANode => NoNull(tree'))
  <2>1. CASE GraftInPlace \/ GraftMoved
    BY <1>2, <2>1, GraftSpread
  <2>2. CASE ~(GraftInPlace \/ GraftMoved)
    <3>1. tree' = tree
      BY <1>1, <2>2 DEF Analyse, VisitRoot, VisitKid, Enter, Wild, NoGraft, Declare, PassDone
    <3> QED BY <1>2, <3>1
  <2> QED BY <2>1, <2>2
<1>4. ASSUME phase' = "fault", EveryStatementIsANode PROVE FALSE
  <2>1. Walking
    BY <1>1, WalkingNow
  <2>2. CASE VisitRoot
    <3>1. root = 0
      BY <1>1, <1>4, <2>2 DEF VisitRoot, Enter, Wild, PassPhase
    <3>2. root \in DOMAIN tree
      BY <2>1 DEF Walking, Linked
    <3> QED BY <2>1, <3>1, <3>2, WalkFacts
  <2>3. CASE VisitKid
    <3>1. frames # <<>> /\ MoreKids /\ Kid = 0
      BY <1>1, <1>4, <2>3 DEF VisitKid, Visiting, Enter, Wild, PassPhase
    <3>2. Top.r \in DOMAIN tree /\ Top.i \in DOMAIN tree[Top.r].kids
      BY <2>1, <3>1, TopLive
    <3> QED BY <1>2, <1>4, <3>1, <3>2 DEF NoNull, Kid
  <2>4. CASE NoGraft \/ GraftInPlace \/ GraftMoved \/ Declare \/ PassDone
    BY <1>1, <1>4, <2>4 DEF NoGraft, GraftInPlace, GraftMoved, Declare, PassDone, PassPhase
  <2> QED BY <1>1, <2>2, <2>3, <2>4 DEF Analyse
<1>5. ASSUME phase' = "setup"
      PROVE  Copied(tree', source'.tree) /\ UncoveredUses(source'.tree, SourceText') = {}
  <2>1. phase = "declare" /\ PassDone /\ error_count = 0 /\ tree' = tree
    <3>1. phase = "declare" /\ PassDone
      BY <1>1, <1>5 DEF Analyse, VisitRoot, VisitKid, Enter, Wild, NoGraft, GraftInPlace,
                        GraftMoved, Declare, PassDone, PassPhase
    <3>2. phase' = IF error_count > 0 THEN "exit" ELSE "setup"
      BY <3>1 DEF PassDone
    <3>3. error_count \in Nat
      BY DEF ParseInv, TypeOK, SemanticTypeOK
    <3> QED BY <1>5, <3>1, <3>2, <3>3 DEF PassDone
  <2>2. Counted(source.tree, error_count, SourceText)
    BY <2>1, DeclaringCounted
  <2> DEFINE uses == UncoveredUses(source.tree, SourceText)
  <2>3. IsFiniteSet(uses) /\ Cardinality(uses) = 0
    BY <2>1, <2>2 DEF Counted
  <2> HIDE DEF uses
  <2>4. uses = {}
    BY <2>3, FS_EmptySet
  <2>5. Copied(tree, source.tree)
    BY <1>1 DEF ErrorsInv
  <2> QED BY <1>1, <1>2, <2>1, <2>4, <2>5 DEF uses
<1>6. phase' # "gen"
  BY <1>1
<1>7. OnlyHolesFault'
  BY <1>2, <1>4 DEF OnlyHolesFault
<1>8. PassPhase' /\ EveryStatementIsANode' => NoNull(tree')
  BY <1>2, <1>3
<1> QED BY <1>3, <1>5, <1>6, <1>7, <1>8 DEF HolesInv

(* The code generator begins with nothing told.                             *)
LEMMA SpeakingStarts ==
  ASSUME IInv, HeapInv, HolesInv, setup_llvm_global, UNCHANGED source
  PROVE  SpeaksNext
<1>1. /\ phase = "setup" /\ work' = work /\ pending' = Gen(root) /\ synames' = synames
      /\ UNCHANGED treeVars
  BY DEF setup_llvm_global
<1>2. work = <<>> /\ Len(work) = 0 /\ DOMAIN work = {}
  <2>1. work = <<>>
    BY <1>1 DEF IInv
  <2> QED BY <2>1
<1>3. Walking /\ Listing(tree, root) = SourceText /\ root \in DOMAIN tree \ freed
  BY <1>1 DEF IInv, ParseInv, HeapInv, Parsed, Walking, Linked
<1>4. SourceText \in Text /\ <<>> \in Text /\ <<>> \o SourceText = SourceText
  <2>1. SourceText \in Text
    BY <1>3, ToldNow
  <2> QED BY <2>1 DEF Text
<1>5. PICK at : at = [k \in 1..1 |-> <<>>]
  OBVIOUS
<1>6. at \in [1..0 + 1 -> Text] /\ at[1] = <<>> /\ 0 + 1 = 1 /\ 1..0 + 1 = {1}
  BY <1>4, <1>5
<1>7. NodeOf(work, 1) = root
  BY DEF NodeOf
<1>8. Said(work, at)
  <2>1. Opens(at[1] \o Listing(tree, NodeOf(work, 1)), SourceText)
    BY <1>3, <1>4, <1>6, <1>7, OpensSame
  <2> QED BY <1>2, <1>6, <2>1 DEF Said
<1>9. Valued(Env', <<>>)
  <2>1. \A type : NamesIn(source.tree, type, <<>>) = {}
    BY DEF NamesIn, NamesBefore
  <2> QED BY <2>1 DEF Valued
<1>10. pending' = Gen(NodeOf(work, Len(work) + 1)) /\ <<>> = at[Len(work) + 1]
  BY <1>1, <1>2, <1>6, <1>7
<1> QED BY <1>1, <1>8, <1>9, <1>10, SourceStill, SettleSaid

LEMMA SpeakingKept ==
  ASSUME NEW at, WorkSaid(at), Generate, phase' = "gen", UNCHANGED source
  PROVE  SpeaksNext
<1>1. ~setup_llvm_global /\ ~print_llvm_ir /\ ~GenDies
  BY DEF WorkSaid, GenInv, setup_llvm_global, print_llvm_ir, GenDies
<1> QED BY <1>1, GenAttrSaid, SimpleSaid, GenListSaid, ListNextSaid, GenWhileSaid, GenIfSaid,
           ThenDoneSaid, GenFuncSaid, DoneSaid DEF Generate

LEMMA CodegenHoles ==
  ASSUME IInv, HeapInv, VariablesInv, ErrorsInv, HolesInv, CodegenStep, KeepSource
  PROVE  HolesInv'
<1>1. /\ Generate /\ UNCHANGED treeVars
      /\ phase \in {"setup", "gen"} /\ phase' \in {"gen", "done", "fault"}
  BY CodegenLeaves DEF CodegenStep
<1>2. /\ source' = source /\ tree' = tree /\ SourceText' = SourceText
      /\ EveryStatementIsANode' = EveryStatementIsANode
  BY <1>1 DEF KeepSource, treeVars, SourceText, EveryStatementIsANode
<1>3. /\ Sized(tree) /\ Copied(tree, source.tree)
      /\ UncoveredUses(source.tree, SourceText) = {}
  BY <1>1 DEF HolesInv
<1>4. ASSUME phase = "gen" PROVE \E at : WorkSaid(at)
  <2>1. GenInv /\ ParseInv
    BY <1>4 DEF IInv, GenInv, ParseInv
  <2>2. Walking
    BY <1>4, <2>1 DEF HeapInv, Parsed, Walking
  <2>3. PICK at : Speaking(at)
    BY <1>4 DEF HolesInv
  <2>4. WorkSaid(at)
    BY <1>3, <2>1, <2>2, <2>3 DEF WorkSaid, VariablesInv, ErrorsInv
  <2> QED BY <2>4
<1>5. ASSUME phase' = "gen" PROVE \E at : Speaking(at)'
  <2>1. CASE phase = "gen"
    BY <1>1, <1>2, <1>4, <1>5, <2>1, SpeakingKept DEF SpeaksNext
  <2>2. CASE phase = "setup"
    <3>1. setup_llvm_global
      BY <1>1, <2>2 DEF Generate, print_llvm_ir, GenDies, GenAttr, GenOut, GenDelay, GenPrnt,
           GenCall, GenSimple, GenList, ListNext, GenWhile, WhileDone, GenIf, ThenDone, IfDone,
           GenFunc, FuncDone, Called, Back
    <3> QED BY <1>2, <3>1, SpeakingStarts DEF SpeaksNext
  <2> QED BY <1>1, <2>1, <2>2
<1>6. OnlyHolesFault'
  <2> SUFFICES ASSUME phase' = "fault"
               PROVE  \E j \in DOMAIN SourceText :
                        SourceText[j] = No' /\ No' # 0 /\ Hole(source.tree, SourceText, j)
    BY <1>2 DEF OnlyHolesFault
  <2>1. GenDies /\ phase = "gen"
    BY <1>1 DEF Generate, setup_llvm_global, print_llvm_ir, GenDies, GenAttr, GenOut, GenDelay,
         GenPrnt, GenCall, GenSimple, GenList, ListNext, GenWhile, WhileDone, GenIf, ThenDone,
         IfDone, GenFunc, FuncDone, Called, Back
  <2>2. No' = No
    BY <2>1 DEF GenDies, codegenVars, No
  <2> QED BY <1>3, <1>4, <2>1, <2>2, DeathIsAHole
<1>7. ~PassPhase' /\ phase' # "setup"
  BY <1>1 DEF PassPhase
<1> QED BY <1>1, <1>2, <1>3, <1>5, <1>6, <1>7 DEF HolesInv

LEMMA HolesKept ==
  ASSUME IInv, HeapInv, VariablesInv, ErrorsInv, HolesInv, [Next]_vars
  PROVE  HolesInv'
<1>1. ParseInv
  BY DEF IInv, ParseInv
<1>2. CASE ParserStep /\ KeepSource
  BY <1>1, <1>2, ParserHoles
<1>3. CASE SemanticStep /\ KeepSource
  BY <1>1, <1>3, PassHoles
<1>4. CASE CodegenStep /\ KeepSource
  BY <1>4, CodegenHoles
<1>5. CASE UNCHANGED vars
  <2>1. UNCHANGED <<phase, tree, freed, root, synames, source, work, pending>>
    BY <1>5 DEF vars
  <2>2. SourceText' = SourceText /\ Env' = Env /\ EveryStatementIsANode' = EveryStatementIsANode
        /\ No' = No
    BY <2>1 DEF SourceText, Env, EveryStatementIsANode, No
  <2>3. \A at : Speaking(at) => Speaking(at)'
    BY <2>1, <2>2 DEF Speaking, Said, Fits, NodeOf, NowText, Valued
  <2> QED BY <2>1, <2>2, <2>3 DEF HolesInv, PassPhase, OnlyHolesFault
<1> QED BY <1>2, <1>3, <1>4, <1>5 DEF Next, Ended

(* A program without a syntax error that declared_vars lets pass kills the  *)
(* compiler only at a statement that has one of the holes of Hole itself:   *)
(* generate_llvm_nodes finds a value for every other name it reads, though  *)
(* it walks the tree that collapse_stmts rebuilt, in and out of WHILE, IF   *)
(* and FUNCTION.                                                            *)
THEOREM TheHolesAreKnown == Spec => []OnlyHolesFault
<1>1. Init => HolesInv
  <2> SUFFICES ASSUME Init PROVE HolesInv
    OBVIOUS
  <2>1. phase = "parse" /\ tree = <<>>
    BY DEF Init
  <2> QED BY <2>1 DEF HolesInv, Sized, PassPhase, OnlyHolesFault
<1>2. IInv /\ HeapInv /\ VariablesInv /\ ErrorsInv /\ HolesInv /\ [Next]_vars => HolesInv'
  BY HolesKept
<1>3. HolesInv => OnlyHolesFault
  BY DEF HolesInv
<1> QED BY <1>1, <1>2, <1>3, HeapHolds, VariablesHold, ErrorsHold, PTL DEF Spec
=============================================================================
