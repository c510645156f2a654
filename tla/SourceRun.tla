------------------------------ MODULE SourceRun ------------------------------
(***************************************************************************)
(* What a scalc program means: its statements run one after the other,     *)
(* WHILE and IF choose by a condition whose value depends on the sensors,  *)
(* a call runs the body of the function and comes back, and the definition *)
(* of a function is nothing to run.                                        *)
(***************************************************************************)
EXTENDS SourceOrder, Integers

VARIABLES
  program,   \* the tree of the text, and its root
  at,        \* the statement to run next; see below
  returns    \* where the active calls come back to, innermost last

NotStarted == -1
End == 0     \* the end of the program; the end of a function is its FUNC node

Type(n) == program.tree[n].type
Kids(n) == program.tree[n].kids

Parents(n) == {p \in DOMAIN program.tree : n \in ToSet(Kids(p))}
Parent(n) == CHOOSE p \in Parents(n) : TRUE

RECURSIVE First(_), After(_)
(* The statement that runs first when control comes to n ...              *)
First(n) == IF IsList(program.tree, n) THEN First(Kids(n)[1])
            ELSE IF Type(n) = "FUNC" THEN After(n) ELSE n
(* ... and the one that runs when n is over.                               *)
After(n) ==
  IF n = program.root THEN End
  ELSE LET p == Parent(n)
           i == CHOOSE k \in DOMAIN Kids(p) : Kids(p)[k] = n
       IN  CASE IsList(program.tree, p) /\ i < Len(Kids(p)) -> First(Kids(p)[i + 1])
             [] Type(p) \in {"WHILE", "FUNC"} -> p
             [] OTHER -> After(p)

(* No statement before the program starts, and none of no program.         *)
Init == program = [tree |-> <<>>, root |-> 0] /\ at = NotStarted /\ returns = <<>>

Start == /\ at = NotStarted /\ program'.root # 0
         /\ at' = First(program.root)'
         /\ UNCHANGED returns

Running(types) == at > End /\ Type(at) \in types
Goto(n) == at' = n /\ UNCHANGED <<program, returns>>

Simple == Running({"ATTR", "PRNT", "OUT", "DELAY"}) /\ Goto(After(at))

Branch == /\ Running({"WHILE", "IF"})
          /\ \/ \E k \in DOMAIN Kids(at) : Goto(First(Kids(at)[k]))
             \/ Len(Kids(at)) = 1 /\ Goto(After(at))

Call == LET text == Listing(program.tree, program.root)
            defs == Definitions(program.tree, text, program.tree[at].name, at)
        IN  /\ Running({"CALL"})
            /\ at' = First(Kids(text[Max(defs)])[1])
            /\ returns' = Append(returns, After(at))
            /\ UNCHANGED program

Return == /\ Running({"FUNC"})
          /\ at' = Last(returns)
          /\ returns' = Front(returns)
          /\ UNCHANGED program

Next == Start \/ Simple \/ Branch \/ Call \/ Return

Spec == Init /\ [][Next]_<<program, at, returns>>
=============================================================================
