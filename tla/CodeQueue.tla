----------------------------- MODULE CodeQueue -----------------------------
(***************************************************************************)
(* What the buffer of the infrared receiver promises to the program that   *)
(* calls read(): a queue of the last Capacity codes, of which the oldest   *)
(* is discarded when one more comes, and 0 when there is none.             *)
(***************************************************************************)
EXTENDS Naturals, Sequences

CONSTANTS Code,      \* what the receiver stores
          None,      \* what read() returns without a code, 0
          Capacity   \* "only 3 frames stored"

VARIABLES queue,     \* the codes stored and not read, the oldest first
          got        \* what the last call of read() returned

Init == queue = << >> /\ got = None

Stored(c) == IF Len(queue) < Capacity THEN Append(queue, c)
                                      ELSE Append(Tail(queue), c)
Receive == \E c \in Code : queue' = Stored(c) /\ UNCHANGED got

Read == /\ queue # << >>
        /\ got' = Head(queue) /\ queue' = Tail(queue)
ReadNothing == queue = << >> /\ got' = None /\ UNCHANGED queue

Next == Receive \/ Read \/ ReadNothing

Spec == Init /\ [][Next]_<<queue, got>>
=============================================================================
