------------------------------ MODULE KeyQueue ------------------------------
(***************************************************************************)
(* What an input ring of the kernel promises its readers: a queue of at    *)
(* most Capacity items that keeps the order of arrival and, once full,     *)
(* drops what arrives.                                                     *)
(***************************************************************************)
EXTENDS Integers, Sequences

CONSTANTS Items, Capacity, MaxRead

VARIABLES queue,
          out      \* what the last read returned

Init == queue = <<>> /\ out = <<>>

Put(x) ==
    /\ queue' = IF Len(queue) < Capacity THEN Append(queue, x) ELSE queue
    /\ UNCHANGED out

Get(n) ==
    LET taken == IF n < Len(queue) THEN n ELSE Len(queue)
    IN  /\ out' = SubSeq(queue, 1, taken)
        /\ queue' = SubSeq(queue, taken + 1, Len(queue))

Next == (\E x \in Items : Put(x)) \/ (\E n \in 1..MaxRead : Get(n))

Spec == Init /\ [][Next]_<<queue, out>>
=============================================================================
