---------------------------- MODULE PageAllocator ----------------------------
(***************************************************************************)
(* What the physical memory manager promises: a page is lent to one holder *)
(* at a time, and allocation fails only when every page is lent.           *)
(***************************************************************************)
CONSTANT Frames

VARIABLES available,   \* pages nobody holds
          failed       \* the kernel panicked with "out of memory"

Init == available = Frames /\ failed = FALSE

Lend(p) ==
    /\ p \in available
    /\ available' = available \ {p}
    /\ UNCHANGED failed

Return(p) ==
    /\ p \in Frames \ available
    /\ available' = available \cup {p}
    /\ UNCHANGED failed

Fail ==
    /\ available = {}
    /\ failed' = TRUE
    /\ UNCHANGED available

Next == (\E p \in Frames : Lend(p) \/ Return(p)) \/ Fail

Spec == Init /\ [][~failed /\ Next]_<<available, failed>>
=============================================================================
