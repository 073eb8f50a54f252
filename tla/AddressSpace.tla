---------------------------- MODULE AddressSpace ----------------------------
(***************************************************************************)
(* What the virtual memory allocator promises: it hands out runs of pages  *)
(* that are nobody's, and a page stays reserved until it is given back.    *)
(***************************************************************************)
EXTENDS Integers

CONSTANTS Space,   \* the pages of the address space; 0 is none of them
          MaxSize  \* the longest run asked for

VARIABLES reserved,   \* pages handed out
          result      \* what the last call returned

Run(v, n) == v..(v + n - 1)

Init == reserved = {} /\ result = 0

\* The run begins at the address returned.
Reserve(n) ==
    /\ Run(result', n) \subseteq Space \ reserved
    /\ reserved' = reserved \cup Run(result', n)

\* The run is at the caller's address, and part of it may be reserved already;
\* the address returned is then that of the rest.
ReserveAt(v, n) ==
    /\ Run(v, n) \subseteq Space
    /\ reserved' = reserved \cup Run(v, n)
    /\ result' \in Run(v, n)

Release(v, n) ==
    /\ Run(v, n) \subseteq reserved
    /\ reserved' = reserved \ Run(v, n)
    /\ result' # 0

Refuse == result' = 0 /\ UNCHANGED reserved

Next ==
    \/ Refuse
    \/ \E n \in 1..MaxSize : Reserve(n)
    \/ \E v \in Space, n \in 1..MaxSize : ReserveAt(v, n) \/ Release(v, n)

Spec == Init /\ [][Next]_<<reserved, result>>
=============================================================================
