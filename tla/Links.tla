-------------------------------- MODULE Links --------------------------------
(***************************************************************************)
(* The two shapes the kernel threads through "next" pointers: the ring of  *)
(* threads, and the lists that end in NULL (the reap list, the free lists  *)
(* of the page allocator and of the slab allocator).                       *)
(***************************************************************************)
CONSTANT NULL

\* L is one cycle of f: f stays in L, enters each member from one place, and
\* leaves no smaller set closed.
OneCycle(L, f) ==
    /\ \A t \in L : f[t] \in L
    /\ \A s, t \in L : f[s] = f[t] => s = t
    /\ \A C \in SUBSET L : C # {} /\ (\A t \in C : f[t] \in C) => C = L

\* Q is what a list that starts at head and ends in NULL runs through.
OneList(head, Q, f) ==
    /\ IF head = NULL THEN Q = {} ELSE head \in Q
    /\ \A t \in Q : f[t] \in Q \cup {NULL} /\ f[t] # head
    /\ \A s, t \in Q : f[s] = f[t] /\ f[s] # NULL => s = t
    /\ \A C \in SUBSET Q :
         head \in C /\ (\A t \in C : f[t] \in C \cup {NULL}) => C = Q
=============================================================================
