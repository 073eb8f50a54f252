----------------------------- MODULE LargeBlocks -----------------------------
(***************************************************************************)
(* malloc and free of blocks above 1024 bytes (libc/stdlib.c): a run of    *)
(* kernel addresses from valloc, each of its pages backed by a frame from  *)
(* allocate_page.  No lock spans the whole call: a thread can be preempted *)
(* between any two of the locked calls it is made of.  The address space   *)
(* is the kernel's pair of trees, module Vma; physical memory is taken at  *)
(* its word, module PageAllocator.  Module Malloc adds the small blocks.    *)
(***************************************************************************)
EXTENDS Vma, Links

CONSTANTS Threads, Frames

VARIABLES
    available, failed,   \* physical memory
    page_table,          \* Space -> frame or NULL: kernel_pagemap
    th,                  \* thread -> [at, block, size, off, phys]
    blocks               \* history: blocks callers hold, [block, size]

PA == INSTANCE PageAllocator

trees     == <<free_ranges, used_ranges>>
largeVars == <<trees, result, available, failed, page_table, th, blocks>>

Idle == [at |-> "idle", block |-> 0, size |-> 0, off |-> 0, phys |-> NULL]
Here(t) == th[t].block + th[t].off
Last(t) == th[t].off + 1 = th[t].size

-----------------------------------------------------------------------------
\* valloc(size + 16).  The kernel's 64 TB do not run out before memory does,
\* so that a run is found.
MallocReserve(t, n) ==
    /\ ~failed /\ th[t].at = "idle"
    /\ Valloc(n)
    /\ result' # 0
    /\ th' = [th EXCEPT ![t] = [at |-> "allocate", block |-> result', size |-> n,
                                off |-> 0, phys |-> NULL]]
    /\ UNCHANGED <<available, failed, page_table, blocks>>

MallocAllocatePage(t) ==
    /\ ~failed /\ th[t].at = "allocate"
    /\ \/ \E f \in Frames :
            /\ PA!Lend(f)
            /\ th' = [th EXCEPT ![t].at = "map", ![t].phys = f]
       \/ PA!Fail /\ UNCHANGED th
    /\ UNCHANGED <<trees, result, page_table, blocks>>

\* vmm_map_page; behind the last page malloc returns.
MallocMapPage(t) ==
    /\ ~failed /\ th[t].at = "map"
    /\ page_table' = [page_table EXCEPT ![Here(t)] = th[t].phys]
    /\ IF Last(t)
       THEN /\ blocks' = blocks \cup {[block |-> th[t].block, size |-> th[t].size]}
            /\ th' = [th EXCEPT ![t] = Idle]
       ELSE /\ th' = [th EXCEPT ![t].at = "allocate", ![t].off = @ + 1,
                                ![t].phys = NULL]
            /\ UNCHANGED blocks
    /\ UNCHANGED <<trees, result, available, failed>>

\* Mutant: the addresses are given back before the pages are unmapped.
FreeReleasesFirst(t, b) ==
    /\ ~failed /\ th[t].at = "idle"
    /\ th' = [th EXCEPT ![t] = [at |-> "get_phys", block |-> b.block,
                                size |-> b.size, off |-> 0, phys |-> NULL]]
    /\ blocks' = blocks \ {b}
    /\ Vfree(b.block, b.size)
    /\ UNCHANGED <<available, failed, page_table>>

\* The caller gives up the block and free begins.
Free(t, b) ==
    /\ ~failed /\ th[t].at = "idle"
    /\ th' = [th EXCEPT ![t] = [at |-> "get_phys", block |-> b.block,
                                size |-> b.size, off |-> 0, phys |-> NULL]]
    /\ blocks' = blocks \ {b}
    /\ UNCHANGED <<trees, result, available, failed, page_table>>

\* Mutant: the frame is looked up once the page is unmapped.
FreeGetPhysTooLate(t) ==
    /\ ~failed /\ th[t].at = "get_phys"
    /\ th' = [th EXCEPT ![t].at = "unmap", ![t].phys = NULL]
    /\ UNCHANGED <<trees, result, available, failed, page_table, blocks>>

\* vmm_get_phys
FreeGetPhys(t) ==
    /\ ~failed /\ th[t].at = "get_phys"
    /\ th' = [th EXCEPT ![t].at = "unmap", ![t].phys = page_table[Here(t)]]
    /\ UNCHANGED <<trees, result, available, failed, page_table, blocks>>

FreeUnmapPage(t) ==
    /\ ~failed /\ th[t].at = "unmap"
    /\ page_table' = [page_table EXCEPT ![Here(t)] = NULL]
    /\ th' = [th EXCEPT ![t].at = "free_page"]
    /\ UNCHANGED <<trees, result, available, failed, blocks>>

\* if (phys) free_page(phys)
FreeFreePage(t) ==
    /\ ~failed /\ th[t].at = "free_page"
    /\ IF th[t].phys # NULL THEN PA!Return(th[t].phys)
       ELSE UNCHANGED <<available, failed>>
    /\ th' = [th EXCEPT ![t].phys = NULL, ![t].off = @ + 1,
                        ![t].at = IF Last(t) THEN "vfree" ELSE "get_phys"]
    /\ UNCHANGED <<trees, result, page_table, blocks>>

FreeVfree(t) ==
    /\ ~failed /\ th[t].at = "vfree"
    /\ Vfree(th[t].block, th[t].size)
    /\ th' = [th EXCEPT ![t] = Idle]
    /\ UNCHANGED <<available, failed, page_table, blocks>>

LargeInit ==
    /\ Init /\ PA!Init
    /\ page_table = [v \in Space |-> NULL]
    /\ th = [t \in Threads |-> Idle]
    /\ blocks = {}

LargeNext ==
    \E t \in Threads :
        \/ \E n \in 1..MaxSize : MallocReserve(t, n)
        \/ MallocAllocatePage(t) \/ MallocMapPage(t)
        \/ \E b \in blocks : Free(t, b)
        \/ FreeGetPhys(t) \/ FreeUnmapPage(t) \/ FreeFreePage(t) \/ FreeVfree(t)

-----------------------------------------------------------------------------
(* Properties *)

Mapped == {v \in Space : page_table[v] # NULL}

\* Frames that only a thread knows of: allocated and not mapped yet, or
\* unmapped and not freed yet.
InTransit == {th[t].phys : t \in {u \in Threads : th[u].at \in {"map", "free_page"}}}

\* Each page of a block that a caller holds has a frame to itself, whatever
\* the other threads are in the middle of; free takes a mapping down before the
\* address can be handed out again, so that malloc never maps over a page that
\* is still mapped.
BlocksAreBacked ==
    /\ Mapped \subseteq UNION {Pages(r) : r \in used_ranges}
    /\ \A b \in blocks : Pages(PageRange(b.block, b.size)) \subseteq Mapped
    /\ \A v, w \in Mapped : page_table[v] = page_table[w] => v = w
=============================================================================
