-------------------------------- MODULE Malloc --------------------------------
(***************************************************************************)
(* malloc and free (libc/stdlib.c): small blocks from the slab allocator,  *)
(* module Heap, and large ones from modules LargeBlocks and Vma, over the  *)
(* same physical memory.  The slab allocator runs with slab_memlock held   *)
(* and is not preempted; a thread in the middle of a large block is.       *)
(***************************************************************************)
EXTENDS LargeBlocks, Sequences

CONSTANTS CacheSize, SlabBytes, Requests, Block

VARIABLES cache, slabs, other_slabs, objects, obj_am, word, op, lent

H == INSTANCE Heap WITH SlabPages <- Frames

ASSUME HeapAssumption ==
    /\ CacheSize \in Seq(Nat \ {0}) /\ CacheSize # <<>>
    /\ \A c, d \in H!Caches : c < d => CacheSize[c] < CacheSize[d]
    /\ SlabBytes \in Nat /\ H!Limit <= SlabBytes
    /\ Requests \subseteq 0..H!Limit
    /\ NULL \notin Frames /\ NULL \notin H!AllObjects

slabVars   == <<cache, slabs, other_slabs, objects, obj_am, word, op, lent>>
mallocVars == <<largeVars, slabVars>>

\* malloc and free of at most Limit bytes, and setup_heap at boot.
Small == ~failed /\ H!Next /\ UNCHANGED <<trees, result, failed, page_table, th, blocks>>

Large == op.at = "idle" /\ LargeNext /\ UNCHANGED slabVars

Halted == (failed \/ H!Panicked) /\ UNCHANGED mallocVars

MallocInit == LargeInit /\ H!Init
MallocNext == Small \/ Large \/ Halted
MallocSpec == MallocInit /\ [][MallocNext]_mallocVars

-----------------------------------------------------------------------------
(* Properties *)

\* The lists of the slab allocator stay intact while large blocks come and go;
\* see Heap.
SlabsAreIntact == H!SlabsAreIntact

\* No frame is lost and none is freed while it is in use: it is available, a
\* slab, mapped once, or in the hands of one thread.
FramesAreAccounted ==
    LET mapped == {page_table[v] : v \in Mapped}
        slab   == {f \in Frames : cache[f] # 0}
    IN  /\ available \cup slab \cup mapped \cup InTransit = Frames
        /\ available \cap (slab \cup mapped \cup InTransit) = {}
        /\ slab \cap (mapped \cup InTransit) = {} /\ mapped \cap InTransit = {}
=============================================================================
