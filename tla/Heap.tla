-------------------------------- MODULE Heap --------------------------------
(***************************************************************************)
(* The slab allocator (memory/heap.c) behind malloc and free for blocks of *)
(* up to Limit bytes (libc/stdlib.c).  A slab is a page: a header and the  *)
(* objects of one size.  The free objects of a slab are linked through     *)
(* their first word, which holds the size of the block while the object is *)
(* in use.  slab_memlock makes each call atomic; the walk along the slabs  *)
(* of a cache is taken one slab per step.  Module Malloc gives it frames.  *)
(***************************************************************************)
EXTENDS Integers, Sequences, FiniteSets, Links

CONSTANTS SlabPages,   \* the frames of physical memory
          CacheSize,   \* object sizes of slab_caches: 32, 64, ..., 1024
          SlabBytes,   \* PAGE_SIZE - sizeof(struct slab_header) = 4064
          Requests,    \* sizes asked of malloc
          Block        \* the first word of an object in use

Caches       == 1..Len(CacheSize)
Limit        == CacheSize[Len(CacheSize)]   \* malloc's 1024
Header       == 16                          \* malloc_block_t
Capacity(c)  == SlabBytes \div CacheSize[c]
Object(p, i) == <<p, i>>
ObjectsOf(p, c) == {Object(p, i) : i \in 1..Capacity(c)}
AllObjects   == SlabPages \X (1..Capacity(1))

VARIABLES
    available,     \* the frames allocate_page may return (zeroed)
    cache,         \* page -> the cache whose slab it is, or 0
    slabs,         \* cache -> its first slab
    other_slabs,   \* slab -> the next slab of its cache
    objects,       \* slab -> its first free object
    obj_am,        \* slab -> its count
    word,          \* object -> its first word
    op,            \* [at, cache, slab]
    lent           \* history: objects in use

heap == <<available, cache, slabs, other_slabs, objects, obj_am, word, op, lent>>

Idle == [at |-> "idle", cache |-> 0, slab |-> NULL]

-----------------------------------------------------------------------------
\* Mutant: the last object is left out of the list.
NewSlabShort(p, c) ==
    LET last == Capacity(c) IN
    /\ available' = available \ {p}
    /\ cache' = [cache EXCEPT ![p] = c]
    /\ obj_am' = [obj_am EXCEPT ![p] = last]
    /\ word' = [o \in AllObjects |->
                   IF o \in ObjectsOf(p, c) /\ o[2] > 1
                   THEN Object(p, o[2] - 1) ELSE word[o]]
    /\ objects' = [objects EXCEPT ![p] = Object(p, IF last > 1 THEN last - 1 ELSE 1)]

\* new_slab: the list runs from the last object down to the first, whose next
\* is NULL because allocate_page zeroes the page, as is other_slabs.
NewSlab(p, c) ==
    LET last == Capacity(c) IN
    /\ available' = available \ {p}
    /\ cache' = [cache EXCEPT ![p] = c]
    /\ obj_am' = [obj_am EXCEPT ![p] = last]
    /\ word' = [o \in AllObjects |->
                   IF o \in ObjectsOf(p, c) /\ o[2] > 1
                   THEN Object(p, o[2] - 1) ELSE word[o]]
    /\ objects' = [objects EXCEPT ![p] = Object(p, last)]

Panic(message) ==
    /\ op' = [op EXCEPT !.at = message]
    /\ UNCHANGED <<available, cache, slabs, other_slabs, objects, obj_am, word, lent>>

\* setup_heap: one init_slabcache per step.
SetupHeap ==
    /\ op.at = "setup"
    /\ LET c == op.cache IN
       \E p \in available :
          /\ NewSlab(p, c)
          /\ slabs' = [slabs EXCEPT ![c] = p]
          /\ op' = IF c < Len(CacheSize) THEN [op EXCEPT !.cache = c + 1] ELSE Idle
    /\ UNCHANGED <<other_slabs, lent>>

\* malloc, kmalloc: the first cache whose objects are large enough.
Malloc(size) ==
    /\ op.at = "idle"
    /\ LET fits == {c \in Caches : size + Header <= CacheSize[c]} IN
       IF fits = {} THEN Panic("no_mem")
       ELSE LET c == CHOOSE c \in fits : \A d \in fits : c <= d IN
            /\ op' = [at |-> "walk", cache |-> c, slab |-> slabs[c]]
            /\ UNCHANGED <<available, cache, slabs, other_slabs, objects, obj_am, word, lent>>

\* The slab has a free object; malloc stores the size in its first word.
TakeObject(s) ==
    /\ objects[s] # NULL
    /\ objects' = [objects EXCEPT ![s] = word[objects[s]]]
    /\ obj_am' = [obj_am EXCEPT ![s] = @ - 1]
    /\ word' = [word EXCEPT ![objects[s]] = Block]
    /\ lent' = lent \cup {objects[s]}
    /\ op' = Idle
    /\ UNCHANGED <<available, cache, slabs, other_slabs>>

\* The slab is full and not the last of its cache.
WalkOn(s) ==
    /\ objects[s] = NULL /\ other_slabs[s] # NULL
    /\ op' = [op EXCEPT !.slab = other_slabs[s]]
    /\ UNCHANGED <<available, cache, slabs, other_slabs, objects, obj_am, word, lent>>

\* The last slab of the cache is full: another one is added behind it.
AddSlab(s) ==
    /\ objects[s] = NULL /\ other_slabs[s] = NULL
    /\ IF available = {} THEN Panic("out_of_memory")
       ELSE \E p \in available :
            /\ NewSlab(p, op.cache)
            /\ other_slabs' = [other_slabs EXCEPT ![s] = p]
            /\ op' = [op EXCEPT !.slab = p]
            /\ UNCHANGED <<slabs, lent>>

\* One iteration of allocate_with_slab.
AllocateWithSlab ==
    /\ op.at = "walk"
    /\ TakeObject(op.slab) \/ WalkOn(op.slab) \/ AddSlab(op.slab)

\* free, kfree: the page of the object is its slab.
Free(o) ==
    /\ op.at = "idle"
    /\ LET hea == o[1] IN
       /\ word' = [word EXCEPT ![o] = objects[hea]]
       /\ objects' = [objects EXCEPT ![hea] = o]
       /\ obj_am' = [obj_am EXCEPT ![hea] = @ + 1]
    /\ lent' = lent \ {o}
    /\ UNCHANGED <<available, cache, slabs, other_slabs, op>>

Panicked == op.at \in {"no_mem", "out_of_memory"}

Init ==
    /\ available = SlabPages
    /\ cache = [p \in SlabPages |-> 0]
    /\ slabs = [c \in Caches |-> NULL]
    /\ other_slabs = [p \in SlabPages |-> NULL]
    /\ objects = [p \in SlabPages |-> NULL]
    /\ obj_am = [p \in SlabPages |-> 0]
    /\ word = [o \in AllObjects |-> NULL]
    /\ op = [at |-> "setup", cache |-> 1, slab |-> NULL]
    /\ lent = {}

Next ==
    \/ SetupHeap
    \/ \E size \in Requests : Malloc(size)
    \/ AllocateWithSlab
    \/ \E o \in lent : Free(o)

-----------------------------------------------------------------------------
(* Properties *)

Slabs(c)       == {p \in SlabPages : cache[p] = c}
FreeObjects(p) == ObjectsOf(p, cache[p]) \ lent

\* Every slab of a cache is on the cache's list, so that allocate_with_slab sees
\* all of them before it asks for another page; the list of every slab runs
\* through exactly its objects that nobody uses, and obj_am counts them.  So
\* malloc never hands out an object twice, and free never loses one.
SlabsAreIntact ==
    \A c \in Caches :
        /\ op.at # "setup" => OneList(slabs[c], Slabs(c), other_slabs)
        /\ \A p \in Slabs(c) :
             /\ OneList(objects[p], FreeObjects(p), word)
             /\ obj_am[p] = Cardinality(FreeObjects(p))
=============================================================================
