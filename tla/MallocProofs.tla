---------------------------- MODULE MallocProofs ----------------------------
(***************************************************************************)
(* malloc and free for any number of threads, frames, caches and sizes.    *)
(*                                                                         *)
(* Large blocks are those of LargeBlocksProofs.  Small blocks: the lists   *)
(* of slabs and of free objects; a frame that is no slab is still zeroed.  *)
(* Both sides draw frames from one pool, and each frame has one place.     *)
(***************************************************************************)
EXTENDS LargeBlocksProofs, LinksProofs, FiniteSetTheorems

-----------------------------------------------------------------------------
(* The inductive invariant *)

Caches == H!Caches

SlabTypes ==
    /\ cache \in [Frames -> Caches \cup {0}] /\ slabs \in [Caches -> Frames \cup {NULL}]
    /\ other_slabs \in [Frames -> Frames \cup {NULL}]
    /\ objects \in [Frames -> H!AllObjects \cup {NULL}]
    /\ obj_am \in [Frames -> Int]
    /\ word \in [H!AllObjects -> H!AllObjects \cup {NULL, Block}]
    /\ op \in [at : {"setup", "idle", "walk", "no_mem", "out_of_memory"},
               cache : Caches \cup {0}, slab : Frames \cup {NULL}]
    /\ lent \subseteq H!AllObjects

SlabList(c) == slabs[c] # NULL /\ OneList(slabs[c], H!Slabs(c), other_slabs)

Walks ==
    /\ op.at = "setup" =>
         /\ op.cache \in Caches
         /\ \A c \in Caches : IF c < op.cache THEN SlabList(c) ELSE H!Slabs(c) = {}
    /\ op.at # "setup" => \A c \in Caches : SlabList(c)
    /\ op.at = "walk" => op.cache \in Caches /\ op.slab \in H!Slabs(op.cache)

Objects ==
    /\ \A p \in Frames : cache[p] # 0 =>
         /\ OneList(objects[p], H!FreeObjects(p), word)
         /\ obj_am[p] = Cardinality(H!FreeObjects(p))
    /\ \A p \in Frames : cache[p] = 0 =>
         /\ other_slabs[p] = NULL
         /\ \A o \in H!AllObjects : o[1] = p => word[o] = NULL
    /\ \A o \in lent : cache[o[1]] # 0 /\ o \in H!ObjectsOf(o[1], cache[o[1]])

SlabInv == SlabTypes /\ Walks /\ Objects

MallocInv == LargeInv /\ SlabInv
-----------------------------------------------------------------------------
(* Small blocks *)

\* most leaves are first-order; those with arithmetic or EXCEPT cite SMT
USE Zenon

\* A slab holds at least one object, and no more than one of the first cache.
LEMMA CapacityIs ==
    /\ Len(CacheSize) \in Nat /\ 1 \in Caches
    /\ \A c \in Caches : /\ c \in Nat /\ H!Capacity(c) \in Nat /\ H!Capacity(c) >= 1
                         /\ H!Capacity(c) <= H!Capacity(1)
<1>1. /\ Len(CacheSize) \in Nat /\ 1 \in Caches /\ Len(CacheSize) \in Caches
      /\ Caches \subseteq Nat
  BY HeapAssumption, SMT DEF Caches, H!Caches
<1>2. \A c \in Caches : CacheSize[c] \in Nat /\ CacheSize[c] > 0
  BY HeapAssumption, SMT DEF Caches, H!Caches
<1>3. ASSUME NEW c \in Caches
      PROVE  /\ H!Capacity(c) \in Nat /\ H!Capacity(c) >= 1
             /\ H!Capacity(c) <= H!Capacity(1)
  <2>1. CacheSize[c] <= CacheSize[Len(CacheSize)] /\ CacheSize[1] <= CacheSize[c]
    <3>1. c \in Nat /\ 1 <= c /\ c <= Len(CacheSize)
      BY <1>1, SMT DEF Caches, H!Caches
    <3>2. CASE c < Len(CacheSize) /\ 1 < c
      BY <1>1, <1>2, <3>2, HeapAssumption, SMT DEF Caches
    <3>3. CASE c = Len(CacheSize) \/ c = 1
      BY <1>1, <1>2, <3>1, <3>3, HeapAssumption, SMT DEF Caches
    <3>4. QED
      BY <1>1, <3>1, <3>2, <3>3, SMT
  <2>2. SlabBytes \in Nat /\ CacheSize[c] <= SlabBytes
    BY <1>1, <1>2, <2>1, HeapAssumption, SMT DEF H!Limit
  <2> DEFINE a == CacheSize[1]
             b == CacheSize[c]
  <2>3. a \in Nat /\ a > 0 /\ b \in Nat /\ b > 0 /\ a <= b /\ b <= SlabBytes
    BY <1>1, <1>2, <2>1, <2>2
  <2> HIDE DEF a, b
  <2>4. /\ SlabBytes \div b \in Nat /\ SlabBytes \div b >= 1
        /\ SlabBytes \div b <= SlabBytes \div a
    BY <2>2, <2>3, SMT
  <2>5. QED
    BY <2>4 DEF H!Capacity, a, b
<1>4. QED
  BY <1>1, <1>3

\* The objects of slab p of cache c.
LEMMA ObjectsAre ==
    ASSUME NEW p \in Frames, NEW c \in Caches
    PROVE  /\ H!ObjectsOf(p, c) \subseteq H!AllObjects
           /\ \A o \in H!ObjectsOf(p, c) : o[1] = p /\ o # NULL
           /\ \A i \in 1..H!Capacity(c) : H!Object(p, i) \in H!ObjectsOf(p, c)
<1>1. /\ H!Capacity(c) \in Nat /\ H!Capacity(c) <= H!Capacity(1) /\ H!Capacity(1) \in Nat
  BY CapacityIs
<1>2. \A i \in 1..H!Capacity(c) : i \in 1..H!Capacity(1)
  BY <1>1, SMT
<1>3. H!ObjectsOf(p, c) \subseteq H!AllObjects
  BY <1>2, SMT DEF H!ObjectsOf, H!Object, H!AllObjects
<1>4. \A o \in H!ObjectsOf(p, c) : o[1] = p
  BY SMT DEF H!ObjectsOf, H!Object
<1>5. QED
  BY <1>3, <1>4, HeapAssumption DEF H!ObjectsOf

\* A slab of cache c has Capacity(c) objects.
LEMMA ObjectCount ==
    ASSUME NEW p \in Frames, NEW c \in Caches
    PROVE  /\ IsFiniteSet(H!ObjectsOf(p, c))
           /\ Cardinality(H!ObjectsOf(p, c)) = H!Capacity(c)
<1> DEFINE n == H!Capacity(c)
           S == 1..n
           T == H!ObjectsOf(p, c)
           f == [i \in S |-> H!Object(p, i)]
<1>1. n \in Nat
  BY CapacityIs
<1>2. IsFiniteSet(S) /\ Cardinality(S) = n
  <2> HIDE DEF n
  <2>1. IsFiniteSet(1..n) /\ Cardinality(1..n) = IF 1 > n THEN 0 ELSE n - 1 + 1
    BY <1>1, FS_Interval, SMT
  <2>2. QED
    BY <1>1, <2>1, SMT
<1>3. f \in Bijection(S, T)
  <2>1. f \in [S -> T]
    BY DEF H!ObjectsOf
  <2>2. \A i, j \in S : f[i] = f[j] => i = j
    BY DEF H!Object
  <2>3. \A o \in T : \E i \in S : f[i] = o
    BY DEF H!ObjectsOf
  <2> HIDE DEF f, S, T
  <2>4. QED
    BY <2>1, <2>2, <2>3 DEF Bijection, Injection, Surjection, IsInjective
<1> HIDE DEF S, T, f
<1>4. IsFiniteSet(T) /\ Cardinality(T) = Cardinality(S)
  <2>1. ExistsBijection(S, T)
    BY <1>3 DEF ExistsBijection
  <2>2. QED
    BY <1>2, <2>1, FS_Bijection
<1>5. QED
  BY <1>2, <1>4 DEF T, n

\* new_slab's list runs down from the last object.
LEMMA ListDown ==
    ASSUME NEW p \in Frames, NEW c \in Caches, NEW f,
           f[H!Object(p, 1)] = NULL,
           \A i \in 2..H!Capacity(c) : f[H!Object(p, i)] = H!Object(p, i - 1)
    PROVE  OneList(H!Object(p, H!Capacity(c)), H!ObjectsOf(p, c), f)
<1> DEFINE n == H!Capacity(c)
           Q == H!ObjectsOf(p, c)
           O(i) == H!Object(p, i)
<1>0. n \in Nat /\ n >= 1
  BY CapacityIs
<1>1. /\ \A i \in 1..n : O(i) \in Q /\ O(i) # NULL
      /\ \A o \in Q : \E i \in 1..n : o = O(i)
  BY ObjectsAre DEF H!ObjectsOf
<1>2. \A i, j : O(i) = O(j) => i = j
  BY DEF H!Object
<1>3. \A i \in 1..n : f[O(i)] = IF i = 1 THEN NULL ELSE O(i - 1)
  BY <1>0, SMT
<1> HIDE DEF n, Q, O
<1>4. O(n) \in Q /\ O(n) # NULL
  BY <1>0, <1>1, SMT
<1>5. \A o \in Q : f[o] \in Q \cup {NULL} /\ f[o] # O(n)
  <2>1. ASSUME NEW i \in 1..n PROVE f[O(i)] \in Q \cup {NULL} /\ f[O(i)] # O(n)
    <3>1. i # 1 => i - 1 \in 1..n /\ i - 1 # n
      BY <1>0, SMT
    <3>2. QED
      BY <1>1, <1>2, <1>3, <1>4, <3>1, SMT
  <2>2. QED
    BY <1>1, <2>1
<1>6. \A o, q \in Q : f[o] = f[q] /\ f[o] # NULL => o = q
  <2>1. \A i, j \in 1..n : f[O(i)] = f[O(j)] /\ f[O(i)] # NULL => i = j
    <3>1. \A i, j \in 1..n : i - 1 = j - 1 => i = j
      BY <1>0, SMT
    <3>2. QED
      BY <1>2, <1>3, <3>1, SMT
  <2>2. QED
    BY <1>1, <2>1, SMT
<1>7. ASSUME NEW C \in SUBSET Q, O(n) \in C, \A o \in C : f[o] \in C \cup {NULL}
      PROVE  C = Q
  <2> DEFINE T == {n - i : i \in {j \in 1..n : O(j) \notin C}}
  <2>1. SUFFICES ASSUME C # Q PROVE FALSE
    OBVIOUS
  <2>2. T \subseteq Nat /\ T # {}
    <3>1. PICK o \in Q : o \notin C
      BY <2>1
    <3>2. PICK i \in 1..n : o = O(i)
      BY <1>1
    <3>3. QED
      BY <1>0, <3>1, <3>2, SMT
  <2>3. PICK x \in T : \A y \in T : x <= y
    <3> HIDE DEF T
    <3>1. QED
      BY <2>2, LeastNat
  <2>4. PICK i \in 1..n : O(i) \notin C /\ x = n - i
    BY <2>3
  <2>5. i # n /\ i + 1 \in 1..n /\ i + 1 # 1 /\ (i + 1) - 1 = i
    BY <1>0, <1>7, <2>4, SMT
  <2>6. O(i + 1) \in C
    <3>1. SUFFICES ASSUME O(i + 1) \notin C PROVE FALSE
      OBVIOUS
    <3>2. n - (i + 1) \in T
      BY <2>5, <3>1
    <3>3. QED
      BY <1>0, <2>3, <2>4, <3>2, SMT
  <2>7. f[O(i + 1)] = O(i)
    BY <1>3, <2>5
  <2>8. QED
    BY <1>1, <1>7, <2>4, <2>6, <2>7
<1>8. QED
  BY <1>4, <1>5, <1>6, <1>7 DEF OneList, n, Q, O
\* new_slab takes a frame nobody uses; the large blocks do not see it.
LEMMA SmallTakesFrame ==
    ASSUME LargeInv, UNCHANGED <<trees, result, failed, page_table, th, blocks>>,
           NEW p \in available, NEW c \in Caches, SlabTypes,
           available' = available \ {p}, cache' = [cache EXCEPT ![p] = c]
    PROVE  LargeInv'
<1>0. /\ LargeTypes /\ Owned /\ Progress /\ Places /\ Backed
      /\ UNCHANGED <<free_ranges, used_ranges>> /\ p \in Frames /\ c # 0
  BY CapacityIs, SMT DEF LargeInv, LargeTypes, trees, Caches, H!Caches
<1>1. LargeTypes' /\ Owned' /\ Backed'
  BY <1>0 DEF LargeTypes, IInv, Owned, Busy, Own, Backed, Covered
<1>2. Progress'
  BY <1>0 DEF Progress, Busy, IsMapped, Here
<1>3. Places'
  <2>1. cache'[p] = c /\ \A f \in Frames : f # p => cache'[f] = cache[f]
    BY <1>0 DEF SlabTypes
  <2>2. \A f \in Frames : /\ IsMappedTo(f)' <=> IsMappedTo(f)
                          /\ \A t \in Threads : Carries(t, f)' <=> Carries(t, f)
    BY DEF IsMappedTo, Carries
  <2>3. QED
    BY <1>0, <2>1, <2>2 DEF Places
<1>4. QED
  BY <1>1, <1>2, <1>3 DEF LargeInv

\* A step of the slab allocator that takes no frame.
LEMMA SmallKeepsFrames ==
    ASSUME LargeInv,
           UNCHANGED <<trees, result, failed, page_table, th, blocks, available, cache>>
    PROVE  LargeInv'
<1>0. /\ LargeTypes /\ Owned /\ Progress /\ Places /\ Backed
      /\ UNCHANGED <<free_ranges, used_ranges>>
  BY DEF LargeInv, trees
<1>1. LargeTypes' /\ Owned' /\ Backed'
  BY <1>0 DEF LargeTypes, IInv, Owned, Busy, Own, Backed, Covered
<1>2. Progress' /\ Places'
  BY <1>0 DEF Progress, Busy, IsMapped, Here, Places, IsMappedTo, Carries
<1>3. QED
  BY <1>1, <1>2 DEF LargeInv

\* A frame that becomes a slab: its objects are all free and on its list.
LEMMA NewSlabStep ==
    ASSUME SlabTypes, Objects, NEW p \in Frames, cache[p] = 0, NEW c \in Caches,
           H!NewSlab(p, c), UNCHANGED lent,
           \A q \in Frames : cache[q] = 0 /\ q # p => other_slabs'[q] = other_slabs[q]
    PROVE  /\ Objects'
           /\ cache' \in [Frames -> Caches \cup {0}]
           /\ objects' \in [Frames -> H!AllObjects \cup {NULL}]
           /\ obj_am' \in [Frames -> Int]
           /\ word' \in [H!AllObjects -> H!AllObjects \cup {NULL, Block}]
           /\ H!Slabs(c)' = H!Slabs(c) \cup {p} /\ p \notin H!Slabs(c)
           /\ \A d \in Caches : d # c => H!Slabs(d)' = H!Slabs(d)
<1> DEFINE n == H!Capacity(c)
           Q == H!ObjectsOf(p, c)
<1>0. /\ c # 0 /\ n \in Nat /\ n >= 1
      /\ \A q \in Frames : q # p => cache'[q] = cache[q]
      /\ cache'[p] = c /\ cache' \in [Frames -> Caches \cup {0}]
  <2>1. cache' = [cache EXCEPT ![p] = c]
    BY Zenon DEF H!NewSlab
  <2>2. n \in Nat /\ n >= 1
    BY CapacityIs
  <2>3. c # 0
    BY HeapAssumption, SMT DEF Caches, H!Caches
  <2>4. QED
    BY <2>1, <2>2, <2>3 DEF SlabTypes
<1>1. Q \subseteq H!AllObjects /\ (\A o \in Q : o[1] = p /\ o # NULL)
      /\ \A i \in 1..n : H!Object(p, i) \in Q
  BY ObjectsAre
<1>2. /\ obj_am' = [obj_am EXCEPT ![p] = n]
      /\ word' = [o \in H!AllObjects |->
                     IF o \in Q /\ o[2] > 1 THEN H!Object(p, o[2] - 1) ELSE word[o]]
      /\ objects' = [objects EXCEPT ![p] = H!Object(p, n)]
  BY DEF H!NewSlab
<1> HIDE DEF n, Q
<1>3. \A o \in H!AllObjects : o[1] # p => word'[o] = word[o]
  BY <1>1, <1>2
<1>4. /\ word'[H!Object(p, 1)] = NULL
      /\ \A i \in 2..n : word'[H!Object(p, i)] = H!Object(p, i - 1)
  <2>1. \A i \in 1..n : /\ H!Object(p, i) \in Q /\ H!Object(p, i) \in H!AllObjects
                        /\ H!Object(p, i)[1] = p /\ H!Object(p, i)[2] = i
    BY <1>1 DEF H!Object
  <2>2. 1 \in 1..n /\ ~(1 > 1)
    BY <1>0, SMT
  <2>3. word[H!Object(p, 1)] = NULL
    BY <2>1, <2>2 DEF Objects
  <2>4. word'[H!Object(p, 1)] = NULL
    BY <1>2, <2>1, <2>2, <2>3
  <2>5. \A i \in 2..n : i \in 1..n /\ i > 1
    BY <1>0, SMT
  <2>6. QED
    BY <1>2, <2>1, <2>4, <2>5
<1>5. OneList(H!Object(p, n), Q, word')
  BY <1>4, ListDown DEF n, Q
<1>6. n \in Int /\ H!Object(p, n) \in H!AllObjects
  BY <1>0, <1>1, SMT
<1>7. /\ objects' \in [Frames -> H!AllObjects \cup {NULL}]
      /\ obj_am' \in [Frames -> Int]
      /\ objects'[p] = H!Object(p, n) /\ obj_am'[p] = n
      /\ \A q \in Frames : q # p => objects'[q] = objects[q] /\ obj_am'[q] = obj_am[q]
  BY <1>2, <1>6 DEF SlabTypes
<1>8. word' \in [H!AllObjects -> H!AllObjects \cup {NULL, Block}]
  <2>1. ASSUME NEW o \in Q, o[2] > 1 PROVE H!Object(p, o[2] - 1) \in H!AllObjects
    <3>1. PICK i \in 1..n : o = H!Object(p, i)
      BY DEF Q, n, H!ObjectsOf
    <3>2. o[2] = i
      BY <3>1 DEF H!Object
    <3>3. i - 1 \in 1..n
      BY <1>0, <2>1, <3>2, SMT
    <3>4. QED
      BY <1>1, <3>2, <3>3
  <2>2. QED
    BY <1>2, <2>1 DEF SlabTypes
<1>9. H!FreeObjects(p)' = Q
  <2>1. \A o \in lent : o[1] # p
    BY <1>0 DEF Objects
  <2>2. QED
    BY <1>0, <1>1, <2>1 DEF H!FreeObjects, Q
<1>10. \A q \in Frames : q # p => H!FreeObjects(q)' = H!FreeObjects(q)
  BY <1>0 DEF H!FreeObjects
<1>11. Objects'
  <2>1. ASSUME NEW q \in Frames, cache'[q] # 0
        PROVE  /\ OneList(objects'[q], H!FreeObjects(q)', word')
               /\ obj_am'[q] = Cardinality(H!FreeObjects(q)')
    <3>1. CASE q = p
      BY <1>5, <1>7, <1>9, <3>1, ObjectCount DEF n, Q
    <3>2. CASE q # p
      <4>1. cache[q] # 0 /\ cache[q] \in Caches
        BY <1>0, <2>1, <3>2 DEF SlabTypes
      <4>2. \A o \in H!FreeObjects(q) : o[1] = q /\ o \in H!AllObjects
        BY <4>1, ObjectsAre DEF H!FreeObjects
      <4>3. \A o \in H!FreeObjects(q) : word'[o] = word[o]
        BY <1>3, <3>2, <4>2
      <4>4. OneList(objects[q], H!FreeObjects(q), word')
        BY <4>1, <4>3, ListFrame, SMT DEF Objects
      <4>5. QED
        BY <1>7, <1>10, <3>2, <4>1, <4>4 DEF Objects
    <3>3. QED
      BY <3>1, <3>2
  <2>2. \A q \in Frames : cache'[q] = 0 =>
           /\ other_slabs'[q] = NULL
           /\ \A o \in H!AllObjects : o[1] = q => word'[o] = NULL
    BY <1>0, <1>3, SMT DEF Objects
  <2>3. \A o \in lent : cache'[o[1]] # 0 /\ o \in H!ObjectsOf(o[1], cache'[o[1]])
    <3>1. \A o \in lent : o[1] \in Frames /\ o[1] # p
      BY DEF SlabTypes, Objects, H!AllObjects
    <3>2. QED
      BY <1>0, <3>1 DEF Objects
  <2>4. QED
    BY <2>1, <2>2, <2>3 DEF Objects
<1>12. /\ H!Slabs(c)' = H!Slabs(c) \cup {p} /\ p \notin H!Slabs(c)
       /\ \A d \in Caches : d # c => H!Slabs(d)' = H!Slabs(d)
  BY <1>0, CapacityIs, SMT DEF H!Slabs, Caches, H!Caches
<1>13. QED
  BY <1>0, <1>7, <1>8, <1>11, <1>12
\* The heads and members of slab lists are frames.
LEMMA SlabsAre ==
    ASSUME SlabTypes, NEW c \in Caches
    PROVE  /\ H!Slabs(c) \subseteq Frames /\ NULL \notin H!Slabs(c) /\ c # 0
           /\ SlabList(c) => slabs[c] \in H!Slabs(c)
<1>1. c # 0
  BY HeapAssumption, SMT DEF Caches, H!Caches
<1>2. QED
  BY <1>1, HeapAssumption DEF H!Slabs, SlabList, OneList

\* setup_heap gives cache op.cache its first slab.
LEMMA SetupHeapStep ==
    ASSUME MallocInv, H!SetupHeap,
           UNCHANGED <<trees, result, failed, page_table, th, blocks>>
    PROVE  MallocInv'
<1>c. PICK c : c = op.cache
  OBVIOUS
<1>0. /\ LargeInv /\ SlabTypes /\ Walks /\ Objects /\ op.at = "setup"
      /\ UNCHANGED <<other_slabs, lent>>
      /\ c \in Caches /\ Len(CacheSize) \in Nat /\ c \in Nat /\ c <= Len(CacheSize)
  BY <1>c, CapacityIs, SMT DEF MallocInv, SlabInv, H!SetupHeap, Walks, Caches, H!Caches
<1>1. PICK p \in available :
        /\ H!NewSlab(p, c)
        /\ slabs' = [slabs EXCEPT ![c] = p]
        /\ op' = IF c < Len(CacheSize) THEN [op EXCEPT !.cache = c + 1] ELSE H!Idle
  BY <1>c, Zenon DEF H!SetupHeap
<1>2. p \in Frames /\ cache[p] = 0 /\ p # NULL
  BY <1>0, HeapAssumption DEF LargeInv, LargeTypes, Places
<1>3. available' = available \ {p} /\ cache' = [cache EXCEPT ![p] = c]
  BY <1>1, Zenon DEF H!NewSlab
<1>4. LargeInv'
  BY <1>0, <1>3, SmallTakesFrame
<1>5. /\ Objects'
      /\ cache' \in [Frames -> Caches \cup {0}]
      /\ objects' \in [Frames -> H!AllObjects \cup {NULL}]
      /\ obj_am' \in [Frames -> Int]
      /\ word' \in [H!AllObjects -> H!AllObjects \cup {NULL, Block}]
      /\ H!Slabs(c)' = H!Slabs(c) \cup {p}
      /\ \A d \in Caches : d # c => H!Slabs(d)' = H!Slabs(d)
  BY <1>0, <1>1, <1>2, NewSlabStep
<1>6. /\ slabs' \in [Caches -> Frames \cup {NULL}] /\ slabs'[c] = p
      /\ \A d \in Caches : d # c => slabs'[d] = slabs[d]
  BY <1>0, <1>1, <1>2 DEF SlabTypes
<1>7. /\ op' \in [at : {"setup", "idle", "walk", "no_mem", "out_of_memory"},
                  cache : Caches \cup {0}, slab : Frames \cup {NULL}]
      /\ c < Len(CacheSize) => op'.at = "setup" /\ op'.cache = c + 1 /\ c + 1 \in Caches
      /\ c = Len(CacheSize) => op'.at = "idle"
      /\ op'.at \in {"setup", "idle"}
  <2>1. CASE c < Len(CacheSize)
    <3>1. c + 1 \in Caches
      BY <1>0, <2>1, SMT DEF Caches, H!Caches
    <3>2. op' = [op EXCEPT !.cache = c + 1] /\ c # Len(CacheSize)
      BY <1>0, <1>1, <2>1, SMT
    <3>3. QED
      BY <1>0, <3>1, <3>2 DEF SlabTypes
  <2>2. CASE c = Len(CacheSize)
    BY <1>0, <1>1, <2>2, SMT DEF H!Idle
  <2>3. QED
    BY <1>0, <2>1, <2>2, SMT
<1>8. SlabTypes'
  BY <1>0, <1>5, <1>6, <1>7 DEF SlabTypes
<1>9. SlabList(c)'
  <2>1. H!Slabs(c) = {} /\ other_slabs[p] = NULL
    BY <1>c, <1>0, <1>2, SMT DEF Walks, Objects
  <2>2. OneList(p, {p}, other_slabs')
    BY <1>0, <1>2, <2>1, ListOne
  <2>3. QED
    BY <1>2, <1>5, <1>6, <2>1, <2>2 DEF SlabList
<1>10. \A d \in Caches : d # c => (SlabList(d)' <=> SlabList(d))
  BY <1>0, <1>5, <1>6 DEF SlabList
<1>11. Walks'
  <2>1. \A d \in Caches : d \in Nat /\ d <= Len(CacheSize)
    BY <1>0, SMT DEF Caches, H!Caches
  <2>2. \A d \in Caches : /\ d < c => SlabList(d)'
                          /\ d > c => H!Slabs(d)' = {}
    BY <1>c, <1>0, <1>5, <1>10, <2>1, SMT DEF Walks
  <2>3. CASE c < Len(CacheSize)
    <3>1. \A d \in Caches : IF d < c + 1 THEN SlabList(d)' ELSE H!Slabs(d)' = {}
      BY <1>0, <1>9, <2>1, <2>2, SMT
    <3>2. QED
      BY <1>7, <2>3, <3>1 DEF Walks
  <2>4. CASE c = Len(CacheSize)
    <3>1. \A d \in Caches : SlabList(d)'
      BY <1>0, <1>9, <2>1, <2>2, <2>4, SMT
    <3>2. QED
      BY <1>7, <2>4, <3>1 DEF Walks
  <2>5. QED
    BY <1>0, <2>3, <2>4, SMT
<1>12. QED
  BY <1>4, <1>5, <1>8, <1>11 DEF MallocInv, SlabInv

\* malloc picks a cache, or panics.
LEMMA MallocSmallStep ==
    ASSUME MallocInv, NEW size \in Requests, H!Malloc(size),
           UNCHANGED <<trees, result, failed, page_table, th, blocks>>
    PROVE  MallocInv'
<1> DEFINE fits == {c \in H!Caches : size + H!Header <= CacheSize[c]}
<1>0. /\ LargeInv /\ SlabTypes /\ Walks /\ Objects /\ op.at = "idle"
      /\ UNCHANGED <<available, cache, slabs, other_slabs, objects, obj_am, word, lent>>
  BY DEF MallocInv, SlabInv, H!Malloc, H!Panic
<1>1. LargeInv'
  BY <1>0, SmallKeepsFrames
<1>2. Objects'
  BY <1>0 DEF Objects, H!FreeObjects
<1>3. \A c \in Caches : /\ SlabList(c)' <=> SlabList(c)
                        /\ H!Slabs(c)' = H!Slabs(c)
  BY <1>0 DEF SlabList, H!Slabs
<1>4. \A c \in Caches : SlabList(c)
  BY <1>0 DEF Walks
<1>5. CASE fits = {}
  <2>1. op' = [op EXCEPT !.at = "no_mem"]
    BY <1>5 DEF H!Malloc, H!Panic
  <2>2. QED
    BY <1>0, <1>1, <1>2, <1>3, <1>4, <2>1 DEF MallocInv, SlabInv, SlabTypes, Walks
<1>6. CASE fits # {}
  <2> DEFINE c == CHOOSE c \in fits : \A d \in fits : c <= d
  <2>1. op' = [at |-> "walk", cache |-> c, slab |-> slabs[c]]
    BY <1>6 DEF H!Malloc
  <2>2. c \in fits
    <3> HIDE DEF fits
    <3>1. fits \subseteq Nat
      BY CapacityIs DEF fits, Caches
    <3>2. \E x \in fits : \A y \in fits : x <= y
      BY <1>6, <3>1, LeastNat
    <3>3. QED
      BY <3>2
  <2>3. c \in Caches
    BY <2>2 DEF Caches
  <2> HIDE DEF c, fits
  <2>4. slabs[c] \in H!Slabs(c) /\ slabs[c] \in Frames
    BY <1>0, <1>4, <2>3, SlabsAre
  <2>5. op'.at = "walk" /\ op'.cache = c /\ op'.slab = slabs[c]
    BY <2>1
  <2>6. SlabTypes'
    BY <1>0, <2>1, <2>3, <2>4 DEF SlabTypes
  <2>7. Walks'
    BY <1>3, <1>4, <2>3, <2>4, <2>5 DEF Walks
  <2>8. QED
    BY <1>1, <1>2, <2>6, <2>7 DEF MallocInv, SlabInv
<1>7. QED
  BY <1>5, <1>6
\* One slab's list changes, at its own objects.
LEMMA OneSlabStep ==
    ASSUME SlabTypes, Objects, NEW s \in Frames, cache[s] # 0,
           NEW h \in H!AllObjects \cup {NULL}, NEW k \in Int, NEW o \in H!AllObjects, o[1] = s,
           NEW w \in H!AllObjects \cup {NULL, Block},
           UNCHANGED <<cache, other_slabs>>,
           objects' = [objects EXCEPT ![s] = h], obj_am' = [obj_am EXCEPT ![s] = k],
           word' = [word EXCEPT ![o] = w],
           lent' = lent \cup {o} \/ lent' = lent \ {o},
           o \in H!ObjectsOf(s, cache[s]),
           OneList(h, H!ObjectsOf(s, cache[s]) \ lent', word'),
           k = Cardinality(H!ObjectsOf(s, cache[s]) \ lent')
    PROVE  /\ Objects'
           /\ objects' \in [Frames -> H!AllObjects \cup {NULL}]
           /\ obj_am' \in [Frames -> Int]
           /\ word' \in [H!AllObjects -> H!AllObjects \cup {NULL, Block}]
           /\ lent' \subseteq H!AllObjects
<1>1. /\ objects' \in [Frames -> H!AllObjects \cup {NULL}] /\ objects'[s] = h
      /\ \A q \in Frames : q # s => objects'[q] = objects[q]
  BY DEF SlabTypes
<1>2. /\ obj_am' \in [Frames -> Int] /\ obj_am'[s] = k
      /\ \A q \in Frames : q # s => obj_am'[q] = obj_am[q]
  BY DEF SlabTypes
<1>3. /\ word' \in [H!AllObjects -> H!AllObjects \cup {NULL, Block}]
      /\ \A x \in H!AllObjects : x # o => word'[x] = word[x]
  BY DEF SlabTypes
<1>4. lent' \subseteq H!AllObjects /\ \A x : x # o => (x \in lent' <=> x \in lent)
  BY DEF SlabTypes
<1>5. ASSUME NEW q \in Frames, cache[q] # 0
      PROVE  /\ OneList(objects'[q], H!FreeObjects(q)', word')
             /\ obj_am'[q] = Cardinality(H!FreeObjects(q)')
  <2>1. CASE q = s
    BY <1>1, <1>2, <2>1 DEF H!FreeObjects
  <2>2. CASE q # s
    <3>1. cache[q] \in Caches
      BY <1>5 DEF SlabTypes
    <3>2. \A x \in H!ObjectsOf(q, cache[q]) : x # o /\ x \in H!AllObjects
      BY <2>2, <3>1, ObjectsAre
    <3>3. H!FreeObjects(q)' = H!FreeObjects(q)
      BY <1>4, <3>2 DEF H!FreeObjects
    <3>4. \A x \in H!FreeObjects(q) : word'[x] = word[x]
      BY <1>3, <3>2 DEF H!FreeObjects
    <3>5. OneList(objects[q], H!FreeObjects(q), word')
      <4>1. OneList(objects[q], H!FreeObjects(q), word)
        BY <1>5 DEF Objects
      <4>2. QED
        BY <3>4, <4>1, ListFrame
    <3>6. QED
      BY <1>1, <1>2, <1>5, <2>2, <3>3, <3>5, SMT DEF Objects
  <2>3. QED
    BY <2>1, <2>2
<1>6. \A q \in Frames : cache[q] = 0 =>
         /\ other_slabs'[q] = NULL
         /\ \A x \in H!AllObjects : x[1] = q => word'[x] = NULL
  BY <1>3 DEF Objects
<1>7. \A x \in lent' : cache[x[1]] # 0 /\ x \in H!ObjectsOf(x[1], cache[x[1]])
  BY <1>4 DEF Objects
<1>8. QED
  BY <1>1, <1>2, <1>3, <1>4, <1>5, <1>6, <1>7 DEF Objects

\* What the slab a walk is at looks like.
LEMMA WalkIsAt ==
    ASSUME SlabTypes, Walks, Objects, op.at = "walk"
    PROVE  /\ op.cache \in Caches /\ op.slab \in Frames /\ cache[op.slab] = op.cache
           /\ op.cache # 0 /\ op.slab \in H!Slabs(op.cache)
           /\ OneList(objects[op.slab], H!FreeObjects(op.slab), word)
           /\ obj_am[op.slab] = Cardinality(H!FreeObjects(op.slab))
           /\ \A c \in Caches : SlabList(c)
<1>1. /\ op.cache \in Caches /\ op.slab \in H!Slabs(op.cache)
      /\ \A c \in Caches : SlabList(c)
  BY DEF Walks
<1>2. op.slab \in Frames /\ cache[op.slab] = op.cache /\ op.cache # 0
  BY <1>1, SlabsAre DEF H!Slabs
<1>3. QED
  BY <1>1, <1>2 DEF Objects

\* The free objects of a slab: finite, and objects of that slab.
LEMMA FreeObjectsAre ==
    ASSUME SlabTypes, NEW s \in Frames, cache[s] # 0
    PROVE  /\ cache[s] \in Caches
           /\ H!FreeObjects(s) \subseteq H!ObjectsOf(s, cache[s])
           /\ IsFiniteSet(H!FreeObjects(s))
           /\ \A o \in H!ObjectsOf(s, cache[s]) : o[1] = s /\ o # NULL /\ o \in H!AllObjects
<1>1. cache[s] \in Caches
  BY DEF SlabTypes
<1>2. H!FreeObjects(s) \subseteq H!ObjectsOf(s, cache[s])
  BY DEF H!FreeObjects
<1>3. IsFiniteSet(H!ObjectsOf(s, cache[s]))
  BY <1>1, ObjectCount
<1>4. IsFiniteSet(H!FreeObjects(s))
  BY <1>2, <1>3, FS_Subset
<1>5. QED
  BY <1>1, <1>2, <1>4, ObjectsAre

\* malloc takes the first free object of the slab.
LEMMA TakeObjectStep ==
    ASSUME MallocInv, op.at = "walk", H!TakeObject(op.slab),
           UNCHANGED <<trees, result, failed, page_table, th, blocks>>
    PROVE  MallocInv'
<1>s. PICK s : s = op.slab
  OBVIOUS
<1> DEFINE o == objects[s]
           Q == H!FreeObjects(s)
<1>0. /\ LargeInv /\ SlabTypes /\ Walks /\ Objects
      /\ o # NULL
      /\ objects' = [objects EXCEPT ![s] = word[o]]
      /\ obj_am' = [obj_am EXCEPT ![s] = obj_am[s] - 1]
      /\ word' = [word EXCEPT ![o] = Block]
      /\ lent' = lent \cup {o}
      /\ op' = H!Idle
      /\ UNCHANGED <<available, cache, slabs, other_slabs>>
  <2>1. LargeInv /\ SlabTypes /\ Walks /\ Objects
    BY DEF MallocInv, SlabInv
  <2>2. s \in Frames
    BY <1>s, <2>1, WalkIsAt
  <2>3. QED
    BY <1>s, <2>1, <2>2 DEF H!TakeObject, SlabTypes
<1>1. /\ s \in Frames /\ cache[s] # 0 /\ OneList(o, Q, word)
      /\ obj_am[s] = Cardinality(Q) /\ obj_am[s] \in Int
      /\ \A c \in Caches : SlabList(c)
  BY <1>s, <1>0, WalkIsAt DEF SlabTypes
<1>2. LargeInv'
  BY <1>0, SmallKeepsFrames
<1>3. /\ cache[s] \in Caches /\ Q \subseteq H!ObjectsOf(s, cache[s]) /\ IsFiniteSet(Q)
      /\ \A x \in H!ObjectsOf(s, cache[s]) : x[1] = s /\ x # NULL /\ x \in H!AllObjects
  BY <1>0, <1>1, FreeObjectsAre
<1> HIDE DEF o, Q
<1>4. /\ o \in Q /\ o \in H!AllObjects /\ o[1] = s /\ o \in H!ObjectsOf(s, cache[s])
      /\ word[o] \in H!AllObjects \cup {NULL} /\ NULL \notin Q
  BY <1>0, <1>1, <1>3 DEF OneList
<1>5. H!ObjectsOf(s, cache[s]) \ lent' = Q \ {o}
  BY <1>0 DEF Q, H!FreeObjects
<1>6. OneList(word[o], Q \ {o}, word')
  <2>1. \A x \in Q \ {o} : word'[x] = word[x]
    BY <1>0, <1>3 DEF SlabTypes
  <2>2. QED
    BY <1>0, <1>1, <1>4, <2>1, ListPop
<1>7. obj_am[s] - 1 = Cardinality(Q \ {o})
  BY <1>1, <1>3, <1>4, FS_RemoveElement
<1>8. /\ Objects'
      /\ objects' \in [Frames -> H!AllObjects \cup {NULL}]
      /\ obj_am' \in [Frames -> Int]
      /\ word' \in [H!AllObjects -> H!AllObjects \cup {NULL, Block}]
      /\ lent' \subseteq H!AllObjects
  <2> DEFINE k == obj_am[s] - 1
             h == word[o]
  <2>1. k \in Int
    BY <1>1, SMT
  <2> HIDE DEF k, h
  <2>2. /\ objects' = [objects EXCEPT ![s] = h] /\ obj_am' = [obj_am EXCEPT ![s] = k]
        /\ h \in H!AllObjects \cup {NULL}
        /\ OneList(h, H!ObjectsOf(s, cache[s]) \ lent', word')
        /\ k = Cardinality(H!ObjectsOf(s, cache[s]) \ lent')
    BY <1>0, <1>4, <1>5, <1>6, <1>7 DEF k, h
  <2>3. /\ SlabTypes /\ Objects /\ s \in Frames /\ cache[s] # 0
        /\ o \in H!AllObjects /\ o[1] = s /\ o \in H!ObjectsOf(s, cache[s])
        /\ UNCHANGED <<cache, other_slabs>> /\ word' = [word EXCEPT ![o] = Block]
        /\ (lent' = lent \cup {o} \/ lent' = lent \ {o})
        /\ Block \in H!AllObjects \cup {NULL, Block}
    BY <1>0, <1>1, <1>4
  <2>4. QED
    BY <2>1, <2>2, <2>3, OneSlabStep
<1>9. op'.at = "idle" /\ op' \in [at : {"setup", "idle", "walk", "no_mem", "out_of_memory"},
                                  cache : Caches \cup {0}, slab : Frames \cup {NULL}]
  BY <1>0 DEF H!Idle
<1>10. SlabTypes'
  BY <1>0, <1>8, <1>9 DEF SlabTypes
<1>11. Walks'
  BY <1>0, <1>1, <1>9 DEF Walks, SlabList, H!Slabs
<1>12. QED
  BY <1>2, <1>8, <1>10, <1>11 DEF MallocInv, SlabInv
\* Nothing but op changes: the walk goes on, or the kernel panics.
LEMMA OpStep ==
    ASSUME MallocInv, UNCHANGED <<trees, result, failed, page_table, th, blocks>>,
           UNCHANGED <<available, cache, slabs, other_slabs, objects, obj_am, word, lent>>,
           op.at # "setup", op'.at # "setup",
           op' \in [at : {"setup", "idle", "walk", "no_mem", "out_of_memory"},
                    cache : Caches \cup {0}, slab : Frames \cup {NULL}],
           op'.at = "walk" => op'.cache \in Caches /\ op'.slab \in H!Slabs(op'.cache)
    PROVE  MallocInv'
<1>0. LargeInv /\ SlabTypes /\ Walks /\ Objects
  BY DEF MallocInv, SlabInv
<1>1. LargeInv'
  BY <1>0, SmallKeepsFrames
<1>2. Objects' /\ SlabTypes'
  BY <1>0 DEF Objects, H!FreeObjects, SlabTypes
<1>3. \A c \in Caches : SlabList(c)' /\ H!Slabs(c)' = H!Slabs(c)
  BY <1>0 DEF SlabList, H!Slabs, Walks
<1>4. op'.at = "walk" => op'.cache \in Caches /\ op'.slab \in H!Slabs(op.cache)'
  BY DEF H!Slabs
<1>5. Walks'
  BY <1>3, <1>4 DEF Walks
<1>6. QED
  BY <1>1, <1>2, <1>5 DEF MallocInv, SlabInv

\* The walk goes on to the next slab of the cache.
LEMMA WalkOnStep ==
    ASSUME MallocInv, op.at = "walk", H!WalkOn(op.slab),
           UNCHANGED <<trees, result, failed, page_table, th, blocks>>
    PROVE  MallocInv'
<1> DEFINE n == other_slabs[op.slab]
<1>0. /\ SlabTypes /\ Walks /\ Objects /\ n # NULL /\ op' = [op EXCEPT !.slab = n]
      /\ UNCHANGED <<available, cache, slabs, other_slabs, objects, obj_am, word, lent>>
  BY DEF MallocInv, SlabInv, H!WalkOn
<1>1. n \in H!Slabs(op.cache) /\ op.cache \in Caches /\ n \in Frames
  <2>1. /\ op.cache \in Caches /\ op.slab \in H!Slabs(op.cache)
        /\ OneList(slabs[op.cache], H!Slabs(op.cache), other_slabs)
    BY <1>0, WalkIsAt DEF SlabList
  <2>2. n \in H!Slabs(op.cache)
    BY <1>0, <2>1 DEF OneList
  <2>3. QED
    BY <2>1, <2>2 DEF H!Slabs
<1> HIDE DEF n
<1>2. /\ op'.at = "walk" /\ op'.cache = op.cache /\ op'.slab = n
      /\ op' \in [at : {"setup", "idle", "walk", "no_mem", "out_of_memory"},
                  cache : Caches \cup {0}, slab : Frames \cup {NULL}]
  BY <1>0, <1>1 DEF SlabTypes
<1>3. QED
  BY <1>0, <1>1, <1>2, OpStep

\* The last slab of the cache is full.
LEMMA AddSlabStep ==
    ASSUME MallocInv, op.at = "walk", H!AddSlab(op.slab),
           UNCHANGED <<trees, result, failed, page_table, th, blocks>>
    PROVE  MallocInv'
<1>s. PICK s, c : s = op.slab /\ c = op.cache
  OBVIOUS
<1>0. /\ LargeInv /\ SlabTypes /\ Walks /\ Objects
      /\ other_slabs[s] = NULL
  BY <1>s DEF MallocInv, SlabInv, H!AddSlab
<1>1. /\ c \in Caches /\ s \in Frames /\ cache[s] = c /\ c # 0 /\ s \in H!Slabs(c)
      /\ \A d \in Caches : SlabList(d)
  BY <1>s, <1>0, WalkIsAt
<1>2. CASE available = {}
  <2>1. /\ op' = [op EXCEPT !.at = "out_of_memory"]
        /\ UNCHANGED <<available, cache, slabs, other_slabs, objects, obj_am, word, lent>>
    BY <1>2 DEF H!AddSlab, H!Panic
  <2>2. /\ op'.at = "out_of_memory"
        /\ op' \in [at : {"setup", "idle", "walk", "no_mem", "out_of_memory"},
                    cache : Caches \cup {0}, slab : Frames \cup {NULL}]
    BY <1>0, <2>1 DEF SlabTypes
  <2>3. QED
    BY <2>1, <2>2, OpStep
<1>3. CASE available # {}
  <2>1. PICK p \in available :
            /\ H!NewSlab(p, c)
            /\ other_slabs' = [other_slabs EXCEPT ![s] = p]
            /\ op' = [op EXCEPT !.slab = p]
            /\ UNCHANGED <<slabs, lent>>
    BY <1>s, <1>3, Zenon DEF H!AddSlab
  <2>2. p \in Frames /\ cache[p] = 0 /\ p # NULL /\ p # s
    BY <1>0, <1>1, HeapAssumption DEF LargeInv, LargeTypes, Places
  <2>3. available' = available \ {p} /\ cache' = [cache EXCEPT ![p] = c]
    BY <2>1, Zenon DEF H!NewSlab
  <2>4. LargeInv'
    BY <1>0, <1>1, <2>3, SmallTakesFrame
  <2>5. /\ other_slabs' \in [Frames -> Frames \cup {NULL}] /\ other_slabs'[s] = p
        /\ \A q \in Frames : q # s => other_slabs'[q] = other_slabs[q]
    BY <1>0, <1>1, <2>1, <2>2 DEF SlabTypes
  <2>6. /\ Objects'
        /\ cache' \in [Frames -> Caches \cup {0}]
        /\ objects' \in [Frames -> H!AllObjects \cup {NULL}]
        /\ obj_am' \in [Frames -> Int]
        /\ word' \in [H!AllObjects -> H!AllObjects \cup {NULL, Block}]
        /\ H!Slabs(c)' = H!Slabs(c) \cup {p} /\ p \notin H!Slabs(c)
        /\ \A d \in Caches : d # c => H!Slabs(d)' = H!Slabs(d)
    BY <1>0, <1>1, <2>1, <2>2, <2>5, NewSlabStep, SMT
  <2>7. /\ op'.at = "walk" /\ op'.cache = c /\ op'.slab = p
        /\ op' \in [at : {"setup", "idle", "walk", "no_mem", "out_of_memory"},
                    cache : Caches \cup {0}, slab : Frames \cup {NULL}]
    BY <1>s, <1>0, <1>1, <2>1, <2>2 DEF SlabTypes
  <2>8. SlabTypes'
    BY <1>0, <2>1, <2>5, <2>6, <2>7 DEF SlabTypes
  <2>9. SlabList(c)'
    <3>1. /\ OneList(slabs[c], H!Slabs(c), other_slabs) /\ NULL \notin H!Slabs(c)
          /\ H!Slabs(c) \subseteq Frames
      BY <1>0, <1>1, SlabsAre DEF SlabList
    <3>2. other_slabs'[p] = NULL
      BY <1>0, <2>2, <2>5 DEF Objects
    <3>3. \A q \in H!Slabs(c) \ {s} : other_slabs'[q] = other_slabs[q]
      BY <2>5, <3>1
    <3>4. OneList(slabs[c], H!Slabs(c) \cup {p}, other_slabs')
      BY <1>0, <1>1, <2>2, <2>5, <2>6, <3>1, <3>2, <3>3, ListAppend, SMT
    <3>5. QED
      BY <1>1, <2>1, <2>6, <3>4 DEF SlabList
  <2>10. ASSUME NEW d \in Caches, d # c PROVE SlabList(d)'
    <3>1. OneList(slabs[d], H!Slabs(d), other_slabs) /\ s \notin H!Slabs(d)
          /\ H!Slabs(d) \subseteq Frames
      BY <1>0, <1>1, <2>10, SlabsAre DEF SlabList, H!Slabs
    <3>2. \A q \in H!Slabs(d) : other_slabs'[q] = other_slabs[q]
      BY <2>5, <3>1
    <3>3. OneList(slabs[d], H!Slabs(d), other_slabs')
      BY <3>1, <3>2, ListFrame
    <3>4. QED
      BY <1>1, <2>1, <2>6, <2>10, <3>3 DEF SlabList
  <2>11. Walks'
    <3>1. op'.slab \in H!Slabs(op.cache)'
      <4>1. H!Slabs(op.cache)' = H!Slabs(c)'
        BY <2>7 DEF H!Slabs
      <4>2. QED
        BY <2>6, <2>7, <4>1
    <3>2. QED
      BY <1>1, <2>7, <2>9, <2>10, <3>1 DEF Walks
  <2>12. QED
    BY <2>4, <2>6, <2>8, <2>11 DEF MallocInv, SlabInv
<1>4. QED
  BY <1>2, <1>3

\* free puts the object back on the list of its slab.
LEMMA FreeSmallStep ==
    ASSUME MallocInv, NEW o \in lent, H!Free(o),
           UNCHANGED <<trees, result, failed, page_table, th, blocks>>
    PROVE  MallocInv'
<1> DEFINE s == o[1]
           h == objects[s]
           k == obj_am[s] + 1
           Q == H!FreeObjects(s)
<1>0. /\ LargeInv /\ SlabTypes /\ Walks /\ Objects /\ op.at = "idle"
      /\ UNCHANGED <<available, cache, slabs, other_slabs, op>>
      /\ lent' = lent \ {o} /\ word' = [word EXCEPT ![o] = h]
      /\ objects' = [objects EXCEPT ![s] = o]
  BY DEF MallocInv, SlabInv, H!Free
<1>1. /\ s \in Frames /\ cache[s] # 0 /\ o \in H!AllObjects
      /\ o \in H!ObjectsOf(s, cache[s])
      /\ OneList(h, Q, word) /\ obj_am[s] = Cardinality(Q)
      /\ h \in H!AllObjects \cup {NULL} /\ obj_am[s] \in Int
  BY <1>0 DEF SlabTypes, Objects, H!AllObjects
<1>2. obj_am' = [obj_am EXCEPT ![s] = k] /\ k \in Int
  BY <1>0, <1>1, SMT DEF H!Free, SlabTypes
<1>3. LargeInv'
  BY <1>0, SmallKeepsFrames
<1>4. /\ Q \subseteq H!ObjectsOf(s, cache[s]) /\ IsFiniteSet(Q) /\ o # NULL
      /\ \A x \in H!ObjectsOf(s, cache[s]) : x \in H!AllObjects
  BY <1>0, <1>1, FreeObjectsAre
<1>5. H!ObjectsOf(s, cache[s]) \ lent' = Q \cup {o} /\ o \notin Q
  BY <1>0, <1>1 DEF H!FreeObjects
<1> HIDE DEF h, k, Q
<1>6. OneList(o, Q \cup {o}, word')
  <2>1. word'[o] = h /\ \A x \in Q : word'[x] = word[x]
    BY <1>0, <1>1, <1>4, <1>5 DEF SlabTypes
  <2>2. QED
    BY <1>1, <1>4, <1>5, <2>1, ListPush
<1>7. k = Cardinality(Q \cup {o})
  BY <1>1, <1>4, <1>5, FS_AddElement DEF k
<1>8. /\ Objects'
      /\ objects' \in [Frames -> H!AllObjects \cup {NULL}]
      /\ obj_am' \in [Frames -> Int]
      /\ word' \in [H!AllObjects -> H!AllObjects \cup {NULL, Block}]
      /\ lent' \subseteq H!AllObjects
  <2>1. /\ SlabTypes /\ Objects /\ s \in Frames /\ cache[s] # 0
        /\ o \in H!AllObjects \cup {NULL} /\ k \in Int
        /\ o \in H!AllObjects /\ o[1] = s /\ o \in H!ObjectsOf(s, cache[s])
        /\ UNCHANGED <<cache, other_slabs>> /\ word' = [word EXCEPT ![o] = h]
        /\ (lent' = lent \cup {o} \/ lent' = lent \ {o})
        /\ h \in H!AllObjects \cup {NULL, Block}
    BY <1>0, <1>1, <1>2
  <2>2. /\ objects' = [objects EXCEPT ![s] = o] /\ obj_am' = [obj_am EXCEPT ![s] = k]
        /\ OneList(o, H!ObjectsOf(s, cache[s]) \ lent', word')
        /\ k = Cardinality(H!ObjectsOf(s, cache[s]) \ lent')
    BY <1>0, <1>2, <1>5, <1>6, <1>7
  <2> HIDE DEF s
  <2>3. QED
    BY <2>1, <2>2, OneSlabStep
<1>9. SlabTypes'
  BY <1>0, <1>8 DEF SlabTypes
<1>10. Walks'
  BY <1>0 DEF Walks, SlabList, H!Slabs
<1>11. QED
  BY <1>3, <1>8, <1>9, <1>10 DEF MallocInv, SlabInv
-----------------------------------------------------------------------------
(* Both together *)

\* The slabs do not see what the large blocks do.
LEMMA SlabsKept ==
    ASSUME SlabInv,
           UNCHANGED <<cache, slabs, other_slabs, objects, obj_am, word, op, lent>>
    PROVE  SlabInv'
<1>1. SlabTypes'
  BY DEF SlabInv, SlabTypes
<1>2. Walks'
  <2>1. \A c : (SlabList(c)' <=> SlabList(c)) /\ H!Slabs(c)' = H!Slabs(c)
    BY DEF SlabList, H!Slabs
  <2>2. H!Slabs(op.cache)' = H!Slabs(op.cache)
    BY DEF H!Slabs
  <2>3. QED
    BY <2>1, <2>2 DEF SlabInv, Walks
<1>3. Objects'
  <2>1. \A p : H!FreeObjects(p)' = H!FreeObjects(p)
    BY DEF H!FreeObjects
  <2>2. QED
    BY <2>1 DEF SlabInv, Objects
<1>4. QED
  BY <1>1, <1>2, <1>3 DEF SlabInv

\* Every step of a thread that is at a large block.
LEMMA LargeStep ==
    ASSUME MallocInv, LargeNext, UNCHANGED slabVars
    PROVE  /\ MallocInv'
           /\ \/ Effect(Covered(used_ranges), Covered(used_ranges)')
              \/ UNCHANGED <<used_ranges, result>>
<1>0. LargeInv /\ SlabInv /\ UNCHANGED cache
      /\ UNCHANGED <<slabs, other_slabs, objects, obj_am, word, op, lent>>
  BY DEF MallocInv, slabVars
<1>1. SlabInv'
  BY <1>0, SlabsKept
<1>2. SUFFICES /\ LargeInv'
               /\ \/ Effect(Covered(used_ranges), Covered(used_ranges)')
                  \/ UNCHANGED <<used_ranges, result>>
  BY <1>1 DEF MallocInv
<1>3. PICK t \in Threads :
        \/ \E n \in 1..MaxSize : MallocReserve(t, n)
        \/ MallocAllocatePage(t) \/ MallocMapPage(t)
        \/ \E b \in blocks : Free(t, b)
        \/ FreeGetPhys(t) \/ FreeUnmapPage(t) \/ FreeFreePage(t) \/ FreeVfree(t)
  BY DEF LargeNext
<1>4. CASE \E n \in 1..MaxSize : MallocReserve(t, n)
  BY <1>0, <1>4, MallocReserveStep
<1>5. CASE MallocAllocatePage(t)
  <2>1. UNCHANGED <<used_ranges, result>>
    BY <1>5 DEF MallocAllocatePage, trees
  <2>2. QED
    BY <1>0, <1>5, <2>1, MallocAllocatePageStep
<1>6. CASE MallocMapPage(t)
  <2>1. UNCHANGED <<used_ranges, result>>
    BY <1>6 DEF MallocMapPage, trees
  <2>2. QED
    BY <1>0, <1>6, <2>1, MallocMapPageStep
<1>7. CASE \E b \in blocks : Free(t, b)
  <2>1. PICK b \in blocks : Free(t, b)
    BY <1>7
  <2>2. UNCHANGED <<used_ranges, result>>
    BY <2>1 DEF Free, trees
  <2>3. QED
    BY <1>0, <2>1, <2>2, FreeStep
<1>8. CASE FreeGetPhys(t)
  <2>1. UNCHANGED <<used_ranges, result>>
    BY <1>8 DEF FreeGetPhys, trees
  <2>2. QED
    BY <1>0, <1>8, <2>1, FreeGetPhysStep
<1>9. CASE FreeUnmapPage(t)
  <2>1. UNCHANGED <<used_ranges, result>>
    BY <1>9 DEF FreeUnmapPage, trees
  <2>2. QED
    BY <1>0, <1>9, <2>1, FreeUnmapPageStep
<1>10. CASE FreeFreePage(t)
  <2>1. UNCHANGED <<used_ranges, result>>
    BY <1>10 DEF FreeFreePage, trees
  <2>2. QED
    BY <1>0, <1>10, <2>1, FreeFreePageStep
<1>11. CASE FreeVfree(t)
  BY <1>0, <1>11, FreeVfreeStep
<1>12. QED
  BY <1>3, <1>4, <1>5, <1>6, <1>7, <1>8, <1>9, <1>10, <1>11

\* Every step of the slab allocator.
LEMMA SmallStep ==
    ASSUME MallocInv, H!Next, UNCHANGED <<trees, result, failed, page_table, th, blocks>>
    PROVE  MallocInv'
<1>1. CASE H!SetupHeap
  BY <1>1, SetupHeapStep
<1>2. CASE \E size \in Requests : H!Malloc(size)
  BY <1>2, MallocSmallStep
<1>3. CASE H!AllocateWithSlab
  <2>1. op.at = "walk"
    BY <1>3 DEF H!AllocateWithSlab
  <2>2. CASE H!TakeObject(op.slab)
    BY <2>1, <2>2, TakeObjectStep
  <2>3. CASE H!WalkOn(op.slab)
    BY <2>1, <2>3, WalkOnStep
  <2>4. CASE H!AddSlab(op.slab)
    BY <2>1, <2>4, AddSlabStep
  <2>5. QED
    BY <1>3, <2>2, <2>3, <2>4 DEF H!AllocateWithSlab
<1>4. CASE \E o \in lent : H!Free(o)
  BY <1>4, FreeSmallStep
<1>5. QED
  BY <1>1, <1>2, <1>3, <1>4 DEF H!Next

\* Both allocators before setup_heap.
LEMMA MallocStarts == MallocInit => MallocInv
<1> SUFFICES ASSUME MallocInit PROVE MallocInv
  OBVIOUS
<1>0. /\ Init /\ available = Frames /\ failed = FALSE
      /\ page_table = [v \in Space |-> NULL]
      /\ th = [t \in Threads |-> Idle] /\ blocks = {}
  BY DEF MallocInit, LargeInit, PA!Init
<1>1. /\ cache = [p \in Frames |-> 0] /\ slabs = [c \in H!Caches |-> NULL]
      /\ other_slabs = [p \in Frames |-> NULL] /\ objects = [p \in Frames |-> NULL]
      /\ obj_am = [p \in Frames |-> 0] /\ word = [o \in H!AllObjects |-> NULL]
      /\ op = [at |-> "setup", cache |-> 1, slab |-> NULL] /\ lent = {}
  BY DEF MallocInit, H!Init
<1>2. IInv
  BY <1>0, InitTiles
<1>3. Idle \in Records /\ Idle.at = "idle"
  BY VmaAssumption, SMT DEF Idle, Records
<1>4. LargeTypes
  BY <1>0, <1>2, <1>3 DEF LargeTypes
<1>5. \A t \in Threads : ~Busy(t) /\ \A f : ~Carries(t, f)
  BY <1>0, <1>3 DEF Busy, Carries
<1>6. Owned /\ Progress /\ Backed
  BY <1>0, <1>5 DEF Owned, Progress, Backed
<1>7. Places
  <2>1. \A f \in Frames : ~IsMappedTo(f) /\ cache[f] = 0
    BY <1>0, <1>1, HeapAssumption DEF IsMappedTo
  <2>2. \A t \in Threads : th[t].at = "idle"
    BY <1>0, <1>3
  <2>3. QED
    BY <1>0, <1>5, <2>1, <2>2 DEF Places
<1>8. SlabTypes
  BY <1>1, CapacityIs, SMT DEF SlabTypes, Caches
<1>9. Walks
  <2>1. op.at = "setup" /\ op.cache = 1 /\ 1 \in Caches
    BY <1>1, CapacityIs
  <2>2. \A c \in Caches : ~(c < 1) /\ H!Slabs(c) = {}
    BY <1>1, HeapAssumption, SMT DEF H!Slabs, Caches, H!Caches
  <2>3. QED
    BY <2>1, <2>2 DEF Walks
<1>10. Objects
  BY <1>1 DEF Objects
<1>11. QED
  BY <1>4, <1>6, <1>7, <1>8, <1>9, <1>10 DEF MallocInv, LargeInv, SlabInv

\* malloc and free preserve the invariant, and do to the address space what
\* AddressSpace allows.
LEMMA MallocStep ==
    ASSUME MallocInv, [MallocNext]_mallocVars
    PROVE  /\ MallocInv'
           /\ \/ Effect(Covered(used_ranges), Covered(used_ranges)')
              \/ UNCHANGED <<used_ranges, result>>
<1>1. CASE Small
  <2>1. UNCHANGED <<used_ranges, result>>
    BY <1>1 DEF Small, trees
  <2>2. QED
    BY <1>1, <2>1, SmallStep DEF Small
<1>2. CASE Large
  BY <1>2, LargeStep DEF Large
<1>3. CASE UNCHANGED mallocVars
  <2>1. /\ UNCHANGED <<trees, result, failed, page_table, th, blocks, available, cache>>
        /\ UNCHANGED <<used_ranges, result>>
        /\ UNCHANGED <<slabs, other_slabs, objects, obj_am, word, op, lent>>
    BY <1>3 DEF mallocVars, largeVars, slabVars, trees
  <2>2. LargeInv'
    BY <2>1, SmallKeepsFrames DEF MallocInv
  <2>3. SlabInv'
    BY <2>1, SlabsKept DEF MallocInv
  <2>4. QED
    BY <2>1, <2>2, <2>3 DEF MallocInv
<1>4. QED
  BY <1>1, <1>2, <1>3 DEF MallocNext, Halted

-----------------------------------------------------------------------------
(* Theorems *)

\* The inductive invariant of malloc and free.
THEOREM MallocInvariant == MallocSpec => []MallocInv
<1>1. MallocInv /\ [MallocNext]_mallocVars => MallocInv'
  BY MallocStep
<1>2. QED
  BY <1>1, MallocStarts, PTL DEF MallocSpec

\* Every slab is on its cache's list, every slab's list runs through exactly its
\* unused objects, and obj_am counts them: malloc never hands an object out
\* twice and free never loses one.
THEOREM SlabsIntact == MallocSpec => []SlabsAreIntact
<1>1. MallocInv => SlabsAreIntact
  <2> SUFFICES ASSUME MallocInv PROVE SlabsAreIntact
    OBVIOUS
  <2>0. SlabTypes /\ Walks /\ Objects
    BY DEF MallocInv, SlabInv
  <2>1. ASSUME NEW c \in H!Caches
        PROVE  /\ op.at # "setup" => H!OneList(slabs[c], H!Slabs(c), other_slabs)
               /\ \A p \in H!Slabs(c) :
                    /\ H!OneList(objects[p], H!FreeObjects(p), word)
                    /\ obj_am[p] = Cardinality(H!FreeObjects(p))
    <3>0. c \in Caches
      BY DEF Caches
    <3>1. \A h, Q, f : OneList(h, Q, f) <=> H!OneList(h, Q, f)
      BY Zenon DEF OneList, H!OneList
    <3>2. op.at # "setup" => OneList(slabs[c], H!Slabs(c), other_slabs)
      BY <2>0, <3>0 DEF Walks, SlabList
    <3>3. \A p \in H!Slabs(c) : p \in Frames /\ cache[p] # 0
      BY <2>0, <3>0, SlabsAre DEF H!Slabs
    <3>4. QED
      BY <2>0, <3>1, <3>2, <3>3 DEF Objects
  <2>2. QED
    <3>1. \A S : H!Cardinality(S) = Cardinality(S)
      BY Zenon DEF H!Cardinality, Cardinality
    <3>2. QED
      BY <2>1, <3>1, Zenon DEF SlabsAreIntact, H!SlabsAreIntact
<1>2. QED
  BY <1>1, MallocInvariant, PTL

\* The pages of a caller's block are mapped, each to a frame of its own, whatever
\* the other threads are in the middle of; only reserved addresses are mapped.
THEOREM BlocksBackedAlways == MallocSpec => []BlocksAreBacked
<1>1. MallocInv => BlocksAreBacked
  <2> SUFFICES ASSUME MallocInv PROVE BlocksAreBacked
    OBVIOUS
  <2>0. LargeTypes /\ Owned /\ Places /\ Backed /\ IInv
    BY DEF MallocInv, LargeInv, LargeTypes
  <2>1. Mapped \subseteq UNION {Pages(r) : r \in used_ranges}
    BY <2>0 DEF Mapped, Backed, Covered
  <2>2. ASSUME NEW b \in blocks PROVE Pages(PageRange(b.block, b.size)) \subseteq Mapped
    <3>1. b.block \in Nat /\ b.size \in Nat /\ PageRange(b.block, b.size) \in used_ranges
      BY <2>0, VmaAssumption, SMT DEF LargeTypes, Owned
    <3>2. Pages(PageRange(b.block, b.size)) = Run(b.block, b.size)
      BY <3>1, RunPages, SMT
    <3>3. Run(b.block, b.size) \subseteq Space
      BY <2>0, <3>1, UsedRun
    <3>4. QED
      BY <2>0, <3>2, <3>3 DEF Backed, Mapped
  <2>3. \A v, w \in Mapped : page_table[v] = page_table[w] => v = w
    BY <2>0 DEF Mapped, Places
  <2>4. QED
    BY <2>1, <2>2, <2>3 DEF BlocksAreBacked
<1>2. QED
  BY <1>1, MallocInvariant, PTL

\* Every frame is in one place: available, a slab, mapped, or in the hands of one
\* thread that is about to map or to free it.
THEOREM FramesAccounted == MallocSpec => []FramesAreAccounted
<1>1. MallocInv => FramesAreAccounted
  <2> SUFFICES ASSUME MallocInv PROVE FramesAreAccounted
    OBVIOUS
  <2>0. LargeTypes /\ Places /\ SlabTypes
    BY DEF MallocInv, LargeInv, SlabInv
  <2> DEFINE mapped == {page_table[v] : v \in Mapped}
             slab   == {f \in Frames : cache[f] # 0}
  <2>1. \A f : f \in mapped <=> f \in Frames /\ IsMappedTo(f)
    BY <2>0, HeapAssumption DEF Mapped, IsMappedTo, LargeTypes
  <2>2. \A f : f \in InTransit <=> f \in Frames /\ \E t \in Threads : Carries(t, f)
    <3>1. \A t \in Threads : th[t].at \in {"map", "free_page"} => th[t].phys \in Frames
      BY <2>0, RecordIs DEF Places
    <3>2. QED
      BY <3>1 DEF InTransit, Carries
  <2>3. available \subseteq Frames
    BY <2>0 DEF LargeTypes
  <2> HIDE DEF mapped
  <2>4. /\ available \cup slab \cup mapped \cup InTransit = Frames
        /\ available \cap (slab \cup mapped \cup InTransit) = {}
        /\ slab \cap (mapped \cup InTransit) = {} /\ mapped \cap InTransit = {}
    BY <2>0, <2>1, <2>2, <2>3 DEF Places
  <2>5. QED
    BY <2>4 DEF FramesAreAccounted, mapped
<1>2. QED
  BY <1>1, MallocInvariant, PTL

\* malloc and free of all threads, however they interleave, leave an address
\* space that AddressSpace allows.
THEOREM MallocRefinement == MallocSpec => ImplementsAddressSpace
<1> DEFINE res == UNION {Pages(r) : r \in used_ranges}
<1>1. MallocInit => Abstract!Init
  BY DEF MallocInit, LargeInit, Init, Abstract!Init
<1>2. MallocInv /\ [MallocNext]_mallocVars => [Abstract!Next]_<<res, result>>
  <2> SUFFICES ASSUME MallocInv, [MallocNext]_mallocVars
               PROVE  UNCHANGED <<res, result>> \/ Abstract!Next
    OBVIOUS
  <2>1. Effect(res, res') \/ UNCHANGED <<used_ranges, result>>
    BY MallocStep DEF Covered
  <2>2. CASE UNCHANGED <<used_ranges, result>>
    BY <2>2
  <2>3. CASE Effect(res, res')
    BY <2>3 DEF Effect, Run, Abstract!Next, Abstract!Refuse, Abstract!Reserve,
                Abstract!ReserveAt, Abstract!Release, Abstract!Run
  <2>4. QED
    BY <2>1, <2>2, <2>3
<1>3. QED
  BY <1>1, <1>2, MallocInvariant, PTL DEF MallocSpec, ImplementsAddressSpace, Abstract!Spec
=============================================================================
