--------------------------------- MODULE Vma ---------------------------------
(***************************************************************************)
(* The virtual memory allocator of one pagemap (memory/vma.c): a tree of   *)
(* free ranges and a tree of used ranges.  Addresses and sizes are counted *)
(* in pages; every call runs under vma_spinlock and is one step.           *)
(*                                                                         *)
(* The trees (obsd-tree.h, external) are sets: RB_FIND returns the range   *)
(* that contains an address, RB_FOREACH goes by address, and RB_INSERT     *)
(* drops a range whose address lies in one that is there.                  *)
(***************************************************************************)
EXTENDS Integers, FiniteSets

CONSTANTS Lo, Hi,    \* the address space is Lo..Hi-1
          MaxSize    \* the longest run asked for

ASSUME VmaAssumption ==
    /\ Lo \in Nat \ {0} /\ Hi \in Nat /\ Lo < Hi
    /\ MaxSize \in Nat \ {0}

VARIABLES free_ranges, used_ranges,
          result     \* what the last call returned

vars == <<free_ranges, used_ranges, result>>

Space      == Lo..(Hi - 1)
Ranges     == [vaddr : Int, size : Int]
PageRange(v, n) == [vaddr |-> v, size |-> n]
Pages(r)   == r.vaddr..(r.vaddr + r.size - 1)

InTree(tree, v)   == \E r \in tree : v \in Pages(r)
Find(tree, v)     == CHOOSE r \in tree : v \in Pages(r)
Insert(tree, r)   == IF InTree(tree, r.vaddr) THEN tree ELSE tree \cup {r}
InsertAll(tree, rs) == tree \cup {r \in rs : ~InTree(tree, r.vaddr)}

-----------------------------------------------------------------------------
\* Mutant: a range that is split is the one returned, after it has moved on.
VallocReturnsRest(n) ==
    LET fits  == {r \in free_ranges : r.size >= n}
        range == CHOOSE r \in fits : \A s \in fits : r.vaddr <= s.vaddr
        rest  == PageRange(range.vaddr + n, range.size - n)
    IN  IF fits = {}
        THEN result' = 0 /\ UNCHANGED <<free_ranges, used_ranges>>
        ELSE /\ free_ranges' = IF range.size = n THEN free_ranges \ {range}
                               ELSE Insert(free_ranges \ {range}, rest)
             /\ used_ranges' = Insert(used_ranges, PageRange(range.vaddr, n))
             /\ result' = IF range.size = n THEN range.vaddr ELSE rest.vaddr

\* valloc(pagemap, size): first fit.
Valloc(n) ==
    LET fits  == {r \in free_ranges : r.size >= n}
        range == CHOOSE r \in fits : \A s \in fits : r.vaddr <= s.vaddr
        rest  == PageRange(range.vaddr + n, range.size - n)
    IN  IF fits = {}
        THEN result' = 0 /\ UNCHANGED <<free_ranges, used_ranges>>
        ELSE /\ free_ranges' = IF range.size = n THEN free_ranges \ {range}
                               ELSE Insert(free_ranges \ {range}, rest)
             /\ used_ranges' = Insert(used_ranges, PageRange(range.vaddr, n))
             /\ result' = range.vaddr

\* What is left of range r, and stays in its tree, when v, ..., v+n-1 leaves
\* it for the other tree: pre_size and post_size, where they are not zero.
Remainder(r, v, n) ==
    LET pre  == v - r.vaddr
        post == r.size - pre - n
    IN  {s \in {PageRange(r.vaddr, pre), PageRange(v + n, post)} : s.size # 0}

\* valloc(pagemap, size, fixed_addr, noreplace)
VallocFixed(v, n, noreplace) ==
    LET inUsed == InTree(used_ranges, v)
        u      == Find(used_ranges, v)
        \* the part behind the used range
        fixed_addr == IF inUsed THEN v + u.size ELSE v
        size       == IF inUsed THEN n - u.size ELSE n
        f          == Find(free_ranges, fixed_addr)
    IN  IF noreplace /\ inUsed
        THEN result' = 0 /\ UNCHANGED <<free_ranges, used_ranges>>
        ELSE IF inUsed /\ u.size >= n
        THEN result' = v /\ UNCHANGED <<free_ranges, used_ranges>>
        ELSE IF ~InTree(free_ranges, fixed_addr)
        THEN result' = 0 /\ UNCHANGED <<free_ranges, used_ranges>>
        ELSE /\ free_ranges' = InsertAll(free_ranges \ {f},
                                         Remainder(f, fixed_addr, size))
             /\ used_ranges' = Insert(used_ranges, PageRange(fixed_addr, size))
             /\ result' = fixed_addr

\* vfree(pagemap, vaddr, size); nothing merges adjoining free ranges.
Vfree(v, n) ==
    LET u == Find(used_ranges, v)
    IN  IF \/ ~InTree(used_ranges, v)
           \/ u.vaddr + u.size < v + n
        THEN result' = 0 /\ UNCHANGED <<free_ranges, used_ranges>>
        ELSE /\ used_ranges' = InsertAll(used_ranges \ {u}, Remainder(u, v, n))
             /\ free_ranges' = Insert(free_ranges, PageRange(v, n))
             /\ result' = IF u.vaddr # v THEN 3 ELSE IF u.size # n THEN 2 ELSE 1

\* How load_elf reserves its segments: inside of what is free, inside of what
\* it reserved before, or on from the beginning of a range it reserved before.
Placeable(v, n) ==
    \/ \E r \in free_ranges \cup used_ranges :
         v \in Pages(r) /\ v + n <= r.vaddr + r.size
    \/ \E u \in used_ranges, f \in free_ranges :
         /\ v = u.vaddr /\ v + u.size = f.vaddr
         /\ v + n <= f.vaddr + f.size

Init ==
    /\ free_ranges = {PageRange(Lo, Hi - Lo)}
    /\ used_ranges = {}
    /\ result = 0

Next ==
    \E n \in 1..MaxSize :
        \/ Valloc(n)
        \/ \E v \in Space, noreplace \in BOOLEAN :
             Placeable(v, n) /\ VallocFixed(v, n, noreplace)
        \/ \E v \in Space : Vfree(v, n)

Spec == Init /\ [][Next]_vars

-----------------------------------------------------------------------------
(* Properties *)

AllRanges == free_ranges \cup used_ranges

\* The ranges of the two trees tile the address space: none is empty, no page
\* is in two of them, none is lost.  So the trees' order by containment is an
\* order, and RB_INSERT drops nothing.
RangesTile ==
    /\ AllRanges \subseteq Ranges /\ result \in Int
    /\ free_ranges \cap used_ranges = {}
    /\ \A r \in AllRanges : r.size > 0 /\ Pages(r) \subseteq Space
    /\ \A r, s \in AllRanges : r # s => Pages(r) \cap Pages(s) = {}
    /\ \A p \in Space : \E r \in AllRanges : p \in Pages(r)

Abstract == INSTANCE AddressSpace WITH
                reserved <- UNION {Pages(r) : r \in used_ranges}

\* The two trees implement AddressSpace: valloc hands out pages that are free,
\* vfree frees exactly what it is asked to or nothing, and a call that returns
\* 0 changes nothing.
ImplementsAddressSpace == Abstract!Spec
=============================================================================
