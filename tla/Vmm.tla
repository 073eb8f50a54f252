--------------------------------- MODULE Vmm ---------------------------------
(***************************************************************************)
(* Page tables (memory/vmm.c): vmm_map_page, vmm_get_phys and              *)
(* vmm_unmap_page walk them one level per step, new_pagemap shares the     *)
(* kernel's half, delete_pagemap frees a process's half.  The first three  *)
(* hold vmm_spinlock, delete_pagemap holds nothing, so that the reaper's   *)
(* deletion interleaves with one of them.                                  *)
(*                                                                         *)
(* A virtual address is the sequence of its table indices.  Frames come    *)
(* from PageAllocator.  Its pages are all alike, so that one of those that *)
(* are available stands for any of them.  The direct map (HHDM), through   *)
(* which the kernel reaches every frame, is in place.                      *)
(***************************************************************************)
EXTENDS Integers, Sequences, Links

CONSTANTS Frames,      \* the pages of the allocator
          Levels,      \* 4, the depth of the tables
          Entries,     \* 512, the entries of a table
          Half,        \* 256, the first top-level index of kernel addresses
          UserAddrs, KernelAddrs,
          Procs,       \* pagemap_t structs of processes
          Fb,          \* the framebuffer's page: no frame of the allocator
          FbAddr       \* 0xA0000000, where sys_fb_map maps it

Junk       == 0                           \* the contents of a page nobody holds
Indices    == 0..Entries - 1
KernelHalf == Half..Entries - 1
KTop       == CHOOSE f \in Frames : TRUE  \* kernel_pagemap.top_level
Halves     == {h \in [KernelHalf -> Frames \ {KTop}] :
                 \A i, j \in KernelHalf : h[i] = h[j] => i = j}

ASSUME VmmAssumption ==
    /\ Levels \in Nat \ {0, 1}
    /\ Entries \in Nat /\ Half \in Indices \ {0}
    /\ Frames # {} /\ Halves # {}
    /\ {NULL, Junk, Fb} \cap Frames = {} /\ NULL # Junk /\ Fb \notin {NULL, Junk}
    /\ NULL \notin Procs /\ "kernel" \notin Procs \cup {NULL}
    /\ \A a \in UserAddrs \cup KernelAddrs :
         a \in Seq(Indices) /\ Len(a) = Levels /\ (a \in KernelAddrs <=> a[1] \in KernelHalf)
    /\ UserAddrs \cap KernelAddrs = {} /\ FbAddr \notin KernelAddrs

VARIABLES
    available, failed,   \* physical memory
    entry,               \* frame -> index -> frame, NULL or Junk
    top,                 \* process -> top_level, or NULL
    op,                  \* the walk under vmm_spinlock
    walk,                \* delete_pagemap: the nested free_levels calls
    victim,              \* whose deletion it is
    mapping              \* history: process or "kernel" -> address -> page

vars == <<available, failed, entry, top, op, walk, victim, mapping>>

PA == INSTANCE PageAllocator

Empty    == [i \in Indices |-> NULL]      \* allocate_page zeroes the page
Garbage  == [i \in Indices |-> Junk]
Off      == [do |-> "off", who |-> NULL, addr |-> <<>>, table |-> NULL, depth |-> 0,
             phys |-> NULL]
Pick     == CHOOSE f \in available : TRUE
TopOf(w) == IF w = "kernel" THEN KTop ELSE top[w]
Live     == {p \in Procs : top[p] # NULL /\ p # victim}

OutOfMemory == PA!Fail /\ UNCHANGED <<entry, top, op, walk, victim, mapping>>

-----------------------------------------------------------------------------
\* Mutant: the kernel's half of the top level is filled when it is needed.
SetupVmmLazily ==
    /\ available = Frames \ {KTop}
    /\ entry = [f \in Frames |-> IF f = KTop THEN Empty ELSE Garbage]

\* setup_vmm gives every index of the kernel's half a table, for good.
SetupVmm ==
    LET half   == CHOOSE h \in Halves : TRUE
        tables == {half[i] : i \in KernelHalf}
    IN  /\ available = Frames \ (tables \cup {KTop})
        /\ entry = [f \in Frames |->
                      IF f = KTop
                      THEN [i \in Indices |-> IF i \in KernelHalf THEN half[i] ELSE NULL]
                      ELSE IF f \in tables THEN Empty ELSE Garbage]

\* new_pagemap: the kernel's top level with the lower half zeroed.
NewPagemap(p) ==
    /\ ~failed /\ op = Off /\ top[p] = NULL
    /\ IF available = {} THEN OutOfMemory
       ELSE /\ PA!Lend(Pick)
            /\ top' = [top EXCEPT ![p] = Pick]
            /\ entry' = [entry EXCEPT ![Pick] =
                           [i \in Indices |-> IF i \in KernelHalf THEN entry[KTop][i] ELSE NULL]]
            /\ UNCHANGED <<op, walk, victim, mapping>>

Begin(do, w, a, phys) ==
    op' = [do |-> do, who |-> w, addr |-> a, table |-> TopOf(w), depth |-> 1,
           phys |-> phys]

\* A caller maps a page from allocate_page, or the framebuffer, where it has
\* mapped nothing yet.
MapPage(w, a) ==
    /\ ~failed /\ op = Off /\ mapping[w][a] = NULL
    /\ CASE a = FbAddr -> Begin("map", w, a, Fb) /\ UNCHANGED <<available, failed>>
         [] a # FbAddr /\ available = {} -> PA!Fail /\ UNCHANGED op
         [] OTHER -> PA!Lend(Pick) /\ Begin("map", w, a, Pick)
    /\ UNCHANGED <<entry, top, walk, victim, mapping>>

\* free looks the page up and unmaps it before it frees it.
UnmapPage(a) ==
    /\ ~failed /\ op = Off /\ mapping["kernel"][a] # NULL
    /\ Begin("get_phys", "kernel", a, NULL)
    /\ UNCHANGED <<available, failed, entry, top, walk, victim, mapping>>

Index == op.addr[op.depth]
Here  == entry[op.table][Index]
Inner == ~failed /\ op # Off /\ op.depth < Levels
Leaf  == ~failed /\ op # Off /\ op.depth = Levels

\* A table that is there.
Descend ==
    /\ Inner /\ Here # NULL
    /\ op' = [op EXCEPT !.table = Here, !.depth = @ + 1]
    /\ UNCHANGED <<available, failed, entry, top, walk, victim, mapping>>

\* vmm_map_page adds the table that is missing.
AddTable ==
    /\ Inner /\ Here = NULL /\ op.do = "map"
    /\ IF available = {} THEN OutOfMemory
       ELSE /\ PA!Lend(Pick)
            /\ entry' = [entry EXCEPT ![Pick] = Empty, ![op.table][Index] = Pick]
            /\ op' = [op EXCEPT !.table = Pick, !.depth = @ + 1]
            /\ UNCHANGED <<top, walk, victim, mapping>>

SetEntry ==
    /\ Leaf /\ op.do = "map"
    /\ entry' = [entry EXCEPT ![op.table][Index] = op.phys]
    /\ mapping' = [mapping EXCEPT ![op.who][op.addr] = op.phys]
    /\ op' = Off
    /\ UNCHANGED <<available, failed, top, walk, victim>>

\* vmm_get_phys has its answer; the caller goes on to vmm_unmap_page.
GetEntry ==
    /\ Leaf /\ op.do = "get_phys"
    /\ Begin("unmap", op.who, op.addr, Here)
    /\ UNCHANGED <<available, failed, entry, top, walk, victim, mapping>>

\* vmm_unmap_page, and the caller's free_page.
ClearEntry ==
    /\ Leaf /\ op.do = "unmap"
    /\ entry' = [entry EXCEPT ![op.table][Index] = NULL, ![op.phys] = Garbage]
    /\ PA!Return(op.phys)
    /\ mapping' = [mapping EXCEPT ![op.who][op.addr] = NULL]
    /\ op' = Off
    /\ UNCHANGED <<top, walk, victim>>

-----------------------------------------------------------------------------
(* delete_pagemap *)

\* free_page ignores what is no RAM.
FreePage(f) ==
    IF f \in Frames
    THEN PA!Return(f) /\ entry' = [entry EXCEPT ![f] = Garbage]
    ELSE UNCHANGED <<available, failed, entry>>

\* The reaper deletes a process that has left for good.
DeletePagemap(p) ==
    /\ ~failed /\ victim = NULL /\ top[p] # NULL /\ op.who # p
    /\ victim' = p
    /\ walk' = <<[table |-> top[p], i |-> 0]>>
    /\ mapping' = [mapping EXCEPT ![p] = [a \in DOMAIN @ |-> NULL]]
    /\ UNCHANGED <<available, failed, entry, top, op>>

W     == walk[Len(walk)]
E     == entry[W.table][W.i]
Ended == IF Len(walk) = 1 THEN W.i \in KernelHalf ELSE W.i \notin Indices
NextEntry == [walk EXCEPT ![Len(walk)].i = @ + 1]

Visit == ~failed /\ walk # <<>> /\ ~Ended

\* Mutant: the table is freed before what it refers to.
FreeLevelsTableFirst ==
    /\ Visit /\ E # NULL /\ Len(walk) < Levels
    /\ FreePage(E)
    /\ walk' = Append(walk, [table |-> E, i |-> 0])
    /\ UNCHANGED <<top, op, victim, mapping>>

\* free_levels: an entry that is a table.
FreeLevelsTable ==
    /\ Visit /\ E # NULL /\ Len(walk) < Levels
    /\ walk' = Append(walk, [table |-> E, i |-> 0])
    /\ UNCHANGED <<available, failed, entry, top, op, victim, mapping>>

\* free_levels: an absent entry, or a page of the process.
FreeLevelsPage ==
    /\ Visit /\ (E = NULL \/ Len(walk) = Levels)
    /\ walk' = NextEntry
    /\ IF E = NULL THEN UNCHANGED <<available, failed, entry>> ELSE FreePage(E)
    /\ UNCHANGED <<top, op, victim, mapping>>

\* Mutant: only the pages are freed.
FreeLevelsReturnLeaks ==
    /\ ~failed /\ Len(walk) > 1 /\ Ended
    /\ walk' = [SubSeq(walk, 1, Len(walk) - 1) EXCEPT ![Len(walk) - 1].i = @ + 1]
    /\ UNCHANGED <<available, failed, entry, top, op, victim, mapping>>

\* The nested call returns and its caller frees the table it was for.
FreeLevelsReturn ==
    /\ ~failed /\ Len(walk) > 1 /\ Ended
    /\ FreePage(W.table)
    /\ walk' = [SubSeq(walk, 1, Len(walk) - 1) EXCEPT ![Len(walk) - 1].i = @ + 1]
    /\ UNCHANGED <<top, op, victim, mapping>>

DeleteTop ==
    /\ ~failed /\ Len(walk) = 1 /\ Ended
    /\ FreePage(W.table)
    /\ walk' = <<>>
    /\ victim' = NULL
    /\ top' = [top EXCEPT ![victim] = NULL]
    /\ UNCHANGED <<op, mapping>>

Halted == failed /\ UNCHANGED vars

Init ==
    /\ SetupVmm
    /\ failed = FALSE
    /\ top = [p \in Procs |-> NULL]
    /\ op = Off /\ walk = <<>> /\ victim = NULL
    /\ mapping = [w \in Procs \cup {"kernel"} |->
                    [a \in IF w = "kernel" THEN KernelAddrs ELSE UserAddrs |-> NULL]]

Next ==
    \/ \E p \in Procs : NewPagemap(p) \/ DeletePagemap(p)
    \/ \E p \in Live, a \in UserAddrs : MapPage(p, a)
    \/ \E a \in KernelAddrs : MapPage("kernel", a) \/ UnmapPage(a)
    \/ Descend \/ AddTable \/ SetEntry \/ GetEntry \/ ClearEntry
    \/ FreeLevelsTable \/ FreeLevelsPage \/ FreeLevelsReturn \/ DeleteTop
    \/ Halted

Spec == Init /\ [][Next]_vars

-----------------------------------------------------------------------------
(* Properties *)

\* What the MMU finds at an address, from one table to the next.
Follow(table, i) == IF table \in Frames THEN entry[table][i] ELSE NULL

Translate(table, a) ==
    LET found[n \in 0..Len(a)] == IF n = 0 THEN table ELSE Follow(found[n - 1], a[n])
    IN  found[Len(a)]

\* Neither a walk nor the deletion reads a table that has been freed.
WalksLiveTables ==
    /\ op # Off => op.table \in Frames \ available /\ Here # Junk
    /\ \A k \in DOMAIN walk : walk[k].table \in Frames \ available

\* Every address of every process, and of the kernel, leads to the page that
\* was mapped there last, whatever is being mapped or deleted elsewhere; and what
\* the kernel maps is mapped in every process, also in those that were created
\* before.
TranslationIsExact ==
    /\ \A w \in Live \cup {"kernel"} : \A a \in DOMAIN mapping[w] :
         Translate(TopOf(w), a) = mapping[w][a]
    /\ \A p \in Live, a \in KernelAddrs : Translate(top[p], a) = Translate(KTop, a)

\* The pages a tree of tables is made of, tables and leaves.
Tree(table) ==
    {table} \cup
    UNION {LET prefixes == {SubSeq(a, 1, n) : n \in 1..Levels}
           IN  {Translate(table, x) : x \in prefixes} : a \in UserAddrs \cup KernelAddrs}

\* When nothing is in the middle of a step, every frame that is not available
\* is in the tables of the kernel or of a process: mapping, unmapping and
\* deletion lose no frame and free none that is in use.
NoFrameIsLost ==
    op = Off /\ victim = NULL /\ ~failed =>
        LET used == UNION {Tree(t) : t \in {KTop} \cup {top[p] : p \in Live}}
            kernel == {entry[KTop][i] : i \in KernelHalf}
        IN  Frames \ available = (used \cup kernel) \cap Frames
=============================================================================
