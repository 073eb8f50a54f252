------------------------------ MODULE PmmSetup ------------------------------
(***************************************************************************)
(* setup_pmm: the tables that describe the usable memory are placed at the *)
(* beginning of the memory they describe.  It runs once, before anything   *)
(* else can, so it is a function of the boot loader's memory map: a        *)
(* sequence of [usable, base, length] with addresses in bytes.  The sizes  *)
(* of the C types are those of the code; the size of a page is a constant, *)
(* so that small pages give small maps whose tables reach every boundary.  *)
(***************************************************************************)
EXTENDS Integers, Sequences, FiniteSets

CONSTANTS PAGE_SIZE,   \* 4096
          MinPages     \* 16: regions that are not longer are left alone

\* sizeof pmm_parent_table_t, of a pointer, of pmm_child_table_t and of page_t
ParentHeader == 8
Pointer      == 8
ChildHeader  == 24
PageInfo     == 4

AlignDown(a) == (a \div PAGE_SIZE) * PAGE_SIZE
AlignUp(a)   == AlignDown(a + PAGE_SIZE - 1)

\* The boot loader (external): usable entries are page aligned, entries are
\* sorted and do not overlap.
WellFormed(memmap) ==
    \A i \in 1..Len(memmap) :
        /\ memmap[i].base % PAGE_SIZE = 0 /\ memmap[i].length % PAGE_SIZE = 0
        /\ i < Len(memmap) =>
               memmap[i].base + memmap[i].length <= memmap[i + 1].base

Suits(entry) == entry.usable /\ entry.length > PAGE_SIZE * MinPages

\* The first loop counts the regions and sizes the parent table, the second
\* places it at the first region; without one, -1 stands for the panic.
ParentTable(memmap) ==
    LET regions == SelectSeq(memmap, Suits) IN
    [size |-> ParentHeader + Pointer * Len(regions),
     at |-> IF regions = <<>> THEN -1 ELSE AlignUp(Head(regions).base)]

\* Where the child table of a region goes.
ChildTableAt(entry, parent) ==
    IF AlignUp(entry.base) = parent.at
    THEN parent.at + parent.size ELSE AlignUp(entry.base)

\* The child table of a region: its place, its size and the pages from start
\* to end that it describes, what is left of the region behind the tables.
ChildTable(entry, parent) ==
    LET at   == ChildTableAt(entry, parent)
        size == ChildHeader + PageInfo * (entry.length \div PAGE_SIZE)
    IN  [at |-> at, size |-> size,
         start |-> AlignUp(at + size),
         end |-> AlignDown(entry.base + entry.length)]

Describes(child) == child.end > child.start

\* Mutant: num_pages is taken from the length of the region.
NumPagesOfRegion(child) == (child.end - child.at) \div PAGE_SIZE

NumPages(child) == (child.end - child.start) \div PAGE_SIZE

\* setup_pmm up to its call of pmm_fill: the third loop enters the child
\* tables into the parent table, leaves out one that describes nothing and
\* counts total_pages.
SetupPmm(memmap) ==
    LET regions == SelectSeq(memmap, Suits)
        parent  == ParentTable(memmap)
        tables  == [k \in 1..Len(regions) |-> ChildTable(regions[k], parent)]
        total_pages[k \in 0..Len(regions)] ==
            IF k = 0 THEN 0
            ELSE total_pages[k - 1]
                   + IF Describes(tables[k]) THEN NumPages(tables[k]) ELSE 0
    IN  [parent |-> parent,
         child_tables |-> SelectSeq(tables, Describes),
         num_child_tables |->
             Len(regions) - Cardinality({k \in DOMAIN tables : ~Describes(tables[k])}),
         total_pages |-> total_pages[Len(regions)]]
=============================================================================
