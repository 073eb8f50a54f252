------------------------------- MODULE MCPmm -------------------------------
(***************************************************************************)
(* The allocator on the tables setup_pmm builds for a small memory map,    *)
(* and setup_pmm on every map of up to three entries, adjoining or with a  *)
(* hole between them.  With pages of 64 bytes an entry of 2 pages is the   *)
(* longest that is ignored, the table of 10 pages fills a page to the      *)
(* byte, and so does the table of 4 pages behind a parent table for two.   *)
(***************************************************************************)
EXTENDS Pmm, PmmSetup, SequencesExt

Lengths == {2, 3, 4, 5, 10, 11}
Shapes  == [usable : BOOLEAN, pages : Lengths, gap : {0, 3}]

\* The entries one behind the other, each behind its gap.
Layout(shapes) ==
    LET base[k \in DOMAIN shapes] ==
            shapes[k].gap + IF k = 1 THEN 0 ELSE base[k - 1] + shapes[k - 1].pages
    IN  [k \in DOMAIN shapes |->
            [usable |-> shapes[k].usable, base |-> PAGE_SIZE * base[k],
             length |-> PAGE_SIZE * shapes[k].pages]]

Memmaps == {Layout(s) : s \in UNION {[1..n -> Shapes] : n \in 1..3}}

\* The map the allocator runs on: RAM of four and three pages.
Machine == Layout(<<[usable |-> FALSE, pages |-> 2, gap |-> 0],
                    [usable |-> TRUE, pages |-> 4, gap |-> 0],
                    [usable |-> TRUE, pages |-> 3, gap |-> 0]>>)
ChildTables == SetupPmm(Machine).child_tables

MCNumTables == SetupPmm(Machine).num_child_tables
MCStart == [t \in 1..Len(ChildTables) |-> ChildTables[t].start \div PAGE_SIZE]
MCEnd   == [t \in 1..Len(ChildTables) |-> ChildTables[t].end \div PAGE_SIZE]
\* A framebuffer well away from RAM.
MCForeign == {20}

\* The extents in use: the parent table, and each child table with the pages
\* it describes.
Extents(setup) ==
    {<<setup.parent.at, setup.parent.at + setup.parent.size>>}
        \cup {<<c.at, c.at + c.size>> : c \in ToSet(setup.child_tables)}
        \cup {<<c.start, c.end>> : c \in ToSet(setup.child_tables)}

\* The pages a child table describes.
Pages(child) ==
    (child.start \div PAGE_SIZE)..((child.end \div PAGE_SIZE) - 1)

\* setup_pmm is over when pmm_fill is called for the first time.
SetupReturns == op = "setup" /\ fill_t = 1 /\ fill_p = 0

\* Whatever the memory map, what setup_pmm leaves is what allocate_page and
\* free_page take for granted (PmmAssumption): as many tables as the parent table
\* says, none of them empty, page aligned, and two of them never adjoining;
\* total_pages is the number of pages they describe.  No page it gives to the
\* allocator holds one of the allocator's own tables or belongs to two of them,
\* and all of it lies in usable memory.
EstablishesPmm ==
    SetupReturns => \A memmap \in Memmaps :
        LET setup   == SetupPmm(memmap)
            c       == setup.child_tables
            extents == Extents(setup)
        IN  /\ setup.num_child_tables = Len(c)
            /\ setup.total_pages = Cardinality(UNION {Pages(c[k]) : k \in DOMAIN c})
            /\ \A k \in DOMAIN c :
                 /\ c[k].start < c[k].end
                 /\ c[k].start % PAGE_SIZE = 0 /\ c[k].end % PAGE_SIZE = 0
                 /\ \A l \in DOMAIN c :
                      k # l => c[k].end < c[l].start \/ c[l].end < c[k].start
            /\ WellFormed(memmap) /\ ParentTable(memmap).at # -1 =>
                 /\ \A a, b \in extents : a = b \/ a[2] <= b[1] \/ b[2] <= a[1]
                 /\ \A a \in extents : \E entry \in ToSet(memmap) :
                      /\ entry.usable
                      /\ entry.base <= a[1]
                      /\ a[2] <= entry.base + entry.length
=============================================================================
