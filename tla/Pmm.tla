--------------------------------- MODULE Pmm ---------------------------------
(***************************************************************************)
(* The physical memory manager (memory/pmm.c) after setup_pmm has built    *)
(* the child tables.  Addresses are counted in pages.  The free list runs  *)
(* through the first word of the free pages themselves, which a holder of  *)
(* the page overwrites as it likes, and is filled lazily, Batch pages at a *)
(* time, from the pages no one has touched yet.                            *)
(*                                                                         *)
(* allocate_page and free_page hold pmm_spinlock, which on one CPU keeps   *)
(* everything else out until they return; the loop of pmm_fill is taken    *)
(* one page per step.                                                      *)
(***************************************************************************)
EXTENDS Integers, Links

CONSTANTS NumTables,   \* parent_table->num_child_tables
          Start, End,  \* table -> its start and end address
          Foreign,     \* mapped pages that are no RAM (the framebuffer)
          Batch        \* 512, the pages one pmm_fill adds

Tables   == 1..NumTables
Child(t) == Start[t]..(End[t] - 1)
Frames   == UNION {Child(t) : t \in Tables}
Ends     == {End[t] : t \in Tables}

\* The tables of two regions are apart by at least the page that holds the
\* child table itself.
ASSUME PmmAssumption ==
    /\ NumTables \in Nat
    /\ Start \in [Tables -> Nat] /\ End \in [Tables -> Nat]
    /\ \A t \in Tables : Start[t] < End[t]
    /\ \A s, t \in Tables : s # t => End[s] < Start[t] \/ End[t] < Start[s]
    /\ NULL \notin Frames
    /\ Foreign \subseteq Nat /\ Foreign \cap Frames = {}
    /\ Batch \in Nat \ {0}

VARIABLES
    state,          \* page -> PAGE_UNINIT, PAGE_FREE, PAGE_USED
    word,           \* page -> its first word: node->next of a free page
    freelist_head,
    fill_t, fill_p, \* where pmm_fill goes on
    added,          \* its pages_added
    used_pages,
    op,             \* what is executing: setup, idle, fill, take
    panic,          \* the message of the panic reached, or "none"
    lent            \* history: pages handed out and not freed

pmmVars == <<state, word, freelist_head, fill_t, fill_p, added, used_pages, op,
             panic, lent>>

-----------------------------------------------------------------------------
\* Mutant: pmm_fill starts the next table where it stopped in this one.
FillPageKeepsIndex ==
    /\ op \in {"setup", "fill"} /\ panic = "none"
    /\ fill_t <= NumTables /\ added < Batch
    /\ LET f == Start[fill_t] + fill_p
           last == f = End[fill_t] - 1
       IN  /\ state' = [state EXCEPT ![f] = "FREE"]
           /\ word' = [word EXCEPT ![f] = freelist_head]
           /\ freelist_head' = f
           /\ added' = added + 1
           /\ fill_t' = IF last THEN fill_t + 1 ELSE fill_t
           /\ fill_p' = IF last /\ fill_t < NumTables
                        THEN 1 ELSE IF last THEN 0 ELSE fill_p + 1
    /\ UNCHANGED <<used_pages, op, panic, lent>>

\* One iteration of pmm_fill's loops.
FillPage ==
    /\ op \in {"setup", "fill"} /\ panic = "none"
    /\ fill_t <= NumTables /\ added < Batch
    /\ LET f == Start[fill_t] + fill_p
           last == f = End[fill_t] - 1
       IN  /\ IF state[f] = "UNINIT"
              THEN /\ state' = [state EXCEPT ![f] = "FREE"]
                   /\ word' = [word EXCEPT ![f] = freelist_head]
                   /\ freelist_head' = f
                   /\ added' = added + 1
              ELSE UNCHANGED <<state, word, freelist_head, added>>
           /\ fill_t' = IF last THEN fill_t + 1 ELSE fill_t
           /\ fill_p' = IF last THEN 0 ELSE fill_p + 1
    /\ UNCHANGED <<used_pages, op, panic, lent>>

FillDone ==
    /\ op \in {"setup", "fill"} /\ panic = "none"
    /\ fill_t > NumTables \/ added >= Batch
    /\ op' = IF op = "setup" THEN "idle" ELSE "take"
    /\ UNCHANGED <<state, word, freelist_head, fill_t, fill_p, added,
                   used_pages, panic, lent>>

\* Mutant: only the first table is looked at.
GetPageInfoFirstTable(f) ==
    IF Start[1] <= f /\ f <= End[1]
    THEN IF f \in Frames THEN "found" ELSE "out of bounds"
    ELSE "NULL"

\* get_page_info: the table is looked up with an inclusive end.
GetPageInfo(f) ==
    IF \E t \in Tables : Start[t] <= f /\ f <= End[t]
    THEN IF f \in Frames THEN "found" ELSE "out of bounds"
    ELSE "NULL"

AllocatePage ==
    /\ op = "idle" /\ panic = "none"
    /\ op' = IF freelist_head = NULL THEN "fill" ELSE "take"
    /\ added' = 0
    /\ UNCHANGED <<state, word, freelist_head, fill_t, fill_p, used_pages,
                   panic, lent>>

Panic(message) ==
    /\ panic' = message
    /\ UNCHANGED <<state, word, freelist_head, fill_t, fill_p, added,
                   used_pages, op, lent>>

\* Mutant: the next pointer is read after the page is zeroed.
TakePageZeroFirst ==
    /\ op = "take" /\ panic = "none"
    /\ IF freelist_head = NULL THEN Panic("out of memory")
       ELSE LET f == freelist_head IN
            /\ freelist_head' = NULL
            /\ state' = [state EXCEPT ![f] = "USED"]
            /\ used_pages' = used_pages + 1
            /\ word' = [word EXCEPT ![f] = NULL]
            /\ lent' = lent \cup {f}
            /\ op' = "idle"
            /\ UNCHANGED <<fill_t, fill_p, added, panic>>

\* The rest of allocate_page; the page is zeroed before it is returned.
TakePage ==
    /\ op = "take" /\ panic = "none"
    /\ IF freelist_head = NULL THEN Panic("out of memory")
       ELSE LET f == freelist_head IN
            IF GetPageInfo(f) # "found" THEN Panic("not in PFNdb")
            ELSE IF state[f] = "USED" THEN Panic("allocate used page")
            ELSE /\ freelist_head' = word[f]
                 /\ state' = [state EXCEPT ![f] = "USED"]
                 /\ used_pages' = used_pages + 1
                 /\ word' = [word EXCEPT ![f] = NULL]
                 /\ lent' = lent \cup {f}
                 /\ op' = "idle"
                 /\ UNCHANGED <<fill_t, fill_p, added, panic>>

FreePage(f) ==
    /\ op = "idle" /\ panic = "none"
    /\ CASE GetPageInfo(f) = "NULL"          -> UNCHANGED pmmVars
         [] GetPageInfo(f) = "out of bounds" -> Panic("out of bounds")
         [] OTHER ->
              IF state[f] = "UNINIT" THEN Panic("free an uninit page")
              ELSE IF state[f] = "FREE" THEN Panic("double free")
              ELSE /\ state' = [state EXCEPT ![f] = "FREE"]
                   /\ used_pages' = used_pages - 1
                   /\ word' = [word EXCEPT ![f] = freelist_head]
                   /\ freelist_head' = f
                   /\ lent' = lent \ {f}
                   /\ UNCHANGED <<fill_t, fill_p, added, op, panic>>

\* The holder of a page writes to it.
HolderWrites ==
    /\ op = "idle" /\ panic = "none"
    /\ \E f \in lent, w \in Frames \cup {NULL} : word' = [word EXCEPT ![f] = w]
    /\ UNCHANGED <<state, freelist_head, fill_t, fill_p, added, used_pages, op,
                   panic, lent>>

PmmHalted == panic # "none" /\ UNCHANGED pmmVars

PmmInit ==
    /\ state = [f \in Frames |-> "UNINIT"]
    /\ word \in [Frames -> {NULL}]
    /\ freelist_head = NULL
    /\ fill_t = 1 /\ fill_p = 0 /\ added = 0
    /\ used_pages = 0
    /\ op = "setup"
    /\ panic = "none"
    /\ lent = {}

PmmNext ==
    \/ FillPage \/ FillDone \/ AllocatePage \/ TakePage
    \/ \E f \in lent \cup Foreign : FreePage(f)
    \/ HolderWrites
    \/ PmmHalted

PmmSpec == PmmInit /\ [][PmmNext]_pmmVars

-----------------------------------------------------------------------------
(* Properties *)

PmmTypeOK ==
    /\ state \in [Frames -> {"UNINIT", "FREE", "USED"}]
    /\ word \in [Frames -> Frames \cup {NULL}]
    /\ freelist_head \in Frames \cup {NULL}
    /\ fill_t \in 1..(NumTables + 1)
    /\ fill_p \in Nat
    /\ added \in 0..Batch
    /\ used_pages \in Int
    /\ op \in {"setup", "idle", "fill", "take"}
    /\ panic \in {"none", "out of memory", "not in PFNdb", "allocate used page",
                  "out of bounds", "free an uninit page", "double free"}
    /\ lent \subseteq Frames

FreeFrames == {f \in Frames : state[f] = "FREE"}

\* The free list runs through exactly the pages marked PAGE_FREE, whatever
\* the holders write to the pages they hold: allocate_page, free_page and the
\* lazy pmm_fill neither lose a page nor list one twice.
FreeListIsFree == OneList(freelist_head, FreeFrames, word)

\* used_pages is the number of pages handed out: they can be numbered from 1 to it.
UsedPagesIsExact ==
    \E number \in [lent -> 1..used_pages] :
        /\ \A f, g \in lent : number[f] = number[g] => f = g
        /\ \A n \in 1..used_pages : \E f \in lent : number[f] = n

\* No assertion of the allocator fails: nothing on the list is in use or
\* unknown to the page database, and no page a holder frees is taken for a
\* free, an untouched or an out-of-range one.
AssertionsHold == panic \in {"none", "out of memory"}

Abstract == INSTANCE PageAllocator WITH
                available <- Frames \ lent,
                failed <- panic = "out of memory"

\* allocate_page and free_page implement PageAllocator: a page has one holder,
\* and "out of memory" means that every page is held, though pages become
\* available only in batches.
ImplementsPageAllocator == Abstract!Spec
=============================================================================
