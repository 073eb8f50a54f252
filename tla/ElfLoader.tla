----------------------------- MODULE ElfLoader ------------------------------
(***************************************************************************)
(* elf/elf_checker.c and elf/elf_loader.c: a file is checked and its       *)
(* PT_LOAD segments are copied into the address space page by page, the    *)
(* rest of every page zeroed.  Then the process runs and asks for memory.  *)
(* Both reserve addresses in the trees of the process's page map, module   *)
(* Vma.  Byte k of the file is the number k + 1.                           *)
(***************************************************************************)
EXTENDS Vma, Sequences

CONSTANTS PAGE_SIZE,     \* 4096 in the code
          Headers,       \* headers: bits and whether the other fields are good
          Programs,      \* program header tables
          Table,         \* program_header_table, an offset in the file
          StackPages,    \* 16 in the code
          FbPages        \* the frame buffer's pages, from 0xA0000000 on

ASSUME ElfAssumption == PAGE_SIZE \in Nat \ {0} /\ Table \in Nat /\ FbPages \subseteq Space

VARIABLES
    header, prog_headers,
    at,                  \* "verify", "segment", "page", "done", "running" or "refused"
    i, p,                \* the loops' counters
    currentVirtAddr, src, fileRemaining,
    memory,              \* page -> its bytes and flags, or Unmapped
    info                 \* phdr of the elf_info

loop == <<i, p, currentVirtAddr, src, fileRemaining>>
elfVars == <<header, prog_headers, at, loop, memory, vars, info>>

Unmapped == [bytes |-> <<>>, writable |-> FALSE, nx |-> FALSE]
Zeroed   == [bytes |-> [k \in 1..PAGE_SIZE |-> 0], writable |-> TRUE, nx |-> TRUE]
Framebuffer == [Zeroed EXCEPT !.bytes = [k \in 1..PAGE_SIZE |-> -2], !.nx = FALSE]
FileByte(k) == k + 1

AlignDown(a, align) == a - (a % align)
AlignUp(a, align)   == AlignDown(a + align - 1, align)

ElfInit ==
    /\ Init
    /\ header \in Headers /\ prog_headers \in Programs
    /\ at = "verify" /\ i = 1 /\ p = 0 /\ currentVirtAddr = 0 /\ src = 0 /\ fileRemaining = 0
    /\ memory = [q \in Space |-> Unmapped] /\ info = 0

\* The 32-bit case prints that it is not supported, and goes on.
verify_elf_64(h) == h.good /\ h.bits \in {64, 32}

Loads    == {k \in DOMAIN prog_headers : prog_headers[k].load}

load_base ==
    LET first == CHOOSE k \in Loads : \A j \in Loads : k <= j
    IN  IF Loads = {} THEN 0 ELSE prog_headers[first].virt_addr - prog_headers[first].offset

Verify ==
    /\ at = "verify"
    /\ IF verify_elf_64(header) THEN at' = "segment" /\ info' = load_base + Table
       ELSE at' = "refused" /\ UNCHANGED info
    /\ UNCHANGED <<header, prog_headers, loop, memory, vars>>

ph == prog_headers[i]
pagesToMap ==
    (AlignUp(ph.virt_addr + ph.mem_size, PAGE_SIZE) - AlignDown(ph.virt_addr, PAGE_SIZE)) \div PAGE_SIZE

Base(a, alignment) == IF alignment > 1 THEN AlignDown(a, alignment) ELSE a

vaddr_offset == ph.virt_addr - Base(ph.virt_addr, ph.alignment)

\* valloc at a fixed address that is not aligned returns 0, which is not looked at.
Reserve(address, size) ==
    IF address % PAGE_SIZE # 0
    THEN result' = 0 /\ UNCHANGED <<free_ranges, used_ranges>>
    ELSE VallocFixed(address \div PAGE_SIZE, AlignUp(size, PAGE_SIZE) \div PAGE_SIZE, FALSE)

\* Mutant: the room in front of the segment in its first page is not counted.
SegmentReservesSize ==
    /\ at = "segment" /\ i <= Len(prog_headers)
    /\ IF ph.load
       THEN /\ at' = "page" /\ p' = 0
            /\ currentVirtAddr' = Base(ph.virt_addr, ph.alignment)
            /\ src' = ph.offset /\ fileRemaining' = ph.file_size
            /\ Reserve(currentVirtAddr', ph.mem_size) /\ UNCHANGED i
       ELSE i' = i + 1 /\ UNCHANGED <<at, p, currentVirtAddr, src, fileRemaining, vars>>
    /\ UNCHANGED <<header, prog_headers, memory, info>>

Segment ==
    /\ at = "segment" /\ i <= Len(prog_headers)
    /\ IF ph.load
       THEN /\ at' = "page" /\ p' = 0
            /\ currentVirtAddr' = Base(ph.virt_addr, ph.alignment)
            /\ src' = ph.offset /\ fileRemaining' = ph.file_size
            /\ Reserve(currentVirtAddr', ph.mem_size + vaddr_offset) /\ UNCHANGED i
       ELSE i' = i + 1 /\ UNCHANGED <<at, p, currentVirtAddr, src, fileRemaining, vars>>
    /\ UNCHANGED <<header, prog_headers, memory, info>>

\* The bytes of a page that holds n bytes of the file from offset on
Page(offset, n) ==
    [k \in 1..PAGE_SIZE |-> IF k > offset /\ k <= offset + n THEN FileByte(src + k - 1 - offset) ELSE 0]

Copied(offset) == IF fileRemaining < PAGE_SIZE - offset THEN fileRemaining ELSE PAGE_SIZE - offset

MapPage ==
    LET offset == IF p = 0 THEN vaddr_offset ELSE 0
        toCopy == Copied(offset)
    IN  /\ at = "page" /\ p < pagesToMap
        /\ memory' = [memory EXCEPT ![currentVirtAddr \div PAGE_SIZE] =
                         [bytes |-> Page(offset, toCopy), writable |-> ph.write, nx |-> ~ph.exec]]
        /\ src' = src + toCopy /\ fileRemaining' = fileRemaining - toCopy
        /\ currentVirtAddr' = currentVirtAddr + PAGE_SIZE
        /\ p' = p + 1
        /\ UNCHANGED <<header, prog_headers, at, i, vars, info>>

EndSegment ==
    /\ at = "page" /\ p = pagesToMap
    /\ at' = "segment" /\ i' = i + 1
    /\ UNCHANGED <<header, prog_headers, p, currentVirtAddr, src, fileRemaining, memory, vars, info>>

Finish ==
    /\ at = "segment" /\ i > Len(prog_headers)
    /\ at' = "done"
    /\ UNCHANGED <<header, prog_headers, loop, memory, vars, info>>

\* n pages where valloc finds them.  An address space of 128 TB does not run out
\* before memory does, so that it finds some.
Take(n, page) ==
    /\ Valloc(n)
    /\ result' # 0
    /\ memory' = [q \in Space |->
                    IF q \in Pages(PageRange(result', n)) THEN page ELSE memory[q]]
    /\ UNCHANGED <<header, prog_headers, loop, info>>

\* spawn_app_kthread: the stack
SpawnStack ==
    /\ at = "done" /\ at' = "running"
    /\ Take(StackPages, [Zeroed EXCEPT !.nx = FALSE])

SysMmap(n) == at = "running" /\ Take(n, Zeroed) /\ UNCHANGED at

\* The frame buffer has its place, which is not reserved.
SysFbMap ==
    /\ at = "running"
    /\ memory' = [q \in Space |-> IF q \in FbPages THEN Framebuffer ELSE memory[q]]
    /\ UNCHANGED <<header, prog_headers, at, loop, vars, info>>

Stopped == at \in {"running", "refused"} /\ UNCHANGED elfVars

ElfNext ==
    \/ Verify \/ Segment \/ MapPage \/ EndSegment \/ Finish
    \/ SpawnStack \/ SysFbMap
    \/ \E n \in 1..MaxSize : SysMmap(n)
    \/ Stopped

ElfSpec == ElfInit /\ [][ElfNext]_elfVars

-----------------------------------------------------------------------------
Segments == {prog_headers[k] : k \in Loads}
ByteAt(a) ==
    LET page == memory[a \div PAGE_SIZE]
    IN  IF page = Unmapped THEN -1 ELSE page.bytes[(a % PAGE_SIZE) + 1]

\* From the return of load_elf on, whatever memory the process asks for, every
\* byte of every segment is where its program header says: the bytes of the
\* file first, zeros after them, in pages with the segment's permissions.  The
\* phdr in the auxiliary vector is the address at which the program header table
\* was loaded with the first segment.  This needs all that is mapped to be reserved
\* in the address space, but for the frame buffer, where no segment must lie.
ImageIsLoaded ==
    at \in {"done", "running"} =>
        /\ \A s \in Segments : \A k \in 0..s.mem_size - 1 :
             LET a == s.virt_addr + k
             IN  /\ ByteAt(a) = IF k < s.file_size THEN FileByte(s.offset + k) ELSE 0
                 /\ memory[a \div PAGE_SIZE].writable = s.write
                 /\ memory[a \div PAGE_SIZE].nx = ~s.exec
        /\ \A k \in Loads :
             LET s == prog_headers[k]
             IN  (\A j \in Loads : k <= j) /\ Table \in s.offset..s.offset + s.file_size - 1 =>
                     ByteAt(info) = FileByte(Table)
        /\ {q \in Space : memory[q] # Unmapped} \subseteq UNION {Pages(r) : r \in used_ranges} \cup FbPages
=============================================================================
