------------------------------- MODULE Tarfs --------------------------------
(***************************************************************************)
(* filesystem/tarfs/tarfs.c: the archive is a row of blocks, a header      *)
(* block before the data blocks of each file and blocks of zeros at the    *)
(* end.  A lookup walks from header to header, from one file size to the   *)
(* next position, and stops at the first block that is not a header.       *)
(***************************************************************************)
EXTENDS Integers, Sequences, SequencesExt

CONSTANTS Decoy,       \* the name that data seem to have in their header
          Block        \* bytes of a block; 512 in the code

ASSUME TarfsAssumption == Block \in Nat \ {0}

\* How a tar archive lays out a file: a header, the data padded to whole blocks.
\* The data are the worst a walk could meet: blocks that look like the header of
\* an empty file, as those of an archive inside the archive do.
Header(f)  == [ustar |-> TRUE, name |-> f.name, size |-> Len(f.data), data |-> <<>>]
Zeros      == [ustar |-> FALSE, name |-> "", size |-> 0, data |-> <<>>]
DataBlocks(f) ==
    [b \in 1..((Len(f.data) + Block - 1) \div Block) |->
        [ustar |-> TRUE, name |-> Decoy, size |-> 0,
         data |-> SubSeq(f.data, (b - 1) * Block + 1,
                         IF b * Block < Len(f.data) THEN b * Block ELSE Len(f.data))]]

LaidOut(files) == FlattenSeq([i \in DOMAIN files |-> <<Header(files[i])>> \o DataBlocks(files[i])])
                    \o <<Zeros, Zeros>>

\* (filesize + 511) / 512 + 1
Blocks(filesize) == (filesize + Block - 1) \div Block + 1

\* The positions at which the walk over an archive finds a header
Walk(archive) ==
    LET from[ptr \in DOMAIN archive] ==
            IF archive[ptr].ustar THEN <<ptr>> \o from[ptr + Blocks(archive[ptr].size)] ELSE <<>>
    IN  from[1]

\* Those of the headers with this path
Matches(archive, path) == SelectSeq(Walk(archive), LAMBDA ptr : archive[ptr].name = path)

tarfsGetFize(archive, path) ==
    LET found == Matches(archive, path)
    IN  IF found = <<>> THEN -1 ELSE archive[found[1]].size

Copied(filesize, read_length) == IF filesize < read_length THEN filesize ELSE read_length

\* The bytes tarfsRead copies from ptr + 512 on, for a path it finds
tarfsRead(archive, path, read_length) ==
    LET ptr  == Matches(archive, path)[1]
        rest == SubSeq(archive, ptr + 1, Len(archive))
    IN  SubSeq(FlattenSeq([b \in DOMAIN rest |-> rest[b].data]), 1,
               Copied(archive[ptr].size, read_length))

\* The paths that init_tarfs puts in the list of register_file
init_tarfs(archive) ==
    {archive[ptr].name : ptr \in {q \in ToSet(Walk(archive)) : archive[q].size > 0}}
=============================================================================
