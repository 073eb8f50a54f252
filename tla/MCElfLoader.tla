---------------------------- MODULE MCElfLoader -----------------------------
(***************************************************************************)
(* Pages of four bytes, segments of up to six.  A linker gives a segment   *)
(* an address that is its offset modulo its alignment.  The two segments   *)
(* of a program have pages of their own.                                   *)
(***************************************************************************)
EXTENDS ElfLoader

MCSegments ==
    {[load |-> TRUE, virt_addr |-> v, offset |-> o, file_size |-> f, mem_size |-> n,
      alignment |-> PAGE_SIZE, write |-> w, exec |-> ~w] :
        v \in 4..9, o \in 0..3, f \in {0, 1, 3, 5}, n \in {1, 4, 6}, w \in BOOLEAN}

Legal(s) ==
    s.file_size <= s.mem_size /\ s.virt_addr % s.alignment = s.offset % s.alignment

Note == [load |-> FALSE, virt_addr |-> 0, offset |-> 0, file_size |-> 2, mem_size |-> 2,
         alignment |-> 1, write |-> FALSE, exec |-> FALSE]

Above(s) == [s EXCEPT !.virt_addr = @ + 16]

Aligned == {s \in MCSegments : Legal(s)}
AlignedPrograms ==
    {<<Note, s, Above(t)>> : s \in Aligned, t \in {u \in Aligned : u.write}} \cup {<<Above(s)>> : s \in Aligned} \cup {<<Note>>}

MCHeaders == {[bits |-> 64, good |-> TRUE], [bits |-> 32, good |-> TRUE],
              [bits |-> 64, good |-> FALSE], [bits |-> 0, good |-> TRUE]}
=============================================================================
