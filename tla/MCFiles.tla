------------------------------ MODULE MCFiles -------------------------------
(***************************************************************************)
(* One process, with two descriptors, uses archives whose first file ends  *)
(* before, at and after the end of a block, and archives with two files of *)
(* one name; two processes, with one descriptor each, use a small archive. *)
(* Byte k of file i is 10 * i + k.  The third name is in no archive.       *)
(***************************************************************************)
EXTENDS Files, TLC

CONSTANTS p0, p1, p2

MCFile(i, name, size) == [name |-> name, data |-> [k \in 1..size |-> 10 * i + k]]

MCArchives ==
    {<<>>} \cup
    {<<MCFile(1, "/b", m), MCFile(2, "/a", n)>> : m \in 0..3, n \in {0, 3}} \cup
    {<<MCFile(1, "/a", m), MCFile(2, "/a", 2)>> : m \in 0..1}

MCMaxFd == p0 :> 2 @@ p1 :> 1 @@ p2 :> 1
Symmetry == Permutations({p1, p2})
MCOffsets == {-1, 0, 4}

MCWorkloads ==
    [files : MCArchives, procs : {{p0}}] \cup
    [files : {<<MCFile(1, "/a", 1)>>}, procs : {{p1, p2}}]
=============================================================================
