----------------------------- MODULE OpenFiles ------------------------------
(***************************************************************************)
(* What the file system calls promise a process: a table of open files,    *)
(* each with a position that stays inside the file; a read returns the     *)
(* bytes at the position and moves it past them; a call that fails changes *)
(* no open file.                                                           *)
(***************************************************************************)
EXTENDS Integers, Sequences

CONSTANTS Procs,
          MaxFd       \* process -> how many files it may open

\* An initramfs is a list of files, of which the first with a name is the one
\* that is found, and of which the empty ones cannot be opened.
Named(files, path) == {i \in DOMAIN files : files[i].name = path}
First(files, path) == files[CHOOSE i \in Named(files, path) : \A j \in Named(files, path) : i <= j]
SizeOf(files, path) == Len(First(files, path).data)
Registered(files) == {files[i].name : i \in {j \in DOMAIN files : Len(files[j].data) > 0}}

VARIABLES image,      \* the files of the initramfs
          open,       \* process -> the files it opened, in order: name and pos
          rax,        \* what the last call returned
          buffer      \* the bytes the last read delivered

Init ==
    /\ open = [p \in Procs |-> <<>>]
    /\ rax = 0 /\ buffer = <<>>

Fail == rax' = -1 /\ UNCHANGED <<open, buffer>>

Open(p, path) ==
    /\ path \in Registered(image) /\ Len(open[p]) < MaxFd[p]
    /\ open' = [open EXCEPT ![p] = Append(@, [name |-> path, pos |-> 0])]
    /\ rax' = Len(open[p]) /\ UNCHANGED buffer

\* A fault while the bytes are copied delivers none of them.
Read(p, fd, n) ==
    LET data == First(image, open[p][fd].name).data
        rest == SubSeq(data, open[p][fd].pos + 1, Len(data))
        k    == IF n < Len(rest) THEN n ELSE Len(rest)
    IN  /\ open' = [open EXCEPT ![p][fd].pos = @ + k]
        /\ rax' = k
        /\ \E bytes \in {SubSeq(rest, 1, k), <<>>} : buffer' = bytes

Seek(p, fd) ==
    /\ \E pos \in 0..SizeOf(image, open[p][fd].name) :
          open' = [open EXCEPT ![p][fd].pos = pos] /\ rax' = pos
    /\ UNCHANGED buffer

Exit(p) == open' = [open EXCEPT ![p] = <<>>] /\ UNCHANGED <<rax, buffer>>

Calls(p) ==
    \/ \E i \in DOMAIN image : Open(p, image[i].name)
    \/ \E fd \in DOMAIN open[p] :
          Seek(p, fd) \/ \E n \in 0..SizeOf(image, open[p][fd].name) : Read(p, fd, n)

Next ==
    /\ Fail \/ \E p \in Procs : Calls(p) \/ Exit(p)
    /\ UNCHANGED image

Spec == Init /\ [][Next]_<<image, open, rax, buffer>>
=============================================================================
