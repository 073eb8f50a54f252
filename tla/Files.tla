------------------------------- MODULE Files --------------------------------
(***************************************************************************)
(* sys_open, sys_read and sys_seek (syscalls/files/*.c) and the reaper:    *)
(* a process's table of open files and the heap blocks behind it.          *)
(* sys_open allocates three of them, one at a time and with other threads  *)
(* in between, and gives back those of a call that fails.  The archive is  *)
(* the one init_tarfs found and does not change.                           *)
(***************************************************************************)
EXTENDS Tarfs, FiniteSetsExt

CONSTANTS Procs,
          Workloads,   \* the archives [files] and which processes [procs] use them
          Paths,       \* paths that are opened
          MaxFd,       \* process -> size of its table of open files; 256 in the code
          Offsets      \* offsets of sys_seek

ASSUME FilesAssumption ==
    /\ MaxFd \in [Procs -> Nat \ {0}] /\ Offsets \subseteq Int
    /\ \A w \in Workloads : w.procs \subseteq Procs

Null   == 0
\* Never exhausted: a descriptor has two blocks and a call in progress three.
HeapBlocks == 1..MapThenSumSet(LAMBDA p : 2 * MaxFd[p] + 1, Procs)

VARIABLES
    files,       \* the files in the archive: name and data
    archive,     \* its blocks
    registered,  \* the paths in the list of register_file
    heap,        \* block -> what it holds, or Free
    fds,         \* process -> descriptor -> file_name, file_data (blocks) and seek_pos
    next_fd,
    at,          \* process -> where in sys_open it is, "user" or "dead"
    fileName,    \* process -> the block of sys_open's fileName
    rax, buffer, \* as in OpenFiles
    abandoned    \* blocks whose last pointer went with a process's table

tarVars == <<files, archive, registered>>
vars == <<tarVars, heap, fds, next_fd, at, fileName, rax, buffer, abandoned>>

Free      == [path |-> "", data |-> <<>>, used |-> FALSE]
Holding(path, data) == [path |-> path, data |-> data, used |-> TRUE]
Closed    == [file_name |-> Null, file_data |-> Null, seek_pos |-> 0]

malloc == CHOOSE b \in HeapBlocks : ~heap[b].used /\ \A c \in HeapBlocks : ~heap[c].used => b <= c

Init ==
    /\ \E w \in Workloads :
          /\ files = w.files
          /\ at = [p \in Procs |-> IF p \in w.procs THEN "user" ELSE "dead"]
    /\ archive = LaidOut(files) /\ registered = init_tarfs(archive)
    /\ heap = [b \in HeapBlocks |-> Free]
    /\ fds = [p \in Procs |-> [fd \in 0..MaxFd[p] - 1 |-> Closed]]
    /\ next_fd = [p \in Procs |-> 0]
    /\ fileName = [p \in Procs |-> Null]
    /\ rax = 0 /\ buffer = <<>>
    /\ abandoned = {}

Goto(p, to)       == at' = [at EXCEPT ![p] = to]
FreeAll(blocks)   == heap' = [b \in HeapBlocks |-> IF b \in blocks THEN Free ELSE heap[b]]

\* The early returns of sys_open
OpenFails(p, blocks) ==
    /\ FreeAll(blocks)
    /\ rax' = -1 /\ Goto(p, "user")
    /\ fileName' = [fileName EXCEPT ![p] = Null]
    /\ UNCHANGED <<fds, next_fd, buffer, abandoned>>

\* strlen_user, before the first malloc, and copy_from_user, after it, may
\* find the path unmapped.
OpenFaults(p) ==
    \/ at[p] = "user" /\ OpenFails(p, {})
    \/ at[p] = "data" /\ OpenFails(p, {fileName[p]})

OpenName(p, path) ==
    /\ at[p] = "user"
    /\ heap' = [heap EXCEPT ![malloc] = Holding(path, <<>>)]
    /\ fileName' = [fileName EXCEPT ![p] = malloc]
    /\ Goto(p, "data")
    /\ UNCHANGED <<fds, next_fd, rax, buffer, abandoned>>

Path(p) == heap[fileName[p]].path

\* Mutant: the copy of the path is not freed when the file is not found.
OpenDataKeepsName(p) ==
    /\ at[p] = "data"
    /\ LET fd == next_fd[p]
       IN  IF tarfsGetFize(archive, Path(p)) < 0 \/ fd >= MaxFd[p] THEN OpenFails(p, {})
           ELSE /\ heap' = [heap EXCEPT ![malloc] = Holding("", <<>>)]
                /\ fds' = [fds EXCEPT ![p][fd].file_data = malloc]
                /\ Goto(p, "fill")
                /\ UNCHANGED <<next_fd, fileName, rax, buffer, abandoned>>

\* tarfsGetFize, the limit on descriptors and malloc(size)
OpenData(p) ==
    /\ at[p] = "data"
    /\ LET fd == next_fd[p]
       IN  IF tarfsGetFize(archive, Path(p)) < 0 \/ fd >= MaxFd[p] THEN OpenFails(p, {fileName[p]})
           ELSE /\ heap' = [heap EXCEPT ![malloc] = Holding("", <<>>)]
                /\ fds' = [fds EXCEPT ![p][fd].file_data = malloc]
                /\ Goto(p, "fill")
                /\ UNCHANGED <<next_fd, fileName, rax, buffer, abandoned>>

\* fs_read, which fails for a file that is not registered and leaves a pointer to
\* the freed block in the table, and malloc of file_name
OpenFill(p) ==
    /\ at[p] = "fill"
    /\ LET fd == next_fd[p]
           d  == fds[p][fd].file_data
       IN  IF Path(p) \notin registered THEN OpenFails(p, {d, fileName[p]})
           ELSE /\ heap' = [heap EXCEPT
                       ![d] = Holding("", tarfsRead(archive, Path(p), tarfsGetFize(archive, Path(p)))),
                       ![malloc] = Holding(Path(p), <<>>)]
                /\ fds' = [fds EXCEPT ![p][fd].file_name = malloc, ![p][fd].seek_pos = 0]
                /\ Goto(p, "done")
                /\ UNCHANGED <<next_fd, fileName, rax, buffer, abandoned>>

OpenDone(p) ==
    /\ at[p] = "done"
    /\ rax' = next_fd[p]
    /\ next_fd' = [next_fd EXCEPT ![p] = @ + 1]
    /\ FreeAll({fileName[p]}) /\ fileName' = [fileName EXCEPT ![p] = Null]
    /\ Goto(p, "user")
    /\ UNCHANGED <<fds, buffer, abandoned>>

-----------------------------------------------------------------------------
\* tarfsGetFize(file.file_name)
FileSize(p, fd) == tarfsGetFize(archive, heap[fds[p][fd].file_name].path)

\* How far sys_read gets from pos in a file of size bytes
Readable(size, pos, n) == IF n > size - pos THEN size - pos ELSE n

\* fd is a descriptor of the table.  The result of copy_to_user is ignored.
sys_read(p, fd, n) ==
    /\ at[p] = "user"
    /\ IF fds[p][fd].file_name = Null \/ fds[p][fd].file_data = Null
       THEN rax' = -1 /\ UNCHANGED <<fds, buffer>>
       ELSE LET pos   == fds[p][fd].seek_pos
                bytes == IF pos >= FileSize(p, fd) THEN 0 ELSE Readable(FileSize(p, fd), pos, n)
            IN  /\ rax' = bytes
                /\ fds' = [fds EXCEPT ![p][fd].seek_pos = @ + bytes]
                /\ \E copied \in {bytes, 0} :
                      buffer' = [i \in 1..copied |-> heap[fds[p][fd].file_data].data[pos + i]]
    /\ UNCHANGED <<heap, next_fd, at, fileName, abandoned>>

\* Mutant: a position before the start is kept.
ClampedAbove(pos, size) == IF pos > size THEN size ELSE pos

Clamped(pos, size) == IF pos < 0 THEN 0 ELSE IF pos > size THEN size ELSE pos

\* An unknown whence fails.
sys_seek(p, fd, offset, whence) ==
    /\ at[p] = "user"
    /\ IF fds[p][fd].file_name = Null \/ whence \notin {"SEEK_SET", "SEEK_CUR", "SEEK_END"}
       THEN rax' = -1 /\ UNCHANGED fds
       ELSE LET from    == CASE whence = "SEEK_SET" -> 0
                             [] whence = "SEEK_CUR" -> fds[p][fd].seek_pos
                             [] whence = "SEEK_END" -> FileSize(p, fd)
                new_pos == Clamped(from + offset, FileSize(p, fd))
            IN  /\ fds' = [fds EXCEPT ![p][fd].seek_pos = new_pos]
                /\ rax' = new_pos
    /\ UNCHANGED <<heap, next_fd, at, fileName, buffer, abandoned>>

Owned(p) ==
    {fileName[p]} \cup UNION {{fds[p][fd].file_name, fds[p][fd].file_data} : fd \in 0..next_fd[p] - 1}
        \cup (IF at[p] \in {"fill", "done"}
              THEN {fds[p][next_fd[p]].file_name, fds[p][next_fd[p]].file_data} ELSE {})

\* The process exits and the reaper frees its table, but not what it points to.
Exit(p) ==
    /\ at[p] = "user"
    /\ Goto(p, "dead")
    /\ abandoned' = abandoned \cup (Owned(p) \ {Null})
    /\ fds' = [fds EXCEPT ![p] = [fd \in 0..MaxFd[p] - 1 |-> Closed]]
    /\ next_fd' = [next_fd EXCEPT ![p] = 0]
    /\ UNCHANGED <<heap, fileName, rax, buffer>>

Done == (\A p \in Procs : at[p] = "dead") /\ UNCHANGED vars

Calls(p) ==
    \/ OpenFaults(p) \/ OpenData(p) \/ OpenFill(p) \/ OpenDone(p) \/ Exit(p)
    \/ \E path \in Paths : OpenName(p, path)
    \/ \E fd \in 0..MaxFd[p] - 1 :
          \/ \E n \in 0..2 : sys_read(p, fd, n)
          \/ \E offset \in Offsets, whence \in {"SEEK_SET", "SEEK_CUR", "SEEK_END", "other"} :
                sys_seek(p, fd, offset, whence)

Next ==
    \/ (\E p \in Procs : Calls(p)) /\ UNCHANGED tarVars
    \/ Done

Spec == Init /\ [][Next]_vars

-----------------------------------------------------------------------------

Live(p) == 0..next_fd[p] - 1

Promise == INSTANCE OpenFiles WITH
    image <- files,
    open <- [p \in Procs |-> [i \in 1..next_fd[p] |->
                [name |-> heap[fds[p][i - 1].file_name].path, pos |-> fds[p][i - 1].seek_pos]]]

\* The blocks behind an open file are allocated, hold its name and all of its
\* bytes, and belong to nobody else, whatever opens of other processes, failed
\* opens and exits happened since; and every other block that is allocated is
\* one that a call in progress still points to, or one the reaper left behind:
\* no early return of sys_open loses one.
BlocksAreOwned ==
    /\ \A p \in Procs : \A fd \in Live(p) :
          LET f == fds[p][fd]
          IN  /\ heap[f.file_name].used /\ heap[f.file_data].used
              /\ heap[f.file_data].data = Promise!First(files, heap[f.file_name].path).data
    /\ \A p, q \in Procs : \A c \in Live(p), d \in Live(q) :
          {fds[p][c].file_name, fds[p][c].file_data} \cap
              {fds[q][d].file_name, fds[q][d].file_data} # {} => p = q /\ c = d
    /\ {b \in HeapBlocks : heap[b].used} = (UNION {Owned(p) : p \in Procs} \cup abandoned) \ {Null}

\* The calls keep the promise of OpenFiles: positions stay inside their file,
\* a read delivers the bytes at the position of the first file of that name,
\* a call that fails changes nothing.
ImplementsOpenFiles == Promise!Spec
=============================================================================
