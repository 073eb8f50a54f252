----------------------------- MODULE ThreadLife -----------------------------
(***************************************************************************)
(* What the scheduler, the exit paths and the reaper promise together, with *)
(* no ring, no reap list and no stacks: which thread has the CPU, and the   *)
(* phase of each process.                                                   *)
(***************************************************************************)
CONSTANTS Procs, Kthreads, Idle

VARIABLES running,   \* the thread that has the CPU
          phase      \* process -> none, alive, exited, collected

lifeVars == <<running, phase>>

Init ==
    /\ running = Idle
    /\ phase = [p \in Procs |-> "none"]

\* The shell starts a process in memory nothing else uses.
Start(p) ==
    /\ phase[p] = "none"
    /\ phase' = [phase EXCEPT ![p] = "alive"]
    /\ UNCHANGED running

\* The CPU goes to a kernel thread or to a process that has not exited.
Run(t) ==
    /\ t \in Kthreads \/ (t \in Procs /\ phase[t] = "alive")
    /\ running' = t
    /\ UNCHANGED phase

\* A process exits by itself, while it runs.
Exit(p) ==
    /\ running = p
    /\ phase[p] = "alive"
    /\ phase' = [phase EXCEPT ![p] = "exited"]
    /\ UNCHANGED running

\* Its address space goes while another thread runs, then the rest.
Collect(p) ==
    /\ phase[p] = "exited"
    /\ running # p
    /\ phase' = [phase EXCEPT ![p] = "collected"]
    /\ UNCHANGED running

Release(p) ==
    /\ phase[p] = "collected"
    /\ running # p
    /\ phase' = [phase EXCEPT ![p] = "none"]
    /\ UNCHANGED running

Next ==
    \/ \E t \in Procs \cup Kthreads : Run(t)
    \/ \E p \in Procs : Start(p) \/ Exit(p) \/ Collect(p) \/ Release(p)

Spec == Init /\ [][Next]_lifeVars
=============================================================================
