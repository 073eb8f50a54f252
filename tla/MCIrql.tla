------------------------------- MODULE MCIrql -------------------------------
(***************************************************************************)
(* Two threads, one spinlock besides the scheduler's and one nested in it. *)
(* The vectors of the class of IRQL_DISPATCH are the timer and the         *)
(* keyboard; 0xF0 is the serial line of the debugger, 0x0E a page fault.   *)
(***************************************************************************)
EXTENDS Irql, TLC

MCLocks == {Sched, "vma_spinlock", "pmm_spinlock"}

MCMachines == {{Timer, 33}, {Timer, 240, PageFault}}

MCUninit == {0, 2, 15}

ThreadSymmetry == Permutations(Threads)
=============================================================================
