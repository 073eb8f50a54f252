-------------------------------- MODULE Entry --------------------------------
(***************************************************************************)
(* The way into the kernel and back: the syscall and interrupt stubs       *)
(* (syscalls/syscalls.asm, interupts/interupts.asm, the FRED forms of      *)
(* both), what dispatch_interupt and schedule() do to GS, flags, registers *)
(* and stacks, access to user memory with its fault fixup                  *)
(* (utils/safe_user_funcs.c), the first switch of a process to user mode,  *)
(* and panic.                                                              *)
(*                                                                         *)
(* pc is the code the CPU executes, "user" or a place in the kernel; the   *)
(* timer comes wherever RFLAGS.IF lets it.  The kernel stack of a thread   *)
(* is memory, counted in frames from its top, so a frame pushed at the     *)
(* wrong place overwrites another.  Levels are the subject of Irql and the *)
(* ring of threads that of Scheduler: here schedule() takes any thread.    *)
(* A place that is read once is cleared by its reader.                     *)
(***************************************************************************)
EXTENDS Integers

CONSTANTS Threads,      \* threads that start a program and run it
          MaxLive,      \* bound on the calls and events that are live on one
                        \* stack; schedule() adds a frame
          MaxNested,    \* the same for a timer that comes before the cli of
                        \* an earlier event
          Program,      \* thread -> what its program does
          None          \* nobody

\* The stack of a thread: a system call starts where schedule() last left
\* krsp, below at most that many dead frames.
StackFrames == 2 * (MaxLive + 1)

\* What a program does: a call, and the memory its pointer argument names; a
\* fault of its own; or a change of its AC flag.
Calls == [call : {"print"}, mem : {"good", "unmapped", "kernel", "endless"}]
         \cup [call : {"read"}, mem : {"good", "unmapped", "kernel"}]
         \cup [call : {"sleep_ms", "get_ms", "unknown"}, mem : {"good"}]
Fault  == [call |-> "fault", mem |-> "unmapped"]
SetsAc == [call |-> "set_ac", mem |-> "good"]
NoCall == [call |-> "none", mem |-> "good"]

ASSUME EntryAssumption ==
    /\ MaxLive \in Nat \ {0} /\ MaxNested \in Nat /\ None \notin Threads
    /\ Program \in [Threads -> SUBSET (Calls \cup {Fault, SetsAc})]

VARIABLES
    fred, smap,      \* fred_enbled, cr4_smap_enabled
    current,         \* the CPU-local current_thread
    pc,
    rsp,             \* frames on the kernel stack, 0 in user mode
    usp,             \* whose user stack the user's rsp points into
    regs,            \* r15: whose value; r11: the AC in r11; rax
    rflags,          \* AC and IF
    gs,              \* the base in GS: the program's or the kernel's
    scratch,         \* the CPU-local syscall_scratch_space
    krsp, ursp,      \* thread -> its fields
    kstack,          \* thread -> depth -> frame
    panic_count,
    asked,           \* history: thread -> the call it is in
    copied,          \* history: thread -> that call copied the user's bytes
    uac              \* thread -> the AC flag of the program

machine == <<fred, smap>>
hist    == <<asked, copied, uac>>
vars    == <<machine, current, pc, rsp, usp, regs, rflags, gs, scratch, krsp,
             ursp, kstack, panic_count, hist>>

Does(x) == pc = "user" /\ x \in Program[current]

Other(base) == IF base = "user" THEN "kernel" ELSE "user"

\* The registers while compiled code of the kernel runs: nobody's.
Clobbered == [r15 |-> None, r11 |-> FALSE, rax |-> "nr"]

\* What a place of the stack holds that nothing was pushed to.
NoFrame == [pc |-> "none", regs |-> Clobbered, usp |-> None,
            rflags |-> [ac |-> FALSE, if |-> FALSE], below |-> 0, live |-> 0]

\* live: how many frames are in use up to this one
Frame(to, below, live) ==
    [pc |-> to, regs |-> regs, usp |-> usp, rflags |-> rflags, below |-> below,
     live |-> live]
Top  == kstack[current][rsp]
Live == IF rsp = 0 \/ pc = "exit" THEN 0 ELSE Top.live

\* Steps of kernel C code change the place, the flags and what it writes.
Goto(label) == pc' = label /\ UNCHANGED <<machine, current, rsp, usp, gs,
                                          scratch, krsp, ursp>>
Ac(b)       == rflags' = [rflags EXCEPT !.ac = IF smap THEN b ELSE @]

-----------------------------------------------------------------------------
(* Interrupts and exceptions *)

\* An event is delivered: from user mode on the stack at its top (TSS.rsp0 or
\* FRED_RSP0), from the kernel where it is.  Then dispatch_interupt up to sti.
\* swapgs and clac follow the privilege that was interrupted; FRED swaps GS
\* and clears the flags itself.
Deliver(handler) ==
    LET d == IF pc = "user" THEN 1 ELSE rsp + 1
    IN  /\ Live < MaxLive
        /\ kstack' = [kstack EXCEPT ![current][d] = Frame(pc, rsp, Live + 1)]
        /\ rsp' = d
        /\ pc' = handler
        /\ gs' = IF pc = "user" THEN Other(gs) ELSE gs
        /\ rflags' = [ac |-> IF fred \/ (pc = "user" /\ smap) THEN FALSE ELSE rflags.ac,
                      if |-> TRUE]
        /\ regs' = Clobbered /\ usp' = None
        /\ UNCHANGED <<machine, current, scratch, krsp, ursp, panic_count, hist>>

\* The timer, which its own handler masks until schedule() lowers the level.
Timer ==
    /\ rflags.if /\ pc # "timer"
    /\ pc = "iret" => Live < MaxNested
    /\ Deliver("timer")

\* The program touches memory it does not have.
UserFault == Does(Fault) /\ Deliver("fault")

\* schedule(), with the scheduler's lock held: no event comes in between.
\* thread_switch pushes, saves rsp in krsp, and goes on where the other thread
\* left off.  RFLAGS are not switched.
ThreadSwitch(t, after) ==
    IF t = current
    THEN Goto(after) /\ UNCHANGED <<rflags, regs, kstack, panic_count, hist>>
    ELSE LET f == kstack[t][krsp[t]]
         IN  /\ kstack' = [kstack EXCEPT ![current][rsp + 1] = Frame(after, rsp, Live + 1),
                                         ![t][krsp[t]] = NoFrame]
             /\ krsp' = [krsp EXCEPT ![current] = rsp + 1]
             /\ current' = t
             /\ rsp' = f.below /\ pc' = f.pc /\ regs' = f.regs
             /\ UNCHANGED <<machine, usp, rflags, gs, scratch, ursp,
                            panic_count, hist>>

TimerIsr(t) == pc = "timer" /\ ThreadSwitch(t, "iret")

\* The program is back with the registers r and takes its answer.
Answered(r) ==
    /\ regs' = [r EXCEPT !.rax = "nr"]
    /\ asked' = [asked EXCEPT ![current] = NoCall]
    /\ copied' = [copied EXCEPT ![current] = FALSE]
    /\ UNCHANGED uac

\* Back to what frame f interrupted, with the flags fl.
Resume(f, fl) ==
    /\ pc' = f.pc /\ usp' = f.usp /\ rflags' = fl
    /\ rsp' = IF f.pc = "user" THEN 0 ELSE f.below
    /\ gs' = IF f.pc = "user" THEN Other(gs) ELSE gs
    /\ kstack' = [kstack EXCEPT ![current][rsp] = NoFrame]
    /\ IF f.pc = "user" THEN Answered(f.regs)
                        ELSE regs' = f.regs /\ UNCHANGED hist
    /\ UNCHANGED <<machine, current, scratch, krsp, ursp, panic_count>>

\* The end of dispatch_interupt and of the stub: cli, swapgs towards a program,
\* the registers and the interrupt frame.
Iret == pc = "iret" /\ ~fred /\ Resume(Top, Top.rflags)

\* Mutant: the flags are not copied to the iFrame that they are copied from.
FredReturnForgetsFlags ==
    /\ pc = "iret" /\ fred
    /\ Resume(Top, [Top.rflags EXCEPT !.ac = FALSE])

\* The same with FRED: what dispatch_interupt has left in iFrame goes into the
\* frame that eretu or erets returns to.
FredReturn == pc = "iret" /\ fred /\ Resume(Top, Top.rflags)

-----------------------------------------------------------------------------
(* System calls *)

Ask(c) == /\ asked' = [asked EXCEPT ![current] = c]
          /\ copied' = [copied EXCEPT ![current] = FALSE]
          /\ UNCHANGED uac

\* The syscall instruction (SFMASK clears IF and leaves AC) and the handler up
\* to the use of current_thread.
Syscall(c) ==
    /\ Does(c) /\ ~fred
    /\ Ask(c)
    /\ pc' = "entry"
    /\ gs' = Other(gs)
    /\ scratch' = regs.r15
    /\ regs' = [r15 |-> None, r11 |-> rflags.ac, rax |-> "nr"]
    /\ rflags' = [rflags EXCEPT !.if = FALSE]
    /\ UNCHANGED <<machine, current, rsp, usp, krsp, ursp, kstack, panic_count>>

\* Mutant: the user's rsp is kept in one place for all threads.
SyscallEntryShared ==
    /\ pc = "entry"
    /\ ursp' = [t \in Threads |-> usp]
    /\ LET d == krsp[current] + 1 IN
         /\ rsp' = d
         /\ kstack' = [kstack EXCEPT ![current][d] =
                          [Frame("user", d - 1, 1) EXCEPT !.regs.r15 = scratch]]
    /\ pc' = "execute"
    /\ rflags' = [rflags EXCEPT !.if = TRUE]
    /\ regs' = Clobbered /\ usp' = None /\ scratch' = None
    /\ UNCHANGED <<machine, current, gs, krsp, panic_count, hist>>

\* The rest of the entry: both stack pointers in the thread, the registers on
\* its stack, sti.
SyscallEntry ==
    /\ pc = "entry"
    /\ ursp' = [ursp EXCEPT ![current] = usp]
    /\ LET d == krsp[current] + 1 IN
         /\ rsp' = d
         /\ kstack' = [kstack EXCEPT ![current][d] =
                          [Frame("user", d - 1, 1) EXCEPT !.regs.r15 = scratch]]
    /\ pc' = "execute"
    /\ rflags' = [rflags EXCEPT !.if = TRUE]
    /\ regs' = Clobbered /\ usp' = None /\ scratch' = None
    /\ UNCHANGED <<machine, current, gs, krsp, panic_count, hist>>

\* The same call as a FRED event of type 7.
FredSyscall(c) ==
    /\ Does(c) /\ fred
    /\ Ask(c)
    /\ kstack' = [kstack EXCEPT ![current][1] = [Frame("user", 0, 1) EXCEPT !.regs.rax = "nr"]]
    /\ rsp' = 1 /\ pc' = "execute"
    /\ gs' = Other(gs)
    /\ rflags' = [ac |-> FALSE, if |-> TRUE]
    /\ regs' = Clobbered /\ usp' = None
    /\ UNCHANGED <<machine, current, scratch, krsp, ursp, panic_count>>

\* A handler is done: frame->rax, and back to the stub.
Done(rax) == /\ Goto("ret")
             /\ kstack' = [kstack EXCEPT ![current][rsp].regs.rax = rax]
             /\ UNCHANGED <<regs, panic_count, asked, uac>>
Plain(label) == Goto(label) /\ UNCHANGED <<regs, kstack, panic_count, hist>>

\* execute_syscall: clac, and the handler of the number or -1.
ExecuteSyscall ==
    /\ pc = "execute" /\ Ac(FALSE)
    /\ CASE asked[current].call = "print"    -> Plain("strlen_user")
         [] asked[current].call = "read"     -> Plain("copy_user")
         [] asked[current].call = "sleep_ms" -> Plain("sleep")
         [] asked[current].call = "get_ms"   -> Done("ok") /\ UNCHANGED copied
         [] OTHER                            -> Done("-1") /\ UNCHANGED copied

SysSleepMs(t) == pc = "sleep" /\ ThreadSwitch(t, "ret")

\* Mutant: interrupts stay enabled on the way out.
SyscallReturnOpen ==
    /\ pc = "ret" /\ ~fred
    /\ pc' = "exit"
    /\ regs' = Top.regs /\ scratch' = Top.regs.r15
    /\ rsp' = Top.below
    /\ kstack' = [kstack EXCEPT ![current][rsp] = NoFrame]
    /\ UNCHANGED <<machine, current, usp, rflags, gs, krsp, ursp, panic_count, hist>>

\* cli, the registers, and r15 once more through the scratch space.
SyscallReturn ==
    /\ pc = "ret" /\ ~fred
    /\ pc' = "exit"
    /\ rflags' = [rflags EXCEPT !.if = FALSE]
    /\ regs' = Top.regs /\ scratch' = Top.regs.r15
    /\ rsp' = Top.below
    /\ kstack' = [kstack EXCEPT ![current][rsp] = NoFrame]
    /\ UNCHANGED <<machine, current, usp, gs, krsp, ursp, panic_count, hist>>

SyscallExit ==
    /\ pc = "exit"
    /\ krsp' = [krsp EXCEPT ![current] = rsp]
    /\ rsp' = 0 /\ usp' = ursp[current]
    /\ regs' = [regs EXCEPT !.r15 = scratch]
    /\ ursp' = [ursp EXCEPT ![current] = None] /\ scratch' = None
    /\ gs' = Other(gs)
    /\ pc' = "sysret"
    /\ UNCHANGED <<machine, current, rflags, kstack, panic_count, hist>>

Sysret ==
    /\ pc = "sysret"
    /\ pc' = "user"
    /\ rflags' = [ac |-> regs.r11, if |-> TRUE]
    /\ Answered(regs)
    /\ UNCHANGED <<machine, current, rsp, usp, gs, scratch, krsp, ursp, kstack,
                   panic_count>>

\* fred_ring3_entry copies sysFrame back and returns.
FredSyscallReturn ==
    /\ pc = "ret" /\ fred
    /\ Goto("iret")
    /\ UNCHANGED <<regs, rflags, kstack, panic_count, hist>>

-----------------------------------------------------------------------------
(* User memory *)

Mem == asked[current].mem

\* strlen_user and sys_print's way out of a bad pointer.
StrlenUser ==
    /\ pc = "strlen_user"
    /\ IF Mem = "kernel" THEN Done("-1") /\ UNCHANGED <<rflags, copied>>
                         ELSE Plain("safe_strlen") /\ Ac(TRUE)

\* An instruction that touches the program's memory: with SMAP it needs AC.
Access == (smap => rflags.ac) /\ Mem # "unmapped"

SafeStrlen ==
    /\ pc = "safe_strlen"
    /\ IF Access THEN /\ Plain(IF Mem = "endless" THEN "strlen_fail" ELSE "strlen_ok")
                      /\ UNCHANGED rflags
                 ELSE Deliver("fault")

\* clac; the block for the copy is always there, see Heap.
StrlenRet ==
    \/ pc = "strlen_ok" /\ Plain("copy_user") /\ Ac(FALSE)
    \/ pc = "strlen_fail" /\ Done("-1") /\ Ac(FALSE) /\ UNCHANGED copied

\* What a call answers when its copy has worked or not: sys_read does not look.
Answer(ok) == IF ok \/ asked[current].call = "read" THEN "ok" ELSE "-1"

\* copy_from_user and copy_to_user.
CopyUser ==
    /\ pc = "copy_user"
    /\ IF Mem = "kernel" THEN Done(Answer(FALSE)) /\ UNCHANGED <<rflags, copied>>
                         ELSE Plain("safe_memcpy") /\ Ac(TRUE)

SafeMemcpy ==
    /\ pc = "safe_memcpy"
    /\ IF Access THEN Plain("memcpy_ok") /\ UNCHANGED rflags ELSE Deliver("fault")

CopyRet ==
    /\ pc \in {"memcpy_ok", "memcpy_fail"} /\ Ac(FALSE)
    /\ Done(Answer(pc = "memcpy_ok"))
    /\ copied' = [copied EXCEPT ![current] = (pc = "memcpy_ok")]

Fixup == [safe_memcpy |-> "memcpy_fail", safe_strlen |-> "strlen_fail"]

\* page_fault_isr and gp_fault_isr.
FaultIsr ==
    /\ pc = "fault"
    /\ IF Top.pc \in DOMAIN Fixup
       THEN /\ Goto("iret")
            /\ kstack' = [kstack EXCEPT ![current][rsp].pc = Fixup[Top.pc]]
       ELSE Goto("panic") /\ UNCHANGED kstack
    /\ UNCHANGED <<rflags, regs, panic_count, hist>>

-----------------------------------------------------------------------------
(* A process begins, and the machine ends *)

\* spawn_app_kthread once the program is loaded.
SpawnApp == pc = "spawn" /\ Plain("build_stack") /\ Ac(TRUE)

\* The arguments on the user stack, by stores that have no fixup.
BuildStack ==
    /\ pc = "build_stack"
    /\ IF smap => rflags.ac THEN Plain("to_user") /\ Ac(FALSE) ELSE Deliver("fault")

\* switch_to_user and fred_switch_to_user; krsp stays where it is.
SwitchToUser ==
    /\ pc = "to_user"
    /\ pc' = "user" /\ rsp' = 0 /\ usp' = current
    /\ gs' = Other(gs)
    /\ regs' = [r15 |-> current, r11 |-> FALSE, rax |-> "nr"]
    /\ rflags' = [ac |-> FALSE, if |-> TRUE]
    /\ UNCHANGED <<machine, current, scratch, krsp, ursp, kstack, panic_count, hist>>

\* The program may set the alignment check for itself.
SetAc ==
    /\ Does(SetsAc)
    /\ uac' = [uac EXCEPT ![current] = ~@]
    /\ rflags' = [rflags EXCEPT !.ac = ~@]
    /\ UNCHANGED <<machine, current, pc, rsp, usp, regs, gs, scratch, krsp, ursp,
                   kstack, panic_count, asked, copied>>

\* Mutant: the panic does not begin with cli.
PanicOpen ==
    /\ pc = "panic"
    /\ panic_count' = IF panic_count = 0 THEN 1 ELSE panic_count
    /\ Goto(IF panic_count = 0 THEN "stack_trace" ELSE "hlt")
    /\ UNCHANGED <<rflags, regs, kstack, hist>>

\* panic_interrupt_frame: cli, and the short form if a panic is going on.
Panic ==
    /\ pc = "panic"
    /\ rflags' = [rflags EXCEPT !.if = FALSE]
    /\ panic_count' = IF panic_count = 0 THEN 1 ELSE panic_count
    /\ Goto(IF panic_count = 0 THEN "stack_trace" ELSE "hlt")
    /\ UNCHANGED <<regs, kstack, hist>>

\* The walk over the saved frame pointers: any register content of a program
\* may stand at their end, and be followed if it is larger.
StackTrace ==
    /\ pc = "stack_trace"
    /\ \/ Plain("hlt") /\ UNCHANGED rflags
       \/ Deliver("fault")

Halted == pc = "hlt" /\ ~rflags.if /\ UNCHANGED vars

\* One thread runs spawn_app_kthread, the others wait in the context that
\* create_thread made for them.
Init ==
    /\ fred \in BOOLEAN /\ smap \in BOOLEAN
    /\ current \in Threads
    /\ pc = "spawn" /\ rsp = 0 /\ usp = None
    /\ regs = Clobbered
    /\ rflags = [ac |-> FALSE, if |-> TRUE]
    /\ gs = "kernel" /\ scratch = None
    /\ krsp = [t \in Threads |-> 1]
    /\ ursp = [t \in Threads |-> None]
    /\ kstack = [t \in Threads |-> [d \in 1..StackFrames |->
                    IF t # current /\ d = 1 THEN Frame("spawn", 0, 1) ELSE NoFrame]]
    /\ panic_count = 0
    /\ asked = [t \in Threads |-> NoCall]
    /\ copied = [t \in Threads |-> FALSE]
    /\ uac = [t \in Threads |-> FALSE]

Next ==
    \/ Timer \/ UserFault \/ \E t \in Threads : TimerIsr(t) \/ SysSleepMs(t)
    \/ Iret \/ FredReturn
    \/ \E c \in Calls : Syscall(c) \/ FredSyscall(c)
    \/ SyscallEntry \/ ExecuteSyscall \/ SyscallReturn \/ SyscallExit \/ Sysret
    \/ FredSyscallReturn
    \/ StrlenUser \/ SafeStrlen \/ StrlenRet
    \/ CopyUser \/ SafeMemcpy \/ CopyRet \/ FaultIsr
    \/ SpawnApp \/ BuildStack \/ SwitchToUser \/ SetAc
    \/ Panic \/ StackTrace \/ Halted

Spec == Init /\ [][Next]_vars

-----------------------------------------------------------------------------
(* Properties *)

\* Every handler, and every call of schedule(), has the kernel's GS, for
\* CPU-local variables are read through it, and room on its stack: krsp does not
\* wander towards the bottom, however calls, interrupts and switches alternate.
KernelContext ==
    /\ pc \notin {"user", "sysret"} => gs = "kernel"
    /\ rsp <= StackFrames /\ \A t \in Threads : krsp[t] <= StackFrames

\* Whatever happened in between, the program goes on with its own register
\* contents, its own stack, its own flags and its own GS.
UserStateComesBack ==
    pc = "user" =>
        /\ regs.r15 = current /\ usp = current
        /\ rflags = [ac |-> uac[current], if |-> TRUE]
        /\ gs = "user"

Returning == pc = "sysret" \/ (pc = "iret" /\ Top.pc = "user")

\* A call copies the bytes exactly if the program's pointer is good, preempted
\* or not, and its answer says what happened; a bad pointer ends in that answer
\* and never in a panic, which only a program's own fault brings about.
ResultIsExact ==
    /\ Returning /\ asked[current].call \in {"print", "read"} =>
         /\ copied[current] = (Mem = "good")
         /\ (IF fred THEN Top.regs ELSE regs).rax = Answer(copied[current])
    /\ pc = "panic" => Top.pc \in {"user", "stack_trace"}

\* A panic is the end: nothing else runs afterwards, unless the stack trace
\* itself faults.
PanicIsFinal ==
    panic_count > 0 =>
        \/ pc \in {"stack_trace", "hlt"} /\ ~rflags.if
        \/ \E t \in Threads, d \in 1..StackFrames :
              kstack[t][d].pc = "stack_trace"
=============================================================================
