------------------------------ MODULE Scheduler ------------------------------
(***************************************************************************)
(* The thread ring of the kernel: create_thread, schedule and the switch   *)
(* of stacks (scheduler/scheduler.c, scheduler/switch.asm), the sleep and  *)
(* exit system calls, the reaper thread, and the timer interrupt that      *)
(* preempts whatever runs.                                                 *)
(*                                                                         *)
(* There is one CPU.  schedule() runs with scheduler_spinlock held at      *)
(* IRQL_DISPATCH, which masks the timer, so its loops are taken one        *)
(* iteration per step with every other action disabled; every other step   *)
(* is a piece of code between two points where the timer may preempt.      *)
(*                                                                         *)
(* A stack is named after the thread struct that owns it; Boot is the      *)
(* stack kmain runs on, the page map kernel_pagemap and the user register  *)
(* contents at boot.                                                       *)
(***************************************************************************)
EXTENDS Integers, Links

CONSTANTS Procs,     \* thread structs (heap addresses) for user processes
          Idle,      \* the thread struct made for idle_thread
          Reaper,    \* the thread struct of reaper_thread
          Shell,     \* the thread struct of start_shell
          Boot,      \* kmain's own context
          MaxSleep   \* bound on the milliseconds a process asks to sleep

Kthreads == {Idle, Reaper, Shell}
Threads  == Procs \cup Kthreads
Stacks   == Threads \cup {Boot}

ASSUME SchedulerAssumption ==
    /\ Idle # Reaper /\ Idle # Shell /\ Reaper # Shell
    /\ Kthreads \cap Procs = {}
    /\ Boot \notin Threads /\ NULL \notin Threads /\ Boot # NULL
    /\ MaxSleep \in Nat

Resources == {"pagemap", "fds", "stack", "struct"}

\* "BASH" puts the shell to sleep until 999999999999999 ms: never.
Forever == MaxSleep + 1

VARIABLES
    threads,          \* head of the ring: the thread that runs
    next_thread,      \* thread -> its successor (ring or reap list)
    thread_state,     \* thread -> THREAD_STATE_*
    sleep_left,       \* thread -> max(0, sleep_awake_time - timer_get_ms())
    krsp,             \* thread -> the stack its saved rsp points into
    current_thread,   \* the CPU-local pointer the syscall entry uses
    threads_to_reap,  \* head of the reap list
    victim,           \* the thread the reaper took off the list
    held,             \* thread -> its resources that are allocated
    rsp,              \* the stack the CPU executes on
    cr3,              \* owner of the page map in use
    rsp0,             \* owner of tss.rsp0, the stack of user interrupts
    uregs,            \* owner of the FPU and FSBASE contents
    usaved,           \* thread -> owner of its fpu_state and fsbase
    pc,               \* stack -> what its code does next
    creating,         \* create_thread's new_thread and had_threads
    sched,            \* schedule()'s place and previous_thread
    dbgstub,          \* "off" if not dbgstub_enabled; else dbgstub_paused or not
    panicked,         \* sys_exit's panic was reached
    linked,           \* history: threads on the ring
    skipped,          \* history: sleepers passed over by this schedule()
    queued            \* history: threads on the reap list

ring == <<threads, next_thread, linked, skipped>>
cpu  == <<rsp, cr3, rsp0, uregs, usaved, krsp, current_thread>>
reap == <<threads_to_reap, queued, victim, held>>
vars == <<ring, cpu, reap, thread_state, sleep_left, pc, creating, sched,
          dbgstub, panicked>>

Off == [at |-> "off", prev |-> NULL]
NotCreating == [new |-> NULL, had_threads |-> FALSE]

-----------------------------------------------------------------------------
(* schedule() *)

\* Mutant: the head of the ring does not move.
EnterScheduleInPlace ==
    /\ sched' = [at |-> "skip", prev |-> threads]
    /\ skipped' = {}
    /\ UNCHANGED <<threads, next_thread, linked>>

\* A call of schedule(): an early return while the debugger holds the
\* machine, else the ring's head moves on and the loops begin.
EnterSchedule ==
    IF dbgstub = "paused"
    THEN UNCHANGED <<sched, ring>>
    ELSE /\ sched' = [at |-> "skip", prev |-> threads]
         /\ threads' = next_thread[threads]
         /\ skipped' = {}
         /\ UNCHANGED <<next_thread, linked>>

\* while (threads->sleep_awake_time > timer_get_ms()): pass over a sleeper;
\* previous_thread stays where it is.
SkipSleeper ==
    /\ sched.at = "skip"
    /\ IF sleep_left[threads] > 0
       THEN /\ threads' = next_thread[threads]
            /\ skipped' = skipped \cup {threads}
            /\ UNCHANGED sched
       ELSE /\ sched' = [sched EXCEPT !.at = "reap"]
            /\ UNCHANGED <<threads, skipped>>
    /\ UNCHANGED <<next_thread, linked, cpu, reap, thread_state, sleep_left,
                   pc, creating, dbgstub, panicked>>

\* while (next_thread->thread_state == THREAD_STATE_REAPING): previous_thread
\* is linked past it, so what lies between the two leaves the ring as well;
\* it becomes the head of the reap list.
ReapNext ==
    /\ sched.at = "reap"
    /\ thread_state[threads] = "REAPING"
    /\ next_thread' = [next_thread EXCEPT ![sched.prev] = next_thread[threads],
                                          ![threads] = threads_to_reap]
    /\ threads' = next_thread[threads]
    /\ threads_to_reap' = threads
    /\ queued' = queued \cup {threads}
    /\ linked' = linked \ (skipped \cup {threads})
    /\ skipped' = {}
    /\ UNCHANGED <<victim, held, cpu, thread_state, sleep_left, pc, creating,
                   sched, dbgstub, panicked>>

Pagemap(t) == IF t \in Procs THEN t ELSE Boot

\* Mutant: kernel threads borrow the page map that happens to be loaded.
SwitchToLazyPagemap(prev, next) ==
    /\ cr3' = IF next \in Procs THEN next ELSE cr3
    /\ rsp0' = next
    /\ usaved' = IF prev \in Procs THEN [usaved EXCEPT ![prev] = uregs]
                                   ELSE usaved
    /\ uregs' = IF next \in Procs THEN usaved'[next] ELSE uregs
    /\ current_thread' = next
    /\ krsp' = [krsp EXCEPT ![prev] = rsp]
    /\ rsp' = krsp[next]

\* Mutant: the user registers are restored before they are saved.
SwitchToRestoreFirst(prev, next) ==
    /\ cr3' = Pagemap(next)
    /\ rsp0' = next
    /\ uregs' = IF next \in Procs THEN usaved[next] ELSE uregs
    /\ usaved' = IF prev \in Procs THEN [usaved EXCEPT ![prev] = uregs']
                                   ELSE usaved
    /\ current_thread' = next
    /\ krsp' = [krsp EXCEPT ![prev] = rsp]
    /\ rsp' = krsp[next]

\* The rest of schedule(): page map, interrupt stack, user registers,
\* current_thread and thread_switch, which releases the lock after it has
\* left the old stack.
SwitchTo(prev, next) ==
    /\ cr3' = Pagemap(next)
    /\ rsp0' = next
    /\ usaved' = IF prev \in Procs THEN [usaved EXCEPT ![prev] = uregs]
                                   ELSE usaved
    /\ uregs' = IF next \in Procs THEN usaved'[next] ELSE uregs
    /\ current_thread' = next
    /\ krsp' = [krsp EXCEPT ![prev] = rsp]
    /\ rsp' = krsp[next]

Dispatch ==
    /\ sched.at = "reap"
    /\ thread_state[threads] # "REAPING"
    /\ IF threads = sched.prev THEN UNCHANGED cpu
                               ELSE SwitchTo(sched.prev, threads)
    /\ sched' = Off
    /\ UNCHANGED <<ring, reap, thread_state, sleep_left, pc, creating,
                   dbgstub, panicked>>

-----------------------------------------------------------------------------
(* Code that runs on a stack while schedule() is not active *)

Ready(s) == sched.at = "off" /\ rsp = s /\ ~panicked

Goto(s, label) == pc' = [pc EXCEPT ![s] = label]

\* Mutant: the state of a thread whose struct is reused is not reset.
CreateAllocStaleState(s, t, label) ==
    /\ held[t] = {}
    /\ held' = [held EXCEPT ![t] = IF t \in Procs THEN Resources
                                   ELSE Resources \ {"pagemap"}]
    /\ creating' = [new |-> t, had_threads |-> threads # NULL]
    /\ sleep_left' = [sleep_left EXCEPT ![t] = 0]
    /\ krsp' = [krsp EXCEPT ![t] = t]
    /\ usaved' = [usaved EXCEPT ![t] = t]
    /\ pc' = [pc EXCEPT ![s] = label, ![t] = IF t \in Procs THEN "load"
                                            ELSE "start"]
    /\ next_thread' = [next_thread EXCEPT ![t] = NULL]
    /\ UNCHANGED <<thread_state, threads, linked, skipped, rsp, cr3, rsp0,
                   uregs, current_thread, threads_to_reap, queued, victim,
                   sched, dbgstub, panicked>>

\* create_thread up to its lock: had_threads is read here.
CreateAlloc(s, t, label) ==
    /\ held[t] = {}
    /\ held' = [held EXCEPT ![t] = IF t \in Procs THEN Resources
                                   ELSE Resources \ {"pagemap"}]
    /\ creating' = [new |-> t, had_threads |-> threads # NULL]
    /\ thread_state' = [thread_state EXCEPT ![t] = "RUNNING"]
    /\ sleep_left' = [sleep_left EXCEPT ![t] = 0]
    /\ krsp' = [krsp EXCEPT ![t] = t]
    /\ usaved' = [usaved EXCEPT ![t] = t]
    /\ pc' = [pc EXCEPT ![s] = label, ![t] = IF t \in Procs THEN "load"
                                            ELSE "start"]
    /\ next_thread' = [next_thread EXCEPT ![t] = NULL]
    /\ UNCHANGED <<threads, linked, skipped, rsp, cr3, rsp0, uregs,
                   current_thread, threads_to_reap, queued, victim, sched,
                   dbgstub, panicked>>

\* Mutant: the two pointer writes of the insertion are swapped.
CreateLinkSwapped(s, label) ==
    LET new == creating.new IN
    /\ IF creating.had_threads
       THEN /\ next_thread' = [next_thread EXCEPT ![threads] = new,
                                                  ![new] = new]
            /\ UNCHANGED threads
       ELSE /\ threads' = new
            /\ next_thread' = [next_thread EXCEPT ![new] = new]
    /\ linked' = linked \cup {new}
    /\ creating' = NotCreating
    /\ Goto(s, label)
    /\ UNCHANGED <<skipped, cpu, reap, thread_state, sleep_left, sched,
                   dbgstub, panicked>>

\* create_thread under scheduler_spinlock.
CreateLink(s, label) ==
    LET new == creating.new IN
    /\ IF creating.had_threads
       THEN /\ next_thread' = [next_thread EXCEPT
                                 ![new] = next_thread[threads],
                                 ![threads] = new]
            /\ UNCHANGED threads
       ELSE /\ threads' = new
            /\ next_thread' = [next_thread EXCEPT ![new] = new]
    /\ linked' = linked \cup {new}
    /\ creating' = NotCreating
    /\ Goto(s, label)
    /\ UNCHANGED <<skipped, cpu, reap, thread_state, sleep_left, sched,
                   dbgstub, panicked>>

\* kmain makes the three kernel threads, sets shouldSchedule and becomes,
\* through the first switch, the thread the ring calls idle.
Kmain ==
    /\ Ready(Boot)
    /\ \/ pc[Boot] = "boot" /\ CreateAlloc(Boot, Idle, "link_idle")
       \/ pc[Boot] = "link_idle" /\ CreateLink(Boot, "make_reaper")
       \/ pc[Boot] = "make_reaper" /\ CreateAlloc(Boot, Reaper, "link_reaper")
       \/ pc[Boot] = "link_reaper" /\ CreateLink(Boot, "make_shell")
       \/ pc[Boot] = "make_shell" /\ CreateAlloc(Boot, Shell, "link_shell")
       \/ pc[Boot] = "link_shell" /\ CreateLink(Boot, "idle")

shouldSchedule == pc[Boot] = "idle"

\* A thread at label "from" calls schedule() and continues at "to".
Yield(s, from, to) ==
    /\ Ready(s)
    /\ pc[s] = from
    /\ Goto(s, to)
    /\ EnterSchedule
    /\ UNCHANGED <<cpu, reap, thread_state, sleep_left, creating, dbgstub,
                   panicked>>

\* get_current_thread()->sleep_awake_time = ...; the caller then yields.
SetSleep(s, ms, to) ==
    /\ sleep_left' = [sleep_left EXCEPT ![threads] = ms]
    /\ Goto(s, to)
    /\ UNCHANGED <<ring, cpu, reap, thread_state, creating, sched, dbgstub,
                   panicked>>

\* get_current_thread()->thread_state = THREAD_STATE_REAPING.
SetReaping(s, to) ==
    /\ thread_state' = [thread_state EXCEPT ![threads] = "REAPING"]
    /\ Goto(s, to)
    /\ UNCHANGED <<ring, cpu, reap, sleep_left, creating, sched, dbgstub,
                   panicked>>

\* The kernel shell: start a process, poll the keyboard, or hand over to bash.
ShellStep ==
    \/ /\ Ready(Shell)
       /\ \/ pc[Shell] = "start" /\ \E p \in Procs :
                                      CreateAlloc(Shell, p, "link")
          \/ pc[Shell] = "link" /\ CreateLink(Shell, "start")
          \/ pc[Shell] = "start" /\ SetSleep(Shell, Forever, "bash")
    \/ Yield(Shell, "start", "start")
    \/ Yield(Shell, "bash", "start")

\* spawn_app_kthread either enters user mode, where switch_to_user loads
\* fresh FPU state, or returns into task_quit when the ELF file is bad.
LoadStep(p) ==
    /\ Ready(p)
    /\ pc[p] = "load"
    /\ \/ /\ uregs' = p
          /\ Goto(p, "user")
          /\ UNCHANGED <<ring, reap, rsp, cr3, rsp0, usaved, krsp,
                         current_thread, thread_state, sleep_left, creating,
                         sched, dbgstub, panicked>>
       \/ SetReaping(p, "quit")

\* System calls of a process (sys_do_hacky_stdin sleeps for 1 ms the same
\* way), and task_quit's loop.
ProcStep(p) ==
    \/ /\ Ready(p)
       /\ pc[p] = "user"
       /\ \/ \E ms \in 0..MaxSleep : SetSleep(p, ms, "sleep")
          \/ SetReaping(p, "exit")
    \/ Yield(p, "sleep", "user")
    \/ Yield(p, "exit", "ran_after_exit")
    \/ Yield(p, "quit", "quit")

\* panic("Thread in reaping process ran")
ExitPanic(p) ==
    /\ Ready(p)
    /\ pc[p] = "ran_after_exit"
    /\ panicked' = TRUE
    /\ UNCHANGED <<ring, cpu, reap, thread_state, sleep_left, pc, creating,
                   sched, dbgstub>>

\* reaper_thread frees one resource of its victim per step.
Free(resource, from, to) ==
    /\ pc[Reaper] = from
    /\ held' = [held EXCEPT ![victim] = @ \ {resource}]
    /\ Goto(Reaper, to)
    /\ UNCHANGED <<ring, cpu, threads_to_reap, queued, victim,
                   thread_state, sleep_left, creating, sched, dbgstub, panicked>>

GetNextThreadToReap ==
    /\ pc[Reaper] = "start"
    /\ threads_to_reap # NULL
    /\ victim' = threads_to_reap
    /\ threads_to_reap' = next_thread[threads_to_reap]
    /\ queued' = queued \ {threads_to_reap}
    /\ next_thread' = [next_thread EXCEPT ![threads_to_reap] = NULL]
    /\ Goto(Reaper, "pagemap")
    /\ UNCHANGED <<threads, linked, skipped, held, cpu, thread_state,
                   sleep_left, creating, sched, dbgstub, panicked>>

\* Mutant: the reaper forgets the file descriptor table.
ReaperStepLeaksFds ==
    \/ /\ Ready(Reaper)
       /\ \/ GetNextThreadToReap
          \/ Free("pagemap", "pagemap", "stack")
          \/ Free("stack", "stack", "struct")
          \/ Free("struct", "struct", "start")
    \/ threads_to_reap = NULL /\ Yield(Reaper, "start", "start")

ReaperStep ==
    \/ /\ Ready(Reaper)
       /\ \/ GetNextThreadToReap
          \/ Free("pagemap", "pagemap", "fds")
          \/ Free("fds", "fds", "stack")
          \/ Free("stack", "stack", "struct")
          \/ Free("struct", "struct", "start")
    \/ threads_to_reap = NULL /\ Yield(Reaper, "start", "start")

\* The timer interrupt: one more millisecond, and schedule() on the stack of
\* whatever it interrupted, which goes on from where it was.
TimerInterrupt ==
    /\ sched.at = "off" /\ ~panicked
    /\ shouldSchedule
    /\ sleep_left' = [t \in Threads |->
                        IF sleep_left[t] \in 1..MaxSleep THEN sleep_left[t] - 1
                        ELSE sleep_left[t]]
    /\ EnterSchedule
    /\ UNCHANGED <<cpu, reap, thread_state, pc, creating, dbgstub, panicked>>

\* kmain's loop sets irq_should_preempt before hlt, so any other interrupt
\* that wakes it ends in schedule() too.
DeviceInterrupt ==
    /\ Ready(Boot)
    /\ shouldSchedule
    /\ EnterSchedule
    /\ UNCHANGED <<cpu, reap, thread_state, sleep_left, pc, creating, dbgstub,
                   panicked>>

\* gdb interrupts or steps the machine ('\003', "$s"), or continues ("$c").
Debugger ==
    /\ dbgstub # "off" /\ sched.at = "off" /\ ~panicked
    /\ dbgstub' = IF dbgstub = "paused" THEN "running" ELSE "paused"
    /\ UNCHANGED <<ring, cpu, reap, thread_state, sleep_left, pc, creating,
                   sched, panicked>>

Halted == panicked /\ UNCHANGED vars

-----------------------------------------------------------------------------
Init ==
    /\ threads = NULL
    /\ next_thread = [t \in Threads |-> NULL]
    /\ thread_state = [t \in Threads |-> "RUNNING"]
    /\ sleep_left = [t \in Threads |-> 0]
    /\ krsp = [t \in Threads |-> t]
    /\ current_thread = NULL
    /\ threads_to_reap = NULL
    /\ victim = NULL
    /\ held = [t \in Threads |-> {}]
    /\ rsp = Boot /\ cr3 = Boot /\ rsp0 = Boot /\ uregs = Boot
    /\ usaved = [t \in Threads |-> t]
    /\ pc = [s \in Stacks |-> IF s = Boot THEN "boot" ELSE "start"]
    /\ creating = NotCreating
    /\ sched = Off
    /\ dbgstub \in {"off", "paused"}
    /\ panicked = FALSE
    /\ linked = {}
    /\ skipped = {}
    /\ queued = {}

Schedule == SkipSleeper \/ ReapNext \/ Dispatch

Next ==
    \/ Schedule
    \/ Kmain
    \/ ShellStep
    \/ ReaperStep
    \/ \E p \in Procs : LoadStep(p) \/ ProcStep(p) \/ ExitPanic(p)
    \/ TimerInterrupt
    \/ DeviceInterrupt
    \/ Debugger
    \/ Halted

Spec == Init /\ [][Next]_vars

\* Fairness: the loops of schedule() run to their end; the timer interrupts
\* again and again and stays pending while it is masked; and a thread that
\* is given the CPU again and again executes its next step, for a time slice
\* is a whole millisecond.
Fairness ==
    /\ WF_vars(Schedule)
    /\ WF_vars(Kmain)
    /\ SF_vars(TimerInterrupt)
    /\ SF_vars(ReaperStep)

FairSpec == Spec /\ Fairness

-----------------------------------------------------------------------------
(* Properties *)

StackOf(t) == IF t = Idle THEN Boot ELSE t

Labels == {"boot", "link_idle", "make_reaper", "link_reaper", "make_shell",
           "link_shell", "idle", "start", "link", "bash", "load", "user",
           "sleep", "exit", "quit", "ran_after_exit"} \cup Resources

TypeOK ==
    /\ threads \in Threads \cup {NULL}
    /\ next_thread \in [Threads -> Threads \cup {NULL}]
    /\ thread_state \in [Threads -> {"RUNNING", "REAPING"}]
    /\ sleep_left \in [Threads -> 0..Forever]
    /\ krsp \in [Threads -> Stacks]
    /\ current_thread \in Threads \cup {NULL}
    /\ threads_to_reap \in Threads \cup {NULL}
    /\ victim \in Threads \cup {NULL}
    /\ held \in [Threads -> SUBSET Resources]
    /\ rsp \in Stacks /\ cr3 \in Stacks /\ rsp0 \in Stacks
    /\ uregs \in Stacks
    /\ usaved \in [Threads -> Stacks]
    /\ pc \in [Stacks -> Labels]
    /\ creating \in [new : Threads \cup {NULL}, had_threads : BOOLEAN]
    /\ sched \in [at : {"off", "skip", "reap"}, prev : Threads \cup {NULL}]
    /\ dbgstub \in {"off", "paused", "running"} /\ panicked \in BOOLEAN
    /\ linked \subseteq Threads /\ skipped \subseteq Threads
    /\ queued \subseteq Threads

\* Outside schedule(), the head of the ring is the thread whose stack the CPU
\* executes on, and so is the CPU-local current_thread once a first switch
\* has set it: get_current_thread() (the head) and the syscall entry (the
\* CPU-local pointer) both name the caller.  kmain's stack is the stack of
\* the thread called idle.
CurrentIsRunning ==
    sched.at = "off" /\ threads # NULL =>
        /\ rsp = StackOf(threads)
        /\ current_thread = threads \/ (current_thread = NULL /\ threads = Idle)

\* The threads on the ring form one cycle.  It holds in the middle of
\* schedule() too, though a REAPING thread and every sleeper passed over are
\* cut out by one assignment.
RingIsOneCycle == OneCycle(linked, next_thread)

\* Nothing the CPU or the ring refers to has been freed by the reaper: the
\* stack in use, the page map in cr3, the stack user interrupts will use, the
\* thread schedule() is leaving, and every thread on the ring.
NothingInUseIsFreed ==
    /\ rsp \in Threads => "stack" \in held[rsp]
    /\ cr3 \in Threads => "pagemap" \in held[cr3]
    /\ rsp0 \in Threads => "stack" \in held[rsp0]
    /\ sched.prev \in Threads => "struct" \in held[sched.prev]
    /\ \A t \in linked : {"stack", "struct"} \subseteq held[t]

\* The reap list holds exactly the threads schedule() took off the ring and
\* the reaper has not collected, and none of them is on the ring: pushing and
\* popping under reaper_spinlock lose nothing and link nothing twice, though
\* both lists run through the same pointer.
ReapListIsComplete ==
    /\ queued \cap linked = {}
    /\ OneList(threads_to_reap, queued, next_thread)

\* The reaper never frees a resource twice, and what it frees belongs to a
\* process that has exited and has left the ring.
ReaperFreesOnce ==
    pc[Reaper] \in Resources =>
        /\ victim \in Procs
        /\ pc[Reaper] \in held[victim]
        /\ thread_state[victim] = "REAPING"
        /\ victim \notin linked

\* While a process executes, the FPU and FSBASE hold its own contents, though
\* schedule() saves and restores them only when a user task leaves or enters
\* the CPU and the kernel threads in between leave them alone.
UserRegistersAreOwn ==
    \A p \in Procs :
        rsp = p /\ pc[p] \in {"user", "sleep", "exit", "ran_after_exit"}
                /\ sched.at = "off" => uregs = p

\* sys_exit's assertion, panic("Thread in reaping process ran"): a thread
\* never returns from the schedule() it calls after it set REAPING, as long as
\* no debugger makes schedule() return at once.
ExitedNeverRuns == dbgstub = "off" => ~panicked

\* A thread whose state is REAPING never gets the CPU back once it has lost
\* it: schedule() takes it off the ring instead of switching to it.
ExitIsFinal ==
    [][\A t \in Threads : thread_state[t] = "REAPING" /\ rsp # t => rsp' # t]_vars

\* schedule() takes a thread off the ring only if it has exited, and then it
\* is on the reap list, or if it is asleep: a thread that could run is never
\* lost.
OnlyExitedOrAsleepUnlinked ==
    [][\A t \in linked \ linked' :
         \/ thread_state[t] = "REAPING" /\ threads_to_reap' = t
         \/ sleep_left[t] > 0]_vars

\* The life of a process as ThreadLife promises it: the phase is read off the
\* memory it holds and its thread_state, the running thread off the stack in
\* use.
Phase(p) ==
    IF held[p] = {} THEN "none"
    ELSE IF thread_state[p] = "RUNNING" THEN "alive"
    ELSE IF "pagemap" \in held[p] THEN "exited"
    ELSE "collected"

Life == INSTANCE ThreadLife WITH
            running <- IF rsp = Boot THEN Idle ELSE rsp,
            phase <- [p \in Procs |-> Phase(p)]

\* schedule(), sys_exit, task_quit and the reaper together implement
\* ThreadLife: only live threads are given the CPU, exit is final, and memory
\* goes back only after the process has left the CPU for good.
ImplementsThreadLife == Life!Spec

\* A thread that can run gets the CPU: the ring is round robin and a process
\* made by the shell goes in behind the shell itself.  A debugger may hold the
\* machine for ever.
RunnableRuns ==
    \A t \in Threads :
        (/\ dbgstub = "off" /\ t \in linked
         /\ sleep_left[t] = 0 /\ thread_state[t] = "RUNNING")
            ~> rsp = StackOf(t)

\* If the shell stops starting processes, everything an exited process owned
\* is freed in the end, unless the process was cut off the ring while it was
\* marked asleep.  The premise is needed: the reap list is last in, first
\* out, so a stream of exiting processes can keep an old one at its bottom.
ExitedIsFreed ==
    <>[](creating = NotCreating) =>
    \A p \in Procs :
        dbgstub = "off" /\ p \in linked /\ thread_state[p] = "REAPING"
            ~> held[p] = {} \/ (p \notin linked /\ sleep_left[p] > 0)
=============================================================================
