-------------------------------- MODULE Irql --------------------------------
(***************************************************************************)
(* The interrupt request level (CR8), the spinlocks that raise it and the  *)
(* interrupt dispatcher that runs between any two instructions it does not *)
(* mask: utils/spinlock.h, drivers/x86_64/irq.h, interupts/interupts.c,    *)
(* and the part of schedule() that touches the level.                      *)
(*                                                                         *)
(* What a thread is in the middle of is a stack of frames, innermost last: *)
(* a spinlock it takes or holds, an interrupt it handles, a call of        *)
(* schedule().  Only the innermost frame of the current thread moves.      *)
(***************************************************************************)
EXTENDS Integers, Sequences

CONSTANTS Threads,
          Locks,       \* spinlocks; the scheduler's is "scheduler_spinlock"
          Machines,    \* sets of vectors: those that arrive on a machine
          Uninit,      \* what an uninitialised old_irql may hold
          MaxDepth     \* bound on the frames of a thread

IRQL_DISPATCH == 2
PageFault == 14           \* an exception
Timer == 32
Sched == "scheduler_spinlock"

ASSUME IrqlAssumption ==
    /\ \A m \in Machines : m \subseteq 0..255
    /\ Sched \in Locks
    /\ Uninit \subseteq Int
    /\ MaxDepth \in Nat

VARIABLES
    cr8,
    flag,                \* lock -> spinlock_t.flag
    current,             \* the thread that runs
    stack,               \* thread -> its frames
    irq_should_preempt,
    panic,
    vectors              \* the vectors that arrive on this machine

vars == <<cr8, flag, current, stack, irq_should_preempt, panic, vectors>>

\* of: the lock or the vector; irql: the level to go back to
Frame(kind, of, irql, at) == [kind |-> kind, of |-> of, irql |-> irql, at |-> at]

\* The frame on top of a stack, and those below it
Last(s)  == s[Len(s)]
Front(s) == SubSeq(s, 1, Len(s) - 1)

In(kind, at) ==
    /\ panic = "none" /\ stack[current] # <<>>
    /\ Last(stack[current]).kind \in kind /\ Last(stack[current]).at = at
Top       == Last(stack[current])
Push(f)   == stack' = [stack EXCEPT ![current] = Append(@, f)]
Pop       == stack' = [stack EXCEPT ![current] = Front(@)]
Go(label) == stack' = [stack EXCEPT ![current] = Append(Front(@), [Top EXCEPT !.at = label])]

Panic(message) ==
    /\ panic' = message
    /\ UNCHANGED <<cr8, flag, current, stack, irq_should_preempt, vectors>>

\* Where they do not panic, both set the level.
RaisePanics(irql) == irql < cr8
LowerPanics(irql) == irql > cr8
IrqlRaise(irql)   == cr8' = irql
IrqlLower(irql)   == cr8' = irql

\* The code that runs may take locks: plain code, code that holds a lock, and
\* the body of an interrupt handler.
RunsCode ==
    /\ panic = "none"
    /\ stack[current] = <<>> \/ In({"lock"}, "held") \/ In({"isr"}, "handler")

\* The locks taken since the innermost interrupt.
Holding ==
    LET s == stack[current]
        inner == {i \in DOMAIN s : \A j \in i..Len(s) : s[j].kind = "lock"}
    IN  {s[i].of : i \in inner}

-----------------------------------------------------------------------------
(* Spinlocks *)

\* Mutant: the level is not raised.
SpinlockLockUnmasked(l) ==
    /\ Len(stack[current]) < MaxDepth
    /\ RunsCode /\ l \notin Holding \cup {Sched}
    /\ Push(Frame("lock", l, cr8, "spin"))
    /\ UNCHANGED <<cr8, flag, current, irq_should_preempt, panic, vectors>>

\* spinlock_lock up to its loop.  Nothing takes a lock it holds.
SpinlockLock(l) ==
    /\ Len(stack[current]) < MaxDepth
    /\ RunsCode /\ l \notin Holding \cup {Sched}
    /\ IF RaisePanics(IRQL_DISPATCH) THEN Panic("irql raise to lower irql")
       ELSE /\ IrqlRaise(IRQL_DISPATCH)
            /\ Push(Frame("lock", l, cr8, "spin"))
            /\ UNCHANGED <<flag, current, irq_should_preempt, panic, vectors>>

\* The exchange that finds the flag clear.
Acquire ==
    /\ In({"lock"}, "spin") /\ ~flag[Top.of]
    /\ flag' = [flag EXCEPT ![Top.of] = TRUE]
    /\ Go("held")
    /\ UNCHANGED <<cr8, current, irq_should_preempt, panic, vectors>>

\* Mutant: the level goes back and the flag stays.
SpinlockUnlockKeepsFlag ==
    /\ In({"lock"}, "held") /\ Top.of # Sched
    /\ IrqlLower(Top.irql) /\ Pop
    /\ UNCHANGED <<flag, current, irq_should_preempt, panic, vectors>>

SpinlockUnlock ==
    /\ In({"lock"}, "held") /\ Top.of # Sched
    /\ IF LowerPanics(Top.irql) THEN Panic("irql lower to higher irql")
       ELSE /\ flag' = [flag EXCEPT ![Top.of] = FALSE]
            /\ IrqlLower(Top.irql) /\ Pop
            /\ UNCHANGED <<current, irq_should_preempt, panic, vectors>>

-----------------------------------------------------------------------------
(* dispatch_interupt *)

NewIrql(v) == (v \div 16) % 16

\* The local APIC delivers what is above CR8.  A fault comes from the code
\* that copies to and from user memory, which holds no lock.
Delivered(v) ==
    /\ panic = "none" /\ Len(stack[current]) < MaxDepth
    /\ IF v = PageFault THEN stack[current] = <<>> ELSE v \div 16 > cr8

\* Mutant: the level remembered is the new one.
InterruptSavesNew(v) ==
    /\ Delivered(v)
    /\ IrqlRaise(NewIrql(v))
    /\ Push(Frame("isr", v, NewIrql(v), "handler"))
    /\ UNCHANGED <<flag, current, irq_should_preempt, panic, vectors>>

\* Delivery up to sti: interrupts are off, and what is delivered is above the
\* level.
Interrupt(v) ==
    /\ Delivered(v)
    /\ IF NewIrql(v) >= IRQL_DISPATCH
       THEN IrqlRaise(NewIrql(v)) /\ Push(Frame("isr", v, cr8, "handler"))
       ELSE \E u \in Uninit : Push(Frame("isr", v, u, "handler")) /\ UNCHANGED cr8
    /\ UNCHANGED <<flag, current, irq_should_preempt, panic, vectors>>

\* The handler returns; the timer's has asked for a preemption.
HandlerReturns ==
    /\ In({"isr"}, "handler")
    /\ irq_should_preempt' = (irq_should_preempt \/ Top.of = Timer)
    /\ Go("handled")
    /\ UNCHANGED <<cr8, flag, current, panic, vectors>>

CheckPreempt ==
    /\ In({"isr"}, "handled")
    /\ IF NewIrql(Top.of) <= IRQL_DISPATCH
       THEN /\ Go(IF irq_should_preempt THEN "schedule" ELSE "lower")
            /\ irq_should_preempt' = FALSE
       ELSE Go("iret") /\ UNCHANGED irq_should_preempt
    /\ UNCHANGED <<cr8, flag, current, panic, vectors>>

Lower ==
    /\ In({"isr"}, "lower")
    /\ IF LowerPanics(Top.irql) THEN Panic("irql lower to higher irql")
       ELSE /\ IrqlLower(Top.irql)
            /\ Go("iret")
            /\ UNCHANGED <<flag, current, irq_should_preempt, panic, vectors>>

\* cli, and back to what was interrupted; or schedule() returns to its caller.
Return ==
    /\ In({"isr"}, "iret") \/ In({"call"}, "lower")
    /\ Pop
    /\ UNCHANGED <<cr8, flag, current, irq_should_preempt, panic, vectors>>

-----------------------------------------------------------------------------
(* schedule() *)

\* A thread gives up the CPU, to sleep or to exit.
CallSchedule ==
    /\ panic = "none" /\ stack[current] = <<>>
    /\ Push(Frame("call", Sched, cr8, "schedule"))
    /\ UNCHANGED <<cr8, flag, current, irq_should_preempt, panic, vectors>>

\* The lock is taken and the level to go back to is overwritten by 0.
Schedule ==
    /\ In({"isr", "call"}, "schedule")
    /\ IF RaisePanics(IRQL_DISPATCH) THEN Panic("irql raise to lower irql")
       ELSE /\ IrqlRaise(IRQL_DISPATCH)
            /\ Push(Frame("lock", Sched, 0, "spin"))
            /\ UNCHANGED <<flag, current, irq_should_preempt, panic, vectors>>

\* thread_switch: the stack of t continues with spinlock_unlock_nil.  With t
\* the current thread, schedule() unlocks and returns.
ThreadSwitch(t) ==
    /\ In({"lock"}, "held") /\ Top.of = Sched
    /\ LET s == Front(stack[current])
       IN  stack' = [stack EXCEPT ![current] =
                        Append(Front(s), [Last(s) EXCEPT !.at = "lower"])]
    /\ current' = t
    /\ flag' = [flag EXCEPT ![Sched] = FALSE]
    /\ IrqlLower(Top.irql)
    /\ UNCHANGED <<irq_should_preempt, panic, vectors>>

\* The idle loop.
Idle ==
    /\ panic = "none" /\ stack[current] = <<>>
    /\ irq_should_preempt' = TRUE
    /\ UNCHANGED <<cr8, flag, current, stack, panic, vectors>>

Halted == panic # "none" /\ UNCHANGED vars

Init ==
    /\ cr8 = 0
    /\ flag = [l \in Locks |-> FALSE]
    /\ current \in Threads
    /\ stack = [t \in Threads |-> <<>>]
    /\ irq_should_preempt = FALSE
    /\ panic = "none"
    /\ vectors \in Machines

Next ==
    \/ \E l \in Locks : SpinlockLock(l)
    \/ Acquire \/ SpinlockUnlock
    \/ \E v \in vectors : Interrupt(v)
    \/ HandlerReturns \/ CheckPreempt \/ Lower \/ Return
    \/ CallSchedule \/ Schedule \/ \E t \in Threads : ThreadSwitch(t)
    \/ Idle
    \/ Halted

Spec == Init /\ [][Next]_vars

-----------------------------------------------------------------------------
(* Properties *)

\* Only interrupts of the class of IRQL_DISPATCH: no debugger on the serial
\* line, no spurious vector and no page fault in the kernel.
OnlyDispatch == \A v \in vectors : NewIrql(v) = IRQL_DISPATCH

Holds(t, i)   == stack[t][i].kind = "lock" /\ stack[t][i].at = "held"
Handles(t, i) == stack[t][i].kind = "isr" /\ stack[t][i].at \in {"handler", "handled"}

\* On the one CPU spinlock_lock never waits: a lock found taken would be held
\* by something that cannot run until the loop ends.  This holds whatever
\* interrupts arrive.
NeverSpins == In({"lock"}, "spin") => ~flag[Top.of]

\* The levels protect what runs at IRQL_DISPATCH.  Whoever holds a spinlock is
\* the code that runs: its thread is current, no handler is on top of it, and
\* the level masks what could come.  Handlers do not nest, on one stack or over
\* several.  And irql_raise and irql_lower are called with levels that are above
\* and below the current one, as their panics demand.
LevelsProtect ==
    OnlyDispatch =>
        /\ panic = "none"
        /\ \A t \in Threads : \A i \in DOMAIN stack[t] :
             Holds(t, i) =>
                 /\ t = current /\ cr8 >= IRQL_DISPATCH
                 /\ \A j \in i..Len(stack[t]) : stack[t][j].kind = "lock"
        /\ \A t, u \in Threads : \A i \in DOMAIN stack[t], j \in DOMAIN stack[u] :
             Handles(t, i) /\ Handles(u, j) => t = u /\ i = j
=============================================================================
