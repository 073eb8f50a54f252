----------------------------- MODULE EntryProofs -----------------------------
(***************************************************************************)
(* The way into the kernel and back, for any threads and programs and any  *)
(* number of calls and events that are live on a stack.                    *)
(*                                                                         *)
(* The live frames of a thread are a chain at the end of its stack: below  *)
(* each lies the one it interrupted, at the start what its program or its  *)
(* spawn_app_kthread was doing.  A chain of events starts at the top of    *)
(* the stack, that of a call above krsp, which is why krsp must not        *)
(* wander.  What a frame holds depends on the code that runs above it.     *)
(***************************************************************************)
EXTENDS Entry, TLAPS

Spawning == {"spawn", "build_stack", "to_user"}
Calling  == {"execute", "strlen_user", "safe_strlen", "strlen_ok", "strlen_fail",
             "copy_user", "safe_memcpy", "memcpy_ok", "memcpy_fail", "sleep", "ret"}
Alone    == Spawning \cup {"user", "entry", "exit", "sysret"}    \* no frame is live
Outer    == Spawning \cup {"user"}                               \* the start of a chain
Handling == {"timer", "fault", "iret", "panic", "stack_trace", "hlt"}
Closed   == {"entry", "exit", "sysret", "stack_trace", "hlt"}    \* IF is clear
NeedsAc  == {"safe_strlen", "safe_memcpy", "build_stack"}
Places   == Alone \cup Calling \cup Handling

Regs     == [r15 : Threads \cup {None}, r11 : BOOLEAN, rax : {"nr", "ok", "-1"}]
Flags    == [ac : BOOLEAN, if : BOOLEAN]
FrameSet == [pc : Places \cup {"none"}, regs : Regs, usp : Threads \cup {None},
             rflags : Flags, below : 0..StackFrames, live : 0..StackFrames]

TypeInv ==
    /\ fred \in BOOLEAN /\ smap \in BOOLEAN /\ current \in Threads
    /\ pc \in Places /\ rsp \in 0..StackFrames
    /\ usp \in Threads \cup {None} /\ scratch \in Threads \cup {None}
    /\ regs \in Regs /\ rflags \in Flags /\ gs \in {"user", "kernel"}
    /\ krsp \in [Threads -> 0..StackFrames] /\ ursp \in [Threads -> Threads \cup {None}]
    /\ kstack \in [Threads -> [1..StackFrames -> FrameSet]]
    /\ panic_count \in {0, 1}
    /\ asked \in [Threads -> Calls \cup {NoCall}]
    /\ copied \in [Threads -> BOOLEAN] /\ uac \in [Threads -> BOOLEAN]

\* What the frames of a thread are judged by.
Context(t) == [id |-> t, asked |-> asked[t], copied |-> copied[t], uac |-> uac[t],
               ursp |-> ursp[t], fred |-> fred, smap |-> smap]

\* The answer of a call and what it copied; see ResultIsExact.
Exact(x, rax) ==
    x.asked.call \in {"print", "read"} =>
        /\ x.copied = (x.asked.mem = "good")
        /\ rax = IF x.copied \/ x.asked.call = "read" THEN "ok" ELSE "-1"

\* The program has not begun.
Fresh(x)  == x.asked = NoCall /\ x.uac = FALSE

Good(x)   == x.asked.mem = "good"
Prints(x) == x.asked.call = "print"
Reads(x)  == x.asked.call = "read"

\* What is known of the call when it is at place q.
Stage(x, q, rax) ==
    /\ q \in {"ret", "iret"} => Exact(x, rax)
    /\ q \notin {"ret", "iret"} => ~x.copied
    /\ q = "strlen_user" => Prints(x)
    /\ q = "safe_strlen" => Prints(x) /\ x.asked.mem # "kernel"
    /\ q = "strlen_ok"   => Prints(x) /\ Good(x)
    /\ q = "strlen_fail" => Prints(x) /\ x.asked.mem \in {"unmapped", "endless"}
    /\ q = "copy_user"   => Reads(x) \/ (Prints(x) /\ Good(x))
    /\ q = "safe_memcpy" => (Reads(x) /\ x.asked.mem # "kernel") \/ (Prints(x) /\ Good(x))
    /\ q = "memcpy_ok"   => (Reads(x) \/ Prints(x)) /\ Good(x)
    /\ q = "memcpy_fail" => Reads(x) /\ x.asked.mem = "unmapped"
    /\ q = "sleep"       => ~Reads(x) /\ ~Prints(x)

\* A frame f of the program and the code q that runs above it: a call, or an event
\* between calls.
OverUser(x, f, q) ==
    /\ f.regs.r15 = x.id /\ f.usp = x.id
    /\ IF x.asked = NoCall
       THEN q \in Handling /\ f.rflags = [ac |-> x.uac, if |-> TRUE]
       ELSE /\ Stage(x, q, f.regs.rax)
            /\ q \in Calling \/ (x.fred /\ q = "iret")
            /\ x.fred => f.rflags = [ac |-> x.uac, if |-> TRUE]
            /\ ~x.fred => f.regs.r11 = x.uac /\ x.ursp = x.id

\* A frame of the kernel: of the timer, of a fault that has its fixup, or of one
\* in the stack trace.
OverKernel(x, f, q) ==
    /\ f.pc = "stack_trace" => q \in {"fault", "panic", "stack_trace", "hlt"}
    /\ f.pc # "stack_trace" =>
         /\ f.rflags.if
         /\ f.pc \in NeedsAc /\ x.smap => f.rflags.ac
         /\ \/ q \in {"timer", "iret"}
            \/ q = "fault" /\ f.pc \in {"safe_strlen", "safe_memcpy"} /\ x.asked.mem = "unmapped"
    /\ f.pc \in Spawning => Fresh(x)
    /\ f.pc \in Outer \cup Calling \cup {"fault", "iret", "panic", "stack_trace"}

FrameOK(x, f, q) == IF f.pc = "user" THEN OverUser(x, f, q) ELSE OverKernel(x, f, q)

\* The code that runs above frame d
Above(s, r, p, d) == IF d = r THEN p ELSE s[d + 1].pc

\* The last n frames of the stack s up to r are live and p runs above them.
Chain(x, s, r, n, p) ==
    /\ n \in 0..r
    /\ IF x.asked # NoCall /\ ~x.fred THEN r - n <= MaxLive + 1 ELSE r = n
    /\ n = 0 <=> p \in Alone
    /\ \A d \in r - n + 1..r :
         /\ s[d].below = d - 1 /\ s[d].live = d - (r - n)
         /\ s[d].pc \in Outer <=> d = r - n + 1
         /\ FrameOK(x, s[d], Above(s, r, p, d))

\* A thread that does not run: the frame schedule() has pushed is on top.
Waiting(x, s, k) ==
    /\ k \in 1..StackFrames
    /\ s[k].pc \in {"spawn", "iret", "ret"}
    /\ s[k].below = k - 1 /\ s[k].live \in 1..MaxLive + 1
    /\ s[k].pc = "spawn" => Fresh(x)
    /\ Chain(x, s, k - 1, s[k].live - 1, s[k].pc)

\* The thread that runs, with its registers
Running(x, p) ==
    /\ gs = IF p \in {"user", "sysret"} THEN "user" ELSE "kernel"
    /\ rflags.if = (p \notin Closed)
    /\ p \in NeedsAc /\ smap => rflags.ac
    /\ p \in Spawning => Fresh(x)
    /\ p = "user" => x.asked = NoCall
    /\ p \in Alone \ {"exit"} => rsp = 0
    /\ p \in {"entry", "exit", "sysret"} => x.asked # NoCall /\ ~fred /\ regs.r11 = x.uac
    /\ p \in {"user", "sysret"} => regs.r15 = x.id
    /\ p \in {"user", "entry", "sysret"} => usp = x.id
    /\ p = "user" => rflags.ac = x.uac
    /\ p \in {"entry", "exit"} => scratch = x.id
    /\ p = "entry" => ~x.copied
    /\ p = "exit" => x.ursp = x.id
    /\ p \in {"exit", "sysret"} => Exact(x, regs.rax)

\* Where the next call of the thread that runs will begin: krsp is higher only
\* while a call is under way, whose end restores it.
Krsp ==
    \/ krsp[current] <= MaxLive + 1
    \/ asked[current] # NoCall /\ ~fred /\ pc \notin {"entry", "sysret"}

Traced(s, r, n) == \E d \in r - n + 1..r : s[d].pc = "stack_trace"

Panicking ==
    panic_count = 1 =>
        \/ pc \in {"stack_trace", "hlt"}
        \/ Traced(kstack[current], rsp, Live)
        \/ \E t \in Threads \ {current} :
             Traced(kstack[t], krsp[t] - 1, kstack[t][krsp[t]].live - 1)

IInv ==
    /\ TypeInv
    /\ Running(Context(current), pc)
    /\ Chain(Context(current), kstack[current], rsp, Live, pc)
    /\ Live <= MaxLive
    /\ \A t \in Threads \ {current} : Waiting(Context(t), kstack[t], krsp[t])
    /\ Krsp
    /\ Panicking
-----------------------------------------------------------------------------
(* Chains *)

\* most leaves are first-order; those with arithmetic or EXCEPT cite SMT
USE Zenon

\* A chain depends on its own frames only.
LEMMA ChainFrame ==
    ASSUME NEW x, NEW s, NEW z, NEW r \in Nat, NEW n, NEW p, Chain(x, s, r, n, p),
           \A d \in 1..r : z[d] = s[d]
    PROVE  Chain(x, z, r, n, p)
<1>1. \A d \in r - n + 1..r : z[d] = s[d] /\ (d # r => z[d + 1] = s[d + 1])
  BY SMT DEF Chain
<1>2. \A d \in r - n + 1..r : Above(z, r, p, d) = Above(s, r, p, d)
  BY <1>1 DEF Above
<1> QED BY <1>1, <1>2 DEF Chain

\* The last frame of a chain
LEMMA ChainTop ==
    ASSUME NEW x, NEW s, NEW r \in Nat, NEW n, NEW p, Chain(x, s, r, n, p), p \notin Alone
    PROVE  /\ n \in 1..r /\ r \in r - n + 1..r
           /\ s[r].below = r - 1 /\ s[r].live = n /\ FrameOK(x, s[r], p)
           /\ s[r].pc \in Outer <=> n = 1
BY SMT DEF Chain, Above

\* An event or a call is pushed.
LEMMA ChainPush ==
    ASSUME NEW x, NEW s, NEW z, NEW r \in Nat, NEW n, NEW p, NEW q,
           Chain(x, s, r, n, p), \A d \in 1..r : z[d] = s[d],
           z[r + 1].pc = p, z[r + 1].below = r, z[r + 1].live = n + 1,
           p \in Outer <=> n = 0, q \notin Alone, FrameOK(x, z[r + 1], q)
    PROVE  Chain(x, z, r + 1, n + 1, q)
<1>1. n \in 0..r /\ (r + 1) - (n + 1) = r - n
  BY SMT DEF Chain
<1>2. ASSUME NEW d \in r - n + 1..r + 1
      PROVE  /\ z[d].below = d - 1 /\ z[d].live = d - (r - n)
             /\ z[d].pc \in Outer <=> d = r - n + 1
             /\ FrameOK(x, z[d], Above(z, r + 1, q, d))
  <2>1. CASE d = r + 1
    BY <1>1, <2>1, SMT DEF Above
  <2>2. CASE d # r + 1
    <3>1. d \in r - n + 1..r /\ z[d] = s[d]
      BY <1>1, <2>2, SMT
    <3>2. Above(z, r + 1, q, d) = Above(s, r, p, d)
      BY <1>1, <2>2, <3>1, SMT DEF Above
    <3> QED BY <3>1, <3>2 DEF Chain
  <2> QED BY <2>1, <2>2
<1> QED BY <1>1, <1>2, SMT DEF Chain

\* The last frame is popped and what it interrupted goes on.
LEMMA ChainPop ==
    ASSUME NEW x, NEW s, NEW z, NEW r \in Nat, NEW n, NEW p,
           Chain(x, s, r, n, p), p \notin Alone, \A d \in 1..r - 1 : z[d] = s[d],
           s[r].pc # "user"
    PROVE  Chain(x, z, r - 1, n - 1, s[r].pc) /\ r - 1 \in Nat
<1>1. n \in 1..r /\ FrameOK(x, s[r], p) /\ (s[r].pc \in Outer <=> n = 1)
  BY ChainTop
<1>2. (r - 1) - (n - 1) = r - n /\ r - 1 \in Nat
  BY <1>1, SMT
<1>3. n - 1 = 0 <=> s[r].pc \in Alone
  BY <1>1, SMT DEF FrameOK, OverKernel, Outer, Alone, Calling, Spawning
<1>4. ASSUME NEW d \in r - n + 1..r - 1
      PROVE  /\ z[d].below = d - 1 /\ z[d].live = d - (r - n)
             /\ z[d].pc \in Outer <=> d = r - n + 1
             /\ FrameOK(x, z[d], Above(z, r - 1, s[r].pc, d))
  <2>1. d \in r - n + 1..r /\ d # r /\ z[d] = s[d]
    BY <1>1, SMT
  <2>2. Above(z, r - 1, s[r].pc, d) = Above(s, r, p, d)
    BY <1>1, <2>1, SMT DEF Above
  <2> QED BY <2>1, <2>2 DEF Chain
<1> QED BY <1>1, <1>2, <1>3, <1>4, SMT DEF Chain

\* Another place above the same frames
LEMMA ChainGo ==
    ASSUME NEW x, NEW s, NEW r \in Nat, NEW n, NEW p, NEW q,
           Chain(x, s, r, n, p), p \notin Alone, q \notin Alone, FrameOK(x, s[r], q)
    PROVE  Chain(x, s, r, n, q)
<1>1. n \in 1..r
  BY ChainTop
<1>2. \A d \in r - n + 1..r : FrameOK(x, s[d], Above(s, r, q, d))
  BY DEF Chain, Above
<1> QED BY <1>1, <1>2 DEF Chain

\* The start of a chain, and of none
LEMMA ChainOne ==
    ASSUME NEW x, NEW s, NEW r \in Nat \ {0}, NEW q,
           IF x.asked # NoCall /\ ~x.fred THEN r - 1 <= MaxLive + 1 ELSE r = 1,
           s[r].below = r - 1, s[r].live = 1, s[r].pc \in Outer,
           q \notin Alone, FrameOK(x, s[r], q)
    PROVE  Chain(x, s, r, 1, q)
<1>1. \A d \in r - 1 + 1..r : d = r
  BY SMT
<1> QED BY <1>1, SMT DEF Chain, Above

\* No frame is live.
LEMMA ChainNone ==
    ASSUME NEW x, NEW s, NEW r \in Nat, NEW p, p \in Alone,
           IF x.asked # NoCall /\ ~x.fred THEN r <= MaxLive + 1 ELSE r = 0
    PROVE  Chain(x, s, r, 0, p)
BY SMT DEF Chain

\* Code of a call runs above the program's frame only.
LEMMA CallTop ==
    ASSUME NEW x, NEW s, NEW r \in Nat, NEW n, NEW p, Chain(x, s, r, n, p), p \in Calling
    PROVE  /\ n = 1 /\ r \in Nat \ {0} /\ s[r].pc = "user" /\ OverUser(x, s[r], p)
           /\ x.asked # NoCall /\ s[r].below = r - 1 /\ s[r].live = 1
           /\ IF ~x.fred THEN r - 1 <= MaxLive + 1 ELSE r = 1
<1>1. p \notin Alone /\ p \notin Handling
  BY DEF Alone, Calling, Spawning, Handling
<1>2. /\ n \in 1..r /\ FrameOK(x, s[r], p) /\ (s[r].pc \in Outer <=> n = 1)
      /\ s[r].below = r - 1 /\ s[r].live = n
  BY <1>1, ChainTop, SMT
<1>3. s[r].pc = "user"
  BY <1>1, <1>2 DEF FrameOK, OverKernel, Handling
<1>4. OverUser(x, s[r], p)
  BY <1>2, <1>3 DEF FrameOK
<1>5. x.asked # NoCall
  BY <1>1, <1>4 DEF OverUser
<1> QED BY <1>2, <1>3, <1>4, <1>5, SMT DEF Chain, Outer
-----------------------------------------------------------------------------
(* Steps *)

\* What the invariant says of the thread that runs.
LEMMA Here ==
    ASSUME IInv
    PROVE  /\ TypeInv /\ Running(Context(current), pc)
           /\ Chain(Context(current), kstack[current], rsp, Live, pc)
           /\ MaxLive \in Nat \ {0} /\ StackFrames = 2 * MaxLive + 2
           /\ rsp \in Nat /\ Live \in 0..MaxLive /\ Live <= rsp
           /\ rsp + 1 \in 1..StackFrames
           /\ rsp # 0 => Top \in FrameSet /\ rsp \in 1..StackFrames
<1>1. MaxLive \in Nat \ {0} /\ StackFrames = 2 * MaxLive + 2 /\ rsp \in 0..StackFrames
  BY EntryAssumption, SMT DEF StackFrames, IInv, TypeInv
<1>2. Chain(Context(current), kstack[current], rsp, Live, pc) /\ Live <= MaxLive
  BY DEF IInv
<1>3. Live \in 0..rsp /\ rsp - Live <= MaxLive + 1
  BY <1>1, <1>2, SMT DEF Chain
<1>4. rsp # 0 => Top \in FrameSet
  BY <1>1, SMT DEF IInv, TypeInv, Top
<1> QED BY <1>1, <1>2, <1>3, <1>4, SMT DEF IInv

\* The fields of a context
LEMMA ContextIs ==
    ASSUME NEW t
    PROVE  /\ Context(t).id = t /\ Context(t).asked = asked[t] /\ Context(t).copied = copied[t]
           /\ Context(t).uac = uac[t] /\ Context(t).ursp = ursp[t]
           /\ Context(t).fred = fred /\ Context(t).smap = smap
BY DEF Context

\* A frame is stored on the stack of the thread that runs.
LEMMA Store ==
    ASSUME TypeInv, NEW d \in 1..StackFrames, NEW f \in FrameSet,
           kstack' = [kstack EXCEPT ![current][d] = f]
    PROVE  /\ kstack' \in [Threads -> [1..StackFrames -> FrameSet]]
           /\ kstack'[current][d] = f
           /\ \A e \in 1..StackFrames \ {d} : kstack'[current][e] = kstack[current][e]
           /\ \A t \in Threads \ {current} : kstack'[t] = kstack[t]
BY DEF TypeInv

\* A step of the thread that runs: the others wait as before.
LEMMA Step ==
    ASSUME IInv, TypeInv', current' = current,
           \A t \in Threads \ {current} :
               kstack'[t] = kstack[t] /\ krsp'[t] = krsp[t] /\ Context(t)' = Context(t),
           NEW n \in 0..MaxLive,
           Chain(Context(current), kstack[current], rsp, n, pc)',
           n = 0 => rsp' = 0 \/ pc' = "exit",
           Running(Context(current), pc)', Krsp',
           panic_count' = 1 =>
               \/ pc' \in {"stack_trace", "hlt"} \/ Traced(kstack'[current], rsp', n)
               \/ panic_count = 1 /\ pc \notin {"stack_trace", "hlt"}
                  /\ ~Traced(kstack[current], rsp, Live)
    PROVE  IInv'
<1>1. Live' = n
  <2>1. CASE n = 0
    BY <2>1 DEF Live
  <2>2. CASE n # 0
    <3>1. rsp' \in Nat /\ pc' \notin Alone
      BY <2>2, SMT DEF TypeInv, Chain
    <3>2. n \in 1..rsp' /\ kstack'[current'][rsp'].live = n
      BY <3>1, ChainTop, SMT
    <3>3. pc' # "exit" /\ rsp' # 0
      BY <3>1, <3>2, SMT DEF Alone
    <3> QED BY <3>2, <3>3 DEF Live, Top
  <2> QED BY <2>1, <2>2
<1>2. \A t \in Threads \ {current'} : Waiting(Context(t), kstack[t], krsp[t])'
  BY DEF IInv
<1>3. Panicking'
  BY <1>1 DEF IInv, Panicking, TypeInv
<1>4. Live' <= MaxLive
  BY <1>1, SMT
<1>5. Chain(Context(current), kstack[current], rsp, Live, pc)'
  BY <1>1
<1> QED BY <1>2, <1>3, <1>4, <1>5 DEF IInv
\* Running, for code above a frame
LEMMA RunsOn ==
    ASSUME pc' \notin Alone, gs' = "kernel", rflags'.if = (pc' \notin Closed),
           pc' \in NeedsAc /\ smap' => rflags'.ac
    PROVE  Running(Context(current), pc)'
BY DEF Running, Alone, Outer, Spawning

\* The code above the last frame goes on to label.
LEMMA GoStep ==
    ASSUME IInv, NEW label \in Places \ Alone, pc \notin Alone, Goto(label),
           UNCHANGED <<regs, kstack, hist>>,
           FrameOK(Context(current), Top, label),
           rflags' \in Flags, rflags'.if = (label \notin Closed),
           label \in NeedsAc /\ smap => rflags'.ac,
           panic_count' \in {0, 1},
           label \in {"stack_trace", "hlt"} \/
               (UNCHANGED panic_count /\ pc \notin {"stack_trace", "hlt"})
    PROVE  IInv'
<1>1. /\ TypeInv /\ Running(Context(current), pc) /\ rsp \in Nat /\ Live \in 0..MaxLive
      /\ Chain(Context(current), kstack[current], rsp, Live, pc)
  BY Here
<1>2. TypeInv'
  BY <1>1 DEF TypeInv, Goto, machine, hist
<1>3. Chain(Context(current), kstack[current], rsp, Live, label)
  BY <1>1, ChainGo DEF Top
<1>4. \A t \in Threads : Context(t)' = Context(t)
  BY DEF Context, Goto, machine, hist
<1>5. /\ current' = current /\ kstack' = kstack /\ rsp' = rsp /\ pc' = label /\ krsp' = krsp
      /\ asked' = asked /\ fred' = fred /\ smap' = smap /\ gs' = gs
  BY DEF Goto, machine, hist
<1>6. Chain(Context(current)', kstack'[current'], rsp', Live, pc')
  BY <1>1, <1>3, <1>4, <1>5 DEF TypeInv
<1>7. gs' = "kernel"
  BY <1>1, <1>5 DEF Running, Alone
<1>8. Running(Context(current), pc)'
  BY <1>5, <1>7, RunsOn
<1>9. Krsp'
  BY <1>5 DEF IInv, Krsp, Alone
<1>10. Live # 0
  BY <1>1 DEF Chain
<1> QED BY <1>1, <1>2, <1>4, <1>5, <1>6, <1>8, <1>9, <1>10, Step

\* A handler of a system call is done.
LEMMA DoneStep ==
    ASSUME IInv, NEW rax \in {"ok", "-1"}, NEW c \in BOOLEAN, pc \in Calling, Done(rax),
           rflags' \in Flags, rflags'.if = TRUE,
           copied' = [copied EXCEPT ![current] = c],
           Exact([Context(current) EXCEPT !.copied = c], rax)
    PROVE  IInv'
<1> DEFINE x == Context(current)
           y == [x EXCEPT !.copied = c]
           f == [Top EXCEPT !.regs.rax = rax]
<1>1. /\ TypeInv /\ Running(x, pc) /\ rsp \in Nat /\ Live \in 0..MaxLive
      /\ Chain(x, kstack[current], rsp, Live, pc) /\ MaxLive \in Nat \ {0}
      /\ (rsp # 0 => Top \in FrameSet /\ rsp \in 1..StackFrames)
  BY Here
<1>2. /\ Live = 1 /\ rsp \in Nat \ {0} /\ Top.pc = "user" /\ OverUser(x, Top, pc)
      /\ x.asked # NoCall /\ Top.below = rsp - 1 /\ Top.live = 1
      /\ IF ~x.fred THEN rsp - 1 <= MaxLive + 1 ELSE rsp = 1
  BY <1>1, CallTop DEF Top
<1>3. Top \in FrameSet /\ rsp \in 1..StackFrames
  BY <1>1, <1>2
<1>4. /\ f \in FrameSet /\ f.pc = "user" /\ f.below = rsp - 1 /\ f.live = 1
      /\ f.regs.rax = rax /\ f.regs.r15 = Top.regs.r15 /\ f.regs.r11 = Top.regs.r11
      /\ f.usp = Top.usp /\ f.rflags = Top.rflags
  BY <1>2, <1>3 DEF FrameSet, Regs
<1>5. kstack' = [kstack EXCEPT ![current][rsp] = f]
  BY <1>1, <1>3 DEF Done, Top, TypeInv
<1> HIDE DEF f
<1>6. /\ kstack' \in [Threads -> [1..StackFrames -> FrameSet]] /\ kstack'[current][rsp] = f
      /\ \A t \in Threads \ {current} : kstack'[t] = kstack[t]
  BY <1>1, <1>3, <1>4, <1>5, Store
<1>7. /\ current' = current /\ rsp' = rsp /\ pc' = "ret" /\ UNCHANGED <<krsp, ursp, asked, uac>>
      /\ fred' = fred /\ smap' = smap /\ gs' = gs /\ UNCHANGED <<usp, scratch, regs, panic_count>>
  BY DEF Done, Goto, machine
<1>8. TypeInv'
  BY <1>1, <1>6, <1>7 DEF TypeInv, Places, Calling
<1>9. /\ Context(current)' = y
      /\ \A t \in Threads \ {current} : Context(t)' = Context(t)
  <2>1. copied'[current] = c /\ \A t \in Threads \ {current} : copied'[t] = copied[t]
    BY <1>1 DEF TypeInv
  <2>2. y = [id |-> current, asked |-> asked[current], copied |-> c, uac |-> uac[current],
             ursp |-> ursp[current], fred |-> fred, smap |-> smap]
    BY SMT DEF Context
  <2> HIDE DEF y, x
  <2> QED BY <1>7, <2>1, <2>2 DEF Context
<1>10. /\ y.id = x.id /\ y.asked = x.asked /\ y.uac = x.uac /\ y.ursp = x.ursp /\ y.fred = x.fred
  BY DEF Context
<1> HIDE DEF x, y
<1>11. FrameOK(y, f, "ret")
  <2>1. Stage(y, "ret", rax)
    BY DEF Stage, x, y
  <2> QED BY <1>2, <1>4, <1>10, <2>1 DEF FrameOK, OverUser, Calling
<1>12. Chain(y, kstack'[current], rsp, 1, "ret")
  <2>1. "ret" \notin Alone /\ "user" \in Outer
    BY DEF Alone, Outer, Spawning
  <2>2. IF y.asked # NoCall /\ ~y.fred THEN rsp - 1 <= MaxLive + 1 ELSE rsp = 1
    BY <1>2, <1>10
  <2> QED BY <1>2, <1>4, <1>6, <1>11, <2>1, <2>2, ChainOne
<1>13. pc \notin Alone /\ pc \notin {"stack_trace", "hlt"} /\ pc \notin Closed
  BY DEF Alone, Calling, Spawning, Closed
<1>14. gs' = "kernel"
  BY <1>1, <1>7, <1>13 DEF Running, Alone
<1>15. Running(Context(current), pc)'
  BY <1>7, <1>14, RunsOn DEF Alone, Spawning, Closed, NeedsAc
<1>16. Krsp'
  BY <1>7, <1>13 DEF IInv, Krsp, Alone
<1>17. ~Traced(kstack[current], rsp, Live)
  BY <1>2, SMT DEF Traced, Top
<1>18. Chain(Context(current), kstack[current], rsp, 1, pc)'
  BY <1>7, <1>9, <1>12
<1> QED BY <1>1, <1>6, <1>7, <1>8, <1>9, <1>13, <1>15, <1>16, <1>17, <1>18, Step, SMT

\* An event is delivered.
LEMMA DeliverStep ==
    ASSUME IInv, NEW handler \in {"timer", "fault"}, Deliver(handler),
           pc \notin {"entry", "exit", "sysret", "hlt"},
           FrameOK(Context(current), Frame(pc, rsp, Live + 1), handler)
    PROVE  IInv'
<1> DEFINE x == Context(current)
           f == Frame(pc, rsp, Live + 1)
           d == rsp + 1
<1>1. /\ TypeInv /\ Running(x, pc) /\ rsp \in Nat /\ Live \in 0..MaxLive
      /\ Chain(x, kstack[current], rsp, Live, pc) /\ MaxLive \in Nat \ {0}
      /\ rsp + 1 \in 1..StackFrames /\ StackFrames = 2 * MaxLive + 2 /\ rsp \in 0..StackFrames
      /\ Live <= rsp /\ (pc = "user" => rsp = 0)
  BY Here DEF TypeInv, Running, Alone
<1>2. /\ Live < MaxLive
      /\ kstack' = [kstack EXCEPT ![current][d] = f] /\ rsp' = d /\ pc' = handler
      /\ gs' = (IF pc = "user" THEN Other(gs) ELSE gs)
      /\ rflags' = [ac |-> IF fred \/ (pc = "user" /\ smap) THEN FALSE ELSE rflags.ac,
                    if |-> TRUE]
      /\ regs' = Clobbered /\ usp' = None
  <2>1. (IF pc = "user" THEN 1 ELSE rsp + 1) = d
    BY <1>1, SMT
  <2> HIDE DEF d
  <2> QED BY <2>1 DEF Deliver
<1>3. /\ current' = current /\ UNCHANGED <<krsp, ursp, asked, copied, uac, scratch, panic_count>>
      /\ fred' = fred /\ smap' = smap
  BY DEF Deliver, machine, hist
<1>4. f \in FrameSet /\ f.pc = pc /\ f.below = rsp /\ f.live = Live + 1
  BY <1>1, SMT DEF Frame, FrameSet, TypeInv
<1> HIDE DEF f
<1>5. /\ kstack' \in [Threads -> [1..StackFrames -> FrameSet]] /\ kstack'[current][d] = f
      /\ \A e \in 1..StackFrames \ {d} : kstack'[current][e] = kstack[current][e]
      /\ \A t \in Threads \ {current} : kstack'[t] = kstack[t]
  BY <1>1, <1>2, <1>4, Store
<1>6. rflags' \in Flags /\ rflags'.if = TRUE
  BY <1>1, <1>2 DEF TypeInv, Flags
<1>7. TypeInv'
  BY <1>1, <1>2, <1>3, <1>5, <1>6, SMT DEF TypeInv, Places, Handling, Other, Clobbered, Regs
<1>8. \A t \in Threads : Context(t)' = Context(t)
  BY <1>3 DEF Context
<1>9. Chain(x, kstack'[current], d, Live + 1, handler)
  <2>1. pc \in Outer <=> Live = 0
    BY <1>1 DEF Chain, Alone, Outer
  <2>2. handler \notin Alone
    BY DEF Alone, Spawning
  <2>3. FrameOK(x, kstack'[current][d], handler)
    BY <1>5 DEF f
  <2>4. \A e \in 1..rsp : kstack'[current][e] = kstack[current][e]
    BY <1>1, <1>5, SMT
  <2>5. /\ kstack'[current][rsp + 1].pc = pc /\ kstack'[current][rsp + 1].below = rsp
        /\ kstack'[current][rsp + 1].live = Live + 1
    BY <1>4, <1>5
  <2> HIDE DEF x
  <2> QED BY <1>1, <2>1, <2>2, <2>3, <2>4, <2>5, ChainPush
<1>10. gs' = "kernel"
  BY <1>1, <1>2 DEF Running, Other
<1>11. Running(Context(current), pc)'
  BY <1>2, <1>6, <1>10, RunsOn DEF Alone, Spawning, Closed, NeedsAc
<1>12. Krsp'
  BY <1>2, <1>3 DEF IInv, Krsp
<1>13. PICK n \in 0..MaxLive : n = Live + 1
  BY <1>1, <1>2, SMT
<1>14. Chain(Context(current), kstack[current], rsp, n, pc)'
  <2>1. Context(current)' = x
    BY <1>1, <1>3, <1>8 DEF TypeInv
  <2> QED BY <1>2, <1>3, <1>9, <1>13, <2>1
<1>15. panic_count' = 1 =>
           \/ Traced(kstack'[current], rsp', n)
           \/ panic_count = 1 /\ pc \notin {"stack_trace", "hlt"}
              /\ ~Traced(kstack[current], rsp, Live)
  <2>1. CASE pc = "stack_trace"
    <3>1. d \in d - n + 1..d
      BY <1>1, <1>13, SMT
    <3> QED BY <1>2, <1>4, <1>5, <2>1, <3>1, SMT DEF Traced
  <2>2. CASE Traced(kstack[current], rsp, Live)
    <3>1. PICK e \in rsp - Live + 1..rsp : kstack[current][e].pc = "stack_trace"
      BY <2>2 DEF Traced
    <3>2. e \in d - n + 1..d /\ e \in 1..StackFrames \ {d}
      BY <1>1, <1>13, SMT
    <3> QED BY <1>2, <1>5, <3>1, <3>2 DEF Traced
  <2> QED BY <1>3, <2>1, <2>2
<1>16. n # 0
  BY <1>1, <1>13, SMT
<1> QED BY <1>3, <1>5, <1>7, <1>8, <1>11, <1>12, <1>14, <1>15, <1>16, Step
-----------------------------------------------------------------------------
(* Actions of the thread that runs *)

\* A timer tick, or a fault of the program, pushes a frame.
LEMMA TimerStep ==
    ASSUME IInv, Timer \/ UserFault
    PROVE  IInv'
<1> DEFINE x == Context(current)
<1>1. TypeInv /\ Running(x, pc)
  BY Here
<1>2. rflags.if /\ pc \notin Closed /\ rflags \in Flags
  BY <1>1 DEF Timer, UserFault, Does, Running, Closed, TypeInv
<1>3. pc \in Outer \cup Calling \cup {"fault", "iret", "panic", "timer"}
  BY <1>1, <1>2 DEF TypeInv, Places, Alone, Handling, Outer, Closed
<1>4. ASSUME NEW q \in {"timer", "fault"}, NEW d, NEW n,
             q = "fault" => pc = "user", pc # "timer"
      PROVE  FrameOK(x, Frame(pc, d, n), q)
  <2>1. /\ Frame(pc, d, n).pc = pc /\ Frame(pc, d, n).regs = regs
        /\ Frame(pc, d, n).usp = usp /\ Frame(pc, d, n).rflags = rflags
    BY DEF Frame
  <2>2. CASE pc = "user"
    <3>1. x.asked = NoCall /\ regs.r15 = x.id /\ usp = x.id /\ rflags.ac = x.uac
      BY <1>1, <2>2 DEF Running, Outer
    <3>2. rflags = [ac |-> x.uac, if |-> TRUE]
      BY <1>2, <3>1 DEF Flags
    <3> HIDE DEF x
    <3> QED BY <2>1, <2>2, <3>1, <3>2 DEF FrameOK, OverUser, Handling
  <2>3. CASE pc # "user"
    <3>1. pc # "stack_trace" /\ (pc \in Spawning => Fresh(x))
      BY <1>1, <1>2 DEF Running, Outer, Closed
    <3>2. pc \in NeedsAc /\ x.smap => rflags.ac
      BY <1>1, ContextIs DEF Running
    <3> HIDE DEF x
    <3> QED BY <1>2, <1>3, <1>4, <2>1, <2>3, <3>1, <3>2 DEF FrameOK, OverKernel
  <2> QED BY <2>2, <2>3
<1>5. pc \notin {"entry", "exit", "sysret", "hlt"}
  BY <1>2 DEF Closed
<1>6. CASE Timer
  BY <1>4, <1>5, <1>6, DeliverStep DEF Timer
<1>7. CASE UserFault
  BY <1>4, <1>5, <1>7, DeliverStep DEF UserFault, Does
<1> QED BY <1>6, <1>7

\* What a handler of a call knows.
LEMMA InCall ==
    ASSUME IInv, pc \in Calling
    PROVE  /\ Stage(Context(current), pc, Top.regs.rax) /\ FrameOK(Context(current), Top, pc)
           /\ Top.pc = "user" /\ asked[current] # NoCall /\ asked[current] \in Calls
           /\ rflags \in Flags /\ rflags.if = TRUE /\ (pc \in NeedsAc /\ smap => rflags.ac)
           /\ pc \notin Alone /\ pc \notin {"stack_trace", "hlt"}
           /\ copied = [copied EXCEPT ![current] = copied[current]]
<1>1. /\ TypeInv /\ Running(Context(current), pc) /\ rsp \in Nat
      /\ Chain(Context(current), kstack[current], rsp, Live, pc)
  BY Here
<1>2. /\ Top.pc = "user" /\ OverUser(Context(current), Top, pc)
      /\ Context(current).asked # NoCall
  BY <1>1, CallTop DEF Top
<1>3. pc \notin Alone /\ pc \notin {"stack_trace", "hlt"} /\ pc \notin Closed
  BY DEF Alone, Calling, Spawning, Closed
<1>4. asked[current] # NoCall /\ asked[current] \in Calls
  BY <1>1, <1>2, ContextIs, SMT DEF TypeInv
<1>5. Stage(Context(current), pc, Top.regs.rax)
  BY <1>2 DEF OverUser
<1>6. FrameOK(Context(current), Top, pc)
  BY <1>2 DEF FrameOK
<1>7. rflags \in Flags /\ rflags.if = TRUE /\ (pc \in NeedsAc /\ smap => rflags.ac)
  BY <1>1, <1>3 DEF Running, TypeInv
<1>8. copied = [copied EXCEPT ![current] = copied[current]]
  BY <1>1 DEF TypeInv
<1> QED BY <1>2, <1>3, <1>4, <1>5, <1>6, <1>7, <1>8

\* The answer rax is exact if what was copied is c.
LEMMA ExactIs ==
    ASSUME NEW c, NEW rax,
           asked[current].call \in {"print", "read"} =>
               /\ c = (asked[current].mem = "good")
               /\ rax = IF c \/ asked[current].call = "read" THEN "ok" ELSE "-1"
    PROVE  Exact([Context(current) EXCEPT !.copied = c], rax)
<1> DEFINE y == [Context(current) EXCEPT !.copied = c]
<1>1. y.copied = c /\ y.asked = asked[current]
  BY DEF Context
<1> HIDE DEF y
<1>2. Exact(y, rax)
  BY <1>1 DEF Exact
<1> QED BY <1>2 DEF y

\* stac and clac change nothing else.
LEMMA AcFlags ==
    ASSUME NEW b \in BOOLEAN, rflags \in Flags, Ac(b)
    PROVE  rflags' \in Flags /\ rflags'.if = rflags.if /\ (smap /\ b => rflags'.ac)
BY DEF Ac, Flags

\* A handler of a call goes on.
LEMMA CallStep ==
    ASSUME IInv, pc \in Calling, NEW label \in Calling, Plain(label),
           rflags' \in Flags, rflags'.if = TRUE, label \in NeedsAc /\ smap => rflags'.ac,
           Stage(Context(current), label, Top.regs.rax)
    PROVE  IInv'
<1>1. /\ FrameOK(Context(current), Top, pc) /\ Top.pc = "user" /\ asked[current] # NoCall
      /\ pc \notin Alone /\ pc \notin {"stack_trace", "hlt"}
  BY InCall
<1>2. Context(current).asked # NoCall
  BY <1>1, ContextIs
<1>3. FrameOK(Context(current), Top, label)
  BY <1>1, <1>2 DEF FrameOK, OverUser
<1>4. label \in Places \ Alone /\ label \notin Closed
  BY DEF Places, Calling, Alone, Spawning, Closed
<1>5. panic_count' = panic_count /\ panic_count \in {0, 1} /\ Goto(label)
      /\ UNCHANGED <<regs, kstack, hist>>
  BY DEF IInv, TypeInv, Plain
<1> QED BY <1>1, <1>3, <1>4, <1>5, GoStep
\* execute_syscall() picks the handler of the call.
LEMMA ExecuteSyscallStep ==
    ASSUME IInv, ExecuteSyscall
    PROVE  IInv'
<1> DEFINE x == Context(current)
<1>1. pc = "execute" /\ pc \in Calling /\ Ac(FALSE)
  BY DEF ExecuteSyscall, Calling
<1>2. /\ Stage(x, pc, Top.regs.rax) /\ rflags \in Flags /\ rflags.if = TRUE
      /\ copied = [copied EXCEPT ![current] = copied[current]]
      /\ copied[current] \in BOOLEAN
  BY <1>1, InCall DEF IInv, TypeInv
<1>3. rflags' \in Flags /\ rflags'.if = TRUE
  BY <1>1, <1>2, AcFlags
<1>4. ~x.copied /\ x.asked = asked[current] /\ x.copied = copied[current]
  BY <1>1, <1>2, ContextIs DEF Stage
<1>5. CASE asked[current].call = "print"
  <2>1. Plain("strlen_user")
    BY <1>5 DEF ExecuteSyscall
  <2>2. Stage(x, "strlen_user", Top.regs.rax)
    BY <1>4, <1>5 DEF Stage, Prints
  <2> QED BY <1>1, <1>3, <2>1, <2>2, CallStep DEF Calling, NeedsAc
<1>6. CASE asked[current].call = "read"
  <2>1. Plain("copy_user")
    BY <1>6 DEF ExecuteSyscall
  <2>2. Stage(x, "copy_user", Top.regs.rax)
    BY <1>4, <1>6 DEF Stage, Reads
  <2> QED BY <1>1, <1>3, <2>1, <2>2, CallStep DEF Calling, NeedsAc
<1>7. CASE asked[current].call = "sleep_ms"
  <2>1. Plain("sleep")
    BY <1>7 DEF ExecuteSyscall
  <2>2. Stage(x, "sleep", Top.regs.rax)
    BY <1>4, <1>7 DEF Stage, Reads, Prints
  <2> QED BY <1>1, <1>3, <2>1, <2>2, CallStep DEF Calling, NeedsAc
<1>8. CASE asked[current].call \notin {"print", "read", "sleep_ms"}
  <2>1. PICK rax \in {"ok", "-1"} : Done(rax) /\ copied' = copied
    BY <1>8 DEF ExecuteSyscall
  <2>2. Exact([x EXCEPT !.copied = copied[current]], rax)
    BY <1>8, ExactIs
  <2> QED BY <1>1, <1>2, <1>3, <2>1, <2>2, DoneStep
<1> QED BY <1>5, <1>6, <1>7, <1>8

\* strlen_user() checks the address.
LEMMA StrlenUserStep ==
    ASSUME IInv, StrlenUser
    PROVE  IInv'
<1> DEFINE x == Context(current)
<1>1. pc = "strlen_user" /\ pc \in Calling
  BY DEF StrlenUser, Calling
<1>2. /\ Stage(x, pc, Top.regs.rax) /\ rflags \in Flags /\ rflags.if = TRUE
      /\ copied = [copied EXCEPT ![current] = copied[current]]
      /\ copied[current] \in BOOLEAN
  BY <1>1, InCall DEF IInv, TypeInv
<1>3. ~x.copied /\ x.asked = asked[current] /\ x.copied = copied[current] /\ Prints(x)
  BY <1>1, <1>2, ContextIs DEF Stage
<1>4. CASE Mem = "kernel"
  <2>1. Done("-1") /\ rflags' = rflags /\ copied' = copied
    BY <1>4 DEF StrlenUser
  <2>2. Exact([x EXCEPT !.copied = copied[current]], "-1")
    <3>1. copied[current] = FALSE
      BY <1>2, <1>3
    <3>2. asked[current].call = "print" /\ asked[current].mem # "good"
      BY <1>3, <1>4 DEF Mem, Prints
    <3> QED BY <3>1, <3>2, ExactIs
  <2> QED BY <1>1, <1>2, <2>1, <2>2, DoneStep
<1>5. CASE Mem # "kernel"
  <2>1. Plain("safe_strlen") /\ Ac(TRUE)
    BY <1>5 DEF StrlenUser
  <2>2. rflags' \in Flags /\ rflags'.if = TRUE /\ (smap => rflags'.ac)
    BY <1>2, <2>1, AcFlags
  <2>3. Stage(x, "safe_strlen", Top.regs.rax)
    BY <1>3, <1>5 DEF Stage, Mem
  <2> QED BY <1>1, <2>1, <2>2, <2>3, CallStep DEF Calling
<1> QED BY <1>4, <1>5

\* A copy or strlen faults where it may.
LEMMA AccessFault ==
    ASSUME IInv, pc \in {"safe_strlen", "safe_memcpy"}, ~Access, Deliver("fault")
    PROVE  IInv'
<1> DEFINE x == Context(current)
           f == Frame(pc, rsp, Live + 1)
<1>1. rflags.if = TRUE /\ (smap => rflags.ac)
  BY InCall DEF Calling, NeedsAc
<1>2. x.asked.mem = "unmapped" /\ (x.smap => rflags.ac)
  BY <1>1, ContextIs DEF Access, Mem
<1>3. f.pc = pc /\ f.rflags = rflags
  BY DEF Frame
<1>4. FrameOK(x, f, "fault")
  <2> HIDE DEF x, f
  <2> QED BY <1>1, <1>2, <1>3 DEF FrameOK, OverKernel, Calling, Spawning
<1> QED BY <1>4, DeliverStep

\* The walk over the string ends or faults.
LEMMA SafeStrlenStep ==
    ASSUME IInv, SafeStrlen
    PROVE  IInv'
<1> DEFINE x == Context(current)
<1>1. pc = "safe_strlen" /\ pc \in Calling
  BY DEF SafeStrlen, Calling
<1>2. /\ Stage(x, pc, Top.regs.rax) /\ rflags \in Flags /\ rflags.if = TRUE
      /\ asked[current] \in Calls
  BY <1>1, InCall
<1>3. ~x.copied /\ x.asked = asked[current] /\ Prints(x) /\ x.asked.mem # "kernel"
  BY <1>1, <1>2, ContextIs DEF Stage
<1>4. CASE Access
  <2>1. PICK label \in {"strlen_ok", "strlen_fail"} :
           /\ label = IF Mem = "endless" THEN "strlen_fail" ELSE "strlen_ok"
           /\ Plain(label) /\ rflags' = rflags
    BY <1>4 DEF SafeStrlen
  <2>2. Mem \in {"good", "endless"} /\ Mem = x.asked.mem
    BY <1>2, <1>3, <1>4 DEF Access, Mem, Calls
  <2>3. Stage(x, label, Top.regs.rax)
    BY <1>3, <2>1, <2>2 DEF Stage, Good
  <2> QED BY <1>1, <1>2, <2>1, <2>3, CallStep DEF Calling, NeedsAc
<1>5. CASE ~Access
  BY <1>1, <1>5, AccessFault DEF SafeStrlen
<1> QED BY <1>4, <1>5

\* strlen_user() returns.
LEMMA StrlenRetStep ==
    ASSUME IInv, StrlenRet
    PROVE  IInv'
<1> DEFINE x == Context(current)
<1>1. pc \in {"strlen_ok", "strlen_fail"} /\ pc \in Calling /\ Ac(FALSE)
  BY DEF StrlenRet, Calling
<1>2. /\ Stage(x, pc, Top.regs.rax) /\ rflags \in Flags /\ rflags.if = TRUE
      /\ copied = [copied EXCEPT ![current] = copied[current]]
      /\ copied[current] \in BOOLEAN
  BY <1>1, InCall DEF IInv, TypeInv
<1>3. rflags' \in Flags /\ rflags'.if = TRUE
  BY <1>1, <1>2, AcFlags
<1>4. ~x.copied /\ x.asked = asked[current] /\ x.copied = copied[current] /\ Prints(x)
  BY <1>1, <1>2, ContextIs DEF Stage
<1>5. CASE pc = "strlen_ok"
  <2>1. Plain("copy_user")
    BY <1>5 DEF StrlenRet
  <2>2. Stage(x, "copy_user", Top.regs.rax)
    BY <1>2, <1>4, <1>5 DEF Stage
  <2> QED BY <1>1, <1>3, <2>1, <2>2, CallStep DEF Calling, NeedsAc
<1>6. CASE pc = "strlen_fail"
  <2>1. Done("-1") /\ copied' = copied
    BY <1>6 DEF StrlenRet
  <2>2. asked[current].mem \in {"unmapped", "endless"} /\ asked[current].call = "print"
    BY <1>2, <1>4, <1>6 DEF Stage, Prints
  <2>3. Exact([x EXCEPT !.copied = copied[current]], "-1")
    <3>1. copied[current] = FALSE
      BY <1>2, <1>4
    <3> QED BY <2>2, <3>1, ExactIs
  <2> QED BY <1>1, <1>2, <1>3, <2>1, <2>3, DoneStep
<1> QED BY <1>1, <1>5, <1>6
\* copy_from_user() and copy_to_user() check the range.
LEMMA CopyUserStep ==
    ASSUME IInv, CopyUser
    PROVE  IInv'
<1> DEFINE x == Context(current)
<1>1. pc = "copy_user" /\ pc \in Calling
  BY DEF CopyUser, Calling
<1>2. /\ Stage(x, pc, Top.regs.rax) /\ rflags \in Flags /\ rflags.if = TRUE
      /\ copied = [copied EXCEPT ![current] = copied[current]]
      /\ copied[current] \in BOOLEAN
  BY <1>1, InCall DEF IInv, TypeInv
<1>3. /\ ~x.copied /\ x.asked = asked[current] /\ x.copied = copied[current]
      /\ Reads(x) \/ (Prints(x) /\ Good(x))
  BY <1>1, <1>2, ContextIs DEF Stage
<1>4. CASE Mem = "kernel"
  <2>1. asked[current].call = "read" /\ asked[current].mem = "kernel"
    BY <1>3, <1>4 DEF Mem, Reads, Good
  <2>2. Done("ok") /\ rflags' = rflags /\ copied' = copied
    BY <1>4, <2>1 DEF CopyUser, Answer
  <2>3. Exact([x EXCEPT !.copied = copied[current]], "ok")
    <3>1. copied[current] = FALSE
      BY <1>2, <1>3
    <3> QED BY <2>1, <3>1, ExactIs
  <2> QED BY <1>1, <1>2, <2>2, <2>3, DoneStep
<1>5. CASE Mem # "kernel"
  <2>1. Plain("safe_memcpy") /\ Ac(TRUE)
    BY <1>5 DEF CopyUser
  <2>2. rflags' \in Flags /\ rflags'.if = TRUE /\ (smap => rflags'.ac)
    BY <1>2, <2>1, AcFlags
  <2>3. Stage(x, "safe_memcpy", Top.regs.rax)
    BY <1>3, <1>5 DEF Stage, Mem
  <2> QED BY <1>1, <2>1, <2>2, <2>3, CallStep DEF Calling
<1> QED BY <1>4, <1>5

\* The copy ends or faults.
LEMMA SafeMemcpyStep ==
    ASSUME IInv, SafeMemcpy
    PROVE  IInv'
<1> DEFINE x == Context(current)
<1>1. pc = "safe_memcpy" /\ pc \in Calling
  BY DEF SafeMemcpy, Calling
<1>2. /\ Stage(x, pc, Top.regs.rax) /\ rflags \in Flags /\ rflags.if = TRUE
      /\ asked[current] \in Calls
  BY <1>1, InCall
<1>3. /\ ~x.copied /\ x.asked = asked[current]
      /\ (Reads(x) /\ x.asked.mem # "kernel") \/ (Prints(x) /\ Good(x))
  BY <1>1, <1>2, ContextIs DEF Stage
<1>4. CASE Access
  <2>1. Plain("memcpy_ok") /\ rflags' = rflags
    BY <1>4 DEF SafeMemcpy
  <2>2. Good(x)
    <3>1. CASE Reads(x) /\ x.asked.mem # "kernel"
      <4>1. asked[current].mem \in {"good", "unmapped", "kernel"}
        BY <1>2, <1>3, <3>1 DEF Calls, Reads
      <4> QED BY <1>3, <1>4, <3>1, <4>1 DEF Access, Mem, Good
    <3> QED BY <1>3, <3>1
  <2>3. Stage(x, "memcpy_ok", Top.regs.rax)
    BY <1>3, <2>2 DEF Stage
  <2> QED BY <1>1, <1>2, <2>1, <2>3, CallStep DEF Calling, NeedsAc
<1>5. CASE ~Access
  BY <1>1, <1>5, AccessFault DEF SafeMemcpy
<1> QED BY <1>4, <1>5

\* The copy returns and the call has its answer.
LEMMA CopyRetStep ==
    ASSUME IInv, CopyRet
    PROVE  IInv'
<1> DEFINE x == Context(current)
           c == (pc = "memcpy_ok")
<1>1. pc \in {"memcpy_ok", "memcpy_fail"} /\ pc \in Calling /\ Ac(FALSE)
  BY DEF CopyRet, Calling
<1>2. Stage(x, pc, Top.regs.rax) /\ rflags \in Flags /\ rflags.if = TRUE
  BY <1>1, InCall
<1>3. rflags' \in Flags /\ rflags'.if = TRUE
  BY <1>1, <1>2, AcFlags
<1>4. x.asked = asked[current]
  BY ContextIs
<1>5. /\ pc = "memcpy_ok" => Good(x)
      /\ pc = "memcpy_fail" => Reads(x) /\ x.asked.mem = "unmapped"
  BY <1>2 DEF Stage
<1>6. Done("ok") /\ copied' = [copied EXCEPT ![current] = c]
  <2>1. Answer(c) = "ok"
    BY <1>1, <1>4, <1>5 DEF Answer, Reads
  <2> QED BY <2>1 DEF CopyRet
<1>7. Exact([x EXCEPT !.copied = c], "ok")
  <2>1. (asked[current].mem = "good") = c /\ (~c => asked[current].call = "read")
    BY <1>1, <1>4, <1>5 DEF Good, Reads
  <2> HIDE DEF c
  <2> QED BY <2>1, ExactIs
<1>8. c \in BOOLEAN
  OBVIOUS
<1> HIDE DEF c
<1> QED BY <1>1, <1>3, <1>6, <1>7, <1>8, DoneStep

\* The code above the last frame, in the words of GoStep
LEMMA InKernel ==
    ASSUME IInv, pc \notin Alone
    PROVE  /\ FrameOK(Context(current), Top, pc) /\ rflags \in Flags
           /\ rflags.if = (pc \notin Closed) /\ panic_count \in {0, 1}
           /\ rsp \in 1..StackFrames /\ Live \in 1..MaxLive /\ Top.below = rsp - 1
           /\ (Top.pc \in Outer <=> Live = 1) /\ Top \in FrameSet /\ gs = "kernel"
<1>1. /\ TypeInv /\ Running(Context(current), pc) /\ rsp \in Nat /\ Live \in 0..MaxLive
      /\ Chain(Context(current), kstack[current], rsp, Live, pc)
      /\ (rsp # 0 => Top \in FrameSet /\ rsp \in 1..StackFrames)
  BY Here
<1>2. /\ Live \in 1..rsp /\ FrameOK(Context(current), Top, pc) /\ Top.below = rsp - 1
      /\ Top.pc \in Outer <=> Live = 1
  BY <1>1, ChainTop, SMT DEF Top
<1>3. /\ rflags \in Flags /\ panic_count \in {0, 1}
      /\ rflags.if = (pc \notin Closed) /\ gs = "kernel"
  BY <1>1 DEF TypeInv, Running, Alone
<1> QED BY <1>1, <1>2, <1>3, SMT

\* schedule() takes the same thread again, or the call becomes a FRED return.
LEMMA SameThreadStep ==
    ASSUME IInv, TimerIsr(current) \/ SysSleepMs(current) \/ FredSyscallReturn
    PROVE  IInv'
<1> DEFINE x == Context(current)
<1>1. CASE TimerIsr(current)
  <2>1. pc = "timer" /\ Goto("iret") /\ UNCHANGED <<rflags, regs, kstack, panic_count, hist>>
    BY <1>1 DEF TimerIsr, ThreadSwitch
  <2>2. pc \notin Alone /\ pc \notin Closed
    BY <2>1 DEF Alone, Spawning, Closed
  <2>3. FrameOK(x, Top, "timer") /\ rflags \in Flags /\ rflags.if = TRUE /\ panic_count \in {0, 1}
    BY <2>1, <2>2, InKernel
  <2>4. FrameOK(x, Top, "iret")
    BY <2>3 DEF FrameOK, OverUser, OverKernel, Calling, Handling
  <2> QED BY <2>1, <2>2, <2>3, <2>4, GoStep DEF Places, Handling, Alone, Spawning, Closed, NeedsAc
<1>2. CASE SysSleepMs(current)
  <2>1. pc = "sleep" /\ Goto("ret") /\ UNCHANGED <<rflags, regs, kstack, panic_count, hist>>
    BY <1>2 DEF SysSleepMs, ThreadSwitch
  <2>2. pc \in Calling /\ Plain("ret")
    BY <2>1 DEF Plain, Calling
  <2>3. Stage(x, "sleep", Top.regs.rax) /\ rflags \in Flags /\ rflags.if = TRUE
    BY <2>1, <2>2, InCall
  <2>4. Stage(x, "ret", Top.regs.rax)
    BY <2>3 DEF Stage, Exact, Reads, Prints
  <2> QED BY <2>1, <2>2, <2>3, <2>4, CallStep DEF Calling, NeedsAc
<1>3. CASE FredSyscallReturn
  <2>1. /\ pc = "ret" /\ fred /\ Goto("iret")
        /\ UNCHANGED <<rflags, regs, kstack, panic_count, hist>>
    BY <1>3 DEF FredSyscallReturn
  <2>2. pc \in Calling /\ pc \notin Alone /\ pc \notin Closed
    BY <2>1 DEF Calling, Alone, Spawning, Closed
  <2>3. /\ Stage(x, "ret", Top.regs.rax) /\ FrameOK(x, Top, "ret") /\ Top.pc = "user"
        /\ asked[current] # NoCall
    BY <2>1, <2>2, InCall
  <2>4. rflags \in Flags /\ rflags.if = TRUE /\ panic_count \in {0, 1}
    BY <2>2, InKernel
  <2>5. x.fred /\ x.asked # NoCall
    BY <2>1, <2>3, ContextIs
  <2>6. Stage(x, "iret", Top.regs.rax)
    BY <2>3 DEF Stage
  <2>7. FrameOK(x, Top, "iret")
    BY <2>3, <2>5, <2>6 DEF FrameOK, OverUser
  <2> QED BY <2>1, <2>2, <2>4, <2>7, GoStep DEF Places, Handling, Alone, Spawning, Closed, NeedsAc
<1> QED BY <1>1, <1>2, <1>3
\* A fault of a copy goes on at its fixup.
LEMMA FixupStep ==
    ASSUME IInv, FaultIsr, Top.pc \in {"safe_memcpy", "safe_strlen"}
    PROVE  IInv'
<1> DEFINE x == Context(current)
           s == kstack[current]
           fail == Fixup[Top.pc]
           f == [Top EXCEPT !.pc = fail]
<1>1. /\ pc = "fault" /\ Goto("iret") /\ kstack' = [kstack EXCEPT ![current][rsp].pc = fail]
      /\ UNCHANGED <<rflags, regs, panic_count, hist>>
  BY DEF FaultIsr, Fixup
<1>2. fail \in {"strlen_fail", "memcpy_fail"}
      /\ (Top.pc = "safe_strlen" => fail = "strlen_fail")
      /\ (Top.pc = "safe_memcpy" => fail = "memcpy_fail")
  BY SMT DEF Fixup
<1> HIDE DEF fail
<1>3. pc \notin Alone /\ pc \notin Closed
  BY <1>1 DEF Alone, Spawning, Closed
<1>4. /\ FrameOK(x, Top, "fault") /\ rflags \in Flags /\ rflags.if = TRUE
      /\ rsp \in 1..StackFrames /\ Live \in 1..MaxLive /\ Top.below = rsp - 1 /\ Top \in FrameSet
      /\ gs = "kernel"
  BY <1>1, <1>3, InKernel
<1>5. /\ TypeInv /\ Chain(x, s, rsp, Live, pc) /\ rsp \in Nat /\ s[rsp] = Top /\ MaxLive \in Nat
      /\ StackFrames \in Nat
  BY Here, SMT DEF Top
<1>6. OverKernel(x, Top, "fault") /\ x.asked.mem = "unmapped" /\ Top.rflags.if
  BY <1>4 DEF FrameOK, OverKernel
<1>7. Chain(x, s, rsp - 1, Live - 1, Top.pc) /\ rsp - 1 \in Nat
  <2> HIDE DEF x, s
  <2>1. s[rsp].pc # "user"
    BY <1>5
  <2> QED BY <1>3, <1>5, <2>1, ChainPop
<1>8. /\ Live - 1 = 1 /\ s[rsp - 1].pc = "user" /\ OverUser(x, s[rsp - 1], Top.pc)
      /\ x.asked # NoCall
  <2> DEFINE r == rsp - 1
             n == Live - 1
             q == Top.pc
  <2>1. Top.pc \in Calling
    BY DEF Calling
  <2>2. Chain(x, s, r, n, q) /\ r \in Nat /\ q \in Calling
    BY <1>7, <2>1
  <2> HIDE DEF x, s, r, n, q
  <2>3. /\ n = 1 /\ r \in Nat \ {0} /\ s[r].pc = "user" /\ OverUser(x, s[r], q)
        /\ x.asked # NoCall /\ s[r].below = r - 1 /\ s[r].live = 1
        /\ IF ~x.fred THEN r - 1 <= MaxLive + 1 ELSE r = 1
    BY <2>2, CallTop
  <2> QED BY <2>3 DEF r, n, q
<1>9. FrameOK(x, s[rsp - 1], fail)
  <2> HIDE DEF x, s
  <2>1. Stage(x, Top.pc, s[rsp - 1].regs.rax)
    BY <1>8 DEF OverUser
  <2>2. Stage(x, fail, s[rsp - 1].regs.rax)
    BY <1>2, <1>6, <2>1 DEF Stage, Good
  <2> QED BY <1>2, <1>8, <2>2 DEF FrameOK, OverUser, Calling
<1>10. Chain(x, s, rsp - 1, Live - 1, fail)
  <2> HIDE DEF x, s
  <2> QED BY <1>2, <1>7, <1>9, ChainGo DEF Alone, Spawning
<1>11. f \in FrameSet /\ f.pc = fail /\ f.below = Top.below /\ f.live = Top.live
       /\ f.rflags = Top.rflags
  BY <1>2, <1>4 DEF FrameSet, Places, Calling
<1>12. kstack' = [kstack EXCEPT ![current][rsp] = f]
  BY <1>1, <1>4, <1>5 DEF Top, TypeInv
<1> HIDE DEF f
<1>13. /\ kstack' \in [Threads -> [1..StackFrames -> FrameSet]] /\ kstack'[current][rsp] = f
       /\ \A e \in 1..StackFrames \ {rsp} : kstack'[current][e] = kstack[current][e]
       /\ \A t \in Threads \ {current} : kstack'[t] = kstack[t]
  BY <1>4, <1>5, <1>11, <1>12, Store
<1>14. Chain(x, kstack'[current], 2 + (rsp - 2), 2, "iret")
  <2>1. FrameOK(x, f, "iret")
    <3> HIDE DEF x, s
    <3> QED BY <1>2, <1>6, <1>11 DEF FrameOK, OverKernel, NeedsAc, Calling, Spawning
  <2>2. f.live = 2
    <3>1. Live = 2
      BY <1>4, <1>8, SMT
    <3>2. s[rsp].live = Live
      BY <1>3, <1>5, ChainTop
    <3> QED BY <1>5, <1>11, <3>1, <3>2
  <2>3. \A d \in 1..rsp - 1 : kstack'[current][d] = s[d]
    BY <1>4, <1>5, <1>13, SMT
  <2>4. fail \notin Outer /\ "iret" \notin Alone
    BY <1>2 DEF Outer, Spawning, Alone
  <2>5. rsp - 1 + 1 = rsp /\ 2 + (rsp - 2) = rsp /\ 1 + 1 = 2
    BY <1>4, SMT
  <2> DEFINE r == rsp - 1
             z == kstack'[current]
  <2>6. Chain(x, s, r, 1, fail) /\ r \in Nat
    BY <1>7, <1>8, <1>10
  <2>7. z[r + 1] = f /\ \A d \in 1..r : z[d] = s[d]
    BY <1>13, <2>3, <2>5
  <2>8. f.below = r
    BY <1>4, <1>11
  <2>9. r + 1 = 2 + (rsp - 2)
    BY <1>4, SMT
  <2> HIDE DEF x, s, r, z
  <2>10. Chain(x, z, r + 1, 1 + 1, "iret")
    BY <1>11, <2>1, <2>2, <2>4, <2>6, <2>7, <2>8, ChainPush, SMT
  <2> QED BY <2>5, <2>9, <2>10 DEF z
<1>15. current' = current /\ rsp' = rsp /\ pc' = "iret" /\ krsp' = krsp /\ gs' = gs /\ fred' = fred
       /\ UNCHANGED <<asked, copied, uac, ursp, smap, usp, scratch, rflags, panic_count, regs>>
  BY <1>1 DEF Goto, machine, hist
<1>16. TypeInv'
  BY <1>5, <1>13, <1>15 DEF TypeInv, Places, Handling
<1>17. \A t \in Threads : Context(t)' = Context(t)
  BY <1>15 DEF Context
<1>18. Chain(Context(current), kstack[current], rsp, 2, pc)'
  <2>1. 2 + (rsp - 2) = rsp /\ Context(current)' = x
    BY <1>4, <1>5, <1>15, <1>17, SMT DEF TypeInv
  <2> HIDE DEF x
  <2> QED BY <1>14, <1>15, <2>1
<1>19. Running(Context(current), pc)'
  BY <1>4, <1>15, RunsOn DEF Alone, Spawning, Closed, NeedsAc
<1>20. Krsp'
  BY <1>15 DEF IInv, Krsp
<1>21. ~Traced(kstack[current], rsp, Live)
  <2>1. ASSUME NEW d \in rsp - Live + 1..rsp PROVE s[d].pc # "stack_trace"
    <3>1. d = rsp \/ d = rsp - 1
      BY <1>4, <1>8, SMT
    <3> QED BY <1>5, <1>8, <3>1
  <2> QED BY <2>1 DEF Traced
<1>22. 2 \in 0..MaxLive /\ 2 # 0
  BY <1>4, <1>5, <1>8, SMT
<1>23. panic_count' = panic_count /\ pc \notin {"stack_trace", "hlt"}
  BY <1>1
<1>24. \A t \in Threads \ {current} :
          kstack'[t] = kstack[t] /\ krsp'[t] = krsp[t] /\ Context(t)' = Context(t)
  BY <1>13, <1>15, <1>17
<1>25. current' = current
  BY <1>15
<1> QED BY <1>16, <1>18, <1>19, <1>20, <1>21, <1>22, <1>23, <1>24, <1>25, Step

\* A fault without a fixup, the panic and its stack trace
LEMMA PanicStep ==
    ASSUME IInv, FaultIsr \/ Panic \/ StackTrace
    PROVE  IInv'
<1> DEFINE x == Context(current)
<1> USE DEF Alone, Spawning, Closed, Handling, Places, NeedsAc
<1>1. CASE FaultIsr
  <2>1. CASE Top.pc \in {"safe_memcpy", "safe_strlen"}
    BY <1>1, <2>1, FixupStep
  <2>2. CASE Top.pc \notin {"safe_memcpy", "safe_strlen"}
    <3>1. /\ pc = "fault" /\ Goto("panic")
          /\ UNCHANGED <<rflags, regs, kstack, panic_count, hist>>
      BY <1>1, <2>2 DEF FaultIsr, Fixup
    <3>2. FrameOK(x, Top, "fault") /\ rflags \in Flags /\ rflags.if = TRUE /\ panic_count \in {0, 1}
      BY <3>1, InKernel
    <3>3. FrameOK(x, Top, "panic")
      BY <2>2, <3>2 DEF FrameOK, OverUser, OverKernel, Calling
    <3> QED BY <3>1, <3>2, <3>3, GoStep
  <2> QED BY <2>1, <2>2
<1>2. CASE Panic
  <2>1. PICK label \in {"stack_trace", "hlt"} : Goto(label)
    BY <1>2 DEF Panic
  <2>2. /\ pc = "panic" /\ rflags' = [rflags EXCEPT !.if = FALSE]
        /\ panic_count' = (IF panic_count = 0 THEN 1 ELSE panic_count)
        /\ UNCHANGED <<regs, kstack, hist>>
    BY <1>2 DEF Panic
  <2>3. FrameOK(x, Top, "panic") /\ rflags \in Flags /\ panic_count \in {0, 1}
    BY <2>2, InKernel
  <2>4. FrameOK(x, Top, label)
    BY <2>3 DEF FrameOK, OverUser, OverKernel, Calling
  <2>5. rflags' \in Flags /\ rflags'.if = FALSE /\ panic_count' \in {0, 1}
    BY <2>2, <2>3 DEF Flags
  <2>6. label \in Places \ Alone /\ label \in Closed /\ label \notin NeedsAc /\ pc \notin Alone
    BY <2>2
  <2> HIDE DEF Alone, Spawning, Closed, Handling, Places, NeedsAc
  <2>7. rflags'.if = (label \notin Closed) /\ (label \in NeedsAc /\ smap => rflags'.ac)
    BY <2>5, <2>6
  <2>8. Goto(label) /\ UNCHANGED <<regs, kstack, hist>> /\ rflags' \in Flags /\ panic_count' \in {0, 1}
    BY <2>1, <2>2, <2>5
  <2> QED BY <2>4, <2>6, <2>7, <2>8, GoStep
<1>3. CASE StackTrace
  <2>1. pc = "stack_trace" /\ pc \notin Alone
    BY <1>3 DEF StackTrace
  <2>2. FrameOK(x, Top, "stack_trace") /\ rflags \in Flags /\ rflags.if = FALSE
        /\ panic_count \in {0, 1}
    BY <2>1, InKernel
  <2>3. CASE Plain("hlt") /\ UNCHANGED rflags
    <3>1. FrameOK(x, Top, "hlt")
      BY <2>2 DEF FrameOK, OverUser, OverKernel, Calling
    <3>2. Goto("hlt") /\ UNCHANGED <<regs, kstack, panic_count, hist>>
      BY <2>3 DEF Plain
    <3> QED BY <2>1, <2>2, <2>3, <3>1, <3>2, GoStep
  <2>4. CASE Deliver("fault")
    <3>1. FrameOK(x, Frame(pc, rsp, Live + 1), "fault")
      BY <2>1 DEF FrameOK, OverKernel, Frame
    <3> QED BY <2>1, <2>4, <3>1, DeliverStep
  <2> QED BY <1>3, <2>3, <2>4 DEF StackTrace
<1> QED BY <1>1, <1>2, <1>3
\* A step while no frame is live.
LEMMA AloneStep ==
    ASSUME IInv, pc \in Alone, TypeInv', current' = current, pc' \in Alone, rsp' = 0,
           kstack' = kstack,
           \A t \in Threads \ {current} : krsp'[t] = krsp[t] /\ Context(t)' = Context(t),
           Running(Context(current), pc)', Krsp', panic_count' = panic_count
    PROVE  IInv'
<1>1. MaxLive \in Nat \ {0} /\ rsp \in Nat /\ Live \in 0..MaxLive
      /\ Chain(Context(current), kstack[current], rsp, Live, pc)
  BY Here
<1>2. Chain(Context(current), kstack[current], rsp, 0, pc)'
  <2>1. \A x, s, p : p \in Alone => Chain(x, s, 0, 0, p)
    BY <1>1, ChainNone, SMT
  <2> QED BY <2>1
<1>3. Live = 0
  BY <1>1 DEF Chain
<1>4. ~Traced(kstack[current], rsp, Live)
  BY <1>1, <1>3, SMT DEF Traced
<1>5. pc \notin {"stack_trace", "hlt"}
  BY DEF Alone, Spawning
<1>6. 0 \in 0..MaxLive
  BY <1>1, SMT
<1> QED BY <1>2, <1>4, <1>5, <1>6, Step

\* A thread runs spawn_app_kthread, or its program runs.
LEMMA OutOfKernelStep ==
    ASSUME IInv, SpawnApp \/ BuildStack \/ SwitchToUser \/ SetAc \/ \E c \in Calls : Syscall(c)
    PROVE  IInv'
<1>1. TypeInv /\ Running(Context(current), pc) /\ Krsp /\ StackFrames \in Nat
  BY Here, SMT DEF IInv
<1>2. pc \in Outer
  BY DEF SpawnApp, BuildStack, SwitchToUser, SetAc, Syscall, Does, Outer, Spawning
<1>3. /\ asked[current] = NoCall /\ rsp = 0 /\ rflags.if = TRUE /\ rflags \in Flags
      /\ krsp[current] <= MaxLive + 1 /\ pc \in Alone
      /\ gs = IF pc = "user" THEN "user" ELSE "kernel"
  <2>1. Context(current).asked = NoCall
    BY <1>1, <1>2 DEF Running, Outer, Fresh
  <2>2. asked[current] = NoCall
    BY <2>1, ContextIs
  <2>3. pc \in Alone \ {"exit"} /\ pc \notin Closed
    BY <1>2 DEF Alone, Outer, Spawning, Closed
  <2>4. rsp = 0 /\ rflags.if = TRUE /\ rflags \in Flags
    BY <1>1, <2>3 DEF Running, TypeInv
  <2>5. krsp[current] <= MaxLive + 1
    BY <1>1, <2>2 DEF Krsp
  <2>6. gs = IF pc = "user" THEN "user" ELSE "kernel"
    BY <1>1, <1>2 DEF Running, Outer, Spawning
  <2> QED BY <2>2, <2>3, <2>4, <2>5, <2>6
<1>4. pc = "user" => usp = current /\ regs.r15 = current /\ rflags.ac = uac[current]
  BY <1>1, ContextIs DEF Running
<1>5. pc \in Spawning => uac[current] = FALSE
  BY <1>1, ContextIs DEF Running, Fresh
<1>6. ASSUME SpawnApp \/ BuildStack PROVE IInv'
  <2>1. PICK label \in {"build_stack", "to_user"}, b \in BOOLEAN :
           /\ Plain(label) /\ Ac(b) /\ (label = "build_stack" => b)
           /\ pc \in Spawning
    <3>1. pc = "build_stack" /\ smap => rflags.ac
      BY <1>1 DEF Running, NeedsAc
    <3> QED BY <1>6, <3>1 DEF SpawnApp, BuildStack, Spawning
  <2>2. rflags' \in Flags /\ rflags'.if = TRUE /\ (smap /\ b => rflags'.ac)
    BY <1>3, <2>1, AcFlags
  <2>3. /\ current' = current /\ pc' = label /\ rsp' = rsp /\ kstack' = kstack /\ krsp' = krsp
        /\ gs' = gs /\ smap' = smap /\ fred' = fred /\ panic_count' = panic_count
        /\ asked' = asked /\ copied' = copied /\ uac' = uac /\ ursp' = ursp
        /\ regs' = regs /\ usp' = usp /\ scratch' = scratch
    BY <2>1 DEF Plain, Goto, machine, hist
  <2>4. TypeInv'
    BY <1>1, <2>2, <2>3 DEF TypeInv, Places, Alone, Spawning
  <2>5. \A t \in Threads : Context(t)' = Context(t)
    BY <2>3 DEF Context
  <2>6. Fresh(Context(current)')
    <3>1. Fresh(Context(current))
      BY <1>1, <2>1 DEF Running
    <3>2. Context(current)' = Context(current)
      BY <1>1, <2>3, <2>5 DEF TypeInv
    <3> QED BY <3>1, <3>2
  <2>7. Running(Context(current), pc)'
    BY <1>3, <2>1, <2>2, <2>3, <2>6 DEF Running, Outer, Alone, Spawning, Closed, NeedsAc
  <2>8. Krsp'
    BY <1>3, <2>3 DEF Krsp
  <2>9. pc' \in Alone
    BY <2>1, <2>3 DEF Alone, Spawning
  <2> QED BY <1>3, <2>3, <2>4, <2>5, <2>7, <2>8, <2>9, AloneStep
<1>7. ASSUME SwitchToUser PROVE IInv'
  <2>1. /\ pc = "to_user" /\ pc' = "user" /\ rsp' = 0 /\ usp' = current /\ gs' = Other(gs)
        /\ regs' = [r15 |-> current, r11 |-> FALSE, rax |-> "nr"]
        /\ rflags' = [ac |-> FALSE, if |-> TRUE]
        /\ current' = current /\ kstack' = kstack /\ krsp' = krsp
        /\ smap' = smap /\ fred' = fred /\ panic_count' = panic_count
        /\ asked' = asked /\ copied' = copied /\ uac' = uac /\ ursp' = ursp /\ scratch' = scratch
    BY <1>7 DEF SwitchToUser, machine, hist
  <2>2. gs' = "user"
    BY <1>3, <2>1 DEF Other
  <2>3. TypeInv'
    BY <1>1, <2>1, <2>2, SMT DEF TypeInv, Places, Alone, Regs, Flags
  <2>4. \A t \in Threads : Context(t)' = Context(t)
    BY <2>1 DEF Context
  <2>5. Context(current)' = Context(current)
    BY <1>1, <2>1, <2>4 DEF TypeInv
  <2>6. uac[current] = FALSE
    BY <1>5, <2>1 DEF Spawning
  <2>7. /\ Context(current)'.asked = NoCall /\ Context(current)'.uac = FALSE
        /\ Context(current)'.id = current
    BY <1>3, <2>5, <2>6, ContextIs, SMT
  <2>8. Running(Context(current), pc)'
    BY <2>1, <2>2, <2>7 DEF Running, Alone, Spawning, Closed, NeedsAc
  <2>9. Krsp'
    BY <1>3, <2>1 DEF Krsp
  <2> QED BY <1>3, <2>1, <2>3, <2>4, <2>8, <2>9, AloneStep DEF Alone
<1>8. ASSUME SetAc PROVE IInv'
  <2>1. /\ pc = "user" /\ uac' = [uac EXCEPT ![current] = ~@]
        /\ rflags' = [rflags EXCEPT !.ac = ~@]
        /\ current' = current /\ kstack' = kstack /\ krsp' = krsp /\ pc' = pc /\ rsp' = rsp
        /\ smap' = smap /\ fred' = fred /\ panic_count' = panic_count /\ usp' = usp
        /\ asked' = asked /\ copied' = copied /\ ursp' = ursp /\ scratch' = scratch
        /\ regs' = regs /\ gs' = gs
    BY <1>8 DEF SetAc, Does, machine
  <2>2. rflags' \in Flags /\ rflags'.if = TRUE /\ rflags'.ac = ~uac[current]
    BY <1>3, <1>4, <2>1 DEF Flags
  <2>3. TypeInv'
    BY <1>1, <2>1, <2>2 DEF TypeInv
  <2>4. uac'[current] = ~uac[current] /\ \A t \in Threads \ {current} : uac'[t] = uac[t]
    BY <1>1, <2>1 DEF TypeInv
  <2>5. /\ \A t \in Threads \ {current} : Context(t)' = Context(t)
        /\ Context(current)'.asked = NoCall /\ Context(current)'.id = current
        /\ Context(current)'.uac = ~uac[current]
    BY <1>3, <2>1, <2>4, SMT DEF Context
  <2>6. Running(Context(current), pc)'
    BY <1>3, <1>4, <2>1, <2>2, <2>5 DEF Running, Alone, Spawning, Closed, NeedsAc
  <2>7. Krsp'
    BY <1>3, <2>1 DEF Krsp
  <2> QED BY <1>3, <2>1, <2>3, <2>5, <2>6, <2>7, AloneStep
<1>9. ASSUME NEW c \in Calls, Syscall(c) PROVE IInv'
  <2>1. /\ pc = "user" /\ ~fred /\ pc' = "entry" /\ gs' = Other(gs) /\ scratch' = regs.r15
        /\ asked' = [asked EXCEPT ![current] = c] /\ copied' = [copied EXCEPT ![current] = FALSE]
        /\ regs' = [r15 |-> None, r11 |-> rflags.ac, rax |-> "nr"]
        /\ rflags' = [rflags EXCEPT !.if = FALSE]
        /\ current' = current /\ kstack' = kstack /\ krsp' = krsp /\ rsp' = rsp
        /\ smap' = smap /\ fred' = fred /\ panic_count' = panic_count /\ usp' = usp
        /\ ursp' = ursp /\ uac' = uac
    BY <1>9 DEF Syscall, Ask, Does, machine
  <2>2. rflags' \in Flags /\ rflags'.if = FALSE /\ gs' = "kernel" /\ scratch' = current
        /\ regs'.r11 = uac[current] /\ regs' \in Regs
    BY <1>3, <1>4, <2>1 DEF Flags, Other, Regs
  <2>3. TypeInv'
    BY <1>1, <2>1, <2>2 DEF TypeInv, Places, Alone
  <2>4. /\ asked'[current] = c /\ copied'[current] = FALSE
        /\ \A t \in Threads \ {current} : asked'[t] = asked[t] /\ copied'[t] = copied[t]
    BY <1>1, <2>1 DEF TypeInv
  <2>5. /\ \A t \in Threads \ {current} : Context(t)' = Context(t)
        /\ Context(current)'.asked = c /\ Context(current)'.id = current
        /\ Context(current)'.uac = uac[current] /\ Context(current)'.copied = FALSE
    BY <2>1, <2>4 DEF Context
  <2>6. c # NoCall
    BY SMT DEF Calls, NoCall
  <2>7. Running(Context(current), pc)'
    BY <1>3, <1>4, <2>1, <2>2, <2>5, <2>6 DEF Running, Alone, Spawning, Closed, NeedsAc
  <2>8. Krsp'
    BY <1>3, <2>1 DEF Krsp
  <2> QED BY <1>3, <2>1, <2>3, <2>5, <2>7, <2>8, AloneStep DEF Alone
<1> QED BY <1>6, <1>7, <1>8, <1>9
\* The end of a call
LEMMA SysretStep ==
    ASSUME IInv, SyscallExit \/ Sysret
    PROVE  IInv'
<1>1. /\ TypeInv /\ Running(Context(current), pc) /\ Krsp /\ StackFrames \in Nat /\ rsp \in Nat
      /\ Chain(Context(current), kstack[current], rsp, Live, pc) /\ Live \in 0..MaxLive
  BY Here, SMT DEF IInv
<1>2. /\ Context(current).id = current /\ Context(current).asked = asked[current]
      /\ Context(current).ursp = ursp[current] /\ Context(current).uac = uac[current]
      /\ Context(current).fred = fred
  BY ContextIs
<1>3. CASE SyscallExit
  <2>1. /\ pc = "exit" /\ krsp' = [krsp EXCEPT ![current] = rsp]
        /\ rsp' = 0 /\ usp' = ursp[current] /\ regs' = [regs EXCEPT !.r15 = scratch]
        /\ ursp' = [ursp EXCEPT ![current] = None] /\ scratch' = None
        /\ gs' = Other(gs) /\ pc' = "sysret"
        /\ current' = current /\ kstack' = kstack /\ rflags' = rflags
        /\ smap' = smap /\ fred' = fred /\ panic_count' = panic_count
        /\ asked' = asked /\ copied' = copied /\ uac' = uac
    BY <1>3 DEF SyscallExit, machine, hist
  <2>2. pc \in Alone /\ pc' \in Alone /\ pc' \in Places /\ pc \in Closed
    BY <2>1 DEF Alone, Places, Closed
  <2>3. /\ gs = "kernel" /\ rflags.if = FALSE /\ asked[current] # NoCall /\ ~fred
        /\ regs.r11 = uac[current] /\ scratch = current /\ ursp[current] = current
        /\ Exact(Context(current), regs.rax)
    BY <1>1, <1>2, <2>1, <2>2 DEF Running
  <2>4. /\ gs' = "user" /\ regs' \in Regs /\ regs'.r15 = current /\ regs'.r11 = regs.r11
        /\ regs'.rax = regs.rax
    BY <1>1, <2>1, <2>3 DEF Other, TypeInv, Regs
  <2>5. rsp <= MaxLive + 1
    <3>1. Live = 0
      BY <1>1, <2>2 DEF Chain
    <3> QED BY <1>1, <1>2, <2>3, <3>1, SMT DEF Chain
  <2>6. TypeInv'
    BY <1>1, <2>1, <2>2, <2>3, <2>4, SMT DEF TypeInv
  <2>7. /\ \A t \in Threads \ {current} : krsp'[t] = krsp[t] /\ ursp'[t] = ursp[t]
        /\ krsp'[current] = rsp
    BY <1>1, <2>1 DEF TypeInv
  <2>8. /\ \A t \in Threads \ {current} : Context(t)' = Context(t)
        /\ Context(current)'.asked = asked[current] /\ Context(current)'.id = current
        /\ Context(current)'.uac = uac[current]
        /\ Context(current)'.copied = Context(current).copied
    BY <2>1, <2>7 DEF Context
  <2>9. Exact(Context(current)', regs.rax)
    BY <1>2, <2>3, <2>8 DEF Exact
  <2>10. Running(Context(current), pc)'
    BY <2>1, <2>3, <2>4, <2>8, <2>9 DEF Running, Alone, Spawning, Closed, NeedsAc
  <2>11. Krsp'
    BY <2>1, <2>5, <2>7 DEF Krsp
  <2> QED BY <2>1, <2>2, <2>6, <2>7, <2>8, <2>10, <2>11, AloneStep
<1>4. CASE Sysret
  <2>1. /\ pc = "sysret" /\ pc' = "user" /\ rflags' = [ac |-> regs.r11, if |-> TRUE]
        /\ regs' = [regs EXCEPT !.rax = "nr"] /\ asked' = [asked EXCEPT ![current] = NoCall]
        /\ copied' = [copied EXCEPT ![current] = FALSE] /\ uac' = uac
        /\ current' = current /\ kstack' = kstack /\ rsp' = rsp /\ krsp' = krsp /\ usp' = usp
        /\ smap' = smap /\ fred' = fred /\ panic_count' = panic_count /\ gs' = gs
        /\ ursp' = ursp /\ scratch' = scratch
    BY <1>4 DEF Sysret, Answered, machine
  <2>2. pc \in Alone /\ pc' \in Alone /\ pc' \in Places /\ rsp = 0
    BY <1>1, <2>1 DEF Alone, Places, Running
  <2>3. /\ gs = "user" /\ regs.r11 = uac[current] /\ regs.r15 = current /\ usp = current
        /\ krsp[current] <= MaxLive + 1
    BY <1>1, <1>2, <2>1 DEF Running, Krsp
  <2>4. /\ rflags' \in Flags /\ regs' \in Regs /\ regs'.r15 = current
    BY <1>1, <2>1, <2>3 DEF TypeInv, Regs, Flags
  <2>5. TypeInv'
    BY <1>1, <2>1, <2>2, <2>4 DEF TypeInv
  <2>6. /\ \A t \in Threads \ {current} : asked'[t] = asked[t] /\ copied'[t] = copied[t]
        /\ asked'[current] = NoCall
    BY <1>1, <2>1 DEF TypeInv
  <2>7. /\ \A t \in Threads \ {current} : Context(t)' = Context(t)
        /\ Context(current)'.asked = NoCall /\ Context(current)'.id = current
        /\ Context(current)'.uac = uac[current]
    BY <2>1, <2>6 DEF Context
  <2>8. Running(Context(current), pc)'
    BY <2>1, <2>2, <2>3, <2>4, <2>7 DEF Running, Alone, Spawning, Closed, NeedsAc
  <2>9. Krsp'
    BY <2>1, <2>3 DEF Krsp
  <2> QED BY <2>1, <2>2, <2>5, <2>7, <2>8, <2>9, AloneStep
<1> QED BY <1>3, <1>4

\* A call is pushed; its frame is the only one that is live.
LEMMA CallPush ==
    ASSUME IInv, pc \in Alone, NEW d \in 1..StackFrames, NEW f \in FrameSet, TypeInv',
           kstack' = [kstack EXCEPT ![current][d] = f], rsp' = d, pc' = "execute",
           current' = current, krsp' = krsp, panic_count' = panic_count,
           \A t \in Threads \ {current} : Context(t)' = Context(t),
           f.pc = "user", f.below = d - 1, f.live = 1,
           f.regs.r15 = current, f.usp = current, asked'[current] \in Calls, ~copied'[current],
           IF fred' THEN d = 1 /\ f.rflags = [ac |-> uac'[current], if |-> TRUE]
                    ELSE /\ d - 1 <= MaxLive + 1 /\ f.regs.r11 = uac'[current]
                         /\ ursp'[current] = current,
           gs' = "kernel", rflags'.if = TRUE, Krsp'
    PROVE  IInv'
<1> DEFINE y == Context(current)'
<1>1. /\ TypeInv /\ MaxLive \in Nat \ {0} /\ StackFrames \in Nat /\ Live \in 0..MaxLive
      /\ Chain(Context(current), kstack[current], rsp, Live, pc) /\ rsp \in Nat
  BY Here, SMT
<1>2. /\ y.id = current /\ y.asked = asked'[current] /\ y.copied = copied'[current]
      /\ y.uac = uac'[current] /\ y.ursp = ursp'[current] /\ y.fred = fred'
  BY DEF Context
<1>3. /\ kstack'[current][d] = f /\ \A t \in Threads \ {current} : kstack'[t] = kstack[t]
  BY <1>1, Store
<1>4. y.asked # NoCall
  BY <1>2, SMT DEF Calls, NoCall
<1>5. Stage(y, "execute", f.regs.rax)
  BY <1>2 DEF Stage
<1> HIDE DEF y
<1>6. FrameOK(y, f, "execute")
  BY <1>2, <1>4, <1>5 DEF FrameOK, OverUser, Calling
<1>7. Chain(y, kstack'[current], d, 1, "execute")
  <2>1. d \in Nat \ {0} /\ IF y.asked # NoCall /\ ~y.fred THEN d - 1 <= MaxLive + 1 ELSE d = 1
    BY <1>1, <1>2, <1>4, SMT
  <2>2. f.pc \in Outer /\ "execute" \notin Alone
    BY DEF Outer, Alone, Spawning
  <2> QED BY <1>3, <1>6, <2>1, <2>2, ChainOne
<1>8. Chain(Context(current), kstack[current], rsp, 1, pc)'
  BY <1>7 DEF y
<1>9. Running(Context(current), pc)'
  BY RunsOn DEF Alone, Spawning, Closed, NeedsAc
<1>10. Live = 0
  BY <1>1 DEF Chain
<1>11. ~Traced(kstack[current], rsp, Live) /\ pc \notin {"stack_trace", "hlt"}
  BY <1>1, <1>10, SMT DEF Traced, Alone, Spawning
<1>12. 1 \in 0..MaxLive /\ 1 # 0
  BY <1>1, SMT
<1> QED BY <1>3, <1>8, <1>9, <1>11, <1>12, Step
\* syscall_entry has stored the registers.
LEMMA SyscallEntryStep ==
    ASSUME IInv, SyscallEntry
    PROVE  IInv'
<1> DEFINE d == krsp[current] + 1
           f == [Frame("user", d - 1, 1) EXCEPT !.regs.r15 = scratch]
<1>1. /\ TypeInv /\ Running(Context(current), pc) /\ Krsp /\ StackFrames = 2 * MaxLive + 2
      /\ MaxLive \in Nat \ {0}
  BY Here DEF IInv
<1>2. /\ pc = "entry" /\ ursp' = [ursp EXCEPT ![current] = usp] /\ rsp' = d
      /\ kstack' = [kstack EXCEPT ![current][d] = f]
      /\ pc' = "execute" /\ rflags' = [rflags EXCEPT !.if = TRUE]
      /\ regs' = Clobbered /\ usp' = None /\ scratch' = None
      /\ current' = current /\ smap' = smap /\ fred' = fred /\ panic_count' = panic_count
      /\ asked' = asked /\ copied' = copied /\ uac' = uac /\ gs' = gs /\ krsp' = krsp
  BY DEF SyscallEntry, machine, hist
<1>3. /\ Context(current).id = current /\ Context(current).asked = asked[current]
      /\ Context(current).copied = copied[current] /\ Context(current).uac = uac[current]
  BY ContextIs
<1>4. pc \in Alone /\ pc' \in Places
  BY <1>2 DEF Alone, Places, Calling
<1>5. /\ gs = "kernel" /\ asked[current] # NoCall /\ ~fred /\ regs.r11 = uac[current]
      /\ usp = current /\ scratch = current /\ ~copied[current]
      /\ krsp[current] <= MaxLive + 1
  BY <1>1, <1>2, <1>3 DEF Running, Krsp
<1>6. krsp[current] \in Nat /\ d \in 1..StackFrames /\ d - 1 <= MaxLive + 1 /\ d - 1 \in 0..StackFrames
  BY <1>1, <1>5, SMT DEF TypeInv
<1>7. /\ f.pc = "user" /\ f.below = d - 1 /\ f.live = 1 /\ f.usp = usp
      /\ f.regs.r15 = scratch /\ f.regs.r11 = regs.r11 /\ f \in FrameSet
  <2>1. f = [pc |-> "user", regs |-> [regs EXCEPT !.r15 = scratch], usp |-> usp,
             rflags |-> rflags, below |-> d - 1, live |-> 1]
    BY SMT DEF Frame
  <2>2. [regs EXCEPT !.r15 = scratch] \in Regs
    BY <1>1 DEF Regs, TypeInv
  <2>3. [regs EXCEPT !.r15 = scratch].r15 = scratch /\ [regs EXCEPT !.r15 = scratch].r11 = regs.r11
    BY <1>1 DEF Regs, TypeInv
  <2>4. 1 \in 0..StackFrames /\ "user" \in Places /\ usp \in Threads \cup {None} /\ rflags \in Flags
    BY <1>1, SMT DEF TypeInv, Places, Alone
  <2> HIDE DEF d, f
  <2> QED BY <1>6, <2>1, <2>2, <2>3, <2>4 DEF FrameSet
<1> HIDE DEF d, f
<1>8. kstack' \in [Threads -> [1..StackFrames -> FrameSet]]
  BY <1>1, <1>2, <1>6, <1>7, Store
<1>9. rflags' \in Flags /\ rflags'.if = TRUE /\ regs' \in Regs
  BY <1>1, <1>2 DEF TypeInv, Flags, Regs, Clobbered
<1>10. ursp' \in [Threads -> Threads \cup {None}] /\ ursp'[current] = current
       /\ \A t \in Threads \ {current} : ursp'[t] = ursp[t]
  BY <1>1, <1>2, <1>5 DEF TypeInv
<1>11. rsp' \in 0..StackFrames
  BY <1>1, <1>2, <1>6, SMT
<1>12. TypeInv'
  BY <1>1, <1>2, <1>4, <1>8, <1>9, <1>10, <1>11 DEF TypeInv
<1>13. \A t \in Threads \ {current} : Context(t)' = Context(t)
  BY <1>2, <1>10 DEF Context
<1>14. Krsp' /\ asked'[current] \in Calls
  BY <1>1, <1>2, <1>5 DEF Krsp, TypeInv
<1>15. f.regs.r15 = current /\ f.usp = current /\ ~copied'[current] /\ gs' = "kernel"
  BY <1>2, <1>5, <1>7
<1>16. IF fred' THEN d = 1 /\ f.rflags = [ac |-> uac'[current], if |-> TRUE]
                ELSE /\ d - 1 <= MaxLive + 1 /\ f.regs.r11 = uac'[current]
                     /\ ursp'[current] = current
  BY <1>2, <1>5, <1>6, <1>7, <1>10
<1>17. /\ d \in 1..StackFrames /\ f \in FrameSet /\ f.pc = "user" /\ f.below = d - 1 /\ f.live = 1
       /\ rflags'.if = TRUE
  BY <1>6, <1>7, <1>9
<1> QED BY ONLY IInv, <1>2, <1>4, <1>12, <1>13, <1>14, <1>15, <1>16, <1>17, CallPush, Zenon

\* A call with FRED pushes its frame by itself.
LEMMA FredSyscallStep ==
    ASSUME IInv, NEW c \in Calls, FredSyscall(c)
    PROVE  IInv'
<1> DEFINE f == [Frame("user", 0, 1) EXCEPT !.regs.rax = "nr"]
<1>1. /\ TypeInv /\ Running(Context(current), pc) /\ Krsp /\ StackFrames = 2 * MaxLive + 2
      /\ MaxLive \in Nat \ {0}
  BY Here DEF IInv
<1>2. /\ pc = "user" /\ fred /\ ursp' = ursp /\ rsp' = 1
      /\ kstack' = [kstack EXCEPT ![current][1] = f]
      /\ pc' = "execute" /\ rflags' = [ac |-> FALSE, if |-> TRUE]
      /\ regs' = Clobbered /\ usp' = None /\ scratch' = scratch
      /\ current' = current /\ smap' = smap /\ fred' = fred /\ panic_count' = panic_count
      /\ asked' = [asked EXCEPT ![current] = c] /\ copied' = [copied EXCEPT ![current] = FALSE]
      /\ uac' = uac /\ gs' = Other(gs) /\ krsp' = krsp
  BY DEF FredSyscall, Does, Ask, machine, hist
<1>3. /\ Context(current).id = current /\ Context(current).asked = asked[current]
      /\ Context(current).uac = uac[current]
  BY ContextIs
<1>4. pc \in Alone /\ pc' \in Places /\ pc \notin Closed
  BY <1>2 DEF Alone, Places, Calling, Closed
<1>5. /\ gs = "user" /\ asked[current] = NoCall /\ rflags.ac = uac[current] /\ rflags.if = TRUE
      /\ usp = current /\ regs.r15 = current
  BY <1>1, <1>2, <1>3, <1>4 DEF Running
<1>6. /\ f.pc = "user" /\ f.below = 0 /\ f.live = 1 /\ f.usp = usp
      /\ f.regs.r15 = regs.r15 /\ f.rflags = rflags /\ f \in FrameSet
  <2>1. f = [pc |-> "user", regs |-> [regs EXCEPT !.rax = "nr"], usp |-> usp,
             rflags |-> rflags, below |-> 0, live |-> 1]
    BY SMT DEF Frame
  <2>2. [regs EXCEPT !.rax = "nr"] \in Regs /\ [regs EXCEPT !.rax = "nr"].r15 = regs.r15
    BY <1>1 DEF Regs, TypeInv
  <2>3. /\ 1 \in 0..StackFrames /\ 0 \in 0..StackFrames /\ "user" \in Places
        /\ usp \in Threads \cup {None} /\ rflags \in Flags
    BY <1>1, SMT DEF TypeInv, Places, Alone
  <2> HIDE DEF f
  <2> QED BY <2>1, <2>2, <2>3 DEF FrameSet
<1>7. rflags = [ac |-> uac[current], if |-> TRUE]
  BY <1>1, <1>5 DEF TypeInv, Flags
<1> HIDE DEF f
<1>8. 1 \in 1..StackFrames /\ 1 \in 0..StackFrames
  BY <1>1, SMT
<1>9. kstack' \in [Threads -> [1..StackFrames -> FrameSet]]
  BY <1>1, <1>2, <1>6, <1>8, Store
<1>10. rflags' \in Flags /\ rflags'.if = TRUE /\ regs' \in Regs /\ gs' = "kernel"
  BY <1>1, <1>2, <1>5 DEF TypeInv, Flags, Regs, Clobbered, Other
<1>11. /\ \A t \in Threads \ {current} : asked'[t] = asked[t] /\ copied'[t] = copied[t]
       /\ asked'[current] = c /\ copied'[current] = FALSE
  BY <1>1, <1>2 DEF TypeInv
<1>12. TypeInv'
  BY <1>1, <1>2, <1>4, <1>8, <1>9, <1>10 DEF TypeInv
<1>13. \A t \in Threads \ {current} : Context(t)' = Context(t)
  BY <1>2, <1>11 DEF Context
<1>14. Krsp'
  BY <1>1, <1>2, <1>5 DEF Krsp
<1>15. PICK d \in 1..StackFrames : d = 1
  BY <1>8
<1>16. /\ kstack' = [kstack EXCEPT ![current][d] = f] /\ rsp' = d /\ f.below = d - 1
       /\ fred' /\ d = 1 /\ f.rflags = [ac |-> uac'[current], if |-> TRUE]
  BY <1>2, <1>6, <1>7, <1>15, SMT
<1>17. f.regs.r15 = current /\ f.usp = current
  BY <1>5, <1>6
<1>18. /\ asked'[current] \in Calls /\ ~copied'[current]
       /\ pc' = "execute" /\ current' = current /\ krsp' = krsp /\ panic_count' = panic_count
  BY <1>2, <1>11
<1>19. IF fred' THEN d = 1 /\ f.rflags = [ac |-> uac'[current], if |-> TRUE]
                ELSE /\ d - 1 <= MaxLive + 1 /\ f.regs.r11 = uac'[current]
                     /\ ursp'[current] = current
  BY <1>16
<1> QED BY <1>4, <1>6, <1>10, <1>12, <1>13, <1>14, <1>16, <1>17, <1>18, <1>19, CallPush
\* A place that is cleared is a frame of its set.
LEMMA NoFrameIs == NoFrame \in FrameSet
<1>1. 0 \in 0..StackFrames
  BY EntryAssumption, SMT DEF StackFrames
<1> QED BY <1>1 DEF NoFrame, FrameSet, Clobbered, Regs, Flags

\* A call is done and pops its frame.
LEMMA SyscallReturnStep ==
    ASSUME IInv, SyscallReturn
    PROVE  IInv'
<1> DEFINE x == Context(current)
<1>1. /\ TypeInv /\ Running(x, pc) /\ Chain(x, kstack[current], rsp, Live, pc) /\ rsp \in Nat
      /\ StackFrames \in Nat /\ Live \in 0..MaxLive /\ MaxLive \in Nat
      /\ (rsp # 0 => Top \in FrameSet /\ rsp \in 1..StackFrames)
  BY Here, SMT
<1>2. /\ pc = "ret" /\ ~fred /\ pc' = "exit" /\ rflags' = [rflags EXCEPT !.if = FALSE]
      /\ regs' = Top.regs /\ scratch' = Top.regs.r15 /\ rsp' = Top.below
      /\ kstack' = [kstack EXCEPT ![current][rsp] = NoFrame]
      /\ current' = current /\ smap' = smap /\ fred' = fred /\ panic_count' = panic_count
      /\ asked' = asked /\ copied' = copied /\ uac' = uac /\ gs' = gs /\ krsp' = krsp
      /\ ursp' = ursp /\ usp' = usp
  BY DEF SyscallReturn, machine, hist
<1>3. pc \in Calling /\ pc \notin Alone /\ pc' \in Places /\ pc' \in Alone
  BY <1>2 DEF Calling, Alone, Spawning, Places
<1>4. /\ Live = 1 /\ rsp \in Nat \ {0} /\ OverUser(x, Top, pc) /\ x.asked # NoCall
      /\ Top.pc = "user" /\ Top.below = rsp - 1
      /\ IF ~x.fred THEN rsp - 1 <= MaxLive + 1 ELSE rsp = 1
  BY <1>1, <1>3, CallTop DEF Top
<1>5. x.id = current /\ x.fred = fred /\ gs = "kernel" /\ rflags \in Flags
  BY <1>1, <1>2, ContextIs DEF Running, TypeInv
<1>6. /\ Top.regs.r15 = x.id /\ Top.regs.r11 = x.uac /\ x.ursp = x.id
      /\ Exact(x, Top.regs.rax) /\ Top \in FrameSet /\ Top.regs \in Regs /\ rsp \in 1..StackFrames
  BY <1>1, <1>2, <1>4, <1>5 DEF OverUser, Stage, FrameSet
<1>7. /\ kstack' \in [Threads -> [1..StackFrames -> FrameSet]]
      /\ \A t \in Threads \ {current} : kstack'[t] = kstack[t]
  BY <1>1, <1>2, <1>6, NoFrameIs, Store
<1>8. rflags' \in Flags /\ rflags'.if = FALSE
  BY <1>2, <1>5 DEF Flags
<1>9. rsp' \in 0..StackFrames /\ rsp' \in Nat
  BY <1>1, <1>2, <1>4, <1>6, SMT
<1>10. scratch' \in Threads \cup {None}
  BY <1>1, <1>2, <1>5, <1>6 DEF TypeInv
<1>11. TypeInv'
  BY <1>1, <1>2, <1>3, <1>6, <1>7, <1>8, <1>9, <1>10 DEF TypeInv
<1>12. \A t \in Threads : Context(t)' = Context(t)
  BY <1>2 DEF Context
<1>13. Context(current)' = x
  BY <1>1, <1>2, <1>12 DEF TypeInv
<1> HIDE DEF x
<1>14. Chain(Context(current), kstack[current], rsp, 0, pc)'
  <2>1. IF x.asked # NoCall /\ ~x.fred THEN rsp' <= MaxLive + 1 ELSE rsp' = 0
    BY <1>2, <1>4, <1>5
  <2>2. Chain(x, kstack'[current], rsp', 0, pc')
    BY <1>3, <1>9, <2>1, ChainNone
  <2> QED BY <1>2, <1>13, <2>2
<1>15. Running(Context(current), pc)'
  BY <1>2, <1>4, <1>5, <1>6, <1>8, <1>13 DEF Running, Alone, Spawning, Closed, NeedsAc
<1>16. Krsp'
  BY <1>2 DEF IInv, Krsp
<1>17. ~Traced(kstack[current], rsp, Live)
  BY <1>4, SMT DEF Traced, Top
<1>18. 0 \in 0..MaxLive /\ pc \notin {"stack_trace", "hlt"}
  BY <1>1, <1>2, SMT
<1> QED BY <1>2, <1>7, <1>11, <1>12, <1>14, <1>15, <1>16, <1>17, <1>18, Step

\* An event returns to the program.
LEMMA ResumeUser ==
    ASSUME IInv, pc = "iret", Top.pc = "user", Resume(Top, Top.rflags)
    PROVE  IInv'
<1> DEFINE x == Context(current)
<1>1. TypeInv /\ StackFrames \in Nat /\ Krsp /\ MaxLive \in Nat /\ rsp \in Nat
  BY Here, SMT DEF IInv
<1>2. pc \notin Alone
  BY DEF Alone, Spawning
<1>3. /\ FrameOK(x, Top, "iret") /\ rsp \in 1..StackFrames /\ Live = 1 /\ Top \in FrameSet
      /\ gs = "kernel"
  BY <1>2, InKernel DEF Outer
<1>4. x.id = current /\ x.fred = fred /\ x.asked = asked[current] /\ x.uac = uac[current]
  BY ContextIs
<1>5. /\ Top.regs.r15 = current /\ Top.usp = current
      /\ Top.rflags = [ac |-> uac[current], if |-> TRUE]
      /\ asked[current] # NoCall => fred
  <2> HIDE DEF x
  <2> QED BY <1>3, <1>4 DEF FrameOK, OverUser, Calling
<1>6. /\ pc' = "user" /\ usp' = current /\ rflags' = [ac |-> uac[current], if |-> TRUE] /\ rsp' = 0
      /\ gs' = "user" /\ kstack' = [kstack EXCEPT ![current][rsp] = NoFrame]
      /\ regs' = [Top.regs EXCEPT !.rax = "nr"]
      /\ asked' = [asked EXCEPT ![current] = NoCall]
      /\ copied' = [copied EXCEPT ![current] = FALSE]
      /\ uac' = uac /\ current' = current /\ scratch' = scratch /\ krsp' = krsp /\ ursp' = ursp
      /\ panic_count' = panic_count /\ fred' = fred /\ smap' = smap
  BY <1>3, <1>5 DEF Resume, Answered, Other, machine
<1>7. /\ kstack' \in [Threads -> [1..StackFrames -> FrameSet]]
      /\ \A t \in Threads \ {current} : kstack'[t] = kstack[t]
  BY <1>1, <1>3, <1>6, NoFrameIs, Store
<1>8. Top.regs \in Regs
  BY <1>3 DEF FrameSet
<1>9. regs' \in Regs /\ regs'.r15 = current /\ rflags' \in Flags
  BY <1>1, <1>5, <1>6, <1>8 DEF Regs, Flags, TypeInv
<1>10. TypeInv'
  BY <1>1, <1>6, <1>7, <1>9, SMT DEF TypeInv, Places, Alone
<1>11. /\ \A t \in Threads \ {current} : asked'[t] = asked[t] /\ copied'[t] = copied[t]
       /\ asked'[current] = NoCall
  BY <1>1, <1>6 DEF TypeInv
<1>12. /\ \A t \in Threads \ {current} : Context(t)' = Context(t)
       /\ Context(current)'.asked = NoCall /\ Context(current)'.id = current
       /\ Context(current)'.uac = uac[current]
  BY <1>6, <1>11 DEF Context
<1>13. Chain(Context(current), kstack[current], rsp, 0, pc)'
  <2>1. \A y, s, p : p \in Alone => Chain(y, s, 0, 0, p)
    BY <1>1, ChainNone, SMT
  <2>2. pc' \in Alone
    BY <1>6 DEF Alone
  <2> QED BY <1>6, <2>1, <2>2
<1>14. Running(Context(current), pc)'
  BY <1>6, <1>9, <1>12 DEF Running, Alone, Spawning, Closed, NeedsAc
<1>15. Krsp'
  BY <1>1, <1>5, <1>6 DEF Krsp
<1>16. ~Traced(kstack[current], rsp, Live)
  BY <1>1, <1>3, SMT DEF Traced, Top
<1>17. 0 \in 0..MaxLive
  BY <1>1, SMT
<1> QED BY <1>6, <1>7, <1>10, <1>12, <1>13, <1>14, <1>15, <1>16, <1>17, Step

\* An event returns to code of the kernel.
LEMMA ResumeKernel ==
    ASSUME IInv, pc = "iret", Top.pc # "user", Resume(Top, Top.rflags)
    PROVE  IInv'
<1> DEFINE x == Context(current)
           s == kstack[current]
<1>1. /\ TypeInv /\ StackFrames \in Nat /\ Krsp /\ MaxLive \in Nat /\ rsp \in Nat
      /\ Chain(x, s, rsp, Live, pc)
  BY Here, SMT DEF IInv
<1>2. pc \notin Alone
  BY DEF Alone, Spawning
<1>3. /\ FrameOK(x, Top, "iret") /\ rsp \in 1..StackFrames /\ Live \in 1..MaxLive
      /\ Top \in FrameSet /\ gs = "kernel" /\ Top.below = rsp - 1
  BY <1>2, InKernel
<1>4. /\ Top.pc # "stack_trace" /\ Top.rflags.if /\ (Top.pc \in NeedsAc /\ smap => Top.rflags.ac)
      /\ (Top.pc \in Spawning => Fresh(x))
      /\ Top.pc \in Spawning \cup Calling \cup {"fault", "iret", "panic"}
  <2>1. x.smap = smap
    BY ContextIs
  <2> HIDE DEF x
  <2> QED BY <1>3, <2>1 DEF FrameOK, OverKernel, Outer
<1>5. /\ pc' = Top.pc /\ usp' = Top.usp /\ rflags' = Top.rflags /\ rsp' = rsp - 1
      /\ gs' = gs /\ kstack' = [kstack EXCEPT ![current][rsp] = NoFrame] /\ regs' = Top.regs
      /\ asked' = asked /\ copied' = copied /\ uac' = uac
      /\ current' = current /\ scratch' = scratch /\ krsp' = krsp /\ ursp' = ursp
      /\ panic_count' = panic_count /\ fred' = fred /\ smap' = smap
  BY <1>3 DEF Resume, machine, hist
<1>6. /\ kstack' \in [Threads -> [1..StackFrames -> FrameSet]]
      /\ \A e \in 1..StackFrames \ {rsp} : kstack'[current][e] = kstack[current][e]
      /\ \A t \in Threads \ {current} : kstack'[t] = kstack[t]
  BY <1>1, <1>3, <1>5, NoFrameIs, Store
<1>7. Top.regs \in Regs /\ Top.rflags \in Flags /\ Top.usp \in Threads \cup {None}
  BY <1>3 DEF FrameSet
<1>8. rsp - 1 \in 0..StackFrames /\ Top.pc \in Places
  BY <1>1, <1>3, <1>4, SMT DEF Places, Alone, Handling
<1>9. TypeInv'
  BY <1>1, <1>5, <1>6, <1>7, <1>8 DEF TypeInv
<1>10. \A t \in Threads : Context(t)' = Context(t)
  BY <1>5 DEF Context
<1>11. Context(current)' = x
  BY <1>1, <1>5, <1>10 DEF TypeInv
<1>12. PICK n \in 0..MaxLive : n = Live - 1
  BY <1>1, <1>3, SMT
<1>13. \A e \in 1..rsp - 1 : kstack'[current][e] = s[e]
  BY <1>1, <1>3, <1>6, SMT
<1>14. Chain(x, kstack'[current], rsp - 1, n, Top.pc)
  <2>1. s[rsp].pc = Top.pc
    BY DEF Top
  <2> HIDE DEF x, s
  <2> QED BY <1>1, <1>2, <1>12, <1>13, <2>1, ChainPop
<1>15. Chain(Context(current), kstack[current], rsp, n, pc)'
  BY <1>5, <1>11, <1>14
<1>16. Top.pc \in Alone <=> Top.pc \in Spawning
  BY <1>4 DEF Alone, Calling, Spawning
<1>17. Top.pc \in Alone => rsp - 1 = 0
  <2>1. ASSUME Top.pc \in Alone PROVE rsp - 1 = 0
    <3>1. x.asked = NoCall
      BY <1>4, <1>16, <2>1 DEF Fresh
    <3>2. n = 0 /\ rsp - 1 = n
      BY <1>14, <2>1, <3>1 DEF Chain
    <3> QED BY <3>2
  <2> QED BY <2>1
<1>18. n = 0 => rsp' = 0
  BY <1>5, <1>14, <1>17 DEF Chain
<1>19. Running(Context(current), pc)'
  <2>1. Top.pc \notin Closed /\ Top.pc \notin {"user", "sysret", "entry", "exit"}
    BY <1>4 DEF Closed, Spawning, Calling
  <2>2. rflags'.if = TRUE
    BY <1>4, <1>5, <1>7 DEF Flags
  <2> HIDE DEF x
  <2> QED BY <1>3, <1>4, <1>5, <1>11, <1>17, <2>1, <2>2 DEF Running
<1>20. Krsp'
  <2>1. Top.pc \notin {"entry", "sysret"}
    BY <1>4 DEF Spawning, Calling
  <2> QED BY <1>1, <1>5, <2>1 DEF Krsp
<1>21. Traced(kstack[current], rsp, Live) => Traced(kstack'[current], rsp', n)
  <2>1. ASSUME NEW e \in rsp - Live + 1..rsp, s[e].pc = "stack_trace"
        PROVE  e \in rsp' - n + 1..rsp' /\ kstack'[current][e].pc = "stack_trace"
    <3>1. e # rsp
      BY <1>4, <2>1 DEF Top
    <3>2. Live <= rsp
      BY <1>1, SMT DEF Chain
    <3> QED BY <1>3, <1>5, <1>12, <1>13, <2>1, <3>1, <3>2, SMT
  <2> QED BY <2>1 DEF Traced
<1> QED BY <1>5, <1>6, <1>9, <1>10, <1>15, <1>18, <1>19, <1>20, <1>21, Step
-----------------------------------------------------------------------------
(* schedule() *)

\* The stack of the thread that was running, and the one of the thread that goes on
LEMMA SwitchThread ==
    ASSUME IInv, NEW t \in Threads \ {current}, NEW after \in {"iret", "ret"},
           ThreadSwitch(t, after), pc \in {"timer", "sleep"},
           FrameOK(Context(current), Top, after)
    PROVE  IInv'
<1> DEFINE c == current
           x == Context(c)
           y == Context(t)
           k == krsp[t]
           g == kstack[t][k]
           f == Frame(after, rsp, Live + 1)
           m == Live
<1>1. /\ TypeInv /\ Running(x, pc) /\ Chain(x, kstack[c], rsp, Live, pc) /\ rsp \in Nat
      /\ StackFrames = 2 * MaxLive + 2 /\ MaxLive \in Nat \ {0} /\ rsp + 1 \in 1..StackFrames
      /\ Live \in 0..MaxLive /\ Waiting(y, kstack[t], k) /\ Panicking /\ rsp \in 0..StackFrames
  BY Here DEF IInv, TypeInv
<1>2. pc \notin Alone /\ pc \notin Closed /\ pc \notin {"stack_trace", "hlt"}
  BY DEF Alone, Spawning, Closed
<1>3. gs = "kernel" /\ rflags.if = TRUE /\ rflags \in Flags
  BY <1>1, <1>2 DEF Running, TypeInv, Alone
<1>4. /\ k \in 1..StackFrames /\ k - 1 \in Nat /\ g.pc \in {"spawn", "iret", "ret"}
      /\ g.below = k - 1 /\ g.live \in 1..MaxLive + 1 /\ (g.pc = "spawn" => Fresh(y))
      /\ Chain(y, kstack[t], k - 1, g.live - 1, g.pc) /\ g \in FrameSet
  BY <1>1, SMT DEF Waiting, TypeInv
<1>5. /\ kstack' = [kstack EXCEPT ![c][rsp + 1] = f, ![t][k] = NoFrame]
      /\ krsp' = [krsp EXCEPT ![c] = rsp + 1] /\ current' = t
      /\ rsp' = g.below /\ pc' = g.pc /\ regs' = g.regs /\ usp' = usp /\ rflags' = rflags
      /\ gs' = gs /\ scratch' = scratch /\ ursp' = ursp /\ panic_count' = panic_count
      /\ asked' = asked /\ copied' = copied /\ uac' = uac /\ fred' = fred /\ smap' = smap
  BY DEF ThreadSwitch, machine, hist
<1>6. f \in FrameSet /\ f.pc = after /\ f.below = rsp /\ f.live = Live + 1
  <2>1. Live + 1 \in 0..StackFrames
    BY <1>1, SMT
  <2> QED BY <1>1, <2>1 DEF Frame, FrameSet, TypeInv, Places, Calling, Handling
<1> HIDE DEF f
<1>7. /\ kstack' \in [Threads -> [1..StackFrames -> FrameSet]]
      /\ kstack'[c][rsp + 1] = f
      /\ \A e \in 1..StackFrames \ {rsp + 1} : kstack'[c][e] = kstack[c][e]
      /\ \A e \in 1..StackFrames \ {k} : kstack'[t][e] = kstack[t][e]
      /\ \A u \in Threads \ {c, t} : kstack'[u] = kstack[u]
  <2>1. kstack'[c] = [kstack[c] EXCEPT ![rsp + 1] = f]
    BY <1>1, <1>5 DEF TypeInv
  <2>2. kstack'[t] = [kstack[t] EXCEPT ![k] = NoFrame]
    BY <1>1, <1>5 DEF TypeInv
  <2>3. \A u \in Threads \ {c, t} : kstack'[u] = kstack[u]
    BY <1>1, <1>5 DEF TypeInv
  <2>4. /\ kstack[c] \in [1..StackFrames -> FrameSet] /\ kstack[t] \in [1..StackFrames -> FrameSet]
        /\ c \in Threads
    BY <1>1 DEF TypeInv
  <2>5. /\ kstack'[c] \in [1..StackFrames -> FrameSet] /\ kstack'[t] \in [1..StackFrames -> FrameSet]
    <3>1. f \in FrameSet /\ NoFrame \in FrameSet
      BY <1>6, NoFrameIs
    <3> QED BY <2>1, <2>2, <2>4, <3>1
  <2>6. \A u \in Threads : kstack'[u] \in [1..StackFrames -> FrameSet]
    BY <1>1, <2>3, <2>5 DEF TypeInv
  <2>7. kstack' = [u \in Threads |-> kstack'[u]]
    BY <1>1, <1>5 DEF TypeInv
  <2>8. kstack' \in [Threads -> [1..StackFrames -> FrameSet]]
    BY <2>6, <2>7
  <2>9. rsp + 1 \in 1..StackFrames
    BY <1>1, SMT
  <2>10. /\ kstack'[c][rsp + 1] = f
         /\ \A e \in 1..StackFrames \ {rsp + 1} : kstack'[c][e] = kstack[c][e]
    BY <2>1, <2>4, <2>9
  <2>11. \A e \in 1..StackFrames \ {k} : kstack'[t][e] = kstack[t][e]
    BY <2>2, <2>4
  <2> QED BY <2>3, <2>8, <2>10, <2>11
<1>8. /\ krsp' \in [Threads -> 0..StackFrames] /\ krsp'[c] = rsp + 1
      /\ \A u \in Threads \ {c} : krsp'[u] = krsp[u]
  BY <1>1, <1>5, SMT DEF TypeInv
<1>9. TypeInv'
  <2>1. g.regs \in Regs /\ g.pc \in Places /\ g.below \in 0..StackFrames
    BY <1>1, <1>4 DEF FrameSet, Places, Alone, Spawning, Calling, Handling
  <2> QED BY <1>1, <1>5, <1>7, <1>8, <2>1 DEF TypeInv
<1>10. \A u \in Threads : Context(u)' = Context(u)
  BY <1>5 DEF Context
<1>11. PICK n \in 0..MaxLive : n = g.live - 1
  BY <1>1, <1>4, SMT
<1>12. Chain(y, kstack'[t], k - 1, n, g.pc)
  <2>1. \A e \in 1..k - 1 : kstack'[t][e] = kstack[t][e]
    BY <1>1, <1>4, <1>7, SMT
  <2> HIDE DEF y, k, g
  <2> QED BY <1>4, <1>11, <2>1, ChainFrame
<1>13. g.pc \in Alone => g.pc = "spawn" /\ k - 1 = 0
  <2>1. ASSUME g.pc \in Alone PROVE g.pc = "spawn" /\ k - 1 = 0
    <3>1. g.pc = "spawn"
      BY <1>4, <2>1 DEF Alone, Spawning
    <3>2. y.asked = NoCall
      BY <1>4, <3>1 DEF Fresh
    <3>3. n = 0 /\ k - 1 = n
      BY <1>12, <2>1, <3>2 DEF Chain
    <3> QED BY <3>1, <3>3
  <2> QED BY <2>1
<1>14. Live' = n
  <2>1. CASE g.pc \in Alone
    BY <1>5, <1>4, <1>12, <1>13, <2>1 DEF Live, Chain
  <2>2. CASE g.pc \notin Alone
    <3>1. n \in 1..k - 1 /\ kstack'[t][k - 1].live = n
      <4> HIDE DEF y, k, g
      <4> QED BY <1>4, <1>12, <2>2, ChainTop, SMT
    <3>2. rsp' = k - 1 /\ rsp' # 0 /\ pc' # "exit" /\ current' = t
      BY <1>4, <1>5, <3>1, SMT
    <3> QED BY <3>1, <3>2 DEF Live, Top
  <2> QED BY <2>1, <2>2
<1>15. Chain(Context(current), kstack[current], rsp, Live, pc)'
  <2>1. Context(current)' = y
    BY <1>5, <1>10
  <2> HIDE DEF y
  <2> QED BY <1>4, <1>5, <1>12, <1>14, <2>1
<1>16. Running(Context(current), pc)'
  <2>1. Context(current)' = y
    BY <1>5, <1>10
  <2>2. g.pc \notin Closed /\ g.pc \notin NeedsAc /\ (g.pc \in Spawning => g.pc = "spawn")
        /\ g.pc \notin {"user", "sysret", "entry", "exit"}
    BY <1>4 DEF Closed, NeedsAc, Spawning
  <2> HIDE DEF y, g, k
  <2> QED BY <1>3, <1>4, <1>5, <1>13, <2>1, <2>2 DEF Running
<1>17. ASSUME NEW u \in Threads \ {t}
       PROVE  Waiting(Context(u)', kstack'[u], krsp'[u])
  <2>1. CASE u # c
    <3>1. Waiting(Context(u), kstack[u], krsp[u])
      BY <2>1 DEF IInv
    <3> QED BY <1>7, <1>8, <1>10, <2>1, <3>1
  <2>2. CASE u = c
    <3>1. \A e \in 1..rsp : kstack'[c][e] = kstack[c][e]
      <4>1. \A e \in 1..rsp : e \in 1..StackFrames \ {rsp + 1}
        BY <1>1, SMT
      <4> QED BY <1>7, <4>1
    <3>2. Chain(x, kstack[c], rsp, m, after)
      <4>1. after \notin Alone
        BY DEF Alone, Spawning
      <4>2. FrameOK(x, kstack[c][rsp], after)
        BY DEF Top
      <4> HIDE DEF x
      <4> QED BY <1>1, <1>2, <4>1, <4>2, ChainGo
    <3>3. Chain(x, kstack'[c], rsp, m, after)
      <4> HIDE DEF x, m
      <4> QED BY <1>1, <3>1, <3>2, ChainFrame
    <3>4. /\ krsp'[u] = rsp + 1 /\ kstack'[u][rsp + 1] = f /\ Context(u)' = x
          /\ rsp + 1 - 1 = rsp /\ Live + 1 - 1 = Live /\ Live + 1 \in 1..MaxLive + 1
      BY <1>1, <1>7, <1>8, <1>10, <2>2, SMT
    <3> DEFINE w == krsp'[u]
               h == kstack'[u][w]
    <3> HIDE DEF x
    <3>5. w = rsp + 1 /\ h = f
      BY <3>4, Zenon
    <3>6. w \in 1..StackFrames /\ w - 1 = rsp
      BY ONLY <1>1, <3>5, SMT
    <3>7. h.pc = after /\ h.below = w - 1
      BY <1>6, <3>5, <3>6, Zenon
    <3>8. h.live \in 1..MaxLive + 1 /\ h.live - 1 = m
      <4>1. h.live = Live + 1
        BY <1>6, <3>5
      <4>2. Live \in 0..MaxLive /\ MaxLive \in Nat
        BY <1>1
      <4> HIDE DEF h
      <4> QED BY ONLY <4>1, <4>2, SMT DEF m
    <3>9. Chain(x, kstack'[u], w - 1, h.live - 1, h.pc)
      BY <2>2, <3>3, <3>6, <3>7, <3>8, Zenon
    <3>10. after \in {"spawn", "iret", "ret"} /\ after # "spawn"
      OBVIOUS
    <3> QED BY <3>4, <3>6, <3>7, <3>8, <3>9, <3>10, Zenon DEF Waiting
  <2> QED BY <2>1, <2>2
<1>18. Krsp'
  <2>1. ASSUME asked[t] = NoCall \/ fred PROVE k <= MaxLive + 1
    <3>1. y.asked = NoCall \/ y.fred
      BY <2>1, ContextIs
    <3>2. k - 1 = n
      BY <1>12, <3>1 DEF Chain
    <3> QED BY <1>1, <1>4, <3>2, SMT
  <2> QED BY <1>4, <1>5, <1>8, <2>1 DEF Krsp
<1>19. ASSUME panic_count = 1
       PROVE  \/ Traced(kstack'[t], k - 1, n)
              \/ \E u \in Threads \ {t} :
                    Traced(kstack'[u], krsp'[u] - 1, kstack'[u][krsp'[u]].live - 1)
  <2>1. CASE Traced(kstack[c], rsp, Live)
    <3>1. \A e \in rsp - Live + 1..rsp : kstack'[c][e] = kstack[c][e]
      <4>1. Live <= rsp
        BY <1>1, SMT DEF Chain
      <4> QED BY <1>1, <1>7, <4>1, SMT
    <3>2. Traced(kstack'[c], rsp, Live)
      BY <2>1, <3>1 DEF Traced
    <3>3. krsp'[c] - 1 = rsp /\ kstack'[c][krsp'[c]].live - 1 = Live /\ c \in Threads \ {t}
      BY <1>1, <1>6, <1>7, <1>8, SMT DEF TypeInv
    <3> QED BY <3>2, <3>3
  <2>2. ASSUME NEW u \in Threads \ {c},
               Traced(kstack[u], krsp[u] - 1, kstack[u][krsp[u]].live - 1)
        PROVE  \/ Traced(kstack'[t], k - 1, n)
               \/ \E v \in Threads \ {t} :
                     Traced(kstack'[v], krsp'[v] - 1, kstack'[v][krsp'[v]].live - 1)
    <3>1. CASE u # t
      BY <1>7, <1>8, <2>2, <3>1
    <3>2. CASE u = t
      <4>1. \A e \in (k - 1) - n + 1..k - 1 : kstack'[t][e] = kstack[t][e]
        <5>1. n \in 0..k - 1
          BY <1>12 DEF Chain
        <5>2. StackFrames = 2 * MaxLive + 2 /\ MaxLive \in Nat /\ k \in 1..StackFrames
          BY <1>1, <1>4
        <5>3. \A e \in (k - 1) - n + 1..k - 1 : e \in 1..StackFrames \ {k}
          BY ONLY <5>1, <5>2, SMT
        <5> QED BY <1>7, <5>3
      <4>2. Traced(kstack[t], k - 1, n)
        BY <1>11, <2>2, <3>2
      <4> QED BY <4>1, <4>2 DEF Traced
    <3> QED BY <3>1, <3>2
  <2> QED BY <1>1, <1>2, <1>19, <2>1, <2>2 DEF Panicking
<1>20. Panicking'
  BY <1>4, <1>5, <1>14, <1>19 DEF Panicking
<1>21. \A u \in Threads \ {current'} : Waiting(Context(u), kstack[u], krsp[u])'
  BY <1>5, <1>17
<1>22. Live' <= MaxLive
  BY <1>1, <1>14, SMT
<1> QED BY <1>9, <1>15, <1>16, <1>18, <1>20, <1>21, <1>22 DEF IInv
\* schedule(), called by the timer or for a sleep
LEMMA ScheduleStep ==
    ASSUME IInv, NEW t \in Threads, TimerIsr(t) \/ SysSleepMs(t)
    PROVE  IInv'
<1> DEFINE x == Context(current)
<1>1. CASE t = current
  BY <1>1, SameThreadStep
<1>2. CASE t # current /\ TimerIsr(t)
  <2>1. pc = "timer" /\ ThreadSwitch(t, "iret") /\ pc \notin Alone
    BY <1>2 DEF TimerIsr, Alone, Spawning
  <2>2. FrameOK(x, Top, "timer")
    BY <2>1, InKernel
  <2>3. FrameOK(x, Top, "iret")
    BY <2>2 DEF FrameOK, OverUser, OverKernel, Calling, Handling
  <2> QED BY <1>2, <2>1, <2>3, SwitchThread
<1>3. CASE t # current /\ SysSleepMs(t)
  <2>1. pc = "sleep" /\ ThreadSwitch(t, "ret") /\ pc \in Calling
    BY <1>3 DEF SysSleepMs, Calling
  <2>2. FrameOK(x, Top, "sleep") /\ Top.pc = "user" /\ asked[current] # NoCall
        /\ Stage(x, "sleep", Top.regs.rax)
    BY <2>1, InCall
  <2>3. x.asked # NoCall
    BY <2>2, ContextIs
  <2>4. Stage(x, "ret", Top.regs.rax)
    BY <2>2 DEF Stage, Exact, Reads, Prints
  <2>5. FrameOK(x, Top, "ret")
    BY <2>2, <2>3, <2>4 DEF FrameOK, OverUser, Calling
  <2> QED BY <1>3, <2>1, <2>5, SwitchThread
<1> QED BY <1>1, <1>2, <1>3
-----------------------------------------------------------------------------
(* The invariant *)

\* The boot hands over a state of the invariant.
LEMMA IInvInit == Init => IInv
<1> SUFFICES ASSUME Init PROVE IInv
  OBVIOUS
<1>1. MaxLive \in Nat \ {0} /\ StackFrames = 2 * MaxLive + 2 /\ StackFrames \in Nat
  BY EntryAssumption, SMT DEF StackFrames
<1>2. /\ pc = "spawn" /\ rsp = 0 /\ usp = None /\ regs = Clobbered
      /\ rflags = [ac |-> FALSE, if |-> TRUE] /\ current \in Threads
      /\ gs = "kernel" /\ panic_count = 0
  BY DEF Init
<1>3. \A t \in Threads : krsp[t] = 1 /\ asked[t] = NoCall /\ uac[t] = FALSE
  BY DEF Init
<1>4. Frame("spawn", 0, 1) \in FrameSet
  <2>1. 0 \in 0..StackFrames /\ 1 \in 0..StackFrames
    BY <1>1, SMT
  <2> QED BY <1>2, <2>1 DEF Frame, FrameSet, Places, Alone, Spawning, Regs, Clobbered, Flags
<1>5. /\ kstack \in [Threads -> [1..StackFrames -> FrameSet]]
      /\ \A t \in Threads \ {current} : kstack[t][1] = Frame("spawn", 0, 1)
  <2>1. \A t \in Threads, d \in 1..StackFrames :
          (IF t # current /\ d = 1 THEN Frame("spawn", 0, 1) ELSE NoFrame) \in FrameSet
    BY <1>4, NoFrameIs
  <2>2. kstack = [t \in Threads |-> [d \in 1..StackFrames |->
                    IF t # current /\ d = 1 THEN Frame("spawn", 0, 1) ELSE NoFrame]]
    BY DEF Init
  <2>3. 1 \in 1..StackFrames
    BY <1>1, SMT
  <2> QED BY <2>1, <2>2, <2>3
<1>6. TypeInv
  <2>1. regs \in Regs /\ rflags \in Flags /\ pc \in Places
    BY <1>2 DEF Regs, Flags, Clobbered, Places, Alone, Spawning
  <2>2. rsp \in 0..StackFrames /\ krsp \in [Threads -> 0..StackFrames]
    BY <1>1, SMT DEF Init
  <2>3. /\ asked \in [Threads -> Calls \cup {NoCall}] /\ copied \in [Threads -> BOOLEAN]
        /\ uac \in [Threads -> BOOLEAN] /\ ursp \in [Threads -> Threads \cup {None}]
        /\ fred \in BOOLEAN /\ smap \in BOOLEAN /\ scratch = None
    BY DEF Init
  <2> QED BY <1>2, <1>5, <2>1, <2>2, <2>3 DEF TypeInv
<1>7. \A t \in Threads : Fresh(Context(t))
  BY <1>3, ContextIs DEF Fresh
<1>8. "spawn" \in Alone
  BY DEF Alone, Spawning
<1>9. \A t \in Threads : \A s : Chain(Context(t), s, 0, 0, "spawn")
  BY <1>1, <1>7, <1>8, ChainNone DEF Fresh
<1>10. Live = 0
  BY <1>2 DEF Live
<1>11. Running(Context(current), pc)
  BY <1>2, <1>7 DEF Running, Alone, Spawning, Closed, NeedsAc
<1>12. ASSUME NEW t \in Threads \ {current} PROVE Waiting(Context(t), kstack[t], krsp[t])
  <2>1. kstack[t][1].pc = "spawn" /\ kstack[t][1].below = 0 /\ kstack[t][1].live = 1
    BY <1>5, SMT DEF Frame
  <2>2. krsp[t] = 1 /\ 1 \in 1..StackFrames /\ 1 - 1 = 0 /\ 1 \in 1..MaxLive + 1
    BY <1>1, <1>3, SMT
  <2> QED BY <1>7, <1>9, <2>1, <2>2 DEF Waiting
<1>13. Krsp
  BY <1>1, <1>2, <1>3, SMT DEF Krsp
<1>14. Panicking
  BY <1>2, SMT DEF Panicking
<1> QED BY <1>1, <1>2, <1>6, <1>9, <1>10, <1>11, <1>12, <1>13, <1>14, SMT DEF IInv

\* Every step keeps the invariant.
LEMMA IInvNext == IInv /\ [Next]_vars => IInv'
<1> SUFFICES ASSUME IInv, [Next]_vars PROVE IInv'
  OBVIOUS
<1>1. CASE Timer \/ UserFault
  BY <1>1, TimerStep
<1>2. CASE \E t \in Threads : TimerIsr(t) \/ SysSleepMs(t)
  BY <1>2, ScheduleStep
<1>3. CASE Iret \/ FredReturn
  BY <1>3, ResumeUser, ResumeKernel DEF Iret, FredReturn
<1>4. CASE \E c \in Calls : FredSyscall(c)
  BY <1>4, FredSyscallStep
<1>5. CASE SpawnApp \/ BuildStack \/ SwitchToUser \/ SetAc \/ \E c \in Calls : Syscall(c)
  BY <1>5, OutOfKernelStep
<1>6. CASE SyscallEntry
  BY <1>6, SyscallEntryStep
<1>7. CASE ExecuteSyscall
  BY <1>7, ExecuteSyscallStep
<1>8. CASE SyscallReturn
  BY <1>8, SyscallReturnStep
<1>9. CASE SyscallExit \/ Sysret
  BY <1>9, SysretStep
<1>10. CASE FredSyscallReturn
  BY <1>10, SameThreadStep
<1>11. CASE StrlenUser
  BY <1>11, StrlenUserStep
<1>12. CASE SafeStrlen
  BY <1>12, SafeStrlenStep
<1>13. CASE StrlenRet
  BY <1>13, StrlenRetStep
<1>14. CASE CopyUser
  BY <1>14, CopyUserStep
<1>15. CASE SafeMemcpy
  BY <1>15, SafeMemcpyStep
<1>16. CASE CopyRet
  BY <1>16, CopyRetStep
<1>17. CASE FaultIsr \/ Panic \/ StackTrace
  BY <1>17, PanicStep
<1>18. CASE Halted \/ UNCHANGED vars
  <2>1. UNCHANGED vars
    BY <1>18 DEF Halted
  <2>2. /\ Live' = Live /\ Top' = Top /\ \A t : Context(t)' = Context(t)
    BY <2>1 DEF Live, Top, Context, vars, machine, hist
  <2>3. TypeInv'
    BY <2>1 DEF IInv, TypeInv, vars, machine, hist
  <2>4. Running(Context(current), pc)' /\ Krsp'
    BY <2>1, <2>2 DEF IInv, Running, Krsp, vars, machine, hist
  <2>5. /\ Chain(Context(current), kstack[current], rsp, Live, pc)' /\ (Live <= MaxLive)'
        /\ \A t \in Threads \ {current} : Waiting(Context(t), kstack[t], krsp[t])'
        /\ Panicking'
    BY <2>1, <2>2 DEF IInv, Panicking, vars, machine, hist
  <2> QED BY <2>1, <2>3, <2>4, <2>5 DEF IInv, vars, machine
<1> QED BY <1>1, <1>2, <1>3, <1>4, <1>5, <1>6, <1>7, <1>8, <1>9, <1>10, <1>11, <1>12, <1>13,
           <1>14, <1>15, <1>16, <1>17, <1>18 DEF Next

\* The invariant holds in every reachable state, of calls, events, switches and
\* returns in any order.
THEOREM EntryInvariant == Spec => []IInv
BY IInvInit, IInvNext, PTL DEF Spec
\* Every handler and every call of schedule() has the kernel's GS and room on
\* its stack, whatever calls, events and switches came before.
THEOREM KernelContextHolds == Spec => []KernelContext
<1>1. ASSUME IInv PROVE KernelContext
  <2>1. pc \notin {"user", "sysret"} => gs = "kernel"
    BY <1>1, Here DEF Running
  <2>2. rsp <= StackFrames /\ \A t \in Threads : krsp[t] <= StackFrames
    <3>1. StackFrames \in Nat /\ TypeInv
      BY <1>1, Here, SMT
    <3> QED BY <3>1, SMT DEF TypeInv
  <2> QED BY <2>1, <2>2 DEF KernelContext
<1> QED BY <1>1, EntryInvariant, PTL

\* The program goes on with its own registers, stack, flags and GS after every
\* call, interrupt and switch.
THEOREM UserStateComesBackHolds == Spec => []UserStateComesBack
<1>1. ASSUME IInv PROVE UserStateComesBack
  <2> SUFFICES ASSUME pc = "user"
               PROVE  /\ regs.r15 = current /\ usp = current
                      /\ rflags = [ac |-> uac[current], if |-> TRUE] /\ gs = "user"
    BY DEF UserStateComesBack
  <2>1. TypeInv /\ Running(Context(current), pc)
    BY <1>1, Here
  <2>2. regs.r15 = current /\ usp = current /\ rflags.ac = uac[current] /\ gs = "user"
    BY <2>1, ContextIs DEF Running
  <2>3. rflags.if = TRUE /\ rflags \in Flags
    BY <2>1 DEF Running, Closed, TypeInv
  <2> QED BY <2>2, <2>3 DEF Flags
<1> QED BY <1>1, EntryInvariant, PTL

\* A call copies exactly if its pointer is good and answers so; only a fault of
\* a program, or of the stack trace, ends in a panic.
THEOREM ResultIsExactHolds == Spec => []ResultIsExact
<1>1. ASSUME IInv PROVE ResultIsExact
  <2> DEFINE x == Context(current)
  <2>1. /\ x.asked = asked[current] /\ x.copied = copied[current] /\ x.fred = fred
        /\ TypeInv /\ Running(x, pc)
    BY <1>1, Here, ContextIs
  <2>2. ASSUME NEW rax, Exact(x, rax), asked[current].call \in {"print", "read"}
        PROVE  copied[current] = (Mem = "good") /\ rax = Answer(copied[current])
    BY <2>1, <2>2 DEF Exact, Answer, Mem
  <2>3. ASSUME pc = "sysret" PROVE Exact(x, regs.rax) /\ ~fred
    BY <2>1, <2>3 DEF Running
  <2>4. ASSUME pc = "iret", Top.pc = "user", asked[current].call \in {"print", "read"}
        PROVE  Exact(x, Top.regs.rax) /\ fred
    <3>1. FrameOK(x, Top, "iret")
      BY <1>1, <2>4, InKernel DEF Alone, Spawning
    <3>2. x.asked # NoCall
      BY <2>1, <2>4, SMT DEF NoCall
    <3> HIDE DEF x
    <3> QED BY <2>1, <2>4, <3>1, <3>2 DEF FrameOK, OverUser, Stage, Calling
  <2>5. ASSUME pc = "panic" PROVE Top.pc \in {"user", "stack_trace"}
    <3>1. FrameOK(x, Top, "panic")
      BY <1>1, <2>5, InKernel DEF Alone, Spawning
    <3> QED BY <3>1 DEF FrameOK, OverKernel
  <2> HIDE DEF x
  <2> QED BY <2>2, <2>3, <2>4, <2>5 DEF ResultIsExact, Returning
<1> QED BY <1>1, EntryInvariant, PTL

\* Nothing runs after a panic but its own stack trace and what that brings about.
THEOREM PanicIsFinalHolds == Spec => []PanicIsFinal
<1>1. ASSUME IInv PROVE PanicIsFinal
  <2>1. /\ TypeInv /\ Running(Context(current), pc) /\ StackFrames \in Nat /\ Panicking
        /\ rsp \in Nat /\ Live <= rsp /\ Live \in 0..MaxLive /\ MaxLive \in Nat
    BY <1>1, Here, SMT DEF IInv
  <2>2. CASE pc \in {"stack_trace", "hlt"}
    BY <2>1, <2>2 DEF PanicIsFinal, Running, Closed
  <2>3. CASE Traced(kstack[current], rsp, Live)
    <3>1. PICK d \in rsp - Live + 1..rsp : kstack[current][d].pc = "stack_trace"
      BY <2>3 DEF Traced
    <3>2. d \in 1..StackFrames /\ current \in Threads
      BY <2>1, SMT DEF TypeInv
    <3> QED BY <3>1, <3>2 DEF PanicIsFinal
  <2>4. ASSUME NEW t \in Threads \ {current},
               Traced(kstack[t], krsp[t] - 1, kstack[t][krsp[t]].live - 1)
        PROVE  PanicIsFinal
    <3> DEFINE k == krsp[t]
               n == kstack[t][k].live - 1
    <3>1. PICK d \in (k - 1) - n + 1..k - 1 : kstack[t][d].pc = "stack_trace"
      BY <2>4 DEF Traced
    <3>2. Waiting(Context(t), kstack[t], k)
      BY <1>1 DEF IInv
    <3>3. k \in 1..StackFrames /\ n \in 0..k - 1
      BY <3>2 DEF Waiting, Chain
    <3>4. d \in 1..StackFrames
      <4> HIDE DEF n, k
      <4> QED BY <2>1, <3>3, SMT
    <3> QED BY <3>1, <3>4 DEF PanicIsFinal
  <2>5. panic_count > 0 => panic_count = 1
    BY <2>1, SMT DEF TypeInv
  <2> QED BY <2>1, <2>2, <2>3, <2>4, <2>5 DEF Panicking, PanicIsFinal
<1> QED BY <1>1, EntryInvariant, PTL
=============================================================================
