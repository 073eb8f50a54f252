------------------------------- MODULE DbgRun -------------------------------
(***************************************************************************)
(* Run control of the debugger stub: the debug exceptions of the CPU, the  *)
(* loop of dbgstub_exception that holds the stopped program, the commands  *)
(* c, s, Z1 and z1 and the interrupt character of dbgstub_rx, and the four *)
(* hardware breakpoints of drX.c.                                          *)
(*                                                                         *)
(* The program is straight-line code that begins again: what it computes   *)
(* does not matter here, only where it stops.  A command is one step, for  *)
(* dbgstub_rx runs in the serial interrupt, which nothing interrupts; it   *)
(* arrives between any two reads of the waiting loop.  The debugger sends  *)
(* a command when it was told that the program is stopped, and the         *)
(* interrupt character when it was not.  That its bytes reach dbgstub_rx   *)
(* is taken for granted: module Irql shows where they do not.  So is that  *)
(* it inserts no breakpoint twice, which drx_alloc_bp would take for a     *)
(* lack of slots or give a second slot.                                    *)
(***************************************************************************)
EXTENDS Integers

CONSTANTS Length,        \* instructions of the program, at addresses 1..Length
          Targets        \* where the debugger may put it

ASSUME DbgRunAssumption == Length \in Nat \ {0} /\ Targets \subseteq 1..Length

Handler   == 0                  \* an address inside dbgstub_exception
Addresses == 1..Length
Slots     == 0..3

VARIABLES
    running,              \* is the program, not the loop, what the CPU executes?
    rip, tf, rf,          \* of the program: place, trap flag, resume flag
    last_frame,           \* the same three, as the exception saved them
    dbgstub_paused, dbgstub_continue,
    hbreakpoints,         \* [Slots -> address, 0 for none]
    dr6,                  \* does the CPU's status register name a breakpoint?
    nested,               \* is the loop one of an exception inside the handler?
    reports,              \* "S05" packets the debugger did not read
    stopped,              \* does the debugger take the program for stopped?
    asked,                \* what it asked for last: "start", "c", "s", "interrupt", or "s0", a step
                          \* at the first stop
    crossed,              \* did an interrupt character cross a stop report?
    inserted,             \* addresses whose insertion was answered with OK
    steps                 \* instructions since the program was resumed, up to 2

program == <<running, rip, tf, rf>>
stub    == <<last_frame, dbgstub_paused, dbgstub_continue, dr6, nested>>
bps     == <<hbreakpoints, inserted>>
runVars == <<running, rip, tf, rf, last_frame, dbgstub_paused, dbgstub_continue, hbreakpoints, dr6,
             nested, reports, stopped, asked, crossed, inserted, steps>>

Frame(place, trap, resume) == [rip |-> place, tf |-> trap, rf |-> resume]

\* The breakpoint instruction of kmain has brought the program into the loop.
RunInit ==
    /\ running = FALSE /\ rip = 1 /\ tf = FALSE /\ rf = FALSE
    /\ last_frame = Frame(1, FALSE, FALSE)
    /\ dbgstub_paused = TRUE /\ dbgstub_continue = FALSE
    /\ hbreakpoints = [s \in Slots |-> 0] /\ dr6 = FALSE /\ nested = FALSE
    /\ reports = 1 /\ stopped = FALSE /\ asked = "start" /\ inserted = {} /\ steps = 0
    /\ crossed = FALSE

-----------------------------------------------------------------------------
(***************************************************************************)
(* The CPU and the exception                                               *)
(***************************************************************************)

\* drx_cnc_bp reads the status and does not clear it: its second instruction reads
\* the register once more.  named is what the CPU has put there.
drx_cnc_bp(named) == named

dbgstub_exception(frame, named) ==
    /\ dr6' = named
    /\ IF drx_cnc_bp(named)
       THEN /\ last_frame' = Frame(frame.rip, TRUE, TRUE)
            /\ dbgstub_paused' = TRUE /\ dbgstub_continue' = FALSE
       ELSE last_frame' = frame /\ UNCHANGED <<dbgstub_paused, dbgstub_continue>>
    /\ reports' = reports + 1 /\ running' = FALSE

\* An instruction with a breakpoint is not executed unless the resume flag is set.
BreaksAt(a) == ~rf /\ \E s \in Slots : hbreakpoints[s] = a

Break ==
    /\ running /\ BreaksAt(rip)
    /\ dbgstub_exception(Frame(rip, tf, rf), TRUE)
    /\ UNCHANGED <<rip, tf, rf, nested, bps, stopped, asked, steps>>

\* With the trap flag set the exception follows the instruction.  The CPU may leave
\* the breakpoint bits of the status as they were or clear them.
Instruction ==
    /\ running /\ ~BreaksAt(rip)
    /\ rip' = (rip % Length) + 1 /\ rf' = FALSE /\ tf' = tf
    /\ steps' = IF steps < 2 THEN steps + 1 ELSE 2
    /\ IF tf THEN \E named \in {dr6, FALSE} : dbgstub_exception(Frame(rip', TRUE, FALSE), named)
       ELSE UNCHANGED <<running, last_frame, dbgstub_paused, dbgstub_continue, dr6, reports>>
    /\ UNCHANGED <<nested, bps, stopped, asked>>

\* The loop has ended: the frame of the last exception is where the CPU goes on.  The
\* handler of an exception inside the handler returns to the loop around it.
Return ==
    IF nested
    THEN IF last_frame.tf
         THEN reports' = reports + 1 /\ UNCHANGED <<program, nested, steps>>
         ELSE nested' = FALSE /\ UNCHANGED <<program, reports, steps>>
    ELSE /\ running' = (last_frame.rip # Handler)
         /\ rip' = last_frame.rip /\ tf' = last_frame.tf /\ rf' = last_frame.rf
         /\ steps' = 0 /\ UNCHANGED <<nested, reports>>

\* while (dbgstub_paused) ends
LeaveUnpaused ==
    /\ ~running /\ rip # Handler /\ ~dbgstub_paused
    /\ Return
    /\ UNCHANGED <<last_frame, dbgstub_paused, dbgstub_continue, dr6, bps, stopped, asked>>

\* if (dbgstub_continue); dbgstub_paused was read before
LeaveContinued ==
    /\ ~running /\ rip # Handler /\ dbgstub_continue
    /\ dbgstub_continue' = FALSE
    /\ Return
    /\ UNCHANGED <<last_frame, dbgstub_paused, dr6, bps, stopped, asked>>

-----------------------------------------------------------------------------
(***************************************************************************)
(* The debugger and its commands                                           *)
(***************************************************************************)

Hear ==
    /\ reports > 0 /\ reports' = 0 /\ stopped' = TRUE
    /\ UNCHANGED <<program, stub, bps, asked, steps>>

Resumed(command) == stopped' = FALSE /\ asked' = command

continue ==
    /\ stopped /\ Resumed("c")
    /\ last_frame' = [last_frame EXCEPT !.tf = FALSE]
    /\ dbgstub_paused' = FALSE /\ dbgstub_continue' = TRUE
    /\ UNCHANGED <<program, dr6, nested, bps, reports, steps>>

step ==
    /\ stopped /\ Resumed(IF asked = "start" THEN "s0" ELSE "s")
    /\ dbgstub_paused' = TRUE /\ dbgstub_continue' = TRUE
    /\ UNCHANGED <<program, last_frame, dr6, nested, bps, reports, steps>>

\* "G" with another address, and the other registers as "g" gave them
set_rip(a) ==
    /\ stopped /\ ~crossed /\ last_frame.rip # a
    /\ last_frame' = [last_frame EXCEPT !.rip = a]
    /\ UNCHANGED <<program, dbgstub_paused, dbgstub_continue, dr6, nested, bps, reports, stopped,
                   asked, steps>>

\* drx_alloc_bp looks no further than the first slot that is free or has the address.
First(a) == CHOOSE s \in Slots : /\ hbreakpoints[s] \in {0, a}
                                 /\ \A r \in 0..s - 1 : hbreakpoints[r] \notin {0, a}
Allocates(a) == (\E s \in Slots : hbreakpoints[s] \in {0, a}) /\ hbreakpoints[First(a)] = 0

drx_alloc_bp(a) ==
    hbreakpoints' = IF Allocates(a) THEN [hbreakpoints EXCEPT ![First(a)] = a] ELSE hbreakpoints

\* Mutant: the loop over the slots does not look at their addresses.
drx_free_all(a) == hbreakpoints' = [s \in Slots |-> 0]

drx_free_bp(a) ==
    LET s == CHOOSE s \in Slots : /\ hbreakpoints[s] = a
                                  /\ \A r \in 0..s - 1 : hbreakpoints[r] # a
    IN  hbreakpoints' = [hbreakpoints EXCEPT ![s] = 0]

\* "Z1": OK, or E.OUT_OF_HARDWARE_BREAKPOINTS
insert(a) ==
    /\ stopped /\ a \notin inserted
    /\ drx_alloc_bp(a)
    /\ inserted' = IF Allocates(a) THEN inserted \cup {a} ELSE inserted
    /\ UNCHANGED <<program, stub, reports, stopped, asked, steps>>

\* "z1"
remove(a) ==
    /\ stopped /\ a \in inserted
    /\ drx_free_bp(a) /\ inserted' = inserted \ {a}
    /\ UNCHANGED <<program, stub, reports, stopped, asked, steps>>

\* Mutant: the trap flag of the program is not set.
interrupt_without_trap ==
    /\ ~stopped /\ asked \in {"c", "s", "s0"} /\ running
    /\ asked' = "interrupt" /\ UNCHANGED crossed
    /\ dbgstub_paused' = TRUE /\ dbgstub_continue' = FALSE
    /\ UNCHANGED <<program, last_frame, dr6, nested, bps, reports, stopped, steps>>

\* The interrupt character sets the trap flag of what the CPU executes: the program,
\* or the waiting loop, whose next instruction then is an exception of its own.
interrupt ==
    /\ ~stopped /\ asked \in {"c", "s", "s0"} /\ rip # Handler
    /\ asked' = "interrupt" /\ crossed' = (crossed \/ ~running)
    /\ dbgstub_paused' = TRUE /\ dbgstub_continue' = FALSE
    /\ IF running
       THEN tf' = TRUE /\ UNCHANGED <<last_frame, nested, reports>>
       ELSE /\ last_frame' = Frame(Handler, TRUE, FALSE) /\ nested' = TRUE
            /\ reports' = reports + 1 /\ UNCHANGED tf
    /\ UNCHANGED <<running, rip, rf, dr6, bps, stopped, steps>>

RunNext ==
    \/ interrupt
    \/ /\ \/ Break \/ Instruction \/ LeaveUnpaused \/ LeaveContinued
          \/ Hear \/ continue \/ step
          \/ \E a \in Addresses : insert(a) \/ remove(a)
          \/ \E a \in Targets : set_rip(a)
       /\ UNCHANGED crossed

RunSpec == RunInit /\ [][RunNext]_runVars
-----------------------------------------------------------------------------
(***************************************************************************)
(* Properties                                                              *)
(***************************************************************************)

\* A program reported as stopped stays so until it is resumed, for the loop of
\* dbgstub_exception does not end by what an earlier command left in its flags, and a
\* step executes no second instruction, except at the first stop, where the trap flag is
\* not set.  It stops at an inserted breakpoint, after a step or after an interrupt
\* character: neither the trap flag nor the status register is left over from before.
\* This and InterruptStops are about sessions in which no interrupt character crosses a
\* stop report.  And no instruction with an inserted breakpoint is executed, except as
\* the first one after a stop: drx_alloc_bp and drx_free_bp keep the others in their
\* slots, and no command takes one away, whatever crosses.
RunsAsAsked ==
    /\ []((running /\ ~crossed) => ~stopped /\ (asked = "s" => steps = 0))
    /\ [][(running /\ ~running' /\ ~crossed) =>
              (rip \in inserted \/ asked \in {"s", "interrupt"})]_runVars
    /\ [][(running /\ rip' # rip /\ rip \in inserted) => steps = 0]_runVars

\* The program stops after the interrupt character, whatever it runs into first.
InterruptStops == (asked = "interrupt" /\ ~crossed) ~> stopped
=============================================================================
