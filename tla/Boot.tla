-------------------------------- MODULE Boot --------------------------------
(***************************************************************************)
(* kmain from setup_acpi to the first schedule(): the order in which it    *)
(* fills in the kernel's service pointers (unmask_irq, send_eoi,           *)
(* timer_blocking_sleep_ms, timer_get_ms, apic_get_id, apic_timer_isr) and *)
(* the interrupts that may arrive in between.  setup_irqs enables          *)
(* interrupts long before the last pointer is set, so every later step     *)
(* may be preceded by any interrupt that is armed by then.                 *)
(*                                                                         *)
(* A pointer's value is named after the driver it leads to; "stub" is the  *)
(* function that panics and "NULL" the null pointer.  What the firmware    *)
(* and cpuid say of the computer is chosen at the step that asks for it.   *)
(* The debugger stub, whose serial interrupt Irql shows to mask all        *)
(* others, is off.                                                         *)
(***************************************************************************)
EXTENDS BlockingSleep, Firmware, TLC

CONSTANT Boards    \* computers: their tables and, as they are: gsi, the global
                   \* number of each interrupt; gsib and last, the first number and
                   \* the last index of each IOAPIC

KBD == 1
SERIAL == 4
MOUSE == 12
CASCADE == 2
Irqs == {KBD, SERIAL, MOUSE}

VARIABLES
  board,        \* the computer
  acpi,         \* what setup_acpi found in its tables
  machine,      \* what else was found: an x2APIC, a TSC good enough to set
                \* deadlines, a serial port that works and is enabled
  pc,           \* where kmain is
  services,     \* the six pointers
  armed,        \* the APIC timer will fire
  mode,         \* how the APIC timer is programmed
  unmasked,     \* the interrupts the PIC lets through
  redtbl,       \* entries of IOAPICs -> the interrupt whose vector is there
  inService,    \* controller -> the interrupts that await an EOI
  pending,      \* the devices that have something to read
  timer_ms,     \* xapic_timer_ms or x2apic_timer_ms, modulo 2
  misused       \* a service was called before it was there

bootVars == <<board, acpi, machine, pc, services, armed, mode, unmasked, redtbl, inService, pending,
          timer_ms, misused, sleepVars>>

Ready(s) == services[s] \notin {"stub", "NULL"}

\* kmain is about to call setup_acpi.
BootInit ==
  /\ board \in Boards /\ acpi = NoAcpi
  /\ machine = [x2apic |-> FALSE, tsc |-> FALSE, serial |-> FALSE]
  /\ pc = "setup_acpi"
  /\ services = [unmask_irq |-> "stub", send_eoi |-> "stub",
                 timer_blocking_sleep_ms |-> "stub", timer_get_ms |-> "stub",
                 apic_get_id |-> "NULL", apic_timer_isr |-> "NULL"]
  /\ armed = FALSE
  /\ mode = "masked"
  /\ unmasked = {} /\ redtbl = <<>>
  /\ inService = [c \in {"pic", "apic"} |-> {}]
  /\ pending = {}
  /\ timer_ms = 0
  /\ misused = FALSE
  /\ NoSleep

-----------------------------------------------------------------------------
(* kmain *)

\* The step of kmain at `from', which uses the services in `used' and goes on
\* at `to'.
Move(from, used, to) ==
  /\ pc = from
  /\ pc' = to
  /\ misused' = (misused \/ \E s \in used : ~Ready(s))
  /\ UNCHANGED <<board, pending, timer_ms>>

Step(from, used, to) ==
  Move(from, used, to) /\ UNCHANGED <<acpi, machine, sleepVars>>

\* The step that finds out whether the computer has something.
Finds(from, used, part, has, to) ==
  /\ Move(from, used, to)
  /\ machine' = [machine EXCEPT ![part] = has]
  /\ UNCHANGED acpi

setup_acpi ==
  /\ Move("setup_acpi", {}, "setup_irqs")
  /\ acpi' = AcpiTables(board)
  /\ UNCHANGED <<machine, sleepVars, services, armed, mode, unmasked, redtbl, inService>>

\* setup_irqs, up to its sti: the PIC is masked and its functions installed;
\* the IOAPIC, when there is one, replaces unmask_irq only.
setup_irqs ==
  /\ Step("setup_irqs", {}, "setup_timer")
  /\ services' = [services EXCEPT
                    !.send_eoi = "pic",
                    !.unmask_irq = IF acpi.ioapics # <<>> THEN "ioapic" ELSE "pic"]
  /\ UNCHANGED <<armed, mode, unmasked, redtbl, inService>>

\* What setup_acpi_timer may install, unless the timer reads as 0 twice, and what
\* else is taken for the blocking sleep
AcpiTimer == IF acpi.timer = "none" THEN {} ELSE {"acpi"}
Fallback  == {IF acpi.hpet THEN "hpet" ELSE "pit"}

setup_timer ==
  /\ Step("setup_timer", {}, "setup_tsc")
  /\ \E t \in AcpiTimer \cup Fallback :
        services' = [services EXCEPT !.timer_blocking_sleep_ms = t]
  /\ UNCHANGED <<armed, mode, unmasked, redtbl, inService>>

\* setup_tsc when the TSC is variant or cpuid knows its frequency.
TscKnown ==
  /\ \E good \in BOOLEAN : Finds("setup_tsc", {}, "tsc", good, "setup_apic")
  /\ UNCHANGED <<services, armed, mode, unmasked, redtbl, inService, sleepVars>>

\* Otherwise it is calibrated with the blocking sleep, the one sleep of kmain that
\* is followed reading by reading: of the three in the loop, one.
CalibrateTsc ==
  /\ Move("setup_tsc", {"timer_blocking_sleep_ms"}, "calibrate_tsc")
  /\ \E m \in Requests : SleepCall(services.timer_blocking_sleep_ms, m)
  /\ UNCHANGED <<acpi, machine, services, armed, mode, unmasked, redtbl, inService>>

Sleep ==
  /\ \E gap \in 0 .. MaxGap : SleepRead(gap)
  /\ UNCHANGED <<board, acpi, machine, pc, services, armed, mode, unmasked, redtbl, inService, pending,
                 timer_ms, misused>>

TscCalibrated ==
  /\ SleepReturn
  /\ \E good \in BOOLEAN : Finds("calibrate_tsc", {}, "tsc", good, "setup_apic")
  /\ UNCHANGED <<services, armed, mode, unmasked, redtbl, inService>>

\* setup_apic and the start of setup_x2apic.  The timer's mode is that of the
\* TSC's deadlines when the CPU has them and the TSC is good.
setup_apic ==
  \E has \in BOOLEAN, deadline \in BOOLEAN :
    /\ Finds("setup_apic", {}, "x2apic", has,
             IF machine.tsc /\ deadline THEN "deadline" ELSE "periodic")
    /\ LET driver == IF has THEN "x2apic" ELSE "xapic"
       IN  services' = [services EXCEPT
                          !.send_eoi = driver,
                          !.apic_get_id = driver,
                          !.timer_get_ms = IF has THEN driver ELSE @]
    /\ UNCHANGED <<armed, mode, unmasked, redtbl, inService, sleepVars>>

TimerServices ==
  [services EXCEPT !.apic_timer_isr = services.send_eoi, !.timer_get_ms = services.send_eoi]

\* TSC deadline mode: both pointers are stored, then the timer is armed.
SetDeadlineServices ==
  /\ Step("deadline", {}, "arm_deadline")
  /\ services' = TimerServices
  /\ UNCHANGED <<armed, mode, unmasked, redtbl, inService>>

ArmDeadline ==
  /\ Step("arm_deadline", {}, "setup_serial")
  /\ armed' = TRUE
  /\ mode' = "deadline"
  /\ UNCHANGED <<services, unmasked, redtbl, inService>>

\* Mutant: as setup_x2apic has it, the pointers come last.
XapicPeriodicLate ==
  /\ ~machine.x2apic
  /\ Step("periodic", {"timer_blocking_sleep_ms"}, "arm_periodic")
  /\ UNCHANGED <<services, armed, mode, unmasked, redtbl, inService>>

\* Periodic mode.  setup_apic stores the pointers, calibrates and then arms
\* the timer.
XapicPeriodic ==
  /\ ~machine.x2apic
  /\ Step("periodic", {"timer_blocking_sleep_ms"}, "arm_periodic")
  /\ services' = TimerServices
  /\ UNCHANGED <<armed, mode, unmasked, redtbl, inService>>

XapicArm ==
  /\ ~machine.x2apic
  /\ Step("arm_periodic", {}, "setup_serial")
  /\ armed' = TRUE
  /\ mode' = "periodic"
  /\ UNCHANGED <<services, unmasked, redtbl, inService>>

\* setup_x2apic calibrates, arms the timer, and stores the pointers last.
X2apicPeriodic ==
  /\ machine.x2apic
  /\ Step("periodic", {"timer_blocking_sleep_ms"}, "x2apic_services")
  /\ armed' = TRUE
  /\ mode' = "periodic"
  /\ UNCHANGED <<services, unmasked, redtbl, inService>>

SetX2apicServices ==
  /\ Step("x2apic_services", {}, "setup_serial")
  /\ services' = TimerServices
  /\ UNCHANGED <<armed, mode, unmasked, redtbl, inService>>

\* unmask_irq(irq) through the pointer.  ioapic_unmask_irq asks for the APIC's
\* id; pic_unmask_irq clears one bit of one of the two mask registers.
Unmask(irq) ==
  LET e == ioapic_unmask_irq(acpi, board.last, irq)
  IN  IF services.unmask_irq = "ioapic"
      THEN /\ redtbl' = IF e = NoEntry THEN redtbl ELSE (e :> irq) @@ redtbl
           /\ UNCHANGED unmasked
      ELSE unmasked' = unmasked \cup {irq} /\ UNCHANGED redtbl

UnmaskUses ==
  {"unmask_irq"} \cup
  (IF services.unmask_irq = "ioapic" THEN {"apic_get_id"} ELSE {})

\* setup_serial, when the port is enabled, and passes its self test.
setup_serial ==
  /\ Finds("setup_serial", {"timer_blocking_sleep_ms"} \cup UnmaskUses, "serial", TRUE, "setup_ps2")
  /\ Unmask(SERIAL)
  /\ UNCHANGED <<services, armed, mode, inService, sleepVars>>

SkipSerial ==
  /\ Step("setup_serial", {}, "setup_ps2")
  /\ UNCHANGED <<services, armed, mode, unmasked, redtbl, inService>>

\* setup_ps2 polls the devices, with the blocking sleep, and unmasks their two
\* interrupts.
setup_ps2 ==
  /\ Step("setup_ps2", {"timer_blocking_sleep_ms"} \cup UnmaskUses, "unmask_mouse")
  /\ Unmask(KBD)
  /\ UNCHANGED <<services, armed, mode, inService>>

UnmaskMouse ==
  /\ Step("unmask_mouse", UnmaskUses, "enter")
  /\ Unmask(MOUSE)
  /\ UNCHANGED <<services, armed, mode, inService>>

\* The loop that waits for Enter, and the creation of the first threads.
StartThreads ==
  /\ Step("enter", {"timer_blocking_sleep_ms"}, "schedule")
  /\ UNCHANGED <<services, armed, mode, unmasked, redtbl, inService>>

-----------------------------------------------------------------------------
(* Interrupts *)

\* A device has something, or more, to say.
Raise(irq) ==
  /\ pending' = pending \cup {irq}
  /\ UNCHANGED <<board, acpi, machine, pc, services, armed, mode, unmasked, redtbl, inService,
                 timer_ms, misused, sleepVars>>

\* The PIC's priority of an interrupt: the second PIC is at the first one's
\* cascade input.
Priority(irq) == IF irq < 8 THEN irq ELSE CASCADE

\* Does a controller deliver an interrupt?  The PIC holds back what has no
\* higher priority than an interrupt in service, the APIC all interrupts of
\* the one class that the kernel uses here.
PicDelivers(irq) ==
  /\ irq \in unmasked
  /\ irq >= 8 => CASCADE \in unmasked
  /\ \A i \in inService["pic"] : Priority(irq) < Priority(i)

\* The entry of the pin that an interrupt is wired to
Pin(irq) ==
  LET gsi == board.gsi[irq]
      id  == CHOOSE i \in DOMAIN board.gsib : gsi \in board.gsib[i] .. board.gsib[i] + board.last[i]
  IN  [ioapic |-> id, index |-> gsi - board.gsib[id]]

IoapicDelivers(irq, vector) ==
  /\ redtbl # <<>>
  /\ Pin(irq) \in DOMAIN redtbl /\ redtbl[Pin(irq)] = vector
  /\ inService["apic"] = {}

TimerDelivers ==
  /\ armed
  /\ inService["apic"] = {}

\* The EOI goes to the controller that send_eoi leads to, whichever controller
\* sent the interrupt; it ends the service of that one's most urgent.
Acknowledge(controller, irq) ==
  LET taken == [inService EXCEPT ![controller] = @ \cup {irq}]
  IN  IF services.send_eoi = "pic"
      THEN [taken EXCEPT !["pic"] =
              {i \in @ : \E j \in @ : Priority(j) < Priority(i)}]
      ELSE [taken EXCEPT !["apic"] = {}]

\* dispatch_interupt: the EOI, and the handler, which uses the services `used'
\* and leaves the devices in `served' with nothing more to read.
dispatch_interupt(controller, irq, used, served) ==
  /\ pc \notin {"setup_acpi", "setup_irqs"}
  /\ misused' = (misused \/ \E s \in {"send_eoi"} \cup used : ~Ready(s))
  /\ inService' = Acknowledge(controller, irq)
  /\ pending' = pending \ served
  /\ UNCHANGED <<board, acpi, machine, pc, services, mode, unmasked, redtbl, sleepVars>>

\* What ps2_isr or serial_isr read.
Served(irq) == IF irq = SERIAL THEN {SERIAL} ELSE {KBD, MOUSE}

Line(irq) ==
  /\ irq \in pending
  /\ \/ PicDelivers(irq) /\ dispatch_interupt("pic", irq, {}, Served(irq))
     \/ \E v \in Irqs : IoapicDelivers(irq, v) /\ dispatch_interupt("apic", v, {}, Served(v))
  /\ UNCHANGED <<armed, timer_ms>>

\* Mutant: the deadline is not set again.
AfterTickOnce == mode = "periodic"

\* A deadline fires once: the handlers of that mode write the next one.  A
\* periodic timer goes on by itself.
AfterTick == mode \in {"deadline", "periodic"}

\* The timer's interrupt asks for the time, for the cursor, and falls through
\* to ps2_isr.
Timer ==
  /\ TimerDelivers
  /\ dispatch_interupt("apic", 0, {"apic_timer_isr", "timer_get_ms"}, {KBD, MOUSE})
  /\ armed' = AfterTick
  /\ timer_ms' = (timer_ms + 1) % 2

-----------------------------------------------------------------------------

Kmain ==
  \/ setup_acpi \/ setup_irqs \/ setup_timer \/ setup_apic
  \/ TscKnown \/ CalibrateTsc \/ Sleep \/ TscCalibrated
  \/ SetDeadlineServices \/ ArmDeadline
  \/ XapicPeriodic \/ XapicArm \/ X2apicPeriodic \/ SetX2apicServices
  \/ setup_serial \/ SkipSerial \/ setup_ps2 \/ UnmaskMouse
  \/ StartThreads

\* A misused service is a panic, or a call to address zero.
BootNext ==
  /\ ~misused
  /\ \/ Kmain
     \/ Timer
     \/ \E irq \in Irqs : Line(irq) \/ Raise(irq)

\* kmain runs on, the user presses Enter, and the controllers deliver what
\* they can.
BootFairness ==
  /\ WF_bootVars(~misused /\ Kmain)
  /\ WF_bootVars(~misused /\ Timer)
  /\ \A irq \in Irqs : WF_bootVars(~misused /\ Line(irq))

BootSpec == BootInit /\ [][BootNext]_bootVars /\ BootFairness

-----------------------------------------------------------------------------

\* No service is called before it is there, not by a step of kmain, and not by
\* an interrupt that arrives between two of them: the stubs of timer.c and irq.c,
\* which panic, are never called, nor are apic_get_id and apic_timer_isr while they
\* are NULL.  The one exception is a tick between the last two steps of
\* setup_x2apic, which arms the periodic timer before it sets apic_timer_isr.
EarlyOnlyInX2apic ==
  misused => /\ pc = "x2apic_services"
             /\ \A s \in DOMAIN services \ {"apic_timer_isr"} : Ready(s)

\* An interrupt at the first IOAPIC, and not at its last pin: ioapic_unmask_irq
\* takes the number of an interrupt for its index, and the last index for the size.
Plain(irq) == board.gsib[Pin(irq).ioapic] = 0 /\ Pin(irq).index < board.last[Pin(irq).ioapic]

\* With an IOAPIC, kmain has programmed the pin that each device's interrupt is
\* wired to, and no other device's vector is there: acpi_parse_madt finds the
\* IOAPICs and the overrides of the tables that count, in a list that ends early too.
RoutedAsWired ==
  (pc = "schedule" /\ board.gsib # <<>>) =>
     \A irq \in {KBD, MOUSE} \cup (IF machine.serial THEN {SERIAL} ELSE {}) :
        Plain(irq) => Pin(irq) \in DOMAIN redtbl /\ redtbl[Pin(irq)] = irq

\* What has something to say is served in the end, again and again.  The APIC timer,
\* which drives the scheduler, never stops ticking: its handler acknowledges it
\* where it came from and, in deadline mode, arms it again.  The keyboard and
\* the mouse are served once the timer is armed, also with a PIC that awaits an EOI
\* for ever: dispatch_interupt falls through from the timer to ps2_isr.  The serial
\* line, which has its interrupt only, is served where there is an IOAPIC: the
\* interrupt is unmasked at the controller that delivers it and acknowledged to the
\* controller that delivered it, the first time and every other time.
DevicesAreServed ==
  /\ \A t \in {0, 1} : (pc = "schedule" /\ timer_ms = t) ~> timer_ms # t
  /\ \A irq \in {KBD, MOUSE} : (armed /\ irq \in pending) ~> (irq \notin pending \/ misused)
  /\ (pc = "schedule" /\ SERIAL \in pending /\ machine.serial /\ redtbl # <<>>)
       ~> SERIAL \notin pending
=============================================================================
