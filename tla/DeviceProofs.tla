---------------------------- MODULE DeviceProofs ----------------------------
(***************************************************************************)
(* kmain, the busy wait of the timers, and the run control of the debugger *)
(* stub.                                                                   *)
(*                                                                         *)
(* A sleep is exact on any counter: what it has added up is the time that  *)
(* has passed, as long as each reading can tell (SleepInv).  No service is *)
(* called before it is there because the steps of kmain install them in    *)
(* this order (Installed).  The stub runs the program as it is asked to    *)
(* because its two flags and the trap flag of the saved frame agree on     *)
(* what the debugger asked for last (Session), and because the four slots  *)
(* hold the inserted addresses and nothing else (Breakpoints).             *)
(***************************************************************************)
EXTENDS Boot, DbgRun, TLAPS

-----------------------------------------------------------------------------
(***************************************************************************)
(* timer_blocking_sleep_ms                                                 *)
(***************************************************************************)

\* The PIT is given a divisor other than 0.
LEMMA DivisorFact == ASSUME ms \in Nat PROVE wanted \in Int /\ divisor \in Nat \ {0}
<1>1. Freq \in Nat /\ Second \in Nat \ {0} /\ PitMin \in Nat \ {0} /\ PitMax \in Nat
  BY SleepAssumption
<1>2. wanted \in Int
  BY <1>1 DEF wanted
<1> QED BY <1>1, <1>2 DEF divisor

\* A multiple of d is 0 or at least d.
LEMMA Multiple == ASSUME NEW a \in Int, NEW d \in Nat \ {0}
                  PROVE (a >= 1 => a * d >= d) /\ (a <= 0 => a * d <= 0)
OBVIOUS

\* Quotient and remainder
LEMMA DivFact ==
    ASSUME NEW x \in Int, NEW d \in Nat \ {0}
    PROVE  x \div d \in Int /\ x % d \in 0..d - 1 /\ x = d * (x \div d) + (x % d)
<1>1. d \in Int /\ d > 0
  OBVIOUS
<1>2. x = d * (x \div d) + (x % d)
  BY ONLY <1>1, x \in Int, Z3
<1> QED BY <1>2

\* The remainder, some ticks later
LEMMA Later ==
    ASSUME NEW x \in Nat, NEW g \in Nat, NEW d \in Nat \ {0}
    PROVE  LET r == x % d
               s == (x + g) % d
               n == IF s < r THEN s + d - r ELSE s - r
           IN  n \in 0..g /\ (g < d => n = g)
<1> DEFINE r == x % d
           s == (x + g) % d
           q == x \div d
           p == (x + g) \div d
<1>1. /\ q \in Int /\ r \in 0..d-1 /\ x = d * q + r
      /\ p \in Int /\ s \in 0..d-1 /\ x + g = d * p + s
  <2>1. x \in Int /\ x + g \in Int
    OBVIOUS
  <2> QED BY <2>1, DivFact
<1> HIDE DEF r, s, q, p
<1>2. g = d * (p - q) + s - r
  BY <1>1
<1> DEFINE a == p - q
<1>3. a \in Int /\ g = d * a + s - r
  BY <1>1, <1>2
<1> HIDE DEF a
<1>4. d * a = a * d /\ a * d \in Int
  BY <1>3
<1>5. (a >= 1 => a * d >= d) /\ (a <= 0 => a * d <= 0)
  BY <1>3, Multiple
<1>6. (a - 1 >= 1 => (a - 1) * d >= d) /\ (a + 1 <= 0 => (a + 1) * d <= 0)
  BY <1>3, Multiple
<1>7. (a - 1) * d = a * d - d /\ (a + 1) * d = a * d + d
  BY <1>3
<1>8. s < r => s + d - r \in 0..g /\ (g < d => s + d - r = g)
  BY <1>1, <1>3, <1>4, <1>5, <1>6, <1>7
<1>9. s >= r => s - r \in 0..g /\ (g < d => s - r = g)
  BY <1>1, <1>3, <1>4, <1>5, <1>6, <1>7
<1> QED BY <1>1, <1>8, <1>9 DEF r, s

\* A call in progress: the reading kept is the counter's, and the sum is the time,
\* except where the counter cannot tell.
SleepInv ==
    /\ timer \in Timers \cup {"none"}
    /\ ms \in Nat /\ base \in Nat /\ time \in Nat /\ elapsed \in Nat /\ slow \in BOOLEAN
    /\ timer = "none" => time = 0 /\ elapsed = 0
    /\ timer # "none" => time <= MaxTime
    /\ timer = "acpi" => /\ base < Wrap /\ last = (base + time) % Wrap
                         /\ base + time < Wrap => elapsed = time
    /\ timer = "hpet" => base < Word /\ last = base /\ elapsed = time
    /\ timer = "pit" => /\ last = divisor - ((base + time) % divisor)
                        /\ elapsed <= time /\ (~slow => elapsed = time)

\* SleepAssumption, one constant at a time
LEMMA SleepConstants ==
    /\ Freq \in Nat \ {0} /\ Second \in Nat \ {0} /\ Wrap \in Nat \ {0} /\ Word \in Nat \ {0}
    /\ Wrap <= Word /\ MaxTime \in Nat /\ MaxTime < Word /\ MaxGap \in Nat /\ Requests \subseteq Nat
BY SleepAssumption

\* What has been counted is the time, so that the sleep has not ended early.
LEMMA SleepInvExact == ASSUME SleepInv PROVE SleepIsExact
<1> SUFFICES ASSUME ~AcpiWrapped
             PROVE  /\ (timer # "none" /\ elapsed >= wanted) => time * Second > Freq * ms - Second
                    /\ ~slow => elapsed = time
  BY DEF SleepIsExact
<1>1. elapsed <= time /\ (~slow => elapsed = time)
  BY SleepConstants DEF SleepInv, AcpiWrapped, Timers
<1>2. ASSUME timer # "none", elapsed >= wanted PROVE time * Second > Freq * ms - Second
  <2>1. Second \in Nat \ {0} /\ Freq * ms \in Int /\ ms * Freq = Freq * ms /\ time \in Int
    BY SleepConstants DEF SleepInv
  <2>2. wanted \in Int
    BY DivisorFact DEF SleepInv
  <2>3. time >= wanted /\ time - wanted \in Nat
    BY <1>1, <1>2, <2>1, <2>2 DEF SleepInv
  <2>4. Second * wanted > Freq * ms - Second
    <3>1. CASE timer = "pit"
      <4> DEFINE x == Freq * ms + (Second - 1)
      <4>1. x \in Int /\ wanted = x \div Second
        BY <2>1, <3>1 DEF wanted
      <4> HIDE DEF x
      <4>2. x % Second \in 0..Second - 1 /\ x = Second * wanted + (x % Second)
        BY <2>1, <4>1, DivFact
      <4>3. Second * wanted \in Int /\ x = Freq * ms + (Second - 1)
        BY <2>1, <2>2 DEF x
      <4> QED BY <2>1, <4>2, <4>3
    <3>2. CASE timer # "pit"
      <4> DEFINE x == Freq * ms
      <4>1. x \in Int /\ wanted = x \div Second
        BY <2>1, <3>2 DEF wanted
      <4>2. x % Second \in 0..Second - 1 /\ x = Second * wanted + (x % Second)
        BY <2>1, <4>1, DivFact
      <4>3. Second * wanted \in Int
        BY <2>1, <2>2
      <4> QED BY <2>1, <4>2, <4>3
    <3> QED BY <3>1, <3>2
  <2>5. (time - wanted) * Second >= 0
    BY <2>1, <2>3
  <2>6. (time - wanted) * Second = time * Second - Second * wanted
    BY <2>1, <2>2
  <2>7. time * Second \in Int /\ Second * wanted \in Int
    BY <2>1, <2>2
  <2> QED BY <2>1, <2>4, <2>5, <2>6, <2>7
<1> QED BY <1>1, <1>2

\* The first reading
LEMMA SleepCallInv ==
    ASSUME NEW t \in Timers, NEW m \in Requests, SleepCall(t, m)
    PROVE  SleepInv'
<1>1. /\ timer' = t /\ ms' = m /\ time' = 0 /\ elapsed' = 0 /\ slow' = FALSE
      /\ last' = Counter(0, base)'
  BY DEF SleepCall
<1>0. \A b \in Nat : b + 0 = b
  OBVIOUS
<1>5. ms' \in Nat /\ time' \in Nat /\ elapsed' \in Nat /\ time' <= MaxTime
  BY <1>1, SleepConstants
<1>6. elapsed' = time' /\ elapsed' <= time'
  BY <1>1
<1>7. slow' \in BOOLEAN
  BY <1>1
<1>2. CASE t = "acpi"
  <2>1. base' \in 0..Wrap - 1
    BY <1>2 DEF SleepCall
  <2>2. last' = (base' + 0) % Wrap
    BY <1>1, <1>2 DEF Counter
  <2>3. base' \in Nat /\ base' < Wrap
    BY <2>1, SleepConstants
  <2>4. last' = (base' + time') % Wrap
    BY <1>1, <2>2
  <2> QED BY <1>1, <1>2, <1>5, <1>6, <1>7, <2>3, <2>4 DEF SleepInv, Timers
<1>3. CASE t = "hpet"
  <2>1. base' \in 0..Word - 1
    BY <1>3 DEF SleepCall
  <2>2. last' = (base' + 0) % Word
    BY <1>1, <1>3 DEF Counter
  <2>3. base' \in Nat /\ base' < Word
    BY <2>1, SleepConstants
  <2>4. last' = base'
    <3>1. \A x \in Nat : x < Word => x % Word = x
      BY SleepConstants
    <3> QED BY <1>0, <2>2, <2>3, <3>1
  <2> QED BY <1>1, <1>3, <1>5, <1>6, <1>7, <2>3, <2>4 DEF SleepInv, Timers
<1>4. CASE t = "pit"
  <2>1. base' \in 0..MaxGap
    BY <1>4 DEF SleepCall
  <2>2. last' = divisor' - ((base' + 0) % divisor')
    BY <1>1, <1>4 DEF Counter
  <2>3. base' \in Nat
    BY <2>1, SleepConstants
  <2>4. last' = divisor' - ((base' + time') % divisor')
    BY <1>1, <2>2
  <2> QED BY <1>1, <1>4, <1>5, <1>6, <1>7, <2>3, <2>4 DEF SleepInv, Timers
<1> QED BY <1>2, <1>3, <1>4 DEF Timers

\* The end of the loop
LEMMA SleepReturnInv == ASSUME SleepReturn PROVE SleepInv'
BY DEF SleepReturn, SleepInv

\* A reading, on each of the three timers
LEMMA SleepReadInv ==
    ASSUME SleepInv, NEW gap \in 0..MaxGap, SleepRead(gap)
    PROVE  SleepInv'
<1> DEFINE now == Counter(time + gap, base)
<1>1. /\ timer # "none" /\ time + gap <= MaxTime /\ time' = time + gap
      /\ UNCHANGED <<timer, ms, base>> /\ gap \in Nat
      /\ time \in Nat /\ base \in Nat /\ elapsed \in Nat /\ ms \in Nat /\ slow \in BOOLEAN
  BY SleepConstants DEF SleepRead, SleepInv
<1>2. CASE timer = "acpi"
  <2>1. now = (base + (time + gap)) % Wrap
    BY <1>2 DEF Counter
  <2>2. last' = now /\ elapsed' = elapsed + ((now - last) % Word) /\ slow' = slow
    BY <1>1, <1>2 DEF SleepRead, AcpiElapsed
  <2>3. now \in 0..Wrap - 1 /\ last \in 0..Wrap - 1
    BY <1>1, <1>2, <2>1, SleepConstants DEF SleepInv
  <2> HIDE DEF now
  <2>4. elapsed' \in Nat
    BY <1>1, <2>2, <2>3, SleepConstants
  <2>5. ASSUME base + (time + gap) < Wrap PROVE elapsed' = time + gap
    <3>1. now = base + time + gap /\ last = base + time /\ elapsed = time
      BY <1>1, <1>2, <2>1, <2>5, SleepConstants DEF SleepInv
    <3>2. now - last = gap /\ gap < Word
      BY <1>1, <2>5, <3>1, SleepConstants
    <3>3. gap % Word = gap
      BY <1>1, <3>2, SleepConstants
    <3> QED BY <1>1, <2>2, <3>1, <3>2, <3>3
  <2>6. base + (time + gap) = base' + time'
    BY <1>1
  <2> QED BY <1>1, <1>2, <2>1, <2>2, <2>4, <2>5, <2>6 DEF SleepInv, Timers
<1>3. CASE timer = "hpet"
  <2>1. now = (base + (time + gap)) % Word
    BY <1>3 DEF Counter
  <2>2. last' = last /\ elapsed' = ((now - last) % Word) /\ slow' = slow
    BY <1>1, <1>3 DEF SleepRead, HpetElapsed
  <2>3. base < Word /\ last = base /\ base % Word = base
    BY <1>1, <1>3, SleepConstants DEF SleepInv
  <2> DEFINE g == time + gap
  <2>4. g \in Nat /\ g < Word
    BY <1>1, SleepConstants
  <2>5. LET s == (base + g) % Word
            n == IF s < base THEN s + Word - base ELSE s - base
        IN  n = g
    <3>1. LET r == base % Word
              s == (base + g) % Word
              n == IF s < r THEN s + Word - r ELSE s - r
          IN  n \in 0..g /\ (g < Word => n = g)
      BY <1>1, <2>4, SleepConstants, Later
    <3> QED BY <2>3, <2>4, <3>1
  <2>6. now \in 0..Word - 1 /\ now = (base + g) % Word
    BY <1>1, <2>1, <2>4, SleepConstants
  <2> HIDE DEF now, g
  <2>7. g = IF now < base THEN now + Word - base ELSE now - base
    BY <2>5, <2>6
  <2>8. (now - base) % Word = g
    BY <1>1, <2>3, <2>4, <2>6, <2>7, SleepConstants
  <2> QED BY <1>1, <1>3, <2>2, <2>3, <2>4, <2>8 DEF SleepInv, Timers, g
<1>4. CASE timer = "pit"
  <2> DEFINE d == divisor
             r == (base + time) % d
             s == (base + time + gap) % d
  <2>1. d \in Nat \ {0} /\ divisor' = d
    BY <1>1, DivisorFact DEF divisor, wanted
  <2>2. base + (time + gap) = (base + time) + gap /\ base + time \in Nat
    BY <1>1
  <2>3. now = d - s /\ last = d - r
    BY <1>4, <2>2 DEF Counter, SleepInv
  <2>4. last' = now /\ elapsed' = PitElapsed(now) /\ slow' = (slow \/ gap >= d)
    BY <1>1, <1>4 DEF SleepRead
  <2>5. LET n == IF s < r THEN s + d - r ELSE s - r
        IN  n \in 0..gap /\ (gap < d => n = gap)
    BY <1>1, <2>1, <2>2, Later
  <2>6. r \in 0..d - 1 /\ s \in 0..d - 1
    BY <1>1, <2>1, <2>2
  <2>7. last' = divisor' - ((base' + time') % divisor')
    BY <1>1, <2>1, <2>2, <2>3, <2>4
  <2> HIDE DEF now, d, r, s
  <2>8. elapsed' = elapsed + (IF now > last THEN last + (d - now) ELSE last - now)
    BY <2>4 DEF PitElapsed, d
  <2>9. elapsed' \in elapsed..elapsed + gap /\ (gap < d => elapsed' = elapsed + gap)
    BY <1>1, <2>1, <2>3, <2>5, <2>6, <2>8
  <2>10. elapsed <= time /\ (~slow => elapsed = time)
    BY <1>4 DEF SleepInv
  <2>11. elapsed' <= time' /\ elapsed' \in Nat /\ (gap < d /\ elapsed = time => elapsed' = time')
    BY <1>1, <2>1, <2>9, <2>10
  <2>12. gap >= d \/ gap < d
    BY <1>1, <2>1
  <2>13. (~slow' => elapsed' = time') /\ slow' \in BOOLEAN
    BY <1>1, <2>4, <2>10, <2>11, <2>12, Zenon
  <2> QED BY <1>1, <1>4, <2>7, <2>11, <2>13 DEF SleepInv, Timers
<1> QED BY <1>1, <1>2, <1>3, <1>4 DEF SleepInv, Timers

-----------------------------------------------------------------------------
(***************************************************************************)
(* kmain                                                                   *)
(***************************************************************************)

\* The steps of kmain, by the services that are there
Early  == {"setup_acpi", "setup_irqs"}
Setup  == {"setup_timer", "setup_tsc", "calibrate_tsc", "setup_apic"}
Apic   == {"deadline", "arm_deadline", "periodic", "arm_periodic", "x2apic_services"}
Late   == {"setup_serial", "setup_ps2", "unmask_mouse", "enter", "schedule"}
Drivers == {"pic", "ioapic", "apic", "xapic", "x2apic"} \cup Timers

\* What the variables of Boot range over
BootTypes ==
    /\ pc \in Early \cup Setup \cup Apic \cup Late
    /\ services = [unmask_irq |-> services.unmask_irq, send_eoi |-> services.send_eoi,
                   timer_blocking_sleep_ms |-> services.timer_blocking_sleep_ms,
                   timer_get_ms |-> services.timer_get_ms, apic_get_id |-> services.apic_get_id,
                   apic_timer_isr |-> services.apic_timer_isr]
    /\ machine \in [x2apic : BOOLEAN, tsc : BOOLEAN, serial : BOOLEAN]
    /\ armed \in BOOLEAN /\ misused \in BOOLEAN

\* Which services are there when kmain is at a step
Installed ==
    /\ pc \notin Early => services.send_eoi \in Drivers /\ services.unmask_irq \in Drivers
    /\ pc \notin Early \cup {"setup_timer"} => services.timer_blocking_sleep_ms \in Timers
    /\ pc \in Apic \cup Late => services.apic_get_id \in Drivers
    /\ pc \in Apic /\ machine.x2apic => services.timer_get_ms \in Drivers
    /\ pc = "x2apic_services" => machine.x2apic
    /\ pc \in Late \cup {"arm_deadline", "arm_periodic"} =>
         services.timer_get_ms \in Drivers /\ services.apic_timer_isr \in Drivers
    /\ armed => pc \in Late \cup {"x2apic_services"}

\* The inductive invariant of kmain, with that of the sleep it calls
BootInv == BootTypes /\ Installed /\ EarlyOnlyInX2apic /\ SleepInv

\* A step of kmain that uses services that are there does not fail.
LEMMA StepUses ==
    ASSUME NEW from, NEW to, NEW used, Move(from, used, to), misused = FALSE,
           \A s \in used : services[s] \in Drivers
    PROVE  misused' = FALSE
<1>1. \A s \in used : Ready(s)
  BY DEF Ready, Drivers, Timers
<1> QED BY <1>1, Zenon DEF Move

\* Before kmain, nothing is there and nothing is used.
LEMMA BootInitInv == ASSUME BootInit PROVE BootInv
<1>1. BootTypes
  BY DEF BootInit, BootTypes, Early
<1>3. Installed /\ EarlyOnlyInX2apic
  BY DEF BootInit, BootTypes, Installed, EarlyOnlyInX2apic, Early, Setup, Apic, Late, Drivers,
         Timers
<1>2. SleepInv
  BY DEF BootInit, NoSleep, SleepInv, Timers
<1> QED BY <1>1, <1>2, <1>3 DEF BootInv

\* Nothing but a sleep changes a sleep.
LEMMA SleepStays == ASSUME SleepInv, UNCHANGED sleepVars PROVE SleepInv'
BY DEF sleepVars, SleepInv, divisor, wanted

\* setup_acpi, a step of kmain
LEMMA setup_acpiInv == ASSUME BootInv, misused = FALSE, setup_acpi PROVE BootInv'
<1> DEFINE used == {}
<1>1. Move("setup_acpi", used, "setup_irqs") /\ UNCHANGED sleepVars
  BY DEF setup_acpi, Step, Finds
<1>2. \A s \in used : services[s] \in Drivers
  BY <1>1 DEF Move, BootInv, BootTypes, Installed, Early, Setup, Apic, Late, Drivers, Timers
<1>3. misused' = FALSE
  <2> HIDE DEF used
  <2> QED BY <1>1, <1>2, StepUses
<1>4. BootTypes'
  BY <1>1, <1>3 DEF BootInv, setup_acpi, Step, Finds, Move, BootTypes, Early, Setup, Apic, Late
<1>5. Installed'
  BY <1>1, <1>3 DEF BootInv, setup_acpi, Step, Finds, Move, BootTypes, Installed, Early, Setup,
                    Apic, Late, Drivers, Timers
<1> QED BY <1>1, <1>3, <1>4, <1>5, SleepStays DEF BootInv, EarlyOnlyInX2apic

\* setup_irqs, a step of kmain
LEMMA setup_irqsInv == ASSUME BootInv, misused = FALSE, setup_irqs PROVE BootInv'
<1> DEFINE used == {}
<1>1. Move("setup_irqs", used, "setup_timer") /\ UNCHANGED sleepVars
  BY DEF setup_irqs, Step, Finds
<1>2. \A s \in used : services[s] \in Drivers
  BY <1>1 DEF Move, BootInv, BootTypes, Installed, Early, Setup, Apic, Late, Drivers, Timers
<1>3. misused' = FALSE
  <2> HIDE DEF used
  <2> QED BY <1>1, <1>2, StepUses
<1>4. BootTypes'
  BY <1>1, <1>3 DEF BootInv, setup_irqs, Step, Finds, Move, BootTypes, Early, Setup, Apic, Late
<1>5. Installed'
  BY <1>1, <1>3 DEF BootInv, setup_irqs, Step, Finds, Move, BootTypes, Installed, Early, Setup,
                    Apic, Late, Drivers, Timers
<1> QED BY <1>1, <1>3, <1>4, <1>5, SleepStays DEF BootInv, EarlyOnlyInX2apic

\* setup_timer, a step of kmain
LEMMA setup_timerInv == ASSUME BootInv, misused = FALSE, setup_timer PROVE BootInv'
<1> DEFINE used == {}
<1>1. Move("setup_timer", used, "setup_tsc") /\ UNCHANGED sleepVars
  BY DEF setup_timer, Step, Finds
<1>2. \A s \in used : services[s] \in Drivers
  BY <1>1 DEF Move, BootInv, BootTypes, Installed, Early, Setup, Apic, Late, Drivers, Timers
<1>3. misused' = FALSE
  <2> HIDE DEF used
  <2> QED BY <1>1, <1>2, StepUses
<1>4. BootTypes'
  BY <1>1, <1>3 DEF BootInv, setup_timer, Step, Finds, Move, BootTypes, Early, Setup, Apic, Late,
                    AcpiTimer, Fallback
<1>5. Installed'
  BY <1>1, <1>3 DEF BootInv, setup_timer, Step, Finds, Move, BootTypes, Installed, Early, Setup,
                    Apic, Late, Drivers, Timers, AcpiTimer, Fallback
<1> QED BY <1>1, <1>3, <1>4, <1>5, SleepStays DEF BootInv, EarlyOnlyInX2apic

\* TscKnown, a step of kmain
LEMMA TscKnownInv == ASSUME BootInv, misused = FALSE, TscKnown PROVE BootInv'
<1> DEFINE used == {}
<1>1. Move("setup_tsc", used, "setup_apic") /\ UNCHANGED sleepVars
  BY DEF TscKnown, Step, Finds
<1>2. \A s \in used : services[s] \in Drivers
  BY <1>1 DEF Move, BootInv, BootTypes, Installed, Early, Setup, Apic, Late, Drivers, Timers
<1>3. misused' = FALSE
  <2> HIDE DEF used
  <2> QED BY <1>1, <1>2, StepUses
<1>4. BootTypes'
  BY <1>1, <1>3 DEF BootInv, TscKnown, Step, Finds, Move, BootTypes, Early, Setup, Apic, Late
<1>5. Installed'
  BY <1>1, <1>3 DEF BootInv, TscKnown, Step, Finds, Move, BootTypes, Installed, Early, Setup,
                    Apic, Late, Drivers, Timers
<1> QED BY <1>1, <1>3, <1>4, <1>5, SleepStays DEF BootInv, EarlyOnlyInX2apic

\* setup_apic, a step of kmain
LEMMA setup_apicInv == ASSUME BootInv, misused = FALSE, setup_apic PROVE BootInv'
<1> DEFINE used == {}
<1>1. PICK has \in BOOLEAN, deadline \in BOOLEAN :
        /\ Finds("setup_apic", used, "x2apic", has,
                 IF machine.tsc /\ deadline THEN "deadline" ELSE "periodic")
        /\ services' = [services EXCEPT
                          !.send_eoi = IF has THEN "x2apic" ELSE "xapic",
                          !.apic_get_id = IF has THEN "x2apic" ELSE "xapic",
                          !.timer_get_ms = IF has THEN "x2apic" ELSE @]
        /\ UNCHANGED <<armed, sleepVars>>
  BY DEF setup_apic
<1>2. \A s \in used : services[s] \in Drivers
  BY <1>1 DEF Move, BootInv, BootTypes, Installed, Early, Setup, Apic, Late, Drivers, Timers
<1>3. misused' = FALSE
  <2> HIDE DEF used
  <2> QED BY <1>1, <1>2, StepUses DEF Finds
<1>4. BootTypes'
  BY <1>1, <1>3 DEF BootInv, setup_apic, Step, Finds, Move, BootTypes, Early, Setup, Apic, Late
<1>5. Installed'
  BY <1>1, <1>3 DEF BootInv, setup_apic, Step, Finds, Move, BootTypes, Installed, Early, Setup,
                    Apic, Late, Drivers, Timers
<1> QED BY <1>1, <1>3, <1>4, <1>5, SleepStays DEF BootInv, EarlyOnlyInX2apic

\* SetDeadlineServices, a step of kmain
LEMMA SetDeadlineServicesInv == ASSUME BootInv, misused = FALSE, SetDeadlineServices PROVE BootInv'
<1> DEFINE used == {}
<1>1. Move("deadline", used, "arm_deadline") /\ UNCHANGED sleepVars
  BY DEF SetDeadlineServices, Step, Finds
<1>2. \A s \in used : services[s] \in Drivers
  BY <1>1 DEF Move, BootInv, BootTypes, Installed, Early, Setup, Apic, Late, Drivers, Timers
<1>3. misused' = FALSE
  <2> HIDE DEF used
  <2> QED BY <1>1, <1>2, StepUses
<1>4. BootTypes'
  BY <1>1, <1>3 DEF BootInv, SetDeadlineServices, Step, Finds, Move, BootTypes, Early, Setup,
                    Apic, Late, TimerServices
<1>5. Installed'
  BY <1>1, <1>3 DEF BootInv, SetDeadlineServices, Step, Finds, Move, BootTypes, Installed, Early,
                    Setup, Apic, Late, Drivers, Timers, TimerServices
<1> QED BY <1>1, <1>3, <1>4, <1>5, SleepStays DEF BootInv, EarlyOnlyInX2apic

\* ArmDeadline, a step of kmain
LEMMA ArmDeadlineInv == ASSUME BootInv, misused = FALSE, ArmDeadline PROVE BootInv'
<1> DEFINE used == {}
<1>1. Move("arm_deadline", used, "setup_serial") /\ UNCHANGED sleepVars
  BY DEF ArmDeadline, Step, Finds
<1>2. \A s \in used : services[s] \in Drivers
  BY <1>1 DEF Move, BootInv, BootTypes, Installed, Early, Setup, Apic, Late, Drivers, Timers
<1>3. misused' = FALSE
  <2> HIDE DEF used
  <2> QED BY <1>1, <1>2, StepUses
<1>4. BootTypes'
  BY <1>1, <1>3 DEF BootInv, ArmDeadline, Step, Finds, Move, BootTypes, Early, Setup, Apic, Late
<1>5. Installed'
  BY <1>1, <1>3 DEF BootInv, ArmDeadline, Step, Finds, Move, BootTypes, Installed, Early, Setup,
                    Apic, Late, Drivers, Timers
<1> QED BY <1>1, <1>3, <1>4, <1>5, SleepStays DEF BootInv, EarlyOnlyInX2apic

\* XapicPeriodic, a step of kmain
LEMMA XapicPeriodicInv == ASSUME BootInv, misused = FALSE, XapicPeriodic PROVE BootInv'
<1> DEFINE used == {"timer_blocking_sleep_ms"}
<1>1. Move("periodic", used, "arm_periodic") /\ UNCHANGED sleepVars
  BY DEF XapicPeriodic, Step, Finds
<1>2. \A s \in used : services[s] \in Drivers
  BY <1>1 DEF Move, BootInv, BootTypes, Installed, Early, Setup, Apic, Late, Drivers, Timers
<1>3. misused' = FALSE
  <2> HIDE DEF used
  <2> QED BY <1>1, <1>2, StepUses
<1>4. BootTypes'
  BY <1>1, <1>3 DEF BootInv, XapicPeriodic, Step, Finds, Move, BootTypes, Early, Setup, Apic,
                    Late, TimerServices
<1>5. Installed'
  BY <1>1, <1>3 DEF BootInv, XapicPeriodic, Step, Finds, Move, BootTypes, Installed, Early, Setup,
                    Apic, Late, Drivers, Timers, TimerServices
<1> QED BY <1>1, <1>3, <1>4, <1>5, SleepStays DEF BootInv, EarlyOnlyInX2apic

\* XapicArm, a step of kmain
LEMMA XapicArmInv == ASSUME BootInv, misused = FALSE, XapicArm PROVE BootInv'
<1> DEFINE used == {}
<1>1. Move("arm_periodic", used, "setup_serial") /\ UNCHANGED sleepVars
  BY DEF XapicArm, Step, Finds
<1>2. \A s \in used : services[s] \in Drivers
  BY <1>1 DEF Move, BootInv, BootTypes, Installed, Early, Setup, Apic, Late, Drivers, Timers
<1>3. misused' = FALSE
  <2> HIDE DEF used
  <2> QED BY <1>1, <1>2, StepUses
<1>4. BootTypes'
  BY <1>1, <1>3 DEF BootInv, XapicArm, Step, Finds, Move, BootTypes, Early, Setup, Apic, Late
<1>5. Installed'
  BY <1>1, <1>3 DEF BootInv, XapicArm, Step, Finds, Move, BootTypes, Installed, Early, Setup,
                    Apic, Late, Drivers, Timers
<1> QED BY <1>1, <1>3, <1>4, <1>5, SleepStays DEF BootInv, EarlyOnlyInX2apic

\* X2apicPeriodic, a step of kmain
LEMMA X2apicPeriodicInv == ASSUME BootInv, misused = FALSE, X2apicPeriodic PROVE BootInv'
<1> DEFINE used == {"timer_blocking_sleep_ms"}
<1>1. Move("periodic", used, "x2apic_services") /\ UNCHANGED sleepVars
  BY DEF X2apicPeriodic, Step, Finds
<1>2. \A s \in used : services[s] \in Drivers
  BY <1>1 DEF Move, BootInv, BootTypes, Installed, Early, Setup, Apic, Late, Drivers, Timers
<1>3. misused' = FALSE
  <2> HIDE DEF used
  <2> QED BY <1>1, <1>2, StepUses
<1>4. BootTypes'
  BY <1>1, <1>3 DEF BootInv, X2apicPeriodic, Step, Finds, Move, BootTypes, Early, Setup, Apic, Late
<1>5. Installed'
  BY <1>1, <1>3 DEF BootInv, X2apicPeriodic, Step, Finds, Move, BootTypes, Installed, Early,
                    Setup, Apic, Late, Drivers, Timers
<1> QED BY <1>1, <1>3, <1>4, <1>5, SleepStays DEF BootInv, EarlyOnlyInX2apic

\* SetX2apicServices, a step of kmain
LEMMA SetX2apicServicesInv == ASSUME BootInv, misused = FALSE, SetX2apicServices PROVE BootInv'
<1> DEFINE used == {}
<1>1. Move("x2apic_services", used, "setup_serial") /\ UNCHANGED sleepVars
  BY DEF SetX2apicServices, Step, Finds
<1>2. \A s \in used : services[s] \in Drivers
  BY <1>1 DEF Move, BootInv, BootTypes, Installed, Early, Setup, Apic, Late, Drivers, Timers
<1>3. misused' = FALSE
  <2> HIDE DEF used
  <2> QED BY <1>1, <1>2, StepUses
<1>4. BootTypes'
  BY <1>1, <1>3 DEF BootInv, SetX2apicServices, Step, Finds, Move, BootTypes, Early, Setup, Apic,
                    Late, TimerServices
<1>5. Installed'
  BY <1>1, <1>3 DEF BootInv, SetX2apicServices, Step, Finds, Move, BootTypes, Installed, Early,
                    Setup, Apic, Late, Drivers, Timers, TimerServices
<1> QED BY <1>1, <1>3, <1>4, <1>5, SleepStays DEF BootInv, EarlyOnlyInX2apic

\* setup_serial, a step of kmain
LEMMA setup_serialInv == ASSUME BootInv, misused = FALSE, setup_serial PROVE BootInv'
<1> DEFINE used == {"timer_blocking_sleep_ms"} \cup UnmaskUses
<1>1. Move("setup_serial", used, "setup_ps2") /\ UNCHANGED sleepVars
  BY DEF setup_serial, Step, Finds
<1>2. \A s \in used : services[s] \in Drivers
  BY <1>1 DEF Move, BootInv, BootTypes, Installed, Early, Setup, Apic, Late, Drivers, Timers,
              UnmaskUses
<1>3. misused' = FALSE
  <2> HIDE DEF used
  <2> QED BY <1>1, <1>2, StepUses
<1>4. BootTypes'
  BY <1>1, <1>3 DEF BootInv, setup_serial, Step, Finds, Move, BootTypes, Early, Setup, Apic, Late
<1>5. Installed'
  BY <1>1, <1>3 DEF BootInv, setup_serial, Step, Finds, Move, BootTypes, Installed, Early, Setup,
                    Apic, Late, Drivers, Timers
<1> QED BY <1>1, <1>3, <1>4, <1>5, SleepStays DEF BootInv, EarlyOnlyInX2apic

\* SkipSerial, a step of kmain
LEMMA SkipSerialInv == ASSUME BootInv, misused = FALSE, SkipSerial PROVE BootInv'
<1> DEFINE used == {}
<1>1. Move("setup_serial", used, "setup_ps2") /\ UNCHANGED sleepVars
  BY DEF SkipSerial, Step, Finds
<1>2. \A s \in used : services[s] \in Drivers
  BY <1>1 DEF Move, BootInv, BootTypes, Installed, Early, Setup, Apic, Late, Drivers, Timers
<1>3. misused' = FALSE
  <2> HIDE DEF used
  <2> QED BY <1>1, <1>2, StepUses
<1>4. BootTypes'
  BY <1>1, <1>3 DEF BootInv, SkipSerial, Step, Finds, Move, BootTypes, Early, Setup, Apic, Late
<1>5. Installed'
  BY <1>1, <1>3 DEF BootInv, SkipSerial, Step, Finds, Move, BootTypes, Installed, Early, Setup,
                    Apic, Late, Drivers, Timers
<1> QED BY <1>1, <1>3, <1>4, <1>5, SleepStays DEF BootInv, EarlyOnlyInX2apic

\* setup_ps2, a step of kmain
LEMMA setup_ps2Inv == ASSUME BootInv, misused = FALSE, setup_ps2 PROVE BootInv'
<1> DEFINE used == {"timer_blocking_sleep_ms"} \cup UnmaskUses
<1>1. Move("setup_ps2", used, "unmask_mouse") /\ UNCHANGED sleepVars
  BY DEF setup_ps2, Step, Finds
<1>2. \A s \in used : services[s] \in Drivers
  BY <1>1 DEF Move, BootInv, BootTypes, Installed, Early, Setup, Apic, Late, Drivers, Timers,
              UnmaskUses
<1>3. misused' = FALSE
  <2> HIDE DEF used
  <2> QED BY <1>1, <1>2, StepUses
<1>4. BootTypes'
  BY <1>1, <1>3 DEF BootInv, setup_ps2, Step, Finds, Move, BootTypes, Early, Setup, Apic, Late
<1>5. Installed'
  BY <1>1, <1>3 DEF BootInv, setup_ps2, Step, Finds, Move, BootTypes, Installed, Early, Setup,
                    Apic, Late, Drivers, Timers
<1> QED BY <1>1, <1>3, <1>4, <1>5, SleepStays DEF BootInv, EarlyOnlyInX2apic

\* UnmaskMouse, a step of kmain
LEMMA UnmaskMouseInv == ASSUME BootInv, misused = FALSE, UnmaskMouse PROVE BootInv'
<1> DEFINE used == UnmaskUses
<1>1. Move("unmask_mouse", used, "enter") /\ UNCHANGED sleepVars
  BY DEF UnmaskMouse, Step, Finds
<1>2. \A s \in used : services[s] \in Drivers
  BY <1>1 DEF Move, BootInv, BootTypes, Installed, Early, Setup, Apic, Late, Drivers, Timers,
              UnmaskUses
<1>3. misused' = FALSE
  <2> HIDE DEF used
  <2> QED BY <1>1, <1>2, StepUses
<1>4. BootTypes'
  BY <1>1, <1>3 DEF BootInv, UnmaskMouse, Step, Finds, Move, BootTypes, Early, Setup, Apic, Late
<1>5. Installed'
  BY <1>1, <1>3 DEF BootInv, UnmaskMouse, Step, Finds, Move, BootTypes, Installed, Early, Setup,
                    Apic, Late, Drivers, Timers
<1> QED BY <1>1, <1>3, <1>4, <1>5, SleepStays DEF BootInv, EarlyOnlyInX2apic

\* StartThreads, a step of kmain
LEMMA StartThreadsInv == ASSUME BootInv, misused = FALSE, StartThreads PROVE BootInv'
<1> DEFINE used == {"timer_blocking_sleep_ms"}
<1>1. Move("enter", used, "schedule") /\ UNCHANGED sleepVars
  BY DEF StartThreads, Step, Finds
<1>2. \A s \in used : services[s] \in Drivers
  BY <1>1 DEF Move, BootInv, BootTypes, Installed, Early, Setup, Apic, Late, Drivers, Timers
<1>3. misused' = FALSE
  <2> HIDE DEF used
  <2> QED BY <1>1, <1>2, StepUses
<1>4. BootTypes'
  BY <1>1, <1>3 DEF BootInv, StartThreads, Step, Finds, Move, BootTypes, Early, Setup, Apic, Late
<1>5. Installed'
  BY <1>1, <1>3 DEF BootInv, StartThreads, Step, Finds, Move, BootTypes, Installed, Early, Setup,
                    Apic, Late, Drivers, Timers
<1> QED BY <1>1, <1>3, <1>4, <1>5, SleepStays DEF BootInv, EarlyOnlyInX2apic

\* setup_tsc calls the timer that setup_timer found.
LEMMA CalibrateTscInv == ASSUME BootInv, misused = FALSE, CalibrateTsc PROVE BootInv'
<1> DEFINE used == {"timer_blocking_sleep_ms"}
           t == services.timer_blocking_sleep_ms
<1>1. Move("setup_tsc", used, "calibrate_tsc")
  BY DEF CalibrateTsc
<1>2. \A s \in used : services[s] \in Drivers
  BY <1>1 DEF Move, BootInv, BootTypes, Installed, Early, Setup, Apic, Late, Drivers, Timers
<1>3. misused' = FALSE
  <2> HIDE DEF used
  <2> QED BY <1>1, <1>2, StepUses
<1>4. BootTypes'
  BY <1>1, <1>3 DEF BootInv, CalibrateTsc, Move, BootTypes, Early, Setup, Apic, Late
<1>5. Installed'
  BY <1>1, <1>3 DEF BootInv, CalibrateTsc, Move, BootTypes, Installed, Early, Setup, Apic, Late,
                    Drivers, Timers
<1>6. t \in Timers
  BY <1>1 DEF BootInv, Move, Installed, Early
<1>7. PICK m \in Requests : SleepCall(t, m)
  BY DEF CalibrateTsc
<1>8. SleepInv'
  BY <1>6, <1>7, SleepCallInv
<1> QED BY <1>3, <1>4, <1>5, <1>8 DEF BootInv, EarlyOnlyInX2apic

\* One reading of the counter
LEMMA SleepStepInv == ASSUME BootInv, misused = FALSE, Sleep PROVE BootInv'
<1>1. UNCHANGED <<pc, services, machine, armed, misused>>
  BY DEF Sleep
<1>2. BootTypes' /\ Installed' /\ EarlyOnlyInX2apic'
  BY <1>1 DEF BootInv, BootTypes, Installed, EarlyOnlyInX2apic
<1>3. SleepInv'
  BY SleepReadInv DEF BootInv, Sleep
<1> QED BY <1>2, <1>3 DEF BootInv

\* The end of the calibration
LEMMA TscCalibratedInv == ASSUME BootInv, misused = FALSE, TscCalibrated PROVE BootInv'
<1> DEFINE used == {}
<1>1. PICK good \in BOOLEAN : Finds("calibrate_tsc", used, "tsc", good, "setup_apic")
  BY DEF TscCalibrated
<1>2. \A s \in used : services[s] \in Drivers
  OBVIOUS
<1>3. misused' = FALSE
  <2> HIDE DEF used
  <2> QED BY <1>1, <1>2, StepUses DEF Finds
<1>4. BootTypes'
  BY <1>1, <1>3 DEF BootInv, TscCalibrated, Finds, Move, BootTypes, Early, Setup, Apic, Late
<1>5. Installed'
  BY <1>1, <1>3 DEF BootInv, TscCalibrated, Finds, Move, BootTypes, Installed, Early, Setup, Apic,
                    Late, Drivers, Timers
<1>6. SleepInv'
  BY SleepReturnInv DEF TscCalibrated
<1> QED BY <1>3, <1>4, <1>5, <1>6 DEF BootInv, EarlyOnlyInX2apic

\* An interrupt keeps where kmain is and what it has installed.
LEMMA DispatchInv ==
    ASSUME BootInv, misused = FALSE, NEW controller, NEW irq, NEW used, NEW served,
           dispatch_interupt(controller, irq, used, served), armed' \in BOOLEAN,
           armed' => armed, \A s \in used : services[s] \in Drivers
                                         \/ (s = "apic_timer_isr" /\ pc = "x2apic_services")
    PROVE  BootInv'
<1>1. /\ pc \notin Early /\ UNCHANGED <<pc, services, machine, sleepVars>>
      /\ misused' = (misused \/ \E s \in {"send_eoi"} \cup used : ~Ready(s))
  BY DEF dispatch_interupt, Early
<1>2. services["send_eoi"] \in Drivers
  BY <1>1 DEF BootInv, Installed
<1>3. \A s \in {"send_eoi"} \cup used : Ready(s) \/ (s = "apic_timer_isr" /\ pc = "x2apic_services")
  <2>1. \A s : services[s] \in Drivers => Ready(s)
    BY DEF Ready, Drivers, Timers
  <2> QED BY <1>2, <2>1 DEF BootInv, BootTypes
<1>4. misused' \in BOOLEAN /\ (misused' => pc = "x2apic_services")
  BY <1>1, <1>3, Zenon
<1>5. BootTypes' /\ Installed'
  BY <1>1, <1>4 DEF BootInv, BootTypes, Installed
<1>6. ASSUME pc = "x2apic_services", NEW s \in DOMAIN services \ {"apic_timer_isr"} PROVE Ready(s)'
  <2>1. s \in {"unmask_irq", "send_eoi", "timer_blocking_sleep_ms", "timer_get_ms", "apic_get_id"}
    BY <1>6 DEF BootInv, BootTypes
  <2>2. services[s] \in Drivers
    BY <1>6, <2>1 DEF BootInv, BootTypes, Installed, Early, Setup, Apic, Late, Drivers, Timers
  <2> QED BY <1>1, <2>2 DEF Ready, Drivers, Timers
<1>7. EarlyOnlyInX2apic'
  BY <1>1, <1>4, <1>6 DEF EarlyOnlyInX2apic
<1> QED BY <1>1, <1>5, <1>7, SleepStays DEF BootInv

\* An interrupt of a device uses unmask_irq's and send_eoi's drivers.
LEMMA LineInv == ASSUME BootInv, misused = FALSE, NEW irq, Line(irq) PROVE BootInv'
<1> DEFINE used == {}
<1>1. PICK c, v, served : dispatch_interupt(c, v, used, served)
  BY Zenon DEF Line
<1>2. armed' = armed /\ armed \in BOOLEAN /\ \A s \in used : FALSE
  BY DEF Line, BootInv, BootTypes
<1> HIDE DEF used
<1> QED BY <1>1, <1>2, DispatchInv

\* A tick uses the driver of the local APIC.
LEMMA TimerInv == ASSUME BootInv, misused = FALSE, Timer PROVE BootInv'
<1> DEFINE used == {"apic_timer_isr", "timer_get_ms"}
<1>1. dispatch_interupt("apic", 0, used, {KBD, MOUSE}) /\ armed' = AfterTick /\ armed
  BY DEF Timer, TimerDelivers
<1>2. armed' \in BOOLEAN
  BY <1>1 DEF AfterTick
<1>3. \A s \in used : services[s] \in Drivers \/ (s = "apic_timer_isr" /\ pc = "x2apic_services")
  <2>1. pc \in Late \cup {"x2apic_services"} /\ Installed
    BY <1>1 DEF BootInv, Installed
  <2>2. services["timer_get_ms"] \in Drivers
    BY <2>1 DEF Installed, Apic
  <2>3. services["apic_timer_isr"] \in Drivers \/ pc = "x2apic_services"
    BY <2>1 DEF Installed
  <2> QED BY <2>2, <2>3 DEF BootInv, BootTypes
<1> HIDE DEF used
<1> QED BY <1>1, <1>2, <1>3, DispatchInv

\* A device raises its line.
LEMMA RaiseInv == ASSUME BootInv, NEW irq, Raise(irq) PROVE BootInv'
<1>1. UNCHANGED <<pc, services, machine, armed, misused>> /\ UNCHANGED sleepVars
  BY DEF Raise
<1>2. BootTypes' /\ Installed' /\ EarlyOnlyInX2apic'
  BY <1>1 DEF BootInv, BootTypes, Installed, EarlyOnlyInX2apic, Ready
<1> QED BY <1>1, <1>2, SleepStays DEF BootInv

\* Every step keeps the invariant.
LEMMA BootNextInv == BootInv /\ [BootNext]_bootVars => BootInv'
<1> SUFFICES ASSUME BootInv, [BootNext]_bootVars PROVE BootInv'
  OBVIOUS
<1>1. CASE UNCHANGED bootVars
  <2>1. UNCHANGED <<pc, services, machine, armed, misused>> /\ UNCHANGED sleepVars
    BY <1>1 DEF bootVars
  <2>2. BootTypes' /\ Installed' /\ EarlyOnlyInX2apic'
    BY <2>1 DEF BootInv, BootTypes, Installed, EarlyOnlyInX2apic, Ready
  <2> QED BY <2>1, <2>2, SleepStays DEF BootInv
<1>2. CASE BootNext
  <2>1. misused = FALSE
    BY <1>2 DEF BootNext, BootInv, BootTypes
  <2>2. ASSUME Kmain PROVE BootInv'
    BY <2>1, <2>2, setup_acpiInv, setup_irqsInv, setup_timerInv, setup_apicInv, TscKnownInv,
       CalibrateTscInv, SleepStepInv, TscCalibratedInv, SetDeadlineServicesInv, ArmDeadlineInv,
       XapicPeriodicInv, XapicArmInv, X2apicPeriodicInv, SetX2apicServicesInv, setup_serialInv,
       SkipSerialInv, setup_ps2Inv, UnmaskMouseInv, StartThreadsInv, Zenon DEF Kmain
  <2> QED BY <1>2, <2>1, <2>2, TimerInv, LineInv, RaiseInv DEF BootNext
<1> QED BY <1>1, <1>2

\* The inductive invariant holds throughout.
LEMMA BootInvariant == BootSpec => []BootInv
BY BootInitInv, BootNextInv, PTL DEF BootSpec

\* On any machine, no step of kmain and no interrupt between two of them calls a service
\* that is not there, but for the tick in the middle of setup_x2apic.
THEOREM ServicesBeforeUse == BootSpec => []EarlyOnlyInX2apic
<1>1. BootInv => EarlyOnlyInX2apic
  BY DEF BootInv
<1> QED BY <1>1, BootInvariant, PTL

\* For any frequencies, counter widths and arguments, and however far apart two readings
\* are, timer_blocking_sleep_ms is over when the time is, and not before.
THEOREM SleepExact == BootSpec => []SleepIsExact
<1>1. BootInv => SleepIsExact
  BY SleepInvExact DEF BootInv
<1> QED BY <1>1, BootInvariant, PTL

-----------------------------------------------------------------------------
(***************************************************************************)
(* The run control of the debugger stub                                    *)
(***************************************************************************)

\* What the variables of DbgRun range over.
RunTypes ==
    /\ running \in BOOLEAN /\ rip \in Nat /\ tf \in BOOLEAN /\ rf \in BOOLEAN
    /\ last_frame \in [rip : Nat, tf : BOOLEAN, rf : BOOLEAN]
    /\ dbgstub_paused \in BOOLEAN /\ dbgstub_continue \in BOOLEAN
    /\ dr6 \in BOOLEAN /\ nested \in BOOLEAN /\ reports \in Nat /\ stopped \in BOOLEAN
    /\ asked \in {"start", "c", "s", "s0", "interrupt"} /\ crossed \in BOOLEAN
    /\ steps \in Nat

\* Each inserted address has one of the slots, and the other slots are free.
Breakpoints ==
    /\ hbreakpoints \in [Slots -> Nat] /\ inserted \subseteq Addresses
    /\ \A a \in inserted : \E s \in Slots : hbreakpoints[s] = a
    /\ \A s \in Slots : hbreakpoints[s] # 0 => hbreakpoints[s] \in inserted
    /\ \A s, r \in Slots : hbreakpoints[s] = hbreakpoints[r] /\ hbreakpoints[s] # 0 => s = r

\* The resume flag is that of the first instruction.
Resumption == running => rip # Handler /\ (rf => steps = 0)

\* The program runs: the trap flag is that of a step or of an interrupt character, and the
\* loop its exception enters will wait.
Executes ==
    /\ ~stopped /\ reports = 0 /\ asked # "start"
    /\ tf => asked \in {"s", "interrupt"} /\ dbgstub_paused /\ ~dbgstub_continue
    /\ asked = "s" => tf /\ steps = 0

\* The program is in the loop and stays there: the debugger knows or is about to.
Waits ==
    /\ dbgstub_paused /\ ~dbgstub_continue
    /\ (reports > 0 /\ ~stopped) \/ (reports = 0 /\ stopped)
    /\ last_frame.tf <=> asked # "start"

\* The program is in the loop and about to leave it.
Leaves ==
    /\ ~stopped /\ reports = 0 /\ asked \in {"c", "s", "s0"}
    /\ dbgstub_continue /\ (dbgstub_paused <=> asked # "c")
    /\ last_frame.tf <=> asked = "s"

\* A session in which no interrupt character crossed a stop report
Session ==
    /\ ~nested /\ last_frame.rip # Handler /\ rip # Handler
    /\ IF running THEN Executes ELSE Waits \/ Leaves

\* The inductive invariant of the run control
RunInv == RunTypes /\ Breakpoints /\ Resumption /\ (~crossed => Session)

-----------------------------------------------------------------------------
\* drx_alloc_bp finds the first slot that will do, if one will.
LEMMA FirstFact ==
    ASSUME NEW a \in Addresses, Breakpoints, \E s \in Slots : hbreakpoints[s] \in {0, a}
    PROVE  First(a) \in Slots /\ hbreakpoints[First(a)] \in {0, a}
<1> DEFINE P(s) == hbreakpoints[s] \in {0, a} /\ \A r \in 0..s - 1 : hbreakpoints[r] \notin {0, a}
<1>1. \E s \in Slots : P(s)
  <2>1. CASE hbreakpoints[0] \in {0, a}
    BY <2>1 DEF Slots
  <2>2. CASE hbreakpoints[0] \notin {0, a} /\ hbreakpoints[1] \in {0, a}
    BY <2>2 DEF Slots
  <2>3. CASE hbreakpoints[0] \notin {0, a} /\ hbreakpoints[1] \notin {0,
     a} /\ hbreakpoints[2] \in {0, a}
    BY <2>3 DEF Slots
  <2>4. CASE /\ hbreakpoints[0] \notin {0, a} /\ hbreakpoints[1] \notin {0, a}
             /\ hbreakpoints[2] \notin {0, a}
    <3>1. hbreakpoints[3] \in {0, a}
      BY <2>4 DEF Slots
    <3>2. \A r \in 0..2 : r = 0 \/ r = 1 \/ r = 2
      OBVIOUS
    <3> QED BY <3>1, <3>2, <2>4 DEF Slots
  <2> QED BY <2>1, <2>2, <2>3, <2>4
<1>2. First(a) = CHOOSE s \in Slots : P(s)
  BY DEF First
<1>3. First(a) \in Slots /\ P(First(a))
  <2> HIDE DEF P
  <2> QED BY <1>1, <1>2
<1> QED BY <1>3

\* "Z1" gives a new address a slot, or changes nothing.
LEMMA InsertBreakpoints ==
    ASSUME RunInv, NEW a \in Addresses, insert(a)
    PROVE  Breakpoints'
<1>1. CASE Allocates(a)
  <2>1. First(a) \in Slots /\ hbreakpoints[First(a)] = 0
    BY <1>1, FirstFact DEF Allocates, RunInv
  <2>2. /\ hbreakpoints' = [hbreakpoints EXCEPT ![First(a)] = a]
        /\ inserted' = inserted \cup {a} /\ a \notin inserted
    BY <1>1 DEF insert, drx_alloc_bp
  <2>3. PICK f \in Slots : f = First(a)
    BY <2>1
  <2>4. /\ f \in Slots /\ hbreakpoints[f] = 0 /\ hbreakpoints' = [hbreakpoints EXCEPT ![f] = a]
        /\ a \in Nat /\ a # 0
    BY <2>1, <2>2, <2>3, DbgRunAssumption DEF Addresses
  <2>5. /\ hbreakpoints' \in [Slots -> Nat] /\ hbreakpoints'[f] = a
        /\ \A s \in Slots : s # f => hbreakpoints'[s] = hbreakpoints[s]
    BY <2>4 DEF RunInv, Breakpoints
  <2>6. inserted' \subseteq Addresses
    BY <2>2 DEF RunInv, Breakpoints
  <2>7. \A b \in inserted' : \E s \in Slots : hbreakpoints'[s] = b
    <3> SUFFICES ASSUME NEW b \in inserted' PROVE \E s \in Slots : hbreakpoints'[s] = b
      OBVIOUS
    <3>1. CASE b = a
      BY <3>1, <2>4, <2>5
    <3>2. CASE b # a
      <4>1. b \in inserted /\ b # 0
        BY <3>2, <2>2, DbgRunAssumption DEF RunInv, Breakpoints, Addresses
      <4>2. PICK s \in Slots : hbreakpoints[s] = b
        BY <4>1 DEF RunInv, Breakpoints
      <4> QED BY <4>1, <4>2, <2>4, <2>5
    <3> QED BY <3>1, <3>2
  <2>8. \A s \in Slots : hbreakpoints'[s] # 0 => hbreakpoints'[s] \in inserted'
    BY <2>2, <2>4, <2>5 DEF RunInv, Breakpoints
  <2>9. \A s \in Slots : hbreakpoints[s] # a
    BY <2>2, <2>4 DEF RunInv, Breakpoints
  <2>10. \A s, r \in Slots : hbreakpoints'[s] = hbreakpoints'[r] /\ hbreakpoints'[s] # 0 => s = r
    BY <2>4, <2>5, <2>9 DEF RunInv, Breakpoints
  <2> QED BY <2>5, <2>6, <2>7, <2>8, <2>10 DEF Breakpoints
<1>2. CASE ~Allocates(a)
  BY <1>2 DEF insert, drx_alloc_bp, RunInv, Breakpoints
<1> QED BY <1>1, <1>2

\* "z1" frees the slot of the address and no other.
LEMMA RemoveBreakpoints ==
    ASSUME RunInv, NEW a \in Addresses, remove(a)
    PROVE  Breakpoints'
<1> DEFINE P(s) == hbreakpoints[s] = a /\ \A r \in 0..s - 1 : hbreakpoints[r] # a
           f == CHOOSE s \in Slots : P(s)
<1>1. PICK s \in Slots : hbreakpoints[s] = a
  BY DEF remove, RunInv, Breakpoints
<1>2. a # 0
  BY DbgRunAssumption DEF Addresses
<1>3. P(s)
  <2>1. \A r \in 0..s - 1 : r \in Slots /\ r # s
    BY DEF Slots
  <2> QED BY <1>1, <1>2, <2>1 DEF RunInv, Breakpoints
<1>4. f \in Slots /\ P(f)
  <2> HIDE DEF P
  <2> QED BY <1>3
<1>5. hbreakpoints' = [hbreakpoints EXCEPT ![f] = 0] /\ inserted' = inserted \ {a}
  BY DEF remove, drx_free_bp
<1>6. f \in Slots /\ hbreakpoints[f] = a
  BY <1>4
<1> HIDE DEF f
<1> QED BY <1>2, <1>5, <1>6 DEF RunInv, Breakpoints

\* In the loop the debugger finds the program stopped, and only there.
LEMMA StoppedWaits == ASSUME RunInv, stopped, ~crossed PROVE ~running /\ Waits
BY DEF RunInv, RunTypes, Session, Executes, Leaves

\* What an exception saves of the program
LEMMA FrameFact ==
    ASSUME NEW place \in Nat, NEW trap \in BOOLEAN, NEW resume \in BOOLEAN
    PROVE  /\ Frame(place, trap, resume) \in [rip : Nat, tf : BOOLEAN, rf : BOOLEAN]
           /\ Frame(place, trap, resume).rip = place
BY DEF Frame

\* The breakpoint instruction of kmain
LEMMA RunInitInv == RunInit => RunInv
<1> SUFFICES ASSUME RunInit PROVE RunInv
  OBVIOUS
<1>1. RunTypes
  BY DEF RunInit, RunTypes, Frame
<1>2. Breakpoints
  BY DEF RunInit, Breakpoints, Slots
<1>3. Resumption /\ Session
  BY DEF RunInit, Resumption, Session, Waits, Frame, Handler
<1> QED BY <1>1, <1>2, <1>3 DEF RunInv

\* The exception in front of an instruction
LEMMA BreakInv == ASSUME RunInv, Break, UNCHANGED crossed PROVE RunInv'
<1>0. last_frame' = Frame(rip, TRUE, TRUE)
  BY DEF Break, dbgstub_exception, drx_cnc_bp, Frame
<1> USE DEF Break, dbgstub_exception, drx_cnc_bp, Frame
<1>1. RunTypes'
  <2>1. last_frame' \in [rip : Nat, tf : BOOLEAN, rf : BOOLEAN]
    BY <1>0, FrameFact, Zenon DEF RunInv, RunTypes
  <2>2. reports' \in Nat
    BY DEF RunInv, RunTypes
  <2> QED BY <2>1, <2>2, Zenon DEF RunInv, RunTypes
<1>2. Breakpoints'
  BY DEF RunInv, Breakpoints, bps
<1>3. Resumption' /\ (~crossed => Session)'
  BY DEF RunInv, RunTypes, Resumption, Session, Executes, Waits
<1> QED BY <1>1, <1>2, <1>3 DEF RunInv

\* An instruction, and the exception behind it
LEMMA InstructionInv == ASSUME RunInv, Instruction, UNCHANGED crossed PROVE RunInv'
<1>0. rip' \in Nat /\ rip' # Handler
  <2>1. rip \in Nat /\ Length \in Nat \ {0}
    BY DbgRunAssumption DEF RunInv, RunTypes
  <2>2. rip % Length \in Nat
    BY <2>1
  <2> QED BY <2>2 DEF Instruction, Handler
<1>1. CASE tf
  <2>1. PICK named \in {dr6, FALSE} : dbgstub_exception(Frame(rip', TRUE, FALSE), named)
    BY <1>1 DEF Instruction
  <2> USE DEF dbgstub_exception, drx_cnc_bp, Frame
  <2>2. RunTypes'
    <3>0. last_frame' \in {Frame(rip', TRUE, TRUE), Frame(rip', TRUE, FALSE)}
      BY <2>1
    <3>1. last_frame' \in [rip : Nat, tf : BOOLEAN, rf : BOOLEAN]
      BY <1>0, <3>0, FrameFact, Zenon
    <3>2. reports' \in Nat /\ steps' \in Nat
      BY <2>1 DEF RunInv, RunTypes, Instruction
    <3>3. dbgstub_paused' \in BOOLEAN /\ dbgstub_continue' \in BOOLEAN
      BY <2>1, Zenon DEF RunInv, RunTypes
    <3>4. dr6' \in BOOLEAN
      BY <2>1, Zenon DEF RunInv, RunTypes
    <3>5. running' \in BOOLEAN
      BY <2>1, Zenon DEF RunInv, RunTypes
    <3> QED BY <1>0, <3>1, <3>2, <3>3, <3>4, <3>5, Zenon DEF RunInv, RunTypes, Instruction
  <2>3. Breakpoints'
    BY DEF RunInv, Breakpoints, Instruction, bps
  <2>4. Resumption' /\ (~crossed => Session)'
    BY <1>0, <1>1, <2>1 DEF RunInv, RunTypes, Resumption, Session, Executes, Waits, Instruction
  <2> QED BY <2>2, <2>3, <2>4 DEF RunInv
<1>2. CASE ~tf
  <2>2. RunTypes'
    <3>1. steps' \in Nat
      BY DEF RunInv, RunTypes, Instruction
    <3>2. UNCHANGED <<running, last_frame, dbgstub_paused, dbgstub_continue, dr6, reports>>
      BY <1>2 DEF Instruction
    <3> QED BY <1>0, <3>1, <3>2, Zenon DEF RunInv, RunTypes, Instruction
  <2>3. Breakpoints'
    BY DEF RunInv, Breakpoints, Instruction, bps
  <2>4. Resumption' /\ (~crossed => Session)'
    BY <1>0, <1>2 DEF RunInv, RunTypes, Resumption, Session, Executes, Instruction
  <2> QED BY <2>2, <2>3, <2>4 DEF RunInv
<1> QED BY <1>1, <1>2

\* Both ends of the loop of dbgstub_exception
LEMMA LeaveInv ==
    ASSUME RunInv, LeaveUnpaused \/ LeaveContinued, UNCHANGED crossed
    PROVE  RunInv'
<1> USE DEF LeaveUnpaused, LeaveContinued
<1>1. RunTypes'
  <2>1. Return /\ dbgstub_continue' \in BOOLEAN
        /\ UNCHANGED <<last_frame, dbgstub_paused, dr6, stopped, asked>>
    BY Zenon DEF RunInv, RunTypes
  <2>2. steps' \in Nat /\ reports' \in Nat
    BY <2>1 DEF Return, RunInv, RunTypes, program
  <2>3. rip' \in Nat /\ tf' \in BOOLEAN /\ rf' \in BOOLEAN
    BY <2>1 DEF Return, RunInv, RunTypes, program
  <2>4. nested' \in BOOLEAN /\ running' \in BOOLEAN
    BY <2>1 DEF Return, RunInv, RunTypes, program
  <2> QED BY <2>1, <2>2, <2>3, <2>4, Zenon DEF RunInv, RunTypes
<1>2. Breakpoints'
  BY DEF RunInv, Breakpoints, bps
<1>3. Resumption'
  BY DEF RunInv, RunTypes, Resumption, Return, program
<1>4. ~crossed => Session'
  <2> SUFFICES ASSUME ~crossed PROVE Session'
    OBVIOUS
  <2>1. ~nested /\ Session /\ Leaves
    BY DEF RunInv, Session, Waits
  <2>2. /\ running' /\ rip' = last_frame.rip /\ tf' = last_frame.tf /\ steps' = 0
        /\ UNCHANGED <<nested, reports, last_frame, stopped, asked, dbgstub_paused>>
    BY <2>1 DEF Return, Session
  <2>3. asked = "s" => dbgstub_paused' /\ ~dbgstub_continue'
    BY <2>1 DEF Leaves
  <2> QED BY <2>1, <2>2, <2>3 DEF Session, Leaves, Executes
<1> QED BY <1>1, <1>2, <1>3, <1>4 DEF RunInv

\* The stop report is read.
LEMMA HearInv == ASSUME RunInv, Hear, UNCHANGED crossed PROVE RunInv'
<1> USE DEF Hear, program, stub, bps
<1>1. RunTypes'
  <2>1. reports' \in Nat /\ stopped' \in BOOLEAN
    OBVIOUS
  <2>2. /\ running' = running /\ rip' = rip /\ tf' = tf /\ rf' = rf /\ last_frame' = last_frame
        /\ dbgstub_paused' = dbgstub_paused /\ dbgstub_continue' = dbgstub_continue
        /\ dr6' = dr6 /\ nested' = nested /\ asked' = asked /\ steps' = steps
    OBVIOUS
  <2> QED BY <2>1, <2>2 DEF RunInv, RunTypes
<1>2. Breakpoints'
  BY DEF RunInv, Breakpoints
<1>3. Resumption' /\ (~crossed => Session)'
  BY DEF RunInv, RunTypes, Resumption, Session, Executes, Waits, Leaves
<1> QED BY <1>1, <1>2, <1>3 DEF RunInv

\* "c"
LEMMA ContinueInv == ASSUME RunInv, continue, UNCHANGED crossed PROVE RunInv'
<1> USE DEF continue, Resumed, program, bps
<1>1. RunTypes'
  <2>1. last_frame' \in [rip : Nat, tf : BOOLEAN, rf : BOOLEAN]
    BY DEF RunInv, RunTypes
  <2> QED BY <2>1, Zenon DEF RunInv, RunTypes
<1>2. Breakpoints'
  BY DEF RunInv, Breakpoints
<1>3. Resumption'
  BY DEF RunInv, Resumption
<1>4. ~crossed => Session'
  BY StoppedWaits DEF RunInv, RunTypes, Session, Waits, Leaves
<1> QED BY <1>1, <1>2, <1>3, <1>4 DEF RunInv

\* "s"
LEMMA StepInv == ASSUME RunInv, step, UNCHANGED crossed PROVE RunInv'
<1> USE DEF step, Resumed, program, bps
<1>1. RunTypes'
  BY Zenon DEF RunInv, RunTypes
<1>2. Breakpoints'
  BY DEF RunInv, Breakpoints
<1>3. Resumption'
  BY DEF RunInv, Resumption
<1>4. ~crossed => Session'
  BY StoppedWaits DEF RunInv, RunTypes, Session, Waits, Leaves
<1> QED BY <1>1, <1>2, <1>3, <1>4 DEF RunInv

\* "G"
LEMMA SetRipInv ==
    ASSUME RunInv, NEW a \in Targets, set_rip(a), UNCHANGED crossed
    PROVE  RunInv'
<1> USE DEF set_rip, program, bps
<1>0. a \in Nat /\ a # Handler
  BY DbgRunAssumption DEF Handler
<1>1. RunTypes'
  <2>1. last_frame' \in [rip : Nat, tf : BOOLEAN, rf : BOOLEAN]
    BY <1>0 DEF RunInv, RunTypes
  <2> QED BY <2>1, Zenon DEF RunInv, RunTypes
<1>2. Breakpoints'
  BY DEF RunInv, Breakpoints
<1>3. Resumption'
  BY DEF RunInv, Resumption
<1>4. ~crossed => Session'
  BY <1>0, StoppedWaits DEF RunInv, RunTypes, Session, Waits
<1> QED BY <1>1, <1>2, <1>3, <1>4 DEF RunInv

\* "Z1" and "z1"
LEMMA BreakpointInv ==
    ASSUME RunInv, NEW a \in Addresses, insert(a) \/ remove(a), UNCHANGED crossed
    PROVE  RunInv'
<1>1. UNCHANGED <<running, rip, tf, rf, last_frame, dbgstub_paused, dbgstub_continue, dr6, nested,
                  reports, stopped, asked, steps>>
  BY DEF insert, remove, program, stub
<1>2. RunTypes'
  BY <1>1 DEF RunInv, RunTypes
<1>3. Breakpoints'
  BY InsertBreakpoints, RemoveBreakpoints
<1>4. Resumption' /\ (~crossed => Session)'
  BY <1>1 DEF RunInv, Resumption, Session, Executes, Waits, Leaves
<1> QED BY <1>2, <1>3, <1>4 DEF RunInv

\* The interrupt character
LEMMA InterruptInv == ASSUME RunInv, interrupt PROVE RunInv'
<1> USE DEF interrupt, bps
<1>1. RunTypes'
  <2>0. Frame(Handler, TRUE, FALSE) \in [rip : Nat, tf : BOOLEAN, rf : BOOLEAN]
    BY DEF Frame, Handler
  <2>1. last_frame' \in [rip : Nat, tf : BOOLEAN, rf : BOOLEAN]
    BY <2>0, Zenon DEF RunInv, RunTypes
  <2>2. reports' \in Nat
    <3>1. reports' = reports \/ reports' = reports + 1
      BY Zenon
    <3>2. reports \in Nat
      BY DEF RunInv, RunTypes
    <3> QED BY ONLY <3>1, <3>2
  <2>3. tf' \in BOOLEAN /\ nested' \in BOOLEAN /\ crossed' \in BOOLEAN
    BY DEF RunInv, RunTypes
  <2> QED BY <2>1, <2>2, <2>3, Zenon DEF RunInv, RunTypes
<1>2. Breakpoints'
  BY DEF RunInv, Breakpoints
<1>3. Resumption'
  BY DEF RunInv, Resumption
<1>4. ~crossed' => Session'
  BY DEF RunInv, RunTypes, Session, Executes
<1> QED BY <1>1, <1>2, <1>3, <1>4 DEF RunInv

\* Every step of the CPU, of the loop and of the debugger keeps the invariant.
LEMMA RunNextInv == RunInv /\ [RunNext]_runVars => RunInv'
<1> SUFFICES ASSUME RunInv, [RunNext]_runVars PROVE RunInv'
  OBVIOUS
<1>1. CASE UNCHANGED runVars
  BY <1>1 DEF runVars, RunInv, RunTypes, Breakpoints, Resumption, Session, Executes, Waits, Leaves
<1>2. CASE RunNext
  BY <1>2, BreakInv, InstructionInv, LeaveInv, HearInv, ContinueInv, StepInv, SetRipInv,
     BreakpointInv, InterruptInv, Zenon DEF RunNext
<1> QED BY <1>1, <1>2

\* A step that stops the program
LEMMA StopsAsAsked ==
    ASSUME RunInv, [RunNext]_runVars, running, ~running', ~crossed
    PROVE  rip \in inserted \/ asked \in {"s", "interrupt"}
<1>1. CASE Break
  <2>1. PICK s \in Slots : hbreakpoints[s] = rip
    BY <1>1 DEF Break, BreaksAt
  <2>2. rip # 0
    BY DEF RunInv, Resumption, Handler
  <2> QED BY <2>1, <2>2 DEF RunInv, Breakpoints
<1>2. CASE Instruction
  BY <1>2 DEF Instruction, RunInv, Session, Executes
<1>3. CASE ~Break /\ ~Instruction
  BY <1>3 DEF RunNext, runVars, interrupt, LeaveUnpaused, LeaveContinued, Hear, continue, step,
              insert, remove, set_rip, program
<1> QED BY <1>1, <1>2, <1>3

\* A step of the program over an inserted breakpoint
LEMMA PassesOnce ==
    ASSUME RunInv, [RunNext]_runVars, running, rip' # rip, rip \in inserted
    PROVE  steps = 0
<1>1. CASE Instruction
  <2>1. \E s \in Slots : hbreakpoints[s] = rip
    BY DEF RunInv, Breakpoints
  <2> QED BY <1>1, <2>1 DEF Instruction, BreaksAt, RunInv, Resumption
<1>2. CASE ~Instruction
  BY <1>2 DEF RunNext, runVars, Break, interrupt, LeaveUnpaused, LeaveContinued, Hear, continue,
              step, insert, remove, set_rip, program
<1> QED BY <1>1, <1>2

\* The debugger stub runs and stops the program as the commands ask, for programs of any
\* length and any sequence of commands: the loop of dbgstub_exception ends only by a
\* command, a step is one instruction, and an inserted breakpoint is met.
THEOREM DebuggerRunsAsAsked == RunSpec => RunsAsAsked
<1>1. RunInv => ((running /\ ~crossed) => ~stopped /\ (asked = "s" => steps = 0))
  BY DEF RunInv, Session, Executes
<1>2. RunInv /\ [RunNext]_runVars =>
        [(running /\ ~running' /\ ~crossed) =>
            (rip \in inserted \/ asked \in {"s", "interrupt"})]_runVars
  BY StopsAsAsked
<1>3. RunInv /\ [RunNext]_runVars =>
        [(running /\ rip' # rip /\ rip \in inserted) => steps = 0]_runVars
  BY PassesOnce
<1> QED BY <1>1, <1>2, <1>3, RunInitInv, RunNextInv, PTL DEF RunSpec, RunsAsAsked
=============================================================================
