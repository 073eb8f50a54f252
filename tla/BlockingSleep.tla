--------------------------- MODULE BlockingSleep ---------------------------
(***************************************************************************)
(* timer_blocking_sleep_ms: the busy wait the drivers calibrate and poll   *)
(* with.  setup_timer points it at the ACPI timer, the HPET or the PIT,    *)
(* and each of the three adds up readings of a counter that wraps.         *)
(*                                                                         *)
(* The state is that of the call in progress.  The code never sees `time', *)
(* the ticks the hardware has counted since the first reading: two         *)
(* readings may be far apart, because interrupts are enabled while the     *)
(* loop runs.                                                              *)
(***************************************************************************)
EXTENDS Integers

CONSTANTS
  Freq,         \* ticks in a second
  Second,       \* 1000: the milliseconds of a second
  Wrap,         \* 2^24: number of values of the ACPI counter
  Word,         \* 2^32 (ACPI) or 2^64 (HPET): number of values of a difference
  PitMin,       \* 100: the smallest divisor programmed
  PitMax,       \* 0xFFFF: the largest
  Requests,     \* the milliseconds asked for
  MaxGap,       \* bound: ticks between two readings
  MaxTime       \* bound: ticks a call is followed for

ASSUME SleepAssumption ==
  /\ {Freq, Second, Wrap, Word, PitMin, PitMax} \subseteq Nat \ {0}
  /\ Wrap <= Word /\ PitMin <= PitMax
  /\ Requests \subseteq Nat /\ MaxGap \in Nat
  /\ MaxTime \in Nat /\ MaxTime < Word     \* no call lasts until the HPET is back where it was

VARIABLES
  timer,        \* what the call found in timer_blocking_sleep_ms; "none" outside of one
  ms,           \* the argument
  base,         \* what the counter had counted at the first reading
  time,         \* ticks since then
  last,         \* last_tick, start or prev_count
  elapsed,      \* ticks_elapsed or elapsed_ticks
  slow          \* two readings were a whole PIT period apart

sleepVars == <<timer, ms, base, time, last, elapsed, slow>>

\* The number of ticks waited for.  The PIT rounds up, the others down.
wanted ==
  IF timer = "pit" THEN (ms * Freq + (Second - 1)) \div Second
                   ELSE (Freq * ms) \div Second

\* The reload value the PIT is given.
divisor ==
  LET d == IF wanted > PitMax THEN PitMax ELSE wanted
  IN  IF d < PitMin THEN PitMin ELSE d

\* The value of the counter after t ticks.  The PIT counts down from its
\* divisor to 1.
Counter(t, b) ==
  CASE timer = "acpi" -> (b + t) % Wrap
    [] timer = "hpet" -> (b + t) % Word
    [] timer = "pit"  -> divisor - ((b + t) % divisor)

Timers == {"acpi", "hpet", "pit"}

NoSleep ==
  /\ timer = "none" /\ ms = 0 /\ base = 0 /\ time = 0 /\ last = 0 /\ elapsed = 0
  /\ slow = FALSE

\* The call, up to the first reading.  The PIT was just given its divisor, the other
\* counters stand anywhere.
SleepCall(t, m) ==
  /\ timer = "none"
  /\ timer' = t /\ ms' = m
  /\ base' \in CASE t = "acpi" -> 0 .. Wrap - 1
                 [] t = "hpet" -> 0 .. Word - 1
                 [] t = "pit"  -> 0 .. MaxGap
  /\ time' = 0 /\ last' = Counter(0, base)' /\ elapsed' = 0 /\ slow' = FALSE

SleepReturn ==
  /\ timer # "none" /\ elapsed >= wanted
  /\ timer' = "none" /\ ms' = 0 /\ base' = 0 /\ time' = 0 /\ last' = 0 /\ elapsed' = 0
  /\ slow' = FALSE

\* Mutant: of a reload, only the part before it is counted.
PitUnder(now) == elapsed + (IF now > last THEN last ELSE last - now)

\* The PIT's loop body: a larger count means that the counter was reloaded.
PitElapsed(now) ==
  elapsed + (IF now > last THEN last + (divisor - now) ELSE last - now)

\* The ACPI loop body: the difference of two 24 bit values is made in 32 bits.
AcpiElapsed(now) == elapsed + ((now - last) % Word)

\* The HPET loop condition: the difference to the start, not to the last
\* reading.
HpetElapsed(now) == (now - last) % Word

\* One turn of the loop, gap ticks after the last one.
SleepRead(gap) ==
  LET now == Counter(time + gap, base)
  IN  /\ timer # "none" /\ elapsed < wanted
      /\ time + gap <= MaxTime
      /\ time' = time + gap
      /\ elapsed' = CASE timer = "acpi" -> AcpiElapsed(now)
                      [] timer = "hpet" -> HpetElapsed(now)
                      [] timer = "pit"  -> PitElapsed(now)
      /\ last' = IF timer = "hpet" THEN last ELSE now
      /\ slow' = (slow \/ (timer = "pit" /\ gap >= divisor))
      /\ UNCHANGED <<timer, ms, base>>

-----------------------------------------------------------------------------

\* The 24 bit counter has passed zero since the first reading.
AcpiWrapped == timer = "acpi" /\ base + time >= Wrap

\* timer_blocking_sleep_ms never returns early, by more than the tick that the
\* conversion from milliseconds rounds off: not when the HPET's counter wraps, and
\* not when two readings are several periods of the PIT apart.  Nor is anything
\* counted twice or missed, so the call returns at the first reading after the time
\* asked for, unless a whole PIT period passes between two readings: then the PIT,
\* which has no other memory, has to miss it.  The ACPI timer's sleep does end early
\* when its counter wraps.
SleepIsExact ==
  ~AcpiWrapped =>
    /\ (timer # "none" /\ elapsed >= wanted) => time * Second > Freq * ms - Second
    /\ ~slow => elapsed = time
=============================================================================
