------------------------------ MODULE Keyboard ------------------------------
(***************************************************************************)
(* The ring of /dev/kbd (drivers/keyboard.c).  The PS/2 interrupt puts the *)
(* character of a key into it and the serial interrupt the character that  *)
(* came over the line; both, and the readers, hold its spinlock.  Of       *)
(* ps2_isr this is the part that ends in kbdDevicePush: the second ring,   *)
(* of scancodes, and the mouse share nothing with it.  So does the flag    *)
(* extended, which is set and cleared and decides nothing.                 *)
(***************************************************************************)
EXTENDS Integers, Sequences

CONSTANTS Chars,      \* characters
          Scancodes,  \* what the keyboard sends
          asciiNoShift, asciiShift,   \* key -> its character
          Size,       \* entries of the ring; 256 in the code, where an index is a uint8_t
          MaxRead     \* largest read_length of kbdDeviceRead

NUL        == "NUL"                 \* '\0', the character of a key outside the tables
Prefix     == "0xE0"
ShiftMake  == "0x2A"
ShiftBreak == "0xAA"
Release    == "0x9E"                \* any other code with bit 7 set

ASSUME KeyboardAssumption ==
    /\ Size \in Nat \ {0, 1} /\ MaxRead \in Nat
    /\ NUL \in Chars
    /\ asciiNoShift \in [DOMAIN asciiNoShift -> Chars]
    /\ asciiShift \in [DOMAIN asciiNoShift -> Chars]

Ascii(scancode, shift) ==
    LET table == IF shift THEN asciiShift ELSE asciiNoShift
    IN  IF scancode \in DOMAIN table THEN table[scancode] ELSE NUL

VARIABLES
    kbd,             \* keyboard_buffer, _write (head) and _read (tail)
    got,             \* what the last kbdDeviceRead returned
    shiftPressed

kbdVars == <<kbd, got, shiftPressed>>

Inc(i)      == (i + 1) % Size
Pending(r)  == (r.head - r.tail) % Size
Contents(r) == [i \in 1..Pending(r) |-> r.buffer[(r.tail + i - 1) % Size]]

KbdInit ==
    /\ kbd = [buffer |-> [i \in 0..Size - 1 |-> NUL], head |-> 0, tail |-> 0]
    /\ got = <<>>
    /\ shiftPressed = FALSE

-----------------------------------------------------------------------------
\* Mutant: the test for a full ring is dropped.
PushOverwrites(c) ==
    /\ kbd' = [kbd EXCEPT !.buffer[kbd.head] = c, !.head = Inc(kbd.head)]
    /\ UNCHANGED got

\* A character that does not fit is dropped.
kbdDevicePush(c) ==
    /\ kbd' = IF Inc(kbd.head) = kbd.tail THEN kbd
              ELSE [kbd EXCEPT !.buffer[kbd.head] = c, !.head = Inc(kbd.head)]
    /\ UNCHANGED got

kbdDeviceRead(length) ==
    LET n == IF length < Pending(kbd) THEN length ELSE Pending(kbd)
    IN  /\ got' = SubSeq(Contents(kbd), 1, n)
        /\ kbd' = [kbd EXCEPT !.tail = (@ + n) % Size]
        /\ UNCHANGED shiftPressed

\* ps2_isr, one byte of the keyboard
ps2_isr(scancode) ==
    CASE scancode = ShiftMake  -> shiftPressed' = TRUE /\ UNCHANGED <<kbd, got>>
      [] scancode = ShiftBreak -> shiftPressed' = FALSE /\ UNCHANGED <<kbd, got>>
      [] scancode \in {Prefix, Release} -> UNCHANGED kbdVars
      [] OTHER -> kbdDevicePush(Ascii(scancode, shiftPressed)) /\ UNCHANGED shiftPressed

\* serial_isr without the debugger: '\0' is skipped.  The copy it keeps in serial_buffer, which
\* nothing but the device file /dev/term/stty reads, is left out.
serial_isr(c) == c # NUL /\ kbdDevicePush(c) /\ UNCHANGED shiftPressed

KbdNext ==
    \/ \E scancode \in Scancodes : ps2_isr(scancode)
    \/ \E c \in Chars : serial_isr(c)
    \/ \E n \in 1..MaxRead : kbdDeviceRead(n)

KbdSpec == KbdInit /\ [][KbdNext]_kbdVars

-----------------------------------------------------------------------------
Queue == INSTANCE KeyQueue WITH
    Items <- Chars, Capacity <- Size - 1, queue <- Contents(kbd), out <- got

\* /dev/kbd is a queue of 255 characters: whatever the interrupts and the
\* readers do, kbdDeviceRead returns characters in the order of kbdDevicePush,
\* each once, and one is lost only when it arrives at a full ring.
KbdIsQueue == Queue!Spec
=============================================================================
