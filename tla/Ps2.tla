--------------------------------- MODULE Ps2 ---------------------------------
(***************************************************************************)
(* The PS/2 controller: setup_ps2 and the ring of scancodes behind         *)
(* /dev/ps2/kbd (drivers/x86_64/ps2.c), and what ps2_isr (interupts/ps2.c) *)
(* does for that ring and for the mouse.  The timer is armed before        *)
(* setup_ps2 runs and its handler falls through to ps2_isr, so both read   *)
(* the one data port.  The characters ps2_isr makes of keys are the        *)
(* subject of Keyboard.                                                    *)
(***************************************************************************)
EXTENDS Integers, Sequences, SequencesExt

CONSTANTS Keys,         \* scancodes of the keys that are pressed
          Moves,        \* what the mouse reports, in order: [dx, dy, buttons]
          Config,       \* the configuration byte at boot
          Size,         \* entries of the ring, 256 in the code
          FlushReads,   \* reads of ps2_flush, 16 in the code
          Tries,        \* PS2_TIMEOUT_MS
          MaxKeys       \* bound on the keys pressed

None == [from |-> "none", val |-> 0, i |-> 0]
ACK  == 250             \* 0xFA
Pass == 170             \* 0xAA, the end of a self test
CONF_BYTE_MASK == {0, 1, 6}
Broken == -1

ASSUME Ps2Assumption ==
    /\ Keys \subseteq 0..255 /\ Config \in 0..255
    /\ Moves \in Seq([dx : -256..255, dy : -256..255, buttons : 0..7])
    /\ Size \in Nat \ {0, 1}
    /\ {FlushReads, Tries, MaxKeys} \subseteq Nat

VARIABLES
    \* the hardware
    wait,          \* source -> bytes it has to send
    enabled,       \* ports that may send
    out,           \* the output buffer of the controller, or None
    last,          \* what the data port returns when there is nothing
    config,        \* bits of the configuration byte
    streaming,     \* the mouse reports movements
    \* setup_ps2
    at, n,         \* its place and loop counter
    \* ps2_isr
    isr,           \* it runs
    raw,           \* ps2Kbd_buffer, _head, _tail
    mouse,         \* mouse_buffer up to mouse_ptr
    events,        \* the calls of handle_mouse_event, behind setup_ps2
    \* a process in sys_ps2_get_scancode
    reader, got,
    \* history
    pressed, sent, \* keys and movements so far
    lost           \* movements lost when setup_ps2 ends; Broken when its last byte
                   \* was not the end of a packet

hw   == <<wait, enabled, out, last, config, streaming>>
drv  == <<raw, mouse, events>>
proc == <<reader, got>>
hist == <<pressed, sent, lost>>
vars == <<hw, at, n, isr, drv, proc, hist>>

Bit(b, k) == (b \div 2^k) % 2
Bits(b) == {k \in 0..7 : Bit(b, k) = 1}
Byte(from, val, i) == [from |-> from, val |-> val, i |-> i]
Replies(from, vals) == [k \in DOMAIN vals |-> Byte(from, vals[k], 0)]

-----------------------------------------------------------------------------
(* The devices *)

\* The controller takes the next byte of a source.
Send(src) ==
    /\ out = None /\ wait[src] # <<>> /\ src \in enabled
    /\ out' = Head(wait[src])
    /\ wait' = [wait EXCEPT ![src] = Tail(@)]
    /\ UNCHANGED <<enabled, last, config, streaming, at, n, isr, drv, proc, hist>>

Press(key) ==
    /\ pressed < MaxKeys
    /\ wait' = [wait EXCEPT !.kbd = Append(@, Byte("kbd", key, 0))]
    /\ pressed' = pressed + 1
    /\ UNCHANGED <<enabled, out, last, config, streaming, at, n, isr, drv, proc,
                   sent, lost>>

\* A packet: buttons and the ninth bits of the movements, then their low bytes.
Packet(m) ==
    << m.buttons + 8 + (IF m.dx < 0 THEN 16 ELSE 0) + (IF m.dy < 0 THEN 32 ELSE 0),
       m.dx % 256, m.dy % 256 >>

Move ==
    /\ streaming /\ sent < Len(Moves)
    /\ wait' = [wait EXCEPT !.mouse =
                   @ \o [i \in 1..3 |-> Byte("mouse", Packet(Moves[sent + 1])[i], i)]]
    /\ sent' = sent + 1
    /\ UNCHANGED <<enabled, out, last, config, streaming, at, n, isr, drv, proc,
                   pressed, lost>>

\* A read of the data port.
Inb == /\ last' = IF out = None THEN last ELSE out.val
       /\ out' = None
Port == IF out = None THEN last ELSE out.val

-----------------------------------------------------------------------------
(* setup_ps2; it runs where no interrupt does *)

Step(from, to) ==
    /\ at = from /\ ~isr
    /\ at' = to
    /\ UNCHANGED <<isr, drv, proc, pressed, sent>>

\* for (...) { ...; if (done) break; }: n counts down.
Loop(from, to, again, done) ==
    /\ at = from /\ ~isr
    /\ IF done \/ n = 1 THEN at' = to /\ n' = 0 ELSE at' = again /\ n' = n - 1
    /\ UNCHANGED <<isr, drv, proc, pressed, sent>>

DisablePorts ==
    /\ Step("disable", "flush1") /\ n' = FlushReads
    /\ enabled' = {"ctl"}
    /\ UNCHANGED <<wait, out, last, config, streaming, lost>>

Flush(from, to) ==
    /\ Loop(from, to, from, FALSE)
    /\ Inb
    /\ UNCHANGED <<wait, enabled, config, streaming>>

ReadConfig ==
    /\ Step("read_config", "get_config")
    /\ wait' = [wait EXCEPT !.ctl = <<Byte("ctl", Config, 0)>>]
    /\ UNCHANGED <<enabled, out, last, config, streaming, n, lost>>

\* Mutant: a read that times out counts as 0.
GetConfigZero ==
    /\ Step("get_config", "reset_kbd")
    /\ out # None \/ wait.ctl = <<>>
    /\ Inb
    /\ config' = Bits(IF out = None THEN 0 ELSE out.val) \cup CONF_BYTE_MASK
    /\ UNCHANGED <<wait, enabled, streaming, n, lost>>

\* ps2_read, after a wait that the controller beats by far; it times out when
\* the byte is gone.  Then the byte is written back.
GetConfig ==
    /\ Step("get_config", "reset_kbd")
    /\ out # None \/ wait.ctl = <<>>
    /\ Inb
    /\ config' = Bits(Port) \cup CONF_BYTE_MASK
    /\ UNCHANGED <<wait, enabled, streaming, n, lost>>

ResetKbd ==
    /\ Step("reset_kbd", "test_kbd") /\ n' = Tries
    /\ enabled' = enabled \cup {"kbd"}
    /\ wait' = [wait EXCEPT !.kbd = Replies("kbd", <<ACK, Pass>>)]
    /\ UNCHANGED <<out, last, config, streaming, lost>>

\* The test of the status port, and the read that need not find the same byte.
Test(from, full, to) ==
    /\ IF out # None THEN Step(from, full) /\ UNCHANGED n ELSE Loop(from, to, from, FALSE)
    /\ UNCHANGED <<hw, lost>>
Poll(from, again, to) ==
    /\ Loop(from, to, again, Port = ACK)
    /\ Inb
    /\ UNCHANGED <<wait, enabled, config, streaming, lost>>

SetScancodeSet ==
    /\ Step("set_scancodes", "flush2") /\ n' = FlushReads
    /\ wait' = [wait EXCEPT !.kbd = @ \o Replies("kbd", <<ACK, ACK>>)]
    /\ UNCHANGED <<enabled, out, last, config, streaming, lost>>

ResetMouse ==
    /\ Step("reset_mouse", "test_mouse") /\ n' = Tries
    /\ enabled' = enabled \cup {"mouse"}
    /\ wait' = [wait EXCEPT !.mouse = Replies("mouse", <<ACK, Pass, 0>>)]
    /\ UNCHANGED <<out, last, config, streaming, lost>>

EnableMouse ==
    /\ Step("enable_mouse", "flush3") /\ n' = FlushReads
    /\ wait' = [wait EXCEPT !.mouse = @ \o Replies("mouse", <<ACK, ACK>>)]
    /\ streaming' = TRUE
    /\ UNCHANGED <<enabled, out, last, config, lost>>

FromMouse == SelectSeq(<<out>>, LAMBDA b : b.from = "mouse") \o wait.mouse

\* Both lines are unmasked and the device file is registered.
Unmask ==
    /\ Step("unmask", "done")
    /\ lost' = IF mouse = <<>> /\ (FromMouse # <<>> => Head(FromMouse).i = 1)
               THEN sent - Len(FromMouse) \div 3
               ELSE Broken
    /\ UNCHANGED <<hw, n>>

SetupPs2 ==
    \/ DisablePorts \/ ReadConfig \/ GetConfig \/ ResetKbd \/ SetScancodeSet
    \/ ResetMouse \/ EnableMouse \/ Unmask
    \/ Flush("flush1", "read_config") /\ UNCHANGED lost
    \/ Test("test_kbd", "poll_kbd", "set_scancodes") \/ Poll("poll_kbd", "test_kbd", "set_scancodes")
    \/ Flush("flush2", "reset_mouse") /\ UNCHANGED lost
    \/ Test("test_mouse", "poll_mouse", "enable_mouse") \/ Poll("poll_mouse", "test_mouse", "enable_mouse")
    \/ Flush("flush3", "unmask") /\ UNCHANGED lost

-----------------------------------------------------------------------------
(* ps2_isr *)

\* The timer, or one of the two lines.  With nothing in the buffer it returns.
Interrupt == ~isr /\ out # None /\ isr' = TRUE /\ UNCHANGED <<hw, at, n, drv, proc, hist>>

Inc(i)   == (i + 1) % Size
Char(k)  == ((k + 128) % 256) - 128        \* conversion to char

\* Mutant: a byte that does not fit moves the head all the same.
PushRawOverwrites(code) ==
    raw' = [raw EXCEPT !.buffer[raw.head] = code, !.head = Inc(raw.head)]

PushRaw(code) ==
    raw' = IF Inc(raw.head) = raw.tail THEN raw
           ELSE [raw EXCEPT !.buffer[raw.head] = code, !.head = Inc(raw.head)]

\* Three bytes make an event; the wheel is in a fourth that is never filled.
Event(b) ==
    [x |-> Char(b[2].val - 256 * Bit(b[1].val, 4)),
     y |-> Char(-Char(b[3].val - 256 * Bit(b[1].val, 5))),
     buttons |-> Bits(b[1].val) \cap {0, 1, 2, 4, 5}]   \* MOUSE_LB, RB, MB, B4, B5

\* Mutant: the index is not reset behind a packet.
PushMouseKeeps(b) ==
    LET buf == Append(mouse, b) IN
    IF Len(buf) >= 3
    THEN /\ events' = IF at = "done" THEN Append(events, Event(buf)) ELSE events
         /\ mouse' = <<b>>
    ELSE mouse' = buf /\ UNCHANGED events

PushMouse(b) ==
    LET buf == Append(mouse, b) IN
    IF Len(buf) = 3
    THEN /\ events' = IF at = "done" THEN Append(events, Event(buf)) ELSE events
         /\ mouse' = <<>>
    ELSE mouse' = buf /\ UNCHANGED events

\* One round of while (status & 1).  A byte of the controller has the status
\* of one of the keyboard.
IsrByte ==
    /\ isr /\ out # None
    /\ Inb
    /\ IF out.from = "mouse"
       THEN PushMouse(out) /\ UNCHANGED raw
       ELSE PushRaw(out.val) /\ UNCHANGED <<mouse, events>>
    /\ UNCHANGED <<wait, enabled, config, streaming, at, n, isr, proc, hist>>

IsrEnd ==
    /\ isr /\ out = None
    /\ isr' = FALSE
    /\ UNCHANGED <<hw, at, n, drv, proc, hist>>

-----------------------------------------------------------------------------
(* ps2KbdDeviceRead for one byte, without a lock *)

Read(from, to) ==
    /\ at = "done" /\ ~isr /\ reader.at = from
    /\ reader' = [reader EXCEPT !.at = to]
    /\ UNCHANGED <<hw, at, n, isr, mouse, events, hist>>

ReadTest ==
    IF raw.head = raw.tail
    THEN Read("test", "test") /\ got' = <<>> /\ UNCHANGED raw
    ELSE Read("test", "byte") /\ UNCHANGED <<got, raw>>

ReadByte ==
    /\ at = "done" /\ ~isr /\ reader.at = "byte"
    /\ reader' = [at |-> "tail", byte |-> raw.buffer[raw.tail]]
    /\ UNCHANGED <<hw, at, n, isr, drv, got, hist>>

ReadTail ==
    /\ Read("tail", "test")
    /\ raw' = [raw EXCEPT !.tail = Inc(@)]
    /\ got' = <<reader.byte>>

Init ==
    /\ wait = [src \in {"ctl", "kbd", "mouse"} |-> <<>>]
    /\ enabled = {"ctl", "kbd"} /\ out = None /\ last = 0
    /\ config = Bits(Config) /\ streaming = FALSE
    /\ at = "disable" /\ n = 0
    /\ isr = FALSE
    /\ raw = [buffer |-> [i \in 0..Size - 1 |-> 0], head |-> 0, tail |-> 0]
    /\ mouse = <<>> /\ events = <<>>
    /\ reader = [at |-> "test", byte |-> 0] /\ got = <<>>
    /\ pressed = 0 /\ sent = 0 /\ lost = 0

Next ==
    \/ \E src \in {"ctl", "kbd", "mouse"} : Send(src)
    \/ \E key \in Keys : Press(key)
    \/ Move
    \/ SetupPs2
    \/ Interrupt \/ IsrByte \/ IsrEnd
    \/ ReadTest \/ ReadByte \/ ReadTail

Spec == Init /\ [][Next]_vars

-----------------------------------------------------------------------------
(* Properties *)

\* setup_ps2 adds 0x43 to the configuration byte and leaves the other bits as
\* they were, even when the timer's ps2_isr takes the byte ps2_read waits for:
\* an empty port repeats its last byte.
ConfigIsKept ==
    at \notin {"disable", "flush1", "read_config", "get_config"} =>
        config = Bits(Config) \cup CONF_BYTE_MASK

\* e is what ps2_isr should make of m.  A char holds -128..127, and y is negated.
Reports(e, m) ==
    /\ e.buttons \cap {0, 1, 2} = Bits(m.buttons)
    /\ m.dx \in -128..127 => e.x = m.dx
    /\ m.dy \in -127..128 => e.y = -m.dy

\* When setup_ps2 ends on the boundary of a packet, handle_mouse_event is
\* called once for every later movement, in order and with its values, although
\* the bytes arrive in any number of interrupts and between those of the keyboard.
MouseIsFollowed ==
    at = "done" /\ lost # Broken =>
        /\ Len(events) <= sent - lost
        /\ \A k \in DOMAIN events : Reports(events[k], Moves[lost + k])
        /\ FromMouse = <<>> => Len(events) = sent - lost

Contents == [k \in 1..((raw.head - raw.tail) % Size) |-> raw.buffer[(raw.tail + k - 1) % Size]]
Raw == INSTANCE KeyQueue WITH
    Items <- Keys \cup {Config, ACK, Pass}, Capacity <- Size - 1, MaxRead <- 1, queue <- Contents, out <- got

\* /dev/ps2/kbd is a queue of 255 scancodes for the one process that reads it,
\* although ps2KbdDeviceRead takes no lock and ps2_isr can run between any two
\* of its steps.
RawIsQueue == Raw!Spec
=============================================================================
