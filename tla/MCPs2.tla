------------------------------- MODULE MCPs2 -------------------------------
(***************************************************************************)
(* Movements at both ends of what a char holds and beyond, with and        *)
(* without buttons; a firmware that leaves bits 2 and 5 set.               *)
(***************************************************************************)
EXTENDS Ps2

MCMoves == << [dx |-> -128, dy |-> 128, buttons |-> 5],
              [dx |-> 200, dy |-> -127, buttons |-> 2] >>

\* Behave alike for the properties: two states that differ only in bytes of the
\* ring that were read already, in the last byte while no read can return it, and
\* in what the mouse sent when its packets are out of step.
Sent(b) == IF lost = Broken /\ b.from = "mouse" THEN Byte("mouse", 0, 0) ELSE b
View == << [src \in DOMAIN wait |-> [k \in DOMAIN wait[src] |-> Sent(wait[src][k])]],
           Sent(out), [k \in DOMAIN mouse |-> Sent(mouse[k])],
           IF lost = Broken THEN <<>> ELSE events,
           IF at \in {"get_config", "poll_kbd", "poll_mouse"} /\ out = None /\ wait.ctl = <<>>
           THEN last ELSE 0,
           enabled, config, streaming, at, n, isr, Contents, raw.head, proc, hist >>
=============================================================================
