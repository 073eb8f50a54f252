----------------------------- MODULE MCTerminal -----------------------------
(***************************************************************************)
(* One letter key, with and without shift, Enter and Backspace on the      *)
(* keyboard; the serial line sends the other characters too.  "a" starts   *)
(* bash, "A" prints the credits, "aA" panics; "aa", "AA" and "Aa" are no   *)
(* commands.                                                               *)
(***************************************************************************)
EXTENDS Terminal

KeyA == "0x1E"
KeyEnter == "0x1C"
KeyBackspace == "0x0E"
Unmapped == "0x3B"
MCNoShift == [k \in {KeyA, KeyEnter, KeyBackspace} |->
                 CASE k = KeyA -> "a" [] k = KeyEnter -> "LF" [] OTHER -> "BS"]
MCShift == [MCNoShift EXCEPT ![KeyA] = "A"]
MCScancodes == DOMAIN MCNoShift \cup {Prefix, ShiftMake, ShiftBreak, Release, Unmapped}

\* Two states that differ only in characters of the ring that were read already behave alike.
View == <<Contents(kbd), kbd.head, got, shiftPressed, kmain, shellVars, stdinVars,
          IF kmain = "wait" THEN keyPressed ELSE NUL>>

MCBash == <<"a">>
MCCredits == <<"A">>
MCPanic == <<"a", "A">>
=============================================================================
