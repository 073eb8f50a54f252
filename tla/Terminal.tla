------------------------------ MODULE Terminal ------------------------------
(***************************************************************************)
(* The readers of /dev/kbd, one after the other: kmain, which waits for    *)
(* Enter before it starts the threads; the kernel shell (apps/shell.c),    *)
(* which collects a line and runs it as a command; and the processes in    *)
(* sys_do_hacky_stdin (syscalls/misc/stdin.c), which collect a line in one *)
(* buffer they all share.  The interrupts fill the ring of module Keyboard *)
(* at any moment.                                                          *)
(***************************************************************************)
EXTENDS Keyboard

CONSTANTS Letters,      \* the printable characters
          BashLine, CreditsLine, PanicLine,    \* commands, as they are typed
          ShellSize,    \* of typingBuffer; 64 in the code
          LINE_BUF_SIZE,
          Pages,        \* how often CREDITS waits for a key
          Procs,        \* processes that read standard input
          UninitChar    \* what an uninitialised char may hold

Enter     == {"LF", "CR"}
Backspace == {"BS", "DEL"}

ASSUME TerminalAssumption ==
    /\ Letters \subseteq Chars \ (Enter \cup Backspace \cup {NUL, "CTRL"})
    /\ Chars \subseteq Letters \cup Enter \cup Backspace \cup {NUL, "CTRL"}
    /\ MaxRead > 0
    /\ ShellSize \in Nat \ {0} /\ LINE_BUF_SIZE \in Nat \ {0, 1} /\ Pages \in Nat

VARIABLES
    kmain,                         \* "wait" or "started"
    keyPressed,                    \* kmain's
    shell,                         \* "none", "keys", "credits", "asleep" or "panic"
    typingBuffer, typingBufferIndex,
    pagesLeft,
    proc,                          \* Procs -> where it is, its character, count and line_len
    line_buffer, line_len,
    screen,                        \* the characters echoed since the line began
    line                           \* what sys_do_hacky_stdin has copied to the process

kmainVars == <<kmain, keyPressed>>
shellVars == <<shell, typingBuffer, typingBufferIndex, pagesLeft>>
stdinVars == <<proc, line_buffer, line_len, screen, line>>
terminalVars == <<kbdVars, kmainVars, shellVars, stdinVars>>

\* What fs_read("/dev/kbd", &c, 1) leaves in a c that held old.
Read(old)  == IF Pending(kbd) = 0 THEN old ELSE Contents(kbd)[1]
NotCalled  == [at |-> "none", c |-> NUL, count |-> 0, len |-> 0]
EmptyLine  == [i \in 0..ShellSize - 1 |-> NUL]

TerminalInit ==
    /\ KbdInit
    /\ kmain = "wait" /\ keyPressed \in UninitChar
    /\ shell = "none" /\ typingBuffer = EmptyLine /\ typingBufferIndex = 0 /\ pagesLeft = 0
    /\ proc = [p \in Procs |-> NotCalled]
    /\ line_buffer = [i \in 0..LINE_BUF_SIZE - 1 |-> NUL] /\ line_len = 0
    /\ screen = <<>> /\ line = <<>>

\* A key is pressed or released, or a character comes over the serial line.
CharacterArrives ==
    /\ (\E scancode \in Scancodes : ps2_isr(scancode)) \/ (\E c \in Chars : serial_isr(c))
    /\ UNCHANGED <<kmainVars, shellVars, stdinVars>>

\* One turn of kmain's loop.  keyPressed is not initialised and a read of an
\* empty ring leaves it alone.
KmainTurn ==
    /\ kmain = "wait"
    /\ kbdDeviceRead(1)
    /\ keyPressed' = Read(keyPressed)
    /\ kmain' = IF keyPressed' \in Enter THEN "started" ELSE "wait"
    /\ shell' = IF keyPressed' \in Enter THEN "keys" ELSE shell
    /\ UNCHANGED <<typingBuffer, typingBufferIndex, pagesLeft, stdinVars>>

-----------------------------------------------------------------------------
\* The C string in typingBuffer
Typed ==
    LET ends == {i \in 0..ShellSize - 1 : typingBuffer[i] = NUL}
        n    == CHOOSE i \in ends : \A j \in ends : i <= j
    IN  [i \in 1..n |-> typingBuffer[i - 1]]

execute_commands(cmd) ==
    \/ /\ cmd = CreditsLine
       /\ shell' = (IF Pages = 0 THEN "keys" ELSE "credits") /\ pagesLeft' = Pages
       /\ UNCHANGED proc
    \/ /\ cmd = BashLine
       /\ shell' = "asleep"
       /\ proc' = [p \in Procs |-> [proc[p] EXCEPT !.at = "user"]]
       /\ UNCHANGED pagesLeft
    \/ /\ cmd = PanicLine
       /\ shell' = "panic" /\ UNCHANGED <<pagesLeft, proc>>
    \/ /\ cmd \notin {CreditsLine, BashLine, PanicLine}
       /\ UNCHANGED <<shell, pagesLeft, proc>>

\* Mutant: the erased character stays in typingBuffer.
ShellErasesIndexOnly(c) ==
    /\ typingBufferIndex' = IF typingBufferIndex > 0 THEN typingBufferIndex - 1 ELSE 0
    /\ UNCHANGED typingBuffer

\* case '\b' and '\x7F'
ShellErases(c) ==
    IF typingBufferIndex > 0
    THEN /\ typingBufferIndex' = typingBufferIndex - 1
         /\ typingBuffer' = [typingBuffer EXCEPT ![typingBufferIndex - 1] = NUL]
    ELSE UNCHANGED <<typingBuffer, typingBufferIndex>>

\* default
ShellStores(c) ==
    IF c # NUL /\ typingBufferIndex + 1 <= ShellSize - 1
    THEN /\ typingBuffer' = [typingBuffer EXCEPT ![typingBufferIndex] = c]
         /\ typingBufferIndex' = typingBufferIndex + 1
    ELSE UNCHANGED <<typingBuffer, typingBufferIndex>>

\* One turn of start_shell
ShellTurn ==
    LET c == Read(NUL)
    IN  /\ shell = "keys"
        /\ kbdDeviceRead(1)
        /\ \/ c \in Enter /\ execute_commands(Typed)
              /\ typingBuffer' = EmptyLine /\ typingBufferIndex' = 0
           \/ c \in Backspace /\ ShellErases(c) /\ UNCHANGED <<shell, pagesLeft, proc>>
           \/ c \notin Enter \cup Backspace /\ ShellStores(c) /\ UNCHANGED <<shell, pagesLeft, proc>>
        /\ UNCHANGED <<kmainVars, line_buffer, line_len, screen, line>>

\* "Press any key to continute"
CreditsTurn ==
    LET c == Read(NUL)
    IN  /\ shell = "credits"
        /\ kbdDeviceRead(1)
        /\ pagesLeft' = IF c = NUL THEN pagesLeft ELSE pagesLeft - 1
        /\ shell' = IF pagesLeft' = 0 THEN "keys" ELSE "credits"
        /\ UNCHANGED <<kmainVars, typingBuffer, typingBufferIndex, stdinVars>>

-----------------------------------------------------------------------------
\* c and the loaded line_len are dead once the next step is reached.
Goto(p, to) == proc' = [proc EXCEPT ![p] = [@ EXCEPT !.at = to, !.c = NUL, !.len = 0]]

StdinUnchanged == UNCHANGED <<kmainVars, shellVars>>

\* The process asks for count characters.
StdinCall(p, count) ==
    /\ proc[p].at = "user"
    /\ proc' = [proc EXCEPT ![p] = [@ EXCEPT !.at = "read", !.count = count]]
    /\ StdinUnchanged /\ UNCHANGED <<kbdVars, line_buffer, line_len, screen, line>>

\* fs_read; without a character the thread sleeps for a millisecond and tries again.
StdinRead(p) ==
    LET c == Read(NUL)
    IN  /\ proc[p].at = "read"
        /\ kbdDeviceRead(1)
        /\ proc' = [proc EXCEPT ![p] = [@ EXCEPT !.at = IF c = NUL THEN "read" ELSE "char",
                                                 !.c = IF c = "CR" THEN "LF" ELSE c]]
        /\ StdinUnchanged /\ UNCHANGED <<line_buffer, line_len, screen, line>>

\* "\b \b" on the screen
Erased(s) == SubSeq(s, 1, Len(s) - 1)

\* Mutant: '\n' is dropped with the other control characters.
StdinCharDropsEnter(p) ==
    LET c == proc[p].c
    IN  /\ proc[p].at = "char"
        /\ \/ /\ c \in Letters
              /\ screen' = Append(screen, c)
              /\ proc' = [proc EXCEPT ![p] = [@ EXCEPT !.at = "store", !.len = line_len]]
              /\ UNCHANGED line_len
           \/ /\ c \in Backspace
              /\ line_len' = IF line_len > 0 THEN line_len - 1 ELSE 0
              /\ screen' = IF line_len > 0 THEN Erased(screen) ELSE screen
              /\ Goto(p, "read")
           \/ /\ c \in {"CTRL"} \cup Enter
              /\ Goto(p, "read") /\ UNCHANGED <<line_len, screen>>
        /\ StdinUnchanged /\ UNCHANGED <<kbdVars, line_buffer, line>>

\* The tests of c; a character to store is echoed first and line_len is loaded.
StdinChar(p) ==
    LET c == proc[p].c
    IN  /\ proc[p].at = "char"
        /\ \/ /\ c \in Letters \cup Enter
              /\ screen' = IF c \in Letters THEN Append(screen, c) ELSE screen
              /\ proc' = [proc EXCEPT ![p] = [@ EXCEPT !.at = "store", !.len = line_len]]
              /\ UNCHANGED line_len
           \/ /\ c \in Backspace
              /\ line_len' = IF line_len > 0 THEN line_len - 1 ELSE 0
              /\ screen' = IF line_len > 0 THEN Erased(screen) ELSE screen
              /\ Goto(p, "read")
           \/ /\ c = "CTRL"
              /\ Goto(p, "read") /\ UNCHANGED <<line_len, screen>>
        /\ StdinUnchanged /\ UNCHANGED <<kbdVars, line_buffer, line>>

\* Whether a line of n characters is ended for want of room
Full(n) == n >= LINE_BUF_SIZE - 1

\* line_buffer[line_len++] = c, and a line that fills the buffer is ended.
StdinStore(p) ==
    LET c == proc[p].c  n == proc[p].len
    IN  /\ proc[p].at = "store"
        /\ IF c \notin Enter /\ Full(n + 1)
           THEN /\ line_buffer' = [line_buffer EXCEPT ![n] = c, ![n + 1] = "LF"]
                /\ line_len' = n + 2
           ELSE /\ line_buffer' = [line_buffer EXCEPT ![n] = c]
                /\ line_len' = n + 1
        /\ Goto(p, IF c \in Enter \/ Full(n + 1) THEN "copy" ELSE "read")
        /\ StdinUnchanged /\ UNCHANGED <<kbdVars, screen, line>>

\* copy_to_user of at most count characters
StdinCopy(p) ==
    LET n == IF line_len < proc[p].count THEN line_len ELSE proc[p].count
    IN  /\ proc[p].at = "copy"
        /\ line' = [i \in 1..n |-> line_buffer[i - 1]]
        /\ Goto(p, "reset")
        /\ StdinUnchanged /\ UNCHANGED <<kbdVars, line_buffer, line_len, screen>>

\* line_len = 0: what did not fit in count is gone.  The call returns.
StdinReset(p) ==
    /\ proc[p].at = "reset"
    /\ line_len' = 0 /\ screen' = <<>> /\ line' = <<>>
    /\ proc' = [proc EXCEPT ![p] = [NotCalled EXCEPT !.at = "user"]]
    /\ StdinUnchanged /\ UNCHANGED <<kbdVars, line_buffer>>

StdinStep(p) == StdinRead(p) \/ StdinChar(p) \/ StdinStore(p) \/ StdinCopy(p) \/ StdinReset(p)

Panicked == shell = "panic" /\ UNCHANGED terminalVars

TerminalNext ==
    \/ shell # "panic" /\ \/ CharacterArrives
                          \/ KmainTurn \/ ShellTurn \/ CreditsTurn
                          \/ \E p \in Procs, count \in {1, LINE_BUF_SIZE} : StdinCall(p, count)
                          \/ \E p \in Procs : StdinStep(p)
    \/ Panicked

\* The scheduler comes back to every thread that is ready.
Fairness == \A p \in Procs : WF_terminalVars(StdinStep(p))

TerminalSpec == TerminalInit /\ [][TerminalNext]_terminalVars /\ Fairness

-----------------------------------------------------------------------------
\* A process that asks for enough gets the line that is on the screen, every
\* erased character gone, and one '\n' at its end; and sys_do_hacky_stdin never
\* stores outside line_buffer, that '\n' included.  The line the shell hands to
\* execute_commands is terminated and holds nothing of an earlier line: from
\* typingBufferIndex on typingBuffer is all '\0', whatever was typed, erased, run
\* or refused for want of room.
LineIsWhatWasEchoed ==
    /\ typingBufferIndex \in 0..ShellSize - 1
    /\ \A i \in typingBufferIndex..ShellSize - 1 : typingBuffer[i] = NUL
    /\ line_len \in 0..LINE_BUF_SIZE
    /\ \A p \in Procs :
         /\ proc[p].at = "store" => proc[p].len < LINE_BUF_SIZE - 1
         /\ (proc[p].at = "reset" /\ proc[p].count >= line_len) => line = Append(screen, "LF")

\* A process that reads and has an Enter ahead of it gets its line.
LineIsDelivered ==
    \A p \in Procs :
        (proc[p].at = "read" /\ \E i \in 1..Pending(kbd) : Contents(kbd)[i] \in Enter) ~> proc[p].at = "user"
=============================================================================
