-------------------------- MODULE InterruptProofs --------------------------
(***************************************************************************)
(* What threads share with the interrupts: the ring of /dev/kbd that the   *)
(* readers of module Terminal empty, and the locks and levels of module    *)
(* Irql.                                                                   *)
(***************************************************************************)
EXTENDS Irql, Terminal, TLAPS

\* Sequences are equal when their elements are.
LEMMA SeqEqual ==
    ASSUME NEW S, NEW s \in Seq(S), NEW t \in Seq(S), Len(s) = Len(t),
           \A i \in 1..Len(s) : s[i] = t[i]
    PROVE  s = t
BY SMT

\* The empty sequence is the one of length 0.
LEMMA EmptySeq ==
    ASSUME NEW S
    PROVE  <<>> \in Seq(S) /\ \A s \in Seq(S) : s # <<>> => Len(s) \in Nat \ {0}
BY SMT

\* The first n elements of a sequence.
LEMMA PrefixSeq ==
    ASSUME NEW S, NEW s \in Seq(S), NEW n \in 0..Len(s)
    PROVE  /\ SubSeq(s, 1, n) \in Seq(S) /\ Len(SubSeq(s, 1, n)) = n
           /\ \A i \in 1..n : SubSeq(s, 1, n)[i] = s[i]
BY SMT

(***************************************************************************)
(* The ring of /dev/kbd implements KeyQueue for every size of the ring,    *)
(* every set of characters and every layout, alone and under the readers   *)
(* of module Terminal.  Indices stay inside the ring, so each remainder is *)
(* its argument, or off by Size.  The lines that the shell and             *)
(* sys_do_hacky_stdin collect are the ones that were typed, whatever the   *)
(* sizes of their buffers, as long as one process reads standard input.    *)
(***************************************************************************)
Indices == 0..Size - 1
Ring    == [buffer : [Indices -> Chars], head : Indices, tail : Indices]

\* The ring has more than one entry.
LEMMA SizeFact == Size \in Nat /\ Size > 1
BY KeyboardAssumption

\* The distance between two indices
LEMMA Distance ==
    ASSUME NEW h \in Indices, NEW t \in Indices
    PROVE  (h - t) % Size = IF h < t THEN h - t + Size ELSE h - t
BY SizeFact DEF Indices

\* The index that lies k further on
LEMMA Further ==
    ASSUME NEW t \in Indices, NEW k \in 0..Size
    PROVE  (t + k) % Size = IF t + k < Size THEN t + k ELSE t + k - Size
BY SizeFact DEF Indices

\* The index of the i-th character from t on
LEMMA Place ==
    ASSUME NEW t \in Indices, NEW i \in 1..Size
    PROVE  (t + i - 1) % Size = IF t + i - 1 < Size THEN t + i - 1 ELSE t + i - 1 - Size
BY SizeFact DEF Indices

\* The scancodes of the keyboard give characters.
LEMMA AsciiIsChar ==
    ASSUME NEW scancode, NEW shift PROVE Ascii(scancode, shift) \in Chars
BY KeyboardAssumption DEF Ascii

\* How many characters are in the ring, and that they are a sequence
LEMMA RingFacts ==
    ASSUME NEW r \in Ring
    PROVE  /\ Pending(r) = IF r.head < r.tail THEN r.head - r.tail + Size ELSE r.head - r.tail
           /\ Pending(r) \in Indices /\ Pending(r) \in Nat
           /\ Contents(r) \in Seq(Chars) /\ Len(Contents(r)) = Pending(r)
           /\ \A i \in 1..Pending(r) : Contents(r)[i] = r.buffer[(r.tail + i - 1) % Size]
<1>1. r.head \in Indices /\ r.tail \in Indices /\ r.buffer \in [Indices -> Chars]
  BY DEF Ring
<1> DEFINE h == r.head
           t == r.tail
           b == r.buffer
           n == Pending(r)
<1>2. n = (h - t) % Size /\ Contents(r) = [i \in 1..n |-> b[(t + i - 1) % Size]]
  BY DEF Pending, Contents
<1> HIDE DEF h, t, b, n
<1>3. h \in Indices /\ t \in Indices /\ b \in [Indices -> Chars]
  BY <1>1 DEF h, t, b
<1>4. n = IF h < t THEN h - t + Size ELSE h - t
  BY <1>2, <1>3, Distance
<1>5. n \in Indices /\ n \in Nat
  BY <1>3, <1>4, SizeFact DEF Indices
<1>6. ASSUME NEW i \in 1..n PROVE b[(t + i - 1) % Size] \in Chars
  <2>1. i \in 1..Size
    BY <1>5, SizeFact DEF Indices
  <2>2. (t + i - 1) % Size \in Indices
    BY <1>3, <2>1, Place, SizeFact DEF Indices
  <2> QED BY <1>3, <2>2
<1>7. Contents(r) \in [1..n -> Chars]
  BY <1>2, <1>6
<1>8. Contents(r) \in Seq(Chars) /\ Len(Contents(r)) = n
  BY <1>5, <1>7
<1> QED BY <1>2, <1>4, <1>5, <1>8 DEF h, t, b, n

\* kbdDevicePush puts a character at the end, unless the ring is full.
LEMMA PushIsPut ==
    ASSUME NEW c \in Chars, kbd \in Ring, kbdDevicePush(c)
    PROVE  kbd' \in Ring /\ Queue!Put(c)
<1> DEFINE h == kbd.head
           t == kbd.tail
           b == kbd.buffer
           n == Pending(kbd)
<1>1. h \in Indices /\ t \in Indices /\ b \in [Indices -> Chars]
  BY DEF Ring
<1>2. Inc(h) = (h + 1) % Size
  BY DEF Inc
<1>3. /\ n = (IF h < t THEN h - t + Size ELSE h - t) /\ n \in Indices /\ n \in Nat
      /\ Contents(kbd) \in Seq(Chars) /\ Len(Contents(kbd)) = n
      /\ \A i \in 1..n : Contents(kbd)[i] = b[(t + i - 1) % Size]
  BY RingFacts
<1>4. kbd' = (IF Inc(h) = t THEN kbd ELSE [kbd EXCEPT !.buffer[h] = c, !.head = Inc(h)])
      /\ UNCHANGED got
  BY DEF kbdDevicePush
<1> HIDE DEF h, t, b, n
<1>5. Inc(h) = IF h + 1 < Size THEN h + 1 ELSE h + 1 - Size
  BY <1>1, <1>2, Further, SizeFact
<1>6. Inc(h) \in Indices
  BY <1>1, <1>5, SizeFact DEF Indices
<1>7. Inc(h) = t <=> n = Size - 1
  BY <1>1, <1>3, <1>5, SizeFact DEF Indices
<1>8. CASE Inc(h) = t
  <2>1. kbd' = kbd /\ ~(n < Size - 1)
    BY <1>4, <1>7, <1>8, SizeFact
  <2> QED BY <1>3, <1>4, <2>1 DEF Queue!Put
<1>9. CASE Inc(h) # t
  <2>1. kbd' \in Ring /\ kbd'.tail = t /\ kbd'.head = Inc(h) /\ kbd'.buffer = [b EXCEPT ![h] = c]
    BY <1>1, <1>4, <1>6, <1>9 DEF Ring, h, t, b
  <2>2. /\ Pending(kbd') = IF Inc(h) < t THEN Inc(h) - t + Size ELSE Inc(h) - t
        /\ Contents(kbd') \in Seq(Chars) /\ Len(Contents(kbd')) = Pending(kbd')
        /\ \A i \in 1..Pending(kbd') :
             Contents(kbd')[i] = [b EXCEPT ![h] = c][(t + i - 1) % Size]
    BY <2>1, RingFacts
  <2>3. Pending(kbd') = n + 1 /\ n < Size - 1
    BY <1>1, <1>3, <1>5, <1>7, <1>9, <2>2, SizeFact DEF Indices
  <2>4. ASSUME NEW i \in 1..n + 1
        PROVE  Contents(kbd')[i] = Append(Contents(kbd), c)[i]
    <3>1. i \in 1..Size /\ i \in Nat
      BY <1>3, <2>3, SizeFact DEF Indices
    <3>2. (t + i - 1) % Size = IF t + i - 1 < Size THEN t + i - 1 ELSE t + i - 1 - Size
      BY <1>1, <3>1, Place
    <3>3. (t + i - 1) % Size \in Indices /\ ((t + i - 1) % Size = h <=> i = n + 1)
      <4> DEFINE x == (t + i - 1) % Size
      <4>1. x = IF t + i - 1 < Size THEN t + i - 1 ELSE t + i - 1 - Size
        BY <3>2
      <4> HIDE DEF x
      <4>2. x \in Indices
        BY <1>1, <3>1, <4>1, SizeFact DEF Indices
      <4>3. x = h <=> i = n + 1
        BY <1>1, <1>3, <2>3, <3>1, <4>1, SizeFact DEF Indices
      <4> QED BY <4>2, <4>3 DEF x
    <3>4. CASE i = n + 1
      <4>1. Append(Contents(kbd), c)[i] = c
        BY <1>3, <3>4
      <4>2. Contents(kbd')[i] = [b EXCEPT ![h] = c][(t + i - 1) % Size]
        BY <2>2, <2>3
      <4>3. (t + i - 1) % Size = h /\ h \in Indices
        BY <1>1, <3>3, <3>4
      <4>4. [b EXCEPT ![h] = c][h] = c
        BY <1>1
      <4> QED BY <4>1, <4>2, <4>3, <4>4
    <3>5. CASE i # n + 1
      <4>1. i \in 1..n
        BY <1>3, <3>5
      <4>2. Contents(kbd')[i] = b[(t + i - 1) % Size]
        <5>1. Contents(kbd')[i] = [b EXCEPT ![h] = c][(t + i - 1) % Size]
          BY <2>2, <2>3
        <5>2. (t + i - 1) % Size \in Indices /\ (t + i - 1) % Size # h
          BY <3>3, <3>5
        <5>3. \A x \in Indices : x # h => [b EXCEPT ![h] = c][x] = b[x]
          BY <1>1
        <5> QED BY <5>1, <5>2, <5>3, Zenon
      <4> QED BY <1>3, <4>1, <4>2
    <3> QED BY <3>4, <3>5
  <2>5. /\ Contents(kbd') \in Seq(Chars) /\ Append(Contents(kbd), c) \in Seq(Chars)
        /\ Len(Contents(kbd')) = n + 1 /\ Len(Append(Contents(kbd), c)) = n + 1
    BY <1>3, <2>2, <2>3
  <2>6. Contents(kbd') = Append(Contents(kbd), c)
    BY <2>4, <2>5, SeqEqual
  <2> QED BY <1>3, <1>4, <2>1, <2>3, <2>6 DEF Queue!Put
<1> QED BY <1>8, <1>9

\* kbdDeviceRead takes characters from the front.
LEMMA ReadIsGet ==
    ASSUME NEW length \in Nat, kbd \in Ring, kbdDeviceRead(length)
    PROVE  kbd' \in Ring /\ Queue!Get(length)
<1> DEFINE h == kbd.head
           t == kbd.tail
           b == kbd.buffer
           n == Pending(kbd)
           k == IF length < n THEN length ELSE n
           u == (t + k) % Size
<1>1. h \in Indices /\ t \in Indices /\ b \in [Indices -> Chars]
  BY DEF Ring
<1>2. /\ n = (IF h < t THEN h - t + Size ELSE h - t) /\ n \in Indices /\ n \in Nat
      /\ Contents(kbd) \in Seq(Chars) /\ Len(Contents(kbd)) = n
      /\ \A i \in 1..n : Contents(kbd)[i] = b[(t + i - 1) % Size]
  BY RingFacts
<1>3. kbd' = [kbd EXCEPT !.tail = u] /\ got' = SubSeq(Contents(kbd), 1, k)
  BY DEF kbdDeviceRead
<1> HIDE DEF h, t, b, n
<1>4. k \in 0..n
  BY <1>2
<1> HIDE DEF k
<1>5. u = IF t + k < Size THEN t + k ELSE t + k - Size
  <2>1. k \in 0..Size
    BY <1>2, <1>4, SizeFact DEF Indices
  <2> QED BY <1>1, <2>1, Further
<1> HIDE DEF u
<1>6. u \in Indices
  BY <1>1, <1>2, <1>4, <1>5, SizeFact DEF Indices
<1>7. kbd' \in Ring /\ kbd'.tail = u /\ kbd'.head = h /\ kbd'.buffer = b
  BY <1>1, <1>3, <1>6 DEF Ring, h, b
<1>8. /\ Pending(kbd') = IF h < u THEN h - u + Size ELSE h - u
      /\ Contents(kbd') \in Seq(Chars) /\ Len(Contents(kbd')) = Pending(kbd')
      /\ \A i \in 1..Pending(kbd') : Contents(kbd')[i] = b[(u + i - 1) % Size]
  BY <1>7, RingFacts
<1>9. Pending(kbd') = n - k
  BY <1>1, <1>2, <1>4, <1>5, <1>8, SizeFact DEF Indices
<1>10. ASSUME NEW i \in 1..n - k
       PROVE  Contents(kbd')[i] = Contents(kbd)[k + i]
  <2>1. i \in 1..Size /\ k + i \in 1..Size /\ k + i \in 1..n
    BY <1>2, <1>4, SizeFact DEF Indices
  <2>2. (u + i - 1) % Size = (t + (k + i) - 1) % Size
    <3>1. (u + i - 1) % Size = IF u + i - 1 < Size THEN u + i - 1 ELSE u + i - 1 - Size
      BY <1>6, <2>1, Place
    <3> DEFINE j == k + i
    <3> HIDE DEF j
    <3>2. (t + j - 1) % Size = IF t + j - 1 < Size THEN t + j - 1 ELSE t + j - 1 - Size
      BY <1>1, <2>1, Place DEF j
    <3> QED BY <1>1, <1>2, <1>4, <1>5, <3>1, <3>2, SizeFact DEF Indices, j
  <2> QED BY <1>2, <1>8, <1>9, <2>1, <2>2
<1>11. Contents(kbd') = SubSeq(Contents(kbd), k + 1, Len(Contents(kbd)))
  <2> DEFINE rest == SubSeq(Contents(kbd), k + 1, Len(Contents(kbd)))
  <2>1. rest \in Seq(Chars) /\ Len(rest) = n - k /\ \A i \in 1..n - k : rest[i] = Contents(kbd)[k + i]
    BY <1>2, <1>4
  <2> QED BY <1>8, <1>9, <1>10, <2>1, SeqEqual
<1> QED BY <1>2, <1>3, <1>7, <1>11 DEF Queue!Get, k

\* The ring starts empty.
LEMMA RingInit == ASSUME KbdInit PROVE kbd \in Ring /\ Queue!Init
<1>1. kbd \in Ring /\ kbd.head = kbd.tail
  BY KeyboardAssumption DEF KbdInit, Ring, Indices
<1>2. Len(Contents(kbd)) = 0 /\ Contents(kbd) \in Seq(Chars)
  BY <1>1, RingFacts, SizeFact DEF Ring, Indices
<1>3. Contents(kbd) = <<>>
  BY <1>2
<1> QED BY <1>1, <1>3 DEF KbdInit, Queue!Init

\* /dev/kbd is a queue for every Size, see Keyboard.
THEOREM KbdRefinement == KbdSpec => KbdIsQueue
<1>1. KbdInit => kbd \in Ring /\ Queue!Init
  BY RingInit
<1>2. kbd \in Ring /\ [KbdNext]_kbdVars => (kbd \in Ring)' /\ [Queue!Next]_<<Contents(kbd), got>>
  <2> SUFFICES ASSUME kbd \in Ring, [KbdNext]_kbdVars
               PROVE  (kbd \in Ring)' /\ [Queue!Next]_<<Contents(kbd), got>>
    OBVIOUS
  <2>1. CASE UNCHANGED <<kbd, got>>
    BY <2>1 DEF Ring, Contents, Pending
  <2>2. ASSUME NEW scancode \in Scancodes, ps2_isr(scancode)
        PROVE  (kbd \in Ring)' /\ [Queue!Next]_<<Contents(kbd), got>>
    <3>1. UNCHANGED <<kbd, got>> \/ kbdDevicePush(Ascii(scancode, shiftPressed))
      BY <2>2 DEF ps2_isr, kbdVars
    <3> QED BY <2>1, <3>1, AsciiIsChar, PushIsPut DEF Queue!Next
  <2>3. ASSUME NEW c \in Chars, serial_isr(c)
        PROVE  (kbd \in Ring)' /\ [Queue!Next]_<<Contents(kbd), got>>
    BY <2>3, PushIsPut DEF serial_isr, Queue!Next
  <2>4. ASSUME NEW n \in 1..MaxRead, kbdDeviceRead(n)
        PROVE  (kbd \in Ring)' /\ [Queue!Next]_<<Contents(kbd), got>>
    <3>1. n \in Nat
      BY SizeFact
    <3> QED BY <2>4, <3>1, ReadIsGet DEF Queue!Next
  <2> QED BY <2>1, <2>2, <2>3, <2>4 DEF KbdNext, kbdVars
<1> QED BY <1>1, <1>2, PTL DEF KbdSpec, KbdIsQueue, Queue!Spec

-----------------------------------------------------------------------------
\* What a reader of one character finds
LEMMA ReadIsChar ==
    ASSUME kbd \in Ring PROVE Read(NUL) \in Chars
<1>1. Pending(kbd) \in Nat /\ Contents(kbd) \in Seq(Chars) /\ Len(Contents(kbd)) = Pending(kbd)
  BY RingFacts
<1>2. CASE Pending(kbd) = 0
  BY <1>2, KeyboardAssumption DEF Read
<1>3. CASE Pending(kbd) # 0
  <2>1. Contents(kbd)[1] \in Chars
    BY <1>1, <1>3
  <2> QED BY <1>3, <2>1 DEF Read
<1> QED BY <1>2, <1>3

\* The interrupts, kmain, the shell and the processes do nothing to the ring but put
\* a character in or read one.
LEMMA RingStep ==
    ASSUME kbd \in Ring, [TerminalNext]_terminalVars
    PROVE  (kbd \in Ring)' /\ [Queue!Next]_<<Contents(kbd), got>>
<1>1. CASE UNCHANGED <<kbd, got>>
  BY <1>1 DEF Ring, Contents, Pending
<1>2. ASSUME NEW scancode \in Scancodes, ps2_isr(scancode)
      PROVE  (kbd \in Ring)' /\ [Queue!Next]_<<Contents(kbd), got>>
  <2>1. UNCHANGED <<kbd, got>> \/ kbdDevicePush(Ascii(scancode, shiftPressed))
    BY <1>2 DEF ps2_isr, kbdVars
  <2> QED BY <1>1, <2>1, AsciiIsChar, PushIsPut DEF Queue!Next
<1>3. ASSUME NEW c \in Chars, serial_isr(c)
      PROVE  (kbd \in Ring)' /\ [Queue!Next]_<<Contents(kbd), got>>
  BY <1>3, PushIsPut DEF serial_isr, Queue!Next
<1>4. CASE kbdDeviceRead(1)
  <2>1. 1 \in 1..MaxRead
    BY TerminalAssumption, KeyboardAssumption
  <2> QED BY <1>4, <2>1, ReadIsGet DEF Queue!Next
<1>5. \/ UNCHANGED <<kbd, got>>
      \/ \E scancode \in Scancodes : ps2_isr(scancode)
      \/ \E c \in Chars : serial_isr(c)
      \/ kbdDeviceRead(1)
  BY DEF TerminalNext, terminalVars, kbdVars, CharacterArrives, KmainTurn, ShellTurn, CreditsTurn, StdinCall, StdinStep,
         StdinRead, StdinChar, StdinStore, StdinCopy, StdinReset, Panicked
<1> QED BY <1>1, <1>2, <1>3, <1>4, <1>5

\* /dev/kbd is a queue for the interrupts and for every reader of it, see Keyboard.
THEOREM TerminalRefinement == TerminalSpec => KbdIsQueue
<1>1. TerminalInit => kbd \in Ring /\ Queue!Init
  BY RingInit DEF TerminalInit
<1>2. kbd \in Ring /\ [TerminalNext]_terminalVars => (kbd \in Ring)' /\ [Queue!Next]_<<Contents(kbd), got>>
  BY RingStep
<1> QED BY <1>1, <1>2, PTL DEF TerminalSpec, KbdIsQueue, Queue!Spec

-----------------------------------------------------------------------------
\* From typingBufferIndex on typingBuffer is '\0'.
ShellInv ==
    /\ typingBuffer \in [0..ShellSize - 1 -> Chars]
    /\ typingBufferIndex \in 0..ShellSize - 1
    /\ \A i \in typingBufferIndex..ShellSize - 1 : typingBuffer[i] = NUL

\* An Enter empties typingBuffer, a Backspace clears the place it steps back to and a
\* character goes to a place that is not the last.
LEMMA ShellStep ==
    ASSUME ShellInv, kbd \in Ring, [TerminalNext]_terminalVars PROVE ShellInv'
<1> DEFINE b == typingBuffer
           k == typingBufferIndex
           c == Read(NUL)
<1>1. ShellSize \in Nat /\ ShellSize > 0 /\ NUL \in Chars /\ c \in Chars
  BY TerminalAssumption, KeyboardAssumption, ReadIsChar
<1>2. CASE UNCHANGED <<typingBuffer, typingBufferIndex>>
  BY <1>2 DEF ShellInv
<1>3. CASE typingBuffer' = EmptyLine /\ typingBufferIndex' = 0
  BY <1>1, <1>3 DEF ShellInv, EmptyLine
<1>4. CASE ShellErases(c)
  <2>1. CASE k > 0
    <3>1. k - 1 \in 0..ShellSize - 1 /\ k' = k - 1 /\ b' = [b EXCEPT ![k - 1] = NUL]
      BY <1>1, <1>4, <2>1 DEF ShellInv, ShellErases
    <3>2. b' \in [0..ShellSize - 1 -> Chars]
      BY <1>1, <3>1 DEF ShellInv
    <3>3. ASSUME NEW i \in k'..ShellSize - 1 PROVE b'[i] = NUL
      <4>1. i \in 0..ShellSize - 1 /\ (i = k - 1 \/ i \in k..ShellSize - 1)
        BY <1>1, <3>1 DEF ShellInv
      <4> QED BY <3>1, <4>1 DEF ShellInv
    <3> QED BY <3>1, <3>2, <3>3 DEF ShellInv
  <2>2. CASE ~(k > 0)
    BY <1>2, <1>4, <2>2 DEF ShellErases
  <2> QED BY <2>1, <2>2
<1>5. CASE ShellStores(c)
  <2>1. CASE c # NUL /\ k + 1 <= ShellSize - 1
    <3>1. k + 1 \in 0..ShellSize - 1 /\ k' = k + 1 /\ b' = [b EXCEPT ![k] = c]
      BY <1>1, <1>5, <2>1 DEF ShellInv, ShellStores
    <3>2. b' \in [0..ShellSize - 1 -> Chars]
      BY <1>1, <3>1 DEF ShellInv
    <3>3. ASSUME NEW i \in k'..ShellSize - 1 PROVE b'[i] = NUL
      <4>1. i \in 0..ShellSize - 1 /\ i # k /\ i \in k..ShellSize - 1
        BY <1>1, <3>1 DEF ShellInv
      <4> QED BY <3>1, <4>1 DEF ShellInv
    <3> QED BY <3>1, <3>2, <3>3 DEF ShellInv
  <2>2. CASE ~(c # NUL /\ k + 1 <= ShellSize - 1)
    BY <1>2, <1>5, <2>2 DEF ShellStores
  <2> QED BY <2>1, <2>2
<1>6. \/ UNCHANGED <<typingBuffer, typingBufferIndex>>
      \/ typingBuffer' = EmptyLine /\ typingBufferIndex' = 0
      \/ ShellErases(c)
      \/ ShellStores(c)
  BY DEF TerminalNext, terminalVars, shellVars, CharacterArrives, KmainTurn, ShellTurn, CreditsTurn, StdinUnchanged, StdinCall,
         StdinStep, StdinRead, StdinChar, StdinStore, StdinCopy, StdinReset, Panicked
<1> QED BY <1>2, <1>3, <1>4, <1>5, <1>6

-----------------------------------------------------------------------------
Steps  == {"none", "user", "read", "char", "store", "copy", "reset"}
Bytes  == Chars \cup {"LF"}
Reader == [at : Steps, c : Bytes, count : Nat, len : Nat]

\* The n characters on the screen are the first n of line_buffer.
Echoed(n) == Len(screen) = n /\ \A i \in 1..n : line_buffer[i - 1] = screen[i]

\* line_buffer holds the line of the screen with its '\n'.
Ended == /\ line_len \in 1..LINE_BUF_SIZE /\ Echoed(line_len - 1)
         /\ line_buffer[line_len - 1] = "LF"

\* Where the reader p is, and what that says of line_buffer and the screen: the character
\* about to be stored is on the screen already, unless it is the '\n'.
ReaderInv(p) ==
    /\ proc[p].at \in {"none", "user"} => line_len = 0 /\ screen = <<>>
    /\ proc[p].at \in {"read", "char"} => line_len < LINE_BUF_SIZE - 1 /\ Echoed(line_len)
    /\ proc[p].at = "char" => proc[p].c # "CR"
    /\ proc[p].at = "store" =>
         /\ line_len < LINE_BUF_SIZE - 1 /\ proc[p].len = line_len
         /\ \/ proc[p].c = "LF" /\ Echoed(line_len)
            \/ /\ proc[p].c \in Letters
               /\ Len(screen) = line_len + 1 /\ screen[line_len + 1] = proc[p].c
               /\ \A i \in 1..line_len : line_buffer[i - 1] = screen[i]
    /\ proc[p].at = "copy" => Ended
    /\ proc[p].at = "reset" =>
         Ended /\ (proc[p].count >= line_len => line = [i \in 1..line_len |-> line_buffer[i - 1]])

StdinTypes ==
    /\ line_len \in 0..LINE_BUF_SIZE
    /\ line_buffer \in [0..LINE_BUF_SIZE - 1 -> Bytes]
    /\ screen \in Seq(Letters)
    /\ proc \in [Procs -> Reader]

\* No process runs before the shell has started one.
StdinInv ==
    /\ StdinTypes
    /\ shell # "asleep" => \A p \in Procs : proc[p].at = "none"
    /\ \A p \in Procs : ReaderInv(p)

OneReader == \A p, q \in Procs : p = q

\* The constants, and that no printable character is a control character
LEMMA SizesFact ==
    /\ LINE_BUF_SIZE \in Nat /\ LINE_BUF_SIZE > 1 /\ NUL \in Chars
    /\ Letters \subseteq Chars /\ "LF" \notin Letters /\ "CR" \notin Letters
    /\ Letters \cap Backspace = {} /\ "CTRL" \notin Letters /\ NUL \notin Letters
BY TerminalAssumption, KeyboardAssumption DEF Enter, Backspace

\* Nobody reads standard input yet.
LEMMA StdinInit == ASSUME TerminalInit PROVE StdinInv
<1>1. StdinTypes
  BY SizesFact DEF TerminalInit, StdinTypes, Bytes, Reader, Steps, NotCalled
<1>2. \A p \in Procs : proc[p].at = "none"
  BY DEF TerminalInit, NotCalled
<1> QED BY <1>1, <1>2 DEF TerminalInit, StdinInv, ReaderInv

\* sys_do_hacky_stdin is called with an empty line.
LEMMA CallStep ==
    ASSUME StdinInv, OneReader, NEW p \in Procs, NEW count \in {1, LINE_BUF_SIZE}, StdinCall(p, count)
    PROVE  StdinInv'
<1>1. /\ proc[p].at = "user" /\ UNCHANGED <<shell, line_buffer, line_len, screen, line>>
      /\ proc' = [proc EXCEPT ![p] = [@ EXCEPT !.at = "read", !.count = count]]
  BY DEF StdinCall, StdinUnchanged, shellVars
<1>2. proc[p] \in Reader /\ line_len = 0 /\ screen = <<>> /\ shell = "asleep"
  BY <1>1 DEF StdinInv, StdinTypes, ReaderInv
<1>3. proc' \in [Procs -> Reader] /\ proc'[p].at = "read"
  <2> DEFINE r == [proc[p] EXCEPT !.at = "read", !.count = count]
  <2>1. r \in Reader /\ r.at = "read"
    <3>1. count \in Nat /\ "read" \in Steps
      BY SizesFact DEF Steps
    <3> QED BY <1>2, <3>1 DEF Reader
  <2>2. proc' = [proc EXCEPT ![p] = r] /\ proc \in [Procs -> Reader]
    BY <1>1 DEF StdinInv, StdinTypes
  <2> HIDE DEF r
  <2> QED BY <2>1, <2>2
<1>4. Echoed(line_len)'
  BY <1>1, <1>2 DEF Echoed
<1>5. ReaderInv(p)'
  BY <1>1, <1>2, <1>3, <1>4, SizesFact DEF ReaderInv
<1> QED BY <1>1, <1>2, <1>3, <1>5 DEF StdinInv, StdinTypes, OneReader

\* fs_read and the test for no character change neither line_buffer nor the screen.
LEMMA ReadStep ==
    ASSUME StdinInv, OneReader, kbd \in Ring, NEW p \in Procs, StdinRead(p)
    PROVE  StdinInv'
<1> DEFINE c == Read(NUL)
           d == IF c = "CR" THEN "LF" ELSE c
           at == IF c = NUL THEN "read" ELSE "char"
<1>1. /\ proc[p].at = "read" /\ UNCHANGED <<shell, line_buffer, line_len, screen, line>>
      /\ proc' = [proc EXCEPT ![p] = [@ EXCEPT !.at = at, !.c = d]]
  BY DEF StdinRead, StdinUnchanged, shellVars
<1>2. proc[p] \in Reader /\ line_len < LINE_BUF_SIZE - 1 /\ Echoed(line_len) /\ shell = "asleep"
  BY <1>1 DEF StdinInv, StdinTypes, ReaderInv
<1>3. d \in Bytes /\ d # "CR" /\ at \in {"read", "char"}
  BY ReadIsChar DEF Bytes
<1> HIDE DEF c, d, at
<1>4. proc' \in [Procs -> Reader] /\ proc'[p].at \in {"read", "char"} /\ proc'[p].c # "CR"
  <2> DEFINE r == [proc[p] EXCEPT !.at = at, !.c = d]
  <2>1. r \in Reader /\ r.at = at /\ r.c = d
    BY <1>2, <1>3 DEF Reader, Steps
  <2>2. proc' = [proc EXCEPT ![p] = r] /\ proc \in [Procs -> Reader]
    BY <1>1 DEF StdinInv, StdinTypes
  <2> HIDE DEF r
  <2> QED BY <1>3, <2>1, <2>2
<1>5. Echoed(line_len)'
  BY <1>1, <1>2 DEF Echoed
<1>6. ReaderInv(p)'
  BY <1>1, <1>2, <1>4, <1>5 DEF ReaderInv
<1> QED BY <1>1, <1>2, <1>4, <1>6 DEF StdinInv, StdinTypes, OneReader

\* Goto leaves count alone.
LEMMA GotoFact ==
    ASSUME proc \in [Procs -> Reader], NEW p \in Procs, NEW to \in Steps, Goto(p, to)
    PROVE  /\ proc' \in [Procs -> Reader]
           /\ proc'[p].at = to /\ proc'[p].count = proc[p].count
<1>1. proc[p] \in Reader /\ NUL \in Bytes /\ 0 \in Nat
  BY SizesFact DEF Bytes
<1> DEFINE r == [proc[p] EXCEPT !.at = to, !.c = NUL, !.len = 0]
<1>2. r \in Reader /\ r.at = to /\ r.count = proc[p].count
  BY <1>1 DEF Reader
<1>3. proc' = [proc EXCEPT ![p] = r]
  BY DEF Goto
<1> HIDE DEF r
<1> QED BY <1>2, <1>3

\* A printable character is echoed, a Backspace takes one away on both sides.
LEMMA CharStep ==
    ASSUME StdinInv, OneReader, NEW p \in Procs, StdinChar(p)
    PROVE  StdinInv'
<1> DEFINE c == proc[p].c
<1>1. proc[p].at = "char" /\ UNCHANGED <<shell, line_buffer, line>>
  BY DEF StdinChar, StdinUnchanged, shellVars
<1>2. /\ proc[p] \in Reader /\ proc \in [Procs -> Reader]
      /\ line_len \in Nat /\ line_len < LINE_BUF_SIZE - 1 /\ Echoed(line_len) /\ shell = "asleep"
      /\ screen \in Seq(Letters) /\ line_buffer \in [0..LINE_BUF_SIZE - 1 -> Bytes]
  BY <1>1, SizesFact DEF StdinInv, StdinTypes, ReaderInv
<1>3. CASE /\ c \in Letters \cup Enter
           /\ screen' = (IF c \in Letters THEN Append(screen, c) ELSE screen)
           /\ proc' = [proc EXCEPT ![p] = [@ EXCEPT !.at = "store", !.len = line_len]]
           /\ UNCHANGED line_len
  <2> DEFINE r == [proc[p] EXCEPT !.at = "store", !.len = line_len]
  <2>1. r \in Reader /\ r.at = "store" /\ r.len = line_len /\ r.c = c
    BY <1>2 DEF Reader, Steps
  <2>2. proc' = [proc EXCEPT ![p] = r]
    BY <1>3
  <2> HIDE DEF r
  <2>3. /\ proc' \in [Procs -> Reader] /\ proc'[p].at = "store"
        /\ proc'[p].len = line_len /\ proc'[p].c = c
    BY <1>2, <2>1, <2>2
  <2>4. c \in Bytes /\ (c \in Letters \/ c = "LF")
    <3>1. c \in Letters \/ c = "LF" \/ c = "CR"
      BY <1>3 DEF Enter
    <3>2. c # "CR"
      BY <1>1 DEF StdinInv, ReaderInv
    <3> QED BY <1>2, <3>1, <3>2 DEF Reader
  <2>5. CASE c \in Letters
    <3>1. screen' = Append(screen, c)
      BY <1>3, <2>5
    <3>2. /\ screen' \in Seq(Letters) /\ Len(screen') = line_len + 1 /\ screen'[line_len + 1] = c
          /\ \A i \in 1..line_len : line_buffer[i - 1] = screen'[i]
      BY <1>2, <2>5, <3>1 DEF Echoed
    <3>3. ReaderInv(p)'
      BY <1>1, <1>2, <1>3, <2>3, <2>5, <3>2 DEF ReaderInv
    <3> QED BY <1>1, <1>2, <1>3, <2>3, <3>2, <3>3, SizesFact DEF StdinInv, StdinTypes, OneReader
  <2>6. CASE c = "LF"
    <3>1. screen' = screen /\ Echoed(line_len)'
      BY <1>1, <1>2, <1>3, <2>6, SizesFact DEF Echoed
    <3>2. ReaderInv(p)'
      BY <1>1, <1>2, <1>3, <2>3, <2>6, <3>1 DEF ReaderInv
    <3> QED BY <1>1, <1>2, <1>3, <2>3, <3>1, <3>2, SizesFact DEF StdinInv, StdinTypes, OneReader
  <2> QED BY <2>4, <2>5, <2>6
<1>4. ASSUME Goto(p, "read"), line_len' \in Nat, line_len' <= line_len, screen' \in Seq(Letters), Echoed(line_len)'
      PROVE  StdinInv'
  <2>1. proc' \in [Procs -> Reader] /\ proc'[p].at = "read"
    BY <1>2, <1>4, GotoFact DEF Steps
  <2>2. line_len' < LINE_BUF_SIZE - 1 /\ line_len' \in 0..LINE_BUF_SIZE
    BY <1>2, <1>4, SizesFact
  <2>3. ReaderInv(p)'
    BY <1>4, <2>1, <2>2 DEF ReaderInv
  <2> QED BY <1>1, <1>2, <1>4, <2>1, <2>2, <2>3 DEF StdinInv, StdinTypes, OneReader
<1>5. CASE /\ line_len' = (IF line_len > 0 THEN line_len - 1 ELSE 0)
           /\ screen' = (IF line_len > 0 THEN Erased(screen) ELSE screen)
           /\ Goto(p, "read")
  <2>1. CASE line_len > 0
    <3>1. /\ Erased(screen) \in Seq(Letters) /\ Len(Erased(screen)) = line_len - 1
          /\ \A i \in 1..line_len - 1 : Erased(screen)[i] = screen[i]
      BY <1>2, <2>1 DEF Erased, Echoed
    <3>2. screen' = Erased(screen) /\ line_len' = line_len - 1
      BY <1>5, <2>1
    <3> HIDE DEF c
    <3>3. Echoed(line_len)'
      <4>1. \A i \in 1..line_len - 1 : i \in 1..line_len
        BY <1>2
      <4>2. \A i \in 1..line_len - 1 : line_buffer[i - 1] = Erased(screen)[i]
        BY <1>2, <3>1, <4>1 DEF Echoed
      <4>3. line_buffer' = line_buffer
        BY <1>1
      <4> QED BY <3>1, <3>2, <4>2, <4>3 DEF Echoed
    <3> QED BY <1>2, <1>4, <1>5, <2>1, <3>1, <3>2, <3>3
  <2>2. CASE ~(line_len > 0)
    <3>1. screen' = screen /\ line_len' = line_len
      BY <1>2, <1>5, <2>2
    <3>2. Echoed(line_len)'
      BY <1>1, <1>2, <3>1 DEF Echoed
    <3> QED BY <1>2, <1>4, <1>5, <3>1, <3>2
  <2> QED BY <2>1, <2>2
<1>6. CASE Goto(p, "read") /\ UNCHANGED <<line_len, screen>>
  <2>1. Echoed(line_len)'
    BY <1>1, <1>2, <1>6 DEF Echoed
  <2> QED BY <1>2, <1>4, <1>6, <2>1
<1> QED BY <1>3, <1>5, <1>6 DEF StdinChar

\* The echoed character, or the '\n', is stored; a line that fills the buffer gets its '\n'.
LEMMA StoreStep ==
    ASSUME StdinInv, OneReader, NEW p \in Procs, StdinStore(p)
    PROVE  StdinInv'
<1> DEFINE c == proc[p].c
           n == proc[p].len
           ends == c \in Enter \/ Full(n + 1)
<1>1. /\ proc[p].at = "store" /\ UNCHANGED <<shell, screen, line>>
      /\ Goto(p, IF ends THEN "copy" ELSE "read")
      /\ IF c \notin Enter /\ Full(n + 1)
         THEN line_buffer' = [line_buffer EXCEPT ![n] = c, ![n + 1] = "LF"] /\ line_len' = n + 2
         ELSE line_buffer' = [line_buffer EXCEPT ![n] = c] /\ line_len' = n + 1
  BY DEF StdinStore, StdinUnchanged, shellVars
<1>2. /\ proc[p] \in Reader /\ proc \in [Procs -> Reader] /\ shell = "asleep"
      /\ n \in Nat /\ n < LINE_BUF_SIZE - 1 /\ c \in Bytes
      /\ screen \in Seq(Letters) /\ line_buffer \in [0..LINE_BUF_SIZE - 1 -> Bytes]
      /\ \A i \in 1..n : line_buffer[i - 1] = screen[i]
      /\ \/ c = "LF" /\ Len(screen) = n
         \/ c \in Letters /\ Len(screen) = n + 1 /\ screen[n + 1] = c
  BY <1>1, SizesFact DEF StdinInv, StdinTypes, ReaderInv, Reader, Echoed
<1>3. /\ proc' \in [Procs -> Reader]
      /\ proc'[p].at = IF ends THEN "copy" ELSE "read"
  BY <1>1, <1>2, GotoFact DEF Steps
<1>4. Full(n + 1) <=> n + 1 >= LINE_BUF_SIZE - 1
  BY DEF Full
<1>5. c \in Enter <=> c = "LF"
  BY <1>2, SizesFact DEF Enter
<1>6. n \in 0..LINE_BUF_SIZE - 1 /\ n + 1 \in 0..LINE_BUF_SIZE - 1 /\ n # n + 1 /\ "LF" \in Bytes
  BY <1>2, SizesFact DEF Bytes
<1> HIDE DEF c, n
<1>7. CASE c \notin Enter /\ Full(n + 1)
  <2>1. line_buffer' = [line_buffer EXCEPT ![n] = c, ![n + 1] = "LF"] /\ line_len' = n + 2
    BY <1>1, <1>7
  <2>2. /\ line_buffer' \in [0..LINE_BUF_SIZE - 1 -> Bytes]
        /\ line_buffer'[n + 1] = "LF" /\ line_buffer'[n] = c
        /\ \A i \in 1..n : line_buffer'[i - 1] = line_buffer[i - 1]
    <3>1. \A i \in 1..n : i - 1 \in 0..LINE_BUF_SIZE - 1 /\ i - 1 # n /\ i - 1 # n + 1
      BY <1>2, SizesFact
    <3> DEFINE m == n + 1
               B == 0..LINE_BUF_SIZE - 1
    <3>2. /\ line_buffer' = [line_buffer EXCEPT ![n] = c, ![m] = "LF"] /\ line_buffer \in [B -> Bytes]
          /\ n \in B /\ m \in B /\ n # m /\ c \in Bytes /\ "LF" \in Bytes
      BY <1>2, <1>6, <2>1
    <3> HIDE DEF m, B
    <3>3. /\ line_buffer' \in [B -> Bytes] /\ line_buffer'[m] = "LF" /\ line_buffer'[n] = c
          /\ \A j \in B : j # n /\ j # m => line_buffer'[j] = line_buffer[j]
      BY <3>2
    <3> QED BY <3>1, <3>3 DEF m, B
  <2>3. line_len' \in 1..LINE_BUF_SIZE /\ line_len' \in 0..LINE_BUF_SIZE /\ line_len' - 1 = n + 1
    BY <1>2, <2>1, SizesFact
  <2>4. \A i \in 1..n + 1 : line_buffer'[i - 1] = screen[i]
    <3> TAKE i \in 1..n + 1
    <3>1. i \in 1..n \/ (i = n + 1 /\ i - 1 = n)
      BY <1>2
    <3> QED BY <1>2, <1>5, <1>7, <2>2, <3>1
  <2>5. Ended'
    BY <1>1, <1>2, <1>5, <1>7, <2>2, <2>3, <2>4 DEF Ended, Echoed
  <2>6. ReaderInv(p)'
    BY <1>3, <1>7, <2>5 DEF ReaderInv
  <2> QED BY <1>1, <1>2, <1>3, <2>2, <2>3, <2>6 DEF StdinInv, StdinTypes, OneReader
<1>8. CASE ~(c \notin Enter /\ Full(n + 1))
  <2>1. line_buffer' = [line_buffer EXCEPT ![n] = c] /\ line_len' = n + 1
    BY <1>1, <1>8
  <2>2. /\ line_buffer' \in [0..LINE_BUF_SIZE - 1 -> Bytes] /\ line_buffer'[n] = c
        /\ \A i \in 1..n : line_buffer'[i - 1] = line_buffer[i - 1]
    BY <1>2, <1>6, <2>1
  <2>3. line_len' \in 1..LINE_BUF_SIZE /\ line_len' \in 0..LINE_BUF_SIZE /\ line_len' - 1 = n
    BY <1>2, <2>1, SizesFact
  <2>4. CASE c \in Enter
    <3>1. Ended'
      BY <1>1, <1>2, <1>5, <2>2, <2>3, <2>4, SizesFact DEF Ended, Echoed
    <3>2. ReaderInv(p)'
      BY <1>3, <2>4, <3>1 DEF ReaderInv
    <3> QED BY <1>1, <1>2, <1>3, <2>2, <2>3, <3>2 DEF StdinInv, StdinTypes, OneReader
  <2>5. CASE c \notin Enter
    <3>1. proc'[p].at = "read" /\ line_len' < LINE_BUF_SIZE - 1
      BY <1>2, <1>3, <1>4, <1>8, <2>1, <2>5, SizesFact
    <3>2. \A i \in 1..n + 1 : line_buffer'[i - 1] = screen[i]
      <4> TAKE i \in 1..n + 1
      <4>1. i \in 1..n \/ (i = n + 1 /\ i - 1 = n)
        BY <1>2
      <4> QED BY <1>2, <1>5, <2>2, <2>5, <4>1
    <3>3. Echoed(line_len)'
      BY <1>1, <1>2, <1>5, <2>1, <2>5, <3>2 DEF Echoed
    <3>4. ReaderInv(p)'
      BY <3>1, <3>3 DEF ReaderInv
    <3> QED BY <1>1, <1>2, <1>3, <2>2, <2>3, <3>4 DEF StdinInv, StdinTypes, OneReader
  <2> QED BY <2>4, <2>5
<1> QED BY <1>7, <1>8

\* The whole line is copied if count allows.
LEMMA CopyStep ==
    ASSUME StdinInv, OneReader, NEW p \in Procs, StdinCopy(p)
    PROVE  StdinInv'
<1> DEFINE n == IF line_len < proc[p].count THEN line_len ELSE proc[p].count
<1>1. /\ proc[p].at = "copy" /\ UNCHANGED <<shell, line_buffer, line_len, screen>>
      /\ Goto(p, "reset") /\ line' = [i \in 1..n |-> line_buffer[i - 1]]
  BY DEF StdinCopy, StdinUnchanged, shellVars
<1>2. /\ proc[p] \in Reader /\ proc \in [Procs -> Reader] /\ shell = "asleep" /\ Ended
  BY <1>1 DEF StdinInv, StdinTypes, ReaderInv
<1>3. /\ proc' \in [Procs -> Reader]
      /\ proc'[p].at = "reset" /\ proc'[p].count = proc[p].count
  BY <1>1, <1>2, GotoFact DEF Steps
<1>4. proc[p].count >= line_len => n = line_len
  BY <1>2, SizesFact DEF Reader, Ended
<1> HIDE DEF n
<1>5. Ended'
  BY <1>1, <1>2 DEF Ended, Echoed
<1>6. proc'[p].count >= line_len' => line' = [i \in 1..line_len' |-> line_buffer'[i - 1]]
  BY <1>1, <1>3, <1>4
<1>7. ReaderInv(p)'
  BY <1>3, <1>5, <1>6 DEF ReaderInv
<1> QED BY <1>1, <1>2, <1>3, <1>7 DEF StdinInv, StdinTypes, OneReader

\* The next line starts empty.
LEMMA ResetStep ==
    ASSUME StdinInv, OneReader, NEW p \in Procs, StdinReset(p)
    PROVE  StdinInv'
<1> DEFINE r == [NotCalled EXCEPT !.at = "user"]
<1>1. /\ proc[p].at = "reset" /\ UNCHANGED <<shell, line_buffer>>
      /\ line_len' = 0 /\ screen' = <<>> /\ proc' = [proc EXCEPT ![p] = r]
  BY DEF StdinReset, StdinUnchanged, shellVars
<1>2. proc \in [Procs -> Reader] /\ shell = "asleep"
  BY <1>1 DEF StdinInv, StdinTypes
<1>3. r \in Reader /\ r.at = "user"
  BY SizesFact DEF NotCalled, Reader, Steps, Bytes
<1> HIDE DEF r
<1>4. proc' \in [Procs -> Reader] /\ proc'[p].at = "user"
  BY <1>1, <1>2, <1>3
<1>5. ReaderInv(p)'
  BY <1>1, <1>4 DEF ReaderInv
<1>6. 0 \in 0..LINE_BUF_SIZE /\ <<>> \in Seq(Letters)
  BY SizesFact
<1> QED BY <1>1, <1>2, <1>4, <1>5, <1>6 DEF StdinInv, StdinTypes, OneReader

\* There is no shell until kmain has seen Enter.
StartInv == kmain = "wait" => shell = "none"

\* Only kmain starts the shell.
LEMMA StartStep == ASSUME StartInv, [TerminalNext]_terminalVars PROVE StartInv'
BY DEF StartInv, TerminalNext, terminalVars, kmainVars, shellVars, CharacterArrives, KmainTurn, ShellTurn, CreditsTurn,
       StdinUnchanged, StdinCall, StdinStep, StdinRead, StdinChar, StdinStore, StdinCopy, StdinReset, Panicked

\* The shell starts the process before anyone has typed to it, and sleeps from then on.
LEMMA OtherStep ==
    ASSUME StdinInv, StartInv, CharacterArrives \/ KmainTurn \/ ShellTurn \/ CreditsTurn \/ UNCHANGED terminalVars
    PROVE  StdinInv'
<1>1. UNCHANGED <<line_buffer, line_len, screen, line>>
  BY DEF CharacterArrives, KmainTurn, ShellTurn, CreditsTurn, terminalVars, stdinVars
<1>2. CASE UNCHANGED proc /\ (shell = "asleep" => shell' = "asleep")
  <2>1. StdinTypes'
    BY <1>1, <1>2 DEF StdinInv, StdinTypes
  <2>2. \A p \in Procs : ReaderInv(p)'
    BY <1>1, <1>2 DEF StdinInv, ReaderInv, Echoed, Ended
  <2>3. shell' # "asleep" => \A p \in Procs : proc'[p].at = "none"
    BY <1>2 DEF StdinInv
  <2> QED BY <2>1, <2>2, <2>3 DEF StdinInv
<1>3. CASE /\ shell = "keys" /\ shell' = "asleep"
           /\ proc' = [p \in Procs |-> [proc[p] EXCEPT !.at = "user"]]
  <2>1. \A p \in Procs : proc[p] \in Reader /\ proc[p].at = "none"
    BY <1>3 DEF StdinInv, StdinTypes
  <2>2. ASSUME NEW p \in Procs
        PROVE  proc'[p] \in Reader /\ proc'[p].at = "user" /\ line_len = 0 /\ screen = <<>>
    <3>1. proc'[p] = [proc[p] EXCEPT !.at = "user"]
      BY <1>3
    <3>2. ReaderInv(p)
      BY DEF StdinInv
    <3> QED BY <2>1, <3>1, <3>2 DEF Reader, Steps, ReaderInv
  <2>3. proc' \in [Procs -> Reader]
    BY <1>3, <2>2
  <2>4. \A p \in Procs : ReaderInv(p)'
    BY <1>1, <2>2 DEF ReaderInv
  <2> QED BY <1>1, <1>3, <2>3, <2>4 DEF StdinInv, StdinTypes
<1>4. CharacterArrives => UNCHANGED <<proc, shell>>
  BY DEF CharacterArrives, shellVars, stdinVars
<1>5. KmainTurn => UNCHANGED proc /\ shell = "none"
  BY DEF KmainTurn, stdinVars, StartInv
<1>6. CreditsTurn => UNCHANGED proc /\ shell = "credits"
  BY DEF CreditsTurn, stdinVars
<1>7. ShellTurn => \/ UNCHANGED proc /\ shell = "keys"
                   \/ /\ shell = "keys" /\ shell' = "asleep"
                      /\ proc' = [p \in Procs |-> [proc[p] EXCEPT !.at = "user"]]
  BY DEF ShellTurn, execute_commands
<1>8. UNCHANGED terminalVars => UNCHANGED <<proc, shell>>
  BY DEF terminalVars, shellVars, stdinVars
<1> QED BY <1>2, <1>3, <1>4, <1>5, <1>6, <1>7, <1>8

-----------------------------------------------------------------------------
TerminalInv == kbd \in Ring /\ ShellInv /\ StartInv /\ StdinInv

\* The invariant of the ring, the shell and standard input holds at first,
LEMMA TerminalInvInit == ASSUME TerminalInit PROVE TerminalInv
<1>1. kbd \in Ring
  BY RingInit DEF TerminalInit
<1>2. ShellInv
  BY KeyboardAssumption, TerminalAssumption DEF TerminalInit, ShellInv, EmptyLine
<1>3. StartInv
  BY DEF TerminalInit, StartInv
<1> QED BY <1>1, <1>2, <1>3, StdinInit DEF TerminalInv

\* is kept by every step, if one process reads,
LEMMA TerminalInvStep == ASSUME TerminalInv, OneReader, [TerminalNext]_terminalVars PROVE TerminalInv'
<1>1. kbd \in Ring /\ ShellInv /\ StartInv /\ StdinInv
  BY DEF TerminalInv
<1>2. (kbd \in Ring)'
  BY <1>1, RingStep
<1>3. ShellInv' /\ StartInv'
  BY <1>1, ShellStep, StartStep
<1>4. StdinInv'
  <2>1. CASE CharacterArrives \/ KmainTurn \/ ShellTurn \/ CreditsTurn \/ UNCHANGED terminalVars
    BY <1>1, <2>1, OtherStep
  <2>2. ASSUME NEW p \in Procs, NEW count \in {1, LINE_BUF_SIZE}, StdinCall(p, count) PROVE StdinInv'
    BY <1>1, <2>2, CallStep
  <2>3. ASSUME NEW p \in Procs, StdinStep(p) PROVE StdinInv'
    BY <1>1, <2>3, ReadStep, CharStep, StoreStep, CopyStep, ResetStep DEF StdinStep
  <2> QED BY <2>1, <2>2, <2>3 DEF TerminalNext, Panicked
<1> QED BY <1>2, <1>3, <1>4 DEF TerminalInv

\* and implies what the run checks.
LEMMA TerminalInvImplies == ASSUME TerminalInv PROVE LineIsWhatWasEchoed
<1>1. ShellInv /\ StdinTypes /\ \A p \in Procs : ReaderInv(p)
  BY DEF TerminalInv, StdinInv
<1>2. ASSUME NEW p \in Procs, proc[p].at = "store" PROVE proc[p].len < LINE_BUF_SIZE - 1
  BY <1>1, <1>2 DEF ReaderInv
<1>3. ASSUME NEW p \in Procs, proc[p].at = "reset", proc[p].count >= line_len
      PROVE  line = Append(screen, "LF")
  <2>1. Ended /\ line = [i \in 1..line_len |-> line_buffer[i - 1]]
    BY <1>1, <1>3 DEF ReaderInv
  <2>2. /\ line_len \in Nat /\ line_len > 0 /\ line_len <= LINE_BUF_SIZE
        /\ screen \in Seq(Letters) /\ Len(screen) = line_len - 1
        /\ \A i \in 1..line_len - 1 : line_buffer[i - 1] = screen[i]
        /\ line_buffer[line_len - 1] = "LF" /\ line_buffer \in [0..LINE_BUF_SIZE - 1 -> Bytes]
    BY <1>1, <2>1, SizesFact DEF Ended, Echoed, StdinTypes
  <2>3. line \in Seq(Bytes) /\ Len(line) = line_len
    <3>1. \A i \in 1..line_len : i - 1 \in 0..LINE_BUF_SIZE - 1
      BY <2>2, SizesFact
    <3>2. line \in [1..line_len -> Bytes]
      BY <2>1, <2>2, <3>1
    <3> QED BY <2>2, <3>2
  <2>4. screen \in Seq(Bytes) /\ "LF" \in Bytes
    <3>1. \A i \in 1..Len(screen) : screen[i] \in Bytes
      BY <2>2, SizesFact DEF Bytes
    <3> QED BY <2>2, <3>1 DEF Bytes
  <2>5. Append(screen, "LF") \in Seq(Bytes) /\ Len(Append(screen, "LF")) = line_len
    BY <2>2, <2>4
  <2>6. ASSUME NEW i \in 1..line_len PROVE line[i] = Append(screen, "LF")[i]
    <3>1. line[i] = line_buffer[i - 1]
      BY <2>1
    <3>2. CASE i = line_len
      BY <2>2, <2>4, <3>1, <3>2
    <3>3. CASE i # line_len
      <4>1. i \in 1..line_len - 1
        BY <2>2, <3>3
      <4> QED BY <2>2, <2>4, <3>1, <4>1
    <3> QED BY <3>2, <3>3
  <2> QED BY <2>3, <2>5, <2>6, SeqEqual
<1> QED BY <1>1, <1>2, <1>3 DEF LineIsWhatWasEchoed, ShellInv, StdinTypes

\* The line that reaches a process is the one on the screen, and the shell runs nothing of
\* an earlier line, for buffers and rings of any size; see Terminal.  line_buffer is one for
\* all processes, so there has to be one that reads.
THEOREM LineEchoed == ASSUME OneReader PROVE TerminalSpec => []LineIsWhatWasEchoed
<1>1. TerminalInit => TerminalInv
  BY TerminalInvInit
<1>2. TerminalInv /\ [TerminalNext]_terminalVars => TerminalInv'
  BY TerminalInvStep
<1>3. TerminalInv => LineIsWhatWasEchoed
  BY TerminalInvImplies
<1> QED BY <1>1, <1>2, <1>3, PTL DEF TerminalSpec

-----------------------------------------------------------------------------
(***************************************************************************)
(* The spinlocks of module Irql for any threads, locks, vectors and depth  *)
(* of nesting, and any garbage in an uninitialised level.                  *)
(*                                                                         *)
(* Why nobody spins: the locks held are frames of the thread that runs.    *)
(* What lies above the first of them is another lock, taken at a level of  *)
(* at least IRQL_DISPATCH, or a handler of a class above it; and such a    *)
(* handler takes no lock, for spinlock_lock would panic.  schedule() is    *)
(* entered only where no lock is below.                                    *)
(***************************************************************************)
FrameSet == [kind : {"lock", "isr", "call"}, of : Locks \cup 0..255, irql : Int,
             at : {"spin", "held", "handler", "handled", "schedule", "lower", "iret"}]

\* A handler above IRQL_DISPATCH
High(f) == f.kind = "isr" /\ NewIrql(f.of) > IRQL_DISPATCH

\* What a frame may be; a handler that calls schedule() or lowers the level is not High.
FrameOK(f) ==
    /\ f.kind = "lock" => f.of \in Locks /\ f.at \in {"spin", "held"}
    /\ f.kind = "isr"  => f.of \in 0..255 /\ f.at \notin {"spin", "held"}
    /\ f.kind = "call" => f.at \in {"schedule", "lower"}
    /\ f.kind = "isr" /\ f.at \in {"schedule", "lower"} => ~High(f)

TypeInv ==
    /\ cr8 \in Int
    /\ flag \in [Locks -> BOOLEAN]
    /\ current \in Threads
    /\ stack \in [Threads -> Seq(FrameSet)]
    /\ irq_should_preempt \in BOOLEAN
    /\ vectors \in Machines

FramesOK == \A t \in Threads : \A i \in 1..Len(stack[t]) : FrameOK(stack[t][i])

Clean(s) == \A i \in 1..Len(s) : s[i].kind # "lock" /\ ~High(s[i])

\* A stack s at level c: above a lock there are locks, all different, taken at
\* IRQL_DISPATCH, and High handlers; above a High handler others; both keep the
\* level up; and the scheduler's lock is on top of a call of schedule().
Protected(s, c) ==
    /\ \A i, j \in 1..Len(s) :
         i < j /\ s[i].kind = "lock" =>
             \/ High(s[j])
             \/ s[j].kind = "lock" /\ s[j].of \notin {Sched, s[i].of} /\ s[j].irql >= IRQL_DISPATCH
    /\ \A i, j \in 1..Len(s) : i < j /\ High(s[i]) => High(s[j])
    /\ \A i \in 1..Len(s) : s[i].kind = "lock" => c >= IRQL_DISPATCH
    /\ \A i \in 1..Len(s) : High(s[i]) => c > IRQL_DISPATCH
    /\ \A i \in 1..Len(s) :
         s[i].kind = "lock" /\ s[i].of = Sched =>
             i > 1 /\ s[i - 1].kind \in {"isr", "call"} /\ s[i - 1].at = "schedule"

\* A lock that is taken is held by a frame of s.
Accounted(s, taken) ==
    \A l \in Locks : taken[l] =>
        \E i \in 1..Len(s) : s[i].kind = "lock" /\ s[i].at = "held" /\ s[i].of = l

LockInv ==
    /\ \A t \in Threads \ {current} : Clean(stack[t])
    /\ Protected(stack[current], cr8)
    /\ Accounted(stack[current], flag)

IInv == TypeInv /\ FramesOK /\ LockInv
-----------------------------------------------------------------------------
(* Stacks *)

\* most leaves are first-order; those with arithmetic or sequences cite SMT
USE Zenon

\* What Push, Pop and Go do to the frames of a stack
LEMMA Pushed ==
    ASSUME NEW s \in Seq(FrameSet), NEW f \in FrameSet
    PROVE  LET r == Append(s, f)
           IN  /\ r \in Seq(FrameSet) /\ Len(r) = Len(s) + 1 /\ Len(s) \in Nat
               /\ \A i \in 1..Len(s) : r[i] = s[i]
               /\ r[Len(s) + 1] = f
BY SMT

\* A stack without its top frame.
LEMMA Popped ==
    ASSUME NEW s \in Seq(FrameSet), s # <<>>
    PROVE  LET r == Front(s)
           IN  /\ r \in Seq(FrameSet) /\ Len(r) = Len(s) - 1 /\ Len(s) \in Nat \ {0}
               /\ \A i \in 1..Len(s) - 1 : r[i] = s[i]
               /\ Last(s) = s[Len(s)] /\ Last(s) \in FrameSet
<1>1. Len(s) \in Nat \ {0}
  BY EmptySeq
<1>2. \A i \in 1..Len(s) : s[i] \in FrameSet
  BY SMT
<1>3. /\ Front(s) \in Seq(FrameSet) /\ Len(Front(s)) = Len(s) - 1
      /\ \A i \in 1..Len(s) - 1 : Front(s)[i] = s[i]
  <2>1. Front(s) = SubSeq(s, 1, Len(s) - 1)
    BY DEF Front
  <2> DEFINE n == Len(s) - 1
  <2>2. n \in Nat /\ \A i \in 1..n : s[i] \in FrameSet
    BY <1>1, <1>2, SMT
  <2> HIDE DEF n
  <2>3. n \in 0..Len(s)
    BY <1>1, SMT DEF n
  <2>4. /\ SubSeq(s, 1, n) \in Seq(FrameSet) /\ Len(SubSeq(s, 1, n)) = n
        /\ \A i \in 1..n : SubSeq(s, 1, n)[i] = s[i]
    BY <2>3, PrefixSeq
  <2> QED BY <2>1, <2>4 DEF n
<1>4. Last(s) = s[Len(s)] /\ Last(s) \in FrameSet
  BY <1>1, <1>2, SMT DEF Last
<1> QED BY <1>1, <1>3, <1>4

\* A stack whose top frame is replaced.
LEMMA Replaced ==
    ASSUME NEW s \in Seq(FrameSet), s # <<>>, NEW f \in FrameSet
    PROVE  LET r == Append(Front(s), f)
           IN  /\ r \in Seq(FrameSet) /\ Len(r) = Len(s) /\ Len(s) \in Nat \ {0}
               /\ \A i \in 1..Len(s) - 1 : r[i] = s[i]
               /\ r[Len(s)] = f
<1>1. /\ Front(s) \in Seq(FrameSet) /\ Len(Front(s)) = Len(s) - 1 /\ Len(s) \in Nat \ {0}
      /\ \A i \in 1..Len(s) - 1 : Front(s)[i] = s[i]
  BY Popped
<1> QED BY <1>1, Pushed, SMT

\* The class of a vector
LEMMA Class ==
    ASSUME NEW v \in 0..255 PROVE NewIrql(v) = v \div 16 /\ NewIrql(v) \in 0..15
BY SMT DEF NewIrql

\* A Clean stack is Protected at every level.
LEMMA CleanIsProtected ==
    ASSUME NEW s, NEW c, Clean(s) PROVE Protected(s, c)
BY DEF Clean, Protected

\* Below a frame that is neither a lock nor High there is neither.
LEMMA CleanBelow ==
    ASSUME NEW s \in Seq(FrameSet), NEW c, Protected(s, c), s # <<>>,
           Last(s).kind # "lock", ~High(Last(s))
    PROVE  Clean(s)
<1>1. Len(s) \in Nat \ {0} /\ Last(s) = s[Len(s)]
  BY Popped
<1> QED BY <1>1, SMT DEF Protected, Clean

\* spinlock_lock on top of s
LEMMA LockOnTop ==
    ASSUME NEW s \in Seq(FrameSet), NEW c \in Int, Protected(s, c), c <= IRQL_DISPATCH,
           NEW f \in FrameSet, f.kind = "lock", f.irql = c, f.of # Sched,
           \A i \in 1..Len(s) : s[i].kind = "lock" => s[i].of # f.of
    PROVE  Protected(Append(s, f), IRQL_DISPATCH)
<1> DEFINE r == Append(s, f)
           n == Len(s)
<1>1. /\ Len(r) = n + 1 /\ n \in Nat
      /\ \A i \in 1..n : r[i] = s[i]
      /\ r[n + 1] = f
  BY Pushed
<1>2. ~High(f) /\ \A i \in 1..n : ~High(s[i])
  BY SMT DEF Protected, High, IRQL_DISPATCH
<1> HIDE DEF r, n
<1>3. \A i \in 1..n + 1 : i \in 1..n \/ i = n + 1
  BY <1>1, SMT
<1>4. \A i, j \in 1..n + 1 :
        i < j /\ r[i].kind = "lock" =>
            r[j].kind = "lock" /\ r[j].of \notin {Sched, r[i].of} /\ r[j].irql >= IRQL_DISPATCH
  BY <1>1, <1>2, <1>3, SMT DEF Protected, n
<1>5. \A i \in 1..n + 1 : ~High(r[i])
  BY <1>1, <1>2, <1>3
<1>6. \A i \in 1..n + 1 :
        r[i].kind = "lock" /\ r[i].of = Sched =>
            i > 1 /\ r[i - 1].kind \in {"isr", "call"} /\ r[i - 1].at = "schedule"
  <2> SUFFICES ASSUME NEW i \in 1..n + 1, r[i].kind = "lock", r[i].of = Sched
               PROVE  i > 1 /\ r[i - 1].kind \in {"isr", "call"} /\ r[i - 1].at = "schedule"
    OBVIOUS
  <2>1. i \in 1..n
    BY <1>1, <1>3
  <2>2. i > 1 /\ s[i - 1].kind \in {"isr", "call"} /\ s[i - 1].at = "schedule"
    BY <1>1, <2>1 DEF Protected, n
  <2>3. i - 1 \in 1..n
    BY ONLY <1>1, <2>1, <2>2, SMT
  <2> QED BY <1>1, <2>2, <2>3
<1>7. IRQL_DISPATCH >= IRQL_DISPATCH
  BY SMT DEF IRQL_DISPATCH
<1>8. Protected(r, IRQL_DISPATCH)
  BY ONLY <1>1, <1>4, <1>5, <1>6, <1>7, Zenon DEF Protected
<1> QED BY <1>8 DEF r

\* schedule() on top of s
LEMMA SchedOnTop ==
    ASSUME NEW s \in Seq(FrameSet), Clean(s), s # <<>>, NEW f \in FrameSet, f.kind = "lock",
           Last(s).kind \in {"isr", "call"}, Last(s).at = "schedule"
    PROVE  Protected(Append(s, f), IRQL_DISPATCH)
<1> DEFINE r == Append(s, f)
           n == Len(s)
<1>1. /\ Len(r) = n + 1 /\ n \in Nat \ {0}
      /\ \A i \in 1..n : r[i] = s[i]
      /\ r[n + 1] = f /\ Last(s) = s[n]
  BY Pushed, Popped
<1>2. ~High(f) /\ \A i \in 1..n : s[i].kind # "lock" /\ ~High(s[i])
  BY DEF Clean, High
<1> HIDE DEF r, n
<1>3. \A i \in 1..n + 1 : i \in 1..n \/ i = n + 1
  BY <1>1, SMT
<1> QED BY <1>1, <1>2, <1>3, SMT DEF Protected, r, IRQL_DISPATCH

\* A handler on top of s
LEMMA HandlerOnTop ==
    ASSUME NEW s \in Seq(FrameSet), NEW c \in Int, Protected(s, c),
           NEW d \in Int, NEW f \in FrameSet, f.kind # "lock",
           Clean(s) \/ High(f), High(f) => d > IRQL_DISPATCH
    PROVE  Protected(Append(s, f), d)
<1> DEFINE r == Append(s, f)
           n == Len(s)
<1>1. /\ Len(r) = n + 1 /\ n \in Nat
      /\ \A i \in 1..n : r[i] = s[i]
      /\ r[n + 1] = f
  BY Pushed
<1>2. CASE Clean(s) /\ ~High(f)
  <2>1. \A i \in 1..n : s[i].kind # "lock" /\ ~High(s[i])
    BY <1>2 DEF Clean
  <2> HIDE DEF r, n
  <2>2. \A i \in 1..Len(r) : r[i].kind # "lock" /\ ~High(r[i])
    BY <1>1, <1>2, <2>1, SMT
  <2> QED BY <2>2 DEF Protected, r
<1>3. CASE High(f)
  <2> HIDE DEF r, n
  <2>1. \A i \in 1..n + 1 : i \in 1..n \/ i = n + 1
    BY <1>1, SMT
  <2>2. \A i, j \in 1..n + 1 :
          i < j /\ r[i].kind = "lock" =>
             \/ High(r[j])
             \/ r[j].kind = "lock" /\ r[j].of \notin {Sched, r[i].of} /\ r[j].irql >= IRQL_DISPATCH
    BY <1>1, <1>3, <2>1 DEF Protected, n
  <2>3. \A i, j \in 1..n + 1 : i < j /\ High(r[i]) => High(r[j])
    BY <1>1, <1>3, <2>1, SMT DEF Protected, n
  <2>4. \A i \in 1..n + 1 :
          r[i].kind = "lock" /\ r[i].of = Sched =>
              i > 1 /\ r[i - 1].kind \in {"isr", "call"} /\ r[i - 1].at = "schedule"
    <3> SUFFICES ASSUME NEW i \in 1..n + 1, r[i].kind = "lock", r[i].of = Sched
                 PROVE  i > 1 /\ r[i - 1].kind \in {"isr", "call"} /\ r[i - 1].at = "schedule"
      OBVIOUS
    <3>1. i \in 1..n
      BY <1>1, <2>1
    <3>2. i > 1 /\ s[i - 1].kind \in {"isr", "call"} /\ s[i - 1].at = "schedule"
      BY <1>1, <3>1 DEF Protected, n
    <3>3. i - 1 \in 1..n
      BY ONLY <1>1, <3>1, <3>2, SMT
    <3> QED BY <1>1, <3>2, <3>3
  <2>5. d > IRQL_DISPATCH /\ d >= IRQL_DISPATCH
    BY <1>3, SMT DEF IRQL_DISPATCH
  <2>6. Protected(r, d)
    BY ONLY <1>1, <2>2, <2>3, <2>4, <2>5, Zenon DEF Protected
  <2> QED BY <2>6 DEF r
<1> QED BY <1>2, <1>3

\* The top frame goes: a lock gives its level back, another leaves it.
LEMMA Unstacked ==
    ASSUME NEW s \in Seq(FrameSet), s # <<>>, NEW c \in Int, Protected(s, c), NEW d \in Int,
           \/ Last(s).kind = "lock" /\ d = Last(s).irql
           \/ Last(s).kind # "lock" /\ d = c
    PROVE  Protected(Front(s), d)
<1> DEFINE r == Front(s)
           n == Len(s)
<1>1. /\ Len(r) = n - 1 /\ n \in Nat \ {0}
      /\ \A i \in 1..n - 1 : r[i] = s[i]
      /\ Last(s) = s[n]
  BY Zenon, Popped
<1> HIDE DEF r, n
<1>2. \A i \in 1..n - 1 : i \in 1..n /\ i < n /\ n \in 1..n
  BY <1>1, SMT
<1>3. \A i \in 1..n - 1 : /\ s[i].kind = "lock" => d >= IRQL_DISPATCH
                          /\ High(s[i]) => d > IRQL_DISPATCH
  <2> SUFFICES ASSUME NEW i \in 1..n - 1
               PROVE  /\ s[i].kind = "lock" => d >= IRQL_DISPATCH
                      /\ High(s[i]) => d > IRQL_DISPATCH
    OBVIOUS
  <2>1. i \in 1..n /\ i < n /\ n \in 1..n
    BY <1>2
  <2>2. CASE Last(s).kind # "lock" /\ d = c
    BY <2>1, <2>2 DEF Protected, n
  <2>3. CASE Last(s).kind = "lock" /\ d = Last(s).irql
    <3>1. ~High(s[n])
      BY <1>1, <2>3 DEF High
    <3>2. s[i].kind = "lock" => s[n].irql >= IRQL_DISPATCH
      BY <2>1, <3>1 DEF Protected, n
    <3>3. ~High(s[i])
      BY <2>1, <3>1 DEF Protected, n
    <3> QED BY <1>1, <2>3, <3>2, <3>3
  <2> QED BY <2>2, <2>3
<1>4. \A i \in 1..n - 1 :
        r[i].kind = "lock" /\ r[i].of = Sched =>
            i > 1 /\ r[i - 1].kind \in {"isr", "call"} /\ r[i - 1].at = "schedule"
  <2> SUFFICES ASSUME NEW i \in 1..n - 1, r[i].kind = "lock", r[i].of = Sched
               PROVE  i > 1 /\ r[i - 1].kind \in {"isr", "call"} /\ r[i - 1].at = "schedule"
    OBVIOUS
  <2>1. i > 1 /\ s[i - 1].kind \in {"isr", "call"} /\ s[i - 1].at = "schedule"
    BY <1>1, <1>2 DEF Protected, n
  <2>2. i - 1 \in 1..n - 1
    BY <1>1, <2>1, SMT
  <2> QED BY <1>1, <2>1, <2>2
<1>5. \A i, j \in 1..n - 1 :
        /\ i < j /\ r[i].kind = "lock" =>
             \/ High(r[j])
             \/ r[j].kind = "lock" /\ r[j].of \notin {Sched, r[i].of} /\ r[j].irql >= IRQL_DISPATCH
        /\ i < j /\ High(r[i]) => High(r[j])
  BY <1>1, <1>2 DEF Protected, n
<1>6. \A i \in 1..n - 1 : /\ r[i].kind = "lock" => d >= IRQL_DISPATCH
                          /\ High(r[i]) => d > IRQL_DISPATCH
  BY <1>1, <1>3, Zenon
<1>7. Protected(r, d)
  BY ONLY <1>1, <1>4, <1>5, <1>6, Zenon DEF Protected
<1> QED BY <1>7 DEF r

\* The top frame goes on to another place in the code.
LEMMA Relabelled ==
    ASSUME NEW s \in Seq(FrameSet), s # <<>>, NEW c \in Int, Protected(s, c), NEW f \in FrameSet,
           f.kind = Last(s).kind, f.of = Last(s).of, f.irql = Last(s).irql
    PROVE  Protected(Append(Front(s), f), c)
<1> DEFINE r == Append(Front(s), f)
           n == Len(s)
<1>1. /\ Len(r) = n /\ n \in Nat \ {0}
      /\ \A i \in 1..n - 1 : r[i] = s[i]
      /\ r[n] = f /\ Last(s) = s[n]
  BY Replaced, Popped
<1> HIDE DEF r, n
<1>2. \A i \in 1..n : i \in 1..n - 1 \/ i = n
  BY <1>1, SMT
<1>3. \A i \in 1..n : /\ r[i].kind = s[i].kind /\ r[i].of = s[i].of /\ r[i].irql = s[i].irql
                      /\ High(r[i]) <=> High(s[i])
  BY <1>1, <1>2 DEF High
<1>4. \A i \in 1..n :
        r[i].kind = "lock" /\ r[i].of = Sched =>
            i > 1 /\ r[i - 1].kind \in {"isr", "call"} /\ r[i - 1].at = "schedule"
  <2> SUFFICES ASSUME NEW i \in 1..n, r[i].kind = "lock", r[i].of = Sched
               PROVE  i > 1 /\ r[i - 1].kind \in {"isr", "call"} /\ r[i - 1].at = "schedule"
    OBVIOUS
  <2>1. i > 1 /\ s[i - 1].kind \in {"isr", "call"} /\ s[i - 1].at = "schedule"
    BY <1>1, <1>3 DEF Protected, n
  <2>2. i - 1 \in 1..n - 1
    BY <1>1, <2>1, SMT
  <2> QED BY <1>1, <2>1, <2>2
<1>5. \A i, j \in 1..n :
        i < j /\ r[i].kind = "lock" =>
            \/ High(r[j])
            \/ r[j].kind = "lock" /\ r[j].of \notin {Sched, r[i].of} /\ r[j].irql >= IRQL_DISPATCH
  <2> SUFFICES ASSUME NEW i \in 1..n, NEW j \in 1..n, i < j, r[i].kind = "lock", ~High(r[j])
               PROVE  r[j].kind = "lock" /\ r[j].of \notin {Sched, r[i].of} /\ r[j].irql >= IRQL_DISPATCH
    OBVIOUS
  <2>1. s[j].kind = "lock" /\ s[j].of \notin {Sched, s[i].of} /\ s[j].irql >= IRQL_DISPATCH
    BY <1>3 DEF Protected, n
  <2> QED BY <1>3, <2>1
<1>6. \A i, j \in 1..n : i < j /\ High(r[i]) => High(r[j])
  BY <1>3 DEF Protected, n
<1>7. \A i \in 1..n : /\ r[i].kind = "lock" => c >= IRQL_DISPATCH
                      /\ High(r[i]) => c > IRQL_DISPATCH
  BY <1>3 DEF Protected, n
<1>8. Protected(r, c)
  BY <1>1, <1>4, <1>5, <1>6, <1>7 DEF Protected
<1> QED BY <1>8 DEF r

\* Taken locks stay accounted for when a frame is added, and when a frame that
\* is no lock goes or moves on; a Clean stack holds none.
LEMMA AccountedFor ==
    ASSUME NEW s \in Seq(FrameSet), NEW taken, Accounted(s, taken)
    PROVE  /\ \A f \in FrameSet : Accounted(Append(s, f), taken)
           /\ s # <<>> /\ Last(s).kind # "lock" =>
                /\ Accounted(Front(s), taken)
                /\ \A f \in FrameSet : Accounted(Append(Front(s), f), taken)
           /\ Clean(s) => \A l \in Locks : ~taken[l]
<1>1. ASSUME NEW f \in FrameSet PROVE Accounted(Append(s, f), taken)
  <2>1. /\ Len(Append(s, f)) = Len(s) + 1 /\ Len(s) \in Nat
        /\ \A i \in 1..Len(s) : Append(s, f)[i] = s[i]
    BY Pushed
  <2>2. \A i \in 1..Len(s) : i \in 1..Len(Append(s, f))
    BY <2>1, SMT
  <2> QED BY <2>1, <2>2, SMT DEF Accounted
<1>2. ASSUME s # <<>>, Last(s).kind # "lock"
      PROVE  /\ Accounted(Front(s), taken)
             /\ \A f \in FrameSet : Accounted(Append(Front(s), f), taken)
  <2>1. /\ Front(s) \in Seq(FrameSet) /\ Len(Front(s)) = Len(s) - 1 /\ Len(s) \in Nat \ {0}
        /\ \A i \in 1..Len(s) - 1 : Front(s)[i] = s[i]
        /\ Last(s) = s[Len(s)]
    BY <1>2, Popped
  <2>2. \A i \in 1..Len(s) : s[i].kind = "lock" => i \in 1..Len(s) - 1
    BY <1>2, <2>1, SMT
  <2>3. Accounted(Front(s), taken)
    BY <2>1, <2>2, SMT DEF Accounted
  <2>4. ASSUME NEW f \in FrameSet PROVE Accounted(Append(Front(s), f), taken)
    <3>1. /\ Len(Append(Front(s), f)) = Len(s)
          /\ \A i \in 1..Len(s) - 1 : Append(Front(s), f)[i] = s[i]
      BY <1>2, Replaced
    <3> QED BY <2>2, <3>1, SMT DEF Accounted
  <2> QED BY <2>3, <2>4
<1>3. Clean(s) => \A l \in Locks : ~taken[l]
  BY DEF Clean, Accounted
<1> QED BY <1>1, <1>2, <1>3

-----------------------------------------------------------------------------
(* Steps *)

\* A step that changes the current stack to r
LEMMA OneStack ==
    ASSUME IInv, NEW r \in Seq(FrameSet), stack' = [stack EXCEPT ![current] = r],
           UNCHANGED <<current, vectors>>,
           \A i \in 1..Len(r) : FrameOK(r[i]), Protected(r, cr8'), Accounted(r, flag'),
           cr8' \in Int, flag' \in [Locks -> BOOLEAN], irq_should_preempt' \in BOOLEAN
    PROVE  IInv'
<1>1. stack' \in [Threads -> Seq(FrameSet)] /\ stack'[current] = r
      /\ \A t \in Threads \ {current} : stack'[t] = stack[t]
  BY DEF IInv, TypeInv
<1>2. TypeInv'
  BY <1>1 DEF IInv, TypeInv
<1>3. FramesOK'
  BY <1>1 DEF IInv, TypeInv, FramesOK
<1>4. LockInv'
  <2>1. \A t \in Threads \ {current'} : Clean(stack'[t])
    BY <1>1 DEF IInv, LockInv
  <2> QED BY <1>1, <2>1 DEF LockInv
<1> QED BY <1>2, <1>3, <1>4 DEF IInv

\* What the invariant says of the current stack
LEMMA Here ==
    ASSUME IInv
    PROVE  /\ stack[current] \in Seq(FrameSet)
           /\ \A i \in 1..Len(stack[current]) : FrameOK(stack[current][i])
           /\ Protected(stack[current], cr8) /\ Accounted(stack[current], flag)
           /\ cr8 \in Int /\ flag \in [Locks -> BOOLEAN] /\ current \in Threads
           /\ irq_should_preempt \in BOOLEAN
           /\ \A v \in vectors : v \in 0..255
           /\ stack[current] # <<>> => Top \in FrameSet /\ FrameOK(Top)
<1>1. stack[current] \in Seq(FrameSet) /\ \A i \in 1..Len(stack[current]) : FrameOK(stack[current][i])
  BY DEF IInv, TypeInv, FramesOK
<1>2. \A v \in vectors : v \in 0..255
  BY Zenon, IrqlAssumption DEF IInv, TypeInv
<1>3. ASSUME stack[current] # <<>> PROVE Top \in FrameSet /\ FrameOK(Top)
  BY <1>1, <1>3, Popped, SMT DEF Top
<1> QED BY <1>1, <1>2, <1>3 DEF IInv, LockInv, TypeInv

\* A frame is pushed.
LEMMA PushStep ==
    ASSUME IInv, NEW f \in FrameSet, FrameOK(f), Push(f), UNCHANGED <<current, vectors>>,
           Protected(Append(stack[current], f), cr8'), UNCHANGED <<flag, irq_should_preempt>>,
           cr8' \in Int
    PROVE  IInv'
<1> DEFINE s == stack[current]
           r == Append(s, f)
<1>1. /\ s \in Seq(FrameSet) /\ \A i \in 1..Len(s) : FrameOK(s[i])
      /\ Accounted(s, flag) /\ flag \in [Locks -> BOOLEAN] /\ irq_should_preempt \in BOOLEAN
  BY Here
<1>2. stack' = [stack EXCEPT ![current] = r]
  BY DEF Push
<1>3. Protected(r, cr8')
  OBVIOUS
<1> HIDE DEF s
<1>4. /\ r \in Seq(FrameSet) /\ Len(r) = Len(s) + 1 /\ Len(s) \in Nat
      /\ \A i \in 1..Len(s) : r[i] = s[i]
      /\ r[Len(s) + 1] = f
  BY <1>1, Pushed
<1>5. Accounted(r, flag')
  BY <1>1, AccountedFor
<1> HIDE DEF r
<1>6. \A i \in 1..Len(r) : FrameOK(r[i])
  BY <1>1, <1>4, SMT
<1> QED BY Zenon, <1>1, <1>2, <1>3, <1>4, <1>5, <1>6, OneStack

\* The top frame, which is no lock, goes on to label.
LEMMA GoStep ==
    ASSUME IInv, NEW label \in {"handled", "schedule", "lower", "iret"}, stack[current] # <<>>,
           Go(label), Top.kind = "isr", label \in {"schedule", "lower"} => ~High(Top),
           UNCHANGED <<flag, current, vectors>>, irq_should_preempt' \in BOOLEAN,
           cr8' \in Int, cr8' = cr8 \/ Clean(stack[current])
    PROVE  IInv'
<1> DEFINE s == stack[current]
           f == [Top EXCEPT !.at = label]
           r == Append(Front(s), f)
<1>1. /\ s \in Seq(FrameSet) /\ \A i \in 1..Len(s) : FrameOK(s[i])
      /\ Accounted(s, flag) /\ flag \in [Locks -> BOOLEAN]
      /\ Protected(s, cr8) /\ cr8 \in Int /\ Top \in FrameSet /\ FrameOK(Top)
  BY Here
<1>2. stack' = [stack EXCEPT ![current] = r] /\ Last(s) = Top /\ s # <<>>
  BY DEF Go, Top
<1>3. /\ f \in FrameSet /\ f.kind = Top.kind /\ f.of = Top.of /\ f.irql = Top.irql
      /\ f.at = label /\ f.kind = "isr"
  BY Zenon, <1>1 DEF FrameSet
<1>4. FrameOK(f)
  BY <1>1, <1>3 DEF FrameOK, High
<1> HIDE DEF s, f
<1>5. /\ r \in Seq(FrameSet) /\ Len(r) = Len(s) /\ Len(s) \in Nat \ {0}
      /\ \A i \in 1..Len(s) - 1 : r[i] = s[i]
      /\ r[Len(s)] = f
  BY <1>1, <1>2, <1>3, Replaced
<1>6. Accounted(r, flag')
  BY <1>1, <1>2, <1>3, AccountedFor
<1>7. Protected(r, cr8')
  <2>1. Protected(s, cr8')
    BY <1>1, CleanIsProtected DEF s
  <2> QED BY <1>1, <1>2, <1>3, <2>1, Relabelled
<1> HIDE DEF r
<1>8. \A i \in 1..Len(r) : FrameOK(r[i])
  <2>1. \A i \in 1..Len(s) : i \in 1..Len(s) - 1 \/ i = Len(s)
    BY ONLY <1>5, SMT
  <2> QED BY <1>1, <1>4, <1>5, <2>1
<1> QED BY Zenon, <1>1, <1>2, <1>5, <1>6, <1>7, <1>8, OneStack

\* A panic changes nothing the invariant is about.
LEMMA PanicStep ==
    ASSUME IInv, NEW message, Panic(message) PROVE IInv'
BY DEF IInv, TypeInv, FramesOK, LockInv, Panic

\* spinlock_lock: with no High handler below, the locks of the stack are those it
\* must not take.
LEMMA SpinlockLockStep ==
    ASSUME IInv, NEW l \in Locks, SpinlockLock(l) PROVE IInv'
<1>1. CASE RaisePanics(IRQL_DISPATCH)
  BY Zenon, <1>1, PanicStep DEF SpinlockLock
<1>2. CASE ~RaisePanics(IRQL_DISPATCH)
  <2> DEFINE s == stack[current]
             f == Frame("lock", l, cr8, "spin")
  <2>1. /\ cr8' = IRQL_DISPATCH /\ Push(f) /\ UNCHANGED <<flag, current, irq_should_preempt, vectors>>
        /\ l # Sched /\ l \notin Holding
        /\ s = <<>> \/ Top.kind = "lock" \/ Top.kind = "isr"
    BY <1>2 DEF SpinlockLock, IrqlRaise, RunsCode, In, Top
  <2>2. s \in Seq(FrameSet) /\ cr8 \in Int /\ Protected(s, cr8)
    BY Here
  <2>3. cr8 <= IRQL_DISPATCH /\ IRQL_DISPATCH \in Int
    BY <1>2, <2>2, SMT DEF RaisePanics, IRQL_DISPATCH
  <2>4. f \in FrameSet /\ FrameOK(f) /\ f.kind = "lock" /\ f.irql = cr8 /\ f.of = l
    BY <2>2 DEF Frame, FrameSet, FrameOK
  <2>5. ASSUME NEW i \in 1..Len(s), s[i].kind = "lock" PROVE s[i].of # l
    <3>1. ASSUME NEW j \in i..Len(s) PROVE s[j].kind = "lock"
      <4>1. j \in 1..Len(s) /\ i <= j
        BY <2>2, SMT
      <4>2. ~High(s[j])
        <5>1. High(s[j]) => cr8 > IRQL_DISPATCH
          BY <2>2, <4>1 DEF Protected
        <5>2. cr8 \in Int
          BY <2>2
        <5> QED BY ONLY <2>3, <5>1, <5>2, SMT
      <4> QED BY <2>2, <2>5, <4>1, <4>2, SMT DEF Protected
    <3>2. s[i].of \in Holding
      BY <2>2, <3>1, SMT DEF Holding
    <3> QED BY <2>1, <3>2
  <2> HIDE DEF f
  <2>6. Protected(Append(s, f), IRQL_DISPATCH)
    BY <2>1, <2>2, <2>3, <2>4, <2>5, LockOnTop
  <2> QED BY <2>1, <2>3, <2>4, <2>6, PushStep
<1> QED BY <1>1, <1>2

\* schedule() up to its lock
LEMMA ScheduleStep ==
    ASSUME IInv, Schedule PROVE IInv'
<1>1. CASE RaisePanics(IRQL_DISPATCH)
  BY Zenon, <1>1, PanicStep DEF Schedule
<1>2. CASE ~RaisePanics(IRQL_DISPATCH)
  <2> DEFINE s == stack[current]
             f == Frame("lock", Sched, 0, "spin")
  <2>1. /\ cr8' = IRQL_DISPATCH /\ Push(f) /\ UNCHANGED <<flag, current, irq_should_preempt, vectors>>
        /\ s # <<>> /\ Last(s) = Top /\ Top.kind \in {"isr", "call"} /\ Top.at = "schedule"
    BY <1>2 DEF Schedule, IrqlRaise, In, Top
  <2>2. s \in Seq(FrameSet) /\ Protected(s, cr8) /\ FrameOK(Top)
    BY <2>1, Here
  <2>3. Top.kind # "lock" /\ ~High(Top)
    BY <2>1, <2>2 DEF FrameOK, High
  <2>4. Clean(s)
    BY <2>1, <2>2, <2>3, CleanBelow
  <2>5. f \in FrameSet /\ FrameOK(f) /\ f.kind = "lock"
    BY IrqlAssumption, SMT DEF Frame, FrameSet, FrameOK
  <2> HIDE DEF f
  <2>6. Protected(Append(s, f), IRQL_DISPATCH)
    BY <2>1, <2>2, <2>4, <2>5, SchedOnTop
  <2>7. IRQL_DISPATCH \in Int
    BY SMT DEF IRQL_DISPATCH
  <2> QED BY <2>1, <2>5, <2>6, <2>7, PushStep
<1> QED BY <1>1, <1>2

\* An interrupt: what is delivered while a lock is held is High.
LEMMA InterruptStep ==
    ASSUME IInv, NEW v \in vectors, Interrupt(v) PROVE IInv'
<1> DEFINE s == stack[current]
<1>1. /\ s \in Seq(FrameSet) /\ cr8 \in Int /\ Protected(s, cr8)
      /\ v \in 0..255
  BY Here
<1>2. NewIrql(v) = v \div 16 /\ NewIrql(v) \in 0..15
  BY Zenon, <1>1, Class
<1>3. /\ s = <<>> \/ NewIrql(v) > cr8
      /\ UNCHANGED <<flag, current, irq_should_preempt, vectors>>
  BY <1>2 DEF Interrupt, Delivered
<1>4. PICK u \in Int : Push(Frame("isr", v, u, "handler")) /\
                       cr8' = IF NewIrql(v) >= IRQL_DISPATCH THEN NewIrql(v) ELSE cr8
  BY <1>1, IrqlAssumption DEF Interrupt, IrqlRaise
<1> DEFINE f == Frame("isr", v, u, "handler")
<1>5. /\ f \in FrameSet /\ FrameOK(f) /\ f.kind = "isr"
      /\ High(f) <=> NewIrql(v) > IRQL_DISPATCH
  BY <1>1 DEF Frame, FrameSet, FrameOK, High
<1> HIDE DEF f
<1>6. Clean(s) \/ High(f)
  <2>1. CASE s = <<>>
    BY <2>1, SMT DEF Clean
  <2>2. CASE NewIrql(v) > cr8
    <3>1. CASE NewIrql(v) > IRQL_DISPATCH
      BY <1>5, <3>1
    <3>2. CASE ~(NewIrql(v) > IRQL_DISPATCH)
      BY <1>1, <1>2, <2>2, <3>2, SMT DEF Protected, Clean, IRQL_DISPATCH
    <3> QED BY <3>1, <3>2
  <2> QED BY <1>3, <2>1, <2>2
<1>7. cr8' \in Int /\ (High(f) => cr8' > IRQL_DISPATCH)
  BY <1>1, <1>2, <1>4, <1>5, SMT DEF IRQL_DISPATCH
<1>8. Protected(Append(s, f), cr8')
  BY <1>1, <1>5, <1>6, <1>7, HandlerOnTop
<1> QED BY <1>3, <1>4, <1>5, <1>7, <1>8, PushStep DEF f

\* The steps of dispatch_interupt after the handler
LEMMA DispatchStep ==
    ASSUME IInv, HandlerReturns \/ CheckPreempt \/ Lower PROVE IInv'
<1>1. IRQL_DISPATCH = 2
  BY DEF IRQL_DISPATCH
<1>2. CASE HandlerReturns
  <2>1. /\ stack[current] # <<>> /\ Top.kind = "isr" /\ Go("handled")
        /\ UNCHANGED <<cr8, flag, current, vectors>>
        /\ irq_should_preempt' = (irq_should_preempt \/ Top.of = Timer)
    BY <1>2 DEF HandlerReturns, In, Top
  <2>2. cr8' \in Int /\ irq_should_preempt' \in BOOLEAN
    BY <2>1, Here
  <2> QED BY <2>1, <2>2, GoStep
<1>3. CASE CheckPreempt
  <2>1. /\ stack[current] # <<>> /\ Top.kind = "isr"
        /\ UNCHANGED <<cr8, flag, current, vectors>>
        /\ irq_should_preempt' \in {FALSE, irq_should_preempt}
        /\ \/ Go("iret")
           \/ NewIrql(Top.of) <= IRQL_DISPATCH /\ (Go("schedule") \/ Go("lower"))
    BY Zenon, <1>3 DEF CheckPreempt, In, Top
  <2>2. cr8' \in Int /\ irq_should_preempt' \in BOOLEAN /\ FrameOK(Top)
    BY Zenon, <2>1, Here
  <2>3. NewIrql(Top.of) <= IRQL_DISPATCH => ~High(Top)
    <3>1. Top.of \in 0..255
      BY <2>1, <2>2 DEF FrameOK
    <3>2. NewIrql(Top.of) \in 0..15
      BY <3>1, Class
    <3> QED BY <1>1, <3>2, SMT DEF High
  <2> QED BY <2>1, <2>2, <2>3, GoStep
<1>4. CASE Lower
  <2>1. CASE LowerPanics(Top.irql)
    BY Zenon, <1>4, <2>1, PanicStep DEF Lower
  <2>2. CASE ~LowerPanics(Top.irql)
    <3>1. /\ stack[current] # <<>> /\ Top.kind = "isr" /\ Top.at = "lower" /\ Go("iret")
          /\ UNCHANGED <<flag, current, irq_should_preempt, vectors>> /\ cr8' = Top.irql
          /\ Last(stack[current]) = Top
      BY <1>4, <2>2 DEF Lower, In, Top, IrqlLower
    <3>2. /\ Top \in FrameSet /\ FrameOK(Top) /\ irq_should_preempt' \in BOOLEAN
          /\ stack[current] \in Seq(FrameSet) /\ Protected(stack[current], cr8)
      BY <3>1, Here
    <3>3. cr8' \in Int
      BY <3>1, <3>2 DEF FrameSet
    <3>4. ~High(Top)
      BY <3>1, <3>2 DEF FrameOK
    <3>5. Clean(stack[current])
      BY <3>1, <3>2, <3>4, CleanBelow
    <3> QED BY <3>1, <3>2, <3>3, <3>5, GoStep
  <2> QED BY <2>1, <2>2
<1> QED BY <1>2, <1>3, <1>4

\* The exchange: the lock is taken by the frame on top.
LEMMA AcquireStep ==
    ASSUME IInv, Acquire PROVE IInv'
<1> DEFINE s == stack[current]
           f == [Top EXCEPT !.at = "held"]
           r == Append(Front(s), f)
<1>1. /\ s # <<>> /\ Last(s) = Top /\ Top.kind = "lock"
      /\ flag' = [flag EXCEPT ![Top.of] = TRUE]
      /\ stack' = [stack EXCEPT ![current] = r]
      /\ UNCHANGED <<cr8, current, irq_should_preempt, vectors>>
  BY DEF Acquire, In, Top, Go
<1>2. /\ s \in Seq(FrameSet) /\ \A i \in 1..Len(s) : FrameOK(s[i])
      /\ Accounted(s, flag) /\ flag \in [Locks -> BOOLEAN] /\ irq_should_preempt \in BOOLEAN
      /\ Protected(s, cr8) /\ cr8 \in Int /\ Top \in FrameSet /\ FrameOK(Top)
  BY <1>1, Here
<1>3. /\ f \in FrameSet /\ f.kind = "lock" /\ f.of = Top.of /\ f.irql = Top.irql /\ f.at = "held"
  BY Zenon, <1>1, <1>2 DEF FrameSet
<1>4. FrameOK(f) /\ Top.of \in Locks
  BY Zenon, <1>1, <1>2, <1>3 DEF FrameOK
<1> HIDE DEF s, f
<1>5. /\ r \in Seq(FrameSet) /\ Len(r) = Len(s) /\ Len(s) \in Nat \ {0}
      /\ \A i \in 1..Len(s) - 1 : r[i] = s[i]
      /\ r[Len(s)] = f /\ Last(s) = s[Len(s)]
  BY <1>1, <1>2, <1>3, Replaced, Popped
<1>6. Protected(r, cr8')
  BY <1>1, <1>2, <1>3, Relabelled
<1> HIDE DEF r
<1>7. \A i \in 1..Len(s) : i \in 1..Len(s) - 1 \/ i = Len(s)
  BY <1>5, SMT
<1>8. \A i \in 1..Len(r) : FrameOK(r[i])
  BY <1>2, <1>4, <1>5, <1>7
<1>9. Accounted(r, flag')
  <2> SUFFICES ASSUME NEW l \in Locks, flag'[l]
               PROVE  \E i \in 1..Len(r) : r[i].kind = "lock" /\ r[i].at = "held" /\ r[i].of = l
    BY DEF Accounted
  <2>1. CASE l = Top.of
    BY <1>3, <1>5, <2>1, SMT
  <2>2. CASE l # Top.of
    <3>1. flag[l]
      BY <1>1, <1>2, <2>2
    <3>2. PICK i \in 1..Len(s) : s[i].kind = "lock" /\ s[i].at = "held" /\ s[i].of = l
      BY <1>2, <3>1 DEF Accounted
    <3>3. i \in 1..Len(s) - 1
      BY <1>1, <1>5, <1>7, <2>2, <3>2
    <3> QED BY <1>5, <3>2, <3>3
  <2> QED BY <2>1, <2>2
<1>10. flag' \in [Locks -> BOOLEAN]
  BY Zenon, <1>1, <1>2
<1> QED BY Zenon, <1>1, <1>2, <1>5, <1>6, <1>8, <1>9, <1>10, OneStack

\* A frame is popped: FrameOK stays.
LEMMA FrontOK ==
    ASSUME NEW s \in Seq(FrameSet), s # <<>>, \A i \in 1..Len(s) : FrameOK(s[i])
    PROVE  /\ Front(s) \in Seq(FrameSet)
           /\ \A i \in 1..Len(Front(s)) : FrameOK(Front(s)[i])
<1>1. /\ Front(s) \in Seq(FrameSet) /\ Len(Front(s)) = Len(s) - 1 /\ Len(s) \in Nat \ {0}
      /\ \A i \in 1..Len(s) - 1 : Front(s)[i] = s[i]
  BY Popped
<1>2. \A i \in 1..Len(s) - 1 : i \in 1..Len(s)
  BY <1>1, SMT
<1> QED BY <1>1, <1>2

\* spinlock_unlock: the level that comes back is high enough for the locks below.
LEMMA SpinlockUnlockStep ==
    ASSUME IInv, SpinlockUnlock PROVE IInv'
<1>1. CASE LowerPanics(Top.irql)
  BY Zenon, <1>1, PanicStep DEF SpinlockUnlock
<1>2. CASE ~LowerPanics(Top.irql)
  <2> DEFINE s == stack[current]
             r == Front(s)
  <2>1. /\ s # <<>> /\ Last(s) = Top /\ Top.kind = "lock"
        /\ flag' = [flag EXCEPT ![Top.of] = FALSE] /\ cr8' = Top.irql
        /\ stack' = [stack EXCEPT ![current] = r]
        /\ UNCHANGED <<current, irq_should_preempt, vectors>>
    BY <1>2 DEF SpinlockUnlock, In, Top, Pop, IrqlLower
  <2>2. /\ s \in Seq(FrameSet) /\ \A i \in 1..Len(s) : FrameOK(s[i])
        /\ Accounted(s, flag) /\ flag \in [Locks -> BOOLEAN] /\ irq_should_preempt \in BOOLEAN
        /\ Protected(s, cr8) /\ cr8 \in Int /\ Top \in FrameSet
    BY <2>1, Here
  <2>3. cr8' \in Int
    BY <2>1, <2>2 DEF FrameSet
  <2> HIDE DEF s
  <2>4. /\ r \in Seq(FrameSet) /\ \A i \in 1..Len(r) : FrameOK(r[i])
    BY <2>1, <2>2, FrontOK
  <2>5. Protected(r, cr8')
    BY <2>1, <2>2, <2>3, Unstacked
  <2>6. /\ Len(r) = Len(s) - 1 /\ Len(s) \in Nat \ {0}
        /\ \A i \in 1..Len(s) - 1 : r[i] = s[i]
        /\ Last(s) = s[Len(s)]
    BY <2>1, <2>2, Popped
  <2> HIDE DEF r
  <2>7. Accounted(r, flag')
    <3> SUFFICES ASSUME NEW l \in Locks, flag'[l]
                 PROVE  \E i \in 1..Len(r) : r[i].kind = "lock" /\ r[i].at = "held" /\ r[i].of = l
      BY DEF Accounted
    <3>1. flag[l] /\ l # Top.of
      BY <2>1, <2>2
    <3>2. PICK i \in 1..Len(s) : s[i].kind = "lock" /\ s[i].at = "held" /\ s[i].of = l
      BY <2>2, <3>1 DEF Accounted
    <3>3. i # Len(s)
      BY <2>1, <2>6, <3>1, <3>2
    <3>4. i \in 1..Len(s) - 1
      BY <2>6, <3>3, SMT
    <3> QED BY <2>6, <3>2, <3>4
  <2>8. flag' \in [Locks -> BOOLEAN]
    BY Zenon, <2>1, <2>2
  <2> QED BY Zenon, <2>1, <2>2, <2>3, <2>4, <2>5, <2>7, <2>8, OneStack
<1> QED BY <1>1, <1>2

\* The return from an interrupt and from schedule()
LEMMA ReturnStep ==
    ASSUME IInv, Return PROVE IInv'
<1> DEFINE s == stack[current]
           r == Front(s)
<1>1. /\ s # <<>> /\ Last(s).kind # "lock"
      /\ stack' = [stack EXCEPT ![current] = r]
      /\ UNCHANGED <<cr8, flag, current, irq_should_preempt, vectors>>
  BY DEF Return, In, Pop
<1>2. /\ s \in Seq(FrameSet) /\ \A i \in 1..Len(s) : FrameOK(s[i])
      /\ Accounted(s, flag) /\ flag \in [Locks -> BOOLEAN] /\ irq_should_preempt \in BOOLEAN
      /\ Protected(s, cr8) /\ cr8 \in Int
  BY <1>1, Here
<1> HIDE DEF s
<1>3. r \in Seq(FrameSet) /\ \A i \in 1..Len(r) : FrameOK(r[i])
  BY <1>1, <1>2, FrontOK
<1>4. Protected(r, cr8') /\ Accounted(r, flag')
  BY <1>1, <1>2, Unstacked, AccountedFor
<1> HIDE DEF r
<1> QED BY Zenon, <1>1, <1>2, <1>3, <1>4, OneStack

\* A thread calls schedule().
LEMMA CallScheduleStep ==
    ASSUME IInv, CallSchedule PROVE IInv'
<1> DEFINE s == stack[current]
           f == Frame("call", Sched, cr8, "schedule")
<1>1. s = <<>> /\ Push(f) /\ UNCHANGED <<cr8, flag, current, irq_should_preempt, vectors>>
  BY DEF CallSchedule
<1>2. s \in Seq(FrameSet) /\ Protected(s, cr8) /\ cr8 \in Int
  BY Here
<1>3. f \in FrameSet /\ FrameOK(f) /\ f.kind = "call" /\ ~High(f)
  BY <1>2, IrqlAssumption DEF Frame, FrameSet, FrameOK, High
<1>4. Clean(s)
  BY <1>1, SMT DEF Clean
<1> HIDE DEF f
<1>5. Protected(Append(s, f), cr8')
  BY Zenon, <1>1, <1>2, <1>3, <1>4, HandlerOnTop
<1> QED BY <1>1, <1>2, <1>3, <1>5, PushStep

\* thread_switch: below the scheduler's lock there is no other, so that no thread
\* but the one that runs has a lock.
LEMMA ThreadSwitchStep ==
    ASSUME IInv, NEW t \in Threads, ThreadSwitch(t) PROVE IInv'
<1> DEFINE s == stack[current]
           q == Front(s)
           f == [Last(q) EXCEPT !.at = "lower"]
           r == Append(Front(q), f)
<1>1. /\ s # <<>> /\ Last(s) = Top /\ Top.kind = "lock" /\ Top.of = Sched
      /\ stack' = [stack EXCEPT ![current] = r] /\ current' = t
      /\ flag' = [flag EXCEPT ![Sched] = FALSE] /\ cr8' = Top.irql
      /\ UNCHANGED <<irq_should_preempt, vectors>>
  BY DEF ThreadSwitch, In, Top, IrqlLower
<1>2. /\ s \in Seq(FrameSet) /\ \A i \in 1..Len(s) : FrameOK(s[i])
      /\ Accounted(s, flag) /\ flag \in [Locks -> BOOLEAN] /\ irq_should_preempt \in BOOLEAN
      /\ Protected(s, cr8) /\ cr8 \in Int /\ Top \in FrameSet /\ current \in Threads
  BY <1>1, Here
<1>3. cr8' \in Int
  BY <1>1, <1>2 DEF FrameSet
<1> HIDE DEF s
<1>4. /\ q \in Seq(FrameSet) /\ \A i \in 1..Len(q) : FrameOK(q[i])
      /\ Len(q) = Len(s) - 1 /\ Len(s) \in Nat \ {0}
      /\ \A i \in 1..Len(s) - 1 : q[i] = s[i]
      /\ Top = s[Len(s)]
  BY Zenon, <1>1, <1>2, FrontOK, Popped
<1>5. Len(s) > 1 /\ s[Len(s) - 1].kind \in {"isr", "call"} /\ s[Len(s) - 1].at = "schedule"
  BY <1>1, <1>2, <1>4, SMT DEF Protected
<1>6. ASSUME NEW i \in 1..Len(s) - 1 PROVE s[i].kind # "lock" /\ ~High(s[i])
  <2>1. i \in 1..Len(s) /\ Len(s) \in 1..Len(s) /\ i < Len(s)
    BY <1>4, SMT
  <2>2. ~High(s[Len(s)]) /\ s[Len(s)].of = Sched
    BY <1>1, <1>4 DEF High
  <2> QED BY <1>2, <2>1, <2>2 DEF Protected
<1>7. Clean(q)
  BY <1>4, <1>6 DEF Clean
<1> HIDE DEF q
<1>8. q # <<>> /\ Last(q) \in FrameSet /\ Last(q) = q[Len(q)] /\ Len(q) \in Nat \ {0}
  <2>1. q # <<>>
    BY <1>4, <1>5, SMT
  <2> QED BY <1>4, <2>1, Popped
<1>9. Last(q).kind \in {"isr", "call"} /\ FrameOK(Last(q)) /\ ~High(Last(q))
  BY <1>4, <1>5, <1>7, <1>8, SMT DEF Clean
<1>10. /\ f \in FrameSet /\ f.kind = Last(q).kind /\ f.of = Last(q).of /\ f.at = "lower"
  BY Zenon, <1>8 DEF FrameSet
<1>11. FrameOK(f) /\ ~High(f) /\ f.kind # "lock"
  BY <1>9, <1>10 DEF FrameOK, High
<1> HIDE DEF f
<1>12. /\ r \in Seq(FrameSet) /\ Len(r) = Len(q) /\ r[Len(q)] = f
       /\ \A i \in 1..Len(q) - 1 : r[i] = q[i]
  BY Zenon, <1>4, <1>8, <1>10, Replaced
<1> HIDE DEF r
<1>13. \A i \in 1..Len(q) : i \in 1..Len(q) - 1 \/ i = Len(q)
  BY <1>8, SMT
<1>14. Clean(r) /\ \A i \in 1..Len(r) : FrameOK(r[i])
  BY <1>4, <1>7, <1>11, <1>12, <1>13 DEF Clean
<1>15. /\ stack' \in [Threads -> Seq(FrameSet)] /\ stack'[current] = r
       /\ \A u \in Threads \ {current} : stack'[u] = stack[u] /\ Clean(stack[u])
  BY <1>1, <1>2, <1>12 DEF IInv, TypeInv, LockInv
<1>16. \A u \in Threads : Clean(stack'[u])
  BY <1>14, <1>15
<1>17. \A l \in Locks : ~flag'[l]
  <2> SUFFICES ASSUME NEW l \in Locks, flag'[l] PROVE FALSE
    OBVIOUS
  <2>1. flag[l] /\ l # Sched
    BY <1>1, <1>2
  <2>2. PICK i \in 1..Len(s) : s[i].kind = "lock" /\ s[i].of = l
    BY <1>2, <2>1 DEF Accounted
  <2>3. i = Len(s)
    BY <1>4, <1>6, <2>2, SMT
  <2> QED BY <1>1, <1>4, <2>1, <2>2, <2>3
<1>18. TypeInv'
  BY Zenon, <1>1, <1>2, <1>3, <1>15 DEF IInv, TypeInv
<1>19. FramesOK'
  BY Zenon, <1>14, <1>15 DEF IInv, TypeInv, FramesOK
<1>20. LockInv'
  <2>1. Protected(stack'[current'], cr8')
    BY <1>1, <1>16, CleanIsProtected
  <2>2. Accounted(stack'[current'], flag')
    BY <1>17 DEF Accounted
  <2> QED BY <1>1, <1>16, <2>1, <2>2 DEF LockInv
<1> QED BY <1>18, <1>19, <1>20 DEF IInv

\* No lock is held, and nothing is on the stacks, when the processor starts.
LEMMA IInvInit == Init => IInv
<1> SUFFICES ASSUME Init PROVE IInv
  OBVIOUS
<1>1. \A t \in Threads : stack[t] = <<>>
  BY DEF Init
<1>2. TypeInv
  <2>1. stack \in [Threads -> Seq(FrameSet)]
    BY EmptySeq DEF Init
  <2>2. flag \in [Locks -> BOOLEAN] /\ irq_should_preempt \in BOOLEAN
    BY Zenon DEF Init
  <2>3. cr8 \in Int /\ current \in Threads /\ vectors \in Machines
    BY SMT DEF Init
  <2> QED BY <2>1, <2>2, <2>3 DEF TypeInv
<1>3. FramesOK
  BY <1>1, SMT DEF FramesOK
<1>4. \A t \in Threads : Clean(stack[t])
  BY <1>1, SMT DEF Clean
<1>5. Accounted(stack[current], flag)
  BY DEF Init, Accounted
<1> QED BY <1>2, <1>3, <1>4, <1>5, CleanIsProtected DEF IInv, LockInv, TypeInv

\* Every step keeps the invariant of the locks.
LEMMA IInvNext == IInv /\ [Next]_vars => IInv'
<1> SUFFICES ASSUME IInv, [Next]_vars PROVE IInv'
  OBVIOUS
<1>1. CASE Idle
  <2>1. /\ UNCHANGED <<cr8, flag, current, stack, vectors>> /\ irq_should_preempt' \in BOOLEAN
    BY <1>1 DEF Idle
  <2> QED BY <2>1 DEF IInv, TypeInv, FramesOK, LockInv
<1>2. CASE UNCHANGED vars
  BY <1>2 DEF IInv, TypeInv, FramesOK, LockInv, vars
<1> QED BY <1>1, <1>2, SpinlockLockStep, AcquireStep, SpinlockUnlockStep, InterruptStep, DispatchStep,
           ReturnStep, CallScheduleStep, ScheduleStep, ThreadSwitchStep DEF Next, Halted

\* The inductive invariant of the spinlocks
THEOREM IrqlInvariant == Spec => []IInv
BY IInvInit, IInvNext, PTL DEF Spec

\* spinlock_lock never waits, whatever interrupts arrive and whatever an
\* uninitialised old_irql holds.
THEOREM NoSpinning == Spec => []NeverSpins
<1>1. IInv => NeverSpins
  <2> SUFFICES ASSUME IInv, In({"lock"}, "spin"), flag[Top.of] PROVE FALSE
    BY DEF NeverSpins
  <2> DEFINE s == stack[current]
  <2>1. s # <<>> /\ Last(s) = Top /\ Top.kind = "lock" /\ Top.at = "spin"
    BY DEF In, Top
  <2>2. s \in Seq(FrameSet) /\ Protected(s, cr8) /\ Accounted(s, flag) /\ FrameOK(Top)
    BY <2>1, Here
  <2>3. Top.of \in Locks /\ ~High(Top)
    BY <2>1, <2>2 DEF FrameOK, High
  <2> HIDE DEF s
  <2>4. PICK i \in 1..Len(s) : s[i].kind = "lock" /\ s[i].at = "held" /\ s[i].of = Top.of
    BY <2>2, <2>3 DEF Accounted
  <2>5. Len(s) \in Nat \ {0} /\ Last(s) = s[Len(s)]
    BY <2>1, <2>2, Popped
  <2>6. i < Len(s) /\ Len(s) \in 1..Len(s)
    BY <2>1, <2>4, <2>5, SMT
  <2> QED BY <2>1, <2>2, <2>3, <2>4, <2>5, <2>6, SMT DEF Protected
<1> QED BY <1>1, IrqlInvariant, PTL
-----------------------------------------------------------------------------
(***************************************************************************)
(* The levels, where every interrupt is of the class of IRQL_DISPATCH.     *)
(* Why they protect: an interrupt arrives only at level 0, and from there  *)
(* to the call of schedule() or the last irql_lower of its handler the     *)
(* level stays up.                                                         *)
(***************************************************************************)

\* A handler that has not called schedule() yet, or has not got the CPU back from it
Active(f) == f.kind = "isr" /\ f.at \in {"handler", "handled", "schedule"}

Idles(s) == \A i \in 1..Len(s) : ~Active(s[i])

\* The levels of a frame: 0, or IRQL_DISPATCH for a lock in a handler or in a lock
Levels(f) ==
    /\ f.irql \in {0, IRQL_DISPATCH}
    /\ f.kind = "isr" => f.irql = 0 /\ NewIrql(f.of) = IRQL_DISPATCH

\* A stack s at level c: above an active handler there are locks, and the level
\* stays up until it is done; a lock that lowers it to 0 has no active handler below.
Served(s, c) ==
    /\ \A i \in 1..Len(s) : Levels(s[i])
    /\ \A i \in 1..Len(s) : Active(s[i]) => c = IRQL_DISPATCH
    /\ \A i, j \in 1..Len(s) : i < j /\ Active(s[i]) => s[j].kind = "lock"
    /\ \A i, j \in 1..Len(s) :
         s[i].kind = "lock" /\ s[i].of # Sched /\ s[i].irql = 0 => ~Active(s[j])

LevelInv ==
    /\ panic = "none"
    /\ cr8 \in {0, IRQL_DISPATCH}
    /\ \A t \in Threads \ {current} : Idles(stack[t]) /\ \A i \in 1..Len(stack[t]) : Levels(stack[t][i])
    /\ Served(stack[current], cr8)

DInv == OnlyDispatch => LevelInv

\* Constant-level facts about Served, one for each change of the stack
LEMMA ServedPushLock ==
    ASSUME NEW s \in Seq(FrameSet), NEW c \in {0, IRQL_DISPATCH}, Served(s, c),
           NEW f \in FrameSet, f.kind = "lock", f.irql \in {0, IRQL_DISPATCH},
           f.of # Sched => f.irql = c
    PROVE  Served(Append(s, f), IRQL_DISPATCH)
<1> DEFINE r == Append(s, f)
           n == Len(s)
<1>1. /\ Len(r) = n + 1 /\ n \in Nat
      /\ \A i \in 1..n : r[i] = s[i]
      /\ r[n + 1] = f
  BY Pushed
<1>2. Levels(f) /\ ~Active(f)
  BY DEF Levels, Active
<1> HIDE DEF r, n
<1>3. \A i \in 1..n + 1 : i \in 1..n \/ i = n + 1
  BY <1>1, SMT
<1>4. \A i \in 1..n + 1 : Levels(r[i])
  BY <1>1, <1>2, <1>3 DEF Served, n
<1>5. \A i, j \in 1..n + 1 : i < j /\ Active(r[i]) => r[j].kind = "lock"
  BY <1>1, <1>2, <1>3 DEF Served, n
<1>6. \A i, j \in 1..n + 1 :
         r[i].kind = "lock" /\ r[i].of # Sched /\ r[i].irql = 0 => ~Active(r[j])
  <2>1. f.of # Sched /\ f.irql = 0 => \A j \in 1..n : ~Active(s[j])
    BY SMT DEF Served, n, IRQL_DISPATCH
  <2> QED BY <1>1, <1>2, <1>3, <2>1 DEF Served, n
<1> QED BY <1>1, <1>4, <1>5, <1>6 DEF Served, r

\* A call or an interrupt on top of a stack that holds no spinlock keeps its levels served.
LEMMA ServedPushOther ==
    ASSUME NEW s \in Seq(FrameSet), Served(s, 0), Clean(s),
           NEW d \in {0, IRQL_DISPATCH}, NEW f \in FrameSet, f.kind # "lock", Levels(f),
           Active(f) => d = IRQL_DISPATCH
    PROVE  Served(Append(s, f), d)
<1> DEFINE r == Append(s, f)
           n == Len(s)
<1>1. /\ Len(r) = n + 1 /\ n \in Nat
      /\ \A i \in 1..n : r[i] = s[i]
      /\ r[n + 1] = f
  BY Pushed
<1>2. \A i \in 1..n : ~Active(s[i]) /\ s[i].kind # "lock" /\ Levels(s[i])
  <2>1. 0 # IRQL_DISPATCH
    BY SMT DEF IRQL_DISPATCH
  <2> QED BY <2>1 DEF Served, Clean
<1> HIDE DEF r, n
<1>3. \A i \in 1..n + 1 : i \in 1..n \/ i = n + 1
  BY <1>1, SMT
<1>4. \A i \in 1..n + 1 : Levels(r[i]) /\ r[i].kind # "lock" /\ (Active(r[i]) => i = n + 1)
  BY <1>1, <1>2, <1>3
<1> QED BY <1>1, <1>4, SMT DEF Served, r

\* Taking the top frame off keeps the levels served: a lock restores the level it saved.
LEMMA ServedPop ==
    ASSUME NEW s \in Seq(FrameSet), s # <<>>, NEW c \in {0, IRQL_DISPATCH}, Served(s, c),
           NEW d \in {0, IRQL_DISPATCH},
           \/ Last(s).kind = "lock" /\ Last(s).of # Sched /\ d = Last(s).irql
           \/ Last(s).kind # "lock" /\ d = c
    PROVE  Served(Front(s), d)
<1> DEFINE r == Front(s)
           n == Len(s)
<1>1. /\ Len(r) = n - 1 /\ n \in Nat \ {0}
      /\ \A i \in 1..n - 1 : r[i] = s[i]
      /\ Last(s) = s[n]
  BY Popped
<1> HIDE DEF r, n
<1>2. \A i \in 1..n - 1 : i \in 1..n /\ i < n /\ n \in 1..n
  BY <1>1, SMT
<1>3. \A i \in 1..n - 1 : Active(s[i]) => d = IRQL_DISPATCH
  BY <1>1, <1>2 DEF Served, n
<1> QED BY <1>1, <1>2, <1>3 DEF Served, r, n

\* So does a top frame that goes on, if it lowers the level only when it is done.
LEMMA ServedGo ==
    ASSUME NEW s \in Seq(FrameSet), s # <<>>, NEW c \in {0, IRQL_DISPATCH}, Served(s, c),
           NEW d \in {0, IRQL_DISPATCH}, NEW f \in FrameSet,
           f.kind = Last(s).kind, f.of = Last(s).of, f.irql = Last(s).irql,
           Active(f) => Active(Last(s)),
           d = c \/ (Last(s).kind # "lock" /\ ~Active(Last(s)))
    PROVE  Served(Append(Front(s), f), d)
<1> DEFINE r == Append(Front(s), f)
           n == Len(s)
<1>1. /\ Len(r) = n /\ n \in Nat \ {0}
      /\ \A i \in 1..n - 1 : r[i] = s[i]
      /\ r[n] = f /\ Last(s) = s[n]
  BY Replaced, Popped
<1> HIDE DEF r, n
<1>2. n \in 1..n /\ \A i \in 1..n : i \in 1..n - 1 \/ i = n
  BY <1>1, SMT
<1>3. \A i \in 1..n : /\ r[i].kind = s[i].kind /\ r[i].of = s[i].of /\ r[i].irql = s[i].irql
                      /\ Active(r[i]) => Active(s[i])
  BY <1>1, <1>2
<1>4. \A i \in 1..n : Levels(r[i])
  <2>1. \A i \in 1..n : Levels(s[i])
    BY DEF Served, n
  <2> QED BY <1>3, <2>1 DEF Levels
<1>5. \A i \in 1..n : Active(r[i]) => d = IRQL_DISPATCH
  <2> SUFFICES ASSUME NEW i \in 1..n, Active(r[i]) PROVE d = IRQL_DISPATCH
    OBVIOUS
  <2>1. Active(s[i]) /\ c = IRQL_DISPATCH
    BY <1>3 DEF Served, n
  <2>2. CASE d # c
    <3>1. i = n \/ (i < n /\ i \in 1..n)
      BY <1>1, SMT
    <3> QED BY <1>1, <1>2, <2>1, <2>2, <3>1 DEF Served, n
  <2> QED BY <2>1, <2>2
<1> QED BY <1>1, <1>3, <1>4, <1>5, SMT DEF Served, r, n

\* The stack of the current thread becomes r.
LEMMA ServedStep ==
    ASSUME IInv, LevelInv, NEW r, stack' = [stack EXCEPT ![current] = r],
           UNCHANGED <<current, panic>>, cr8' \in {0, IRQL_DISPATCH}, Served(r, cr8')
    PROVE  LevelInv'
<1>1. stack'[current] = r /\ \A t \in Threads \ {current} : stack'[t] = stack[t]
  BY DEF IInv, TypeInv
<1> QED BY <1>1 DEF LevelInv

\* spinlock_lock, and the lock of schedule(): irql_raise finds a level that is no higher.
LEMMA LockLevels ==
    ASSUME IInv, LevelInv, Schedule \/ \E l \in Locks : SpinlockLock(l) PROVE LevelInv'
<1> DEFINE s == stack[current]
<1>1. s \in Seq(FrameSet) /\ Served(s, cr8) /\ cr8 \in {0, IRQL_DISPATCH} /\ cr8 \in Int
  BY Here DEF LevelInv
<1>2. ~RaisePanics(IRQL_DISPATCH)
  BY <1>1, SMT DEF RaisePanics, IRQL_DISPATCH
<1>3. PICK l \in Locks, c \in {0, IRQL_DISPATCH} :
        /\ l # Sched => c = cr8
        /\ Push(Frame("lock", l, c, "spin")) /\ IrqlRaise(IRQL_DISPATCH)
        /\ UNCHANGED <<current, panic>>
  <2>1. CASE Schedule
    BY <1>2, <2>1, IrqlAssumption DEF Schedule
  <2>2. CASE \E l \in Locks : SpinlockLock(l)
    BY <1>1, <1>2, <2>2 DEF SpinlockLock
  <2> QED BY <2>1, <2>2
<1> DEFINE f == Frame("lock", l, c, "spin")
<1>4. c \in Int
  BY SMT DEF IRQL_DISPATCH
<1>5. f \in FrameSet /\ f.kind = "lock" /\ f.irql = c /\ f.of = l
  BY <1>4 DEF Frame, FrameSet
<1>6. stack' = [stack EXCEPT ![current] = Append(s, f)] /\ cr8' = IRQL_DISPATCH
  BY <1>3 DEF Push, IrqlRaise
<1> HIDE DEF s, f
<1>7. Served(Append(s, f), IRQL_DISPATCH)
  BY <1>1, <1>3, <1>5, ServedPushLock
<1> QED BY Zenon, <1>3, <1>6, <1>7, ServedStep DEF s

\* An interrupt arrives only at level 0, where no handler is active.
LEMMA InterruptLevels ==
    ASSUME IInv, LevelInv, OnlyDispatch, NEW v \in vectors, Interrupt(v) PROVE LevelInv'
<1> DEFINE s == stack[current]
           f == Frame("isr", v, cr8, "handler")
<1>1. s \in Seq(FrameSet) /\ Served(s, cr8) /\ cr8 \in {0, IRQL_DISPATCH} /\ v \in 0..255
  BY Here DEF LevelInv
<1>2. NewIrql(v) = IRQL_DISPATCH /\ v \div 16 = 2 /\ v # PageFault
  <2>1. NewIrql(v) = 2
    BY DEF OnlyDispatch, IRQL_DISPATCH
  <2>2. v \div 16 = 2
    BY Zenon, <1>1, <2>1, Class
  <2> QED BY <2>1, <2>2, SMT DEF PageFault, IRQL_DISPATCH
<1>3. cr8 = 0
  BY <1>1, <1>2, SMT DEF Interrupt, Delivered, IRQL_DISPATCH
<1>4. /\ stack' = [stack EXCEPT ![current] = Append(s, f)] /\ cr8' = IRQL_DISPATCH
      /\ UNCHANGED <<current, panic>>
  BY <1>2, SMT DEF Interrupt, Push, IrqlRaise, IRQL_DISPATCH
<1>5. Clean(s)
  <2>1. Protected(s, 0)
    BY <1>3, Here
  <2> QED BY <2>1, SMT DEF Protected, Clean, IRQL_DISPATCH
<1>6. f \in FrameSet /\ f.kind = "isr" /\ f.irql = 0 /\ f.of = v
  BY <1>1, <1>3, SMT DEF Frame, FrameSet
<1>7. Levels(f)
  BY <1>2, <1>6 DEF Levels
<1> HIDE DEF s, f
<1>8. Served(Append(s, f), IRQL_DISPATCH)
  BY <1>1, <1>3, <1>5, <1>6, <1>7, ServedPushOther
<1> QED BY Zenon, <1>4, <1>8, ServedStep DEF s

\* A frame that goes on is the same frame at another place.
LEMMA Labelled ==
    ASSUME NEW g \in FrameSet,
           NEW label \in {"held", "handled", "schedule", "lower", "iret"}
    PROVE  LET f == [g EXCEPT !.at = label]
           IN  /\ f \in FrameSet /\ f.kind = g.kind /\ f.of = g.of
               /\ f.irql = g.irql /\ f.at = label
BY DEF FrameSet

\* The top frame goes on; only past schedule() and the handler is the level lowered.
LEMMA GoLevels ==
    ASSUME IInv, LevelInv, Acquire \/ HandlerReturns \/ CheckPreempt \/ Lower PROVE LevelInv'
<1> DEFINE s == stack[current]
<1>1. s \in Seq(FrameSet) /\ Served(s, cr8) /\ cr8 \in {0, IRQL_DISPATCH} /\ cr8 \in Int
  BY Here DEF LevelInv
<1>2. s # <<>> /\ Last(s) = Top /\ Top \in FrameSet
  BY Zenon, Here DEF Acquire, HandlerReturns, CheckPreempt, Lower, In, Top
<1>3. Lower => Top.kind = "isr" /\ Top.irql = 0 /\ ~Active(Top) /\ ~LowerPanics(Top.irql)
  <2> SUFFICES ASSUME Lower PROVE Top.kind = "isr" /\ Top.irql = 0 /\ ~Active(Top) /\ ~LowerPanics(Top.irql)
    OBVIOUS
  <2>1. Top.kind = "isr" /\ Top.at = "lower"
    BY Zenon DEF Lower, In, Top
  <2>2. Levels(Top)
    BY <1>1, <1>2, Popped, SMT DEF Served
  <2>3. Top.irql = 0 /\ ~Active(Top)
    BY <2>1, <2>2 DEF Levels, Active
  <2> QED BY <1>1, <2>1, <2>3, SMT DEF LowerPanics, IRQL_DISPATCH
<1>4. PICK label \in {"held", "handled", "schedule", "lower", "iret"} :
        /\ Go(label) /\ UNCHANGED <<current, panic>>
        /\ cr8' = cr8 \/ (cr8' = 0 /\ Top.kind # "lock" /\ ~Active(Top))
        /\ Top.kind = "isr" /\ label \in {"handled", "schedule"} => Active(Top)
  <2>1. CASE Acquire
    BY <2>1 DEF Acquire, In, Top
  <2>2. CASE HandlerReturns
    BY <2>2 DEF HandlerReturns, In, Top, Active
  <2>3. CASE CheckPreempt
    BY <2>3 DEF CheckPreempt, In, Top, Active
  <2>4. CASE Lower
    BY Zenon, <1>3, <2>4 DEF Lower, IrqlLower
  <2> QED BY <2>1, <2>2, <2>3, <2>4
<1> DEFINE f == [Top EXCEPT !.at = label]
<1>5. /\ f \in FrameSet /\ f.kind = Top.kind /\ f.of = Top.of /\ f.irql = Top.irql /\ f.at = label
  <2>1. Top \in FrameSet
    BY <1>2
  <2>2. label \in {"held", "handled", "schedule", "lower", "iret"}
    OBVIOUS
  <2> QED BY Zenon, <2>1, <2>2, Labelled
<1>6. Active(f) => Active(Top)
  BY <1>4, <1>5 DEF Active
<1>7. stack' = [stack EXCEPT ![current] = Append(Front(s), f)]
  BY <1>4 DEF Go
<1> HIDE DEF s, f
<1>8. cr8' \in {0, IRQL_DISPATCH}
  BY <1>1, <1>4
<1>9. Served(Append(Front(s), f), cr8')
  BY <1>1, <1>2, <1>4, <1>5, <1>6, <1>8, ServedGo
<1> QED BY Zenon, <1>4, <1>7, <1>8, <1>9, ServedStep DEF s

\* spinlock_unlock goes back to a level that is no higher; iret and the return of
\* schedule() keep it.
LEMMA PopLevels ==
    ASSUME IInv, LevelInv, SpinlockUnlock \/ Return PROVE LevelInv'
<1> DEFINE s == stack[current]
<1>1. /\ s \in Seq(FrameSet) /\ Served(s, cr8) /\ cr8 \in {0, IRQL_DISPATCH} /\ cr8 \in Int
      /\ Protected(s, cr8)
  BY Here DEF LevelInv
<1>2. s # <<>> /\ Last(s) = Top /\ Top \in FrameSet
  BY Zenon, Here DEF SpinlockUnlock, Return, In, Top
<1>3. CASE SpinlockUnlock
  <2>1. Top.kind = "lock" /\ Top.of # Sched
    BY Zenon, <1>3 DEF SpinlockUnlock, In, Top
  <2>2. Levels(Top) /\ cr8 >= IRQL_DISPATCH
    <3>1. Len(s) \in Nat \ {0} /\ Top = s[Len(s)]
      BY <1>1, <1>2, Popped
    <3>2. Len(s) \in 1..Len(s)
      BY <3>1, SMT
    <3> QED BY <1>1, <2>1, <3>1, <3>2 DEF Served, Protected
  <2>3. Top.irql \in {0, IRQL_DISPATCH} /\ ~LowerPanics(Top.irql)
    BY <1>1, <2>2, SMT DEF Levels, LowerPanics, IRQL_DISPATCH
  <2>4. stack' = [stack EXCEPT ![current] = Front(s)] /\ cr8' = Top.irql /\ UNCHANGED <<current, panic>>
    BY <1>3, <2>3 DEF SpinlockUnlock, IrqlLower, Pop
  <2> HIDE DEF s
  <2>5. Served(Front(s), Top.irql)
    BY <1>1, <1>2, <2>1, <2>3, ServedPop
  <2> QED BY Zenon, <2>3, <2>4, <2>5, ServedStep DEF s
<1>4. CASE Return
  <2>1. Top.kind # "lock"
    BY <1>4 DEF Return, In, Top
  <2>2. stack' = [stack EXCEPT ![current] = Front(s)] /\ UNCHANGED <<cr8, current, panic>>
    BY <1>4 DEF Return, Pop
  <2> HIDE DEF s
  <2>3. Served(Front(s), cr8)
    BY <1>1, <1>2, <2>1, ServedPop
  <2> QED BY Zenon, <1>1, <2>2, <2>3, ServedStep DEF s
<1> QED BY <1>3, <1>4

\* A thread that calls schedule() outside of any lock keeps the levels served.
LEMMA CallScheduleLevels ==
    ASSUME IInv, LevelInv, CallSchedule PROVE LevelInv'
<1> DEFINE s == stack[current]
           f == Frame("call", Sched, cr8, "schedule")
<1>1. s \in Seq(FrameSet) /\ cr8 \in {0, IRQL_DISPATCH} /\ cr8 \in Int
  BY Here DEF LevelInv
<1>2. /\ s = <<>> /\ stack' = [stack EXCEPT ![current] = Append(s, f)]
      /\ UNCHANGED <<cr8, current, panic>>
  BY DEF CallSchedule, Push
<1>3. f \in FrameSet /\ f.kind = "call" /\ f.irql = cr8
  BY <1>1, IrqlAssumption DEF Frame, FrameSet
<1>4. Levels(f) /\ ~Active(f)
  BY <1>1, <1>3 DEF Levels, Active
<1> HIDE DEF s, f
<1>5. Served(s, 0) /\ Clean(s)
  BY <1>2, SMT DEF Served, Clean
<1>6. Served(Append(s, f), cr8)
  BY <1>1, <1>3, <1>4, <1>5, ServedPushOther
<1> QED BY Zenon, <1>1, <1>2, <1>6, ServedStep DEF s

\* schedule() leaves a thread whose handler, if it has one, is done but for its
\* last irql_lower: below it nothing is active.
LEMMA SwitchLevels ==
    ASSUME IInv, LevelInv, NEW t \in Threads, ThreadSwitch(t) PROVE LevelInv'
<1> DEFINE s == stack[current]
           q == Front(s)
           f == [Last(q) EXCEPT !.at = "lower"]
           r == Append(Front(q), f)
<1>1. /\ s # <<>> /\ Last(s) = Top /\ Top.kind = "lock" /\ Top.of = Sched
      /\ stack' = [stack EXCEPT ![current] = r] /\ current' = t
      /\ cr8' = Top.irql /\ UNCHANGED panic
  BY DEF ThreadSwitch, In, Top, IrqlLower
<1>2. s \in Seq(FrameSet) /\ Served(s, cr8) /\ Protected(s, cr8) /\ current \in Threads
  BY Here DEF LevelInv
<1> HIDE DEF s
<1>3. /\ q \in Seq(FrameSet) /\ Len(q) = Len(s) - 1 /\ Len(s) \in Nat \ {0}
      /\ \A i \in 1..Len(s) - 1 : q[i] = s[i]
      /\ Top = s[Len(s)]
  BY <1>1, <1>2, Popped
<1>4. Len(s) > 1 /\ s[Len(s) - 1].kind \in {"isr", "call"}
  BY <1>1, <1>2, <1>3, SMT DEF Protected
<1>5. cr8' \in {0, IRQL_DISPATCH}
  BY <1>1, <1>2, <1>3, SMT DEF Served, Levels
<1> HIDE DEF q
<1>6. q # <<>> /\ Last(q) \in FrameSet /\ Last(q) = q[Len(q)] /\ Len(q) \in Nat \ {0}
  <2>1. q # <<>>
    BY <1>3, <1>4, SMT
  <2> QED BY <1>3, <2>1, Popped
<1>7. /\ f \in FrameSet /\ f.kind = Last(q).kind /\ f.of = Last(q).of /\ f.irql = Last(q).irql
      /\ f.at = "lower"
  BY Zenon, <1>6, Labelled
<1> HIDE DEF f
<1>8. /\ r \in Seq(FrameSet) /\ Len(r) = Len(q) /\ r[Len(q)] = f
      /\ \A i \in 1..Len(q) - 1 : r[i] = q[i]
  BY Zenon, <1>3, <1>6, <1>7, Replaced
<1> HIDE DEF r
<1>9. ASSUME NEW i \in 1..Len(r) PROVE ~Active(r[i]) /\ Levels(r[i])
  <2>1. CASE i = Len(q)
    <3>1. Levels(Last(q))
      BY <1>2, <1>3, <1>6, SMT DEF Served
    <3> QED BY <1>7, <1>8, <2>1, <3>1 DEF Levels, Active
  <2>2. CASE i \in 1..Len(q) - 1
    <3>1. /\ i \in 1..Len(s) /\ Len(s) - 1 \in 1..Len(s) /\ i < Len(s) - 1
          /\ r[i] = s[i]
      BY <1>3, <1>8, <2>2, SMT
    <3> QED BY <1>2, <1>4, <3>1 DEF Served
  <2>3. i = Len(q) \/ i \in 1..Len(q) - 1
    BY <1>6, <1>8, SMT
  <2> QED BY <2>1, <2>2, <2>3
<1>10. \A u \in Threads : Idles(stack'[u]) /\ \A i \in 1..Len(stack'[u]) : Levels(stack'[u][i])
  <2>1. stack'[current] = r /\ \A u \in Threads \ {current} : stack'[u] = stack[u]
    BY <1>1 DEF IInv, TypeInv
  <2> QED BY <1>9, <2>1 DEF LevelInv, Idles
<1>11. Served(stack'[t], cr8')
  <2>1. ASSUME NEW i \in 1..Len(stack'[t])
        PROVE  ~Active(stack'[t][i]) /\ Levels(stack'[t][i])
    BY <1>10 DEF Idles
  <2> QED BY <2>1 DEF Served
<1> QED BY <1>1, <1>5, <1>10, <1>11 DEF LevelInv

\* Every step keeps the levels, as long as only interrupts of the class of IRQL_DISPATCH arrive.
LEMMA DInvNext == IInv /\ DInv /\ [Next]_vars => DInv'
<1> SUFFICES ASSUME IInv, DInv, [Next]_vars, OnlyDispatch' PROVE LevelInv'
  BY DEF DInv
<1>1. vectors' = vectors
  BY Zenon DEF Next, SpinlockLock, Acquire, SpinlockUnlock, Interrupt, HandlerReturns, CheckPreempt,
         Lower, Return, CallSchedule, Schedule, ThreadSwitch, Idle, Halted, Panic, vars
<1>2. OnlyDispatch /\ LevelInv
  BY <1>1 DEF OnlyDispatch, DInv
<1>3. CASE Idle \/ UNCHANGED vars
  <2>1. UNCHANGED <<cr8, current, stack, panic>>
    BY <1>3 DEF Idle, vars
  <2> QED BY <1>2, <2>1 DEF LevelInv
<1> QED BY <1>2, <1>3, LockLevels, InterruptLevels, GoLevels, PopLevels, CallScheduleLevels,
           SwitchLevels DEF Next, Halted

\* On a machine where only interrupts of the class of IRQL_DISPATCH arrive, spinlocks
\* are held by the code that runs, handlers do not nest, and irql_raise and irql_lower
\* do not panic.
THEOREM LevelsCorrect == Spec => []LevelsProtect
<1>1. Init => DInv
  <2> SUFFICES ASSUME Init PROVE LevelInv
    BY DEF DInv
  <2>1. stack = [t \in Threads |-> <<>>] /\ current \in Threads /\ cr8 = 0 /\ panic = "none"
    BY DEF Init
  <2>2. \A t \in Threads : Len(stack[t]) = 0
    BY <2>1
  <2> QED BY <2>1, <2>2, SMT DEF LevelInv, Idles, Served
<1>2. IInv /\ DInv => LevelsProtect
  <2> SUFFICES ASSUME IInv, LevelInv PROVE
        /\ \A t \in Threads : \A i \in DOMAIN stack[t] :
             Holds(t, i) =>
                 /\ t = current /\ cr8 >= IRQL_DISPATCH
                 /\ \A j \in i..Len(stack[t]) : stack[t][j].kind = "lock"
        /\ \A t, u \in Threads : \A i \in DOMAIN stack[t], j \in DOMAIN stack[u] :
             Handles(t, i) /\ Handles(u, j) => t = u /\ i = j
    BY DEF DInv, LevelsProtect, LevelInv
  <2>1. \A t \in Threads : DOMAIN stack[t] = 1..Len(stack[t]) /\ Len(stack[t]) \in Nat
    BY SMT DEF IInv, TypeInv
  <2>2. Protected(stack[current], cr8) /\ Served(stack[current], cr8)
    BY DEF IInv, LockInv, LevelInv
  <2>3. ASSUME NEW i \in 1..Len(stack[current]) PROVE ~High(stack[current][i])
    BY <2>2, SMT DEF Served, Levels, High, IRQL_DISPATCH
  <2>4. ASSUME NEW t \in Threads, NEW i \in DOMAIN stack[t], Holds(t, i)
        PROVE  /\ t = current /\ cr8 >= IRQL_DISPATCH
               /\ \A j \in i..Len(stack[t]) : stack[t][j].kind = "lock"
    <3>1. i \in 1..Len(stack[t]) /\ stack[t][i].kind = "lock"
      BY <2>1, <2>4 DEF Holds
    <3>2. t = current
      BY <3>1 DEF IInv, LockInv, Clean
    <3>3. cr8 >= IRQL_DISPATCH
      BY <2>2, <3>1, <3>2 DEF Protected
    <3>4. ASSUME NEW j \in i..Len(stack[t]) PROVE stack[t][j].kind = "lock"
      <4>1. j \in 1..Len(stack[t]) /\ (j = i \/ i < j)
        BY <2>1, <3>1, SMT
      <4> QED BY <2>2, <2>3, <3>1, <3>2, <4>1 DEF Protected
    <3> QED BY <3>2, <3>3, <3>4
  <2>5. ASSUME NEW t \in Threads, NEW i \in DOMAIN stack[t], Handles(t, i)
        PROVE  t = current /\ i \in 1..Len(stack[t]) /\ Active(stack[t][i])
    <3>1. i \in 1..Len(stack[t]) /\ Active(stack[t][i])
      BY <2>1, <2>5 DEF Handles, Active
    <3> QED BY <3>1 DEF LevelInv, Idles
  <2>6. ASSUME NEW i \in 1..Len(stack[current]), NEW j \in 1..Len(stack[current]),
               Active(stack[current][i]), Active(stack[current][j])
        PROVE  i = j
    <3>1. i < j \/ j < i \/ i = j
      BY <2>1, SMT
    <3> QED BY <2>2, <2>6, <3>1 DEF Served, Active
  <2> QED BY <2>4, <2>5, <2>6
<1>3. Spec => []DInv
  BY <1>1, IrqlInvariant, DInvNext, PTL DEF Spec
<1> QED BY <1>2, <1>3, IrqlInvariant, PTL
=============================================================================
