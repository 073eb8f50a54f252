------------------------------ MODULE Dbgstub -------------------------------
(***************************************************************************)
(* The packets of the debugger stub (drivers/dbgstub/dbgstub.c).  Bytes of *)
(* a serial line that loses and garbles some of them are put together by   *)
(* dbgstub_rx, and the checksum decides whether a packet is acknowledged   *)
(* and processed.  The debugger at the other end is not part of the        *)
(* kernel: it sends one command at a time, and again when the command is   *)
(* refused or nothing is heard of it.  The commands that read and write    *)
(* registers and memory are here, those that run the program in DbgRun.    *)
(*                                                                         *)
(* dbgstub_rx runs in the serial interrupt, whose class no interrupt is    *)
(* above, so a byte is handled in one step.  The exception is a reply sent *)
(* again, which reads the buffer it writes: its loop is a step per byte.   *)
(***************************************************************************)
EXTENDS Integers, Sequences, SequencesExt

CONSTANTS Scripts,       \* what the debugger may want: sequences of commands
          Memory,        \* [addresses that are mapped -> byte]
          RegBytes,      \* bytes of a register, 8
          Code(_),       \* the byte of a character
          Noise,         \* what a garbled byte may become
          MaxFaults,     \* bytes lost or garbled, at most one in two packets that follow each other
          MaxNacks,      \* replies the debugger asks for again
          DBGSTUB_PACKET_BUFFER_SIZE,    \* 4096
          Slack                          \* 16, allocated beyond it

ASSUME DbgstubAssumption ==
    /\ {DBGSTUB_PACKET_BUFFER_SIZE, Slack, MaxFaults, MaxNacks, RegBytes} \subseteq Nat
    /\ Range(Memory) \subseteq 0..255

VARIABLES
    script, acked,   \* the commands, and how many were acknowledged
    line,        \* characters on their way to the stub
    hit,         \* was a character "here", in what was sent "before" or in "none" spoiled?
    faults, nacks,
    answers,     \* what the stub sent and the debugger did not read: "+", "-", replies
    recv,        \* dbgstub_packet_recv_buffer below dbgstub_packet_buffer_index
    dbgstub_middle_of_packet, dbgstub_end_of_packet, dbgstub_end_of_packet_count,
    resent,      \* bytes the loop of dbgstub_send wrote over its own source; 0 outside
    memory,      \* of the machine
    reg,         \* one register of last_frame
    accepted,    \* the first character and the payload of the processed packets
    panic        \* the message of a panic, or "no"

debugger == <<script, acked, hit, faults, nacks>>
machine  == <<memory, reg>>
framing  == <<recv, dbgstub_middle_of_packet, dbgstub_end_of_packet, dbgstub_end_of_packet_count>>
vars == <<debugger, line, answers, framing, resent, machine, accepted, panic>>

HexDigits == <<"0", "1", "2", "3", "4", "5", "6", "7", "8", "9", "a", "b", "c", "d", "e", "f">>

Hex(c) == CHOOSE v \in 0..15 : HexDigits[v + 1] = c

Sum(payload) ==
    LET sum[k \in 0..Len(payload)] == IF k = 0 THEN 0 ELSE sum[k - 1] + Code(payload[k])
    IN  sum[Len(payload)]

Hex2(byte) == <<HexDigits[(byte \div 16) + 1], HexDigits[(byte % 16) + 1]>>
HexOf(bytes) == [k \in 1..2 * Len(bytes) |-> Hex2(bytes[(k + 1) \div 2])[2 - (k % 2)]]

\* What the debugger writes for a command: an address has one digit, as has a length.
Format(cmd) ==
    <<cmd.op>> \o CASE cmd.op = "m" -> <<HexDigits[cmd.addr + 1], ",", HexDigits[cmd.len + 1]>>
                    [] cmd.op = "M" -> <<HexDigits[cmd.addr + 1], ",", HexDigits[Len(cmd.data) + 1], ":">>
                                       \o HexOf(cmd.data)
                    [] cmd.op = "G" -> HexOf(cmd.data)
                    [] OTHER -> <<>>

Packet(payload) ==
    <<"$">> \o payload
    \o <<"#">> \o Hex2(Sum(payload) % 256)

Init ==
    /\ script \in Scripts /\ acked = 0 /\ line = <<>> /\ hit = "none" /\ faults = 0 /\ nacks = 0
    /\ answers = <<>>
    /\ recv = <<>> /\ dbgstub_middle_of_packet = FALSE
    /\ dbgstub_end_of_packet = FALSE /\ dbgstub_end_of_packet_count = 0
    /\ resent = 0 /\ memory = Memory /\ reg = 0 /\ accepted = <<>> /\ panic = "no"

Running == panic = "no" /\ resent = 0

-----------------------------------------------------------------------------
(***************************************************************************)
(* The stub                                                                *)
(***************************************************************************)

\* The two characters after '#', read by strtoll: a sign first is skipped, and the
\* number ends at the first character that is no digit.
strtoll(c, d) ==
    LET digits   == Range(HexDigits)
        second   == IF d \in digits THEN Hex(d) ELSE 0
    IN  CASE c = "-"       -> -second
          [] c = "+"       -> second
          [] c \in digits  -> IF d \in digits THEN 16 * Hex(c) + Hex(d) ELSE Hex(c)
          [] OTHER         -> 0

\* Mutant: the sum is wider than a byte.
wide_checksum(payload) == Sum(payload)

calculated_checksum(payload) == Sum(payload) % 256   \* uint8_t

EndOf(packet)   == CHOOSE k \in DOMAIN packet :
                       packet[k] = "#" /\ \A j \in 1..k - 1 : packet[j] # "#"
Payload(packet) == SubSeq(packet, 2, EndOf(packet) - 1)

\* Mutant: the checksum is not looked at.
ValidByStart(packet) == Head(packet) \in {"$", "%"}

dbgstub_validate_packet(packet) ==
    /\ Head(packet) \in {"$", "%"}
    /\ calculated_checksum(Payload(packet)) = strtoll(packet[EndOf(packet) + 1], packet[EndOf(packet) + 2])

\* Characters from '#' to the end of the checksum
PacketEnd == 3

\* strtoull(s, NULL, 16): the digits in front
strtoull(s) ==
    LET digits == SelectInSeq(s \o <<"#">>, LAMBDA c : c \notin Range(HexDigits)) - 1
    IN  FoldLeft(LAMBDA v, c : 16 * v + Hex(c), 0, SubSeq(s, 1, digits))

After(s, k) == SubSeq(s, k + 1, Len(s))
Reply(chars) == answers' = answers \o << <<"+">>, chars >>

\* PACK_REG and UNPACK_REG swap the bytes, so that the lowest comes first.
PACK_REG == HexOf([k \in 1..RegBytes |-> (reg \div 256^(k - 1)) % 256])

UNPACK_REG(chars) ==
    FoldLeft(LAMBDA v, k : v + 256^(k - 1) * strtoull(SubSeq(chars, 2 * k - 1, 2 * k)),
             0, [k \in 1..RegBytes |-> k])

\* The first length bytes at addr that can be reached; safe_read_byte and
\* safe_write_byte return 0xFFFF for the next one.
Reached(addr, length) ==
    LET faulting == {k \in 0..length - 1 : addr + k \notin DOMAIN memory}
    IN  IF faulting = {} THEN length ELSE CHOOSE k \in faulting : \A j \in faulting : k <= j

\* "m<addr>,<length>"
read_memory(args) ==
    LET comma  == SelectInSeq(args, LAMBDA c : c = ",")
        addr   == strtoull(args)
        length == strtoull(After(args, comma))
    IN  IF comma = 0 THEN Reply(<<"E", "0", "0">>)
        ELSE IF length = 0 THEN Reply(<<"E", "0", "1">>)
        ELSE IF Reached(addr, length) < length THEN Reply(<<"E", "0", "2">>)
        ELSE Reply(HexOf([k \in 1..length |-> memory[addr + k - 1]]))

\* "M<addr>,<length>:<bytes>".  The data is measured with the end of the packet
\* behind it, and what is written before a fault stays.
write_memory(args) ==
    LET comma  == SelectInSeq(args, LAMBDA c : c = ",")
        colon  == SelectInSeq(args, LAMBDA c : c = ":")
        addr   == strtoull(args)
        length == strtoull(After(args, comma))
        data   == After(args, colon)
        n      == Reached(addr, length)
    IN  IF comma = 0 \/ colon = 0 \/ comma > colon
        THEN Reply(<<"E", "0", "0">>) /\ UNCHANGED memory
        ELSE IF length = 0 \/ Len(data) + PacketEnd < length * 2
        THEN Reply(<<"E", "0", "1">>) /\ UNCHANGED memory
        ELSE /\ memory' = [a \in DOMAIN memory |->
                              IF a \in addr..addr + n - 1
                              THEN strtoull(SubSeq(data, 2 * (a - addr) + 1, 2 * (a - addr) + 2))
                              ELSE memory[a]]
             /\ Reply(IF n < length THEN <<"E", "0", "3">> ELSE <<"O", "K">>)

\* The commands.  Those that resume the program have no reply, and what is not
\* known, or begins with '%', an empty one.
Execute(start, payload) ==
    LET op   == IF start = "$" /\ payload # <<>> THEN Head(payload) ELSE "none"
        args == After(payload, 1)
    IN  CASE op = "g" -> Reply(PACK_REG) /\ UNCHANGED machine
          [] op = "G" -> Reply(<<"O", "K">>) /\ reg' = UNPACK_REG(args) /\ UNCHANGED memory
          [] op = "m" -> read_memory(args) /\ UNCHANGED machine
          [] op = "M" -> write_memory(args) /\ UNCHANGED reg
          [] op \in {"c", "C", "s"} -> answers' = Append(answers, <<"+">>) /\ UNCHANGED machine
          [] OTHER -> Reply(<<>>) /\ UNCHANGED machine

dbgstub_process_packet(packet) ==
    IF dbgstub_validate_packet(packet)
    THEN \E payload \in {Payload(packet)} :
            /\ Execute(Head(packet), payload)
            /\ accepted' = Append(accepted, [start |-> Head(packet), payload |-> payload])
    ELSE answers' = Append(answers, <<"-">>) /\ UNCHANGED <<machine, accepted>>

\* Does a character begin a packet?  '%' does not inside of one.
Starts(c) == c = "$" \/ (c = "%" /\ ~dbgstub_middle_of_packet)

\* A character that is stored, and what follows the second one after '#'
Store(c) ==
    LET ended  == c = "#" \/ (dbgstub_end_of_packet /\ ~Starts(c))
        count  == (IF c = "#" THEN 0 ELSE dbgstub_end_of_packet_count) + (IF ended THEN 1 ELSE 0)
    IN  \E buffer \in {Append(IF Starts(c) THEN <<>> ELSE recv, c)} :
        IF count = PacketEnd
        THEN /\ recv' = <<>> /\ dbgstub_middle_of_packet' = FALSE
             /\ dbgstub_end_of_packet' = FALSE /\ dbgstub_end_of_packet_count' = 0
             /\ dbgstub_process_packet(buffer)
        ELSE /\ recv' = buffer
             /\ dbgstub_middle_of_packet' = (Starts(c) \/ (dbgstub_middle_of_packet /\ c # "#"))
             /\ dbgstub_end_of_packet' = ended /\ dbgstub_end_of_packet_count' = count
             /\ UNCHANGED <<answers, machine, accepted>>

Panic(message) == panic' = message /\ UNCHANGED <<framing, answers, machine, accepted, resent>>

dbgstub_rx(c) ==
    CASE Len(recv) = DBGSTUB_PACKET_BUFFER_SIZE -> Panic("DBGSTUB: Packet buffer overflow")
      [] OTHER ->
         CASE c = "ETX" -> UNCHANGED <<framing, answers, machine, accepted, resent, panic>>
           [] c = "}"   -> Panic("DBGSTUB: unhandled escaped charater")
           [] c = "+" /\ ~dbgstub_middle_of_packet ->
                 UNCHANGED <<framing, answers, machine, accepted, resent, panic>>
           [] c = "-" /\ ~dbgstub_middle_of_packet ->
                 resent' = 1 /\ UNCHANGED <<framing, answers, machine, accepted, panic>>
           [] OTHER -> Store(c) /\ UNCHANGED <<resent, panic>>

\* dbgstub_send(dbgstub_packet_send_buffer): '$' went to the first place of the buffer,
\* and each byte that is read goes to the place after it, so no byte read is ever '\0'.
dbgstub_send ==
    /\ panic = "no" /\ resent \in 1..DBGSTUB_PACKET_BUFFER_SIZE + Slack
    /\ resent' = resent + 1
    /\ UNCHANGED <<debugger, line, answers, framing, machine, accepted, panic>>

-----------------------------------------------------------------------------
(***************************************************************************)
(* The line and the debugger                                               *)
(***************************************************************************)

Deliver ==
    /\ Running /\ line # <<>>
    /\ dbgstub_rx(Head(line))
    /\ line' = Tail(line) /\ UNCHANGED debugger

Lose ==
    /\ Running /\ line # <<>> /\ hit = "none" /\ faults < MaxFaults
    /\ line' = Tail(line) /\ hit' = "here" /\ faults' = faults + 1
    /\ UNCHANGED <<script, acked, nacks, answers, framing, resent, machine, accepted, panic>>

Garble ==
    /\ Running /\ line # <<>> /\ hit = "none" /\ faults < MaxFaults
    /\ \E c \in Noise \ {Head(line)} : dbgstub_rx(c)
    /\ line' = Tail(line) /\ hit' = "here" /\ faults' = faults + 1
    /\ UNCHANGED <<script, acked, nacks>>

Transmit(characters) ==
    line' = characters /\ hit' = IF hit = "here" THEN "before" ELSE "none"

\* The first command, and one that nothing was heard of
Ask ==
    /\ Running /\ acked < Len(script) /\ line = <<>> /\ answers = <<>>
    /\ Transmit(Packet(Format(script[acked + 1])))
    /\ UNCHANGED <<script, acked, faults, nacks, answers, framing, resent, machine, accepted, panic>>

\* The debugger listens when its own characters are out.
Hears == Running /\ line = <<>> /\ answers # <<>>
Heard(answer) == Hears /\ Head(answers) = answer

Acknowledged ==
    /\ Heard(<<"+">>) /\ answers' = Tail(answers)
    /\ acked' = IF acked < Len(script) THEN acked + 1 ELSE acked
    /\ UNCHANGED <<script, line, hit, faults, nacks, framing, resent, machine, accepted, panic>>

\* A damaged packet may be refused twice, for its two halves, and is sent again once.
Refused ==
    /\ Heard(<<"-">>) /\ answers' = <<>>
    /\ IF acked = Len(script) THEN UNCHANGED <<line, hit>>
       ELSE Transmit(Packet(Format(script[acked + 1])))
    /\ UNCHANGED <<script, acked, faults, nacks, framing, resent, machine, accepted, panic>>

\* A reply is acknowledged, or asked for again
Replied ==
    /\ Hears /\ Head(answers) \notin {<<"+">>, <<"-">>} /\ answers' = Tail(answers)
    /\ \/ Transmit(<<"+">>) /\ UNCHANGED nacks
       \/ nacks < MaxNacks /\ Transmit(<<"-">>) /\ nacks' = nacks + 1
    /\ UNCHANGED <<script, acked, faults, framing, resent, machine, accepted, panic>>

Next == \/ dbgstub_send \/ Deliver \/ Lose \/ Garble \/ Ask \/ Acknowledged \/ Refused \/ Replied

-----------------------------------------------------------------------------
(***************************************************************************)
(* Properties                                                              *)
(***************************************************************************)

\* What a command should do to a machine and what it should answer
Meaning(m, cmd) ==
    LET at(k) == cmd.addr + k - 1
        good  == CASE cmd.op = "m" -> cmd.addr..cmd.addr + cmd.len - 1 \subseteq DOMAIN Memory
                   [] cmd.op = "M" -> cmd.addr..cmd.addr + Len(cmd.data) - 1 \subseteq DOMAIN Memory
                   [] OTHER -> TRUE
        upTo(a) == cmd.addr..a \subseteq DOMAIN Memory
    IN  CASE cmd.op = "g" -> [m EXCEPT !.reply = HexOf(m.reg)]
          [] cmd.op = "G" -> [m EXCEPT !.reply = <<"O", "K">>, !.reg = cmd.data]
          [] cmd.op = "m" -> [m EXCEPT !.reply =
                IF cmd.len = 0 THEN <<"E", "0", "1">>
                ELSE IF good THEN HexOf([k \in 1..cmd.len |-> m.memory[at(k)]]) ELSE <<"E", "0", "2">>]
          [] cmd.op = "M" -> [m EXCEPT !.reply = IF good THEN <<"O", "K">> ELSE <<"E", "0", "3">>,
                !.memory = [a \in DOMAIN Memory |->
                    IF a - cmd.addr \in 0..Len(cmd.data) - 1 /\ upTo(a)
                    THEN cmd.data[a - cmd.addr + 1] ELSE @[a]]]
          [] OTHER -> m

\* Every command is processed once and in the order it was sent, however often
\* dbgstub_rx has to begin again; registers and memory are what the commands make
\* of them, up to the byte that faults, and the last reply says so.  One whose '$'
\* became '%', which the checksum does not cover, is acknowledged without effect.
CommandsTakeEffect ==
    LET n     == Len(accepted)
        Unset == [memory |-> Memory, reg |-> [k \in 1..RegBytes |-> 0], reply |-> <<>>]
        m     == FoldLeft(LAMBDA was, k : IF accepted[k].start = "%" THEN [was EXCEPT !.reply = <<>>]
                                          ELSE Meaning(was, script[k]),
                          Unset, [k \in 1..n |-> k])
    IN  /\ n = acked + (IF <<"+">> \in Range(answers) THEN 1 ELSE 0)
        /\ \A k \in 1..n : accepted[k].payload = Format(script[k])
        /\ memory = m.memory /\ PACK_REG = HexOf(m.reg)
        /\ \A a \in Range(answers) \ {<<"+">>, <<"-">>} : a = m.reply

\* After a damaged packet dbgstub_rx finds the start of a later one: the debugger gets
\* through with every command, unless the kernel panics or is busy sending a reply again.
Processed == <>((acked = Len(script) /\ answers = <<>> /\ line = <<>>) \/ ~Running)
=============================================================================
