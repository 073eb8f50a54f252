----------------------------- MODULE MCDebugger -----------------------------
(***************************************************************************)
(* The two halves of the debugger stub, one of them in a behaviour: the    *)
(* packets on a bad line, and the program they run and stop on a good one. *)
(***************************************************************************)
EXTENDS Dbgstub, DbgRun, TLC

VARIABLE half

Alphabet == <<"$", "#", "%", "+", "-", "}", "0", "1", "2", "3", "4", "5", "6", "7", "8", "9", "a", "b", "c", "d", "e", "f", "g", "m", "ETX", "G", "M", ",", ":">>
Bytes    == <<36, 35, 37, 43, 45, 125, 48, 49, 50, 51, 52, 53, 54, 55, 56, 57, 97, 98, 99, 100, 101, 102, 103, 109, 3, 71, 77, 44, 58>>
MCCode(c) == Bytes[CHOOSE k \in DOMAIN Alphabet : Alphabet[k] = c]

get == [op |-> "g"]
resume == [op |-> "c"]
set(bytes) == [op |-> "G", data |-> bytes]
read(a, n) == [op |-> "m", addr |-> a, len |-> n]
write(a, bytes) == [op |-> "M", addr |-> a, data |-> bytes]

\* Address 2 is not mapped.
MCMemory == (0 :> 17) @@ (1 :> 0) @@ (3 :> 255)

\* The script that waits while the other half runs
Script == <<resume>>

\* Registers; memory up to the end of what is mapped and over it; what has no
\* reply, or an empty one
MCScripts == { <<set(<<1, 160>>), get>>, <<write(0, <<2, 3>>), read(1, 1)>>,
               <<write(1, <<4, 5, 6>>), read(0, 2)>>, <<read(1, 2), resume>>,
               <<resume, read(3, 0)>>, Script }

\* '-' asks for a reply again and '}' panics.  '#' ends a packet: the one before the characters of
\* another checksum may then be taken for the empty packet.
MCNoise == {"$", "%", "+", "-", "}", "1", "3", "m", "ETX"}
-----------------------------------------------------------------------------
DebuggerInit == half \in {"packets", "run"} /\ Init /\ RunInit
                /\ (half = "run" => script = Script)

Packets(A) == half = "packets" /\ A /\ UNCHANGED <<half, runVars>>
Runs(A)    == half = "run" /\ A /\ UNCHANGED <<half, vars>>

DebuggerNext == Packets(Next) \/ Runs(RunNext)

all == <<half, vars, runVars>>

\* A line with bytes on it delivers or spoils them, and the debugger goes on; so
\* does the CPU, in the program and in the loop.
DebuggerSpec ==
    /\ DebuggerInit /\ [][DebuggerNext]_all
    /\ WF_all(Packets(Deliver \/ Lose \/ Garble))
    /\ WF_all(Packets(Ask \/ Acknowledged \/ Refused \/ Replied))
    /\ WF_all(Runs((Break \/ Instruction) /\ UNCHANGED crossed))
    /\ WF_all(Runs((LeaveUnpaused \/ LeaveContinued) /\ UNCHANGED crossed))
    /\ WF_all(Runs(Hear /\ UNCHANGED crossed))

-----------------------------------------------------------------------------
\* After a damaged packet dbgstub_rx finds the start of a later one: the debugger gets
\* through with every command, unless the kernel panics or is busy sending a reply again.
EveryCommandIsProcessed == half = "packets" => Processed
=============================================================================
