------------------------------ MODULE MCEntry -------------------------------
(***************************************************************************)
(* One program makes every call and fails in every way; the other one      *)
(* prints and sleeps, so that both can be preempted in the middle of a     *)
(* copy and of a switch.                                                   *)
(***************************************************************************)
EXTENDS Entry

CONSTANTS t1, t2

MCProgram ==
    [t \in Threads |->
        IF t = t1 THEN Calls \cup {Fault, SetsAc}
        ELSE {[call |-> "print", mem |-> "good"], [call |-> "sleep_ms", mem |-> "good"]}]
=============================================================================
