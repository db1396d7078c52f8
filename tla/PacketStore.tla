---------------------------- MODULE PacketStore ----------------------------
(***************************************************************************)
(* What a client may expect of MGETDATA: the sampling task makes one       *)
(* packet after the other, and an answer is the newest packet complete     *)
(* when the client's command was executed.  Two exceptions: there may be   *)
(* no answer if a packet was completed meanwhile, and the answer may be    *)
(* anything once the second packet after that one has been begun.          *)
(***************************************************************************)
EXTENDS Integers

CONSTANT MaxPacks   \* bound: packets made between two restarts

Torn == -1    \* an answer that is no packet
None == -2

VARIABLES
    begun,    \* packets begun
    packed,   \* packets completed
    asked,    \* packets completed when the command was executed, or None
    answer    \* the packet last answered, Torn or None

vars == <<begun, packed, asked, answer>>

Init == begun = 0 /\ packed = 0 /\ asked = None /\ answer = None

Begin ==
    /\ begun = packed /\ begun < MaxPacks
    /\ begun' = begun + 1
    /\ UNCHANGED <<packed, asked, answer>>

Complete ==
    /\ begun = packed + 1
    /\ packed' = begun
    /\ UNCHANGED <<begun, asked, answer>>

Ask ==
    /\ asked = None
    /\ asked' = packed /\ answer' = None
    /\ UNCHANGED <<begun, packed>>

Answer ==
    /\ asked # None
    /\ \/ answer' = asked
       \/ begun >= asked + 2 /\ answer' \in (0 .. begun) \cup {Torn}
       \/ packed > asked /\ answer' = None
    /\ asked' = None
    /\ UNCHANGED <<begun, packed>>

Restart ==
    /\ begun' = 0 /\ packed' = 0
    /\ asked' = None /\ answer' = None

Next == Begin \/ Complete \/ Ask \/ Answer \/ Restart

Spec == Init /\ [][Next]_vars

\* A command that is executed is finished.
FairSpec == Spec /\ WF_vars(Answer)
=============================================================================
