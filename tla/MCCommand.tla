----------------------------- MODULE MCCommand -----------------------------
(* Instance of Command for TLC: two DACs, two words of calibration and a     *)
(* command of every kind.                                                    *)
EXTENDS Command

LampArgs == {[LIGHT_CHOSE |-> l, BEEP_SWITCH |-> b, Alarm_CHOSE |-> u] :
                l \in 0 .. 2, b \in {0, 1}, u \in Units}

SomeCommands ==
    [name : {"WARNINGLIGHT"}, arg : LampArgs]
    \cup [name : {"MSETWATERVALUE"}, arg : [Dacs -> Volts]]
    \cup [name : {"MSETFANVALUE"}, arg : {0, 100}]
    \cup [name : {"PCALIBRATION"}, arg : [Cali_Obj : {1}, kb : {1, 2}]
                                         \cup {[Cali_Obj |-> 2, kb |-> 1]}]
    \cup [name : {"MGETDATA", "GETCALIBRATION", "MGETDATADEBUG", "ANYMETHOD",
                  "MRESET"}, arg : {0}]
=============================================================================
