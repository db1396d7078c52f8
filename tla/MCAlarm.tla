------------------------------ MODULE MCAlarm ------------------------------
(* Instance of Alarm for TLC with the lines Read_State reads. *)
EXTENDS Alarm

AllLines == {PowerLine, GateLine, WaterPowerLine, SmokeLine, LeakLine}
=============================================================================
