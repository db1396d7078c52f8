----------------------------- MODULE MCCollect -----------------------------
(* Instance of Collect for TLC: one sensor in each half.  Protect and        *)
(* FreezeLimit are 8 instead of 10 each, so that they still meet.            *)
EXTENDS Collect

TwoLines == {SmokeLine, LeakLine}
=============================================================================
