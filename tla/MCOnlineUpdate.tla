--------------------------- MODULE MCOnlineUpdate ---------------------------
(* Instances of OnlineUpdate for TLC: blocks of two bytes, a sector of four *)
(* blocks, images of one to three blocks that do not fill their last one.   *)
EXTENDS OnlineUpdate

OddSizes == {1, 3, 5}
=============================================================================
