----------------------------- MODULE MCTcpServer -----------------------------
(* Instances of TcpServer for TLC: headers of three bytes, a receive buffer  *)
(* of four, and commands that fit the buffer or exceed it.  The payload of   *)
(* the longest ends like a whole command, and the lower half of its length   *)
(* is one a fragment can have.                                               *)
EXTENDS TcpServer

Commands == {<<0, 3, 0>>, <<0, 2, 1, 0, 0, 3, 0>>}
Zeroed == {0}
OneAndTwo == {1, 2}
=============================================================================
