------------------------------ MODULE MCLoopback ------------------------------
(***************************************************************************)
(* Model values for the run of Loopback.  tcp_loopback is the same code in *)
(* both tasks: the long connections are the server's.                      *)
(***************************************************************************)
EXTENDS Loopback

MCPieces == [t \in Tasks |-> IF t = "server" THEN 3 ELSE 1]
===============================================================================
