--------------------------------- MODULE MCTx ---------------------------------
(***************************************************************************)
(* Model values for the runs of W5x00Tx: tcpip_thread and the driver task. *)
(***************************************************************************)
EXTENDS W5x00Tx

CONSTANTS tcpip, driver

MCOneSender == {tcpip}
MCTwoSenders == {tcpip, driver}
===============================================================================
