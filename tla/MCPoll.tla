-------------------------------- MODULE MCPoll --------------------------------
(***************************************************************************)
(* Model values for the runs of PollLoop and of the link check in it.      *)
(***************************************************************************)
EXTENDS PollLoop

CONSTANT w1

MCOneWatcher == {w1}
===============================================================================
