-------------------------------- MODULE MCIrq ---------------------------------
(***************************************************************************)
(* Model values for the run of IrqLoop: every build.                       *)
(***************************************************************************)
EXTENDS IrqLoop

MCBuilds == [check : BOOLEAN, mutex : BOOLEAN, timeouts : BOOLEAN]
===============================================================================
