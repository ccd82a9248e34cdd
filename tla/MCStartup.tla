------------------------------ MODULE MCStartup ------------------------------
(***************************************************************************)
(* Model values for the runs of W5x00Startup.                              *)
(***************************************************************************)
EXTENDS W5x00Startup

CONSTANT w1

MCOneWaiter == {w1}

MCAllArgs == {"NULL", "zero", "user"}
MCAddressArgs == {"zero", "user"}
==============================================================================
