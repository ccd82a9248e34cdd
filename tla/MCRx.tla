--------------------------------- MODULE MCRx ---------------------------------
(***************************************************************************)
(* Model values for the run of W5x00Rx: with tasks that send, a chip that  *)
(* takes each command before the next access; without, one that may take   *)
(* an access longer.                                                       *)
(***************************************************************************)
EXTENDS W5x00Rx

MCChips == {[lag |-> 0, sends |-> TRUE], [lag |-> 1, sends |-> FALSE]}
===============================================================================
