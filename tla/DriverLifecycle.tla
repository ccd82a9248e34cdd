--------------------------- MODULE DriverLifecycle ---------------------------
(***************************************************************************)
(* What the driver promises an application that only looks at              *)
(* w5x00_get_state and at the results of w5x00_event_wait: it is started   *)
(* once, may fail and recover any number of times, becomes ready once and  *)
(* for ever, and no wait reports what is not, or no longer, the case.      *)
(***************************************************************************)
CONSTANT Waiters

VARIABLES
    phase,  \* "off", "starting", "failed", "ready"
    told    \* what each task's last wait reported: "nothing", "error", "ready"

Phases == {"off", "starting", "failed", "ready"}

Init == phase = "off" /\ told = [w \in Waiters |-> "nothing"]

Begin == phase = "off" /\ phase' = "starting" /\ UNCHANGED told

Fail == phase = "starting" /\ phase' = "failed" /\ UNCHANGED told

Recover == phase = "failed" /\ phase' = "starting" /\ UNCHANGED told

Finish == phase = "starting" /\ phase' = "ready" /\ UNCHANGED told

\* An error may still be reported while the next attempt is being made, never
\* before the start and never once the driver is ready.
Reports == [off |-> {"nothing"}, starting |-> {"nothing", "error"},
            failed |-> {"nothing", "error"}, ready |-> {"nothing", "ready"}]

Tell ==
    /\ told' \in [Waiters -> {"nothing", "error", "ready"}]
    /\ \A w \in Waiters : told'[w] # told[w] => told'[w] \in Reports[phase]
    /\ UNCHANGED phase

Next == Begin \/ Fail \/ Recover \/ Finish \/ Tell

Spec == Init /\ [][Next]_<<phase, told>>
==============================================================================
