------------------------- MODULE W5x00Startup_proofs -------------------------
(***************************************************************************)
(* Proofs about W5x00Startup.  The type invariant and the addresses hold   *)
(* wherever w5x00_start is called; the other results need that it returns  *)
(* before w5x00_task begins (CallerFirst).  That is so when it is called   *)
(* in main, before the scheduler runs, as the examples do, and when a task *)
(* calls it that w5x00_task does not preempt.                              *)
(***************************************************************************)
EXTENDS W5x00Startup, TLAPS

-----------------------------------------------------------------------------
(* Typing.                                                                   *)

\* Setting event bits leaves every call of w5x00_event_wait well-formed.
LEMMA SetBitsTyped ==
    ASSUME TypeOK, NEW b \in SUBSET Events, SetBits(b)
    PROVE  /\ bits' \subseteq Events
           /\ wait' \in [Waiters -> Calls]
  BY DEF TypeOK, SetBits, Calls

\* Each statement of w5x00_set_mac leaves addresses in all three places.
LEMMA SetMacTyped ==
    ASSUME TypeOK, (\E m \in Macs : WriteMac(m)) \/ WriteShar \/ CopyToNetif
    PROVE  mac' \in Macs /\ hwaddr' \in Macs /\ shar' \in Macs
  BY DEF TypeOK, WriteMac, WriteShar, CopyToNetif, Macs

\* The null-address rule of w5x00_task yields addresses.
LEMMA NormalisedTyped ==
    ASSUME NEW c \in Configs
    PROVE  Normalised(c) \in Configs
  BY OptionsAssumption DEF Normalised, AllDefault, Addresses, Configs

LEMMA TypeInit == Init => TypeOK
<1> SUFFICES ASSUME Init PROVE TypeOK
  OBVIOUS
<1>1. given \in Arguments
  BY DEF Init, Arguments
<1>2. config \in Configs
  BY DEF Init, Addresses, Configs
<1>3. wait \in [Waiters -> Calls]
  BY DEF Init, Calls
<1>4. QED
  BY <1>1, <1>2, <1>3 DEF Init, TypeOK, AppPcs, DrvPcs, States, Macs

LEMMA TypeStep == TypeOK /\ [Next]_vars => TypeOK'
<1> SUFFICES ASSUME TypeOK, [Next]_vars PROVE TypeOK'
  OBVIOUS
<1> USE DEF TypeOK
<1>1. CASE AppSetsMac
  <2>1. (\E m \in Macs : WriteMac(m)) \/ WriteShar \/ CopyToNetif
    BY <1>1 DEF AppSetsMac, Macs
  <2>2. mac' \in Macs /\ hwaddr' \in Macs /\ shar' \in Macs
    BY <2>1, SetMacTyped
  <2>3. QED
    BY <1>1, <2>2 DEF AppSetsMac, evVars, hwVars, netVars
<1>2. CASE CopyArguments
  <2>1. \A a \in ArgValues : Copied(a) \subseteq Addresses
    BY ArgAssumption DEF Copied, Addresses
  <2>2. /\ given' \in [dhcp : BOOLEAN, ip : ArgValues, nm : ArgValues, gw : ArgValues]
        /\ config' \in Configs
    BY <1>2, <2>1 DEF CopyArguments, Configs
  <2>3. given' \in Arguments
    BY <2>2 DEF Arguments
  <2>4. QED
    BY <1>2, <2>2, <2>3 DEF CopyArguments, Caller, AppPcs, evVars, hwVars, netVars, macVars
<1>3. CASE CreateGroup
  <2>1. group' \in BOOLEAN
    BY <1>3, OptionsAssumption, Zenon DEF CreateGroup
  <2>2. QED
    BY <1>3, <2>1 DEF CreateGroup, Caller, AppPcs, hwVars, netVars, macVars
<1>4. CASE CreateTask \/ SetStarting
  BY <1>4 DEF CreateTask, SetStarting, Caller, AppPcs, DrvPcs, BeforeNetif,
       States, evVars, hwVars, netVars, macVars
<1>5. CASE ResetChip \/ InitializeFails \/ InitializeSucceeds \/ CheckFails \/ CheckSucceeds
  BY <1>5 DEF ResetChip, InitializeFails, InitializeSucceeds, CheckFails, CheckSucceeds,
       Step, DrvPcs, BeforeNetif, States, evVars, hwVars, netVars, macVars
<1>6. CASE SignalError
  <2>1. /\ bits' \subseteq Events
        /\ wait' \in [Waiters -> Calls]
    BY <1>6, SetBitsTyped DEF SignalError, EventStep, Events
  <2>2. QED
    BY <1>6, <2>1 DEF SignalError, EventStep, Step, DrvPcs, BeforeNetif, hwVars, netVars, macVars
<1>7. CASE ProbeSucceeds \/ ClearError \/ TestProbe
  BY <1>7 DEF ProbeSucceeds, ClearError, ClearBits, TestProbe, EventStep, Step, DrvPcs,
       BeforeNetif, States, evVars, hwVars, netVars, macVars
<1>8. CASE DriverSetsMac
  <2>1. (\E m \in Macs : WriteMac(m)) \/ WriteShar \/ CopyToNetif
    BY <1>8 DEF DriverSetsMac
  <2>3. mac' \in Macs /\ hwaddr' \in Macs /\ shar' \in Macs
    BY <2>1, SetMacTyped
  <2>2. QED
    BY <1>8, <2>3 DEF DriverSetsMac, Step, DrvPcs, BeforeNetif, evVars, hwVars, netVars
<1>9. CASE AddNetif
  <2>1. config' \in Configs
    BY <1>9, NormalisedTyped DEF AddNetif
  <2>2. QED
    BY <1>9, <2>1 DEF AddNetif, Step, DrvPcs, AfterNetif, evVars, hwVars
<1>10. CASE SocketFails \/ SocketOpens \/ TestSocket \/ RestoreStarting \/ SetReady
  BY <1>10 DEF SocketFails, SocketOpens, TestSocket, RestoreStarting, SetReady,
       Step, DrvPcs, AfterNetif, States, evVars, hwVars, netVars, macVars
<1>11. CASE NetifUp
  BY <1>11 DEF NetifUp, Configs, Step, DrvPcs, AfterNetif, evVars, hwVars, macVars
<1>12. CASE InitCallback
  <2>1. mac' \in Macs /\ hwaddr' \in Macs /\ shar' \in Macs
    <3>1. CASE UNCHANGED <<mac, hwaddr, shar>>
      BY <3>1
    <3>2. CASE (\E m \in Macs : WriteMac(m)) \/ WriteShar \/ CopyToNetif
      BY <3>2, SetMacTyped
    <3>3. QED
      BY <1>12, <3>1, <3>2 DEF InitCallback, Macs
  <2>2. QED
    BY <1>12, <2>1 DEF InitCallback, Step, DrvPcs, AfterNetif, evVars, hwVars, netVars
<1>13. CASE SignalReady
  <2>1. /\ bits' \subseteq Events
        /\ wait' \in [Waiters -> Calls]
    BY <1>13, SetBitsTyped DEF SignalReady, EventStep, Events
  <2>2. QED
    BY <1>13, <2>1 DEF SignalReady, EventStep, Step, DrvPcs, AfterNetif, hwVars, netVars, macVars
<1>14. ASSUME NEW w \in Waiters, EventWait(w) PROVE TypeOK'
  BY <1>14 DEF EventWait, Calls, hwVars, netVars, macVars
<1>15. ASSUME NEW w \in Waiters, WaitTimesOut(w) PROVE TypeOK'
  BY <1>15 DEF WaitTimesOut, Calls, hwVars, netVars, macVars
<1>16. CASE UNCHANGED vars
  BY <1>16 DEF vars, evVars, hwVars, netVars, macVars
<1>17. QED
  BY <1>1, <1>2, <1>3, <1>4, <1>5, <1>6, <1>7, <1>8, <1>9, <1>10, <1>11, <1>12, <1>13,
     <1>14, <1>15, <1>16 DEF Next, Start, Driver

\* Every variable keeps its type: the caller, the driver task and the waiting
\* tasks write w5x00_state, the MAC addresses and the rest within their ranges.
THEOREM TypeCorrect == Spec => []TypeOK
  BY TypeInit, TypeStep, PTL DEF Spec

-----------------------------------------------------------------------------
(* The inductive invariant: what the driver task has achieved wherever it    *)
(* may be, and which values of w5x00_state and of the event bits it may      *)
(* find there.                                                               *)

Probing == {"reset", "initialize", "check", "error_bit", "probed", "clear_bit",
            "probe_test"}
SettingUp == {"set_mac", "set_mac_shar", "set_mac_netif", "add_netif"}
Opening == SettingUp \cup {"socket", "socket_test"}
InCallback == {"init_cb", "init_cb_shar", "init_cb_netif", "set_ready"}
Opened == {"restore", "netif_up"} \cup InCallback
Done == {"ready_bit", "loop"}

\* w5x00_start has returned when w5x00_task begins.
CallerFirst == drvPc \notin {"absent", "reset"} => appPc = "returned"

\* The caller does not overlap with the driver task.
StartFirst ==
    appPc # "returned" =>
       drvPc \in {"absent", "reset"} /\ state = "NOT_STARTED" /\ bits = {}

\* What has been set up when the driver is there.
SetUp ==
    /\ drvPc \in {"probed", "clear_bit"} \cup Opening \cup Opened \cup Done => chip = "verified"
    /\ drvPc \in Opened \cup Done => sock
    /\ drvPc = "socket_test" /\ state # "MACRAW_SOCKET_FAILED" => sock
    /\ drvPc \in InCallback \cup Done => netif = "up"
    /\ state = "READY" => chip = "verified" /\ sock /\ netif = "up"

\* The values of w5x00_state there, once the caller has returned.
StateThere ==
    appPc = "returned" =>
       /\ drvPc \in {"reset", "initialize", "check", "probed"} =>
             state \in ProbeErrors \cup {"STARTING"}
       /\ drvPc = "error_bit" => state \in ProbeErrors
       /\ drvPc \in {"clear_bit"} \cup SettingUp \cup Opened => state = "STARTING"
       /\ drvPc = "probe_test" =>
             state \in ProbeErrors \/ (state = "STARTING" /\ chip = "verified"
                                       /\ "ERROR" \notin bits)
       /\ drvPc \in {"socket", "socket_test"} => state \in {"STARTING", "MACRAW_SOCKET_FAILED"}
       /\ drvPc \in Done => state = "READY"
       /\ state # "NOT_STARTED"

\* The event bits there; without a group there are none, and the driver stops.
BitsThere ==
    /\ ~group => bits = {}
    /\ drvPc = "halted" => ~group
    /\ "READY" \in bits => drvPc = "loop"
    /\ "ERROR" \in bits => drvPc \in Probing

Control == StartFirst /\ SetUp /\ StateThere /\ BitsThere

IInv == TypeOK /\ Control

LEMMA ControlStep ==
    ASSUME IInv, [Next]_vars, CallerFirst, CallerFirst'
    PROVE  Control'
<1> USE DEF IInv, Control, StartFirst, SetUp, StateThere, BitsThere
<1> USE DEF Probing, SettingUp, Opening, InCallback, Opened, Done, ProbeErrors
<1>1. CASE AppSetsMac
  BY <1>1 DEF AppSetsMac, evVars, hwVars, netVars
<1>2. CASE CopyArguments
  BY <1>2 DEF CopyArguments, Caller, evVars, hwVars, netVars
<1>3. CASE CreateGroup
  BY <1>3 DEF CreateGroup, Caller, hwVars, netVars
<1>4. CASE CreateTask
  BY <1>4 DEF CreateTask, Caller, evVars, hwVars, netVars
<1>5. CASE SetStarting
  BY <1>5 DEF SetStarting, Caller, evVars, hwVars, netVars
<1> USE DEF Step, CallerFirst
<1>6. CASE ResetChip
  BY <1>6 DEF ResetChip, evVars, netVars
<1>7. CASE InitializeFails
  BY <1>7 DEF InitializeFails, evVars, hwVars, netVars
<1>8. CASE InitializeSucceeds
  BY <1>8 DEF InitializeSucceeds, evVars, netVars
<1>9. CASE CheckFails
  BY <1>9 DEF CheckFails, evVars, hwVars, netVars
<1>10. CASE CheckSucceeds
  BY <1>10 DEF CheckSucceeds, evVars, netVars
<1>11. CASE SignalError
  BY <1>11 DEF SignalError, EventStep, SetBits, hwVars, netVars
<1>12. CASE ProbeSucceeds
  BY <1>12 DEF ProbeSucceeds, evVars, hwVars, netVars
<1>13. CASE ClearError
  BY <1>13 DEF ClearError, EventStep, ClearBits, hwVars, netVars
<1>14. CASE TestProbe
  BY <1>14 DEF TestProbe, evVars, hwVars, netVars
<1>15. CASE DriverSetsMac
  BY <1>15 DEF DriverSetsMac, evVars, hwVars, netVars
<1>16. CASE AddNetif
  BY <1>16 DEF AddNetif, evVars, hwVars
<1>17. CASE SocketFails
  BY <1>17 DEF SocketFails, evVars, netVars
<1>18. CASE SocketOpens
  BY <1>18 DEF SocketOpens, evVars, netVars
<1>19. CASE TestSocket
  BY <1>19 DEF TestSocket, evVars, hwVars, netVars
<1>20. CASE RestoreStarting
  BY <1>20 DEF RestoreStarting, evVars, hwVars, netVars
<1>21. CASE NetifUp
  BY <1>21 DEF NetifUp, evVars, hwVars
<1>22. CASE InitCallback
  BY <1>22 DEF InitCallback, evVars, hwVars, netVars
<1>23. CASE SetReady
  BY <1>23 DEF SetReady, evVars, hwVars, netVars
<1>24. CASE SignalReady
  BY <1>24 DEF SignalReady, EventStep, SetBits, hwVars, netVars
<1>25. CASE \E w \in Waiters : EventWait(w) \/ WaitTimesOut(w)
  BY <1>25 DEF EventWait, WaitTimesOut, hwVars, netVars
<1>26. CASE UNCHANGED vars
  BY <1>26 DEF vars, evVars, hwVars, netVars
<1>27. QED
  BY <1>1, <1>2, <1>3, <1>4, <1>5, <1>6, <1>7, <1>8, <1>9, <1>10, <1>11, <1>12, <1>13,
     <1>14, <1>15, <1>16, <1>17, <1>18, <1>19, <1>20, <1>21, <1>22, <1>23, <1>24, <1>25,
     <1>26 DEF Next, Start, Driver

\* Before the scheduler no task runs: w5x00_start has returned when the driver
\* task begins.
THEOREM CallerFirstInMain == StartContext = "main" => (Spec => []CallerFirst)
<1> SUFFICES ASSUME StartContext = "main" PROVE Spec => []CallerFirst
  OBVIOUS
<1>1. Init => CallerFirst
  BY DEF Init, CallerFirst
<1>2. CallerFirst /\ [Next]_vars => CallerFirst'
  <2> SUFFICES ASSUME CallerFirst, [Next]_vars PROVE CallerFirst'
    OBVIOUS
  <2>1. CASE Start
    BY <2>1 DEF Start, CopyArguments, CreateGroup, CreateTask, SetStarting, Caller, CallerFirst
  <2>2. ASSUME NEW from, NEW to, Step(from, to) PROVE CallerFirst'
    BY <2>2 DEF Step, TasksRun, CallerFirst
  <2>3. CASE Driver
    BY <2>2, <2>3 DEF Driver, ResetChip, InitializeFails, InitializeSucceeds, CheckFails,
       CheckSucceeds, SignalError, ProbeSucceeds, ClearError, TestProbe, DriverSetsMac, AddNetif,
       SocketFails, SocketOpens, TestSocket, RestoreStarting, NetifUp, InitCallback, SetReady,
       SignalReady, EventStep
  <2>4. CASE UNCHANGED <<appPc, drvPc>>
    BY <2>4 DEF CallerFirst
  <2> QED
    BY <2>1, <2>3, <2>4 DEF Next, AppSetsMac, EventWait, WaitTimesOut, vars
<1> QED
  BY <1>1, <1>2, PTL DEF Spec

\* While the driver task begins only after w5x00_start has returned, every step
\* finds the state, the bits, the chip, the socket and the interface as the
\* steps before have left them.
THEOREM Inductive == Spec /\ []CallerFirst => []IInv
<1>1. Init => IInv
  BY TypeInit DEF IInv, Control, Init, StartFirst, SetUp, StateThere, BitsThere,
     SettingUp, Opening, InCallback, Opened, Done
<1>2. IInv /\ [Next]_vars /\ CallerFirst /\ CallerFirst' => IInv'
  BY TypeStep, ControlStep DEF IInv
<1>3. QED
  BY <1>1, <1>2, PTL DEF Spec

\* Started before the driver task, W5X00_READY is reached only with the chip
\* probed, the MACRAW socket open and the interface up, for any number of
\* failed probes and failed opens before.
THEOREM ReadyTruthful == Spec /\ []CallerFirst => []ReadyMeansInitialised
<1>1. IInv => ReadyMeansInitialised
  BY DEF IInv, Control, SetUp, ReadyMeansInitialised
<1>2. QED
  BY <1>1, Inductive, PTL

\* The event bits never contradict w5x00_state: READY is set only in the READY
\* state, and no ERROR of an earlier probe is left beside it.
THEOREM SignalsConsistent == Spec /\ []CallerFirst => []SignalsAgree
<1>1. IInv => SignalsAgree
  <2> SUFFICES ASSUME IInv, "READY" \in bits PROVE state = "READY" /\ "ERROR" \notin bits
    BY DEF SignalsAgree
  <2>1. drvPc = "loop"
    BY DEF IInv, Control, BitsThere
  <2>2. appPc = "returned"
    BY <2>1 DEF IInv, Control, StartFirst
  <2>3. QED
    BY <2>1, <2>2 DEF IInv, Control, StateThere, BitsThere, Probing, Done
<1>2. QED
  BY <1>1, Inductive, PTL

-----------------------------------------------------------------------------
(* READY is for ever, and who was told of it was told the truth.             *)

\* No step leaves the READY state.
LEMMA ReadyStep ==
    ASSUME IInv, [Next]_vars, CallerFirst, CallerFirst', state = "READY"
    PROVE  state' = "READY"
<1> USE DEF IInv, Control, StartFirst, StateThere, ProbeErrors, Opened
<1>1. CASE Start
  BY <1>1 DEF Start, CopyArguments, CreateGroup, CreateTask, SetStarting, Caller
<1>2. CASE InitializeFails \/ CheckFails \/ ProbeSucceeds \/ SocketFails \/ RestoreStarting
  BY <1>2 DEF InitializeFails, CheckFails, ProbeSucceeds, SocketFails, RestoreStarting,
       Step, CallerFirst
<1>3. CASE SetReady
  BY <1>3 DEF SetReady
<1>4. CASE \/ ResetChip \/ InitializeSucceeds \/ CheckSucceeds \/ SignalError \/ ClearError
           \/ TestProbe \/ DriverSetsMac \/ AddNetif \/ SocketOpens \/ TestSocket
           \/ NetifUp \/ InitCallback \/ SignalReady
  BY <1>4 DEF ResetChip, InitializeSucceeds, CheckSucceeds, SignalError, ClearError,
       TestProbe, DriverSetsMac, AddNetif, SocketOpens, TestSocket, NetifUp,
       InitCallback, SignalReady
<1>5. CASE AppSetsMac \/ \E w \in Waiters : EventWait(w) \/ WaitTimesOut(w)
  BY <1>5 DEF AppSetsMac, EventWait, WaitTimesOut
<1>6. CASE UNCHANGED vars
  BY <1>6 DEF vars
<1>7. QED
  BY <1>1, <1>2, <1>3, <1>4, <1>5, <1>6 DEF Next, Driver

\* Once READY the driver stays READY: neither w5x00_start, still returning,
\* nor a retry of w5x00_task writes the state again.
THEOREM ReadyStays == Spec /\ []CallerFirst => ReadyIsFinal
<1>1. /\ IInv /\ [Next]_vars /\ CallerFirst /\ CallerFirst'
      => [state = "READY" => state' = "READY"]_state
  BY ReadyStep
<1>2. QED
  BY <1>1, Inductive, PTL DEF Spec, ReadyIsFinal

\* A call of w5x00_event_wait is not touched by setting bits b, or returns with
\* what it wanted and all the bits of that moment.
LEMMA SetBitsResult ==
    ASSUME TypeOK, NEW b \in SUBSET Events, SetBits(b), NEW v \in Waiters
    PROVE  \/ wait'[v] = wait[v]
           \/ /\ wait'[v].got = bits \cup b
              /\ wait'[v].want = wait[v].want
              /\ wait[v].want \cap (bits \cup b) # {}
<1>1. wait[v] \in Calls
  BY DEF TypeOK
<1>2. CASE wait[v].pc = "blocked" /\ wait[v].want \cap (bits \cup b) # {}
  <2>1. wait'[v] = [wait[v] EXCEPT !.pc = "returned", !.got = bits \cup b]
    BY <1>2 DEF SetBits
  <2>2. QED
    BY <1>1, <1>2, <2>1 DEF Calls
<1>3. CASE ~(wait[v].pc = "blocked" /\ wait[v].want \cap (bits \cup b) # {})
  BY <1>3 DEF SetBits
<1>4. QED
  BY <1>2, <1>3

\* A call, and the end of a call by its timeout, gets the bits as they are.
LEMMA WaitResult ==
    ASSUME TypeOK, NEW w \in Waiters, EventWait(w) \/ WaitTimesOut(w), NEW v \in Waiters
    PROVE  wait'[v] = wait[v] \/ wait'[v].got \in {{}, bits}
<1>1. wait \in [Waiters -> Calls]
  BY DEF TypeOK
<1>2. CASE EventWait(w)
  BY <1>1, <1>2 DEF EventWait
<1>3. CASE WaitTimesOut(w)
  <2>1. wait[w] \in Calls
    BY <1>1
  <2>2. wait' = [wait EXCEPT ![w] = [wait[w] EXCEPT !.pc = "returned", !.got = bits]]
    BY <1>3 DEF WaitTimesOut
  <2>3. wait'[w].got = bits
    BY <1>1, <2>1, <2>2 DEF Calls
  <2>4. QED
    BY <1>1, <2>2, <2>3
<1>4. QED
  BY <1>2, <1>3

\* The bits a call of w5x00_event_wait returned with, against the state now.
ToldTruth ==
    \A w \in Waiters : wait[w].pc = "returned" /\ "READY" \in wait[w].got => state = "READY"

LEMMA ToldTruthStep ==
    ASSUME IInv, ToldTruth, [Next]_vars, CallerFirst, CallerFirst'
    PROVE  ToldTruth'
<1> USE DEF ToldTruth
<1>1. "READY" \in bits => state = "READY"
  BY DEF IInv, Control, StartFirst, StateThere, BitsThere, Done
<1>3. state = "READY" => state' = "READY"
  BY ReadyStep
<1>4. CASE UNCHANGED wait
  BY <1>3, <1>4
<1>5. CASE SignalError
  <2>1. CASE UNCHANGED wait
    BY <1>4, <2>1
  <2>2. CASE SetBits({"ERROR"})
    BY <1>1, <1>3, <2>2, SetBitsResult DEF Events, IInv
  <2>3. QED
    BY <1>5, <2>1, <2>2 DEF SignalError, EventStep
<1>6. CASE SignalReady
  <2>1. state = "READY"
    BY <1>6 DEF SignalReady, EventStep, Step, CallerFirst, IInv, Control, StateThere, Done
  <2>2. QED
    BY <2>1, <1>3
<1>7. ASSUME NEW w \in Waiters, EventWait(w) \/ WaitTimesOut(w) PROVE ToldTruth'
  BY <1>1, <1>3, <1>7, WaitResult DEF IInv
<1>8. CASE UNCHANGED vars
  BY <1>4, <1>8 DEF vars, evVars
<1>9. CASE AppSetsMac \/ Start
  BY <1>4, <1>9 DEF AppSetsMac, Start, CopyArguments, CreateGroup, CreateTask,
       SetStarting, evVars
<1>10. CASE Driver
  <2>1. CASE ClearError
    BY <1>4, <2>1 DEF ClearError, EventStep, ClearBits
  <2>2. QED
    BY <1>4, <1>5, <1>6, <1>10, <2>1
       DEF Driver, ResetChip, InitializeFails, InitializeSucceeds, CheckFails,
           CheckSucceeds, ProbeSucceeds, TestProbe, DriverSetsMac, AddNetif, SocketFails,
           SocketOpens, TestSocket, RestoreStarting, NetifUp, InitCallback, SetReady, evVars
<1>11. QED
  BY <1>7, <1>8, <1>9, <1>10 DEF Next

\* A W5X00_WAIT_READY that returned pdPASS tells the truth for as long as its
\* caller keeps the result.
THEOREM WaitReadyTruthful == Spec /\ []CallerFirst => []WaitReadyHolds
<1>1. Init => ToldTruth
  BY DEF Init, ToldTruth
<1>2. IInv /\ ToldTruth /\ [Next]_vars /\ CallerFirst /\ CallerFirst' => ToldTruth'
  BY ToldTruthStep
<1>3. ToldTruth => WaitReadyHolds
  BY DEF ToldTruth, WaitReadyHolds, Passed
<1>4. QED
  BY <1>1, <1>2, <1>3, Inductive, PTL DEF Spec

-----------------------------------------------------------------------------
(* The MAC address, started before the driver task; the IP addresses,        *)
(* wherever w5x00_start is called.                                           *)

\* The driver and its callback set the address before READY, so before any call
\* reaches the chip; a call of the application's is before w5x00_start or on a
\* driver that stays ready.
MacInv ==
    /\ drvPc \in {"set_mac_shar", "set_mac_netif", "add_netif"} => mac # "zero"
    /\ netif # "none" => mac # "zero"
    /\ drvPc \in {"absent"} \cup BeforeNetif => netif = "none"
    /\ drvPc \in AfterNetif => netif # "none"
    /\ macPc # "idle" => mac # "zero" /\ (appPc = "before" \/ state = "READY")
    /\ netif # "none" /\ ~SettingMac => hwaddr = mac
    /\ shar # "zero" => state = "READY"
    /\ shar # "zero" /\ macPc # "shar" => shar = mac

LEMMA MacInvStep ==
    ASSUME IInv, MacInv, [Next]_vars, CallerFirst, CallerFirst'
    PROVE  MacInv'
<1> USE DEF MacInv, SettingMac, BeforeNetif, AfterNetif
<1>1. state = "READY" => state' = "READY"
  BY ReadyStep
<1>2. ASSUME UNCHANGED <<macVars, netif>>, appPc' = appPc \/ macPc = "idle",
             drvPc' = drvPc \/ (drvPc' \notin {"set_mac_shar", "set_mac_netif", "add_netif",
                                              "init_cb_shar", "init_cb_netif"}
                                /\ (drvPc' \in AfterNetif => drvPc \in AfterNetif)
                                /\ (drvPc' \in BeforeNetif => drvPc \in BeforeNetif)
                                /\ drvPc' # "absent"
                                /\ drvPc \notin {"init_cb_shar", "init_cb_netif"})
      PROVE  MacInv'
  BY <1>1, <1>2 DEF macVars
<1>3. CASE AppSetsMac
  <2>1. CASE macPc = "idle" /\ macPc' = "shar" /\ (\E m \in Macs : WriteMac(m))
    BY <1>3, <2>1, <1>1 DEF AppSetsMac, WriteMac, netVars
  <2>2. CASE macPc = "shar" /\ macPc' = "netif" /\ WriteShar
    BY <1>3, <2>2, <1>1 DEF AppSetsMac, WriteShar, netVars
  <2>3. CASE macPc = "netif" /\ macPc' = "idle" /\ CopyToNetif
    BY <1>3, <2>3, <1>1 DEF AppSetsMac, CopyToNetif, netVars
  <2>4. QED
    BY <1>3, <2>1, <2>2, <2>3 DEF AppSetsMac, Macs
<1>4. CASE DriverSetsMac
  <2>1. state = "STARTING" /\ macPc = "idle" /\ shar = "zero" /\ netif = "none"
    BY <1>4 DEF DriverSetsMac, Step, CallerFirst, IInv, Control, StateThere, SettingUp
  <2>2. CASE drvPc = "set_mac" /\ drvPc' = "set_mac_shar" /\ WriteMac(mac)
    BY <1>4, <2>1, <2>2 DEF DriverSetsMac, WriteMac, netVars
  <2>3. CASE drvPc = "set_mac_shar" /\ drvPc' = "set_mac_netif" /\ WriteShar
    BY <1>4, <2>1, <2>3 DEF DriverSetsMac, WriteShar, netVars
  <2>4. CASE drvPc = "set_mac_netif" /\ drvPc' = "add_netif" /\ CopyToNetif
    BY <1>4, <2>1, <2>4 DEF DriverSetsMac, CopyToNetif, netVars
  <2>5. QED
    BY <1>4, <2>2, <2>3, <2>4 DEF DriverSetsMac, Step
<1>5. CASE AddNetif
  <2>1. state = "STARTING" /\ macPc = "idle" /\ shar = "zero"
    BY <1>5 DEF AddNetif, Step, CallerFirst, IInv, Control, StateThere, SettingUp
  <2>2. QED
    BY <1>5, <2>1 DEF AddNetif, Step
<1>6. CASE InitCallback
  <2>1. state = "STARTING" /\ macPc = "idle" /\ shar = "zero"
    BY <1>6 DEF InitCallback, Step, CallerFirst, IInv, Control, StateThere, InCallback, Opened
  <2>2. CASE drvPc = "init_cb" /\ drvPc' = "init_cb_shar" /\ \E m \in Macs : WriteMac(m)
    BY <1>6, <2>1, <2>2 DEF InitCallback, WriteMac, netVars
  <2>3. CASE drvPc = "init_cb_shar" /\ drvPc' = "init_cb_netif" /\ WriteShar
    BY <1>6, <2>1, <2>3 DEF InitCallback, WriteShar, netVars
  <2>4. CASE drvPc = "init_cb_netif" /\ drvPc' = "set_ready" /\ CopyToNetif
    BY <1>6, <2>1, <2>4 DEF InitCallback, Step, CopyToNetif, netVars
  <2>5. CASE drvPc = "init_cb" /\ drvPc' = "set_ready" /\ UNCHANGED <<mac, hwaddr, shar>>
    BY <1>6, <2>1, <2>5 DEF InitCallback, Step, netVars
  <2>6. QED
    BY <1>6, <2>2, <2>3, <2>4, <2>5 DEF InitCallback, Step, Macs
<1>7. CASE NetifUp
  BY <1>1, <1>7 DEF NetifUp, Step, macVars
<1>8. CASE Start
  BY <1>1, <1>8 DEF Start, CopyArguments, CreateGroup, CreateTask, SetStarting, Caller,
       netVars, macVars, IInv, Control, StartFirst
<1>9. CASE \/ ResetChip \/ InitializeFails \/ InitializeSucceeds \/ CheckFails
           \/ CheckSucceeds \/ SignalError \/ ProbeSucceeds \/ ClearError \/ TestProbe
  BY <1>2, <1>9 DEF ResetChip, InitializeFails, InitializeSucceeds, CheckFails, CheckSucceeds,
       SignalError, ProbeSucceeds, ClearError, TestProbe, EventStep, Step, netVars
<1>10. CASE \/ SocketFails \/ SocketOpens \/ TestSocket \/ RestoreStarting
            \/ SetReady \/ SignalReady
  BY <1>2, <1>10 DEF SocketFails, SocketOpens, TestSocket, RestoreStarting, SetReady,
       SignalReady, EventStep, Step, netVars
<1>11. CASE \E w \in Waiters : EventWait(w) \/ WaitTimesOut(w)
  BY <1>2, <1>11 DEF EventWait, WaitTimesOut, netVars
<1>12. CASE UNCHANGED vars
  BY <1>2, <1>12 DEF vars, netVars
<1>13. QED
  BY <1>3, <1>4, <1>5, <1>6, <1>7, <1>8, <1>9, <1>10, <1>11, <1>12 DEF Next, Driver

\* Started before the driver task, and called again on the ready driver,
\* w5x00_set_mac leaves no stale copy behind: from netif_add on the interface has
\* the driver's address, not all zero, and so has the chip once it was given one.
THEOREM MacConsistent == Spec /\ []CallerFirst => []MacAgreement
<1>1. Init => MacInv
  BY DEF Init, MacInv, AfterNetif, BeforeNetif, SettingMac
<1>2. IInv /\ MacInv /\ [Next]_vars /\ CallerFirst /\ CallerFirst' => MacInv'
  BY MacInvStep
<1>3. MacInv => MacAgreement
  BY DEF MacInv, MacAgreement, SettingMac
<1>4. QED
  BY <1>1, <1>2, <1>3, Inductive, PTL DEF Spec

\* Before netif_add the driver's configuration is the caller's, for pointers to
\* addresses; afterwards it is that configuration under the null-address rule.
Asked(c) ==
    "NULL" \notin {given.ip, given.nm, given.gw} =>
       c.dhcp = given.dhcp /\ c.ip = given.ip /\ c.nm = given.nm /\ c.gw = given.gw

AddressInv ==
    /\ appPc = "before" => drvPc = "absent"
    /\ appPc \in {"create_group", "create_task"} => drvPc = "absent"
    /\ drvPc \in {"absent"} \cup BeforeNetif => netif = "none"
    /\ drvPc \in AfterNetif => netif # "none"
    /\ netif = "none" => Asked(config)
    /\ NetworkUsable

\* For every argument that points to an address, every LWIP_DHCP and every
\* interleaving of the caller with the driver task, the interface gets the
\* addresses w5x00_start was given, or the whole default set when one of them is
\* null, there is no DHCP client and PREVENT_NULL_IP asks for it.  (A NULL
\* argument is outside: the code copies through it.)
THEOREM NetworkIsUsable == Spec => []NetworkUsable
<1>1. Init => AddressInv
  BY DEF Init, AddressInv, AfterNetif, Asked, NetworkUsable
<1>2. TypeOK /\ AddressInv /\ [Next]_vars => AddressInv'
  <2> SUFFICES ASSUME TypeOK, AddressInv, [Next]_vars PROVE AddressInv'
    OBVIOUS
  <2> USE DEF AddressInv, BeforeNetif, AfterNetif
  <2>0. ASSUME UNCHANGED <<appPc, given, config, netif>>,
               drvPc' = drvPc \/ (drvPc # "absent" /\ drvPc' # "absent"
                                  /\ (drvPc' \in BeforeNetif => drvPc \in BeforeNetif)
                                  /\ (drvPc' \in AfterNetif => drvPc \in AfterNetif))
        PROVE  AddressInv'
    BY <2>0 DEF Asked, NetworkUsable
  <2>1. CASE CopyArguments
    <3>1. netif = "none" /\ netif' = "none"
      BY <2>1 DEF CopyArguments, Caller, netVars
    <3>2. Asked(config)'
      BY <2>1 DEF CopyArguments, Copied, Asked
    <3>3. NetworkUsable'
      BY <3>1 DEF NetworkUsable
    <3>4. QED
      BY <2>1, <3>1, <3>2, <3>3 DEF CopyArguments, Caller
  <2>2. CASE CreateGroup \/ CreateTask \/ SetStarting
    BY <2>2 DEF CreateGroup, CreateTask, SetStarting, Caller, netVars, Asked, NetworkUsable
  <2>3. CASE AddNetif
    <3>1. config \in Configs /\ Asked(config) /\ config' = Normalised(config) /\ given' = given
      BY <2>3 DEF TypeOK, AddNetif, Step
    <3>2. NetworkUsable'
      <4>1. SUFFICES ASSUME "NULL" \notin {given.ip, given.nm, given.gw}
                     PROVE  NetworkUsable'
        BY <3>1 DEF NetworkUsable
      <4> DEFINE d == given.dhcp /\ LwipDhcp
      <4>2. /\ config.dhcp = given.dhcp /\ config.ip = given.ip
            /\ config.nm = given.nm /\ config.gw = given.gw
        BY <3>1, <4>1 DEF Asked
      <4>3. CASE ~d /\ PreventNullIp /\ "zero" \in {given.ip, given.nm, given.gw}
        <5>1. Normalised(config) = AllDefault(config.dhcp /\ LwipDhcp)
          BY <4>2, <4>3 DEF Normalised
        <5>2. QED
          BY <3>1, <4>2, <4>3, <5>1 DEF AllDefault, NetworkUsable
      <4>4. CASE ~(~d /\ PreventNullIp /\ "zero" \in {given.ip, given.nm, given.gw})
        <5>1. Normalised(config) = [config EXCEPT !.dhcp = config.dhcp /\ LwipDhcp]
          BY <4>2, <4>4 DEF Normalised
        <5>2. /\ config'.dhcp = (config.dhcp /\ LwipDhcp) /\ config'.ip = config.ip
              /\ config'.nm = config.nm /\ config'.gw = config.gw
          BY <3>1, <5>1 DEF Configs
        <5>3. QED
          BY <3>1, <4>2, <4>4, <5>2 DEF NetworkUsable
      <4>5. QED
        BY <4>3, <4>4
    <3>3. QED
      BY <2>3, <3>2 DEF AddNetif, Step
  <2>4. CASE NetifUp
    BY <2>4 DEF NetifUp, Step, Asked, NetworkUsable
  <2>5. CASE \/ ResetChip \/ InitializeFails \/ InitializeSucceeds \/ CheckFails
             \/ CheckSucceeds \/ SignalError \/ ProbeSucceeds \/ ClearError \/ TestProbe
             \/ DriverSetsMac
    BY <2>0, <2>5 DEF ResetChip, InitializeFails, InitializeSucceeds, CheckFails, CheckSucceeds,
         SignalError, ProbeSucceeds, ClearError, TestProbe, DriverSetsMac, EventStep, Step,
         netVars
  <2>6. CASE \/ SocketFails \/ SocketOpens \/ TestSocket \/ RestoreStarting
             \/ InitCallback \/ SetReady \/ SignalReady
    BY <2>0, <2>6 DEF SocketFails, SocketOpens, TestSocket, RestoreStarting, InitCallback,
         SetReady, SignalReady, EventStep, Step, netVars
  <2>7. CASE AppSetsMac \/ \E w \in Waiters : EventWait(w) \/ WaitTimesOut(w)
    BY <2>0, <2>7 DEF AppSetsMac, EventWait, WaitTimesOut, netVars
  <2>8. CASE UNCHANGED vars
    BY <2>0, <2>8 DEF vars, netVars
  <2>9. QED
    BY <2>1, <2>2, <2>3, <2>4, <2>5, <2>6, <2>7, <2>8 DEF Next, Start, Driver
<1>3. AddressInv => NetworkUsable
  BY DEF AddressInv
<1>4. QED
  BY <1>1, <1>2, <1>3, TypeCorrect, PTL DEF Spec

-----------------------------------------------------------------------------
(* Started before the driver task, the driver implements DriverLifecycle.    *)

\* What a task that is told the bits b learns is not, or no longer, false.
Honest(b) ==
    /\ "READY" \in b => state = "READY"
    /\ b # {} /\ "READY" \notin b => state \in ProbeErrors \cup {"STARTING"}

LEMMA BitsHonest == ASSUME IInv PROVE Honest(bits)
<1>1. CASE "READY" \in bits
  BY <1>1 DEF Honest, IInv, Control, StartFirst, StateThere, BitsThere, Done
<1>2. CASE bits = {}
  BY <1>2 DEF Honest
<1>3. CASE bits # {} /\ "READY" \notin bits
  <2>1. "ERROR" \in bits
    BY <1>3 DEF IInv, TypeOK, Events
  <2>2. appPc = "returned" /\ drvPc \in Probing
    BY <2>1 DEF IInv, Control, StartFirst, BitsThere
  <2>3. state \in ProbeErrors \cup {"STARTING"}
    BY <2>2 DEF IInv, Control, StateThere, Probing, ProbeErrors
  <2>4. QED
    BY <1>3, <2>3 DEF Honest
<1>4. QED
  BY <1>1, <1>2, <1>3

\* A step that hands honest bits to waiting tasks is the abstract Tell.
LEMMA TellStep ==
    ASSUME NEW b, Honest(b), UNCHANGED state,
           \A v \in Waiters : wait'[v] = wait[v] \/ wait'[v].got \in {{}, b}
    PROVE  Lifecycle!Tell
<1>1. Phase' = Phase
  BY DEF Phase
<1>2. Told' \in [Waiters -> {"nothing", "error", "ready"}]
  BY DEF Told
<1>3. ASSUME NEW v \in Waiters, Told'[v] # Told[v]
      PROVE  Told'[v] \in Lifecycle!Reports[Phase]
  <2>1. wait'[v] # wait[v]
    BY <1>3 DEF Told, Passed
  <2>2. wait'[v].got \in {{}, b}
    BY <2>1
  <2>3. CASE wait'[v].got \cap wait'[v].want = {}
    <3>1. Told'[v] = "nothing"
      BY <2>3 DEF Told, Passed
    <3>2. QED
      BY <3>1 DEF Phase, Lifecycle!Reports
  <2>4. CASE wait'[v].got \cap wait'[v].want # {} /\ "READY" \in wait'[v].got
    <3>1. Phase = "ready"
      BY <2>2, <2>4 DEF Honest, Phase
    <3>2. Told'[v] \in {"nothing", "ready"}
      BY <2>4 DEF Told, Passed
    <3>3. QED
      BY <3>1, <3>2 DEF Lifecycle!Reports
  <2>5. CASE wait'[v].got \cap wait'[v].want # {} /\ "READY" \notin wait'[v].got
    <3>1. state \in ProbeErrors \cup {"STARTING"}
      BY <2>2, <2>5 DEF Honest
    <3>2. Phase \in {"starting", "failed"}
      BY <3>1 DEF Phase, ProbeErrors
    <3>3. Told'[v] \in {"nothing", "error"}
      BY <2>5 DEF Told, Passed
    <3>4. QED
      BY <3>2, <3>3 DEF Lifecycle!Reports
  <2>6. QED
    BY <2>3, <2>4, <2>5
<1>4. QED
  BY <1>1, <1>2, <1>3 DEF Lifecycle!Tell

LEMMA LifecycleStep ==
    ASSUME IInv, [Next]_vars, CallerFirst, CallerFirst'
    PROVE  [Lifecycle!Next]_<<Phase, Told>>
<1> USE DEF Lifecycle!Next
<1>1. Honest(bits)
  BY BitsHonest
<1>2. ASSUME UNCHANGED <<state, wait>> PROVE UNCHANGED <<Phase, Told>>
  BY <1>2 DEF Phase, Told, Passed
<1>3. ASSUME UNCHANGED wait PROVE UNCHANGED Told
  BY <1>3 DEF Told, Passed
<1>4. CASE AppSetsMac \/ CopyArguments \/ CreateGroup \/ CreateTask
  BY <1>2, <1>4 DEF AppSetsMac, CopyArguments, CreateGroup, CreateTask, evVars
<1>5. CASE SetStarting
  <2>1. Phase = "off" /\ Phase' = "starting"
    BY <1>5 DEF SetStarting, Caller, IInv, Control, StartFirst, Phase
  <2>2. QED
    BY <1>3, <1>5, <2>1 DEF SetStarting, evVars, Lifecycle!Begin
<1>6. CASE \/ ResetChip \/ InitializeSucceeds \/ CheckSucceeds \/ ClearError
           \/ TestProbe \/ DriverSetsMac \/ AddNetif \/ SocketOpens \/ TestSocket
           \/ NetifUp \/ InitCallback
  BY <1>2, <1>6 DEF ResetChip, InitializeSucceeds, CheckSucceeds, ClearError, EventStep,
       ClearBits, TestProbe, DriverSetsMac, AddNetif, SocketOpens, TestSocket, NetifUp,
       InitCallback, evVars
<1>7. CASE InitializeFails \/ CheckFails \/ SocketFails
  <2>1. Phase \in {"starting", "failed"} /\ Phase' = "failed"
    BY <1>7 DEF InitializeFails, CheckFails, SocketFails, Step, CallerFirst, IInv, Control,
         StateThere, ProbeErrors, Phase
  <2>2. QED
    BY <1>3, <1>7, <2>1 DEF InitializeFails, CheckFails, SocketFails, evVars, Lifecycle!Fail
<1>8. CASE ProbeSucceeds \/ RestoreStarting
  <2>1. Phase \in {"starting", "failed"} /\ Phase' = "starting"
    BY <1>8 DEF ProbeSucceeds, RestoreStarting, Step, CallerFirst, IInv, Control,
         StateThere, ProbeErrors, Opened, Phase
  <2>2. QED
    BY <1>3, <1>8, <2>1 DEF ProbeSucceeds, RestoreStarting, evVars, Lifecycle!Recover
<1>9. CASE SetReady
  <2>1. Phase = "starting" /\ Phase' = "ready"
    BY <1>9 DEF SetReady, Step, CallerFirst, IInv, Control, StateThere, InCallback, Opened, Phase
  <2>2. QED
    BY <1>3, <1>9, <2>1 DEF SetReady, evVars, Lifecycle!Finish
<1>10. CASE SignalError
  <2>1. UNCHANGED state
    BY <1>10 DEF SignalError
  <2>2. CASE UNCHANGED wait
    BY <1>2, <2>1, <2>2
  <2>3. CASE SetBits({"ERROR"})
    <3>1. state \in ProbeErrors /\ "READY" \notin bits
      BY <1>10 DEF SignalError, EventStep, Step, CallerFirst, IInv, Control, StateThere, BitsThere
    <3>2. Honest(bits \cup {"ERROR"})
      BY <3>1 DEF Honest, ProbeErrors
    <3>3. \A v \in Waiters : wait'[v] = wait[v] \/ wait'[v].got \in {{}, bits \cup {"ERROR"}}
      BY <2>3, SetBitsResult DEF IInv, Events
    <3>4. QED
      BY <2>1, <3>2, <3>3, TellStep
  <2>4. QED
    BY <1>10, <2>2, <2>3 DEF SignalError, EventStep
<1>11. CASE SignalReady
  <2>1. UNCHANGED state
    BY <1>11 DEF SignalReady
  <2>2. CASE UNCHANGED wait
    BY <1>2, <2>1, <2>2
  <2>3. CASE SetBits({"READY"})
    <3>1. state = "READY"
      BY <1>11 DEF SignalReady, EventStep, Step, CallerFirst, IInv, Control, StateThere, Done
    <3>2. Honest(bits \cup {"READY"})
      BY <3>1 DEF Honest
    <3>3. \A v \in Waiters : wait'[v] = wait[v] \/ wait'[v].got \in {{}, bits \cup {"READY"}}
      BY <2>3, SetBitsResult DEF IInv, Events
    <3>4. QED
      BY <2>1, <3>2, <3>3, TellStep
  <2>4. QED
    BY <1>11, <2>2, <2>3 DEF SignalReady, EventStep
<1>12. ASSUME NEW w \in Waiters, EventWait(w) \/ WaitTimesOut(w)
       PROVE  [Lifecycle!Next]_<<Phase, Told>>
  <2>1. UNCHANGED state
    BY <1>12 DEF EventWait, WaitTimesOut
  <2>2. \A v \in Waiters : wait'[v] = wait[v] \/ wait'[v].got \in {{}, bits}
    BY <1>12, WaitResult DEF IInv
  <2>3. QED
    BY <1>1, <2>1, <2>2, TellStep
<1>13. CASE UNCHANGED vars
  BY <1>2, <1>13 DEF vars, evVars
<1>14. QED
  BY <1>4, <1>5, <1>6, <1>7, <1>8, <1>9, <1>10, <1>11, <1>12, <1>13 DEF Next, Start, Driver

\* Started before the driver task, the driver is to an application what
\* DriverLifecycle says, for any number of waiting tasks: it may fail and
\* recover, is ready once and for ever, and no wait reports what is not so.
THEOREM LifecycleImplemented == Spec /\ []CallerFirst => ImplementsLifecycle
<1>1. Init => Lifecycle!Init
  BY DEF Init, Lifecycle!Init, Phase, Told, Passed
<1>2. IInv /\ [Next]_vars /\ CallerFirst /\ CallerFirst' => [Lifecycle!Next]_<<Phase, Told>>
  BY LifecycleStep
<1>3. QED
  BY <1>1, <1>2, Inductive, PTL DEF Spec, ImplementsLifecycle, Lifecycle!Spec

-----------------------------------------------------------------------------
(* Nobody is forgotten, wherever w5x00_start is called.  That a wait for an   *)
(* error ends (ErrorWaiterReturns) needs fairness; what is proved here is    *)
(* that no bit is set past a task that waits for it.                         *)

Waits(w) == wait[w].pc = "blocked" => wait[w].want \in Wants /\ wait[w].want \cap bits = {}
WaitInv ==
    /\ \A w \in Waiters : Waits(w)
    /\ drvPc = "loop" => "READY" \in bits

\* Once the driver task is in its loop, only a wait for an error is blocked.
NoForgottenWaiter ==
    drvPc = "loop" => \A w \in Waiters : wait[w].pc = "blocked" => wait[w].want = {"ERROR"}

\* Setting bits leaves nobody blocked whose condition holds.
LEMMA SetBitsWakes ==
    ASSUME TypeOK, WaitInv, NEW b \in SUBSET Events, SetBits(b), NEW w \in Waiters
    PROVE  Waits(w)'
<1>1. wait[w] \in Calls
  BY DEF TypeOK
<1>2. CASE wait[w].pc = "blocked" /\ wait[w].want \cap (bits \cup b) # {}
  <2>1. wait'[w] = [wait[w] EXCEPT !.pc = "returned", !.got = bits \cup b]
    BY <1>2 DEF SetBits
  <2> QED
    BY <1>1, <2>1 DEF Waits, Calls
<1>3. CASE ~(wait[w].pc = "blocked" /\ wait[w].want \cap (bits \cup b) # {})
  <2>1. wait'[w] = wait[w] /\ bits' = bits \cup b
    BY <1>3 DEF SetBits
  <2> QED
    BY <1>3, <2>1 DEF Waits, WaitInv
<1> QED
  BY <1>2, <1>3

LEMMA WaitStep ==
    ASSUME TypeOK, NEW w \in Waiters, EventWait(w) \/ WaitTimesOut(w), NEW v \in Waiters, Waits(v)
    PROVE  Waits(v)'
<1>1. wait \in [Waiters -> Calls] /\ wait[w] \in Calls
  BY DEF TypeOK
<1>2. CASE EventWait(w)
  BY <1>1, <1>2 DEF EventWait, Waits
<1>3. CASE WaitTimesOut(w)
  <2>1. wait' = [wait EXCEPT ![w] = [wait[w] EXCEPT !.pc = "returned", !.got = bits]]
        /\ bits' = bits
    BY <1>3 DEF WaitTimesOut
  <2>2. wait'[w].pc = "returned"
    BY <1>1, <2>1 DEF Calls
  <2> QED
    BY <1>1, <2>1, <2>2 DEF Waits
<1> QED
  BY <1>2, <1>3

LEMMA WaitInvStep == TypeOK /\ WaitInv /\ [Next]_vars => WaitInv'
<1> SUFFICES ASSUME TypeOK, WaitInv, [Next]_vars PROVE WaitInv'
  OBVIOUS
<1>1. ASSUME UNCHANGED <<bits, wait>>, drvPc' = "loop" => drvPc = "loop" PROVE WaitInv'
  BY <1>1 DEF WaitInv, Waits
<1>2. CASE Start
  BY <1>1, <1>2 DEF Start, CopyArguments, CreateGroup, CreateTask, SetStarting, Caller, evVars
<1>3. CASE SignalError \/ SignalReady
  <2>1. CASE ~group
    BY <1>1, <1>3, <2>1 DEF SignalError, SignalReady, EventStep, Step
  <2>2. CASE group
    <3>1. PICK b \in SUBSET Events : SetBits(b) /\ (drvPc' = "loop" => "READY" \in b)
      BY <1>3, <2>2 DEF SignalError, SignalReady, EventStep, Step, Events
    <3> QED
      BY <3>1, SetBitsWakes DEF WaitInv, SetBits
  <2> QED
    BY <2>1, <2>2 DEF TypeOK
<1>4. CASE ClearError
  BY <1>4 DEF ClearError, EventStep, ClearBits, Step, WaitInv, Waits
<1>5. CASE Driver /\ ~SignalError /\ ~SignalReady /\ ~ClearError
  BY <1>1, <1>5 DEF Driver, ResetChip, InitializeFails, InitializeSucceeds, CheckFails,
     CheckSucceeds, ProbeSucceeds, TestProbe, DriverSetsMac, AddNetif, SocketFails,
     SocketOpens, TestSocket, RestoreStarting, NetifUp, InitCallback, SetReady, Step, evVars
<1>6. ASSUME NEW w \in Waiters, EventWait(w) \/ WaitTimesOut(w) PROVE WaitInv'
  BY <1>6, WaitStep DEF WaitInv, EventWait, WaitTimesOut
<1> QED
  BY <1>1, <1>2, <1>3, <1>4, <1>5, <1>6 DEF Next, AppSetsMac, vars, evVars

\* When the driver task has reached its loop, no task is left blocked in
\* W5X00_WAIT_READY or W5X00_WAIT_DONE, however its call interleaved with the
\* setting of the bit.
THEOREM NobodyLeftWaiting == Spec => []NoForgottenWaiter
<1>1. Init => WaitInv
  BY DEF Init, WaitInv, Waits
<1>2. WaitInv => NoForgottenWaiter
  BY DEF WaitInv, Waits, Wants, NoForgottenWaiter
<1> QED
  BY <1>1, <1>2, WaitInvStep, TypeCorrect, PTL DEF Spec
==============================================================================
