----------------------------- MODULE W5x00Startup -----------------------------
(***************************************************************************)
(* Start-up of the driver: w5x00_start (the caller), the part of           *)
(* w5x00_task before its infinite loop (the driver task), w5x00_set_mac,   *)
(* and the application tasks blocked in w5x00_event_wait.                  *)
(*                                                                         *)
(* The caller and the driver task share the global w5x00_state, read and   *)
(* written without a lock ("it is threaten as atomic"), so every access    *)
(* to it is a step of its own.  w5x00_set_mac ("unthreadsafe") writes its   *)
(* three copies of the address one by one too, for each of its callers.    *)
(* The build modelled is the default one,                                  *)
(* polling and with the link check: no W5X00_SET_CB here, and the link     *)
(* belongs to module LinkStatus.                                           *)
(***************************************************************************)
EXTENDS Naturals

CONSTANTS
    Waiters,        \* application tasks that call w5x00_event_wait
    StartContext,   \* "main": before vTaskStartScheduler; "task": from a task
    SocketCanFail,  \* may socket(0, Sn_MR_MACRAW, ...) return an error?
    HeapCanFail,    \* may xEventGroupCreate and xTaskCreate fail?
    LwipDhcp,       \* LWIP_DHCP of lwipopts.h
    PreventNullIp,  \* PREVENT_NULL_IP of w5x00opts.h
    ArgValues       \* what the caller may pass for ip, nm and gw

ASSUME StartContextAssumption == StartContext \in {"main", "task"}
ASSUME OptionsAssumption ==
    /\ SocketCanFail \in BOOLEAN
    /\ HeapCanFail \in BOOLEAN
    /\ LwipDhcp \in BOOLEAN
    /\ PreventNullIp \in BOOLEAN
ASSUME ArgAssumption == ArgValues \subseteq {"NULL", "zero", "user"}

VARIABLES
    appPc,    \* where the caller of w5x00_start is
    drvPc,    \* where w5x00_task is
    state,    \* w5x00_state
    group,    \* w5x00_event_group exists
    bits,     \* its READY and ERROR bits
    given,    \* the arguments of w5x00_start, never written again
    config,   \* the globals dhcp, ip, nm and gw
    chip,     \* the W5x00: "off", "reset", "configured", "verified"
    sock,     \* its socket 0 is open in MACRAW mode
    netif,    \* g_netif: "none", "added", "up"
    dhcp,     \* dhcp_start has been called
    mac,      \* the driver's copy of the MAC address
    hwaddr,   \* g_netif.hwaddr
    shar,     \* the chip's source hardware address register; "zero": not written
    macPc,    \* where the application's call of w5x00_set_mac is
    wait      \* the call of w5x00_event_wait of each application task

evVars == <<group, bits, wait>>
hwVars == <<chip, sock>>
netVars == <<netif, dhcp>>
macVars == <<mac, hwaddr, shar, macPc>>
vars == <<appPc, drvPc, state, given, config, evVars, hwVars, netVars, macVars>>

States == {"NOT_STARTED", "STARTING", "CHIP_INIT_FAILED",
           "CHIP_NOT_DETECTED", "MACRAW_SOCKET_FAILED", "READY"}
ProbeErrors == {"CHIP_INIT_FAILED", "CHIP_NOT_DETECTED"}
Events == {"READY", "ERROR"}
Wants == {{"READY"}, {"ERROR"}, {"READY", "ERROR"}}
\* The contents of an ip4_addr_t: "rom" is what memcpy reads through NULL.
Addresses == {"zero", "user", "default", "rom"}
Configs == [dhcp : BOOLEAN, ip : Addresses, nm : Addresses, gw : Addresses]
Arguments == LET A == ArgValues \cup {"zero"}
             IN  [dhcp : BOOLEAN, ip : A, nm : A, gw : A]
\* One call of w5x00_event_wait: with a timeout or without, and the bits it got.
Calls == [pc : {"idle", "blocked", "returned", "assert"}, want : Wants \cup {{}},
          timed : BOOLEAN, got : SUBSET Events]
Macs == {"zero", "user", "other", "board"}

AppPcs == {"before", "create_group", "create_task", "set_state", "returned"}
BeforeNetif == {"reset", "initialize", "check", "error_bit", "probed",
                "clear_bit", "probe_test", "set_mac", "set_mac_shar",
                "set_mac_netif", "add_netif"}
AfterNetif == {"socket", "socket_test", "restore", "netif_up", "init_cb",
               "init_cb_shar", "init_cb_netif", "set_ready", "ready_bit", "loop"}
DrvPcs == {"absent", "halted"} \cup BeforeNetif \cup AfterNetif

Init ==
    /\ appPc = "before" /\ drvPc = "absent"
    /\ state = "NOT_STARTED"
    /\ group = FALSE /\ bits = {}
    /\ given = [dhcp |-> FALSE, ip |-> "zero", nm |-> "zero", gw |-> "zero"]
    /\ config = given
    /\ chip = "off" /\ sock = FALSE
    /\ netif = "none" /\ dhcp = FALSE
    /\ mac = "zero" /\ hwaddr = "zero" /\ shar = "zero" /\ macPc = "idle"
    /\ wait = [w \in Waiters |->
                 [pc |-> "idle", want |-> {}, timed |-> FALSE, got |-> {}]]

(***************************************************************************)
(* FreeRTOS event groups, as the driver uses them.  Setting bits unblocks  *)
(* every task whose condition now holds, and hands it the bits of that     *)
(* moment: clearing them later does not take them back.                    *)
(***************************************************************************)
SetBits(b) ==
    /\ bits' = bits \cup b
    /\ wait' = [w \in Waiters |->
                  IF wait[w].pc = "blocked" /\ wait[w].want \cap (bits \cup b) # {}
                  THEN [wait[w] EXCEPT !.pc = "returned", !.got = bits \cup b]
                  ELSE wait[w]]

ClearBits(b) == bits' = bits \ b /\ UNCHANGED wait

-----------------------------------------------------------------------------
(* The caller: w5x00_set_mac, and w5x00_start statement by statement.        *)

\* w5x00_set_mac(m) is three statements, each a step of its caller.  First the
\* driver's copy; "zero" stands for NULL too.
WriteMac(m) ==
    /\ mac' = IF m = "zero" THEN "board" ELSE m
    /\ UNCHANGED <<hwaddr, shar>>

\* Variant: the chip is written by the first call only.
WriteSharOnce ==
    /\ shar' = IF state = "READY" /\ shar = "zero" THEN mac ELSE shar
    /\ UNCHANGED <<mac, hwaddr>>

\* Then the chip, by bus accesses, when the driver is ready and only then.
WriteShar ==
    /\ shar' = IF state = "READY" THEN mac ELSE shar
    /\ UNCHANGED <<mac, hwaddr>>

\* Last the interface, which may not have been added yet.
CopyToNetif == hwaddr' = mac /\ UNCHANGED <<mac, shar>>

\* The application calls it before w5x00_start, in the same thread, or, in one
\* task, on a ready driver.
AppSetsMac ==
    /\ \/ /\ macPc = "idle" /\ macPc' = "shar"
          /\ appPc = "before" \/ state = "READY"
          /\ \E m \in {"zero", "user", "other"} : WriteMac(m)
       \/ macPc = "shar" /\ macPc' = "netif" /\ WriteShar
       \/ macPc = "netif" /\ macPc' = "idle" /\ CopyToNetif
    /\ UNCHANGED <<appPc, drvPc, state, given, config, evVars, hwVars, netVars>>

Caller(from, to) == appPc = from /\ appPc' = to /\ UNCHANGED <<hwVars, netVars, macVars>>

\* Variant: the pointer is taken for the address it points to.
CopiedPointer(a) == {a}

\* memcpy from the caller's pointer; through NULL it reads whatever is there,
\* although the header promises the default address for NULL.
Copied(a) == IF a = "NULL" THEN {"zero", "rom"} ELSE {a}

CopyArguments ==
    /\ Caller("before", "create_group")
    /\ macPc = "idle"
    /\ given' \in [dhcp : BOOLEAN, ip : ArgValues, nm : ArgValues, gw : ArgValues]
    /\ \E i \in Copied(given'.ip), n \in Copied(given'.nm), g \in Copied(given'.gw) :
          config' = [dhcp |-> given'.dhcp, ip |-> i, nm |-> n, gw |-> g]
    /\ UNCHANGED <<drvPc, state, evVars>>

\* Neither this result nor the next one is looked at: NULL stays in the
\* handle, and a task that was not created is not reported.
CreateGroup ==
    /\ Caller("create_group", "create_task")
    /\ group' \in {TRUE, ~HeapCanFail}
    /\ UNCHANGED <<drvPc, state, given, config, bits, wait>>

CreateTask ==
    /\ Caller("create_task", "set_state")
    /\ drvPc' \in {"reset", IF HeapCanFail THEN "absent" ELSE "reset"}
    /\ UNCHANGED <<state, given, config, evVars>>

SetStarting ==
    /\ Caller("set_state", "returned")
    /\ state' = "STARTING"
    /\ UNCHANGED <<drvPc, given, config, evVars>>

-----------------------------------------------------------------------------
(* The driver task, up to its infinite loop.                                 *)

\* The examples call w5x00_start in main, before vTaskStartScheduler: no task
\* runs before it has returned.  Called from a task, it can be preempted.
TasksRun == StartContext = "task" \/ appPc = "returned"

Step(from, to) ==
    TasksRun /\ drvPc = from /\ drvPc' = to /\ UNCHANGED <<appPc, given>>

\* An event operation; without a group it stops the task in the kernel's
\* configASSERT.
EventStep(from, operation, to) ==
    \/ group /\ operation /\ Step(from, to)
    \/ ~group /\ Step(from, "halted") /\ UNCHANGED <<bits, wait>>

\* wizchip_reset, after the task's delay and bus set-up, and in every retry.
ResetChip ==
    /\ Step("reset", "initialize")
    /\ chip' = "reset"
    /\ UNCHANGED <<state, config, evVars, sock, netVars, macVars>>

InitializeFails ==
    /\ Step("initialize", "error_bit")
    /\ state' = "CHIP_INIT_FAILED"
    /\ UNCHANGED <<config, evVars, hwVars, netVars, macVars>>

\* wizchip_initialize registers the bus functions and divides the chip's
\* memory between its sockets (CW_INIT_WIZCHIP).
InitializeSucceeds ==
    /\ Step("initialize", "check")
    /\ chip' = "configured"
    /\ UNCHANGED <<state, config, evVars, sock, netVars, macVars>>

CheckFails ==
    /\ Step("check", "error_bit")
    /\ state' = "CHIP_NOT_DETECTED"
    /\ UNCHANGED <<config, evVars, hwVars, netVars, macVars>>

\* wizchip_check has read the version it expects.
CheckSucceeds ==
    /\ Step("check", "probed")
    /\ chip' = "verified"
    /\ UNCHANGED <<state, config, evVars, sock, netVars, macVars>>

\* Variant: the failed probe is recorded in the state only.
SignalErrorForgotten ==
    /\ Step("error_bit", "probe_test")
    /\ UNCHANGED <<state, config, evVars, hwVars, netVars, macVars>>

SignalError ==
    /\ EventStep("error_bit", SetBits({"ERROR"}), "probe_test")
    /\ UNCHANGED <<state, group, config, hwVars, netVars, macVars>>

ProbeSucceeds ==
    /\ Step("probed", "clear_bit")
    /\ state' = "STARTING"
    /\ UNCHANGED <<config, evVars, hwVars, netVars, macVars>>

\* Variant: a probe that succeeds leaves the bit of the one that failed.
ClearErrorForgotten ==
    /\ Step("clear_bit", "probe_test")
    /\ UNCHANGED <<state, config, evVars, hwVars, netVars, macVars>>

ClearError ==
    /\ EventStep("clear_bit", ClearBits({"ERROR"}), "probe_test")
    /\ UNCHANGED <<state, group, config, hwVars, netVars, macVars>>

\* Variant: only one of the two errors is tried again.
TestProbeInitOnly ==
    /\ Step("probe_test", IF state = "CHIP_INIT_FAILED" THEN "reset" ELSE "set_mac")
    /\ UNCHANGED <<state, config, evVars, hwVars, netVars, macVars>>

\* Variant: the driver gives up after a failed probe.
TestProbeOnce ==
    /\ Step("probe_test", IF state \in ProbeErrors THEN "halted" ELSE "set_mac")
    /\ UNCHANGED <<state, config, evVars, hwVars, netVars, macVars>>

\* The loop condition reads the global again, after the delay of a failed try.
TestProbe ==
    /\ Step("probe_test", IF state \in ProbeErrors THEN "reset" ELSE "set_mac")
    /\ UNCHANGED <<state, config, evVars, hwVars, netVars, macVars>>

\* w5x00_set_mac(mac): a null address becomes the board's.
DriverSetsMac ==
    /\ \/ Step("set_mac", "set_mac_shar") /\ WriteMac(mac)
       \/ Step("set_mac_shar", "set_mac_netif") /\ WriteShar
       \/ Step("set_mac_netif", "add_netif") /\ CopyToNetif
    /\ UNCHANGED <<state, config, evVars, hwVars, netVars, macPc>>

AllDefault(d) == [dhcp |-> d, ip |-> "default", nm |-> "default", gw |-> "default"]

\* Variant: the defaults are used only when all three addresses are null.
NormalisedAllNull(c) ==
    LET d == c.dhcp /\ LwipDhcp
    IN  IF ~d /\ PreventNullIp /\ {"zero"} = {c.ip, c.nm, c.gw}
        THEN AllDefault(d) ELSE [c EXCEPT !.dhcp = d]

\* dhcp = 0 without LWIP_DHCP; without DHCP, one null address replaces all three.
Normalised(c) ==
    LET d == c.dhcp /\ LwipDhcp
    IN  IF ~d /\ PreventNullIp /\ "zero" \in {c.ip, c.nm, c.gw}
        THEN AllDefault(d) ELSE [c EXCEPT !.dhcp = d]

\* tcpip_init, the addresses, netif_add (which calls netif_initialize: that
\* copies mac to the interface).
AddNetif ==
    /\ Step("add_netif", "socket")
    /\ config' = Normalised(config)
    /\ netif' = "added"
    /\ hwaddr' = mac
    /\ UNCHANGED <<state, evVars, hwVars, dhcp, mac, shar, macPc>>

\* socket() closes socket 0 before it opens it again.
SocketFails ==
    /\ SocketCanFail
    /\ Step("socket", "socket_test")
    /\ sock' = FALSE
    /\ state' = "MACRAW_SOCKET_FAILED"
    /\ UNCHANGED <<config, evVars, chip, netVars, macVars>>

\* The success path writes no state.
SocketOpens ==
    /\ Step("socket", "socket_test")
    /\ sock' = TRUE
    /\ UNCHANGED <<state, config, evVars, chip, netVars, macVars>>

TestSocket ==
    /\ Step("socket_test", IF state = "MACRAW_SOCKET_FAILED" THEN "socket" ELSE "restore")
    /\ UNCHANGED <<state, config, evVars, hwVars, netVars, macVars>>

RestoreStarting ==
    /\ Step("restore", "netif_up")
    /\ state' = "STARTING"
    /\ UNCHANGED <<config, evVars, hwVars, netVars, macVars>>

\* netif_set_up, then dhcp_start if DHCP was asked for.
NetifUp ==
    /\ Step("netif_up", "init_cb")
    /\ netif' = "up"
    /\ dhcp' = config.dhcp
    /\ UNCHANGED <<state, config, evVars, hwVars, macVars>>

\* The user's callback may set the MAC address (examples/dhcp_dns says so).
InitCallback ==
    /\ \/ /\ Step("init_cb", "init_cb_shar")
          /\ \E m \in {"zero", "user", "other"} : WriteMac(m)
       \/ Step("init_cb_shar", "init_cb_netif") /\ WriteShar
       \/ Step("init_cb_netif", "set_ready") /\ CopyToNetif
       \/ Step("init_cb", "set_ready") /\ UNCHANGED <<mac, hwaddr, shar>>
    /\ UNCHANGED <<state, config, evVars, hwVars, netVars, macPc>>

\* Variant: the event is sent instead of the state being written first.
SetReadyLater ==
    /\ EventStep("set_ready", SetBits({"READY"}), "ready_bit")
    /\ UNCHANGED <<state, group, config, hwVars, netVars, macVars>>

SetReady ==
    /\ Step("set_ready", "ready_bit")
    /\ state' = "READY"
    /\ UNCHANGED <<config, evVars, hwVars, netVars, macVars>>

SignalReady ==
    /\ EventStep("ready_bit", SetBits({"READY"}), "loop")
    /\ UNCHANGED <<state, group, config, hwVars, netVars, macVars>>

-----------------------------------------------------------------------------
(* w5x00_event_wait, called by application tasks through W5X00_WAIT_...      *)

\* A wait returns at once when one wanted bit is set, and otherwise blocks (one
\* is enough, whatever the header says of "all specified bits"); before
\* w5x00_start there is no group, and configASSERT stops the task.
EventWait(w) ==
    /\ TasksRun
    /\ wait[w].pc \in {"idle", "returned"}
    /\ \E wanted \in Wants, t \in BOOLEAN :
         LET pc == IF ~group THEN "assert"
                   ELSE IF bits \cap wanted # {} THEN "returned" ELSE "blocked"
         IN  wait' = [wait EXCEPT ![w] =
                        [pc |-> pc, want |-> wanted, timed |-> t,
                         got |-> IF pc = "returned" THEN bits ELSE {}]]
    /\ UNCHANGED <<appPc, drvPc, state, given, config, group, bits, hwVars,
                   netVars, macVars>>

WaitTimesOut(w) ==
    /\ wait[w].pc = "blocked" /\ wait[w].timed
    /\ wait' = [wait EXCEPT ![w].pc = "returned", ![w].got = bits]
    /\ UNCHANGED <<appPc, drvPc, state, given, config, group, bits, hwVars,
                   netVars, macVars>>

\* if (bits & wanted_bits) return pdPASS: any of them, not "all desired bits".
Passed(w) == wait[w].pc = "returned" /\ wait[w].got \cap wait[w].want # {}

-----------------------------------------------------------------------------
Start == CopyArguments \/ CreateGroup \/ CreateTask \/ SetStarting

Driver ==
    \/ ResetChip \/ InitializeFails \/ InitializeSucceeds \/ CheckFails
    \/ CheckSucceeds \/ SignalError \/ ProbeSucceeds \/ ClearError \/ TestProbe
    \/ DriverSetsMac \/ AddNetif \/ SocketFails \/ SocketOpens
    \/ TestSocket \/ RestoreStarting \/ NetifUp \/ InitCallback \/ SetReady
    \/ SignalReady

Next ==
    \/ AppSetsMac \/ Start \/ Driver
    \/ \E w \in Waiters : EventWait(w) \/ WaitTimesOut(w)

Spec == Init /\ [][Next]_vars

\* The caller returns and the driver task, near the top priority and never
\* blocked without a timeout, keeps running; nothing is assumed of the chip.
FairSpec == Spec /\ WF_vars(Start) /\ WF_vars(Driver)

-----------------------------------------------------------------------------
TypeOK ==
    /\ appPc \in AppPcs /\ drvPc \in DrvPcs
    /\ state \in States
    /\ group \in BOOLEAN /\ bits \subseteq Events
    /\ given \in Arguments
    /\ config \in Configs
    /\ chip \in {"off", "reset", "configured", "verified"} /\ sock \in BOOLEAN
    /\ netif \in {"none", "added", "up"} /\ dhcp \in BOOLEAN
    /\ mac \in Macs /\ hwaddr \in Macs /\ shar \in Macs
    /\ macPc \in {"idle", "shar", "netif"}
    /\ wait \in [Waiters -> Calls]

\* W5X00_READY: "Succesfully initialized and ready!" (the enum).  The chip was
\* probed, its MACRAW socket is open and the interface is up.
ReadyMeansInitialised ==
    state = "READY" => chip = "verified" /\ sock /\ netif = "up"

\* The event bits never contradict the state: the READY bit appears only in
\* the READY state, and no earlier ERROR is left beside it.
SignalsAgree == "READY" \in bits => state = "READY" /\ "ERROR" \notin bits

\* W5X00_WAIT_READY that returns pdPASS tells the truth, however late its
\* caller runs after the driver has set the bit.
WaitReadyHolds ==
    \A w \in Waiters : Passed(w) /\ wait[w].want = {"READY"} => state = "READY"

\* What the caller asked for is what the interface gets: its own addresses, or,
\* with PREVENT_NULL_IP and without a DHCP client, the whole default set when one
\* of them is null.  Said of pointers to addresses only: for NULL the header
\* promises the defaults, and the code copies what lies at address 0.
NetworkUsable ==
    LET asked == {given.ip, given.nm, given.gw}
        noClient == ~(given.dhcp /\ LwipDhcp)
    IN  netif # "none" /\ "NULL" \notin asked =>
           /\ config.dhcp = ~noClient
           /\ IF PreventNullIp /\ noClient /\ "zero" \in asked
              THEN {config.ip, config.nm, config.gw} = {"default"}
              ELSE config.ip = given.ip /\ config.nm = given.nm /\ config.gw = given.gw

\* A call of w5x00_set_mac is under way.
SettingMac ==
    \/ macPc # "idle"
    \/ drvPc \in {"set_mac_shar", "set_mac_netif", "init_cb_shar", "init_cb_netif"}

\* Between two calls of w5x00_set_mac no copy of the address is stale: from
\* netif_add on, the interface has the driver's, which is not all zero, and so
\* has the chip once it was given one.  (No call before READY gives it one.)
MacAgreement ==
    netif # "none" /\ ~SettingMac =>
       hwaddr = mac /\ mac # "zero" /\ shar \in {"zero", mac}

\* The READY state is never left: neither by the caller still inside
\* w5x00_start nor by a retry of the driver.
ReadyIsFinal == [][state = "READY" => state' = "READY"]_state

\* Two failures set no ERROR bit: a MACRAW socket that does not open, and a
\* driver task that was not created.
SilentFailure ==
    state = "MACRAW_SOCKET_FAILED" \/ (appPc = "returned" /\ drvPc = "absent")

\* W5X00_WAIT_ERROR: "Wait for error".  Whoever waits for it when a probe fails
\* is released, though the state comes before the bit, the bit is cleared by the
\* next probe that succeeds, and the task may run only after that.
ErrorWaiterReturns ==
    \A w \in Waiters :
       (wait[w].pc = "blocked" /\ wait[w].want = {"ERROR"} /\ state \in ProbeErrors)
          ~> wait[w].pc # "blocked"

\* The chip is there: a probe, and an open, tried for ever succeed some time.
ChipAnswers ==
    SF_vars(InitializeSucceeds) /\ SF_vars(CheckSucceeds) /\ SF_vars(SocketOpens)

\* With a chip that answers, w5x00_start leads to READY, through any number of
\* failed probes, unless it fails in silence or has no event group.
EventuallyReady ==
    ChipAnswers =>
       ((appPc = "returned") ~> (state = "READY" \/ SilentFailure \/ ~group))

\* Once the MACRAW socket is open the start-up goes on ("W5x00 MACRAW socket
\* has been opened. Lets update state to the previous one").
OpenSocketLeadsToReady == ChipAnswers => (sock ~> (state = "READY"))

-----------------------------------------------------------------------------
(* What an application sees.                                                 *)

Phase == CASE state = "NOT_STARTED" -> "off"
           [] state = "STARTING" -> "starting"
           [] state = "READY" -> "ready"
           [] OTHER -> "failed"

Told == [w \in Waiters |-> IF ~Passed(w) THEN "nothing"
                           ELSE IF "READY" \in wait[w].got THEN "ready" ELSE "error"]

Lifecycle == INSTANCE DriverLifecycle WITH phase <- Phase, told <- Told

\* Started before the scheduler, the driver implements DriverLifecycle.
ImplementsLifecycle == Lifecycle!Spec
===============================================================================
