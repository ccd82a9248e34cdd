------------------------------ MODULE LinkStatus ------------------------------
(***************************************************************************)
(* The link: w5x00_check_link_status, which the driver task calls to copy  *)
(* the PHY's link state to three places read by others - the lwIP          *)
(* interface, the LINK_UP and LINK_DOWN event bits and the global          *)
(* link_status - and the application tasks that wait for the events and    *)
(* read link_status.  The copies are made one statement at a time while    *)
(* the cable and the readers move.                                         *)
(***************************************************************************)
EXTENDS Naturals

CONSTANTS
    Watchers,       \* application tasks that wait for link events
    LinkUnreadable  \* may ctlwizchip(CW_GET_PHYLINK, ...) return -1?

ASSUME LinkUnreadableAssumption == LinkUnreadable \in BOOLEAN

VARIABLES
    phy,         \* the PHY has a link
    checkPc,     \* where the driver is in w5x00_check_link_status or DeclareUp
    seen,        \* its local current_link_status
    linkStatus,  \* the global link_status: is it PHY_LINK_ON?
    netifLink,   \* the interface's link-up flag
    bits,        \* LINK_UP and LINK_DOWN of w5x00_event_group
    watch        \* the call of w5x00_event_wait of each watcher

checkVars == <<checkPc, seen, linkStatus, netifLink, bits, watch>>
linkVars == <<phy, checkVars>>

Events == {"LINK_UP", "LINK_DOWN"}
Wants == {{"LINK_UP"}, {"LINK_DOWN"}, Events}
CheckPcs == {"idle", "set_link", "set_bit", "clear_bit", "save",
             "declare_bit", "declare_status"}

LinkInit ==
    /\ phy \in BOOLEAN
    /\ checkPc = "idle" /\ seen = FALSE
    /\ linkStatus = FALSE /\ netifLink = FALSE /\ bits = {}
    /\ watch = [w \in Watchers |-> [pc |-> "idle", want |-> {}, got |-> {}]]

CableMoves == phy' = ~phy /\ UNCHANGED checkVars

\* xEventGroupSetBits: every task whose wait is satisfied gets the bits as
\* they are now.
SetBits(b) ==
    /\ bits' = bits \cup b
    /\ watch' = [w \in Watchers |->
                   IF watch[w].pc = "blocked" /\ watch[w].want \cap (bits \cup b) # {}
                   THEN [watch[w] EXCEPT !.pc = "returned", !.got = bits \cup b]
                   ELSE watch[w]]

-----------------------------------------------------------------------------
(* w5x00_check_link_status                                                   *)

At(from, to) == checkPc = from /\ checkPc' = to /\ UNCHANGED phy

\* Variant: the link is announced again on every check.
ReadLinkAlways ==
    /\ At("idle", "set_link")
    /\ seen' = phy
    /\ UNCHANGED <<linkStatus, netifLink, bits, watch>>

\* The PHY is read once; with no change there is nothing to do, for
\* link_status is written with the value it has.
ReadLink ==
    /\ At("idle", IF phy = linkStatus THEN "idle" ELSE "set_link")
    /\ seen' = phy
    /\ UNCHANGED <<linkStatus, netifLink, bits, watch>>

ReadLinkFails ==
    /\ LinkUnreadable
    /\ At("idle", "idle")
    /\ seen' = FALSE
    /\ UNCHANGED <<linkStatus, netifLink, bits, watch>>

\* Variant: the interface is left to the application.
SetNetifLinkForgotten ==
    /\ At("set_link", "set_bit")
    /\ UNCHANGED <<seen, linkStatus, netifLink, bits, watch>>

\* netif_set_link_up or netif_set_link_down
SetNetifLink ==
    /\ At("set_link", "set_bit")
    /\ netifLink' = seen
    /\ UNCHANGED <<seen, linkStatus, bits, watch>>

SetNewBit ==
    /\ At("set_bit", "clear_bit")
    /\ SetBits({IF seen THEN "LINK_UP" ELSE "LINK_DOWN"})
    /\ UNCHANGED <<seen, linkStatus, netifLink>>

\* Variant: both events are cleared, the new one with the old.
ClearBoth ==
    /\ At("clear_bit", "save")
    /\ bits' = {}
    /\ UNCHANGED <<seen, linkStatus, netifLink, watch>>

ClearOldBit ==
    /\ At("clear_bit", "save")
    /\ bits' = bits \ {IF seen THEN "LINK_DOWN" ELSE "LINK_UP"}
    /\ UNCHANGED <<seen, linkStatus, netifLink, watch>>

\* Variant: the PHY is asked a second time.
SaveReread ==
    /\ At("save", "idle")
    /\ linkStatus' = phy
    /\ UNCHANGED <<seen, netifLink, bits, watch>>

SaveStatus ==
    /\ At("save", "idle")
    /\ linkStatus' = seen
    /\ UNCHANGED <<seen, netifLink, bits, watch>>

CheckLink ==
    \/ ReadLink \/ ReadLinkFails \/ SetNetifLink \/ SetNewBit \/ ClearOldBit
    \/ SaveStatus

\* The build without the check declares the link up, once and for all: the
\* interface, the event and link_status, in this order.
DeclareUp ==
    \/ /\ At("idle", "declare_bit")
       /\ netifLink' = TRUE
       /\ UNCHANGED <<seen, linkStatus, bits, watch>>
    \/ /\ At("declare_bit", "declare_status")
       /\ SetBits({"LINK_UP"})
       /\ UNCHANGED <<seen, linkStatus, netifLink>>
    \/ /\ At("declare_status", "idle")
       /\ linkStatus' = TRUE
       /\ UNCHANGED <<seen, netifLink, bits, watch>>

-----------------------------------------------------------------------------
\* w5x00_event_wait through W5X00_WAIT_LINK_UP, _DOWN and _CHANGED, with
\* portMAX_DELAY.
EventWait(w) ==
    /\ watch[w].pc \in {"idle", "returned"}
    /\ \E wanted \in Wants :
         watch' = [watch EXCEPT ![w] =
            IF bits \cap wanted # {}
            THEN [pc |-> "returned", want |-> wanted, got |-> bits]
            ELSE [pc |-> "blocked", want |-> wanted, got |-> {}]]
    /\ UNCHANGED <<phy, checkPc, seen, linkStatus, netifLink, bits>>

\* The driver calls the check again and again; PollLoop says when.
LinkNext ==
    \/ CableMoves \/ CheckLink \/ DeclareUp
    \/ \E w \in Watchers : EventWait(w)

LinkSpec == LinkInit /\ [][LinkNext]_linkVars

-----------------------------------------------------------------------------
LinkTypeOK ==
    /\ phy \in BOOLEAN /\ checkPc \in CheckPcs /\ seen \in BOOLEAN
    /\ linkStatus \in BOOLEAN /\ netifLink \in BOOLEAN /\ bits \subseteq Events
    /\ watch \in [Watchers -> [pc : {"idle", "blocked", "returned"},
                               want : Wants \cup {{}}, got : SUBSET Events]]

\* Between two checks the three copies of the link state agree: link_status,
\* the interface, and the event bits (neither is set before the first link).
CopiesAgree ==
    checkPc = "idle" =>
       /\ netifLink = linkStatus
       /\ bits \in IF linkStatus THEN {{"LINK_UP"}} ELSE {{}, {"LINK_DOWN"}}

\* "to avoid multi set link up": netif_set_link_up and netif_set_link_down,
\* which make lwIP announce itself and restart DHCP, are called only when the
\* link of the interface really changes.
NoRepeatedLinkEvent == checkPc = "set_link" => netifLink # seen

\* After the first link event there is always one: W5X00_WAIT_LINK_CHANGED
\* never blocks again, not even between two statements of the check.
EventStays == [][bits # {} => bits' # {}]_bits

\* A task released from W5X00_WAIT_LINK_UP finds the interface up already, and
\* from W5X00_WAIT_LINK_DOWN down, though other bits may still be set then;
\* link_status follows the release and may still say the opposite.
WaiterFindsLink ==
    [][\A w \in Watchers :
          watch[w].pc = "blocked" /\ watch'[w].pc = "returned" =>
             /\ watch[w].want = {"LINK_UP"} => netifLink'
             /\ watch[w].want = {"LINK_DOWN"} => ~netifLink']_watch

\* W5X00_WAIT_LINK_DOWN ("Wait for link _DOWN_"): with the cable out for good
\* the wait ends.
DownWaiterReturns ==
    \A w \in Watchers :
       <>[]~phy => ((watch[w].pc = "blocked" /\ watch[w].want = {"LINK_DOWN"})
                       ~> (watch[w].pc # "blocked"))
===============================================================================
