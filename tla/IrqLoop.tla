-------------------------------- MODULE IrqLoop --------------------------------
(***************************************************************************)
(* The infinite loop of w5x00_task in interrupt builds (W5X00_INTERRUPT):  *)
(* the task sleeps in ulTaskNotifyTake until the handler of PIN_IRQ        *)
(* notifies it, reads what the chip holds, and sleeps again.               *)
(*                                                                         *)
(* The pin is low while the socket has an event that is not masked, and    *)
(* the handler is called when it falls: a pin that stays low calls nobody. *)
(* Frames are only counted here, and nobody waits for the link events:     *)
(* PollLoop says what becomes of the one and the other.                    *)
(*                                                                         *)
(* In two ways the loop may stop for ever, in places that other modules    *)
(* show in detail: the handler waits for the mutex of the bus that a task  *)
(* holds which it has interrupted (W5x00Bus), and send_lwip polls for a    *)
(* SENDOK that the handler has cleared (W5x00Tx) - the driver itself sends *)
(* when it sets the interface's link up.                                   *)
(***************************************************************************)
EXTENDS LinkStatus

CONSTANTS
    Builds,     \* the builds considered: records [check, mutex, timeouts]
    ChipFrames  \* the frames the chip's receive memory holds

ASSUME IrqAssumption ==
    /\ Builds \subseteq [check : BOOLEAN, mutex : BOOLEAN, timeouts : BOOLEAN]
    /\ ChipFrames \in Nat \ {0}

VARIABLES
    build,    \* W5X00_CHECK_LINK_TIMEOUT_MS is not 0; W5X00_RTOS_MUTEX;
              \* and, of the chip, whether it reports TIMEOUT for a send
    pc,       \* where the driver is; the handler is attached before "enter"
    notify,   \* the result of the last ulTaskNotifyTake is not 0
    packLen,  \* pack_len: is it greater than 0?
    held,     \* the frames in the chip
    ir,       \* the socket's interrupt register, without the masked SENDOK
    edge,     \* PIN_IRQ has fallen and the handler has not been called yet
    isr,      \* where the handler is
    isrSeen,  \* its local sn_ir
    pending   \* the driver's notification value is not 0

drvVars == <<pc, notify, packLen>>
irqVars == <<ir, edge, isr, isrSeen, pending>>
vars == <<linkVars, build, drvVars, held, irqVars>>

Init ==
    /\ LinkInit
    /\ build \in Builds
    /\ pc = "enter" /\ notify = FALSE /\ packLen = FALSE
    /\ held = 0
    /\ ir = {} /\ edge = FALSE /\ isr = "idle" /\ isrSeen = {} /\ pending = FALSE

-----------------------------------------------------------------------------
(* The chip and the rest of the program.                                     *)

\* The pin falls with the first event.
Raise(event) ==
    /\ ir' = ir \cup {event}
    /\ edge' = (edge \/ ir = {})
    /\ UNCHANGED <<isr, isrSeen, pending>>

Arrive ==
    /\ phy /\ held < ChipFrames
    /\ held' = held + 1
    /\ Raise("RECV")
    /\ UNCHANGED <<linkVars, build, drvVars>>

SendTimesOut ==
    /\ build.timeouts
    /\ Raise("TIMEOUT")
    /\ UNCHANGED <<linkVars, build, drvVars, held>>

\* send_lwip clears TIMEOUT, and no other bit; tasks wait for the handler.
SenderClears ==
    /\ isr = "idle" /\ "TIMEOUT" \in ir
    /\ ir' = ir \ {"TIMEOUT"}
    /\ UNCHANGED <<linkVars, build, drvVars, held, edge, isr, isrSeen, pending>>

Cable == CableMoves /\ UNCHANGED <<build, drvVars, held, irqVars>>

-----------------------------------------------------------------------------
(* The driver task.                                                          *)

\* The handler runs to its end before any task runs again.
Go(from, to) == isr = "idle" /\ pc = from /\ pc' = to /\ UNCHANGED build

\* getsockopt(0, SO_RECVBUF, &pack_len)
ReadLength == packLen' = (held > 0)

\* Without the link check the link is declared up before the loop.
Declare ==
    /\ Go("enter", "enter")
    /\ ~build.check /\ ~linkStatus
    /\ DeclareUp
    /\ UNCHANGED <<notify, packLen, held, irqVars>>

EnterLoop ==
    /\ Go("enter", "top")
    /\ build.check \/ linkStatus
    /\ ReadLength
    /\ UNCHANGED <<linkVars, notify, held, irqVars>>


\* The link is checked when nothing has come, and until it is up.
Top ==
    /\ Go("top", IF build.check /\ (~notify \/ ~linkStatus) THEN "check" ELSE "drain")
    /\ UNCHANGED <<linkVars, notify, packLen, held, irqVars>>

Check ==
    /\ CheckLink
    /\ Go("check", IF checkPc' = "idle" THEN "drain" ELSE "check")
    /\ UNCHANGED <<notify, packLen, held, irqVars>>

DrainTest ==
    /\ Go("drain", IF packLen THEN "recv" ELSE "take")
    /\ UNCHANGED <<linkVars, notify, packLen, held, irqVars>>

\* Variant: two frames are taken for one length that was read.
ReceiveTwo ==
    /\ Go("recv", "drained")
    /\ held' = IF held = 0 THEN 0 ELSE held - 2
    /\ UNCHANGED <<linkVars, notify, packLen, irqVars>>

\* recv_lwip takes a frame out of the chip; its event is the handler's affair.
Receive ==
    /\ Go("recv", "drained")
    /\ held' = IF held = 0 THEN 0 ELSE held - 1
    /\ UNCHANGED <<linkVars, notify, packLen, irqVars>>

\* Variant: one frame for each notification.
DrainedOnce ==
    /\ Go("drained", "take")
    /\ ReadLength
    /\ UNCHANGED <<linkVars, notify, held, irqVars>>

Drained ==
    /\ Go("drained", "drain")
    /\ ReadLength
    /\ UNCHANGED <<linkVars, notify, held, irqVars>>

\* ulTaskNotifyTake(pdTRUE, ...): the value is taken and reset.  It waits for
\* W5X00_CHECK_LINK_TIMEOUT_MS, or without the link check for ever.
Take ==
    /\ Go("take", "length")
    /\ pending \/ build.check
    /\ notify' = (build.check /\ pending)
    /\ pending' = FALSE
    /\ UNCHANGED <<linkVars, packLen, held, ir, edge, isr, isrSeen>>

\* Variant: the length from before the sleep is used.
LengthStale ==
    /\ Go("length", "top")
    /\ UNCHANGED <<linkVars, notify, packLen, held, irqVars>>

Length ==
    /\ Go("length", "top")
    /\ ReadLength
    /\ UNCHANGED <<linkVars, notify, held, irqVars>>

Driver ==
    \/ Declare \/ EnterLoop \/ Top \/ Check \/ DrainTest \/ Receive \/ Drained
    \/ Take \/ Length

-----------------------------------------------------------------------------
(* wizchip_gpio_interrupt_callback, attached before the socket is opened.    *)

HandlerEnters ==
    /\ edge /\ isr = "idle"
    /\ edge' = FALSE
    /\ isr' = "clear" /\ isrSeen' = ir
    /\ UNCHANGED <<linkVars, build, drvVars, held, ir, pending>>

\* The first access of the handler waits for the mutex, and the task that has it
\* - the driver, or one that sends - cannot run.
HandlerBlocks ==
    /\ build.mutex
    /\ edge /\ isr = "idle"
    /\ edge' = FALSE
    /\ isr' = "blocked"
    /\ UNCHANGED <<linkVars, build, drvVars, held, ir, isrSeen, pending>>

\* netif_set_link_up has set the flag and sends what announces the interface.
Announcing == pc \in {"enter", "check"} /\ checkPc \in {"set_bit", "declare_bit"} /\ netifLink

\* Variant: the events are read and not cleared.
HandlerKeeps ==
    /\ isr = "clear" /\ isr' = "notify"
    /\ isrSeen' = {}
    /\ UNCHANGED <<linkVars, build, drvVars, held, ir, edge, pending>>

\* "rearm interrupt".  With the rest goes the SENDOK of a frame that the driver
\* is sending: then send_lwip never returns.
HandlerClears ==
    /\ isr = "clear" /\ isr' = "notify"
    /\ ir' = ir \ isrSeen
    /\ isrSeen' = {}
    /\ \/ UNCHANGED pc
       \/ Announcing /\ pc' = "hung"
    /\ UNCHANGED <<linkVars, build, notify, packLen, held, edge, pending>>

\* w5x00_int_handler: vTaskNotifyGiveFromISR
HandlerNotifies ==
    /\ isr = "notify" /\ isr' = "idle"
    /\ pending' = TRUE
    /\ UNCHANGED <<linkVars, build, drvVars, held, ir, edge, isrSeen>>

Handler == HandlerEnters \/ HandlerBlocks \/ HandlerClears \/ HandlerNotifies

-----------------------------------------------------------------------------
Next ==
    \/ Arrive \/ SendTimesOut \/ SenderClears \/ Cable
    \/ Driver \/ Handler

Spec == Init /\ [][Next]_vars

\* A handler that does not block ends; a driver that does not hang is scheduled
\* where none is at work, interrupts leave it time (frames and sends are slower
\* than the handler) and its timeout passes; and the PHY can be read.
FairSpec ==
    /\ Spec
    /\ WF_vars(Handler) /\ SF_vars(Driver)
    /\ SF_vars(Check /\ ReadLink)

-----------------------------------------------------------------------------
TypeOK ==
    /\ LinkTypeOK
    /\ build \in Builds
    /\ pc \in {"enter", "top", "check", "drain", "recv", "drained", "take",
               "length", "hung"}
    /\ notify \in BOOLEAN /\ packLen \in BOOLEAN /\ held \in 0 .. ChipFrames
    /\ ir \subseteq {"RECV", "TIMEOUT"} /\ edge \in BOOLEAN
    /\ isr \in {"idle", "clear", "notify", "blocked"} /\ isrSeen \subseteq {"RECV", "TIMEOUT"}
    /\ pending \in BOOLEAN

\* "rearm interrupt": a pin that is low has a handler on its way (or one that is
\* blocked), so that it will rise and can fall again - where sends do not time
\* out.
PinServed == ~build.timeouts /\ ir # {} => edge \/ isr # "idle"

\* No wake-up is lost: when the driver goes to sleep on frames that are in the
\* chip it has been notified, or the handler is at work, or the event of a
\* frame is there, for which PinServed promises the handler.
NoSleepOnFrames ==
    pc = "take" /\ held > 0 => pending \/ isr # "idle" \/ "RECV" \in ir

\* The two ways to stop for ever that the code is known to have in these builds:
\* the handler waits for the mutex (only with W5X00_RTOS_MUTEX, the default), or
\* the driver for the SENDOK of its own frame.
Stopped == isr = "blocked" \/ pc = "hung"

\* Every frame leaves the chip, also in builds that sleep without a limit, unless
\* the loop has stopped in one of these ways.
FramesTaken ==
    (held > 0 /\ (~build.timeouts \/ build.check)) ~> (pc = "recv" \/ Stopped)

===============================================================================
