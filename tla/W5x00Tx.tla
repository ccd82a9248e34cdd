-------------------------------- MODULE W5x00Tx --------------------------------
(***************************************************************************)
(* Sending a frame: netif_output copies lwIP's pbuf chain into the static  *)
(* tx_frame, and send_lwip copies that into the chip, gives the SEND       *)
(* command and polls the socket's interrupt register until SENDOK or       *)
(* TIMEOUT.  Nothing but single register accesses is locked, so a sender   *)
(* is preempted between any two of these steps: by tcpip_thread or the     *)
(* driver task (netif_set_link_up and dhcp_start send from it), whichever  *)
(* is not the sender, and by the interrupt handler.                        *)
(*                                                                         *)
(* The copy is not bounded by the size of tx_frame: what is longer goes    *)
(* into the variables that lie behind it, whose owners write them whenever *)
(* they like.  What the owners make of what they find is left out.         *)
(*                                                                         *)
(* Data is counted in pieces, the unit of one memcpy.  The chip's side is  *)
(* outside the repository.                                                 *)
(***************************************************************************)
EXTENDS Naturals, Sequences

CONSTANTS
    Senders,     \* the tasks that call netif_output
    MaxCalls,    \* bound: calls of netif_output
    MaxSize,     \* pieces of the longest frame: the interface's mtu and its header
    FrameRoom,   \* pieces of tx_frame
    Ring,        \* getSn_TxMAX: pieces of the chip's transmit memory
    MinSize,     \* pieces of the 60 bytes a frame is padded to
    IrqBuilds,   \* the builds considered: may interrupt be TRUE, be FALSE?
    CanTimeOut   \* may the chip report TIMEOUT?

ASSUME TxAssumption ==
    /\ Senders # {} /\ MaxCalls \in Nat /\ MaxSize \in Nat
    /\ MinSize \in 1 .. MaxSize /\ FrameRoom \in Nat /\ MinSize <= FrameRoom
    /\ Ring \in Nat /\ MaxSize < Ring
    /\ IrqBuilds \subseteq BOOLEAN /\ CanTimeOut \in BOOLEAN

VARIABLES
    pc,       \* where each sender is
    call,     \* the frame it is sending, 0 for none
    copied,   \* pieces it has copied into tx_frame
    wrAt,     \* the chip's write pointer as it read it
    sizes,    \* the size of each frame ever offered
    txFrame,  \* tx_frame
    behind,   \* the variables behind it that a longest frame reaches
    txMem,    \* the chip's transmit memory, a ring
    wr, rd,   \* its write and read pointers
    cr,       \* the chip has not taken the SEND command yet
    busy,     \* the chip is sending
    ir,       \* socket interrupt register: "SENDOK", "TIMEOUT", "RECV"
    interrupt,  \* the build: W5X00_INTERRUPT, the handler is attached
    edge,     \* PIN_IRQ has fallen and the handler has not run yet
    isr,      \* the handler: "idle", "clear"
    isrSeen,  \* the bits it has read
    wire,     \* frames that went out
    failed    \* the frames whose send_lwip returned -1

bufVars == <<txFrame, behind, txMem, wr, rd>>
chipVars == <<cr, busy, ir, wire>>
isrVars == <<interrupt, edge, isr, isrSeen>>
vars == <<pc, call, copied, wrAt, sizes, bufVars, chipVars, isrVars, failed>>

\* A piece of a frame, a zero, or something that belongs to a variable behind tx_frame.
Foreign == <<0, 0>>
Pieces == {<<>>, Foreign} \cup ((1 .. MaxCalls) \X (1 .. MaxSize))
Zeros == [k \in 1 .. FrameRoom |-> <<>>]
Behind == FrameRoom + 1 .. MaxSize

Init ==
    /\ pc = [s \in Senders |-> "idle"] /\ call = [s \in Senders |-> 0]
    /\ copied = [s \in Senders |-> 0] /\ wrAt = [s \in Senders |-> 0]
    /\ sizes = <<>> /\ txFrame = Zeros /\ behind = [k \in Behind |-> Foreign]
    /\ txMem = [k \in 0 .. Ring - 1 |-> <<>>] /\ wr = 0 /\ rd = 0
    /\ cr = FALSE /\ busy = FALSE /\ ir = {} /\ wire = <<>>
    /\ interrupt \in IrqBuilds /\ edge = FALSE /\ isr = "idle" /\ isrSeen = {} /\ failed = {}

-----------------------------------------------------------------------------
\* The handler runs to its end before any task runs again.
Step(s, from, to) ==
    /\ isr = "idle"
    /\ pc[s] = from
    /\ pc' = [pc EXCEPT ![s] = to]
    /\ UNCHANGED isrVars

Size(s) == sizes[call[s]]

\* tot_len: at least 60 bytes.
Padded(s) == IF Size(s) < MinSize THEN MinSize ELSE Size(s)

\* send_lwip's len: no more than the chip's memory has.
Length(s) == IF Padded(s) > Ring THEN Ring ELSE Padded(s)

\* What send_lwip reads as piece k of tx_frame.
InBuffer(k) == IF k <= FrameRoom THEN txFrame[k] ELSE behind[k]

\* lwIP calls linkoutput, with a frame of any size the mtu allows.
Output(s) ==
    /\ Step(s, "idle", "clear")
    /\ Len(sizes) < MaxCalls
    /\ \E size \in 1 .. MaxSize : sizes' = Append(sizes, size)
    /\ call' = [call EXCEPT ![s] = Len(sizes')]
    /\ UNCHANGED <<copied, wrAt, bufVars, chipVars, failed>>

\* Variant: the frame sent before is left in the buffer.
ClearForgotten(s) ==
    /\ Step(s, "clear", "copy")
    /\ copied' = [copied EXCEPT ![s] = 0]
    /\ UNCHANGED <<call, wrAt, sizes, bufVars, chipVars, failed>>

Clear(s) ==
    /\ Step(s, "clear", "copy")
    /\ txFrame' = Zeros
    /\ copied' = [copied EXCEPT ![s] = 0]
    /\ UNCHANGED <<call, wrAt, sizes, behind, txMem, wr, rd, chipVars, failed>>

\* Variant: the length is counted before the copy.
CopyAhead(s) ==
    /\ Step(s, "copy", IF copied[s] + 1 < Size(s) THEN "copy" ELSE "read_wr")
    /\ copied' = [copied EXCEPT ![s] = @ + 1]
    /\ txFrame' = [txFrame EXCEPT ![copied'[s] + 1] = <<call[s], copied'[s]>>]
    /\ behind' = [behind EXCEPT ![copied'[s] + 1] = <<call[s], copied'[s]>>]
    /\ UNCHANGED <<call, wrAt, sizes, txMem, wr, rd, chipVars, failed>>

\* One pbuf of the chain: a piece that tx_frame does not have is a piece behind it.
Copy(s) ==
    /\ Step(s, "copy", IF copied[s] + 1 < Size(s) THEN "copy" ELSE "read_wr")
    /\ copied' = [copied EXCEPT ![s] = @ + 1]
    /\ txFrame' = [txFrame EXCEPT ![copied'[s]] = <<call[s], copied'[s]>>]
    /\ behind' = [behind EXCEPT ![copied'[s]] = <<call[s], copied'[s]>>]
    /\ UNCHANGED <<call, wrAt, sizes, txMem, wr, rd, chipVars, failed>>

\* wiz_send_data: read Sn_TX_WR, write the data behind it, write Sn_TX_WR.
ReadPointer(s) ==
    /\ Step(s, "read_wr", "write")
    /\ wrAt' = [wrAt EXCEPT ![s] = wr]
    /\ UNCHANGED <<call, copied, sizes, bufVars, chipVars, failed>>

WriteData(s) ==
    /\ Step(s, "write", "write_wr")
    /\ txMem' = [k \in 0 .. Ring - 1 |->
                   LET i == (k + Ring - wrAt[s]) % Ring
                   IN  IF i < Length(s) THEN InBuffer(i + 1) ELSE txMem[k]]
    /\ UNCHANGED <<call, copied, wrAt, sizes, txFrame, behind, wr, rd, chipVars, failed>>

WritePointer(s) ==
    /\ Step(s, "write_wr", "command")
    /\ wr' = (wrAt[s] + Length(s)) % Ring
    /\ UNCHANGED <<call, copied, wrAt, sizes, txFrame, behind, txMem, rd, chipVars, failed>>

\* setSn_CR(sn, Sn_CR_SEND)
Command(s) ==
    /\ Step(s, "command", "wait_cr")
    /\ cr' = TRUE
    /\ UNCHANGED <<call, copied, wrAt, sizes, bufVars, busy, ir, wire, failed>>

\* Variant: the command is not waited for.
CommandNotAwaited(s) ==
    /\ Step(s, "wait_cr", "return")
    /\ UNCHANGED <<call, copied, wrAt, sizes, bufVars, chipVars, failed>>

\* while (getSn_CR(sn));
CommandTaken(s) ==
    /\ ~cr
    /\ Step(s, "wait_cr", "wait_ir")
    /\ UNCHANGED <<call, copied, wrAt, sizes, bufVars, chipVars, failed>>

\* Variant: the event is left in the register.
SendOkKept(s) ==
    /\ "SENDOK" \in ir
    /\ Step(s, "wait_ir", "return")
    /\ UNCHANGED <<call, copied, wrAt, sizes, bufVars, chipVars, failed>>

SendOk(s) ==
    /\ "SENDOK" \in ir
    /\ Step(s, "wait_ir", "return")
    /\ ir' = ir \ {"SENDOK"}
    /\ UNCHANGED <<call, copied, wrAt, sizes, bufVars, cr, busy, wire, failed>>

\* Variant: only SENDOK ends the loop.
TimeOutIgnored(s) ==
    /\ "SENDOK" \notin ir /\ "TIMEOUT" \in ir
    /\ Step(s, "wait_ir", "wait_ir")
    /\ ir' = ir \ {"TIMEOUT"}
    /\ UNCHANGED <<call, copied, wrAt, sizes, bufVars, cr, busy, wire, failed>>

SendTimesOut(s) ==
    /\ "SENDOK" \notin ir /\ "TIMEOUT" \in ir
    /\ Step(s, "wait_ir", "return")
    /\ ir' = ir \ {"TIMEOUT"}
    /\ failed' = failed \cup {call[s]}
    /\ UNCHANGED <<call, copied, wrAt, sizes, bufVars, cr, busy, wire>>

\* netif_output returns ERR_OK, whatever send_lwip returned.
Return(s) ==
    /\ Step(s, "return", "idle")
    /\ UNCHANGED <<call, copied, wrAt, sizes, bufVars, chipVars, failed>>

Send(s) ==
    \/ Clear(s) \/ Copy(s) \/ ReadPointer(s) \/ WriteData(s) \/ WritePointer(s)
    \/ Command(s) \/ CommandTaken(s) \/ SendOk(s) \/ SendTimesOut(s) \/ Return(s)

\* The owner of a variable behind tx_frame writes it.
OwnerWrites ==
    /\ isr = "idle"
    /\ \E k \in Behind : behind[k] # Foreign /\ behind' = [behind EXCEPT ![k] = Foreign]
    /\ UNCHANGED <<pc, call, copied, wrAt, sizes, txFrame, txMem, wr, rd, chipVars, isrVars,
                   failed>>

-----------------------------------------------------------------------------
(* The chip: it takes a command, sends what lies between its pointers, and   *)
(* reports.  RECV stands for every other event of the socket.                *)

ChipTakes ==
    /\ cr /\ ~busy
    /\ cr' = FALSE /\ busy' = TRUE
    /\ UNCHANGED <<pc, call, copied, wrAt, sizes, bufVars, ir, wire, isrVars, failed>>

InMemory == [i \in 1 .. (wr + Ring - rd) % Ring |-> txMem[(rd + i - 1) % Ring]]

ChipSends ==
    /\ busy /\ busy' = FALSE
    /\ wire' = Append(wire, InMemory)
    /\ rd' = wr
    /\ ir' = ir \cup {"SENDOK"}
    /\ UNCHANGED <<pc, call, copied, wrAt, sizes, txFrame, behind, txMem, wr, cr, isrVars, failed>>

\* An event that is not masked pulls PIN_IRQ low; it falls only if it was high.
Masked == {"SENDOK"}

Raise(event) ==
    /\ ir' = ir \cup {event}
    /\ edge' = (edge \/ (interrupt /\ ir \subseteq Masked))

\* It drops the frame: what it does with one it could not send is not in the repository.
ChipGivesUp ==
    /\ CanTimeOut
    /\ busy /\ busy' = FALSE
    /\ rd' = wr
    /\ Raise("TIMEOUT")
    /\ UNCHANGED <<pc, call, copied, wrAt, sizes, txFrame, behind, txMem, wr, cr, wire,
                   interrupt, isr, isrSeen, failed>>

FrameArrives ==
    /\ interrupt /\ "RECV" \notin ir
    /\ Raise("RECV")
    /\ UNCHANGED <<pc, call, copied, wrAt, sizes, bufVars, cr, busy, wire, interrupt,
                   isr, isrSeen, failed>>

-----------------------------------------------------------------------------
(* wizchip_gpio_interrupt_callback.  The interrupt mask leaves SENDOK out,   *)
(* but every bit that is read is cleared.                                    *)

HandlerReads ==
    /\ edge /\ isr = "idle"
    /\ edge' = FALSE /\ UNCHANGED interrupt
    /\ isr' = "clear" /\ isrSeen' = ir
    /\ UNCHANGED <<pc, call, copied, wrAt, sizes, bufVars, chipVars, failed>>

HandlerClears ==
    /\ isr = "clear" /\ isr' = "idle"
    /\ ir' = ir \ isrSeen
    /\ isrSeen' = {} /\ UNCHANGED <<interrupt, edge>>
    /\ UNCHANGED <<pc, call, copied, wrAt, sizes, bufVars, cr, busy, wire, failed>>

-----------------------------------------------------------------------------
Chip == ChipTakes \/ ChipSends \/ ChipGivesUp
Handler == HandlerReads \/ HandlerClears

Next ==
    \/ \E s \in Senders : Output(s) \/ Send(s)
    \/ OwnerWrites \/ Chip \/ FrameArrives \/ Handler

Spec == Init /\ [][Next]_vars

\* A sender that is not blocked is scheduled (the loops of send_lwip poll, and
\* tasks of one priority share the processor), the chip obeys, and an
\* interrupt is served.
FairSpec ==
    /\ Spec
    /\ \A s \in Senders : WF_vars(Send(s))
    /\ WF_vars(Chip) /\ WF_vars(Handler)

-----------------------------------------------------------------------------
\* What is behind tx_frame is written by the pieces of longer frames only, each
\* in its place.
OnlyLongFramesSpill ==
    \A k \in Behind :
       \/ behind[k] = Foreign
       \/ \E n \in DOMAIN sizes : sizes[n] >= k /\ behind[k] = <<n, k>>

\* The variables have their types, and netif_output writes behind tx_frame for
\* those frames alone that do not fit it.
TypeOK ==
    /\ pc \in [Senders -> {"idle", "clear", "copy", "read_wr", "write", "write_wr",
                           "command", "wait_cr", "wait_ir", "return"}]
    /\ call \in [Senders -> 0 .. MaxCalls] /\ copied \in [Senders -> 0 .. MaxSize]
    /\ wrAt \in [Senders -> 0 .. Ring - 1]
    /\ sizes \in Seq(1 .. MaxSize) /\ Len(sizes) <= MaxCalls
    /\ txFrame \in [1 .. FrameRoom -> Pieces]
    /\ behind \in [Behind -> Pieces] /\ OnlyLongFramesSpill
    /\ txMem \in [0 .. Ring - 1 -> Pieces]
    /\ wr \in 0 .. Ring - 1 /\ rd \in 0 .. Ring - 1
    /\ cr \in BOOLEAN /\ busy \in BOOLEAN /\ ir \subseteq {"SENDOK", "TIMEOUT", "RECV"}
    /\ interrupt \in IrqBuilds /\ edge \in BOOLEAN /\ isr \in {"idle", "clear"}
    /\ isrSeen \subseteq {"SENDOK", "TIMEOUT", "RECV"}
    /\ failed \subseteq 1 .. MaxCalls

\* The n-th frame offered has gone out.
Sent(n) == \E i \in DOMAIN wire : wire[i] # <<>> /\ wire[i][1] = <<n, 1>>

\* A send_lwip that returned the length has sent the frame of its own call, and
\* not seen the SENDOK of another.
SuccessMeansSent ==
    \A s \in Senders : pc[s] = "return" /\ call[s] \notin failed => Sent(call[s])

\* Polling, every call of netif_output returns: the loops of send_lwip end, and
\* a timeout of the chip ends them too.
SendReturns == \A s \in Senders : (pc[s] # "idle" /\ ~interrupt) ~> (pc[s] = "idle")

\* The same with the interrupt handler attached: its events are all but SENDOK
\* ("except SendOK"), which is left to send_lwip.
InterruptSendReturns == \A s \in Senders : (pc[s] # "idle") ~> (pc[s] = "idle")

-----------------------------------------------------------------------------
(* One sender at a time is what lwIP expects.                                *)

LinkOutput ==
    INSTANCE EthernetTx
      WITH Room <- FrameRoom,
           status <- IF \A s \in Senders : pc[s] = "idle" THEN "free"
                     ELSE IF Sent(Len(sizes)) THEN "sent" ELSE "offered"

\* "This function outputs the pbuf as-is on the link medium": each frame on
\* the wire is one that was offered, padded with zeros, and whole but for what
\* tx_frame has no room for.
IntactOnWire ==
    \A i \in DOMAIN wire :
       \E n \in DOMAIN sizes : wire[i] \in LinkOutput!Images(n, sizes[n])

\* With one sender the driver implements EthernetTx.
ImplementsEthernetTx == LinkOutput!Spec
===============================================================================
