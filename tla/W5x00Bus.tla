------------------------------- MODULE W5x00Bus -------------------------------
(***************************************************************************)
(* The way to the chip: w5x00_spi.c (bus set-up, lock, chip select) and    *)
(* wiznet_spi_pio.c (the same SPI made by a PIO program and two DMA        *)
(* channels on boards without a hardware SPI to the chip).                 *)
(*                                                                         *)
(* Every register access of the program goes through ioLibrary's           *)
(* WIZCHIP_READ, _WRITE, _READ_BUF and _WRITE_BUF, which call the          *)
(* registered functions in this order: lock, chip select, a header of      *)
(* three bytes, the data, chip deselect, unlock.  Accessing are the driver *)
(* task, tcpip_thread and, in interrupt builds, the GPIO handler.          *)
(***************************************************************************)
EXTENDS Naturals, Sequences

CONSTANTS
    Users,    \* the tasks that access registers
    Handler,  \* the interrupt handler
    Builds,   \* the builds considered: records [bus, lock, irq]
    Boards    \* what the rest of the program leaves: records [program, sm, dma]

ASSUME BusAssumption ==
    /\ Handler \notin Users /\ "nobody" \notin Users \cup {Handler}
    /\ Builds \subseteq [bus : {"spi", "dma", "pio"}, lock : {"critical", "mutex"}, irq : BOOLEAN]
    /\ Boards \subseteq [program : BOOLEAN, sm : BOOLEAN, dma : 0 .. 2]

VARIABLES
    build,     \* the build: USE_SPI_PIO, W5X00_USE_SPI_DMA, W5X00_RTOS_MUTEX, W5X00_INTERRUPT
    board,     \* a PIO has room for the program, a state machine, DMA channels
    openPc,    \* where the driver is in wizchip_spi_initialize
    claimed,   \* what it holds: "slot", "program", "sm", "dma_out", "dma_in"
    owner,     \* who has the lock
    pc,        \* where each user is in an access
    access,    \* the access: its kind, its address and the length of its data
    selected,  \* the chip select pin is low
    stash,     \* spi_header: the header kept for the next call
    frame      \* what the chip has taken since the pin fell

openVars == <<openPc, claimed>>
accessVars == <<owner, pc, access, selected, stash, frame>>
vars == <<build, board, openVars, accessVars>>

Actors == Users \cup {Handler}
Nobody == "nobody"
HeaderLen == 3
\* The kinds of access, and the lengths that the code tells apart: of what is
\* written, a buffer of exactly the length of a header and any other.
Kinds == {"read", "write", "read_buf", "write_buf"}
Accesses == [kind : Kinds, address : {1, 2}, len : {1}]
            \cup [kind : {"write_buf"}, address : {1, 2}, len : {HeaderLen, HeaderLen + 1}]
NoAccess == [kind |-> "none", address |-> 1, len |-> 0]

\* What must cross the wire for an access: its header, then its data.
HeaderOf(a) == <<[piece |-> "header", of |-> a]>>
DataOf(a) == <<[piece |-> "data", of |-> a]>>

Init ==
    /\ build \in Builds /\ board \in Boards
    /\ openPc = "start" /\ claimed = {}
    /\ owner = Nobody
    /\ pc = [u \in Actors |-> "idle"]
    /\ access = [u \in Actors |-> NoAccess]
    /\ selected = FALSE /\ stash = <<>> /\ frame = <<>>

-----------------------------------------------------------------------------
(* wizchip_spi_initialize, and wiznet_spi_pio_open step by step.             *)

Opening(from, to) == openPc = from /\ openPc' = to /\ UNCHANGED <<build, board, accessVars>>

\* dma_claim_unused_channel, twice.
Channels == CASE board.dma = 0 -> {} [] board.dma = 1 -> {"dma_out"}
              [] OTHER -> {"dma_out", "dma_in"}

\* spi_init; the claims of the DMA build panic when they fail.
OpenSpi ==
    /\ build.bus # "pio"
    /\ Opening("start", IF build.bus = "dma" /\ board.dma < 2 THEN "panic" ELSE "open")
    /\ claimed' = IF build.bus = "spi" THEN {} ELSE Channels

OpenSlot ==
    /\ build.bus = "pio"
    /\ Opening("start", "program")
    /\ claimed' = {"slot"}

\* Neither PIO has room: NULL is returned, and the slot stays taken.
FindPio ==
    /\ Opening("program", IF board.program THEN "sm" ELSE "failed")
    /\ UNCHANGED claimed

\* Variant: the program is taken out only when both channels were there.
CloseKeepsProgram(held) ==
    held \ ({"slot", "dma_out", "dma_in"} \cup IF "dma_in" \in held THEN {"sm", "program"} ELSE {"sm"})

\* wiznet_spi_pio_close: what is still held after it.
Close(held) ==
    held \ ({"slot", "dma_out", "dma_in"} \cup IF "sm" \in held THEN {"sm", "program"} ELSE {})

\* The program is loaded once there is a state machine to run it.
ClaimSm ==
    /\ Opening("sm", IF board.sm THEN "dma" ELSE "failed")
    /\ claimed' = IF board.sm THEN claimed \cup {"sm", "program"} ELSE Close(claimed)

ClaimDma ==
    /\ Opening("dma", IF board.dma = 2 THEN "open" ELSE "failed")
    /\ claimed' = IF board.dma = 2 THEN claimed \cup Channels ELSE Close(claimed \cup Channels)

\* (*spi_handle)->set_active(spi_handle), through NULL after a failed open.
SetActive == Opening("failed", "panic") /\ UNCHANGED claimed

Open == OpenSpi \/ OpenSlot \/ FindPio \/ ClaimSm \/ ClaimDma \/ SetActive

-----------------------------------------------------------------------------
(* One access.  The handler runs to its end before any task runs again.      *)

Step(u, from, to) ==
    /\ u = Handler \/ pc[Handler] = "idle"
    /\ pc[u] = from /\ pc' = [pc EXCEPT ![u] = to]
    /\ UNCHANGED <<build, board, openVars>>

\* Variant: the lock functions are not registered.
LockForgotten(u) ==
    /\ Step(u, "idle", "select")
    /\ openPc = "open" /\ u = Handler => build.irq
    /\ access' \in {[access EXCEPT ![u] = a] : a \in Accesses}
    /\ UNCHANGED <<owner, selected, stash, frame>>

\* A task waits for the lock.  critical_section_enter_blocking disables the
\* interrupts, so the handler never finds it taken; a mutex it may.
Lock(u) ==
    /\ Step(u, "idle", "select")
    /\ openPc = "open" /\ u = Handler => build.irq
    /\ owner = Nobody /\ owner' = u
    /\ access' \in {[access EXCEPT ![u] = a] : a \in Accesses}
    /\ UNCHANGED <<selected, stash, frame>>

\* xSemaphoreTake with portMAX_DELAY in the handler: it can never be served.
HandlerBlocks ==
    /\ build.irq /\ build.lock = "mutex" /\ owner # Nobody
    /\ Step(Handler, "idle", "stuck")
    /\ UNCHANGED <<owner, access, selected, stash, frame>>

Select(u) ==
    /\ Step(u, "select", "header")
    /\ selected' = TRUE
    /\ UNCHANGED <<owner, access, stash, frame>>

\* Bytes on the wire: the chip takes them while its pin is low.
Wire(bytes) == frame' = IF selected THEN frame \o bytes ELSE frame

\* Variant: three bytes are always a header.
WriteBufferAlwaysHeader(header, data, len) ==
    IF len = HeaderLen
    THEN stash' = header \o data /\ UNCHANGED frame
    ELSE Wire(stash \o header \o data) /\ stash' = <<>>

\* wiznet_spi_pio_write_buffer: three bytes with no header kept are a header,
\* and kept; anything else goes out, behind the header kept before.
WriteBuffer(header, data, len) ==
    IF len = HeaderLen /\ stash = <<>>
    THEN stash' = header \o data /\ UNCHANGED frame
    ELSE Wire(stash \o header \o data) /\ stash' = <<>>

\* Variant: the header stays in the buffer after a read.
ReadBufferKeepsHeader(data) ==
    /\ Wire(stash \o data)
    /\ UNCHANGED stash

\* wiznet_spi_pio_read_buffer and _read_byte: the kept header goes out, and the
\* answer comes back in the same transfer.
ReadBuffer(data) ==
    /\ Wire(stash \o data)
    /\ stash' = <<>>

\* wizchip_write, wizchip_read and the two DMA bursts: the bytes as they come.
Burst(header, data) == Wire(header \o data) /\ UNCHANGED stash

\* The header.  Where bursts are registered WIZCHIP_WRITE sends its header and
\* its byte as one buffer of four.
Header(u) ==
    LET a == access[u]
        whole == a.kind = "write" /\ build.bus # "spi"
        data == IF whole THEN DataOf(a) ELSE <<>>
    IN  /\ Step(u, "header", IF whole THEN "deselect" ELSE "data")
        /\ IF build.bus = "pio"
           THEN WriteBuffer(HeaderOf(a), data, HeaderLen + IF whole THEN 1 ELSE 0)
           ELSE Burst(HeaderOf(a), data)
        /\ UNCHANGED <<owner, access, selected>>

Data(u) ==
    LET a == access[u]
    IN  /\ Step(u, "data", "deselect")
        /\ IF build.bus # "pio" THEN Burst(<<>>, DataOf(a))
           ELSE IF a.kind \in {"read", "read_buf"} THEN ReadBuffer(DataOf(a))
           ELSE WriteBuffer(<<>>, DataOf(a), a.len)
        /\ UNCHANGED <<owner, access, selected>>

\* The rising edge ends the frame for the chip.
Deselect(u) ==
    /\ Step(u, "deselect", "unlock")
    /\ selected' = FALSE /\ frame' = <<>>
    /\ UNCHANGED <<owner, access, stash>>

\* Variant: the lock is kept.
UnlockForgotten(u) ==
    /\ Step(u, "unlock", "idle")
    /\ UNCHANGED <<owner, access, selected, stash, frame>>

Unlock(u) ==
    /\ Step(u, "unlock", "idle")
    /\ owner' = Nobody
    /\ access' = [access EXCEPT ![u] = NoAccess]
    /\ UNCHANGED <<selected, stash, frame>>

Access(u) == Select(u) \/ Header(u) \/ Data(u) \/ Deselect(u) \/ Unlock(u)

Next ==
    \/ Open \/ HandlerBlocks
    \/ \E u \in Actors : Lock(u) \/ Access(u)

Spec == Init /\ [][Next]_vars

\* The start-up task runs, and so does who has the lock: it waits for the
\* hardware in a loop and sleeps nowhere, a handler runs to its end, and the
\* tasks with more priority sleep.  Nobody is obliged to begin an access.
FairSpec ==
    /\ Spec
    /\ WF_vars(Open)
    /\ \A u \in Actors : WF_vars(Access(u))

-----------------------------------------------------------------------------
TypeOK ==
    /\ build \in Builds /\ board \in Boards
    /\ openPc \in {"start", "program", "sm", "dma", "open", "failed", "panic"}
    /\ claimed \subseteq {"slot", "program", "sm", "dma_out", "dma_in"}
    /\ owner \in Actors \cup {Nobody}
    /\ pc \in [Actors -> {"idle", "select", "header", "data", "deselect", "unlock", "stuck"}]
    /\ access \in [Actors -> Accesses \cup {NoAccess}]
    /\ selected \in BOOLEAN
    /\ stash \in {<<>>} \cup {HeaderOf(a) : a \in Accesses}
    /\ Len(frame) <= 2

\* "All wiznet spi operations must start with writing a 3 byte header": what
\* the chip has taken when its pin is about to rise is the header and the data
\* of the access that ends, and nothing of another one.
WholeAccess ==
    \A u \in Actors :
       pc[u] = "deselect" => frame = HeaderOf(access[u]) \o DataOf(access[u])

\* An access is under way from the lock to the rising edge of the pin, where the
\* chip has what it took; the rest of the time its user has none.
UnderWay == {"select", "header", "data", "deselect"}
Atomic == INSTANCE AtomicBus WITH
    Users <- Actors, Requests <- Accesses, NoRequest <- NoAccess,
    request <- [u \in Actors |-> IF pc[u] \in UnderWay THEN access[u] ELSE NoAccess],
    took <- IF \E u \in Actors : pc[u] = "deselect" THEN frame ELSE <<>>

\* The lock, the pin, the header kept and the ways to send bytes implement
\* atomic accesses: one at a time, each served whole and once before it ends.
ImplementsAtomicBus == Atomic!Spec

\* A header that is kept belongs to the access under way: none is left behind
\* for the next one, whoever makes it.
NoStaleHeader ==
    stash # <<>> => \E u \in Actors : pc[u] = "data" /\ stash = HeaderOf(access[u])

\* A failed wiznet_spi_pio_open gives back the state machine, the program
\* memory and the DMA channels, at whichever step it fails.
FailedOpenReleases == openPc = "failed" => claimed \subseteq {"slot"}

\* An access always ends and leaves the lock, except in the builds where the
\* handler takes a mutex: there it may interrupt the owner and wait for ever.
LockReleased ==
    (owner # Nobody) ~> (owner = Nobody \/ (build.lock = "mutex" /\ pc[Handler] = "stuck"))
===============================================================================
