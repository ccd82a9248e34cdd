------------------------------- MODULE PollLoop -------------------------------
(***************************************************************************)
(* The infinite loop of w5x00_task in its default, polling build: the      *)
(* link check when nothing was read for W5X00_CHECK_LINK_TIMEOUT_MS        *)
(* (module LinkStatus), and the drain of the chip's receive memory into    *)
(* pbufs handed to lwIP's tcpip_thread through its mailbox.                *)
(*                                                                         *)
(* Outside the repository: the chip drops a frame that does not fit into   *)
(* its memory; pbuf_alloc takes from a pool of fixed size; tcpip_input     *)
(* posts to a mailbox of fixed size and refuses when it is full.           *)
(***************************************************************************)
EXTENDS LinkStatus, Sequences, FiniteSets

CONSTANTS
    CheckBuilds,  \* the builds considered: may linkChecked be TRUE, be FALSE?
    EarlyBuilds,  \* and may early be TRUE, be FALSE?
    Timeout,      \* W5X00_CHECK_LINK_TIMEOUT_MS, in steps of the clock
    MaxFrames,    \* bound: the frames that ever arrive
    ChipFrames,   \* the frames the chip's receive memory holds
    PoolSize,     \* PBUF_POOL_SIZE
    MboxSize      \* TCPIP_MBOX_SIZE

ASSUME LoopAssumption ==
    /\ CheckBuilds \subseteq BOOLEAN /\ EarlyBuilds \subseteq BOOLEAN
    /\ Timeout \in Nat \ {0} /\ MaxFrames \in Nat
    /\ ChipFrames \in Nat \ {0} /\ PoolSize \in Nat \ {0} /\ MboxSize \in Nat \ {0}

VARIABLES
    linkChecked,  \* the build: W5X00_CHECK_LINK_TIMEOUT_MS is not 0
    early,      \* the build: it is longer than from boot to the loop
    pc,         \* where the driver is in the loop
    age,        \* the time since last_read_time, up to Timeout
    arrived,    \* the number of frames that have come over the wire
    chipRx,     \* the frames in the chip, numbered in the order of arrival
    oversize,   \* those longer than W5X00_MAX_ETH_FRAME
    packLen,    \* pack_len: is it greater than 0?
    pack,       \* the frame in the driver's buffer pack, 0 for none
    pbuf,       \* the frame of the pbuf that belongs to the driver, 0 for none
    free,       \* free pbufs of the pool
    mbox,       \* frames in tcpip_thread's mailbox
    taken,      \* the frame tcpip_thread is working on, 0 for none
    delivered   \* the frames it has worked on

rxVars == <<packLen, pack, pbuf, free, mbox, taken, delivered>>
wireVars == <<arrived, chipRx, oversize>>
build == <<linkChecked, early>>
vars == <<linkVars, build, pc, age, wireVars, rxVars>>

Frames == 1 .. MaxFrames

\* last_read_time is 0, so the age is the time since boot: with the default
\* time-out, 100 ms, the start-up alone has taken longer.
Init ==
    /\ LinkInit
    /\ linkChecked \in CheckBuilds /\ early \in EarlyBuilds
    /\ pc = "enter" /\ age \in IF early THEN 0 .. Timeout - 1 ELSE {Timeout}
    /\ arrived = 0 /\ chipRx = <<>> /\ oversize = {}
    /\ packLen = FALSE /\ pack = 0 /\ pbuf = 0 /\ free = PoolSize
    /\ mbox = <<>> /\ taken = 0 /\ delivered = <<>>

-----------------------------------------------------------------------------
(* The wire and the clock.                                                   *)

Arrive ==
    /\ phy /\ arrived < MaxFrames
    /\ arrived' = arrived + 1
    /\ chipRx' = IF Len(chipRx) < ChipFrames THEN Append(chipRx, arrived') ELSE chipRx
    /\ \/ UNCHANGED oversize
       \/ oversize' = oversize \cup {arrived'}
    /\ UNCHANGED <<linkVars, build, pc, age, rxVars>>

Tick ==
    /\ age < Timeout
    /\ age' = age + 1
    /\ UNCHANGED <<linkVars, build, pc, wireVars, rxVars>>

Watcher ==
    /\ \E w \in Watchers : EventWait(w)
    /\ UNCHANGED <<build, pc, age, wireVars, rxVars>>

Cable == CableMoves /\ UNCHANGED <<build, pc, age, wireVars, rxVars>>

-----------------------------------------------------------------------------
(* The driver task.                                                          *)

Go(from, to) == pc = from /\ pc' = to /\ UNCHANGED build

\* getsockopt(0, SO_RECVBUF, &pack_len)
ReadLength == packLen' = (chipRx # <<>>)

\* Without the link check the link is declared up before the loop.
Declare ==
    /\ pc = "enter" /\ ~linkChecked /\ ~linkStatus
    /\ DeclareUp
    /\ UNCHANGED <<build, pc, age, wireVars, rxVars>>

EnterLoop ==
    /\ Go("enter", "top")
    /\ linkChecked \/ linkStatus
    /\ ReadLength
    /\ UNCHANGED <<linkVars, age, wireVars, pack, pbuf, free, mbox, taken, delivered>>


Top ==
    /\ Go("top", IF linkChecked /\ age = Timeout THEN "check" ELSE "drain")
    /\ UNCHANGED <<linkVars, age, wireVars, rxVars>>

Check ==
    /\ pc = "check"
    /\ CheckLink
    /\ pc' = IF checkPc' = "idle" THEN "checked" ELSE "check"
    /\ UNCHANGED build
    /\ UNCHANGED <<age, wireVars, rxVars>>

\* Variant: the link is checked once, and the loop goes on with the link down.
CheckOnce ==
    /\ Go("checked", "drain")
    /\ age' = 0
    /\ UNCHANGED <<linkVars, wireVars, rxVars>>

\* last_read_time is now, then W5X00_POLL_SLEEP; again while the link is down.
AfterCheck ==
    /\ Go("checked", IF linkStatus THEN "drain" ELSE "check")
    /\ age' = 0
    /\ UNCHANGED <<linkVars, wireVars, rxVars>>

DrainTest ==
    /\ Go("drain", IF packLen THEN "recv" ELSE "sleep")
    /\ UNCHANGED <<linkVars, age, wireVars, rxVars>>

\* recv_lwip: an oversize frame is skipped, and 0 returned.
Receive ==
    /\ pack' = IF chipRx = <<>> \/ Head(chipRx) \in oversize THEN 0 ELSE Head(chipRx)
    /\ Go("recv", IF pack' = 0 THEN "drained" ELSE "alloc")
    /\ chipRx' = IF chipRx = <<>> THEN chipRx ELSE Tail(chipRx)
    /\ UNCHANGED <<linkVars, age, arrived, oversize, packLen, pbuf, free, mbox,
                   taken, delivered>>

\* Variant: pbuf_alloc's result is not looked at.
AllocUnchecked ==
    /\ Go("alloc", "input")
    /\ free' = free - 1 /\ pbuf' = pack /\ pack' = 0
    /\ UNCHANGED <<linkVars, age, wireVars, packLen, mbox, taken, delivered>>

\* pbuf_alloc and pbuf_take; without a pbuf the frame is forgotten.
Alloc ==
    /\ Go("alloc", IF free = 0 THEN "drained" ELSE "input")
    /\ IF free = 0 THEN UNCHANGED <<free, pbuf>>
                   ELSE free' = free - 1 /\ pbuf' = pack
    /\ pack' = 0
    /\ UNCHANGED <<linkVars, age, wireVars, packLen, mbox, taken, delivered>>

\* Variant: the pbuf that lwIP refused is not given back.
InputLeak ==
    /\ Go("input", "drained")
    /\ mbox' = IF Len(mbox) < MboxSize THEN Append(mbox, pbuf) ELSE mbox
    /\ pbuf' = 0
    /\ UNCHANGED <<linkVars, age, wireVars, packLen, pack, free, taken, delivered>>

\* tcpip_input; when it fails the pbuf still belongs to the driver: pbuf_free.
\* Either way it is not the driver's any more: p keeps its value, but is not used
\* before the next pbuf_alloc.
Input ==
    /\ Go("input", "drained")
    /\ IF Len(mbox) < MboxSize
       THEN mbox' = Append(mbox, pbuf) /\ UNCHANGED free
       ELSE free' = free + 1 /\ UNCHANGED mbox
    /\ pbuf' = 0
    /\ UNCHANGED <<linkVars, age, wireVars, packLen, pack, taken, delivered>>

\* W5X00_DRAIN_SLEEP, last_read_time is now, and the length read again.
Drained ==
    /\ Go("drained", "drain")
    /\ age' = 0
    /\ ReadLength
    /\ UNCHANGED <<linkVars, wireVars, pack, pbuf, free, mbox, taken, delivered>>

\* Variant: the length read before the sleep is used.
SleepStale ==
    /\ Go("sleep", "top")
    /\ UNCHANGED <<linkVars, age, wireVars, rxVars>>

\* W5X00_POLL_SLEEP and the length for the next round.
Sleep ==
    /\ Go("sleep", "top")
    /\ ReadLength
    /\ UNCHANGED <<linkVars, age, wireVars, pack, pbuf, free, mbox, taken, delivered>>

Driver ==
    \/ Declare \/ EnterLoop \/ Top \/ Check \/ AfterCheck \/ DrainTest \/ Receive \/ Alloc
    \/ Input \/ Drained \/ Sleep

-----------------------------------------------------------------------------
(* lwIP's tcpip_thread.                                                      *)

TcpipTakes ==
    /\ taken = 0 /\ mbox # <<>>
    /\ taken' = Head(mbox) /\ mbox' = Tail(mbox)
    /\ UNCHANGED <<linkVars, build, pc, age, wireVars, packLen, pack, pbuf, free, delivered>>

TcpipFrees ==
    /\ taken # 0
    /\ delivered' = Append(delivered, taken)
    /\ taken' = 0 /\ free' = free + 1
    /\ UNCHANGED <<linkVars, build, pc, age, wireVars, packLen, pack, pbuf, mbox>>

Next == Arrive \/ Tick \/ Cable \/ Watcher \/ Driver \/ TcpipTakes \/ TcpipFrees

Spec == Init /\ [][Next]_vars

\* The tasks run, the clock ticks, and the PHY can be read.
FairSpec ==
    /\ Spec
    /\ WF_vars(Driver) /\ WF_vars(TcpipTakes) /\ WF_vars(TcpipFrees) /\ WF_vars(Tick)
    /\ SF_vars(Check /\ ReadLink)

-----------------------------------------------------------------------------
TypeOK ==
    /\ LinkTypeOK
    /\ linkChecked \in CheckBuilds /\ early \in EarlyBuilds
    /\ pc \in {"enter", "top", "check", "checked", "drain", "recv", "alloc",
               "input", "drained", "sleep"}
    /\ age \in 0 .. Timeout
    /\ arrived \in 0 .. MaxFrames
    /\ chipRx \in Seq(Frames) /\ Len(chipRx) <= ChipFrames /\ oversize \subseteq Frames
    /\ packLen \in BOOLEAN
    /\ pack \in 0 .. MaxFrames /\ pbuf \in 0 .. MaxFrames /\ taken \in 0 .. MaxFrames
    /\ free \in 0 .. PoolSize
    /\ mbox \in Seq(Frames) /\ Len(mbox) <= MboxSize
    /\ delivered \in Seq(Frames)

One(frame) == IF frame = 0 THEN 0 ELSE 1

\* No pbuf is lost or freed twice, whatever the driver and tcpip_thread do
\* with it: each is free, or holds one frame on its way.
PbufsConserved == free + One(pbuf) + Len(mbox) + One(taken) = PoolSize

\* The frames on their way from the chip to lwIP, oldest first.
Pipeline ==
    LET Pending(f) == IF f = 0 THEN <<>> ELSE <<f>>
    IN  delivered \o Pending(taken) \o mbox \o Pending(pbuf) \o Pending(pack) \o chipRx

\* Frames are lost but never reordered or duplicated between the wire and lwIP.
InOrder ==
    LET p == Pipeline IN \A i, j \in DOMAIN p : i < j => p[i] < p[j]

\* lwIP is given frames only on an interface whose link it knows to be up.  One
\* exception: with a time-out longer than from boot to the loop the first rounds
\* do not check the link, and until it first comes up (no event was set) frames
\* are input with the interface down.
InputMeansLinkUp ==
    pc \in {"recv", "alloc", "input"} =>
       (netifLink /\ linkStatus) \/ (early /\ bits = {})

\* The loop leaves nothing behind: while the link stays up every frame is
\* taken out of the chip, however the drain and the arrivals interleave.
ChipDrained == (<>[]phy) => <>[](chipRx = <<>>)


\* W5X00_CHECK_LINK_TIMEOUT_MS: "If set to @c 0, the link is always treated as
\* UP", by the interface, by the event and by link_status.
LinkAlwaysUp == ~linkChecked /\ pc # "enter" => netifLink /\ linkStatus /\ bits = {"LINK_UP"}
===============================================================================
