-------------------------------- MODULE W5x00Rx --------------------------------
(***************************************************************************)
(* Receiving a frame: recv_lwip looks at the size of what the chip holds,  *)
(* reads the header with the frame's length from the chip's ring and then  *)
(* the frame, and after each of the two writes the read pointer Sn_RX_RD   *)
(* and gives the RECV command, by which the chip adopts the pointer.       *)
(*                                                                         *)
(* Unlike send_lwip it does not wait until the chip has taken a command.   *)
(* How long that may last is a property of the chip, which is outside the  *)
(* repository: Chips gives the cases.  Data is counted in pieces; the      *)
(* header of two bytes is one piece.                                       *)
(***************************************************************************)
EXTENDS Integers, Sequences

CONSTANTS
    MaxFrames,  \* bound: frames stored
    MaxSize,    \* pieces of the longest frame
    Buf,        \* pieces of the caller's buffer, the array pack of w5x00_task
    Ring,       \* pieces of the chip's receive memory
    Chips       \* records [lag, sends]: the accesses of the driver that a
                \* command may remain untaken, and whether tasks send

ASSUME RxAssumption ==
    /\ MaxFrames \in Nat /\ Buf \in Nat \ {0} /\ MaxSize \in Nat \ {0}
    /\ Ring \in Nat /\ Ring > MaxSize
    /\ \A c \in Chips : c.lag \in Nat /\ c.sends \in BOOLEAN

VARIABLES
    chip,    \* the chip considered
    mem,     \* its receive memory, a ring
    wr, rd,  \* where it writes, and from where the memory is taken
    rxRd,    \* Sn_RX_RD
    cr,      \* Sn_CR: "none", "recv", "send"
    age,     \* the accesses since the command was given
    pc,      \* where the driver is: in the loop ("look"), or in recv_lwip
    ptr,     \* the Sn_RX_RD it has read
    packLen, \* pack_len of recv_lwip
    pack,    \* what it has read into the buffer
    sizes,   \* the size of each frame ever stored
    taken,   \* the frames that are out
    got      \* the frames that recv_lwip has returned

chipVars == <<chip, mem, wr, rd, rxRd, cr, age>>
drvVars == <<pc, ptr, packLen, pack>>
vars == <<chipVars, drvVars, sizes, taken, got>>

\* Pointers count beyond the ring, so that a full one is not an empty one.
Ptrs == 2 * Ring

\* Data piece k of frame n is <<n, k>>, a header <<0, l>> with the length l
\* of the frame and the header.  What is read in the place of a header is one.
Pieces == (0 .. MaxFrames) \X (0 .. MaxSize + 1)
Header(size) == <<0, size + 1>>
LengthIn(piece) == piece[2]

Init ==
    /\ chip \in Chips
    /\ mem = [a \in 0 .. Ring - 1 |-> <<0, 0>>]
    /\ wr = 0 /\ rd = 0 /\ rxRd = 0 /\ cr = "none" /\ age = 0
    /\ pc = "look" /\ ptr = 0 /\ packLen = 0 /\ pack = <<>>
    /\ sizes = <<>> /\ taken = 0 /\ got = <<>>

-----------------------------------------------------------------------------
(* The chip, and the task that sends.                                        *)

\* Sn_RX_RSR: what has been stored and not been taken by RECV.
ReceivedSize == (wr - rd) % Ptrs

\* A frame is stored and announced as a whole, or not at all.
Store(size) ==
    /\ Len(sizes) < MaxFrames
    /\ ReceivedSize + size + 1 <= Ring
    /\ sizes' = Append(sizes, size)
    /\ mem' = [a \in 0 .. Ring - 1 |->
                 LET k == (a - wr) % Ring
                 IN  IF k = 0 THEN Header(size)
                     ELSE IF k <= size THEN <<Len(sizes'), k>> ELSE mem[a]]
    /\ wr' = (wr + size + 1) % Ptrs
    /\ UNCHANGED <<chip, rd, rxRd, cr, age, drvVars, taken, got>>

TakeCommand ==
    /\ cr # "none" /\ cr' = "none"
    /\ rd' = IF cr = "recv" THEN rxRd ELSE rd
    /\ age' = 0
    /\ UNCHANGED <<chip, mem, wr, rxRd, drvVars, sizes, taken, got>>

\* An access that the chip cannot be late for.
InTime == cr = "none" \/ age < chip.lag

\* send_lwip writes the same command register.
SendCommand ==
    /\ chip.sends /\ InTime
    /\ cr' = "send" /\ age' = 0
    /\ UNCHANGED <<chip, mem, wr, rd, rxRd, drvVars, sizes, taken, got>>

-----------------------------------------------------------------------------
(* The driver: the loop's getsockopt(SO_RECVBUF), and recv_lwip.             *)

Go(from, to) == pc = from /\ pc' = to /\ InTime /\ UNCHANGED <<chip, mem, wr, rd>>

\* A read access.
Read(from, to) ==
    /\ Go(from, to)
    /\ age' = IF cr = "none" THEN 0 ELSE age + 1
    /\ UNCHANGED <<rxRd, cr>>

\* Sn_RX_RD is written.
Advance(from, to, length) ==
    /\ Go(from, to)
    /\ rxRd' = (ptr + length) % Ptrs
    /\ age' = IF cr = "none" THEN 0 ELSE age + 1
    /\ UNCHANGED <<cr, ptr, packLen, pack, sizes, taken, got>>

Recv(from, to) == Go(from, to) /\ cr' = "recv" /\ age' = 0 /\ UNCHANGED <<rxRd, sizes>>

Look ==
    /\ Read("look", IF ReceivedSize > 0 THEN "size" ELSE "look")
    /\ UNCHANGED <<ptr, packLen, pack, sizes, taken, got>>

\* Variant: the loop's size is relied on.
SizeTrusted ==
    /\ Read("size", "header")
    /\ UNCHANGED <<ptr, packLen, pack, sizes, taken, got>>

\* getSn_RX_RSR once more: the loop's size may be from before the last RECV.
Size ==
    /\ Read("size", IF ReceivedSize > 0 THEN "header" ELSE "look")
    /\ UNCHANGED <<ptr, packLen, pack, sizes, taken, got>>

\* wiz_recv_data: Sn_RX_RD is read, and data from there on.  The length has
\* 16 bits, as the pointers have.
ReadHeader ==
    /\ Read("header", "header_rd")
    /\ ptr' = rxRd
    /\ packLen' = (LengthIn(mem[rxRd % Ring]) - 1) % Ptrs
    /\ UNCHANGED <<pack, sizes, taken, got>>

AdvanceHeader == Advance("header_rd", "header_recv", 1)

\* Variant: every frame fits.
RecvHeaderUnchecked ==
    /\ Recv("header_recv", "data")
    /\ UNCHANGED <<ptr, packLen, pack, taken, got>>

RecvHeader ==
    /\ Recv("header_recv", IF packLen > Buf THEN "ignore" ELSE "data")
    /\ UNCHANGED <<ptr, packLen, pack, taken, got>>

ReadData ==
    /\ Read("data", "data_rd")
    /\ ptr' = rxRd
    /\ pack' = [k \in 1 .. packLen |-> mem[(rxRd + k - 1) % Ring]]
    /\ UNCHANGED <<packLen, sizes, taken, got>>

AdvanceData == Advance("data_rd", "data_recv", packLen)

\* recv_lwip returns the length, and the loop takes the frame from the buffer.
RecvData ==
    /\ Recv("data_recv", "look")
    /\ got' = Append(got, pack) /\ taken' = taken + 1
    /\ pack' = <<>> /\ packLen' = 0 /\ ptr' = 0

\* wiz_recv_ignore: the pointer is read, and moved.
Ignore ==
    /\ Read("ignore", "ignore_rd")
    /\ ptr' = rxRd
    /\ UNCHANGED <<packLen, pack, sizes, taken, got>>

AdvanceIgnored == Advance("ignore_rd", "ignore_recv", packLen)

\* Variant: the pointer is moved, and the chip is not told.
RecvIgnoredForgotten ==
    /\ Read("ignore_recv", "look")
    /\ taken' = taken + 1
    /\ packLen' = 0 /\ ptr' = 0
    /\ UNCHANGED <<pack, sizes, got>>

RecvIgnored ==
    /\ Recv("ignore_recv", "look")
    /\ taken' = taken + 1
    /\ packLen' = 0 /\ ptr' = 0
    /\ UNCHANGED <<pack, got>>

Driver ==
    \/ Look \/ Size \/ ReadHeader \/ AdvanceHeader \/ RecvHeader
    \/ ReadData \/ AdvanceData \/ RecvData
    \/ Ignore \/ AdvanceIgnored \/ RecvIgnored

-----------------------------------------------------------------------------
Next ==
    \/ \E size \in 1 .. MaxSize : Store(size)
    \/ TakeCommand \/ SendCommand \/ Driver

Spec == Init /\ [][Next]_vars

-----------------------------------------------------------------------------
\* Of the buffer: no frame is read that is longer.
TypeOK ==
    /\ chip \in Chips
    /\ mem \in [0 .. Ring - 1 -> Pieces]
    /\ wr \in 0 .. Ptrs - 1 /\ rd \in 0 .. Ptrs - 1 /\ rxRd \in 0 .. Ptrs - 1
    /\ cr \in {"none", "recv", "send"} /\ age \in 0 .. chip.lag
    /\ pc \in {"look", "size", "header", "header_rd", "header_recv", "data", "data_rd",
               "data_recv", "ignore", "ignore_rd", "ignore_recv"}
    /\ ptr \in 0 .. Ptrs - 1 /\ packLen \in 0 .. Ptrs - 1
    /\ pack \in Seq(Pieces) /\ Len(pack) <= Buf
    /\ sizes \in Seq(1 .. MaxSize) /\ Len(sizes) <= MaxFrames
    /\ taken \in 0 .. Len(sizes) /\ got \in Seq(Seq(Pieces))

\* Between two calls, and with the last command taken, the memory of every frame
\* that is out belongs to the chip again: what is left is the frames to come.
MemoryReturned ==
    pc = "look" /\ cr # "recv" => rd = rxRd

Received == INSTANCE EthernetRx

\* recv_lwip implements EthernetRx: it never reads a header where none is, and
\* never returns a frame twice, torn or out of order.
ImplementsEthernetRx == Received!Spec
===============================================================================
