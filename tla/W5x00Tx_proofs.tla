---------------------------- MODULE W5x00Tx_proofs ----------------------------
(***************************************************************************)
(* Proofs about W5x00Tx, for frames of any size, any number of them and    *)
(* both builds.  The types hold however tasks send.  What reaches the wire *)
(* is proved for any number of tasks as long as their calls do not overlap *)
(* (OneAtATime); tx_two_senders shows what happens when they do.           *)
(***************************************************************************)
EXTENDS W5x00Tx, SequenceTheorems, TLAPS

-----------------------------------------------------------------------------
(* The ring.                                                                 *)

LEMMA ModType == ASSUME NEW n \in Nat \ {0}, NEW x \in Int PROVE x % n \in 0 .. n - 1
  OBVIOUS
LEMMA ModSmall == ASSUME NEW n \in Nat \ {0}, NEW x \in 0 .. n - 1 PROVE x % n = x
  OBVIOUS
LEMMA ModWrap == ASSUME NEW n \in Nat \ {0}, NEW x \in n .. 2 * n - 1 PROVE x % n = x - n
  OBVIOUS

LEMMA RingSize == Ring \in Nat \ {0} /\ MaxSize < Ring
  BY TxAssumption

\* A distance walked round the ring is the distance found.
LEMMA RingDistance ==
  ASSUME NEW at \in 0 .. Ring - 1, NEW d \in 0 .. Ring - 1
  PROVE  /\ (at + d) % Ring \in 0 .. Ring - 1
         /\ (((at + d) % Ring) + Ring - at) % Ring = d
<1> DEFINE to == (at + d) % Ring
<1>1. Ring \in Nat \ {0}
  BY RingSize
<1>2. CASE at + d < Ring
  <2>1. to = at + d
    BY <1>1, <1>2, ModSmall
  <2>2. to + Ring - at = d + Ring /\ d + Ring \in Ring .. 2 * Ring - 1
    BY <1>1, <2>1
  <2> HIDE DEF to
  <2>3. (to + Ring - at) % Ring = d
    BY <1>1, <2>2, ModWrap
  <2> QED
    BY <1>1, <1>2, <2>1, <2>3 DEF to
<1>3. CASE at + d >= Ring
  <2>1. to = at + d - Ring
    BY <1>1, <1>3, ModWrap
  <2>2. to + Ring - at = d
    BY <1>1, <2>1
  <2>3. to \in 0 .. Ring - 1
    BY <1>1, <1>3, <2>1
  <2> HIDE DEF to
  <2>4. (to + Ring - at) % Ring = d
    BY <1>1, <2>2, ModSmall
  <2> QED
    BY <2>3, <2>4 DEF to
<1> QED
  BY <1>1, <1>2, <1>3

-----------------------------------------------------------------------------
(* Types.                                                                    *)

Pcs == {"idle", "clear", "copy", "read_wr", "write", "write_wr",
        "command", "wait_cr", "wait_ir", "return"}
SenderType ==
    /\ pc \in [Senders -> Pcs]
    /\ call \in [Senders -> 0 .. MaxCalls] /\ copied \in [Senders -> 0 .. MaxSize]
    /\ wrAt \in [Senders -> 0 .. Ring - 1]
    /\ sizes \in Seq(1 .. MaxSize) /\ Len(sizes) <= MaxCalls
FrameType == txFrame \in [1 .. FrameRoom -> Pieces] /\ behind \in [Behind -> Pieces]
MemoryType ==
    /\ txMem \in [0 .. Ring - 1 -> Pieces]
    /\ wr \in 0 .. Ring - 1 /\ rd \in 0 .. Ring - 1
ChipType ==
    /\ cr \in BOOLEAN /\ busy \in BOOLEAN /\ ir \subseteq {"SENDOK", "TIMEOUT", "RECV"}
    /\ interrupt \in IrqBuilds /\ edge \in BOOLEAN /\ isr \in {"idle", "clear"}
    /\ isrSeen \subseteq {"SENDOK", "TIMEOUT", "RECV"}
FailedType == failed \subseteq 1 .. MaxCalls

\* A call under way is one that was offered, and copies no more than it has.
CallInv ==
    \A s \in Senders :
       /\ pc[s] # "idle" => call[s] \in 1 .. Len(sizes)
       /\ pc[s] = "copy" => copied[s] < Size(s)

LEMMA TypeParts ==
  TypeOK <=> /\ SenderType /\ FrameType /\ OnlyLongFramesSpill
             /\ MemoryType /\ ChipType /\ FailedType
  BY DEF TypeOK, SenderType, FrameType, MemoryType, ChipType, FailedType, Pcs

LEMMA SizeType ==
  ASSUME SenderType, CallInv, NEW s \in Senders, pc[s] # "idle"
  PROVE  Size(s) \in 1 .. MaxSize /\ Length(s) \in 1 .. MaxSize
<1>1. Size(s) \in 1 .. MaxSize
  <2>1. call[s] \in 1 .. Len(sizes) /\ sizes \in Seq(1 .. MaxSize)
    BY DEF SenderType, CallInv
  <2>2. sizes[call[s]] \in 1 .. MaxSize
    BY <2>1, ElementOfSeq
  <2> QED
    BY <2>2 DEF Size
<1> QED
  BY <1>1, TxAssumption DEF Length, Padded

\* The chip's memory is larger than any frame: send_lwip sends all of it.
LEMMA NothingCutOff ==
  ASSUME SenderType, CallInv, NEW s \in Senders, pc[s] # "idle"
  PROVE  Length(s) = Padded(s)
  BY SizeType, TxAssumption DEF Length, Padded

LEMMA SenderStep ==
  SenderType /\ MemoryType /\ CallInv /\ [Next]_vars => SenderType' /\ CallInv'
<1> SUFFICES ASSUME SenderType, MemoryType, CallInv, [Next]_vars
             PROVE  SenderType' /\ CallInv'
  OBVIOUS
<1>1. CASE UNCHANGED <<pc, call, copied, wrAt, sizes>>
  BY <1>1 DEF SenderType, CallInv, Size
<1>2. ASSUME NEW s \in Senders, Output(s) PROVE SenderType' /\ CallInv'
  <2>1. PICK size \in 1 .. MaxSize : sizes' = Append(sizes, size)
    BY <1>2 DEF Output
  <2>2. /\ sizes' \in Seq(1 .. MaxSize) /\ Len(sizes') = Len(sizes) + 1
        /\ \A i \in 1 .. Len(sizes) : sizes'[i] = sizes[i]
    BY <2>1, AppendProperties DEF SenderType
  <2>3. Len(sizes) \in Nat /\ Len(sizes) < MaxCalls /\ MaxCalls \in Nat
    BY <1>2, LenProperties, TxAssumption DEF Output, SenderType
  <2>4. Len(sizes') \in 1 .. MaxCalls
    BY <2>2, <2>3
  <2>5. call' = [call EXCEPT ![s] = Len(sizes')] /\ pc' = [pc EXCEPT ![s] = "clear"]
        /\ UNCHANGED <<copied, wrAt>>
    BY <1>2 DEF Output, Step
  <2>6. SenderType'
    BY <2>2, <2>4, <2>5 DEF SenderType, Pcs
  <2>7. ASSUME NEW u \in Senders
        PROVE  /\ pc'[u] # "idle" => call'[u] \in 1 .. Len(sizes')
               /\ pc'[u] = "copy" => copied'[u] < Size(u)'
    <3>1. CASE u = s
      BY <2>4, <2>5, <3>1 DEF SenderType
    <3>2. CASE u # s
      <4>1. pc'[u] = pc[u] /\ call'[u] = call[u] /\ copied'[u] = copied[u]
        BY <2>5, <3>2 DEF SenderType
      <4>2. pc[u] # "idle" => Size(u)' = Size(u)
        BY <2>2, <4>1 DEF CallInv, Size
      <4> QED
        BY <2>2, <2>3, <4>1, <4>2 DEF CallInv
    <3> QED
      BY <3>1, <3>2
  <2> QED
    BY <2>6, <2>7 DEF CallInv
<1>3. ASSUME NEW s \in Senders, NEW from, NEW to \in Pcs \ {"copy"}, from # "idle",
             Step(s, from, to), UNCHANGED <<call, copied, wrAt, sizes>>
      PROVE  SenderType' /\ CallInv'
  BY <1>3 DEF Step, SenderType, CallInv, Size
<1>4. ASSUME NEW s \in Senders, Clear(s) PROVE SenderType' /\ CallInv'
  <2>1. Size(s) > 0
    BY <1>4, SizeType DEF Clear, Step
  <2> QED
    BY <1>4, <2>1, TxAssumption DEF Clear, Step, SenderType, Pcs, CallInv, Size
<1>5. ASSUME NEW s \in Senders, Copy(s) PROVE SenderType' /\ CallInv'
  <2>1. copied[s] < Size(s) /\ Size(s) \in 1 .. MaxSize
    BY <1>5, SizeType DEF Copy, Step, CallInv
  <2>2. copied[s] + 1 \in 0 .. MaxSize
    BY <2>1, TxAssumption DEF SenderType
  <2> QED
    BY <1>5, <2>1, <2>2 DEF Copy, Step, SenderType, Pcs, CallInv, Size
<1>6. ASSUME NEW s \in Senders, ReadPointer(s) PROVE SenderType' /\ CallInv'
  BY <1>6 DEF ReadPointer, Step, SenderType, Pcs, CallInv, Size, MemoryType
<1>7. ASSUME NEW s \in Senders, Send(s) PROVE SenderType' /\ CallInv'
  BY <1>3, <1>4, <1>5, <1>6, <1>7 DEF Send, WriteData, WritePointer, Command, CommandTaken,
     SendOk, SendTimesOut, Return, Pcs
<1> QED
  BY <1>1, <1>2, <1>7 DEF Next, Chip, ChipTakes, ChipSends, ChipGivesUp, FrameArrives,
     OwnerWrites, Handler,
     HandlerReads, HandlerClears, vars

LEMMA FrameStep == SenderType /\ FrameType /\ CallInv /\ [Next]_vars => FrameType'
<1> SUFFICES ASSUME SenderType, FrameType, CallInv, [Next]_vars PROVE FrameType'
  OBVIOUS
<1>1. CASE UNCHANGED <<txFrame, behind>>
  BY <1>1 DEF FrameType
<1>2. ASSUME NEW s \in Senders, Clear(s) PROVE FrameType'
  BY <1>2 DEF Clear, Zeros, FrameType, Pieces
<1>3. ASSUME NEW s \in Senders, Copy(s) PROVE FrameType'
  <2>1. copied[s] < Size(s) /\ Size(s) \in 1 .. MaxSize /\ call[s] \in 1 .. Len(sizes)
    BY <1>3, SizeType DEF Copy, Step, CallInv
  <2>2. copied[s] + 1 \in 1 .. MaxSize /\ copied'[s] = copied[s] + 1
    BY <1>3, <2>1, TxAssumption DEF Copy, SenderType
  <2>3. call[s] \in 1 .. MaxCalls
    BY <2>1, TxAssumption DEF SenderType
  <2>4. <<call[s], copied'[s]>> \in Pieces
    BY <2>2, <2>3 DEF Pieces
  <2> QED
    BY <1>3, <2>4 DEF Copy, FrameType
<1>4. ASSUME NEW s \in Senders, Output(s) \/ Send(s) PROVE FrameType'
  BY <1>1, <1>2, <1>3, <1>4 DEF Output, Send, ReadPointer, WriteData, WritePointer, Command,
     CommandTaken, SendOk, SendTimesOut, Return, bufVars
<1>5. CASE OwnerWrites
  BY <1>5 DEF OwnerWrites, FrameType, Pieces
<1> QED
  BY <1>1, <1>4, <1>5 DEF Next, Chip, ChipTakes, ChipSends, ChipGivesUp, FrameArrives,
     Handler, HandlerReads, HandlerClears, vars, bufVars

LEMMA SpillStep ==
  SenderType /\ FrameType /\ CallInv /\ OnlyLongFramesSpill /\ [Next]_vars
  => OnlyLongFramesSpill'
<1> SUFFICES ASSUME SenderType, FrameType, CallInv, OnlyLongFramesSpill, [Next]_vars
             PROVE  OnlyLongFramesSpill'
  OBVIOUS
<1>1. CASE UNCHANGED <<behind, sizes>>
  BY <1>1 DEF OnlyLongFramesSpill
<1>2. ASSUME NEW s \in Senders, Output(s) PROVE OnlyLongFramesSpill'
  <2>1. PICK size \in 1 .. MaxSize : sizes' = Append(sizes, size)
    BY <1>2 DEF Output
  <2>2. \A n \in DOMAIN sizes : n \in DOMAIN sizes' /\ sizes'[n] = sizes[n]
    BY <2>1, AppendProperties, LenProperties DEF SenderType
  <2>3. behind' = behind
    BY <1>2 DEF Output, bufVars
  <2> QED
    BY <2>2, <2>3 DEF OnlyLongFramesSpill
<1>3. ASSUME NEW s \in Senders, Copy(s) PROVE OnlyLongFramesSpill'
  <2>1. /\ copied[s] \in Nat /\ copied[s] < Size(s) /\ Size(s) \in 1 .. MaxSize
        /\ call[s] \in DOMAIN sizes
    BY <1>3, SizeType, LenProperties DEF Copy, Step, CallInv, SenderType
  <2>2. /\ behind' = [behind EXCEPT ![copied[s] + 1] = <<call[s], copied[s] + 1>>]
        /\ sizes' = sizes
    BY <1>3 DEF Copy, SenderType
  <2>3. sizes[call[s]] >= copied[s] + 1
    BY <2>1 DEF Size
  <2>4. ASSUME NEW k \in Behind
        PROVE  \/ behind'[k] = Foreign
               \/ \E n \in DOMAIN sizes : sizes[n] >= k /\ behind'[k] = <<n, k>>
    <3>1. CASE k = copied[s] + 1
      BY <2>1, <2>2, <2>3, <3>1 DEF FrameType
    <3>2. CASE k # copied[s] + 1
      BY <2>2, <3>2 DEF FrameType, OnlyLongFramesSpill
    <3> QED
      BY <3>1, <3>2
  <2> QED
    BY <2>2, <2>4 DEF OnlyLongFramesSpill
<1>4. ASSUME NEW s \in Senders, Send(s) PROVE OnlyLongFramesSpill'
  BY <1>1, <1>3, <1>4 DEF Send, Clear, ReadPointer, WriteData, WritePointer, Command,
     CommandTaken, SendOk, SendTimesOut, Return, bufVars
<1>5. CASE OwnerWrites
  BY <1>5 DEF OwnerWrites, FrameType, OnlyLongFramesSpill
<1> QED
  BY <1>1, <1>2, <1>4, <1>5 DEF Next, Chip, ChipTakes, ChipSends, ChipGivesUp, FrameArrives,
     Handler, HandlerReads, HandlerClears, vars, bufVars

\* What send_lwip reads, within tx_frame or behind it, is a piece.
LEMMA BufferPiece == ASSUME FrameType, NEW k \in 1 .. MaxSize PROVE InBuffer(k) \in Pieces
  BY TxAssumption DEF FrameType, InBuffer, Behind

LEMMA MemoryStep ==
  SenderType /\ FrameType /\ MemoryType /\ CallInv /\ [Next]_vars => MemoryType'
<1> SUFFICES ASSUME SenderType, FrameType, MemoryType, CallInv, [Next]_vars PROVE MemoryType'
  OBVIOUS
<1>1. CASE UNCHANGED <<txMem, wr, rd>>
  BY <1>1 DEF MemoryType
<1>2. ASSUME NEW s \in Senders, WriteData(s) PROVE MemoryType'
  <2>1. Length(s) \in 1 .. MaxSize
    BY <1>2, SizeType DEF WriteData, Step
  <2>2. ASSUME NEW k \in 0 .. Ring - 1 PROVE txMem'[k] \in Pieces
    <3> DEFINE i == (k + Ring - wrAt[s]) % Ring
    <3>1. i \in 0 .. Ring - 1
      <4>1. k + Ring - wrAt[s] \in Int
        BY RingSize DEF SenderType
      <4> QED
        BY <4>1, RingSize, ModType
    <3>2. txMem'[k] = IF i < Length(s) THEN InBuffer(i + 1) ELSE txMem[k]
      BY <1>2 DEF WriteData
    <3> HIDE DEF i
    <3>3. CASE i < Length(s)
      <4>1. i + 1 \in 1 .. MaxSize
        BY <2>1, <3>1, <3>3, RingSize, TxAssumption
      <4> QED
        BY <3>2, <3>3, <4>1, BufferPiece
    <3> QED
      BY <3>2, <3>3 DEF MemoryType
  <2>3. txMem' = [k \in 0 .. Ring - 1 |-> txMem'[k]]
    BY <1>2 DEF WriteData
  <2>4. txMem' \in [0 .. Ring - 1 -> Pieces]
    BY <2>2, <2>3
  <2> QED
    BY <1>2, <2>4 DEF WriteData, MemoryType
<1>3. ASSUME NEW s \in Senders, WritePointer(s) PROVE MemoryType'
  <2>1. Length(s) \in 1 .. MaxSize
    BY <1>3, SizeType DEF WritePointer, Step
  <2>2. wrAt[s] + Length(s) \in Int
    BY <2>1, TxAssumption, RingSize DEF SenderType
  <2>3. wr' \in 0 .. Ring - 1
    BY <1>3, <2>2, RingSize, ModType DEF WritePointer
  <2> QED
    BY <1>3, <2>3 DEF WritePointer, MemoryType
<1>4. ASSUME NEW s \in Senders, Output(s) \/ Send(s) PROVE MemoryType'
  BY <1>1, <1>2, <1>3, <1>4 DEF Output, Send, Clear, Copy, ReadPointer, Command,
     CommandTaken, SendOk, SendTimesOut, Return, bufVars
<1>5. CASE ChipSends \/ ChipGivesUp
  BY <1>5 DEF ChipSends, ChipGivesUp, MemoryType
<1> QED
  BY <1>1, <1>4, <1>5 DEF Next, Chip, ChipTakes, FrameArrives, OwnerWrites, Handler,
     HandlerReads, HandlerClears, vars, bufVars

LEMMA ChipStep == ChipType /\ [Next]_vars => ChipType'
<1> SUFFICES ASSUME ChipType, [Next]_vars PROVE ChipType'
  OBVIOUS
<1>1. ASSUME NEW s \in Senders, Output(s) \/ Send(s) PROVE ChipType'
  BY <1>1 DEF Output, Send, Clear, Copy, ReadPointer, WriteData, WritePointer, Command,
     CommandTaken, SendOk, SendTimesOut, Return, Step, chipVars, isrVars, ChipType
<1>2. CASE Chip \/ FrameArrives
  BY <1>2 DEF Chip, ChipTakes, ChipSends, ChipGivesUp, FrameArrives, Raise, isrVars, ChipType
<1>3. CASE Handler
  BY <1>3 DEF Handler, HandlerReads, HandlerClears, chipVars, ChipType
<1> QED
  BY <1>1, <1>2, <1>3 DEF Next, OwnerWrites, vars, chipVars, isrVars, ChipType

LEMMA FailedStep == SenderType /\ CallInv /\ FailedType /\ [Next]_vars => FailedType'
<1> SUFFICES ASSUME SenderType, CallInv, FailedType, [Next]_vars PROVE FailedType'
  OBVIOUS
<1>1. ASSUME NEW s \in Senders, SendTimesOut(s) PROVE FailedType'
  <2>1. call[s] \in 1 .. MaxCalls
    BY <1>1, TxAssumption DEF SendTimesOut, Step, CallInv, SenderType
  <2> QED
    BY <1>1, <2>1 DEF SendTimesOut, FailedType
<1>2. CASE UNCHANGED failed
  BY <1>2 DEF FailedType
<1>3. ASSUME NEW s \in Senders, Output(s) \/ Send(s) PROVE FailedType'
  BY <1>1, <1>2, <1>3 DEF Output, Send, Clear, Copy, ReadPointer, WriteData, WritePointer,
     Command, CommandTaken, SendOk, Return
<1> QED
  BY <1>2, <1>3 DEF Next, Chip, ChipTakes, ChipSends, ChipGivesUp, FrameArrives,
     OwnerWrites, Handler,
     HandlerReads, HandlerClears, vars

Types ==
    /\ SenderType /\ FrameType /\ OnlyLongFramesSpill /\ MemoryType
    /\ ChipType /\ FailedType /\ CallInv

LEMMA TypesStart == Init => TypeOK /\ CallInv
<1> SUFFICES ASSUME Init PROVE TypeOK /\ CallInv
  OBVIOUS
<1>1. SenderType /\ CallInv
  BY TxAssumption, RingSize DEF Init, SenderType, CallInv, Pcs
<1>2. FrameType /\ ChipType /\ FailedType
  BY TxAssumption DEF Init, FrameType, Zeros, Pieces, ChipType, FailedType
<1>4. OnlyLongFramesSpill
  BY DEF Init, OnlyLongFramesSpill
<1>3. MemoryType
  BY RingSize DEF Init, MemoryType, Pieces
<1> QED
  BY <1>1, <1>2, <1>3, <1>4, TypeParts

LEMMA TypesKept == Types /\ [Next]_vars => TypeOK' /\ CallInv'
  BY SenderStep, FrameStep, SpillStep, MemoryStep, ChipStep, FailedStep
     DEF Types, TypeOK, SenderType, FrameType, MemoryType, ChipType, FailedType, Pcs

\* Every variable keeps its type, for any set of senders and frames of any
\* size, and netif_output writes behind tx_frame for those alone that are
\* longer than it.
THEOREM TypeCorrect == Spec => [](TypeOK /\ CallInv)
<1>1. TypeOK /\ CallInv /\ [Next]_vars => TypeOK' /\ CallInv'
  BY TypeParts, TypesKept DEF Types
<1> QED
  BY <1>1, TypesStart, PTL DEF Spec

\* Every frame fits tx_frame; nothing behind it is a frame's.
AllFit == \A n \in DOMAIN sizes : sizes[n] <= FrameRoom
BehindKept == \A k \in Behind : behind[k] = Foreign

\* As long as lwIP offers no frame longer than tx_frame, nothing but tx_frame
\* is written, whoever sends and in whatever order.
THEOREM FittingFramesStayInside == Spec => [](AllFit => BehindKept)
<1>1. TypeOK /\ AllFit => BehindKept
  <2> SUFFICES ASSUME TypeOK, AllFit, NEW k \in Behind, NEW n \in DOMAIN sizes, sizes[n] >= k
               PROVE  FALSE
    BY DEF TypeOK, OnlyLongFramesSpill, BehindKept
  <2>1. sizes[n] \in Nat /\ sizes[n] <= FrameRoom
    <3>1. n \in 1 .. Len(sizes) /\ sizes \in Seq(1 .. MaxSize)
      BY LenProperties DEF TypeOK
    <3>2. sizes[n] \in 1 .. MaxSize
      BY <3>1, ElementOfSeq
    <3> QED
      BY <3>2, TxAssumption DEF AllFit
  <2>2. k \in Nat /\ k > FrameRoom
    BY TxAssumption DEF Behind
  <2> QED
    BY <2>1, <2>2, TxAssumption
<1> QED
  BY <1>1, TypeCorrect, PTL

-----------------------------------------------------------------------------
(* Calls that do not overlap: what is where at each step of one.             *)

\* netif_output is called again only when the call before has returned,
\* whichever task made it.
OneAtATime == \A s, t \in Senders : pc[s] # "idle" /\ pc[t] # "idle" => s = t

\* No other call is under way; the steps that are then taken.
Alone(s) == \A t \in Senders : t # s => pc[t] = "idle"
NextOf(s) ==
    Output(s) \/ Send(s) \/ OwnerWrites \/ Chip \/ FrameArrives \/ Handler \/ UNCHANGED vars

LEMMA OnlyOneMoves ==
  ASSUME SenderType, [Next]_vars, NEW s \in Senders, pc'[s] # pc[s]
  PROVE  Output(s) \/ Send(s)
<1>1. ASSUME NEW t \in Senders, Output(t) \/ Send(t), t # s PROVE FALSE
  BY <1>1 DEF SenderType, Output, Send, Clear, Copy, ReadPointer, WriteData, WritePointer,
     Command, CommandTaken, SendOk, SendTimesOut, Return, Step
<1> QED
  BY <1>1 DEF Next, Chip, ChipTakes, ChipSends, ChipGivesUp, FrameArrives,
     OwnerWrites, Handler,
     HandlerReads, HandlerClears, vars

LEMMA AloneStep ==
  ASSUME SenderType, [Next]_vars, NEW s \in Senders, Alone(s), Alone(s)'
  PROVE  NextOf(s)
<1>1. ASSUME NEW t \in Senders, Output(t) \/ Send(t), t # s PROVE FALSE
  <2>1. pc[t] = "idle" /\ pc'[t] = "idle"
    BY <1>1 DEF Alone
  <2> QED
    BY <1>1, <2>1 DEF SenderType, Output, Send, Clear, Copy, ReadPointer, WriteData, WritePointer,
       Command, CommandTaken, SendOk, SendTimesOut, Return, Step
<1> QED
  BY <1>1 DEF Next, NextOf

\* The frame of the latest call as it may go out, and whether it is with the chip.
Offered == LinkOutput!Images(Len(sizes), sizes[Len(sizes)])
Pending(s) == pc[s] = "command" \/ cr \/ busy
Filling == {"clear", "copy", "read_wr", "write", "write_wr"}

LatestInv(s) == pc[s] # "idle" => call[s] = Len(sizes)

\* Piece k of s's frame is sent as x.
SentAs(s, k, x) ==
    \/ x = IF k <= Size(s) THEN <<call[s], k>> ELSE <<>>
    \/ k > FrameRoom /\ x = Foreign

\* The buffer holds the pieces copied so far, and zeros; behind it a piece may
\* have been overwritten since.
FilledTo(s, n) ==
    /\ \A k \in 1 .. FrameRoom : txFrame[k] = IF k <= n THEN <<call[s], k>> ELSE <<>>
    /\ \A k \in Behind : k <= n => behind[k] \in {<<call[s], k>>, Foreign}
BufferInv(s) ==
    /\ pc[s] = "copy" => FilledTo(s, copied[s])
    /\ pc[s] \in {"read_wr", "write", "write_wr"} => FilledTo(s, Size(s))

\* A command and its outcome belong to the call that waits for them.
RegisterInv(s) ==
    /\ cr => pc[s] = "wait_cr"
    /\ busy => ~cr /\ pc[s] \in {"wait_cr", "wait_ir"}
    /\ ir \cap {"SENDOK", "TIMEOUT"} # {} =>
         ~cr /\ ~busy /\ pc[s] \in {"wait_cr", "wait_ir"}
    /\ ~({"SENDOK", "TIMEOUT"} \subseteq ir)

\* The chip's memory is empty but for the frame that is with it.
MemoryInv(s) ==
    /\ ~Pending(s) => rd = wr
    /\ pc[s] \in {"write", "write_wr"} => wrAt[s] = wr
    /\ pc[s] = "write_wr" =>
         \A i \in 1 .. Length(s) : SentAs(s, i, txMem[(wr + i - 1) % Ring])
    /\ Pending(s) => InMemory \in Offered

LEMMA LatestStep ==
  ASSUME NEW s \in Senders, Types, LatestInv(s), NextOf(s) PROVE LatestInv(s)'
<1>1. CASE Output(s)
  BY <1>1 DEF Output, Step, Types, SenderType, LatestInv
<1>2. CASE Send(s)
  <2>1. UNCHANGED <<call, sizes>> /\ pc[s] # "idle"
    BY <1>2 DEF Send, Clear, Copy, ReadPointer, WriteData, WritePointer, Command,
       CommandTaken, SendOk, SendTimesOut, Return, Step
  <2> QED
    BY <2>1 DEF LatestInv
<1>3. CASE UNCHANGED <<pc, call, sizes>>
  BY <1>3 DEF LatestInv
<1> QED
  BY <1>1, <1>2, <1>3 DEF NextOf, Chip, ChipTakes, ChipSends, ChipGivesUp, FrameArrives,
     OwnerWrites, Handler,
     HandlerReads, HandlerClears, vars

LEMMA BufferStep ==
  ASSUME NEW s \in Senders, Types, BufferInv(s), NextOf(s) PROVE BufferInv(s)'
<1>1. CASE UNCHANGED <<pc, call, copied, sizes, txFrame, behind>>
  BY <1>1 DEF BufferInv, FilledTo, Size
<1>2. CASE Output(s)
  BY <1>2 DEF Output, Step, Types, SenderType, BufferInv
<1>3. CASE Clear(s)
  <2>1. pc'[s] = "copy" /\ copied'[s] = 0 /\ txFrame' = [k \in 1 .. FrameRoom |-> <<>>]
    BY <1>3 DEF Clear, Step, Types, SenderType, Zeros
  <2>2. /\ \A k \in 1 .. FrameRoom : ~(k <= 0)
        /\ \A k \in Behind : ~(k <= 0)
    BY TxAssumption DEF Behind
  <2> QED
    BY <2>1, <2>2 DEF BufferInv, FilledTo
<1>4. CASE Copy(s)
  <2>1. /\ pc[s] = "copy" /\ pc'[s] = IF copied[s] + 1 < Size(s) THEN "copy" ELSE "read_wr"
        /\ copied'[s] = copied[s] + 1 /\ call' = call /\ sizes' = sizes
    BY <1>4 DEF Copy, Step, Types, SenderType
  <2>2. copied[s] \in Nat /\ copied[s] < Size(s) /\ Size(s) \in 1 .. MaxSize
    BY <2>1, SizeType DEF Types, SenderType, CallInv
  <2>3. FilledTo(s, copied[s])'
    <3>1. /\ txFrame' = [txFrame EXCEPT ![copied[s] + 1] = <<call[s], copied[s] + 1>>]
          /\ behind' = [behind EXCEPT ![copied[s] + 1] = <<call[s], copied[s] + 1>>]
      BY <1>4, <2>1 DEF Copy
    <3>2. FilledTo(s, copied[s])
      BY <2>1 DEF BufferInv
    <3>3. ASSUME NEW k \in 1 .. FrameRoom
          PROVE  txFrame'[k] = IF k <= copied[s] + 1 THEN <<call[s], k>> ELSE <<>>
      <4>1. CASE k = copied[s] + 1
        BY <2>2, <3>1, <4>1 DEF Types, FrameType
      <4>2. CASE k # copied[s] + 1
        <5>1. txFrame'[k] = txFrame[k]
          BY <3>1, <4>2 DEF Types, FrameType
        <5>2. k <= copied[s] + 1 <=> k <= copied[s]
          BY <2>2, <4>2
        <5> QED
          BY <3>2, <5>1, <5>2 DEF FilledTo
      <4> QED
        BY <4>1, <4>2
    <3>4. ASSUME NEW k \in Behind, k <= copied[s] + 1
          PROVE  behind'[k] \in {<<call[s], k>>, Foreign}
      <4>1. CASE k = copied[s] + 1
        BY <3>1, <4>1 DEF Types, FrameType
      <4>2. CASE k # copied[s] + 1
        <5>1. behind'[k] = behind[k]
          BY <3>1, <4>2 DEF Types, FrameType
        <5>2. k <= copied[s]
          BY <2>2, <3>4, <4>2, TxAssumption DEF Behind
        <5> QED
          BY <3>2, <5>1, <5>2 DEF FilledTo
      <4> QED
        BY <4>1, <4>2
    <3> QED
      BY <2>1, <3>3, <3>4 DEF FilledTo
  <2>4. CASE copied[s] + 1 < Size(s)
    BY <2>1, <2>3, <2>4 DEF BufferInv, FilledTo
  <2>5. CASE ~(copied[s] + 1 < Size(s))
    <3>1. Size(s)' = copied[s] + 1
      BY <2>1, <2>2, <2>5 DEF Size
    <3> QED
      BY <2>1, <2>3, <2>5, <3>1 DEF BufferInv, FilledTo
  <2> QED
    BY <2>4, <2>5
<1>5. ASSUME NEW from, NEW to, Step(s, from, to),
             UNCHANGED <<call, copied, sizes, txFrame, behind>>,
             to \in {"write", "write_wr"} => from \in {"read_wr", "write"},
             to \notin {"copy", "read_wr"}
      PROVE  BufferInv(s)'
  BY <1>5 DEF Step, Types, SenderType, BufferInv, FilledTo, Size
<1>6. CASE Send(s)
  BY <1>3, <1>4, <1>5, <1>6 DEF Send, ReadPointer, WriteData, WritePointer, Command,
     CommandTaken, SendOk, SendTimesOut, Return, bufVars
<1>7. CASE OwnerWrites
  <2>1. /\ UNCHANGED <<pc, call, copied, sizes, txFrame>>
        /\ \A k \in Behind : behind'[k] = behind[k] \/ behind'[k] = Foreign
    BY <1>7 DEF OwnerWrites, Types, FrameType
  <2> QED
    BY <2>1 DEF BufferInv, FilledTo, Size
<1> QED
  BY <1>1, <1>2, <1>6, <1>7 DEF NextOf, Chip, ChipTakes, ChipSends, ChipGivesUp, FrameArrives,
     Handler, HandlerReads, HandlerClears, vars, bufVars

LEMMA RegisterStep ==
  ASSUME NEW s \in Senders, Types, RegisterInv(s), NextOf(s) PROVE RegisterInv(s)'
<1>1. ASSUME NEW from, NEW to, Step(s, from, to), UNCHANGED chipVars,
             from \notin {"wait_cr", "wait_ir"}
      PROVE  RegisterInv(s)'
  BY <1>1 DEF Step, chipVars, Types, SenderType, RegisterInv
<1>2. CASE Command(s) \/ CommandTaken(s)
  BY <1>2 DEF Command, CommandTaken, Step, chipVars, Types, SenderType, RegisterInv
<1>3. CASE SendOk(s) \/ SendTimesOut(s)
  BY <1>3 DEF SendOk, SendTimesOut, Step, Types, SenderType, RegisterInv
<1>4. CASE Send(s) \/ Output(s)
  BY <1>1, <1>2, <1>3, <1>4 DEF Output, Send, Clear, Copy, ReadPointer, WriteData,
     WritePointer, Return
<1>5. CASE Chip
  BY <1>5 DEF Chip, ChipTakes, ChipSends, ChipGivesUp, Raise, RegisterInv
<1>6. CASE FrameArrives
  BY <1>6 DEF FrameArrives, Raise, RegisterInv
<1>7. CASE Handler
  BY <1>7 DEF Handler, HandlerReads, HandlerClears, chipVars, RegisterInv
<1> QED
  BY <1>4, <1>5, <1>6, <1>7 DEF NextOf, OwnerWrites, vars, chipVars, RegisterInv

LEMMA DataWritten ==
  ASSUME NEW s \in Senders, Types, WriteData(s)
  PROVE  \A i \in 1 .. Length(s) : txMem'[(wrAt[s] + i - 1) % Ring] = InBuffer(i)
<1>1. Length(s) \in 1 .. MaxSize /\ wrAt[s] \in 0 .. Ring - 1
  BY SizeType DEF WriteData, Step, Types, SenderType
<1>2. ASSUME NEW i \in 1 .. Length(s)
      PROVE  txMem'[(wrAt[s] + i - 1) % Ring] = InBuffer(i)
  <2> DEFINE at == wrAt[s]
             k == (at + (i - 1)) % Ring
  <2>1. i - 1 \in 0 .. Ring - 1 /\ i - 1 < Length(s) /\ i - 1 + 1 = i
    BY <1>1, RingSize, TxAssumption
  <2>2. k \in 0 .. Ring - 1 /\ (k + Ring - at) % Ring = i - 1
    BY <1>1, <2>1, RingDistance
  <2> HIDE DEF k
  <2>3. txMem'[k] = InBuffer(i)
    BY <2>1, <2>2 DEF WriteData
  <2>4. wrAt[s] + i - 1 = at + (i - 1)
    BY <1>1, RingSize
  <2> QED
    BY <2>3, <2>4 DEF k
<1> QED
  BY <1>2

\* What the driver has written is what lies between the pointers.
LEMMA FrameInMemory ==
  ASSUME NEW s \in Senders, Types, LatestInv(s), RegisterInv(s), MemoryInv(s), WritePointer(s)
  PROVE  InMemory' \in Offered'
<1> DEFINE n == Length(s)
           frame == LinkOutput!Frame(call[s], Size(s))
<1>1. /\ pc[s] = "write_wr" /\ wrAt[s] = wr /\ rd = wr
      /\ \A i \in 1 .. n : SentAs(s, i, txMem[(wr + i - 1) % Ring])
      /\ call[s] = Len(sizes)
  BY DEF WritePointer, Step, LatestInv, RegisterInv, MemoryInv, Pending
<1>2. Size(s) \in 1 .. MaxSize /\ n \in 1 .. MaxSize /\ n = Padded(s)
  BY <1>1, SizeType, NothingCutOff DEF Types
<1>3. wr' = (wr + n) % Ring /\ UNCHANGED <<txMem, rd, sizes, call>>
  BY <1>1 DEF WritePointer
<1>4. (wr' + Ring - rd') % Ring = n
  <2>1. wr \in 0 .. Ring - 1 /\ n \in 0 .. Ring - 1
    BY <1>2, RingSize, TxAssumption DEF Types, MemoryType
  <2> QED
    BY <1>1, <1>3, <2>1, RingDistance
<1>5. InMemory' = [i \in 1 .. n |-> txMem[(wr + i - 1) % Ring]]
  BY <1>1, <1>3, <1>4 DEF InMemory
<1>6. frame = [k \in 1 .. n |-> IF k <= Size(s) THEN <<call[s], k>> ELSE <<>>]
  BY <1>2 DEF LinkOutput!Frame, Padded
<1>7. Offered' = LinkOutput!Images(call[s], Size(s))
  BY <1>1, <1>3 DEF Offered, Size
<1> HIDE DEF n, frame
<1>8. ASSUME NEW k \in 1 .. n
      PROVE  LET x == InMemory'[k] IN x = frame[k] \/ (k > FrameRoom /\ x = Foreign)
  BY <1>1, <1>5, <1>6 DEF SentAs
<1>9. DOMAIN frame = 1 .. n /\ DOMAIN InMemory' = 1 .. n
  BY <1>5, <1>6
<1>10. InMemory' = [k \in 1 .. n |-> InMemory'[k]]
  BY <1>5
<1>11. InMemory' \in [DOMAIN frame -> {frame[k] : k \in DOMAIN frame} \cup {Foreign}]
  BY <1>8, <1>9, <1>10
<1> QED
  BY <1>7, <1>8, <1>9, <1>11 DEF LinkOutput!Images, LinkOutput!Foreign, Foreign, frame

LEMMA ContentsStep ==
  ASSUME NEW s \in Senders, Types, LatestInv(s), BufferInv(s), RegisterInv(s), MemoryInv(s),
         NextOf(s)
  PROVE  MemoryInv(s)'
<1>1. CASE UNCHANGED <<pc, wrAt, call, sizes, txMem, wr, rd, cr, busy>>
  BY <1>1 DEF MemoryInv, Pending, InMemory, Offered, Length, Padded, Size, SentAs
<1>2. ASSUME NEW from \in {"idle", "clear", "copy"}, NEW to \in {"clear", "copy", "read_wr"},
             Step(s, from, to), UNCHANGED <<wrAt, txMem, wr, rd, cr, busy>>
      PROVE  MemoryInv(s)'
  BY <1>2 DEF Step, Types, SenderType, RegisterInv, MemoryInv, Pending
<1>3. CASE ReadPointer(s)
  BY <1>3 DEF ReadPointer, Step, chipVars, bufVars, Types, SenderType, RegisterInv, MemoryInv,
     Pending
<1>4. CASE WriteData(s)
  <2>1. pc[s] = "write" /\ pc'[s] = "write_wr" /\ rd = wr /\ wrAt[s] = wr
    BY <1>4 DEF WriteData, Step, Types, SenderType, RegisterInv, MemoryInv, Pending
  <2>2. UNCHANGED <<call, sizes, wrAt, txFrame, wr, rd, cr, busy>> /\ ~cr /\ ~busy
    BY <1>4, <2>1 DEF WriteData, chipVars, RegisterInv
  <2>3. \A i \in 1 .. Length(s) : txMem'[(wr + i - 1) % Ring] = InBuffer(i)
    BY <1>4, <2>1, DataWritten
  <2>4. Size(s) \in 1 .. MaxSize /\ Length(s) \in 1 .. MaxSize /\ Length(s) = Padded(s)
    BY <2>1, SizeType, NothingCutOff DEF Types
  <2>5. ASSUME NEW i \in 1 .. Length(s) PROVE SentAs(s, i, InBuffer(i))
    <3>1. FilledTo(s, Size(s))
      BY <2>1 DEF BufferInv
    <3>2. CASE i <= FrameRoom
      BY <2>4, <3>1, <3>2 DEF FilledTo, InBuffer, SentAs
    <3>3. CASE i > FrameRoom
      <4>1. i \in Behind /\ i <= Size(s)
        BY <2>4, <3>3, TxAssumption DEF Behind, Padded
      <4> QED
        BY <3>1, <3>3, <4>1, TxAssumption DEF FilledTo, InBuffer, SentAs
    <3> QED
      BY <2>4, <3>2, <3>3, TxAssumption
  <2>6. Length(s)' = Length(s)
    BY <2>2 DEF Length, Padded, Size
  <2>7. \A i \in 1 .. Length(s)' : SentAs(s, i, txMem[(wr + i - 1) % Ring])'
    BY <2>2, <2>3, <2>5, <2>6 DEF SentAs, Size
  <2> QED
    BY <2>1, <2>2, <2>7 DEF MemoryInv, Pending
<1>5. CASE WritePointer(s)
  <2>1. InMemory' \in Offered'
    BY <1>5, FrameInMemory
  <2>2. pc'[s] = "command"
    BY <1>5 DEF WritePointer, Step, Types, SenderType
  <2> QED
    BY <2>1, <2>2 DEF MemoryInv, Pending
<1>6. CASE Command(s)
  BY <1>6 DEF Command, Step, bufVars, Types, SenderType, MemoryInv, Pending, InMemory, Offered
<1>7. ASSUME NEW from \in {"wait_cr", "wait_ir", "return"},
             NEW to \in {"wait_ir", "return", "idle"},
             Step(s, from, to), UNCHANGED <<wrAt, sizes, bufVars, cr, busy>>
      PROVE  MemoryInv(s)'
  BY <1>7 DEF Step, bufVars, Types, SenderType, MemoryInv, Pending, InMemory, Offered
<1>8. CASE ChipTakes
  BY <1>8 DEF ChipTakes, bufVars, RegisterInv, MemoryInv, Pending, InMemory, Offered
<1>9. CASE ChipSends \/ ChipGivesUp
  BY <1>9 DEF ChipSends, ChipGivesUp, RegisterInv, MemoryInv, Pending
<1>10. CASE Output(s) \/ Clear(s) \/ Copy(s)
  BY <1>2, <1>10 DEF Output, Clear, Copy, bufVars, chipVars
<1>11. CASE CommandTaken(s) \/ SendOk(s) \/ SendTimesOut(s) \/ Return(s)
  BY <1>7, <1>11 DEF CommandTaken, SendOk, SendTimesOut, Return, chipVars
<1> QED
  BY <1>1, <1>3, <1>4, <1>5, <1>6, <1>8, <1>9, <1>10, <1>11 DEF NextOf, Send, Chip, FrameArrives,
     OwnerWrites, Handler, HandlerReads, HandlerClears, vars, bufVars, chipVars

-----------------------------------------------------------------------------
(* What has gone out.                                                        *)

Frames == UNION {LinkOutput!Images(n, size) : n \in 1 .. MaxCalls, size \in 1 .. MaxSize}

WireInv(s) ==
    /\ wire \in Seq(Frames)
    /\ \A i \in 1 .. Len(wire) :
          \E n \in 1 .. Len(sizes) : wire[i] \in LinkOutput!Images(n, sizes[n])
    /\ pc[s] \in Filling \/ Pending(s) => ~Sent(Len(sizes))
    /\ "SENDOK" \in ir => Sent(Len(sizes))
    /\ pc[s] = "return" /\ call[s] \notin failed => Sent(call[s])

\* The first piece of a frame is always in tx_frame.
LEMMA FrameStarts ==
  ASSUME NEW n, NEW size \in 1 .. MaxSize, NEW f \in LinkOutput!Images(n, size)
  PROVE  f # <<>> /\ f[1] = <<n, 1>>
<1> DEFINE len == IF size < MinSize THEN MinSize ELSE size
           frame == LinkOutput!Frame(n, size)
<1>1. len \in Nat /\ len >= 1 /\ 1 <= size /\ ~(1 > FrameRoom)
  BY TxAssumption
<1>2. frame = [k \in 1 .. len |-> IF k <= size THEN <<n, k>> ELSE <<>>]
  BY DEF LinkOutput!Frame
<1>3. DOMAIN f = DOMAIN frame
      /\ \A k \in DOMAIN frame : f[k] = frame[k] \/ (k > FrameRoom /\ f[k] = Foreign)
  BY DEF LinkOutput!Images, LinkOutput!Foreign, Foreign
<1> HIDE DEF len, frame
<1>4. 1 \in DOMAIN frame /\ frame[1] = <<n, 1>>
  BY <1>1, <1>2
<1> QED
  BY <1>1, <1>3, <1>4

\* A frame that has not been offered has not gone out.
LEMMA NotSentYet ==
  ASSUME NEW s, Types, WireInv(s)
  PROVE  ~Sent(Len(sizes) + 1)
<1> SUFFICES ASSUME NEW i \in DOMAIN wire, wire[i] # <<>>, wire[i][1] = <<Len(sizes) + 1, 1>>
             PROVE  FALSE
  BY DEF Sent
<1>1. i \in 1 .. Len(wire)
  BY LenProperties DEF WireInv
<1>2. PICK n \in 1 .. Len(sizes) : wire[i] \in LinkOutput!Images(n, sizes[n])
  BY <1>1 DEF WireInv
<1>3. sizes[n] \in 1 .. MaxSize
  BY <1>2, ElementOfSeq DEF Types, SenderType
<1>4. <<n, 1>> = <<Len(sizes) + 1, 1>>
  BY <1>2, <1>3, FrameStarts
<1>5. n = Len(sizes) + 1 /\ Len(sizes) \in Nat
  BY <1>4, LenProperties DEF Types, SenderType
<1> QED
  BY <1>2, <1>5

LEMMA WireStep ==
  ASSUME NEW s \in Senders, Types, LatestInv(s), RegisterInv(s), MemoryInv(s), WireInv(s),
         NextOf(s)
  PROVE  WireInv(s)'
<1>1. ASSUME UNCHANGED <<wire, sizes>>
      PROVE  /\ wire' \in Seq(Frames)
             /\ \A i \in 1 .. Len(wire') :
                   \E n \in 1 .. Len(sizes') : wire'[i] \in LinkOutput!Images(n, sizes'[n])
             /\ Sent(Len(sizes))' <=> Sent(Len(sizes))
             /\ \A m : Sent(m)' <=> Sent(m)
  BY <1>1 DEF WireInv, Sent
<1>2. CASE Output(s)
  <2>1. PICK size \in 1 .. MaxSize : sizes' = Append(sizes, size)
    BY <1>2 DEF Output
  <2>2. /\ Len(sizes') = Len(sizes) + 1 /\ Len(sizes) \in Nat
        /\ \A i \in 1 .. Len(sizes) : sizes'[i] = sizes[i]
    BY <2>1, AppendProperties, LenProperties DEF Types, SenderType
  <2>3. /\ UNCHANGED <<wire, ir>> /\ pc'[s] = "clear"
        /\ pc[s] = "idle"
    BY <1>2 DEF Output, Step, chipVars, Types, SenderType
  <2>4. "SENDOK" \notin ir
    BY <2>3 DEF RegisterInv
  <2>5. ~Sent(Len(sizes))'
    BY <2>2, <2>3, NotSentYet DEF Sent
  <2>6. ASSUME NEW i \in 1 .. Len(wire)
        PROVE  \E n \in 1 .. Len(sizes') : wire[i] \in LinkOutput!Images(n, sizes'[n])
    <3>1. PICK n \in 1 .. Len(sizes) : wire[i] \in LinkOutput!Images(n, sizes[n])
      BY DEF WireInv
    <3>2. n \in 1 .. Len(sizes') /\ sizes'[n] = sizes[n]
      BY <2>2, <3>1
    <3> QED
      BY <3>1, <3>2
  <2>7. wire \in Seq(Frames)
    BY DEF WireInv
  <2> QED
    BY <2>3, <2>4, <2>5, <2>6, <2>7 DEF WireInv
<1>3. CASE ChipSends
  <2>1. /\ busy /\ ~busy' /\ ~cr /\ UNCHANGED <<pc, cr, sizes, call, failed>>
        /\ pc[s] \in {"wait_cr", "wait_ir"} /\ wire' = Append(wire, InMemory)
        /\ InMemory \in Offered
    BY <1>3 DEF ChipSends, RegisterInv, MemoryInv, Pending
  <2> DEFINE n == Len(sizes)
  <2>2. n \in 1 .. Len(sizes) /\ n \in 1 .. MaxCalls
    BY <2>1, TxAssumption DEF LatestInv, Types, CallInv, SenderType
  <2>3. sizes[n] \in 1 .. MaxSize
    BY <2>2, ElementOfSeq DEF Types, SenderType
  <2>4. InMemory \in Frames
    BY <2>1, <2>2, <2>3 DEF Offered, Frames
  <2>5. wire \in Seq(Frames)
    BY DEF WireInv
  <2>6. /\ wire' \in Seq(Frames) /\ Len(wire') = Len(wire) + 1 /\ Len(wire) \in Nat
        /\ \A i \in 1 .. Len(wire) : wire'[i] = wire[i]
        /\ wire'[Len(wire) + 1] = InMemory
    BY <2>1, <2>4, <2>5, AppendProperties, LenProperties
  <2>7. ASSUME NEW i \in 1 .. Len(wire')
        PROVE  \E m \in 1 .. Len(sizes) : wire'[i] \in LinkOutput!Images(m, sizes[m])
    <3>1. i \in 1 .. Len(wire) \/ i = Len(wire) + 1
      <4>1. Len(wire') = Len(wire) + 1 /\ Len(wire) \in Nat
        BY <2>6
      <4> QED
        BY <4>1
    <3>2. CASE i \in 1 .. Len(wire)
      BY <2>6, <3>2 DEF WireInv
    <3>3. CASE i = Len(wire) + 1
      BY <2>1, <2>2, <2>6, <3>3 DEF Offered
    <3> QED
      BY <3>1, <3>2, <3>3
  <2>8. Sent(n)'
    <3>1. InMemory # <<>> /\ InMemory[1] = <<n, 1>>
      BY <2>1, <2>3, FrameStarts DEF Offered
    <3>2. Len(wire) + 1 \in DOMAIN wire'
      BY <2>6, LenProperties
    <3> QED
      BY <2>1, <2>6, <3>1, <3>2 DEF Sent
  <2> QED
    BY <2>1, <2>6, <2>7, <2>8 DEF WireInv, Filling, Pending
<1>4. CASE SendOk(s)
  <2>1. /\ UNCHANGED <<wire, sizes, call, cr, busy, failed>> /\ pc'[s] = "return"
        /\ pc[s] = "wait_ir" /\ "SENDOK" \in ir /\ "SENDOK" \notin ir'
    BY <1>4 DEF SendOk, Step, Types, SenderType
  <2>2. Sent(call[s]) /\ ~cr /\ ~busy
    BY <2>1 DEF WireInv, LatestInv, RegisterInv
  <2> QED
    BY <1>1, <2>1, <2>2 DEF WireInv, Filling, Pending
<1>5. CASE SendTimesOut(s)
  <2>1. /\ UNCHANGED <<wire, sizes, call, cr, busy>> /\ pc'[s] = "return"
        /\ call[s] \in failed' /\ "SENDOK" \notin ir /\ ir' \subseteq ir /\ ~cr /\ ~busy
    BY <1>5 DEF SendTimesOut, Step, Types, SenderType, RegisterInv
  <2> QED
    BY <1>1, <2>1 DEF WireInv, Filling, Pending
<1>6. ASSUME NEW from \in Filling \cup {"command"},
             NEW to \in (Filling \cup {"command"}) \ {"clear"},
             Step(s, from, to), UNCHANGED <<sizes, chipVars>>
      PROVE  WireInv(s)'
  BY <1>1, <1>6 DEF Step, chipVars, Types, SenderType, WireInv, Filling, Pending
<1>7. CASE Command(s) \/ CommandTaken(s) \/ Return(s)
  BY <1>1, <1>7 DEF Command, CommandTaken, Return, Step, chipVars, Types, SenderType, WireInv,
     Filling, Pending
<1>8. CASE ChipTakes \/ ChipGivesUp \/ FrameArrives \/ OwnerWrites
  <2>1. /\ UNCHANGED <<wire, sizes, pc, call, failed>>
        /\ Pending(s)' => Pending(s)
        /\ "SENDOK" \in ir' => "SENDOK" \in ir
    BY <1>8 DEF ChipTakes, ChipGivesUp, FrameArrives, OwnerWrites, Raise, chipVars, Pending
  <2> QED
    BY <1>1, <2>1 DEF WireInv
<1>9. CASE Handler \/ UNCHANGED vars
  <2>1. /\ UNCHANGED <<wire, sizes, pc, call, failed, cr, busy>> /\ ir' \subseteq ir
    BY <1>9 DEF Handler, HandlerReads, HandlerClears, chipVars, vars
  <2> QED
    BY <1>1, <2>1 DEF WireInv, Pending
<1>10. CASE Clear(s) \/ Copy(s) \/ ReadPointer(s) \/ WriteData(s) \/ WritePointer(s)
  BY <1>6, <1>10 DEF Clear, Copy, ReadPointer, WriteData, WritePointer, Filling
<1> QED
  BY <1>2, <1>3, <1>4, <1>5, <1>7, <1>8, <1>9, <1>10 DEF NextOf, Send, Chip

-----------------------------------------------------------------------------
(* The theorems.  Calls of netif_output that do not overlap are what lwIP      *)
(* promises; they may come from any number of tasks, each in turn.           *)

Undisturbed(s) ==
    LatestInv(s) /\ BufferInv(s) /\ RegisterInv(s) /\ MemoryInv(s) /\ WireInv(s)

IInv ==
    /\ TypeOK /\ CallInv
    /\ \E s \in Senders : Alone(s) /\ Undisturbed(s)

LEMMA InitHolds == Init => IInv
<1> SUFFICES ASSUME Init PROVE IInv
  OBVIOUS
<1>1. TypeOK /\ CallInv
  BY TypesStart
<1>2. PICK s \in Senders : TRUE
  BY TxAssumption
<1>3. LatestInv(s) /\ BufferInv(s) /\ RegisterInv(s) /\ MemoryInv(s) /\ Alone(s)
  BY DEF Init, LatestInv, BufferInv, RegisterInv, MemoryInv, Pending, Alone
<1>4. WireInv(s)
  BY DEF Init, WireInv, Filling, Pending
<1> QED
  BY <1>1, <1>3, <1>4 DEF IInv, Undisturbed

\* Between two calls nothing is left that belongs to the task of the last one.
LEMMA HandOver ==
  ASSUME Types, NEW s \in Senders, NEW t \in Senders, Undisturbed(s),
         pc[s] = "idle", pc[t] = "idle"
  PROVE  Undisturbed(t)
  BY Zenon DEF Undisturbed, LatestInv, BufferInv, RegisterInv, MemoryInv, WireInv, Pending, Filling

\* If calls do not overlap, one sender is alone before and after the step.
LEMMA WhoseTurn ==
  ASSUME IInv, [Next]_vars, OneAtATime'
  PROVE  \E s \in Senders : Alone(s) /\ Alone(s)' /\ Undisturbed(s)
<1>1. PICK s \in Senders : Alone(s) /\ Undisturbed(s)
  BY DEF IInv
<1>2. Types
  BY TypeParts DEF IInv, Types
<1>3. CASE Alone(s)'
  BY <1>1, <1>3
<1>4. CASE ~(Alone(s)')
  <2>1. PICK t \in Senders : t # s /\ pc'[t] # "idle"
    BY <1>4 DEF Alone
  <2>2. pc[t] = "idle"
    BY <1>1, <2>1 DEF Alone
  <2>3. Alone(t)' /\ pc'[s] = "idle"
    BY <2>1 DEF OneAtATime, Alone
  <2>4. Output(t) \/ Send(t)
    BY <1>2, <2>1, <2>2, OnlyOneMoves DEF Types
  <2>5. pc[s] = "idle"
    BY <1>2, <2>1, <2>3, <2>4 DEF Types, SenderType, Output, Send, Clear, Copy, ReadPointer,
       WriteData, WritePointer, Command, CommandTaken, SendOk, SendTimesOut, Return, Step
  <2>6. Alone(t)
    BY <1>1, <2>5 DEF Alone
  <2>7. Undisturbed(t)
    BY <1>1, <1>2, <2>2, <2>5, HandOver
  <2> QED
    BY <2>3, <2>6, <2>7
<1> QED
  BY <1>3, <1>4

LEMMA UndisturbedStep ==
  ASSUME Types, NEW s \in Senders, Undisturbed(s), NextOf(s) PROVE Undisturbed(s)'
  BY LatestStep, BufferStep, RegisterStep, ContentsStep, WireStep DEF Undisturbed

\* While calls do not overlap, every step of a call finds its frame where the
\* step before has left it, and the chip with no other.
THEOREM Inductive == Spec /\ []OneAtATime => []IInv
<1>1. IInv /\ [Next]_vars /\ OneAtATime' => IInv'
  <2> SUFFICES ASSUME IInv, [Next]_vars, OneAtATime' PROVE IInv'
    OBVIOUS
  <2>1. Types
    BY TypeParts DEF IInv, Types
  <2>2. TypeOK' /\ CallInv'
    BY <2>1, TypesKept
  <2>3. PICK s \in Senders : Alone(s) /\ Alone(s)' /\ Undisturbed(s)
    BY WhoseTurn
  <2>4. NextOf(s)
    BY <2>1, <2>3, AloneStep DEF Types
  <2>5. Undisturbed(s)'
    BY <2>1, <2>3, <2>4, UndisturbedStep
  <2> QED
    BY <2>2, <2>3, <2>5 DEF IInv
<1> QED
  BY <1>1, InitHolds, PTL DEF Spec

\* While calls do not overlap, a send_lwip that returned the length has sent
\* its frame.
THEOREM SuccessIsSent == Spec /\ []OneAtATime => []SuccessMeansSent
<1>1. IInv => SuccessMeansSent
  BY DEF IInv, Alone, Undisturbed, WireInv, SuccessMeansSent
<1> QED
  BY <1>1, Inductive, PTL

\* While calls do not overlap, each frame on the wire is one that was offered,
\* padded with zeros, and whole but for what tx_frame has no room for.
THEOREM FramesIntact == Spec /\ []OneAtATime => []IntactOnWire
<1>1. IInv => IntactOnWire
  <2> SUFFICES ASSUME IInv PROVE IntactOnWire
    OBVIOUS
  <2>1. PICK s \in Senders : WireInv(s)
    BY DEF IInv, Undisturbed
  <2>2. DOMAIN wire = 1 .. Len(wire) /\ DOMAIN sizes = 1 .. Len(sizes)
    BY <2>1, LenProperties DEF IInv, WireInv, TypeOK
  <2> QED
    BY <2>1, <2>2 DEF WireInv, IntactOnWire
<1> QED
  BY <1>1, Inductive, PTL

-----------------------------------------------------------------------------
(* The refinement.                                                           *)

Status == IF \A s \in Senders : pc[s] = "idle" THEN "free"
          ELSE IF Sent(Len(sizes)) THEN "sent" ELSE "offered"

LEMMA LinkStep ==
  ASSUME Types, NEW s \in Senders, Undisturbed(s), NextOf(s), Alone(s), Alone(s)'
  PROVE  [LinkOutput!Next]_<<sizes, Status, wire>>
<1> DEFINE n == Len(sizes)
<1>1. Status = IF pc[s] = "idle" THEN "free" ELSE IF Sent(n) THEN "sent" ELSE "offered"
  BY DEF Status, Alone
<1>2. Status' = IF pc'[s] = "idle" THEN "free" ELSE IF Sent(n)' THEN "sent" ELSE "offered"
  BY DEF Status, Alone
<1>3. ASSUME UNCHANGED <<sizes, wire>> PROVE Sent(n)' <=> Sent(n)
  BY <1>3 DEF Sent
<1>4. ASSUME UNCHANGED <<sizes, wire>>, pc'[s] = "idle" <=> pc[s] = "idle"
      PROVE  UNCHANGED <<sizes, Status, wire>>
  BY <1>1, <1>2, <1>3, <1>4
<1>5. CASE Output(s)
  <2>1. PICK size \in 1 .. MaxSize : sizes' = Append(sizes, size)
    BY <1>5 DEF Output
  <2>2. pc[s] = "idle" /\ pc'[s] = "clear" /\ wire' = wire
    BY <1>5 DEF Output, Step, chipVars, Types, SenderType
  <2>3. Len(sizes') = n + 1
    BY <2>1, AppendProperties DEF Types, SenderType
  <2>4. ~Sent(n + 1)
    BY NotSentYet DEF Undisturbed
  <2>5. ~Sent(n)'
    BY <2>2, <2>3, <2>4 DEF Sent
  <2>6. Status = "free" /\ Status' = "offered"
    BY <1>1, <1>2, <2>2, <2>5
  <2> QED
    BY <2>1, <2>2, <2>6 DEF LinkOutput!Next, LinkOutput!Offer, Status
<1>6. CASE ChipSends
  <2>1. /\ pc[s] # "idle" /\ UNCHANGED <<pc, sizes>> /\ wire' = Append(wire, InMemory)
        /\ InMemory \in Offered /\ ~Sent(n)
    BY <1>6 DEF ChipSends, Undisturbed, RegisterInv, MemoryInv, WireInv, Pending
  <2>2. Sent(n)'
    <3>1. "SENDOK" \in ir'
      BY <1>6 DEF ChipSends
    <3>2. WireInv(s)'
      BY WireStep DEF Undisturbed
    <3> QED
      BY <3>1, <3>2 DEF WireInv
  <2>3. Status = "offered" /\ Status' = "sent"
    BY <1>1, <1>2, <2>1, <2>2
  <2> QED
    BY <2>1, <2>3 DEF LinkOutput!Next, LinkOutput!Transmit, Offered, Status
<1>7. CASE Return(s)
  <2>1. pc[s] # "idle" /\ pc'[s] = "idle" /\ UNCHANGED <<sizes, wire>>
    BY <1>7 DEF Return, Step, chipVars, Types, SenderType
  <2>2. Status # "free" /\ Status' = "free"
    BY <1>1, <1>2, <2>1
  <2> QED
    BY <2>1, <2>2 DEF LinkOutput!Next, LinkOutput!Return, Status
<1>8. ASSUME NEW from, NEW to, Step(s, from, to), from # "idle", to # "idle",
             UNCHANGED <<sizes, wire>>
      PROVE  UNCHANGED <<sizes, Status, wire>>
  BY <1>4, <1>8 DEF Step, Types, SenderType
<1>9. CASE \/ Clear(s) \/ Copy(s) \/ ReadPointer(s) \/ WriteData(s) \/ WritePointer(s)
           \/ Command(s) \/ CommandTaken(s) \/ SendOk(s) \/ SendTimesOut(s)
  BY <1>8, <1>9 DEF Clear, Copy, ReadPointer, WriteData, WritePointer, Command, CommandTaken,
     SendOk, SendTimesOut, chipVars
<1>10. CASE ChipTakes \/ ChipGivesUp \/ FrameArrives \/ OwnerWrites \/ Handler \/ UNCHANGED vars
  BY <1>4, <1>10 DEF ChipTakes, ChipGivesUp, FrameArrives, OwnerWrites, Handler,
     HandlerReads, HandlerClears,
     vars, chipVars
<1> QED
  BY <1>5, <1>6, <1>7, <1>9, <1>10 DEF NextOf, Send, Chip

\* While calls do not overlap, sending is what EthernetTx says: the frames go
\* out in the order in which they are offered, each at most once and whole, but
\* for what tx_frame has no room for.
THEOREM EthernetTxImplemented == Spec /\ []OneAtATime => ImplementsEthernetTx
<1>1. Init => LinkOutput!Init
  BY DEF Init, LinkOutput!Init
<1>2. IInv /\ [Next]_vars /\ OneAtATime' => [LinkOutput!Next]_<<sizes, Status, wire>>
  <2> SUFFICES ASSUME IInv, [Next]_vars, OneAtATime'
               PROVE  [LinkOutput!Next]_<<sizes, Status, wire>>
    OBVIOUS
  <2>1. PICK s \in Senders : Alone(s) /\ Alone(s)' /\ Undisturbed(s)
    BY WhoseTurn
  <2>2. Types
    BY TypeParts DEF IInv, Types
  <2>3. NextOf(s)
    BY <2>1, <2>2, AloneStep DEF Types
  <2> QED
    BY <2>1, <2>2, <2>3, LinkStep
<1> QED
  BY <1>1, <1>2, Inductive, PTL DEF Spec, ImplementsEthernetTx, LinkOutput!Spec, Status

\* A single sender never overlaps with itself.
THEOREM OneSender == ASSUME NEW s, Senders = {s} PROVE OneAtATime
  BY DEF OneAtATime

-----------------------------------------------------------------------------
(* What the loops of send_lwip wait for.  That they end (SendReturns) needs   *)
(* fairness of the chip; that there is something to end them does not.       *)

NoHandler == ~interrupt => ~edge /\ isr = "idle"

Reported == ir \cap {"SENDOK", "TIMEOUT"} # {}
OutcomeDue ==
    ~interrupt => \A s \in Senders :
       /\ pc[s] = "wait_cr" => cr \/ busy \/ Reported
       /\ pc[s] = "wait_ir" => busy \/ Reported

LEMMA NoHandlerStep == NoHandler /\ [Next]_vars => NoHandler'
<1> SUFFICES ASSUME NoHandler, [Next]_vars PROVE NoHandler'
  OBVIOUS
<1>1. ASSUME NEW s \in Senders, Output(s) \/ Send(s) PROVE NoHandler'
  BY <1>1 DEF Output, Send, Clear, Copy, ReadPointer, WriteData, WritePointer, Command,
     CommandTaken, SendOk, SendTimesOut, Return, Step, isrVars, NoHandler
<1> QED
  BY <1>1 DEF Next, Chip, ChipTakes, ChipSends, ChipGivesUp, FrameArrives, Raise,
     OwnerWrites, Handler,
     HandlerReads, HandlerClears, vars, isrVars, NoHandler

LEMMA OutcomeStep ==
  ASSUME Types, NoHandler, NEW s \in Senders, Alone(s)', NextOf(s), OutcomeDue
  PROVE  OutcomeDue'
<1> SUFFICES ASSUME ~interrupt
             PROVE  /\ pc'[s] = "wait_cr" => cr' \/ busy' \/ Reported'
                    /\ pc'[s] = "wait_ir" => busy' \/ Reported'
  <2>1. interrupt' = interrupt
    BY DEF NextOf, Output, Send, Clear, Copy, ReadPointer, WriteData, WritePointer, Command,
       CommandTaken, SendOk, SendTimesOut, Return, Step, Chip, ChipTakes, ChipSends, ChipGivesUp,
       FrameArrives, OwnerWrites, Handler, HandlerReads, HandlerClears, vars, isrVars
  <2> QED
    BY <2>1 DEF OutcomeDue, Alone
<1>1. CASE UNCHANGED <<pc, cr, busy, ir>>
  BY <1>1 DEF OutcomeDue, Reported
<1>2. ASSUME NEW from, NEW to \in Pcs \ {"wait_cr", "wait_ir"}, Step(s, from, to)
      PROVE  pc'[s] \notin {"wait_cr", "wait_ir"}
  BY <1>2 DEF Step, Types, SenderType
<1>3. CASE \/ Output(s) \/ Clear(s) \/ Copy(s) \/ ReadPointer(s) \/ WriteData(s)
           \/ WritePointer(s) \/ SendOk(s) \/ SendTimesOut(s) \/ Return(s)
  BY <1>2, <1>3 DEF Output, Clear, Copy, ReadPointer, WriteData, WritePointer, SendOk,
     SendTimesOut, Return, Pcs
<1>4. CASE Command(s) \/ CommandTaken(s)
  BY <1>4 DEF Command, CommandTaken, Step, chipVars, Types, SenderType, OutcomeDue, Reported
<1>5. CASE Chip \/ FrameArrives
  BY <1>5 DEF Chip, ChipTakes, ChipSends, ChipGivesUp, FrameArrives, Raise, OutcomeDue, Reported
<1>6. CASE Handler
  BY <1>6 DEF Handler, HandlerReads, HandlerClears, NoHandler
<1> QED
  BY <1>1, <1>3, <1>4, <1>5, <1>6 DEF NextOf, Send, OwnerWrites, vars, chipVars

\* In polling builds, while calls do not overlap, a send_lwip that polls for
\* the chip to take the command or to report finds it, or it is under way: no
\* answer is lost and none goes to another call.
THEOREM PollingHasAnAnswer == Spec /\ []OneAtATime => []OutcomeDue
<1>1. Init => NoHandler /\ OutcomeDue
  BY DEF Init, NoHandler, OutcomeDue
<1>2. /\ IInv /\ NoHandler /\ OutcomeDue /\ [Next]_vars /\ OneAtATime'
      => NoHandler' /\ OutcomeDue'
  <2> SUFFICES ASSUME IInv, NoHandler, OutcomeDue, [Next]_vars, OneAtATime'
               PROVE  NoHandler' /\ OutcomeDue'
    OBVIOUS
  <2>1. PICK s \in Senders : Alone(s) /\ Alone(s)'
    BY WhoseTurn
  <2>2. Types
    BY TypeParts DEF IInv, Types
  <2>3. NextOf(s)
    BY <2>1, <2>2, AloneStep DEF Types
  <2> QED
    BY <2>1, <2>2, <2>3, NoHandlerStep, OutcomeStep
<1> QED
  BY <1>1, <1>2, Inductive, PTL DEF Spec
===============================================================================
