--------------------------- MODULE PollLoop_proofs ----------------------------
(***************************************************************************)
(* Proofs about PollLoop, for any number of frames, watchers, pbufs and    *)
(* mailbox entries, and both builds: the copies of the link state, the     *)
(* pbufs, and the order and the length of the frames given to lwIP.        *)
(***************************************************************************)
EXTENDS PollLoop, LinkStatus_proofs, SequenceTheorems

-----------------------------------------------------------------------------
(* The inductive invariant.                                                  *)

\* The check runs at one place of the loop, the declaration before it.
CheckInv ==
    /\ CopiesInv
    /\ checkPc \in {"set_link", "set_bit", "clear_bit", "save"} => pc = "check"
    /\ checkPc \in {"declare_bit", "declare_status"} => pc = "enter" /\ ~linkChecked

\* No check has been due since the boot.
Unchecked == early /\ bits = {}

\* Where the loop may be while the link is down.
LoopInv ==
    /\ pc \in {"drain", "recv", "alloc", "input", "drained", "sleep"} =>
          linkStatus \/ Unchecked
    /\ pc = "top" => linkStatus \/ age = Timeout \/ Unchecked
    /\ pc \in {"check", "checked"} => linkChecked
    /\ ~linkChecked /\ pc # "enter" => linkStatus
    /\ pc = "enter" => early \/ age = Timeout
    /\ pc = "enter" /\ linkChecked => bits = {}
    /\ pc = "enter" /\ checkPc = "idle" /\ ~linkStatus => bits = {}

\* Where the loop holds a frame, in its buffer or in a pbuf, and how many
\* pbufs that leaves.
PbufInv ==
    /\ pack # 0 <=> pc = "alloc"
    /\ pbuf # 0 <=> pc = "input"
    /\ PbufsConserved

IInv == TypeOK /\ CheckInv /\ LoopInv /\ PbufInv

-----------------------------------------------------------------------------
(* Typing.                                                                   *)

\* The step of every action keeps LinkTypeOK.
LEMMA LinkTypeStep == LinkTypeOK /\ [Next]_vars => LinkTypeOK'
<1> SUFFICES ASSUME LinkTypeOK, [Next]_vars PROVE LinkTypeOK'
  OBVIOUS
<1>1. CASE UNCHANGED linkVars
  BY <1>1 DEF linkVars, checkVars, LinkTypeOK
<1>2. CASE Cable
  BY <1>2 DEF Cable, CableMoves, checkVars, LinkTypeOK
<1>3. CASE Watcher
  BY <1>3, WatcherTyped DEF Watcher
<1>4. CASE Check
  BY <1>4, CheckTyped DEF Check
<1>5. CASE Declare
  BY <1>5, DeclareTyped DEF Declare
<1>6. QED
  BY <1>1, <1>2, <1>3, <1>4, <1>5 DEF Next, vars, Arrive, Tick, Driver, EnterLoop, Top, AfterCheck,
     DrainTest, Receive, Alloc, Input, Drained, Sleep, TcpipTakes, TcpipFrees

-----------------------------------------------------------------------------
(* The link.                                                                 *)

\* A step of the check moves the copies of the link state together: bits and
\* the interface's flag first, link_status last.
LEMMA CheckStep == LinkTypeOK /\ CheckInv /\ LoopInv /\ Check => CheckInv' /\ LoopInv'
<1> SUFFICES ASSUME LinkTypeOK, CheckInv, LoopInv, Check PROVE CheckInv' /\ LoopInv'
  OBVIOUS
<1>1. /\ pc = "check" /\ pc' = IF checkPc' = "idle" THEN "checked" ELSE "check"
      /\ UNCHANGED <<linkChecked, age>>
  BY DEF Check, build
<1>2. linkChecked
  BY <1>1 DEF LoopInv
<1>3. checkPc' \in {"idle", "set_link", "set_bit", "clear_bit", "save"}
  BY DEF Check, CheckLink, ReadLink, ReadLinkFails, SetNetifLink, SetNewBit, ClearOldBit,
     SaveStatus, At
<1>4. CheckInv'
  BY <1>1, <1>3, CheckKeepsCopies DEF Check, CheckInv
<1> QED
  BY <1>1, <1>2, <1>4 DEF LoopInv

\* Before the loop the build without a check declares the link up.
LEMMA DeclareStep == LinkTypeOK /\ CheckInv /\ LoopInv /\ Declare => CheckInv' /\ LoopInv'
<1> SUFFICES ASSUME LinkTypeOK, CheckInv, LoopInv, Declare PROVE CheckInv' /\ LoopInv'
  OBVIOUS
<1>1. /\ pc = "enter" /\ pc' = pc /\ ~linkChecked /\ ~linkStatus /\ DeclareUp
      /\ UNCHANGED <<linkChecked, early, age>>
  BY DEF Declare, build
<1>2. checkPc = "idle" => bits = {}
  BY <1>1 DEF LoopInv
<1>3. CopiesInv'
  BY <1>1, <1>2, DeclareKeepsCopies DEF CheckInv
<1>4. /\ checkPc' \in {"declare_bit", "declare_status", "idle"}
      /\ checkPc' = "idle" => linkStatus'
  BY <1>1 DEF DeclareUp, At
<1>5. CheckInv'
  BY <1>1, <1>3, <1>4 DEF CheckInv
<1>6. LoopInv'
  BY <1>1, <1>4 DEF LoopInv
<1> QED
  BY <1>5, <1>6

\* The loop is entered with the link declared up, or with the check due - but in
\* the early build.
LEMMA EnterStep == TypeOK /\ CheckInv /\ LoopInv /\ EnterLoop => CheckInv' /\ LoopInv'
<1> SUFFICES ASSUME TypeOK, CheckInv, LoopInv, EnterLoop PROVE CheckInv' /\ LoopInv'
  OBVIOUS
<1>1. /\ pc = "enter" /\ pc' = "top" /\ (linkChecked \/ linkStatus)
      /\ UNCHANGED <<linkChecked, early, age, checkPc, seen, linkStatus, netifLink, bits>>
  BY DEF EnterLoop, Go, build, linkVars, checkVars
<1>2. CopiesInv'
  BY <1>1, CopiesUntouched DEF CheckInv
<1>3. checkPc \in {"declare_bit", "declare_status"} => ~linkStatus
  BY DEF CheckInv, CopiesInv
<1>4. CheckInv'
  BY <1>1, <1>2, <1>3 DEF CheckInv
<1>5. LoopInv'
  BY <1>1 DEF LoopInv, Unchecked
<1> QED
  BY <1>4, <1>5

\* Every step keeps what relates the loop, the check and the copies.
LEMMA LinkStep == TypeOK /\ CheckInv /\ LoopInv /\ [Next]_vars => CheckInv' /\ LoopInv'
<1> SUFFICES ASSUME TypeOK, CheckInv, LoopInv, [Next]_vars PROVE CheckInv' /\ LoopInv'
  OBVIOUS
<1>1. CASE Check
  BY <1>1, CheckStep DEF TypeOK
<1>2. CASE EnterLoop
  BY <1>2, EnterStep
<1>3. CASE Top \/ AfterCheck
  BY <1>3, CopiesUntouched, LoopAssumption DEF Top, AfterCheck, Go, build, linkVars, checkVars,
     CheckInv, LoopInv, Unchecked, TypeOK
<1>4. CASE DrainTest \/ Receive \/ Alloc \/ Input \/ Drained \/ Sleep
  BY <1>4, CopiesUntouched DEF DrainTest, Receive, Alloc, Input, Drained, Sleep, Go, build,
     linkVars, checkVars, CheckInv, LoopInv, Unchecked
<1>5. CASE Tick
  BY <1>5, CopiesUntouched, LoopAssumption DEF Tick, build, linkVars, checkVars, CheckInv,
     LoopInv, Unchecked, TypeOK
<1>6. CASE Arrive \/ Cable \/ Watcher \/ TcpipTakes \/ TcpipFrees \/ UNCHANGED vars
  BY <1>6, CopiesUntouched DEF Arrive, Cable, CableMoves, Watcher, EventWait, TcpipTakes,
     TcpipFrees, vars, build, linkVars, checkVars, CheckInv, LoopInv, Unchecked
<1>7. CASE Declare
  BY <1>7, DeclareStep DEF TypeOK
<1>8. QED
  BY <1>1, <1>2, <1>3, <1>4, <1>5, <1>6, <1>7 DEF Next, Driver

\* Nothing but the check, the declaration before the loop and the watchers
\* themselves moves what watchers see.
LEMMA WatchStep == LinkTypeOK /\ WatchInv /\ [Next]_vars => WatchInv'
<1> SUFFICES ASSUME LinkTypeOK, WatchInv, [Next]_vars PROVE WatchInv'
  OBVIOUS
<1>1. CASE UNCHANGED <<bits, watch>>
  BY <1>1 DEF WatchInv, Waits
<1>2. CASE Watcher
  BY <1>2, WaitKeepsWatch DEF Watcher
<1>3. CASE Check
  BY <1>3, CheckKeepsWatch DEF Check
<1>4. CASE Declare
  BY <1>4, DeclareKeepsWatch DEF Declare
<1> QED
  BY <1>1, <1>2, <1>3, <1>4 DEF Next, vars, Arrive, Tick, Cable, CableMoves, Driver, EnterLoop, Top,
     AfterCheck, DrainTest, Receive, Alloc, Input, Drained, Sleep, TcpipTakes, TcpipFrees,
     linkVars, checkVars

-----------------------------------------------------------------------------
(* The pbufs.                                                                *)

\* A longer or a shorter mailbox counts one pbuf more or less.
LEMMA MboxCount ==
    TypeOK => /\ Len(mbox) \in Nat
              /\ \A f \in Frames : /\ Append(mbox, f) \in Seq(Frames)
                                   /\ Len(Append(mbox, f)) = Len(mbox) + 1
              /\ mbox # <<>> => /\ Tail(mbox) \in Seq(Frames)
                                /\ Len(Tail(mbox)) = Len(mbox) - 1
                                /\ Head(mbox) \in Frames
  BY HeadTailProperties, AppendProperties DEF TypeOK

\* Places of the loop and numbers that the counts are made of.
LEMMA Counted ==
    TypeOK => /\ free \in 0 .. PoolSize /\ PoolSize \in Nat /\ MboxSize \in Nat
              /\ pack \in 0 .. MaxFrames /\ pbuf \in 0 .. MaxFrames
              /\ taken \in 0 .. MaxFrames /\ MaxFrames \in Nat
  BY LoopAssumption DEF TypeOK

\* Every step of the driver and of tcpip_thread moves a pbuf from one place to
\* another.
LEMMA PbufStep == TypeOK /\ PbufInv /\ [Next]_vars => PbufInv'
<1> SUFFICES ASSUME TypeOK, PbufInv, [Next]_vars PROVE PbufInv'
  OBVIOUS
<1>a. /\ Len(mbox) \in Nat
      /\ \A f \in Frames : Len(Append(mbox, f)) = Len(mbox) + 1
      /\ mbox # <<>> => Len(Tail(mbox)) = Len(mbox) - 1 /\ Head(mbox) \in Frames
  BY MboxCount
<1>b. /\ free \in 0 .. PoolSize /\ PoolSize \in Nat /\ MaxFrames \in Nat
      /\ pack \in 0 .. MaxFrames /\ pbuf \in 0 .. MaxFrames /\ taken \in 0 .. MaxFrames
  BY Counted
<1> USE DEF PbufInv, PbufsConserved, One, Go
<1>1. CASE Receive
  BY <1>1 DEF Receive
<1>2. CASE Alloc
  <2>1. CASE free = 0
    BY <1>2, <1>a, <1>b, <2>1 DEF Alloc
  <2>2. CASE free # 0
    BY <1>2, <1>a, <1>b, <2>2 DEF Alloc
  <2>3. QED
    BY <2>1, <2>2
<1>3. CASE Input
  <2>1. pbuf \in Frames
    BY <1>3, <1>b DEF Input, Frames
  <2>2. CASE Len(mbox) < MboxSize
    BY <1>3, <1>a, <1>b, <2>1, <2>2 DEF Input
  <2>3. CASE ~(Len(mbox) < MboxSize)
    BY <1>3, <1>a, <1>b, <2>1, <2>3 DEF Input
  <2>4. QED
    BY <2>2, <2>3
<1>4. CASE TcpipTakes
  <2>1. One(taken) = 0 /\ Len(mbox') = Len(mbox) - 1
    BY <1>4, <1>a DEF TcpipTakes
  <2>2. One(taken') = 1
    BY <1>4, <1>a, <1>b DEF TcpipTakes, Frames
  <2>3. pack' = pack /\ pbuf' = pbuf /\ free' = free /\ pc' = pc
    BY <1>4 DEF TcpipTakes
  <2>4. PbufsConserved'
    <3>1. \A n \in Nat : n + Len(mbox') + 1 = n + Len(mbox) + 0
      BY ONLY <1>a, <2>1
    <3>2. free + One(pbuf) \in Nat
      BY ONLY <1>b DEF One
    <3>3. QED
      BY <2>1, <2>2, <2>3, <3>1, <3>2
  <2>5. QED
    BY <2>3, <2>4
<1>5. CASE TcpipFrees
  BY <1>5, <1>a, <1>b DEF TcpipFrees
<1>6. CASE Declare \/ EnterLoop \/ Top \/ Check \/ AfterCheck \/ DrainTest \/ Drained \/ Sleep
  BY <1>6 DEF Declare, EnterLoop, Top, Check, AfterCheck, DrainTest, Drained, Sleep, rxVars
<1>7. CASE Arrive \/ Tick \/ Cable \/ Watcher \/ UNCHANGED vars
  BY <1>7 DEF Arrive, Tick, Cable, Watcher, vars, rxVars
<1>8. QED
  BY <1>1, <1>2, <1>3, <1>4, <1>5, <1>6, <1>7 DEF Next, Driver

-----------------------------------------------------------------------------
(* The types of the loop's variables.                                        *)

LEMMA TypeInit == Init => TypeOK
<1> SUFFICES ASSUME Init PROVE TypeOK
  OBVIOUS
<1>1. LinkTypeOK
  BY DEF Init, LinkInit, LinkTypeOK, CheckPcs
<1>2. QED
  <2>1. chipRx \in Seq(Frames) /\ Len(chipRx) <= ChipFrames /\ oversize \subseteq Frames
    BY LoopAssumption DEF Init
  <2>2. mbox \in Seq(Frames) /\ Len(mbox) <= MboxSize /\ delivered \in Seq(Frames)
    BY LoopAssumption DEF Init
  <2>3. age \in 0 .. Timeout /\ arrived \in 0 .. MaxFrames /\ free \in 0 .. PoolSize
    BY LoopAssumption DEF Init
  <2>4. pack \in 0 .. MaxFrames /\ pbuf \in 0 .. MaxFrames /\ taken \in 0 .. MaxFrames
    BY LoopAssumption DEF Init
  <2>5. QED
    BY <1>1, <2>1, <2>2, <2>3, <2>4 DEF Init, TypeOK

\* A frame taken out of the chip leaves the others there.
LEMMA ChipRxTyped ==
    ASSUME TypeOK, chipRx # <<>>
    PROVE  /\ Head(chipRx) \in Frames
           /\ Tail(chipRx) \in Seq(Frames)
           /\ Len(Tail(chipRx)) = Len(chipRx) - 1
  BY HeadTailProperties DEF TypeOK

\* The pool never has more free pbufs than it has pbufs, because none is freed
\* twice.
LEMMA TypeStep == TypeOK /\ PbufInv /\ [Next]_vars => TypeOK'
<1> SUFFICES ASSUME TypeOK, PbufInv, [Next]_vars PROVE TypeOK'
  OBVIOUS
<1>1. LinkTypeOK'
  BY LinkTypeStep DEF TypeOK
<1>2. CASE Arrive
  <2>1. arrived' \in 0 .. MaxFrames /\ arrived' \in Frames
    BY <1>2, LoopAssumption DEF Arrive, Frames, TypeOK
  <2>2. chipRx' \in Seq(Frames) /\ Len(chipRx') <= ChipFrames
    BY <1>2, <2>1, AppendProperties, LoopAssumption DEF Arrive, TypeOK
  <2>3. oversize' \subseteq Frames
    BY <1>2, <2>1 DEF Arrive, TypeOK
  <2>4. QED
    BY <1>1, <1>2, <2>1, <2>2, <2>3 DEF Arrive, rxVars, build, TypeOK
<1>3. CASE Receive
  <2>1. pack' \in 0 .. MaxFrames
    BY <1>3, ChipRxTyped, LoopAssumption DEF Receive, Frames, TypeOK
  <2>2. chipRx' \in Seq(Frames) /\ Len(chipRx') <= ChipFrames
    BY <1>3, ChipRxTyped, LoopAssumption DEF Receive, TypeOK
  <2>3. pc' \in {"drained", "alloc"}
    BY <1>3 DEF Receive, Go
  <2>4. QED
    BY <1>1, <1>3, <2>1, <2>2, <2>3 DEF Receive, Go, build, TypeOK
<1>4. CASE Alloc
  <2>1. /\ free' \in 0 .. PoolSize /\ pbuf' \in 0 .. MaxFrames /\ pack' \in 0 .. MaxFrames
        /\ pc' \in {"drained", "input"}
    BY <1>4, LoopAssumption DEF Alloc, Go, TypeOK
  <2>2. QED
    BY <1>1, <1>4, <2>1 DEF Alloc, Go, wireVars, build, TypeOK
<1>5. CASE Input
  <2>1. pbuf \in Frames /\ free + 1 \in 0 .. PoolSize
    BY <1>5, Counted, MboxCount DEF Input, Go, Frames, PbufInv, PbufsConserved, One
  <2>2. free' \in 0 .. PoolSize /\ pbuf' \in 0 .. MaxFrames
    BY <1>5, <2>1, Counted DEF Input
  <2>3. mbox' \in Seq(Frames) /\ Len(mbox') <= MboxSize
    <3>0. mbox \in Seq(Frames) /\ Len(mbox) <= MboxSize
      BY DEF TypeOK
    <3>1. Len(mbox) \in Nat /\ MboxSize \in Nat /\ pbuf \in Frames
      BY <2>1, MboxCount, LoopAssumption
    <3>2. CASE Len(mbox) < MboxSize
      <4>1. mbox' = Append(mbox, pbuf)
        BY <1>5, <3>2 DEF Input
      <4>2. mbox' \in Seq(Frames) /\ Len(mbox') = Len(mbox) + 1
        BY <3>1, <4>1, MboxCount
      <4> QED
        BY <3>1, <3>2, <4>2
    <3>3. CASE ~(Len(mbox) < MboxSize)
      BY <1>5, <3>0, <3>3 DEF Input
    <3> QED
      BY <3>2, <3>3
  <2>4. QED
    BY <1>1, <1>5, <2>2, <2>3 DEF Input, Go, wireVars, build, TypeOK
<1>6. CASE TcpipTakes
  <2>1. mbox' \in Seq(Frames) /\ Len(mbox') <= MboxSize
    BY <1>6, MboxCount, LoopAssumption DEF TcpipTakes, TypeOK
  <2>2. taken' \in 0 .. MaxFrames
    BY <1>6, MboxCount, Counted DEF TcpipTakes, Frames
  <2>3. QED
    BY <1>1, <1>6, <2>1, <2>2 DEF TcpipTakes, wireVars, build, TypeOK
<1>7. CASE TcpipFrees
  <2>1. taken \in Frames /\ free + 1 \in 0 .. PoolSize
    BY <1>7, MboxCount, Counted DEF TcpipFrees, Frames, PbufInv, PbufsConserved, One
  <2>2. delivered' \in Seq(Frames) /\ taken' \in 0 .. MaxFrames
    BY <1>7, <2>1, AppendProperties, Counted DEF TcpipFrees, TypeOK
  <2>3. QED
    BY <1>1, <1>7, <2>1, <2>2 DEF TcpipFrees, wireVars, build, TypeOK
<1>8. CASE Check \/ Declare
  BY <1>1, <1>8 DEF Check, Declare, wireVars, rxVars, build, TypeOK
<1>9. CASE EnterLoop \/ Drained \/ Sleep
  <2>1. packLen' \in BOOLEAN
    BY <1>9 DEF EnterLoop, Drained, Sleep, ReadLength
  <2>2. age' \in 0 .. Timeout /\ pc' \in {"top", "drain"}
    BY <1>9, LoopAssumption DEF EnterLoop, Drained, Sleep, Go, TypeOK
  <2>3. QED
    BY <1>1, <1>9, <2>1, <2>2 DEF EnterLoop, Drained, Sleep, Go, wireVars, build, TypeOK
<1>10. CASE Top \/ AfterCheck \/ DrainTest
  <2>1. age' \in 0 .. Timeout /\ pc' \in {"check", "drain", "recv", "sleep"}
    BY <1>10, LoopAssumption DEF Top, AfterCheck, DrainTest, Go, TypeOK
  <2>2. QED
    BY <1>1, <1>10, <2>1 DEF Top, AfterCheck, DrainTest, Go, wireVars, rxVars, build, TypeOK
<1>11. CASE Tick
  BY <1>1, <1>11, LoopAssumption DEF Tick, wireVars, rxVars, build, TypeOK
<1>12. CASE Cable \/ Watcher \/ UNCHANGED vars
  BY <1>1, <1>12 DEF Cable, Watcher, vars, wireVars, rxVars, build, TypeOK
<1>13. QED
  BY <1>2, <1>3, <1>4, <1>5, <1>6, <1>7, <1>8, <1>9, <1>10, <1>11, <1>12 DEF Next, Driver

-----------------------------------------------------------------------------
(* The frames.                                                               *)

\* The frames that have come and are not too long for the driver's buffer.
Short == (1 .. arrived) \ oversize

\* Where which frames may be: only the chip holds oversize ones.
FramesInv ==
    /\ oversize \subseteq 1 .. arrived
    /\ chipRx \in Seq(1 .. arrived)
    /\ pack \in Short \cup {0} /\ pbuf \in Short \cup {0} /\ taken \in Short \cup {0}
    /\ mbox \in Seq(Short) /\ delivered \in Seq(Short)

LEMMA FramesInit == Init => FramesInv
  BY DEF Init, FramesInv

\* A sequence over a set is one over every larger set.
LEMMA SeqLarger ==
    ASSUME NEW S, NEW T, S \subseteq T, NEW s \in Seq(S)
    PROVE  s \in Seq(T)
  OBVIOUS

\* A frame that arrives may be oversize, the earlier ones stay as they are;
\* recv_lwip gives only short ones to the driver.
LEMMA FramesStep == TypeOK /\ PbufInv /\ FramesInv /\ [Next]_vars => FramesInv'
<1> SUFFICES ASSUME TypeOK, PbufInv, FramesInv, [Next]_vars PROVE FramesInv'
  OBVIOUS
<1>0. arrived \in Nat
  BY LoopAssumption DEF TypeOK
<1>1. CASE Arrive
  <2>1. arrived' = arrived + 1 /\ 1 .. arrived \subseteq 1 .. arrived' /\ arrived' \in 1 .. arrived'
    BY <1>0, <1>1 DEF Arrive
  <2>2. oversize' \subseteq 1 .. arrived' /\ Short \subseteq Short'
    <3>1. oversize' \subseteq oversize \cup {arrived'}
      BY <1>1 DEF Arrive
    <3>2. arrived' \notin 1 .. arrived
      BY <1>0, <2>1
    <3>3. oversize' \subseteq 1 .. arrived'
      BY <2>1, <3>1 DEF FramesInv
    <3>4. Short \subseteq Short'
      BY <2>1, <3>1, <3>2 DEF Short
    <3>5. QED
      BY <3>3, <3>4
  <2>3. chipRx \in Seq(1 .. arrived')
    BY <2>1, SeqLarger DEF FramesInv
  <2>4. chipRx' \in Seq(1 .. arrived')
    BY <1>1, <2>1, <2>3, AppendProperties DEF Arrive
  <2>5. mbox \in Seq(Short') /\ delivered \in Seq(Short')
    BY <2>2, SeqLarger DEF FramesInv
  <2>6. QED
    BY <1>1, <2>2, <2>4, <2>5 DEF Arrive, rxVars, FramesInv
<1>2. CASE Receive
  <2>1. chipRx # <<>> => Head(chipRx) \in 1 .. arrived /\ Tail(chipRx) \in Seq(1 .. arrived)
    BY HeadTailProperties DEF FramesInv
  <2>2. pack' \in Short \cup {0} /\ chipRx' \in Seq(1 .. arrived)
    BY <1>2, <2>1 DEF Receive, Short, FramesInv
  <2>3. QED
    BY <1>2, <2>2 DEF Receive, FramesInv, Short
<1>3. CASE Alloc
  BY <1>3 DEF Alloc, FramesInv, Short, wireVars
<1>4. CASE Input
  <2>1. pbuf \in Short
    BY <1>4 DEF Input, Go, PbufInv, FramesInv
  <2>2. mbox' \in Seq(Short)
    <3>1. mbox \in Seq(Short)
      BY DEF FramesInv
    <3>2. Append(mbox, pbuf) \in Seq(Short)
      BY <2>1, <3>1, AppendProperties
    <3>3. mbox' = Append(mbox, pbuf) \/ mbox' = mbox
      BY <1>4 DEF Input
    <3>4. QED
      BY <3>1, <3>2, <3>3
  <2>3. QED
    BY <1>4, <2>2 DEF Input, FramesInv, Short, wireVars
<1>5. CASE TcpipTakes
  <2>1. Head(mbox) \in Short /\ Tail(mbox) \in Seq(Short)
    BY <1>5, HeadTailProperties DEF TcpipTakes, FramesInv
  <2>2. QED
    BY <1>5, <2>1 DEF TcpipTakes, FramesInv, Short, wireVars
<1>6. CASE TcpipFrees
  <2>1. taken \in Short
    BY <1>6 DEF TcpipFrees, FramesInv
  <2>2. delivered' \in Seq(Short)
    BY <1>6, <2>1, AppendProperties DEF TcpipFrees, FramesInv
  <2>3. QED
    BY <1>6, <2>2 DEF TcpipFrees, FramesInv, Short, wireVars
<1>7. CASE Declare \/ EnterLoop \/ Top \/ Check \/ AfterCheck \/ DrainTest \/ Drained \/ Sleep
  BY <1>7 DEF Declare, EnterLoop, Top, Check, AfterCheck, DrainTest, Drained, Sleep, rxVars,
     wireVars, FramesInv, Short
<1>8. CASE Tick \/ Cable \/ Watcher \/ UNCHANGED vars
  BY <1>8 DEF Tick, Cable, Watcher, vars, rxVars, wireVars, FramesInv, Short
<1>9. QED
  BY <1>1, <1>2, <1>3, <1>4, <1>5, <1>6, <1>7, <1>8 DEF Next, Driver

-----------------------------------------------------------------------------
(* The order of the frames.                                                  *)

Increasing(s) == \A i, j \in DOMAIN s : i < j => s[i] < s[j]
Pend(f) == IF f = 0 THEN <<>> ELSE <<f>>

\* An element taken out of a sequence leaves its order.
LEMMA IncreasingDrop ==
    ASSUME NEW s \in Seq(Nat), NEW t \in Seq(Nat), NEW x \in Nat,
           Increasing((s \o <<x>>) \o t)
    PROVE  Increasing(s \o t)
<1> DEFINE w == (s \o <<x>>) \o t
<1>0. Len(s) \in Nat /\ Len(t) \in Nat
  OBVIOUS
<1>1. /\ <<x>> \in Seq(Nat) /\ s \o <<x>> \in Seq(Nat) /\ Len(s \o <<x>>) = Len(s) + 1
      /\ \A i \in 1 .. Len(s) : (s \o <<x>>)[i] = s[i]
  BY ConcatProperties
<1>2. /\ Len(w) = Len(s) + 1 + Len(t) /\ DOMAIN w = 1 .. Len(w)
      /\ \A i \in 1 .. Len(s) : w[i] = s[i]
      /\ \A i \in 1 .. Len(t) : w[Len(s) + 1 + i] = t[i]
  BY <1>1, ConcatProperties
<1>3. /\ Len(s \o t) = Len(s) + Len(t) /\ DOMAIN (s \o t) = 1 .. Len(s \o t)
      /\ \A i \in 1 .. Len(s) + Len(t) :
           (s \o t)[i] = IF i <= Len(s) THEN s[i] ELSE t[i - Len(s)]
  BY ConcatProperties
<1> DEFINE place(i) == IF i <= Len(s) THEN i ELSE i + 1
<1> HIDE DEF w
<1>4. ASSUME NEW i \in DOMAIN (s \o t)
      PROVE  place(i) \in DOMAIN w /\ (s \o t)[i] = w[place(i)]
  <2>1. i \in 1 .. Len(s) + Len(t)
    BY <1>3
  <2>2. CASE i <= Len(s)
    BY <1>0, <1>2, <1>3, <2>1, <2>2
  <2>3. CASE ~(i <= Len(s))
    <3>1. i - Len(s) \in 1 .. Len(t)
      BY <1>0, <2>1, <2>3
    <3>2. w[Len(s) + 1 + (i - Len(s))] = t[i - Len(s)]
      BY <1>2, <3>1
    <3>3. Len(s) + 1 + (i - Len(s)) = i + 1
      BY <1>0, <2>1
    <3>4. QED
      BY <1>0, <1>2, <1>3, <2>1, <2>3, <3>2, <3>3
  <2>4. QED
    BY <2>2, <2>3
<1>5. ASSUME NEW i \in DOMAIN (s \o t), NEW j \in DOMAIN (s \o t), i < j
      PROVE  place(i) < place(j)
  <2>1. i \in 1 .. Len(s) + Len(t) /\ j \in 1 .. Len(s) + Len(t)
    BY <1>3
  <2>2. QED
    BY <1>0, <1>5, <2>1
<1> HIDE DEF place
<1>6. QED
  BY <1>4, <1>5 DEF Increasing, w

\* A larger element may be added at the end.
LEMMA IncreasingAppend ==
    ASSUME NEW n \in Nat, NEW s \in Seq(1 .. n), Increasing(s)
    PROVE  Increasing(Append(s, n + 1))
<1>1. s \in Seq(Nat) /\ n + 1 \in Nat
  OBVIOUS
<1>2. /\ Len(Append(s, n + 1)) = Len(s) + 1
      /\ \A i \in 1 .. Len(s) : Append(s, n + 1)[i] = s[i]
      /\ Append(s, n + 1)[Len(s) + 1] = n + 1
      /\ DOMAIN Append(s, n + 1) = 1 .. Len(s) + 1
  BY <1>1, AppendProperties
<1>3. \A i \in 1 .. Len(s) : s[i] \in 1 .. n
  OBVIOUS
<1>4. QED
  BY <1>2, <1>3 DEF Increasing

\* What lwIP has or is about to have, and what the driver and the chip have.
Front == (delivered \o Pend(taken)) \o mbox
Back == (Pend(pbuf) \o Pend(pack)) \o chipRx

\* Concatenations may be taken in any order.
LEMMA Associative ==
    \A a, b, c \in Seq(1 .. arrived) : (a \o b) \o c = a \o (b \o c)
  BY ConcatAssociative

\* The parts of the pipeline are sequences of the frames that have come.
LEMMA PartsTyped ==
    ASSUME TypeOK, FramesInv
    PROVE  /\ arrived \in Nat /\ 1 .. arrived \subseteq Nat
           /\ delivered \in Seq(1 .. arrived) /\ mbox \in Seq(1 .. arrived)
           /\ chipRx \in Seq(1 .. arrived)
           /\ Pend(taken) \in Seq(1 .. arrived) /\ Pend(pbuf) \in Seq(1 .. arrived)
           /\ Pend(pack) \in Seq(1 .. arrived)
<1>1. arrived \in Nat /\ 1 .. arrived \subseteq Nat /\ Short \subseteq 1 .. arrived
  BY LoopAssumption DEF TypeOK, Short
<1>2. delivered \in Seq(1 .. arrived) /\ mbox \in Seq(1 .. arrived)
  BY <1>1, SeqLarger DEF FramesInv
<1>3. ASSUME NEW f \in Short \cup {0} PROVE Pend(f) \in Seq(1 .. arrived)
  <2>1. CASE f = 0
    BY <2>1 DEF Pend
  <2>2. CASE f # 0
    <3>1. f \in 1 .. arrived
      BY <1>1, <2>2
    <3>2. QED
      BY <2>2, <3>1 DEF Pend
  <2>3. QED
    BY <2>1, <2>2
<1>4. QED
  BY <1>1, <1>2, <1>3 DEF FramesInv

\* The pipeline in two parts.
LEMMA TwoParts ==
    ASSUME TypeOK, FramesInv
    PROVE  /\ Front \in Seq(1 .. arrived) /\ Back \in Seq(1 .. arrived)
           /\ Pipeline = Front \o Back
<1>1. /\ Front \in Seq(1 .. arrived)
      /\ Pend(pbuf) \o Pend(pack) \in Seq(1 .. arrived)
      /\ Back \in Seq(1 .. arrived)
  BY PartsTyped, ConcatProperties DEF Front, Back
<1>2. Pipeline = ((Front \o Pend(pbuf)) \o Pend(pack)) \o chipRx
  BY DEF Pipeline, Pend, Front
<1>3. (Front \o Pend(pbuf)) \o Pend(pack) = Front \o (Pend(pbuf) \o Pend(pack))
  <2>1. Pend(pbuf) \in Seq(1 .. arrived) /\ Pend(pack) \in Seq(1 .. arrived)
    BY PartsTyped
  <2>2. QED
    BY <1>1, <2>1, Associative, Zenon
<1>4. (Front \o (Pend(pbuf) \o Pend(pack))) \o chipRx = Front \o Back
  <2>1. chipRx \in Seq(1 .. arrived)
    BY PartsTyped
  <2>2. QED
    BY <1>1, <2>1, Associative, Zenon DEF Back
<1>5. QED
  BY <1>1, <1>2, <1>3, <1>4

\* What tcpip_thread does leaves the order as it is.
LEMMA FrontStep ==
    ASSUME TypeOK, FramesInv, TcpipTakes \/ TcpipFrees
    PROVE  Front' = Front
<1>1. CASE TcpipTakes
  <2> DEFINE h == Head(mbox)
             t == Tail(mbox)
  <2>1. mbox # <<>> /\ taken = 0 /\ taken' = h /\ mbox' = t /\ delivered' = delivered
    BY <1>1 DEF TcpipTakes
  <2>2. h \in 1 .. arrived /\ t \in Seq(1 .. arrived) /\ <<h>> \in Seq(1 .. arrived)
    BY <2>1, PartsTyped, HeadTailProperties
  <2>3. mbox = <<h>> \o t
    BY <2>1, <2>2, PartsTyped
  <2>4. Pend(taken) = <<>> /\ Pend(taken') = <<h>>
    BY <2>1, <2>2, PartsTyped DEF Pend
  <2>5. Front = delivered \o (<<h>> \o t)
    BY <2>3, <2>4, PartsTyped, ConcatEmptySeq DEF Front
  <2>6. Front' = (delivered \o <<h>>) \o t
    BY <2>1, <2>4 DEF Front
  <2>7. QED
    <3>1. delivered \in Seq(1 .. arrived)
      BY PartsTyped
    <3>2. QED
      BY <2>2, <2>5, <2>6, <3>1, Associative, Zenon
<1>2. CASE TcpipFrees
  <2>1. taken # 0 /\ taken' = 0 /\ mbox' = mbox /\ delivered' = Append(delivered, taken)
    BY <1>2 DEF TcpipFrees
  <2>2. Pend(taken) = <<taken>> /\ Pend(taken') = <<>> /\ taken \in 1 .. arrived
    BY <2>1 DEF Pend, FramesInv, Short
  <2>3. delivered' = delivered \o <<taken>>
    BY <2>1, <2>2, PartsTyped, AppendIsConcat
  <2>4. delivered' \o <<>> = delivered'
    BY <2>1, <2>2, PartsTyped, AppendProperties, ConcatEmptySeq
  <2>5. QED
    BY <2>1, <2>2, <2>3, <2>4 DEF Front
<1>3. QED
  BY <1>1, <1>2

\* A frame forgotten by the driver leaves a gap and no disorder.
LEMMA Forget ==
    ASSUME TypeOK, FramesInv, Increasing(Pipeline),
           NEW f \in 1 .. arrived, NEW rest \in Seq(1 .. arrived), Back = <<f>> \o rest
    PROVE  Increasing(Front \o rest)
<1>1. /\ Front \in Seq(1 .. arrived) /\ Pipeline = Front \o Back
      /\ 1 .. arrived \subseteq Nat /\ <<f>> \in Seq(1 .. arrived)
  <2>1. Front \in Seq(1 .. arrived) /\ Pipeline = Front \o Back
    BY TwoParts
  <2>2. 1 .. arrived \subseteq Nat
    BY PartsTyped
  <2>3. <<f>> \in Seq(1 .. arrived)
    OBVIOUS
  <2>4. QED
    BY <2>1, <2>2, <2>3
<1>2. Pipeline = (Front \o <<f>>) \o rest
  BY <1>1, Associative, Zenon
<1>3. Front \in Seq(Nat) /\ rest \in Seq(Nat) /\ f \in Nat
  BY <1>1, SeqLarger
<1>4. QED
  BY <1>2, <1>3, IncreasingDrop

\* What the driver's and the chip's part of the pipeline is at each place.
LEMMA BackAt ==
    ASSUME TypeOK, PbufInv, FramesInv
    PROVE  /\ pc \notin {"alloc", "input"} => Back = chipRx
           /\ pc = "alloc" => pack \in 1 .. arrived /\ Back = <<pack>> \o chipRx
           /\ pc = "input" => pbuf \in 1 .. arrived /\ Back = <<pbuf>> \o chipRx
<1>1. pack \in (1 .. arrived) \cup {0} /\ pbuf \in (1 .. arrived) \cup {0} /\ arrived \in Nat
  BY LoopAssumption DEF FramesInv, Short, TypeOK
<1>2. chipRx \in Seq(1 .. arrived)
  BY DEF FramesInv
<1>3. CASE pc \notin {"alloc", "input"}
  <2>1. Pend(pack) = <<>> /\ Pend(pbuf) = <<>>
    BY <1>3 DEF PbufInv, Pend
  <2>2. QED
    BY <1>2, <1>3, <2>1, ConcatEmptySeq DEF Back
<1>4. CASE pc = "alloc"
  <2>1. pack \in 1 .. arrived /\ Pend(pack) = <<pack>> /\ Pend(pbuf) = <<>>
    BY <1>1, <1>4 DEF PbufInv, Pend
  <2>2. QED
    BY <1>2, <1>4, <2>1, ConcatEmptySeq DEF Back
<1>5. CASE pc = "input"
  <2>1. pbuf \in 1 .. arrived /\ Pend(pbuf) = <<pbuf>> /\ Pend(pack) = <<>>
    BY <1>1, <1>5 DEF PbufInv, Pend
  <2>2. QED
    BY <1>2, <1>5, <2>1, ConcatEmptySeq DEF Back
<1>6. QED
  BY <1>3, <1>4, <1>5

LEMMA BackPlaces ==
    TypeOK /\ PbufInv /\ FramesInv =>
       /\ pc \notin {"alloc", "input"} => Back = chipRx
       /\ pc = "alloc" => Back = <<pack>> \o chipRx
       /\ pc = "input" => Back = <<pbuf>> \o chipRx
  BY BackAt

\* The two parts after a step.
LEMMA PartsNext ==
    ASSUME TypeOK', PbufInv', FramesInv'
    PROVE  /\ Pipeline' = Front' \o Back'
           /\ pc' \notin {"alloc", "input"} => Back' = chipRx'
           /\ pc' = "alloc" => Back' = <<pack'>> \o chipRx'
           /\ pc' = "input" => Back' = <<pbuf'>> \o chipRx'
<1>1. (TypeOK /\ FramesInv => Pipeline = Front \o Back)'
  BY TwoParts, PTL
<1>2. (TypeOK /\ PbufInv /\ FramesInv =>
         /\ pc \notin {"alloc", "input"} => Back = chipRx
         /\ pc = "alloc" => Back = <<pack>> \o chipRx
         /\ pc = "input" => Back = <<pbuf>> \o chipRx)'
  BY BackPlaces, PTL
<1>3. QED
  BY <1>1, <1>2

\* recv_lwip takes the oldest frame of the chip, and keeps or forgets it.
LEMMA OrderReceive ==
    ASSUME TypeOK, PbufInv, FramesInv, TypeOK', PbufInv', FramesInv',
           Increasing(Pipeline), Receive
    PROVE  Increasing(Pipeline')
<1> DEFINE h == Head(chipRx)
           t == Tail(chipRx)
<1>1. Front' = Front /\ arrived' = arrived /\ pc = "recv"
  BY DEF Receive, Go, Front
<1>2. Back = chipRx /\ chipRx \in Seq(1 .. arrived) /\ Pipeline = Front \o Back
  BY <1>1, BackAt, TwoParts DEF FramesInv
<1>3. CASE chipRx = <<>>
  <2>1. pc' = "drained" /\ chipRx' = chipRx
    BY <1>3 DEF Receive, Go
  <2>2. QED
    BY <1>1, <1>2, <2>1, PartsNext
<1>4. CASE chipRx # <<>>
  <2>1. h \in 1 .. arrived /\ t \in Seq(1 .. arrived) /\ Back = <<h>> \o t /\ chipRx' = t
    <3>1. h \in 1 .. arrived /\ t \in Seq(1 .. arrived)
      BY <1>2, <1>4, HeadTailProperties
    <3>2. chipRx = <<h>> \o t
      BY <1>2, <1>4, <3>1
    <3>3. QED
      BY <1>2, <1>4, <3>1, <3>2 DEF Receive
  <2>2. CASE h \in oversize
    <3>1. pc' = "drained"
      BY <1>4, <2>2 DEF Receive, Go
    <3>2. QED
      BY <1>1, <2>1, <3>1, PartsNext, Forget
  <2>3. CASE h \notin oversize
    <3>1. pack' = h /\ pc' = "alloc"
      BY <1>4, <2>1, <2>3, LoopAssumption DEF Receive, Go, TypeOK
    <3>2. QED
      BY <1>1, <1>2, <2>1, <3>1, PartsNext
  <2>4. QED
    BY <2>2, <2>3
<1>5. QED
  BY <1>3, <1>4

\* Without a pbuf the frame in the driver's buffer is forgotten.
LEMMA OrderAlloc ==
    ASSUME TypeOK, PbufInv, FramesInv, TypeOK', PbufInv', FramesInv',
           Increasing(Pipeline), Alloc
    PROVE  Increasing(Pipeline')
<1>1. Front' = Front /\ pc = "alloc" /\ chipRx' = chipRx
  BY DEF Alloc, Go, Front, wireVars
<1>2. /\ pack \in 1 .. arrived /\ Back = <<pack>> \o chipRx
      /\ chipRx \in Seq(1 .. arrived) /\ Pipeline = Front \o Back
  BY <1>1, BackAt, TwoParts DEF FramesInv
<1>3. CASE free = 0
  <2>1. pc' = "drained"
    BY <1>3 DEF Alloc, Go
  <2>2. QED
    BY <1>1, <1>2, <2>1, PartsNext, Forget
<1>4. CASE free # 0
  <2>1. pc' = "input" /\ pbuf' = pack
    BY <1>4 DEF Alloc, Go
  <2>2. QED
    BY <1>1, <1>2, <2>1, PartsNext
<1>5. QED
  BY <1>3, <1>4

\* tcpip_input queues the driver's pbuf behind the others, or it is forgotten.
LEMMA OrderInput ==
    ASSUME TypeOK, PbufInv, FramesInv, TypeOK', PbufInv', FramesInv',
           Increasing(Pipeline), Input
    PROVE  Increasing(Pipeline')
<1>1. pc = "input" /\ pc' = "drained" /\ chipRx' = chipRx
  BY DEF Input, Go, wireVars
<1>2. /\ pbuf \in 1 .. arrived /\ Back = <<pbuf>> \o chipRx
      /\ chipRx \in Seq(1 .. arrived) /\ Pipeline = Front \o Back
      /\ Front \in Seq(1 .. arrived)
  BY <1>1, BackAt, TwoParts DEF FramesInv
<1>3. Pipeline' = Front' \o chipRx
  BY <1>1, PartsNext
<1>4. CASE Len(mbox) < MboxSize
  <2>1. /\ delivered \o Pend(taken) \in Seq(1 .. arrived) /\ mbox \in Seq(1 .. arrived)
        /\ <<pbuf>> \in Seq(1 .. arrived)
    BY <1>2, PartsTyped, ConcatProperties
  <2>2. mbox' = mbox \o <<pbuf>> /\ delivered' = delivered /\ taken' = taken
    BY <1>2, <1>4, <2>1, AppendIsConcat DEF Input
  <2>3. Front' = (delivered \o Pend(taken)) \o (mbox \o <<pbuf>>)
    BY <2>2 DEF Front
  <2>4. Front' = Front \o <<pbuf>>
    BY <2>1, <2>3, Associative, Zenon DEF Front
  <2>5. (Front \o <<pbuf>>) \o chipRx = Front \o Back
    BY <1>2, <2>1, Associative, Zenon
  <2>6. QED
    BY <1>2, <1>3, <2>4, <2>5
<1>5. CASE ~(Len(mbox) < MboxSize)
  <2>1. Front' = Front
    BY <1>5 DEF Input, Front
  <2>2. QED
    BY <1>2, <1>3, <2>1, Forget
<1>6. QED
  BY <1>4, <1>5

\* What arrives goes to the end, and is younger than everything before it.
LEMMA OrderArrive ==
    ASSUME TypeOK, PbufInv, FramesInv, TypeOK', PbufInv', FramesInv',
           Increasing(Pipeline), Arrive
    PROVE  Increasing(Pipeline')
<1>1. /\ Front' = Front /\ pack' = pack /\ pbuf' = pbuf /\ arrived' = arrived + 1
      /\ chipRx' = chipRx \/ chipRx' = Append(chipRx, arrived + 1)
  BY DEF Arrive, Front, rxVars
<1>2. /\ Pipeline = Front \o Back /\ Front \in Seq(1 .. arrived) /\ Back \in Seq(1 .. arrived)
      /\ Pipeline' = Front' \o Back'
  BY TwoParts, PartsNext
<1>3. CASE chipRx' = chipRx
  BY <1>1, <1>2, <1>3 DEF Back
<1>4. CASE chipRx' = Append(chipRx, arrived + 1)
  <2> DEFINE n == arrived + 1
             S == 1 .. n
             held == Pend(pbuf) \o Pend(pack)
  <2>1. arrived \in Nat /\ 1 .. arrived \subseteq S /\ n \in S
    BY PartsTyped
  <2>2. held \in Seq(1 .. arrived) /\ chipRx \in Seq(1 .. arrived)
    BY PartsTyped, ConcatProperties
  <2>3. /\ held \in Seq(S) /\ chipRx \in Seq(S) /\ <<n>> \in Seq(S)
        /\ Front \in Seq(S) /\ Back \in Seq(S)
    BY <1>2, <2>1, <2>2, SeqLarger
  <2> HIDE DEF n, S, held
  <2>4. \A a, b, c \in Seq(S) : (a \o b) \o c = a \o (b \o c)
    BY ConcatAssociative
  <2>5. chipRx' = chipRx \o <<n>>
    BY <1>4, <2>1, <2>3, AppendIsConcat DEF n
  <2>6. Back = held \o chipRx /\ Back' = held \o (chipRx \o <<n>>)
    BY <1>1, <2>5 DEF Back, held
  <2>7. Back' = Back \o <<n>>
    BY <2>3, <2>4, <2>6, ZenonT(60)
  <2>8. Pipeline' = Pipeline \o <<n>>
    BY <1>1, <1>2, <2>3, <2>4, <2>7, ZenonT(60)
  <2>9. Pipeline \in Seq(1 .. arrived) /\ Pipeline \in Seq(S)
    BY <1>2, <2>1, ConcatProperties, SeqLarger
  <2>10. Pipeline' = Append(Pipeline, n)
    BY <2>1, <2>8, <2>9, AppendIsConcat
  <2>11. QED
    BY <2>1, <2>9, <2>10, IncreasingAppend DEF n
<1>5. QED
  BY <1>1, <1>3, <1>4

LEMMA OrderStep ==
    ASSUME TypeOK, PbufInv, FramesInv, TypeOK', PbufInv', FramesInv',
           Increasing(Pipeline), [Next]_vars
    PROVE  Increasing(Pipeline')
<1>1. CASE TcpipTakes \/ TcpipFrees
  <2>1. Front' = Front
    BY <1>1, FrontStep
  <2>2. Back' = Back
    BY <1>1 DEF TcpipTakes, TcpipFrees, wireVars, Back
  <2>3. Pipeline = Front \o Back /\ Pipeline' = Front' \o Back'
    BY TwoParts, PartsNext
  <2>4. QED
    BY <2>1, <2>2, <2>3
<1>2. CASE Declare \/ EnterLoop \/ Top \/ Check \/ AfterCheck \/ DrainTest \/ Drained \/ Sleep
  <2>1. Pipeline' = Pipeline
    BY <1>2 DEF Declare, EnterLoop, Top, Check, AfterCheck, DrainTest, Drained, Sleep, rxVars,
       wireVars, Pipeline
  <2>2. QED
    BY <2>1
<1>3. CASE Tick \/ Cable \/ Watcher \/ UNCHANGED vars
  <2>1. Pipeline' = Pipeline
    BY <1>3 DEF Tick, Cable, Watcher, vars, rxVars, wireVars, Pipeline
  <2>2. QED
    BY <2>1
<1>4. QED
  BY <1>1, <1>2, <1>3, OrderArrive, OrderReceive, OrderAlloc, OrderInput DEF Next, Driver

-----------------------------------------------------------------------------
(* The theorems.                                                             *)

LoopInvariant == IInv /\ FramesInv /\ Increasing(Pipeline)

\* All parts together are an inductive invariant of the loop, the link check,
\* the chip's memory and tcpip_thread.
THEOREM Inductive == Spec => []LoopInvariant
<1>1. Init => LoopInvariant
  <2> SUFFICES ASSUME Init PROVE LoopInvariant
    OBVIOUS
  <2>1. TypeOK /\ FramesInv
    BY TypeInit, FramesInit
  <2>2. CheckInv /\ LoopInv
    BY CopiesStart DEF Init, LinkInit, CheckInv, LoopInv
  <2>3. PbufInv
    BY LoopAssumption DEF Init, PbufInv, PbufsConserved, One
  <2>4. Increasing(Pipeline)
    <3>1. Pipeline = <<>>
      BY DEF Init, Pipeline
    <3>2. QED
      BY <3>1 DEF Increasing
  <2>5. QED
    BY <2>1, <2>2, <2>3, <2>4 DEF LoopInvariant, IInv
<1>2. LoopInvariant /\ [Next]_vars => LoopInvariant'
  <2> SUFFICES ASSUME LoopInvariant, [Next]_vars PROVE LoopInvariant'
    OBVIOUS
  <2>1. TypeOK /\ CheckInv /\ LoopInv /\ PbufInv /\ FramesInv /\ Increasing(Pipeline)
    BY DEF LoopInvariant, IInv
  <2>2. TypeOK' /\ CheckInv' /\ LoopInv' /\ PbufInv' /\ FramesInv'
    BY <2>1, TypeStep, LinkStep, PbufStep, FramesStep
  <2>3. Increasing(Pipeline')
    BY <2>1, <2>2, OrderStep
  <2>4. QED
    BY <2>2, <2>3 DEF LoopInvariant, IInv
<1>3. QED
  BY <1>1, <1>2, PTL DEF Spec

\* The variables of the loop keep their types: the pool's count stays within it.
THEOREM TypeCorrect == Spec => []TypeOK
<1>1. LoopInvariant => TypeOK
  BY DEF LoopInvariant, IInv
<1>2. QED
  BY <1>1, Inductive, PTL

\* Between two checks link_status, the interface and the event bits agree.
THEOREM LinkCopiesAgree == Spec => []CopiesAgree
<1>1. LoopInvariant => CopiesAgree
  BY CopiesThenAgree DEF LoopInvariant, IInv, CheckInv
<1>2. QED
  BY <1>1, Inductive, PTL

\* netif_set_link_up and netif_set_link_down are called only for a change.
THEOREM NoLinkEventTwice == Spec => []NoRepeatedLinkEvent
<1>1. LoopInvariant => NoRepeatedLinkEvent
  BY CopiesThenNoRepeat DEF LoopInvariant, IInv, CheckInv, TypeOK
<1>2. QED
  BY <1>1, Inductive, PTL

\* After the first link event there is always one.
THEOREM LinkEventStays == Spec => EventStays
<1>1. LoopInvariant /\ LoopInvariant' /\ [Next]_vars => [bits # {} => bits' # {}]_bits
  <2> SUFFICES ASSUME LoopInvariant, [Next]_vars, bits # {}, bits' # bits
               PROVE  bits' # {}
    OBVIOUS
  <2>1. CheckInv /\ LoopInv
    BY DEF LoopInvariant, IInv
  <2>2. CASE Check
    BY <2>1, <2>2, CheckKeepsEvent DEF Check, CheckInv
  <2>3. CASE Declare
    BY <2>3, DeclareKeepsEvent DEF Declare
  <2>4. QED
    BY <2>2, <2>3 DEF Next, vars, Arrive, Tick, Cable, CableMoves, Watcher, EventWait, Driver,
       EnterLoop, Top,
       AfterCheck, DrainTest, Receive, Alloc, Input, Drained, Sleep, TcpipTakes, TcpipFrees,
       linkVars, checkVars
<1>2. QED
  BY <1>1, Inductive, PTL DEF Spec, EventStays

\* Frames are passed to lwIP only while its interface has a link - but, where
\* the check time-out is longer than from boot to the loop, before the first
\* check that finds one.
THEOREM InputOnlyWithLink == Spec => []InputMeansLinkUp
<1>1. LoopInvariant => InputMeansLinkUp
  <2> SUFFICES ASSUME LoopInvariant, pc \in {"recv", "alloc", "input"}
               PROVE  (netifLink /\ linkStatus) \/ (early /\ bits = {})
    BY DEF InputMeansLinkUp
  <2>1. checkPc = "idle"
    BY DEF LoopInvariant, IInv, CheckInv, TypeOK, LinkTypeOK, CheckPcs
  <2>2. linkStatus \/ (early /\ bits = {})
    BY DEF LoopInvariant, IInv, LoopInv, Unchecked
  <2>3. netifLink = linkStatus
    BY <2>1 DEF LoopInvariant, IInv, CheckInv, CopiesInv
  <2>4. QED
    BY <2>2, <2>3
<1>2. QED
  BY <1>1, Inductive, PTL

\* Without the link check the link is up in all three places from the first
\* round on.
THEOREM LinkStaysUp == Spec => []LinkAlwaysUp
<1>1. LoopInvariant => LinkAlwaysUp
  <2> SUFFICES ASSUME LoopInvariant, ~linkChecked, pc # "enter"
               PROVE  netifLink /\ linkStatus /\ bits = {"LINK_UP"}
    BY DEF LinkAlwaysUp
  <2>1. linkStatus /\ checkPc \in CheckPcs
    BY DEF LoopInvariant, IInv, LoopInv, TypeOK, LinkTypeOK
  <2>2. checkPc = "idle"
    BY <2>1 DEF LoopInvariant, IInv, CheckInv, LoopInv, CheckPcs
  <2>3. QED
    BY <2>1, <2>2 DEF LoopInvariant, IInv, CheckInv, CopiesInv, BitsFor
<1>2. QED
  BY <1>1, Inductive, PTL

\* A task released from a wait for a link event finds the interface in the state
\* it waited for, for any number of tasks.
THEOREM LinkReleaseTruthful == Spec => WaiterFindsLink
<1>1. Init => WatchInv
  BY WatchStart DEF Init
<1>2. LoopInvariant /\ WatchInv /\ [Next]_vars => WatchInv'
  BY WatchStep DEF LoopInvariant, IInv, TypeOK
<1>3. LoopInvariant /\ WatchInv /\ [Next]_vars => ReleaseFindsLink
  <2> SUFFICES ASSUME LoopInvariant, WatchInv, [Next]_vars PROVE ReleaseFindsLink
    OBVIOUS
  <2>1. LinkTypeOK /\ CopiesInv
    BY DEF LoopInvariant, IInv, CheckInv, TypeOK
  <2>2. CASE Check
    BY <2>1, <2>2, CheckReleases DEF Check
  <2>3. CASE Declare
    BY <2>1, <2>3, DeclareReleases DEF Declare
  <2>4. CASE Watcher
    BY <2>1, <2>4, WaitReleases DEF Watcher
  <2>5. CASE UNCHANGED watch
    BY <2>5 DEF ReleaseFindsLink
  <2>6. QED
    BY <2>2, <2>3, <2>4, <2>5 DEF Next, vars, Arrive, Tick, Cable, CableMoves, Driver,
       EnterLoop, Top, AfterCheck, DrainTest, Receive, Alloc, Input, Drained, Sleep,
       TcpipTakes, TcpipFrees, linkVars, checkVars
<1>4. ReleaseFindsLink => [ReleaseFindsLink]_watch
  OBVIOUS
<1>5. QED
  BY <1>1, <1>2, <1>3, <1>4, Inductive, PTL DEF Spec, WaiterFindsLink, ReleaseFindsLink

\* No task stays blocked in a wait for the link state that the driver knows,
\* for any number of tasks - but in a W5X00_WAIT_LINK_DOWN before the first
\* link (link_down_at_start).
THEOREM NoForgottenWatcher == Spec => []NobodyForgotten
<1>1. Init => WatchInv
  BY WatchStart DEF Init
<1>2. LoopInvariant /\ WatchInv /\ [Next]_vars => WatchInv'
  BY WatchStep DEF LoopInvariant, IInv, TypeOK
<1>3. LoopInvariant /\ WatchInv => NobodyForgotten
  BY WatchThenNobody DEF LoopInvariant, IInv, CheckInv
<1> QED
  BY <1>1, <1>2, <1>3, Inductive, PTL DEF Spec

\* No pbuf is lost and none is freed twice.
THEOREM PbufsAccounted == Spec => []PbufsConserved
<1>1. LoopInvariant => PbufsConserved
  BY DEF LoopInvariant, IInv, PbufInv
<1>2. QED
  BY <1>1, Inductive, PTL

\* Frames reach lwIP in the order of their arrival, each at most once.
THEOREM FramesInOrder == Spec => []InOrder
<1>1. LoopInvariant => InOrder
  BY DEF LoopInvariant, Increasing, InOrder
<1>2. QED
  BY <1>1, Inductive, PTL

===============================================================================
