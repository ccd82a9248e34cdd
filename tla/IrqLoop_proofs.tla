---------------------------- MODULE IrqLoop_proofs -----------------------------
(***************************************************************************)
(* Proofs about IrqLoop, for every build and any memory of the chip: the   *)
(* pin is always served where sends do not time out, the driver never goes *)
(* to sleep on a frame without a wake-up on its way, and the copies of the *)
(* link state are kept in step here too.                                   *)
(***************************************************************************)
EXTENDS IrqLoop, LinkStatus_proofs

-----------------------------------------------------------------------------
(* The inductive invariant.                                                  *)

\* In the builds of PinServed only frames raise events, and the handler clears
\* what it has read: the pin is low as long as a call is due, or a handler has
\* not cleared the event yet.
PinInv ==
    ~build.timeouts =>
      /\ ir \subseteq {"RECV"}
      /\ isr \in {"idle", "notify"} => (edge <=> ir # {})
      /\ isr = "clear" => ir \subseteq isrSeen /\ ~edge /\ ir # {}

\* A wake-up that will make the driver read the length again.
OnItsWay == pending \/ isr # "idle" \/ "RECV" \in ir

\* Where the driver is past its last look at the chip: what has come since then
\* has sent a wake-up.
SleepInv ==
    /\ pc = "take" => (held > 0 => OnItsWay)
    /\ pc \in {"top", "check", "drain"} /\ ~packLen => (held > 0 => OnItsWay)

\* The check runs at one place of the loop, the declaration before it, and the
\* driver hangs in one of the two.
LinkInv ==
    /\ CopiesInv
    /\ checkPc \in {"set_link", "set_bit", "clear_bit", "save"} =>
          build.check /\ pc \in {"check", "hung"}
    /\ checkPc \in {"declare_bit", "declare_status"} =>
          ~build.check /\ pc \in {"enter", "hung"}
    /\ pc = "check" => build.check
    /\ pc = "enter" /\ checkPc = "idle" /\ ~linkStatus => bits = {}
    /\ pc = "hung" => checkPc # "idle"
    /\ ~build.check /\ pc \notin {"enter", "hung"} => linkStatus

IInv == TypeOK /\ PinInv /\ SleepInv /\ LinkInv

-----------------------------------------------------------------------------
(* Types.                                                                    *)

\* Every step keeps the types of the variables of the link.
LEMMA LinkTypeStep == LinkTypeOK /\ [Next]_vars => LinkTypeOK'
<1> SUFFICES ASSUME LinkTypeOK, [Next]_vars PROVE LinkTypeOK'
  OBVIOUS
<1>1. CASE UNCHANGED linkVars
  BY <1>1 DEF linkVars, checkVars, LinkTypeOK
<1>2. CASE Cable
  BY <1>2, CableTyped DEF Cable
<1>3. CASE Check
  BY <1>3, CheckTyped DEF Check
<1>4. CASE Declare
  BY <1>4, DeclareTyped DEF Declare
<1> QED
  BY <1>1, <1>2, <1>3, <1>4 DEF Next, vars, Arrive, SendTimesOut, SenderClears, Driver,
     EnterLoop, Top, DrainTest, Receive, Drained, Take, Length, Handler, HandlerEnters,
     HandlerBlocks, HandlerClears, HandlerNotifies

LEMMA TypeStep == TypeOK /\ [Next]_vars => TypeOK'
<1> SUFFICES ASSUME TypeOK, [Next]_vars PROVE TypeOK'
  OBVIOUS
<1>1. LinkTypeOK'
  BY LinkTypeStep DEF TypeOK
<1>2. ChipFrames \in Nat
  BY IrqAssumption
<1>3. CASE Arrive
  BY <1>1, <1>2, <1>3 DEF Arrive, Raise, drvVars, TypeOK
<1>4. CASE SendTimesOut \/ SenderClears \/ Cable
  BY <1>1, <1>4 DEF SendTimesOut, SenderClears, Raise, Cable, drvVars, irqVars, TypeOK
<1>5. CASE Declare \/ EnterLoop \/ Top \/ Check \/ DrainTest \/ Drained \/ Take
             \/ Length
  <2>1. build' \in Builds
    BY <1>5 DEF Declare, EnterLoop, Top, Check, DrainTest, Drained, Take, Length, Go,
       TypeOK
  <2>2. pc' \in {"enter", "top", "check", "drain", "recv", "drained", "take", "length",
                 "hung"}
    BY <1>5 DEF Declare, EnterLoop, Top, Check, DrainTest, Drained, Take, Length, Go
  <2>3. notify' \in BOOLEAN
    BY <1>5, Zenon DEF Declare, EnterLoop, Top, Check, DrainTest, Drained, Take, Length,
       TypeOK
  <2>4. packLen' \in BOOLEAN
    <3>1. (held > 0) \in BOOLEAN
      OBVIOUS
    <3>2. UNCHANGED packLen \/ ReadLength
      BY <1>5, Zenon DEF Declare, EnterLoop, Top, Check, DrainTest, Drained, Take, Length
    <3> QED
      BY <3>1, <3>2, Zenon DEF ReadLength, TypeOK
  <2>5. UNCHANGED <<held, ir, edge, isr, isrSeen>> /\ pending' \in BOOLEAN
    BY <1>5 DEF Declare, EnterLoop, Top, Check, DrainTest, Drained, Take, Length, irqVars,
       TypeOK
  <2> QED
    BY <1>1, <2>1, <2>2, <2>3, <2>4, <2>5 DEF TypeOK
<1>6. CASE Receive
  BY <1>1, <1>2, <1>6 DEF Receive, Go, irqVars, TypeOK
<1>7. CASE Handler
  BY <1>1, <1>7 DEF Handler, HandlerEnters, HandlerBlocks, HandlerClears, HandlerNotifies,
     drvVars, TypeOK
<1>8. CASE UNCHANGED vars
  BY <1>1, <1>8 DEF vars, drvVars, irqVars, TypeOK
<1> QED
  BY <1>3, <1>4, <1>5, <1>6, <1>7, <1>8 DEF Next, Driver

-----------------------------------------------------------------------------
(* The pin.                                                                  *)

\* The driver's own steps leave the pin alone.
LEMMA DriverLeavesPin == Driver => UNCHANGED <<build, ir, edge, isr, isrSeen>>
  BY DEF Driver, Declare, EnterLoop, Top, Check, DrainTest, Receive, Drained, Take,
         Length, Go, irqVars

LEMMA PinStep == TypeOK /\ PinInv /\ [Next]_vars => PinInv'
<1> SUFFICES ASSUME TypeOK, PinInv, [Next]_vars PROVE PinInv'
  OBVIOUS
<1> USE DEF PinInv
<1>1. CASE Arrive
  BY <1>1 DEF Arrive, Raise, TypeOK
<1>2. CASE SendTimesOut
  BY <1>2 DEF SendTimesOut
<1>3. CASE SenderClears
  BY <1>3 DEF SenderClears
<1>4. CASE Driver
  BY <1>4, DriverLeavesPin
<1>5. CASE HandlerEnters \/ HandlerBlocks
  BY <1>5 DEF HandlerEnters, HandlerBlocks
<1>6. CASE HandlerClears
  BY <1>6 DEF HandlerClears
<1>7. CASE HandlerNotifies
  BY <1>7 DEF HandlerNotifies
<1>8. CASE Cable \/ UNCHANGED vars
  BY <1>8 DEF Cable, vars, irqVars
<1> QED
  BY <1>1, <1>2, <1>3, <1>4, <1>5, <1>6, <1>7, <1>8 DEF Next, Handler

-----------------------------------------------------------------------------
(* The sleep.                                                                *)

LEMMA SleepStep == TypeOK /\ SleepInv /\ [Next]_vars => SleepInv'
<1> SUFFICES ASSUME TypeOK, SleepInv, [Next]_vars PROVE SleepInv'
  OBVIOUS
<1> USE DEF SleepInv, OnItsWay
<1>1. CASE Arrive
  BY <1>1 DEF Arrive, Raise, drvVars
<1>2. CASE SendTimesOut \/ SenderClears \/ Cable
  BY <1>2 DEF SendTimesOut, SenderClears, Raise, Cable, drvVars, irqVars
<1>3. CASE Declare
  BY <1>3 DEF Declare, Go
<1>4. CASE EnterLoop \/ Drained \/ Length
  BY <1>4 DEF EnterLoop, Drained, Length, Go, ReadLength, TypeOK
<1>5. CASE Top \/ Check \/ DrainTest
  BY <1>5 DEF Top, Check, DrainTest, Go, irqVars
<1>6. CASE Receive \/ Take
  BY <1>6 DEF Receive, Take, Go
<1>7. CASE HandlerEnters \/ HandlerBlocks
  BY <1>7 DEF HandlerEnters, HandlerBlocks, drvVars
<1>8. CASE HandlerClears \/ HandlerNotifies
  BY <1>8 DEF HandlerClears, HandlerNotifies, drvVars
<1>9. CASE UNCHANGED vars
  BY <1>9 DEF vars, drvVars, irqVars
<1> QED
  BY <1>1, <1>2, <1>3, <1>4, <1>5, <1>6, <1>7, <1>8, <1>9 DEF Next, Driver, Handler

-----------------------------------------------------------------------------
(* The link.                                                                 *)

LEMMA LinkStep == TypeOK /\ LinkInv /\ [Next]_vars => LinkInv'
<1> SUFFICES ASSUME TypeOK, LinkInv, [Next]_vars PROVE LinkInv'
  OBVIOUS
<1>1. CASE UNCHANGED <<linkVars, build, pc>>
  BY <1>1, CopiesUntouched DEF linkVars, checkVars, LinkInv
<1>2. CASE Cable
  BY <1>2, CopiesUntouched DEF Cable, CableMoves, checkVars, drvVars, LinkInv
<1>3. CASE Check
  <2>1. CopiesInv'
    BY <1>3, CheckKeepsCopies DEF Check, LinkInv, TypeOK
  <2>2. pc = "check" /\ pc' = (IF checkPc' = "idle" THEN "drain" ELSE "check")
        /\ build' = build
    BY <1>3 DEF Check, Go
  <2>3. checkPc' \in {"idle", "set_link", "set_bit", "clear_bit", "save"}
    BY <1>3 DEF Check, CheckLink, ReadLink, ReadLinkFails, SetNetifLink, SetNewBit,
       ClearOldBit, SaveStatus, At
  <2> QED
    BY <2>1, <2>2, <2>3 DEF LinkInv
<1>4. CASE Declare
  <2>1. pc = "enter" /\ pc' = pc /\ build' = build /\ ~build.check /\ ~linkStatus /\ DeclareUp
    BY <1>4 DEF Declare, Go
  <2>2. CopiesInv'
    BY <2>1, DeclareKeepsCopies DEF LinkInv
  <2>3. checkPc' \in {"declare_bit", "declare_status"} \/ (checkPc' = "idle" /\ linkStatus')
    BY <2>1 DEF DeclareUp, At
  <2> QED
    BY <2>1, <2>2, <2>3 DEF LinkInv
<1>5. CASE EnterLoop
  <2>1. /\ pc = "enter" /\ pc' = "top" /\ (build.check \/ linkStatus)
        /\ UNCHANGED <<build, checkPc, linkStatus, bits, seen, netifLink>>
    BY <1>5 DEF EnterLoop, Go, linkVars, checkVars
  <2>2. CopiesInv'
    BY <2>1, CopiesUntouched DEF LinkInv
  <2>3. checkPc \in {"declare_bit", "declare_status"} => ~linkStatus
    BY DEF LinkInv, CopiesInv
  <2> QED
    BY <2>1, <2>2, <2>3 DEF LinkInv
<1>6. CASE Top \/ DrainTest \/ Receive \/ Drained \/ Take \/ Length
  <2>1. CopiesInv' /\ UNCHANGED <<checkPc, linkStatus, bits, build>>
    BY <1>6, CopiesUntouched DEF Top, DrainTest, Receive, Drained, Take, Length, Go,
       linkVars, checkVars, LinkInv
  <2> QED
    BY <1>6, <2>1 DEF Top, DrainTest, Receive, Drained, Take, Length, Go, LinkInv
<1>7. CASE HandlerClears /\ pc' # pc
  <2>1. /\ pc' = "hung" /\ pc \in {"enter", "check"} /\ checkPc \in {"set_bit", "declare_bit"}
        /\ UNCHANGED <<build, checkPc, linkStatus, bits, seen, netifLink>>
    BY <1>7 DEF HandlerClears, Announcing, linkVars, checkVars
  <2>2. CopiesInv'
    BY <2>1, CopiesUntouched DEF LinkInv
  <2> QED
    BY <2>1, <2>2 DEF LinkInv
<1>8. CASE HandlerClears /\ pc' = pc
  BY <1>1, <1>8 DEF HandlerClears
<1> QED
  BY <1>1, <1>2, <1>3, <1>4, <1>5, <1>6, <1>7, <1>8 DEF Next, vars, Arrive, SendTimesOut,
     SenderClears, Driver, Handler, HandlerEnters, HandlerBlocks, HandlerNotifies, drvVars

\* Only the check and the declaration before the loop set or clear a link event.
LEMMA EventStep == LinkInv /\ [Next]_vars /\ bits # {} => bits' # {}
<1> SUFFICES ASSUME LinkInv, [Next]_vars, bits # {} PROVE bits' # {}
  OBVIOUS
<1>1. CASE Check
  BY <1>1, CheckKeepsEvent DEF Check, LinkInv
<1>2. CASE Declare
  BY <1>2, DeclareKeepsEvent DEF Declare
<1> QED
  BY <1>1, <1>2 DEF Next, vars, Arrive, SendTimesOut, SenderClears, Cable, CableMoves, Driver,
     EnterLoop, Top, DrainTest, Receive, Drained, Take, Length, Handler, HandlerEnters,
     HandlerBlocks, HandlerClears, HandlerNotifies, linkVars, checkVars

-----------------------------------------------------------------------------
(* The theorems.                                                             *)

\* The strengthened invariant: types, what the pin and the handler owe each
\* other, what has come since the driver last looked, and where the copies of
\* the link state are.
THEOREM Inductive == Spec => []IInv
<1>1. Init => IInv
  <2> SUFFICES ASSUME Init PROVE IInv
    OBVIOUS
  <2>1. LinkTypeOK
    BY DEF Init, LinkInit, LinkTypeOK, CheckPcs
  <2>2. held \in 0 .. ChipFrames
    BY IrqAssumption DEF Init
  <2>3. TypeOK
    BY <2>1, <2>2, Zenon DEF Init, TypeOK
  <2>4. PinInv /\ SleepInv
    BY DEF Init, PinInv, SleepInv
  <2>5. LinkInv
    BY CopiesStart DEF Init, LinkInit, LinkInv
  <2> QED
    BY <2>3, <2>4, <2>5 DEF IInv
<1>2. IInv /\ [Next]_vars => IInv'
  BY TypeStep, PinStep, SleepStep, LinkStep DEF IInv
<1> QED
  BY <1>1, <1>2, PTL DEF Spec

\* Every variable of the interrupt loop keeps its type.
THEOREM TypeCorrect == Spec => []TypeOK
  BY Inductive, PTL DEF IInv

\* Where sends do not time out, a pin that is low always has a call of the handler
\* on its way ("rearm interrupt").
THEOREM PinIsServed == Spec => []PinServed
<1>1. IInv => PinServed
  BY DEF IInv, TypeOK, PinInv, PinServed
<1> QED
  BY <1>1, Inductive, PTL

\* ulTaskNotifyTake is never entered for good with a frame in the chip.
THEOREM NoLostWakeUp == Spec => []NoSleepOnFrames
<1>1. IInv => NoSleepOnFrames
  BY DEF IInv, SleepInv, OnItsWay, NoSleepOnFrames
<1> QED
  BY <1>1, Inductive, PTL

\* Between two checks link_status, the interface and the event bits agree, and
\* netif_set_link_up and netif_set_link_down are called only for a change, in
\* interrupt builds too.
THEOREM LinkCopiesAgree == Spec => [](CopiesAgree /\ NoRepeatedLinkEvent)
<1>1. IInv => CopiesAgree /\ NoRepeatedLinkEvent
  BY CopiesThenAgree, CopiesThenNoRepeat DEF IInv, LinkInv, TypeOK
<1> QED
  BY <1>1, Inductive, PTL

\* After the first link event there is always one.
THEOREM LinkEventStays == Spec => EventStays
<1>1. IInv /\ [Next]_vars => [bits # {} => bits' # {}]_bits
  BY EventStep DEF IInv
<1> QED
  BY <1>1, Inductive, PTL DEF Spec, EventStays

\* Without the link check the link is up in all three places from the first
\* round on ("the link is always treated as UP"); the driver may hang before.
LinkAlwaysUp ==
    ~build.check /\ pc \notin {"enter", "hung"} =>
       netifLink /\ linkStatus /\ bits = {"LINK_UP"}

\* So it is in interrupt builds without the check.
THEOREM LinkStaysUp == Spec => []LinkAlwaysUp
<1>1. IInv => LinkAlwaysUp
  <2> SUFFICES ASSUME IInv, ~build.check, pc \notin {"enter", "hung"}
               PROVE  netifLink /\ linkStatus /\ bits = {"LINK_UP"}
    BY DEF LinkAlwaysUp
  <2>1. linkStatus /\ checkPc = "idle"
    BY DEF IInv, LinkInv, TypeOK, LinkTypeOK, CheckPcs
  <2> QED
    BY <2>1 DEF IInv, LinkInv, CopiesInv, BitsFor
<1> QED
  BY <1>1, Inductive, PTL
===============================================================================
