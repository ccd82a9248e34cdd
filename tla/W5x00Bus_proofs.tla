--------------------------- MODULE W5x00Bus_proofs ----------------------------
(***************************************************************************)
(* Proofs about W5x00Bus: for any set of tasks and every build and board   *)
(* the lock makes a register access whole, so that the bus implements      *)
(* AtomicBus, no header outlives its access, and a failed opening gives    *)
(* back what it took.                                                      *)
(***************************************************************************)
EXTENDS W5x00Bus, SequenceTheorems, TLAPS

-----------------------------------------------------------------------------
(* The inductive invariant.                                                  *)

Resources == {"slot", "program", "sm", "dma_out", "dma_in"}
Pcs == {"idle", "select", "header", "data", "deselect", "unlock", "stuck"}
Waiting == {"idle", "stuck"}
Piece == [piece : {"header", "data"}, of : Accesses]

Types ==
    /\ build \in Builds /\ board \in Boards
    /\ openPc \in {"start", "program", "sm", "dma", "open", "failed", "panic"}
    /\ claimed \subseteq Resources
    /\ owner \in Actors \cup {Nobody}
    /\ pc \in [Actors -> Pcs]
    /\ access \in [Actors -> Accesses \cup {NoAccess}]
    /\ selected \in BOOLEAN

\* What the opening holds at each of its steps.
OpenInv ==
    /\ openPc = "start" => claimed = {}
    /\ openPc \in {"program", "sm"} => claimed = {"slot"}
    /\ openPc = "dma" => claimed = {"slot", "sm", "program"}
    /\ openPc = "failed" => claimed \subseteq {"slot"}

\* Who is inside an access has the lock, and only who is.
LockInv ==
    \A u \in Actors : pc[u] \notin Waiting <=> owner = u

\* Nothing has crossed the wire and nothing is kept.
Quiet == stash = <<>> /\ frame = <<>>

\* What the chip has taken and what is kept at each place of an access.
WireAt(u) ==
    /\ pc[u] \notin Waiting => access[u] \in Accesses
    /\ pc[u] \in {"select", "unlock"} => ~selected /\ Quiet
    /\ pc[u] = "header" => selected /\ Quiet
    /\ pc[u] = "data" =>
         /\ selected
         /\ stash = IF build.bus = "pio" THEN HeaderOf(access[u]) ELSE <<>>
         /\ frame = IF build.bus = "pio" THEN <<>> ELSE HeaderOf(access[u])
    /\ pc[u] = "deselect" =>
         /\ selected /\ stash = <<>>
         /\ frame = HeaderOf(access[u]) \o DataOf(access[u])

WireInv ==
    /\ owner = Nobody => ~selected /\ Quiet
    /\ \A u \in Actors : WireAt(u)

IInv == Types /\ OpenInv /\ LockInv /\ WireInv

-----------------------------------------------------------------------------
(* Facts about the pieces on the wire.                                       *)

LEMMA Pieces ==
    ASSUME NEW a \in Accesses
    PROVE  /\ HeaderOf(a) \in Seq(Piece) /\ DataOf(a) \in Seq(Piece)
           /\ Len(HeaderOf(a)) = 1 /\ Len(DataOf(a)) = 1
           /\ HeaderOf(a) # <<>>
  BY DEF HeaderOf, DataOf, Piece

\* What a header and its data are, sent in any of the ways of the code.
LEMMA Joined ==
    ASSUME NEW a \in Accesses
    PROVE  /\ <<>> \o HeaderOf(a) = HeaderOf(a)
           /\ HeaderOf(a) \o <<>> = HeaderOf(a)
           /\ (<<>> \o <<>>) \o HeaderOf(a) = HeaderOf(a)
           /\ <<>> \o (HeaderOf(a) \o <<>>) = HeaderOf(a)
           /\ <<>> \o (HeaderOf(a) \o DataOf(a)) = HeaderOf(a) \o DataOf(a)
           /\ <<>> \o ((<<>> \o HeaderOf(a)) \o DataOf(a)) = HeaderOf(a) \o DataOf(a)
           /\ <<>> \o ((HeaderOf(a) \o <<>>) \o DataOf(a)) = HeaderOf(a) \o DataOf(a)
           /\ HeaderOf(a) \o (<<>> \o DataOf(a)) = HeaderOf(a) \o DataOf(a)
  <1>1. HeaderOf(a) \in Seq(Piece) /\ DataOf(a) \in Seq(Piece)
    BY Pieces
  <1>2. HeaderOf(a) \o DataOf(a) \in Seq(Piece)
    BY <1>1, ConcatProperties
  <1>3. \A s \in Seq(Piece) : <<>> \o s = s /\ s \o <<>> = s
    BY ConcatEmptySeq
  <1>4. <<>> \in Seq(Piece)
    OBVIOUS
  <1>5. <<>> \o <<>> = <<>>
    BY <1>3, <1>4
  <1> QED
    BY <1>1, <1>2, <1>3, <1>5, Zenon

\* The user of the lock is alone in an access.
LEMMA Alone ==
    ASSUME IInv, NEW u \in Actors, pc[u] \notin Waiting
    PROVE  owner = u /\ \A v \in Actors \ {u} : pc[v] \in Waiting
  BY DEF IInv, LockInv

-----------------------------------------------------------------------------
(* Every step keeps the invariant.                                           *)

LEMMA InitIInv == Init => IInv
  <1> SUFFICES ASSUME Init PROVE IInv
    OBVIOUS
  <1>1. Types
    BY DEF Init, Types, Resources, Pcs
  <1>2. OpenInv
    BY DEF Init, OpenInv
  <1>3. LockInv
    BY BusAssumption DEF Init, LockInv, Waiting, Actors, Nobody
  <1>4. WireInv
    BY DEF Init, WireInv, WireAt, Quiet, Waiting
  <1> QED
    BY <1>1, <1>2, <1>3, <1>4 DEF IInv

\* The opening touches nothing of an access.
LEMMA OpenKeepsAccess ==
    ASSUME IInv, UNCHANGED <<build, board, accessVars>>
    PROVE  LockInv' /\ WireInv'
  BY DEF IInv, LockInv, WireInv, WireAt, Quiet, accessVars

LEMMA OpenKeeps ==
    ASSUME IInv, Open
    PROVE  IInv'
  <1> DEFINE S == {"start", "program", "sm", "dma", "open", "failed", "panic"}
  <1> USE DEF Opening
  <1>1. UNCHANGED <<build, board, accessVars>>
    BY DEF Open, OpenSpi, OpenSlot, FindPio, ClaimSm, ClaimDma, SetActive
  <1>2. openPc' \in S /\ claimed' \subseteq Resources /\ OpenInv'
    <2>1. Channels \subseteq {"dma_out", "dma_in"}
      BY DEF Channels
    <2>2. claimed \subseteq Resources /\ OpenInv
      BY DEF IInv, Types
    <2>3. CASE OpenSpi
      BY <2>1, <2>3 DEF OpenSpi, OpenInv, Resources
    <2>4. CASE OpenSlot
      BY <2>4 DEF OpenSlot, OpenInv, Resources
    <2>5. CASE FindPio
      BY <2>2, <2>5 DEF FindPio, OpenInv, Resources
    <2>6. CASE ClaimSm
      BY <2>2, <2>6 DEF ClaimSm, Close, OpenInv, Resources
    <2>7. CASE ClaimDma
      BY <2>1, <2>2, <2>7 DEF ClaimDma, Close, OpenInv, Resources
    <2>8. CASE SetActive
      BY <2>2, <2>8 DEF SetActive, OpenInv, Resources
    <2> QED
      BY <2>3, <2>4, <2>5, <2>6, <2>7, <2>8 DEF Open
  <1>3. LockInv' /\ WireInv'
    BY <1>1, OpenKeepsAccess
  <1>4. Types'
    BY <1>1, <1>2 DEF IInv, Types, accessVars
  <1> QED
    BY <1>2, <1>3, <1>4 DEF IInv

\* A step inside an access keeps the lock where it is, and matters to its user
\* only: what remains to be shown is the wire at the place it reaches.
LEMMA InsideAccess ==
    ASSUME IInv, NEW u \in Actors, NEW from \in Pcs \ Waiting, NEW to \in Pcs \ Waiting,
           Step(u, from, to), UNCHANGED <<owner, access>>, selected' \in BOOLEAN,
           WireAt(u)'
    PROVE  IInv'
  <1>1. owner = u /\ \A v \in Actors \ {u} : pc[v] \in Waiting
    BY Alone DEF Step
  <1>2. pc \in [Actors -> Pcs] /\ pc' = [pc EXCEPT ![u] = to]
    BY DEF IInv, Types, Step
  <1>3. pc'[u] = to /\ \A v \in Actors \ {u} : pc'[v] = pc[v]
    BY <1>2
  <1>4. Types' /\ OpenInv'
    BY <1>2 DEF IInv, Types, OpenInv, Step, openVars
  <1>5. LockInv'
    BY <1>1, <1>3 DEF LockInv
  <1>6. WireInv'
    <2>1. owner' # Nobody
      BY <1>1, BusAssumption DEF Nobody, Actors
    <2>2. \A v \in Actors \ {u} : WireAt(v)'
      BY <1>1, <1>3 DEF WireAt, Waiting
    <2> QED
      BY <2>1, <2>2 DEF WireInv
  <1> QED
    BY <1>4, <1>5, <1>6 DEF IInv

LEMMA LockKeeps ==
    ASSUME IInv, NEW u \in Actors, Lock(u)
    PROVE  IInv'
  <1>1. PICK a \in Accesses : access' = [access EXCEPT ![u] = a]
    BY DEF Lock
  <1>2. /\ pc \in [Actors -> Pcs] /\ pc' = [pc EXCEPT ![u] = "select"]
        /\ access \in [Actors -> Accesses \cup {NoAccess}]
    BY DEF IInv, Types, Lock, Step
  <1>3. pc'[u] = "select" /\ access'[u] = a /\ \A v \in Actors \ {u} : pc'[v] = pc[v]
    BY <1>1, <1>2
  <1>4. \A v \in Actors : pc[v] \in Waiting
    BY BusAssumption DEF IInv, LockInv, Lock, Actors, Nobody
  <1>5. owner' = u /\ u # Nobody
    BY BusAssumption DEF Lock, Actors, Nobody
  <1>6. Types' /\ OpenInv'
    <2>1. pc' \in [Actors -> Pcs]
      BY <1>2 DEF Pcs
    <2>2. access' \in [Actors -> Accesses \cup {NoAccess}]
      BY <1>1, <1>2
    <2> QED
      BY <1>5, <2>1, <2>2 DEF IInv, Types, OpenInv, Lock, Step, openVars
  <1>7. LockInv'
    BY <1>3, <1>4, <1>5 DEF LockInv, Waiting
  <1>8. WireInv'
    <2>1. ~selected' /\ Quiet'
      BY DEF IInv, WireInv, Lock, Quiet
    <2>2. WireAt(u)'
      BY <1>3, <2>1 DEF WireAt
    <2>3. \A v \in Actors \ {u} : WireAt(v)'
      BY <1>3, <1>4 DEF WireAt, Waiting
    <2> QED
      BY <1>5, <2>2, <2>3 DEF WireInv
  <1> QED
    BY <1>6, <1>7, <1>8 DEF IInv

LEMMA HandlerBlocksKeeps ==
    ASSUME IInv, HandlerBlocks
    PROVE  IInv'
  <1>1. pc \in [Actors -> Pcs] /\ Handler \in Actors
        /\ pc[Handler] = "idle" /\ pc' = [pc EXCEPT ![Handler] = "stuck"]
    BY DEF IInv, Types, HandlerBlocks, Step, Actors
  <1>2. pc'[Handler] = "stuck" /\ \A v \in Actors \ {Handler} : pc'[v] = pc[v]
    BY <1>1
  <1>3. Types' /\ OpenInv'
    <2>1. pc' \in [Actors -> Pcs]
      BY <1>1 DEF Pcs
    <2> QED
      BY <2>1 DEF IInv, Types, OpenInv, HandlerBlocks, Step, openVars
  <1>4. LockInv'
    BY <1>1, <1>2 DEF IInv, LockInv, Waiting, HandlerBlocks
  <1>5. WireInv'
    <2>1. \A v \in Actors : WireAt(v)'
      BY <1>1, <1>2 DEF IInv, WireInv, WireAt, Waiting, Quiet, HandlerBlocks, Step
    <2> QED
      BY <2>1 DEF IInv, WireInv, Quiet, HandlerBlocks
  <1> QED
    BY <1>3, <1>4, <1>5 DEF IInv

LEMMA SelectKeeps ==
    ASSUME IInv, NEW u \in Actors, Select(u)
    PROVE  IInv'
  <1>1. pc'[u] = "header"
    BY DEF IInv, Types, Select, Step
  <1>2. access[u] \in Accesses /\ Quiet
    BY DEF IInv, WireInv, WireAt, Waiting, Select, Step
  <1>3. WireAt(u)'
    BY <1>1, <1>2 DEF WireAt, Quiet, Select
  <1> QED
    BY <1>3, InsideAccess DEF Select, Pcs, Waiting

LEMMA DeselectKeeps ==
    ASSUME IInv, NEW u \in Actors, Deselect(u)
    PROVE  IInv'
  <1>1. pc'[u] = "unlock"
    BY DEF IInv, Types, Deselect, Step
  <1>2. access[u] \in Accesses /\ stash = <<>>
    BY DEF IInv, WireInv, WireAt, Waiting, Deselect, Step
  <1>3. WireAt(u)'
    BY <1>1, <1>2 DEF WireAt, Quiet, Deselect
  <1> QED
    BY <1>3, InsideAccess DEF Deselect, Pcs, Waiting

LEMMA UnlockKeeps ==
    ASSUME IInv, NEW u \in Actors, Unlock(u)
    PROVE  IInv'
  <1>1. owner = u /\ \A v \in Actors \ {u} : pc[v] \in Waiting
    BY Alone DEF Unlock, Step, Waiting
  <1>2. pc \in [Actors -> Pcs] /\ pc' = [pc EXCEPT ![u] = "idle"]
    BY DEF IInv, Types, Unlock, Step
  <1>3. \A v \in Actors : pc'[v] \in Waiting
    BY <1>1, <1>2 DEF Waiting
  <1>4. Types' /\ OpenInv'
    <2>1. pc' \in [Actors -> Pcs]
      BY <1>2 DEF Pcs
    <2>2. access' \in [Actors -> Accesses \cup {NoAccess}]
      BY DEF IInv, Types, Unlock
    <2> QED
      BY <2>1, <2>2 DEF IInv, Types, OpenInv, Unlock, Step, openVars
  <1>5. LockInv'
    BY <1>3, BusAssumption DEF LockInv, Unlock, Actors, Nobody
  <1>6. WireInv'
    <2>1. ~selected' /\ Quiet'
      BY DEF IInv, WireInv, WireAt, Quiet, Unlock, Step
    <2> QED
      BY <1>3, <2>1 DEF WireInv, WireAt, Waiting
  <1> QED
    BY <1>4, <1>5, <1>6 DEF IInv

\* The header is kept where PIO has to send it with the data, and sent where
\* not; a register is written whole where bursts are registered.
LEMMA HeaderKeeps ==
    ASSUME IInv, NEW u \in Actors, Header(u)
    PROVE  IInv'
  <1> DEFINE a == access[u]
             whole == a.kind = "write" /\ build.bus # "spi"
             to == IF whole THEN "deselect" ELSE "data"
  <1>1. Step(u, "header", to) /\ UNCHANGED <<owner, access, selected, build>>
    BY DEF Header, Step
  <1>2. pc[u] = "header" /\ pc'[u] = to
    BY <1>1 DEF IInv, Types, Step
  <1>3. a \in Accesses /\ selected /\ stash = <<>> /\ frame = <<>>
    BY <1>2 DEF IInv, WireInv, WireAt, Waiting, Quiet
  <1>4. CASE build.bus = "pio" /\ whole
    <2>1. stash' = <<>> /\ frame' = frame \o ((stash \o HeaderOf(a)) \o DataOf(a))
      BY <1>3, <1>4 DEF Header, WriteBuffer, Wire, HeaderLen
    <2>2. frame' = HeaderOf(a) \o DataOf(a)
      BY <1>3, <2>1, Joined
    <2> QED
      BY <1>1, <1>2, <1>3, <1>4, <2>1, <2>2, InsideAccess DEF WireAt, Pcs, Waiting
  <1>5. CASE build.bus = "pio" /\ ~whole
    <2>1. stash' = HeaderOf(a) \o <<>> /\ frame' = frame
      <3>1. WriteBuffer(HeaderOf(a), <<>>, HeaderLen)
        <4>1. HeaderLen + 0 = HeaderLen
          BY DEF HeaderLen
        <4> QED
          BY <1>5, <4>1 DEF Header
      <3> QED
        BY <1>3, <3>1 DEF WriteBuffer
    <2>2. stash' = HeaderOf(a)
      BY <1>3, <2>1, Joined
    <2> QED
      BY <1>1, <1>2, <1>3, <1>5, <2>1, <2>2, InsideAccess DEF WireAt, Pcs, Waiting
  <1>6. CASE build.bus # "pio" /\ whole
    <2>1. stash' = <<>> /\ frame' = frame \o (HeaderOf(a) \o DataOf(a))
      BY <1>3, <1>6 DEF Header, Burst, Wire
    <2>2. frame' = HeaderOf(a) \o DataOf(a)
      BY <1>3, <2>1, Joined
    <2> QED
      BY <1>1, <1>2, <1>3, <1>6, <2>1, <2>2, InsideAccess DEF WireAt, Pcs, Waiting
  <1>7. CASE build.bus # "pio" /\ ~whole
    <2>1. stash' = <<>> /\ frame' = frame \o (HeaderOf(a) \o <<>>)
      BY <1>3, <1>7 DEF Header, Burst, Wire
    <2>2. frame' = HeaderOf(a)
      BY <1>3, <2>1, Joined
    <2> QED
      BY <1>1, <1>2, <1>3, <1>7, <2>1, <2>2, InsideAccess DEF WireAt, Pcs, Waiting
  <1> QED
    BY <1>4, <1>5, <1>6, <1>7

\* The data goes out behind the header, kept or sent, whatever its length.
LEMMA DataKeeps ==
    ASSUME IInv, NEW u \in Actors, Data(u)
    PROVE  IInv'
  <1> DEFINE a == access[u]
  <1>1. Step(u, "data", "deselect") /\ UNCHANGED <<owner, access, selected, build>>
    BY DEF Data, Step
  <1>2. pc[u] = "data" /\ pc'[u] = "deselect"
    BY <1>1 DEF IInv, Types, Step
  <1>3. /\ a \in Accesses /\ selected
        /\ stash = IF build.bus = "pio" THEN HeaderOf(a) ELSE <<>>
        /\ frame = IF build.bus = "pio" THEN <<>> ELSE HeaderOf(a)
    BY <1>2 DEF IInv, WireInv, WireAt, Waiting
  <1>4. stash' = <<>> /\ frame' = HeaderOf(a) \o DataOf(a)
    <2>1. CASE build.bus # "pio"
      <3>1. stash' = <<>> /\ frame' = frame \o (<<>> \o DataOf(a))
        BY <1>3, <2>1 DEF Data, Burst, Wire
      <3> QED
        BY <1>3, <2>1, <3>1, Joined
    <2>2. CASE build.bus = "pio" /\ a.kind \in {"read", "read_buf"}
      <3>1. stash' = <<>> /\ frame' = frame \o (stash \o DataOf(a))
        BY <1>3, <2>2 DEF Data, ReadBuffer, Wire
      <3> QED
        BY <1>3, <2>2, <3>1, Joined
    <2>3. CASE build.bus = "pio" /\ a.kind \notin {"read", "read_buf"}
      <3>1. stash # <<>>
        BY <1>3, <2>3, Pieces
      <3>2. stash' = <<>> /\ frame' = frame \o ((stash \o <<>>) \o DataOf(a))
        BY <1>3, <2>3, <3>1 DEF Data, WriteBuffer, Wire
      <3> QED
        BY <1>3, <2>3, <3>2, Joined
    <2> QED
      BY <2>1, <2>2, <2>3
  <1>5. WireAt(u)'
    BY <1>1, <1>2, <1>3, <1>4 DEF WireAt
  <1> QED
    BY <1>1, <1>3, <1>5, InsideAccess DEF IInv, Types, Pcs, Waiting

LEMMA NextKeeps == IInv /\ [Next]_vars => IInv'
  <1> SUFFICES ASSUME IInv, [Next]_vars PROVE IInv'
    OBVIOUS
  <1>1. CASE Open
    BY <1>1, OpenKeeps
  <1>2. CASE HandlerBlocks
    BY <1>2, HandlerBlocksKeeps
  <1>3. ASSUME NEW u \in Actors, Lock(u) \/ Access(u) PROVE IInv'
    BY <1>3, LockKeeps, SelectKeeps, HeaderKeeps, DataKeeps, DeselectKeeps, UnlockKeeps
       DEF Access
  <1>4. CASE UNCHANGED vars
    BY <1>4 DEF vars, openVars, accessVars, IInv, Types, OpenInv, LockInv, WireInv,
                WireAt, Quiet
  <1> QED
    BY <1>1, <1>2, <1>3, <1>4 DEF Next

\* The strengthened invariant: what the opening holds at each step, that who is
\* in an access has the lock, and what is kept and sent at each place of it.
THEOREM Inductive == Spec => []IInv
  <1>1. Init => IInv
    BY InitIInv
  <1>2. IInv /\ [Next]_vars => IInv'
    BY NextKeeps
  <1> QED
    BY <1>1, <1>2, PTL DEF Spec

-----------------------------------------------------------------------------
(* What follows from it.                                                     *)

\* Where nobody is in an access nothing is on its way.
LEMMA QuietOrOwned ==
    ASSUME IInv
    PROVE  Quiet \/ \E u \in Actors : /\ pc[u] = "data" \/ pc[u] = "deselect"
                                      /\ access[u] \in Accesses /\ WireAt(u)
  <1>1. CASE owner = Nobody
    BY <1>1 DEF IInv, WireInv
  <1>2. CASE owner # Nobody
    <2>1. owner \in Actors /\ pc[owner] \in Pcs \ Waiting /\ WireAt(owner)
      BY <1>2 DEF IInv, Types, LockInv, WireInv
    <2> QED
      BY <2>1 DEF WireAt, Waiting, Pcs
  <1> QED
    BY <1>1, <1>2

\* Every variable of the bus keeps its type.
THEOREM TypeCorrect == Spec => []TypeOK
  <1>1. IInv => TypeOK
    <2> SUFFICES ASSUME IInv PROVE TypeOK
      OBVIOUS
    <2>1. stash \in {<<>>} \cup {HeaderOf(a) : a \in Accesses}
      BY QuietOrOwned DEF WireAt, Quiet
    <2>2. Len(frame) <= 2
      <3>1. \A a \in Accesses : Len(HeaderOf(a)) = 1 /\ Len(HeaderOf(a) \o DataOf(a)) = 2
        BY DEF HeaderOf, DataOf
      <3>2. Len(<<>>) = 0
        OBVIOUS
      <3> QED
        BY <3>1, <3>2, QuietOrOwned DEF WireAt, Quiet
    <2> QED
      BY <2>1, <2>2 DEF IInv, Types, TypeOK, Resources, Pcs
  <1> QED
    BY <1>1, Inductive, PTL

\* What the chip has taken when its pin rises is the header and the data of the
\* access that ends: the lock keeps two users apart, in every build.
THEOREM AccessesAreWhole == Spec => []WholeAccess
  <1>1. IInv => WholeAccess
    BY DEF IInv, WireInv, WireAt, WholeAccess
  <1> QED
    BY <1>1, Inductive, PTL

\* A header that wiznet_spi_pio.c keeps belongs to the access under way.
THEOREM NoHeaderLeft == Spec => []NoStaleHeader
  <1>1. IInv => NoStaleHeader
    BY QuietOrOwned DEF WireAt, Quiet, NoStaleHeader
  <1> QED
    BY <1>1, Inductive, PTL

\* Whatever the board has left, a failed wiznet_spi_pio_open keeps nothing but
\* its slot.
THEOREM FailedOpenGivesBack == Spec => []FailedOpenReleases
  <1>1. IInv => FailedOpenReleases
    BY DEF IInv, OpenInv, FailedOpenReleases
  <1> QED
    BY <1>1, Inductive, PTL

-----------------------------------------------------------------------------
(* The bus implements AtomicBus.                                             *)

\* What the refinement mapping makes of the two variables of AtomicBus.
Request == [u \in Actors |-> IF pc[u] \in UnderWay THEN access[u] ELSE NoAccess]
Took == IF \E u \in Actors : pc[u] = "deselect" THEN frame ELSE <<>>

LEMMA Mapping ==
    /\ Atomic!Init <=> Request = [u \in Actors |-> NoAccess] /\ Took = <<>>
    /\ Atomic!Next <=> \E u \in Actors : Atomic!Begin(u) \/ Atomic!Serve(u) \/ Atomic!End(u)
    /\ \A u \in Actors :
         /\ Atomic!Begin(u) <=>
              /\ \A v \in Actors : Request[v] = NoAccess
              /\ \E a \in Accesses : Request' = [Request EXCEPT ![u] = a]
              /\ Took' = Took
         /\ Atomic!Serve(u) <=>
              /\ Request[u] # NoAccess /\ Took = <<>>
              /\ Took' = Atomic!Whole(Request[u])
              /\ Request' = Request
         /\ Atomic!End(u) <=>
              /\ Request[u] # NoAccess /\ Took # <<>>
              /\ Request' = [Request EXCEPT ![u] = NoAccess]
              /\ Took' = <<>>
  BY DEF Atomic!Init, Atomic!Next, Atomic!Begin, Atomic!Serve, Atomic!End, Request, Took

LEMMA WholeIsBoth ==
    ASSUME NEW a \in Accesses
    PROVE  /\ Atomic!Whole(a) = HeaderOf(a) \o DataOf(a)
           /\ HeaderOf(a) \o DataOf(a) # <<>>
           /\ a # NoAccess
  <1>1. a # NoAccess
    BY DEF Accesses, Kinds, NoAccess
  <1>2. Atomic!Whole(a) = HeaderOf(a) \o DataOf(a)
    BY DEF Atomic!Whole, HeaderOf, DataOf
  <1>3. HeaderOf(a) \o DataOf(a) # <<>>
    BY DEF HeaderOf, DataOf
  <1> QED
    BY <1>1, <1>2, <1>3

\* A step of u changes nothing that others have under way, and where u is inside
\* an access nobody else has any: then Request and Took depend on u alone.
LEMMA OneUnderWay ==
    ASSUME IInv, NEW u \in Actors, pc[u] \notin Waiting
    PROVE  /\ \A v \in Actors \ {u} : pc[v] \notin UnderWay
           /\ Request[u] = IF pc[u] \in UnderWay THEN access[u] ELSE NoAccess
           /\ \A v \in Actors \ {u} : Request[v] = NoAccess
           /\ Took = IF pc[u] = "deselect" THEN frame ELSE <<>>
  <1>1. \A v \in Actors \ {u} : pc[v] \in Waiting
    BY Alone
  <1>2. \A v \in Actors \ {u} : pc[v] \notin UnderWay /\ pc[v] # "deselect"
    BY <1>1 DEF Waiting, UnderWay
  <1> QED
    BY <1>2 DEF Request, Took

LEMMA NoneUnderWay ==
    ASSUME \A v \in Actors : pc[v] \notin UnderWay
    PROVE  Request = [v \in Actors |-> NoAccess] /\ Took = <<>>
  BY DEF Request, Took, UnderWay

\* The lock begins the access.
LEMMA LockBegins ==
    ASSUME IInv, NEW u \in Actors, Lock(u)
    PROVE  Atomic!Begin(u)
  <1>1. PICK a \in Accesses : access' = [access EXCEPT ![u] = a]
    BY DEF Lock
  <1>2. \A v \in Actors : pc[v] \in Waiting
    BY BusAssumption DEF IInv, LockInv, Lock, Actors, Nobody
  <1>3. Request = [v \in Actors |-> NoAccess] /\ Took = <<>>
    BY <1>2, NoneUnderWay DEF Waiting, UnderWay
  <1>4. pc'[u] = "select" /\ access'[u] = a /\ \A v \in Actors \ {u} : pc'[v] = pc[v]
    BY <1>1 DEF IInv, Types, Lock, Step
  <1>5. Took' = <<>>
    BY <1>2, <1>4 DEF Took, Waiting
  <1>6. Request' = [Request EXCEPT ![u] = a]
    <2>1. \A v \in Actors \ {u} : pc'[v] \notin UnderWay
      BY <1>2, <1>4 DEF Waiting, UnderWay
    <2>2. Request' = [v \in Actors |-> IF v = u THEN a ELSE NoAccess]
      BY <1>4, <2>1 DEF Request, UnderWay
    <2> QED
      BY <1>3, <2>2
  <1> QED
    BY <1>3, <1>5, <1>6, Mapping

\* A step inside the access before the chip has all of it changes neither.
LEMMA NotYet ==
    ASSUME IInv, NEW u \in Actors, NEW from \in UnderWay \ {"deselect"},
           NEW to \in UnderWay \ {"deselect"}, Step(u, from, to), access' = access
    PROVE  UNCHANGED <<Request, Took>>
  <1>1. pc[u] = from /\ pc'[u] = to /\ \A v \in Actors \ {u} : pc'[v] = pc[v]
    BY DEF IInv, Types, Step
  <1>2. pc[u] \notin Waiting
    BY <1>1 DEF UnderWay, Waiting
  <1>3. \A v \in Actors : pc[v] # "deselect" /\ pc'[v] # "deselect"
    BY <1>1, <1>2, OneUnderWay DEF UnderWay
  <1>4. \A v \in Actors : pc'[v] \in UnderWay <=> pc[v] \in UnderWay
    BY <1>1
  <1> QED
    BY <1>3, <1>4 DEF Request, Took

\* The piece that completes the frame serves the access.
LEMMA CompleteServes ==
    ASSUME IInv, IInv', NEW u \in Actors, NEW from \in UnderWay \ {"deselect"},
           Step(u, from, "deselect"), access' = access
    PROVE  Atomic!Serve(u)
  <1>1. pc[u] = from /\ pc'[u] = "deselect" /\ \A v \in Actors \ {u} : pc'[v] = pc[v]
    BY DEF IInv, Types, Step
  <1>2. pc[u] \notin Waiting /\ pc'[u] \notin Waiting
    BY <1>1 DEF UnderWay, Waiting
  <1>3. access[u] \in Accesses /\ frame' = HeaderOf(access[u]) \o DataOf(access[u])
    BY <1>1, <1>2 DEF IInv, WireInv, WireAt
  <1>4. Request[u] = access[u] /\ Took = <<>>
    BY <1>1, <1>2, OneUnderWay
  <1>5. Took' = frame'
    BY <1>1 DEF Took
  <1>6. Request' = Request
    <2>1. \A v \in Actors : pc'[v] \in UnderWay <=> pc[v] \in UnderWay
      BY <1>1 DEF UnderWay
    <2> QED
      BY <2>1 DEF Request
  <1> QED
    BY <1>3, <1>4, <1>5, <1>6, Mapping, WholeIsBoth

\* The rising edge ends it.
LEMMA DeselectEnds ==
    ASSUME IInv, NEW u \in Actors, Deselect(u)
    PROVE  Atomic!End(u)
  <1>1. pc[u] = "deselect" /\ pc'[u] = "unlock" /\ \A v \in Actors \ {u} : pc'[v] = pc[v]
    BY DEF IInv, Types, Deselect, Step
  <1>2. pc[u] \notin Waiting
    BY <1>1 DEF Waiting
  <1>3. access[u] \in Accesses /\ frame = HeaderOf(access[u]) \o DataOf(access[u])
    BY <1>1, <1>2 DEF IInv, WireInv, WireAt
  <1>4. Request[u] = access[u] /\ Took = frame
    BY <1>1, <1>2, OneUnderWay DEF UnderWay
  <1>5. \A v \in Actors : pc'[v] \notin UnderWay
    BY <1>1, <1>2, OneUnderWay DEF UnderWay
  <1>6. Request' = [v \in Actors |-> NoAccess] /\ Took' = <<>>
    BY <1>5 DEF Request, Took, UnderWay
  <1>7. Request' = [Request EXCEPT ![u] = NoAccess]
    <2>1. Request = [v \in Actors |-> Request[v]]
      BY DEF Request
    <2>2. \A v \in Actors \ {u} : Request[v] = NoAccess
      BY <1>2, OneUnderWay
    <2> QED
      BY <1>6, <2>1, <2>2
  <1> QED
    BY <1>3, <1>4, <1>6, <1>7, Mapping, WholeIsBoth

\* The unlock comes after the end.
LEMMA UnlockStutters ==
    ASSUME IInv, NEW u \in Actors, Unlock(u)
    PROVE  UNCHANGED <<Request, Took>>
  <1>1. pc[u] = "unlock" /\ pc'[u] = "idle" /\ \A v \in Actors \ {u} : pc'[v] = pc[v]
    BY DEF IInv, Types, Unlock, Step
  <1>2. \A v \in Actors : pc[v] \notin UnderWay
    BY <1>1, OneUnderWay DEF UnderWay, Waiting
  <1>3. \A v \in Actors : pc'[v] \notin UnderWay
    BY <1>1, <1>2 DEF UnderWay
  <1> QED
    BY <1>2, <1>3 DEF Request, Took, UnderWay

LEMMA AccessRefines ==
    ASSUME IInv, IInv', NEW u \in Actors, Access(u)
    PROVE  Atomic!Next \/ UNCHANGED <<Request, Took>>
  <1>1. CASE Select(u)
    BY <1>1, NotYet DEF Select, UnderWay
  <1>2. CASE Header(u)
    <2>1. access' = access /\ (Step(u, "header", "deselect") \/ Step(u, "header", "data"))
      BY <1>2 DEF Header
    <2>2. CASE Step(u, "header", "deselect")
      BY <2>1, <2>2, CompleteServes, Mapping DEF UnderWay
    <2>3. CASE Step(u, "header", "data")
      BY <2>1, <2>3, NotYet DEF UnderWay
    <2> QED
      BY <2>1, <2>2, <2>3
  <1>3. CASE Data(u)
    BY <1>3, CompleteServes, Mapping DEF Data, UnderWay
  <1>4. CASE Deselect(u)
    BY <1>4, DeselectEnds, Mapping
  <1>5. CASE Unlock(u)
    BY <1>5, UnlockStutters
  <1> QED
    BY <1>1, <1>2, <1>3, <1>4, <1>5 DEF Access

LEMMA NextRefines ==
    IInv /\ IInv' /\ [Next]_vars => Atomic!Next \/ UNCHANGED <<Request, Took>>
  <1> SUFFICES ASSUME IInv, IInv', [Next]_vars
               PROVE  Atomic!Next \/ UNCHANGED <<Request, Took>>
    OBVIOUS
  <1>1. CASE Open
    BY <1>1 DEF Open, OpenSpi, OpenSlot, FindPio, ClaimSm, ClaimDma, SetActive, Opening,
                accessVars, Request, Took
  <1>2. CASE HandlerBlocks
    <2>1. /\ pc[Handler] = "idle" /\ pc'[Handler] = "stuck" /\ access' = access
          /\ frame' = frame /\ \A v \in Actors \ {Handler} : pc'[v] = pc[v]
      BY <1>2 DEF IInv, Types, HandlerBlocks, Step, Actors
    <2>2. \A v \in Actors : /\ pc'[v] \in UnderWay <=> pc[v] \in UnderWay
                            /\ pc'[v] = "deselect" <=> pc[v] = "deselect"
      BY <2>1 DEF UnderWay
    <2> QED
      BY <2>1, <2>2 DEF Request, Took
  <1>3. ASSUME NEW u \in Actors, Lock(u) \/ Access(u)
        PROVE  Atomic!Next \/ UNCHANGED <<Request, Took>>
    BY <1>3, LockBegins, AccessRefines, Mapping
  <1>4. CASE UNCHANGED vars
    BY <1>4 DEF vars, accessVars, Request, Took
  <1> QED
    BY <1>1, <1>2, <1>3, <1>4 DEF Next

\* For every set of tasks, build and board, the lock, the pin, the kept header
\* and the ways to send bytes make an access to a register one event for the
\* chip: accesses come one at a time, and each is served once, whole, before
\* its user goes on.
THEOREM AtomicBusImplemented == Spec => ImplementsAtomicBus
  <1>1. Init => Atomic!Init
    BY NoneUnderWay, Mapping DEF Init, UnderWay
  <1>2. IInv /\ IInv' /\ [Next]_vars => [Atomic!Next]_<<Request, Took>>
    BY NextRefines
  <1> QED
    BY <1>1, <1>2, Inductive, PTL DEF Spec, Atomic!Spec, ImplementsAtomicBus, Request, Took

-----------------------------------------------------------------------------
(* Why an access ends: nothing holds up who has the lock, but in one build.  *)

\* Only in an interrupt build with a mutex can the handler be waiting.
StuckInv == pc[Handler] = "stuck" => build.lock = "mutex" /\ build.irq

\* Who has the lock is in an access, and may take its next step: the handler is
\* not in its way, unless it interrupted the owner and waits for the mutex.
OwnerFree ==
    owner # Nobody =>
       /\ owner \in Actors /\ pc[owner] \in Pcs \ Waiting
       /\ \/ owner = Handler \/ pc[Handler] = "idle"
          \/ build.lock = "mutex" /\ build.irq /\ pc[Handler] = "stuck"

LEMMA StuckStep ==
    ASSUME IInv, StuckInv, [Next]_vars
    PROVE  StuckInv'
  <1>1. pc \in [Actors -> Pcs] /\ Handler \in Actors
    BY DEF IInv, Types, Actors
  <1>2. ASSUME NEW u \in Actors, NEW from, NEW to, to # "stuck", Step(u, from, to)
        PROVE  StuckInv'
    BY <1>1, <1>2 DEF Step, StuckInv
  <1>3. ASSUME NEW u \in Actors, Lock(u) PROVE StuckInv'
    BY <1>2, <1>3 DEF Lock
  <1>4. ASSUME NEW u \in Actors, Access(u) PROVE StuckInv'
    <2>1. CASE Select(u) \/ Data(u) \/ Deselect(u) \/ Unlock(u)
      BY <1>2, <2>1 DEF Select, Data, Deselect, Unlock
    <2>2. CASE Header(u)
      <3>1. Step(u, "header", "deselect") \/ Step(u, "header", "data")
        BY <2>2 DEF Header
      <3> QED
        BY <1>2, <3>1
    <2> QED
      BY <1>4, <2>1, <2>2 DEF Access
  <1>5. CASE HandlerBlocks
    BY <1>5 DEF HandlerBlocks, Step, StuckInv
  <1>6. CASE Open \/ UNCHANGED vars
    BY <1>6 DEF Open, OpenSpi, OpenSlot, FindPio, ClaimSm, ClaimDma, SetActive, Opening,
                vars, accessVars, StuckInv
  <1> QED
    BY <1>3, <1>4, <1>5, <1>6 DEF Next

\* In every build but the one with interrupts and a mutex nothing keeps the
\* owner of the lock from its next step; there only the handler that waits for
\* the owner it has interrupted does.
THEOREM OwnerGoesOn == Spec => []OwnerFree
  <1>1. Init => StuckInv
    BY DEF Init, StuckInv, Actors
  <1>2. IInv /\ StuckInv /\ [Next]_vars => StuckInv'
    BY StuckStep
  <1>3. IInv /\ StuckInv => OwnerFree
    <2> SUFFICES ASSUME IInv, StuckInv, owner # Nobody
                 PROVE  /\ owner \in Actors /\ pc[owner] \in Pcs \ Waiting
                        /\ \/ owner = Handler \/ pc[Handler] = "idle"
                           \/ build.lock = "mutex" /\ build.irq /\ pc[Handler] = "stuck"
      BY DEF OwnerFree
    <2>1. owner \in Actors /\ pc[owner] \in Pcs \ Waiting
      BY DEF IInv, Types, LockInv
    <2>2. owner # Handler => pc[Handler] \in Waiting
      BY DEF IInv, LockInv, Actors
    <2> QED
      BY <2>1, <2>2 DEF StuckInv, Waiting
  <1> QED
    BY <1>1, <1>2, <1>3, Inductive, PTL DEF Spec
===============================================================================
