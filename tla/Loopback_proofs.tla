---------------------------- MODULE Loopback_proofs ----------------------------
(***************************************************************************)
(* Proofs about Loopback, for any number of sockets, any size of the       *)
(* buffer and any amount of data: no socket leaks, what is sent back is    *)
(* what was received, and what is left of a connection only gets less.     *)
(***************************************************************************)
EXTENDS Loopback, FiniteSetTheorems, SequenceTheorems, TLAPS

-----------------------------------------------------------------------------
(* Types.                                                                    *)

ControlType == linkUp \in BOOLEAN /\ pc \in [Tasks -> Pcs]
SocketType ==
    /\ open \subseteq Descriptors
    /\ listener \in Nat /\ sock \in [Tasks -> Nat]
    /\ queued \in 0 .. Cardinality(Descriptors)
BufferType ==
    /\ buf \in [Tasks -> Seq(Nat)] /\ r \in [Tasks -> Nat]
    /\ \A t \in Tasks : Len(buf[t]) <= BufSize /\ r[t] < BufSize
ConnType == conn \in [Tasks -> Connections]

LEMMA TypeParts == TypeOK <=> ControlType /\ SocketType /\ BufferType /\ ConnType
  BY DEF TypeOK, ControlType, SocketType, BufferType, ConnType

LEMMA ControlStep == ControlType /\ [Next]_vars => ControlType'
<1> SUFFICES ASSUME ControlType, [Next]_vars PROVE ControlType'
  OBVIOUS
<1>1. ASSUME NEW t \in Tasks, NEW from, NEW to \in Pcs, Goes(t, from, to)
      PROVE  ControlType'
  BY <1>1 DEF ControlType, Goes
<1>2. ASSUME NEW t \in Tasks, Handle(t) PROVE ControlType'
  BY <1>1, <1>2 DEF Handle, WaitLink, Hello, Intro, Echo, Send, RecvData, RecvEnds, Close,
     Pcs, Using
<1>3. CASE Server
  BY <1>1, <1>2, <1>3 DEF Server, ServerSocket, Prepare, Accept, AcceptFails, Pcs, Using, Tasks
<1>4. CASE Client
  BY <1>1, <1>2, <1>4 DEF Client, ClientSocket, Connect, ConnectFails, Delay, Pcs, Using, Tasks
<1>5. CASE Environment \/ UNCHANGED vars
  BY <1>5 DEF Environment, LinkComesUp, PeerConnects, PeerSends, PeerStalls, PeerCloses,
     Peer, ControlType, vars
<1> QED
  BY <1>3, <1>4, <1>5 DEF Next

LEMMA SocketStep == SocketType /\ [Next]_vars => SocketType'
<1> SUFFICES ASSUME SocketType, [Next]_vars PROVE SocketType'
  OBVIOUS
<1> DEFINE All == Cardinality(Descriptors)
<1>1. All \in Nat /\ Cardinality(open) \in Nat /\ queued \in 0 .. All
  BY LoopbackAssumption, FS_CardinalityType, FS_Subset DEF SocketType
<1>2. CASE UNCHANGED netVars
  BY <1>2 DEF SocketType, netVars
<1>3. CASE ServerSocket
  BY <1>3, LoopbackAssumption DEF ServerSocket, Opens, SocketType
<1>4. CASE Prepare("bind", "listen") \/ Prepare("listen", "accept")
  BY <1>4 DEF Prepare, closesocket, SocketType
<1>5. CASE Accept
  <2>1. queued' \in 0 .. All
    BY <1>1, <1>5 DEF Accept
  <2>2. open' \subseteq Descriptors /\ listener' \in Nat
    BY <1>5 DEF Accept, Opens, SocketType
  <2>3. sock' \in [Tasks -> Nat]
    BY <1>5, LoopbackAssumption DEF Accept, SocketType
  <2> QED
    BY <2>1, <2>2, <2>3 DEF SocketType
<1>6. CASE AcceptFails
  <2>1. queued' \in 0 .. All
    BY <1>1, <1>6 DEF AcceptFails
  <2> QED
    BY <1>6, <2>1 DEF AcceptFails, SocketType
<1>7. CASE ClientSocket
  BY <1>7, LoopbackAssumption DEF ClientSocket, Opens, SocketType
<1>8. CASE ConnectFails
  BY <1>8 DEF ConnectFails, closesocket, SocketType
<1>9. CASE PeerConnects
  <2>1. queued' \in 0 .. All
    BY <1>1, <1>9 DEF PeerConnects, NetconnFree
  <2> QED
    BY <1>9, <2>1 DEF PeerConnects, SocketType
<1>10. ASSUME NEW t \in Tasks, Close(t) PROVE SocketType'
  BY <1>10 DEF Close, closesocket, SocketType
<1>11. ASSUME NEW t \in Tasks, Handle(t) PROVE SocketType'
  BY <1>2, <1>10, <1>11 DEF Handle, WaitLink, Hello, Intro, Echo, Send, RecvData, RecvEnds
<1>12. CASE Environment \/ UNCHANGED vars
  BY <1>2, <1>9, <1>12 DEF Environment, LinkComesUp, PeerSends, PeerStalls, PeerCloses,
     Peer, vars
<1>13. CASE Server
  BY <1>3, <1>4, <1>5, <1>6, <1>11, <1>13 DEF Server, Tasks
<1>14. CASE Client
  BY <1>2, <1>7, <1>8, <1>11, <1>14 DEF Client, Connect, Delay, Tasks
<1> QED
  BY <1>12, <1>13, <1>14 DEF Next

\* What recv leaves in the buffer: the new pieces, the terminator, and the rest.
LEMMA Overlay ==
  ASSUME NEW in \in Seq(Nat), NEW old \in Seq(Nat), Len(old) <= BufSize,
         NEW k \in 1 .. Capacity, k <= Len(in)
  PROVE  LET new == SubSeq(in, 1, k) \o <<0>> \o SubSeq(old, k + 2, Len(old))
         IN  /\ new \in Seq(Nat) /\ k < Len(new) /\ Len(new) <= BufSize
             /\ SubSeq(new, 1, k) = SubSeq(in, 1, k)
<1> DEFINE front == SubSeq(in, 1, k)
           rest == SubSeq(old, k + 2, Len(old))
<1>1. k \in Nat /\ k >= 1 /\ k < BufSize /\ BufSize \in Nat
  BY LoopbackAssumption DEF Capacity
<1>2. front \in Seq(Nat) /\ Len(front) = k /\ \A i \in 1 .. k : front[i] = in[i]
  BY <1>1, SubSeqProperties
<1>3. rest \in Seq(Nat) /\ Len(rest) = IF k + 2 <= Len(old) THEN Len(old) - k - 1 ELSE 0
  BY <1>1, SubSeqProperties
<1> HIDE DEF front, rest
<1>4. <<0>> \in Seq(Nat) /\ Len(<<0>>) = 1
  OBVIOUS
<1>5. /\ front \o <<0>> \in Seq(Nat) /\ Len(front \o <<0>>) = k + 1
      /\ \A i \in 1 .. k : (front \o <<0>>)[i] = front[i]
  BY <1>1, <1>2, <1>4, ConcatProperties
<1> DEFINE most == front \o <<0>>
           new == most \o rest
<1> HIDE DEF most
<1>6. /\ new \in Seq(Nat) /\ Len(new) = k + 1 + Len(rest)
      /\ \A i \in 1 .. k : new[i] = most[i]
  <2>1. most \in Seq(Nat) /\ Len(most) = k + 1
    BY <1>5 DEF most
  <2>2. Len(rest) \in Nat
    BY <1>3, LenProperties
  <2>3. /\ new \in Seq(Nat) /\ Len(new) = Len(most) + Len(rest)
        /\ \A i \in 1 .. Len(most) + Len(rest) :
              new[i] = IF i <= Len(most) THEN most[i] ELSE rest[i - Len(most)]
    BY <1>3, <2>1, ConcatProperties
  <2> HIDE DEF new
  <2> QED
    BY <1>1, <2>1, <2>2, <2>3
<1> HIDE DEF new
<1>7. SubSeq(new, 1, k) = front
  <2>1. SubSeq(new, 1, k) \in Seq(Nat) /\ Len(SubSeq(new, 1, k)) = k
        /\ \A i \in 1 .. k : SubSeq(new, 1, k)[i] = new[i]
    <3>1. \A i \in 1 .. k : new[i] \in Nat
      BY <1>1, <1>2, <1>5, <1>6 DEF most
    <3> QED
      BY <1>1, <3>1, SubSeqProperties
  <2>2. \A i \in 1 .. k : SubSeq(new, 1, k)[i] = front[i]
    BY <1>5, <1>6, <2>1 DEF most
  <2> QED
    BY <1>2, <2>1, <2>2, SeqEqual
<1>8. Len(new) <= BufSize /\ k < Len(new)
  <2>1. Len(old) \in Nat
    BY LenProperties
  <2>2. Len(old) <= BufSize
    OBVIOUS
  <2>3. Len(new) = k + 1 + Len(rest)
    BY <1>6
  <2>4. CASE k + 2 <= Len(old)
    <3>1. Len(rest) = Len(old) - k - 1
      BY <1>3, <2>4
    <3> QED
      BY <1>1, <2>1, <2>2, <2>3, <3>1
  <2>5. CASE ~(k + 2 <= Len(old))
    <3>1. Len(rest) = 0
      BY <1>3, <2>5
    <3> QED
      BY <1>1, <2>3, <3>1
  <2> QED
    BY <2>4, <2>5
<1> QED
  BY <1>6, <1>7, <1>8 DEF front, rest, most, new

LEMMA BufferStep == BufferType /\ ConnType /\ [Next]_vars => BufferType'
<1> SUFFICES ASSUME BufferType, ConnType, [Next]_vars PROVE BufferType'
  OBVIOUS
<1>1. CASE UNCHANGED <<buf, r>>
  BY <1>1 DEF BufferType
<1>2. ASSUME NEW t \in Tasks, RecvData(t) PROVE BufferType'
  <2>1. PICK k \in 1 .. Capacity :
          /\ k <= Len(conn[t].in)
          /\ r' = [r EXCEPT ![t] = k]
          /\ buf' = [buf EXCEPT ![t] = SubSeq(conn[t].in, 1, k) \o <<0>>
                                         \o SubSeq(buf[t], k + 2, Len(buf[t]))]
    BY <1>2 DEF RecvData, BufferType
  <2>2. conn[t].in \in Seq(Nat) /\ buf[t] \in Seq(Nat) /\ Len(buf[t]) <= BufSize
    BY <1>2 DEF BufferType, ConnType, Connections
  <2>3. buf'[t] \in Seq(Nat) /\ Len(buf'[t]) <= BufSize
    BY <2>1, <2>2, Overlay DEF BufferType
  <2>4. k \in Nat /\ k < BufSize
    BY LoopbackAssumption DEF Capacity
  <2>5. buf' \in [Tasks -> Seq(Nat)] /\ \A u \in Tasks : Len(buf'[u]) <= BufSize
    BY <2>1, <2>3 DEF BufferType
  <2>6. r' \in [Tasks -> Nat] /\ \A u \in Tasks : r'[u] < BufSize
    BY <2>1, <2>4 DEF BufferType
  <2> QED
    BY <2>5, <2>6 DEF BufferType
<1>3. ASSUME NEW t \in Tasks, Close(t) PROVE BufferType'
  BY <1>3, LoopbackAssumption DEF Close, BufferType
<1>4. ASSUME NEW t \in Tasks, Handle(t) PROVE BufferType'
  BY <1>1, <1>2, <1>3, <1>4 DEF Handle, WaitLink, Hello, Intro, Echo, Send, RecvEnds, dataVars
<1>5. CASE Server
  BY <1>1, <1>4, <1>5 DEF Server, ServerSocket, Prepare, Accept, AcceptFails, SetTimeouts,
     dataVars, Tasks
<1>6. CASE Client
  BY <1>1, <1>4, <1>6 DEF Client, ClientSocket, Connect, ConnectFails, Delay, SetTimeouts,
     dataVars, Tasks
<1>7. CASE Environment \/ UNCHANGED vars
  BY <1>1, <1>7 DEF Environment, LinkComesUp, PeerConnects, PeerSends, PeerStalls,
     PeerCloses, Peer, dataVars, vars
<1> QED
  BY <1>5, <1>6, <1>7 DEF Next

\* What is in hand is in the buffer.
HandInv == \A t \in Tasks : pc[t] \in {"intro", "echo"} => r[t] \in 1 .. Len(buf[t])

LEMMA ReceivedTyped ==
  ASSUME BufferType, NEW t \in Tasks, r[t] \in 1 .. Len(buf[t])
  PROVE  Received(t) \in Seq(Nat) /\ Len(Received(t)) = r[t]
<1>1. \A i \in 1 .. r[t] : buf[t][i] \in Nat
  BY DEF BufferType
<1> QED
  BY <1>1, SubSeqProperties DEF Received

LEMMA ConnStep == BufferType /\ ConnType /\ HandInv /\ [Next]_vars => ConnType'
<1> SUFFICES ASSUME BufferType, ConnType, HandInv, [Next]_vars PROVE ConnType'
  OBVIOUS
<1>1. CASE UNCHANGED conn
  BY <1>1 DEF ConnType
<1>2. ASSUME NEW t \in Tasks, NEW c \in Connections, conn' = [conn EXCEPT ![t] = c]
      PROVE  ConnType'
  BY <1>2 DEF ConnType
<1>3. NewConnection \in Connections /\ [NewConnection EXCEPT !.timed = TRUE] \in Connections
  <2>1. <<>> \in Seq(Nat)
    OBVIOUS
  <2> QED
    BY <2>1 DEF NewConnection, Connections
<1>4. ASSUME NEW t \in Tasks, SetTimeouts(t) \/ Close(t) PROVE ConnType'
  BY <1>2, <1>3, <1>4 DEF SetTimeouts, Close
<1>5. ASSUME NEW t \in Tasks, NEW what \in Seq(Nat), NEW from, NEW to, Send(t, what, from, to)
      PROVE  ConnType'
  <2> DEFINE c == conn[t]
  <2>1. c \in Connections /\ c.out \in Seq(Nat)
    BY DEF ConnType, Connections
  <2>2. CASE conn' = [conn EXCEPT ![t].out = @ \o what]
    <3>1. c.out \o what \in Seq(Nat)
      BY <2>1, ConcatProperties
    <3> QED
      BY <2>1, <2>2, <3>1 DEF ConnType, Connections
  <2>3. ASSUME NEW k \in 0 .. Len(what), what = <<>> \/ k < Len(what),
               conn' = [conn EXCEPT ![t].out = @ \o SubSeq(what, 1, k),
                                    ![t].cut = @ \/ what # <<>>]
        PROVE  ConnType'
    <3>1. SubSeq(what, 1, k) \in Seq(Nat)
      <4>1. \A i \in 1 .. k : what[i] \in Nat
        OBVIOUS
      <4> QED
        BY <4>1, SubSeqProperties
    <3>2. c.out \o SubSeq(what, 1, k) \in Seq(Nat)
      BY <2>1, <3>1, ConcatProperties
    <3>3. (c.cut \/ what # <<>>) \in BOOLEAN
      OBVIOUS
    <3> QED
      BY <2>1, <2>3, <3>2, <3>3 DEF ConnType, Connections
  <2> QED
    BY <1>1, <1>5, <2>2, <2>3 DEF Send
<1>6. ASSUME NEW t \in Tasks, RecvData(t) PROVE ConnType'
  <2>1. conn[t].in \in Seq(Nat) /\ conn[t] \in Connections
    BY DEF ConnType, Connections
  <2>2. PICK k \in 1 .. Capacity :
          k <= Len(conn[t].in) /\ conn' = [conn EXCEPT ![t].in = SubSeq(@, k + 1, Len(@))]
    BY <1>6 DEF RecvData
  <2>3. SubSeq(conn[t].in, k + 1, Len(conn[t].in)) \in Seq(Nat)
    <3>1. \A i \in k + 1 .. Len(conn[t].in) : conn[t].in[i] \in Nat
      BY <2>1
    <3> QED
      BY <2>1, <3>1, SubSeqProperties
  <2> QED
    BY <2>1, <2>2, <2>3 DEF ConnType, Connections
<1>7. ASSUME NEW t \in Tasks, PeerSends(t) \/ PeerStalls(t) \/ PeerCloses(t) PROVE ConnType'
  <2>1. conn[t] \in Connections /\ conn[t].in \in Seq(Nat) /\ conn[t].wrote + 1 \in Nat
    BY DEF ConnType, Connections
  <2>2. Append(conn[t].in, conn[t].wrote + 1) \in Seq(Nat)
    BY <2>1, AppendProperties
  <2>3. CASE PeerSends(t)
    BY <1>2, <2>1, <2>2, <2>3 DEF PeerSends, Peer, Connections
  <2>4. CASE PeerStalls(t) \/ PeerCloses(t)
    BY <1>2, <2>1, <2>4 DEF PeerStalls, PeerCloses, Peer, Connections
  <2> QED
    BY <1>7, <2>3, <2>4
<1>8. ASSUME NEW t \in Tasks, Handle(t) PROVE ConnType'
  <2>1. CASE Echo(t)
    <3>1. Received(t) \in Seq(Nat)
      <4>1. pc[t] = "echo"
        BY <2>1 DEF Echo, Send, Goes
      <4> QED
        BY <4>1, ReceivedTyped DEF HandInv
    <3> QED
      BY <1>5, <2>1, <3>1 DEF Echo
  <2>2. CASE Hello(t) \/ Intro(t)
    <3>1. <<>> \in Seq(Nat)
      OBVIOUS
    <3> QED
      BY <1>5, <2>2, <3>1 DEF Hello, Intro
  <2>3. CASE WaitLink(t) \/ RecvEnds(t)
    BY <1>1, <2>3 DEF WaitLink, RecvEnds, dataVars
  <2> QED
    BY <1>4, <1>6, <1>8, <2>1, <2>2, <2>3 DEF Handle
<1>9. CASE Server
  BY <1>1, <1>4, <1>8, <1>9 DEF Server, ServerSocket, Prepare, Accept, AcceptFails,
     dataVars, Tasks
<1>10. CASE Client
  BY <1>1, <1>4, <1>8, <1>10 DEF Client, ClientSocket, Connect, ConnectFails, Delay,
     dataVars, Tasks
<1>11. CASE Environment \/ UNCHANGED vars
  BY <1>1, <1>7, <1>11 DEF Environment, LinkComesUp, PeerConnects, dataVars, vars
<1> QED
  BY <1>9, <1>10, <1>11 DEF Next

LEMMA HandStep ==
  ControlType /\ BufferType /\ ConnType /\ HandInv /\ [Next]_vars => HandInv'
<1> SUFFICES ASSUME ControlType, BufferType, ConnType, HandInv, [Next]_vars PROVE HandInv'
  OBVIOUS
<1> DEFINE Handed == {"intro", "echo"}
<1>1. ASSUME NEW t \in Tasks, NEW from, NEW to, Goes(t, from, to),
             to \notin Handed \/ from \in Handed, UNCHANGED <<buf, r>>
      PROVE  HandInv'
  BY <1>1 DEF HandInv, Goes, ControlType
<1>2. ASSUME NEW t \in Tasks, RecvData(t) PROVE HandInv'
  <2>1. PICK k \in 1 .. Capacity :
          /\ k <= Len(conn[t].in)
          /\ r' = [r EXCEPT ![t] = k]
          /\ buf' = [buf EXCEPT ![t] = SubSeq(conn[t].in, 1, k) \o <<0>>
                                         \o SubSeq(buf[t], k + 2, Len(buf[t]))]
    BY <1>2 DEF RecvData
  <2>2. conn[t].in \in Seq(Nat) /\ buf[t] \in Seq(Nat) /\ Len(buf[t]) <= BufSize
    BY DEF BufferType, ConnType, Connections
  <2>3. k < Len(buf'[t]) /\ buf'[t] \in Seq(Nat)
    BY <2>1, <2>2, Overlay DEF BufferType
  <2>4. r'[t] \in 1 .. Len(buf'[t])
    <3>1. r'[t] = k /\ k \in Nat /\ k >= 1
      BY <2>1, LoopbackAssumption DEF BufferType, Capacity
    <3>2. Len(buf'[t]) \in Nat
      BY <2>3, LenProperties
    <3> QED
      BY <2>3, <3>1, <3>2
  <2>5. ASSUME NEW u \in Tasks, u # t, pc'[u] \in Handed PROVE r'[u] \in 1 .. Len(buf'[u])
    BY <1>2, <2>1, <2>5 DEF RecvData, Goes, ControlType, BufferType, HandInv
  <2> QED
    BY <2>4, <2>5 DEF HandInv
<1>3. ASSUME NEW t \in Tasks, Close(t) PROVE HandInv'
  <2>1. pc' = [pc EXCEPT ![t] = IF t = "server" THEN "accept" ELSE "delay"]
    BY <1>3 DEF Close, Goes
  <2>2. ASSUME NEW u \in Tasks, pc'[u] \in Handed PROVE r'[u] \in 1 .. Len(buf'[u])
    <3>1. u # t /\ pc'[u] = pc[u]
      BY <2>1, <2>2 DEF ControlType
    <3> QED
      BY <1>3, <2>2, <3>1 DEF Close, BufferType, HandInv
  <2> QED
    BY <2>2 DEF HandInv
<1>4. ASSUME NEW t \in Tasks, Handle(t) PROVE HandInv'
  <2>1. CASE WaitLink(t) \/ RecvEnds(t)
    BY <1>1, <2>1 DEF WaitLink, RecvEnds, dataVars
  <2>2. CASE Hello(t) \/ Intro(t) \/ Echo(t)
    BY <1>1, <2>2 DEF Hello, Intro, Echo, Send
  <2> QED
    BY <1>2, <1>3, <1>4, <2>1, <2>2 DEF Handle
<1>5. CASE Server
  <2>1. CASE ServerSocket \/ Prepare("bind", "listen") \/ Prepare("listen", "accept")
    BY <1>1, <2>1 DEF ServerSocket, Prepare, dataVars, Tasks
  <2>2. CASE Accept \/ AcceptFails
    BY <1>1, <2>2 DEF Accept, AcceptFails, SetTimeouts, dataVars, Tasks
  <2> QED
    BY <1>4, <1>5, <2>1, <2>2 DEF Server, Tasks
<1>6. CASE Client
  BY <1>1, <1>4, <1>6 DEF Client, ClientSocket, Connect, ConnectFails, Delay, SetTimeouts,
     dataVars, Tasks
<1>7. CASE Environment \/ UNCHANGED vars
  BY <1>7 DEF Environment, LinkComesUp, PeerConnects, PeerSends, PeerStalls,
     PeerCloses, Peer, dataVars, vars, HandInv
<1> QED
  BY <1>5, <1>6, <1>7 DEF Next

\* Every variable keeps its type; in particular recv never fills more than the
\* buffer has, the terminator included.
THEOREM TypeCorrect == Spec => [](TypeOK /\ HandInv)
<1>1. Init => TypeOK /\ HandInv
  <2> SUFFICES ASSUME Init PROVE TypeOK /\ HandInv
    OBVIOUS
  <2>1. ControlType /\ HandInv
    BY DEF Init, ControlType, HandInv, Pcs
  <2>2. SocketType
    BY LoopbackAssumption, FS_CardinalityType DEF Init, SocketType
  <2>3. BufferType
    BY LoopbackAssumption DEF Init, BufferType
  <2>4. ConnType
    BY DEF Init, ConnType, NewConnection, Connections
  <2> QED
    BY <2>1, <2>2, <2>3, <2>4, TypeParts
<1>2. TypeOK /\ HandInv /\ [Next]_vars => TypeOK' /\ HandInv'
  BY TypeParts, ControlStep, SocketStep, BufferStep, ConnStep, HandStep
     DEF TypeOK, ControlType, SocketType, BufferType, ConnType
<1> QED
  BY <1>1, <1>2, PTL DEF Spec

-----------------------------------------------------------------------------
(* The descriptors.                                                          *)

LEMMA SocketsStep ==
  ControlType /\ SocketType /\ SocketsHeld /\ [Next]_vars => SocketsHeld'
<1> SUFFICES ASSUME ControlType, SocketType, SocketsHeld, [Next]_vars PROVE SocketsHeld'
  OBVIOUS
<1> USE DEF Holds, Listens, Using
\* A step that moves no task over the edge of what it holds.
<1>1. ASSUME NEW t \in Tasks, NEW from, NEW to, Goes(t, from, to), UNCHANGED netVars,
             from \in Using <=> to \in Using,
             from \in {"bind", "listen", "accept", "connect"} =>
                to \in {"bind", "listen", "accept", "connect"} /\ (from = "connect" <=> to = "connect"),
             to \in {"bind", "listen", "accept", "connect"} =>
                from \in {"bind", "listen", "accept", "connect"}
      PROVE  SocketsHeld'
  BY <1>1 DEF SocketsHeld, ControlType, SocketType, Tasks, Goes, netVars
<1>2. CASE UNCHANGED <<pc, open, listener, sock>>
  BY <1>2 DEF SocketsHeld
<1>3. CASE ServerSocket
  BY <1>3 DEF ServerSocket, Opens, SocketsHeld, ControlType, SocketType, Tasks, Goes
<1>4. ASSUME NEW from \in {"bind", "listen"}, NEW to \in {"listen", "accept"}, Prepare(from, to)
      PROVE  SocketsHeld'
  BY <1>4 DEF Prepare, closesocket, SocketsHeld, ControlType, SocketType, Tasks, Goes
<1>5. CASE Accept
  BY <1>5 DEF Accept, Opens, SocketsHeld, ControlType, SocketType, Tasks, Goes
<1>6. CASE ClientSocket
  BY <1>6 DEF ClientSocket, Opens, SocketsHeld, ControlType, SocketType, Tasks, Goes
<1>7. CASE Connect
  BY <1>7 DEF Connect, SocketsHeld, ControlType, SocketType, Tasks, Goes, netVars
<1>8. CASE ConnectFails
  BY <1>8 DEF ConnectFails, closesocket, SocketsHeld, ControlType, SocketType, Tasks, Goes
<1>9. ASSUME NEW t \in Tasks, Close(t) PROVE SocketsHeld'
  BY <1>9 DEF Close, closesocket, SocketsHeld, ControlType, SocketType, Tasks, Goes
<1>10. ASSUME NEW t \in Tasks, Handle(t) PROVE SocketsHeld'
  <2>1. CASE WaitLink(t)
    BY <1>1, <2>1 DEF WaitLink
  <2>2. CASE RecvData(t) \/ RecvEnds(t)
    BY <1>1, <2>2 DEF RecvData, RecvEnds
  <2>3. CASE Hello(t) \/ Intro(t) \/ Echo(t)
    BY <1>1, <2>3 DEF Hello, Intro, Echo, Send
  <2> QED
    BY <1>9, <1>10, <2>1, <2>2, <2>3 DEF Handle
<1>11. CASE AcceptFails
  BY <1>2, <1>11 DEF AcceptFails, Goes, ControlType, Tasks
<1>12. CASE Delay
  BY <1>1, <1>12 DEF Delay, Tasks
<1>13. CASE Environment \/ UNCHANGED vars
  BY <1>2, <1>13 DEF Environment, LinkComesUp, PeerConnects, PeerSends, PeerStalls,
     PeerCloses, Peer, netVars, vars
<1>14. CASE Server
  BY <1>3, <1>4, <1>5, <1>10, <1>11, <1>14 DEF Server, Tasks
<1>15. CASE Client
  BY <1>6, <1>7, <1>8, <1>10, <1>12, <1>15 DEF Client, Tasks
<1> QED
  BY <1>13, <1>14, <1>15 DEF Next

\* The open descriptors are those the tasks will still close, on every path.
THEOREM NoSocketLeaks == Spec => []SocketsHeld
<1>1. Init => SocketsHeld
  BY DEF Init, SocketsHeld, Listens, Holds, Using, Tasks
<1>2. TypeOK /\ SocketsHeld /\ [Next]_vars => SocketsHeld'
  BY TypeParts, SocketsStep
<1> QED
  BY <1>1, <1>2, TypeCorrect, PTL DEF Spec

-----------------------------------------------------------------------------
(* What is sent back.                                                        *)

\* The pieces in all are some of the first n in order: every one unless short.
Ordered(all, n, short) ==
    /\ all \in Seq(Nat) /\ n \in Nat
    /\ \A i \in 1 .. Len(all) : all[i] <= n
    /\ \A i, j \in 1 .. Len(all) : i < j => all[i] < all[j]
    /\ ~short => all = [i \in 1 .. n |-> i]

LEMMA OrderedEmpty == Ordered(<<>>, 0, FALSE)
  BY DEF Ordered

LEMMA OrderedAppend ==
  ASSUME NEW all, NEW n, NEW short, Ordered(all, n, short)
  PROVE  Ordered(Append(all, n + 1), n + 1, short)
<1> DEFINE more == Append(all, n + 1)
<1>1. all \in Seq(Nat) /\ n \in Nat /\ n + 1 \in Nat /\ Len(all) \in Nat
  BY LenProperties DEF Ordered
<1>2. /\ more \in Seq(Nat) /\ Len(more) = Len(all) + 1
      /\ \A i \in 1 .. Len(all) : more[i] = all[i]
      /\ more[Len(all) + 1] = n + 1
  BY <1>1, AppendProperties
<1> HIDE DEF more
<1>3. \A i \in 1 .. Len(more) : more[i] <= n + 1
  <2>1. \A i \in 1 .. Len(all) : all[i] \in Nat /\ all[i] <= n
    BY <1>1 DEF Ordered
  <2>2. \A i \in 1 .. Len(all) : more[i] <= n + 1
    BY <1>1, <1>2, <2>1
  <2>3. ASSUME NEW i \in 1 .. Len(more) PROVE i \in 1 .. Len(all) \/ i = Len(all) + 1
    <3>1. Len(more) = Len(all) + 1 /\ Len(all) \in Nat
      BY <1>1, <1>2
    <3> QED
      BY <3>1
  <2> QED
    BY <1>1, <1>2, <2>2, <2>3
<1>4. \A i, j \in 1 .. Len(more) : i < j => more[i] < more[j]
  <2> SUFFICES ASSUME NEW i \in 1 .. Len(more), NEW j \in 1 .. Len(more), i < j
               PROVE  more[i] < more[j]
    OBVIOUS
  <2>1. i \in 1 .. Len(all) /\ (j \in 1 .. Len(all) \/ j = Len(all) + 1)
    <3>1. Len(more) = Len(all) + 1 /\ Len(all) \in Nat
      BY <1>1, <1>2
    <3> QED
      BY <3>1
  <2>2. more[i] = all[i] /\ all[i] \in Nat /\ all[i] <= n
    BY <1>1, <1>2, <2>1 DEF Ordered
  <2>3. CASE j \in 1 .. Len(all)
    BY <1>2, <2>1, <2>2, <2>3 DEF Ordered
  <2>4. CASE j = Len(all) + 1
    BY <1>1, <1>2, <2>2, <2>4
  <2> QED
    BY <2>1, <2>3, <2>4
<1>5. ~short => more = [i \in 1 .. n + 1 |-> i]
  <2> SUFFICES ASSUME ~short PROVE more = [i \in 1 .. n + 1 |-> i]
    OBVIOUS
  <2>1. all = [i \in 1 .. n |-> i]
    BY DEF Ordered
  <2> DEFINE count == [i \in 1 .. n + 1 |-> i]
  <2>2. Len(all) = n
    BY <1>1, <2>1, LenProperties
  <2>3. count \in Seq(Nat) /\ Len(count) = n + 1
    BY <1>1
  <2>4. \A i \in 1 .. n + 1 : more[i] = count[i]
    BY <1>1, <1>2, <2>1, <2>2
  <2> HIDE DEF count
  <2>5. more = count
    BY <1>2, <2>2, <2>3, <2>4, SeqEqual
  <2> QED
    BY <2>5 DEF count
<1> QED
  BY <1>1, <1>2, <1>3, <1>4, <1>5 DEF Ordered, more

LEMMA ThreeParts ==
  ASSUME NEW a \in Seq(Nat), NEW b \in Seq(Nat), NEW c \in Seq(Nat)
  PROVE  LET s == (a \o b) \o c
             two == Len(a) + Len(b)
         IN  /\ s \in Seq(Nat) /\ Len(s) = two + Len(c)
             /\ \A i \in 1 .. Len(s) :
                   /\ i <= Len(a) => s[i] = a[i]
                   /\ i > Len(a) /\ i <= two => s[i] = b[i - Len(a)]
                   /\ i > two => s[i] = c[i - two]
<1> DEFINE ab == a \o b
           s == ab \o c
           two == Len(a) + Len(b)
<1>1. Len(a) \in Nat /\ Len(b) \in Nat /\ Len(c) \in Nat
  BY LenProperties
<1>2. /\ ab \in Seq(Nat) /\ Len(ab) = two
      /\ \A i \in 1 .. two : ab[i] = IF i <= Len(a) THEN a[i] ELSE b[i - Len(a)]
  BY ConcatProperties
<1> HIDE DEF ab
<1>3. /\ s \in Seq(Nat) /\ Len(s) = two + Len(c)
      /\ \A i \in 1 .. two + Len(c) : s[i] = IF i <= two THEN ab[i] ELSE c[i - two]
  <2>1. /\ s \in Seq(Nat) /\ Len(s) = Len(ab) + Len(c)
        /\ \A i \in 1 .. Len(ab) + Len(c) : s[i] = IF i <= Len(ab) THEN ab[i] ELSE c[i - Len(ab)]
    <3>1. ab \in Seq(Nat)
      BY <1>2
    <3> QED
      BY <3>1, ConcatProperties
  <2> HIDE DEF s
  <2> QED
    BY <1>2, <2>1
<1> HIDE DEF s
<1>4. ASSUME NEW i \in 1 .. Len(s)
      PROVE  /\ i <= Len(a) => s[i] = a[i]
             /\ i > Len(a) /\ i <= two => s[i] = b[i - Len(a)]
             /\ i > two => s[i] = c[i - two]
  <2>1. i \in Nat /\ i \in 1 .. two + Len(c) /\ two \in Nat
    BY <1>1, <1>3
  <2>2. CASE i > two
    BY <1>1, <1>3, <2>1, <2>2
  <2>3. CASE i <= two
    <3>1. i \in 1 .. two /\ s[i] = ab[i]
      BY <1>1, <1>3, <2>1, <2>3
    <3>2. ab[i] = IF i <= Len(a) THEN a[i] ELSE b[i - Len(a)]
      BY <1>2, <3>1
    <3> QED
      BY <1>1, <2>1, <2>3, <3>1, <3>2
  <2> QED
    BY <1>1, <2>1, <2>2, <2>3
<1> QED
  BY <1>3, <1>4 DEF s, ab

\* The end of a middle part is lost.
LEMMA OrderedShort ==
  ASSUME NEW a \in Seq(Nat), NEW b \in Seq(Nat), NEW c \in Seq(Nat),
         NEW n, NEW short, Ordered((a \o b) \o c, n, short), NEW k \in 0 .. Len(b)
  PROVE  Ordered((a \o SubSeq(b, 1, k)) \o c, n, TRUE)
<1> DEFINE f == SubSeq(b, 1, k)
           s == (a \o b) \o c
           t == (a \o f) \o c
           G(i) == IF i <= Len(a) + k THEN i ELSE i + Len(b) - k
<1>1. Len(a) \in Nat /\ Len(b) \in Nat /\ Len(c) \in Nat /\ k \in Nat /\ k <= Len(b)
  BY LenProperties
<1>2. f \in Seq(Nat) /\ Len(f) = k /\ \A i \in 1 .. k : f[i] = b[i]
  <2>1. \A i \in 1 .. k : b[i] \in Nat
    BY <1>1
  <2> QED
    BY <1>1, <2>1, SubSeqProperties
<1> HIDE DEF f
<1>3. /\ s \in Seq(Nat) /\ Len(s) = Len(a) + Len(b) + Len(c)
      /\ \A i \in 1 .. Len(s) :
            /\ i <= Len(a) => s[i] = a[i]
            /\ i > Len(a) /\ i <= Len(a) + Len(b) => s[i] = b[i - Len(a)]
            /\ i > Len(a) + Len(b) => s[i] = c[i - (Len(a) + Len(b))]
  BY ThreeParts
<1>4. /\ t \in Seq(Nat) /\ Len(t) = Len(a) + k + Len(c)
      /\ \A i \in 1 .. Len(t) :
            /\ i <= Len(a) => t[i] = a[i]
            /\ i > Len(a) /\ i <= Len(a) + k => t[i] = f[i - Len(a)]
            /\ i > Len(a) + k => t[i] = c[i - (Len(a) + k)]
  <2>1. /\ t \in Seq(Nat) /\ Len(t) = Len(a) + Len(f) + Len(c)
        /\ \A i \in 1 .. Len(t) :
              /\ i <= Len(a) => t[i] = a[i]
              /\ i > Len(a) /\ i <= Len(a) + Len(f) => t[i] = f[i - Len(a)]
              /\ i > Len(a) + Len(f) => t[i] = c[i - (Len(a) + Len(f))]
    BY <1>2, ThreeParts
  <2> HIDE DEF t
  <2> QED
    BY <1>2, <2>1
<1>5. Ordered(s, n, short)
  OBVIOUS
<1> HIDE DEF s, t
<1>6. ASSUME NEW i \in 1 .. Len(t) PROVE G(i) \in 1 .. Len(s) /\ t[i] = s[G(i)]
  <2> DEFINE g == G(i)
  <2>1. i \in Nat /\ i >= 1 /\ i <= Len(a) + k + Len(c)
    BY <1>1, <1>4
  <2>2. g \in 1 .. Len(s)
    BY <1>1, <1>3, <2>1
  <2>3. CASE i <= Len(a)
    <3>1. g = i
      BY <1>1, <2>3
    <3> QED
      BY <1>3, <1>4, <2>2, <2>3, <3>1
  <2>4. CASE i > Len(a) /\ i <= Len(a) + k
    <3>1. g = i /\ i - Len(a) \in 1 .. k /\ i > Len(a) /\ i <= Len(a) + Len(b)
      BY <1>1, <2>1, <2>4
    <3> QED
      BY <1>2, <1>3, <1>4, <2>2, <2>4, <3>1
  <2>5. CASE i > Len(a) + k
    <3>1. /\ g > Len(a) + Len(b)
          /\ g - (Len(a) + Len(b)) = i - (Len(a) + k)
      BY <1>1, <2>1, <2>5
    <3>2. t[i] = c[i - (Len(a) + k)]
      BY <1>4, <2>5
    <3> HIDE DEF g
    <3>3. s[g] = c[g - (Len(a) + Len(b))]
      BY <1>3, <2>2, <3>1
    <3> QED
      BY <2>2, <3>1, <3>2, <3>3 DEF g
  <2> QED
    BY <1>1, <2>1, <2>3, <2>4, <2>5
<1>7. ASSUME NEW i \in 1 .. Len(t), NEW j \in 1 .. Len(t), i < j PROVE G(i) < G(j)
  BY <1>1, <1>4, <1>7
<1> HIDE DEF G
<1>8. \A i \in 1 .. Len(t) : t[i] <= n
  BY <1>5, <1>6 DEF Ordered
<1>9. \A i, j \in 1 .. Len(t) : i < j => t[i] < t[j]
  BY <1>5, <1>6, <1>7 DEF Ordered
<1>10. Ordered(t, n, TRUE)
  BY <1>4, <1>5, <1>8, <1>9 DEF Ordered
<1> QED
  BY <1>10 DEF t, f

Stream(t) == (conn[t].out \o InHand(t)) \o conn[t].in
EchoOf(t) ==
    pc[t] \in Using \ {"close"} => Ordered(Stream(t), conn[t].wrote, conn[t].cut)
EchoInv == \A t \in Tasks : EchoOf(t)

LEMMA ConnParts ==
  ASSUME ConnType, NEW t \in Tasks
  PROVE  /\ conn[t].out \in Seq(Nat) /\ conn[t].in \in Seq(Nat)
         /\ conn[t].wrote \in Nat /\ conn[t].cut \in BOOLEAN
  BY DEF ConnType, Connections

LEMMA HandTyped ==
  ASSUME BufferType, HandInv, NEW t \in Tasks
  PROVE  InHand(t) \in Seq(Nat)
  BY ReceivedTyped DEF InHand, HandInv

\* What a step of another task, or nothing, leaves of the stream.
LEMMA EchoUntouched ==
  ASSUME NEW u \in Tasks, EchoOf(u), pc'[u] = pc[u],
         buf'[u] = buf[u], r'[u] = r[u], conn'[u] = conn[u]
  PROVE  EchoOf(u)'
  BY DEF EchoOf, Stream, InHand, Received

\* A step that takes a task to no connection, or to its end.
LEMMA EchoAway ==
  ASSUME ControlType, EchoInv, NEW t \in Tasks, NEW from, NEW to, Goes(t, from, to),
         to \notin Using \ {"close"},
         \A u \in Tasks : u # t => buf'[u] = buf[u] /\ r'[u] = r[u] /\ conn'[u] = conn[u]
  PROVE  EchoInv'
<1>1. ASSUME NEW u \in Tasks PROVE EchoOf(u)'
  BY EchoUntouched DEF EchoInv, EchoOf, Goes, ControlType
<1> QED
  BY <1>1 DEF EchoInv

LEMMA EchoOpens ==
  ASSUME ControlType, ConnType, EchoInv, NEW t \in Tasks, NEW from, Goes(t, from, "hello"),
         SetTimeouts(t)
  PROVE  EchoInv'
<1>1. EchoOf(t)'
  <2>1. /\ pc'[t] = "hello" /\ conn'[t].out = <<>> /\ conn'[t].in = <<>>
        /\ conn'[t].wrote = 0 /\ conn'[t].cut = FALSE
    BY DEF Goes, ControlType, SetTimeouts, NewConnection, ConnType
  <2>2. Stream(t)' = <<>>
    <3>1. InHand(t)' = <<>>
      BY <2>1 DEF InHand
    <3> QED
      BY <2>1, <3>1, ConcatEmptySeq DEF Stream
  <2> QED
    BY <2>1, <2>2, OrderedEmpty DEF EchoOf
<1>2. ASSUME NEW u \in Tasks, u # t PROVE EchoOf(u)'
  BY <1>2, EchoUntouched DEF EchoInv, Goes, ControlType, SetTimeouts, ConnType
<1> QED
  BY <1>1, <1>2 DEF EchoInv

\* The texts leave the stream as it is.
LEMMA EchoText ==
  ASSUME ControlType, ConnType, EchoInv, NEW t \in Tasks,
         NEW from, NEW to, Send(t, <<>>, from, to),
         \/ from = "hello" /\ to = "recv"
         \/ from = "intro" /\ to = "echo"
  PROVE  EchoInv'
<1>1. CASE Goes(t, from, "close") /\ UNCHANGED conn
  BY <1>1, EchoAway DEF Send, Using
<1>2. CASE Goes(t, from, to)
  <2>1. conn'[t].out = conn[t].out /\ conn'[t].cut = conn[t].cut
        /\ conn'[t].in = conn[t].in /\ conn'[t].wrote = conn[t].wrote
    <3>1. conn[t].out \o <<>> = conn[t].out
      BY ConnParts, ConcatEmptySeq
    <3>2. ASSUME NEW k \in 0 .. Len(<<>>) PROVE SubSeq(<<>>, 1, k) = <<>>
      BY SubSeqEmpty
    <3>3. (conn[t].cut \/ <<>> # <<>>) = conn[t].cut
      BY ConnParts
    <3>4. conn[t] \in Connections
      BY DEF ConnType
    <3>5. CASE conn' = [conn EXCEPT ![t].out = @ \o <<>>]
      BY <3>1, <3>4, <3>5 DEF ConnType, Connections
    <3>6. ASSUME NEW k \in 0 .. Len(<<>>),
                 conn' = [conn EXCEPT ![t].out = @ \o SubSeq(<<>>, 1, k),
                                      ![t].cut = @ \/ <<>> # <<>>]
          PROVE  /\ conn'[t].out = conn[t].out /\ conn'[t].cut = conn[t].cut
                 /\ conn'[t].in = conn[t].in /\ conn'[t].wrote = conn[t].wrote
      BY <3>1, <3>2, <3>3, <3>4, <3>6 DEF ConnType, Connections
    <3>7. CASE UNCHANGED conn
      BY <3>7
    <3> QED
      BY <3>5, <3>6, <3>7 DEF Send
  <2>2. pc[t] = from /\ pc'[t] = to /\ buf' = buf /\ r' = r
    BY <1>2 DEF Goes, Send, ControlType
  <2>3. EchoOf(t)'
    <3>1. InHand(t)' = InHand(t)
      BY <2>2 DEF InHand, Received
    <3>2. Stream(t)' = Stream(t)
      BY <2>1, <3>1 DEF Stream
    <3>3. Ordered(Stream(t), conn[t].wrote, conn[t].cut)
      BY <2>2 DEF EchoInv, EchoOf, Using
    <3> QED
      BY <2>1, <3>2, <3>3 DEF EchoOf
  <2>4. ASSUME NEW u \in Tasks, u # t PROVE EchoOf(u)'
    BY <1>2, <2>2, <2>4, EchoUntouched DEF EchoInv, Goes, Send, ControlType, ConnType
  <2> QED
    BY <2>3, <2>4 DEF EchoInv
<1> QED
  BY <1>1, <1>2 DEF Send

LEMMA EchoEcho ==
  ASSUME ControlType, BufferType, ConnType, HandInv, EchoInv, NEW t \in Tasks, Echo(t)
  PROVE  EchoInv'
<1> DEFINE what == Received(t)
           out == conn[t].out
           in == conn[t].in
<1>1. pc[t] = "echo" /\ buf' = buf /\ r' = r
  BY DEF Echo, Send, Goes
<1>2. what = InHand(t) /\ what \in Seq(Nat) /\ what # <<>>
  <2>1. what \in Seq(Nat) /\ Len(what) = r[t] /\ r[t] \in 1 .. Len(buf[t])
    BY <1>1, ReceivedTyped DEF HandInv
  <2> QED
    BY <1>1, <2>1 DEF InHand
<1>3. out \in Seq(Nat) /\ in \in Seq(Nat)
  BY ConnParts
<1>4. Ordered((out \o what) \o in, conn[t].wrote, conn[t].cut)
  BY <1>1, <1>2 DEF EchoInv, EchoOf, Using, Stream
<1>5. CASE Goes(t, "echo", "close") /\ UNCHANGED conn
  BY <1>1, <1>5, EchoAway DEF Using
<1>6. ASSUME NEW k \in 0 .. Len(what), Goes(t, "echo", "recv"),
             conn'[t].out = out \o SubSeq(what, 1, k), conn'[t].in = in,
             conn'[t].wrote = conn[t].wrote,
             \A u \in Tasks : u # t => conn'[u] = conn[u],
             \/ k = Len(what) /\ conn'[t].cut = conn[t].cut
             \/ conn'[t].cut = TRUE
      PROVE  EchoInv'
  <2>1. pc'[t] = "recv" /\ InHand(t)' = <<>>
    BY <1>6 DEF Goes, ControlType, InHand
  <2>2. Ordered((out \o SubSeq(what, 1, k)) \o in, conn[t].wrote, conn'[t].cut)
    <3>1. CASE k = Len(what) /\ conn'[t].cut = conn[t].cut
      BY <1>2, <1>4, <3>1, SubSeqFull
    <3>2. CASE conn'[t].cut = TRUE
      BY <1>2, <1>3, <1>4, <3>2, OrderedShort
    <3> QED
      BY <1>6, <3>1, <3>2
  <2>3. Stream(t)' = (out \o SubSeq(what, 1, k)) \o in
    <3>1. SubSeq(what, 1, k) \in Seq(Nat)
      <4>1. \A i \in 1 .. k : what[i] \in Nat
        BY <1>2, LenProperties
      <4> QED
        BY <4>1, SubSeqProperties
    <3>2. out \o SubSeq(what, 1, k) \in Seq(Nat)
      BY <1>3, <3>1, ConcatProperties
    <3>3. (out \o SubSeq(what, 1, k)) \o <<>> = out \o SubSeq(what, 1, k)
      BY <3>2, ConcatEmptySeq
    <3> QED
      BY <1>6, <2>1, <3>3 DEF Stream
  <2>4. EchoOf(t)'
    BY <1>6, <2>2, <2>3 DEF EchoOf
  <2>5. ASSUME NEW u \in Tasks, u # t PROVE EchoOf(u)'
    BY <1>1, <1>6, <2>5, EchoUntouched DEF EchoInv, Goes, ControlType
  <2> QED
    BY <2>4, <2>5 DEF EchoInv
<1>7. CASE Goes(t, "echo", "recv") /\ conn' = [conn EXCEPT ![t].out = @ \o what]
  <2>1. Len(what) \in 0 .. Len(what) /\ SubSeq(what, 1, Len(what)) = what
    BY <1>2, SubSeqFull, LenProperties
  <2>2. /\ conn'[t].out = out \o what /\ conn'[t].in = in
        /\ conn'[t].wrote = conn[t].wrote /\ conn'[t].cut = conn[t].cut
        /\ \A u \in Tasks : u # t => conn'[u] = conn[u]
    BY <1>7 DEF ConnType, Connections
  <2> QED
    BY <1>6, <1>7, <2>1, <2>2
<1>8. ASSUME NEW k \in 0 .. Len(what), Goes(t, "echo", "recv"),
             conn' = [conn EXCEPT ![t].out = @ \o SubSeq(what, 1, k),
                                  ![t].cut = @ \/ what # <<>>]
      PROVE  EchoInv'
  <2>1. /\ conn'[t].out = out \o SubSeq(what, 1, k) /\ conn'[t].in = in
        /\ conn'[t].wrote = conn[t].wrote /\ conn'[t].cut = TRUE
        /\ \A u \in Tasks : u # t => conn'[u] = conn[u]
    BY <1>2, <1>8 DEF ConnType, Connections
  <2> QED
    BY <1>6, <1>8, <2>1
<1> QED
  BY <1>5, <1>7, <1>8 DEF Echo, Send

LEMMA EchoReceives ==
  ASSUME ControlType, BufferType, ConnType, EchoInv, NEW t \in Tasks, RecvData(t)
  PROVE  EchoInv'
<1> DEFINE out == conn[t].out
           in == conn[t].in
<1>1. PICK k \in 1 .. Capacity :
        /\ k <= Len(in)
        /\ r' = [r EXCEPT ![t] = k]
        /\ buf' = [buf EXCEPT ![t] = SubSeq(in, 1, k) \o <<0>>
                                       \o SubSeq(buf[t], k + 2, Len(buf[t]))]
        /\ conn' = [conn EXCEPT ![t].in = SubSeq(@, k + 1, Len(@))]
  BY DEF RecvData
<1>2. out \in Seq(Nat) /\ in \in Seq(Nat) /\ buf[t] \in Seq(Nat) /\ Len(buf[t]) <= BufSize
  BY ConnParts DEF BufferType
<1>3. pc[t] = "recv" /\ pc'[t] = "intro"
  BY DEF RecvData, Goes, ControlType
<1> DEFINE front == SubSeq(in, 1, k)
           back == SubSeq(in, k + 1, Len(in))
<1>4. InHand(t)' = front
  <2>1. SubSeq(buf'[t], 1, k) = front
    BY <1>1, <1>2, Overlay DEF BufferType
  <2>2. r'[t] = k
    BY <1>1 DEF BufferType
  <2> QED
    BY <1>3, <2>1, <2>2 DEF InHand, Received
<1>5. /\ conn'[t].out = out /\ conn'[t].in = back
      /\ conn'[t].wrote = conn[t].wrote /\ conn'[t].cut = conn[t].cut
  BY <1>1 DEF ConnType, Connections
<1>6. (out \o front) \o back = (out \o <<>>) \o in
  <2>1. k \in 1 .. Len(in) /\ Len(in) \in Nat
    BY <1>1, <1>2, LoopbackAssumption, LenProperties DEF Capacity
  <2>2. front \in Seq(Nat) /\ back \in Seq(Nat)
    <3>1. (\A i \in 1 .. k : in[i] \in Nat) /\ (\A i \in k + 1 .. Len(in) : in[i] \in Nat)
      BY <1>2, <2>1
    <3> QED
      BY <2>1, <3>1, SubSeqProperties
  <2>3. front \o back = in
    BY <1>2, <2>1, ConcatAdjacentSubSeq, SubSeqFull
  <2>4. out \o <<>> = out
    BY <1>2, ConcatEmptySeq
  <2>5. (out \o front) \o back = out \o (front \o back)
    <3>1. out \in Seq(Nat)
      BY <1>2
    <3>2. front \in Seq(Nat)
      BY <2>2
    <3>3. back \in Seq(Nat)
      BY <2>2
    <3> HIDE DEF out, in, front, back
    <3> QED
      BY <3>1, <3>2, <3>3, ConcatAssociative
  <2> QED
    BY <2>3, <2>4, <2>5
<1>7. Stream(t)' = Stream(t)
  BY <1>3, <1>4, <1>5, <1>6 DEF Stream, InHand
<1>8. EchoOf(t)'
  BY <1>3, <1>5, <1>7 DEF EchoInv, EchoOf, Using
<1>9. ASSUME NEW u \in Tasks, u # t PROVE EchoOf(u)'
  BY <1>1, <1>9, EchoUntouched DEF EchoInv, RecvData, Goes, ControlType, BufferType, ConnType
<1> QED
  BY <1>8, <1>9 DEF EchoInv

LEMMA EchoPeer ==
  ASSUME ConnType, BufferType, HandInv, EchoInv, NEW t \in Tasks,
         PeerSends(t) \/ PeerStalls(t) \/ PeerCloses(t)
  PROVE  EchoInv'
<1> DEFINE out == conn[t].out
           in == conn[t].in
           n == conn[t].wrote
<1>1. UNCHANGED <<pc, buf, r>> /\ InHand(t)' = InHand(t)
  BY DEF PeerSends, PeerStalls, PeerCloses, Peer, InHand, Received
<1>2. conn[t] \in Connections /\ out \in Seq(Nat) /\ in \in Seq(Nat) /\ n \in Nat
  BY ConnParts DEF ConnType
<1>3. ASSUME NEW u \in Tasks, u # t PROVE EchoOf(u)'
  BY <1>1, <1>3, EchoUntouched DEF EchoInv, PeerSends, PeerStalls, PeerCloses, Peer, ConnType
<1>4. EchoOf(t)'
  <2> SUFFICES ASSUME pc[t] \in Using \ {"close"}
               PROVE  Ordered(Stream(t)', conn'[t].wrote, conn'[t].cut)
    BY <1>1 DEF EchoOf
  <2>1. Ordered(Stream(t), n, conn[t].cut)
    BY DEF EchoInv, EchoOf
  <2>2. CASE PeerStalls(t) \/ PeerCloses(t)
    <3>1. /\ conn'[t].out = out /\ conn'[t].in = in /\ conn'[t].wrote = n
          /\ conn'[t].cut = conn[t].cut
      BY <1>2, <2>2 DEF PeerStalls, PeerCloses, Peer, ConnType, Connections
    <3> QED
      BY <1>1, <2>1, <3>1 DEF Stream
  <2>3. CASE PeerSends(t)
    <3>1. /\ conn'[t].out = out /\ conn'[t].in = Append(in, n + 1)
          /\ conn'[t].wrote = n + 1 /\ conn'[t].cut = conn[t].cut
      BY <1>2, <2>3 DEF PeerSends, Peer, ConnType, Connections
    <3> DEFINE before == out \o InHand(t)
    <3>2. before \in Seq(Nat) /\ n + 1 \in Nat /\ <<n + 1>> \in Seq(Nat)
      BY <1>2, HandTyped, ConcatProperties
    <3> HIDE DEF before
    <3>3. before \o Append(in, n + 1) = Append(before \o in, n + 1)
      <4>1. before \o in \in Seq(Nat)
        BY <1>2, <3>2, ConcatProperties
      <4>2. Append(in, n + 1) = in \o <<n + 1>>
        BY <1>2, <3>2, AppendIsConcat
      <4>3. Append(before \o in, n + 1) = (before \o in) \o <<n + 1>>
        BY <3>2, <4>1, AppendIsConcat
      <4>4. (before \o in) \o <<n + 1>> = before \o (in \o <<n + 1>>)
        <5>1. in \in Seq(Nat)
          BY <1>2
        <5> HIDE DEF in
        <5> QED
          BY <3>2, <5>1, ConcatAssociative
      <4> QED
        BY <4>2, <4>3, <4>4
    <3>4. Stream(t)' = Append(Stream(t), n + 1)
      BY <1>1, <3>1, <3>3 DEF Stream, before
    <3> QED
      BY <2>1, <3>1, <3>4, OrderedAppend
  <2> QED
    BY <2>2, <2>3
<1> QED
  BY <1>3, <1>4 DEF EchoInv

LEMMA EchoStep == TypeOK /\ HandInv /\ EchoInv /\ [Next]_vars => EchoInv'
<1> SUFFICES ASSUME ControlType, BufferType, ConnType, HandInv, EchoInv, [Next]_vars
             PROVE  EchoInv'
  BY TypeParts
<1>1. ASSUME UNCHANGED <<pc, dataVars>> PROVE EchoInv'
  BY <1>1, EchoUntouched DEF dataVars, EchoInv
<1>2. ASSUME NEW t \in Tasks, NEW from, NEW to, Goes(t, from, to), UNCHANGED dataVars,
             to \notin Using \ {"close"}
      PROVE  EchoInv'
  BY <1>2, EchoAway DEF dataVars
<1>3. ASSUME NEW t \in Tasks, Close(t) PROVE EchoInv'
  <2>1. \A u \in Tasks : u # t => buf'[u] = buf[u] /\ r'[u] = r[u] /\ conn'[u] = conn[u]
    BY <1>3 DEF Close, BufferType, ConnType
  <2> QED
    BY <1>3, <2>1, EchoAway DEF Close, Using
<1>4. ASSUME NEW t \in Tasks, Handle(t) PROVE EchoInv'
  <2>1. CASE Hello(t) \/ Intro(t)
    BY <2>1, EchoText DEF Hello, Intro
  <2>2. CASE WaitLink(t) \/ RecvEnds(t)
    BY <1>2, <2>2 DEF WaitLink, RecvEnds, Using
  <2> QED
    BY <1>3, <1>4, <2>1, <2>2, EchoEcho, EchoReceives DEF Handle
<1>5. CASE Server
  <2>1. CASE ServerSocket \/ Prepare("bind", "listen") \/ Prepare("listen", "accept")
             \/ AcceptFails
    BY <1>2, <2>1 DEF ServerSocket, Prepare, AcceptFails, Tasks, Using
  <2>2. CASE Accept
    BY <2>2, EchoOpens DEF Accept, Tasks
  <2> QED
    BY <1>4, <1>5, <2>1, <2>2 DEF Server, Tasks
<1>6. CASE Client
  <2>1. CASE ClientSocket \/ ConnectFails \/ Delay
    BY <1>2, <2>1 DEF ClientSocket, ConnectFails, Delay, Tasks, Using
  <2>2. CASE Connect
    BY <2>2, EchoOpens DEF Connect, Tasks
  <2> QED
    BY <1>4, <1>6, <2>1, <2>2 DEF Client, Tasks
<1>7. CASE Environment \/ UNCHANGED vars
  BY <1>1, <1>7, EchoPeer DEF Environment, LinkComesUp, PeerConnects, vars
<1> QED
  BY <1>5, <1>6, <1>7 DEF Next

\* What a task sends back are the pieces it was sent, none twice and none out of
\* order, and none is missing unless a send was short.
THEOREM EchoIsFaithful == Spec => []EchoFaithful
<1>1. Init => EchoInv
  BY DEF Init, EchoInv, EchoOf, Using
<1>2. EchoInv => EchoFaithful
  BY DEF EchoInv, EchoOf, EchoFaithful, Ordered, Stream
<1> QED
  BY <1>1, <1>2, EchoStep, TypeCorrect, PTL DEF Spec

-----------------------------------------------------------------------------
(* Why a connection ends: no call in it can wait for ever, and each step of  *)
(* its task takes one from a number that the peer cannot raise.              *)

\* Both time-outs are set throughout a connection, which is what ends a wait
\* for the peer in recv and send.
Timed == \A t \in Tasks : pc[t] \in Using => conn[t].timed
WroteInv == \A t \in Tasks : conn[t].wrote <= MaxPieces[t]

\* The pieces that tcp_loopback has still to receive, and from them the steps
\* that are left: three for a piece, and those of the turn it is in.
StillToCome(t) == (MaxPieces[t] - conn[t].wrote) + Len(conn[t].in)
Place == [hello |-> 2, recv |-> 1, intro |-> 3, echo |-> 2, close |-> 0]
StepsLeft(t) == 3 * StillToCome(t) + Place[pc[t]]

\* What a step of t does to its connection, and that it leaves the other alone.
LEMMA SendChange ==
  ASSUME ControlType, ConnType, NEW t \in Tasks, NEW what, NEW from, NEW to,
         Send(t, what, from, to)
  PROVE  /\ pc[t] = from /\ pc'[t] \in {to, "close"}
         /\ conn'[t].wrote = conn[t].wrote /\ conn'[t].in = conn[t].in
         /\ conn'[t].timed = conn[t].timed
         /\ \A u \in Tasks \ {t} : pc'[u] = pc[u] /\ conn'[u] = conn[u]
<1>1. conn \in [Tasks -> Connections]
  BY DEF ConnType
<1>2. pc[t] = from /\ pc'[t] \in {to, "close"} /\ \A u \in Tasks \ {t} : pc'[u] = pc[u]
  BY DEF Send, Goes, ControlType
<1>3. CASE conn' = [conn EXCEPT ![t].out = @ \o what]
  BY <1>1, <1>2, <1>3 DEF Connections
<1>4. ASSUME NEW k \in 0 .. Len(what),
             conn' = [conn EXCEPT ![t].out = @ \o SubSeq(what, 1, k),
                                  ![t].cut = @ \/ what # <<>>]
      PROVE  /\ conn'[t].wrote = conn[t].wrote /\ conn'[t].in = conn[t].in
             /\ conn'[t].timed = conn[t].timed
             /\ \A u \in Tasks \ {t} : conn'[u] = conn[u]
  BY <1>1, <1>4 DEF Connections
<1>5. CASE UNCHANGED conn
  BY <1>2, <1>5
<1> QED
  BY <1>2, <1>3, <1>4, <1>5 DEF Send

LEMMA RecvChange ==
  ASSUME ControlType, ConnType, NEW t \in Tasks, RecvData(t)
  PROVE  /\ pc[t] = "recv" /\ pc'[t] = "intro"
         /\ conn'[t].wrote = conn[t].wrote /\ conn'[t].timed = conn[t].timed
         /\ Len(conn[t].in) \in Nat /\ Len(conn'[t].in) \in Nat
         /\ Len(conn'[t].in) < Len(conn[t].in)
         /\ \A u \in Tasks \ {t} : pc'[u] = pc[u] /\ conn'[u] = conn[u]
<1>1. pc[t] = "recv" /\ pc'[t] = "intro" /\ \A u \in Tasks \ {t} : pc'[u] = pc[u]
  BY DEF RecvData, Goes, ControlType
<1>2. PICK k \in 1 .. Capacity :
        k <= Len(conn[t].in) /\ conn' = [conn EXCEPT ![t].in = SubSeq(@, k + 1, Len(@))]
  BY DEF RecvData
<1>3. conn[t] \in Connections /\ conn[t].in \in Seq(Nat)
  BY DEF ConnType, Connections
<1>4. /\ conn'[t].in = SubSeq(conn[t].in, k + 1, Len(conn[t].in))
      /\ conn'[t].wrote = conn[t].wrote /\ conn'[t].timed = conn[t].timed
      /\ \A u \in Tasks \ {t} : conn'[u] = conn[u]
  BY <1>2, <1>3 DEF ConnType, Connections
<1>5. Len(conn[t].in) \in Nat /\ k \in Nat /\ k >= 1
  BY <1>3, LenProperties, LoopbackAssumption DEF Capacity
<1>6. Len(conn'[t].in) = Len(conn[t].in) - k
  <2>1. \A i \in k + 1 .. Len(conn[t].in) : conn[t].in[i] \in Nat
    BY <1>3, <1>5
  <2>2. Len(SubSeq(conn[t].in, k + 1, Len(conn[t].in))) =
          IF k + 1 <= Len(conn[t].in) THEN Len(conn[t].in) - k ELSE 0
    BY <1>3, <1>5, <2>1, SubSeqProperties
  <2> QED
    BY <1>2, <1>4, <1>5, <2>2
<1> QED
  BY <1>1, <1>2, <1>4, <1>5, <1>6

\* The peer of t sends, stalls or closes: what is still to come stays.
LEMMA PeerChange ==
  ASSUME ControlType, ConnType, WroteInv, NEW t \in Tasks,
         PeerSends(t) \/ PeerStalls(t) \/ PeerCloses(t)
  PROVE  /\ pc' = pc /\ conn'[t].timed = conn[t].timed
         /\ conn'[t].wrote <= MaxPieces[t] /\ StillToCome(t)' = StillToCome(t)
         /\ \A u \in Tasks \ {t} : conn'[u] = conn[u]
<1>1. conn[t] \in Connections /\ conn[t].wrote \in Nat /\ conn[t].in \in Seq(Nat)
  BY DEF ConnType, Connections
<1>2. pc' = pc /\ \A u \in Tasks \ {t} : conn'[u] = conn[u]
  BY DEF PeerSends, PeerStalls, PeerCloses, Peer, ConnType
<1>3. MaxPieces[t] \in Nat /\ Len(conn[t].in) \in Nat
  BY <1>1, LenProperties, LoopbackAssumption
<1>4. CASE PeerSends(t)
  <2>1. /\ conn[t].wrote < MaxPieces[t] /\ conn'[t].wrote = conn[t].wrote + 1
        /\ conn'[t].in = Append(conn[t].in, conn[t].wrote + 1)
        /\ conn'[t].timed = conn[t].timed
    BY <1>1, <1>4 DEF PeerSends, Peer, ConnType, Connections
  <2>2. Len(conn'[t].in) = Len(conn[t].in) + 1
    BY <1>1, <2>1, AppendProperties
  <2>3. StillToCome(t)' = (MaxPieces[t] - (conn[t].wrote + 1)) + (Len(conn[t].in) + 1)
    BY <2>1, <2>2, Zenon DEF StillToCome
  <2>4. (MaxPieces[t] - (conn[t].wrote + 1)) + (Len(conn[t].in) + 1) = StillToCome(t)
    <3> DEFINE w == conn[t].wrote
               l == Len(conn[t].in)
               m == MaxPieces[t]
    <3>1. w \in Nat /\ l \in Nat /\ m \in Nat
      BY <1>1, <1>3
    <3> HIDE DEF w, l, m
    <3>2. (m - (w + 1)) + (l + 1) = (m - w) + l
      BY <3>1
    <3> QED
      BY <3>2, Zenon DEF StillToCome, w, l, m
  <2>5. conn'[t].wrote <= MaxPieces[t]
    BY <1>1, <1>3, <2>1
  <2> QED
    BY <1>2, <2>1, <2>3, <2>4, <2>5
<1>5. CASE PeerStalls(t) \/ PeerCloses(t)
  <2>1. /\ conn'[t].wrote = conn[t].wrote /\ conn'[t].in = conn[t].in
        /\ conn'[t].timed = conn[t].timed
    BY <1>1, <1>5 DEF PeerStalls, PeerCloses, Peer, ConnType, Connections
  <2> QED
    BY <1>2, <2>1 DEF StillToCome, WroteInv
<1> QED
  BY <1>4, <1>5

LEMMA SetTimeoutsChange ==
  ASSUME ConnType, NEW t \in Tasks, SetTimeouts(t)
  PROVE  /\ conn'[t].timed /\ conn'[t].wrote = 0
         /\ \A u \in Tasks \ {t} : conn'[u] = conn[u]
  BY DEF SetTimeouts, ConnType, Connections, NewConnection

LEMMA CloseChange ==
  ASSUME ControlType, ConnType, NEW t \in Tasks, Close(t)
  PROVE  /\ pc[t] = "close" /\ pc'[t] \notin Using /\ conn'[t].wrote = 0
         /\ \A u \in Tasks \ {t} : pc'[u] = pc[u] /\ conn'[u] = conn[u]
  BY DEF Close, Goes, ControlType, ConnType, Connections, NewConnection, Using

\* Every other step leaves the connections, and brings no task into one.
LEMMA OtherChange ==
  ASSUME ControlType, ConnType, [Next]_vars
  PROVE  \/ \E t \in Tasks : \/ Hello(t) \/ Intro(t) \/ Echo(t) \/ RecvData(t) \/ Close(t)
                             \/ PeerSends(t) \/ PeerStalls(t) \/ PeerCloses(t)
         \/ \E t \in Tasks : /\ SetTimeouts(t) /\ pc[t] \notin Using /\ pc'[t] \in Using
                             /\ \A u \in Tasks \ {t} : pc'[u] = pc[u]
         \/ /\ conn' = conn
            /\ \A t \in Tasks : \/ pc'[t] = pc[t] \/ pc'[t] \notin Using
                                \/ pc[t] = "recv" /\ pc'[t] = "close"
<1> DEFINE Same == /\ conn' = conn
                   /\ \A t \in Tasks : \/ pc'[t] = pc[t] \/ pc'[t] \notin Using
                                       \/ pc[t] = "recv" /\ pc'[t] = "close"
<1>1. ASSUME NEW t \in Tasks, WaitLink(t) \/ RecvEnds(t) PROVE Same
  BY <1>1 DEF WaitLink, RecvEnds, Goes, ControlType, dataVars, Using
<1>2. CASE \/ ServerSocket \/ Prepare("bind", "listen") \/ Prepare("listen", "accept")
           \/ AcceptFails
  BY <1>2 DEF ServerSocket, Prepare, AcceptFails, Goes, ControlType, dataVars, Using, Tasks
<1>3. CASE ClientSocket \/ ConnectFails \/ Delay
  BY <1>3 DEF ClientSocket, ConnectFails, Delay, Goes, ControlType, dataVars, Using, Tasks
<1>4. CASE Accept \/ Connect
  BY <1>4 DEF Accept, Connect, Goes, ControlType, Using, Tasks
<1>5. CASE LinkComesUp \/ PeerConnects \/ UNCHANGED vars
  BY <1>5 DEF LinkComesUp, PeerConnects, dataVars, vars
<1> QED
  BY <1>1, <1>2, <1>3, <1>4, <1>5 DEF Next, Server, Client, Environment, Handle, Tasks

LEMMA ConnectionStep ==
  ASSUME TypeOK, HandInv, Timed, WroteInv, [Next]_vars
  PROVE  Timed' /\ WroteInv'
<1>1. ControlType /\ ConnType
  BY TypeParts
<1>2. \A t \in Tasks : MaxPieces[t] \in Nat
  BY LoopbackAssumption
<1>3. ASSUME NEW t \in Tasks, Hello(t) \/ Intro(t) \/ Echo(t) PROVE Timed' /\ WroteInv'
  BY <1>1, <1>3, SendChange DEF Hello, Intro, Echo, Timed, WroteInv, Using
<1>4. ASSUME NEW t \in Tasks, RecvData(t) PROVE Timed' /\ WroteInv'
  BY <1>1, <1>4, RecvChange DEF Timed, WroteInv, Using
<1>5. ASSUME NEW t \in Tasks, Close(t) PROVE Timed' /\ WroteInv'
  BY <1>1, <1>2, <1>5, CloseChange DEF Timed, WroteInv
<1>6. ASSUME NEW t \in Tasks, PeerSends(t) \/ PeerStalls(t) \/ PeerCloses(t)
      PROVE  Timed' /\ WroteInv'
  BY <1>1, <1>6, PeerChange DEF Timed, WroteInv
<1>7. ASSUME NEW t \in Tasks, SetTimeouts(t), \A u \in Tasks \ {t} : pc'[u] = pc[u]
      PROVE  Timed' /\ WroteInv'
  BY <1>1, <1>2, <1>7, SetTimeoutsChange DEF Timed, WroteInv
<1>8. ASSUME conn' = conn,
             \A t \in Tasks : \/ pc'[t] = pc[t] \/ pc'[t] \notin Using
                              \/ pc[t] = "recv" /\ pc'[t] = "close"
      PROVE  Timed' /\ WroteInv'
  BY <1>8 DEF Timed, WroteInv, Using
<1> QED
  BY <1>1, <1>3, <1>4, <1>5, <1>6, <1>7, <1>8, OtherChange

\* Throughout a connection of either task both time-outs are set: no call to
\* recv or send in tcp_loopback can wait for its peer for ever.
THEOREM NoCallWithoutTimeout == Spec => []Timed
<1>1. Init => Timed /\ WroteInv
  BY LoopbackAssumption DEF Init, Timed, WroteInv, Using, NewConnection
<1>2. TypeOK /\ HandInv /\ Timed /\ WroteInv /\ [Next]_vars => (Timed /\ WroteInv)'
  BY ConnectionStep
<1> QED
  BY <1>1, <1>2, TypeCorrect, PTL DEF Spec

\* The number of steps left is a natural number that no step raises and each
\* step of the connection's task makes less.
CountsDown ==
    \A t \in Tasks : pc[t] \in Using /\ pc'[t] \in Using =>
        /\ StepsLeft(t) \in Nat /\ StepsLeft(t)' <= StepsLeft(t)
        /\ pc'[t] # pc[t] => StepsLeft(t)' < StepsLeft(t)

LEMMA StepsLeftIsNat ==
  ASSUME ConnType, WroteInv, NEW t \in Tasks
  PROVE  /\ StillToCome(t) \in Nat
         /\ pc[t] \in Using => Place[pc[t]] \in Nat /\ StepsLeft(t) \in Nat
<1>1. conn[t].wrote \in Nat /\ conn[t].wrote <= MaxPieces[t] /\ MaxPieces[t] \in Nat
  BY LoopbackAssumption DEF ConnType, Connections, WroteInv
<1>2. Len(conn[t].in) \in Nat
  BY LenProperties DEF ConnType, Connections
<1>3. StillToCome(t) \in Nat
  BY <1>1, <1>2 DEF StillToCome
<1>4. pc[t] \in Using => Place[pc[t]] \in Nat
  BY DEF Place, Using
<1> QED
  BY <1>3, <1>4 DEF StepsLeft

\* Where what is still to come stays, the place decides.
LEMMA PlaceDecides ==
  ASSUME ConnType, WroteInv, NEW t \in Tasks, StillToCome(t)' = StillToCome(t),
         pc[t] \in Using, pc'[t] \in Using
  PROVE  /\ pc'[t] = pc[t] => StepsLeft(t)' = StepsLeft(t)
         /\ Place[pc'[t]] < Place[pc[t]] => StepsLeft(t)' < StepsLeft(t)
<1>1. StillToCome(t) \in Nat /\ Place[pc[t]] \in Nat /\ Place[pc'[t]] \in Nat
  BY StepsLeftIsNat DEF Place, Using
<1> QED
  BY <1>1 DEF StepsLeft

LEMMA StepCountsDown ==
  ASSUME TypeOK, WroteInv, [Next]_vars
  PROVE  CountsDown
<1>1. ControlType /\ ConnType
  BY TypeParts
<1>2. ASSUME NEW u \in Tasks, pc'[u] = pc[u], conn'[u] = conn[u],
             pc[u] \in Using, pc'[u] \in Using
      PROVE  StepsLeft(u) \in Nat /\ StepsLeft(u)' = StepsLeft(u)
  BY <1>1, <1>2, StepsLeftIsNat DEF StepsLeft, StillToCome
<1> DEFINE Down(u) == pc[u] \in Using /\ pc'[u] \in Using =>
                        /\ StepsLeft(u) \in Nat /\ StepsLeft(u)' <= StepsLeft(u)
                        /\ pc'[u] # pc[u] => StepsLeft(u)' < StepsLeft(u)
<1>3. ASSUME NEW u \in Tasks, pc'[u] = pc[u], conn'[u] = conn[u] PROVE Down(u)
  BY <1>2, <1>3
<1>4. ASSUME NEW t \in Tasks, Hello(t) \/ Intro(t) \/ Echo(t) PROVE \A u \in Tasks : Down(u)
  <2>1. \A u \in Tasks \ {t} : Down(u)
    BY <1>1, <1>3, <1>4, SendChange DEF Hello, Intro, Echo
  <2>2. /\ StillToCome(t)' = StillToCome(t)
        /\ pc[t] \in Using /\ pc'[t] \in Using /\ pc'[t] # pc[t]
        /\ Place[pc'[t]] < Place[pc[t]]
    BY <1>1, <1>4, SendChange DEF Hello, Intro, Echo, StillToCome, Place, Using
  <2>3. StepsLeft(t) \in Nat /\ StepsLeft(t)' < StepsLeft(t)
    BY <1>1, <2>2, StepsLeftIsNat, PlaceDecides
  <2>4. StepsLeft(t)' \in Nat
    <3>1. StillToCome(t)' \in Nat /\ Place[pc'[t]] \in Nat
      BY <1>1, <2>2, StepsLeftIsNat DEF Place, Using
    <3> QED
      BY <3>1 DEF StepsLeft
  <2>5. Down(t)
    BY <2>3, <2>4
  <2> QED
    BY <2>1, <2>5
<1>5. ASSUME NEW t \in Tasks, RecvData(t) PROVE \A u \in Tasks : Down(u)
  <2>1. \A u \in Tasks \ {t} : Down(u)
    BY <1>1, <1>3, <1>5, RecvChange
  <2>2. /\ pc[t] = "recv" /\ pc'[t] = "intro" /\ conn'[t].wrote = conn[t].wrote
        /\ Len(conn[t].in) \in Nat /\ Len(conn'[t].in) \in Nat
        /\ Len(conn'[t].in) < Len(conn[t].in)
    BY <1>1, <1>5, RecvChange
  <2>3. conn[t].wrote \in Nat /\ conn[t].wrote <= MaxPieces[t] /\ MaxPieces[t] \in Nat
    BY <1>1, LoopbackAssumption DEF ConnType, Connections, WroteInv
  <2>4. /\ StillToCome(t) \in Nat /\ StillToCome(t)' \in Nat
        /\ StillToCome(t)' + 1 <= StillToCome(t)
    <3> DEFINE m == MaxPieces[t] - conn[t].wrote
               new == Len(conn'[t].in)
    <3>1. StillToCome(t) = m + Len(conn[t].in) /\ StillToCome(t)' = m + new
      BY <2>2, Zenon DEF StillToCome
    <3>2. m \in Nat /\ new \in Nat /\ new + 1 <= Len(conn[t].in)
      BY <2>2, <2>3
    <3> HIDE DEF m, new
    <3> QED
      BY <2>2, <3>1, <3>2
  <2>5. Place[pc[t]] = 1 /\ Place[pc'[t]] = 3
    BY <2>2 DEF Place
  <2>6. /\ StepsLeft(t) \in Nat /\ StepsLeft(t)' \in Nat
        /\ StepsLeft(t)' < StepsLeft(t)
    BY <2>4, <2>5 DEF StepsLeft
  <2>7. Down(t)
    BY <2>6
  <2> QED
    BY <2>1, <2>7
<1>6. ASSUME NEW t \in Tasks, Close(t) PROVE \A u \in Tasks : Down(u)
  BY <1>1, <1>3, <1>6, CloseChange
<1>7. ASSUME NEW t \in Tasks, PeerSends(t) \/ PeerStalls(t) \/ PeerCloses(t)
      PROVE  \A u \in Tasks : Down(u)
  <2>1. \A u \in Tasks \ {t} : Down(u)
    BY <1>1, <1>3, <1>7, PeerChange
  <2>2. pc' = pc /\ StillToCome(t)' = StillToCome(t)
    BY <1>1, <1>7, PeerChange
  <2>3. Down(t)
    BY <1>1, <2>2, StepsLeftIsNat, PlaceDecides
  <2> QED
    BY <2>1, <2>3
<1>8. ASSUME NEW t \in Tasks, SetTimeouts(t), pc[t] \notin Using,
             \A u \in Tasks \ {t} : pc'[u] = pc[u]
      PROVE  \A u \in Tasks : Down(u)
  BY <1>1, <1>3, <1>8, SetTimeoutsChange
<1>9. ASSUME conn' = conn,
             \A t \in Tasks : \/ pc'[t] = pc[t] \/ pc'[t] \notin Using
                              \/ pc[t] = "recv" /\ pc'[t] = "close"
      PROVE  \A u \in Tasks : Down(u)
  <2> SUFFICES ASSUME NEW u \in Tasks PROVE Down(u)
    OBVIOUS
  <2>1. CASE pc'[u] = pc[u] \/ pc'[u] \notin Using
    BY <1>3, <1>9, <2>1
  <2>2. CASE pc[u] = "recv" /\ pc'[u] = "close"
    <3>1. StillToCome(u)' = StillToCome(u) /\ pc[u] \in Using /\ pc'[u] \in Using
      BY <1>9, <2>2 DEF StillToCome, Using
    <3>2. StillToCome(u) \in Nat
      BY <1>1, StepsLeftIsNat
    <3>3. Place[pc[u]] = 1 /\ Place[pc'[u]] = 0
      BY <2>2 DEF Place
    <3> QED
      BY <3>1, <3>2, <3>3 DEF StepsLeft
  <2> QED
    BY <1>9, <2>1, <2>2
<1> QED
  BY <1>1, <1>4, <1>5, <1>6, <1>7, <1>8, <1>9, OtherChange DEF CountsDown

\* A connection has finitely many steps whatever its peer does: each step of the
\* task takes one from a number that no step raises, as long as the peer does
\* not send for ever.
THEOREM ConnectionsCountDown == Spec => [][CountsDown]_vars
<1>1. Init => Timed /\ WroteInv
  BY LoopbackAssumption DEF Init, Timed, WroteInv, Using, NewConnection
<1>2. TypeOK /\ HandInv /\ Timed /\ WroteInv /\ [Next]_vars => (Timed /\ WroteInv)'
  BY ConnectionStep
<1>3. TypeOK /\ WroteInv /\ [Next]_vars => [CountsDown]_vars
  BY StepCountsDown
<1> QED
  BY <1>1, <1>2, <1>3, TypeCorrect, PTL DEF Spec
===============================================================================
