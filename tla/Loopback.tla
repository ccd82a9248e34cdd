------------------------------- MODULE Loopback -------------------------------
(***************************************************************************)
(* The loopback example, tcp_client_server.c: a task that serves one TCP   *)
(* connection at a time, a task that connects to a peer again and again,   *)
(* and tcp_loopback, which sends back what it receives, in both of them.   *)
(*                                                                         *)
(* lwIP's sockets and the peers are external.  The data is cut in pieces,  *)
(* numbered by the peer that sends them.  Left out: what is printed, and   *)
(* the LED that blinks faster after the first connection.                  *)
(***************************************************************************)
EXTENDS Naturals, Sequences, FiniteSets

CONSTANTS
    Descriptors,  \* lwIP's sockets: NUM_SOCKETS, one netconn for each
    BufSize,      \* sizeof(buf) in tcp_loopback, in pieces
    MaxPieces     \* bound: the pieces the peer of each task sends in a connection

Tasks == {"server", "client"}

ASSUME LoopbackAssumption ==
    /\ IsFiniteSet(Descriptors) /\ Descriptors \subseteq Nat
    /\ BufSize \in Nat /\ BufSize > 1
    /\ MaxPieces \in [Tasks -> Nat]

VARIABLES
    linkUp,    \* W5X00_EVENT_LINK_UP is set
    pc,        \* where each task is
    open,      \* the descriptors in use
    listener,  \* listen_sock
    sock,      \* client_sock of the server, sock of the client
    queued,    \* connections lwIP has made that the server has not accepted
    buf, r,    \* locals of tcp_loopback
    conn       \* the connection of each task

netVars == <<open, listener, sock, queued>>
dataVars == <<buf, r, conn>>
vars == <<linkUp, pc, netVars, dataVars>>

Using == {"hello", "recv", "intro", "echo", "close"}
Pcs == {"wait_link", "socket", "bind", "listen", "accept", "connect", "delay",
        "deleted"} \cup Using

\* wrote: how many pieces the peer has sent; in: those not yet received; out:
\* those lwIP has taken to send back; cut: a send has returned a short count;
\* room: lwIP takes more to send; timed: SO_RCVTIMEO and SO_SNDTIMEO are set.
Connections ==
    [wrote : Nat, in : Seq(Nat), out : Seq(Nat),
     cut : BOOLEAN, room : BOOLEAN, closed : BOOLEAN, timed : BOOLEAN]
NewConnection == [wrote |-> 0, in |-> <<>>, out |-> <<>>, cut |-> FALSE,
                  room |-> TRUE, closed |-> FALSE, timed |-> FALSE]

\* Both tasks exist when the scheduler starts (TCP_SERVER, TCP_CLIENT).
Init ==
    /\ linkUp = FALSE
    /\ pc = [t \in Tasks |-> "wait_link"]
    /\ open = {} /\ listener = 0 /\ sock = [t \in Tasks |-> 0]
    /\ queued = 0
    /\ buf = [t \in Tasks |-> <<>>] /\ r = [t \in Tasks |-> 0]
    /\ conn = [t \in Tasks |-> NewConnection]

Goes(t, from, to) ==
    pc[t] = from /\ pc' = [pc EXCEPT ![t] = to] /\ UNCHANGED linkUp

\* W5X00_WAIT_LINK_UP(portMAX_DELAY)
WaitLink(t) == linkUp /\ Goes(t, "wait_link", "socket") /\ UNCHANGED <<netVars, dataVars>>

-----------------------------------------------------------------------------
(* lwIP: a socket takes a netconn, and so does a connection in the queue of  *)
(* the listening socket.                                                     *)

NetconnFree == Cardinality(open) + queued < Cardinality(Descriptors)

\* The first descriptor that is not in use.
Opens(d) ==
    /\ d \in Descriptors \ open
    /\ \A e \in Descriptors \ open : d <= e
    /\ open' = open \cup {d}

closesocket(d) == open' = open \ {d}

-----------------------------------------------------------------------------
(* tcp_server_task                                                           *)

\* vTaskDelete(NULL) after a failure: the server is not started again.
ServerSocket ==
    /\ \/ NetconnFree /\ Goes("server", "socket", "bind")
          /\ \E d \in Descriptors : Opens(d) /\ listener' = d
       \/ Goes("server", "socket", "deleted") /\ UNCHANGED <<open, listener>>
    /\ UNCHANGED <<sock, queued, dataVars>>

\* Variant: the failed call leaves the socket open.
PrepareLeaks(from, to) ==
    /\ Goes("server", from, to) \/ Goes("server", from, "deleted")
    /\ UNCHANGED <<netVars, dataVars>>

\* bind, then listen
Prepare(from, to) ==
    /\ \/ Goes("server", from, to) /\ UNCHANGED open
       \/ Goes("server", from, "deleted") /\ closesocket(listener)
    /\ UNCHANGED <<listener, sock, queued, dataVars>>

\* Variant: no time-outs are set.
Untimed(t) == conn' = [conn EXCEPT ![t] = NewConnection] /\ UNCHANGED <<buf, r>>

\* The two setsockopt calls on the new connection, whose results nobody looks
\* at: they store a time.  lwIP is built with both options (lwipopts.h), and
\* can then refuse them only for a descriptor that is not open.
SetTimeouts(t) ==
    /\ conn' = [conn EXCEPT ![t] = [NewConnection EXCEPT !.timed = TRUE]]
    /\ UNCHANGED <<buf, r>>

Accept ==
    /\ queued > 0 /\ queued' = queued - 1
    /\ \E d \in Descriptors : Opens(d) /\ sock' = [sock EXCEPT !["server"] = d]
    /\ Goes("server", "accept", "hello") /\ SetTimeouts("server")
    /\ UNCHANGED listener

\* accept() < 0: the peer has gone before it was accepted.
AcceptFails ==
    /\ queued > 0 /\ queued' = queued - 1
    /\ Goes("server", "accept", "accept")
    /\ UNCHANGED <<open, listener, sock, dataVars>>

-----------------------------------------------------------------------------
(* tcp_client_task                                                           *)

ClientSocket ==
    /\ \/ NetconnFree /\ Goes("client", "socket", "connect")
          /\ \E d \in Descriptors : Opens(d) /\ sock' = [sock EXCEPT !["client"] = d]
       \/ Goes("client", "socket", "delay") /\ UNCHANGED <<open, sock>>
    /\ UNCHANGED <<listener, queued, dataVars>>

Connect ==
    /\ Goes("client", "connect", "hello") /\ SetTimeouts("client")
    /\ UNCHANGED netVars

ConnectFails ==
    /\ Goes("client", "connect", "delay") /\ closesocket(sock["client"])
    /\ UNCHANGED <<listener, sock, queued, dataVars>>

Delay == Goes("client", "delay", "socket") /\ UNCHANGED <<netVars, dataVars>>

-----------------------------------------------------------------------------
(* tcp_loopback                                                              *)

\* send: all of it while lwIP has room; at the time limit what it has taken so
\* far, which the code takes for success, or an error when that is nothing.
Send(t, what, from, to) ==
    LET c == conn[t]
        late == c.timed /\ ~c.room
    IN  /\ \/ c.room /\ Goes(t, from, to)
              /\ conn' = [conn EXCEPT ![t].out = @ \o what]
           \/ late /\ Goes(t, from, to)
              /\ \E k \in 0 .. Len(what) :
                    /\ what = <<>> \/ k < Len(what)
                    /\ conn' = [conn EXCEPT ![t].out = @ \o SubSeq(what, 1, k),
                                           ![t].cut = @ \/ what # <<>>]
           \/ (late \/ c.closed) /\ Goes(t, from, "close") /\ UNCHANGED conn
        /\ UNCHANGED <<netVars, buf, r>>

\* The texts are not among the pieces.
Hello(t) == Send(t, <<>>, "hello", "recv")
Intro(t) == Send(t, <<>>, "intro", "echo")

\* Variant: the whole of buf is sent.
WholeBuffer(t) == buf[t]

Received(t) == SubSeq(buf[t], 1, r[t])
Echo(t) == Send(t, Received(t), "echo", "recv")

\* Variant: recv may fill the buffer, and the terminator is written behind it.
CapacityAll == BufSize

Capacity == BufSize - 1

\* recv(sock, buf, sizeof(buf) - 1, 0) and buf[r] = 0; the rest of buf stays.
RecvData(t) ==
    /\ Goes(t, "recv", "intro")
    /\ \E k \in 1 .. Capacity :
          /\ k <= Len(conn[t].in)
          /\ r' = [r EXCEPT ![t] = k]
          /\ buf' = [buf EXCEPT ![t] = SubSeq(conn[t].in, 1, k) \o <<0>>
                                         \o SubSeq(@, k + 2, Len(@))]
          /\ conn' = [conn EXCEPT ![t].in = SubSeq(@, k + 1, Len(@))]
    /\ UNCHANGED netVars

\* r <= 0: the peer has closed or reset the connection, or sent nothing in time.
RecvEnds(t) ==
    /\ Goes(t, "recv", "close")
    /\ conn[t].closed \/ (conn[t].timed /\ conn[t].in = <<>>)
    /\ UNCHANGED <<netVars, dataVars>>

\* Back in its caller: closesocket, and the locals of tcp_loopback are gone.
Close(t) ==
    /\ Goes(t, "close", IF t = "server" THEN "accept" ELSE "delay")
    /\ closesocket(sock[t])
    /\ buf' = [buf EXCEPT ![t] = <<>>] /\ r' = [r EXCEPT ![t] = 0]
    /\ conn' = [conn EXCEPT ![t] = NewConnection]
    /\ UNCHANGED <<listener, sock, queued>>

-----------------------------------------------------------------------------
(* The driver's link event, and the peers.                                   *)

LinkComesUp == ~linkUp /\ linkUp' = TRUE /\ UNCHANGED <<pc, netVars, dataVars>>

PeerConnects ==
    /\ pc["server"] \in Using \cup {"accept"}
    /\ NetconnFree /\ queued' = queued + 1
    /\ UNCHANGED <<linkUp, pc, open, listener, sock, dataVars>>

Peer(t, connection) ==
    /\ pc[t] \in Using
    /\ conn' = [conn EXCEPT ![t] = connection]
    /\ UNCHANGED <<linkUp, pc, netVars, buf, r>>

PeerSends(t) ==
    LET c == conn[t]
    IN  /\ ~c.closed /\ c.wrote < MaxPieces[t]
        /\ Peer(t, [c EXCEPT !.wrote = @ + 1, !.in = Append(@, c.wrote + 1)])

\* The peer stops taking what it is sent, or takes it again.
PeerStalls(t) == Peer(t, [conn[t] EXCEPT !.room = ~@])

PeerCloses(t) == ~conn[t].closed /\ Peer(t, [conn[t] EXCEPT !.closed = TRUE])

-----------------------------------------------------------------------------
Handle(t) ==
    \/ WaitLink(t) \/ Hello(t) \/ Intro(t) \/ Echo(t) \/ RecvData(t)
    \/ RecvEnds(t) \/ Close(t)

Server ==
    \/ Handle("server") \/ ServerSocket \/ Prepare("bind", "listen")
    \/ Prepare("listen", "accept") \/ Accept \/ AcceptFails

Client == Handle("client") \/ ClientSocket \/ Connect \/ ConnectFails \/ Delay

Environment ==
    \/ LinkComesUp \/ PeerConnects
    \/ \E t \in Tasks : PeerSends(t) \/ PeerStalls(t) \/ PeerCloses(t)

Next == Server \/ Client \/ Environment

\* Both tasks are scheduled and time passes; nothing is assumed of the peers.
FairSpec == Init /\ [][Next]_vars /\ WF_vars(Server) /\ WF_vars(Client)

Spec == Init /\ [][Next]_vars

-----------------------------------------------------------------------------
\* Among the types: tcp_loopback never writes behind the end of its buffer.
TypeOK ==
    /\ linkUp \in BOOLEAN
    /\ pc \in [Tasks -> Pcs]
    /\ open \subseteq Descriptors
    /\ listener \in Nat /\ sock \in [Tasks -> Nat]
    /\ queued \in 0 .. Cardinality(Descriptors)
    /\ buf \in [Tasks -> Seq(Nat)] /\ r \in [Tasks -> Nat]
    /\ \A t \in Tasks : Len(buf[t]) <= BufSize /\ r[t] < BufSize
    /\ conn \in [Tasks -> Connections]

Listens == IF pc["server"] \in Using \cup {"bind", "listen", "accept"}
           THEN {listener} ELSE {}
Holds(t) == IF pc[t] \in Using \cup {"connect"} THEN {sock[t]} ELSE {}

\* No socket leaks on any of the failure paths, and no task uses or closes one
\* that is another's: the open descriptors are those the tasks will still
\* close, each of them held once.
SocketsHeld ==
    /\ open = Listens \cup Holds("server") \cup Holds("client")
    /\ Listens \cap Holds("server") = {}
    /\ Holds("client") \cap (Listens \cup Holds("server")) = {}

\* "if you send data to the loopback server, you should be able to receive back
\* the sent message" (README of the example): what was sent back, is being
\* handled and is still to be received are the pieces the peer sent, none
\* twice and none out of order, and none is missing unless a send was short.
InHand(t) == IF pc[t] \in {"intro", "echo"} THEN Received(t) ELSE <<>>
EchoFaithful ==
    \A t \in Tasks : pc[t] \in Using \ {"close"} =>
       LET all == conn[t].out \o InHand(t) \o conn[t].in
       IN  /\ \A i, j \in 1 .. Len(all) : i < j => all[i] < all[j]
           /\ ~conn[t].cut => all = [i \in 1 .. conn[t].wrote |-> i]

\* Neither a silent peer nor one that takes no data keeps a task from its next
\* connection (MaxPieces says that no peer sends for ever).
ConnectionsEnd ==
    \A t \in Tasks : (pc[t] \in Using) ~> (pc[t] \in {"accept", "delay"})
===============================================================================
