------------------------------ MODULE AtomicBus -------------------------------
(***************************************************************************)
(* What ioLibrary expects of the functions it is given for the bus: an     *)
(* access to a register is one event for the chip.  One user at a time has *)
(* an access under way, and before it ends the chip has taken its header   *)
(* and its data, once, and nothing else.                                   *)
(***************************************************************************)
CONSTANTS
    Users,     \* who makes accesses
    Requests,  \* the accesses
    NoRequest

VARIABLES
    request,  \* the access each user has under way
    took      \* what the chip has taken of it

Whole(r) == <<[piece |-> "header", of |-> r], [piece |-> "data", of |-> r]>>

Init == request = [u \in Users |-> NoRequest] /\ took = <<>>

Begin(u) ==
    /\ \A v \in Users : request[v] = NoRequest
    /\ \E r \in Requests : request' = [request EXCEPT ![u] = r]
    /\ UNCHANGED took

Serve(u) ==
    /\ request[u] # NoRequest /\ took = <<>>
    /\ took' = Whole(request[u])
    /\ UNCHANGED request

End(u) ==
    /\ request[u] # NoRequest /\ took # <<>>
    /\ request' = [request EXCEPT ![u] = NoRequest]
    /\ took' = <<>>

Next == \E u \in Users : Begin(u) \/ Serve(u) \/ End(u)

Spec == Init /\ [][Next]_<<request, took>>
===============================================================================
