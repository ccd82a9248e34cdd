------------------------------ MODULE EthernetRx ------------------------------
(***************************************************************************)
(* What the receive loop expects of recv_lwip: the frames that the chip    *)
(* has stored come out one at a time, in order, each once and byte for     *)
(* byte; one that is longer than the caller's buffer is skipped whole.     *)
(***************************************************************************)
EXTENDS Naturals, Sequences

CONSTANTS
    MaxSize,  \* longest frame, in pieces
    Buf       \* pieces of the caller's buffer

VARIABLES
    sizes,  \* the frames stored so far: the n-th has sizes[n] pieces
    taken,  \* how many of them are out
    got     \* the frames the caller got, as sequences of pieces

Frame(n) == [k \in 1 .. sizes[n] |-> <<n, k>>]

Init == sizes = <<>> /\ taken = 0 /\ got = <<>>

Store ==
    /\ \E size \in 1 .. MaxSize : sizes' = Append(sizes, size)
    /\ UNCHANGED <<taken, got>>

Deliver ==
    /\ taken < Len(sizes) /\ taken' = taken + 1
    /\ sizes[taken'] <= Buf
    /\ got' = Append(got, Frame(taken'))
    /\ UNCHANGED sizes

Skip ==
    /\ taken < Len(sizes) /\ taken' = taken + 1
    /\ sizes[taken'] > Buf
    /\ UNCHANGED <<sizes, got>>

Next == Store \/ Deliver \/ Skip

Spec == Init /\ [][Next]_<<sizes, taken, got>>
===============================================================================
