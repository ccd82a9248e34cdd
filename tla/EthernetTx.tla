------------------------------ MODULE EthernetTx ------------------------------
(***************************************************************************)
(* What lwIP expects of the interface's linkoutput: the frames it offers,  *)
(* one at a time, appear on the wire in that order, each at most once and  *)
(* byte for byte, padded with zeros to the minimum length.  A frame may be *)
(* lost.  A frame longer than Room is sent in full length, but what is     *)
(* behind Room may no longer be its own.                                   *)
(***************************************************************************)
EXTENDS Naturals, Sequences

CONSTANTS
    MaxSize,  \* longest frame, in pieces
    MinSize,  \* shorter frames are padded to this
    Room      \* what a frame may have to be sent byte for byte

VARIABLES
    sizes,   \* the frames offered so far: the n-th has sizes[n] pieces
    status,  \* of the last one: "free" (returned), "offered", "sent"
    wire     \* the frames that went out, as sequences of pieces

\* Frame n of the given size as it must look on the wire; <<>> is a zero piece.
Frame(n, size) ==
    [k \in 1 .. (IF size < MinSize THEN MinSize ELSE size) |->
        IF k <= size THEN <<n, k>> ELSE <<>>]

\* What a piece holds that its frame has lost.
Foreign == <<0, 0>>

\* What may be on the wire for it.
Images(n, size) ==
    LET frame == Frame(n, size)
        Whole == {frame[k] : k \in DOMAIN frame}
    IN  {f \in [DOMAIN frame -> Whole \cup {Foreign}] :
           \A k \in DOMAIN frame : f[k] = frame[k] \/ (k > Room /\ f[k] = Foreign)}

Init == sizes = <<>> /\ status = "free" /\ wire = <<>>

Offer ==
    /\ status = "free" /\ status' = "offered"
    /\ \E size \in 1 .. MaxSize : sizes' = Append(sizes, size)
    /\ UNCHANGED wire

Transmit ==
    /\ status = "offered" /\ status' = "sent"
    /\ \E f \in Images(Len(sizes), sizes[Len(sizes)]) : wire' = Append(wire, f)
    /\ UNCHANGED sizes

Return == status # "free" /\ status' = "free" /\ UNCHANGED <<sizes, wire>>

Next == Offer \/ Transmit \/ Return

Spec == Init /\ [][Next]_<<sizes, status, wire>>
===============================================================================
