---------------------------- MODULE W5x00Rx_proofs ----------------------------
(***************************************************************************)
(* Proofs about W5x00Rx, for frames of any size, any number of them, any   *)
(* buffer and any ring that a frame fits, for a chip that takes a command  *)
(* before the driver's second access after it, or before the first where   *)
(* other tasks send.                                                       *)
(***************************************************************************)
EXTENDS W5x00Rx, SequenceTheorems, TLAPS

\* The chips the theorems are about.
Prompt == \A c \in Chips : c.lag = 0 \/ (c.lag = 1 /\ ~c.sends)

-----------------------------------------------------------------------------
(* Remainders.                                                               *)

LEMMA DivMod ==
  ASSUME NEW n \in Nat \ {0}, NEW x \in Int
  PROVE  /\ x \div n \in Int /\ x % n \in 0 .. n - 1
         /\ x = (x \div n) * n + (x % n)
  OBVIOUS

LEMMA Quotient ==
  ASSUME NEW n \in Nat \ {0}, NEW x \in Int
  PROVE  \E q \in Int, r \in Int : x = q * n + r /\ r = x % n
<1>1. x \div n \in Int /\ x % n \in Int /\ x = (x \div n) * n + (x % n)
  BY DivMod
<1> QED
  BY <1>1

LEMMA MulBound ==
  ASSUME NEW n \in Nat \ {0}, NEW d \in Int
  PROVE  (d >= 1 => d * n >= n) /\ (d <= -1 => d * n <= -n)
  OBVIOUS

LEMMA ModUnique ==
  ASSUME NEW n \in Nat \ {0}, NEW x \in Int, NEW q \in Int, NEW r \in 0 .. n - 1, x = q * n + r
  PROVE  x % n = r
<1>1. PICK d \in Int : d = x \div n
  BY DivMod
<1>2. PICK e \in 0 .. n - 1 : e = x % n
  BY DivMod
<1>3. x = d * n + e
  BY <1>1, <1>2, DivMod
<1>4. (d - q) * n = r - e
  BY <1>2, <1>3
<1>5. ~(d - q >= 1) /\ ~(d - q <= -1)
  BY <1>2, <1>4, MulBound
<1>6. d = q
  BY <1>5
<1> QED
  BY <1>2, <1>3, <1>6

LEMMA ModShift ==
  ASSUME NEW n \in Nat \ {0}, NEW x \in Int, NEW q \in Int
  PROVE  (x + q * n) % n = x % n
<1>1. PICK d \in Int : x = d * n + (x % n)
  BY DivMod
<1>2. PICK r \in 0 .. n - 1 : r = x % n
  BY DivMod
<1>3. x + q * n = (d + q) * n + r
  BY <1>1, <1>2
<1>4. x + q * n \in Int /\ d + q \in Int
  OBVIOUS
<1> QED
  BY <1>2, <1>3, <1>4, ModUnique

LEMMA RingSize == Ring \in Nat \ {0} /\ Ptrs \in Nat \ {0} /\ Ptrs = 2 * Ring /\ MaxSize < Ring
  BY RxAssumption DEF Ptrs

LEMMA RingCount == Ring \in Nat \ {0}
  BY RxAssumption
LEMMA PtrCount == Ptrs \in Nat \ {0}
  BY RxAssumption DEF Ptrs

\* Pointers and places in the ring stand for counts of all the pieces ever stored.
LEMMA PtrAdd ==
  ASSUME NEW x \in Int, NEW d \in Int
  PROVE  /\ ((x % Ptrs) + d) % Ptrs = (x + d) % Ptrs
         /\ ((x % Ptrs) + d) % Ring = (x + d) % Ring
<1>1. PICK q \in Int, r \in Int : x = q * Ptrs + r /\ r = x % Ptrs
  BY PtrCount, Quotient
<1>2. r + d = (x + d) + (-q) * Ptrs /\ r + d = (x + d) + (-(2 * q)) * Ring
  BY <1>1, RingSize
<1>3. x + d \in Int /\ -q \in Int /\ -(2 * q) \in Int
  OBVIOUS
<1> HIDE DEF Ptrs
<1>4. ((x + d) + (-q) * Ptrs) % Ptrs = (x + d) % Ptrs
  BY <1>3, RingSize, ModShift
<1>5. ((x + d) + (-(2 * q)) * Ring) % Ring = (x + d) % Ring
  BY <1>3, RingSize, ModShift
<1> QED
  BY <1>1, <1>2, <1>4, <1>5

LEMMA PtrDistance ==
  ASSUME NEW x \in Int, NEW y \in Int, x - y \in 0 .. Ring
  PROVE  ((x % Ptrs) - (y % Ptrs)) % Ptrs = x - y
<1>1. PICK q \in Int, r \in Int : x = q * Ptrs + r /\ r = x % Ptrs
  BY PtrCount, Quotient
<1>2. PICK u \in Int, v \in Int : y = u * Ptrs + v /\ v = y % Ptrs
  BY PtrCount, Quotient
<1>3. r - v = (u - q) * Ptrs + (x - y)
  BY <1>1, <1>2, RingSize
<1>4. x - y \in 0 .. Ptrs - 1 /\ r - v \in Int /\ u - q \in Int
  BY RingSize
<1>5. (r - v) % Ptrs = x - y
  BY <1>3, <1>4, RingSize, ModUnique
<1> QED
  BY <1>1, <1>2, <1>5

\* How far a place is behind another, round the ring.
LEMMA RingDistance ==
  ASSUME NEW p \in Int, NEW w \in Int
  PROVE  /\ p - w \in 0 .. Ring - 1 => ((p % Ring) - (w % Ptrs)) % Ring = p - w
         /\ p - w \in -Ring .. -1 => ((p % Ring) - (w % Ptrs)) % Ring = p - w + Ring
<1>1. PICK q \in Int, r \in Int : p = q * Ring + r /\ r = p % Ring
  BY RingCount, Quotient
<1>2. PICK u \in Int, v \in Int : w = u * Ptrs + v /\ v = w % Ptrs
  BY PtrCount, Quotient
<1>3. r - v = (2 * u - q) * Ring + (p - w) /\ r - v = (2 * u - q - 1) * Ring + (p - w + Ring)
  BY <1>1, <1>2, RingSize
<1>4. r - v \in Int /\ 2 * u - q \in Int /\ 2 * u - q - 1 \in Int
  OBVIOUS
<1>5. p - w \in 0 .. Ring - 1 => (r - v) % Ring = p - w
  BY <1>3, <1>4, RingSize, ModUnique
<1>6. p - w \in -Ring .. -1 => (r - v) % Ring = p - w + Ring
  <2> SUFFICES ASSUME p - w \in -Ring .. -1 PROVE (r - v) % Ring = p - w + Ring
    OBVIOUS
  <2>1. p - w + Ring \in 0 .. Ring - 1
    BY RingSize
  <2> QED
    BY <1>3, <1>4, <2>1, RingSize, ModUnique
<1> QED
  BY <1>1, <1>2, <1>5, <1>6

-----------------------------------------------------------------------------
(* The invariant: pos[i] is where frame i begins, counted in all the pieces  *)
(* ever stored; R and X are what the pointers rd and rxRd stand for.         *)

RingType ==
    /\ chip \in Chips
    /\ mem \in [0 .. Ring - 1 -> Pieces]
    /\ wr \in 0 .. Ptrs - 1 /\ rd \in 0 .. Ptrs - 1 /\ rxRd \in 0 .. Ptrs - 1
    /\ cr \in {"none", "recv", "send"} /\ age \in 0 .. chip.lag
LocalType ==
    /\ pc \in {"look", "size", "header", "header_rd", "header_recv", "data", "data_rd",
               "data_recv", "ignore", "ignore_rd", "ignore_recv"}
    /\ ptr \in 0 .. Ptrs - 1 /\ packLen \in 0 .. Ptrs - 1
    /\ pack \in Seq(Pieces) /\ Len(pack) <= Buf
FrameType ==
    /\ sizes \in Seq(1 .. MaxSize) /\ Len(sizes) <= MaxFrames
    /\ taken \in 0 .. Len(sizes) /\ got \in Seq(Seq(Pieces))

LEMMA TypeParts == TypeOK <=> RingType /\ LocalType /\ FrameType
  BY DEF TypeOK, RingType, LocalType, FrameType

\* Where the next frame will begin.
End(pos) == pos[Len(sizes) + 1]
Layout(pos) ==
    /\ pos \in [1 .. Len(sizes) + 1 -> Nat]
    /\ \A i \in 1 .. Len(sizes) : pos[i + 1] = pos[i] + sizes[i] + 1
    /\ \A i \in 1 .. Len(sizes) + 1 : pos[i] <= End(pos)

Pointers(pos, R, X) ==
    /\ R \in Nat /\ X \in Nat /\ R <= X /\ X <= End(pos) /\ End(pos) <= R + Ring
    /\ wr = End(pos) % Ptrs /\ rd = R % Ptrs /\ rxRd = X % Ptrs

\* Piece k of frame i in the ring.
Piece(i, k) == IF k = 0 THEN Header(sizes[i]) ELSE <<i, k>>

\* What the chip has not been told to drop is there.
Content(pos, R) ==
    \A i \in 1 .. Len(sizes), k \in 0 .. MaxSize :
       k <= sizes[i] /\ pos[i] + k >= R => mem[(pos[i] + k) % Ring] = Piece(i, k)

\* How far the driver is in the frame that begins at start.
Progress(start, R, X) ==
    /\ pc \in {"look", "size", "header", "header_rd"} => X = start
    /\ pc \in {"header_recv", "data", "data_rd", "ignore", "ignore_rd"} => X = start + 1
    /\ pc \in {"data_recv", "ignore_recv"} => X = start + 1 + packLen
    /\ cr # "recv" => R = IF pc \in {"look", "size", "header", "header_rd", "header_recv"}
                          THEN start ELSE start + 1

Locals ==
    /\ pc \notin {"look", "size"} => taken < Len(sizes)
    /\ pc \notin {"look", "size", "header"} => packLen = sizes[taken + 1]
    /\ pc \in {"data", "data_rd", "data_recv"} => packLen <= Buf
    /\ pc \in {"ignore", "ignore_rd", "ignore_recv"} => packLen > Buf
    /\ pack = IF pc \in {"data_rd", "data_recv"} THEN Received!Frame(taken + 1) ELSE <<>>
    /\ pc \in {"header_rd", "data_rd", "ignore_rd"} => ptr = rxRd

\* A RECV is taken before the driver can go on twice.
Commands ==
    /\ cr = "recv" => pc \in {"look", "size", "data", "data_rd", "ignore", "ignore_rd"}
    /\ cr = "recv" /\ pc \in {"size", "data_rd", "ignore_rd"} => age >= chip.lag
    /\ cr = "send" => chip.sends

Inv(pos, R, X) ==
    /\ Layout(pos) /\ Pointers(pos, R, X) /\ Content(pos, R)
    /\ Progress(pos[taken + 1], R, X) /\ Locals /\ Commands

IInv == TypeOK /\ \E pos, R, X : Inv(pos, R, X)

LEMMA FrameFacts ==
  ASSUME FrameType
  PROVE  /\ Len(sizes) \in Nat /\ taken \in Nat /\ taken <= Len(sizes)
         /\ \A i \in 1 .. Len(sizes) : sizes[i] \in 1 .. MaxSize
<1>1. Len(sizes) \in Nat
  BY LenProperties DEF FrameType
<1>2. \A i \in 1 .. Len(sizes) : sizes[i] \in 1 .. MaxSize
  BY ElementOfSeq DEF FrameType
<1> QED
  BY <1>1, <1>2 DEF FrameType

LEMMA InitHolds == Init => IInv
<1> SUFFICES ASSUME Init PROVE IInv
  OBVIOUS
<1> USE RingSize
<1>1. RingType
  BY RxAssumption DEF Init, RingType, Pieces
<1>2. LocalType
  BY RxAssumption DEF Init, LocalType
<1>3. FrameType
  BY RxAssumption DEF Init, FrameType
<1>4. Layout([i \in 1 .. 1 |-> 0]) /\ Content([i \in 1 .. 1 |-> 0], 0)
  BY DEF Init, Layout, End, Content
<1>5. Pointers([i \in 1 .. 1 |-> 0], 0, 0)
  BY DEF Init, Pointers, End
<1>6. Progress([i \in 1 .. 1 |-> 0][taken + 1], 0, 0) /\ Locals /\ Commands
  BY DEF Init, Progress, Locals, Commands
<1> QED
  BY <1>1, <1>2, <1>3, <1>4, <1>5, <1>6, TypeParts DEF IInv, Inv

-----------------------------------------------------------------------------
(* The chip.                                                                 *)

\* The size that the chip reports.
LEMMA SizeReported ==
  ASSUME FrameType, NEW pos, NEW R, NEW X, Layout(pos), Pointers(pos, R, X)
  PROVE  ReceivedSize = End(pos) - R
<1>1. End(pos) \in Nat /\ R \in Nat /\ End(pos) - R \in 0 .. Ring
  BY FrameFacts, RingCount DEF Layout, Pointers, End
<1> QED
  BY <1>1, PtrDistance DEF ReceivedSize, Pointers

LEMMA StoreStep ==
  ASSUME TypeOK, NEW pos, NEW R, NEW X, Inv(pos, R, X), NEW size \in 1 .. MaxSize, Store(size)
  PROVE  IInv'
<1>a. Layout(pos) /\ Pointers(pos, R, X) /\ Content(pos, R) /\ Progress(pos[taken + 1], R, X)
  BY DEF Inv
<1>b. FrameType /\ RingType /\ Locals /\ Commands
  BY TypeParts DEF Inv
<1>c. PICK n \in Nat : n = Len(sizes)
  BY <1>b, FrameFacts
<1>d. PICK W \in Nat : W = End(pos) /\ W = pos[n + 1]
  BY <1>a, <1>c DEF Layout, End
<1>e. PICK next : next = [i \in 1 .. n + 2 |-> IF i <= n + 1 THEN pos[i] ELSE W + size + 1]
  OBVIOUS
<1>1. R \in Nat /\ X \in Nat /\ size \in Nat /\ size <= MaxSize /\ size >= 1
  BY <1>a, RxAssumption DEF Pointers
<1>2. /\ sizes' = Append(sizes, size) /\ Len(sizes') = n + 1 /\ sizes'[n + 1] = size
      /\ \A i \in 1 .. n : sizes'[i] = sizes[i]
      /\ sizes' \in Seq(1 .. MaxSize)
  BY <1>b, <1>c, AppendProperties DEF Store, FrameType
<1>3. W - R + size + 1 <= Ring
  BY <1>a, <1>b, <1>d, SizeReported DEF Store
<1>4. /\ next \in [1 .. n + 2 -> Nat] /\ next[n + 2] = W + size + 1
      /\ \A i \in 1 .. n + 1 : next[i] = pos[i]
  BY <1>1, <1>a, <1>c, <1>d, <1>e DEF Layout
<1>5. Layout(next)' /\ End(next)' = W + size + 1
  <2>1. End(next)' = W + size + 1
    BY <1>2, <1>4 DEF End
  <2>2. ASSUME NEW i \in 1 .. n + 1 PROVE next[i + 1] = next[i] + sizes'[i] + 1
    <3>1. CASE i \in 1 .. n
      <4>1. i + 1 \in 1 .. n + 1 /\ pos[i + 1] = pos[i] + sizes[i] + 1
        BY <1>a, <1>c, <3>1 DEF Layout
      <4> QED
        BY <1>2, <1>4, <3>1, <4>1
    <3>2. CASE i = n + 1
      <4>1. next[i + 1] = W + size + 1 /\ next[i] = W
        BY <1>d, <1>4, <3>2
      <4> QED
        BY <1>2, <3>2, <4>1
    <3> QED
      BY <3>1, <3>2
  <2>3. ASSUME NEW i \in 1 .. n + 2 PROVE next[i] <= W + size + 1
    <3>1. CASE i \in 1 .. n + 1
      <4>1. pos[i] \in Nat /\ pos[i] <= W /\ next[i] = pos[i]
        BY <1>4, <1>a, <1>c, <1>d, <3>1 DEF Layout
      <4> QED
        BY <1>1, <4>1
    <3>2. CASE i = n + 2
      BY <1>1, <1>4, <3>2
    <3> QED
      BY <3>1, <3>2
  <2>4. Len(sizes') + 1 = n + 2
    BY <1>2
  <2> QED
    BY <1>2, <1>4, <2>1, <2>2, <2>3, <2>4 DEF Layout
<1>6. Pointers(next, R, X)'
  <2>1. wr = W % Ptrs /\ R <= X /\ X <= W /\ rd = R % Ptrs /\ rxRd = X % Ptrs
    BY <1>a, <1>d DEF Pointers
  <2>2. wr' = ((W % Ptrs) + (size + 1)) % Ptrs
    <3>1. W % Ptrs \in Int
      BY PtrCount, DivMod
    <3>2. wr' = (wr + size + 1) % Ptrs
      BY DEF Store
    <3> QED
      BY <1>1, <2>1, <3>1, <3>2
  <2>3. wr' = (W + (size + 1)) % Ptrs
    BY <1>1, <2>2, PtrAdd
  <2>4. W + (size + 1) = W + size + 1
    BY <1>1
  <2>5. UNCHANGED <<rd, rxRd>>
    BY DEF Store
  <2>6. X <= W + size + 1 /\ W + size + 1 <= R + Ring
    BY <1>1, <1>3, <2>1, RingSize
  <2> QED
    BY <1>1, <1>5, <2>1, <2>3, <2>4, <2>5, <2>6 DEF Pointers
<1>7. Content(next, R)'
  <2> SUFFICES ASSUME NEW i \in 1 .. n + 1, NEW k \in 0 .. MaxSize,
                      k <= sizes'[i], next[i] + k >= R
               PROVE  mem'[(next[i] + k) % Ring] = Piece(i, k)'
    BY <1>2 DEF Content
  <2>1. PICK p \in Nat : p = next[i] + k
    BY <1>4
  <2>2. PICK a \in 0 .. Ring - 1 : a = p % Ring
    BY <2>1, DivMod, RingCount
  <2>3. PICK d : d = (a - wr) % Ring
    OBVIOUS
  <2>4. mem'[a] = IF d = 0 THEN Header(size) ELSE IF d <= size THEN <<n + 1, d>> ELSE mem[a]
    BY <1>2, <2>2, <2>3 DEF Store
  <2>5. /\ p - W \in 0 .. Ring - 1 => d = p - W
        /\ p - W \in -Ring .. -1 => d = p - W + Ring
    <3>1. wr = W % Ptrs
      BY <1>a, <1>d DEF Pointers
    <3>2. p \in Int /\ W \in Int
      OBVIOUS
    <3> QED
      BY <2>2, <2>3, <3>1, <3>2, RingDistance
  <2>6. CASE i \in 1 .. n
    <3>1. /\ i + 1 \in 1 .. n + 1 /\ pos[i] \in Nat /\ sizes[i] \in Nat
          /\ pos[i + 1] = pos[i] + sizes[i] + 1 /\ pos[i + 1] <= W
      BY <1>a, <1>b, <1>c, <1>d, <2>6, FrameFacts, RxAssumption DEF Layout
    <3>2. p = pos[i] + k /\ k <= sizes[i]
      BY <1>2, <1>4, <2>1, <2>6
    <3>3. p < W /\ p >= R /\ W <= R + Ring
      BY <1>1, <1>3, <2>1, <3>1, <3>2, RingSize
    <3>4. p - W \in -Ring .. -1
      BY <1>1, <3>3, RingSize
    <3>5. d = p - W + Ring
      BY <2>5, <3>4
    <3>6. d > size /\ d # 0 /\ ~(d <= size)
      BY <1>1, <1>3, <3>3, <3>5, RingSize
    <3>7. mem'[a] = mem[a]
      BY <2>4, <3>6
    <3>8. mem[p % Ring] = Piece(i, k)
      BY <1>a, <1>c, <2>1, <2>6, <3>2 DEF Content
    <3>9. Piece(i, k)' = Piece(i, k)
      BY <1>2, <2>6 DEF Piece
    <3> QED
      BY <2>1, <2>2, <3>7, <3>8, <3>9
  <2>7. CASE i = n + 1
    <3>1. p = W + k /\ k <= size
      BY <1>d, <1>2, <1>4, <2>1, <2>7
    <3>2. p - W = k /\ k \in 0 .. Ring - 1
      BY <1>1, <3>1, RingSize, RxAssumption
    <3>3. d = k
      BY <2>5, <3>2
    <3>4. k # 0 => mem'[a] = <<n + 1, k>>
      BY <1>1, <2>4, <3>1, <3>3
    <3>5. k = 0 => mem'[a] = Header(size)
      BY <2>4, <3>3
    <3>6. Piece(i, k)' = IF k = 0 THEN Header(size) ELSE <<n + 1, k>>
      BY <1>2, <2>7 DEF Piece, Header
    <3> QED
      BY <2>1, <2>2, <3>4, <3>5, <3>6
  <2> QED
    BY <2>6, <2>7
<1>8. /\ UNCHANGED <<pc, cr, age, chip, ptr, packLen, pack, taken, rd, rxRd, got>>
      /\ taken \in Nat /\ taken <= n
  BY <1>b, <1>c, FrameFacts DEF Store, drvVars
<1>9. Progress(next[taken + 1], R, X)'
  <2>1. next[taken + 1]' = pos[taken + 1]
    BY <1>4, <1>8
  <2> QED
    BY <1>a, <1>8, <2>1 DEF Progress
<1>10. Locals'
  <2>1. taken < n => taken + 1 \in 1 .. n /\ sizes'[taken + 1] = sizes[taken + 1]
    BY <1>2, <1>8
  <2>2. taken < n => Received!Frame(taken + 1)' = Received!Frame(taken + 1)
    BY <1>8, <2>1 DEF Received!Frame
  <2>3. taken < n => taken' < Len(sizes')
    BY <1>2, <1>8
  <2>4. pc \notin {"look", "size"} => taken < n
    BY <1>b, <1>c DEF Locals
  <2> QED
    BY <1>b, <1>8, <2>1, <2>2, <2>3, <2>4 DEF Locals
<1>11. Commands'
  BY <1>b, <1>8 DEF Commands
<1>12. RingType'
  <2>1. mem' \in [0 .. Ring - 1 -> Pieces]
    <3>1. ASSUME NEW a \in 0 .. Ring - 1
          PROVE  /\ LET d == (a - wr) % Ring
                    IN  (IF d = 0 THEN Header(size)
                         ELSE IF d <= size THEN <<n + 1, d>> ELSE mem[a]) \in Pieces
      <4>1. a - wr \in Int
        BY <1>b DEF RingType
      <4>2. PICK d \in 0 .. Ring - 1 : d = (a - wr) % Ring
        BY <4>1, DivMod, RingCount
      <4>3. n + 1 \in 0 .. MaxFrames
        BY <1>c, RxAssumption DEF Store
      <4>4. Header(size) \in Pieces
        BY <1>1, RxAssumption DEF Header, Pieces
      <4>5. d <= size => <<n + 1, d>> \in Pieces
        BY <1>1, <4>3, RxAssumption DEF Pieces
      <4>6. mem[a] \in Pieces
        BY <1>b DEF RingType
      <4> QED
        BY <4>2, <4>4, <4>5, <4>6
    <3>2. mem' = [a \in 0 .. Ring - 1 |->
                    LET d == (a - wr) % Ring
                    IN  IF d = 0 THEN Header(size)
                        ELSE IF d <= size THEN <<n + 1, d>> ELSE mem[a]]
      BY <1>2 DEF Store
    <3> QED
      BY <3>1, <3>2
  <2>2. wr' \in 0 .. Ptrs - 1
    <3>1. wr + size + 1 \in Int
      BY <1>1, <1>b DEF RingType
    <3> QED
      BY <3>1, DivMod, PtrCount DEF Store
  <2> QED
    BY <1>b, <1>8, <2>1, <2>2 DEF RingType
<1>13. LocalType'
  BY <1>8, TypeParts DEF LocalType
<1>14. FrameType'
  <2>1. n + 1 <= MaxFrames
    BY <1>c, RxAssumption DEF Store
  <2>2. taken' \in 0 .. n + 1
    BY <1>8
  <2> QED
    BY <1>b, <1>2, <1>8, <2>1, <2>2 DEF FrameType
<1>15. Inv(next, R, X)'
  BY <1>5, <1>6, <1>7, <1>9, <1>10, <1>11 DEF Inv
<1>16. TypeOK'
  BY <1>12, <1>13, <1>14 DEF TypeOK, RingType, LocalType, FrameType
<1> QED
  BY <1>15, <1>16 DEF IInv

\* What a step that stores nothing leaves.
LEMMA Carried ==
  ASSUME NEW pos, NEW R, NEW S, Layout(pos), Content(pos, R), FrameType,
         R \in Nat, S \in Nat, R <= S, UNCHANGED <<mem, sizes>>
  PROVE  Layout(pos)' /\ End(pos)' = End(pos) /\ Content(pos, S)'
<1>1. Layout(pos)' /\ End(pos)' = End(pos)
  BY DEF Layout, End
<1>2. ASSUME NEW i \in 1 .. Len(sizes), NEW k \in 0 .. MaxSize,
             k <= sizes[i], pos[i] + k >= S
      PROVE  mem[(pos[i] + k) % Ring] = Piece(i, k)
  <2>1. pos[i] \in Nat /\ k \in Nat
    BY FrameFacts, RxAssumption DEF Layout
  <2>2. pos[i] + k >= R
    BY <1>2, <2>1
  <2> QED
    BY <1>2, <2>2 DEF Content
<1> QED
  BY <1>1, <1>2 DEF Content, Piece

LEMMA TakeStep ==
  ASSUME TypeOK, NEW pos, NEW R, NEW X, Inv(pos, R, X), TakeCommand
  PROVE  IInv'
<1>1. Layout(pos) /\ Pointers(pos, R, X) /\ Content(pos, R) /\ Progress(pos[taken + 1], R, X)
  BY DEF Inv
<1>2. FrameType /\ RingType /\ LocalType /\ Locals /\ Commands
  BY TypeParts DEF Inv
<1>3. PICK S \in Nat : S = IF cr = "recv" THEN X ELSE R
  BY <1>1 DEF Pointers
<1>4. /\ UNCHANGED <<chip, mem, wr, rxRd, pc, ptr, packLen, pack, sizes, taken, got>>
      /\ cr' = "none" /\ age' = 0 /\ rd' = IF cr = "recv" THEN rxRd ELSE rd
  BY DEF TakeCommand, drvVars
<1>5. R <= S /\ S <= X /\ R \in Nat /\ X \in Nat /\ End(pos) \in Int
  BY <1>1, <1>2, <1>3, FrameFacts DEF Pointers, Layout, End
<1>6. Layout(pos)' /\ End(pos)' = End(pos) /\ Content(pos, S)'
  BY <1>1, <1>2, <1>4, <1>5, Carried
<1>7. Pointers(pos, S, X)'
  <2>1. End(pos) <= S + Ring
    BY <1>1, <1>3, <1>5, RingSize DEF Pointers
  <2> QED
    BY <1>1, <1>3, <1>4, <1>5, <1>6, <2>1 DEF Pointers
<1>8. Progress(pos[taken + 1], S, X)'
  BY <1>1, <1>2, <1>3, <1>4 DEF Progress, Commands
<1>9. Locals'
  <2>1. Received!Frame(taken + 1)' = Received!Frame(taken + 1)
    BY <1>4 DEF Received!Frame
  <2> QED
    BY <1>2, <1>4, <2>1 DEF Locals
<1>10. Commands'
  BY <1>4 DEF Commands
<1>11. RingType' /\ LocalType' /\ FrameType'
  <2>1. chip.lag \in Nat
    BY <1>2, RxAssumption DEF RingType
  <2> QED
    BY <1>2, <1>4, <2>1 DEF RingType, LocalType, FrameType
<1> QED
  BY <1>6, <1>7, <1>8, <1>9, <1>10, <1>11 DEF IInv, Inv, TypeOK, RingType, LocalType, FrameType

\* A prompt chip has taken a RECV before the driver's second access after it.
LEMMA Taken ==
  ASSUME Prompt, RingType, Commands, InTime
  PROVE  /\ chip.lag \in Nat
         /\ cr # "none" => /\ cr = "recv" /\ age = 0 /\ chip.lag = 1
                          /\ pc \in {"look", "data", "ignore"}
<1>1. chip \in Chips /\ chip.lag \in Nat
  BY RxAssumption DEF RingType
<1>2. chip.lag = 0 \/ (chip.lag = 1 /\ ~chip.sends)
  BY <1>1 DEF Prompt
<1> QED
  BY <1>1, <1>2 DEF RingType, Commands, InTime

LEMMA SendStep ==
  ASSUME Prompt, TypeOK, NEW pos, NEW R, NEW X, Inv(pos, R, X), SendCommand
  PROVE  IInv'
<1>1. Layout(pos) /\ Pointers(pos, R, X) /\ Content(pos, R) /\ Progress(pos[taken + 1], R, X)
  BY DEF Inv
<1>2. FrameType /\ RingType /\ LocalType /\ Locals /\ Commands
  BY TypeParts DEF Inv
<1>3. /\ UNCHANGED <<chip, mem, wr, rd, rxRd, pc, ptr, packLen, pack, sizes, taken, got>>
      /\ cr' = "send" /\ age' = 0 /\ chip.sends
  BY DEF SendCommand, drvVars
<1>4. cr = "none" /\ chip.lag \in Nat
  <2>1. chip \in Chips /\ InTime
    BY <1>2 DEF RingType, SendCommand
  <2>2. chip.lag = 0
    BY <1>3, <2>1 DEF Prompt
  <2> QED
    BY <1>2, <2>1, <2>2, Taken
<1>5. Layout(pos)' /\ End(pos)' = End(pos) /\ Content(pos, R)'
  <2>1. R \in Nat /\ R <= R
    BY <1>1 DEF Pointers
  <2> QED
    BY <1>1, <1>2, <1>3, <2>1, Carried
<1>6. Pointers(pos, R, X)' /\ Progress(pos[taken + 1], R, X)'
  BY <1>1, <1>3, <1>4, <1>5 DEF Pointers, Progress
<1>7. Locals'
  <2>1. Received!Frame(taken + 1)' = Received!Frame(taken + 1)
    BY <1>3 DEF Received!Frame
  <2> QED
    BY <1>2, <1>3, <2>1 DEF Locals
<1>8. Commands'
  BY <1>3 DEF Commands
<1>9. RingType' /\ LocalType' /\ FrameType'
  BY <1>2, <1>3, <1>4 DEF RingType, LocalType, FrameType
<1> QED
  BY <1>5, <1>6, <1>7, <1>8, <1>9 DEF IInv, Inv, TypeOK, RingType, LocalType, FrameType

-----------------------------------------------------------------------------
(* The driver.                                                               *)

LEMMA Parts ==
  ASSUME TypeOK, NEW pos, NEW R, NEW X, Inv(pos, R, X)
  PROVE  /\ Layout(pos) /\ Pointers(pos, R, X) /\ Content(pos, R) /\ Progress(pos[taken + 1], R, X)
         /\ FrameType /\ RingType /\ LocalType /\ Locals /\ Commands
         /\ R \in Nat /\ X \in Nat /\ End(pos) \in Nat /\ R <= X /\ X <= End(pos)
         /\ taken \in Nat /\ Len(sizes) \in Nat /\ pos[taken + 1] \in Nat
<1>1. /\ Layout(pos) /\ Pointers(pos, R, X) /\ Content(pos, R) /\ Progress(pos[taken + 1], R, X)
      /\ FrameType /\ RingType /\ LocalType /\ Locals /\ Commands
  BY TypeParts DEF Inv
<1>2. taken \in Nat /\ Len(sizes) \in Nat /\ taken <= Len(sizes)
  BY <1>1, FrameFacts
<1>3. taken + 1 \in 1 .. Len(sizes) + 1 /\ Len(sizes) + 1 \in 1 .. Len(sizes) + 1
  BY <1>2
<1> QED
  BY <1>1, <1>2, <1>3 DEF Layout, End, Pointers

\* The frame that the driver is in.
LEMMA NextFrame ==
  ASSUME TypeOK, NEW pos, NEW R, NEW X, Inv(pos, R, X), taken < Len(sizes)
  PROVE  /\ taken + 1 \in 1 .. Len(sizes) /\ sizes[taken + 1] \in 1 .. MaxSize
         /\ sizes[taken + 1] \in Nat /\ sizes[taken + 1] >= 1 /\ sizes[taken + 1] < Ptrs
         /\ pos[taken + 2] = pos[taken + 1] + 1 + sizes[taken + 1] /\ pos[taken + 2] \in Nat
         /\ pos[taken + 2] <= End(pos)
<1>1. taken \in Nat /\ Len(sizes) \in Nat /\ Layout(pos) /\ FrameType /\ pos[taken + 1] \in Nat
  BY Parts
<1>2. /\ taken + 1 \in 1 .. Len(sizes) /\ taken + 2 \in 1 .. Len(sizes) + 1
      /\ (taken + 1) + 1 = taken + 2
  BY <1>1
<1>3. sizes[taken + 1] \in 1 .. MaxSize
  BY <1>1, <1>2, FrameFacts
<1>4. sizes[taken + 1] \in Nat /\ sizes[taken + 1] >= 1 /\ sizes[taken + 1] < Ptrs
  BY <1>3, RingSize, RxAssumption
<1>5. pos[(taken + 1) + 1] = pos[taken + 1] + sizes[taken + 1] + 1
  BY <1>1, <1>2 DEF Layout
<1>6. pos[taken + 2] = pos[taken + 1] + 1 + sizes[taken + 1]
  BY <1>1, <1>2, <1>4, <1>5
<1>7. pos[taken + 2] \in Nat /\ pos[taken + 2] <= End(pos)
  BY <1>1, <1>2 DEF Layout
<1> QED
  BY <1>2, <1>3, <1>4, <1>6, <1>7

\* Y is what Sn_RX_RD stands for after a step of the driver.
LEMMA DriverStep ==
  ASSUME Prompt, TypeOK, NEW pos, NEW R, NEW X, Inv(pos, R, X),
         InTime, UNCHANGED <<chip, mem, wr, rd, sizes>>,
         \/ cr' = "recv" /\ age' = 0
         \/ cr' = cr /\ age' = IF cr = "none" THEN 0 ELSE age + 1,
         NEW Y \in Nat, X <= Y, Y <= End(pos), rxRd' = Y % Ptrs,
         Progress(pos[taken + 1], R, Y)', Locals', Commands', LocalType', FrameType'
  PROVE  IInv'
<1>1. /\ Layout(pos) /\ Pointers(pos, R, X) /\ Content(pos, R) /\ FrameType /\ RingType
      /\ R \in Nat /\ X \in Nat
  BY Parts
<1>2. R <= R /\ End(pos) \in Nat
  BY <1>1, Parts
<1>3. Layout(pos)' /\ End(pos)' = End(pos) /\ Content(pos, R)'
  BY <1>1, <1>2, Carried
<1>4. Pointers(pos, R, Y)'
  <2>1. R <= Y
    BY <1>1 DEF Pointers
  <2> QED
    BY <1>1, <1>3, <2>1 DEF Pointers
<1>5. RingType'
  <2>1. rxRd' \in 0 .. Ptrs - 1
    BY DivMod, PtrCount
  <2>2. age' \in 0 .. chip.lag
    <3>1. chip.lag \in Nat /\ (cr = "none" \/ (age = 0 /\ chip.lag = 1))
      BY <1>1, Parts, Taken
    <3> QED
      BY <3>1
  <2>3. cr' \in {"none", "recv", "send"}
    BY <1>1 DEF RingType
  <2> QED
    BY <1>1, <2>1, <2>2, <2>3 DEF RingType
<1> QED
  BY <1>3, <1>4, <1>5 DEF IInv, Inv, TypeOK, RingType, LocalType, FrameType

\* Steps that read no data.
LEMMA LookStep ==
  ASSUME Prompt, TypeOK, NEW pos, NEW R, NEW X, Inv(pos, R, X), Look \/ Size \/ Ignore
  PROVE  IInv'
<1>1. /\ Progress(pos[taken + 1], R, X) /\ Pointers(pos, R, X) /\ Layout(pos) /\ FrameType
      /\ RingType /\ LocalType /\ Locals /\ Commands
      /\ R \in Nat /\ X \in Nat /\ End(pos) \in Nat /\ X <= End(pos)
      /\ taken \in Nat /\ Len(sizes) \in Nat
  BY Parts
<1>2. /\ UNCHANGED <<chip, mem, wr, rd, rxRd, cr, packLen, pack, sizes, taken, got>> /\ InTime
      /\ age' = IF cr = "none" THEN 0 ELSE age + 1
  BY DEF Look, Size, Ignore, Read, Go
<1>3. chip.lag \in Nat /\ (cr = "none" \/ (cr = "recv" /\ age = 0 /\ chip.lag = 1))
  BY <1>1, <1>2, Taken
<1>4. /\ \/ pc = "look" /\ pc' \in {"look", "size"}
         \/ pc = "size" /\ pc' = "look"
         \/ pc = "size" /\ pc' = "header" /\ ReceivedSize > 0
         \/ pc = "ignore" /\ pc' = "ignore_rd"
      /\ pc' # "ignore_rd" => ptr' = ptr
      /\ pc' = "ignore_rd" => ptr' = rxRd
  BY DEF Look, Size, Ignore, Read, Go
<1>5. pc' = "header" => taken < Len(sizes)
  <2> SUFFICES ASSUME pc' = "header" PROVE taken < Len(sizes)
    OBVIOUS
  <2>1. pc = "size" /\ ReceivedSize > 0 /\ cr = "none"
    <3>1. pc = "size" /\ ReceivedSize > 0
      BY <1>4
    <3> QED
      BY <1>1, <1>2, <3>1, Taken
  <2>2. R = pos[taken + 1] /\ ReceivedSize = End(pos) - R
    BY <1>1, <2>1, SizeReported DEF Progress
  <2>3. taken # Len(sizes)
    BY <1>1, <2>1, <2>2 DEF End
  <2>4. taken <= Len(sizes)
    BY <1>1, FrameFacts
  <2> QED
    BY <1>1, <2>3, <2>4
<1>6. Progress(pos[taken + 1], R, X)'
  BY <1>1, <1>2, <1>4 DEF Progress
<1>7. Locals'
  <2>1. Received!Frame(taken + 1)' = Received!Frame(taken + 1)
    BY <1>2 DEF Received!Frame
  <2> QED
    BY <1>1, <1>2, <1>4, <1>5, <2>1 DEF Locals
<1>8. Commands'
  <2>1. cr' = "recv" => pc' \in {"look", "size", "ignore_rd"}
    BY <1>1, <1>2, <1>4, Taken
  <2>2. cr' = "recv" => age' >= chip'.lag
    BY <1>2, <1>3
  <2> QED
    BY <1>1, <1>2, <2>1, <2>2 DEF Commands
<1>9. LocalType' /\ FrameType'
  <2>1. ptr' \in 0 .. Ptrs - 1
    BY <1>1, <1>4 DEF LocalType, RingType
  <2> QED
    BY <1>1, <1>2, <1>4, <2>1 DEF LocalType, FrameType
<1>10. X <= X /\ rxRd' = X % Ptrs
  BY <1>1, <1>2 DEF Pointers
<1> QED
  BY <1>1, <1>2, <1>6, <1>7, <1>8, <1>9, <1>10, DriverStep

LEMMA ReadHeaderStep ==
  ASSUME Prompt, TypeOK, NEW pos, NEW R, NEW X, Inv(pos, R, X), ReadHeader
  PROVE  IInv'
<1>1. /\ Progress(pos[taken + 1], R, X) /\ Pointers(pos, R, X) /\ Content(pos, R) /\ FrameType
      /\ RingType /\ LocalType /\ Locals /\ Commands /\ R \in Nat /\ X \in Nat /\ X <= End(pos)
  BY Parts
<1>2. /\ UNCHANGED <<chip, mem, wr, rd, rxRd, cr, pack, sizes, taken, got>> /\ InTime
      /\ age' = IF cr = "none" THEN 0 ELSE age + 1
      /\ pc = "header" /\ pc' = "header_rd" /\ ptr' = rxRd
      /\ packLen' = (LengthIn(mem[rxRd % Ring]) - 1) % Ptrs
  BY DEF ReadHeader, Read, Go
<1>3. cr = "none" /\ taken < Len(sizes)
  BY <1>1, <1>2, Taken DEF Locals
<1>4. PICK s \in Nat : s = sizes[taken + 1] /\ s < Ptrs
  BY <1>3, NextFrame
<1>5. mem[rxRd % Ring] = Header(s)
  <2>1. X = pos[taken + 1] /\ R = X
    BY <1>1, <1>2, <1>3 DEF Progress
  <2>2. 0 \in 0 .. MaxSize /\ 0 <= sizes[taken + 1] /\ taken + 1 \in 1 .. Len(sizes)
    BY <1>3, <1>4, NextFrame, RxAssumption
  <2>3. pos[taken + 1] + 0 = X /\ pos[taken + 1] + 0 >= R
    BY <1>1, <2>1
  <2>4. mem[X % Ring] = Piece(taken + 1, 0)
    BY <1>1, <2>2, <2>3 DEF Content
  <2>5. rxRd % Ring = X % Ring
    <3>1. ((X % Ptrs) + 0) % Ring = (X + 0) % Ring /\ X % Ptrs \in Int
      <4>1. X \in Int /\ 0 \in Int
        BY <1>1
      <4>2. X % Ptrs \in 0 .. Ptrs - 1
        BY <4>1, DivMod, PtrCount
      <4>3. ((X % Ptrs) + 0) % Ring = (X + 0) % Ring
        BY <4>1, PtrAdd
      <4> QED
        BY <4>2, <4>3, PtrCount
    <3>2. (X % Ptrs) + 0 = X % Ptrs /\ X + 0 = X
      BY <1>1, <3>1
    <3>3. rxRd = X % Ptrs
      BY <1>1 DEF Pointers
    <3> QED
      BY <3>1, <3>2, <3>3
  <2> QED
    BY <1>4, <2>4, <2>5 DEF Piece
<1>6. packLen' = s
  <2>1. packLen' = s % Ptrs
    <3>1. LengthIn(Header(s)) - 1 = s
      BY DEF LengthIn, Header
    <3> QED
      BY <1>2, <1>5, <3>1
  <2>2. s = 0 * Ptrs + s /\ s \in 0 .. Ptrs - 1
    BY <1>4, PtrCount
  <2> QED
    BY <2>1, <2>2, PtrCount, ModUnique
<1>7. Progress(pos[taken + 1], R, X)' /\ Commands'
  BY <1>1, <1>2, <1>3 DEF Progress, Commands
<1>8. Locals'
  BY <1>1, <1>2, <1>3, <1>4, <1>6 DEF Locals
<1>9. LocalType' /\ FrameType'
  <2>1. packLen' \in 0 .. Ptrs - 1 /\ ptr' \in 0 .. Ptrs - 1
    BY <1>1, <1>2, <1>4, <1>6, PtrCount DEF RingType
  <2> QED
    BY <1>1, <1>2, <2>1 DEF LocalType, FrameType
<1>10. X <= X /\ rxRd' = X % Ptrs
  BY <1>1, <1>2 DEF Pointers
<1> QED
  BY <1>1, <1>2, <1>7, <1>8, <1>9, <1>10, DriverStep

LEMMA ReadDataStep ==
  ASSUME Prompt, TypeOK, NEW pos, NEW R, NEW X, Inv(pos, R, X), ReadData
  PROVE  IInv'
<1>1. /\ Progress(pos[taken + 1], R, X) /\ Pointers(pos, R, X) /\ Content(pos, R) /\ FrameType
      /\ RingType /\ LocalType /\ Locals /\ Commands /\ R \in Nat /\ X \in Nat /\ X <= End(pos)
      /\ R <= X /\ pos[taken + 1] \in Nat
  BY Parts
<1>2. /\ UNCHANGED <<chip, mem, wr, rd, rxRd, cr, packLen, sizes, taken, got>> /\ InTime
      /\ age' = IF cr = "none" THEN 0 ELSE age + 1
      /\ pc = "data" /\ pc' = "data_rd" /\ ptr' = rxRd
      /\ pack' = [k \in 1 .. packLen |-> mem[(rxRd + k - 1) % Ring]]
  BY DEF ReadData, Read, Go
<1>3. chip.lag \in Nat /\ (cr = "none" \/ (cr = "recv" /\ age = 0 /\ chip.lag = 1))
  BY <1>1, <1>2, Taken
<1>4. taken < Len(sizes) /\ packLen = sizes[taken + 1] /\ packLen <= Buf /\ X = pos[taken + 1] + 1
  BY <1>1, <1>2 DEF Locals, Progress
<1>5. /\ taken + 1 \in 1 .. Len(sizes) /\ packLen \in Nat
      /\ \A k \in 1 .. packLen : k \in 1 .. MaxSize
  BY <1>4, NextFrame, RxAssumption
<1>6. ASSUME NEW k \in 1 .. packLen PROVE mem[(rxRd + k - 1) % Ring] = <<taken + 1, k>>
  <2>1. k \in 0 .. MaxSize /\ k <= sizes[taken + 1] /\ k # 0 /\ k \in Nat
    BY <1>4, <1>5
  <2>2. pos[taken + 1] + k >= R
    BY <1>1, <1>4, <2>1
  <2>3. mem[(pos[taken + 1] + k) % Ring] = Piece(taken + 1, k)
    BY <1>1, <1>5, <2>1, <2>2 DEF Content
  <2>4. (rxRd + k - 1) % Ring = (pos[taken + 1] + k) % Ring
    <3>1. k - 1 \in Int /\ X \in Int
      BY <1>1, <2>1
    <3>2. ((X % Ptrs) + (k - 1)) % Ring = (X + (k - 1)) % Ring /\ X % Ptrs \in Int
      <4>1. X % Ptrs \in 0 .. Ptrs - 1
        BY <3>1, DivMod, PtrCount
      <4>2. ((X % Ptrs) + (k - 1)) % Ring = (X + (k - 1)) % Ring
        BY <3>1, PtrAdd
      <4> QED
        BY <4>1, <4>2, PtrCount
    <3>3. rxRd = X % Ptrs
      BY <1>1 DEF Pointers
    <3>4. rxRd + k - 1 = (X % Ptrs) + (k - 1) /\ X + (k - 1) = pos[taken + 1] + k
      BY <1>1, <1>4, <2>1, <3>2, <3>3
    <3> QED
      BY <3>2, <3>4
  <2> QED
    BY <2>1, <2>3, <2>4 DEF Piece
<1>7. pack' = Received!Frame(taken + 1)
  BY <1>2, <1>4, <1>6 DEF Received!Frame
<1>8. Progress(pos[taken + 1], R, X)'
  BY <1>1, <1>2 DEF Progress
<1>9. Commands'
  BY <1>1, <1>2, <1>3 DEF Commands
<1>10. Locals'
  <2>1. Received!Frame(taken + 1)' = Received!Frame(taken + 1)
    BY <1>2 DEF Received!Frame
  <2> QED
    BY <1>1, <1>2, <1>7, <2>1 DEF Locals
<1>11. LocalType' /\ FrameType'
  <2>1. ASSUME NEW k \in 1 .. packLen PROVE <<taken + 1, k>> \in Pieces
    <3>1. taken + 1 \in 0 .. MaxFrames
      BY <1>1, <1>5, FrameFacts, RxAssumption DEF FrameType
    <3> QED
      BY <1>5, <3>1, RxAssumption DEF Pieces
  <2>2. pack' \in [1 .. packLen -> Pieces]
    BY <1>2, <1>6, <2>1
  <2>3. pack' \in Seq(Pieces) /\ Len(pack') = packLen
    BY <1>5, <2>2
  <2>4. ptr' \in 0 .. Ptrs - 1
    BY <1>1, <1>2 DEF RingType
  <2> QED
    BY <1>1, <1>2, <1>4, <2>3, <2>4 DEF LocalType, FrameType
<1>12. X <= X /\ rxRd' = X % Ptrs
  BY <1>1, <1>2 DEF Pointers
<1> QED
  BY <1>1, <1>2, <1>8, <1>9, <1>10, <1>11, <1>12, DriverStep

\* Y is a header, or the data of a frame, beyond X.
LEMMA AdvanceStep ==
  ASSUME Prompt, TypeOK, NEW pos, NEW R, NEW X, Inv(pos, R, X),
         AdvanceHeader \/ AdvanceData \/ AdvanceIgnored
  PROVE  IInv'
<1>1. /\ Progress(pos[taken + 1], R, X) /\ Pointers(pos, R, X) /\ FrameType
      /\ RingType /\ LocalType /\ Locals /\ Commands /\ R \in Nat /\ X \in Nat /\ X <= End(pos)
      /\ pos[taken + 1] \in Nat /\ End(pos) \in Nat
  BY Parts
<1>2. PICK length : /\ rxRd' = (ptr + length) % Ptrs
                    /\ \/ pc = "header_rd" /\ pc' = "header_recv" /\ length = 1
                       \/ pc = "data_rd" /\ pc' = "data_recv" /\ length = packLen
                       \/ pc = "ignore_rd" /\ pc' = "ignore_recv" /\ length = packLen
  BY DEF AdvanceHeader, AdvanceData, AdvanceIgnored, Advance, Go
<1>3. /\ UNCHANGED <<chip, mem, wr, rd, cr, ptr, packLen, pack, sizes, taken, got>> /\ InTime
      /\ age' = IF cr = "none" THEN 0 ELSE age + 1
  BY DEF AdvanceHeader, AdvanceData, AdvanceIgnored, Advance, Go
<1>4. cr = "none"
  BY <1>1, <1>2, <1>3, Taken
<1>5. taken < Len(sizes) /\ packLen = sizes[taken + 1] /\ ptr = X % Ptrs
  BY <1>1, <1>2 DEF Locals, Pointers
<1>6. /\ sizes[taken + 1] \in Nat /\ pos[taken + 2] \in Nat /\ pos[taken + 2] <= End(pos)
      /\ pos[taken + 2] = pos[taken + 1] + 1 + sizes[taken + 1]
  BY <1>5, NextFrame
<1>7. length \in Nat /\ packLen \in Nat
  BY <1>2, <1>5, <1>6
<1>8. PICK Y \in Nat : Y = X + length
  BY <1>1, <1>7
<1>9. rxRd' = Y % Ptrs
  BY <1>1, <1>2, <1>5, <1>7, <1>8, PtrAdd
<1>10. X = IF pc = "header_rd" THEN pos[taken + 1] ELSE pos[taken + 1] + 1
  BY <1>1, <1>2 DEF Progress
<1>11. X <= Y /\ Y <= pos[taken + 2] /\ Y <= End(pos)
  <2>1. CASE pc = "header_rd"
    BY <1>1, <1>2, <1>6, <1>8, <1>10, <2>1
  <2>2. CASE pc # "header_rd"
    BY <1>1, <1>2, <1>5, <1>6, <1>8, <1>10, <2>2
  <2> QED
    BY <2>1, <2>2
<1>12. Progress(pos[taken + 1], R, Y)'
  <2>1. R = IF pc = "header_rd" THEN pos[taken + 1] ELSE pos[taken + 1] + 1
    BY <1>1, <1>2, <1>4 DEF Progress
  <2>2. Y = IF pc = "header_rd" THEN pos[taken + 1] + 1 ELSE pos[taken + 1] + 1 + packLen
    BY <1>2, <1>8, <1>10
  <2> QED
    BY <1>2, <1>3, <2>1, <2>2 DEF Progress
<1>13. Commands'
  BY <1>1, <1>2, <1>3, <1>4 DEF Commands
<1>14. Locals'
  <2>1. Received!Frame(taken + 1)' = Received!Frame(taken + 1)
    BY <1>3 DEF Received!Frame
  <2> QED
    BY <1>1, <1>2, <1>3, <2>1 DEF Locals
<1>15. LocalType' /\ FrameType'
  BY <1>1, <1>2, <1>3 DEF LocalType, FrameType
<1> QED
  BY <1>3, <1>9, <1>11, <1>12, <1>13, <1>14, <1>15, DriverStep

LEMMA RecvHeaderStep ==
  ASSUME Prompt, TypeOK, NEW pos, NEW R, NEW X, Inv(pos, R, X), RecvHeader
  PROVE  IInv'
<1>1. /\ Progress(pos[taken + 1], R, X) /\ Pointers(pos, R, X) /\ FrameType
      /\ RingType /\ LocalType /\ Locals /\ Commands /\ R \in Nat /\ X \in Nat /\ X <= End(pos)
  BY Parts
<1>2. /\ UNCHANGED <<chip, mem, wr, rd, rxRd, ptr, packLen, pack, sizes, taken, got>> /\ InTime
      /\ cr' = "recv" /\ age' = 0
      /\ pc = "header_recv" /\ pc' = IF packLen > Buf THEN "ignore" ELSE "data"
  BY DEF RecvHeader, Recv, Go
<1>3. packLen \in Nat /\ Buf \in Nat
  <2>1. taken < Len(sizes) /\ packLen = sizes[taken + 1]
    BY <1>1, <1>2 DEF Locals
  <2> QED
    BY <2>1, NextFrame, RxAssumption
<1>4. Progress(pos[taken + 1], R, X)' /\ Commands'
  BY <1>1, <1>2 DEF Progress, Commands
<1>5. Locals'
  BY <1>1, <1>2, <1>3 DEF Locals
<1>6. LocalType' /\ FrameType'
  BY <1>1, <1>2 DEF LocalType, FrameType
<1>7. X <= X /\ rxRd' = X % Ptrs
  BY <1>1, <1>2 DEF Pointers
<1> QED
  BY <1>1, <1>2, <1>4, <1>5, <1>6, <1>7, DriverStep

\* The frame is out: what is returned is the frame, and it fits; or it does not fit.
LEMMA FrameOut ==
  ASSUME TypeOK, NEW pos, NEW R, NEW X, Inv(pos, R, X), RecvData \/ RecvIgnored
  PROVE  /\ taken < Len(sizes) /\ taken' = taken + 1 /\ UNCHANGED sizes
         /\ RecvData => sizes[taken + 1] <= Buf /\ got' = Append(got, Received!Frame(taken + 1))
         /\ RecvIgnored => sizes[taken + 1] > Buf /\ UNCHANGED got
<1>1. Locals
  BY Parts
<1>2. CASE RecvData
  <2>1. pc = "data_recv" /\ taken' = taken + 1 /\ UNCHANGED sizes /\ got' = Append(got, pack)
    BY <1>2 DEF RecvData, Recv, Go
  <2>2. ~RecvIgnored
    BY <2>1 DEF RecvIgnored, Recv, Go
  <2> QED
    BY <1>1, <2>1, <2>2 DEF Locals
<1>3. CASE RecvIgnored
  <2>1. pc = "ignore_recv" /\ taken' = taken + 1 /\ UNCHANGED <<sizes, got>>
    BY <1>3 DEF RecvIgnored, Recv, Go
  <2>2. ~RecvData
    BY <2>1 DEF RecvData, Recv, Go
  <2> QED
    BY <1>1, <2>1, <2>2 DEF Locals
<1> QED
  BY <1>2, <1>3

LEMMA RecvFrameStep ==
  ASSUME Prompt, TypeOK, NEW pos, NEW R, NEW X, Inv(pos, R, X), RecvData \/ RecvIgnored
  PROVE  IInv'
<1>1. /\ Progress(pos[taken + 1], R, X) /\ Pointers(pos, R, X) /\ FrameType /\ Layout(pos)
      /\ RingType /\ LocalType /\ Locals /\ Commands /\ R \in Nat /\ X \in Nat /\ X <= End(pos)
      /\ taken \in Nat /\ Len(sizes) \in Nat /\ pos[taken + 1] \in Nat
  BY Parts
<1>2. /\ UNCHANGED <<chip, mem, wr, rd, rxRd>> /\ InTime /\ cr' = "recv" /\ age' = 0
      /\ pc \in {"data_recv", "ignore_recv"} /\ pc' = "look" /\ ptr' = 0 /\ packLen' = 0
      /\ pack' = <<>>
      /\ got' \in {got, Append(got, pack)}
  BY <1>1 DEF RecvData, RecvIgnored, Recv, Go, Locals
<1>3. taken < Len(sizes) /\ taken' = taken + 1 /\ UNCHANGED sizes
  BY FrameOut
<1>4. X = pos[taken + 2]
  <2>1. X = pos[taken + 1] + 1 + packLen /\ packLen = sizes[taken + 1]
    BY <1>1, <1>2 DEF Progress, Locals
  <2> QED
    BY <1>3, <2>1, NextFrame
<1>5. Progress(pos[taken + 1], R, X)'
  <2>1. pos[taken' + 1] = pos[taken + 2]
    BY <1>1, <1>3
  <2> QED
    BY <1>2, <1>4, <2>1 DEF Progress
<1>6. Locals' /\ Commands'
  BY <1>2 DEF Locals, Commands
<1>7. LocalType'
  BY <1>2, PtrCount, RxAssumption DEF LocalType
<1>8. FrameType'
  <2>1. got' \in Seq(Seq(Pieces))
    <3>1. got \in Seq(Seq(Pieces)) /\ pack \in Seq(Pieces)
      BY <1>1 DEF FrameType, LocalType
    <3>2. Append(got, pack) \in Seq(Seq(Pieces))
      BY <3>1, AppendProperties
    <3> QED
      BY <1>2, <3>1, <3>2
  <2>2. taken' \in 0 .. Len(sizes)
    BY <1>1, <1>3
  <2> QED
    BY <1>1, <1>3, <2>1, <2>2 DEF FrameType
<1>9. X <= X /\ rxRd' = X % Ptrs
  BY <1>1, <1>2 DEF Pointers
<1> QED
  BY <1>1, <1>2, <1>3, <1>5, <1>6, <1>7, <1>8, <1>9, DriverStep

LEMMA StepHolds == Prompt /\ IInv /\ [Next]_vars => IInv'
<1> SUFFICES ASSUME Prompt, IInv, [Next]_vars PROVE IInv'
  OBVIOUS
<1>1. PICK pos, R, X : TypeOK /\ Inv(pos, R, X)
  BY DEF IInv
<1>2. ASSUME NEW size \in 1 .. MaxSize, Store(size) PROVE IInv'
  BY <1>1, <1>2, StoreStep
<1>3. CASE TakeCommand
  BY <1>1, <1>3, TakeStep
<1>4. CASE SendCommand
  BY <1>1, <1>4, SendStep
<1>5. CASE Look \/ Size \/ Ignore
  BY <1>1, <1>5, LookStep
<1>6. CASE ReadHeader
  BY <1>1, <1>6, ReadHeaderStep
<1>7. CASE ReadData
  BY <1>1, <1>7, ReadDataStep
<1>8. CASE AdvanceHeader \/ AdvanceData \/ AdvanceIgnored
  BY <1>1, <1>8, AdvanceStep
<1>9. CASE RecvHeader
  BY <1>1, <1>9, RecvHeaderStep
<1>10. CASE RecvData \/ RecvIgnored
  BY <1>1, <1>10, RecvFrameStep
<1>11. CASE UNCHANGED vars
  <2>1. TypeOK'
    BY <1>1, <1>11 DEF TypeOK, vars, chipVars, drvVars, Pieces, Ptrs
  <2>2. Inv(pos, R, X)'
    BY <1>1, <1>11
       DEF Inv, vars, chipVars, drvVars, Layout, End, Pointers, Content, Piece, Progress,
           Locals, Commands, Received!Frame
  <2> QED
    BY <2>1, <2>2 DEF IInv
<1> QED
  BY <1>2, <1>3, <1>4, <1>5, <1>6, <1>7, <1>8, <1>9, <1>10, <1>11 DEF Next, Driver

-----------------------------------------------------------------------------
\* The invariant holds in every reachable state, with any prompt chip.
THEOREM Inductive == ASSUME Prompt PROVE Spec => []IInv
<1>1. IInv /\ [Next]_vars => IInv'
  BY StepHolds
<1> QED
  BY <1>1, InitHolds, PTL DEF Spec

\* Every variable has its type; of the buffer of w5x00_task: no frame is read
\* into it that is longer.
THEOREM TypeCorrect == ASSUME Prompt PROVE Spec => []TypeOK
<1>1. IInv => TypeOK
  BY DEF IInv
<1> QED
  BY <1>1, Inductive, PTL

\* Between two calls of recv_lwip the chip's memory holds the frames to come and
\* nothing else, once the last RECV is taken.
THEOREM AllMemoryReturned == ASSUME Prompt PROVE Spec => []MemoryReturned
<1>1. IInv => MemoryReturned
  <2> SUFFICES ASSUME IInv, pc = "look", cr # "recv" PROVE rd = rxRd
    BY DEF MemoryReturned
  <2>1. PICK pos, R, X : TypeOK /\ Inv(pos, R, X)
    BY DEF IInv
  <2>2. Progress(pos[taken + 1], R, X) /\ Pointers(pos, R, X)
    BY <2>1, Parts
  <2>3. R = pos[taken + 1] /\ X = pos[taken + 1]
    BY <2>2 DEF Progress
  <2> QED
    BY <2>2, <2>3 DEF Pointers
<1> QED
  BY <1>1, Inductive, PTL

\* recv_lwip implements EthernetRx: frames come out once, whole and in order,
\* and exactly those that do not fit the buffer are skipped.
THEOREM EthernetRxImplemented == ASSUME Prompt PROVE Spec => ImplementsEthernetRx
<1>1. Init => Received!Init
  BY DEF Init, Received!Init
<1>2. IInv /\ [Next]_vars => [Received!Next]_<<sizes, taken, got>>
  <2> SUFFICES ASSUME IInv, [Next]_vars PROVE [Received!Next]_<<sizes, taken, got>>
    OBVIOUS
  <2>1. PICK pos, R, X : TypeOK /\ Inv(pos, R, X)
    BY DEF IInv
  <2>2. ASSUME NEW size \in 1 .. MaxSize, Store(size) PROVE Received!Store
    BY <2>2 DEF Store, Received!Store
  <2>3. CASE RecvData
    <3>1. /\ taken < Len(sizes) /\ taken' = taken + 1 /\ UNCHANGED sizes
          /\ sizes[taken + 1] <= Buf /\ got' = Append(got, Received!Frame(taken + 1))
      BY <2>1, <2>3, FrameOut
    <3> QED
      BY <3>1 DEF Received!Next, Received!Deliver
  <2>4. CASE RecvIgnored
    <3>1. /\ taken < Len(sizes) /\ taken' = taken + 1 /\ UNCHANGED <<sizes, got>>
          /\ sizes[taken + 1] > Buf
      BY <2>1, <2>4, FrameOut
    <3> QED
      BY <3>1 DEF Received!Next, Received!Skip
  <2>5. CASE TakeCommand \/ SendCommand
    BY <2>5 DEF TakeCommand, SendCommand
  <2>6. CASE Look \/ Size \/ ReadHeader \/ ReadData \/ Ignore
    BY <2>6 DEF Look, Size, ReadHeader, ReadData, Ignore
  <2>7. CASE AdvanceHeader \/ AdvanceData \/ AdvanceIgnored \/ RecvHeader
    BY <2>7 DEF AdvanceHeader, AdvanceData, AdvanceIgnored, Advance, RecvHeader, Recv
  <2>8. CASE UNCHANGED vars
    BY <2>8 DEF vars
  <2> QED
    BY <2>2, <2>3, <2>4, <2>5, <2>6, <2>7, <2>8 DEF Next, Driver, Received!Next
<1> QED
  BY <1>1, <1>2, Inductive, PTL DEF Spec, ImplementsEthernetRx, Received!Spec
===============================================================================
