--------------------------- MODULE TcpSpliceProofs ---------------------------
(***************************************************************************)
(* Proofs about TcpSplice, for any sizes of the buffers and any number of  *)
(* bytes: the ring buffer never overwrites what lwIP may send again, and   *)
(* the client receives the server's bytes in order.                        *)
(***************************************************************************)
EXTENDS TcpSplice, TLAPS

-----------------------------------------------------------------------------
(* The ring buffer                                                         *)

Positions == 0 .. tcp_buffer_size - 1
Rings == [rp : Positions, wp : Positions, rda_size : 0 .. tcp_buffer_size,
          use_size : 0 .. tcp_buffer_size, max_size : {tcp_buffer_size},
          data : [Positions -> 0 .. ServerBytes]]

Wrap(p) == IF p < tcp_buffer_size THEN p ELSE p - tcp_buffer_size

\* The bytes that were read and not released lie before rp, the first of them,
\* which is the oldest in the buffer, here.
Held(b) == b.use_size - b.rda_size
Oldest(b) == IF b.rp >= Held(b) THEN b.rp - Held(b) ELSE b.rp - Held(b) + tcp_buffer_size
CellOf(b, k) == Wrap(Oldest(b) + k)

Shape(b) == b \in Rings /\ b.rda_size <= b.use_size /\ b.wp = Wrap(b.rp + b.rda_size)

\* A buffer in order holds the last use_size of the first n bytes.
HoldsLast(b, n) ==
    \A k \in 0 .. b.use_size - 1 : b.data[CellOf(b, k)] = n - b.use_size + k + 1

\* hev_config_init clamps the ring buffer to what lwIP takes.
LEMMA BufferSize == tcp_buffer_size \in Nat \ {0} /\ tcp_buffer_size <= SndBuf
  BY SizesAssumption DEF tcp_buffer_size

\* The % in the indices of the ring buffer is one subtraction.
LEMMA WrapMod ==
    ASSUME NEW p \in Positions, NEW n \in 0 .. tcp_buffer_size
    PROVE  (p + n) % tcp_buffer_size = Wrap(p + n) /\ Wrap(p + n) \in Positions
<1>1. ASSUME NEW m \in Nat \ {0}, NEW q \in 0 .. m - 1, NEW k \in 0 .. m
      PROVE  (q + k) % m = IF q + k < m THEN q + k ELSE q + k - m
  OBVIOUS
<1>2. tcp_buffer_size \in Nat \ {0} /\ p \in 0 .. tcp_buffer_size - 1
  BY BufferSize DEF Positions
<1>3. (p + n) % tcp_buffer_size = IF p + n < tcp_buffer_size THEN p + n ELSE p + n - tcp_buffer_size
  BY <1>1, <1>2
<1>4. QED BY <1>2, <1>3 DEF Wrap, Positions

\* The ranges of the fields, one by one.
LEMMA ShapeFields ==
    ASSUME NEW b, Shape(b)
    PROVE  /\ b.rp \in Positions /\ b.wp = Wrap(b.rp + b.rda_size)
           /\ b.rda_size \in 0 .. tcp_buffer_size /\ b.use_size \in 0 .. tcp_buffer_size
           /\ b.rda_size <= b.use_size /\ b.max_size = tcp_buffer_size
           /\ b.data \in [Positions -> 0 .. ServerBytes]
           /\ Held(b) \in 0 .. tcp_buffer_size /\ Oldest(b) \in Positions
<1>1. /\ b.rp \in Positions /\ b.wp = Wrap(b.rp + b.rda_size)
      /\ b.rda_size \in 0 .. tcp_buffer_size /\ b.use_size \in 0 .. tcp_buffer_size
      /\ b.rda_size <= b.use_size /\ b.max_size = tcp_buffer_size
      /\ b.data \in [Positions -> 0 .. ServerBytes]
  BY DEF Shape, Rings
<1>2. Held(b) \in 0 .. tcp_buffer_size
  BY <1>1, BufferSize DEF Held
<1>3. Oldest(b) \in Positions
  BY <1>1, <1>2, BufferSize DEF Oldest, Positions
<1>4. QED BY <1>1, <1>2, <1>3

\* Different bytes have different cells.
LEMMA CellsDiffer ==
    ASSUME NEW b, Shape(b), NEW i \in Positions, NEW k \in Positions, CellOf(b, i) = CellOf(b, k)
    PROVE  i = k
  BY ShapeFields, BufferSize DEF Positions, CellOf, Wrap

\* Every byte's cell is one of the buffer's.
LEMMA CellInRange ==
    ASSUME NEW b, Shape(b), NEW k \in 0 .. tcp_buffer_size
    PROVE  CellOf(b, k) \in Positions
  BY ShapeFields, BufferSize DEF Positions, CellOf, Wrap

\* The cells of the pieces are as many as asked for and follow each other.
LEMMA CellsOfPieces ==
    ASSUME NEW b, Shape(b), NEW p \in Positions, NEW n \in 0 .. tcp_buffer_size
    PROVE  /\ AllCells(Pieces(b, p, n)) \in Seq(Positions)
           /\ Len(AllCells(Pieces(b, p, n))) = n
           /\ \A i \in 1 .. n : AllCells(Pieces(b, p, n))[i] = Wrap(p + i - 1)
<1>1. b.max_size = tcp_buffer_size
  BY ShapeFields
<1>2. CASE n = 0
  BY <1>2 DEF Pieces, AllCells
<1>3. CASE n \in 1 .. tcp_buffer_size - p
  <2>1. Pieces(b, p, n) = <<[base |-> p, len |-> n]>>
    BY <1>1, <1>3 DEF Pieces
  <2>2. AllCells(Pieces(b, p, n)) = [i \in 1 .. n |-> p + i - 1]
    BY <2>1 DEF AllCells, Cells
  <2>3. QED BY <1>3, <2>2, BufferSize DEF Positions, Wrap
<1>4. CASE n > tcp_buffer_size - p
  <2> DEFINE one == tcp_buffer_size - p
             two == n - one
             first == [i \in 1 .. one |-> p + i - 1]
             second == [i \in 1 .. two |-> 0 + i - 1]
  <2>1. Pieces(b, p, n) = <<[base |-> p, len |-> one], [base |-> 0, len |-> two]>>
    BY <1>1, <1>4, BufferSize DEF Pieces, Positions
  <2>2. AllCells(Pieces(b, p, n)) = first \o second
    <3> DEFINE iov1 == [base |-> p, len |-> one]
               iov2 == [base |-> 0, len |-> two]
    <3>1. Cells(iov1) = first /\ Cells(iov2) = second
      BY DEF Cells
    <3>2. Pieces(b, p, n) = <<iov1, iov2>>
      BY <2>1
    <3> HIDE DEF iov1, iov2, first, second
    <3>3. <<iov1, iov2>> # <<>> /\ Len(<<iov1, iov2>>) # 1 /\ <<iov1, iov2>>[1] = iov1 /\ <<iov1, iov2>>[2] = iov2
      OBVIOUS
    <3>4. AllCells(<<iov1, iov2>>) = Cells(iov1) \o Cells(iov2)
      BY <3>3 DEF AllCells
    <3>5. QED BY <3>1, <3>2, <3>4
  <2>3. one \in Nat /\ two \in Nat /\ one + two = n
    BY <1>4, BufferSize DEF Positions
  <2>4. first \in Seq(Positions) /\ Len(first) = one /\ second \in Seq(Positions) /\ Len(second) = two
    BY <2>3, BufferSize DEF Positions
  <2>5. \A i \in 1 .. n : (first \o second)[i] = Wrap(p + i - 1)
    BY <2>3, <2>4, BufferSize DEF Positions, Wrap
  <2> HIDE DEF first, second, one, two
  <2>6. first \o second \in Seq(Positions) /\ Len(first \o second) = n
    BY <2>3, <2>4
  <2>7. QED BY <2>2, <2>5, <2>6
<1>5. QED BY <1>2, <1>3, <1>4, BufferSize DEF Positions

\* The k-th free cell lies k behind the last one in use, as if the buffer had
\* no end.
LEMMA WriteCell ==
    ASSUME NEW p \in Positions, NEW u \in 0 .. tcp_buffer_size, NEW a \in 0 .. u,
           NEW k \in 0 .. tcp_buffer_size - u - 1
    PROVE  Wrap(Wrap(p + a) + k)
           = Wrap((IF p >= u - a THEN p - (u - a) ELSE p - (u - a) + tcp_buffer_size) + (u + k))
<1>1. tcp_buffer_size \in Nat \ {0}
  BY BufferSize
<1>2. QED BY <1>1 DEF Wrap, Positions

\* So does the write position when n bytes are added.
LEMMA WritePosition ==
    ASSUME NEW p \in Positions, NEW u \in 0 .. tcp_buffer_size, NEW a \in 0 .. u,
           NEW k \in 0 .. tcp_buffer_size - u
    PROVE  /\ Wrap(Wrap(p + a) + k) \in Positions
           /\ Wrap(Wrap(p + a) + k) = Wrap(p + (a + k))
           /\ a + k \in 0 .. tcp_buffer_size /\ a + k <= u + k
<1>1. tcp_buffer_size \in Nat \ {0}
  BY BufferSize
<1>2. QED BY <1>1 DEF Wrap, Positions

\* r is b with n bytes more, the first of them t + 1.
ReadOf(b, n, t, r) ==
    /\ Shape(r) /\ r.use_size = b.use_size + n /\ r.rda_size = b.rda_size + n /\ r.rp = b.rp
    /\ \A k \in 0 .. b.use_size - 1 : r.data[CellOf(b, k)] = b.data[CellOf(b, k)]
    /\ \A i \in 1 .. n : r.data[CellOf(b, b.use_size + i - 1)] = t + i
    /\ \A c \in Positions : b.data[c] > 0 => r.data[c] > 0

\* readv puts the bytes it reads behind those in the buffer and touches none
\* of these.
LEMMA ReadFills ==
    ASSUME NEW b, Shape(b), NEW n \in 0 .. tcp_buffer_size - b.use_size,
           NEW t \in Nat, t + n <= ServerBytes
    PROVE  ReadOf(b, n, t, WriteFinish(Filled(b, [i \in 1 .. n |-> t + i]), n))
<1>a. PICK bytes : bytes = [i \in 1 .. n |-> t + i]
  OBVIOUS
<1>b. PICK r : r = WriteFinish(Filled(b, bytes), n)
  OBVIOUS
<1> DEFINE free == AllCells(Writing(b))
           data == [c \in DOMAIN b.data |->
                       IF \E i \in DOMAIN bytes : free[i] = c
                       THEN bytes[CHOOSE i \in DOMAIN bytes : free[i] = c] ELSE b.data[c]]
<1>1. /\ b.rp \in Positions /\ b.wp = Wrap(b.rp + b.rda_size) /\ b.max_size = tcp_buffer_size
      /\ b.rda_size \in 0 .. tcp_buffer_size /\ b.use_size \in 0 .. tcp_buffer_size
      /\ b.rda_size <= b.use_size /\ b.data \in [Positions -> 0 .. ServerBytes]
      /\ b.wp \in Positions /\ b \in Rings
  BY ShapeFields, WrapMod DEF Shape
<1>2. n \in 0 .. tcp_buffer_size /\ b.use_size + n \in 0 .. tcp_buffer_size
  <2>1. b.use_size \in 0 .. tcp_buffer_size
    BY <1>1
  <2>2. QED BY <2>1, BufferSize
<1>3. \A i \in 1 .. n : free[i] = CellOf(b, b.use_size + i - 1) /\ b.use_size + i - 1 \in Positions
  <2>1. TAKE i \in 1 .. n
  <2>2. /\ b.use_size \in 0 .. tcp_buffer_size /\ b.rda_size \in 0 .. tcp_buffer_size
        /\ b.rda_size <= b.use_size
    BY <1>1
  <2>3. tcp_buffer_size - b.use_size \in 0 .. tcp_buffer_size /\ i \in 1 .. tcp_buffer_size - b.use_size
    BY <2>2, BufferSize
  <2>4. free[i] = Wrap(b.wp + i - 1)
    <3>1. free = AllCells(Pieces(b, b.wp, tcp_buffer_size - b.use_size))
      BY <1>1 DEF Writing
    <3>2. \A j \in 1 .. tcp_buffer_size - b.use_size :
             AllCells(Pieces(b, b.wp, tcp_buffer_size - b.use_size))[j] = Wrap(b.wp + j - 1)
      BY <1>1, <2>3, CellsOfPieces
    <3>3. QED BY <2>3, <3>1, <3>2
  <2>5. b.use_size + i - 1 \in Positions
    BY <2>2, <2>3, BufferSize DEF Positions
  <2>6. Wrap(b.wp + i - 1) = CellOf(b, b.use_size + i - 1)
    <3> DEFINE k == i - 1
    <3>2. k \in 0 .. tcp_buffer_size - b.use_size - 1
      BY <2>2, <2>3, BufferSize
    <3>3. b.rp \in 0 .. tcp_buffer_size - 1 /\ b.wp = Wrap(b.rp + b.rda_size)
          /\ b.rda_size \in 0 .. b.use_size
      BY <1>1, <2>2 DEF Positions
    <3> HIDE DEF k
    <3>4. Wrap(b.wp + k) = CellOf(b, b.use_size + k)
      <4>1. b.rp \in Positions
        BY <1>1
      <4>2. ASSUME NEW p, p = b.rp, NEW u, u = b.use_size, NEW q, q = b.rda_size
            PROVE  Wrap(Wrap(p + q) + k)
                   = Wrap((IF p >= u - q THEN p - (u - q) ELSE p - (u - q) + tcp_buffer_size) + (u + k))
        BY <2>2, <3>2, <3>3, <4>1, <4>2, WriteCell
      <4>3. QED BY <3>3, <4>2 DEF CellOf, Oldest, Held
    <3>5. b.wp + i - 1 = b.wp + k /\ b.use_size + i - 1 = b.use_size + k
      BY <1>1, <2>2, BufferSize DEF k, Positions
    <3>6. QED BY <3>4, <3>5
  <2>7. QED BY <2>4, <2>5, <2>6
<1>4. \A i, j \in 1 .. n : free[i] = free[j] => i = j
  <2>1. TAKE i, j \in 1 .. n
  <2>2. HAVE free[i] = free[j]
  <2>3. b.use_size + i - 1 = b.use_size + j - 1
    BY <1>3, <2>2, CellsDiffer
  <2>4. b.use_size \in Int
    BY <1>1
  <2>5. QED BY <2>3, <2>4
<1>5. DOMAIN bytes = 1 .. n /\ \A i \in 1 .. n : bytes[i] = t + i
  BY <1>a
<1> HIDE DEF free
<1>6. \A i \in 1 .. n : (CHOOSE j \in 1 .. n : free[j] = free[i]) = i
  BY <1>4
<1>7. \A i \in 1 .. n : free[i] \in Positions
  <2>1. TAKE i \in 1 .. n
  <2>2. b.use_size + i - 1 \in Positions
    BY <1>3
  <2>3. b.use_size + i - 1 \in 0 .. tcp_buffer_size
    BY <2>2, BufferSize DEF Positions
  <2>4. QED BY <1>3, <2>3, CellInRange
<1>8. \A i \in 1 .. n : data[free[i]] = t + i
  <2>1. TAKE i \in 1 .. n
  <2>2. free[i] \in DOMAIN b.data
    BY <1>1, <1>7
  <2>3. (CHOOSE j \in DOMAIN bytes : free[j] = free[i]) = i
    BY <1>5, <1>6
  <2>4. data[free[i]] = bytes[i]
    BY <1>5, <2>2, <2>3
  <2>5. QED BY <1>5, <2>4
<1>9. \A k \in 0 .. b.use_size - 1 : data[CellOf(b, k)] = b.data[CellOf(b, k)]
  <2>1. TAKE k \in 0 .. b.use_size - 1
  <2>2. b.use_size \in 0 .. tcp_buffer_size
    BY <1>1
  <2>3. k \in Positions /\ k \in 0 .. tcp_buffer_size
    BY <2>2, BufferSize DEF Positions
  <2>4. CellOf(b, k) \in DOMAIN b.data
    BY <1>1, <2>3, CellInRange
  <2>5. \A i \in 1 .. n : b.use_size + i - 1 # k
    BY <2>2
  <2>6. \A i \in 1 .. n : free[i] # CellOf(b, k)
    BY <1>3, <2>3, <2>5, CellsDiffer
  <2>7. QED BY <1>5, <2>4, <2>6
<1>10. data \in [Positions -> 0 .. ServerBytes]
  <2>1. \A c \in Positions : data[c] \in 0 .. ServerBytes
    <3>1. TAKE c \in Positions
    <3>2. CASE \E i \in 1 .. n : free[i] = c
      <4>1. PICK i \in 1 .. n : free[i] = c
        BY <3>2
      <4>2. data[c] = t + i
        BY <1>8, <4>1
      <4>3. QED BY <1>2, <4>2, SizesAssumption, BufferSize
    <3>3. CASE ~\E i \in 1 .. n : free[i] = c
      <4>1. c \in DOMAIN b.data /\ data[c] = b.data[c]
        BY <1>1, <1>5, <3>3
      <4>2. QED BY <1>1, <4>1
    <3>4. QED BY <3>2, <3>3
  <2>2. DOMAIN b.data = Positions
    BY <1>1
  <2>3. QED BY <2>1, <2>2
<1>11. r = [b EXCEPT !.data = data, !.wp = Wrap(b.wp + n), !.use_size = b.use_size + n, !.rda_size = b.rda_size + n]
  <2>1. Filled(b, bytes) = [b EXCEPT !.data = data]
    BY DEF Filled, free
  <2>2. r = WriteFinish(Filled(b, bytes), n)
    BY <1>b
  <2> HIDE DEF data
  <2>3. (b.wp + n) % tcp_buffer_size = Wrap(b.wp + n)
    BY <1>1, <1>2, WrapMod
  <2> DEFINE f == Filled(b, bytes)
  <2>4. /\ f.wp = b.wp /\ f.use_size = b.use_size /\ f.rda_size = b.rda_size
        /\ f.max_size = tcp_buffer_size
    BY <1>1, <2>1 DEF Rings
  <2>5. r = [f EXCEPT !.wp = (f.wp + n) % f.max_size, !.use_size = f.use_size + n, !.rda_size = f.rda_size + n]
    BY <2>2 DEF WriteFinish
  <2>6. r = [f EXCEPT !.wp = Wrap(b.wp + n), !.use_size = b.use_size + n, !.rda_size = b.rda_size + n]
    BY <2>3, <2>4, <2>5
  <2>7. QED BY <1>1, <2>1, <2>6 DEF Rings
<1> HIDE DEF data
<1>12. /\ r.data = data /\ r.wp = Wrap(b.wp + n) /\ r.rp = b.rp /\ r.use_size = b.use_size + n
       /\ r.rda_size = b.rda_size + n /\ r.max_size = tcp_buffer_size
  BY <1>1, <1>11 DEF Rings
<1>13. Wrap(b.wp + n) \in Positions /\ Wrap(b.wp + n) = Wrap(b.rp + (b.rda_size + n))
       /\ b.rda_size + n \in 0 .. tcp_buffer_size /\ b.rda_size + n <= b.use_size + n
  <2>1. /\ b.use_size \in 0 .. tcp_buffer_size /\ b.rda_size \in 0 .. tcp_buffer_size
        /\ b.rda_size <= b.use_size /\ n \in 0 .. tcp_buffer_size - b.use_size
        /\ b.rp \in 0 .. tcp_buffer_size - 1 /\ b.wp = Wrap(b.rp + b.rda_size)
    BY <1>1 DEF Positions
  <2>3. b.rda_size \in 0 .. b.use_size
    BY <2>1
  <2>4. b.rp \in Positions
    BY <1>1
  <2>5. ASSUME NEW p, p = b.rp, NEW u, u = b.use_size, NEW q, q = b.rda_size
        PROVE  /\ Wrap(Wrap(p + q) + n) \in Positions
               /\ Wrap(Wrap(p + q) + n) = Wrap(p + (q + n))
               /\ q + n \in 0 .. tcp_buffer_size /\ q + n <= u + n
    BY <2>1, <2>3, <2>4, <2>5, WritePosition
  <2>6. QED BY <2>1, <2>5
<1>14. r \in Rings
  BY <1>1, <1>2, <1>10, <1>11, <1>13 DEF Rings
<1>15. Shape(r)
  BY <1>12, <1>13, <1>14 DEF Shape
<1>16. \A c \in Positions : b.data[c] > 0 => r.data[c] > 0
  <2>1. TAKE c \in Positions
  <2>2. HAVE b.data[c] > 0
  <2>3. CASE \E i \in 1 .. n : free[i] = c
    <3>1. PICK i \in 1 .. n : free[i] = c
      BY <2>3
    <3>2. r.data[c] = t + i
      BY <1>8, <1>12, <3>1
    <3>3. QED BY <1>2, <3>2
  <2>4. CASE ~\E i \in 1 .. n : free[i] = c
    <3>1. c \in DOMAIN b.data
      BY <1>1
    <3>2. data[c] = b.data[c]
      BY <1>5, <2>4, <3>1 DEF data
    <3>3. QED BY <1>12, <2>2, <3>2
  <2>5. QED BY <2>3, <2>4
<1>17. ReadOf(b, n, t, r)
  BY <1>3, <1>8, <1>9, <1>12, <1>15, <1>16 DEF ReadOf
<1>18. QED BY <1>a, <1>b, <1>17

\* tcp_write is given the cells behind those of the bytes already read.
LEMMA ReadCells ==
    ASSUME NEW b, Shape(b)
    PROVE  /\ AllCells(Reading(b)) \in Seq(Positions)
           /\ Len(AllCells(Reading(b))) = b.rda_size
           /\ \A i \in 1 .. b.rda_size : AllCells(Reading(b))[i] = CellOf(b, Held(b) + i - 1)
<1>1. /\ b.rp \in Positions /\ b.rda_size \in 0 .. tcp_buffer_size /\ b.use_size \in 0 .. tcp_buffer_size
      /\ b.rda_size <= b.use_size
  BY ShapeFields
<1>2. ASSUME NEW p \in Positions, NEW u \in 0 .. tcp_buffer_size, NEW a \in 0 .. u, NEW i \in 1 .. a
      PROVE  Wrap(p + i - 1)
             = Wrap((IF p >= u - a THEN p - (u - a) ELSE p - (u - a) + tcp_buffer_size) + (u - a + i - 1))
  BY BufferSize DEF Wrap, Positions
<1>3. b.rda_size \in 0 .. b.use_size
  BY <1>1
<1>4. \A i \in 1 .. b.rda_size : Wrap(b.rp + i - 1) = CellOf(b, Held(b) + i - 1)
  <2>1. ASSUME NEW p, p = b.rp, NEW u, u = b.use_size, NEW q, q = b.rda_size, NEW i \in 1 .. q
        PROVE  Wrap(p + i - 1)
               = Wrap((IF p >= u - q THEN p - (u - q) ELSE p - (u - q) + tcp_buffer_size) + (u - q + i - 1))
    BY <1>1, <1>2, <1>3, <2>1
  <2>2. QED BY <2>1 DEF CellOf, Oldest, Held
<1>5. QED BY <1>1, <1>4, CellsOfPieces DEF Reading

\* Handing the bytes to tcp_write leaves every byte where it is.
LEMMA ReadKeeps ==
    ASSUME NEW b, Shape(b), NEW r, r = ReadFinish(b, b.rda_size)
    PROVE  /\ Shape(r) /\ r.use_size = b.use_size /\ r.rda_size = 0 /\ r.data = b.data
           /\ Oldest(r) = Oldest(b) /\ Held(r) = b.use_size
<1>1. /\ b.rp \in Positions /\ b.rda_size \in 0 .. tcp_buffer_size /\ b.use_size \in 0 .. tcp_buffer_size
      /\ b.rda_size <= b.use_size /\ b.max_size = tcp_buffer_size /\ b.wp = Wrap(b.rp + b.rda_size)
      /\ b \in Rings
  BY ShapeFields DEF Shape
<1>2. (b.rp + b.rda_size) % b.max_size = Wrap(b.rp + b.rda_size) /\ Wrap(b.rp + b.rda_size) \in Positions
  BY <1>1, WrapMod
<1>3. r = [b EXCEPT !.rp = Wrap(b.rp + b.rda_size), !.rda_size = b.rda_size - b.rda_size]
  BY <1>2 DEF ReadFinish
<1>4. b.rda_size - b.rda_size = 0
  BY <1>1
<1>5. r = [b EXCEPT !.rp = Wrap(b.rp + b.rda_size), !.rda_size = 0]
  BY <1>3, <1>4
<1>6. /\ r.rp = Wrap(b.rp + b.rda_size) /\ r.rda_size = 0 /\ r.use_size = b.use_size
      /\ r.wp = b.wp /\ r.data = b.data
  BY <1>1, <1>5 DEF Rings
<1>7. 0 \in 0 .. tcp_buffer_size
  BY BufferSize
<1>8. r \in Rings
  BY <1>1, <1>2, <1>5, <1>7 DEF Rings
<1>9. Wrap(b.rp + b.rda_size) = Wrap(Wrap(b.rp + b.rda_size) + 0)
  BY <1>2, BufferSize DEF Wrap, Positions
<1>10. Shape(r)
  BY <1>1, <1>6, <1>8, <1>9 DEF Shape
<1>11. ASSUME NEW p \in Positions, NEW u \in 0 .. tcp_buffer_size, NEW a \in 0 .. u
       PROVE  (IF Wrap(p + a) >= u - 0 THEN Wrap(p + a) - (u - 0) ELSE Wrap(p + a) - (u - 0) + tcp_buffer_size)
              = (IF p >= u - a THEN p - (u - a) ELSE p - (u - a) + tcp_buffer_size)
  BY BufferSize DEF Wrap, Positions
<1>12. Oldest(r) = Oldest(b)
  <2>1. ASSUME NEW p, p = b.rp, NEW u, u = b.use_size, NEW q, q = b.rda_size
        PROVE  (IF Wrap(p + q) >= u - 0 THEN Wrap(p + q) - (u - 0) ELSE Wrap(p + q) - (u - 0) + tcp_buffer_size)
               = (IF p >= u - q THEN p - (u - q) ELSE p - (u - q) + tcp_buffer_size)
    <3>1. q \in 0 .. u
      BY <1>1, <2>1
    <3>2. QED BY <1>1, <1>11, <2>1, <3>1
  <2>2. QED BY <1>6, <2>1 DEF Oldest, Held
<1>13. Held(r) = b.use_size
  BY <1>1, <1>6 DEF Held
<1>14. QED BY <1>6, <1>10, <1>12, <1>13

\* r is b without its n oldest bytes.
Released(b, n, r) ==
    /\ Shape(r) /\ r.use_size = b.use_size - n /\ r.rda_size = b.rda_size /\ r.data = b.data
    /\ \A k \in 0 .. r.use_size - 1 : CellOf(r, k) = CellOf(b, k + n)

\* Releasing n bytes gives up the n oldest ones and moves no other.
LEMMA ReleaseKeeps ==
    ASSUME NEW b, Shape(b), NEW n \in 0 .. Held(b)
    PROVE  Released(b, n, ReadRelease(b, n))
<1>a. PICK r : r = ReadRelease(b, n)
  OBVIOUS
<1>b. SUFFICES /\ Shape(r) /\ r.use_size = b.use_size - n /\ r.rda_size = b.rda_size /\ r.data = b.data
               /\ \A k \in 0 .. r.use_size - 1 : CellOf(r, k) = CellOf(b, k + n)
  BY <1>a DEF Released
<1>1. /\ b.rp \in Positions /\ b.rda_size \in 0 .. tcp_buffer_size /\ b.use_size \in 0 .. tcp_buffer_size
      /\ b.rda_size <= b.use_size /\ b.wp = Wrap(b.rp + b.rda_size)
      /\ b \in Rings
  BY ShapeFields DEF Shape
<1>2. n \in 0 .. b.use_size - b.rda_size
  BY DEF Held
<1>3. CASE b.use_size = n
  <2>1. b.rda_size = 0 /\ b.use_size - n = 0
    BY <1>1, <1>2, <1>3
  <2>2. 0 \in Positions /\ 0 \in 0 .. tcp_buffer_size /\ Wrap(0 + 0) = 0
    BY BufferSize DEF Positions, Wrap
  <2>3. r = [b EXCEPT !.use_size = 0, !.rp = 0, !.wp = 0]
    BY <1>a, <1>3 DEF ReadRelease
  <2>4. r.use_size = 0 /\ r.rp = 0 /\ r.wp = 0 /\ r.rda_size = 0 /\ r.data = b.data
    BY <1>1, <2>1, <2>3 DEF Rings
  <2>5. r \in Rings
    BY <1>1, <2>2, <2>3 DEF Rings
  <2>6. Shape(r)
    BY <2>2, <2>4, <2>5 DEF Shape
  <2>7. QED BY <2>1, <2>4, <2>6
<1>4. CASE b.use_size # n
  <2>1. r = [b EXCEPT !.use_size = b.use_size - n]
    BY <1>a, <1>4 DEF ReadRelease
  <2>2. r.use_size = b.use_size - n /\ r.rp = b.rp /\ r.wp = b.wp /\ r.rda_size = b.rda_size /\ r.data = b.data
    BY <1>1, <2>1 DEF Rings
  <2>3. b.use_size - n \in 0 .. tcp_buffer_size /\ b.rda_size <= b.use_size - n
    BY <1>1, <1>2, BufferSize
  <2>4. r \in Rings
    BY <1>1, <2>1, <2>3 DEF Rings
  <2>5. Shape(r)
    BY <1>1, <2>2, <2>3, <2>4 DEF Shape
  <2>6. ASSUME NEW p \in Positions, NEW u \in 0 .. tcp_buffer_size, NEW a \in 0 .. u, NEW m \in 0 .. u - a,
               NEW k \in 0 .. u - m - 1
        PROVE  Wrap((IF p >= u - m - a THEN p - (u - m - a) ELSE p - (u - m - a) + tcp_buffer_size) + k)
               = Wrap((IF p >= u - a THEN p - (u - a) ELSE p - (u - a) + tcp_buffer_size) + (k + m))
    BY BufferSize DEF Wrap, Positions
  <2>7. ASSUME NEW p, p = b.rp, NEW u, u = b.use_size, NEW q, q = b.rda_size, NEW k \in 0 .. u - n - 1
        PROVE  Wrap((IF p >= u - n - q THEN p - (u - n - q) ELSE p - (u - n - q) + tcp_buffer_size) + k)
               = Wrap((IF p >= u - q THEN p - (u - q) ELSE p - (u - q) + tcp_buffer_size) + (k + n))
    <3>1. q \in 0 .. u
      BY <1>1, <2>7
    <3>2. n \in 0 .. u - q
      BY <1>2, <2>7
    <3>3. QED BY <1>1, <2>6, <2>7, <3>1, <3>2
  <2>8. \A k \in 0 .. r.use_size - 1 : CellOf(r, k) = CellOf(b, k + n)
    BY <2>2, <2>7 DEF CellOf, Oldest, Held
  <2>9. QED BY <2>2, <2>5, <2>8
<1>5. QED BY <1>3, <1>4
-----------------------------------------------------------------------------
(* The task                                                                *)

\* What lwIP may do with the pieces: refuse one, or add it whole.
LEMMA OneWrite ==
    ASSUME NEW q, NEW iov, NEW fails \in BOOLEAN
    PROVE  /\ TcpWrite(q, iov, fails) = q \/ TcpWrite(q, iov, fails) = q \o Cells(iov)
           /\ ~fails /\ ~(Len(q) + iov.len > SndBuf) => TcpWrite(q, iov, fails) = q \o Cells(iov)
  BY DEF TcpWrite

\* q is s with some of the n cells of all behind it, in order if with all.
Joined(q, s, all, n) ==
    /\ q \in Seq(Positions) /\ Len(q) \in Len(s) .. Len(s) + n
    /\ \A j \in 1 .. Len(q) : \/ \E i \in 1 .. Len(s) : q[j] = s[i]
                              \/ \E i \in 1 .. n : q[j] = all[i]
    /\ Len(q) = Len(s) + n => q = s \o all

\* s with some of the pieces c1 and c2 behind it.
LEMMA JoinPieces ==
    ASSUME NEW s \in Seq(Positions), NEW c1 \in Seq(Positions), NEW c2 \in Seq(Positions), NEW q,
           \/ q = s \/ q = s \o c1 \/ q = s \o c2 \/ q = (s \o c1) \o c2
    PROVE  /\ q \in Seq(Positions) /\ Len(q) \in Len(s) .. Len(s) + (Len(c1) + Len(c2))
           /\ \A j \in 1 .. Len(q) : \/ \E i \in 1 .. Len(s) : q[j] = s[i]
                                     \/ \E i \in 1 .. Len(c1) + Len(c2) : q[j] = (c1 \o c2)[i]
           /\ Len(q) = Len(s) + (Len(c1) + Len(c2)) => q = s \o (c1 \o c2)
<1>0. /\ Len(s) \in Nat /\ Len(c1) \in Nat /\ Len(c2) \in Nat
      /\ Len(c1) = 0 => c1 = <<>>
      /\ Len(c2) = 0 => c2 = <<>>
      /\ s \o (<<>> \o <<>>) = s /\ s \o (c1 \o <<>>) = s \o c1 /\ s \o (<<>> \o c2) = s \o c2
  OBVIOUS
<1>1. CASE q = s
  <2>1. Len(q) = Len(s) + (Len(c1) + Len(c2)) => Len(c1) = 0 /\ Len(c2) = 0
    BY <1>0, <1>1
  <2>2. Len(q) = Len(s) + (Len(c1) + Len(c2)) => q = s \o (c1 \o c2)
    BY <1>0, <1>1, <2>1
  <2>3. Len(q) \in Len(s) .. Len(s) + (Len(c1) + Len(c2))
    BY <1>0, <1>1
  <2>4. QED BY <1>1, <2>2, <2>3
<1>2. CASE q = s \o c1
  <2>1. Len(q) = Len(s) + Len(c1) /\ q \in Seq(Positions)
    BY <1>2
  <2>2. Len(q) = Len(s) + (Len(c1) + Len(c2)) => q = s \o (c1 \o c2)
    <3>1. Len(q) = Len(s) + (Len(c1) + Len(c2)) => Len(c2) = 0
      BY <1>0, <2>1
    <3>2. QED BY <1>0, <1>2, <3>1
  <2>3. ASSUME NEW j \in 1 .. Len(q)
        PROVE  \/ \E i \in 1 .. Len(s) : q[j] = s[i]
               \/ \E i \in 1 .. Len(c1) + Len(c2) : q[j] = (c1 \o c2)[i]
    <3>1. CASE j <= Len(s)
      BY <1>2, <3>1
    <3>2. CASE j > Len(s)
      <4>1. j - Len(s) \in 1 .. Len(c1) + Len(c2) /\ q[j] = (c1 \o c2)[j - Len(s)]
        BY <1>2, <2>1, <3>2
      <4>2. QED BY <4>1
    <3>3. QED BY <3>1, <3>2
  <2>4. Len(q) \in Len(s) .. Len(s) + (Len(c1) + Len(c2))
    BY <1>0, <2>1
  <2>5. QED BY <2>1, <2>2, <2>3, <2>4
<1>3. CASE q = s \o c2
  <2>1. Len(q) = Len(s) + Len(c2) /\ q \in Seq(Positions)
    BY <1>3
  <2>2. Len(q) = Len(s) + (Len(c1) + Len(c2)) => q = s \o (c1 \o c2)
    <3>1. Len(q) = Len(s) + (Len(c1) + Len(c2)) => Len(c1) = 0
      BY <1>0, <2>1
    <3>2. QED BY <1>0, <1>3, <3>1
  <2>3. ASSUME NEW j \in 1 .. Len(q)
        PROVE  \/ \E i \in 1 .. Len(s) : q[j] = s[i]
               \/ \E i \in 1 .. Len(c1) + Len(c2) : q[j] = (c1 \o c2)[i]
    <3>1. CASE j <= Len(s)
      BY <1>3, <3>1
    <3>2. CASE j > Len(s)
      <4>1. j - Len(s) + Len(c1) \in 1 .. Len(c1) + Len(c2)
        BY <2>1, <3>2
      <4>2. q[j] = (c1 \o c2)[j - Len(s) + Len(c1)]
        BY <1>3, <2>1, <3>2
      <4>3. QED BY <4>1, <4>2
    <3>3. QED BY <3>1, <3>2
  <2>4. Len(q) \in Len(s) .. Len(s) + (Len(c1) + Len(c2))
    BY <1>0, <2>1
  <2>5. QED BY <2>1, <2>2, <2>3, <2>4
<1>4. CASE q = (s \o c1) \o c2
  <2>1. Len(q) = Len(s) + (Len(c1) + Len(c2)) /\ q \in Seq(Positions)
    BY <1>4
  <2>2. q = s \o (c1 \o c2)
    BY <1>4
  <2>3. ASSUME NEW j \in 1 .. Len(q)
        PROVE  \/ \E i \in 1 .. Len(s) : q[j] = s[i]
               \/ \E i \in 1 .. Len(c1) + Len(c2) : q[j] = (c1 \o c2)[i]
    <3>1. CASE j <= Len(s)
      BY <2>2, <3>1
    <3>2. CASE j > Len(s)
      <4>1. j - Len(s) \in 1 .. Len(c1) + Len(c2) /\ q[j] = (c1 \o c2)[j - Len(s)]
        BY <2>1, <2>2, <3>2
      <4>2. QED BY <4>1
    <3>3. QED BY <3>1, <3>2
  <2>4. Len(q) \in Len(s) .. Len(s) + (Len(c1) + Len(c2))
    BY <1>0, <2>1
  <2>5. QED BY <2>1, <2>2, <2>3, <2>4
<1>5. QED BY <1>1, <1>2, <1>3, <1>4

\* The same, named.
LEMMA JoinedPieces ==
    ASSUME NEW s \in Seq(Positions), NEW c1 \in Seq(Positions), NEW c2 \in Seq(Positions), NEW q,
           \/ q = s \/ q = s \o c1 \/ q = s \o c2 \/ q = (s \o c1) \o c2
    PROVE  Joined(q, s, c1 \o c2, Len(c1) + Len(c2))
<1>1. /\ q \in Seq(Positions) /\ Len(q) \in Len(s) .. Len(s) + (Len(c1) + Len(c2))
      /\ \A j \in 1 .. Len(q) : \/ \E i \in 1 .. Len(s) : q[j] = s[i]
                                \/ \E i \in 1 .. Len(c1) + Len(c2) : q[j] = (c1 \o c2)[i]
      /\ Len(q) = Len(s) + (Len(c1) + Len(c2)) => q = s \o (c1 \o c2)
  BY JoinPieces, Zenon
<1>2. QED BY <1>1, Zenon DEF Joined

\* The lengths of what two writes make.
LEMMA LengthOfThree ==
    ASSUME NEW s \in Seq(Positions), NEW c1 \in Seq(Positions), NEW c2 \in Seq(Positions)
    PROVE  /\ Len(s \o c1) = Len(s) + Len(c1)
           /\ Len((s \o c1) \o c2) = (Len(s) + Len(c1)) + Len(c2)
           /\ Len(s) \in Nat /\ Len(c1) \in Nat /\ Len(c2) \in Nat
  OBVIOUS

\* q is segs and the cells of all that lwIP did not refuse.
Written(b, failing, all, q) ==
    /\ q \in Seq(Positions) /\ Len(q) \in Len(segs) .. Len(segs) + b.rda_size
    /\ \A j \in 1 .. Len(q) : \/ \E i \in 1 .. Len(segs) : q[j] = segs[i]
                              \/ \E i \in 1 .. b.rda_size : q[j] = all[i]
    /\ Len(q) = Len(segs) + b.rda_size => q = segs \o all
    /\ failing = {} /\ Len(segs) + b.rda_size <= SndBuf => Len(q) = Len(segs) + b.rda_size

\* tcp_write is called for one or two pieces of the ring.
LEMMA WritesPieces ==
    ASSUME NEW b, Shape(b), segs \in Seq(Positions), NEW failing
    PROVE  Written(b, failing, AllCells(Reading(b)), TcpWrites(Reading(b), failing))
<1>a. PICK all : all = AllCells(Reading(b))
  OBVIOUS
<1>b. PICK q : q = TcpWrites(Reading(b), failing)
  OBVIOUS
<1>c. SUFFICES /\ q \in Seq(Positions) /\ Len(q) \in Len(segs) .. Len(segs) + b.rda_size
               /\ \A j \in 1 .. Len(q) : \/ \E i \in 1 .. Len(segs) : q[j] = segs[i]
                                         \/ \E i \in 1 .. b.rda_size : q[j] = all[i]
               /\ Len(q) = Len(segs) + b.rda_size => q = segs \o all
               /\ failing = {} /\ Len(segs) + b.rda_size <= SndBuf => Len(q) = Len(segs) + b.rda_size
  BY <1>a, <1>b DEF Written
<1>1. /\ b.rp \in Positions /\ b.rda_size \in 0 .. tcp_buffer_size /\ b.max_size = tcp_buffer_size
  BY ShapeFields
<1>2. all \in Seq(Positions) /\ Len(all) = b.rda_size
  BY <1>a, ReadCells
<1>3. CASE b.rda_size = 0
  <2>1. Reading(b) = <<>>
    BY <1>3 DEF Reading, Pieces
  <2>2. q = segs
    BY <1>b, <2>1 DEF TcpWrites
  <2>3. QED BY <1>2, <1>3, <2>2
<1>4. CASE b.rda_size \in 1 .. tcp_buffer_size - b.rp
  <2> DEFINE iov == [base |-> b.rp, len |-> b.rda_size]
  <2>1. Reading(b) = <<iov>>
    BY <1>1, <1>4 DEF Reading, Pieces
  <2>2. Cells(iov) = [i \in 1 .. b.rda_size |-> b.rp + i - 1] /\ iov.len = b.rda_size
    BY DEF Cells
  <2> HIDE DEF iov
  <2>3. <<iov>> # <<>> /\ Len(<<iov>>) = 1 /\ <<iov>>[1] = iov
    OBVIOUS
  <2>4. all = Cells(iov)
    BY <1>a, <2>1, <2>3 DEF AllCells
  <2>5. q = TcpWrite(segs, iov, 1 \in failing)
    BY <1>b, <2>1, <2>3 DEF TcpWrites
  <2>6. /\ q = segs \/ q = segs \o all
        /\ failing = {} /\ ~(Len(segs) + b.rda_size > SndBuf) => q = segs \o all
    <3>1. (1 \in failing) \in BOOLEAN /\ (failing = {} => ~(1 \in failing))
      OBVIOUS
    <3>2. QED BY <2>2, <2>4, <2>5, <3>1, OneWrite
  <2>7. <<>> \in Seq(Positions) /\ all \o <<>> = all /\ Len(<<>>) = 0
    BY <1>2
  <2>8. Len(all) + Len(<<>>) = b.rda_size
    BY <1>1, <1>2, <2>7
  <2>9. /\ q \in Seq(Positions) /\ Len(q) \in Len(segs) .. Len(segs) + b.rda_size
        /\ \A j \in 1 .. Len(q) : \/ \E i \in 1 .. Len(segs) : q[j] = segs[i]
                                  \/ \E i \in 1 .. b.rda_size : q[j] = all[i]
        /\ Len(q) = Len(segs) + b.rda_size => q = segs \o all
    <3> HIDE DEF iov
    <3>0. PICK e : e = <<>>
      OBVIOUS
    <3>1. /\ q = segs \/ q = segs \o all \/ q = segs \o e \/ q = (segs \o all) \o e
          /\ all \in Seq(Positions) /\ e \in Seq(Positions) /\ all = all \o e
          /\ b.rda_size = Len(all) + Len(e)
      BY <1>2, <2>6, <2>7, <2>8, <3>0
    <3>2. Joined(q, segs, all \o e, Len(all) + Len(e))
      BY <3>1, JoinedPieces
    <3>3. Joined(q, segs, all, b.rda_size)
      BY <3>1, <3>2
    <3>4. QED BY <3>3, Zenon DEF Joined
  <2>10. q = segs \o all => Len(q) = Len(segs) + b.rda_size
    BY <1>2
  <2>11. Len(segs) + b.rda_size <= SndBuf => ~(Len(segs) + b.rda_size > SndBuf)
    BY <1>1, SizesAssumption, BufferSize
  <2>12. QED BY <2>6, <2>9, <2>10, <2>11
<1>5. CASE b.rda_size > tcp_buffer_size - b.rp
  <2> DEFINE iov1 == [base |-> b.rp, len |-> tcp_buffer_size - b.rp]
             iov2 == [base |-> 0, len |-> b.rda_size - (tcp_buffer_size - b.rp)]
  <2>1. Reading(b) = <<iov1, iov2>>
    BY <1>1, <1>5, BufferSize DEF Reading, Pieces, Positions
  <2>2. /\ Cells(iov1) = [i \in 1 .. tcp_buffer_size - b.rp |-> b.rp + i - 1]
        /\ Cells(iov2) = [i \in 1 .. b.rda_size - (tcp_buffer_size - b.rp) |-> 0 + i - 1]
        /\ iov1.len = tcp_buffer_size - b.rp /\ iov2.len = b.rda_size - (tcp_buffer_size - b.rp)
    BY DEF Cells
  <2> HIDE DEF iov1, iov2
  <2>3. <<iov1, iov2>> # <<>> /\ Len(<<iov1, iov2>>) = 2 /\ <<iov1, iov2>>[1] = iov1 /\ <<iov1, iov2>>[2] = iov2
    OBVIOUS
  <2>4. all = Cells(iov1) \o Cells(iov2)
    BY <1>a, <2>1, <2>3 DEF AllCells
  <2>5. /\ iov1.len \in Nat /\ iov2.len \in Nat /\ iov1.len + iov2.len = b.rda_size
    BY <1>1, <1>5, <2>2, BufferSize DEF Positions
  <2>6. /\ Cells(iov1) \in Seq(Positions) /\ Len(Cells(iov1)) = iov1.len
        /\ Cells(iov2) \in Seq(Positions) /\ Len(Cells(iov2)) = iov2.len
    <3>1. \A i \in 1 .. tcp_buffer_size - b.rp : b.rp + i - 1 \in Positions
      BY <1>1, BufferSize DEF Positions
    <3>2. \A i \in 1 .. b.rda_size - (tcp_buffer_size - b.rp) : 0 + i - 1 \in Positions
      BY <1>1, BufferSize DEF Positions
    <3>3. Cells(iov1) \in Seq(Positions) /\ Len(Cells(iov1)) = iov1.len
      <4>1. tcp_buffer_size - b.rp \in Nat
        BY <2>2, <2>5
      <4>2. ASSUME NEW n, n = tcp_buffer_size - b.rp
            PROVE  [i \in 1 .. n |-> b.rp + i - 1] \in Seq(Positions)
                   /\ Len([i \in 1 .. n |-> b.rp + i - 1]) = n
        BY <3>1, <4>1, <4>2
      <4>3. QED BY <2>2, <4>2
    <3>4. Cells(iov2) \in Seq(Positions) /\ Len(Cells(iov2)) = iov2.len
      <4>1. b.rda_size - (tcp_buffer_size - b.rp) \in Nat
        BY <2>2, <2>5
      <4>2. ASSUME NEW n, n = b.rda_size - (tcp_buffer_size - b.rp)
            PROVE  [i \in 1 .. n |-> 0 + i - 1] \in Seq(Positions)
                   /\ Len([i \in 1 .. n |-> 0 + i - 1]) = n
        BY <3>2, <4>1, <4>2
      <4>3. QED BY <2>2, <4>2
    <3>5. QED BY <3>3, <3>4
  <2> DEFINE first == TcpWrite(segs, iov1, 1 \in failing)
  <2>7. q = TcpWrite(first, iov2, 2 \in failing)
    BY <1>b, <2>1, <2>3 DEF TcpWrites
  <2>8. /\ (1 \in failing) \in BOOLEAN /\ (failing = {} => ~(1 \in failing))
        /\ (2 \in failing) \in BOOLEAN /\ (failing = {} => ~(2 \in failing))
    OBVIOUS
  <2>9. /\ first = segs \/ first = segs \o Cells(iov1)
        /\ failing = {} /\ ~(Len(segs) + iov1.len > SndBuf) => first = segs \o Cells(iov1)
    BY <2>8, OneWrite
  <2> HIDE DEF first
  <2>10. /\ q = first \/ q = first \o Cells(iov2)
         /\ failing = {} /\ ~(Len(first) + iov2.len > SndBuf) => q = first \o Cells(iov2)
    BY <2>7, <2>8, OneWrite
  <2> DEFINE c1 == Cells(iov1)
             c2 == Cells(iov2)
  <2>11. c1 \in Seq(Positions) /\ c2 \in Seq(Positions) /\ all = c1 \o c2
         /\ Len(c1) + Len(c2) = b.rda_size /\ Len(c1) = iov1.len /\ Len(c2) = iov2.len
    BY <2>4, <2>5, <2>6
  <2>12. q = segs \/ q = segs \o c1 \/ q = segs \o c2 \/ q = (segs \o c1) \o c2
    BY <2>9, <2>10
  <2>13. failing = {} /\ ~(Len(segs) + iov1.len > SndBuf) /\ ~(Len(segs \o c1) + iov2.len > SndBuf)
            => q = (segs \o c1) \o c2
    BY <2>9, <2>10
  <2> HIDE DEF c1, c2
  <2>14. /\ q \in Seq(Positions) /\ Len(q) \in Len(segs) .. Len(segs) + b.rda_size
         /\ \A j \in 1 .. Len(q) : \/ \E i \in 1 .. Len(segs) : q[j] = segs[i]
                                   \/ \E i \in 1 .. b.rda_size : q[j] = all[i]
         /\ Len(q) = Len(segs) + b.rda_size => q = segs \o all
    <3>1. c1 \in Seq(Positions) /\ c2 \in Seq(Positions) /\ b.rda_size = Len(c1) + Len(c2) /\ all = c1 \o c2
      BY <2>11
    <3>2. Joined(q, segs, c1 \o c2, Len(c1) + Len(c2))
      BY <2>12, <3>1, JoinedPieces
    <3>3. Joined(q, segs, all, b.rda_size)
      BY <3>1, <3>2
    <3>4. QED BY <3>3, Zenon DEF Joined
  <2>15. Len(segs \o c1) = Len(segs) + iov1.len
         /\ Len((segs \o c1) \o c2) = Len(segs) + b.rda_size
    <3>1. Len(segs \o c1) = Len(segs) + Len(c1)
          /\ Len((segs \o c1) \o c2) = (Len(segs) + Len(c1)) + Len(c2)
          /\ Len(segs) \in Nat /\ Len(c1) \in Nat /\ Len(c2) \in Nat
      BY <2>11, LengthOfThree, Zenon
    <3>2. QED BY <2>11, <3>1
  <2>16. Len(segs) + b.rda_size <= SndBuf
            => ~(Len(segs) + iov1.len > SndBuf) /\ ~(Len(segs) + iov1.len + iov2.len > SndBuf)
    BY <2>5, SizesAssumption
  <2>17. failing = {} /\ Len(segs) + b.rda_size <= SndBuf => q = (segs \o c1) \o c2
    BY <2>13, <2>15, <2>16
  <2>18. QED BY <2>14, <2>15, <2>17
<1>6. b.rda_size = 0 \/ b.rda_size \in 1 .. tcp_buffer_size - b.rp \/ b.rda_size > tcp_buffer_size - b.rp
  BY <1>1, BufferSize DEF Positions
<1>7. QED BY <1>3, <1>4, <1>5, <1>6
-----------------------------------------------------------------------------
(* The invariant                                                           *)

\* The buffer holds the last bytes read, and the pcb refers to no more cells
\* than hold bytes that were read and not released.
BufferInv ==
    /\ sent \in 0 .. ServerBytes /\ taken \in 0 .. sent
    /\ Shape(buffer) /\ HoldsLast(buffer, taken) /\ buffer.use_size <= taken
    /\ segs \in Seq(Positions) /\ got \in 0 .. Len(segs)
    /\ pcb => Len(segs) <= Held(buffer)
    /\ \A j \in 1 .. Len(segs) : buffer.data[segs[j]] > 0
    /\ client \in Seq(1 .. ServerBytes)

FlowInv ==
    /\ given \in 0 .. ClientBytes /\ queue \in 0 .. given
    /\ wnd \in 0 .. Wnd /\ wnd + queue <= Wnd /\ sockq \in 0 .. SockBuf
    /\ res_f \in -1 .. 1 /\ res_b \in -1 .. 1
    /\ phase \in {"loop", "drain", "done"} /\ fin \in {"open", "first", "last"}
    /\ sent_eof \in BOOLEAN /\ pcb_eof \in BOOLEAN /\ shut \in BOOLEAN /\ reset \in BOOLEAN
    /\ pcb \in BOOLEAN /\ zero \in BOOLEAN /\ awake \in BOOLEAN /\ refused \in BOOLEAN
    /\ cut \in BOOLEAN /\ stalled \in BOOLEAN

\* As long as lwIP refuses nothing, the pcb refers to exactly these cells, in
\* order, and the client has the bytes before them.
Aligned(b, q, n, g, c) ==
    /\ Len(q) = Held(b)
    /\ \A j \in 1 .. Len(q) : q[j] = CellOf(b, j - 1)
    /\ Len(c) = n - b.use_size + g
ExactInv ==
    /\ ~MemoryFails => ~refused
    /\ pcb /\ ~refused => Aligned(buffer, segs, taken, got, client)
    /\ ~refused => \A i \in 1 .. Len(client) : client[i] = i

SpliceInv == BufferInv /\ FlowInv /\ ExactInv

-----------------------------------------------------------------------------
(* The steps                                                               *)

\* The bytes read from the socket: they are put behind those in the buffer.
LEMMA ReadStep ==
    ASSUME BufferInv, NEW n \in 0 .. buffer.max_size, Readable(n), NEW r, r = AfterRead(n)
    PROVE  /\ taken + n \in 0 .. sent /\ Shape(r) /\ HoldsLast(r, taken + n) /\ r.use_size <= taken + n
           /\ r.use_size = buffer.use_size + n /\ Held(r) = Held(buffer)
           /\ r.rda_size = buffer.rda_size + n
           /\ Oldest(r) = Oldest(buffer)
           /\ \A c \in Positions : buffer.data[c] > 0 => r.data[c] > 0
           /\ \A i \in 1 .. r.rda_size : r.data[CellOf(r, Held(r) + i - 1)] > 0
<1>1. /\ buffer.rp \in Positions /\ buffer.rda_size \in 0 .. tcp_buffer_size
      /\ buffer.use_size \in 0 .. tcp_buffer_size /\ buffer.rda_size <= buffer.use_size
      /\ buffer.max_size = tcp_buffer_size /\ buffer.wp = Wrap(buffer.rp + buffer.rda_size)
      /\ buffer.wp \in Positions /\ Shape(buffer)
  BY ShapeFields, WrapMod DEF BufferInv
<1>2. tcp_buffer_size - buffer.use_size \in 0 .. tcp_buffer_size
  BY <1>1, BufferSize
<1>3. Len(AllCells(Writing(buffer))) = tcp_buffer_size - buffer.use_size
  BY <1>1, <1>2, CellsOfPieces DEF Writing
<1>4. taken \in Nat /\ sent \in Nat /\ taken <= sent /\ sent <= ServerBytes /\ buffer.use_size <= taken
  BY SizesAssumption DEF BufferInv
<1>5. n \in 0 .. tcp_buffer_size - buffer.use_size /\ taken + n <= sent /\ taken + n <= ServerBytes
      /\ taken + n \in 0 .. sent
  <2>1. CASE n = 0
    BY <1>2, <1>4, <2>1, SizesAssumption
  <2>2. CASE n # 0
    <3>1. n <= tcp_buffer_size - buffer.use_size /\ taken + n <= sent
      BY <1>3, <2>2 DEF Readable
    <3>2. n \in 0 .. tcp_buffer_size
      BY <1>1
    <3>3. QED BY <1>2, <1>4, <3>1, <3>2, SizesAssumption, BufferSize
  <2>3. QED BY <2>1, <2>2
<1>6. r = WriteFinish(Filled(buffer, [i \in 1 .. n |-> taken + i]), n)
  BY DEF AfterRead
<1>7. /\ Shape(r) /\ r.use_size = buffer.use_size + n /\ r.rda_size = buffer.rda_size + n /\ r.rp = buffer.rp
      /\ \A k \in 0 .. buffer.use_size - 1 : r.data[CellOf(buffer, k)] = buffer.data[CellOf(buffer, k)]
      /\ \A i \in 1 .. n : r.data[CellOf(buffer, buffer.use_size + i - 1)] = taken + i
      /\ \A c \in Positions : buffer.data[c] > 0 => r.data[c] > 0
  <2>1. PICK t : t = taken
    OBVIOUS
  <2>2. PICK bytes : bytes = [i \in 1 .. n |-> t + i]
    OBVIOUS
  <2>3. PICK b : b = buffer
    OBVIOUS
  <2>4. /\ r = WriteFinish(Filled(b, bytes), n) /\ Shape(b) /\ t \in Nat /\ t + n <= ServerBytes
        /\ n \in 0 .. tcp_buffer_size - b.use_size
    BY <1>1, <1>4, <1>5, <1>6, <2>1, <2>2, <2>3
  <2>5. /\ Shape(r) /\ r.use_size = b.use_size + n /\ r.rda_size = b.rda_size + n /\ r.rp = b.rp
        /\ \A k \in 0 .. b.use_size - 1 : r.data[CellOf(b, k)] = b.data[CellOf(b, k)]
        /\ \A i \in 1 .. n : r.data[CellOf(b, b.use_size + i - 1)] = t + i
        /\ \A c \in Positions : b.data[c] > 0 => r.data[c] > 0
    <3>1. b.use_size \in Int
      BY <1>1, <2>3
    <3>2. ReadOf(b, n, t, WriteFinish(Filled(b, [i \in 1 .. n |-> t + i]), n))
      BY <2>4, ReadFills, Zenon
    <3>3. QED BY <2>2, <2>4, <3>2, Zenon DEF ReadOf
  <2>6. QED BY <2>1, <2>3, <2>5
<1>8. Held(r) = Held(buffer)
  BY <1>1, <1>5, <1>7, BufferSize DEF Held
<1>9. Oldest(r) = Oldest(buffer)
  BY <1>7, <1>8 DEF Oldest
<1>10. \A k : CellOf(r, k) = CellOf(buffer, k)
  BY <1>9 DEF CellOf
<1>11. HoldsLast(r, taken + n)
  <2>1. ASSUME NEW k \in 0 .. r.use_size - 1
        PROVE  r.data[CellOf(r, k)] = (taken + n) - r.use_size + k + 1
    <3>1. CASE k < buffer.use_size
      <4>1. k \in 0 .. buffer.use_size - 1
        BY <1>1, <1>7, <3>1
      <4>2. r.data[CellOf(r, k)] = taken - buffer.use_size + k + 1
        BY <1>7, <1>10, <4>1 DEF BufferInv, HoldsLast
      <4>3. QED BY <1>1, <1>4, <1>5, <1>7, <4>1, <4>2
    <3>2. CASE k >= buffer.use_size
      <4>1. k - buffer.use_size + 1 \in 1 .. n /\ buffer.use_size + (k - buffer.use_size + 1) - 1 = k
            /\ k \in Nat
        BY <1>1, <1>5, <1>7, <3>2
      <4>2. r.data[CellOf(r, k)] = taken + (k - buffer.use_size + 1)
        BY <1>7, <1>10, <4>1
      <4>3. QED BY <1>1, <1>4, <1>5, <1>7, <4>1, <4>2
    <3>3. QED BY <1>1, <1>5, <1>7, <3>1, <3>2
  <2>2. QED BY <2>1, Zenon DEF HoldsLast
<1>12. r.use_size <= taken + n
  BY <1>1, <1>4, <1>5, <1>7
<1>13. \A i \in 1 .. r.rda_size : r.data[CellOf(r, Held(r) + i - 1)] > 0
  <2>1. TAKE i \in 1 .. r.rda_size
  <2>2. Held(r) = r.use_size - r.rda_size /\ r.rda_size \in 0 .. tcp_buffer_size
        /\ r.use_size \in 0 .. tcp_buffer_size /\ r.rda_size <= r.use_size
    BY <1>7, ShapeFields DEF Held
  <2>3. Held(r) + i - 1 \in 0 .. r.use_size - 1
    BY <2>2
  <2>4. r.data[CellOf(r, Held(r) + i - 1)] = (taken + n) - r.use_size + (Held(r) + i - 1) + 1
    BY <1>11, <2>3, Zenon DEF HoldsLast
  <2>5. QED BY <1>4, <1>5, <1>12, <2>2, <2>4
<1>14. QED BY <1>5, <1>7, <1>8, <1>9, <1>11, <1>12, <1>13

\* The bytes given to tcp_write.
LEMMA WriteStep ==
    ASSUME BufferInv, FlowInv, ExactInv, NEW n \in 0 .. buffer.max_size, Readable(n),
           NEW failing \in Failures, NEW output \in OutputResults,
           Write(AfterRead(n), ReadResult(n), failing, output), pcb
    PROVE  /\ Shape(buffer') /\ HoldsLast(buffer', taken + n) /\ buffer'.use_size <= taken + n
           /\ segs' \in Seq(Positions) /\ Len(segs) <= Len(segs') /\ Len(segs') <= Held(buffer')
           /\ \A j \in 1 .. Len(segs') : buffer'.data[segs'[j]] > 0
           /\ refused' \in BOOLEAN /\ (refused => refused') /\ (~MemoryFails => ~refused')
           /\ stalled' \in BOOLEAN
           /\ ~refused' => Aligned(buffer', segs', taken + n, got, client)
<1>1. PICK r : r = AfterRead(n)
  OBVIOUS
<1>2. PICK q : q = TcpWrites(Reading(r), failing)
  OBVIOUS
<1>3. /\ segs' = q /\ buffer' = ReadFinish(r, r.rda_size)
      /\ refused' = (refused \/ Len(q) < Len(segs) + r.rda_size)
  BY <1>1, <1>2 DEF Write
<1>4. PICK b : b = ReadFinish(r, r.rda_size)
  OBVIOUS
<1>5. /\ Shape(r) /\ HoldsLast(r, taken + n) /\ r.use_size <= taken + n
      /\ r.use_size = buffer.use_size + n /\ Held(r) = Held(buffer) /\ Oldest(r) = Oldest(buffer)
      /\ \A c \in Positions : buffer.data[c] > 0 => r.data[c] > 0
      /\ \A i \in 1 .. r.rda_size : r.data[CellOf(r, Held(r) + i - 1)] > 0
  BY <1>1, ReadStep
<1>6. /\ Shape(b) /\ b.use_size = r.use_size /\ b.rda_size = 0 /\ b.data = r.data
      /\ Oldest(b) = Oldest(r) /\ Held(b) = r.use_size
  BY <1>4, <1>5, ReadKeeps
<1>7. /\ segs \in Seq(Positions) /\ Len(segs) \in Nat /\ got \in 0 .. Len(segs) /\ Len(segs) <= Held(buffer)
      /\ \A j \in 1 .. Len(segs) : buffer.data[segs[j]] > 0
  BY DEF BufferInv
<1>8. PICK all : all = AllCells(Reading(r))
  OBVIOUS
<1>9. /\ q \in Seq(Positions) /\ Len(q) \in Len(segs) .. Len(segs) + r.rda_size
      /\ \A j \in 1 .. Len(q) : \/ \E i \in 1 .. Len(segs) : q[j] = segs[i]
                                \/ \E i \in 1 .. r.rda_size : q[j] = all[i]
      /\ Len(q) = Len(segs) + r.rda_size => q = segs \o all
      /\ failing = {} /\ Len(segs) + r.rda_size <= SndBuf => Len(q) = Len(segs) + r.rda_size
  <2>1. Written(r, failing, AllCells(Reading(r)), TcpWrites(Reading(r), failing))
    BY <1>5, <1>7, WritesPieces
  <2>2. Written(r, failing, all, q)
    BY <1>2, <1>8, <2>1
  <2>3. QED BY <2>2, Zenon DEF Written
<1>10. /\ all \in Seq(Positions) /\ Len(all) = r.rda_size
       /\ \A i \in 1 .. r.rda_size : all[i] = CellOf(r, Held(r) + i - 1)
  BY <1>5, <1>8, ReadCells
<1>11. /\ r.rda_size \in 0 .. tcp_buffer_size /\ r.use_size \in 0 .. tcp_buffer_size /\ r.rda_size <= r.use_size
       /\ Held(r) = r.use_size - r.rda_size
  BY <1>5, ShapeFields DEF Held
<1>12. \A k : CellOf(b, k) = CellOf(r, k) /\ CellOf(r, k) = CellOf(buffer, k)
  BY <1>5, <1>6 DEF CellOf
<1>13. HoldsLast(b, taken + n)
  BY <1>5, <1>6, <1>12, Zenon DEF HoldsLast
<1>14. Len(q) \in Nat /\ Len(segs) <= Len(q) /\ Len(q) <= Held(b)
  BY <1>5, <1>6, <1>7, <1>9, <1>11
<1>15. \A j \in 1 .. Len(q) : b.data[q[j]] > 0
  <2>1. TAKE j \in 1 .. Len(q)
  <2>2. CASE \E i \in 1 .. Len(segs) : q[j] = segs[i]
    <3>1. PICK i \in 1 .. Len(segs) : q[j] = segs[i]
      BY <2>2
    <3>2. segs[i] \in Positions
      BY <1>7
    <3>3. QED BY <1>5, <1>6, <1>7, <3>1, <3>2
  <2>3. CASE \E i \in 1 .. r.rda_size : q[j] = all[i]
    BY <1>5, <1>6, <1>10, <2>3
  <2>4. QED BY <1>9, <2>2, <2>3
<1>16. refused' \in BOOLEAN /\ (refused => refused')
  BY <1>3, Zenon DEF FlowInv
<1>17. ~refused => /\ Len(segs) = Held(buffer)
                   /\ \A j \in 1 .. Len(segs) : segs[j] = CellOf(buffer, j - 1)
                   /\ Len(client) = (taken - buffer.use_size) + got
  BY Zenon DEF ExactInv, Aligned
<1>18. ~MemoryFails => ~refused'
  <2>1. HAVE ~MemoryFails
  <2>2. failing = {} /\ ~refused
    BY <2>1 DEF Failures, ExactInv
  <2>3. Len(segs) + r.rda_size <= SndBuf
    BY <1>5, <1>11, <1>17, <2>2, BufferSize, SizesAssumption
  <2>4. Len(q) = Len(segs) + r.rda_size
    BY <1>9, <2>2, <2>3
  <2>5. ~(Len(q) < Len(segs) + r.rda_size)
    BY <1>7, <1>11, <2>4
  <2>6. QED BY <1>3, <2>2, <2>5
<1>19. ~refused' => Aligned(b, q, taken + n, got, client)
  <2>1. HAVE ~refused'
  <2>2. ~refused /\ ~(Len(q) < Len(segs) + r.rda_size)
    BY <1>3, <2>1
  <2>3. Len(q) = Len(segs) + r.rda_size
    BY <1>7, <1>9, <1>11, <1>14, <2>2
  <2>4. q = segs \o all
    BY <1>9, <2>3
  <2>5. Len(q) = Held(b)
    BY <1>5, <1>6, <1>11, <1>17, <2>2, <2>3
  <2>6. \A j \in 1 .. Len(q) : q[j] = CellOf(b, j - 1)
    <3>1. TAKE j \in 1 .. Len(q)
    <3>2. CASE j <= Len(segs)
      <4>1. j \in 1 .. Len(segs) /\ q[j] = segs[j]
        BY <1>7, <1>10, <2>4, <3>2
      <4>2. QED BY <1>12, <1>17, <2>2, <4>1
    <3>3. CASE j > Len(segs)
      <4>1. j - Len(segs) \in 1 .. r.rda_size /\ q[j] = all[j - Len(segs)]
        BY <1>7, <1>10, <1>11, <2>3, <2>4, <3>3
      <4>2. q[j] = CellOf(r, Held(r) + (j - Len(segs)) - 1)
        BY <1>10, <4>1
      <4>3. Held(r) + (j - Len(segs)) - 1 = j - 1
        BY <1>5, <1>7, <1>17, <2>2
      <4>4. QED BY <1>12, <4>2, <4>3
    <3>4. QED BY <1>7, <1>14, <3>2, <3>3
  <2>7. Len(client) = ((taken + n) - b.use_size) + got
    <3>1. taken \in Nat /\ n \in Nat /\ got \in Nat /\ buffer.use_size \in Nat
      BY <1>7, ShapeFields DEF BufferInv
    <3>2. QED BY <1>5, <1>6, <1>17, <2>2, <3>1
  <2>8. QED BY <2>5, <2>6, <2>7, Zenon DEF Aligned
<1>20. b.use_size <= taken + n
  BY <1>5, <1>6
<1>21. stalled' \in BOOLEAN
  BY Zenon DEF Write, FlowInv
<1>22. QED BY <1>3, <1>4, <1>6, <1>9, <1>13, <1>14, <1>15, <1>16, <1>18, <1>19, <1>20, <1>21

\* The direction from the server to the client.
LEMMA BackStep ==
    ASSUME BufferInv, FlowInv, ExactInv, Back
    PROVE  /\ taken' \in 0 .. sent /\ Shape(buffer') /\ HoldsLast(buffer', taken')
           /\ buffer'.use_size <= taken'
           /\ segs' \in Seq(Positions) /\ Len(segs) <= Len(segs') /\ (pcb => Len(segs') <= Held(buffer'))
           /\ \A j \in 1 .. Len(segs') : buffer'.data[segs'[j]] > 0
           /\ res_b' \in -1 .. 1 /\ fin' \in {"open", "first", "last"} /\ refused' \in BOOLEAN
           /\ (refused => refused') /\ (~MemoryFails => ~refused') /\ stalled' \in BOOLEAN
           /\ pcb /\ ~refused' => Aligned(buffer', segs', taken', got, client)
<1>1. CASE res_b < 0 /\ UNCHANGED back
  <2>1. UNCHANGED <<taken, buffer, segs, fin, res_b, refused, stalled>>
    BY <1>1 DEF back
  <2>2. Len(segs) \in Nat
    BY DEF BufferInv
  <2>3. /\ taken' \in 0 .. sent /\ Shape(buffer') /\ HoldsLast(buffer', taken')
        /\ buffer'.use_size <= taken'
        /\ segs' \in Seq(Positions) /\ Len(segs) <= Len(segs') /\ (pcb => Len(segs') <= Held(buffer'))
        /\ \A j \in 1 .. Len(segs') : buffer'.data[segs'[j]] > 0
    BY <2>1, <2>2 DEF BufferInv
  <2>4. /\ res_b' \in -1 .. 1 /\ fin' \in {"open", "first", "last"} /\ refused' \in BOOLEAN
        /\ stalled' \in BOOLEAN
    BY <2>1 DEF FlowInv
  <2>5. /\ (refused => refused') /\ (~MemoryFails => ~refused')
        /\ pcb /\ ~refused' => Aligned(buffer', segs', taken', got, client)
    BY <2>1 DEF ExactInv
  <2>6. QED BY <2>3, <2>4, <2>5
<1>2. CASE res_b >= 0 /\ \E n \in 0 .. buffer.max_size :
              /\ Readable(n)
              /\ taken' = taken + n
              /\ \E failing \in Failures, output \in OutputResults :
                    Write(AfterRead(n), ReadResult(n), failing, output)
  <2>1. PICK n \in 0 .. buffer.max_size :
              /\ Readable(n)
              /\ taken' = taken + n
              /\ \E failing \in Failures, output \in OutputResults :
                    Write(AfterRead(n), ReadResult(n), failing, output)
    BY <1>2
  <2>2. PICK failing \in Failures, output \in OutputResults :
              Write(AfterRead(n), ReadResult(n), failing, output)
    BY <2>1
  <2>3. ReadResult(n) \in -1 .. 1
    BY DEF ReadResult
  <2>4. taken' \in 0 .. sent
    BY <2>1, ReadStep
  <2>5. CASE ~pcb
    <3>1. PICK r : r = AfterRead(n)
      OBVIOUS
    <3>2. buffer' = r /\ res_b' = -1 /\ UNCHANGED <<segs, fin, refused, stalled>>
      BY <2>2, <2>5, <3>1 DEF Write
    <3>3. /\ Shape(r) /\ HoldsLast(r, taken + n) /\ r.use_size <= taken + n
          /\ \A c \in Positions : buffer.data[c] > 0 => r.data[c] > 0
      BY <2>1, <3>1, ReadStep
    <3>4. segs \in Seq(Positions) /\ Len(segs) \in Nat /\ \A j \in 1 .. Len(segs) : buffer.data[segs[j]] > 0
      BY DEF BufferInv
    <3>5. \A j \in 1 .. Len(segs) : r.data[segs[j]] > 0
      BY <3>3, <3>4
    <3>6. -1 \in -1 .. 1
      OBVIOUS
    <3>7. /\ res_b' \in -1 .. 1 /\ fin' \in {"open", "first", "last"} /\ refused' \in BOOLEAN
          /\ stalled' \in BOOLEAN
      BY <3>2, <3>6 DEF FlowInv
    <3>8. (refused => refused') /\ (~MemoryFails => ~refused')
      BY <3>2 DEF ExactInv
    <3>9. QED BY <2>1, <2>4, <2>5, <3>2, <3>3, <3>4, <3>5, <3>7, <3>8
  <2>6. CASE pcb
    <3>1. /\ Shape(buffer') /\ HoldsLast(buffer', taken + n) /\ buffer'.use_size <= taken + n
          /\ segs' \in Seq(Positions) /\ Len(segs) <= Len(segs') /\ Len(segs') <= Held(buffer')
          /\ \A j \in 1 .. Len(segs') : buffer'.data[segs'[j]] > 0
          /\ refused' \in BOOLEAN /\ (refused => refused') /\ (~MemoryFails => ~refused')
          /\ stalled' \in BOOLEAN
          /\ ~refused' => Aligned(buffer', segs', taken + n, got, client)
      BY <2>1, <2>2, <2>6, WriteStep
    <3>2. res_b' \in -1 .. 1
      BY <2>2, <2>3, <2>6 DEF Write
    <3>3. fin' \in {"open", "first", "last"}
      BY <2>2, <2>6 DEF Write, FlowInv
    <3>4. QED BY <2>1, <2>4, <2>6, <3>1, <3>2, <3>3
  <2>7. QED BY <2>5, <2>6
<1>3. QED BY <1>1, <1>2 DEF Back

\* The direction from the client to the server.
LEMMA ForwardStep ==
    ASSUME FlowInv, Forward
    PROVE  /\ queue' \in 0 .. given /\ wnd' \in 0 .. Wnd /\ wnd' + queue' <= Wnd
           /\ sockq' \in 0 .. SockBuf /\ res_f' \in -1 .. 1 /\ shut' \in BOOLEAN
<1>1. CASE res_f < 0 /\ UNCHANGED forward
  BY <1>1 DEF FlowInv, forward
<1>2. CASE /\ res_f >= 0 /\ queue > 0 /\ ~reset
           /\ \E s \in 1 .. queue :
                 /\ sockq + s <= SockBuf
                 /\ queue' = queue - s
                 /\ sockq' = sockq + s
                 /\ wnd' = IF pcb THEN wnd + s ELSE wnd
           /\ res_f' = 1
           /\ UNCHANGED shut
  <2>1. PICK s \in 1 .. queue : /\ sockq + s <= SockBuf
                                /\ queue' = queue - s
                                /\ sockq' = sockq + s
                                /\ wnd' = IF pcb THEN wnd + s ELSE wnd
    BY <1>2
  <2>2. /\ given \in Nat /\ queue \in 0 .. given /\ wnd \in 0 .. Wnd /\ wnd + queue <= Wnd
        /\ sockq \in 0 .. SockBuf /\ Wnd \in Nat /\ SockBuf \in Nat
    BY SizesAssumption DEF FlowInv
  <2>3. wnd' = wnd + s \/ wnd' = wnd
    BY <2>1
  <2>4. queue' \in 0 .. given /\ wnd' \in 0 .. Wnd /\ wnd' + queue' <= Wnd /\ sockq' \in 0 .. SockBuf
    BY <2>1, <2>2, <2>3
  <2>5. QED BY <1>2, <2>4 DEF FlowInv
<1>3. CASE /\ res_f >= 0 /\ queue > 0 /\ (sockq = SockBuf \/ reset)
           /\ res_f' = IF reset THEN -1 ELSE 0
           /\ UNCHANGED <<queue, wnd, sockq, shut>>
  BY <1>3 DEF FlowInv
<1>4. CASE /\ res_f >= 0 /\ queue = 0
           /\ res_f' = IF pcb_eof THEN -1 ELSE 0
           /\ shut' = (shut \/ pcb_eof)
           /\ UNCHANGED <<queue, wnd, sockq>>
  <2>1. shut' \in BOOLEAN
    BY <1>4, Zenon DEF FlowInv
  <2>2. QED BY <1>4, <2>1 DEF FlowInv
<1>5. QED BY <1>1, <1>2, <1>3, <1>4 DEF Forward

\* The empty buffer of a new session satisfies the invariant.
THEOREM InitSplice == Init => SpliceInv
<1>1. HAVE Init
<1>2. PICK b : b = Alloca(tcp_buffer_size)
  OBVIOUS
<1>3. /\ b = [rp |-> 0, wp |-> 0, rda_size |-> 0, use_size |-> 0, max_size |-> tcp_buffer_size,
              data |-> [c \in 0 .. tcp_buffer_size - 1 |-> 0]]
      /\ 0 \in 0 .. tcp_buffer_size - 1 /\ 0 \in 0 .. tcp_buffer_size /\ 0 \in 0 .. ServerBytes
  BY <1>2, BufferSize, SizesAssumption DEF Alloca
<1>4. b \in Rings /\ b.rp = 0 /\ b.wp = 0 /\ b.rda_size = 0 /\ b.use_size = 0
  BY <1>3 DEF Rings, Positions
<1>5. Wrap(0 + 0) = 0
  BY BufferSize DEF Wrap
<1>6. Shape(b) /\ Held(b) = 0
  BY <1>4, <1>5 DEF Shape, Held
<1>7. BufferInv
  <2>1. HoldsLast(b, 0)
    BY <1>4 DEF HoldsLast
  <2>2. buffer = b /\ sent = 0 /\ taken = 0 /\ segs = <<>> /\ got = 0 /\ client = <<>>
    BY <1>1, <1>2 DEF Init
  <2>3. QED BY <1>3, <1>4, <1>6, <2>1, <2>2 DEF BufferInv
<1>8. FlowInv
  <2>1. /\ given = 0 /\ queue = 0 /\ wnd = Wnd /\ sockq = 0 /\ res_f = 1 /\ res_b = 1
        /\ phase = "loop" /\ fin = "open"
    BY <1>1 DEF Init
  <2>2. /\ given \in 0 .. ClientBytes /\ queue \in 0 .. given /\ wnd \in 0 .. Wnd /\ wnd + queue <= Wnd
        /\ sockq \in 0 .. SockBuf /\ res_f \in -1 .. 1 /\ res_b \in -1 .. 1
    BY <2>1, SizesAssumption
  <2>3. /\ sent_eof \in BOOLEAN /\ pcb_eof \in BOOLEAN /\ shut \in BOOLEAN /\ reset \in BOOLEAN
        /\ pcb \in BOOLEAN /\ zero \in BOOLEAN /\ awake \in BOOLEAN /\ refused \in BOOLEAN
        /\ cut \in BOOLEAN /\ stalled \in BOOLEAN
    BY <1>1 DEF Init
  <2>4. QED BY <2>1, <2>2, <2>3 DEF FlowInv
<1>9. ExactInv
  <2>1. buffer = b /\ taken = 0 /\ segs = <<>> /\ got = 0 /\ client = <<>> /\ refused = FALSE
    BY <1>1, <1>2 DEF Init
  <2>2. QED BY <1>4, <1>6, <2>1 DEF ExactInv, Aligned
<1>10. QED BY <1>7, <1>8, <1>9 DEF SpliceInv

\* BufferInv and ExactInv speak of these variables only.
LEMMA BufferStutters ==
    ASSUME BufferInv, ExactInv, UNCHANGED <<taken, buffer, segs, got, client, refused>>,
           sent' \in 0 .. ServerBytes, sent <= sent', pcb' => pcb
    PROVE  BufferInv' /\ ExactInv'
<1>1. BufferInv'
  <2>1. taken \in 0 .. sent'
    BY SizesAssumption DEF BufferInv
  <2>2. QED BY <2>1 DEF BufferInv
<1>2. ExactInv'
  BY DEF ExactInv
<1>3. QED BY <1>1, <1>2

\* A handler that wakes the task.
LEMMA Waking ==
    ASSUME FlowInv, Woken
    PROVE  awake' \in BOOLEAN
  BY DEF Woken

\* What the end of the loop changes.
LEMMA DrainStep ==
    ASSUME FlowInv, NEW b, Drain(b)
    PROVE  phase' \in {"loop", "drain", "done"} /\ awake' \in BOOLEAN /\ pcb' \in BOOLEAN /\ (pcb' => pcb)
  BY DEF Drain, FlowInv

\* One round of the task: both directions, then a yield, a sleep or the end.
LEMMA TurnStep == SpliceInv /\ Turn => SpliceInv'
<1> SUFFICES ASSUME SpliceInv, Turn
             PROVE  SpliceInv'
  OBVIOUS
<1>1. BufferInv /\ FlowInv /\ ExactInv
  BY DEF SpliceInv
<1>2. /\ Forward /\ Back /\ cut' = (cut \/ refused')
      /\ UNCHANGED <<sent, sent_eof, reset, got, client, given, pcb_eof, zero>>
  BY DEF Turn, server, peer
<1>3. phase' \in {"loop", "drain", "done"} /\ awake' \in BOOLEAN /\ pcb' \in BOOLEAN /\ (pcb' => pcb)
  <2>1. phase \in {"loop", "drain", "done"} /\ awake \in BOOLEAN /\ pcb \in BOOLEAN
    BY <1>1, Zenon DEF FlowInv
  <2>2. CASE UNCHANGED <<phase, awake, pcb>>
    BY <2>1, <2>2
  <2>3. CASE awake' = FALSE /\ UNCHANGED <<phase, pcb>>
    BY <2>1, <2>3
  <2>4. CASE Drain(buffer')
    BY <2>1, <2>4 DEF Drain
  <2>5. QED BY <2>2, <2>3, <2>4, Zenon DEF Turn
<1>4. /\ taken' \in 0 .. sent /\ Shape(buffer') /\ HoldsLast(buffer', taken')
      /\ buffer'.use_size <= taken'
      /\ segs' \in Seq(Positions) /\ Len(segs) <= Len(segs') /\ (pcb => Len(segs') <= Held(buffer'))
      /\ \A j \in 1 .. Len(segs') : buffer'.data[segs'[j]] > 0
      /\ res_b' \in -1 .. 1 /\ fin' \in {"open", "first", "last"} /\ refused' \in BOOLEAN
      /\ (refused => refused') /\ (~MemoryFails => ~refused') /\ stalled' \in BOOLEAN
      /\ pcb /\ ~refused' => Aligned(buffer', segs', taken', got, client)
  BY <1>1, <1>2, BackStep
<1>5. BufferInv'
  <2>1. Len(segs) \in Nat /\ Len(segs') \in Nat /\ got \in 0 .. Len(segs)
    BY <1>1, <1>4 DEF BufferInv
  <2>2. got' \in 0 .. Len(segs')
    BY <1>2, <1>4, <2>1
  <2>3. sent' \in 0 .. ServerBytes /\ client' \in Seq(1 .. ServerBytes) /\ taken' \in 0 .. sent'
    BY <1>1, <1>2, <1>4 DEF BufferInv
  <2>4. QED BY <1>3, <1>4, <2>2, <2>3 DEF BufferInv
<1>6. FlowInv'
  <2>1. /\ queue' \in 0 .. given /\ wnd' \in 0 .. Wnd /\ wnd' + queue' <= Wnd
        /\ sockq' \in 0 .. SockBuf /\ res_f' \in -1 .. 1 /\ shut' \in BOOLEAN
    BY <1>1, <1>2, ForwardStep
  <2>2. given' \in 0 .. ClientBytes /\ queue' \in 0 .. given'
    BY <1>1, <1>2, <2>1 DEF FlowInv
  <2>3. sent_eof' \in BOOLEAN /\ pcb_eof' \in BOOLEAN /\ reset' \in BOOLEAN /\ zero' \in BOOLEAN
    BY <1>1, <1>2 DEF FlowInv
  <2>4. cut' \in BOOLEAN
    BY <1>1, <1>2, <1>4, Zenon DEF FlowInv
  <2>5. QED BY <1>3, <1>4, <2>1, <2>2, <2>3, <2>4, Zenon DEF FlowInv
<1>7. ExactInv'
  <2>1. ~MemoryFails => ~refused'
    BY <1>4
  <2>2. pcb' /\ ~refused' => Aligned(buffer', segs', taken', got', client')
    BY <1>2, <1>3, <1>4
  <2>3. ~refused' => \A i \in 1 .. Len(client') : client'[i] = i
    BY <1>1, <1>2, <1>4 DEF ExactInv
  <2>4. QED BY <2>1, <2>2, <2>3, Zenon DEF ExactInv
<1>8. QED BY <1>5, <1>6, <1>7, Zenon DEF SpliceInv

\* A byte is sent: it is the next one the client waits for.
LEMMA TransmitStep == SpliceInv /\ Transmit => SpliceInv'
<1> SUFFICES ASSUME SpliceInv, Transmit
             PROVE  SpliceInv'
  OBVIOUS
<1>1. BufferInv /\ FlowInv /\ ExactInv
  BY DEF SpliceInv
<1>2. /\ pcb /\ got < Len(segs) /\ client' = Append(client, buffer.data[segs[got + 1]]) /\ got' = got + 1
      /\ UNCHANGED <<sent, sent_eof, reset, taken, buffer, segs, fin, res_b, refused, stalled, queue, wnd,
                     sockq, shut, res_f, given, pcb_eof, pcb, zero, phase, awake, cut>>
  BY DEF Transmit, server, back, forward, peer, task
<1>3. /\ segs \in Seq(Positions) /\ Len(segs) \in Nat /\ got \in 0 .. Len(segs) /\ Len(segs) <= Held(buffer)
      /\ \A j \in 1 .. Len(segs) : buffer.data[segs[j]] > 0
      /\ Shape(buffer) /\ client \in Seq(1 .. ServerBytes) /\ taken \in Nat
      /\ HoldsLast(buffer, taken)
  BY <1>1, <1>2 DEF BufferInv
<1>4. got + 1 \in 1 .. Len(segs)
  BY <1>2, <1>3
<1>5. PICK x : x = buffer.data[segs[got + 1]]
  OBVIOUS
<1>6. x \in 1 .. ServerBytes
  <2>1. segs[got + 1] \in Positions
    BY <1>3, <1>4
  <2>2. x \in 0 .. ServerBytes
    BY <1>3, <1>5, <2>1, ShapeFields
  <2>3. x > 0
    BY <1>3, <1>4, <1>5
  <2>4. QED BY <2>2, <2>3, SizesAssumption
<1>7. /\ client' = Append(client, x) /\ client' \in Seq(1 .. ServerBytes) /\ Len(client') = Len(client) + 1
      /\ Len(client) \in Nat
      /\ \A i \in 1 .. Len(client) : client'[i] = client[i]
      /\ client'[Len(client) + 1] = x
  BY <1>2, <1>3, <1>5, <1>6
<1>8. BufferInv'
  <2>1. got' \in 0 .. Len(segs')
    BY <1>2, <1>3, <1>4
  <2>2. QED BY <1>1, <1>2, <1>7, <2>1 DEF BufferInv
<1>9. FlowInv'
  BY <1>1, <1>2 DEF FlowInv
<1>10. ExactInv'
  <2>1. ASSUME ~refused
        PROVE  /\ Aligned(buffer, segs, taken, got + 1, client')
               /\ \A i \in 1 .. Len(client') : client'[i] = i
    <3>1. /\ Len(segs) = Held(buffer)
          /\ \A j \in 1 .. Len(segs) : segs[j] = CellOf(buffer, j - 1)
          /\ Len(client) = (taken - buffer.use_size) + got
          /\ \A i \in 1 .. Len(client) : client[i] = i
      BY <1>1, <1>2, <2>1, Zenon DEF ExactInv, Aligned
    <3>2. /\ buffer.use_size \in Nat /\ buffer.rda_size \in Nat /\ Held(buffer) = buffer.use_size - buffer.rda_size
      BY <1>3, ShapeFields DEF Held
    <3>3. Len(client') = (taken - buffer.use_size) + (got + 1)
      BY <1>3, <1>7, <3>1, <3>2
    <3>4. segs[got + 1] = CellOf(buffer, got) /\ got \in 0 .. buffer.use_size - 1
      <4>1. segs[got + 1] = CellOf(buffer, (got + 1) - 1) /\ (got + 1) - 1 = got
        BY <1>3, <1>4, <3>1
      <4>2. got \in 0 .. buffer.use_size - 1
        BY <1>3, <1>4, <3>1, <3>2
      <4>3. QED BY <4>1, <4>2
    <3>5. x = (taken - buffer.use_size) + got + 1
      BY <1>3, <1>5, <3>4 DEF HoldsLast
    <3>6. x = Len(client) + 1
      BY <1>3, <1>7, <3>1, <3>2, <3>5
    <3>7. \A i \in 1 .. Len(client') : client'[i] = i
      <4>1. TAKE i \in 1 .. Len(client')
      <4>2. i \in 1 .. Len(client) \/ i = Len(client) + 1
        BY <1>7
      <4>3. QED BY <1>7, <3>1, <3>6, <4>2
    <3>8. QED BY <3>1, <3>3, <3>7, Zenon DEF Aligned
  <2>2. QED BY <1>1, <1>2, <2>1, Zenon DEF ExactInv
<1>11. QED BY <1>8, <1>9, <1>10, Zenon DEF SpliceInv

\* The oldest bytes are acknowledged and released.
LEMMA AcknowledgeStep ==
    ASSUME SpliceInv, NEW n \in 1 .. SndBuf, Acknowledge(n)
    PROVE  SpliceInv'
<1>1. BufferInv /\ FlowInv /\ ExactInv
  BY DEF SpliceInv
<1>2. /\ pcb /\ n <= got /\ segs' = SubSeq(segs, n + 1, Len(segs)) /\ got' = got - n
      /\ buffer' = ReadRelease(buffer, n) /\ awake' = (phase # "done")
      /\ UNCHANGED <<sent, sent_eof, reset, taken, fin, res_b, refused, stalled, client, queue, wnd, sockq,
                     shut, res_f, given, pcb_eof, pcb, zero, phase, cut>>
  BY DEF Acknowledge, SentWake, Woken, server, forward, peer
<1>3. /\ segs \in Seq(Positions) /\ Len(segs) \in Nat /\ got \in 0 .. Len(segs) /\ Len(segs) <= Held(buffer)
      /\ \A j \in 1 .. Len(segs) : buffer.data[segs[j]] > 0
      /\ Shape(buffer) /\ taken \in Nat /\ HoldsLast(buffer, taken) /\ buffer.use_size <= taken
  BY <1>1, <1>2 DEF BufferInv
<1>4. /\ n \in 1 .. Len(segs)
      /\ buffer.use_size \in Nat /\ buffer.rda_size \in Nat /\ Held(buffer) = buffer.use_size - buffer.rda_size
      /\ n \in 0 .. Held(buffer)
  BY <1>2, <1>3, ShapeFields, SizesAssumption DEF Held
<1>5. PICK r : r = ReadRelease(buffer, n)
  OBVIOUS
<1>6. /\ Shape(r) /\ r.use_size = buffer.use_size - n /\ r.rda_size = buffer.rda_size /\ r.data = buffer.data
      /\ \A k \in 0 .. r.use_size - 1 : CellOf(r, k) = CellOf(buffer, k + n)
  <2>1. Released(buffer, n, ReadRelease(buffer, n))
    BY <1>3, <1>4, ReleaseKeeps
  <2>2. Released(buffer, n, r)
    BY <1>5, <2>1
  <2>3. QED BY <2>2, Zenon DEF Released
<1>7. /\ segs' \in Seq(Positions) /\ Len(segs') = Len(segs) - n
      /\ \A j \in 1 .. Len(segs') : segs'[j] = segs[j + n] /\ j + n \in 1 .. Len(segs)
  <2>1. ASSUME NEW S, NEW s \in Seq(S), NEW m \in 1 .. Len(s)
        PROVE  /\ SubSeq(s, m + 1, Len(s)) \in Seq(S) /\ Len(SubSeq(s, m + 1, Len(s))) = Len(s) - m
               /\ \A j \in 1 .. Len(s) - m : SubSeq(s, m + 1, Len(s))[j] = s[j + m] /\ j + m \in 1 .. Len(s)
    OBVIOUS
  <2>2. /\ SubSeq(segs, n + 1, Len(segs)) \in Seq(Positions)
        /\ Len(SubSeq(segs, n + 1, Len(segs))) = Len(segs) - n
        /\ \A j \in 1 .. Len(segs) - n :
               SubSeq(segs, n + 1, Len(segs))[j] = segs[j + n] /\ j + n \in 1 .. Len(segs)
    BY <1>3, <1>4, <2>1
  <2>3. QED BY <1>2, <2>2
<1>8. Held(r) = Held(buffer) - n
  BY <1>4, <1>6 DEF Held
<1>9. HoldsLast(r, taken)
  <2>1. ASSUME NEW k \in 0 .. r.use_size - 1
        PROVE  r.data[CellOf(r, k)] = taken - r.use_size + k + 1
    <3>1. k + n \in 0 .. buffer.use_size - 1
      BY <1>4, <1>6
    <3>2. r.data[CellOf(r, k)] = buffer.data[CellOf(buffer, k + n)]
      BY <1>6
    <3>3. buffer.data[CellOf(buffer, k + n)] = (taken - buffer.use_size) + (k + n) + 1
      BY <1>3, <3>1 DEF HoldsLast
    <3>4. QED BY <1>3, <1>4, <1>6, <3>2, <3>3
  <2>2. QED BY <2>1, Zenon DEF HoldsLast
<1>10. BufferInv'
  <2>1. got' \in 0 .. Len(segs')
    BY <1>2, <1>3, <1>4, <1>7
  <2>2. Len(segs') <= Held(r) /\ r.use_size <= taken
    BY <1>3, <1>4, <1>6, <1>7, <1>8
  <2>3. \A j \in 1 .. Len(segs') : r.data[segs'[j]] > 0
    BY <1>3, <1>6, <1>7
  <2>4. QED BY <1>1, <1>2, <1>5, <1>6, <1>7, <1>9, <2>1, <2>2, <2>3 DEF BufferInv
<1>11. FlowInv'
  BY <1>1, <1>2 DEF FlowInv
<1>12. ExactInv'
  <2>1. ASSUME ~refused
        PROVE  Aligned(r, segs', taken, got - n, client)
    <3>1. /\ Len(segs) = Held(buffer)
          /\ \A j \in 1 .. Len(segs) : segs[j] = CellOf(buffer, j - 1)
          /\ Len(client) = (taken - buffer.use_size) + got
      BY <1>1, <1>2, <2>1, Zenon DEF ExactInv, Aligned
    <3>2. Len(segs') = Held(r)
      BY <1>7, <1>8, <3>1
    <3>3. Len(client) = (taken - r.use_size) + (got - n)
      BY <1>3, <1>4, <1>6, <3>1
    <3>4. \A j \in 1 .. Len(segs') : segs'[j] = CellOf(r, j - 1)
      <4>1. TAKE j \in 1 .. Len(segs')
      <4>2. segs'[j] = CellOf(buffer, (j + n) - 1)
        BY <1>7, <3>1
      <4>3. (j + n) - 1 = (j - 1) + n /\ j - 1 \in 0 .. r.use_size - 1
        <5>1. j \in Nat /\ j >= 1 /\ j <= buffer.use_size - buffer.rda_size - n /\ n \in Nat
          BY <1>3, <1>4, <1>7, <3>1
        <5>2. QED BY <1>4, <1>6, <5>1
      <4>4. QED BY <1>6, <4>2, <4>3
    <3>5. QED BY <3>2, <3>3, <3>4, Zenon DEF Aligned
  <2>2. QED BY <1>1, <1>2, <1>5, <2>1 DEF ExactInv
<1>13. QED BY <1>10, <1>11, <1>12, Zenon DEF SpliceInv

\* No step breaks the invariant.
LEMMA SpliceStep == SpliceInv /\ [Next]_vars => SpliceInv'
<1> SUFFICES ASSUME SpliceInv, [Next]_vars
             PROVE  SpliceInv'
  OBVIOUS
<1> USE DEF SpliceInv
<1>1. BufferInv /\ FlowInv /\ ExactInv /\ sent \in Nat /\ sent \in 0 .. ServerBytes
  BY SizesAssumption DEF BufferInv
<1>2. sent <= sent
  BY <1>1
<1>3. CASE Turn
  BY <1>3, TurnStep
<1>4. CASE DrainTurn
  <2>1. BufferInv' /\ ExactInv'
    BY <1>1, <1>2, <1>4, BufferStutters, DrainStep DEF DrainTurn, server, back
  <2>2. FlowInv'
    BY <1>1, <1>4, DrainStep DEF DrainTurn, FlowInv, server, back, forward, peer
  <2>3. QED BY <2>1, <2>2
<1>5. CASE Timeout
  <2>1. phase' \in {"loop", "drain", "done"} /\ awake' \in BOOLEAN /\ pcb' \in BOOLEAN /\ (pcb' => pcb)
    BY <1>1, <1>5, DrainStep DEF Timeout
  <2>2. UNCHANGED <<sent, taken, buffer, segs, got, client, refused>>
    BY <1>5 DEF Timeout, server, back
  <2>3. BufferInv' /\ ExactInv'
    BY <1>1, <1>2, <2>1, <2>2, BufferStutters
  <2>4. FlowInv'
    BY <1>1, <1>5, <2>1 DEF Timeout, FlowInv, server, back, forward, peer
  <2>5. QED BY <2>3, <2>4
<1>6. CASE Terminate
  <2>1. BufferInv' /\ ExactInv'
    BY <1>1, <1>2, <1>6, BufferStutters DEF Terminate, server, back
  <2>2. FlowInv'
    BY <1>1, <1>6, Waking DEF Terminate, FlowInv, server, back, forward, peer
  <2>3. QED BY <2>1, <2>2
<1>7. ASSUME NEW n \in 1 .. Wnd, ClientSends(n)
      PROVE  SpliceInv'
  <2>1. BufferInv' /\ ExactInv'
    BY <1>1, <1>2, <1>7, BufferStutters DEF ClientSends, server, back
  <2>2. /\ given' = given + n /\ wnd' = wnd - n /\ queue' = queue + n
        /\ given + n <= ClientBytes /\ n <= wnd
    BY <1>7 DEF ClientSends
  <2>3. given \in 0 .. ClientBytes /\ queue \in 0 .. given /\ wnd \in 0 .. Wnd /\ wnd + queue <= Wnd
    BY <1>1 DEF FlowInv
  <2>4. given' \in 0 .. ClientBytes /\ queue' \in 0 .. given' /\ wnd' \in 0 .. Wnd /\ wnd' + queue' <= Wnd
    BY <2>2, <2>3, SizesAssumption
  <2>5. FlowInv'
    BY <1>1, <1>7, <2>4, Waking DEF ClientSends, FlowInv, server, back
  <2>6. QED BY <2>1, <2>5
<1>8. ASSUME NEW n \in 1 .. SndBuf, Acknowledge(n)
      PROVE  SpliceInv'
  BY <1>8, AcknowledgeStep
<1>9. CASE ClientCloses
  <2>1. BufferInv' /\ ExactInv'
    BY <1>1, <1>2, <1>9, BufferStutters DEF ClientCloses, server, back
  <2>2. FlowInv'
    BY <1>1, <1>9, Waking DEF ClientCloses, FlowInv, server, back, forward, peer
  <2>3. QED BY <2>1, <2>2
<1>10. CASE ClientAborts
  <2>1. BufferInv' /\ ExactInv'
    BY <1>1, <1>2, <1>10, BufferStutters DEF ClientAborts, server, back
  <2>2. FlowInv'
    BY <1>1, <1>10, Waking DEF ClientAborts, FlowInv, server, back, forward, peer
  <2>3. QED BY <2>1, <2>2
<1>11. CASE FinAcknowledged
  <2>1. BufferInv' /\ ExactInv'
    BY <1>1, <1>2, <1>11, BufferStutters DEF FinAcknowledged, server, back
  <2>2. FlowInv'
    BY <1>1, <1>11, Waking DEF FinAcknowledged, FlowInv, server, back, forward, peer
  <2>3. QED BY <2>1, <2>2
<1>12. CASE Transmit
  BY <1>12, TransmitStep
<1>13. CASE ServerSends
  <2>1. sent' \in 0 .. ServerBytes /\ sent <= sent'
    BY <1>1, <1>13, SizesAssumption DEF ServerSends
  <2>2. BufferInv' /\ ExactInv'
    BY <1>1, <1>13, <2>1, BufferStutters DEF ServerSends, back
  <2>3. FlowInv'
    BY <1>1, <1>13, Waking DEF ServerSends, FlowInv, back, forward, peer
  <2>4. QED BY <2>2, <2>3
<1>14. CASE ServerCloses
  <2>1. BufferInv' /\ ExactInv'
    BY <1>1, <1>2, <1>14, BufferStutters DEF ServerCloses, back
  <2>2. FlowInv'
    BY <1>1, <1>14, Waking DEF ServerCloses, FlowInv, back, forward, peer
  <2>3. QED BY <2>1, <2>2
<1>15. CASE ServerTakes
  <2>1. BufferInv' /\ ExactInv'
    BY <1>1, <1>2, <1>15, BufferStutters DEF ServerTakes, server, back
  <2>2. sockq' \in 0 .. SockBuf
    BY <1>1, <1>15, SizesAssumption DEF ServerTakes, FlowInv
  <2>3. awake' \in BOOLEAN
    BY <1>1, <1>15, Waking, Zenon DEF ServerTakes, FlowInv
  <2>4. FlowInv'
    BY <1>1, <1>15, <2>2, <2>3 DEF ServerTakes, FlowInv, server, back, peer
  <2>5. QED BY <2>1, <2>4
<1>16. CASE ServerResets
  <2>1. BufferInv' /\ ExactInv'
    BY <1>1, <1>2, <1>16, BufferStutters DEF ServerResets, back
  <2>2. FlowInv'
    BY <1>1, <1>16, Waking DEF ServerResets, FlowInv, back, forward, peer
  <2>3. QED BY <2>1, <2>2
<1>17. CASE UNCHANGED vars
  <2>1. BufferInv' /\ ExactInv'
    BY <1>1, <1>2, <1>17, BufferStutters DEF vars, server, back
  <2>2. FlowInv'
    BY <1>1, <1>17 DEF vars, FlowInv, server, back, forward, peer, task
  <2>3. QED BY <2>1, <2>2
<1>18. QED
  BY <1>3, <1>4, <1>5, <1>6, <1>7, <1>8, <1>9, <1>10, <1>11, <1>12, <1>13, <1>14, <1>15, <1>16, <1>17
  DEF Next

-----------------------------------------------------------------------------
(* Ending                                                                  *)

\* What is known of a session nobody has cut, at each of its stages: when the
\* FIN is queued for the client, when a tcp_output has failed, when a direction
\* has ended, when the pcb is gone, and when the session is done.
Ended ==
    /\ pcb_eof /\ Len(client) = taken
    /\ IF stalled THEN fin = "open" ELSE sent_eof /\ taken = sent /\ fin # "open"
    /\ fin # "last" => shut /\ queue = 0
Uncut ==
    /\ ~reset
    /\ fin # "open" => res_b < 0 /\ sent_eof /\ taken = sent /\ buffer.rda_size = 0
    /\ fin = "last" => pcb_eof
    /\ stalled => res_b < 0 /\ fin = "open" /\ buffer.rda_size = 0
    /\ res_b < 0 => stalled \/ fin # "open"
    /\ res_f < 0 => pcb_eof /\ shut /\ queue = 0
    /\ zero => ~pcb /\ fin = "last" /\ Len(client) = sent
    /\ ~pcb /\ phase # "done" => zero
    /\ phase = "drain" => zero \/ (res_f < 0 /\ res_b < 0)
    /\ phase = "done" => Ended
EndInv ==
    /\ refused => cut
    /\ phase = "done" => ~pcb
    /\ ~cut => Uncut

\* The FIN is queued behind all the server has sent.
LEMMA BackEnds ==
    ASSUME SpliceInv, Uncut, Back, ~refused', phase = "loop"
    PROVE  /\ fin' # "open" => res_b' < 0 /\ sent_eof /\ taken' = sent /\ buffer'.rda_size = 0
           /\ fin' = "last" => pcb_eof
           /\ stalled' => res_b' < 0 /\ fin' = "open" /\ buffer'.rda_size = 0
           /\ res_b' < 0 => stalled' \/ fin' # "open"
           /\ zero => fin' = fin
<1>1. CASE res_b < 0 /\ UNCHANGED back
  BY <1>1 DEF back, Uncut
<1>2. CASE res_b >= 0 /\ \E n \in 0 .. buffer.max_size :
              /\ Readable(n)
              /\ taken' = taken + n
              /\ \E failing \in Failures, output \in OutputResults :
                    Write(AfterRead(n), ReadResult(n), failing, output)
  <2>1. PICK n \in 0 .. buffer.max_size :
              /\ Readable(n)
              /\ taken' = taken + n
              /\ \E failing \in Failures, output \in OutputResults :
                    Write(AfterRead(n), ReadResult(n), failing, output)
    BY <1>2
  <2>2. PICK failing \in Failures, output \in OutputResults :
              Write(AfterRead(n), ReadResult(n), failing, output)
    BY <2>1
  <2>3. PICK r : r = AfterRead(n)
    OBVIOUS
  <2>4. BufferInv /\ taken \in Nat /\ sent \in Nat /\ n \in Nat /\ taken + n <= sent /\ taken <= sent
    <3>1. BufferInv /\ taken \in Nat /\ sent \in Nat /\ taken <= sent
      BY SizesAssumption DEF SpliceInv, BufferInv
    <3>2. taken + n \in 0 .. sent
      BY <2>1, <3>1, ReadStep
    <3>3. buffer.max_size = tcp_buffer_size
      BY ShapeFields DEF SpliceInv, BufferInv
    <3>4. n \in Nat
      BY <3>3, BufferSize
    <3>5. QED BY <3>1, <3>2, <3>4
  <2>5. Shape(r) /\ r.rda_size = buffer.rda_size + n
    BY <2>1, <2>3, <2>4, ReadStep
  <2>6. ~(res_b < 0) /\ fin = "open" /\ ~stalled
    <3>1. res_b \in Int
      BY DEF SpliceInv, FlowInv
    <3>2. ~(res_b < 0)
      BY <1>2, <3>1
    <3>3. QED BY <3>2 DEF Uncut
  <2>7. CASE ~pcb
    <3>1. fin = "last"
      BY <2>7 DEF Uncut
    <3>2. QED BY <2>6, <3>1
  <2>8. CASE pcb
    <3>1. PICK iovs : iovs = Reading(r)
      OBVIOUS
    <3>2. PICK failed : failed = (Len(TcpWrites(iovs, failing)) < Len(segs) + r.rda_size)
      OBVIOUS
    <3> DEFINE unsent == iovs # <<>> /\ output # "ERR_OK"
    <3>3. /\ buffer' = ReadFinish(r, r.rda_size)
          /\ res_b' = (IF failed \/ unsent THEN -1
                     ELSE IF iovs # <<>> THEN 1 ELSE ReadResult(n))
          /\ fin' = (IF iovs = <<>> /\ ReadResult(n) < 0
                     THEN IF pcb_eof THEN "last" ELSE "first" ELSE fin)
          /\ refused' = (refused \/ failed)
          /\ stalled' = (stalled \/ unsent)
      BY <2>2, <2>3, <2>8, <3>1, <3>2 DEF Write
    <3>4. ~failed /\ buffer'.rda_size = 0 /\ ~zero
      BY <2>5, <2>8, <3>3, ReadKeeps DEF Uncut
    <3>5. CASE iovs = <<>> /\ ReadResult(n) < 0
      <4>1. n = 0 /\ Writing(buffer) # <<>> /\ sent_eof
        BY <2>4, <3>5 DEF ReadResult, Uncut
      <4>2. taken = sent
        <5>1. /\ buffer.use_size \in 0 .. tcp_buffer_size /\ buffer.max_size = tcp_buffer_size
              /\ buffer.wp \in Positions /\ Shape(buffer)
          BY <2>4, ShapeFields, WrapMod DEF BufferInv
        <5>2. tcp_buffer_size - buffer.use_size \in 0 .. tcp_buffer_size
          BY <5>1, BufferSize
        <5>3. Len(AllCells(Writing(buffer))) = tcp_buffer_size - buffer.use_size
          BY <5>1, <5>2, CellsOfPieces DEF Writing
        <5>4. tcp_buffer_size - buffer.use_size # 0
          BY <4>1, <5>1 DEF Writing, Pieces
        <5>5. QED BY <2>1, <4>1, <5>3, <5>4 DEF Readable, Uncut
      <4>3. fin' # "open" /\ (fin' = "last" => pcb_eof) /\ ~stalled' /\ res_b' < 0
        BY <2>6, <3>3, <3>4, <3>5
      <4>4. QED BY <2>1, <2>4, <3>4, <4>1, <4>2, <4>3
    <3>6. CASE ~(iovs = <<>> /\ ReadResult(n) < 0)
      <4>1. fin' = "open"
        BY <2>6, <3>3, <3>6
      <4>2. CASE unsent
        <5>1. res_b' = -1
          BY <3>3, <4>2
        <5>2. stalled'
          BY <3>3, <4>2, Zenon
        <5>3. QED BY <3>4, <4>1, <5>1, <5>2
      <4>3. CASE ~unsent
        <5>1. ~stalled'
          BY <2>6, <3>3, <4>3, Zenon
        <5>2. res_b' = IF iovs # <<>> THEN 1 ELSE ReadResult(n)
          BY <3>3, <3>4, <4>3
        <5>3. ReadResult(n) \in -1 .. 1
          BY DEF ReadResult
        <5>4. ~(res_b' < 0)
          BY <3>6, <5>2, <5>3
        <5>5. QED BY <3>4, <4>1, <5>1, <5>4
      <4>4. QED BY <4>2, <4>3
    <3>7. QED BY <3>5, <3>6
  <2>9. QED BY <2>7, <2>8
<1>3. QED BY <1>1, <1>2 DEF Back

\* A direction to the server that ends has passed on everything.
LEMMA ForwardEnds ==
    ASSUME Uncut, Forward
    PROVE  res_f' < 0 => pcb_eof /\ shut' /\ queue' = 0
<1>1. CASE res_f < 0 /\ UNCHANGED forward
  BY <1>1 DEF forward, Uncut
<1>2. CASE res_f' = 1
  BY <1>2
<1>3. CASE res_f' = IF reset THEN -1 ELSE 0
  BY <1>3 DEF Uncut
<1>4. CASE /\ queue = 0
           /\ res_f' = IF pcb_eof THEN -1 ELSE 0
           /\ shut' = (shut \/ pcb_eof)
           /\ UNCHANGED <<queue, wnd, sockq>>
  <2>1. CASE pcb_eof
    BY <1>4, <2>1, Zenon
  <2>2. CASE ~pcb_eof
    BY <1>4, <2>2
  <2>3. QED BY <2>1, <2>2
<1>5. QED BY <1>1, <1>2, <1>3, <1>4 DEF Forward

\* An empty buffer under a pcb means that the client has all that was read.
LEMMA EmptyMeansArrived ==
    ASSUME BufferInv, ExactInv, pcb, ~refused, buffer.use_size = 0 \/ (segs = <<>> /\ buffer.rda_size = 0)
    PROVE  Len(client) = taken
<1>1. /\ Len(segs) = Held(buffer) /\ Len(client) = (taken - buffer.use_size) + got
  BY Zenon DEF ExactInv, Aligned
<1>2. /\ buffer.use_size \in Nat /\ buffer.rda_size \in Nat /\ buffer.rda_size <= buffer.use_size
      /\ Held(buffer) = buffer.use_size - buffer.rda_size
      /\ got \in 0 .. Len(segs) /\ Len(segs) \in Nat /\ taken \in Nat
  BY ShapeFields, SizesAssumption DEF BufferInv, Held
<1>3. segs = <<>> => Len(segs) = 0
  OBVIOUS
<1>4. buffer.use_size = 0 /\ got = 0
  BY <1>1, <1>2, <1>3
<1>5. QED BY <1>1, <1>2, <1>4

\* The loop at the end is left when the client has everything.
LEMMA DrainEnds ==
    ASSUME BufferInv, ExactInv, ~refused,
           fin # "open" => sent_eof /\ taken = sent /\ buffer.rda_size = 0,
           fin = "last" => pcb_eof,
           stalled => fin = "open" /\ buffer.rda_size = 0,
           zero => ~pcb /\ fin = "last" /\ Len(client) = sent,
           ~pcb => zero,
           ~zero => (stalled \/ fin # "open") /\ pcb_eof /\ shut /\ queue = 0,
           ~(pcb /\ buffer.use_size # 0 /\ ~zero)
    PROVE  Ended
<1>1. CASE zero
  BY <1>1 DEF Ended
<1>2. CASE ~zero
  <2>1. pcb /\ buffer.use_size = 0
    BY <1>2
  <2>2. Len(client) = taken
    BY <2>1, EmptyMeansArrived
  <2>3. QED BY <1>2, <2>2 DEF Ended
<1>3. QED BY <1>1, <1>2

\* A round that ends the session leaves nothing behind.
LEMMA TurnEnds == SpliceInv /\ SpliceInv' /\ EndInv /\ Turn => EndInv'
<1> SUFFICES ASSUME SpliceInv, SpliceInv', EndInv, Turn
             PROVE  EndInv'
  OBVIOUS
<1>1. /\ phase = "loop" /\ Forward /\ Back /\ cut' = (cut \/ refused')
      /\ UNCHANGED <<sent, sent_eof, reset, got, client, given, pcb_eof, zero>>
  BY DEF Turn, server, peer
<1>2. \/ UNCHANGED <<phase, pcb>>
      \/ (zero \/ (res_f' < 0 /\ res_b' < 0)) /\ Drain(buffer')
  BY DEF Turn
<1>3. refused' => cut'
  BY <1>1
<1>4. phase' = "done" => ~pcb'
  BY <1>1, <1>2 DEF Drain
<1>5. ASSUME ~cut'
      PROVE  Uncut'
  <2>1. ~cut /\ ~refused' /\ Uncut
    BY <1>1, <1>5 DEF EndInv
  <2>2. /\ fin' # "open" => res_b' < 0 /\ sent_eof /\ taken' = sent /\ buffer'.rda_size = 0
        /\ fin' = "last" => pcb_eof
        /\ stalled' => res_b' < 0 /\ fin' = "open" /\ buffer'.rda_size = 0
        /\ res_b' < 0 => stalled' \/ fin' # "open"
        /\ zero => fin' = fin
    BY <1>1, <2>1, BackEnds
  <2>3. res_f' < 0 => pcb_eof /\ shut' /\ queue' = 0
    BY <1>1, <2>1, ForwardEnds
  <2>4. zero => ~pcb /\ fin' = "last" /\ Len(client) = sent
    BY <2>1, <2>2 DEF Uncut
  <2>5. ~pcb => zero
    BY <1>1, <2>1 DEF Uncut
  <2>6. CASE UNCHANGED <<phase, pcb>>
    BY <1>1, <2>1, <2>2, <2>3, <2>4, <2>5, <2>6 DEF Uncut
  <2>7. CASE (zero \/ (res_f' < 0 /\ res_b' < 0)) /\ Drain(buffer')
    <3>1. CASE pcb /\ buffer'.use_size # 0 /\ ~zero
      <4>1. phase' = "drain" /\ UNCHANGED pcb
        BY <2>7, <3>1 DEF Drain
      <4>2. QED BY <1>1, <2>1, <2>2, <2>3, <2>4, <2>5, <2>7, <4>1 DEF Uncut
    <3>2. CASE ~(pcb /\ buffer'.use_size # 0 /\ ~zero)
      <4>1. phase' = "done" /\ pcb' = FALSE
        BY <2>7, <3>2 DEF Drain
      <4>2. Ended'
        <5>1. CASE zero
          BY <1>1, <2>2, <2>4, <5>1 DEF Ended
        <5>2. CASE ~zero
          <6>1. pcb /\ buffer'.use_size = 0
            BY <2>5, <3>2, <5>2
          <6>2. Aligned(buffer', segs', taken', got, client)
            BY <1>1, <2>1, <6>1, BackStep DEF SpliceInv
          <6>3. /\ Len(segs') = Held(buffer') /\ Len(client) = (taken' - buffer'.use_size) + got
            BY <6>2, Zenon DEF Aligned
          <6>4. /\ pcb_eof /\ shut' /\ queue' = 0 /\ buffer'.rda_size = 0
                /\ IF stalled' THEN fin' = "open" ELSE sent_eof /\ taken' = sent /\ fin' # "open"
            BY <2>2, <2>3, <2>7, <5>2
          <6>5. got \in 0 .. Len(segs') /\ taken' \in Nat
            BY <1>1, SizesAssumption DEF SpliceInv, BufferInv
          <6>6. Len(client) = taken'
            <7>1. buffer'.use_size = 0 /\ buffer'.rda_size = 0
              BY <6>1, <6>4
            <7>2. Len(segs') = 0 /\ Len(client) = (taken' - 0) + got
              BY <6>3, <7>1 DEF Held
            <7>3. got = 0
              BY <6>5, <7>2
            <7>4. PICK t \in Nat : t = taken'
              BY <6>5
            <7>5. (t - 0) + 0 = t
              OBVIOUS
            <7>6. QED BY <7>2, <7>3, <7>4, <7>5
          <6>7. QED BY <1>1, <6>4, <6>6 DEF Ended
        <5>3. QED BY <5>1, <5>2
      <4>3. QED BY <1>1, <2>1, <2>2, <2>3, <2>4, <4>1, <4>2 DEF Uncut
    <3>3. QED BY <3>1, <3>2
  <2>8. QED BY <1>2, <2>6, <2>7
<1>6. QED BY <1>3, <1>4, <1>5, Zenon DEF EndInv

\* Nor does any other step.
LEMMA EndStep == SpliceInv /\ SpliceInv' /\ EndInv /\ [Next]_vars => EndInv'
<1> SUFFICES ASSUME SpliceInv, SpliceInv', EndInv, [Next]_vars
             PROVE  EndInv'
  OBVIOUS
<1>1. CASE Turn
  BY <1>1, TurnEnds
<1>2. CASE DrainTurn
  <2>1. /\ phase = "drain" /\ Drain(buffer)
        /\ UNCHANGED <<sent, sent_eof, reset, taken, buffer, segs, fin, res_b, refused, stalled, got,
                       client, queue, shut, res_f, pcb_eof, zero, cut>>
    BY <1>2 DEF DrainTurn, server, back, forward, peer
  <2>2. CASE pcb /\ buffer.use_size # 0 /\ ~zero
    <3>1. phase' = "drain" /\ pcb' = pcb
      BY <2>1, <2>2 DEF Drain
    <3>2. QED BY <2>1, <3>1 DEF EndInv, Uncut
  <2>3. CASE ~(pcb /\ buffer.use_size # 0 /\ ~zero)
    <3>1. phase' = "done" /\ pcb' = FALSE
      BY <2>1, <2>3 DEF Drain
    <3>2. ~cut => Ended
      BY <2>1, <2>3, DrainEnds DEF EndInv, Uncut, SpliceInv
    <3>3. QED BY <2>1, <3>1, <3>2 DEF EndInv, Uncut, Ended
  <2>4. QED BY <2>2, <2>3
<1>3. CASE Timeout
  <2>1. phase' = "done" => ~pcb'
    BY <1>3 DEF Timeout, Drain
  <2>2. QED BY <1>3, <2>1 DEF Timeout, EndInv
<1>4. CASE Terminate
  BY <1>4 DEF Terminate, EndInv
<1>5. ASSUME NEW n \in 1 .. Wnd, ClientSends(n)
      PROVE  EndInv'
  BY <1>5 DEF ClientSends, EndInv, Uncut, Ended, server, back
<1>6. ASSUME NEW n \in 1 .. SndBuf, Acknowledge(n)
      PROVE  EndInv'
  <2>1. /\ pcb /\ buffer' = ReadRelease(buffer, n)
        /\ UNCHANGED <<sent, sent_eof, reset, taken, fin, res_b, refused, stalled, client, queue, shut, res_f,
                       pcb_eof, pcb, zero, phase, cut>>
    BY <1>6 DEF Acknowledge, server, forward, peer
  <2>2. buffer'.rda_size = buffer.rda_size
    BY <2>1 DEF ReadRelease, SpliceInv, BufferInv, Shape, Rings
  <2>3. QED BY <2>1, <2>2 DEF EndInv, Uncut
<1>7. CASE ClientCloses
  BY <1>7 DEF ClientCloses, EndInv, Uncut, Ended, server, back, forward
<1>8. CASE ClientAborts
  BY <1>8 DEF ClientAborts, EndInv
<1>9. CASE FinAcknowledged
  <2>1. /\ pcb /\ fin = "last" /\ segs = <<>> /\ pcb' = FALSE /\ zero' = TRUE
        /\ UNCHANGED <<sent, sent_eof, reset, taken, buffer, fin, res_b, refused, stalled, client, queue, shut,
                       res_f, pcb_eof, phase, cut>>
    BY <1>9 DEF FinAcknowledged, ClosedByBoth, server, back, forward, peer
  <2>2. ~cut => Len(client) = sent
    BY <2>1, EmptyMeansArrived DEF EndInv, Uncut, SpliceInv
  <2>3. QED BY <2>1, <2>2 DEF EndInv, Uncut, Ended
<1>10. CASE Transmit
  BY <1>10 DEF Transmit, EndInv, Uncut, server, back, forward, peer, task
<1>11. CASE ServerSends
  BY <1>11 DEF ServerSends, EndInv, Uncut, Ended, back, forward, peer
<1>12. CASE ServerCloses
  BY <1>12 DEF ServerCloses, EndInv, Uncut, Ended, back, forward, peer
<1>13. CASE ServerTakes
  BY <1>13 DEF ServerTakes, EndInv, Uncut, Ended, server, back, peer
<1>14. CASE ServerResets
  BY <1>14 DEF ServerResets, EndInv
<1>15. CASE UNCHANGED vars
  BY <1>15 DEF vars, EndInv, Uncut, Ended, server, back, forward, peer, task
<1>16. QED
  BY <1>1, <1>2, <1>3, <1>4, <1>5, <1>6, <1>7, <1>8, <1>9, <1>10, <1>11, <1>12, <1>13, <1>14, <1>15
  DEF Next

-----------------------------------------------------------------------------
(* The theorems                                                            *)

\* The inductive invariant of the session, for any sizes and any failures.
THEOREM SpliceInvariant == Spec => [](SpliceInv /\ EndInv)
<1>1. Init => SpliceInv /\ EndInv
  <2>1. Init => EndInv
    BY DEF Init, EndInv, Uncut
  <2>2. QED BY <2>1, InitSplice
<1>2. (SpliceInv /\ EndInv) /\ [Next]_vars => (SpliceInv /\ EndInv)'
  BY SpliceStep, EndStep
<1>3. QED BY <1>1, <1>2, PTL DEF Spec

\* The ring buffer's indices stay within the buffer and its counters apart,
\* the pcb refers to cells of the buffer only, and the window never exceeds
\* TCP_WND, whatever the sizes are and whatever memory fails.
THEOREM TypeCorrect == Spec => []TypeOK
<1>1. SpliceInv => TypeOK
  <2>1. HAVE SpliceInv
  <2>2. /\ DOMAIN buffer.data = Positions /\ buffer.rp \in Positions /\ buffer.wp \in Positions
        /\ buffer.use_size \in 0 .. buffer.max_size /\ buffer.rda_size \in 0 .. buffer.use_size
    <3>1. /\ Shape(buffer)
      BY <2>1 DEF SpliceInv, BufferInv
    <3>2. QED BY <3>1, ShapeFields, WrapMod
  <2>3. /\ sent \in 0 .. ServerBytes /\ taken \in 0 .. sent /\ segs \in Seq(DOMAIN buffer.data)
        /\ got \in 0 .. Len(segs) /\ client \in Seq(1 .. ServerBytes)
    BY <2>1, <2>2 DEF SpliceInv, BufferInv
  <2>4. {sent_eof, pcb_eof, shut, reset, pcb, zero, awake, refused, stalled, cut} \subseteq BOOLEAN
    BY <2>1, Zenon DEF SpliceInv, FlowInv
  <2>5. QED BY <2>1, <2>2, <2>3, <2>4 DEF SpliceInv, FlowInv, TypeOK
<1>2. QED BY <1>1, SpliceInvariant, PTL

\* With memory enough, tcp_write never fails: the ring buffer is no larger
\* than what lwIP takes.
THEOREM NothingRefused == Spec => []NeverRefused
<1>1. SpliceInv => NeverRefused
  BY DEF SpliceInv, ExactInv, NeverRefused
<1>2. QED BY <1>1, SpliceInvariant, PTL

\* With memory enough, the client receives the bytes 1, 2, 3, ... of the
\* server, whatever is retransmitted and however reads, writes and
\* acknowledgements interleave.
THEOREM ReceivedInOrder == ASSUME ~MemoryFails PROVE Spec => []InOrder
<1>1. SpliceInv => InOrder
  <2>1. HAVE SpliceInv
  <2>2. \A i \in 1 .. Len(client) : client[i] = i
    BY <2>1 DEF SpliceInv, ExactInv
  <2>3. DOMAIN client = 1 .. Len(client)
    BY <2>1 DEF SpliceInv, BufferInv
  <2>4. QED BY <2>2, <2>3 DEF InOrder
<1>2. QED BY <1>1, SpliceInvariant, PTL

\* With memory enough, the memory lwIP points to keeps the bytes it was given
\* until they are acknowledged.
THEOREM MemoryIntact == ASSUME ~MemoryFails PROVE Spec => []InFlightIntact
<1>1. SpliceInv => InFlightIntact
  <2>1. SUFFICES ASSUME SpliceInv, pcb, NEW j \in DOMAIN segs
                 PROVE  buffer.data[segs[j]] = Len(client) - got + j
    BY DEF InFlightIntact
  <2>2. BufferInv /\ Aligned(buffer, segs, taken, got, client)
    BY <2>1 DEF SpliceInv, ExactInv
  <2>3. /\ Shape(buffer) /\ HoldsLast(buffer, taken) /\ taken \in Nat /\ segs \in Seq(Positions)
        /\ got \in 0 .. Len(segs)
    BY <2>2, SizesAssumption DEF BufferInv
  <2>4. /\ buffer.use_size \in Nat /\ buffer.rda_size \in Nat /\ Held(buffer) = buffer.use_size - buffer.rda_size
    BY <2>3, ShapeFields DEF Held
  <2>5. /\ Len(segs) = Held(buffer) /\ Len(client) = (taken - buffer.use_size) + got
        /\ \A i \in 1 .. Len(segs) : segs[i] = CellOf(buffer, i - 1)
    BY <2>2, Zenon DEF Aligned
  <2>6. j \in 1 .. Len(segs) /\ j - 1 \in 0 .. buffer.use_size - 1 /\ got \in Nat
    BY <2>3, <2>4, <2>5
  <2>7. buffer.data[segs[j]] = (taken - buffer.use_size) + (j - 1) + 1
    BY <2>3, <2>5, <2>6 DEF HoldsLast
  <2>8. QED BY <2>3, <2>4, <2>5, <2>6, <2>7
<1>2. QED BY <1>1, SpliceInvariant, PTL

\* A session nobody cuts ends with everything read delivered, and, unless a
\* tcp_output failed, with everything sent delivered and both directions
\* closed, also when memory may fail: a refusal ends the session as cut.
THEOREM EndedClean == Spec => []EndsClean
<1>1. EndInv => EndsClean
  BY DEF EndInv, Uncut, Ended, EndsClean
<1>2. QED BY <1>1, SpliceInvariant, PTL
=============================================================================
