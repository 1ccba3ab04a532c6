----------------------------- MODULE StreamProofs -----------------------------
(***************************************************************************)
(* What holds of Stream for packets and buffers of every size: no buffer   *)
(* is left, memory is not sent after it was freed while the sender waits,  *)
(* the packets that are cut out of the bytes are those that were sent, and *)
(* when everything rests all of them have been received.                   *)
(***************************************************************************)
EXTENDS Stream, TLAPS

-----------------------------------------------------------------------------
(* Sequences.                                                              *)

\* The bytes of a concatenation, of a piece, and of a sequence with one more.
LEMMA ConcatBytes ==
  ASSUME NEW S, NEW x \in Seq(S), NEW y \in Seq(S)
  PROVE  /\ x \o y \in Seq(S) /\ Len(x \o y) = Len(x) + Len(y)
         /\ \A n \in 1 .. Len(x) : (x \o y)[n] = x[n]
         /\ \A n \in 1 .. Len(y) : (x \o y)[Len(x) + n] = y[n]
OBVIOUS

LEMMA SubSeqBytes ==
  ASSUME NEW S, NEW x \in Seq(S), NEW m \in Nat, NEW n \in Nat, n <= Len(x), m <= n
  PROVE  /\ SubSeq(x, m + 1, n) \in Seq(S) /\ Len(SubSeq(x, m + 1, n)) = n - m
         /\ \A j \in 1 .. n - m : SubSeq(x, m + 1, n)[j] = x[m + j]
OBVIOUS

LEMMA AppendBytes ==
  ASSUME NEW S, NEW x \in Seq(S), NEW e \in S
  PROVE  /\ Append(x, e) \in Seq(S) /\ Len(Append(x, e)) = Len(x) + 1
         /\ \A n \in 1 .. Len(x) : Append(x, e)[n] = x[n]
         /\ Append(x, e)[Len(x) + 1] = e
OBVIOUS

\* Sequences with the same bytes are equal.
LEMMA SameBytes ==
  ASSUME NEW S, NEW x \in Seq(S), NEW y \in Seq(S), Len(x) = Len(y),
         \A n \in 1 .. Len(x) : x[n] = y[n]
  PROVE  x = y
OBVIOUS

\* A piece that is moved from the front of one sequence to the end of another.
LEMMA MovePiece ==
  ASSUME NEW S, NEW x \in Seq(S), NEW y \in Seq(S), NEW n \in Nat, n <= Len(y)
  PROVE  (x \o SubSeq(y, 1, n)) \o SubSeq(y, n + 1, Len(y)) = x \o y
<1>1a. PICK y1 : y1 = SubSeq(y, 1, n)
  OBVIOUS
<1>1. /\ y1 \in Seq(S) /\ Len(y1) = n
      /\ \A j \in 1 .. n : y1[j] = y[j]
  BY <1>1a, SubSeqBytes
<1>2a. PICK y2 : y2 = SubSeq(y, n + 1, Len(y))
  OBVIOUS
<1>2. /\ y2 \in Seq(S) /\ Len(y2) = Len(y) - n
      /\ \A j \in 1 .. Len(y) - n : y2[j] = y[n + j]
  BY <1>2a, SubSeqBytes
<1>3a. PICK w : w = x \o y1
  OBVIOUS
<1>3. /\ w \in Seq(S) /\ Len(w) = Len(x) + n
      /\ \A j \in 1 .. Len(x) : w[j] = x[j]
      /\ \A j \in 1 .. n : w[Len(x) + j] = y1[j]
  <2>1. /\ w \in Seq(S) /\ Len(w) = Len(x) + Len(y1)
        /\ \A j \in 1 .. Len(x) : w[j] = x[j]
        /\ \A j \in 1 .. Len(y1) : w[Len(x) + j] = y1[j]
    <3>1. y1 \in Seq(S)
      BY <1>1
    <3>2. /\ x \o y1 \in Seq(S) /\ Len(x \o y1) = Len(x) + Len(y1)
          /\ \A j \in 1 .. Len(x) : (x \o y1)[j] = x[j]
          /\ \A j \in 1 .. Len(y1) : (x \o y1)[Len(x) + j] = y1[j]
      BY <3>1
    <3> QED
      BY <1>3a, <3>2, Zenon
  <2> QED
    BY <1>1, <2>1
<1>4a. PICK z : z = w \o y2
  OBVIOUS
<1>4. /\ z \in Seq(S) /\ Len(z) = Len(x) + Len(y)
      /\ \A j \in 1 .. Len(x) + n : z[j] = w[j]
      /\ \A j \in 1 .. Len(y) - n : z[Len(x) + n + j] = y2[j]
  <2>1. w \in Seq(S) /\ y2 \in Seq(S)
    BY <1>2, <1>3
  <2>2. /\ w \o y2 \in Seq(S) /\ Len(w \o y2) = Len(w) + Len(y2)
        /\ \A j \in 1 .. Len(w) : (w \o y2)[j] = w[j]
        /\ \A j \in 1 .. Len(y2) : (w \o y2)[Len(w) + j] = y2[j]
    BY <2>1
  <2>3. /\ z \in Seq(S) /\ Len(z) = Len(w) + Len(y2)
        /\ \A j \in 1 .. Len(w) : z[j] = w[j]
        /\ \A j \in 1 .. Len(y2) : z[Len(w) + j] = y2[j]
    BY <1>4a, <2>2, Zenon
  <2> QED
    BY <1>2, <1>3, <2>3
<1>5a. PICK v : v = x \o y
  OBVIOUS
<1>5. /\ v \in Seq(S) /\ Len(v) = Len(x) + Len(y)
      /\ \A j \in 1 .. Len(x) : v[j] = x[j]
      /\ \A j \in 1 .. Len(y) : v[Len(x) + j] = y[j]
  BY <1>5a, ConcatBytes
<1>6. ASSUME NEW j \in 1 .. Len(z)
      PROVE  z[j] = v[j]
  <2>1. CASE j <= Len(x)
    BY <1>3, <1>4, <1>5, <2>1
  <2>2. CASE Len(x) < j /\ j <= Len(x) + n
    <3>1. j - Len(x) \in 1 .. n /\ j = Len(x) + (j - Len(x))
      BY <2>2
    <3>2. w[j] = y[j - Len(x)]
      BY <1>1, <1>3, <3>1
    <3>3. v[j] = y[j - Len(x)]
      <4>1. j - Len(x) \in 1 .. Len(y)
        BY <3>1
      <4> QED
        BY <1>5, <3>1, <4>1
    <3> QED
      BY <1>4, <2>2, <3>2, <3>3
  <2>3. CASE Len(x) + n < j
    <3>1. j - (Len(x) + n) \in 1 .. Len(y) - n /\ j = Len(x) + n + (j - (Len(x) + n))
      BY <1>4, <2>3
    <3>2. z[j] = y[n + (j - (Len(x) + n))]
      BY <1>2, <1>4, <3>1
    <3>3. n + (j - (Len(x) + n)) = j - Len(x) /\ j - Len(x) \in 1 .. Len(y) /\ j = Len(x) + (j - Len(x))
      BY <3>1
    <3> QED
      BY <1>5, <3>2, <3>3
  <2> QED
    BY <1>4, <2>1, <2>2, <2>3
<1>7. z = v
  BY <1>4, <1>5, <1>6, SameBytes
<1> QED
  BY <1>1a, <1>2a, <1>3a, <1>4a, <1>5a, <1>7, Zenon

-----------------------------------------------------------------------------
(* The bytes under way.                                                    *)

Bytes == Seq(Nat \X Nat)

\* packets holds whole packets: the k-th one has at least a head.
ArePackets(packets) ==
    \A k \in 1 .. Len(packets) :
        /\ packets[k] \in Bytes /\ Len(packets[k]) >= HeadSize
        /\ \A j \in 1 .. Len(packets[k]) : packets[k][j] = <<k, j>>

\* Every byte is one of a packet.
Owned(b, packets, c) ==
    \A n \in 1 .. Len(b) : \E k \in 1 .. c : \E j \in 1 .. Len(packets[k]) : b[n] = <<k, j>>

\* A packet that begins in b is all there, and the next one begins where it ends.
Whole(b, packets, c) ==
    \A n \in 1 .. Len(b), k \in 1 .. c : b[n] = <<k, 1>> =>
        /\ n + Len(packets[k]) - 1 <= Len(b)
        /\ \A j \in 1 .. Len(packets[k]) : b[n + j - 1] = <<k, j>>
Adjacent(b, packets, c) ==
    \A n \in 1 .. Len(b), k \in 1 .. c : b[n] = <<k, Len(packets[k])>> /\ n < Len(b) =>
        b[n + 1] = <<k + 1, 1>>

\* The first byte is the first of the packet after the r-th, the last one the last of the c-th.
Bounded(b, packets, r, c) ==
    IF b = <<>> THEN r = c
    ELSE r + 1 <= c /\ b[1] = <<r + 1, 1>> /\ b[Len(b)] = <<c, Len(packets[c])>>

\* The bytes b are the packets after the r-th up to the c-th, in their order.  What is said of each byte
\* is what appending a packet behind and cutting one in front keep.
Aligned(b, packets, r, c) ==
    Owned(b, packets, c) /\ Whole(b, packets, c) /\ Adjacent(b, packets, c) /\ Bounded(b, packets, r, c)

\* d is b and behind it the packet; d is b without its first len bytes.
Extended(d, b, packet) ==
    /\ Len(d) = Len(b) + Len(packet)
    /\ \A n \in 1 .. Len(b) : d[n] = b[n]
    /\ \A n \in 1 .. Len(packet) : d[Len(b) + n] = packet[n]
Cut(d, b, len) ==
    /\ Len(d) = Len(b) - len
    /\ \A n \in 1 .. Len(d) : d[n] = b[len + n]

LEMMA LenOfBytes ==
  ASSUME NEW b \in Bytes
  PROVE  Len(b) \in Nat /\ (b = <<>> <=> Len(b) = 0)
BY DEF Bytes

LEMMA ConcatOfBytes ==
  ASSUME NEW x \in Bytes, NEW y \in Bytes
  PROVE  /\ x \o y \in Bytes /\ Len(x \o y) = Len(x) + Len(y)
         /\ \A n \in 1 .. Len(x) : (x \o y)[n] = x[n]
         /\ \A n \in 1 .. Len(y) : (x \o y)[Len(x) + n] = y[n]
<1>1. PICK S : S = Nat \X Nat
  OBVIOUS
<1>2. x \in Seq(S) /\ y \in Seq(S)
  BY <1>1, Zenon DEF Bytes
<1>3. /\ x \o y \in Seq(S) /\ Len(x \o y) = Len(x) + Len(y)
      /\ \A n \in 1 .. Len(x) : (x \o y)[n] = x[n]
      /\ \A n \in 1 .. Len(y) : (x \o y)[Len(x) + n] = y[n]
  BY <1>2, ConcatBytes
<1> QED
  BY <1>1, <1>3, Zenon DEF Bytes

LEMMA PiecesOfBytes ==
  ASSUME NEW b \in Bytes, NEW n \in Nat, n <= Len(b)
  PROVE  /\ SubSeq(b, 1, n) \in Bytes /\ Len(SubSeq(b, 1, n)) = n
         /\ \A j \in 1 .. n : SubSeq(b, 1, n)[j] = b[j]
         /\ SubSeq(b, n + 1, Len(b)) \in Bytes /\ Len(SubSeq(b, n + 1, Len(b))) = Len(b) - n
         /\ \A j \in 1 .. Len(b) - n : SubSeq(b, n + 1, Len(b))[j] = b[n + j]
<1>1. b \in Seq(Nat \X Nat) /\ Len(b) \in Nat
  BY DEF Bytes
<1>2. /\ SubSeq(b, 1, n) \in Seq(Nat \X Nat) /\ Len(SubSeq(b, 1, n)) = n
      /\ \A j \in 1 .. n : SubSeq(b, 1, n)[j] = b[j]
  BY <1>1
<1>3. /\ SubSeq(b, n + 1, Len(b)) \in Seq(Nat \X Nat) /\ Len(SubSeq(b, n + 1, Len(b))) = Len(b) - n
      /\ \A j \in 1 .. Len(b) - n : SubSeq(b, n + 1, Len(b))[j] = b[n + j]
  BY <1>1
<1> QED
  BY <1>2, <1>3, Zenon DEF Bytes

LEMMA PacketLengths ==
  ASSUME NEW packets, ArePackets(packets), NEW k \in 1 .. Len(packets)
  PROVE  /\ packets[k] \in Bytes /\ Len(packets[k]) \in Nat /\ Len(packets[k]) >= 2
         /\ \A j \in 1 .. Len(packets[k]) : packets[k][j] = <<k, j>>
BY LenOfBytes DEF ArePackets, HeadSize

\* A packet is appended.
LEMMA AlignedWithOneMore ==
  ASSUME NEW packets, ArePackets(packets), NEW r \in Nat, NEW c \in Nat, c < Len(packets),
         Len(packets) \in Nat,
         NEW b \in Bytes, Aligned(b, packets, r, c),
         NEW d \in Bytes, Extended(d, b, packets[c + 1])
  PROVE  Aligned(d, packets, r, c + 1)
<1>0. PICK lb \in Nat, ld \in Nat, len \in Nat : lb = Len(b) /\ ld = Len(d) /\ len = Len(packets[c + 1])
  BY LenOfBytes, PacketLengths
<1>1. /\ c + 1 \in 1 .. c + 1 /\ c + 1 \in 1 .. Len(packets) /\ len >= 2
      /\ ld = lb + len
  BY <1>0, PacketLengths DEF Extended
<1>2. /\ \A n \in 1 .. lb : d[n] = b[n]
      /\ \A n \in 1 .. len : d[lb + n] = <<c + 1, n>>
  <2>1. \A n \in 1 .. len : packets[c + 1][n] = <<c + 1, n>>
    BY <1>0, <1>1, PacketLengths
  <2> QED
    BY <1>0, <2>1 DEF Extended
<1>3. \A k \in 1 .. c + 1 : Len(packets[k]) \in Nat /\ Len(packets[k]) >= 2
  BY PacketLengths
<1>9. /\ \A n \in 1 .. lb : \E k \in 1 .. c : \E j \in 1 .. Len(packets[k]) : b[n] = <<k, j>>
      /\ \A n \in 1 .. lb, k \in 1 .. c : b[n] = <<k, 1>> =>
            /\ n + Len(packets[k]) - 1 <= lb
            /\ \A j \in 1 .. Len(packets[k]) : b[n + j - 1] = <<k, j>>
      /\ \A n \in 1 .. lb, k \in 1 .. c : b[n] = <<k, Len(packets[k])>> /\ n < lb => b[n + 1] = <<k + 1, 1>>
      /\ IF lb = 0 THEN r = c
         ELSE r + 1 <= c /\ b[1] = <<r + 1, 1>> /\ b[lb] = <<c, Len(packets[c])>>
  <2>1. b = <<>> <=> lb = 0
    BY <1>0, LenOfBytes
  <2> QED
    BY <1>0, <2>1 DEF Aligned, Owned, Whole, Adjacent, Bounded
<1>4. ASSUME NEW n \in 1 .. ld
      PROVE  \/ n \in 1 .. lb /\ d[n] = b[n]
             \/ \E j \in 1 .. len : n = lb + j /\ d[n] = <<c + 1, j>>
  <2>1. CASE n <= lb
    BY <1>2, <2>1
  <2>2. CASE n > lb
    <3>1. n - lb \in 1 .. len /\ n = lb + (n - lb)
      BY <1>1, <2>2
    <3> QED
      BY <1>2, <3>1
  <2> QED
    BY <1>1, <2>1, <2>2
<1>5. Owned(d, packets, c + 1)
  <2> SUFFICES ASSUME NEW n \in 1 .. ld
               PROVE  \E k \in 1 .. c + 1 : \E j \in 1 .. Len(packets[k]) : d[n] = <<k, j>>
    BY <1>0 DEF Owned
  <2>1. CASE n \in 1 .. lb /\ d[n] = b[n]
    <3>1. PICK k \in 1 .. c : \E j \in 1 .. Len(packets[k]) : b[n] = <<k, j>>
      BY <1>9, <2>1
    <3> QED
      BY <2>1, <3>1
  <2>2. CASE \E j \in 1 .. len : n = lb + j /\ d[n] = <<c + 1, j>>
    BY <1>0, <1>1, <2>2
  <2> QED
    BY <1>4, <2>1, <2>2
<1>6. Bounded(d, packets, r, c + 1)
  <2>1. ld >= 2 /\ d # <<>>
    <3>1. ld >= 2
      BY <1>1
    <3> QED
      BY <1>0, <3>1, LenOfBytes
  <2>2. d[ld] = <<c + 1, len>>
    <3>1. len \in 1 .. len /\ ld = lb + len
      BY <1>1
    <3>2. d[lb + len] = <<c + 1, len>>
      BY <1>2, <3>1, Zenon
    <3> QED
      BY <3>1, <3>2, Zenon
  <2>3. r + 1 <= c + 1 /\ d[1] = <<r + 1, 1>>
    <3>1. CASE lb = 0
      <4>1. d[lb + 1] = <<c + 1, 1>>
        BY <1>1, <1>2
      <4> QED
        BY <1>9, <3>1, <4>1
    <3>2. CASE lb # 0
      <4>1. 1 \in 1 .. lb
        BY <3>2
      <4> QED
        BY <1>2, <1>9, <3>2, <4>1
    <3> QED
      BY <3>1, <3>2
  <2> QED
    BY <1>0, <2>1, <2>2, <2>3 DEF Bounded
<1>7. Whole(d, packets, c + 1)
  <2> SUFFICES ASSUME NEW n \in 1 .. ld, NEW k \in 1 .. c + 1, d[n] = <<k, 1>>
               PROVE  /\ n + Len(packets[k]) - 1 <= ld
                      /\ \A j \in 1 .. Len(packets[k]) : d[n + j - 1] = <<k, j>>
    BY <1>0 DEF Whole
  <2>0. PICK m \in Nat : m = Len(packets[k])
    BY <1>3
  <2>1. CASE n \in 1 .. lb /\ d[n] = b[n]
    <3>1. PICK k0 \in 1 .. c : \E j0 \in 1 .. Len(packets[k0]) : b[n] = <<k0, j0>>
      BY <1>9, <2>1
    <3>2. k \in 1 .. c /\ b[n] = <<k, 1>>
      BY <2>1, <3>1
    <3>3. /\ n + m - 1 <= lb
          /\ \A j \in 1 .. m : b[n + j - 1] = <<k, j>>
      BY <1>9, <2>0, <2>1, <3>2
    <3>4. ASSUME NEW j \in 1 .. m
          PROVE  d[n + j - 1] = <<k, j>>
      <4>1. n + j - 1 \in 1 .. lb
        <5>1. n \in Nat /\ n >= 1 /\ lb \in Nat /\ n + m - 1 <= lb
          BY <2>1, <3>3
        <5> QED
          BY <5>1
      <4> QED
        BY <1>2, <3>3, <4>1
    <3>5. n + m - 1 <= ld
      BY <1>1, <3>3
    <3> QED
      BY <2>0, <3>4, <3>5
  <2>2. CASE \E j \in 1 .. len : n = lb + j /\ d[n] = <<c + 1, j>>
    <3>1. n = lb + 1 /\ k = c + 1
      BY <2>2
    <3>2. ASSUME NEW j \in 1 .. len
          PROVE  d[n + j - 1] = <<c + 1, j>>
      <4>1. n + j - 1 = lb + j
        BY <3>1
      <4> QED
        BY <1>2, <4>1
    <3>3. n + len - 1 <= ld
      BY <1>1, <3>1
    <3> QED
      BY <1>0, <3>1, <3>2, <3>3
  <2> QED
    BY <1>4, <2>1, <2>2
<1>8. Adjacent(d, packets, c + 1)
  <2> SUFFICES ASSUME NEW n \in 1 .. ld, NEW k \in 1 .. c + 1,
                      d[n] = <<k, Len(packets[k])>>, n < ld
               PROVE  d[n + 1] = <<k + 1, 1>>
    BY <1>0 DEF Adjacent
  <2>1. CASE n \in 1 .. lb /\ d[n] = b[n]
    <3>1. PICK k0 \in 1 .. c : \E j0 \in 1 .. Len(packets[k0]) : b[n] = <<k0, j0>>
      BY <1>9, <2>1
    <3>2. k \in 1 .. c /\ b[n] = <<k, Len(packets[k])>>
      BY <2>1, <3>1
    <3>3. CASE n < lb
      <4>1. n + 1 \in 1 .. lb
        BY <2>1, <3>3
      <4>2. b[n + 1] = <<k + 1, 1>>
        BY <1>9, <2>1, <3>2, <3>3
      <4> QED
        BY <1>2, <4>1, <4>2
    <3>4. CASE n = lb
      <4>1. k = c
        BY <1>9, <2>1, <3>2, <3>4
      <4>2. d[lb + 1] = <<c + 1, 1>>
        BY <1>1, <1>2
      <4> QED
        BY <3>4, <4>1, <4>2
    <3> QED
      BY <2>1, <3>3, <3>4
  <2>2. CASE \E j \in 1 .. len : n = lb + j /\ d[n] = <<c + 1, j>>
    <3>1. PICK j \in 1 .. len : n = lb + j /\ d[n] = <<c + 1, j>>
      BY <2>2
    <3>2. k = c + 1 /\ j = Len(packets[k])
      BY <3>1
    <3>3. j = len
      BY <1>0, <3>2
    <3> QED
      BY <1>1, <3>1, <3>3
  <2> QED
    BY <1>4, <2>1, <2>2
<1> QED
  BY <1>5, <1>6, <1>7, <1>8 DEF Aligned

\* The packet in front is all there, and what is behind it is aligned.
LEMMA FirstIsThere ==
  ASSUME NEW packets, ArePackets(packets), Len(packets) \in Nat, NEW r \in Nat, NEW c \in Nat,
         c <= Len(packets), NEW b \in Bytes, b # <<>>, Aligned(b, packets, r, c)
  PROVE  /\ r + 1 \in 1 .. c /\ Len(packets[r + 1]) \in Nat /\ 2 <= Len(packets[r + 1])
         /\ b[1] = <<r + 1, 1>> /\ Len(packets[r + 1]) <= Len(b)
         /\ \A j \in 1 .. Len(packets[r + 1]) : b[j] = <<r + 1, j>>
<1>1. r + 1 \in 1 .. c /\ b[1] = <<r + 1, 1>> /\ 1 \in 1 .. Len(b) /\ Len(b) \in Nat
  BY LenOfBytes DEF Aligned, Bounded
<1>2. Len(packets[r + 1]) \in Nat /\ 2 <= Len(packets[r + 1])
  BY <1>1, PacketLengths
<1>3. /\ 1 + Len(packets[r + 1]) - 1 <= Len(b)
      /\ \A j \in 1 .. Len(packets[r + 1]) : b[1 + j - 1] = <<r + 1, j>>
  <2>1. \A n \in 1 .. Len(b), k \in 1 .. c : b[n] = <<k, 1>> =>
            /\ n + Len(packets[k]) - 1 <= Len(b)
            /\ \A j \in 1 .. Len(packets[k]) : b[n + j - 1] = <<k, j>>
    BY DEF Aligned, Whole
  <2> QED
    BY <1>1, <2>1, Zenon
<1>4. \A j \in 1 .. Len(packets[r + 1]) : 1 + j - 1 = j
  BY <1>2
<1> QED
  BY <1>1, <1>2, <1>3, <1>4

LEMMA AlignedWithoutFirst ==
  ASSUME NEW packets, ArePackets(packets), Len(packets) \in Nat, NEW r \in Nat, NEW c \in Nat,
         c <= Len(packets),
         NEW b \in Bytes, b # <<>>, Aligned(b, packets, r, c),
         NEW d \in Bytes, Cut(d, b, Len(packets[r + 1]))
  PROVE  Aligned(d, packets, r + 1, c)
<1>0. PICK lb \in Nat, ld \in Nat, len \in Nat : lb = Len(b) /\ ld = Len(d) /\ len = Len(packets[r + 1])
  BY LenOfBytes, FirstIsThere
<1>1. /\ r + 1 \in 1 .. c /\ 2 <= len /\ len <= lb /\ b[len] = <<r + 1, Len(packets[r + 1])>>
      /\ ld = lb - len /\ len \in 1 .. lb
  <2>1. ld = lb - len
    BY <1>0 DEF Cut
  <2>2. /\ r + 1 \in 1 .. c /\ 2 <= len /\ len <= lb
        /\ \A j \in 1 .. len : b[j] = <<r + 1, j>>
    BY <1>0, FirstIsThere
  <2> QED
    BY <1>0, <2>1, <2>2
<1>2. \A k \in 1 .. c : Len(packets[k]) \in Nat /\ Len(packets[k]) >= 2
  BY PacketLengths
<1>3. \A n \in 1 .. ld : d[n] = b[len + n] /\ len + n \in 1 .. lb
  BY <1>0, <1>1 DEF Cut
<1>9. /\ \A n \in 1 .. lb : \E k \in 1 .. c : \E j \in 1 .. Len(packets[k]) : b[n] = <<k, j>>
      /\ \A n \in 1 .. lb, k \in 1 .. c : b[n] = <<k, 1>> =>
            /\ n + Len(packets[k]) - 1 <= lb
            /\ \A j \in 1 .. Len(packets[k]) : b[n + j - 1] = <<k, j>>
      /\ \A n \in 1 .. lb, k \in 1 .. c : b[n] = <<k, Len(packets[k])>> /\ n < lb => b[n + 1] = <<k + 1, 1>>
      /\ b[lb] = <<c, Len(packets[c])>>
  BY <1>0 DEF Aligned, Owned, Whole, Adjacent, Bounded
<1>4. Bounded(d, packets, r + 1, c)
  <2>1. CASE ld = 0
    <3>1. len = lb
      BY <1>1, <2>1
    <3>2. r + 1 = c
      BY <1>1, <1>9, <3>1
    <3>3. d = <<>>
      BY <1>0, <2>1, LenOfBytes
    <3> QED
      BY <3>2, <3>3 DEF Bounded
  <2>2. CASE ld # 0
    <3>1. len < lb /\ len + ld = lb /\ len + 1 \in 1 .. lb /\ 1 \in 1 .. ld /\ ld \in 1 .. ld
      BY <1>1, <2>2
    <3>2. b[len + 1] = <<(r + 1) + 1, 1>>
      BY <1>1, <1>9, <3>1
    <3>3. d[1] = <<(r + 1) + 1, 1>>
      BY <1>3, <3>1, <3>2
    <3>4. d[ld] = <<c, Len(packets[c])>>
      BY <1>3, <1>9, <3>1
    <3>5. PICK k \in 1 .. c : \E j \in 1 .. Len(packets[k]) : b[len + 1] = <<k, j>>
      BY <1>9, <3>1
    <3>6. (r + 1) + 1 <= c
      BY <3>2, <3>5
    <3>7. d # <<>>
      BY <1>0, <2>2, LenOfBytes
    <3> QED
      BY <1>0, <3>3, <3>4, <3>6, <3>7 DEF Bounded
  <2> QED
    BY <2>1, <2>2
<1>5. Whole(d, packets, c)
  <2> SUFFICES ASSUME NEW n \in 1 .. ld, NEW k \in 1 .. c, d[n] = <<k, 1>>
               PROVE  /\ n + Len(packets[k]) - 1 <= ld
                      /\ \A j \in 1 .. Len(packets[k]) : d[n + j - 1] = <<k, j>>
    BY <1>0 DEF Whole
  <2>0. PICK m \in Nat : m = Len(packets[k])
    BY <1>2
  <2>1. b[len + n] = <<k, 1>> /\ len + n \in 1 .. lb
    BY <1>3
  <2>2. /\ (len + n) + m - 1 <= lb
        /\ \A j \in 1 .. m : b[(len + n) + j - 1] = <<k, j>>
    BY <1>9, <2>0, <2>1
  <2>3. n + m - 1 <= ld
    BY <1>1, <2>2
  <2>4. ASSUME NEW j \in 1 .. m
        PROVE  d[n + j - 1] = <<k, j>>
    <3>1. n + j - 1 \in 1 .. ld /\ len + (n + j - 1) = (len + n) + j - 1
      BY <2>3
    <3> QED
      BY <1>3, <2>2, <3>1
  <2> QED
    BY <2>0, <2>3, <2>4
<1>6. Adjacent(d, packets, c)
  <2> SUFFICES ASSUME NEW n \in 1 .. ld, NEW k \in 1 .. c, d[n] = <<k, Len(packets[k])>>, n < ld
               PROVE  d[n + 1] = <<k + 1, 1>>
    BY <1>0 DEF Adjacent
  <2>1. b[len + n] = <<k, Len(packets[k])>> /\ len + n \in 1 .. lb
    BY <1>3
  <2>2. len + n < lb /\ n + 1 \in 1 .. ld /\ len + (n + 1) = (len + n) + 1
    BY <1>1
  <2>3. b[(len + n) + 1] = <<k + 1, 1>>
    BY <1>9, <2>1, <2>2
  <2> QED
    BY <1>3, <2>2, <2>3
<1>7. Owned(d, packets, c)
  <2> SUFFICES ASSUME NEW n \in 1 .. ld
               PROVE  \E k \in 1 .. c : \E j \in 1 .. Len(packets[k]) : d[n] = <<k, j>>
    BY <1>0 DEF Owned
  <2>1. d[n] = b[len + n] /\ len + n \in 1 .. lb
    BY <1>3
  <2>2. \E k \in 1 .. c : \E j \in 1 .. Len(packets[k]) : b[len + n] = <<k, j>>
    BY <1>9, <2>1
  <2> QED
    BY <2>1, <2>2
<1> QED
  BY <1>4, <1>5, <1>6, <1>7 DEF Aligned

\* Packets that are sent later change nothing.
LEMMA AlignedWithMorePackets ==
  ASSUME NEW packets, NEW more, Len(packets) \in Nat,
         NEW r \in Nat, NEW c \in Nat, c <= Len(packets), NEW b,
         \A k \in 1 .. Len(packets) : more[k] = packets[k],
         Aligned(b, packets, r, c)
  PROVE  Aligned(b, more, r, c)
<1>1. \A k \in 1 .. c : more[k] = packets[k]
  OBVIOUS
<1>2. Bounded(b, more, r, c)
  <2>1. b # <<>> => c \in 1 .. c
    BY DEF Aligned, Bounded
  <2> QED
    BY <1>1, <2>1 DEF Aligned, Bounded
<1>3. Owned(b, more, c)
  BY <1>1 DEF Aligned, Owned
<1>4. Whole(b, more, c)
  BY <1>1 DEF Aligned, Whole
<1>5. Adjacent(b, more, c)
  BY <1>1 DEF Aligned, Adjacent
<1> QED
  BY <1>2, <1>3, <1>4, <1>5 DEF Aligned

-----------------------------------------------------------------------------
(* The inductive invariant.                                                *)

\* The writes that have not been sent yet are those of the last packets, oldest first.
InFlight ==
    /\ Len(flight) <= Len(sent)
    /\ \A n \in 1 .. Len(flight) : flight[n] = Len(sent) - Len(flight) + n

\* The number of packets that TCP has been given.
Carried == Len(sent) - Len(flight)

\* The memory of a stream is never smaller than at first, and has been extended once what stands
\* between two names has been written.
Written ==
    /\ out.length = AllocLength \/ 2 * AllocLength <= out.length
    /\ out.named => HeadSize + out.since <= out.offset
    /\ WrittenInBounds

\* A sender that has waited has at most one write, which has not been sent or whose OnSend has run.
Waiting == ~overlapped =>
    /\ freed = {} /\ ~corrupt
    /\ flight = <<>> \/ (Len(flight) = 1 /\ acks = 0)

Held == Len(buffer_) <= internal
Stopped == closed = "overflow" => ~decoding

\* While nothing has been lost or cut off, the bytes in the buffer and under way are the packets that
\* have been carried and not been handed over.
Intact == ~corrupt /\ ~WrongHead /\ closed # "overflow"
InOrder == Intact => Aligned(buffer_ \o tcp, sent, Len(received), Carried)

\* A byte is one of a packet or of freed memory, also when bytes have been lost.
Known(b, count) == \A n \in 1 .. Len(b) : b[n][1] \in 0 .. count
AllKnown == Known(buffer_, Len(sent)) /\ Known(tcp, Len(sent))

\* What is left in the buffer before a read is less than the largest packet, if the heads are right.
AllShort == \A k \in 1 .. Len(sent) : Len(sent[k]) <= MaxInPacket
Small == ~corrupt /\ ~WrongHead /\ AllShort /\ ~decoding /\ closed = "no" => Len(buffer_) < MaxInPacket \/ buffer_ = <<>>

StreamInv ==
    /\ TypeOK /\ ArePackets(sent) /\ InFlight /\ Written /\ Waiting
    /\ Held /\ Stopped /\ AllKnown /\ InOrder /\ Small /\ ReadInBounds

LEMMA KnownConcat ==
  ASSUME NEW x \in Bytes, NEW y \in Bytes, NEW count \in Nat, Known(x, count), Known(y, count)
  PROVE  Known(x \o y, count)
<1>1. PICK z : z = x \o y
  OBVIOUS
<1>2. /\ Len(z) = Len(x) + Len(y) /\ Len(x) \in Nat /\ Len(y) \in Nat
      /\ \A n \in 1 .. Len(x) : z[n] = x[n]
      /\ \A n \in 1 .. Len(y) : z[Len(x) + n] = y[n]
  <2>2. /\ Len(x \o y) = Len(x) + Len(y)
        /\ \A n \in 1 .. Len(x) : (x \o y)[n] = x[n]
        /\ \A n \in 1 .. Len(y) : (x \o y)[Len(x) + n] = y[n]
    BY ConcatOfBytes, Zenon
  <2>3. Len(x) \in Nat /\ Len(y) \in Nat
    BY LenOfBytes
  <2> QED
    BY <1>1, <2>2, <2>3, Zenon
<1>3. ASSUME NEW n \in 1 .. Len(z) PROVE z[n][1] \in 0 .. count
  <2>1. CASE n <= Len(x)
    BY <1>2, <2>1 DEF Known
  <2>2. CASE n > Len(x)
    <3>1. n - Len(x) \in 1 .. Len(y) /\ n = Len(x) + (n - Len(x))
      BY <1>2, <2>2
    <3>2. z[n] = y[n - Len(x)]
      BY <1>2, <3>1
    <3> QED
      BY <3>1, <3>2 DEF Known
  <2> QED
    BY <1>2, <2>1, <2>2
<1> QED
  BY <1>1, <1>3, Zenon DEF Known

LEMMA KnownPieces ==
  ASSUME NEW b \in Bytes, NEW count \in Nat, Known(b, count), NEW n \in Nat, n <= Len(b)
  PROVE  Known(SubSeq(b, 1, n), count) /\ Known(SubSeq(b, n + 1, Len(b)), count)
<1>1. PICK x, y : x = SubSeq(b, 1, n) /\ y = SubSeq(b, n + 1, Len(b))
  OBVIOUS
<1>2. /\ Len(x) = n /\ \A j \in 1 .. n : x[j] = b[j]
      /\ Len(y) = Len(b) - n /\ \A j \in 1 .. Len(b) - n : y[j] = b[n + j]
      /\ Len(b) \in Nat
  BY <1>1, PiecesOfBytes, LenOfBytes, Zenon
<1>3. Known(x, count)
  BY <1>2 DEF Known
<1>4. Known(y, count)
  <2>1. \A j \in 1 .. Len(b) - n : n + j \in 1 .. Len(b)
    BY <1>2
  <2>2. \A j \in 1 .. Len(b) - n : b[n + j][1] \in 0 .. count
    BY <2>1 DEF Known
  <2>3. \A j \in 1 .. Len(b) - n : y[j][1] \in 0 .. count
    BY <1>2, <2>2
  <2> QED
    BY <1>2, <2>3 DEF Known
<1> QED
  BY <1>1, <1>3, <1>4, Zenon

LEMMA KnownLater ==
  ASSUME NEW b, NEW count \in Nat, NEW more \in Nat, count <= more, Known(b, count)
  PROVE  Known(b, more)
BY DEF Known

LEMMA InitInv == Init => StreamInv
<1> SUFFICES ASSUME Init PROVE StreamInv
  OBVIOUS
<1> USE DEF Init
<1>1. TypeOK
  <2>1. out \in [offset : Nat, length : Nat, named : BOOLEAN, since : Nat]
    BY StreamAssumption DEF Fresh, HeadSize
  <2>5. heads \in Seq(0 .. 2 * HalfRange - 1) /\ Len(heads) = Len(sent)
    OBVIOUS
  <2>2. /\ sent \in Seq(Seq(Nat \X Nat)) /\ received \in Seq(Seq(Nat \X Nat))
        /\ tcp \in Seq(Nat \X Nat) /\ buffer_ \in Seq(Nat \X Nat)
        /\ flight \in Seq(1 .. Len(sent))
    OBVIOUS
  <2>3. /\ release \subseteq 1 .. Len(sent) /\ freed \subseteq 1 .. Len(sent) /\ acks \in Nat
        /\ internal \in InternalLengths /\ closed \in {"no", "overflow", "length", "short"}
    OBVIOUS
  <2>4. overlapped \in BOOLEAN /\ corrupt \in BOOLEAN /\ decoding \in BOOLEAN
    BY Zenon
  <2> QED
    BY <2>1, <2>2, <2>3, <2>4, <2>5 DEF TypeOK
<1>2. Written /\ Waiting /\ Held /\ Stopped /\ Small /\ ReadInBounds
  BY <1>1, StreamAssumption
  DEF Written, WrittenInBounds, Fresh, HeadSize, Waiting, Held, Stopped, Small, ReadInBounds, TypeOK
<1>3. InFlight /\ ArePackets(sent) /\ AllKnown
  BY DEF InFlight, ArePackets, AllKnown, Known
<1>4. InOrder
  <2>1. /\ buffer_ \o tcp = <<>> /\ Len(buffer_ \o tcp) = 0 /\ Len(sent) = 0 /\ Carried = 0
        /\ Len(received) = 0
    BY DEF Carried
  <2>2. Aligned(<<>>, sent, 0, 0)
    BY DEF Aligned, Owned, Whole, Adjacent, Bounded
  <2> QED
    BY <2>1, <2>2 DEF InOrder
<1> QED
  BY <1>1, <1>2, <1>3, <1>4 DEF StreamInv

\* Extending the memory once is enough for a field that is not longer than it, and for one that
\* stands near the front of a stream.
LEMMA OnceIsEnough ==
  ASSUME NEW size \in Nat, NEW offset \in Nat, NEW length \in Nat, NEW alloc \in Nat,
         offset <= length, length = alloc \/ 2 * alloc <= length,
         size <= length \/ offset + size <= 2 * alloc,
         NEW more, IF offset + size > length THEN more = 2 * length ELSE more = length
  PROVE  more \in Nat /\ (more = alloc \/ 2 * alloc <= more) /\ offset + size <= more
OBVIOUS

\* One field, if it is as in OnceIsEnough.
LEMMA FieldInv ==
  ASSUME StreamInv, NEW n \in Nat, NEW isName \in BOOLEAN, Field(n, isName),
         n <= out.length \/ out.offset + n <= 2 * AllocLength
  PROVE  StreamInv'
<1> USE DEF StreamInv, Field, sender, receiver
<1>1. PICK offset \in Nat, length \in Nat, since \in Nat, alloc \in Nat :
        /\ offset = out.offset /\ length = out.length /\ since = out.since /\ alloc = AllocLength
        /\ HeadSize <= offset /\ offset <= length
        /\ length = alloc \/ 2 * alloc <= length
        /\ out.named \in BOOLEAN /\ (out.named => HeadSize + since <= offset)
  BY StreamAssumption DEF TypeOK, Written, WrittenInBounds
<1>2. PICK more \in Nat : /\ more = BufferIfShortReallocMemory(n)
                          /\ more = alloc \/ 2 * alloc <= more
                          /\ offset + n <= more
  <2>1. PICK more : more = BufferIfShortReallocMemory(n)
    OBVIOUS
  <2>2. IF offset + n > length THEN more = 2 * length ELSE more = length
    BY <1>1, <2>1 DEF BufferIfShortReallocMemory
  <2>3. n <= length \/ offset + n <= 2 * alloc
    BY <1>1
  <2>4. more \in Nat /\ (more = alloc \/ 2 * alloc <= more) /\ offset + n <= more
    <3>1. offset <= length /\ (length = alloc \/ 2 * alloc <= length)
      BY <1>1
    <3> HIDE <1>1, <2>1
    <3> QED
      BY <2>2, <2>3, <3>1, OnceIsEnough
  <2> QED
    BY <2>1, <2>4
<1>3. PICK named \in BOOLEAN, later \in Nat :
        /\ named = (out.named \/ isName) /\ later = IF isName THEN 0 ELSE since + n
        /\ named => HeadSize + later <= offset + n
  <2>1. PICK later \in Nat : later = IF isName THEN 0 ELSE since + n
    BY <1>1
  <2>2. out.named \/ isName => HeadSize + later <= offset + n
    <3>1. CASE isName
      <4>1. later = 0
        BY <2>1, <3>1
      <4> QED
        BY <1>1, <4>1 DEF HeadSize
    <3>2. CASE ~isName
      <4>1. later = since + n
        BY <2>1, <3>2
      <4>2. out.named => HeadSize + since <= offset
        BY <1>1
      <4>3. out.named => HeadSize + later <= offset + n
        BY <4>1, <4>2 DEF HeadSize
      <4> QED
        BY <3>2, <4>3, Zenon
    <3> QED
      BY <3>1, <3>2
  <2>3. (out.named \/ isName) \in BOOLEAN
    OBVIOUS
  <2> QED
    BY <2>1, <2>2, <2>3, Zenon
<1>4. out' = [offset |-> offset + n, length |-> more, named |-> named, since |-> later]
  BY <1>1, <1>2, <1>3
<1>4a. /\ out' \in [offset : Nat, length : Nat, named : BOOLEAN, since : Nat]
       /\ out'.offset = offset + n /\ out'.length = more /\ out'.named = named /\ out'.since = later
  BY <1>4
<1>5. TypeOK'
  BY <1>4a DEF TypeOK
<1>6. Written'
  <2>1. HeadSize <= offset + n
    BY <1>1 DEF HeadSize
  <2> QED
    BY <1>1, <1>2, <1>3, <1>4a, <2>1 DEF Written, WrittenInBounds
<1>7. InFlight' /\ Waiting' /\ Held' /\ Stopped' /\ AllKnown' /\ ArePackets(sent)'
  BY DEF InFlight, Waiting, Held, Stopped, AllKnown, Known, ArePackets
<1>8. InOrder' /\ Small' /\ ReadInBounds'
  BY DEF InOrder, Intact, WrongHead, Carried, Small, AllShort, ReadInBounds
<1> QED
  BY <1>5, <1>6, <1>7, <1>8

\* A field that is no name is not longer than the memory a stream starts with.
LEMMA WriteInv == ASSUME StreamInv, NEW n \in WriteSizes, Write(n) PROVE StreamInv'
<1>1. n \in Nat /\ n <= AllocLength /\ AllocLength \in Nat
  BY StreamAssumption
<1>2. n <= out.length
  BY <1>1 DEF StreamInv, Written, TypeOK
<1>3. Field(n, FALSE) /\ FALSE \in BOOLEAN
  BY DEF Write
<1> QED
  BY <1>1, <1>2, <1>3, FieldInv

\* A name may be longer.  The first one of a packet stands near its front; when another one is
\* written, what has been written since has extended the memory already.
LEMMA WriteNameInv == ASSUME StreamInv, NEW n \in NameSizes, WriteName(n) PROVE StreamInv'
<1>1. n \in Nat /\ AllocLength \in Nat /\ FirstName \in Nat /\ NameGap \in Nat
  BY StreamAssumption
<1>2. /\ out.offset \in Nat /\ out.length \in Nat /\ out.since \in Nat
      /\ out.length = AllocLength \/ 2 * AllocLength <= out.length
      /\ out.named => HeadSize + out.since <= out.offset
      /\ out.offset <= out.length
  BY DEF StreamInv, Written, WrittenInBounds, TypeOK
<1>3. Field(n, TRUE) /\ TRUE \in BOOLEAN
  BY DEF WriteName
<1>4. n <= out.length \/ out.offset + n <= 2 * AllocLength
  <2>1. CASE n <= AllocLength
    BY <1>1, <1>2, <2>1
  <2>2. CASE n > AllocLength
    <3>1. FirstName + n <= 2 * AllocLength /\ AllocLength < HeadSize + NameGap
      BY <2>2, StreamAssumption
    <3>2. CASE out.named
      <4>1. NameGap <= out.since
        BY <1>1, <1>2, <3>2 DEF WriteName
      <4>2. AllocLength < out.length
        BY <1>1, <1>2, <3>1, <3>2, <4>1 DEF HeadSize
      <4> QED
        BY <1>1, <1>2, <3>1, <4>2
    <3>3. CASE ~out.named
      <4>1. out.offset <= FirstName
        BY <3>3 DEF WriteName
      <4> QED
        BY <1>1, <1>2, <3>1, <4>1
    <3> QED
      BY <3>2, <3>3
  <2> QED
    BY <1>1, <2>1, <2>2
<1> QED
  BY <1>1, <1>3, <1>4, FieldInv

\* One packet more: whether a head is wrong.
LEMMA HeadsGrow ==
  ASSUME TypeOK, NEW packet \in Bytes, NEW head \in 0 .. 2 * HalfRange - 1,
         sent' = Append(sent, packet), heads' = Append(heads, head)
  PROVE  /\ heads' \in Seq(0 .. 2 * HalfRange - 1) /\ Len(heads') = Len(sent')
         /\ WrongHead' <=> WrongHead \/ head # Len(packet)
<1>0. PICK H : H = 0 .. 2 * HalfRange - 1
  OBVIOUS
<1>1. PICK count \in Nat :
        /\ count = Len(sent) /\ count = Len(heads)
        /\ sent \in Seq(Bytes) /\ heads \in Seq(H)
  <2>1. Len(sent) \in Nat /\ Len(sent) = Len(heads) /\ sent \in Seq(Bytes) /\ heads \in Seq(0 .. 2 * HalfRange - 1)
    BY DEF TypeOK, Bytes
  <2> QED
    BY <1>0, <2>1, Zenon
<1>2. /\ sent' \in Seq(Bytes) /\ Len(sent') = count + 1
      /\ \A k \in 1 .. count : sent'[k] = sent[k]
      /\ sent'[count + 1] = packet
  <2>1. /\ Append(sent, packet) \in Seq(Bytes) /\ Len(Append(sent, packet)) = Len(sent) + 1
        /\ \A k \in 1 .. Len(sent) : Append(sent, packet)[k] = sent[k]
        /\ Append(sent, packet)[Len(sent) + 1] = packet
    BY <1>1, AppendBytes
  <2> QED
    BY <1>1, <2>1, Zenon
<1>3. /\ heads' \in Seq(H) /\ Len(heads') = count + 1
      /\ \A k \in 1 .. count : heads'[k] = heads[k]
      /\ heads'[count + 1] = head
  <2>1. head \in H
    BY <1>0
  <2> QED
    BY <1>1, <2>1, AppendBytes
<1>4. DOMAIN sent = 1 .. count /\ DOMAIN sent' = 1 .. count + 1
  BY <1>1, <1>2
<1>5. ASSUME WrongHead PROVE WrongHead'
  <2>1. PICK k \in 1 .. count : heads[k] # Len(sent[k])
    BY <1>4, <1>5 DEF WrongHead
  <2>2. k \in 1 .. count + 1 /\ heads'[k] # Len(sent'[k])
    BY <1>2, <1>3, <2>1
  <2> QED
    BY <1>4, <2>2 DEF WrongHead
<1>6. ASSUME head # Len(packet) PROVE WrongHead'
  <2>1. count + 1 \in 1 .. count + 1
    BY <1>1
  <2> QED
    BY <1>2, <1>3, <1>4, <1>6, <2>1 DEF WrongHead
<1>7. ASSUME WrongHead', ~WrongHead PROVE head # Len(packet)
  <2>1. PICK k \in 1 .. count + 1 : heads'[k] # Len(sent'[k])
    BY <1>4, <1>7 DEF WrongHead
  <2>2. k \notin 1 .. count
    BY <1>2, <1>3, <1>4, <1>7, <2>1 DEF WrongHead
  <2>3. k = count + 1
    BY <2>2
  <2> QED
    BY <1>2, <1>3, <2>1, <2>3
<1> QED
  BY <1>0, <1>1, <1>2, <1>3, <1>5, <1>6, <1>7

LEMMA PostInv ==
  ASSUME StreamInv, NEW head \in 0 .. 2 * HalfRange - 1, Post(head) PROVE StreamInv'
<1> USE DEF Post, sender, receiver
<1>0. /\ TypeOK /\ ArePackets(sent) /\ InFlight /\ Written /\ Waiting
      /\ Held /\ Stopped /\ AllKnown /\ InOrder /\ Small /\ ReadInBounds
  BY DEF StreamInv
<1>1. PICK count \in Nat, waiting \in Nat, offset \in Nat :
        /\ count = Len(sent) /\ waiting = Len(flight) /\ offset = out.offset /\ HeadSize <= offset
        /\ waiting <= count
  BY <1>0 DEF TypeOK, Written, WrittenInBounds, InFlight
<1>2. PICK packet : packet = Packet(count + 1, offset)
  OBVIOUS
<1>3. /\ packet \in Bytes /\ Len(packet) = offset
      /\ \A j \in 1 .. offset : packet[j] = <<count + 1, j>>
  BY <1>2 DEF Packet, Bytes
<1>4. /\ sent' \in Seq(Bytes) /\ Len(sent') = count + 1
      /\ \A k \in 1 .. count : sent'[k] = sent[k]
      /\ sent'[count + 1] = packet
  <2>1. sent' = Append(sent, packet) /\ sent \in Seq(Bytes)
    BY <1>0, <1>1, <1>2 DEF TypeOK, Bytes
  <2> QED
    BY <1>1, <1>3, <2>1, AppendBytes
<1>5. /\ flight' \in Seq(1 .. Len(sent')) /\ Len(flight') = waiting + 1
      /\ \A n \in 1 .. waiting : flight'[n] = flight[n]
      /\ flight'[waiting + 1] = count + 1
  <2>1. flight' = Append(flight, count + 1) /\ flight \in Seq(1 .. count) /\ count + 1 \in 1 .. count + 1
    BY <1>0, <1>1 DEF TypeOK
  <2>2. flight \in Seq(1 .. count + 1)
    BY <2>1
  <2> QED
    BY <1>1, <1>4, <2>1, <2>2, AppendBytes
<1>5a. /\ heads' \in Seq(0 .. 2 * HalfRange - 1) /\ Len(heads') = Len(sent')
       /\ WrongHead => WrongHead'
  <2>1. sent' = Append(sent, packet) /\ heads' = Append(heads, head)
    BY <1>1, <1>2
  <2> QED
    BY <1>0, <1>3, <2>1, HeadsGrow
<1>6. TypeOK'
  <2>1. out' \in [offset : Nat, length : Nat, named : BOOLEAN, since : Nat]
    BY StreamAssumption DEF Fresh, HeadSize
  <2>2. release' \subseteq 1 .. Len(sent') /\ freed' \subseteq 1 .. Len(sent')
    <3>1. release \subseteq 1 .. count /\ freed \subseteq 1 .. count
      BY <1>0, <1>1 DEF TypeOK
    <3>2. release' = release \cup {count + 1} /\ freed' = freed
      BY <1>1
    <3>3. 1 .. Len(sent') = 1 .. count + 1
      BY <1>4
    <3>4. 1 .. count \subseteq 1 .. count + 1 /\ count + 1 \in 1 .. count + 1
      OBVIOUS
    <3> QED
      BY <3>1, <3>2, <3>3, <3>4, Zenon
  <2>3. overlapped' \in BOOLEAN
    OBVIOUS
  <2> QED
    BY <1>0, <1>4, <1>5, <1>5a, <2>1, <2>2, <2>3 DEF TypeOK, Bytes
<1>7. ArePackets(sent')
  <2> SUFFICES ASSUME NEW k \in 1 .. count + 1
               PROVE  /\ sent'[k] \in Bytes /\ Len(sent'[k]) >= HeadSize
                      /\ \A j \in 1 .. Len(sent'[k]) : sent'[k][j] = <<k, j>>
    BY <1>4 DEF ArePackets
  <2>1. CASE k = count + 1
    BY <1>1, <1>3, <1>4, <2>1
  <2>2. CASE k # count + 1
    BY <1>0, <1>1, <1>4, <2>2 DEF ArePackets
  <2> QED
    BY <2>1, <2>2
<1>8. InFlight'
  BY <1>0, <1>1, <1>4, <1>5 DEF InFlight
<1>9. Written'
  BY StreamAssumption DEF Written, WrittenInBounds, Fresh, HeadSize
<1>10. Waiting'
  <2> SUFFICES ASSUME ~overlapped'
               PROVE  freed' = {} /\ ~corrupt' /\ Len(flight') = 1 /\ acks' = 0
    BY DEF Waiting
  <2>1. ~overlapped /\ flight = <<>> /\ ~(acks > 0)
    BY Zenon
  <2>2. freed = {} /\ ~corrupt
    BY <1>0, <2>1 DEF Waiting
  <2>3. Len(flight') = 1 /\ acks' = 0
    BY <1>0, <1>1, <1>5, <2>1 DEF TypeOK
  <2> QED
    BY <2>2, <2>3
<1>11. Held' /\ Stopped' /\ AllKnown'
  <2>1. Known(buffer_, count + 1) /\ Known(tcp, count + 1)
    BY <1>0, <1>1, KnownLater DEF AllKnown
  <2> QED
    BY <1>0, <1>4, <2>1 DEF Held, Stopped, AllKnown
<1>12. Intact' => Intact
  BY <1>5a DEF Intact
<1>13. InOrder'
  <2> SUFFICES ASSUME Intact' PROVE Aligned(buffer_ \o tcp, sent', Len(received), Carried)
    BY <1>1, <1>4, <1>5 DEF InOrder, Carried
  <2>1. Aligned(buffer_ \o tcp, sent, Len(received), Carried)
    BY <1>0, <1>12 DEF InOrder
  <2>2. Len(received) \in Nat /\ Carried \in Nat /\ Carried <= Len(sent) /\ Len(sent) \in Nat
    <3>1. received \in Seq(Seq(Nat \X Nat))
      BY <1>0 DEF TypeOK
    <3>2. Len(received) \in Nat
      BY <3>1
    <3> QED
      BY <1>1, <3>2 DEF Carried
  <2>3. \A k \in 1 .. Len(sent) : sent'[k] = sent[k]
    BY <1>1, <1>4
  <2> QED
    BY <2>1, <2>2, <2>3, AlignedWithMorePackets
<1>14. Small'
  BY <1>0, <1>1, <1>4, <1>5a DEF Small, AllShort
<1>15. ReadInBounds'
  <2>1. DOMAIN sent = 1 .. count /\ DOMAIN sent' = 1 .. count + 1
    BY <1>0, <1>1, <1>4 DEF TypeOK
  <2> QED
    BY <1>0, <1>4, <1>5a, <2>1 DEF ReadInBounds
<1> QED
  BY <1>0, <1>6, <1>7, <1>8, <1>9, <1>10, <1>11, <1>13, <1>14, <1>15 DEF StreamInv

\* A head is a uint16_t, whoever wrote it.
LEMMA HeadOfPacket == ASSUME StreamInv PROVE MakePacketHead \in 0 .. 2 * HalfRange - 1
<1>1. PICK m \in Nat, offset \in Nat : m = 2 * HalfRange /\ m > 0 /\ offset = out.offset
  <2>1. 2 * HalfRange \in Nat /\ 2 * HalfRange > 0
    BY StreamAssumption
  <2>2. out.offset \in Nat
    BY DEF StreamInv, TypeOK
  <2> QED
    BY <2>1, <2>2, Zenon
<1>2. offset % m \in 0 .. m - 1
  BY <1>1
<1> QED
  BY <1>1, <1>2 DEF MakePacketHead

LEMMA SendInv == ASSUME StreamInv, Send PROVE StreamInv'
BY HeadOfPacket, PostInv DEF Send

LEMMA SendDeadInv == ASSUME StreamInv, NEW head \in StaleHeads, SendDead(head) PROVE StreamInv'
<1>1. head \in 0 .. 2 * HalfRange - 1
  BY StreamAssumption
<1> QED
  BY <1>1, PostInv DEF SendDead

LEMMA ConcatAssociates ==
  ASSUME NEW x \in Bytes, NEW y \in Bytes, NEW z \in Bytes
  PROVE  x \o (y \o z) = (x \o y) \o z
<1>1. PICK S : S = Nat \X Nat
  OBVIOUS
<1>2. x \in Seq(S) /\ y \in Seq(S) /\ z \in Seq(S)
  BY <1>1, Zenon DEF Bytes
<1> QED
  BY <1>2

\* A packet that TCP is given is behind the bytes that are under way.
LEMMA BehindTheOthers ==
  ASSUME NEW x \in Bytes, NEW y \in Bytes, NEW packet \in Bytes
  PROVE  Extended(x \o (y \o packet), x \o y, packet)
<1>1. PICK b \in Bytes : b = x \o y
  BY ConcatBytes DEF Bytes
<1>2. x \o (y \o packet) = b \o packet
  <2>1. x \o (y \o packet) = (x \o y) \o packet
    BY ConcatAssociates
  <2> QED
    BY <1>1, <2>1, Zenon
<1>3. /\ Len(b \o packet) = Len(b) + Len(packet)
      /\ \A n \in 1 .. Len(b) : (b \o packet)[n] = b[n]
      /\ \A n \in 1 .. Len(packet) : (b \o packet)[Len(b) + n] = packet[n]
  BY ConcatBytes DEF Bytes
<1>4. Extended(b \o packet, b, packet)
  BY <1>3, Zenon DEF Extended
<1> QED
  BY <1>1, <1>2, <1>4, Zenon

LEMMA OldestWrite ==
  ASSUME TypeOK, InFlight, flight # <<>>
  PROVE  /\ Len(flight) \in Nat \ {0} /\ Len(sent) \in Nat /\ Carried \in Nat
         /\ Carried + 1 \in 1 .. Len(sent) /\ Head(flight) = Carried + 1
         /\ Tail(flight) \in Seq(1 .. Len(sent)) /\ Len(Tail(flight)) = Len(flight) - 1
         /\ \A n \in 1 .. Len(Tail(flight)) : Tail(flight)[n] = flight[n + 1]
<1>1. flight \in Seq(1 .. Len(sent)) /\ Len(flight) \in Nat \ {0} /\ Len(sent) \in Nat
  BY DEF TypeOK
<1>2. Head(flight) = flight[1] /\ 1 \in 1 .. Len(flight)
  BY <1>1
<1>3. flight[1] = Len(sent) - Len(flight) + 1 /\ Len(flight) <= Len(sent)
  BY <1>2 DEF InFlight
<1> QED
  BY <1>1, <1>2, <1>3 DEF Carried

LEMMA AllGarbage ==
  ASSUME NEW packet \in Bytes
  PROVE  [j \in DOMAIN packet |-> Garbage] \in Bytes
<1>1. PICK n \in Nat : DOMAIN packet = 1 .. n
  BY DEF Bytes
<1>2. [j \in 1 .. n |-> Garbage] \in Seq(Nat \X Nat)
  BY DEF Garbage
<1> QED
  BY <1>1, <1>2, Zenon DEF Bytes

LEMMA TransmitInv == ASSUME StreamInv, Transmit PROVE StreamInv'
<1>0. /\ TypeOK /\ ArePackets(sent) /\ InFlight /\ Written /\ Waiting
      /\ Held /\ Stopped /\ AllKnown /\ InOrder /\ Small /\ ReadInBounds
  BY DEF StreamInv
<1>1. PICK k, packet : k = Head(flight) /\ packet = sent[k]
  OBVIOUS
<1>2. /\ flight # <<>> /\ flight' = Tail(flight) /\ freed' = freed \ {k} /\ acks' = acks + 1
      /\ \/ tcp' = tcp \o packet /\ corrupt' = corrupt
         \/ k \in freed /\ tcp' = tcp \o [j \in DOMAIN packet |-> Garbage] /\ corrupt' = TRUE
      /\ UNCHANGED <<out, sent, heads, release, overlapped, internal, buffer_, decoding, received, closed>>
  BY <1>1 DEF Transmit, receiver
<1>3. PICK c \in Nat, count \in Nat, waiting \in Nat :
        /\ c = Carried /\ count = Len(sent) /\ waiting = Len(flight) /\ c = count - waiting /\ waiting >= 1
        /\ k = c + 1 /\ k \in 1 .. count
        /\ flight' \in Seq(1 .. count) /\ Len(flight') = waiting - 1
        /\ \A n \in 1 .. waiting - 1 : flight'[n] = flight[n + 1]
  <2>1. /\ Len(flight) \in Nat \ {0} /\ Len(sent) \in Nat /\ Carried \in Nat
        /\ Carried + 1 \in 1 .. Len(sent) /\ k = Carried + 1
        /\ flight' \in Seq(1 .. Len(sent)) /\ Len(flight') = Len(flight) - 1
        /\ \A n \in 1 .. Len(flight') : flight'[n] = flight[n + 1]
    BY <1>0, <1>1, <1>2, OldestWrite
  <2>2. Carried = Len(sent) - Len(flight)
    BY DEF Carried
  <2>3. /\ Carried \in Nat /\ Len(sent) \in Nat /\ Len(flight) \in Nat
        /\ Carried = Len(sent) - Len(flight) /\ Len(flight) >= 1
        /\ k = Carried + 1 /\ k \in 1 .. Len(sent)
        /\ flight' \in Seq(1 .. Len(sent)) /\ Len(flight') = Len(flight) - 1
        /\ \A n \in 1 .. Len(flight) - 1 : flight'[n] = flight[n + 1]
    BY <2>1, <2>2
  <2> QED
    BY <2>3, Zenon
<1>4. packet \in Bytes /\ Len(packet) >= HeadSize
  BY <1>0, <1>1, <1>3 DEF ArePackets
<1>5. TypeOK'
  <2>1. tcp' \in Bytes
    <3>1. [j \in DOMAIN packet |-> Garbage] \in Bytes
      BY <1>4, AllGarbage
    <3>2. tcp \in Bytes
      BY <1>0 DEF TypeOK, Bytes
    <3>3. PICK last \in Bytes : tcp' = tcp \o last
      BY <1>2, <1>4, <3>1, Zenon
    <3> QED
      BY <3>2, <3>3, ConcatBytes DEF Bytes
  <2>2. corrupt' \in BOOLEAN
    BY <1>0, <1>2, Zenon DEF TypeOK
  <2>3. flight' \in Seq(1 .. Len(sent')) /\ acks' \in Nat
    BY <1>0, <1>2, <1>3 DEF TypeOK
  <2>4. freed' \subseteq 1 .. Len(sent')
    BY <1>0, <1>2, Zenon DEF TypeOK
  <2> QED
    BY <1>0, <1>2, <2>1, <2>2, <2>3, <2>4 DEF TypeOK, Bytes
<1>6. InFlight'
  <2>1. /\ Len(flight) = waiting /\ Len(sent') = count /\ Len(sent) = count
        /\ \A n \in 1 .. waiting : flight[n] = count - waiting + n
    BY <1>0, <1>2, <1>3 DEF InFlight
  <2>2. \A n \in 1 .. waiting - 1 : flight'[n] = count - (waiting - 1) + n
    BY <1>3, <2>1
  <2> QED
    BY <1>3, <2>1, <2>2 DEF InFlight
<1>7. Waiting'
  <2> SUFFICES ASSUME ~overlapped'
               PROVE  freed' = {} /\ ~corrupt' /\ flight' = <<>>
    BY DEF Waiting
  <2>1. ~overlapped
    BY <1>2
  <2>2. freed = {} /\ ~corrupt /\ (flight = <<>> \/ Len(flight) = 1)
    BY <1>0, <2>1, Zenon DEF Waiting
  <2>3. Len(flight') = 0
    BY <1>2, <1>3, <2>2
  <2>4. flight' = <<>>
    BY <1>3, <2>3
  <2>5. ~corrupt' /\ freed' = {}
    BY <1>2, <2>2
  <2> QED
    BY <2>4, <2>5
<1>8. InOrder'
  <2> SUFFICES ASSUME Intact'
               PROVE  Aligned(buffer_ \o tcp', sent, Len(received), c + 1)
    BY <1>2, <1>3 DEF InOrder, Carried
  <2>1. Intact /\ tcp' = tcp \o packet
    <3>1. ~corrupt' /\ ~WrongHead' /\ closed' # "overflow"
      BY Zenon DEF Intact
    <3>2. tcp' = tcp \o packet /\ corrupt' = corrupt
      BY <1>2, <3>1, Zenon
    <3>3. WrongHead' <=> WrongHead
      BY <1>2 DEF WrongHead
    <3>4. closed' = closed
      BY <1>2
    <3> QED
      BY <3>1, <3>2, <3>3, <3>4, Zenon DEF Intact
  <2>2. Aligned(buffer_ \o tcp, sent, Len(received), c)
    BY <1>0, <1>3, <2>1 DEF InOrder
  <2>3. buffer_ \in Bytes /\ tcp \in Bytes /\ Len(received) \in Nat
    BY <1>0 DEF TypeOK, Bytes
  <2>4. PICK b, d : b = buffer_ \o tcp /\ d = buffer_ \o tcp'
    OBVIOUS
  <2>5. b \in Bytes /\ d \in Bytes /\ Extended(d, b, sent[c + 1])
    <3>1. Extended(d, b, packet)
      BY <1>4, <2>1, <2>3, <2>4, BehindTheOthers
    <3>2. b \in Bytes /\ tcp' \in Bytes
      BY <1>4, <2>1, <2>3, <2>4, ConcatBytes DEF Bytes
    <3>3. d \in Bytes
      BY <2>3, <2>4, <3>2, ConcatBytes DEF Bytes
    <3> QED
      BY <1>1, <1>3, <3>1, <3>2, <3>3
  <2>6. c < Len(sent) /\ Len(sent) \in Nat
    BY <1>3
  <2>7. Aligned(b, sent, Len(received), c)
    BY <2>2, <2>4
  <2>8. Aligned(d, sent, Len(received), c + 1)
    BY <1>0, <2>3, <2>5, <2>6, <2>7, AlignedWithOneMore
  <2> QED
    BY <2>4, <2>8
<1>9. Written' /\ Held' /\ Stopped' /\ ArePackets(sent)'
  BY <1>0, <1>2 DEF Written, WrittenInBounds, Held, Stopped, ArePackets
<1>11. AllKnown'
  <2>1. Known(packet, count)
    <3>1. \A j \in 1 .. Len(packet) : packet[j] = <<k, j>>
      BY <1>0, <1>1, <1>3 DEF ArePackets
    <3> QED
      BY <1>3, <3>1 DEF Known
  <2>2. [j \in DOMAIN packet |-> Garbage] \in Bytes /\ Known([j \in DOMAIN packet |-> Garbage], count)
    <3>1. [j \in DOMAIN packet |-> Garbage] \in Bytes
      BY <1>4, AllGarbage
    <3>2. PICK garbage : garbage = [j \in DOMAIN packet |-> Garbage]
      OBVIOUS
    <3>3. \A n \in 1 .. Len(garbage) : garbage[n] = <<0, 0>>
      BY <3>1, <3>2 DEF Bytes, Garbage
    <3>4. Known(garbage, count)
      BY <1>3, <3>3 DEF Known
    <3> QED
      BY <3>1, <3>2, <3>4, Zenon
  <2>3. PICK last \in Bytes : tcp' = tcp \o last /\ Known(last, count)
    BY <1>2, <1>4, <2>1, <2>2, Zenon
  <2>4. tcp \in Bytes /\ Known(tcp, count) /\ Known(buffer_, count)
    BY <1>0, <1>3 DEF TypeOK, Bytes, AllKnown
  <2>5. Known(tcp', count)
    BY <2>3, <2>4, KnownConcat
  <2> QED
    BY <1>2, <1>3, <2>4, <2>5 DEF AllKnown
<1>10. Small' /\ ReadInBounds'
  <2>1. corrupt => corrupt'
    BY <1>2, Zenon
  <2> QED
    BY <1>0, <1>2, <2>1 DEF Small, AllShort, ReadInBounds, WrongHead
<1> QED
  BY <1>5, <1>6, <1>7, <1>8, <1>9, <1>10, <1>11 DEF StreamInv

LEMMA OnSendInv == ASSUME StreamInv, OnSend PROVE StreamInv'
<1>0. /\ TypeOK /\ ArePackets(sent) /\ InFlight /\ Written /\ Waiting
      /\ Held /\ Stopped /\ AllKnown /\ InOrder /\ Small /\ ReadInBounds
  BY DEF StreamInv
<1>1. /\ acks > 0 /\ acks' = acks - 1 /\ release' = {}
      /\ freed' = freed \cup {k \in release : \E n \in DOMAIN flight : flight[n] = k}
      /\ UNCHANGED <<out, sent, heads, flight, overlapped, corrupt, tcp, internal, buffer_, decoding, received, closed>>
  BY DEF OnSend, receiver
<1>2. TypeOK'
  <2>1. freed' \subseteq 1 .. Len(sent')
    <3>1. release \subseteq 1 .. Len(sent) /\ freed \subseteq 1 .. Len(sent) /\ sent' = sent
      BY <1>0, <1>1 DEF TypeOK
    <3>2. freed' \subseteq freed \cup release
      BY <1>1
    <3> QED
      BY <3>1, <3>2, Zenon
  <2>2. acks' \in Nat
    BY <1>0, <1>1 DEF TypeOK
  <2> QED
    BY <1>0, <1>1, <2>1, <2>2 DEF TypeOK
<1>3. Waiting'
  <2> SUFFICES ASSUME ~overlapped
               PROVE  freed' = {} /\ ~corrupt /\ flight = <<>>
    BY <1>1 DEF Waiting
  <2>1. freed = {} /\ ~corrupt /\ flight = <<>>
    BY <1>0, <1>1 DEF Waiting
  <2> QED
    BY <1>1, <2>1
<1>4. InFlight' /\ Written' /\ Held' /\ Stopped' /\ AllKnown' /\ ArePackets(sent)'
  BY <1>0, <1>1 DEF InFlight, Written, WrittenInBounds, Held, Stopped, AllKnown, ArePackets
<1>5. InOrder' /\ Small' /\ ReadInBounds'
  BY <1>0, <1>1 DEF InOrder, Intact, WrongHead, Carried, Small, AllShort, ReadInBounds
<1> QED
  BY <1>2, <1>3, <1>4, <1>5 DEF StreamInv

-----------------------------------------------------------------------------
(* What the receiver sees.                                                 *)

\* A length that its uint16_t holds is read as it is if it is not negative.
LEMMA SignedLength ==
  ASSUME NEW length \in Nat, length < 2 * HalfRange
  PROVE  Signed(length) = IF length < HalfRange THEN length ELSE length - 2 * HalfRange
<1>1. length % (2 * HalfRange) = length
  BY StreamAssumption
<1> QED
  BY <1>1 DEF Signed

LEMMA SignedIsInteger ==
  ASSUME NEW length \in Nat
  PROVE  Signed(length) \in Int
<1>1. PICK m \in Nat : m = 2 * HalfRange /\ m > 0
  BY StreamAssumption
<1>2. length % m \in Int
  BY <1>1
<1> QED
  BY <1>1, <1>2 DEF Signed

\* A head is a uint16_t.
LEMMA HeadsTyped == ASSUME TypeOK, NEW k \in 1 .. Len(sent) PROVE heads[k] \in 0 .. 2 * HalfRange - 1
<1>1. PICK H : H = 0 .. 2 * HalfRange - 1
  OBVIOUS
<1>2. heads \in Seq(H) /\ k \in 1 .. Len(heads)
  BY <1>1, Zenon DEF TypeOK
<1>3. heads[k] \in H
  BY <1>2
<1> QED
  BY <1>1, <1>3

\* The head in front of the buffer is the length of the next packet, and if the buffer has that many
\* bytes they are the packet.
LEMMA NextPacket ==
  ASSUME StreamInv, Intact, Len(buffer_) >= 1
  PROVE  /\ Len(received) + 1 \in 1 .. Len(sent)
         /\ Len(sent[Len(received) + 1]) \in 2 .. 2 * HalfRange - 1
         /\ GetHead = {Signed(Len(sent[Len(received) + 1]))}
         /\ Len(sent[Len(received) + 1]) <= Len(buffer_) =>
              SubSeq(buffer_, 1, Len(sent[Len(received) + 1])) = sent[Len(received) + 1]
<1>1. TypeOK /\ ArePackets(sent) /\ InFlight /\ Aligned(buffer_ \o tcp, sent, Len(received), Carried)
  BY DEF StreamInv, InOrder
<1>2. PICK b, r, c : b = buffer_ \o tcp /\ r = Len(received) /\ c = Carried
  OBVIOUS
<1>2a. PICK k : k = r + 1
  OBVIOUS
<1>3. /\ buffer_ \in Bytes /\ tcp \in Bytes /\ r \in Nat /\ c \in Nat /\ c <= Len(sent) /\ Len(sent) \in Nat
  <2>1. buffer_ \in Bytes /\ tcp \in Bytes /\ r \in Nat /\ Len(sent) \in Nat /\ Len(flight) \in Nat
    BY <1>1, <1>2 DEF TypeOK, Bytes
  <2>2. Len(flight) <= Len(sent) /\ c = Len(sent) - Len(flight)
    BY <1>1, <1>2 DEF InFlight, Carried
  <2> QED
    BY <2>1, <2>2
<1>4. /\ b \in Bytes /\ Len(b) = Len(buffer_) + Len(tcp)
      /\ \A n \in 1 .. Len(buffer_) : b[n] = buffer_[n]
  BY <1>2, <1>3, ConcatBytes DEF Bytes
<1>5. b # <<>>
  BY <1>3, <1>4, LenOfBytes
<1>6. Aligned(b, sent, r, c)
  BY <1>1, <1>2
<1>7. /\ k \in 1 .. c /\ Len(sent[k]) \in Nat /\ 2 <= Len(sent[k]) /\ b[1] = <<k, 1>>
      /\ \A j \in 1 .. Len(sent[k]) : b[j] = <<k, j>>
  <2>1. /\ r + 1 \in 1 .. c /\ Len(sent[r + 1]) \in Nat /\ 2 <= Len(sent[r + 1])
        /\ b[1] = <<r + 1, 1>>
        /\ \A j \in 1 .. Len(sent[r + 1]) : b[j] = <<r + 1, j>>
    <3>1. ArePackets(sent) /\ b \in Bytes
      BY <1>1, <1>4
    <3> HIDE <1>2
    <3> QED
      BY <1>3, <1>5, <1>6, <3>1, FirstIsThere
  <2> QED
    BY <1>2a, <2>1, Zenon
<1>8. k \in 1 .. Len(sent) /\ k > 0
  BY <1>3, <1>7
<1>9. heads[k] = Len(sent[k]) /\ Len(sent[k]) < 2 * HalfRange
  <2>1. k \in DOMAIN sent /\ k \in DOMAIN heads
    BY <1>1, <1>8 DEF TypeOK
  <2>2. heads[k] = Len(sent[k])
    BY <2>1 DEF Intact, WrongHead
  <2>3. heads[k] \in 0 .. 2 * HalfRange - 1
    BY <1>1, <1>8, HeadsTyped
  <2> QED
    BY <1>7, <2>2, <2>3, StreamAssumption
<1>10. GetHead = {Signed(Len(sent[k]))}
  <2>1. buffer_[1] = <<k, 1>>
    BY <1>3, <1>4, <1>7, LenOfBytes
  <2>2. buffer_[1][1] = k /\ buffer_[1][2] = 1
    BY <2>1
  <2>3. GetHead = {Signed(heads[k])}
    BY <1>8, <2>2, Zenon DEF GetHead
  <2> QED
    BY <1>9, <2>3, Zenon
<1>11. ASSUME Len(sent[k]) <= Len(buffer_)
       PROVE  SubSeq(buffer_, 1, Len(sent[k])) = sent[k]
  <2>1. PICK m \in Nat : m = Len(sent[k]) /\ m <= Len(buffer_)
    BY <1>7, <1>11
  <2>2. PICK piece : piece = SubSeq(buffer_, 0 + 1, m)
    OBVIOUS
  <2>3. /\ piece \in Bytes /\ Len(piece) = m
        /\ \A j \in 1 .. m : piece[j] = buffer_[j]
    <3>1. /\ piece \in Seq(Nat \X Nat) /\ Len(piece) = m - 0
          /\ \A j \in 1 .. m - 0 : piece[j] = buffer_[0 + j]
      <4>1. 0 \in Nat /\ 0 <= m /\ buffer_ \in Seq(Nat \X Nat)
        BY <1>3, <2>1 DEF Bytes
      <4>2. /\ SubSeq(buffer_, 0 + 1, m) \in Seq(Nat \X Nat) /\ Len(SubSeq(buffer_, 0 + 1, m)) = m - 0
            /\ \A j \in 1 .. m - 0 : SubSeq(buffer_, 0 + 1, m)[j] = buffer_[0 + j]
        BY <2>1, <4>1, SubSeqBytes
      <4> QED
        BY <2>2, <4>2, Zenon
    <3> QED
      BY <2>1, <3>1 DEF Bytes
  <2>4. \A j \in 1 .. m : piece[j] = <<k, j>>
    BY <1>3, <1>4, <1>7, <2>1, <2>3, LenOfBytes
  <2>5. /\ sent[k] \in Bytes /\ \A j \in 1 .. m : sent[k][j] = <<k, j>>
    BY <1>1, <1>8, <2>1 DEF ArePackets
  <2>6. piece = sent[k]
    <3>1. PICK p : p = sent[k]
      OBVIOUS
    <3>2. p \in Bytes /\ Len(p) = m /\ \A j \in 1 .. m : p[j] = <<k, j>>
      BY <2>1, <2>5, <3>1, Zenon
    <3>3. Len(piece) = Len(p) /\ \A j \in 1 .. Len(piece) : piece[j] = p[j]
      BY <2>3, <2>4, <3>2
    <3>4. PICK S : S = Nat \X Nat
      OBVIOUS
    <3>5. piece \in Seq(S) /\ p \in Seq(S)
      BY <2>3, <3>2, <3>4, Zenon DEF Bytes
    <3>6. piece = p
      BY <3>3, <3>5, SameBytes
    <3> QED
      BY <3>1, <3>6, Zenon
  <2> QED
    BY <2>1, <2>2, <2>6
<1>12. Len(sent[k]) \in 2 .. 2 * HalfRange - 1
  BY <1>7, <1>9, StreamAssumption
<1>13. k = Len(received) + 1
  BY <1>2, <1>2a, Zenon
<1> QED
  BY <1>8, <1>10, <1>11, <1>12, <1>13, Zenon

LEMMA ReceiveInv ==
  ASSUME StreamInv, NEW n \in 1 .. RecvLength, Receive(n) PROVE StreamInv'
<1>0. /\ TypeOK /\ ArePackets(sent) /\ InFlight /\ Written /\ Waiting
      /\ Held /\ Stopped /\ AllKnown /\ InOrder /\ Small /\ ReadInBounds
  BY DEF StreamInv
<1>1. /\ closed = "no" /\ ~decoding /\ n <= RecvLength /\ n <= Len(tcp)
      /\ tcp' = SubSeq(tcp, n + 1, Len(tcp))
      /\ UNCHANGED <<out, sent, heads, flight, release, freed, acks, overlapped, corrupt, internal, received>>
  BY DEF Receive, sender
<1>2. /\ n \in Nat /\ n >= 1 /\ buffer_ \in Bytes /\ tcp \in Bytes /\ Len(buffer_) \in Nat /\ Len(tcp) \in Nat
      /\ internal \in Nat /\ RecvLength \in Nat /\ MaxInPacket \in Nat
  BY <1>0, StreamAssumption DEF TypeOK, Bytes
<1>3. PICK piece : piece = SubSeq(tcp, 1, n)
  OBVIOUS
<1>4. tcp' \in Bytes /\ piece \in Bytes /\ Len(piece) = n
  <2>1. tcp' \in Bytes
    BY <1>1, <1>2, PiecesOfBytes
  <2> QED
    BY <1>1, <1>2, <1>3, <2>1, PiecesOfBytes
<1>5. \/ /\ Fits(n) /\ buffer_' = buffer_ \o piece /\ decoding' = TRUE /\ closed' = "no"
      \/ /\ ~Fits(n) /\ closed' = "overflow" /\ buffer_' = buffer_ /\ decoding' = FALSE
  <2>1. decoding = FALSE
    BY <1>0, <1>1 DEF TypeOK
  <2> QED
    BY <1>1, <1>3, <2>1 DEF Receive
<1>6. buffer_' \in Bytes /\ Len(buffer_') <= internal /\ decoding' \in BOOLEAN
      /\ closed' \in {"no", "overflow"} /\ (decoding' => closed' = "no") /\ (closed' = "no" => decoding')
  <2>1. CASE Fits(n) /\ buffer_' = buffer_ \o piece /\ decoding' = TRUE /\ closed' = "no"
    <3>1. buffer_' \in Bytes /\ Len(buffer_') = Len(buffer_) + n
      BY <1>2, <1>4, <2>1, ConcatBytes DEF Bytes
    <3> QED
      BY <2>1, <3>1 DEF Fits
  <2>2. CASE ~Fits(n) /\ closed' = "overflow" /\ buffer_' = buffer_ /\ decoding' = FALSE
    BY <1>0, <1>2, <2>2 DEF Held
  <2> QED
    BY <1>5, <2>1, <2>2
<1>7. TypeOK'
  <2>1. tcp' \in Seq(Nat \X Nat) /\ buffer_' \in Seq(Nat \X Nat)
    BY <1>4, <1>6 DEF Bytes
  <2>2. closed' \in {"no", "overflow", "length", "short"}
    BY <1>6
  <2> QED
    BY <1>0, <1>1, <1>6, <2>1, <2>2 DEF TypeOK
<1>8. ArePackets(sent)' /\ InFlight' /\ Written' /\ Waiting'
  BY <1>0, <1>1 DEF ArePackets, InFlight, Written, WrittenInBounds, Waiting
<1>9. Held' /\ Stopped' /\ Small'
  BY <1>1, <1>6 DEF Held, Stopped, Small
<1>12. AllKnown'
  <2>1. Len(sent) \in Nat /\ Known(buffer_, Len(sent)) /\ Known(tcp, Len(sent))
    BY <1>0 DEF AllKnown, TypeOK
  <2>2. Known(piece, Len(sent)) /\ Known(tcp', Len(sent))
    BY <1>1, <1>2, <1>3, <2>1, KnownPieces
  <2>3. Known(buffer_ \o piece, Len(sent))
    BY <1>2, <1>4, <2>1, <2>2, KnownConcat
  <2>4. buffer_' = buffer_ \/ buffer_' = buffer_ \o piece
    BY <1>5
  <2>5. Known(buffer_', Len(sent))
    BY <2>1, <2>3, <2>4, Zenon
  <2> QED
    BY <1>1, <2>2, <2>5 DEF AllKnown
<1>10. InOrder'
  <2> SUFFICES ASSUME Intact' PROVE Aligned(buffer_' \o tcp', sent, Len(received), Carried)
    BY <1>1 DEF InOrder, Carried
  <2>1. Intact /\ buffer_' = buffer_ \o piece
    BY <1>1, <1>5 DEF Intact, WrongHead
  <2>2. buffer_' \o tcp' = buffer_ \o tcp
    <3>1. (buffer_ \o SubSeq(tcp, 1, n)) \o SubSeq(tcp, n + 1, Len(tcp)) = buffer_ \o tcp
      BY <1>1, <1>2, MovePiece DEF Bytes
    <3> QED
      BY <1>1, <1>3, <2>1, <3>1, Zenon
  <2> QED
    BY <1>0, <2>1, <2>2 DEF InOrder
<1>11. ReadInBounds'
  <2> SUFFICES ASSUME closed' = "overflow", ~corrupt, ~WrongHead, \A k \in DOMAIN sent : Len(sent[k]) <= MaxInPacket
               PROVE  internal < MaxInPacket - 1 + RecvLength
    <3>1. (\A k \in DOMAIN sent : Len(sent[k]) <= MaxInPacket) \/ (\E k \in DOMAIN sent : Len(sent[k]) > MaxInPacket)
      <4>1. \A k \in DOMAIN sent : Len(sent[k]) \in Nat
        BY <1>0 DEF TypeOK
      <4> QED
        BY <1>2, <4>1
    <3> QED
      BY <1>1, <3>1 DEF ReadInBounds, WrongHead
  <2>1. ~Fits(n)
    BY <1>5
  <2>2. internal < Len(buffer_) + n
    BY <1>2, <2>1 DEF Fits
  <2>3. AllShort
    <3>1. DOMAIN sent = 1 .. Len(sent)
      BY <1>0 DEF TypeOK
    <3> QED
      BY <3>1 DEF AllShort
  <2>4. Len(buffer_) < MaxInPacket \/ buffer_ = <<>>
    BY <1>0, <1>1, <2>3 DEF Small
  <2>5. MaxInPacket >= 2
    <3>1. Aligned(buffer_ \o tcp, sent, Len(received), Carried)
      BY <1>0, <1>1, <2>3 DEF InOrder, Intact
    <3>2. PICK b, r, c : b = buffer_ \o tcp /\ r = Len(received) /\ c = Carried
      OBVIOUS
    <3>3. r \in Nat /\ c \in Nat /\ c <= Len(sent) /\ Len(sent) \in Nat
      BY <1>0, <3>2 DEF TypeOK, InFlight, Carried
    <3>4. b \in Bytes /\ Len(b) = Len(buffer_) + Len(tcp)
      BY <1>2, <3>2, ConcatBytes DEF Bytes
    <3>5. b # <<>>
      BY <1>1, <1>2, <3>4, LenOfBytes
    <3>6. r + 1 \in 1 .. c /\ Len(sent[r + 1]) \in Nat /\ 2 <= Len(sent[r + 1])
      BY <1>0, <3>1, <3>2, <3>3, <3>4, <3>5, FirstIsThere
    <3>7. r + 1 \in 1 .. Len(sent)
      BY <3>3, <3>6
    <3> QED
      BY <1>2, <2>3, <3>6, <3>7 DEF AllShort
  <2>6. Len(buffer_) <= MaxInPacket - 1
    BY <1>2, <2>4, <2>5
  <2> QED
    BY <1>1, <1>2, <2>2, <2>6
<1> QED
  BY <1>7, <1>8, <1>9, <1>10, <1>11, <1>12 DEF StreamInv

LEMMA WaitInv == ASSUME StreamInv, Wait PROVE StreamInv'
<1>0. /\ TypeOK /\ ArePackets(sent) /\ InFlight /\ Written /\ Waiting
      /\ Held /\ Stopped /\ AllKnown /\ InOrder /\ Small /\ ReadInBounds
  BY DEF StreamInv
<1>1. /\ decoding /\ decoding' = FALSE
      /\ UNCHANGED <<out, sent, heads, flight, release, freed, acks, overlapped, corrupt,
                     tcp, internal, buffer_, received, closed>>
  BY DEF Wait, sender
<1>2. TypeOK'
  BY <1>0, <1>1 DEF TypeOK
<1>3. ArePackets(sent)' /\ InFlight' /\ Written' /\ Waiting' /\ Held' /\ Stopped' /\ AllKnown'
  BY <1>0, <1>1 DEF ArePackets, InFlight, Written, WrittenInBounds, Waiting, Held, Stopped, AllKnown
<1>4. InOrder' /\ ReadInBounds'
  BY <1>0, <1>1 DEF InOrder, Intact, WrongHead, Carried, ReadInBounds
<1>5. Small'
  <2> SUFFICES ASSUME ~corrupt, ~WrongHead, AllShort, closed = "no", buffer_ # <<>>
               PROVE  Len(buffer_) < MaxInPacket
    BY <1>1 DEF Small, AllShort, WrongHead
  <2>1. Len(buffer_) \in Nat /\ Len(buffer_) >= 1
    BY <1>0 DEF TypeOK
  <2>2. Intact
    BY DEF Intact
  <2>3. PICK k, m : k = Len(received) + 1 /\ m = Len(sent[Len(received) + 1])
    OBVIOUS
  <2>4. /\ k \in 1 .. Len(sent) /\ m \in 2 .. 2 * HalfRange - 1 /\ GetHead = {Signed(m)}
    BY <2>1, <2>2, <2>3, NextPacket, Zenon
  <2>5. m <= MaxInPacket /\ m \in Nat /\ MaxInPacket \in Nat
    BY <2>3, <2>4, StreamAssumption DEF AllShort
  <2>6. Signed(m) = m
    BY <2>4, <2>5, SignedLength, StreamAssumption
  <2>7. Len(buffer_) < 2 \/ Len(buffer_) < m
    BY <1>1, <2>4, <2>5, <2>6 DEF Wait, HeadSize
  <2> QED
    BY <2>1, <2>4, <2>5, <2>7
<1> QED
  BY <1>2, <1>3, <1>4, <1>5 DEF StreamInv

LEMMA BadLengthInv == ASSUME StreamInv, BadLength PROVE StreamInv'
<1>0. /\ TypeOK /\ ArePackets(sent) /\ InFlight /\ Written /\ Waiting
      /\ Held /\ Stopped /\ AllKnown /\ InOrder /\ Small /\ ReadInBounds
  BY DEF StreamInv
<1>1. /\ decoding /\ decoding' = FALSE /\ closed' = "length"
      /\ UNCHANGED <<out, sent, heads, flight, release, freed, acks, overlapped, corrupt,
                     tcp, internal, buffer_, received>>
  BY DEF BadLength, sender
<1>2. TypeOK'
  BY <1>0, <1>1 DEF TypeOK
<1>3. ArePackets(sent)' /\ InFlight' /\ Written' /\ Waiting' /\ Held' /\ Stopped' /\ AllKnown'
  BY <1>0, <1>1 DEF ArePackets, InFlight, Written, WrittenInBounds, Waiting, Held, Stopped, AllKnown
<1>4. closed # "overflow"
  BY <1>0, <1>1 DEF Stopped
<1>5. InOrder' /\ ReadInBounds' /\ Small'
  BY <1>0, <1>1, <1>4 DEF InOrder, Intact, WrongHead, Carried, ReadInBounds, Small
<1> QED
  BY <1>2, <1>3, <1>5 DEF StreamInv

\* What Decode cuts out of the buffer.
LEMMA PacketIsCut ==
  ASSUME TypeOK, AllKnown, NEW read \in ReadSizes, Decode(read)
  PROVE  \E head \in 1 .. Len(buffer_) :
           /\ head \in GetHead /\ head <= MaxInPacket
           /\ received' = Append(received, SubSeq(buffer_, 1, head))
           /\ buffer_' = SubSeq(buffer_, head + 1, Len(buffer_))
           /\ decoding' = (head > HeadSize)
           /\ closed' = IF ReadsBeyond(head, read) THEN "short" ELSE closed
<1>1. PICK head \in GetHead :
         /\ 1 <= head /\ head <= MaxInPacket /\ head <= Len(buffer_)
         /\ received' = Append(received, SubSeq(buffer_, 1, head))
         /\ buffer_' = SubSeq(buffer_, head + 1, Len(buffer_))
         /\ decoding' = (head > HeadSize)
         /\ closed' = IF ReadsBeyond(head, read) THEN "short" ELSE closed
  BY DEF Decode, MarkReadIndex
<1>2. head \in Int
  <2>1. Len(buffer_) \in Nat /\ MaxInPacket \in Nat /\ HalfRange \in Nat
    BY StreamAssumption DEF TypeOK
  <2>2. PICK k : k = buffer_[1][1]
    OBVIOUS
  <2>3. CASE k > 0 /\ buffer_[1][2] = 1
    <3>1. head = Signed(heads[k])
      BY <2>2, <2>3, Zenon DEF GetHead
    <3>2. Len(buffer_) >= 1
      BY <2>1 DEF Decode, HeadSize
    <3>3. buffer_[1][1] \in 0 .. Len(sent)
      BY <2>1, <3>2 DEF AllKnown, Known
    <3>4. k \in 1 .. Len(sent)
      BY <2>2, <2>3, <3>3
    <3>5. heads[k] \in Nat
      <4>1. heads[k] \in 0 .. 2 * HalfRange - 1
        BY <3>4, HeadsTyped
      <4> QED
        BY <4>1
    <3>6. Signed(heads[k]) \in Int
      BY <3>5, SignedIsInteger
    <3> QED
      BY <3>1, <3>6
  <2>4. CASE ~(k > 0 /\ buffer_[1][2] = 1)
    <3>1. head \in -1 .. MaxInPacket + 1
      BY <2>2, <2>4, Zenon DEF GetHead
    <3> QED
      BY <2>1, <3>1
  <2> QED
    BY <2>3, <2>4
<1>3. head \in 1 .. Len(buffer_)
  BY <1>1, <1>2 DEF TypeOK
<1> QED
  BY <1>1, <1>3, Zenon

\* Until the connection is no longer intact, it is the packet that comes next.
LEMMA CutPacketIsNext ==
  ASSUME StreamInv, Intact, NEW head \in 1 .. Len(buffer_), head \in GetHead, head <= MaxInPacket
  PROVE  /\ Len(received) + 1 \in 1 .. Len(sent)
         /\ head = Len(sent[Len(received) + 1])
         /\ SubSeq(buffer_, 1, head) = sent[Len(received) + 1]
<1>1. Len(buffer_) >= 1 /\ head \in Nat /\ head >= 1 /\ HalfRange \in Nat /\ MaxInPacket < HalfRange
      /\ MaxInPacket \in Nat
  BY StreamAssumption DEF StreamInv, TypeOK
<1>2. PICK k, m : k = Len(received) + 1 /\ m = Len(sent[Len(received) + 1])
  OBVIOUS
<1>3. /\ k \in 1 .. Len(sent) /\ m \in 2 .. 2 * HalfRange - 1 /\ GetHead = {Signed(m)}
      /\ m <= Len(buffer_) => SubSeq(buffer_, 1, m) = sent[k]
  BY <1>1, <1>2, NextPacket, Zenon
<1>4. head = IF m < HalfRange THEN m ELSE m - 2 * HalfRange
  BY <1>1, <1>3, SignedLength
<1>5. head = m
  BY <1>1, <1>3, <1>4
<1>6. SubSeq(buffer_, 1, m) = sent[k]
  BY <1>3, <1>5
<1> QED
  BY <1>2, <1>3, <1>5, <1>6, Zenon

\* A packet that is cut out was in front of the bytes under way.
LEMMA CutInFront ==
  ASSUME NEW x \in Bytes, NEW y \in Bytes, NEW n \in Nat, n <= Len(x)
  PROVE  /\ SubSeq(x, n + 1, Len(x)) \o y \in Bytes
         /\ Cut(SubSeq(x, n + 1, Len(x)) \o y, x \o y, n)
<1>1. PICK rest : rest = SubSeq(x, n + 1, Len(x))
  OBVIOUS
<1>2. /\ rest \in Bytes /\ Len(rest) = Len(x) - n /\ Len(x) \in Nat /\ Len(y) \in Nat
      /\ \A j \in 1 .. Len(x) - n : rest[j] = x[n + j]
  <2>1. /\ SubSeq(x, n + 1, Len(x)) \in Bytes /\ Len(SubSeq(x, n + 1, Len(x))) = Len(x) - n
        /\ \A j \in 1 .. Len(x) - n : SubSeq(x, n + 1, Len(x))[j] = x[n + j]
    BY PiecesOfBytes
  <2>2. Len(x) \in Nat /\ Len(y) \in Nat
    BY LenOfBytes
  <2> QED
    BY <1>1, <2>1, <2>2, Zenon
<1>3. PICK b, d : b = x \o y /\ d = rest \o y
  OBVIOUS
<1>4. /\ b \in Bytes /\ Len(b) = Len(x) + Len(y)
      /\ \A j \in 1 .. Len(x) : b[j] = x[j]
      /\ \A j \in 1 .. Len(y) : b[Len(x) + j] = y[j]
  BY <1>3, ConcatOfBytes, Zenon
<1>5. /\ d \in Bytes /\ Len(d) = Len(rest) + Len(y)
      /\ \A j \in 1 .. Len(rest) : d[j] = rest[j]
      /\ \A j \in 1 .. Len(y) : d[Len(rest) + j] = y[j]
  <2>1. rest \in Bytes
    BY <1>2
  <2>2. /\ rest \o y \in Bytes /\ Len(rest \o y) = Len(rest) + Len(y)
        /\ \A j \in 1 .. Len(rest) : (rest \o y)[j] = rest[j]
        /\ \A j \in 1 .. Len(y) : (rest \o y)[Len(rest) + j] = y[j]
    BY <2>1, ConcatOfBytes, Zenon
  <2> QED
    BY <1>3, <2>2, Zenon
<1>6. PICK lx \in Nat, ly \in Nat, m \in Nat :
        lx = Len(x) /\ ly = Len(y) /\ m = Len(rest) /\ m = lx - n /\ Len(d) = m + ly /\ Len(b) = lx + ly
  <2>1. Len(rest) \in Nat
    BY <1>2, LenOfBytes
  <2> QED
    BY <1>2, <1>4, <1>5, <2>1, Zenon
<1>7. ASSUME NEW j \in 1 .. m + ly
      PROVE  d[j] = b[n + j]
  <2>1. CASE j <= m
    <3>1. d[j] = x[n + j]
      BY <1>2, <1>5, <1>6, <2>1
    <3>2. n + j \in 1 .. lx
      BY <1>6, <2>1
    <3> QED
      BY <1>4, <1>6, <3>1, <3>2
  <2>2. CASE j > m
    <3>1. j - m \in 1 .. ly /\ j = m + (j - m) /\ n + j = lx + (j - m)
      BY <1>6, <2>2
    <3>2. d[j] = y[j - m]
      BY <1>5, <1>6, <3>1
    <3>3. b[n + j] = y[j - m]
      BY <1>4, <1>6, <3>1
    <3> QED
      BY <3>2, <3>3
  <2> QED
    BY <2>1, <2>2
<1>8. Len(d) = Len(b) - n
  BY <1>6
<1>9. Cut(d, b, n)
  BY <1>6, <1>7, <1>8 DEF Cut
<1> QED
  BY <1>1, <1>3, <1>5, <1>9, Zenon

LEMMA DecodeInv ==
  ASSUME StreamInv, NEW read \in ReadSizes, Decode(read) PROVE StreamInv'
<1>0. /\ TypeOK /\ ArePackets(sent) /\ InFlight /\ Written /\ Waiting
      /\ Held /\ Stopped /\ AllKnown /\ InOrder /\ Small /\ ReadInBounds
  BY DEF StreamInv
<1>1. /\ decoding
      /\ UNCHANGED <<out, sent, heads, flight, release, freed, acks, overlapped, corrupt, tcp, internal>>
  BY DEF Decode, sender
<1>2. PICK head \in 1 .. Len(buffer_) :
        /\ head \in GetHead /\ head <= MaxInPacket
        /\ received' = Append(received, SubSeq(buffer_, 1, head))
        /\ buffer_' = SubSeq(buffer_, head + 1, Len(buffer_))
        /\ decoding' = (head > HeadSize)
        /\ closed' = IF ReadsBeyond(head, read) THEN "short" ELSE closed
  BY <1>0, PacketIsCut
<1>3. /\ buffer_ \in Bytes /\ tcp \in Bytes /\ Len(buffer_) \in Nat /\ head \in Nat /\ head >= 1
      /\ head <= Len(buffer_) /\ Len(buffer_) <= internal /\ internal \in Nat /\ read \in Nat
      /\ received \in Seq(Bytes) /\ Len(received) \in Nat /\ Len(sent) \in Nat
  <2>1. /\ buffer_ \in Bytes /\ tcp \in Bytes /\ head \in Nat /\ head >= 1 /\ head <= Len(buffer_)
        /\ Len(buffer_) <= internal /\ internal \in Nat /\ read \in Nat
    <3>1. buffer_ \in Bytes /\ tcp \in Bytes
      BY <1>0 DEF TypeOK, Bytes
    <3>2. internal \in Nat /\ read \in Nat
      BY <1>0, StreamAssumption DEF TypeOK
    <3> QED
      BY <1>0, <3>1, <3>2 DEF Held
  <2>2. received \in Seq(Bytes) /\ sent \in Seq(Bytes)
    BY <1>0 DEF TypeOK, Bytes
  <2> QED
    BY <2>1, <2>2, LenOfBytes
<1>4. /\ buffer_' \in Bytes /\ Len(buffer_') = Len(buffer_) - head
      /\ SubSeq(buffer_, 1, head) \in Bytes
  BY <1>2, <1>3, PiecesOfBytes
<1>5. received' \in Seq(Bytes) /\ Len(received') = Len(received) + 1
  BY <1>2, <1>3, <1>4, AppendBytes
<1>6. decoding' \in BOOLEAN /\ closed' \in {"short", closed}
  <2>1. closed' \in {"short", closed}
    BY <1>2
  <2>2. CASE head > HeadSize
    BY <1>2, <2>1, <2>2
  <2>3. CASE ~(head > HeadSize)
    BY <1>2, <2>1, <2>3
  <2> QED
    BY <2>2, <2>3
<1>7. closed # "overflow"
  BY <1>0, <1>1 DEF Stopped
<1>8. TypeOK'
  <2>1. closed' \in {"no", "overflow", "length", "short"}
    BY <1>0, <1>6 DEF TypeOK
  <2> QED
    BY <1>0, <1>1, <1>4, <1>5, <1>6, <2>1 DEF TypeOK, Bytes
<1>9. ArePackets(sent)' /\ InFlight' /\ Written' /\ Waiting'
  BY <1>0, <1>1 DEF ArePackets, InFlight, Written, WrittenInBounds, Waiting
<1>10. Held' /\ Stopped' /\ ReadInBounds'
  BY <1>1, <1>3, <1>4, <1>6, <1>7 DEF Held, Stopped, ReadInBounds, WrongHead
<1>11. AllKnown'
  <2>1. Known(buffer_', Len(sent))
    BY <1>0, <1>2, <1>3, KnownPieces DEF AllKnown
  <2> QED
    BY <1>0, <1>1, <2>1 DEF AllKnown
<1>12. Small'
  <2>1. ~decoding' => head <= 2
    <3>1. CASE head > HeadSize
      BY <1>2, <3>1, Zenon
    <3>2. CASE ~(head > HeadSize)
      BY <1>3, <3>2 DEF HeadSize
    <3> QED
      BY <3>1, <3>2
  <2>2. head <= 2 => ReadsBeyond(head, read)
    BY <1>3 DEF ReadsBeyond, HeadSize, OpcodeSize
  <2>3. ~decoding' => closed' = "short"
    BY <1>2, <2>1, <2>2, Zenon
  <2> QED
    BY <2>3 DEF Small
<1>13. InOrder'
  <2> SUFFICES ASSUME Intact' PROVE Aligned(buffer_' \o tcp, sent, Len(received) + 1, Carried)
    BY <1>1, <1>5 DEF InOrder, Carried
  <2>1. Intact
    BY <1>1, <1>7 DEF Intact, WrongHead
  <2>2. head = Len(sent[Len(received) + 1])
    BY <1>2, <2>1, CutPacketIsNext
  <2>3. PICK b, d, r, c : b = buffer_ \o tcp /\ d = buffer_' \o tcp /\ r = Len(received) /\ c = Carried
    OBVIOUS
  <2>4. b \in Bytes /\ Len(b) = Len(buffer_) + Len(tcp) /\ Len(tcp) \in Nat
    BY <1>3, <2>3, ConcatBytes, LenOfBytes DEF Bytes
  <2>5. d \in Bytes /\ Cut(d, b, head)
    BY <1>2, <1>3, <2>3, CutInFront
  <2>6. r \in Nat /\ c \in Nat /\ c <= Len(sent)
    BY <1>0, <1>3, <2>3 DEF TypeOK, InFlight, Carried
  <2>7. b # <<>>
    BY <1>3, <2>4, LenOfBytes
  <2>8. Aligned(b, sent, r, c)
    BY <1>0, <2>1, <2>3 DEF InOrder
  <2>9. Cut(d, b, Len(sent[r + 1]))
    BY <2>2, <2>3, <2>5, Zenon
  <2>10. Aligned(d, sent, r + 1, c)
    BY <1>0, <1>3, <2>4, <2>5, <2>6, <2>7, <2>8, <2>9, AlignedWithoutFirst
  <2> QED
    BY <2>3, <2>10, Zenon
<1> QED
  BY <1>8, <1>9, <1>10, <1>11, <1>12, <1>13 DEF StreamInv

LEMMA StutterInv == ASSUME StreamInv, UNCHANGED vars PROVE StreamInv'
<1>0. /\ TypeOK /\ ArePackets(sent) /\ InFlight /\ Written /\ Waiting
      /\ Held /\ Stopped /\ AllKnown /\ InOrder /\ Small /\ ReadInBounds
  BY DEF StreamInv
<1>1. UNCHANGED <<out, sent, heads, flight, release, freed, acks, overlapped, corrupt, tcp,
                  internal, buffer_, decoding, received, closed>>
  BY DEF vars, sender, receiver
<1>2. TypeOK' /\ ArePackets(sent)' /\ InFlight' /\ Written' /\ Waiting'
  BY <1>0, <1>1 DEF TypeOK, ArePackets, InFlight, Written, WrittenInBounds, Waiting
<1>3. Held' /\ Stopped' /\ AllKnown' /\ Small' /\ ReadInBounds'
  BY <1>0, <1>1 DEF Held, Stopped, AllKnown, Small, AllShort, ReadInBounds, WrongHead
<1>4. InOrder'
  BY <1>0, <1>1 DEF InOrder, Intact, WrongHead, Carried
<1> QED
  BY <1>2, <1>3, <1>4 DEF StreamInv

LEMMA StepInv == ASSUME StreamInv, [Next]_vars PROVE StreamInv'
<1>1. ASSUME NEW n \in WriteSizes, Write(n) PROVE StreamInv'
  BY <1>1, WriteInv
<1>1a. ASSUME NEW n \in NameSizes, WriteName(n) PROVE StreamInv'
  BY <1>1a, WriteNameInv
<1>2. CASE Send
  BY <1>2, SendInv
<1>2a. ASSUME NEW head \in StaleHeads, SendDead(head) PROVE StreamInv'
  BY <1>2a, SendDeadInv
<1>3. CASE Transmit
  BY <1>3, TransmitInv
<1>4. CASE OnSend
  BY <1>4, OnSendInv
<1>5. ASSUME NEW n \in 1 .. RecvLength, Receive(n) PROVE StreamInv'
  BY <1>5, ReceiveInv
<1>6. CASE Wait
  BY <1>6, WaitInv
<1>7. CASE BadLength
  BY <1>7, BadLengthInv
<1>8. ASSUME NEW read \in ReadSizes, Decode(read) PROVE StreamInv'
  BY <1>8, DecodeInv
<1>9. CASE UNCHANGED vars
  BY <1>9, StutterInv
<1> QED
  BY <1>1, <1>1a, <1>2, <1>2a, <1>3, <1>4, <1>5, <1>6, <1>7, <1>8, <1>9 DEF Next

LEMMA Inductive == Spec => []StreamInv
<1>1. StreamInv /\ [Next]_vars => StreamInv'
  BY StepInv
<1> QED
  BY InitInv, <1>1, PTL DEF Spec

-----------------------------------------------------------------------------
(* Theorems.                                                               *)

\* Every variable keeps its type.
THEOREM TypeCorrect == Spec => []TypeOK
<1>1. StreamInv => TypeOK
  BY DEF StreamInv
<1> QED
  BY Inductive, <1>1, PTL

\* No field is written behind the memory of its stream, no piece behind that of NioBuffer, and a
\* NioBuffer that has room for a packet and a read overflows only for packets that are too long for
\* NioInPacket, have a wrong head or come from freed memory.  The names of a list of characters may be
\* longer than the memory of its stream: where they stand makes one extension enough (OutputStream.cpp,
\* UE4OutPacket.hpp, PacketGenerateHelper.cpp, NioBuffer.hpp, NioSession.hpp).
THEOREM BuffersAreNotLeft == Spec => []InBounds
<1>1. StreamInv => InBounds
  BY DEF StreamInv, InBounds, Held, Written
<1> QED
  BY Inductive, <1>1, PTL

\* A sender that calls Send only after OnSend of its earlier packets never sends freed memory
\* (TNioSession::Send, OnSend and send_release_queue_).
THEOREM WaitingSendersAreSafe == Spec => []WaitingIsSafe
<1>1. StreamInv => WaitingIsSafe
  BY DEF StreamInv, Waiting, WaitingIsSafe
<1> QED
  BY Inductive, <1>1, PTL

-----------------------------------------------------------------------------
(* The connection implements the channel, step by step.                    *)

LEMMA ChannelInit == Init => C!Init
<1> SUFFICES ASSUME Init PROVE C!Init
  OBVIOUS
<1>1. sent = <<>> /\ received = <<>> /\ ~corrupt
  BY DEF Init
<1>2. ~WrongHead
  BY <1>1 DEF WrongHead
<1>3. (corrupt \/ WrongHead) = FALSE
  BY <1>1, <1>2, Zenon
<1> QED
  BY <1>1, <1>3 DEF C!Init

\* A step that sends nothing, cuts nothing out and corrupts nothing.
LEMMA ChannelStutters ==
  ASSUME UNCHANGED <<sent, heads, received, corrupt>>
  PROVE  UNCHANGED C!cvars
<1>1. WrongHead' <=> WrongHead
  BY DEF WrongHead
<1>2. (corrupt' \/ WrongHead') = (corrupt \/ WrongHead)
  BY <1>1, Zenon
<1> QED
  BY <1>2 DEF C!cvars

LEMMA AppendGrows ==
  ASSUME NEW S, NEW x \in Seq(S), NEW e \in S, NEW y, y = Append(x, e)
  PROVE  Len(y) = Len(x) + 1 /\ SubSeq(y, 1, Len(x)) = x
<1>1. y \in Seq(S) /\ Len(y) = Len(x) + 1 /\ (\A n \in 1 .. Len(x) : y[n] = x[n]) /\ Len(x) \in Nat
  BY AppendBytes
<1>2. PICK z : z = SubSeq(y, 1, Len(x))
  OBVIOUS
<1>3. z \in Seq(S) /\ Len(z) = Len(x) /\ \A n \in 1 .. Len(x) : z[n] = y[n]
  BY <1>1, <1>2
<1>4. z = x
  BY <1>1, <1>3, SameBytes
<1> QED
  BY <1>1, <1>2, <1>4

LEMMA PostImplements ==
  ASSUME StreamInv, NEW head \in 0 .. 2 * HalfRange - 1, Post(head) PROVE C!Send
<1>1. PICK packet : packet = Packet(Len(sent) + 1, out.offset)
  OBVIOUS
<1>2. packet \in Bytes
  <2>1. PICK k \in Nat, n \in Nat : k = Len(sent) + 1 /\ n = out.offset
    BY DEF StreamInv, TypeOK
  <2>2. Packet(k, n) \in Bytes
    BY DEF Packet, Bytes
  <2> QED
    BY <1>1, <2>1, <2>2
<1>3. /\ sent \in Seq(Bytes) /\ sent' = Append(sent, packet) /\ heads' = Append(heads, head)
      /\ received' = received /\ corrupt' = corrupt
  BY <1>1 DEF StreamInv, TypeOK, Bytes, Post, receiver
<1>4. Len(sent') = Len(sent) + 1 /\ SubSeq(sent', 1, Len(sent)) = sent
  BY <1>2, <1>3, AppendGrows
<1>5. (corrupt' \/ WrongHead') \in {corrupt \/ WrongHead, TRUE}
  <2>1. WrongHead => WrongHead'
    BY <1>2, <1>3, HeadsGrow DEF StreamInv
  <2>2. CASE corrupt' \/ WrongHead'
    BY <2>2, Zenon
  <2>3. CASE ~(corrupt' \/ WrongHead')
    BY <1>3, <2>1, <2>3, Zenon
  <2> QED
    BY <2>2, <2>3, Zenon
<1> QED
  BY <1>3, <1>4, <1>5 DEF C!Send, C!Grows

LEMMA SendImplements == ASSUME StreamInv, Send PROVE C!Send
BY HeadOfPacket, PostImplements DEF Send

LEMMA SendDeadImplements ==
  ASSUME StreamInv, NEW head \in StaleHeads, SendDead(head) PROVE C!Send
<1>1. head \in 0 .. 2 * HalfRange - 1
  BY StreamAssumption
<1> QED
  BY <1>1, PostImplements DEF SendDead

LEMMA TransmitImplements == ASSUME StreamInv, Transmit PROVE C!Break \/ UNCHANGED C!cvars
<1>1. UNCHANGED <<sent, heads, received>> /\ (corrupt' = corrupt \/ corrupt' = TRUE)
  BY DEF Transmit, receiver
<1>2. CASE corrupt' = corrupt
  BY <1>1, <1>2, ChannelStutters
<1>3. CASE corrupt' = TRUE
  <2>1. (corrupt' \/ WrongHead') = TRUE
    BY <1>3, Zenon
  <2> QED
    BY <1>1, <2>1 DEF C!Break
<1> QED
  BY <1>1, <1>2, <1>3

LEMMA DecodeImplements ==
  ASSUME StreamInv, NEW read \in ReadSizes, Decode(read)
  PROVE  C!Receive \/ C!ReceiveAnything
<1>1. TypeOK /\ AllKnown /\ closed # "overflow"
  BY DEF StreamInv, Stopped, Decode
<1>2. PICK head \in 1 .. Len(buffer_) :
        /\ head \in GetHead /\ head <= MaxInPacket
        /\ received' = Append(received, SubSeq(buffer_, 1, head))
  BY <1>1, PacketIsCut
<1>3. UNCHANGED <<sent, heads, corrupt>>
  BY DEF Decode, sender
<1>4. (corrupt' \/ WrongHead') = (corrupt \/ WrongHead)
  <2>1. WrongHead' <=> WrongHead
    BY <1>3 DEF WrongHead
  <2> QED
    BY <1>3, <2>1, Zenon
<1>5. CASE Intact
  <2>1. /\ Len(received) + 1 \in 1 .. Len(sent)
        /\ SubSeq(buffer_, 1, head) = sent[Len(received) + 1]
    BY <1>2, <1>5, CutPacketIsNext
  <2>2. received' = Append(received, sent[Len(received) + 1])
    BY <1>2, <2>1
  <2>3. Len(received) < Len(sent)
    BY <1>1, <2>1 DEF TypeOK
  <2> QED
    BY <1>3, <1>4, <2>2, <2>3 DEF C!Receive
<1>6. CASE ~Intact
  <2>1. corrupt \/ WrongHead
    BY <1>1, <1>6, Zenon DEF Intact
  <2>2. SubSeq(buffer_, 1, head) \in Bytes /\ received \in Seq(Bytes)
    <3>1. buffer_ \in Bytes /\ head \in Nat /\ head <= Len(buffer_) /\ received \in Seq(Bytes)
      BY <1>1 DEF TypeOK, Bytes
    <3> QED
      BY <3>1, PiecesOfBytes
  <2>3. Len(received') = Len(received) + 1 /\ SubSeq(received', 1, Len(received)) = received
    BY <1>2, <2>2, AppendGrows
  <2> QED
    BY <1>3, <1>4, <2>1, <2>3 DEF C!ReceiveAnything, C!Grows
<1> QED
  BY <1>5, <1>6

LEMMA StepImplements == ASSUME StreamInv, [Next]_vars PROVE [C!Next]_C!cvars
<1>1. ASSUME NEW n \in WriteSizes, Write(n) PROVE UNCHANGED C!cvars
  BY <1>1, ChannelStutters DEF Write, Field, receiver
<1>1a. ASSUME NEW n \in NameSizes, WriteName(n) PROVE UNCHANGED C!cvars
  BY <1>1a, ChannelStutters DEF WriteName, Field, receiver
<1>2. CASE Send
  BY <1>2, SendImplements DEF C!Next
<1>2a. ASSUME NEW head \in StaleHeads, SendDead(head) PROVE C!Next
  BY <1>2a, SendDeadImplements DEF C!Next
<1>3. CASE Transmit
  BY <1>3, TransmitImplements DEF C!Next
<1>4. CASE OnSend
  BY <1>4, ChannelStutters DEF OnSend, receiver
<1>5. ASSUME NEW n \in 1 .. RecvLength, Receive(n) PROVE UNCHANGED C!cvars
  BY <1>5, ChannelStutters DEF Receive, sender
<1>6. CASE Wait
  BY <1>6, ChannelStutters DEF Wait, sender
<1>7. CASE BadLength
  BY <1>7, ChannelStutters DEF BadLength, sender
<1>8. ASSUME NEW read \in ReadSizes, Decode(read) PROVE C!Next
  BY <1>8, DecodeImplements DEF C!Next
<1>9. CASE UNCHANGED vars
  BY <1>9, ChannelStutters DEF vars, sender, receiver
<1> QED
  BY <1>1, <1>1a, <1>2, <1>2a, <1>3, <1>4, <1>5, <1>6, <1>7, <1>8, <1>9 DEF Next

\* The connection is the channel of the abstract specification: packets are handed over once, whole and
\* in order, however TCP cuts them and whatever the buffers' sizes, until freed memory has been sent or
\* a packet whose head is not its length: one that is too long for a uint16_t, or a death notice, whose
\* head nobody writes (NioSession.hpp, NioBuffer.hpp, UE4PacketCipher.hpp, ZoneServer.cpp).
THEOREM ChannelIsImplemented == Spec => ImplementsChannel
<1>1. StreamInv /\ [Next]_vars => [C!Next]_C!cvars
  BY StepImplements
<1> QED
  BY ChannelInit, Inductive, <1>1, PTL DEF Spec, ImplementsChannel, C!Spec

-----------------------------------------------------------------------------
(* Nothing is left behind.                                                 *)

\* What has been handed over is what was sent, packet by packet.
InOrderOnce ==
    ~corrupt /\ ~WrongHead =>
        /\ Len(received) <= Len(sent)
        /\ \A k \in 1 .. Len(received) : received[k] = sent[k]

\* A receiver that reads on has not got the next packet yet, or never cuts it out.
Rested ==
    ~corrupt /\ ~WrongHead /\ closed = "no" /\ ~decoding /\ Len(received) < Len(sent) =>
        \/ Len(buffer_) < Len(sent[Len(received) + 1])
        \/ HalfRange <= Len(sent[Len(received) + 1])

\* Nothing is being written, is under way or is being cut out of an open connection.
Quiet == flight = <<>> /\ tcp = <<>> /\ ~decoding /\ closed = "no"

\* All has arrived when the connection is quiet, if it broke for none of its known reasons.
NothingIsLeft ==
    Quiet /\ ~corrupt /\ ~WrongHead /\ (\A k \in DOMAIN sent : Len(sent[k]) < HalfRange) => received = sent

\* The abstract channel hands over what was sent until it breaks, and so does the connection.
LEMMA InOrderOnceStep ==
  ASSUME StreamInv, InOrderOnce, [Next]_vars
  PROVE  InOrderOnce'
<1> SUFFICES ASSUME ~corrupt', ~WrongHead'
             PROVE  /\ Len(received') <= Len(sent')
                    /\ \A k \in 1 .. Len(received') : received'[k] = sent'[k]
  BY DEF InOrderOnce
<1>0. /\ TypeOK /\ TypeOK'
      /\ Len(sent) \in Nat /\ Len(received) \in Nat /\ Len(sent') \in Nat /\ Len(received') \in Nat
  <2>1. TypeOK /\ TypeOK'
    BY StepInv DEF StreamInv
  <2>2. /\ sent \in Seq(Seq(Nat \X Nat)) /\ received \in Seq(Seq(Nat \X Nat))
        /\ sent' \in Seq(Seq(Nat \X Nat)) /\ received' \in Seq(Seq(Nat \X Nat))
    BY <2>1 DEF TypeOK
  <2>3. /\ Len(sent) \in Nat /\ Len(received) \in Nat /\ Len(sent') \in Nat /\ Len(received') \in Nat
    BY <2>2
  <2> QED
    BY <2>1, <2>3
<1>1. (corrupt' \/ WrongHead') = FALSE
  BY Zenon
<1>2. (corrupt \/ WrongHead) = FALSE =>
        /\ Len(received) <= Len(sent)
        /\ \A k \in 1 .. Len(received) : received[k] = sent[k]
  BY Zenon DEF InOrderOnce
<1>3. CASE UNCHANGED C!cvars
  BY <1>1, <1>2, <1>3 DEF C!cvars
<1>4. CASE C!Send
  <2>1. (corrupt \/ WrongHead) = FALSE /\ received' = received
    BY <1>1, <1>4 DEF C!Send
  <2>2. Len(sent') = Len(sent) + 1 /\ SubSeq(sent', 1, Len(sent)) = sent
    BY <1>4 DEF C!Send, C!Grows
  <2>3. \A k \in 1 .. Len(sent) : sent'[k] = sent[k]
    <3>1. \A k \in 1 .. Len(sent) : SubSeq(sent', 1, Len(sent))[k] = sent'[k]
      <4>1. sent' \in Seq(Seq(Nat \X Nat))
        BY <1>0, Zenon DEF TypeOK
      <4> QED
        BY <1>0, <2>2, <4>1
    <3> QED
      BY <2>2, <3>1
  <2> QED
    BY <1>0, <1>2, <2>1, <2>2, <2>3
<1>5. CASE C!Receive
  <2>1. /\ (corrupt \/ WrongHead) = FALSE /\ sent' = sent /\ Len(received) < Len(sent)
        /\ received' = Append(received, sent[Len(received) + 1])
    BY <1>1, <1>5 DEF C!Receive
  <2>2. /\ Len(received') = Len(received) + 1 /\ received'[Len(received) + 1] = sent[Len(received) + 1]
        /\ \A k \in 1 .. Len(received) : received'[k] = received[k]
    BY <1>0, <2>1 DEF TypeOK
  <2> QED
    BY <1>0, <1>2, <2>1, <2>2
<1>6. CASE C!Break
  BY <1>1, <1>6 DEF C!Break
<1>7. CASE C!ReceiveAnything
  BY <1>1, <1>7 DEF C!ReceiveAnything
<1> QED
  BY <1>3, <1>4, <1>5, <1>6, <1>7, StepImplements DEF C!Next

\* Wait ends the loop without a whole packet only.
LEMMA WaitRests == ASSUME StreamInv, Wait PROVE Rested'
<1>1. UNCHANGED <<sent, heads, buffer_, received, closed, corrupt>>
  BY DEF Wait, sender
<1> SUFFICES ASSUME Intact, Len(received) < Len(sent)
             PROVE  \/ Len(buffer_) < Len(sent[Len(received) + 1])
                    \/ HalfRange <= Len(sent[Len(received) + 1])
  BY <1>1 DEF Rested, Intact, WrongHead
<1>2. PICK k, m : k = Len(received) + 1 /\ m = Len(sent[Len(received) + 1])
  OBVIOUS
<1>3. Len(buffer_) \in Nat /\ k \in 1 .. Len(sent)
  BY <1>2 DEF StreamInv, TypeOK
<1>4. m \in Nat /\ m >= 2
  <2>1. ArePackets(sent)
    BY DEF StreamInv
  <2> QED
    BY <1>2, <1>3, <2>1, PacketLengths
<1>5. ASSUME Len(buffer_) >= 2
      PROVE  Len(buffer_) < m \/ HalfRange <= m
  <2>1. m \in 2 .. 2 * HalfRange - 1 /\ GetHead = {Signed(m)}
    BY <1>2, <1>3, <1>5, NextPacket
  <2>2. Signed(m) = IF m < HalfRange THEN m ELSE m - 2 * HalfRange
    BY <2>1, SignedLength, StreamAssumption
  <2>3. Signed(m) < 0 \/ Len(buffer_) < Signed(m)
    BY <1>3, <1>5, <2>1 DEF Wait, HeadSize
  <2> QED
    BY <1>3, <1>4, <2>1, <2>2, <2>3, StreamAssumption
<1> QED
  BY <1>2, <1>3, <1>4, <1>5

\* With nothing left to receive the buffer is empty, so a packet sent now is not in it.
LEMMA PostRests ==
  ASSUME StreamInv, Rested, NEW head \in 0 .. 2 * HalfRange - 1, Post(head) PROVE Rested'
<1> SUFFICES ASSUME ~corrupt', ~WrongHead', closed' = "no", ~decoding', Len(received') < Len(sent')
             PROVE  \/ Len(buffer_') < Len(sent'[Len(received') + 1])
                    \/ HalfRange <= Len(sent'[Len(received') + 1])
  BY DEF Rested
<1>0. /\ TypeOK /\ ArePackets(sent) /\ ArePackets(sent)' /\ InFlight /\ InOrder
      /\ UNCHANGED <<buffer_, received, closed, corrupt, decoding, tcp>>
  BY PostInv DEF StreamInv, Post, receiver
<1>1. PICK r \in Nat, count \in Nat : r = Len(received) /\ count = Len(sent)
  BY <1>0 DEF TypeOK
<1>2. /\ Len(sent') = count + 1 /\ \A k \in 1 .. count : sent'[k] = sent[k]
      /\ DOMAIN sent = 1 .. count /\ DOMAIN sent' = 1 .. count + 1
  <2>1. PICK packet : packet = Packet(Len(sent) + 1, out.offset)
    OBVIOUS
  <2>2. sent' = Append(sent, packet)
    BY <2>1 DEF Post
  <2> QED
    BY <1>0, <1>1, <2>2 DEF TypeOK
<1>3. ~WrongHead
  <2>1. PICK packet : packet = Packet(count + 1, out.offset)
    OBVIOUS
  <2>2. packet \in Bytes
    <3>1. out.offset \in Nat
      BY <1>0 DEF TypeOK
    <3>2. PICK n \in Nat, c \in Nat : n = out.offset /\ c = count + 1
      BY <1>1, <3>1
    <3>3. Packet(c, n) \in Bytes
      BY DEF Packet, Bytes
    <3> QED
      BY <2>1, <3>2, <3>3
  <2>3. sent' = Append(sent, packet) /\ heads' = Append(heads, head)
    BY <1>1, <2>1 DEF Post
  <2> QED
    BY <1>0, <2>2, <2>3, HeadsGrow
<1>4. CASE r < count
  <2>1. r + 1 \in 1 .. count
    BY <1>1, <1>4
  <2>2. \/ Len(buffer_) < Len(sent[r + 1])
        \/ HalfRange <= Len(sent[r + 1])
    BY <1>0, <1>1, <1>3, <1>4 DEF Rested
  <2> QED
    BY <1>0, <1>1, <1>2, <2>1, <2>2
<1>5. CASE ~(r < count)
  <2>1. r = count
    BY <1>0, <1>1, <1>2, <1>5
  <2>2. PICK b, c : b = buffer_ \o tcp /\ c = Carried
    OBVIOUS
  <2>3. Bounded(b, sent, r, c)
    BY <1>0, <1>1, <1>3, <2>2 DEF InOrder, Intact, Aligned
  <2>4. c \in Int /\ c <= count
    BY <1>0, <1>1, <2>2 DEF TypeOK, InFlight, Carried
  <2>5. b = <<>>
    BY <1>1, <2>1, <2>3, <2>4 DEF Bounded
  <2>6. buffer_ \in Bytes /\ tcp \in Bytes
    BY <1>0 DEF TypeOK, Bytes
  <2>7. Len(b) = Len(buffer_) + Len(tcp) /\ Len(buffer_) \in Nat /\ Len(tcp) \in Nat
    BY <2>2, <2>6, ConcatBytes, LenOfBytes DEF Bytes
  <2>8. Len(buffer_) = 0
    BY <2>5, <2>7
  <2>9. Len(sent'[r + 1]) \in Nat /\ Len(sent'[r + 1]) >= 2
    BY <1>0, <1>1, <1>2, <2>1, PacketLengths
  <2> QED
    BY <1>0, <1>1, <2>8, <2>9
<1> QED
  BY <1>4, <1>5

\* The receiver of a quiet connection has the next packet, or has got all.
LEMMA RestedStep ==
  ASSUME StreamInv, Rested, [Next]_vars
  PROVE  Rested'
<1>2. ASSUME NEW n \in WriteSizes, Write(n) PROVE Rested'
  BY <1>2 DEF Write, Field, receiver, Rested, WrongHead
<1>2a. ASSUME NEW n \in NameSizes, WriteName(n) PROVE Rested'
  BY <1>2a DEF WriteName, Field, receiver, Rested, WrongHead
<1>3. CASE Send
  BY <1>3, HeadOfPacket, PostRests DEF Send
<1>3a. ASSUME NEW head \in StaleHeads, SendDead(head) PROVE Rested'
  <2>1. head \in 0 .. 2 * HalfRange - 1
    BY StreamAssumption
  <2> QED
    BY <1>3a, <2>1, PostRests DEF SendDead
<1>4. CASE Transmit
  <2>1. UNCHANGED <<sent, heads, buffer_, received, closed, decoding>> /\ (corrupt => corrupt')
    BY <1>4 DEF Transmit, receiver
  <2> QED
    BY <2>1 DEF Rested, WrongHead
<1>5. CASE OnSend
  BY <1>5 DEF OnSend, receiver, Rested, WrongHead
<1>6. ASSUME NEW n \in 1 .. RecvLength, Receive(n) PROVE Rested'
  BY <1>6 DEF Receive, Rested
<1>7. CASE Wait
  BY <1>7, WaitRests
<1>8. CASE BadLength
  BY <1>8 DEF BadLength, Rested
<1>9. ASSUME NEW read \in ReadSizes, Decode(read) PROVE Rested'
  <2>1. PICK head \in 1 .. Len(buffer_) :
           /\ decoding' = (head > HeadSize)
           /\ closed' = IF ReadsBeyond(head, read) THEN "short" ELSE closed
    BY <1>9, PacketIsCut DEF StreamInv
  <2>2. head \in Nat /\ read \in Nat
    BY StreamAssumption DEF StreamInv, TypeOK
  <2>3. CASE head > HeadSize
    BY <2>1, <2>3, Zenon DEF Rested
  <2>4. CASE ~(head > HeadSize)
    <3>1. ReadsBeyond(head, read)
      BY <2>2, <2>4 DEF ReadsBeyond, HeadSize, OpcodeSize
    <3> QED
      BY <2>1, <3>1 DEF Rested
  <2> QED
    BY <2>3, <2>4
<1>10. CASE UNCHANGED vars
  BY <1>10 DEF vars, sender, receiver, Rested, WrongHead
<1> QED
  BY <1>2, <1>2a, <1>3, <1>3a, <1>4, <1>5, <1>6, <1>7, <1>8, <1>9, <1>10 DEF Next

\* All has arrived on a quiet connection: whatever was left would be in the buffer, and whole.
LEMMA QuietIsComplete ==
  ASSUME StreamInv, InOrderOnce, Rested
  PROVE  NothingIsLeft
<1> SUFFICES ASSUME Quiet, ~corrupt, ~WrongHead, \A k \in DOMAIN sent : Len(sent[k]) < HalfRange
             PROVE  received = sent
  BY DEF NothingIsLeft
<1>0. TypeOK /\ ArePackets(sent) /\ InFlight /\ InOrder
  BY DEF StreamInv
<1>1. PICK r \in Nat, count \in Nat : r = Len(received) /\ count = Len(sent) /\ DOMAIN sent = 1 .. count
  BY <1>0 DEF TypeOK
<1>3. r <= count /\ \A k \in 1 .. r : received[k] = sent[k]
  BY <1>1 DEF InOrderOnce
<1>4. r = count
  <2> SUFFICES ASSUME r < count PROVE FALSE
    BY <1>1, <1>3
  <2>1. buffer_ \in Bytes /\ tcp = <<>> /\ Carried = count
    BY <1>0, <1>1 DEF Quiet, TypeOK, Carried, Bytes
  <2>2. Aligned(buffer_, sent, r, count)
    <3>1. buffer_ \o tcp = buffer_
      BY <1>0, <2>1 DEF TypeOK
    <3>2. Aligned(buffer_ \o tcp, sent, Len(received), Carried)
      BY <1>0 DEF InOrder, Intact, Quiet
    <3> QED
      BY <1>1, <2>1, <3>1, <3>2, Zenon
  <2>3. buffer_ # <<>>
    BY <1>1, <2>2 DEF Aligned, Bounded
  <2>4. Len(sent[r + 1]) <= Len(buffer_) /\ Len(sent[r + 1]) \in Nat /\ r + 1 \in 1 .. count
    BY <1>0, <1>1, <2>1, <2>2, <2>3, FirstIsThere
  <2>5. Len(buffer_) < Len(sent[r + 1]) \/ HalfRange <= Len(sent[r + 1])
    BY <1>1 DEF Rested, Quiet
  <2>6. Len(sent[r + 1]) < HalfRange /\ Len(buffer_) \in Nat /\ HalfRange \in Nat
    BY <1>1, <2>1, <2>4, LenOfBytes, StreamAssumption
  <2> QED
    BY <2>4, <2>5, <2>6
<1>5. PICK S : S = Seq(Nat \X Nat)
  OBVIOUS
<1>6. received \in Seq(S) /\ sent \in Seq(S)
  BY <1>0, <1>5, Zenon DEF TypeOK
<1> QED
  BY <1>1, <1>3, <1>4, <1>6, SameBytes

\* The safety half of Delivered: packets are handed over as they were sent and in their order, and on
\* an open connection where nothing is being written, under way or being cut out, every packet has been
\* handed over, unless freed memory or a packet with a wrong head was sent or a packet's length is
\* negative for the receiver: OnRead never goes back to reading with a whole packet in its buffer
\* (NioSession.hpp, UE4PacketCipher.hpp).
THEOREM NothingStaysBehind == Spec => [](InOrderOnce /\ NothingIsLeft)
<1>1. Init => InOrderOnce /\ Rested
  BY DEF Init, InOrderOnce, Rested
<1>2. StreamInv /\ InOrderOnce /\ Rested /\ [Next]_vars => InOrderOnce' /\ Rested'
  BY InOrderOnceStep, RestedStep
<1>3. StreamInv /\ InOrderOnce /\ Rested => InOrderOnce /\ NothingIsLeft
  BY QuietIsComplete
<1> QED
  BY Inductive, <1>1, <1>2, <1>3, PTL DEF Spec
=============================================================================
