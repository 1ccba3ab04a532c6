---------------------------- MODULE LibraryProofs ----------------------------
(***************************************************************************)
(* What the handlers share, three things that have nothing in common: what *)
(* a server writes to a packet is what the other one reads from it, every  *)
(* value of every field, over both hops of a hand-off; the lock of a       *)
(* script does what it is for, with any number of workers and scripts,     *)
(* whatever fails; and the zone server's locks deadlock in two ways only.  *)
(***************************************************************************)
EXTENDS Wire, Scripts, TLAPS

Value == Int \cup String

\* The bytes x are the next ones of s.
Holds(s, x) ==
    /\ s = [buf |-> s.buf, at |-> s.at, ok |-> TRUE, got |-> s.got]
    /\ s.buf \in Seq(Byte) /\ s.at \in Nat /\ s.got \in Seq(Value)
    /\ x \in Seq(Byte) /\ s.at + Len(x) <= Len(s.buf)
    /\ \A k \in 1 .. Len(x) : s.buf[s.at + k] = x[k]

\* t has returned v after what s has returned.
Returned(s, t, v) ==
    /\ Len(t.got) = Len(s.got) + 1 /\ t.got[Len(s.got) + 1] = v
    /\ \A k \in 1 .. Len(s.got) : t.got[k] = s.got[k]

-----------------------------------------------------------------------------
(* Integers and their bytes. *)

LEMMA TwoBytes ==
  ASSUME NEW n \in Int
  PROVE  /\ n % 256 \in Byte /\ (n \div 256) % 256 \in Byte
         /\ (n % 256) + 256 * ((n \div 256) % 256) = n % Half
BY DEF Byte, Half

LEMMA SignedHalf ==
  ASSUME NEW n \in Int16
  PROVE  AsInt16(n % Half) = n
<1>1. n \in Int /\ -32768 <= n /\ n <= 32767
  BY DEF Int16
<1>2. CASE 0 <= n
  <2>1. n % 65536 = n
    BY <1>1, <1>2
  <2> QED  BY <1>1, <2>1 DEF AsInt16, Half
<1>3. CASE n < 0
  <2>1. n % 65536 = n + 65536
    BY <1>1, <1>3
  <2>2. ~(n + 65536 <= 32767) /\ (n + 65536) - 65536 = n
    BY <1>1
  <2> QED  BY <2>1, <2>2 DEF AsInt16, Half
<1> QED  BY <1>1, <1>2, <1>3

LEMMA Joined ==
  ASSUME NEW x \in Seq(Byte), NEW y \in Seq(Byte)
  PROVE  /\ x \o y \in Seq(Byte) /\ Len(x \o y) = Len(x) + Len(y)
         /\ \A k \in 1 .. Len(x) : (x \o y)[k] = x[k]
         /\ \A k \in 1 .. Len(y) : (x \o y)[Len(x) + k] = y[k]
OBVIOUS

LEMMA Written16 ==
  ASSUME NEW n \in Int
  PROVE  /\ WriteInt16(n) \in Seq(Byte) /\ Len(WriteInt16(n)) = 2
         /\ WriteInt16(n)[1] + 256 * WriteInt16(n)[2] = n % Half
<1> DEFINE x == WriteInt8(n)
           y == WriteInt8(n \div 256)
<1>1. /\ x \in Seq(Byte) /\ Len(x) = 1 /\ x[1] = n % 256
      /\ y \in Seq(Byte) /\ Len(y) = 1 /\ y[1] = (n \div 256) % 256
  BY TwoBytes DEF WriteInt8
<1>2. WriteInt16(n) = x \o y
  BY DEF WriteInt16
<1> HIDE DEF x, y
<1>3. Len(x \o y) = 2 /\ (x \o y)[1] = x[1] /\ (x \o y)[2] = y[1] /\ x \o y \in Seq(Byte)
  <2>1. 1 \in 1 .. Len(x) /\ 1 \in 1 .. Len(y) /\ Len(x) + 1 = 2
    BY <1>1
  <2> QED  BY <1>1, <2>1, Joined
<1>4. (n % 256) + 256 * ((n \div 256) % 256) = n % Half
  BY TwoBytes
<1> QED  BY <1>1, <1>2, <1>3, <1>4

LEMMA Written32 ==
  ASSUME NEW n \in Int
  PROVE  LET w == WriteInt32(n)
         IN  /\ w \in Seq(Byte) /\ Len(w) = 4
             /\ w[1] + 256 * w[2] = n % Half
             /\ w[3] + 256 * w[4] = (n \div Half) % Half
<1> DEFINE x == WriteInt16(n)
           y == WriteInt16(n \div Half)
<1>1. n \div Half \in Int
  BY DEF Half
<1>2. /\ x \in Seq(Byte) /\ Len(x) = 2 /\ x[1] + 256 * x[2] = n % Half
      /\ y \in Seq(Byte) /\ Len(y) = 2 /\ y[1] + 256 * y[2] = (n \div Half) % Half
  BY <1>1, Written16
<1>3. WriteInt32(n) = x \o y
  BY DEF WriteInt32
<1> HIDE DEF x, y
<1>4. /\ x \o y \in Seq(Byte) /\ Len(x \o y) = 4
      /\ (x \o y)[1] = x[1] /\ (x \o y)[2] = x[2] /\ (x \o y)[3] = y[1] /\ (x \o y)[4] = y[2]
  <2>1. /\ x \o y \in Seq(Byte) /\ Len(x \o y) = Len(x) + Len(y)
        /\ \A k \in 1 .. Len(x) : (x \o y)[k] = x[k]
        /\ \A k \in 1 .. Len(y) : (x \o y)[Len(x) + k] = y[k]
    BY <1>2, Joined
  <2>2. \A k \in 1 .. 2 : (x \o y)[k] = x[k] /\ (x \o y)[2 + k] = y[k]
    BY <1>2, <2>1
  <2>3. 1 \in 1 .. 2 /\ 2 \in 1 .. 2 /\ 2 + 1 = 3 /\ 2 + 2 = 4
    OBVIOUS
  <2> QED  BY <1>2, <2>1, <2>2, <2>3
<1> QED  BY <1>2, <1>3, <1>4

LEMMA Written64 ==
  ASSUME NEW n \in Int
  PROVE  LET w == WriteInt64(n)
         IN  /\ w \in Seq(Byte) /\ Len(w) = 8
             /\ w[1] + 256 * w[2] = n % Half
             /\ w[3] + 256 * w[4] = (n \div Half) % Half
             /\ w[5] + 256 * w[6] = ((n \div Half) \div Half) % Half
             /\ w[7] + 256 * w[8] = (((n \div Half) \div Half) \div Half) % Half
<1> DEFINE x == WriteInt32(n)
           y == WriteInt32((n \div Half) \div Half)
<1>1. n \div Half \in Int /\ (n \div Half) \div Half \in Int
  BY DEF Half
<1>2. /\ x \in Seq(Byte) /\ Len(x) = 4
      /\ x[1] + 256 * x[2] = n % Half /\ x[3] + 256 * x[4] = (n \div Half) % Half
  BY Written32
<1>3. /\ y \in Seq(Byte) /\ Len(y) = 4
      /\ y[1] + 256 * y[2] = ((n \div Half) \div Half) % Half
      /\ y[3] + 256 * y[4] = (((n \div Half) \div Half) \div Half) % Half
  BY <1>1, Written32
<1>4. WriteInt64(n) = x \o y
  BY DEF WriteInt64
<1> HIDE DEF x, y
<1>5. /\ x \o y \in Seq(Byte) /\ Len(x \o y) = 8
      /\ \A k \in 1 .. 4 : (x \o y)[k] = x[k] /\ (x \o y)[4 + k] = y[k]
  <2>1. /\ x \o y \in Seq(Byte) /\ Len(x \o y) = Len(x) + Len(y)
        /\ \A k \in 1 .. Len(x) : (x \o y)[k] = x[k]
        /\ \A k \in 1 .. Len(y) : (x \o y)[Len(x) + k] = y[k]
    BY <1>2, <1>3, Joined
  <2> QED  BY <1>2, <1>3, <2>1
<1>6. /\ 1 \in 1 .. 4 /\ 2 \in 1 .. 4 /\ 3 \in 1 .. 4 /\ 4 \in 1 .. 4
      /\ 4 + 1 = 5 /\ 4 + 2 = 6 /\ 4 + 3 = 7 /\ 4 + 4 = 8
  OBVIOUS
<1> QED  BY <1>2, <1>3, <1>4, <1>5, <1>6

LEMMA IntegerBytes ==
  ASSUME NEW n \in Int
  PROVE  WriteInt16(n) \in Seq(Byte) /\ WriteInt32(n) \in Seq(Byte) /\ WriteInt64(n) \in Seq(Byte)
<1>1. WriteInt16(n) \in Seq(Byte)
  BY Written16
<1>2. WriteInt32(n) \in Seq(Byte)
  BY Written32
<1>3. WriteInt64(n) \in Seq(Byte)
  BY Written64
<1> QED  BY <1>1, <1>2, <1>3

LEMMA AllIntegers ==
  Int16 \subseteq Int /\ UInt16 \subseteq Int /\ Int32 \subseteq Int /\ Int64 \subseteq Int
<1>1. Int16 \subseteq Int
  BY DEF Int16
<1>2. UInt16 \subseteq Int
  BY DEF UInt16
<1>3. Int32 \subseteq Int
  BY DEF Int32
<1>4. Int64 \subseteq Int
  BY DEF Int64
<1> QED  BY <1>1, <1>2, <1>3, <1>4

LEMMA UnsignedHalf ==
  ASSUME NEW n \in UInt16
  PROVE  AsInt16(n % Half) % Half = n
<1>1. n \in Int /\ 0 <= n /\ n < 65536
  BY DEF UInt16, Half
<1>2. n % Half = n
  BY <1>1 DEF Half
<1>3. CASE n <= 32767
  BY <1>1, <1>2, <1>3 DEF AsInt16
<1>4. CASE n > 32767
  <2>1. AsInt16(n) = n - 65536
    BY <1>1, <1>4 DEF AsInt16, Half
  <2>2. (n - 65536) % 65536 = n
    BY <1>1
  <2> QED  BY <1>2, <2>1, <2>2 DEF Half
<1> QED  BY <1>1, <1>3, <1>4

LEMMA StringBytes ==
  ASSUME NEW str \in String
  PROVE  WriteString(str) \in Seq(Byte)
<1>1. str \in Seq(Byte) /\ <<0>> \in Seq(Byte)
  BY DEF String, Char, Byte
<1> QED  BY <1>1, Joined DEF WriteString

-----------------------------------------------------------------------------
(* Reading one field. *)

LEMMA Appended ==
  ASSUME NEW g \in Seq(Value), NEW v \in Value
  PROVE  /\ Append(g, v) \in Seq(Value) /\ Len(Append(g, v)) = Len(g) + 1
         /\ Append(g, v)[Len(g) + 1] = v
         /\ \A k \in 1 .. Len(g) : Append(g, v)[k] = g[k]
OBVIOUS

LEMMA AccessStep ==
  ASSUME NEW s, NEW x \in Seq(Byte), NEW rest \in Seq(Byte), Holds(s, x \o rest), NEW v \in Value
  PROVE  Holds(Access(s, Len(x), v), rest) /\ Returned(s, Access(s, Len(x), v), v)
<1> DEFINE t == Access(s, Len(x), v)
<1>1. Len(x \o rest) = Len(x) + Len(rest) /\ Len(x) \in Nat /\ Len(rest) \in Nat
  BY Joined
<1>2. s.at + Len(x) <= Len(s.buf) /\ s.ok = TRUE
  BY <1>1 DEF Holds
<1>3. t = [buf |-> s.buf, at |-> s.at + Len(x), ok |-> TRUE, got |-> Append(s.got, v)]
  BY <1>2 DEF Access, Holds
<1>5. t = [buf |-> t.buf, at |-> t.at, ok |-> TRUE, got |-> t.got]
      /\ t.buf = s.buf /\ t.at = s.at + Len(x) /\ t.got = Append(s.got, v)
  BY <1>3
<1>4. \A k \in 1 .. Len(rest) : s.buf[s.at + Len(x) + k] = rest[k]
  <2> SUFFICES ASSUME NEW k \in 1 .. Len(rest) PROVE s.buf[s.at + Len(x) + k] = rest[k]
    OBVIOUS
  <2>1. Len(x) + k \in 1 .. Len(x \o rest) /\ (x \o rest)[Len(x) + k] = rest[k]
    BY <1>1, Joined
  <2>2. s.buf[s.at + (Len(x) + k)] = (x \o rest)[Len(x) + k]
    BY <2>1 DEF Holds
  <2> QED  BY <1>1, <2>1, <2>2 DEF Holds
<1> HIDE DEF t
<1>6. Holds(t, rest)
  <2>1. t.buf \in Seq(Byte) /\ t.at \in Nat /\ t.got \in Seq(Value) /\ t.at + Len(rest) <= Len(t.buf)
    BY <1>1, <1>5, Appended DEF Holds
  <2>2. \A k \in 1 .. Len(rest) : t.buf[t.at + k] = rest[k]
    BY <1>4, <1>5
  <2> QED  BY <1>5, <2>1, <2>2 DEF Holds
<1>7. Returned(s, t, v)
  BY <1>5, Appended DEF Holds, Returned
<1> QED  BY <1>6, <1>7 DEF t

LEMMA NextBytes ==
  ASSUME NEW s, NEW x \in Seq(Byte), NEW rest \in Seq(Byte), Holds(s, x \o rest)
  PROVE  \A k \in 1 .. Len(x) : Bytes1(s, k) = x[k]
<1>1. Len(x \o rest) = Len(x) + Len(rest) /\ Len(x) \in Nat /\ Len(rest) \in Nat
  BY Joined
<1>2. \A k \in 1 .. Len(x) : (x \o rest)[k] = x[k]
  BY Joined
<1>3. \A k \in 1 .. Len(x \o rest) : s.buf[s.at + k] = (x \o rest)[k]
  BY DEF Holds
<1>4. \A k \in 1 .. Len(x) : k \in 1 .. Len(x \o rest)
  BY <1>1
<1> QED  BY <1>2, <1>3, <1>4 DEF Bytes1

LEMMA ReadsInt16 ==
  ASSUME NEW s, NEW n \in Int, NEW rest \in Seq(Byte), Holds(s, WriteInt16(n) \o rest)
  PROVE  Holds(ReadInt16(s), rest) /\ Returned(s, ReadInt16(s), AsInt16(n % Half))
<1>1. WriteInt16(n) \in Seq(Byte) /\ Len(WriteInt16(n)) = 2
  BY Written16
<1>2. Bytes2(s, 1) = n % Half
  <2>1. \A k \in 1 .. 2 : Bytes1(s, k) = WriteInt16(n)[k]
    BY <1>1, NextBytes
  <2> QED  BY <2>1, Written16 DEF Bytes2
<1>3. AsInt16(n % Half) \in Value
  BY DEF AsInt16, Half, Value
<1> QED  BY <1>1, <1>2, <1>3, AccessStep DEF ReadInt16

LEMMA ReadsInt32 ==
  ASSUME NEW s, NEW n \in Int32, NEW rest \in Seq(Byte), Holds(s, WriteInt32(n) \o rest)
  PROVE  Holds(ReadInt32(s), rest) /\ Returned(s, ReadInt32(s), n)
<1>1. n \in Int /\ WriteInt32(n) \in Seq(Byte) /\ Len(WriteInt32(n)) = 4
  BY Written32 DEF Int32, Half
<1>2. Bytes2(s, 1) = n % Half /\ Bytes2(s, 3) = (n \div Half) % Half
  <2>1. \A k \in 1 .. 4 : Bytes1(s, k) = WriteInt32(n)[k]
    BY <1>1, NextBytes
  <2> QED  BY <1>1, <2>1, Written32 DEF Bytes2
<1>3. AsInt16((n \div Half) % Half) = n \div Half
  <2>1. n \div Half \in Int16
    BY DEF Int32
  <2> QED  BY <2>1, SignedHalf
<1>4. (n % Half) + Half * (n \div Half) = n
  BY <1>1 DEF Half
<1>5. n \in Value
  BY <1>1 DEF Value
<1> QED  BY <1>1, <1>2, <1>3, <1>4, <1>5, AccessStep DEF ReadInt32

LEMMA ReadsInt64 ==
  ASSUME NEW s, NEW n \in Int64, NEW rest \in Seq(Byte), Holds(s, WriteInt64(n) \o rest)
  PROVE  Holds(ReadInt64(s), rest) /\ Returned(s, ReadInt64(s), n)
<1> DEFINE b == n \div Half
           c == b \div Half
           d == c \div Half
<1>1. n \in Int /\ WriteInt64(n) \in Seq(Byte) /\ Len(WriteInt64(n)) = 8
  BY Written64 DEF Int64, Half
<1>2. Bytes2(s, 1) = n % Half /\ Bytes2(s, 3) = b % Half /\ Bytes2(s, 5) = c % Half /\ Bytes2(s, 7) = d % Half
  <2>1. \A k \in 1 .. 8 : Bytes1(s, k) = WriteInt64(n)[k]
    BY <1>1, NextBytes
  <2> QED  BY <1>1, <2>1, Written64 DEF Bytes2
<1>3. b \in Int /\ c \in Int /\ d \in Int16
  BY <1>1 DEF Int64, Int32, Half
<1>4. AsInt16(d % Half) = d
  BY <1>3, SignedHalf
<1>5. (n % Half) + Half * b = n /\ (b % Half) + Half * c = b /\ (c % Half) + Half * d = c
  BY <1>1, <1>3 DEF Half
<1>6. n \in Value
  BY <1>1 DEF Value
<1> HIDE DEF b, c, d
<1>7. ReadInt64(s) = Access(s, 8, n)
  BY <1>2, <1>4, <1>5 DEF ReadInt64
<1> QED  BY <1>1, <1>6, <1>7, AccessStep

LEMMA ReadsString ==
  ASSUME NEW s, NEW str \in String, NEW rest \in Seq(Byte), Holds(s, WriteString(str) \o rest)
  PROVE  /\ WriteString(str) \in Seq(Byte)
         /\ Holds(ReadString(s), rest) /\ Returned(s, ReadString(s), str)
<1> DEFINE x == WriteString(str)
           n == Len(str)
<1>1. n \in Nat /\ str = [k \in 1 .. n |-> str[k]] /\ \A k \in 1 .. n : str[k] \in Char
  BY DEF String
<1>2. x \in Seq(Byte) /\ Len(x) = n + 1 /\ x[n + 1] = 0 /\ \A k \in 1 .. n : x[k] = str[k]
  <2>1. str \in Seq(Byte) /\ <<0>> \in Seq(Byte) /\ Len(<<0>>) = 1 /\ <<0>>[1] = 0
    BY DEF String, Char, Byte
  <2>2. x = str \o <<0>>
    BY DEF WriteString
  <2>3. /\ x \in Seq(Byte) /\ Len(x) = n + Len(<<0>>)
        /\ \A k \in 1 .. n : x[k] = str[k]
        /\ \A k \in 1 .. Len(<<0>>) : x[n + k] = <<0>>[k]
    BY <2>1, <2>2, Joined
  <2> QED  BY <2>1, <2>3
<1> HIDE DEF x
<1>3. \A k \in 1 .. n + 1 : Bytes1(s, k) = x[k]
  BY <1>1, <1>2, NextBytes DEF x
<1>4. Bytes1(s, n + 1) = 0 /\ \A k \in 1 .. n : Bytes1(s, k) = str[k] /\ Bytes1(s, k) # 0
  BY <1>1, <1>2, <1>3 DEF Char
<1>5. s.at + n + 1 <= Len(s.buf) /\ s.at \in Nat /\ Len(s.buf) \in Nat
  <2>1. Len(x \o rest) = Len(x) + Len(rest) /\ Len(rest) \in Nat
    <3>1. x \in Seq(Byte) /\ rest \in Seq(Byte)
      BY <1>2
    <3> QED  BY <3>1
  <2>2. /\ s.at + Len(x \o rest) <= Len(s.buf) /\ s.at \in Nat /\ Len(s.buf) \in Nat
    BY DEF Holds, x
  <2> QED  BY <1>1, <1>2, <2>1, <2>2
<1>6. StrLen(s) = n
  <2> DEFINE P(m) == /\ s.at + m >= Len(s.buf) \/ Bytes1(s, m + 1) = 0
                     /\ \A k \in 1 .. m : Bytes1(s, k) # 0
  <2>1. n \in 0 .. Len(s.buf) /\ P(n)
    BY <1>1, <1>4, <1>5
  <2>2. ASSUME NEW m \in 0 .. Len(s.buf), P(m) PROVE m = n
    <3>1. CASE m < n
      <4>1. m + 1 \in 1 .. n /\ ~(s.at + m >= Len(s.buf))
        BY <1>1, <1>5, <3>1
      <4> QED  BY <1>4, <2>2, <4>1
    <3>2. CASE m > n
      <4>1. n + 1 \in 1 .. m
        BY <1>1, <3>2
      <4> QED  BY <1>4, <2>2, <4>1
    <3> QED  BY <1>1, <3>1, <3>2
  <2>3. StrLen(s) = CHOOSE m \in 0 .. Len(s.buf) : P(m)
    BY DEF StrLen
  <2> HIDE DEF P
  <2> QED  BY <2>1, <2>2, <2>3
<1>7. [k \in 1 .. n |-> Bytes1(s, k)] = str
  <2>1. [k \in 1 .. n |-> Bytes1(s, k)] = [k \in 1 .. n |-> str[k]]
    BY <1>4
  <2> QED  BY <1>1, <2>1
<1>8. ReadString(s) = Access(s, Len(x), str)
  BY <1>2, <1>6, <1>7 DEF ReadString
<1>9. str \in Value
  BY DEF Value
<1> QED  BY <1>2, <1>8, <1>9, AccessStep DEF x

\* The last field of a packet.
LEMMA LastField ==
  ASSUME NEW s, NEW x, Holds(s, x)
  PROVE  Holds(s, x \o <<>>) /\ <<>> \in Seq(Byte)
<1>1. x \in Seq(Byte)
  BY DEF Holds
<1>2. x \o <<>> = x
  BY <1>1
<1> QED  BY <1>2

-----------------------------------------------------------------------------
(* Packets. *)

LEMMA PacketBytes ==
  ASSUME NEW opcode \in Int, NEW body \in Seq(Byte)
  PROVE  LET rest == WriteInt16(opcode) \o body
             n == Len(body) + 4
         IN  /\ rest \in Seq(Byte) /\ Packet(opcode, body) \in Seq(Byte) /\ Len(Packet(opcode, body)) = n
             /\ Len(rest) = n - 2
             /\ \A k \in 1 .. Len(rest) : Packet(opcode, body)[2 + k] = rest[k]
             /\ Packet(opcode, body)[1] + 256 * Packet(opcode, body)[2] = n % Half
<1> DEFINE rest == WriteInt16(opcode) \o body
           head == WriteInt16(Len(rest) + 2)
<1>1. rest \in Seq(Byte) /\ Len(rest) = Len(body) + 2 /\ Len(body) \in Nat
  <2>1. WriteInt16(opcode) \in Seq(Byte) /\ Len(WriteInt16(opcode)) = 2
    BY Written16
  <2>2. rest \in Seq(Byte) /\ Len(rest) = Len(WriteInt16(opcode)) + Len(body)
    BY <2>1, Joined
  <2> QED  BY <2>1, <2>2
<1>2. head \in Seq(Byte) /\ Len(head) = 2 /\ head[1] + 256 * head[2] = (Len(rest) + 2) % Half
  BY <1>1, Written16
<1>3. Packet(opcode, body) = head \o rest
  BY DEF Packet
<1> HIDE DEF head, rest
<1>4. /\ head \o rest \in Seq(Byte) /\ Len(head \o rest) = Len(head) + Len(rest)
      /\ \A k \in 1 .. Len(head) : (head \o rest)[k] = head[k]
      /\ \A k \in 1 .. Len(rest) : (head \o rest)[Len(head) + k] = rest[k]
  BY <1>1, <1>2, Joined
<1>5. 1 \in 1 .. 2 /\ 2 \in 1 .. 2
  OBVIOUS
<1>6. Len(rest) + 2 = Len(body) + 4
  BY <1>1
<1>7. /\ rest \in Seq(Byte) /\ Packet(opcode, body) \in Seq(Byte) /\ Len(Packet(opcode, body)) = Len(body) + 4
      /\ Len(rest) = (Len(body) + 4) - 2
      /\ \A k \in 1 .. Len(rest) : Packet(opcode, body)[2 + k] = rest[k]
  BY <1>1, <1>2, <1>3, <1>4
<1>8. Packet(opcode, body)[1] + 256 * Packet(opcode, body)[2] = (Len(body) + 4) % Half
  BY <1>2, <1>3, <1>4, <1>5, <1>6
<1> QED  BY <1>7, <1>8 DEF rest

\* A handler starts at the body, with the opcode read.
LEMMA OpensPacket ==
  ASSUME NEW opcode \in Int16, NEW body \in Seq(Byte)
  PROVE  LET s == Opened(Packet(opcode, body))
         IN  Holds(s, body) /\ Len(s.got) = 1 /\ s.got[1] = opcode
<1> DEFINE p == Packet(opcode, body)
           rest == WriteInt16(opcode) \o body
           s == [buf |-> p, at |-> 2, ok |-> TRUE, got |-> <<>>]
<1>1. opcode \in Int
  BY AllIntegers
<1>2. /\ rest \in Seq(Byte) /\ p \in Seq(Byte) /\ Len(p) = Len(rest) + 2
      /\ \A k \in 1 .. Len(rest) : p[2 + k] = rest[k]
  BY <1>1, PacketBytes
<1>3. s.buf = p /\ s.at = 2 /\ s.got = <<>> /\ s = [buf |-> s.buf, at |-> s.at, ok |-> TRUE, got |-> s.got]
  OBVIOUS
<1>4. Opened(p) = ReadInt16(s)
  BY DEF Opened
<1> HIDE DEF s, p, rest
<1>5. Holds(s, rest)
  <2>1. Len(rest) \in Nat /\ Len(p) \in Nat /\ s.got \in Seq(Value)
    BY <1>2, <1>3
  <2> QED  BY <1>2, <1>3, <2>1 DEF Holds
<1>6. Holds(ReadInt16(s), body) /\ Returned(s, ReadInt16(s), opcode)
  BY <1>1, <1>5, ReadsInt16, SignedHalf DEF rest
<1>7. Len(s.got) = 0
  BY <1>3
<1> QED  BY <1>4, <1>6, <1>7 DEF Returned, p

LEMMA ReadsServerInfo ==
  ASSUME NEW s, NEW info \in ServerInfo, Holds(s, WriteServerInfo(info)), Len(s.got) = 1
  PROVE  LET t == ReadServerInfo(s)
         IN  t.ok /\ t.got[1] = s.got[1] /\ ServerInfoOf(t.got) = info
<1> DEFINE port == AsInt16(info.port % Half)
           x5 == WriteInt64(info.current)
           x4 == WriteInt64(info.max) \o x5
           x3 == WriteInt16(info.port) \o x4
           x2 == WriteString(info.ip) \o x3
           s1 == ReadInt16(s)
           s2 == ReadString(s1)
           s3 == ReadInt16(s2)
           s4 == ReadInt64(s3)
           s5 == ReadInt64(s4)
<1>1. /\ info.type \in Int16 /\ info.ip \in String /\ info.port \in UInt16
      /\ info.max \in Int64 /\ info.current \in Int64
      /\ info.type \in Int /\ info.port \in Int /\ info.max \in Int /\ info.current \in Int
  <2>1. /\ info.type \in Int16 /\ info.ip \in String /\ info.port \in UInt16
        /\ info.max \in Int64 /\ info.current \in Int64
    BY DEF ServerInfo
  <2> QED  BY <2>1, AllIntegers
<1>2. x5 \in Seq(Byte) /\ x4 \in Seq(Byte) /\ x3 \in Seq(Byte) /\ x2 \in Seq(Byte)
  <2>1. WriteInt64(info.current) \in Seq(Byte) /\ WriteInt64(info.max) \in Seq(Byte)
        /\ WriteInt16(info.port) \in Seq(Byte)
    BY <1>1, IntegerBytes
  <2>2. WriteString(info.ip) \in Seq(Byte)
    BY <1>1, StringBytes
  <2> QED  BY <2>1, <2>2, Joined
<1>3. Holds(s, WriteInt16(info.type) \o x2)
  BY DEF WriteServerInfo
<1> HIDE DEF x2, x3, x4, x5
<1>4. Holds(s1, x2) /\ Returned(s, s1, info.type)
  BY <1>1, <1>2, <1>3, ReadsInt16, SignedHalf
<1>5. Holds(s2, x3) /\ Returned(s1, s2, info.ip)
  BY <1>1, <1>2, <1>4, ReadsString DEF x2
<1>6. Holds(s3, x4) /\ Returned(s2, s3, port)
  BY <1>1, <1>2, <1>5, ReadsInt16 DEF x3
<1>7. Holds(s4, x5) /\ Returned(s3, s4, info.max)
  BY <1>1, <1>2, <1>6, ReadsInt64 DEF x4
<1>8. Holds(s5, <<>>) /\ Returned(s4, s5, info.current)
  BY <1>1, <1>7, LastField, ReadsInt64 DEF x5
<1>9. port % Half = info.port
  BY <1>1, UnsignedHalf
<1>10. ReadServerInfo(s) = s5
  BY DEF ReadServerInfo
<1> HIDE DEF s1, s2, s3, s4, s5, port
<1>11. /\ s5.ok /\ s5.got \in Seq(Value) /\ Len(s5.got) = 6
       /\ s5.got[1] = s.got[1] /\ s5.got[2] = info.type /\ s5.got[3] = info.ip
       /\ s5.got[4] = port /\ s5.got[5] = info.max /\ s5.got[6] = info.current
  <2>1. s5.ok /\ s.got \in Seq(Value) /\ s1.got \in Seq(Value) /\ s2.got \in Seq(Value) /\ s3.got \in Seq(Value)
        /\ s4.got \in Seq(Value) /\ s5.got \in Seq(Value)
    <3>1. \A t, x : Holds(t, x) => t.ok /\ t.got \in Seq(Value)
      BY DEF Holds
    <3> QED  BY <3>1, <1>3, <1>4, <1>5, <1>6, <1>7, <1>8
  <2>2. Len(s1.got) = 2 /\ s1.got[2] = info.type /\ s1.got[1] = s.got[1]
    BY <1>4 DEF Returned
  <2>3. Len(s2.got) = 3 /\ s2.got[3] = info.ip /\ s2.got[1] = s1.got[1] /\ s2.got[2] = s1.got[2]
    BY <2>2, <1>5 DEF Returned
  <2>4. Len(s3.got) = 4 /\ s3.got[4] = port /\ \A k \in 1 .. 3 : s3.got[k] = s2.got[k]
    BY <2>3, <1>6 DEF Returned
  <2>5. Len(s4.got) = 5 /\ s4.got[5] = info.max /\ \A k \in 1 .. 4 : s4.got[k] = s3.got[k]
    BY <2>4, <1>7 DEF Returned
  <2>6. Len(s5.got) = 6 /\ s5.got[6] = info.current /\ \A k \in 1 .. 5 : s5.got[k] = s4.got[k]
    BY <2>5, <1>8 DEF Returned
  <2> QED  BY <2>1, <2>2, <2>3, <2>4, <2>5, <2>6
<1>13. info = [type |-> info.type, ip |-> info.ip, port |-> info.port, max |-> info.max, current |-> info.current]
  BY DEF ServerInfo
<1>14. ServerInfoOf(s5.got) =
         [type |-> info.type, ip |-> info.ip, port |-> port % Half, max |-> info.max, current |-> info.current]
  BY <1>11 DEF ServerInfoOf
<1> QED  BY <1>9, <1>10, <1>11, <1>13, <1>14

LEMMA ReadsSessionInfo ==
  ASSUME NEW s, NEW info \in SessionInfo, Holds(s, WriteSessionInfo(info)), Len(s.got) = 3
  PROVE  LET t == ReadSessionInfo(s)
         IN  /\ t.ok /\ \A k \in 1 .. 3 : t.got[k] = s.got[k]
             /\ SessionInfoOf(t.got) = [info EXCEPT !.time = 1000 * Seconds(@)]
<1> DEFINE secs == Seconds(info.time)
           x5 == WriteInt32(info.cid)
           x4 == WriteInt32(info.accid) \o x5
           x3 == WriteInt64(secs) \o x4
           x2 == WriteString(info.id) \o x3
           s1 == ReadString(s)
           s2 == ReadString(s1)
           s3 == ReadInt64(s2)
           s4 == ReadInt32(s3)
           s5 == ReadInt32(s4)
<1>1. /\ info.ip \in String /\ info.id \in String /\ secs \in Int64
      /\ info.accid \in Int32 /\ info.cid \in Int32
      /\ secs \in Int /\ info.accid \in Int /\ info.cid \in Int
  <2>1. /\ info.ip \in String /\ info.id \in String /\ secs \in Int64
        /\ info.accid \in Int32 /\ info.cid \in Int32
    BY DEF SessionInfo
  <2> QED  BY <2>1, AllIntegers
<1> HIDE DEF secs
<1>2. x5 \in Seq(Byte) /\ x4 \in Seq(Byte) /\ x3 \in Seq(Byte) /\ x2 \in Seq(Byte)
  <2>1. WriteInt64(secs) \in Seq(Byte) /\ WriteInt32(info.accid) \in Seq(Byte)
        /\ WriteInt32(info.cid) \in Seq(Byte)
    BY <1>1, IntegerBytes
  <2>2. WriteString(info.id) \in Seq(Byte)
    BY <1>1, StringBytes
  <2> QED  BY <2>1, <2>2, Joined
<1>3. Holds(s, WriteString(info.ip) \o x2)
  BY DEF WriteSessionInfo, secs
<1> HIDE DEF x2, x3, x4, x5
<1>4. Holds(s1, x2) /\ Returned(s, s1, info.ip)
  BY <1>1, <1>2, <1>3, ReadsString
<1>5. Holds(s2, x3) /\ Returned(s1, s2, info.id)
  BY <1>1, <1>2, <1>4, ReadsString DEF x2
<1>6. Holds(s3, x4) /\ Returned(s2, s3, secs)
  BY <1>1, <1>2, <1>5, ReadsInt64 DEF x3
<1>7. Holds(s4, x5) /\ Returned(s3, s4, info.accid)
  BY <1>1, <1>2, <1>6, ReadsInt32 DEF x4
<1>8. Holds(s5, <<>>) /\ Returned(s4, s5, info.cid)
  BY <1>1, <1>7, LastField, ReadsInt32 DEF x5
<1>10. ReadSessionInfo(s) = s5
  BY DEF ReadSessionInfo
<1> HIDE DEF s1, s2, s3, s4, s5
<1>11. /\ s5.ok /\ s5.got \in Seq(Value) /\ Len(s5.got) = 8
       /\ \A k \in 1 .. 3 : s5.got[k] = s.got[k]
       /\ s5.got[4] = info.ip /\ s5.got[5] = info.id
       /\ s5.got[6] = secs /\ s5.got[7] = info.accid /\ s5.got[8] = info.cid
  <2>1. s5.ok /\ s.got \in Seq(Value) /\ s1.got \in Seq(Value) /\ s2.got \in Seq(Value) /\ s3.got \in Seq(Value)
        /\ s4.got \in Seq(Value) /\ s5.got \in Seq(Value)
    <3>1. \A t, x : Holds(t, x) => t.ok /\ t.got \in Seq(Value)
      BY DEF Holds
    <3> QED  BY <3>1, <1>3, <1>4, <1>5, <1>6, <1>7, <1>8
  <2>2. Len(s1.got) = 4 /\ s1.got[4] = info.ip /\ \A k \in 1 .. 3 : s1.got[k] = s.got[k]
    BY <1>4 DEF Returned
  <2>3. /\ Len(s2.got) = 5 /\ s2.got[4] = info.ip /\ s2.got[5] = info.id
        /\ \A k \in 1 .. 3 : s2.got[k] = s.got[k]
    BY <2>2, <1>5 DEF Returned
  <2>4. /\ Len(s3.got) = 6 /\ s3.got[4] = info.ip /\ s3.got[5] = info.id /\ s3.got[6] = secs
        /\ \A k \in 1 .. 3 : s3.got[k] = s.got[k]
    BY <2>3, <1>6 DEF Returned
  <2>5. /\ Len(s4.got) = 7 /\ s4.got[4] = info.ip /\ s4.got[5] = info.id /\ s4.got[6] = secs
        /\ s4.got[7] = info.accid /\ \A k \in 1 .. 3 : s4.got[k] = s.got[k]
    BY <2>4, <1>7 DEF Returned
  <2>6. /\ Len(s5.got) = 8 /\ s5.got[4] = info.ip /\ s5.got[5] = info.id /\ s5.got[6] = secs
        /\ s5.got[7] = info.accid /\ s5.got[8] = info.cid /\ \A k \in 1 .. 3 : s5.got[k] = s.got[k]
    BY <2>5, <1>8 DEF Returned
  <2> QED  BY <2>1, <2>6
<1>13. [info EXCEPT !.time = 1000 * Seconds(@)] =
         [ip |-> info.ip, id |-> info.id, time |-> 1000 * secs, accid |-> info.accid, cid |-> info.cid]
  BY DEF SessionInfo, secs
<1>14. SessionInfoOf(s5.got) =
         [ip |-> info.ip, id |-> info.id, time |-> 1000 * secs, accid |-> info.accid, cid |-> info.cid]
  BY <1>11 DEF SessionInfoOf
<1> QED  BY <1>10, <1>11, <1>13, <1>14

-----------------------------------------------------------------------------
(* The hand-off. *)

LEMMA SessionBytes ==
  ASSUME NEW info \in SessionInfo
  PROVE  WriteSessionInfo(info) \in Seq(Byte)
<1>1. /\ info.ip \in String /\ info.id \in String /\ Seconds(info.time) \in Int
      /\ info.accid \in Int /\ info.cid \in Int
  BY AllIntegers DEF SessionInfo
<1>2. /\ WriteString(info.ip) \in Seq(Byte) /\ WriteString(info.id) \in Seq(Byte)
      /\ WriteInt64(Seconds(info.time)) \in Seq(Byte)
      /\ WriteInt32(info.accid) \in Seq(Byte) /\ WriteInt32(info.cid) \in Seq(Byte)
  <2>1. WriteString(info.ip) \in Seq(Byte) /\ WriteString(info.id) \in Seq(Byte)
    BY <1>1, StringBytes
  <2>2. WriteInt64(Seconds(info.time)) \in Seq(Byte)
    BY <1>1, IntegerBytes
  <2>3. WriteInt32(info.accid) \in Seq(Byte) /\ WriteInt32(info.cid) \in Seq(Byte)
    BY <1>1, IntegerBytes
  <2> QED  BY <2>1, <2>2, <2>3
<1> QED  BY <1>2, Joined DEF WriteSessionInfo

LEMMA ServerBytes ==
  ASSUME NEW info \in ServerInfo
  PROVE  WriteServerInfo(info) \in Seq(Byte)
<1>1. /\ info.type \in Int /\ info.ip \in String /\ info.port \in Int
      /\ info.max \in Int /\ info.current \in Int
  BY AllIntegers DEF ServerInfo
<1>2. /\ WriteInt16(info.type) \in Seq(Byte) /\ WriteString(info.ip) \in Seq(Byte)
      /\ WriteInt16(info.port) \in Seq(Byte)
      /\ WriteInt64(info.max) \in Seq(Byte) /\ WriteInt64(info.current) \in Seq(Byte)
  BY <1>1, StringBytes, IntegerBytes
<1> QED  BY <1>2, Joined DEF WriteServerInfo


\* The intermediate server knows a server as it has described itself.
LEMMA RegistrationArrives ==
  ASSUME NEW info \in ServerInfo
  PROVE  LET r == HandleRegisterServer(Registration(info))
         IN  r.ok /\ r.opcode = kRegisterRemoteServer /\ r.info = info
<1> DEFINE s == Opened(Registration(info))
<1>1. kRegisterRemoteServer \in Int16
  BY DEF kRegisterRemoteServer, Int16
<1>2. WriteServerInfo(info) \in Seq(Byte)
  BY ServerBytes
<1>3. Holds(s, WriteServerInfo(info)) /\ Len(s.got) = 1 /\ s.got[1] = kRegisterRemoteServer
  BY <1>1, <1>2, OpensPacket DEF Registration
<1> HIDE DEF s
<1>4. LET t == ReadServerInfo(s)
      IN  t.ok /\ t.got[1] = s.got[1] /\ ServerInfoOf(t.got) = info
  BY <1>3, ReadsServerInfo
<1> QED  BY <1>3, <1>4 DEF HandleRegisterServer, s

\* A request and a notification differ in their second value.
LEMMA SessionArrives ==
  ASSUME NEW s, NEW t, NEW u, NEW v, NEW user \in String, NEW info \in SessionInfo,
         Holds(s, WriteString(user) \o WriteSessionInfo(info)), Len(s.got) = 2,
         s.got[1] = u, s.got[2] = v, t = ReadSessionInfo(ReadString(s))
  PROVE  /\ t.ok /\ t.got[1] = u /\ t.got[2] = v /\ t.got[3] = user
         /\ SessionInfoOf(t.got) = [info EXCEPT !.time = 1000 * Seconds(@)]
<1> DEFINE r == ReadString(s)
<1>1. WriteSessionInfo(info) \in Seq(Byte)
  BY SessionBytes
<1>2. Holds(r, WriteSessionInfo(info)) /\ Returned(s, r, user)
  BY <1>1, ReadsString
<1> HIDE DEF r
<1>3. Len(r.got) = 3 /\ r.got[3] = user /\ \A k \in 1 .. 2 : r.got[k] = s.got[k]
  BY <1>2 DEF Returned
<1>4. t.ok /\ (\A k \in 1 .. 3 : t.got[k] = r.got[k])
      /\ SessionInfoOf(t.got) = [info EXCEPT !.time = 1000 * Seconds(@)]
  <2>1. t = ReadSessionInfo(r)
    BY DEF r
  <2> QED  BY <1>2, <1>3, <2>1, ReadsSessionInfo
<1>5. t.got[1] = u /\ t.got[2] = v /\ t.got[3] = user
  BY <1>3, <1>4
<1> QED  BY <1>4, <1>5

LEMMA RequestArrives ==
  ASSUME NEW type \in Int16, NEW user \in String, NEW info \in SessionInfo
  PROVE  LET r == HandleRequestUserMigration(Request(type, user, info))
         IN  /\ r.ok /\ r.opcode = kRequestUserMigration /\ r.type = type /\ r.user = user
             /\ r.info = [info EXCEPT !.time = 1000 * Seconds(@)]
<1> DEFINE s == Opened(Request(type, user, info))
           rest == WriteString(user) \o WriteSessionInfo(info)
<1>1. kRequestUserMigration \in Int16 /\ type \in Int
  BY AllIntegers DEF kRequestUserMigration, Int16
<1>2. rest \in Seq(Byte) /\ WriteInt16(type) \in Seq(Byte) /\ WriteInt16(type) \o rest \in Seq(Byte)
  BY <1>1, SessionBytes, StringBytes, IntegerBytes, Joined
<1>3. Holds(s, WriteInt16(type) \o rest) /\ Len(s.got) = 1 /\ s.got[1] = kRequestUserMigration
  BY <1>1, <1>2, OpensPacket DEF Request
<1> HIDE DEF s, rest
<1> DEFINE r == ReadInt16(s)
<1>4. Holds(r, rest) /\ Returned(s, r, type)
  BY <1>1, <1>2, <1>3, ReadsInt16, SignedHalf
<1> HIDE DEF r
<1>5. Len(r.got) = 2 /\ r.got[1] = kRequestUserMigration /\ r.got[2] = type
  BY <1>3, <1>4 DEF Returned
<1> DEFINE t == ReadSessionInfo(ReadString(r))
<1>6. /\ t.ok /\ t.got[1] = kRequestUserMigration /\ t.got[2] = type /\ t.got[3] = user
      /\ SessionInfoOf(t.got) = [info EXCEPT !.time = 1000 * Seconds(@)]
  BY <1>4, <1>5, SessionArrives DEF rest
<1>7. HandleRequestUserMigration(Request(type, user, info)) =
        [ok |-> t.ok, opcode |-> t.got[1], type |-> t.got[2], user |-> t.got[3], info |-> SessionInfoOf(t.got)]
  BY DEF HandleRequestUserMigration, r, s
<1> QED  BY <1>6, <1>7

LEMMA NotificationArrives ==
  ASSUME NEW origin \in String, NEW user \in String, NEW info \in SessionInfo
  PROVE  LET n == NotifySessionAuthorityInfo(Notification(origin, user, info))
         IN  /\ n.ok /\ n.opcode = kNotifySessionAuthorityInfo /\ n.origin = origin /\ n.user = user
             /\ n.info = [info EXCEPT !.time = 1000 * Seconds(@)]
<1> DEFINE s == Opened(Notification(origin, user, info))
           rest == WriteString(user) \o WriteSessionInfo(info)
<1>1. kNotifySessionAuthorityInfo \in Int16
  BY DEF kNotifySessionAuthorityInfo, Int16
<1>2. rest \in Seq(Byte) /\ WriteString(origin) \in Seq(Byte) /\ WriteString(origin) \o rest \in Seq(Byte)
  BY SessionBytes, StringBytes, Joined
<1>3. Holds(s, WriteString(origin) \o rest) /\ Len(s.got) = 1 /\ s.got[1] = kNotifySessionAuthorityInfo
  BY <1>1, <1>2, OpensPacket DEF Notification
<1> HIDE DEF s, rest
<1> DEFINE r == ReadString(s)
<1>4. Holds(r, rest) /\ Returned(s, r, origin)
  BY <1>2, <1>3, ReadsString
<1> HIDE DEF r
<1>5. Len(r.got) = 2 /\ r.got[1] = kNotifySessionAuthorityInfo /\ r.got[2] = origin
  BY <1>3, <1>4 DEF Returned
<1> DEFINE t == ReadSessionInfo(ReadString(r))
<1>6. /\ t.ok /\ t.got[1] = kNotifySessionAuthorityInfo /\ t.got[2] = origin /\ t.got[3] = user
      /\ SessionInfoOf(t.got) = [info EXCEPT !.time = 1000 * Seconds(@)]
  BY <1>4, <1>5, SessionArrives DEF rest
<1>7. NotifySessionAuthorityInfo(Notification(origin, user, info)) =
        [ok |-> t.ok, opcode |-> t.got[1], origin |-> t.got[2], user |-> t.got[3], info |-> SessionInfoOf(t.got)]
  BY DEF NotifySessionAuthorityInfo, r, s
<1> QED  BY <1>6, <1>7

(* The authority that reaches the lobby or zone server is the one that was *)
(* asked for, with its clock in whole seconds, whatever the intermediate   *)
(* server reads and writes in between (LoginServer.cpp:297-308,            *)
(* IntermediateServer.cpp:198-222, LobbyServer.cpp:53-56).                 *)
THEOREM AuthorityArrives ==
  ASSUME NEW type \in Int16, NEW origin \in String, NEW user \in String, NEW info \in SessionInfo
  PROVE  LET r == HandleRequestUserMigration(Request(type, user, info))
             n == NotifySessionAuthorityInfo(Notification(origin, r.user, r.info))
         IN  /\ r.ok /\ r.opcode = kRequestUserMigration /\ r.type = type
             /\ n.ok /\ n.opcode = kNotifySessionAuthorityInfo /\ n.origin = origin /\ n.user = user
             /\ n.info = [info EXCEPT !.time = 1000 * Seconds(@)]
<1> DEFINE r == HandleRequestUserMigration(Request(type, user, info))
           whole == [info EXCEPT !.time = 1000 * Seconds(@)]
<1>1. /\ r.ok /\ r.opcode = kRequestUserMigration /\ r.type = type /\ r.user = user /\ r.info = whole
  BY RequestArrives
<1>2. whole \in SessionInfo /\ [whole EXCEPT !.time = 1000 * Seconds(@)] = whole
  <2>1. info.time \in Nat /\ Seconds(info.time) \in Int64
    BY DEF SessionInfo
  <2>2. Seconds(info.time) \in Nat /\ Seconds(1000 * Seconds(info.time)) = Seconds(info.time)
    BY <2>1 DEF Seconds
  <2>3. 1000 * Seconds(info.time) \in {t \in Nat : Seconds(t) \in Int64}
    BY <2>1, <2>2
  <2>4. whole.time = 1000 * Seconds(info.time) /\ whole \in SessionInfo
    BY <2>3 DEF SessionInfo
  <2> HIDE DEF whole
  <2>5. [whole EXCEPT !.time = whole.time] = whole
    BY <2>4 DEF SessionInfo
  <2> QED  BY <2>2, <2>4, <2>5
<1> HIDE DEF r, whole
<1>3. LET n == NotifySessionAuthorityInfo(Notification(origin, user, whole))
      IN  /\ n.ok /\ n.opcode = kNotifySessionAuthorityInfo /\ n.origin = origin /\ n.user = user
          /\ n.info = whole
  BY <1>2, NotificationArrives
<1> QED  BY <1>1, <1>3 DEF r, whole

LEMMA ReactionArrives ==
  ASSUME NEW origin \in String, NEW user \in String
  PROVE  LET r == HandleReactSessionAuthorityInfo(Reaction(origin, user))
         IN  r.ok /\ r.opcode = kReactSessionAuthorityInfo /\ r.origin = origin /\ r.user = user
<1> DEFINE s == Opened(Reaction(origin, user))
           r == ReadString(s)
           t == ReadString(r)
<1>1. kReactSessionAuthorityInfo \in Int16
  BY DEF kReactSessionAuthorityInfo, Int16
<1>2. WriteString(user) \in Seq(Byte) /\ WriteString(origin) \o WriteString(user) \in Seq(Byte)
  BY StringBytes, Joined
<1>3. Holds(s, WriteString(origin) \o WriteString(user)) /\ Len(s.got) = 1 /\ s.got[1] = kReactSessionAuthorityInfo
  BY <1>1, <1>2, OpensPacket DEF Reaction
<1> HIDE DEF s
<1>4. Holds(r, WriteString(user)) /\ Returned(s, r, origin)
  BY <1>2, <1>3, ReadsString
<1> HIDE DEF r
<1>5. Holds(t, <<>>) /\ Returned(r, t, user)
  BY <1>4, LastField, ReadsString
<1> HIDE DEF t
<1>6. Len(r.got) = 2 /\ r.got[1] = kReactSessionAuthorityInfo /\ r.got[2] = origin
  BY <1>3, <1>4 DEF Returned
<1>7. t.got[1] = kReactSessionAuthorityInfo /\ t.got[2] = origin /\ t.got[3] = user
  BY <1>5, <1>6 DEF Returned
<1>8. t.ok
  BY <1>5 DEF Holds
<1>9. HandleReactSessionAuthorityInfo(Reaction(origin, user)) =
        [ok |-> t.ok, opcode |-> t.got[1], origin |-> t.got[2], user |-> t.got[3]]
  BY DEF HandleReactSessionAuthorityInfo, t, r, s
<1> QED  BY <1>7, <1>8, <1>9

\* The lower half of the int32_t that was written is the port.
LEMMA AnswerArrives ==
  ASSUME NEW user \in String, NEW ip \in String, NEW port \in UInt16
  PROVE  LET a == ReactUserMigation(Answer(user, ip, port))
         IN  a.ok /\ a.opcode = kReactUserMigration /\ a.user = user /\ a.ip = ip /\ a.port = port
<1> DEFINE x3 == WriteInt32(port)
           x2 == WriteString(ip) \o x3
           low == AsInt16(port % Half)
           s == Opened(Answer(user, ip, port))
           s1 == ReadString(s)
           s2 == ReadString(s1)
           s3 == ReadInt16(s2)
<1>1. kReactUserMigration \in Int16 /\ port \in Int /\ port \div Half \in Int
  BY AllIntegers DEF kReactUserMigration, Int16, Half
<1>2. x3 \in Seq(Byte) /\ x2 \in Seq(Byte) /\ WriteString(user) \o x2 \in Seq(Byte)
      /\ WriteInt16(port \div Half) \in Seq(Byte)
  BY <1>1, StringBytes, IntegerBytes, Joined
<1>3. Holds(s, WriteString(user) \o x2) /\ Len(s.got) = 1 /\ s.got[1] = kReactUserMigration
  BY <1>1, <1>2, OpensPacket DEF Answer
<1> HIDE DEF s, x2, x3
<1>4. Holds(s1, x2) /\ Returned(s, s1, user)
  BY <1>2, <1>3, ReadsString
<1>5. Holds(s2, x3) /\ Returned(s1, s2, ip)
  BY <1>2, <1>4, ReadsString DEF x2
<1>6. Returned(s2, s3, low) /\ s3.ok
  <2>1. Holds(s2, WriteInt16(port) \o WriteInt16(port \div Half))
    BY <1>5 DEF x3, WriteInt32
  <2>2. Holds(s3, WriteInt16(port \div Half)) /\ Returned(s2, s3, low)
    BY <1>1, <1>2, <2>1, ReadsInt16
  <2>3. \A t, x : Holds(t, x) => t.ok
    BY DEF Holds
  <2> QED  BY <2>2, <2>3
<1>7. low % Half = port
  BY UnsignedHalf
<1> HIDE DEF s1, s2, s3, low
<1>8. Len(s1.got) = 2 /\ s1.got[2] = user /\ s1.got[1] = kReactUserMigration
  BY <1>3, <1>4 DEF Returned
<1>9. Len(s2.got) = 3 /\ s2.got[3] = ip /\ s2.got[2] = user /\ s2.got[1] = kReactUserMigration
  BY <1>5, <1>8 DEF Returned
<1>10. s3.got[4] = low /\ s3.got[3] = ip /\ s3.got[2] = user /\ s3.got[1] = kReactUserMigration
  BY <1>6, <1>9 DEF Returned
<1>11. ReactUserMigation(Answer(user, ip, port)) =
         [ok |-> s3.ok, opcode |-> s3.got[1], user |-> s3.got[2], ip |-> s3.got[3], port |-> s3.got[4] % Half]
  BY DEF ReactUserMigation, s3, s2, s1, s
<1> QED  BY <1>6, <1>7, <1>10, <1>11

(* Whoever asked for a server is told the address that the server has      *)
(* registered, ports above 32767 included: the port is written as an       *)
(* int16_t, kept as a uint16_t, written as an int32_t and read as an       *)
(* int16_t again (RemoteServerInfo.cpp:88 and 97, IntermediateServer.cpp:  *)
(* 240, LobbyServer.cpp:94, LoginServer.cpp:57).                           *)
THEOREM AddressArrives ==
  ASSUME NEW server \in ServerInfo, NEW origin \in String, NEW user \in String
  PROVE  LET d == HandleRegisterServer(Registration(server))
             r == HandleReactSessionAuthorityInfo(Reaction(origin, user))
             a == ReactUserMigation(Answer(r.user, d.info.ip, d.info.port))
         IN  /\ d.ok /\ d.opcode = kRegisterRemoteServer
             /\ r.ok /\ r.opcode = kReactSessionAuthorityInfo /\ r.origin = origin
             /\ a.ok /\ a.opcode = kReactUserMigration /\ a.user = user
             /\ a.ip = server.ip /\ a.port = server.port
<1> DEFINE d == HandleRegisterServer(Registration(server))
           r == HandleReactSessionAuthorityInfo(Reaction(origin, user))
<1>1. d.ok /\ d.opcode = kRegisterRemoteServer /\ d.info = server
  BY RegistrationArrives
<1>2. r.ok /\ r.opcode = kReactSessionAuthorityInfo /\ r.origin = origin /\ r.user = user
  BY ReactionArrives
<1>3. server.ip \in String /\ server.port \in UInt16
  BY DEF ServerInfo
<1> HIDE DEF d, r
<1>4. LET a == ReactUserMigation(Answer(user, server.ip, server.port))
      IN  /\ a.ok /\ a.opcode = kReactUserMigration /\ a.user = user
          /\ a.ip = server.ip /\ a.port = server.port
  BY <1>3, AnswerArrives
<1> QED  BY <1>1, <1>2, <1>4 DEF d, r

(* The account whose player has left is the one that is logged out         *)
(* (LobbyServer.cpp:206-211, ZoneServer.cpp:216-221,                       *)
(* IntermediateServer.cpp:248-256).                                        *)
THEOREM LogoutArrives ==
  ASSUME NEW accid \in Int32
  PROVE  LET n == HandleNotifiyUserLogout(Logout(accid))
         IN  n.ok /\ n.opcode = kNotifyUserLogout /\ n.accid = accid
<1> DEFINE s == Opened(Logout(accid))
           t == ReadInt32(s)
<1>1. kNotifyUserLogout \in Int16 /\ accid \in Int
  BY AllIntegers DEF kNotifyUserLogout, Int16
<1>2. WriteInt32(accid) \in Seq(Byte)
  BY <1>1, IntegerBytes
<1>3. Holds(s, WriteInt32(accid)) /\ Len(s.got) = 1 /\ s.got[1] = kNotifyUserLogout
  BY <1>1, <1>2, OpensPacket DEF Logout
<1> HIDE DEF s
<1>4. Holds(t, <<>>) /\ Returned(s, t, accid)
  BY <1>3, LastField, ReadsInt32
<1> HIDE DEF t
<1>5. t.ok /\ t.got[1] = kNotifyUserLogout /\ t.got[2] = accid
  BY <1>3, <1>4 DEF Returned, Holds
<1>6. HandleNotifiyUserLogout(Logout(accid)) = [ok |-> t.ok, opcode |-> t.got[1], accid |-> t.got[2]]
  BY DEF HandleNotifiyUserLogout, t, s
<1> QED  BY <1>5, <1>6

(* MakePacketHead writes the length as a uint16_t, GetHead reads an        *)
(* int16_t (UE4OutPacket.hpp:14, UE4PacketCipher.hpp:15): a packet of up   *)
(* to 32767 bytes is cut where it ends, a longer one has a negative head,  *)
(* and Decode waits for more for ever (UE4PacketCipher.hpp:27).            *)
THEOREM HeadIsLength ==
  ASSUME NEW opcode \in Int, NEW body \in Seq(Byte), Len(Packet(opcode, body)) < Half
  PROVE  LET n == Len(Packet(opcode, body))
         IN  IF n <= 32767 THEN GetHead(Packet(opcode, body)) = n ELSE GetHead(Packet(opcode, body)) < 0
<1> DEFINE p == Packet(opcode, body)
           n == Len(body) + 4
<1>1. Len(p) = n /\ p[1] + 256 * p[2] = n % Half /\ n \in Nat
  BY PacketBytes
<1>2. n % Half = n
  BY <1>1 DEF Half
<1>3. GetHead(p) = IF n <= 32767 THEN n ELSE n - 65536
  BY <1>1, <1>2 DEF GetHead, AsInt16, Half
<1> HIDE DEF p
<1> QED  BY <1>1, <1>3 DEF Half, p

-----------------------------------------------------------------------------
(* The script engine.                                                      *)

Pcs == {"idle", "lock", "load", "share", "call"}

\* Who has the mutex of a script is where it needs it, and the other way round.
LocksFit ==
    \A w \in Workers, f \in Files :
        /\ alone[f] = w <=> pc[w] = "load" /\ script[w] = f
        /\ w \in shared[f] <=> pc[w] = "call" /\ script[w] = f

OneHolder == \A f \in Files : alone[f] # None => shared[f] = {}

ReadBefore ==
    \A w \in Workers :
        pc[w] # "idle" =>
            /\ script[w] \in Files /\ least[w] <= edition[script[w]]
            /\ pc[w] \in {"share", "call"} => is_initialized_[script[w]]

TypeOK ==
    /\ pc \in [Workers -> Pcs]
    /\ script \in [Workers -> Files \cup {None}] /\ reload \in [Workers -> BOOLEAN]
    /\ alone \in [Files -> Workers \cup {None}] /\ shared \in [Files -> SUBSET Workers]
    /\ is_initialized_ \in [Files -> BOOLEAN]
    /\ edition \in [Files -> Nat] /\ least \in [Workers -> Nat]

Inv == TypeOK /\ LocksFit /\ OneHolder /\ ReadBefore

LEMMA InitInv ==
  ASSUME None \notin Workers \cup Files, Init
  PROVE  Inv
BY DEF Init, Inv, TypeOK, LocksFit, OneHolder, ReadBefore, Pcs

LEMMA StepInv ==
  ASSUME None \notin Workers \cup Files, Inv, NEW w \in Workers, NEW f \in Files, Step(w, f)
  PROVE  Inv'
<1> USE DEF Inv, TypeOK, Goto, engine, Pcs
<1>1. ASSUME NEW again \in BOOLEAN, Execute(w, f, again)  PROVE Inv'
  <2>1. TypeOK'
    BY <1>1 DEF Execute
  <2>2. LocksFit' /\ OneHolder'
    BY <1>1 DEF Execute, LocksFit, OneHolder
  <2>3. ReadBefore'
    BY <1>1 DEF Execute, ReadBefore
  <2> QED  BY <2>1, <2>2, <2>3
<1>2. CASE LockAlone(w, f)
  <2>1. TypeOK'
    BY <1>2 DEF LockAlone
  <2>2. LocksFit' /\ OneHolder'
    BY <1>2 DEF LockAlone, LocksFit, OneHolder
  <2>3. ReadBefore'
    BY <1>2 DEF LockAlone, ReadBefore
  <2> QED  BY <2>1, <2>2, <2>3
<1>3. CASE Load(w, f)
  <2>1. TypeOK'
    BY <1>3 DEF Load
  <2>2. LocksFit' /\ OneHolder'
    BY <1>3 DEF Load, LocksFit, OneHolder
  <2>3. ReadBefore'
    BY <1>3 DEF Load, ReadBefore
  <2> QED  BY <2>1, <2>2, <2>3
<1>4. CASE LoadFails(w, f)
  <2>1. TypeOK'
    BY <1>4 DEF LoadFails
  <2>2. LocksFit' /\ OneHolder'
    BY <1>4 DEF LoadFails, LocksFit, OneHolder
  <2>3. ReadBefore'
    BY <1>4 DEF LoadFails, ReadBefore
  <2> QED  BY <2>1, <2>2, <2>3
<1>5. CASE LockShared(w, f)
  <2>1. TypeOK'
    BY <1>5 DEF LockShared
  <2>2. LocksFit' /\ OneHolder'
    BY <1>5 DEF LockShared, LocksFit, OneHolder
  <2>3. ReadBefore'
    BY <1>5 DEF LockShared, ReadBefore
  <2> QED  BY <2>1, <2>2, <2>3
<1>6. CASE Return(w, f)
  <2>1. TypeOK'
    BY <1>6 DEF Return
  <2>2. LocksFit' /\ OneHolder'
    BY <1>6 DEF Return, LocksFit, OneHolder
  <2>3. ReadBefore'
    BY <1>6 DEF Return, ReadBefore
  <2> QED  BY <2>1, <2>2, <2>3
<1> QED  BY <1>1, <1>2, <1>3, <1>4, <1>5, <1>6 DEF Step

LEMMA InvIsInvariant ==
  ASSUME None \notin Workers \cup Files
  PROVE  Spec => []Inv
<1>1. Init => Inv
  BY InitInv
<1>2. Inv /\ [Next]_vars => Inv'
  <2>1. ASSUME Inv, Next  PROVE Inv'
    BY <2>1, StepInv DEF Next
  <2>2. ASSUME Inv, UNCHANGED vars  PROVE Inv'
    BY <2>2 DEF Inv, TypeOK, LocksFit, OneHolder, ReadBefore, vars, engine
  <2> QED  BY <2>1, <2>2
<1> QED  BY <1>1, <1>2, PTL DEF Spec

(* However many workers run scripts, a script is read alone: none of its   *)
(* functions runs meanwhile, and no other worker reads it                  *)
(* (PythonScriptEngine.hpp:50-58, 77-87).                                  *)
THEOREM ScriptsReloadAlone ==
  ASSUME None \notin Workers \cup Files
  PROVE  Spec => []ReloadsAlone
<1>1. Inv => ReloadsAlone
  BY DEF Inv, TypeOK, LocksFit, OneHolder, ReadBefore, ReloadsAlone, Pcs
<1> QED  BY <1>1, InvIsInvariant, PTL

(* No function is called of a script that could not be imported, and each  *)
(* caller gets what it has read itself or something newer.                 *)
THEOREM CallsAreOfReadScripts ==
  ASSUME None \notin Workers \cup Files
  PROVE  Spec => []CallsWhatWasRead
<1>1. Inv => CallsWhatWasRead
  BY DEF Inv, ReadBefore, CallsWhatWasRead
<1> QED  BY <1>1, InvIsInvariant, PTL

(* The locks of the scripts deadlock with nothing: a worker that has one   *)
(* is not waiting for another.                                             *)
THEOREM HoldersAreRunning ==
  ASSUME None \notin Workers \cup Files
  PROVE  Spec => []HoldersRun
<1>1. Inv => HoldersRun
  BY DEF Inv, TypeOK, LocksFit, OneHolder, HoldersRun
<1> QED  BY <1>1, InvIsInvariant, PTL

-----------------------------------------------------------------------------
(* The zone server's locks: every point of every call is in the order of   *)
(* Rank, searches match_queue_, or is of an OnClose under other locks.     *)

CONSTANTS Updater, Console, Clients, Zones, Matches, Monsters, NoClient, Recipients, Queues, Layouts

VARIABLES todo, serving, open

Zone == INSTANCE Locks

\* The order in which the handlers take their locks: who has a lock waits for later ones only.
Rank(kind) ==
    CASE kind = "context_guard_" -> 1
      [] kind \in {"match_guard_", "map_guard_", "client_storage_guard_"} -> 2
      [] kind \in {"chr_mutex_", "mob_mutex_"} -> 3
      [] kind = "object_guard_" -> 4
      [] kind = "socket_ref_mutex_" -> 5

Below(u, v) == \A h \in u, w \in v : Rank(h.lock.kind) < Rank(w.lock.kind)

\* A search of match_queue_ looks at one of its matches.
Searches(p) ==
    /\ \A h \in p.under : h.lock.kind = "match_guard_" /\ h.lock.of = "server"
    /\ \E m \in Matches : \A w \in p.wants : w.lock = Zone!Context(m).lock

Ordered == {p \in Zone!Points : Below(p.under, p.wants) \/ Searches(p)}
LegalPoints == {p \in Zone!Points : p.closing \/ p \in Ordered}
LegalCalls == Seq(LegalPoints) \ {<<>>}

LegalInv == todo \in [Zone!Threads -> Seq(LegalCalls)]

(* The points of a caller that has nothing but contexts are in order, and  *)
(* its calls are made of such points.                                      *)
Low(u) == \A h \in u : h.lock.kind = "context_guard_"
Good(u) == {p \in Zone!Points : Low(u) => p \in Ordered}

LEMMA RankOf ==
  /\ Rank("context_guard_") = 1 /\ Rank("match_guard_") = 2 /\ Rank("map_guard_") = 2
  /\ Rank("client_storage_guard_") = 2 /\ Rank("chr_mutex_") = 3 /\ Rank("mob_mutex_") = 3
  /\ Rank("object_guard_") = 4 /\ Rank("socket_ref_mutex_") = 5
BY DEF Rank

LEMMA LocksAreHolds ==
  /\ \A c \in Clients : /\ Zone!Chr(c) \in Zone!Holds /\ Zone!Chr(c).lock.kind = "chr_mutex_"
                        /\ Zone!X("socket_ref_mutex_", c) \in Zone!Holds
  /\ \A b \in Monsters : Zone!Mob(b) \in Zone!Holds /\ Zone!Mob(b).lock.kind = "mob_mutex_"
  /\ \A m \in Matches : /\ Zone!Context(m) \in Zone!Holds
                        /\ Zone!Context(m).lock.kind = "context_guard_"
                        /\ Zone!S("context_guard_", m) \in Zone!Holds
  /\ \A z \in Zones : Zone!X("object_guard_", z) \in Zone!Holds /\ Zone!S("object_guard_", z) \in Zone!Holds
  /\ \A k \in {"match_guard_", "map_guard_", "client_storage_guard_"} :
        Zone!X(k, "server") \in Zone!Holds /\ Zone!S(k, "server") \in Zone!Holds
  /\ \A k, o : Zone!X(k, o).lock.kind = k /\ Zone!S(k, o).lock.kind = k
               /\ Zone!X(k, o).lock.of = o /\ Zone!S(k, o).lock.of = o
BY DEF Zone!Chr, Zone!Mob, Zone!Context, Zone!X, Zone!S, Zone!Holds, Zone!Locks, Zone!Kinds,
       Zone!Recursive

LEMMA WaitIsGood ==
  ASSUME NEW u \in SUBSET Zone!Holds, NEW v \in SUBSET Zone!Holds, NEW w \in SUBSET Zone!Holds,
         Below(v, w), \A x \in w : 1 < Rank(x.lock.kind)
  PROVE  Zone!Wait(u \cup v, w) \in Good(u)
BY RankOf DEF Zone!Wait, Good, Ordered, Zone!Points, Below, Low

LEMMA WaitForOne ==
  ASSUME NEW u \in SUBSET Zone!Holds, NEW x \in Zone!Holds, 1 < Rank(x.lock.kind)
  PROVE  Zone!Wait(u, {x}) \in Good(u)
<1>1. u = u \cup {} /\ Below({}, {x})
  BY DEF Below
<1> QED  BY <1>1, WaitIsGood

LEMMA Ranks == \A h \in Zone!Holds : Rank(h.lock.kind) \in 1 .. 5
BY DEF Rank, Zone!Holds, Zone!Locks, Zone!Kinds, Zone!Recursive

LEMMA FunctionIsSequence ==
  ASSUME NEW G, NEW n \in Nat, NEW f \in [1 .. n -> G]
  PROVE  f \in Seq(G)
OBVIOUS

\* Two sequences in a row.
LEMMA Chained ==
  ASSUME NEW G, NEW x \in Seq(G) \ {<<>>}, NEW y \in Seq(G)
  PROVE  x \o y \in Seq(G) \ {<<>>}
OBVIOUS

LEMMA SendIsGood ==
  ASSUME NEW u \in SUBSET Zone!Holds, NEW v \in SUBSET Zone!Holds, NEW c \in Clients,
         \A h \in v : Rank(h.lock.kind) < 5
  PROVE  Zone!Send(u \cup v, c) \in Good(u)
<1> DEFINE w == {Zone!X("socket_ref_mutex_", c)}
<1>1. w \in SUBSET Zone!Holds /\ \A x \in w : Rank(x.lock.kind) = 5
  BY RankOf, LocksAreHolds
<1> HIDE DEF w
<1> USE <1>1
<1>2. Zone!Send(u \cup v, c) = [under |-> u \cup v, wants |-> w, lets |-> c, closing |-> FALSE]
  BY DEF Zone!Send, w
<1>3. Zone!Send(u \cup v, c) \in Zone!Points
  <2> DEFINE s == u \cup v
  <2>1. s \in SUBSET Zone!Holds /\ Zone!Send(s, c) = [under |-> s, wants |-> w, lets |-> c, closing |-> FALSE]
    BY <1>2
  <2> HIDE DEF s
  <2>2. Zone!Send(s, c) \in Zone!Points
    BY <2>1 DEF Zone!Points
  <2> QED  BY <2>2 DEF s
<1>4. Low(u) => Below(u \cup v, w)
  BY RankOf DEF Below, Low
<1> QED  BY <1>2, <1>3, <1>4 DEF Good, Ordered

LEMMA SendUnderOne ==
  ASSUME NEW u \in SUBSET Zone!Holds, NEW h \in Zone!Holds, NEW c \in Clients, Rank(h.lock.kind) < 5
  PROVE  Zone!Send(u \cup {h}, c) \in Good(u)
<1> DEFINE v == {h}
<1>1. v \in SUBSET Zone!Holds /\ \A g \in v : Rank(g.lock.kind) < 5
  OBVIOUS
<1> HIDE DEF v
<1>2. Zone!Send(u \cup v, c) \in Good(u)
  BY <1>1, SendIsGood
<1> QED  BY <1>2 DEF v

LEMMA WaitForStorage ==
  ASSUME NEW u \in SUBSET Zone!Holds
  PROVE  Zone!Wait(u, {Zone!S("client_storage_guard_", "server")}) \in Good(u)
<1> DEFINE x == Zone!S("client_storage_guard_", "server")
<1>1. x \in Zone!Holds /\ 1 < Rank(x.lock.kind)
  BY LocksAreHolds, RankOf
<1> HIDE DEF x
<1>2. Zone!Wait(u, {x}) \in Good(u)
  BY <1>1, WaitForOne
<1> QED  BY <1>2 DEF x

LEMMA GoodIsLegal ==
  /\ Good({}) \subseteq LegalPoints
  /\ \A m \in Matches : Good({Zone!Context(m)}) \subseteq LegalPoints
BY LocksAreHolds DEF Good, Low, LegalPoints

LEMMA SendsAreGood ==
  ASSUME NEW u \in SUBSET Zone!Holds, NEW v \in SUBSET Zone!Holds, NEW q \in Seq(Clients),
         \A h \in v : Rank(h.lock.kind) < 5
  PROVE  Zone!Sends(u \cup v, q) \in Seq(Good(u))
<1>1. \A i \in 1 .. Len(q) : q[i] \in Clients
  OBVIOUS
<1>2. \A i \in 1 .. Len(q) : Zone!Send(u \cup v, q[i]) \in Good(u)
  BY <1>1, SendIsGood
<1> DEFINE s == u \cup v
           G == Good(u)
<1>3. \A i \in 1 .. Len(q) : Zone!Send(s, q[i]) \in G
  BY <1>2
<1> HIDE DEF s, G
<1>4. Zone!Sends(s, q) \in [1 .. Len(q) -> G]
  BY <1>3 DEF Zone!Sends
<1>5. Zone!Sends(s, q) \in Seq(G)
  BY <1>4, FunctionIsSequence
<1> QED  BY <1>5 DEF s, G

LEMMA ChrWaits ==
  ASSUME NEW u \in SUBSET Zone!Holds, NEW q \in Seq(Clients)
  PROVE  [i \in DOMAIN q |-> Zone!Wait(u, {Zone!Chr(q[i])})] \in Seq(Good(u))
<1>1. \A i \in 1 .. Len(q) : q[i] \in Clients
  OBVIOUS
<1>2. ASSUME NEW i \in 1 .. Len(q)
      PROVE  Zone!Wait(u, {Zone!Chr(q[i])}) \in Good(u)
  <2>1. Zone!Chr(q[i]) \in Zone!Holds /\ 1 < Rank(Zone!Chr(q[i]).lock.kind)
    BY <1>1, LocksAreHolds, RankOf
  <2> QED  BY <2>1, WaitForOne
<1>3. [i \in DOMAIN q |-> Zone!Wait(u, {Zone!Chr(q[i])})] \in [1 .. Len(q) -> Good(u)]
  BY <1>2
<1> QED  BY <1>3, FunctionIsSequence

LEMMA BroadCastIsGood ==
  ASSUME NEW u \in SUBSET Zone!Holds, NEW v \in SUBSET Zone!Holds, NEW z \in Zones,
         NEW q \in Seq(Clients), \A h \in v : Rank(h.lock.kind) < 4
  PROVE  Zone!BroadCast(u \cup v, z, q) \in Seq(Good(u)) \ {<<>>}
<1> DEFINE g == Zone!S("object_guard_", z)
<1>1. g \in Zone!Holds /\ Rank(g.lock.kind) = 4
  BY LocksAreHolds, RankOf
<1>2. Zone!Wait(u \cup v, {g}) \in Good(u)
  <2> HIDE DEF g
  <2>1. Below(v, {g})
    BY <1>1 DEF Below
  <2> QED  BY <1>1, <2>1, WaitIsGood
<1>3. \A h \in v \cup {g} : Rank(h.lock.kind) < 5
  <2>1. \A h \in v : Rank(h.lock.kind) \in 1 .. 5
    BY Ranks
  <2> QED  BY <1>1, <2>1
<1>4. Zone!Sends(u \cup (v \cup {g}), q) \in Seq(Good(u))
  BY <1>1, <1>3, SendsAreGood
<1>5. Zone!BroadCast(u \cup v, z, q) = <<Zone!Wait(u \cup v, {g})>> \o Zone!Sends(u \cup (v \cup {g}), q)
  <2>1. u \cup (v \cup {g}) = (u \cup v) \cup {g}
    OBVIOUS
  <2> QED  BY <2>1 DEF Zone!BroadCast
<1> HIDE DEF g
<1>6. <<Zone!Wait(u \cup v, {g})>> \in Seq(Good(u)) \ {<<>>}
  BY <1>2
<1> QED  BY <1>4, <1>5, <1>6, Chained

LEMMA SpawnIsGood ==
  ASSUME NEW u \in SUBSET Zone!Holds, NEW z \in Zones, NEW c \in Clients, NEW q \in Seq(Clients)
  PROVE  Zone!SpawnCharacter(u, z, c, q) \in Seq(Good(u)) \ {<<>>}
<1> DEFINE both == {Zone!Chr(c), Zone!X("object_guard_", z)}
<1>1. /\ both \in SUBSET Zone!Holds
      /\ \A h \in both : 1 < Rank(h.lock.kind) /\ Rank(h.lock.kind) < 5
  BY LocksAreHolds, RankOf
<1>2. Zone!Wait(u, {Zone!Chr(c)}) \in Good(u)
  BY LocksAreHolds, RankOf, WaitForOne
<1>3. Zone!Wait(u, both) \in Good(u)
  <2>1. u = u \cup {} /\ Below({}, both)
    BY DEF Below
  <2> HIDE DEF both
  <2> QED  BY <1>1, <2>1, WaitIsGood
<1>4. Zone!Sends(u \cup both, <<c>> \o q) \in Seq(Good(u))
  <2>1. <<c>> \o q \in Seq(Clients)
    OBVIOUS
  <2> HIDE DEF both
  <2> QED  BY <1>1, <2>1, SendsAreGood
<1>5. Zone!SpawnCharacter(u, z, c, q) =
         <<Zone!Wait(u, {Zone!Chr(c)}), Zone!Wait(u, both)>> \o Zone!Sends(u \cup both, <<c>> \o q)
  BY DEF Zone!SpawnCharacter
<1> HIDE DEF both
<1> QED  BY <1>2, <1>3, <1>4, <1>5

LEMMA ElectionIsGood ==
  ASSUME NEW u \in SUBSET Zone!Holds, NEW z \in Zones, NEW q \in Seq(Clients)
  PROVE  Zone!Election(u, z, q) \in Seq(Good(u)) \ {<<>>}
<1> DEFINE G == Good(u)
           x == <<Zone!Wait(u, {Zone!S("object_guard_", z)})>>
           y == [i \in DOMAIN q |-> Zone!Wait(u, {Zone!Chr(q[i])})]
           w == IF q = <<>> THEN <<>> ELSE <<Zone!Send(u \cup {Zone!Chr(q[Len(q)])}, q[Len(q)])>>
<1>1. x \in Seq(G) \ {<<>>}
  <2>1. Zone!Wait(u, {Zone!S("object_guard_", z)}) \in G
    BY LocksAreHolds, RankOf, WaitForOne
  <2> QED  BY <2>1
<1>2. y \in Seq(G)
  BY ChrWaits
<1>3. w \in Seq(G)
  <2>1. CASE q = <<>>
    BY <2>1
  <2>2. CASE q # <<>>
    <3> DEFINE c == q[Len(q)]
    <3>1. c \in Clients
      BY <2>2
    <3> HIDE DEF c
    <3>2. Zone!Send(u \cup {Zone!Chr(c)}, c) \in G
      <4>1. Zone!Chr(c) \in Zone!Holds /\ Rank(Zone!Chr(c).lock.kind) < 5
        BY <3>1, LocksAreHolds, RankOf
      <4> QED  BY <3>1, <4>1, SendUnderOne
    <3>3. w = <<Zone!Send(u \cup {Zone!Chr(c)}, c)>>
      BY <2>2 DEF c
    <3> HIDE DEF w, G
    <3> QED  BY <3>2, <3>3
  <2> QED  BY <2>1, <2>2
<1>4. Zone!Election(u, z, q) = (x \o y) \o w
  BY DEF Zone!Election
<1> HIDE DEF x, y, w, G
<1>5. x \o y \in Seq(G) \ {<<>>}
  BY <1>1, <1>2, Chained
<1>6. (x \o y) \o w \in Seq(G) \ {<<>>}
  BY <1>3, <1>5, Chained
<1> QED  BY <1>4, <1>6 DEF G

LEMMA RemoveIsGood ==
  ASSUME NEW u \in SUBSET Zone!Holds, NEW z \in Zones, NEW c \in Clients,
         NEW controls \in BOOLEAN, NEW q \in Seq(Clients)
  PROVE  Zone!RemoveCharacter(u, z, c, controls, q) \in Seq(Good(u)) \ {<<>>}
<1> DEFINE G == Good(u)
           guard == Zone!X("object_guard_", z)
           x == <<Zone!Wait(u, {Zone!S("object_guard_", z)}), Zone!Wait(u, {Zone!Chr(c)}),
                  Zone!Wait(u, {guard})>>
           y == <<Zone!Send(u \cup {guard}, c)>>
<1>1. x \in Seq(G) \ {<<>>}
  <2>1. Zone!Wait(u, {Zone!S("object_guard_", z)}) \in G
    BY LocksAreHolds, RankOf, WaitForOne
  <2>2. Zone!Wait(u, {Zone!Chr(c)}) \in G
    BY LocksAreHolds, RankOf, WaitForOne
  <2>3. Zone!Wait(u, {guard}) \in G
    BY LocksAreHolds, RankOf, WaitForOne
  <2> QED  BY <2>1, <2>2, <2>3
<1>2. y \in Seq(G) \ {<<>>}
  <2>1. Zone!Send(u \cup {guard}, c) \in G
    <3>1. guard \in Zone!Holds /\ Rank(guard.lock.kind) < 5
      BY LocksAreHolds, RankOf
    <3> HIDE DEF guard
    <3> QED  BY <3>1, SendUnderOne
  <2> QED  BY <2>1
<1>3. Zone!Election(u, z, q) \in Seq(G) \ {<<>>}
  BY ElectionIsGood
<1>4. Zone!RemoveCharacter(u, z, c, controls, q) =
        x \o IF controls THEN y \o Zone!Election(u, z, q) ELSE <<>>
  BY DEF Zone!RemoveCharacter
<1> HIDE DEF x, y, G
<1>5. y \o Zone!Election(u, z, q) \in Seq(G)
  BY <1>2, <1>3, Chained
<1>6. (IF controls THEN y \o Zone!Election(u, z, q) ELSE <<>>) \in Seq(G)
  BY <1>5
<1>7. x \o (IF controls THEN y \o Zone!Election(u, z, q) ELSE <<>>) \in Seq(G) \ {<<>>}
  BY <1>1, <1>6, Chained
<1> QED  BY <1>4, <1>7 DEF G

LEMMA MoveIsGood ==
  ASSUME NEW u \in SUBSET Zone!Holds, NEW z \in Zones, NEW new \in Zones, NEW c \in Clients,
         NEW controls \in BOOLEAN, NEW q \in Seq(Clients)
  PROVE  Zone!MoveCharacter(u, z, new, c, controls, q) \in Seq(Good(u)) \ {<<>>}
<1> DEFINE G == Good(u)
           x == <<Zone!Wait(u, {Zone!Chr(c)})>>
           y == Zone!RemoveCharacter(u, z, c, controls, q)
           w == Zone!SpawnCharacter(u, new, c, q)
<1>1. x \in Seq(G) \ {<<>>}
  <2>1. Zone!Wait(u, {Zone!Chr(c)}) \in G
    BY LocksAreHolds, RankOf, WaitForOne
  <2> QED  BY <2>1
<1>2. y \in Seq(G) /\ w \in Seq(G)
  BY RemoveIsGood, SpawnIsGood
<1>3. Zone!MoveCharacter(u, z, new, c, controls, q) = (x \o y) \o w
  BY DEF Zone!MoveCharacter
<1> HIDE DEF x, y, w, G
<1>4. x \o y \in Seq(G) \ {<<>>}
  BY <1>1, <1>2, Chained
<1>5. (x \o y) \o w \in Seq(G) \ {<<>>}
  BY <1>2, <1>4, Chained
<1> QED  BY <1>3, <1>5 DEF G

\* Who wants a context has nothing yet, or is in an OnClose.
LEMMA LeaveMatchIsOrdered ==
  ASSUME NEW u \in SUBSET Zone!Holds, NEW m \in Matches, NEW last \in BOOLEAN
  PROVE  /\ Zone!RemoveFromMatch(u, m, last) \in Seq(Zone!Points) \ {<<>>}
         /\ u = {} => Zone!RemoveFromMatch(u, m, last) \in Seq(Ordered) \ {<<>>}
<1> DEFINE k == Zone!Context(m)
           g == Zone!X("match_guard_", "server")
           a == Zone!Wait(u, {k})
           b == Zone!Wait(u \cup {k}, {g})
<1>1. /\ k \in Zone!Holds /\ Rank(k.lock.kind) = 1
      /\ g \in Zone!Holds /\ Rank(g.lock.kind) = 2
  BY LocksAreHolds, RankOf
<1>2. Zone!RemoveFromMatch(u, m, last) = <<a>> \o IF last THEN <<b>> ELSE <<>>
  BY DEF Zone!RemoveFromMatch
<1> HIDE DEF k, g
<1>3. /\ a = [under |-> u, wants |-> {k}, lets |-> NoClient, closing |-> FALSE]
      /\ b = [under |-> u \cup {k}, wants |-> {g}, lets |-> NoClient, closing |-> FALSE]
  BY DEF Zone!Wait
<1> HIDE DEF a, b
<1>4. a \in Zone!Points
  BY <1>1, <1>3 DEF Zone!Points
<1>5. b \in Zone!Points
  <2> DEFINE s == u \cup {k}
  <2>1. s \in SUBSET Zone!Holds
    BY <1>1
  <2>2. b = [under |-> s, wants |-> {g}, lets |-> NoClient, closing |-> FALSE]
    BY <1>3
  <2> HIDE DEF s
  <2> QED  BY <1>1, <2>1, <2>2 DEF Zone!Points
<1>6. ASSUME u = {}
      PROVE  a \in Ordered /\ b \in Ordered
  <2>1. Below(a.under, a.wants) /\ Below(b.under, b.wants)
    BY <1>1, <1>3, <1>6 DEF Below
  <2> QED  BY <1>4, <1>5, <2>1 DEF Ordered
<1> QED  BY <1>2, <1>4, <1>5, <1>6

LEMMA TellIsGood ==
  ASSUME NEW u \in SUBSET Zone!Holds, NEW c \in Clients
  PROVE  Zone!Tell(u, c) \in Seq(Good(u)) \ {<<>>}
<1> DEFINE a == Zone!Wait(u, {Zone!S("client_storage_guard_", "server")})
<1>1. a \in Good(u)
  BY LocksAreHolds, RankOf, WaitForOne
<1>2. Zone!Send(u, c) \in Good(u)
  <2>1. u \cup {} = u
    OBVIOUS
  <2>2. Zone!Send(u \cup {}, c) \in Good(u)
    BY SendIsGood
  <2> QED  BY <2>1, <2>2
<1>3. Zone!Tell(u, c) = <<a, Zone!Send(u, c)>>
  BY DEF Zone!Tell
<1> HIDE DEF a
<1> QED  BY <1>1, <1>2, <1>3

LEMMA ClosingIsLegal ==
  ASSUME NEW u, NEW q \in Seq(Zone!Points) \ {<<>>}, u = {} => q \in Seq(Ordered)
  PROVE  Zone!Closing(u, q) \in LegalCalls
<1>1. ASSUME NEW i \in 1 .. Len(q)
      PROVE  [q[i] EXCEPT !.closing = u # {}] \in LegalPoints
  <2> DEFINE p == q[i]
             b == u # {}
             p2 == [p EXCEPT !.closing = b]
  <2>1. p \in Zone!Points /\ (u = {} => p \in Ordered)
    OBVIOUS
  <2>2. b \in BOOLEAN
    OBVIOUS
  <2> HIDE DEF p, b
  <2>3. /\ p2 \in Zone!Points
        /\ p2.closing = b /\ p2.under = p.under /\ p2.wants = p.wants
    BY <2>1, <2>2 DEF Zone!Points
  <2> HIDE DEF p2
  <2>4. ASSUME u = {}
        PROVE  p2 \in LegalPoints
    <3>1. Below(p.under, p.wants) \/ Searches(p)
      BY <2>1, <2>4 DEF Ordered
    <3>2. Searches(p) => Searches(p2)
      BY <2>3 DEF Searches
    <3> QED  BY <2>3, <3>1, <3>2 DEF Ordered, LegalPoints
  <2>5. ASSUME u # {}
        PROVE  p2 \in LegalPoints
    BY <2>3, <2>5 DEF LegalPoints, b
  <2>6. p2 \in LegalPoints
    BY <2>4, <2>5
  <2> QED  BY <2>6 DEF p2, p, b
<1>2. Zone!Closing(u, q) = [i \in 1 .. Len(q) |-> [q[i] EXCEPT !.closing = u # {}]]
  BY DEF Zone!Closing
<1>3. Zone!Closing(u, q) \in [1 .. Len(q) -> LegalPoints]
  BY <1>1, <1>2
<1>4. Len(q) \in Nat \ {0}
  OBVIOUS
<1>5. Zone!Closing(u, q) \in Seq(LegalPoints)
  BY <1>3, <1>4, FunctionIsSequence
<1>6. Zone!Closing(u, q) # <<>>
  BY <1>2, <1>4
<1> QED  BY <1>5, <1>6 DEF LegalCalls

LEMMA OnCloseIsLegal ==
  ASSUME Zone!LocksAssumption, NEW u \in SUBSET Zone!Holds, NEW c \in Clients,
         NEW call \in Zone!OnCloseCalls(u, c)
  PROVE  call \in LegalCalls
<1> DEFINE G == IF u = {} THEN Ordered ELSE Zone!Points
           zone == {Zone!RemoveCharacter(u, z, c, controls, q) :
                       z \in Zones, controls \in BOOLEAN, q \in Recipients}
           character == {<<>>} \cup {<<Zone!Wait(u, {Zone!Chr(c)})>> \o p : p \in {<<>>} \cup zone}
           match == {<<>>} \cup {Zone!RemoveFromMatch(u, m, last) : m \in Matches, last \in BOOLEAN}
           start == <<Zone!Wait(u, {Zone!X("client_storage_guard_", "server")})>>
<1>1. Good(u) \subseteq G /\ G \subseteq Zone!Points
  BY DEF Good, Low, Ordered
<1>2. \A x \in Seq(Good(u)) : x \in Seq(G)
  BY <1>1
<1>3. Recipients \subseteq Seq(Clients)
  BY DEF Zone!LocksAssumption
<1>4. ASSUME NEW p \in zone
      PROVE  p \in Seq(G)
  BY <1>2, <1>3, RemoveIsGood
<1>5. start \in Seq(G) \ {<<>>}
  <2>1. Zone!Wait(u, {Zone!X("client_storage_guard_", "server")}) \in Good(u)
    BY LocksAreHolds, RankOf, WaitForOne
  <2> HIDE DEF G
  <2> QED  BY <1>1, <2>1
<1>6. ASSUME NEW p \in character
      PROVE  p \in Seq(G)
  <2>1. Zone!Wait(u, {Zone!Chr(c)}) \in Good(u)
    BY LocksAreHolds, RankOf, WaitForOne
  <2>2. <<Zone!Wait(u, {Zone!Chr(c)})>> \in Seq(G) \ {<<>>}
    <3> HIDE DEF G
    <3> QED  BY <1>1, <2>1
  <2>3. CASE p = <<>>
    BY <2>3
  <2>4. CASE p # <<>>
    <3>1. PICK x \in {<<>>} \cup zone : p = <<Zone!Wait(u, {Zone!Chr(c)})>> \o x
      BY <2>4
    <3>2. x \in Seq(G)
      <4> HIDE DEF zone, G
      <4>1. CASE x = <<>>
        BY <4>1
      <4>2. CASE x \in zone
        BY <1>4, <4>2
      <4> QED  BY <3>1, <4>1, <4>2
    <3> HIDE DEF G
    <3> QED  BY <2>2, <3>1, <3>2, Chained
  <2> QED  BY <2>3, <2>4
<1>7. ASSUME NEW q \in match
      PROVE  q \in Seq(G)
  <2>1. CASE q = <<>>
    BY <2>1
  <2>2. CASE q # <<>>
    <3>1. PICK m \in Matches, last \in BOOLEAN : q = Zone!RemoveFromMatch(u, m, last)
      BY <2>2
    <3> QED  BY <3>1, LeaveMatchIsOrdered
  <2> QED  BY <2>1, <2>2
<1>8. PICK p \in character, q \in match : call = Zone!Closing(u, (start \o p) \o q)
  BY DEF Zone!OnCloseCalls
<1>9. p \in Seq(G) /\ q \in Seq(G)
  <2> HIDE DEF character, match, G
  <2> QED  BY <1>6, <1>7
<1>10. (start \o p) \o q \in Seq(G) \ {<<>>}
  <2> HIDE DEF G, start
  <2>1. start \o p \in Seq(G) \ {<<>>}
    BY <1>5, <1>9, Chained
  <2> QED  BY <1>9, <2>1, Chained
<1>11. (start \o p) \o q \in Seq(Zone!Points) \ {<<>>}
  <2> HIDE DEF G, start, zone, character, match
  <2> QED  BY <1>1, <1>10
<1>12. u = {} => (start \o p) \o q \in Seq(Ordered)
  BY <1>10
<1> HIDE DEF start, character, match
<1> QED  BY <1>8, <1>11, <1>12, ClosingIsLegal

LEMMA CloseIsLegal ==
  ASSUME NEW c \in Clients
  PROVE  Zone!Close(c) \in LegalCalls
<1> DEFINE g == Zone!X("socket_ref_mutex_", c)
           b == [under |-> {g}, wants |-> {}, lets |-> c, closing |-> FALSE]
<1>1. g \in Zone!Holds /\ Rank(g.lock.kind) = 5
  BY LocksAreHolds, RankOf
<1>2. Zone!Close(c) = <<Zone!Wait({}, {g}), b>>
  BY DEF Zone!Close
<1> HIDE DEF g
<1>3. Zone!Wait({}, {g}) \in Good({})
  BY <1>1, WaitForOne
<1>4. b \in Zone!Points
  BY <1>1 DEF Zone!Points
<1>5. b \in LegalPoints
  BY <1>4 DEF LegalPoints, Ordered, Below
<1> HIDE DEF b
<1> QED  BY <1>2, <1>3, <1>5, GoodIsLegal DEF LegalCalls

\* Good calls of a caller without locks, or with one context.
LEMMA GoodCallIsLegal ==
  ASSUME NEW u, u = {} \/ \E m \in Matches : u = {Zone!Context(m)}, NEW x \in Seq(Good(u)) \ {<<>>}
  PROVE  x \in LegalCalls
<1>1. Good(u) \subseteq LegalPoints
  BY GoodIsLegal
<1> QED  BY <1>1 DEF LegalCalls

-----------------------------------------------------------------------------
(* Every action keeps to legal calls. *)

LEMMA LegalStep ==
  ASSUME LegalInv, NEW t \in Zone!Threads, NEW calls \in Seq(LegalCalls),
         todo' = [todo EXCEPT ![t] = calls]
  PROVE  LegalInv'
BY DEF LegalInv

\* The calls that read a character first.
LEMMA CharacterFirst ==
  ASSUME NEW c \in Clients, NEW x \in Seq(Good({}))
  PROVE  <<Zone!Wait({}, {Zone!Chr(c)})>> \o x \in LegalCalls
<1>1. Zone!Wait({}, {Zone!Chr(c)}) \in Good({})
  BY LocksAreHolds, RankOf, WaitForOne
<1>2. <<Zone!Wait({}, {Zone!Chr(c)})>> \in Seq(Good({})) \ {<<>>}
  BY <1>1
<1>3. <<Zone!Wait({}, {Zone!Chr(c)})>> \o x \in Seq(Good({})) \ {<<>>}
  BY <1>2, Chained
<1> QED  BY <1>3, GoodCallIsLegal

LEMMA ServeIsLegal ==
  ASSUME LegalInv, NEW t \in Workers, NEW c, NEW calls \in Seq(LegalCalls), Zone!Serve(t, c, calls)
  PROVE  LegalInv'
BY LegalStep DEF Zone!Serve, Zone!Threads

LEMMA RunsIsLegal ==
  ASSUME LegalInv, NEW t \in {Updater, Console}, NEW calls \in Seq(LegalCalls), Zone!Runs(t, calls)
  PROVE  LegalInv'
BY LegalStep DEF Zone!Runs, Zone!Threads

LEMMA ConfirmIsLegal ==
  ASSUME Zone!LocksAssumption, LegalInv, NEW t \in Workers, NEW c \in Clients,
         Zone!HandleConfirmRequest(t, c)
  PROVE  LegalInv'
<1>1. PICK z \in Zones, q \in Recipients :
         Zone!Serve(t, c, <<<<Zone!Wait({}, {Zone!Chr(c)})>> \o Zone!SpawnCharacter({}, z, c, q)>>)
  BY DEF Zone!HandleConfirmRequest
<1> DEFINE call == <<Zone!Wait({}, {Zone!Chr(c)})>> \o Zone!SpawnCharacter({}, z, c, q)
<1>2. call \in LegalCalls
  <2>1. q \in Seq(Clients)
    BY DEF Zone!LocksAssumption
  <2>2. Zone!SpawnCharacter({}, z, c, q) \in Seq(Good({}))
    BY <2>1, SpawnIsGood
  <2> QED  BY <2>2, CharacterFirst
<1> HIDE DEF call
<1>3. <<call>> \in Seq(LegalCalls)
  BY <1>2
<1> QED  BY <1>1, <1>3, ServeIsLegal DEF call

LEMMA BroadCastAlone ==
  ASSUME NEW z \in Zones, NEW q \in Seq(Clients)
  PROVE  Zone!BroadCast({}, z, q) \in Seq(Good({})) \ {<<>>}
<1>1. Zone!BroadCast({} \cup {}, z, q) \in Seq(Good({})) \ {<<>>}
  BY BroadCastIsGood
<1>2. {} \cup {} = {}
  OBVIOUS
<1> QED  BY <1>1, <1>2

LEMMA MotionIsLegal ==
  ASSUME Zone!LocksAssumption, LegalInv, NEW t \in Workers, NEW c \in Clients,
         Zone!HandleMotion(t, c)
  PROVE  LegalInv'
<1>1. PICK z \in Zones, q \in Recipients :
         Zone!Serve(t, c, <<<<Zone!Wait({}, {Zone!Chr(c)})>> \o Zone!BroadCast({}, z, q)>>)
  BY DEF Zone!HandleMotion
<1> DEFINE call == <<Zone!Wait({}, {Zone!Chr(c)})>> \o Zone!BroadCast({}, z, q)
<1>2. call \in LegalCalls
  <2>1. q \in Seq(Clients)
    BY DEF Zone!LocksAssumption
  <2>2. Zone!BroadCast({}, z, q) \in Seq(Good({}))
    BY <2>1, BroadCastAlone
  <2> QED  BY <2>2, CharacterFirst
<1> HIDE DEF call
<1>3. <<call>> \in Seq(LegalCalls)
  BY <1>2
<1> QED  BY <1>1, <1>3, ServeIsLegal DEF call

LEMMA ActionIsLegal ==
  ASSUME Zone!LocksAssumption, LegalInv, NEW t \in Workers, NEW c \in Clients,
         Zone!HandleMonsterActionNotify(t, c)
  PROVE  LegalInv'
<1>1. PICK z \in Zones, b \in Monsters, q \in Recipients :
         Zone!Serve(t, c, <<<<Zone!Wait({}, {Zone!Chr(c)}), Zone!Wait({}, {Zone!Mob(b)})>>
                              \o Zone!BroadCast({}, z, q)>>)
  BY DEF Zone!HandleMonsterActionNotify
<1> DEFINE x == <<Zone!Wait({}, {Zone!Chr(c)}), Zone!Wait({}, {Zone!Mob(b)})>>
           call == x \o Zone!BroadCast({}, z, q)
<1>2. call \in LegalCalls
  <2>1. q \in Seq(Clients)
    BY DEF Zone!LocksAssumption
  <2>2. Zone!BroadCast({}, z, q) \in Seq(Good({}))
    BY <2>1, BroadCastAlone
  <2>3. x \in Seq(Good({})) \ {<<>>}
    <3>1. Zone!Wait({}, {Zone!Chr(c)}) \in Good({})
      BY LocksAreHolds, RankOf, WaitForOne
    <3>2. Zone!Wait({}, {Zone!Mob(b)}) \in Good({})
      BY LocksAreHolds, RankOf, WaitForOne
    <3> QED  BY <3>1, <3>2
  <2> HIDE DEF x
  <2>4. call \in Seq(Good({})) \ {<<>>}
    BY <2>2, <2>3, Chained
  <2> HIDE DEF call
  <2> QED  BY <2>4, GoodCallIsLegal
<1> HIDE DEF call
<1>3. <<call>> \in Seq(LegalCalls)
  BY <1>2
<1> QED  BY <1>1, <1>3, ServeIsLegal DEF call, x

LEMMA HitIsLegal ==
  ASSUME Zone!LocksAssumption, LegalInv, NEW t \in Workers, NEW c \in Clients,
         Zone!HandleHit(t, c)
  PROVE  LegalInv'
<1>1. PICK z \in Zones, b \in Monsters, q \in Recipients, dies \in BOOLEAN :
         Zone!Serve(t, c, <<(<<Zone!Wait({}, {Zone!Chr(c)}), Zone!Wait({}, {Zone!Chr(c), Zone!Mob(b)})>>
                               \o Zone!BroadCast({Zone!Chr(c), Zone!Mob(b)}, z, q))
                              \o IF dies THEN Zone!BroadCast({Zone!Chr(c), Zone!Mob(b)}, z, q)
                                 ELSE <<>>>>)
  BY DEF Zone!HandleHit
<1> DEFINE both == {Zone!Chr(c), Zone!Mob(b)}
           x == <<Zone!Wait({}, {Zone!Chr(c)}), Zone!Wait({}, both)>>
           y == Zone!BroadCast(both, z, q)
           call == (x \o y) \o IF dies THEN y ELSE <<>>
<1>2. call \in LegalCalls
  <2>1. q \in Seq(Clients)
    BY DEF Zone!LocksAssumption
  <2>2. both \in SUBSET Zone!Holds /\ \A h \in both : Rank(h.lock.kind) = 3
    BY LocksAreHolds, RankOf
  <2>3. x \in Seq(Good({})) \ {<<>>}
    <3>1. Zone!Wait({}, {Zone!Chr(c)}) \in Good({})
      BY LocksAreHolds, RankOf, WaitForOne
    <3>2. Zone!Wait({}, both) \in Good({})
      <4>1. {} \cup {} = {} /\ Below({}, both)
        BY DEF Below
      <4> HIDE DEF both
      <4>2. Zone!Wait({} \cup {}, both) \in Good({})
        BY <2>2, <4>1, WaitIsGood
      <4> QED  BY <4>1, <4>2
    <3> HIDE DEF both
    <3> QED  BY <3>1, <3>2
  <2>4. y \in Seq(Good({}))
    <3> HIDE DEF both
    <3>1. {} \cup both = both
      OBVIOUS
    <3>2. \A h \in both : Rank(h.lock.kind) < 4
      BY <2>2
    <3>3. Zone!BroadCast({} \cup both, z, q) \in Seq(Good({})) \ {<<>>}
      BY <2>1, <2>2, <3>2, BroadCastIsGood
    <3> QED  BY <3>1, <3>3
  <2> HIDE DEF x, y
  <2>5. x \o y \in Seq(Good({})) \ {<<>>}
    BY <2>3, <2>4, Chained
  <2>6. (IF dies THEN y ELSE <<>>) \in Seq(Good({}))
    BY <2>4
  <2>7. call \in Seq(Good({})) \ {<<>>}
    BY <2>5, <2>6, Chained
  <2> HIDE DEF call
  <2> QED  BY <2>7, GoodCallIsLegal
<1> HIDE DEF call
<1>3. <<call>> \in Seq(LegalCalls)
  BY <1>2
<1> QED  BY <1>1, <1>3, ServeIsLegal DEF call, x, y, both

LEMMA InventoryIsLegal ==
  ASSUME LegalInv, NEW t \in Workers, NEW c \in Clients, Zone!HandleInventoryUpdate(t, c)
  PROVE  LegalInv'
<1> DEFINE call == <<Zone!Wait({}, {Zone!Chr(c)}), Zone!Send({Zone!Chr(c)}, c)>>
<1>1. Zone!Wait({}, {Zone!Chr(c)}) \in Good({})
  BY LocksAreHolds, RankOf, WaitForOne
<1>2. Zone!Send({Zone!Chr(c)}, c) \in Good({})
  <2>1. {} \cup {Zone!Chr(c)} = {Zone!Chr(c)}
    OBVIOUS
  <2>2. Zone!Chr(c) \in Zone!Holds /\ Rank(Zone!Chr(c).lock.kind) < 5
    BY LocksAreHolds, RankOf
  <2>3. Zone!Send({} \cup {Zone!Chr(c)}, c) \in Good({})
    BY <2>2, SendUnderOne
  <2> QED  BY <2>1, <2>3
<1>3. call \in Seq(Good({})) \ {<<>>}
  BY <1>1, <1>2
<1>4. Zone!Serve(t, c, <<call>>)
  BY DEF Zone!HandleInventoryUpdate
<1> HIDE DEF call
<1>5. <<call>> \in Seq(LegalCalls)
  BY <1>3, GoodCallIsLegal
<1> QED  BY <1>4, <1>5, ServeIsLegal

\* A wait for one lock by who has one.
LEMMA NestedIsLegal ==
  ASSUME NEW h \in Zone!Holds, NEW w \in Zone!Holds,
         \/ Rank(h.lock.kind) < Rank(w.lock.kind)
         \/ /\ h.lock.kind = "match_guard_" /\ h.lock.of = "server"
            /\ \E m \in Matches : w.lock = Zone!Context(m).lock
  PROVE  Zone!Wait({h}, {w}) \in LegalPoints
<1>1. Zone!Wait({h}, {w}) = [under |-> {h}, wants |-> {w}, lets |-> NoClient, closing |-> FALSE]
  BY DEF Zone!Wait
<1> DEFINE p == Zone!Wait({h}, {w})
           a == {h}
           b == {w}
<1>2. a \in SUBSET Zone!Holds /\ b \in SUBSET Zone!Holds
  OBVIOUS
<1>3. p = [under |-> a, wants |-> b, lets |-> NoClient, closing |-> FALSE]
  BY <1>1
<1>4. Below(a, b) \/ /\ \A x \in a : x.lock.kind = "match_guard_" /\ x.lock.of = "server"
                     /\ \E m \in Matches : \A x \in b : x.lock = Zone!Context(m).lock
  BY DEF Below
<1> HIDE DEF p, a, b
<1>5. p \in Zone!Points /\ p.under = a /\ p.wants = b
  BY <1>2, <1>3 DEF Zone!Points
<1>6. p \in LegalPoints
  BY <1>4, <1>5 DEF LegalPoints, Ordered, Searches
<1> QED  BY <1>6 DEF p

LEMMA UpwardIsLegal ==
  ASSUME NEW h \in Zone!Holds, NEW w \in Zone!Holds, Rank(h.lock.kind) < Rank(w.lock.kind)
  PROVE  Zone!Wait({h}, {w}) \in LegalPoints
BY NestedIsLegal

\* A wait of a caller without locks.
LEMMA FirstIsLegal ==
  ASSUME NEW x \in Zone!Holds
  PROVE  Zone!Wait({}, {x}) \in LegalPoints
<1>1. Zone!Wait({}, {x}) = [under |-> {}, wants |-> {x}, lets |-> NoClient, closing |-> FALSE]
  BY DEF Zone!Wait
<1> DEFINE p == Zone!Wait({}, {x})
           b == {x}
<1>2. b \in SUBSET Zone!Holds /\ {} \in SUBSET Zone!Holds
  OBVIOUS
<1>3. p = [under |-> {}, wants |-> b, lets |-> NoClient, closing |-> FALSE]
  BY <1>1
<1> HIDE DEF p, b
<1>4. p \in Zone!Points /\ p.under = {} /\ p.wants = b
  BY <1>2, <1>3 DEF Zone!Points
<1>5. p \in LegalPoints
  BY <1>4 DEF LegalPoints, Ordered, Below
<1> QED  BY <1>5 DEF p

LEMMA SearchIsLegal ==
  ASSUME NEW m \in Matches
  PROVE  /\ Zone!Wait({Zone!X("match_guard_", "server")}, {Zone!S("context_guard_", m)}) \in LegalPoints
         /\ Zone!Wait({Zone!X("match_guard_", "server")}, {Zone!Context(m)}) \in LegalPoints
<1>1. Zone!S("context_guard_", m).lock = Zone!Context(m).lock
  BY DEF Zone!S, Zone!X, Zone!Context
<1> QED  BY <1>1, LocksAreHolds, NestedIsLegal

\* Calls for the players of a match, each with its match's lock.
LEMMA TellsAreLegal ==
  ASSUME NEW m \in Matches, NEW q \in Seq(Clients)
  PROVE  [i \in DOMAIN q |-> Zone!Tell({Zone!Context(m)}, q[i])] \in Seq(LegalCalls)
<1> DEFINE u == {Zone!Context(m)}
<1>1. u \in SUBSET Zone!Holds
  BY LocksAreHolds
<1>2. ASSUME NEW i \in 1 .. Len(q)
      PROVE  Zone!Tell(u, q[i]) \in LegalCalls
  <2>1. q[i] \in Clients
    OBVIOUS
  <2>2. Zone!Tell(u, q[i]) \in Seq(Good(u)) \ {<<>>}
    BY <1>1, <2>1, TellIsGood
  <2> QED  BY <2>2, GoodCallIsLegal
<1> HIDE DEF u
<1>3. [i \in DOMAIN q |-> Zone!Tell(u, q[i])] \in [1 .. Len(q) -> LegalCalls]
  BY <1>2
<1>4. [i \in DOMAIN q |-> Zone!Tell(u, q[i])] \in Seq(LegalCalls)
  BY <1>3, FunctionIsSequence
<1> QED  BY <1>4 DEF u

\* What a call starts with, and the calls that follow it.
LEMMA CallsInARow ==
  ASSUME NEW x \in LegalCalls, NEW y \in Seq(LegalCalls)
  PROVE  <<x>> \o y \in Seq(LegalCalls)
OBVIOUS

LEMMA RequestIsLegal ==
  ASSUME Zone!LocksAssumption, LegalInv, NEW t \in Workers, NEW c \in Clients,
         Zone!RequestMatch(t, c)
  PROVE  LegalInv'
<1> DEFINE g == Zone!X("match_guard_", "server")
           scan(w) == [i \in DOMAIN w |-> Zone!Wait({g}, {Zone!S("context_guard_", w[i])})]
           tell(m, q) == [i \in DOMAIN q |-> Zone!Tell({Zone!Context(m)}, q[i])]
<1>1. PICK w \in Queues, m \in Matches, q \in Recipients :
         Zone!Serve(t, c, <<<<Zone!Wait({}, {g})>> \o scan(w), <<Zone!Wait({}, {Zone!Context(m)})>>>>
                              \o tell(m, q))
  BY DEF Zone!RequestMatch
<1>2. w \in Seq(Matches) /\ q \in Seq(Clients)
  BY DEF Zone!LocksAssumption
<1>3. scan(w) \in Seq(LegalPoints)
  <2>1. \A i \in 1 .. Len(w) : w[i] \in Matches
    BY <1>2
  <2>2. \A i \in 1 .. Len(w) : Zone!Wait({g}, {Zone!S("context_guard_", w[i])}) \in LegalPoints
    BY <2>1, SearchIsLegal
  <2>3. Len(w) \in Nat /\ DOMAIN w = 1 .. Len(w)
    BY <1>2
  <2> HIDE DEF g
  <2>4. scan(w) \in [1 .. Len(w) -> LegalPoints]
    BY <2>2, <2>3
  <2> HIDE DEF scan
  <2> QED  BY <2>3, <2>4, FunctionIsSequence
<1>4. Zone!Wait({}, {g}) \in LegalPoints /\ Zone!Wait({}, {Zone!Context(m)}) \in LegalPoints
  BY LocksAreHolds, FirstIsLegal
<1>5. tell(m, q) \in Seq(LegalCalls)
  BY <1>2, TellsAreLegal
<1> DEFINE x == <<Zone!Wait({}, {g})>> \o scan(w)
           y == <<Zone!Wait({}, {Zone!Context(m)})>>
           r == tell(m, q)
<1>6. x \in LegalCalls /\ y \in LegalCalls
  <2> HIDE DEF scan
  <2> QED  BY <1>3, <1>4 DEF LegalCalls
<1>7. Zone!Serve(t, c, <<x, y>> \o r) /\ r \in Seq(LegalCalls)
  BY <1>1, <1>5
<1> HIDE DEF x, y, r
<1>8. <<x, y>> \o r \in Seq(LegalCalls)
  BY <1>6, <1>7
<1> QED  BY <1>7, <1>8, ServeIsLegal

LEMMA CancelIsLegal ==
  ASSUME LegalInv, NEW t \in Workers, NEW c \in Clients, Zone!CancelMatch(t, c)
  PROVE  LegalInv'
<1>1. PICK m \in Matches, last \in BOOLEAN : Zone!Serve(t, c, <<Zone!RemoveFromMatch({}, m, last)>>)
  BY DEF Zone!CancelMatch
<1>2. Zone!RemoveFromMatch({}, m, last) \in Seq(Ordered) \ {<<>>}
  BY LeaveMatchIsOrdered
<1>3. Ordered \subseteq LegalPoints
  BY DEF Ordered, LegalPoints
<1>4. <<Zone!RemoveFromMatch({}, m, last)>> \in Seq(LegalCalls)
  BY <1>2, <1>3 DEF LegalCalls
<1> QED  BY <1>1, <1>4, ServeIsLegal

LEMMA MoveIsLegal ==
  ASSUME NEW u, u = {} \/ \E m \in Matches : u = {Zone!Context(m)},
         NEW z \in Zones, NEW new \in Zones, NEW c \in Clients, NEW controls \in BOOLEAN,
         NEW q \in Seq(Clients)
  PROVE  /\ Zone!MoveCharacter(u, z, new, c, controls, q) \in LegalCalls
         /\ <<Zone!Wait(u, {Zone!S("client_storage_guard_", "server")})>>
               \o Zone!MoveCharacter(u, z, new, c, controls, q) \in LegalCalls
<1>1. u \in SUBSET Zone!Holds
  BY LocksAreHolds
<1> DEFINE a == Zone!Wait(u, {Zone!S("client_storage_guard_", "server")})
           move == Zone!MoveCharacter(u, z, new, c, controls, q)
<1>2. a \in Good(u)
  BY <1>1, WaitForStorage
<1>3. move \in Seq(Good(u)) \ {<<>>}
  BY <1>1, MoveIsGood
<1> HIDE DEF a, move
<1>4. <<a>> \in Seq(Good(u)) \ {<<>>}
  BY <1>2
<1>5. <<a>> \o move \in Seq(Good(u)) \ {<<>>}
  BY <1>3, <1>4, Chained
<1>6. move \in LegalCalls
  BY <1>3, GoodCallIsLegal
<1>7. <<a>> \o move \in LegalCalls
  BY <1>5, GoodCallIsLegal
<1> QED  BY <1>6, <1>7 DEF a, move

LEMMA AcceptIsLegal ==
  ASSUME Zone!LocksAssumption, LegalInv, NEW t \in Workers, NEW c \in Clients,
         Zone!HandleMatchingComfirmRequest(t, c)
  PROVE  LegalInv'
<1> DEFINE u(m) == {Zone!Context(m)}
           erase(m) == Zone!Wait(u(m), {Zone!X("match_guard_", "server")})
           create(m) == Zone!Wait(u(m), {Zone!X("map_guard_", "server")})
<1>1. PICK m \in Matches :
        \/ Zone!Serve(t, c, <<<<Zone!Wait({}, u(m))>>>>)
        \/ \E q \in Recipients :
              Zone!Serve(t, c, <<<<Zone!Wait({}, u(m)), erase(m)>>>>
                                  \o [i \in DOMAIN q |-> Zone!Tell(u(m), q[i])])
        \/ \E q, r \in Recipients, z, new \in Zones, controls \in BOOLEAN :
              Zone!Serve(t, c, <<<<Zone!Wait({}, u(m)), erase(m), create(m)>>>>
                  \o [i \in DOMAIN q |-> <<Zone!Wait(u(m), {Zone!S("client_storage_guard_", "server")})>>
                                             \o Zone!MoveCharacter(u(m), z, new, q[i], controls, r)])
  BY DEF Zone!HandleMatchingComfirmRequest
<1> DEFINE a == Zone!Wait({}, u(m))
           b == erase(m)
           d == create(m)
<1>2. a \in LegalPoints /\ b \in LegalPoints /\ d \in LegalPoints
  BY LocksAreHolds, RankOf, FirstIsLegal, NestedIsLegal
<1>3. Recipients \subseteq Seq(Clients)
  BY DEF Zone!LocksAssumption
<1> DEFINE tell(q) == <<<<a, b>>>> \o [i \in DOMAIN q |-> Zone!Tell(u(m), q[i])]
           moves(q, r, z, new, controls) ==
             <<<<a, b, d>>>>
               \o [i \in DOMAIN q |-> <<Zone!Wait(u(m), {Zone!S("client_storage_guard_", "server")})>>
                                         \o Zone!MoveCharacter(u(m), z, new, q[i], controls, r)]
<1>4. CASE Zone!Serve(t, c, <<<<a>>>>)
  <2> HIDE DEF a
  <2>1. <<<<a>>>> \in Seq(LegalCalls)
    BY <1>2 DEF LegalCalls
  <2> QED  BY <1>4, <2>1, ServeIsLegal
<1>5. ASSUME NEW q \in Recipients,
             Zone!Serve(t, c, tell(q))
      PROVE  LegalInv'
  <2> DEFINE y == [i \in DOMAIN q |-> Zone!Tell(u(m), q[i])]
  <2>1. y \in Seq(LegalCalls)
    BY <1>3, TellsAreLegal
  <2>2. Zone!Serve(t, c, <<<<a, b>>>> \o y)
    BY <1>5
  <2> HIDE DEF a, b, y
  <2>3. <<a, b>> \in LegalCalls
    BY <1>2 DEF LegalCalls
  <2>4. <<<<a, b>>>> \o y \in Seq(LegalCalls)
    BY <2>1, <2>3, CallsInARow
  <2> QED  BY <2>2, <2>4, ServeIsLegal
<1>6. ASSUME NEW q \in Recipients, NEW r \in Recipients, NEW z \in Zones, NEW new \in Zones,
             NEW controls \in BOOLEAN, Zone!Serve(t, c, moves(q, r, z, new, controls))
      PROVE  LegalInv'
  <2> DEFINE y == [i \in DOMAIN q |-> <<Zone!Wait(u(m), {Zone!S("client_storage_guard_", "server")})>>
                                        \o Zone!MoveCharacter(u(m), z, new, q[i], controls, r)]
  <2>1. y \in Seq(LegalCalls)
    <3> DEFINE v == u(m)
               call(x) == <<Zone!Wait(v, {Zone!S("client_storage_guard_", "server")})>>
                            \o Zone!MoveCharacter(v, z, new, x, controls, r)
    <3>1. v = {} \/ \E n \in Matches : v = {Zone!Context(n)}
      OBVIOUS
    <3>2. q \in Seq(Clients) /\ r \in Seq(Clients)
      BY <1>3
    <3>3. Len(q) \in Nat /\ DOMAIN q = 1 .. Len(q) /\ \A i \in 1 .. Len(q) : q[i] \in Clients
      BY <3>2
    <3> HIDE DEF v
    <3>4. \A x \in Clients : call(x) \in LegalCalls
      BY <3>1, <3>2, MoveIsLegal
    <3> HIDE DEF call
    <3>5. [i \in DOMAIN q |-> call(q[i])] \in [1 .. Len(q) -> LegalCalls]
      BY <3>3, <3>4
    <3>6. [i \in DOMAIN q |-> call(q[i])] \in Seq(LegalCalls)
      BY <3>3, <3>5, FunctionIsSequence
    <3> QED  BY <3>6 DEF call, v
  <2>2. Zone!Serve(t, c, <<<<a, b, d>>>> \o y)
    BY <1>6
  <2> HIDE DEF a, b, d, y
  <2>3. <<a, b, d>> \in LegalCalls
    BY <1>2 DEF LegalCalls
  <2>4. <<<<a, b, d>>>> \o y \in Seq(LegalCalls)
    BY <2>1, <2>3, CallsInARow
  <2> QED  BY <2>2, <2>4, ServeIsLegal
<1>7. \/ Zone!Serve(t, c, <<<<a>>>>)
      \/ \E q \in Recipients : Zone!Serve(t, c, tell(q))
      \/ \E q, r \in Recipients, z, new \in Zones, controls \in BOOLEAN :
           Zone!Serve(t, c, moves(q, r, z, new, controls))
  BY <1>1
<1> HIDE DEF a, b, d, u, tell, moves
<1> QED  BY <1>4, <1>5, <1>6, <1>7, Zenon

LEMMA ZoneChangeIsLegal ==
  ASSUME Zone!LocksAssumption, LegalInv, NEW t \in Workers, NEW c \in Clients,
         Zone!HandleZoneChangeRequest(t, c)
  PROVE  LegalInv'
<1> DEFINE look(z, q) == <<Zone!Wait({}, {Zone!Chr(c)}), Zone!Wait({}, {Zone!S("object_guard_", z)})>>
                            \o [i \in DOMAIN q |-> Zone!Wait({}, {Zone!Chr(q[i])})]
           create == <<Zone!Wait({}, {Zone!X("map_guard_", "server")})>>
<1>1. PICK z \in Zones, new \in Zones, q \in Recipients, r \in Recipients, controls \in BOOLEAN :
         Zone!Serve(t, c, <<look(z, q), create>>
             \o [i \in DOMAIN q |-> Zone!MoveCharacter({}, z, new, q[i], controls, r)])
  BY DEF Zone!HandleZoneChangeRequest
<1>2. q \in Seq(Clients) /\ r \in Seq(Clients)
  BY DEF Zone!LocksAssumption
<1>3. look(z, q) \in LegalCalls
  <2> DEFINE x == <<Zone!Wait({}, {Zone!Chr(c)}), Zone!Wait({}, {Zone!S("object_guard_", z)})>>
             y == [i \in DOMAIN q |-> Zone!Wait({}, {Zone!Chr(q[i])})]
  <2>1. Zone!Wait({}, {Zone!Chr(c)}) \in LegalPoints /\ Zone!Wait({}, {Zone!S("object_guard_", z)}) \in LegalPoints
    BY LocksAreHolds, FirstIsLegal
  <2>2. y \in Seq(Good({}))
    BY <1>2, ChrWaits
  <2>3. x \in Seq(LegalPoints) \ {<<>>}
    BY <2>1
  <2> HIDE DEF x, y
  <2>4. y \in Seq(LegalPoints)
    BY <2>2, GoodIsLegal
  <2>5. x \o y \in Seq(LegalPoints) \ {<<>>}
    BY <2>3, <2>4, Chained
  <2> QED  BY <2>5 DEF x, y, LegalCalls
<1>4. create \in LegalCalls
  <2>1. Zone!Wait({}, {Zone!X("map_guard_", "server")}) \in LegalPoints
    BY LocksAreHolds, FirstIsLegal
  <2> QED  BY <2>1 DEF LegalCalls
<1> DEFINE a == look(z, q)
           y == [i \in DOMAIN q |-> Zone!MoveCharacter({}, z, new, q[i], controls, r)]
<1>5. y \in Seq(LegalCalls)
  <2> DEFINE call(x) == Zone!MoveCharacter({}, z, new, x, controls, r)
  <2>1. Len(q) \in Nat /\ DOMAIN q = 1 .. Len(q) /\ \A i \in 1 .. Len(q) : q[i] \in Clients
    BY <1>2
  <2>2. \A x \in Clients : call(x) \in LegalCalls
    BY <1>2, MoveIsLegal
  <2> HIDE DEF call
  <2>3. [i \in DOMAIN q |-> call(q[i])] \in [1 .. Len(q) -> LegalCalls]
    BY <2>1, <2>2
  <2>4. [i \in DOMAIN q |-> call(q[i])] \in Seq(LegalCalls)
    BY <2>1, <2>3, FunctionIsSequence
  <2> QED  BY <2>4 DEF call
<1>6. Zone!Serve(t, c, <<a, create>> \o y) /\ a \in LegalCalls
  BY <1>1, <1>3
<1> HIDE DEF a, create, y
<1>7. <<a, create>> \o y \in Seq(LegalCalls)
  BY <1>4, <1>5, <1>6
<1> QED  BY <1>6, <1>7, ServeIsLegal

LEMMA UpdateIsLegal ==
  ASSUME Zone!LocksAssumption, LegalInv, Zone!UpdateZones
  PROVE  LegalInv'
<1> DEFINE turn(l, g) == <<Zone!Wait({}, {g})>> \o
                            [i \in DOMAIN l |-> Zone!Wait({g}, {Zone!S("object_guard_", l[i])})]
<1>1. PICK l \in Layouts :
         Zone!Runs(Updater, <<turn(l, Zone!S("map_guard_", "server")), turn(l, Zone!X("map_guard_", "server"))>>)
  BY DEF Zone!UpdateZones
<1>2. l \in Seq(Zones)
  BY DEF Zone!LocksAssumption
<1>3. ASSUME NEW g \in {Zone!S("map_guard_", "server"), Zone!X("map_guard_", "server")}
      PROVE  turn(l, g) \in LegalCalls
  <2>1. g \in Zone!Holds /\ Rank(g.lock.kind) = 2
    BY LocksAreHolds, RankOf
  <2>2. Zone!Wait({}, {g}) \in LegalPoints
    BY <2>1, FirstIsLegal
  <2> DEFINE y == [i \in DOMAIN l |-> Zone!Wait({g}, {Zone!S("object_guard_", l[i])})]
  <2>3. ASSUME NEW i \in 1 .. Len(l)
        PROVE  Zone!Wait({g}, {Zone!S("object_guard_", l[i])}) \in LegalPoints
    <3>1. l[i] \in Zones
      BY <1>2
    <3> DEFINE w == Zone!S("object_guard_", l[i])
    <3>2. w \in Zone!Holds /\ Rank(w.lock.kind) = 4
      BY <3>1, LocksAreHolds, RankOf
    <3> HIDE DEF w
    <3>3. Zone!Wait({g}, {w}) \in LegalPoints
      BY <2>1, <3>2, UpwardIsLegal
    <3> QED  BY <3>3 DEF w
  <2>4. Len(l) \in Nat /\ DOMAIN l = 1 .. Len(l)
    BY <1>2
  <2>5. y \in [1 .. Len(l) -> LegalPoints]
    BY <2>3, <2>4
  <2> HIDE DEF y
  <2>6. y \in Seq(LegalPoints)
    BY <2>4, <2>5, FunctionIsSequence
  <2>7. <<Zone!Wait({}, {g})>> \o y \in LegalCalls
    BY <2>2, <2>6 DEF LegalCalls
  <2> QED  BY <2>7 DEF y
<1>4. <<turn(l, Zone!S("map_guard_", "server")), turn(l, Zone!X("map_guard_", "server"))>> \in Seq(LegalCalls)
  <2>1. turn(l, Zone!S("map_guard_", "server")) \in LegalCalls
    BY <1>3
  <2>2. turn(l, Zone!X("map_guard_", "server")) \in LegalCalls
    BY <1>3
  <2> HIDE DEF turn
  <2> QED  BY <2>1, <2>2
<1> HIDE DEF turn
<1> QED  BY <1>1, <1>4, RunsIsLegal

LEMMA PrintClientsIsLegal ==
  ASSUME Zone!LocksAssumption, LegalInv, Zone!PrintClients
  PROVE  LegalInv'
<1> DEFINE g == Zone!X("client_storage_guard_", "server")
           y(q) == [i \in DOMAIN q |-> Zone!Wait({g}, {Zone!Chr(q[i])})]
<1>1. PICK q \in Recipients : Zone!Runs(Console, <<<<Zone!Wait({}, {g})>> \o y(q)>>)
  BY DEF Zone!PrintClients
<1>2. q \in Seq(Clients)
  BY DEF Zone!LocksAssumption
<1>3. g \in Zone!Holds /\ Rank(g.lock.kind) = 2
  BY LocksAreHolds, RankOf
<1>4. Zone!Wait({}, {g}) \in LegalPoints
  BY <1>3, FirstIsLegal
<1> HIDE DEF g
<1>5. ASSUME NEW i \in 1 .. Len(q)
      PROVE  Zone!Wait({g}, {Zone!Chr(q[i])}) \in LegalPoints
  <2>1. q[i] \in Clients
    BY <1>2
  <2> DEFINE w == Zone!Chr(q[i])
  <2>2. w \in Zone!Holds /\ Rank(w.lock.kind) = 3
    BY <2>1, LocksAreHolds, RankOf
  <2> HIDE DEF w
  <2>3. Zone!Wait({g}, {w}) \in LegalPoints
    BY <1>3, <2>2, UpwardIsLegal
  <2> QED  BY <2>3 DEF w
<1>5a. Len(q) \in Nat /\ DOMAIN q = 1 .. Len(q)
  BY <1>2
<1>6. y(q) \in [1 .. Len(q) -> LegalPoints]
  BY <1>5, <1>5a
<1> DEFINE r == y(q)
<1>8. Zone!Runs(Console, <<<<Zone!Wait({}, {g})>> \o r>>)
  BY <1>1
<1>6a. r \in [1 .. Len(q) -> LegalPoints]
  BY <1>6
<1> HIDE DEF r
<1>7. r \in Seq(LegalPoints)
  BY <1>5a, <1>6a, FunctionIsSequence
<1>9. <<<<Zone!Wait({}, {g})>> \o r>> \in Seq(LegalCalls)
  BY <1>4, <1>7 DEF LegalCalls
<1> QED  BY <1>8, <1>9, RunsIsLegal

LEMMA PrintMatchesIsLegal ==
  ASSUME Zone!LocksAssumption, LegalInv, Zone!PrintMatches
  PROVE  LegalInv'
<1> DEFINE g == Zone!X("match_guard_", "server")
           x == <<Zone!Wait({}, {Zone!S("match_guard_", "server")}), Zone!Wait({}, {g})>>
           y(w) == [i \in DOMAIN w |-> Zone!Wait({g}, {Zone!Context(w[i])})]
<1>1. PICK w \in Queues : Zone!Runs(Console, <<x \o y(w)>>)
  BY DEF Zone!PrintMatches
<1>2. w \in Seq(Matches)
  BY DEF Zone!LocksAssumption
<1>3. x \in Seq(LegalPoints) \ {<<>>}
  <2>1. Zone!Wait({}, {Zone!S("match_guard_", "server")}) \in LegalPoints
    BY LocksAreHolds, FirstIsLegal
  <2>2. Zone!Wait({}, {g}) \in LegalPoints
    BY LocksAreHolds, FirstIsLegal
  <2> QED  BY <2>1, <2>2
<1>4. ASSUME NEW i \in 1 .. Len(w)
      PROVE  Zone!Wait({g}, {Zone!Context(w[i])}) \in LegalPoints
  <2>1. w[i] \in Matches
    BY <1>2
  <2> QED  BY <2>1, SearchIsLegal
<1> HIDE DEF g, x
<1>4a. Len(w) \in Nat /\ DOMAIN w = 1 .. Len(w)
  BY <1>2
<1> DEFINE r == y(w)
<1>5. r \in [1 .. Len(w) -> LegalPoints]
  BY <1>4, <1>4a
<1>7. Zone!Runs(Console, <<x \o r>>)
  BY <1>1
<1> HIDE DEF r
<1>6. r \in Seq(LegalPoints)
  BY <1>4a, <1>5, FunctionIsSequence
<1>8. <<x \o r>> \in Seq(LegalCalls)
  BY <1>3, <1>6 DEF LegalCalls
<1> QED  BY <1>7, <1>8, RunsIsLegal

LEMMA PrintZonesIsLegal ==
  ASSUME Zone!LocksAssumption, LegalInv, Zone!PrintZones
  PROVE  LegalInv'
<1> DEFINE x(z) == <<Zone!Wait({}, {Zone!S("map_guard_", "server")}), Zone!Wait({}, {Zone!S("object_guard_", z)})>>
           y(q) == [i \in DOMAIN q |-> Zone!Wait({}, {Zone!Chr(q[i])})]
           w(b) == <<Zone!Wait({}, {Zone!Mob(b)})>>
<1>1. PICK z \in Zones, q \in Recipients, b \in Monsters : Zone!Runs(Console, <<(x(z) \o y(q)) \o w(b)>>)
  BY DEF Zone!PrintZones
<1>2. x(z) \in Seq(LegalPoints) \ {<<>>}
  <2>1. Zone!Wait({}, {Zone!S("map_guard_", "server")}) \in LegalPoints
    BY LocksAreHolds, FirstIsLegal
  <2>2. Zone!Wait({}, {Zone!S("object_guard_", z)}) \in LegalPoints
    BY LocksAreHolds, FirstIsLegal
  <2> QED  BY <2>1, <2>2
<1>3. y(q) \in Seq(LegalPoints)
  <2>1. q \in Seq(Clients)
    BY DEF Zone!LocksAssumption
  <2>2. y(q) \in Seq(Good({}))
    BY <2>1, ChrWaits
  <2> HIDE DEF y
  <2> QED  BY <2>2, GoodIsLegal
<1>4. w(b) \in Seq(LegalPoints)
  <2>1. Zone!Wait({}, {Zone!Mob(b)}) \in LegalPoints
    BY LocksAreHolds, FirstIsLegal
  <2> QED  BY <2>1
<1> HIDE DEF x, y, w
<1>5. <<(x(z) \o y(q)) \o w(b)>> \in Seq(LegalCalls)
  BY <1>2, <1>3, <1>4 DEF LegalCalls
<1> QED  BY <1>1, <1>5, RunsIsLegal

LEMMA StopIsLegal ==
  ASSUME Zone!LocksAssumption, LegalInv, Zone!Stop
  PROVE  LegalInv'
<1>1. PICK q \in Recipients : Zone!Runs(Console, [i \in DOMAIN q |-> Zone!Close(q[i])])
  BY DEF Zone!Stop
<1>2. q \in Seq(Clients)
  BY DEF Zone!LocksAssumption
<1>3. \A i \in 1 .. Len(q) : Zone!Close(q[i]) \in LegalCalls
  BY <1>2, CloseIsLegal
<1>4. [i \in DOMAIN q |-> Zone!Close(q[i])] \in [1 .. Len(q) -> LegalCalls]
  BY <1>2, <1>3
<1>5. [i \in DOMAIN q |-> Zone!Close(q[i])] \in Seq(LegalCalls)
  BY <1>2, <1>4, FunctionIsSequence
<1> QED  BY <1>1, <1>5, RunsIsLegal

\* What is left of a thread's calls.
LEMMA RestIsLegal ==
  ASSUME LegalInv, NEW t \in Zone!Threads, Zone!Busy(t)
  PROVE  Zone!Rest(t) \in Seq(LegalCalls) /\ Head(Head(todo[t])) \in LegalPoints
<1>1. todo[t] \in Seq(LegalCalls) /\ todo[t] # <<>>
  BY DEF LegalInv, Zone!Busy
<1>2. Head(todo[t]) \in LegalCalls /\ Tail(todo[t]) \in Seq(LegalCalls)
  BY <1>1
<1> DEFINE x == Head(todo[t])
           y == Tail(todo[t])
<1>3. x \in Seq(LegalPoints) /\ x # <<>>
  BY <1>2 DEF LegalCalls
<1>4. Head(x) \in LegalPoints /\ Tail(x) \in Seq(LegalPoints)
  BY <1>3
<1>5. Zone!Rest(t) = IF Tail(x) = <<>> THEN y ELSE <<Tail(x)>> \o y
  BY DEF Zone!Rest
<1> HIDE DEF x, y
<1>6. ASSUME Tail(x) # <<>>
      PROVE  <<Tail(x)>> \o y \in Seq(LegalCalls)
  <2>1. Tail(x) \in LegalCalls
    BY <1>4, <1>6 DEF LegalCalls
  <2> QED  BY <1>2, <2>1, CallsInARow DEF y
<1> QED  BY <1>2, <1>4, <1>5, <1>6 DEF x, y

LEMMA AdvanceIsLegal ==
  ASSUME LegalInv, NEW t \in Zone!Threads, Zone!Advance(t)
  PROVE  LegalInv'
<1>1. Zone!Busy(t) /\ todo' = [todo EXCEPT ![t] = Zone!Rest(t)]
  BY DEF Zone!Advance, Zone!Goes
<1> QED  BY <1>1, RestIsLegal, LegalStep

LEMMA DeleteIsLegal ==
  ASSUME Zone!LocksAssumption, LegalInv, NEW t \in Zone!Threads, Zone!Delete(t)
  PROVE  LegalInv'
<1> DEFINE p == Head(Head(todo[t]))
<1>1. PICK call \in Zone!OnCloseCalls(p.under, p.lets) :
         /\ Zone!Busy(t) /\ p.lets # NoClient
         /\ todo' = [todo EXCEPT ![t] = <<call>> \o Zone!Rest(t)]
  BY DEF Zone!Delete, Zone!Goes
<1>2. p \in LegalPoints /\ Zone!Rest(t) \in Seq(LegalCalls)
  BY <1>1, RestIsLegal
<1>3. p.under \in SUBSET Zone!Holds /\ p.lets \in Clients
  <2> HIDE DEF p
  <2> QED  BY <1>1, <1>2 DEF LegalPoints, Zone!Points
<1>4. call \in LegalCalls
  BY <1>3, OnCloseIsLegal
<1>5. <<call>> \o Zone!Rest(t) \in Seq(LegalCalls)
  BY <1>2, <1>4, CallsInARow
<1> QED  BY <1>1, <1>5, LegalStep

LEMMA OnCloseAloneIsLegal ==
  ASSUME Zone!LocksAssumption, LegalInv, NEW t \in Workers, NEW c \in Clients, Zone!OnClose(t, c)
  PROVE  LegalInv'
<1>1. PICK call \in Zone!OnCloseCalls({}, c) : todo' = [todo EXCEPT ![t] = <<call>>]
  BY DEF Zone!OnClose
<1>2. call \in LegalCalls
  <2>1. {} \in SUBSET Zone!Holds
    OBVIOUS
  <2> QED  BY <2>1, OnCloseIsLegal
<1>3. <<call>> \in Seq(LegalCalls)
  BY <1>2
<1> QED  BY <1>1, <1>3, LegalStep DEF Zone!Threads

LEMMA LegalInvStep ==
  ASSUME Zone!LocksAssumption, LegalInv, [Zone!Next]_(Zone!vars)
  PROVE  LegalInv'
<1>1. CASE UNCHANGED Zone!vars
  BY <1>1 DEF Zone!vars, LegalInv
<1>2. ASSUME NEW t \in Zone!Threads, Zone!Advance(t) \/ Zone!Delete(t)
      PROVE  LegalInv'
  BY <1>2, AdvanceIsLegal, DeleteIsLegal
<1>3. ASSUME NEW t \in Workers, NEW c \in Clients, Zone!ProcessPacket(t, c)
      PROVE  LegalInv'
  BY <1>3, ConfirmIsLegal, MotionIsLegal, ActionIsLegal, HitIsLegal, InventoryIsLegal,
     RequestIsLegal, CancelIsLegal, AcceptIsLegal, ZoneChangeIsLegal DEF Zone!ProcessPacket
<1>4. ASSUME NEW t \in Workers, NEW c \in Clients, Zone!OnClose(t, c)
      PROVE  LegalInv'
  BY <1>4, OnCloseAloneIsLegal
<1>5. CASE Zone!UpdateZones
  BY <1>5, UpdateIsLegal
<1>6. CASE Zone!PrintClients
  BY <1>6, PrintClientsIsLegal
<1>7. CASE Zone!PrintMatches
  BY <1>7, PrintMatchesIsLegal
<1>8. CASE Zone!PrintZones
  BY <1>8, PrintZonesIsLegal
<1>9. CASE Zone!Stop
  BY <1>9, StopIsLegal
<1> QED  BY <1>1, <1>2, <1>3, <1>4, <1>5, <1>6, <1>7, <1>8, <1>9 DEF Zone!Next

-----------------------------------------------------------------------------
(* What the order is for. *)

LEMMA KnownIfLegal == LegalInv => Zone!OnlyKnownDeadlocks
<1> SUFFICES ASSUME LegalInv,
                    NEW D \in SUBSET Zone!Threads,
                    D # {}, \A t \in D : \E u \in D : Zone!Blocks(u, t),
                    \A t \in D : ~Zone!InOnClose(t)
             PROVE  \E t, u \in D : Zone!Reversed(t, u)
  BY DEF Zone!OnlyKnownDeadlocks
<1> DEFINE Point(t) == Head(Head(todo[t]))
\* Each of them waits for a lock, of which another one has a hold.
<1>1. ASSUME NEW t \in D
      PROVE  \E u \in D : \E h \in Zone!Held(u), w \in Zone!Wanted(t) : h.lock = w.lock
  BY DEF Zone!Blocks
<1>2. ASSUME NEW t \in D, Zone!Wanted(t) # {}
      PROVE  /\ Point(t) \in LegalPoints /\ ~Point(t).closing
             /\ Zone!Held(t) = Point(t).under /\ Zone!Wanted(t) = Point(t).wants
  <2>1. todo[t] # <<>> /\ todo[t] \in Seq(LegalCalls)
    BY <1>2 DEF Zone!Wanted, Zone!Busy, LegalInv
  <2>2. Head(todo[t]) \in LegalCalls
    BY <2>1
  <2>3. Point(t) \in LegalPoints
    BY <2>2 DEF LegalCalls
  <2> QED  BY <2>1, <2>3 DEF Zone!InOnClose, Zone!Busy, Zone!Held, Zone!Wanted
<1>3. ASSUME NEW t \in D
      PROVE  /\ Zone!Held(t) \subseteq Zone!Holds /\ Zone!Wanted(t) \subseteq Zone!Holds
             /\ Below(Zone!Held(t), Zone!Wanted(t)) \/ Searches(Point(t))
             /\ Zone!Held(t) = Point(t).under /\ Zone!Wanted(t) = Point(t).wants
  BY <1>1, <1>2 DEF LegalPoints, Ordered, Zone!Points
<1> HIDE DEF Point
<1>4. \A l \in Zone!Holds : Rank(l.lock.kind) \in 1 .. 5
  BY DEF Rank, Zone!Holds, Zone!Locks, Zone!Kinds, Zone!Recursive
\* Who has a hold of a rank and does not search waits for one of a higher rank.
<1>5. ASSUME NEW t \in D, NEW g \in Zone!Held(t), ~Searches(Point(t))
      PROVE  \E u \in D : \E h \in Zone!Held(u), w \in Zone!Wanted(t) :
                h.lock = w.lock /\ Rank(g.lock.kind) < Rank(h.lock.kind)
  BY <1>1, <1>3, <1>5 DEF Below
<1>6. ASSUME NEW t \in D, NEW g \in Zone!Held(t), Searches(Point(t))
      PROVE  g.lock.kind = "match_guard_" /\ Rank(g.lock.kind) = 2
  BY <1>3, <1>6 DEF Searches, Rank
<1>7. \A t \in D : \A g \in Zone!Held(t) : Rank(g.lock.kind) \in 1 .. 5
  BY <1>3, <1>4
<1> DEFINE Has(r) == \E t \in D : \E g \in Zone!Held(t) : Rank(g.lock.kind) = r
<1>8. ASSUME NEW t \in D, NEW g \in Zone!Held(t), Rank(g.lock.kind) \in 3 .. 5
      PROVE  \E r \in 1 .. 5 : Has(r) /\ Rank(g.lock.kind) < r
  <2>1. ~Searches(Point(t))
    BY <1>6, <1>8
  <2>2. PICK u \in D : \E h \in Zone!Held(u) : Rank(g.lock.kind) < Rank(h.lock.kind)
    BY <1>5, <2>1
  <2> QED  BY <1>7, <2>2
<1>9. ~Has(5)
  BY <1>8
<1>10. ~Has(4)
  BY <1>8, <1>9
<1>10a. ~Has(3)
  BY <1>8, <1>9, <1>10
<1>11. \A t \in D : \A g \in Zone!Held(t) : Rank(g.lock.kind) = 2 => Searches(Point(t))
  <2> SUFFICES ASSUME NEW t \in D, NEW g \in Zone!Held(t), Rank(g.lock.kind) = 2, ~Searches(Point(t))
               PROVE  FALSE
    OBVIOUS
  <2>1. PICK u \in D : \E h \in Zone!Held(u) : Rank(g.lock.kind) < Rank(h.lock.kind)
    BY <1>5
  <2> QED  BY <1>7, <1>9, <1>10, <1>10a, <2>1
\* So who has a context_guard_ waits for match_guard_, which a search has.
<1>12. ASSUME NEW t \in D, NEW g \in Zone!Held(t), ~Searches(Point(t))
       PROVE  \E u \in D : \E h \in Zone!Held(u), w \in Zone!Wanted(t) :
                 h.lock = w.lock /\ Searches(Point(u))
  <2>1. PICK u \in D : \E h \in Zone!Held(u), w \in Zone!Wanted(t) :
                          h.lock = w.lock /\ Rank(g.lock.kind) < Rank(h.lock.kind)
    BY <1>5, <1>12
  <2>2. PICK h \in Zone!Held(u) : /\ \E w \in Zone!Wanted(t) : h.lock = w.lock
                                 /\ Rank(g.lock.kind) < Rank(h.lock.kind)
    BY <2>1
  <2>3. Rank(h.lock.kind) = 2
    BY <1>7, <1>9, <1>10, <1>10a, <2>2
  <2> QED  BY <1>11, <2>2, <2>3
<1>13. PICK t \in D : Zone!Held(t) # {} /\ Searches(Point(t))
  <2>1. PICK t \in D : TRUE
    OBVIOUS
  <2>2. PICK u \in D : Zone!Held(u) # {}
    BY <1>1, <2>1
  <2> QED  BY <1>12, <2>2
<1>14. PICK m \in Matches : \A w \in Zone!Wanted(t) : w.lock = Zone!Context(m).lock
  BY <1>3, <1>13 DEF Searches
<1>15. PICK u \in D : \E h \in Zone!Held(u), w \in Zone!Wanted(t) : h.lock = w.lock
  BY <1>1
<1>16. /\ \E w \in Zone!Wanted(t) : w.lock = Zone!Context(m).lock
       /\ \E h \in Zone!Held(u) : h.lock = Zone!Context(m).lock /\ h.lock.kind = "context_guard_"
  BY <1>14, <1>15 DEF Zone!Context, Zone!X
<1>17. ~Searches(Point(u))
  BY <1>6, <1>16
<1>18. PICK v \in D : Searches(Point(v)) /\ \E f \in Zone!Held(v), e \in Zone!Wanted(u) : f.lock = e.lock
  BY <1>12, <1>16, <1>17
<1>19. \E e \in Zone!Wanted(u) : e.lock.kind = "match_guard_"
  BY <1>6, <1>18
<1>20. \E g \in Zone!Held(t) : g.lock.kind = "match_guard_"
  BY <1>6, <1>13
<1> QED  BY <1>16, <1>19, <1>20 DEF Zone!Reversed

(* Whatever the numbers of workers, clients, zones, matches and monsters,  *)
(* and in whatever order a loop meets them, threads that wait for each     *)
(* other for ever wait as the run locks finds it: one of them in an        *)
(* OnClose that its own Send or Close runs, or two of them between         *)
(* match_guard_ and a match's context_guard_.                              *)
THEOREM DeadlocksAreKnown ==
  ASSUME Zone!LocksAssumption
  PROVE  Zone!Spec => []Zone!OnlyKnownDeadlocks
<1>1. Zone!Init => LegalInv
  BY DEF Zone!Init, LegalInv
<1>2. LegalInv /\ [Zone!Next]_(Zone!vars) => LegalInv'
  BY LegalInvStep
<1>3. LegalInv => Zone!OnlyKnownDeadlocks
  BY KnownIfLegal
<1> QED  BY <1>1, <1>2, <1>3, PTL DEF Zone!Spec
=============================================================================
