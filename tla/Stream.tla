-------------------------------- MODULE Stream --------------------------------
(***************************************************************************)
(* One direction of one connection: OutputStream builds a packet,          *)
(* TNioSession::Send starts to write it, TCP carries its bytes in pieces   *)
(* of any size, and the session at the other end appends them to its       *)
(* NioBuffer and cuts packets out of it with UE4PacketCipher.              *)
(*                                                                         *)
(* A packet is the sequence of its bytes <<k, j>>, the j-th byte of the    *)
(* k-th packet; its first two bytes are its head, in which the receiver    *)
(* looks for its length.  Lengths are scaled down: MaxInPacket stands for  *)
(* 1024, HalfRange for 2^15.                                               *)
(***************************************************************************)
EXTENDS Naturals, Integers, Sequences

CONSTANTS InternalLengths,  \* sizes of the receiver's buffer: InternalBufferLength of a server
          RecvLength,       \* RecvBufferLength
          MaxInPacket,      \* size of NioInPacket's memory
          HalfRange,        \* lengths from here on are negative as an int16_t
          AllocLength,      \* memory of a new OutputStream: 64 bytes
          WriteSizes,       \* sizes of the fields written to a packet, names of characters apart
          NameSizes,        \* sizes of the names of characters: up to 100 bytes
          FirstName,        \* most bytes before the first name of a packet: 12
          NameGap,          \* bytes from a name to the next: 17 values and a slot, 72
          DeadLength,       \* length of the death notice: 12
          StaleHeads,       \* heads that uninitialised memory may hold
          ReadSizes,        \* bytes a handler reads after the opcode
          MaxLength,        \* bound on the length of a packet
          MaxSent           \* bound on the number of packets

HeadSize == 2
OpcodeSize == 2

ASSUME StreamAssumption ==
    /\ InternalLengths \subseteq Nat /\ WriteSizes \subseteq Nat /\ ReadSizes \subseteq Nat
    /\ RecvLength \in Nat /\ MaxInPacket \in Nat /\ HalfRange \in Nat /\ AllocLength \in Nat
    /\ MaxLength \in Nat /\ MaxSent \in Nat
    /\ NameSizes \subseteq Nat /\ FirstName \in Nat /\ NameGap \in Nat
    /\ DeadLength \in Nat /\ StaleHeads \subseteq 0 .. 2 * HalfRange - 1
    /\ HeadSize <= AllocLength /\ MaxInPacket < HalfRange
    /\ \A n \in WriteSizes : n <= AllocLength
    /\ \A n \in NameSizes :
         n > AllocLength => FirstName + n <= 2 * AllocLength /\ AllocLength < HeadSize + NameGap

VARIABLES
    out,         \* the packet being built: access_offset_ and buffer_length_ of its stream, whether it
                 \* holds a name, and the bytes written since the last one
    sent,        \* packets given to Send
    heads,       \* the head of each of them
    flight,      \* numbers of the packets whose async_write has not sent them yet
    release,     \* send_release_queue_: packets whose memory is kept
    freed,       \* packets in flight whose memory has been freed
    acks,        \* completed writes whose OnSend has not run
    overlapped,  \* Send has been called before OnSend of an earlier packet
    corrupt,     \* bytes from freed memory have been sent
    tcp,         \* bytes under way
    internal,    \* memory_block_size_ of the receiver
    buffer_,     \* the bytes in the receiver's NioBuffer
    decoding,    \* OnRead is in its loop
    received,    \* packets handed to ProcessPacket
    closed       \* why the receiver closed the connection, or "no"

sender == <<out, sent, heads, flight, release, freed, acks, overlapped, corrupt>>
receiver == <<internal, buffer_, decoding, received, closed>>
vars == <<sender, tcp, receiver>>

Packet(k, n) == [j \in 1 .. n |-> <<k, j>>]
Garbage == <<0, 0>>
Fresh == [offset |-> HeadSize, length |-> AllocLength, named |-> FALSE, since |-> 0]

Init ==
    /\ out = Fresh
    /\ sent = <<>> /\ heads = <<>> /\ flight = <<>> /\ release = {} /\ freed = {} /\ acks = 0
    /\ overlapped = FALSE /\ corrupt = FALSE
    /\ tcp = <<>>
    /\ internal \in InternalLengths
    /\ buffer_ = <<>> /\ decoding = FALSE /\ received = <<>> /\ closed = "no"

-----------------------------------------------------------------------------
(* The sender. *)

\* Mutant: the memory is extended by what a new stream has.
BufferIfShortReallocMemory_AddsOnce(n) ==
    IF out.offset + n > out.length THEN out.length + AllocLength ELSE out.length

\* The memory of a stream when n bytes more are to be written: it is extended once, to twice its size.
BufferIfShortReallocMemory(n) ==
    IF out.offset + n > out.length THEN 2 * out.length ELSE out.length

\* OutputStream: one field of n bytes.
Field(n, isName) ==
    /\ Len(sent) < MaxSent /\ out.offset + n <= MaxLength
    /\ out' = [offset |-> out.offset + n, length |-> BufferIfShortReallocMemory(n),
               named  |-> out.named \/ isName, since |-> IF isName THEN 0 ELSE out.since + n]
    /\ UNCHANGED <<sent, heads, flight, release, freed, acks, overlapped, corrupt, tcp, receiver>>

Write(n) == Field(n, FALSE)

\* The name of a character, the only field longer than the memory of a new stream.  Where it is in a
\* packet: the first is behind head, opcode, number of characters and slot, the next one behind the
\* other values of the character before it and a slot.
WriteName(n) ==
    /\ IF out.named THEN out.since >= NameGap ELSE out.offset <= FirstName
    /\ Field(n, TRUE)

\* Mutant: the memory of the packet is not kept.
Post_NotKept(head) ==
    LET k == Len(sent) + 1
    IN  /\ k <= MaxSent
        /\ sent' = Append(sent, Packet(k, out.offset))
        /\ heads' = Append(heads, head)
        /\ flight' = Append(flight, k)
        /\ freed' = freed \cup {k}
        /\ overlapped' = (overlapped \/ flight # <<>> \/ acks > 0)
        /\ out' = Fresh
        /\ UNCHANGED <<release, acks, corrupt, tcp, receiver>>

\* Mutant: packets are numbered from zero.
Post_FromZero(head) ==
    /\ Len(sent) < MaxSent
    /\ sent' = Append(sent, Packet(Len(sent) + 1, out.offset))
    /\ heads' = Append(heads, head)
    /\ flight' = Append(flight, Len(sent))
    /\ release' = release \cup {Len(sent)}
    /\ out' = Fresh
    /\ UNCHANGED <<freed, acks, overlapped, corrupt, tcp, receiver>>

\* TNioSession::Send.  send_queue_ is never filled, so each packet is written at once.
Post(head) ==
    LET k == Len(sent) + 1
    IN  /\ k <= MaxSent
        /\ sent' = Append(sent, Packet(k, out.offset))
        /\ heads' = Append(heads, head)
        /\ flight' = Append(flight, k)
        /\ release' = release \cup {k}
        /\ overlapped' = (overlapped \/ flight # <<>> \/ acks > 0)
        /\ out' = Fresh
        /\ UNCHANGED <<freed, acks, corrupt, tcp, receiver>>

\* MakePacketHead writes the length into a uint16_t.
MakePacketHead == out.offset % (2 * HalfRange)

Send == Post(MakePacketHead)

\* HandleMonsterAttack broadcasts the death of a character without MakePacketHead: the head of the
\* packet is what its memory, which nothing has initialised, holds.
SendDead(head) == out.offset = DeadLength /\ ~out.named /\ Post(head)

\* The system sends what the memory of the oldest write holds now: freed memory may have been reused.
Transmit ==
    /\ flight # <<>>
    /\ LET k == Head(flight)
       IN  /\ flight' = Tail(flight)
           /\ freed' = freed \ {k}
           /\ \/ tcp' = tcp \o sent[k] /\ UNCHANGED corrupt
              \/ /\ k \in freed
                 /\ tcp' = tcp \o [j \in DOMAIN sent[k] |-> Garbage]
                 /\ corrupt' = TRUE
    /\ acks' = acks + 1
    /\ UNCHANGED <<out, sent, heads, release, overlapped, receiver>>

\* OnSend frees the memory of all packets, those in flight too.
OnSend ==
    /\ acks > 0
    /\ acks' = acks - 1
    /\ release' = {}
    /\ freed' = freed \cup {k \in release : \E n \in DOMAIN flight : flight[n] = k}
    /\ UNCHANGED <<out, sent, heads, flight, overlapped, corrupt, tcp, receiver>>

-----------------------------------------------------------------------------
(* The receiver. *)

\* NioBuffer::Append throws when the piece does not fit; MarkReadIndex moves what is left to the front.
Fits(n) == Len(buffer_) + n <= internal
MarkReadIndex(length) == SubSeq(buffer_, length + 1, Len(buffer_))

\* Mutant: the piece overwrites what is in the buffer.
Receive_Overwrites(n) ==
    /\ closed = "no" /\ ~decoding
    /\ n <= RecvLength /\ n <= Len(tcp)
    /\ tcp' = SubSeq(tcp, n + 1, Len(tcp))
    /\ buffer_' = SubSeq(tcp, 1, n) \o SubSeq(buffer_, n + 1, Len(buffer_))
    /\ decoding' = TRUE
    /\ UNCHANGED <<sender, internal, received, closed>>

\* Mutant: the last byte of the buffer is not used.
Receive_OffByOne(n) ==
    /\ closed = "no" /\ ~decoding
    /\ n <= RecvLength /\ n <= Len(tcp)
    /\ tcp' = SubSeq(tcp, n + 1, Len(tcp))
    /\ IF Len(buffer_) + n >= internal
         THEN closed' = "overflow" /\ UNCHANGED <<buffer_, decoding>>
         ELSE buffer_' = buffer_ \o SubSeq(tcp, 1, n) /\ decoding' = TRUE /\ UNCHANGED closed
    /\ UNCHANGED <<sender, internal, received>>

\* OnRead appends a piece of the stream to the buffer; a piece that does not fit closes the session.
Receive(n) ==
    /\ closed = "no" /\ ~decoding
    /\ n <= RecvLength /\ n <= Len(tcp)
    /\ tcp' = SubSeq(tcp, n + 1, Len(tcp))
    /\ IF Fits(n)
         THEN buffer_' = buffer_ \o SubSeq(tcp, 1, n) /\ decoding' = TRUE /\ UNCHANGED closed
         ELSE closed' = "overflow" /\ UNCHANGED <<buffer_, decoding>>
    /\ UNCHANGED <<sender, internal, received>>

\* A length that was written to a uint16_t, read as an int16_t.
Signed(length) ==
    LET n == length % (2 * HalfRange)
    IN  IF n < HalfRange THEN n ELSE n - 2 * HalfRange

\* The possible values of the first two bytes of the buffer, when it has them.
GetHead ==
    LET k == buffer_[1][1]
    IN  IF k > 0 /\ buffer_[1][2] = 1 THEN {Signed(heads[k])} ELSE -1 .. MaxInPacket + 1

\* Mutant: a packet that has just arrived is taken for incomplete.
Wait_OffByOne ==
    /\ decoding
    /\ \/ Len(buffer_) < HeadSize
       \/ Len(buffer_) >= HeadSize /\ \E head \in GetHead : head < 0 \/ Len(buffer_) <= head
    /\ decoding' = FALSE
    /\ UNCHANGED <<sender, tcp, internal, buffer_, received, closed>>

\* UE4PacketCipher::Decode without a whole packet: OnRead leaves its loop and reads on.
Wait ==
    /\ decoding
    /\ \/ Len(buffer_) < HeadSize
       \/ Len(buffer_) >= HeadSize /\ \E head \in GetHead : head < 0 \/ Len(buffer_) < head
    /\ decoding' = FALSE
    /\ UNCHANGED <<sender, tcp, internal, buffer_, received, closed>>

\* NioInPacket::Initialize refuses the length: OnRead closes the session.
BadLength ==
    /\ decoding /\ Len(buffer_) >= HeadSize
    /\ \E head \in GetHead : head = 0 \/ (head > MaxInPacket /\ Len(buffer_) >= head)
    /\ decoding' = FALSE
    /\ closed' = "length"
    /\ UNCHANGED <<sender, tcp, internal, buffer_, received>>

\* The handler of a packet of this length reads further than its end: InputStream throws.
ReadsBeyond(length, read) == length < HeadSize + OpcodeSize + read

\* A packet is cut out and given to ProcessPacket.  One without a byte after its head throws out of
\* ProcessPacket and ends the loop; one that is shorter than what its handler reads closes the client,
\* but the loop goes on with the packets that are in the buffer already.
Decode(read) ==
    /\ decoding /\ Len(buffer_) >= HeadSize
    /\ \E head \in GetHead :
         /\ 1 <= head /\ head <= MaxInPacket /\ head <= Len(buffer_)
         /\ received' = Append(received, SubSeq(buffer_, 1, head))
         /\ buffer_' = MarkReadIndex(head)
         /\ decoding' = (head > HeadSize)
         /\ closed' = IF ReadsBeyond(head, read) THEN "short" ELSE closed
    /\ UNCHANGED <<sender, tcp, internal>>

-----------------------------------------------------------------------------
Next ==
    \/ \E n \in WriteSizes : Write(n)
    \/ \E n \in NameSizes : WriteName(n)
    \/ Send
    \/ \E head \in StaleHeads : SendDead(head)
    \/ Transmit \/ OnSend
    \/ \E n \in 1 .. RecvLength : Receive(n)
    \/ Wait \/ BadLength
    \/ \E read \in ReadSizes : Decode(read)

Spec == Init /\ [][Next]_vars

\* TCP delivers, completions are handled, and OnRead goes on.
FairSpec ==
    /\ Spec
    /\ WF_vars(Transmit)
    /\ WF_vars(\E n \in 1 .. RecvLength : Receive(n))
    /\ WF_vars(Wait \/ BadLength \/ \E read \in ReadSizes : Decode(read))

-----------------------------------------------------------------------------
(* Properties. *)

\* Every variable has its type (NioSession.hpp, NioBuffer.hpp, OutputStream.cpp).
TypeOK ==
    /\ out \in [offset : Nat, length : Nat, named : BOOLEAN, since : Nat]
    /\ sent \in Seq(Seq(Nat \X Nat)) /\ received \in Seq(Seq(Nat \X Nat))
    /\ heads \in Seq(0 .. 2 * HalfRange - 1) /\ Len(heads) = Len(sent)
    /\ flight \in Seq(1 .. Len(sent))
    /\ release \subseteq 1 .. Len(sent) /\ freed \subseteq 1 .. Len(sent)
    /\ acks \in Nat
    /\ overlapped \in BOOLEAN /\ corrupt \in BOOLEAN /\ decoding \in BOOLEAN
    /\ tcp \in Seq(Nat \X Nat) /\ buffer_ \in Seq(Nat \X Nat)
    /\ internal \in InternalLengths
    /\ closed \in {"no", "overflow", "length", "short"}

\* A packet whose head is not its length: the length does not fit in a uint16_t, or nobody wrote it.
WrongHead == \E k \in DOMAIN sent : heads[k] # Len(sent[k])

\* No buffer is left.  No field is written behind the memory of its stream, although
\* BufferIfShortReallocMemory extends it once only and the names of a list may be longer than the
\* memory it starts with.  And a peer that sends packets NioInPacket can hold, with their heads, is
\* never closed for an overflow of NioBuffer, if the buffer holds what is left of a packet and one full
\* read besides (the zone's sizes do, the 1024 bytes of the other servers do not).
WrittenInBounds == HeadSize <= out.offset /\ out.offset <= out.length
ReadInBounds ==
    closed = "overflow" =>
      \/ internal < MaxInPacket - 1 + RecvLength
      \/ corrupt \/ WrongHead
      \/ \E k \in DOMAIN sent : Len(sent[k]) > MaxInPacket
InBounds == Len(buffer_) <= internal /\ WrittenInBounds /\ ReadInBounds

\* Memory is sent after it was freed only if Send was called before OnSend of an earlier packet had
\* run: send_release_queue_ keeps the packets of a sender that waits.
WaitingIsSafe == ~overlapped => freed = {} /\ ~corrupt

\* The connection is the channel of the abstract specification, until freed memory has been sent or a
\* packet with a wrong head, as the zone server's death notice.
C == INSTANCE Channel WITH broken <- corrupt \/ WrongHead
ImplementsChannel == C!Spec

\* A packet that was sent is handed to the other program, unless the connection is closed or sends freed
\* memory, or it or one before it has a wrong head or a length that is negative for the receiver, which
\* waits for ever.
Delivered ==
    \A k \in 1 .. MaxSent :
      Len(sent) >= k ~>
        \/ Len(received) >= k \/ closed # "no" \/ corrupt
        \/ \E j \in DOMAIN sent : j <= k /\ (heads[j] # Len(sent[j]) \/ Len(sent[j]) >= HalfRange)
=============================================================================
