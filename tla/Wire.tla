---------------------------------- MODULE Wire ----------------------------------
(***************************************************************************)
(* The bytes of the packets that the servers send each other: OutputStream *)
(* and UE4OutPacket write them, NioInPacket (an InputStream) reads them.   *)
(* Module Stream is about how the bytes travel, module Migration about     *)
(* what the packets do.  Integers are little-endian and keep their width.  *)
(***************************************************************************)
EXTENDS Integers, Sequences

Byte == 0 .. 255
Char == Byte \ {0}
Half == 65536                       \* two bytes

Int16 == {n \in Int : -32768 <= n /\ n <= 32767}
UInt16 == {n \in Nat : n < Half}
Int32 == {n \in Int : n \div Half \in Int16}
Int64 == {n \in Int : (n \div Half) \div Half \in Int32}
String == Seq(Char)

-----------------------------------------------------------------------------
(* OutputStream. *)

WriteInt8(n) == <<n % 256>>
WriteInt16(n) == WriteInt8(n) \o WriteInt8(n \div 256)
WriteInt32(n) == WriteInt16(n) \o WriteInt16(n \div Half)
WriteInt64(n) == WriteInt32(n) \o WriteInt32((n \div Half) \div Half)
WriteString(str) == str \o <<0>>

\* UE4OutPacket: the length, which MakePacketHead writes last, comes before the opcode.
Packet(opcode, body) ==
    LET rest == WriteInt16(opcode) \o body
    IN  WriteInt16(Len(rest) + 2) \o rest

-----------------------------------------------------------------------------
(* InputStream.  A reader is its bytes, access_offset_, whether nothing    *)
(* has been thrown, and the values it has returned so far.                 *)

\* StreamValidCheck throws at the end of the packet, and the handler ends.
Access(s, n, value) ==
    IF s.ok /\ s.at + n <= Len(s.buf)
      THEN [s EXCEPT !.at = @ + n, !.got = Append(@, value)]
      ELSE [s EXCEPT !.ok = FALSE]

AsInt16(n) == IF n <= 32767 THEN n ELSE n - Half

Bytes1(s, k) == s.buf[s.at + k]
Bytes2(s, k) == Bytes1(s, k) + 256 * Bytes1(s, k + 1)

\* The sign is in the last two bytes.
ReadInt16(s) == Access(s, 2, AsInt16(Bytes2(s, 1)))
ReadInt32(s) == Access(s, 4, Bytes2(s, 1) + Half * AsInt16(Bytes2(s, 3)))
ReadInt64(s) ==
    Access(s, 8, Bytes2(s, 1) + Half * (Bytes2(s, 3) + Half * (Bytes2(s, 5) + Half * AsInt16(Bytes2(s, 7)))))

\* strlen stops at a zero; without one in the packet the string ends beyond it, and the access fails.
StrLen(s) ==
    CHOOSE n \in 0 .. Len(s.buf) :
        /\ s.at + n >= Len(s.buf) \/ Bytes1(s, n + 1) = 0
        /\ \A k \in 1 .. n : Bytes1(s, k) # 0
ReadString(s) == Access(s, StrLen(s) + 1, [k \in 1 .. StrLen(s) |-> Bytes1(s, k)])

\* UE4IntermediateHandler and ProcessPacket: SetAccesOffset(2), then the opcode.
Opened(packet) == ReadInt16([buf |-> packet, at |-> 2, ok |-> TRUE, got |-> <<>>])

\* UE4PacketCipher::GetHead
GetHead(packet) == AsInt16(packet[1] + 256 * packet[2])

-----------------------------------------------------------------------------
(* What the servers tell each other.  The infos come last: after the       *)
(* opcode, and a session's after two values more.                          *)

ServerInfo == [type : Int16, ip : String, port : UInt16, max : Int64, current : Int64]
\* The clock of an authority counts milliseconds, Clock::to_time_t drops them.
Seconds(time) == time \div 1000
SessionInfo == [ip : String, id : String, time : {t \in Nat : Seconds(t) \in Int64}, accid : Int32, cid : Int32]

\* IntermediateServerReceivePacket and IntermediateServerSendPacket
kRegisterRemoteServer == 0
kRequestUserMigration == 2
kReactSessionAuthorityInfo == 3
kNotifyUserLogout == 4
kNotifySessionAuthorityInfo == 0
kReactUserMigration == 1

\* RemoteServerInfo::Write, with a cast of the port to int16_t,
WriteServerInfo(info) ==
    WriteInt16(info.type) \o (WriteString(info.ip) \o (WriteInt16(info.port) \o
        (WriteInt64(info.max) \o WriteInt64(info.current))))

\* and Read, which reads the port as an int16_t into the memory of a uint16_t.
ReadServerInfo(s) == ReadInt64(ReadInt64(ReadInt16(ReadString(ReadInt16(s)))))
ServerInfoOf(got) ==
    [type |-> got[2], ip |-> got[3], port |-> got[4] % Half, max |-> got[5], current |-> got[6]]

\* RemoteSessionInfo::Write,
WriteSessionInfo(info) ==
    WriteString(info.ip) \o (WriteString(info.id) \o (WriteInt64(Seconds(info.time)) \o
        (WriteInt32(info.accid) \o WriteInt32(info.cid))))

\* and Read makes a Clock of whole seconds.
ReadSessionInfo(s) == ReadInt32(ReadInt32(ReadInt64(ReadString(ReadString(s)))))
SessionInfoOf(got) ==
    [ip |-> got[4], id |-> got[5], time |-> 1000 * got[6], accid |-> got[7], cid |-> got[8]]

\* ConnectChannel and HandleRegisterServer
Registration(info) == Packet(kRegisterRemoteServer, WriteServerInfo(info))
HandleRegisterServer(packet) ==
    LET s == ReadServerInfo(Opened(packet))
    IN  [ok |-> s.ok, opcode |-> s.got[1], info |-> ServerInfoOf(s.got)]

\* HandleLoginRequest and HandleCharacterSelectRequest ask for a server of a type,
Request(type, user_uuid, info) ==
    Packet(kRequestUserMigration, WriteInt16(type) \o (WriteString(user_uuid) \o WriteSessionInfo(info)))

\* HandleRequestUserMigration reads that
HandleRequestUserMigration(packet) ==
    LET s == ReadSessionInfo(ReadString(ReadInt16(Opened(packet))))
    IN  [ok |-> s.ok, opcode |-> s.got[1], type |-> s.got[2], user |-> s.got[3],
         info |-> SessionInfoOf(s.got)]

\* and passes it on with the name of who asked.
Notification(origin, user_uuid, info) ==
    Packet(kNotifySessionAuthorityInfo, WriteString(origin) \o (WriteString(user_uuid) \o WriteSessionInfo(info)))

\* The functions the lobby server and the zone server bind to it read it,
NotifySessionAuthorityInfo(packet) ==
    LET s == ReadSessionInfo(ReadString(ReadString(Opened(packet))))
    IN  [ok |-> s.ok, opcode |-> s.got[1], origin |-> s.got[2], user |-> s.got[3],
         info |-> SessionInfoOf(s.got)]

\* and answer with both names.
Reaction(origin, user_uuid) ==
    Packet(kReactSessionAuthorityInfo, WriteString(origin) \o WriteString(user_uuid))
HandleReactSessionAuthorityInfo(packet) ==
    LET s == ReadString(ReadString(Opened(packet)))
    IN  [ok |-> s.ok, opcode |-> s.got[1], origin |-> s.got[2], user |-> s.got[3]]

\* The intermediate server tells the origin the address: operator<< has no uint16_t, so that the port
\* becomes an int32_t,
Answer(user_uuid, ip, port) ==
    Packet(kReactUserMigration, WriteString(user_uuid) \o (WriteString(ip) \o WriteInt32(port)))

\* of which the login server and the lobby server read the lower half.
ReactUserMigation(packet) ==
    LET s == ReadInt16(ReadString(ReadString(Opened(packet))))
    IN  [ok |-> s.ok, opcode |-> s.got[1], user |-> s.got[2], ip |-> s.got[3], port |-> s.got[4] % Half]

\* OnClose and HandleNotifiyUserLogout
Logout(accid) == Packet(kNotifyUserLogout, WriteInt32(accid))
HandleNotifiyUserLogout(packet) ==
    LET s == ReadInt32(Opened(packet))
    IN  [ok |-> s.ok, opcode |-> s.got[1], accid |-> s.got[2]]
=============================================================================
