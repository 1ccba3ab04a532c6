-------------------------- MODULE MigrationProofs --------------------------
(***************************************************************************)
(* What holds of Migration for every number of users, servers, accounts,   *)
(* links and losses: every admission rests on an authority issued for it   *)
(* and used once, what the hand-off tells its users is so, and a request   *)
(* that waits for its answer is never lost between two places.             *)
(***************************************************************************)
EXTENDS Migration, FiniteSetTheorems, TLAPS

-----------------------------------------------------------------------------
(* The inductive invariant behind AdmittedByRight.                         *)

\* The authority was created for this kind of server, for its account and address.
IsIssued(info, kind) ==
    \E i \in issued : /\ i.clock = info.clock
                      /\ i.target = kind
                      /\ i.account = info.id
                      /\ i.address = info.ip

RequestsAreIssued ==
    \A x \in Links : \A j \in DOMAIN up[x] :
        up[x][j].type = "kRequestUserMigration" => IsIssued(up[x][j].info, up[x][j].target)

NotificationsAreIssued ==
    \A x \in Links : \A j \in DOMAIN down[x] :
        down[x][j].type = "kNotifySessionAuthorityInfo" =>
            IsIssued(down[x][j].info, KindOf[x.server])

GrantsAreIssued ==
    \A d \in Targets, a \in Accounts :
        authority_map[d][a] # NoInfo => /\ authority_map[d][a].id = a
                                        /\ IsIssued(authority_map[d][a], KindOf[d])

\* The clock is ahead of every authority.
IssuedInThePast == \A i \in issued : i.clock <= clock

\* Only a player a lobby has admitted selects a character.
ConfirmedAreAdmitted ==
    \A u \in Users, d \in Lobbies :
        conn[u][d].state = "kConfirm" => LobbyAdmitted(AccountOf[u], AddressOf[u], clock + 1)

ZoneAuthoritiesAreEarned ==
    \A i \in issued :
        i.target = "kZoneServer" => LobbyAdmitted(i.account, i.address, i.clock)

\* The inductive invariant behind AdmittedByRight: an authority keeps its account, address and
\* kind of server in every packet and every authority_map_ it passes through.
AdmissionInv ==
    /\ TypeOK
    /\ RequestsAreIssued
    /\ NotificationsAreIssued
    /\ GrantsAreIssued
    /\ IssuedInThePast
    /\ ConfirmedAreAdmitted
    /\ ZoneAuthoritiesAreEarned
    /\ AdmittedByRight

-----------------------------------------------------------------------------
(* What the helpers return.                                                *)

\* A player's connection has a Uuid.
LEMMA UuidType ==
  ASSUME TypeOK, NEW u \in Users, NEW s \in Servers
  PROVE  Uuid(u, s) \in Uuids
<1>1. conn[u][s] \in Connections
  BY DEF TypeOK
<1> QED
  BY <1>1 DEF Uuid, Uuids, Connections

\* The link of a server that is connected exists.
LEMMA LinkType ==
  ASSUME TypeOK, NEW s \in Servers, open[s]
  PROVE  Link(s) \in Links
BY MigrationAssumption DEF TypeOK, Link, Links

\* A packet that a server sends keeps the channels well typed.
LEMMA SendUpType ==
  ASSUME TypeOK, NEW s \in Servers, NEW m \in Messages
  PROVE  SendUp(up, s, m) \in [Links -> Seq(Messages)]
<1>1. CASE open[s]
  BY <1>1, LinkType DEF TypeOK, SendUp
<1>2. CASE ~open[s]
  BY <1>2 DEF TypeOK, SendUp
<1> QED
  BY <1>1, <1>2

\* A packet that the intermediate server sends keeps the channels well typed.
LEMMA SendDownType ==
  ASSUME TypeOK, NEW x \in Links, NEW m \in Messages
  PROVE  SendDown(x, m) \in [Links -> Seq(Messages)]
BY DEF TypeOK, SendDown

\* Reading a packet of a channel gives a message and leaves a channel.
LEMMA ReadType ==
  ASSUME NEW q \in Seq(Messages), q # <<>>
  PROVE  Head(q) \in Messages /\ Tail(q) \in Seq(Messages)
OBVIOUS

\* The fields of each packet follow from its type.
LEMMA MessageFields ==
  ASSUME NEW m \in Messages
  PROVE  /\ m.type = "kRequestUserMigration" =>
                m.target \in Kinds /\ m.user \in Uuids /\ m.info \in Infos
         /\ m.type = "kReactSessionAuthorityInfo" => m.server \in Links /\ m.user \in Uuids
         /\ m.type = "kNotifyUserLogout" => m.id \in Accounts
         /\ m.type = "kNotifySessionAuthorityInfo" =>
                m.server \in Links /\ m.user \in Uuids /\ m.info \in Infos
         /\ m.type = "kReactUserMigation" => m.user \in Uuids /\ m.dest \in Servers
BY DEF Messages

\* The answer to the origin is a packet.
LEMMA ReactMessage ==
  ASSUME NEW user \in Uuids, NEW dest \in Servers
  PROVE  [type |-> "kReactUserMigation", user |-> user, dest |-> dest] \in Messages
BY DEF Messages

\* What a login and a selection send and record is well typed.
LEMMA RequestType ==
  ASSUME TypeOK, NEW u \in Users, NEW s \in Servers, NEW kind \in Kinds,
         NEW c \in Cids \union {NoCid}, RequestUserMigration(u, s, kind, c)
  PROVE  /\ up' \in [Links -> Seq(Messages)]
         /\ clock' \in 0..MaxClock
         /\ issued' \subseteq Issues
<1>1. Uuid(u, s) \in Uuids
  BY UuidType
<1>2. clock + 1 \in 1..MaxClock
  BY MigrationAssumption DEF TypeOK, RequestUserMigration
<1>3. AccountOf[u] \in Accounts /\ AddressOf[u] \in Addresses
  BY MigrationAssumption DEF Addresses
<1>4. up' \in [Links -> Seq(Messages)]
  <2> DEFINE m == [type |-> "kRequestUserMigration", target |-> kind, user |-> Uuid(u, s),
                   info |-> [clock |-> clock + 1, ip |-> AddressOf[u],
                             id |-> AccountOf[u], cid |-> c]]
  <2>1. m \in Messages
    BY <1>1, <1>2, <1>3 DEF Messages, Infos
  <2> QED
    BY <2>1, SendUpType DEF RequestUserMigration
<1>5. issued' \subseteq Issues
  BY <1>1, <1>2, <1>3 DEF TypeOK, RequestUserMigration, Issues
<1> QED
  BY <1>2, <1>4, <1>5 DEF RequestUserMigration

-----------------------------------------------------------------------------
(* Every step keeps the state well typed.                                  *)

\* Connecting to the intermediate server and losing the connection.
LEMMA LinkStepType ==
  ASSUME TypeOK, NEW s \in Servers, ConnectChannel(s) \/ LoseLink(s)
  PROVE  TypeOK'
<1>1. CASE ConnectChannel(s)
  <2> DEFINE x == [server |-> s, n |-> made[s] + 1]
  <2>1. x \in Links /\ made[s] + 1 \in 0..MaxLinks
    BY <1>1, MigrationAssumption DEF TypeOK, ConnectChannel, Links
  <2>2. <<[type |-> "kRegisterRemoteServer"]>> \in Seq(Messages)
    BY DEF Messages
  <2>3. made' \in [Servers -> 0..MaxLinks] /\ open' \in [Servers -> BOOLEAN]
    BY <1>1, <2>1 DEF TypeOK, ConnectChannel
  <2>4. \A t \in Servers : open'[t] => made'[t] > 0
    BY <1>1, MigrationAssumption DEF TypeOK, ConnectChannel
  <2>5. client_storage' \subseteq Links /\ up' \in [Links -> Seq(Messages)]
    BY <1>1, <2>1, <2>2 DEF TypeOK, ConnectChannel
  <2> QED
    BY <1>1, <2>3, <2>4, <2>5 DEF TypeOK, ConnectChannel, history
<1>2. CASE LoseLink(s)
  <2>1. down' \in [Links -> Seq(Messages)]
    BY <1>2, LinkType DEF TypeOK, LoseLink
  <2> QED
    BY <1>2, <2>1 DEF TypeOK, LoseLink, history
<1> QED
  BY <1>1, <1>2

\* The intermediate server's handlers and its OnClose.
LEMMA IntermediateStepType ==
  ASSUME TypeOK, Intermediate
  PROVE  TypeOK'
<1> PICK x \in client_storage \union erasing :
        \/ IntermediateOnClose(x)
        \/ EraseRegistration(x)
        \/ HandleRegisterServer(x)
        \/ HandleRequestUserMigration(x)
        \/ HandleReactSessionAuthorityInfo(x)
        \/ HandleNotifiyUserLogout(x)
  BY DEF Intermediate
<1>0. x \in Links
  BY DEF TypeOK
<1> DEFINE m == Head(up[x])
<1>1. CASE IntermediateOnClose(x)
  <2>1. up' \in [Links -> Seq(Messages)]
    BY <1>0, <1>1 DEF TypeOK, IntermediateOnClose
  <2> QED
    BY <1>1, <2>1 DEF TypeOK, IntermediateOnClose, history
<1>e. CASE EraseRegistration(x)
  BY <1>e DEF TypeOK, EraseRegistration, history
<1>2. ASSUME NEW type, Receives(x, type), up' = [up EXCEPT ![x] = Tail(@)]
      PROVE  m \in Messages /\ m.type = type /\ up' \in [Links -> Seq(Messages)]
  BY <1>0, <1>2, ReadType DEF TypeOK, Receives
<1>3. CASE HandleRegisterServer(x)
  <2>1. up' \in [Links -> Seq(Messages)]
    BY <1>2, <1>3 DEF HandleRegisterServer
  <2> QED
    BY <1>0, <1>3, <2>1 DEF TypeOK, HandleRegisterServer, history
<1>4. CASE HandleRequestUserMigration(x)
  <2>1. m \in Messages /\ m.type = "kRequestUserMigration" /\ up' \in [Links -> Seq(Messages)]
    BY <1>2, <1>4 DEF HandleRequestUserMigration
  <2> DEFINE notify == [type |-> "kNotifySessionAuthorityInfo", server |-> x, user |-> m.user,
                        info |-> m.info]
  <2>2. notify \in Messages
    BY <1>0, <2>1, MessageFields DEF Messages
  <2>3. \A y \in GetServerLoadBalance(m.target) : y \in Links
    BY DEF TypeOK, GetServerLoadBalance
  <2>4. down' = down \/ \E y \in GetServerLoadBalance(m.target) : down' = SendDown(y, notify)
    BY <1>4 DEF HandleRequestUserMigration
  <2>5. down' \in [Links -> Seq(Messages)]
    <3> HIDE DEF m, notify
    <3>1. down \in [Links -> Seq(Messages)]
      BY DEF TypeOK
    <3>2. ASSUME NEW y \in GetServerLoadBalance(m.target)
          PROVE  SendDown(y, notify) \in [Links -> Seq(Messages)]
      <4>1. y \in Links
        BY <2>3
      <4> QED
        BY <2>2, <4>1, SendDownType
    <3> QED
      BY <2>4, <3>1, <3>2
  <2> QED
    BY <1>4, <2>1, <2>5 DEF TypeOK, HandleRequestUserMigration, history, links
<1>5. CASE HandleReactSessionAuthorityInfo(x)
  <2>1. m \in Messages /\ m.type = "kReactSessionAuthorityInfo" /\ up' \in [Links -> Seq(Messages)]
    BY <1>2, <1>5 DEF HandleReactSessionAuthorityInfo
  <2> DEFINE react == [type |-> "kReactUserMigation", user |-> m.user, dest |-> x.server]
  <2>2. m.server \in Links /\ m.user \in Uuids /\ x.server \in Servers
    <3> HIDE DEF m
    <3> QED
      BY <1>0, <2>1, MessageFields DEF Links
  <2>3. react \in Messages
    <3> HIDE DEF m
    <3> QED
      BY <2>2, ReactMessage
  <2>4. down' = down \/ down' = SendDown(m.server, react)
    BY <1>5 DEF HandleReactSessionAuthorityInfo
  <2>5. down' \in [Links -> Seq(Messages)]
    <3> HIDE DEF m, react
    <3>1. down \in [Links -> Seq(Messages)]
      BY DEF TypeOK
    <3>2. SendDown(m.server, react) \in [Links -> Seq(Messages)]
      BY <2>2, <2>3, SendDownType
    <3> QED
      BY <2>4, <3>1, <3>2
  <2> QED
    BY <1>5, <2>1, <2>5 DEF TypeOK, HandleReactSessionAuthorityInfo, history, links
<1>6. CASE HandleNotifiyUserLogout(x)
  <2>1. up' \in [Links -> Seq(Messages)]
    BY <1>2, <1>6 DEF HandleNotifiyUserLogout
  <2>2. loggedin' \in [Accounts -> BOOLEAN]
    BY <1>6 DEF TypeOK, HandleNotifiyUserLogout
  <2> QED
    BY <1>6, <2>1, <2>2 DEF TypeOK, HandleNotifiyUserLogout, history, links
<1> QED
  BY <1>1, <1>3, <1>4, <1>5, <1>6, <1>e

\* Replacing one connection keeps them well typed.
LEMMA ConnType ==
  ASSUME TypeOK, NEW u \in Users, NEW s \in Servers, NEW c \in Connections
  PROVE  [conn EXCEPT ![u][s] = c] \in [Users -> [Servers -> Connections]]
BY DEF TypeOK

\* A connection with one field changed is a connection.
LEMMA ConnectionFields ==
  ASSUME TypeOK, NEW u \in Users, NEW s \in Servers
  PROVE  /\ conn[u][s] \in Connections
         /\ \A step \in {"none", "open", "closing", "gone"} :
                [conn[u][s] EXCEPT !.step = step] \in Connections
         /\ \A state \in {"kNotConfirm", "kConfirm", "kReserveToMigrate"} :
                [conn[u][s] EXCEPT !.state = state] \in Connections
         /\ \A d \in Servers :
                [conn[u][s] EXCEPT !.told = @ \union {d}] \in Connections
<1>1. conn[u][s] \in Connections
  BY DEF TypeOK
<1> QED
  BY <1>1 DEF Connections

\* What the servers do with the intermediate server's packets.
LEMMA ServerStepType ==
  ASSUME TypeOK, Server
  PROVE  TypeOK'
<1>1. ASSUME NEW s \in Servers, NEW type, Reads(s, type),
             down' = [down EXCEPT ![Link(s)] = Tail(@)]
      PROVE  /\ Head(down[Link(s)]) \in Messages
             /\ Head(down[Link(s)]).type = type
             /\ down' \in [Links -> Seq(Messages)]
  <2>1. Link(s) \in Links
    BY <1>1, LinkType DEF Reads
  <2> QED
    BY <1>1, <2>1, ReadType DEF TypeOK, Reads
<1>2. ASSUME NEW s \in Servers, ReactUserMigation(s)
      PROVE  TypeOK'
  <2> DEFINE m == Head(down[Link(s)])
  <2>1. m \in Messages /\ m.type = "kReactUserMigation" /\ down' \in [Links -> Seq(Messages)]
    BY <1>1, <1>2 DEF ReactUserMigation
  <2>2. m.dest \in Servers /\ m.user.user \in Users
    <3> HIDE DEF m
    <3> QED
      BY <2>1, MessageFields DEF Uuids
  <2> DEFINE v == m.user.user
             c == [conn[v][s] EXCEPT !.told = @ \union {m.dest}]
  <2>3. conn' = conn \/ conn' = [conn EXCEPT ![v][s] = c]
    BY <1>2 DEF ReactUserMigation, Tell
  <2>4. conn' \in [Users -> [Servers -> Connections]]
    <3>1. v \in Users /\ c \in Connections
      BY <2>2, ConnectionFields
    <3>2. conn \in [Users -> [Servers -> Connections]]
      BY DEF TypeOK
    <3> HIDE DEF c, v
    <3>3. [conn EXCEPT ![v][s] = c] \in [Users -> [Servers -> Connections]]
      BY <3>1, ConnType
    <3> QED
      BY <2>3, <3>2, <3>3
  <2> QED
    BY <1>2, <2>1, <2>4 DEF TypeOK, ReactUserMigation, links, history
<1>3. ASSUME NEW d \in Targets, NotifySessionAuthorityInfo(d)
      PROVE  TypeOK'
  <2> DEFINE m == Head(down[Link(d)])
             react == [type |-> "kReactSessionAuthorityInfo", server |-> m.server,
                       user |-> m.user]
  <2>0. d \in Servers
    BY DEF Servers
  <2>1. m \in Messages /\ m.type = "kNotifySessionAuthorityInfo"
        /\ down' \in [Links -> Seq(Messages)]
    BY <1>1, <1>3, <2>0 DEF NotifySessionAuthorityInfo
  <2>2. m.server \in Links /\ m.user \in Uuids /\ m.info \in Infos
    <3> HIDE DEF m
    <3> QED
      BY <2>1, MessageFields
  <2>3. react \in Messages
    BY <2>2 DEF Messages
  <2>4. up' = SendUp(up, d, react) /\ authority_map' = Emplace(d, m.info)
    BY <1>3 DEF NotifySessionAuthorityInfo
  <2>5. up' \in [Links -> Seq(Messages)]
    BY <2>0, <2>3, <2>4, SendUpType
  <2>6. authority_map' \in [Targets -> [Accounts -> Infos \union {NoInfo}]]
    <3> HIDE DEF m
    <3> QED
      BY <2>2, <2>4 DEF TypeOK, Emplace, Infos
  <2> QED
    BY <1>3, <2>1, <2>5, <2>6 DEF TypeOK, NotifySessionAuthorityInfo, links, history
<1> QED
  BY <1>2, <1>3, LinkStepType DEF Server

\* What players and their connections do.
LEMMA PlayerStepType ==
  ASSUME TypeOK, Player
  PROVE  TypeOK'
<1>1. ASSUME NEW u \in Users, NEW s \in Servers, OnActive(u, s)
      PROVE  TypeOK'
  <2>1. conn[u][s] \in Connections
    BY DEF TypeOK
  <2>2. conn' \in [Users -> [Servers -> Connections]]
    BY <1>1, <2>1, MigrationAssumption DEF TypeOK, OnActive, Connections
  <2> QED
    BY <1>1, <2>2 DEF TypeOK, OnActive, links, history
<1>2. ASSUME NEW u \in Users, NEW s \in Servers, Close(u, s)
      PROVE  TypeOK'
  <2>1. conn' \in [Users -> [Servers -> Connections]]
    <3> DEFINE c == [conn[u][s] EXCEPT !.step = "closing"]
    <3>1. conn' = [conn EXCEPT ![u][s] = c]
      BY <1>2 DEF Close
    <3> QED
      BY <3>1, ConnectionFields, ConnType
  <2> QED
    BY <1>2, <2>1 DEF TypeOK, Close, links, history
<1>3. ASSUME NEW u \in Users, NEW s \in Servers, OnClose(u, s)
      PROVE  TypeOK'
  <2>1. conn' \in [Users -> [Servers -> Connections]]
    <3> DEFINE c == [conn[u][s] EXCEPT !.step = "gone"]
    <3>1. conn' = [conn EXCEPT ![u][s] = c]
      BY <1>3 DEF OnClose
    <3> QED
      BY <3>1, ConnectionFields, ConnType
  <2> DEFINE logout == [type |-> "kNotifyUserLogout", id |-> AccountOf[u]]
  <2>2. logout \in Messages
    BY MigrationAssumption DEF Messages
  <2>3. up' = up \/ up' = SendUp(up, s, logout)
    BY <1>3 DEF OnClose
  <2>4. up' \in [Links -> Seq(Messages)]
    <3> HIDE DEF logout
    <3> QED
      BY <2>2, <2>3, SendUpType DEF TypeOK
  <2> QED
    BY <1>3, <2>1, <2>4 DEF TypeOK, OnClose, links, history
<1>4. ASSUME NEW u \in Users, HandleLoginRequest(u)
      PROVE  TypeOK'
  <2>1. /\ up' \in [Links -> Seq(Messages)]
        /\ clock' \in 0..MaxClock
        /\ issued' \subseteq Issues
    BY <1>4, RequestType DEF HandleLoginRequest, Servers, Kinds
  <2> QED
    BY <1>4, <2>1 DEF TypeOK, HandleLoginRequest, links
<1>5. ASSUME NEW u \in Users, NEW d \in Targets, HandleConfirmRequest(u, d)
      PROVE  TypeOK'
  <2>0. d \in Servers /\ AccountOf[u] \in Accounts
    BY MigrationAssumption DEF Servers
  <2>1. Uuid(u, d) \in Uuids
    BY <2>0, UuidType
  <2>2. conn' \in [Users -> [Servers -> Connections]]
    <3> DEFINE c == [conn[u][d] EXCEPT !.state = "kConfirm"]
               e == [conn[u][d] EXCEPT !.step = "closing"]
    <3>1. conn' = [conn EXCEPT ![u][d] = c] \/ conn' = [conn EXCEPT ![u][d] = e]
      BY <1>5 DEF HandleConfirmRequest, ConsumeAuthority
    <3>2. c \in Connections /\ e \in Connections
      BY <2>0, ConnectionFields
    <3> HIDE DEF c, e
    <3> QED
      BY <2>0, <3>1, <3>2, ConnType
  <2>3. authority_map' \in [Targets -> [Accounts -> Infos \union {NoInfo}]]
    <3>1. authority_map' = authority_map
          \/ authority_map' = [authority_map EXCEPT ![d][AccountOf[u]] = NoInfo]
      BY <1>5 DEF HandleConfirmRequest, ConsumeAuthority
    <3>2. authority_map \in [Targets -> [Accounts -> Infos \union {NoInfo}]]
      BY DEF TypeOK
    <3>3. [authority_map EXCEPT ![d][AccountOf[u]] = NoInfo]
              \in [Targets -> [Accounts -> Infos \union {NoInfo}]]
      BY <2>0, <3>2
    <3> QED
      BY <3>1, <3>2, <3>3
  <2>4. CASE HasAuthority(u, d)
    <3>1. authority_map[d][AccountOf[u]] \in Infos
      BY <2>0, <2>4 DEF TypeOK, HasAuthority
    <3>2. admitted' \subseteq Admissions
      BY <1>5, <2>1, <2>4, <3>1
      DEF TypeOK, HandleConfirmRequest, ConsumeAuthority, Admissions, Infos
    <3> QED
      BY <1>5, <2>2, <2>3, <3>2 DEF TypeOK, HandleConfirmRequest, links
  <2>5. CASE ~HasAuthority(u, d)
    BY <1>5, <2>2, <2>3, <2>5 DEF TypeOK, HandleConfirmRequest, links
  <2> QED
    BY <2>4, <2>5
<1>6. ASSUME NEW u \in Users, NEW d \in Lobbies, HandleCharacterSelectRequest(u, d)
      PROVE  TypeOK'
  <2>0. d \in Servers
    BY DEF Servers, Targets
  <2>1. conn' \in [Users -> [Servers -> Connections]]
    <3> DEFINE c == [conn[u][d] EXCEPT !.state = "kReserveToMigrate"]
               e == [c EXCEPT !.step = "closing"]
    <3>1. conn' = [conn EXCEPT ![u][d] = c] \/ conn' = [conn EXCEPT ![u][d] = e]
      BY <1>6 DEF HandleCharacterSelectRequest
    <3>2. c \in Connections
      BY <2>0, ConnectionFields
    <3>3. e \in Connections
      BY <3>2 DEF Connections
    <3> HIDE DEF c, e
    <3> QED
      BY <2>0, <3>1, <3>2, <3>3, ConnType
  <2>2. /\ up' \in [Links -> Seq(Messages)]
        /\ clock' \in 0..MaxClock
        /\ issued' \subseteq Issues
    <3>1. CASE \E c \in Cids : RequestUserMigration(u, d, "kZoneServer", c)
      BY <2>0, <3>1, RequestType DEF Kinds
    <3>2. CASE UNCHANGED <<up, clock, issued>>
      BY <3>2 DEF TypeOK
    <3> QED
      BY <1>6, <3>1, <3>2 DEF HandleCharacterSelectRequest
  <2> QED
    BY <1>6, <2>1, <2>2 DEF TypeOK, HandleCharacterSelectRequest, links
<1> QED
  BY <1>1, <1>2, <1>3, <1>4, <1>5, <1>6 DEF Player

\* The state is well typed at the start.
LEMMA InitType ==
  ASSUME Init
  PROVE  TypeOK
<1>1. conn \in [Users -> [Servers -> Connections]]
  BY MigrationAssumption DEF Init, Connections
<1>2. up \in [Links -> Seq(Messages)] /\ down \in [Links -> Seq(Messages)]
  BY DEF Init
<1> QED
  BY <1>1, <1>2, MigrationAssumption DEF Init, TypeOK

\* Every step keeps the state well typed.
LEMMA StepType ==
  ASSUME TypeOK, [Next]_vars
  PROVE  TypeOK'
<1>1. CASE UNCHANGED vars
  BY <1>1 DEF TypeOK, vars
<1> QED
  BY <1>1, IntermediateStepType, ServerStepType, PlayerStepType DEF Next

\* The type invariant of the hand-off: in every state the code's maps, links and packets hold
\* values of their types, whatever the number of users, servers and losses.
THEOREM TypeCorrect == Spec => []TypeOK
<1>1. Init => TypeOK
  BY InitType
<1>2. TypeOK /\ [Next]_vars => TypeOK'
  BY StepType
<1> QED
  BY <1>1, <1>2, PTL DEF Spec

-----------------------------------------------------------------------------
(* Which steps change what.                                                *)

\* Authorities are created by a login, and by a selection on a confirmed lobby connection.
LEMMA IssuedChange ==
  ASSUME [Next]_vars
  PROVE  \/ UNCHANGED <<issued, clock>>
         \/ \E u \in Users : RequestUserMigration(u, Login, "kLobbyServer", NoCid)
         \/ \E u \in Users, d \in Lobbies, c \in Cids :
                conn[u][d].state = "kConfirm" /\ RequestUserMigration(u, d, "kZoneServer", c)
<1>1. CASE UNCHANGED vars
  BY <1>1 DEF vars
<1>2. CASE Intermediate
  BY <1>2 DEF Intermediate, IntermediateOnClose, EraseRegistration, HandleRegisterServer, HandleRequestUserMigration,
              HandleReactSessionAuthorityInfo, HandleNotifiyUserLogout, history
<1>3. CASE Server
  BY <1>3 DEF Server, ConnectChannel, LoseLink, ReactUserMigation, NotifySessionAuthorityInfo,
              history
<1>4. CASE Player
  BY <1>4 DEF Player, OnActive, Close, OnClose, HandleLoginRequest, HandleConfirmRequest,
              HandleCharacterSelectRequest, history
<1> QED
  BY <1>1, <1>2, <1>3, <1>4 DEF Next

\* A connection is admitted only by a confirm request that consumes an authority.
LEMMA AdmittedChange ==
  ASSUME [Next]_vars
  PROVE  \/ UNCHANGED admitted
         \/ \E u \in Users, d \in Targets : HasAuthority(u, d) /\ ConsumeAuthority(u, d)
<1>1. CASE UNCHANGED vars
  BY <1>1 DEF vars
<1>2. CASE Intermediate
  BY <1>2 DEF Intermediate, IntermediateOnClose, EraseRegistration, HandleRegisterServer, HandleRequestUserMigration,
              HandleReactSessionAuthorityInfo, HandleNotifiyUserLogout, history
<1>3. CASE Server
  BY <1>3 DEF Server, ConnectChannel, LoseLink, ReactUserMigation, NotifySessionAuthorityInfo,
              history
<1>4. CASE Player
  BY <1>4 DEF Player, OnActive, Close, OnClose, HandleLoginRequest, HandleConfirmRequest,
              HandleCharacterSelectRequest, history
<1> QED
  BY <1>1, <1>2, <1>3, <1>4 DEF Next

\* A target's authority_map_ changes when a packet brings an authority and when one is consumed.
LEMMA AuthorityChange ==
  ASSUME [Next]_vars
  PROVE  \/ UNCHANGED authority_map
         \/ \E d \in Targets : NotifySessionAuthorityInfo(d)
         \/ \E u \in Users, d \in Targets : HasAuthority(u, d) /\ ConsumeAuthority(u, d)
<1>1. CASE UNCHANGED vars
  BY <1>1 DEF vars
<1>2. CASE Intermediate
  BY <1>2 DEF Intermediate, IntermediateOnClose, EraseRegistration, HandleRegisterServer, HandleRequestUserMigration,
              HandleReactSessionAuthorityInfo, HandleNotifiyUserLogout
<1>3. CASE Server
  BY <1>3 DEF Server, ConnectChannel, LoseLink, ReactUserMigation
<1>4. CASE Player
  BY <1>4 DEF Player, OnActive, Close, OnClose, HandleLoginRequest, HandleConfirmRequest,
              HandleCharacterSelectRequest
<1> QED
  BY <1>1, <1>2, <1>3, <1>4 DEF Next

\* Authorities and admissions are never forgotten, and the clock does not go back.
LEMMA HistoryGrows ==
  ASSUME TypeOK, [Next]_vars
  PROVE  issued \subseteq issued' /\ admitted \subseteq admitted' /\ clock <= clock'
<1>1. issued \subseteq issued' /\ (clock' = clock \/ clock' = clock + 1)
  BY IssuedChange DEF RequestUserMigration
<1>0. clock <= clock'
  BY <1>1, MigrationAssumption DEF TypeOK
<1>2. admitted \subseteq admitted'
  BY AdmittedChange DEF ConsumeAuthority
<1> QED
  BY <1>0, <1>1, <1>2

\* An authority that was created stays created.
LEMMA IsIssuedStable ==
  ASSUME issued \subseteq issued', NEW info, NEW kind, IsIssued(info, kind)
  PROVE  IsIssued(info, kind)'
BY DEF IsIssued

\* A lobby's admission is never taken back.
LEMMA LobbyAdmittedStable ==
  ASSUME TypeOK, admitted \subseteq admitted', NEW account, NEW address,
         NEW k \in Nat, NEW l \in Nat, k <= l, LobbyAdmitted(account, address, k)
  PROVE  LobbyAdmitted(account, address, l)'
<1>1. \A a \in admitted : a.clock \in Nat
  BY MigrationAssumption DEF TypeOK, Admissions
<1> QED
  BY <1>1 DEF LobbyAdmitted

-----------------------------------------------------------------------------
(* What is in a channel after a packet is read or sent.                    *)

\* Reading a packet leaves packets that were there.
LEMMA TailCarries ==
  ASSUME NEW q \in Seq(Messages), q # <<>>, NEW j \in DOMAIN Tail(q)
  PROVE  \E i \in DOMAIN q : Tail(q)[j] = q[i]
<1>1. j + 1 \in DOMAIN q /\ Tail(q)[j] = q[j + 1]
  OBVIOUS
<1> QED
  BY <1>1

\* Sending a packet adds that packet and leaves those that were there.
LEMMA AppendCarries ==
  ASSUME NEW q \in Seq(Messages), NEW m \in Messages, NEW j \in DOMAIN Append(q, m)
  PROVE  Append(q, m)[j] = m \/ \E i \in DOMAIN q : Append(q, m)[j] = q[i]
OBVIOUS

\* What SendUp leaves in a channel: the packet may be only on the sender's link.
LEMMA SendUpCarries ==
  ASSUME TypeOK, NEW s \in Servers, NEW m \in Messages, NEW x \in Links,
         NEW j \in DOMAIN SendUp(up, s, m)[x]
  PROVE  \/ x = Link(s) /\ SendUp(up, s, m)[x][j] = m
         \/ \E i \in DOMAIN up[x] : SendUp(up, s, m)[x][j] = up[x][i]
<1>1. CASE open[s] /\ x = Link(s)
  <2>1. SendUp(up, s, m)[x] = Append(up[x], m) /\ up[x] \in Seq(Messages)
    BY <1>1 DEF TypeOK, SendUp
  <2> QED
    BY <1>1, <2>1, AppendCarries
<1>2. CASE ~(open[s] /\ x = Link(s))
  <2>1. SendUp(up, s, m)[x] = up[x]
    BY <1>2 DEF TypeOK, SendUp
  <2> QED
    BY <2>1
<1> QED
  BY <1>1, <1>2

\* What SendDown leaves in a channel: the packet may be only at the link it was sent to.
LEMMA SendDownCarries ==
  ASSUME TypeOK, NEW y \in Links, NEW m \in Messages, NEW x \in Links,
         NEW j \in DOMAIN SendDown(y, m)[x]
  PROVE  \/ x = y /\ SendDown(y, m)[x][j] = m
         \/ \E i \in DOMAIN down[x] : SendDown(y, m)[x][j] = down[x][i]
<1>1. CASE open[y.server] /\ Link(y.server) = y /\ x = y
  <2>1. SendDown(y, m)[x] = Append(down[x], m) /\ down[x] \in Seq(Messages)
    BY <1>1 DEF TypeOK, SendDown
  <2> QED
    BY <1>1, <2>1, AppendCarries
<1>2. CASE ~(open[y.server] /\ Link(y.server) = y /\ x = y)
  <2>1. SendDown(y, m)[x] = down[x]
    BY <1>2 DEF TypeOK, SendDown
  <2> QED
    BY <2>1
<1> QED
  BY <1>1, <1>2

-----------------------------------------------------------------------------
(* The parts of AdmissionInv, one by one.                                  *)

\* What a login or a selection sends has been recorded as issued.
LEMMA RequestCarries ==
  ASSUME TypeOK, NEW u \in Users, NEW s \in Servers, NEW kind \in Kinds,
         NEW c \in Cids \union {NoCid}, RequestUserMigration(u, s, kind, c),
         NEW x \in Links, NEW j \in DOMAIN up'[x]
  PROVE  \/ \E i \in DOMAIN up[x] : up'[x][j] = up[x][i]
         \/ IsIssued(up[x][j].info, up[x][j].target)'
<1> DEFINE m == [type |-> "kRequestUserMigration", target |-> kind, user |-> Uuid(u, s),
                 info |-> [clock |-> clock + 1, ip |-> AddressOf[u],
                           id |-> AccountOf[u], cid |-> c]]
           new == [clock |-> clock + 1, target |-> kind, account |-> AccountOf[u],
                   address |-> AddressOf[u], from |-> Uuid(u, s)]
<1>1. m \in Messages
  <2>1. Uuid(u, s) \in Uuids
    BY UuidType
  <2>2. clock + 1 \in 1..MaxClock
    BY MigrationAssumption DEF TypeOK, RequestUserMigration
  <2>3. AccountOf[u] \in Accounts /\ AddressOf[u] \in Addresses
    BY MigrationAssumption DEF Addresses
  <2> QED
    BY <2>1, <2>2, <2>3 DEF Messages, Infos
<1>2. up' = SendUp(up, s, m) /\ new \in issued'
  BY DEF RequestUserMigration
<1>3. up'[x][j] = m \/ \E i \in DOMAIN up[x] : up'[x][j] = up[x][i]
  <2> HIDE DEF m
  <2> QED
    BY <1>1, <1>2, SendUpCarries
<1>4. ASSUME up'[x][j] = m
      PROVE  IsIssued(up[x][j].info, up[x][j].target)'
  BY <1>2, <1>4 DEF IsIssued
<1> QED
  BY <1>3, <1>4

\* Every request between the servers stays one that was issued.
LEMMA RequestsAreIssuedStep ==
  ASSUME TypeOK, RequestsAreIssued, [Next]_vars
  PROVE  RequestsAreIssued'
<1> SUFFICES ASSUME NEW x \in Links, NEW j \in DOMAIN up'[x],
                    up'[x][j].type = "kRequestUserMigration"
             PROVE  IsIssued(up[x][j].info, up[x][j].target)'
  BY DEF RequestsAreIssued
<1>1. ASSUME NEW i \in DOMAIN up[x], up'[x][j] = up[x][i]
      PROVE  IsIssued(up[x][j].info, up[x][j].target)'
  <2>1. IsIssued(up[x][i].info, up[x][i].target)
    BY <1>1 DEF RequestsAreIssued
  <2> QED
    BY <1>1, <2>1, HistoryGrows DEF IsIssued
<1>2. CASE UNCHANGED up
  BY <1>1, <1>2
<1>3. ASSUME NEW y \in client_storage, up[y] # <<>>, up' = [up EXCEPT ![y] = Tail(@)]
      PROVE  IsIssued(up[x][j].info, up[x][j].target)'
  <2>1. up[x] \in Seq(Messages)
    BY DEF TypeOK
  <2>2. \E i \in DOMAIN up[x] : up'[x][j] = up[x][i]
    <3>1. CASE x = y
      BY <1>3, <2>1, <3>1, TailCarries DEF TypeOK
    <3>2. CASE x # y
      BY <1>3, <3>2 DEF TypeOK
    <3> QED
      BY <3>1, <3>2
  <2> QED
    BY <1>1, <2>2
<1>4. ASSUME NEW s \in Servers, NEW m \in Messages, m.type # "kRequestUserMigration",
             up' = SendUp(up, s, m)
      PROVE  IsIssued(up[x][j].info, up[x][j].target)'
  <2>1. \E i \in DOMAIN up[x] : up'[x][j] = up[x][i]
    BY <1>4, SendUpCarries
  <2> QED
    BY <1>1, <2>1
<1>5. CASE UNCHANGED vars
  BY <1>2, <1>5 DEF vars
<1>6. CASE Intermediate
  <2> PICK y \in client_storage \union erasing :
        \/ IntermediateOnClose(y)
        \/ EraseRegistration(y)
        \/ HandleRegisterServer(y)
        \/ HandleRequestUserMigration(y)
        \/ HandleReactSessionAuthorityInfo(y)
        \/ HandleNotifiyUserLogout(y)
    BY <1>6 DEF Intermediate
  <2>1. CASE IntermediateOnClose(y)
    <3>1. x # y
      BY <2>1 DEF TypeOK, IntermediateOnClose
    <3>2. up'[x] = up[x]
      BY <2>1, <3>1 DEF TypeOK, IntermediateOnClose
    <3> QED
      BY <1>1, <3>2
  <2>2. CASE EraseRegistration(y)
    BY <1>2, <2>2 DEF EraseRegistration
  <2>3. CASE ~IntermediateOnClose(y) /\ ~EraseRegistration(y)
    BY <1>3, <2>3 DEF HandleRegisterServer, HandleRequestUserMigration,
                      HandleReactSessionAuthorityInfo, HandleNotifiyUserLogout, Receives
  <2> QED
    BY <2>1, <2>2, <2>3
<1>7. CASE Server
  <2>1. ASSUME NEW s \in Servers, ConnectChannel(s)
        PROVE  IsIssued(up[x][j].info, up[x][j].target)'
    <3>1. x # [server |-> s, n |-> made[s] + 1]
      BY <2>1 DEF TypeOK, ConnectChannel
    <3>2. up'[x] = up[x]
      BY <2>1, <3>1 DEF TypeOK, ConnectChannel
    <3> QED
      BY <1>1, <3>2
  <2>2. ASSUME NEW s \in Servers, LoseLink(s) \/ ReactUserMigation(s)
        PROVE  IsIssued(up[x][j].info, up[x][j].target)'
    BY <1>2, <2>2 DEF LoseLink, ReactUserMigation
  <2>3. ASSUME NEW d \in Targets, NotifySessionAuthorityInfo(d)
        PROVE  IsIssued(up[x][j].info, up[x][j].target)'
    <3> DEFINE n == Head(down[Link(d)])
               react == [type |-> "kReactSessionAuthorityInfo", server |-> n.server,
                         user |-> n.user]
    <3>0. d \in Servers
      BY DEF Servers
    <3>1. Link(d) \in Links
      BY <2>3, <3>0, LinkType DEF NotifySessionAuthorityInfo, Reads
    <3>2. n \in Messages /\ n.type = "kNotifySessionAuthorityInfo"
      BY <2>3, <3>1, ReadType DEF TypeOK, NotifySessionAuthorityInfo, Reads
    <3>3. n.server \in Links /\ n.user \in Uuids
      <4> HIDE DEF n
      <4> QED
        BY <3>2, MessageFields
    <3>4. react \in Messages /\ react.type # "kRequestUserMigration"
      BY <3>3 DEF Messages
    <3>5. up' = SendUp(up, d, react)
      BY <2>3 DEF NotifySessionAuthorityInfo
    <3> HIDE DEF react
    <3> QED
      BY <1>4, <3>0, <3>4, <3>5
  <2> QED
    BY <1>7, <2>1, <2>2, <2>3 DEF Server
<1>8. CASE Player
  <2>1. ASSUME NEW u \in Users, NEW s \in Servers, OnClose(u, s)
        PROVE  IsIssued(up[x][j].info, up[x][j].target)'
    <3> DEFINE logout == [type |-> "kNotifyUserLogout", id |-> AccountOf[u]]
    <3>1. logout \in Messages /\ logout.type # "kRequestUserMigration"
      BY MigrationAssumption DEF Messages
    <3>2. UNCHANGED up \/ up' = SendUp(up, s, logout)
      BY <2>1 DEF OnClose
    <3> HIDE DEF logout
    <3> QED
      BY <1>2, <1>4, <3>1, <3>2
  <2>2. ASSUME NEW u \in Users, HandleLoginRequest(u)
        PROVE  IsIssued(up[x][j].info, up[x][j].target)'
    BY <1>1, <2>2, RequestCarries DEF HandleLoginRequest, Servers, Kinds
  <2>3. ASSUME NEW u \in Users, NEW d \in Lobbies, HandleCharacterSelectRequest(u, d)
        PROVE  IsIssued(up[x][j].info, up[x][j].target)'
    BY <1>1, <1>2, <2>3, RequestCarries
    DEF HandleCharacterSelectRequest, Servers, Targets, Kinds
  <2> QED
    BY <1>2, <1>8, <2>1, <2>2, <2>3 DEF Player, OnActive, Close, HandleConfirmRequest
<1> QED
  BY <1>5, <1>6, <1>7, <1>8 DEF Next

\* What the intermediate server sends to the target it chose was issued for the target's kind.
LEMMA NotifyCarries ==
  ASSUME TypeOK, RequestsAreIssued, NEW z \in client_storage, HandleRequestUserMigration(z),
         NEW x \in Links, NEW j \in DOMAIN down'[x]
  PROVE  \/ \E i \in DOMAIN down[x] : down'[x][j] = down[x][i]
         \/ IsIssued(down'[x][j].info, KindOf[x.server])
<1> DEFINE m == Head(up[z])
           notify == [type |-> "kNotifySessionAuthorityInfo", server |-> z, user |-> m.user,
                      info |-> m.info]
<1>1. z \in Links /\ up[z] \in Seq(Messages) /\ up[z] # <<>>
  BY DEF TypeOK, HandleRequestUserMigration, Receives
<1>2. m \in Messages /\ m.type = "kRequestUserMigration"
  BY <1>1, ReadType DEF HandleRequestUserMigration, Receives
<1>3. IsIssued(m.info, m.target)
  <2>1. 1 \in DOMAIN up[z] /\ up[z][1] = m
    BY <1>1
  <2> HIDE DEF m
  <2> QED
    BY <1>1, <1>2, <2>1 DEF RequestsAreIssued
<1>4. notify \in Messages
  BY <1>1, <1>2, MessageFields DEF Messages
<1>5. UNCHANGED down \/ \E y \in GetServerLoadBalance(m.target) : down' = SendDown(y, notify)
  BY DEF HandleRequestUserMigration
<1>6. CASE UNCHANGED down
  BY <1>6
<1>7. ASSUME NEW y \in GetServerLoadBalance(m.target), down' = SendDown(y, notify)
      PROVE  \/ \E i \in DOMAIN down[x] : down'[x][j] = down[x][i]
             \/ IsIssued(down'[x][j].info, KindOf[x.server])
  <2>1. y \in Links /\ KindOf[y.server] = m.target
    BY <1>7 DEF TypeOK, GetServerLoadBalance
  <2>2. notify.info = m.info
    OBVIOUS
  <2> HIDE DEF notify, m
  <2>3. \/ x = y /\ down'[x][j] = notify
        \/ \E i \in DOMAIN down[x] : down'[x][j] = down[x][i]
    BY <1>4, <1>7, <2>1, SendDownCarries
  <2> QED
    BY <1>3, <2>1, <2>2, <2>3
<1> QED
  BY <1>5, <1>6, <1>7

\* Every authority on its way to a target stays one that was issued for the target's kind.
LEMMA NotificationsAreIssuedStep ==
  ASSUME TypeOK, RequestsAreIssued, NotificationsAreIssued, [Next]_vars
  PROVE  NotificationsAreIssued'
<1> SUFFICES ASSUME NEW x \in Links, NEW j \in DOMAIN down'[x],
                    down'[x][j].type = "kNotifySessionAuthorityInfo"
             PROVE  IsIssued(down[x][j].info, KindOf[x.server])'
  BY DEF NotificationsAreIssued
<1>1. ASSUME IsIssued(down'[x][j].info, KindOf[x.server])
      PROVE  IsIssued(down[x][j].info, KindOf[x.server])'
  BY <1>1, HistoryGrows DEF IsIssued
<1>2. ASSUME NEW i \in DOMAIN down[x], down'[x][j] = down[x][i]
      PROVE  IsIssued(down[x][j].info, KindOf[x.server])'
  BY <1>1, <1>2 DEF NotificationsAreIssued
<1>3. CASE UNCHANGED down
  BY <1>2, <1>3
<1>4. ASSUME NEW s \in Servers, open[s], down[Link(s)] # <<>>,
             down' = [down EXCEPT ![Link(s)] = Tail(@)]
      PROVE  IsIssued(down[x][j].info, KindOf[x.server])'
  <2>1. down[x] \in Seq(Messages) /\ Link(s) \in Links
    BY <1>4, LinkType DEF TypeOK
  <2>2. \E i \in DOMAIN down[x] : down'[x][j] = down[x][i]
    <3>1. CASE x = Link(s)
      BY <1>4, <2>1, <3>1, TailCarries DEF TypeOK
    <3>2. CASE x # Link(s)
      BY <1>4, <3>2 DEF TypeOK
    <3> QED
      BY <3>1, <3>2
  <2> QED
    BY <1>2, <2>2
<1>5. CASE UNCHANGED vars
  BY <1>3, <1>5 DEF vars
<1>6. CASE Intermediate
  <2> PICK y \in client_storage \union erasing :
        \/ IntermediateOnClose(y)
        \/ EraseRegistration(y)
        \/ HandleRegisterServer(y)
        \/ HandleRequestUserMigration(y)
        \/ HandleReactSessionAuthorityInfo(y)
        \/ HandleNotifiyUserLogout(y)
    BY <1>6 DEF Intermediate
  <2>1. CASE HandleRequestUserMigration(y)
    BY <1>1, <1>2, <2>1, NotifyCarries DEF HandleRequestUserMigration, Receives
  <2>2. CASE HandleReactSessionAuthorityInfo(y)
    <3> DEFINE m == Head(up[y])
               react == [type |-> "kReactUserMigation", user |-> m.user, dest |-> y.server]
    <3>1. m \in Messages /\ m.type = "kReactSessionAuthorityInfo" /\ y \in Links
      BY <2>2, ReadType DEF TypeOK, HandleReactSessionAuthorityInfo, Receives
    <3>2. m.server \in Links /\ m.user \in Uuids /\ y.server \in Servers
      <4> HIDE DEF m
      <4> QED
        BY <3>1, MessageFields DEF Links
    <3>3. react \in Messages /\ react.type # "kNotifySessionAuthorityInfo"
      <4> HIDE DEF m
      <4> QED
        BY <3>2, ReactMessage
    <3>4. down' = down \/ down' = SendDown(m.server, react)
      BY <2>2 DEF HandleReactSessionAuthorityInfo
    <3> HIDE DEF m, react
    <3>5. \E i \in DOMAIN down[x] : down'[x][j] = down[x][i]
      BY <3>2, <3>3, <3>4, SendDownCarries
    <3> QED
      BY <1>2, <3>5
  <2>3. CASE \/ IntermediateOnClose(y) \/ EraseRegistration(y)
             \/ HandleRegisterServer(y) \/ HandleNotifiyUserLogout(y)
    BY <1>3, <2>3 DEF IntermediateOnClose, EraseRegistration, HandleRegisterServer,
                      HandleNotifiyUserLogout
  <2> QED
    BY <2>1, <2>2, <2>3
<1>7. CASE Server
  <2>1. ASSUME NEW s \in Servers, LoseLink(s)
        PROVE  IsIssued(down[x][j].info, KindOf[x.server])'
    <3>1. x # Link(s)
      BY <2>1 DEF TypeOK, LoseLink
    <3>2. down'[x] = down[x]
      BY <2>1, <3>1 DEF TypeOK, LoseLink
    <3> QED
      BY <1>2, <3>2
  <2>2. ASSUME NEW s \in Servers, ConnectChannel(s)
        PROVE  IsIssued(down[x][j].info, KindOf[x.server])'
    BY <1>3, <2>2 DEF ConnectChannel
  <2>3. ASSUME NEW s \in Servers, ReactUserMigation(s)
        PROVE  IsIssued(down[x][j].info, KindOf[x.server])'
    BY <1>4, <2>3 DEF ReactUserMigation, Reads
  <2>4. ASSUME NEW d \in Targets, NotifySessionAuthorityInfo(d)
        PROVE  IsIssued(down[x][j].info, KindOf[x.server])'
    BY <1>4, <2>4 DEF NotifySessionAuthorityInfo, Reads, Servers
  <2> QED
    BY <1>7, <2>1, <2>2, <2>3, <2>4 DEF Server
<1>8. CASE Player
  BY <1>3, <1>8 DEF Player, OnActive, Close, OnClose, HandleLoginRequest, HandleConfirmRequest,
                    HandleCharacterSelectRequest, links, history
<1> QED
  BY <1>5, <1>6, <1>7, <1>8 DEF Next

\* Every authority a target holds stays one that was issued for the account it is stored under.
LEMMA GrantsAreIssuedStep ==
  ASSUME TypeOK, NotificationsAreIssued, GrantsAreIssued, [Next]_vars
  PROVE  GrantsAreIssued'
<1> SUFFICES ASSUME NEW d \in Targets, NEW a \in Accounts, authority_map'[d][a] # NoInfo
             PROVE  authority_map'[d][a].id = a /\ IsIssued(authority_map[d][a], KindOf[d])'
  BY DEF GrantsAreIssued
<1>1. ASSUME authority_map'[d][a] = authority_map[d][a]
      PROVE  authority_map'[d][a].id = a /\ IsIssued(authority_map[d][a], KindOf[d])'
  BY <1>1, HistoryGrows DEF GrantsAreIssued, IsIssued
<1>2. ASSUME NEW e \in Targets, NotifySessionAuthorityInfo(e)
      PROVE  authority_map'[d][a].id = a /\ IsIssued(authority_map[d][a], KindOf[d])'
  <2> DEFINE m == Head(down[Link(e)])
  <2>0. e \in Servers /\ open[e]
    BY <1>2 DEF Servers, NotifySessionAuthorityInfo, Reads
  <2>1. Link(e) \in Links /\ Link(e).server = e
    BY <2>0, LinkType DEF Link
  <2>2. m \in Messages /\ m.type = "kNotifySessionAuthorityInfo"
    BY <1>2, <2>1, ReadType DEF TypeOK, NotifySessionAuthorityInfo, Reads
  <2>3. IsIssued(m.info, KindOf[e])
    <3>1. 1 \in DOMAIN down[Link(e)] /\ down[Link(e)][1] = m
      BY <1>2, <2>1 DEF TypeOK, NotifySessionAuthorityInfo, Reads
    <3> HIDE DEF m
    <3> QED
      BY <2>1, <2>2, <3>1 DEF NotificationsAreIssued
  <2>4. authority_map' = Emplace(e, m.info)
    BY <1>2 DEF NotifySessionAuthorityInfo
  <2> HIDE DEF m
  <2>5. m.info.id \in Accounts
    BY <2>2, MessageFields DEF Infos
  <2>6. \/ authority_map'[d][a] = authority_map[d][a]
        \/ d = e /\ a = m.info.id /\ authority_map'[d][a] = m.info
    BY <2>4, <2>5 DEF TypeOK, Emplace
  <2> QED
    BY <1>1, <2>3, <2>6, HistoryGrows DEF IsIssued
<1>3. ASSUME NEW u \in Users, NEW e \in Targets, ConsumeAuthority(u, e)
      PROVE  authority_map'[d][a].id = a /\ IsIssued(authority_map[d][a], KindOf[d])'
  <2>1. authority_map' = [authority_map EXCEPT ![e][AccountOf[u]] = NoInfo]
    BY <1>3 DEF ConsumeAuthority
  <2>2. authority_map'[d][a] = authority_map[d][a]
    BY <2>1 DEF TypeOK
  <2> QED
    BY <1>1, <2>2
<1> QED
  BY <1>1, <1>2, <1>3, AuthorityChange

\* The entry that a confirm request consumes was issued for this server, account and address.
LEMMA ConsumedIsIssued ==
  ASSUME TypeOK, GrantsAreIssued, IssuedInThePast, NEW u \in Users, NEW d \in Targets,
         HasAuthority(u, d)
  PROVE  \E i \in issued : /\ i.clock = authority_map[d][AccountOf[u]].clock
                           /\ i.target = KindOf[d]
                           /\ i.account = AccountOf[u]
                           /\ i.address = AddressOf[u]
                           /\ i.clock <= clock
<1>1. AccountOf[u] \in Accounts
  BY MigrationAssumption
<1> QED
  BY <1>1 DEF GrantsAreIssued, IssuedInThePast, HasAuthority, IsIssued

\* The clock stays ahead of every authority.
LEMMA IssuedInThePastStep ==
  ASSUME TypeOK, IssuedInThePast, [Next]_vars
  PROVE  IssuedInThePast'
<1>1. clock \in Nat /\ \A i \in issued : i.clock \in Nat
  BY MigrationAssumption DEF TypeOK, Issues
<1>2. ASSUME NEW u \in Users, NEW s \in Servers, NEW kind, NEW c,
             RequestUserMigration(u, s, kind, c)
      PROVE  IssuedInThePast'
  BY <1>1, <1>2 DEF IssuedInThePast, RequestUserMigration
<1> QED
  BY <1>2, IssuedChange DEF IssuedInThePast, Servers, Targets

\* A confirmed lobby connection keeps an admission of its account and address behind it.
LEMMA ConfirmedAreAdmittedStep ==
  ASSUME TypeOK, GrantsAreIssued, IssuedInThePast, ConfirmedAreAdmitted, [Next]_vars
  PROVE  ConfirmedAreAdmitted'
<1> SUFFICES ASSUME NEW u \in Users, NEW d \in Lobbies, conn'[u][d].state = "kConfirm"
             PROVE  LobbyAdmitted(AccountOf[u], AddressOf[u], clock + 1)'
  BY DEF ConfirmedAreAdmitted
<1>0. d \in Servers /\ d \in Targets /\ clock \in Nat /\ clock' \in Nat
  <2>1. TypeOK'
    BY StepType
  <2> QED
    BY <2>1, MigrationAssumption DEF TypeOK, Servers, Targets
<1>11. ASSUME NEW v \in Users, NEW s \in Servers, NEW c, conn' = [conn EXCEPT ![v][s] = c],
             c.state \in {conn[v][s].state, "kNotConfirm", "kReserveToMigrate"}
      PROVE  conn[u][d].state = "kConfirm"
  <2>1. conn'[u][d] = conn[u][d] \/ (v = u /\ s = d /\ conn'[u][d] = c)
    BY <1>0, <1>11 DEF TypeOK
  <2> QED
    BY <1>11, <2>1
<1>12. \A v \in Users, s \in Servers : conn[v][s] \in Connections
  BY DEF TypeOK
<1>1. ASSUME conn[u][d].state = "kConfirm"
      PROVE  LobbyAdmitted(AccountOf[u], AddressOf[u], clock + 1)'
  <2>1. LobbyAdmitted(AccountOf[u], AddressOf[u], clock + 1)
    BY <1>1 DEF ConfirmedAreAdmitted
  <2>2. PICK a \in admitted : /\ a.uuid.server \in Lobbies
                              /\ AccountOf[a.uuid.user] = AccountOf[u]
                              /\ AddressOf[a.uuid.user] = AddressOf[u]
                              /\ a.clock < clock + 1
    BY <2>1 DEF LobbyAdmitted
  <2>3. a.clock \in Nat
    BY MigrationAssumption DEF TypeOK, Admissions
  <2>4. a \in admitted' /\ a.clock < clock' + 1
    BY <1>0, <2>2, <2>3, HistoryGrows
  <2> QED
    BY <2>2, <2>4 DEF LobbyAdmitted
<1>2. ASSUME HasAuthority(u, d), ConsumeAuthority(u, d)
      PROVE  LobbyAdmitted(AccountOf[u], AddressOf[u], clock + 1)'
  <2> DEFINE a == [clock |-> authority_map[d][AccountOf[u]].clock, uuid |-> Uuid(u, d)]
  <2>1. PICK i \in issued : i.clock = a.clock /\ i.clock <= clock
    BY <1>0, <1>2, ConsumedIsIssued
  <2>2. i.clock \in Nat
    BY MigrationAssumption DEF TypeOK, Issues
  <2>3. a.clock < clock' + 1
    <3> HIDE DEF a
    <3> QED
      BY <1>0, <2>1, <2>2, HistoryGrows
  <2>4. a \in admitted' /\ a.uuid.server = d /\ a.uuid.user = u
    BY <1>2 DEF ConsumeAuthority, Uuid
  <2> QED
    BY <2>3, <2>4 DEF LobbyAdmitted
<1>3. ASSUME NEW v \in Users, NEW s \in Servers,
             OnActive(v, s) \/ Close(v, s) \/ OnClose(v, s)
      PROVE  conn[u][d].state = "kConfirm"
  <2>1. CASE OnActive(v, s)
    <3>1. conn' = [conn EXCEPT ![v][s] = [n |-> conn[v][s].n + 1, step |-> "open",
                                          state |-> "kNotConfirm", told |-> {}]]
      BY <2>1 DEF OnActive
    <3> QED
      BY <1>11, <3>1
  <2>2. ASSUME NEW step, conn' = [conn EXCEPT ![v][s].step = step]
        PROVE  conn[u][d].state = "kConfirm"
    <3> DEFINE c == [conn[v][s] EXCEPT !.step = step]
    <3>1. c.state = conn[v][s].state
      BY <1>12 DEF Connections
    <3>2. conn' = [conn EXCEPT ![v][s] = c]
      BY <2>2
    <3> HIDE DEF c
    <3> QED
      BY <1>11, <3>1, <3>2
  <2> QED
    BY <1>3, <2>1, <2>2 DEF Close, OnClose
<1>4. ASSUME NEW v \in Users, NEW e \in Lobbies, HandleCharacterSelectRequest(v, e)
      PROVE  conn[u][d].state = "kConfirm"
  <2> DEFINE c == [conn[v][e] EXCEPT !.state = "kReserveToMigrate"]
             f == [c EXCEPT !.step = "closing"]
  <2>1. conn' = [conn EXCEPT ![v][e] = c] \/ conn' = [conn EXCEPT ![v][e] = f]
    BY <1>4 DEF HandleCharacterSelectRequest
  <2>2. c.state = "kReserveToMigrate" /\ f.state = "kReserveToMigrate" /\ e \in Servers
    BY <1>12 DEF Connections, Servers, Targets
  <2> HIDE DEF c, f
  <2> QED
    BY <1>11, <2>1, <2>2
<1>5. ASSUME NEW v \in Users, NEW e \in Targets, HandleConfirmRequest(v, e)
      PROVE  LobbyAdmitted(AccountOf[u], AddressOf[u], clock + 1)'
  <2>1. CASE HasAuthority(v, e) /\ ConsumeAuthority(v, e)
    <3>1. conn[u][d].state = "kConfirm" \/ (v = u /\ e = d)
      BY <1>0, <2>1 DEF TypeOK, ConsumeAuthority, Connections
    <3> QED
      BY <1>1, <1>2, <2>1, <3>1
  <2>2. CASE conn' = [conn EXCEPT ![v][e].step = "closing"]
    <3>1. conn[u][d].state = "kConfirm"
      BY <1>0, <2>2 DEF TypeOK, Connections
    <3> QED
      BY <1>1, <3>1
  <2> QED
    BY <1>5, <2>1, <2>2 DEF HandleConfirmRequest
<1>6. ASSUME NEW s \in Servers, ReactUserMigation(s)
      PROVE  conn[u][d].state = "kConfirm"
  <2> DEFINE m == Head(down[Link(s)])
             v == m.user.user
             c == [conn[v][s] EXCEPT !.told = @ \union {m.dest}]
  <2>1. UNCHANGED conn \/ conn' = [conn EXCEPT ![v][s] = c]
    BY <1>6 DEF ReactUserMigation, Tell
  <2>2. v \in Users
    <3>1. Link(s) \in Links
      BY <1>6, LinkType DEF ReactUserMigation, Reads
    <3>2. m \in Messages /\ m.type = "kReactUserMigation"
      BY <1>6, <3>1, ReadType DEF TypeOK, ReactUserMigation, Reads
    <3> HIDE DEF m
    <3> QED
      BY <3>2, MessageFields DEF Uuids
  <2>3. c.state = conn[v][s].state
    <3> HIDE DEF m, v
    <3> QED
      BY <1>12, <2>2 DEF Connections
  <2> HIDE DEF c, v
  <2> QED
    BY <1>11, <2>1, <2>2, <2>3
<1>7. CASE UNCHANGED conn
  BY <1>1, <1>7
<1>8. CASE Player
  BY <1>1, <1>3, <1>4, <1>5, <1>7, <1>8 DEF Player, HandleLoginRequest
<1>9. CASE Server
  BY <1>1, <1>6, <1>7, <1>9 DEF Server, ConnectChannel, LoseLink, NotifySessionAuthorityInfo
<1>10. CASE Intermediate
  BY <1>7, <1>10 DEF Intermediate, IntermediateOnClose, EraseRegistration, HandleRegisterServer,
                     HandleRequestUserMigration, HandleReactSessionAuthorityInfo,
                     HandleNotifiyUserLogout
<1> QED
  BY <1>7, <1>8, <1>9, <1>10 DEF Next, vars

\* An authority for a zone is created only for a player a lobby has admitted.
LEMMA ZoneAuthoritiesAreEarnedStep ==
  ASSUME TypeOK, ConfirmedAreAdmitted, ZoneAuthoritiesAreEarned, [Next]_vars
  PROVE  ZoneAuthoritiesAreEarned'
<1> SUFFICES ASSUME NEW i \in issued', i.target = "kZoneServer"
             PROVE  LobbyAdmitted(i.account, i.address, i.clock)'
  BY DEF ZoneAuthoritiesAreEarned
<1>1. ASSUME LobbyAdmitted(i.account, i.address, i.clock)
      PROVE  LobbyAdmitted(i.account, i.address, i.clock)'
  BY <1>1, HistoryGrows DEF LobbyAdmitted
<1>2. CASE i \in issued
  BY <1>1, <1>2 DEF ZoneAuthoritiesAreEarned
<1>3. ASSUME NEW u \in Users, RequestUserMigration(u, Login, "kLobbyServer", NoCid)
      PROVE  i \in issued
  BY <1>3 DEF RequestUserMigration
<1>4. ASSUME NEW u \in Users, NEW d \in Lobbies, NEW c \in Cids, conn[u][d].state = "kConfirm",
             RequestUserMigration(u, d, "kZoneServer", c), i \notin issued
      PROVE  LobbyAdmitted(i.account, i.address, i.clock)'
  <2>1. i.account = AccountOf[u] /\ i.address = AddressOf[u] /\ i.clock = clock + 1
    BY <1>4 DEF RequestUserMigration
  <2>2. LobbyAdmitted(AccountOf[u], AddressOf[u], clock + 1)
    BY <1>4 DEF ConfirmedAreAdmitted
  <2> QED
    BY <1>1, <2>1, <2>2
<1> QED
  BY <1>2, <1>3, <1>4, IssuedChange

\* Every admission keeps resting on an authority issued for it.
LEMMA AdmittedByRightStep ==
  ASSUME TypeOK, GrantsAreIssued, IssuedInThePast, ZoneAuthoritiesAreEarned, AdmittedByRight,
         [Next]_vars
  PROVE  AdmittedByRight'
<1> DEFINE Right(a) ==
             \E i \in issued' : /\ i.clock = a.clock
                                /\ i.target = KindOf[a.uuid.server]
                                /\ i.account = AccountOf[a.uuid.user]
                                /\ i.address = AddressOf[a.uuid.user]
           Earned(a) ==
             LobbyAdmitted(AccountOf[a.uuid.user], AddressOf[a.uuid.user], a.clock)
<1>1. ASSUME NEW a \in admitted
      PROVE  Right(a) /\ (a.uuid.server \in Zones => Earned(a)')
  <2>1. Right(a)
    BY HistoryGrows DEF AdmittedByRight
  <2>2. ASSUME a.uuid.server \in Zones
        PROVE  Earned(a)'
    <3>1. Earned(a)
      BY <2>2 DEF AdmittedByRight
    <3> QED
      BY <3>1, HistoryGrows DEF LobbyAdmitted
  <2> QED
    BY <2>1, <2>2
<1>2. ASSUME NEW u \in Users, NEW d \in Targets, HasAuthority(u, d), ConsumeAuthority(u, d),
             NEW a \in admitted', a \notin admitted
      PROVE  Right(a) /\ (a.uuid.server \in Zones => Earned(a)')
  <2>1. /\ a.clock = authority_map[d][AccountOf[u]].clock
        /\ a.uuid.user = u
        /\ a.uuid.server = d
    BY <1>2 DEF ConsumeAuthority, Uuid
  <2>2. PICK i \in issued : /\ i.clock = a.clock
                            /\ i.target = KindOf[d]
                            /\ i.account = AccountOf[u]
                            /\ i.address = AddressOf[u]
    BY <1>2, <2>1, ConsumedIsIssued
  <2>3. Right(a)
    BY <2>1, <2>2, HistoryGrows
  <2>4. ASSUME d \in Zones
        PROVE  Earned(a)'
    <3>1. KindOf[d] = "kZoneServer"
      BY <2>4, MigrationAssumption DEF KindOf, Servers
    <3>2. LobbyAdmitted(AccountOf[u], AddressOf[u], a.clock)
      BY <2>2, <3>1 DEF ZoneAuthoritiesAreEarned
    <3> QED
      BY <2>1, <3>2, HistoryGrows DEF LobbyAdmitted
  <2> QED
    BY <2>1, <2>3, <2>4
<1>3. \A a \in admitted' : Right(a) /\ (a.uuid.server \in Zones => Earned(a)')
  BY <1>1, <1>2, AdmittedChange
<1> QED
  BY <1>3 DEF AdmittedByRight

-----------------------------------------------------------------------------

\* The inductive invariant holds at the start.
LEMMA InitAdmission ==
  ASSUME Init
  PROVE  AdmissionInv
<1>1. TypeOK
  BY InitType
<1>2. RequestsAreIssued /\ NotificationsAreIssued
  BY DEF Init, RequestsAreIssued, NotificationsAreIssued
<1>3. GrantsAreIssued
  BY DEF Init, GrantsAreIssued
<1>4. ConfirmedAreAdmitted
  BY DEF Init, ConfirmedAreAdmitted, Servers, Targets
<1>5. IssuedInThePast /\ ZoneAuthoritiesAreEarned /\ AdmittedByRight
  BY DEF Init, IssuedInThePast, ZoneAuthoritiesAreEarned, AdmittedByRight
<1> QED
  BY <1>1, <1>2, <1>3, <1>4, <1>5 DEF AdmissionInv

\* Every step keeps the inductive invariant.
LEMMA AdmissionInvStep ==
  ASSUME AdmissionInv, [Next]_vars
  PROVE  AdmissionInv'
BY StepType, RequestsAreIssuedStep, NotificationsAreIssuedStep, GrantsAreIssuedStep,
   IssuedInThePastStep, ConfirmedAreAdmittedStep, ZoneAuthoritiesAreEarnedStep,
   AdmittedByRightStep
DEF AdmissionInv

\* Whatever is lost, refused, repeated or shared, a connection is admitted only on an authority
\* created for its account, its address and that kind of server, and at a zone server only after
\* a lobby admitted the account from that address (HandleConfirmRequest of both servers).
THEOREM AdmissionIsByRight == Spec => []AdmittedByRight
<1>1. Init => AdmissionInv
  BY InitAdmission
<1>2. AdmissionInv /\ [Next]_vars => AdmissionInv'
  BY AdmissionInvStep
<1>3. AdmissionInv => AdmittedByRight
  BY DEF AdmissionInv
<1> QED
  BY <1>1, <1>2, <1>3, PTL DEF Spec

-----------------------------------------------------------------------------
(* An authority is in one place.                                           *)

\* The places of the authority created at time k, two by two.
Single(k) ==
    /\ \A x, y, i, j : RequestedAt(k, x, i) /\ RequestedAt(k, y, j) => x = y /\ i = j
    /\ \A x, y, i, j : NotifiedAt(k, x, i) /\ NotifiedAt(k, y, j) => x = y /\ i = j
    /\ \A d, e, a, b : GrantedAt(k, d, a) /\ GrantedAt(k, e, b) => d = e /\ a = b
    /\ \A a, b : UsedBy(k, a) /\ UsedBy(k, b) => a = b
    /\ \A x, i, y, j : ~(RequestedAt(k, x, i) /\ NotifiedAt(k, y, j))
    /\ \A x, i, d, a : ~(RequestedAt(k, x, i) /\ GrantedAt(k, d, a))
    /\ \A x, i, a : ~(RequestedAt(k, x, i) /\ UsedBy(k, a))
    /\ \A x, i, d, a : ~(NotifiedAt(k, x, i) /\ GrantedAt(k, d, a))
    /\ \A x, i, a : ~(NotifiedAt(k, x, i) /\ UsedBy(k, a))
    /\ \A d, b, a : ~(GrantedAt(k, d, b) /\ UsedBy(k, a))

NeverCopied == \A k \in 1..MaxClock : Single(k)

\* Where the packet with index i of x was before the first ones of the channels in T were read.
Before(T, x, i) == IF x \in T THEN i + 1 ELSE i

\* Requests are read (those at the head of the channels in T), dropped, or stay.
RequestsStay(k, T) == \A x, i : RequestedAt(k, x, i)' => RequestedAt(k, x, Before(T, x, i))
NotificationsStay(k, R) == \A x, i : NotifiedAt(k, x, i)' => NotifiedAt(k, x, Before(R, x, i))
GrantsStay(k) == \A d, a : GrantedAt(k, d, a)' => GrantedAt(k, d, a)
UsesStay(k) == \A a : UsedBy(k, a)' => UsedBy(k, a)

\* One authority is moved on: from a request to the notification with index n of y, from a
\* notification to the entry of b at e, from an entry to the admission c.
NotificationsMove(k, T, R, y, n) ==
    \A x, i : NotifiedAt(k, x, i)' =>
        \/ NotifiedAt(k, x, Before(R, x, i))
        \/ x = y /\ i = n /\ \E z \in T : RequestedAt(k, z, 1)
GrantsMove(k, R, e, b) ==
    \A d, a : GrantedAt(k, d, a)' =>
        \/ GrantedAt(k, d, a)
        \/ d = e /\ a = b /\ \E z \in R : NotifiedAt(k, z, 1)
UsesMove(k, c) ==
    \A a : UsedBy(k, a)' =>
        \/ UsedBy(k, a)
        \/ a = c /\ \E d, f : GrantedAt(k, d, f) /\ ~GrantedAt(k, d, f)'

\* Packets have positive indices, and shifting them keeps them apart.
LEMMA Positions ==
  ASSUME NEW k
  PROVE  /\ \A x, i : RequestedAt(k, x, i) => i \in Nat \ {0}
         /\ \A x, i : NotifiedAt(k, x, i) => i \in Nat \ {0}
         /\ \A x, i : RequestedAt(k, x, i)' => i \in Nat \ {0}
         /\ \A x, i : NotifiedAt(k, x, i)' => i \in Nat \ {0}
BY DEF RequestedAt, NotifiedAt

LEMMA Shifting ==
  ASSUME NEW i \in Nat \ {0}, NEW j \in Nat \ {0}, NEW T, NEW x
  PROVE  /\ Before(T, x, i) = Before(T, x, j) => i = j
         /\ x \in T => Before(T, x, i) # 1
BY DEF Before

\* A step that moves the authority at most to its next place leaves it in one place.
LEMMA MovesStaySingle ==
  ASSUME NEW k, Single(k), NEW T, NEW R, NEW y, NEW n, NEW e, NEW b, NEW c,
         RequestsStay(k, T), NotificationsMove(k, T, R, y, n), GrantsMove(k, R, e, b), UsesMove(k, c)
  PROVE  Single(k)'
<1>1. \A x, z, i, j : RequestedAt(k, x, i)' /\ RequestedAt(k, z, j)' => x = z /\ i = j
  BY Positions, Shifting DEF RequestsStay, Single
<1>2. \A x, z, i, j : NotifiedAt(k, x, i)' /\ NotifiedAt(k, z, j)' => x = z /\ i = j
  BY Positions, Shifting DEF NotificationsMove, Single
<1>3. \A d, f, a, g : GrantedAt(k, d, a)' /\ GrantedAt(k, f, g)' => d = f /\ a = g
  BY DEF GrantsMove, Single
<1>4. \A a, g : UsedBy(k, a)' /\ UsedBy(k, g)' => a = g
  BY DEF UsesMove, Single
<1>5. \A x, i, z, j : ~(RequestedAt(k, x, i)' /\ NotifiedAt(k, z, j)')
  BY Positions, Shifting DEF RequestsStay, NotificationsMove, Single
<1>6. \A x, i, d, a : ~(RequestedAt(k, x, i)' /\ GrantedAt(k, d, a)')
  BY DEF RequestsStay, GrantsMove, Single
<1>7. \A x, i, a : ~(RequestedAt(k, x, i)' /\ UsedBy(k, a)')
  BY DEF RequestsStay, UsesMove, Single
<1>8. \A x, i, d, a : ~(NotifiedAt(k, x, i)' /\ GrantedAt(k, d, a)')
  BY Positions, Shifting DEF NotificationsMove, GrantsMove, Single
<1>9. \A x, i, a : ~(NotifiedAt(k, x, i)' /\ UsedBy(k, a)')
  BY DEF NotificationsMove, UsesMove, Single
<1>10. \A d, f, a : ~(GrantedAt(k, d, f)' /\ UsedBy(k, a)')
  BY DEF GrantsMove, UsesMove, Single
<1> QED
  BY <1>1, <1>2, <1>3, <1>4, <1>5, <1>6, <1>7, <1>8, <1>9, <1>10 DEF Single

\* Reading a packet moves the others up.
LEMMA TailAt ==
  ASSUME NEW q \in Seq(Messages), q # <<>>, NEW i \in 1..Len(Tail(q))
  PROVE  i + 1 \in 1..Len(q) /\ Tail(q)[i] = q[i + 1]
OBVIOUS

LEMMA RequestsStayAtRead ==
  ASSUME TypeOK, NEW k, NEW z \in Links, up[z] # <<>>, up' = [up EXCEPT ![z] = Tail(@)]
  PROVE  RequestsStay(k, {z})
<1> SUFFICES ASSUME NEW x, NEW i, RequestedAt(k, x, i)'
             PROVE  RequestedAt(k, x, Before({z}, x, i))
  BY DEF RequestsStay
<1>1. x \in Links /\ i \in 1..Len(up'[x]) /\ up[x] \in Seq(Messages)
  BY DEF RequestedAt, TypeOK
<1>2. CASE x = z
  <2>1. up'[x] = Tail(up[x])
    BY <1>1, <1>2 DEF TypeOK
  <2>2. i + 1 \in 1..Len(up[x]) /\ up'[x][i] = up[x][i + 1]
    BY <1>1, <1>2, <2>1, TailAt
  <2> QED
    BY <1>1, <1>2, <2>2 DEF RequestedAt, Before
<1>3. CASE x # z
  <2>1. up'[x] = up[x]
    BY <1>1, <1>3 DEF TypeOK
  <2> QED
    BY <1>1, <1>3, <2>1 DEF RequestedAt, Before
<1> QED
  BY <1>2, <1>3

LEMMA NotificationsStayAtRead ==
  ASSUME TypeOK, NEW k, NEW z \in Links, down[z] # <<>>, down' = [down EXCEPT ![z] = Tail(@)]
  PROVE  NotificationsStay(k, {z})
<1> SUFFICES ASSUME NEW x, NEW i, NotifiedAt(k, x, i)'
             PROVE  NotifiedAt(k, x, Before({z}, x, i))
  BY DEF NotificationsStay
<1>1. x \in Links /\ i \in 1..Len(down'[x]) /\ down[x] \in Seq(Messages)
  BY DEF NotifiedAt, TypeOK
<1>2. CASE x = z
  <2>1. down'[x] = Tail(down[x])
    BY <1>1, <1>2 DEF TypeOK
  <2>2. i + 1 \in 1..Len(down[x]) /\ down'[x][i] = down[x][i + 1]
    BY <1>1, <1>2, <2>1, TailAt
  <2> QED
    BY <1>1, <1>2, <2>2 DEF NotifiedAt, Before
<1>3. CASE x # z
  <2>1. down'[x] = down[x]
    BY <1>1, <1>3 DEF TypeOK
  <2> QED
    BY <1>1, <1>3, <2>1 DEF NotifiedAt, Before
<1> QED
  BY <1>2, <1>3

\* Sending a packet adds it at the end.
LEMMA RequestsAfterSend ==
  ASSUME TypeOK, NEW k, NEW s \in Servers, NEW m \in Messages, up' = SendUp(up, s, m)
  PROVE  \A x, i : RequestedAt(k, x, i)' =>
             \/ RequestedAt(k, x, i)
             \/ x = Link(s) /\ i = Len(up[x]) + 1 /\ m.type = "kRequestUserMigration" /\ m.info.clock = k
<1> SUFFICES ASSUME NEW x, NEW i, RequestedAt(k, x, i)'
             PROVE  \/ RequestedAt(k, x, i)
                    \/ /\ x = Link(s) /\ i = Len(up[x]) + 1
                       /\ m.type = "kRequestUserMigration" /\ m.info.clock = k
  OBVIOUS
<1>1. x \in Links /\ i \in 1..Len(up'[x]) /\ up[x] \in Seq(Messages)
  BY DEF RequestedAt, TypeOK
<1>2. CASE open[s] /\ x = Link(s)
  <2>1. up'[x] = Append(up[x], m)
    BY <1>1, <1>2 DEF TypeOK, SendUp
  <2>2. \/ i \in 1..Len(up[x]) /\ up'[x][i] = up[x][i]
        \/ i = Len(up[x]) + 1 /\ up'[x][i] = m
    BY <1>1, <2>1
  <2> QED
    BY <1>1, <1>2, <2>2 DEF RequestedAt
<1>3. CASE ~(open[s] /\ x = Link(s))
  <2>1. up'[x] = up[x]
    BY <1>1, <1>3 DEF TypeOK, SendUp
  <2> QED
    BY <1>1, <2>1 DEF RequestedAt
<1> QED
  BY <1>2, <1>3

LEMMA NotificationsAfterSend ==
  ASSUME TypeOK, NEW k, NEW z \in Links, NEW m \in Messages, down' = SendDown(z, m)
  PROVE  \A x, i : NotifiedAt(k, x, i)' =>
             \/ NotifiedAt(k, x, i)
             \/ /\ x = z /\ i = Len(down[z]) + 1
                /\ m.type = "kNotifySessionAuthorityInfo" /\ m.info.clock = k
<1> SUFFICES ASSUME NEW x, NEW i, NotifiedAt(k, x, i)'
             PROVE  \/ NotifiedAt(k, x, i)
                    \/ /\ x = z /\ i = Len(down[z]) + 1
                       /\ m.type = "kNotifySessionAuthorityInfo" /\ m.info.clock = k
  OBVIOUS
<1>1. x \in Links /\ i \in 1..Len(down'[x]) /\ down[x] \in Seq(Messages)
  BY DEF NotifiedAt, TypeOK
<1>2. CASE down' = [down EXCEPT ![z] = Append(@, m)] /\ x = z
  <2>1. down'[x] = Append(down[x], m)
    BY <1>1, <1>2 DEF TypeOK
  <2>2. \/ i \in 1..Len(down[x]) /\ down'[x][i] = down[x][i]
        \/ i = Len(down[x]) + 1 /\ down'[x][i] = m
    BY <1>1, <2>1
  <2> QED
    BY <1>1, <1>2, <2>2 DEF NotifiedAt
<1>3. CASE ~(down' = [down EXCEPT ![z] = Append(@, m)] /\ x = z)
  <2>1. down'[x] = down[x]
    BY <1>1, <1>3 DEF TypeOK, SendDown
  <2> QED
    BY <1>1, <2>1 DEF NotifiedAt
<1> QED
  BY <1>2, <1>3

\* A step that moves no authority on.
LEMMA StayingIsMoving ==
  ASSUME NEW k, NEW T, NEW R
  PROVE  /\ NotificationsStay(k, R) => \A y, n : NotificationsMove(k, T, R, y, n)
         /\ GrantsStay(k) => \A e, b : GrantsMove(k, R, e, b)
         /\ UsesStay(k) => \A c : UsesMove(k, c)
BY DEF NotificationsStay, NotificationsMove, GrantsStay, GrantsMove, UsesStay, UsesMove

LEMMA StaysSingle ==
  ASSUME NEW k, Single(k), NEW T, NEW R,
         RequestsStay(k, T), NotificationsStay(k, R), GrantsStay(k), UsesStay(k)
  PROVE  Single(k)'
<1>1. NotificationsMove(k, T, R, 0, 0) /\ GrantsMove(k, R, 0, 0) /\ UsesMove(k, 0)
  BY StayingIsMoving
<1> QED
  BY <1>1, MovesStaySingle

\* What a step leaves alone.
LEMMA Untouched ==
  ASSUME NEW k
  PROVE  /\ UNCHANGED up => RequestsStay(k, {})
         /\ UNCHANGED down => NotificationsStay(k, {})
         /\ UNCHANGED authority_map => GrantsStay(k)
         /\ UNCHANGED admitted => UsesStay(k)
BY DEF RequestsStay, RequestedAt, NotificationsStay, NotifiedAt, GrantsStay, GrantedAt, UsesStay, UsedBy,
       Before

LEMMA RequestsStayAtSend ==
  ASSUME TypeOK, NEW k, NEW s \in Servers, NEW m \in Messages, m.type # "kRequestUserMigration",
         up' = SendUp(up, s, m)
  PROVE  RequestsStay(k, {})
BY RequestsAfterSend DEF RequestsStay, Before

\* The authority a login or a selection creates is in no place before.
LEMMA IssueStaysSingle ==
  ASSUME TypeOK, RequestsAreIssued, NotificationsAreIssued, GrantsAreIssued, IssuedInThePast,
         AdmittedByRight, NEW k \in 1..MaxClock, Single(k),
         NEW u \in Users, NEW s \in Servers, NEW kind \in Kinds, NEW c \in Cids \union {NoCid},
         RequestUserMigration(u, s, kind, c), UNCHANGED <<down, authority_map, admitted>>
  PROVE  Single(k)'
<1> DEFINE m == [type |-> "kRequestUserMigration", target |-> kind, user |-> Uuid(u, s),
                 info |-> [clock |-> clock + 1, ip |-> AddressOf[u],
                           id |-> AccountOf[u], cid |-> c]]
<1>1. m \in Messages /\ m.info.clock = clock + 1
  <2>1. Uuid(u, s) \in Uuids
    BY UuidType
  <2>2. clock + 1 \in 1..MaxClock
    BY MigrationAssumption DEF TypeOK, RequestUserMigration
  <2>3. AccountOf[u] \in Accounts /\ AddressOf[u] \in Addresses
    BY MigrationAssumption DEF Addresses
  <2> QED
    BY <2>1, <2>2, <2>3 DEF Messages, Infos
<1>2. up' = SendUp(up, s, m)
  BY DEF RequestUserMigration
<1> HIDE DEF m
<1>3. \A x, i : RequestedAt(k, x, i)' =>
          \/ RequestedAt(k, x, i)
          \/ /\ x = Link(s) /\ i = Len(up[x]) + 1
             /\ m.type = "kRequestUserMigration" /\ m.info.clock = k
  BY <1>1, <1>2, RequestsAfterSend
<1>4. CASE k # clock + 1
  <2>1. RequestsStay(k, {})
    BY <1>1, <1>3, <1>4 DEF RequestsStay, Before
  <2> QED
    BY <2>1, Untouched, StaysSingle
<1>5. CASE k = clock + 1
  <2>0. \A i \in issued : i.clock # k
    <3>1. clock \in Nat /\ \A i \in issued : i.clock \in Nat
      BY MigrationAssumption DEF TypeOK, Issues
    <3> QED
      BY <1>5, <3>1 DEF IssuedInThePast
  <2>1. \A x, i : ~RequestedAt(k, x, i)
    <3> SUFFICES ASSUME NEW x, NEW i, RequestedAt(k, x, i) PROVE FALSE
      OBVIOUS
    <3>1. x \in Links /\ i \in 1..Len(up[x]) /\ up[x] \in Seq(Messages)
      BY DEF RequestedAt, TypeOK
    <3>2. i \in DOMAIN up[x]
      BY <3>1
    <3>3. IsIssued(up[x][i].info, up[x][i].target) /\ up[x][i].info.clock = k
      BY <3>1, <3>2 DEF RequestedAt, RequestsAreIssued
    <3> QED
      BY <2>0, <3>3 DEF IsIssued
  <2>2. \A x, i : ~NotifiedAt(k, x, i)
    <3> SUFFICES ASSUME NEW x, NEW i, NotifiedAt(k, x, i) PROVE FALSE
      OBVIOUS
    <3>1. x \in Links /\ i \in 1..Len(down[x]) /\ down[x] \in Seq(Messages)
      BY DEF NotifiedAt, TypeOK
    <3>2. i \in DOMAIN down[x]
      BY <3>1
    <3>3. IsIssued(down[x][i].info, KindOf[x.server]) /\ down[x][i].info.clock = k
      BY <3>1, <3>2 DEF NotifiedAt, NotificationsAreIssued
    <3> QED
      BY <2>0, <3>3 DEF IsIssued
  <2>3. \A d, a : ~GrantedAt(k, d, a)
    BY <2>0 DEF GrantsAreIssued, IsIssued, GrantedAt
  <2>4. \A a : ~UsedBy(k, a)
    BY <2>0 DEF AdmittedByRight, UsedBy
  <2>5. /\ \A x, i : ~NotifiedAt(k, x, i)'
        /\ \A d, a : ~GrantedAt(k, d, a)'
        /\ \A a : ~UsedBy(k, a)'
    BY <2>2, <2>3, <2>4 DEF NotifiedAt, GrantedAt, UsedBy
  <2>6. \A x, i : RequestedAt(k, x, i)' => x = Link(s) /\ i = Len(up[Link(s)]) + 1
    BY <1>3, <2>1
  <2> QED
    BY <2>5, <2>6 DEF Single
<1> QED
  BY <1>4, <1>5

\* The intermediate server passes on the authority whose request it reads.
LEMMA RequestMoves ==
  ASSUME TypeOK, NEW k, Single(k), NEW z \in Links, HandleRequestUserMigration(z)
  PROVE  Single(k)'
<1> DEFINE m == Head(up[z])
           notify == [type |-> "kNotifySessionAuthorityInfo", server |-> z, user |-> m.user,
                      info |-> m.info]
<1>1. /\ up[z] \in Seq(Messages) /\ up[z] # <<>> /\ up' = [up EXCEPT ![z] = Tail(@)]
      /\ m.type = "kRequestUserMigration" /\ UNCHANGED <<authority_map, admitted>>
  BY DEF TypeOK, HandleRequestUserMigration, Receives, history
<1>2. RequestsStay(k, {z}) /\ GrantsStay(k) /\ UsesStay(k)
  BY <1>1, RequestsStayAtRead, Untouched
<1>3. CASE UNCHANGED down
  BY <1>2, <1>3, Untouched, StaysSingle
<1>4. ASSUME NEW y \in GetServerLoadBalance(m.target), down' = SendDown(y, notify)
      PROVE  Single(k)'
  <2>1. y \in Links
    BY DEF TypeOK, GetServerLoadBalance
  <2>2. m \in Messages
    BY <1>1, ReadType
  <2>3. notify \in Messages /\ notify.info = m.info
    BY <1>1, <2>2, MessageFields DEF Messages
  <2>4. m.info.clock = k => RequestedAt(k, z, 1)
    BY <1>1 DEF RequestedAt
  <2> HIDE DEF m, notify
  <2>5. \A x, i : NotifiedAt(k, x, i)' =>
            \/ NotifiedAt(k, x, i)
            \/ x = y /\ i = Len(down[y]) + 1 /\ m.info.clock = k
    BY <1>4, <2>1, <2>3, NotificationsAfterSend
  <2>6. NotificationsMove(k, {z}, {}, y, Len(down[y]) + 1)
    BY <2>4, <2>5 DEF NotificationsMove, Before
  <2>7. GrantsMove(k, {}, 0, 0) /\ UsesMove(k, 0)
    BY <1>2, StayingIsMoving
  <2> QED
    BY <1>2, <2>6, <2>7, MovesStaySingle
<1> QED
  BY <1>3, <1>4 DEF HandleRequestUserMigration

\* A target stores the authority whose packet it reads, or drops it.
LEMMA NotificationMoves ==
  ASSUME TypeOK, NEW k, Single(k), NEW d \in Targets, NotifySessionAuthorityInfo(d)
  PROVE  Single(k)'
<1> DEFINE m == Head(down[Link(d)])
           react == [type |-> "kReactSessionAuthorityInfo", server |-> m.server, user |-> m.user]
<1>0. d \in Servers /\ open[d]
  BY DEF Servers, NotifySessionAuthorityInfo, Reads
<1>1. Link(d) \in Links
  BY <1>0, LinkType
<1>2. /\ down[Link(d)] \in Seq(Messages) /\ down[Link(d)] # <<>>
      /\ down' = [down EXCEPT ![Link(d)] = Tail(@)]
      /\ m.type = "kNotifySessionAuthorityInfo" /\ UNCHANGED admitted
      /\ authority_map' = Emplace(d, m.info) /\ up' = SendUp(up, d, react)
  BY <1>1 DEF TypeOK, NotifySessionAuthorityInfo, Reads, history
<1>3. m \in Messages
  BY <1>2, ReadType
<1>4. m.info.clock = k => NotifiedAt(k, Link(d), 1)
  BY <1>1, <1>2 DEF NotifiedAt
<1>5. react \in Messages /\ react.type # "kRequestUserMigration"
  BY <1>2, <1>3, MessageFields DEF Messages
<1> HIDE DEF react, m
<1>6. RequestsStay(k, {})
  BY <1>0, <1>2, <1>5, RequestsStayAtSend
<1>7. NotificationsStay(k, {Link(d)}) /\ UsesStay(k)
  BY <1>1, <1>2, NotificationsStayAtRead, Untouched
<1>8. GrantsMove(k, {Link(d)}, d, m.info.id)
  <2>1. m.info.id \in Accounts
    BY <1>2, <1>3, MessageFields DEF Infos
  <2>2. \A e \in Targets, a \in Accounts :
            \/ authority_map'[e][a] = authority_map[e][a]
            \/ e = d /\ a = m.info.id /\ authority_map'[e][a] = m.info
    BY <1>2, <2>1 DEF TypeOK, Emplace
  <2> QED
    BY <1>4, <2>2 DEF GrantedAt, GrantsMove
<1>9. NotificationsMove(k, {}, {Link(d)}, 0, 0) /\ UsesMove(k, 0)
  BY <1>7, StayingIsMoving
<1> QED
  BY <1>6, <1>8, <1>9, MovesStaySingle

\* A confirm request uses the authority it erases.
LEMMA GrantMoves ==
  ASSUME TypeOK, NEW k, Single(k), NEW u \in Users, NEW d \in Targets,
         HasAuthority(u, d), ConsumeAuthority(u, d), UNCHANGED <<up, down>>
  PROVE  Single(k)'
<1> DEFINE a == AccountOf[u]
           new == [clock |-> authority_map[d][a].clock, uuid |-> Uuid(u, d)]
<1>1. a \in Accounts
  BY MigrationAssumption
<1>2. authority_map' = [authority_map EXCEPT ![d][a] = NoInfo] /\ admitted' = admitted \union {new}
  BY DEF ConsumeAuthority
<1>3. new.clock = authority_map[d][a].clock /\ authority_map[d][a] # NoInfo
  BY DEF HasAuthority
<1> HIDE DEF new, a
<1>4. /\ authority_map'[d][a] = NoInfo
      /\ \A e \in Targets, b \in Accounts :
             authority_map'[e][b] = authority_map[e][b] \/ authority_map'[e][b] = NoInfo
  BY <1>1, <1>2 DEF TypeOK
<1>5. GrantsStay(k)
  BY <1>4 DEF GrantsStay, GrantedAt
<1>6. UsesMove(k, new)
  <2>1. new.clock = k => GrantedAt(k, d, a) /\ ~GrantedAt(k, d, a)'
    BY <1>1, <1>3, <1>4 DEF GrantedAt
  <2> QED
    BY <1>2, <2>1 DEF UsedBy, UsesMove
<1>7. RequestsStay(k, {}) /\ NotificationsStay(k, {})
  BY Untouched
<1>8. NotificationsMove(k, {}, {}, 0, 0) /\ GrantsMove(k, {}, 0, 0)
  BY <1>5, <1>7, StayingIsMoving
<1> QED
  BY <1>6, <1>7, <1>8, MovesStaySingle

\* Every step leaves every authority in one place.
LEMMA NeverCopiedStep ==
  ASSUME AdmissionInv, NeverCopied, [Next]_vars
  PROVE  NeverCopied'
<1> SUFFICES ASSUME NEW k \in 1..MaxClock PROVE Single(k)'
  BY DEF NeverCopied
<1>0. Single(k) /\ TypeOK
  BY DEF NeverCopied, AdmissionInv
<1>1. CASE UNCHANGED vars
  BY <1>0, <1>1, Untouched, StaysSingle DEF vars
<1>2. CASE Intermediate
  <2> PICK z \in client_storage \union erasing :
        \/ IntermediateOnClose(z)
        \/ EraseRegistration(z)
        \/ HandleRegisterServer(z)
        \/ HandleRequestUserMigration(z)
        \/ HandleReactSessionAuthorityInfo(z)
        \/ HandleNotifiyUserLogout(z)
    BY <1>2 DEF Intermediate
  <2>0. z \in Links
    BY <1>0 DEF TypeOK
  <2>1. CASE IntermediateOnClose(z)
    <3>1. RequestsStay(k, {})
      <4>1. \A x \in Links : up'[x] = up[x] \/ up'[x] = <<>>
        BY <1>0, <2>1 DEF TypeOK, IntermediateOnClose
      <4> QED
        BY <4>1 DEF RequestsStay, RequestedAt, Before
    <3> QED
      BY <1>0, <2>1, <3>1, Untouched, StaysSingle DEF IntermediateOnClose, history
  <2>e. CASE EraseRegistration(z)
    BY <1>0, <2>e, Untouched, StaysSingle DEF EraseRegistration, history
  <2>2. CASE HandleRegisterServer(z) \/ HandleNotifiyUserLogout(z)
    <3>1. RequestsStay(k, {z})
      BY <1>0, <2>0, <2>2, RequestsStayAtRead DEF HandleRegisterServer, HandleNotifiyUserLogout, Receives
    <3>2. UNCHANGED <<down, authority_map, admitted>>
      BY <2>2 DEF HandleRegisterServer, HandleNotifiyUserLogout, history
    <3> QED
      BY <1>0, <3>1, <3>2, Untouched, StaysSingle
  <2>3. CASE HandleRequestUserMigration(z)
    BY <1>0, <2>0, <2>3, RequestMoves
  <2>4. CASE HandleReactSessionAuthorityInfo(z)
    <3> DEFINE m == Head(up[z])
               react == [type |-> "kReactUserMigation", user |-> m.user, dest |-> z.server]
    <3>1. RequestsStay(k, {z}) /\ UNCHANGED <<authority_map, admitted>>
      BY <1>0, <2>0, <2>4, RequestsStayAtRead DEF HandleReactSessionAuthorityInfo, Receives, history
    <3>2. m \in Messages /\ m.type = "kReactSessionAuthorityInfo"
      BY <1>0, <2>0, <2>4, ReadType DEF TypeOK, HandleReactSessionAuthorityInfo, Receives
    <3>3. m.server \in Links /\ m.user \in Uuids
      <4> HIDE DEF m
      <4> QED
        BY <3>2, MessageFields
    <3>4. react \in Messages /\ react.type # "kNotifySessionAuthorityInfo"
      BY <2>0, <3>3 DEF Messages, Links
    <3>5. UNCHANGED down \/ down' = SendDown(m.server, react)
      BY <2>4 DEF HandleReactSessionAuthorityInfo
    <3>6. NotificationsStay(k, {})
      <4> HIDE DEF react, m
      <4>1. CASE UNCHANGED down
        BY <4>1, Untouched
      <4>2. CASE down' = SendDown(m.server, react)
        BY <1>0, <3>3, <3>4, <4>2, NotificationsAfterSend DEF NotificationsStay, Before
      <4> QED
        BY <3>5, <4>1, <4>2
    <3> QED
      BY <1>0, <3>1, <3>6, Untouched, StaysSingle
  <2> QED
    BY <2>1, <2>2, <2>3, <2>4, <2>e
<1>3. CASE Server
  <2>1. ASSUME NEW s \in Servers, ConnectChannel(s)
        PROVE  Single(k)'
    <3>1. \A x \in Links : up'[x] = up[x] \/ up'[x] = <<[type |-> "kRegisterRemoteServer"]>>
      BY <1>0, <2>1 DEF TypeOK, ConnectChannel
    <3>2. RequestsStay(k, {})
      BY <3>1 DEF RequestsStay, RequestedAt, Before
    <3> QED
      BY <1>0, <2>1, <3>2, Untouched, StaysSingle DEF ConnectChannel, history
  <2>2. ASSUME NEW s \in Servers, LoseLink(s)
        PROVE  Single(k)'
    <3>1. \A x \in Links : down'[x] = down[x] \/ down'[x] = <<>>
      BY <1>0, <2>2 DEF TypeOK, LoseLink
    <3>2. NotificationsStay(k, {})
      BY <3>1 DEF NotificationsStay, NotifiedAt, Before
    <3> QED
      BY <1>0, <2>2, <3>2, Untouched, StaysSingle DEF LoseLink, history
  <2>3. ASSUME NEW s \in Servers, ReactUserMigation(s)
        PROVE  Single(k)'
    <3>1. Link(s) \in Links
      BY <1>0, <2>3, LinkType DEF ReactUserMigation, Reads
    <3>2. NotificationsStay(k, {Link(s)})
      BY <1>0, <2>3, <3>1, NotificationsStayAtRead DEF ReactUserMigation, Reads
    <3> QED
      BY <1>0, <2>3, <3>2, Untouched, StaysSingle DEF ReactUserMigation, history
  <2>4. ASSUME NEW d \in Targets, NotifySessionAuthorityInfo(d)
        PROVE  Single(k)'
    BY <1>0, <2>4, NotificationMoves
  <2> QED
    BY <1>3, <2>1, <2>2, <2>3, <2>4 DEF Server
<1>4. CASE Player
  <2>1. ASSUME NEW u \in Users, NEW s \in Servers, OnActive(u, s) \/ Close(u, s)
        PROVE  Single(k)'
    <3>1. UNCHANGED <<up, down, authority_map, admitted>>
      BY <2>1 DEF OnActive, Close, history
    <3> QED
      BY <1>0, <3>1, Untouched, StaysSingle
  <2>2. ASSUME NEW u \in Users, NEW s \in Servers, OnClose(u, s)
        PROVE  Single(k)'
    <3> DEFINE logout == [type |-> "kNotifyUserLogout", id |-> AccountOf[u]]
    <3>1. logout \in Messages /\ logout.type # "kRequestUserMigration"
      BY MigrationAssumption DEF Messages
    <3>2. UNCHANGED up \/ up' = SendUp(up, s, logout)
      BY <2>2 DEF OnClose
    <3> HIDE DEF logout
    <3>3. RequestsStay(k, {})
      BY <1>0, <3>1, <3>2, RequestsStayAtSend, Untouched
    <3>4. UNCHANGED <<down, authority_map, admitted>>
      BY <2>2 DEF OnClose, history
    <3> QED
      BY <1>0, <3>3, <3>4, Untouched, StaysSingle
  <2>3. ASSUME NEW u \in Users, HandleLoginRequest(u)
        PROVE  Single(k)'
    <3>1. /\ RequestUserMigration(u, Login, "kLobbyServer", NoCid)
          /\ UNCHANGED <<down, authority_map, admitted>>
      BY <2>3 DEF HandleLoginRequest
    <3> QED
      BY <1>0, <3>1, IssueStaysSingle DEF AdmissionInv, Servers, Kinds
  <2>4. ASSUME NEW u \in Users, NEW d \in Targets, HandleConfirmRequest(u, d)
        PROVE  Single(k)'
    <3>1. UNCHANGED <<up, down>>
      BY <2>4 DEF HandleConfirmRequest
    <3>2. CASE HasAuthority(u, d) /\ ConsumeAuthority(u, d)
      BY <1>0, <3>1, <3>2, GrantMoves
    <3>3. CASE UNCHANGED <<authority_map, admitted>>
      BY <1>0, <3>1, <3>3, Untouched, StaysSingle
    <3> QED
      BY <2>4, <3>2, <3>3 DEF HandleConfirmRequest
  <2>5. ASSUME NEW u \in Users, NEW d \in Lobbies, HandleCharacterSelectRequest(u, d)
        PROVE  Single(k)'
    <3>1. UNCHANGED <<down, authority_map, admitted>>
      BY <2>5 DEF HandleCharacterSelectRequest
    <3>2. \/ UNCHANGED up
          \/ \E c \in Cids : RequestUserMigration(u, d, "kZoneServer", c)
      BY <2>5 DEF HandleCharacterSelectRequest
    <3>3. CASE UNCHANGED up
      BY <1>0, <3>1, <3>3, Untouched, StaysSingle
    <3>4. ASSUME NEW c \in Cids, RequestUserMigration(u, d, "kZoneServer", c)
          PROVE  Single(k)'
      BY <1>0, <3>1, <3>4, IssueStaysSingle DEF AdmissionInv, Servers, Targets, Kinds
    <3> QED
      BY <3>2, <3>3, <3>4
  <2> QED
    BY <1>4, <2>1, <2>2, <2>3, <2>4, <2>5 DEF Player
<1> QED
  BY <1>1, <1>2, <1>3, <1>4 DEF Next

LEMMA InitNeverCopied ==
  ASSUME Init
  PROVE  NeverCopied
<1> SUFFICES ASSUME NEW k \in 1..MaxClock PROVE Single(k)
  BY DEF NeverCopied
<1>1. /\ \A x, i : ~RequestedAt(k, x, i) /\ ~NotifiedAt(k, x, i)
      /\ \A d, a : ~GrantedAt(k, d, a)
      /\ \A a : ~UsedBy(k, a)
  BY DEF Init, RequestedAt, NotifiedAt, GrantedAt, UsedBy
<1> QED
  BY <1>1 DEF Single

\* Two places of one authority are the same.
LEMMA SinglePlace ==
  ASSUME NEW k, Single(k)
  PROVE  Cardinality(Requests(k) \union Notifications(k) \union Entries(k) \union Uses(k)) <= 1
<1> DEFINE Places == Requests(k) \union Notifications(k) \union Entries(k) \union Uses(k)
<1>1. ASSUME NEW p \in Places, NEW q \in Places
      PROVE  p = q
  <2> DEFINE At(r) == \/ \E x, i : r = <<"up", x, i>> /\ RequestedAt(k, x, i)
                      \/ \E x, i : r = <<"down", x, i>> /\ NotifiedAt(k, x, i)
                      \/ \E d, a : r = <<"entry", d, a>> /\ GrantedAt(k, d, a)
                      \/ \E a : r = <<"used", a, 0>> /\ UsedBy(k, a)
  <2>1. (\A r \in Requests(k) : At(r)) /\ (\A r \in Notifications(k) : At(r))
    BY DEF Requests, Notifications
  <2>2. (\A r \in Entries(k) : At(r)) /\ (\A r \in Uses(k) : At(r))
    BY DEF Entries, Uses
  <2>3. At(p) /\ At(q)
    <3> HIDE DEF At
    <3> QED
      BY <2>1, <2>2
  <2> QED
    BY <2>3 DEF Single
<1> HIDE DEF Places
<1>2. Cardinality({}) = 0 /\ \A p : Cardinality({p}) = 1
  BY FS_EmptySet, FS_Singleton
<1>3. Places = {} \/ \E p : Places = {p}
  BY <1>1
<1> QED
  BY <1>2, <1>3 DEF Places

\* An authority is never in two places, however many servers, players and links there are and
\* whatever is lost: the intermediate server and the targets pass it on and do not keep it
\* (HandleRequestUserMigration, emplace and erase on authority_map_).
THEOREM AuthorityIsInOnePlace == Spec => []AuthorityInOnePlace
<1>1. Init => AdmissionInv /\ NeverCopied
  BY InitAdmission, InitNeverCopied
<1>2. AdmissionInv /\ NeverCopied /\ [Next]_vars => AdmissionInv' /\ NeverCopied'
  BY AdmissionInvStep, NeverCopiedStep
<1>3. NeverCopied => AuthorityInOnePlace
  BY SinglePlace DEF NeverCopied, AuthorityInOnePlace
<1> QED
  BY <1>1, <1>2, <1>3, PTL DEF Spec

-----------------------------------------------------------------------------
(* The hand-off implements Admission.                                      *)

\* A step issues one authority, or admits one connection, or neither.
LEMMA HistoryChange ==
  ASSUME [Next]_vars
  PROVE  \/ UNCHANGED <<issued, admitted>>
         \/ /\ \E u \in Users : RequestUserMigration(u, Login, "kLobbyServer", NoCid)
            /\ UNCHANGED admitted
         \/ /\ \E u \in Users, d \in Lobbies, c \in Cids :
                   conn[u][d].state = "kConfirm" /\ RequestUserMigration(u, d, "kZoneServer", c)
            /\ UNCHANGED admitted
         \/ /\ \E u \in Users, d \in Targets : HasAuthority(u, d) /\ ConsumeAuthority(u, d)
            /\ UNCHANGED issued
<1>1. CASE UNCHANGED vars
  BY <1>1 DEF vars
<1>2. CASE Intermediate
  BY <1>2 DEF Intermediate, IntermediateOnClose, EraseRegistration, HandleRegisterServer, HandleRequestUserMigration,
              HandleReactSessionAuthorityInfo, HandleNotifiyUserLogout, history
<1>3. CASE Server
  BY <1>3 DEF Server, ConnectChannel, LoseLink, ReactUserMigation, NotifySessionAuthorityInfo,
              history
<1>4. CASE Player
  BY <1>4 DEF Player, OnActive, Close, OnClose, HandleLoginRequest, HandleConfirmRequest,
              HandleCharacterSelectRequest, history
<1> QED
  BY <1>1, <1>2, <1>3, <1>4 DEF Next

\* A login, or a selection by a player a lobby has admitted, issues an authority.
LEMMA RequestIssues ==
  ASSUME AdmissionInv, NEW u \in Users, NEW s \in Servers, NEW kind \in Kinds, NEW c,
         RequestUserMigration(u, s, kind, c), UNCHANGED admitted,
         \/ kind = "kLobbyServer"
         \/ kind = "kZoneServer" /\ LobbyAdmitted(AccountOf[u], AddressOf[u], clock + 1)
  PROVE  A!Issue
<1> DEFINE new == [clock |-> clock + 1, target |-> kind, account |-> AccountOf[u],
                   address |-> AddressOf[u], from |-> Uuid(u, s)]
<1>1. issued' = issued \union {new}
  BY DEF RequestUserMigration
<1>2. /\ new.clock = clock + 1 /\ new.target = kind
      /\ new.account = AccountOf[u] /\ new.address = AddressOf[u]
  OBVIOUS
<1> HIDE DEF new
<1>3. clock \in Nat /\ \A j \in issued : j.clock \in Nat /\ j.clock <= clock
  BY MigrationAssumption DEF AdmissionInv, TypeOK, Issues, IssuedInThePast
<1>4. new.clock \in Nat /\ \A j \in issued : j.clock < new.clock
  BY <1>2, <1>3
<1>5. new \in issued' \ issued
  BY <1>1, <1>4
<1>6. kind = "kZoneServer" =>
          \E a \in admitted : /\ KindOf[a.uuid.server] = "kLobbyServer"
                              /\ AccountOf[a.uuid.user] = new.account
                              /\ AddressOf[a.uuid.user] = new.address
  <2>1. \A d \in Lobbies : KindOf[d] = "kLobbyServer"
    BY MigrationAssumption DEF KindOf, Servers, Targets
  <2> QED
    BY <1>2, <2>1 DEF LobbyAdmitted
<1> QED
  BY <1>1, <1>2, <1>4, <1>5, <1>6 DEF A!Issue

\* A confirm request uses an authority that nobody used.
LEMMA ConsumedIsUnused ==
  ASSUME AdmissionInv, NeverCopied, NEW u \in Users, NEW d \in Targets, HasAuthority(u, d)
  PROVE  \A b \in admitted : b.clock # authority_map[d][AccountOf[u]].clock
<1> DEFINE k == authority_map[d][AccountOf[u]].clock
<1>1. k \in 1..MaxClock
  BY ConsumedIsIssued DEF AdmissionInv, TypeOK, Issues
<1>2. GrantedAt(k, d, AccountOf[u])
  BY MigrationAssumption DEF HasAuthority, GrantedAt
<1> HIDE DEF k
<1>3. \A b \in admitted : b.clock # k
  BY <1>1, <1>2 DEF NeverCopied, Single, UsedBy
<1> QED
  BY <1>3 DEF k

\* A confirm request admits a connection.
LEMMA ConsumeAdmits ==
  ASSUME AdmissionInv, NeverCopied, NEW u \in Users, NEW d \in Targets,
         HasAuthority(u, d), ConsumeAuthority(u, d), UNCHANGED issued
  PROVE  A!Admit
<1> DEFINE a == AccountOf[u]
           new == [clock |-> authority_map[d][a].clock, uuid |-> Uuid(u, d)]
<1>1. admitted' = admitted \union {new}
  BY DEF ConsumeAuthority
<1>2. new.clock = authority_map[d][a].clock /\ new.uuid.user = u /\ new.uuid.server = d
  BY DEF Uuid
<1> HIDE DEF new
<1>3. PICK i \in issued : /\ i.clock = new.clock
                          /\ i.target = KindOf[d]
                          /\ i.account = AccountOf[u]
                          /\ i.address = AddressOf[u]
  BY <1>2, ConsumedIsIssued DEF AdmissionInv
<1>4. \A b \in admitted : b.clock # new.clock
  BY <1>2, ConsumedIsUnused
<1>5. new \in admitted' \ admitted
  BY <1>1, <1>4
<1> QED
  BY <1>1, <1>2, <1>3, <1>4, <1>5 DEF A!Admit

\* What the servers do together is what Admission promises: every authority is issued to a player
\* who logged in or whom a lobby admitted, and admits one connection at most, of its account and
\* address, at a server of its kind.
THEOREM AdmissionIsImplemented == Spec => ImplementsAdmission
<1>1. Init => A!Init /\ AdmissionInv /\ NeverCopied
  BY InitAdmission, InitNeverCopied DEF Init, A!Init
<1>2. AdmissionInv /\ NeverCopied /\ [Next]_vars => AdmissionInv' /\ NeverCopied'
  BY AdmissionInvStep, NeverCopiedStep
<1>3. AdmissionInv /\ NeverCopied /\ [Next]_vars => [A!Next]_A!vars
  <2> SUFFICES ASSUME AdmissionInv, NeverCopied, [Next]_vars
               PROVE  A!Next \/ UNCHANGED <<issued, admitted>>
    BY DEF A!vars
  <2>1. ASSUME NEW u \in Users, RequestUserMigration(u, Login, "kLobbyServer", NoCid),
               UNCHANGED admitted
        PROVE  A!Next
    BY <2>1, RequestIssues DEF Servers, Kinds, A!Next
  <2>2. ASSUME NEW u \in Users, NEW d \in Lobbies, NEW c \in Cids, conn[u][d].state = "kConfirm",
               RequestUserMigration(u, d, "kZoneServer", c), UNCHANGED admitted
        PROVE  A!Next
    <3>1. LobbyAdmitted(AccountOf[u], AddressOf[u], clock + 1)
      BY <2>2 DEF AdmissionInv, ConfirmedAreAdmitted
    <3> QED
      BY <2>2, <3>1, RequestIssues DEF Servers, Targets, Kinds, A!Next
  <2>3. ASSUME NEW u \in Users, NEW d \in Targets, HasAuthority(u, d), ConsumeAuthority(u, d),
               UNCHANGED issued
        PROVE  A!Next
    BY <2>3, ConsumeAdmits DEF A!Next
  <2> QED
    BY <2>1, <2>2, <2>3, HistoryChange
<1> QED
  BY <1>1, <1>2, <1>3, PTL DEF Spec, ImplementsAdmission, A!Spec

-----------------------------------------------------------------------------
(* The intermediate server's maps, and how often a player selects.         *)

\* The links the intermediate server has an object or a half-run OnClose for were made, those of
\* the second kind are lost, and a registration without object is one of them.
StorageInv ==
    /\ \A x \in client_storage \union erasing : x.n <= made[x.server]
    /\ \A x \in erasing : ~(open[x.server] /\ Link(x.server) = x)
    /\ \A x \in server_map : x \in client_storage \/ x \in erasing

\* The steps that connect, lose or forget a link keep this; no other step touches the maps.
LEMMA StorageInvStep ==
  ASSUME TypeOK, StorageInv, [Next]_vars
  PROVE  StorageInv'
<1>1. CASE UNCHANGED <<made, open, client_storage, server_map, erasing>>
  BY <1>1 DEF StorageInv, Link
<1>2. ASSUME NEW s \in Servers, ConnectChannel(s)
      PROVE  StorageInv'
  <2> DEFINE new == [server |-> s, n |-> made[s] + 1]
  <2>1. made' = [made EXCEPT ![s] = @ + 1] /\ open' = [open EXCEPT ![s] = TRUE]
    BY <1>2 DEF ConnectChannel
  <2>2. /\ client_storage' = client_storage \union {new}
        /\ UNCHANGED <<server_map, erasing>>
    BY <1>2 DEF ConnectChannel
  <2>3. \A t \in Servers : made[t] \in Nat /\ made'[t] = IF t = s THEN made[s] + 1 ELSE made[t]
    BY <2>1, MigrationAssumption DEF TypeOK
  <2>4. \A x \in client_storage \union erasing : x.n \in Nat /\ x.server \in Servers
    BY MigrationAssumption DEF TypeOK, Links
  <2>5. \A x \in client_storage' \union erasing' : x.n <= made'[x.server]
    <3>1. new.n = made'[new.server]
      BY <2>3
    <3>2. new.n <= made'[new.server]
      BY <2>3, <3>1
    <3>3. ASSUME NEW x \in client_storage \union erasing
          PROVE  x.n <= made'[x.server]
      BY <2>3, <2>4 DEF StorageInv
    <3> QED
      BY <2>2, <3>2, <3>3
  <2>6. ASSUME NEW x \in erasing', open'[x.server], Link(x.server)' = x
        PROVE  FALSE
    <3>1. x \in erasing /\ x.n = made'[x.server] /\ x.n <= made[x.server] /\ x.server \in Servers
      BY <2>2, <2>4, <2>6 DEF StorageInv, Link
    <3>2. x.server # s
      BY <2>3, <3>1
    <3>3. open[x.server] /\ Link(x.server) = x
      BY <2>1, <2>3, <2>6, <3>1, <3>2 DEF Link, TypeOK
    <3> QED
      BY <3>1, <3>3 DEF StorageInv
  <2>7. \A x \in server_map' : x \in client_storage' \/ x \in erasing'
    BY <2>2 DEF StorageInv
  <2> QED
    BY <2>5, <2>6, <2>7 DEF StorageInv
<1>3. ASSUME NEW s \in Servers, LoseLink(s)
      PROVE  StorageInv'
  BY <1>3 DEF TypeOK, LoseLink, StorageInv, Link
<1>4. CASE Server
  BY <1>1, <1>2, <1>3, <1>4 DEF Server, ReactUserMigation, NotifySessionAuthorityInfo, links
<1>5. ASSUME NEW x \in client_storage, HandleRegisterServer(x)
      PROVE  StorageInv'
  BY <1>5 DEF HandleRegisterServer, StorageInv, Link
<1>6. ASSUME NEW x \in client_storage, IntermediateOnClose(x)
      PROVE  StorageInv'
  BY <1>6 DEF IntermediateOnClose, StorageInv, Link
<1>7. ASSUME NEW x \in erasing, EraseRegistration(x)
      PROVE  StorageInv'
  BY <1>7 DEF EraseRegistration, StorageInv, Link
<1>8. CASE Intermediate
  BY <1>1, <1>5, <1>6, <1>7, <1>8 DEF Intermediate, HandleRequestUserMigration,
              HandleReactSessionAuthorityInfo, HandleNotifiyUserLogout, links
<1>9. CASE Player
  <2>1. UNCHANGED links
    BY <1>9 DEF Player, OnActive, Close, OnClose, HandleLoginRequest, HandleConfirmRequest,
                HandleCharacterSelectRequest
  <2> QED
    BY <1>1, <2>1 DEF links
<1>10. CASE UNCHANGED vars
  BY <1>1, <1>10 DEF vars
<1> QED
  BY <1>4, <1>8, <1>9, <1>10 DEF Next

LEMMA StorageInvAlways == Spec => [](TypeOK /\ StorageInv)
<1>1. Init => TypeOK /\ StorageInv
  BY InitType DEF Init, StorageInv
<1>2. TypeOK /\ StorageInv /\ [Next]_vars => TypeOK' /\ StorageInv'
  BY StepType, StorageInvStep
<1> QED
  BY <1>1, <1>2, PTL DEF Spec

\* However links are made and lost, and wherever the two critical sections of OnClose fall, GetClient
\* on a uuid of server_map_ fails only for a lost link whose OnClose is between them: a server that
\* is connected and registered has its object.
THEOREM RegisteredAreStored == Spec => []RegisteredIsStored
<1>1. StorageInv => RegisteredIsStored
  BY DEF StorageInv, RegisteredIsStored
<1> QED
  BY <1>1, StorageInvAlways, PTL

\* The authorities that the present connection of u to d asked for, and those that admitted it.
Asked(u, d) == {i \in issued : i.from = Uuid(u, d)}
Admitted(u, d) == {a \in admitted : a.uuid = Uuid(u, d)}

\* A connection in kConfirm has an admission in hand that no selection was made for yet, and
\* nothing is recorded of a connection that is not made yet.
SelectionInv ==
    /\ IsFiniteSet(issued) /\ IsFiniteSet(admitted)
    /\ \A i \in issued : i.from.n <= conn[i.from.user][i.from.server].n
    /\ \A a \in admitted : a.uuid.n <= conn[a.uuid.user][a.uuid.server].n
    /\ \A u \in Users, d \in Lobbies :
           /\ Cardinality(Asked(u, d)) <= Cardinality(Admitted(u, d))
           /\ conn[u][d].state = "kConfirm" => Cardinality(Asked(u, d)) + 1 <= Cardinality(Admitted(u, d))

\* Adding one element to a set counts once.
LEMMA OneMore ==
  ASSUME NEW S, IsFiniteSet(S), NEW T, IsFiniteSet(T), NEW x, T \subseteq S \union {x}, S \subseteq T
  PROVE  /\ Cardinality(S) \in Nat /\ Cardinality(T) \in Nat
         /\ Cardinality(T) <= Cardinality(S) + 1
         /\ x \in T /\ x \notin S => Cardinality(T) = Cardinality(S) + 1
<1>1. x \notin T => T = S
  OBVIOUS
<1>2. x \in T => T = S \union {x}
  OBVIOUS
<1>3. Cardinality(S \union {x}) = IF x \in S THEN Cardinality(S) ELSE Cardinality(S) + 1
  BY FS_AddElement
<1>4. Cardinality(S) \in Nat /\ Cardinality(T) \in Nat
  BY FS_CardinalityType
<1>5. x \in T /\ x \notin S => Cardinality(T) = Cardinality(S) + 1
  BY <1>2, <1>3
<1>6. Cardinality(T) = Cardinality(S) \/ Cardinality(T) = Cardinality(S) + 1
  BY <1>1, <1>2, <1>3
<1> QED
  BY <1>4, <1>5, <1>6
\* What a step does to one connection.
LEMMA ConnectionChange ==
  ASSUME TypeOK, [Next]_vars, NEW u \in Users, NEW d \in Servers
  PROVE  \/ /\ conn'[u][d].n = conn[u][d].n
            /\ conn'[u][d].state \in {conn[u][d].state, "kReserveToMigrate"}
         \/ conn'[u][d].n = conn[u][d].n + 1 /\ conn'[u][d].state = "kNotConfirm"
         \/ /\ d \in Targets /\ HasAuthority(u, d) /\ ConsumeAuthority(u, d) /\ UNCHANGED issued
            /\ conn'[u][d].n = conn[u][d].n
<1> DEFINE Stays == /\ conn'[u][d].n = conn[u][d].n
                    /\ conn'[u][d].state \in {conn[u][d].state, "kReserveToMigrate"}
           Fresh == conn'[u][d].n = conn[u][d].n + 1 /\ conn'[u][d].state = "kNotConfirm"
           Consumes == /\ d \in Targets /\ HasAuthority(u, d) /\ ConsumeAuthority(u, d)
                       /\ UNCHANGED issued /\ conn'[u][d].n = conn[u][d].n
<1>0. \A v \in Users, s \in Servers : conn[v][s] \in Connections
  BY DEF TypeOK
<1>1. ASSUME NEW v \in Users, NEW s \in Servers, NEW c, conn' = [conn EXCEPT ![v][s] = c],
             c.n = conn[v][s].n, c.state \in {conn[v][s].state, "kReserveToMigrate"}
      PROVE  Stays
  <2>1. conn'[u][d] = conn[u][d] \/ (v = u /\ s = d /\ conn'[u][d] = c)
    BY <1>1 DEF TypeOK
  <2> QED
    BY <1>1, <2>1
<1>2. ASSUME NEW v \in Users, NEW s \in Servers, OnActive(v, s)
      PROVE  Stays \/ Fresh
  <2> DEFINE c == [n |-> conn[v][s].n + 1, step |-> "open", state |-> "kNotConfirm", told |-> {}]
  <2>1. conn' = [conn EXCEPT ![v][s] = c]
    BY <1>2 DEF OnActive
  <2>2. conn'[u][d] = conn[u][d] \/ (v = u /\ s = d /\ conn'[u][d] = c)
    BY <2>1 DEF TypeOK
  <2> QED
    BY <2>2
<1>3. ASSUME NEW v \in Users, NEW s \in Servers, NEW step, conn' = [conn EXCEPT ![v][s].step = step]
      PROVE  Stays
  <2> DEFINE c == [conn[v][s] EXCEPT !.step = step]
  <2>1. c.state = conn[v][s].state /\ c.n = conn[v][s].n
    BY <1>0 DEF Connections
  <2>2. conn' = [conn EXCEPT ![v][s] = c]
    BY <1>3
  <2> HIDE DEF c
  <2> QED
    BY <1>1, <2>1, <2>2
<1>4. ASSUME NEW v \in Users, NEW e \in Lobbies, HandleCharacterSelectRequest(v, e)
      PROVE  Stays
  <2> DEFINE c == [conn[v][e] EXCEPT !.state = "kReserveToMigrate"]
             f == [c EXCEPT !.step = "closing"]
  <2>1. conn' = [conn EXCEPT ![v][e] = c] \/ conn' = [conn EXCEPT ![v][e] = f]
    BY <1>4 DEF HandleCharacterSelectRequest
  <2>2. /\ c.state = "kReserveToMigrate" /\ f.state = "kReserveToMigrate" /\ e \in Servers
        /\ c.n = conn[v][e].n /\ f.n = conn[v][e].n
    BY <1>0 DEF Connections, Servers, Targets
  <2> HIDE DEF c, f
  <2> QED
    BY <1>1, <2>1, <2>2
<1>5. ASSUME NEW v \in Users, NEW e \in Targets, HandleConfirmRequest(v, e)
      PROVE  Stays \/ Consumes
  <2>0. e \in Servers
    BY DEF Servers
  <2>1. CASE HasAuthority(v, e) /\ ConsumeAuthority(v, e)
    <3> DEFINE c == [conn[v][e] EXCEPT !.state = "kConfirm"]
    <3>1. c.n = conn[v][e].n
      BY <1>0, <2>0 DEF Connections
    <3>2. conn' = [conn EXCEPT ![v][e] = c]
      BY <2>1 DEF ConsumeAuthority
    <3> HIDE DEF c
    <3>3. conn'[u][d] = conn[u][d] \/ (v = u /\ e = d /\ conn'[u][d] = c)
      BY <2>0, <3>2 DEF TypeOK
    <3>4. UNCHANGED issued
      BY <1>5 DEF HandleConfirmRequest
    <3> QED
      BY <2>1, <3>1, <3>3, <3>4
  <2>2. CASE conn' = [conn EXCEPT ![v][e].step = "closing"]
    BY <1>3, <2>0, <2>2
  <2> QED
    BY <1>5, <2>1, <2>2 DEF HandleConfirmRequest
<1>6. ASSUME NEW s \in Servers, ReactUserMigation(s)
      PROVE  Stays
  <2> DEFINE m == Head(down[Link(s)])
             v == m.user.user
             c == [conn[v][s] EXCEPT !.told = @ \union {m.dest}]
  <2>1. UNCHANGED conn \/ conn' = [conn EXCEPT ![v][s] = c]
    BY <1>6 DEF ReactUserMigation, Tell
  <2>2. v \in Users
    <3>1. Link(s) \in Links
      BY <1>6, LinkType DEF ReactUserMigation, Reads
    <3>2. m \in Messages /\ m.type = "kReactUserMigation"
      BY <1>6, <3>1, ReadType DEF TypeOK, ReactUserMigation, Reads
    <3> HIDE DEF m
    <3> QED
      BY <3>2, MessageFields DEF Uuids
  <2>3. c.state = conn[v][s].state /\ c.n = conn[v][s].n
    <3> HIDE DEF m, v
    <3> QED
      BY <1>0, <2>2 DEF Connections
  <2> HIDE DEF c, v
  <2> QED
    BY <1>1, <2>1, <2>2, <2>3
<1>7. CASE UNCHANGED conn
  BY <1>7
<1>8. CASE Player
  BY <1>2, <1>3, <1>4, <1>5, <1>7, <1>8 DEF Player, HandleLoginRequest, Close, OnClose
<1>9. CASE Server
  BY <1>6, <1>7, <1>9 DEF Server, ConnectChannel, LoseLink, NotifySessionAuthorityInfo
<1>10. CASE Intermediate
  BY <1>7, <1>10 DEF Intermediate, IntermediateOnClose, EraseRegistration, HandleRegisterServer,
                     HandleRequestUserMigration, HandleReactSessionAuthorityInfo,
                     HandleNotifiyUserLogout
<1> QED
  BY <1>7, <1>8, <1>9, <1>10 DEF Next, vars

\* A request records its authority, and who asked.
LEMMA RequestIsRecorded ==
  ASSUME NEW u, NEW s, NEW kind, NEW c, RequestUserMigration(u, s, kind, c)
  PROVE  \E i : issued' = issued \union {i} /\ i.from = Uuid(u, s)
<1> DEFINE new == [clock |-> clock + 1, target |-> kind, account |-> AccountOf[u],
                   address |-> AddressOf[u], from |-> Uuid(u, s)]
<1>1. issued' = issued \union {new}
  BY DEF RequestUserMigration
<1>2. new.from = Uuid(u, s)
  OBVIOUS
<1> HIDE DEF new
<1> QED
  BY <1>1, <1>2

\* A lobby asks for a migration only for a connection in kConfirm, which it leaves that state.
LEMMA SelectionChange ==
  ASSUME TypeOK, [Next]_vars, NEW u \in Users, NEW d \in Lobbies
  PROVE  \/ Asked(u, d)' = {i \in issued : i.from = Uuid(u, d)'}
         \/ /\ conn[u][d].state = "kConfirm" /\ conn'[u][d].state # "kConfirm"
            /\ conn'[u][d].n = conn[u][d].n /\ UNCHANGED admitted
            /\ \E i : i.from = Uuid(u, d) /\ issued' = issued \union {i}
<1>0. d \in Servers /\ d # Login
  BY MigrationAssumption DEF Servers, Targets
<1>1. CASE UNCHANGED issued
  BY <1>1 DEF Asked
<1>2. ASSUME NEW v \in Users, NEW s \in Servers, NEW i, issued' = issued \union {i},
             i.from = Uuid(v, s), v # u \/ s # d
      PROVE  Asked(u, d)' = {j \in issued : j.from = Uuid(u, d)'}
  <2>1. Uuid(u, d)'.user = u /\ Uuid(u, d)'.server = d /\ i.from.user = v /\ i.from.server = s
    BY <1>2 DEF Uuid
  <2>2. i.from # Uuid(u, d)'
    BY <1>2, <2>1
  <2> QED
    BY <1>2, <2>2 DEF Asked
<1>3. ASSUME NEW v \in Users, HandleLoginRequest(v)
      PROVE  \E i : issued' = issued \union {i} /\ i.from = Uuid(v, Login)
  BY <1>3, RequestIsRecorded DEF HandleLoginRequest
<1>4. ASSUME NEW v \in Users, NEW e \in Lobbies, HandleCharacterSelectRequest(v, e), issued' # issued
      PROVE  /\ \E i : issued' = issued \union {i} /\ i.from = Uuid(v, e)
             /\ conn[v][e].state = "kConfirm" /\ conn' = [conn EXCEPT ![v][e].state = "kReserveToMigrate"]
             /\ UNCHANGED admitted
  <2>1. PICK c \in Cids : /\ RequestUserMigration(v, e, "kZoneServer", c)
                          /\ conn' = [conn EXCEPT ![v][e].state = "kReserveToMigrate"]
    BY <1>4 DEF HandleCharacterSelectRequest
  <2>2. conn[v][e].state = "kConfirm" /\ UNCHANGED admitted
    BY <1>4 DEF HandleCharacterSelectRequest
  <2> QED
    BY <2>1, <2>2, RequestIsRecorded
<1>5. ASSUME HandleCharacterSelectRequest(u, d), issued' # issued
      PROVE  /\ conn[u][d].state = "kConfirm" /\ conn'[u][d].state # "kConfirm"
             /\ conn'[u][d].n = conn[u][d].n /\ UNCHANGED admitted
             /\ \E i : i.from = Uuid(u, d) /\ issued' = issued \union {i}
  <2>1. conn[u][d] \in Connections
    BY <1>0 DEF TypeOK
  <2>2. conn'[u][d] = [conn[u][d] EXCEPT !.state = "kReserveToMigrate"]
    BY <1>0, <1>4, <1>5 DEF TypeOK
  <2> QED
    BY <1>4, <1>5, <2>1, <2>2 DEF Connections
<1>6. ASSUME issued' # issued
      PROVE  \/ \E v \in Users : HandleLoginRequest(v)
             \/ \E v \in Users, e \in Lobbies : HandleCharacterSelectRequest(v, e)
  <2>1. CASE Intermediate
    BY <1>6, <2>1 DEF Intermediate, IntermediateOnClose, EraseRegistration, HandleRegisterServer, history,
                HandleRequestUserMigration, HandleReactSessionAuthorityInfo, HandleNotifiyUserLogout
  <2>2. CASE Server
    BY <1>6, <2>2 DEF Server, ConnectChannel, LoseLink, ReactUserMigation, NotifySessionAuthorityInfo,
                history
  <2>3. CASE Player
    BY <1>6, <2>3 DEF Player, OnActive, Close, OnClose, HandleConfirmRequest, history
  <2> QED
    BY <1>6, <2>1, <2>2, <2>3 DEF Next, vars
<1>7. Login \in Servers /\ Lobbies \subseteq Servers
  BY DEF Servers, Targets
<1> QED
  BY <1>0, <1>1, <1>2, <1>3, <1>4, <1>5, <1>6, <1>7

\* Every step keeps it.
LEMMA SelectionInvStep ==
  ASSUME AdmissionInv, NeverCopied, SelectionInv, [Next]_vars
  PROVE  SelectionInv'
<1>0. TypeOK
  BY DEF AdmissionInv
<1>1. (issued' = issued \/ \E i : issued' = issued \union {i})
      /\ (admitted' = admitted \/ \E a : admitted' = admitted \union {a})
  BY HistoryChange, RequestIsRecorded DEF ConsumeAuthority
<1>2. IsFiniteSet(issued') /\ IsFiniteSet(admitted')
  BY <1>1, FS_AddElement DEF SelectionInv
<1>3. \A u \in Users, s \in Servers :
          conn[u][s].n \in Nat /\ conn'[u][s].n \in Nat /\ conn[u][s].n <= conn'[u][s].n
  <2> SUFFICES ASSUME NEW u \in Users, NEW s \in Servers
               PROVE  conn[u][s].n \in Nat /\ conn'[u][s].n \in Nat /\ conn[u][s].n <= conn'[u][s].n
    OBVIOUS
  <2>1. conn[u][s].n \in Nat
    BY <1>0, MigrationAssumption DEF TypeOK, Connections
  <2>2. conn'[u][s].n = conn[u][s].n \/ conn'[u][s].n = conn[u][s].n + 1
    BY <1>0, ConnectionChange
  <2> QED
    BY <2>1, <2>2
<1>4. \A i \in issued' : i.from.n <= conn'[i.from.user][i.from.server].n
  <2> SUFFICES ASSUME NEW i \in issued' PROVE i.from.n <= conn'[i.from.user][i.from.server].n
    OBVIOUS
  <2>0. i.from \in Uuids
    BY <1>0, StepType DEF TypeOK, Issues
  <2>1. i.from.user \in Users /\ i.from.server \in Servers /\ i.from.n \in Nat
    BY <2>0, MigrationAssumption DEF Uuids
  <2>2. i.from.n <= conn[i.from.user][i.from.server].n
    <3>1. CASE i \in issued
      BY <3>1 DEF SelectionInv
    <3>2. CASE i \notin issued
      <4>1. \E u, s : i.from = Uuid(u, s)
        BY <3>2, HistoryChange, RequestIsRecorded
      <4> QED
        BY <1>3, <2>1, <4>1 DEF Uuid
    <3> QED
      BY <3>1, <3>2
  <2> QED
    BY <1>3, <2>1, <2>2
<1>5. \A a \in admitted' : a.uuid.n <= conn'[a.uuid.user][a.uuid.server].n
  <2> SUFFICES ASSUME NEW a \in admitted' PROVE a.uuid.n <= conn'[a.uuid.user][a.uuid.server].n
    OBVIOUS
  <2>0. a.uuid \in Uuids
    BY <1>0, StepType DEF TypeOK, Admissions
  <2>1. a.uuid.user \in Users /\ a.uuid.server \in Servers /\ a.uuid.n \in Nat
    BY <2>0, MigrationAssumption DEF Uuids
  <2>2. a.uuid.n <= conn[a.uuid.user][a.uuid.server].n
    <3>1. CASE a \in admitted
      BY <3>1 DEF SelectionInv
    <3>2. CASE a \notin admitted
      <4>1. \E u, s : a.uuid = Uuid(u, s)
        BY <3>2, HistoryChange DEF ConsumeAuthority
      <4> QED
        BY <1>3, <2>1, <4>1 DEF Uuid
    <3> QED
      BY <3>1, <3>2
  <2> QED
    BY <1>3, <2>1, <2>2
<1>6. ASSUME NEW u \in Users, NEW d \in Lobbies
      PROVE  /\ Cardinality(Asked(u, d)') <= Cardinality(Admitted(u, d)')
             /\ conn'[u][d].state = "kConfirm" =>
                    Cardinality(Asked(u, d)') + 1 <= Cardinality(Admitted(u, d)')
  <2> DEFINE uuid == Uuid(u, d)
             new == [clock |-> authority_map[d][AccountOf[u]].clock, uuid |-> uuid]
  <2>0. d \in Servers /\ d \in Targets
    BY DEF Servers, Targets
  <2>1. /\ Cardinality(Asked(u, d)) <= Cardinality(Admitted(u, d))
        /\ conn[u][d].state = "kConfirm" => Cardinality(Asked(u, d)) + 1 <= Cardinality(Admitted(u, d))
    BY DEF SelectionInv
  <2>2. /\ IsFiniteSet(Asked(u, d)) /\ IsFiniteSet(Asked(u, d)')
        /\ IsFiniteSet(Admitted(u, d)) /\ IsFiniteSet(Admitted(u, d)')
    BY <1>2, FS_Subset DEF SelectionInv, Asked, Admitted
  <2>3. /\ Cardinality(Asked(u, d)) \in Nat /\ Cardinality(Asked(u, d)') \in Nat
        /\ Cardinality(Admitted(u, d)) \in Nat /\ Cardinality(Admitted(u, d)') \in Nat
    BY <2>2, FS_CardinalityType
  <2>4. CASE conn'[u][d].n = conn[u][d].n + 1 /\ conn'[u][d].state = "kNotConfirm"
    <3>1. Uuid(u, d)'.n = conn[u][d].n + 1 /\ Uuid(u, d)'.user = u /\ Uuid(u, d)'.server = d
      BY <2>4 DEF Uuid
    <3>2. \A i \in issued : i.from # Uuid(u, d)'
      BY <1>3, <2>0, <3>1 DEF SelectionInv
    <3>3. Asked(u, d)' = {}
      BY <1>3, <2>0, <2>4, <3>2, <1>0, SelectionChange
    <3> QED
      BY <2>3, <2>4, <3>3, FS_EmptySet
  <2>5. CASE conn'[u][d].n = conn[u][d].n
    <3>1. Uuid(u, d)' = uuid
      BY <2>5 DEF Uuid
    <3> HIDE DEF uuid
    <3>2. Admitted(u, d)' = {a \in admitted' : a.uuid = uuid} /\ Admitted(u, d) = {a \in admitted : a.uuid = uuid}
      BY <3>1 DEF Admitted, uuid
    <3>3. Asked(u, d) = {i \in issued : i.from = uuid} /\ Asked(u, d)' = {i \in issued' : i.from = uuid}
      BY <3>1 DEF Asked, uuid
    <3>4. Cardinality(Admitted(u, d)) <= Cardinality(Admitted(u, d)')
      <4>1. Admitted(u, d) \subseteq Admitted(u, d)'
        BY <1>0, <3>2, HistoryGrows
      <4> QED
        BY <2>2, <4>1, FS_Subset
    <3>5. CASE /\ conn[u][d].state = "kConfirm" /\ conn'[u][d].state # "kConfirm"
               /\ \E i : i.from = uuid /\ issued' = issued \union {i}
      <4>1. PICK i : issued' = issued \union {i}
        BY <3>5
      <4>2. Asked(u, d)' \subseteq Asked(u, d) \union {i} /\ Asked(u, d) \subseteq Asked(u, d)'
        BY <3>3, <4>1
      <4>3. Cardinality(Asked(u, d)') <= Cardinality(Asked(u, d)) + 1
        BY <2>2, <2>3, <4>2, OneMore
      <4> QED
        BY <2>1, <2>3, <3>4, <3>5, <4>3
    <3>6. CASE Asked(u, d)' = Asked(u, d) /\ conn'[u][d].state \in {conn[u][d].state, "kReserveToMigrate"}
      BY <2>1, <2>3, <3>4, <3>6
    <3>7. CASE Asked(u, d)' = Asked(u, d) /\ HasAuthority(u, d) /\ ConsumeAuthority(u, d)
      <4>1. new \notin admitted
        BY <2>0, <3>7, ConsumedIsUnused
      <4>2. admitted' = admitted \union {new} /\ new.uuid = uuid
        BY <3>7 DEF ConsumeAuthority, uuid
      <4> HIDE DEF new
      <4>3. /\ Admitted(u, d)' \subseteq Admitted(u, d) \union {new} /\ Admitted(u, d) \subseteq Admitted(u, d)'
            /\ new \in Admitted(u, d)' /\ new \notin Admitted(u, d)
        BY <3>2, <4>1, <4>2
      <4>4. Cardinality(Admitted(u, d)') = Cardinality(Admitted(u, d)) + 1
        BY <2>2, <4>3, OneMore
      <4> QED
        BY <2>1, <2>3, <3>7, <4>4
    <3>8. \/ Asked(u, d)' = Asked(u, d)
          \/ /\ conn[u][d].state = "kConfirm" /\ conn'[u][d].state # "kConfirm"
             /\ \E i : i.from = uuid /\ issued' = issued \union {i}
      BY <1>0, <3>1, <3>3, SelectionChange DEF uuid
    <3>9. \/ conn'[u][d].state \in {conn[u][d].state, "kReserveToMigrate"}
          \/ HasAuthority(u, d) /\ ConsumeAuthority(u, d)
          \/ conn'[u][d].n = conn[u][d].n + 1
      BY <1>0, <2>0, ConnectionChange
    <3>10. conn'[u][d].n # conn[u][d].n + 1
      BY <1>3, <2>0, <2>5
    <3> QED
      BY <3>5, <3>6, <3>7, <3>8, <3>9, <3>10
  <2> QED
    BY <1>0, <2>0, <2>4, <2>5, ConnectionChange
<1> QED
  BY <1>2, <1>4, <1>5, <1>6 DEF SelectionInv

\* A lobby connection, however often it is confirmed, and however its player repeats a selection,
\* asks for a zone at most once for each authority that admitted it (HandleCharacterSelectRequest).
THEOREM SelectionsAreEarned == Spec => []SelectionsPerAdmission
<1>1. Init => AdmissionInv /\ NeverCopied /\ SelectionInv
  <2> SUFFICES ASSUME Init PROVE SelectionInv
    BY InitAdmission, InitNeverCopied
  <2>1. issued = {} /\ admitted = {} /\ \A u \in Users, d \in Lobbies : conn[u][d].state = "kNotConfirm"
    BY DEF Init, Servers, Targets
  <2>2. \A u \in Users, d \in Lobbies : Asked(u, d) = {} /\ Admitted(u, d) = {}
    BY <2>1 DEF Asked, Admitted
  <2>3. IsFiniteSet(issued) /\ IsFiniteSet(admitted)
    BY <2>1, FS_EmptySet
  <2>4. \A u \in Users, d \in Lobbies : Cardinality(Asked(u, d)) = 0 /\ Cardinality(Admitted(u, d)) = 0
    BY <2>2, FS_EmptySet
  <2> QED
    BY <2>1, <2>3, <2>4 DEF SelectionInv
<1>2. AdmissionInv /\ NeverCopied /\ SelectionInv /\ [Next]_vars
          => AdmissionInv' /\ NeverCopied' /\ SelectionInv'
  BY AdmissionInvStep, NeverCopiedStep, SelectionInvStep
<1>3. SelectionInv => SelectionsPerAdmission
  BY DEF SelectionInv, SelectionsPerAdmission, Asked, Admitted
<1> QED
  BY <1>1, <1>2, <1>3, PTL DEF Spec

-----------------------------------------------------------------------------
(* Players are told where to go once they may.                             *)

\* Target d has held an authority for the account since it was notified, or has used one.
GrantedTo(d, account) ==
    /\ d \in Targets
    /\ \/ authority_map[d][account] # NoInfo
       \/ \E a \in admitted : a.uuid.server = d /\ AccountOf[a.uuid.user] = account

\* An authority names the account of the player it is for; a target's reaction, and the answer made
\* of it, follow the authority.
UpIsRight(x, m) ==
    /\ m.type = "kRequestUserMigration" => m.info.id = AccountOf[m.user.user]
    /\ m.type = "kReactSessionAuthorityInfo" => GrantedTo(x.server, AccountOf[m.user.user])
DownIsRight(m) ==
    /\ m.type = "kNotifySessionAuthorityInfo" => m.info.id = AccountOf[m.user.user]
    /\ m.type = "kReactUserMigation" => GrantedTo(m.dest, AccountOf[m.user.user])

ToldInv ==
    /\ \A x \in Links : \A j \in DOMAIN up[x] : UpIsRight(x, up[x][j])
    /\ \A x \in Links : \A j \in DOMAIN down[x] : DownIsRight(down[x][j])
    /\ \A u \in Users, s \in Servers : \A d \in conn[u][s].told : GrantedTo(d, AccountOf[u])

\* An entry goes only when it admits a connection of its account.
LEMMA GrantedStays ==
  ASSUME TypeOK, [Next]_vars, NEW d, NEW account \in Accounts, GrantedTo(d, account)
  PROVE  GrantedTo(d, account)'
<1>0. d \in Targets
  BY DEF GrantedTo
<1>1. ASSUME NEW a \in admitted, a.uuid.server = d /\ AccountOf[a.uuid.user] = account
      PROVE  GrantedTo(d, account)'
  BY <1>0, <1>1, HistoryGrows DEF GrantedTo
<1>2. CASE authority_map[d][account] # NoInfo /\ authority_map'[d][account] # NoInfo
  BY <1>0, <1>2 DEF GrantedTo
<1>3. CASE authority_map[d][account] # NoInfo /\ authority_map'[d][account] = NoInfo
  <2>1. ~\E e \in Targets : NotifySessionAuthorityInfo(e)
    <3> SUFFICES ASSUME NEW e \in Targets, NotifySessionAuthorityInfo(e) PROVE FALSE
      OBVIOUS
    <3> DEFINE info == Head(down[Link(e)]).info
    <3>1. authority_map' = Emplace(e, info)
      BY DEF NotifySessionAuthorityInfo
    <3> HIDE DEF info
    <3>2. authority_map'[d][account] = authority_map[d][account]
      BY <1>0, <1>3, <3>1 DEF TypeOK, Emplace
    <3> QED
      BY <1>3, <3>2
  <2>2. PICK u \in Users, e \in Targets : HasAuthority(u, e) /\ ConsumeAuthority(u, e)
    BY <1>3, <2>1, AuthorityChange
  <2>3. authority_map' = [authority_map EXCEPT ![e][AccountOf[u]] = NoInfo]
    BY <2>2 DEF ConsumeAuthority
  <2>4. e = d /\ AccountOf[u] = account
    BY <1>0, <1>3, <2>3 DEF TypeOK
  <2> DEFINE a == [clock |-> authority_map[e][AccountOf[u]].clock, uuid |-> Uuid(u, e)]
  <2>5. a \in admitted' /\ a.uuid.server = d /\ AccountOf[a.uuid.user] = account
    BY <2>2, <2>4 DEF ConsumeAuthority, Uuid
  <2> HIDE DEF a
  <2> QED
    BY <1>0, <2>5 DEF GrantedTo
<1> QED
  BY <1>1, <1>2, <1>3 DEF GrantedTo

\* A packet that was right stays right.
LEMMA RightStays ==
  ASSUME TypeOK, [Next]_vars, NEW m \in Messages, NEW x
  PROVE  (UpIsRight(x, m) => UpIsRight(x, m)') /\ (DownIsRight(m) => DownIsRight(m)')
<1>1. m.type \in {"kReactSessionAuthorityInfo", "kReactUserMigation"} => AccountOf[m.user.user] \in Accounts
  BY MessageFields, MigrationAssumption DEF Uuids
<1> QED
  BY <1>1, GrantedStays DEF UpIsRight, DownIsRight

\* What a login or a selection sends names the player's account.
LEMMA RequestIsRight ==
  ASSUME TypeOK, NEW u \in Users, NEW s \in Servers, NEW kind \in Kinds,
         NEW c \in Cids \union {NoCid}, RequestUserMigration(u, s, kind, c)
  PROVE  \E m \in Messages : /\ up' = SendUp(up, s, m) /\ m.type = "kRequestUserMigration"
                             /\ m.info.id = AccountOf[m.user.user]
<1> DEFINE info == [clock |-> clock + 1, ip |-> AddressOf[u], id |-> AccountOf[u], cid |-> c]
           m == [type |-> "kRequestUserMigration", target |-> kind, user |-> Uuid(u, s), info |-> info]
<1>1. m \in Messages
  <2>1. Uuid(u, s) \in Uuids
    BY UuidType
  <2>2. clock + 1 \in 1..MaxClock
    BY MigrationAssumption DEF TypeOK, RequestUserMigration
  <2>3. AccountOf[u] \in Accounts /\ AddressOf[u] \in Addresses
    BY MigrationAssumption DEF Addresses
  <2> QED
    BY <2>1, <2>2, <2>3 DEF Messages, Infos
<1>2. up' = SendUp(up, s, m)
  BY DEF RequestUserMigration
<1>3. m.type = "kRequestUserMigration" /\ m.info.id = AccountOf[m.user.user]
  BY DEF Uuid
<1> HIDE DEF m
<1> QED
  BY <1>1, <1>2, <1>3

\* Packets from the servers stay right.
LEMMA UpStaysRight ==
  ASSUME TypeOK, ToldInv, [Next]_vars, NEW x \in Links, NEW j \in DOMAIN up'[x]
  PROVE  UpIsRight(x, up[x][j])'
<1>0. up[x] \in Seq(Messages)
  BY DEF TypeOK
<1>1. ASSUME NEW i \in DOMAIN up[x], up'[x][j] = up[x][i]
      PROVE  UpIsRight(x, up[x][j])'
  <2>1. up[x][i] \in Messages /\ UpIsRight(x, up[x][i])
    BY <1>0 DEF ToldInv
  <2> QED
    BY <1>1, <2>1, RightStays DEF UpIsRight
<1>2. CASE UNCHANGED up
  BY <1>1, <1>2
<1>3. ASSUME NEW y \in client_storage, up[y] # <<>>, up' = [up EXCEPT ![y] = Tail(@)]
      PROVE  UpIsRight(x, up[x][j])'
  <2>1. \E i \in DOMAIN up[x] : up'[x][j] = up[x][i]
    <3>1. CASE x = y
      BY <1>0, <1>3, <3>1, TailCarries DEF TypeOK
    <3>2. CASE x # y
      BY <1>3, <3>2 DEF TypeOK
    <3> QED
      BY <3>1, <3>2
  <2> QED
    BY <1>1, <2>1
<1>4. ASSUME NEW s \in Servers, NEW m \in Messages, up' = SendUp(up, s, m), UpIsRight(Link(s), m)'
      PROVE  UpIsRight(x, up[x][j])'
  <2>1. (x = Link(s) /\ up'[x][j] = m) \/ (\E i \in DOMAIN up[x] : up'[x][j] = up[x][i])
    BY <1>4, SendUpCarries
  <2>2. x = Link(s) /\ up'[x][j] = m => UpIsRight(x, up[x][j])'
    <3>1. Link(s)'.server = Link(s).server
      BY DEF Link
    <3> QED
      BY <1>4, <3>1 DEF UpIsRight
  <2> QED
    BY <1>1, <2>1, <2>2
<1>5. CASE UNCHANGED vars
  BY <1>2, <1>5 DEF vars
<1>6. CASE Intermediate
  <2> PICK y \in client_storage \union erasing :
        \/ IntermediateOnClose(y)
        \/ EraseRegistration(y)
        \/ HandleRegisterServer(y)
        \/ HandleRequestUserMigration(y)
        \/ HandleReactSessionAuthorityInfo(y)
        \/ HandleNotifiyUserLogout(y)
    BY <1>6 DEF Intermediate
  <2>1. CASE IntermediateOnClose(y)
    <3>1. x # y
      BY <2>1 DEF TypeOK, IntermediateOnClose
    <3>2. up'[x] = up[x]
      BY <2>1, <3>1 DEF TypeOK, IntermediateOnClose
    <3> QED
      BY <1>1, <3>2
  <2>2. CASE EraseRegistration(y)
    BY <1>2, <2>2 DEF EraseRegistration
  <2>3. CASE ~IntermediateOnClose(y) /\ ~EraseRegistration(y)
    BY <1>3, <2>3 DEF HandleRegisterServer, HandleRequestUserMigration,
                      HandleReactSessionAuthorityInfo, HandleNotifiyUserLogout, Receives
  <2> QED
    BY <2>1, <2>2, <2>3
<1>7. CASE Server
  <2>1. ASSUME NEW s \in Servers, ConnectChannel(s)
        PROVE  UpIsRight(x, up[x][j])'
    <3>1. up'[x] = up[x] \/ up'[x] = <<[type |-> "kRegisterRemoteServer"]>>
      BY <2>1 DEF TypeOK, ConnectChannel
    <3>2. up'[x] = <<[type |-> "kRegisterRemoteServer"]>> => up'[x][j].type = "kRegisterRemoteServer"
      OBVIOUS
    <3> QED
      BY <1>1, <3>1, <3>2 DEF UpIsRight
  <2>2. ASSUME NEW s \in Servers, LoseLink(s) \/ ReactUserMigation(s)
        PROVE  UpIsRight(x, up[x][j])'
    BY <1>2, <2>2 DEF LoseLink, ReactUserMigation
  <2>3. ASSUME NEW d \in Targets, NotifySessionAuthorityInfo(d)
        PROVE  UpIsRight(x, up[x][j])'
    <3>0. d \in Servers /\ Link(d).server = d /\ Link(d)'.server = d
      BY DEF Servers, Link
    <3>1. Link(d) \in Links /\ down[Link(d)] \in Seq(Messages) /\ down[Link(d)] # <<>>
      BY <2>3, <3>0, LinkType DEF TypeOK, NotifySessionAuthorityInfo, Reads
    <3>2. PICK n \in Messages : n = Head(down[Link(d)]) /\ n.type = "kNotifySessionAuthorityInfo"
      BY <2>3, <3>1 DEF NotifySessionAuthorityInfo, Reads
    <3>3. DownIsRight(n)
      <4>1. 1 \in DOMAIN down[Link(d)] /\ down[Link(d)][1] = n
        BY <3>1, <3>2
      <4> QED
        BY <3>1, <4>1 DEF ToldInv
    <3>4. /\ n.server \in Links /\ n.user \in Uuids /\ n.info \in Infos
          /\ n.info.id \in Accounts /\ n.info.id = AccountOf[n.user.user]
      BY <3>2, <3>3, MessageFields DEF DownIsRight, Infos
    <3>5. PICK react \in Messages : react = [type |-> "kReactSessionAuthorityInfo",
                                             server |-> n.server, user |-> n.user]
      BY <3>4 DEF Messages
    <3>6. up' = SendUp(up, d, react) /\ authority_map' = Emplace(d, n.info)
      BY <2>3, <3>2, <3>5 DEF NotifySessionAuthorityInfo
    <3>7. authority_map'[d][n.info.id] # NoInfo
      BY <3>4, <3>6, NoInfoIsNone DEF TypeOK, Emplace
    <3>8. react.type = "kReactSessionAuthorityInfo" /\ react.user = n.user
      BY <3>5
    <3>9. GrantedTo(d, AccountOf[n.user.user])'
      BY <3>4, <3>7 DEF GrantedTo
    <3>10. UpIsRight(Link(d), react)'
      BY <3>0, <3>8, <3>9 DEF UpIsRight
    <3> QED
      BY <1>4, <3>0, <3>6, <3>10
  <2> QED
    BY <1>7, <2>1, <2>2, <2>3 DEF Server
<1>8. CASE Player
  <2>1. ASSUME NEW u \in Users, NEW s \in Servers, OnClose(u, s)
        PROVE  UpIsRight(x, up[x][j])'
    <3> DEFINE logout == [type |-> "kNotifyUserLogout", id |-> AccountOf[u]]
    <3>1. logout \in Messages /\ logout.type = "kNotifyUserLogout"
      BY MigrationAssumption DEF Messages
    <3>2. UNCHANGED up \/ up' = SendUp(up, s, logout)
      BY <2>1 DEF OnClose
    <3> HIDE DEF logout
    <3>3. UpIsRight(Link(s), logout)'
      BY <3>1 DEF UpIsRight
    <3> QED
      BY <1>2, <1>4, <3>1, <3>2, <3>3
  <2>2. ASSUME NEW u \in Users, NEW s \in Servers, NEW kind \in Kinds, NEW c \in Cids \union {NoCid},
               RequestUserMigration(u, s, kind, c)
        PROVE  UpIsRight(x, up[x][j])'
    <3>1. PICK m \in Messages : /\ up' = SendUp(up, s, m) /\ m.type = "kRequestUserMigration"
                               /\ m.info.id = AccountOf[m.user.user]
      BY <2>2, RequestIsRight
    <3>2. UpIsRight(Link(s), m)'
      BY <3>1 DEF UpIsRight
    <3> QED
      BY <1>4, <3>1, <3>2
  <2>3. ASSUME NEW u \in Users, HandleLoginRequest(u)
        PROVE  UpIsRight(x, up[x][j])'
    BY <2>2, <2>3 DEF HandleLoginRequest, Servers, Kinds
  <2>4. ASSUME NEW u \in Users, NEW d \in Lobbies, HandleCharacterSelectRequest(u, d)
        PROVE  UpIsRight(x, up[x][j])'
    BY <1>2, <2>2, <2>4 DEF HandleCharacterSelectRequest, Servers, Targets, Kinds
  <2> QED
    BY <1>2, <1>8, <2>1, <2>3, <2>4 DEF Player, OnActive, Close, HandleConfirmRequest
<1> QED
  BY <1>5, <1>6, <1>7, <1>8 DEF Next

\* Packets from the intermediate server stay right.
LEMMA DownStaysRight ==
  ASSUME TypeOK, ToldInv, [Next]_vars, NEW x \in Links, NEW j \in DOMAIN down'[x]
  PROVE  DownIsRight(down[x][j])'
<1>0. down[x] \in Seq(Messages)
  BY DEF TypeOK
<1>1. ASSUME NEW i \in DOMAIN down[x], down'[x][j] = down[x][i]
      PROVE  DownIsRight(down[x][j])'
  <2>1. down[x][i] \in Messages /\ DownIsRight(down[x][i])
    BY <1>0 DEF ToldInv
  <2> QED
    BY <1>1, <2>1, RightStays DEF DownIsRight
<1>2. CASE UNCHANGED down
  BY <1>1, <1>2
<1>3. ASSUME NEW y \in Links, down[y] # <<>>, down' = [down EXCEPT ![y] = Tail(@)]
      PROVE  DownIsRight(down[x][j])'
  <2>1. \E i \in DOMAIN down[x] : down'[x][j] = down[x][i]
    <3>1. CASE x = y
      BY <1>0, <1>3, <3>1, TailCarries DEF TypeOK
    <3>2. CASE x # y
      BY <1>3, <3>2 DEF TypeOK
    <3> QED
      BY <3>1, <3>2
  <2> QED
    BY <1>1, <2>1
<1>4. ASSUME NEW y \in Links, NEW m \in Messages, down' = SendDown(y, m), DownIsRight(m)
      PROVE  DownIsRight(down[x][j])'
  <2>1. down'[x][j] = m \/ \E i \in DOMAIN down[x] : down'[x][j] = down[x][i]
    BY <1>4, SendDownCarries
  <2>2. DownIsRight(m)'
    BY <1>4, RightStays
  <2> QED
    BY <1>1, <2>1, <2>2 DEF DownIsRight
<1>5. CASE UNCHANGED vars
  BY <1>2, <1>5 DEF vars
<1>6. CASE Intermediate
  <2> PICK z \in client_storage \union erasing :
        \/ IntermediateOnClose(z)
        \/ EraseRegistration(z)
        \/ HandleRegisterServer(z)
        \/ HandleRequestUserMigration(z)
        \/ HandleReactSessionAuthorityInfo(z)
        \/ HandleNotifiyUserLogout(z)
    BY <1>6 DEF Intermediate
  <2>0. z \in Links /\ up[z] \in Seq(Messages)
    BY DEF TypeOK
  <2> DEFINE m == Head(up[z])
  <2>1. ASSUME up[z] # <<>>
        PROVE  m \in Messages /\ UpIsRight(z, m)
    <3>1. 1 \in DOMAIN up[z] /\ up[z][1] = m
      BY <2>0, <2>1
    <3>2. m \in Messages
      BY <2>0, <2>1
    <3> HIDE DEF m
    <3> QED
      BY <2>0, <3>1, <3>2 DEF ToldInv
  <2>2. CASE HandleRequestUserMigration(z)
    <3> DEFINE notify == [type |-> "kNotifySessionAuthorityInfo", server |-> z, user |-> m.user,
                          info |-> m.info]
    <3>1. up[z] # <<>> /\ m.type = "kRequestUserMigration"
      BY <2>2 DEF HandleRequestUserMigration, Receives
    <3>2. m.info.id = AccountOf[m.user.user] /\ m.user \in Uuids /\ m.info \in Infos
      <4> HIDE DEF m
      <4> QED
        BY <2>1, <3>1, MessageFields DEF UpIsRight
    <3>3. UNCHANGED down \/ \E y \in server_map : down' = SendDown(y, notify)
      BY <2>2 DEF HandleRequestUserMigration, GetServerLoadBalance
    <3> HIDE DEF m
    <3>4. notify \in Messages /\ DownIsRight(notify)
      BY <2>0, <3>2 DEF Messages, DownIsRight
    <3> HIDE DEF notify
    <3> QED
      BY <1>2, <1>4, <3>3, <3>4 DEF TypeOK
  <2>3. CASE HandleReactSessionAuthorityInfo(z)
    <3> DEFINE react == [type |-> "kReactUserMigation", user |-> m.user, dest |-> z.server]
    <3>1. up[z] # <<>> /\ m.type = "kReactSessionAuthorityInfo"
      BY <2>3 DEF HandleReactSessionAuthorityInfo, Receives
    <3>2. GrantedTo(z.server, AccountOf[m.user.user]) /\ m.user \in Uuids /\ m.server \in Links
      <4> HIDE DEF m
      <4> QED
        BY <2>1, <3>1, MessageFields DEF UpIsRight
    <3>3. UNCHANGED down \/ down' = SendDown(m.server, react)
      BY <2>3 DEF HandleReactSessionAuthorityInfo
    <3> HIDE DEF m
    <3>4. react \in Messages /\ DownIsRight(react)
      BY <2>0, <3>2 DEF Messages, DownIsRight, Links
    <3> HIDE DEF react
    <3> QED
      BY <1>2, <1>4, <3>2, <3>3, <3>4
  <2> QED
    BY <1>2, <2>2, <2>3 DEF IntermediateOnClose, EraseRegistration, HandleRegisterServer,
                            HandleNotifiyUserLogout
<1>7. CASE Server
  <2>1. ASSUME NEW s \in Servers, LoseLink(s)
        PROVE  DownIsRight(down[x][j])'
    <3>1. down'[x] = down[x] \/ down'[x] = <<>>
      BY <2>1 DEF TypeOK, LoseLink
    <3> QED
      BY <1>1, <3>1
  <2>2. ASSUME NEW s \in Servers, Reads(s, "kReactUserMigation") \/ Reads(s, "kNotifySessionAuthorityInfo"),
               down' = [down EXCEPT ![Link(s)] = Tail(@)]
        PROVE  DownIsRight(down[x][j])'
    <3>1. Link(s) \in Links
      BY <2>2, LinkType DEF Reads
    <3> QED
      BY <1>3, <2>2, <3>1 DEF Reads
  <2>3. Targets \subseteq Servers
    BY DEF Servers
  <2> QED
    BY <1>2, <1>7, <2>1, <2>2, <2>3 DEF Server, ConnectChannel, ReactUserMigation, NotifySessionAuthorityInfo
<1>8. CASE Player
  BY <1>2, <1>8 DEF Player, OnActive, Close, OnClose, HandleLoginRequest, HandleConfirmRequest,
                    HandleCharacterSelectRequest
<1> QED
  BY <1>5, <1>6, <1>7, <1>8 DEF Next

\* A player learns of a server only from a kReactUserMigation.
LEMMA ToldChange ==
  ASSUME TypeOK, [Next]_vars, NEW u \in Users, NEW s \in Servers, NEW d \in conn'[u][s].told
  PROVE  \/ d \in conn[u][s].told
         \/ /\ ReactUserMigation(s) /\ Head(down[Link(s)]).user.user = u
            /\ Head(down[Link(s)]).dest = d
<1>0. \A v \in Users, t \in Servers : conn[v][t] \in Connections
  BY DEF TypeOK
<1>1. ASSUME NEW v \in Users, NEW t \in Servers, NEW c, conn' = [conn EXCEPT ![v][t] = c],
             c.told \subseteq conn[v][t].told
      PROVE  d \in conn[u][s].told
  <2>1. conn'[u][s] = conn[u][s] \/ (v = u /\ t = s /\ conn'[u][s] = c)
    BY <1>1 DEF TypeOK
  <2> QED
    BY <1>1, <2>1
<1>2. ASSUME NEW v \in Users, NEW t \in Servers, OnActive(v, t)
      PROVE  d \in conn[u][s].told
  <2> DEFINE c == [n |-> conn[v][t].n + 1, step |-> "open", state |-> "kNotConfirm", told |-> {}]
  <2>1. conn' = [conn EXCEPT ![v][t] = c]
    BY <1>2 DEF OnActive
  <2>2. c.told \subseteq conn[v][t].told
    OBVIOUS
  <2> HIDE DEF c
  <2> QED
    BY <1>1, <2>1, <2>2
<1>3. ASSUME NEW v \in Users, NEW t \in Servers, NEW step, NEW state,
             \/ conn' = [conn EXCEPT ![v][t].step = step]
             \/ conn' = [conn EXCEPT ![v][t].state = state]
             \/ conn' = [conn EXCEPT ![v][t].state = state, ![v][t].step = step]
      PROVE  d \in conn[u][s].told
  <2> DEFINE c1 == [conn[v][t] EXCEPT !.step = step]
             c2 == [conn[v][t] EXCEPT !.state = state]
             c3 == [c2 EXCEPT !.step = step]
  <2>1. c1.told = conn[v][t].told /\ c2.told = conn[v][t].told /\ c3.told = conn[v][t].told
    BY <1>0 DEF Connections
  <2>2. \/ conn' = [conn EXCEPT ![v][t] = c1]
        \/ conn' = [conn EXCEPT ![v][t] = c2]
        \/ conn' = [conn EXCEPT ![v][t] = c3]
    BY <1>3
  <2> HIDE DEF c1, c2, c3
  <2> QED
    BY <1>1, <2>1, <2>2
<1>3a. ASSUME NEW v \in Users, NEW t \in Servers, NEW step, conn' = [conn EXCEPT ![v][t].step = step]
      PROVE  d \in conn[u][s].told
  BY <1>3, <1>3a
<1>3b. ASSUME NEW v \in Users, NEW t \in Servers, NEW state, conn' = [conn EXCEPT ![v][t].state = state]
      PROVE  d \in conn[u][s].told
  BY <1>3, <1>3b
<1>4. ASSUME NEW t \in Servers, ReactUserMigation(t), d \notin conn[u][s].told
      PROVE  t = s /\ Head(down[Link(s)]).user.user = u /\ Head(down[Link(s)]).dest = d
  <2> DEFINE m == Head(down[Link(t)])
             v == m.user.user
             c == [conn[v][t] EXCEPT !.told = @ \union {m.dest}]
  <2>1. UNCHANGED conn \/ conn' = [conn EXCEPT ![v][t] = c]
    BY <1>4 DEF ReactUserMigation, Tell
  <2>2. v \in Users
    <3>1. Link(t) \in Links
      BY <1>4, LinkType DEF ReactUserMigation, Reads
    <3>2. m \in Messages /\ m.type = "kReactUserMigation"
      BY <1>4, <3>1, ReadType DEF TypeOK, ReactUserMigation, Reads
    <3> HIDE DEF m
    <3> QED
      BY <3>2, MessageFields DEF Uuids
  <2>3. c.told = conn[v][t].told \union {m.dest}
    <3> HIDE DEF m, v
    <3> QED
      BY <1>0, <2>2 DEF Connections
  <2> HIDE DEF c, v
  <2>4. conn'[u][s] = conn[u][s] \/ (v = u /\ t = s /\ conn'[u][s] = c)
    BY <2>1, <2>2 DEF TypeOK
  <2> QED
    BY <1>4, <2>3, <2>4 DEF v
<1>5. CASE UNCHANGED conn
  BY <1>5
<1>6. CASE Player
  <2>1. Lobbies \subseteq Servers /\ Targets \subseteq Servers
    BY DEF Servers, Targets
  <2>2. ASSUME NEW v \in Users, NEW t \in Servers, Close(v, t) \/ OnClose(v, t)
        PROVE  d \in conn[u][s].told
    BY <1>3a, <2>2 DEF Close, OnClose
  <2>3. ASSUME NEW v \in Users, NEW e \in Targets, HandleConfirmRequest(v, e)
        PROVE  d \in conn[u][s].told
    BY <1>3a, <1>3b, <2>1, <2>3 DEF HandleConfirmRequest, ConsumeAuthority
  <2>4. ASSUME NEW v \in Users, NEW e \in Lobbies, HandleCharacterSelectRequest(v, e)
        PROVE  d \in conn[u][s].told
    BY <1>3, <1>3b, <2>1, <2>4 DEF HandleCharacterSelectRequest
  <2> QED
    BY <1>2, <1>5, <1>6, <2>2, <2>3, <2>4 DEF Player, HandleLoginRequest
<1>7. CASE Server
  BY <1>4, <1>5, <1>7 DEF Server, ConnectChannel, LoseLink, NotifySessionAuthorityInfo
<1>8. CASE Intermediate
  BY <1>5, <1>8 DEF Intermediate, IntermediateOnClose, EraseRegistration, HandleRegisterServer,
                    HandleRequestUserMigration, HandleReactSessionAuthorityInfo,
                    HandleNotifiyUserLogout
<1> QED
  BY <1>5, <1>6, <1>7, <1>8 DEF Next, vars

\* Every step keeps it.
LEMMA ToldInvStep ==
  ASSUME TypeOK, ToldInv, [Next]_vars
  PROVE  ToldInv'
<1>1. ASSUME NEW u \in Users, NEW s \in Servers, NEW d \in conn'[u][s].told
      PROVE  GrantedTo(d, AccountOf[u])'
  <2>1. GrantedTo(d, AccountOf[u])
    <3>1. CASE d \in conn[u][s].told
      BY <3>1 DEF ToldInv
    <3>2. CASE /\ ReactUserMigation(s) /\ Head(down[Link(s)]).user.user = u
               /\ Head(down[Link(s)]).dest = d
      <4> DEFINE m == Head(down[Link(s)])
      <4>1. Link(s) \in Links /\ down[Link(s)] # <<>> /\ m.type = "kReactUserMigation"
        BY <3>2, LinkType DEF ReactUserMigation, Reads
      <4>2. 1 \in DOMAIN down[Link(s)] /\ down[Link(s)][1] = m
        BY <4>1 DEF TypeOK
      <4>3. m.user.user = u /\ m.dest = d
        BY <3>2
      <4> HIDE DEF m
      <4>4. DownIsRight(m)
        BY <4>1, <4>2 DEF ToldInv
      <4> QED
        BY <4>1, <4>3, <4>4 DEF DownIsRight
    <3> QED
      BY <3>1, <3>2, ToldChange
  <2> QED
    BY <2>1, GrantedStays, MigrationAssumption
<1>2. \A x \in Links : \A j \in DOMAIN up'[x] : UpIsRight(x, up[x][j])'
  BY UpStaysRight
<1>3. \A x \in Links : \A j \in DOMAIN down'[x] : DownIsRight(down[x][j])'
  BY DownStaysRight
<1> QED
  BY <1>1, <1>2, <1>3 DEF ToldInv

\* A player is told of a server only once that server holds an authority for the player's account,
\* and it holds one until it has admitted the account: the target answers after it stored the
\* authority, and every hop of the answer follows that (NotifySessionAuthorityInfo,
\* HandleReactSessionAuthorityInfo, ReactUserMigation).
THEOREM ToldAreGranted == Spec => []ToldAfterGrant
<1>1. Init => TypeOK /\ ToldInv
  <2> SUFFICES ASSUME Init PROVE ToldInv
    BY InitType
  <2>1. /\ \A x \in Links : up[x] = <<>> /\ down[x] = <<>>
        /\ \A u \in Users, s \in Servers : conn[u][s].told = {}
    BY DEF Init
  <2> QED
    BY <2>1 DEF ToldInv
<1>2. TypeOK /\ ToldInv /\ [Next]_vars => TypeOK' /\ ToldInv'
  BY StepType, ToldInvStep
<1>3. ToldInv => ToldAfterGrant
  BY DEF ToldInv, ToldAfterGrant, GrantedTo
<1> QED
  BY <1>1, <1>2, <1>3, PTL DEF Spec

-----------------------------------------------------------------------------
(* Requests are not lost.                                                  *)

\* Every server is connected and registered, and every lost link was noticed.
Steady ==
    /\ \A s \in Servers : open[s]
    /\ server_map = {Link(s) : s \in Servers} /\ client_storage = server_map

\* Packet m on the link of server s is about the request of the connection p.
UpFor(p, s, m) ==
    \/ s = p.server /\ m.type = "kRequestUserMigration" /\ m.user = p
    \/ s \in Targets /\ m.type = "kReactSessionAuthorityInfo" /\ m.user = p /\ m.server = Link(p.server)
DownFor(p, s, m) ==
    \/ s \in Targets /\ m.type = "kNotifySessionAuthorityInfo" /\ m.user = p /\ m.server = Link(p.server)
    \/ s = p.server /\ m.type = "kReactUserMigation" /\ m.user = p
OnItsWay(p) ==
    \E s \in Servers : \/ \E j \in DOMAIN up[Link(s)] : UpFor(p, s, up[Link(s)][j])
                       \/ \E j \in DOMAIN down[Link(s)] : DownFor(p, s, down[Link(s)][j])

\* The connection p knows where to go, or is gone.
Answered(p) == LET c == conn[p.user][p.server] IN c.told # {} \/ c.step # "open" \/ c.n # p.n

\* The request that carries authority k is somewhere on its way through the cluster.
Journey(k) == Steady /\ \E i \in issued : i.clock = k /\ OnItsWay(i.from)

\* A request is for a lobby or a zone server and in the name of the connection its authority was
\* created for; the clock tells authorities apart.
AskIsRight(m) ==
    m.type = "kRequestUserMigration" =>
        /\ m.target \in {"kLobbyServer", "kZoneServer"}
        /\ \E i \in issued : i.clock = m.info.clock /\ i.from = m.user
AskInv ==
    /\ \A x \in Links : \A j \in DOMAIN up[x] : AskIsRight(up[x][j])
    /\ \A i, j \in issued : i.clock = j.clock => i = j

\* How a step changes what the servers have sent.
LEMMA UpChange ==
  ASSUME TypeOK, [Next]_vars
  PROVE  \/ UNCHANGED up
         \/ \E y \in client_storage :
               /\ up[y] # <<>> /\ up' = [up EXCEPT ![y] = Tail(@)]
               /\ \/ HandleRegisterServer(y) \/ HandleRequestUserMigration(y)
                  \/ HandleReactSessionAuthorityInfo(y) \/ HandleNotifiyUserLogout(y)
         \/ \E s \in Servers, m \in Messages : /\ up' = SendUp(up, s, m)
                                               /\ AskIsRight(m)'
         \/ \E s \in Servers : ConnectChannel(s)
         \/ \E y \in client_storage : IntermediateOnClose(y)
<1> DEFINE Sends == \E s \in Servers, m \in Messages : up' = SendUp(up, s, m) /\ AskIsRight(m)'
<1>1. CASE Intermediate
  BY <1>1 DEF Intermediate, EraseRegistration, HandleRegisterServer, HandleRequestUserMigration,
              HandleReactSessionAuthorityInfo, HandleNotifiyUserLogout, Receives
<1>2. ASSUME NEW d \in Targets, NotifySessionAuthorityInfo(d)
      PROVE  Sends
  <2>0. d \in Servers
    BY DEF Servers
  <2>1. Link(d) \in Links /\ down[Link(d)] \in Seq(Messages) /\ down[Link(d)] # <<>>
    BY <1>2, <2>0, LinkType DEF TypeOK, NotifySessionAuthorityInfo, Reads
  <2>2. PICK n \in Messages : n = Head(down[Link(d)]) /\ n.type = "kNotifySessionAuthorityInfo"
    BY <1>2, <2>1 DEF NotifySessionAuthorityInfo, Reads
  <2>3. n.server \in Links /\ n.user \in Uuids
    BY <2>2, MessageFields
  <2>4. PICK react \in Messages : react = [type |-> "kReactSessionAuthorityInfo",
                                           server |-> n.server, user |-> n.user]
    BY <2>3 DEF Messages
  <2>5. up' = SendUp(up, d, react)
    BY <1>2, <2>2, <2>4 DEF NotifySessionAuthorityInfo
  <2>6. AskIsRight(react)'
    BY <2>4 DEF AskIsRight
  <2> QED
    BY <2>0, <2>5, <2>6
<1>3. CASE Server
  BY <1>2, <1>3 DEF Server, LoseLink, ReactUserMigation
<1>4. ASSUME NEW u \in Users, NEW s \in Servers, OnClose(u, s)
      PROVE  UNCHANGED up \/ Sends
  <2> DEFINE logout == [type |-> "kNotifyUserLogout", id |-> AccountOf[u]]
  <2>1. logout \in Messages /\ logout.type = "kNotifyUserLogout"
    BY MigrationAssumption DEF Messages
  <2>2. UNCHANGED up \/ up' = SendUp(up, s, logout)
    BY <1>4 DEF OnClose
  <2> HIDE DEF logout
  <2>3. AskIsRight(logout)'
    BY <2>1 DEF AskIsRight
  <2> QED
    BY <2>1, <2>2, <2>3
<1>5. ASSUME NEW u \in Users, NEW s \in Servers, NEW kind \in {"kLobbyServer", "kZoneServer"},
             NEW c \in Cids \union {NoCid}, RequestUserMigration(u, s, kind, c)
      PROVE  Sends
  <2> DEFINE info == [clock |-> clock + 1, ip |-> AddressOf[u], id |-> AccountOf[u], cid |-> c]
             new == [clock |-> clock + 1, target |-> kind, account |-> AccountOf[u],
                     address |-> AddressOf[u], from |-> Uuid(u, s)]
  <2>1. PICK m \in Messages :
           m = [type |-> "kRequestUserMigration", target |-> kind, user |-> Uuid(u, s), info |-> info]
    <3>1. Uuid(u, s) \in Uuids
      BY UuidType
    <3>2. clock + 1 \in 1..MaxClock
      BY <1>5, MigrationAssumption DEF TypeOK, RequestUserMigration
    <3>3. AccountOf[u] \in Accounts /\ AddressOf[u] \in Addresses
      BY MigrationAssumption DEF Addresses
    <3> QED
      BY <3>1, <3>2, <3>3 DEF Messages, Infos, Kinds
  <2>2. up' = SendUp(up, s, m) /\ new \in issued'
    BY <1>5, <2>1 DEF RequestUserMigration
  <2>3. /\ m.target \in {"kLobbyServer", "kZoneServer"}
        /\ new.clock = m.info.clock /\ new.from = m.user
    BY <2>1
  <2> HIDE DEF new
  <2>4. AskIsRight(m)'
    BY <2>2, <2>3 DEF AskIsRight
  <2> QED
    BY <2>1, <2>2, <2>4
<1>6. CASE Player
  <2>1. ASSUME NEW u \in Users, HandleLoginRequest(u)
        PROVE  Sends
    BY <1>5, <2>1 DEF HandleLoginRequest, Servers
  <2>2. ASSUME NEW u \in Users, NEW d \in Lobbies, HandleCharacterSelectRequest(u, d)
        PROVE  UNCHANGED up \/ Sends
    BY <1>5, <2>2 DEF HandleCharacterSelectRequest, Servers, Targets
  <2> QED
    BY <1>4, <1>6, <2>1, <2>2 DEF Player, OnActive, Close, HandleConfirmRequest
<1>7. CASE UNCHANGED vars
  BY <1>7 DEF vars
<1> QED
  BY <1>1, <1>3, <1>6, <1>7 DEF Next

\* How a step changes what the intermediate server has sent.
LEMMA DownChange ==
  ASSUME TypeOK, [Next]_vars
  PROVE  \/ UNCHANGED down
         \/ \E s \in Servers : /\ open[s] /\ down[Link(s)] # <<>>
                               /\ down' = [down EXCEPT ![Link(s)] = Tail(@)]
                               /\ ReactUserMigation(s) \/ (s \in Targets /\ NotifySessionAuthorityInfo(s))
         \/ \E y, m : down' = SendDown(y, m)
         \/ \E s \in Servers : LoseLink(s)
<1>1. CASE Intermediate
  BY <1>1 DEF Intermediate, HandleRegisterServer, HandleRequestUserMigration, HandleReactSessionAuthorityInfo,
              HandleNotifiyUserLogout, IntermediateOnClose, EraseRegistration
<1>2. CASE Server
  BY <1>2 DEF Server, ConnectChannel, ReactUserMigation, NotifySessionAuthorityInfo, Reads, Servers
<1>3. CASE Player \/ UNCHANGED vars
  BY <1>3 DEF Player, OnActive, Close, OnClose, HandleLoginRequest, HandleConfirmRequest,
              HandleCharacterSelectRequest, vars
<1> QED
  BY <1>1, <1>2, <1>3 DEF Next

\* What the servers ask for stays right.
LEMMA AskInvStep ==
  ASSUME TypeOK, IssuedInThePast, AskInv, [Next]_vars
  PROVE  AskInv'
<1>1. ASSUME NEW m, AskIsRight(m)
      PROVE  AskIsRight(m)'
  BY <1>1, HistoryGrows DEF AskIsRight
<1>2. ASSUME NEW x \in Links, NEW j \in DOMAIN up'[x]
      PROVE  AskIsRight(up[x][j])'
  <2>1. ASSUME NEW i \in DOMAIN up[x], up'[x][j] = up[x][i]
        PROVE  AskIsRight(up[x][j])'
    <3>1. AskIsRight(up[x][i])
      BY DEF AskInv
    <3> QED
      BY <2>1, <3>1, HistoryGrows DEF AskIsRight
  <2>2. CASE UNCHANGED up
    BY <2>1, <2>2
  <2>3. ASSUME NEW y \in client_storage, up[y] # <<>>, up' = [up EXCEPT ![y] = Tail(@)]
        PROVE  AskIsRight(up[x][j])'
    <3>1. CASE x = y
      <4>1. \E i \in DOMAIN up[x] : up'[x][j] = up[x][i]
        BY <2>3, <3>1, TailCarries DEF TypeOK
      <4> QED
        BY <2>1, <4>1
    <3>2. CASE x # y
      BY <2>1, <2>3, <3>2 DEF TypeOK
    <3> QED
      BY <3>1, <3>2
  <2>4. ASSUME NEW s \in Servers, NEW m \in Messages, up' = SendUp(up, s, m), AskIsRight(m)'
        PROVE  AskIsRight(up[x][j])'
    <3>1. up'[x][j] = m \/ (\E i \in DOMAIN up[x] : up'[x][j] = up[x][i])
      BY <2>4, SendUpCarries
    <3>2. up'[x][j] = m => AskIsRight(up[x][j])'
      BY <2>4 DEF AskIsRight
    <3> QED
      BY <2>1, <3>1, <3>2
  <2>5. ASSUME NEW s \in Servers, ConnectChannel(s)
        PROVE  AskIsRight(up[x][j])'
    <3>1. up'[x] = up[x] \/ up'[x] = <<[type |-> "kRegisterRemoteServer"]>>
      BY <2>5 DEF TypeOK, ConnectChannel
    <3>2. up'[x] = <<[type |-> "kRegisterRemoteServer"]>> => up'[x][j].type = "kRegisterRemoteServer"
      OBVIOUS
    <3> QED
      BY <2>1, <3>1, <3>2 DEF AskIsRight
  <2>6. ASSUME NEW y \in client_storage, IntermediateOnClose(y)
        PROVE  AskIsRight(up[x][j])'
    <3>1. up'[x] = up[x] \/ up'[x] = <<>>
      BY <2>6 DEF TypeOK, IntermediateOnClose
    <3>2. up'[x] # <<>>
      OBVIOUS
    <3> QED
      BY <2>1, <3>1, <3>2
  <2> QED
    BY <2>2, <2>3, <2>4, <2>5, <2>6, UpChange
<1>3. ASSUME NEW i \in issued', NEW j \in issued', i.clock = j.clock
      PROVE  i = j
  <2>1. CASE issued' = issued
    BY <1>3, <2>1 DEF AskInv
  <2>2. CASE \E new : /\ issued' = issued \union {new} /\ new.clock = clock + 1
    <3>1. clock \in Nat /\ \A a \in issued : a.clock \in Nat /\ a.clock <= clock
      BY MigrationAssumption DEF TypeOK, Issues, IssuedInThePast
    <3> QED
      BY <1>3, <2>2, <3>1 DEF AskInv
  <2>3. issued' = issued \/ \E new : /\ issued' = issued \union {new} /\ new.clock = clock + 1
    <3>1. ASSUME NEW u, NEW t, NEW kind, NEW c, RequestUserMigration(u, t, kind, c)
          PROVE  \E new : issued' = issued \union {new} /\ new.clock = clock + 1
      <4> DEFINE new == [clock |-> clock + 1, target |-> kind, account |-> AccountOf[u],
                         address |-> AddressOf[u], from |-> Uuid(u, t)]
      <4>1. issued' = issued \union {new} /\ new.clock = clock + 1
        BY <3>1 DEF RequestUserMigration
      <4> HIDE DEF new
      <4> QED
        BY <4>1
    <3> QED
      BY <3>1, IssuedChange
  <2> QED
    BY <2>1, <2>2, <2>3
<1> QED
  BY <1>2, <1>3 DEF AskInv

\* While all are connected nobody connects anew and no link is taken for lost.
LEMMA SteadyStays ==
  ASSUME TypeOK, StorageInv, Steady, [Next]_vars
  PROVE  /\ UNCHANGED made /\ \A s \in Servers : Link(s)' = Link(s)
         /\ ~\E s \in Servers : ConnectChannel(s)
         /\ ~\E y \in client_storage : IntermediateOnClose(y)
         /\ (\A s \in Servers : open'[s]) => Steady'
<1>1. ~\E s \in Servers : ConnectChannel(s)
  BY DEF Steady, ConnectChannel
<1>2. ~\E y \in client_storage : IntermediateOnClose(y)
  <2> SUFFICES ASSUME NEW y \in client_storage, IntermediateOnClose(y) PROVE FALSE
    OBVIOUS
  <2>1. PICK s \in Servers : y = Link(s)
    BY DEF Steady
  <2>2. y.server = s
    BY <2>1 DEF Link
  <2> QED
    BY <2>1, <2>2 DEF IntermediateOnClose, Steady
<1>e. ~\E y \in erasing \intersect server_map : EraseRegistration(y)
  BY DEF Steady, StorageInv, Link
<1>3. UNCHANGED made /\ UNCHANGED client_storage /\ server_map \subseteq server_map' /\ server_map' \subseteq server_map \union client_storage
  <2>1. CASE Intermediate
    BY <1>2, <1>e, <2>1 DEF Intermediate, EraseRegistration, HandleRegisterServer,
                      HandleRequestUserMigration, Receives, HandleReactSessionAuthorityInfo, HandleNotifiyUserLogout, links
  <2>2. CASE Server
    BY <1>1, <2>2 DEF Server, LoseLink, ReactUserMigation, NotifySessionAuthorityInfo, links
  <2>3. CASE Player \/ UNCHANGED vars
    BY <2>3 DEF Player, OnActive, Close, OnClose, HandleLoginRequest, HandleConfirmRequest,
                HandleCharacterSelectRequest, links, vars
  <2> QED
    BY <2>1, <2>2, <2>3 DEF Next
<1>4. \A s \in Servers : Link(s)' = Link(s)
  BY <1>3 DEF Link
<1>5. (\A s \in Servers : open'[s]) => Steady'
  BY <1>3, <1>4 DEF Steady
<1> QED
  BY <1>1, <1>2, <1>3, <1>4, <1>5

\* A packet that a server has sent stays on its link until the intermediate server handles it.
LEMMA UpHolds ==
  ASSUME TypeOK, StorageInv, Steady, [Next]_vars, NEW x \in Links, NEW j \in DOMAIN up[x]
  PROVE  \/ \E i \in DOMAIN up'[x] : up'[x][i] = up[x][j]
         \/ /\ up[x] # <<>> /\ up[x][j] = Head(up[x])
            /\ \/ HandleRegisterServer(x) \/ HandleRequestUserMigration(x)
               \/ HandleReactSessionAuthorityInfo(x) \/ HandleNotifiyUserLogout(x)
<1>0. up[x] \in Seq(Messages)
  BY DEF TypeOK
<1>1. CASE up'[x] = up[x]
  BY <1>1
<1>2. ASSUME up[x] # <<>>, up'[x] = Tail(up[x]), j # 1
      PROVE  \E i \in DOMAIN up'[x] : up'[x][i] = up[x][j]
  <2>1. j - 1 \in DOMAIN Tail(up[x]) /\ Tail(up[x])[j - 1] = up[x][j]
    BY <1>0, <1>2
  <2> QED
    BY <1>2, <2>1
<1>3. ASSUME NEW m \in Messages, up'[x] = Append(up[x], m)
      PROVE  \E i \in DOMAIN up'[x] : up'[x][i] = up[x][j]
  <2>1. j \in DOMAIN Append(up[x], m) /\ Append(up[x], m)[j] = up[x][j]
    BY <1>0
  <2> QED
    BY <1>3, <2>1
<1>4. ASSUME NEW y \in client_storage, up[y] # <<>>, up' = [up EXCEPT ![y] = Tail(@)]
      PROVE  up'[x] = up[x] \/ (y = x /\ up'[x] = Tail(up[x]))
  <2>1. CASE y = x
    BY <1>4, <2>1 DEF TypeOK
  <2>2. CASE y # x
    BY <1>4, <2>2 DEF TypeOK
  <2> QED
    BY <2>1, <2>2
<1>5. ASSUME NEW s \in Servers, NEW m \in Messages, up' = SendUp(up, s, m)
      PROVE  up'[x] = up[x] \/ up'[x] = Append(up[x], m)
  BY <1>5 DEF TypeOK, SendUp
<1>6. j = 1 => up[x][j] = Head(up[x])
  BY <1>0
<1> QED
  BY <1>1, <1>2, <1>3, <1>4, <1>5, <1>6, UpChange, SteadyStays

\* A packet that the intermediate server has sent stays on its link until the server handles it.
LEMMA DownHolds ==
  ASSUME TypeOK, Steady, [Next]_vars, \A s \in Servers : open'[s],
         NEW d \in Servers, NEW j \in DOMAIN down[Link(d)]
  PROVE  \/ \E i \in DOMAIN down'[Link(d)] : down'[Link(d)][i] = down[Link(d)][j]
         \/ /\ down[Link(d)][j] = Head(down[Link(d)])
            /\ ReactUserMigation(d) \/ (d \in Targets /\ NotifySessionAuthorityInfo(d))
<1> PICK x \in Links : x = Link(d)
  BY LinkType DEF Steady
<1>0. down[x] \in Seq(Messages)
  BY DEF TypeOK
<1>1. CASE down'[x] = down[x]
  BY <1>1
<1>2. ASSUME down[x] # <<>>, down'[x] = Tail(down[x]), j # 1
      PROVE  \E i \in DOMAIN down'[x] : down'[x][i] = down[x][j]
  <2>1. j - 1 \in DOMAIN Tail(down[x]) /\ Tail(down[x])[j - 1] = down[x][j]
    BY <1>0, <1>2
  <2> QED
    BY <1>2, <2>1
<1>3. ASSUME NEW m, down'[x] = Append(down[x], m)
      PROVE  \E i \in DOMAIN down'[x] : down'[x][i] = down[x][j]
  <2>1. j \in DOMAIN Append(down[x], m) /\ Append(down[x], m)[j] = down[x][j]
    BY <1>0
  <2> QED
    BY <1>3, <2>1
<1>4. ASSUME NEW s \in Servers, down[Link(s)] # <<>>, down' = [down EXCEPT ![Link(s)] = Tail(@)]
      PROVE  down'[x] = down[x] \/ (s = d /\ down'[x] = Tail(down[x]))
  <2>1. CASE Link(s) = x
    <3>1. s = d
      BY <2>1 DEF Link
    <3> QED
      BY <1>4, <2>1, <3>1 DEF TypeOK
  <2>2. CASE Link(s) # x
    BY <1>4, <2>2 DEF TypeOK
  <2> QED
    BY <2>1, <2>2
<1>5. ASSUME NEW y, NEW m, down' = SendDown(y, m)
      PROVE  down'[x] = down[x] \/ down'[x] = Append(down[x], m)
  BY <1>5 DEF TypeOK, SendDown
<1>6. ~\E s \in Servers : LoseLink(s)
  BY DEF LoseLink, TypeOK
<1>7. j = 1 => down[x][j] = Head(down[x])
  BY <1>0
<1> QED
  BY <1>1, <1>2, <1>3, <1>4, <1>5, <1>6, <1>7, DownChange

\* One step of the request of connection p: it stays where it is, goes on to the next link, or has
\* brought an answer.
LEMMA RequestGoesOn ==
  ASSUME TypeOK, StorageInv, AskInv, Steady, [Next]_vars, \A s \in Servers : open'[s],
         Lobbies # {}, Zones # {}, NEW p \in Uuids, OnItsWay(p)
  PROVE  OnItsWay(p)' \/ Answered(p)'
<1>0. \A s \in Servers : Link(s)' = Link(s) /\ Link(s) \in Links
  BY SteadyStays, LinkType DEF Steady
<1>1. ASSUME NEW s \in Servers, NEW j \in DOMAIN up'[Link(s)], UpFor(p, s, up'[Link(s)][j])
      PROVE  OnItsWay(p)'
  BY <1>0, <1>1 DEF OnItsWay, UpFor, Uuids
<1>2. ASSUME NEW s \in Servers, NEW j \in DOMAIN down'[Link(s)], DownFor(p, s, down'[Link(s)][j])
      PROVE  OnItsWay(p)'
  BY <1>0, <1>2 DEF OnItsWay, DownFor, Uuids
<1>3. ASSUME NEW t \in Servers, NEW m, DownFor(p, t, m), down' = SendDown(Link(t), m)
      PROVE  OnItsWay(p)'
  <2>1. down'[Link(t)] = Append(down[Link(t)], m) /\ down[Link(t)] \in Seq(Messages)
    BY <1>0, <1>3 DEF TypeOK, SendDown, Steady, Link
  <2>2. /\ Len(down[Link(t)]) + 1 \in DOMAIN Append(down[Link(t)], m)
        /\ Append(down[Link(t)], m)[Len(down[Link(t)]) + 1] = m
    BY <2>1
  <2> QED
    BY <1>2, <1>3, <2>1, <2>2
<1>4. ASSUME NEW s \in Servers, NEW j \in DOMAIN up[Link(s)], UpFor(p, s, up[Link(s)][j])
      PROVE  OnItsWay(p)'
  <2> PICK x \in Links : x = Link(s)
    BY <1>0
  <2>1. CASE \E i \in DOMAIN up'[x] : up'[x][i] = up[x][j]
    BY <1>1, <1>4, <2>1
  <2>2. CASE up[x] # <<>> /\ up[x][j] = Head(up[x]) /\ HandleRequestUserMigration(x)
    <3> PICK m \in Messages : m = up[x][j]
      BY DEF TypeOK
    <3>1. s = p.server /\ m.type = "kRequestUserMigration" /\ m.user = p
      BY <1>4, <2>2 DEF HandleRequestUserMigration, Receives, UpFor
    <3>2. m.target \in {"kLobbyServer", "kZoneServer"}
      BY <3>1 DEF AskInv, AskIsRight
    <3>3. ASSUME NEW y \in GetServerLoadBalance(m.target),
                 down' = SendDown(y, [type |-> "kNotifySessionAuthorityInfo", server |-> x, user |-> m.user,
                                      info |-> m.info])
          PROVE  OnItsWay(p)'
      <4>1. PICK t \in Servers : y = Link(t) /\ KindOf[t] = m.target
        BY <3>3 DEF GetServerLoadBalance, Steady, Link
      <4>2. t \in Targets
        BY <3>2, <4>1 DEF KindOf, Servers
      <4>3. DownFor(p, t, [type |-> "kNotifySessionAuthorityInfo", server |-> x, user |-> m.user,
                           info |-> m.info])
        BY <3>1, <4>2 DEF DownFor
      <4> QED
        BY <1>3, <3>3, <4>1, <4>3
    <3>4. GetServerLoadBalance(m.target) # {}
      <4>1. PICK t \in Targets : KindOf[t] = m.target
        <5>1. PICK l \in Lobbies, z \in Zones : TRUE
          OBVIOUS
        <5>2. KindOf[l] = "kLobbyServer" /\ KindOf[z] = "kZoneServer" /\ l \in Targets /\ z \in Targets
          BY MigrationAssumption DEF KindOf, Servers, Targets
        <5> QED
          BY <3>2, <5>2
      <4>2. Link(t) \in server_map /\ Link(t).server = t
        BY DEF Steady, Servers, Link
      <4> QED
        BY <4>1, <4>2 DEF GetServerLoadBalance
    <3>5. GetServerLoadBalance(m.target) \subseteq client_storage
      BY DEF GetServerLoadBalance, Steady
    <3> QED
      BY <2>2, <3>3, <3>4, <3>5 DEF HandleRequestUserMigration
  <2>3. CASE up[x] # <<>> /\ up[x][j] = Head(up[x]) /\ HandleReactSessionAuthorityInfo(x)
    <3> PICK m \in Messages : m = up[x][j]
      BY DEF TypeOK
    <3>1. s \in Targets /\ m.user = p /\ m.server = Link(p.server)
      BY <1>4, <2>3 DEF HandleReactSessionAuthorityInfo, Receives, UpFor
    <3>2. p.server \in Servers
      BY DEF Uuids
    <3>3. {m.server, x} \subseteq server_map /\ m.server \in client_storage
      BY <3>1, <3>2 DEF Steady
    <3> DEFINE react == [type |-> "kReactUserMigation", user |-> m.user, dest |-> x.server]
    <3>4. down' = SendDown(Link(p.server), react)
      BY <2>3, <3>1, <3>3 DEF HandleReactSessionAuthorityInfo
    <3>5. DownFor(p, p.server, react)
      BY <3>1 DEF DownFor
    <3> HIDE DEF react
    <3> QED
      BY <1>3, <3>2, <3>4, <3>5
  <2>4. CASE up[x] # <<>> /\ up[x][j] = Head(up[x]) /\ (HandleRegisterServer(x) \/ HandleNotifiyUserLogout(x))
    BY <1>4, <2>4 DEF HandleRegisterServer, HandleNotifiyUserLogout, Receives, UpFor
  <2> QED
    BY <2>1, <2>2, <2>3, <2>4, UpHolds
<1>5. ASSUME NEW d \in Servers, NEW j \in DOMAIN down[Link(d)], DownFor(p, d, down[Link(d)][j])
      PROVE  OnItsWay(p)' \/ Answered(p)'
  <2> PICK x \in Links : x = Link(d)
    BY <1>0
  <2> PICK m \in Messages : m = down[x][j]
    BY DEF TypeOK
  <2>1. CASE \E i \in DOMAIN down'[x] : down'[x][i] = down[x][j]
    BY <1>2, <1>5, <2>1
  <2>2. CASE m = Head(down[x]) /\ d \in Targets /\ NotifySessionAuthorityInfo(d)
    <3>1. d \in Targets /\ m.user = p /\ m.server = Link(p.server)
      BY <1>5, <2>2 DEF NotifySessionAuthorityInfo, Reads, DownFor
    <3> DEFINE react == [type |-> "kReactSessionAuthorityInfo", server |-> m.server, user |-> m.user]
    <3>2. up' = SendUp(up, d, react)
      BY <2>2 DEF NotifySessionAuthorityInfo
    <3>3. UpFor(p, d, react)
      BY <3>1 DEF UpFor
    <3> HIDE DEF react
    <3>4. up'[x] = Append(up[x], react) /\ up[x] \in Seq(Messages)
      BY <3>2 DEF TypeOK, SendUp, Steady
    <3>5. /\ Len(up[x]) + 1 \in DOMAIN Append(up[x], react)
          /\ Append(up[x], react)[Len(up[x]) + 1] = react
      BY <3>4
    <3> QED
      BY <1>1, <3>3, <3>4, <3>5
  <2>3. CASE m = Head(down[x]) /\ ReactUserMigation(d)
    <3>1. d = p.server /\ m.user = p /\ m.type = "kReactUserMigation"
      BY <1>5, <2>3 DEF ReactUserMigation, Reads, DownFor
    <3>2. p.user \in Users /\ p.server \in Servers
      BY DEF Uuids
    <3>3. CASE conn[p.user][d].n = p.n /\ conn[p.user][d].step = "open"
      <4> DEFINE c == [conn[p.user][d] EXCEPT !.told = @ \union {m.dest}]
      <4>1. conn' = [conn EXCEPT ![p.user][d] = c]
        BY <2>3, <3>1, <3>3 DEF ReactUserMigation, Tell
      <4>2. m.dest \in c.told
        BY <3>2, ConnectionFields DEF Connections
      <4> HIDE DEF c
      <4>3. conn'[p.user][d] = c
        BY <3>2, <4>1 DEF TypeOK
      <4> QED
        BY <3>1, <4>2, <4>3 DEF Answered
    <3>4. CASE ~(conn[p.user][d].n = p.n /\ conn[p.user][d].step = "open")
      <4>1. conn' = conn
        BY <2>3, <3>1, <3>4 DEF ReactUserMigation
      <4> QED
        BY <3>1, <3>4, <4>1 DEF Answered
    <3> QED
      BY <3>3, <3>4
  <2> QED
    BY <2>1, <2>2, <2>3, DownHolds
<1> QED
  BY <1>4, <1>5 DEF OnItsWay

\* The invariants of requests hold together.
LEMMA AskInvAlways == Spec => [](AdmissionInv /\ AskInv)
<1>1. Init => AdmissionInv /\ AskInv
  BY InitAdmission DEF Init, AskInv
<1>2. AdmissionInv /\ AskInv /\ [Next]_vars => AdmissionInv' /\ AskInv'
  BY AdmissionInvStep, AskInvStep DEF AdmissionInv
<1> QED
  BY <1>1, <1>2, PTL DEF Spec

\* A request that RequestsAreAnswered speaks of is on its way.
WaitingIsOnItsWay == \A k \in 1..MaxClock : Waiting(k) => Journey(k)

\* One step: a request on its way stays on its way, or its player has been told or has left, or a
\* link was lost.
NoRequestIsDropped ==
    \A k \in 1..MaxClock :
        Journey(k) => Journey(k)' \/ Settled(k)' \/ \E s \in Servers : ~open'[s]

\* The safety half of RequestsAreAnswered, in any cluster with a lobby and a zone server: a request
\* that waits at the intermediate server with all links up is somewhere on its way from then on, in
\* one packet or the next (HandleRequestUserMigration, NotifySessionAuthorityInfo,
\* HandleReactSessionAuthorityInfo, ReactUserMigation), until the player has been told or has left
\* or a link is lost: no handler drops it.
THEOREM RequestsAreNotLost ==
  ASSUME Lobbies # {}, Zones # {}
  PROVE  Spec => []WaitingIsOnItsWay /\ [][NoRequestIsDropped]_vars
<1>1. AdmissionInv /\ AskInv => WaitingIsOnItsWay
  <2> SUFFICES ASSUME AdmissionInv, AskInv, NEW k \in 1..MaxClock, Waiting(k)
               PROVE  Journey(k)
    BY DEF WaitingIsOnItsWay
  <2>1. PICK i \in issued :
           /\ i.clock = k
           /\ \A s \in Servers : open[s]
           /\ server_map = {Link(s) : s \in Servers} /\ client_storage = server_map
           /\ \E j \in DOMAIN up[Link(i.from.server)] :
                  /\ up[Link(i.from.server)][j].type = "kRequestUserMigration"
                  /\ up[Link(i.from.server)][j].info.clock = k
    BY DEF Waiting
  <2>2. i.from \in Uuids /\ i.from.server \in Servers
    BY DEF AdmissionInv, TypeOK, Issues, Uuids
  <2>3. Link(i.from.server) \in Links
    BY <2>1, <2>2, LinkType DEF AdmissionInv
  <2>4. PICK j \in DOMAIN up[Link(i.from.server)] :
           /\ up[Link(i.from.server)][j].type = "kRequestUserMigration"
           /\ up[Link(i.from.server)][j].info.clock = k
    BY <2>1
  <2>5. up[Link(i.from.server)][j].user = i.from
    BY <2>1, <2>3, <2>4 DEF AskInv, AskIsRight
  <2>6. OnItsWay(i.from)
    BY <2>2, <2>4, <2>5 DEF OnItsWay, UpFor
  <2> QED
    BY <2>1, <2>6 DEF Journey, Steady
<1>2. AdmissionInv /\ AskInv /\ StorageInv /\ [Next]_vars => [NoRequestIsDropped]_vars
  <2> SUFFICES ASSUME AdmissionInv, AskInv, StorageInv, [Next]_vars, NEW k \in 1..MaxClock, Journey(k),
                      \A s \in Servers : open'[s]
               PROVE  Journey(k)' \/ Settled(k)'
    BY DEF NoRequestIsDropped
  <2>1. PICK i \in issued : i.clock = k /\ OnItsWay(i.from)
    BY DEF Journey
  <2>2. i.from \in Uuids /\ i \in issued'
    BY HistoryGrows DEF AdmissionInv, TypeOK, Issues
  <2>3. OnItsWay(i.from)' \/ Answered(i.from)'
    BY <2>1, <2>2, RequestGoesOn DEF AdmissionInv, Journey
  <2>4. Steady'
    BY SteadyStays DEF AdmissionInv, Journey
  <2>5. OnItsWay(i.from)' => Journey(k)'
    BY <2>1, <2>2, <2>4 DEF Journey
  <2>6. Answered(i.from)' => Settled(k)'
    BY <2>1, <2>2 DEF Answered, Settled
  <2> QED
    BY <2>3, <2>5, <2>6
<1> QED
  BY <1>1, <1>2, AskInvAlways, StorageInvAlways, PTL DEF Spec
=============================================================================
