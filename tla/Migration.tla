----------------------------- MODULE Migration -----------------------------
(***************************************************************************)
(* How a player moves from the login server to a lobby and from a lobby to *)
(* a zone.  The origin server asks the intermediate server for a target    *)
(* (kRequestUserMigration); the intermediate server picks a registered     *)
(* server of the requested kind and sends it the player's authority        *)
(* (kNotifySessionAuthorityInfo); the target stores it and answers         *)
(* (kReactSessionAuthorityInfo); the answer travels back to the origin     *)
(* (kReactUserMigation), which tells the player where to connect; there    *)
(* the player's confirm request consumes the authority.                    *)
(*                                                                         *)
(* Servers talk to the intermediate server over one TCP connection each,   *)
(* FIFO both ways, which may be lost and made again (ConnectChannel).      *)
(* Players may close at any moment, log in again, and share an account.    *)
(***************************************************************************)
EXTENDS Naturals, Sequences, FiniteSets

CONSTANTS Users,       \* client programs; two may use one account or one address
          Login,       \* the login server
          Lobbies,     \* the lobby servers
          Zones,       \* the zone servers
          Accounts,    \* account ids
          AccountOf,   \* [Users -> Accounts]
          AddressOf,   \* Users -> remote address, any values
          Cids,        \* character ids
          NoInfo,      \* no entry in authority_map_
          MaxClock,    \* bound: authorities issued (logins and selections)
          MaxLinks,    \* bound: connections each server makes to the intermediate server
          MaxLosses,   \* bound: connections to the intermediate server that are lost
          MaxVisits    \* bound: connections each user makes to each server

ASSUME MigrationAssumption ==
    /\ Login \notin Lobbies /\ Login \notin Zones /\ Lobbies \intersect Zones = {}
    /\ AccountOf \in [Users -> Accounts]
    /\ DOMAIN AddressOf = Users
    /\ {MaxClock, MaxLinks, MaxLosses, MaxVisits} \subseteq Nat

Targets == Lobbies \union Zones
Servers == {Login} \union Targets

Kinds == {"kLoginServer", "kLobbyServer", "kZoneServer"}
KindOf == [s \in Servers |-> IF s = Login THEN "kLoginServer"
                             ELSE IF s \in Lobbies THEN "kLobbyServer" ELSE "kZoneServer"]

Addresses == {AddressOf[u] : u \in Users}
NoCid == "-1"

\* RemoteSessionInfo: clock identifies it, ip and id are what a confirm is checked against.
Infos == [clock : 1..MaxClock, ip : Addresses, id : Accounts, cid : Cids \union {NoCid}]
ASSUME NoInfoIsNone == NoInfo \notin Infos

\* The UUID of a server's connection at the intermediate server, and of a player's at a server.
Links == [server : Servers, n : 1..MaxLinks]
Uuids == [user : Users, server : Servers, n : 0..MaxVisits]

Messages ==
         [type : {"kRegisterRemoteServer"}]
  \union [type : {"kRequestUserMigration"}, target : Kinds, user : Uuids, info : Infos]
  \union [type : {"kReactSessionAuthorityInfo"}, server : Links, user : Uuids]
  \union [type : {"kNotifyUserLogout"}, id : Accounts]
  \union [type : {"kNotifySessionAuthorityInfo"}, server : Links, user : Uuids, info : Infos]
  \union [type : {"kReactUserMigation"}, user : Uuids, dest : Servers]

VARIABLES
    made,            \* [Servers -> Nat]: connections the server has made to the intermediate server
    open,            \* [Servers -> BOOLEAN]: session_ has a socket; the connection is the last made
    client_storage,  \* intermediate server: the links it has an object for
    server_map,      \* intermediate server: the links that registered
    erasing,         \* intermediate server: the links whose OnClose has erased the object
                     \* and not yet the registration
    up,              \* [Links -> Seq(Messages)]: server to intermediate server
    down,            \* [Links -> Seq(Messages)]: intermediate server to server
    authority_map,   \* [Targets -> [Accounts -> Infos or NoInfo]]
    conn,            \* [Users -> [Servers -> Connections]]
    loggedin,        \* [Accounts -> BOOLEAN]: the column of table accounts
    clock,           \* creation time of the last RemoteSessionInfo
    issued,          \* history: every RemoteSessionInfo created, with its target and creator
    admitted         \* history: every authority consumed and the connection it admitted

links == <<made, open, client_storage, server_map, erasing>>
history == <<issued, admitted>>
vars == <<made, open, client_storage, server_map, erasing, up, down, authority_map, conn,
          loggedin, clock, issued, admitted>>

(***************************************************************************)
(* A player's connection to a server: n counts its connections there; step *)
(* is "none" before the first, "open", "closing" from Session::Close to    *)
(* OnClose, and "gone"; state is ClientState; told is where the server has *)
(* sent the player.                                                        *)
(***************************************************************************)
Connections ==
    [n : 0..MaxVisits, step : {"none", "open", "closing", "gone"},
     state : {"kNotConfirm", "kConfirm", "kReserveToMigrate"}, told : SUBSET Servers]

Issues == [clock : 1..MaxClock, target : Kinds, account : Accounts, address : Addresses,
           from : Uuids]
Admissions == [clock : 1..MaxClock, uuid : Uuids]

Link(s) == [server |-> s, n |-> made[s]]
Uuid(u, s) == [user |-> u, server |-> s, n |-> conn[u][s].n]

\* The server's handlers find the player's Client object: OnClose has not erased it yet.
Stored(u, s) == conn[u][s].step \in {"open", "closing"}

\* Session::Send on session_: without a socket the message is dropped silently.
SendUp(channels, s, m) ==
    IF open[s] THEN [channels EXCEPT ![Link(s)] = Append(@, m)] ELSE channels

\* Session::Send at the intermediate server: a link whose socket is lost drops the message.
SendDown(x, m) ==
    IF open[x.server] /\ Link(x.server) = x THEN [down EXCEPT ![x] = Append(@, m)] ELSE down

Init ==
    /\ made = [s \in Servers |-> 0]
    /\ open = [s \in Servers |-> FALSE]
    /\ client_storage = {}
    /\ server_map = {}
    /\ erasing = {}
    /\ up = [x \in Links |-> <<>>]
    /\ down = [x \in Links |-> <<>>]
    /\ authority_map = [d \in Targets |-> [a \in Accounts |-> NoInfo]]
    /\ conn = [u \in Users |-> [s \in Servers |->
                  [n |-> 0, step |-> "none", state |-> "kNotConfirm", told |-> {}]]]
    /\ loggedin \in [Accounts -> BOOLEAN]
    /\ clock = 0
    /\ issued = {}
    /\ admitted = {}

-----------------------------------------------------------------------------
(* The connections between the servers and the intermediate server.        *)

\* ConnectChannel: connect when session_ is not open, then register.
ConnectChannel(s) ==
    /\ ~open[s]
    /\ made[s] < MaxLinks
    /\ made' = [made EXCEPT ![s] = @ + 1]
    /\ open' = [open EXCEPT ![s] = TRUE]
    /\ LET x == [server |-> s, n |-> made[s] + 1]
       IN /\ client_storage' = client_storage \union {x}
          /\ up' = [up EXCEPT ![x] = <<[type |-> "kRegisterRemoteServer"]>>]
    /\ UNCHANGED <<server_map, erasing, down, authority_map, conn, loggedin, clock, history>>

Lost == {x \in Links : x.n <= made[x.server] /\ ~(open[x.server] /\ x.n = made[x.server])}

\* The connection breaks: the server notices at once, the intermediate server in OnClose.
LoseLink(s) ==
    /\ open[s]
    /\ Cardinality(Lost) < MaxLosses
    /\ open' = [open EXCEPT ![s] = FALSE]
    /\ down' = [down EXCEPT ![Link(s)] = <<>>]
    /\ UNCHANGED <<made, client_storage, server_map, erasing, up, authority_map, conn, loggedin,
                   clock, history>>

\* IntermediateServer::OnClose, the first critical section: the object is erased, and what the
\* server had sent and was not read is lost.
IntermediateOnClose(x) ==
    /\ x \in client_storage
    /\ ~(open[x.server] /\ Link(x.server) = x)
    /\ client_storage' = client_storage \ {x}
    /\ erasing' = erasing \union {x}
    /\ up' = [up EXCEPT ![x] = <<>>]
    /\ UNCHANGED <<made, open, server_map, down, authority_map, conn, loggedin, clock, history>>

\* Faulty variant: OnClose ends and the registration is kept.
EraseRegistration_Keeps(x) ==
    /\ x \in erasing
    /\ erasing' = erasing \ {x}
    /\ UNCHANGED <<made, open, client_storage, server_map, up, down, authority_map, conn, loggedin,
                   clock, history>>

\* Its second critical section, after client->Close(): the registration is erased.
EraseRegistration(x) ==
    /\ x \in erasing
    /\ server_map' = server_map \ {x}
    /\ erasing' = erasing \ {x}
    /\ UNCHANGED <<made, open, client_storage, up, down, authority_map, conn, loggedin, clock,
                   history>>

-----------------------------------------------------------------------------
(* The intermediate server's handlers (IntermediateServer::ProcessPacket). *)

\* The next packet on link x is of this type and the intermediate server still has the link.
Receives(x, type) ==
    /\ x \in client_storage
    /\ up[x] # <<>>
    /\ Head(up[x]).type = type

HandleRegisterServer(x) ==
    /\ Receives(x, "kRegisterRemoteServer")
    /\ server_map' = server_map \union {x}
    /\ up' = [up EXCEPT ![x] = Tail(@)]
    /\ UNCHANGED <<made, open, client_storage, erasing, down, authority_map, conn, loggedin, clock,
                   history>>

\* Every server reports no connections, so their ratios tie and any of them may be chosen.
GetServerLoadBalance(type) == {y \in server_map : KindOf[y.server] = type}

\* Faulty variant: the origin is answered as soon as a target is chosen.
HandleRequestUserMigration_AnswersEarly(x) ==
    /\ Receives(x, "kRequestUserMigration")
    /\ \E y \in GetServerLoadBalance(Head(up[x]).target) :
           down' = SendDown(x, [type |-> "kReactUserMigation", user |-> Head(up[x]).user,
                                dest |-> y.server])
    /\ up' = [up EXCEPT ![x] = Tail(@)]
    /\ UNCHANGED <<links, authority_map, conn, loggedin, clock, history>>

\* The player's authority goes to a server of the target kind; the request is dropped without one,
\* and when the object of the one chosen is erased.
HandleRequestUserMigration(x) ==
    /\ Receives(x, "kRequestUserMigration")
    /\ LET m == Head(up[x])
           notify == [type |-> "kNotifySessionAuthorityInfo", server |-> x, user |-> m.user,
                      info |-> m.info]
       IN \/ /\ GetServerLoadBalance(m.target) = {}
             /\ UNCHANGED down
          \/ \E y \in GetServerLoadBalance(m.target) :
                 down' = IF y \in client_storage THEN SendDown(y, notify) ELSE down
    /\ up' = [up EXCEPT ![x] = Tail(@)]
    /\ UNCHANGED <<links, authority_map, conn, loggedin, clock, history>>

\* The answer goes back to the origin if both the origin's and the target's links are registered
\* and the origin's object is not erased.
HandleReactSessionAuthorityInfo(x) ==
    /\ Receives(x, "kReactSessionAuthorityInfo")
    /\ LET m == Head(up[x])
           react == [type |-> "kReactUserMigation", user |-> m.user, dest |-> x.server]
       IN down' = IF {m.server, x} \subseteq server_map /\ m.server \in client_storage
                  THEN SendDown(m.server, react) ELSE down
    /\ up' = [up EXCEPT ![x] = Tail(@)]
    /\ UNCHANGED <<links, authority_map, conn, loggedin, clock, history>>

HandleNotifiyUserLogout(x) ==
    /\ Receives(x, "kNotifyUserLogout")
    /\ loggedin' = [loggedin EXCEPT ![Head(up[x]).id] = FALSE]
    /\ up' = [up EXCEPT ![x] = Tail(@)]
    /\ UNCHANGED <<links, down, authority_map, conn, clock, history>>

-----------------------------------------------------------------------------
(* What the servers do with the intermediate server's packets.             *)

\* The next packet server s reads from session_ is of this type.
Reads(s, type) ==
    /\ open[s]
    /\ down[Link(s)] # <<>>
    /\ Head(down[Link(s)]).type = type

\* authority_map_.emplace: an entry the account already has is kept.
Emplace(d, info) ==
    IF authority_map[d][info.id] = NoInfo
    THEN [authority_map EXCEPT ![d][info.id] = info]
    ELSE authority_map

\* Faulty variant: the answer is sent only for an account without an entry.
NotifySessionAuthorityInfo_Silent(d) ==
    /\ Reads(d, "kNotifySessionAuthorityInfo")
    /\ LET m == Head(down[Link(d)])
       IN /\ authority_map' = Emplace(d, m.info)
          /\ up' = IF authority_map[d][m.info.id] # NoInfo THEN up
                   ELSE SendUp(up, d, [type |-> "kReactSessionAuthorityInfo",
                                       server |-> m.server, user |-> m.user])
    /\ down' = [down EXCEPT ![Link(d)] = Tail(@)]
    /\ UNCHANGED <<links, conn, loggedin, clock, history>>

\* A lobby or zone server stores the authority and answers on its link.
NotifySessionAuthorityInfo(d) ==
    /\ Reads(d, "kNotifySessionAuthorityInfo")
    /\ LET m == Head(down[Link(d)])
       IN /\ authority_map' = Emplace(d, m.info)
          /\ up' = SendUp(up, d, [type |-> "kReactSessionAuthorityInfo",
                                  server |-> m.server, user |-> m.user])
    /\ down' = [down EXCEPT ![Link(d)] = Tail(@)]
    /\ UNCHANGED <<links, conn, loggedin, clock, history>>

\* The address of d is sent to the player u of s.
Tell(u, s, d) == [conn EXCEPT ![u][s].told = @ \union {d}]

\* The login server or a lobby tells the player where to connect, if it is still connected.
ReactUserMigation(s) ==
    /\ Reads(s, "kReactUserMigation")
    /\ LET m == Head(down[Link(s)])
           u == m.user.user
       IN conn' = IF conn[u][s].n = m.user.n /\ conn[u][s].step = "open"
                  THEN Tell(u, s, m.dest) ELSE conn
    /\ down' = [down EXCEPT ![Link(s)] = Tail(@)]
    /\ UNCHANGED <<links, up, authority_map, loggedin, clock, history>>

-----------------------------------------------------------------------------
(* Players' connections and requests.                                      *)

\* A player knows the login server's address and those it has been told.
Knows(u, s) == s = Login \/ \E t \in Servers : s \in conn[u][t].told

\* OnActive: a fresh Client object, not confirmed.
OnActive(u, s) ==
    /\ ~Stored(u, s)
    /\ Knows(u, s)
    /\ conn[u][s].n < MaxVisits
    /\ conn' = [conn EXCEPT ![u][s] = [n |-> @.n + 1, step |-> "open",
                                       state |-> "kNotConfirm", told |-> {}]]
    /\ UNCHANGED <<links, up, down, authority_map, loggedin, clock, history>>

\* Session::Close, by the player leaving or by an error on its connection.
Close(u, s) ==
    /\ conn[u][s].step = "open"
    /\ conn' = [conn EXCEPT ![u][s].step = "closing"]
    /\ UNCHANGED <<links, up, down, authority_map, loggedin, clock, history>>

\* Faulty variant: every lobby client reports a logout, with no account if it never confirmed.
OnClose_Unconditional(u, s) ==
    /\ conn[u][s].step = "closing"
    /\ conn' = [conn EXCEPT ![u][s].step = "gone"]
    /\ up' = IF s \in Lobbies
             THEN SendUp(up, s, [type |-> "kNotifyUserLogout",
                                 id |-> IF conn[u][s].state = "kNotConfirm" THEN NoInfo
                                        ELSE AccountOf[u]])
             ELSE up
    /\ UNCHANGED <<links, down, authority_map, loggedin, clock, history>>

\* OnClose: only a lobby, for a client in state kConfirm, reports a logout.
OnClose(u, s) ==
    /\ conn[u][s].step = "closing"
    /\ conn' = [conn EXCEPT ![u][s].step = "gone"]
    /\ up' = IF s \in Lobbies /\ conn[u][s].state = "kConfirm"
             THEN SendUp(up, s, [type |-> "kNotifyUserLogout", id |-> AccountOf[u]])
             ELSE up
    /\ UNCHANGED <<links, down, authority_map, loggedin, clock, history>>

\* A new RemoteSessionInfo for u's account and address is sent from s to a server of a kind.
RequestUserMigration(u, s, kind, c) ==
    /\ clock < MaxClock
    /\ clock' = clock + 1
    /\ up' = SendUp(up, s, [type |-> "kRequestUserMigration", target |-> kind, user |-> Uuid(u, s),
                            info |-> [clock |-> clock + 1, ip |-> AddressOf[u],
                                      id |-> AccountOf[u], cid |-> c]])
    /\ issued' = issued \union {[clock |-> clock + 1, target |-> kind, account |-> AccountOf[u],
                                 address |-> AddressOf[u], from |-> Uuid(u, s)]}

\* The right password of an account not marked logged in; the other outcomes only send a reply.
HandleLoginRequest(u) ==
    /\ Stored(u, Login)
    /\ ~loggedin[AccountOf[u]]
    /\ RequestUserMigration(u, Login, "kLobbyServer", NoCid)
    /\ UNCHANGED <<links, down, authority_map, conn, loggedin, admitted>>

\* Faulty variant: the address is not compared.
HasAuthority_AnyAddress(u, d) == authority_map[d][AccountOf[u]] # NoInfo

\* authority_map_ at d holds an entry for u's account issued to u's address.
HasAuthority(u, d) ==
    /\ authority_map[d][AccountOf[u]] # NoInfo
    /\ authority_map[d][AccountOf[u]].ip = AddressOf[u]

\* Faulty variant: the entry is left in authority_map_.
ConsumeAuthority_NotErased(u, d) ==
    /\ conn' = [conn EXCEPT ![u][d].state = "kConfirm"]
    /\ admitted' = admitted \union {[clock |-> authority_map[d][AccountOf[u]].clock,
                                     uuid |-> Uuid(u, d)]}
    /\ UNCHANGED authority_map

\* The entry is erased and the connection becomes kConfirm, whatever state it was in.
ConsumeAuthority(u, d) ==
    /\ conn' = [conn EXCEPT ![u][d].state = "kConfirm"]
    /\ authority_map' = [authority_map EXCEPT ![d][AccountOf[u]] = NoInfo]
    /\ admitted' = admitted \union {[clock |-> authority_map[d][AccountOf[u]].clock,
                                     uuid |-> Uuid(u, d)]}

\* A lobby ignores a confirm request without authority; a zone server closes the connection.
\* The packet names the account: it is taken to be the one the program logged in with.
HandleConfirmRequest(u, d) ==
    /\ Stored(u, d)
    /\ \/ /\ HasAuthority(u, d)
          /\ ConsumeAuthority(u, d)
       \/ /\ ~HasAuthority(u, d)
          /\ d \in Zones
          /\ conn' = [conn EXCEPT ![u][d].step = "closing"]
          /\ UNCHANGED <<authority_map, admitted>>
    /\ UNCHANGED <<links, up, down, loggedin, clock, issued>>

\* Faulty variant: the state stays kConfirm.
HandleCharacterSelectRequest_StaysConfirmed(u, d) ==
    /\ Stored(u, d)
    /\ conn[u][d].state = "kConfirm"
    /\ \E c \in Cids : RequestUserMigration(u, d, "kZoneServer", c)
    /\ UNCHANGED <<links, down, authority_map, conn, loggedin, admitted>>

\* Faulty variant: the state is not looked at.
HandleCharacterSelectRequest_AnyState(u, d) ==
    /\ Stored(u, d)
    /\ \E c \in Cids : RequestUserMigration(u, d, "kZoneServer", c)
    /\ conn' = [conn EXCEPT ![u][d].state = "kReserveToMigrate"]
    /\ UNCHANGED <<links, down, authority_map, loggedin, admitted>>

\* Selecting a character; the state changes before the slot is looked at, and a bad slot throws.
HandleCharacterSelectRequest(u, d) ==
    /\ Stored(u, d)
    /\ conn[u][d].state = "kConfirm"
    /\ \/ /\ \E c \in Cids : RequestUserMigration(u, d, "kZoneServer", c)
          /\ conn' = [conn EXCEPT ![u][d].state = "kReserveToMigrate"]
       \/ /\ conn' = [conn EXCEPT ![u][d].state = "kReserveToMigrate", ![u][d].step = "closing"]
          /\ UNCHANGED <<up, clock, issued>>
    /\ UNCHANGED <<links, down, authority_map, loggedin, admitted>>

-----------------------------------------------------------------------------

Intermediate ==
    \/ \E x \in client_storage :
           \/ IntermediateOnClose(x)
           \/ HandleRegisterServer(x)
           \/ HandleRequestUserMigration(x)
           \/ HandleReactSessionAuthorityInfo(x)
           \/ HandleNotifiyUserLogout(x)
    \/ \E x \in erasing : EraseRegistration(x)

Server ==
    \/ \E s \in Servers : ConnectChannel(s) \/ LoseLink(s) \/ ReactUserMigation(s)
    \/ \E d \in Targets : NotifySessionAuthorityInfo(d)

Player ==
    \/ \E u \in Users, s \in Servers : OnActive(u, s) \/ Close(u, s) \/ OnClose(u, s)
    \/ \E u \in Users : HandleLoginRequest(u)
    \/ \E u \in Users, d \in Targets : HandleConfirmRequest(u, d)
    \/ \E u \in Users, d \in Lobbies : HandleCharacterSelectRequest(u, d)

Next == Intermediate \/ Server \/ Player

Spec == Init /\ [][Next]_vars

\* The IO workers keep serving what has arrived; links, players and the operator owe nothing.
Fairness ==
    /\ \A x \in Links : /\ WF_vars(HandleRegisterServer(x))
                        /\ WF_vars(HandleRequestUserMigration(x))
                        /\ WF_vars(HandleReactSessionAuthorityInfo(x))
                        /\ WF_vars(HandleNotifiyUserLogout(x))
    /\ \A s \in Servers : WF_vars(ReactUserMigation(s))
    /\ \A d \in Targets : WF_vars(NotifySessionAuthorityInfo(d))

FairSpec == Spec /\ Fairness

-----------------------------------------------------------------------------
(* Properties.                                                             *)

TypeOK ==
    /\ made \in [Servers -> 0..MaxLinks]
    /\ open \in [Servers -> BOOLEAN]
    /\ \A s \in Servers : open[s] => made[s] > 0
    /\ client_storage \subseteq Links
    /\ server_map \subseteq Links
    /\ erasing \subseteq Links
    /\ up \in [Links -> Seq(Messages)]
    /\ down \in [Links -> Seq(Messages)]
    /\ authority_map \in [Targets -> [Accounts -> Infos \union {NoInfo}]]
    /\ conn \in [Users -> [Servers -> Connections]]
    /\ loggedin \in [Accounts -> BOOLEAN]
    /\ clock \in 0..MaxClock
    /\ issued \subseteq Issues
    /\ admitted \subseteq Admissions

\* A lobby has admitted some connection of this account from this address on an authority
\* created before time k.
LobbyAdmitted(account, address, k) ==
    \E a \in admitted : /\ a.uuid.server \in Lobbies
                        /\ AccountOf[a.uuid.user] = account
                        /\ AddressOf[a.uuid.user] = address
                        /\ a.clock < k

\* Every admission (HandleConfirmRequest at a lobby or a zone server) rests on an authority that
\* was created for that kind of server, account and address; and one at a zone server rests on a
\* selection made after a lobby had admitted the same account from the same address.
AdmittedByRight ==
    \A a \in admitted :
        /\ \E i \in issued : /\ i.clock = a.clock
                             /\ i.target = KindOf[a.uuid.server]
                             /\ i.account = AccountOf[a.uuid.user]
                             /\ i.address = AddressOf[a.uuid.user]
        /\ a.uuid.server \in Zones =>
               LobbyAdmitted(AccountOf[a.uuid.user], AddressOf[a.uuid.user], a.clock)

\* The authority created at time k is in a request, in a notification, in an authority_map_, used.
RequestedAt(k, x, i) ==
    /\ x \in Links /\ i \in 1..Len(up[x])
    /\ up[x][i].type = "kRequestUserMigration" /\ up[x][i].info.clock = k
NotifiedAt(k, x, i) ==
    /\ x \in Links /\ i \in 1..Len(down[x])
    /\ down[x][i].type = "kNotifySessionAuthorityInfo" /\ down[x][i].info.clock = k
GrantedAt(k, d, a) ==
    /\ d \in Targets /\ a \in Accounts
    /\ authority_map[d][a] # NoInfo /\ authority_map[d][a].clock = k
UsedBy(k, a) == a \in admitted /\ a.clock = k

\* All its places.
Requests(k) == UNION {{<<"up", x, i>> : i \in {j \in DOMAIN up[x] : RequestedAt(k, x, j)}} : x \in Links}
Notifications(k) == UNION {{<<"down", x, i>> : i \in {j \in DOMAIN down[x] : NotifiedAt(k, x, j)}} : x \in Links}
Entries(k) == UNION {{<<"entry", d, a>> : a \in {b \in Accounts : GrantedAt(k, d, b)}} : d \in Targets}
Uses(k) == {<<"used", a, 0>> : a \in {b \in admitted : UsedBy(k, b)}}

\* An authority is handed over, never copied: it is in one place at most, whatever is lost,
\* refused or repeated (HandleRequestUserMigration, emplace and erase on authority_map_).
AuthorityInOnePlace == \A k \in 1..MaxClock :
    Cardinality(Requests(k) \union Notifications(k) \union Entries(k) \union Uses(k)) <= 1

\* A player is told to go to a server only once that server holds an authority for the player's
\* account, and it holds it until that account is admitted there: the answer to the origin is
\* sent by the target after it stored the authority.
ToldAfterGrant ==
    \A u \in Users, s \in Servers : \A d \in conn[u][s].told :
        \/ authority_map[d][AccountOf[u]] # NoInfo
        \/ \E a \in admitted : a.uuid.server = d /\ AccountOf[a.uuid.user] = AccountOf[u]

\* However often a lobby connection is confirmed again, it selects a character at most once per
\* authority it consumed: kReserveToMigrate blocks the second selection.
SelectionsPerAdmission ==
    \A u \in Users, d \in Lobbies :
        Cardinality({i \in issued : i.from = Uuid(u, d)})
            <= Cardinality({a \in admitted : a.uuid = Uuid(u, d)})

\* A registration whose object is gone belongs to a lost link whose OnClose is between its two
\* critical sections, never to a server that is connected: only then does GetClient on a uuid of
\* server_map_ return nullptr, and the handler that chose it drops its packet.
RegisteredIsStored ==
    \A x \in server_map : \/ x \in client_storage
                          \/ x \in erasing /\ ~(open[x.server] /\ Link(x.server) = x)

A == INSTANCE Admission

\* The hand-off between the servers implements the cluster's promise.
ImplementsAdmission == A!Spec

\* The request that carries authority k waits at the intermediate server, every server is connected
\* and registered, and the intermediate server has noticed every link that was lost.
Waiting(k) ==
    \E i \in issued :
        /\ i.clock = k
        /\ conn[i.from.user][i.from.server].told = {}
        /\ \A s \in Servers : open[s]
        /\ server_map = {Link(s) : s \in Servers} /\ client_storage = server_map
        /\ \E j \in DOMAIN up[Link(i.from.server)] :
               LET m == up[Link(i.from.server)][j]
               IN m.type = "kRequestUserMigration" /\ m.info.clock = k

\* The player whose request carries authority k has been told where to go, or has left.
Settled(k) ==
    \E i \in issued :
        /\ i.clock = k
        /\ LET c == conn[i.from.user][i.from.server]
           IN c.told # {} \/ c.step # "open" \/ c.n # i.from.n

\* A migration request that arrives while every server is registered, and no lost link is still to be
\* noticed, is answered, even when the target keeps an older entry for the account, unless the
\* player leaves or a link is lost.
RequestsAreAnswered ==
    \A k \in 1..MaxClock : Waiting(k) ~> (Settled(k) \/ \E s \in Servers : ~open[s])
=============================================================================
