# UE4TeamProjectServer: TLA+ models, model checking and proofs

The repository is the server side of a small online game: a login server, lobby servers and zone
servers, an intermediate server that connects them, and the C++ libraries they are built from
(`UE4DevelopmentLibrary`, `UE4Model`). This directory holds TLA+ modules that model parts of it, the
configurations that check them with TLC, and proofs checked by TLAPS.

    tlc -workers 2 -config Migration.cfg MCMigration     # any of the configurations below
    tlapm MatchingProofs.tla                             # any of the modules ...Proofs

`PROJECT.json` is the index: components, runs, the mutants every property is tested with, the
source lines each definition stands for, hazards, findings and theorems.

## 1. The system

    client --login--> LoginServer ---+
    client --confirm, select--> LobbyServer ---+--- TCP ---> IntermediateServer
    client --confirm, play----> ZoneServer  ---+
    each server: TNioServer with NUM_IO_WORKER threads, one ODBC connection pool

| Component | State | Operations | Interacts through | Modules |
|---|---|---|---|---|
| Hand-off of players (`LoginServer.cpp`, `LobbyServer.cpp`, `ZoneServer.cpp`, `IntermediateServer.cpp`) | `authority_map_` and `client_storage_` of each server, `server_map_` | login, select, confirm, four packets of the servers, `OnActive`, `OnClose`, `ConnectChannel` | TCP links through the intermediate server | `Migration`, `Admission` |
| Packets of the servers (`OutputStream`, `InputStream`, `UE4OutPacket`, `RemoteServerInfo`, `RemoteSessionInfo`) | bytes and offsets | write and read integers, strings, infos, each packet | hand-off | `Wire` |
| Sessions and accept loop (`NioServer.hpp`, `NioSession.hpp`) | `session_id_queue_`, session objects, references to sockets, strand | accept, read, send, close, stop, release | every handler and `OnClose` | `Session`, `Connections`, `Locks` |
| Sending and framing (`NioSession.hpp`, `NioBuffer.hpp`, `UE4PacketCipher.hpp`, `OutputStream.cpp`) | `send_release_queue_`, the receive buffer, streams | send, write completion, receive, cut a packet | between socket and handlers | `Stream`, `Channel` |
| Database pool (`ODBCConnectionPool.cpp`) | free connections | get, grow, return | every handler that runs a statement | `ConnectionPool` |
| Character slots (`LobbyServer.cpp`) | tables `characters` and `inventoryitems`, `slot_info_` | list, create, delete, select | hand-off (a selection), database pool | `Lobby` |
| Matchmaking (`MatchingSystem.cpp`, matching packets of `ZoneServer.cpp`) | `match_queue_`, slots and state of each `Match`, weak `match_` of each client | request, cancel, accept, decline, disconnect | zones, locks `match_guard_` and `context_guard_` | `Matching`, `Locks` |
| Zones (`Zone.cpp`, `ZoneSystem.cpp`) | `maps_`, characters of each zone, monster controller, object ids | spawn, remove, change zone, create instance, the update thread | `OnClose`, `Match::Confirm`, game packets | `World`, `Locks` |
| Game packets (`ZoneServer.cpp`) | position, HP, state of characters and monsters | move, attack, hit, be hit, act | broadcasts in a zone, scripts | `Play`, `World` |
| Combat scripts (`PythonScriptEngine.hpp`, `script/`) | a mutex and a module for each script | import, reload, call | game packets | `Scripts`, `Play` |
| Inventory and equipment (`Character.cpp`, `Inventory.cpp`, `Equipment.cpp`) | slots of a character | load, move, merge, equip, take off, drop | inventory updates | `Items`, `Play` |
| Parties, clock and utilities, CSV providers, old NIO library | - | - | not reached by packets, sequential, generated or not built | none |

Packets of one session are handled one at a time (the next `async_read_some` is started after the
handler), those of different sessions at once on the IO workers. Shared containers have a lock each;
several operations take two locks, or release one and take it again in the middle. A `Send` takes a
reference to the socket and may be the last to let go of it; then it runs `OnClose`, with all its locks,
inside of the caller's. No server keeps
anything on disk but the database; a restarted server starts empty.

**What is hard.** The hand-off is a four-message conversation of three processes in which players may
leave, come back, share accounts and overtake each other, and in which links break. Matchmaking runs
under two kinds of locks taken in both orders, with pointers that outlive places in a match. Zones are
changed by handlers, by a clean-up thread and by the deleter of a socket reference, which may run
anywhere, under any lock. Session objects are reused while operations of their last connection are still outstanding.
The lobby answers from a copy of a table that other connections change, statement by statement.
Handlers read a zone or an object id, release the mutex and use what they read. `PROJECT.json` lists 40
such places under `hazards`.

**What makes it correct**, per component: nobody enters a server without an authority created for them
and no authority admits two connections (hand-off); what is written is what is read (packets); a session
id belongs to one connection and is never lost, and a client is gone before its id is used again
(sessions); packets arrive whole, once and in order, buffers live until written and are never left
(sending and framing); a connection is lent to one user and comes back (pool); slots agree with the
database (slots); players who ask for the same dungeon meet, and exactly those who agreed are moved
(matchmaking); a character is in one zone at most and in none after `OnClose`, a dungeon with players
has one controller, which is in it and knows it (zones); every blow counts once, and the right character
is named (game packets); locks are taken in one order, but where `OnClose` and a search of the queue reverse it (locks); a script is never reloaded while it runs (scripts); items are neither lost nor
duplicated (inventory).

## 2. The modules

| Module | What it is |
|---|---|
| `Admission` | abstract: what the cluster promises about who may play |
| `Migration`, `MCMigration` | the hand-off, which implements `Admission`, and its instances |
| `Connections` | abstract: what the network library promises to a server |
| `Session`, `MCSession` | session objects, sockets and accepts, which implement `Connections` |
| `Channel` | abstract: packets arrive once, whole and in order |
| `Stream` | one direction of one connection in bytes, which implements `Channel` |
| `ConnectionPool` | the pool; a module that uses it extends it |
| `Lobby`, `MCLobby` | the lobby's handlers statement by statement, on the pool |
| `Matching`, `MCMatching` | matchmaking at the grain of its locks |
| `World`, `MCWorld` | zones: who is in which dungeon, who controls its monsters, what the update thread drops |
| `Locks`, `MCLocks` | who waits for whose lock in the zone server |
| `Items` | inventory and equipment as functions of what they were |
| `Play`, `MCPlay` | game packets on `Items`, while characters are moved from zone to zone |
| `Wire` | the bytes of the packets between the servers |
| `Scripts` | the script engine's mutexes |
| `MigrationProofs`, `MatchingProofs`, `LobbyProofs`, `WorldProofs`, `SessionProofs`, `StreamProofs` | theorems about the module of that name, section 5 |
| `PlayProofs` | theorems about `Play` and `Items` |
| `LibraryProofs` | theorems about `Wire`, `Scripts` and `Locks` |

Definitions called `<Definition>_<Something>` and commented *Mutant* or *Faulty variant* are not part of a
specification: each is the definition with a plausible bug, and the property it is written for is
violated when it takes the definition's place.

### Migration

The players' side: `OnActive`, `Close` (the connection drops, or the server closes it), `OnClose`
later, `HandleLoginRequest`, `HandleConfirmRequest` at a lobby or a zone server,
`HandleCharacterSelectRequest`. The handler of a client that has been closed may still run: `Stored`
is true until `OnClose`. `conn[u][s]` is what server `s` knows about the connection of user `u`
(`LobbyServer::Client`, `ZoneClient`), with the addresses it has sent the user.

The servers' side: `ConnectChannel` connects and registers; `up` and `down` are the byte streams of a
server's link, FIFO each; `HandleRegisterServer`, `HandleRequestUserMigration`,
`HandleReactSessionAuthorityInfo`, `HandleNotifiyUserLogout` are the intermediate server's handlers;
`NotifySessionAuthorityInfo` and `ReactUserMigation` are the servers'. `LoseLink` breaks a link: what was
on its way is lost, each side notices on its own. The intermediate server's `OnClose` has two critical
sections, with `client->Close()` between them: `IntermediateOnClose` erases the object
(`IntermediateServer.cpp:97-104`), `EraseRegistration` the registration (107-108); `erasing` has the links
in between.

Where the code leaves a choice the model has it too: every server reports 0 connections, so
`GetServerLoadBalance` sees a tie and may return any server of the kind. `RemoteSessionInfo` has a
creation time; here it is a number that identifies the authority (`clock`). Two authorities of the
same account may exist at once, `authority_map_.emplace` keeps the older, and a confirm compares the
account and the address only. `issued` and `admitted` are history variables. A confirm names its account in
the packet (`LobbyServer.cpp:276`, `ZoneServer.cpp:340`); a player of the model names the one it logged in with.

`Admission` has two steps, `Issue` and `Admit`; the mapping of `Migration` to it is the identity on
`issued` and `admitted`, and `ImplementsAdmission` says that every other step of `Migration` leaves
both alone.

### Matching

A handler is a sequence of steps `pc[c]` that ends at `"idle"`:

    RequestMatch  -> lock -> scan ... -> set -> join
    CancelMatch, OnClose -> remove [-> erase]
    HandleMatchingComfirmRequest -> confirm [-> erase_declined  -> cancel ...]
                                            [-> erase_completed -> lookup, move, lookup, ...]

Each step is one critical section, or the part of one up to the next lock: `"scan"` holds
`match_guard_` and needs a `context_guard_` for each match it looks at (`GetMapId`), while the steps
from `"erase"` on hold `context_guard_` and need `match_guard_` (`RemoveMatch`). `held[c]` is the
`shared_ptr` the handler has; a match is alive while it is queued or held, and `match_[c]` is weak.
`moved` and `accepted` are history variables. The step that calls `GetCharacter()` on a client
without a character sets `crashed` and nothing happens after it; so does the completion of a match for a
map without data (outside `Known`): the id is the client's (`ZoneServer.cpp:444`), `CreateNewInstance` returns
a null pointer (`ZoneSystem.cpp:61`) and `Confirm` uses it (`MatchingSystem.cpp:118`). Other locks that are
taken under these two, and `Join`'s `Send`s, are in `Locks`.

`match_queue_` is a list to which new matches with growing ids are appended, so the set of its ids in
increasing order is the list.

### World

A handler is a record `run[c]`: the step it is at and its local variables. The steps of one removal and
one spawn, which every move is made of, are those of `Zone::RemoveCharacter` and
`Zone::SpawnCharacter`, one per critical section:

    HandleConfirmRequest    -> place, emplace                                  (to the town)
    HandleZoneChangeRequest -> snapshot, check ..., create, next
    ConfirmMatch            ->                      create, next
    OnClose                 -> close, oid, find ..., clear

    next    -> leave, find [forget], erase [copy, elect ...], place, emplace, next ... , end
               -------  RemoveCharacter  --------------------  SpawnCharacter

A dungeon exists from `CreateNewInstance` on (`map[z]`); it lives while `maps_` or a handler's
`shared_ptr` (`old`, `to`) holds it, and a character's weak `zone_` is followed by `ZoneOf` only while
it lives. `EraseEmptyDungeon` is the update thread; it needs nothing but an empty `chrs_`.
`ConfirmMatch` stands for the completion of any match: `Matching` shows that its players have agreed,
but not that they have characters, are connected, or are not being moved already, so here they are any
set of clients of the right size. Its map is any, as the client chose it: a dungeon's, the town's, which makes a
second town, or one without data, which takes the server down (`CreateTarget`). The target of a portal is
configuration (`ZoneDataProvider`), which is not in the repository; it is taken to be a map with data. Object ids are counted per zone, as in the code, so two zones may
use the same id. The exceptions of handlers close the connection (`Throw`); a null character or zone in
`Match::Confirm` takes the server down (step `"down"`), after which nothing happens.

`contended` is a history variable: it becomes true when two handlers move one character at once, or when
`TryChangeZone` goes on to move a character of its copy that has left the zone since. Nothing in the
code prevents either, and what follows is listed in section 4; the properties about the agreement of
characters and zones are stated for all behaviours without it.

### Wire

`WriteInt16` and so on are the functions of `OutputStream` as sequences of bytes, little-endian and with
their width (`% 256`, sign in the last two bytes); a reader is a record of the bytes, `access_offset_`,
whether `StreamValidCheck` has thrown, and the values read. For each packet of `InterServerOpcode.hpp` that
a server sends there is a writer (`Registration`, `Request`, `Notification`, `Reaction`, `Answer`,
`Logout`) and the reader of the handler at the other end, under the handler's name. `Migration` says what
the packets do, `Stream` how their bytes travel.

### Session and Connections

The threads that run `io_context` and the thread that calls `Run` and `Stop` each have a record `th[t]`:
the step they are at and their locals. A socket is alive while somebody refers to it (`refs`): `socket_`
of its session, the pending accept, a handler. Whoever drops the last reference runs the deleter
(`Drop`), which is `Close`, `OnClose`, `ReleaseSession` and the next `Accept` in steps of their own,
wherever the thread was: in a broadcast it returns there (`back`). Reads and writes that were
started complete later, also after `Close`, through the strand of the session object, which may have
another connection by then. `HandleAccept` does not go through the strand. Of `OnClose`'s
locks only the zone's guard is here, which a broadcast holds shared, because it decides the order of
`OnClose` and a broadcast; the others are in `Locks`.
`Connections` has `Activate`, `Handle` and `End` of a pair of id and connection; the mapping takes
`client_storage_` with the ids of the sockets.

### Stream and Channel

`Write` and `WriteName` put a field into a stream, which is extended once, to twice its size, if the field
does not fit (`BufferIfShortReallocMemory`); a new stream of the lobby has 64 bytes (`AllocLength`). Names of
characters are the only fields that may be longer: they are read into `char[100]`
(`PacketGenerateHelper.hpp:10`), so up to 100 bytes with the zero. What keeps the second extension from being needed
is where they stand, and the model has this: the first name comes after head, opcode, number of
characters and slot (`FirstName`, 12 bytes at most), the next one after the 17 other values of the character
before it and a slot (`NameGap`, 72 bytes). Other strings fit: a uuid has 37 bytes, an address 16, an account id
50 (`LoginServer.cpp:280`); the zone server writes names to streams of 512 and 1024 bytes (`Zone.cpp:105-106`).

`MakePacketHead` writes the length into the head and `Send` posts the packet: it starts an `async_write` and
keeps the memory in `send_release_queue_` (`Post`). `SendDead` is the one packet that is posted without a head, the
notice that a character has died (`ZoneServer.cpp:576-578`): its head is what the memory held, any of
`StaleHeads`. `Transmit` puts any piece of the bytes under
way, `OnSend` frees everything in the queue, also memory still being written. The other end
receives any piece, closes on overflow, and cuts packets by the head, which is an `int16_t` and may be
negative, split or larger than `NioInPacket`; a length of 2^16 or more loses its high bits when it is
written to the `uint16_t` of the head. Lengths are scaled down, in the order in which the
code has them. `Channel` has `Send`, `Receive` and `Break`; the mapping's `broken` is that freed memory has
been sent, or a packet whose head is not its length (`WrongHead`).

### ConnectionPool and Lobby

`GetConnection` pops or makes `pool_alloc_size_` connections; when making one fails its pointer's deleter
puts the broken connection into the pool all the same. A handler `h[c]` holds one connection while its
`pc` is at a statement: `"insert"`, `"cid"`, `"items"` (create), `"delete"`, `"forget"` (delete), `"cids"`,
`"row"` (list). Each statement commits by itself; it may throw with or without effect
(`MaxFailures`), and a fetch that fails is taken for a row (`ResultSet.cpp:25`), in the loop for ever
(`"endless"`). `slot_info_` is changed in other steps than the table. The packets that were received before
a client was closed are handled after it. `spoiled` is a history variable, an account about whose slots
nothing is promised any more, by one of four exceptions: two clients are confirmed for it at
once; a packet of a closed client creates or deletes a character; the number read behind the array by a
delete with `slot = slot_size` is deleted; a failing fetch is taken for a row. External and assumed: names
are unique in the database, and the driver takes a bind of a parameter the statement does not have
(`LobbyServer.cpp` binds a 17th to 16 markers).

### Items and Play

`Items` has `Inventory`, `Equipment` and `Character`'s operations on them as functions. In `Play` each
handler is cut where it releases `Character::mutex_` or `Monster::mutex_`: the zone is read in one
section, the object id for the broadcast often in a later one (`"build"`), and a change of zone (`SetZoneNull`, `RemoveCharacter`, `SpawnCharacter`, `EnterTheMap`) may
come in between. `HitMonster` and `HitCharacter` are the scripts' effect under the two mutexes: what a script takes off, or
nothing when it fails, for `ReloadExecute` swallows the error and the blow is broadcast all the same
(`PythonScriptEngine.hpp:89-94`). The notice of a death is part of `HitCharacter`; that it has no head is
`Stream`'s matter. Sections under a zone's guard are one step.

### Locks

The state of the zone server's other modules is left out; what remains of a handler is the sequence of
points at which its thread waits for locks. A point says which locks are held there, exclusively or shared,
which are wanted, and at the end of a `Send` or `Close` whose socket is let go of. `Advance` goes to the
next point when the wanted locks are free; `Delete` also runs the deleter of a socket that nobody else refers
to, with the points of `OnClose` under the locks held there. The operators have the names of the functions
and are composed as these call each other: `SpawnCharacter`, `RemoveCharacter` with its `Election`,
`BroadCast`, `RemoveFromMatch`, `OnCloseCalls`; the actions are the packets, the update thread, the three
commands of the console and `Stop`, which the console reaches on `q`. What a call is about (which zone, match,
recipients, whether it is the last player or a controller) is chosen freely, so that every order of locks the
code can produce is there, and some it cannot. The header names the locks that are left out, because their
holder waits for no other.

### Scripts

`Execute` and `ReloadExecute` take the mutex of a script alone to import or reload it, release it, and
take it shared to call a function. `edition` and `least` are history: how often a script was read,
and the oldest edition a worker may call. The interpreter itself is external: the code starts it with
`Py_Initialize` and never takes or releases its lock, so what two workers in it do is undefined.

## 3. Runs

| Run | Configuration | Checks | Instance |
|---|---|---|---|
| `migration` | `Migration.cfg` | `TypeOK`, `AdmittedByRight`, `AuthorityInOnePlace`, `ToldAfterGrant`, `SelectionsPerAdmission`, `ImplementsAdmission` | 2 users, 1 account, 2 addresses, 1 lobby, 1 zone, 3 authorities, no lost link |
| `migration_links` | `MigrationLinks.cfg` | `RegisteredIsStored`, `RequestsAreAnswered` | 1 user, 2 lobbies, 2 links each, 1 lost; fair |
| `session` | `Session.cfg` | `TypeOK`, `IdsConserved`, `NoGhosts`, `FreeIdsAreOffered`, `ImplementsConnections` | 2 workers and the stopping thread, 2 session objects, 2 connections, 2 packets |
| `stream` | `Stream.cfg` | `TypeOK`, `InBounds`, `WaitingIsSafe`, `ImplementsChannel`, `Delivered` | 2 packets of every length up to one that does not fit in its head, names longer than a new stream, a packet without a head, small and large buffers; fair |
| `lobby` | `Lobby.cfg` | `TypeOK`, `PoolConserved`, `SlotsAgree`, `SelectedExists` | 2 clients, 2 accounts, 2 slots, pool of 1, 2 characters, 5 packets, 1 failure |
| `matching` | `Matching.cfg` | `TypeOK`, `OneMatchPerMap`, `NoAbandonedMatch`, `MovesFullParty`, `MovedOnlyIfAccepted` | 3 clients, 2 workers, 1 map with data and 1 without, 2 per match, 2 matches, 2 packets each |
| `matching_hole` | `MatchingHole.cfg` | `ConfirmingMeansFull`, violated | 3 clients, 2 workers |
| `locks` | `Locks.cfg` | `TypeOK`, `OnlyKnownDeadlocks` | 2 workers, update thread, console, 2 connections, 1 zone, 1 match, 1 monster |
| `world` | `World.cfg` | `TypeOK`, `OneZone`, `Controllers`, `GoneIsNowhere` | 2 clients, 2 workers, 1 dungeon whose portal leads to the town, 2 confirms each, 1 move |
| `world_live` | `WorldLive.cfg` | `Controllers`, `DungeonsAreReclaimed` | 2 clients, 1 worker, 2 dungeons in a row, 2 instances, 1 confirm each, 1 move; fair |
| `world_dropped` | `WorldDropped.cfg` | `PutIntoInstance`, violated | 2 clients, 1 worker, 1 dungeon |
| `play` | `Play.cfg` | `TypeOK`, `RightName`, `HitsCount`, `ItemsKept` | 2 players, 2 zones with a monster each, 3 slots with stacks and a sword, 3 packets, 2 moves |

`Wire` and `Scripts` have no run: what is worth saying of them is proved. Before the proofs their
properties were tried with TLC on small instances (scripts: three workers and two files).

**Why the bounds are enough.** Two users of one account at two addresses are what it takes for one
entry of `authority_map_` to stand in another's way; three authorities are two logins and a selection
or the reverse, and an authority of the wrong kind, age or address needs no more. Two lobbies let the
load balancer choose, and two links per server with one lost give a registration of a dead link beside
one of a live one.

In `session` two session objects and two connections are what it takes for one object to be reused while
the other's handler broadcasts to it; sockets in excess of the accepts are those that wait. One run
with three packets (2.0 million states) found nothing more. In `stream` two packets are one in flight
and one behind it, and the lengths go from the smallest packet past the buffer, `NioInPacket` and the
ranges of an `int16_t` and a `uint16_t`, in the order in which the code has them. A name is longer than a new
stream and two fit in one list; the heads that uninitialised memory may hold are 0, one shorter than the
packet, the right one and one longer.

In `lobby` one connection in the pool makes the second handler grow it; two slots are one to
change and one beside it, and the index behind them is allowed as the code allows it; two characters
let one be deleted and a slot be used again; five packets are two confirms, a creation, a deletion and
one more of either client. Two failures were tried as well.

In `Matching`, three clients are one more than a match takes: two in a match and one
who asks, cancels or leaves at the same moment. Two matches are an old one still held and a new one for
the same map; two packets per client are a request and its cancellation or answer. Two workers are a
handler and whoever interferes with it; three were explored with one map and show nothing more. By
`StrayFirst` only the first match may be for the map without data, for its completion ends the run. Where a
bound would hide something, `migration_links` raises it at the expense of another. In `World` two
players are a controller and the one who is elected after it, or two handlers that remove and spawn in
one dungeon; one dungeon and the town are enough for a portal, and `world_live` adds the portal from
dungeon to dungeon and a player that a second match moves out of a dungeon that was dropped; two confirms of a client give a second character on one connection; one move lets
`TryChangeZone` succeed for the party that has one player left and end early for a party of two.
Three clients in `world` have been explored without a violation, but not within the time of a run.

In `locks` one zone, match and monster make every pair of calls meet; the one connection a loop may meet and
another one let a `Send` go to the own socket or to somebody else's. Cycles of more locks and loops of any length
are the theorem's.

In `play` two players strike one monster, or one of them is moved into the other's zone while its
handler is between two reads; a monster takes two blows to die, as a player does, so that a third comes
late; the inventory has two stacks to merge and equipment that may not be stacked.

The bounds are `MaxClock`, `MaxLinks`, `MaxLosses`, `MaxVisits`, `MaxMatches`, `MaxPackets`, `MaxConfirms`,
`MaxInstances`, `MaxMoves`, `MaxAccepts`, `MaxSent`, `MaxLength`, `MaxCids`, `MaxGrants`, `MaxFailures`; the
theorems hold for every value of those of their module; the one state constraint is `StrayFirst`.
`CHECK_DEADLOCK FALSE` is there because players and operators may stop, because the bounds run out, and
because the code's locks do deadlock (`OnlyKnownDeadlocks` says where).

**Symmetry** is used on clients, threads and zones that no definition tells apart, and only in runs that
check no liveness.

**Fairness.** `FairSpec` of `Migration` gives weak fairness to each handler of a packet that has
arrived: `io_context` runs every completion handler and a read is started again after each packet.
Nothing else is fair: a link need not be made, a player need not do anything, and `RequestsAreAnswered`
is about requests that arrive while all servers are registered and ends when a link is lost or the
player leaves. `FairSpec` of `Stream` is fair to TCP, to the read and to the loop that cuts packets, and asks
nothing of the sender. Nothing is claimed to be live that waits for a lock: `std::shared_mutex` promises no fairness,
and the locks can deadlock. `FairSpec` of
`World` gives weak fairness to the next step of a handler and to the update thread, which runs every
millisecond, on one worker and with the locks of `Locks` left out; players need not leave, and the property
begins when all have.

## 4. What the runs show

* **Hand-off.** However players of one account log in, select, confirm, leave and return: every
  admission rests on an authority created for that kind of server, account and address; at a zone it
  follows a lobby's admission (`AdmittedByRight`). An authority is in one place at a time
  (`AuthorityInOnePlace`), a player is sent only to a server that already holds one
  (`ToldAfterGrant`), and selections never outnumber the authorities consumed, although a confirm is
  accepted again on a confirmed connection (`SelectionsPerAdmission`). Together this is the abstract
  `Admission` (`ImplementsAdmission`).
* **Links.** `OnClose` of the intermediate server erases a link's object and then, under another lock, its
  registration. In between the load balancer may choose a server without an object, and the request is dropped;
  `RegisteredIsStored` says that this happens to lost links in that window only, never to a server that is
  connected, and never for good. A request
  that arrives while all servers are registered is answered, even when the target keeps an older entry
  of the account, unless the player leaves or a link is lost (`RequestsAreAnswered`).
* **Sessions.** In every order of completions, accepts, closes and deleters an id is in one place while
  the server runs (`IdsConserved`), a client and its character are gone before their session object is
  given on (`NoGhosts`), no id lies idle unless an exception of `OnConnect` has ended a thread
  (`FreeIdsAreOffered`), and the server sees each connection begin once, end once and have packets in
  between only (`ImplementsConnections`).
* **Locks.** The zone server's threads can wait for each other for ever, and do so in two ways only
  (`OnlyKnownDeadlocks`). Either one of them is in an `OnClose` that its own `Send` or `Close` runs: it then wants
  locks while it holds those of the sender, be it alone (the guard of the zone it broadcasts in, the
  `context_guard_` under which `Join` tells the players, `MatchingSystem.cpp:41-47`) or with others (`Confirm` in its
  `context_guard_` waits for a zone in which a broadcast runs the `OnClose` of a player of that match; two
  broadcasts; `Stop`, which holds `socket_ref_mutex_`). Or `CreateOrFind` holds `match_guard_` and waits for a
  `context_guard_` whose holder waits for `match_guard_` in `RemoveMatch`. All other orders are respected by every handler, the update
  thread and the console: were the election run under the zone's guard, there would be a third.
* **Sending and framing.** Buffers are never left, although a stream is extended once per field, names may be
  longer than its first memory and the receive buffer holds 1024 bytes (`InBounds`). A sender that waits for
  `OnSend` never has memory sent after it was freed (`WaitingIsSafe`); one that does not wait may. Until then, and
  until a packet has a head that is not its length, the connection is a channel (`ImplementsChannel`), and what is
  sent is handed to the program unless the connection is closed or a packet's length is negative for the receiver
  (`Delivered`). Heads are wrong in two cases: a length of 65536 or more, and the death notice, which is
  broadcast without `MakePacketHead` (`ZoneServer.cpp:576-578`) over memory nothing has initialised.
* **Slots and the pool.** Whenever no packet of a confirmed client is handled, `slot_info_` is exactly
  the table's view of its account, unless one of the four exceptions has spoiled it (`SlotsAgree`); a
  migration is only requested for a character that exists and is the account's (`SelectedExists`).
  Connections are neither lost nor lent twice, whatever throws (`PoolConserved`).
* **Matching.** One queued match per map (`OneMatchPerMap`), none left empty (`NoAbandonedMatch`), unanimous full
  parties only (`MovesFullParty`, `MovedOnlyIfAccepted`), whoever leaves meanwhile.
* **Zones.** While a character is not being moved, the zones that hold it are exactly the one it points to
  (`OneZone`) and nobody who has left is in a zone (`GoneIsNowhere`), in all
  behaviours in which no character is moved by two handlers at once. In these the controller of a
  dungeon is always one of its characters, also during a hand-over; its player was told so, and whoever
  was told last that it controls the monsters does so, with one exception. A dungeon can be dropped
  between its creation and the arrival of its players (`world_dropped`). They enter it all the same, the first
  becomes its controller, and when a second match moves that player on, `GetZoneFromWeak` gives no zone to
  remove it from (`MatchingSystem.cpp:130`): nobody tells it that it controls nothing in the next
  (`Stranded`). A dungeon with a connected player and no handler at work has a controller
  in all behaviours: the election copies the characters after the erasure, and whoever is spawned
  after the copy takes the vacant role itself (the three parts of `Controllers`).
  When all have gone and the server is up, every dungeon is dropped
  (`DungeonsAreReclaimed`; with one worker, so that no handler is in another's way).
* **Game packets and items.** A broadcast names its sender by an id the sender has or had in the zone that
  is told, unless it was moved between two reads and its handler reads the id a second time without
  the mutex (`RightName`). Blows of several players whose scripts succeed all count, the zone is told what is
  left, and a failing script changes nothing (`HitsCount`). No sequence of inventory updates makes or loses an item, stacks equipment or writes an
  item through a null pointer (`ItemsKept`).

**Findings** (each is a run that TLC ends with a counterexample):

1. `matching_hole`: a player who leaves while its match asks for confirmation leaves a hole
   (`MatchingSystem.cpp:62`): the match stays `kConfirming`, is found for every later request of the
   map and ignores it.
2. `world_dropped`: a new dungeon is in `maps_` before anybody is in it (`ZoneSystem.cpp:88`), and the
   update thread drops every dungeon without characters (`ZoneSystem.cpp:35`), also that one. The
   players moved there afterwards are in a zone that ends with the handler: they are nowhere, and their
   next attack closes their connection. One IO worker is enough.

**Where code and comments differ without a run.** `LoginServer.cpp:309` answers 2 to a "current connected
id", but nothing sets `loggedin` (the update at 292-295 is commented out), so a connected account logs in
again; in `Migration` a login is accepted at any time. `ZoneServer.cpp:662` gives a maximum overlap count
of 200 that no code enforces; in `Items` stacks are unbounded. After a move into an empty slot the inventory
update tells the player that both slots are empty (`PacketGenerator.cpp:81`). `LoginServer` never sets
its `ServerType`; it registers as a login server because that is 0.

**Behaviours of the code that the models have and no property forbids**, since nothing in the
repository says otherwise. *Locks:* the two ways to wait for ever. *Matching:* a
client that joins a match which its last player has just removed from the queue, and is in a match
nobody can find; a client that has cancelled or was ignored and is refused its next request, because its
weak pointer is set before `Join` and not reset; a decline that resets the weak pointer of a player who has
meanwhile joined another match, who may then ask again and take a second slot of that match (it takes two
clients and three matches, more than the runs have); an acceptance that comes after a decline or after the completing acceptance,
waiting for `context_guard_`, and completes a match that was removed; the null dereference in
`Match::Confirm` for a player who is not confirmed or whose `OnClose` runs between lookup and move, and the
one for a match whose map id has no data (`crashed`). *Hand-off:* an authority that never expires and keeps a
newer one of the account out; a request that is dropped because the chosen server has lost its object and not yet its
registration.
*Zones,* with `contended`: two players of
a dungeon who ask for the portal at once, so that two `TryChangeZone` create two dungeons and a character
ends in both of them; a zone change or a match that moves a character while its `OnClose` removes it,
after which the dungeon keeps it for good and is never dropped; a second confirm on one connection,
which replaces the character and leaves the first in its zone; a second town, made by a match for the town's map,
which nothing drops. *Sessions:* a late completion that closes the
next connection of its session object; a null `socket_` in `OnConnect` (`crashed`).
*Sending:* freed memory that is sent, and the death notice. *Slots:* a character without all its items, a list that fetches
for ever, and what spoils an account.

## 5. What is proved

TLAPS checks these for every value of the constants that satisfies the module's assumption
(`MigrationAssumption`, `NoInfoIsNone`, `MatchingAssumption`, `WorldAssumption`, `LobbyAssumption`, `PoolAssumption`, `PlayAssumption`,
`ItemsAssumption`, `SessionAssumption`, `StreamAssumption`, `LocksAssumption`: sets are disjoint or finite, bounds are numbers, the load of a character is a
list of rows, no thread is called as a holder of a socket that is none, `NioInPacket` is smaller than the range
of a head, and a field is no longer than a new stream's memory but for names of characters, where it is assumed that the first
ends within twice that memory and that what stands between two is longer than it: 12 + 100 <= 128 and
2 + 72 > 64); `Scripts` needs `None` to be no
worker and no file, `Wire` nothing.

| Theorem | Statement |
|---|---|
| `MigrationProofs!TypeCorrect` | `Spec => []TypeOK` |
| `MigrationProofs!AdmissionIsByRight` | `Spec => []AdmittedByRight` |
| `MigrationProofs!AuthorityIsInOnePlace` | `Spec => []AuthorityInOnePlace` |
| `MigrationProofs!AdmissionIsImplemented` | `Spec => ImplementsAdmission`, the refinement of `Admission` |
| `MigrationProofs!RegisteredAreStored` | `Spec => []RegisteredIsStored` |
| `MigrationProofs!SelectionsAreEarned` | `Spec => []SelectionsPerAdmission` |
| `MigrationProofs!ToldAreGranted` | `Spec => []ToldAfterGrant` |
| `MigrationProofs!RequestsAreNotLost` | a request that waits is on its way until it is answered, its player leaves or a link is lost: the safety half of `RequestsAreAnswered` |
| `MatchingProofs!MatchInvariant`, `TypeCorrect` | `Spec => []MatchInv`, `Spec => []TypeOK` |
| `MatchingProofs!PlayersOfOneMapMeet` | `Spec => []OneMatchPerMap` |
| `MatchingProofs!FullPartiesMove` | `Spec => []MovesFullParty` |
| `MatchingProofs!MovedHaveAccepted` | `Spec => []MovedOnlyIfAccepted` |
| `MatchingProofs!NoMatchIsAbandoned` | `Spec => []NoAbandonedMatch` |
| `MatchingProofs!OnlyLocksStop` | who waits for neither `match_guard_` nor a `context_guard_` has the guards of a step |
| `MatchingProofs!HandlersAdvance` | each step brings a handler nearer to its end, and nothing else moves it away |
| `WorldProofs!WorldInvariant`, `TypeCorrect` | `Spec => []WorldInv`, `Spec => []TypeOK` |
| `WorldProofs!CharactersAreInOneZone` | `Spec => []OneZone` |
| `WorldProofs!PlayersLeaveEveryZone` | `Spec => []GoneIsNowhere` |
| `WorldProofs!ControlInvariant`, `ControllersAreRight` | `Spec => []ControlInv`, `Spec => []Controllers` |
| `WorldProofs!HandlersAdvance`, `DungeonsAreEmptied` | each step brings a handler nearer to its end, and players that are gone have left every dungeon empty: the safety half of `DungeonsAreReclaimed` |
| `LobbyProofs!LobbyInvariant`, `TypeCorrect` | `Spec => []LobbyInv`, `Spec => []TypeOK` |
| `LobbyProofs!PoolIsConserved` | `Spec => []PoolConserved` |
| `LobbyProofs!SlotsAlwaysAgree` | `Spec => []SlotsAgree` |
| `LobbyProofs!SelectionsExist` | `Spec => SelectedExists` |
| `SessionProofs!TypeCorrect` | `Spec => []TypeOK` |
| `SessionProofs!IdsAreConserved` | `Spec => []IdsConserved` |
| `SessionProofs!ClientsAreNoGhosts` | `Spec => []NoGhosts` |
| `SessionProofs!AcceptsGoOn` | `Spec => []FreeIdsAreOffered` |
| `SessionProofs!ConnectionsAreImplemented` | `Spec => ImplementsConnections`, the refinement of `Connections` |
| `StreamProofs!TypeCorrect` | `Spec => []TypeOK` |
| `StreamProofs!BuffersAreNotLeft` | `Spec => []InBounds` |
| `StreamProofs!WaitingSendersAreSafe` | `Spec => []WaitingIsSafe` |
| `StreamProofs!ChannelIsImplemented` | `Spec => ImplementsChannel`, the refinement of `Channel` |
| `StreamProofs!NothingStaysBehind` | when nothing is in flight or being cut out, all packets have been received: the safety half of `Delivered` |
| `PlayProofs!PlayInvariant`, `TypeCorrect` | `Spec => []PlayInv`, `Spec => []TypeOK` |
| `PlayProofs!NamesAreRight` | `Spec => []RightName` |
| `PlayProofs!BlowsCount` | `Spec => []HitsCount` |
| `PlayProofs!NoNullItem` | no null item is written, equipment is not stacked |
| `PlayProofs!ItemsAreKept` | `Spec => ItemsKept` |
| `PlayProofs!ChangeKeepsItems`, `ChangeKeepsTotals`, `EquippingKeepsItems`, `InitializeItems` | what the operators of `Items` keep, for all items and slots |
| `LibraryProofs!AuthorityArrives`, `AddressArrives`, `LogoutArrives` | what is read is what was written, along all hops |
| `LibraryProofs!HeadIsLength` | the head is the length below 32768 and negative from there on |
| `LibraryProofs!ScriptsReloadAlone`, `CallsAreOfReadScripts`, `HoldersAreRunning` | the three properties of `Scripts` |
| `LibraryProofs!DeadlocksAreKnown` | `Spec => []OnlyKnownDeadlocks` of `Locks` |

**Migration.** `AdmittedByRight` speaks of admissions alone and is not inductive: the authority an
admission consumes comes out of `authority_map_`, where it came from a packet, and so on back to the
handler that created it. `AdmissionInv` therefore says of every place an authority can be
(`RequestsAreIssued`, `NotificationsAreIssued`, `GrantsAreIssued`) that it was issued
with this kind, account and address; that no authority is newer than the clock, so that "an earlier
lobby admission" survives the issue of the next; and that whoever is `kConfirm` at a lobby was admitted
by it (`ConfirmedAreAdmitted`), so that a selection earns its authority (`ZoneAuthoritiesAreEarned`).
`NeverCopied` says that the places of one authority, which are positions in queues, entries and
admissions, are at most one: each action maps the places after the step to places before it, one to one
(`RequestsStay`, `NotificationsMove`, `GrantsMove`, ...). With it the cardinality in
`AuthorityInOnePlace` and the refinement follow: an admission is of an authority nobody has used.
`SelectionInv` counts requests and admissions per connection, with one admission in hand while it is
`kConfirm`. `ToldInv` follows an answer upstream and downstream: whoever it names holds, or has used, an
authority of the account, and an entry goes only by admitting someone.

*Requests.* `RequestsAreAnswered` needs fairness, which stays with TLC; that there is something for fairness
to act on is proved. `Journey` says where a request can be while all links are up: the request
at the intermediate server, the notification to the target, its reaction, the answer to the
origin. Each handler that takes one of these packets sends the next (`RequestGoesOn`), the last one tells the
player, and no other step touches it. `AskInv` keeps what the handlers rely on: that a request asks for a lobby or a
zone server and carries the authority of the player it names, and that no two authorities have one clock. The theorem assumes that there are a lobby and
a zone server; without a target the intermediate server drops the request (`IntermediateServer.cpp:212`).

**Matching.** `MatchInv` is needed because the state of a critical section is spread over its steps.
`LocksHeld` ties a handler's step to the lock it holds; with it, `SearchedInVain` (a search has seen no
match for its map up to its iterator) can only be disturbed by the holder of `match_guard_`, which gives
`OneMatchPerMap` when `CreateMatch` appends. `FlagsAreAccepted` (a noted acceptance is its player's)
and `CompletedStays` (no acceptance disappears between completion and the last move, for
`context_guard_` is held) together imply `MovesFullParty`, which gives `MovedOnlyIfAccepted` at `Move`.
`NoAbandonedMatch` needs one thing more: a handler in front of `Join` only counts if the match is still
recruiting, for `Join` puts nobody into another (`EmptyIsAttended`). Whoever empties a match holds its
guard and goes on to erase it; a match does not leave `kRecruiting` without a player, and it does not lose
its last player without somebody going to erase it.

*Progress.* A handler that waits for neither of the module's locks has the guards of its next step (`CanStep`): a search that is not at
the end of the queue has a next match, and `Join` finds an empty slot in every match that recruits, although
the match was looked up in an earlier critical section, because the state becomes `kConfirming` in the step
that fills the last slot and nothing fills one later (`RecruitingHasRoom`). That a search has an id for a new match
is the bound of the model (`IdsSuffice`). `Left` numbers the steps: a search looks at each match at most once, for
new matches go to the end of the queue, and `Confirm` walks over the slots once. Each step makes the number
smaller, whatever other handlers do to the queue and the slots in between.

**World.** `OneZone` speaks of characters that no handler has; `WorldInv` says where a character is at each
step of the handler that has it (`MoveFits`): before `find` it is where its pointer says (`Consistent`),
up to the erasure it is in the zone the handler is removing it from and nowhere else, under the object id
the handler has read (`IsLeaving`), then nowhere until `emplace`. The removal finds an entry by its object id,
so that `IdsUnique` is needed: an id belongs to one entry, or to one handler about to make it.
While `contended` is false no other handler has the character (`Contention => contended`), so a step of
another one cannot disturb these facts; a step of the update thread drops only zones in which nobody is.
`LeftAlone` and `GoneHasNone` carry them past `OnClose`. The invariant was also checked by TLC on the
instance of `world`.

`Controllers` needs a second invariant, `ControlInv`, on top of it. A dungeon is without a controller only
while an election is to come for everybody who can be elected (`Vacant`): a handler is before its copy, or
has the character in its copy still. The election reads an object id outside the zone's lock; that it
is the id of an entry needs to know of the character's own handler, if it has one, that its zone is
forgotten after the removal and not before its id is read (`RemovalFits`), and that it is not about to be spawned
there again: nobody is moved to a dungeon it has been in, because the target of a move is new and no two
handlers have the same (`TargetIsNew`). `ToldControls` and `ControllerTold` follow the notices. The town, which
everybody goes to again and again, has no controller (`OnlyDungeons`). `ControlInv` was checked by TLC
on the instance of `world` and on one with two dungeons (5.2 million states) before it was proved; the second
showed that `ControllerKnows` as it stood, without `Stranded`, was false with more than one dungeon.

*Progress.* `Nearer` is an order on what a handler has before it, lexicographic in whether it has its
snapshot, the characters it has still to move, the step of its turn for one of them, and those it still looks
at for an election. Clients need not be finite, so that it is an order of sets by inclusion; with
finitely many clients it has no infinite descent. With all handlers at an end, `GoneIsNowhere` empties the dungeons
(`DungeonsAreEmptied`), and `DungeonsAreReclaimed` adds only that the update thread runs.

**Lobby.** `SlotsAgree` speaks of clients without a handler; `LobbyInv` says what holds at each statement of
each handler (`SlotsFit`: after the insert the table has one row that `slot_info_` has not, after the
delete one less, in a list the rows not yet fetched are those not yet copied), that an account that is not
spoiled has one client that acts (`ActsAlone`), and that a client knows characters of its own only
(`KnowsOwn`). `PoolInv` says that a connection is in the pool once or with one handler. `LobbyInv` was
also checked by TLC on the instance of `lobby` before it was proved (1.2 million states).

**Session.** `IdsConserved` and `NoGhosts` relate ids to whoever refers to a socket, and that is spread over
the threads: `ThreadsHold` ties a thread's step and locals to the references of the sockets
(a handler holds its own, `"send"` the one it sends to), `SessionsHold` and `AcceptsHold` the other two
holders, and `DeletersOwn` and `DeletersDiffer` say that a deleter runs once, when nobody refers to the socket
any more. So a socket is live from `Accept` to `ReleaseSession` without a gap, and the ids of the live sockets and
those in the queue are all different (`IdsOfLive`, `QueuedOnce`, `QueuedNotLive`) and none is missing
(`NoneLost`). `ClientInv` orders the life of a client: the key of a session is its last client's
(`KeysOfIds`), one thread only runs `OnConnect` for a socket and does so before it is a client
(`ConnectOnce`, `NotYetActive`), a client leaves the storage, then the zone, then its id is released (`InZone`,
`ClosedFirst`). The refinement follows: `Activate` needs that no client has the id, which `IdsOfLive` gives.
Most steps leave the references alone (`HoldKept`); the others are `Accept`, the moves of a reference
and `Drop`, each with its lemmas. `SessionInv` was checked by TLC on the instance of `session` first.

**Stream.** `InOrder` is the heart: what has been received is a beginning of what was sent, and the bytes in
the buffer followed by those under way are exactly the packets between the last one received and the
oldest in flight (`Aligned`), until freed memory is sent, a head is wrong (`WrongHead`), or a piece is thrown away
because it does not fit. With it the head at the front of the buffer is that of the next packet, so that
`Decode` cuts off exactly this one; that a packet of `MaxInPacket` is never mistaken is where
`MaxInPacket < HalfRange` is needed. `AllKnown` says that every byte is garbage or a byte of a packet
that was sent, so that a head can be read at all. `Waiting` is what `send_release_queue_` keeps for a
sender that waits; `Written` and `Small` bound the two buffers: what is left between two reads is
less than a packet `NioInPacket` can hold. A stream is extended once per field, by as much as it has; that one
extension is enough for a name longer than a new stream's memory is a matter of where names stand: the first
ends within twice that memory, and by the next one so much has been written that the stream has been extended
before (`Written`). A packet whose head is not its length is not cut off as it was sent; the
proof found the first case of it, a length of 65536 or more that the `uint16_t` of the head cuts off.
`Rested` says that the receiver goes back to reading only when the next packet is not whole in its buffer.
With nothing in flight `Aligned` has every packet that is sent and not received whole in the buffer; so there
is none (`NothingStaysBehind`), which is what `Delivered` comes to once the system may stop.

**Play.** `PlaceInv` fits zones, object ids and moves together: ids of one zone differ, and an id that was
read belongs to the history of its owner unless it was moved (`HandlerInv`); `FightInv` relates the HP to the
blows struck and not yet told; `GoodsInv` is about the items. The total of an item is the cardinality of the set
of its pieces, numbered within each slot, so that no induction is needed: a change of positions leaves the pieces of
all slots but two, and these two have as many as before (`ChangeKeepsTotals`). `ItemsKept` follows step by step;
no packet changes the equipment.

**Wire.** A reader `Holds` the bytes still to be read; each writer is a concatenation of fields and each field
is read by its lemma (`ReadsInt32`, `ReadsString`, ...), so that a packet's theorem is a chain of its
fields. `AuthorityArrives` goes over two packets: a clock loses its milliseconds at the first hop and
nothing at the second. `AddressArrives` follows a port through its casts.

**Locks.** `LegalInv` says that every point of every call is in the order of `Rank` (`context_guard_`, then
`match_guard_`, `map_guard_` and `client_storage_guard_`, then the mutexes of characters and monsters, then
`object_guard_`, then `socket_ref_mutex_`), or is a search of `match_queue_`, which holds `match_guard_` and
wants a `context_guard_`, or belongs to an `OnClose` under other locks. It is kept because the calls are
composed of legal parts, one lemma each. In a set of threads in which everybody waits for another one, follow a
wait to the lock it is for, and on from its holder: without such an `OnClose` the rank goes up until a
search is met. The search waits for a `context_guard_`; whoever holds that one waits for a lock of a higher rank, which
only a search can hold, and so for `match_guard_`: these two are `Reversed` (`KnownIfLegal`). The theorem is stated in
`LibraryProofs` through `Zone == INSTANCE Locks`.

**Only model-checked:** liveness and `ENABLED` are out of the provers' reach. Of `RequestsAreAnswered`,
`DungeonsAreReclaimed` and `Delivered` the safety halves are proved (`RequestsAreNotLost`, `HandlersAdvance`
with `DungeonsAreEmptied`, `NothingStaysBehind`); that fair steps are taken in the end is TLC's. So is
`TypeOK` of `Locks`, which also says that two threads never hold locks that exclude each other. All
other invariants, action properties and refinements are proved.

## 6. What is not modelled

* *Dead code*, about a third of the lines under `src/`: `Nio/Backup`, the second copy of the headers,
  `TestServer`, the generator of CSV code and its output; `MatchSystem::Find`, `Clear`, `Match::SetState`,
  `Character::UseConsumeItem`, `Inventory::Write` and `Read` (called by nothing; the one
  writes an `int32_t` 0 where the other reads an `int8_t`); parties (`PartySystem`: no packet reaches them);
  `kUpdateServerConnection` (no server sends it).
* *The other end.* The game's client is not in the repository, so that the layout of its packets has no
  reader to agree with; what they make the server do is modelled, their fields as far as the server
  or a property reads them. Nobody is told when a character leaves a zone: there is no such packet.
* *Outside.* The database (statements are modelled by their effect on the two tables), the Python
  interpreter, TCP, the operating system's sockets.
* *Sequential start and console*: reading of configuration, `main`, timers, and what the console commands print
  (`Locks` has the locks they take).
* *Locks of the other servers* are not in `Locks`. The intermediate server sends under the shared
  `server_map__guard_` (`IntermediateServer.cpp:232-244`), and an `OnClose` run by that `Send` wants the same lock
  alone: the first way to wait for ever once more.
* *Accounts.* `LoginServer` creates an unknown account by a select and an insert in two statements
  (223-259), so that two first logins may insert twice; whether the table has a unique key is not in the
  repository. A wrong password is a reply without a change of state.
* *Arithmetic* of damage, stats and positions in floating point; NPCs (empty functions) and the updates of
  monsters, which do nothing that a player's packet reads.
* *The intermediate server's restart*: the servers reconnect as after a lost link, but it would register
  them anew.
* *Undefined behaviour of containers*: `slot_info_` is written under a shared lock and
  `ZoneClient::match_` under none; the models have the writes as steps, not what two at once do to the memory.

## 7. Plan

What is left, in order of use: `World` with three clients; `Play`'s attacks with more than one monster per
zone.
