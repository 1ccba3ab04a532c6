-------------------------------- MODULE World --------------------------------
(***************************************************************************)
(* Zones of the zone server: the town, dungeon instances, who is in them   *)
(* and who controls their monsters.  Characters enter the town when their  *)
(* player confirms, are moved to a new dungeon by Match::Confirm and on to *)
(* the next map by Zone::TryChangeZone, and leave when the connection      *)
(* closes.  The update thread drops dungeons without characters.           *)
(*                                                                         *)
(* Handlers of different sessions run at once.  A step is one critical     *)
(* section (of a character, of a zone's characters or of maps_) with the   *)
(* unlocked code up to the next.  Some of them wait inside another's (the  *)
(* moves of Match::Confirm in its context_guard_, the update thread for a  *)
(* zone's characters in map_guard_, a Send for its socket): who waits for  *)
(* whom is module Locks's, and makes no difference to the state here.      *)
(* Object ids count per zone.                                              *)
(***************************************************************************)
EXTENDS Naturals, FiniteSets

CONSTANTS Clients,      \* client objects of the zone server
          Maps,         \* map ids with data
          Town,         \* map 100
          NextMap,      \* [Maps \ {Town} -> Maps]: where a dungeon's portal leads
          PartySize,    \* players of a match
          Workers,      \* NUM_IO_WORKER
          None,         \* a null pointer, MobControllerNullValue
          MaxConfirms,  \* bound: authorities each client consumes
          MaxInstances, \* bound: dungeons created
          MaxMoves      \* bound: times a player comes near a portal or goes away

ASSUME WorldAssumption ==
    /\ Town \in Maps
    /\ NextMap \in [Maps \ {Town} -> Maps]
    /\ None \notin Clients \union Maps \union Nat \union (Clients \X Nat)
    /\ {PartySize, Workers} \subseteq Nat \ {0}
    /\ {MaxConfirms, MaxInstances, MaxMoves} \subseteq Nat

\* ZoneSystem::Initialize creates the town first, as instance 0.
TownInstance == 0
Instances == 0..MaxInstances

\* The n-th Character made for a client; its weak client pointer is set once.
Characters == Clients \X (1..MaxConfirms)
ClientOf(x) == x[1]

Steps == {"idle", "snapshot", "check", "create", "next", "leave", "find", "forget", "erase",
          "copy", "elect", "place", "emplace", "close", "oid", "clear", "down"}

\* A handler: its step and its local variables.
Handlers ==
    [step : Steps,
     job : {"none", "confirm", "change", "party", "close"},
     old : Instances \union {None},          \* the zone characters leave
     to : Instances \union {None},           \* the zone they go to
     todo : SUBSET (Clients \union Characters),  \* party: players; change: characters still to move
     chr : Characters \union {None},         \* the character being moved
     oid : Nat \union {None},                \* its object id as read or given
     copy : SUBSET Characters]               \* characters to check, to forget or to elect from

NoHandler == [step |-> "idle", job |-> "none", old |-> None, to |-> None, todo |-> {},
              chr |-> None, oid |-> None, copy |-> {}]

VARIABLES
    conn,            \* [Clients -> "open", "closing" or "gone" (OnClose has erased it)]
    character,       \* [Clients -> Characters or None]
    confirms,        \* [Clients -> Nat]: authorities consumed
    moves,           \* Nat: positions reported
    zone,            \* [Characters -> Instances or None]: the weak pointer
    oid,             \* [Characters -> Nat or None]
    at_portal,       \* [Characters -> BOOLEAN]: its location is near its zone's portal
    map,             \* [Instances -> Maps, or None before it is created]
    maps_,           \* the instances the ZoneSystem holds
    chrs,            \* [Instances -> set of entries: object id and character]
    controller,      \* [Instances -> Nat or None]: monster_controller_id_
    last_object_id,  \* [Instances -> Nat]
    told,            \* [Clients -> BOOLEAN]: what the last SetMonsterController said
    run,             \* [Clients -> Handlers]: the handler that runs for the client
    contended        \* history: two handlers have moved one character at once

clients == <<conn, character, confirms, moves>>
characters == <<zone, oid, at_portal>>
system == <<map, maps_>>
zones == <<chrs, controller, told, last_object_id>>
vars == <<clients, characters, system, zones, run, contended>>

Entries == [oid : Nat, chr : Characters]
Inside(z) == {e.chr : e \in chrs[z]}
IsDungeon(z) == map[z] # Town

Busy(c) == run[c].step # "idle"
At(c, step) == run[c].step = step
Goto(c, step) == run' = [run EXCEPT ![c].step = step]
GotoWith(c, step, copy) == run' = [run EXCEPT ![c].step = step, ![c].copy = copy]

\* SetMonsterController to the clients of the characters.
Tell(chars, value) == told' = [c \in Clients |-> IF c \in {ClientOf(x) : x \in chars} THEN value ELSE told[c]]
Finish(c) == run' = [run EXCEPT ![c] = NoHandler]

Stored(c) == conn[c] # "gone"

\* A client object lives while it is stored, its handler runs or a handler is moving its character.
Lives(c) == Stored(c) \/ Busy(c) \/ \E d \in Clients : run[d].chr # None /\ ClientOf(run[d].chr) = c

\* A zone lives while maps_, town_ or a handler holds it.
Alive(z) ==
    z = TownInstance \/ z \in maps_ \/ \E c \in Clients : run[c].old = z \/ run[c].to = z

\* GetZoneFromWeak.
ZoneOf(x) == IF zone[x] # None /\ Alive(zone[x]) THEN zone[x] ELSE None

Init ==
    /\ conn = [c \in Clients |-> "open"]
    /\ character = [c \in Clients |-> None]
    /\ confirms = [c \in Clients |-> 0]
    /\ moves = 0
    /\ zone = [x \in Characters |-> None]
    /\ oid = [x \in Characters |-> None]
    /\ at_portal = [x \in Characters |-> FALSE]
    /\ map = [z \in Instances |-> IF z = TownInstance THEN Town ELSE None]
    /\ maps_ = {TownInstance}
    /\ chrs = [z \in Instances |-> {}]
    /\ controller = [z \in Instances |-> None]
    /\ told = [c \in Clients |-> FALSE]
    /\ last_object_id = [z \in Instances |-> 0]
    /\ run = [c \in Clients |-> NoHandler]
    /\ contended = FALSE

-----------------------------------------------------------------------------
(* Packets and connections.                                                *)

\* An IO worker is free to handle something for a client that no worker is busy with.
Starts(c) ==
    /\ Stored(c)
    /\ ~Busy(c)
    /\ Cardinality({d \in Clients : Busy(d)}) < Workers
    /\ UNCHANGED <<system, zones>>

Begin(c, handler) == run' = [run EXCEPT ![c] = handler]

\* The connection drops; its OnClose comes later.
Close(c) ==
    /\ conn[c] = "open"
    /\ conn' = [conn EXCEPT ![c] = "closing"]
    /\ UNCHANGED <<character, confirms, moves, characters, system, zones, run>>

\* Faulty variant: no authority is needed.
HandleConfirmRequest_Always(c) ==
    /\ Starts(c)
    /\ confirms' = [confirms EXCEPT ![c] = @ + 1]
    /\ LET x == <<c, confirms[c] + 1>>
       IN /\ character' = [character EXCEPT ![c] = x]
          /\ Begin(c, [NoHandler EXCEPT !.step = "place", !.job = "confirm",
                                        !.to = TownInstance, !.chr = x])
    /\ UNCHANGED <<conn, moves, characters>>

\* An authority was found: a new character, which goes to the town.
HandleConfirmRequest(c) ==
    /\ Starts(c)
    /\ confirms[c] < MaxConfirms
    /\ confirms' = [confirms EXCEPT ![c] = @ + 1]
    /\ LET x == <<c, confirms[c] + 1>>
       IN /\ character' = [character EXCEPT ![c] = x]
          /\ Begin(c, [NoHandler EXCEPT !.step = "place", !.job = "confirm",
                                        !.to = TownInstance, !.chr = x])
    /\ UNCHANGED <<conn, moves, characters>>

\* The player comes near its zone's portal, or goes away from it.
HandleChrPositionNotify(c) ==
    /\ Starts(c)
    /\ character[c] # None
    /\ moves < MaxMoves
    /\ moves' = moves + 1
    /\ at_portal' = [at_portal EXCEPT ![character[c]] = ~@]
    /\ UNCHANGED <<conn, character, confirms, zone, oid, run>>

\* The exception that ends a handler closes the connection.
Throw(c) ==
    /\ conn[c] = "open"
    /\ conn' = [conn EXCEPT ![c] = "closing"]
    /\ UNCHANGED run

\* An attack without a character or a zone is an error.
HandleCharacterAttackMotion(c) ==
    /\ Starts(c)
    /\ character[c] # None => ZoneOf(character[c]) = None
    /\ Throw(c)
    /\ UNCHANGED <<character, confirms, moves, characters>>

\* A request to leave through the portal: an error in the town, ignored without a zone.
HandleZoneChangeRequest(c) ==
    /\ Starts(c)
    /\ character[c] # None
    /\ LET z == ZoneOf(character[c])
       IN /\ z # None
          /\ \/ ~IsDungeon(z) /\ Throw(c)
             \/ /\ IsDungeon(z)
                /\ Begin(c, [NoHandler EXCEPT !.step = "snapshot", !.job = "change", !.old = z])
                /\ UNCHANGED conn
    /\ UNCHANGED <<character, confirms, moves, characters>>

\* Match::Confirm goes on to move the players of a completed match, whoever they are.
ConfirmMatch(c) ==
    /\ Starts(c)
    /\ \E party \in SUBSET Clients :
          /\ Cardinality(party) = PartySize
          /\ Begin(c, [NoHandler EXCEPT !.step = "create", !.job = "party", !.todo = party])
    /\ UNCHANGED <<clients, characters>>

\* ZoneServer::OnClose: the client leaves client_storage_.
OnClose(c) ==
    /\ Starts(c)
    /\ conn[c] = "closing"
    /\ conn' = [conn EXCEPT ![c] = "gone"]
    /\ IF character[c] = None THEN UNCHANGED run
       ELSE Begin(c, [NoHandler EXCEPT !.step = "close", !.job = "close", !.chr = character[c]])
    /\ UNCHANGED <<character, confirms, moves, characters>>

-----------------------------------------------------------------------------
(* Zone::TryChangeZone and the moves of Match::Confirm.                    *)

\* The zone's characters are copied once, for the check and for the moves.
Snapshot(c) ==
    /\ At(c, "snapshot")
    /\ run' = [run EXCEPT ![c] = [@ EXCEPT !.step = "check", !.todo = Inside(run[c].old),
                                           !.copy = Inside(run[c].old)]]
    /\ UNCHANGED <<clients, characters, system, zones>>

\* Each of them must be near the portal; with the first one that is not the request ends.
Check(c) ==
    /\ At(c, "check")
    /\ \/ /\ run[c].copy = {}
          /\ Goto(c, "create")
       \/ \E x \in run[c].copy :
             IF at_portal[x] THEN run' = [run EXCEPT ![c].copy = @ \ {x}] ELSE Finish(c)
    /\ UNCHANGED <<clients, characters, system, zones>>

\* ZoneSystem::CreateNewInstance: a new dungeon in maps_, with no characters.
CreateNewInstance(c, m) ==
    \E z \in Instances :
        /\ map[z] = None
        /\ \A y \in Instances : y < z => map[y] # None
        /\ map' = [map EXCEPT ![z] = m]
        /\ maps_' = maps_ \union {z}
        /\ run' = [run EXCEPT ![c].step = "next", ![c].to = z]

\* Where they go: the town or a new dungeon through a portal; from a match, a new zone of the map
\* that its first player has named: a dungeon's, the town's (nothing drops a second town), or one
\* without data, and with it without a zone to go to, a null pointer.
CreateTarget(c) ==
    /\ At(c, "create")
    /\ \/ /\ run[c].job = "party"
          /\ \/ \E m \in Maps : CreateNewInstance(c, m)
             \/ Goto(c, "down") /\ UNCHANGED system
       \/ /\ run[c].job = "change"
          /\ NextMap[map[run[c].old]] # Town
          /\ CreateNewInstance(c, NextMap[map[run[c].old]])
       \/ /\ run[c].job = "change"
          /\ NextMap[map[run[c].old]] = Town
          /\ run' = [run EXCEPT ![c].step = "next", ![c].to = TownInstance]
          /\ UNCHANGED system
    /\ UNCHANGED <<clients, characters, zones>>

\* Everybody has been moved.
Done(c) ==
    /\ At(c, "next")
    /\ run[c].todo = {}
    /\ Finish(c)
    /\ UNCHANGED <<clients, characters, system, zones>>

\* TryChangeZone: the next character, skipped if its client is no more.
NextCharacter(c) ==
    /\ At(c, "next")
    /\ run[c].job = "change"
    /\ \E x \in run[c].todo :
          run' = [run EXCEPT ![c].todo = @ \ {x},
                             ![c].step = IF Lives(ClientOf(x)) THEN "leave" ELSE "next",
                             ![c].chr = IF Lives(ClientOf(x)) THEN x ELSE None]
    /\ UNCHANGED <<clients, characters, system, zones>>

\* Match::Confirm: the next player, skipped if it has left; one without a character is a null
\* pointer and the server goes down.
NextPlayer(c) ==
    /\ At(c, "next")
    /\ run[c].job = "party"
    /\ \E d \in run[c].todo :
          run' = [run EXCEPT ![c].todo = @ \ {d},
                             ![c].step = IF ~Stored(d) THEN "next"
                                         ELSE IF character[d] = None THEN "down" ELSE "leave",
                             ![c].chr = IF Stored(d) THEN character[d] ELSE None]
    /\ UNCHANGED <<clients, characters, system, zones>>

\* Faulty variant: the character is not removed from the zone it leaves.
Leave_NotRemoved(c) ==
    /\ At(c, "leave")
    /\ LET x == run[c].chr
           old == IF run[c].job = "party" THEN ZoneOf(x) ELSE run[c].old
       IN /\ run' = [run EXCEPT ![c].step = "place", ![c].old = old, ![c].oid = oid[x]]
          /\ zone' = [zone EXCEPT ![x] = None]
    /\ UNCHANGED <<clients, oid, at_portal, system, zones>>

\* Its object id is read and its zone forgotten; Match::Confirm reads the zone, too, and has nothing
\* to remove it from when there is none.
Leave(c) ==
    /\ At(c, "leave")
    /\ LET x == run[c].chr
           old == IF run[c].job = "party" THEN ZoneOf(x) ELSE run[c].old
       IN /\ run' = [run EXCEPT ![c].step = IF old = None THEN "place" ELSE "find",
                                ![c].old = old, ![c].oid = oid[x]]
          /\ zone' = [zone EXCEPT ![x] = None]
    /\ UNCHANGED <<clients, oid, at_portal, system, zones>>

-----------------------------------------------------------------------------
(* Zone::RemoveCharacter.                                                  *)

\* The character under the object id in the zone, if any.
Find(c) ==
    /\ At(c, "find")
    /\ LET found == {e.chr : e \in {f \in chrs[run[c].old] : f.oid = run[c].oid}}
       IN run' = [run EXCEPT ![c].step = IF found = {} THEN "erase" ELSE "forget",
                             ![c].copy = found]
    /\ UNCHANGED <<clients, characters, system, zones>>

Forget(c) ==
    /\ At(c, "forget")
    /\ zone' = [x \in Characters |-> IF x \in run[c].copy THEN None ELSE zone[x]]
    /\ Goto(c, "erase")
    /\ UNCHANGED <<clients, oid, at_portal, system, zones>>

\* What follows on RemoveCharacter.
AfterRemove(c) == IF run[c].job = "close" THEN "clear" ELSE "place"

\* Faulty variant: nobody is elected when the controller leaves.
Erase_NoElection(c) ==
    /\ At(c, "erase")
    /\ LET z == run[c].old
           controls == IsDungeon(z) /\ controller[z] = run[c].oid
       IN /\ chrs' = [chrs EXCEPT ![z] = {e \in @ : e.oid # run[c].oid}]
          /\ controller' = [controller EXCEPT ![z] = IF controls THEN None ELSE @]
          /\ Tell(IF controls THEN run[c].copy ELSE {}, FALSE)
          /\ GotoWith(c, AfterRemove(c), {})
    /\ UNCHANGED <<clients, characters, system, last_object_id>>

\* Faulty variant: the controller keeps its role when it leaves.
Erase_KeepsController(c) ==
    /\ At(c, "erase")
    /\ chrs' = [chrs EXCEPT ![run[c].old] = {e \in @ : e.oid # run[c].oid}]
    /\ GotoWith(c, AfterRemove(c), {})
    /\ UNCHANGED <<clients, characters, system, controller, told, last_object_id>>

\* The entry is erased; the controller of a dungeon gives its role up and is told so, and another
\* is elected.
Erase(c) ==
    /\ At(c, "erase")
    /\ LET z == run[c].old
           controls == IsDungeon(z) /\ controller[z] = run[c].oid
       IN /\ chrs' = [chrs EXCEPT ![z] = {e \in @ : e.oid # run[c].oid}]
          /\ controller' = [controller EXCEPT ![z] = IF controls THEN None ELSE @]
          /\ Tell(IF controls THEN run[c].copy ELSE {}, FALSE)
          /\ GotoWith(c, IF controls THEN "copy" ELSE AfterRemove(c), {})
    /\ UNCHANGED <<clients, characters, system, last_object_id>>

CopyCharacters(c) ==
    /\ At(c, "copy")
    /\ GotoWith(c, "elect", Inside(run[c].old))
    /\ UNCHANGED <<clients, characters, system, zones>>

\* x can be elected: its client lives and it has not left the zone.
Electable(x, z) == Lives(ClientOf(x)) /\ ZoneOf(x) = z

\* The first one that can be elected becomes the controller, unless there is one by now; its mutex is
\* kept until it is told.
Elect(c) ==
    /\ At(c, "elect")
    /\ LET z == run[c].old
       IN \/ /\ run[c].copy = {}
             /\ Goto(c, AfterRemove(c))
             /\ UNCHANGED <<controller, told>>
          \/ \E x \in run[c].copy :
                /\ Electable(x, z)
                /\ controller' = [controller EXCEPT ![z] = IF @ = None THEN oid[x] ELSE @]
                /\ Tell(IF controller[z] = None THEN {x} ELSE {}, TRUE)
                /\ GotoWith(c, AfterRemove(c), {})
          \/ \E x \in run[c].copy :
                /\ ~Electable(x, z)
                /\ run' = [run EXCEPT ![c].copy = @ \ {x}]
                /\ UNCHANGED <<controller, told>>
    /\ UNCHANGED <<clients, characters, system, chrs, last_object_id>>

-----------------------------------------------------------------------------
(* Zone::SpawnCharacter, the rest of OnClose and the update thread.        *)

\* A new object id of the zone, its spawn point and the zone itself go to the character.
Place(c) ==
    /\ At(c, "place")
    /\ LET x == run[c].chr
           z == run[c].to
       IN /\ last_object_id' = [last_object_id EXCEPT ![z] = @ + 1]
          /\ oid' = [oid EXCEPT ![x] = last_object_id[z]]
          /\ zone' = [zone EXCEPT ![x] = z]
          /\ at_portal' = [at_portal EXCEPT ![x] = FALSE]
          /\ run' = [run EXCEPT ![c].step = "emplace", ![c].oid = last_object_id[z]]
    /\ UNCHANGED <<clients, system, chrs, controller, told>>

\* The character enters the zone; in a dungeon without a controller it becomes the controller.
Emplace(c) ==
    /\ At(c, "emplace")
    /\ LET z == run[c].to
           controls == IsDungeon(z) /\ controller[z] = None
       IN /\ chrs' = [chrs EXCEPT ![z] = @ \union {[oid |-> run[c].oid, chr |-> run[c].chr]}]
          /\ controller' = [controller EXCEPT ![z] = IF controls THEN run[c].oid ELSE @]
          /\ Tell(IF controls THEN {run[c].chr} ELSE {}, TRUE)
    /\ IF run[c].job = "confirm" THEN Finish(c)
       ELSE run' = [run EXCEPT ![c].step = "next", ![c].chr = None, ![c].oid = None]
    /\ UNCHANGED <<clients, characters, system, last_object_id>>

\* Faulty variant: OnClose does not remove the character from its zone.
ReadZone_NotRemoved(c) ==
    /\ At(c, "close")
    /\ Goto(c, "clear")
    /\ UNCHANGED <<clients, characters, system, zones>>

\* OnClose: the zone the character is in, if any.
ReadZone(c) ==
    /\ At(c, "close")
    /\ LET z == ZoneOf(run[c].chr)
       IN run' = [run EXCEPT ![c].step = IF z = None THEN "clear" ELSE "oid", ![c].old = z]
    /\ UNCHANGED <<clients, characters, system, zones>>

\* Its object id, read without the character's lock.
ReadObjectId(c) ==
    /\ At(c, "oid")
    /\ run' = [run EXCEPT ![c].step = "find", ![c].oid = oid[run[c].chr]]
    /\ UNCHANGED <<clients, characters, system, zones>>

Clear(c) ==
    /\ At(c, "clear")
    /\ zone' = [zone EXCEPT ![run[c].chr] = None]
    /\ character' = [character EXCEPT ![c] = None]
    /\ Finish(c)
    /\ UNCHANGED <<conn, confirms, moves, oid, at_portal, system, zones>>

\* The update thread drops a dungeon without characters.
EraseEmptyDungeon(z) ==
    /\ z \in maps_
    /\ IsDungeon(z)
    /\ chrs[z] = {}
    /\ maps_' = maps_ \ {z}
    /\ UNCHANGED <<clients, characters, map, zones, run>>

-----------------------------------------------------------------------------

\* Two handlers move one character, or TryChangeZone takes a character of its snapshot that has
\* left the zone in the meantime.
Contention ==
    \/ \E c, d \in Clients : c # d /\ run[c].chr # None /\ run[c].chr = run[d].chr
    \/ \E c \in Clients : /\ At(c, "leave") /\ run[c].job = "change"
                          /\ zone[run[c].chr] # run[c].old
Watch == contended' = (contended \/ Contention')

\* The next step of the handler that is running for c.
Step(c) ==
    /\ \/ Snapshot(c) \/ Check(c) \/ CreateTarget(c)
       \/ Done(c) \/ NextCharacter(c) \/ NextPlayer(c) \/ Leave(c)
       \/ Find(c) \/ Forget(c) \/ Erase(c) \/ CopyCharacters(c) \/ Elect(c)
       \/ Place(c) \/ Emplace(c)
       \/ ReadZone(c) \/ ReadObjectId(c) \/ Clear(c)
    /\ Watch

\* Something happens to the client's connection.
Event(c) ==
    /\ \/ Close(c) \/ OnClose(c)
       \/ HandleConfirmRequest(c) \/ HandleChrPositionNotify(c)
       \/ HandleCharacterAttackMotion(c) \/ HandleZoneChangeRequest(c) \/ ConfirmMatch(c)
    /\ Watch

Update(z) == EraseEmptyDungeon(z) /\ Watch

\* The server has not been taken down by a null pointer.
Up == \A c \in Clients : ~At(c, "down")

Next ==
    /\ Up
    /\ \/ \E c \in Clients : Event(c) \/ Step(c)
       \/ \E z \in Instances : Update(z)

Spec == Init /\ [][Next]_vars

\* The IO workers go on with what they have started, and the update thread runs.
FairSpec ==
    /\ Spec
    /\ \A c \in Clients : WF_vars(Up /\ Step(c))
    /\ \A z \in Instances : WF_vars(Up /\ Update(z))

-----------------------------------------------------------------------------
(* Properties.                                                             *)

TypeOK ==
    /\ conn \in [Clients -> {"open", "closing", "gone"}]
    /\ character \in [Clients -> Characters \union {None}]
    /\ confirms \in [Clients -> 0..MaxConfirms]
    /\ moves \in 0..MaxMoves
    /\ zone \in [Characters -> Instances \union {None}]
    /\ oid \in [Characters -> Nat \union {None}]
    /\ at_portal \in [Characters -> BOOLEAN]
    /\ map \in [Instances -> Maps \union {None}]
    /\ maps_ \subseteq Instances
    /\ chrs \in [Instances -> SUBSET Entries]
    /\ controller \in [Instances -> Nat \union {None}]
    /\ told \in [Clients -> BOOLEAN]
    /\ last_object_id \in [Instances -> Nat]
    /\ run \in [Clients -> Handlers]
    /\ contended \in BOOLEAN

\* No handler is moving or removing the character.
Settled(x) == \A c \in Clients : run[c].chr # x

\* A character is in one zone at most, and its pointer agrees: while nobody is moving it, the zones
\* that have an entry for it are exactly the one it points to.  (SpawnCharacter, RemoveCharacter;
\* unless two handlers have moved one character at once.)
OneZone ==
    ~contended => \A x \in Characters :
        Settled(x) => {z \in Instances : Alive(z) /\ x \in Inside(z)} = {ZoneOf(x)} \ {None}

\* The controller of a dungeon's monsters is a character in that dungeon, also while it is being
\* handed over to another (compare_exchange in RemoveCharacter and SpawnCharacter).  And however
\* removals, spawns and elections interleave, a dungeon with a connected player's character has a
\* controller as soon as no handler is working on the dungeon.
ControllerInside ==
    ~contended => \A z \in Instances :
        controller[z] # None => \E e \in chrs[z] : e.oid = controller[z]
ControllerElected ==
    \A z \in Instances :
        /\ map[z] \notin {None, Town}
        /\ \A c \in Clients : run[c].old # z /\ run[c].to # z
        /\ \E x \in Inside(z) : ZoneOf(x) = z /\ Stored(ClientOf(x))
        => controller[z] # None
\* And a player knows: its client was last told that it controls the monsters if it does, and only if
\* it does unless it has been put into a dungeon that was dropped, although the controller is elected
\* by one thread, removed by another and told by each.  Nothing removes a character from a dropped
\* dungeon, so a controller of one is not told that it is none.
Stranded(x) == \E z \in Instances : ~Alive(z) /\ x \in Inside(z)
ControllerKnows ==
    ~contended => \A z \in Instances : Alive(z) => \A e \in chrs[z] :
        LET c == ClientOf(e.chr)
        IN  confirms[c] = 1 =>
              /\ controller[z] = e.oid => told[c]
              /\ told[c] => controller[z] = e.oid \/ Stranded(e.chr)
Controllers == ControllerInside /\ ControllerElected /\ ControllerKnows

\* A player whose OnClose is over has left no character in any zone, however its moves and the
\* close interleave (a second confirm on one connection leaves the first character in the town).
GoneIsNowhere ==
    ~contended => \A c \in Clients :
        conn[c] = "gone" /\ ~Busy(c) /\ confirms[c] = 1 /\ Settled(<<c, 1>>) =>
            \A z \in Instances : Alive(z) => <<c, 1>> \notin Inside(z)

\* When all players have gone, every dungeon is dropped, unless two handlers have moved one
\* character at once or the server went down.  (A second town stays.)
DungeonsAreReclaimed ==
    \A z \in Instances :
        IsDungeon(z) /\ z \in maps_ /\ (\A c \in Clients : conn[c] = "gone")
            ~> (z \notin maps_ \/ contended \/ ~Up)

\* MatchingSystem.cpp:116, "create a new map instance and put them there" (in Korean): when no
\* handler is running, the instance a character was put into exists.
PutIntoInstance ==
    \A x \in Characters : (\A c \in Clients : ~Busy(c)) /\ zone[x] # None => Alive(zone[x])
=============================================================================
