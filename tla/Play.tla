-------------------------------- MODULE Play --------------------------------
(***************************************************************************)
(* The zone server's handlers for what players do in a zone: they move,    *)
(* attack, are attacked and rearrange their items, while matches and       *)
(* portals move them from zone to zone (module World has those, and the    *)
(* end of a connection).  The grain is that of Character::mutex_ and       *)
(* Monster::mutex_; sections under a zone's guard are one step long.       *)
(* Object ids are counted by each zone for itself, so one id means         *)
(* different characters in different zones.                                *)
(***************************************************************************)
EXTENDS Items, FiniteSets

CONSTANTS Clients,      \* players, each with one character
          Zones,        \* zones, each with one monster
          Nowhere,      \* the empty weak pointer
          Loads,        \* what table inventoryitems may hold for a character
          MobHp,        \* HP of a new monster
          ChrHp,        \* HP of a character after StatUpdate
          MaxPackets,   \* packets that may be handled
          MaxMoves      \* moves between zones

MobDamage == 100                \* script AttackMonster
ChrDamage == 10                 \* script AttackCharacter
MobOid == 0                     \* AddMonster takes the first id of a zone

ASSUME PlayAssumption ==
    /\ Nowhere \notin Zones /\ Cardinality(Clients) <= Cardinality(Zones)
    /\ \A rows \in Loads : IsLoad(rows)
    /\ MobHp \in Nat /\ ChrHp \in Nat \ {0} /\ MaxPackets \in Nat /\ MaxMoves \in Nat

VARIABLES
    zone_,              \* Character::zone_
    object_id_,         \* the object id of each character
    last_object_id_,    \* the counter of each zone
    chrs_,              \* <<object id, client>> of the characters in each zone
    hp,                 \* HP of the characters
    mob,                \* the monster of each zone
    items,              \* inventory and equipment of each character
    crashed,            \* an item was written to a packet through a null pointer
    closed,             \* connections closed by an exception
    move,               \* the change of zone each character is in
    h,                  \* what the handler of each client is doing
    packets, moves,
    ids,                \* history: <<zone, object id>> that each character had
    strikes,            \* history: hits on each monster whose script succeeded
    told,               \* history: the HP of each monster that was broadcast last
    named,              \* history: the broadcasts about characters
    deaths              \* history: death notices for each character

place == <<zone_, object_id_, last_object_id_, chrs_, move, moves, ids>>
fight == <<hp, mob, strikes, told, deaths>>
goods == <<items, crashed>>
vars == <<place, fight, goods, closed, h, packets, named>>

Idle == [pc |-> "idle", kind |-> "none", zone |-> Nowhere, oid |-> 0, hp |-> 0, moved |-> FALSE]
NoMove == [pc |-> "no", zone |-> Nowhere, oid |-> 0]
Unchecked == {"position", "attack", "mobattack", "action"}  \* packets whose object id is not compared
Kinds == Unchecked \cup {"wait", "sprint", "rolling", "hit"}

\* The characters have entered zones of their own, next to the monster.
Init ==
    /\ zone_ \in {f \in [Clients -> Zones] : \A c, d \in Clients : f[c] = f[d] => c = d}
    /\ object_id_ = [c \in Clients |-> MobOid + 1]
    /\ last_object_id_ = [z \in Zones |-> IF \E c \in Clients : zone_[c] = z THEN MobOid + 2 ELSE MobOid + 1]
    /\ chrs_ = [z \in Zones |-> {<<MobOid + 1, c>> : c \in {d \in Clients : zone_[d] = z}}]
    /\ hp = [c \in Clients |-> ChrHp]
    /\ mob = [z \in Zones |-> [hp |-> MobHp, state |-> "kAlive"]]
    /\ items \in [Clients -> {Initialize(rows) : rows \in {r \in Loads : ~Crashes(r)}}]
    /\ crashed = FALSE
    /\ closed = {}
    /\ move = [c \in Clients |-> NoMove]
    /\ h = [c \in Clients |-> Idle]
    /\ packets = 0 /\ moves = 0
    /\ ids = [c \in Clients |-> {<<zone_[c], MobOid + 1>>}]
    /\ strikes = [z \in Zones |-> 0]
    /\ told = [z \in Zones |-> MobHp]
    /\ named = {}
    /\ deaths = [c \in Clients |-> 0]

-----------------------------------------------------------------------------
(* Locks: a handler keeps the mutexes of its character and of a monster    *)
(* while it strikes, all other sections are one step long.                 *)

At(c, pc) == h[c].pc = pc
ChrFree(c) == ~At(c, "strike")
MobFree(z) == ~ \E c \in Clients : At(c, "strike") /\ h[c].zone = z
Finish(c) == h' = [h EXCEPT ![c] = Idle]
\* Mutant: the HP may go below zero.
Above0_Not(n) == n

Above0(n) == IF n < 0 THEN 0 ELSE n

\* A packet in zone z that names oid as the object id of the character of c.
Name(c, z, oid) ==
    named' = named \cup {[kind |-> h[c].kind, moved |-> h[c].moved, right |-> <<z, oid>> \in ids[c]]}

-----------------------------------------------------------------------------
(* A change of zone, by the thread of any player. *)

\* TryChangeZone and Match::Confirm take the character out of its zone,
SetZoneNull(c) ==
    /\ ChrFree(c) /\ move[c].pc = "no" /\ moves < MaxMoves /\ zone_[c] # Nowhere
    /\ moves' = moves + 1
    /\ move' = [move EXCEPT ![c] = [pc |-> "remove", zone |-> zone_[c], oid |-> object_id_[c]]]
    /\ zone_' = [zone_ EXCEPT ![c] = Nowhere]
    /\ UNCHANGED <<object_id_, last_object_id_, chrs_, ids, fight, goods, closed, h, packets, named>>

\* RemoveCharacter erases it,
RemoveCharacter(c) ==
    /\ ChrFree(c) /\ move[c].pc = "remove"
    /\ chrs_' = [chrs_ EXCEPT ![move[c].zone] = {p \in @ : p[1] # move[c].oid}]
    /\ move' = [move EXCEPT ![c].pc = "spawn"]
    /\ UNCHANGED <<zone_, object_id_, last_object_id_, moves, ids, fight, goods, closed, h, packets, named>>

\* and SpawnCharacter gives it the next id of another zone
SpawnCharacter(c, z) ==
    /\ ChrFree(c) /\ move[c].pc = "spawn" /\ z # move[c].zone
    /\ last_object_id_' = [last_object_id_ EXCEPT ![z] = @ + 1]
    /\ object_id_' = [object_id_ EXCEPT ![c] = last_object_id_[z]]
    /\ zone_' = [zone_ EXCEPT ![c] = z]
    /\ ids' = [ids EXCEPT ![c] = @ \cup {<<z, last_object_id_[z]>>}]
    /\ move' = [move EXCEPT ![c] = [pc |-> "enter", zone |-> z, oid |-> last_object_id_[z]]]
    /\ h' = [h EXCEPT ![c].moved = ~At(c, "idle")]
    /\ UNCHANGED <<chrs_, moves, fight, goods, closed, packets, named>>

\* and enters it there.
EnterTheMap(c) ==
    /\ ChrFree(c) /\ move[c].pc = "enter"
    /\ chrs_' = [chrs_ EXCEPT ![move[c].zone] = @ \cup {<<move[c].oid, c>>}]
    /\ move' = [move EXCEPT ![c] = NoMove]
    /\ UNCHANGED <<zone_, object_id_, last_object_id_, moves, ids, fight, goods, closed, h, packets, named>>

-----------------------------------------------------------------------------
(* Packets: the first section of their handlers, under the mutex of the    *)
(* character.                                                              *)

Packet(c) ==
    /\ At(c, "idle") /\ packets < MaxPackets
    /\ packets' = packets + 1
    /\ UNCHANGED <<place, fight, goods, named>>

\* The handler goes on at pc with the zone and the id it has read.
Goes(c, kind, pc) ==
    /\ h' = [h EXCEPT ![c] = [Idle EXCEPT !.pc = pc, !.kind = kind, !.zone = zone_[c], !.oid = object_id_[c]]]
    /\ UNCHANGED closed

\* Mutant: the packet is made after the mutex is released.
NotifyFromLock_Late(c, kind) ==
    /\ Packet(c) /\ kind \in {"wait", "rolling"}
    /\ zone_[c] # Nowhere
    /\ Goes(c, kind, "build")

\* HandleCharacterWait and HandleRequestRolling: the packet gets the id that is read with the zone.
\* (What carries another id, and what finds no zone, ends here.)
NotifyFromLock(c, kind) ==
    /\ Packet(c) /\ kind \in {"wait", "rolling"}
    /\ zone_[c] # Nowhere
    /\ Goes(c, kind, "send")

\* HandleChrPositionNotify and HandleCharacterSprint: the packet is made of the character afterwards.
NotifyUnlocked(c, kind) ==
    /\ Packet(c) /\ kind \in {"position", "sprint"}
    /\ zone_[c] # Nowhere
    /\ Goes(c, kind, "build")

\* HandleCharacterAttackMotion, HandleCharacterHitSuccess and HandleMonsterAttack throw when they
\* find no zone, which closes the connection.  The dead are not attacked.
Attack(c, kind, pc) ==
    /\ Packet(c)
    /\ IF zone_[c] = Nowhere
         THEN closed' = closed \cup {c} /\ UNCHANGED h
         ELSE Goes(c, kind, pc)

HandleCharacterAttackMotion(c) == Attack(c, "attack", "build")
HandleCharacterHitSuccess(c) == Attack(c, "hit", "aim")
HandleMonsterAttack(c) == hp[c] # 0 /\ Attack(c, "mobattack", "aim")

HandleMonsterActionNotify(c) == Packet(c) /\ zone_[c] # Nowhere /\ Goes(c, "action", "aim")

\* Indices outside of the inventory are a bad request.  The reply holds what is in the two slots now.
HandleInventoryUpdate(c, slot1, slot2) ==
    /\ At(c, "idle") /\ packets < MaxPackets
    /\ packets' = packets + 1
    /\ IF {slot1, slot2} \subseteq Index
         THEN /\ items' = [items EXCEPT ![c].inventory = ChangeInventoryItemPosition(@, slot1, slot2)]
              /\ crashed' = (crashed \/ WritesNull(items'[c].inventory, slot1, slot2))
              /\ UNCHANGED closed
         ELSE closed' = closed \cup {c} /\ UNCHANGED goods
    /\ UNCHANGED <<place, fight, h, named>>

ProcessPacket(c) ==
    \/ \E kind \in {"wait", "rolling"} : NotifyFromLock(c, kind)
    \/ \E kind \in {"position", "sprint"} : NotifyUnlocked(c, kind)
    \/ HandleCharacterAttackMotion(c)
    \/ HandleCharacterHitSuccess(c)
    \/ HandleMonsterAttack(c)
    \/ HandleMonsterActionNotify(c)
    \/ \E slot1, slot2 \in -1 .. inventory_size - 1 : HandleInventoryUpdate(c, slot1, slot2)

-----------------------------------------------------------------------------
(* The rest of the handlers. *)

\* The object id is read again, without the mutex.
Build(c) ==
    /\ At(c, "build")
    /\ h' = [h EXCEPT ![c].pc = "send", ![c].oid = object_id_[c]]
    /\ UNCHANGED <<place, fight, goods, closed, packets, named>>

BroadCast(c) ==
    /\ At(c, "send")
    /\ Name(c, h[c].zone, h[c].oid)
    /\ Finish(c)
    /\ UNCHANGED <<place, fight, goods, closed, packets>>

\* Mutant: the mutex of the monster is not taken.
Aim_OneLock(c) ==
    /\ At(c, "aim") /\ h[c].kind \in {"hit", "mobattack"}
    /\ h' = [h EXCEPT ![c].pc = "strike", ![c].hp = IF h[c].kind = "hit" THEN mob[h[c].zone].hp ELSE hp[c]]
    /\ UNCHANGED <<place, fight, goods, closed, packets, named>>

\* Both mutexes of a strike are taken at once; the script reads the HP of its victim.
Aim(c) ==
    /\ At(c, "aim") /\ h[c].kind \in {"hit", "mobattack"}
    /\ MobFree(h[c].zone)
    /\ h' = [h EXCEPT ![c].pc = "strike", ![c].hp = IF h[c].kind = "hit" THEN mob[h[c].zone].hp ELSE hp[c]]
    /\ UNCHANGED <<place, fight, goods, closed, packets, named>>

\* What a blow's script takes off: nothing if it fails, which ReloadExecute swallows.
Blows(damage) == {0, damage}

\* The HP goes down and everyone in the zone is told, with the object id the character has by now.
HitMonster(c) ==
    LET z == h[c].zone
    IN  /\ At(c, "strike") /\ h[c].kind = "hit"
        /\ \E blow \in Blows(MobDamage) :
              LET left == Above0(h[c].hp - blow)
              IN  /\ mob' = [mob EXCEPT ![z] = [hp |-> left, state |-> IF left = 0 THEN "kDead" ELSE @.state]]
                  /\ strikes' = [strikes EXCEPT ![z] = IF blow = 0 THEN @ ELSE @ + 1]
                  /\ told' = [told EXCEPT ![z] = left]
        /\ Name(c, z, object_id_[c])
        /\ Finish(c)
        /\ UNCHANGED <<place, hp, deaths, goods, closed, packets>>

\* The notice of a death names whom the packet named; it is sent without a head (module Stream).
HitCharacter(c) ==
    /\ At(c, "strike") /\ h[c].kind = "mobattack"
    /\ \E blow \in Blows(ChrDamage) :
          LET left == Above0(h[c].hp - blow)
          IN  /\ hp' = [hp EXCEPT ![c] = left]
              /\ deaths' = [deaths EXCEPT ![c] = IF left = 0 THEN @ + 1 ELSE @]
    /\ Name(c, h[c].zone, object_id_[c])
    /\ Finish(c)
    /\ UNCHANGED <<place, mob, strikes, told, goods, closed, packets>>

\* Any player may set the state of a monster, also of a dead one, while the zone has a controller.
SetMonsterState(c) ==
    /\ At(c, "aim") /\ h[c].kind = "action" /\ MobFree(h[c].zone)
    /\ \E state \in {"kAlive", "kDead"} : mob' = [mob EXCEPT ![h[c].zone].state = state]
    /\ Finish(c)
    /\ UNCHANGED <<place, hp, strikes, told, deaths, goods, closed, packets, named>>

Next ==
    \E c \in Clients :
        \/ SetZoneNull(c) \/ RemoveCharacter(c) \/ EnterTheMap(c)
        \/ \E z \in Zones : SpawnCharacter(c, z)
        \/ ProcessPacket(c)
        \/ Build(c) \/ BroadCast(c) \/ Aim(c) \/ HitMonster(c) \/ HitCharacter(c) \/ SetMonsterState(c)

Spec == Init /\ [][Next]_vars

-----------------------------------------------------------------------------
(* Properties. *)

(* Type invariant.  A character is in the zone it points to, unless it is  *)
(* being moved.                                                            *)
TypeOK ==
    /\ zone_ \in [Clients -> Zones \cup {Nowhere}]
    /\ object_id_ \in [Clients -> Nat] /\ last_object_id_ \in [Zones -> Nat]
    /\ hp \in [Clients -> 0 .. ChrHp]
    /\ mob \in [Zones -> [hp : 0 .. MobHp, state : {"kAlive", "kDead"}]]
    /\ \A c \in Clients : /\ IsInventory(items[c].inventory) /\ IsEquipment(items[c].equipment)
                          /\ ids[c] \subseteq Zones \X Nat
    /\ closed \subseteq Clients /\ crashed \in BOOLEAN
    /\ move \in [Clients -> [pc : {"no", "remove", "spawn", "enter"}, zone : Zones \cup {Nowhere}, oid : Nat]]
    /\ h \in [Clients -> [pc : {"idle", "build", "send", "aim", "strike"}, kind : Kinds \cup {"none"},
                          zone : Zones \cup {Nowhere}, oid : Nat, hp : Nat, moved : BOOLEAN]]
    /\ packets \in 0 .. MaxPackets /\ moves \in 0 .. MaxMoves
    /\ named \subseteq [kind : Kinds, moved : BOOLEAN, right : BOOLEAN]
    /\ \A z \in Zones : strikes[z] \in Nat /\ told[z] \in 0 .. MobHp
    /\ \A c \in Clients : move[c].pc = "no" => <<object_id_[c], c>> \in chrs_[zone_[c]]

(* A broadcast names the sender by the id it has, or had, in the zone that *)
(* is told, and not by the id of another player there: object ids are      *)
(* counted per zone.  Handlers that read the id together with the zone are *)
(* always right; the others (ZoneServer.cpp:395, 483, 525, 569, 636) read  *)
(* it once more after the mutex was released, and are wrong only when the  *)
(* character was given to another zone in between.                         *)
RightName ==
    \A n \in named : n.right \/ (n.moved /\ n.kind \notin {"wait", "rolling"})

(* Hits of several players on one monster all count whose script succeeds, *)
(* none of them twice, and what the zone was told last is what the monster *)
(* has: the script reads and writes the HP in a section of its own, and    *)
(* the report is sent before the mutexes are released                      *)
(* (ZoneServer.cpp:514-527).  A character dies once (546, 573).            *)
HitsCount ==
    /\ \A z \in Zones :
        /\ mob[z].hp = Above0(MobHp - MobDamage * strikes[z])
        /\ told[z] = mob[z].hp
    /\ \A c \in Clients : deaths[c] = (IF hp[c] = 0 THEN 1 ELSE 0)

\* What slot j has of an item, and how many there are of it in all slots.
CountAt(inventory, j, item) ==
    IF j \in DOMAIN inventory /\ inventory[j].item = item THEN inventory[j].count ELSE 0
Pieces(inventory, item) == UNION {{j} \X (1 .. CountAt(inventory, j, item)) : j \in Index}
Total(inventory, item) == Cardinality(Pieces(inventory, item))

(* No sequence of inventory updates makes or loses an item: moving,        *)
(* swapping and merging stacks keep the number of each item, and            *)
(* equipment is not stacked (Character.cpp:282-291).  And the reply never  *)
(* writes an item that is not there, although PacketGenerator.cpp:81 tests *)
(* the other slot before it writes this one.                               *)
ItemsKept ==
    [][~crashed' /\ \A c \in Clients :
        /\ \A item \in ItemIds : Total(items'[c].inventory, item) = Total(items[c].inventory, item)
        /\ items'[c].equipment = items[c].equipment
        /\ \A i \in DOMAIN items'[c].inventory :
               items'[c].inventory[i].item \in Equips => items'[c].inventory[i].count = 1]_vars
=============================================================================
