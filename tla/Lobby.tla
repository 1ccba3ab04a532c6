-------------------------------- MODULE Lobby --------------------------------
(***************************************************************************)
(* The lobby server's handlers for the characters of an account: the list, *)
(* creation, deletion and selection, at the grain of the database          *)
(* statements and of slot_info_lock.  The packets of one client are        *)
(* handled one after the other, those of several clients at once; the      *)
(* packets that were received before a client was closed are handled       *)
(* after it.  Each statement commits by itself and may throw, with or      *)
(* without having taken effect.                                            *)
(***************************************************************************)
EXTENDS Integers, FiniteSets, ConnectionPool

CONSTANTS Clients,      \* connections, each of which is made once
          Accounts,
          slot_size,
          default_items,\* items that a new character gets
          MaxCids,      \* characters that may be created
          MaxGrants,    \* authorities the login servers may issue
          MaxPackets,   \* packets that may be handled
          MaxFailures   \* statements that may fail

ASSUME LobbyAssumption ==
    /\ Holders = Clients /\ IsFiniteSet(Clients)
    /\ slot_size \in Nat \ {0} /\ default_items \in Nat \ {0}
    /\ MaxCids \in Nat /\ MaxGrants \in Nat /\ MaxPackets \in Nat /\ MaxFailures \in Nat

None == 0                           \* no account
Empty == -1                         \* no character
Slots == 0 .. slot_size - 1
Cids == 1 .. MaxCids

VARIABLES
    authority_map_,     \* accounts with an authority
    client_storage_,    \* clients between OnActive and OnClose
    ended,              \* clients after OnClose
    closed,             \* clients whose session has been closed
    state,              \* Client::state_
    accid,              \* Client::accid_
    slot_info_,         \* the characters each client has been told of
    characters,         \* table characters: [cid, acc, slot]
    next_cid,           \* the id of the next character
    inventoryitems,     \* default items inserted for each character
    requests,           \* migration requests sent to the intermediate server
    h,                  \* what the handler of each client is doing
    grants, packets, failures,
    spoiled             \* history: accounts whose characters two clients changed at once, or that
                        \* changed after a failure (see SlotsAgree)

clients == <<authority_map_, client_storage_, ended, closed, state, accid>>
table == <<characters, next_cid, inventoryitems>>
counters == <<grants, packets, failures>>
vars == <<pool, clients, slot_info_, table, requests, h, counters, spoiled>>

Idle == [pc |-> "idle", next |-> "idle", slot |-> 0, cid |-> 0, todo |-> {}, slot_cid |-> <<>>, n |-> 0]

Init ==
    /\ PoolInit
    /\ authority_map_ = {} /\ client_storage_ = {} /\ ended = {} /\ closed = {}
    /\ state = [c \in Clients |-> "kNotConfirm"]
    /\ accid = [c \in Clients |-> None]
    /\ slot_info_ = [c \in Clients |-> [s \in Slots |-> 0]]
    /\ characters = {} /\ next_cid = 1
    /\ inventoryitems = [i \in Cids |-> 0]
    /\ requests = {}
    /\ h = [c \in Clients |-> Idle]
    /\ grants = 0 /\ packets = 0 /\ failures = 0
    /\ spoiled = {}

-----------------------------------------------------------------------------
(* Helpers. *)

At(c, pc) == h[c].pc = pc
Goto(c, pc) == h' = [h EXCEPT ![c].pc = pc]
Of(a) == {r \in characters : r.acc = a}
Row(cid) == {r \in characters : r.cid = cid}

\* A handler that inserts items holds slot_info_lock shared; all other sections are one step long.
Exclusive == \A c \in Clients : ~At(c, "items")

\* Mutant: the connection is kept when the handler ends.
Finish_Keeps(c) == UNCHANGED <<connection_pool_, lent, made>> /\ h' = [h EXCEPT ![c] = Idle]

\* The handler ends and its connection returns to the pool.
Finish(c) == ReturnConnection(c) /\ h' = [h EXCEPT ![c] = Idle]

\* ProcessPacket catches what the handler throws and closes the client.
Throw(c) ==
    /\ Finish(c)
    /\ closed' = closed \cup {c}
    /\ UNCHANGED <<authority_map_, client_storage_, ended, state, accid>>

\* A statement of c throws: always on a broken connection, and otherwise it may leave it broken.
Fails(c) ==
    IF lent[c] \in broken
    THEN UNCHANGED <<broken, failures>>
    ELSE /\ failures < MaxFailures
         /\ failures' = failures + 1
         /\ broken' \in {broken, broken \cup {lent[c]}}

Works(c) == lent[c] \notin broken
Spoil(accs) == spoiled' = spoiled \cup accs

-----------------------------------------------------------------------------
(* Sessions and authorities. *)

\* The handler of kNotifySessionAuthorityInfo: emplace keeps an older entry.
EmplaceAuthority(a) ==
    /\ grants < MaxGrants
    /\ grants' = grants + 1
    /\ authority_map_' = authority_map_ \cup {a}
    /\ UNCHANGED <<pool, client_storage_, ended, closed, state, accid, slot_info_, table, requests, h,
                   packets, failures, spoiled>>

OnActive(c) ==
    /\ c \notin client_storage_ \cup ended
    /\ client_storage_' = client_storage_ \cup {c}
    /\ UNCHANGED <<pool, authority_map_, ended, closed, state, accid, slot_info_, table, requests, h,
                   counters, spoiled>>

\* The session's socket is gone, because the player left or because Close was called.
OnClose(c) ==
    /\ c \in client_storage_ /\ At(c, "idle")
    /\ client_storage_' = client_storage_ \ {c}
    /\ ended' = ended \cup {c}
    /\ closed' = closed \cup {c}
    /\ UNCHANGED <<pool, authority_map_, state, accid, slot_info_, table, requests, h, counters, spoiled>>

-----------------------------------------------------------------------------
(* Packets. *)

\* ProcessPacket has a packet of c to handle.
Packet(c) ==
    /\ c \in client_storage_ /\ At(c, "idle")
    /\ packets < MaxPackets
    /\ packets' = packets + 1
    /\ UNCHANGED <<grants, failures>>

Start(c, op, slot, cid) ==
    h' = [h EXCEPT ![c] = [Idle EXCEPT !.pc = "connect", !.next = op, !.slot = slot, !.cid = cid]]

\* The packet is refused with Close.
Refuse(c) ==
    /\ closed' = closed \cup {c}
    /\ UNCHANGED <<pool, authority_map_, client_storage_, ended, state, accid, slot_info_, table,
                   requests, h, spoiled>>

\* With an authority; without one the packet changes nothing.
HandleConfirmRequest(c, a) ==
    /\ Packet(c)
    /\ a \in authority_map_
    /\ authority_map_' = authority_map_ \ {a}
    /\ state' = [state EXCEPT ![c] = "kConfirm"]
    /\ accid' = [accid EXCEPT ![c] = a]
    /\ Start(c, "cids", 0, 0)
    /\ IF \E d \in client_storage_ \ {c} : state[d] = "kConfirm" /\ accid[d] = a
         THEN Spoil({a})
         ELSE UNCHANGED spoiled
    /\ UNCHANGED <<pool, client_storage_, ended, closed, slot_info_, table, requests>>

HandleCharacterListRequest(c) ==
    /\ Packet(c)
    /\ state[c] = "kConfirm"
    /\ Start(c, "cids", 0, 0)
    /\ UNCHANGED <<pool, clients, slot_info_, table, requests, spoiled>>

\* Mutant: a taken slot is not refused.
HandleCharacterCreateRequest_Taken(c, slot) ==
    /\ Packet(c)
    /\ state[c] = "kConfirm"
    /\ IF slot \notin Slots
         THEN Refuse(c)
         ELSE /\ next_cid + Cardinality({d \in Clients : h[d].next = "insert"}) \in Cids
              /\ Start(c, "insert", slot, 0)
              /\ IF c \in closed THEN Spoil({accid[c]}) ELSE UNCHANGED spoiled
              /\ UNCHANGED <<pool, clients, slot_info_, table, requests>>

\* The bound on characters counts those that are being created.
HandleCharacterCreateRequest(c, slot) ==
    /\ Packet(c)
    /\ state[c] = "kConfirm"
    /\ IF slot \notin Slots \/ slot_info_[c][slot] # Empty
         THEN Refuse(c)
         ELSE /\ next_cid + Cardinality({d \in Clients : h[d].next = "insert"}) \in Cids
              /\ Start(c, "insert", slot, 0)
              /\ IF c \in closed THEN Spoil({accid[c]}) ELSE UNCHANGED spoiled
              /\ UNCHANGED <<pool, clients, slot_info_, table, requests>>

\* slot may be slot_size (the check is slot > slot_size): what is read behind the array is anything.
HandleCharacterDeleteRequest(c, slot) ==
    /\ Packet(c)
    /\ state[c] = "kConfirm"
    /\ \E cid \in IF slot \in Slots THEN {slot_info_[c][slot]}
                  ELSE IF slot = slot_size THEN Cids \cup {Empty, 0} ELSE {Empty} :
        IF cid = Empty
        THEN Refuse(c)
        ELSE /\ Start(c, "delete", slot, cid)
             /\ UNCHANGED <<pool, clients, slot_info_, table, requests, spoiled>>

\* The state changes before the slot is looked at.
HandleCharacterSelectRequest(c, slot) ==
    /\ Packet(c)
    /\ state[c] = "kConfirm"
    /\ state' = [state EXCEPT ![c] = "kReserveToMigrate"]
    /\ IF slot \notin Slots \/ slot_info_[c][slot] = Empty
         THEN closed' = closed \cup {c} /\ UNCHANGED requests
         ELSE /\ requests' = requests \cup {[client |-> c, acc |-> accid[c], cid |-> slot_info_[c][slot]]}
              /\ UNCHANGED closed
    /\ UNCHANGED <<pool, authority_map_, client_storage_, ended, accid, slot_info_, table, h, spoiled>>

\* A packet of c; a client that is not confirmed may only confirm.
ProcessPacket(c) ==
    \/ \E a \in Accounts : HandleConfirmRequest(c, a)
    \/ HandleCharacterListRequest(c)
    \/ \E slot \in -1 .. slot_size :
        \/ HandleCharacterCreateRequest(c, slot)
        \/ HandleCharacterDeleteRequest(c, slot)
        \/ HandleCharacterSelectRequest(c, slot)

-----------------------------------------------------------------------------
(* The steps of a handler. *)

Connect(c) ==
    /\ At(c, "connect")
    /\ \/ GetConnection(c) /\ Goto(c, h[c].next) /\ UNCHANGED <<clients, failures>>
       \/ /\ failures < MaxFailures /\ failures' = failures + 1
          /\ GetConnectionFails
          /\ h' = [h EXCEPT ![c] = Idle]
          /\ closed' = closed \cup {c}
          /\ UNCHANGED <<authority_map_, client_storage_, ended, state, accid>>
    /\ UNCHANGED <<slot_info_, table, requests, grants, packets, spoiled>>

\* insert into characters
InsertRow(c) ==
    /\ characters' = characters \cup {[cid |-> next_cid, acc |-> accid[c], slot |-> h[c].slot]}
    /\ next_cid' = next_cid + 1
    /\ UNCHANGED inventoryitems

InsertCharacter(c) ==
    /\ At(c, "insert")
    /\ \/ /\ Works(c) /\ InsertRow(c)
          /\ h' = [h EXCEPT ![c].pc = "cid", ![c].next = "idle", ![c].cid = next_cid]
          /\ UNCHANGED <<pool, clients, failures>>
       \/ /\ Fails(c) /\ Throw(c)
          /\ (Works(c) /\ InsertRow(c)) \/ UNCHANGED table
    /\ UNCHANGED <<slot_info_, requests, grants, packets, spoiled>>

\* slot_info_ is written under the lock taken shared, which is kept while the items are inserted.
Remember(c, cid) ==
    /\ slot_info_' = [slot_info_ EXCEPT ![c][h[c].slot] = cid]
    /\ h' = [h EXCEPT ![c].pc = "items", ![c].cid = cid, ![c].n = 0]
    /\ UNCHANGED <<pool, clients>>

\* select cid from characters where name = ?, with names that the database keeps unique.  A fetch that
\* fails counts as a row, and leaves cid as it was.
SelectCid(c) ==
    /\ At(c, "cid")
    /\ \/ /\ Works(c) /\ Row(h[c].cid) # {}
          /\ Remember(c, h[c].cid) /\ UNCHANGED <<failures, spoiled>>
       \/ /\ Works(c) /\ Row(h[c].cid) = {}
          /\ Finish(c) /\ UNCHANGED <<broken, clients, slot_info_, failures, spoiled>>
       \/ /\ Works(c) /\ failures < MaxFailures /\ failures' = failures + 1
          /\ Remember(c, Empty) /\ Spoil({accid[c]})
       \/ Fails(c) /\ Throw(c) /\ UNCHANGED <<slot_info_, spoiled>>
    /\ UNCHANGED <<table, requests, grants, packets>>

\* insert into inventoryitems
InsertItem(c) ==
    /\ At(c, "items")
    /\ \/ /\ Works(c)
          /\ IF h[c].n + 1 = default_items
               THEN Finish(c) /\ UNCHANGED broken
               ELSE h' = [h EXCEPT ![c].n = @ + 1] /\ UNCHANGED pool
          /\ inventoryitems' = IF h[c].cid = Empty THEN inventoryitems
                               ELSE [inventoryitems EXCEPT ![h[c].cid] = @ + 1]
          /\ UNCHANGED <<clients, failures>>
       \/ Fails(c) /\ Throw(c) /\ UNCHANGED inventoryitems
    /\ UNCHANGED <<characters, next_cid, slot_info_, requests, grants, packets, spoiled>>

\* delete from characters: the items of the character stay.
DeleteRow(c) ==
    /\ characters' = characters \ Row(h[c].cid)
    /\ IF c \in closed \/ h[c].slot = slot_size
         THEN Spoil({r.acc : r \in Row(h[c].cid)})
         ELSE UNCHANGED spoiled

DeleteCharacter(c) ==
    /\ At(c, "delete")
    /\ \/ Works(c) /\ DeleteRow(c) /\ Goto(c, "forget") /\ UNCHANGED <<pool, clients, failures>>
       \/ /\ Fails(c) /\ Throw(c)
          /\ (Works(c) /\ DeleteRow(c)) \/ UNCHANGED <<characters, spoiled>>
    /\ UNCHANGED <<next_cid, inventoryitems, slot_info_, requests, grants, packets>>

\* Mutant: the slot of a deleted character keeps its id.
Forget_Kept(c) ==
    /\ At(c, "forget") /\ Exclusive
    /\ Finish(c)
    /\ UNCHANGED <<broken, clients, slot_info_, table, requests, counters, spoiled>>

\* The write behind the array hits nothing that is modelled here.
Forget(c) ==
    /\ At(c, "forget") /\ Exclusive
    /\ slot_info_' = IF h[c].slot \in Slots THEN [slot_info_ EXCEPT ![c][h[c].slot] = Empty] ELSE slot_info_
    /\ Finish(c)
    /\ UNCHANGED <<broken, clients, table, requests, counters, spoiled>>

\* select cid from characters where accid = ?: a fetch that fails counts as a row, for ever.
SelectCids(c) ==
    /\ At(c, "cids")
    /\ \/ /\ Works(c)
          /\ h' = [h EXCEPT ![c].pc = "row", ![c].todo = {r.cid : r \in Of(accid[c])},
                            ![c].slot_cid = [s \in Slots |-> Empty]]
          /\ UNCHANGED <<pool, clients, failures>>
       \/ /\ Works(c) /\ failures < MaxFailures /\ failures' = failures + 1
          /\ Goto(c, "endless") /\ UNCHANGED <<pool, clients>>
       \/ Fails(c) /\ Throw(c)
    /\ UNCHANGED <<slot_info_, table, requests, grants, packets, spoiled>>

\* select slot, ... from characters where cid = ?, and the items: the character may be gone.  A fetch
\* that fails counts as a row whose slot was never set, or as items without end.
SelectCharacter(c) ==
    /\ At(c, "row") /\ h[c].todo # {}
    /\ LET cid == CHOOSE i \in h[c].todo : \A j \in h[c].todo : i <= j
           rest == h[c].todo \ {cid}
       IN  \/ /\ Works(c)
              /\ h' = [h EXCEPT ![c].todo = rest,
                          ![c].slot_cid = [s \in Slots |-> IF \E r \in Row(cid) : r.slot = s THEN cid ELSE @[s]]]
              /\ UNCHANGED <<pool, clients, failures>>
              /\ UNCHANGED spoiled
           \/ /\ Works(c) /\ failures < MaxFailures /\ failures' = failures + 1
              /\ Goto(c, "endless") /\ UNCHANGED <<pool, clients, spoiled>>
           \/ /\ Works(c) /\ failures < MaxFailures /\ failures' = failures + 1
              /\ \E s \in Slots : h' = [h EXCEPT ![c].todo = rest, ![c].slot_cid[s] = cid]
              /\ Spoil({accid[c]}) /\ UNCHANGED <<pool, clients>>
           \/ Fails(c) /\ Throw(c) /\ UNCHANGED spoiled
    /\ UNCHANGED <<slot_info_, table, requests, grants, packets>>

Publish(c) ==
    /\ At(c, "row") /\ h[c].todo = {} /\ Exclusive
    /\ slot_info_' = [slot_info_ EXCEPT ![c] = h[c].slot_cid]
    /\ Finish(c)
    /\ UNCHANGED <<broken, clients, table, requests, counters, spoiled>>

Step(c) ==
    \/ Connect(c)
    \/ InsertCharacter(c) \/ SelectCid(c) \/ InsertItem(c)
    \/ DeleteCharacter(c) \/ Forget(c)
    \/ SelectCids(c) \/ SelectCharacter(c) \/ Publish(c)

Next ==
    \/ \E a \in Accounts : EmplaceAuthority(a)
    \/ \E c \in Clients : OnActive(c) \/ OnClose(c) \/ ProcessPacket(c) \/ Step(c)

Spec == Init /\ [][Next]_vars
-----------------------------------------------------------------------------
(* Properties. *)

Handlers == [pc : {"idle", "connect", "insert", "cid", "items", "delete", "forget", "cids", "row", "endless"},
             next : {"idle", "insert", "delete", "cids"}, slot : 0 .. slot_size,
             cid : Cids \cup {Empty, 0}, todo : SUBSET Cids,
             slot_cid : {<<>>} \cup [Slots -> Cids \cup {Empty}], n : 0 .. default_items - 1]

(* Type invariant.  A handler has a connection of the pool exactly while   *)
(* it executes statements.                                                 *)
TypeOK ==
    /\ PoolTypeOK
    /\ authority_map_ \subseteq Accounts
    /\ client_storage_ \subseteq Clients /\ ended \subseteq Clients /\ closed \subseteq Clients
    /\ state \in [Clients -> {"kNotConfirm", "kConfirm", "kReserveToMigrate"}]
    /\ accid \in [Clients -> Accounts \cup {None}]
    /\ slot_info_ \in [Clients -> [Slots -> Cids \cup {Empty, 0}]]
    /\ characters \subseteq [cid : Cids, acc : Accounts, slot : Slots]
    /\ next_cid \in 1 .. MaxCids + 1
    /\ inventoryitems \in [Cids -> 0 .. default_items]
    /\ requests \subseteq [client : Clients, acc : Accounts, cid : Cids \cup {0}]
    /\ h \in [Clients -> Handlers]
    /\ grants \in 0 .. MaxGrants /\ packets \in 0 .. MaxPackets /\ failures \in 0 .. MaxFailures
    /\ spoiled \subseteq Accounts
    /\ \A c \in Clients : lent[c] # NoConnection <=> ~At(c, "idle") /\ ~At(c, "connect")

(* What a player may do rests on slot_info_ (LobbyServer.cpp:324, 422,     *)
(* 454), which is a copy of the table that is changed in another step.     *)
(* Whenever no packet of a confirmed client is being handled, the copy and *)
(* the table agree exactly: each slot holds the character that is stored   *)
(* for it, and an empty slot has none, so no two characters share a slot.  *)
(* This fails for accounts that are spoiled, and only for them: two        *)
(* clients are confirmed for the account at once; a character is created   *)
(* or deleted by a packet that is handled after the client was closed; the *)
(* character read behind the array by a delete with slot = slot_size is    *)
(* deleted; a fetch fails and is taken for a row (ResultSet.cpp:25).       *)
SlotsAgree ==
    \A c \in client_storage_ \ closed :
        At(c, "idle") /\ state[c] = "kConfirm" /\ accid[c] \notin spoiled =>
            Of(accid[c]) = {[cid |-> slot_info_[c][s], acc |-> accid[c], slot |-> s] :
                               s \in {t \in Slots : slot_info_[c][t] # Empty}}

(* A player is only handed to a zone server with a character that exists   *)
(* and is its own (LobbyServer.cpp:463), although the handler checks       *)
(* nothing but its copy; a client that was closed before its packet was    *)
(* handled, and a spoiled account, are excepted.                           *)
SelectedExists ==
    [][\A r \in requests' \ requests :
           r.client \in closed \/ r.acc \in spoiled \/ \E row \in Row(r.cid) : row.acc = r.acc]_vars
=============================================================================
