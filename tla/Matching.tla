------------------------------ MODULE Matching ------------------------------
(***************************************************************************)
(* Matchmaking in the zone server.  Players ask for a dungeon; the         *)
(* MatchSystem puts them into a Match, which asks everyone once it is full *)
(* and moves them into a new dungeon once everyone has accepted.           *)
(*                                                                         *)
(* Packets of one session are handled one at a time, those of different    *)
(* sessions on different IO workers at once, so handlers are modelled at   *)
(* the grain of the locks they take: match_guard_ of the MatchSystem and   *)
(* context_guard_ of each Match.  A step is one critical section, or the   *)
(* part of one up to the next lock it needs.  A Match lives while it is in *)
(* match_queue_ or a handler holds a pointer to it; a client's match_ is   *)
(* weak.  Other locks that are taken under these two, and the Sends under  *)
(* them, which may run another client's OnClose, are in module Locks.      *)
(***************************************************************************)
EXTENDS Naturals, Sequences, FiniteSets

CONSTANTS Clients,     \* client objects of the zone server (UUIDs)
          Maps,        \* map ids that clients ask for
          Known,       \* those with data: a dungeon can be created
          MatchSize,   \* max_match_count
          Workers,     \* NUM_IO_WORKER: handlers that run at once
          None,        \* an empty slot, a free lock, a null pointer
          MaxMatches,  \* bound: matches created
          MaxPackets   \* bound: matching packets each client sends

Ids == 1..MaxMatches
Slots == 1..MatchSize
Matches == [state : {"kRecruiting", "kConfirming", "kCompleted"}, mapid : Maps,
            slots : [Slots -> [key : Clients \union {None}, ok : BOOLEAN]]]

ASSUME MatchingAssumption ==
    /\ None \notin Clients \union Nat \union Matches
    /\ Known \subseteq Maps
    /\ {MatchSize, Workers} \subseteq Nat \ {0}
    /\ {MaxMatches, MaxPackets} \subseteq Nat

VARIABLES
    conn,           \* [Clients -> "open", "closing" or "gone" (OnClose has erased it)]
    character,      \* [Clients -> BOOLEAN]: confirmed, and GetCharacter() is not null
    match_,         \* [Clients -> Ids or None]: the client's weak pointer
    packets,        \* [Clients -> Nat]: matching packets handled
    pc,             \* [Clients -> Steps]: where the client's handler is
    held,           \* [Clients -> Ids or None]: the Match its handler holds a pointer to
    at,             \* [Clients -> Nat]: its iterator, the last match or the current slot
    arg,            \* [Clients -> Maps or BOOLEAN]: the content of the packet it handles
    match_guard,    \* the client whose handler holds match_guard_, or None
    context_guard,  \* [Ids -> the client whose handler holds context_guard_, or None]
    match_queue,    \* the ids in match_queue_; new ones are larger and go to its end
    match_id,       \* last id given out
    matches,        \* [Ids -> Matches, or None before it is created]
    crashed,        \* a null pointer was dereferenced
    accepted,       \* history: who accepted which match while in it
    moved           \* history: who was moved into the dungeon of which match

clients == <<conn, character, match_, packets>>
local == <<pc, held, at, arg>>
guards == <<match_guard, context_guard>>
system == <<match_queue, match_id>>
history == <<accepted, moved>>
vars == <<clients, local, guards, system, matches, crashed, history>>

\* The steps that hold a Match's context_guard_ on, and the other steps of a handler.
Critical == {"erase", "erase_declined", "cancel", "erase_completed", "lookup", "move"}
Steps == {"idle", "lock", "scan", "set", "join", "remove", "confirm", "drop"} \union Critical

At(c, step) == pc[c] = step
Goto(c, step) == pc' = [pc EXCEPT ![c] = step]

\* A handler starts with what its packet and its client give it, and drops it at its end.
Begin(c, step, match, content) ==
    /\ Goto(c, step)
    /\ held' = [held EXCEPT ![c] = match]
    /\ arg' = [arg EXCEPT ![c] = content]
    /\ UNCHANGED at
Finish(c) ==
    /\ Goto(c, "idle")
    /\ held' = [held EXCEPT ![c] = None]
    /\ at' = [at EXCEPT ![c] = 0]
    /\ arg' = [arg EXCEPT ![c] = FALSE]

\* The slots of the match that c's handler holds; those of match m that are c's.
HeldSlots(c) == matches[held[c]].slots
SlotsOf(m, c) == {i \in Slots : matches[m].slots[i].key = c}

\* match_.lock() does not give nullptr.
Alive(m) == m \in match_queue \/ \E c \in Clients : held[c] = m
HasMatch(c) == match_[c] # None /\ Alive(match_[c])

\* client_storage_ has the client.
Stored(c) == conn[c] # "gone"

Init ==
    /\ conn = [c \in Clients |-> "open"]
    /\ character = [c \in Clients |-> FALSE]
    /\ match_ = [c \in Clients |-> None]
    /\ packets = [c \in Clients |-> 0]
    /\ pc = [c \in Clients |-> "idle"]
    /\ held = [c \in Clients |-> None]
    /\ at = [c \in Clients |-> 0]
    /\ arg = [c \in Clients |-> FALSE]
    /\ match_guard = None
    /\ context_guard = [m \in Ids |-> None]
    /\ match_queue = {}
    /\ match_id = 0
    /\ matches = [m \in Ids |-> None]
    /\ crashed = FALSE
    /\ accepted = {}
    /\ moved = {}

-----------------------------------------------------------------------------
(* Packets and connections.                                                *)

\* An IO worker is free to handle something for a client that no worker is busy with.
Starts(c) ==
    /\ Stored(c)
    /\ At(c, "idle")
    /\ Cardinality({d \in Clients : ~At(d, "idle")}) < Workers
    /\ UNCHANGED <<guards, system, matches, crashed, history>>

Receives(c) ==
    /\ Starts(c)
    /\ packets[c] < MaxPackets
    /\ packets' = [packets EXCEPT ![c] = @ + 1]
    /\ UNCHANGED <<character, match_>>

\* The connection drops; its OnClose comes later.
Close(c) ==
    /\ conn[c] = "open"
    /\ conn' = [conn EXCEPT ![c] = "closing"]
    /\ UNCHANGED <<character, match_, packets, local, guards, system, matches, crashed, history>>

\* ZoneServer::HandleConfirmRequest: the client gets its character.
HandleConfirmRequest(c) ==
    /\ Starts(c)
    /\ ~character[c]
    /\ character' = [character EXCEPT ![c] = TRUE]
    /\ UNCHANGED <<conn, match_, packets, local>>

\* The exception that ends a handler closes the connection.
Throw(c) ==
    /\ conn' = [conn EXCEPT ![c] = "closing"]
    /\ UNCHANGED local

\* Bound: no request starts that could create one match too many.
Room == match_id + Cardinality({d \in Clients : pc[d] \in {"lock", "scan"}}) < MaxMatches

\* A request for a map: refused while the client's match lives.
RequestMatch(c) ==
    /\ Receives(c)
    /\ \/ /\ HasMatch(c)
          /\ Throw(c)
       \/ /\ ~HasMatch(c)
          /\ Room
          /\ \E a \in Maps : Begin(c, "lock", None, a)
          /\ UNCHANGED conn

\* A cancellation: an error without a match.
CancelMatch(c) ==
    /\ Receives(c)
    /\ \/ /\ ~HasMatch(c)
          /\ Throw(c)
       \/ /\ HasMatch(c)
          /\ Begin(c, "remove", match_[c], FALSE)
          /\ UNCHANGED conn

\* An answer to the question whether to start; without a match it is ignored.
HandleMatchingComfirmRequest(c) ==
    /\ Receives(c)
    /\ HasMatch(c)
    /\ \E ok \in BOOLEAN : Begin(c, "confirm", match_[c], ok)
    /\ UNCHANGED conn

\* ZoneServer::OnClose, first half: the client leaves client_storage_.
OnClose(c) ==
    /\ Starts(c)
    /\ conn[c] = "closing"
    /\ conn' = [conn EXCEPT ![c] = "gone"]
    /\ Begin(c, "drop", None, FALSE)
    /\ UNCHANGED <<character, match_, packets>>

\* Second half: a confirmed client loses its character and leaves its match.
OnCloseDrop(c) ==
    /\ At(c, "drop")
    /\ character' = [character EXCEPT ![c] = FALSE]
    /\ IF character[c] /\ HasMatch(c) THEN Begin(c, "remove", match_[c], FALSE) ELSE Finish(c)
    /\ UNCHANGED <<conn, match_, packets, guards, system, matches, crashed, history>>

-----------------------------------------------------------------------------
(* MatchSystem::CreateOrFind, SetMatchWeak and Match::Join.                *)

\* match_guard_ is taken; the search starts at the front of match_queue_.
LockMatchGuard(c) ==
    /\ At(c, "lock")
    /\ match_guard = None
    /\ match_guard' = c
    /\ Goto(c, "scan")
    /\ UNCHANGED <<clients, held, at, arg, context_guard, system, matches, crashed, history>>

\* The search has found a match or ends with a new one; match_guard_ is released.
Return(c, m) ==
    /\ Goto(c, "set")
    /\ held' = [held EXCEPT ![c] = m]
    /\ at' = [at EXCEPT ![c] = 0]
    /\ match_guard' = None
    /\ UNCHANGED arg

\* m is the next match that c's search looks at.
Scans(c, m) ==
    /\ At(c, "scan")
    /\ m \in match_queue /\ m > at[c]
    /\ \A n \in match_queue : n > at[c] => m <= n

\* GetMapId needs the Match's context_guard_: the search goes on or has found a match.
ScanQueue(c) ==
    \E m \in Ids :
        /\ Scans(c, m)
        /\ context_guard[m] = None
        /\ \/ /\ matches[m].mapid = arg[c]
              /\ Return(c, m)
           \/ /\ matches[m].mapid # arg[c]
              /\ at' = [at EXCEPT ![c] = m]
              /\ UNCHANGED <<pc, held, arg, match_guard>>
        /\ UNCHANGED <<clients, context_guard, system, matches, crashed, history>>

NewMatch(a) == [state |-> "kRecruiting", mapid |-> a,
                slots |-> [i \in Slots |-> [key |-> None, ok |-> FALSE]]]

\* Faulty variant: the id queued is the one before.
CreateMatch_IdBefore(c) ==
    /\ At(c, "scan")
    /\ \A n \in match_queue : n <= at[c]
    /\ match_id < MaxMatches
    /\ match_id' = match_id + 1
    /\ matches' = [matches EXCEPT ![match_id + 1] = NewMatch(arg[c])]
    /\ match_queue' = match_queue \union {match_id}
    /\ Return(c, match_id + 1)
    /\ UNCHANGED <<clients, context_guard, crashed, history>>

\* Faulty variant: the rest of the queue is not searched.
CreateMatch_WithoutSearch(c) ==
    /\ At(c, "scan")
    /\ match_id < MaxMatches
    /\ match_id' = match_id + 1
    /\ matches' = [matches EXCEPT ![match_id + 1] = NewMatch(arg[c])]
    /\ match_queue' = match_queue \union {match_id + 1}
    /\ Return(c, match_id + 1)
    /\ UNCHANGED <<clients, context_guard, crashed, history>>

\* No match for the map: a new one is queued.
CreateMatch(c) ==
    /\ At(c, "scan")
    /\ \A n \in match_queue : n <= at[c]
    /\ match_id < MaxMatches
    /\ match_id' = match_id + 1
    /\ matches' = [matches EXCEPT ![match_id + 1] = NewMatch(arg[c])]
    /\ match_queue' = match_queue \union {match_id + 1}
    /\ Return(c, match_id + 1)
    /\ UNCHANGED <<clients, context_guard, crashed, history>>

SetMatchWeak(c) ==
    /\ At(c, "set")
    /\ match_' = [match_ EXCEPT ![c] = held[c]]
    /\ Goto(c, "join")
    /\ UNCHANGED <<conn, character, packets, held, at, arg, guards, system, matches, crashed, history>>

\* The match after c takes slot i; with the last empty slot it stops recruiting.
Joined(match, c, i) ==
    [state |-> IF \A j \in Slots \ {i} : match.slots[j].key # None
               THEN "kConfirming" ELSE match.state,
     mapid |-> match.mapid,
     slots |-> [match.slots EXCEPT ![i] = [key |-> c, ok |-> @.ok]]]

\* The client takes an empty slot of a match that recruits; otherwise nothing happens, silently.
Join(c) ==
    /\ At(c, "join")
    /\ context_guard[held[c]] = None
    /\ \/ /\ matches[held[c]].state # "kRecruiting"
          /\ UNCHANGED matches
       \/ /\ matches[held[c]].state = "kRecruiting"
          /\ \E i \in SlotsOf(held[c], None) :
                 matches' = [matches EXCEPT ![held[c]] = Joined(@, c, i)]
    /\ Finish(c)
    /\ UNCHANGED <<clients, guards, system, crashed, history>>

-----------------------------------------------------------------------------
(* Match::Remove and MatchSystem::RemoveMatch.                             *)

\* The match leaves match_queue_, if it is still there.
RemoveMatch(c) ==
    /\ match_guard = None
    /\ match_queue' = match_queue \ {held[c]}
    /\ UNCHANGED <<match_guard, match_id>>

\* The handler goes on with the next step and keeps context_guard_.
KeepContext(c, step) ==
    /\ Goto(c, step)
    /\ context_guard' = [context_guard EXCEPT ![held[c]] = c]
    /\ UNCHANGED <<held, at, arg>>

\* Faulty variant: the acceptance outlives the key.
Cleared_KeepsAcceptance(c) ==
    LET own == SlotsOf(held[c], c)
    IN IF own = {} THEN {HeldSlots(c)}
       ELSE {[HeldSlots(c) EXCEPT ![i] = [key |-> None, ok |-> @.ok]] : i \in own}

\* The slots without c's, if it has one.
Cleared(c) ==
    LET own == SlotsOf(held[c], c)
    IN IF own = {} THEN {HeldSlots(c)}
       ELSE {[HeldSlots(c) EXCEPT ![i] = [key |-> None, ok |-> FALSE]] : i \in own}

\* Faulty variant: the last player leaves and the match stays.
Remove_KeepsEmpty(c) ==
    /\ At(c, "remove")
    /\ context_guard[held[c]] = None
    /\ \E slots \in Cleared(c) :
          /\ matches' = [matches EXCEPT ![held[c]] = [@ EXCEPT !.slots = slots]]
          /\ IF FALSE
             THEN KeepContext(c, "erase")
             ELSE Finish(c) /\ UNCHANGED context_guard
    /\ UNCHANGED <<clients, match_guard, system, crashed, history>>

\* The client's slot is cleared; a match without players is removed, context_guard_ held.
Remove(c) ==
    /\ At(c, "remove")
    /\ context_guard[held[c]] = None
    /\ \E slots \in Cleared(c) :
          /\ matches' = [matches EXCEPT ![held[c]] = [@ EXCEPT !.slots = slots]]
          /\ IF \A i \in Slots : slots[i].key = None
             THEN KeepContext(c, "erase")
             ELSE Finish(c) /\ UNCHANGED context_guard
    /\ UNCHANGED <<clients, match_guard, system, crashed, history>>

EraseEmpty(c) ==
    /\ At(c, "erase")
    /\ RemoveMatch(c)
    /\ context_guard' = [context_guard EXCEPT ![held[c]] = None]
    /\ Finish(c)
    /\ UNCHANGED <<clients, matches, crashed, history>>

-----------------------------------------------------------------------------
(* Match::Confirm.                                                         *)

\* Faulty variant: an acceptance is noted in any slot that has not accepted yet.
Answered_AnySlot(c) ==
    LET open == {i \in Slots : ~HeldSlots(c)[i].ok}
    IN IF open = {} THEN {HeldSlots(c)}
       ELSE {[HeldSlots(c) EXCEPT ![i] = [key |-> @.key, ok |-> TRUE]] : i \in open}

\* The slots with c's acceptance noted, if it has one.
Answered(c) ==
    LET own == SlotsOf(held[c], c)
    IN IF own = {} THEN {HeldSlots(c)}
       ELSE {[HeldSlots(c) EXCEPT ![i] = [key |-> @.key, ok |-> TRUE]] : i \in own}

\* A refusal ends the match.
Decline(c) ==
    /\ At(c, "confirm")
    /\ arg[c] = FALSE
    /\ context_guard[held[c]] = None
    /\ KeepContext(c, "erase_declined")
    /\ UNCHANGED <<clients, match_guard, system, matches, crashed, history>>

\* An acceptance is noted; the last one completes the match, whatever state it is in.
Accept(c) ==
    /\ At(c, "confirm")
    /\ arg[c] = TRUE
    /\ context_guard[held[c]] = None
    /\ \E slots \in Answered(c) :
          \/ /\ \A i \in Slots : slots[i].ok
             /\ matches' = [matches EXCEPT ![held[c]] = [@ EXCEPT !.slots = slots,
                                                                  !.state = "kCompleted"]]
             /\ KeepContext(c, "erase_completed")
          \/ /\ \E i \in Slots : ~slots[i].ok
             /\ matches' = [matches EXCEPT ![held[c]] = [@ EXCEPT !.slots = slots]]
             /\ Finish(c)
             /\ UNCHANGED context_guard
    /\ accepted' = accepted \union {[key |-> matches[held[c]].slots[i].key, match |-> held[c]] :
                                        i \in SlotsOf(held[c], c)}
    /\ UNCHANGED <<clients, match_guard, system, crashed, moved>>

\* The walk over the slots starts.
FirstSlot(c, step) ==
    /\ Goto(c, step)
    /\ at' = [at EXCEPT ![c] = 1]
    /\ UNCHANGED <<held, arg, context_guard>>

\* The next slot, or the walk's end, which releases context_guard_.
NextSlot(c, step) ==
    \/ /\ at[c] = MatchSize
       /\ Finish(c)
       /\ context_guard' = [context_guard EXCEPT ![held[c]] = None]
    \/ /\ at[c] # MatchSize
       /\ Goto(c, step)
       /\ at' = [at EXCEPT ![c] = @ + 1]
       /\ UNCHANGED <<held, arg, context_guard>>

EraseDeclined(c) ==
    /\ At(c, "erase_declined")
    /\ RemoveMatch(c)
    /\ FirstSlot(c, "cancel")
    /\ UNCHANGED <<clients, matches, crashed, history>>

\* Each player that is still there forgets its match and is told.
Cancel(c) ==
    /\ At(c, "cancel")
    /\ LET d == HeldSlots(c)[at[c]].key
       IN match_' = IF d # None /\ Stored(d) THEN [match_ EXCEPT ![d] = None] ELSE match_
    /\ NextSlot(c, "cancel")
    /\ UNCHANGED <<conn, character, packets, match_guard, system, matches, crashed, history>>

\* The server goes down.
Crash ==
    /\ crashed' = TRUE
    /\ UNCHANGED <<local, context_guard, moved>>

\* The match is removed and its dungeon created; a map without data gives a null pointer, which is
\* dereferenced.
EraseCompleted(c) ==
    /\ At(c, "erase_completed")
    /\ RemoveMatch(c)
    /\ \/ /\ matches[held[c]].mapid \in Known
          /\ FirstSlot(c, "lookup")
          /\ UNCHANGED <<crashed, moved>>
       \/ /\ matches[held[c]].mapid \notin Known
          /\ Crash
    /\ UNCHANGED <<clients, matches, accepted>>

\* GetClient: a player that has left is skipped; an empty key is undefined behaviour.
Lookup(c) ==
    /\ At(c, "lookup")
    /\ LET d == HeldSlots(c)[at[c]].key
       IN IF d = None THEN Crash
          ELSE /\ IF Stored(d) THEN Goto(c, "move") /\ UNCHANGED <<held, at, arg, context_guard>>
                  ELSE NextSlot(c, "lookup")
               /\ UNCHANGED <<crashed, moved>>
    /\ UNCHANGED <<clients, match_guard, system, matches, accepted>>

\* The player goes to the dungeon; without a character a null pointer is dereferenced.
Move(c) ==
    /\ At(c, "move")
    /\ LET d == HeldSlots(c)[at[c]].key
       IN \/ /\ ~character[d]
             /\ Crash
          \/ /\ character[d]
             /\ moved' = moved \union {[key |-> d, match |-> held[c]]}
             /\ NextSlot(c, "lookup")
             /\ UNCHANGED crashed
    /\ UNCHANGED <<clients, match_guard, system, matches, accepted>>

-----------------------------------------------------------------------------

\* The next step of the handler that is running for c.
Step(c) ==
    /\ ~crashed
    /\ \/ LockMatchGuard(c) \/ ScanQueue(c) \/ CreateMatch(c) \/ SetMatchWeak(c) \/ Join(c)
       \/ Remove(c) \/ EraseEmpty(c)
       \/ Decline(c) \/ EraseDeclined(c) \/ Cancel(c)
       \/ Accept(c) \/ EraseCompleted(c) \/ Lookup(c) \/ Move(c)
       \/ OnCloseDrop(c)

\* Something happens to the client's connection.
Event(c) ==
    /\ ~crashed
    /\ \/ Close(c) \/ HandleConfirmRequest(c)
       \/ RequestMatch(c) \/ CancelMatch(c) \/ HandleMatchingComfirmRequest(c)
       \/ OnClose(c)

Next == \E c \in Clients : Event(c) \/ Step(c)

Spec == Init /\ [][Next]_vars

-----------------------------------------------------------------------------
(* Properties.                                                             *)

TypeOK ==
    /\ conn \in [Clients -> {"open", "closing", "gone"}]
    /\ character \in [Clients -> BOOLEAN]
    /\ match_ \in [Clients -> Ids \union {None}]
    /\ packets \in [Clients -> 0..MaxPackets]
    /\ pc \in [Clients -> Steps]
    /\ held \in [Clients -> Ids \union {None}]
    /\ at \in [Clients -> Nat]
    /\ arg \in [Clients -> Maps \union BOOLEAN]
    /\ match_guard \in Clients \union {None}
    /\ context_guard \in [Ids -> Clients \union {None}]
    /\ match_queue \subseteq Ids
    /\ match_id \in 0..MaxMatches
    /\ matches \in [Ids -> Matches \union {None}]
    /\ crashed \in BOOLEAN
    /\ accepted \subseteq [key : Clients, match : Ids]
    /\ moved \subseteq [key : Clients, match : Ids]

Players(m) == {matches[m].slots[i].key : i \in Slots} \ {None}

\* Players who ask for one dungeon meet in one match, however their requests interleave:
\* CreateOrFind searches and inserts under match_guard_.
OneMatchPerMap ==
    \A m, n \in match_queue : matches[m].mapid = matches[n].mapid => m = n

\* A queued match never stays behind without players: the one who leaves it last removes it, and
\* until then a handler is on its way into it or out of it.
NoAbandonedMatch ==
    \A m \in match_queue : Players(m) = {} =>
        \E c \in Clients : held[c] = m /\ pc[c] \in {"set", "join", "erase", "erase_declined"}

\* While Match::Confirm walks the slots to move the players, every slot still holds a player, and
\* one who has accepted: the optional keys it dereferences are set.
MovesFullParty ==
    \A c \in Clients : pc[c] \in {"erase_completed", "lookup", "move"} =>
        \A i \in Slots : [key |-> HeldSlots(c)[i].key, match |-> held[c]] \in accepted

\* Nobody is moved into a dungeon without having accepted that very match, whoever else answers:
\* Match::Confirm notes an acceptance under the key it came from.
MovedOnlyIfAccepted == moved \subseteq accepted

\* MatchingSystem.cpp:30, "the matching queue is full", where the state becomes kConfirming: a
\* match that asks its players has one in every slot.
ConfirmingMeansFull ==
    \A m \in match_queue : matches[m].state = "kConfirming" => Cardinality(Players(m)) = MatchSize
=============================================================================
