------------------------------- MODULE Locks -------------------------------
(***************************************************************************)
(* Who waits for whose lock in the zone server.  A call is the sequence of *)
(* the points at which it waits for locks; each point says which locks its *)
(* thread holds there, which it wants, and, at the end of a Send or Close, *)
(* whose socket it lets go of.  Whoever lets go of the last reference runs *)
(* the socket's deleter, so OnClose runs with the locks of the sender.     *)
(*                                                                         *)
(* Only locks are modelled: which client, zone or match a call is about is *)
(* chosen freely.  Locks under which no thread waits for another one are   *)
(* left out: session_authority_guard_, ZoneClient::context_guard_,         *)
(* object_guard_[kMonster], pool_guard_ and the script engine's; and       *)
(* send_queue_mutex_, whose holder (OnSend) waits for its own              *)
(* socket_ref_mutex_ only.                                                 *)
(***************************************************************************)
EXTENDS Naturals, Sequences

CONSTANTS Workers,    \* threads that run io_context
          Updater,    \* zone_update_thread_
          Console,    \* the thread in ZoneServer::Run
          Clients,    \* connections, each with its session, client object and character
          Zones, Matches, Monsters,
          NoClient,
          Recipients, \* orders in which a loop may meet clients
          Queues,     \* orders in which match_queue_ may hold matches
          Layouts     \* orders in which maps_ may hold zones

Threads == Workers \union {Updater, Console}

ASSUME LocksAssumption ==
    /\ Updater # Console /\ {Updater, Console} \intersect Workers = {}
    /\ NoClient \notin Clients
    /\ Recipients \subseteq Seq(Clients) /\ Queues \subseteq Seq(Matches) /\ Layouts \subseteq Seq(Zones)

\* The std::recursive_mutexes, and the std::shared_mutexes.
Recursive == {"chr_mutex_", "mob_mutex_", "socket_ref_mutex_"}
Kinds == Recursive \union {"context_guard_", "match_guard_", "map_guard_", "client_storage_guard_",
                           "object_guard_"}

\* A lock is named by what kind it is and whose; a hold is exclusive or shared.
Locks == [kind : Kinds, of : Clients \union Zones \union Matches \union Monsters \union {"server"}]
Holds == [lock : Locks, shared : BOOLEAN]
X(kind, of) == [lock |-> [kind |-> kind, of |-> of], shared |-> FALSE]
S(kind, of) == [lock |-> [kind |-> kind, of |-> of], shared |-> TRUE]

Chr(c) == X("chr_mutex_", c)
Mob(b) == X("mob_mutex_", b)
Context(m) == X("context_guard_", m)

\* lets is the client whose socket is let go of after the point; closing marks the points of an
\* OnClose that runs under locks of its thread.
Points == [under : SUBSET Holds, wants : SUBSET Holds, lets : Clients \union {NoClient},
           closing : BOOLEAN]
Calls == Seq(Points) \ {<<>>}

VARIABLES
    todo,     \* [Threads -> Seq(Calls)]: what is left of the calls the thread is in, innermost first
    serving,  \* [Threads -> Clients or NoClient]: whose completion the thread handles
    open      \* the connections whose socket is not deleted yet

vars == <<todo, serving, open>>

Init ==
    /\ todo = [t \in Threads |-> <<>>]
    /\ serving = [t \in Threads |-> NoClient]
    /\ open = Clients

-----------------------------------------------------------------------------
(* The points of the calls, made by a caller that holds the locks u.       *)

Wait(u, wants) == [under |-> u, wants |-> wants, lets |-> NoClient, closing |-> FALSE]

\* Session::Send: socket_ref_mutex_ for a reference, which is let go of at its end.
Send(u, c) == [under |-> u, wants |-> {X("socket_ref_mutex_", c)}, lets |-> c, closing |-> FALSE]
Sends(u, q) == [i \in DOMAIN q |-> Send(u, q[i])]

\* Session::Close by a thread without reference: socket_ is reset under socket_ref_mutex_.
Close(c) ==
    <<Wait({}, {X("socket_ref_mutex_", c)}),
      [under |-> {X("socket_ref_mutex_", c)}, wants |-> {}, lets |-> c, closing |-> FALSE]>>

BroadCast(u, z, q) ==
    LET guard == S("object_guard_", z) IN <<Wait(u, {guard})>> \o Sends(u \union {guard}, q)

SpawnCharacter(u, z, c, q) ==
    LET both == {Chr(c), X("object_guard_", z)}
    IN <<Wait(u, {Chr(c)}), Wait(u, both)>> \o Sends(u \union both, <<c>> \o q)

\* Faulty variant: the scope that ends the exclusive guard is lost, and the characters not copied.
Election_UnderGuard(u, z, q) ==
    LET guard == X("object_guard_", z)
    IN [i \in DOMAIN q |-> Wait(u \union {guard}, {Chr(q[i])})]

\* The second half of RemoveCharacter: a copy of the characters is walked; the last one reached is
\* told that it controls the monsters now.
Election(u, z, q) ==
    <<Wait(u, {S("object_guard_", z)})>> \o [i \in DOMAIN q |-> Wait(u, {Chr(q[i])})]
        \o IF q = <<>> THEN <<>> ELSE <<Send(u \union {Chr(q[Len(q)])}, q[Len(q)])>>

\* The points of call q as those of an OnClose.
Closing(u, q) == [i \in DOMAIN q |-> [q[i] EXCEPT !.closing = u # {}]]

\* Zone::RemoveCharacter; only a controller is told so, and succeeded.
RemoveCharacter(u, z, c, controls, q) ==
    LET guard == X("object_guard_", z)
    IN <<Wait(u, {S("object_guard_", z)}), Wait(u, {Chr(c)}), Wait(u, {guard})>>
           \o IF controls THEN <<Send(u \union {guard}, c)>> \o Election(u, z, q) ELSE <<>>

\* A character is taken out of z and put into new.
MoveCharacter(u, z, new, c, controls, q) ==
    <<Wait(u, {Chr(c)})>> \o RemoveCharacter(u, z, c, controls, q) \o SpawnCharacter(u, new, c, q)

\* Match::Remove; the last player removes the match from the queue.
RemoveFromMatch(u, m, last) ==
    <<Wait(u, {Context(m)})>>
        \o IF last THEN <<Wait(u \union {Context(m)}, {X("match_guard_", "server")})>> ELSE <<>>

\* A loop over a match's players: each is looked up in client_storage_ and sent a packet.
Tell(u, c) == <<Wait(u, {S("client_storage_guard_", "server")}), Send(u, c)>>

\* ZoneServer::OnClose: a confirmed client leaves its zone, if it is in one, and its match.
OnCloseCalls(u, c) ==
    LET zone == {RemoveCharacter(u, z, c, controls, q) :
                     z \in Zones, controls \in BOOLEAN, q \in Recipients}
        character == {<<>>} \union {<<Wait(u, {Chr(c)})>> \o p : p \in {<<>>} \union zone}
        match == {<<>>} \union {RemoveFromMatch(u, m, last) : m \in Matches, last \in BOOLEAN}
        start == <<Wait(u, {X("client_storage_guard_", "server")})>>
    IN {Closing(u, start \o p \o q) : p \in character, q \in match}

-----------------------------------------------------------------------------
(* Threads.                                                                *)

Busy(t) == todo[t] # <<>>
Held(t) == IF Busy(t) THEN Head(Head(todo[t])).under ELSE {}
Wanted(t) == IF Busy(t) THEN Head(Head(todo[t])).wants ELSE {}

\* What u holds keeps t from w; a thread may take its own recursive_mutex again.
Excludes(u, h, t, w) ==
    /\ h.lock = w.lock
    /\ ~(h.shared /\ w.shared)
    /\ u = t => h.lock.kind \notin Recursive

\* What is left to do after t's present point.
Rest(t) ==
    IF Tail(Head(todo[t])) = <<>> THEN Tail(todo[t]) ELSE <<Tail(Head(todo[t]))>> \o Tail(todo[t])

\* Faulty variant: shared holders do not keep a writer out.
Gets_PastReaders(t) ==
    \A u \in Threads : \A h \in Held(u), w \in Wanted(t) : h.shared \/ ~Excludes(u, h, t, w)

\* All that t wants is free.
Gets(t) == \A u \in Threads : \A h \in Held(u), w \in Wanted(t) : ~Excludes(u, h, t, w)

Goes(t, calls) ==
    /\ todo' = [todo EXCEPT ![t] = calls]
    /\ serving' = IF calls = <<>> THEN [serving EXCEPT ![t] = NoClient] ELSE serving

\* No thread handles a completion of c, and so holds a reference: the next one let go of is the last.
Unserved(c) == c \in open /\ \A t \in Threads : serving[t] # c

\* t gets its locks and goes on.
Advance(t) ==
    /\ Busy(t)
    /\ Gets(t)
    /\ Goes(t, Rest(t))
    /\ UNCHANGED open

\* t gets its locks, lets go of the last reference and runs the deleter before it goes on.
Delete(t) ==
    /\ Busy(t)
    /\ Gets(t)
    /\ LET p == Head(Head(todo[t]))
       IN /\ p.lets # NoClient
          /\ Unserved(p.lets)
          /\ \E call \in OnCloseCalls(p.under, p.lets) : Goes(t, <<call>> \o Rest(t))
          /\ open' = open \ {p.lets}

\* An idle IO worker is given a packet of a connection that no other one is busy with.
Serve(t, c, calls) ==
    /\ ~Busy(t)
    /\ Unserved(c)
    /\ todo' = [todo EXCEPT ![t] = calls]
    /\ serving' = [serving EXCEPT ![t] = c]
    /\ UNCHANGED open

\* The reference of a completion handler is the last: OnClose runs without locks.
OnClose(t, c) ==
    /\ ~Busy(t)
    /\ Unserved(c)
    /\ \E call \in OnCloseCalls({}, c) : todo' = [todo EXCEPT ![t] = <<call>>]
    /\ open' = open \ {c}
    /\ UNCHANGED serving

-----------------------------------------------------------------------------
(* The packets of a client (ZoneServer::ProcessPacket).                    *)

\* Zone confirm: the character is read and spawned in the town.
HandleConfirmRequest(t, c) == \E z \in Zones, q \in Recipients :
    Serve(t, c, <<<<Wait({}, {Chr(c)})>> \o SpawnCharacter({}, z, c, q)>>)

\* Position, rolling, attack motion, wait and sprint.
HandleMotion(t, c) == \E z \in Zones, q \in Recipients :
    Serve(t, c, <<<<Wait({}, {Chr(c)})>> \o BroadCast({}, z, q)>>)

HandleMonsterActionNotify(t, c) == \E z \in Zones, b \in Monsters, q \in Recipients :
    Serve(t, c, <<<<Wait({}, {Chr(c)}), Wait({}, {Mob(b)})>> \o BroadCast({}, z, q)>>)

\* A hit, by the character or the monster, under both mutexes; its death is a second broadcast.
HandleHit(t, c) == \E z \in Zones, b \in Monsters, q \in Recipients, dies \in BOOLEAN :
    LET both == {Chr(c), Mob(b)}
    IN Serve(t, c, <<<<Wait({}, {Chr(c)}), Wait({}, both)>> \o BroadCast(both, z, q)
                         \o IF dies THEN BroadCast(both, z, q) ELSE <<>>>>)

HandleInventoryUpdate(t, c) ==
    Serve(t, c, <<<<Wait({}, {Chr(c)}), Send({Chr(c)}, c)>>>>)

\* CreateOrFind looks at the matches of the queue in turn, and Join tells the players of a full one.
RequestMatch(t, c) == \E w \in Queues, m \in Matches, q \in Recipients :
    LET guard == X("match_guard_", "server")
        scan == [i \in DOMAIN w |-> Wait({guard}, {S("context_guard_", w[i])})]
    IN Serve(t, c, <<<<Wait({}, {guard})>> \o scan, <<Wait({}, {Context(m)})>>>>
                       \o [i \in DOMAIN q |-> Tell({Context(m)}, q[i])])

CancelMatch(t, c) == \E m \in Matches, last \in BOOLEAN :
    Serve(t, c, <<RemoveFromMatch({}, m, last)>>)

\* Match::Confirm: a refusal is told to the players; the last acceptance moves them to a new dungeon.
HandleMatchingComfirmRequest(t, c) == \E m \in Matches :
    LET u == {Context(m)}
        erase == Wait(u, {X("match_guard_", "server")})
        create == Wait(u, {X("map_guard_", "server")})
    IN \/ Serve(t, c, <<<<Wait({}, u)>>>>)
       \/ \E q \in Recipients :
              Serve(t, c, <<<<Wait({}, u), erase>>>> \o [i \in DOMAIN q |-> Tell(u, q[i])])
       \/ \E q, r \in Recipients, z, new \in Zones, controls \in BOOLEAN :
              Serve(t, c, <<<<Wait({}, u), erase, create>>>>
                  \o [i \in DOMAIN q |-> <<Wait(u, {S("client_storage_guard_", "server")})>>
                                             \o MoveCharacter(u, z, new, q[i], controls, r)])

\* Zone::TryChangeZone: everybody's place is looked at, and everybody moved.
HandleZoneChangeRequest(t, c) ==
    \E z, new \in Zones, q, r \in Recipients, controls \in BOOLEAN :
        Serve(t, c, <<<<Wait({}, {Chr(c)}), Wait({}, {S("object_guard_", z)})>>
                          \o [i \in DOMAIN q |-> Wait({}, {Chr(q[i])})],
                      <<Wait({}, {X("map_guard_", "server")})>>>>
                        \o [i \in DOMAIN q |-> MoveCharacter({}, z, new, q[i], controls, r)])

-----------------------------------------------------------------------------
(* The zone server's other threads.                                        *)

Runs(t, calls) ==
    /\ ~Busy(t)
    /\ todo' = [todo EXCEPT ![t] = calls]
    /\ UNCHANGED <<serving, open>>

\* zone_update_thread_: the zones are updated, then the empty dungeons erased.
UpdateZones == \E l \in Layouts :
    LET turn(guard) == <<Wait({}, {guard})>> \o
                           [i \in DOMAIN l |-> Wait({guard}, {S("object_guard_", l[i])})]
    IN Runs(Updater, <<turn(S("map_guard_", "server")), turn(X("map_guard_", "server"))>>)

\* ZoneServer::GetDebugString
PrintClients == \E q \in Recipients :
    LET guard == X("client_storage_guard_", "server")
    IN Runs(Console, <<<<Wait({}, {guard})>> \o [i \in DOMAIN q |-> Wait({guard}, {Chr(q[i])})]>>)

\* MatchSystem::GetDebugString
PrintMatches == \E w \in Queues :
    LET guard == X("match_guard_", "server")
    IN Runs(Console, <<<<Wait({}, {S("match_guard_", "server")}), Wait({}, {guard})>>
                           \o [i \in DOMAIN w |-> Wait({guard}, {Context(w[i])})]>>)

\* ZoneSystem::GetDebugString: map_guard_ for a copy, then nothing is held between zones.
PrintZones == \E z \in Zones, q \in Recipients, b \in Monsters :
    Runs(Console, <<<<Wait({}, {S("map_guard_", "server")}), Wait({}, {S("object_guard_", z)})>>
                        \o [i \in DOMAIN q |-> Wait({}, {Chr(q[i])})] \o <<Wait({}, {Mob(b)})>>>>)

\* TNioServer::Clear, on "q": every session is closed.
Stop == \E q \in Recipients : Runs(Console, [i \in DOMAIN q |-> Close(q[i])])

-----------------------------------------------------------------------------

ProcessPacket(t, c) ==
    \/ HandleConfirmRequest(t, c) \/ HandleMotion(t, c) \/ HandleMonsterActionNotify(t, c)
    \/ HandleHit(t, c) \/ HandleInventoryUpdate(t, c)
    \/ RequestMatch(t, c) \/ CancelMatch(t, c) \/ HandleMatchingComfirmRequest(t, c)
    \/ HandleZoneChangeRequest(t, c)

Next ==
    \/ \E t \in Threads : Advance(t) \/ Delete(t)
    \/ \E t \in Workers, c \in Clients : ProcessPacket(t, c) \/ OnClose(t, c)
    \/ UpdateZones
    \/ PrintClients \/ PrintMatches \/ PrintZones \/ Stop

Spec == Init /\ [][Next]_vars

-----------------------------------------------------------------------------
(* Properties.                                                             *)

\* No lock is held by two threads unless both share it.
Exclusive ==
    \A t, u \in Threads : \A g \in Held(t), h \in Held(u) :
        t # u /\ g.lock = h.lock => g.shared /\ h.shared

TypeOK ==
    /\ todo \in [Threads -> Seq(Calls)]
    /\ serving \in [Threads -> Clients \union {NoClient}]
    /\ open \subseteq Clients
    /\ Exclusive

\* t cannot go on before u has let go of a lock; a waiting writer may hold up readers.
Blocks(u, t) == \E h \in Held(u), w \in Wanted(t) :
    /\ h.lock = w.lock
    /\ u = t => h.lock.kind \notin Recursive
    /\ \/ ~(h.shared /\ w.shared)
       \/ \E v \in Threads : \E x \in Wanted(v) : x.lock = w.lock /\ ~x.shared

InOnClose(t) == Busy(t) /\ Head(Head(todo[t])).closing

\* t holds match_guard_ and waits for a context_guard_ whose holder u waits for match_guard_.
Reversed(t, u) == \E m \in Matches :
    /\ \E h \in Held(t) : h.lock.kind = "match_guard_"
    /\ \E w \in Wanted(t) : w.lock = Context(m).lock
    /\ \E h \in Held(u) : h.lock = Context(m).lock
    /\ \E w \in Wanted(u) : w.lock.kind = "match_guard_"

\* Threads that wait for each other for ever do so in one of two ways: one of them is in an OnClose
\* that a Send or Close of its own runs under its locks, or one searches match_queue_ for a match
\* whose handler waits in RemoveMatch.  Every other order of locks is respected by every handler,
\* the update thread and the console.
OnlyKnownDeadlocks ==
    \A D \in SUBSET {t \in Threads : \E u \in Threads : Blocks(u, t)} :
        D # {} /\ (\A t \in D : \E u \in D : Blocks(u, t)) =>
            \/ \E t \in D : InOnClose(t)
            \/ \E t, u \in D : Reversed(t, u)
=============================================================================
