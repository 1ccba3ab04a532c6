------------------------------- MODULE Session -------------------------------
(***************************************************************************)
(* TNioServer and TNioSession: a fixed pool of session objects, the queue  *)
(* of their ids, the chain of asynchronous accepts, and the life of a      *)
(* connection from accept to OnClose.  A socket is kept alive by shared    *)
(* references: socket_ of its session, the pending accept handler, and the *)
(* local variables of handlers; whoever drops the last one runs its        *)
(* deleter, which calls OnClose and gives the id back.                     *)
(*                                                                         *)
(* Completions of reads and writes go through the strand of their session; *)
(* HandleAccept does not.                                                  *)
(*                                                                         *)
(* Of the locks that OnClose takes only the guard of the zone is here, for *)
(* the order of broadcasts and removals; who waits for whom, with all the  *)
(* locks and all the Sends under them, is the subject of module Locks.     *)
(***************************************************************************)
EXTENDS Naturals, Sequences

CONSTANTS Workers,      \* threads that run io_context
          Main,         \* the thread that calls Run and Stop
          MaxConnection,\* size of the session pool
          MaxAccepts,   \* accepts that may complete
          MaxPackets,   \* packets the players may send
          MayStop       \* whether the server is stopped in this instance

ASSUME SessionAssumption ==
    /\ Main \notin Workers /\ {"accept", "member"} \cap (Workers \cup {Main}) = {}
    /\ MaxConnection \in Nat \ {0}
    /\ MaxAccepts \in Nat /\ MaxPackets \in Nat /\ MayStop \in BOOLEAN

Threads == Workers \cup {Main}
Ids == 0 .. MaxConnection - 1                   \* ids of the session objects
Sockets == 1 .. MaxAccepts + MaxConnection   \* in the order of their creation
Null == 0                                       \* no socket

VARIABLES
    is_running_,        \* TNioServer::is_running_
    session_id_queue_,  \* ids waiting for a connection
    created,            \* number of sockets created so far
    accepts,            \* number of accepts completed so far
    idOf,               \* the id a socket was created with
    refs,               \* who holds a reference to a socket
    closed,             \* sockets on which close() was called, or deleted
    gone,               \* sockets whose player has left
    packets,            \* packets sent so far by all players
    reading,            \* async_read_some in flight on a socket
    writing,            \* async_write in flight on a socket
    socket_,            \* the socket of each session
    client_key_,        \* the key of the client of each session
    strand_,            \* results of completed operations of a session in their order
    busy,               \* sessions one of whose completions is being handled
    client_storage_,    \* clients between OnActive and OnClose
    ended,              \* clients after OnClose
    handled,            \* packets handled for each client
    chrs_,              \* clients with a character in the zone
    readers,            \* threads that hold the zone's guard shared
    th,                 \* what each thread is doing
    crashed             \* a null socket_ has been dereferenced

net == <<reading, writing, strand_, packets, gone>>
pool == <<is_running_, session_id_queue_, created, accepts, idOf>>
life == <<refs, closed, socket_>>
server == <<client_key_, client_storage_, ended, handled, chrs_, readers>>
vars == <<net, pool, life, server, busy, th, crashed>>

Idle == [pc |-> "idle", job |-> {}, id |-> 0, ref |-> Null, to |-> Null,
         todo |-> {}, del |-> Null, back |-> "idle"]

\* Mutant: the pool is numbered from one.
InitialIds_FromOne == [n \in 1 .. MaxConnection |-> n]

\* TNioServer::Initialize
InitialIds == [n \in 1 .. MaxConnection |-> n - 1]

Init ==
    /\ is_running_ = FALSE
    /\ session_id_queue_ = InitialIds
    /\ created = 0 /\ accepts = 0 /\ packets = 0
    /\ idOf = [s \in Sockets |-> 0]
    /\ refs = [s \in Sockets |-> {}]
    /\ closed = {} /\ gone = {}
    /\ reading = [s \in Sockets |-> 0]
    /\ writing = [s \in Sockets |-> 0]
    /\ socket_ = [i \in Ids |-> Null]
    /\ client_key_ = [i \in Ids |-> Null]
    /\ strand_ = [i \in Ids |-> <<>>]
    /\ busy = {}
    /\ client_storage_ = {} /\ ended = {} /\ chrs_ = {} /\ readers = {}
    /\ handled = [s \in Sockets |-> 0]
    /\ th = [t \in Threads |-> Idle]
    /\ crashed = FALSE

-----------------------------------------------------------------------------
(* Helpers: the step of a thread, references, Accept. *)

At(t, pc) == th[t].pc = pc /\ ~crashed
Goto(t, pc) == th' = [th EXCEPT ![t].pc = pc]

\* A thread lets go of its reference to s and continues at pc; the last one runs the deleter first.
Drop(t, s, pc) ==
    /\ refs' = [refs EXCEPT ![s] = @ \ {t}]
    /\ IF refs[s] = {t}
         THEN th' = [th EXCEPT ![t].pc = "onclose", ![t].del = s, ![t].back = pc]
         ELSE Goto(t, pc)

\* TNioServer::Accept: takes an id, if there is one, and waits for a connection with a new socket.
\* held is refs without what the caller lets go of in the same step.
Accept(held) ==
    IF session_id_queue_ = <<>>
    THEN refs' = held /\ UNCHANGED <<session_id_queue_, created, idOf>>
    ELSE LET s == created + 1
         IN  /\ session_id_queue_' = Tail(session_id_queue_)
             /\ created' = s
             /\ idOf' = [idOf EXCEPT ![s] = Head(session_id_queue_)]
             /\ refs' = [held EXCEPT ![s] = {"accept"}]

\* Close holds socket_ref_mutex_ while it resets socket_.  Handlers hold a reference of their own, but
\* the thread that stops the server holds none: it may run a deleter under the mutex of the session.
Free(i) == th[Main].del # Null => idOf[th[Main].del] # i

\* TNioSession::Close of session i by a thread that goes on at pc.
Close(t, i, pc) ==
    LET s == socket_[i]
    IN  /\ Free(i)
        /\ IF s = Null
             THEN Goto(t, pc) /\ UNCHANGED life
             ELSE /\ socket_' = [socket_ EXCEPT ![i] = Null]
                  /\ closed' = closed \cup {s}
                  /\ refs' = [refs EXCEPT ![s] = @ \ {"member"}]
                  /\ IF refs[s] = {"member"}
                       THEN th' = [th EXCEPT ![t].pc = "onclose", ![t].del = s, ![t].back = pc]
                       ELSE Goto(t, pc)

-----------------------------------------------------------------------------
(* Run and Stop. *)

Run ==
    /\ ~is_running_ /\ created = 0 /\ ~crashed
    /\ is_running_' = TRUE
    /\ Accept(refs)
    /\ UNCHANGED <<net, accepts, closed, socket_, server, busy, th, crashed>>

\* Stop: no id is given back from here on.
Stop ==
    /\ MayStop /\ is_running_ /\ At(Main, "idle")
    /\ is_running_' = FALSE
    /\ th' = [th EXCEPT ![Main].pc = "clear", ![Main].id = 0]
    /\ UNCHANGED <<net, session_id_queue_, created, accepts, idOf, life, server, busy, crashed>>

\* Clear closes the sessions one after the other.
Clear ==
    /\ At(Main, "clear")
    /\ Close(Main, th[Main].id, "cleared")
    /\ UNCHANGED <<net, pool, server, busy, crashed>>

ClearNext ==
    /\ At(Main, "cleared")
    /\ th' = [th EXCEPT ![Main] = IF th[Main].id + 1 \in Ids
                                   THEN [th[Main] EXCEPT !.pc = "clear", !.id = @ + 1]
                                   ELSE [Idle EXCEPT !.pc = "stopped"]]
    /\ UNCHANGED <<net, pool, life, server, busy, crashed>>

-----------------------------------------------------------------------------
(* The players and the network. *)

Pending == {s \in Sockets : "accept" \in refs[s]}
Open == {s \in 1 .. created : s \notin Pending /\ s \notin closed}

Leave(s) ==
    /\ s \in Open \ gone /\ ~crashed
    /\ gone' = gone \cup {s}
    /\ UNCHANGED <<reading, writing, strand_, packets, pool, life, server, busy, th, crashed>>

Complete(s, ok) == strand_' = [strand_ EXCEPT ![idOf[s]] = Append(@, ok)]

\* A write that ends well only frees its buffer: its completion is left out.
CompleteWrite(s, ok) ==
    /\ writing[s] > 0 /\ ~crashed
    /\ writing' = [writing EXCEPT ![s] = @ - 1]
    /\ IF ok THEN s \in Open /\ UNCHANGED strand_
             ELSE s \in gone \cup closed /\ Complete(s, FALSE)
    /\ UNCHANGED <<reading, packets, gone, pool, life, server, busy, th, crashed>>

\* A read ends with what the player has sent, or with an error when the player has gone or the socket
\* was closed.  The completion waits in the strand of the session, not of the connection; threads that
\* take up two completions may post them in either order, so a packet may come after an error.
CompleteRead(s, ok) ==
    /\ reading[s] > 0 /\ ~crashed
    /\ IF ok THEN packets < MaxPackets ELSE s \in gone \cup closed
    /\ reading' = [reading EXCEPT ![s] = @ - 1]
    /\ packets' = IF ok THEN packets + 1 ELSE packets
    /\ Complete(s, ok)
    /\ UNCHANGED <<writing, gone, pool, life, server, busy, th, crashed>>

-----------------------------------------------------------------------------
(* HandleAccept: it runs on the thread that completes the accept, outside of the strand. *)

HandleAccept(t, s) ==
    /\ At(t, "idle") /\ s \in Pending /\ accepts < MaxAccepts /\ Free(idOf[s])
    /\ accepts' = accepts + 1
    /\ socket_' = [socket_ EXCEPT ![idOf[s]] = s]
    /\ refs' = [refs EXCEPT ![s] = {t, "member"}]
    /\ th' = [th EXCEPT ![t] = [Idle EXCEPT !.pc = "connect", !.id = idOf[s], !.ref = s]]
    /\ UNCHANGED <<net, is_running_, session_id_queue_, created, idOf, closed, server, busy, crashed>>

\* A failed accept closes what its session has, which is nothing, and accepts again.  The handler held
\* the only reference to the socket, so its deleter runs next.
AcceptError(t, s) ==
    /\ At(t, "idle") /\ s \in Pending /\ accepts < MaxAccepts /\ Free(idOf[s])
    /\ accepts' = accepts + 1
    /\ Accept([refs EXCEPT ![s] = {}])
    /\ th' = [th EXCEPT ![t] = [Idle EXCEPT !.pc = "onclose", !.del = s]]
    /\ UNCHANGED <<net, is_running_, closed, socket_, server, busy, crashed>>

\* OnConnect asks the socket for its addresses.  A completion of the previous connection may have
\* closed it: then socket_ is null.  When the player has gone already the call may throw, and nothing
\* up to io_context::run catches it: the thread ends.
OnConnect(t) ==
    LET i == th[t].id
    IN  /\ At(t, "connect") /\ Free(i)
        /\ \/ socket_[i] # Null /\ Goto(t, "active") /\ UNCHANGED <<refs, crashed>>
           \/ socket_[i] # Null /\ th[t].ref \in gone /\ Drop(t, th[t].ref, "dead") /\ UNCHANGED crashed
           \/ socket_[i] = Null /\ crashed' = TRUE /\ UNCHANGED <<refs, th>>
        /\ UNCHANGED <<net, pool, closed, socket_, server, busy>>

OnActive(t) ==
    LET i == th[t].id
    IN  /\ At(t, "active")
        /\ client_storage_' = client_storage_ \cup {th[t].ref}
        /\ client_key_' = [client_key_ EXCEPT ![i] = th[t].ref]
        /\ Goto(t, "firstread")
        /\ UNCHANGED <<net, pool, life, ended, handled, chrs_, readers, busy, crashed>>

Read(i) ==
    /\ Free(i)
    /\ reading' = IF socket_[i] = Null THEN reading ELSE [reading EXCEPT ![socket_[i]] = @ + 1]

\* The first read, and the next accept, which touches nothing of this session.
FirstRead(t) ==
    /\ At(t, "firstread")
    /\ Read(th[t].id)
    /\ Accept(refs)
    /\ Goto(t, "drop")
    /\ UNCHANGED <<writing, strand_, packets, gone, is_running_, accepts, closed, socket_, server, busy,
                   crashed>>

\* The handler returns: it lets go of its reference, and the strand goes on when it is through.
Return(t) ==
    LET s == th[t].ref
    IN  /\ At(t, "drop")
        /\ refs' = [refs EXCEPT ![s] = @ \ {t}]
        /\ IF refs[s] = {t}
             THEN /\ th' = [th EXCEPT ![t].pc = "onclose", ![t].del = s, ![t].ref = Null, ![t].back = "finish"]
                  /\ UNCHANGED busy
             ELSE th' = [th EXCEPT ![t] = Idle] /\ busy' = busy \ th[t].job
        /\ UNCHANGED <<net, pool, closed, socket_, server, crashed>>

Finish(t) ==
    /\ At(t, "finish")
    /\ busy' = busy \ th[t].job
    /\ th' = [th EXCEPT ![t] = Idle]
    /\ UNCHANGED <<net, pool, life, server, crashed>>

-----------------------------------------------------------------------------
(* OnRead and OnSend, one at a time for each session. *)

\* A completion takes a reference to the socket the session has now; without one it ends at once.
StartHandler(t, i) ==
    /\ At(t, "idle") /\ i \notin busy /\ strand_[i] # <<>> /\ Free(i)
    /\ strand_' = [strand_ EXCEPT ![i] = Tail(@)]
    /\ LET s == socket_[i]
            pc == IF Head(strand_[i]) THEN "packet" ELSE "error"
        IN  IF s = Null
            THEN UNCHANGED <<refs, busy, th>>
            ELSE /\ refs' = [refs EXCEPT ![s] = @ \cup {t}]
                 /\ busy' = busy \cup {i}
                 /\ th' = [th EXCEPT ![t] = [Idle EXCEPT !.pc = pc, !.job = {i}, !.id = i, !.ref = s]]
    /\ UNCHANGED <<reading, writing, packets, gone, pool, closed, socket_, server, crashed>>

OnError(t) ==
    /\ At(t, "error")
    /\ Close(t, th[t].id, "drop")
    /\ UNCHANGED <<net, pool, server, busy, crashed>>

\* A packet is handled for the client whose key the session has.  Without such a client ProcessPacket
\* throws and OnRead closes the session; a handler that throws closes it as well.
ProcessPacket(t) ==
    LET key == client_key_[th[t].id]
    IN  /\ At(t, "packet")
        /\ \/ /\ key \notin client_storage_
              /\ Goto(t, "error")
              /\ UNCHANGED <<handled, chrs_, readers>>
           \/ /\ key \in client_storage_
              /\ handled' = [handled EXCEPT ![key] = @ + 1]
              /\ \/ Goto(t, "read") /\ UNCHANGED <<chrs_, readers>>
                 \/ Goto(t, "error") /\ UNCHANGED <<chrs_, readers>>
                 \/ readers = {} /\ chrs_' = chrs_ \cup {key} /\ Goto(t, "read") /\ UNCHANGED readers
                 \/ /\ readers' = readers \cup {t}
                    /\ th' = [th EXCEPT ![t].pc = "broadcast", ![t].todo = chrs_]
                    /\ UNCHANGED chrs_
        /\ UNCHANGED <<net, pool, life, client_key_, client_storage_, ended, busy, crashed>>

\* Zone::BroadCast under the zone's guard: Send takes a reference to the socket of the receiver.
TakeReceiver(t) ==
    /\ At(t, "broadcast") /\ th[t].todo # {}
    /\ \E c \in th[t].todo :
         LET r == socket_[idOf[c]]
             rest == [th[t] EXCEPT !.todo = @ \ {c}]
         IN  /\ \A d \in th[t].todo : c <= d
             /\ Free(idOf[c])
             /\ IF r \in {Null, th[t].ref}
                  THEN /\ th' = [th EXCEPT ![t] = rest]
                       /\ writing' = IF r = Null THEN writing ELSE [writing EXCEPT ![r] = @ + 1]
                       /\ UNCHANGED refs
                  ELSE /\ refs' = [refs EXCEPT ![r] = @ \cup {t}]
                       /\ th' = [th EXCEPT ![t] = [rest EXCEPT !.to = r, !.pc = "send"]]
                       /\ UNCHANGED writing
    /\ UNCHANGED <<reading, strand_, packets, gone, pool, closed, socket_, server, busy, crashed>>

Send(t) ==
    /\ At(t, "send")
    /\ writing' = [writing EXCEPT ![th[t].to] = @ + 1]
    /\ Drop(t, th[t].to, "broadcast")
    /\ UNCHANGED <<reading, strand_, packets, gone, pool, closed, socket_, server, busy, crashed>>

BroadCastEnds(t) ==
    /\ At(t, "broadcast") /\ th[t].todo = {}
    /\ readers' = readers \ {t}
    /\ Goto(t, "read")
    /\ UNCHANGED <<net, pool, life, client_key_, client_storage_, ended, handled, chrs_, busy, crashed>>

ReadNext(t) ==
    /\ At(t, "read")
    /\ Read(th[t].id)
    /\ Goto(t, "drop")
    /\ UNCHANGED <<writing, strand_, packets, gone, pool, life, server, busy, crashed>>

-----------------------------------------------------------------------------
(* The deleter of a socket. *)

\* Mutant: a client that is not in a zone stays in the storage.
OnClose_OnlyInZone(t) ==
    LET key == client_key_[idOf[th[t].del]]
    IN  /\ At(t, "onclose")
        /\ client_storage_' = client_storage_ \ ({key} \cap chrs_)
        /\ ended' = ended \cup ({key} \cap client_storage_ \cap chrs_)
        /\ Goto(t, IF key \in client_storage_ \cap chrs_ THEN "leave" ELSE "release")
        /\ UNCHANGED <<net, pool, life, client_key_, handled, chrs_, readers, busy, crashed>>

\* Mutant: the character is left in the zone.
OnClose_StaysInZone(t) ==
    LET key == client_key_[idOf[th[t].del]]
    IN  /\ At(t, "onclose")
        /\ client_storage_' = client_storage_ \ {key}
        /\ ended' = ended \cup ({key} \cap client_storage_)
        /\ Goto(t, "release")
        /\ UNCHANGED <<net, pool, life, client_key_, handled, chrs_, readers, busy, crashed>>

\* OnClose takes the client of the session's key out of the storage; a client in a zone leaves it.
OnClose(t) ==
    LET key == client_key_[idOf[th[t].del]]
    IN  /\ At(t, "onclose")
        /\ client_storage_' = client_storage_ \ {key}
        /\ ended' = ended \cup ({key} \cap client_storage_)
        /\ Goto(t, IF key \in client_storage_ \cap chrs_ THEN "leave" ELSE "release")
        /\ UNCHANGED <<net, pool, life, client_key_, handled, chrs_, readers, busy, crashed>>

\* Zone::RemoveCharacter takes the guard exclusively.  The Sends of the election after it, like those of
\* SpawnCharacter, take and drop references as a broadcast does.
LeaveZone(t) ==
    /\ At(t, "leave") /\ readers = {}
    /\ chrs_' = chrs_ \ {client_key_[idOf[th[t].del]]}
    /\ Goto(t, "release")
    /\ UNCHANGED <<net, pool, life, client_key_, client_storage_, ended, handled, readers, busy, crashed>>

\* Mutant: the id is not given back.
ReleaseSession_NoPush(t) ==
    /\ At(t, "release")
    /\ closed' = closed \cup {th[t].del}
    /\ th' = [th EXCEPT ![t].pc = IF is_running_ THEN "reaccept" ELSE th[t].back, ![t].del = Null]
    /\ UNCHANGED <<net, pool, refs, socket_, server, busy, crashed>>

\* delete and ReleaseSession: the id is given back while the server runs, and an accept is started.
ReleaseSession(t) ==
    LET s == th[t].del
    IN  /\ At(t, "release")
        /\ closed' = closed \cup {s}
        /\ session_id_queue_' = IF is_running_ THEN Append(session_id_queue_, idOf[s])
                                               ELSE session_id_queue_
        /\ th' = [th EXCEPT ![t].pc = IF is_running_ THEN "reaccept" ELSE th[t].back, ![t].del = Null]
        /\ UNCHANGED <<net, is_running_, created, accepts, idOf, refs, socket_, server, busy, crashed>>

\* Mutant: no accept is started for the id that came back.
Reaccept_Skipped(t) ==
    /\ At(t, "reaccept")
    /\ Goto(t, th[t].back)
    /\ UNCHANGED <<net, pool, life, server, busy, crashed>>

Reaccept(t) ==
    /\ At(t, "reaccept")
    /\ Accept(refs)
    /\ Goto(t, th[t].back)
    /\ UNCHANGED <<net, is_running_, accepts, closed, socket_, server, busy, crashed>>
-----------------------------------------------------------------------------
Step(t) ==
    \/ OnConnect(t) \/ OnActive(t) \/ FirstRead(t) \/ Return(t) \/ Finish(t)
    \/ OnError(t) \/ ProcessPacket(t) \/ TakeReceiver(t) \/ Send(t) \/ BroadCastEnds(t) \/ ReadNext(t)
    \/ OnClose(t) \/ LeaveZone(t) \/ ReleaseSession(t) \/ Reaccept(t)

Next ==
    \/ Run \/ Stop \/ Clear \/ ClearNext
    \/ \E s \in Sockets : Leave(s)
    \/ \E s \in Sockets, ok \in BOOLEAN : CompleteRead(s, ok) \/ CompleteWrite(s, ok)
    \/ \E t \in Workers, s \in Sockets : HandleAccept(t, s) \/ AcceptError(t, s)
    \/ \E t \in Workers, i \in Ids : StartHandler(t, i)
    \/ \E t \in Threads : Step(t)

Spec == Init /\ [][Next]_vars

-----------------------------------------------------------------------------
(* Properties. *)

Pcs == {"idle", "connect", "active", "firstread", "drop", "finish", "error", "packet", "read",
        "broadcast", "send", "onclose", "leave", "release", "reaccept", "clear", "cleared", "stopped",
        "dead"}
ThreadStates ==
    [pc : Pcs, job : SUBSET Ids, id : Ids, ref : Sockets \cup {Null}, to : Sockets \cup {Null},
     todo : SUBSET Sockets, del : Sockets \cup {Null},
     back : {"idle", "finish", "drop", "broadcast", "cleared", "dead"}]

\* Every variable has its type (TNioServer and TNioSession, their members).
TypeOK ==
    /\ is_running_ \in BOOLEAN /\ crashed \in BOOLEAN
    /\ session_id_queue_ \in Seq(Ids)
    /\ created \in Nat /\ created <= MaxAccepts + MaxConnection
    /\ accepts \in 0 .. MaxAccepts /\ packets \in 0 .. MaxPackets
    /\ idOf \in [Sockets -> Ids]
    /\ refs \in [Sockets -> SUBSET (Threads \cup {"accept", "member"})]
    /\ closed \subseteq Sockets /\ gone \subseteq Sockets
    /\ reading \in [Sockets -> Nat] /\ writing \in [Sockets -> Nat] /\ handled \in [Sockets -> Nat]
    /\ socket_ \in [Ids -> Sockets \cup {Null}]
    /\ client_key_ \in [Ids -> Sockets \cup {Null}]
    /\ strand_ \in [Ids -> Seq(BOOLEAN)]
    /\ busy \subseteq Ids /\ readers \subseteq Threads
    /\ client_storage_ \subseteq Sockets /\ ended \subseteq Sockets /\ chrs_ \subseteq Sockets
    /\ th \in [Threads -> ThreadStates]

\* A socket whose id has not been given back: somebody refers to it, or its deleter is under way.
Live(s) == refs[s] # {} \/ \E t \in Threads : th[t].del = s

\* While the server runs each session id is in exactly one place: once in the queue, or with one
\* connection that is waited for, open, or being deleted (TNioServer::Accept and ReleaseSession).
\* A lost id shrinks the server for ever, a doubled one lets two players share a session.
IdsConserved ==
    is_running_ =>
      \A i \in Ids :
        LET queued == {n \in DOMAIN session_id_queue_ : session_id_queue_[n] = i}
            live == {s \in 1 .. created : idOf[s] = i /\ Live(s)}
        IN  \/ live = {} /\ \E n \in queued : queued = {n}
            \/ queued = {} /\ \E s \in live : live = {s}

\* The session of a client, and of a character in the zone, has not been given to the next connection:
\* OnClose has taken the client away before the id is offered again.
NoGhosts ==
    \A c \in client_storage_ \cup chrs_ : Live(c) /\ client_key_[idOf[c]] = c

\* Ids do not lie idle: while ids are in the queue an accept is outstanding, or a thread is on the way
\* to start one, unless an exception of OnConnect has ended a thread and with it its chain of accepts.
FreeIdsAreOffered ==
    (is_running_ /\ session_id_queue_ # <<>> /\ \A t \in Threads : th[t].pc # "dead") =>
      \/ Pending # {}
      \/ \E t \in Threads : th[t].pc \in {"connect", "active", "firstread", "reaccept"}

\* The sessions behave as the connections of the abstract specification: ids are used by one active
\* connection at a time, OnActive and OnClose come once each, packets are handled in between.
C == INSTANCE Connections
       WITH Conns <- Sockets, active <- {<<idOf[s], s>> : s \in client_storage_}
ImplementsConnections == C!Spec
=============================================================================
