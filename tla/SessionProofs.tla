----------------------------- MODULE SessionProofs -----------------------------
(***************************************************************************)
(* What holds of Session for pools, threads, accepts and packets of every  *)
(* number: an id is never lost and never given to two connections at once, *)
(* a client is taken away before its session is used again, and the        *)
(* sessions are the connections of the abstract specification.             *)
(***************************************************************************)
EXTENDS Session, FiniteSetTheorems, TLAPS

-----------------------------------------------------------------------------
(* The inductive invariant.                                                *)

HandlerPcs == {"connect", "active", "firstread", "drop", "error", "packet", "read", "broadcast", "send"}
DeleterPcs == {"onclose", "leave", "release"}
OfferPcs == {"connect", "active", "firstread", "reaccept"}
Backs == {"idle", "finish", "drop", "broadcast", "cleared", "dead"}

\* A thread between the start and the return of a handler; a broadcast goes on after a deleter.
InHandler(r) ==
    \/ r.pc \in HandlerPcs
    \/ r.pc \in DeleterPcs \cup {"reaccept"} /\ r.back = "broadcast"
Refers(r, s) == (InHandler(r) /\ r.ref = s) \/ (r.pc = "send" /\ r.to = s)
Connects(r) == r.pc \in {"connect", "active"}

\* What a thread knows at each step.
Sound(r) ==
    /\ InHandler(r) => r.ref # Null
    /\ r.pc = "send" => r.to # Null /\ r.to # r.ref
    /\ r.pc \in DeleterPcs <=> r.del # Null
    /\ r.pc \in DeleterPcs \cup {"reaccept"} => r.back \in {"idle", "finish", "broadcast", "cleared"}
ThreadsSound == \A t \in Threads : Sound(th[t])
HandlersKnow == \A t \in Threads : InHandler(th[t]) => th[t].id = idOf[th[t].ref]

\* The references of a socket are those of the threads that hold it ...
ThreadsHold == \A t \in Threads, s \in Sockets : t \in refs[s] <=> Refers(th[t], s)
\* ... that of its session ...
SessionsHold == \A s \in Sockets : "member" \in refs[s] <=> socket_[idOf[s]] = s
SocketsOfIds == \A i \in Ids : socket_[i] # Null => idOf[socket_[i]] = i
\* ... and that of an accept, which is the only one.
AcceptsHold == \A s \in Sockets : "accept" \in refs[s] => refs[s] = {"accept"}

\* A deleter is alone with its socket.
DeletersOwn == \A t \in Threads : th[t].del # Null => refs[th[t].del] = {}
DeletersDiffer == \A t, u \in Threads : th[t].del # Null /\ th[t].del = th[u].del => t = u

\* No socket is live that has not been created, and no two live ones have one id.
OnlyCreatedLive == \A s \in Sockets : Live(s) => s <= created
IdsOfLive == \A s, r \in Sockets : Live(s) /\ Live(r) /\ idOf[s] = idOf[r] => s = r

\* An id is in the queue at most once, and not while it has a live socket.
Queued == 1 .. Len(session_id_queue_)
QueuedOnce == \A m, n \in Queued : session_id_queue_[m] = session_id_queue_[n] => m = n
QueuedNotLive == \A n \in Queued, s \in Sockets : Live(s) => idOf[s] # session_id_queue_[n]
NoneLost == is_running_ \/ created = 0 =>
    \A i \in Ids : \/ \E n \in Queued : session_id_queue_[n] = i
                   \/ \E s \in Sockets : Live(s) /\ idOf[s] = i

\* Each socket that was created is waited for or has been accepted.
AllAccepted == created = accepts + Cardinality(Pending)

\* The key of a session is that of its last client; a client becomes active once.
KeysOfIds == \A i \in Ids : client_key_[i] # Null => idOf[client_key_[i]] = i /\ client_key_[i] <= created
ConnectOnce == \A t, u \in Threads : Connects(th[t]) /\ Connects(th[u]) /\ th[t].ref = th[u].ref => t = u
NotYetActive == \A s \in client_storage_ \cup ended :
    /\ s <= created /\ "accept" \notin refs[s]
    /\ \A t \in Threads : Connects(th[t]) => th[t].ref # s

\* A client leaves the storage, then its zone, then its socket is deleted.
InZone == \A c \in chrs_ : c \in client_storage_ \/ \E t \in Threads : th[t].pc = "leave" /\ th[t].del = c
ClosedFirst == \A t \in Threads :
    /\ th[t].pc = "leave" => client_key_[idOf[th[t].del]] = th[t].del
    /\ th[t].pc \in {"leave", "release"} => th[t].del \notin client_storage_
    /\ th[t].pc = "release" => th[t].del \notin chrs_

HoldInv ==
    /\ ThreadsSound /\ HandlersKnow /\ ThreadsHold /\ AcceptsHold /\ DeletersOwn /\ DeletersDiffer
MemberInv == SessionsHold /\ SocketsOfIds
IdInv == OnlyCreatedLive /\ IdsOfLive /\ QueuedOnce /\ QueuedNotLive /\ NoneLost
ClientInv == KeysOfIds /\ ConnectOnce /\ NotYetActive /\ InZone /\ ClosedFirst /\ NoGhosts
SessionInv == TypeOK /\ HoldInv /\ MemberInv /\ IdInv /\ AllAccepted /\ ClientInv /\ FreeIdsAreOffered

-----------------------------------------------------------------------------
(* What a step leaves as it was.  A step moves one thread; it may also     *)
(* create a socket, the only one whose id and references change then.      *)

\* The thread t moves, and goes on with what it holds and deletes.
Moves(t) ==
    /\ \A u \in Threads \ {t} : th'[u] = th[u]
    /\ th'[t] \in ThreadStates /\ Sound(th'[t])
    /\ \A s \in Sockets : Refers(th'[t], s) <=> Refers(th[t], s)
    /\ InHandler(th'[t]) => InHandler(th[t]) /\ th'[t].ref = th[t].ref /\ th'[t].id = th[t].id
    /\ th'[t].del = th[t].del

\* Every socket keeps its id and its references, but for one that is created.
SameRefs ==
    \A s \in Sockets : \/ refs'[s] = refs[s] /\ idOf'[s] = idOf[s]
                       \/ s > created /\ refs'[s] = {"accept"}

LEMMA Records ==
  ASSUME TypeOK
  PROVE  /\ th \in [Threads -> ThreadStates]
         /\ \A t \in Threads :
              /\ th[t] \in ThreadStates
              /\ th[t].pc \in Pcs /\ th[t].id \in Ids /\ th[t].ref \in Sockets \cup {Null}
              /\ th[t].to \in Sockets \cup {Null} /\ th[t].del \in Sockets \cup {Null}
              /\ th[t].back \in Backs /\ th[t].job \subseteq Ids /\ th[t].todo \subseteq Sockets
<1>1. th \in [Threads -> ThreadStates]
  BY DEF TypeOK
<1> QED
  BY <1>1 DEF ThreadStates, Backs

LEMMA Names ==
  /\ Null \notin Sockets /\ "accept" \notin Threads /\ "member" \notin Threads
  /\ MaxConnection \in Nat \ {0} /\ Sockets \subseteq Nat /\ Main \in Threads /\ Workers \subseteq Threads
  /\ \A i \in Ids : i \in Nat
BY SessionAssumption DEF Null, Sockets, Threads, Ids

\* A socket that is not live is held by nobody.
LEMMA NotLive ==
  ASSUME HoldInv, IdInv, TypeOK, NEW s \in Sockets, s > created
  PROVE  /\ refs[s] = {}
         /\ \A t \in Threads : ~Refers(th[t], s) /\ th[t].del # s /\ (InHandler(th[t]) => th[t].ref # s)
<1>1. ~Live(s)
  BY Names DEF IdInv, OnlyCreatedLive, TypeOK
<1>2. refs[s] = {} /\ \A t \in Threads : th[t].del # s
  BY <1>1 DEF Live
<1>3. \A t \in Threads : ~Refers(th[t], s)
  BY <1>2 DEF HoldInv, ThreadsHold
<1> QED
  BY <1>2, <1>3 DEF Refers

LEMMA HoldKept ==
  ASSUME TypeOK, HoldInv, IdInv, NEW t \in Threads, Moves(t), SameRefs
  PROVE  HoldInv'
<1>0. /\ ThreadsSound /\ HandlersKnow /\ ThreadsHold /\ AcceptsHold /\ DeletersOwn /\ DeletersDiffer
  BY DEF HoldInv
<1>1. \A u \in Threads, s \in Sockets : Refers(th'[u], s) <=> Refers(th[u], s)
  BY DEF Moves
<1>2. \A s \in Sockets : s > created =>
        /\ refs[s] = {}
        /\ \A u \in Threads : ~Refers(th[u], s) /\ th[u].del # s /\ (InHandler(th[u]) => th[u].ref # s)
  BY NotLive
<1>3. \A u \in Threads, s \in Sockets : u \in refs'[s] <=> u \in refs[s]
  BY <1>2, Names DEF SameRefs
<1>4. ThreadsHold'
  BY <1>0, <1>1, <1>3 DEF ThreadsHold
<1>5. ThreadsSound'
  BY <1>0 DEF ThreadsSound, Moves
<1>6. AcceptsHold'
  BY <1>0 DEF AcceptsHold, SameRefs
<1>7. HandlersKnow'
  <2> SUFFICES ASSUME NEW u \in Threads, InHandler(th'[u]) PROVE th'[u].id = idOf'[th'[u].ref]
    BY DEF HandlersKnow
  <2>1. InHandler(th[u]) /\ th'[u].ref = th[u].ref /\ th'[u].id = th[u].id
    BY DEF Moves
  <2>2. th[u].ref \in Sockets /\ th[u].id = idOf[th[u].ref]
    BY <1>0, <2>1, Records DEF ThreadsSound, Sound, HandlersKnow
  <2>3. ~(th[u].ref > created)
    BY <1>2, <2>1, <2>2
  <2> QED
    BY <2>1, <2>2, <2>3 DEF SameRefs
<1>8. \A u \in Threads : th'[u].del = th[u].del
  BY DEF Moves
<1>9. DeletersOwn'
  <2> SUFFICES ASSUME NEW u \in Threads, th[u].del # Null PROVE refs'[th[u].del] = {}
    BY <1>8 DEF DeletersOwn
  <2>1. th[u].del \in Sockets /\ refs[th[u].del] = {}
    BY <1>0, Records DEF DeletersOwn
  <2>2. ~(th[u].del > created)
    BY <1>2, <2>1
  <2> QED
    BY <2>1, <2>2 DEF SameRefs
<1>10. DeletersDiffer'
  BY <1>0, <1>8 DEF DeletersDiffer
<1> QED
  BY <1>4, <1>5, <1>6, <1>7, <1>9, <1>10 DEF HoldInv

SameLive == \A s \in Sockets : Live(s)' <=> Live(s)

LEMMA LiveKept ==
  ASSUME \A u \in Threads : th'[u].del = th[u].del, refs' = refs
  PROVE  SameLive
BY DEF SameLive, Live

\* The ids, when no socket is created and none is deleted.
LEMMA IdsKept ==
  ASSUME TypeOK, IdInv, SameLive, UNCHANGED <<session_id_queue_, created, idOf>>,
         is_running_' \/ created = 0 => is_running_ \/ created = 0
  PROVE  IdInv'
<1>1. OnlyCreatedLive' /\ IdsOfLive'
  BY DEF IdInv, OnlyCreatedLive, IdsOfLive, SameLive
<1>2. QueuedOnce' /\ QueuedNotLive'
  BY DEF IdInv, QueuedOnce, QueuedNotLive, Queued, SameLive
<1>3. NoneLost'
  <2>1. is_running_' \/ created' = 0 => is_running_ \/ created = 0
    OBVIOUS
  <2>2. is_running_ \/ created = 0 =>
          \A i \in Ids : \/ \E n \in Queued : session_id_queue_[n] = i
                         \/ \E s \in Sockets : Live(s)' /\ idOf[s] = i
    BY DEF IdInv, NoneLost, SameLive
  <2>3. Queued' = Queued
    BY DEF Queued
  <2> QED
    BY <2>1, <2>2, <2>3 DEF NoneLost
<1> QED
  BY <1>1, <1>2, <1>3 DEF IdInv

\* The ids, when the first one in the queue is given to a new socket.
LEMMA IdsAccept ==
  ASSUME TypeOK, IdInv, NEW s \in Sockets, s = created + 1, session_id_queue_ # <<>>,
         session_id_queue_' = Tail(session_id_queue_), created' = s,
         idOf' = [idOf EXCEPT ![s] = Head(session_id_queue_)],
         Live(s)', \A r \in Sockets \ {s} : Live(r)' <=> Live(r),
         is_running_' \/ created' = 0 => is_running_ \/ created = 0
  PROVE  IdInv'
<1>0. OnlyCreatedLive /\ IdsOfLive /\ QueuedOnce /\ QueuedNotLive /\ NoneLost
  BY DEF IdInv
<1>1. PICK q \in Seq(Ids), len \in Nat : q = session_id_queue_ /\ len = Len(q) /\ len >= 1
  BY DEF TypeOK
<1>2. /\ Queued = 1 .. len /\ Queued' = 1 .. len - 1
      /\ \A n \in 1 .. len - 1 : session_id_queue_'[n] = q[n + 1]
      /\ 1 \in 1 .. len /\ \A n \in 1 .. len - 1 : n + 1 \in 1 .. len /\ n + 1 # 1
  BY <1>1 DEF Queued
<1>3. /\ idOf'[s] = q[1] /\ q[1] \in Ids
      /\ \A r \in Sockets \ {s} : idOf'[r] = idOf[r]
  BY <1>1 DEF TypeOK
<1>4. OnlyCreatedLive'
  BY <1>0, Names DEF OnlyCreatedLive, TypeOK
<1>5. ~Live(s)
  BY <1>0, Names DEF OnlyCreatedLive, TypeOK
<1>6. \A r \in Sockets \ {s} : Live(r)' => idOf'[r] # q[1]
  BY <1>0, <1>1, <1>2, <1>3 DEF QueuedNotLive
<1>7. IdsOfLive'
  <2> SUFFICES ASSUME NEW a \in Sockets, NEW b \in Sockets, Live(a)', Live(b)', idOf'[a] = idOf'[b]
               PROVE  a = b
    BY DEF IdsOfLive
  <2>1. CASE a = s \/ b = s
    BY <1>3, <1>6, <2>1
  <2>2. CASE a # s /\ b # s
    BY <1>0, <1>3, <2>2 DEF IdsOfLive
  <2> QED
    BY <2>1, <2>2
<1>8. QueuedOnce'
  <2> SUFFICES ASSUME NEW m \in Queued', NEW n \in Queued', session_id_queue_'[m] = session_id_queue_'[n]
               PROVE  m = n
    BY DEF QueuedOnce
  <2>1. m \in 1 .. len - 1 /\ n \in 1 .. len - 1 /\ q[m + 1] = q[n + 1]
    BY <1>2
  <2>2. m + 1 = n + 1
    BY <1>0, <1>1, <1>2, <2>1 DEF QueuedOnce
  <2> QED
    BY <2>1, <2>2
<1>9. QueuedNotLive'
  <2> SUFFICES ASSUME NEW n \in 1 .. len - 1, NEW r \in Sockets, Live(r)'
               PROVE  idOf'[r] # q[n + 1]
    BY <1>2 DEF QueuedNotLive
  <2>1. CASE r = s
    BY <1>0, <1>1, <1>2, <1>3, <2>1 DEF QueuedOnce
  <2>2. CASE r # s
    BY <1>0, <1>1, <1>2, <1>3, <2>2 DEF QueuedNotLive
  <2> QED
    BY <2>1, <2>2
<1>10. NoneLost'
  <2> SUFFICES ASSUME is_running_' \/ created' = 0, NEW i \in Ids
               PROVE  \/ \E n \in Queued' : session_id_queue_'[n] = i
                      \/ \E r \in Sockets : Live(r)' /\ idOf'[r] = i
    BY DEF NoneLost
  <2>1. CASE \E n \in 1 .. len : q[n] = i
    <3>1. PICK n \in 1 .. len : q[n] = i
      BY <2>1
    <3>2. CASE n = 1
      BY <1>3, <3>1, <3>2
    <3>3. CASE n # 1
      <4>1. n - 1 \in 1 .. len - 1 /\ (n - 1) + 1 = n
        BY <3>3
      <4>2. n - 1 \in Queued' /\ session_id_queue_'[n - 1] = i
        BY <1>2, <3>1, <4>1
      <4> QED
        BY <4>2
    <3> QED
      BY <3>2, <3>3
  <2>2. CASE \E r \in Sockets : Live(r) /\ idOf[r] = i
    BY <1>3, <1>5, <2>2
  <2> QED
    BY <1>0, <1>1, <1>2, <2>1, <2>2 DEF NoneLost
<1> QED
  BY <1>0, <1>4, <1>7, <1>8, <1>9, <1>10 DEF IdInv

\* The sessions, when none of them is given a socket or lets go of it.
LEMMA MembersKept ==
  ASSUME TypeOK, HoldInv, IdInv, MemberInv, socket_' = socket_, idOf' \in [Sockets -> Ids],
         \A s \in Sockets : \/ idOf'[s] = idOf[s]
                            \/ s > created,
         \A s \in Sockets : "member" \in refs'[s] <=> "member" \in refs[s]
  PROVE  MemberInv'
<1>1. \A s \in Sockets : s > created => refs[s] = {}
  BY NotLive
<1>2. SocketsOfIds'
  <2> SUFFICES ASSUME NEW i \in Ids, socket_[i] # Null PROVE idOf'[socket_[i]] = i
    BY DEF SocketsOfIds
  <2>1. socket_[i] \in Sockets /\ idOf[socket_[i]] = i
    BY DEF MemberInv, SocketsOfIds, TypeOK
  <2>2. "member" \in refs[socket_[i]]
    BY <2>1 DEF MemberInv, SessionsHold
  <2> QED
    BY <1>1, <2>1, <2>2
<1>3. SessionsHold'
  <2> SUFFICES ASSUME NEW s \in Sockets PROVE "member" \in refs[s] <=> socket_[idOf'[s]] = s
    BY DEF SessionsHold
  <2>1. CASE idOf'[s] = idOf[s]
    BY <2>1 DEF MemberInv, SessionsHold
  <2>2. CASE s > created /\ idOf'[s] # idOf[s]
    <3>1. \A i \in Ids : socket_[i] # s
      BY <1>1, <2>2, Names DEF MemberInv, SocketsOfIds, SessionsHold
    <3>2. idOf'[s] \in Ids
      OBVIOUS
    <3> QED
      BY <1>1, <2>2, <3>1, <3>2
  <2> QED
    BY <2>1, <2>2
<1> QED
  BY <1>2, <1>3 DEF MemberInv

\* Accepts that are waited for.
LEMMA PendingIsFinite ==
  ASSUME TypeOK
  PROVE  Pending \subseteq Sockets /\ IsFiniteSet(Pending) /\ Cardinality(Pending) \in Nat
<1>1. IsFiniteSet(Sockets)
  BY FS_Interval, SessionAssumption DEF Sockets
<1>2. Pending \in SUBSET Sockets
  BY DEF Pending
<1> QED
  BY <1>1, <1>2, FS_Subset, FS_CardinalityType

LEMMA AcceptedKept ==
  ASSUME AllAccepted, UNCHANGED <<created, accepts>>,
         \A s \in Sockets : "accept" \in refs'[s] <=> "accept" \in refs[s]
  PROVE  AllAccepted' /\ Pending' = Pending
<1>1. Pending' = Pending
  BY DEF Pending
<1> QED
  BY <1>1 DEF AllAccepted

\* While an id is in the queue there is room for one more accept: each one that is waited for has an id,
\* which is not in the queue.
LEMMA AcceptsFit ==
  ASSUME TypeOK, IdInv, AllAccepted, session_id_queue_ # <<>>
  PROVE  created + 1 \in Sockets
<1>1. PICK first \in Ids : first = session_id_queue_[1] /\ 1 \in Queued
  BY DEF TypeOK, Queued
<1>2. \A s \in Pending : s \in Sockets /\ Live(s) /\ idOf[s] \in Ids \ {first}
  <2> SUFFICES ASSUME NEW s \in Pending PROVE s \in Sockets /\ Live(s) /\ idOf[s] \in Ids \ {first}
    OBVIOUS
  <2>1. s \in Sockets /\ Live(s)
    BY DEF Pending, Live
  <2>2. idOf[s] \in Ids
    BY <2>1 DEF TypeOK
  <2> QED
    BY <1>1, <2>1, <2>2 DEF IdInv, QueuedNotLive
<1>3. PICK f : f = [s \in Pending |-> idOf[s]]
  OBVIOUS
<1>4. f \in Injection(Pending, Ids \ {first})
  <2>1. f \in [Pending -> Ids \ {first}]
    BY <1>2, <1>3
  <2>2. \A a, b \in Pending : f[a] = f[b] => a = b
    BY <1>2, <1>3 DEF IdInv, IdsOfLive
  <2> QED
    BY <2>1, <2>2 DEF Injection, IsInjective
<1>5. /\ IsFiniteSet(Ids) /\ Cardinality(Ids) = MaxConnection
  <2>1. 0 \in Int /\ MaxConnection - 1 \in Int /\ ~(0 > MaxConnection - 1)
    BY Names
  <2> QED
    BY <2>1, Names, FS_Interval DEF Ids
<1>6. IsFiniteSet(Ids \ {first}) /\ Cardinality(Ids \ {first}) = MaxConnection - 1
  BY <1>5, FS_RemoveElement
<1>7. Cardinality(Pending) <= MaxConnection - 1
  BY <1>4, <1>6, FS_Injection
<1>8. created \in Nat /\ accepts \in Nat /\ accepts <= MaxAccepts /\ MaxAccepts \in Nat
  BY SessionAssumption DEF TypeOK
<1> QED
  BY <1>7, <1>8, PendingIsFinite, Names DEF AllAccepted, Sockets

\* One more accept, after one that is waited for may have failed.
LEMMA AcceptedMore ==
  ASSUME TypeOK, AllAccepted, NEW s \in Sockets, s \notin Pending, created' = created + 1,
         NEW done \in SUBSET Pending,
         \/ done = {} /\ accepts' = accepts
         \/ (\E r \in Pending : done = {r}) /\ accepts' = accepts + 1,
         Pending' = (Pending \ done) \cup {s}
  PROVE  AllAccepted'
<1>1. IsFiniteSet(Pending) /\ Cardinality(Pending) \in Nat
  BY PendingIsFinite
<1>2. /\ IsFiniteSet(Pending \ done)
      /\ accepts' + Cardinality(Pending \ done) = accepts + Cardinality(Pending)
  <2>1. CASE done = {} /\ accepts' = accepts
    <3>1. Pending \ done = Pending
      BY <2>1
    <3> QED
      BY <1>1, <2>1, <3>1
  <2>2. CASE (\E r \in Pending : done = {r}) /\ accepts' = accepts + 1
    <3>1. PICK r \in Pending : done = {r}
      BY <2>2
    <3>2. IsFiniteSet(Pending \ {r}) /\ Cardinality(Pending \ {r}) = Cardinality(Pending) - 1
      BY <1>1, FS_RemoveElement
    <3>3. accepts \in Nat
      BY DEF TypeOK
    <3> QED
      BY <1>1, <2>2, <3>1, <3>2, <3>3
  <2> QED
    BY <2>1, <2>2
<1>3. Cardinality(Pending') = Cardinality(Pending \ done) + 1 /\ Cardinality(Pending \ done) \in Nat
  <2>1. s \notin Pending \ done
    OBVIOUS
  <2> QED
    BY <1>2, <2>1, FS_AddElement, FS_CardinalityType
<1>4. accepts \in Nat /\ accepts' \in Nat /\ created \in Nat
  BY DEF TypeOK
<1> QED
  BY <1>1, <1>2, <1>3, <1>4 DEF AllAccepted

\* The clients, when none of them comes or goes; one of them may enter the zone, and a connection that
\* was waited for may be handled now.
LEMMA ClientsKept ==
  ASSUME TypeOK, IdInv, ClientInv, UNCHANGED <<client_key_, client_storage_, ended>>,
         chrs_' \subseteq chrs_ \cup client_storage_,
         created' \in Nat, created <= created',
         \A s \in Sockets : Live(s) => Live(s)',
         \A s \in Sockets : s <= created =>
             idOf'[s] = idOf[s] /\ ("accept" \in refs'[s] => "accept" \in refs[s]),
         \A u \in Threads : Connects(th'[u]) =>
             \/ Connects(th[u]) /\ th'[u].ref = th[u].ref
             \/ /\ "accept" \in refs[th'[u].ref]
                /\ \A v \in Threads \ {u} : Connects(th'[v]) => th'[v].ref # th'[u].ref,
         \A u \in Threads : th[u].pc \in {"leave", "release"} \/ th'[u].pc \in {"leave", "release"} =>
             th'[u].pc = th[u].pc /\ th'[u].del = th[u].del,
         \A u \in Threads : th[u].pc \in {"leave", "release"} => th[u].del \in Sockets
  PROVE  ClientInv'
<1>0. /\ KeysOfIds /\ ConnectOnce /\ NotYetActive /\ InZone /\ ClosedFirst /\ NoGhosts
      /\ OnlyCreatedLive /\ created \in Nat
  BY DEF ClientInv, IdInv, TypeOK
<1>1. KeysOfIds'
  <2> SUFFICES ASSUME NEW i \in Ids, client_key_[i] # Null
               PROVE  idOf'[client_key_[i]] = i /\ client_key_[i] <= created'
    BY DEF KeysOfIds
  <2>1. client_key_[i] \in Sockets /\ idOf[client_key_[i]] = i /\ client_key_[i] <= created
    BY <1>0 DEF KeysOfIds, TypeOK
  <2>2. idOf'[client_key_[i]] = i
    BY <2>1
  <2>3. client_key_[i] <= created'
    <3>1. client_key_[i] \in Nat
      BY <2>1, Names
    <3> QED
      BY <1>0, <2>1, <3>1
  <2> QED
    BY <2>2, <2>3
<1>2. ConnectOnce'
  BY <1>0 DEF ConnectOnce
<1>3. NotYetActive'
  <2> SUFFICES ASSUME NEW s \in client_storage_ \cup ended
               PROVE  /\ s <= created' /\ "accept" \notin refs'[s]
                      /\ \A u \in Threads : Connects(th'[u]) => th'[u].ref # s
    BY DEF NotYetActive
  <2>1. s \in Sockets /\ s <= created /\ "accept" \notin refs[s]
    BY <1>0 DEF NotYetActive, TypeOK
  <2>2. \A u \in Threads : Connects(th[u]) => th[u].ref # s
    BY <1>0 DEF NotYetActive
  <2> QED
    BY <1>0, <2>1, <2>2, Names
<1>4. InZone'
  <2> SUFFICES ASSUME NEW c \in chrs_', c \notin client_storage_
               PROVE  \E u \in Threads : th'[u].pc = "leave" /\ th'[u].del = c
    BY DEF InZone
  <2>1. PICK u \in Threads : th[u].pc = "leave" /\ th[u].del = c
    BY <1>0 DEF InZone
  <2>2. th'[u].pc = "leave" /\ th'[u].del = c
    BY <2>1
  <2> QED
    BY <2>2
<1>5. ClosedFirst'
  <2> SUFFICES ASSUME NEW u \in Threads, th'[u].pc \in {"leave", "release"}
               PROVE  /\ th'[u].pc = "leave" => client_key_[idOf'[th'[u].del]] = th'[u].del
                      /\ th'[u].del \notin client_storage_
                      /\ th'[u].pc = "release" => th'[u].del \notin chrs_'
    BY DEF ClosedFirst
  <2>1. th'[u].pc = th[u].pc /\ th'[u].del = th[u].del /\ th[u].del \in Sockets
    OBVIOUS
  <2>2. th[u].del <= created
    <3>1. th[u].del # Null
      BY <2>1, Names
    <3>2. Live(th[u].del)
      BY <3>1 DEF Live
    <3> QED
      BY <1>0, <2>1, <3>2 DEF OnlyCreatedLive
  <2> QED
    BY <1>0, <2>1, <2>2 DEF ClosedFirst
<1>6. NoGhosts'
  <2> SUFFICES ASSUME NEW c \in client_storage_ \cup chrs_'
               PROVE  Live(c)' /\ client_key_[idOf'[c]] = c
    BY DEF NoGhosts
  <2>1. c \in Sockets /\ Live(c) /\ client_key_[idOf[c]] = c
    BY <1>0 DEF NoGhosts, TypeOK
  <2> QED
    BY <1>0, <2>1 DEF OnlyCreatedLive
<1> QED
  BY <1>1, <1>2, <1>3, <1>4, <1>5, <1>6 DEF ClientInv

\* Free ids, when no id comes or goes and no thread that will start an accept forgets to.
LEMMA OffersKept ==
  ASSUME FreeIdsAreOffered, UNCHANGED <<is_running_, session_id_queue_>>, Pending' = Pending,
         \A u \in Threads : th[u].pc = "dead" => th'[u].pc = "dead",
         \A u \in Threads : th[u].pc \in OfferPcs => th'[u].pc \in OfferPcs \cup {"dead"}
  PROVE  FreeIdsAreOffered'
<1> SUFFICES ASSUME is_running_, session_id_queue_ # <<>>, \A u \in Threads : th'[u].pc # "dead"
             PROVE  Pending # {} \/ \E u \in Threads : th'[u].pc \in OfferPcs
  BY DEF FreeIdsAreOffered, OfferPcs
<1>1. \A u \in Threads : th[u].pc # "dead"
  OBVIOUS
<1>2. Pending # {} \/ \E u \in Threads : th[u].pc \in OfferPcs
  BY <1>1 DEF FreeIdsAreOffered, OfferPcs
<1> QED
  BY <1>2

-----------------------------------------------------------------------------
(* One step of one thread.                                                 *)

\* A thread that only goes on at pc.
LEMMA Goes ==
  ASSUME TypeOK, NEW t \in Threads, NEW pc \in Pcs, Goto(t, pc)
  PROVE  /\ th' \in [Threads -> ThreadStates]
         /\ \A u \in Threads \ {t} : th'[u] = th[u]
         /\ th'[t].pc = pc /\ th'[t].job = th[t].job /\ th'[t].id = th[t].id /\ th'[t].ref = th[t].ref
         /\ th'[t].to = th[t].to /\ th'[t].todo = th[t].todo /\ th'[t].del = th[t].del
         /\ th'[t].back = th[t].back
<1>1. PICK r : r = [th[t] EXCEPT !.pc = pc]
  OBVIOUS
<1>2. /\ r \in ThreadStates
      /\ r.pc = pc /\ r.job = th[t].job /\ r.id = th[t].id /\ r.ref = th[t].ref
      /\ r.to = th[t].to /\ r.todo = th[t].todo /\ r.del = th[t].del /\ r.back = th[t].back
  BY <1>1, Records DEF ThreadStates
<1>3. th' = [th EXCEPT ![t] = r]
  BY <1>1 DEF Goto
<1>4. th' \in [Threads -> ThreadStates] /\ th'[t] = r /\ \A u \in Threads \ {t} : th'[u] = th[u]
  BY <1>2, <1>3, Records
<1> QED
  BY <1>2, <1>4

\* A thread that goes on with the deleter of s.
Deletes(t, s, pc) == th' = [th EXCEPT ![t].pc = "onclose", ![t].del = s, ![t].back = pc]
LEMMA GoesToDelete ==
  ASSUME TypeOK, NEW t \in Threads, NEW s \in Sockets, NEW pc \in Backs, Deletes(t, s, pc)
  PROVE  /\ th' \in [Threads -> ThreadStates]
         /\ \A u \in Threads \ {t} : th'[u] = th[u]
         /\ th'[t].pc = "onclose" /\ th'[t].id = th[t].id /\ th'[t].ref = th[t].ref
         /\ th'[t].to = th[t].to /\ th'[t].del = s /\ th'[t].back = pc
<1>1. PICK r : r = [th[t] EXCEPT !.pc = "onclose", !.del = s, !.back = pc]
  OBVIOUS
<1>2. /\ r \in ThreadStates
      /\ r.pc = "onclose" /\ r.id = th[t].id /\ r.ref = th[t].ref /\ r.to = th[t].to
      /\ r.del = s /\ r.back = pc
  <2>1. th[t] \in ThreadStates
    BY Records
  <2> QED
    BY <1>1, <2>1 DEF ThreadStates, Pcs, Backs
<1>3. th' = [th EXCEPT ![t] = r]
  BY <1>1 DEF Deletes
<1>4. th' \in [Threads -> ThreadStates] /\ th'[t] = r /\ \A u \in Threads \ {t} : th'[u] = th[u]
  BY <1>2, <1>3, Records
<1> QED
  BY <1>2, <1>4

\* A handler that goes on keeps what it holds.
LEMMA HandlerMoves ==
  ASSUME TypeOK, HoldInv, NEW t \in Threads, NEW from, NEW pc, Goto(t, pc), th[t].pc = from,
         \/ from \in HandlerPcs \ {"send"} /\ pc \in HandlerPcs \ {"send"}
         \/ from = "onclose" /\ pc \in {"leave", "release"}
         \/ from = "leave" /\ pc = "release"
  PROVE  Moves(t) /\ th' \in [Threads -> ThreadStates] /\ th'[t].pc = pc /\ th'[t].ref = th[t].ref
         /\ th'[t].del = th[t].del
<1>1. pc \in Pcs
  BY DEF HandlerPcs, Pcs
<1>2. /\ th' \in [Threads -> ThreadStates]
      /\ \A u \in Threads \ {t} : th'[u] = th[u]
      /\ th'[t].pc = pc /\ th'[t].id = th[t].id /\ th'[t].ref = th[t].ref
      /\ th'[t].to = th[t].to /\ th'[t].del = th[t].del /\ th'[t].back = th[t].back
  BY <1>1, Goes
<1>3. Sound(th[t])
  BY DEF HoldInv, ThreadsSound
<1>4. InHandler(th'[t]) <=> InHandler(th[t])
  BY <1>2 DEF InHandler, HandlerPcs, DeleterPcs
<1>5. Sound(th'[t])
  <2>1. InHandler(th'[t]) => th'[t].ref # Null
    BY <1>2, <1>3, <1>4 DEF Sound
  <2>2. th'[t].pc # "send"
    BY <1>2
  <2>3. th'[t].pc \in DeleterPcs <=> th'[t].del # Null
    BY <1>2, <1>3 DEF Sound, DeleterPcs, HandlerPcs
  <2>4. th'[t].pc \in DeleterPcs \cup {"reaccept"} =>
          th'[t].back \in {"idle", "finish", "broadcast", "cleared"}
    BY <1>2, <1>3 DEF Sound, DeleterPcs, HandlerPcs
  <2> QED
    BY <2>1, <2>2, <2>3, <2>4 DEF Sound
<1>6. \A s \in Sockets : Refers(th'[t], s) <=> Refers(th[t], s)
  BY <1>2, <1>4 DEF Refers
<1> QED
  BY <1>2, <1>4, <1>5, <1>6 DEF Moves

\* The invariant, when no thread moves.
LEMMA NobodyMoves ==
  ASSUME SessionInv, TypeOK', UNCHANGED <<th, refs, pool, socket_>>,
         UNCHANGED <<client_key_, client_storage_, ended, chrs_>>
  PROVE  SessionInv'
<1>0. /\ TypeOK /\ HoldInv /\ MemberInv /\ IdInv /\ AllAccepted /\ ClientInv /\ FreeIdsAreOffered
  BY DEF SessionInv
<1>1. UNCHANGED <<is_running_, session_id_queue_, created, accepts, idOf>>
  BY DEF pool
<1>2. SameLive
  BY LiveKept
<1>3. HoldInv'
  BY <1>0, <1>1
  DEF HoldInv, ThreadsSound, HandlersKnow, ThreadsHold, AcceptsHold, DeletersOwn, DeletersDiffer
<1>4. MemberInv'
  BY <1>0, <1>1 DEF MemberInv, SessionsHold, SocketsOfIds
<1>5. IdInv'
  BY <1>0, <1>1, <1>2, IdsKept
<1>6. AllAccepted' /\ Pending' = Pending
  BY <1>0, <1>1, AcceptedKept
<1>7. ClientInv'
  <2>1. created \in Nat /\ \A s \in Sockets : Live(s)' <=> Live(s)
    BY <1>0, <1>2 DEF TypeOK, SameLive
  <2>2. \A u \in Threads : th[u].pc \in {"leave", "release"} => th[u].del \in Sockets
    BY <1>0, Records DEF HoldInv, ThreadsSound, Sound, DeleterPcs
  <2> QED
    BY <1>0, <1>1, <2>1, <2>2, ClientsKept
<1>8. FreeIdsAreOffered'
  BY <1>0, <1>1, <1>6, OffersKept
<1> QED
  BY <1>3, <1>4, <1>5, <1>6, <1>7, <1>8 DEF SessionInv

\* The invariant, when one thread moves, and no client comes or goes; one may enter the zone.
LEMMA OneMoves ==
  ASSUME SessionInv, TypeOK', NEW t \in Threads, Moves(t),
         UNCHANGED <<refs, session_id_queue_, created, accepts, idOf, socket_>>,
         UNCHANGED <<client_key_, client_storage_, ended>>, chrs_' \subseteq chrs_ \cup client_storage_,
         is_running_' = is_running_ \/ is_running_' = FALSE,
         th[t].pc # "dead", th[t].pc \in OfferPcs => th'[t].pc \in OfferPcs,
         Connects(th'[t]) => Connects(th[t]),
         th[t].pc \notin {"leave", "release"} /\ th'[t].pc \notin {"leave", "release"}
  PROVE  SessionInv'
<1>0. /\ TypeOK /\ HoldInv /\ MemberInv /\ IdInv /\ AllAccepted /\ ClientInv /\ FreeIdsAreOffered
  BY DEF SessionInv
<1>1. \A u \in Threads : th'[u].del = th[u].del
  BY DEF Moves
<1>2. SameLive
  BY <1>1, LiveKept
<1>3. HoldInv'
  BY <1>0, HoldKept DEF SameRefs
<1>4. MemberInv'
  BY <1>0 DEF MemberInv, SessionsHold, SocketsOfIds
<1>5. IdInv'
  <2>1. is_running_' => is_running_
    BY Zenon
  <2> QED
    BY <1>0, <1>2, <2>1, IdsKept
<1>6. AllAccepted' /\ Pending' = Pending
  BY <1>0, AcceptedKept
<1>7. ClientInv'
  <2>1. created \in Nat /\ \A s \in Sockets : Live(s)' <=> Live(s)
    BY <1>0, <1>2 DEF TypeOK, SameLive
  <2>2. \A u \in Threads : th[u].pc \in {"leave", "release"} => th[u].del \in Sockets
    BY <1>0, Records DEF HoldInv, ThreadsSound, Sound, DeleterPcs
  <2>3. \A u \in Threads : Connects(th'[u]) => Connects(th[u]) /\ th'[u].ref = th[u].ref
    <3>1. Connects(th'[t]) => InHandler(th'[t])
      BY DEF Connects, InHandler, HandlerPcs
    <3> QED
      BY <3>1 DEF Moves
  <2>4. \A u \in Threads : th[u].pc \in {"leave", "release"} \/ th'[u].pc \in {"leave", "release"} =>
             th'[u].pc = th[u].pc /\ th'[u].del = th[u].del
    BY DEF Moves
  <2> QED
    BY <1>0, <2>1, <2>2, <2>3, <2>4, ClientsKept
<1>8. FreeIdsAreOffered'
  <2>1. CASE is_running_' = is_running_
    BY <1>0, <1>6, <2>1, OffersKept DEF Moves
  <2>2. CASE is_running_' = FALSE
    BY <2>2, Zenon DEF FreeIdsAreOffered
  <2> QED
    BY <2>1, <2>2
<1> QED
  BY <1>3, <1>4, <1>5, <1>6, <1>7, <1>8 DEF SessionInv

-----------------------------------------------------------------------------
(* One step that changes who holds a socket.                               *)

\* All threads but t stay where they are.
OthersStay(t) == \A u \in Threads \ {t} : th'[u] = th[u]

LEMMA HoldStep ==
  ASSUME TypeOK, HoldInv, IdInv, NEW t \in Threads, OthersStay(t), Sound(th'[t]),
         InHandler(th'[t]) => th'[t].id = idOf'[th'[t].ref],
         \A s \in Sockets : s <= created => idOf'[s] = idOf[s],
         \A s \in Sockets, u \in Threads \ {t} : u \in refs'[s] <=> u \in refs[s],
         \A s \in Sockets : t \in refs'[s] <=> Refers(th'[t], s),
         AcceptsHold',
         th'[t].del # Null => refs'[th'[t].del] = {},
         \A u \in Threads \ {t} : th[u].del # Null => th[u].del # th'[t].del /\ refs'[th[u].del] = {}
  PROVE  HoldInv'
<1>0. /\ ThreadsSound /\ HandlersKnow /\ ThreadsHold /\ AcceptsHold /\ DeletersOwn /\ DeletersDiffer
  BY DEF HoldInv
<1>1. ThreadsSound'
  BY <1>0 DEF ThreadsSound, OthersStay
<1>2. HandlersKnow'
  <2> SUFFICES ASSUME NEW u \in Threads, u # t, InHandler(th[u]) PROVE th[u].id = idOf'[th[u].ref]
    BY DEF HandlersKnow, OthersStay
  <2>1. th[u].ref \in Sockets /\ th[u].id = idOf[th[u].ref]
    BY <1>0, Records DEF ThreadsSound, Sound, HandlersKnow
  <2>2. ~(th[u].ref > created)
    BY <2>1, NotLive
  <2>3. th[u].ref <= created
    <3>1. th[u].ref \in Nat
      BY <2>1, Names
    <3>2. created \in Nat
      BY DEF TypeOK
    <3> QED
      BY <2>2, <3>1, <3>2
  <2> QED
    BY <2>1, <2>3
<1>3. ThreadsHold'
  BY <1>0 DEF ThreadsHold, OthersStay
<1>4. DeletersOwn'
  BY <1>0 DEF DeletersOwn, OthersStay
<1>5. DeletersDiffer'
  BY <1>0 DEF DeletersDiffer, OthersStay
<1> QED
  BY <1>1, <1>2, <1>3, <1>4, <1>5 DEF HoldInv

\* The thread t moves, and takes or lets go of references of s, its own or that of the session; whoever
\* lets go of the last one deletes the socket.
Changes(t, s) ==
    /\ OthersStay(t) /\ Sound(th'[t]) /\ th[t].del = Null
    /\ InHandler(th'[t]) => th'[t].id = idOf[th'[t].ref]
    /\ \A r \in Sockets \ {s} : refs'[r] = refs[r]
    /\ "accept" \notin refs[s] /\ "accept" \notin refs'[s] /\ refs[s] # {}
    /\ \A u \in Threads \ {t} : u \in refs'[s] <=> u \in refs[s]
    /\ \A r \in Sockets : t \in refs'[r] <=> Refers(th'[t], r)
    /\ refs'[s] = {} => th'[t].del = s
    /\ refs'[s] # {} => th'[t].del = Null
    /\ Connects(th'[t]) => Connects(th[t]) /\ th'[t].ref = th[t].ref
    /\ th[t].pc \notin {"leave", "release"} /\ th'[t].pc \notin {"leave", "release"}
    /\ th[t].pc # "dead" /\ (th[t].pc \in OfferPcs => th'[t].pc \in OfferPcs \cup {"dead"})

LEMMA RefsChange ==
  ASSUME SessionInv, TypeOK', NEW t \in Threads, NEW s \in Sockets, Changes(t, s), MemberInv',
         UNCHANGED <<is_running_, session_id_queue_, created, accepts, idOf>>,
         UNCHANGED <<client_key_, client_storage_, ended, chrs_>>
  PROVE  SessionInv'
<1>0. /\ TypeOK /\ HoldInv /\ MemberInv /\ IdInv /\ AllAccepted /\ ClientInv /\ FreeIdsAreOffered
      /\ AcceptsHold /\ DeletersOwn
  BY DEF SessionInv, HoldInv
<1>1. \A u \in Threads : th[u].del # s
  BY <1>0, Names DEF DeletersOwn, Changes
<1>2. SameLive
  <2> SUFFICES ASSUME NEW r \in Sockets PROVE Live(r)' <=> Live(r)
    BY DEF SameLive
  <2>1. CASE r = s
    <3>1. Live(s)
      BY DEF Live, Changes
    <3>2. Live(s)'
      BY DEF Live, Changes
    <3> QED
      BY <2>1, <3>1, <3>2
  <2>2. CASE r # s
    <3>1. refs'[r] = refs[r] /\ \A u \in Threads : th'[u].del = r <=> th[u].del = r
      BY <2>2, Names DEF Changes, OthersStay
    <3> QED
      BY <3>1 DEF Live
  <2> QED
    BY <2>1, <2>2
<1>3. HoldInv'
  <2>1. AcceptsHold'
    BY <1>0 DEF AcceptsHold, Changes
  <2>2. \A r \in Sockets, u \in Threads \ {t} : u \in refs'[r] <=> u \in refs[r]
    BY DEF Changes
  <2>3. th'[t].del # Null => refs'[th'[t].del] = {} /\ th'[t].del = s
    BY DEF Changes
  <2>4. \A u \in Threads \ {t} : th[u].del # Null => th[u].del # th'[t].del /\ refs'[th[u].del] = {}
    <3> SUFFICES ASSUME NEW u \in Threads \ {t}, th[u].del # Null
                 PROVE  th[u].del # th'[t].del /\ refs'[th[u].del] = {}
      OBVIOUS
    <3>1. th[u].del \in Sockets \ {s} /\ refs[th[u].del] = {}
      BY <1>0, <1>1, Records DEF DeletersOwn
    <3> QED
      BY <2>3, <3>1 DEF Changes
  <2> QED
    BY <1>0, <2>1, <2>2, <2>3, <2>4, HoldStep DEF Changes
<1>5. IdInv'
  BY <1>0, <1>2, IdsKept
<1>6. AllAccepted' /\ Pending' = Pending
  <2>1. \A r \in Sockets : "accept" \in refs'[r] <=> "accept" \in refs[r]
    BY DEF Changes
  <2> QED
    BY <1>0, <2>1, AcceptedKept
<1>7. ClientInv'
  <2>1. created \in Nat /\ \A r \in Sockets : Live(r)' <=> Live(r)
    BY <1>0, <1>2 DEF TypeOK, SameLive
  <2>2. \A u \in Threads : th[u].pc \in {"leave", "release"} => th[u].del \in Sockets
    BY <1>0, Records DEF HoldInv, ThreadsSound, Sound, DeleterPcs
  <2>3. \A u \in Threads : Connects(th'[u]) => Connects(th[u]) /\ th'[u].ref = th[u].ref
    BY DEF Changes, OthersStay
  <2>4. \A u \in Threads : th[u].pc \in {"leave", "release"} \/ th'[u].pc \in {"leave", "release"} =>
             th'[u].pc = th[u].pc /\ th'[u].del = th[u].del
    BY DEF Changes, OthersStay
  <2>5. \A r \in Sockets : "accept" \in refs'[r] => "accept" \in refs[r]
    BY DEF Changes
  <2> QED
    BY <1>0, <2>1, <2>2, <2>3, <2>4, <2>5, ClientsKept
<1>8. FreeIdsAreOffered'
  BY <1>0, <1>6, OffersKept DEF Changes, OthersStay
<1> QED
  BY <1>3, <1>5, <1>6, <1>7, <1>8 DEF SessionInv

-----------------------------------------------------------------------------
(* The players, the network, and the thread that stops the server.         *)

LEMMA LeaveKeeps ==
  ASSUME SessionInv, NEW s \in Sockets, Leave(s)
  PROVE  SessionInv'
<1>1. TypeOK'
  BY DEF SessionInv, TypeOK, Leave, pool, life, server
<1>2. UNCHANGED <<th, refs, pool, socket_>> /\ UNCHANGED <<client_key_, client_storage_, ended, chrs_>>
  BY DEF Leave, life, server
<1> QED
  BY <1>1, <1>2, NobodyMoves

LEMMA CompleteTypes ==
  ASSUME TypeOK, NEW s \in Sockets, NEW ok \in BOOLEAN, Complete(s, ok)
  PROVE  strand_' \in [Ids -> Seq(BOOLEAN)]
<1>1. idOf[s] \in Ids /\ strand_ \in [Ids -> Seq(BOOLEAN)]
  BY DEF TypeOK
<1>2. PICK q : q = Append(strand_[idOf[s]], ok)
  OBVIOUS
<1>3. q \in Seq(BOOLEAN)
  BY <1>1, <1>2
<1>4. strand_' = [strand_ EXCEPT ![idOf[s]] = q]
  BY <1>2 DEF Complete
<1> QED
  BY <1>1, <1>3, <1>4

LEMMA CompleteReadKeeps ==
  ASSUME SessionInv, NEW s \in Sockets, NEW ok \in BOOLEAN, CompleteRead(s, ok)
  PROVE  SessionInv'
<1>0. TypeOK
  BY DEF SessionInv
<1>1. strand_' \in [Ids -> Seq(BOOLEAN)]
  BY <1>0, CompleteTypes DEF CompleteRead
<1>2. reading' \in [Sockets -> Nat] /\ packets' \in 0 .. MaxPackets
  BY <1>0, SessionAssumption DEF TypeOK, CompleteRead
<1>3. TypeOK'
  BY <1>0, <1>1, <1>2 DEF TypeOK, CompleteRead, pool, life, server
<1>4. UNCHANGED <<th, refs, pool, socket_>> /\ UNCHANGED <<client_key_, client_storage_, ended, chrs_>>
  BY DEF CompleteRead, life, server
<1> QED
  BY <1>3, <1>4, NobodyMoves

LEMMA CompleteWriteKeeps ==
  ASSUME SessionInv, NEW s \in Sockets, NEW ok \in BOOLEAN, CompleteWrite(s, ok)
  PROVE  SessionInv'
<1>0. TypeOK
  BY DEF SessionInv
<1>1. strand_' \in [Ids -> Seq(BOOLEAN)]
  <2>1. CASE ok
    BY <1>0, <2>1 DEF CompleteWrite, TypeOK
  <2>2. CASE ~ok
    <3>1. Complete(s, ok)
      BY <2>2 DEF CompleteWrite
    <3> QED
      BY <1>0, <3>1, CompleteTypes
  <2> QED
    BY <2>1, <2>2
<1>2. writing' \in [Sockets -> Nat]
  BY <1>0 DEF TypeOK, CompleteWrite
<1>3. TypeOK'
  BY <1>0, <1>1, <1>2 DEF TypeOK, CompleteWrite, pool, life, server
<1>4. UNCHANGED <<th, refs, pool, socket_>> /\ UNCHANGED <<client_key_, client_storage_, ended, chrs_>>
  BY DEF CompleteWrite, life, server
<1> QED
  BY <1>3, <1>4, NobodyMoves

LEMMA StopKeeps ==
  ASSUME SessionInv, Stop
  PROVE  SessionInv'
<1>0. TypeOK /\ th[Main].pc = "idle" /\ Main \in Threads
  BY Names DEF SessionInv, Stop, At
<1>1. PICK r : r = [th[Main] EXCEPT !.pc = "clear", !.id = 0]
  OBVIOUS
<1>2. /\ r \in ThreadStates
      /\ r.pc = "clear" /\ r.ref = th[Main].ref /\ r.to = th[Main].to /\ r.del = th[Main].del
  <2>1. 0 \in Ids
    BY Names DEF Ids
  <2>2. th[Main] \in ThreadStates
    BY <1>0, Records
  <2> QED
    BY <1>1, <2>1, <2>2 DEF ThreadStates, Pcs
<1>3. th' = [th EXCEPT ![Main] = r]
  BY <1>1 DEF Stop
<1>4. th' \in [Threads -> ThreadStates] /\ th'[Main] = r /\ \A u \in Threads \ {Main} : th'[u] = th[u]
  BY <1>0, <1>2, <1>3, Records
<1>5. TypeOK'
  BY <1>0, <1>4 DEF TypeOK, Stop, net, life, server
<1>6. th[Main].del = Null
  BY <1>0 DEF SessionInv, HoldInv, ThreadsSound, Sound, DeleterPcs
<1>7. Moves(Main)
  BY <1>0, <1>2, <1>4, <1>6
  DEF Moves, Sound, Refers, InHandler, HandlerPcs, DeleterPcs
<1> QED
  BY <1>0, <1>2, <1>4, <1>5, <1>7, OneMoves DEF Stop, life, server, Connects, OfferPcs

LEMMA ClearNextKeeps ==
  ASSUME SessionInv, ClearNext
  PROVE  SessionInv'
<1>0. TypeOK /\ th[Main].pc = "cleared" /\ Main \in Threads
  BY Names DEF SessionInv, ClearNext, At
<1>1. PICK r : r = IF th[Main].id + 1 \in Ids THEN [th[Main] EXCEPT !.pc = "clear", !.id = th[Main].id + 1]
                                            ELSE [Idle EXCEPT !.pc = "stopped"]
  OBVIOUS
<1>2. /\ r \in ThreadStates
      /\ r.pc \in {"clear", "stopped"} /\ (r.del = th[Main].del \/ r.del = Null)
  <2>1. 0 \in Ids
    BY Names DEF Ids
  <2>2. CASE th[Main].id + 1 \in Ids
    <3>1. th[Main] \in ThreadStates
      BY <1>0, Records
    <3>2. r = [th[Main] EXCEPT !.pc = "clear", !.id = th[Main].id + 1]
      BY <1>1, <2>2
    <3> QED
      BY <2>2, <3>1, <3>2 DEF ThreadStates, Pcs
  <2>3. CASE ~(th[Main].id + 1 \in Ids)
    BY <1>1, <2>1, <2>3 DEF ThreadStates, Pcs, Idle
  <2> QED
    BY <2>2, <2>3
<1>3. th' = [th EXCEPT ![Main] = r]
  BY <1>1 DEF ClearNext
<1>4. th' \in [Threads -> ThreadStates] /\ th'[Main] = r /\ \A u \in Threads \ {Main} : th'[u] = th[u]
  BY <1>0, <1>2, <1>3, Records
<1>5. TypeOK'
  BY <1>0, <1>4 DEF TypeOK, ClearNext, net, pool, life, server
<1>6. th[Main].del = Null
  BY <1>0 DEF SessionInv, HoldInv, ThreadsSound, Sound, DeleterPcs
<1>7. Moves(Main)
  BY <1>0, <1>2, <1>4, <1>6
  DEF Moves, Sound, Refers, InHandler, HandlerPcs, DeleterPcs
<1> QED
  BY <1>0, <1>2, <1>4, <1>5, <1>7, OneMoves DEF ClearNext, pool, life, server, Connects, OfferPcs

-----------------------------------------------------------------------------
(* The steps of a handler that neither take nor drop a reference.          *)

LEMMA IdleSound ==
  Idle \in ThreadStates /\ Sound(Idle) /\ ~InHandler(Idle) /\ ~Connects(Idle)
  /\ (\A s \in Sockets : ~Refers(Idle, s)) /\ Idle.pc = "idle" /\ Idle.del = Null
<1>1. 0 \in Ids
  BY Names DEF Ids
<1>2. Idle \in ThreadStates
  BY <1>1 DEF Idle, ThreadStates, Pcs
<1> QED
  BY <1>2 DEF Idle, Sound, InHandler, HandlerPcs, DeleterPcs, Connects, Refers

LEMMA FinishKeeps ==
  ASSUME SessionInv, NEW t \in Threads, Finish(t)
  PROVE  SessionInv'
<1>0. TypeOK /\ th[t].pc = "finish" /\ Sound(th[t])
  BY DEF SessionInv, Finish, At, HoldInv, ThreadsSound
<1>1. /\ th' \in [Threads -> ThreadStates] /\ th'[t] = Idle
      /\ \A u \in Threads \ {t} : th'[u] = th[u]
  BY <1>0, Records, IdleSound DEF Finish
<1>2. TypeOK'
  BY <1>0, <1>1 DEF TypeOK, Finish, net, pool, life, server
<1>3. Moves(t)
  BY <1>0, <1>1, IdleSound DEF Moves, Sound, Refers, InHandler, HandlerPcs, DeleterPcs
<1> QED
  BY <1>0, <1>1, <1>2, <1>3, OneMoves, IdleSound DEF Finish, pool, life, server, Connects, OfferPcs

LEMMA BroadCastEndsKeeps ==
  ASSUME SessionInv, NEW t \in Threads, BroadCastEnds(t)
  PROVE  SessionInv'
<1>0. TypeOK /\ HoldInv /\ th[t].pc = "broadcast" /\ Goto(t, "read")
  BY DEF SessionInv, BroadCastEnds, At
<1>1. Moves(t) /\ th' \in [Threads -> ThreadStates] /\ th'[t].pc = "read"
  BY <1>0, HandlerMoves DEF HandlerPcs
<1>2. TypeOK'
  BY <1>0, <1>1 DEF TypeOK, BroadCastEnds, net, pool, life
<1> QED
  BY <1>0, <1>1, <1>2, OneMoves DEF BroadCastEnds, pool, life, Connects, OfferPcs

LEMMA ReadTypes ==
  ASSUME TypeOK, NEW i \in Ids, Read(i)
  PROVE  reading' \in [Sockets -> Nat]
<1>1. reading \in [Sockets -> Nat] /\ socket_[i] \in Sockets \cup {Null}
  BY DEF TypeOK
<1>2. CASE socket_[i] = Null
  BY <1>1, <1>2 DEF Read
<1>3. CASE socket_[i] # Null
  <2>1. PICK n \in Nat : n = reading[socket_[i]] + 1
    BY <1>1, <1>3
  <2>2. reading' = [reading EXCEPT ![socket_[i]] = n]
    BY <1>3, <2>1 DEF Read
  <2> QED
    BY <1>1, <2>2
<1> QED
  BY <1>2, <1>3

LEMMA ReadNextKeeps ==
  ASSUME SessionInv, NEW t \in Threads, ReadNext(t)
  PROVE  SessionInv'
<1>0. TypeOK /\ HoldInv /\ th[t].pc = "read" /\ Goto(t, "drop")
  BY DEF SessionInv, ReadNext, At
<1>1. Moves(t) /\ th' \in [Threads -> ThreadStates] /\ th'[t].pc = "drop"
  BY <1>0, HandlerMoves DEF HandlerPcs
<1>2. reading' \in [Sockets -> Nat]
  BY <1>0, Records, ReadTypes DEF ReadNext
<1>3. TypeOK'
  BY <1>0, <1>1, <1>2 DEF TypeOK, ReadNext, pool, life, server
<1> QED
  BY <1>0, <1>1, <1>3, OneMoves DEF ReadNext, pool, life, server, Connects, OfferPcs

\* A packet is handled for a client, which may enter the zone or start a broadcast in it.
LEMMA BroadCastStarts ==
  ASSUME TypeOK, HoldInv, NEW t \in Threads, th[t].pc = "packet",
         th' = [th EXCEPT ![t].pc = "broadcast", ![t].todo = chrs_]
  PROVE  Moves(t) /\ th' \in [Threads -> ThreadStates] /\ th'[t].pc = "broadcast"
<1>1. PICK r : r = [th[t] EXCEPT !.pc = "broadcast", !.todo = chrs_]
  OBVIOUS
<1>2. chrs_ \subseteq Sockets
  BY DEF TypeOK
<1>3. /\ r \in ThreadStates
      /\ r.pc = "broadcast" /\ r.id = th[t].id /\ r.ref = th[t].ref /\ r.to = th[t].to
      /\ r.del = th[t].del /\ r.back = th[t].back
  <2>1. th[t] \in ThreadStates
    BY Records
  <2> QED
    BY <1>1, <1>2, <2>1 DEF ThreadStates, Pcs
<1>4. th' = [th EXCEPT ![t] = r]
  BY <1>1
<1>5. th' \in [Threads -> ThreadStates] /\ th'[t] = r /\ \A u \in Threads \ {t} : th'[u] = th[u]
  BY <1>3, <1>4, Records
<1>6. Sound(th[t])
  BY DEF HoldInv, ThreadsSound
<1>7. InHandler(r) /\ InHandler(th[t])
  BY <1>3 DEF InHandler, HandlerPcs
<1>8. Sound(r)
  BY <1>3, <1>6, <1>7 DEF Sound, DeleterPcs
<1>9. \A s \in Sockets : Refers(r, s) <=> Refers(th[t], s)
  BY <1>3, <1>7 DEF Refers
<1> QED
  BY <1>3, <1>5, <1>7, <1>8, <1>9 DEF Moves

LEMMA ProcessPacketTypes ==
  ASSUME SessionInv, NEW t \in Threads, ProcessPacket(t)
  PROVE  TypeOK' /\ Moves(t) /\ th'[t].pc \in {"error", "read", "broadcast"}
<1>0. TypeOK /\ HoldInv /\ th[t].pc = "packet"
  BY DEF SessionInv, ProcessPacket, At
<1>1. Moves(t) /\ th' \in [Threads -> ThreadStates] /\ th'[t].pc \in {"error", "read", "broadcast"}
  <2>1. CASE Goto(t, "error")
    BY <1>0, <2>1, HandlerMoves DEF HandlerPcs
  <2>2. CASE Goto(t, "read")
    BY <1>0, <2>2, HandlerMoves DEF HandlerPcs
  <2>3. CASE th' = [th EXCEPT ![t].pc = "broadcast", ![t].todo = chrs_]
    BY <1>0, <2>3, BroadCastStarts
  <2> QED
    BY <2>1, <2>2, <2>3 DEF ProcessPacket
<1>2. /\ handled' \in [Sockets -> Nat] /\ chrs_' \subseteq Sockets /\ readers' \subseteq Threads
  <2>1. /\ handled \in [Sockets -> Nat] /\ chrs_ \subseteq Sockets /\ readers \subseteq Threads
        /\ client_storage_ \subseteq Sockets
    BY <1>0 DEF TypeOK
  <2>2. PICK key : key = client_key_[th[t].id]
    OBVIOUS
  <2>3. handled' \in [Sockets -> Nat]
    <3>1. CASE key \in client_storage_ /\ handled' = [handled EXCEPT ![key] = @ + 1]
      BY <2>1, <3>1
    <3> QED
      BY <2>1, <2>2, <3>1 DEF ProcessPacket
  <2>4. \/ chrs_' = chrs_
        \/ key \in client_storage_ /\ chrs_' = chrs_ \cup {key}
    BY <2>2 DEF ProcessPacket
  <2>5. readers' = readers \/ readers' = readers \cup {t}
    BY Zenon DEF ProcessPacket
  <2> QED
    BY <2>1, <2>3, <2>4, <2>5
<1> QED
  BY <1>0, <1>1, <1>2 DEF TypeOK, ProcessPacket, net, pool, life

LEMMA ProcessPacketKeeps ==
  ASSUME SessionInv, NEW t \in Threads, ProcessPacket(t)
  PROVE  SessionInv'
<1>1. TypeOK' /\ Moves(t) /\ th'[t].pc \in {"error", "read", "broadcast"} /\ th[t].pc = "packet"
  BY ProcessPacketTypes DEF ProcessPacket, At
<1>2. chrs_' \subseteq chrs_ \cup client_storage_
  BY DEF ProcessPacket
<1> QED
  BY <1>1, <1>2, OneMoves DEF ProcessPacket, pool, life, Connects, OfferPcs

-----------------------------------------------------------------------------
(* The steps that take a reference or let go of one.                       *)

\* The socket of a session.
LEMMA SocketHeld ==
  ASSUME SessionInv, NEW i \in Ids, NEW s, s = socket_[i], s # Null
  PROVE  /\ s \in Sockets /\ idOf[s] = i /\ "member" \in refs[s] /\ "accept" \notin refs[s]
         /\ refs[s] # {} /\ Live(s) /\ s <= created
<1>1. s \in Sockets /\ idOf[s] = i /\ "member" \in refs[s]
  BY DEF SessionInv, TypeOK, MemberInv, SocketsOfIds, SessionsHold
<1>2. "accept" \notin refs[s]
  BY <1>1 DEF SessionInv, HoldInv, AcceptsHold
<1>3. Live(s)
  BY <1>1 DEF Live
<1> QED
  BY <1>1, <1>2, <1>3 DEF SessionInv, IdInv, OnlyCreatedLive

\* The socket a handler holds.
LEMMA HandlerHolds ==
  ASSUME SessionInv, NEW t \in Threads, InHandler(th[t])
  PROVE  /\ th[t].ref \in Sockets /\ t \in refs[th[t].ref] /\ th[t].id = idOf[th[t].ref]
         /\ "accept" \notin refs[th[t].ref] /\ Live(th[t].ref) /\ th[t].ref <= created
<1>0. TypeOK /\ HoldInv
  BY DEF SessionInv
<1>1. th[t].ref \in Sockets /\ th[t].id = idOf[th[t].ref]
  BY <1>0, Records DEF HoldInv, ThreadsSound, Sound, HandlersKnow
<1>2. t \in refs[th[t].ref]
  BY <1>0, <1>1 DEF HoldInv, ThreadsHold, Refers
<1>3. "accept" \notin refs[th[t].ref]
  BY <1>0, <1>1, <1>2, Names DEF HoldInv, AcceptsHold
<1>4. Live(th[t].ref)
  BY <1>2 DEF Live
<1> QED
  BY <1>1, <1>2, <1>3, <1>4 DEF SessionInv, IdInv, OnlyCreatedLive

\* What the session of a handler has is the socket of the handler, if it has one.
LEMMA HandlersSocket ==
  ASSUME SessionInv, NEW t \in Threads, InHandler(th[t]), socket_[th[t].id] # Null
  PROVE  socket_[th[t].id] = th[t].ref
<1>1. th[t].id \in Ids
  BY Records DEF SessionInv
<1>2. /\ socket_[th[t].id] \in Sockets /\ idOf[socket_[th[t].id]] = th[t].id
      /\ Live(socket_[th[t].id])
  BY <1>1, SocketHeld
<1> QED
  BY <1>2, HandlerHolds DEF SessionInv, IdInv, IdsOfLive

\* References that only threads take and let go of.
LEMMA RefsTyped ==
  ASSUME TypeOK, NEW s \in Sockets, NEW set \in SUBSET (Threads \cup {"accept", "member"}),
         refs' = [refs EXCEPT ![s] = set]
  PROVE  /\ refs' \in [Sockets -> SUBSET (Threads \cup {"accept", "member"})]
         /\ refs'[s] = set /\ \A r \in Sockets \ {s} : refs'[r] = refs[r]
BY DEF TypeOK

LEMMA MembersStay ==
  ASSUME SessionInv, UNCHANGED <<socket_, idOf>>, NEW s \in Sockets,
         \A r \in Sockets \ {s} : refs'[r] = refs[r], "member" \in refs'[s] <=> "member" \in refs[s]
  PROVE  MemberInv'
BY DEF SessionInv, MemberInv, SessionsHold, SocketsOfIds

LEMMA TakeReceiverKeeps ==
  ASSUME SessionInv, NEW t \in Threads, TakeReceiver(t)
  PROVE  SessionInv'
<1>0. TypeOK /\ HoldInv /\ th[t].pc = "broadcast" /\ Sound(th[t]) /\ th[t].todo \subseteq Sockets
  BY Records DEF SessionInv, TakeReceiver, At, HoldInv, ThreadsSound
<1>1. PICK c, r, rest :
        /\ c \in th[t].todo
        /\ r = socket_[idOf[c]] /\ rest = [th[t] EXCEPT !.todo = @ \ {c}]
        /\ IF r \in {Null, th[t].ref}
             THEN /\ th' = [th EXCEPT ![t] = rest]
                  /\ writing' = IF r = Null THEN writing ELSE [writing EXCEPT ![r] = @ + 1]
                  /\ UNCHANGED refs
             ELSE /\ refs' = [refs EXCEPT ![r] = @ \cup {t}]
                  /\ th' = [th EXCEPT ![t] = [rest EXCEPT !.to = r, !.pc = "send"]]
                  /\ UNCHANGED writing
  BY DEF TakeReceiver
<1>2. c \in Sockets /\ idOf[c] \in Ids /\ r \in Sockets \cup {Null}
  BY <1>0, <1>1 DEF TypeOK
<1>3. InHandler(th[t]) /\ th[t].del = Null
  BY <1>0 DEF InHandler, HandlerPcs, Sound, DeleterPcs
<1>4. /\ rest \in ThreadStates
      /\ rest.pc = "broadcast" /\ rest.id = th[t].id /\ rest.ref = th[t].ref /\ rest.to = th[t].to
      /\ rest.del = Null /\ rest.back = th[t].back
  <2>1. th[t].todo \ {c} \in SUBSET Sockets
    BY <1>0
  <2> QED
    BY <1>0, <1>1, <1>3, <2>1, Records DEF ThreadStates
<1>5. UNCHANGED <<is_running_, session_id_queue_, created, accepts, idOf, socket_>>
  BY DEF TakeReceiver, pool
<1>6. UNCHANGED <<client_key_, client_storage_, ended, chrs_>>
  BY DEF TakeReceiver, server
<1>7. CASE r \in {Null, th[t].ref}
  <2>1. /\ th' \in [Threads -> ThreadStates] /\ th'[t] = rest
        /\ \A u \in Threads \ {t} : th'[u] = th[u]
    BY <1>0, <1>1, <1>4, <1>7, Records
  <2>2. writing' \in [Sockets -> Nat] /\ refs' = refs
    <3>1. writing \in [Sockets -> Nat] /\ refs' = refs
      BY <1>0, <1>1, <1>7 DEF TypeOK
    <3>2. CASE r = Null
      BY <1>1, <3>1, <3>2
    <3>3. CASE r # Null
      <4>1. r \in Sockets /\ writing' = [writing EXCEPT ![r] = @ + 1]
        BY <1>1, <1>2, <1>7, <3>3
      <4> QED
        BY <3>1, <4>1
    <3> QED
      BY <3>2, <3>3
  <2>3. TypeOK'
    BY <1>0, <2>1, <2>2 DEF TypeOK, TakeReceiver, pool, server
  <2>4. Moves(t)
    BY <1>0, <1>3, <1>4, <2>1 DEF Moves, Sound, Refers, InHandler, HandlerPcs, DeleterPcs
  <2> QED
    BY <1>0, <1>4, <1>5, <1>6, <2>1, <2>2, <2>3, <2>4, OneMoves DEF Connects, OfferPcs
<1>8. CASE r \notin {Null, th[t].ref}
  <2>1. PICK to : to = [rest EXCEPT !.to = r, !.pc = "send"]
    OBVIOUS
  <2>2. /\ to \in ThreadStates
        /\ to.pc = "send" /\ to.id = th[t].id /\ to.ref = th[t].ref /\ to.to = r
        /\ to.del = Null /\ to.back = th[t].back
    BY <1>2, <1>4, <2>1 DEF ThreadStates, Pcs
  <2>3. th' = [th EXCEPT ![t] = to]
    BY <1>1, <1>8, <2>1
  <2>4. /\ th' \in [Threads -> ThreadStates] /\ th'[t] = to
        /\ \A u \in Threads \ {t} : th'[u] = th[u]
    BY <1>0, <2>2, <2>3, Records
  <2>5. /\ r \in Sockets /\ idOf[r] = idOf[c] /\ "member" \in refs[r] /\ "accept" \notin refs[r]
    BY <1>1, <1>2, <1>8, SocketHeld
  <2>6. PICK set : set = refs[r] \cup {t}
    OBVIOUS
  <2>7. set \in SUBSET (Threads \cup {"accept", "member"})
    BY <1>0, <2>5, <2>6 DEF TypeOK
  <2>8. refs' = [refs EXCEPT ![r] = set]
    BY <1>1, <1>8, <2>6
  <2>9. /\ refs' \in [Sockets -> SUBSET (Threads \cup {"accept", "member"})]
        /\ refs'[r] = set /\ \A q \in Sockets \ {r} : refs'[q] = refs[q]
    BY <1>0, <2>5, <2>7, <2>8, RefsTyped
  <2>10. TypeOK'
    BY <1>0, <1>1, <1>8, <2>4, <2>9 DEF TypeOK, TakeReceiver, pool, server
  <2>11. MemberInv'
    BY <1>5, <2>5, <2>6, <2>9, Names, MembersStay
  <2>12. \A q \in Sockets : t \in refs'[q] <=> Refers(th'[t], q)
    <3> SUFFICES ASSUME NEW q \in Sockets PROVE t \in refs'[q] <=> Refers(th'[t], q)
      OBVIOUS
    <3>1. t \in refs[q] <=> th[t].ref = q
      BY <1>0, <1>3 DEF HoldInv, ThreadsHold, Refers
    <3>2. Refers(to, q) <=> q = th[t].ref \/ q = r
      BY <2>2 DEF Refers, InHandler, HandlerPcs
    <3> QED
      BY <2>4, <2>5, <2>6, <2>9, <3>1, <3>2
  <2>13. Sound(to) /\ ~Connects(to)
    BY <1>0, <1>3, <1>8, <2>2 DEF Sound, InHandler, HandlerPcs, DeleterPcs, Connects
  <2>14. th[t].id = idOf[th[t].ref]
    BY <1>3, HandlerHolds
  <2>15. Changes(t, r)
    BY <1>0, <1>3, <2>2, <2>4, <2>5, <2>6, <2>9, <2>12, <2>13, <2>14, Names
    DEF Changes, OthersStay, OfferPcs
  <2> QED
    BY <1>5, <1>6, <2>5, <2>10, <2>11, <2>15, RefsChange
<1> QED
  BY <1>7, <1>8

LEMMA StartHandlerKeeps ==
  ASSUME SessionInv, NEW t \in Workers, NEW i \in Ids, StartHandler(t, i)
  PROVE  SessionInv'
<1>0. TypeOK /\ HoldInv /\ t \in Threads /\ th[t].pc = "idle" /\ Sound(th[t])
  BY Names DEF SessionInv, StartHandler, At, HoldInv, ThreadsSound
<1>1. PICK s, pc :
        /\ s = socket_[i] /\ pc \in {"packet", "error"}
        /\ IF s = Null
             THEN UNCHANGED <<refs, busy, th>>
             ELSE /\ refs' = [refs EXCEPT ![s] = @ \cup {t}]
                  /\ busy' = busy \cup {i}
                  /\ th' = [th EXCEPT ![t] = [Idle EXCEPT !.pc = pc, !.job = {i}, !.id = i, !.ref = s]]
  <2>1. (IF Head(strand_[i]) THEN "packet" ELSE "error") \in {"packet", "error"}
    OBVIOUS
  <2> QED
    BY <2>1 DEF StartHandler
<1>2. ~InHandler(th[t]) /\ th[t].del = Null /\ th[t].pc # "send"
  BY <1>0 DEF InHandler, HandlerPcs, Sound, DeleterPcs
<1>3. strand_' \in [Ids -> Seq(BOOLEAN)]
  <2>1. strand_[i] \in Seq(BOOLEAN) /\ strand_[i] # <<>> /\ strand_ \in [Ids -> Seq(BOOLEAN)]
    BY <1>0 DEF TypeOK, StartHandler
  <2>2. PICK q : q = Tail(strand_[i])
    OBVIOUS
  <2>3. q \in Seq(BOOLEAN)
    BY <2>1, <2>2
  <2>4. strand_' = [strand_ EXCEPT ![i] = q]
    BY <2>2 DEF StartHandler
  <2> QED
    BY <2>1, <2>3, <2>4
<1>5. UNCHANGED <<is_running_, session_id_queue_, created, accepts, idOf, socket_>>
  BY DEF StartHandler, pool
<1>6. UNCHANGED <<client_key_, client_storage_, ended, chrs_>>
  BY DEF StartHandler, server
<1>7. CASE s = Null
  <2>1. UNCHANGED <<refs, busy, th>>
    BY <1>1, <1>7
  <2>2. TypeOK'
    BY <1>0, <1>3, <2>1 DEF TypeOK, StartHandler, pool, server
  <2>3. UNCHANGED <<th, refs, pool, socket_>> /\ UNCHANGED <<client_key_, client_storage_, ended, chrs_>>
    BY <1>6, <2>1 DEF StartHandler
  <2> QED
    BY <2>2, <2>3, NobodyMoves
<1>8. CASE s # Null
  <2>1. PICK r : r = [Idle EXCEPT !.pc = pc, !.job = {i}, !.id = i, !.ref = s]
    OBVIOUS
  <2>2. /\ s \in Sockets /\ idOf[s] = i /\ "member" \in refs[s] /\ "accept" \notin refs[s]
    BY <1>1, <1>8, SocketHeld
  <2>3. /\ r \in ThreadStates /\ r.pc \in {"packet", "error"} /\ r.id = i /\ r.ref = s /\ r.del = Null
    BY <1>1, <2>1, <2>2 DEF ThreadStates, Pcs, Idle
  <2>4. th' = [th EXCEPT ![t] = r] /\ refs' = [refs EXCEPT ![s] = @ \cup {t}] /\ busy' = busy \cup {i}
    BY <1>1, <1>8, <2>1
  <2>5. /\ th' \in [Threads -> ThreadStates] /\ th'[t] = r
        /\ \A u \in Threads \ {t} : th'[u] = th[u]
    BY <1>0, <2>3, <2>4, Records
  <2>6. PICK set : set = refs[s] \cup {t}
    OBVIOUS
  <2>7. set \in SUBSET (Threads \cup {"accept", "member"})
    BY <1>0, <2>2, <2>6 DEF TypeOK
  <2>8. refs' = [refs EXCEPT ![s] = set]
    BY <2>4, <2>6
  <2>9. /\ refs' \in [Sockets -> SUBSET (Threads \cup {"accept", "member"})]
        /\ refs'[s] = set /\ \A q \in Sockets \ {s} : refs'[q] = refs[q]
    BY <1>0, <2>2, <2>7, <2>8, RefsTyped
  <2>10. TypeOK'
    BY <1>0, <1>3, <2>4, <2>5, <2>9 DEF TypeOK, StartHandler, pool, server
  <2>11. MemberInv'
    BY <1>0, <1>5, <2>2, <2>6, <2>9, Names, MembersStay
  <2>12. \A q \in Sockets : t \in refs'[q] <=> Refers(th'[t], q)
    <3> SUFFICES ASSUME NEW q \in Sockets PROVE t \in refs'[q] <=> Refers(th'[t], q)
      OBVIOUS
    <3>1. t \notin refs[q]
      BY <1>0, <1>2 DEF HoldInv, ThreadsHold, Refers
    <3>2. Refers(r, q) <=> q = s
      BY <2>3 DEF Refers, InHandler, HandlerPcs
    <3> QED
      BY <2>5, <2>2, <2>6, <2>9, <3>1, <3>2
  <2>13. Sound(r) /\ ~Connects(r)
    BY <1>8, <2>3 DEF Sound, DeleterPcs, Connects
  <2>15. Changes(t, s)
    BY <1>0, <1>2, <2>2, <2>3, <2>5, <2>6, <2>9, <2>12, <2>13, Names
    DEF Changes, OthersStay, OfferPcs
  <2> QED
    BY <1>0, <1>5, <1>6, <2>2, <2>10, <2>11, <2>15, RefsChange
<1> QED
  BY <1>7, <1>8

\* A thread lets go of its reference to s; r is what it does next.
LEMMA LetsGo ==
  ASSUME SessionInv, NEW t \in Threads, NEW s \in Sockets, NEW r, r = th'[t], OthersStay(t),
         t \in refs[s], th[t].del = Null, refs' = [refs EXCEPT ![s] = @ \ {t}],
         Sound(r), ~Connects(r), r.pc \notin {"leave", "release"},
         InHandler(r) => InHandler(th[t]) /\ r.id = th[t].id /\ r.ref = th[t].ref,
         \A q \in Sockets : Refers(r, q) <=> Refers(th[t], q) /\ q # s,
         refs[s] = {t} => r.del = s, refs[s] # {t} => r.del = Null,
         th[t].pc \notin {"leave", "release", "dead"}, th[t].pc \in OfferPcs => r.pc = "dead",
         UNCHANGED <<is_running_, session_id_queue_, created, accepts, idOf, socket_>>,
         UNCHANGED <<client_key_, client_storage_, ended, chrs_>>
  PROVE  /\ refs' \in [Sockets -> SUBSET (Threads \cup {"accept", "member"})]
         /\ TypeOK' => SessionInv'
<1>0. TypeOK /\ HoldInv
  BY DEF SessionInv
<1>1. PICK set : set = refs[s] \ {t}
  OBVIOUS
<1>2. set \in SUBSET (Threads \cup {"accept", "member"})
  BY <1>0, <1>1 DEF TypeOK
<1>3. refs' = [refs EXCEPT ![s] = set]
  BY <1>1
<1>4. /\ refs' \in [Sockets -> SUBSET (Threads \cup {"accept", "member"})]
      /\ refs'[s] = set /\ \A q \in Sockets \ {s} : refs'[q] = refs[q]
  BY <1>0, <1>2, <1>3, RefsTyped
<1>6. MemberInv'
  <2>1. "member" \in refs'[s] <=> "member" \in refs[s]
    BY <1>1, <1>4, Names
  <2> QED
    BY <1>4, <2>1, MembersStay
<1>7. \A q \in Sockets : t \in refs'[q] <=> Refers(th'[t], q)
  <2> SUFFICES ASSUME NEW q \in Sockets PROVE t \in refs'[q] <=> Refers(r, q)
    OBVIOUS
  <2>1. t \in refs[q] <=> Refers(th[t], q)
    BY <1>0 DEF HoldInv, ThreadsHold
  <2> QED
    BY <1>1, <1>4, <2>1
<1>8. "accept" \notin refs[s] /\ "accept" \notin refs'[s]
  BY <1>0, <1>1, <1>4, Names DEF HoldInv, AcceptsHold
<1>9. InHandler(r) => r.id = idOf[r.ref]
  BY <1>0 DEF HoldInv, HandlersKnow
<1>10. (refs'[s] = {} => r.del = s) /\ (refs'[s] # {} => r.del = Null)
  <2>1. refs'[s] = {} <=> refs[s] = {t}
    BY <1>1, <1>4
  <2> QED
    BY <2>1
<1>11. \A u \in Threads \ {t} : u \in refs'[s] <=> u \in refs[s]
  BY <1>1, <1>4
<1>12. Changes(t, s)
  BY <1>4, <1>7, <1>8, <1>9, <1>10, <1>11 DEF Changes
<1> QED
  BY <1>4, <1>6, <1>12, RefsChange

LEMMA SendKeeps ==
  ASSUME SessionInv, NEW t \in Threads, Send(t)
  PROVE  SessionInv'
<1>0. TypeOK /\ HoldInv /\ th[t].pc = "send" /\ Sound(th[t])
  BY DEF SessionInv, Send, At, HoldInv, ThreadsSound
<1>1. PICK s : s = th[t].to
  OBVIOUS
<1>2. /\ InHandler(th[t]) /\ th[t].del = Null /\ s \in Sockets /\ s # th[t].ref /\ th[t].ref # Null
      /\ \A q \in Sockets : Refers(th[t], q) <=> q = th[t].ref \/ q = s
  BY <1>0, <1>1, Records DEF InHandler, HandlerPcs, Sound, DeleterPcs, Refers
<1>3. t \in refs[s]
  BY <1>0, <1>2 DEF HoldInv, ThreadsHold
<1>4. PICK r : r = th'[t]
  OBVIOUS
<1>5. /\ th' \in [Threads -> ThreadStates] /\ OthersStay(t)
      /\ r.id = th[t].id /\ r.ref = th[t].ref
      /\ \/ refs[s] = {t} /\ r.pc = "onclose" /\ r.back = "broadcast" /\ r.del = s
         \/ refs[s] # {t} /\ r.pc = "broadcast" /\ r.del = Null
  <2>1. CASE refs[s] = {t}
    <3>1. Deletes(t, s, "broadcast")
      BY <1>1, <2>1 DEF Send, Drop, Deletes
    <3> QED
      BY <1>0, <1>2, <1>4, <2>1, <3>1, GoesToDelete DEF OthersStay, Backs
  <2>2. CASE refs[s] # {t}
    <3>1. Goto(t, "broadcast")
      BY <1>1, <2>2 DEF Send, Drop
    <3> QED
      BY <1>0, <1>2, <1>4, <2>2, <3>1, Goes DEF OthersStay, Pcs
  <2> QED
    BY <2>1, <2>2
<1>6. /\ InHandler(r) /\ Sound(r) /\ ~Connects(r)
      /\ \A q \in Sockets : Refers(r, q) <=> q = th[t].ref
  BY <1>2, <1>5, Names DEF InHandler, Sound, Connects, Refers, HandlerPcs, DeleterPcs
<1>7. UNCHANGED <<is_running_, session_id_queue_, created, accepts, idOf, socket_>>
  BY DEF Send, pool
<1>8. UNCHANGED <<client_key_, client_storage_, ended, chrs_>>
  BY DEF Send, server
<1>9. refs' = [refs EXCEPT ![s] = @ \ {t}]
  BY <1>1 DEF Send, Drop
<1>10. /\ refs' \in [Sockets -> SUBSET (Threads \cup {"accept", "member"})]
       /\ TypeOK' => SessionInv'
  <2>1. \A q \in Sockets : Refers(r, q) <=> Refers(th[t], q) /\ q # s
    BY <1>2, <1>6
  <2>2. th[t].pc \notin {"leave", "release", "dead"} /\ ~(th[t].pc \in OfferPcs)
    BY <1>0 DEF OfferPcs
  <2>3. r.pc \notin {"leave", "release"}
    BY <1>5
  <2>4. (refs[s] = {t} => r.del = s) /\ (refs[s] # {t} => r.del = Null)
    BY <1>5
  <2> QED
    BY <1>2, <1>3, <1>4, <1>5, <1>6, <1>7, <1>8, <1>9, <2>1, <2>2, <2>3, <2>4, LetsGo
<1>11. writing' \in [Sockets -> Nat]
  BY <1>0, <1>1, <1>2 DEF TypeOK, Send
<1>12. TypeOK'
  BY <1>0, <1>5, <1>10, <1>11 DEF TypeOK, Send, pool, server
<1> QED
  BY <1>10, <1>12

LEMMA ReturnKeeps ==
  ASSUME SessionInv, NEW t \in Threads, Return(t)
  PROVE  SessionInv'
<1>0. TypeOK /\ HoldInv /\ th[t].pc = "drop" /\ Sound(th[t])
  BY DEF SessionInv, Return, At, HoldInv, ThreadsSound
<1>1. PICK s : s = th[t].ref
  OBVIOUS
<1>2. /\ InHandler(th[t]) /\ th[t].del = Null /\ s \in Sockets
      /\ \A q \in Sockets : Refers(th[t], q) <=> q = s
  BY <1>0, <1>1, Records DEF InHandler, HandlerPcs, Sound, DeleterPcs, Refers
<1>3. t \in refs[s]
  BY <1>0, <1>2 DEF HoldInv, ThreadsHold
<1>4. PICK r : r = IF refs[s] = {t}
                     THEN [th[t] EXCEPT !.pc = "onclose", !.del = s, !.ref = Null, !.back = "finish"]
                     ELSE Idle
  OBVIOUS
<1>5. /\ r \in ThreadStates /\ Sound(r) /\ ~InHandler(r) /\ ~Connects(r)
      /\ r.pc \in {"onclose", "idle"} /\ (refs[s] = {t} => r.del = s) /\ (refs[s] # {t} => r.del = Null)
      /\ \A q \in Sockets : ~Refers(r, q)
  <2>1. CASE refs[s] = {t}
    <3>0. r = [th[t] EXCEPT !.pc = "onclose", !.del = s, !.ref = Null, !.back = "finish"]
      BY <1>4, <2>1
    <3>1. r \in ThreadStates /\ r.pc = "onclose" /\ r.del = s /\ r.back = "finish"
      <4>1. /\ th[t] \in ThreadStates /\ s \in Sockets
        BY <1>0, <1>2, Records
      <4> QED
        BY <3>0, <4>1 DEF ThreadStates, Pcs
    <3> QED
      BY <1>2, <2>1, <3>1, Names DEF Sound, InHandler, Connects, Refers, HandlerPcs, DeleterPcs
  <2>2. CASE refs[s] # {t}
    BY <1>4, <2>2, IdleSound
  <2> QED
    BY <2>1, <2>2
<1>6. th' = [th EXCEPT ![t] = r]
  BY <1>1, <1>4 DEF Return
<1>7. th' \in [Threads -> ThreadStates] /\ r = th'[t] /\ OthersStay(t)
  BY <1>0, <1>5, <1>6, Records DEF OthersStay
<1>8. UNCHANGED <<is_running_, session_id_queue_, created, accepts, idOf, socket_>>
  BY DEF Return, pool
<1>9. UNCHANGED <<client_key_, client_storage_, ended, chrs_>>
  BY DEF Return, server
<1>10. refs' = [refs EXCEPT ![s] = @ \ {t}]
  BY <1>1 DEF Return
<1>11. /\ refs' \in [Sockets -> SUBSET (Threads \cup {"accept", "member"})]
       /\ TypeOK' => SessionInv'
  <2>1. \A q \in Sockets : Refers(r, q) <=> Refers(th[t], q) /\ q # s
    BY <1>2, <1>5
  <2>2. th[t].pc \notin {"leave", "release", "dead"} /\ ~(th[t].pc \in OfferPcs)
    BY <1>0 DEF OfferPcs
  <2>3. r.pc \notin {"leave", "release"}
    BY <1>5
  <2> QED
    BY <1>2, <1>3, <1>5, <1>7, <1>8, <1>9, <1>10, <2>1, <2>2, <2>3, LetsGo
<1>12. busy' \subseteq Ids
  BY <1>0 DEF TypeOK, Return
<1>13. TypeOK'
  BY <1>0, <1>7, <1>11, <1>12 DEF TypeOK, Return, net, pool, server
<1> QED
  BY <1>11, <1>13

\* The connection of a handler that has not read yet is still that of its session, unless a completion
\* of the previous connection has closed it.
LEMMA OnConnectKeeps ==
  ASSUME SessionInv, NEW t \in Threads, OnConnect(t)
  PROVE  SessionInv'
<1>0. TypeOK /\ HoldInv /\ th[t].pc = "connect" /\ Sound(th[t])
  BY DEF SessionInv, OnConnect, At, HoldInv, ThreadsSound
<1>1. PICK s : s = th[t].ref
  OBVIOUS
<1>2. /\ InHandler(th[t]) /\ th[t].del = Null /\ s \in Sockets
      /\ \A q \in Sockets : Refers(th[t], q) <=> q = s
  BY <1>0, <1>1, Records DEF InHandler, HandlerPcs, Sound, DeleterPcs, Refers
<1>3. t \in refs[s]
  BY <1>0, <1>2 DEF HoldInv, ThreadsHold
<1>7. UNCHANGED <<is_running_, session_id_queue_, created, accepts, idOf, socket_>>
  BY DEF OnConnect, pool
<1>8. UNCHANGED <<client_key_, client_storage_, ended, chrs_>>
  BY DEF OnConnect, server
<1>9. CASE Goto(t, "active") /\ UNCHANGED <<refs, crashed>>
  <2>1. Moves(t) /\ th' \in [Threads -> ThreadStates] /\ th'[t].pc = "active"
    BY <1>0, <1>9, HandlerMoves DEF HandlerPcs
  <2>2. TypeOK'
    BY <1>0, <1>9, <2>1 DEF TypeOK, OnConnect, net, pool, server
  <2> QED
    BY <1>0, <1>7, <1>8, <1>9, <2>1, <2>2, OneMoves DEF Connects, OfferPcs
<1>10. CASE crashed' = TRUE /\ UNCHANGED <<refs, th>>
  <2>1. TypeOK'
    BY <1>0, <1>10 DEF TypeOK, OnConnect, net, pool, server
  <2>2. UNCHANGED pool
    BY DEF OnConnect
  <2> QED
    BY <1>7, <1>8, <1>10, <2>1, <2>2, NobodyMoves
<1>11. CASE socket_[th[t].id] # Null /\ Drop(t, th[t].ref, "dead") /\ UNCHANGED crashed
  <2>1. "member" \in refs[s]
    <3>1. th[t].id \in Ids /\ socket_[th[t].id] = s
      BY <1>0, <1>1, <1>2, <1>11, Records, HandlersSocket
    <3> QED
      BY <1>11, <3>1, SocketHeld
  <2>2. refs[s] # {t}
    BY <2>1, Names
  <2>3. Goto(t, "dead") /\ refs' = [refs EXCEPT ![s] = @ \ {t}]
    BY <1>1, <1>11, <2>2 DEF Drop
  <2>4. PICK r : r = th'[t]
    OBVIOUS
  <2>5. /\ th' \in [Threads -> ThreadStates] /\ OthersStay(t) /\ r.pc = "dead" /\ r.del = Null
    BY <1>0, <1>2, <2>3, <2>4, Goes DEF OthersStay, Pcs
  <2>6. Sound(r) /\ ~InHandler(r) /\ ~Connects(r) /\ \A q \in Sockets : ~Refers(r, q)
    BY <2>5 DEF Sound, InHandler, Connects, Refers, HandlerPcs, DeleterPcs
  <2>7. \A q \in Sockets : Refers(r, q) <=> Refers(th[t], q) /\ q # s
    BY <1>2, <2>6
  <2>8. /\ refs' \in [Sockets -> SUBSET (Threads \cup {"accept", "member"})]
        /\ TypeOK' => SessionInv'
    BY <1>0, <1>2, <1>3, <1>7, <1>8, <2>2, <2>3, <2>4, <2>5, <2>6, <2>7, LetsGo
  <2>9. TypeOK'
    BY <1>0, <1>11, <2>5, <2>8 DEF TypeOK, OnConnect, net, pool, server
  <2> QED
    BY <2>8, <2>9
<1> QED
  BY <1>9, <1>10, <1>11 DEF OnConnect

\* A thread closes session i, whose socket is s; r is what it does next.
LEMMA Closes ==
  ASSUME SessionInv, NEW t \in Threads, NEW i \in Ids, NEW s, s = socket_[i], s # Null,
         NEW r, r = th'[t], OthersStay(t), th[t].del = Null,
         refs' = [refs EXCEPT ![s] = @ \ {"member"}], socket_' = [socket_ EXCEPT ![i] = Null],
         Sound(r), ~Connects(r), r.pc \notin {"leave", "release"},
         InHandler(r) => InHandler(th[t]) /\ r.id = th[t].id /\ r.ref = th[t].ref,
         \A q \in Sockets : Refers(r, q) <=> Refers(th[t], q),
         refs[s] = {"member"} => r.del = s, refs[s] # {"member"} => r.del = Null,
         th[t].pc \notin {"leave", "release", "dead"}, th[t].pc \notin OfferPcs,
         UNCHANGED <<is_running_, session_id_queue_, created, accepts, idOf>>,
         UNCHANGED <<client_key_, client_storage_, ended, chrs_>>
  PROVE  /\ refs' \in [Sockets -> SUBSET (Threads \cup {"accept", "member"})]
         /\ socket_' \in [Ids -> Sockets \cup {Null}]
         /\ TypeOK' => SessionInv'
<1>0. TypeOK /\ HoldInv /\ MemberInv
  BY DEF SessionInv
<1>1. /\ s \in Sockets /\ idOf[s] = i /\ "member" \in refs[s] /\ "accept" \notin refs[s] /\ refs[s] # {}
  BY SocketHeld
<1>2. PICK set : set = refs[s] \ {"member"}
  OBVIOUS
<1>3. set \in SUBSET (Threads \cup {"accept", "member"})
  BY <1>0, <1>1, <1>2 DEF TypeOK
<1>4. refs' = [refs EXCEPT ![s] = set]
  BY <1>2
<1>5. /\ refs' \in [Sockets -> SUBSET (Threads \cup {"accept", "member"})]
      /\ refs'[s] = set /\ \A q \in Sockets \ {s} : refs'[q] = refs[q]
  BY <1>0, <1>1, <1>3, <1>4, RefsTyped
<1>6. /\ socket_' \in [Ids -> Sockets \cup {Null}] /\ socket_'[i] = Null
      /\ \A j \in Ids \ {i} : socket_'[j] = socket_[j]
  BY <1>0 DEF TypeOK
<1>7. MemberInv'
  <2>1. SocketsOfIds'
    BY <1>0, <1>6 DEF MemberInv, SocketsOfIds
  <2>2. SessionsHold'
    <3> SUFFICES ASSUME NEW q \in Sockets PROVE "member" \in refs'[q] <=> socket_'[idOf[q]] = q
      BY DEF SessionsHold
    <3>1. idOf[q] \in Ids /\ ("member" \in refs[q] <=> socket_[idOf[q]] = q)
      BY <1>0 DEF TypeOK, MemberInv, SessionsHold
    <3>2. CASE q = s
      BY <1>1, <1>2, <1>5, <1>6, <3>2
    <3>3. CASE q # s /\ idOf[q] = i
      BY <1>5, <1>6, <3>1, <3>3, Names
    <3>4. CASE q # s /\ idOf[q] # i
      BY <1>5, <1>6, <3>1, <3>4
    <3> QED
      BY <3>2, <3>3, <3>4
  <2> QED
    BY <2>1, <2>2 DEF MemberInv
<1>8. \A u \in Threads, q \in Sockets : u \in refs'[q] <=> u \in refs[q]
  BY <1>2, <1>5, Names
<1>9. \A q \in Sockets : t \in refs'[q] <=> Refers(th'[t], q)
  BY <1>0, <1>8 DEF HoldInv, ThreadsHold
<1>10. "accept" \notin refs'[s]
  BY <1>1, <1>2, <1>5
<1>11. InHandler(r) => r.id = idOf[r.ref]
  BY <1>0 DEF HoldInv, HandlersKnow
<1>12. (refs'[s] = {} => r.del = s) /\ (refs'[s] # {} => r.del = Null)
  <2>1. refs'[s] = {} <=> refs[s] = {"member"}
    BY <1>1, <1>2, <1>5
  <2> QED
    BY <2>1
<1>13. Changes(t, s)
  BY <1>1, <1>5, <1>8, <1>9, <1>10, <1>11, <1>12 DEF Changes
<1> QED
  BY <1>1, <1>5, <1>6, <1>7, <1>13, RefsChange

LEMMA ClearKeeps ==
  ASSUME SessionInv, Clear
  PROVE  SessionInv'
<1>0. TypeOK /\ HoldInv /\ Main \in Threads /\ th[Main].pc = "clear" /\ Sound(th[Main])
  BY Names DEF SessionInv, Clear, At, HoldInv, ThreadsSound
<1>1. PICK i, s : i = th[Main].id /\ s = socket_[i]
  OBVIOUS
<1>2. i \in Ids /\ th[Main].del = Null /\ ~InHandler(th[Main])
  BY <1>0, <1>1, Records DEF InHandler, HandlerPcs, Sound, DeleterPcs
<1>3. UNCHANGED <<is_running_, session_id_queue_, created, accepts, idOf>>
  BY DEF Clear, pool
<1>4. UNCHANGED <<client_key_, client_storage_, ended, chrs_>>
  BY DEF Clear, server
<1>5. PICK r : r = th'[Main]
  OBVIOUS
<1>6. CASE s = Null
  <2>1. Goto(Main, "cleared") /\ UNCHANGED life
    BY <1>1, <1>6 DEF Clear, Close
  <2>2. /\ th' \in [Threads -> ThreadStates] /\ \A u \in Threads \ {Main} : th'[u] = th[u]
        /\ r.pc = "cleared" /\ r.del = Null
    BY <1>0, <1>2, <1>5, <2>1, Goes DEF Pcs
  <2>3. Moves(Main)
    BY <1>0, <1>2, <1>5, <2>2 DEF Moves, Sound, Refers, InHandler, HandlerPcs, DeleterPcs
  <2>4. TypeOK'
    BY <1>0, <2>1, <2>2 DEF TypeOK, Clear, net, pool, server, life
  <2> QED
    BY <1>0, <1>3, <1>4, <1>5, <2>1, <2>2, <2>3, <2>4, OneMoves DEF Connects, OfferPcs, life
<1>7. CASE s # Null
  <2>1. /\ socket_' = [socket_ EXCEPT ![i] = Null] /\ closed' = closed \cup {s}
        /\ refs' = [refs EXCEPT ![s] = @ \ {"member"}] /\ s \in Sockets
    <3>1. s \in Sockets
      BY <1>0, <1>1, <1>2, <1>7 DEF TypeOK
    <3> QED
      BY <1>1, <1>7, <3>1 DEF Clear, Close
  <2>2. /\ th' \in [Threads -> ThreadStates] /\ OthersStay(Main)
        /\ \/ refs[s] = {"member"} /\ r.pc = "onclose" /\ r.back = "cleared" /\ r.del = s
           \/ refs[s] # {"member"} /\ r.pc = "cleared" /\ r.del = Null
    <3>1. CASE refs[s] = {"member"}
      <4>1. Deletes(Main, s, "cleared")
        BY <1>1, <1>7, <3>1 DEF Clear, Close, Deletes
      <4> QED
        BY <1>0, <1>2, <1>5, <2>1, <3>1, <4>1, GoesToDelete DEF OthersStay, Backs
    <3>2. CASE refs[s] # {"member"}
      <4>1. Goto(Main, "cleared")
        BY <1>1, <1>7, <3>2 DEF Clear, Close
      <4> QED
        BY <1>0, <1>2, <1>5, <3>2, <4>1, Goes DEF OthersStay, Pcs
    <3> QED
      BY <3>1, <3>2
  <2>3. /\ Sound(r) /\ ~InHandler(r) /\ ~Connects(r)
        /\ \A q \in Sockets : ~Refers(r, q) /\ ~Refers(th[Main], q)
    BY <1>0, <1>2, <2>1, <2>2, Names DEF Sound, InHandler, Connects, Refers, HandlerPcs, DeleterPcs
  <2>4. r.pc \notin {"leave", "release"} /\ (refs[s] = {"member"} => r.del = s)
        /\ (refs[s] # {"member"} => r.del = Null)
    BY <2>2
  <2>5. th[Main].pc \notin {"leave", "release", "dead"} /\ th[Main].pc \notin OfferPcs
    BY <1>0 DEF OfferPcs
  <2>6. /\ refs' \in [Sockets -> SUBSET (Threads \cup {"accept", "member"})]
        /\ socket_' \in [Ids -> Sockets \cup {Null}]
        /\ TypeOK' => SessionInv'
    BY <1>0, <1>1, <1>2, <1>3, <1>4, <1>5, <1>7, <2>1, <2>2, <2>3, <2>4, <2>5, Closes
  <2>7. TypeOK'
    BY <1>0, <2>1, <2>2, <2>6 DEF TypeOK, Clear, net, pool, server
  <2> QED
    BY <2>6, <2>7
<1> QED
  BY <1>6, <1>7

LEMMA OnErrorKeeps ==
  ASSUME SessionInv, NEW t \in Threads, OnError(t)
  PROVE  SessionInv'
<1>0. TypeOK /\ HoldInv /\ th[t].pc = "error" /\ Sound(th[t])
  BY DEF SessionInv, OnError, At, HoldInv, ThreadsSound
<1>1. PICK i, s : i = th[t].id /\ s = socket_[i]
  OBVIOUS
<1>2. i \in Ids /\ th[t].del = Null /\ InHandler(th[t])
  BY <1>0, <1>1, Records DEF InHandler, HandlerPcs, Sound, DeleterPcs
<1>3. UNCHANGED <<is_running_, session_id_queue_, created, accepts, idOf>>
  BY DEF OnError, pool
<1>4. UNCHANGED <<client_key_, client_storage_, ended, chrs_>>
  BY DEF OnError, server
<1>5. PICK r : r = th'[t]
  OBVIOUS
<1>6. s # Null => t \in refs[s]
  BY <1>1, <1>2, HandlersSocket, HandlerHolds
<1>7. Goto(t, "drop")
  <2>1. s # Null => refs[s] # {"member"}
    BY <1>6, Names
  <2> QED
    BY <1>1, <2>1 DEF OnError, Close
<1>8. /\ Moves(t) /\ th' \in [Threads -> ThreadStates] /\ r.pc = "drop"
      /\ r.ref = th[t].ref /\ r.del = Null
  BY <1>0, <1>2, <1>5, <1>7, HandlerMoves DEF HandlerPcs
<1>9. CASE s = Null
  <2>1. UNCHANGED life
    BY <1>1, <1>9 DEF OnError, Close
  <2>2. TypeOK'
    BY <1>0, <1>8, <2>1 DEF TypeOK, OnError, net, pool, server, life
  <2> QED
    BY <1>0, <1>3, <1>4, <1>5, <1>8, <2>1, <2>2, OneMoves DEF Connects, OfferPcs, life
<1>10. CASE s # Null
  <2>1. /\ socket_' = [socket_ EXCEPT ![i] = Null] /\ closed' = closed \cup {s}
        /\ refs' = [refs EXCEPT ![s] = @ \ {"member"}] /\ s \in Sockets
    <3>1. s \in Sockets
      BY <1>0, <1>1, <1>2, <1>10 DEF TypeOK
    <3> QED
      BY <1>1, <1>10, <3>1 DEF OnError, Close
  <2>2. OthersStay(t) /\ Sound(r) /\ ~Connects(r) /\ refs[s] # {"member"}
        /\ (InHandler(r) => InHandler(th[t]) /\ r.id = th[t].id /\ r.ref = th[t].ref)
        /\ \A q \in Sockets : Refers(r, q) <=> Refers(th[t], q)
    BY <1>5, <1>6, <1>8, <1>10, Names DEF Moves, OthersStay, Connects
  <2>3. /\ th[t].pc \notin {"leave", "release", "dead"} /\ th[t].pc \notin OfferPcs
        /\ r.pc \notin {"leave", "release"}
    BY <1>0, <1>8 DEF OfferPcs
  <2>4. /\ refs' \in [Sockets -> SUBSET (Threads \cup {"accept", "member"})]
        /\ socket_' \in [Ids -> Sockets \cup {Null}]
        /\ TypeOK' => SessionInv'
    BY <1>1, <1>2, <1>3, <1>4, <1>5, <1>8, <1>10, <2>1, <2>2, <2>3, Closes
  <2>5. TypeOK'
    BY <1>0, <1>8, <2>1, <2>4 DEF TypeOK, OnError, net, pool, server
  <2> QED
    BY <2>4, <2>5
<1> QED
  BY <1>9, <1>10

-----------------------------------------------------------------------------
(* Accepts.                                                                *)

\* An accept that is waited for has been completed.
LEMMA AcceptedLess ==
  ASSUME TypeOK, AllAccepted, NEW s \in Pending, created' = created, accepts' = accepts + 1,
         Pending' = Pending \ {s}
  PROVE  AllAccepted'
<1>1. IsFiniteSet(Pending) /\ Cardinality(Pending) \in Nat
  BY PendingIsFinite
<1>2. Cardinality(Pending') = Cardinality(Pending) - 1
  BY <1>1, FS_RemoveElement
<1>3. accepts \in Nat /\ created \in Nat
  BY DEF TypeOK
<1> QED
  BY <1>1, <1>2, <1>3 DEF AllAccepted

\* Accept either finds no id, or creates the next socket with the first id in the queue.
Creates(held) ==
    /\ created + 1 \in Sockets /\ session_id_queue_ # <<>>
    /\ session_id_queue_' = Tail(session_id_queue_) /\ created' = created + 1
    /\ idOf' = [idOf EXCEPT ![created + 1] = Head(session_id_queue_)]
    /\ refs'[created + 1] = {"accept"}
    /\ \A r \in Sockets \ {created + 1} : refs'[r] = held[r]
FindsNoId(held) ==
    session_id_queue_ = <<>> /\ refs' = held /\ UNCHANGED <<session_id_queue_, created, idOf>>

LEMMA AcceptTypes ==
  ASSUME TypeOK, IdInv, AllAccepted,
         NEW held \in [Sockets -> SUBSET (Threads \cup {"accept", "member"})], Accept(held)
  PROVE  /\ session_id_queue_' \in Seq(Ids)
         /\ created' \in Nat /\ created' <= MaxAccepts + MaxConnection /\ created <= created'
         /\ idOf' \in [Sockets -> Ids]
         /\ refs' \in [Sockets -> SUBSET (Threads \cup {"accept", "member"})]
         /\ FindsNoId(held) \/ Creates(held)
<1>1. CASE session_id_queue_ = <<>>
  <2>1. FindsNoId(held)
    BY <1>1 DEF FindsNoId, Accept
  <2> QED
    BY <2>1 DEF TypeOK, FindsNoId
<1>2. CASE session_id_queue_ # <<>>
  <2>1. PICK s \in Sockets : s = created + 1
    BY <1>2, AcceptsFit
  <2>2. PICK q \in Seq(Ids), head \in Ids :
          q = Tail(session_id_queue_) /\ head = Head(session_id_queue_)
    <3>1. session_id_queue_ \in Seq(Ids)
      BY DEF TypeOK
    <3>2. PICK q : q = Tail(session_id_queue_)
      OBVIOUS
    <3>3. PICK head : head = Head(session_id_queue_)
      OBVIOUS
    <3>4. q \in Seq(Ids)
      BY <1>2, <3>1, <3>2
    <3>5. head \in Ids
      BY <1>2, <3>1, <3>3
    <3> QED
      BY <3>2, <3>3, <3>4, <3>5
  <2>3. /\ session_id_queue_' = q /\ created' = s /\ idOf' = [idOf EXCEPT ![s] = head]
        /\ refs' = [held EXCEPT ![s] = {"accept"}]
    BY <1>2, <2>1, <2>2 DEF Accept
  <2>4. idOf' \in [Sockets -> Ids]
    BY <2>2, <2>3 DEF TypeOK
  <2>5. /\ refs' \in [Sockets -> SUBSET (Threads \cup {"accept", "member"})]
        /\ refs'[s] = {"accept"} /\ \A r \in Sockets \ {s} : refs'[r] = held[r]
    BY <2>1, <2>3
  <2>6. created' \in Nat /\ created' <= MaxAccepts + MaxConnection /\ created <= created'
    BY <2>1, <2>3, Names DEF Sockets, TypeOK
  <2>7. Creates(held)
    BY <1>2, <2>1, <2>2, <2>3, <2>5 DEF Creates
  <2> QED
    BY <2>2, <2>3, <2>4, <2>5, <2>6, <2>7
<1> QED
  BY <1>1, <1>2

\* One thread moves, and an accept is started if there is a free id.
LEMMA Accepts ==
  ASSUME SessionInv, TypeOK', NEW t \in Threads, Moves(t), Accept(refs), UNCHANGED <<accepts, socket_>>,
         UNCHANGED <<client_key_, client_storage_, ended, chrs_>>,
         is_running_' \/ created' = 0 => is_running_ \/ created = 0,
         Connects(th'[t]) => Connects(th[t]) /\ th'[t].ref = th[t].ref,
         th[t].pc \in {"leave", "release"} \/ th'[t].pc \in {"leave", "release"} => th'[t].pc = th[t].pc
  PROVE  SessionInv'
<1>0. /\ TypeOK /\ HoldInv /\ MemberInv /\ IdInv /\ AllAccepted /\ ClientInv /\ FreeIdsAreOffered
      /\ refs \in [Sockets -> SUBSET (Threads \cup {"accept", "member"})] /\ created \in Nat
  BY DEF SessionInv, TypeOK
<1>1. /\ created' \in Nat /\ created <= created' /\ idOf' \in [Sockets -> Ids]
      /\ FindsNoId(refs) \/ Creates(refs)
  BY <1>0, AcceptTypes
<1>2. SameRefs
  <2>1. CASE FindsNoId(refs)
    BY <2>1 DEF SameRefs, FindsNoId
  <2>2. CASE Creates(refs)
    <3>1. idOf \in [Sockets -> Ids]
      BY <1>0 DEF TypeOK
    <3>2. \A s \in Sockets \ {created + 1} : refs'[s] = refs[s] /\ idOf'[s] = idOf[s]
      BY <2>2, <3>1 DEF Creates
    <3>3. created + 1 > created /\ refs'[created + 1] = {"accept"}
      BY <1>0, <2>2 DEF Creates
    <3> QED
      BY <3>2, <3>3 DEF SameRefs
  <2> QED
    BY <1>1, <2>1, <2>2
<1>3. HoldInv'
  BY <1>0, <1>2, HoldKept
<1>4. \A u \in Threads : th'[u].del = th[u].del
  BY DEF Moves
<1>5. \A s \in Sockets : s > created => refs[s] = {} /\ ~Live(s)
  BY <1>0, NotLive DEF Live
<1>6. MemberInv'
  <2>1. \A s \in Sockets : idOf'[s] = idOf[s] \/ s > created
    BY <1>2 DEF SameRefs
  <2>2. \A s \in Sockets : "member" \in refs'[s] <=> "member" \in refs[s]
    BY <1>2, <1>5 DEF SameRefs
  <2> QED
    BY <1>0, <1>1, <2>1, <2>2, MembersKept
<1>7. \A s \in Sockets : Live(s) => Live(s)'
  <2> SUFFICES ASSUME NEW s \in Sockets, Live(s) PROVE Live(s)'
    OBVIOUS
  <2>1. refs'[s] = refs[s]
    BY <1>2, <1>5 DEF SameRefs
  <2> QED
    BY <1>4, <2>1 DEF Live
<1>8. ClientInv'
  <2>1. \A u \in Threads : th[u].pc \in {"leave", "release"} => th[u].del \in Sockets
    BY <1>0, Records DEF HoldInv, ThreadsSound, Sound, DeleterPcs
  <2>2. \A u \in Threads : Connects(th'[u]) => Connects(th[u]) /\ th'[u].ref = th[u].ref
    BY DEF Moves
  <2>3. \A u \in Threads : th[u].pc \in {"leave", "release"} \/ th'[u].pc \in {"leave", "release"} =>
             th'[u].pc = th[u].pc /\ th'[u].del = th[u].del
    BY DEF Moves
  <2>4. \A s \in Sockets : s <= created =>
             idOf'[s] = idOf[s] /\ ("accept" \in refs'[s] => "accept" \in refs[s])
    BY <1>0, <1>2, Names DEF SameRefs
  <2> QED
    BY <1>0, <1>1, <1>7, <2>1, <2>2, <2>3, <2>4, ClientsKept
<1>9. CASE FindsNoId(refs)
  <2>1. refs' = refs /\ UNCHANGED <<session_id_queue_, created, idOf>> /\ session_id_queue_' = <<>>
    BY <1>9 DEF FindsNoId
  <2>2. SameLive
    BY <1>4, <2>1, LiveKept
  <2>3. IdInv'
    BY <1>0, <2>1, <2>2, IdsKept
  <2>4. AllAccepted'
    BY <1>0, <2>1, AcceptedKept
  <2>5. FreeIdsAreOffered'
    BY <2>1 DEF FreeIdsAreOffered
  <2> QED
    BY <1>3, <1>6, <1>8, <2>3, <2>4, <2>5 DEF SessionInv
<1>10. CASE Creates(refs)
  <2>1. PICK s \in Sockets :
          /\ s = created + 1 /\ session_id_queue_ # <<>>
          /\ session_id_queue_' = Tail(session_id_queue_) /\ created' = s
          /\ idOf' = [idOf EXCEPT ![s] = Head(session_id_queue_)]
          /\ refs'[s] = {"accept"} /\ \A r \in Sockets \ {s} : refs'[r] = refs[r]
    BY <1>10 DEF Creates
  <2>2. s > created /\ refs[s] = {}
    BY <1>0, <1>5, <2>1
  <2>3. Live(s)' /\ \A r \in Sockets \ {s} : Live(r)' <=> Live(r)
    BY <1>4, <2>1 DEF Live
  <2>4. IdInv'
    BY <1>0, <2>1, <2>3, IdsAccept
  <2>5. s \notin Pending /\ Pending' = Pending \cup {s}
    BY <2>1, <2>2 DEF Pending
  <2>6. AllAccepted'
    <3>1. Pending' = (Pending \ {}) \cup {s} /\ {} \in SUBSET Pending
      BY <2>5
    <3>2. created' = created + 1 /\ accepts' = accepts
      BY <2>1
    <3> QED
      BY <1>0, <2>5, <3>1, <3>2, AcceptedMore
  <2>7. FreeIdsAreOffered'
    BY <2>5 DEF FreeIdsAreOffered
  <2> QED
    BY <1>3, <1>6, <1>8, <2>4, <2>6, <2>7 DEF SessionInv
<1> QED
  BY <1>1, <1>9, <1>10

LEMMA RunKeeps ==
  ASSUME SessionInv, Run
  PROVE  SessionInv'
<1>0. /\ TypeOK /\ HoldInv /\ IdInv /\ AllAccepted /\ Main \in Threads /\ created = 0
      /\ refs \in [Sockets -> SUBSET (Threads \cup {"accept", "member"})]
  BY Names DEF SessionInv, TypeOK, Run
<1>1. Accept(refs)
  BY DEF Run
<1>2. TypeOK'
  BY <1>0, <1>1, AcceptTypes DEF TypeOK, Run, net, server
<1>3. Moves(Main)
  BY <1>0, Records DEF Moves, Run, HoldInv, ThreadsSound
<1>4. UNCHANGED <<client_key_, client_storage_, ended, chrs_>>
  BY DEF Run, server
<1> QED
  BY <1>0, <1>1, <1>2, <1>3, <1>4, Accepts DEF Run

LEMMA FirstReadKeeps ==
  ASSUME SessionInv, NEW t \in Threads, FirstRead(t)
  PROVE  SessionInv'
<1>0. /\ TypeOK /\ HoldInv /\ IdInv /\ AllAccepted /\ th[t].pc = "firstread" /\ Goto(t, "drop")
      /\ refs \in [Sockets -> SUBSET (Threads \cup {"accept", "member"})] /\ Accept(refs)
  BY DEF SessionInv, TypeOK, FirstRead, At
<1>1. Moves(t) /\ th' \in [Threads -> ThreadStates] /\ th'[t].pc = "drop"
  BY <1>0, HandlerMoves DEF HandlerPcs
<1>2. reading' \in [Sockets -> Nat]
  BY <1>0, Records, ReadTypes DEF FirstRead
<1>3. TypeOK'
  BY <1>0, <1>1, <1>2, AcceptTypes DEF TypeOK, FirstRead, server
<1>4. UNCHANGED <<client_key_, client_storage_, ended, chrs_>>
  BY DEF FirstRead, server
<1>5. created' = 0 => created = 0
  BY <1>0, AcceptTypes DEF TypeOK
<1>6. is_running_' = is_running_ /\ UNCHANGED <<accepts, socket_>>
  BY DEF FirstRead
<1> QED
  BY <1>0, <1>1, <1>3, <1>4, <1>5, <1>6, Accepts DEF Connects

LEMMA ReacceptKeeps ==
  ASSUME SessionInv, NEW t \in Threads, Reaccept(t)
  PROVE  SessionInv'
<1>0. /\ TypeOK /\ HoldInv /\ IdInv /\ AllAccepted /\ th[t].pc = "reaccept" /\ Goto(t, th[t].back)
      /\ refs \in [Sockets -> SUBSET (Threads \cup {"accept", "member"})] /\ Accept(refs)
  BY DEF SessionInv, TypeOK, Reaccept, At
<1>1. PICK back : back = th[t].back
  OBVIOUS
<1>2. back \in {"idle", "finish", "broadcast", "cleared"} /\ Sound(th[t]) /\ th[t].del = Null
  BY <1>0, <1>1 DEF HoldInv, ThreadsSound, Sound, DeleterPcs
<1>3. /\ th' \in [Threads -> ThreadStates] /\ \A u \in Threads \ {t} : th'[u] = th[u]
      /\ th'[t].pc = back /\ th'[t].id = th[t].id /\ th'[t].ref = th[t].ref /\ th'[t].del = Null
      /\ th'[t].to = th[t].to /\ th'[t].back = back
  <2>1. back \in Pcs
    BY <1>2 DEF Pcs
  <2> QED
    BY <1>0, <1>1, <1>2, <2>1, Goes
<1>4. InHandler(th'[t]) <=> InHandler(th[t])
  BY <1>0, <1>1, <1>2, <1>3 DEF InHandler, HandlerPcs, DeleterPcs
<1>5. Moves(t)
  <2>1. Sound(th'[t])
    BY <1>2, <1>3, <1>4 DEF Sound, DeleterPcs
  <2>2. \A s \in Sockets : Refers(th'[t], s) <=> Refers(th[t], s)
    BY <1>0, <1>2, <1>3, <1>4 DEF Refers
  <2> QED
    BY <1>2, <1>3, <1>4, <2>1, <2>2 DEF Moves
<1>6. TypeOK'
  BY <1>0, <1>3, AcceptTypes DEF TypeOK, Reaccept, net, server
<1>7. UNCHANGED <<client_key_, client_storage_, ended, chrs_>>
  BY DEF Reaccept, server
<1>8. created' = 0 => created = 0
  BY <1>0, AcceptTypes DEF TypeOK
<1>9. is_running_' = is_running_ /\ UNCHANGED <<accepts, socket_>>
  BY DEF Reaccept
<1> QED
  BY <1>0, <1>2, <1>3, <1>5, <1>6, <1>7, <1>8, <1>9, Accepts DEF Connects

\* A socket that is waited for.
LEMMA PendingHeld ==
  ASSUME SessionInv, NEW s \in Pending
  PROVE  /\ s \in Sockets /\ refs[s] = {"accept"} /\ Live(s) /\ s <= created /\ idOf[s] \in Ids
         /\ \A u \in Threads : th[u].del # s /\ ~Refers(th[u], s)
<1>1. s \in Sockets /\ refs[s] = {"accept"}
  BY DEF Pending, SessionInv, HoldInv, AcceptsHold
<1>2. Live(s)
  BY <1>1 DEF Live
<1>3. \A u \in Threads : th[u].del # s
  BY <1>1, Names DEF SessionInv, HoldInv, DeletersOwn
<1>4. \A u \in Threads : ~Refers(th[u], s)
  BY <1>1, Names DEF SessionInv, HoldInv, ThreadsHold
<1> QED
  BY <1>1, <1>2, <1>3, <1>4 DEF SessionInv, TypeOK, IdInv, OnlyCreatedLive

LEMMA HandleAcceptKeeps ==
  ASSUME SessionInv, NEW t \in Workers, NEW s \in Sockets, HandleAccept(t, s)
  PROVE  SessionInv'
<1>0. /\ TypeOK /\ HoldInv /\ MemberInv /\ IdInv /\ AllAccepted /\ ClientInv /\ FreeIdsAreOffered
      /\ t \in Threads /\ th[t].pc = "idle" /\ Sound(th[t]) /\ s \in Pending
  BY Names DEF SessionInv, HandleAccept, At, HoldInv, ThreadsSound
<1>1. /\ refs[s] = {"accept"} /\ Live(s) /\ s <= created /\ idOf[s] \in Ids
      /\ \A u \in Threads : th[u].del # s /\ ~Refers(th[u], s)
  BY <1>0, PendingHeld
<1>2. ~InHandler(th[t]) /\ th[t].del = Null /\ th[t].pc # "send"
  BY <1>0 DEF InHandler, HandlerPcs, Sound, DeleterPcs
<1>3. PICK r : r = [Idle EXCEPT !.pc = "connect", !.id = idOf[s], !.ref = s]
  OBVIOUS
<1>4. r \in ThreadStates /\ r.pc = "connect" /\ r.id = idOf[s] /\ r.ref = s /\ r.del = Null
  BY <1>1, <1>3 DEF ThreadStates, Pcs, Idle
<1>5. /\ th' \in [Threads -> ThreadStates] /\ th'[t] = r /\ OthersStay(t)
  <2>1. th' = [th EXCEPT ![t] = r]
    BY <1>3 DEF HandleAccept
  <2> QED
    BY <1>0, <1>4, <2>1, Records DEF OthersStay
<1>6. PICK set : set = {t, "member"}
  OBVIOUS
<1>7. /\ refs' \in [Sockets -> SUBSET (Threads \cup {"accept", "member"})]
      /\ refs'[s] = set /\ \A q \in Sockets \ {s} : refs'[q] = refs[q]
  <2>1. set \in SUBSET (Threads \cup {"accept", "member"})
    BY <1>0, <1>6
  <2>2. refs' = [refs EXCEPT ![s] = set]
    BY <1>6 DEF HandleAccept
  <2> QED
    BY <1>0, <2>1, <2>2, RefsTyped
<1>8. /\ socket_' \in [Ids -> Sockets \cup {Null}] /\ socket_'[idOf[s]] = s
      /\ \A j \in Ids \ {idOf[s]} : socket_'[j] = socket_[j]
  BY <1>0, <1>1 DEF TypeOK, HandleAccept
<1>9. /\ UNCHANGED <<is_running_, session_id_queue_, created, idOf>> /\ accepts' = accepts + 1
      /\ UNCHANGED <<client_key_, client_storage_, ended, chrs_>>
  BY DEF HandleAccept, server
<1>10. TypeOK'
  <2>1. accepts' \in 0 .. MaxAccepts
    <3>1. accepts \in 0 .. MaxAccepts /\ accepts < MaxAccepts /\ accepts' = accepts + 1 /\ MaxAccepts \in Nat
      BY <1>0, SessionAssumption DEF TypeOK, HandleAccept
    <3> QED
      BY <3>1
  <2> QED
    BY <1>0, <1>5, <1>7, <1>8, <2>1 DEF TypeOK, HandleAccept, net, server
<1>11. HoldInv'
  <2>1. \A q \in Sockets, u \in Threads \ {t} : u \in refs'[q] <=> u \in refs[q]
    BY <1>1, <1>6, <1>7, Names
  <2>2. \A q \in Sockets : t \in refs'[q] <=> Refers(th'[t], q)
    <3> SUFFICES ASSUME NEW q \in Sockets PROVE t \in refs'[q] <=> Refers(r, q)
      BY <1>5
    <3>1. t \notin refs[q]
      BY <1>0, <1>2 DEF HoldInv, ThreadsHold, Refers
    <3>2. Refers(r, q) <=> q = s
      BY <1>4 DEF Refers, InHandler, HandlerPcs
    <3> QED
      BY <1>6, <1>7, <3>1, <3>2
  <2>3. AcceptsHold'
    BY <1>0, <1>6, <1>7, Names DEF HoldInv, AcceptsHold
  <2>4. Sound(r) /\ (InHandler(r) => r.id = idOf'[r.ref])
    BY <1>4, <1>9, Names DEF Sound, DeleterPcs
  <2>5. \A u \in Threads \ {t} : th[u].del # Null => th[u].del # r.del /\ refs'[th[u].del] = {}
    <3> SUFFICES ASSUME NEW u \in Threads \ {t}, th[u].del # Null
                 PROVE  th[u].del # r.del /\ refs'[th[u].del] = {}
      OBVIOUS
    <3>1. th[u].del \in Sockets \ {s} /\ refs[th[u].del] = {}
      BY <1>0, <1>1, Records DEF HoldInv, DeletersOwn
    <3> QED
      BY <1>4, <1>7, <3>1
  <2> QED
    BY <1>0, <1>4, <1>5, <1>9, <2>1, <2>2, <2>3, <2>4, <2>5, HoldStep
<1>12. \A q \in Sockets \ {s} : idOf[q] = idOf[s] => "member" \notin refs[q] /\ "accept" \notin refs[q]
  BY <1>0, <1>1 DEF IdInv, IdsOfLive, Live
<1>13. MemberInv'
  <2>1. SocketsOfIds'
    BY <1>0, <1>8, <1>9 DEF MemberInv, SocketsOfIds
  <2>2. SessionsHold'
    <3> SUFFICES ASSUME NEW q \in Sockets PROVE "member" \in refs'[q] <=> socket_'[idOf[q]] = q
      BY <1>9 DEF SessionsHold
    <3>1. idOf[q] \in Ids /\ ("member" \in refs[q] <=> socket_[idOf[q]] = q)
      BY <1>0 DEF TypeOK, MemberInv, SessionsHold
    <3>2. CASE q = s
      BY <1>6, <1>7, <1>8, <3>2
    <3>3. CASE q # s /\ idOf[q] = idOf[s]
      BY <1>7, <1>8, <1>12, <3>1, <3>3
    <3>4. CASE q # s /\ idOf[q] # idOf[s]
      BY <1>7, <1>8, <3>1, <3>4
    <3> QED
      BY <3>2, <3>3, <3>4
  <2> QED
    BY <2>1, <2>2 DEF MemberInv
<1>14. SameLive
  <2> SUFFICES ASSUME NEW q \in Sockets PROVE Live(q)' <=> Live(q)
    BY DEF SameLive
  <2>1. \A u \in Threads : th'[u].del = th[u].del
    BY <1>2, <1>4, <1>5 DEF OthersStay
  <2>2. refs'[q] = {} <=> refs[q] = {}
    BY <1>1, <1>6, <1>7
  <2> QED
    BY <2>1, <2>2 DEF Live
<1>15. IdInv'
  BY <1>0, <1>9, <1>14, IdsKept
<1>16. AllAccepted'
  <2>1. Pending' = Pending \ {s}
    BY <1>0, <1>6, <1>7, Names DEF Pending
  <2> QED
    BY <1>0, <1>9, <2>1, AcceptedLess
<1>17. ClientInv'
  <2>1. created \in Nat /\ \A q \in Sockets : Live(q)' <=> Live(q)
    BY <1>0, <1>14 DEF TypeOK, SameLive
  <2>2. \A u \in Threads : th[u].pc \in {"leave", "release"} => th[u].del \in Sockets
    BY <1>0, Records DEF HoldInv, ThreadsSound, Sound, DeleterPcs
  <2>3. \A q \in Sockets : "accept" \in refs'[q] => "accept" \in refs[q]
    BY <1>0, <1>6, <1>7, Names
  <2>4. \A u \in Threads : Connects(th[u]) => th[u].ref # s
    BY <1>1 DEF Refers, Connects, InHandler, HandlerPcs
  <2>5. \A u \in Threads : Connects(th'[u]) =>
             \/ Connects(th[u]) /\ th'[u].ref = th[u].ref
             \/ /\ "accept" \in refs[th'[u].ref]
                /\ \A v \in Threads \ {u} : Connects(th'[v]) => th'[v].ref # th'[u].ref
    BY <1>1, <1>4, <1>5, <2>4 DEF OthersStay
  <2>6. \A u \in Threads : th[u].pc \in {"leave", "release"} \/ th'[u].pc \in {"leave", "release"} =>
             th'[u].pc = th[u].pc /\ th'[u].del = th[u].del
    BY <1>0, <1>4, <1>5 DEF OthersStay
  <2> QED
    BY <1>0, <1>9, <2>1, <2>2, <2>3, <2>5, <2>6, ClientsKept
<1>18. FreeIdsAreOffered'
  BY <1>0, <1>4, <1>5 DEF FreeIdsAreOffered
<1> QED
  BY <1>10, <1>11, <1>13, <1>15, <1>16, <1>17, <1>18 DEF SessionInv

LEMMA AcceptErrorKeeps ==
  ASSUME SessionInv, NEW t \in Workers, NEW s \in Sockets, AcceptError(t, s)
  PROVE  SessionInv'
<1>0. /\ TypeOK /\ HoldInv /\ MemberInv /\ IdInv /\ AllAccepted /\ ClientInv /\ FreeIdsAreOffered
      /\ t \in Threads /\ th[t].pc = "idle" /\ Sound(th[t]) /\ s \in Pending /\ created \in Nat
  BY Names DEF SessionInv, AcceptError, At, HoldInv, ThreadsSound, TypeOK
<1>1. /\ refs[s] = {"accept"} /\ Live(s) /\ s <= created /\ idOf[s] \in Ids
      /\ \A u \in Threads : th[u].del # s /\ ~Refers(th[u], s)
  BY <1>0, PendingHeld
<1>2. ~InHandler(th[t]) /\ th[t].del = Null /\ th[t].pc # "send"
  BY <1>0 DEF InHandler, HandlerPcs, Sound, DeleterPcs
<1>3. PICK r : r = [Idle EXCEPT !.pc = "onclose", !.del = s]
  OBVIOUS
<1>4. r \in ThreadStates /\ r.pc = "onclose" /\ r.del = s /\ r.back = "idle"
  BY <1>3, IdleSound DEF ThreadStates, Pcs, Idle
<1>5. /\ th' \in [Threads -> ThreadStates] /\ th'[t] = r /\ OthersStay(t)
  <2>1. th' = [th EXCEPT ![t] = r]
    BY <1>3 DEF AcceptError
  <2> QED
    BY <1>0, <1>4, <2>1, Records DEF OthersStay
<1>6. Sound(r) /\ ~InHandler(r) /\ ~Connects(r) /\ \A q \in Sockets : ~Refers(r, q)
  BY <1>4, Names DEF Sound, InHandler, Connects, Refers, HandlerPcs, DeleterPcs
<1>7. PICK held : held = [refs EXCEPT ![s] = {}]
  OBVIOUS
<1>8. /\ held \in [Sockets -> SUBSET (Threads \cup {"accept", "member"})]
      /\ held[s] = {} /\ \A q \in Sockets \ {s} : held[q] = refs[q]
  <2>1. refs \in [Sockets -> SUBSET (Threads \cup {"accept", "member"})]
    BY <1>0 DEF TypeOK
  <2> QED
    BY <1>7, <2>1
<1>9. Accept(held)
  BY <1>7 DEF AcceptError
<1>10. /\ session_id_queue_' \in Seq(Ids)
       /\ created' \in Nat /\ created' <= MaxAccepts + MaxConnection /\ created <= created'
       /\ idOf' \in [Sockets -> Ids]
       /\ refs' \in [Sockets -> SUBSET (Threads \cup {"accept", "member"})]
       /\ FindsNoId(held) \/ Creates(held)
  BY <1>0, <1>8, <1>9, AcceptTypes
<1>11. /\ UNCHANGED <<is_running_, closed, socket_>> /\ accepts' = accepts + 1
       /\ UNCHANGED <<client_key_, client_storage_, ended, chrs_>>
  BY DEF AcceptError, server
<1>12. TypeOK'
  <2>1. accepts' \in 0 .. MaxAccepts
    <3>1. accepts \in 0 .. MaxAccepts /\ accepts < MaxAccepts /\ accepts' = accepts + 1 /\ MaxAccepts \in Nat
      BY <1>0, SessionAssumption DEF TypeOK, AcceptError
    <3> QED
      BY <3>1
  <2> QED
    BY <1>0, <1>5, <1>10, <2>1 DEF TypeOK, AcceptError, net, server
<1>13. /\ refs'[s] = {} /\ idOf'[s] = idOf[s]
       /\ \A q \in Sockets \ {s} : \/ refs'[q] = refs[q] /\ idOf'[q] = idOf[q]
                                   \/ q > created /\ refs'[q] = {"accept"}
  <2>1. CASE FindsNoId(held)
    BY <1>8, <2>1 DEF FindsNoId
  <2>2. CASE Creates(held)
    <3>1. idOf \in [Sockets -> Ids]
      BY <1>0 DEF TypeOK
    <3>2. \A q \in Sockets \ {created + 1} : refs'[q] = held[q] /\ idOf'[q] = idOf[q]
      BY <2>2, <3>1 DEF Creates
    <3>3. created + 1 > created /\ refs'[created + 1] = {"accept"}
      BY <1>0, <2>2 DEF Creates
    <3>4. s # created + 1
      BY <1>0, <1>1, <3>3, Names
    <3> QED
      BY <1>8, <3>2, <3>3, <3>4
  <2> QED
    BY <1>10, <2>1, <2>2
<1>14. \A q \in Sockets : q > created => refs[q] = {} /\ ~Live(q) /\ q # s
  BY <1>0, <1>1, NotLive DEF Live
<1>15. HoldInv'
  <2>1. \A q \in Sockets, u \in Threads : u \in refs'[q] <=> u \in refs[q]
    BY <1>1, <1>13, <1>14, Names
  <2>2. \A q \in Sockets : t \in refs'[q] <=> Refers(r, q)
    BY <1>0, <1>2, <1>6, <2>1 DEF HoldInv, ThreadsHold, Refers
  <2>3. AcceptsHold'
    BY <1>0, <1>13 DEF HoldInv, AcceptsHold
  <2>4. \A u \in Threads \ {t} : th[u].del # Null => th[u].del # r.del /\ refs'[th[u].del] = {}
    <3> SUFFICES ASSUME NEW u \in Threads \ {t}, th[u].del # Null
                 PROVE  th[u].del # r.del /\ refs'[th[u].del] = {}
      OBVIOUS
    <3>1. th[u].del \in Sockets \ {s} /\ refs[th[u].del] = {} /\ Live(th[u].del)
      BY <1>0, <1>1, Records DEF HoldInv, DeletersOwn, Live
    <3> QED
      BY <1>4, <1>13, <1>14, <3>1
  <2>5. \A q \in Sockets : q <= created => idOf'[q] = idOf[q]
    BY <1>0, <1>13, Names
  <2> QED
    BY <1>0, <1>4, <1>5, <1>6, <1>13, <2>1, <2>2, <2>3, <2>4, <2>5, HoldStep
<1>16. MemberInv'
  <2>1. \A q \in Sockets : idOf'[q] = idOf[q] \/ q > created
    BY <1>13
  <2>2. \A q \in Sockets : "member" \in refs'[q] <=> "member" \in refs[q]
    BY <1>1, <1>13, <1>14
  <2> QED
    BY <1>0, <1>10, <1>11, <2>1, <2>2, MembersKept
<1>17. \A q \in Sockets : Live(q)' <=> Live(q) \/ (q > created /\ refs'[q] = {"accept"})
  <2> SUFFICES ASSUME NEW q \in Sockets
               PROVE  Live(q)' <=> Live(q) \/ (q > created /\ refs'[q] = {"accept"})
    OBVIOUS
  <2>1. CASE q = s
    <3>1. Live(s)'
      BY <1>0, <1>4, <1>5 DEF Live
    <3> QED
      BY <1>1, <2>1, <3>1
  <2>2. CASE q # s
    <3>1. \A u \in Threads : th'[u].del = q <=> th[u].del = q
      BY <1>2, <1>4, <1>5, <2>2, Names DEF OthersStay
    <3>2. CASE refs'[q] = refs[q]
      <4>1. Live(q)' <=> Live(q)
        BY <3>1, <3>2 DEF Live
      <4> QED
        BY <1>14, <3>2, <4>1
    <3>3. CASE q > created /\ refs'[q] = {"accept"}
      BY <3>3 DEF Live
    <3> QED
      BY <1>13, <2>2, <3>2, <3>3
  <2> QED
    BY <2>1, <2>2
<1>18. ClientInv'
  <2>1. \A u \in Threads : th[u].pc \in {"leave", "release"} => th[u].del \in Sockets
    BY <1>0, Records DEF HoldInv, ThreadsSound, Sound, DeleterPcs
  <2>2. \A u \in Threads : Connects(th'[u]) => Connects(th[u]) /\ th'[u].ref = th[u].ref
    BY <1>5, <1>6 DEF OthersStay
  <2>3. \A u \in Threads : th[u].pc \in {"leave", "release"} \/ th'[u].pc \in {"leave", "release"} =>
             th'[u].pc = th[u].pc /\ th'[u].del = th[u].del
    BY <1>0, <1>4, <1>5 DEF OthersStay
  <2>4. \A q \in Sockets : q <= created =>
             idOf'[q] = idOf[q] /\ ("accept" \in refs'[q] => "accept" \in refs[q])
    BY <1>0, <1>13, Names
  <2>5. \A q \in Sockets : Live(q) => Live(q)'
    BY <1>17
  <2> QED
    BY <1>0, <1>10, <1>11, <2>1, <2>2, <2>3, <2>4, <2>5, ClientsKept
<1>19. CASE FindsNoId(held)
  <2>1. refs' = held /\ UNCHANGED <<session_id_queue_, created, idOf>> /\ session_id_queue_' = <<>>
    BY <1>19 DEF FindsNoId
  <2>2. SameLive
    <3>1. \A q \in Sockets : q > created => refs'[q] = {}
      BY <1>8, <1>14, <2>1
    <3> QED
      BY <1>17, <3>1 DEF SameLive
  <2>3. IdInv'
    BY <1>0, <1>11, <2>1, <2>2, IdsKept
  <2>4. AllAccepted'
    <3>1. Pending' = Pending \ {s}
      BY <1>8, <2>1 DEF Pending
    <3> QED
      BY <1>0, <1>11, <2>1, <3>1, AcceptedLess
  <2>5. FreeIdsAreOffered'
    BY <2>1 DEF FreeIdsAreOffered
  <2> QED
    BY <1>12, <1>15, <1>16, <1>18, <2>3, <2>4, <2>5 DEF SessionInv
<1>20. CASE Creates(held)
  <2>1. PICK new \in Sockets :
          /\ new = created + 1 /\ session_id_queue_ # <<>>
          /\ session_id_queue_' = Tail(session_id_queue_) /\ created' = new
          /\ idOf' = [idOf EXCEPT ![new] = Head(session_id_queue_)]
          /\ refs'[new] = {"accept"} /\ \A q \in Sockets \ {new} : refs'[q] = held[q]
    BY <1>20 DEF Creates
  <2>2. new > created /\ refs[new] = {} /\ ~Live(new) /\ new # s
    BY <1>0, <1>14, <2>1
  <2>3. Live(new)' /\ \A q \in Sockets \ {new} : Live(q)' <=> Live(q)
    <3>1. \A q \in Sockets \ {new} : q > created => refs'[q] = {}
      BY <1>8, <1>14, <2>1
    <3> QED
      BY <1>17, <2>1, <2>2, <3>1
  <2>4. IdInv'
    <3>1. is_running_' = is_running_ /\ created' # 0
      BY <1>0, <1>11, <2>1
    <3> QED
      BY <1>0, <2>1, <2>3, <3>1, IdsAccept
  <2>5. new \notin Pending /\ Pending' = (Pending \ {s}) \cup {new}
    BY <1>8, <2>1, <2>2 DEF Pending
  <2>6. AllAccepted'
    <3>1. {s} \in SUBSET Pending /\ \E q \in Pending : {s} = {q}
      BY <1>0
    <3>2. created' = created + 1
      BY <2>1
    <3> QED
      BY <1>0, <1>11, <2>5, <3>1, <3>2, AcceptedMore
  <2>7. FreeIdsAreOffered'
    BY <2>5 DEF FreeIdsAreOffered
  <2> QED
    BY <1>12, <1>15, <1>16, <1>18, <2>4, <2>6, <2>7 DEF SessionInv
<1> QED
  BY <1>10, <1>19, <1>20

-----------------------------------------------------------------------------
(* The clients: OnActive, OnClose, and the release of a session.           *)

\* A deleter: its socket is live, nobody holds it, and its id is that of no other live socket.
LEMMA DeleterKnows ==
  ASSUME SessionInv, NEW t \in Threads, th[t].del # Null
  PROVE  /\ th[t].del \in Sockets /\ refs[th[t].del] = {} /\ Live(th[t].del) /\ th[t].del <= created
         /\ idOf[th[t].del] \in Ids
         /\ \A u \in Threads \ {t} : th[u].del # th[t].del
<1>1. th[t].del \in Sockets /\ refs[th[t].del] = {} /\ idOf[th[t].del] \in Ids
  BY Records DEF SessionInv, HoldInv, DeletersOwn, TypeOK
<1>2. Live(th[t].del)
  BY DEF Live
<1>3. \A u \in Threads \ {t} : th[u].del # th[t].del
  BY DEF SessionInv, HoldInv, DeletersDiffer
<1> QED
  BY <1>1, <1>2, <1>3 DEF SessionInv, IdInv, OnlyCreatedLive

\* What does not depend on the clients, when a thread moves and no reference, id or socket changes.
LEMMA RestKept ==
  ASSUME SessionInv, NEW t \in Threads, Moves(t), UNCHANGED <<refs, pool, socket_>>,
         th[t].pc # "dead", th[t].pc \in OfferPcs => th'[t].pc \in OfferPcs
  PROVE  HoldInv' /\ MemberInv' /\ IdInv' /\ AllAccepted' /\ FreeIdsAreOffered' /\ SameLive
<1>0. /\ TypeOK /\ HoldInv /\ MemberInv /\ IdInv /\ AllAccepted /\ ClientInv /\ FreeIdsAreOffered
      /\ UNCHANGED <<is_running_, session_id_queue_, created, accepts, idOf>>
  BY DEF SessionInv, pool
<1>1. \A u \in Threads : th'[u].del = th[u].del
  BY DEF Moves
<1>2. SameLive
  BY <1>1, LiveKept
<1>3. HoldInv'
  BY <1>0, HoldKept DEF SameRefs
<1>4. MemberInv'
  BY <1>0 DEF MemberInv, SessionsHold, SocketsOfIds
<1>5. IdInv'
  BY <1>0, <1>2, IdsKept
<1>6. AllAccepted' /\ Pending' = Pending
  BY <1>0, AcceptedKept
<1>7. FreeIdsAreOffered'
  BY <1>0, <1>6, OffersKept DEF Moves
<1> QED
  BY <1>2, <1>3, <1>4, <1>5, <1>6, <1>7

LEMMA OnActiveKeeps ==
  ASSUME SessionInv, NEW t \in Threads, OnActive(t)
  PROVE  SessionInv'
<1>0. /\ TypeOK /\ HoldInv /\ IdInv /\ ClientInv /\ th[t].pc = "active" /\ Sound(th[t])
      /\ Goto(t, "firstread")
      /\ KeysOfIds /\ ConnectOnce /\ NotYetActive /\ InZone /\ ClosedFirst /\ NoGhosts
  BY DEF SessionInv, OnActive, At, HoldInv, ThreadsSound, ClientInv
<1>1. PICK s, i : s = th[t].ref /\ i = th[t].id
  OBVIOUS
<1>2. InHandler(th[t]) /\ Connects(th[t]) /\ th[t].del = Null
  BY <1>0 DEF InHandler, HandlerPcs, Connects, Sound, DeleterPcs
<1>3. /\ s \in Sockets /\ i = idOf[s] /\ i \in Ids /\ Live(s) /\ s <= created
      /\ "accept" \notin refs[s] /\ refs[s] # {}
  BY <1>0, <1>1, <1>2, HandlerHolds, Records
<1>4. /\ Moves(t) /\ th' \in [Threads -> ThreadStates] /\ th'[t].pc = "firstread" /\ ~Connects(th'[t])
      /\ \A u \in Threads \ {t} : th'[u] = th[u]
  BY <1>0, HandlerMoves DEF HandlerPcs, Connects, Moves
<1>5. /\ client_key_' = [client_key_ EXCEPT ![i] = s] /\ client_storage_' = client_storage_ \cup {s}
      /\ UNCHANGED <<refs, pool, socket_, ended, chrs_, created, idOf>>
  BY <1>1 DEF OnActive, life, pool
<1>6. /\ client_key_' \in [Ids -> Sockets \cup {Null}] /\ client_key_'[i] = s
      /\ \A j \in Ids \ {i} : client_key_'[j] = client_key_[j]
  BY <1>0, <1>3, <1>5 DEF TypeOK
<1>7. TypeOK'
  BY <1>0, <1>3, <1>4, <1>5, <1>6 DEF TypeOK, OnActive, net, pool, life
<1>8. HoldInv' /\ MemberInv' /\ IdInv' /\ AllAccepted' /\ FreeIdsAreOffered' /\ SameLive
  BY <1>0, <1>4, <1>5, RestKept DEF OfferPcs
<1>9. \A q \in Sockets : Live(q) /\ idOf[q] = i => q = s
  BY <1>0, <1>3 DEF IdInv, IdsOfLive
<1>10. \A u \in Threads : th[u].pc \in {"leave", "release"} =>
         th[u].del \in Sockets \ {s} /\ idOf[th[u].del] \in Ids \ {i}
  <2> SUFFICES ASSUME NEW u \in Threads, th[u].pc \in {"leave", "release"}
               PROVE  th[u].del \in Sockets \ {s} /\ idOf[th[u].del] \in Ids \ {i}
    OBVIOUS
  <2>1. th[u].del # Null
    BY <1>0 DEF HoldInv, ThreadsSound, Sound, DeleterPcs
  <2>2. th[u].del \in Sockets /\ refs[th[u].del] = {} /\ Live(th[u].del) /\ idOf[th[u].del] \in Ids
    BY <2>1, DeleterKnows
  <2> QED
    BY <1>3, <1>9, <2>2
<1>11. KeysOfIds'
  BY <1>0, <1>3, <1>5, <1>6 DEF KeysOfIds
<1>12. ConnectOnce'
  BY <1>0, <1>4 DEF ConnectOnce
<1>13. NotYetActive'
  <2>1. \A u \in Threads : Connects(th'[u]) => u # t /\ Connects(th[u]) /\ th'[u].ref = th[u].ref
    BY <1>4
  <2>2. \A u \in Threads : Connects(th'[u]) => th'[u].ref # s
    BY <1>0, <1>1, <1>2, <2>1 DEF ConnectOnce
  <2> QED
    BY <1>0, <1>3, <1>5, <2>1, <2>2 DEF NotYetActive
<1>14. InZone'
  BY <1>0, <1>4, <1>5 DEF InZone
<1>15. ClosedFirst'
  BY <1>0, <1>4, <1>5, <1>6, <1>10 DEF ClosedFirst
<1>16. NoGhosts'
  <2> SUFFICES ASSUME NEW c \in client_storage_ \cup {s} \cup chrs_
               PROVE  Live(c)' /\ client_key_'[idOf[c]] = c
    BY <1>5 DEF NoGhosts
  <2>1. CASE c = s
    BY <1>3, <1>6, <1>8, <2>1 DEF SameLive
  <2>2. CASE c # s
    <3>1. c \in Sockets /\ Live(c) /\ client_key_[idOf[c]] = c /\ idOf[c] \in Ids
      BY <1>0, <2>2 DEF NoGhosts, TypeOK
    <3> QED
      BY <1>6, <1>8, <1>9, <2>2, <3>1 DEF SameLive
  <2> QED
    BY <2>1, <2>2
<1> QED
  BY <1>7, <1>8, <1>11, <1>12, <1>13, <1>14, <1>15, <1>16 DEF SessionInv, ClientInv

\* The client of the session a deleter closes is that of its own connection.
LEMMA KeyOfDeleter ==
  ASSUME SessionInv, NEW t \in Threads, th[t].del # Null,
         NEW c \in client_storage_ \cup chrs_, c = client_key_[idOf[th[t].del]] \/ c = th[t].del
  PROVE  c = th[t].del /\ client_key_[idOf[th[t].del]] = c
<1>1. c \in Sockets /\ Live(c) /\ client_key_[idOf[c]] = c
  BY DEF SessionInv, TypeOK, ClientInv, NoGhosts
<1>2. /\ th[t].del \in Sockets /\ Live(th[t].del) /\ idOf[th[t].del] \in Ids
  BY DeleterKnows
<1>3. CASE c = th[t].del
  BY <1>1, <1>3
<1>4. CASE c = client_key_[idOf[th[t].del]]
  <2>1. idOf[c] = idOf[th[t].del]
    BY <1>1, <1>2, <1>4, Names DEF SessionInv, ClientInv, KeysOfIds
  <2>2. c = th[t].del
    BY <1>1, <1>2, <2>1 DEF SessionInv, IdInv, IdsOfLive
  <2> QED
    BY <1>4, <2>2
<1> QED
  BY <1>3, <1>4

LEMMA OnCloseKeeps ==
  ASSUME SessionInv, NEW t \in Threads, OnClose(t)
  PROVE  SessionInv'
<1>0. /\ TypeOK /\ HoldInv /\ IdInv /\ ClientInv /\ th[t].pc = "onclose" /\ Sound(th[t])
      /\ KeysOfIds /\ ConnectOnce /\ NotYetActive /\ InZone /\ ClosedFirst /\ NoGhosts
  BY DEF SessionInv, OnClose, At, HoldInv, ThreadsSound, ClientInv
<1>1. PICK s, key, pc :
        /\ s = th[t].del /\ key = client_key_[idOf[s]]
        /\ pc = IF key \in client_storage_ \cap chrs_ THEN "leave" ELSE "release"
  OBVIOUS
<1>2. /\ s # Null /\ s \in Sockets /\ \A u \in Threads \ {t} : th[u].del # s
  BY <1>0, <1>1, DeleterKnows DEF Sound, DeleterPcs
<1>3. /\ client_storage_' = client_storage_ \ {key} /\ ended' = ended \cup ({key} \cap client_storage_)
      /\ Goto(t, pc) /\ pc \in {"leave", "release"}
      /\ UNCHANGED <<refs, pool, socket_, client_key_, chrs_, created, idOf>>
  BY <1>1 DEF OnClose, life, pool
<1>4. /\ Moves(t) /\ th' \in [Threads -> ThreadStates] /\ th'[t].pc = pc /\ ~Connects(th'[t])
      /\ th'[t].del = s /\ \A u \in Threads \ {t} : th'[u] = th[u]
  BY <1>0, <1>1, <1>3, HandlerMoves DEF Connects, Moves
<1>5. TypeOK'
  BY <1>0, <1>3, <1>4 DEF TypeOK, OnClose, net, pool, life
<1>6. HoldInv' /\ MemberInv' /\ IdInv' /\ AllAccepted' /\ FreeIdsAreOffered' /\ SameLive
  BY <1>0, <1>3, <1>4, RestKept DEF OfferPcs
<1>7. \A c \in client_storage_ \cup chrs_ : c = key \/ c = s => c = s /\ key = c
  BY <1>1, <1>2, KeyOfDeleter
<1>8. KeysOfIds'
  BY <1>0, <1>3 DEF KeysOfIds
<1>9. ConnectOnce'
  BY <1>0, <1>4 DEF ConnectOnce
<1>10. NotYetActive'
  BY <1>0, <1>3, <1>4 DEF NotYetActive
<1>11. InZone'
  <2> SUFFICES ASSUME NEW c \in chrs_, c \notin client_storage_'
               PROVE  \E u \in Threads : th'[u].pc = "leave" /\ th'[u].del = c
    BY <1>3 DEF InZone
  <2>1. CASE c \in client_storage_
    <3>1. c = key /\ c = s
      BY <1>3, <1>7, <2>1
    <3> QED
      BY <1>1, <1>4, <2>1, <3>1
  <2>2. CASE c \notin client_storage_
    <3>1. PICK u \in Threads : th[u].pc = "leave" /\ th[u].del = c
      BY <1>0, <2>2 DEF InZone
    <3> QED
      BY <1>0, <1>4, <3>1
  <2> QED
    BY <2>1, <2>2
<1>12. ClosedFirst'
  <2>1. pc = "leave" => key = s
    BY <1>1, <1>7
  <2>2. s \notin client_storage_'
    BY <1>3, <1>7
  <2>3. pc = "release" => s \notin chrs_
    <3> SUFFICES ASSUME s \in chrs_ PROVE pc # "release"
      OBVIOUS
    <3>1. key = s
      BY <1>7
    <3>2. s \in client_storage_
      BY <1>0, <1>2 DEF InZone
    <3> QED
      BY <1>1, <3>1, <3>2
  <2> QED
    BY <1>0, <1>1, <1>3, <1>4, <2>1, <2>2, <2>3 DEF ClosedFirst
<1>13. NoGhosts'
  <2> SUFFICES ASSUME NEW c \in client_storage_' \cup chrs_
               PROVE  Live(c)' /\ client_key_[idOf[c]] = c
    BY <1>3 DEF NoGhosts
  <2>1. c \in Sockets /\ Live(c) /\ client_key_[idOf[c]] = c
    BY <1>0, <1>3 DEF NoGhosts, TypeOK
  <2> QED
    BY <1>6, <2>1 DEF SameLive
<1> QED
  BY <1>5, <1>6, <1>8, <1>9, <1>10, <1>11, <1>12, <1>13 DEF SessionInv, ClientInv

LEMMA LeaveZoneKeeps ==
  ASSUME SessionInv, NEW t \in Threads, LeaveZone(t)
  PROVE  SessionInv'
<1>0. /\ TypeOK /\ HoldInv /\ IdInv /\ ClientInv /\ th[t].pc = "leave" /\ Sound(th[t])
      /\ KeysOfIds /\ ConnectOnce /\ NotYetActive /\ InZone /\ ClosedFirst /\ NoGhosts
  BY DEF SessionInv, LeaveZone, At, HoldInv, ThreadsSound, ClientInv
<1>1. PICK s : s = th[t].del
  OBVIOUS
<1>2. client_key_[idOf[s]] = s /\ s \notin client_storage_
  BY <1>0, <1>1 DEF ClosedFirst
<1>3. /\ chrs_' = chrs_ \ {s} /\ Goto(t, "release")
      /\ UNCHANGED <<refs, pool, socket_, client_key_, client_storage_, ended, created, idOf>>
  BY <1>1, <1>2 DEF LeaveZone, life, pool
<1>4. /\ Moves(t) /\ th' \in [Threads -> ThreadStates] /\ th'[t].pc = "release" /\ ~Connects(th'[t])
      /\ th'[t].del = s /\ \A u \in Threads \ {t} : th'[u] = th[u]
  BY <1>0, <1>1, <1>3, HandlerMoves DEF Connects, Moves
<1>5. TypeOK'
  BY <1>0, <1>3, <1>4 DEF TypeOK, LeaveZone, net, pool, life
<1>6. HoldInv' /\ MemberInv' /\ IdInv' /\ AllAccepted' /\ FreeIdsAreOffered' /\ SameLive
  BY <1>0, <1>3, <1>4, RestKept DEF OfferPcs
<1>8. KeysOfIds'
  BY <1>0, <1>3 DEF KeysOfIds
<1>9. ConnectOnce'
  BY <1>0, <1>4 DEF ConnectOnce
<1>10. NotYetActive'
  BY <1>0, <1>3, <1>4 DEF NotYetActive
<1>11. InZone'
  <2> SUFFICES ASSUME NEW c \in chrs_, c # s, c \notin client_storage_
               PROVE  \E u \in Threads : th'[u].pc = "leave" /\ th'[u].del = c
    BY <1>3 DEF InZone
  <2>1. PICK u \in Threads : th[u].pc = "leave" /\ th[u].del = c
    BY <1>0 DEF InZone
  <2> QED
    BY <1>1, <1>4, <2>1
<1>12. ClosedFirst'
  BY <1>0, <1>1, <1>2, <1>3, <1>4 DEF ClosedFirst
<1>13. NoGhosts'
  <2> SUFFICES ASSUME NEW c \in client_storage_ \cup chrs_
               PROVE  Live(c)' /\ client_key_[idOf[c]] = c
    BY <1>3 DEF NoGhosts
  <2>1. c \in Sockets /\ Live(c) /\ client_key_[idOf[c]] = c
    BY <1>0, <1>3 DEF NoGhosts, TypeOK
  <2> QED
    BY <1>6, <2>1 DEF SameLive
<1> QED
  BY <1>5, <1>6, <1>8, <1>9, <1>10, <1>11, <1>12, <1>13 DEF SessionInv, ClientInv

\* The ids, when that of s is given back, or is not because the server has been stopped.
LEMMA IdsRelease ==
  ASSUME TypeOK, IdInv, NEW s \in Sockets, Live(s), ~Live(s)',
         \A q \in Sockets \ {s} : Live(q)' <=> Live(q),
         UNCHANGED <<is_running_, created, idOf>>,
         session_id_queue_' = IF is_running_ THEN Append(session_id_queue_, idOf[s]) ELSE session_id_queue_
  PROVE  IdInv' /\ session_id_queue_' \in Seq(Ids)
<1>0. OnlyCreatedLive /\ IdsOfLive /\ QueuedOnce /\ QueuedNotLive /\ NoneLost
  BY DEF IdInv
<1>1. OnlyCreatedLive' /\ IdsOfLive'
  BY <1>0 DEF OnlyCreatedLive, IdsOfLive
<1>2. s <= created /\ created # 0
  BY <1>0, Names DEF OnlyCreatedLive, TypeOK, Sockets
<1>3. CASE ~is_running_
  <2>1. session_id_queue_' = session_id_queue_ /\ Queued' = Queued
    BY <1>3 DEF Queued
  <2>2. QueuedOnce' /\ QueuedNotLive'
    BY <1>0, <2>1 DEF QueuedOnce, QueuedNotLive
  <2>3. NoneLost'
    BY <1>2, <1>3 DEF NoneLost
  <2> QED
    BY <1>1, <2>1, <2>2, <2>3 DEF IdInv, TypeOK
<1>4. CASE is_running_
  <2>1. PICK q \in Seq(Ids), len \in Nat, i \in Ids :
          q = session_id_queue_ /\ len = Len(q) /\ i = idOf[s]
    BY DEF TypeOK
  <2>2. PICK p : p = Append(q, i)
    OBVIOUS
  <2>3. /\ p \in Seq(Ids) /\ Len(p) = len + 1 /\ p[len + 1] = i
        /\ \A n \in 1 .. len : p[n] = q[n]
    BY <2>1, <2>2
  <2>4. session_id_queue_' = p
    BY <1>4, <2>1, <2>2
  <2>5. /\ Queued = 1 .. len /\ Queued' = 1 .. len + 1 /\ len + 1 \in 1 .. len + 1
        /\ \A n \in 1 .. len + 1 : n \in 1 .. len \/ n = len + 1
    BY <2>1, <2>3, <2>4 DEF Queued
  <2>6. \A n \in 1 .. len : q[n] # i
    BY <1>0, <2>1, <2>5 DEF QueuedNotLive
  <2>7. QueuedOnce'
    <3> SUFFICES ASSUME NEW m \in 1 .. len + 1, NEW n \in 1 .. len + 1, p[m] = p[n] PROVE m = n
      BY <2>4, <2>5 DEF QueuedOnce
    <3>1. CASE m \in 1 .. len /\ n \in 1 .. len
      BY <1>0, <2>1, <2>3, <2>5, <3>1 DEF QueuedOnce
    <3>2. CASE m = len + 1 \/ n = len + 1
      BY <2>3, <2>5, <2>6, <3>2
    <3> QED
      BY <2>5, <3>1, <3>2
  <2>8. QueuedNotLive'
    <3> SUFFICES ASSUME NEW n \in 1 .. len + 1, NEW r \in Sockets, Live(r)' PROVE idOf[r] # p[n]
      BY <2>4, <2>5 DEF QueuedNotLive
    <3>1. r # s /\ Live(r)
      OBVIOUS
    <3>2. CASE n \in 1 .. len
      BY <1>0, <2>1, <2>3, <2>5, <3>1, <3>2 DEF QueuedNotLive
    <3>3. CASE n = len + 1
      BY <1>0, <2>1, <2>3, <3>1, <3>3 DEF IdsOfLive
    <3> QED
      BY <2>5, <3>2, <3>3
  <2>9. NoneLost'
    <3> SUFFICES ASSUME NEW j \in Ids
                 PROVE  \/ \E n \in 1 .. len + 1 : p[n] = j
                        \/ \E r \in Sockets : Live(r)' /\ idOf[r] = j
      BY <2>4, <2>5 DEF NoneLost
    <3>1. CASE j = i
      BY <2>3, <2>5, <3>1
    <3>2. CASE \E n \in 1 .. len : q[n] = j
      <4>1. PICK n \in 1 .. len : q[n] = j
        BY <3>2
      <4>2. n \in 1 .. len + 1 /\ p[n] = j
        BY <2>3, <4>1
      <4> QED
        BY <4>2
    <3>3. CASE j # i /\ \E r \in Sockets : Live(r) /\ idOf[r] = j
      BY <2>1, <3>3
    <3> QED
      BY <1>0, <1>4, <2>1, <2>5, <3>1, <3>2, <3>3 DEF NoneLost
  <2> QED
    BY <1>1, <2>3, <2>4, <2>7, <2>8, <2>9 DEF IdInv
<1> QED
  BY <1>3, <1>4

LEMMA ReleaseSessionKeeps ==
  ASSUME SessionInv, NEW t \in Threads, ReleaseSession(t)
  PROVE  SessionInv'
<1>0. /\ TypeOK /\ HoldInv /\ MemberInv /\ IdInv /\ AllAccepted /\ ClientInv
      /\ th[t].pc = "release" /\ Sound(th[t])
      /\ KeysOfIds /\ ConnectOnce /\ NotYetActive /\ InZone /\ ClosedFirst /\ NoGhosts
  BY DEF SessionInv, ReleaseSession, At, HoldInv, ThreadsSound, ClientInv
<1>1. PICK s, pc, r :
        /\ s = th[t].del /\ pc = IF is_running_ THEN "reaccept" ELSE th[t].back
        /\ r = [th[t] EXCEPT !.pc = pc, !.del = Null]
  OBVIOUS
<1>2. /\ s # Null /\ s \in Sockets /\ refs[s] = {} /\ Live(s)
      /\ \A u \in Threads \ {t} : th[u].del # s
  BY <1>0, <1>1, DeleterKnows DEF Sound, DeleterPcs
<1>3. /\ th[t].back \in {"idle", "finish", "broadcast", "cleared"}
      /\ pc \in {"reaccept", "idle", "finish", "broadcast", "cleared"}
      /\ pc = "reaccept" \/ pc = th[t].back
  BY <1>0, <1>1 DEF Sound, DeleterPcs
<1>4. /\ r \in ThreadStates /\ r.pc = pc /\ r.del = Null /\ r.ref = th[t].ref /\ r.id = th[t].id
      /\ r.to = th[t].to /\ r.back = th[t].back
  <2>1. th[t] \in ThreadStates /\ pc \in Pcs
    BY <1>0, <1>3, Records DEF Pcs
  <2> QED
    BY <1>1, <2>1 DEF ThreadStates
<1>5. /\ th' \in [Threads -> ThreadStates] /\ th'[t] = r /\ OthersStay(t)
  <2>1. th' = [th EXCEPT ![t] = r]
    BY <1>1 DEF ReleaseSession
  <2> QED
    BY <1>0, <1>4, <2>1, Records DEF OthersStay
<1>6. /\ InHandler(r) <=> InHandler(th[t])
      /\ Sound(r) /\ ~Connects(r) /\ \A q \in Sockets : Refers(r, q) <=> Refers(th[t], q)
  <2>1. InHandler(r) <=> InHandler(th[t])
    BY <1>0, <1>3, <1>4 DEF InHandler, HandlerPcs, DeleterPcs
  <2>2. Sound(r) /\ ~Connects(r)
    BY <1>0, <1>3, <1>4, <2>1 DEF Sound, DeleterPcs, Connects
  <2>3. \A q \in Sockets : Refers(r, q) <=> Refers(th[t], q)
    BY <1>0, <1>3, <1>4, <2>1 DEF Refers
  <2> QED
    BY <2>1, <2>2, <2>3
<1>7. /\ UNCHANGED <<is_running_, created, accepts, idOf, refs, socket_>>
      /\ UNCHANGED <<client_key_, client_storage_, ended, chrs_>>
      /\ session_id_queue_' = IF is_running_ THEN Append(session_id_queue_, idOf[s])
                                             ELSE session_id_queue_
  BY <1>1 DEF ReleaseSession, server
<1>8. ~Live(s)' /\ \A q \in Sockets \ {s} : Live(q)' <=> Live(q)
  <2>1. \A u \in Threads : th'[u].del # s
    BY <1>2, <1>4, <1>5, Names DEF OthersStay
  <2>2. ~Live(s)'
    BY <1>2, <1>7, <2>1 DEF Live
  <2>3. \A q \in Sockets \ {s}, u \in Threads : th'[u].del = q <=> th[u].del = q
    <3> SUFFICES ASSUME NEW q \in Sockets \ {s}, NEW u \in Threads
                 PROVE  th'[u].del = q <=> th[u].del = q
      OBVIOUS
    <3>1. CASE u = t
      BY <1>1, <1>4, <1>5, <3>1, Names
    <3>2. CASE u # t
      BY <1>5, <3>2 DEF OthersStay
    <3> QED
      BY <3>1, <3>2
  <2>4. \A q \in Sockets \ {s} : Live(q)' <=> Live(q)
    BY <1>7, <2>3 DEF Live
  <2> QED
    BY <2>2, <2>4
<1>9. IdInv' /\ session_id_queue_' \in Seq(Ids)
  BY <1>0, <1>2, <1>7, <1>8, IdsRelease
<1>10. TypeOK'
  BY <1>0, <1>1, <1>2, <1>5, <1>9 DEF TypeOK, ReleaseSession, net, server
<1>11. HoldInv'
  <2>1. \A q \in Sockets : t \in refs'[q] <=> Refers(r, q)
    BY <1>0, <1>6, <1>7 DEF HoldInv, ThreadsHold
  <2>2. AcceptsHold'
    BY <1>0, <1>7 DEF HoldInv, AcceptsHold
  <2>3. InHandler(r) => r.id = idOf'[r.ref]
    BY <1>0, <1>4, <1>6, <1>7 DEF HoldInv, HandlersKnow
  <2>4. \A u \in Threads \ {t} : th[u].del # Null => th[u].del # r.del /\ refs'[th[u].del] = {}
    BY <1>0, <1>4, <1>7 DEF HoldInv, DeletersOwn
  <2> QED
    BY <1>0, <1>4, <1>5, <1>6, <1>7, <2>1, <2>2, <2>3, <2>4, HoldStep
<1>12. MemberInv'
  BY <1>0, <1>7 DEF MemberInv, SessionsHold, SocketsOfIds
<1>13. AllAccepted' /\ Pending' = Pending
  BY <1>0, <1>7, AcceptedKept
<1>14. KeysOfIds'
  BY <1>0, <1>7 DEF KeysOfIds
<1>15. \A u \in Threads : Connects(th'[u]) => u # t /\ Connects(th[u]) /\ th'[u].ref = th[u].ref
  BY <1>5, <1>6 DEF OthersStay
<1>16. ConnectOnce' /\ NotYetActive'
  BY <1>0, <1>7, <1>15 DEF ConnectOnce, NotYetActive
<1>17. InZone'
  <2> SUFFICES ASSUME NEW c \in chrs_, c \notin client_storage_
               PROVE  \E u \in Threads : th'[u].pc = "leave" /\ th'[u].del = c
    BY <1>7 DEF InZone
  <2>1. PICK u \in Threads : th[u].pc = "leave" /\ th[u].del = c
    BY <1>0 DEF InZone
  <2> QED
    BY <1>0, <1>5, <2>1 DEF OthersStay
<1>18. ClosedFirst'
  <2>1. \A u \in Threads : th'[u].pc \in {"leave", "release"} => u # t
    BY <1>3, <1>4, <1>5
  <2> QED
    BY <1>0, <1>5, <1>7, <2>1 DEF ClosedFirst, OthersStay
<1>19. NoGhosts'
  <2> SUFFICES ASSUME NEW c \in client_storage_ \cup chrs_
               PROVE  Live(c)' /\ client_key_[idOf[c]] = c
    BY <1>7 DEF NoGhosts
  <2>1. c \in Sockets /\ Live(c) /\ client_key_[idOf[c]] = c
    BY <1>0 DEF NoGhosts, TypeOK
  <2>2. c # s
    BY <1>0, <1>1 DEF ClosedFirst
  <2> QED
    BY <1>8, <2>1, <2>2
<1>20. FreeIdsAreOffered'
  <2>1. CASE is_running_
    <3>1. th'[t].pc = "reaccept"
      BY <1>1, <1>4, <1>5, <2>1
    <3> QED
      BY <3>1 DEF FreeIdsAreOffered
  <2>2. CASE ~is_running_
    BY <1>7, <2>2 DEF FreeIdsAreOffered
  <2> QED
    BY <2>1, <2>2
<1> QED
  BY <1>9, <1>10, <1>11, <1>12, <1>13, <1>14, <1>16, <1>17, <1>18, <1>19, <1>20
  DEF SessionInv, ClientInv

-----------------------------------------------------------------------------
(* The invariant holds in every reachable state.                           *)

\* At the start every id is in the queue and nothing is live.
LEMMA InitInv ==
  ASSUME Init
  PROVE  SessionInv
<1>1. \A t \in Threads : th[t] = Idle
  BY DEF Init
<1>2. \A s \in Sockets : refs[s] = {} /\ ~Live(s)
  BY <1>1, IdleSound, Names DEF Init, Live
<1>3. /\ session_id_queue_ \in Seq(Ids) /\ Len(session_id_queue_) = MaxConnection
      /\ \A n \in 1 .. MaxConnection : session_id_queue_[n] = n - 1
  <2>1. \A n \in 1 .. MaxConnection : n - 1 \in Ids
    BY Names DEF Ids
  <2>2. PICK q : q = [n \in 1 .. MaxConnection |-> n - 1]
    OBVIOUS
  <2>3. q \in [1 .. MaxConnection -> Ids]
    BY <2>1, <2>2
  <2>4. q \in Seq(Ids) /\ Len(q) = MaxConnection
    BY <2>3, Names
  <2>5. session_id_queue_ = q
    BY <2>2 DEF Init, InitialIds
  <2> QED
    BY <2>2, <2>4, <2>5
<1>4. TypeOK
  <2>1. 0 \in Ids /\ MaxAccepts \in Nat /\ MaxPackets \in Nat /\ MaxConnection \in Nat
    BY SessionAssumption DEF Ids
  <2>2. th \in [Threads -> ThreadStates]
    BY IdleSound DEF Init
  <2>3. is_running_ \in BOOLEAN /\ crashed \in BOOLEAN /\ created \in Nat
        /\ created <= MaxAccepts + MaxConnection /\ accepts \in 0 .. MaxAccepts /\ packets \in 0 .. MaxPackets
    <3>1. is_running_ = FALSE /\ crashed = FALSE /\ created = 0 /\ accepts = 0 /\ packets = 0
      BY DEF Init
    <3>2. is_running_ \in BOOLEAN /\ crashed \in BOOLEAN
      BY <3>1
    <3>3. created \in Nat /\ accepts \in 0 .. MaxAccepts /\ packets \in 0 .. MaxPackets
      BY <2>1, <3>1
    <3>4. created <= MaxAccepts + MaxConnection
      BY <2>1, <3>1
    <3> QED
      BY <3>2, <3>3, <3>4
  <2>4. /\ idOf \in [Sockets -> Ids]
        /\ refs \in [Sockets -> SUBSET (Threads \cup {"accept", "member"})]
        /\ reading \in [Sockets -> Nat] /\ writing \in [Sockets -> Nat] /\ handled \in [Sockets -> Nat]
    BY <2>1 DEF Init
  <2>5. /\ socket_ \in [Ids -> Sockets \cup {Null}] /\ client_key_ \in [Ids -> Sockets \cup {Null}]
        /\ strand_ \in [Ids -> Seq(BOOLEAN)]
    <3>1. <<>> \in Seq(BOOLEAN)
      OBVIOUS
    <3> QED
      BY <3>1 DEF Init
  <2> QED
    BY <1>3, <2>2, <2>3, <2>4, <2>5 DEF TypeOK, Init
<1>5. HoldInv
  BY <1>1, <1>2, IdleSound
  DEF HoldInv, ThreadsSound, HandlersKnow, ThreadsHold, AcceptsHold, DeletersOwn, DeletersDiffer
<1>6. MemberInv
  <2>1. \A i \in Ids : socket_[i] = Null
    BY DEF Init
  <2>2. \A s \in Sockets : idOf[s] \in Ids
    BY <1>4 DEF TypeOK
  <2> QED
    BY <1>2, <2>1, <2>2, Names DEF MemberInv, SessionsHold, SocketsOfIds
<1>7. IdInv
  <2>1. Queued = 1 .. MaxConnection
    BY <1>3 DEF Queued
  <2>2. QueuedOnce
    BY <1>3, <2>1, Names DEF QueuedOnce
  <2>3. NoneLost
    <3> SUFFICES ASSUME NEW i \in Ids PROVE \E n \in 1 .. MaxConnection : session_id_queue_[n] = i
      BY <2>1 DEF NoneLost
    <3>1. i + 1 \in 1 .. MaxConnection /\ (i + 1) - 1 = i
      BY Names DEF Ids
    <3> QED
      BY <1>3, <3>1
  <2> QED
    BY <1>2, <2>2, <2>3 DEF IdInv, OnlyCreatedLive, IdsOfLive, QueuedNotLive
<1>8. AllAccepted
  <2>1. Pending = {}
    BY <1>2 DEF Pending
  <2> QED
    BY <2>1, FS_EmptySet DEF AllAccepted, Init
<1>9. ClientInv
  <2>1. \A i \in Ids : client_key_[i] = Null
    BY DEF Init
  <2>2. client_storage_ = {} /\ ended = {} /\ chrs_ = {}
    BY DEF Init
  <2>3. \A t \in Threads : ~Connects(th[t]) /\ th[t].pc = "idle"
    BY <1>1, IdleSound
  <2> QED
    BY <2>1, <2>2, <2>3 DEF ClientInv, KeysOfIds, ConnectOnce, NotYetActive, InZone, ClosedFirst, NoGhosts
<1>10. FreeIdsAreOffered
  BY DEF FreeIdsAreOffered, Init
<1> QED
  BY <1>4, <1>5, <1>6, <1>7, <1>8, <1>9, <1>10 DEF SessionInv

LEMMA StutterKeeps ==
  ASSUME SessionInv, UNCHANGED vars
  PROVE  SessionInv'
<1>1. TypeOK'
  BY DEF SessionInv, TypeOK, vars, net, pool, life, server
<1> QED
  BY <1>1, NobodyMoves DEF vars, life, server

LEMMA StepKeeps ==
  ASSUME SessionInv, NEW t \in Threads, Step(t)
  PROVE  SessionInv'
BY OnConnectKeeps, OnActiveKeeps, FirstReadKeeps, ReturnKeeps, FinishKeeps, OnErrorKeeps,
   ProcessPacketKeeps, TakeReceiverKeeps, SendKeeps, BroadCastEndsKeeps, ReadNextKeeps, OnCloseKeeps,
   LeaveZoneKeeps, ReleaseSessionKeeps, ReacceptKeeps DEF Step

LEMMA NextInv ==
  ASSUME SessionInv, [Next]_vars
  PROVE  SessionInv'
<1>1. CASE Run \/ Stop \/ Clear \/ ClearNext
  BY <1>1, RunKeeps, StopKeeps, ClearKeeps, ClearNextKeeps
<1>2. CASE \E s \in Sockets : Leave(s)
  BY <1>2, LeaveKeeps
<1>3. CASE \E s \in Sockets, ok \in BOOLEAN : CompleteRead(s, ok) \/ CompleteWrite(s, ok)
  BY <1>3, CompleteReadKeeps, CompleteWriteKeeps
<1>4. CASE \E t \in Workers, s \in Sockets : HandleAccept(t, s) \/ AcceptError(t, s)
  BY <1>4, HandleAcceptKeeps, AcceptErrorKeeps
<1>5. CASE \E t \in Workers, i \in Ids : StartHandler(t, i)
  BY <1>5, StartHandlerKeeps
<1>6. CASE \E t \in Threads : Step(t)
  BY <1>6, StepKeeps
<1>7. CASE UNCHANGED vars
  BY <1>7, StutterKeeps
<1> QED
  BY <1>1, <1>2, <1>3, <1>4, <1>5, <1>6, <1>7 DEF Next

LEMMA Inductive == Spec => []SessionInv
<1>1. Init => SessionInv
  BY InitInv
<1>2. SessionInv /\ [Next]_vars => SessionInv'
  BY NextInv
<1> QED
  BY <1>1, <1>2, PTL DEF Spec

-----------------------------------------------------------------------------
(* What the program promises.                                              *)

\* Every variable of the sessions, of the threads and of the pool has its type (NioServer.hpp and
\* NioSession.hpp, their members), for every number of threads, sessions, accepts and packets.
THEOREM TypeCorrect == Spec => []TypeOK
<1>1. SessionInv => TypeOK
  BY DEF SessionInv
<1> QED
  BY <1>1, Inductive, PTL

\* While the server runs no session id is lost and none is in two places: it is once in the queue or
\* belongs to one connection (Accept takes it, ReleaseSession gives it back).
THEOREM IdsAreConserved == Spec => []IdsConserved
<1>1. ASSUME SessionInv PROVE IdsConserved
  <2>1. TypeOK /\ OnlyCreatedLive /\ IdsOfLive /\ QueuedOnce /\ QueuedNotLive /\ NoneLost
    BY <1>1 DEF SessionInv, IdInv
  <2>2. PICK q \in Seq(Ids) : q = session_id_queue_ /\ DOMAIN q = Queued
    BY <2>1 DEF TypeOK, Queued
  <2>3. \A s \in 1 .. created : s \in Sockets
    BY <2>1, SessionAssumption DEF TypeOK, Sockets
  <2>4. \A s \in Sockets : Live(s) => s \in 1 .. created
    BY <2>1, SessionAssumption DEF OnlyCreatedLive, TypeOK, Sockets
  <2> SUFFICES ASSUME is_running_, NEW i \in Ids
               PROVE  LET queued == {n \in DOMAIN session_id_queue_ : session_id_queue_[n] = i}
                          live == {s \in 1 .. created : idOf[s] = i /\ Live(s)}
                      IN  \/ live = {} /\ \E n \in queued : queued = {n}
                          \/ queued = {} /\ \E s \in live : live = {s}
    BY DEF IdsConserved
  <2> DEFINE queued == {n \in DOMAIN session_id_queue_ : session_id_queue_[n] = i}
             live == {s \in 1 .. created : idOf[s] = i /\ Live(s)}
  <2>5. \A n : n \in queued <=> n \in Queued /\ session_id_queue_[n] = i
    BY <2>2
  <2>6. \A s : s \in live <=> s \in Sockets /\ idOf[s] = i /\ Live(s)
    BY <2>3, <2>4
  <2> HIDE DEF queued, live
  <2>7. \A m, n \in queued : m = n
    BY <2>1, <2>5 DEF QueuedOnce
  <2>8. \A r, s \in live : r = s
    BY <2>1, <2>6 DEF IdsOfLive
  <2>9. queued # {} \/ live # {}
    BY <2>1, <2>5, <2>6 DEF NoneLost
  <2>10. queued = {} \/ live = {}
    BY <2>1, <2>5, <2>6 DEF QueuedNotLive
  <2>11. CASE queued # {}
    <3>1. PICK n : n \in queued
      BY <2>11
    <3>2. queued = {n}
      BY <2>7, <3>1
    <3>3. live = {} /\ \E m \in queued : queued = {m}
      BY <2>10, <2>11, <3>1, <3>2
    <3> QED
      BY <3>3 DEF queued, live
  <2>12. CASE live # {}
    <3>1. PICK s : s \in live
      BY <2>12
    <3>2. live = {s}
      BY <2>8, <3>1
    <3>3. queued = {} /\ \E r \in live : live = {r}
      BY <2>10, <2>12, <3>1, <3>2
    <3> QED
      BY <3>3 DEF queued, live
  <2> QED
    BY <2>9, <2>11, <2>12
<1> QED
  BY <1>1, Inductive, PTL

\* The session of a client in the storage or in the zone is still that of its own connection: OnClose
\* takes the client away before ReleaseSession offers the id to the next connection.
THEOREM ClientsAreNoGhosts == Spec => []NoGhosts
<1>1. SessionInv => NoGhosts
  BY DEF SessionInv, ClientInv
<1> QED
  BY <1>1, Inductive, PTL

\* While there is a free id somebody waits for a connection or is about to: the chain of accepts that
\* HandleAccept, its error path and ReleaseSession keep up does not end while the server runs.
THEOREM AcceptsGoOn == Spec => []FreeIdsAreOffered
<1>1. SessionInv => FreeIdsAreOffered
  BY DEF SessionInv
<1> QED
  BY <1>1, Inductive, PTL

-----------------------------------------------------------------------------
(* The refinement of the abstract connections.                             *)

\* The id of a socket that has been created does not change.
LEMMA IdsStay ==
  ASSUME TypeOK, [Next]_vars
  PROVE  \A s \in Sockets : s <= created => idOf'[s] = idOf[s]
<1>1. ASSUME NEW held, Accept(held) PROVE \A s \in Sockets : s <= created => idOf'[s] = idOf[s]
  <2>1. created \in Nat /\ idOf \in [Sockets -> Ids]
    BY DEF TypeOK
  <2>2. idOf' = idOf \/ idOf' = [idOf EXCEPT ![created + 1] = Head(session_id_queue_)]
    BY <1>1 DEF Accept
  <2> SUFFICES ASSUME NEW s \in Sockets, s <= created PROVE idOf'[s] = idOf[s]
    OBVIOUS
  <2>3. s # created + 1
    BY <2>1, Names
  <2> QED
    BY <2>1, <2>2, <2>3
<1>2. CASE idOf' = idOf
  BY <1>2
<1>3. CASE \E t \in Threads : FirstRead(t) \/ Reaccept(t)
  BY <1>1, <1>3 DEF FirstRead, Reaccept
<1>4. CASE Run
  BY <1>1, <1>4 DEF Run
<1>5. CASE \E t \in Workers, s \in Sockets : AcceptError(t, s)
  BY <1>1, <1>5 DEF AcceptError
<1> QED
  <2>1. Stop \/ Clear \/ ClearNext => idOf' = idOf
    BY DEF Stop, Clear, ClearNext, pool
  <2>2. \A s \in Sockets, ok \in BOOLEAN :
          Leave(s) \/ CompleteRead(s, ok) \/ CompleteWrite(s, ok) => idOf' = idOf
    BY DEF Leave, CompleteRead, CompleteWrite, pool
  <2>3. /\ \A t \in Workers, s \in Sockets : HandleAccept(t, s) => idOf' = idOf
        /\ \A t \in Workers, i \in Ids : StartHandler(t, i) => idOf' = idOf
    BY DEF HandleAccept, StartHandler, pool
  <2>4. \A t \in Threads : Step(t) => FirstRead(t) \/ Reaccept(t) \/ idOf' = idOf
    <3> SUFFICES ASSUME NEW t \in Threads, Step(t) PROVE FirstRead(t) \/ Reaccept(t) \/ idOf' = idOf
      OBVIOUS
    <3>1. OnConnect(t) \/ OnActive(t) \/ Return(t) \/ Finish(t) \/ OnError(t) => idOf' = idOf
      BY DEF OnConnect, OnActive, Return, Finish, OnError, pool
    <3>2. ProcessPacket(t) \/ TakeReceiver(t) \/ Send(t) => idOf' = idOf
      BY DEF ProcessPacket, TakeReceiver, Send, pool
    <3>3. BroadCastEnds(t) \/ ReadNext(t) \/ OnClose(t) \/ LeaveZone(t) \/ ReleaseSession(t) =>
            idOf' = idOf
      BY DEF BroadCastEnds, ReadNext, OnClose, LeaveZone, ReleaseSession, pool
    <3> QED
      BY <3>1, <3>2, <3>3 DEF Step
  <2>5. UNCHANGED vars => idOf' = idOf
    BY DEF vars, pool
  <2>6. CASE Run \/ Stop \/ Clear \/ ClearNext
    BY <1>2, <1>4, <2>1, <2>6
  <2>7. CASE \/ \E s \in Sockets : Leave(s)
             \/ \E s \in Sockets, ok \in BOOLEAN : CompleteRead(s, ok) \/ CompleteWrite(s, ok)
    <3>1. TRUE \in BOOLEAN
      OBVIOUS
    <3> QED
      BY <1>2, <2>2, <2>7, <3>1
  <2>8. CASE \/ \E t \in Workers, s \in Sockets : HandleAccept(t, s) \/ AcceptError(t, s)
             \/ \E t \in Workers, i \in Ids : StartHandler(t, i)
    BY <1>2, <1>5, <2>3, <2>8
  <2>9. CASE \E t \in Threads : Step(t)
    BY <1>2, <1>3, <2>4, <2>9
  <2> QED
    BY <1>2, <2>5, <2>6, <2>7, <2>8, <2>9 DEF Next

\* The connections of the abstract specification, when no client comes or goes.
LEMMA ActiveStays ==
  ASSUME SessionInv, [Next]_vars, UNCHANGED client_storage_
  PROVE  {<<idOf[s], s>> : s \in client_storage_}' = {<<idOf[s], s>> : s \in client_storage_}
<1>1. \A s \in client_storage_ : s \in Sockets /\ s <= created
  BY DEF SessionInv, TypeOK, ClientInv, NotYetActive
<1>2. \A s \in client_storage_ : idOf'[s] = idOf[s]
  BY <1>1, IdsStay DEF SessionInv
<1> QED
  BY <1>2

LEMMA StepMaps ==
  ASSUME SessionInv, [Next]_vars
  PROVE  C!Next \/ UNCHANGED C!avars
<1>0. /\ TypeOK /\ IdInv /\ NotYetActive /\ NoGhosts /\ HoldInv
      /\ client_storage_ \subseteq Sockets
  BY DEF SessionInv, ClientInv, TypeOK
<1>1. CASE UNCHANGED <<client_storage_, ended, handled>>
  BY <1>1, ActiveStays DEF C!avars
<1>2. ASSUME NEW t \in Threads, OnActive(t) PROVE C!Next
  <2>1. PICK s, i : s = th[t].ref /\ i = idOf[s]
    OBVIOUS
  <2>2. InHandler(th[t]) /\ Connects(th[t])
    BY <1>2 DEF OnActive, At, InHandler, HandlerPcs, Connects
  <2>3. s \in Sockets /\ i \in Ids /\ Live(s)
    BY <1>0, <2>1, <2>2, HandlerHolds DEF TypeOK
  <2>4. /\ client_storage_' = client_storage_ \cup {s} /\ UNCHANGED <<idOf, ended, handled>>
    BY <2>1, <1>2 DEF OnActive, pool
  <2>5. s \notin client_storage_ \cup ended
    BY <1>0, <2>1, <2>2 DEF NotYetActive
  <2>6. \A q \in client_storage_ : idOf[q] # i
    BY <1>0, <2>1, <2>3, <2>5 DEF NoGhosts, IdInv, IdsOfLive
  <2>7. C!Activate(i, s)
    <3>1. \A p \in {<<idOf[q], q>> : q \in client_storage_} : p[1] # i /\ p[2] # s
      BY <2>5, <2>6
    <3>2. {<<idOf[q], q>> : q \in client_storage_}' = {<<idOf[q], q>> : q \in client_storage_} \cup {<<i, s>>}
      BY <2>1, <2>4
    <3> QED
      BY <2>4, <2>5, <3>1, <3>2 DEF C!Activate
  <2> QED
    BY <2>3, <2>7 DEF C!Next
<1>3. ASSUME NEW t \in Threads, ProcessPacket(t) PROVE C!Next \/ UNCHANGED C!avars
  <2>1. PICK key : key = client_key_[th[t].id]
    OBVIOUS
  <2>2. UNCHANGED <<client_storage_, ended, idOf>>
    BY <1>3 DEF ProcessPacket, pool
  <2>3. CASE handled' = handled
    BY <1>1, <2>2, <2>3
  <2>4. CASE key \in client_storage_ /\ handled' = [handled EXCEPT ![key] = @ + 1]
    <3>1. key \in Sockets /\ idOf[key] \in Ids
      BY <1>0, <2>4 DEF TypeOK
    <3>2. <<idOf[key], key>> \in {<<idOf[q], q>> : q \in client_storage_}
      BY <2>4
    <3>3. {<<idOf[q], q>> : q \in client_storage_}' = {<<idOf[q], q>> : q \in client_storage_}
      BY <2>2, ActiveStays
    <3>4. C!Handle(idOf[key], key)
      BY <2>2, <2>4, <3>2, <3>3 DEF C!Handle
    <3> QED
      BY <3>1, <3>4 DEF C!Next
  <2> QED
    BY <1>3, <2>1, <2>3, <2>4 DEF ProcessPacket
<1>4. ASSUME NEW t \in Threads, OnClose(t) PROVE C!Next \/ UNCHANGED C!avars
  <2>1. PICK key : key = client_key_[idOf[th[t].del]]
    OBVIOUS
  <2>2. /\ client_storage_' = client_storage_ \ {key} /\ ended' = ended \cup ({key} \cap client_storage_)
        /\ UNCHANGED <<handled, idOf>>
    BY <1>4, <2>1 DEF OnClose, pool
  <2>3. CASE key \notin client_storage_
    <3>1. UNCHANGED <<client_storage_, ended, handled>>
      BY <2>2, <2>3
    <3> QED
      BY <1>1, <3>1
  <2>4. CASE key \in client_storage_
    <3>1. key \in Sockets /\ idOf[key] \in Ids
      BY <1>0, <2>4 DEF TypeOK
    <3>2. <<idOf[key], key>> \in {<<idOf[q], q>> : q \in client_storage_}
      BY <2>4
    <3>3. {<<idOf[q], q>> : q \in client_storage_}'
            = {<<idOf[q], q>> : q \in client_storage_} \ {<<idOf[key], key>>}
      BY <2>2
    <3>4. ended' = ended \cup {key}
      BY <2>2, <2>4
    <3>5. C!End(idOf[key], key)
      BY <2>2, <3>2, <3>3, <3>4 DEF C!End
    <3> QED
      BY <3>1, <3>5 DEF C!Next
  <2> QED
    BY <2>3, <2>4
<1>5. CASE Run \/ Stop \/ Clear \/ ClearNext
  BY <1>1, <1>5 DEF Run, Stop, Clear, ClearNext, server
<1>6. CASE \/ \E s \in Sockets : Leave(s)
           \/ \E s \in Sockets, ok \in BOOLEAN : CompleteRead(s, ok) \/ CompleteWrite(s, ok)
  BY <1>1, <1>6 DEF Leave, CompleteRead, CompleteWrite, server
<1>7. CASE \/ \E t \in Workers, s \in Sockets : HandleAccept(t, s) \/ AcceptError(t, s)
           \/ \E t \in Workers, i \in Ids : StartHandler(t, i)
  BY <1>1, <1>7 DEF HandleAccept, AcceptError, StartHandler, server
<1>8. CASE \E t \in Threads : Step(t)
  <2>1. PICK t \in Threads : Step(t)
    BY <1>8
  <2>2. OnActive(t) \/ ProcessPacket(t) \/ OnClose(t) \/ UNCHANGED <<client_storage_, ended, handled>>
    BY <2>1 DEF Step, OnConnect, FirstRead, Return, Finish, OnError, TakeReceiver, Send,
           BroadCastEnds, ReadNext, LeaveZone, ReleaseSession, Reaccept, server
  <2> QED
    BY <1>1, <1>2, <1>3, <1>4, <2>2
<1>9. CASE UNCHANGED vars
  BY <1>1, <1>9 DEF vars, server
<1> QED
  BY <1>5, <1>6, <1>7, <1>8, <1>9 DEF Next

\* The sessions implement the connections of the abstract specification: OnActive comes once for a
\* connection, with an id that no other active connection has, packets are handled for active
\* connections only, and OnClose ends each of them at most once.
THEOREM ConnectionsAreImplemented == Spec => ImplementsConnections
<1>1. Init => C!Init
  BY DEF Init, C!Init
<1>2. SessionInv /\ [Next]_vars => [C!Next]_C!avars
  BY StepMaps
<1> QED
  BY <1>1, <1>2, Inductive, PTL DEF Spec, C!Spec, ImplementsConnections
=============================================================================
