----------------------------- MODULE LobbyProofs -----------------------------
(***************************************************************************)
(* What holds of ConnectionPool and Lobby for every number of clients,     *)
(* accounts, slots and connections, and however often statements fail.     *)
(***************************************************************************)
EXTENDS Lobby, FiniteSetTheorems, WellFoundedInduction, TLAPS

-----------------------------------------------------------------------------
(* The pool.                                                               *)

\* The connections q can be lent, m have been made, and who has which.
Conserved(q, m, who) ==
    /\ m \in Nat /\ q \in Seq(1 .. m) /\ who \in [Holders -> 0 .. m]
    /\ \A i, j \in DOMAIN q : q[i] = q[j] => i = j
    /\ \A o, p \in Holders : who[o] = who[p] /\ o # p => who[o] = NoConnection
    /\ \A n \in 1 .. m : (\E o \in Holders : who[o] = n) <=> ~ \E i \in DOMAIN q : q[i] = n

PoolInv == Conserved(connection_pool_, made, lent) /\ broken \subseteq 1 .. made

LEMMA PoolInvImplies == PoolInv => PoolTypeOK /\ PoolConserved
BY DEF PoolInv, Conserved, PoolTypeOK, PoolConserved

LEMMA PoolInitInv == PoolInit => PoolInv
<1> SUFFICES ASSUME PoolInit PROVE PoolInv
  OBVIOUS
<1>1. /\ made \in Nat /\ connection_pool_ \in Seq(1 .. made) /\ DOMAIN connection_pool_ = 1 .. made
      /\ \A i \in 1 .. made : connection_pool_[i] = i
  BY PoolAssumption DEF PoolInit
<1>2. lent \in [Holders -> 0 .. made] /\ \A o \in Holders : lent[o] = NoConnection
  BY <1>1 DEF PoolInit, NoConnection
<1> QED  BY <1>1, <1>2 DEF PoolInit, PoolInv, Conserved, NoConnection

\* New connections join the pool when it is empty.
LEMMA GrownConserved ==
  ASSUME Conserved(<<>>, made, lent), connection_pool_ = <<>>, NEW n \in Nat \ {0}
  PROVE  Conserved(Grown(n), made + n, lent) /\ Grown(n) # <<>>
<1> DEFINE q == [i \in 1 .. n |-> made + i]
<1>1. made \in Nat
  BY DEF Conserved
<1>2. q \in Seq(1 .. made + n) /\ Len(q) = n /\ \A i \in 1 .. n : q[i] = made + i
  BY <1>1
<1>3. Grown(n) = q
  <2>1. <<>> \o q = q
    BY <1>2
  <2> QED  BY <2>1 DEF Grown
<1>4. DOMAIN q = 1 .. n
  OBVIOUS
<1> HIDE DEF q
<1>5. \A k \in 1 .. made : \E o \in Holders : lent[o] = k
  BY DEF Conserved
<1>6. \A k \in 1 .. made + n : (\E o \in Holders : lent[o] = k) <=> ~ \E i \in 1 .. n : q[i] = k
  <2> SUFFICES ASSUME NEW k \in 1 .. made + n
               PROVE  (\E o \in Holders : lent[o] = k) <=> ~ \E i \in 1 .. n : q[i] = k
    OBVIOUS
  <2>1. CASE k <= made
    BY <1>1, <1>2, <1>5, <2>1
  <2>2. CASE k > made
    <3>1. k - made \in 1 .. n /\ q[k - made] = k
      BY <1>1, <1>2, <2>2
    <3>2. \A o \in Holders : lent[o] # k
      BY <1>1, <2>2 DEF Conserved
    <3> QED  BY <3>1, <3>2
  <2> QED  BY <1>1, <2>1, <2>2
<1>7. lent \in [Holders -> 0 .. made + n]
  BY <1>1 DEF Conserved
<1>8. \A o, p \in Holders : lent[o] = lent[p] /\ o # p => lent[o] = NoConnection
  BY DEF Conserved
<1>10. \A i, j \in 1 .. n : q[i] = q[j] => i = j
  BY <1>1, <1>2
<1>11. made + n \in Nat
  BY <1>1
<1>9. Conserved(q, made + n, lent)
  BY <1>10, <1>11, <1>2, <1>4, <1>6, <1>7, <1>8 DEF Conserved
<1> QED  BY <1>2, <1>3, <1>9

\* The last connection of q is lent to a holder that has none.
LEMMA TakeConserved ==
  ASSUME NEW q, NEW m, Conserved(q, m, lent), q # <<>>, NEW o \in Holders, lent[o] = NoConnection, Take(o, q)
  PROVE  Conserved(connection_pool_', m, lent') /\ lent'[o] # NoConnection /\ \A p \in Holders \ {o} : lent'[p] = lent[p]
<1> DEFINE k == Len(q)
           rest == SubSeq(q, 1, k - 1)
<1>1. k \in Nat /\ k > 0 /\ q[k] \in 1 .. m /\ m \in Nat /\ DOMAIN q = 1 .. k
  BY DEF Conserved
<1>2. /\ rest \in Seq(1 .. m) /\ DOMAIN rest = 1 .. k - 1
      /\ \A i \in 1 .. k - 1 : rest[i] = q[i]
  BY <1>1 DEF Conserved
<1>3. connection_pool_' = rest /\ lent' = [lent EXCEPT ![o] = q[k]]
  BY DEF Take
<1>4. lent' \in [Holders -> 0 .. m] /\ \A p \in Holders : lent'[p] = IF p = o THEN q[k] ELSE lent[p]
  BY <1>1, <1>3 DEF Conserved
<1> HIDE DEF k, rest
<1>5. \A p \in Holders : lent[p] # q[k]
  BY <1>1 DEF Conserved
<1>6. \A p, r \in Holders : lent'[p] = lent'[r] /\ p # r => lent'[p] = NoConnection
  <2>1. \A p, r \in Holders : lent[p] = lent[r] /\ p # r => lent[p] = NoConnection
    BY DEF Conserved
  <2> QED  BY <1>4, <1>5, <2>1
<1>7. \A i, j \in DOMAIN rest : rest[i] = rest[j] => i = j
  <2>1. \A i, j \in DOMAIN q : q[i] = q[j] => i = j
    BY DEF Conserved
  <2>2. \A i \in 1 .. k - 1 : i \in DOMAIN q
    BY <1>1
  <2> QED  BY <1>2, <2>1, <2>2
<1>8. ASSUME NEW n \in 1 .. m
      PROVE  (\E p \in Holders : lent'[p] = n) <=> ~ \E i \in DOMAIN rest : rest[i] = n
  <2>1. CASE n = q[k]
    <3>1. \A i \in 1 .. k - 1 : q[i] # q[k]
      BY <1>1 DEF Conserved
    <3> QED  BY <1>2, <1>4, <2>1, <3>1
  <2>2. CASE n # q[k]
    <3>1. (\E p \in Holders : lent'[p] = n) <=> (\E p \in Holders : lent[p] = n)
      BY <1>4, <2>2 DEF NoConnection
    <3>2. (\E i \in DOMAIN q : q[i] = n) <=> (\E i \in DOMAIN rest : rest[i] = n)
      <4>1. \A i \in 1 .. k : i \in 1 .. k - 1 \/ i = k
        BY <1>1
      <4>2. 1 .. k - 1 \subseteq 1 .. k
        BY <1>1
      <4> QED  BY <1>1, <1>2, <2>2, <4>1, <4>2
    <3> QED  BY <3>1, <3>2 DEF Conserved
  <2> QED  BY <2>1, <2>2
<1>9. Conserved(rest, m, lent')
  BY <1>1, <1>2, <1>4, <1>6, <1>7, <1>8 DEF Conserved
<1> QED  BY <1>1, <1>3, <1>4, <1>9 DEF NoConnection

\* A holder without a connection gets one.
LEMMA GetConserved ==
  ASSUME PoolInv, NEW o \in Holders, lent[o] = NoConnection, GetConnection(o)
  PROVE  PoolInv' /\ lent'[o] # NoConnection /\ \A p \in Holders \ {o} : lent'[p] = lent[p]
<1>1. CASE connection_pool_ = <<>>
  <2> DEFINE q == Grown(pool_alloc_size_)
             m == made + pool_alloc_size_
  <2>1. Conserved(q, m, lent) /\ q # <<>>
    BY <1>1, PoolAssumption, GrownConserved DEF PoolInv
  <2>2. Take(o, q) /\ made' = m /\ broken' = broken
    BY <1>1 DEF GetConnection
  <2>3. broken \subseteq 1 .. m
    BY PoolAssumption DEF PoolInv, Conserved
  <2> HIDE DEF q, m
  <2> QED  BY <2>1, <2>2, <2>3, TakeConserved DEF PoolInv
<1>2. CASE connection_pool_ # <<>>
  <2>1. Take(o, connection_pool_) /\ made' = made /\ broken' = broken
    BY <1>2 DEF GetConnection
  <2> QED  BY <1>2, <2>1, TakeConserved DEF PoolInv
<1> QED  BY <1>1, <1>2

\* A connection that cannot be made joins the pool with those made before it.
LEMMA FailConserved ==
  ASSUME PoolInv, GetConnectionFails
  PROVE  PoolInv' /\ lent' = lent
<1>1. PICK n \in 1 .. pool_alloc_size_ :
        connection_pool_' = Grown(n) /\ made' = made + n /\ broken' = broken \cup {made + n}
  BY DEF GetConnectionFails
<1>2. connection_pool_ = <<>> /\ lent' = lent /\ n \in Nat \ {0}
  BY PoolAssumption DEF GetConnectionFails
<1>3. Conserved(Grown(n), made + n, lent)
  BY <1>2, GrownConserved DEF PoolInv
<1>4. broken' \subseteq 1 .. made + n
  BY <1>1, <1>2 DEF PoolInv, Conserved
<1> QED  BY <1>1, <1>2, <1>3, <1>4 DEF PoolInv

\* The deleter puts a connection back, once.
LEMMA ReturnConserved ==
  ASSUME PoolInv, NEW o \in Holders, ReturnConnection(o), broken' \subseteq 1 .. made
  PROVE  PoolInv' /\ lent'[o] = NoConnection /\ \A p \in Holders \ {o} : lent'[p] = lent[p]
<1> DEFINE k == Len(connection_pool_)
           x == lent[o]
<1>1. /\ k \in Nat /\ made \in Nat /\ DOMAIN connection_pool_ = 1 .. k
      /\ x \in 1 .. made /\ x # 0
  BY DEF PoolInv, Conserved, ReturnConnection, NoConnection
<1>2. /\ connection_pool_' \in Seq(1 .. made) /\ DOMAIN connection_pool_' = 1 .. k + 1
      /\ \A i \in 1 .. k : connection_pool_'[i] = connection_pool_[i]
      /\ connection_pool_'[k + 1] = x
  BY <1>1 DEF ReturnConnection, PoolInv, Conserved
<1>3. lent' = [lent EXCEPT ![o] = NoConnection] /\ made' = made
  BY DEF ReturnConnection
<1>4. lent' \in [Holders -> 0 .. made] /\ \A p \in Holders : lent'[p] = IF p = o THEN 0 ELSE lent[p]
  BY <1>1, <1>3 DEF PoolInv, Conserved, NoConnection
<1>5. \A i \in 1 .. k : connection_pool_[i] # x
  BY <1>1 DEF PoolInv, Conserved
<1> HIDE DEF k, x
<1>6. \A i \in 1 .. k + 1 : i \in 1 .. k \/ i = k + 1
  BY <1>1
<1>7. \A i, j \in DOMAIN connection_pool_' : connection_pool_'[i] = connection_pool_'[j] => i = j
  BY <1>1, <1>2, <1>5, <1>6 DEF PoolInv, Conserved
<1>8. ASSUME NEW n \in 1 .. made
      PROVE  (\E p \in Holders : lent'[p] = n) <=> ~ \E i \in DOMAIN connection_pool_' : connection_pool_'[i] = n
  <2>1. CASE n = x
    <3>1. \A p \in Holders \ {o} : lent[p] # x
      BY <1>1 DEF PoolInv, Conserved, NoConnection, x
    <3>2. k + 1 \in DOMAIN connection_pool_'
      BY <1>1, <1>2
    <3> QED  BY <1>1, <1>2, <1>4, <2>1, <3>1, <3>2
  <2>2. CASE n # x
    <3>1. (\E p \in Holders : lent'[p] = n) <=> (\E p \in Holders : lent[p] = n)
      BY <1>4, <2>2 DEF x
    <3>2. 1 .. k \subseteq 1 .. k + 1
      BY <1>1
    <3>3. (\E i \in DOMAIN connection_pool_ : connection_pool_[i] = n)
            <=> (\E i \in DOMAIN connection_pool_' : connection_pool_'[i] = n)
      BY <1>1, <1>2, <1>6, <2>2, <3>2
    <3> QED  BY <3>1, <3>3 DEF PoolInv, Conserved
  <2> QED  BY <2>1, <2>2
<1>9. \A p, r \in Holders : lent'[p] = lent'[r] /\ p # r => lent'[p] = NoConnection
  BY <1>4 DEF PoolInv, Conserved, NoConnection
<1>10. Conserved(connection_pool_', made, lent')
  BY <1>1, <1>2, <1>4, <1>7, <1>8, <1>9 DEF Conserved
<1> QED  BY <1>3, <1>4, <1>10 DEF PoolInv, NoConnection

-----------------------------------------------------------------------------
(* The inductive invariant of the lobby.                                   *)

\* What a handler does next, or after it has got its connection.
Phase(c) == IF h[c].pc = "connect" THEN h[c].next ELSE h[c].pc

Has(n, a, s) == [cid |-> n, acc |-> a, slot |-> s] \in characters

Values == Cids \cup {Empty, 0}

Inserting == {c \in Clients : h[c].next = "insert"}

\* Handlers belong to clients that are confirmed; creations are counted in next.
HandlersFit ==
    /\ \A c \in Clients : lent[c] # NoConnection <=> h[c].pc \notin {"idle", "connect"}
    /\ \A c \in Clients : h[c].pc # "idle" => c \in client_storage_ /\ state[c] = "kConfirm"
    /\ \A c \in Clients : state[c] # "kNotConfirm" => accid[c] \in Accounts
    /\ \A c \in Clients : (h[c].next = "insert") <=> (Phase(c) = "insert")
    /\ \A c \in Clients : h[c].pc = "connect" => h[c].next \in {"insert", "delete", "cids"}
    /\ next_cid + Cardinality(Inserting) <= MaxCids + 1

\* A new character belongs to one handler until its items are inserted.
ItemsFit ==
    /\ \A n \in Cids : n >= next_cid => inventoryitems[n] = 0
    /\ \A c \in Clients :
          /\ h[c].pc \in {"cid", "items"} => h[c].cid < next_cid
          /\ h[c].pc = "cid" => h[c].cid \in Cids /\ inventoryitems[h[c].cid] = 0
          /\ h[c].pc = "items" /\ h[c].cid # Empty => h[c].cid \in Cids /\ inventoryitems[h[c].cid] = h[c].n
          /\ Phase(c) \in {"insert", "cid", "items"} => h[c].slot \in Slots
          /\ h[c].pc = "row" => h[c].slot_cid \in [Slots -> Cids \cup {Empty}]
    /\ \A c, d \in Clients :
          h[c].pc \in {"cid", "items"} /\ h[d].pc \in {"cid", "items"} /\ h[c].cid = h[d].cid /\ h[c].cid # Empty
            => c = d

\* A character has one row; characters of an account that is not spoiled have slots of their own.
TableFits ==
    /\ \A n, m \in Cids, a, b \in Accounts, s, t \in Slots :
          /\ Has(n, a, s) => n < next_cid
          /\ Has(n, a, s) /\ Has(n, b, t) => a = b /\ s = t
          /\ Has(n, a, s) /\ Has(m, a, s) /\ a \notin spoiled => n = m

\* Two clients that act for one account have spoiled it.
ActsAlone ==
    \A c, d \in client_storage_ :
        state[c] = "kConfirm" /\ state[d] = "kConfirm" /\ accid[c] = accid[d] /\ c # d => accid[c] \in spoiled

\* The character n, if there is one, belongs to c.
Owns(c, n) ==
    /\ n < next_cid
    /\ \A a \in Accounts, s \in Slots : Has(n, a, s) => a = accid[c]

\* What a client that is not closed knows are its own characters, except between a confirm and the
\* publication of its list.
KnowsOwn(c) ==
    c \notin closed =>
        /\ Phase(c) \notin {"cids", "row", "endless"} => \A s \in Slots : Owns(c, slot_info_[c][s])
        /\ h[c].pc = "row" => /\ \A n \in h[c].todo : Owns(c, n)
                             /\ \A s \in Slots : Owns(c, h[c].slot_cid[s])
        /\ h[c].pc \in {"cid", "items"} => Owns(c, h[c].cid)
        /\ Phase(c) = "delete" /\ h[c].slot \in Slots => Owns(c, h[c].cid)

Agree(a, f) == \A s \in Slots, n \in Values : Has(n, a, s) <=> f[s] = n /\ n # Empty

\* slot_info_ and the table, at each step of a handler.
SlotsFit(c) ==
    c \in client_storage_ \ closed /\ state[c] = "kConfirm" /\ accid[c] \notin spoiled =>
        LET a == accid[c]
            f == slot_info_[c]
        IN  /\ Phase(c) \in {"idle", "insert", "items", "delete"} => Agree(a, f)
            /\ Phase(c) \in {"insert", "cid"} => f[h[c].slot] = Empty
            /\ Phase(c) = "cid" => Agree(a, [f EXCEPT ![h[c].slot] = h[c].cid])
            /\ Phase(c) = "delete" /\ h[c].slot \in Slots => f[h[c].slot] = h[c].cid
            /\ Phase(c) = "forget" => Agree(a, [s \in Slots |-> IF s = h[c].slot THEN Empty ELSE f[s]])
            /\ Phase(c) = "row" =>
                 /\ \A n \in Cids, s \in Slots : Has(n, a, s) => n \in h[c].todo \/ h[c].slot_cid[s] = n
                 /\ \A s \in Slots : h[c].slot_cid[s] # Empty => Has(h[c].slot_cid[s], a, s)
                 /\ \A n \in h[c].todo : \E s \in Slots : Has(n, a, s)

\* A client that was closed creates nothing for an account that is not spoiled.
ClosedCreatesSpoiled ==
    \A c \in Clients : c \in closed /\ Phase(c) = "insert" => accid[c] \in spoiled

\* A connection that was never made is not confirmed.
NewNotConfirmed == \A c \in Clients \ (client_storage_ \cup ended) : state[c] = "kNotConfirm"

LobbyInv ==
    /\ TypeOK
    /\ PoolInv
    /\ HandlersFit
    /\ ItemsFit
    /\ TableFits
    /\ ActsAlone
    /\ ClosedCreatesSpoiled
    /\ NewNotConfirmed
    /\ \A c \in Clients : KnowsOwn(c) /\ SlotsFit(c)

-----------------------------------------------------------------------------
(* What a step of one client does to the others.                           *)

\* The step is c's: of the others it changes nothing.
OthersStay(c) ==
    \A d \in Clients \ {c} :
        /\ h'[d] = h[d] /\ slot_info_'[d] = slot_info_[d] /\ state'[d] = state[d] /\ accid'[d] = accid[d]
        /\ d \in closed' <=> d \in closed
        /\ d \in client_storage_' <=> d \in client_storage_

\* The table after a step of c, and who is spoiled by it.
Unchanged == characters' = characters /\ next_cid' = next_cid
Inserted(c) ==
    /\ characters' = characters \cup {[cid |-> next_cid, acc |-> accid[c], slot |-> h[c].slot]}
    /\ next_cid' = next_cid + 1
Deleted(c) ==
    /\ characters' = characters \ Row(h[c].cid)
    /\ next_cid' = next_cid
    /\ c \in closed \/ h[c].slot = slot_size => {r.acc : r \in Row(h[c].cid)} \subseteq spoiled'

\* Rows and Has.
LEMMA InsertedHas ==
  ASSUME NEW c \in Clients, Inserted(c), NEW n, NEW a, NEW s
  PROVE  Has(n, a, s)' <=> Has(n, a, s) \/ (n = next_cid /\ a = accid[c] /\ s = h[c].slot)
BY DEF Inserted, Has

LEMMA DeletedHas ==
  ASSUME NEW c \in Clients, Deleted(c), NEW n, NEW a, NEW s
  PROVE  Has(n, a, s)' <=> Has(n, a, s) /\ n # h[c].cid
BY DEF Deleted, Has, Row

LEMMA HasType ==
  ASSUME TypeOK, NEW n, NEW a, NEW s, Has(n, a, s)
  PROVE  n \in Cids /\ a \in Accounts /\ s \in Slots
BY DEF TypeOK, Has

\* What a client owns it keeps: rows only come with new ids.
LEMMA OwnsKept ==
  ASSUME TypeOK, NEW c \in Clients, Unchanged \/ Inserted(c) \/ Deleted(c),
         NEW d \in Clients, accid'[d] = accid[d], NEW n \in Values, Owns(d, n)
  PROVE  Owns(d, n)'
<1>1. next_cid \in Nat /\ next_cid' \in {next_cid, next_cid + 1} /\ n \in Int
  BY DEF TypeOK, Unchanged, Inserted, Deleted, Values, Cids, Empty
<1>2. n < next_cid
  BY DEF Owns
<1>3. ASSUME NEW a \in Accounts, NEW s \in Slots, Has(n, a, s)'
      PROVE  Has(n, a, s)
  <2>1. CASE Unchanged
    BY <1>3, <2>1 DEF Unchanged, Has
  <2>2. CASE Inserted(c)
    BY <1>1, <1>2, <1>3, <2>2, InsertedHas
  <2>3. CASE Deleted(c)
    BY <1>3, <2>3, DeletedHas
  <2> QED  BY <2>1, <2>2, <2>3
<1>4. n < next_cid'
  BY <1>1, <1>2
<1> QED  BY <1>3, <1>4 DEF Owns

LEMMA OthersKnowOwn ==
  ASSUME LobbyInv, NEW c \in Clients, OthersStay(c), Unchanged \/ Inserted(c) \/ Deleted(c),
         NEW d \in Clients, d # c
  PROVE  KnowsOwn(d)'
<1>1. /\ h'[d] = h[d] /\ slot_info_'[d] = slot_info_[d] /\ accid'[d] = accid[d]
      /\ d \in closed' <=> d \in closed
  BY DEF OthersStay
<1>2. /\ \A s \in Slots : slot_info_[d][s] \in Values
      /\ \A n \in h[d].todo : n \in Values
      /\ h[d].cid \in Values
      /\ h[d].pc = "row" => \A s \in Slots : h[d].slot_cid[s] \in Values
  BY DEF LobbyInv, TypeOK, Handlers, Values, ItemsFit
<1>3. \A n \in Values : Owns(d, n) => Owns(d, n)'
  BY <1>1, OwnsKept DEF LobbyInv
<1>4. KnowsOwn(d)
  BY DEF LobbyInv
<1> QED  BY <1>1, <1>2, <1>3, <1>4 DEF KnowsOwn, Phase

\* The characters of an account that stays unspoiled are changed only by the client that acts for it.
LEMMA OthersTable ==
  ASSUME LobbyInv, NEW c \in Clients, OthersStay(c), spoiled \subseteq spoiled',
         c \in client_storage_ /\ state[c] = "kConfirm",
         Unchanged \/ Inserted(c) \/ (Deleted(c) /\ Phase(c) = "delete"),
         NEW d \in Clients, d # c, d \in client_storage_, state[d] = "kConfirm", accid[d] \notin spoiled',
         NEW n, NEW a, a = accid[d], NEW s
  PROVE  Has(n, a, s)' <=> Has(n, a, s)
<1>1. accid[c] # a
  BY DEF LobbyInv, ActsAlone
<1>2. CASE Unchanged
  BY <1>2 DEF Unchanged, Has
<1>3. CASE Inserted(c)
  BY <1>1, <1>3, InsertedHas
<1>4. CASE Deleted(c) /\ Phase(c) = "delete"
  <2>1. SUFFICES ASSUME Has(n, a, s), n = h[c].cid PROVE FALSE
    BY <1>4, DeletedHas
  <2>2. [cid |-> n, acc |-> a, slot |-> s] \in Row(h[c].cid)
    BY <2>1 DEF Has, Row
  <2>3. a \in {r.acc : r \in Row(h[c].cid)}
    BY <2>2
  <2>4. c \notin closed /\ h[c].slot # slot_size
    BY <1>4, <2>3 DEF Deleted
  <2>5. h[c].slot \in Slots
    BY <2>4, LobbyAssumption DEF LobbyInv, TypeOK, Handlers, Slots
  <2>6. Owns(c, n)
    BY <1>4, <2>1, <2>4, <2>5 DEF LobbyInv, KnowsOwn
  <2>7. a \in Accounts /\ s \in Slots
    BY <2>1, HasType DEF LobbyInv
  <2> QED  BY <1>1, <2>1, <2>6, <2>7 DEF Owns
<1> QED  BY <1>2, <1>3, <1>4

LEMMA OthersSlotsFit ==
  ASSUME LobbyInv, NEW c \in Clients, OthersStay(c), spoiled \subseteq spoiled',
         c \in client_storage_ /\ state[c] = "kConfirm",
         Unchanged \/ Inserted(c) \/ (Deleted(c) /\ Phase(c) = "delete"),
         NEW d \in Clients, d # c
  PROVE  SlotsFit(d)'
<1> SUFFICES ASSUME d \in client_storage_' \ closed', state'[d] = "kConfirm", accid'[d] \notin spoiled'
             PROVE  SlotsFit(d)'
  BY DEF SlotsFit
<1>1. /\ h'[d] = h[d] /\ slot_info_'[d] = slot_info_[d] /\ accid'[d] = accid[d] /\ state'[d] = state[d]
      /\ d \notin closed /\ d \in client_storage_ /\ Phase(d)' = Phase(d)
  BY DEF OthersStay, Phase
<1>2. \A n, s, a : a = accid[d] => (Has(n, a, s)' <=> Has(n, a, s))
  BY <1>1, OthersTable
<1>3. SlotsFit(d) /\ accid[d] \notin spoiled
  BY <1>1 DEF LobbyInv
<1>4. \A f, a : a = accid[d] => (Agree(a, f)' <=> Agree(a, f))
  BY <1>2 DEF Agree
<1> QED  BY <1>1, <1>2, <1>3, <1>4 DEF SlotsFit

-----------------------------------------------------------------------------
(* The parts of the invariant, for any step of a handler.                  *)

\* A row is only inserted into a free slot, or for an account that is spoiled.
LEMMA TableStep ==
  ASSUME LobbyInv, NEW c \in Clients, spoiled \subseteq spoiled',
         c \in client_storage_ /\ state[c] = "kConfirm",
         Unchanged \/ (Inserted(c) /\ Phase(c) = "insert") \/ Deleted(c)
  PROVE  TableFits'
<1>1. next_cid \in Nat
  BY DEF LobbyInv, TypeOK
<1>2. ASSUME NEW n \in Cids, NEW m \in Cids, NEW a \in Accounts, NEW b \in Accounts, NEW s \in Slots, NEW t \in Slots
      PROVE  /\ Has(n, a, s) => n < next_cid
             /\ Has(n, a, s) /\ Has(n, b, t) => a = b /\ s = t
             /\ Has(n, a, s) /\ Has(m, a, s) /\ a \notin spoiled => n = m
  BY DEF LobbyInv, TableFits
<1>3. CASE Unchanged \/ Deleted(c)
  <2>1. next_cid' = next_cid
    BY <1>3 DEF Unchanged, Deleted
  <2>2. \A n, a, s : Has(n, a, s)' => Has(n, a, s)
    BY <1>3, DeletedHas DEF Unchanged, Has
  <2>3. \A a : a \notin spoiled' => a \notin spoiled
    OBVIOUS
  <2> QED  BY <1>2, <2>1, <2>2, <2>3 DEF TableFits
<1>4. CASE Inserted(c) /\ Phase(c) = "insert"
  <2>1. next_cid' = next_cid + 1
    BY <1>4 DEF Inserted
  <2>2. \A n, a, s : Has(n, a, s)' <=> Has(n, a, s) \/ (n = next_cid /\ a = accid[c] /\ s = h[c].slot)
    BY <1>4, InsertedHas
  <2>3. ASSUME accid[c] \notin spoiled'
        PROVE  \A n \in Cids : ~Has(n, accid[c], h[c].slot)
    <3>1. c \notin closed
      BY <1>4, <2>3 DEF LobbyInv, ClosedCreatesSpoiled
    <3>2. Agree(accid[c], slot_info_[c]) /\ slot_info_[c][h[c].slot] = Empty /\ h[c].slot \in Slots
      BY <1>4, <2>3, <3>1 DEF LobbyInv, SlotsFit, ItemsFit
    <3> QED  BY <3>2 DEF Agree, Values
  <2>4. ASSUME NEW n \in Cids, NEW m \in Cids, NEW a \in Accounts, NEW b \in Accounts, NEW s \in Slots, NEW t \in Slots
        PROVE  /\ Has(n, a, s)' => n < next_cid'
               /\ Has(n, a, s)' /\ Has(n, b, t)' => a = b /\ s = t
               /\ Has(n, a, s)' /\ Has(m, a, s)' /\ a \notin spoiled' => n = m
    <3>1. n \in Nat /\ m \in Nat
      BY DEF Cids
    <3>2. Has(n, a, s)' => n < next_cid'
      BY <1>1, <1>2, <2>1, <2>2, <3>1
    <3>3. Has(n, a, s)' /\ Has(n, b, t)' => a = b /\ s = t
      <4>1. Has(n, a, s) => n # next_cid
        BY <1>1, <1>2, <3>1
      <4>2. Has(n, b, t) => n # next_cid
        BY <1>1, <1>2, <3>1
      <4> QED  BY <1>2, <2>2, <4>1, <4>2
    <3>4. Has(n, a, s)' /\ Has(m, a, s)' /\ a \notin spoiled' => n = m
      BY <1>2, <2>2, <2>3
    <3> QED  BY <3>2, <3>3, <3>4
  <2> QED  BY <2>4 DEF TableFits
<1> QED  BY <1>3, <1>4

\* Handlers have connections, belong to confirmed clients and reserve an id for a creation.
LEMMA HandlersStep ==
  ASSUME LobbyInv, NEW c \in Clients, OthersStay(c), h' \in [Clients -> Handlers], next_cid' \in Nat,
         \A d \in Clients \ {c} : lent'[d] = lent[d],
         lent'[c] # NoConnection <=> h'[c].pc \notin {"idle", "connect"},
         h'[c].pc # "idle" => c \in client_storage_' /\ state'[c] = "kConfirm",
         state'[c] # "kNotConfirm" => accid'[c] \in Accounts,
         (h'[c].next = "insert") <=> (Phase(c)' = "insert"),
         h'[c].pc = "connect" => h'[c].next \in {"insert", "delete", "cids"},
         \/ (h'[c].next = "insert" <=> h[c].next = "insert") /\ next_cid' = next_cid
         \/ /\ h'[c].next = "insert" /\ h[c].next # "insert" /\ next_cid' = next_cid
            /\ next_cid + Cardinality(Inserting) \in Cids
         \/ h'[c].next # "insert" /\ h[c].next = "insert" /\ next_cid' \in {next_cid, next_cid + 1}
  PROVE  HandlersFit'
<1>1. \A d \in Clients \ {c} : h'[d] = h[d] /\ Phase(d)' = Phase(d) /\ state'[d] = state[d] /\ accid'[d] = accid[d]
                             /\ (d \in client_storage_' <=> d \in client_storage_)
  BY DEF OthersStay, Phase
<1>2. /\ IsFiniteSet(Inserting) /\ Cardinality(Inserting) \in Nat
      /\ next_cid \in Nat /\ next_cid + Cardinality(Inserting) <= MaxCids + 1
  <2>1. Inserting \subseteq Clients
    BY DEF Inserting
  <2> QED  BY <2>1, LobbyAssumption, FS_Subset, FS_CardinalityType DEF LobbyInv, TypeOK, HandlersFit
<1>3. next_cid' + Cardinality(Inserting)' <= MaxCids + 1
  <2>1. CASE (h'[c].next = "insert" <=> h[c].next = "insert") /\ next_cid' = next_cid
    <3>1. Inserting' = Inserting
      BY <1>1, <2>1 DEF Inserting
    <3> QED  BY <1>2, <2>1, <3>1
  <2>2. CASE /\ h'[c].next = "insert" /\ h[c].next # "insert" /\ next_cid' = next_cid
             /\ next_cid + Cardinality(Inserting) \in Cids
    <3>1. Inserting' = Inserting \cup {c} /\ c \notin Inserting
      BY <1>1, <2>2 DEF Inserting
    <3>2. Cardinality(Inserting') = Cardinality(Inserting) + 1
      BY <1>2, <3>1, FS_AddElement
    <3>3. next_cid + Cardinality(Inserting) <= MaxCids /\ MaxCids \in Nat
      BY <2>2, LobbyAssumption DEF Cids
    <3> QED  BY <1>2, <2>2, <3>2, <3>3
  <2>3. CASE h'[c].next # "insert" /\ h[c].next = "insert" /\ next_cid' \in {next_cid, next_cid + 1}
    <3>1. Inserting' = Inserting \ {c} /\ c \in Inserting
      BY <1>1, <2>3 DEF Inserting
    <3>2. Cardinality(Inserting') = Cardinality(Inserting) - 1
      BY <1>2, <3>1, FS_RemoveElement
    <3>3. MaxCids \in Nat
      BY LobbyAssumption
    <3> QED  BY <1>2, <2>3, <3>2, <3>3
  <2> QED  BY <2>1, <2>2, <2>3
<1>4. HandlersFit
  BY DEF LobbyInv
<1>5. ASSUME NEW d \in Clients
      PROVE  /\ lent'[d] # NoConnection <=> h'[d].pc \notin {"idle", "connect"}
             /\ h'[d].pc # "idle" => d \in client_storage_' /\ state'[d] = "kConfirm"
             /\ state'[d] # "kNotConfirm" => accid'[d] \in Accounts
             /\ (h'[d].next = "insert") <=> (Phase(d)' = "insert")
             /\ h'[d].pc = "connect" => h'[d].next \in {"insert", "delete", "cids"}
  <2>1. CASE d = c
    BY <2>1
  <2>2. CASE d # c
    BY <1>1, <1>4, <2>2 DEF HandlersFit
  <2> QED  BY <2>1, <2>2
<1> QED  BY <1>3, <1>5 DEF HandlersFit

\* The part of ItemsFit about one handler.
ItemFits(c) ==
    /\ h[c].pc \in {"cid", "items"} => h[c].cid < next_cid
    /\ h[c].pc = "cid" => h[c].cid \in Cids /\ inventoryitems[h[c].cid] = 0
    /\ h[c].pc = "items" /\ h[c].cid # Empty => h[c].cid \in Cids /\ inventoryitems[h[c].cid] = h[c].n
    /\ Phase(c) \in {"insert", "cid", "items"} => h[c].slot \in Slots
    /\ h[c].pc = "row" => h[c].slot_cid \in [Slots -> Cids \cup {Empty}]

\* A handler inserts items for the character it has created, and nobody else does.
LEMMA ItemsStep ==
  ASSUME LobbyInv, NEW c \in Clients, OthersStay(c), next_cid' \in {next_cid, next_cid + 1}, ItemFits(c)',
         \/ inventoryitems' = inventoryitems
         \/ /\ h[c].pc = "items" /\ h[c].cid \in Cids
            /\ \A n \in Cids \ {h[c].cid} : inventoryitems'[n] = inventoryitems[n],
         h'[c].pc \in {"cid", "items"} =>
            \/ h'[c].cid = Empty \/ h'[c].cid = next_cid
            \/ h[c].pc \in {"cid", "items"} /\ h'[c].cid = h[c].cid
  PROVE  ItemsFit'
<1>1. \A d \in Clients \ {c} : h'[d] = h[d] /\ Phase(d)' = Phase(d)
  BY DEF OthersStay, Phase
<1>2. ItemsFit /\ next_cid \in Nat /\ \A n \in Cids : n \in Nat
  BY DEF LobbyInv, TypeOK, Cids
<1>3. \A d \in Clients : h[d].pc \in {"cid", "items"} => h[d].cid # next_cid
  BY <1>2 DEF ItemsFit
<1>4. ASSUME NEW d \in Clients PROVE ItemFits(d)'
  <2>1. CASE d # c
    <3>1. h'[d] = h[d] /\ Phase(d)' = Phase(d) /\ ItemFits(d)
      BY <1>1, <1>2, <2>1 DEF ItemsFit, ItemFits
    <3>2. h[d].pc \in {"cid", "items"} /\ h[d].cid # Empty => inventoryitems'[h[d].cid] = inventoryitems[h[d].cid]
      BY <1>2, <2>1 DEF ItemsFit
    <3>3. h[d].cid \in Cids => h[d].cid # Empty
      BY DEF Cids, Empty
    <3>4. h[d].pc \in {"cid", "items"} => h[d].cid < next_cid'
      <4>1. h[d].cid \in Values
        BY DEF LobbyInv, TypeOK, Handlers, Values
      <4>2. h[d].cid \in Int
        BY <4>1 DEF Values, Cids, Empty
      <4> QED  BY <1>2, <3>1, <4>2 DEF ItemFits
    <3> QED  BY <3>1, <3>2, <3>3, <3>4 DEF ItemFits
  <2> QED  BY <2>1
<1>5. ASSUME NEW d \in Clients, NEW e \in Clients, h'[d].pc \in {"cid", "items"}, h'[e].pc \in {"cid", "items"},
             h'[d].cid = h'[e].cid, h'[d].cid # Empty
      PROVE  d = e
  BY <1>1, <1>2, <1>3, <1>5 DEF ItemsFit
<1>6. ASSUME NEW n \in Cids, n >= next_cid' PROVE inventoryitems'[n] = 0
  <2>1. n >= next_cid /\ inventoryitems[n] = 0
    BY <1>2, <1>6 DEF ItemsFit
  <2>2. h[c].pc = "items" => n # h[c].cid
    <3>1. h[c].pc = "items" => h[c].cid < next_cid
      BY <1>2 DEF ItemsFit
    <3> QED  BY <1>2, <2>1, <3>1
  <2> QED  BY <2>1, <2>2
<1>7. ItemsFit' <=> /\ \A n \in Cids : n >= next_cid' => inventoryitems'[n] = 0
                    /\ \A d \in Clients : ItemFits(d)'
                    /\ \A d, e \in Clients :
                          h'[d].pc \in {"cid", "items"} /\ h'[e].pc \in {"cid", "items"} /\ h'[d].cid = h'[e].cid
                            /\ h'[d].cid # Empty => d = e
  BY DEF ItemsFit, ItemFits
<1> QED  BY <1>4, <1>5, <1>6, <1>7

\* The rest of the invariant, for a step of a handler: what is left to show is about its own client.
LEMMA StepParts ==
  ASSUME LobbyInv, NEW c \in Clients, OthersStay(c), spoiled \subseteq spoiled',
         c \in client_storage_ /\ state[c] = "kConfirm", UNCHANGED <<client_storage_, ended, state, accid>>,
         Unchanged \/ (Inserted(c) /\ Phase(c) = "insert") \/ (Deleted(c) /\ Phase(c) = "delete"),
         c \in closed' /\ Phase(c)' = "insert" => accid[c] \in spoiled',
         TypeOK', PoolInv', HandlersFit', ItemsFit', KnowsOwn(c)', SlotsFit(c)'
  PROVE  LobbyInv'
<1>1. TableFits'
  BY TableStep
<1>2. ActsAlone'
  BY DEF LobbyInv, ActsAlone
<1>3. ClosedCreatesSpoiled'
  BY DEF LobbyInv, ClosedCreatesSpoiled, OthersStay, Phase
<1>4. \A d \in Clients \ {c} : KnowsOwn(d)' /\ SlotsFit(d)'
  BY OthersKnowOwn, OthersSlotsFit
<1>5. NewNotConfirmed'
  BY DEF LobbyInv, NewNotConfirmed
<1> QED  BY <1>1, <1>2, <1>3, <1>4, <1>5 DEF LobbyInv

\* A client that is closed, and a client that is not and knows nothing, have nothing to show.
LEMMA ClosedFits ==
  ASSUME NEW c \in Clients, c \in closed'
  PROVE  KnowsOwn(c)' /\ SlotsFit(c)'
BY DEF KnowsOwn, SlotsFit

-----------------------------------------------------------------------------
(* The steps of a handler.                                                 *)

\* A step of the handler of c, which leaves it in r: what is left to show is about c alone.
LEMMA Stepped ==
  ASSUME LobbyInv, NEW c \in Clients, h[c].pc # "idle",
         NEW r \in Handlers, h' = [h EXCEPT ![c] = r], r.pc # "connect",
         PoolInv', \A d \in Clients \ {c} : lent'[d] = lent[d],
         lent'[c] # NoConnection <=> r.pc # "idle",
         UNCHANGED <<authority_map_, client_storage_, ended, state, accid, requests, grants, packets>>,
         closed' \in {closed, closed \cup {c}}, failures' \in 0 .. MaxFailures,
         slot_info_' \in [Clients -> [Slots -> Values]],
         \A d \in Clients \ {c} : slot_info_'[d] = slot_info_[d],
         \/ Unchanged
         \/ Inserted(c) /\ Phase(c) = "insert" /\ r.next # "insert"
         \/ Deleted(c) /\ Phase(c) = "delete",
         r.next = "insert" <=> r.pc = "insert",
         r.next = "insert" => h[c].next = "insert" /\ closed' = closed,
         spoiled \subseteq spoiled', spoiled' \subseteq Accounts,
         inventoryitems' \in [Cids -> 0 .. default_items],
         \/ inventoryitems' = inventoryitems
         \/ /\ h[c].pc = "items" /\ h[c].cid \in Cids
            /\ \A n \in Cids \ {h[c].cid} : inventoryitems'[n] = inventoryitems[n],
         r.pc \in {"cid", "items"} =>
            r.cid = Empty \/ r.cid = next_cid \/ (h[c].pc \in {"cid", "items"} /\ r.cid = h[c].cid),
         ItemFits(c)', KnowsOwn(c)', SlotsFit(c)'
  PROVE  LobbyInv'
<1>1. /\ h \in [Clients -> Handlers] /\ h' \in [Clients -> Handlers] /\ h'[c] = r
      /\ \A d \in Clients \ {c} : h'[d] = h[d]
  BY DEF LobbyInv, TypeOK
<1>2. OthersStay(c)
  BY <1>1 DEF OthersStay
<1>3. c \in client_storage_ /\ state[c] = "kConfirm" /\ accid[c] \in Accounts /\ Phase(c)' = r.pc
  BY <1>1 DEF LobbyInv, HandlersFit, Phase
<1>4. next_cid \in Nat /\ next_cid' \in {next_cid, next_cid + 1}
  BY DEF LobbyInv, TypeOK, Unchanged, Inserted, Deleted
<1>5. h[c].next = "insert" <=> Phase(c) = "insert"
  BY DEF LobbyInv, HandlersFit
<1>6. HandlersFit'
  <2>1. next_cid' \in Nat
    BY <1>4
  <2>2. \/ (r.next = "insert" <=> h[c].next = "insert") /\ next_cid' = next_cid
        \/ r.next # "insert" /\ h[c].next = "insert" /\ next_cid' \in {next_cid, next_cid + 1}
    BY <1>4, <1>5 DEF Unchanged, Deleted
  <2>3. state'[c] = "kConfirm" /\ accid'[c] \in Accounts /\ c \in client_storage_'
    BY <1>3
  <2> QED  BY <1>1, <1>2, <1>3, <2>1, <2>2, <2>3, HandlersStep
<1>7. ItemsFit'
  BY <1>1, <1>2, <1>4, ItemsStep
<1>8. TypeOK'
  <2>1. PoolTypeOK'
    BY DEF PoolInv, Conserved, PoolTypeOK
  <2>2. characters' \subseteq [cid : Cids, acc : Accounts, slot : Slots] /\ next_cid' \in 1 .. MaxCids + 1
    <3>1. CASE Unchanged \/ Deleted(c)
      BY <3>1 DEF LobbyInv, TypeOK, Unchanged, Deleted
    <3>2. CASE Inserted(c) /\ Phase(c) = "insert" /\ r.next # "insert"
      <4>1. IsFiniteSet(Inserting) /\ c \in Inserting
        BY <1>5, <3>2, LobbyAssumption, FS_Subset DEF Inserting
      <4>2. Cardinality(Inserting) \in Nat /\ Cardinality(Inserting) # 0
        BY <4>1, FS_CardinalityType, FS_EmptySet
      <4>3. next_cid \in Cids
        BY <1>4, <4>2, LobbyAssumption DEF LobbyInv, HandlersFit, Cids, TypeOK
      <4>4. h[c].slot \in Slots
        BY <3>2 DEF LobbyInv, ItemsFit
      <4>5. next_cid + 1 \in 1 .. MaxCids + 1
        BY <4>3, LobbyAssumption DEF Cids
      <4>6. characters \subseteq [cid : Cids, acc : Accounts, slot : Slots]
        BY DEF LobbyInv, TypeOK
      <4> QED  BY <1>3, <3>2, <4>3, <4>4, <4>5, <4>6 DEF Inserted
    <3> QED  BY <3>1, <3>2
  <2>3. \A d \in Clients : lent'[d] # NoConnection <=> ~At(d, "idle")' /\ ~At(d, "connect")'
    BY <1>6 DEF HandlersFit, At
  <2>4. closed' \subseteq Clients
    BY DEF LobbyInv, TypeOK
  <2>5. /\ authority_map_' \subseteq Accounts /\ client_storage_' \subseteq Clients /\ ended' \subseteq Clients
        /\ state' \in [Clients -> {"kNotConfirm", "kConfirm", "kReserveToMigrate"}]
        /\ accid' \in [Clients -> Accounts \cup {None}]
        /\ requests' \subseteq [client : Clients, acc : Accounts, cid : Cids \cup {0}]
        /\ grants' \in 0 .. MaxGrants /\ packets' \in 0 .. MaxPackets
    BY DEF LobbyInv, TypeOK
  <2> QED  BY <1>1, <2>1, <2>2, <2>3, <2>4, <2>5 DEF TypeOK, Values
<1>9. c \in closed' /\ Phase(c)' = "insert" => accid[c] \in spoiled'
  BY <1>3, <1>5 DEF LobbyInv, ClosedCreatesSpoiled
<1>10. Unchanged \/ (Inserted(c) /\ Phase(c) = "insert") \/ (Deleted(c) /\ Phase(c) = "delete")
  OBVIOUS
<1>11. UNCHANGED <<client_storage_, ended, state, accid>>
  OBVIOUS
<1> QED  BY <1>2, <1>3, <1>6, <1>7, <1>8, <1>9, <1>10, <1>11, StepParts

LEMMA IdleFits ==
  Idle \in Handlers /\ Idle.pc = "idle" /\ Idle.next = "idle"
BY LobbyAssumption DEF Idle, Handlers, Cids

\* Statements that fail.
LEMMA FailsType ==
  ASSUME LobbyInv, NEW c \in Clients, lent[c] # NoConnection, Fails(c)
  PROVE  broken' \subseteq 1 .. made /\ failures' \in 0 .. MaxFailures
<1>1. lent[c] \in 1 .. made /\ broken \subseteq 1 .. made
  <2>1. lent \in [Clients -> 0 .. made] /\ made \in Nat /\ broken \subseteq 1 .. made
    BY LobbyAssumption DEF LobbyInv, PoolInv, Conserved
  <2> QED  BY <2>1 DEF NoConnection
<1>2. failures \in 0 .. MaxFailures /\ MaxFailures \in Nat
  BY LobbyAssumption DEF LobbyInv, TypeOK
<1>3. CASE lent[c] \in broken
  BY <1>1, <1>2, <1>3 DEF Fails
<1>4. CASE lent[c] \notin broken
  <2>1. failures < MaxFailures /\ failures' = failures + 1 /\ broken' \in {broken, broken \cup {lent[c]}}
    BY <1>4 DEF Fails
  <2> QED  BY <1>1, <1>2, <2>1
<1> QED  BY <1>3, <1>4

\* A handler that ends by a throw leaves its client closed.
LEMMA Thrown ==
  ASSUME LobbyInv, NEW c \in Clients, h[c].pc \notin {"idle", "connect"}, Fails(c), Throw(c),
         UNCHANGED <<slot_info_, inventoryitems, requests, grants, packets>>,
         \/ Unchanged
         \/ Inserted(c) /\ Phase(c) = "insert"
         \/ Deleted(c) /\ Phase(c) = "delete",
         spoiled \subseteq spoiled', spoiled' \subseteq Accounts
  PROVE  LobbyInv'
<1>1. lent[c] # NoConnection
  BY DEF LobbyInv, HandlersFit
<1>2. broken' \subseteq 1 .. made /\ failures' \in 0 .. MaxFailures
  BY <1>1, FailsType
<1>3. PoolInv' /\ lent'[c] = NoConnection /\ \A d \in Clients \ {c} : lent'[d] = lent[d]
  BY <1>2, ReturnConserved, LobbyAssumption DEF LobbyInv, Throw, Finish
<1>4. /\ h' = [h EXCEPT ![c] = Idle] /\ closed' = closed \cup {c}
      /\ UNCHANGED <<authority_map_, client_storage_, ended, state, accid>>
  BY DEF Throw, Finish
<1>5. KnowsOwn(c)' /\ SlotsFit(c)'
  BY <1>4, ClosedFits
<1>6. h'[c] = Idle
  BY <1>4 DEF LobbyInv, TypeOK
<1>7. ItemFits(c)'
  BY <1>6, IdleFits DEF ItemFits, Phase
<1>8. slot_info_' \in [Clients -> [Slots -> Values]] /\ inventoryitems' \in [Cids -> 0 .. default_items]
  BY DEF LobbyInv, TypeOK, Values
<1> QED  BY <1>2, <1>3, <1>4, <1>5, <1>7, <1>8, IdleFits, Stepped

\* A handler that ends by itself.
LEMMA Finished ==
  ASSUME LobbyInv, NEW c \in Clients, h[c].pc \notin {"idle", "connect"}, Finish(c), Unchanged,
         UNCHANGED <<broken, clients, requests, counters, spoiled>>,
         slot_info_' \in [Clients -> [Slots -> Values]],
         \A d \in Clients \ {c} : slot_info_'[d] = slot_info_[d],
         inventoryitems' \in [Cids -> 0 .. default_items],
         \/ inventoryitems' = inventoryitems
         \/ /\ h[c].pc = "items" /\ h[c].cid \in Cids
            /\ \A n \in Cids \ {h[c].cid} : inventoryitems'[n] = inventoryitems[n],
         KnowsOwn(c)', SlotsFit(c)'
  PROVE  LobbyInv'
<1>1. /\ closed' = closed /\ failures' = failures
      /\ UNCHANGED <<authority_map_, client_storage_, ended, state, accid, requests, grants, packets>>
  BY DEF clients, counters
<1>2. broken' \subseteq 1 .. made /\ failures' \in 0 .. MaxFailures /\ spoiled' \subseteq Accounts
  BY <1>1 DEF LobbyInv, PoolInv, TypeOK
<1>3. PoolInv' /\ lent'[c] = NoConnection /\ \A d \in Clients \ {c} : lent'[d] = lent[d]
  BY <1>2, ReturnConserved, LobbyAssumption DEF LobbyInv, Finish
<1>4. h' = [h EXCEPT ![c] = Idle] /\ h'[c] = Idle
  BY DEF Finish, LobbyInv, TypeOK
<1>5. ItemFits(c)'
  BY <1>4, IdleFits DEF ItemFits, Phase
<1> QED  BY <1>1, <1>2, <1>3, <1>4, <1>5, IdleFits, Stepped

\* What a step that leaves the table alone preserves of one client.
LEMMA SameTable ==
  ASSUME Unchanged, NEW c \in Clients, accid'[c] = accid[c]
  PROVE  /\ \A n, a, s : Has(n, a, s)' <=> Has(n, a, s)
         /\ \A n : Owns(c, n)' <=> Owns(c, n)
         /\ \A a, f : Agree(a, f)' <=> Agree(a, f)
BY DEF Unchanged, Has, Owns, Agree

\* No character has the value of an empty slot or of a slot that was never filled.
LEMMA EmptyIsOwn ==
  ASSUME TypeOK, NEW c \in Clients
  PROVE  Owns(c, Empty) /\ \A a, s : ~Has(Empty, a, s)
<1>1. next_cid \in Nat /\ next_cid > 0 /\ Empty \notin Cids /\ Empty < next_cid
  BY DEF TypeOK, Empty, Cids
<1> QED  BY <1>1, HasType DEF Owns

LEMMA ConnectInv ==
  ASSUME LobbyInv, NEW c \in Clients, Connect(c)
  PROVE  LobbyInv'
<1>1. /\ h[c].pc = "connect" /\ h[c].next \in {"insert", "delete", "cids"} /\ Phase(c) = h[c].next
      /\ h \in [Clients -> Handlers] /\ lent[c] = NoConnection
      /\ (h[c].next = "insert") = (Phase(c) = "insert")
  BY DEF Connect, At, LobbyInv, HandlersFit, Phase, TypeOK
<1>2. /\ UNCHANGED <<slot_info_, characters, next_cid, inventoryitems, requests, grants, packets, spoiled>> /\ Unchanged
      /\ UNCHANGED <<authority_map_, client_storage_, ended, state, accid>>
  BY DEF Connect, table, Unchanged, clients
<1>3. /\ slot_info_' \in [Clients -> [Slots -> Values]] /\ inventoryitems' \in [Cids -> 0 .. default_items]
      /\ spoiled' \subseteq Accounts
  BY <1>2 DEF LobbyInv, TypeOK, Values
<1>4. CASE GetConnection(c) /\ Goto(c, h[c].next) /\ UNCHANGED <<clients, failures>>
  <2> DEFINE r == [h[c] EXCEPT !.pc = h[c].next]
  <2>1. /\ h' = [h EXCEPT ![c] = r] /\ h'[c] = r
    BY <1>1, <1>4 DEF Goto
  <2>2. r \in Handlers /\ r.pc = h[c].next /\ r.next = h[c].next /\ r.cid = h[c].cid /\ r.slot = h[c].slot
    BY <1>1 DEF Handlers
  <2> HIDE DEF r
  <2>3. PoolInv' /\ lent'[c] # NoConnection /\ \A d \in Clients \ {c} : lent'[d] = lent[d]
    BY <1>1, <1>4, GetConserved, LobbyAssumption DEF LobbyInv
  <2>4. closed' = closed /\ failures' \in 0 .. MaxFailures
    BY <1>4 DEF clients, LobbyInv, TypeOK
  <2>5. Phase(c)' = Phase(c) /\ r.pc \notin {"row", "cid", "items", "endless", "connect", "idle"}
    BY <1>1, <2>1, <2>2 DEF Phase
  <2>6. ItemFits(c)'
    BY <1>1, <1>2, <2>1, <2>2, <2>5 DEF ItemFits, LobbyInv, ItemsFit
  <2>7. KnowsOwn(c)'
    <3>1. KnowsOwn(c) /\ (\A n : Owns(c, n)' <=> Owns(c, n))
      BY <1>2, SameTable DEF LobbyInv
    <3> QED  BY <1>2, <2>1, <2>2, <2>4, <2>5, <3>1 DEF KnowsOwn
  <2>8. SlotsFit(c)'
    <3> SUFFICES ASSUME c \in client_storage_' \ closed', state'[c] = "kConfirm", accid'[c] \notin spoiled'
                 PROVE  SlotsFit(c)'
      BY DEF SlotsFit
    <3>1. SlotsFit(c) /\ (\A a, f : a = accid[c] => (Agree(a, f)' <=> Agree(a, f)))
      BY <1>2, SameTable DEF LobbyInv
    <3>2. Phase(c) \in {"insert", "delete", "cids"}
      BY <1>1
    <3>3. /\ h'[c].slot = h[c].slot /\ h'[c].cid = h[c].cid /\ Phase(c)' = Phase(c)
          /\ slot_info_'[c] = slot_info_[c] /\ accid'[c] = accid[c] /\ state'[c] = state[c]
          /\ spoiled' = spoiled /\ closed' = closed /\ client_storage_' = client_storage_
      BY <1>2, <2>1, <2>2, <2>4, <2>5
    <3>4. Phase(c)' \notin {"row", "cid", "forget", "idle", "items"}
      BY <3>2, <3>3
    <3>5. Phase(c) \in {"insert", "delete"} => Agree(accid[c], slot_info_[c])'
      BY <3>1, <3>3 DEF SlotsFit
    <3>6. /\ Phase(c) = "insert" => slot_info_[c][h[c].slot] = Empty
          /\ Phase(c) = "delete" /\ h[c].slot \in Slots => slot_info_[c][h[c].slot] = h[c].cid
      BY <3>1, <3>3 DEF SlotsFit
    <3> QED  BY <3>3, <3>4, <3>5, <3>6 DEF SlotsFit
  <2>9. /\ r.next = "insert" <=> r.pc = "insert"
        /\ r.next = "insert" => h[c].next = "insert" /\ closed' = closed
        /\ lent'[c] # NoConnection <=> r.pc # "idle"
        /\ h[c].pc # "idle" /\ r.pc \notin {"cid", "items", "connect"} /\ h' = [h EXCEPT ![c] = r] /\ r \in Handlers
    BY <1>1, <2>1, <2>2, <2>3, <2>4, <2>5
  <2>10. /\ spoiled \subseteq spoiled' /\ \A d \in Clients \ {c} : slot_info_'[d] = slot_info_[d]
         /\ UNCHANGED <<authority_map_, client_storage_, ended, state, accid, requests, grants, packets>>
         /\ inventoryitems' = inventoryitems /\ Unchanged
    BY <1>2
  <2> QED  BY <1>3, <2>3, <2>4, <2>6, <2>7, <2>8, <2>9, <2>10, Stepped
<1>5. CASE /\ failures < MaxFailures /\ failures' = failures + 1
           /\ GetConnectionFails
           /\ h' = [h EXCEPT ![c] = Idle]
           /\ closed' = closed \cup {c}
  <2>1. PoolInv' /\ lent' = lent
    BY <1>5, FailConserved DEF LobbyInv
  <2>2. h'[c] = Idle
    BY <1>1, <1>5
  <2>3. ItemFits(c)'
    BY <2>2, IdleFits DEF ItemFits, Phase
  <2>4. KnowsOwn(c)' /\ SlotsFit(c)'
    BY <1>5, ClosedFits
  <2>5. failures' \in 0 .. MaxFailures
    BY <1>5, LobbyAssumption DEF LobbyInv, TypeOK
  <2> QED  BY <1>1, <1>2, <1>3, <1>5, <2>1, <2>3, <2>4, <2>5, IdleFits, Stepped
<1> QED  BY <1>4, <1>5 DEF Connect

LEMMA InsertCharacterInv ==
  ASSUME LobbyInv, NEW c \in Clients, InsertCharacter(c)
  PROVE  LobbyInv'
<1>1. /\ h[c].pc = "insert" /\ h[c] \in Handlers /\ h \in [Clients -> Handlers] /\ Phase(c) = "insert"
      /\ h[c].next = "insert" /\ lent[c] # NoConnection /\ h[c].slot \in Slots
      /\ c \in client_storage_ /\ state[c] = "kConfirm" /\ accid[c] \in Accounts
  BY DEF InsertCharacter, At, LobbyInv, TypeOK, Phase, HandlersFit, ItemsFit
<1>2. UNCHANGED <<slot_info_, requests, grants, packets, spoiled>>
  BY DEF InsertCharacter
<1>3. CASE /\ Works(c) /\ InsertRow(c)
           /\ h' = [h EXCEPT ![c].pc = "cid", ![c].next = "idle", ![c].cid = next_cid]
           /\ UNCHANGED <<pool, clients, failures>>
  <2> DEFINE r == [h[c] EXCEPT !.pc = "cid", !.next = "idle", !.cid = next_cid]
  <2>1. Inserted(c) /\ inventoryitems' = inventoryitems
    BY <1>3 DEF Inserted, InsertRow
  <2>2. /\ next_cid \in Cids /\ inventoryitems[next_cid] = 0 /\ next_cid \in Nat
    <3>1. IsFiniteSet(Inserting) /\ c \in Inserting
      BY <1>1, LobbyAssumption, FS_Subset DEF Inserting
    <3>2. Cardinality(Inserting) \in Nat /\ Cardinality(Inserting) # 0
      BY <3>1, FS_CardinalityType, FS_EmptySet
    <3>3. next_cid \in Cids
      BY <3>2, LobbyAssumption DEF LobbyInv, HandlersFit, Cids, TypeOK
    <3> QED  BY <3>3 DEF LobbyInv, ItemsFit, Cids
  <2>3. h' = [h EXCEPT ![c] = r] /\ h'[c] = r
    BY <1>1, <1>3
  <2>4. r \in Handlers /\ r.pc = "cid" /\ r.next = "idle" /\ r.cid = next_cid /\ r.slot = h[c].slot
    BY <1>1, <2>2 DEF Handlers
  <2> HIDE DEF r
  <2>5. /\ closed' = closed /\ failures' \in 0 .. MaxFailures /\ lent' = lent /\ PoolInv'
        /\ UNCHANGED <<authority_map_, client_storage_, ended, state, accid>>
    BY <1>3 DEF clients, LobbyInv, TypeOK, pool, PoolInv, Conserved
  <2>6. Phase(c)' = "cid"
    BY <2>3, <2>4 DEF Phase
  <2>7. ItemFits(c)'
    <3>1. next_cid' = next_cid + 1
      BY <2>1 DEF Inserted
    <3> QED  BY <1>1, <2>1, <2>2, <2>3, <2>4, <2>6, <3>1 DEF ItemFits
  <2>8. KnowsOwn(c)'
    <3> SUFFICES ASSUME c \notin closed PROVE KnowsOwn(c)'
      BY <2>5 DEF KnowsOwn
    <3>1. \A s \in Slots : slot_info_[c][s] \in Values /\ Owns(c, slot_info_[c][s])
      BY <1>1 DEF LobbyInv, KnowsOwn, TypeOK, Values
    <3>2. \A s \in Slots : Owns(c, slot_info_[c][s])'
      BY <1>2, <2>1, <2>5, <3>1, OwnsKept DEF LobbyInv
    <3>4. ASSUME NEW n, n = next_cid PROVE Owns(c, n)'
      <4>1. \A a \in Accounts, s \in Slots : ~Has(n, a, s)
        BY <2>2, <3>4 DEF LobbyInv, TableFits
      <4>2. \A a \in Accounts, s \in Slots : Has(n, a, s)' => a = accid[c]
        BY <2>1, <4>1, InsertedHas
      <4>3. n < next_cid'
        BY <2>1, <2>2, <3>4 DEF Inserted
      <4> QED  BY <2>5, <4>2, <4>3 DEF Owns
    <3> QED  BY <1>2, <2>3, <2>4, <2>6, <3>2, <3>4 DEF KnowsOwn
  <2>9. SlotsFit(c)'
    <3> SUFFICES ASSUME c \notin closed, accid[c] \notin spoiled PROVE SlotsFit(c)'
      BY <1>2, <2>5 DEF SlotsFit
    <3> DEFINE f == slot_info_[c]
               x == h[c].slot
    <3>1. Agree(accid[c], f) /\ f[x] = Empty
      BY <1>1 DEF LobbyInv, SlotsFit
    <3>2. f \in [Slots -> Values] /\ next_cid # Empty
      BY <2>2 DEF LobbyInv, TypeOK, Values, Empty
    <3>3. ASSUME NEW a, a = accid[c], NEW g, g = [f EXCEPT ![x] = next_cid] PROVE Agree(a, g)'
      <4>1. \A s \in Slots : g[s] = IF s = x THEN next_cid ELSE f[s]
        BY <1>1, <3>2, <3>3
      <4>2. \A n, s : Has(n, a, s)' <=> Has(n, a, s) \/ (n = next_cid /\ s = x)
        BY <2>1, <3>3, InsertedHas
      <4>3. \A s \in Slots, n \in Values : Has(n, a, s) <=> f[s] = n /\ n # Empty
        BY <3>1, <3>3 DEF Agree
      <4> HIDE DEF f, x
      <4> QED  BY <3>1, <3>2, <4>1, <4>2, <4>3 DEF Agree
    <3> QED  BY <1>2, <2>3, <2>4, <2>5, <2>6, <3>1, <3>3 DEF SlotsFit
  <2>10. /\ slot_info_' \in [Clients -> [Slots -> Values]] /\ inventoryitems' \in [Cids -> 0 .. default_items]
         /\ spoiled' \subseteq Accounts
    BY <1>2, <2>1 DEF LobbyInv, TypeOK, Values
  <2>11. /\ \A d \in Clients \ {c} : slot_info_'[d] = slot_info_[d] /\ lent'[d] = lent[d]
         /\ UNCHANGED <<authority_map_, client_storage_, ended, state, accid, requests, grants, packets>>
         /\ spoiled \subseteq spoiled'
    BY <1>2, <2>5
  <2>12. /\ r.next = "insert" <=> r.pc = "insert"
         /\ r.next = "insert" => h[c].next = "insert" /\ closed' = closed
         /\ r.pc \in {"cid", "items"} =>
              r.cid = Empty \/ r.cid = next_cid \/ (h[c].pc \in {"cid", "items"} /\ r.cid = h[c].cid)
         /\ lent'[c] # NoConnection <=> r.pc # "idle"
    BY <1>1, <2>4, <2>5
  <2>13. /\ Inserted(c) /\ Phase(c) = "insert" /\ r.next # "insert"
         /\ h[c].pc # "idle" /\ r.pc # "connect" /\ r \in Handlers /\ h' = [h EXCEPT ![c] = r]
    BY <1>1, <2>1, <2>3, <2>4
  <2>14. closed' = closed /\ failures' \in 0 .. MaxFailures /\ PoolInv' /\ inventoryitems' = inventoryitems
    BY <2>1, <2>5
  <2> QED  BY <2>7, <2>8, <2>9, <2>10, <2>11, <2>12, <2>13, <2>14, Stepped
<1>4. CASE /\ Fails(c) /\ Throw(c)
           /\ (Works(c) /\ InsertRow(c)) \/ UNCHANGED table
  <2>1. (Unchanged \/ (Inserted(c) /\ Phase(c) = "insert")) /\ inventoryitems' = inventoryitems
    BY <1>1, <1>4 DEF Inserted, InsertRow, Unchanged, table
  <2>2. spoiled' \subseteq Accounts /\ spoiled \subseteq spoiled'
    BY <1>2 DEF LobbyInv, TypeOK
  <2> QED  BY <1>1, <1>2, <1>4, <2>1, <2>2, Thrown
<1> QED  BY <1>3, <1>4 DEF InsertCharacter

\* A handler goes on with the connection it has.
LEMMA Advanced ==
  ASSUME LobbyInv, NEW c \in Clients, h[c].pc \notin {"idle", "connect"},
         NEW r \in Handlers, h' = [h EXCEPT ![c] = r],
         r.pc \notin {"idle", "connect", "insert"}, r.next # "insert",
         UNCHANGED <<pool, clients, requests, grants, packets>>, failures' \in 0 .. MaxFailures,
         slot_info_' \in [Clients -> [Slots -> Values]],
         \A d \in Clients \ {c} : slot_info_'[d] = slot_info_[d],
         Unchanged \/ (Deleted(c) /\ Phase(c) = "delete"),
         spoiled \subseteq spoiled', spoiled' \subseteq Accounts,
         inventoryitems' \in [Cids -> 0 .. default_items],
         \/ inventoryitems' = inventoryitems
         \/ /\ h[c].pc = "items" /\ h[c].cid \in Cids
            /\ \A n \in Cids \ {h[c].cid} : inventoryitems'[n] = inventoryitems[n],
         r.pc \in {"cid", "items"} => r.cid = Empty \/ (h[c].pc \in {"cid", "items"} /\ r.cid = h[c].cid),
         ItemFits(c)', KnowsOwn(c)', SlotsFit(c)'
  PROVE  LobbyInv'
<1>1. /\ closed' = closed
      /\ UNCHANGED <<authority_map_, client_storage_, ended, state, accid, requests, grants, packets>>
  BY DEF clients
<1>2. PoolInv' /\ lent' = lent
  BY DEF LobbyInv, PoolInv, Conserved, pool
<1>3. lent'[c] # NoConnection <=> r.pc # "idle"
  BY <1>2 DEF LobbyInv, HandlersFit
<1>4. /\ r.next = "insert" <=> r.pc = "insert"
      /\ r.next = "insert" => h[c].next = "insert" /\ closed' = closed
      /\ r.pc \in {"cid", "items"} =>
           r.cid = Empty \/ r.cid = next_cid \/ (h[c].pc \in {"cid", "items"} /\ r.cid = h[c].cid)
      /\ h[c].pc # "idle" /\ r.pc # "connect"
  OBVIOUS
<1> QED  BY <1>1, <1>2, <1>3, <1>4, Stepped

LEMMA SelectCidInv ==
  ASSUME LobbyInv, NEW c \in Clients, SelectCid(c)
  PROVE  LobbyInv'
<1>1. /\ h[c].pc = "cid" /\ h[c] \in Handlers /\ h \in [Clients -> Handlers] /\ Phase(c) = "cid"
      /\ h[c].next # "insert" /\ lent[c] # NoConnection /\ h[c].slot \in Slots
      /\ c \in client_storage_ /\ state[c] = "kConfirm" /\ accid[c] \in Accounts
      /\ h[c].cid \in Cids /\ inventoryitems[h[c].cid] = 0 /\ h[c].cid < next_cid
  BY DEF SelectCid, At, LobbyInv, TypeOK, Phase, HandlersFit, ItemsFit
<1>2. UNCHANGED <<characters, next_cid, inventoryitems, requests, grants, packets>> /\ Unchanged
  BY DEF SelectCid, table, Unchanged
<1>3. /\ inventoryitems' \in [Cids -> 0 .. default_items] /\ slot_info_ \in [Clients -> [Slots -> Values]]
      /\ spoiled \subseteq Accounts /\ failures \in 0 .. MaxFailures
  BY <1>2 DEF LobbyInv, TypeOK, Values
<1>4. ASSUME NEW cid \in {h[c].cid, Empty}, Remember(c, cid), failures' \in 0 .. MaxFailures,
             \/ cid = h[c].cid /\ spoiled' = spoiled
             \/ cid = Empty /\ Spoil({accid[c]})
      PROVE  LobbyInv'
  <2> DEFINE r == [h[c] EXCEPT !.pc = "items", !.cid = cid, !.n = 0]
             x == h[c].slot
  <2>1. h' = [h EXCEPT ![c] = r] /\ h'[c] = r
    BY <1>1, <1>4 DEF Remember
  <2>2. cid \in Values /\ 0 \in 0 .. default_items - 1
    BY <1>1, LobbyAssumption DEF Values
  <2>3. r \in Handlers /\ r.pc = "items" /\ r.next = h[c].next /\ r.cid = cid /\ r.slot = x /\ r.n = 0
    BY <1>1, <2>2 DEF Handlers, Values
  <2> HIDE DEF r
  <2>4. /\ slot_info_' \in [Clients -> [Slots -> Values]]
        /\ \A d \in Clients \ {c} : slot_info_'[d] = slot_info_[d]
        /\ slot_info_'[c] = [slot_info_[c] EXCEPT ![x] = cid]
    BY <1>1, <1>3, <1>4, <2>2 DEF Remember
  <2>5. Phase(c)' = "items"
    BY <2>1, <2>3 DEF Phase
  <2>6. UNCHANGED <<pool, clients>> /\ closed' = closed /\ accid' = accid /\ client_storage_' = client_storage_
        /\ state' = state
    BY <1>4 DEF Remember, clients
  <2>7. cid < next_cid /\ next_cid' = next_cid
    <3>1. next_cid \in Nat /\ next_cid > 0
      BY DEF LobbyInv, TypeOK
    <3> QED  BY <1>1, <1>2, <3>1 DEF Empty
  <2>8. ItemFits(c)'
    BY <1>1, <1>2, <2>1, <2>3, <2>5, <2>7 DEF ItemFits
  <2>9. KnowsOwn(c)'
    <3> SUFFICES ASSUME c \notin closed PROVE KnowsOwn(c)'
      BY <2>6 DEF KnowsOwn
    <3>1. /\ \A s \in Slots : Owns(c, slot_info_[c][s])
          /\ Owns(c, h[c].cid) /\ Owns(c, Empty)
      BY <1>1, EmptyIsOwn DEF LobbyInv, KnowsOwn
    <3>2. Owns(c, cid) /\ \A s \in Slots : Owns(c, slot_info_'[c][s])
      <4>1. \A s \in Slots : slot_info_'[c][s] = IF s = x THEN cid ELSE slot_info_[c][s]
        BY <1>1, <1>3, <2>4
      <4> QED  BY <3>1, <4>1
    <3>3. \A n : Owns(c, n)' <=> Owns(c, n)
      BY <1>2, <2>6, SameTable
    <3> QED  BY <2>1, <2>3, <2>5, <3>2, <3>3 DEF KnowsOwn
  <2>10. SlotsFit(c)'
    <3> SUFFICES ASSUME c \notin closed, accid[c] \notin spoiled' PROVE SlotsFit(c)'
      BY <2>6 DEF SlotsFit
    <3>1. accid[c] \notin spoiled /\ cid = h[c].cid
      BY <1>4 DEF Spoil
    <3>2. Agree(accid[c], slot_info_'[c])
      BY <1>1, <2>4, <3>1 DEF LobbyInv, SlotsFit
    <3>3. \A a, f : Agree(a, f)' <=> Agree(a, f)
      BY <1>2, <2>6, SameTable
    <3> QED  BY <2>5, <2>6, <3>2, <3>3 DEF SlotsFit
  <2>11. spoiled \subseteq spoiled' /\ spoiled' \subseteq Accounts
    BY <1>1, <1>3, <1>4 DEF Spoil
  <2>12. r.cid = Empty \/ (h[c].pc \in {"cid", "items"} /\ r.cid = h[c].cid)
    BY <1>1, <2>3
  <2>13. r.pc \notin {"idle", "connect", "insert"} /\ r.next # "insert" /\ h[c].pc \notin {"idle", "connect"}
    BY <1>1, <2>3
  <2> QED  BY <1>2, <1>3, <1>4, <2>1, <2>3, <2>4, <2>6, <2>8, <2>9, <2>10, <2>11, <2>12, <2>13, Advanced
<1>5. CASE Works(c) /\ Row(h[c].cid) # {} /\ Remember(c, h[c].cid) /\ UNCHANGED <<failures, spoiled>>
  BY <1>3, <1>4, <1>5
<1>6. CASE /\ Works(c) /\ Row(h[c].cid) = {}
           /\ Finish(c) /\ UNCHANGED <<broken, clients, slot_info_, failures, spoiled>>
  <2>1. h'[c] = Idle /\ Phase(c)' = "idle"
    BY <1>1, <1>6, IdleFits DEF Finish, Phase
  <2>2. accid' = accid /\ closed' = closed /\ state' = state /\ client_storage_' = client_storage_
    BY <1>6 DEF clients
  <2>3. KnowsOwn(c)'
    <3>1. c \notin closed => \A s \in Slots : Owns(c, slot_info_[c][s])
      BY <1>1 DEF LobbyInv, KnowsOwn
    <3>2. \A n : Owns(c, n)' <=> Owns(c, n)
      BY <1>2, <2>2, SameTable
    <3> QED  BY <1>6, <2>1, <2>2, <3>1, <3>2, IdleFits DEF KnowsOwn
  <2>4. SlotsFit(c)'
    <3> SUFFICES ASSUME c \notin closed, accid[c] \notin spoiled PROVE SlotsFit(c)'
      BY <1>6, <2>2 DEF SlotsFit
    <3> DEFINE f == slot_info_[c]
               x == h[c].slot
               y == h[c].cid
    <3>1. f[x] = Empty /\ Agree(accid[c], [f EXCEPT ![x] = y])
      BY <1>1 DEF LobbyInv, SlotsFit
    <3>2. f \in [Slots -> Values] /\ x \in Slots /\ y \in Values
      BY <1>1, <1>3 DEF Values
    <3>3. ~Has(y, accid[c], x)
      BY <1>6 DEF Has, Row
    <3>4. FALSE
      <4>1. [f EXCEPT ![x] = y][x] = y /\ y # Empty
        BY <1>1, <3>2 DEF Cids, Empty
      <4> QED  BY <3>1, <3>2, <3>3, <4>1 DEF Agree
    <3> QED  BY <3>4
  <2>5. UNCHANGED <<broken, clients, requests, counters, spoiled>> /\ slot_info_' = slot_info_
    BY <1>2, <1>6 DEF counters
  <2> QED  BY <1>1, <1>2, <1>3, <1>6, <2>3, <2>4, <2>5, Finished
<1>7. CASE /\ Works(c) /\ failures < MaxFailures /\ failures' = failures + 1
           /\ Remember(c, Empty) /\ Spoil({accid[c]})
  <2>1. failures' \in 0 .. MaxFailures
    BY <1>3, <1>7, LobbyAssumption
  <2> QED  BY <1>4, <1>7, <2>1
<1>8. CASE Fails(c) /\ Throw(c) /\ UNCHANGED <<slot_info_, spoiled>>
  BY <1>1, <1>2, <1>3, <1>8, Thrown
<1> QED  BY <1>5, <1>6, <1>7, <1>8 DEF SelectCid

LEMMA InsertItemInv ==
  ASSUME LobbyInv, NEW c \in Clients, InsertItem(c)
  PROVE  LobbyInv'
<1> DEFINE y == h[c].cid
<1>1. /\ h[c].pc = "items" /\ h[c] \in Handlers /\ h \in [Clients -> Handlers] /\ Phase(c) = "items"
      /\ h[c].next # "insert" /\ h[c].slot \in Slots
      /\ y < next_cid /\ (y # Empty => y \in Cids /\ inventoryitems[y] = h[c].n)
      /\ h[c].n \in 0 .. default_items - 1
  BY DEF InsertItem, At, LobbyInv, TypeOK, Phase, HandlersFit, ItemsFit, Handlers
<1>2. UNCHANGED <<characters, next_cid, slot_info_, requests, grants, packets, spoiled>> /\ Unchanged
  BY DEF InsertItem, Unchanged
<1>3. /\ inventoryitems \in [Cids -> 0 .. default_items] /\ slot_info_' \in [Clients -> [Slots -> Values]]
      /\ spoiled' \subseteq Accounts /\ spoiled \subseteq spoiled' /\ failures \in 0 .. MaxFailures
      /\ \A d \in Clients \ {c} : slot_info_'[d] = slot_info_[d]
  BY <1>2 DEF LobbyInv, TypeOK, Values
<1>4. CASE /\ Works(c)
           /\ IF h[c].n + 1 = default_items
                THEN Finish(c) /\ UNCHANGED broken
                ELSE h' = [h EXCEPT ![c].n = @ + 1] /\ UNCHANGED pool
           /\ inventoryitems' = IF h[c].cid = Empty THEN inventoryitems
                                ELSE [inventoryitems EXCEPT ![h[c].cid] = @ + 1]
           /\ UNCHANGED <<clients, failures>>
  <2>1. accid' = accid /\ closed' = closed /\ state' = state /\ client_storage_' = client_storage_
    BY <1>4 DEF clients
  <2>2. /\ inventoryitems' \in [Cids -> 0 .. default_items]
        /\ y = Empty => inventoryitems' = inventoryitems
        /\ y # Empty => /\ y \in Cids /\ inventoryitems'[y] = h[c].n + 1
                        /\ \A n \in Cids \ {y} : inventoryitems'[n] = inventoryitems[n]
    BY <1>1, <1>3, <1>4, LobbyAssumption
  <2>3. /\ c \notin closed => Owns(c, y) /\ \A s \in Slots : Owns(c, slot_info_[c][s])
        /\ \A n : Owns(c, n)' <=> Owns(c, n)
    BY <1>1, <1>2, <2>1, SameTable DEF LobbyInv, KnowsOwn
  <2>4. /\ c \in client_storage_ \ closed /\ state[c] = "kConfirm" /\ accid[c] \notin spoiled
             => Agree(accid[c], slot_info_[c])
        /\ \A a, f : Agree(a, f)' <=> Agree(a, f)
    BY <1>1, <1>2, <2>1, SameTable DEF LobbyInv, SlotsFit
  <2>5. CASE h[c].n + 1 = default_items
    <3>1. Finish(c) /\ UNCHANGED <<broken, clients, requests, counters, spoiled>>
      BY <1>2, <1>4, <2>5 DEF counters
    <3>2. h'[c] = Idle /\ Phase(c)' = "idle"
      BY <1>1, <3>1, IdleFits DEF Finish, Phase
    <3>3. KnowsOwn(c)'
      BY <1>2, <2>1, <2>3, <3>2, IdleFits DEF KnowsOwn
    <3>4. SlotsFit(c)'
      BY <1>2, <2>1, <2>4, <3>2 DEF SlotsFit
    <3>5. inventoryitems' = inventoryitems
          \/ (h[c].pc = "items" /\ y \in Cids /\ \A n \in Cids \ {y} : inventoryitems'[n] = inventoryitems[n])
      BY <1>1, <2>2
    <3> QED  BY <1>1, <1>2, <1>3, <2>2, <3>1, <3>3, <3>4, <3>5, Finished
  <2>6. CASE h[c].n + 1 # default_items
    <3> DEFINE r == [h[c] EXCEPT !.n = @ + 1]
    <3>1. h' = [h EXCEPT ![c] = r] /\ h'[c] = r
      BY <1>1, <1>4, <2>6
    <3>2. h[c].n + 1 \in 0 .. default_items - 1
      BY <1>1, <2>6, LobbyAssumption
    <3>3. r \in Handlers /\ r.pc = "items" /\ r.next = h[c].next /\ r.cid = y /\ r.slot = h[c].slot /\ r.n = h[c].n + 1
      BY <1>1, <3>2 DEF Handlers
    <3> HIDE DEF r
    <3>4. Phase(c)' = "items"
      BY <3>1, <3>3 DEF Phase
    <3>5. ItemFits(c)'
      BY <1>1, <1>2, <2>2, <3>1, <3>3, <3>4 DEF ItemFits
    <3>6. KnowsOwn(c)'
      BY <1>2, <2>1, <2>3, <3>1, <3>3, <3>4 DEF KnowsOwn
    <3>7. SlotsFit(c)'
      BY <1>2, <2>1, <2>4, <3>4 DEF SlotsFit
    <3>8. inventoryitems' = inventoryitems
          \/ (h[c].pc = "items" /\ y \in Cids /\ \A n \in Cids \ {y} : inventoryitems'[n] = inventoryitems[n])
      BY <1>1, <2>2
    <3>9. UNCHANGED <<pool, clients, requests, grants, packets>> /\ failures' \in 0 .. MaxFailures
      BY <1>2, <1>3, <1>4, <2>6
    <3>10. /\ r.pc \notin {"idle", "connect", "insert"} /\ r.next # "insert" /\ h[c].pc \notin {"idle", "connect"}
           /\ r.cid = Empty \/ (h[c].pc \in {"cid", "items"} /\ r.cid = h[c].cid)
      BY <1>1, <3>3
    <3> QED  BY <1>2, <1>3, <2>2, <3>1, <3>3, <3>5, <3>6, <3>7, <3>8, <3>9, <3>10, Advanced
  <2> QED  BY <2>5, <2>6
<1>5. CASE Fails(c) /\ Throw(c) /\ UNCHANGED inventoryitems
  BY <1>1, <1>2, <1>3, <1>5, Thrown
<1> QED  BY <1>4, <1>5 DEF InsertItem

\* A character is deleted by its own client, or its account is spoiled.
LEMMA DeleteCharacterInv ==
  ASSUME LobbyInv, NEW c \in Clients, DeleteCharacter(c)
  PROVE  LobbyInv'
<1> DEFINE f == slot_info_[c]
           x == h[c].slot
           y == h[c].cid
<1>1. /\ h[c].pc = "delete" /\ h[c] \in Handlers /\ h \in [Clients -> Handlers] /\ Phase(c) = "delete"
      /\ h[c].next # "insert" /\ x \in 0 .. slot_size /\ y \in Values
      /\ c \in client_storage_ /\ state[c] = "kConfirm" /\ accid[c] \in Accounts
  <2>1. h[c].pc = "delete" /\ h[c] \in Handlers /\ h \in [Clients -> Handlers] /\ Phase(c) = "delete"
    BY DEF DeleteCharacter, At, LobbyInv, TypeOK, Phase
  <2>2. x \in 0 .. slot_size /\ y \in Values
    BY <2>1 DEF Handlers, Values
  <2> QED  BY <2>1, <2>2 DEF LobbyInv, HandlersFit
<1>2. UNCHANGED <<next_cid, inventoryitems, slot_info_, requests, grants, packets>>
  BY DEF DeleteCharacter
<1>3. /\ inventoryitems' \in [Cids -> 0 .. default_items] /\ slot_info_' \in [Clients -> [Slots -> Values]]
      /\ failures \in 0 .. MaxFailures /\ f \in [Slots -> Values] /\ spoiled \subseteq Accounts
      /\ \A d \in Clients \ {c} : slot_info_'[d] = slot_info_[d]
  BY <1>2 DEF LobbyInv, TypeOK, Values
<1>4. ASSUME DeleteRow(c)
      PROVE  Deleted(c) /\ spoiled \subseteq spoiled' /\ spoiled' \subseteq Accounts
  <2>1. Row(y) \subseteq [cid : Cids, acc : Accounts, slot : Slots]
    BY DEF Row, LobbyInv, TypeOK
  <2>2. {r.acc : r \in Row(y)} \subseteq Accounts
    BY <2>1
  <2> QED  BY <1>2, <1>3, <1>4, <2>2 DEF DeleteRow, Deleted, Spoil
<1>5. CASE Works(c) /\ DeleteRow(c) /\ Goto(c, "forget") /\ UNCHANGED <<pool, clients, failures>>
  <2> DEFINE r == [h[c] EXCEPT !.pc = "forget"]
  <2>1. h' = [h EXCEPT ![c] = r] /\ h'[c] = r
    BY <1>1, <1>5 DEF Goto
  <2>2. r \in Handlers /\ r.pc = "forget" /\ r.next = h[c].next /\ r.cid = y /\ r.slot = x
    BY <1>1 DEF Handlers
  <2> HIDE DEF r
  <2>3. Phase(c)' = "forget"
    BY <2>1, <2>2 DEF Phase
  <2>4. accid' = accid /\ closed' = closed /\ state' = state /\ client_storage_' = client_storage_
    BY <1>5 DEF clients
  <2>5. Deleted(c) /\ spoiled \subseteq spoiled' /\ spoiled' \subseteq Accounts
    BY <1>4, <1>5
  <2>6. KnowsOwn(c)'
    <3>1. c \notin closed => \A s \in Slots : f[s] \in Values /\ Owns(c, f[s])
      BY <1>1, <1>3 DEF LobbyInv, KnowsOwn
    <3>2. c \notin closed => \A s \in Slots : Owns(c, f[s])'
      <4>1. TypeOK
        BY DEF LobbyInv
      <4>2. \A n \in Values : Owns(c, n) => Owns(c, n)'
        BY <2>4, <2>5, <4>1, OwnsKept
      <4>3. c \notin closed => \A s \in Slots : Owns(c, slot_info_[c][s])'
        BY <1>2, <3>1, <4>2
      <4> QED  BY <1>2, <4>3
    <3> QED  BY <1>2, <2>1, <2>2, <2>3, <2>4, <3>2 DEF KnowsOwn
  <2>7. SlotsFit(c)'
    <3> SUFFICES ASSUME c \notin closed, accid[c] \notin spoiled' PROVE SlotsFit(c)'
      BY <2>4 DEF SlotsFit
    <3>1. Agree(accid[c], f) /\ (x \in Slots => f[x] = y)
      BY <1>1, <2>5 DEF LobbyInv, SlotsFit
    <3>2. ASSUME NEW a, a = accid[c], NEW g, g = [s \in Slots |-> IF s = x THEN Empty ELSE f[s]]
          PROVE  Agree(a, g)'
      <4>1. ASSUME NEW s \in Slots, NEW n \in Values
            PROVE  Has(n, a, s)' <=> g[s] = n /\ n # Empty
        <5>1. Has(n, a, s) <=> f[s] = n /\ n # Empty
          BY <3>1, <3>2 DEF Agree
        <5>2. Has(n, a, s)' <=> Has(n, a, s) /\ n # y
          BY <2>5, DeletedHas
        <5>3. g[s] = IF s = x THEN Empty ELSE f[s]
          BY <3>2
        <5>4. CASE x \in Slots
          <6>1. s # x /\ n = y => ~Has(n, a, s)
            <7>1. SUFFICES ASSUME n = y, Has(n, a, s), s # x PROVE FALSE
              OBVIOUS
            <7>2. Has(n, a, x)
              BY <3>1, <3>2, <5>1, <5>4, <7>1 DEF Agree
            <7>3. n \in Cids
              BY <7>1, HasType DEF LobbyInv
            <7> QED  BY <1>1, <3>2, <5>4, <7>1, <7>2, <7>3 DEF LobbyInv, TableFits
          <6>2. f[x] = y
            BY <3>1, <5>4
          <6> QED  BY <5>1, <5>2, <5>3, <6>1, <6>2
        <5>5. CASE x \notin Slots
          <6>1. x = slot_size
            BY <1>1, <5>5, LobbyAssumption DEF Slots
          <6>2. {r_.acc : r_ \in Row(y)} \subseteq spoiled'
            BY <2>5, <6>1 DEF Deleted
          <6>3. n = y /\ Has(n, a, s) => a \in spoiled'
            <7>1. n = y /\ Has(n, a, s) => [cid |-> n, acc |-> a, slot |-> s] \in Row(y)
              BY DEF Has, Row
            <7> QED  BY <6>2, <7>1
          <6> QED  BY <3>2, <5>1, <5>2, <5>3, <5>5, <6>3
        <5> QED  BY <5>4, <5>5
      <4> QED  BY <4>1 DEF Agree
    <3> QED  BY <1>2, <2>1, <2>2, <2>3, <2>4, <3>2 DEF SlotsFit
  <2>8. ItemFits(c)'
    BY <2>1, <2>2, <2>3 DEF ItemFits
  <2>9. UNCHANGED <<pool, clients, requests, grants, packets>> /\ failures' \in 0 .. MaxFailures
    BY <1>2, <1>3, <1>5
  <2>10. /\ r.pc \notin {"idle", "connect", "insert", "cid", "items"} /\ r.next # "insert"
         /\ h[c].pc \notin {"idle", "connect"}
    BY <1>1, <2>2
  <2> QED  BY <1>1, <1>2, <1>3, <2>1, <2>2, <2>5, <2>6, <2>7, <2>8, <2>9, <2>10, Advanced
<1>6. CASE /\ Fails(c) /\ Throw(c)
           /\ (Works(c) /\ DeleteRow(c)) \/ UNCHANGED <<characters, spoiled>>
  <2>1. CASE Works(c) /\ DeleteRow(c)
    BY <1>1, <1>2, <1>4, <1>6, <2>1, Thrown
  <2>2. CASE UNCHANGED <<characters, spoiled>>
    <3>1. Unchanged /\ spoiled \subseteq spoiled' /\ spoiled' \subseteq Accounts
      BY <1>2, <1>3, <2>2 DEF Unchanged
    <3> QED  BY <1>1, <1>2, <1>6, <3>1, Thrown
  <2> QED  BY <1>6, <2>1, <2>2
<1> QED  BY <1>5, <1>6 DEF DeleteCharacter

LEMMA ForgetInv ==
  ASSUME LobbyInv, NEW c \in Clients, Forget(c)
  PROVE  LobbyInv'
<1> DEFINE f == slot_info_[c]
           x == h[c].slot
           g == [s \in Slots |-> IF s = x THEN Empty ELSE f[s]]
<1>1. /\ h[c].pc = "forget" /\ h \in [Clients -> Handlers] /\ Phase(c) = "forget"
      /\ c \in client_storage_ /\ state[c] = "kConfirm" /\ accid[c] \in Accounts
  BY DEF Forget, At, LobbyInv, TypeOK, Phase, HandlersFit
<1>2. /\ UNCHANGED <<characters, next_cid, inventoryitems, requests, spoiled>> /\ Unchanged
      /\ UNCHANGED <<broken, clients, requests, counters, spoiled>> /\ Finish(c)
  BY DEF Forget, table, Unchanged
<1>3. /\ inventoryitems' \in [Cids -> 0 .. default_items] /\ slot_info_ \in [Clients -> [Slots -> Values]]
  BY <1>2 DEF LobbyInv, TypeOK, Values
<1>4. /\ slot_info_' \in [Clients -> [Slots -> Values]]
      /\ \A d \in Clients \ {c} : slot_info_'[d] = slot_info_[d]
      /\ slot_info_'[c] = g
  <2>1. CASE x \in Slots
    <3>1. slot_info_' = [slot_info_ EXCEPT ![c][x] = Empty] /\ Empty \in Values
      BY <2>1 DEF Forget, Values
    <3> QED  BY <1>3, <2>1, <3>1
  <2>2. CASE x \notin Slots
    <3>1. slot_info_' = slot_info_
      BY <2>2 DEF Forget
    <3> QED  BY <1>3, <2>2, <3>1
  <2> QED  BY <2>1, <2>2
<1>5. accid' = accid /\ closed' = closed /\ state' = state /\ client_storage_' = client_storage_ /\ spoiled' = spoiled
  BY <1>2 DEF clients
<1>6. h'[c] = Idle /\ Phase(c)' = "idle"
  BY <1>1, <1>2, IdleFits DEF Finish, Phase
<1>7. KnowsOwn(c)'
  <2>1. c \notin closed => Owns(c, Empty) /\ \A s \in Slots : Owns(c, f[s])
    BY <1>1, EmptyIsOwn DEF LobbyInv, KnowsOwn
  <2>2. \A n : Owns(c, n)' <=> Owns(c, n)
    BY <1>2, <1>5, SameTable
  <2>3. c \notin closed => \A s \in Slots : Owns(c, slot_info_'[c][s])
    BY <1>4, <2>1
  <2> QED  BY <1>5, <1>6, <2>2, <2>3, IdleFits DEF KnowsOwn
<1>8. SlotsFit(c)'
  <2>1. c \notin closed /\ accid[c] \notin spoiled => Agree(accid[c], slot_info_'[c])
    BY <1>1, <1>4 DEF LobbyInv, SlotsFit
  <2>2. \A a, k : Agree(a, k)' <=> Agree(a, k)
    BY <1>2, <1>5, SameTable
  <2> QED  BY <1>5, <1>6, <2>1, <2>2 DEF SlotsFit
<1> HIDE DEF f, x, g
<1> QED  BY <1>1, <1>2, <1>3, <1>4, <1>7, <1>8, Finished

\* The list that is published is the account's.
LEMMA PublishInv ==
  ASSUME LobbyInv, NEW c \in Clients, Publish(c)
  PROVE  LobbyInv'
<1> DEFINE g == h[c].slot_cid
<1>1. /\ h[c].pc = "row" /\ h \in [Clients -> Handlers] /\ Phase(c) = "row" /\ h[c].todo = {}
      /\ c \in client_storage_ /\ state[c] = "kConfirm" /\ accid[c] \in Accounts
      /\ g \in [Slots -> Cids \cup {Empty}]
  BY DEF Publish, At, LobbyInv, TypeOK, Phase, HandlersFit, ItemsFit
<1>2. /\ UNCHANGED <<characters, next_cid, inventoryitems, requests, spoiled>> /\ Unchanged
      /\ UNCHANGED <<broken, clients, requests, counters, spoiled>> /\ Finish(c)
      /\ slot_info_' = [slot_info_ EXCEPT ![c] = g]
  BY DEF Publish, table, Unchanged
<1>3. /\ inventoryitems' \in [Cids -> 0 .. default_items] /\ slot_info_ \in [Clients -> [Slots -> Values]]
  BY <1>2 DEF LobbyInv, TypeOK, Values
<1>4. /\ slot_info_' \in [Clients -> [Slots -> Values]]
      /\ \A d \in Clients \ {c} : slot_info_'[d] = slot_info_[d]
      /\ slot_info_'[c] = g
  <2>1. g \in [Slots -> Values]
    BY <1>1 DEF Values
  <2> QED  BY <1>2, <1>3, <2>1
<1>5. accid' = accid /\ closed' = closed /\ state' = state /\ client_storage_' = client_storage_ /\ spoiled' = spoiled
  BY <1>2 DEF clients
<1>6. h'[c] = Idle /\ Phase(c)' = "idle"
  BY <1>1, <1>2, IdleFits DEF Finish, Phase
<1>7. KnowsOwn(c)'
  <2>1. c \notin closed => \A s \in Slots : Owns(c, slot_info_'[c][s])
    BY <1>1, <1>4 DEF LobbyInv, KnowsOwn
  <2>2. \A n : Owns(c, n)' <=> Owns(c, n)
    BY <1>2, <1>5, SameTable
  <2> QED  BY <1>5, <1>6, <2>1, <2>2, IdleFits DEF KnowsOwn
<1>8. SlotsFit(c)'
  <2>1. ASSUME c \notin closed, accid[c] \notin spoiled, NEW a, a = accid[c] PROVE Agree(a, g)
    <3>1. /\ \A n \in Cids, s \in Slots : Has(n, a, s) => g[s] = n
          /\ \A s \in Slots : g[s] # Empty => Has(g[s], a, s)
      BY <1>1, <2>1 DEF LobbyInv, SlotsFit
    <3>2. \A n, s : Has(n, a, s) => n \in Cids /\ n # Empty
      BY HasType DEF LobbyInv, Cids, Empty
    <3> QED  BY <3>1, <3>2 DEF Agree
  <2>2. \A a, k : Agree(a, k)' <=> Agree(a, k)
    BY <1>2, <1>5, SameTable
  <2> QED  BY <1>4, <1>5, <1>6, <2>1, <2>2 DEF SlotsFit
<1> HIDE DEF g
<1> QED  BY <1>1, <1>2, <1>3, <1>4, <1>7, <1>8, Finished

\* A handler that never ends keeps its connection and changes nothing.
LEMMA EndlessInv ==
  ASSUME LobbyInv, NEW c \in Clients, h[c].pc \notin {"idle", "connect"}, h[c].next # "insert",
         Goto(c, "endless"), failures < MaxFailures, failures' = failures + 1,
         UNCHANGED <<pool, clients, slot_info_, table, requests, grants, packets, spoiled>>
  PROVE  LobbyInv'
<1> DEFINE r == [h[c] EXCEPT !.pc = "endless"]
<1>1. h[c] \in Handlers /\ h \in [Clients -> Handlers]
  BY DEF LobbyInv, TypeOK
<1>2. h' = [h EXCEPT ![c] = r] /\ h'[c] = r
  BY <1>1 DEF Goto
<1>3. r \in Handlers /\ r.pc = "endless" /\ r.next = h[c].next
  BY <1>1 DEF Handlers
<1> HIDE DEF r
<1>4. Phase(c)' = "endless"
  BY <1>2, <1>3 DEF Phase
<1>5. /\ inventoryitems' \in [Cids -> 0 .. default_items] /\ slot_info_' \in [Clients -> [Slots -> Values]]
      /\ spoiled' \subseteq Accounts /\ spoiled \subseteq spoiled' /\ failures' \in 0 .. MaxFailures
      /\ inventoryitems' = inventoryitems /\ \A d \in Clients \ {c} : slot_info_'[d] = slot_info_[d]
      /\ Unchanged
  BY LobbyAssumption DEF LobbyInv, TypeOK, Values, table, Unchanged
<1>6. ItemFits(c)' /\ KnowsOwn(c)' /\ SlotsFit(c)'
  BY <1>2, <1>3, <1>4 DEF ItemFits, KnowsOwn, SlotsFit
<1>7. /\ r.pc \notin {"idle", "connect", "insert", "cid", "items"} /\ r.next # "insert"
      /\ UNCHANGED <<pool, clients, requests, grants, packets>>
  BY <1>3
<1> QED  BY <1>2, <1>3, <1>5, <1>6, <1>7, Advanced

\* The characters of the account are those whose rows are read.
LEMMA SelectCidsInv ==
  ASSUME LobbyInv, NEW c \in Clients, SelectCids(c)
  PROVE  LobbyInv'
<1>1. /\ h[c].pc = "cids" /\ h[c] \in Handlers /\ h \in [Clients -> Handlers] /\ Phase(c) = "cids"
      /\ h[c].next # "insert" /\ c \in client_storage_ /\ state[c] = "kConfirm" /\ accid[c] \in Accounts
  BY DEF SelectCids, At, LobbyInv, TypeOK, Phase, HandlersFit
<1>2. UNCHANGED <<characters, next_cid, inventoryitems, slot_info_, requests, grants, packets, spoiled>> /\ Unchanged
  BY DEF SelectCids, table, Unchanged
<1>3. /\ inventoryitems' \in [Cids -> 0 .. default_items] /\ slot_info_' \in [Clients -> [Slots -> Values]]
      /\ spoiled' \subseteq Accounts /\ spoiled \subseteq spoiled' /\ failures \in 0 .. MaxFailures
      /\ \A d \in Clients \ {c} : slot_info_'[d] = slot_info_[d]
  BY <1>2 DEF LobbyInv, TypeOK, Values
<1>4. CASE /\ Works(c)
           /\ h' = [h EXCEPT ![c].pc = "row", ![c].todo = {r.cid : r \in Of(accid[c])},
                             ![c].slot_cid = [s \in Slots |-> Empty]]
           /\ UNCHANGED <<pool, clients, failures>>
  <2> DEFINE todo == {r.cid : r \in Of(accid[c])}
             none == [s \in Slots |-> Empty]
             r == [h[c] EXCEPT !.pc = "row", !.todo = todo, !.slot_cid = none]
  <2>1. h' = [h EXCEPT ![c] = r] /\ h'[c] = r
    BY <1>1, <1>4
  <2>2. \A n : n \in todo <=> \E s \in Slots : Has(n, accid[c], s)
    <3>1. \A row \in Of(accid[c]) : row = [cid |-> row.cid, acc |-> accid[c], slot |-> row.slot]
                                 /\ row \in characters /\ row.slot \in Slots
      BY DEF Of, LobbyInv, TypeOK
    <3>2. \A n, s : Has(n, accid[c], s) => [cid |-> n, acc |-> accid[c], slot |-> s] \in Of(accid[c])
      BY DEF Of, Has
    <3>3. ASSUME NEW n, n \in todo PROVE \E s \in Slots : Has(n, accid[c], s)
      <4>1. PICK row \in Of(accid[c]) : row.cid = n
        BY <3>3
      <4> QED  BY <3>1, <4>1 DEF Has
    <3>4. ASSUME NEW n, NEW s \in Slots, Has(n, accid[c], s) PROVE n \in todo
      <4>1. [cid |-> n, acc |-> accid[c], slot |-> s].cid = n
        OBVIOUS
      <4> QED  BY <3>2, <3>4, <4>1
    <3> QED  BY <3>3, <3>4
  <2>3. todo \subseteq Cids
    BY <2>2, HasType DEF LobbyInv
  <2>4. none \in [Slots -> Cids \cup {Empty}] /\ \A s \in Slots : none[s] = Empty
    OBVIOUS
  <2> HIDE DEF todo, none
  <2>5. r \in Handlers /\ r.pc = "row" /\ r.next = h[c].next /\ r.todo = todo /\ r.slot_cid = none
    BY <1>1, <2>3, <2>4 DEF Handlers
  <2> HIDE DEF r
  <2>6. Phase(c)' = "row"
    BY <2>1, <2>5 DEF Phase
  <2>7. accid' = accid /\ closed' = closed /\ state' = state /\ client_storage_' = client_storage_
    BY <1>4 DEF clients
  <2>8. KnowsOwn(c)'
    <3>1. ASSUME NEW n \in todo PROVE Owns(c, n)
      <4>1. PICK s \in Slots : Has(n, accid[c], s)
        BY <2>2
      <4> QED  BY <1>1, <2>3, <4>1 DEF Owns, LobbyInv, TableFits
    <3>2. \A s \in Slots : Owns(c, none[s])
      BY <2>4, EmptyIsOwn DEF LobbyInv
    <3>3. \A n : Owns(c, n)' <=> Owns(c, n)
      BY <1>2, <2>7, SameTable
    <3> QED  BY <2>1, <2>5, <2>6, <3>1, <3>2, <3>3 DEF KnowsOwn
  <2>9. SlotsFit(c)'
    <3>1. \A n, a, s : Has(n, a, s)' <=> Has(n, a, s)
      BY <1>2, <2>7, SameTable
    <3>2. /\ \A n \in Cids, s \in Slots : Has(n, accid[c], s)' => n \in todo
          /\ \A n \in todo : \E s \in Slots : Has(n, accid[c], s)'
      BY <2>2, <2>7, <3>1
    <3> QED  BY <2>1, <2>4, <2>5, <2>6, <2>7, <3>2 DEF SlotsFit
  <2>10. ItemFits(c)'
    BY <2>1, <2>4, <2>5, <2>6 DEF ItemFits
  <2>11. /\ UNCHANGED <<pool, clients, requests, grants, packets>> /\ failures' \in 0 .. MaxFailures
         /\ inventoryitems' = inventoryitems
    BY <1>2, <1>3, <1>4
  <2>12. /\ r.pc \notin {"idle", "connect", "insert", "cid", "items"} /\ r.next # "insert"
         /\ h[c].pc \notin {"idle", "connect"}
    BY <1>1, <2>5
  <2> QED  BY <1>2, <1>3, <2>1, <2>5, <2>8, <2>9, <2>10, <2>11, <2>12, Advanced
<1>5. CASE /\ Works(c) /\ failures < MaxFailures /\ failures' = failures + 1
           /\ Goto(c, "endless") /\ UNCHANGED <<pool, clients>>
  BY <1>1, <1>2, <1>5, EndlessInv DEF table
<1>6. CASE Fails(c) /\ Throw(c)
  BY <1>1, <1>2, <1>3, <1>6, Thrown
<1> QED  BY <1>4, <1>5, <1>6 DEF SelectCids

\* The rows are read one after the other, the one with the least id first.
LEMMA LeastCid ==
  ASSUME NEW T \in SUBSET Cids, T # {}
  PROVE  (CHOOSE i \in T : \A j \in T : i <= j) \in T
<1> DEFINE R == OpToRel(<, Nat)
<1>1. T \subseteq Nat
  BY DEF Cids
<1>2. PICK x \in T : \A j \in T : ~(<<j, x>> \in R)
  <2>1. IsWellFoundedOn(R, Nat)
    BY NatLessThanWellFounded
  <2> HIDE DEF R
  <2> QED  BY <1>1, <2>1, WFMin
<1>3. ASSUME NEW j \in T PROVE x <= j
  <2>1. ~(<<j, x>> \in R)
    BY <1>2
  <2>2. ~(j < x)
    BY <1>1, <2>1 DEF OpToRel
  <2> QED  BY <1>1, <2>2
<1> HIDE DEF R
<1> QED  BY <1>3

LEMMA SelectCharacterInv ==
  ASSUME LobbyInv, NEW c \in Clients, SelectCharacter(c)
  PROVE  LobbyInv'
<1> DEFINE y == CHOOSE i \in h[c].todo : \A j \in h[c].todo : i <= j
           rest == h[c].todo \ {y}
           g == h[c].slot_cid
           k == [s \in Slots |-> IF \E r \in Row(y) : r.slot = s THEN y ELSE g[s]]
<1>1. /\ h[c].pc = "row" /\ h[c] \in Handlers /\ h \in [Clients -> Handlers] /\ Phase(c) = "row"
      /\ h[c].next # "insert" /\ c \in client_storage_ /\ state[c] = "kConfirm" /\ accid[c] \in Accounts
      /\ h[c].todo \subseteq Cids /\ g \in [Slots -> Cids \cup {Empty}]
  BY DEF SelectCharacter, At, LobbyInv, TypeOK, Phase, HandlersFit, Handlers, ItemsFit
<1>2. y \in h[c].todo
  BY <1>1, LeastCid DEF SelectCharacter
<1>3. UNCHANGED <<slot_info_, characters, next_cid, inventoryitems, requests, grants, packets>> /\ Unchanged
  BY DEF SelectCharacter, table, Unchanged
<1>4. /\ inventoryitems' \in [Cids -> 0 .. default_items] /\ slot_info_' \in [Clients -> [Slots -> Values]]
      /\ spoiled \subseteq Accounts /\ failures \in 0 .. MaxFailures
      /\ \A d \in Clients \ {c} : slot_info_'[d] = slot_info_[d]
  BY <1>3 DEF LobbyInv, TypeOK, Values
<1> HIDE DEF y
<1>5. \A n, s : Has(n, accid[c], s) => [cid |-> n, acc |-> accid[c], slot |-> s] \in Row(n)
  BY DEF Has, Row
<1>6. \A s \in Slots : (\E r \in Row(y) : r.slot = s) <=> \E a \in Accounts : Has(y, a, s)
  <2>1. \A r \in Row(y) : r = [cid |-> y, acc |-> r.acc, slot |-> r.slot] /\ r \in characters /\ r.acc \in Accounts
    BY DEF Row, LobbyInv, TypeOK
  <2>2. ASSUME NEW s \in Slots, NEW r \in Row(y), r.slot = s PROVE \E a \in Accounts : Has(y, a, s)
    BY <2>1, <2>2 DEF Has
  <2>3. ASSUME NEW s \in Slots, NEW a \in Accounts, Has(y, a, s) PROVE \E r \in Row(y) : r.slot = s
    <3>1. [cid |-> y, acc |-> a, slot |-> s] \in Row(y) /\ [cid |-> y, acc |-> a, slot |-> s].slot = s
      BY <2>3 DEF Has, Row
    <3> QED  BY <3>1
  <2> QED  BY <2>2, <2>3
<1>7. ASSUME NEW v \in [Slots -> Cids \cup {Empty}], \A s \in Slots : v[s] \in {y, g[s]},
             h' = [h EXCEPT ![c].todo = rest, ![c].slot_cid = v],
             UNCHANGED <<pool, clients>>, failures' \in 0 .. MaxFailures,
             (v = k /\ spoiled' = spoiled) \/ Spoil({accid[c]})
      PROVE  LobbyInv'
  <2> DEFINE r == [h[c] EXCEPT !.todo = rest, !.slot_cid = v]
  <2>1. h' = [h EXCEPT ![c] = r] /\ h'[c] = r
    BY <1>1, <1>7
  <2>2. r \in Handlers /\ r.pc = "row" /\ r.next = h[c].next /\ r.todo = rest /\ r.slot_cid = v
    BY <1>1, <1>7 DEF Handlers
  <2> HIDE DEF r
  <2>3. Phase(c)' = "row"
    BY <2>1, <2>2 DEF Phase
  <2>4. accid' = accid /\ closed' = closed /\ state' = state /\ client_storage_' = client_storage_
    BY <1>7 DEF clients
  <2>5. KnowsOwn(c)'
    <3>1. c \notin closed => /\ \A n \in h[c].todo : Owns(c, n)
                             /\ \A s \in Slots : Owns(c, g[s])
      BY <1>1 DEF LobbyInv, KnowsOwn
    <3>2. c \notin closed => /\ \A n \in rest : Owns(c, n)
                             /\ \A s \in Slots : Owns(c, v[s])
      BY <1>2, <1>7, <3>1
    <3>3. \A n : Owns(c, n)' <=> Owns(c, n)
      BY <1>3, <2>4, SameTable
    <3> QED  BY <2>1, <2>2, <2>3, <2>4, <3>2, <3>3 DEF KnowsOwn
  <2>6. SlotsFit(c)'
    <3> SUFFICES ASSUME c \notin closed, accid[c] \notin spoiled', NEW a, a = accid[c] PROVE SlotsFit(c)'
      BY <2>4 DEF SlotsFit
    <3>1. v = k /\ accid[c] \notin spoiled /\ a \in Accounts
      BY <1>1, <1>7 DEF Spoil
    <3>2. /\ \A n \in Cids, s \in Slots : Has(n, a, s) => n \in h[c].todo \/ g[s] = n
          /\ \A s \in Slots : g[s] # Empty => Has(g[s], a, s)
          /\ \A n \in h[c].todo : \E s \in Slots : Has(n, a, s)
          /\ Owns(c, y)
      BY <1>1, <1>2, <3>1 DEF LobbyInv, SlotsFit, KnowsOwn
    <3>3. \A s \in Slots : v[s] = IF Has(y, a, s) THEN y ELSE g[s]
      BY <1>6, <3>1, <3>2 DEF Owns
    <3>4. \A n, m \in Cids, s \in Slots : Has(n, a, s) /\ Has(m, a, s) => n = m
      BY <3>1 DEF LobbyInv, TableFits
    <3>5. y \in Cids
      BY <1>1, <1>2
    <3>6. \A n, b, s : Has(n, b, s)' <=> Has(n, b, s)
      BY <1>3, <2>4, SameTable
    <3>7. /\ \A n \in Cids, s \in Slots : Has(n, a, s) => n \in rest \/ v[s] = n
          /\ \A s \in Slots : v[s] # Empty => Has(v[s], a, s)
          /\ \A n \in rest : \E s \in Slots : Has(n, a, s)
      BY <3>2, <3>3, <3>4, <3>5
    <3> QED  BY <2>1, <2>2, <2>3, <2>4, <3>6, <3>7 DEF SlotsFit
  <2>7. ItemFits(c)'
    BY <1>7, <2>1, <2>2, <2>3 DEF ItemFits
  <2>8. spoiled \subseteq spoiled' /\ spoiled' \subseteq Accounts
    BY <1>1, <1>4, <1>7 DEF Spoil
  <2>9. /\ UNCHANGED <<pool, clients, requests, grants, packets>>
        /\ inventoryitems' = inventoryitems
        /\ r.pc \notin {"idle", "connect", "insert", "cid", "items"} /\ r.next # "insert"
        /\ h[c].pc \notin {"idle", "connect"}
    BY <1>1, <1>3, <1>7, <2>2
  <2> QED  BY <1>3, <1>4, <1>7, <2>1, <2>2, <2>5, <2>6, <2>7, <2>8, <2>9, Advanced
<1>8. CASE /\ Works(c)
           /\ h' = [h EXCEPT ![c].todo = rest, ![c].slot_cid = k]
           /\ UNCHANGED <<pool, clients, failures>> /\ UNCHANGED spoiled
  <2>1. k \in [Slots -> Cids \cup {Empty}] /\ \A s \in Slots : k[s] \in {y, g[s]}
    BY <1>1, <1>2
  <2> HIDE DEF k
  <2> QED  BY <1>4, <1>7, <1>8, <2>1
<1>9. CASE /\ Works(c) /\ failures < MaxFailures /\ failures' = failures + 1
           /\ Goto(c, "endless") /\ UNCHANGED <<pool, clients, spoiled>>
  BY <1>1, <1>3, <1>9, EndlessInv DEF table
<1>10. CASE /\ Works(c) /\ failures < MaxFailures /\ failures' = failures + 1
            /\ \E s \in Slots : h' = [h EXCEPT ![c].todo = rest, ![c].slot_cid[s] = y]
            /\ Spoil({accid[c]}) /\ UNCHANGED <<pool, clients>>
  <2>1. PICK s \in Slots : h' = [h EXCEPT ![c].todo = rest, ![c].slot_cid[s] = y]
    BY <1>10
  <2> DEFINE v == [g EXCEPT ![s] = y]
  <2>2. h' = [h EXCEPT ![c].todo = rest, ![c].slot_cid = v]
    BY <1>1, <2>1
  <2>3. v \in [Slots -> Cids \cup {Empty}] /\ \A t \in Slots : v[t] \in {y, g[t]}
    BY <1>1, <1>2
  <2>4. failures' \in 0 .. MaxFailures
    BY <1>4, <1>10, LobbyAssumption
  <2> HIDE DEF v
  <2> QED  BY <1>7, <1>10, <2>2, <2>3, <2>4
<1>11. CASE Fails(c) /\ Throw(c) /\ UNCHANGED spoiled
  BY <1>1, <1>3, <1>4, <1>11, Thrown
<1>12. \/ /\ Works(c)
          /\ h' = [h EXCEPT ![c].todo = rest, ![c].slot_cid = k]
          /\ UNCHANGED <<pool, clients, failures>> /\ UNCHANGED spoiled
       \/ /\ Works(c) /\ failures < MaxFailures /\ failures' = failures + 1
          /\ Goto(c, "endless") /\ UNCHANGED <<pool, clients, spoiled>>
       \/ /\ Works(c) /\ failures < MaxFailures /\ failures' = failures + 1
          /\ \E s \in Slots : h' = [h EXCEPT ![c].todo = rest, ![c].slot_cid[s] = y]
          /\ Spoil({accid[c]}) /\ UNCHANGED <<pool, clients>>
       \/ Fails(c) /\ Throw(c) /\ UNCHANGED spoiled
  BY <1>1 DEF SelectCharacter, y
<1> QED  BY <1>8, <1>9, <1>10, <1>11, <1>12

-----------------------------------------------------------------------------
(* The other steps.                                                        *)

LEMMA InitInv == Init => LobbyInv
<1> SUFFICES ASSUME Init PROVE LobbyInv
  OBVIOUS
<1>1. PoolInv /\ \A c \in Clients : lent[c] = NoConnection
  BY PoolInitInv, LobbyAssumption DEF Init, PoolInit
<1>2. /\ h = [c \in Clients |-> Idle] /\ \A c \in Clients : h[c] = Idle /\ Phase(c) = "idle"
  BY IdleFits DEF Init, Phase
<1>3. /\ state = [c \in Clients |-> "kNotConfirm"] /\ \A c \in Clients : state[c] = "kNotConfirm"
      /\ accid = [c \in Clients |-> None] /\ characters = {} /\ next_cid = 1 /\ closed = {} /\ spoiled = {}
      /\ client_storage_ = {} /\ ended = {} /\ authority_map_ = {} /\ requests = {}
      /\ inventoryitems = [i \in Cids |-> 0] /\ grants = 0 /\ packets = 0 /\ failures = 0
  BY DEF Init
<1>4. slot_info_ \in [Clients -> [Slots -> Values]] /\ \A c \in Clients, s \in Slots : slot_info_[c][s] = 0
  BY DEF Init, Values
<1>5. TypeOK
  <2>1. PoolTypeOK
    BY <1>1, PoolInvImplies
  <2>2. h \in [Clients -> Handlers]
    BY <1>2, IdleFits
  <2>3. \A c \in Clients : lent[c] # NoConnection <=> ~At(c, "idle") /\ ~At(c, "connect")
    BY <1>1, <1>2, IdleFits DEF At
  <2>4. /\ next_cid \in 1 .. MaxCids + 1 /\ inventoryitems \in [Cids -> 0 .. default_items]
        /\ grants \in 0 .. MaxGrants /\ packets \in 0 .. MaxPackets /\ failures \in 0 .. MaxFailures
    BY <1>3, LobbyAssumption
  <2>5. state \in [Clients -> {"kNotConfirm", "kConfirm", "kReserveToMigrate"}] /\ accid \in [Clients -> Accounts \cup {None}]
    BY <1>3
  <2>6. slot_info_ \in [Clients -> [Slots -> Cids \cup {Empty, 0}]]
    BY <1>4 DEF Values
  <2>7. /\ authority_map_ \subseteq Accounts /\ client_storage_ \subseteq Clients /\ ended \subseteq Clients
        /\ closed \subseteq Clients /\ characters \subseteq [cid : Cids, acc : Accounts, slot : Slots]
        /\ requests \subseteq [client : Clients, acc : Accounts, cid : Cids \cup {0}] /\ spoiled \subseteq Accounts
    BY <1>3
  <2> QED  BY <2>1, <2>2, <2>3, <2>4, <2>5, <2>6, <2>7 DEF TypeOK
<1>6. HandlersFit
  <2>1. Inserting = {}
    BY <1>2, IdleFits DEF Inserting
  <2>2. next_cid + Cardinality(Inserting) <= MaxCids + 1
    BY <1>3, <2>1, FS_EmptySet, LobbyAssumption
  <2> QED  BY <1>1, <1>2, <1>3, <2>2, IdleFits DEF HandlersFit
<1>7. ItemsFit
  BY <1>2, <1>3, IdleFits DEF ItemsFit
<1>8. \A n, a, s : ~Has(n, a, s)
  BY <1>3 DEF Has
<1>9. \A c \in Clients : KnowsOwn(c) /\ SlotsFit(c)
  BY <1>2, <1>3, <1>4, <1>8, IdleFits DEF KnowsOwn, SlotsFit, Owns
<1> QED  BY <1>1, <1>2, <1>3, <1>5, <1>6, <1>7, <1>8, <1>9
         DEF LobbyInv, TableFits, ActsAlone, ClosedCreatesSpoiled, NewNotConfirmed

\* What is known of a client that the step leaves alone, or closes, or that is no longer confirmed.
LEMMA StillFits ==
  ASSUME LobbyInv, Unchanged, spoiled \subseteq spoiled', NEW d \in Clients,
         h'[d] = h[d], slot_info_'[d] = slot_info_[d], accid'[d] = accid[d],
         d \in closed => d \in closed',
         d \in client_storage_' \ closed' /\ state'[d] = "kConfirm" => d \in client_storage_ /\ state[d] = "kConfirm"
  PROVE  KnowsOwn(d)' /\ SlotsFit(d)'
<1>1. Phase(d)' = Phase(d)
  BY DEF Phase
<1>2. KnowsOwn(d) /\ SlotsFit(d)
  BY DEF LobbyInv
<1>3. /\ \A n, s, a : a = accid[d] => (Has(n, a, s)' <=> Has(n, a, s))
      /\ \A n : Owns(d, n)' <=> Owns(d, n)
      /\ \A f, a : a = accid[d] => (Agree(a, f)' <=> Agree(a, f))
  BY SameTable
<1>4. KnowsOwn(d)'
  BY <1>1, <1>2, <1>3 DEF KnowsOwn
<1>5. SlotsFit(d)'
  <2> SUFFICES ASSUME d \in client_storage_' \ closed', state'[d] = "kConfirm", accid'[d] \notin spoiled'
               PROVE  SlotsFit(d)'
    BY DEF SlotsFit
  <2> QED  BY <1>1, <1>2, <1>3 DEF SlotsFit
<1> QED  BY <1>4, <1>5

\* A step that is no handler's.
LEMMA Quiet ==
  ASSUME LobbyInv, UNCHANGED <<pool, slot_info_, table, h, accid, failures, spoiled>>,
         authority_map_' \subseteq Accounts, client_storage_' \subseteq Clients, ended' \subseteq Clients,
         closed' \subseteq Clients, closed \subseteq closed', client_storage_ \cup ended \subseteq client_storage_' \cup ended',
         state' \in [Clients -> {"kNotConfirm", "kConfirm", "kReserveToMigrate"}],
         requests' \subseteq [client : Clients, acc : Accounts, cid : Cids \cup {0}],
         grants' \in 0 .. MaxGrants, packets' \in 0 .. MaxPackets,
         \A d \in Clients : h[d].pc # "idle" => d \in client_storage_' /\ state'[d] = state[d] /\ (d \in closed' => d \in closed),
         \A d \in Clients : state'[d] = "kConfirm" => state[d] = "kConfirm",
         \A d \in Clients : state'[d] # "kNotConfirm" <=> state[d] # "kNotConfirm",
         \A d \in client_storage_' : d \in client_storage_ \/ state[d] = "kNotConfirm"
  PROVE  LobbyInv'
<1>1. /\ characters' = characters /\ next_cid' = next_cid /\ inventoryitems' = inventoryitems /\ Unchanged
      /\ lent' = lent /\ connection_pool_' = connection_pool_ /\ made' = made /\ broken' = broken
  BY DEF table, Unchanged, pool
<1>2. \A d \in Clients : Phase(d)' = Phase(d)
  BY DEF Phase
<1>3. TypeOK' /\ PoolInv'
  BY <1>1 DEF LobbyInv, TypeOK, PoolTypeOK, PoolInv, Conserved, At
<1>4. HandlersFit'
  <2>1. Inserting' = Inserting
    BY DEF Inserting
  <2> QED  BY <1>1, <1>2, <2>1 DEF LobbyInv, HandlersFit
<1>5. ItemsFit'
  BY <1>1, <1>2 DEF LobbyInv, ItemsFit
<1>6. TableFits'
  <2>1. \A n, a, s : Has(n, a, s)' <=> Has(n, a, s)
    BY <1>1 DEF Has
  <2> QED  BY <1>1, <2>1 DEF LobbyInv, TableFits
<1>7. ActsAlone'
  BY DEF LobbyInv, ActsAlone
<1>8. ClosedCreatesSpoiled'
  <2> SUFFICES ASSUME NEW d \in Clients, d \in closed', Phase(d)' = "insert" PROVE accid'[d] \in spoiled'
    BY DEF ClosedCreatesSpoiled
  <2>1. Phase(d) = "insert" /\ h[d].pc # "idle"
    BY <1>2 DEF Phase
  <2> QED  BY <2>1 DEF LobbyInv, ClosedCreatesSpoiled
<1>9. NewNotConfirmed'
  BY DEF LobbyInv, NewNotConfirmed
<1>10. ASSUME NEW d \in Clients PROVE KnowsOwn(d)' /\ SlotsFit(d)'
  BY <1>1, StillFits
<1> QED  BY <1>3, <1>4, <1>5, <1>6, <1>7, <1>8, <1>9, <1>10 DEF LobbyInv

LEMMA SessionsInv ==
  ASSUME LobbyInv, \/ \E a \in Accounts : EmplaceAuthority(a)
                   \/ \E c \in Clients : OnActive(c) \/ OnClose(c)
  PROVE  LobbyInv'
<1>1. TypeOK /\ MaxGrants \in Nat
  BY LobbyAssumption DEF LobbyInv
<1>2. ASSUME NEW a \in Accounts, EmplaceAuthority(a) PROVE LobbyInv'
  <2>1. grants' \in 0 .. MaxGrants /\ authority_map_' \subseteq Accounts
    BY <1>1, <1>2 DEF EmplaceAuthority, TypeOK
  <2>2. \A d \in Clients : h[d].pc # "idle" => d \in client_storage_'
    BY <1>2 DEF EmplaceAuthority, LobbyInv, HandlersFit
  <2> QED  BY <1>1, <1>2, <2>1, <2>2, Quiet DEF EmplaceAuthority, TypeOK
<1>3. ASSUME NEW c \in Clients, OnActive(c) PROVE LobbyInv'
  <2>1. \A d \in Clients : h[d].pc # "idle" => d \in client_storage_'
    BY <1>3 DEF OnActive, LobbyInv, HandlersFit
  <2>2. state[c] = "kNotConfirm"
    BY <1>3 DEF OnActive, LobbyInv, NewNotConfirmed
  <2> QED  BY <1>1, <1>3, <2>1, <2>2, Quiet DEF OnActive, TypeOK, counters
<1>4. ASSUME NEW c \in Clients, OnClose(c) PROVE LobbyInv'
  <2>1. h[c].pc = "idle" /\ \A d \in Clients : h[d].pc # "idle" => d \in client_storage_'
    BY <1>4 DEF OnClose, At, LobbyInv, HandlersFit
  <2> QED  BY <1>1, <1>4, <2>1, Quiet DEF OnClose, TypeOK, counters
<1> QED  BY <1>2, <1>3, <1>4

\* A packet that is refused closes its client.
LEMMA RefusedInv ==
  ASSUME LobbyInv, NEW c \in Clients, Packet(c), Refuse(c), UNCHANGED h
  PROVE  LobbyInv'
<1>1. TypeOK /\ MaxPackets \in Nat
  BY LobbyAssumption DEF LobbyInv
<1>2. /\ h[c].pc = "idle" /\ packets' \in 0 .. MaxPackets /\ grants' = grants /\ failures' = failures
      /\ \A d \in Clients : h[d].pc # "idle" => d \in client_storage_'
  BY <1>1 DEF Packet, At, TypeOK, LobbyInv, HandlersFit, Refuse
<1> QED  BY <1>1, <1>2, Quiet DEF Refuse, TypeOK

\* A packet that starts a handler.
LEMMA Started ==
  ASSUME LobbyInv, NEW c \in Clients, Packet(c), NEW op \in {"insert", "delete", "cids"},
         NEW slot \in 0 .. slot_size, NEW cid \in Values, Start(c, op, slot, cid),
         UNCHANGED <<pool, client_storage_, ended, closed, slot_info_, table, requests>>,
         authority_map_' \subseteq Accounts, spoiled \subseteq spoiled', spoiled' \subseteq Accounts,
         state' \in [Clients -> {"kNotConfirm", "kConfirm", "kReserveToMigrate"}], state'[c] = "kConfirm",
         accid' \in [Clients -> Accounts \cup {None}], accid'[c] \in Accounts,
         \A d \in Clients \ {c} : state'[d] = state[d] /\ accid'[d] = accid[d],
         op = "insert" => /\ slot \in Slots /\ next_cid + Cardinality(Inserting) \in Cids
                          /\ c \in closed => accid'[c] \in spoiled',
         ActsAlone', KnowsOwn(c)', SlotsFit(c)'
  PROVE  LobbyInv'
<1> DEFINE r == [Idle EXCEPT !.pc = "connect", !.next = op, !.slot = slot, !.cid = cid]
<1>1. h' = [h EXCEPT ![c] = r]
  BY DEF Start
<1>2. r \in Handlers /\ r.pc = "connect" /\ r.next = op /\ r.slot = slot /\ r.cid = cid
  BY IdleFits DEF Handlers, Values
<1> HIDE DEF r
<1>3. /\ h \in [Clients -> Handlers] /\ h' \in [Clients -> Handlers] /\ h'[c] = r
      /\ \A d \in Clients \ {c} : h'[d] = h[d]
  BY <1>1, <1>2 DEF LobbyInv, TypeOK
<1>4. /\ Phase(c)' = op /\ \A d \in Clients \ {c} : Phase(d)' = Phase(d)
  BY <1>2, <1>3 DEF Phase
<1>5. /\ characters' = characters /\ next_cid' = next_cid /\ inventoryitems' = inventoryitems /\ Unchanged
      /\ lent' = lent /\ connection_pool_' = connection_pool_ /\ made' = made /\ broken' = broken
  BY DEF table, Unchanged, pool
<1>6. /\ c \in client_storage_ /\ h[c].pc = "idle" /\ lent[c] = NoConnection /\ h[c].next # "insert"
      /\ grants' = grants /\ failures' = failures /\ packets < MaxPackets /\ packets' = packets + 1
  BY DEF Packet, At, LobbyInv, HandlersFit, Phase
<1>7. OthersStay(c)
  BY <1>3 DEF OthersStay
<1>8. HandlersFit'
  <2>1. next_cid' \in Nat
    BY <1>5 DEF LobbyInv, TypeOK
  <2>2. \/ (h'[c].next = "insert" <=> h[c].next = "insert") /\ next_cid' = next_cid
        \/ /\ h'[c].next = "insert" /\ h[c].next # "insert" /\ next_cid' = next_cid
           /\ next_cid + Cardinality(Inserting) \in Cids
    BY <1>2, <1>3, <1>5, <1>6
  <2>3. /\ \A d \in Clients \ {c} : lent'[d] = lent[d]
        /\ lent'[c] # NoConnection <=> h'[c].pc \notin {"idle", "connect"}
        /\ h'[c].pc # "idle" => c \in client_storage_' /\ state'[c] = "kConfirm"
        /\ (h'[c].next = "insert") <=> (Phase(c)' = "insert")
        /\ h'[c].pc = "connect" => h'[c].next \in {"insert", "delete", "cids"}
    BY <1>2, <1>3, <1>4, <1>5, <1>6
  <2> QED  BY <1>3, <1>7, <2>1, <2>2, <2>3, HandlersStep
<1>9. ItemsFit'
  <2>1. ItemFits(c)'
    BY <1>2, <1>3, <1>4 DEF ItemFits
  <2>2. next_cid' \in {next_cid, next_cid + 1} /\ h'[c].pc \notin {"cid", "items"}
    BY <1>2, <1>3, <1>5
  <2> QED  BY <1>5, <1>7, <2>1, <2>2, ItemsStep
<1>10. TypeOK' /\ PoolInv'
  <2>1. PoolInv'
    BY <1>5 DEF LobbyInv, PoolInv, Conserved
  <2>2. PoolTypeOK'
    BY <2>1 DEF PoolInv, Conserved, PoolTypeOK
  <2>3. \A d \in Clients : lent'[d] # NoConnection <=> ~At(d, "idle")' /\ ~At(d, "connect")'
    BY <1>8 DEF HandlersFit, At
  <2>4. packets' \in 0 .. MaxPackets
    BY <1>6, LobbyAssumption DEF LobbyInv, TypeOK
  <2>5. TypeOK
    BY DEF LobbyInv
  <2> QED  BY <1>3, <1>5, <1>6, <2>1, <2>2, <2>3, <2>4, <2>5 DEF TypeOK
<1>11. TableFits'
  <2>1. \A n, a, s : Has(n, a, s)' <=> Has(n, a, s)
    BY <1>5 DEF Has
  <2> QED  BY <1>5, <2>1 DEF LobbyInv, TableFits
<1>12. ClosedCreatesSpoiled'
  <2> SUFFICES ASSUME NEW d \in Clients, d \in closed', Phase(d)' = "insert" PROVE accid'[d] \in spoiled'
    BY DEF ClosedCreatesSpoiled
  <2>1. CASE d = c
    BY <1>4, <2>1
  <2>2. CASE d # c
    BY <1>4, <2>2 DEF LobbyInv, ClosedCreatesSpoiled
  <2> QED  BY <2>1, <2>2
<1>13. NewNotConfirmed'
  BY <1>6 DEF LobbyInv, NewNotConfirmed
<1>14. ASSUME NEW d \in Clients \ {c} PROVE KnowsOwn(d)' /\ SlotsFit(d)'
  BY <1>3, <1>5, StillFits
<1> QED  BY <1>8, <1>9, <1>10, <1>11, <1>12, <1>13, <1>14 DEF LobbyInv

\* A second client of an account spoils it.
LEMMA ConfirmInv ==
  ASSUME LobbyInv, NEW c \in Clients, NEW a \in Accounts, HandleConfirmRequest(c, a)
  PROVE  LobbyInv'
<1>1. /\ Packet(c) /\ Start(c, "cids", 0, 0) /\ state' = [state EXCEPT ![c] = "kConfirm"]
      /\ accid' = [accid EXCEPT ![c] = a]
      /\ UNCHANGED <<pool, client_storage_, ended, closed, slot_info_, table, requests>>
      /\ authority_map_' = authority_map_ \ {a}
  BY DEF HandleConfirmRequest
<1>2. TypeOK
  BY DEF LobbyInv
<1>3. /\ state' \in [Clients -> {"kNotConfirm", "kConfirm", "kReserveToMigrate"}] /\ state'[c] = "kConfirm"
      /\ accid' \in [Clients -> Accounts \cup {None}] /\ accid'[c] = a
      /\ \A d \in Clients \ {c} : state'[d] = state[d] /\ accid'[d] = accid[d]
      /\ authority_map_' \subseteq Accounts
  BY <1>1, <1>2 DEF TypeOK
<1>4. /\ spoiled \subseteq spoiled' /\ spoiled' \subseteq Accounts
      /\ (\E d \in client_storage_ \ {c} : state[d] = "kConfirm" /\ accid[d] = a) => a \in spoiled'
  BY <1>2 DEF HandleConfirmRequest, Spoil, TypeOK
<1>5. ActsAlone'
  <2>1. client_storage_ \subseteq Clients
    BY <1>2 DEF TypeOK
  <2> QED  BY <1>1, <1>3, <1>4, <2>1 DEF LobbyInv, ActsAlone
<1>6. h'[c] = [Idle EXCEPT !.pc = "connect", !.next = "cids", !.slot = 0, !.cid = 0]
  BY <1>1, <1>2 DEF Start, TypeOK
<1>7. h'[c].pc = "connect" /\ h'[c].next = "cids" /\ Phase(c)' = "cids"
  BY <1>6, IdleFits DEF Phase, Handlers
<1>8. KnowsOwn(c)' /\ SlotsFit(c)'
  BY <1>7 DEF KnowsOwn, SlotsFit
<1>9. 0 \in 0 .. slot_size /\ 0 \in Values
  BY LobbyAssumption DEF Values
<1> QED  BY <1>1, <1>3, <1>4, <1>5, <1>8, <1>9, Started

\* The other packets start their handler for the account the client has.
LEMMA RequestInv ==
  ASSUME LobbyInv, NEW c \in Clients, Packet(c), state[c] = "kConfirm",
         NEW op \in {"insert", "delete", "cids"},
         NEW slot \in 0 .. slot_size, NEW cid \in Values, Start(c, op, slot, cid),
         UNCHANGED <<pool, clients, slot_info_, table, requests>>,
         \/ /\ op = "insert" /\ slot \in Slots /\ slot_info_[c][slot] = Empty
            /\ next_cid + Cardinality(Inserting) \in Cids
            /\ (IF c \in closed THEN Spoil({accid[c]}) ELSE UNCHANGED spoiled)
         \/ op = "delete" /\ (slot \in Slots => cid = slot_info_[c][slot]) /\ UNCHANGED spoiled
         \/ op = "cids" /\ UNCHANGED spoiled
  PROVE  LobbyInv'
<1>1. /\ h[c].pc = "idle" /\ Phase(c) = "idle" /\ c \in client_storage_ /\ accid[c] \in Accounts
  BY DEF Packet, At, Phase, LobbyInv, HandlersFit
<1>2. h'[c] = [Idle EXCEPT !.pc = "connect", !.next = op, !.slot = slot, !.cid = cid]
  BY DEF Start, LobbyInv, TypeOK
<1>3. h'[c].pc = "connect" /\ h'[c].slot = slot /\ h'[c].cid = cid /\ Phase(c)' = op
  BY <1>2, IdleFits DEF Phase, Handlers
<1>4. /\ UNCHANGED <<authority_map_, client_storage_, ended, closed, state, accid>> /\ Unchanged
      /\ spoiled \subseteq spoiled' /\ spoiled' \subseteq Accounts
  BY <1>1 DEF clients, table, Unchanged, Spoil, LobbyInv, TypeOK
<1>5. KnowsOwn(c)'
  <2>1. c \notin closed => \A s \in Slots : Owns(c, slot_info_[c][s])
    BY <1>1 DEF LobbyInv, KnowsOwn
  <2>2. \A n : Owns(c, n)' <=> Owns(c, n)
    BY <1>4, SameTable
  <2> QED  BY <1>3, <1>4, <2>1, <2>2 DEF KnowsOwn
<1>6. SlotsFit(c)'
  <2> SUFFICES ASSUME c \notin closed, accid[c] \notin spoiled PROVE SlotsFit(c)'
    BY <1>4 DEF SlotsFit
  <2>1. Agree(accid[c], slot_info_[c])
    BY <1>1 DEF LobbyInv, SlotsFit
  <2>2. \A a, f : Agree(a, f)' <=> Agree(a, f)
    BY <1>4, SameTable
  <2>3. UNCHANGED <<slot_info_, accid>>
    BY <1>4
  <2> QED  BY <1>3, <2>1, <2>2, <2>3 DEF SlotsFit
<1>7. /\ state' \in [Clients -> {"kNotConfirm", "kConfirm", "kReserveToMigrate"}]
      /\ accid' \in [Clients -> Accounts \cup {None}] /\ authority_map_' \subseteq Accounts
  BY <1>4 DEF LobbyInv, TypeOK
<1>8. ActsAlone'
  BY <1>4 DEF LobbyInv, ActsAlone
<1>9. op = "insert" => /\ slot \in Slots /\ next_cid + Cardinality(Inserting) \in Cids
                       /\ c \in closed => accid'[c] \in spoiled'
  BY <1>4 DEF Spoil
<1> QED  BY <1>1, <1>4, <1>5, <1>6, <1>7, <1>8, <1>9, Started

LEMMA SelectInv ==
  ASSUME LobbyInv, NEW c \in Clients, NEW slot \in -1 .. slot_size, HandleCharacterSelectRequest(c, slot)
  PROVE  LobbyInv'
<1>1. TypeOK /\ MaxPackets \in Nat
  BY LobbyAssumption DEF LobbyInv
<1>2. /\ h[c].pc = "idle" /\ packets' \in 0 .. MaxPackets /\ grants' = grants /\ failures' = failures
      /\ c \in client_storage_ /\ state[c] = "kConfirm" /\ accid[c] \in Accounts
      /\ state' = [state EXCEPT ![c] = "kReserveToMigrate"]
      /\ UNCHANGED <<pool, authority_map_, client_storage_, ended, accid, slot_info_, table, h, spoiled>>
  BY <1>1 DEF HandleCharacterSelectRequest, Packet, At, TypeOK, LobbyInv, HandlersFit
<1>3. closed' \subseteq Clients /\ closed \subseteq closed' /\ closed' \subseteq closed \cup {c}
  BY <1>1 DEF HandleCharacterSelectRequest, TypeOK
<1>4. requests' \subseteq [client : Clients, acc : Accounts, cid : Cids \cup {0}]
  <2>1. CASE slot \notin Slots \/ slot_info_[c][slot] = Empty
    BY <1>1, <2>1 DEF HandleCharacterSelectRequest, TypeOK
  <2>2. CASE ~(slot \notin Slots \/ slot_info_[c][slot] = Empty)
    <3>1. slot_info_[c][slot] \in Cids \cup {0}
      BY <1>1, <2>2 DEF TypeOK
    <3> QED  BY <1>1, <1>2, <2>2, <3>1 DEF HandleCharacterSelectRequest, TypeOK
  <2> QED  BY <2>1, <2>2
<1>5. /\ state' \in [Clients -> {"kNotConfirm", "kConfirm", "kReserveToMigrate"}]
      /\ state'[c] = "kReserveToMigrate" /\ \A d \in Clients \ {c} : state'[d] = state[d]
  BY <1>1, <1>2 DEF TypeOK
<1>6. /\ \A d \in Clients : h[d].pc # "idle" => d \in client_storage_' /\ state'[d] = state[d]
                                              /\ (d \in closed' => d \in closed)
      /\ \A d \in Clients : state'[d] = "kConfirm" => state[d] = "kConfirm"
      /\ \A d \in Clients : state'[d] # "kNotConfirm" <=> state[d] # "kNotConfirm"
  BY <1>2, <1>3, <1>5 DEF LobbyInv, HandlersFit
<1> QED  BY <1>1, <1>2, <1>3, <1>4, <1>5, <1>6, Quiet DEF TypeOK

LEMMA PacketInv ==
  ASSUME LobbyInv, NEW c \in Clients, ProcessPacket(c)
  PROVE  LobbyInv'
<1>1. CASE \E a \in Accounts : HandleConfirmRequest(c, a)
  BY <1>1, ConfirmInv
<1>2. CASE HandleCharacterListRequest(c)
  <2>1. 0 \in 0 .. slot_size /\ 0 \in Values
    BY LobbyAssumption DEF Values
  <2> QED  BY <1>2, <2>1, RequestInv DEF HandleCharacterListRequest
<1>3. ASSUME NEW slot \in -1 .. slot_size, HandleCharacterCreateRequest(c, slot) PROVE LobbyInv'
  <2>1. CASE slot \notin Slots \/ slot_info_[c][slot] # Empty
    <3>1. Packet(c) /\ Refuse(c) /\ UNCHANGED h
      BY <1>3, <2>1 DEF HandleCharacterCreateRequest, Refuse
    <3> QED  BY <3>1, RefusedInv
  <2>2. CASE slot \in Slots /\ slot_info_[c][slot] = Empty
    <3>1. /\ Packet(c) /\ state[c] = "kConfirm" /\ Start(c, "insert", slot, 0)
          /\ next_cid + Cardinality(Inserting) \in Cids
          /\ (IF c \in closed THEN Spoil({accid[c]}) ELSE UNCHANGED spoiled)
          /\ UNCHANGED <<pool, clients, slot_info_, table, requests>>
      BY <1>3, <2>2 DEF HandleCharacterCreateRequest, Inserting
    <3>2. slot \in 0 .. slot_size /\ 0 \in Values
      BY <2>2, LobbyAssumption DEF Slots, Values
    <3> QED  BY <2>2, <3>1, <3>2, RequestInv
  <2> QED  BY <2>1, <2>2
<1>4. ASSUME NEW slot \in -1 .. slot_size, HandleCharacterDeleteRequest(c, slot) PROVE LobbyInv'
  <2>1. PICK cid \in IF slot \in Slots THEN {slot_info_[c][slot]}
                     ELSE IF slot = slot_size THEN Cids \cup {Empty, 0} ELSE {Empty} :
          IF cid = Empty
          THEN Refuse(c)
          ELSE Start(c, "delete", slot, cid) /\ UNCHANGED <<pool, clients, slot_info_, table, requests, spoiled>>
    BY <1>4 DEF HandleCharacterDeleteRequest
  <2>2. Packet(c) /\ state[c] = "kConfirm"
    BY <1>4 DEF HandleCharacterDeleteRequest
  <2>3. CASE cid = Empty
    BY <2>1, <2>2, <2>3, RefusedInv DEF Refuse
  <2>4. CASE cid # Empty
    <3>1. slot \in Slots \/ slot = slot_size
      BY <2>1, <2>4
    <3>2. slot \in 0 .. slot_size
      BY <3>1, LobbyAssumption DEF Slots
    <3>3. (slot \in Slots => cid = slot_info_[c][slot]) /\ cid \in Values
      <4>1. slot_info_[c] \in [Slots -> Values]
        BY DEF LobbyInv, TypeOK, Values
      <4> QED  BY <2>1, <3>1, <4>1 DEF Values
    <3> QED  BY <2>1, <2>2, <2>4, <3>2, <3>3, RequestInv
  <2> QED  BY <2>3, <2>4
<1>5. ASSUME NEW slot \in -1 .. slot_size, HandleCharacterSelectRequest(c, slot) PROVE LobbyInv'
  BY <1>5, SelectInv
<1> QED  BY <1>1, <1>2, <1>3, <1>4, <1>5 DEF ProcessPacket

LEMMA NextInv == LobbyInv /\ [Next]_vars => LobbyInv'
<1> SUFFICES ASSUME LobbyInv, [Next]_vars PROVE LobbyInv'
  OBVIOUS
<1>1. CASE \E a \in Accounts : EmplaceAuthority(a)
  BY <1>1, SessionsInv
<1>2. ASSUME NEW c \in Clients, OnActive(c) \/ OnClose(c) PROVE LobbyInv'
  BY <1>2, SessionsInv
<1>3. ASSUME NEW c \in Clients, ProcessPacket(c) PROVE LobbyInv'
  BY <1>3, PacketInv
<1>4. ASSUME NEW c \in Clients, Step(c) PROVE LobbyInv'
  BY <1>4, ConnectInv, InsertCharacterInv, SelectCidInv, InsertItemInv, DeleteCharacterInv, ForgetInv,
     SelectCidsInv, SelectCharacterInv, PublishInv DEF Step
<1>5. CASE UNCHANGED vars
  <2>1. /\ UNCHANGED <<pool, slot_info_, table, h, accid, failures, spoiled>>
        /\ UNCHANGED <<authority_map_, client_storage_, ended, closed, state, requests, grants, packets>>
    BY <1>5 DEF vars, clients, counters
  <2>2. \A d \in Clients : h[d].pc # "idle" => d \in client_storage_'
    BY <2>1 DEF LobbyInv, HandlersFit
  <2>3. TypeOK
    BY DEF LobbyInv
  <2> QED  BY <2>1, <2>2, <2>3, Quiet DEF TypeOK
<1> QED  BY <1>1, <1>2, <1>3, <1>4, <1>5 DEF Next

-----------------------------------------------------------------------------
(* The theorems.                                                           *)

(* The inductive invariant holds: it says, at each step of a handler, what *)
(* slot_info_ and the table characters have in common and which characters *)
(* the client may name.                                                    *)
THEOREM LobbyInvariant == Spec => []LobbyInv
BY InitInv, NextInv, PTL DEF Spec

(* TypeOK holds for any number of clients, slots and failing statements:   *)
(* a handler has a connection exactly while it executes statements.        *)
THEOREM TypeCorrect == Spec => []TypeOK
<1>1. LobbyInv => TypeOK
  BY DEF LobbyInv
<1> QED  BY <1>1, LobbyInvariant, PTL

(* The pool neither loses a connection nor lends it twice, whatever throws *)
(* in a handler and whenever AddConnection fails half-way.                 *)
THEOREM PoolIsConserved == Spec => []PoolConserved
<1>1. LobbyInv => PoolConserved
  BY PoolInvImplies DEF LobbyInv
<1> QED  BY <1>1, LobbyInvariant, PTL

(* The copy a player acts on and the table agree whenever none of its      *)
(* packets is being handled, unless the account is spoiled (see            *)
(* SlotsAgree).                                                            *)
THEOREM SlotsAlwaysAgree == Spec => []SlotsAgree
<1>1. ASSUME LobbyInv PROVE SlotsAgree
  <2> SUFFICES ASSUME NEW c \in client_storage_ \ closed, h[c].pc = "idle", state[c] = "kConfirm",
                      accid[c] \notin spoiled
               PROVE  Of(accid[c]) = {[cid |-> slot_info_[c][s], acc |-> accid[c], slot |-> s] :
                                        s \in {t \in Slots : slot_info_[c][t] # Empty}}
    BY DEF SlotsAgree, At
  <2> DEFINE a == accid[c]
             f == slot_info_[c]
  <2>1. c \in Clients /\ a \in Accounts /\ Phase(c) = "idle" /\ f \in [Slots -> Values]
    BY <1>1 DEF LobbyInv, TypeOK, HandlersFit, Phase, Values
  <2>2. \A s \in Slots, n \in Values : Has(n, a, s) <=> f[s] = n /\ n # Empty
    BY <1>1, <2>1 DEF LobbyInv, SlotsFit, Agree
  <2>3. ASSUME NEW r \in Of(a)
        PROVE  r \in {[cid |-> f[s], acc |-> a, slot |-> s] : s \in {t \in Slots : f[t] # Empty}}
    <3>1. r = [cid |-> r.cid, acc |-> a, slot |-> r.slot] /\ r \in characters /\ r.cid \in Values /\ r.slot \in Slots
      BY <1>1 DEF Of, LobbyInv, TypeOK, Values
    <3>2. f[r.slot] = r.cid /\ r.cid # Empty
      BY <2>2, <3>1 DEF Has
    <3> QED  BY <3>1, <3>2
  <2>4. ASSUME NEW s \in Slots, f[s] # Empty
        PROVE  [cid |-> f[s], acc |-> a, slot |-> s] \in Of(a)
    <3>1. Has(f[s], a, s)
      BY <2>1, <2>2, <2>4
    <3> QED  BY <3>1 DEF Has, Of
  <2> QED  BY <2>3, <2>4
<1> QED  BY <1>1, LobbyInvariant, PTL

(* A player is only handed to a zone server with a character that exists   *)
(* and is its own, unless it was closed or its account is spoiled.         *)
THEOREM SelectionsExist == Spec => SelectedExists
<1> DEFINE Existing == \A r \in requests' \ requests :
             r.client \in closed \/ r.acc \in spoiled \/ \E row \in Row(r.cid) : row.acc = r.acc
<1>1. ASSUME LobbyInv, [Next]_vars PROVE [Existing]_vars
  <2>1. CASE requests' = requests
    BY <2>1
  <2>2. ASSUME NEW c \in Clients, NEW slot \in -1 .. slot_size, HandleCharacterSelectRequest(c, slot) PROVE Existing
    <3> DEFINE n == slot_info_[c][slot]
               q == [client |-> c, acc |-> accid[c], cid |-> n]
    <3>1. CASE slot \notin Slots \/ n = Empty
      BY <2>2, <3>1 DEF HandleCharacterSelectRequest
    <3>2. CASE slot \in Slots /\ n # Empty
      <4>1. requests' = requests \cup {q}
        BY <2>2, <3>2 DEF HandleCharacterSelectRequest
      <4>2. ASSUME c \notin closed, accid[c] \notin spoiled PROVE \E row \in Row(n) : row.acc = accid[c]
        <5>1. c \in client_storage_ /\ Phase(c) = "idle" /\ state[c] = "kConfirm"
          BY <2>2 DEF HandleCharacterSelectRequest, Packet, At, Phase
        <5>2. n \in Values
          BY <1>1, <3>2 DEF LobbyInv, TypeOK, Values
        <5>3. Has(n, accid[c], slot)
          BY <1>1, <3>2, <4>2, <5>1, <5>2 DEF LobbyInv, SlotsFit, Agree
        <5>4. [cid |-> n, acc |-> accid[c], slot |-> slot] \in Row(n)
          BY <5>3 DEF Has, Row
        <5> QED  BY <5>4
      <4>3. q.client = c /\ q.acc = accid[c] /\ q.cid = n
        OBVIOUS
      <4> HIDE DEF q, n
      <4> QED  BY <4>1, <4>2, <4>3
    <3> QED  BY <3>1, <3>2
  <2>3. requests' = requests \/ \E c \in Clients : \E slot \in -1 .. slot_size : HandleCharacterSelectRequest(c, slot)
    <3>1. CASE \E a \in Accounts : EmplaceAuthority(a)
      BY <3>1 DEF EmplaceAuthority
    <3>2. ASSUME NEW c \in Clients, OnActive(c) \/ OnClose(c) PROVE requests' = requests
      BY <3>2 DEF OnActive, OnClose
    <3>3. ASSUME NEW c \in Clients, ProcessPacket(c)
          PROVE  requests' = requests \/ \E slot \in -1 .. slot_size : HandleCharacterSelectRequest(c, slot)
      BY <3>3 DEF ProcessPacket, HandleConfirmRequest, HandleCharacterListRequest, HandleCharacterCreateRequest,
                  HandleCharacterDeleteRequest, Refuse
    <3>4. ASSUME NEW c \in Clients, Step(c) PROVE requests' = requests
      BY <3>4 DEF Step, Connect, InsertCharacter, SelectCid, InsertItem, DeleteCharacter, Forget,
                  SelectCids, SelectCharacter, Publish
    <3>5. CASE UNCHANGED vars
      BY <3>5 DEF vars
    <3> QED  BY <1>1, <3>1, <3>2, <3>3, <3>4, <3>5 DEF Next
  <2> QED  BY <2>1, <2>2, <2>3
<1>2. [][Existing]_vars <=> SelectedExists
  BY DEF SelectedExists
<1> QED  BY <1>1, <1>2, LobbyInvariant, PTL DEF Spec
=============================================================================
