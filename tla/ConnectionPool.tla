--------------------------- MODULE ConnectionPool ---------------------------
(***************************************************************************)
(* ODBCConnectionPool: database connections that return to the pool when   *)
(* the last pointer to them goes, whatever state they are in.  A module    *)
(* that uses the pool extends this one; a holder is a handler that may     *)
(* have one connection.  Nothing calls Stop or Exit, so the pool is always *)
(* running after Initialize.                                               *)
(***************************************************************************)
EXTENDS Naturals, Sequences

CONSTANTS Holders, pool_alloc_size_

ASSUME PoolAssumption == pool_alloc_size_ \in Nat \ {0}

VARIABLES
    connection_pool_,   \* connections nobody uses, the last one is lent first
    made,               \* connections made so far
    broken,             \* connections whose statements fail
    lent                \* the connection of each holder

pool == <<connection_pool_, made, broken, lent>>
NoConnection == 0

PoolInit ==
    /\ connection_pool_ = [i \in 1 .. pool_alloc_size_ |-> i]
    /\ made = pool_alloc_size_
    /\ broken = {}
    /\ lent = [o \in Holders |-> NoConnection]

\* The pool once AddConnection has made n connections more.
Grown(n) == connection_pool_ \o [i \in 1 .. n |-> made + i]

\* Mutant: the connection that is lent stays in the pool.
Take_NoPop(o, available) ==
    /\ connection_pool_' = available
    /\ lent' = [lent EXCEPT ![o] = available[Len(available)]]

Take(o, available) ==
    /\ connection_pool_' = SubSeq(available, 1, Len(available) - 1)
    /\ lent' = [lent EXCEPT ![o] = available[Len(available)]]

\* GetConnection, which makes pool_alloc_size_ connections when there is none.
GetConnection(o) ==
    /\ IF connection_pool_ = <<>>
         THEN Take(o, Grown(pool_alloc_size_)) /\ made' = made + pool_alloc_size_
         ELSE Take(o, connection_pool_) /\ UNCHANGED made
    /\ UNCHANGED broken

\* One of the new connections cannot be made: its pointer is destroyed with it, which puts it into
\* the pool behind the ones that were made, and GetConnection throws.
GetConnectionFails ==
    /\ connection_pool_ = <<>>
    /\ \E n \in 1 .. pool_alloc_size_ :
        /\ connection_pool_' = Grown(n)
        /\ made' = made + n
        /\ broken' = broken \cup {made + n}
    /\ UNCHANGED lent

\* ReturnConnection, called by the deleter of the pointer.
ReturnConnection(o) ==
    /\ lent[o] # NoConnection
    /\ connection_pool_' = Append(connection_pool_, lent[o])
    /\ lent' = [lent EXCEPT ![o] = NoConnection]
    /\ UNCHANGED made

-----------------------------------------------------------------------------

PoolTypeOK ==
    /\ made \in Nat
    /\ connection_pool_ \in Seq(1 .. made)
    /\ broken \subseteq 1 .. made
    /\ lent \in [Holders -> 0 .. made]

(* No connection is lost or used by two: each one that was made is either  *)
(* in the pool, once, or lent to exactly one handler, whatever throws      *)
(* between GetConnection and the end of the handler (the deleter of        *)
(* ODBCConnectionPool.cpp:69-73 runs during the unwinding), and when a     *)
(* connection cannot be made half-way through AddConnection.               *)
PoolConserved ==
    /\ \A i, j \in DOMAIN connection_pool_ :
           connection_pool_[i] = connection_pool_[j] => i = j
    /\ \A o, p \in Holders : lent[o] = lent[p] /\ o # p => lent[o] = NoConnection
    /\ \A n \in 1 .. made :
           (\E o \in Holders : lent[o] = n) <=> ~ \E i \in DOMAIN connection_pool_ : connection_pool_[i] = n
=============================================================================
