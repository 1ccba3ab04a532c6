------------------------------ MODULE Connections ------------------------------
(***************************************************************************)
(* What the network library promises to the servers built on it: a         *)
(* connection is given an id that no other connection has at that moment,  *)
(* it becomes active once and ends once, and packets are handled for       *)
(* connections that are active.                                            *)
(***************************************************************************)
EXTENDS Naturals

CONSTANTS Ids,    \* ids of sessions
          Conns   \* connections that may ever be made

VARIABLES active,   \* pairs <<id, connection>> between OnActive and OnClose
          ended,    \* connections after their OnClose
          handled   \* number of packets handled for each connection

avars == <<active, ended, handled>>

Init == /\ active = {}
        /\ ended = {}
        /\ handled = [c \in Conns |-> 0]

Activate(i, c) ==
    /\ \A p \in active : p[1] # i /\ p[2] # c
    /\ c \notin ended
    /\ active' = active \cup {<<i, c>>}
    /\ UNCHANGED <<ended, handled>>

Handle(i, c) ==
    /\ <<i, c>> \in active
    /\ handled' = [handled EXCEPT ![c] = @ + 1]
    /\ UNCHANGED <<active, ended>>

End(i, c) ==
    /\ <<i, c>> \in active
    /\ active' = active \ {<<i, c>>}
    /\ ended' = ended \cup {c}
    /\ UNCHANGED handled

Next == \E i \in Ids, c \in Conns : Activate(i, c) \/ Handle(i, c) \/ End(i, c)

Spec == Init /\ [][Next]_avars
=============================================================================
