----------------------------- MODULE Admission -----------------------------
(***************************************************************************)
(* What the cluster promises about who may play: the abstract              *)
(* specification that Migration implements.                                *)
(*                                                                         *)
(* A successful login, and later the choice of a character, ISSUES an      *)
(* authority: a RemoteSessionInfo naming an account, the address it was    *)
(* issued to and the kind of server it is good for.  A server of that kind *)
(* ADMITS a connection by consuming one authority issued to the            *)
(* connection's account and address.  No authority admits two connections, *)
(* and an authority for a zone exists only because a lobby admitted that   *)
(* account from that address.                                              *)
(***************************************************************************)
EXTENDS Naturals

CONSTANTS Users,          \* client programs
          Servers,        \* login, lobby and zone servers
          AccountOf,      \* [Users -> account id]
          AddressOf,      \* [Users -> remote address]
          KindOf          \* [Servers -> Kinds]

Kinds == {"kLoginServer", "kLobbyServer", "kZoneServer"}

VARIABLES issued,     \* the authorities issued so far
          admitted    \* which connection each consumed authority admitted

vars == <<issued, admitted>>

Init ==
    /\ issued = {}
    /\ admitted = {}

\* An authority is issued later than all earlier ones; one for a zone follows a lobby's admission.
Issue ==
    \E i \in issued' \ issued :
        /\ issued' = issued \union {i}
        /\ i.clock \in Nat
        /\ \A j \in issued : j.clock < i.clock
        /\ \E u \in Users : i.account = AccountOf[u] /\ i.address = AddressOf[u]
        /\ \/ i.target = "kLobbyServer"
           \/ /\ i.target = "kZoneServer"
              /\ \E a \in admitted : /\ KindOf[a.uuid.server] = "kLobbyServer"
                                     /\ AccountOf[a.uuid.user] = i.account
                                     /\ AddressOf[a.uuid.user] = i.address
        /\ UNCHANGED admitted

\* A server admits a connection on an authority issued for it that nobody has used.
Admit ==
    \E a \in admitted' \ admitted :
        /\ admitted' = admitted \union {a}
        /\ \A b \in admitted : b.clock # a.clock
        /\ \E i \in issued : /\ i.clock = a.clock
                             /\ i.target = KindOf[a.uuid.server]
                             /\ i.account = AccountOf[a.uuid.user]
                             /\ i.address = AddressOf[a.uuid.user]
        /\ UNCHANGED issued

Next == Issue \/ Admit

Spec == Init /\ [][Next]_vars

=============================================================================
