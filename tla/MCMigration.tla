---------------------------- MODULE MCMigration ----------------------------
(* Instances of Migration small enough for TLC. *)
EXTENDS Migration, TLC

CONSTANTS u1, u2, a1, ip1, ip2, c1

\* Two client programs of one account at two addresses: the account's owner after an address change.
MCAccountOf == [u \in Users |-> a1]
MCAddressOf == [u \in Users |-> IF u = u1 THEN ip1 ELSE ip2]
=============================================================================
