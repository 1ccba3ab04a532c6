------------------------------ MODULE MCWorld ------------------------------
(* Instances of World small enough for TLC. *)
EXTENDS World, TLC

CONSTANTS dungeon1, dungeon2

\* The first dungeon's portal leads to the second, the second's to the town.
MCNextMap == [m \in Maps \ {Town} |-> IF m = dungeon1 /\ dungeon2 \in Maps THEN dungeon2 ELSE Town]
ClientSymmetry == Permutations(Clients)
=============================================================================
