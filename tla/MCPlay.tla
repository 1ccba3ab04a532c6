------------------------------- MODULE MCPlay -------------------------------
EXTENDS Play, TLC

Sword == 3300001
Potion == 2000001

\* Each character has a sword to move about and two stacks to merge and wears a sword as well.
MCLoads == {<<[item |-> Sword, type |-> "equip", quantity |-> 1, slot |-> 0, equipped |-> FALSE],
              [item |-> Potion, type |-> "etc", quantity |-> 2, slot |-> 1, equipped |-> FALSE],
              [item |-> Sword, type |-> "equip", quantity |-> 1, slot |-> -1, equipped |-> TRUE],
              [item |-> Potion, type |-> "etc", quantity |-> 3, slot |-> 2, equipped |-> FALSE]>>}

Symmetry == Permutations(Clients) \cup Permutations(Zones)
=============================================================================
