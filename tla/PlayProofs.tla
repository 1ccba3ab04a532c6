----------------------------- MODULE PlayProofs -----------------------------
(***************************************************************************)
(* First what the operations on a character's items return, for every      *)
(* inventory.  Then what holds of Play for every number of players and     *)
(* zones and whatever the table of items holds: packets name the right     *)
(* character, hits are counted, no item is written that is not there, and  *)
(* none is made or lost.                                                   *)
(***************************************************************************)
EXTENDS Play, FiniteSetTheorems, WellFoundedInduction, TLAPS

-----------------------------------------------------------------------------
(* Inventory and Equipment.                                                *)

\* Inventory::Push and Pop keep an inventory an inventory.
LEMMA PushIsInventory ==
  ASSUME NEW f, IsInventory(f), NEW i \in Index, NEW item \in ItemIds, NEW n \in Nat
  PROVE  IsInventory(Push(f, i, item, n))
BY DEF IsInventory, Push, Slot

LEMMA PopIsInventory ==
  ASSUME NEW f, IsInventory(f), NEW i
  PROVE  IsInventory(Pop(f, i))
BY DEF IsInventory, Pop

\* What the slots of an inventory are after Push and Pop.
LEMMA PushSlots ==
  ASSUME NEW f, NEW i, NEW item, NEW n
  PROVE  /\ DOMAIN Push(f, i, item, n) = DOMAIN f \cup {i}
         /\ Push(f, i, item, n)[i] = [item |-> item, count |-> n]
         /\ \A j \in DOMAIN f \ {i} : Push(f, i, item, n)[j] = f[j]
BY DEF Push

LEMMA PopSlots ==
  ASSUME NEW f, NEW i
  PROVE  /\ DOMAIN Pop(f, i) = DOMAIN f \ {i}
         /\ \A j \in DOMAIN f \ {i} : Pop(f, i)[j] = f[j]
BY DEF Pop

\* An occupied slot holds an item and a count.
LEMMA SlotType ==
  ASSUME NEW f, IsInventory(f), NEW i \in DOMAIN f
  PROVE  f[i].item \in ItemIds /\ f[i].count \in Nat
BY DEF IsInventory, Slot

-----------------------------------------------------------------------------
(* Character::ChangeInventoryItemPosition.                                 *)

\* What a change does to the slots: nothing, a move, a merge or a swap.
LEMMA ChangeCases ==
  ASSUME NEW f, IsInventory(f), NEW prev, NEW next
  PROVE  LET g == ChangeInventoryItemPosition(f, prev, next)
         IN  \/ g = f /\ ~({prev, next} \subseteq Index /\ prev \in DOMAIN f)
             \/ /\ {prev, next} \subseteq Index /\ prev \in DOMAIN f
                /\ next = prev \/ next \notin DOMAIN f
                /\ g = Push(Pop(f, prev), next, f[prev].item, f[prev].count)
             \/ /\ {prev, next} \subseteq Index /\ {prev, next} \subseteq DOMAIN f /\ prev # next
                /\ f[next].item = f[prev].item /\ f[prev].item \notin Equips
                /\ g = Push(Pop(f, prev), next, f[prev].item, f[prev].count + f[next].count)
             \/ /\ {prev, next} \subseteq Index /\ {prev, next} \subseteq DOMAIN f /\ prev # next
                /\ g = Push(Push(Pop(f, prev), prev, f[next].item, f[next].count),
                            next, f[prev].item, f[prev].count)
<1> DEFINE taken == Pop(f, prev)
<1>1. CASE ~({prev, next} \subseteq Index /\ prev \in DOMAIN f)
  BY <1>1 DEF ChangeInventoryItemPosition, HasItem
<1>2. CASE {prev, next} \subseteq Index /\ prev \in DOMAIN f
  <2>1. DOMAIN taken = DOMAIN f \ {prev} /\ \A j \in DOMAIN f \ {prev} : taken[j] = f[j]
    BY PopSlots
  <2>2. CASE next \notin DOMAIN taken
    BY <1>2, <2>1, <2>2 DEF ChangeInventoryItemPosition, HasItem
  <2>3. CASE next \in DOMAIN taken
    <3>1. next # prev /\ next \in DOMAIN f /\ taken[next] = f[next]
      BY <2>1, <2>3
    <3>2. CASE f[next].item \notin Equips /\ f[next].item = f[prev].item
      <4>1. ChangeInventoryItemPosition(f, prev, next)
              = Push(taken, next, f[prev].item, f[prev].count + f[next].count)
        BY <1>2, <2>3, <3>1, <3>2 DEF ChangeInventoryItemPosition, HasItem
      <4> QED  BY <4>1, <1>2, <3>1, <3>2
    <3>3. CASE ~(f[next].item \notin Equips /\ f[next].item = f[prev].item)
      <4>1. ChangeInventoryItemPosition(f, prev, next)
              = Push(Push(taken, prev, f[next].item, f[next].count), next, f[prev].item, f[prev].count)
        BY <1>2, <2>3, <3>1, <3>3 DEF ChangeInventoryItemPosition, HasItem
      <4> QED  BY <4>1, <1>2, <3>1
    <3> QED  BY <3>2, <3>3
  <2> QED  BY <2>2, <2>3
<1> QED  BY <1>1, <1>2

\* The items stay an inventory.
LEMMA ChangeIsInventory ==
  ASSUME NEW f, IsInventory(f), NEW prev, NEW next
  PROVE  IsInventory(ChangeInventoryItemPosition(f, prev, next))
<1> DEFINE taken == Pop(f, prev)
<1>1. IsInventory(taken)
  BY PopIsInventory
<1>2. ASSUME prev \in Index, next \in Index, prev \in DOMAIN f
      PROVE  IsInventory(Push(taken, next, f[prev].item, f[prev].count))
  BY <1>1, <1>2, SlotType, PushIsInventory
<1>3. ASSUME prev \in Index, next \in Index, prev \in DOMAIN f, next \in DOMAIN f
      PROVE  /\ IsInventory(Push(taken, next, f[prev].item, f[prev].count + f[next].count))
             /\ IsInventory(Push(Push(taken, prev, f[next].item, f[next].count),
                                 next, f[prev].item, f[prev].count))
  <2>1. f[prev].item \in ItemIds /\ f[next].item \in ItemIds
    BY <1>3, SlotType
  <2>2. f[prev].count \in Nat /\ f[next].count \in Nat
    BY <1>3, SlotType
  <2>3. f[prev].count + f[next].count \in Nat
    BY <2>2
  <2>4. IsInventory(Push(taken, prev, f[next].item, f[next].count))
    BY <1>1, <1>3, <2>1, <2>2, PushIsInventory
  <2> HIDE DEF taken
  <2> QED  BY <1>1, <1>3, <2>1, <2>2, <2>3, <2>4, PushIsInventory
<1> HIDE DEF taken
<1> QED  BY <1>2, <1>3, ChangeCases DEF taken

\* Only the two slots that are named change, and both stay as occupied as a reply to the player
\* needs them: HandleInventoryUpdate sends the item of the second slot when the first is occupied
\* (PacketGenerator.cpp:81).
THEOREM ChangeWritesNoNull ==
  ASSUME NEW f, IsInventory(f), NEW prev, NEW next
  PROVE  LET g == ChangeInventoryItemPosition(f, prev, next)
         IN  /\ {prev, next} \subseteq Index => ~WritesNull(g, prev, next)
             /\ \A j \in Index \ {prev, next} :
                   (j \in DOMAIN g <=> j \in DOMAIN f) /\ (j \in DOMAIN f => g[j] = f[j])
<1> DEFINE g == ChangeInventoryItemPosition(f, prev, next)
           taken == Pop(f, prev)
<1>1. DOMAIN taken = DOMAIN f \ {prev} /\ \A j \in DOMAIN f \ {prev} : taken[j] = f[j]
  BY PopSlots
<1> SUFFICES /\ {prev, next} \subseteq Index => ~WritesNull(g, prev, next)
             /\ \A j \in Index \ {prev, next} :
                   (j \in DOMAIN g <=> j \in DOMAIN f) /\ (j \in DOMAIN f => g[j] = f[j])
  OBVIOUS
<1> HIDE DEF taken
<1>2. ASSUME NEW item, NEW n, g = Push(taken, next, item, n)
      PROVE  /\ ~WritesNull(g, prev, next)
             /\ \A j \in Index \ {prev, next} :
                   (j \in DOMAIN g <=> j \in DOMAIN f) /\ (j \in DOMAIN f => g[j] = f[j])
  <2>1. DOMAIN g = DOMAIN taken \cup {next} /\ \A j \in DOMAIN taken \ {next} : g[j] = taken[j]
    <3> HIDE DEF g
    <3> QED  BY <1>2 DEF Push
  <2> HIDE DEF g
  <2> QED  BY <1>1, <2>1 DEF WritesNull, HasItem
<1>3. ASSUME NEW item, NEW n, NEW item2, NEW n2,
             g = Push(Push(taken, prev, item2, n2), next, item, n)
      PROVE  /\ ~WritesNull(g, prev, next)
             /\ \A j \in Index \ {prev, next} :
                   (j \in DOMAIN g <=> j \in DOMAIN f) /\ (j \in DOMAIN f => g[j] = f[j])
  <2> DEFINE t2 == Push(taken, prev, item2, n2)
  <2>1. DOMAIN t2 = DOMAIN taken \cup {prev} /\ \A j \in DOMAIN taken \ {prev} : t2[j] = taken[j]
    BY DEF Push
  <2>2. DOMAIN g = DOMAIN t2 \cup {next} /\ \A j \in DOMAIN t2 \ {next} : g[j] = t2[j]
    <3> HIDE DEF g
    <3> QED  BY <1>3 DEF Push, t2
  <2> HIDE DEF t2, g
  <2> QED  BY <1>1, <2>1, <2>2 DEF WritesNull, HasItem
<1>4. CASE g = f /\ ~({prev, next} \subseteq Index /\ prev \in DOMAIN f)
  BY <1>4 DEF WritesNull, HasItem
<1> HIDE DEF g
<1> QED  BY <1>2, <1>3, <1>4, ChangeCases DEF g, taken

\* Equipment is never stacked.
Unstacked(f) == \A j \in DOMAIN f : f[j].item \in Equips => f[j].count = 1

\* A change makes and loses no item: the two slots together have as many of each as before, the other
\* slots are as they were (ChangeWritesNoNull), and equipment is not stacked (Character.cpp:282-291).
THEOREM ChangeKeepsItems ==
  ASSUME NEW f, IsInventory(f), NEW prev, NEW next
  PROVE  LET g == ChangeInventoryItemPosition(f, prev, next)
         IN  /\ \A item : prev # next =>
                    CountAt(g, prev, item) + CountAt(g, next, item) = CountAt(f, prev, item) + CountAt(f, next, item)
             /\ \A item : prev = next => CountAt(g, prev, item) = CountAt(f, prev, item)
             /\ Unstacked(f) => Unstacked(g)
<1> DEFINE g == ChangeInventoryItemPosition(f, prev, next)
           taken == Pop(f, prev)
           Kept == /\ \A item : prev # next =>
                         CountAt(g, prev, item) + CountAt(g, next, item) = CountAt(f, prev, item) + CountAt(f, next, item)
                   /\ \A item : prev = next => CountAt(g, prev, item) = CountAt(f, prev, item)
                   /\ Unstacked(f) => Unstacked(g)
<1>1. DOMAIN taken = DOMAIN f \ {prev} /\ \A j \in DOMAIN f \ {prev} : taken[j] = f[j]
  BY PopSlots
<1>2. \A j \in DOMAIN f : f[j].count \in Nat
  BY SlotType
<1> SUFFICES Kept
  OBVIOUS
<1> HIDE DEF taken, g
<1>3. CASE g = f /\ ~({prev, next} \subseteq Index /\ prev \in DOMAIN f)
  BY <1>2, <1>3 DEF CountAt
<1>4. CASE /\ prev \in DOMAIN f /\ (next = prev \/ next \notin DOMAIN f)
           /\ g = Push(taken, next, f[prev].item, f[prev].count)
  <2>1. /\ DOMAIN g = (DOMAIN f \ {prev}) \cup {next}
        /\ g[next] = [item |-> f[prev].item, count |-> f[prev].count]
        /\ \A j \in DOMAIN f \ {prev, next} : g[j] = f[j]
    BY <1>1, <1>4 DEF Push
  <2> QED  BY <1>2, <1>4, <2>1 DEF CountAt, Unstacked
<1>5. CASE /\ {prev, next} \subseteq DOMAIN f /\ prev # next
           /\ f[next].item = f[prev].item /\ f[prev].item \notin Equips
           /\ g = Push(taken, next, f[prev].item, f[prev].count + f[next].count)
  <2>1. /\ DOMAIN g = (DOMAIN f \ {prev}) \cup {next}
        /\ g[next] = [item |-> f[prev].item, count |-> f[prev].count + f[next].count]
        /\ \A j \in DOMAIN f \ {prev, next} : g[j] = f[j]
    BY <1>1, <1>5 DEF Push
  <2> QED  BY <1>2, <1>5, <2>1 DEF CountAt, Unstacked
<1>6. CASE /\ {prev, next} \subseteq DOMAIN f /\ prev # next
           /\ g = Push(Push(taken, prev, f[next].item, f[next].count), next, f[prev].item, f[prev].count)
  <2>1. /\ DOMAIN g = DOMAIN f
        /\ g[next] = [item |-> f[prev].item, count |-> f[prev].count]
        /\ g[prev] = [item |-> f[next].item, count |-> f[next].count]
        /\ \A j \in DOMAIN f \ {prev, next} : g[j] = f[j]
    BY <1>1, <1>6 DEF Push
  <2> QED  BY <1>2, <1>6, <2>1 DEF CountAt, Unstacked
<1> HIDE DEF Kept
<1> QED  BY <1>3, <1>4, <1>5, <1>6, ChangeCases DEF g, taken

\* The pieces of one slot are as many as its count, and are those of no other slot.
LEMMA PiecesOfSlot ==
  ASSUME NEW i, NEW n \in Nat
  PROVE  IsFiniteSet({i} \X (1 .. n)) /\ Cardinality({i} \X (1 .. n)) = n
<1>1. IsFiniteSet({i}) /\ Cardinality({i}) = 1
  BY FS_Singleton
<1>2. IsFiniteSet(1 .. n) /\ Cardinality(1 .. n) = n
  BY FS_Interval
<1>3. /\ IsFiniteSet({i} \X (1 .. n))
      /\ Cardinality({i} \X (1 .. n)) = Cardinality({i}) * Cardinality(1 .. n)
  BY <1>1, <1>2, FS_Product
<1> QED  BY <1>1, <1>2, <1>3

\* The pieces in all slots but p and q.
Others(f, p, q, item) == {x \in Pieces(f, item) : x[1] \notin {p, q}}
PiecesAt(f, j, item) == {j} \X (1 .. CountAt(f, j, item))

\* The total of an item is what two slots have of it and what the others have.
LEMMA TotalOfTwo ==
  ASSUME NEW f, IsInventory(f), NEW p \in Index, NEW q \in Index, NEW item
  PROVE  /\ IsFiniteSet(Others(f, p, q, item))
         /\ p # q => Total(f, item)
                       = Cardinality(Others(f, p, q, item)) + CountAt(f, p, item) + CountAt(f, q, item)
<1> DEFINE A == PiecesAt(f, p, item)
           B == PiecesAt(f, q, item)
           R == Others(f, p, q, item)
<1>1. \A j : CountAt(f, j, item) \in Nat
  BY SlotType DEF CountAt
<1>2. /\ IsFiniteSet(A) /\ Cardinality(A) = CountAt(f, p, item)
      /\ IsFiniteSet(B) /\ Cardinality(B) = CountAt(f, q, item)
  BY <1>1, PiecesOfSlot DEF PiecesAt
<1>3. IsFiniteSet(Pieces(f, item))
  <2> DEFINE S == {PiecesAt(f, j, item) : j \in Index}
  <2>1. IsFiniteSet(Index)
    BY FS_Interval, ItemsAssumption DEF Index
  <2>2. IsFiniteSet(S)
    <3> DEFINE slot == [j \in Index |-> PiecesAt(f, j, item)]
    <3>1. slot \in Surjection(Index, S)
      BY DEF Surjection
    <3> HIDE DEF slot, S
    <3> QED  BY <2>1, <3>1, FS_Surjection
  <2>3. ASSUME NEW T \in S PROVE IsFiniteSet(T)
    <3>1. PICK j \in Index : T = PiecesAt(f, j, item)
      OBVIOUS
    <3>2. CountAt(f, j, item) \in Nat
      BY <1>1
    <3> QED  BY <3>1, <3>2, PiecesOfSlot DEF PiecesAt
  <2>4. Pieces(f, item) = UNION S
    BY DEF Pieces, PiecesAt
  <2> HIDE DEF S
  <2> QED  BY <2>2, <2>3, <2>4, FS_UNION
<1>4. IsFiniteSet(R)
  BY <1>3, FS_Subset DEF Others
<1>5. Pieces(f, item) = R \cup (A \cup B)
  BY DEF Others, Pieces, PiecesAt
<1>6. R \cap (A \cup B) = {}
  BY DEF Others, PiecesAt
<1>7. p # q => A \cap B = {}
  BY DEF PiecesAt
<1>8. Cardinality({}) = 0
  BY FS_EmptySet
<1> HIDE DEF A, B, R
<1>9. /\ IsFiniteSet(A \cup B)
      /\ Cardinality(A \cup B) = Cardinality(A) + Cardinality(B) - Cardinality(A \cap B)
  BY <1>2, FS_Union
<1>10. Cardinality(R \cup (A \cup B)) = Cardinality(R) + Cardinality(A \cup B) - Cardinality(R \cap (A \cup B))
  BY <1>4, <1>9, FS_Union
<1>11. Cardinality(R) \in Nat /\ Cardinality(A) \in Nat /\ Cardinality(B) \in Nat
  BY <1>2, <1>4, FS_CardinalityType
<1>12. p # q => Total(f, item) = Cardinality(R) + Cardinality(A) + Cardinality(B)
  <2>1. Total(f, item) = Cardinality(R \cup (A \cup B))
    BY <1>5 DEF Total
  <2>2. Cardinality(R \cup (A \cup B)) = Cardinality(R) + Cardinality(A \cup B) - 0
    BY <1>6, <1>8, <1>10
  <2>3. p # q => Cardinality(A \cup B) = Cardinality(A) + Cardinality(B) - 0
    BY <1>7, <1>8, <1>9
  <2>4. Cardinality(A \cup B) \in Nat
    BY <1>9, FS_CardinalityType
  <2> QED  BY <2>1, <2>2, <2>3, <2>4, <1>11
<1> QED  BY <1>2, <1>4, <1>12 DEF R

\* A change keeps the total of every item: all that an inventory holds is in its slots, and what one
\* of the two slots loses the other gains.
THEOREM ChangeKeepsTotals ==
  ASSUME NEW f, IsInventory(f), NEW prev, NEW next, NEW item
  PROVE  Total(ChangeInventoryItemPosition(f, prev, next), item) = Total(f, item)
<1> DEFINE g == ChangeInventoryItemPosition(f, prev, next)
<1>1. IsInventory(g)
  BY ChangeIsInventory
<1>2. CASE ~({prev, next} \subseteq Index /\ prev \in DOMAIN f)
  BY <1>2 DEF ChangeInventoryItemPosition, HasItem
<1>3. CASE {prev, next} \subseteq Index
  <2>1. \A j \in Index \ {prev, next} : CountAt(g, j, item) = CountAt(f, j, item)
    <3>1. \A j \in Index \ {prev, next} :
            (j \in DOMAIN g <=> j \in DOMAIN f) /\ (j \in DOMAIN f => g[j] = f[j])
      BY ChangeWritesNoNull
    <3> HIDE DEF g
    <3> QED  BY <3>1 DEF CountAt
  <2>2. /\ prev # next => CountAt(g, prev, item) + CountAt(g, next, item)
                            = CountAt(f, prev, item) + CountAt(f, next, item)
        /\ prev = next => CountAt(g, prev, item) = CountAt(f, prev, item)
    BY ChangeKeepsItems
  <2>3. \A j : CountAt(f, j, item) \in Nat /\ CountAt(g, j, item) \in Nat
    <3> HIDE DEF g
    <3> QED  BY <1>1, SlotType DEF CountAt
  <2> HIDE DEF g
  <2>4. CASE prev = next
    <3>1. \A j \in Index : CountAt(g, j, item) = CountAt(f, j, item)
      BY <2>1, <2>2, <2>4
    <3>2. Pieces(g, item) = Pieces(f, item)
      BY <3>1 DEF Pieces
    <3> QED  BY <3>2 DEF Total, g
  <2>5. CASE prev # next
    <3>1. Others(g, prev, next, item) = Others(f, prev, next, item)
      BY <2>1 DEF Others, Pieces
    <3>2. /\ IsFiniteSet(Others(f, prev, next, item))
          /\ Total(f, item) = Cardinality(Others(f, prev, next, item))
                                + CountAt(f, prev, item) + CountAt(f, next, item)
          /\ Total(g, item) = Cardinality(Others(g, prev, next, item))
                                + CountAt(g, prev, item) + CountAt(g, next, item)
      BY <1>1, <1>3, <2>5, TotalOfTwo
    <3>3. Cardinality(Others(f, prev, next, item)) \in Nat
      BY <3>2, FS_CardinalityType
    <3>4. Total(g, item) = Total(f, item)
      BY <2>2, <2>3, <2>5, <3>1, <3>2, <3>3
    <3> QED  BY <3>4 DEF g
  <2> QED  BY <2>4, <2>5
<1> QED  BY <1>2, <1>3

-----------------------------------------------------------------------------
(* Character::InventoryToEquipment and EquipmentToInventory.               *)

\* The character wears the item at the position.
Wears(chr, pos, item) == pos \in DOMAIN chr.equipment /\ chr.equipment[pos] = item

\* Putting equipment on and taking it off loses nothing: either nothing changes or the item is in the
\* other place and the place it came from is empty.  The one thing that is lost is what is not
\* equipment and is put on: it was taken out of the inventory before its type is known
\* (Character.cpp:235).
THEOREM EquippingKeepsItems ==
  ASSUME NEW inventory, NEW equipment, IsInventory(inventory), IsEquipment(equipment), NEW i, NEW pos
  PROVE  LET chr == [inventory |-> inventory, equipment |-> equipment]
             on == InventoryToEquipment(chr, i, pos)
             off == EquipmentToInventory(chr, pos, i)
         IN  /\ \/ on = chr
                \/ /\ HasItem(inventory, i) /\ ~HasEquipItem(equipment, pos)
                   /\ ~HasItem(on.inventory, i)
                   /\ inventory[i].item \in Equips <=> Wears(on, pos, inventory[i].item)
             /\ \/ off = chr
                \/ /\ ~HasItem(inventory, i) /\ HasEquipItem(equipment, pos)
                   /\ ~HasEquipItem(off.equipment, pos)
                   /\ HasItem(off.inventory, i) /\ off.inventory[i] = [item |-> equipment[pos], count |-> 1]
<1> DEFINE chr == [inventory |-> inventory, equipment |-> equipment]
           on == InventoryToEquipment(chr, i, pos)
           off == EquipmentToInventory(chr, pos, i)
<1>1. \/ on = chr
      \/ /\ HasItem(inventory, i) /\ ~HasEquipItem(equipment, pos)
         /\ ~HasItem(on.inventory, i)
         /\ inventory[i].item \in Equips <=> Wears(on, pos, inventory[i].item)
  BY DEF InventoryToEquipment, HasItem, HasEquipItem, Wears, Pop, Equip
<1>2. \/ off = chr
      \/ /\ ~HasItem(inventory, i) /\ HasEquipItem(equipment, pos)
         /\ ~HasEquipItem(off.equipment, pos)
         /\ HasItem(off.inventory, i) /\ off.inventory[i] = [item |-> equipment[pos], count |-> 1]
  BY DEF EquipmentToInventory, HasItem, HasEquipItem, UnEquip, Push
<1> QED  BY <1>1, <1>2

-----------------------------------------------------------------------------
(* Character::Initialize.                                                  *)

\* A set of positions of a sequence has a last one.
LEMMA LastPosition ==
  ASSUME NEW n \in Nat, NEW S, S \subseteq 1 .. n, S # {}
  PROVE  \E i \in S : \A j \in S : j <= i
<1> DEFINE T == {n - i : i \in S}
           R == OpToRel(<, Nat)
<1>1. T \subseteq Nat /\ T # {}
  <2>1. \A i \in S : n - i \in Nat
    OBVIOUS
  <2>2. PICK i \in S : TRUE
    OBVIOUS
  <2>3. n - i \in T
    BY <2>2
  <2> QED  BY <2>1, <2>3
<1>2. PICK x \in T : \A y \in T : ~(<<y, x>> \in R)
  <2>1. IsWellFoundedOn(R, Nat)
    BY NatLessThanWellFounded
  <2> HIDE DEF T, R
  <2> QED  BY <1>1, <2>1, WFMin
<1>3. PICK i \in S : x = n - i
  BY <1>2
<1>4. ASSUME NEW j \in S PROVE j <= i
  <2>1. n - j \in T
    OBVIOUS
  <2>2. ~(n - j < x)
    <3>1. ~(<<n - j, x>> \in R)
      BY <1>2, <2>1
    <3> QED  BY <1>1, <1>2, <2>1, <3>1 DEF OpToRel
  <2> QED  BY <1>3, <2>2
<1> QED  BY <1>4

\* Every place that rows occupy has a last row.
LEMMA LastRowExists ==
  ASSUME NEW rows, rows \in Seq(Row), NEW worn, NEW spot, spot \in Places(rows, worn)
  PROVE  LET i == LastRow(rows, worn, spot)
         IN  i \in DOMAIN rows /\ Worn(rows[i]) = worn /\ PlaceOf(rows[i]) = spot
<1> DEFINE S == {i \in DOMAIN rows : Worn(rows[i]) = worn /\ PlaceOf(rows[i]) = spot}
<1>1. S \subseteq 1 .. Len(rows) /\ Len(rows) \in Nat
  OBVIOUS
<1>2. S # {}
  BY DEF Places
<1>3. \E i \in S : \A j \in S : j <= i
  <2> HIDE DEF S
  <2> QED  BY <1>1, <1>2, LastPosition
<1>4. \E i \in DOMAIN rows :
        /\ Worn(rows[i]) = worn /\ PlaceOf(rows[i]) = spot
        /\ \A j \in DOMAIN rows : Worn(rows[j]) = worn /\ PlaceOf(rows[j]) = spot => j <= i
  BY <1>3
<1> QED  BY <1>4 DEF LastRow

\* A character that is loaded without a crash has an inventory and equipment, and nothing stacked that
\* may not be, whatever slots the table names: rows outside of the inventory are dropped, and a later
\* row replaces an earlier one.
THEOREM InitializeItems ==
  ASSUME NEW rows, IsLoad(rows), ~Crashes(rows)
  PROVE  /\ IsInventory(Initialize(rows).inventory)
         /\ IsEquipment(Initialize(rows).equipment)
         /\ Unstacked(Initialize(rows).inventory)
<1>1. ASSUME NEW worn, NEW spot \in Places(rows, worn)
      PROVE  LET row == rows[LastRow(rows, worn, spot)]
             IN  /\ row.item \in ItemIds /\ row.quantity \in Nat
                 /\ row.type = "equip" <=> row.item \in Equips
                 /\ worn = TRUE => row.type = "equip"
  <2>1. /\ LastRow(rows, worn, spot) \in DOMAIN rows
        /\ Worn(rows[LastRow(rows, worn, spot)]) = worn
    BY <1>1, LastRowExists DEF IsLoad
  <2>2. rows[LastRow(rows, worn, spot)] \in Row
    BY <2>1 DEF IsLoad
  <2> QED  BY <2>1, <2>2 DEF IsLoad, Row, Worn
<1> DEFINE inv == Initialize(rows).inventory
           eqp == Initialize(rows).equipment
<1>2. /\ DOMAIN inv = Index \cap Places(rows, FALSE)
      /\ \A i \in DOMAIN inv :
            LET row == rows[LastRow(rows, FALSE, i)]
            IN  inv[i] = [item |-> row.item, count |-> IF row.type = "equip" THEN 1 ELSE row.quantity]
      /\ inv = [i \in DOMAIN inv |-> inv[i]]
  BY DEF Initialize
<1>3. /\ DOMAIN eqp = Positions \cap Places(rows, TRUE)
      /\ \A p \in DOMAIN eqp : eqp[p] = rows[LastRow(rows, TRUE, p)].item
      /\ eqp = [p \in DOMAIN eqp |-> eqp[p]]
  BY DEF Initialize
<1> HIDE DEF inv, eqp
<1>4. IsInventory(inv) /\ Unstacked(inv)
  <2>1. ASSUME NEW i \in DOMAIN inv
        PROVE  inv[i] \in Slot /\ (inv[i].item \in Equips => inv[i].count = 1)
    <3> DEFINE row == rows[LastRow(rows, FALSE, i)]
    <3>1. row.item \in ItemIds /\ row.quantity \in Nat /\ (row.type = "equip" <=> row.item \in Equips)
      BY <1>1, <1>2, <2>1
    <3>2. inv[i] = [item |-> row.item, count |-> IF row.type = "equip" THEN 1 ELSE row.quantity]
      BY <1>2, <2>1
    <3> HIDE DEF row
    <3> QED  BY <3>1, <3>2 DEF Slot
  <2> QED  BY <1>2, <2>1 DEF IsInventory, Unstacked
<1>5. IsEquipment(eqp)
  BY <1>1, <1>3 DEF IsEquipment
<1> QED  BY <1>4, <1>5 DEF inv, eqp

-----------------------------------------------------------------------------
(* The inductive invariant.                                                *)

PlaceType ==
    /\ zone_ \in [Clients -> Zones \cup {Nowhere}]
    /\ object_id_ \in [Clients -> Nat]
    /\ last_object_id_ \in [Zones -> Nat]
    /\ chrs_ \in [Zones -> SUBSET (Nat \X Clients)]
    /\ ids \in [Clients -> SUBSET (Zones \X Nat)]
    /\ move \in [Clients -> [pc : {"no", "remove", "spawn", "enter"}, zone : Zones \cup {Nowhere}, oid : Nat]]
    /\ moves \in 0 .. MaxMoves

\* An object id of a zone is given to one character.
IdsDiffer ==
    /\ \A c \in Clients, z \in Zones, n \in Nat : <<z, n>> \in ids[c] => n < last_object_id_[z]
    /\ \A c, d \in Clients, z \in Zones, n \in Nat : <<z, n>> \in ids[c] /\ <<z, n>> \in ids[d] => c = d
    /\ \A z \in Zones, n \in Nat, c \in Clients : <<n, c>> \in chrs_[z] => <<z, n>> \in ids[c]

\* Where a character is while it is moved.
PlaceFits(c) ==
    /\ move[c].pc = "no" => zone_[c] \in Zones /\ <<object_id_[c], c>> \in chrs_[zone_[c]]
    /\ move[c].pc \in {"remove", "spawn"} => zone_[c] = Nowhere
    /\ move[c].pc = "enter" => zone_[c] = move[c].zone /\ object_id_[c] = move[c].oid
    /\ move[c].pc # "no" => move[c].zone \in Zones /\ <<move[c].zone, move[c].oid>> \in ids[c]

PlaceInv ==
    /\ PlaceType
    /\ IdsDiffer
    /\ \A c \in Clients : PlaceFits(c)

HandlerType ==
    /\ h \in [Clients -> [pc : {"idle", "build", "send", "aim", "strike"}, kind : Kinds \cup {"none"},
                          zone : Zones \cup {Nowhere}, oid : Nat, hp : Nat, moved : BOOLEAN]]
    /\ named \subseteq [kind : Kinds, moved : BOOLEAN, right : BOOLEAN]
    /\ closed \subseteq Clients
    /\ packets \in 0 .. MaxPackets

\* What a handler knows of its character.
HandlerFits(c) ==
    /\ h[c].pc # "idle" => h[c].zone \in Zones /\ h[c].kind \in Kinds
    /\ h[c].pc # "idle" /\ ~h[c].moved => <<h[c].zone, object_id_[c]>> \in ids[c]
    /\ h[c].pc = "send" /\ (~h[c].moved \/ h[c].kind \in {"wait", "rolling"}) => <<h[c].zone, h[c].oid>> \in ids[c]
    /\ h[c].pc \notin {"idle", "send"} => h[c].kind \notin {"wait", "rolling"}

HandlerInv ==
    /\ HandlerType
    /\ \A c \in Clients : HandlerFits(c)
    /\ RightName

FightType ==
    /\ hp \in [Clients -> 0 .. ChrHp]
    /\ mob \in [Zones -> [hp : 0 .. MobHp, state : {"kAlive", "kDead"}]]
    /\ strikes \in [Zones -> Nat]
    /\ told \in [Zones -> 0 .. MobHp]
    /\ deaths \in [Clients -> Nat]

\* Whoever strikes has the HP of its victim, which nobody else changes meanwhile.
StrikeFits(c) ==
    /\ h[c].pc = "strike" => h[c].kind \in {"hit", "mobattack"}
    /\ h[c].pc = "strike" /\ h[c].kind = "hit" => h[c].hp = mob[h[c].zone].hp
    /\ h[c].pc = "strike" /\ h[c].kind = "mobattack" => h[c].hp = hp[c]
    /\ h[c].pc \in {"aim", "strike"} /\ h[c].kind = "mobattack" => hp[c] # 0

FightInv ==
    /\ FightType
    /\ \A c \in Clients : StrikeFits(c)
    /\ \A c, d \in Clients :
          h[c].pc = "strike" /\ h[d].pc = "strike" /\ h[c].zone = h[d].zone => c = d
    /\ HitsCount

\* What characters have, and that no null pointer was written.
GoodsInv ==
    /\ items \in [Clients -> [inventory : {f \in UNION {[S -> Slot] : S \in SUBSET Index} : Unstacked(f)},
                              equipment : UNION {[S -> Equips] : S \in SUBSET Positions}]]
    /\ crashed = FALSE

PlayInv == PlaceInv /\ HandlerInv /\ FightInv /\ GoodsInv

-----------------------------------------------------------------------------
(* The zones.                                                              *)

\* The invariant of the zones is about the place alone.
LEMMA PlaceUnchanged ==
  ASSUME PlaceInv, UNCHANGED place
  PROVE  PlaceInv'
BY DEF PlaceInv, PlaceType, IdsDiffer, PlaceFits, place

LEMMA PlaceInit == Init => PlaceInv
<1> SUFFICES ASSUME Init PROVE PlaceInv
  OBVIOUS
<1>1. \A c \in Clients : zone_[c] \in Zones
  BY DEF Init
<1>2. PlaceType
  BY <1>1, PlayAssumption DEF Init, PlaceType, NoMove, MobOid
<1>3. IdsDiffer
  BY <1>1 DEF Init, IdsDiffer, MobOid
<1>4. \A c \in Clients : PlaceFits(c)
  BY <1>1 DEF Init, PlaceFits, NoMove, MobOid
<1> QED  BY <1>2, <1>3, <1>4 DEF PlaceInv

\* Whoever has a zone has its object id there.
LEMMA PlaceId ==
  ASSUME PlaceInv, NEW c \in Clients, zone_[c] # Nowhere
  PROVE  zone_[c] \in Zones /\ <<zone_[c], object_id_[c]>> \in ids[c]
BY DEF PlaceInv, PlaceType, IdsDiffer, PlaceFits

LEMMA PlaceStep ==
  ASSUME PlaceInv, [Next]_vars
  PROVE  PlaceInv'
<1>1. ASSUME NEW c \in Clients, SetZoneNull(c)
      PROVE  PlaceInv'
  <2>1. zone_[c] \in Zones /\ <<zone_[c], object_id_[c]>> \in ids[c]
    BY <1>1, PlaceId DEF SetZoneNull
  <2>2. PlaceType'
    BY <1>1, PlayAssumption DEF PlaceInv, PlaceType, SetZoneNull
  <2>3. IdsDiffer'
    BY <1>1 DEF PlaceInv, IdsDiffer, SetZoneNull
  <2>4. ASSUME NEW d \in Clients PROVE PlaceFits(d)'
    BY <1>1, <2>1 DEF PlaceInv, PlaceType, PlaceFits, SetZoneNull
  <2> QED  BY <2>2, <2>3, <2>4 DEF PlaceInv
<1>2. ASSUME NEW c \in Clients, RemoveCharacter(c)
      PROVE  PlaceInv'
  <2>1. PlaceType'
    BY <1>2 DEF PlaceInv, PlaceType, RemoveCharacter
  <2>2. IdsDiffer'
    BY <1>2 DEF PlaceInv, PlaceType, IdsDiffer, RemoveCharacter
  <2>3. ASSUME NEW d \in Clients PROVE PlaceFits(d)'
    <3>1. /\ move[c].zone \in Zones /\ move[c].oid \in Nat /\ <<move[c].zone, move[c].oid>> \in ids[c]
          /\ move[c].pc = "remove"
      BY <1>2 DEF PlaceInv, PlaceType, PlaceFits, RemoveCharacter
    <3>2. CASE d = c
      <4>1. move'[c] = [move[c] EXCEPT !.pc = "spawn"] /\ zone_' = zone_ /\ ids' = ids
        BY <1>2 DEF PlaceInv, PlaceType, RemoveCharacter
      <4>2. move'[c].pc = "spawn" /\ move'[c].zone = move[c].zone /\ move'[c].oid = move[c].oid
        BY <4>1 DEF PlaceInv, PlaceType
      <4> QED  BY <3>1, <3>2, <4>1, <4>2 DEF PlaceInv, PlaceFits
    <3>3. CASE d # c
      <4>1. move'[d] = move[d] /\ zone_' = zone_ /\ ids' = ids /\ object_id_' = object_id_
        BY <1>2, <3>3 DEF PlaceInv, PlaceType, RemoveCharacter
      <4>2. ASSUME move[d].pc = "no"
            PROVE  <<object_id_[d], d>> \in chrs_'[zone_[d]]
        <5>1. zone_[d] \in Zones /\ <<object_id_[d], d>> \in chrs_[zone_[d]] /\ object_id_[d] \in Nat
          BY <4>2 DEF PlaceInv, PlaceType, PlaceFits
        <5>2. <<zone_[d], object_id_[d]>> \in ids[d]
          BY <5>1 DEF PlaceInv, IdsDiffer
        <5>3. ~(zone_[d] = move[c].zone /\ object_id_[d] = move[c].oid)
          BY <3>1, <3>3, <5>1, <5>2 DEF PlaceInv, IdsDiffer
        <5>4. chrs_'[zone_[d]] = IF zone_[d] = move[c].zone THEN {p \in chrs_[zone_[d]] : p[1] # move[c].oid}
                                 ELSE chrs_[zone_[d]]
          BY <1>2, <5>1 DEF PlaceInv, PlaceType, RemoveCharacter
        <5> QED  BY <5>1, <5>3, <5>4
      <4> QED  BY <4>1, <4>2 DEF PlaceInv, PlaceFits
    <3> QED  BY <3>2, <3>3
  <2> QED  BY <2>1, <2>2, <2>3 DEF PlaceInv
<1>3. ASSUME NEW c \in Clients, NEW z \in Zones, SpawnCharacter(c, z)
      PROVE  PlaceInv'
  <2>1. PlaceType'
    BY <1>3 DEF PlaceInv, PlaceType, SpawnCharacter
  <2>2. IdsDiffer'
    BY <1>3 DEF PlaceInv, PlaceType, IdsDiffer, SpawnCharacter
  <2>3. ASSUME NEW d \in Clients PROVE PlaceFits(d)'
    BY <1>3 DEF PlaceInv, PlaceType, PlaceFits, SpawnCharacter
  <2> QED  BY <2>1, <2>2, <2>3 DEF PlaceInv
<1>4. ASSUME NEW c \in Clients, EnterTheMap(c)
      PROVE  PlaceInv'
  <2>1. PlaceType'
    <3>1. move[c].zone \in Zones /\ move[c].oid \in Nat
      BY <1>4 DEF PlaceInv, PlaceType, PlaceFits, EnterTheMap
    <3>2. chrs_' \in [Zones -> SUBSET (Nat \X Clients)]
      BY <1>4, <3>1 DEF PlaceInv, PlaceType, EnterTheMap
    <3>3. NoMove \in [pc : {"no", "remove", "spawn", "enter"}, zone : Zones \cup {Nowhere}, oid : Nat]
      BY DEF NoMove
    <3> QED  BY <1>4, <3>2, <3>3 DEF PlaceInv, PlaceType, EnterTheMap
  <2>2. IdsDiffer'
    BY <1>4 DEF PlaceInv, PlaceType, IdsDiffer, PlaceFits, EnterTheMap
  <2>3. ASSUME NEW d \in Clients PROVE PlaceFits(d)'
    BY <1>4 DEF PlaceInv, PlaceType, PlaceFits, EnterTheMap, NoMove
  <2> QED  BY <2>1, <2>2, <2>3 DEF PlaceInv
<1>5. ASSUME NEW c \in Clients,
             ProcessPacket(c) \/ Build(c) \/ BroadCast(c) \/ Aim(c) \/ HitMonster(c) \/ HitCharacter(c)
               \/ SetMonsterState(c)
      PROVE  UNCHANGED place
  BY <1>5 DEF ProcessPacket, NotifyFromLock, NotifyUnlocked, HandleCharacterAttackMotion,
              HandleCharacterHitSuccess, HandleMonsterAttack, Attack, HandleMonsterActionNotify, Packet,
              HandleInventoryUpdate, Build, BroadCast, Aim, HitMonster, HitCharacter, SetMonsterState
<1>6. CASE UNCHANGED vars
  BY <1>6, PlaceUnchanged DEF vars
<1> QED  BY <1>1, <1>2, <1>3, <1>4, <1>5, <1>6, PlaceUnchanged DEF Next

-----------------------------------------------------------------------------
(* The handlers.                                                           *)

HandlerRecord == [pc : {"idle", "build", "send", "aim", "strike"}, kind : Kinds \cup {"none"},
                  zone : Zones \cup {Nowhere}, oid : Nat, hp : Nat, moved : BOOLEAN]

LEMMA HandlerInit == Init => HandlerInv
<1> SUFFICES ASSUME Init PROVE HandlerInv
  OBVIOUS
<1>1. Idle \in HandlerRecord
  BY DEF Idle, HandlerRecord
<1>2. h = [c \in Clients |-> Idle] /\ named = {} /\ closed = {} /\ packets = 0
  BY DEF Init
<1>3. HandlerType
  BY <1>1, <1>2, PlayAssumption DEF HandlerType, HandlerRecord
<1>4. \A c \in Clients : h[c].pc = "idle"
  BY <1>2 DEF Idle
<1> QED  BY <1>2, <1>3, <1>4 DEF HandlerInv, HandlerFits, RightName

\* A handler that reads and writes nothing of its own.
LEMMA HandlerUnchanged ==
  ASSUME HandlerInv, UNCHANGED <<h, named, object_id_, ids, closed, packets>>
  PROVE  HandlerInv'
BY DEF HandlerInv, HandlerType, HandlerFits, RightName

\* The first section of a handler reads the zone and the object id under one lock.
LEMMA GoesStep ==
  ASSUME PlaceInv, HandlerInv, NEW c \in Clients, NEW kind \in Kinds, NEW pc \in {"build", "send", "aim"},
         kind \in {"wait", "rolling"} => pc = "send",
         zone_[c] # Nowhere, packets < MaxPackets, packets' = packets + 1,
         UNCHANGED <<place, fight, goods, named>>, Goes(c, kind, pc)
  PROVE  HandlerInv'
<1> DEFINE r == [Idle EXCEPT !.pc = pc, !.kind = kind, !.zone = zone_[c], !.oid = object_id_[c]]
<1>1. zone_[c] \in Zones /\ <<zone_[c], object_id_[c]>> \in ids[c] /\ object_id_[c] \in Nat
  BY PlaceId DEF PlaceInv, PlaceType
<1>2. /\ r \in HandlerRecord /\ r.pc = pc /\ r.kind = kind /\ r.zone = zone_[c] /\ r.oid = object_id_[c]
      /\ r.moved = FALSE
  BY <1>1 DEF Idle, HandlerRecord
<1>3. h' = [h EXCEPT ![c] = r] /\ UNCHANGED <<ids, object_id_, named, closed>>
  BY DEF Goes, place
<1> HIDE DEF r
<1>4. HandlerType'
  BY <1>2, <1>3, PlayAssumption DEF HandlerInv, HandlerType, HandlerRecord
<1>5. ASSUME NEW d \in Clients PROVE HandlerFits(d)'
  <2>1. h'[d] = IF d = c THEN r ELSE h[d]
    BY <1>3 DEF HandlerInv, HandlerType
  <2> QED  BY <1>1, <1>2, <1>3, <2>1 DEF HandlerInv, HandlerFits
<1>6. RightName'
  BY <1>3 DEF HandlerInv, RightName
<1> QED  BY <1>4, <1>5, <1>6 DEF HandlerInv

\* The handler of c is r after the step, and its place is unchanged.
LEMMA BecomesStep ==
  ASSUME HandlerInv, NEW c \in Clients, NEW r \in HandlerRecord, h' = [h EXCEPT ![c] = r],
         UNCHANGED <<ids, object_id_, closed, packets>>,
         \/ r.pc = "idle"
         \/ /\ h[c].pc # "idle" /\ r.kind = h[c].kind /\ r.zone = h[c].zone /\ r.moved = h[c].moved
            /\ r.kind \notin {"wait", "rolling"}
            /\ r.pc = "send" => r.oid = object_id_[c]
  PROVE  /\ named' \subseteq [kind : Kinds, moved : BOOLEAN, right : BOOLEAN] => HandlerType'
         /\ \A d \in Clients : HandlerFits(d)'
<1>1. named' \subseteq [kind : Kinds, moved : BOOLEAN, right : BOOLEAN] => HandlerType'
  BY DEF HandlerInv, HandlerType, HandlerRecord
<1>2. ASSUME NEW d \in Clients PROVE HandlerFits(d)'
  <2>1. h'[d] = IF d = c THEN r ELSE h[d]
    BY DEF HandlerInv, HandlerType
  <2> QED  BY <2>1 DEF HandlerInv, HandlerFits
<1> QED  BY <1>1, <1>2

\* A packet that names the id the character has now, or the one its handler keeps.
LEMMA NameStep ==
  ASSUME PlaceInv, HandlerInv, NEW c \in Clients, h[c].pc # "idle", NEW oid,
         \/ h[c].pc = "send" /\ oid = h[c].oid
         \/ h[c].pc # "send" /\ oid = object_id_[c],
         Name(c, h[c].zone, oid), ids' = ids
  PROVE  RightName' /\ named' \subseteq [kind : Kinds, moved : BOOLEAN, right : BOOLEAN]
<1> DEFINE n == [kind |-> h[c].kind, moved |-> h[c].moved, right |-> <<h[c].zone, oid>> \in ids[c]]
<1>1. n.right \/ (n.moved /\ n.kind \notin {"wait", "rolling"})
  BY DEF HandlerInv, HandlerType, HandlerFits
<1>2. n \in [kind : Kinds, moved : BOOLEAN, right : BOOLEAN]
  <2>1. h[c].kind \in Kinds /\ h[c].moved \in BOOLEAN
    BY DEF HandlerInv, HandlerType, HandlerFits
  <2>2. \A k \in Kinds, m, r \in BOOLEAN :
          [kind |-> k, moved |-> m, right |-> r] \in [kind : Kinds, moved : BOOLEAN, right : BOOLEAN]
    OBVIOUS
  <2>3. (<<h[c].zone, oid>> \in ids[c]) = TRUE \/ (<<h[c].zone, oid>> \in ids[c]) = FALSE
    BY SMT
  <2>4. TRUE \in BOOLEAN /\ FALSE \in BOOLEAN
    OBVIOUS
  <2> QED  BY <2>1, <2>2, <2>3, <2>4, Zenon
<1>3. named' = named \cup {n}
  BY DEF Name
<1> HIDE DEF n
<1> QED  BY <1>1, <1>2, <1>3 DEF HandlerInv, HandlerType, RightName

LEMMA FinishStep ==
  ASSUME PlaceInv, HandlerInv, NEW c \in Clients, Finish(c), UNCHANGED <<place, closed, packets>>,
         RightName', named' \subseteq [kind : Kinds, moved : BOOLEAN, right : BOOLEAN]
  PROVE  HandlerInv'
<1>1. Idle \in HandlerRecord /\ Idle.pc = "idle"
  BY DEF Idle, HandlerRecord
<1>2. ids' = ids /\ object_id_' = object_id_
  BY DEF place
<1> QED  BY <1>1, <1>2, BecomesStep DEF Finish, HandlerInv

LEMMA HandlerStep ==
  ASSUME PlaceInv, HandlerInv, FightType, [Next]_vars
  PROVE  HandlerInv'
<1> USE DEF Packet
<1>1. ASSUME NEW c \in Clients, SetZoneNull(c) \/ RemoveCharacter(c) \/ EnterTheMap(c)
      PROVE  HandlerInv'
  BY <1>1, HandlerUnchanged DEF SetZoneNull, RemoveCharacter, EnterTheMap
<1>2. ASSUME NEW c \in Clients, NEW z \in Zones, SpawnCharacter(c, z)
      PROVE  HandlerInv'
  <2>1. /\ h' = [h EXCEPT ![c].moved = ~At(c, "idle")]
        /\ object_id_' = [object_id_ EXCEPT ![c] = last_object_id_[z]]
        /\ ids' = [ids EXCEPT ![c] = @ \cup {<<z, last_object_id_[z]>>}]
        /\ UNCHANGED <<closed, packets, named>>
    BY <1>2 DEF SpawnCharacter
  <2>2. HandlerType'
    <3> DEFINE r == [h[c] EXCEPT !.moved = ~At(c, "idle")]
    <3>1. h[c] \in HandlerRecord /\ h \in [Clients -> HandlerRecord]
      BY DEF HandlerInv, HandlerType, HandlerRecord
    <3>2. (~At(c, "idle")) \in BOOLEAN
      BY DEF At
    <3>3. r \in HandlerRecord
      BY <3>1, <3>2 DEF HandlerRecord
    <3>4. h' = [h EXCEPT ![c] = r]
      BY <2>1, <3>1
    <3> HIDE DEF r
    <3>5. h' \in [Clients -> HandlerRecord]
      BY <3>1, <3>3, <3>4
    <3> QED  BY <2>1, <3>5 DEF HandlerInv, HandlerType, HandlerRecord
  <2>3. ASSUME NEW d \in Clients PROVE HandlerFits(d)'
    <3>1. /\ h'[d].pc = h[d].pc /\ h'[d].kind = h[d].kind /\ h'[d].zone = h[d].zone /\ h'[d].oid = h[d].oid
          /\ d = c => (h'[d].moved <=> h[d].pc # "idle")
          /\ d # c => h'[d].moved = h[d].moved
      BY <2>1 DEF HandlerInv, HandlerType, At
    <3>2. ids[d] \subseteq ids'[d] /\ (d # c => object_id_'[d] = object_id_[d])
      BY <2>1 DEF PlaceInv, PlaceType
    <3> QED  BY <3>1, <3>2 DEF HandlerInv, HandlerFits
  <2>4. RightName'
    BY <2>1 DEF HandlerInv, RightName
  <2> QED  BY <2>2, <2>3, <2>4 DEF HandlerInv
<1>3. ASSUME NEW c \in Clients, NEW kind \in {"wait", "rolling"}, NotifyFromLock(c, kind)
      PROVE  HandlerInv'
  BY <1>3, GoesStep DEF NotifyFromLock, Kinds, Unchecked
<1>4. ASSUME NEW c \in Clients, NEW kind \in {"position", "sprint"}, NotifyUnlocked(c, kind)
      PROVE  HandlerInv'
  BY <1>4, GoesStep DEF NotifyUnlocked, Kinds, Unchecked
<1>5. ASSUME NEW c \in Clients, NEW kind \in {"attack", "hit", "mobattack"}, NEW pc \in {"build", "aim"},
             Attack(c, kind, pc)
      PROVE  HandlerInv'
  <2>1. CASE zone_[c] = Nowhere
    <3>1. UNCHANGED <<h, named, object_id_, ids>> /\ closed' = closed \cup {c} /\ packets' = packets + 1
          /\ packets < MaxPackets
      BY <1>5, <2>1 DEF Attack, place
    <3> QED  BY <3>1, PlayAssumption DEF HandlerInv, HandlerType, HandlerFits, RightName
  <2>2. CASE zone_[c] # Nowhere
    BY <1>5, <2>2, GoesStep DEF Attack, Kinds, Unchecked
  <2> QED  BY <2>1, <2>2
<1>6. ASSUME NEW c \in Clients, HandleMonsterActionNotify(c)
      PROVE  HandlerInv'
  BY <1>6, GoesStep DEF HandleMonsterActionNotify, Kinds, Unchecked
<1>7. ASSUME NEW c \in Clients, NEW slot1, NEW slot2, HandleInventoryUpdate(c, slot1, slot2)
      PROVE  HandlerInv'
  <2>1. /\ UNCHANGED <<h, named, object_id_, ids>> /\ closed' \in {closed, closed \cup {c}}
        /\ packets' = packets + 1 /\ packets < MaxPackets
    BY <1>7 DEF HandleInventoryUpdate, place
  <2> QED  BY <2>1, PlayAssumption DEF HandlerInv, HandlerType, HandlerFits, RightName
<1>8. ASSUME NEW c \in Clients, Build(c)
      PROVE  HandlerInv'
  <2> DEFINE r == [h[c] EXCEPT !.pc = "send", !.oid = object_id_[c]]
  <2>1. /\ h' = [h EXCEPT ![c] = r] /\ h[c].pc = "build"
        /\ UNCHANGED <<ids, object_id_, closed, packets, named>>
    BY <1>8 DEF Build, At, place, HandlerInv, HandlerType
  <2>2. r \in HandlerRecord /\ r.pc = "send" /\ r.kind = h[c].kind /\ r.zone = h[c].zone
        /\ r.moved = h[c].moved /\ r.oid = object_id_[c]
    <3>1. h[c] \in HandlerRecord /\ object_id_[c] \in Nat
      BY DEF HandlerInv, HandlerType, HandlerRecord, PlaceInv, PlaceType
    <3> QED  BY <3>1 DEF HandlerRecord
  <2>3. r.kind \notin {"wait", "rolling"}
    BY <2>1, <2>2 DEF HandlerInv, HandlerFits
  <2> HIDE DEF r
  <2> QED  BY <2>1, <2>2, <2>3, BecomesStep DEF HandlerInv, HandlerType, RightName
<1>9. ASSUME NEW c \in Clients, BroadCast(c)
      PROVE  HandlerInv'
  <2>1. h[c].pc = "send" /\ Name(c, h[c].zone, h[c].oid) /\ Finish(c) /\ UNCHANGED <<place, closed, packets>>
    BY <1>9 DEF BroadCast, At
  <2>2. ids' = ids
    BY <2>1 DEF place
  <2> QED  BY <2>1, <2>2, NameStep, FinishStep
<1>10. ASSUME NEW c \in Clients, Aim(c)
       PROVE  HandlerInv'
  <2> DEFINE n == IF h[c].kind = "hit" THEN mob[h[c].zone].hp ELSE hp[c]
             r == [h[c] EXCEPT !.pc = "strike", !.hp = n]
  <2>1. /\ h' = [h EXCEPT ![c] = r] /\ h[c].pc = "aim"
        /\ UNCHANGED <<ids, object_id_, closed, packets, named>>
    BY <1>10 DEF Aim, At, place, HandlerInv, HandlerType
  <2>2. n \in Nat
    <3>1. h[c].zone \in Zones
      BY <2>1 DEF HandlerInv, HandlerFits
    <3>2. mob[h[c].zone].hp \in 0 .. MobHp /\ hp[c] \in 0 .. ChrHp
      BY <3>1 DEF FightType
    <3> QED  BY <3>2, PlayAssumption
  <2>3. r \in HandlerRecord /\ r.pc = "strike" /\ r.kind = h[c].kind /\ r.zone = h[c].zone
        /\ r.moved = h[c].moved
    BY <2>2 DEF HandlerInv, HandlerType, HandlerRecord
  <2>4. r.kind \notin {"wait", "rolling"}
    BY <2>1, <2>3 DEF HandlerInv, HandlerFits
  <2> HIDE DEF r
  <2> QED  BY <2>1, <2>3, <2>4, BecomesStep DEF HandlerInv, HandlerType, RightName
<1>11. ASSUME NEW c \in Clients, HitMonster(c) \/ HitCharacter(c)
       PROVE  HandlerInv'
  <2>1. h[c].pc = "strike" /\ Name(c, h[c].zone, object_id_[c]) /\ Finish(c)
        /\ UNCHANGED <<place, closed, packets>>
    BY <1>11 DEF HitMonster, HitCharacter, At
  <2>2. ids' = ids
    BY <2>1 DEF place
  <2> QED  BY <2>1, <2>2, NameStep, FinishStep
<1>12. ASSUME NEW c \in Clients, SetMonsterState(c)
       PROVE  HandlerInv'
  BY <1>12, FinishStep DEF SetMonsterState, HandlerInv, HandlerType, RightName
<1>13. CASE UNCHANGED vars
  BY <1>13, HandlerUnchanged DEF vars, place
<1> QED
  BY <1>1, <1>2, <1>3, <1>4, <1>5, <1>6, <1>7, <1>8, <1>9, <1>10, <1>11, <1>12, <1>13
     DEF Next, ProcessPacket, HandleCharacterAttackMotion, HandleCharacterHitSuccess, HandleMonsterAttack

-----------------------------------------------------------------------------
(* The fights.                                                             *)

LEMMA FightInit == Init => FightInv
<1> SUFFICES ASSUME Init PROVE FightInv
  OBVIOUS
<1>1. FightType
  BY PlayAssumption DEF Init, FightType
<1>2. \A c \in Clients : h[c].pc = "idle"
  BY DEF Init, Idle
<1>3. HitsCount
  <2>1. \A z \in Zones : mob[z].hp = MobHp /\ strikes[z] = 0 /\ told[z] = MobHp
    BY DEF Init
  <2>2. \A c \in Clients : hp[c] = ChrHp /\ deaths[c] = 0
    BY DEF Init
  <2> QED  BY <2>1, <2>2, PlayAssumption DEF HitsCount, Above0, MobDamage
<1> QED  BY <1>1, <1>2, <1>3 DEF FightInv, StrikeFits

\* A handler that does not begin to strike.
LEMMA FightKept ==
  ASSUME FightInv, UNCHANGED fight, NEW c \in Clients,
         \A d \in Clients \ {c} : h'[d].pc = h[d].pc /\ h'[d].kind = h[d].kind /\ h'[d].zone = h[d].zone
                                 /\ h'[d].hp = h[d].hp,
         \/ h'[c].pc = h[c].pc /\ h'[c].kind = h[c].kind /\ h'[c].zone = h[c].zone /\ h'[c].hp = h[c].hp
         \/ h'[c].pc # "strike" /\ (h'[c].pc = "aim" /\ h'[c].kind = "mobattack" => hp[c] # 0)
  PROVE  FightInv'
<1>1. FightType'
  BY DEF FightInv, FightType, fight
<1>2. HitsCount'
  BY DEF FightInv, HitsCount, fight
<1>3. ASSUME NEW d \in Clients PROVE StrikeFits(d)'
  BY DEF FightInv, StrikeFits, fight
<1>4. ASSUME NEW d \in Clients, NEW e \in Clients,
             h'[d].pc = "strike", h'[e].pc = "strike", h'[d].zone = h'[e].zone
      PROVE  d = e
  BY <1>4 DEF FightInv
<1> QED  BY <1>1, <1>2, <1>3, <1>4 DEF FightInv

\* The same, for a handler whose record is replaced.
LEMMA FightReplaced ==
  ASSUME HandlerInv, FightInv, UNCHANGED fight, NEW c \in Clients, NEW r, h' = [h EXCEPT ![c] = r],
         r.pc # "strike", r.pc = "aim" /\ r.kind = "mobattack" => hp[c] # 0
  PROVE  FightInv'
<1>1. \A d \in Clients : h'[d] = IF d = c THEN r ELSE h[d]
  BY DEF HandlerInv, HandlerType
<1> QED  BY <1>1, FightKept

LEMMA HitMonsterStep ==
  ASSUME HandlerInv, FightInv, NEW c \in Clients, HitMonster(c)
  PROVE  FightInv'
<1> DEFINE z == h[c].zone
<1>0. PICK blow \in Blows(MobDamage) :
          LET left == Above0(h[c].hp - blow)
          IN  /\ mob' = [mob EXCEPT ![z] = [hp |-> left, state |-> IF left = 0 THEN "kDead" ELSE @.state]]
              /\ strikes' = [strikes EXCEPT ![z] = IF blow = 0 THEN @ ELSE @ + 1]
              /\ told' = [told EXCEPT ![z] = left]
  BY DEF HitMonster
<1> DEFINE left == Above0(h[c].hp - blow)
           st == IF left = 0 THEN "kDead" ELSE mob[z].state
           more == IF blow = 0 THEN strikes[z] ELSE strikes[z] + 1
<1>1. z \in Zones /\ h[c].pc = "strike" /\ h[c].kind = "hit"
  BY DEF HitMonster, At, HandlerInv, HandlerFits
<1>2. h[c].hp = mob[z].hp /\ mob[z].hp \in 0 .. MobHp /\ mob[z].state \in {"kAlive", "kDead"}
  BY <1>1 DEF FightInv, StrikeFits, FightType
<1>3. left \in 0 .. MobHp
  BY <1>0, <1>2, PlayAssumption DEF Above0, MobDamage, Blows
<1>4. /\ mob' = [mob EXCEPT ![z] = [hp |-> left, state |-> st]]
      /\ strikes' = [strikes EXCEPT ![z] = more]
      /\ told' = [told EXCEPT ![z] = left]
      /\ h' = [h EXCEPT ![c] = Idle] /\ Idle.pc = "idle"
      /\ hp' = hp /\ deaths' = deaths
  BY <1>0 DEF HitMonster, Finish, Idle
<1>10. left = Above0(MobHp - MobDamage * more) /\ more \in Nat
  <2>1. mob[z].hp = Above0(MobHp - MobDamage * strikes[z]) /\ strikes[z] \in Nat
    BY <1>1 DEF FightInv, HitsCount, FightType
  <2> QED
    BY <1>0, <1>2, <2>1, PlayAssumption DEF Above0, MobDamage, Blows
<1> HIDE DEF left, more
<1>5. FightType'
  BY <1>1, <1>2, <1>3, <1>4, <1>10 DEF FightInv, FightType
<1>6. \A y \in Zones : /\ mob'[y].hp = IF y = z THEN left ELSE mob[y].hp
                       /\ strikes'[y] = IF y = z THEN more ELSE strikes[y]
                       /\ told'[y] = IF y = z THEN left ELSE told[y]
  BY <1>1, <1>4 DEF FightInv, FightType
<1>7. HitsCount'
  <2>1. ASSUME NEW y \in Zones PROVE mob'[y].hp = Above0(MobHp - MobDamage * strikes'[y]) /\ told'[y] = mob'[y].hp
    <3>1. mob[y].hp = Above0(MobHp - MobDamage * strikes[y]) /\ told[y] = mob[y].hp /\ strikes[y] \in Nat
      BY DEF FightInv, HitsCount, FightType
    <3>2. CASE y = z
      BY <1>6, <1>10, <3>2
    <3>3. CASE y # z
      BY <1>6, <3>1, <3>3
    <3> QED  BY <3>2, <3>3
  <2> QED  BY <1>4, <2>1 DEF FightInv, HitsCount
<1>8. \A d \in Clients : h'[d] = IF d = c THEN Idle ELSE h[d]
  BY <1>4 DEF HandlerInv, HandlerType
<1>9. ASSUME NEW d \in Clients PROVE StrikeFits(d)'
  <2>1. CASE d = c
    BY <1>4, <1>8, <2>1 DEF StrikeFits
  <2>2. CASE d # c
    <3>1. h[d].pc = "strike" => h[d].zone # z /\ h[d].zone \in Zones
      BY <1>1, <2>2 DEF FightInv, HandlerInv, HandlerFits
    <3> QED  BY <1>4, <1>6, <1>8, <2>2, <3>1 DEF FightInv, StrikeFits
  <2> QED  BY <2>1, <2>2
<1> QED  BY <1>4, <1>5, <1>7, <1>8, <1>9 DEF FightInv

LEMMA HitCharacterStep ==
  ASSUME HandlerInv, FightInv, NEW c \in Clients, HitCharacter(c)
  PROVE  FightInv'
<1>0. PICK blow \in Blows(ChrDamage) :
          LET left == Above0(h[c].hp - blow)
          IN  /\ hp' = [hp EXCEPT ![c] = left]
              /\ deaths' = [deaths EXCEPT ![c] = IF left = 0 THEN @ + 1 ELSE @]
  BY DEF HitCharacter
<1> DEFINE left == Above0(h[c].hp - blow)
<1>1. h[c].pc = "strike" /\ h[c].kind = "mobattack"
  BY DEF HitCharacter, At
<1>2. h[c].hp = hp[c] /\ hp[c] \in 0 .. ChrHp /\ hp[c] # 0 /\ deaths[c] = 0
  BY <1>1 DEF FightInv, StrikeFits, FightType, HitsCount
<1>3. left \in 0 .. ChrHp
  BY <1>0, <1>2, PlayAssumption DEF Above0, ChrDamage, Blows
<1>4. /\ hp' = [hp EXCEPT ![c] = left]
      /\ deaths' = [deaths EXCEPT ![c] = IF left = 0 THEN @ + 1 ELSE @]
      /\ h' = [h EXCEPT ![c] = Idle] /\ Idle.pc = "idle"
      /\ mob' = mob /\ strikes' = strikes /\ told' = told
  BY <1>0 DEF HitCharacter, Finish, Idle
<1> HIDE DEF left
<1>5. FightType'
  BY <1>2, <1>3, <1>4 DEF FightInv, FightType
<1>6. \A d \in Clients : /\ hp'[d] = IF d = c THEN left ELSE hp[d]
                         /\ deaths'[d] = IF d = c THEN (IF left = 0 THEN 1 ELSE 0) ELSE deaths[d]
  BY <1>2, <1>4 DEF FightInv, FightType
<1>7. HitsCount'
  BY <1>4, <1>6 DEF FightInv, HitsCount
<1>8. \A d \in Clients : h'[d] = IF d = c THEN Idle ELSE h[d]
  BY <1>4 DEF HandlerInv, HandlerType
<1>9. ASSUME NEW d \in Clients PROVE StrikeFits(d)'
  BY <1>4, <1>6, <1>8 DEF FightInv, StrikeFits
<1> QED  BY <1>4, <1>5, <1>7, <1>8, <1>9 DEF FightInv

\* The HP that is read under both mutexes is the victim's until the blow falls: nobody else strikes
\* this monster meanwhile.
LEMMA AimStep ==
  ASSUME HandlerInv, FightInv, NEW c \in Clients, Aim(c)
  PROVE  FightInv'
<1> DEFINE n == IF h[c].kind = "hit" THEN mob[h[c].zone].hp ELSE hp[c]
<1>1. /\ h[c].pc = "aim" /\ h[c].kind \in {"hit", "mobattack"} /\ UNCHANGED fight
      /\ \A d \in Clients : h[d].pc = "strike" => h[d].zone # h[c].zone
      /\ h' = [h EXCEPT ![c].pc = "strike", ![c].hp = n]
  BY DEF Aim, At, MobFree
<1>2. /\ h'[c].pc = "strike" /\ h'[c].kind = h[c].kind /\ h'[c].zone = h[c].zone /\ h'[c].hp = n
      /\ \A d \in Clients \ {c} : h'[d] = h[d]
  BY <1>1 DEF HandlerInv, HandlerType
<1>3. FightType' /\ HitsCount'
  BY <1>1 DEF FightInv, FightType, HitsCount, fight
<1>4. ASSUME NEW d \in Clients PROVE StrikeFits(d)'
  <2>1. mob' = mob /\ hp' = hp
    BY <1>1 DEF fight
  <2>2. CASE d = c
    BY <1>1, <1>2, <2>1, <2>2 DEF FightInv, StrikeFits
  <2>3. CASE d # c
    <3>1. h'[d] = h[d]
      BY <1>2, <2>3
    <3> QED  BY <2>1, <3>1 DEF FightInv, StrikeFits
  <2> QED  BY <2>2, <2>3
<1>5. ASSUME NEW d \in Clients, NEW e \in Clients,
             h'[d].pc = "strike", h'[e].pc = "strike", h'[d].zone = h'[e].zone
      PROVE  d = e
  <2>1. CASE d = c /\ e # c
    <3>1. h'[e] = h[e]
      BY <1>2, <2>1
    <3> QED  BY <1>1, <1>2, <1>5, <2>1, <3>1
  <2>2. CASE d # c /\ e = c
    <3>1. h'[d] = h[d]
      BY <1>2, <2>2
    <3> QED  BY <1>1, <1>2, <1>5, <2>2, <3>1
  <2>3. CASE d # c /\ e # c
    <3>1. h'[d] = h[d] /\ h'[e] = h[e]
      BY <1>2, <2>3
    <3> QED  BY <1>5, <3>1 DEF FightInv
  <2> QED  BY <2>1, <2>2, <2>3
<1> QED  BY <1>3, <1>4, <1>5 DEF FightInv

LEMMA FightStep ==
  ASSUME HandlerInv, FightInv, [Next]_vars
  PROVE  FightInv'
<1> USE DEF Packet
<1>1. ASSUME UNCHANGED <<h, fight>>
      PROVE  FightInv'
  BY <1>1 DEF FightInv, FightType, StrikeFits, HitsCount, fight
<1>2. ASSUME NEW c \in Clients, SetZoneNull(c) \/ RemoveCharacter(c) \/ EnterTheMap(c)
      PROVE  FightInv'
  BY <1>1, <1>2 DEF SetZoneNull, RemoveCharacter, EnterTheMap
<1>3. ASSUME NEW c \in Clients, NEW z \in Zones, SpawnCharacter(c, z)
      PROVE  FightInv'
  <2>1. \A d \in Clients : h'[d].pc = h[d].pc /\ h'[d].kind = h[d].kind /\ h'[d].zone = h[d].zone
                           /\ h'[d].hp = h[d].hp
    BY <1>3 DEF SpawnCharacter, HandlerInv, HandlerType
  <2> QED  BY <1>3, <2>1, FightKept DEF SpawnCharacter
<1>4. ASSUME NEW c \in Clients, NEW kind, NEW pc \in {"build", "send", "aim"}, Goes(c, kind, pc), UNCHANGED fight,
             pc = "aim" /\ kind = "mobattack" => hp[c] # 0
      PROVE  FightInv'
  <2> DEFINE r == [Idle EXCEPT !.pc = pc, !.kind = kind, !.zone = zone_[c], !.oid = object_id_[c]]
  <2>1. h' = [h EXCEPT ![c] = r] /\ r.pc = pc /\ r.kind = kind
    BY <1>4 DEF Goes, Idle
  <2> HIDE DEF r
  <2> QED  BY <1>4, <2>1, FightReplaced
<1>5. ASSUME NEW c \in Clients, NEW kind \in {"wait", "rolling"}, NotifyFromLock(c, kind)
      PROVE  FightInv'
  BY <1>4, <1>5 DEF NotifyFromLock
<1>6. ASSUME NEW c \in Clients, NEW kind \in {"position", "sprint"}, NotifyUnlocked(c, kind)
      PROVE  FightInv'
  BY <1>4, <1>6 DEF NotifyUnlocked
<1>7. ASSUME NEW c \in Clients, NEW kind, NEW pc \in {"build", "aim"}, Attack(c, kind, pc),
             kind = "mobattack" => hp[c] # 0
      PROVE  FightInv'
  <2>1. CASE zone_[c] = Nowhere
    BY <1>1, <1>7, <2>1 DEF Attack
  <2>2. CASE zone_[c] # Nowhere
    BY <1>4, <1>7, <2>2 DEF Attack
  <2> QED  BY <2>1, <2>2
<1>8. ASSUME NEW c \in Clients,
             HandleCharacterAttackMotion(c) \/ HandleCharacterHitSuccess(c) \/ HandleMonsterAttack(c)
      PROVE  FightInv'
  BY <1>7, <1>8 DEF HandleCharacterAttackMotion, HandleCharacterHitSuccess, HandleMonsterAttack
<1>9. ASSUME NEW c \in Clients, HandleMonsterActionNotify(c)
      PROVE  FightInv'
  BY <1>4, <1>9 DEF HandleMonsterActionNotify
<1>10. ASSUME NEW c \in Clients, NEW slot1, NEW slot2, HandleInventoryUpdate(c, slot1, slot2)
       PROVE  FightInv'
  BY <1>1, <1>10 DEF HandleInventoryUpdate
<1>11. ASSUME NEW c \in Clients, Build(c)
       PROVE  FightInv'
  <2>1. /\ h'[c].pc = "send" /\ \A d \in Clients \ {c} : h'[d] = h[d]
    BY <1>11 DEF Build, HandlerInv, HandlerType
  <2> QED  BY <1>11, <2>1, FightKept DEF Build
<1>12. Idle.pc = "idle"
  BY DEF Idle
<1>13. ASSUME NEW c \in Clients, BroadCast(c)
       PROVE  FightInv'
  BY <1>12, <1>13, FightReplaced DEF BroadCast, Finish
<1>14. ASSUME NEW c \in Clients, SetMonsterState(c)
       PROVE  FightInv'
  <2> DEFINE z == h[c].zone
  <2>1. PICK state \in {"kAlive", "kDead"} : mob' = [mob EXCEPT ![z].state = state]
    BY <1>14 DEF SetMonsterState
  <2>2. \A y \in Zones : mob'[y].hp = mob[y].hp
    BY <2>1 DEF FightInv, FightType
  <2>3. UNCHANGED <<hp, strikes, told, deaths>> /\ h' = [h EXCEPT ![c] = Idle]
    BY <1>14 DEF SetMonsterState, Finish
  <2>4. \A d \in Clients : h'[d] = IF d = c THEN Idle ELSE h[d]
    BY <2>3 DEF HandlerInv, HandlerType
  <2>5. FightType'
    BY <2>1, <2>3 DEF FightInv, FightType
  <2>6. HitsCount'
    BY <2>2, <2>3 DEF FightInv, HitsCount
  <2>7. \A d \in Clients : StrikeFits(d)'
    <3> SUFFICES ASSUME NEW d \in Clients PROVE StrikeFits(d)'
      OBVIOUS
    <3>1. CASE d = c
      BY <1>12, <2>4, <3>1 DEF StrikeFits
    <3>2. CASE d # c
      <4>1. h'[d] = h[d]
        BY <2>4, <3>2
      <4>2. h[d].pc = "strike" => h[d].zone \in Zones
        BY DEF HandlerInv, HandlerFits
      <4> QED  BY <2>2, <2>3, <4>1, <4>2 DEF FightInv, StrikeFits
    <3> QED  BY <3>1, <3>2
  <2> QED  BY <1>12, <2>4, <2>5, <2>6, <2>7 DEF FightInv
<1>15. CASE UNCHANGED vars
  BY <1>1, <1>15 DEF vars
<1> QED
  BY <1>2, <1>3, <1>5, <1>6, <1>8, <1>9, <1>10, <1>11, <1>13, <1>14, <1>15, AimStep, HitMonsterStep,
     HitCharacterStep DEF Next, ProcessPacket

-----------------------------------------------------------------------------
(* The items.                                                              *)

\* The sets of GoodsInv are the inventories and the equipment of Items.
LEMMA GoodsMeaning ==
  ASSUME NEW f
  PROVE  /\ f \in {g \in UNION {[S -> Slot] : S \in SUBSET Index} : Unstacked(g)} <=> IsInventory(f) /\ Unstacked(f)
         /\ f \in UNION {[S -> Equips] : S \in SUBSET Positions} <=> IsEquipment(f)
BY DEF IsInventory, IsEquipment

LEMMA GoodsInit == Init => GoodsInv
<1> SUFFICES ASSUME Init PROVE GoodsInv
  OBVIOUS
<1> DEFINE Start == {Initialize(rows) : rows \in {r \in Loads : ~Crashes(r)}}
           Goods == [inventory : {f \in UNION {[S -> Slot] : S \in SUBSET Index} : Unstacked(f)},
                     equipment : UNION {[S -> Equips] : S \in SUBSET Positions}]
<1>1. ASSUME NEW rows \in Loads, ~Crashes(rows)
      PROVE  Initialize(rows) \in Goods
  <2>1. IsLoad(rows)
    BY PlayAssumption
  <2>2. /\ IsInventory(Initialize(rows).inventory) /\ Unstacked(Initialize(rows).inventory)
        /\ IsEquipment(Initialize(rows).equipment)
    BY <1>1, <2>1, InitializeItems
  <2>3. Initialize(rows) = [inventory |-> Initialize(rows).inventory, equipment |-> Initialize(rows).equipment]
    BY DEF Initialize
  <2> QED  BY <2>2, <2>3, GoodsMeaning
<1>2. items \in [Clients -> Start] /\ crashed = FALSE
  BY DEF Init
<1>3. Start \subseteq Goods
  BY <1>1
<1> HIDE DEF Start, Goods
<1>4. items \in [Clients -> Goods]
  BY <1>2, <1>3
<1> QED  BY <1>2, <1>4 DEF GoodsInv, Goods

\* The one packet that moves items.
LEMMA InventoryUpdateStep ==
  ASSUME GoodsInv, NEW c \in Clients, NEW slot1, NEW slot2, HandleInventoryUpdate(c, slot1, slot2)
  PROVE  GoodsInv'
<1> DEFINE Goods == [inventory : {f \in UNION {[S -> Slot] : S \in SUBSET Index} : Unstacked(f)},
                     equipment : UNION {[S -> Equips] : S \in SUBSET Positions}]
           f == items[c].inventory
           g == ChangeInventoryItemPosition(f, slot1, slot2)
<1>1. CASE ~({slot1, slot2} \subseteq Index)
  BY <1>1 DEF HandleInventoryUpdate, GoodsInv, goods
<1>2. CASE {slot1, slot2} \subseteq Index
  <2>1. items[c] \in Goods
    BY DEF GoodsInv
  <2>2. IsInventory(f) /\ Unstacked(f)
    BY <2>1, GoodsMeaning
  <2>3. IsInventory(g) /\ Unstacked(g) /\ ~WritesNull(g, slot1, slot2)
    BY <1>2, <2>2, ChangeIsInventory, ChangeKeepsItems, ChangeWritesNoNull
  <2>4. /\ items' = [items EXCEPT ![c].inventory = g]
        /\ crashed' = (crashed \/ WritesNull(items'[c].inventory, slot1, slot2))
    BY <1>2 DEF HandleInventoryUpdate
  <2>5. g \in {x \in UNION {[S -> Slot] : S \in SUBSET Index} : Unstacked(x)}
    BY <2>3, GoodsMeaning
  <2> HIDE DEF g
  <2>6. items' \in [Clients -> Goods] /\ items'[c].inventory = g
    BY <2>1, <2>4, <2>5 DEF GoodsInv
  <2>7. crashed' = FALSE
    BY <2>3, <2>4, <2>6 DEF GoodsInv
  <2> QED  BY <2>6, <2>7 DEF GoodsInv
<1> QED  BY <1>1, <1>2

\* Only an inventory update of two slots that exist changes the items.
LEMMA WhoChangesGoods ==
  ASSUME [Next]_vars
  PROVE  \/ UNCHANGED goods
         \/ \E c \in Clients, slot1, slot2 \in Index : HandleInventoryUpdate(c, slot1, slot2)
<1>2. ASSUME NEW c \in Clients,
             \/ SetZoneNull(c) \/ RemoveCharacter(c) \/ EnterTheMap(c)
             \/ \E z \in Zones : SpawnCharacter(c, z)
             \/ \E kind \in {"wait", "rolling"} : NotifyFromLock(c, kind)
             \/ \E kind \in {"position", "sprint"} : NotifyUnlocked(c, kind)
             \/ HandleCharacterAttackMotion(c) \/ HandleCharacterHitSuccess(c) \/ HandleMonsterAttack(c)
             \/ HandleMonsterActionNotify(c)
             \/ Build(c) \/ BroadCast(c) \/ Aim(c) \/ HitMonster(c) \/ HitCharacter(c) \/ SetMonsterState(c)
      PROVE  UNCHANGED goods
  BY <1>2 DEF SetZoneNull, RemoveCharacter, EnterTheMap, SpawnCharacter, NotifyFromLock, NotifyUnlocked, Packet,
              HandleCharacterAttackMotion, HandleCharacterHitSuccess, HandleMonsterAttack, Attack,
              HandleMonsterActionNotify, Build, BroadCast, Aim, HitMonster, HitCharacter, SetMonsterState
<1>3. ASSUME NEW c \in Clients, NEW slot1, NEW slot2, HandleInventoryUpdate(c, slot1, slot2),
             ~({slot1, slot2} \subseteq Index)
      PROVE  UNCHANGED goods
  BY <1>3 DEF HandleInventoryUpdate
<1>4. CASE UNCHANGED vars
  BY <1>4 DEF vars
<1> QED  BY <1>2, <1>3, <1>4 DEF Next, ProcessPacket

LEMMA GoodsStep ==
  ASSUME GoodsInv, [Next]_vars
  PROVE  GoodsInv'
<1>1. ASSUME UNCHANGED goods PROVE GoodsInv'
  BY <1>1 DEF GoodsInv, goods
<1> QED  BY <1>1, WhoChangesGoods, InventoryUpdateStep

\* What one step may do to the items of the players.
LEMMA GoodsKept ==
  ASSUME GoodsInv, GoodsInv', [Next]_vars
  PROVE  /\ ~crashed'
         /\ \A c \in Clients :
               /\ \A item \in ItemIds : Total(items'[c].inventory, item) = Total(items[c].inventory, item)
               /\ items'[c].equipment = items[c].equipment
               /\ \A i \in DOMAIN items'[c].inventory :
                      items'[c].inventory[i].item \in Equips => items'[c].inventory[i].count = 1
<1>1. ~crashed' /\ \A c \in Clients : Unstacked(items'[c].inventory)
  BY GoodsMeaning DEF GoodsInv
<1>2. ASSUME NEW c \in Clients
      PROVE  /\ items'[c].equipment = items[c].equipment
             /\ \A item \in ItemIds : Total(items'[c].inventory, item) = Total(items[c].inventory, item)
  <2>1. CASE UNCHANGED goods
    BY <2>1 DEF goods
  <2>2. ASSUME NEW d \in Clients, NEW slot1 \in Index, NEW slot2 \in Index,
               HandleInventoryUpdate(d, slot1, slot2)
        PROVE  /\ items'[c].equipment = items[c].equipment
               /\ \A item \in ItemIds : Total(items'[c].inventory, item) = Total(items[c].inventory, item)
    <3> DEFINE g == ChangeInventoryItemPosition(items[d].inventory, slot1, slot2)
    <3>1. IsInventory(items[d].inventory)
      BY GoodsMeaning DEF GoodsInv
    <3>2. \A item : Total(g, item) = Total(items[d].inventory, item)
      BY <3>1, ChangeKeepsTotals
    <3>3. items' = [items EXCEPT ![d].inventory = g]
      BY <2>2 DEF HandleInventoryUpdate
    <3> HIDE DEF g
    <3>4. /\ c # d => items'[c] = items[c]
          /\ items'[d].inventory = g /\ items'[d].equipment = items[d].equipment
      BY <3>3 DEF GoodsInv
    <3> QED  BY <3>2, <3>4
  <2> QED  BY <2>1, <2>2, WhoChangesGoods
<1> QED  BY <1>1, <1>2 DEF Unstacked

-----------------------------------------------------------------------------
(* The theorems.                                                           *)

\* The zones, the handlers, the fights and the items of Play fit together at every step.
THEOREM PlayInvariant == Spec => []PlayInv
<1>1. Init => PlayInv
  BY PlaceInit, HandlerInit, FightInit, GoodsInit DEF PlayInv
<1>2. PlayInv /\ [Next]_vars => PlayInv'
  BY PlaceStep, HandlerStep, FightStep, GoodsStep DEF PlayInv, FightInv
<1> QED  BY <1>1, <1>2, PTL DEF Spec

\* Type correctness, for any number of players, zones, packets and moves and any table of items.
THEOREM TypeCorrect == Spec => []TypeOK
<1>1. ASSUME PlayInv PROVE TypeOK
  <2>1. \A c \in Clients : IsInventory(items[c].inventory) /\ IsEquipment(items[c].equipment)
    BY <1>1, GoodsMeaning DEF PlayInv, GoodsInv
  <2>2. /\ \A c \in Clients : ids[c] \subseteq Zones \X Nat
        /\ \A c \in Clients : move[c].pc = "no" => <<object_id_[c], c>> \in chrs_[zone_[c]]
        /\ zone_ \in [Clients -> Zones \cup {Nowhere}]
        /\ object_id_ \in [Clients -> Nat] /\ last_object_id_ \in [Zones -> Nat]
        /\ move \in [Clients -> [pc : {"no", "remove", "spawn", "enter"}, zone : Zones \cup {Nowhere}, oid : Nat]]
        /\ moves \in 0 .. MaxMoves
    BY <1>1 DEF PlayInv, PlaceInv, PlaceType, PlaceFits
  <2>3. HandlerType
    BY <1>1 DEF PlayInv, HandlerInv
  <2>4. FightType
    BY <1>1 DEF PlayInv, FightInv
  <2>5. crashed \in BOOLEAN
    BY <1>1 DEF PlayInv, GoodsInv
  <2> QED  BY <2>1, <2>2, <2>3, <2>4, <2>5 DEF TypeOK, HandlerType, FightType
<1> QED  BY <1>1, PlayInvariant, PTL

\* A packet names its sender by an id that the sender has or had in the zone that is told, unless the
\* sender was moved between the two reads and its handler reads the id without the mutex.
THEOREM NamesAreRight == Spec => []RightName
<1>1. PlayInv => RightName
  BY DEF PlayInv, HandlerInv
<1> QED  BY <1>1, PlayInvariant, PTL

\* However many players strike one monster, each blow counts once, the zone is told what is left, and
\* a character dies once.
THEOREM BlowsCount == Spec => []HitsCount
<1>1. PlayInv => HitsCount
  BY DEF PlayInv, FightInv
<1> QED  BY <1>1, PlayInvariant, PTL

\* No reply to an inventory update writes an item that is not there, and equipment is never stacked.
THEOREM NoNullItem == Spec => [](crashed = FALSE /\ \A c \in Clients : Unstacked(items[c].inventory))
<1>1. PlayInv => crashed = FALSE /\ \A c \in Clients : Unstacked(items[c].inventory)
  BY GoodsMeaning DEF PlayInv, GoodsInv
<1> QED  BY <1>1, PlayInvariant, PTL

\* No sequence of inventory updates makes or loses an item, changes the equipment or stacks it, and no
\* reply writes an item that is not there.
THEOREM ItemsAreKept == Spec => ItemsKept
<1>1. PlayInv /\ PlayInv' /\ [Next]_vars
        => [~crashed' /\ \A c \in Clients :
              /\ \A item \in ItemIds : Total(items'[c].inventory, item) = Total(items[c].inventory, item)
              /\ items'[c].equipment = items[c].equipment
              /\ \A i \in DOMAIN items'[c].inventory :
                     items'[c].inventory[i].item \in Equips => items'[c].inventory[i].count = 1]_vars
  BY GoodsKept DEF PlayInv
<1> QED  BY <1>1, PlayInvariant, PTL DEF Spec, ItemsKept
=============================================================================
