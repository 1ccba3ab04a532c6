-------------------------------- MODULE Items --------------------------------
(***************************************************************************)
(* The items of a character: Inventory, Equipment and the operations of    *)
(* Character on them, as functions from the items before to the items      *)
(* after.  An inventory maps the occupied indices to an item and a count,  *)
(* an equipment the occupied positions to an item.  An item is its id; the *)
(* sixth digit from the right of the id of an equipment is its position.   *)
(***************************************************************************)
EXTENDS Integers, Sequences

CONSTANTS Equips,           \* ids of equipment
          Etcs,             \* ids of other items
          inventory_size

ASSUME ItemsAssumption ==
    /\ Equips \subseteq Nat /\ Etcs \subseteq Nat /\ Equips \cap Etcs = {}
    /\ inventory_size \in Nat

ItemIds == Equips \cup Etcs
Index == 0 .. inventory_size - 1
Positions == 0 .. 3                         \* Equipment::Position
Slot == [item : ItemIds, count : Nat]
IsInventory(f) == DOMAIN f \subseteq Index /\ f \in [DOMAIN f -> Slot]
IsEquipment(f) == DOMAIN f \subseteq Positions /\ f \in [DOMAIN f -> Equips]

-----------------------------------------------------------------------------
(* Inventory and Equipment. *)

HasItem(inventory, i) == i \in DOMAIN inventory

\* Replaces whatever is at i.
Push(inventory, i, item, count) ==
    [j \in DOMAIN inventory \cup {i} |-> IF j = i THEN [item |-> item, count |-> count] ELSE inventory[j]]

Pop(inventory, i) == [j \in DOMAIN inventory \ {i} |-> inventory[j]]

\* The first free index, or -1.
GetEmptySlotIndex(inventory) ==
    IF Index \subseteq DOMAIN inventory THEN -1
    ELSE CHOOSE i \in Index : /\ ~HasItem(inventory, i)
                              /\ \A j \in Index : j < i => HasItem(inventory, j)

HasEquipItem(equipment, pos) == pos \in DOMAIN equipment

Equip(equipment, pos, item) ==
    [p \in DOMAIN equipment \cup {pos} |-> IF p = pos THEN item ELSE equipment[p]]

UnEquip(equipment, pos) == [p \in DOMAIN equipment \ {pos} |-> equipment[p]]

-----------------------------------------------------------------------------
(* Character. *)

\* Mutant: the item that was at next is not put back.
ChangeInventoryItemPosition_Lost(inventory, prev, next) ==
    IF {prev, next} \subseteq Index /\ HasItem(inventory, prev)
    THEN Push(Pop(inventory, prev), next, inventory[prev].item, inventory[prev].count)
    ELSE inventory

\* Moves the item at prev to next: two stacks of one item are merged, without a limit, and other
\* items change places.
ChangeInventoryItemPosition(inventory, prev, next) ==
    LET taken == Pop(inventory, prev)
        moved == inventory[prev]
        merges == taken[next].item \notin Equips /\ taken[next].item = moved.item
    IN  CASE ~({prev, next} \subseteq Index /\ HasItem(inventory, prev)) -> inventory
          [] OTHER ->
               IF ~HasItem(taken, next)
               THEN Push(taken, next, moved.item, moved.count)
               ELSE IF merges
               THEN Push(taken, next, moved.item, moved.count + taken[next].count)
               ELSE Push(Push(taken, prev, taken[next].item, taken[next].count),
                         next, moved.item, moved.count)

\* What is taken out of the inventory is dropped when it turns out not to be equipment.
InventoryToEquipment(chr, i, pos) ==
    LET taken == [chr EXCEPT !.inventory = Pop(chr.inventory, i)]
        item == chr.inventory[i].item
    IN  CASE ~(i \in Index /\ HasItem(chr.inventory, i) /\ ~HasEquipItem(chr.equipment, pos)) -> chr
          [] OTHER -> IF item \in Equips
                      THEN [taken EXCEPT !.equipment = Equip(chr.equipment, pos, item)]
                      ELSE taken

EquipmentToInventory(chr, pos, i) ==
    IF i \in Index /\ ~HasItem(chr.inventory, i) /\ HasEquipItem(chr.equipment, pos)
    THEN [chr EXCEPT !.inventory = Push(chr.inventory, i, chr.equipment[pos], 1),
                     !.equipment = UnEquip(chr.equipment, pos)]
    ELSE chr

EquipmentToFirstSlot(chr, pos) == EquipmentToInventory(chr, pos, GetEmptySlotIndex(chr.inventory))

DestoryItem(inventory, i) ==
    IF i \in Index THEN Pop(inventory, i) ELSE inventory

\* PacketGenerator::InventoryUpdate writes the second item when the first slot is occupied.
WritesNull(inventory, slot1, slot2) == HasItem(inventory, slot1) /\ ~HasItem(inventory, slot2)

-----------------------------------------------------------------------------
(* Character::Initialize: the rows of table inventoryitems in the order of *)
(* the query.  A later row replaces an earlier one in its place.           *)

Row == [item : ItemIds, type : {"equip", "consume", "etc"}, quantity : Nat, slot : Int, equipped : BOOLEAN]

\* The type of a row is that of its item.
IsLoad(rows) ==
    /\ rows \in Seq(Row)
    /\ \A i \in DOMAIN rows : rows[i].type = "equip" <=> rows[i].item \in Equips

\* The object for a consumable is a null pointer, whose id is set.
Crashes(rows) == \E i \in DOMAIN rows : rows[i].type = "consume"

Worn(row) == row.type = "equip" /\ row.equipped
PositionOf(item) == (item \div 100000) % 10
PlaceOf(row) == IF Worn(row) THEN PositionOf(row.item) ELSE row.slot

\* The last of the rows that are worn, or not, and have this place.
LastRow(rows, worn, place) ==
    CHOOSE i \in DOMAIN rows :
        /\ Worn(rows[i]) = worn /\ PlaceOf(rows[i]) = place
        /\ \A j \in DOMAIN rows : Worn(rows[j]) = worn /\ PlaceOf(rows[j]) = place => j <= i

\* The places that these rows occupy.
Places(rows, worn) == {PlaceOf(rows[i]) : i \in {j \in DOMAIN rows : Worn(rows[j]) = worn}}

Initialize(rows) ==
    [inventory |-> [i \in Index \cap Places(rows, FALSE) |->
        LET row == rows[LastRow(rows, FALSE, i)]
        IN  [item |-> row.item, count |-> IF row.type = "equip" THEN 1 ELSE row.quantity]],
     equipment |-> [p \in Positions \cap Places(rows, TRUE) |-> rows[LastRow(rows, TRUE, p)].item]]
=============================================================================
