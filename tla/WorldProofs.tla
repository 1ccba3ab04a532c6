---------------------------- MODULE WorldProofs ----------------------------
(***************************************************************************)
(* What holds of World for every number of clients, zones and IO workers:  *)
(* as long as no two handlers move one character at once, a character is   *)
(* in the zone that its pointer says and in no other, a player that is     *)
(* gone has left every zone, the controller of a dungeon is in it, and a   *)
(* player knows whether it is one.  A dungeon with a player gets one in    *)
(* any case.  A handler gets nearer to its end with every step, and leaves *)
(* nobody in a dungeon whose players have gone.                            *)
(***************************************************************************)
EXTENDS World, TLAPS

-----------------------------------------------------------------------------
(* The inductive invariant.                                                *)

\* Steps at which a handler has a character in its hands.
Moving == {"leave", "find", "forget", "erase", "copy", "elect", "place", "emplace",
           "close", "oid", "clear"}

\* What a handler's step says of its local variables.
Shape(r) ==
    /\ r.chr # None <=> r.step \in Moving
    /\ r.step = "idle" => r = NoHandler
    /\ r.job = "change" => r.old \in Instances /\ r.todo \subseteq Characters
    /\ r.job = "party" => r.todo \subseteq Clients
    /\ r.step \in {"snapshot", "check"} => r.job = "change"
    /\ r.step \in {"create", "next", "leave"} => r.job \in {"change", "party"}
    /\ r.step \in {"find", "forget", "erase", "copy", "elect", "oid"} => r.old \in Instances
    /\ r.step \in {"next", "leave", "place", "emplace"} => r.to \in Instances
    /\ r.step \in {"find", "forget", "erase", "copy", "elect"} =>
           r.job = "close" \/ (r.job \in {"change", "party"} /\ r.to \in Instances)
    /\ r.step \in {"place", "emplace"} => r.job \in {"confirm", "change", "party"}
    /\ r.step \in {"close", "oid", "clear"} => r.job = "close"
    /\ r.step = "emplace" => r.oid \in Nat

\* A handler has its shape; OnClose has the character of its own client, which is gone.
HandlerFits(c) ==
    /\ Shape(run[c])
    /\ run[c].job = "close" => conn[c] = "gone" /\ run[c].chr = character[c]

\* A character that was made for a client, and the newest one, which the client has.
Made(x) == x[2] <= confirms[x[1]]
CharactersMade ==
    /\ \A c \in Clients : character[c] # None =>
           confirms[c] # 0 /\ character[c] = <<c, confirms[c]>>
    /\ \A x \in Characters :
           \/ zone[x] # None
           \/ \E z \in Instances : x \in Inside(z)
           \/ \E c \in Clients : run[c].chr = x \/ (run[c].job = "change" /\ x \in run[c].todo)
           => Made(x)

\* A zone that has not been created is nowhere, and a portal is one of a dungeon.
ZonesMade ==
    /\ map[TownInstance] = Town
    /\ \A c \in Clients : run[c].job = "change" => map[run[c].old] # Town
    /\ \A z \in Instances : map[z] = None =>
           /\ chrs[z] = {} /\ z \notin maps_
           /\ \A x \in Characters : zone[x] # z
           /\ \A c \in Clients : run[c].old # z /\ run[c].to # z

\* Object ids are given once in a zone: to an entry, or to a character that is about to enter.
Enters(c, z, i) == run[c].step = "emplace" /\ run[c].to = z /\ run[c].oid = i
IdsUnique ==
    \A z \in Instances :
        /\ \A e \in chrs[z] : e.oid < last_object_id[z]
        /\ \A e, f \in chrs[z] : e.oid = f.oid => e = f
        /\ \A c \in Clients, i \in Nat : Enters(c, z, i) =>
               /\ i < last_object_id[z]
               /\ \A e \in chrs[z] : e.oid # i
               /\ \A d \in Clients : Enters(d, z, i) => c = d

\* Where a character is: where its pointer says, in the zone that its handler removes it from, or
\* nowhere.
Consistent(x) ==
    \A z \in Instances : Alive(z) =>
        /\ x \in Inside(z) <=> zone[x] = z
        /\ \A e \in chrs[z] : e.chr = x => e.oid = oid[x]
IsLeaving(x, c) ==
    \A z \in Instances : Alive(z) =>
        /\ x \in Inside(z) <=> z = run[c].old
        /\ \A e \in chrs[z] : e.chr = x => e.oid = run[c].oid
Nowhere(x) == \A z \in Instances : Alive(z) => x \notin Inside(z)

MoveFits(x, c) ==
    LET r == run[c]
    IN /\ r.step \in {"leave", "close", "oid"} => Consistent(x)
       /\ r.step = "oid" => zone[x] = r.old
       /\ r.step \in {"find", "forget", "erase"} => IsLeaving(x, c)
       /\ r.step = "forget" => r.copy \subseteq {x}
       /\ r.step \in {"copy", "elect", "place", "emplace", "clear"} => Nowhere(x)
       /\ r.step = "emplace" => zone[x] = r.to /\ oid[x] = r.oid

\* The strengthening of OneZone: every character is where it should be at its handler's step.
PlacesFit ==
    \A x \in Characters :
        /\ Settled(x) => Consistent(x)
        /\ \A c \in Clients : run[c].chr = x => MoveFits(x, c)

\* A player that is gone has no character, unless its OnClose is not over; a player without a
\* character has left every zone.
GoneHasNone == \A c \in Clients : conn[c] = "gone" => character[c] = None \/ run[c].job = "close"
LeftAlone ==
    \A c \in Clients : confirms[c] = 1 /\ character[c] = None =>
        zone[<<c, 1>>] = None /\ Settled(<<c, 1>>)

WorldInv ==
    /\ TypeOK
    /\ \A c \in Clients : HandlerFits(c)
    /\ CharactersMade
    /\ ZonesMade
    /\ IdsUnique
    /\ Contention => contended
    /\ GoneHasNone
    /\ ~contended => PlacesFit /\ LeftAlone

-----------------------------------------------------------------------------
(* Steps of one handler.                                                   *)

\* The town is a zone; a null pointer is no client, map, number or character.
LEMMA Basics ==
    /\ TownInstance \in Instances
    /\ None \notin Instances /\ None \notin Characters /\ None \notin Maps /\ None \notin Nat
    /\ Town \in Maps
BY WorldAssumption DEF TownInstance, Instances, Characters

\* c's handler becomes h, the others stay.
Becomes(c, h) == run' = [run EXCEPT ![c] = h]

\* The handlers after a step of one of them.
LEMMA RunStep ==
  ASSUME TypeOK, NEW c \in Clients, NEW h \in Handlers, Becomes(c, h)
  PROVE  /\ run' \in [Clients -> Handlers]
         /\ run'[c] = h
         /\ \A d \in Clients : d # c => run'[d] = run[d]
BY DEF TypeOK, Becomes

\* The fields of a handler.
LEMMA HandlerType ==
  ASSUME TypeOK, NEW c \in Clients
  PROVE  /\ run[c] \in Handlers
         /\ run[c].step \in Steps
         /\ run[c].job \in {"none", "confirm", "change", "party", "close"}
         /\ run[c].old \in Instances \union {None}
         /\ run[c].to \in Instances \union {None}
         /\ run[c].todo \in SUBSET (Clients \union Characters)
         /\ run[c].chr \in Characters \union {None}
         /\ run[c].oid \in Nat \union {None}
         /\ run[c].copy \in SUBSET Characters
BY DEF TypeOK, Handlers

\* A handler is one.
LEMMA HandlerIn ==
  ASSUME WorldInv, NEW c \in Clients
  PROVE  run[c] \in Handlers
BY HandlerType DEF WorldInv

\* A handler with nothing to do.
LEMMA NoHandlerType ==
    /\ NoHandler \in Handlers
    /\ NoHandler.step = "idle" /\ NoHandler.job = "none" /\ NoHandler.old = None
    /\ NoHandler.to = None /\ NoHandler.todo = {} /\ NoHandler.chr = None /\ NoHandler.oid = None
BY DEF NoHandler, Handlers, Steps

\* What the step of a handler does to its shape leaves the shape of the others.
LEMMA HandlersKeep ==
  ASSUME WorldInv, NEW c \in Clients, NEW h \in Handlers, Becomes(c, h), HandlerFits(c)',
         \A d \in Clients : d # c => conn'[d] = conn[d] /\ character'[d] = character[d]
  PROVE  \A d \in Clients : HandlerFits(d)'
<1> SUFFICES ASSUME NEW d \in Clients, d # c
             PROVE  HandlerFits(d)'
  OBVIOUS
<1>1. run'[d] = run[d]
  BY RunStep DEF WorldInv
<1> QED
  BY <1>1 DEF WorldInv, HandlerFits

\* A zone that lives has been created.
LEMMA AliveIsMade ==
  ASSUME WorldInv, NEW z \in Instances, Alive(z)
  PROVE  map[z] # None
BY Basics DEF WorldInv, ZonesMade, Alive

\* No zone comes to life in a step that neither creates one nor takes hold of a dead one.
LEMMA AliveKeeps ==
  ASSUME WorldInv, NEW c \in Clients, NEW h \in Handlers, Becomes(c, h), maps_' \subseteq maps_,
         h.old # None => Alive(h.old), h.to # None => Alive(h.to)
  PROVE  \A z \in Instances : Alive(z)' => Alive(z)
<1> SUFFICES ASSUME NEW z \in Instances, Alive(z)'
             PROVE  Alive(z)
  OBVIOUS
<1>1. run'[c] = h /\ \A d \in Clients : d # c => run'[d] = run[d]
  BY RunStep DEF WorldInv
<1>2. CASE z = TownInstance \/ z \in maps_'
  BY <1>2 DEF Alive
<1>3. CASE \E d \in Clients : run'[d].old = z \/ run'[d].to = z
  <2>1. PICK d \in Clients : run'[d].old = z \/ run'[d].to = z
    BY <1>3
  <2>2. CASE d = c
    BY <1>1, <2>1, <2>2, Basics
  <2>3. CASE d # c
    BY <1>1, <2>1, <2>3 DEF Alive
  <2> QED
    BY <2>2, <2>3
<1> QED
  BY <1>2, <1>3 DEF Alive

\* The zone that a handler holds, and the one that GetZoneFromWeak gives, live.
LEMMA HeldIsAlive ==
  ASSUME NEW c \in Clients
  PROVE  /\ run[c].old # None => Alive(run[c].old)
         /\ run[c].to # None => Alive(run[c].to)
         /\ \A x \in Characters : ZoneOf(x) # None => Alive(ZoneOf(x)) /\ ZoneOf(x) = zone[x]
BY DEF Alive, ZoneOf

\* Characters that are somewhere after the step were made before it.
LEMMA CharactersKeep ==
  ASSUME WorldInv, NEW c \in Clients, NEW h \in Handlers, Becomes(c, h),
         UNCHANGED <<character, confirms>>,
         \A x \in Characters : zone'[x] # None => Made(x),
         \A x \in Characters, z \in Instances : x \in Inside(z)' => Made(x),
         h.chr # None => Made(h.chr),
         h.job = "change" => \A x \in Characters : x \in h.todo => Made(x)
  PROVE  CharactersMade'
<1>1. run'[c] = h /\ \A d \in Clients : d # c => run'[d] = run[d]
  BY RunStep DEF WorldInv
<1>2. \A x \in Characters : Made(x)' = Made(x)
  BY DEF Made
<1>3. \A x \in Characters, d \in Clients :
          run'[d].chr = x \/ (run'[d].job = "change" /\ x \in run'[d].todo) => Made(x)
  <2> SUFFICES ASSUME NEW x \in Characters, NEW d \in Clients,
                      run'[d].chr = x \/ (run'[d].job = "change" /\ x \in run'[d].todo)
               PROVE  Made(x)
    OBVIOUS
  <2>1. CASE d = c
    BY <1>1, <2>1, Basics
  <2>2. CASE d # c
    BY <1>1, <2>2 DEF WorldInv, CharactersMade
  <2> QED
    BY <2>1, <2>2
<1>4. \A d \in Clients : character'[d] # None => confirms'[d] # 0 /\ character'[d] = <<d, confirms'[d]>>
  BY DEF WorldInv, CharactersMade
<1> QED
  BY <1>2, <1>3, <1>4 DEF CharactersMade

\* A zone that has not been created stays unknown.
LEMMA ZonesKeep ==
  ASSUME WorldInv, NEW c \in Clients, NEW h \in Handlers, Becomes(c, h),
         UNCHANGED map, maps_' \subseteq maps_,
         \A z \in Instances : map[z] = None =>
             chrs'[z] = {} /\ h.old # z /\ h.to # z /\ \A x \in Characters : zone'[x] # z,
         h.job = "change" => map[h.old] # Town
  PROVE  ZonesMade'
<1>1. run'[c] = h /\ \A d \in Clients : d # c => run'[d] = run[d]
  BY RunStep DEF WorldInv
<1> QED
  BY <1>1 DEF WorldInv, ZonesMade

\* Object ids stay unique while none is given out.
LEMMA IdsKeep ==
  ASSUME WorldInv, NEW c \in Clients, NEW h \in Handlers, Becomes(c, h),
         \A z \in Instances : chrs'[z] \subseteq chrs[z],
         UNCHANGED last_object_id, h.step # "emplace"
  PROVE  IdsUnique'
<1>1. run'[c] = h /\ \A d \in Clients : d # c => run'[d] = run[d]
  BY RunStep DEF WorldInv
<1>2. \A d \in Clients, z \in Instances, i \in Nat : Enters(d, z, i)' => Enters(d, z, i)
  BY <1>1 DEF Enters
<1> QED
  BY <1>2 DEF WorldInv, IdsUnique

\* A character that no step touches stays where it should be.
LEMMA PlaceKeeps ==
  ASSUME WorldInv, ~contended, NEW c \in Clients, NEW h \in Handlers, Becomes(c, h),
         \A z \in Instances : Alive(z)' => Alive(z) \/ map[z] = None,
         NEW x \in Characters, run[c].chr # x, h.chr # x,
         zone'[x] = zone[x], oid'[x] = oid[x], chrs' \in [Instances -> SUBSET Entries],
         \A z \in Instances : \A e \in Entries : e.chr = x => (e \in chrs'[z] <=> e \in chrs[z])
  PROVE  /\ Settled(x)' => Consistent(x)'
         /\ \A d \in Clients : run'[d].chr = x => MoveFits(x, d)'
<1>1. run'[c] = h /\ \A d \in Clients : d # c => run'[d] = run[d]
  BY RunStep DEF WorldInv
<1>2. \A z \in Instances : x \in Inside(z)' <=> x \in Inside(z)
  BY DEF WorldInv, TypeOK, Inside
<1>3. \A z \in Instances : \A e \in chrs'[z] : e.chr = x => e \in chrs[z]
  BY DEF WorldInv, TypeOK
<1>4. \A z \in Instances : map[z] = None =>
          /\ x \notin Inside(z) /\ zone[x] # z /\ chrs[z] = {}
          /\ \A d \in Clients : run[d].old # z
  BY DEF WorldInv, ZonesMade, Inside
<1>5. Consistent(x) => Consistent(x)'
  BY <1>2, <1>3, <1>4 DEF Consistent
<1>6. Nowhere(x) => Nowhere(x)'
  BY <1>2, <1>4 DEF Nowhere
<1>7. Settled(x)' => Settled(x)
  BY <1>1 DEF Settled
<1>8. ASSUME NEW d \in Clients, run'[d].chr = x
      PROVE  MoveFits(x, d)'
  <2>1. d # c /\ run'[d] = run[d]
    BY <1>1, <1>8
  <2>2. MoveFits(x, d)
    BY <1>8, <2>1 DEF WorldInv, PlacesFit
  <2>3. IsLeaving(x, d) => IsLeaving(x, d)'
    BY <1>2, <1>3, <1>4, <2>1 DEF IsLeaving
  <2> QED
    BY <1>5, <1>6, <2>1, <2>2, <2>3 DEF MoveFits
<1> QED
  BY <1>5, <1>7, <1>8 DEF WorldInv, PlacesFit

\* The characters that no handler holds, and those that handlers hold.
LEMMA PlacesKeep ==
  ASSUME WorldInv, ~contended, NEW c \in Clients, NEW h \in Handlers, Becomes(c, h),
         \A z \in Instances : Alive(z)' => Alive(z) \/ map[z] = None,
         chrs' \in [Instances -> SUBSET Entries],
         \A x \in Characters : run[c].chr # x /\ h.chr # x =>
             /\ zone'[x] = zone[x] /\ oid'[x] = oid[x]
             /\ \A z \in Instances : \A e \in Entries : e.chr = x => (e \in chrs'[z] <=> e \in chrs[z]),
         ~Contention',
         \A x \in Characters : run[c].chr = x /\ h.chr # x => Consistent(x)',
         \A x \in Characters : h.chr = x => MoveFits(x, c)'
  PROVE  PlacesFit'
<1>1. run'[c] = h /\ \A d \in Clients : d # c => run'[d] = run[d]
  BY RunStep DEF WorldInv
<1>2. ~Contention
  BY DEF WorldInv
<1> SUFFICES ASSUME NEW x \in Characters
             PROVE  /\ Settled(x)' => Consistent(x)'
                    /\ \A d \in Clients : run'[d].chr = x => MoveFits(x, d)'
  BY DEF PlacesFit
<1>3. CASE h.chr = x
  <2>1. \A d \in Clients : run'[d].chr = x => d = c
    BY <1>1, <1>3, Basics DEF Contention
  <2> QED
    BY <1>1, <1>3, <2>1 DEF Settled
<1>4. CASE h.chr # x /\ run[c].chr = x
  <2>1. \A d \in Clients : run'[d].chr # x
    BY <1>1, <1>2, <1>4, Basics DEF Contention
  <2> QED
    BY <1>4, <2>1
<1>5. CASE h.chr # x /\ run[c].chr # x
  BY <1>5, PlaceKeeps
<1> QED
  BY <1>3, <1>4, <1>5

\* Who has no character is left alone by a step that picks none of its.
LEMMA LeftAloneKeeps ==
  ASSUME WorldInv, ~contended, NEW c \in Clients, NEW h \in Handlers, Becomes(c, h),
         UNCHANGED <<character, confirms>>,
         \A x \in Characters : run[c].chr # x => zone'[x] = zone[x],
         \A x \in Characters : h.chr = x =>
             run[c].chr = x \/ zone[x] # None \/ character[x[1]] # None
  PROVE  LeftAlone'
<1>1. run'[c] = h /\ \A d \in Clients : d # c => run'[d] = run[d]
  BY RunStep DEF WorldInv
<1> SUFFICES ASSUME NEW d \in Clients, confirms[d] = 1, character[d] = None
             PROVE  zone'[<<d, 1>>] = None /\ Settled(<<d, 1>>)'
  BY DEF LeftAlone
<1>2. <<d, 1>> \in Characters
  BY WorldAssumption DEF WorldInv, TypeOK, Characters
<1>3. zone[<<d, 1>>] = None /\ \A e \in Clients : run[e].chr # <<d, 1>>
  BY DEF WorldInv, LeftAlone, Settled
<1>4. h.chr # <<d, 1>>
  BY <1>2, <1>3
<1> QED
  BY <1>1, <1>2, <1>3, <1>4 DEF Settled

\* What a step that touches no character keeps of the places of the one that its handler holds.
QuietFits(x, c, h) ==
    /\ h.step \in {"leave", "close", "oid"} => Consistent(x)
    /\ h.step = "oid" => zone[x] = h.old
    /\ h.step \in {"find", "forget", "erase"} =>
           \A z \in Instances : Alive(z) =>
               /\ x \in Inside(z) <=> z = h.old
               /\ \A e \in chrs[z] : e.chr = x => e.oid = h.oid
    /\ h.step = "forget" => h.copy \subseteq {x}
    /\ h.step \in {"copy", "elect", "place", "clear"} => Nowhere(x)

\* A step that touches no character and creates no zone.
LEMMA QuietStep ==
  ASSUME WorldInv, NEW c \in Clients, NEW h \in Handlers, Becomes(c, h), Watch,
         UNCHANGED <<character, confirms, zone, oid, map, chrs, last_object_id>>,
         maps_' \subseteq maps_,
         TypeOK', HandlerFits(c)', GoneHasNone',
         \A d \in Clients : d # c => conn'[d] = conn[d],
         h.step # "emplace" \/ h = run[c],
         h.old # None => Alive(h.old), h.to # None => Alive(h.to),
         h.chr # None => Made(h.chr),
         h.job = "change" => \A x \in Characters : x \in h.todo => Made(x),
         h.job = "change" => map[h.old] # Town,
         ~contended' =>
             /\ \A x \in Characters : run[c].chr = x /\ h.chr # x => Consistent(x)
             /\ \A x \in Characters : h.chr = x =>
                    /\ h = run[c] \/ QuietFits(x, c, h)
                    /\ run[c].chr = x \/ zone[x] # None \/ character[x[1]] # None
  PROVE  WorldInv'
<1>1. run'[c] = h /\ \A d \in Clients : d # c => run'[d] = run[d]
  BY RunStep DEF WorldInv
<1>2. \A z \in Instances : Alive(z)' => Alive(z)
  BY AliveKeeps
<1>3. \A d \in Clients : HandlerFits(d)'
  BY HandlersKeep
<1>4. CharactersMade'
  <2>1. \A x \in Characters, z \in Instances : x \in Inside(z)' => x \in Inside(z)
    BY DEF Inside
  <2> QED
    BY <2>1, CharactersKeep DEF WorldInv, CharactersMade
<1>5. ZonesMade'
  <2>1. \A z \in Instances : map[z] = None => ~Alive(z)
    BY AliveIsMade
  <2>2. \A z \in Instances : map[z] = None =>
            chrs'[z] = {} /\ h.old # z /\ h.to # z /\ \A x \in Characters : zone'[x] # z
    BY <2>1, Basics DEF WorldInv, ZonesMade
  <2> QED
    BY <2>2, ZonesKeep
<1>6. IdsUnique'
  <2>1. CASE h.step # "emplace"
    BY <2>1, IdsKeep
  <2>2. CASE h = run[c]
    <3>1. \A d \in Clients, z \in Instances, i \in Nat : Enters(d, z, i)' <=> Enters(d, z, i)
      BY <1>1, <2>2 DEF Enters
    <3> QED
      BY <3>1 DEF WorldInv, IdsUnique
  <2> QED
    BY <2>1, <2>2
<1>7. Contention' => contended'
  BY DEF Watch
<1>8. contended => contended'
  BY DEF Watch
<1>9. ASSUME ~contended'
      PROVE  PlacesFit'
  <2>1. ~contended /\ ~Contention'
    BY <1>7, <1>8, <1>9
  <2>2. \A x \in Characters : Consistent(x) => Consistent(x)'
    BY <1>2 DEF Consistent, Inside
  <2>3. \A x \in Characters : Nowhere(x) => Nowhere(x)'
    BY <1>2 DEF Nowhere, Inside
  <2>4. ASSUME NEW x \in Characters, h.chr = x
        PROVE  MoveFits(x, c)'
    <3>1. CASE h = run[c]
      <4>1. MoveFits(x, c)
        BY <2>1, <2>4, <3>1 DEF WorldInv, PlacesFit
      <4>2. IsLeaving(x, c) => IsLeaving(x, c)'
        BY <1>1, <1>2, <3>1 DEF IsLeaving, Inside
      <4> QED
        BY <1>1, <2>2, <2>3, <3>1, <4>1, <4>2 DEF MoveFits
    <3>2. CASE h # run[c]
      <4>1. QuietFits(x, c, h) /\ h.step # "emplace"
        BY <1>9, <2>4, <3>2
      <4>2. h.step \in {"find", "forget", "erase"} => IsLeaving(x, c)'
        BY <1>1, <1>2, <4>1 DEF QuietFits, IsLeaving, Inside
      <4> QED
        BY <1>1, <2>2, <2>3, <4>1, <4>2 DEF QuietFits, MoveFits
    <3> QED
      BY <3>1, <3>2
  <2>5. \A x \in Characters : run[c].chr = x /\ h.chr # x => Consistent(x)'
    BY <1>9, <2>2
  <2>6. chrs' \in [Instances -> SUBSET Entries]
    BY DEF TypeOK
  <2> QED
    BY <1>2, <2>1, <2>4, <2>5, <2>6, PlacesKeep
<1>10. ASSUME ~contended'
       PROVE  LeftAlone'
  BY <1>8, <1>10, LeftAloneKeeps
<1> QED
  BY <1>3, <1>4, <1>5, <1>6, <1>7, <1>9, <1>10 DEF WorldInv

-----------------------------------------------------------------------------
(* Packets and connections, and the update thread.                         *)

\* The steps that leave all handlers where they are.
LEMMA StayStep ==
  ASSUME WorldInv, NEW c \in Clients, Watch,
         UNCHANGED <<character, confirms, zone, oid, system, zones, run>>,
         moves' \in 0..MaxMoves, at_portal' \in [Characters -> BOOLEAN],
         conn' \in [Clients -> {"open", "closing", "gone"}],
         \A d \in Clients : d # c => conn'[d] = conn[d],
         conn'[c] = conn[c] \/ run[c].job # "close",
         conn'[c] = "gone" => conn[c] = "gone" \/ character[c] = None
  PROVE  WorldInv'
<1>1. PICK h \in Handlers : h = run[c]
  BY HandlerType DEF WorldInv
<1>2. Becomes(c, h)
  BY <1>1 DEF WorldInv, TypeOK, Becomes
<1>3. TypeOK'
  BY DEF WorldInv, TypeOK, Watch, system, zones
<1>4. HandlerFits(c)' /\ GoneHasNone'
  BY DEF WorldInv, HandlerFits, GoneHasNone
<1>5. h.old # None => Alive(h.old)
  BY <1>1, HeldIsAlive
<1>6. h.to # None => Alive(h.to)
  BY <1>1, HeldIsAlive
<1>7. /\ h.chr # None => Made(h.chr)
      /\ h.job = "change" => \A x \in Characters : x \in h.todo => Made(x)
      /\ h.job = "change" => map[h.old] # Town
  BY <1>1, HandlerType DEF WorldInv, CharactersMade, ZonesMade
<1>8. UNCHANGED <<map, chrs, last_object_id>> /\ maps_' \subseteq maps_
  BY DEF system, zones
<1> QED
  BY <1>1, <1>2, <1>3, <1>4, <1>5, <1>6, <1>7, <1>8, QuietStep

\* A handler that begins: its client has none.
LEMMA IdleHandler ==
  ASSUME WorldInv, NEW c \in Clients, ~Busy(c)
  PROVE  run[c] = NoHandler
BY DEF WorldInv, HandlerFits, Shape, Busy

\* A connection drops or fails, and a player moves.
LEMMA ConnectionSteps ==
  ASSUME WorldInv, NEW c \in Clients, Watch,
         Close(c) \/ HandleCharacterAttackMotion(c) \/ HandleChrPositionNotify(c)
         \/ (HandleZoneChangeRequest(c) /\ Throw(c))
  PROVE  WorldInv'
<1>1. CASE HandleChrPositionNotify(c)
  <2>1. moves' \in 0..MaxMoves /\ at_portal' \in [Characters -> BOOLEAN]
    BY <1>1, WorldAssumption DEF WorldInv, TypeOK, HandleChrPositionNotify
  <2> QED
    BY <1>1, <2>1, StayStep DEF WorldInv, TypeOK, HandleChrPositionNotify, Starts
<1>2. CASE Close(c) \/ HandleCharacterAttackMotion(c) \/ (HandleZoneChangeRequest(c) /\ Throw(c))
  <2>1. /\ conn[c] = "open" /\ conn' = [conn EXCEPT ![c] = "closing"]
        /\ UNCHANGED <<character, confirms, moves, characters, system, zones, run>>
    BY <1>2 DEF Close, HandleCharacterAttackMotion, HandleZoneChangeRequest, Throw, Starts
  <2>2. run[c].job # "close"
    BY <2>1 DEF WorldInv, HandlerFits
  <2>3. /\ conn' \in [Clients -> {"open", "closing", "gone"}]
        /\ \A d \in Clients : d # c => conn'[d] = conn[d]
        /\ conn'[c] = "closing"
    BY <2>1 DEF WorldInv, TypeOK
  <2> QED
    BY <2>1, <2>2, <2>3, StayStep DEF WorldInv, TypeOK, characters
<1> QED
  BY <1>1, <1>2

\* A handler that begins without taking a character.
LEMMA BeginSteps ==
  ASSUME WorldInv, NEW c \in Clients, Watch,
         (HandleZoneChangeRequest(c) /\ ~Throw(c)) \/ ConfirmMatch(c)
  PROVE  WorldInv'
<1>1. /\ UNCHANGED <<clients, characters, system, zones>> /\ run[c] = NoHandler
      /\ \E h \in Handlers :
            /\ Becomes(c, h)
            /\ h.chr = None /\ h.to = None
            /\ \/ /\ h.step = "snapshot" /\ h.job = "change" /\ h.todo = {}
                  /\ h.old \in Instances /\ Alive(h.old) /\ map[h.old] # Town
               \/ h.step = "create" /\ h.job = "party" /\ h.todo \subseteq Clients /\ h.old = None
  <2>1. CASE HandleZoneChangeRequest(c) /\ ~Throw(c)
    <3>1. PICK z : /\ z = ZoneOf(character[c]) /\ z # None /\ character[c] # None
                   /\ Begin(c, [NoHandler EXCEPT !.step = "snapshot", !.job = "change", !.old = z])
      BY <2>1 DEF HandleZoneChangeRequest
    <3>2. character[c] \in Characters
      BY <3>1 DEF WorldInv, TypeOK
    <3>3. Alive(z) /\ z \in Instances /\ map[z] # Town
      BY <2>1, <3>1, <3>2, HeldIsAlive DEF WorldInv, TypeOK, HandleZoneChangeRequest, IsDungeon
    <3> DEFINE h == [NoHandler EXCEPT !.step = "snapshot", !.job = "change", !.old = z]
    <3>4. /\ h \in Handlers /\ h.chr = None /\ h.to = None /\ h.step = "snapshot"
          /\ h.job = "change" /\ h.todo = {} /\ h.old = z
      BY <3>3 DEF NoHandler, Handlers, Steps
    <3>5. Becomes(c, h)
      BY <3>1 DEF Begin, Becomes
    <3>6. UNCHANGED <<clients, characters, system, zones>> /\ ~Busy(c)
      BY <2>1 DEF HandleZoneChangeRequest, Starts, clients
    <3> HIDE DEF h
    <3> QED
      BY <3>3, <3>4, <3>5, <3>6, IdleHandler
  <2>2. CASE ConfirmMatch(c)
    <3>1. PICK party \in SUBSET Clients :
              Begin(c, [NoHandler EXCEPT !.step = "create", !.job = "party", !.todo = party])
      BY <2>2 DEF ConfirmMatch
    <3> DEFINE h == [NoHandler EXCEPT !.step = "create", !.job = "party", !.todo = party]
    <3>2. /\ h \in Handlers /\ h.chr = None /\ h.to = None /\ h.step = "create"
          /\ h.job = "party" /\ h.todo \subseteq Clients /\ h.old = None
      BY <3>1 DEF NoHandler, Handlers, Steps
    <3>3. Becomes(c, h)
      BY <3>1 DEF Begin, Becomes
    <3>4. UNCHANGED <<clients, characters, system, zones>> /\ ~Busy(c)
      BY <2>2 DEF ConfirmMatch, Starts
    <3> HIDE DEF h
    <3> QED
      BY <3>2, <3>3, <3>4, IdleHandler
  <2> QED
    BY <2>1, <2>2
<1>2. PICK h \in Handlers :
          /\ Becomes(c, h)
          /\ h.chr = None /\ h.to = None
          /\ \/ /\ h.step = "snapshot" /\ h.job = "change" /\ h.todo = {}
                /\ h.old \in Instances /\ Alive(h.old) /\ map[h.old] # Town
             \/ h.step = "create" /\ h.job = "party" /\ h.todo \subseteq Clients /\ h.old = None
  BY <1>1
<1>3. Shape(h)
  BY <1>2 DEF Shape, Moving
<1>4. TypeOK'
  BY <1>1, <1>2, RunStep DEF WorldInv, TypeOK, Watch, clients, characters, system, zones
<1>5. run'[c] = h /\ \A d \in Clients : d # c => run'[d] = run[d]
  BY <1>2, RunStep DEF WorldInv
<1>6. HandlerFits(c)'
  BY <1>2, <1>3, <1>5 DEF HandlerFits
<1>7. GoneHasNone'
  BY <1>1, <1>5, NoHandlerType DEF WorldInv, GoneHasNone, clients
<1>8. \A x \in Characters : run[c].chr # x /\ h.chr # x
  BY <1>1, <1>2, NoHandlerType, Basics
<1> QED
  BY <1>1, <1>2, <1>4, <1>6, <1>7, <1>8, QuietStep DEF clients, characters, system, zones

\* A handler takes a character: as no two handlers have one, none had it before.
LEMMA PickedIsSettled ==
  ASSUME WorldInv, NEW c \in Clients, NEW h \in Handlers, Becomes(c, h), Watch, ~contended',
         NEW x \in Characters, h.chr = x, run[c].chr # x
  PROVE  Settled(x) /\ Consistent(x)
<1>1. run'[c] = h /\ \A d \in Clients : d # c => run'[d] = run[d]
  BY RunStep DEF WorldInv
<1>2. ~contended /\ ~Contention'
  BY DEF Watch
<1>3. \A d \in Clients : run[d].chr # x
  BY <1>1, <1>2, Basics DEF Contention
<1> QED
  BY <1>2, <1>3 DEF WorldInv, PlacesFit, Settled

\* The client's character was made for it.
LEMMA OwnCharacter ==
  ASSUME WorldInv, NEW c \in Clients, character[c] # None
  PROVE  character[c] \in Characters /\ character[c][1] = c /\ Made(character[c])
BY DEF WorldInv, TypeOK, CharactersMade, Made

\* The first half of OnClose.
LEMMA OnCloseKeeps ==
  ASSUME WorldInv, NEW c \in Clients, Watch, OnClose(c)
  PROVE  WorldInv'
<1>1. /\ conn[c] = "closing" /\ conn' = [conn EXCEPT ![c] = "gone"] /\ run[c] = NoHandler
      /\ UNCHANGED <<character, confirms, moves, characters, system, zones>>
  BY IdleHandler DEF OnClose, Starts
<1>2. /\ conn' \in [Clients -> {"open", "closing", "gone"}]
      /\ \A d \in Clients : d # c => conn'[d] = conn[d]
      /\ conn'[c] = "gone"
  BY <1>1 DEF WorldInv, TypeOK
<1>3. CASE character[c] = None
  <2>1. UNCHANGED run
    BY <1>3 DEF OnClose
  <2> QED
    BY <1>1, <1>2, <1>3, <2>1, NoHandlerType, StayStep DEF WorldInv, TypeOK, characters
<1>4. CASE character[c] # None
  <2>1. PICK x \in Characters : x = character[c] /\ x[1] = c /\ Made(x)
    BY <1>4, OwnCharacter
  <2> DEFINE h == [NoHandler EXCEPT !.step = "close", !.job = "close", !.chr = x]
  <2>2. /\ h \in Handlers /\ h.step = "close" /\ h.job = "close" /\ h.chr = x
        /\ h.old = None /\ h.to = None
    BY DEF NoHandler, Handlers, Steps
  <2>3. Becomes(c, h)
    BY <1>4, <2>1 DEF OnClose, Begin, Becomes
  <2> HIDE DEF h
  <2>4. run'[c] = h /\ \A d \in Clients : d # c => run'[d] = run[d]
    BY <2>2, <2>3, RunStep DEF WorldInv
  <2>5. TypeOK'
    BY <1>1, <1>2, <2>2, <2>3, RunStep DEF WorldInv, TypeOK, Watch, characters, system, zones
  <2>6. HandlerFits(c)'
    BY <1>1, <1>2, <2>1, <2>2, <2>4, Basics DEF HandlerFits, Shape, Moving
  <2>7. GoneHasNone'
    BY <1>1, <1>2, <2>2, <2>4 DEF WorldInv, GoneHasNone
  <2>8. run[c].chr = None
    BY <1>1, NoHandlerType
  <2>9. ~contended' => \A y \in Characters : h.chr = y =>
            QuietFits(y, c, h) /\ character[y[1]] # None
    BY <1>4, <2>1, <2>2, <2>3, <2>8, Basics, PickedIsSettled DEF QuietFits
  <2> QED
    BY <1>1, <1>2, <2>1, <2>2, <2>3, <2>5, <2>6, <2>7, <2>8, <2>9, Basics, QuietStep
    DEF characters, system, zones
<1> QED
  BY <1>3, <1>4

\* The update thread drops a zone, which no character is in.
LEMMA UpdateKeeps ==
  ASSUME WorldInv, NEW z \in Instances, Update(z)
  PROVE  WorldInv'
<1>1. UNCHANGED <<clients, characters, map, zones, run>> /\ maps_' \subseteq maps_ /\ Watch
  BY DEF Update, EraseEmptyDungeon
<1>2. TypeOK'
  BY <1>1 DEF WorldInv, TypeOK, Watch, clients, characters, zones
<1>3. ASSUME NEW c \in Clients
      PROVE  WorldInv'
  <2>1. PICK h \in Handlers : h = run[c]
    BY HandlerType DEF WorldInv
  <2>2. Becomes(c, h)
    BY <1>1, <2>1 DEF WorldInv, TypeOK, Becomes
  <2>3. HandlerFits(c)' /\ GoneHasNone'
    BY <1>1 DEF WorldInv, HandlerFits, GoneHasNone, clients
  <2>4. h.old # None => Alive(h.old)
    BY <2>1, HeldIsAlive
  <2>5. h.to # None => Alive(h.to)
    BY <2>1, HeldIsAlive
  <2>6. /\ h.chr # None => Made(h.chr)
        /\ h.job = "change" => \A x \in Characters : x \in h.todo => Made(x)
        /\ h.job = "change" => map[h.old] # Town
    BY <2>1, HandlerType DEF WorldInv, CharactersMade, ZonesMade
  <2> QED
    BY <1>1, <1>2, <2>1, <2>2, <2>3, <2>4, <2>5, <2>6, QuietStep DEF clients, characters, zones
<1>4. CASE Clients = {}
  <2>1. Characters = {} /\ ~Contention'
    BY <1>4 DEF Characters, Contention
  <2>2. CharactersMade' /\ ZonesMade' /\ GoneHasNone' /\ PlacesFit' /\ LeftAlone'
    BY <1>1, <1>4, <2>1 DEF WorldInv, CharactersMade, ZonesMade, GoneHasNone, PlacesFit, LeftAlone,
       zones
  <2>3. IdsUnique'
    BY <1>1, <1>4 DEF WorldInv, IdsUnique, zones
  <2> QED
    BY <1>2, <1>4, <2>1, <2>2, <2>3 DEF WorldInv
<1> QED
  BY <1>3, <1>4

-----------------------------------------------------------------------------
(* The steps of a handler that touch no character.                         *)

\* A handler goes on: it keeps its character, or takes one.
LEMMA QuietHandlerStep ==
  ASSUME WorldInv, NEW c \in Clients, NEW h \in Handlers, Becomes(c, h), Watch,
         UNCHANGED <<clients, characters, system, chrs, last_object_id>>,
         controller' \in [Instances -> Nat \union {None}], told' \in [Clients -> BOOLEAN],
         Shape(h), h.step # "emplace",
         h.job = "close" <=> run[c].job = "close",
         h.job = "close" => h.chr = run[c].chr,
         h.chr = run[c].chr \/ run[c].chr = None,
         h.old # None => Alive(h.old), h.to # None => Alive(h.to),
         h.chr # None => Made(h.chr),
         h.job = "change" => \A x \in Characters : x \in h.todo => Made(x),
         h.job = "change" => map[h.old] # Town,
         ~contended' => \A x \in Characters : h.chr = x =>
             /\ QuietFits(x, c, h)
             /\ run[c].chr = x \/ zone[x] # None \/ character[x[1]] # None
  PROVE  WorldInv'
<1>1. run'[c] = h /\ \A d \in Clients : d # c => run'[d] = run[d]
  BY RunStep DEF WorldInv
<1>2. TypeOK'
  BY RunStep DEF WorldInv, TypeOK, Watch, clients, characters, system
<1>3. HandlerFits(c)'
  BY <1>1 DEF WorldInv, HandlerFits, clients
<1>4. GoneHasNone'
  BY <1>1 DEF WorldInv, GoneHasNone, clients
<1>5. ~contended' => \A x \in Characters : ~(run[c].chr = x /\ h.chr # x)
  BY Basics
<1> QED
  BY <1>2, <1>3, <1>4, <1>5, QuietStep DEF clients, characters, system

\* What the invariant says of the handler that makes a step.
LEMMA HandlerFacts ==
  ASSUME WorldInv, NEW c \in Clients
  PROVE  /\ Shape(run[c])
         /\ run[c].chr # None => Made(run[c].chr)
         /\ run[c].job = "change" => \A x \in Characters : x \in run[c].todo => Made(x)
         /\ run[c].job = "change" => map[run[c].old] # Town
         /\ ~contended => \A x \in Characters : run[c].chr = x => MoveFits(x, c)
BY HandlerType DEF WorldInv, HandlerFits, CharactersMade, ZonesMade,
   PlacesFit

\* The check of TryChangeZone.
LEMMA CheckSteps ==
  ASSUME WorldInv, NEW c \in Clients, Watch, Snapshot(c) \/ Check(c)
  PROVE  WorldInv'
<1>1. /\ UNCHANGED <<clients, characters, system, zones>>
      /\ run[c].job = "change" /\ run[c].chr = None
  BY HandlerFacts DEF Snapshot, Check, At, Shape, Moving
<1>2. \E h \in Handlers :
          /\ Becomes(c, h)
          /\ \/ h = NoHandler
             \/ /\ h.step \in {"check", "create"} /\ h.job = "change" /\ h.chr = None
                /\ h.old = run[c].old /\ h.to = run[c].to
                /\ h.todo = run[c].todo \/ h.todo = Inside(run[c].old)
  <2>1. CASE Snapshot(c)
    <3> DEFINE h == [run[c] EXCEPT !.step = "check", !.todo = Inside(run[c].old),
                                   !.copy = Inside(run[c].old)]
    <3>1. run[c].old \in Instances
      BY <1>1, HandlerFacts DEF Shape
    <3>2. Inside(run[c].old) \subseteq Characters
      BY <3>1 DEF WorldInv, TypeOK, Inside, Entries
    <3>3. /\ h \in Handlers /\ h.step = "check" /\ h.job = run[c].job /\ h.chr = run[c].chr
          /\ h.old = run[c].old /\ h.to = run[c].to /\ h.todo = Inside(run[c].old)
      BY <3>2, HandlerIn DEF Handlers, Steps
    <3>4. Becomes(c, h)
      BY <2>1 DEF Snapshot, Becomes
    <3> QED
      BY <1>1, <3>3, <3>4
  <2>2. CASE Check(c) /\ Goto(c, "create")
    <3> DEFINE h == [run[c] EXCEPT !.step = "create"]
    <3>1. /\ h \in Handlers /\ h.step = "create" /\ h.job = run[c].job /\ h.chr = run[c].chr
          /\ h.old = run[c].old /\ h.to = run[c].to /\ h.todo = run[c].todo
      BY HandlerIn DEF Handlers, Steps
    <3>2. Becomes(c, h)
      BY <2>2 DEF Goto, Becomes
    <3> QED
      BY <1>1, <3>1, <3>2
  <2>3. CASE Check(c) /\ ~Goto(c, "create") /\ ~Finish(c)
    <3>1. PICK x \in run[c].copy : run' = [run EXCEPT ![c].copy = @ \ {x}]
      BY <2>3 DEF Check
    <3> DEFINE h == [run[c] EXCEPT !.copy = @ \ {x}]
    <3>2. /\ h \in Handlers /\ h.step = run[c].step /\ h.job = run[c].job /\ h.chr = run[c].chr
          /\ h.old = run[c].old /\ h.to = run[c].to /\ h.todo = run[c].todo
      BY HandlerType DEF WorldInv, Handlers
    <3>3. Becomes(c, h)
      BY <3>1 DEF Becomes
    <3>4. run[c].step = "check"
      BY <2>3 DEF Check, At
    <3> QED
      BY <1>1, <3>2, <3>3, <3>4
  <2>4. CASE Finish(c)
    BY <2>4, NoHandlerType DEF Finish, Becomes
  <2> QED
    BY <2>1, <2>2, <2>3, <2>4
<1>3. PICK h \in Handlers :
          /\ Becomes(c, h)
          /\ \/ h = NoHandler
             \/ /\ h.step \in {"check", "create"} /\ h.job = "change" /\ h.chr = None
                /\ h.old = run[c].old /\ h.to = run[c].to
                /\ h.todo = run[c].todo \/ h.todo = Inside(run[c].old)
  BY <1>2
<1>4. run[c].old \in Instances /\ Inside(run[c].old) \subseteq Characters
  BY <1>1, HandlerFacts DEF Shape, WorldInv, TypeOK, Inside, Entries
<1>5. Shape(h)
  BY <1>1, <1>3, <1>4, NoHandlerType, HandlerFacts, Basics DEF Shape, Moving
<1>6. h.job = "change" => \A x \in Characters : x \in h.todo => Made(x)
  BY <1>1, <1>3, <1>4, NoHandlerType, HandlerFacts DEF WorldInv, CharactersMade
<1>7. /\ h.chr = None /\ h.job # "close" /\ h.step # "emplace"
      /\ h.old # None => h.old = run[c].old
      /\ h.to # None => h.to = run[c].to
      /\ h.job = "change" => map[h.old] # Town
  BY <1>1, <1>3, NoHandlerType, HandlerFacts
<1>8. h.old # None => Alive(h.old)
  BY <1>7, HeldIsAlive
<1>9. h.to # None => Alive(h.to)
  BY <1>7, HeldIsAlive
<1> QED
  BY <1>1, <1>3, <1>5, <1>6, <1>7, <1>8, <1>9, Basics, QuietHandlerStep DEF WorldInv, TypeOK, zones

\* All characters have been moved.
LEMMA DoneKeeps ==
  ASSUME WorldInv, NEW c \in Clients, Watch, Done(c)
  PROVE  WorldInv'
<1>1. /\ UNCHANGED <<clients, characters, system, zones>> /\ Becomes(c, NoHandler)
      /\ run[c].job # "close" /\ run[c].chr = None
  BY HandlerFacts DEF Done, Finish, Becomes, At, Shape, Moving
<1>2. Shape(NoHandler)
  BY NoHandlerType DEF Shape, Moving
<1> QED
  BY <1>1, <1>2, NoHandlerType, Basics, QuietHandlerStep DEF WorldInv, TypeOK, zones

\* The way out of the last dungeon leads to the town, which is there.
LEMMA TownIsTarget ==
  ASSUME WorldInv, NEW c \in Clients, Watch, CreateTarget(c), UNCHANGED system,
         run' = [run EXCEPT ![c].step = "next", ![c].to = TownInstance], run[c].job = "change"
  PROVE  WorldInv'
<1> DEFINE h == [run[c] EXCEPT !.step = "next", !.to = TownInstance]
<1>1. UNCHANGED <<clients, characters, system, zones>> /\ run[c].chr = None
  BY HandlerFacts DEF CreateTarget, At, Shape, Moving
<1>2. /\ h \in Handlers /\ h.step = "next" /\ h.job = run[c].job /\ h.chr = run[c].chr
      /\ h.old = run[c].old /\ h.to = TownInstance /\ h.todo = run[c].todo
  <2>1. run[c] \in Handlers
    BY HandlerIn
  <2>2. h \in Handlers
    BY <2>1, Basics DEF Handlers, Steps
  <2>3. /\ h.step = "next" /\ h.job = run[c].job /\ h.chr = run[c].chr
        /\ h.old = run[c].old /\ h.to = TownInstance /\ h.todo = run[c].todo
    BY <2>1 DEF Handlers
  <2> QED
    BY <2>2, <2>3
<1>3. Becomes(c, h)
  BY DEF Becomes
<1> HIDE DEF h
<1>4. Shape(h)
  BY <1>1, <1>2, HandlerFacts, Basics DEF Shape, Moving
<1>5. Alive(TownInstance) /\ (h.old # None => Alive(h.old))
  BY <1>2, HeldIsAlive DEF Alive
<1>6. /\ controller' \in [Instances -> Nat \union {None}] /\ told' \in [Clients -> BOOLEAN]
      /\ UNCHANGED <<chrs, last_object_id>>
  BY <1>1 DEF WorldInv, TypeOK, zones
<1>7. /\ h.job = "change" /\ h.chr = None /\ run[c].job = "change"
      /\ \A x \in Characters : x \in h.todo => Made(x)
      /\ map[h.old] # Town
  BY <1>1, <1>2, HandlerFacts
<1> QED
  BY <1>1, <1>2, <1>3, <1>4, <1>5, <1>6, <1>7, Basics, QuietHandlerStep

\* There is no zone of a map without data: the server goes down.
LEMMA NoZoneKeeps ==
  ASSUME WorldInv, NEW c \in Clients, Watch, CreateTarget(c), Goto(c, "down"),
         UNCHANGED system, run[c].job = "party"
  PROVE  WorldInv'
<1> DEFINE h == [run[c] EXCEPT !.step = "down"]
<1>1. UNCHANGED <<clients, characters, system, zones>> /\ run[c].chr = None
  BY HandlerFacts DEF CreateTarget, At, Shape, Moving
<1>2. /\ h \in Handlers /\ h.step = "down" /\ h.job = run[c].job /\ h.chr = run[c].chr
      /\ h.old = run[c].old /\ h.to = run[c].to /\ h.todo = run[c].todo
  BY HandlerIn DEF Handlers, Steps
<1>3. Becomes(c, h)
  BY DEF Becomes, Goto
<1> HIDE DEF h
<1>4. Shape(h)
  BY <1>1, <1>2, HandlerFacts, Basics DEF Shape, Moving
<1>5. (h.to # None => Alive(h.to)) /\ (h.old # None => Alive(h.old))
  BY <1>2, HeldIsAlive
<1>6. /\ controller' \in [Instances -> Nat \union {None}] /\ told' \in [Clients -> BOOLEAN]
      /\ UNCHANGED <<chrs, last_object_id>>
  BY <1>1 DEF WorldInv, TypeOK, zones
<1> QED
  BY <1>1, <1>2, <1>3, <1>4, <1>5, <1>6, Basics, QuietHandlerStep

\* The next one to move: a character of the copy, or the character of a player of the party.
LEMMA NextTurn ==
  ASSUME WorldInv, NEW c \in Clients, NextCharacter(c) \/ NextPlayer(c)
  PROVE  \E h \in Handlers :
            /\ Becomes(c, h)
            /\ h.job = run[c].job /\ h.old = run[c].old /\ h.to = run[c].to
            /\ h.todo \subseteq run[c].todo
            /\ \/ h.step \in {"next", "down"} /\ h.chr = None
               \/ /\ h.step = "leave" /\ h.job = "change"
                  /\ h.chr \in run[c].todo /\ h.chr \notin h.todo
               \/ /\ h.step = "leave" /\ h.job = "party" /\ h.chr # None
                  /\ \E d \in Clients :
                         h.chr = character[d] /\ d \in run[c].todo /\ d \notin h.todo
<1>0. /\ run[c].job \in {"change", "party"}
      /\ run[c].job = "change" => run[c].todo \subseteq Characters
      /\ run[c].job = "party" => run[c].todo \subseteq Clients
  BY HandlerFacts DEF NextCharacter, NextPlayer, At, Shape
<1>1. CASE NextCharacter(c)
  <2>1. PICK x \in run[c].todo :
            run' = [run EXCEPT ![c].todo = @ \ {x},
                               ![c].step = IF Lives(ClientOf(x)) THEN "leave" ELSE "next",
                               ![c].chr = IF Lives(ClientOf(x)) THEN x ELSE None]
    BY <1>1 DEF NextCharacter
  <2>2. PICK step \in {"leave", "next"}, chr \in {x, None} :
            /\ run' = [run EXCEPT ![c].todo = @ \ {x}, ![c].step = step, ![c].chr = chr]
            /\ (step = "leave" /\ chr = x) \/ (step = "next" /\ chr = None)
    BY <2>1
  <2> DEFINE h == [run[c] EXCEPT !.todo = @ \ {x}, !.step = step, !.chr = chr]
  <2>3. run[c].job = "change" /\ x \in Characters
    BY <1>0, <1>1 DEF NextCharacter
  <2>4. /\ h \in Handlers /\ h.step = step /\ h.job = run[c].job /\ h.chr = chr
        /\ h.old = run[c].old /\ h.to = run[c].to /\ h.todo = run[c].todo \ {x}
    <3>1. run[c] \in Handlers
      BY HandlerIn
    <3>2. h \in Handlers
      BY <3>1, <2>3 DEF Handlers, Steps
    <3>3. /\ h.step = step /\ h.job = run[c].job /\ h.chr = chr
          /\ h.old = run[c].old /\ h.to = run[c].to /\ h.todo = run[c].todo \ {x}
      BY <3>1 DEF Handlers
    <3> QED
      BY <3>2, <3>3
  <2>5. Becomes(c, h)
    BY <2>2 DEF Becomes
  <2> HIDE DEF h
  <2> QED
    BY <2>2, <2>3, <2>4, <2>5
<1>2. CASE NextPlayer(c)
  <2>1. PICK d \in run[c].todo :
            run' = [run EXCEPT ![c].todo = @ \ {d},
                               ![c].step = IF ~Stored(d) THEN "next"
                                           ELSE IF character[d] = None THEN "down" ELSE "leave",
                               ![c].chr = IF Stored(d) THEN character[d] ELSE None]
    BY <1>2 DEF NextPlayer
  <2>2. PICK step \in {"leave", "next", "down"}, chr \in {character[d], None} :
            /\ run' = [run EXCEPT ![c].todo = @ \ {d}, ![c].step = step, ![c].chr = chr]
            /\ \/ step = "leave" /\ chr = character[d] /\ chr # None
               \/ step \in {"next", "down"} /\ chr = None
    BY <2>1
  <2> DEFINE h == [run[c] EXCEPT !.todo = @ \ {d}, !.step = step, !.chr = chr]
  <2>3. run[c].job = "party" /\ d \in Clients
    BY <1>0, <1>2 DEF NextPlayer
  <2>4. chr \in Characters \union {None}
    BY <2>2, <2>3 DEF WorldInv, TypeOK
  <2>5. /\ h \in Handlers /\ h.step = step /\ h.job = run[c].job /\ h.chr = chr
        /\ h.old = run[c].old /\ h.to = run[c].to /\ h.todo = run[c].todo \ {d}
    <3>1. run[c] \in Handlers
      BY HandlerIn
    <3>2. h \in Handlers
      BY <3>1, <2>2, <2>4 DEF Handlers, Steps
    <3>3. /\ h.step = step /\ h.job = run[c].job /\ h.chr = chr
          /\ h.old = run[c].old /\ h.to = run[c].to /\ h.todo = run[c].todo \ {d}
      BY <3>1 DEF Handlers
    <3> QED
      BY <3>2, <3>3
  <2>6. Becomes(c, h)
    BY <2>2 DEF Becomes
  <2> HIDE DEF h
  <2> QED
    BY <2>2, <2>3, <2>5, <2>6
<1> QED
  BY <1>1, <1>2

\* The next one to be moved is in the hands of this handler only, or has just been found elsewhere.
LEMMA NextKeeps ==
  ASSUME WorldInv, NEW c \in Clients, Watch, NextCharacter(c) \/ NextPlayer(c)
  PROVE  WorldInv'
<1>1. /\ UNCHANGED <<clients, characters, system, zones>> /\ run[c].chr = None
      /\ run[c].to \in Instances /\ run[c].job \in {"change", "party"}
      /\ run[c].job = "change" => run[c].old \in Instances /\ run[c].todo \subseteq Characters
      /\ run[c].job = "party" => run[c].todo \subseteq Clients
  BY HandlerFacts DEF NextCharacter, NextPlayer, At, Shape, Moving
<1>3. PICK h \in Handlers :
            /\ Becomes(c, h)
            /\ h.job = run[c].job /\ h.old = run[c].old /\ h.to = run[c].to
            /\ h.todo \subseteq run[c].todo
            /\ \/ h.step \in {"next", "down"} /\ h.chr = None
               \/ /\ h.step = "leave" /\ h.job = "change"
                  /\ h.chr \in run[c].todo /\ h.chr \notin h.todo
               \/ /\ h.step = "leave" /\ h.job = "party" /\ h.chr # None
                  /\ \E d \in Clients :
                         h.chr = character[d] /\ d \in run[c].todo /\ d \notin h.todo
  BY NextTurn
<1>4. Shape(h)
  BY <1>1, <1>3, Basics DEF Shape, Moving
<1>5. /\ h.chr # None => Made(h.chr)
      /\ h.job = "change" => \A x \in Characters : x \in h.todo => Made(x)
      /\ h.job = "change" => map[h.old] # Town
  BY <1>1, <1>3, HandlerFacts, OwnCharacter
<1>6. h.old # None => Alive(h.old)
  BY <1>3, HeldIsAlive
<1>7. h.to # None => Alive(h.to)
  BY <1>3, HeldIsAlive
<1>8. ASSUME ~contended', NEW x \in Characters, h.chr = x
      PROVE  QuietFits(x, c, h) /\ (zone[x] # None \/ character[x[1]] # None)
  <2>1. Consistent(x) /\ h.step = "leave"
    BY <1>1, <1>3, <1>8, Basics, PickedIsSettled
  <2>2. CASE h.job = "change"
    <3>1. run'[c] = h /\ ~Contention'
      BY <1>3, <1>8, RunStep DEF WorldInv, Watch
    <3>2. zone'[x] = h.old
      BY <1>8, <2>1, <2>2, <3>1 DEF Contention, At
    <3> QED
      BY <1>1, <1>3, <2>1, <2>2, <3>2, Basics DEF QuietFits, characters
  <2>3. CASE h.job # "change"
    BY <1>3, <1>8, <2>1, <2>3, OwnCharacter DEF QuietFits
  <2> QED
    BY <2>2, <2>3
<1> QED
  BY <1>1, <1>3, <1>4, <1>5, <1>6, <1>7, <1>8, QuietHandlerStep DEF WorldInv, TypeOK, zones

\* The search of the zone finds the character that its handler has, and no other.
LEMMA FindKeeps ==
  ASSUME WorldInv, NEW c \in Clients, Watch, Find(c)
  PROVE  WorldInv'
<1>1. PICK step \in {"erase", "forget"}, found \in SUBSET Characters :
          /\ run' = [run EXCEPT ![c].step = step, ![c].copy = found]
          /\ found = {e.chr : e \in {f \in chrs[run[c].old] : f.oid = run[c].oid}}
  <2>1. run[c].old \in Instances
    BY HandlerFacts DEF Find, At, Shape
  <2>2. {e.chr : e \in {f \in chrs[run[c].old] : f.oid = run[c].oid}} \subseteq Characters
    BY <2>1 DEF WorldInv, TypeOK, Entries
  <2> QED
    BY <2>2 DEF Find
<1> DEFINE h == [run[c] EXCEPT !.step = step, !.copy = found]
<1>2. /\ h \in Handlers /\ h.step = step /\ h.job = run[c].job /\ h.chr = run[c].chr
      /\ h.old = run[c].old /\ h.to = run[c].to /\ h.todo = run[c].todo /\ h.oid = run[c].oid
      /\ h.copy = found
  BY HandlerIn DEF Handlers, Steps
<1>3. Becomes(c, h)
  BY <1>1 DEF Becomes
<1> HIDE DEF h
<1>4. UNCHANGED <<clients, characters, system, zones>> /\ run[c].step = "find"
  BY DEF Find, At
<1>5. Shape(h) /\ run[c].old \in Instances /\ Alive(run[c].old)
  BY <1>1, <1>2, <1>4, HandlerFacts, HeldIsAlive, Basics DEF Shape, Moving
<1>6. h.to # None => Alive(h.to)
  BY <1>2, HeldIsAlive
<1>7. ASSUME ~contended', NEW x \in Characters, h.chr = x
      PROVE  QuietFits(x, c, h)
  <2>1. IsLeaving(x, c)
    BY <1>2, <1>4, <1>7, HandlerFacts DEF MoveFits, Watch
  <2>2. PICK e \in chrs[run[c].old] : e.chr = x /\ e.oid = run[c].oid
    BY <1>5, <2>1 DEF IsLeaving, Inside
  <2>3. \A f \in chrs[run[c].old] : f.oid = run[c].oid => f = e
    BY <1>5, <2>2 DEF WorldInv, IdsUnique
  <2>4. found \subseteq {x}
    BY <1>1, <2>2, <2>3
  <2> QED
    BY <1>1, <1>2, <2>1, <2>4 DEF QuietFits, IsLeaving
<1> QED
  BY <1>2, <1>3, <1>4, <1>5, <1>6, <1>7, HandlerFacts, Basics, QuietHandlerStep
  DEF WorldInv, TypeOK, zones

\* The reads of OnClose: the zone that the character is in, and its object id there.
LEMMA ReadSteps ==
  ASSUME WorldInv, NEW c \in Clients, Watch, ReadZone(c) \/ ReadObjectId(c)
  PROVE  WorldInv'
<1>1. /\ UNCHANGED <<clients, characters, system, zones>> /\ run[c].step \in {"close", "oid"}
      /\ run[c].job = "close"
      /\ run[c].step = "oid" => run[c].old \in Instances
  BY HandlerFacts DEF ReadZone, ReadObjectId, At, Shape
<1>2. PICK x \in Characters : run[c].chr = x
  BY <1>1, HandlerFacts, HandlerType DEF WorldInv, Shape, Moving
<1>3. \E h \in Handlers :
          /\ Becomes(c, h)
          /\ h.job = "close" /\ h.chr = x /\ h.to = run[c].to
          /\ \/ h.step = "clear" /\ h.old = None /\ ZoneOf(x) = None /\ run[c].step = "close"
             \/ h.step = "oid" /\ h.old = ZoneOf(x) /\ h.old \in Instances /\ run[c].step = "close"
             \/ h.step = "find" /\ h.old = run[c].old /\ h.oid = oid[x] /\ run[c].step = "oid"
  <2>1. CASE ReadZone(c)
    <3>1. PICK step \in {"clear", "oid"}, z \in Instances \union {None} :
              /\ run' = [run EXCEPT ![c].step = step, ![c].old = z]
              /\ z = ZoneOf(x) /\ (step = "clear" <=> z = None)
      BY <1>2, <2>1 DEF ReadZone, ZoneOf, WorldInv, TypeOK
    <3> DEFINE h == [run[c] EXCEPT !.step = step, !.old = z]
    <3>2. /\ h \in Handlers /\ h.step = step /\ h.job = run[c].job /\ h.chr = run[c].chr
          /\ h.old = z /\ h.to = run[c].to
      BY HandlerIn DEF Handlers, Steps
    <3>3. Becomes(c, h) /\ run[c].step = "close"
      BY <2>1, <3>1 DEF Becomes, ReadZone, At
    <3> HIDE DEF h
    <3> QED
      BY <1>1, <1>2, <3>1, <3>2, <3>3
  <2>2. CASE ReadObjectId(c)
    <3> DEFINE h == [run[c] EXCEPT !.step = "find", !.oid = oid[x]]
    <3>1. oid[x] \in Nat \union {None}
      BY DEF WorldInv, TypeOK
    <3>2. /\ h \in Handlers /\ h.step = "find" /\ h.job = run[c].job /\ h.chr = run[c].chr
          /\ h.old = run[c].old /\ h.to = run[c].to /\ h.oid = oid[x]
      BY <3>1, HandlerIn DEF Handlers, Steps
    <3>3. Becomes(c, h) /\ run[c].step = "oid"
      BY <1>2, <2>2 DEF ReadObjectId, Becomes, At
    <3> HIDE DEF h
    <3> QED
      BY <1>1, <1>2, <3>2, <3>3
  <2> QED
    BY <2>1, <2>2
<1>4. PICK h \in Handlers :
          /\ Becomes(c, h)
          /\ h.job = "close" /\ h.chr = x /\ h.to = run[c].to
          /\ \/ h.step = "clear" /\ h.old = None /\ ZoneOf(x) = None /\ run[c].step = "close"
             \/ h.step = "oid" /\ h.old = ZoneOf(x) /\ h.old \in Instances /\ run[c].step = "close"
             \/ h.step = "find" /\ h.old = run[c].old /\ h.oid = oid[x] /\ run[c].step = "oid"
  BY <1>3
<1>5. h.old # None => Alive(h.old)
  BY <1>4, HeldIsAlive
<1>6. h.to # None => Alive(h.to)
  BY <1>4, HeldIsAlive
<1>7. Shape(h) /\ h.job # "change" /\ h.step # "emplace" /\ Made(x)
  BY <1>1, <1>2, <1>4, HandlerFacts, Basics DEF Shape, Moving
<1>8. ASSUME ~contended'
      PROVE  QuietFits(x, c, h)
  <2>1. Consistent(x) /\ (run[c].step = "oid" => zone[x] = run[c].old)
    BY <1>1, <1>2, <1>8, HandlerFacts DEF MoveFits, Watch
  <2>2. CASE h.step = "clear"
    <3>1. Nowhere(x)
      BY <1>4, <2>1, <2>2, Basics DEF Consistent, Nowhere, ZoneOf
    <3> QED
      BY <2>2, <3>1 DEF QuietFits
  <2>3. CASE h.step = "oid"
    BY <1>4, <2>1, <2>3, Basics DEF QuietFits, ZoneOf
  <2>4. CASE h.step = "find"
    BY <1>1, <1>4, <2>1, <2>4 DEF QuietFits, Consistent
  <2> QED
    BY <1>4, <2>2, <2>3, <2>4
<1> QED
  BY <1>1, <1>2, <1>4, <1>5, <1>6, <1>7, <1>8, Basics, QuietHandlerStep
  DEF WorldInv, TypeOK, zones

\* An election touches no character.
LEMMA ElectionSteps ==
  ASSUME WorldInv, NEW c \in Clients, Watch, CopyCharacters(c) \/ Elect(c)
  PROVE  WorldInv'
<1>1. /\ UNCHANGED <<clients, characters, system, chrs, last_object_id>>
      /\ run[c].step \in {"copy", "elect"} /\ run[c].old \in Instances
  BY HandlerFacts DEF CopyCharacters, Elect, At, Shape, zones
<1>2. PICK x \in Characters : run[c].chr = x
  BY <1>1, HandlerFacts, HandlerType DEF WorldInv, Shape, Moving
<1>3. /\ controller' \in [Instances -> Nat \union {None}]
      /\ told' \in [Clients -> BOOLEAN]
  <2>1. CASE UNCHANGED <<controller, told>>
    BY <2>1 DEF WorldInv, TypeOK
  <2>2. CASE Elect(c) /\ ~UNCHANGED <<controller, told>>
    <3>1. PICK y \in run[c].copy :
              /\ controller' = [controller EXCEPT ![run[c].old] = IF @ = None THEN oid[y] ELSE @]
              /\ Tell(IF controller[run[c].old] = None THEN {y} ELSE {}, TRUE)
      BY <2>2 DEF Elect
    <3>2. oid[y] \in Nat \union {None}
      BY <3>1, HandlerType DEF WorldInv, TypeOK
    <3> QED
      BY <1>1, <3>1, <3>2 DEF WorldInv, TypeOK, Tell
  <2> QED
    BY <2>1, <2>2 DEF CopyCharacters, zones
<1>4. \E h \in Handlers :
          /\ Becomes(c, h)
          /\ h.step \in {"elect", AfterRemove(c)} /\ h.job = run[c].job /\ h.chr = run[c].chr
          /\ h.old = run[c].old /\ h.to = run[c].to /\ h.todo = run[c].todo
  <2>1. ASSUME NEW step \in {"elect", AfterRemove(c)}, NEW copy \in SUBSET Characters,
               run' = [run EXCEPT ![c].step = step, ![c].copy = copy]
        PROVE  \E h \in Handlers :
                  /\ Becomes(c, h)
                  /\ h.step \in {"elect", AfterRemove(c)} /\ h.job = run[c].job
                  /\ h.chr = run[c].chr
                  /\ h.old = run[c].old /\ h.to = run[c].to /\ h.todo = run[c].todo
    <3> DEFINE h == [run[c] EXCEPT !.step = step, !.copy = copy]
    <3>1. /\ h \in Handlers /\ h.step = step /\ h.job = run[c].job /\ h.chr = run[c].chr
          /\ h.old = run[c].old /\ h.to = run[c].to /\ h.todo = run[c].todo
      BY HandlerIn DEF Handlers, Steps, AfterRemove
    <3>2. Becomes(c, h)
      BY <2>1 DEF Becomes
    <3> QED
      BY <3>1, <3>2
  <2>2. CASE CopyCharacters(c)
    <3>1. Inside(run[c].old) \subseteq Characters
      BY <1>1 DEF WorldInv, TypeOK, Inside, Entries
    <3> QED
      BY <2>1, <2>2, <3>1 DEF CopyCharacters, GotoWith
  <2>3. CASE GotoWith(c, AfterRemove(c), {})
    <3>1. run' = [run EXCEPT ![c].step = AfterRemove(c), ![c].copy = {}]
      BY <2>3 DEF GotoWith
    <3>2. {} \in SUBSET Characters /\ AfterRemove(c) \in {"elect", AfterRemove(c)}
      OBVIOUS
    <3> HIDE <2>3
    <3> QED
      BY <2>1, <3>1, <3>2
  <2>4. CASE Goto(c, AfterRemove(c))
    <3> DEFINE h == [run[c] EXCEPT !.step = AfterRemove(c)]
    <3>1. /\ h \in Handlers /\ h.step = AfterRemove(c) /\ h.job = run[c].job
          /\ h.chr = run[c].chr
          /\ h.old = run[c].old /\ h.to = run[c].to /\ h.todo = run[c].todo
      BY HandlerIn DEF Handlers, Steps, AfterRemove
    <3>2. Becomes(c, h)
      BY <2>4 DEF Goto, Becomes
    <3> QED
      BY <3>1, <3>2
  <2>5. ASSUME NEW y \in run[c].copy, run' = [run EXCEPT ![c].copy = @ \ {y}], Elect(c)
        PROVE  \E h \in Handlers :
                  /\ Becomes(c, h)
                  /\ h.step \in {"elect", AfterRemove(c)} /\ h.job = run[c].job
                  /\ h.chr = run[c].chr
                  /\ h.old = run[c].old /\ h.to = run[c].to /\ h.todo = run[c].todo
    <3> DEFINE h == [run[c] EXCEPT !.copy = @ \ {y}]
    <3>1. /\ h \in Handlers /\ h.step = run[c].step /\ h.job = run[c].job
          /\ h.chr = run[c].chr
          /\ h.old = run[c].old /\ h.to = run[c].to /\ h.todo = run[c].todo
      BY HandlerType DEF WorldInv, Handlers
    <3>2. Becomes(c, h) /\ run[c].step = "elect"
      BY <2>5 DEF Elect, At, Becomes
    <3> QED
      BY <3>1, <3>2
  <2> QED
    BY <2>2, <2>3, <2>4, <2>5 DEF Elect
<1>5. PICK h \in Handlers :
          /\ Becomes(c, h)
          /\ h.step \in {"elect", AfterRemove(c)} /\ h.job = run[c].job /\ h.chr = run[c].chr
          /\ h.old = run[c].old /\ h.to = run[c].to /\ h.todo = run[c].todo
  BY <1>4
<1>6. h.step \in {"elect", "clear", "place"} /\ (h.step # "elect" => h.step = AfterRemove(c))
  BY <1>5 DEF AfterRemove
<1>7. Shape(h)
  BY <1>1, <1>2, <1>5, <1>6, HandlerFacts, Basics DEF Shape, Moving, AfterRemove
<1>8. h.old # None => Alive(h.old)
  BY <1>5, HeldIsAlive
<1>9. h.to # None => Alive(h.to)
  BY <1>5, HeldIsAlive
<1>10. ~contended' => QuietFits(x, c, h)
  BY <1>1, <1>2, <1>5, <1>6, HandlerFacts DEF MoveFits, QuietFits, Watch
<1> QED
  BY <1>1, <1>2, <1>3, <1>5, <1>6, <1>7, <1>8, <1>9, <1>10, HandlerFacts, Basics,
     QuietHandlerStep

-----------------------------------------------------------------------------
(* The steps that move a character.                                        *)

\* A handler moves the character that it has; only if another has it, too, are others touched.
LEMMA CharacterStep ==
  ASSUME WorldInv, NEW c \in Clients, NEW h \in Handlers, Becomes(c, h), Watch,
         NEW x \in Characters, run[c].chr = x, UNCHANGED <<clients, system>>,
         TypeOK', IdsUnique', Shape(h), h.chr \in {x, None},
         h.job = "close" <=> run[c].job = "close",
         h.job = "close" => h.chr = x,
         h.old # None => Alive(h.old), h.to # None => Alive(h.to),
         h.job = "change" => \A y \in Characters : y \in h.todo => Made(y),
         h.job = "change" => map[h.old] # Town,
         \A y \in Characters : zone'[y] \in {zone[y], None} \/ (y = x /\ Alive(zone'[y])),
         \A z \in Instances : \A e \in chrs'[z] : e \in chrs[z] \/ (e.chr = x /\ Alive(z)),
         ~contended' =>
             /\ \A y \in Characters : y # x =>
                    /\ zone'[y] = zone[y] /\ oid'[y] = oid[y]
                    /\ \A z \in Instances : \A e \in Entries : e.chr = y =>
                           (e \in chrs'[z] <=> e \in chrs[z])
             /\ h.chr = x => MoveFits(x, c)'
             /\ h.chr # x => Consistent(x)'
  PROVE  WorldInv'
<1>1. run'[c] = h /\ \A d \in Clients : d # c => run'[d] = run[d]
  BY RunStep DEF WorldInv
<1>2. \A z \in Instances : Alive(z)' => Alive(z)
  BY AliveKeeps DEF system
<1>3. HandlerFits(c)'
  BY <1>1 DEF WorldInv, HandlerFits, clients
<1>4. \A d \in Clients : HandlerFits(d)'
  BY <1>3, HandlersKeep DEF clients
<1>5. Made(x)
  BY HandlerFacts, Basics
<1>6. CharactersMade'
  <2>1. \A y \in Characters : zone'[y] # None => Made(y)
    BY <1>5 DEF WorldInv, CharactersMade
  <2>2. \A y \in Characters, z \in Instances : y \in Inside(z)' => y \in Inside(z) \/ y = x
    BY DEF Inside
  <2>3. \A y \in Characters, z \in Instances : y \in Inside(z)' => Made(y)
    BY <1>5, <2>2 DEF WorldInv, CharactersMade
  <2> QED
    BY <1>5, <2>1, <2>3, CharactersKeep DEF clients
<1>7. ZonesMade'
  <2>1. \A z \in Instances : map[z] = None => ~Alive(z)
    BY AliveIsMade
  <2>2. ASSUME NEW z \in Instances, map[z] = None
        PROVE  chrs'[z] = {} /\ h.old # z /\ h.to # z /\ \A y \in Characters : zone'[y] # z
    BY <2>1, <2>2, Basics DEF WorldInv, ZonesMade
  <2> QED
    BY <2>2, ZonesKeep DEF system
<1>8. GoneHasNone'
  BY <1>1 DEF WorldInv, GoneHasNone, clients
<1>9. (Contention' => contended') /\ (contended => contended')
  BY DEF Watch
<1>10. ASSUME ~contended'
       PROVE  PlacesFit'
  <2>1. ~contended /\ ~Contention'
    BY <1>9, <1>10
  <2>2. chrs' \in [Instances -> SUBSET Entries]
    BY DEF TypeOK
  <2>3. \A y \in Characters : run[c].chr = y /\ h.chr # y => Consistent(y)'
    BY <1>10
  <2>4. \A y \in Characters : h.chr = y => MoveFits(y, c)'
    BY <1>10, Basics
  <2>5. \A y \in Characters : run[c].chr # y /\ h.chr # y =>
            /\ zone'[y] = zone[y] /\ oid'[y] = oid[y]
            /\ \A z \in Instances : \A e \in Entries : e.chr = y => (e \in chrs'[z] <=> e \in chrs[z])
    BY <1>10
  <2> QED
    BY <1>2, <2>1, <2>2, <2>3, <2>4, <2>5, PlacesKeep
<1>11. ASSUME ~contended'
       PROVE  LeftAlone'
  <2>1. ~contended
    BY <1>9, <1>11
  <2>2. \A y \in Characters : run[c].chr # y => zone'[y] = zone[y]
    BY <1>11
  <2>3. \A y \in Characters : h.chr = y => run[c].chr = y
    BY Basics
  <2> QED
    BY <2>1, <2>2, <2>3, LeftAloneKeeps DEF clients
<1> QED
  BY <1>4, <1>6, <1>7, <1>8, <1>9, <1>10, <1>11 DEF WorldInv

\* A character leaves its zone: its pointer is reset, and the entry is looked for in the zone where it is.
LEMMA LeaveKeeps ==
  ASSUME WorldInv, NEW c \in Clients, Watch, Leave(c)
  PROVE  WorldInv'
<1>1. /\ UNCHANGED <<clients, oid, at_portal, system, zones>>
      /\ run[c].step = "leave" /\ run[c].to \in Instances /\ run[c].job \in {"change", "party"}
      /\ run[c].job = "change" => run[c].old \in Instances
  BY HandlerFacts DEF Leave, At, Shape
<1>2. PICK x \in Characters : run[c].chr = x
  BY <1>1, HandlerFacts, HandlerType DEF WorldInv, Shape, Moving
<1>3. PICK old \in Instances \union {None}, step \in {"place", "find"} :
          /\ run' = [run EXCEPT ![c].step = step, ![c].old = old, ![c].oid = oid[x]]
          /\ old = (IF run[c].job = "party" THEN ZoneOf(x) ELSE run[c].old)
          /\ step = (IF old = None THEN "place" ELSE "find")
  <2>1. (IF run[c].job = "party" THEN ZoneOf(x) ELSE run[c].old) \in Instances \union {None}
    BY <1>1, HandlerType DEF WorldInv, TypeOK, ZoneOf
  <2> QED
    BY <1>2, <2>1 DEF Leave
<1> DEFINE h == [run[c] EXCEPT !.step = step, !.old = old, !.oid = oid[x]]
<1>4. oid[x] \in Nat \union {None}
  BY DEF WorldInv, TypeOK
<1>5. /\ h \in Handlers /\ h.step = step /\ h.job = run[c].job /\ h.chr = x
      /\ h.old = old /\ h.to = run[c].to /\ h.todo = run[c].todo /\ h.oid = oid[x]
  <2>1. run[c] \in Handlers
    BY HandlerIn
  <2>2. h \in Handlers
    BY <2>1, <1>4 DEF Handlers, Steps
  <2>3. /\ h.step = step /\ h.job = run[c].job /\ h.chr = x
        /\ h.old = old /\ h.to = run[c].to /\ h.todo = run[c].todo /\ h.oid = oid[x]
    BY <2>1, <1>2 DEF Handlers
  <2> QED
    BY <2>2, <2>3
<1>6. Becomes(c, h)
  BY <1>3 DEF Becomes
<1> HIDE DEF h
<1>7. /\ zone'[x] = None /\ \A y \in Characters : y # x => zone'[y] = zone[y]
      /\ zone' \in [Characters -> Instances \union {None}]
  BY <1>2 DEF WorldInv, TypeOK, Leave
<1>8. Shape(h)
  BY <1>1, <1>3, <1>5, HandlerFacts, Basics DEF Shape, Moving
<1>9. /\ h.old # None => Alive(h.old)
      /\ h.to # None => Alive(h.to)
      /\ h.job = "change" => map[h.old] # Town
  BY <1>1, <1>3, <1>5, HeldIsAlive, HandlerFacts
<1>10. TypeOK'
  BY <1>1, <1>5, <1>6, <1>7, RunStep DEF WorldInv, TypeOK, Watch, clients, system, zones
<1>11. IdsUnique'
  BY <1>1, <1>5, <1>6, <1>3, IdsKeep DEF zones
<1>12. ASSUME ~contended'
       PROVE  MoveFits(x, c)'
  <2>1. ~contended /\ ~Contention
    BY <1>12 DEF Watch, WorldInv
  <2>2. Consistent(x) /\ (run[c].job = "change" => zone[x] = run[c].old)
    BY <1>1, <1>2, <2>1, HandlerFacts DEF MoveFits, Contention, At
  <2>3. run'[c] = h /\ \A z \in Instances : Alive(z)' => Alive(z)
    BY <1>1, <1>5, <1>6, <1>9, RunStep, AliveKeeps DEF WorldInv, system
  <2>4. CASE old = None
    <3>1. \A z \in Instances : Alive(z) => zone[x] # z
      BY <1>1, <1>3, <2>4, Basics DEF ZoneOf
    <3>2. Nowhere(x)'
      BY <1>1, <2>2, <2>3, <3>1 DEF Consistent, Nowhere, Inside, zones
    <3> QED
      BY <1>3, <1>5, <2>3, <2>4, <3>2 DEF MoveFits
  <2>5. CASE old # None
    <3>1. zone[x] = old
      BY <1>1, <1>3, <2>2, <2>5 DEF ZoneOf
    <3>2. IsLeaving(x, c)'
      BY <1>1, <1>5, <2>2, <2>3, <3>1 DEF Consistent, IsLeaving, Inside, zones
    <3> QED
      BY <1>3, <1>5, <2>3, <2>5, <3>2 DEF MoveFits
  <2> QED
    BY <2>4, <2>5
<1> QED
  BY <1>1, <1>2, <1>5, <1>6, <1>7, <1>8, <1>9, <1>10, <1>11, <1>12, HandlerFacts, CharacterStep
  DEF zones

\* The entry found belongs to the character that the handler has, which forgets its zone.
LEMMA ForgetKeeps ==
  ASSUME WorldInv, NEW c \in Clients, Watch, Forget(c)
  PROVE  WorldInv'
<1>1. /\ UNCHANGED <<clients, oid, at_portal, system, zones>>
      /\ run[c].step = "forget" /\ run[c].old \in Instances
      /\ run' = [run EXCEPT ![c].step = "erase"]
  BY HandlerFacts DEF Forget, Goto, At, Shape
<1>2. PICK x \in Characters : run[c].chr = x
  BY <1>1, HandlerFacts, HandlerType DEF WorldInv, Shape, Moving
<1> DEFINE h == [run[c] EXCEPT !.step = "erase"]
<1>3. /\ h \in Handlers /\ h.step = "erase" /\ h.job = run[c].job /\ h.chr = x
      /\ h.old = run[c].old /\ h.to = run[c].to /\ h.todo = run[c].todo /\ h.oid = run[c].oid
  BY <1>2, HandlerIn DEF Handlers, Steps
<1>4. Becomes(c, h)
  BY <1>1 DEF Becomes
<1> HIDE DEF h
<1>5. /\ \A y \in Characters : zone'[y] = IF y \in run[c].copy THEN None ELSE zone[y]
      /\ zone' \in [Characters -> Instances \union {None}]
  BY DEF WorldInv, TypeOK, Forget
<1>6. Shape(h)
  BY <1>1, <1>2, <1>3, HandlerFacts, Basics DEF Shape, Moving
<1>7. /\ h.old # None => Alive(h.old)
      /\ h.to # None => Alive(h.to)
  BY <1>3, HeldIsAlive
<1>8. TypeOK'
  BY <1>1, <1>3, <1>4, <1>5, RunStep DEF WorldInv, TypeOK, Watch, clients, system, zones
<1>9. IdsUnique'
  BY <1>1, <1>3, <1>4, IdsKeep DEF zones
<1>10. ASSUME ~contended'
       PROVE  /\ MoveFits(x, c)'
              /\ \A y \in Characters : y # x => zone'[y] = zone[y]
  <2>1. IsLeaving(x, c) /\ run[c].copy \subseteq {x}
    BY <1>1, <1>2, <1>10, HandlerFacts DEF MoveFits, Watch
  <2>2. run'[c] = h /\ \A z \in Instances : Alive(z)' => Alive(z)
    BY <1>1, <1>3, <1>4, <1>7, RunStep, AliveKeeps DEF WorldInv, system
  <2>3. IsLeaving(x, c)'
    BY <1>1, <1>3, <2>1, <2>2 DEF IsLeaving, Inside, zones
  <2> QED
    BY <1>3, <1>5, <2>1, <2>2, <2>3 DEF MoveFits
<1> QED
  BY <1>1, <1>2, <1>3, <1>4, <1>5, <1>6, <1>7, <1>8, <1>9, <1>10, HandlerFacts, CharacterStep
  DEF zones

\* The entry that goes is the one of the character that the handler has.
LEMMA EraseKeeps ==
  ASSUME WorldInv, NEW c \in Clients, Watch, Erase(c)
  PROVE  WorldInv'
<1>1. /\ UNCHANGED <<clients, characters, system, last_object_id>>
      /\ run[c].step = "erase" /\ run[c].old \in Instances
  BY HandlerFacts DEF Erase, At, Shape
<1>2. PICK x \in Characters : run[c].chr = x
  BY <1>1, HandlerFacts, HandlerType DEF WorldInv, Shape, Moving
<1>3. PICK step \in {"copy", "clear", "place"} :
          /\ run' = [run EXCEPT ![c].step = step, ![c].copy = {}]
          /\ step = "copy" \/ step = AfterRemove(c)
  BY DEF Erase, GotoWith, AfterRemove
<1> DEFINE h == [run[c] EXCEPT !.step = step, !.copy = {}]
<1>4. /\ h \in Handlers /\ h.step = step /\ h.job = run[c].job /\ h.chr = x
      /\ h.old = run[c].old /\ h.to = run[c].to /\ h.todo = run[c].todo
  BY <1>2, HandlerIn DEF Handlers, Steps
<1>5. Becomes(c, h)
  BY <1>3 DEF Becomes
<1> HIDE DEF h
<1>6. /\ chrs' \in [Instances -> SUBSET Entries]
      /\ \A z \in Instances : chrs'[z] =
             IF z = run[c].old THEN {e \in chrs[z] : e.oid # run[c].oid} ELSE chrs[z]
  BY <1>1 DEF WorldInv, TypeOK, Erase
<1>7. /\ controller' \in [Instances -> Nat \union {None}]
      /\ told' \in [Clients -> BOOLEAN]
  BY <1>1 DEF WorldInv, TypeOK, Erase, Tell
<1>8. Shape(h)
  BY <1>1, <1>2, <1>3, <1>4, HandlerFacts, Basics DEF Shape, Moving, AfterRemove
<1>9. /\ h.old # None => Alive(h.old)
      /\ h.to # None => Alive(h.to)
      /\ h.job = "change" => map[h.old] # Town
  BY <1>4, HeldIsAlive, HandlerFacts
<1>10. TypeOK'
  BY <1>1, <1>4, <1>5, <1>6, <1>7, RunStep DEF WorldInv, TypeOK, Watch, clients, characters, system
<1>11. \A z \in Instances : chrs'[z] \subseteq chrs[z]
  BY <1>6
<1>12. IdsUnique'
  BY <1>1, <1>3, <1>4, <1>5, <1>11, IdsKeep
<1>13. ASSUME ~contended'
       PROVE  /\ MoveFits(x, c)'
              /\ \A y \in Characters : y # x =>
                     \A z \in Instances : \A e \in Entries : e.chr = y =>
                         (e \in chrs'[z] <=> e \in chrs[z])
  <2>1. IsLeaving(x, c)
    BY <1>1, <1>2, <1>13, HandlerFacts DEF MoveFits, Watch
  <2>2. run'[c] = h /\ \A z \in Instances : Alive(z)' => Alive(z)
    BY <1>1, <1>4, <1>5, <1>9, RunStep, AliveKeeps DEF WorldInv, system
  <2>3. Nowhere(x)'
    BY <1>6, <2>1, <2>2 DEF IsLeaving, Nowhere, Inside
  <2>4. MoveFits(x, c)'
    BY <1>3, <1>4, <2>2, <2>3 DEF MoveFits
  <2>5. Alive(run[c].old)
    BY <1>1, HeldIsAlive, Basics
  <2>6. PICK f \in chrs[run[c].old] : f.chr = x /\ f.oid = run[c].oid
    BY <1>1, <2>1, <2>5 DEF IsLeaving, Inside
  <2>7. \A e \in chrs[run[c].old] : e.oid = run[c].oid => e.chr = x
    BY <1>1, <2>6 DEF WorldInv, IdsUnique
  <2> QED
    BY <1>6, <2>4, <2>7
<1>14. /\ \A y \in Characters : zone'[y] = zone[y] /\ oid'[y] = oid[y]
       /\ \A z \in Instances : \A e \in chrs'[z] : e \in chrs[z]
  BY <1>1, <1>11 DEF characters
<1> QED
  BY <1>1, <1>2, <1>4, <1>5, <1>8, <1>9, <1>10, <1>12, <1>13, <1>14, HandlerFacts, CharacterStep

\* A character is given a new object id of the zone that it goes to.
LEMMA PlaceSteps ==
  ASSUME WorldInv, NEW c \in Clients, Watch, Place(c)
  PROVE  WorldInv'
<1>1. /\ UNCHANGED <<clients, system, chrs, controller, told>>
      /\ run[c].step = "place" /\ run[c].to \in Instances /\ run[c].job # "close"
  BY HandlerFacts DEF Place, At, Shape
<1>2. PICK x \in Characters : run[c].chr = x
  BY <1>1, HandlerFacts, HandlerType DEF WorldInv, Shape, Moving
<1>3. PICK z \in Instances : z = run[c].to
  BY <1>1
<1>4. PICK i \in Nat : i = last_object_id[z]
  BY DEF WorldInv, TypeOK
<1>5. run' = [run EXCEPT ![c].step = "emplace", ![c].oid = i]
  BY <1>3, <1>4 DEF Place
<1> DEFINE h == [run[c] EXCEPT !.step = "emplace", !.oid = i]
<1>6. /\ h \in Handlers /\ h.step = "emplace" /\ h.job = run[c].job /\ h.chr = x /\ h.oid = i
      /\ h.old = run[c].old /\ h.to = z /\ h.todo = run[c].todo
  BY <1>2, <1>3, HandlerIn DEF Handlers, Steps
<1>7. Becomes(c, h)
  BY <1>5 DEF Becomes
<1> HIDE DEF h
<1>8. /\ zone' \in [Characters -> Instances \union {None}]
      /\ oid' \in [Characters -> Nat \union {None}]
      /\ at_portal' \in [Characters -> BOOLEAN]
      /\ last_object_id' \in [Instances -> Nat]
  BY <1>2, <1>3, <1>4 DEF WorldInv, TypeOK, Place
<1>9. /\ zone'[x] = z /\ oid'[x] = i
      /\ \A y \in Characters : y # x => zone'[y] = zone[y] /\ oid'[y] = oid[y]
      /\ \A n \in Instances :
             last_object_id'[n] = IF n = z THEN i + 1 ELSE last_object_id[n]
  BY <1>2, <1>3, <1>4 DEF WorldInv, TypeOK, Place
<1>10. Shape(h)
  BY <1>1, <1>3, <1>6, HandlerFacts, Basics DEF Shape, Moving
<1>11. /\ h.old # None => Alive(h.old)
       /\ h.to # None => Alive(h.to)
       /\ h.job = "change" => map[h.old] # Town
       /\ Alive(z)
  BY <1>3, <1>6, HeldIsAlive, HandlerFacts, Basics
<1>12. TypeOK'
  BY <1>1, <1>6, <1>7, <1>8, RunStep DEF WorldInv, TypeOK, Watch, clients, system
<1>13. run'[c] = h /\ \A d \in Clients : d # c => run'[d] = run[d]
  BY <1>6, <1>7, RunStep DEF WorldInv
<1>14. IdsUnique'
  <2>1. \A n \in Instances : last_object_id[n] \in Nat /\ chrs[n] \subseteq Entries
    BY DEF WorldInv, TypeOK
  <2>2. \A n \in Instances : \A e \in chrs[n] : e.oid < last_object_id'[n]
    BY <1>4, <1>9, <2>1 DEF WorldInv, IdsUnique, Entries
  <2>3. \A d \in Clients, n \in Instances, j \in Nat :
            Enters(d, n, j)' => \/ d = c /\ n = z /\ j = i
                                \/ d # c /\ Enters(d, n, j)
    BY <1>6, <1>13 DEF Enters
  <2>4. \A d \in Clients, j \in Nat : Enters(d, z, j) => j < i
    BY <1>4 DEF WorldInv, IdsUnique
  <2>5. \A e \in chrs[z] : e.oid # i
    BY <1>4, <2>1 DEF WorldInv, IdsUnique, Entries
  <2> SUFFICES ASSUME NEW n \in Instances
               PROVE  /\ \A d \in Clients, j \in Nat : Enters(d, n, j)' =>
                            /\ j < last_object_id'[n]
                            /\ \A e \in chrs[n] : e.oid # j
                            /\ \A b \in Clients : Enters(b, n, j)' => d = b
    BY <1>1, <2>2 DEF WorldInv, IdsUnique
  <2>6. ASSUME NEW d \in Clients, NEW j \in Nat, Enters(d, n, j)'
        PROVE  /\ j < last_object_id'[n]
               /\ \A e \in chrs[n] : e.oid # j
               /\ \A b \in Clients : Enters(b, n, j)' => d = b
    <3>1. CASE d = c
      BY <1>9, <2>3, <2>4, <2>5, <2>6, <3>1
    <3>2. CASE d # c
      <4>1. Enters(d, n, j)
        BY <2>3, <2>6, <3>2
      <4>2. j < last_object_id'[n]
        BY <1>4, <1>9, <2>1, <4>1 DEF WorldInv, IdsUnique
      <4> QED
        BY <2>3, <2>4, <4>1, <4>2 DEF WorldInv, IdsUnique
    <3> QED
      BY <3>1, <3>2
  <2> QED
    BY <2>6
<1>15. ASSUME ~contended'
       PROVE  MoveFits(x, c)'
  <2>1. Nowhere(x)
    BY <1>1, <1>2, <1>15, HandlerFacts DEF MoveFits, Watch
  <2>2. \A n \in Instances : Alive(n)' => Alive(n)
    BY <1>1, <1>6, <1>7, <1>11, AliveKeeps DEF system
  <2>3. Nowhere(x)'
    BY <1>1, <2>1, <2>2 DEF Nowhere, Inside
  <2> QED
    BY <1>6, <1>9, <1>13, <2>3 DEF MoveFits
<1> QED
  BY <1>1, <1>2, <1>6, <1>7, <1>9, <1>10, <1>11, <1>12, <1>14, <1>15, HandlerFacts, CharacterStep

\* The character enters the zone that its pointer says, and is nowhere else.
LEMMA EmplaceKeeps ==
  ASSUME WorldInv, NEW c \in Clients, Watch, Emplace(c)
  PROVE  WorldInv'
<1>1. /\ UNCHANGED <<clients, characters, system, last_object_id>>
      /\ run[c].step = "emplace" /\ run[c].to \in Instances /\ run[c].job # "close"
      /\ run[c].oid \in Nat
  BY HandlerFacts DEF Emplace, At, Shape
<1>2. PICK x \in Characters : run[c].chr = x
  BY <1>1, HandlerFacts, HandlerType DEF WorldInv, Shape, Moving
<1>3. PICK z \in Instances, i \in Nat : z = run[c].to /\ i = run[c].oid
  BY <1>1
<1>4. \E h \in Handlers :
          /\ Becomes(c, h)
          /\ h.chr = None
          /\ \/ h = NoHandler
             \/ /\ h.step = "next" /\ h.job = run[c].job /\ h.job # "confirm"
                /\ h.old = run[c].old /\ h.to = z /\ h.todo = run[c].todo
  <2>1. CASE run[c].job = "confirm"
    BY <2>1, NoHandlerType DEF Emplace, Finish, Becomes
  <2>2. CASE run[c].job # "confirm"
    <3> DEFINE h == [run[c] EXCEPT !.step = "next", !.chr = None, !.oid = None]
    <3>1. /\ h \in Handlers /\ h.step = "next" /\ h.job = run[c].job /\ h.chr = None
          /\ h.old = run[c].old /\ h.to = z /\ h.todo = run[c].todo
      BY <1>3, HandlerIn DEF Handlers, Steps
    <3>2. Becomes(c, h)
      BY <2>2 DEF Emplace, Becomes
    <3> HIDE DEF h
    <3> QED
      BY <2>2, <3>1, <3>2
  <2> QED
    BY <2>1, <2>2
<1>5. PICK h \in Handlers :
          /\ Becomes(c, h)
          /\ h.chr = None
          /\ \/ h = NoHandler
             \/ /\ h.step = "next" /\ h.job = run[c].job /\ h.job # "confirm"
                /\ h.old = run[c].old /\ h.to = z /\ h.todo = run[c].todo
  BY <1>4
<1> DEFINE new == [oid |-> i, chr |-> x]
<1>6. new \in Entries /\ new.chr = x /\ new.oid = i
  BY DEF Entries
<1>7. /\ chrs' \in [Instances -> SUBSET Entries]
      /\ \A n \in Instances : chrs'[n] = IF n = z THEN chrs[n] \union {new} ELSE chrs[n]
  BY <1>2, <1>3, <1>6 DEF WorldInv, TypeOK, Emplace
<1> HIDE DEF new
<1>8. /\ controller' \in [Instances -> Nat \union {None}]
      /\ told' \in [Clients -> BOOLEAN]
  BY <1>1, <1>3 DEF WorldInv, TypeOK, Emplace, Tell
<1>9. /\ h.step # "emplace" /\ h.job # "close"
      /\ h.old # None => h.old = run[c].old
      /\ h.to # None => h.to = run[c].to
      /\ h.job = "change" => map[h.old] # Town /\ \A y \in Characters : y \in h.todo => Made(y)
  BY <1>1, <1>3, <1>5, NoHandlerType, HandlerFacts
<1>10. Shape(h)
  <2>1. CASE h = NoHandler
    BY <2>1, NoHandlerType DEF Shape, Moving
  <2>2. CASE h # NoHandler
    <3>1. run[c].job \in {"change", "party"}
      BY <1>1, <1>5, <2>2, HandlerFacts DEF Shape
    <3> QED
      BY <1>1, <1>5, <2>2, <3>1, HandlerFacts, Basics DEF Shape, Moving
  <2> QED
    BY <2>1, <2>2
<1>11. /\ h.old # None => Alive(h.old)
       /\ h.to # None => Alive(h.to)
       /\ Alive(z)
  BY <1>3, <1>9, HeldIsAlive, Basics
<1>12. TypeOK'
  BY <1>1, <1>5, <1>7, <1>8, RunStep DEF WorldInv, TypeOK, Watch, clients, characters, system
<1>13. run'[c] = h /\ \A d \in Clients : d # c => run'[d] = run[d]
  BY <1>5, RunStep DEF WorldInv
<1>14. IdsUnique'
  <2>1. Enters(c, z, i)
    BY <1>1, <1>3 DEF Enters
  <2>2. /\ i < last_object_id[z]
        /\ \A e \in chrs[z] : e.oid # i
        /\ \A d \in Clients : Enters(d, z, i) => c = d
    BY <2>1 DEF WorldInv, IdsUnique
  <2>3. \A d \in Clients, n \in Instances, j \in Nat :
            Enters(d, n, j)' => d # c /\ Enters(d, n, j)
    BY <1>9, <1>13 DEF Enters
  <2>4. \A n \in Instances : \A e \in chrs'[n] : e.oid < last_object_id[n]
    BY <1>6, <1>7, <2>2 DEF WorldInv, IdsUnique
  <2>5. \A n \in Instances : \A e, f \in chrs'[n] : e.oid = f.oid => e = f
    BY <1>6, <1>7, <2>2 DEF WorldInv, IdsUnique
  <2>6. ASSUME NEW d \in Clients, NEW n \in Instances, NEW j \in Nat, Enters(d, n, j)'
        PROVE  /\ j < last_object_id[n]
               /\ \A e \in chrs'[n] : e.oid # j
               /\ \A b \in Clients : Enters(b, n, j)' => d = b
    <3>1. d # c /\ Enters(d, n, j)
      BY <2>3, <2>6
    <3>2. ~(n = z /\ j = i)
      BY <2>2, <3>1
    <3> QED
      BY <1>6, <1>7, <2>3, <3>1, <3>2 DEF WorldInv, IdsUnique
  <2> QED
    BY <1>1, <2>4, <2>5, <2>6 DEF IdsUnique
<1>15. ASSUME ~contended'
       PROVE  Consistent(x)'
  <2>1. Nowhere(x) /\ zone[x] = z /\ oid[x] = i
    BY <1>1, <1>2, <1>3, <1>15, HandlerFacts DEF MoveFits, Watch
  <2>2. \A n \in Instances : Alive(n)' => Alive(n)
    BY <1>1, <1>5, <1>11, AliveKeeps DEF system
  <2>3. zone'[x] = z /\ oid'[x] = i
    BY <1>1, <2>1 DEF characters
  <2>4. ASSUME NEW n \in Instances, Alive(n)'
        PROVE  /\ x \in Inside(n)' <=> n = z
               /\ \A e \in chrs'[n] : e.chr = x => e.oid = i
    <3>1. \A e \in chrs[n] : e.chr # x
      BY <2>1, <2>2, <2>4 DEF Nowhere, Inside
    <3> QED
      BY <1>6, <1>7, <3>1 DEF Inside
  <2> QED
    BY <2>3, <2>4 DEF Consistent
<1>16. /\ \A y \in Characters : zone'[y] = zone[y] /\ oid'[y] = oid[y]
       /\ \A n \in Instances : \A e \in chrs'[n] : e \in chrs[n] \/ (e.chr = x /\ Alive(n))
       /\ \A y \in Characters : y # x =>
              \A n \in Instances : \A e \in Entries : e.chr = y => (e \in chrs'[n] <=> e \in chrs[n])
  BY <1>1, <1>6, <1>7, <1>11 DEF characters
<1> QED
  BY <1>1, <1>2, <1>5, <1>9, <1>10, <1>11, <1>12, <1>14, <1>15, <1>16, Basics, CharacterStep

-----------------------------------------------------------------------------
(* The steps that give a client its character or take it away, and a new   *)
(* zone.                                                                   *)

\* OnClose ends: the character is in no zone that lives, and its pointer is reset.
LEMMA ClearKeeps ==
  ASSUME WorldInv, NEW c \in Clients, Watch, Clear(c)
  PROVE  WorldInv'
<1>1. /\ UNCHANGED <<conn, confirms, moves, oid, at_portal, system, zones>>
      /\ run[c].step = "clear" /\ run[c].job = "close" /\ Becomes(c, NoHandler)
  BY HandlerFacts DEF Clear, At, Finish, Becomes, Shape
<1>2. PICK x \in Characters : run[c].chr = x /\ x = character[c]
  BY <1>1, HandlerFacts, HandlerType DEF WorldInv, HandlerFits, Shape, Moving
<1>3. x = <<c, confirms[c]>>
  BY <1>2, Basics DEF WorldInv, CharactersMade
<1>4. /\ zone' \in [Characters -> Instances \union {None}]
      /\ character' \in [Clients -> Characters \union {None}]
      /\ zone'[x] = None /\ \A y \in Characters : y # x => zone'[y] = zone[y]
      /\ character'[c] = None /\ \A d \in Clients : d # c => character'[d] = character[d]
  BY <1>2 DEF WorldInv, TypeOK, Clear
<1>5. run'[c] = NoHandler /\ \A d \in Clients : d # c => run'[d] = run[d]
  BY <1>1, NoHandlerType, RunStep DEF WorldInv
<1>6. TypeOK'
  BY <1>1, <1>4, NoHandlerType, RunStep DEF WorldInv, TypeOK, Watch, system, zones
<1>7. \A d \in Clients : HandlerFits(d)'
  <2>1. HandlerFits(c)'
    BY <1>5, NoHandlerType DEF HandlerFits, Shape, Moving
  <2> QED
    BY <1>1, <1>4, <2>1, NoHandlerType, HandlersKeep
<1>8. CharactersMade'
  <2>1. \A y \in Characters : Made(y)' = Made(y)
    BY <1>1 DEF Made
  <2>2. \A d \in Clients : character'[d] # None =>
            confirms'[d] # 0 /\ character'[d] = <<d, confirms'[d]>>
    BY <1>1, <1>4 DEF WorldInv, CharactersMade
  <2>3. \A y \in Characters : zone'[y] # None => Made(y)
    BY <1>4 DEF WorldInv, CharactersMade
  <2>4. \A y \in Characters, z \in Instances : y \in Inside(z)' => Made(y)
    BY <1>1 DEF WorldInv, CharactersMade, Inside, zones
  <2>5. \A y \in Characters, d \in Clients :
            run'[d].chr = y \/ (run'[d].job = "change" /\ y \in run'[d].todo) => Made(y)
    <3> SUFFICES ASSUME NEW y \in Characters, NEW d \in Clients,
                        run'[d].chr = y \/ (run'[d].job = "change" /\ y \in run'[d].todo)
                 PROVE  Made(y)
      OBVIOUS
    <3>1. d # c
      BY <1>5, NoHandlerType, Basics
    <3> QED
      BY <1>5, <3>1 DEF WorldInv, CharactersMade
  <2> QED
    BY <2>1, <2>2, <2>3, <2>4, <2>5 DEF CharactersMade
<1>9. ZonesMade'
  <2>1. \A z \in Instances : map[z] = None => \A y \in Characters : zone'[y] # z
    BY <1>4, Basics DEF WorldInv, ZonesMade
  <2> QED
    BY <1>1, <2>1, NoHandlerType, Basics, ZonesKeep DEF WorldInv, ZonesMade, system, zones
<1>10. IdsUnique'
  BY <1>1, NoHandlerType, IdsKeep DEF zones
<1>11. (Contention' => contended') /\ (contended => contended')
  BY DEF Watch
<1>12. GoneHasNone'
  BY <1>1, <1>4, <1>5 DEF WorldInv, GoneHasNone
<1>13. ASSUME ~contended'
       PROVE  PlacesFit'
  <2>1. ~contended /\ ~Contention'
    BY <1>11, <1>13
  <2>2. \A z \in Instances : Alive(z)' => Alive(z)
    BY <1>1, NoHandlerType, AliveKeeps DEF system
  <2>3. Nowhere(x)
    BY <1>1, <1>2, <2>1, HandlerFacts DEF MoveFits
  <2>4. Consistent(x)'
    <3>1. \A z \in Instances : Alive(z) => \A e \in chrs'[z] : e.chr # x
      BY <1>1, <2>3 DEF Nowhere, Inside, zones
    <3> QED
      BY <1>4, <2>2, <3>1, Basics DEF Consistent, Inside
  <2>5. chrs' \in [Instances -> SUBSET Entries]
    BY <1>6 DEF TypeOK
  <2>6. \A y \in Characters : run[c].chr = y /\ NoHandler.chr # y => Consistent(y)'
    BY <1>2, <2>4
  <2>7. \A y \in Characters : run[c].chr # y /\ NoHandler.chr # y =>
            /\ zone'[y] = zone[y] /\ oid'[y] = oid[y]
            /\ \A z \in Instances : \A e \in Entries : e.chr = y => (e \in chrs'[z] <=> e \in chrs[z])
    BY <1>1, <1>2, <1>4 DEF zones
  <2>8. \A y \in Characters : NoHandler.chr # y
    BY NoHandlerType, Basics
  <2> QED
    BY <1>1, <2>1, <2>2, <2>5, <2>6, <2>7, <2>8, NoHandlerType, PlacesKeep
<1>14. ASSUME ~contended'
       PROVE  LeftAlone'
  <2>1. ~contended /\ ~Contention
    BY <1>11, <1>13, <1>14 DEF WorldInv
  <2> SUFFICES ASSUME NEW d \in Clients, confirms[d] = 1, character'[d] = None
               PROVE  zone'[<<d, 1>>] = None /\ \A e \in Clients : run'[e].chr # <<d, 1>>
    BY <1>1 DEF LeftAlone, Settled
  <2>2. <<d, 1>> \in Characters
    BY WorldAssumption DEF WorldInv, TypeOK, Characters
  <2>3. CASE d = c
    <3>1. x = <<d, 1>>
      BY <1>3, <2>3
    <3>2. \A e \in Clients : e # c => run[e].chr # x
      BY <1>2, <2>1, Basics DEF Contention
    <3> QED
      BY <1>4, <1>5, <2>2, <3>1, <3>2, NoHandlerType, Basics
  <2>4. CASE d # c
    <3>1. zone[<<d, 1>>] = None /\ \A e \in Clients : run[e].chr # <<d, 1>>
      BY <1>4, <2>1, <2>4 DEF WorldInv, LeftAlone, Settled
    <3> QED
      BY <1>4, <1>5, <2>2, <3>1, NoHandlerType, Basics
  <2> QED
    BY <2>3, <2>4
<1> QED
  BY <1>6, <1>7, <1>8, <1>9, <1>10, <1>11, <1>12, <1>13, <1>14 DEF WorldInv

\* A new character is nowhere yet.
LEMMA HandleConfirmRequestKeeps ==
  ASSUME WorldInv, NEW c \in Clients, Watch, HandleConfirmRequest(c)
  PROVE  WorldInv'
<1>1. /\ UNCHANGED <<conn, moves, characters, system, zones>>
      /\ run[c] = NoHandler /\ conn[c] # "gone" /\ confirms[c] < MaxConfirms
      /\ confirms' = [confirms EXCEPT ![c] = @ + 1]
  BY IdleHandler DEF HandleConfirmRequest, Starts, Stored
<1>2. /\ confirms[c] \in Nat /\ confirms'[c] = confirms[c] + 1 /\ confirms' \in [Clients -> 0..MaxConfirms]
      /\ \A d \in Clients : d # c => confirms'[d] = confirms[d]
      /\ \A d \in Clients : confirms[d] \in Nat
  BY <1>1, WorldAssumption DEF WorldInv, TypeOK
<1>3. PICK x \in Characters : x = <<c, confirms[c] + 1>>
  <2>1. confirms[c] + 1 \in 1..MaxConfirms
    BY <1>1, <1>2, WorldAssumption
  <2>2. <<c, confirms[c] + 1>> \in Characters
    BY <2>1 DEF Characters
  <2> QED
    BY <2>2
<1> DEFINE h == [NoHandler EXCEPT !.step = "place", !.job = "confirm", !.to = TownInstance, !.chr = x]
<1>4. /\ h \in Handlers /\ h.step = "place" /\ h.job = "confirm" /\ h.chr = x
      /\ h.old = None /\ h.to = TownInstance
  BY Basics DEF NoHandler, Handlers, Steps
<1>5. Becomes(c, h) /\ character' = [character EXCEPT ![c] = x]
  BY <1>3 DEF HandleConfirmRequest, Begin, Becomes
<1> HIDE DEF h
<1>6. run'[c] = h /\ \A d \in Clients : d # c => run'[d] = run[d]
  BY <1>4, <1>5, RunStep DEF WorldInv
<1>7. /\ character' \in [Clients -> Characters \union {None}]
      /\ character'[c] = x /\ \A d \in Clients : d # c => character'[d] = character[d]
  BY <1>5 DEF WorldInv, TypeOK
<1>8. TypeOK'
  BY <1>1, <1>2, <1>4, <1>5, <1>7, RunStep DEF WorldInv, TypeOK, Watch, characters, system, zones
<1>9. \A d \in Clients : HandlerFits(d)'
  <2>1. Shape(h)
    BY <1>4, Basics DEF Shape, Moving
  <2>2. HandlerFits(c)'
    BY <1>4, <1>6, <2>1 DEF HandlerFits
  <2> QED
    BY <1>1, <1>4, <1>5, <1>7, <2>2, HandlersKeep
<1>10. Made(x)' /\ ~Made(x) /\ \A y \in Characters : Made(y) => Made(y)'
  <2>1. Made(x)' /\ ~Made(x)
    BY <1>2, <1>3 DEF Made
  <2>2. ASSUME NEW y \in Characters, Made(y)
        PROVE  Made(y)'
    <3>1. y[1] \in Clients /\ y[2] \in Nat
      BY DEF Characters
    <3> QED
      BY <1>2, <2>2, <3>1 DEF Made
  <2> QED
    BY <2>1, <2>2
<1>11. /\ zone[x] = None /\ (\A z \in Instances : x \notin Inside(z))
       /\ \A d \in Clients : run[d].chr # x
  BY <1>10 DEF WorldInv, CharactersMade
<1>12. CharactersMade'
  <2>1. \A d \in Clients : character'[d] # None =>
            confirms'[d] # 0 /\ character'[d] = <<d, confirms'[d]>>
    BY <1>2, <1>3, <1>7 DEF WorldInv, CharactersMade
  <2>2. \A y \in Characters : zone'[y] # None => Made(y)'
    BY <1>1, <1>10 DEF WorldInv, CharactersMade, characters
  <2>3. \A y \in Characters, z \in Instances : y \in Inside(z)' => Made(y)'
    BY <1>1, <1>10 DEF WorldInv, CharactersMade, Inside, zones
  <2>4. \A y \in Characters, d \in Clients :
            run'[d].chr = y \/ (run'[d].job = "change" /\ y \in run'[d].todo) => Made(y)'
    <3> SUFFICES ASSUME NEW y \in Characters, NEW d \in Clients,
                        run'[d].chr = y \/ (run'[d].job = "change" /\ y \in run'[d].todo)
                 PROVE  Made(y)'
      OBVIOUS
    <3>1. CASE d = c
      BY <1>4, <1>6, <1>10, <3>1
    <3>2. CASE d # c
      BY <1>6, <1>10, <3>2 DEF WorldInv, CharactersMade
    <3> QED
      BY <3>1, <3>2
  <2> QED
    BY <2>1, <2>2, <2>3, <2>4 DEF CharactersMade
<1>13. Alive(TownInstance)
  BY DEF Alive
<1>14. ZonesMade'
  <2>1. \A z \in Instances : map[z] = None => TownInstance # z
    BY <1>13, AliveIsMade
  <2>2. UNCHANGED <<map, chrs, zone, maps_>>
    BY <1>1 DEF characters, system, zones
  <2>3. \A z \in Instances : map[z] = None =>
            chrs'[z] = {} /\ h.old # z /\ h.to # z /\ \A y \in Characters : zone'[y] # z
    BY <1>4, <2>1, <2>2, Basics DEF WorldInv, ZonesMade
  <2> QED
    BY <1>4, <1>5, <2>2, <2>3, ZonesKeep
<1>15. IdsUnique'
  BY <1>1, <1>4, <1>5, IdsKeep DEF zones
<1>16. (Contention' => contended') /\ (contended => contended')
  BY DEF Watch
<1>17. GoneHasNone'
  BY <1>1, <1>6, <1>7 DEF WorldInv, GoneHasNone
<1>18. ASSUME ~contended'
       PROVE  PlacesFit'
  <2>1. ~contended /\ ~Contention'
    BY <1>16, <1>18
  <2>2. \A z \in Instances : Alive(z)' => Alive(z)
    BY <1>1, <1>4, <1>5, <1>13, AliveKeeps DEF system
  <2>3. MoveFits(x, c)'
    <3>1. Nowhere(x)'
      BY <1>1, <1>11 DEF Nowhere, Inside, zones
    <3> QED
      BY <1>4, <1>6, <3>1 DEF MoveFits
  <2>4. chrs' \in [Instances -> SUBSET Entries]
    BY <1>8 DEF TypeOK
  <2>5. \A y \in Characters : ~(run[c].chr = y /\ h.chr # y)
    BY <1>1, NoHandlerType, Basics
  <2>6. \A y \in Characters : run[c].chr # y /\ h.chr # y =>
            /\ zone'[y] = zone[y] /\ oid'[y] = oid[y]
            /\ \A z \in Instances : \A e \in Entries : e.chr = y => (e \in chrs'[z] <=> e \in chrs[z])
    BY <1>1 DEF characters, zones
  <2> QED
    BY <1>4, <1>5, <2>1, <2>2, <2>3, <2>4, <2>5, <2>6, PlacesKeep
<1>19. ASSUME ~contended'
       PROVE  LeftAlone'
  <2>1. ~contended
    BY <1>16, <1>19
  <2> SUFFICES ASSUME NEW d \in Clients, confirms'[d] = 1, character'[d] = None
               PROVE  zone'[<<d, 1>>] = None /\ \A e \in Clients : run'[e].chr # <<d, 1>>
    BY DEF LeftAlone, Settled
  <2>2. d # c
    BY <1>7, Basics
  <2>3. zone[<<d, 1>>] = None /\ \A e \in Clients : run[e].chr # <<d, 1>>
    BY <1>2, <1>7, <2>1, <2>2 DEF WorldInv, LeftAlone, Settled
  <2>4. x # <<d, 1>>
    BY <1>3, <2>2
  <2> QED
    BY <1>1, <1>4, <1>6, <2>3, <2>4 DEF characters
<1> QED
  BY <1>8, <1>9, <1>12, <1>14, <1>15, <1>16, <1>17, <1>18, <1>19 DEF WorldInv

\* A new zone is empty and unknown.
LEMMA CreateInstanceKeeps ==
  ASSUME WorldInv, NEW c \in Clients, Watch, CreateTarget(c), NEW m \in Maps, CreateNewInstance(c, m)
  PROVE  WorldInv'
<1>1. /\ UNCHANGED <<clients, characters, zones>>
      /\ run[c].step = "create" /\ run[c].job \in {"change", "party"} /\ run[c].chr = None
  BY HandlerFacts DEF CreateTarget, At, Shape, Moving
<1>2. PICK z \in Instances : /\ map[z] = None
                             /\ map' = [map EXCEPT ![z] = m]
                             /\ maps_' = maps_ \union {z}
                             /\ run' = [run EXCEPT ![c].step = "next", ![c].to = z]
  BY DEF CreateNewInstance
<1> DEFINE h == [run[c] EXCEPT !.step = "next", !.to = z]
<1>3. /\ h \in Handlers /\ h.step = "next" /\ h.job = run[c].job /\ h.chr = None
      /\ h.old = run[c].old /\ h.to = z /\ h.todo = run[c].todo
  <2>2. /\ h \in Handlers /\ h.step = "next" /\ h.job = run[c].job /\ h.chr = run[c].chr
        /\ h.old = run[c].old /\ h.to = z /\ h.todo = run[c].todo
    BY HandlerIn DEF Handlers, Steps
  <2> QED
    BY <1>1, <2>2
<1>4. Becomes(c, h)
  BY <1>2 DEF Becomes
<1> HIDE DEF h
<1>5. run'[c] = h /\ \A d \in Clients : d # c => run'[d] = run[d]
  BY <1>3, <1>4, RunStep DEF WorldInv
<1>6. /\ map' \in [Instances -> Maps \union {None}] /\ maps_' \subseteq Instances
      /\ \A n \in Instances : map'[n] = IF n = z THEN m ELSE map[n]
  BY <1>2 DEF WorldInv, TypeOK
<1>7. TypeOK'
  BY <1>1, <1>3, <1>4, <1>6, RunStep DEF WorldInv, TypeOK, Watch, clients, characters, zones
<1>8. \A d \in Clients : HandlerFits(d)'
  <2>1. Shape(h)
    BY <1>1, <1>3, HandlerFacts, Basics DEF Shape, Moving
  <2>2. HandlerFits(c)'
    BY <1>1, <1>3, <1>5, <2>1 DEF HandlerFits
  <2> QED
    BY <1>1, <1>3, <1>4, <2>2, HandlersKeep DEF clients
<1>9. CharactersMade'
  <2>1. \A y \in Characters, n \in Instances : y \in Inside(n)' => Made(y)
    BY <1>1 DEF WorldInv, CharactersMade, Inside, zones
  <2>2. \A y \in Characters : zone'[y] # None => Made(y)
    BY <1>1 DEF WorldInv, CharactersMade, characters
  <2> QED
    BY <1>1, <1>3, <1>4, <2>1, <2>2, HandlerFacts, CharactersKeep DEF clients
<1>10. map[TownInstance] = Town /\ z # TownInstance
  BY <1>2, Basics DEF WorldInv, ZonesMade
<1>11. ZonesMade'
  <2>1. \A d \in Clients : run'[d].job = "change" => run[d].job = "change" /\ run'[d].old = run[d].old
    BY <1>3, <1>5
  <2>2. \A d \in Clients : run'[d].job = "change" => map'[run'[d].old] # Town
    <3> SUFFICES ASSUME NEW d \in Clients, run'[d].job = "change"
                 PROVE  map'[run'[d].old] # Town
      OBVIOUS
    <3>1. map[run[d].old] # Town /\ run[d].old \in Instances /\ run'[d].old = run[d].old
      BY <2>1, HandlerFacts DEF Shape
    <3>2. run[d].old # z
      BY <1>2 DEF WorldInv, ZonesMade
    <3> QED
      BY <1>6, <3>1, <3>2
  <2>3. ASSUME NEW n \in Instances, map'[n] = None
        PROVE  /\ chrs'[n] = {} /\ n \notin maps_'
               /\ \A x \in Characters : zone'[x] # n
               /\ \A d \in Clients : run'[d].old # n /\ run'[d].to # n
    <3>1. n # z /\ map[n] = None
      BY <1>6, <2>3, Basics
    <3>2. /\ chrs[n] = {} /\ n \notin maps_
          /\ \A x \in Characters : zone[x] # n
          /\ \A d \in Clients : run[d].old # n /\ run[d].to # n
      BY <3>1 DEF WorldInv, ZonesMade
    <3>3. UNCHANGED <<chrs, zone>> /\ n \notin maps_'
      BY <1>1, <1>2, <3>1, <3>2 DEF characters, zones
    <3>4. \A d \in Clients : run'[d].old # n /\ run'[d].to # n
      BY <1>3, <1>5, <3>1, <3>2
    <3> QED
      BY <3>2, <3>3, <3>4
  <2> QED
    BY <1>6, <1>10, <2>2, <2>3, Basics DEF ZonesMade
<1>12. IdsUnique'
  BY <1>1, <1>3, <1>4, IdsKeep DEF zones
<1>13. (Contention' => contended') /\ (contended => contended')
  BY DEF Watch
<1>14. GoneHasNone'
  BY <1>1, <1>3, <1>5 DEF WorldInv, GoneHasNone, clients
<1>15. ASSUME ~contended'
       PROVE  PlacesFit'
  <2>1. ~contended /\ ~Contention'
    BY <1>13, <1>15
  <2>2. \A n \in Instances : Alive(n)' => Alive(n) \/ map[n] = None
    <3> SUFFICES ASSUME NEW n \in Instances, Alive(n)', n # z
                 PROVE  Alive(n)
      BY <1>2
    <3>1. CASE n = TownInstance \/ n \in maps_'
      BY <1>2, <3>1 DEF Alive
    <3>2. CASE \E d \in Clients : run'[d].old = n \/ run'[d].to = n
      <4>1. \A d \in Clients : run'[d].old = run[d].old /\ (run'[d].to = n => run[d].to = n)
        BY <1>3, <1>5
      <4> QED
        BY <3>2, <4>1 DEF Alive
    <3> QED
      BY <3>1, <3>2 DEF Alive
  <2>3. \A y \in Characters : ~(run[c].chr = y /\ h.chr # y) /\ h.chr # y
    BY <1>1, <1>3, Basics
  <2>4. chrs' \in [Instances -> SUBSET Entries]
    BY <1>7 DEF TypeOK
  <2>5. \A y \in Characters :
            /\ zone'[y] = zone[y] /\ oid'[y] = oid[y]
            /\ \A n \in Instances : \A e \in Entries : e.chr = y => (e \in chrs'[n] <=> e \in chrs[n])
    BY <1>1 DEF characters, zones
  <2> QED
    BY <1>3, <1>4, <2>1, <2>2, <2>3, <2>4, <2>5, PlacesKeep
<1>16. ASSUME ~contended'
       PROVE  LeftAlone'
  <2>1. ~contended
    BY <1>13, <1>16
  <2> QED
    BY <1>1, <1>3, <1>4, <2>1, Basics, LeftAloneKeeps DEF clients, characters
<1> QED
  BY <1>7, <1>8, <1>9, <1>11, <1>12, <1>13, <1>14, <1>15, <1>16 DEF WorldInv

\* Where a party goes: to a new dungeon or the town.
LEMMA CreateTargetKeeps ==
  ASSUME WorldInv, NEW c \in Clients, Watch, CreateTarget(c)
  PROVE  WorldInv'
<1>1. CASE run[c].job = "party"
  <2>1. CASE \E m \in Maps : CreateNewInstance(c, m)
    BY <2>1, CreateInstanceKeeps
  <2>2. CASE Goto(c, "down") /\ UNCHANGED system
    BY <1>1, <2>2, NoZoneKeeps
  <2> QED
    BY <1>1, <2>1, <2>2 DEF CreateTarget
<1>2. CASE run[c].job = "change" /\ NextMap[map[run[c].old]] # Town
  <2>1. map[run[c].old] \in Maps \ {Town}
    <3>1. run[c].old \in Instances /\ map[run[c].old] # Town
      BY <1>2, HandlerFacts DEF Shape
    <3>2. map[run[c].old] # None
      BY <3>1 DEF WorldInv, ZonesMade
    <3> QED
      BY <3>1, <3>2 DEF WorldInv, TypeOK
  <2>2. PICK m \in Maps : m = NextMap[map[run[c].old]]
    BY <2>1, WorldAssumption
  <2>3. CreateNewInstance(c, m)
    BY <1>2, <2>2 DEF CreateTarget
  <2> QED
    BY <1>2, <2>2, <2>3, CreateInstanceKeeps
<1>3. CASE run[c].job = "change" /\ NextMap[map[run[c].old]] = Town
  <2>1. /\ run' = [run EXCEPT ![c].step = "next", ![c].to = TownInstance]
        /\ UNCHANGED system
    BY <1>3 DEF CreateTarget
  <2> QED
    BY <1>3, <2>1, TownIsTarget
<1> QED
  BY <1>1, <1>2, <1>3 DEF CreateTarget

-----------------------------------------------------------------------------
(* Who controls the monsters.                                              *)

\* A handler is going to move x, or is doing so; it elects from a copy that has x.
Expects(r, x) ==
    \/ r.chr = x
    \/ r.job = "change" /\ x \in r.todo
    \/ r.job = "party" /\ ClientOf(x) \in r.todo
Elects(r, x) == r.step = "elect" /\ x \in r.copy

\* A handler has no target before it makes one, elects in dungeons only, and moves nobody twice.
TurnFits(r) ==
    /\ r.step \in {"snapshot", "check", "create"} \/ r.job = "close" => r.to = None
    /\ r.job = "confirm" => r.to = TownInstance
    /\ r.step \in {"copy", "elect"} => map[r.old] # Town
    /\ \A x \in Characters : r.chr = x =>
           /\ r.job = "change" => x \notin r.todo
           /\ r.job = "party" => ClientOf(x) \notin r.todo

\* A dungeon that characters are moved to is the target of one handler, and none of those still to be
\* moved has been there.
TargetIsNew(c) ==
    run[c].to # None /\ IsDungeon(run[c].to) =>
        /\ \A d \in Clients : run[d].to = run[c].to => d = c
        /\ \A x \in Characters : Expects(run[c], x) =>
               /\ x \notin Inside(run[c].to)
               /\ \A d \in Clients : run[d].old = run[c].to => ~Elects(run[d], x)

\* Only dungeons have controllers, and a character that is placed has an object id.
OnlyDungeons == \A z \in Instances : map[z] \in {None, Town} => controller[z] = None
PlacedHaveIds == \A x \in Characters : zone[x] # None => oid[x] \in Nat

\* In a dungeon without a controller, a character cannot be elected, or an election is to come that
\* has not passed it over.
Hopeless(x, z) == ~Stored(ClientOf(x)) \/ zone[x] # z
Waits(x, z) ==
    \E c \in Clients : run[c].old = z /\ (run[c].step = "copy" \/ Elects(run[c], x))
Vacant ==
    \A z \in Instances : map[z] \notin {None, Town} /\ controller[z] = None =>
        \A x \in Inside(z) : Hopeless(x, z) \/ Waits(x, z)

\* What the handler that removes a character knows of it.
RemovalFits(x, r) ==
    /\ r.step \in {"find", "forget", "erase"} => oid[x] = r.oid /\ zone[x] \in {None, r.old}
    /\ r.step \in {"forget", "erase"} => r.copy = {x}
    /\ r.step = "erase" => zone[x] = None
    /\ r.step \in {"copy", "elect", "place", "clear"} => ZoneOf(x) = None
RemovalsFit == \A c \in Clients, x \in Characters : run[c].chr = x => RemovalFits(x, run[c])

\* Who was told that it controls monsters does so, or was put into a dungeon that is dropped; who
\* controls them was told.
ToldControls ==
    \A c \in Clients :
        /\ confirms[c] = 0 => ~told[c]
        /\ confirms[c] = 1 /\ told[c] =>
               \E z \in Instances : \E e \in chrs[z] :
                   e.chr = <<c, 1>> /\ (controller[z] = e.oid \/ ~Alive(z))
ControllerTold ==
    \A z \in Instances : Alive(z) => \A e \in chrs[z] :
        confirms[ClientOf(e.chr)] = 1 /\ controller[z] = e.oid => told[ClientOf(e.chr)]

ControlInv ==
    /\ \A c \in Clients : TurnFits(run[c]) /\ TargetIsNew(c)
    /\ OnlyDungeons /\ PlacedHaveIds /\ Vacant
    /\ ~contended => RemovalsFit /\ ToldControls /\ ControllerTold
    /\ ControllerInside

\* What the invariant says, part by part.
LEMMA ControlFacts ==
  ASSUME ControlInv
  PROVE  /\ \A c \in Clients : TurnFits(run[c]) /\ TargetIsNew(c)
         /\ OnlyDungeons /\ PlacedHaveIds /\ Vacant
         /\ ~contended => RemovalsFit /\ ToldControls /\ ControllerTold
         /\ ControllerInside
BY DEF ControlInv

\* Targets stay new while nobody enters a zone and no zone becomes a target.
LEMMA TargetsKeep ==
  ASSUME WorldInv, ControlInv, NEW c \in Clients, NEW h \in Handlers, Becomes(c, h),
         \A z \in Instances : map[z] # None => map'[z] = map[z],
         \A x \in Characters, z \in Instances : x \in Inside(z)' =>
             x \in Inside(z) \/ (z = run[c].to /\ ~Expects(h, x)),
         \A x \in Characters : Elects(h, x) =>
             x \in Inside(h.old) \/ (Elects(run[c], x) /\ h.old = run[c].old),
         \/ h.to = None \/ h.to = TownInstance
         \/ h.to = run[c].to /\ \A x \in Characters : Expects(h, x) => Expects(run[c], x)
  PROVE  \A d \in Clients : TargetIsNew(d)'
<1>1. run'[c] = h /\ \A d \in Clients : d # c => run'[d] = run[d]
  BY RunStep DEF WorldInv
<1>2. \A d \in Clients : TargetIsNew(d) /\ run[d].to \in Instances \union {None}
  BY ControlFacts, HandlerType DEF WorldInv
<1>3. /\ map[TownInstance] = Town /\ map[TownInstance] # None
      /\ \A d \in Clients, z \in Instances : run[d].to = z => map[z] # None
  BY Basics DEF WorldInv, ZonesMade
<1> SUFFICES ASSUME NEW d \in Clients, NEW z \in Instances, run'[d].to = z, map'[z] # Town
             PROVE  /\ \A e \in Clients : run'[e].to = z => e = d
                    /\ \A x \in Characters : Expects(run'[d], x) =>
                           /\ x \notin Inside(z)'
                           /\ \A e \in Clients : run'[e].old = z => ~Elects(run'[e], x)
  <2>1. \A d \in Clients : run'[d].to \in Instances \union {None}
    BY <1>1, <1>2, HandlerType DEF WorldInv, Handlers
  <2> QED
    BY <2>1 DEF TargetIsNew, IsDungeon
<1>4. run[d].to = z /\ map[z] # Town /\ \A x \in Characters : Expects(run'[d], x) => Expects(run[d], x)
  <2>1. z # TownInstance
    BY <1>3
  <2>2. CASE d = c
    <3>1. h.to = z /\ h.to # None
      BY <1>1, <2>2, Basics
    <3>2. h.to = run[c].to /\ \A x \in Characters : Expects(h, x) => Expects(run[c], x)
      BY <2>1, <3>1
    <3>3. map'[z] = map[z]
      BY <1>3, <3>1, <3>2
    <3> QED
      BY <1>1, <2>2, <3>1, <3>2, <3>3
  <2>3. CASE d # c
    BY <1>1, <1>3, <2>3
  <2> QED
    BY <2>2, <2>3
<1>5. /\ \A e \in Clients : run[e].to = z => e = d
      /\ \A x \in Characters : Expects(run[d], x) =>
             /\ x \notin Inside(z)
             /\ \A e \in Clients : run[e].old = z => ~Elects(run[e], x)
  BY <1>2, <1>4, Basics DEF TargetIsNew, IsDungeon
<1>6. ASSUME NEW e \in Clients, run'[e].to = z
      PROVE  e = d
  <2>1. z # TownInstance /\ z # None
    BY <1>3, <1>4, Basics
  <2>2. run[e].to = z
    <3>1. CASE e = c
      BY <1>1, <1>6, <2>1, <3>1
    <3>2. CASE e # c
      BY <1>1, <1>6, <3>2
    <3> QED
      BY <3>1, <3>2
  <2> QED
    BY <1>5, <2>2
<1>7. ASSUME NEW x \in Characters, Expects(run'[d], x)
      PROVE  /\ x \notin Inside(z)'
             /\ \A e \in Clients : run'[e].old = z => ~Elects(run'[e], x)
  <2>1. /\ x \notin Inside(z)
        /\ \A e \in Clients : run[e].old = z => ~Elects(run[e], x)
    BY <1>4, <1>5, <1>7
  <2>2. ASSUME NEW e \in Clients, run'[e].old = z
        PROVE  ~Elects(run'[e], x)
    <3>1. CASE e = c
      BY <1>1, <2>1, <2>2, <3>1
    <3>2. CASE e # c
      BY <1>1, <2>1, <2>2, <3>2
    <3> QED
      BY <3>1, <3>2
  <2>3. x \notin Inside(z)'
    <3>1. z = run[c].to => d = c
      BY <1>5
    <3> QED
      BY <1>1, <1>7, <2>1, <3>1
  <2> QED
    BY <2>2, <2>3
<1> QED
  BY <1>6, <1>7

\* A dungeon without a controller stays as it is while no handler elects.
LEMMA VacantKeeps ==
  ASSUME WorldInv, ControlInv, UNCHANGED <<chrs, controller>>,
         \A z \in Instances : map[z] # None => map'[z] = map[z],
         \A x \in Characters, z \in Instances :
             x \in Inside(z) /\ map[z] \notin {None, Town} /\ zone'[x] = z => zone[x] = z,
         \A d \in Clients : conn[d] = "gone" => conn'[d] = "gone",
         \A d \in Clients : run[d].step \in {"copy", "elect"} => run'[d] = run[d]
  PROVE  Vacant'
<1> SUFFICES ASSUME NEW z \in Instances, map'[z] \notin {None, Town}, controller[z] = None,
                    NEW x \in Inside(z)'
             PROVE  Hopeless(x, z)' \/ Waits(x, z)'
  BY DEF Vacant
<1>1. x \in Inside(z) /\ x \in Characters /\ map[z] # None
  <2>1. x \in Inside(z) /\ x \in Characters
    BY DEF Inside, WorldInv, TypeOK, Entries
  <2> QED
    BY <2>1 DEF Inside, WorldInv, ZonesMade
<1>2. Hopeless(x, z) \/ Waits(x, z)
  BY <1>1, ControlFacts DEF Vacant
<1>3. CASE Hopeless(x, z)
  <2>1. ClientOf(x) \in Clients
    BY <1>1 DEF Characters, ClientOf
  <2> QED
    BY <1>1, <1>3, <2>1 DEF Hopeless, Stored
<1>4. CASE Waits(x, z)
  BY <1>4 DEF Waits, Elects
<1> QED
  BY <1>2, <1>3, <1>4

\* Nobody is told anything, and no zone comes to life with characters in it.
LEMMA ToldKeeps ==
  ASSUME WorldInv, ControlInv, ~contended, UNCHANGED <<chrs, controller, told>>,
         \A z \in Instances : Alive(z)' => Alive(z) \/ map[z] = None,
         \A d \in Clients : confirms'[d] \in {confirms[d], confirms[d] + 1}
  PROVE  ToldControls' /\ ControllerTold'
<1>1. ToldControls /\ ControllerTold
  BY ControlFacts
<1>2. \A d \in Clients : confirms[d] \in Nat
  BY WorldAssumption DEF WorldInv, TypeOK
<1>3. \A z \in Instances : \A e \in chrs[z] :
          e \in Entries /\ e.chr \in Characters /\ Made(e.chr) /\ map[z] # None
  <2> SUFFICES ASSUME NEW z \in Instances, NEW e \in chrs[z]
               PROVE  e \in Entries /\ e.chr \in Characters /\ Made(e.chr) /\ map[z] # None
    OBVIOUS
  <2>1. e \in Entries /\ e.chr \in Characters /\ e.chr \in Inside(z)
    BY DEF WorldInv, TypeOK, Entries, Inside
  <2> QED
    BY <2>1 DEF WorldInv, CharactersMade, ZonesMade
<1>4. ToldControls'
  <2> SUFFICES ASSUME NEW d \in Clients
               PROVE  /\ confirms'[d] = 0 => ~told[d]
                      /\ confirms'[d] = 1 /\ told[d] =>
                             \E z \in Instances : \E e \in chrs[z] :
                                 e.chr = <<d, 1>> /\ (controller[z] = e.oid \/ ~Alive(z)')
    BY DEF ToldControls
  <2>1. confirms[d] \in Nat /\ confirms'[d] \in {confirms[d], confirms[d] + 1}
    BY <1>2
  <2>2. confirms'[d] = 0 => ~told[d]
    BY <1>1, <2>1 DEF ToldControls
  <2>3. ASSUME confirms'[d] = 1, told[d]
        PROVE  \E z \in Instances : \E e \in chrs[z] :
                   e.chr = <<d, 1>> /\ (controller[z] = e.oid \/ ~Alive(z)')
    <3>1. confirms[d] = 1
      <4>1. confirms[d] # 0
        BY <1>1, <2>3 DEF ToldControls
      <4>2. confirms[d] = 1 \/ confirms[d] + 1 = 1
        BY <2>1, <2>3
      <4> QED
        BY <2>1, <4>1, <4>2
    <3>2. PICK z \in Instances :
              \E e \in chrs[z] : e.chr = <<d, 1>> /\ (controller[z] = e.oid \/ ~Alive(z))
      BY <1>1, <2>3, <3>1 DEF ToldControls
    <3>3. ~Alive(z) => ~Alive(z)'
      BY <1>3, <3>2
    <3> QED
      BY <3>2, <3>3
  <2> QED
    BY <2>2, <2>3
<1>5. ControllerTold'
  <2> SUFFICES ASSUME NEW z \in Instances, Alive(z)', NEW e \in chrs[z],
                      confirms'[ClientOf(e.chr)] = 1, controller[z] = e.oid
               PROVE  told[ClientOf(e.chr)]
    BY DEF ControllerTold
  <2>1. Alive(z) /\ e.chr \in Characters /\ Made(e.chr)
    BY <1>3
  <2>2. /\ ClientOf(e.chr) \in Clients /\ confirms[ClientOf(e.chr)] # 0
        /\ confirms'[ClientOf(e.chr)] \in {confirms[ClientOf(e.chr)], confirms[ClientOf(e.chr)] + 1}
    BY <1>2, <2>1 DEF Made, Characters, ClientOf
  <2>3. confirms[ClientOf(e.chr)] = 1
    BY <1>2, <2>2
  <2> QED
    BY <1>1, <2>1, <2>3 DEF ControllerTold
<1> QED
  BY <1>4, <1>5

\* A handler moves the character that it has; what the others know of theirs stays true.
LEMMA RemovalsKeep ==
  ASSUME WorldInv, ControlInv, ~contended, NEW c \in Clients, NEW h \in Handlers, Becomes(c, h),
         \A z \in Instances : Alive(z)' => Alive(z) \/ map[z] = None,
         \A x \in Characters : run[c].chr # x => zone'[x] = zone[x] /\ oid'[x] = oid[x],
         \A x \in Characters : h.chr = x => RemovalFits(x, h)'
  PROVE  RemovalsFit'
<1>1. run'[c] = h /\ \A d \in Clients : d # c => run'[d] = run[d]
  BY RunStep DEF WorldInv
<1>2. ~Contention
  BY DEF WorldInv
<1> SUFFICES ASSUME NEW d \in Clients, NEW x \in Characters, run'[d].chr = x
             PROVE  RemovalFits(x, run[d])'
  BY DEF RemovalsFit
<1>3. CASE d = c
  BY <1>1, <1>3 DEF RemovalFits
<1>4. CASE d # c
  <2>1. run'[d] = run[d] /\ run[c].chr # x
    BY <1>1, <1>2, <1>4, Basics DEF Contention
  <2>2. RemovalFits(x, run[d])
    BY <2>1, ControlFacts DEF RemovalsFit
  <2>3. zone'[x] = zone[x] /\ oid'[x] = oid[x]
    BY <2>1
  <2>4. ZoneOf(x) = None => ZoneOf(x)' = None
    <3>1. zone[x] \in Instances \union {None}
      BY DEF WorldInv, TypeOK
    <3>2. zone[x] # None => map[zone[x]] # None
      BY <3>1 DEF WorldInv, ZonesMade
    <3> QED
      BY <2>3, <3>1, <3>2 DEF ZoneOf
  <2> QED
    BY <2>1, <2>2, <2>3, <2>4 DEF RemovalFits
<1> QED
  BY <1>3, <1>4

\* A step of one handler after which the same entries have the same controllers.
LEMMA NeutralKeeps ==
  ASSUME WorldInv, ControlInv, NEW c \in Clients, NEW h \in Handlers, Becomes(c, h),
         contended => contended', UNCHANGED <<chrs, controller, told>>,
         \A z \in Instances : map[z] # None => map'[z] = map[z],
         \A z \in Instances : Alive(z)' => Alive(z) \/ map[z] = None,
         \A d \in Clients : conn[d] = "gone" => conn'[d] = "gone",
         \A d \in Clients : confirms'[d] \in {confirms[d], confirms[d] + 1},
         run[c].step \notin {"copy", "elect"}, TurnFits(h)', PlacedHaveIds',
         \A d \in Clients : TargetIsNew(d)',
         \A x \in Characters, z \in Instances :
             x \in Inside(z) /\ map[z] \notin {None, Town} /\ zone'[x] = z => zone[x] = z,
         ~contended' =>
             /\ \A x \in Characters : run[c].chr # x => zone'[x] = zone[x] /\ oid'[x] = oid[x]
             /\ \A x \in Characters : h.chr = x => RemovalFits(x, h)'
  PROVE  ControlInv'
<1>1. run'[c] = h /\ \A d \in Clients : d # c => run'[d] = run[d]
  BY RunStep DEF WorldInv
<1>2. \A d \in Clients : TurnFits(run[d])'
  <2> SUFFICES ASSUME NEW d \in Clients, d # c
               PROVE  TurnFits(run[d])'
    BY <1>1 DEF TurnFits
  <2>1. run'[d] = run[d] /\ TurnFits(run[d])
    BY <1>1, ControlFacts
  <2>2. run[d].step \in {"copy", "elect"} => map'[run[d].old] = map[run[d].old]
    BY HandlerFacts, HeldIsAlive, AliveIsMade, Basics DEF Shape
  <2> QED
    BY <2>1, <2>2 DEF TurnFits
<1>3. OnlyDungeons'
  BY ControlFacts DEF OnlyDungeons
<1>4. Vacant'
  BY <1>1, VacantKeeps
<1>5. ControllerInside'
  BY ControlFacts DEF ControllerInside
<1>6. ASSUME ~contended'
      PROVE  RemovalsFit' /\ ToldControls' /\ ControllerTold'
  BY <1>6, RemovalsKeep, ToldKeeps
<1> QED
  BY <1>2, <1>3, <1>4, <1>5, <1>6 DEF ControlInv

\* A step that moves no handler and touches no zone but to drop it.
LEMMA StayControl ==
  ASSUME WorldInv, ControlInv, contended => contended',
         UNCHANGED <<confirms, zone, oid, map, zones, run>>, maps_' \subseteq maps_,
         \A d \in Clients : conn[d] = "gone" => conn'[d] = "gone"
  PROVE  ControlInv'
<1>1. UNCHANGED <<chrs, controller, told>>
  BY DEF zones
<1>2. \A z \in Instances : Alive(z)' => Alive(z)
  BY DEF Alive
<1>3. \A d \in Clients : TurnFits(run[d])'
  BY ControlFacts DEF TurnFits
<1>4. \A d \in Clients : TargetIsNew(d)'
  BY <1>1, ControlFacts DEF TargetIsNew, Inside, IsDungeon, Expects, Elects
<1>5. OnlyDungeons' /\ PlacedHaveIds' /\ ControllerInside'
  BY <1>1, ControlFacts DEF OnlyDungeons, PlacedHaveIds, ControllerInside
<1>6. Vacant'
  BY <1>1, VacantKeeps
<1>7. ASSUME ~contended'
      PROVE  RemovalsFit' /\ ToldControls' /\ ControllerTold'
  <2>1. ToldControls' /\ ControllerTold'
    <3>1. \A d \in Clients : confirms'[d] \in {confirms[d], confirms[d] + 1}
      OBVIOUS
    <3> QED
      BY <1>1, <1>2, <1>7, <3>1, ToldKeeps
  <2>2. \A x \in Characters : ZoneOf(x) = None => ZoneOf(x)' = None
    <3>1. \A x \in Characters : zone[x] \in Instances \union {None}
      BY DEF WorldInv, TypeOK
    <3> QED
      BY <1>2, <3>1 DEF ZoneOf
  <2>3. RemovalsFit
    BY <1>7, ControlFacts
  <2>4. RemovalsFit'
    BY <2>2, <2>3 DEF RemovalsFit, RemovalFits
  <2> QED
    BY <2>1, <2>4
<1> QED
  BY <1>3, <1>4, <1>5, <1>6, <1>7 DEF ControlInv

\* A handler that begins has no target but the town, and nothing to remove.
LEMMA BeginControl ==
  ASSUME WorldInv, ControlInv, NEW c \in Clients, NEW h \in Handlers, Becomes(c, h), Watch,
         ~Busy(c), UNCHANGED <<zone, oid, system, zones>>,
         \A d \in Clients : conn[d] = "gone" => conn'[d] = "gone",
         \A d \in Clients : confirms'[d] \in {confirms[d], confirms[d] + 1},
         h.step \in {"snapshot", "create", "place", "close"}, h.to \in {None, TownInstance},
         h.old # None => Alive(h.old),
         TurnFits(h)', h.step = "place" => \A x \in Characters : h.chr = x => zone[x] = None
  PROVE  ControlInv'
<1>1. UNCHANGED <<chrs, controller, told, map, maps_>>
  BY DEF system, zones
<1>2. \A x \in Characters, z \in Instances : x \in Inside(z)' => x \in Inside(z)
  BY <1>1 DEF Inside
<1>3. \A x \in Characters : ~Elects(h, x)
  BY DEF Elects
<1>4. \A d \in Clients : TargetIsNew(d)'
  BY <1>1, <1>2, <1>3, TargetsKeep
<1>5. run[c].step \notin {"copy", "elect"}
  BY DEF Busy
<1>6. \A z \in Instances : Alive(z)' => Alive(z)
  BY <1>1, AliveKeeps DEF Alive
<1>7. PlacedHaveIds'
  BY ControlFacts DEF PlacedHaveIds
<1>8. \A x \in Characters : h.chr = x => RemovalFits(x, h)'
  BY DEF RemovalFits, ZoneOf
<1> QED
  BY <1>1, <1>4, <1>5, <1>6, <1>7, <1>8, NeutralKeeps DEF Watch

\* What happens to a connection, and the packets that begin a handler.
LEMMA EventControl ==
  ASSUME WorldInv, ControlInv, NEW c \in Clients, Event(c)
  PROVE  ControlInv'
<1>1. CASE Close(c) \/ HandleCharacterAttackMotion(c) \/ (HandleZoneChangeRequest(c) /\ Throw(c))
  <2>1. /\ conn[c] = "open" /\ conn' = [conn EXCEPT ![c] = "closing"]
        /\ UNCHANGED <<character, confirms, moves, characters, system, zones, run>>
    BY <1>1 DEF Close, HandleCharacterAttackMotion, HandleZoneChangeRequest, Throw, Starts
  <2>2. \A d \in Clients : conn[d] = "gone" => conn'[d] = "gone"
    BY <2>1 DEF WorldInv, TypeOK
  <2> QED
    BY <2>1, <2>2, StayControl DEF Event, Watch, characters, system
<1>2. CASE HandleChrPositionNotify(c)
  BY <1>2, StayControl DEF Event, Watch, HandleChrPositionNotify, Starts, system
<1>3. CASE OnClose(c) /\ UNCHANGED run
  <2>1. \A d \in Clients : conn[d] = "gone" => conn'[d] = "gone"
    BY <1>3 DEF WorldInv, TypeOK, OnClose
  <2> QED
    BY <1>3, <2>1, StayControl DEF Event, Watch, OnClose, Starts, characters, system
<1>4. CASE OnClose(c) /\ ~UNCHANGED run
  <2>0. PICK h : h = [NoHandler EXCEPT !.step = "close", !.job = "close", !.chr = character[c]]
    OBVIOUS
  <2>1. /\ h \in Handlers /\ h.step = "close" /\ h.job = "close" /\ h.old = None /\ h.to = None
    BY <1>4, <2>0, NoHandlerType DEF OnClose, WorldInv, TypeOK, Handlers, Steps
  <2>2. Becomes(c, h)
    BY <1>4, <2>0 DEF OnClose, Begin, Becomes
  <2>3. \A d \in Clients : conn[d] = "gone" => conn'[d] = "gone"
    BY <1>4 DEF WorldInv, TypeOK, OnClose
  <2>4. ~Busy(c) /\ UNCHANGED <<confirms, zone, oid, system, zones>>
    BY <1>4 DEF OnClose, Starts, characters
  <2>5. TurnFits(h)'
    BY <2>1 DEF TurnFits
  <2> QED
    BY <2>1, <2>2, <2>3, <2>4, <2>5, BeginControl DEF Event
<1>5. CASE HandleZoneChangeRequest(c) /\ ~Throw(c)
  <2>1. PICK z \in Instances : z = ZoneOf(character[c]) /\ Alive(z)
    BY <1>5, HeldIsAlive, Basics DEF HandleZoneChangeRequest, WorldInv, TypeOK, ZoneOf
  <2> DEFINE h == [NoHandler EXCEPT !.step = "snapshot", !.job = "change", !.old = z]
  <2>2. /\ h \in Handlers /\ h.step = "snapshot" /\ h.job = "change" /\ h.old = z /\ h.to = None
        /\ h.chr = None
    BY <2>1, NoHandlerType DEF Handlers, Steps
  <2>3. Becomes(c, h)
    BY <1>5, <2>1 DEF HandleZoneChangeRequest, Begin, Becomes
  <2>4. ~Busy(c) /\ UNCHANGED <<conn, confirms, zone, oid, system, zones>>
    BY <1>5 DEF HandleZoneChangeRequest, Starts, characters
  <2> HIDE DEF h
  <2>5. TurnFits(h)'
    BY <2>2, Basics DEF TurnFits
  <2> QED
    BY <2>1, <2>2, <2>3, <2>4, <2>5, BeginControl DEF Event
<1>6. CASE ConfirmMatch(c)
  <2>1. PICK party \in SUBSET Clients :
            Begin(c, [NoHandler EXCEPT !.step = "create", !.job = "party", !.todo = party])
    BY <1>6 DEF ConfirmMatch
  <2> DEFINE h == [NoHandler EXCEPT !.step = "create", !.job = "party", !.todo = party]
  <2>2. /\ h \in Handlers /\ h.step = "create" /\ h.job = "party" /\ h.old = None /\ h.to = None
        /\ h.chr = None
    BY NoHandlerType DEF Handlers, Steps
  <2>3. Becomes(c, h)
    BY <2>1 DEF Begin, Becomes
  <2>4. ~Busy(c) /\ UNCHANGED <<conn, confirms, zone, oid, system, zones>>
    BY <1>6 DEF ConfirmMatch, Starts, clients, characters
  <2> HIDE DEF h
  <2>5. TurnFits(h)'
    BY <2>2, Basics DEF TurnFits
  <2> QED
    BY <2>2, <2>3, <2>4, <2>5, BeginControl DEF Event
<1>7. CASE HandleConfirmRequest(c)
  <2>0. PICK x : x = <<c, confirms[c] + 1>>
    OBVIOUS
  <2> DEFINE h == [NoHandler EXCEPT !.step = "place", !.job = "confirm", !.to = TownInstance, !.chr = x]
  <2>1. confirms[c] \in Nat /\ confirms[c] < MaxConfirms /\ x \in Characters
    BY <1>7, <2>0, WorldAssumption DEF HandleConfirmRequest, WorldInv, TypeOK, Characters
  <2>2. /\ h \in Handlers /\ h.step = "place" /\ h.job = "confirm" /\ h.old = None
        /\ h.to = TownInstance /\ h.chr = x
    BY <2>1, NoHandlerType, Basics DEF Handlers, Steps
  <2>3. Becomes(c, h)
    BY <1>7, <2>0 DEF HandleConfirmRequest, Begin, Becomes
  <2>4. ~Busy(c) /\ UNCHANGED <<conn, zone, oid, system, zones>>
    BY <1>7 DEF HandleConfirmRequest, Starts, characters
  <2>5. \A d \in Clients : confirms'[d] \in {confirms[d], confirms[d] + 1}
    BY <1>7 DEF HandleConfirmRequest, WorldInv, TypeOK
  <2>6. zone[x] = None
    <3>1. ~Made(x)
      BY <2>0, <2>1 DEF Made
    <3> QED
      BY <2>1, <3>1 DEF WorldInv, CharactersMade
  <2> HIDE DEF h
  <2>7. TurnFits(h)'
    BY <2>2 DEF TurnFits
  <2> QED
    BY <2>2, <2>3, <2>4, <2>5, <2>6, <2>7, BeginControl DEF Event
<1> QED
  BY <1>1, <1>2, <1>3, <1>4, <1>5, <1>6, <1>7 DEF Event

\* The handler after a step of its own.
LEMMA TurnOf ==
  ASSUME WorldInv, WorldInv', NEW c \in Clients, Step(c)
  PROVE  \E h \in Handlers : h = run'[c] /\ Becomes(c, h) /\ Shape(h)
<1>1. run \in [Clients -> Handlers] /\ run' \in [Clients -> Handlers] /\ Shape(run[c])'
  BY DEF WorldInv, TypeOK, HandlerFits
<1>2. ASSUME NEW d \in Clients, d # c
      PROVE  run'[d] = run[d]
  <2>1. CASE Snapshot(c) \/ Check(c) \/ CreateTarget(c) \/ Done(c) \/ NextCharacter(c) \/ NextPlayer(c)
    BY <1>1, <1>2, <2>1 DEF Snapshot, Check, CreateTarget, CreateNewInstance, Done, NextCharacter,
       NextPlayer, Goto, Finish
  <2>2. CASE Leave(c) \/ Find(c) \/ Forget(c) \/ Erase(c) \/ CopyCharacters(c) \/ Elect(c)
    BY <1>1, <1>2, <2>2 DEF Leave, Find, Forget, Erase, CopyCharacters, Elect, Goto, GotoWith
  <2>3. CASE Place(c) \/ Emplace(c) \/ ReadZone(c) \/ ReadObjectId(c) \/ Clear(c)
    BY <1>1, <1>2, <2>3 DEF Place, Emplace, ReadZone, ReadObjectId, Clear, Finish
  <2> QED
    BY <2>1, <2>2, <2>3 DEF Step
<1>3. PICK h \in Handlers : h = run'[c]
  BY <1>1
<1>4. Becomes(c, h)
  BY <1>1, <1>2, <1>3 DEF Becomes
<1>5. Shape(h)
  BY <1>1, <1>3 DEF Shape
<1> QED
  BY <1>3, <1>4, <1>5

\* A step of a handler that at most resets the zone of its character.
LEMMA TurnControl ==
  ASSUME WorldInv, ControlInv, NEW c \in Clients, NEW h \in Handlers, Becomes(c, h), Watch,
         UNCHANGED <<conn, confirms, oid, system, zones>>,
         \A x \in Characters : zone'[x] \in {zone[x], None},
         run[c].step \notin {"copy", "elect"}, h.step # "elect", TurnFits(h),
         h.old # None => Alive(h.old),
         \/ h.to = None \/ h.to = TownInstance
         \/ h.to = run[c].to /\ \A x \in Characters : Expects(h, x) => Expects(run[c], x),
         ~contended' =>
             /\ \A x \in Characters : run[c].chr # x => zone'[x] = zone[x]
             /\ \A x \in Characters : h.chr = x => RemovalFits(x, h)'
  PROVE  ControlInv'
<1>1. UNCHANGED <<chrs, controller, told, map, maps_>>
  BY DEF system, zones
<1>2. \A x \in Characters, z \in Instances : x \in Inside(z)' => x \in Inside(z)
  BY <1>1 DEF Inside
<1>3. \A x \in Characters : ~Elects(h, x)
  BY DEF Elects
<1>4. \A d \in Clients : TargetIsNew(d)'
  BY <1>1, <1>2, <1>3, TargetsKeep
<1>5. h.to # None => Alive(h.to)
  BY HeldIsAlive DEF Alive
<1>6. \A z \in Instances : Alive(z)' => Alive(z)
  BY <1>1, <1>5, AliveKeeps
<1>7. PlacedHaveIds'
  BY ControlFacts DEF PlacedHaveIds
<1>8. TurnFits(h)'
  BY <1>1 DEF TurnFits
<1>9. \A x \in Characters, z \in Instances :
          x \in Inside(z) /\ map[z] \notin {None, Town} /\ zone'[x] = z => zone[x] = z
  BY Basics
<1>10. \A d \in Clients : confirms'[d] \in {confirms[d], confirms[d] + 1}
  OBVIOUS
<1> QED
  BY <1>1, <1>4, <1>6, <1>7, <1>8, <1>9, <1>10, NeutralKeeps DEF Watch

\* The zones' pointers after a step that leaves them alone.
LEMMA RemovalStays ==
  ASSUME WorldInv, NEW x \in Characters, NEW r, RemovalFits(x, r), UNCHANGED <<zone, oid>>,
         \A z \in Instances : Alive(z)' => Alive(z)
  PROVE  RemovalFits(x, r)'
<1>1. zone[x] \in Instances \union {None}
  BY DEF WorldInv, TypeOK
<1>2. ZoneOf(x) = None => ZoneOf(x)' = None
  BY <1>1 DEF ZoneOf
<1> QED
  BY <1>2 DEF RemovalFits

\* The check of TryChangeZone, and the end of a handler that has moved all.
LEMMA CheckControl ==
  ASSUME WorldInv, WorldInv', ControlInv, NEW c \in Clients, Step(c),
         Snapshot(c) \/ Check(c) \/ Done(c)
  PROVE  ControlInv'
<1>1. PICK h \in Handlers : h = run'[c] /\ Becomes(c, h) /\ Shape(h)
  BY TurnOf
<1>2. /\ UNCHANGED <<clients, characters, system, zones>>
      /\ run[c].step \in {"snapshot", "check", "next"} /\ run[c] \in Handlers
  BY HandlerIn DEF Snapshot, Check, Done, At
<1>3. \/ h = NoHandler
      \/ /\ h.step \in {"check", "create"} /\ h.job = run[c].job /\ h.chr = run[c].chr
         /\ h.old = run[c].old /\ h.to = run[c].to /\ run[c].step # "next"
  <2>1. CASE Snapshot(c)
    BY <1>1, <1>2, <2>1 DEF Snapshot, At, WorldInv, TypeOK, Handlers
  <2>2. CASE Check(c)
    BY <1>1, <1>2, <2>2 DEF Check, At, Goto, Finish, WorldInv, TypeOK, Handlers
  <2>3. CASE Done(c)
    BY <1>1, <1>2, <2>3 DEF Done, At, Finish, WorldInv, TypeOK, Handlers
  <2> QED
    BY <2>1, <2>2, <2>3
<1>4. h.chr = None /\ h.to = None
  BY <1>1, <1>2, <1>3, ControlFacts, HandlerFacts, NoHandlerType DEF TurnFits, Shape, Moving
<1>5. TurnFits(h)
  BY <1>2, <1>3, <1>4, HandlerFacts, NoHandlerType, Basics DEF TurnFits, Shape
<1>6. h.old # None => Alive(h.old)
  BY <1>3, HeldIsAlive, NoHandlerType
<1>7. h.step # "elect"
  BY <1>3, NoHandlerType
<1> QED
  BY <1>1, <1>2, <1>4, <1>5, <1>6, <1>7, Basics, TurnControl DEF Step, clients, characters

\* Who is moved next was to be moved.
LEMMA NextControl ==
  ASSUME WorldInv, ControlInv, NEW c \in Clients, Step(c), NextCharacter(c) \/ NextPlayer(c)
  PROVE  ControlInv'
<1>1. PICK h \in Handlers :
            /\ Becomes(c, h)
            /\ h.job = run[c].job /\ h.old = run[c].old /\ h.to = run[c].to
            /\ h.todo \subseteq run[c].todo
            /\ \/ h.step \in {"next", "down"} /\ h.chr = None
               \/ /\ h.step = "leave" /\ h.job = "change"
                  /\ h.chr \in run[c].todo /\ h.chr \notin h.todo
               \/ /\ h.step = "leave" /\ h.job = "party" /\ h.chr # None
                  /\ \E d \in Clients :
                         h.chr = character[d] /\ d \in run[c].todo /\ d \notin h.todo
  BY NextTurn
<1>2. /\ UNCHANGED <<clients, characters, system, zones>>
      /\ run[c].step = "next" /\ run[c].job \in {"change", "party"}
  BY HandlerFacts DEF NextCharacter, NextPlayer, At
<1>3. h.step \in {"next", "leave", "down"}
  BY <1>1
<1>4. \A x \in Characters : h.chr = x =>
          \/ h.job = "change" /\ x \in run[c].todo /\ x \notin h.todo
          \/ h.job = "party" /\ ClientOf(x) \in run[c].todo /\ ClientOf(x) \notin h.todo
  <2>1. \A d \in Clients : character[d] # None => ClientOf(character[d]) = d
    BY OwnCharacter DEF ClientOf
  <2> QED
    BY <1>1, <2>1, Basics
<1>5. TurnFits(h)
  BY <1>1, <1>2, <1>3, <1>4 DEF TurnFits
<1>6. \A x \in Characters : Expects(h, x) => Expects(run[c], x)
  BY <1>1, <1>4 DEF Expects
<1>7. \A x \in Characters : h.chr = x => RemovalFits(x, h)'
  BY <1>3 DEF RemovalFits
<1>8. h.old # None => Alive(h.old)
  BY <1>1, HeldIsAlive
<1>9. UNCHANGED <<conn, confirms, zone, oid>> /\ Watch
  BY <1>2 DEF Step, clients, characters
<1> QED
  BY <1>1, <1>2, <1>3, <1>5, <1>6, <1>7, <1>8, <1>9, TurnControl

\* The handler after what OnClose reads and after the search for the entry.
Found(c) == {e.chr : e \in {f \in chrs[run[c].old] : f.oid = run[c].oid}}
LEMMA ReadTurn ==
  ASSUME WorldInv, NEW c \in Clients, ReadZone(c) \/ ReadObjectId(c) \/ Find(c)
  PROVE  \E h \in Handlers :
            /\ Becomes(c, h)
            /\ h.job = run[c].job /\ h.to = run[c].to /\ h.todo = run[c].todo /\ h.chr = run[c].chr
            /\ \/ /\ run[c].step = "close" /\ h.old = ZoneOf(run[c].chr)
                  /\ h.step \in {"clear", "oid"} /\ (h.step = "clear" => h.old = None)
               \/ /\ run[c].step = "oid" /\ h.old = run[c].old /\ h.step = "find"
                  /\ h.oid = oid[run[c].chr]
               \/ /\ run[c].step = "find" /\ h.old = run[c].old /\ h.oid = run[c].oid
                  /\ h.copy = Found(c)
                  /\ (h.copy = {} /\ h.step = "erase") \/ (h.copy # {} /\ h.step = "forget")
<1>1. run[c] \in Handlers
  BY HandlerIn
<1>2. run[c].step \in {"close", "oid", "find"} => run[c].chr \in Characters
  BY HandlerFacts, HandlerType DEF WorldInv, Shape, Moving
<1>3. CASE ReadZone(c)
  <2>1. PICK z \in Instances \union {None} : z = ZoneOf(run[c].chr)
    BY <1>2, <1>3 DEF ReadZone, At, ZoneOf, WorldInv, TypeOK
  <2>2. PICK step \in {"clear", "oid"} :
            /\ step = "clear" => z = None
            /\ run' = [run EXCEPT ![c].step = step, ![c].old = z]
    BY <1>3, <2>1 DEF ReadZone
  <2> DEFINE h == [run[c] EXCEPT !.step = step, !.old = z]
  <2>3. h \in Handlers
    BY <1>1 DEF Handlers, Steps
  <2>4. /\ h.job = run[c].job /\ h.to = run[c].to /\ h.todo = run[c].todo /\ h.chr = run[c].chr
        /\ h.step = step /\ h.old = z
    BY <1>1 DEF Handlers
  <2>5. Becomes(c, h) /\ run[c].step = "close"
    BY <1>3, <2>2 DEF Becomes, ReadZone, At
  <2> HIDE DEF h
  <2> QED
    BY <2>1, <2>2, <2>3, <2>4, <2>5
<1>4. CASE ReadObjectId(c)
  <2>1. PICK i \in Nat \union {None} : i = oid[run[c].chr]
    BY <1>2, <1>4 DEF ReadObjectId, At, WorldInv, TypeOK
  <2> DEFINE h == [run[c] EXCEPT !.step = "find", !.oid = i]
  <2>3. h \in Handlers
    BY <1>1 DEF Handlers, Steps
  <2>4. /\ h.job = run[c].job /\ h.to = run[c].to /\ h.todo = run[c].todo /\ h.chr = run[c].chr
        /\ h.step = "find" /\ h.old = run[c].old /\ h.oid = i
    BY <1>1 DEF Handlers
  <2>5. Becomes(c, h) /\ run[c].step = "oid"
    BY <1>4, <2>1 DEF Becomes, ReadObjectId, At
  <2> HIDE DEF h
  <2> QED
    BY <2>1, <2>3, <2>4, <2>5
<1>5. CASE Find(c)
  <2>1. Found(c) \in SUBSET Characters
    <3>1. run[c].old \in Instances
      BY <1>5, HandlerFacts DEF Find, At, Shape
    <3>2. \A e \in chrs[run[c].old] : e.chr \in Characters
      BY <3>1 DEF WorldInv, TypeOK, Entries
    <3> QED
      BY <3>2 DEF Found
  <2>2. PICK found \in SUBSET Characters : found = Found(c)
    BY <2>1
  <2>3. PICK step \in {"erase", "forget"} :
            /\ (found = {} /\ step = "erase") \/ (found # {} /\ step = "forget")
            /\ run' = [run EXCEPT ![c].step = step, ![c].copy = found]
    BY <1>5, <2>2 DEF Find, Found
  <2> DEFINE h == [run[c] EXCEPT !.step = step, !.copy = found]
  <2>4. h \in Handlers
    BY <1>1 DEF Handlers, Steps
  <2>5. /\ h.job = run[c].job /\ h.to = run[c].to /\ h.todo = run[c].todo /\ h.chr = run[c].chr
        /\ h.step = step /\ h.old = run[c].old /\ h.oid = run[c].oid /\ h.copy = found
    BY <1>1 DEF Handlers
  <2>6. Becomes(c, h) /\ run[c].step = "find"
    BY <1>5, <2>3 DEF Becomes, Find, At
  <2> HIDE DEF h
  <2> QED
    BY <2>2, <2>3, <2>4, <2>5, <2>6
<1> QED
  BY <1>3, <1>4, <1>5

\* What OnClose reads is so until it removes the character; the search finds the character only.
LEMMA ReadControl ==
  ASSUME WorldInv, ControlInv, NEW c \in Clients, Step(c), ReadZone(c) \/ ReadObjectId(c) \/ Find(c)
  PROVE  ControlInv'
<1>1. PICK h \in Handlers :
            /\ Becomes(c, h)
            /\ h.job = run[c].job /\ h.to = run[c].to /\ h.todo = run[c].todo /\ h.chr = run[c].chr
            /\ \/ /\ run[c].step = "close" /\ h.old = ZoneOf(run[c].chr)
                  /\ h.step \in {"clear", "oid"} /\ (h.step = "clear" => h.old = None)
               \/ /\ run[c].step = "oid" /\ h.old = run[c].old /\ h.step = "find"
                  /\ h.oid = oid[run[c].chr]
               \/ /\ run[c].step = "find" /\ h.old = run[c].old /\ h.oid = run[c].oid
                  /\ h.copy = Found(c)
                  /\ (h.copy = {} /\ h.step = "erase") \/ (h.copy # {} /\ h.step = "forget")
  BY ReadTurn
<1>2. /\ UNCHANGED <<clients, characters, system, zones>> /\ Watch
      /\ run[c].step \in {"close", "oid", "find"}
  BY <1>1 DEF ReadZone, ReadObjectId, Find, Step
<1>3. PICK x \in Characters : run[c].chr = x
  BY <1>2, HandlerFacts, HandlerType DEF WorldInv, Shape, Moving
<1>4. h.step \in {"clear", "oid", "find", "erase", "forget"} /\ h.chr = x
  BY <1>1, <1>3
<1>5. h.old # None => Alive(h.old)
  BY <1>1, <1>3, HeldIsAlive
<1>6. TurnFits(h)
  BY <1>1, <1>2, <1>3, <1>4, ControlFacts DEF TurnFits
<1>7. \A y \in Characters : Expects(h, y) => Expects(run[c], y)
  BY <1>1, <1>3, <1>4 DEF Expects
<1>8. \A z \in Instances : Alive(z)' => Alive(z)
  <2>1. h.to # None => Alive(h.to)
    BY <1>1, HeldIsAlive
  <2> QED
    BY <1>1, <1>2, <1>5, <2>1, AliveKeeps DEF system
<1>9. ASSUME ~contended'
      PROVE  RemovalFits(x, h)
  <2>0. ~contended
    BY <1>2, <1>9 DEF Watch
  <2>1. MoveFits(x, c) /\ RemovalFits(x, run[c])
    BY <1>3, <2>0, HandlerFacts, ControlFacts DEF RemovalsFit
  <2>2. CASE run[c].step = "close"
    BY <1>1, <1>3, <2>2 DEF RemovalFits
  <2>3. CASE run[c].step = "oid"
    BY <1>1, <1>3, <2>1, <2>3 DEF RemovalFits, MoveFits
  <2>4. CASE run[c].step = "find"
    <3>1. IsLeaving(x, c) /\ run[c].old \in Instances /\ Alive(run[c].old)
      BY <2>1, <2>4, HandlerFacts, HeldIsAlive, Basics DEF MoveFits, Shape
    <3>2. PICK e \in chrs[run[c].old] : e.chr = x /\ e.oid = run[c].oid
      BY <3>1 DEF IsLeaving, Inside
    <3>3. \A f \in chrs[run[c].old] : f.oid = run[c].oid => f = e
      BY <3>1, <3>2 DEF WorldInv, IdsUnique
    <3>4. Found(c) = {x}
      BY <3>2, <3>3 DEF Found
    <3>5. h.copy = {x} /\ h.step = "forget" /\ h.oid = run[c].oid /\ h.old = run[c].old
      BY <1>1, <2>4, <3>4
    <3>6. oid[x] = run[c].oid /\ zone[x] \in {None, run[c].old}
      BY <2>1, <2>4 DEF RemovalFits
    <3> QED
      BY <3>5, <3>6 DEF RemovalFits
  <2> QED
    BY <1>2, <2>2, <2>3, <2>4
<1>10. ~contended' => \A y \in Characters : h.chr = y => RemovalFits(y, h)'
  BY <1>2, <1>4, <1>8, <1>9, RemovalStays DEF characters
<1> QED
  BY <1>1, <1>2, <1>4, <1>5, <1>6, <1>7, <1>10, TurnControl DEF clients, characters

\* Who leaves has forgotten its zone, whose lock it takes next.
LEMMA LeaveControl ==
  ASSUME WorldInv, ControlInv, NEW c \in Clients, Step(c), Leave(c)
  PROVE  ControlInv'
<1>1. run[c].step = "leave" /\ run[c].job \in {"change", "party"} /\ Watch
      /\ UNCHANGED <<clients, oid, at_portal, system, zones>>
  BY HandlerFacts DEF Leave, At, Shape, Step
<1>2. PICK x \in Characters : run[c].chr = x
  BY <1>1, HandlerFacts, HandlerType DEF WorldInv, Shape, Moving
<1>3. PICK z \in Instances \union {None} :
          z = IF run[c].job = "party" THEN ZoneOf(x) ELSE run[c].old
  BY HandlerType DEF WorldInv, TypeOK, ZoneOf
<1>4. PICK i \in Nat \union {None} : i = oid[x]
  BY DEF WorldInv, TypeOK
<1>5. PICK step \in {"place", "find"} : step = IF z = None THEN "place" ELSE "find"
  OBVIOUS
<1>6. /\ run' = [run EXCEPT ![c].step = step, ![c].old = z, ![c].oid = i]
      /\ zone' = [zone EXCEPT ![x] = None]
  BY <1>2, <1>3, <1>4, <1>5 DEF Leave
<1>7. PICK h \in Handlers : h = [run[c] EXCEPT !.step = step, !.old = z, !.oid = i]
  <2>1. step \in Steps /\ run[c] \in Handlers
    BY HandlerIn DEF Steps
  <2>2. [run[c] EXCEPT !.step = step, !.old = z, !.oid = i] \in Handlers
    BY <2>1 DEF Handlers
  <2> QED
    BY <2>2
<1>8. /\ h.job = run[c].job /\ h.to = run[c].to /\ h.todo = run[c].todo /\ h.chr = x
      /\ h.step = step /\ h.old = z /\ h.oid = i
  BY <1>2, <1>7, HandlerIn DEF Handlers
<1>9. Becomes(c, h)
  BY <1>6, <1>7 DEF Becomes
<1>10. h.old # None => Alive(h.old)
  BY <1>3, <1>8, HeldIsAlive
<1>11. TurnFits(h)
  BY <1>1, <1>2, <1>5, <1>8, ControlFacts DEF TurnFits
<1>12. \A y \in Characters : Expects(h, y) => Expects(run[c], y)
  BY <1>2, <1>8 DEF Expects
<1>13. \A y \in Characters : zone'[y] = IF y = x THEN None ELSE zone[y]
  BY <1>6 DEF WorldInv, TypeOK
<1>14. \A y \in Characters : h.chr = y => RemovalFits(y, h)'
  BY <1>1, <1>4, <1>5, <1>8, <1>13 DEF RemovalFits, ZoneOf
<1> QED
  BY <1>1, <1>2, <1>5, <1>7, <1>8, <1>9, <1>10, <1>11, <1>12, <1>13, <1>14, TurnControl DEF clients

\* The character that was found forgets the zone.
LEMMA ForgetControl ==
  ASSUME WorldInv, ControlInv, NEW c \in Clients, Step(c), Forget(c)
  PROVE  ControlInv'
<1>1. /\ run[c].step = "forget" /\ Watch
      /\ UNCHANGED <<clients, oid, at_portal, system, zones>>
      /\ run' = [run EXCEPT ![c].step = "erase"]
  BY DEF Forget, Goto, At, Step
<1>2. PICK x \in Characters : run[c].chr = x
  BY <1>1, HandlerFacts, HandlerType DEF WorldInv, Shape, Moving
<1>3. PICK h \in Handlers : h = [run[c] EXCEPT !.step = "erase"]
  BY HandlerIn DEF Handlers, Steps
<1>4. /\ h.step = "erase" /\ h.job = run[c].job /\ h.to = run[c].to /\ h.todo = run[c].todo
      /\ h.chr = x /\ h.old = run[c].old /\ h.oid = run[c].oid /\ h.copy = run[c].copy
  BY <1>2, <1>3, HandlerIn DEF Handlers
<1>5. Becomes(c, h)
  BY <1>1, <1>3 DEF Becomes
<1>6. h.old # None => Alive(h.old)
  BY <1>4, HeldIsAlive
<1>7. TurnFits(h)
  BY <1>1, <1>2, <1>4, ControlFacts DEF TurnFits
<1>8. \A y \in Characters : Expects(h, y) => Expects(run[c], y)
  BY <1>2, <1>4 DEF Expects
<1>9. \A y \in Characters : zone'[y] = IF y \in run[c].copy THEN None ELSE zone[y]
  BY DEF WorldInv, TypeOK, Forget
<1>10. ASSUME ~contended'
       PROVE  /\ \A y \in Characters : run[c].chr # y => zone'[y] = zone[y]
              /\ \A y \in Characters : h.chr = y => RemovalFits(y, h)'
  <2>1. RemovalFits(x, run[c])
    BY <1>1, <1>2, <1>10, ControlFacts DEF RemovalsFit, Watch
  <2>2. run[c].copy = {x} /\ oid[x] = run[c].oid
    BY <1>1, <2>1 DEF RemovalFits
  <2>3. zone'[x] = None /\ oid'[x] = h.oid /\ h.copy = {x}
    BY <1>1, <1>4, <1>9, <2>2
  <2>4. RemovalFits(x, h)'
    BY <1>4, <2>3 DEF RemovalFits
  <2> QED
    BY <1>2, <1>4, <1>9, <2>2, <2>4
<1> QED
  BY <1>1, <1>3, <1>4, <1>5, <1>6, <1>7, <1>8, <1>9, <1>10, TurnControl DEF clients

\* OnClose is over.
LEMMA ClearControl ==
  ASSUME WorldInv, ControlInv, NEW c \in Clients, Step(c), Clear(c)
  PROVE  ControlInv'
<1>1. /\ run[c].step = "clear" /\ Watch
      /\ UNCHANGED <<conn, confirms, oid, system, zones>>
  BY DEF Clear, At, Step
<1>2. PICK h \in Handlers : h = NoHandler
  BY NoHandlerType
<1>3. Becomes(c, h)
  BY <1>2 DEF Clear, Finish, Becomes
<1>4. \A y \in Characters : zone'[y] = IF y = run[c].chr THEN None ELSE zone[y]
  BY DEF Clear, WorldInv, TypeOK
<1>5. TurnFits(h)
  BY <1>2, NoHandlerType, Basics DEF TurnFits
<1> QED
  BY <1>1, <1>2, <1>3, <1>4, <1>5, NoHandlerType, Basics, TurnControl

\* Nobody has been in a dungeon that is new.
LEMMA CreateInstanceControl ==
  ASSUME WorldInv, ControlInv, NEW c \in Clients, Watch, CreateTarget(c), NEW m \in Maps,
         CreateNewInstance(c, m)
  PROVE  ControlInv'
<1>1. /\ UNCHANGED <<clients, characters, zones>>
      /\ run[c].step = "create" /\ run[c].job \in {"change", "party"} /\ run[c].chr = None
  BY HandlerFacts DEF CreateTarget, At, Shape, Moving
<1>2. PICK z \in Instances : /\ map[z] = None
                             /\ map' = [map EXCEPT ![z] = m]
                             /\ maps_' = maps_ \union {z}
                             /\ run' = [run EXCEPT ![c].step = "next", ![c].to = z]
  BY DEF CreateNewInstance
<1>3. PICK h \in Handlers : h = [run[c] EXCEPT !.step = "next", !.to = z]
  BY HandlerIn DEF Handlers, Steps
<1>4. /\ h.step = "next" /\ h.job = run[c].job /\ h.chr = None /\ h.old = run[c].old /\ h.to = z
  BY <1>1, <1>3, HandlerIn DEF Handlers
<1>5. Becomes(c, h)
  BY <1>2, <1>3 DEF Becomes
<1>6. run'[c] = h /\ \A d \in Clients : d # c => run'[d] = run[d]
  BY <1>5, RunStep DEF WorldInv
<1>7. \A n \in Instances : map'[n] = IF n = z THEN m ELSE map[n]
  BY <1>2 DEF WorldInv, TypeOK
<1>8. /\ chrs[z] = {} /\ map[TownInstance] = Town /\ z # TownInstance
      /\ \A d \in Clients : run[d].old # z /\ run[d].to # z
  BY <1>2, Basics DEF WorldInv, ZonesMade
<1>9. \A d \in Clients : TargetIsNew(d)'
  <2>1. \A y \in Characters : ~Elects(h, y)
    BY <1>4 DEF Elects
  <2>2. TargetIsNew(c)'
    <3>1. \A d \in Clients : run'[d].to = z => d = c
      BY <1>6, <1>8
    <3>2. \A y \in Characters : y \notin Inside(z)'
      BY <1>1, <1>8 DEF Inside, zones
    <3>3. \A d \in Clients : run'[d].old # z
      BY <1>4, <1>6, <1>8
    <3> QED
      BY <1>4, <1>6, <3>1, <3>2, <3>3 DEF TargetIsNew
  <2>3. ASSUME NEW d \in Clients, NEW n \in Instances, d # c, run'[d].to = n, map'[n] # Town
        PROVE  /\ \A e \in Clients : run'[e].to = n => e = d
               /\ \A x \in Characters : Expects(run'[d], x) =>
                      /\ x \notin Inside(n)'
                      /\ \A e \in Clients : run'[e].old = n => ~Elects(run'[e], x)
    <3>1. n = run[d].to /\ run'[d] = run[d]
      BY <1>6, <2>3
    <3>2. n # z /\ n # None /\ map[n] # Town
      BY <1>7, <1>8, <2>3, <3>1, Basics
    <3>3. /\ \A e \in Clients : run[e].to = n => e = d
          /\ \A x \in Characters : Expects(run[d], x) =>
                 /\ x \notin Inside(n)
                 /\ \A e \in Clients : run[e].old = n => ~Elects(run[e], x)
      BY <3>1, <3>2, ControlFacts DEF TargetIsNew, IsDungeon
    <3>4. \A e \in Clients : run'[e].to = n => e = d
      BY <1>4, <1>6, <3>2, <3>3
    <3>5. ASSUME NEW x \in Characters, Expects(run[d], x)
          PROVE  x \notin Inside(n)' /\ \A e \in Clients : run'[e].old = n => ~Elects(run'[e], x)
      <4>1. x \notin Inside(n)'
        BY <1>1, <3>3, <3>5 DEF Inside, zones
      <4> QED
        BY <1>6, <2>1, <3>3, <3>5, <4>1
    <3> QED
      BY <3>1, <3>4, <3>5
  <2>4. \A d \in Clients : run'[d].to \in Instances \union {None}
    BY <1>6, HandlerType DEF WorldInv, Handlers
  <2> QED
    BY <2>2, <2>3, <2>4 DEF TargetIsNew, IsDungeon
<1>10. \A n \in Instances : Alive(n)' => Alive(n) \/ map[n] = None
  <2> SUFFICES ASSUME NEW n \in Instances, Alive(n)', n # z
               PROVE  Alive(n)
    BY <1>2
  <2>1. CASE n = TownInstance \/ n \in maps_'
    BY <1>2, <2>1 DEF Alive
  <2>2. CASE \E d \in Clients : run'[d].old = n \/ run'[d].to = n
    <3>1. \A d \in Clients : run'[d].old = run[d].old /\ (run'[d].to = n => run[d].to = n)
      BY <1>4, <1>6
    <3> QED
      BY <2>2, <3>1 DEF Alive
  <2> QED
    BY <2>1, <2>2 DEF Alive
<1>11. TurnFits(h)'
  BY <1>1, <1>4, Basics DEF TurnFits
<1>12. PlacedHaveIds'
  BY <1>1, ControlFacts DEF PlacedHaveIds, characters
<1>13. \A y \in Characters : h.chr # y
  BY <1>4, Basics
<1>14. UNCHANGED <<conn, confirms, zone, oid, chrs, controller, told>>
  BY <1>1 DEF clients, characters, zones
<1>15. \A d \in Clients : confirms'[d] \in {confirms[d], confirms[d] + 1}
  BY <1>14
<1> QED
  BY <1>1, <1>2, <1>5, <1>7, <1>9, <1>10, <1>11, <1>12, <1>13, <1>14, <1>15, NeutralKeeps DEF Watch

\* A party goes to a new dungeon or to the town.
LEMMA CreateTargetControl ==
  ASSUME WorldInv, ControlInv, NEW c \in Clients, Step(c), CreateTarget(c)
  PROVE  ControlInv'
<1>0. Watch
  BY DEF Step
<1>1. CASE run[c].job = "party"
  <2>1. CASE \E m \in Maps : CreateNewInstance(c, m)
    BY <1>0, <2>1, CreateInstanceControl
  <2>2. CASE Goto(c, "down") /\ UNCHANGED system
    <3> DEFINE h == [run[c] EXCEPT !.step = "down"]
    <3>1. /\ UNCHANGED <<clients, characters, system, zones>>
          /\ run[c].step = "create" /\ run[c].chr = None
      BY <1>1, <2>2, HandlerFacts DEF CreateTarget, At, Shape, Moving
    <3>2. /\ h \in Handlers /\ h.step = "down" /\ h.job = "party" /\ h.chr = None
          /\ h.old = run[c].old /\ h.to = run[c].to
      BY <1>1, <3>1, HandlerIn DEF Handlers, Steps
    <3>3. Becomes(c, h)
      BY <2>2 DEF Becomes, Goto
    <3> HIDE DEF h
    <3>4. TurnFits(h)
      BY <3>2, Basics DEF TurnFits
    <3>5. (h.old # None => Alive(h.old)) /\ h.to = None
      BY <3>1, <3>2, HeldIsAlive, ControlFacts DEF TurnFits
    <3> QED
      BY <1>0, <3>1, <3>2, <3>3, <3>4, <3>5, Basics, TurnControl DEF clients, characters
  <2> QED
    BY <1>1, <2>1, <2>2 DEF CreateTarget
<1>2. CASE run[c].job = "change" /\ NextMap[map[run[c].old]] # Town
  <2>1. map[run[c].old] \in Maps \ {Town}
    <3>1. run[c].old \in Instances /\ map[run[c].old] # Town
      BY <1>2, HandlerFacts DEF Shape
    <3>2. map[run[c].old] # None
      BY <3>1 DEF WorldInv, ZonesMade
    <3> QED
      BY <3>1, <3>2 DEF WorldInv, TypeOK
  <2>2. PICK m \in Maps : m = NextMap[map[run[c].old]]
    BY <2>1, WorldAssumption
  <2>3. CreateNewInstance(c, m)
    BY <1>2, <2>2 DEF CreateTarget
  <2> QED
    BY <1>0, <1>2, <2>2, <2>3, CreateInstanceControl
<1>3. CASE run[c].job = "change" /\ NextMap[map[run[c].old]] = Town
  <2>1. /\ run' = [run EXCEPT ![c].step = "next", ![c].to = TownInstance]
        /\ UNCHANGED <<clients, characters, system, zones>>
        /\ run[c].step = "create" /\ run[c].chr = None
    BY <1>3, HandlerFacts DEF CreateTarget, At, Shape, Moving
  <2>2. PICK h \in Handlers : h = [run[c] EXCEPT !.step = "next", !.to = TownInstance]
    <3>1. PICK z \in Instances : z = TownInstance
      BY Basics
    <3>2. "next" \in Steps /\ run[c] \in Handlers
      BY HandlerIn DEF Steps
    <3>3. [run[c] EXCEPT !.step = "next", !.to = z] \in Handlers
      BY <3>2 DEF Handlers
    <3> QED
      BY <3>1, <3>3
  <2>3. /\ h.step = "next" /\ h.job = "change" /\ h.chr = None /\ h.old = run[c].old
        /\ h.to = TownInstance
    BY <1>3, <2>1, <2>2, HandlerIn DEF Handlers
  <2>4. Becomes(c, h)
    BY <2>1, <2>2 DEF Becomes
  <2>5. TurnFits(h)
    BY <2>3, Basics DEF TurnFits
  <2>6. h.old # None => Alive(h.old)
    BY <2>3, HeldIsAlive
  <2> QED
    BY <1>0, <2>1, <2>3, <2>4, <2>5, <2>6, Basics, TurnControl DEF clients, characters
<1> QED
  BY <1>1, <1>2, <1>3 DEF CreateTarget

\* Who is placed in a dungeon was not in it before.
LEMMA PlaceControl ==
  ASSUME WorldInv, ControlInv, NEW c \in Clients, Step(c), Place(c)
  PROVE  ControlInv'
<1>1. /\ UNCHANGED <<clients, system, chrs, controller, told>> /\ Watch
      /\ run[c].step = "place" /\ run[c].to \in Instances
  BY HandlerFacts DEF Place, At, Shape, Step
<1>2. PICK x \in Characters : run[c].chr = x
  BY <1>1, HandlerFacts, HandlerType DEF WorldInv, Shape, Moving
<1>3. PICK z \in Instances : z = run[c].to
  BY <1>1
<1>4. PICK i \in Nat : i = last_object_id[z]
  BY DEF WorldInv, TypeOK
<1>5. run' = [run EXCEPT ![c].step = "emplace", ![c].oid = i]
  BY <1>3, <1>4 DEF Place
<1>6. PICK h \in Handlers : h = [run[c] EXCEPT !.step = "emplace", !.oid = i]
  BY HandlerIn DEF Handlers, Steps
<1>7. /\ h.step = "emplace" /\ h.job = run[c].job /\ h.chr = x
      /\ h.old = run[c].old /\ h.to = run[c].to /\ h.todo = run[c].todo
  BY <1>2, <1>6, HandlerIn DEF Handlers
<1>8. Becomes(c, h)
  BY <1>5, <1>6 DEF Becomes
<1>9. \A y \in Characters : /\ zone'[y] = IF y = x THEN z ELSE zone[y]
                            /\ oid'[y] = IF y = x THEN i ELSE oid[y]
  BY <1>2, <1>3, <1>4 DEF WorldInv, TypeOK, Place
<1>10. TurnFits(h)'
  BY <1>1, <1>2, <1>7, ControlFacts DEF TurnFits
<1>11. \A d \in Clients : TargetIsNew(d)'
  <2>1. \A y \in Characters : ~Elects(h, y)
    BY <1>7 DEF Elects
  <2>2. \A y \in Characters : Expects(h, y) => Expects(run[c], y)
    BY <1>2, <1>7 DEF Expects
  <2>3. \A y \in Characters, n \in Instances : y \in Inside(n)' => y \in Inside(n)
    BY <1>1 DEF Inside
  <2>4. \A n \in Instances : map[n] # None => map'[n] = map[n]
    BY <1>1 DEF system
  <2> QED
    BY <1>7, <1>8, <2>1, <2>2, <2>3, <2>4, TargetsKeep
<1>12. PlacedHaveIds'
  BY <1>9, ControlFacts DEF PlacedHaveIds
<1>13. ASSUME NEW y \in Characters, NEW n \in Instances, y \in Inside(n),
              map[n] \notin {None, Town}, zone'[y] = n
       PROVE  zone[y] = n
  <2>1. CASE y = x
    <3>1. n = run[c].to /\ n # None /\ map[n] # Town
      BY <1>3, <1>9, <1>13, <2>1, Basics
    <3>2. Expects(run[c], x)
      BY <1>2 DEF Expects
    <3> QED
      BY <1>13, <2>1, <3>1, <3>2, ControlFacts DEF TargetIsNew, IsDungeon
  <2>2. CASE y # x
    BY <1>9, <1>13, <2>2
  <2> QED
    BY <2>1, <2>2
<1>14. \A n \in Instances : Alive(n)' => Alive(n) \/ map[n] = None
  <2>1. h.old # None => Alive(h.old)
    BY <1>7, HeldIsAlive
  <2>2. h.to # None => Alive(h.to)
    BY <1>7, HeldIsAlive
  <2> QED
    BY <1>1, <1>8, <2>1, <2>2, AliveKeeps DEF system
<1>15. \A y \in Characters : h.chr = y => RemovalFits(y, h)'
  BY <1>7 DEF RemovalFits
<1>16. \A y \in Characters : run[c].chr # y => zone'[y] = zone[y] /\ oid'[y] = oid[y]
  BY <1>2, <1>9
<1>17. UNCHANGED <<conn, confirms, map>>
  BY <1>1 DEF clients, system
<1> QED
  BY <1>1, <1>8, <1>10, <1>11, <1>12, <1>13, <1>14, <1>15, <1>16, <1>17, NeutralKeeps DEF Watch

\* A character of a client with one authority is its only one.
LEMMA OnlyCharacter ==
  ASSUME WorldInv, NEW x \in Characters, Made(x), confirms[ClientOf(x)] = 1
  PROVE  x = <<ClientOf(x), 1>> /\ ClientOf(x) \in Clients
BY WorldAssumption DEF Made, Characters, ClientOf

\* Every entry is one of a character that was made, in a zone that was created.
LEMMA EntryFacts ==
  ASSUME WorldInv, NEW z \in Instances, NEW e \in chrs[z]
  PROVE  /\ e \in Entries /\ e.oid \in Nat /\ e.chr \in Characters /\ e.chr \in Inside(z)
         /\ Made(e.chr) /\ map[z] # None
<1>1. e \in Entries /\ e.oid \in Nat /\ e.chr \in Characters /\ e.chr \in Inside(z)
  BY DEF WorldInv, TypeOK, Entries, Inside
<1> QED
  BY <1>1 DEF WorldInv, CharactersMade, ZonesMade

\* A step after which other entries may have other controllers.
LEMMA RolesKeep ==
  ASSUME WorldInv, ControlInv, NEW c \in Clients, NEW h \in Handlers, Becomes(c, h), Watch,
         UNCHANGED <<clients, characters, system>>, TurnFits(h), \A d \in Clients : TargetIsNew(d)',
         OnlyDungeons', Vacant', ControllerInside', \A z \in Instances : Alive(z)' => Alive(z),
         ~contended' =>
             /\ \A x \in Characters : h.chr = x => RemovalFits(x, h)'
             /\ ToldControls' /\ ControllerTold'
  PROVE  ControlInv'
<1>1. run'[c] = h /\ \A d \in Clients : d # c => run'[d] = run[d]
  BY RunStep DEF WorldInv
<1>2. UNCHANGED <<zone, oid, map>>
  BY DEF characters, system
<1>3. \A d \in Clients : TurnFits(run[d])'
  BY <1>1, <1>2, ControlFacts DEF TurnFits
<1>4. PlacedHaveIds'
  BY <1>2, ControlFacts DEF PlacedHaveIds
<1>5. ASSUME ~contended'
      PROVE  RemovalsFit'
  BY <1>2, <1>5, RemovalsKeep DEF Watch
<1> QED
  BY <1>3, <1>4, <1>5 DEF ControlInv

\* The copy of the characters to elect from has everybody who is in the dungeon.
LEMMA CopyControl ==
  ASSUME WorldInv, ControlInv, NEW c \in Clients, Step(c), CopyCharacters(c)
  PROVE  ControlInv'
<1>1. /\ UNCHANGED <<clients, characters, system, zones>> /\ Watch
      /\ run[c].step = "copy" /\ run[c].old \in Instances
  BY HandlerFacts DEF CopyCharacters, At, Shape, Step
<1>2. PICK x \in Characters : run[c].chr = x
  BY <1>1, HandlerFacts, HandlerType DEF WorldInv, Shape, Moving
<1>3. PICK copy \in SUBSET Characters : copy = Inside(run[c].old)
  <2>1. \A e \in chrs[run[c].old] : e.chr \in Characters
    BY <1>1, EntryFacts
  <2> QED
    BY <2>1 DEF Inside
<1>4. run' = [run EXCEPT ![c].step = "elect", ![c].copy = copy]
  BY <1>3 DEF CopyCharacters, GotoWith
<1>5. PICK h \in Handlers : h = [run[c] EXCEPT !.step = "elect", !.copy = copy]
  BY HandlerIn DEF Handlers, Steps
<1>6. /\ h.step = "elect" /\ h.job = run[c].job /\ h.chr = x /\ h.copy = copy
      /\ h.old = run[c].old /\ h.to = run[c].to /\ h.todo = run[c].todo
  BY <1>2, <1>5, HandlerIn DEF Handlers
<1>7. Becomes(c, h)
  BY <1>4, <1>5 DEF Becomes
<1>8. run'[c] = h /\ \A d \in Clients : d # c => run'[d] = run[d]
  BY <1>7, RunStep DEF WorldInv
<1>9. TurnFits(h)
  BY <1>1, <1>2, <1>6, ControlFacts DEF TurnFits
<1>10. UNCHANGED <<conn, confirms, zone, oid, map, maps_, chrs, controller, told>>
  BY <1>1 DEF clients, characters, system, zones
<1>11. \A d \in Clients : TargetIsNew(d)'
  <2>1. \A y \in Characters : Elects(h, y) => y \in Inside(h.old)
    BY <1>3, <1>6 DEF Elects
  <2>2. \A y \in Characters : Expects(h, y) => Expects(run[c], y)
    BY <1>2, <1>6 DEF Expects
  <2>3. \A y \in Characters, n \in Instances : y \in Inside(n)' => y \in Inside(n)
    BY <1>10 DEF Inside
  <2> QED
    BY <1>6, <1>7, <1>10, <2>1, <2>2, <2>3, TargetsKeep
<1>12. \A n \in Instances : Alive(n)' => Alive(n)
  <2>1. h.old # None => Alive(h.old)
    BY <1>6, HeldIsAlive
  <2>2. h.to # None => Alive(h.to)
    BY <1>6, HeldIsAlive
  <2> QED
    BY <1>7, <1>10, <2>1, <2>2, AliveKeeps
<1>13. Vacant'
  <2> SUFFICES ASSUME NEW z \in Instances, map[z] \notin {None, Town}, controller[z] = None,
                      NEW y \in Inside(z)
               PROVE  Hopeless(y, z)' \/ Waits(y, z)'
    BY <1>10 DEF Vacant, Inside
  <2>1. Hopeless(y, z) \/ Waits(y, z)
    BY ControlFacts DEF Vacant
  <2>2. CASE Hopeless(y, z)
    BY <1>10, <2>2 DEF Hopeless, Stored
  <2>3. CASE Waits(y, z)
    <3>1. PICK d \in Clients : run[d].old = z /\ (run[d].step = "copy" \/ Elects(run[d], y))
      BY <2>3 DEF Waits
    <3>2. CASE d = c
      <4>1. h.old = z /\ Elects(h, y)
        BY <1>3, <1>6, <3>1, <3>2 DEF Elects
      <4> QED
        BY <1>8, <4>1 DEF Waits
    <3>3. CASE d # c
      BY <1>8, <3>1, <3>3 DEF Waits
    <3> QED
      BY <3>2, <3>3
  <2> QED
    BY <2>1, <2>2, <2>3
<1>14. OnlyDungeons' /\ ControllerInside'
  BY <1>1, <1>10, ControlFacts DEF OnlyDungeons, ControllerInside, Watch
<1>15. ASSUME ~contended'
       PROVE  /\ \A y \in Characters : h.chr = y => RemovalFits(y, h)'
              /\ ToldControls' /\ ControllerTold'
  <2>1. ~contended
    BY <1>1, <1>15 DEF Watch
  <2>2. RemovalFits(x, h)
    BY <1>1, <1>2, <1>6, <2>1, ControlFacts DEF RemovalsFit, RemovalFits
  <2>3. \A y \in Characters : h.chr = y => RemovalFits(y, h)'
    BY <1>6, <1>10, <1>12, <2>2, RemovalStays
  <2>4. \A d \in Clients : confirms'[d] \in {confirms[d], confirms[d] + 1}
    BY <1>10
  <2>5. ToldControls' /\ ControllerTold'
    BY <1>10, <1>12, <2>1, <2>4, ToldKeeps
  <2> QED
    BY <2>3, <2>5
<1> QED
  BY <1>1, <1>7, <1>9, <1>11, <1>12, <1>13, <1>14, <1>15, RolesKeep

\* Who is removed: its entry is erased, and it controls nothing after that.
LEMMA EraseControl ==
  ASSUME WorldInv, ControlInv, NEW c \in Clients, Step(c), Erase(c)
  PROVE  ControlInv'
<1>1. /\ UNCHANGED <<clients, characters, system>> /\ Watch
      /\ run[c].step = "erase" /\ run[c].old \in Instances
  BY HandlerFacts DEF Erase, At, Shape, Step
<1>2. PICK x \in Characters : run[c].chr = x
  BY <1>1, HandlerFacts, HandlerType DEF WorldInv, Shape, Moving
<1>3. PICK z \in Instances : z = run[c].old /\ Alive(z)
  BY <1>1, HeldIsAlive, Basics
<1>4. PICK i \in Nat \union {None} : i = run[c].oid
  BY HandlerType DEF WorldInv
<1>5. PICK controls \in BOOLEAN : controls <=> map[z] # Town /\ controller[z] = i
  OBVIOUS
<1>6. PICK step \in {"copy", "clear", "place"} :
          /\ controls => step = "copy"
          /\ ~controls => step # "copy"
          /\ run' = [run EXCEPT ![c].step = step, ![c].copy = {}]
  BY <1>3, <1>4, <1>5 DEF Erase, GotoWith, AfterRemove, IsDungeon
<1>7. PICK h \in Handlers : h = [run[c] EXCEPT !.step = step, !.copy = {}]
  <2>1. run[c] \in Handlers /\ step \in Steps
    BY HandlerIn DEF Steps
  <2> QED
    BY <2>1 DEF Handlers
<1>8. /\ h.step = step /\ h.job = run[c].job /\ h.chr = x
      /\ h.old = z /\ h.to = run[c].to /\ h.todo = run[c].todo
  BY <1>2, <1>3, <1>7, HandlerIn DEF Handlers
<1>9. Becomes(c, h)
  BY <1>6, <1>7 DEF Becomes
<1>10. run'[c] = h /\ \A d \in Clients : d # c => run'[d] = run[d]
  BY <1>9, RunStep DEF WorldInv
<1>11. \A n \in Instances :
           /\ chrs'[n] = IF n = z THEN {e \in chrs[n] : e.oid # i} ELSE chrs[n]
           /\ controller'[n] = IF n = z /\ controls THEN None ELSE controller[n]
  BY <1>3, <1>4, <1>5 DEF WorldInv, TypeOK, Erase, IsDungeon
<1>12. TurnFits(h)
  BY <1>1, <1>2, <1>5, <1>6, <1>8, ControlFacts DEF TurnFits
<1>13. \A d \in Clients : TargetIsNew(d)'
  <2>1. \A y \in Characters : ~Elects(h, y)
    BY <1>8 DEF Elects
  <2>2. \A y \in Characters : Expects(h, y) => Expects(run[c], y)
    BY <1>2, <1>8 DEF Expects
  <2>3. \A y \in Characters, n \in Instances : y \in Inside(n)' => y \in Inside(n)
    BY <1>11 DEF Inside
  <2>4. \A n \in Instances : map[n] # None => map'[n] = map[n]
    BY <1>1 DEF system
  <2> QED
    BY <1>8, <1>9, <2>1, <2>2, <2>3, <2>4, TargetsKeep
<1>14. \A n \in Instances : Alive(n)' => Alive(n)
  <2>1. h.to # None => Alive(h.to)
    BY <1>8, HeldIsAlive
  <2>2. maps_' \subseteq maps_
    BY <1>1 DEF system
  <2> QED
    BY <1>3, <1>8, <1>9, <2>1, <2>2, AliveKeeps
<1>15. UNCHANGED <<conn, confirms, zone, oid, map, maps_>>
  BY <1>1 DEF clients, characters, system
<1>16. OnlyDungeons'
  BY <1>11, <1>15, ControlFacts DEF OnlyDungeons
<1>17. Vacant'
  <2> SUFFICES ASSUME NEW n \in Instances, map[n] \notin {None, Town}, controller'[n] = None,
                      NEW y \in Inside(n)'
               PROVE  Hopeless(y, n)' \/ Waits(y, n)'
    BY <1>15 DEF Vacant
  <2>1. CASE n = z /\ controls
    BY <1>6, <1>8, <1>10, <2>1 DEF Waits
  <2>2. CASE ~(n = z /\ controls)
    <3>1. controller[n] = None /\ y \in Inside(n)
      BY <1>11, <2>2 DEF Inside
    <3>2. Hopeless(y, n) \/ Waits(y, n)
      BY <3>1, ControlFacts DEF Vacant
    <3>3. CASE Hopeless(y, n)
      BY <1>15, <3>3 DEF Hopeless, Stored
    <3>4. CASE Waits(y, n)
      BY <1>1, <1>10, <3>4 DEF Waits, Elects
    <3> QED
      BY <3>2, <3>3, <3>4
  <2> QED
    BY <2>1, <2>2
<1>18. ControllerInside'
  <2> SUFFICES ASSUME ~contended', NEW n \in Instances, controller'[n] # None
               PROVE  \E e \in chrs'[n] : e.oid = controller'[n]
    BY DEF ControllerInside
  <2>1. controller'[n] = controller[n] /\ ~(n = z /\ controls)
    BY <1>11
  <2>2. PICK e \in chrs[n] : e.oid = controller[n]
    BY <1>1, <2>1, ControlFacts DEF ControllerInside, Watch
  <2>3. n = z => controller[n] # i
    BY <1>5, <2>1, ControlFacts DEF OnlyDungeons
  <2> QED
    BY <1>11, <2>1, <2>2, <2>3
<1>19. ASSUME ~contended'
       PROVE  /\ \A y \in Characters : h.chr = y => RemovalFits(y, h)'
              /\ ToldControls' /\ ControllerTold'
  <2>1. ~contended
    BY <1>1, <1>19 DEF Watch
  <2>2. RemovalFits(x, run[c]) /\ IsLeaving(x, c)
    BY <1>1, <1>2, <2>1, ControlFacts, HandlerFacts DEF RemovalsFit, MoveFits
  <2>3. run[c].copy = {x} /\ zone[x] = None
    BY <1>1, <2>2 DEF RemovalFits
  <2>4. \A y \in Characters : h.chr = y => RemovalFits(y, h)'
    BY <1>8, <1>15, <2>3 DEF RemovalFits, ZoneOf
  <2>5. ToldControls /\ ControllerTold
    BY <2>1, ControlFacts
  <2>6. \A d \in Clients : told'[d] = IF controls /\ d = ClientOf(x) THEN FALSE ELSE told[d]
    BY <1>3, <1>4, <1>5, <2>3 DEF Erase, Tell, IsDungeon
  <2>7. /\ \A e \in chrs[z] : e.oid = i <=> e.chr = x
        /\ \A n \in Instances : Alive(n) /\ n # z => x \notin Inside(n)
    <3>1. \A e \in chrs[z] : e.chr = x => e.oid = i
      BY <1>3, <1>4, <2>2 DEF IsLeaving
    <3>2. PICK f \in chrs[z] : f.chr = x /\ f.oid = i
      BY <1>3, <1>4, <2>2, <3>1 DEF IsLeaving, Inside
    <3>3. \A e \in chrs[z] : e.oid = i => e.chr = x
      BY <3>2 DEF WorldInv, IdsUnique
    <3> QED
      BY <1>3, <2>2, <3>1, <3>3 DEF IsLeaving
  <2>8. ToldControls'
    <3> SUFFICES ASSUME NEW d \in Clients
                 PROVE  /\ confirms[d] = 0 => ~told'[d]
                        /\ confirms[d] = 1 /\ told'[d] =>
                               \E n \in Instances : \E e \in chrs'[n] :
                                   e.chr = <<d, 1>> /\ (controller'[n] = e.oid \/ ~Alive(n)')
      BY <1>15 DEF ToldControls
    <3>1. confirms[d] = 0 => ~told'[d]
      BY <2>5, <2>6 DEF ToldControls
    <3>2. ASSUME confirms[d] = 1, told'[d]
          PROVE  \E n \in Instances : \E e \in chrs'[n] :
                     e.chr = <<d, 1>> /\ (controller'[n] = e.oid \/ ~Alive(n)')
      <4>1. told[d] /\ ~(controls /\ d = ClientOf(x))
        BY <2>6, <3>2
      <4>2. PICK n \in Instances :
                \E e \in chrs[n] : e.chr = <<d, 1>> /\ (controller[n] = e.oid \/ ~Alive(n))
        BY <2>5, <3>2, <4>1 DEF ToldControls
      <4>3. PICK e \in chrs[n] : e.chr = <<d, 1>> /\ (controller[n] = e.oid \/ ~Alive(n))
        BY <4>2
      <4>4. e.oid \in Nat /\ map[n] # None
        BY EntryFacts
      <4>5. ~(n = z /\ e.oid = i)
        <5>1. ASSUME n = z, e.oid = i
              PROVE  FALSE
          <6>1. x = <<d, 1>> /\ controller[z] = i
            BY <1>3, <2>7, <4>3, <5>1
          <6>2. controls
            BY <1>5, <4>4, <5>1, <6>1, Basics, ControlFacts DEF OnlyDungeons
          <6> QED
            BY <4>1, <6>1, <6>2 DEF ClientOf
        <5> QED
          BY <5>1
      <4>6. e \in chrs'[n]
        BY <1>11, <4>5
      <4>7. ~Alive(n) => ~Alive(n)'
        BY <1>14
      <4>8. controller[n] = e.oid => controller'[n] = e.oid
        BY <1>5, <1>11, <4>5
      <4> QED
        BY <4>3, <4>6, <4>7, <4>8
    <3> QED
      BY <3>1, <3>2
  <2>9. ControllerTold'
    <3> SUFFICES ASSUME NEW n \in Instances, Alive(n)', NEW e \in chrs'[n],
                        confirms[ClientOf(e.chr)] = 1, controller'[n] = e.oid
                 PROVE  told'[ClientOf(e.chr)]
      BY <1>15 DEF ControllerTold
    <3>1. e \in chrs[n] /\ Alive(n) /\ (n = z => e.oid # i)
      BY <1>11, <1>14
    <3>2. e.oid \in Nat /\ e.chr \in Characters /\ Made(e.chr) /\ e.chr \in Inside(n)
      BY <3>1, EntryFacts
    <3>3. controller[n] = e.oid
      BY <1>11, <3>2, Basics
    <3>4. told[ClientOf(e.chr)]
      BY <2>5, <3>1, <3>3 DEF ControllerTold
    <3>5. e.chr # x
      BY <2>7, <3>1, <3>2
    <3>6. ClientOf(e.chr) # ClientOf(x) /\ ClientOf(e.chr) \in Clients
      <4>1. Made(x)
        BY <1>2, HandlerFacts, Basics
      <4> QED
        BY <3>2, <3>5, <4>1, OnlyCharacter
    <3> QED
      BY <2>6, <3>4, <3>6
  <2> QED
    BY <2>4, <2>8, <2>9
<1> QED
  BY <1>1, <1>9, <1>12, <1>13, <1>14, <1>16, <1>17, <1>18, <1>19, RolesKeep

\* Who enters a dungeon that has no controller controls it.
LEMMA EmplaceControl ==
  ASSUME WorldInv, ControlInv, NEW c \in Clients, Step(c), Emplace(c)
  PROVE  ControlInv'
<1>1. /\ UNCHANGED <<clients, characters, system>> /\ Watch
      /\ run[c].step = "emplace" /\ run[c].to \in Instances /\ run[c].oid \in Nat
      /\ run[c].job # "close"
  BY HandlerFacts DEF Emplace, At, Shape, Step
<1>2. PICK x \in Characters : run[c].chr = x
  BY <1>1, HandlerFacts, HandlerType DEF WorldInv, Shape, Moving
<1>3. PICK z \in Instances : z = run[c].to /\ Alive(z) /\ map[z] # None
  BY <1>1, HeldIsAlive, AliveIsMade, Basics
<1>4. PICK i \in Nat : i = run[c].oid
  BY <1>1
<1>5. PICK controls \in BOOLEAN : controls <=> map[z] # Town /\ controller[z] = None
  OBVIOUS
<1>6. PICK new \in Entries : new = [oid |-> i, chr |-> x] /\ new.oid = i /\ new.chr = x
  <2>1. [oid |-> i, chr |-> x] \in Entries
    BY DEF Entries
  <2> QED
    BY <2>1
<1>7. \E h \in Handlers :
          /\ Becomes(c, h)
          /\ h.chr = None
          /\ \/ h = NoHandler
             \/ /\ h.step = "next" /\ h.job = run[c].job /\ h.job # "confirm"
                /\ h.old = run[c].old /\ h.to = z /\ h.todo = run[c].todo
  <2>1. CASE run[c].job = "confirm"
    BY <2>1, NoHandlerType DEF Emplace, Finish, Becomes
  <2>2. CASE run[c].job # "confirm"
    <3>1. PICK h \in Handlers : h = [run[c] EXCEPT !.step = "next", !.chr = None, !.oid = None]
      <4>1. run[c] \in Handlers /\ "next" \in Steps
        BY HandlerIn DEF Steps
      <4> QED
        BY <4>1 DEF Handlers
    <3>2. /\ h.step = "next" /\ h.job = run[c].job /\ h.chr = None
          /\ h.old = run[c].old /\ h.to = z /\ h.todo = run[c].todo
      BY <1>3, <3>1, HandlerIn DEF Handlers
    <3>3. Becomes(c, h)
      BY <2>2, <3>1 DEF Emplace, Becomes
    <3> QED
      BY <2>2, <3>2, <3>3
  <2> QED
    BY <2>1, <2>2
<1>8. PICK h \in Handlers :
          /\ Becomes(c, h)
          /\ h.chr = None
          /\ \/ h = NoHandler
             \/ /\ h.step = "next" /\ h.job = run[c].job /\ h.job # "confirm"
                /\ h.old = run[c].old /\ h.to = z /\ h.todo = run[c].todo
  BY <1>7
<1>9. run'[c] = h /\ \A d \in Clients : d # c => run'[d] = run[d]
  BY <1>8, RunStep DEF WorldInv
<1>10. h.step \in {"idle", "next"} /\ h.job # "close" /\ \A y \in Characters : h.chr # y
  BY <1>1, <1>8, NoHandlerType, Basics
<1>11. \A n \in Instances :
           /\ chrs'[n] = IF n = z THEN chrs[n] \union {new} ELSE chrs[n]
           /\ controller'[n] = IF n = z /\ controls THEN i ELSE controller[n]
  BY <1>2, <1>3, <1>4, <1>5, <1>6 DEF WorldInv, TypeOK, Emplace, IsDungeon
<1>12. UNCHANGED <<conn, confirms, zone, oid, map, maps_>>
  BY <1>1 DEF clients, characters, system
<1>13. TurnFits(h)
  BY <1>8, <1>10, NoHandlerType DEF TurnFits
<1>14. \A d \in Clients : TargetIsNew(d)'
  <2>1. \A y \in Characters : ~Elects(h, y)
    BY <1>10 DEF Elects
  <2>2. \A y \in Characters : Expects(h, y) => y # x /\ Expects(run[c], y)
    <3>1. /\ run[c].job = "change" => x \notin run[c].todo
          /\ run[c].job = "party" => ClientOf(x) \notin run[c].todo
      BY <1>2, ControlFacts DEF TurnFits
    <3> QED
      BY <1>8, <1>10, <3>1, NoHandlerType DEF Expects
  <2>3. \A y \in Characters, n \in Instances : y \in Inside(n)' =>
            y \in Inside(n) \/ (n = run[c].to /\ ~Expects(h, y))
    <3> SUFFICES ASSUME NEW y \in Characters, NEW n \in Instances, y \in Inside(n)', y \notin Inside(n)
                 PROVE  n = z /\ y = x
      BY <1>3, <2>2
    <3> QED
      BY <1>6, <1>11 DEF Inside
  <2>4. h.to = None \/ h.to = run[c].to
    BY <1>3, <1>8, NoHandlerType
  <2> QED
    BY <1>8, <1>12, <2>1, <2>2, <2>3, <2>4, TargetsKeep
<1>15. \A n \in Instances : Alive(n)' => Alive(n)
  <2>1. h.old # None => Alive(h.old)
    BY <1>8, NoHandlerType, HeldIsAlive
  <2>2. h.to # None => Alive(h.to)
    BY <1>3, <1>8, NoHandlerType
  <2> QED
    BY <1>8, <1>12, <2>1, <2>2, AliveKeeps
<1>16. OnlyDungeons'
  BY <1>3, <1>5, <1>11, <1>12, ControlFacts DEF OnlyDungeons
<1>17. Vacant'
  <2> SUFFICES ASSUME NEW n \in Instances, map[n] \notin {None, Town}, controller'[n] = None,
                      NEW y \in Inside(n)'
               PROVE  Hopeless(y, n)' \/ Waits(y, n)'
    BY <1>12 DEF Vacant
  <2>1. n # z /\ controller[n] = None
    BY <1>5, <1>11, Basics
  <2>2. y \in Inside(n)
    BY <1>11, <2>1 DEF Inside
  <2>3. Hopeless(y, n) \/ Waits(y, n)
    BY <2>1, <2>2, ControlFacts DEF Vacant
  <2>4. CASE Hopeless(y, n)
    BY <1>12, <2>4 DEF Hopeless, Stored
  <2>5. CASE Waits(y, n)
    BY <1>1, <1>9, <2>5 DEF Waits, Elects
  <2> QED
    BY <2>3, <2>4, <2>5
<1>18. ControllerInside'
  <2> SUFFICES ASSUME ~contended', NEW n \in Instances, controller'[n] # None
               PROVE  \E e \in chrs'[n] : e.oid = controller'[n]
    BY DEF ControllerInside
  <2>1. CASE n = z /\ controls
    BY <1>6, <1>11, <2>1
  <2>2. CASE ~(n = z /\ controls)
    <3>1. controller'[n] = controller[n]
      BY <1>11, <2>2
    <3>2. PICK e \in chrs[n] : e.oid = controller[n]
      BY <1>1, <3>1, ControlFacts DEF ControllerInside, Watch
    <3> QED
      BY <1>11, <3>1, <3>2
  <2> QED
    BY <2>1, <2>2
<1>19. ASSUME ~contended'
       PROVE  ToldControls' /\ ControllerTold'
  <2>1. ~contended
    BY <1>1, <1>19 DEF Watch
  <2>2. ToldControls /\ ControllerTold /\ ControllerInside
    BY <2>1, ControlFacts
  <2>3. \A d \in Clients : told'[d] = IF controls /\ d = ClientOf(x) THEN TRUE ELSE told[d]
    BY <1>2, <1>3, <1>5 DEF Emplace, Tell, IsDungeon
  <2>4. \A e \in chrs[z] : e.oid # i
    <3>1. Enters(c, z, i)
      BY <1>1, <1>3, <1>4 DEF Enters
    <3> QED
      BY <3>1 DEF WorldInv, IdsUnique
  <2>5. Made(x)
    BY <1>2, HandlerFacts, Basics
  <2>6. ToldControls'
    <3> SUFFICES ASSUME NEW d \in Clients
                 PROVE  /\ confirms[d] = 0 => ~told'[d]
                        /\ confirms[d] = 1 /\ told'[d] =>
                               \E n \in Instances : \E e \in chrs'[n] :
                                   e.chr = <<d, 1>> /\ (controller'[n] = e.oid \/ ~Alive(n)')
      BY <1>12 DEF ToldControls
    <3>1. CASE controls /\ d = ClientOf(x)
      <4>1. confirms[d] # 0
        BY <2>5, <3>1 DEF Made, Characters, ClientOf
      <4>2. confirms[d] = 1 => new.chr = <<d, 1>>
        BY <1>6, <2>5, <3>1, OnlyCharacter
      <4>3. new \in chrs'[z] /\ controller'[z] = new.oid
        BY <1>6, <1>11, <3>1
      <4> QED
        BY <4>1, <4>2, <4>3
    <3>2. CASE ~(controls /\ d = ClientOf(x))
      <4>1. told'[d] = told[d]
        BY <2>3, <3>2
      <4>2. confirms[d] = 0 => ~told[d]
        BY <2>2 DEF ToldControls
      <4>3. ASSUME confirms[d] = 1, told[d]
            PROVE  \E n \in Instances : \E e \in chrs'[n] :
                       e.chr = <<d, 1>> /\ (controller'[n] = e.oid \/ ~Alive(n)')
        <5>1. PICK n \in Instances :
                  \E e \in chrs[n] : e.chr = <<d, 1>> /\ (controller[n] = e.oid \/ ~Alive(n))
          BY <2>2, <4>3 DEF ToldControls
        <5>2. PICK e \in chrs[n] : e.chr = <<d, 1>> /\ (controller[n] = e.oid \/ ~Alive(n))
          BY <5>1
        <5>3. e \in chrs'[n] /\ (~Alive(n) => ~Alive(n)')
          BY <1>11, <1>15
        <5>4. e.oid \in Nat
          BY EntryFacts
        <5>5. controller[n] = e.oid => controller'[n] = e.oid
          BY <1>5, <1>11, <5>4, Basics
        <5> QED
          BY <5>2, <5>3, <5>5
      <4> QED
        BY <4>1, <4>2, <4>3
    <3> QED
      BY <3>1, <3>2
  <2>7. ControllerTold'
    <3> SUFFICES ASSUME NEW n \in Instances, Alive(n)', NEW e \in chrs'[n],
                        confirms[ClientOf(e.chr)] = 1, controller'[n] = e.oid
                 PROVE  told'[ClientOf(e.chr)]
      BY <1>12 DEF ControllerTold
    <3>1. CASE n = z /\ e = new
      <4>1. controls
        <5>1. ASSUME ~controls
              PROVE  FALSE
          <6>1. controller[z] = i /\ i # None
            BY <1>6, <1>11, <3>1, <5>1, Basics
          <6> QED
            BY <2>1, <2>2, <2>4, <6>1 DEF ControllerInside
        <5> QED
          BY <5>1
      <4>2. ClientOf(e.chr) = ClientOf(x) /\ ClientOf(x) \in Clients
        BY <1>6, <3>1 DEF Characters, ClientOf
      <4> QED
        BY <2>3, <4>1, <4>2
    <3>2. CASE ~(n = z /\ e = new)
      <4>1. e \in chrs[n] /\ Alive(n)
        BY <1>11, <1>15, <3>2
      <4>2. controller[n] = e.oid
        BY <1>11, <2>4, <4>1
      <4>3. told[ClientOf(e.chr)]
        BY <2>2, <4>1, <4>2 DEF ControllerTold
      <4>4. ClientOf(e.chr) \in Clients
        BY <4>1, EntryFacts DEF Characters, ClientOf
      <4> QED
        BY <2>3, <4>3, <4>4
    <3> QED
      BY <3>1, <3>2
  <2> QED
    BY <2>6, <2>7
<1>20. \A y \in Characters : h.chr = y => RemovalFits(y, h)'
  BY <1>10
<1> QED
  BY <1>1, <1>8, <1>13, <1>14, <1>15, <1>16, <1>17, <1>18, <1>19, <1>20, RolesKeep

\* The handler after a step of an election.
LEMMA ElectTurn ==
  ASSUME WorldInv, NEW c \in Clients, NEW step \in Steps, NEW copy \in SUBSET Characters,
         run' = [run EXCEPT ![c] = [@ EXCEPT !.step = step, !.copy = copy]]
  PROVE  \E h \in Handlers :
            /\ Becomes(c, h)
            /\ h.job = run[c].job /\ h.to = run[c].to /\ h.todo = run[c].todo /\ h.chr = run[c].chr
            /\ h.old = run[c].old /\ h.step = step /\ h.copy = copy
<1>1. PICK h \in Handlers : h = [run[c] EXCEPT !.step = step, !.copy = copy]
  BY HandlerIn DEF Handlers
<1>2. /\ h.job = run[c].job /\ h.to = run[c].to /\ h.todo = run[c].todo /\ h.chr = run[c].chr
      /\ h.old = run[c].old /\ h.step = step /\ h.copy = copy
  BY <1>1, HandlerIn DEF Handlers
<1>3. Becomes(c, h)
  BY <1>1 DEF Becomes
<1> QED
  BY <1>2, <1>3

\* Who can be elected is in the dungeon, under the object id that it has.
LEMMA ElectedIsInside ==
  ASSUME WorldInv, ControlInv, ~contended, NEW c \in Clients, run[c].step = "elect",
         NEW z \in Instances, z = run[c].old, NEW y \in Characters, y \in run[c].copy, ZoneOf(y) = z
  PROVE  \E e \in chrs[z] : e.chr = y /\ e.oid = oid[y]
<1>1. zone[y] = z /\ Alive(z) /\ z # None /\ map[z] # Town
  BY HeldIsAlive, Basics, ControlFacts DEF TurnFits
<1>2. CASE Settled(y)
  <2>1. Consistent(y)
    BY <1>2 DEF WorldInv, PlacesFit
  <2> QED
    BY <1>1, <2>1 DEF Consistent, Inside
<1>3. CASE ~Settled(y)
  <2>1. PICK d \in Clients : run[d].chr = y
    BY <1>3 DEF Settled
  <2>2. MoveFits(y, d) /\ RemovalFits(y, run[d]) /\ run[d].step \in Moving
    BY <2>1, HandlerFacts, ControlFacts, Basics DEF RemovalsFit, Shape
  <2>3. CASE run[d].step \in {"leave", "close", "oid"}
    <3>1. Consistent(y)
      BY <2>2, <2>3 DEF MoveFits
    <3> QED
      BY <1>1, <3>1 DEF Consistent, Inside
  <2>4. CASE run[d].step \in {"find", "forget", "erase"}
    <3>1. IsLeaving(y, d) /\ oid[y] = run[d].oid /\ run[d].old = z
      BY <1>1, <2>2, <2>4 DEF MoveFits, RemovalFits
    <3> QED
      BY <1>1, <3>1 DEF IsLeaving, Inside
  <2>5. CASE run[d].step \in {"copy", "elect", "place", "clear"}
    BY <1>1, <2>2, <2>5 DEF RemovalFits
  <2>6. CASE run[d].step = "emplace"
    <3>1. run[d].to = z
      BY <1>1, <2>2, <2>6 DEF MoveFits
    <3>2. Expects(run[d], y) /\ Elects(run[c], y)
      BY <2>1 DEF Expects, Elects
    <3> QED
      BY <1>1, <3>1, <3>2, ControlFacts DEF TargetIsNew, IsDungeon
  <2> QED
    BY <2>2, <2>3, <2>4, <2>5, <2>6 DEF Moving
<1> QED
  BY <1>2, <1>3

\* A step of an election that leaves the roles as they are: who is passed over cannot be elected, or
\* there is a controller by now.
LEMMA PassControl ==
  ASSUME WorldInv, ControlInv, NEW c \in Clients, Watch, run[c].step = "elect",
         UNCHANGED <<clients, characters, system, chrs, controller, told>>,
         NEW step \in {"elect", "clear", "place"}, NEW copy \in SUBSET run[c].copy,
         run' = [run EXCEPT ![c] = [@ EXCEPT !.step = step, !.copy = copy]],
         controller[run[c].old] # None
             \/ \A y \in run[c].copy :
                    Hopeless(y, run[c].old) \/ (step = "elect" /\ y \in copy)
  PROVE  ControlInv'
<1>1. copy \in SUBSET Characters /\ step \in Steps
  BY HandlerType DEF WorldInv, Steps
<1>2. PICK h \in Handlers :
          /\ Becomes(c, h)
          /\ h.job = run[c].job /\ h.to = run[c].to /\ h.todo = run[c].todo /\ h.chr = run[c].chr
          /\ h.old = run[c].old /\ h.step = step /\ h.copy = copy
  BY <1>1, ElectTurn
<1>3. PICK x \in Characters : run[c].chr = x
  BY HandlerFacts, HandlerType DEF WorldInv, Shape, Moving
<1>4. run'[c] = h /\ \A d \in Clients : d # c => run'[d] = run[d]
  BY <1>2, RunStep DEF WorldInv
<1>5. TurnFits(h)
  BY <1>2, ControlFacts DEF TurnFits
<1>6. UNCHANGED <<conn, confirms, zone, oid, map, maps_>>
  BY DEF clients, characters, system
<1>7. \A d \in Clients : TargetIsNew(d)'
  <2>1. \A y \in Characters : Elects(h, y) => Elects(run[c], y) /\ h.old = run[c].old
    BY <1>2 DEF Elects
  <2>2. \A y \in Characters : Expects(h, y) => Expects(run[c], y)
    BY <1>2 DEF Expects
  <2>3. \A y \in Characters, n \in Instances : y \in Inside(n)' => y \in Inside(n)
    BY DEF Inside
  <2> QED
    BY <1>2, <1>6, <2>1, <2>2, <2>3, TargetsKeep
<1>8. \A n \in Instances : Alive(n)' => Alive(n)
  <2>1. h.old # None => Alive(h.old)
    BY <1>2, HeldIsAlive
  <2>2. h.to # None => Alive(h.to)
    BY <1>2, HeldIsAlive
  <2> QED
    BY <1>2, <1>6, <2>1, <2>2, AliveKeeps
<1>9. Vacant'
  <2> SUFFICES ASSUME NEW n \in Instances, map[n] \notin {None, Town}, controller[n] = None,
                      NEW y \in Inside(n)
               PROVE  Hopeless(y, n)' \/ Waits(y, n)'
    BY <1>6 DEF Vacant, Inside
  <2>1. Hopeless(y, n) \/ Waits(y, n)
    BY ControlFacts DEF Vacant
  <2>2. CASE Hopeless(y, n)
    BY <1>6, <2>2 DEF Hopeless, Stored
  <2>3. CASE Waits(y, n) /\ ~Hopeless(y, n)
    <3>1. PICK d \in Clients : run[d].old = n /\ (run[d].step = "copy" \/ Elects(run[d], y))
      BY <2>3 DEF Waits
    <3>2. CASE d = c
      <4>1. y \in run[c].copy /\ run[c].old = n
        BY <3>1, <3>2 DEF Elects
      <4>2. step = "elect" /\ y \in copy
        BY <2>3, <4>1
      <4> QED
        BY <1>2, <1>4, <4>1, <4>2 DEF Waits, Elects
    <3>3. CASE d # c
      BY <1>4, <3>1, <3>3 DEF Waits
    <3> QED
      BY <3>2, <3>3
  <2> QED
    BY <2>1, <2>2, <2>3
<1>10. OnlyDungeons' /\ ControllerInside'
  BY <1>6, ControlFacts DEF OnlyDungeons, ControllerInside, Watch
<1>11. ASSUME ~contended'
       PROVE  /\ \A y \in Characters : h.chr = y => RemovalFits(y, h)'
              /\ ToldControls' /\ ControllerTold'
  <2>1. ~contended
    BY <1>11 DEF Watch
  <2>2. RemovalFits(x, h)
    BY <1>2, <1>3, <2>1, ControlFacts DEF RemovalsFit, RemovalFits
  <2>3. \A y \in Characters : h.chr = y => RemovalFits(y, h)'
    BY <1>2, <1>3, <1>6, <1>8, <2>2, RemovalStays
  <2>4. \A d \in Clients : confirms'[d] \in {confirms[d], confirms[d] + 1}
    BY <1>6
  <2>5. ToldControls' /\ ControllerTold'
    BY <1>8, <2>1, <2>4, ToldKeeps
  <2> QED
    BY <2>3, <2>5
<1> QED
  BY <1>2, <1>5, <1>7, <1>8, <1>9, <1>10, <1>11, RolesKeep

\* Who is elected controls the dungeon, and is told so.
LEMMA ElectedControl ==
  ASSUME WorldInv, ControlInv, NEW c \in Clients, Watch, run[c].step = "elect",
         UNCHANGED <<clients, characters, system, chrs, last_object_id>>,
         NEW z \in Instances, z = run[c].old, NEW y \in Characters, y \in run[c].copy, ZoneOf(y) = z,
         controller[z] = None, controller' = [controller EXCEPT ![z] = oid[y]], Tell({y}, TRUE),
         NEW step \in {"clear", "place"},
         run' = [run EXCEPT ![c] = [@ EXCEPT !.step = step, !.copy = {}]]
  PROVE  ControlInv'
<1>1. PICK nobody \in SUBSET Characters : nobody = {}
  OBVIOUS
<1>2. PICK h \in Handlers :
          /\ Becomes(c, h)
          /\ h.job = run[c].job /\ h.to = run[c].to /\ h.todo = run[c].todo /\ h.chr = run[c].chr
          /\ h.old = run[c].old /\ h.step = step /\ h.copy = nobody
  <2>1. run' = [run EXCEPT ![c] = [@ EXCEPT !.step = step, !.copy = nobody]]
    BY <1>1
  <2>2. step \in Steps
    BY DEF Steps
  <2> QED
    BY <2>1, <2>2, ElectTurn
<1>3. PICK x \in Characters : run[c].chr = x
  BY HandlerFacts, HandlerType DEF WorldInv, Shape, Moving
<1>4. run'[c] = h /\ \A d \in Clients : d # c => run'[d] = run[d]
  BY <1>2, RunStep DEF WorldInv
<1>5. TurnFits(h)
  BY <1>2, ControlFacts DEF TurnFits
<1>6. UNCHANGED <<conn, confirms, zone, oid, map, maps_>>
  BY DEF clients, characters, system
<1>7. \A d \in Clients : TargetIsNew(d)'
  <2>1. \A v \in Characters : ~Elects(h, v)
    BY <1>2 DEF Elects
  <2>2. \A v \in Characters : Expects(h, v) => Expects(run[c], v)
    BY <1>2 DEF Expects
  <2>3. \A v \in Characters, n \in Instances : v \in Inside(n)' => v \in Inside(n)
    BY DEF Inside
  <2> QED
    BY <1>2, <1>6, <2>1, <2>2, <2>3, TargetsKeep
<1>8. \A n \in Instances : Alive(n)' => Alive(n)
  <2>1. h.old # None => Alive(h.old)
    BY <1>2, HeldIsAlive
  <2>2. h.to # None => Alive(h.to)
    BY <1>2, HeldIsAlive
  <2> QED
    BY <1>2, <1>6, <2>1, <2>2, AliveKeeps
<1>9. PICK i \in Nat : i = oid[y]
  <2>1. zone[y] # None
    BY HeldIsAlive, Basics
  <2> QED
    BY <2>1, ControlFacts DEF PlacedHaveIds
<1>10. \A n \in Instances : controller'[n] = IF n = z THEN i ELSE controller[n]
  BY <1>9 DEF WorldInv, TypeOK
<1>11. map[z] # Town /\ map[z] # None
  BY Basics, HeldIsAlive, AliveIsMade, ControlFacts DEF TurnFits
<1>12. OnlyDungeons'
  BY <1>6, <1>10, <1>11, ControlFacts DEF OnlyDungeons
<1>13. Vacant'
  <2> SUFFICES ASSUME NEW n \in Instances, map[n] \notin {None, Town}, controller'[n] = None,
                      NEW v \in Inside(n)
               PROVE  Hopeless(v, n)' \/ Waits(v, n)'
    BY <1>6 DEF Vacant, Inside
  <2>1. n # z /\ controller[n] = None
    BY <1>10, Basics
  <2>2. Hopeless(v, n) \/ Waits(v, n)
    BY <2>1, ControlFacts DEF Vacant
  <2>3. CASE Hopeless(v, n)
    BY <1>6, <2>3 DEF Hopeless, Stored
  <2>4. CASE Waits(v, n)
    BY <1>4, <2>1, <2>4 DEF Waits, Elects
  <2> QED
    BY <2>2, <2>3, <2>4
<1>14. ASSUME ~contended'
       PROVE  \E e \in chrs[z] : e.chr = y /\ e.oid = i
  BY <1>9, <1>14, ElectedIsInside DEF Watch
<1>15. ControllerInside'
  <2> SUFFICES ASSUME ~contended', NEW n \in Instances, controller'[n] # None
               PROVE  \E e \in chrs[n] : e.oid = controller'[n]
    BY DEF ControllerInside
  <2>1. CASE n = z
    BY <1>10, <1>14, <2>1
  <2>2. CASE n # z
    BY <1>10, <2>2, ControlFacts DEF ControllerInside, Watch
  <2> QED
    BY <2>1, <2>2
<1>16. ASSUME ~contended'
       PROVE  /\ \A v \in Characters : h.chr = v => RemovalFits(v, h)'
              /\ ToldControls' /\ ControllerTold'
  <2>1. ~contended
    BY <1>16 DEF Watch
  <2>2. RemovalFits(x, h)
    BY <1>2, <1>3, <2>1, ControlFacts DEF RemovalsFit, RemovalFits
  <2>3. \A v \in Characters : h.chr = v => RemovalFits(v, h)'
    BY <1>2, <1>3, <1>6, <1>8, <2>2, RemovalStays
  <2>4. ToldControls /\ ControllerTold
    BY <2>1, ControlFacts
  <2>5. \A d \in Clients : told'[d] = IF d = ClientOf(y) THEN TRUE ELSE told[d]
    BY DEF Tell
  <2>6. PICK f \in chrs[z] : f.chr = y /\ f.oid = i
    BY <1>14, <1>16
  <2>7. Made(y)
    BY <2>6, EntryFacts
  <2>8. ToldControls'
    <3> SUFFICES ASSUME NEW d \in Clients
                 PROVE  /\ confirms[d] = 0 => ~told'[d]
                        /\ confirms[d] = 1 /\ told'[d] =>
                               \E n \in Instances : \E e \in chrs[n] :
                                   e.chr = <<d, 1>> /\ (controller'[n] = e.oid \/ ~Alive(n)')
      BY <1>6 DEF ToldControls
    <3>1. CASE d = ClientOf(y)
      <4>1. confirms[d] # 0
        BY <2>7, <3>1 DEF Made, Characters, ClientOf
      <4>2. confirms[d] = 1 => f.chr = <<d, 1>>
        BY <2>6, <2>7, <3>1, OnlyCharacter
      <4> QED
        BY <1>10, <2>6, <4>1, <4>2
    <3>2. CASE d # ClientOf(y)
      <4>1. told'[d] = told[d]
        BY <2>5, <3>2
      <4>2. confirms[d] = 0 => ~told[d]
        BY <2>4 DEF ToldControls
      <4>3. ASSUME confirms[d] = 1, told[d]
            PROVE  \E n \in Instances : \E e \in chrs[n] :
                       e.chr = <<d, 1>> /\ (controller'[n] = e.oid \/ ~Alive(n)')
        <5>1. PICK n \in Instances :
                  \E e \in chrs[n] : e.chr = <<d, 1>> /\ (controller[n] = e.oid \/ ~Alive(n))
          BY <2>4, <4>3 DEF ToldControls
        <5>2. PICK e \in chrs[n] : e.chr = <<d, 1>> /\ (controller[n] = e.oid \/ ~Alive(n))
          BY <5>1
        <5>3. e.oid \in Nat /\ (~Alive(n) => ~Alive(n)')
          BY <1>8, EntryFacts
        <5>4. controller[n] = e.oid => controller'[n] = e.oid
          BY <1>10, <5>3, Basics
        <5> QED
          BY <5>2, <5>3, <5>4
      <4> QED
        BY <4>1, <4>2, <4>3
    <3> QED
      BY <3>1, <3>2
  <2>9. ControllerTold'
    <3> SUFFICES ASSUME NEW n \in Instances, Alive(n)', NEW e \in chrs[n],
                        confirms[ClientOf(e.chr)] = 1, controller'[n] = e.oid
                 PROVE  told'[ClientOf(e.chr)]
      BY <1>6 DEF ControllerTold
    <3>1. Alive(n) /\ ClientOf(e.chr) \in Clients
      BY <1>8, EntryFacts DEF Characters, ClientOf
    <3>2. CASE n = z
      <4>1. e.oid = f.oid
        BY <1>10, <2>6, <3>2
      <4>2. e = f
        BY <2>6, <3>2, <4>1 DEF WorldInv, IdsUnique
      <4> QED
        BY <2>5, <2>6, <3>1, <4>2
    <3>3. CASE n # z
      BY <1>10, <2>4, <2>5, <3>1, <3>3 DEF ControllerTold
    <3> QED
      BY <3>2, <3>3
  <2> QED
    BY <2>3, <2>8, <2>9
<1> QED
  BY <1>2, <1>5, <1>7, <1>8, <1>12, <1>13, <1>15, <1>16, RolesKeep

\* An election: it is over without anybody, with somebody, or goes on with the others.
LEMMA ElectControl ==
  ASSUME WorldInv, ControlInv, NEW c \in Clients, Step(c), Elect(c)
  PROVE  ControlInv'
<1>1. /\ UNCHANGED <<clients, characters, system, chrs, last_object_id>> /\ Watch
      /\ run[c].step = "elect"
  BY DEF Elect, At, Step
<1>2. PICK z \in Instances : z = run[c].old /\ Alive(z)
  BY <1>1, HandlerFacts, HeldIsAlive, Basics DEF Shape
<1>3. PICK r \in Handlers : r = run[c]
  BY HandlerIn
<1>4. PICK after \in {"clear", "place"} : after = AfterRemove(c)
  BY DEF AfterRemove
<1>5. CASE run[c].copy = {} /\ Goto(c, after) /\ UNCHANGED <<controller, told>>
  <2>1. [r EXCEPT !.step = after] = [r EXCEPT !.step = after, !.copy = {}]
    BY <1>3, <1>5 DEF Handlers
  <2>2. run' = [run EXCEPT ![c] = [r EXCEPT !.step = after]]
    BY <1>3, <1>5 DEF Goto
  <2>3. run' = [run EXCEPT ![c] = [@ EXCEPT !.step = after, !.copy = {}]]
    BY <1>3, <2>1, <2>2
  <2> QED
    BY <1>1, <1>5, <2>3, PassControl
<1>6. ASSUME NEW y \in run[c].copy, Electable(y, z), GotoWith(c, after, {}),
             controller' = [controller EXCEPT ![z] = IF @ = None THEN oid[y] ELSE @],
             Tell(IF controller[z] = None THEN {y} ELSE {}, TRUE)
      PROVE  ControlInv'
  <2>1. run' = [run EXCEPT ![c] = [@ EXCEPT !.step = after, !.copy = {}]]
    BY <1>6 DEF GotoWith
  <2>2. CASE controller[z] = None
    <3>1. y \in Characters /\ ZoneOf(y) = z
      BY <1>6, HandlerType DEF WorldInv, Electable
    <3>2. controller' = [controller EXCEPT ![z] = oid[y]] /\ Tell({y}, TRUE)
      BY <1>6, <2>2
    <3> QED
      BY <1>1, <1>2, <2>1, <2>2, <3>1, <3>2, ElectedControl
  <2>3. CASE controller[z] # None
    <3>1. UNCHANGED <<controller, told>>
      BY <1>6, <2>3 DEF Tell, WorldInv, TypeOK
    <3>2. PICK nobody \in SUBSET run[c].copy : nobody = {}
      OBVIOUS
    <3>3. run' = [run EXCEPT ![c] = [@ EXCEPT !.step = after, !.copy = nobody]]
      BY <2>1, <3>2
    <3>4. after \in {"elect", "clear", "place"} /\ controller[run[c].old] # None
      BY <1>2, <2>3
    <3> QED
      BY <1>1, <3>1, <3>3, <3>4, PassControl
  <2> QED
    BY <2>2, <2>3
<1>7. ASSUME NEW y \in run[c].copy, ~Electable(y, z), run' = [run EXCEPT ![c].copy = @ \ {y}],
             UNCHANGED <<controller, told>>
      PROVE  ControlInv'
  <2>1. PICK copy \in SUBSET run[c].copy : copy = run[c].copy \ {y}
    OBVIOUS
  <2>2. [r EXCEPT !.copy = copy] = [r EXCEPT !.step = "elect", !.copy = copy]
    BY <1>1, <1>3 DEF Handlers
  <2>3. run' = [run EXCEPT ![c] = [r EXCEPT !.copy = copy]]
    BY <1>3, <1>7, <2>1
  <2>4. run' = [run EXCEPT ![c] = [@ EXCEPT !.step = "elect", !.copy = copy]]
    BY <1>3, <2>2, <2>3
  <2>5. Hopeless(y, z)
    <3>1. y \in Characters
      BY <1>7, HandlerType DEF WorldInv
    <3> QED
      BY <1>2, <1>7, <3>1, Basics DEF Hopeless, Electable, Lives, ZoneOf
  <2>6. PICK step \in {"elect", "clear", "place"} : step = "elect"
    OBVIOUS
  <2>7. run' = [run EXCEPT ![c] = [@ EXCEPT !.step = step, !.copy = copy]]
    BY <2>4, <2>6
  <2>8. \A v \in run[c].copy : Hopeless(v, run[c].old) \/ (step = "elect" /\ v \in copy)
    BY <1>2, <2>1, <2>5, <2>6
  <2> QED
    BY <1>1, <1>7, <2>7, <2>8, PassControl
<1> QED
  BY <1>1, <1>2, <1>4, <1>5, <1>6, <1>7 DEF Elect

\* While no two handlers have moved it at once, a character has one entry in the zones that live.
LEMMA OneEntry ==
  ASSUME WorldInv, ~contended, NEW y \in Instances, NEW z \in Instances, Alive(y), Alive(z),
         NEW e \in chrs[y], NEW f \in chrs[z], e.chr = f.chr
  PROVE  y = z /\ e.oid = f.oid
<1>1. PICK x \in Characters : x = e.chr /\ x = f.chr /\ x \in Inside(y) /\ x \in Inside(z)
  BY EntryFacts
<1>2. CASE Settled(x)
  <2>1. Consistent(x)
    BY <1>2 DEF WorldInv, PlacesFit
  <2> QED
    BY <1>1, <2>1 DEF Consistent
<1>3. CASE ~Settled(x)
  <2>1. PICK d \in Clients : run[d].chr = x
    BY <1>3 DEF Settled
  <2>2. MoveFits(x, d) /\ run[d].step \in Moving
    BY <2>1, HandlerFacts, Basics DEF Shape
  <2>3. ~Nowhere(x)
    BY <1>1 DEF Nowhere
  <2>4. Consistent(x) \/ IsLeaving(x, d)
    BY <2>2, <2>3 DEF MoveFits, Moving
  <2> QED
    BY <1>1, <2>4 DEF Consistent, IsLeaving
<1> QED
  BY <1>2, <1>3

-----------------------------------------------------------------------------
(* The theorems.                                                           *)

\* Nobody is anywhere at the start.
LEMMA InitInv == Init => WorldInv
<1> SUFFICES ASSUME Init PROVE WorldInv
  OBVIOUS
<1>1. TypeOK
  <2>1. map \in [Instances -> Maps \union {None}] /\ maps_ \subseteq Instances
    BY Basics DEF Init
  <2>2. run \in [Clients -> Handlers]
    BY NoHandlerType DEF Init
  <2>3. confirms \in [Clients -> 0..MaxConfirms] /\ moves \in 0..MaxMoves
    BY WorldAssumption DEF Init
  <2> QED
    BY <2>1, <2>2, <2>3 DEF Init, TypeOK
<1>2. \A c \in Clients : HandlerFits(c)
  BY NoHandlerType DEF Init, HandlerFits, Shape, Moving
<1>3. CharactersMade /\ ZonesMade /\ IdsUnique /\ GoneHasNone
  <2>1. \A z \in Instances : chrs[z] = {} /\ Inside(z) = {}
    BY DEF Init, Inside
  <2>2. CharactersMade
    BY <2>1, NoHandlerType, Basics DEF Init, CharactersMade
  <2>3. ZonesMade
    BY <2>1, NoHandlerType, Basics DEF Init, ZonesMade
  <2>4. IdsUnique
    BY <2>1, NoHandlerType DEF Init, IdsUnique, Enters
  <2> QED
    BY <2>2, <2>3, <2>4 DEF Init, GoneHasNone
<1>4. ~Contention
  BY NoHandlerType DEF Init, Contention, At
<1>5. PlacesFit /\ LeftAlone
  <2>1. \A x \in Characters : Consistent(x)
    BY Basics DEF Init, Consistent, Inside
  <2>2. \A x \in Characters, c \in Clients : run[c].chr # x
    BY NoHandlerType, Basics DEF Init
  <2> QED
    BY <2>1, <2>2 DEF Init, PlacesFit, LeftAlone
<1> QED
  BY <1>1, <1>2, <1>3, <1>4, <1>5 DEF WorldInv

\* Every step of every handler and of the update thread keeps the invariant.
LEMMA StepInv ==
  ASSUME WorldInv, [Next]_vars
  PROVE  WorldInv'
<1>1. CASE UNCHANGED vars
  <2>1. UNCHANGED <<conn, character, confirms, moves, zone, oid, at_portal, map, maps_,
                    chrs, controller, told, last_object_id, run, contended>>
    BY <1>1 DEF vars, clients, characters, system, zones
  <2>2. TypeOK' /\ (\A c \in Clients : HandlerFits(c)') /\ GoneHasNone'
    BY <2>1 DEF WorldInv, TypeOK, HandlerFits, GoneHasNone
  <2>3. CharactersMade' /\ ZonesMade'
    BY <2>1 DEF WorldInv, CharactersMade, Made, Inside, ZonesMade
  <2>4. IdsUnique'
    BY <2>1 DEF WorldInv, IdsUnique, Enters
  <2>5. (Contention => contended)'
    BY <2>1 DEF WorldInv, Contention, At
  <2>6. ~contended' => LeftAlone'
    BY <2>1 DEF WorldInv, LeftAlone, Settled
  <2>7. ~contended' => PlacesFit'
    BY <2>1 DEF WorldInv, PlacesFit, Settled, Consistent, MoveFits, IsLeaving, Nowhere, Alive, Inside
  <2> QED
    BY <2>2, <2>3, <2>4, <2>5, <2>6, <2>7 DEF WorldInv
<1>2. ASSUME NEW c \in Clients, Event(c)
      PROVE  WorldInv'
  BY <1>2, ConnectionSteps, BeginSteps, OnCloseKeeps, HandleConfirmRequestKeeps DEF Event
<1>3. ASSUME NEW c \in Clients, Step(c)
      PROVE  WorldInv'
  <2>1. CASE Snapshot(c) \/ Check(c) \/ CreateTarget(c) \/ Done(c) \/ NextCharacter(c) \/ NextPlayer(c)
    BY <1>3, <2>1, CheckSteps, CreateTargetKeeps, DoneKeeps, NextKeeps DEF Step
  <2>2. CASE Leave(c) \/ Find(c) \/ Forget(c) \/ Erase(c) \/ CopyCharacters(c) \/ Elect(c)
    BY <1>3, <2>2, LeaveKeeps, FindKeeps, ForgetKeeps, EraseKeeps, ElectionSteps DEF Step
  <2>3. CASE Place(c) \/ Emplace(c) \/ ReadZone(c) \/ ReadObjectId(c) \/ Clear(c)
    BY <1>3, <2>3, PlaceSteps, EmplaceKeeps, ReadSteps, ClearKeeps DEF Step
  <2> QED
    BY <1>3, <2>1, <2>2, <2>3 DEF Step
<1>4. ASSUME NEW z \in Instances, Update(z)
      PROVE  WorldInv'
  BY <1>4, UpdateKeeps
<1> QED
  BY <1>1, <1>2, <1>3, <1>4 DEF Next

\* No dungeon has a controller at the start, and nobody was told that it is one.
LEMMA InitControl == Init => ControlInv
<1> SUFFICES ASSUME Init PROVE ControlInv
  OBVIOUS
<1>1. /\ \A c \in Clients : run[c] = NoHandler /\ ~told[c]
      /\ \A z \in Instances : chrs[z] = {} /\ controller[z] = None
      /\ \A x \in Characters : zone[x] = None
  BY DEF Init
<1>2. \A c \in Clients : TurnFits(run[c]) /\ TargetIsNew(c)
  BY <1>1, NoHandlerType, Basics DEF TurnFits, TargetIsNew
<1>3. OnlyDungeons /\ PlacedHaveIds /\ ControllerInside
  BY <1>1 DEF OnlyDungeons, PlacedHaveIds, ControllerInside
<1>4. Vacant /\ ToldControls /\ ControllerTold
  BY <1>1 DEF Vacant, Inside, ToldControls, ControllerTold
<1>5. RemovalsFit
  BY <1>1, NoHandlerType, Basics DEF RemovalsFit
<1> QED
  BY <1>2, <1>3, <1>4, <1>5 DEF ControlInv

\* Every step keeps what holds of the controllers.
LEMMA StepControl ==
  ASSUME WorldInv, ControlInv, [Next]_vars
  PROVE  ControlInv'
<1>0. WorldInv'
  BY StepInv
<1>1. CASE UNCHANGED vars
  BY <1>1, StayControl DEF vars, clients, characters, system
<1>2. ASSUME NEW c \in Clients, Event(c)
      PROVE  ControlInv'
  BY <1>2, EventControl
<1>3. ASSUME NEW c \in Clients, Step(c)
      PROVE  ControlInv'
  <2>1. CASE Snapshot(c) \/ Check(c) \/ CreateTarget(c) \/ Done(c) \/ NextCharacter(c) \/ NextPlayer(c)
    BY <1>0, <1>3, <2>1, CheckControl, CreateTargetControl, NextControl
  <2>2. CASE Leave(c) \/ Find(c) \/ Forget(c) \/ Erase(c) \/ CopyCharacters(c) \/ Elect(c)
    BY <1>3, <2>2, LeaveControl, ReadControl, ForgetControl, EraseControl, CopyControl, ElectControl
  <2>3. CASE Place(c) \/ Emplace(c) \/ ReadZone(c) \/ ReadObjectId(c) \/ Clear(c)
    BY <1>3, <2>3, PlaceControl, EmplaceControl, ReadControl, ClearControl
  <2> QED
    BY <1>3, <2>1, <2>2, <2>3 DEF Step
<1>4. ASSUME NEW z \in Instances, Update(z)
      PROVE  ControlInv'
  BY <1>4, StayControl DEF Update, EraseEmptyDungeon, Watch, clients, characters
<1> QED
  BY <1>1, <1>2, <1>3, <1>4 DEF Next

\* The invariant of the zones, however moves, closes and the update thread interleave.
THEOREM WorldInvariant == Spec => []WorldInv
BY InitInv, StepInv, PTL DEF Spec

\* The types of the zones' state: no zone beyond those created, no entry without a character.
THEOREM TypeCorrect == Spec => []TypeOK
<1>1. WorldInv => TypeOK
  BY DEF WorldInv
<1> QED
  BY <1>1, WorldInvariant, PTL

\* A character is in one zone at most, the one it points to, unless two handlers have moved it at once.
THEOREM CharactersAreInOneZone == Spec => []OneZone
<1>1. WorldInv => OneZone
  <2> SUFFICES ASSUME WorldInv, ~contended, NEW x \in Characters, Settled(x)
               PROVE  {z \in Instances : Alive(z) /\ x \in Inside(z)} = {ZoneOf(x)} \ {None}
    BY DEF OneZone
  <2>1. \A z \in Instances : Alive(z) => (x \in Inside(z) <=> zone[x] = z)
    BY DEF WorldInv, PlacesFit, Consistent
  <2>2. zone[x] \in Instances \union {None}
    BY DEF WorldInv, TypeOK
  <2> QED
    BY <2>1, <2>2, Basics DEF ZoneOf
<1> QED
  BY <1>1, WorldInvariant, PTL

\* A player whose OnClose is over has left every zone, unless two handlers have moved it at once.
THEOREM PlayersLeaveEveryZone == Spec => []GoneIsNowhere
<1>1. WorldInv => GoneIsNowhere
  <2> SUFFICES ASSUME WorldInv, ~contended, NEW c \in Clients, conn[c] = "gone", ~Busy(c),
                      confirms[c] = 1, Settled(<<c, 1>>), NEW z \in Instances, Alive(z)
               PROVE  <<c, 1>> \notin Inside(z)
    BY DEF GoneIsNowhere
  <2>1. run[c].job # "close"
    BY IdleHandler, NoHandlerType
  <2>2. character[c] = None
    BY <2>1 DEF WorldInv, GoneHasNone
  <2>3. zone[<<c, 1>>] = None
    BY <2>2 DEF WorldInv, LeftAlone
  <2>4. <<c, 1>> \in Characters
    BY WorldAssumption DEF WorldInv, TypeOK, Characters
  <2> QED
    BY <2>3, <2>4, Basics DEF WorldInv, PlacesFit, Consistent
<1> QED
  BY <1>1, WorldInvariant, PTL

\* What holds of the controllers, however elections, moves and closes interleave.
THEOREM ControlInvariant == Spec => []ControlInv
BY InitControl, StepControl, WorldInvariant, PTL DEF Spec

\* The controller of a dungeon is in it, a dungeon with a player in it gets one, and a player knows
\* whether it is one, unless it was put into a dungeon that has been dropped.
THEOREM ControllersAreRight == Spec => []Controllers
<1>1. WorldInv /\ ControlInv => Controllers
  <2> SUFFICES ASSUME WorldInv, ControlInv
               PROVE  Controllers
    OBVIOUS
  <2>1. ControllerElected
    <3> SUFFICES ASSUME NEW z \in Instances, map[z] \notin {None, Town},
                        \A c \in Clients : run[c].old # z /\ run[c].to # z,
                        NEW x \in Inside(z), ZoneOf(x) = z, Stored(ClientOf(x)), controller[z] = None
                 PROVE  FALSE
      BY DEF ControllerElected
    <3>1. Hopeless(x, z) \/ Waits(x, z)
      BY ControlFacts DEF Vacant
    <3>2. zone[x] = z
      BY Basics DEF ZoneOf
    <3> QED
      BY <3>1, <3>2 DEF Hopeless, Waits
  <2>2. ControllerKnows
    <3> SUFFICES ASSUME ~contended, NEW z \in Instances, Alive(z), NEW e \in chrs[z],
                        confirms[ClientOf(e.chr)] = 1
                 PROVE  /\ controller[z] = e.oid => told[ClientOf(e.chr)]
                        /\ told[ClientOf(e.chr)] => controller[z] = e.oid \/ Stranded(e.chr)
      BY DEF ControllerKnows
    <3>1. ToldControls /\ ControllerTold
      BY ControlFacts
    <3>2. e.chr = <<ClientOf(e.chr), 1>> /\ ClientOf(e.chr) \in Clients
      BY EntryFacts, OnlyCharacter
    <3>3. ASSUME told[ClientOf(e.chr)]
          PROVE  controller[z] = e.oid \/ Stranded(e.chr)
      <4>1. PICK n \in Instances :
                \E f \in chrs[n] : f.chr = e.chr /\ (controller[n] = f.oid \/ ~Alive(n))
        BY <3>1, <3>2, <3>3 DEF ToldControls
      <4>2. PICK f \in chrs[n] : f.chr = e.chr /\ (controller[n] = f.oid \/ ~Alive(n))
        BY <4>1
      <4>3. CASE Alive(n)
        BY <4>2, <4>3, OneEntry
      <4>4. CASE ~Alive(n)
        BY <4>2, <4>4 DEF Stranded, Inside
      <4> QED
        BY <4>3, <4>4
    <3> QED
      BY <3>1, <3>3 DEF ControllerTold
  <2> QED
    BY <2>1, <2>2, ControlFacts DEF Controllers
<1> QED
  BY <1>1, WorldInvariant, ControlInvariant, PTL

-----------------------------------------------------------------------------
(* Handlers end, and empty dungeons are left behind.                       *)

\* How far a step is from the end of the handler or of its turn for one character.
Height(step) ==
    CASE step = "snapshot" -> 16 [] step = "check" -> 15 [] step = "create" -> 14
      [] step = "close" -> 13 [] step = "oid" -> 12 [] step = "leave" -> 11 [] step = "find" -> 10
      [] step = "forget" -> 9 [] step = "erase" -> 8 [] step = "copy" -> 7 [] step = "elect" -> 6
      [] step = "place" -> 5 [] step = "emplace" -> 4 [] step = "next" -> 3 [] step = "clear" -> 2
      [] step = "down" -> 1 [] step = "idle" -> 0

\* A handler at q is nearer to its end than at r: it has ended, it has its snapshot, it has fewer
\* characters to move, it is further in its turn, or it has fewer characters to look at.
Fewer(s, t) == s \subseteq t /\ s # t
Nearer(q, r) ==
    \/ q.step = "idle" /\ r.step # "idle"
    \/ q.step # "snapshot" /\ r.step = "snapshot"
    \/ q.step # "snapshot" /\ Fewer(q.todo, r.todo)
    \/ q.todo = r.todo /\ Height(q.step) < Height(r.step)
    \/ q.todo = r.todo /\ q.step = r.step /\ Fewer(q.copy, r.copy)

\* Each step of a handler brings it nearer to its end, and nothing else moves it.
EachStepAdvances ==
    \A c \in Clients : /\ Step(c) => Nearer(run'[c], run[c])
                       /\ Busy(c) => run'[c] = run[c] \/ Nearer(run'[c], run[c])

\* The heights of the steps.
LEMMA Heights ==
    /\ Height("check") = 15 /\ Height("create") = 14 /\ Height("close") = 13 /\ Height("oid") = 12
    /\ Height("leave") = 11 /\ Height("find") = 10 /\ Height("forget") = 9 /\ Height("erase") = 8
    /\ Height("copy") = 7 /\ Height("elect") = 6 /\ Height("place") = 5 /\ Height("emplace") = 4
    /\ Height("next") = 3 /\ Height("clear") = 2 /\ Height("down") = 1
BY DEF Height

\* A handler that goes on to another step, with other local variables than what it has to do.
LEMMA GoesOnTo ==
  ASSUME TypeOK, NEW c \in Clients, NEW step, NEW other,
         \/ run' = [run EXCEPT ![c].step = step]
         \/ run' = [run EXCEPT ![c].step = step, ![c].copy = other]
         \/ run' = [run EXCEPT ![c].step = step, ![c].oid = other]
         \/ run' = [run EXCEPT ![c].step = step, ![c].old = other]
         \/ run' = [run EXCEPT ![c].step = step, ![c].to = other]
         \/ \E x : run' = [run EXCEPT ![c].step = step, ![c].old = other, ![c].oid = x]
         \/ \E x : run' = [run EXCEPT ![c].step = step, ![c].chr = other, ![c].oid = x],
         Height(step) < Height(run[c].step)
  PROVE  Nearer(run'[c], run[c])
<1>1. PICK r \in Handlers : r = run[c]
  BY HandlerType
<1>2. run'[c].step = step /\ run'[c].todo = r.todo
  BY <1>1 DEF TypeOK, Handlers
<1> QED
  BY <1>1, <1>2 DEF Nearer

\* Each step of a handler brings it nearer to its end.
LEMMA StepsGetNearer ==
  ASSUME WorldInv, NEW c \in Clients, Step(c)
  PROVE  Nearer(run'[c], run[c])
<1>0. TypeOK /\ Shape(run[c])
  BY DEF WorldInv, HandlerFits
<1>1. ASSUME Finish(c), run[c].step # "idle"
      PROVE  Nearer(run'[c], run[c])
  BY <1>0, <1>1, NoHandlerType DEF Finish, TypeOK, Nearer
<1>2. CASE Snapshot(c)
  BY <1>0, <1>2 DEF Snapshot, At, TypeOK, Handlers, Nearer
<1>3. ASSUME NEW x \in run[c].copy, run' = [run EXCEPT ![c].copy = @ \ {x}]
      PROVE  Nearer(run'[c], run[c])
  <2>1. run'[c].step = run[c].step /\ run'[c].todo = run[c].todo /\ run'[c].copy = run[c].copy \ {x}
    BY <1>0, <1>3 DEF TypeOK, Handlers
  <2> QED
    BY <2>1 DEF Nearer, Fewer
<1>4. CASE Check(c)
  <2>1. Height("create") < Height(run[c].step)
    BY <1>4, Heights DEF Check, At
  <2>2. Goto(c, "create") => Nearer(run'[c], run[c])
    BY <1>0, <2>1, GoesOnTo DEF Goto
  <2> QED
    BY <1>1, <1>3, <1>4, <2>2 DEF Check, At
<1>5. CASE CreateTarget(c)
  <2>1. /\ Height("next") < Height(run[c].step)
        /\ Height("down") < Height(run[c].step)
    BY <1>5, Heights DEF CreateTarget, At
  <2>2. ASSUME NEW z, run' = [run EXCEPT ![c].step = "next", ![c].to = z]
        PROVE  Nearer(run'[c], run[c])
    BY <1>0, <2>1, <2>2, GoesOnTo
  <2>3. CASE Goto(c, "down")
    BY <1>0, <2>1, <2>3, GoesOnTo DEF Goto
  <2> QED
    BY <1>5, <2>2, <2>3 DEF CreateTarget, CreateNewInstance
<1>6. CASE NextCharacter(c) \/ NextPlayer(c)
  <2>1. PICK x \in run[c].todo, step \in {"next", "leave", "down"} : \E chr :
           run' = [run EXCEPT ![c].todo = @ \ {x}, ![c].step = step, ![c].chr = chr]
    BY <1>6 DEF NextCharacter, NextPlayer
  <2>2. run'[c].step = step /\ run'[c].todo = run[c].todo \ {x}
    BY <1>0, <2>1 DEF TypeOK, Handlers
  <2> QED
    BY <2>1, <2>2 DEF Nearer, Fewer
<1>7. CASE Leave(c)
  <2>1. PICK step \in {"place", "find"} : \E old, i :
           run' = [run EXCEPT ![c].step = step, ![c].old = old, ![c].oid = i]
    BY <1>7 DEF Leave
  <2>2. Height(step) < Height(run[c].step)
    BY <1>7, <2>1, Heights DEF Leave, At
  <2> QED
    BY <1>0, <2>1, <2>2, GoesOnTo
<1>8. CASE Find(c)
  <2>1. PICK step \in {"erase", "forget"} : \E copy : run' = [run EXCEPT ![c].step = step, ![c].copy = copy]
    BY <1>8 DEF Find
  <2>2. Height(step) < Height(run[c].step)
    BY <1>8, <2>1, Heights DEF Find, At
  <2> QED
    BY <1>0, <2>1, <2>2, GoesOnTo
<1>9. CASE Forget(c)
  <2>1. Height("erase") < Height(run[c].step)
    BY <1>9, Heights DEF Forget, At
  <2> QED
    BY <1>0, <1>9, <2>1, GoesOnTo DEF Forget, Goto
<1>10. CASE Erase(c)
  <2>1. PICK step \in {"copy", "clear", "place"} : GotoWith(c, step, {})
    BY <1>10 DEF Erase, AfterRemove
  <2>2. Height(step) < Height(run[c].step)
    BY <1>10, <2>1, Heights DEF Erase, At
  <2> QED
    BY <1>0, <2>1, <2>2, GoesOnTo DEF GotoWith
<1>11. CASE CopyCharacters(c)
  <2>1. Height("elect") < Height(run[c].step)
    BY <1>11, Heights DEF CopyCharacters, At
  <2> QED
    BY <1>0, <1>11, <2>1, GoesOnTo DEF CopyCharacters, GotoWith
<1>12. CASE Elect(c)
  <2>1. ASSUME NEW step \in {"clear", "place"}, Goto(c, step) \/ GotoWith(c, step, {})
        PROVE  Nearer(run'[c], run[c])
    <3>1. Height(step) < Height(run[c].step)
      BY <1>12, Heights DEF Elect, At
    <3> QED
      BY <1>0, <2>1, <3>1, GoesOnTo DEF Goto, GotoWith
  <2> QED
    BY <1>3, <1>12, <2>1 DEF Elect, AfterRemove
<1>13. CASE Place(c)
  <2>1. PICK i : run' = [run EXCEPT ![c].step = "emplace", ![c].oid = i]
    BY <1>13 DEF Place
  <2>2. Height("emplace") < Height(run[c].step)
    BY <1>13, Heights DEF Place, At
  <2> QED
    BY <1>0, <2>1, <2>2, GoesOnTo
<1>14. CASE Emplace(c)
  <2>1. ASSUME run' = [run EXCEPT ![c].step = "next", ![c].chr = None, ![c].oid = None]
        PROVE  Nearer(run'[c], run[c])
    <3>1. Height("next") < Height(run[c].step)
      BY <1>14, Heights DEF Emplace, At
    <3> QED
      BY <1>0, <2>1, <3>1, GoesOnTo
  <2> QED
    BY <1>1, <1>14, <2>1 DEF Emplace, At
<1>15. CASE ReadZone(c)
  <2>1. PICK step \in {"clear", "oid"} : \E old : run' = [run EXCEPT ![c].step = step, ![c].old = old]
    BY <1>15 DEF ReadZone
  <2>2. Height(step) < Height(run[c].step)
    BY <1>15, <2>1, Heights DEF ReadZone, At
  <2> QED
    BY <1>0, <2>1, <2>2, GoesOnTo
<1>16. CASE ReadObjectId(c)
  <2>1. Height("find") < Height(run[c].step)
    BY <1>16, Heights DEF ReadObjectId, At
  <2>2. \E i : run' = [run EXCEPT ![c].step = "find", ![c].oid = i]
    BY <1>16 DEF ReadObjectId
  <2> QED
    BY <1>0, <2>1, <2>2, GoesOnTo
<1>17. CASE Clear(c) \/ Done(c)
  BY <1>1, <1>17 DEF Clear, Done, At
<1> QED
  BY <1>2, <1>3, <1>4, <1>5, <1>6, <1>7, <1>8, <1>9, <1>10, <1>11, <1>12, <1>13, <1>14, <1>15, <1>16, <1>17
  DEF Step

\* A handler is moved by its own steps only.
LEMMA OthersStay ==
  ASSUME WorldInv, [Next]_vars, NEW c \in Clients, Busy(c)
  PROVE  run'[c] = run[c] \/ Step(c)
<1>0. TypeOK
  BY DEF WorldInv
<1>1. CASE UNCHANGED run
  BY <1>1
<1>2. ASSUME NEW d \in Clients, Event(d), ~UNCHANGED run
      PROVE  run'[c] = run[c]
  <2>1. ~Busy(d) /\ \E h : Begin(d, h)
    BY <1>2 DEF Event, Close, OnClose, HandleConfirmRequest, HandleChrPositionNotify, Throw, Starts,
                HandleCharacterAttackMotion, HandleZoneChangeRequest, ConfirmMatch
  <2> QED
    BY <1>0, <2>1 DEF Begin, TypeOK
<1>3. ASSUME NEW d \in Clients, Step(d), d # c
      PROVE  run'[c] = run[c]
  BY <1>0, <1>3
  DEF TypeOK, Step, Snapshot, Check, CreateTarget, CreateNewInstance, Done, NextCharacter, NextPlayer,
      Leave, Find, Forget, Erase, CopyCharacters, Elect, Place, Emplace, ReadZone, ReadObjectId, Clear,
      Goto, GotoWith, Finish
<1>4. ASSUME NEW z \in Instances, Update(z)
      PROVE  UNCHANGED run
  BY <1>4 DEF Update, EraseEmptyDungeon
<1> QED
  BY <1>1, <1>2, <1>3, <1>4 DEF Next, vars

\* A handler of the zone server that moves characters takes finitely many steps if there are finitely
\* many clients, whatever the others do in between: each one brings it nearer to its end, and nothing
\* moves it away (TryChangeZone, Match::Confirm, RemoveCharacter, SpawnCharacter, OnClose).
THEOREM HandlersAdvance == Spec => [][EachStepAdvances]_vars
<1>1. WorldInv /\ [Next]_vars => [EachStepAdvances]_vars
  BY StepsGetNearer, OthersStay DEF EachStepAdvances
<1> QED
  BY <1>1, WorldInvariant, PTL DEF Spec

\* When all players have left and no handler runs, no zone that the ZoneSystem holds has a character,
\* unless two handlers have moved one character at once or a client had a second one.
AllHaveLeft ==
    ~contended /\ (\A c \in Clients : conn[c] = "gone" /\ ~Busy(c) /\ confirms[c] <= 1) =>
        \A z \in maps_ : chrs[z] = {}

\* The safety half of DungeonsAreReclaimed: with the players gone and their handlers at an end the
\* update thread finds every dungeon empty and may drop it (OnClose, RemoveCharacter).
THEOREM DungeonsAreEmptied == Spec => []AllHaveLeft
<1>1. WorldInv /\ GoneIsNowhere => AllHaveLeft
  <2> SUFFICES ASSUME WorldInv, GoneIsNowhere, ~contended,
                      \A c \in Clients : conn[c] = "gone" /\ ~Busy(c) /\ confirms[c] <= 1,
                      NEW z \in maps_, NEW e \in chrs[z]
               PROVE  FALSE
    BY DEF AllHaveLeft
  <2>1. z \in Instances /\ Alive(z)
    BY DEF WorldInv, TypeOK, Alive
  <2>2. e.chr \in Characters /\ e.chr \in Inside(z)
    BY <2>1 DEF WorldInv, TypeOK, Entries, Inside
  <2>3. PICK c \in Clients, n \in 1..MaxConfirms : e.chr = <<c, n>>
    BY <2>2 DEF Characters
  <2>4. n <= confirms[c]
    BY <2>1, <2>2, <2>3 DEF WorldInv, CharactersMade, Made
  <2>5. n = 1 /\ confirms[c] = 1
    BY <2>3, <2>4, WorldAssumption DEF WorldInv, TypeOK
  <2>6. Settled(<<c, 1>>)
    <3>1. \A d \in Clients : run[d].chr = None
      BY NoHandlerType DEF WorldInv, HandlerFits, Shape, Busy
    <3> QED
      BY <2>2, <2>3, <2>5, <3>1, Basics DEF Settled
  <2> QED
    BY <2>1, <2>2, <2>3, <2>5, <2>6 DEF GoneIsNowhere
<1> QED
  BY <1>1, WorldInvariant, PlayersLeaveEveryZone, PTL
=============================================================================
