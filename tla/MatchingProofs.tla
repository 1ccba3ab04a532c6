-------------------------- MODULE MatchingProofs --------------------------
(***************************************************************************)
(* What holds of Matching for every number of clients, maps, slots, IO     *)
(* workers and matches: the conjuncts of MatchInv are inductive, and they  *)
(* imply that players of one map meet in one match and that only full and  *)
(* unanimous parties are moved.  A handler stops for nothing but a lock,   *)
(* and its steps are numbered.                                             *)
(***************************************************************************)
EXTENDS Matching, FiniteSetTheorems, WellFoundedInduction, TLAPS

-----------------------------------------------------------------------------
(* The inductive invariant.                                                *)

\* A handler beyond CreateOrFind holds a match that exists.
HoldsMatch(c) == pc[c] \in {"set", "join", "remove", "confirm"} \union Critical
MatchesExist ==
    /\ \A m \in Ids : m <= match_id <=> matches[m] # None
    /\ \A m \in match_queue : m <= match_id
    /\ \A c \in Clients : /\ match_[c] # None => match_[c] <= match_id
                          /\ held[c] # None => held[c] <= match_id
                          /\ HoldsMatch(c) => held[c] # None

\* Between its first and last step in a critical section a handler, and no other, has the lock.
LocksHeld ==
    /\ \A c \in Clients : pc[c] \in Critical => context_guard[held[c]] = c
    /\ \A m \in Ids : context_guard[m] # None => /\ pc[context_guard[m]] \in Critical
                                                 /\ held[context_guard[m]] = m
    /\ \A c \in Clients : pc[c] = "scan" <=> match_guard = c

\* What the packet and the iterator of a handler are.
LocalsFit ==
    \A c \in Clients : /\ pc[c] \in {"idle", "lock"} => at[c] = 0
                       /\ pc[c] \in {"lock", "scan"} => arg[c] \in Maps
                       /\ pc[c] \in {"cancel", "lookup", "move"} => at[c] \in Slots

\* A search has looked at all matches up to its iterator.
SearchedInVain ==
    \A c \in Clients : pc[c] = "scan" =>
        \A m \in match_queue : m <= at[c] => matches[m].mapid # arg[c]

\* A noted acceptance is its player's.
FlagsAreAccepted ==
    \A m \in Ids : \A i \in Slots : m <= match_id /\ matches[m].slots[i].ok =>
        [key |-> matches[m].slots[i].key, match |-> m] \in accepted

\* Until the players of a completed match have been moved, all acceptances stay noted.
CompletedStays ==
    \A c \in Clients : pc[c] \in {"erase_completed", "lookup", "move"} =>
        \A i \in Slots : HeldSlots(c)[i].ok

\* The inductive invariant behind OneMatchPerMap, MovesFullParty and MovedOnlyIfAccepted.
MatchInv ==
    /\ TypeOK
    /\ MatchesExist
    /\ LocksHeld
    /\ LocalsFit
    /\ SearchedInVain
    /\ OneMatchPerMap
    /\ FlagsAreAccepted
    /\ CompletedStays
    /\ MovedOnlyIfAccepted

-----------------------------------------------------------------------------
(* The steps of a handler.                                                 *)

\* The part of TypeOK about handlers.
LocalType ==
    /\ pc \in [Clients -> Steps]
    /\ held \in [Clients -> Ids \union {None}]
    /\ at \in [Clients -> Nat]
    /\ arg \in [Clients -> Maps \union BOOLEAN]

\* The part of MatchInv about c's handler, the locks it holds apart.
HandlerFits(c) ==
    /\ held[c] # None => held[c] <= match_id
    /\ HoldsMatch(c) => held[c] # None
    /\ pc[c] \in {"idle", "lock"} => at[c] = 0
    /\ pc[c] \in {"lock", "scan"} => arg[c] \in Maps
    /\ pc[c] \in {"cancel", "lookup", "move"} => at[c] \in Slots
    /\ pc[c] = "scan" => \A m \in match_queue : m <= at[c] => matches[m].mapid # arg[c]
    /\ pc[c] \in {"erase_completed", "lookup", "move"} => \A i \in Slots : HeldSlots(c)[i].ok

\* The handlers of all clients but c stay where they are.
OthersStay(c) ==
    \A d \in Clients \ {c} : /\ pc'[d] = pc[d]
                             /\ held'[d] = held[d]
                             /\ at'[d] = at[d]
                             /\ arg'[d] = arg[d]

\* What c's handler is after a step.
Becomes(c, step, m, i, x) ==
    /\ pc'[c] = step
    /\ held'[c] = m
    /\ at'[c] = i
    /\ arg'[c] = x

\* An empty slot, a free lock and a null pointer are no id, number, client or match.
LEMMA NoneIsNothing == None \notin Clients /\ None \notin Ids /\ None \notin Nat /\ None \notin Matches
BY MatchingAssumption DEF Ids

\* Every handler fits when the invariant holds.
LEMMA AllHandlersFit ==
  ASSUME MatchInv, NEW c \in Clients
  PROVE  HandlerFits(c)
BY DEF MatchInv, MatchesExist, LocalsFit, SearchedInVain, CompletedStays, HandlerFits

\* A handler that begins.
LEMMA BeginStep ==
  ASSUME TypeOK, NEW c \in Clients, NEW step \in Steps, NEW m \in Ids \union {None},
         NEW x \in Maps \union BOOLEAN, Begin(c, step, m, x)
  PROVE  LocalType' /\ OthersStay(c) /\ Becomes(c, step, m, at[c], x)
<1>1. LocalType'
  BY DEF TypeOK, LocalType, Begin, Goto
<1> QED
  BY <1>1 DEF TypeOK, OthersStay, Becomes, Begin, Goto

\* A handler that ends.
LEMMA FinishStep ==
  ASSUME TypeOK, NEW c \in Clients, Finish(c)
  PROVE  LocalType' /\ OthersStay(c) /\ Becomes(c, "idle", None, 0, FALSE)
<1>1. LocalType'
  BY DEF TypeOK, LocalType, Finish, Goto, Steps
<1> QED
  BY <1>1 DEF TypeOK, OthersStay, Becomes, Finish, Goto

\* A handler that goes on.
LEMMA GotoStep ==
  ASSUME TypeOK, NEW c \in Clients, NEW step \in Steps, Goto(c, step), UNCHANGED <<held, at, arg>>
  PROVE  LocalType' /\ OthersStay(c) /\ Becomes(c, step, held[c], at[c], arg[c])
<1>1. LocalType'
  BY DEF TypeOK, LocalType, Goto
<1> QED
  BY <1>1 DEF TypeOK, OthersStay, Becomes, Goto

\* A handler that returns from CreateOrFind.
LEMMA ReturnStep ==
  ASSUME TypeOK, NEW c \in Clients, NEW m \in Ids, Return(c, m)
  PROVE  LocalType' /\ OthersStay(c) /\ Becomes(c, "set", m, 0, arg[c])
<1>1. LocalType'
  BY DEF TypeOK, LocalType, Return, Goto, Steps
<1> QED
  BY <1>1 DEF TypeOK, OthersStay, Becomes, Return, Goto

\* A handler that starts to walk over the slots.
LEMMA FirstSlotStep ==
  ASSUME TypeOK, NEW c \in Clients, NEW step \in Steps, FirstSlot(c, step)
  PROVE  LocalType' /\ OthersStay(c) /\ Becomes(c, step, held[c], 1, arg[c])
<1>1. LocalType'
  BY DEF TypeOK, LocalType, FirstSlot, Goto
<1> QED
  BY <1>1 DEF TypeOK, OthersStay, Becomes, FirstSlot, Goto

\* A handler that goes on with the next slot, or ends after the last.
LEMMA NextSlotStep ==
  ASSUME TypeOK, NEW c \in Clients, NEW step \in Steps, at[c] \in Slots, NextSlot(c, step)
  PROVE  /\ LocalType' /\ OthersStay(c)
         /\ \/ /\ Becomes(c, "idle", None, 0, FALSE)
               /\ context_guard' = [context_guard EXCEPT ![held[c]] = None]
            \/ /\ Becomes(c, step, held[c], at[c] + 1, arg[c])
               /\ at[c] + 1 \in Slots
               /\ UNCHANGED context_guard
<1>1. CASE Finish(c) /\ context_guard' = [context_guard EXCEPT ![held[c]] = None]
  BY <1>1, FinishStep
<1>2. CASE /\ at[c] # MatchSize /\ Goto(c, step) /\ at' = [at EXCEPT ![c] = @ + 1]
           /\ UNCHANGED <<held, arg, context_guard>>
  <2>1. at[c] + 1 \in Slots
    BY <1>2, MatchingAssumption DEF Slots
  <2>2. LocalType'
    BY <1>2 DEF TypeOK, LocalType, Goto
  <2> QED
    BY <1>2, <2>1, <2>2 DEF TypeOK, OthersStay, Becomes, Goto
<1> QED
  BY <1>1, <1>2 DEF NextSlot

-----------------------------------------------------------------------------
(* What a step leaves alone.                                               *)

\* The locks stay right when they do not change and no handler enters or leaves a critical section.
LEMMA LocksStay ==
  ASSUME MatchInv, NEW c \in Clients, OthersStay(c), UNCHANGED guards,
         pc'[c] \in Critical <=> pc[c] \in Critical,
         pc'[c] = "scan" <=> pc[c] = "scan",
         pc[c] \in Critical => held'[c] = held[c]
  PROVE  LocksHeld'
<1>1. \A d \in Clients : /\ pc'[d] \in Critical <=> pc[d] \in Critical
                         /\ pc'[d] = "scan" <=> pc[d] = "scan"
                         /\ pc[d] \in Critical => held'[d] = held[d]
  BY DEF OthersStay
<1>2. \A m \in Ids : context_guard[m] # None => context_guard[m] \in Clients
  BY DEF MatchInv, TypeOK
<1> QED
  BY <1>1, <1>2 DEF MatchInv, LocksHeld, guards

\* They stay right when a handler enters the critical section of its match, whose lock was free.
LEMMA LocksEntered ==
  ASSUME MatchInv, NEW c \in Clients, OthersStay(c), UNCHANGED match_guard,
         HoldsMatch(c), context_guard[held[c]] = None, held'[c] = held[c],
         pc[c] \notin Critical \union {"scan"}, pc'[c] \in Critical,
         context_guard' = [context_guard EXCEPT ![held[c]] = c]
  PROVE  LocksHeld'
<1>1. held[c] \in Ids
  BY DEF MatchInv, TypeOK, MatchesExist
<1>2. \A d \in Clients \ {c} : pc[d] \in Critical => held[d] \in Ids /\ held[d] # held[c]
  BY NoneIsNothing DEF MatchInv, TypeOK, MatchesExist, HoldsMatch, LocksHeld
<1>3. \A m \in Ids : context_guard'[m] = IF m = held[c] THEN c ELSE context_guard[m]
  BY <1>1 DEF MatchInv, TypeOK
<1>4. \A m \in Ids : context_guard[m] # None => context_guard[m] \in Clients \ {c}
  BY DEF MatchInv, TypeOK, LocksHeld
<1>5. \A d \in Clients : pc'[d] \in Critical => context_guard'[held'[d]] = d
  BY <1>1, <1>2, <1>3 DEF MatchInv, LocksHeld, OthersStay
<1>6. \A m \in Ids : context_guard'[m] # None => /\ pc'[context_guard'[m]] \in Critical
                                                 /\ held'[context_guard'[m]] = m
  BY <1>3, <1>4 DEF MatchInv, LocksHeld, OthersStay
<1>7. \A d \in Clients : pc'[d] = "scan" <=> match_guard' = d
  BY DEF MatchInv, LocksHeld, OthersStay, Critical
<1> QED
  BY <1>5, <1>6, <1>7 DEF LocksHeld

\* They stay right when a handler leaves the critical section of its match and releases its lock.
LEMMA LocksLeft ==
  ASSUME MatchInv, NEW c \in Clients, OthersStay(c), UNCHANGED match_guard,
         pc[c] \in Critical, pc'[c] \notin Critical \union {"scan"},
         context_guard' = [context_guard EXCEPT ![held[c]] = None]
  PROVE  LocksHeld'
<1>1. held[c] \in Ids /\ context_guard[held[c]] = c
  BY DEF MatchInv, TypeOK, MatchesExist, HoldsMatch, LocksHeld
<1>2. \A d \in Clients \ {c} : pc[d] \in Critical => held[d] \in Ids /\ held[d] # held[c]
  BY <1>1 DEF MatchInv, TypeOK, MatchesExist, HoldsMatch, LocksHeld
<1>3. \A m \in Ids : context_guard'[m] = IF m = held[c] THEN None ELSE context_guard[m]
  BY <1>1 DEF MatchInv, TypeOK
<1>4. \A m \in Ids \ {held[c]} : context_guard[m] # None => context_guard[m] \in Clients \ {c}
  BY DEF MatchInv, TypeOK, LocksHeld
<1>5. \A d \in Clients : pc'[d] \in Critical => context_guard'[held'[d]] = d
  BY <1>1, <1>2, <1>3 DEF MatchInv, LocksHeld, OthersStay
<1>6. \A m \in Ids : context_guard'[m] # None => /\ pc'[context_guard'[m]] \in Critical
                                                 /\ held'[context_guard'[m]] = m
  BY <1>3, <1>4 DEF MatchInv, LocksHeld, OthersStay
<1>7. \A d \in Clients : pc'[d] = "scan" <=> match_guard' = d
  BY DEF MatchInv, LocksHeld, OthersStay, Critical
<1> QED
  BY <1>5, <1>6, <1>7 DEF LocksHeld

\* The parts of MatchInv that only look at the matches and at handlers one by one.
MatchFacts ==
    /\ MatchesExist
    /\ LocalsFit
    /\ SearchedInVain
    /\ OneMatchPerMap
    /\ FlagsAreAccepted
    /\ CompletedStays

\* They stay true when no match changes, none is queued, and the one handler that moves still fits.
LEMMA QuietStep ==
  ASSUME MatchInv, NEW c \in Clients, OthersStay(c), HandlerFits(c)',
         UNCHANGED <<match_id, matches, accepted>>, match_queue' \subseteq match_queue,
         \A d \in Clients : match_'[d] # None => match_'[d] <= match_id
  PROVE  MatchFacts'
<1>1. \A d \in Clients : HandlerFits(d)'
  BY AllHandlersFit DEF OthersStay, HandlerFits, HoldsMatch, HeldSlots
<1>2. MatchesExist'
  BY <1>1 DEF MatchInv, MatchesExist, HandlerFits
<1>3. LocalsFit' /\ SearchedInVain' /\ CompletedStays'
  BY <1>1 DEF HandlerFits, LocalsFit, SearchedInVain, CompletedStays
<1>4. OneMatchPerMap' /\ FlagsAreAccepted'
  BY DEF MatchInv, OneMatchPerMap, FlagsAreAccepted
<1> QED
  BY <1>2, <1>3, <1>4 DEF MatchFacts

-----------------------------------------------------------------------------
(* Packets, connections and the search keep the invariant.                 *)

\* A handler that begins with legal locals keeps all that is said of matches and locks.
LEMMA BeginKeeps ==
  ASSUME MatchInv, NEW c \in Clients, NEW step \in {"lock", "remove", "confirm", "drop"},
         NEW m \in Ids \union {None}, NEW x \in Maps \union BOOLEAN, Begin(c, step, m, x),
         pc[c] \notin Critical \union {"scan"},
         m # None => m <= match_id,
         step \in {"remove", "confirm"} => m # None,
         step = "lock" => x \in Maps /\ at[c] = 0,
         UNCHANGED <<match_, guards, system, matches, history>>
  PROVE  LocalType' /\ MatchFacts' /\ LocksHeld' /\ MovedOnlyIfAccepted'
<1>1. LocalType' /\ OthersStay(c) /\ Becomes(c, step, m, at[c], x)
  BY BeginStep DEF MatchInv, Steps
<1>2. HandlerFits(c)'
  BY <1>1 DEF HandlerFits, Becomes, HoldsMatch, Critical, system
<1>3. MatchFacts'
  BY <1>1, <1>2, QuietStep DEF MatchInv, MatchesExist, system, history
<1>4. LocksHeld'
  BY <1>1, LocksStay DEF Becomes, Critical
<1> QED
  BY <1>1, <1>3, <1>4 DEF MatchInv, MovedOnlyIfAccepted, history

\* So does one that ends outside all critical sections.
LEMMA FinishKeeps ==
  ASSUME MatchInv, NEW c \in Clients, Finish(c), pc[c] \notin Critical \union {"scan"},
         UNCHANGED <<match_, guards, system, matches, history>>
  PROVE  LocalType' /\ MatchFacts' /\ LocksHeld' /\ MovedOnlyIfAccepted'
<1>1. LocalType' /\ OthersStay(c) /\ Becomes(c, "idle", None, 0, FALSE)
  BY FinishStep DEF MatchInv
<1>2. HandlerFits(c)'
  BY <1>1 DEF HandlerFits, Becomes, HoldsMatch, Critical
<1>3. MatchFacts'
  BY <1>1, <1>2, QuietStep DEF MatchInv, MatchesExist, system, history
<1>4. LocksHeld'
  BY <1>1, LocksStay DEF Becomes, Critical
<1> QED
  BY <1>1, <1>3, <1>4 DEF MatchInv, MovedOnlyIfAccepted, history

\* Nothing but a connection or a character changes.
LEMMA IdleKeeps ==
  ASSUME MatchInv, UNCHANGED <<match_, local, guards, system, matches, history>>
  PROVE  LocalType' /\ MatchFacts' /\ LocksHeld' /\ MovedOnlyIfAccepted'
<1>1. LocalType'
  BY DEF MatchInv, TypeOK, LocalType, local
<1>2. MatchesExist' /\ LocalsFit' /\ SearchedInVain'
  BY DEF MatchInv, MatchesExist, HoldsMatch, LocalsFit, SearchedInVain, local, system
<1>3. OneMatchPerMap' /\ FlagsAreAccepted' /\ CompletedStays'
  BY DEF MatchInv, OneMatchPerMap, FlagsAreAccepted, CompletedStays, HeldSlots, local, system,
         history
<1>4. LocksHeld'
  BY DEF MatchInv, LocksHeld, local, guards
<1> QED
  BY <1>1, <1>2, <1>3, <1>4 DEF MatchInv, MatchFacts, MovedOnlyIfAccepted, history

\* Connections that drop and players who confirm touch no match.
LEMMA ConnectionSteps ==
  ASSUME MatchInv, NEW c \in Clients, Close(c) \/ HandleConfirmRequest(c)
  PROVE  MatchInv'
<1>1. MatchFacts' /\ LocksHeld' /\ MovedOnlyIfAccepted'
  BY IdleKeeps DEF Close, HandleConfirmRequest, Starts
<1>2. TypeOK'
  BY DEF MatchInv, TypeOK, Close, HandleConfirmRequest, Starts, local, guards, system, history
<1> QED
  BY <1>1, <1>2 DEF MatchInv, MatchFacts

\* The weak pointer of a client that has a match is an id that was given out.
LEMMA MatchOfClient ==
  ASSUME MatchInv, NEW c \in Clients, HasMatch(c)
  PROVE  match_[c] \in Ids /\ match_[c] <= match_id
BY DEF MatchInv, TypeOK, MatchesExist, HasMatch

\* What receiving a packet leaves to the handler.
LEMMA ReceivesStep ==
  ASSUME MatchInv, NEW c \in Clients, Receives(c), conn' \in [Clients -> {"open", "closing", "gone"}],
         LocalType', MatchFacts', LocksHeld', MovedOnlyIfAccepted'
  PROVE  MatchInv'
<1>1. packets' \in [Clients -> 0..MaxPackets]
  BY MatchingAssumption DEF MatchInv, TypeOK, Receives
<1>2. TypeOK'
  BY <1>1 DEF MatchInv, TypeOK, LocalType, Receives, Starts, guards, system, history
<1> QED
  BY <1>2 DEF MatchInv, MatchFacts

\* The three packets about matches, also when they end in an exception.
LEMMA PacketSteps ==
  ASSUME MatchInv, NEW c \in Clients,
         RequestMatch(c) \/ CancelMatch(c) \/ HandleMatchingComfirmRequest(c)
  PROVE  MatchInv'
<1>1. Receives(c) /\ pc[c] = "idle" /\ at[c] = 0
  BY DEF MatchInv, LocalsFit, RequestMatch, CancelMatch, HandleMatchingComfirmRequest, Receives,
         Starts, At
<1>2. UNCHANGED <<match_, guards, system, matches, history>>
  BY <1>1 DEF Receives, Starts
<1>3. CASE Throw(c)
  <2>1. conn' \in [Clients -> {"open", "closing", "gone"}]
    BY <1>3 DEF MatchInv, TypeOK, Throw
  <2>2. LocalType' /\ MatchFacts' /\ LocksHeld' /\ MovedOnlyIfAccepted'
    BY <1>2, <1>3, IdleKeeps DEF Throw
  <2> QED
    BY <1>1, <2>1, <2>2, ReceivesStep
<1>4. ASSUME UNCHANGED conn, NEW step \in {"lock", "remove", "confirm"},
             NEW m \in Ids \union {None}, NEW x \in Maps \union BOOLEAN, Begin(c, step, m, x),
             m # None => m <= match_id,
             step \in {"remove", "confirm"} => m # None,
             step = "lock" => x \in Maps
      PROVE  MatchInv'
  <2>1. pc[c] \notin Critical \union {"scan"}
    BY <1>1 DEF Critical
  <2>2. LocalType' /\ MatchFacts' /\ LocksHeld' /\ MovedOnlyIfAccepted'
    BY <1>1, <1>2, <1>4, <2>1, BeginKeeps
  <2> QED
    BY <1>1, <1>4, <2>2, ReceivesStep DEF MatchInv, TypeOK
<1>5. CASE RequestMatch(c) /\ ~Throw(c)
  <2>1. PICK a \in Maps : Begin(c, "lock", None, a)
    BY <1>5 DEF RequestMatch
  <2> QED
    BY <1>4, <1>5, <2>1 DEF RequestMatch
<1>6. CASE CancelMatch(c) /\ ~Throw(c)
  <2>1. HasMatch(c) /\ Begin(c, "remove", match_[c], FALSE) /\ UNCHANGED conn
    BY <1>6 DEF CancelMatch
  <2> QED
    BY <1>4, <2>1, MatchOfClient, NoneIsNothing
<1>7. CASE HandleMatchingComfirmRequest(c)
  <2>1. PICK ok \in BOOLEAN : Begin(c, "confirm", match_[c], ok)
    BY <1>7 DEF HandleMatchingComfirmRequest
  <2>2. HasMatch(c) /\ UNCHANGED conn
    BY <1>7 DEF HandleMatchingComfirmRequest
  <2> QED
    BY <1>4, <2>1, <2>2, MatchOfClient, NoneIsNothing
<1> QED
  BY <1>3, <1>5, <1>6, <1>7

\* The two halves of OnClose.
LEMMA OnCloseSteps ==
  ASSUME MatchInv, NEW c \in Clients, OnClose(c) \/ OnCloseDrop(c)
  PROVE  MatchInv'
<1>1. pc[c] \notin Critical \union {"scan"}
  BY DEF OnClose, OnCloseDrop, Starts, At, Critical
<1>2. UNCHANGED <<match_, guards, system, matches, history>>
  BY DEF OnClose, OnCloseDrop, Starts
<1>3. LocalType' /\ MatchFacts' /\ LocksHeld' /\ MovedOnlyIfAccepted'
  <2>1. CASE OnClose(c)
    BY <1>1, <1>2, <2>1, BeginKeeps DEF OnClose
  <2>2. CASE OnCloseDrop(c) /\ character[c] /\ HasMatch(c)
    <3>1. Begin(c, "remove", match_[c], FALSE)
      BY <2>2 DEF OnCloseDrop
    <3> QED
      BY <1>1, <1>2, <2>2, <3>1, MatchOfClient, NoneIsNothing, BeginKeeps
  <2>3. CASE OnCloseDrop(c) /\ ~(character[c] /\ HasMatch(c))
    <3>1. Finish(c)
      BY <2>3 DEF OnCloseDrop
    <3> QED
      BY <1>1, <1>2, <3>1, FinishKeeps
  <2> QED
    BY <2>1, <2>2, <2>3
<1>4. /\ conn' \in [Clients -> {"open", "closing", "gone"}]
      /\ character' \in [Clients -> BOOLEAN]
      /\ UNCHANGED packets /\ UNCHANGED crashed
  BY DEF MatchInv, TypeOK, OnClose, OnCloseDrop, Starts
<1>5. TypeOK'
  BY <1>2, <1>3, <1>4 DEF MatchInv, TypeOK, LocalType, guards, system, history
<1> QED
  BY <1>3, <1>5 DEF MatchInv, MatchFacts

-----------------------------------------------------------------------------
(* CreateOrFind and SetMatchWeak keep the invariant.                       *)

\* The handler that takes or releases match_guard_.
LEMMA MatchGuardMoves ==
  ASSUME MatchInv, NEW c \in Clients, OthersStay(c), UNCHANGED context_guard,
         {pc[c], pc'[c]} \intersect Critical = {},
         \/ match_guard = None /\ match_guard' = c /\ pc'[c] = "scan"
         \/ match_guard = c /\ match_guard' = None /\ pc'[c] # "scan"
  PROVE  LocksHeld'
<1>1. \A m \in Ids : context_guard[m] # None => context_guard[m] \in Clients \ {c}
  BY DEF MatchInv, TypeOK, LocksHeld
<1>2. \A d \in Clients : pc'[d] \in Critical => context_guard'[held'[d]] = d
  BY DEF MatchInv, LocksHeld, OthersStay
<1>3. \A m \in Ids : context_guard'[m] # None => /\ pc'[context_guard'[m]] \in Critical
                                                 /\ held'[context_guard'[m]] = m
  BY <1>1 DEF MatchInv, LocksHeld, OthersStay
<1>4. \A d \in Clients : pc'[d] = "scan" <=> match_guard' = d
  BY NoneIsNothing DEF MatchInv, LocksHeld, OthersStay
<1> QED
  BY <1>2, <1>3, <1>4 DEF LocksHeld

\* Taking match_guard_ starts a search that has seen nothing.
LEMMA LockMatchGuardKeeps ==
  ASSUME MatchInv, NEW c \in Clients, LockMatchGuard(c)
  PROVE  MatchInv'
<1>1. LocalType' /\ OthersStay(c) /\ Becomes(c, "scan", held[c], at[c], arg[c])
  BY GotoStep DEF MatchInv, LockMatchGuard, Steps
<1>2. at[c] = 0 /\ arg[c] \in Maps
  BY DEF MatchInv, LocalsFit, LockMatchGuard, At
<1>3. HandlerFits(c)'
  <2>1. \A m \in match_queue : ~(m <= at[c])
    BY <1>2 DEF MatchInv, TypeOK, Ids
  <2> QED
    BY <1>1, <1>2, <2>1 DEF MatchInv, MatchesExist, HandlerFits, Becomes, HoldsMatch, Critical,
       LockMatchGuard, system
<1>4. MatchFacts'
  BY <1>1, <1>3, QuietStep DEF MatchInv, MatchesExist, LockMatchGuard, clients, system, history
<1>5. LocksHeld'
  BY <1>1, MatchGuardMoves DEF LockMatchGuard, Becomes, At, Critical
<1>6. TypeOK'
  BY <1>1 DEF MatchInv, TypeOK, LocalType, LockMatchGuard, clients, system, history
<1> QED
  BY <1>4, <1>5, <1>6 DEF MatchInv, MatchFacts, MovedOnlyIfAccepted, LockMatchGuard, history

\* The search looks at one more match and goes on, or returns it.
LEMMA ScanQueueKeeps ==
  ASSUME MatchInv, NEW c \in Clients, ScanQueue(c)
  PROVE  MatchInv'
<1>1. PICK m \in Ids : /\ Scans(c, m)
                       /\ \/ Return(c, m)
                          \/ /\ matches[m].mapid # arg[c]
                             /\ at' = [at EXCEPT ![c] = m]
                             /\ UNCHANGED <<pc, held, arg, match_guard>>
  BY DEF ScanQueue
<1>2. UNCHANGED <<clients, context_guard, system, matches, crashed, history>>
  BY DEF ScanQueue
<1>3. /\ pc[c] = "scan" /\ match_guard = c /\ arg[c] \in Maps
      /\ m \in match_queue /\ m <= match_id /\ m \in Nat
      /\ \A n \in match_queue : n > at[c] => m <= n
  BY <1>1 DEF MatchInv, LocksHeld, LocalsFit, MatchesExist, Scans, At, Ids
<1>4. CASE Return(c, m)
  <2>1. LocalType' /\ OthersStay(c) /\ Becomes(c, "set", m, 0, arg[c])
    BY <1>4, ReturnStep DEF MatchInv
  <2>2. HandlerFits(c)'
    BY <1>2, <1>3, <2>1, NoneIsNothing DEF HandlerFits, Becomes, HoldsMatch, Critical, system
  <2>3. MatchFacts'
    BY <1>2, <2>1, <2>2, QuietStep DEF MatchInv, MatchesExist, clients, system, history
  <2>4. LocksHeld'
    BY <1>2, <1>3, <1>4, <2>1, MatchGuardMoves DEF Return, Becomes, Critical
  <2>5. TypeOK'
    BY <1>2, <1>4, <2>1 DEF MatchInv, TypeOK, LocalType, Return, clients, system, history
  <2> QED
    BY <1>2, <2>3, <2>4, <2>5 DEF MatchInv, MatchFacts, MovedOnlyIfAccepted, history
<1>5. CASE ~Return(c, m)
  <2>1. /\ LocalType'
        /\ OthersStay(c)
        /\ Becomes(c, "scan", held[c], m, arg[c])
    BY <1>1, <1>3, <1>5 DEF MatchInv, TypeOK, LocalType, OthersStay, Becomes
  <2>2. \A n \in match_queue : n <= m => matches[n].mapid # arg[c]
    <3>1. \A n \in match_queue : n <= m => n <= at[c] \/ n = m
      BY <1>3 DEF MatchInv, TypeOK, Ids
    <3> QED
      BY <1>1, <1>3, <1>5, <3>1 DEF MatchInv, SearchedInVain
  <2>3. HandlerFits(c)'
    BY <1>2, <1>3, <2>1, <2>2 DEF MatchInv, MatchesExist, HandlerFits, Becomes, HoldsMatch,
       Critical, system
  <2>4. MatchFacts'
    BY <1>2, <2>1, <2>3, QuietStep DEF MatchInv, MatchesExist, clients, system, history
  <2>5. LocksHeld'
    BY <1>1, <1>2, <1>3, <1>5, <2>1, LocksStay DEF Becomes, Critical, guards
  <2>6. TypeOK'
    BY <1>1, <1>2, <1>5, <2>1 DEF MatchInv, TypeOK, LocalType, clients, system, history
  <2> QED
    BY <1>2, <2>4, <2>5, <2>6 DEF MatchInv, MatchFacts, MovedOnlyIfAccepted, history
<1> QED
  BY <1>4, <1>5

\* A weak pointer is set to a match that was given an id.
LEMMA SetMatchWeakKeeps ==
  ASSUME MatchInv, NEW c \in Clients, SetMatchWeak(c)
  PROVE  MatchInv'
<1>1. LocalType' /\ OthersStay(c) /\ Becomes(c, "join", held[c], at[c], arg[c])
  BY GotoStep DEF MatchInv, SetMatchWeak, Steps
<1>2. held[c] \in Ids /\ held[c] <= match_id /\ held[c] # None
  BY DEF MatchInv, TypeOK, MatchesExist, HoldsMatch, SetMatchWeak, At
<1>3. HandlerFits(c)'
  BY <1>1, <1>2 DEF HandlerFits, Becomes, HoldsMatch, Critical, SetMatchWeak, system
<1>4. match_' \in [Clients -> Ids \union {None}] /\ \A d \in Clients : match_'[d] # None => match_'[d] <= match_id
  BY <1>2 DEF MatchInv, TypeOK, MatchesExist, SetMatchWeak
<1>5. MatchFacts'
  BY <1>1, <1>3, <1>4, QuietStep DEF SetMatchWeak, system, history
<1>6. LocksHeld'
  BY <1>1, LocksStay DEF SetMatchWeak, Becomes, At, Critical
<1>7. TypeOK'
  BY <1>1, <1>4 DEF MatchInv, TypeOK, LocalType, SetMatchWeak, guards, system, history
<1> QED
  BY <1>5, <1>6, <1>7 DEF MatchInv, MatchFacts, MovedOnlyIfAccepted, SetMatchWeak, history

\* A new match is well typed, has no acceptances and its map is new in match_queue_.
LEMMA CreateMatchKeeps ==
  ASSUME MatchInv, NEW c \in Clients, CreateMatch(c)
  PROVE  MatchInv'
<1> DEFINE n == match_id + 1
           new == NewMatch(arg[c])
<1>1. /\ pc[c] = "scan" /\ match_guard = c /\ arg[c] \in Maps
      /\ n \in Ids /\ n \notin match_queue /\ match_id' = n
  BY MatchingAssumption DEF MatchInv, TypeOK, LocksHeld, LocalsFit, MatchesExist, CreateMatch, At, Ids
<1>2. new \in Matches /\ new.mapid = arg[c] /\ \A i \in Slots : ~new.slots[i].ok
  BY <1>1 DEF NewMatch, Matches
<1>3. LocalType' /\ OthersStay(c) /\ Becomes(c, "set", n, 0, arg[c])
  BY <1>1, ReturnStep DEF MatchInv, CreateMatch
<1>4. matches' \in [Ids -> Matches \union {None}]
  BY <1>1, <1>2 DEF MatchInv, TypeOK, CreateMatch
<1>5. \A m \in Ids : matches'[m] = IF m = n THEN new ELSE matches[m]
  BY <1>1 DEF MatchInv, TypeOK, CreateMatch
<1> HIDE DEF new
<1>6. TypeOK'
  <2>1. match_id' \in 0..MaxMatches /\ match_queue' \subseteq Ids /\ match_guard' = None
    BY <1>1, MatchingAssumption DEF MatchInv, TypeOK, CreateMatch, Return, Ids
  <2> QED
    BY <1>3, <1>4, <2>1 DEF MatchInv, TypeOK, LocalType, CreateMatch, clients, history
<1>7. \A d \in Clients : held[d] # None => held[d] # n
  BY <1>1 DEF MatchInv, TypeOK, MatchesExist, Ids
<1>8. MatchesExist'
  <2>1. \A m \in Ids : m <= match_id' <=> matches'[m] # None
    BY <1>1, <1>2, <1>5, NoneIsNothing DEF MatchInv, TypeOK, MatchesExist, Ids
  <2>2. \A m \in match_queue' : m <= match_id'
    BY <1>1 DEF MatchInv, TypeOK, MatchesExist, CreateMatch, Ids
  <2>3. \A d \in Clients : /\ match_'[d] # None => match_'[d] <= match_id'
                           /\ held'[d] # None => held'[d] <= match_id'
                           /\ HoldsMatch(d)' => held'[d] # None
    BY <1>1, <1>3, NoneIsNothing DEF MatchInv, TypeOK, MatchesExist, HoldsMatch, OthersStay, Becomes,
       CreateMatch, clients, Ids
  <2> QED
    BY <2>1, <2>2, <2>3 DEF MatchesExist
<1>9. LocksHeld'
  BY <1>1, <1>3, MatchGuardMoves DEF CreateMatch, Return, Becomes, Critical
<1>10. LocalsFit'
  BY <1>3 DEF MatchInv, LocalsFit, OthersStay, Becomes
<1>11. SearchedInVain'
  <2>1. \A d \in Clients : pc'[d] # "scan"
    BY <1>1, <1>3 DEF MatchInv, LocksHeld, OthersStay, Becomes
  <2> QED
    BY <2>1 DEF SearchedInVain
<1>12. OneMatchPerMap'
  <2>1. \A m \in match_queue : matches[m].mapid # arg[c]
    BY <1>1 DEF MatchInv, SearchedInVain, CreateMatch
  <2> QED
    BY <1>1, <1>2, <1>5, <2>1 DEF MatchInv, TypeOK, OneMatchPerMap, CreateMatch
<1>13. FlagsAreAccepted'
  <2>1. \A m \in Ids : m <= n => m = n \/ m <= match_id
    BY DEF MatchInv, TypeOK, Ids
  <2> QED
    BY <1>1, <1>2, <1>5, <2>1 DEF MatchInv, FlagsAreAccepted, CreateMatch, history
<1>14. CompletedStays'
  BY <1>3, <1>5, <1>7 DEF MatchInv, TypeOK, MatchesExist, HoldsMatch, Critical, CompletedStays,
     HeldSlots, OthersStay, Becomes
<1> QED
  BY <1>6, <1>8, <1>9, <1>10, <1>11, <1>12, <1>13, <1>14
  DEF MatchInv, MovedOnlyIfAccepted, CreateMatch, history

-----------------------------------------------------------------------------
(* Join, Remove and Confirm keep the invariant.                            *)

\* The match that a handler beyond CreateOrFind holds.
LEMMA HeldMatch ==
  ASSUME MatchInv, NEW c \in Clients, HoldsMatch(c)
  PROVE  held[c] \in Ids /\ held[c] <= match_id /\ held[c] # None /\ matches[held[c]] \in Matches
BY DEF MatchInv, TypeOK, MatchesExist

\* A slot of a match.
LEMMA SlotType ==
  ASSUME NEW x \in Matches, NEW i \in Slots
  PROVE  x.slots[i].key \in Clients \union {None} /\ x.slots[i].ok \in BOOLEAN
BY DEF Matches

\* One match changes, its context_guard_ free: its map stays, and its acceptances are recorded.
LEMMA MatchStep ==
  ASSUME MatchInv, NEW c \in Clients, HoldsMatch(c), context_guard[held[c]] = None,
         NEW x \in Matches, x.mapid = matches[held[c]].mapid,
         matches' = [matches EXCEPT ![held[c]] = x],
         OthersStay(c), HandlerFits(c)',
         UNCHANGED <<match_, match_id, match_queue>>,
         accepted \subseteq accepted',
         \A i \in Slots : x.slots[i].ok =>
             [key |-> x.slots[i].key, match |-> held[c]] \in accepted'
  PROVE  matches' \in [Ids -> Matches \union {None}] /\ MatchFacts'
<1>1. held[c] \in Ids /\ held[c] <= match_id /\ held[c] # None
  BY HeldMatch
<1>2. matches' \in [Ids -> Matches \union {None}]
  BY <1>1 DEF MatchInv, TypeOK
<1>3. \A m \in Ids : matches'[m] = IF m = held[c] THEN x ELSE matches[m]
  BY <1>1 DEF MatchInv, TypeOK
<1>4. \A m \in Ids : m <= match_id => matches'[m].mapid = matches[m].mapid
  BY <1>3
<1>5. \A d \in Clients \ {c} : pc[d] \in Critical =>
          held[d] \in Ids /\ matches'[held[d]] = matches[held[d]]
  BY <1>3, NoneIsNothing DEF MatchInv, TypeOK, MatchesExist, HoldsMatch, LocksHeld
<1>6. \A d \in Clients \ {c} : HandlerFits(d)'
  <2> SUFFICES ASSUME NEW d \in Clients \ {c}
               PROVE  HandlerFits(d)'
    OBVIOUS
  <2>1. HandlerFits(d)
    BY AllHandlersFit
  <2>2. pc[d] = "scan" => \A m \in match_queue : m <= at[d] => matches'[m].mapid # arg[d]
    BY <1>4, <2>1 DEF MatchInv, TypeOK, MatchesExist, HandlerFits
  <2>3. pc[d] \in {"erase_completed", "lookup", "move"} =>
            \A i \in Slots : matches'[held[d]].slots[i].ok
    BY <1>5, <2>1 DEF HandlerFits, HeldSlots, Critical
  <2> QED
    BY <2>1, <2>2, <2>3 DEF HandlerFits, HoldsMatch, HeldSlots, OthersStay
<1>7. \A d \in Clients : HandlerFits(d)'
  BY <1>6
<1>8. MatchesExist'
  <2>1. \A m \in Ids : m <= match_id' <=> matches'[m] # None
    BY <1>1, <1>3, NoneIsNothing DEF MatchInv, MatchesExist
  <2> QED
    BY <1>7, <2>1 DEF MatchInv, MatchesExist, HandlerFits
<1>9. LocalsFit' /\ SearchedInVain' /\ CompletedStays'
  BY <1>7 DEF HandlerFits, LocalsFit, SearchedInVain, CompletedStays
<1>10. OneMatchPerMap'
  BY <1>4 DEF MatchInv, TypeOK, MatchesExist, OneMatchPerMap
<1>11. FlagsAreAccepted'
  BY <1>3 DEF MatchInv, FlagsAreAccepted
<1> QED
  BY <1>2, <1>8, <1>9, <1>10, <1>11 DEF MatchFacts

\* What joining changes in a match.
LEMMA JoinedMatch ==
  ASSUME NEW x \in Matches, NEW c \in Clients, NEW i \in Slots
  PROVE  /\ Joined(x, c, i) \in Matches
         /\ Joined(x, c, i).mapid = x.mapid
         /\ Joined(x, c, i).slots[i].ok = x.slots[i].ok
         /\ \A j \in Slots \ {i} : Joined(x, c, i).slots[j] = x.slots[j]
<1> DEFINE slots == [x.slots EXCEPT ![i] = [key |-> c, ok |-> @.ok]]
           state == IF \A j \in Slots \ {i} : x.slots[j].key # None
                    THEN "kConfirming" ELSE x.state
<1>1. x.slots \in [Slots -> [key : Clients \union {None}, ok : BOOLEAN]]
  BY DEF Matches
<1>2. /\ slots \in [Slots -> [key : Clients \union {None}, ok : BOOLEAN]]
      /\ slots[i].ok = x.slots[i].ok
      /\ \A j \in Slots \ {i} : slots[j] = x.slots[j]
  BY <1>1
<1>3. state \in {"kRecruiting", "kConfirming", "kCompleted"}
  BY DEF Matches
<1>4. Joined(x, c, i) = [state |-> state, mapid |-> x.mapid, slots |-> slots]
  BY DEF Joined, Matches
<1> HIDE DEF slots, state
<1> QED
  BY <1>2, <1>3, <1>4 DEF Matches

\* Join changes no acceptance but gives one to a slot that has none.
LEMMA JoinKeeps ==
  ASSUME MatchInv, NEW c \in Clients, Join(c)
  PROVE  MatchInv'
<1> DEFINE m == held[c]
<1>1. HoldsMatch(c) /\ pc[c] \notin Critical \union {"scan"} /\ context_guard[m] = None
  BY DEF Join, At, HoldsMatch, Critical
<1>2. m \in Ids /\ m <= match_id /\ m # None /\ matches[m] \in Matches
  BY <1>1, HeldMatch
<1>3. UNCHANGED <<clients, guards, system, crashed, history>>
  BY DEF Join
<1>4. LocalType' /\ OthersStay(c) /\ Becomes(c, "idle", None, 0, FALSE)
  BY FinishStep DEF MatchInv, Join
<1>5. HandlerFits(c)'
  BY <1>4 DEF HandlerFits, Becomes, HoldsMatch, Critical
<1>6. matches' \in [Ids -> Matches \union {None}] /\ MatchFacts'
  <2>1. CASE UNCHANGED matches
    BY <1>3, <1>4, <1>5, <2>1, QuietStep
    DEF MatchInv, TypeOK, MatchesExist, clients, system, history
  <2>2. ASSUME NEW i \in SlotsOf(m, None), matches' = [matches EXCEPT ![m] = Joined(@, c, i)]
        PROVE  matches' \in [Ids -> Matches \union {None}] /\ MatchFacts'
    <3> DEFINE x == Joined(matches[m], c, i)
    <3>1. matches' = [matches EXCEPT ![m] = x]
      BY <2>2
    <3>2. i \in Slots /\ matches[m].slots[i].key = None /\ matches[m].slots[i].ok \in BOOLEAN
      BY <1>2, SlotType DEF SlotsOf
    <3>3. /\ x \in Matches /\ x.mapid = matches[m].mapid
          /\ x.slots[i].ok = matches[m].slots[i].ok
          /\ \A j \in Slots \ {i} : x.slots[j] = matches[m].slots[j]
      BY <1>2, <3>2, JoinedMatch
    <3>4. \A j \in Slots : x.slots[j].ok => [key |-> x.slots[j].key, match |-> m] \in accepted
      <4>1. [key |-> None, match |-> m] \notin accepted
        BY NoneIsNothing DEF MatchInv, TypeOK
      <4>2. ~x.slots[i].ok
        BY <1>2, <3>2, <3>3, <4>1 DEF MatchInv, FlagsAreAccepted
      <4> QED
        BY <1>2, <3>3, <4>2 DEF MatchInv, FlagsAreAccepted
    <3> HIDE DEF x
    <3> QED
      BY <1>1, <1>3, <1>4, <1>5, <3>1, <3>3, <3>4, MatchStep DEF clients, system, history
  <2> QED
    BY <2>1, <2>2 DEF Join
<1>7. LocksHeld'
  BY <1>1, <1>3, <1>4, LocksStay DEF Becomes, Critical
<1>8. TypeOK'
  BY <1>3, <1>4, <1>6 DEF MatchInv, TypeOK, LocalType, clients, guards, system, history
<1> QED
  BY <1>3, <1>6, <1>7, <1>8 DEF MatchInv, MatchFacts, MovedOnlyIfAccepted, history

\* Clearing a slot leaves slots, and no acceptance that was not there.
LEMMA ClearedSlots ==
  ASSUME MatchInv, NEW c \in Clients, HoldsMatch(c), NEW slots \in Cleared(c)
  PROVE  /\ slots \in [Slots -> [key : Clients \union {None}, ok : BOOLEAN]]
         /\ \A i \in Slots : slots[i].ok => slots[i] = HeldSlots(c)[i]
<1>1. HeldSlots(c) \in [Slots -> [key : Clients \union {None}, ok : BOOLEAN]]
  BY HeldMatch DEF HeldSlots, Matches
<1>2. CASE slots = HeldSlots(c)
  BY <1>1, <1>2
<1>3. ASSUME NEW i \in Slots,
             slots = [HeldSlots(c) EXCEPT ![i] = [key |-> None, ok |-> FALSE]]
      PROVE  /\ slots \in [Slots -> [key : Clients \union {None}, ok : BOOLEAN]]
             /\ \A j \in Slots : slots[j].ok => slots[j] = HeldSlots(c)[j]
  BY <1>1, <1>3
<1> QED
  BY <1>2, <1>3 DEF Cleared, SlotsOf

\* Remove takes acceptances away only while no completed match is moving its players.
LEMMA RemoveKeeps ==
  ASSUME MatchInv, NEW c \in Clients, Remove(c)
  PROVE  MatchInv'
<1> DEFINE m == held[c]
<1>1. HoldsMatch(c) /\ pc[c] \notin Critical \union {"scan"} /\ context_guard[m] = None
  BY DEF Remove, At, HoldsMatch, Critical
<1>2. m \in Ids /\ m <= match_id /\ m # None /\ matches[m] \in Matches
  BY <1>1, HeldMatch
<1>3. UNCHANGED <<clients, match_guard, system, crashed, history>>
  BY DEF Remove
<1>4. PICK slots \in Cleared(c) :
          /\ matches' = [matches EXCEPT ![m] = [@ EXCEPT !.slots = slots]]
          /\ \/ KeepContext(c, "erase")
             \/ Finish(c) /\ UNCHANGED context_guard
  BY DEF Remove
<1> DEFINE x == [matches[m] EXCEPT !.slots = slots]
<1>5. matches' = [matches EXCEPT ![m] = x]
  BY <1>4
<1>6. x \in Matches /\ x.mapid = matches[m].mapid /\ x.slots = slots
  BY <1>1, <1>2, ClearedSlots DEF Matches
<1>7. \A i \in Slots : x.slots[i].ok => [key |-> x.slots[i].key, match |-> m] \in accepted
  BY <1>1, <1>2, <1>6, ClearedSlots DEF MatchInv, FlagsAreAccepted, HeldSlots
<1> HIDE DEF x
<1>8. CASE KeepContext(c, "erase")
  <2>1. LocalType' /\ OthersStay(c) /\ Becomes(c, "erase", held[c], at[c], arg[c])
    BY <1>8, GotoStep DEF MatchInv, KeepContext, Steps, Critical
  <2>2. HandlerFits(c)'
    BY <1>2, <1>3, <2>1 DEF HandlerFits, Becomes, HoldsMatch, Critical, system
  <2>3. matches' \in [Ids -> Matches \union {None}] /\ MatchFacts'
    BY <1>1, <1>3, <1>5, <1>6, <1>7, <2>1, <2>2, MatchStep DEF clients, system, history
  <2>4. LocksHeld'
    BY <1>1, <1>3, <1>8, <2>1, LocksEntered DEF KeepContext, Becomes, Critical
  <2>5. TypeOK'
    BY <1>2, <1>3, <1>8, <2>1, <2>3
    DEF MatchInv, TypeOK, LocalType, KeepContext, clients, system, history
  <2> QED
    BY <1>3, <2>3, <2>4, <2>5 DEF MatchInv, MatchFacts, MovedOnlyIfAccepted, history
<1>9. CASE Finish(c) /\ UNCHANGED context_guard
  <2>1. LocalType' /\ OthersStay(c) /\ Becomes(c, "idle", None, 0, FALSE)
    BY <1>9, FinishStep DEF MatchInv
  <2>2. HandlerFits(c)'
    BY <2>1 DEF HandlerFits, Becomes, HoldsMatch, Critical
  <2>3. matches' \in [Ids -> Matches \union {None}] /\ MatchFacts'
    BY <1>1, <1>3, <1>5, <1>6, <1>7, <2>1, <2>2, MatchStep DEF clients, system, history
  <2>4. LocksHeld'
    BY <1>1, <1>3, <1>9, <2>1, LocksStay DEF guards, Becomes, Critical
  <2>5. TypeOK'
    BY <1>3, <1>9, <2>1, <2>3 DEF MatchInv, TypeOK, LocalType, clients, system, history
  <2> QED
    BY <1>3, <2>3, <2>4, <2>5 DEF MatchInv, MatchFacts, MovedOnlyIfAccepted, history
<1> QED
  BY <1>4, <1>8, <1>9

\* The three removals from match_queue_, all inside the critical section of the match.
LEMMA EraseKeeps ==
  ASSUME MatchInv, NEW c \in Clients, EraseEmpty(c) \/ EraseDeclined(c) \/ EraseCompleted(c)
  PROVE  MatchInv'
<1>1. /\ UNCHANGED <<clients, match_guard, match_id, matches, history>>
      /\ crashed' \in {crashed, TRUE}
      /\ match_queue' \subseteq match_queue
      /\ HoldsMatch(c)
      /\ pc[c] \in Critical \ {"cancel", "lookup", "move"}
  BY DEF EraseEmpty, EraseDeclined, EraseCompleted, Crash, RemoveMatch, At, HoldsMatch, Critical, history
<1>2. held[c] \in Ids /\ held[c] <= match_id /\ held[c] # None
  BY <1>1, HeldMatch
<1>3. CASE EraseEmpty(c)
  <2>1. LocalType' /\ OthersStay(c) /\ Becomes(c, "idle", None, 0, FALSE)
    BY <1>3, FinishStep DEF MatchInv, EraseEmpty
  <2>2. HandlerFits(c)'
    BY <2>1 DEF HandlerFits, Becomes, HoldsMatch, Critical
  <2>3. MatchFacts'
    BY <1>1, <2>1, <2>2, QuietStep DEF MatchInv, MatchesExist, clients, history
  <2>4. LocksHeld'
    BY <1>1, <1>3, <2>1, LocksLeft DEF EraseEmpty, Becomes, Critical
  <2>5. TypeOK'
    BY <1>1, <1>2, <1>3, <2>1 DEF MatchInv, TypeOK, LocalType, EraseEmpty, clients, history
  <2> QED
    BY <1>1, <2>3, <2>4, <2>5 DEF MatchInv, MatchFacts, MovedOnlyIfAccepted, history
<1>4. ASSUME NEW step \in {"cancel", "lookup"}, FirstSlot(c, step),
             step = "lookup" => pc[c] = "erase_completed"
      PROVE  MatchInv'
  <2>1. LocalType' /\ OthersStay(c) /\ Becomes(c, step, held[c], 1, arg[c])
    BY <1>4, FirstSlotStep DEF MatchInv, Steps, Critical
  <2>2. 1 \in Slots
    BY MatchingAssumption DEF Slots
  <2>3. HandlerFits(c)'
    BY <1>1, <1>2, <1>4, <2>1, <2>2, AllHandlersFit DEF HandlerFits, Becomes, HoldsMatch, HeldSlots
  <2>4. MatchFacts'
    BY <1>1, <2>1, <2>3, QuietStep DEF MatchInv, MatchesExist, clients, history
  <2>5. LocksHeld'
    BY <1>1, <1>4, <2>1, LocksStay DEF FirstSlot, Becomes, Critical, guards
  <2>6. TypeOK'
    BY <1>1, <1>4, <2>1 DEF MatchInv, TypeOK, LocalType, FirstSlot, clients, history
  <2> QED
    BY <1>1, <2>4, <2>5, <2>6 DEF MatchInv, MatchFacts, MovedOnlyIfAccepted, history
<1>5. CASE Crash
  <2>1. LocalType' /\ OthersStay(c)
    BY <1>5 DEF MatchInv, TypeOK, LocalType, OthersStay, Crash, local
  <2>2. HandlerFits(c)'
    BY <1>1, <1>5, AllHandlersFit DEF HandlerFits, HoldsMatch, HeldSlots, Crash, local, history
  <2>3. MatchFacts'
    BY <1>1, <2>1, <2>2, QuietStep DEF MatchInv, MatchesExist, clients, history
  <2>4. LocksHeld'
    BY <1>1, <1>5, <2>1, LocksStay DEF Crash, local, guards
  <2>5. TypeOK'
    BY <1>1, <1>5, <2>1 DEF MatchInv, TypeOK, LocalType, Crash, clients, history
  <2> QED
    BY <1>1, <2>3, <2>4, <2>5 DEF MatchInv, MatchFacts, MovedOnlyIfAccepted, history
<1> QED
  BY <1>3, <1>4, <1>5 DEF EraseDeclined, EraseCompleted, At

\* A decline takes the lock of its match and changes no slot.
LEMMA DeclineKeeps ==
  ASSUME MatchInv, NEW c \in Clients, Decline(c)
  PROVE  MatchInv'
<1>1. HoldsMatch(c) /\ pc[c] \notin Critical \union {"scan"} /\ context_guard[held[c]] = None
  BY DEF Decline, At, HoldsMatch, Critical
<1>2. held[c] \in Ids /\ held[c] <= match_id /\ held[c] # None
  BY <1>1, HeldMatch
<1>3. LocalType' /\ OthersStay(c) /\ Becomes(c, "erase_declined", held[c], at[c], arg[c])
  BY GotoStep DEF MatchInv, Decline, KeepContext, Steps, Critical
<1>4. HandlerFits(c)'
  BY <1>2, <1>3 DEF HandlerFits, Becomes, HoldsMatch, Critical, Decline, system
<1>5. MatchFacts'
  BY <1>3, <1>4, QuietStep DEF MatchInv, MatchesExist, Decline, clients, system, history
<1>6. LocksHeld'
  BY <1>1, <1>3, LocksEntered DEF Decline, KeepContext, Becomes, Critical
<1>7. TypeOK'
  BY <1>2, <1>3 DEF MatchInv, TypeOK, LocalType, Decline, KeepContext, clients, system, history
<1> QED
  BY <1>5, <1>6, <1>7 DEF MatchInv, MatchFacts, MovedOnlyIfAccepted, Decline, history

\* Noting an acceptance leaves slots; the only acceptance that is new is c's own.
LEMMA AnsweredSlots ==
  ASSUME MatchInv, NEW c \in Clients, HoldsMatch(c), NEW slots \in Answered(c)
  PROVE  /\ slots \in [Slots -> [key : Clients \union {None}, ok : BOOLEAN]]
         /\ \A i \in Slots : \/ slots[i] = HeldSlots(c)[i]
                             \/ i \in SlotsOf(held[c], c) /\ slots[i].key = c
<1>1. HeldSlots(c) \in [Slots -> [key : Clients \union {None}, ok : BOOLEAN]]
  BY HeldMatch DEF HeldSlots, Matches
<1>2. CASE slots = HeldSlots(c)
  BY <1>1, <1>2
<1>3. ASSUME NEW i \in SlotsOf(held[c], c),
             slots = [HeldSlots(c) EXCEPT ![i] = [key |-> @.key, ok |-> TRUE]]
      PROVE  /\ slots \in [Slots -> [key : Clients \union {None}, ok : BOOLEAN]]
             /\ slots[i].key = c
             /\ \A j \in Slots \ {i} : slots[j] = HeldSlots(c)[j]
  <2>1. i \in Slots /\ HeldSlots(c)[i].key = c
    BY DEF SlotsOf, HeldSlots
  <2>2. slots = [HeldSlots(c) EXCEPT ![i] = [key |-> c, ok |-> TRUE]]
    BY <1>1, <1>3, <2>1
  <2> QED
    BY <1>1, <2>1, <2>2
<1> QED
  BY <1>2, <1>3 DEF Answered

\* An acceptance is noted for its own player, and completes the match only when all slots have one.
LEMMA AcceptKeeps ==
  ASSUME MatchInv, NEW c \in Clients, Accept(c)
  PROVE  MatchInv'
<1> DEFINE m == held[c]
<1>1. HoldsMatch(c) /\ pc[c] \notin Critical \union {"scan"} /\ context_guard[m] = None
  BY DEF Accept, At, HoldsMatch, Critical
<1>2. m \in Ids /\ m <= match_id /\ m # None /\ matches[m] \in Matches
  BY <1>1, HeldMatch
<1>3. UNCHANGED <<clients, match_guard, system, crashed, moved>>
  BY DEF Accept
<1>4. PICK slots \in Answered(c) :
         \/ /\ \A i \in Slots : slots[i].ok
            /\ matches' = [matches EXCEPT ![m] = [@ EXCEPT !.slots = slots, !.state = "kCompleted"]]
            /\ KeepContext(c, "erase_completed")
         \/ /\ matches' = [matches EXCEPT ![m] = [@ EXCEPT !.slots = slots]]
            /\ Finish(c)
            /\ UNCHANGED context_guard
  BY DEF Accept
<1>5. /\ slots \in [Slots -> [key : Clients \union {None}, ok : BOOLEAN]]
      /\ \A i \in Slots : \/ slots[i] = HeldSlots(c)[i]
                          \/ i \in SlotsOf(m, c) /\ slots[i].key = c
  BY <1>1, <1>4, AnsweredSlots
<1>6. /\ accepted \subseteq accepted'
      /\ accepted' \subseteq [key : Clients, match : Ids]
      /\ SlotsOf(m, c) # {} => [key |-> c, match |-> m] \in accepted'
  <2>1. {[key |-> matches[m].slots[i].key, match |-> m] : i \in SlotsOf(m, c)}
            \subseteq {[key |-> c, match |-> m]}
    BY DEF SlotsOf
  <2>2. SlotsOf(m, c) # {} => [key |-> c, match |-> m]
            \in {[key |-> matches[m].slots[i].key, match |-> m] : i \in SlotsOf(m, c)}
    BY DEF SlotsOf
  <2> QED
    BY <1>2, <2>1, <2>2 DEF MatchInv, TypeOK, Accept
<1>7. \A i \in Slots : slots[i].ok => [key |-> slots[i].key, match |-> m] \in accepted'
  BY <1>2, <1>5, <1>6 DEF MatchInv, FlagsAreAccepted, HeldSlots
<1>8. MovedOnlyIfAccepted'
  BY <1>3, <1>6 DEF MatchInv, MovedOnlyIfAccepted
<1>9. ASSUME \A i \in Slots : slots[i].ok,
             matches' = [matches EXCEPT ![m] = [@ EXCEPT !.slots = slots, !.state = "kCompleted"]],
             KeepContext(c, "erase_completed")
      PROVE  MatchInv'
  <2> DEFINE x == [matches[m] EXCEPT !.slots = slots, !.state = "kCompleted"]
  <2>1. x \in Matches /\ x.mapid = matches[m].mapid /\ x.slots = slots
    BY <1>2, <1>5 DEF Matches
  <2>2. matches' = [matches EXCEPT ![m] = x]
    BY <1>9
  <2> HIDE DEF x
  <2>3. LocalType' /\ OthersStay(c) /\ Becomes(c, "erase_completed", m, at[c], arg[c])
    BY <1>9, GotoStep DEF MatchInv, KeepContext, Steps, Critical
  <2>4. matches'[m].slots = slots
    BY <1>2, <2>1, <2>2 DEF MatchInv, TypeOK
  <2>5. HandlerFits(c)'
    BY <1>2, <1>3, <1>9, <2>3, <2>4 DEF HandlerFits, Becomes, HoldsMatch, HeldSlots, Critical, system
  <2>6. matches' \in [Ids -> Matches \union {None}] /\ MatchFacts'
    BY <1>1, <1>3, <1>6, <1>7, <2>1, <2>2, <2>3, <2>5, MatchStep DEF clients, system
  <2>7. LocksHeld'
    BY <1>1, <1>3, <1>9, <2>3, LocksEntered DEF KeepContext, Becomes, Critical
  <2>8. TypeOK'
    BY <1>2, <1>3, <1>6, <1>9, <2>3, <2>6
    DEF MatchInv, TypeOK, LocalType, KeepContext, clients, system
  <2> QED
    BY <1>8, <2>6, <2>7, <2>8 DEF MatchInv, MatchFacts
<1>10. ASSUME matches' = [matches EXCEPT ![m] = [@ EXCEPT !.slots = slots]],
              Finish(c), UNCHANGED context_guard
       PROVE  MatchInv'
  <2> DEFINE x == [matches[m] EXCEPT !.slots = slots]
  <2>1. x \in Matches /\ x.mapid = matches[m].mapid /\ x.slots = slots
    BY <1>2, <1>5 DEF Matches
  <2>2. matches' = [matches EXCEPT ![m] = x]
    BY <1>10
  <2> HIDE DEF x
  <2>3. LocalType' /\ OthersStay(c) /\ Becomes(c, "idle", None, 0, FALSE)
    BY <1>10, FinishStep DEF MatchInv
  <2>4. HandlerFits(c)'
    BY <2>3 DEF HandlerFits, Becomes, HoldsMatch, Critical
  <2>5. matches' \in [Ids -> Matches \union {None}] /\ MatchFacts'
    BY <1>1, <1>3, <1>6, <1>7, <2>1, <2>2, <2>3, <2>4, MatchStep DEF clients, system
  <2>6. LocksHeld'
    BY <1>1, <1>3, <1>10, <2>3, LocksStay DEF guards, Becomes, Critical
  <2>7. TypeOK'
    BY <1>3, <1>6, <1>10, <2>3, <2>5 DEF MatchInv, TypeOK, LocalType, clients, system
  <2> QED
    BY <1>8, <2>5, <2>6, <2>7 DEF MatchInv, MatchFacts
<1> QED
  BY <1>4, <1>9, <1>10

\* A walk over the slots goes on or ends.
LEMMA WalkKeeps ==
  ASSUME MatchInv, NEW c \in Clients, NEW step \in {"cancel", "lookup"},
         pc[c] \in {"cancel", "lookup", "move"},
         step = "lookup" => pc[c] \in {"lookup", "move"},
         NextSlot(c, step),
         UNCHANGED <<match_guard, system, matches, accepted>>,
         \A d \in Clients : match_'[d] # None => match_'[d] <= match_id
  PROVE  /\ LocalType' /\ MatchFacts' /\ LocksHeld'
         /\ context_guard' \in [Ids -> Clients \union {None}]
<1>1. HoldsMatch(c) /\ pc[c] \in Critical /\ at[c] \in Slots
  BY DEF MatchInv, LocalsFit, HoldsMatch, Critical
<1>2. held[c] \in Ids /\ held[c] <= match_id /\ held[c] # None
  BY <1>1, HeldMatch
<1>3. /\ LocalType' /\ OthersStay(c)
      /\ \/ /\ Becomes(c, "idle", None, 0, FALSE)
            /\ context_guard' = [context_guard EXCEPT ![held[c]] = None]
         \/ /\ Becomes(c, step, held[c], at[c] + 1, arg[c])
            /\ at[c] + 1 \in Slots
            /\ UNCHANGED context_guard
  BY <1>1, NextSlotStep DEF MatchInv, Steps, Critical
<1>4. HandlerFits(c)'
  <2>1. CASE Becomes(c, "idle", None, 0, FALSE)
    BY <2>1 DEF HandlerFits, Becomes, HoldsMatch, Critical
  <2>2. CASE Becomes(c, step, held[c], at[c] + 1, arg[c]) /\ at[c] + 1 \in Slots
    BY <1>2, <2>2, AllHandlersFit DEF HandlerFits, Becomes, HoldsMatch, HeldSlots, system
  <2> QED
    BY <1>3, <2>1, <2>2
<1>5. MatchFacts'
  BY <1>3, <1>4, QuietStep DEF system
<1>6. LocksHeld'
  <2>1. CASE /\ Becomes(c, "idle", None, 0, FALSE)
             /\ context_guard' = [context_guard EXCEPT ![held[c]] = None]
    BY <1>1, <1>3, <2>1, LocksLeft DEF Becomes, Critical
  <2>2. CASE Becomes(c, step, held[c], at[c] + 1, arg[c]) /\ UNCHANGED context_guard
    BY <1>1, <1>3, <2>2, LocksStay DEF Becomes, Critical, guards
  <2> QED
    BY <1>3, <2>1, <2>2
<1> QED
  BY <1>2, <1>3, <1>5, <1>6 DEF MatchInv, TypeOK

\* The walk of a decline resets weak pointers and nothing else.
LEMMA CancelKeeps ==
  ASSUME MatchInv, NEW c \in Clients, Cancel(c)
  PROVE  MatchInv'
<1>1. UNCHANGED <<conn, character, packets, match_guard, system, matches, crashed, history>>
  BY DEF Cancel
<1>2. /\ match_' \in [Clients -> Ids \union {None}]
      /\ \A d \in Clients : match_'[d] # None => match_'[d] <= match_id
  BY DEF MatchInv, TypeOK, MatchesExist, Cancel
<1>3. /\ LocalType' /\ MatchFacts' /\ LocksHeld'
      /\ context_guard' \in [Ids -> Clients \union {None}]
  BY <1>1, <1>2, WalkKeeps DEF Cancel, At, history
<1>4. TypeOK'
  BY <1>1, <1>2, <1>3 DEF MatchInv, TypeOK, LocalType, system, history
<1> QED
  BY <1>1, <1>3, <1>4 DEF MatchInv, MatchFacts, MovedOnlyIfAccepted, history

\* A player is moved only after its acceptance.
LEMMA MoveIsAccepted ==
  ASSUME MatchInv, NEW c \in Clients, pc[c] \in {"lookup", "move"}
  PROVE  [key |-> HeldSlots(c)[at[c]].key, match |-> held[c]] \in accepted
<1>1. HoldsMatch(c) /\ at[c] \in Slots /\ \A i \in Slots : HeldSlots(c)[i].ok
  BY DEF MatchInv, LocalsFit, CompletedStays, HoldsMatch, Critical
<1> QED
  BY <1>1, HeldMatch DEF MatchInv, FlagsAreAccepted, HeldSlots

\* The two steps of the walk over the slots of a completed match.
LEMMA LookupAndMoveKeep ==
  ASSUME MatchInv, NEW c \in Clients, Lookup(c) \/ Move(c)
  PROVE  MatchInv'
<1>1. UNCHANGED <<clients, match_guard, system, matches, accepted>> /\ pc[c] \in {"lookup", "move"}
  BY DEF Lookup, Move, At
<1>2. \A d \in Clients : match_'[d] # None => match_'[d] <= match_id
  BY <1>1 DEF MatchInv, MatchesExist, clients
<1>3. /\ moved \subseteq moved'
      /\ moved' \subseteq moved \union {[key |-> HeldSlots(c)[at[c]].key, match |-> held[c]]}
  BY DEF Lookup, Move, Crash
<1>4. MovedOnlyIfAccepted' /\ moved' \subseteq [key : Clients, match : Ids] /\ crashed' \in BOOLEAN
  <2>1. moved' \subseteq accepted
    BY <1>1, <1>3, MoveIsAccepted DEF MatchInv, MovedOnlyIfAccepted
  <2>2. accepted \subseteq [key : Clients, match : Ids] /\ crashed \in BOOLEAN
    BY DEF MatchInv, TypeOK
  <2>3. crashed' \in {crashed, TRUE}
    BY DEF Lookup, Move, Crash
  <2> QED
    BY <1>1, <2>1, <2>2, <2>3 DEF MovedOnlyIfAccepted
<1>5. ASSUME LocalType', MatchFacts', LocksHeld', context_guard' \in [Ids -> Clients \union {None}]
      PROVE  MatchInv'
  <2>1. TypeOK'
    BY <1>1, <1>4, <1>5 DEF MatchInv, TypeOK, LocalType, clients, system
  <2> QED
    BY <1>4, <1>5, <2>1 DEF MatchInv, MatchFacts
<1>6. CASE Crash
  <2>1. OthersStay(c) /\ HandlerFits(c)'
    BY <1>1, <1>6, AllHandlersFit
    DEF OthersStay, HandlerFits, HoldsMatch, HeldSlots, Crash, local, system
  <2>2. LocalType' /\ MatchFacts'
    BY <1>1, <1>2, <1>6, <2>1, QuietStep DEF MatchInv, TypeOK, LocalType, Crash, local, system
  <2>3. LocksHeld'
    BY <1>1, <1>6, <2>1, LocksStay DEF Crash, local, guards
  <2> QED
    BY <1>5, <1>6, <2>2, <2>3 DEF MatchInv, TypeOK, Crash
<1>7. CASE Goto(c, "move") /\ UNCHANGED <<held, at, arg, context_guard>>
  <2>1. LocalType' /\ OthersStay(c) /\ Becomes(c, "move", held[c], at[c], arg[c])
    BY <1>7, GotoStep DEF MatchInv, Steps, Critical
  <2>2. HandlerFits(c)'
    BY <1>1, <2>1, AllHandlersFit
    DEF HandlerFits, Becomes, HoldsMatch, HeldSlots, Critical, system
  <2>3. MatchFacts'
    BY <1>1, <1>2, <2>1, <2>2, QuietStep DEF system
  <2>4. LocksHeld'
    BY <1>1, <1>7, <2>1, LocksStay DEF Becomes, Critical, guards
  <2> QED
    BY <1>5, <1>7, <2>1, <2>3, <2>4 DEF MatchInv, TypeOK
<1>8. CASE NextSlot(c, "lookup")
  BY <1>1, <1>2, <1>5, <1>8, WalkKeeps
<1> QED
  BY <1>6, <1>7, <1>8 DEF Lookup, Move

-----------------------------------------------------------------------------
(* The theorems.                                                           *)

\* Nothing is queued, locked or accepted at the start.
LEMMA InitInv == Init => MatchInv
<1> SUFFICES ASSUME Init PROVE MatchInv
  OBVIOUS
<1>1. TypeOK
  <2>1. /\ conn \in [Clients -> {"open", "closing", "gone"}]
        /\ character \in [Clients -> BOOLEAN]
        /\ match_ \in [Clients -> Ids \union {None}]
        /\ packets \in [Clients -> 0..MaxPackets]
    BY MatchingAssumption DEF Init
  <2>2. /\ pc \in [Clients -> Steps]
        /\ held \in [Clients -> Ids \union {None}]
        /\ at \in [Clients -> Nat]
        /\ arg \in [Clients -> Maps \union BOOLEAN]
    BY DEF Init, Steps
  <2>3. /\ match_guard \in Clients \union {None}
        /\ context_guard \in [Ids -> Clients \union {None}]
        /\ match_queue \subseteq Ids
        /\ match_id \in 0..MaxMatches
        /\ matches \in [Ids -> Matches \union {None}]
    BY MatchingAssumption DEF Init
  <2> QED
    BY <2>1, <2>2, <2>3 DEF Init, TypeOK
<1>2. MatchesExist /\ LocksHeld /\ LocalsFit
  BY NoneIsNothing DEF Init, MatchesExist, HoldsMatch, LocksHeld, LocalsFit, Critical, Ids
<1>3. SearchedInVain /\ OneMatchPerMap /\ FlagsAreAccepted /\ CompletedStays /\ MovedOnlyIfAccepted
  BY DEF Init, SearchedInVain, OneMatchPerMap, FlagsAreAccepted, CompletedStays, MovedOnlyIfAccepted,
     Ids
<1> QED
  BY <1>1, <1>2, <1>3 DEF MatchInv

\* Every step of every handler keeps the invariant.
LEMMA StepInv ==
  ASSUME MatchInv, [Next]_vars
  PROVE  MatchInv'
<1>1. CASE UNCHANGED vars
  <2>1. LocalType' /\ MatchFacts' /\ LocksHeld' /\ MovedOnlyIfAccepted'
    BY <1>1, IdleKeeps DEF vars, clients
  <2>2. TypeOK'
    BY <1>1 DEF MatchInv, TypeOK, vars, clients, local, guards, system, history
  <2> QED
    BY <2>1, <2>2 DEF MatchInv, MatchFacts
<1>2. ASSUME NEW c \in Clients, Event(c)
      PROVE  MatchInv'
  BY <1>2, ConnectionSteps, PacketSteps, OnCloseSteps DEF Event
<1>3. ASSUME NEW c \in Clients, Step(c)
      PROVE  MatchInv'
  <2>1. CASE LockMatchGuard(c) \/ ScanQueue(c) \/ CreateMatch(c) \/ SetMatchWeak(c)
    BY <2>1, LockMatchGuardKeeps, ScanQueueKeeps, CreateMatchKeeps, SetMatchWeakKeeps
  <2>2. CASE Join(c) \/ Remove(c) \/ Decline(c) \/ Cancel(c) \/ Accept(c)
    BY <2>2, JoinKeeps, RemoveKeeps, DeclineKeeps, CancelKeeps, AcceptKeeps
  <2>3. CASE EraseEmpty(c) \/ EraseDeclined(c) \/ EraseCompleted(c)
    BY <2>3, EraseKeeps
  <2>4. CASE Lookup(c) \/ Move(c) \/ OnCloseDrop(c)
    BY <2>4, LookupAndMoveKeep, OnCloseSteps
  <2> QED
    BY <1>3, <2>1, <2>2, <2>3, <2>4 DEF Step
<1> QED
  BY <1>1, <1>2, <1>3 DEF Next

\* The invariant of matchmaking, whatever the clients send and however the IO workers interleave.
THEOREM MatchInvariant == Spec => []MatchInv
BY InitInv, StepInv, PTL DEF Spec

\* The types of matchmaking's state: no id beyond the counter, no lock with two holders.
THEOREM TypeCorrect == Spec => []TypeOK
<1>1. MatchInv => TypeOK
  BY DEF MatchInv
<1> QED
  BY <1>1, MatchInvariant, PTL

\* Players who ask for one dungeon meet: match_queue_ never has two matches for a map.
THEOREM PlayersOfOneMapMeet == Spec => []OneMatchPerMap
<1>1. MatchInv => OneMatchPerMap
  BY DEF MatchInv
<1> QED
  BY <1>1, MatchInvariant, PTL

\* The keys that Match::Confirm dereferences are set, and each of them has accepted.
THEOREM FullPartiesMove == Spec => []MovesFullParty
<1>1. MatchInv => MovesFullParty
  <2> SUFFICES ASSUME MatchInv, NEW c \in Clients,
                      pc[c] \in {"erase_completed", "lookup", "move"}, NEW i \in Slots
               PROVE  [key |-> HeldSlots(c)[i].key, match |-> held[c]] \in accepted
    BY DEF MovesFullParty
  <2>1. HoldsMatch(c) /\ HeldSlots(c)[i].ok
    BY DEF MatchInv, CompletedStays, HoldsMatch, Critical
  <2> QED
    BY <2>1, HeldMatch DEF MatchInv, FlagsAreAccepted, HeldSlots
<1> QED
  BY <1>1, MatchInvariant, PTL

\* Nobody is moved into the dungeon of a match without having accepted it.
THEOREM MovedHaveAccepted == Spec => []MovedOnlyIfAccepted
<1>1. MatchInv => MovedOnlyIfAccepted
  BY DEF MatchInv
<1> QED
  BY <1>1, MatchInvariant, PTL

-----------------------------------------------------------------------------
(* No match is abandoned.                                                  *)

\* A match with a player in one of its slots.
HasPlayer(m) == \E i \in Slots : matches[m].slots[i].key # None

\* c's handler will take match m out of match_queue_, or put c into it.
Attends(c, m) ==
    /\ held[c] = m
    /\ \/ pc[c] \in {"erase", "erase_declined"}
       \/ pc[c] \in {"set", "join"} /\ matches[m].state = "kRecruiting"

\* The strengthening of NoAbandonedMatch: who is on its way into an empty match finds it recruiting.
EmptyIsAttended == \A m \in match_queue : HasPlayer(m) \/ \E c \in Clients : Attends(c, m)

\* A step moves one handler.
LEMMA OneHandlerMoves ==
  ASSUME MatchInv, NEW c \in Clients, Event(c) \/ Step(c)
  PROVE  OthersStay(c)
<1>1. CASE \E step \in Steps, m \in Ids \union {None}, x \in Maps \union BOOLEAN : Begin(c, step, m, x)
  BY <1>1, BeginStep DEF MatchInv
<1>2. CASE Finish(c)
  BY <1>2, FinishStep DEF MatchInv
<1>3. CASE \E step \in Steps : Goto(c, step) /\ UNCHANGED <<held, at, arg>>
  BY <1>3, GotoStep DEF MatchInv
<1>4. CASE \E m \in Ids : Return(c, m)
  BY <1>4, ReturnStep DEF MatchInv
<1>5. CASE UNCHANGED local
  BY <1>5 DEF OthersStay, local
<1>6. ASSUME UNCHANGED <<pc, held, arg>>, NEW i \in Ids, at' = [at EXCEPT ![c] = i]
      PROVE  OthersStay(c)
  BY <1>6 DEF MatchInv, TypeOK, OthersStay
<1>7. CASE Event(c) \/ OnCloseDrop(c)
  <2>1. CASE Close(c) \/ HandleConfirmRequest(c) \/ Throw(c)
    BY <1>5, <2>1 DEF Close, HandleConfirmRequest, Throw
  <2>2. CASE RequestMatch(c) /\ ~Throw(c)
    BY <1>1, <2>2 DEF RequestMatch, Steps
  <2>3. CASE \/ CancelMatch(c) /\ ~Throw(c)
             \/ HandleMatchingComfirmRequest(c)
             \/ OnCloseDrop(c) /\ ~Finish(c)
    <3>1. HasMatch(c) => match_[c] \in Ids
      BY MatchOfClient
    <3> QED
      BY <1>1, <2>3, <3>1 DEF CancelMatch, HandleMatchingComfirmRequest, OnCloseDrop, Steps
  <2>4. CASE OnClose(c)
    BY <1>1, <2>4 DEF OnClose, Steps
  <2> QED
    BY <1>2, <1>7, <2>1, <2>2, <2>3, <2>4 DEF Event
<1>8. CASE LockMatchGuard(c) \/ SetMatchWeak(c) \/ Decline(c)
  BY <1>3, <1>8 DEF LockMatchGuard, SetMatchWeak, Decline, KeepContext, Steps, Critical
<1>9. CASE ScanQueue(c)
  BY <1>4, <1>6, <1>9 DEF ScanQueue
<1>10. CASE CreateMatch(c)
  BY <1>4, <1>10, MatchingAssumption DEF MatchInv, TypeOK, CreateMatch, Ids
<1>11. CASE Join(c) \/ EraseEmpty(c)
  BY <1>2, <1>11 DEF Join, EraseEmpty
<1>12. CASE Remove(c) \/ Accept(c)
  BY <1>2, <1>3, <1>12 DEF Remove, Accept, KeepContext, Steps, Critical
<1>13. CASE EraseDeclined(c) \/ EraseCompleted(c)
  BY <1>5, <1>13, FirstSlotStep DEF MatchInv, EraseDeclined, EraseCompleted, Crash, Steps, Critical
<1>14. CASE Cancel(c) \/ Lookup(c) \/ Move(c)
  <2>1. at[c] \in Slots
    BY <1>14 DEF MatchInv, LocalsFit, Cancel, Lookup, Move, At
  <2>2. CASE \E step \in Steps : NextSlot(c, step)
    BY <2>1, <2>2, NextSlotStep DEF MatchInv
  <2> QED
    BY <1>3, <1>5, <1>14, <2>2 DEF Cancel, Lookup, Move, Crash, Steps, Critical
<1> QED
  BY <1>7, <1>8, <1>9, <1>10, <1>11, <1>12, <1>13, <1>14 DEF Step

\* The queue may lose matches and the handler that moves keeps those that it attends.
LEMMA Undisturbed ==
  ASSUME EmptyIsAttended, NEW c \in Clients, OthersStay(c),
         match_queue' \subseteq match_queue,
         \A m \in match_queue' : matches'[m] = matches[m],
         \A m \in match_queue' : Attends(c, m) => Attends(c, m)'
  PROVE  EmptyIsAttended'
<1> SUFFICES ASSUME NEW m \in match_queue', ~HasPlayer(m)
             PROVE  \E d \in Clients : Attends(d, m)'
  BY DEF EmptyIsAttended, HasPlayer
<1>1. PICK d \in Clients : Attends(d, m)
  BY DEF EmptyIsAttended
<1>2. d # c => Attends(d, m)'
  BY <1>1 DEF Attends, OthersStay
<1> QED
  BY <1>1, <1>2

\* One match changes, that of the handler which moves, and has a player or is attended afterwards.
LEMMA OneMatchChanges ==
  ASSUME MatchInv, EmptyIsAttended, NEW c \in Clients, OthersStay(c), UNCHANGED match_queue,
         NEW h \in Ids, h = held[c], NEW x, matches' = [matches EXCEPT ![h] = x],
         HasPlayer(h)' \/ \E d \in Clients : Attends(d, h)'
  PROVE  EmptyIsAttended'
<1>1. \A m \in match_queue : m # h => matches'[m] = matches[m]
  BY DEF MatchInv, TypeOK
<1>2. ASSUME NEW m \in match_queue, m # h, ~HasPlayer(m)
      PROVE  \E d \in Clients : Attends(d, m)'
  <2>1. PICK d \in Clients : Attends(d, m)
    BY <1>2 DEF EmptyIsAttended
  <2> QED
    BY <1>1, <1>2, <2>1 DEF Attends, OthersStay
<1>3. \A m \in match_queue : m # h => HasPlayer(m)' = HasPlayer(m)
  BY <1>1 DEF HasPlayer
<1> QED
  BY <1>2, <1>3 DEF EmptyIsAttended

\* Who joins is in the match; who finds it full attended no empty one.
LEMMA JoinAttends ==
  ASSUME MatchInv, EmptyIsAttended, NEW c \in Clients, Join(c), OthersStay(c)
  PROVE  EmptyIsAttended'
<1>1. HoldsMatch(c) /\ UNCHANGED match_queue /\ pc[c] = "join"
  BY DEF Join, At, HoldsMatch, system
<1>2. held[c] \in Ids /\ matches[held[c]] \in Matches
  BY <1>1, HeldMatch
<1>3. CASE matches[held[c]].state # "kRecruiting" /\ UNCHANGED matches
  BY <1>1, <1>3, Undisturbed DEF Attends
<1>4. ASSUME NEW i \in SlotsOf(held[c], None),
             matches' = [matches EXCEPT ![held[c]] = Joined(@, c, i)]
      PROVE  EmptyIsAttended'
  <2>1. PICK h \in Ids : h = held[c]
    BY <1>2
  <2>2. i \in Slots /\ matches'[h] = Joined(matches[h], c, i)
    BY <1>4, <2>1 DEF MatchInv, TypeOK, SlotsOf
  <2>3. matches'[h].slots[i].key = c
    BY <1>2, <2>1, <2>2 DEF Joined, Matches
  <2>4. HasPlayer(h)'
    BY <2>2, <2>3, NoneIsNothing DEF HasPlayer
  <2> QED
    BY <1>1, <1>4, <2>1, <2>4, OneMatchChanges
<1> QED
  BY <1>3, <1>4 DEF Join

\* Who leaves the last slot goes on to remove the match.
LEMMA RemoveAttends ==
  ASSUME MatchInv, EmptyIsAttended, NEW c \in Clients, Remove(c), OthersStay(c)
  PROVE  EmptyIsAttended'
<1>1. HoldsMatch(c) /\ UNCHANGED match_queue
  BY DEF Remove, At, HoldsMatch, system
<1>2. held[c] \in Ids /\ matches[held[c]] \in Matches
  BY <1>1, HeldMatch
<1>3. PICK slots \in Cleared(c) :
          /\ matches' = [matches EXCEPT ![held[c]] = [@ EXCEPT !.slots = slots]]
          /\ \/ (\A i \in Slots : slots[i].key = None) /\ KeepContext(c, "erase")
             \/ \E i \in Slots : slots[i].key # None
  BY DEF Remove
<1>4. PICK h \in Ids : h = held[c]
  BY <1>2
<1>5. matches'[h].slots = slots
  BY <1>2, <1>3, <1>4 DEF MatchInv, TypeOK, Matches
<1>6. HasPlayer(h)' \/ Attends(c, h)'
  <2>1. CASE KeepContext(c, "erase")
    BY <1>4, <2>1 DEF MatchInv, TypeOK, KeepContext, Goto, Attends
  <2>2. CASE \E i \in Slots : slots[i].key # None
    BY <1>5, <2>2 DEF HasPlayer
  <2> QED
    BY <1>3, <2>1, <2>2
<1> QED
  BY <1>1, <1>3, <1>4, <1>6, OneMatchChanges

\* An acceptance moves no player, and completes only a match with players in it.
LEMMA AcceptAttends ==
  ASSUME MatchInv, EmptyIsAttended, NEW c \in Clients, Accept(c), OthersStay(c)
  PROVE  EmptyIsAttended'
<1>1. HoldsMatch(c) /\ UNCHANGED match_queue /\ pc[c] = "confirm"
  BY DEF Accept, At, HoldsMatch, system
<1>2. held[c] \in Ids /\ matches[held[c]] \in Matches /\ held[c] <= match_id /\ UNCHANGED match_id
  BY <1>1, HeldMatch DEF Accept, system
<1>3. PICK slots \in Answered(c) :
         \/ /\ \A i \in Slots : slots[i].ok
            /\ matches' = [matches EXCEPT ![held[c]] =
                               [@ EXCEPT !.slots = slots, !.state = "kCompleted"]]
         \/ matches' = [matches EXCEPT ![held[c]] = [@ EXCEPT !.slots = slots]]
  BY DEF Accept
<1>4. PICK h \in Ids : h = held[c]
  BY <1>2
<1>5. \A i \in Slots : slots[i].key = matches[h].slots[i].key
  BY <1>1, <1>3, <1>4, AnsweredSlots DEF HeldSlots, SlotsOf
<1>6. CASE /\ \A i \in Slots : slots[i].ok
           /\ matches' = [matches EXCEPT ![held[c]] =
                              [@ EXCEPT !.slots = slots, !.state = "kCompleted"]]
  <2>1. matches'[h].slots = slots
    BY <1>2, <1>4, <1>6 DEF MatchInv, TypeOK, Matches
  <2>2. MatchInv'
    BY AcceptKeeps
  <2>3. 1 \in Slots
    BY MatchingAssumption DEF Slots
  <2>4. [key |-> matches'[h].slots[1].key, match |-> h] \in accepted'
    BY <1>2, <1>4, <1>6, <2>1, <2>2, <2>3 DEF MatchInv, FlagsAreAccepted
  <2>5. matches'[h].slots[1].key \in Clients
    BY <2>2, <2>4 DEF MatchInv, TypeOK
  <2>6. HasPlayer(h)'
    BY <2>3, <2>5, NoneIsNothing DEF HasPlayer
  <2> QED
    BY <1>1, <1>4, <1>6, <2>6, OneMatchChanges
<1>7. CASE matches' = [matches EXCEPT ![held[c]] = [@ EXCEPT !.slots = slots]]
  <2>1. matches'[h].slots = slots /\ matches'[h].state = matches[h].state
    BY <1>2, <1>4, <1>7 DEF MatchInv, TypeOK, Matches
  <2>2. HasPlayer(h) => HasPlayer(h)'
    BY <1>5, <2>1 DEF HasPlayer
  <2>3. \A d \in Clients : Attends(d, h) => Attends(d, h)'
    BY <1>1, <2>1 DEF Attends, OthersStay
  <2>4. \A m \in match_queue : m # h => matches'[m] = matches[m]
    BY <1>4, <1>7 DEF MatchInv, TypeOK
  <2>5. CASE h \in match_queue
    <3>1. HasPlayer(h)' \/ \E d \in Clients : Attends(d, h)'
      BY <2>2, <2>3, <2>5 DEF EmptyIsAttended
    <3> QED
      BY <1>1, <1>4, <1>7, <3>1, OneMatchChanges
  <2>6. CASE h \notin match_queue
    BY <1>1, <2>4, <2>6, Undisturbed DEF Attends
  <2> QED
    BY <2>5, <2>6
<1> QED
  BY <1>3, <1>6, <1>7

\* A new match recruits, and the handler that created it is on its way into it.
LEMMA CreateAttends ==
  ASSUME MatchInv, EmptyIsAttended, NEW c \in Clients, CreateMatch(c), OthersStay(c)
  PROVE  EmptyIsAttended'
<1>1. PICK n \in Ids : n = match_id + 1
  BY MatchingAssumption DEF MatchInv, TypeOK, CreateMatch, Ids
<1>2. /\ pc[c] = "scan" /\ match_queue' = match_queue \union {n}
      /\ pc'[c] = "set" /\ held'[c] = n
      /\ matches' = [matches EXCEPT ![n] = NewMatch(arg[c])]
  BY <1>1 DEF MatchInv, TypeOK, CreateMatch, At, Return, Goto
<1>3. matches'[n].state = "kRecruiting" /\ \A m \in match_queue \ {n} : matches'[m] = matches[m]
  BY <1>2 DEF MatchInv, TypeOK, NewMatch
<1>4. Attends(c, n)'
  BY <1>2, <1>3 DEF Attends
<1>5. ASSUME NEW m \in match_queue \ {n}, ~HasPlayer(m)
      PROVE  \E d \in Clients : Attends(d, m)'
  <2>1. PICK d \in Clients : Attends(d, m)
    BY <1>5 DEF EmptyIsAttended
  <2>2. d # c
    BY <1>2, <2>1 DEF Attends
  <2> QED
    BY <1>3, <2>1, <2>2 DEF Attends, OthersStay
<1>6. \A m \in match_queue \ {n} : HasPlayer(m)' = HasPlayer(m)
  BY <1>3 DEF HasPlayer
<1> QED
  BY <1>2, <1>4, <1>5, <1>6 DEF EmptyIsAttended

\* Every step keeps an empty match attended.
LEMMA StepAttends ==
  ASSUME MatchInv, EmptyIsAttended, [Next]_vars
  PROVE  EmptyIsAttended'
<1>1. CASE UNCHANGED vars
  BY <1>1 DEF EmptyIsAttended, HasPlayer, Attends, vars, local, system
<1>2. ASSUME NEW c \in Clients, Event(c) \/ Step(c)
      PROVE  EmptyIsAttended'
  <2>1. OthersStay(c)
    BY <1>2, OneHandlerMoves
  <2>2. ASSUME UNCHANGED <<match_queue, matches>>,
               pc[c] \notin {"set", "join", "erase", "erase_declined"} \/ UNCHANGED local
        PROVE  EmptyIsAttended'
    BY <2>1, <2>2, Undisturbed DEF Attends, local
  <2>3. CASE Event(c)
    BY <1>2, <2>2, <2>3
    DEF Event, Close, HandleConfirmRequest, RequestMatch, CancelMatch,
        HandleMatchingComfirmRequest, OnClose, Receives, Starts, At, system
  <2>4. CASE LockMatchGuard(c) \/ ScanQueue(c) \/ OnCloseDrop(c) \/ Decline(c)
    BY <2>2, <2>4 DEF LockMatchGuard, ScanQueue, Scans, OnCloseDrop, Decline, At, system
  <2>5. CASE Cancel(c) \/ Lookup(c) \/ Move(c)
    BY <2>2, <2>5 DEF Cancel, Lookup, Move, At, system
  <2>6. CASE SetMatchWeak(c)
    <3>1. UNCHANGED <<held, match_queue, matches>> /\ pc'[c] = "join" /\ pc[c] = "set"
      BY <2>6 DEF MatchInv, TypeOK, SetMatchWeak, Goto, At, system
    <3> QED
      BY <2>1, <3>1, Undisturbed DEF Attends
  <2>7. CASE EraseEmpty(c) \/ EraseDeclined(c) \/ EraseCompleted(c)
    <3>1. match_queue' = match_queue \ {held[c]} /\ UNCHANGED matches
      BY <2>7 DEF EraseEmpty, EraseDeclined, EraseCompleted, RemoveMatch
    <3> QED
      BY <2>1, <3>1, Undisturbed DEF Attends
  <2>8. CASE CreateMatch(c) \/ Join(c) \/ Remove(c) \/ Accept(c)
    BY <2>1, <2>8, CreateAttends, JoinAttends, RemoveAttends, AcceptAttends
  <2> QED
    BY <1>2, <2>3, <2>4, <2>5, <2>6, <2>7, <2>8 DEF Step
<1> QED
  BY <1>1, <1>2 DEF Next

\* A queued match without players has a handler on its way into it or about to remove it.
THEOREM NoMatchIsAbandoned == Spec => []NoAbandonedMatch
<1>1. Init => EmptyIsAttended
  BY DEF Init, EmptyIsAttended
<1>2. MatchInv /\ EmptyIsAttended /\ [Next]_vars => EmptyIsAttended'
  BY StepAttends
<1>3. MatchInv /\ EmptyIsAttended => NoAbandonedMatch
  <2> SUFFICES ASSUME EmptyIsAttended, NEW m \in match_queue, Players(m) = {}
               PROVE  \E c \in Clients :
                          held[c] = m /\ pc[c] \in {"set", "join", "erase", "erase_declined"}
    BY DEF NoAbandonedMatch
  <2>1. ~HasPlayer(m)
    BY DEF HasPlayer, Players
  <2> QED
    BY <2>1 DEF EmptyIsAttended, Attends
<1> QED
  BY <1>1, <1>2, <1>3, MatchInvariant, PTL DEF Spec

-----------------------------------------------------------------------------
(* A handler stops for nothing but a lock.                                 *)

Busy(c) == ~At(c, "idle")

\* What a handler must have before its next step.
WaitsForMatchGuard(c) == pc[c] \in {"lock", "erase", "erase_declined", "erase_completed"}
WaitsForContext(c, m) ==
    \/ pc[c] \in {"join", "remove", "confirm"} /\ held[c] = m
    \/ Scans(c, m)

\* Its lock is free.
GoesOn(c) == /\ Busy(c)
             /\ WaitsForMatchGuard(c) => match_guard = None
             /\ \A m \in Ids : WaitsForContext(c, m) => context_guard[m] = None

\* A match that recruits has a slot for whoever joins.
HasEmptySlot(slots) == \E i \in Slots : slots[i].key = None
RecruitingHasRoom ==
    \A m \in Ids : m <= match_id /\ matches[m].state = "kRecruiting" => HasEmptySlot(matches[m].slots)

\* Who asks for a match finds an id for a new one, as far as the bound of the model goes.
Searching == {c \in Clients : pc[c] \in {"lock", "scan"}}
IdsSuffice == /\ IsFiniteSet(Searching)
              /\ match_id + Cardinality(Searching) <= MaxMatches

\* An answer is a yes or a no.
AnswersFit == \A c \in Clients : pc[c] = "confirm" => arg[c] \in BOOLEAN

RoomInv == RecruitingHasRoom /\ IdsSuffice /\ AnswersFit

\* The guards of Step(c) apart from the server being up: what c's handler needs before its next step.
CanStep(c) ==
    \/ pc[c] \in {"set", "cancel", "lookup", "move", "drop"}
    \/ pc[c] \in {"lock", "erase", "erase_declined", "erase_completed"} /\ match_guard = None
    \/ At(c, "scan") /\ \E m \in Ids : Scans(c, m) /\ context_guard[m] = None
    \/ At(c, "scan") /\ (\A n \in match_queue : n <= at[c]) /\ match_id < MaxMatches
    \/ /\ At(c, "join") /\ context_guard[held[c]] = None
       /\ matches[held[c]].state # "kRecruiting" \/ SlotsOf(held[c], None) # {}
    \/ At(c, "remove") /\ context_guard[held[c]] = None /\ Cleared(c) # {}
    \/ At(c, "confirm") /\ arg[c] = FALSE /\ context_guard[held[c]] = None
    \/ At(c, "confirm") /\ arg[c] = TRUE /\ context_guard[held[c]] = None /\ Answered(c) # {}

\* No step is taken without them.
LEMMA StepsCanBe ==
  ASSUME NEW c \in Clients, Step(c)
  PROVE  CanStep(c)
BY DEF Step, CanStep, LockMatchGuard, ScanQueue, Scans, CreateMatch, SetMatchWeak, Join, Remove, EraseEmpty,
       Decline, EraseDeclined, EraseCompleted, RemoveMatch, Cancel, Accept, Lookup, Move, OnCloseDrop, At

\* A search that is not at the end of the queue has a next match.
LEMMA NextMatch ==
  ASSUME MatchInv, NEW c \in Clients, At(c, "scan"), NEW n \in match_queue, n > at[c]
  PROVE  \E m \in Ids : Scans(c, m)
<1> DEFINE T == {m \in match_queue : m > at[c]}
           R == OpToRel(<, Nat)
<1>1. T \subseteq Nat /\ T # {}
  <2>1. match_queue \subseteq Nat
    BY MatchingAssumption DEF MatchInv, TypeOK, Ids
  <2>2. n \in T
    OBVIOUS
  <2> QED
    BY <2>1, <2>2
<1>2. PICK m \in T : \A k \in T : ~(<<k, m>> \in R)
  <2>1. IsWellFoundedOn(R, Nat)
    BY NatLessThanWellFounded
  <2> HIDE DEF T, R
  <2> QED
    BY <1>1, <2>1, WFMin
<1>3. ASSUME NEW k \in T
      PROVE  m <= k
  <2>1. ~(<<k, m>> \in R)
    BY <1>2
  <2>2. k \in Nat /\ m \in Nat
    BY <1>1, <1>2
  <2>3. ~(k < m)
    BY <2>1, <2>2 DEF OpToRel
  <2> HIDE DEF T, R
  <2> QED
    BY <2>2, <2>3
<1>4. m \in Ids
  BY DEF MatchInv, TypeOK
<1> QED
  BY <1>3, <1>4 DEF Scans

\* A handler that waits for no lock can go on.
LEMMA NothingElseStops ==
  ASSUME MatchInv, RoomInv, NEW c \in Clients, GoesOn(c)
  PROVE  CanStep(c)
<1>1. pc[c] \in Steps \ {"idle"}
  BY DEF MatchInv, TypeOK, GoesOn, Busy, At
<1>2. CASE pc[c] \in {"lock", "erase", "erase_declined", "erase_completed"}
  BY <1>2 DEF GoesOn, WaitsForMatchGuard, CanStep
<1>3. ASSUME pc[c] \in {"join", "remove", "confirm"}
      PROVE  /\ held[c] \in Ids /\ held[c] <= match_id /\ context_guard[held[c]] = None
             /\ matches[held[c]] \in Matches
  BY <1>3, HeldMatch DEF GoesOn, WaitsForContext, HoldsMatch
<1>4. CASE pc[c] = "join"
  BY <1>3, <1>4 DEF RoomInv, RecruitingHasRoom, HasEmptySlot, SlotsOf, CanStep, At
<1>5. CASE pc[c] = "remove"
  <2>1. Cleared(c) # {}
    BY DEF Cleared
  <2> QED
    BY <1>3, <1>5, <2>1 DEF CanStep, At
<1>6. CASE pc[c] = "confirm"
  <2>1. Answered(c) # {}
    BY DEF Answered
  <2>2. arg[c] \in BOOLEAN
    BY <1>6 DEF RoomInv, AnswersFit
  <2> QED
    BY <1>3, <1>6, <2>1, <2>2 DEF CanStep, At
<1>7. CASE pc[c] = "scan"
  <2>1. CASE \E n \in match_queue : n > at[c]
    <3>1. PICK m \in Ids : Scans(c, m)
      BY <1>7, <2>1, NextMatch DEF At
    <3>2. context_guard[m] = None
      BY <3>1 DEF GoesOn, WaitsForContext
    <3> QED
      BY <1>7, <3>1, <3>2 DEF CanStep, At
  <2>2. CASE \A n \in match_queue : ~(n > at[c])
    <3>1. \A n \in match_queue : n <= at[c]
      BY <2>2, MatchingAssumption DEF MatchInv, TypeOK, Ids
    <3>2. c \in Searching
      BY <1>7 DEF Searching
    <3>3. Cardinality(Searching) \in Nat /\ Cardinality(Searching) # 0
      BY <3>2, FS_CardinalityType, FS_EmptySet DEF RoomInv, IdsSuffice
    <3>4. match_id < MaxMatches
      BY <3>3, MatchingAssumption DEF MatchInv, TypeOK, RoomInv, IdsSuffice
    <3> QED
      BY <1>7, <3>1, <3>4 DEF CanStep, At
  <2> QED
    BY <2>1, <2>2
<1> QED
  BY <1>1, <1>2, <1>4, <1>5, <1>6, <1>7 DEF Steps, Critical, CanStep

\* Who takes the last empty slot ends the recruiting; who leaves or answers fills none.
LEMMA RoomIsKept ==
  ASSUME MatchInv, RecruitingHasRoom, NEW c \in Clients, Event(c) \/ Step(c)
  PROVE  RecruitingHasRoom'
<1>1. CASE UNCHANGED <<matches, match_id>>
  BY <1>1 DEF RecruitingHasRoom
<1>2. CASE CreateMatch(c)
  <2>1. /\ match_id' = match_id + 1 /\ match_id \in Nat /\ match_id + 1 \in Ids
        /\ matches' = [matches EXCEPT ![match_id + 1] = NewMatch(arg[c])]
    BY <1>2, MatchingAssumption DEF MatchInv, TypeOK, CreateMatch, Ids
  <2>2. \A m \in Ids : m # match_id + 1 => matches'[m] = matches[m]
    BY <2>1 DEF MatchInv, TypeOK
  <2>3. matches'[match_id + 1].slots = [i \in Slots |-> [key |-> None, ok |-> FALSE]]
    BY <2>1 DEF MatchInv, TypeOK, NewMatch
  <2>4. 1 \in Slots
    BY MatchingAssumption DEF Slots
  <2>5. ASSUME NEW m \in Ids, m <= match_id', matches'[m].state = "kRecruiting"
        PROVE  \E i \in Slots : matches'[m].slots[i].key = None
    <3>1. CASE m = match_id + 1
      BY <2>3, <2>4, <3>1
    <3>2. CASE m # match_id + 1
      <4>1. m <= match_id
        BY <2>1, <2>5, <3>2, MatchingAssumption DEF Ids
      <4> QED
        BY <2>2, <2>5, <3>2, <4>1 DEF RecruitingHasRoom, HasEmptySlot
    <3> QED
      BY <3>1, <3>2
  <2> QED
    BY <2>5 DEF RecruitingHasRoom, HasEmptySlot
<1>3. ASSUME NEW h \in Ids, NEW x, matches' = [matches EXCEPT ![h] = x], UNCHANGED match_id,
             x.state = "kRecruiting" => \E i \in Slots : x.slots[i].key = None
      PROVE  RecruitingHasRoom'
  <2>1. \A m \in Ids : matches'[m] = IF m = h THEN x ELSE matches[m]
    BY <1>3 DEF MatchInv, TypeOK
  <2> QED
    BY <1>3, <2>1 DEF RecruitingHasRoom, HasEmptySlot
<1>4. ASSUME HoldsMatch(c)
      PROVE  held[c] \in Ids /\ held[c] <= match_id /\ matches[held[c]] \in Matches
  BY <1>4, HeldMatch
<1>5. CASE Join(c) /\ ~UNCHANGED matches
  <2>1. HoldsMatch(c)
    BY <1>5 DEF Join, At, HoldsMatch
  <2>2. PICK i \in SlotsOf(held[c], None) : matches' = [matches EXCEPT ![held[c]] = Joined(@, c, i)]
    BY <1>5 DEF Join
  <2> DEFINE y == matches[held[c]]
             x == Joined(y, c, i)
  <2>3. i \in Slots /\ y \in Matches
    BY <1>4, <2>1 DEF SlotsOf
  <2>4. \A j \in Slots \ {i} : x.slots[j] = y.slots[j]
    BY <2>3, JoinedMatch
  <2>5. ASSUME x.state = "kRecruiting"
        PROVE  \E j \in Slots : x.slots[j].key = None
    <3>1. PICK j \in Slots \ {i} : y.slots[j].key = None
      BY <2>5 DEF Joined
    <3> QED
      BY <2>4, <3>1
  <2>6. matches' = [matches EXCEPT ![held[c]] = x] /\ UNCHANGED match_id
    BY <1>4, <1>5, <2>1, <2>2 DEF MatchInv, TypeOK, Join, system
  <2> HIDE DEF x
  <2> QED
    BY <1>3, <1>4, <2>1, <2>5, <2>6
<1>6. CASE Remove(c)
  <2>1. HoldsMatch(c)
    BY <1>6 DEF Remove, At, HoldsMatch
  <2>2. PICK slots \in Cleared(c) : matches' = [matches EXCEPT ![held[c]] = [@ EXCEPT !.slots = slots]]
    BY <1>6 DEF Remove
  <2> DEFINE y == matches[held[c]]
             x == [y EXCEPT !.slots = slots]
  <2>3. y \in Matches /\ HeldSlots(c) = y.slots
    BY <1>4, <2>1 DEF HeldSlots
  <2>4. x.state = y.state /\ x.slots = slots
    BY <2>3 DEF Matches
  <2>5. \A i \in Slots : HeldSlots(c)[i].key = None => slots[i].key = None
    <3>1. HeldSlots(c) \in [Slots -> [key : Clients \union {None}, ok : BOOLEAN]]
      BY <2>3 DEF Matches
    <3> QED
      BY <2>2, <3>1 DEF Cleared
  <2>6. x.state = "kRecruiting" => \E i \in Slots : x.slots[i].key = None
    BY <1>4, <2>1, <2>3, <2>4, <2>5 DEF RecruitingHasRoom, HasEmptySlot
  <2>7. matches' = [matches EXCEPT ![held[c]] = x] /\ UNCHANGED match_id
    BY <1>4, <1>6, <2>1, <2>2 DEF MatchInv, TypeOK, Remove, system
  <2> HIDE DEF x
  <2> QED
    BY <1>3, <1>4, <2>1, <2>6, <2>7
<1>7. CASE Accept(c)
  <2>1. HoldsMatch(c)
    BY <1>7 DEF Accept, At, HoldsMatch
  <2>2. PICK slots \in Answered(c), state \in {"kCompleted", matches[held[c]].state} :
            matches' = [matches EXCEPT ![held[c]] = [@ EXCEPT !.slots = slots, !.state = state]]
    <3>1. [matches[held[c]] EXCEPT !.state = matches[held[c]].state] = matches[held[c]]
      BY <1>4, <2>1 DEF Matches
    <3>2. PICK slots \in Answered(c) :
            \/ matches' = [matches EXCEPT ![held[c]] = [@ EXCEPT !.slots = slots, !.state = "kCompleted"]]
            \/ matches' = [matches EXCEPT ![held[c]] = [@ EXCEPT !.slots = slots]]
      BY <1>7 DEF Accept
    <3>3. [matches[held[c]] EXCEPT !.slots = slots] =
              [matches[held[c]] EXCEPT !.slots = slots, !.state = matches[held[c]].state]
      BY <1>4, <2>1 DEF Matches
    <3> QED
      BY <3>2, <3>3
  <2> DEFINE y == matches[held[c]]
             x == [y EXCEPT !.slots = slots, !.state = state]
  <2>3. y \in Matches /\ HeldSlots(c) = y.slots
    BY <1>4, <2>1 DEF HeldSlots
  <2>4. x.state = state /\ x.slots = slots
    BY <2>3 DEF Matches
  <2>5. \A i \in Slots : slots[i].key = HeldSlots(c)[i].key
    BY <2>1, <2>2, AnsweredSlots DEF SlotsOf, HeldSlots
  <2>6. x.state = "kRecruiting" => \E i \in Slots : x.slots[i].key = None
    BY <1>4, <2>1, <2>2, <2>3, <2>4, <2>5 DEF RecruitingHasRoom, HasEmptySlot
  <2>7. matches' = [matches EXCEPT ![held[c]] = x] /\ UNCHANGED match_id
    BY <1>4, <1>7, <2>1, <2>2 DEF MatchInv, TypeOK, Accept, system
  <2> HIDE DEF x
  <2> QED
    BY <1>3, <1>4, <2>1, <2>6, <2>7
<1> QED
  BY <1>1, <1>2, <1>5, <1>6, <1>7
  DEF Event, Step, Close, HandleConfirmRequest, RequestMatch, CancelMatch, HandleMatchingComfirmRequest,
      OnClose, Receives, Starts, LockMatchGuard, ScanQueue, SetMatchWeak, Join, EraseEmpty, Decline,
      EraseDeclined, EraseCompleted, RemoveMatch, Cancel, Lookup, Move, OnCloseDrop, system

\* A search that starts leaves an id for each search; one that creates a match ends.
LEMMA IdsAreKept ==
  ASSUME MatchInv, IdsSuffice, NEW c \in Clients, Event(c) \/ Step(c)
  PROVE  IdsSuffice'
<1>0. Cardinality(Searching) \in Nat /\ match_id \in Nat /\ MaxMatches \in Nat
  BY FS_CardinalityType, MatchingAssumption DEF MatchInv, TypeOK, IdsSuffice
<1>1. \A d \in Clients \ {c} : pc'[d] = pc[d]
  BY OneHandlerMoves DEF OthersStay
<1>2. ASSUME UNCHANGED match_id, Searching' \subseteq Searching
      PROVE  IdsSuffice'
  <2>1. /\ IsFiniteSet(Searching') /\ Cardinality(Searching') <= Cardinality(Searching)
        /\ Cardinality(Searching') \in Nat
    BY <1>2, FS_Subset, FS_CardinalityType DEF IdsSuffice
  <2> QED
    BY <1>0, <1>2, <2>1 DEF IdsSuffice
<1>3. CASE CreateMatch(c)
  <2>1. c \in Searching /\ match_id' = match_id + 1 /\ Return(c, match_id + 1)
    BY <1>3 DEF CreateMatch, At, Searching
  <2>2. pc'[c] = "set"
    BY <2>1 DEF MatchInv, TypeOK, Return, Goto
  <2>3. Searching' \subseteq Searching \ {c}
    BY <1>1, <2>2 DEF Searching
  <2>4. /\ IsFiniteSet(Searching \ {c})
        /\ Cardinality(Searching \ {c}) = Cardinality(Searching) - 1
    BY <2>1, FS_RemoveElement DEF IdsSuffice
  <2>5. /\ IsFiniteSet(Searching') /\ Cardinality(Searching') <= Cardinality(Searching \ {c})
        /\ Cardinality(Searching') \in Nat
    BY <2>3, <2>4, FS_Subset, FS_CardinalityType
  <2> QED
    BY <1>0, <2>1, <2>4, <2>5 DEF IdsSuffice
<1>4. CASE RequestMatch(c) /\ ~Throw(c)
  <2>1. /\ c \notin Searching /\ UNCHANGED match_id
        /\ match_id + Cardinality(Searching) < MaxMatches
    BY <1>4 DEF RequestMatch, Receives, Starts, Room, Searching, At, system
  <2>2. /\ IsFiniteSet(Searching \union {c})
        /\ Cardinality(Searching \union {c}) = Cardinality(Searching) + 1
    BY <2>1, FS_AddElement DEF IdsSuffice
  <2>3. Searching' \subseteq Searching \union {c}
    BY <1>1 DEF Searching
  <2>4. /\ IsFiniteSet(Searching') /\ Cardinality(Searching') <= Cardinality(Searching \union {c})
        /\ Cardinality(Searching') \in Nat
    BY <2>2, <2>3, FS_Subset, FS_CardinalityType
  <2> QED
    BY <1>0, <2>1, <2>2, <2>4 DEF IdsSuffice
<1>5. ASSUME UNCHANGED match_id, pc'[c] \in {"lock", "scan"} => pc[c] \in {"lock", "scan"}
      PROVE  IdsSuffice'
  <2>1. Searching' \subseteq Searching
    BY <1>1, <1>5 DEF Searching
  <2> QED
    BY <1>2, <1>5, <2>1
<1>6. CASE UNCHANGED <<pc, match_id>>
  BY <1>5, <1>6
<1>7. CASE /\ UNCHANGED match_id
           /\ pc[c] \in {"lock", "scan"} \/ Finish(c)
                  \/ \E step \in Steps \ {"lock", "scan"} : Goto(c, step)
  <2>1. pc'[c] \in {"lock", "scan"} => pc[c] \in {"lock", "scan"}
    BY <1>7 DEF MatchInv, TypeOK, Finish, Goto
  <2> QED
    BY <1>5, <1>7, <2>1
<1>8. CASE Event(c) \/ OnCloseDrop(c)
  BY <1>4, <1>6, <1>7, <1>8
  DEF Event, Close, HandleConfirmRequest, RequestMatch, CancelMatch, HandleMatchingComfirmRequest,
      Throw, Begin, OnClose, Receives, Starts, OnCloseDrop, Steps, local, system
<1>9. CASE LockMatchGuard(c) \/ ScanQueue(c)
  BY <1>7, <1>9 DEF LockMatchGuard, ScanQueue, Scans, At, system
<1>10. CASE SetMatchWeak(c) \/ Join(c) \/ Remove(c) \/ Decline(c) \/ Accept(c)
  BY <1>7, <1>10 DEF SetMatchWeak, Join, Remove, Decline, Accept, KeepContext, Steps, Critical, system
<1>11. CASE EraseEmpty(c) \/ EraseDeclined(c) \/ EraseCompleted(c)
  BY <1>6, <1>7, <1>11
  DEF EraseEmpty, EraseDeclined, EraseCompleted, Crash, RemoveMatch, FirstSlot, Steps, Critical, local
<1>12. CASE Cancel(c) \/ Lookup(c) \/ Move(c)
  BY <1>6, <1>7, <1>12
  DEF Cancel, Lookup, Move, NextSlot, Crash, Steps, Critical, local, system
<1> QED
  BY <1>3, <1>8, <1>9, <1>10, <1>11, <1>12 DEF Step

\* Only a packet that answers starts a confirmation.
LEMMA AnswersAreKept ==
  ASSUME MatchInv, AnswersFit, NEW c \in Clients, Event(c) \/ Step(c)
  PROVE  AnswersFit'
<1>1. OthersStay(c)
  BY OneHandlerMoves
<1>2. ASSUME pc'[c] = "confirm" => arg'[c] \in BOOLEAN
      PROVE  AnswersFit'
  BY <1>1, <1>2 DEF AnswersFit, OthersStay
<1>3. CASE UNCHANGED <<pc, arg>>
  BY <1>2, <1>3 DEF AnswersFit
<1>4. CASE Finish(c) \/ \E step \in Steps \ {"confirm"} : Goto(c, step)
  <2>1. pc'[c] # "confirm"
    BY <1>4 DEF MatchInv, TypeOK, Finish, Goto
  <2> QED
    BY <1>2, <2>1
<1>5. CASE HandleMatchingComfirmRequest(c)
  <2>1. arg'[c] \in BOOLEAN
    BY <1>5 DEF MatchInv, TypeOK, HandleMatchingComfirmRequest, Begin
  <2> QED
    BY <1>2, <2>1
<1> QED
  BY <1>3, <1>4, <1>5
  DEF Event, Step, Close, HandleConfirmRequest, RequestMatch, CancelMatch,
      Throw, Begin, OnClose, Receives, Starts, LockMatchGuard, ScanQueue, Return, CreateMatch,
      SetMatchWeak, Join, Remove, KeepContext, EraseEmpty, Decline, Accept, EraseDeclined,
      EraseCompleted, FirstSlot, NextSlot, Crash, Cancel, Lookup, Move, OnCloseDrop,
      Steps, Critical, local

\* A handler of matchmaking stops for nothing but a lock: a search has a next match or an id for a new
\* one, and whoever joins a match that recruits finds an empty slot in it, although the match was looked
\* up in an earlier critical section.  The locks are match_guard_ and the matches' context_guard_;
\* CanStep has the guards of the handler's steps.
THEOREM OnlyLocksStop == Spec => [](\A c \in Clients : GoesOn(c) => CanStep(c))
<1>1. Init => RoomInv
  <2> SUFFICES ASSUME Init
               PROVE  RoomInv
    OBVIOUS
  <2>1. RecruitingHasRoom
    BY MatchingAssumption DEF Init, RecruitingHasRoom, Ids
  <2>2. Searching = {}
    BY DEF Init, Searching
  <2>3. IdsSuffice
    BY <2>2, FS_EmptySet, MatchingAssumption DEF Init, IdsSuffice
  <2> QED
    BY <2>1, <2>3 DEF Init, RoomInv, AnswersFit
<1>2. MatchInv /\ RoomInv /\ [Next]_vars => RoomInv'
  <2>1. ASSUME MatchInv, RoomInv, NEW c \in Clients, Event(c) \/ Step(c)
        PROVE  RoomInv'
    BY <2>1, RoomIsKept, IdsAreKept, AnswersAreKept DEF RoomInv
  <2>2. ASSUME RoomInv, UNCHANGED vars
        PROVE  RoomInv'
    BY <2>2 DEF RoomInv, RecruitingHasRoom, HasEmptySlot, IdsSuffice, Searching, AnswersFit, vars, local,
                system
  <2> QED
    BY <2>1, <2>2 DEF Next
<1>3. MatchInv /\ RoomInv => \A c \in Clients : GoesOn(c) => CanStep(c)
  BY NothingElseStops
<1> QED
  BY <1>1, <1>2, <1>3, MatchInvariant, PTL DEF Spec

-----------------------------------------------------------------------------
(* No handler runs for ever.                                               *)

\* The steps a handler has left, at most: CreateOrFind looks at each match once, and Confirm goes over
\* the slots once, with two steps for each player that it moves.
StepsLeft(step, i) ==
    CASE step = "idle" -> 0
      [] step \in {"join", "erase"} -> 1
      [] step \in {"set", "remove"} -> 2
      [] step = "drop" -> 3
      [] step = "scan" -> MaxMatches - i + 3
      [] step = "lock" -> MaxMatches + 4
      [] step = "move" -> 2 * (MatchSize - i) + 1
      [] step \in {"lookup", "cancel"} -> 2 * (MatchSize - i) + 2
      [] step \in {"erase_declined", "erase_completed"} -> 2 * MatchSize + 1
      [] step = "confirm" -> 2 * MatchSize + 2
Left(c) == StepsLeft(pc[c], at[c])

\* A search is at a match that exists.
SearchFits == \A c \in Clients : pc[c] = "scan" => at[c] <= MaxMatches

\* One step of a handler leaves it fewer steps, unless it is the server's last.
LEMMA StepsGetFewer ==
  ASSUME MatchInv, SearchFits, NEW c \in Clients, Step(c)
  PROVE  /\ pc'[c] = "scan" => at'[c] <= MaxMatches
         /\ Left(c)' < Left(c) \/ (crashed' /\ UNCHANGED local)
<1> USE DEF Left, StepsLeft
<1>1. /\ MaxMatches \in Nat /\ MatchSize \in Nat /\ at[c] \in Nat
      /\ pc[c] \in {"cancel", "lookup", "move"} => at[c] \in 1 .. MatchSize
      /\ pc[c] = "scan" => at[c] <= MaxMatches
      /\ pc[c] = "lock" => at[c] = 0
  BY MatchingAssumption DEF MatchInv, TypeOK, LocalsFit, SearchFits, Slots
<1>2. CASE LockMatchGuard(c)
  <2>1. pc[c] = "lock" /\ Becomes(c, "scan", held[c], at[c], arg[c])
    BY <1>2, GotoStep DEF MatchInv, LockMatchGuard, At, Steps
  <2> QED
    BY <1>1, <2>1 DEF Becomes
<1>3. CASE ScanQueue(c)
  <2>1. PICK m \in Ids : /\ Scans(c, m)
                         /\ Return(c, m) \/ (at' = [at EXCEPT ![c] = m] /\ UNCHANGED pc)
    BY <1>3 DEF ScanQueue
  <2>2. pc[c] = "scan" /\ at[c] < m /\ m \in 1 .. MaxMatches
    BY <1>1, <2>1 DEF Scans, At, Ids
  <2>3. CASE Return(c, m)
    <3>1. Becomes(c, "set", m, 0, arg[c])
      BY <2>3, ReturnStep DEF MatchInv
    <3> QED
      BY <1>1, <2>2, <3>1 DEF Becomes
  <2>4. CASE at' = [at EXCEPT ![c] = m] /\ UNCHANGED pc
    <3>1. at'[c] = m
      BY <2>4 DEF MatchInv, TypeOK
    <3> QED
      BY <1>1, <2>2, <2>4, <3>1
  <2> QED
    BY <2>1, <2>3, <2>4
<1>4. CASE CreateMatch(c)
  <2>0. match_id + 1 \in Ids
    <3>1. match_id \in Nat /\ match_id < MaxMatches
      BY <1>4, MatchingAssumption DEF MatchInv, TypeOK, CreateMatch
    <3> QED
      BY <1>1, <3>1 DEF Ids
  <2>2. pc[c] = "scan" /\ Return(c, match_id + 1)
    BY <1>4 DEF CreateMatch, At
  <2>1. pc[c] = "scan" /\ Becomes(c, "set", match_id + 1, 0, arg[c])
    BY <2>0, <2>2, ReturnStep DEF MatchInv
  <2> QED
    BY <1>1, <2>1 DEF Becomes
<1>5. CASE SetMatchWeak(c)
  <2>1. pc[c] = "set" /\ Becomes(c, "join", held[c], at[c], arg[c])
    BY <1>5, GotoStep DEF MatchInv, SetMatchWeak, At, Steps
  <2> QED
    BY <2>1 DEF Becomes
<1>6. ASSUME Finish(c), pc[c] # "idle"
      PROVE  pc'[c] # "scan" /\ Left(c)' < Left(c)
  <2>1. Becomes(c, "idle", None, 0, FALSE)
    BY <1>6, FinishStep DEF MatchInv
  <2>2. pc[c] \in Steps
    BY DEF MatchInv, TypeOK
  <2> QED
    BY <1>1, <1>6, <2>1, <2>2 DEF Becomes, Steps, Critical
<1>7. CASE Join(c) \/ EraseEmpty(c)
  BY <1>6, <1>7 DEF Join, EraseEmpty, At
<1>8. CASE Remove(c) /\ ~Finish(c)
  <2>1. pc[c] = "remove" /\ Becomes(c, "erase", held[c], at[c], arg[c])
    BY <1>8, GotoStep DEF MatchInv, Remove, KeepContext, At, Steps, Critical
  <2> QED
    BY <2>1 DEF Becomes
<1>9. CASE Decline(c) \/ (Accept(c) /\ ~Finish(c))
  <2>1. PICK step \in {"erase_declined", "erase_completed"} :
           pc[c] = "confirm" /\ Becomes(c, step, held[c], at[c], arg[c])
    BY <1>9, GotoStep DEF MatchInv, Decline, Accept, KeepContext, At, Steps, Critical
  <2> QED
    BY <1>1, <2>1 DEF Becomes
<1>10. CASE EraseDeclined(c) \/ (EraseCompleted(c) /\ ~Crash)
  <2>1. PICK step \in {"cancel", "lookup"} :
           pc[c] \in {"erase_declined", "erase_completed"} /\ Becomes(c, step, held[c], 1, arg[c])
    BY <1>10, FirstSlotStep DEF MatchInv, EraseDeclined, EraseCompleted, At, Steps, Critical
  <2> QED
    BY <1>1, <2>1 DEF Becomes
<1>11. ASSUME NEW step \in {"cancel", "lookup"}, NextSlot(c, step), ~Finish(c),
              pc[c] \in {step, "move"}
       PROVE  pc'[c] # "scan" /\ Left(c)' < Left(c)
  <2>1. at[c] \in Slots
    BY <1>1, <1>11 DEF Slots
  <2>2. Becomes(c, step, held[c], at[c] + 1, arg[c])
    BY <1>11, <2>1, NextSlotStep DEF MatchInv, Steps, Critical, NextSlot, TypeOK, Goto, Becomes
  <2> QED
    BY <1>1, <1>11, <2>2 DEF Becomes
<1>12. CASE Cancel(c)
  BY <1>6, <1>11, <1>12 DEF Cancel, At
<1>13. CASE EraseCompleted(c) /\ Crash
  BY <1>13 DEF Crash, local, EraseCompleted, At
<1>16. CASE Lookup(c) \/ Move(c)
  <2>1. CASE Crash
    BY <1>16, <2>1 DEF Crash, local, Lookup, Move, At
  <2>2. CASE NextSlot(c, "lookup")
    BY <1>6, <1>11, <1>16, <2>2 DEF Lookup, Move, At
  <2>3. CASE pc[c] = "lookup" /\ Goto(c, "move") /\ UNCHANGED <<held, at, arg>>
    <3>1. Becomes(c, "move", held[c], at[c], arg[c])
      BY <2>3, GotoStep DEF MatchInv, Steps, Critical
    <3> QED
      BY <1>1, <2>3, <3>1 DEF Becomes
  <2> QED
    BY <1>16, <2>1, <2>2, <2>3 DEF Lookup, Move, At
<1>14. CASE OnCloseDrop(c) /\ ~Finish(c)
  <2>1. pc[c] = "drop" /\ Becomes(c, "remove", match_[c], at[c], FALSE)
    <3>1. match_[c] \in Ids \union {None}
      BY DEF MatchInv, TypeOK
    <3> QED
      BY <1>14, <3>1, BeginStep DEF MatchInv, OnCloseDrop, At, Steps
  <2> QED
    BY <2>1 DEF Becomes
<1>15. CASE (Remove(c) \/ Accept(c) \/ OnCloseDrop(c)) /\ Finish(c)
  BY <1>6, <1>15 DEF Remove, Accept, OnCloseDrop, At
<1> QED
  BY <1>2, <1>3, <1>4, <1>5, <1>7, <1>8, <1>9, <1>10, <1>12, <1>13, <1>14, <1>15,
     <1>16 DEF Step

\* Nothing that happens to a connection gives its running handler more to do.
LEMMA EventsAddNothing ==
  ASSUME MatchInv, NEW c \in Clients, Event(c), Busy(c)
  PROVE  UNCHANGED local
BY DEF Event, Close, HandleConfirmRequest, RequestMatch, CancelMatch, HandleMatchingComfirmRequest, OnClose,
       Receives, Starts, Busy, At

\* A search starts before the first match.
LEMMA EventsStartNoSearch ==
  ASSUME MatchInv, SearchFits, NEW c \in Clients, Event(c)
  PROVE  pc'[c] = "scan" => at'[c] <= MaxMatches
<1>1. CASE UNCHANGED local
  BY <1>1 DEF SearchFits, local
<1>2. CASE \E step \in {"lock", "remove", "confirm", "drop"} : \E m, x : Begin(c, step, m, x)
  BY <1>2 DEF MatchInv, TypeOK, Begin, Goto
<1> QED
  BY <1>1, <1>2 DEF Event, Close, HandleConfirmRequest, RequestMatch, CancelMatch, Throw,
                    HandleMatchingComfirmRequest, OnClose

\* A handler that runs has a step left.
LeftFits == \A c \in Clients : Left(c) \in Nat /\ (Left(c) = 0 <=> ~Busy(c))

LEMMA LeftType == MatchInv /\ SearchFits => LeftFits
<1> SUFFICES ASSUME MatchInv, SearchFits, NEW c \in Clients
             PROVE  Left(c) \in Nat /\ (Left(c) = 0 <=> ~Busy(c))
  BY DEF LeftFits
<1>1. /\ MaxMatches \in Nat /\ MatchSize \in Nat /\ at[c] \in Nat /\ pc[c] \in Steps
      /\ pc[c] \in {"cancel", "lookup", "move"} => at[c] \in 1 .. MatchSize
      /\ pc[c] = "scan" => at[c] <= MaxMatches
  BY MatchingAssumption DEF MatchInv, TypeOK, LocalsFit, SearchFits, Slots
<1> QED
  BY <1>1 DEF Left, StepsLeft, Busy, At, Steps, Critical

\* What a running handler has left never grows, and each of its steps makes it less.
EachStepAdvances ==
    /\ LeftFits
    /\ \A c \in Clients : /\ Busy(c) => Left(c)' <= Left(c)
                          /\ Step(c) => Left(c)' < Left(c) \/ crashed'

\* A handler of matchmaking takes a bounded number of steps, whatever the others do in between: each
\* one brings it nearer to its end and nothing else moves it away.  What can keep it from its end is a
\* lock that it waits for: see OnlyLocksStop, and Locks for the locks of the whole server.
THEOREM HandlersAdvance == Spec => [][EachStepAdvances]_vars
<1>1. Init => SearchFits
  BY DEF Init, SearchFits
<1>2. MatchInv' /\ SearchFits' => LeftFits'
  BY LeftType, PTL
<1>3. ASSUME MatchInv, SearchFits, [Next]_vars
      PROVE  SearchFits' /\ [EachStepAdvances]_vars
  <2>1. LeftFits
    BY <1>3, LeftType
  <2>2. ASSUME NEW c \in Clients, Event(c) \/ Step(c)
        PROVE  SearchFits' /\ EachStepAdvances
    <3>1. OthersStay(c)
      BY <1>3, <2>2, OneHandlerMoves
    <3>2. pc'[c] = "scan" => at'[c] <= MaxMatches
      BY <1>3, <2>2, StepsGetFewer, EventsStartNoSearch DEF local
    <3>3. SearchFits'
      BY <1>3, <3>1, <3>2 DEF SearchFits, OthersStay
    <3>4. \A d \in Clients \ {c} : Left(d)' = Left(d)
      BY <3>1 DEF Left, OthersStay
    <3>5. \A d \in Clients : Step(d) => Left(d)' < Left(d) \/ crashed'
      BY <1>3, StepsGetFewer
    <3>6. Busy(c) => Left(c)' <= Left(c)
      <4>1. UNCHANGED local => Left(c)' = Left(c)
        BY DEF Left, local
      <4>2. Left(c) \in Int
        BY <2>1 DEF LeftFits
      <4>3. Step(c) => Left(c)' < Left(c) \/ UNCHANGED local
        BY <1>3, StepsGetFewer
      <4>4. Left(c)' \in Nat
        BY <1>2, <1>3, <3>3, StepInv DEF LeftFits
      <4> QED
        BY <1>3, <2>2, <4>1, <4>2, <4>3, <4>4, EventsAddNothing
    <3>7. \A d \in Clients : Busy(d) => Left(d)' <= Left(d)
      BY <2>1, <3>4, <3>6 DEF LeftFits
    <3> QED
      BY <2>1, <3>3, <3>5, <3>7 DEF EachStepAdvances
  <2>3. CASE UNCHANGED vars
    BY <1>3, <2>3 DEF SearchFits, vars, local
  <2> QED
    BY <1>3, <2>2, <2>3 DEF Next
<1> QED
  BY <1>1, <1>3, MatchInvariant, PTL DEF Spec
=============================================================================
