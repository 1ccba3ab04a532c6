------------------------------ MODULE MCLocks ------------------------------
(* An instance of Locks small enough for TLC. *)
EXTENDS Locks, TLC

CONSTANTS w1, w2, p1, p2, dungeon, party

\* The IO workers are interchangeable.
WorkerSymmetry == Permutations({w1, w2})

MCRecipients == {<<p1>>}
MCQueues == {<<party>>}
MCLayouts == {<<dungeon>>}
=============================================================================
