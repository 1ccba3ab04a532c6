---------------------------- MODULE MCMatching ----------------------------
(* Instances of Matching small enough for TLC. *)
EXTENDS Matching, TLC

\* The clients are interchangeable.
ClientSymmetry == Permutations(Clients)

\* Bound: only the first match may be for a map without data.
StrayFirst == \A m \in Ids \ {1} : matches[m] # None => matches[m].mapid \in Known
=============================================================================
