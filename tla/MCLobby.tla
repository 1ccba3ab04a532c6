------------------------------ MODULE MCLobby ------------------------------
EXTENDS Lobby, TLC

Symmetry == Permutations(Clients)
=============================================================================
