------------------------ MODULE MCCryptodevSessions ------------------------
(* Model checking of CryptodevSessions: the instances are in the .cfg      *)
(* files; threads, memory cells and identifiers are interchangeable.       *)
EXTENDS CryptodevSessions, TLC

Symmetry == Permutations(Threads) \cup Permutations(Sessions) \cup Permutations(Sids)
=============================================================================
