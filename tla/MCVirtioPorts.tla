--------------------------- MODULE MCVirtioPorts ---------------------------
(* Model checking of VirtioPorts; the instances are in the .cfg files.     *)
EXTENDS VirtioPorts, TLC

Symmetry == Permutations(Tasks) \cup Permutations(Mem)
=============================================================================
