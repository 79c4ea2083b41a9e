---------------------------- MODULE MCController ----------------------------
(* Finite instances of Controller: the .cfg files give the identities as    *)
(* model values; safety runs may permute workers, instructions and runs.    *)
EXTENDS Controller

Symmetry ==
  Permutations(Workers) \cup Permutations(Instructions) \cup Permutations(Runs)
=============================================================================
