---------------------------- MODULE MCPublication ----------------------------
(* Finite instances of Publication: the .cfg files name the requests.       *)
EXTENDS Publication, TLC

Symmetry == Permutations(Requests)
=============================================================================
