----------------------------- MODULE MCDelivery -----------------------------
(* Finite instances of Delivery: the .cfg files name the processes and the  *)
(* messages; safety runs may permute both.                                  *)
EXTENDS Delivery, TLC

Symmetry == Permutations(Processes) \cup Permutations(Messages)
=============================================================================
