---------------------------- MODULE MCWorkerOnce ----------------------------
(* Finite instances of WorkerOnce: the .cfg files give the identities as    *)
(* model values.                                                            *)
EXTENDS WorkerOnce, TLC

Symmetry == Permutations(Invocations) \cup Permutations(Instructions)
=============================================================================
