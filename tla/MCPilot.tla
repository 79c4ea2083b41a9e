------------------------------- MODULE MCPilot -------------------------------
(* Finite instances of Pilot: the .cfg files name the invocations.          *)
EXTENDS Pilot, TLC

Symmetry == Permutations(Pilots) \cup Permutations(Basenames)
=============================================================================
