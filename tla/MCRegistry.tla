----------------------------- MODULE MCRegistry -----------------------------
(* Small daemons for TLC. *)
EXTENDS Registry, TLC

RegistrySymmetry == Permutations(Jobs) \cup Permutations(Callers)
=============================================================================
