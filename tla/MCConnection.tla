---------------------------- MODULE MCConnection ----------------------------
(* A small client for TLC; the workers are interchangeable. *)
EXTENDS Connection, TLC

WorkerSymmetry == Permutations(Workers)
=============================================================================
