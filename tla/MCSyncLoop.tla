----------------------------- MODULE MCSyncLoop -----------------------------
(* Small instances of SyncLoop for TLC. *)
EXTENDS SyncLoop, TLC

\* The callers are interchangeable; used in the safety runs only.
CallerSymmetry == Permutations(Callers)
=============================================================================
