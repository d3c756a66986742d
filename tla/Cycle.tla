------------------------------- MODULE Cycle -------------------------------
(***************************************************************************)
(* What a synchronisation cycle promises about its result.  It says nothing *)
(* of files, workers, retries or phases.  SyncLoop implements it for cycle *)
(* after cycle, leaving open what a batch of downloads does; Batch         *)
(* implements it for one batch, with every file and worker: so the loop    *)
(* may count on what the batch does.                                       *)
(*                                                                         *)
(*  - Work is cut short only for a pause or a shutdown, once, and what is  *)
(*    cut short is never a success.                                        *)
(*  - A cycle reports a pause only when it was cut short and no shutdown   *)
(*    had begun by the time it returned, even if the job was resumed.      *)
(*  - A cycle that has begun returns.                                      *)
(***************************************************************************)
VARIABLES paused,     \* the user's last word: pause or resume
          cancelled,  \* the job was told to stop
          work,       \* "none", "whole", or "cut" once nothing more is taken on
          result      \* what the cycle returned, "none" before it has

vars == <<paused, cancelled, work, result>>

TypeOK == /\ paused \in BOOLEAN
          /\ cancelled \in BOOLEAN
          /\ work \in {"none", "whole", "cut"}
          /\ result \in {"none", "nil", "paused", "error"}

Init == /\ paused \in BOOLEAN
        /\ cancelled = FALSE
        /\ work \in {"none", "whole"}
        /\ result = "none"

\* Pause or Resume, and Stop.
Toggle == paused' = ~paused /\ UNCHANGED <<cancelled, work, result>>
Cancel == cancelled' = TRUE /\ UNCHANGED <<paused, work, result>>

Begin == /\ work = "none"
         /\ work' = "whole"
         /\ UNCHANGED <<paused, cancelled, result>>

Cut == /\ work = "whole"
       /\ result = "none"
       /\ paused \/ cancelled
       /\ work' = "cut"
       /\ UNCHANGED <<paused, cancelled, result>>

\* An error may always come first.
Results == {"error"} \cup CASE work = "whole" -> {"nil"}
                            [] work = "cut"   -> IF cancelled THEN {} ELSE {"paused"}

Return == /\ work # "none"
          /\ result = "none"
          /\ result' \in Results
          /\ UNCHANGED <<paused, cancelled, work>>

\* The result has been recorded.
Finish == /\ result # "none"
          /\ work' = "none"
          /\ result' = "none"
          /\ UNCHANGED <<paused, cancelled>>

Next == Toggle \/ Cancel \/ Begin \/ Cut \/ Return \/ Finish

Safe == Init /\ [][Next]_vars

Spec == Safe /\ WF_vars(Return)
=============================================================================
