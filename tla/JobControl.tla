----------------------------- MODULE JobControl -----------------------------
(***************************************************************************)
(* What one synchronisation job promises the people who control it: the    *)
(* CLI, the menu bar and the daemon's shutdown.  It says nothing of         *)
(* channels, timers or locks; SyncLoop implements it.                      *)
(*                                                                         *)
(*  - A scan is admitted only while the job is not paused, and at most one *)
(*    is admitted or running at any time.                                  *)
(*  - A requested scan is eventually admitted, unless the job is paused    *)
(*    or ending.                                                           *)
(*  - A cancelled job ends, whatever it was doing.                         *)
(***************************************************************************)
VARIABLES paused,     \* the user's last word: pause or resume
          cycle,      \* "none", "admitted" (about to begin) or "running"
          owed,       \* a scan was asked for since the last one began
          cancelled,  \* the job was told to stop
          ended       \* the job's loop is gone

vars == <<paused, cycle, owed, cancelled, ended>>

TypeOK == /\ paused \in BOOLEAN
          /\ cycle \in {"none", "admitted", "running"}
          /\ owed \in BOOLEAN
          /\ cancelled \in BOOLEAN
          /\ ended \in BOOLEAN

Init == /\ paused = FALSE
        /\ cycle = "none"
        /\ owed = FALSE
        /\ cancelled = FALSE
        /\ ended = FALSE

Pause == /\ paused' = TRUE
         /\ UNCHANGED <<cycle, owed, cancelled, ended>>

Resume == /\ paused' = FALSE
          /\ owed' = TRUE
          /\ UNCHANGED <<cycle, cancelled, ended>>

Request == /\ owed' = TRUE
           /\ UNCHANGED <<paused, cycle, cancelled, ended>>

Cancel == /\ cancelled' = TRUE
          /\ UNCHANGED <<paused, cycle, owed, ended>>

Admit == /\ cycle = "none"
         /\ ~paused
         /\ ~ended
         /\ cycle' = "admitted"
         /\ UNCHANGED <<paused, owed, cancelled, ended>>

Begin == /\ cycle = "admitted"
         /\ cycle' = "running"
         /\ owed' = FALSE
         /\ UNCHANGED <<paused, cancelled, ended>>

Finish == /\ cycle = "running"
          /\ cycle' = "none"
          /\ UNCHANGED <<paused, owed, cancelled, ended>>

End == /\ cancelled
       /\ cycle = "none"
       /\ ~ended
       /\ ended' = TRUE
       /\ UNCHANGED <<paused, cycle, owed, cancelled>>

Next == Pause \/ Resume \/ Request \/ Cancel \/ Admit \/ Begin \/ Finish \/ End

\* A scan nobody asked for is the interval's business; one that is owed may
\* not be put off for ever.
AdmitOwed == owed /\ Admit

Safe == Init /\ [][Next]_vars

Spec == /\ Safe
        /\ WF_vars(AdmitOwed)
        /\ WF_vars(Begin)
        /\ WF_vars(Finish)
        /\ SF_vars(End)
=============================================================================
