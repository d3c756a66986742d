------------------------------ MODULE SyncLoop ------------------------------
(***************************************************************************)
(* One job's run loop and the controls other goroutines use on it:         *)
(* Start, Pause, Resume, SyncNow, Stop, run and the skeleton of sync, in   *)
(* internal/syncer/syncer.go.                                              *)
(*                                                                         *)
(* A control is not atomic.  Pause and Resume change the flag under the    *)
(* mutex, unlock, and only then send on a channel; the loop reads the flag *)
(* and publishes the paused phase in two separate critical sections.  Each *)
(* of these is an action of its own here.                                  *)
(*                                                                         *)
(* A definition marked "mutant" is a broken variant of the definition after *)
(* it, kept to confirm that a property notices the bug; Next uses none.    *)
(*                                                                         *)
(* What a cycle does to files is left to Batch and Library: here a cycle   *)
(* scans, may download, and returns one of the outcomes recordCycle tells  *)
(* apart.                                                                  *)
(***************************************************************************)
CONSTANT Callers   \* goroutines that use the controls (API handlers, Shutdown)

VARIABLES paused,     \* s.paused, and s.status.Paused, which always equals it
          phase,      \* s.status.Phase
          syncNow,    \* a token in s.syncNow (capacity one)
          pauseCh,    \* a token in s.pauseCh (capacity one)
          cancelled,  \* the context of the job is cancelled
          timer,      \* "off", "now" (zero delay) or "interval"
          loop,       \* where the run loop is
          outcome,    \* what the last cycle returned
          stopped,    \* the batch of this cycle was cut short
          missed,     \* what this cycle's scan did not look at
          caller,     \* what each caller still has to do
          owed        \* history: a scan was asked for since the last one began

vars == <<paused, phase, syncNow, pauseCh, cancelled, timer, loop,
          outcome, stopped, missed, caller, owed>>

Phases   == {"idle", "scanning", "downloading", "paused", "error"}
Outcomes == {"nil", "paused", "error"}
LoopPCs  == {"new", "select", "gate", "mark", "begin", "scan", "pick", "download",
             "record", "recheck", "repoll", "exited"}
Todos    == {"idle", "wakePause", "wakeSync", "stopping"}

\* Every variable keeps to the values the code can give it.
TypeOK == /\ paused \in BOOLEAN
          /\ phase \in Phases
          /\ syncNow \in BOOLEAN
          /\ pauseCh \in BOOLEAN
          /\ cancelled \in BOOLEAN
          /\ timer \in {"off", "now", "interval"}
          /\ loop \in LoopPCs
          /\ outcome \in Outcomes
          /\ stopped \in BOOLEAN
          /\ missed \in {"nothing", "unreadable", "unvisited"}
          /\ caller \in [Callers -> Todos]
          /\ owed \in BOOLEAN

\* New: an idle syncer whose loop has not been started.
Init == /\ paused = FALSE
        /\ phase = "idle"
        /\ syncNow = FALSE
        /\ pauseCh = FALSE
        /\ cancelled = FALSE
        /\ timer = "off"
        /\ loop = "new"
        /\ outcome = "nil"
        /\ stopped = FALSE
        /\ missed = "nothing"
        /\ caller = [c \in Callers |-> "idle"]
        /\ owed = FALSE

loopVars    == <<timer, loop, phase, outcome, stopped, missed>>
controlVars == <<paused, caller, cancelled>>
cycleVars   == <<outcome, stopped, missed>>

-----------------------------------------------------------------------------
\* The controls.

\* The loop is started with a timer that fires at once.  A job restored as
\* paused is paused first, by the same goroutine (daemon.go:211-217).
Start == /\ loop = "new"
         /\ \A c \in Callers : caller[c] = "idle"
         /\ loop' = "select"
         /\ timer' = "now"
         /\ owed' = TRUE
         /\ UNCHANGED <<paused, phase, syncNow, pauseCh, cancelled,
                        cycleVars, caller>>

\* Pause on a paused job returns without doing anything.
Pause(c) == /\ caller[c] = "idle"
            /\ ~paused
            /\ paused' = TRUE
            /\ caller' = [caller EXCEPT ![c] = "wakePause"]
            /\ UNCHANGED <<loopVars, syncNow, pauseCh, cancelled, owed>>

PauseForgetsToWake(tok) == tok   \* mutant of the next definition
\* The send fills the buffer, or finds a token there already.
PauseWake(tok) == TRUE

SendPause(c) == /\ caller[c] = "wakePause"
                /\ pauseCh' = PauseWake(pauseCh)
                /\ caller' = [caller EXCEPT ![c] = "idle"]
                /\ UNCHANGED <<loopVars, paused, syncNow, cancelled, owed>>

ResumeOnlyClears == "idle"   \* mutant
\* After clearing the flag, Resume goes on to SyncNow.
AfterResume == "wakeSync"

Resume(c) == /\ caller[c] = "idle"
             /\ loop # "new"
             /\ paused
             /\ paused' = FALSE
             /\ caller' = [caller EXCEPT ![c] = AfterResume]
             /\ owed' = TRUE
             /\ UNCHANGED <<loopVars, syncNow, pauseCh, cancelled>>

SendSync(c) == /\ caller[c] = "wakeSync"
               /\ syncNow' = TRUE
               /\ caller' = [caller EXCEPT ![c] = "idle"]
               /\ UNCHANGED <<loopVars, paused, pauseCh, cancelled, owed>>

\* Nobody but the goroutine that starts a job knows it before it has started.
\* A direct request: the send either fills the buffer or finds it full.
SyncNow(c) == /\ caller[c] = "idle"
              /\ loop # "new"
              /\ syncNow' = TRUE
              /\ owed' = TRUE
              /\ UNCHANGED <<loopVars, controlVars, pauseCh>>

\* Stop cancels and waits for the loop to close s.done.
Stop(c) == /\ caller[c] = "idle"
           /\ loop # "new"
           /\ cancelled' = TRUE
           /\ caller' = [caller EXCEPT ![c] = "stopping"]
           /\ UNCHANGED <<loopVars, paused, syncNow, pauseCh, owed>>

StopReturns(c) == /\ caller[c] = "stopping"
                  /\ loop = "exited"
                  /\ caller' = [caller EXCEPT ![c] = "idle"]
                  /\ UNCHANGED <<loopVars, paused, cancelled, syncNow, pauseCh, owed>>

-----------------------------------------------------------------------------
\* The run loop.  Its select takes any case that is ready.

CancelOnlyWhenActive == loop = "select" /\ cancelled /\ ~paused   \* mutant
CancelReady == loop = "select" /\ cancelled

TakeCancel == /\ CancelReady
              /\ loop' = "exited"
              /\ timer' = "off"
              /\ UNCHANGED <<controlVars, phase, syncNow, pauseCh,
                             cycleVars, owed>>

\* Whichever channel woke the loop, the timer is stopped and drained.
TakeTimer == /\ loop = "select"
             /\ timer # "off"
             /\ loop' = "gate"
             /\ timer' = "off"
             /\ UNCHANGED <<controlVars, phase, syncNow, pauseCh, cycleVars,
                            owed>>

TakeSyncNow == /\ loop = "select"
               /\ syncNow
               /\ syncNow' = FALSE
               /\ loop' = "gate"
               /\ timer' = "off"
               /\ UNCHANGED <<controlVars, phase, pauseCh, cycleVars, owed>>

TakePause == /\ loop = "select"
             /\ pauseCh
             /\ pauseCh' = FALSE
             /\ loop' = "gate"
             /\ timer' = "off"
             /\ UNCHANGED <<controlVars, phase, syncNow, cycleVars, owed>>

GateLeftOut(isPaused) == "begin"                                       \* mutant
GateForgetsToMark(isPaused) == IF isPaused THEN "select" ELSE "begin"  \* mutant
GateNext(isPaused) == IF isPaused THEN "mark" ELSE "begin"

\* Never start new work while paused.
Gate == /\ loop = "gate"
        /\ loop' = GateNext(paused)
        /\ UNCHANGED <<controlVars, phase, syncNow, pauseCh, timer, cycleVars, owed>>

\* markPaused, in a critical section of its own, then back to the select.
MarkPaused == /\ loop = "mark"
              /\ phase' = "paused"
              /\ loop' = "select"
              /\ UNCHANGED <<controlVars, syncNow, pauseCh, timer,
                             cycleVars, owed>>

\* sync begins: beginScan publishes the scanning phase.
Begin == /\ loop = "begin"
         /\ phase' = "scanning"
         /\ loop' = "scan"
         /\ stopped' = FALSE
         /\ missed' = "nothing"
         /\ owed' = FALSE
         /\ UNCHANGED <<controlVars, syncNow, pauseCh, timer, outcome>>

\* No connection, or no walk at all.
ScanFails == /\ loop = "scan"
             /\ outcome' = "error"
             /\ loop' = "record"
             /\ UNCHANGED <<controlVars, phase, syncNow, pauseCh, timer,
                            stopped, missed, owed>>

\* The walk went through the tree; parts of it may have been unreadable.
Walked == /\ loop = "scan"
          /\ missed' \in {"nothing", "unreadable"}
          /\ loop' = "pick"
          /\ UNCHANGED <<controlVars, phase, syncNow, pauseCh, timer,
                         outcome, stopped, owed>>

\* selectForDownload leaves its loop early once the context is cancelled.
SelectionCut == /\ loop = "pick"
                /\ cancelled
                /\ missed' = "unvisited"
                /\ UNCHANGED <<controlVars, phase, syncNow, pauseCh, timer,
                               loop, outcome, stopped, owed>>

PartialForgiven(gap, stopping) == "nil"   \* mutant
\* What a cycle without any other error returns: an unreadable path is an
\* error, unless the job is being stopped.
WholeOutcome(gap, stopping) ==
  IF gap = "unreadable" /\ ~stopping THEN "error" ELSE "nil"

\* The manifest has everything, or the batch does not fit on the disk.
NothingToDownload == /\ loop = "pick"
                     /\ outcome' \in {WholeOutcome(missed, cancelled), "error"}
                     /\ loop' = "record"
                     /\ UNCHANGED <<controlVars, phase, syncNow, pauseCh, timer, stopped, missed, owed>>

\* There are files to download: beginDownload.
BatchBegins == /\ loop = "pick"
               /\ phase' = "downloading"
               /\ loop' = "download"
               /\ UNCHANGED <<controlVars, syncNow, pauseCh, timer,
                              cycleVars, owed>>

\* shouldStopSubmitting answers yes before the last file was taken on.
BatchStops == /\ loop = "download"
              /\ ~stopped
              /\ paused \/ cancelled
              /\ stopped' = TRUE
              /\ UNCHANGED <<controlVars, phase, syncNow, pauseCh, timer,
                             outcome, missed, loop, owed>>

BatchForgetsCut == {WholeOutcome(missed, cancelled), "error"}   \* mutant
\* A batch that was cut short is interrupted when the context is gone by the
\* time it returns, and paused otherwise; a failed file takes precedence.
BatchOutcomes == IF stopped THEN {"error"} \cup (IF cancelled THEN {} ELSE {"paused"})
                 ELSE {WholeOutcome(missed, cancelled), "error"}

BatchEnds == /\ loop = "download"
             /\ outcome' \in BatchOutcomes
             /\ loop' = "record"
             /\ UNCHANGED <<controlVars, phase, syncNow, pauseCh, timer,
                            stopped, missed, owed>>

RecordedOnlySuccess(out, stopping, old) == IF out = "nil" THEN "idle" ELSE old  \* mutant
RecordedVerbatim(out, stopping, old) == out                                    \* mutant

\* recordCycle: success, a pause (the loop publishes that phase itself), an
\* error blamed on the shutdown, or a failure.
RecordedPhase(out, stopping, old) ==
  IF out = "nil" THEN "idle"
  ELSE IF out = "error" /\ ~stopping THEN "error" ELSE old

RecordCycle == /\ loop = "record"
               /\ phase' = RecordedPhase(outcome, cancelled, phase)
               /\ loop' = "recheck"
               /\ UNCHANGED <<controlVars, syncNow, pauseCh, timer,
                              cycleVars, owed>>

RecheckNext(isPaused) == IF isPaused THEN "mark" ELSE "repoll"

\* A pause that arrived while the cycle ran takes effect now.
Recheck == /\ loop = "recheck"
           /\ loop' = RecheckNext(paused)
           /\ UNCHANGED <<controlVars, phase, syncNow, pauseCh, timer,
                          cycleVars, owed>>

RepollDropsRequest(tok) == "interval"   \* mutant
RepollDelay(tok) == IF tok THEN "now" ELSE "interval"

\* A request that arrived while the cycle ran is served at once.
Repoll == /\ loop = "repoll"
          /\ timer' = RepollDelay(syncNow)
          /\ syncNow' = FALSE
          /\ loop' = "select"
          /\ UNCHANGED <<controlVars, phase, pauseCh, cycleVars, owed>>

CycleStep == \/ Begin \/ ScanFails \/ Walked \/ SelectionCut \/ NothingToDownload
             \/ BatchBegins \/ BatchStops \/ BatchEnds \/ RecordCycle
LoopStep  == TakeTimer \/ TakeSyncNow \/ TakePause \/ Gate \/ MarkPaused
             \/ Recheck \/ Repoll
Control(c) == \/ Pause(c) \/ SendPause(c)
              \/ Resume(c) \/ SendSync(c) \/ SyncNow(c)
              \/ Stop(c) \/ StopReturns(c)

Next == \/ Start
        \/ \E c \in Callers : Control(c)
        \/ TakeCancel
        \/ LoopStep
        \/ CycleStep

Safe == Init /\ [][Next]_vars

-----------------------------------------------------------------------------
(***************************************************************************)
(* Fairness.  The Go runtime schedules every goroutine that can run: the   *)
(* loop keeps moving, its timer fires, and a caller that is between its    *)
(* two steps takes the second.  A cycle ends: only dialling has a deadline *)
(* in the code, so this assumes that a dead peer's connection fails in the *)
(* end.  The select picks among its ready cases at random,                 *)
(* so one that is ready over and over is taken in the end: strong fairness *)
(* of each receive.  Nobody is obliged to use a control, and the scheduler *)
(* is not obliged to let a batch notice a pause.                           *)
(***************************************************************************)
Fairness == /\ WF_vars(Start) /\ WF_vars(TakeTimer) /\ WF_vars(Gate) /\ WF_vars(MarkPaused)
            /\ WF_vars(Begin) /\ WF_vars(ScanFails \/ Walked)
            /\ WF_vars(NothingToDownload \/ BatchBegins)
            /\ WF_vars(BatchEnds) /\ WF_vars(RecordCycle)
            /\ WF_vars(Recheck) /\ WF_vars(Repoll)
            /\ SF_vars(TakeCancel) /\ SF_vars(TakeSyncNow) /\ SF_vars(TakePause)
            /\ \A c \in Callers : /\ WF_vars(SendPause(c))
                                  /\ WF_vars(SendSync(c))
                                  /\ WF_vars(StopReturns(c))

Spec == Safe /\ Fairness
-----------------------------------------------------------------------------
(***************************************************************************)
(* Properties.                                                             *)
(***************************************************************************)

\* A wake-up for a sync request is on its way: the token is in the channel,
\* or a Resume is about to put it there.
Wakeup == syncNow \/ \E c \in Callers : caller[c] = "wakeSync"

\* A wake-up for a pause is on its way.
PauseWakeup == pauseCh \/ \E c \in Callers : caller[c] = "wakePause"

InCycle == loop \in {"scan", "pick", "download", "record"}

\* No request is lost.  Whenever the loop is past the point where it would
\* notice one by itself, a scan that is owed to an unpaused job still has a
\* wake-up in flight, however Pause, Resume and SyncNow interleave with the
\* two halves of Pause and Resume and with the loop's own two looks at the
\* flag (syncer.go:116-147, 436-480).
RequestKept ==
  owed /\ ~paused =>
    /\ InCycle \/ loop \in {"recheck", "mark", "repoll"} => Wakeup
    /\ loop = "select" => Wakeup \/ timer = "now"

\* The loop never waits on a select that nothing will wake.  An unpaused job
\* has its timer armed or a request coming; a paused one says so, or a wake-up
\* that will make it say so is coming: "status becomes paused once no cycle is
\* running" (syncer.go:112-115, 448-480).
NotStranded ==
  loop = "select" => IF paused THEN phase = "paused" \/ PauseWakeup
                     ELSE timer # "off" \/ Wakeup

\* A job never sits out an interval showing a cycle that is over, nor the
\* paused phase after it was resumed: the phase left by a cycle which a pause
\* cut short (recordCycle writes nothing then) is overwritten by the paused
\* phase or by a scan that is already on its way (syncer.go:411-425, 464-479).
PhaseHonest ==
  loop = "select" /\ ~paused /\ ~cancelled
                  /\ phase \in {"scanning", "downloading", "paused"}
    => Wakeup \/ timer = "now"

\* Only the shutdown of the job can turn a cycle that did not see the whole
\* server into a success (syncer.go:515-519, 554-558, 566-572).
PartialIsNoSuccess ==
  loop = "record" /\ outcome = "nil" /\ missed # "nothing" => cancelled

\* A paused job shows the paused phase in the end, unless it is resumed or
\* stopped (syncer.go:114-115).
PauseSettles == paused /\ loop # "new" ~> phase = "paused" \/ ~paused \/ cancelled

\* Stop returns from idle, active and paused jobs alike
\* (docs/github-issues-roadmap.md:223).
StopEnds == \A c \in Callers : caller[c] = "stopping" ~> caller[c] = "idle"

\* The loop and its controls implement the promise of JobControl: no scan is
\* admitted to a paused job, scans do not overlap, a requested scan begins
\* unless the job is paused or stopped, and a cancelled job ends
\* (syncer.go:112-182, 427-481).
JC == INSTANCE JobControl WITH
        cycle <- IF loop = "begin" THEN "admitted"
                 ELSE IF InCycle THEN "running" ELSE "none",
        ended <- (loop = "exited")

ImplementsJobControl == JC!Spec

\* Each cycle is what Cycle says of it, as each batch is (Batch): so what the
\* loop does after a batch agrees with what a batch does (syncer.go:411-425,
\* 482-572).
Cy == INSTANCE Cycle WITH
        work   <- IF InCycle THEN IF stopped THEN "cut" ELSE "whole" ELSE "none",
        result <- IF loop = "record" THEN outcome ELSE "none"

ImplementsCycle == Cy!Spec
=============================================================================
