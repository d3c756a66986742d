--------------------------- MODULE SyncLoopProofs ---------------------------
(***************************************************************************)
(* Safety of SyncLoop for any set of callers, and the proof that its steps *)
(* are steps of JobControl.                                                *)
(***************************************************************************)
EXTENDS SyncLoop, TLAPS

-----------------------------------------------------------------------------
(***************************************************************************)
(* TypeOK.                                                                 *)
(***************************************************************************)

\* Every variable keeps to its type along the run loop and the controls
\* (syncer.go:97-209, 427-481).
THEOREM TypeCorrect == Safe => []TypeOK
<1>1. Init => TypeOK
  BY DEF Init, TypeOK, Phases, Outcomes, LoopPCs, Todos
<1>2. TypeOK /\ [Next]_vars => TypeOK'
  <2> SUFFICES ASSUME TypeOK, [Next]_vars PROVE TypeOK'
    OBVIOUS
  <2> USE DEF TypeOK, Phases, Outcomes, LoopPCs, Todos,
              loopVars, controlVars, cycleVars
  <2>1. CASE Start
    BY <2>1 DEF Start
  <2>2. ASSUME NEW c \in Callers, Control(c) PROVE TypeOK'
    <3>1. CASE Pause(c)
      BY <3>1 DEF Pause
    <3>2. CASE SendPause(c)
      BY <3>2 DEF SendPause, PauseWake
    <3>3. CASE Resume(c)
      <4>1. caller' \in [Callers -> Todos]
        BY <3>3 DEF Resume, AfterResume
      <4>2. paused' \in BOOLEAN /\ owed' \in BOOLEAN
        BY <3>3 DEF Resume
      <4> QED
        BY <3>3, <4>1, <4>2 DEF Resume
    <3>4. CASE SendSync(c)
      BY <3>4 DEF SendSync
    <3>5. CASE SyncNow(c)
      BY <3>5 DEF SyncNow
    <3>6. CASE Stop(c)
      BY <3>6 DEF Stop
    <3>7. CASE StopReturns(c)
      BY <3>7 DEF StopReturns
    <3> QED
      BY <2>2, <3>1, <3>2, <3>3, <3>4, <3>5, <3>6, <3>7 DEF Control
  <2>3. CASE TakeCancel
    BY <2>3 DEF TakeCancel, CancelReady
  <2>4. CASE LoopStep
    <3>1. CASE TakeTimer
      <4>1. loop' \in LoopPCs /\ syncNow' \in BOOLEAN /\ pauseCh' \in BOOLEAN /\ timer' = "off"
        BY <3>1 DEF TakeTimer
      <4>2. UNCHANGED <<controlVars, phase, cycleVars, owed>>
        BY <3>1 DEF TakeTimer
      <4> QED
        BY <4>1, <4>2
    <3>2. CASE TakeSyncNow
      <4>1. loop' \in LoopPCs /\ syncNow' \in BOOLEAN /\ pauseCh' \in BOOLEAN /\ timer' = "off"
        BY <3>2 DEF TakeSyncNow
      <4>2. UNCHANGED <<controlVars, phase, cycleVars, owed>>
        BY <3>2 DEF TakeSyncNow
      <4> QED
        BY <4>1, <4>2
    <3>3. CASE TakePause
      <4>1. loop' \in LoopPCs /\ syncNow' \in BOOLEAN /\ pauseCh' \in BOOLEAN /\ timer' = "off"
        BY <3>3 DEF TakePause
      <4>2. UNCHANGED <<controlVars, phase, cycleVars, owed>>
        BY <3>3 DEF TakePause
      <4> QED
        BY <4>1, <4>2
    <3>4. CASE Gate
      BY <3>4 DEF Gate, GateNext
    <3>5. CASE MarkPaused
      BY <3>5 DEF MarkPaused
    <3>6. CASE Recheck
      BY <3>6 DEF Recheck, RecheckNext
    <3>7. CASE Repoll
      <4>1. timer' \in {"off", "now", "interval"}
        BY <3>7, Zenon DEF Repoll, RepollDelay
      <4>2. /\ loop' \in LoopPCs /\ syncNow' \in BOOLEAN
            /\ UNCHANGED <<controlVars, phase, cycleVars, pauseCh, owed>>
        BY <3>7 DEF Repoll
      <4> QED
        BY <4>1, <4>2
    <3> QED
      BY <2>4, <3>1, <3>2, <3>3, <3>4, <3>5, <3>6, <3>7 DEF LoopStep
  <2>5. CASE CycleStep
    <3>1. CASE Begin
      BY <3>1 DEF Begin
    <3>2. CASE ScanFails
      BY <3>2 DEF ScanFails
    <3>3. CASE Walked
      BY <3>3 DEF Walked
    <3>4. CASE SelectionCut
      BY <3>4 DEF SelectionCut
    <3>5. CASE NothingToDownload
      BY <3>5 DEF NothingToDownload, WholeOutcome
    <3>6. CASE BatchBegins
      BY <3>6 DEF BatchBegins
    <3>7. CASE BatchStops
      BY <3>7 DEF BatchStops
    <3>8. CASE BatchEnds
      BY <3>8 DEF BatchEnds, BatchOutcomes, WholeOutcome
    <3>9. CASE RecordCycle
      BY <3>9 DEF RecordCycle, RecordedPhase
    <3> QED
      BY <2>5, <3>1, <3>2, <3>3, <3>4, <3>5, <3>6, <3>7, <3>8, <3>9 DEF CycleStep
  <2>6. CASE UNCHANGED vars
    BY <2>6 DEF vars
  <2> QED
    BY <2>1, <2>2, <2>3, <2>4, <2>5, <2>6 DEF Next
<1> QED
  BY <1>1, <1>2, PTL DEF Safe

-----------------------------------------------------------------------------
(***************************************************************************)
(* Wake-ups.  The argument for every other invariant is the same: a token  *)
(* that is needed is never lost.  These lemmas say what each group of      *)
(* steps does to the two kinds of wake-up; after them nothing needs to     *)
(* look inside a control again.                                            *)
(***************************************************************************)

\* What a control may do: it never touches the loop, it only ever adds
\* wake-ups, and it leaves the one its change of the flag calls for.
ControlEffect == /\ UNCHANGED loopVars
                 /\ Wakeup => Wakeup'
                 /\ PauseWakeup => PauseWakeup'
                 /\ paused /\ ~paused' => Wakeup'
                 /\ ~paused /\ paused' => PauseWakeup'
                 /\ ~owed /\ owed' => Wakeup'
                 /\ cancelled => cancelled'

LEMMA ControlKeeps ==
  ASSUME TypeOK, NEW c \in Callers, Control(c)
  PROVE  ControlEffect
<1> USE DEF TypeOK, ControlEffect, Wakeup, PauseWakeup, controlVars
<1>1. CASE Pause(c)
  <2>1. caller'[c] = "wakePause" /\ \A d \in Callers \ {c} : caller'[d] = caller[d]
    BY <1>1 DEF Pause
  <2>2. caller[c] = "idle"
    BY <1>1 DEF Pause
  <2> QED
    BY <1>1, <2>1, <2>2, Zenon DEF Pause
<1>2. CASE SendPause(c)
  <2>1. \A d \in Callers \ {c} : caller'[d] = caller[d]
    BY <1>2 DEF SendPause
  <2>2. caller[c] = "wakePause"
    BY <1>2 DEF SendPause
  <2>3. pauseCh'
    BY <1>2 DEF SendPause, PauseWake
  <2> QED
    BY <1>2, <2>1, <2>2, <2>3, Zenon DEF SendPause
<1>3. CASE Resume(c)
  <2>1. caller'[c] = "wakeSync" /\ \A d \in Callers \ {c} : caller'[d] = caller[d]
    BY <1>3 DEF Resume, AfterResume
  <2>2. caller[c] = "idle"
    BY <1>3 DEF Resume
  <2> QED
    BY <1>3, <2>1, <2>2, Zenon DEF Resume
<1>4. CASE SendSync(c)
  <2>1. \A d \in Callers \ {c} : caller'[d] = caller[d]
    BY <1>4 DEF SendSync
  <2>2. caller[c] = "wakeSync"
    BY <1>4 DEF SendSync
  <2> QED
    BY <1>4, <2>1, <2>2, Zenon DEF SendSync
<1>5. CASE SyncNow(c)
  BY <1>5, Zenon DEF SyncNow
<1>6. CASE Stop(c)
  <2>1. \A d \in Callers \ {c} : caller'[d] = caller[d]
    BY <1>6 DEF Stop
  <2>2. caller[c] = "idle"
    BY <1>6 DEF Stop
  <2> QED
    BY <1>6, <2>1, <2>2, Zenon DEF Stop
<1>7. CASE StopReturns(c)
  <2>1. \A d \in Callers \ {c} : caller'[d] = caller[d]
    BY <1>7 DEF StopReturns
  <2>2. caller[c] = "stopping"
    BY <1>7 DEF StopReturns
  <2> QED
    BY <1>7, <2>1, <2>2, Zenon DEF StopReturns
<1> QED
  BY <1>1, <1>2, <1>3, <1>4, <1>5, <1>6, <1>7 DEF Control

\* The loop consumes a sync token in two places only, and a pause token in
\* one; no other step of it changes a flag or a token.
LEMMA LoopKeeps ==
  ASSUME Start \/ TakeCancel \/ LoopStep \/ CycleStep
  PROVE  /\ UNCHANGED controlVars
         /\ PauseWakeup => PauseWakeup' \/ TakePause
         /\ Wakeup => Wakeup' \/ TakeSyncNow \/ (Repoll /\ syncNow)
<1> USE DEF Wakeup, PauseWakeup, controlVars
<1>1. CASE Start
  BY <1>1, Zenon DEF Start
<1>2. CASE TakeCancel
  BY <1>2, Zenon DEF TakeCancel
<1>3. CASE LoopStep
  <2>1. CASE TakeTimer
    BY <2>1, Zenon DEF TakeTimer
  <2>2. CASE TakeSyncNow
    BY <2>2, Zenon DEF TakeSyncNow
  <2>3. CASE TakePause
    BY <2>3, Zenon DEF TakePause
  <2>4. CASE Gate
    BY <2>4, Zenon DEF Gate
  <2>5. CASE MarkPaused
    BY <2>5, Zenon DEF MarkPaused
  <2>6. CASE Recheck
    BY <2>6, Zenon DEF Recheck
  <2>7. CASE Repoll
    BY <2>7, Zenon DEF Repoll
  <2> QED
    BY <1>3, <2>1, <2>2, <2>3, <2>4, <2>5, <2>6, <2>7, Zenon DEF LoopStep
<1>4. CASE CycleStep
  <2>1. caller' = caller /\ paused' = paused /\ cancelled' = cancelled
        /\ syncNow' = syncNow /\ pauseCh' = pauseCh
    BY <1>4 DEF CycleStep, Begin, ScanFails, Walked, SelectionCut,
                NothingToDownload, BatchBegins, BatchStops, BatchEnds, RecordCycle
  <2> QED
    BY <2>1, Zenon
<1> QED
  BY <1>1, <1>2, <1>3, <1>4, Zenon

-----------------------------------------------------------------------------
(***************************************************************************)
(* No request is lost.                                                     *)
(***************************************************************************)
LEMMA RequestStep ==
  ASSUME TypeOK, RequestKept, Next
  PROVE  RequestKept'
<1> USE DEF RequestKept, InCycle
<1>1. ASSUME NEW c \in Callers, Control(c) PROVE RequestKept'
  <2>1. ControlEffect
    BY <1>1, ControlKeeps
  <2> QED
    BY <2>1 DEF ControlEffect, loopVars
<1>2. CASE Start
  BY <1>2 DEF Start
<1>3. CASE TakeCancel
  BY <1>3 DEF TakeCancel
<1>4. CASE LoopStep
  <2>1. CASE TakeTimer \/ TakeSyncNow \/ TakePause
    BY <2>1 DEF TakeTimer, TakeSyncNow, TakePause
  <2>2. CASE Gate
    BY <2>2 DEF Gate, GateNext, controlVars
  <2>3. CASE MarkPaused
    BY <1>4, <2>3, LoopKeeps DEF MarkPaused, controlVars, TakeSyncNow, Repoll
  <2>4. CASE Recheck
    BY <1>4, <2>4, LoopKeeps DEF Recheck, RecheckNext, controlVars, TakeSyncNow, Repoll
  <2>5. CASE Repoll
    <3>1. syncNow => timer' = "now"
      BY <2>5, Zenon DEF Repoll, RepollDelay
    <3> QED
      BY <1>4, <2>5, <3>1, LoopKeeps DEF Repoll, controlVars, TakeSyncNow
  <2> QED
    BY <1>4, <2>1, <2>2, <2>3, <2>4, <2>5 DEF LoopStep
<1>5. CASE CycleStep
  <2>1. CASE Begin
    BY <2>1 DEF Begin
  <2>2. ASSUME ~Begin PROVE loop # "select" /\ loop \in {"scan", "pick", "download", "record"}
                             /\ loop' # "select" /\ owed' = owed
    BY <1>5, <2>2 DEF CycleStep, ScanFails, Walked, SelectionCut, NothingToDownload,
                 BatchBegins, BatchStops, BatchEnds, RecordCycle
  <2> QED
    BY <1>5, <2>1, <2>2, LoopKeeps DEF controlVars, TakeSyncNow, Repoll
<1> QED
  BY <1>1, <1>2, <1>3, <1>4, <1>5 DEF Next

\* A scan that is owed to an unpaused job always has a wake-up in flight:
\* no interleaving of the halves of Pause and Resume with the loop's looks
\* at the flag loses a request (syncer.go:116-147, 436-480).
THEOREM NoRequestLost == Safe => []RequestKept
<1>1. Init => RequestKept
  BY DEF Init, RequestKept, InCycle
<1>2. TypeOK /\ RequestKept /\ [Next]_vars => RequestKept'
  <2> SUFFICES ASSUME TypeOK, RequestKept, [Next]_vars PROVE RequestKept'
    OBVIOUS
  <2>1. CASE Next
    BY <2>1, RequestStep
  <2>2. CASE UNCHANGED vars
    BY <2>2, Zenon DEF vars, RequestKept, InCycle, Wakeup
  <2> QED
    BY <2>1, <2>2
<1> QED
  BY <1>1, <1>2, TypeCorrect, PTL DEF Safe

-----------------------------------------------------------------------------
(***************************************************************************)
(* What the loop shows and waits for.  Neither NotStranded nor             *)
(* PhaseHonest is inductive: the step that reaches the select was decided  *)
(* earlier, at a point where a control could still slip in between.  The   *)
(* strengthening says, for each such point, that the control left a        *)
(* wake-up behind.                                                         *)
(***************************************************************************)
StalePhase == phase \in {"scanning", "downloading", "paused"}
Settling   == ~paused /\ ~cancelled

WaitInv ==
  /\ loop = "mark" /\ ~paused => Wakeup
  /\ loop = "select" /\ ~paused => timer # "off" \/ Wakeup
  /\ loop \in {"new", "repoll"} /\ paused => PauseWakeup
  /\ loop = "select" /\ paused => phase = "paused" \/ PauseWakeup

ShownInv ==
  /\ loop \in {"scan", "pick"} => ~stopped
  /\ loop = "download" /\ stopped /\ Settling => Wakeup
  /\ loop = "record" /\ outcome = "paused" /\ Settling => Wakeup
  /\ loop \in {"recheck", "repoll"} /\ StalePhase /\ Settling => Wakeup
  /\ loop = "select" /\ StalePhase /\ Settling => Wakeup \/ timer = "now"
  /\ loop = "mark" /\ Settling => Wakeup

LEMMA WaitStep ==
  ASSUME TypeOK, WaitInv, Next
  PROVE  WaitInv'
<1> USE DEF WaitInv
<1>1. ASSUME NEW c \in Callers, Control(c) PROVE WaitInv'
  <2>1. ControlEffect
    BY <1>1, ControlKeeps
  <2> QED
    BY <2>1 DEF ControlEffect, loopVars
<1>2. CASE Start
  BY <1>2, LoopKeeps DEF Start, controlVars, TakePause
<1>3. CASE TakeCancel
  BY <1>3 DEF TakeCancel
<1>4. CASE LoopStep
  <2>1. CASE TakeTimer \/ TakeSyncNow \/ TakePause
    BY <2>1 DEF TakeTimer, TakeSyncNow, TakePause
  <2>2. CASE Gate
    BY <2>2 DEF Gate, GateNext, controlVars
  <2>3. CASE MarkPaused
    BY <1>4, <2>3, LoopKeeps DEF MarkPaused, controlVars, TakeSyncNow, Repoll
  <2>4. CASE Recheck
    BY <2>4 DEF Recheck, RecheckNext, controlVars
  <2>5. CASE Repoll
    <3>1. timer' # "off"
      BY <2>5, Zenon DEF Repoll, RepollDelay
    <3> QED
      BY <1>4, <2>5, <3>1, LoopKeeps DEF Repoll, controlVars, TakePause
  <2> QED
    BY <1>4, <2>1, <2>2, <2>3, <2>4, <2>5 DEF LoopStep
<1>5. CASE CycleStep
  <2>1. loop' \notin {"new", "mark", "select", "repoll"}
    BY <1>5 DEF CycleStep, Begin, ScanFails, Walked, SelectionCut, NothingToDownload,
                BatchBegins, BatchStops, BatchEnds, RecordCycle
  <2> QED
    BY <2>1
<1> QED
  BY <1>1, <1>2, <1>3, <1>4, <1>5 DEF Next

LEMMA ShownStep ==
  ASSUME TypeOK, ShownInv, Next
  PROVE  ShownInv'
<1> USE DEF ShownInv, StalePhase, Settling
<1>1. ASSUME NEW c \in Callers, Control(c) PROVE ShownInv'
  <2>1. ControlEffect
    BY <1>1, ControlKeeps
  <2> QED
    BY <2>1 DEF ControlEffect, loopVars
<1>2. CASE Start
  BY <1>2 DEF Start
<1>3. CASE TakeCancel
  BY <1>3 DEF TakeCancel
<1>4. CASE LoopStep
  <2>1. CASE TakeTimer \/ TakeSyncNow \/ TakePause
    BY <2>1 DEF TakeTimer, TakeSyncNow, TakePause
  <2>2. CASE Gate
    BY <2>2 DEF Gate, GateNext, controlVars
  <2>3. CASE MarkPaused
    BY <1>4, <2>3, LoopKeeps DEF MarkPaused, controlVars, TakeSyncNow, Repoll
  <2>4. CASE Recheck
    BY <1>4, <2>4, LoopKeeps DEF Recheck, RecheckNext, controlVars, TakeSyncNow, Repoll
  <2>5. CASE Repoll
    <3>1. syncNow => timer' = "now"
      BY <2>5, Zenon DEF Repoll, RepollDelay
    <3> QED
      BY <1>4, <2>5, <3>1, LoopKeeps DEF Repoll, controlVars, TakeSyncNow
  <2> QED
    BY <1>4, <2>1, <2>2, <2>3, <2>4, <2>5 DEF LoopStep
<1>5. CASE CycleStep
  <2> USE <1>5, LoopKeeps DEF TakeSyncNow, Repoll, controlVars
  <2>1. CASE Begin \/ ScanFails \/ Walked \/ SelectionCut
    BY <2>1 DEF Begin, ScanFails, Walked, SelectionCut
  <2>2. CASE NothingToDownload
    BY <2>2 DEF NothingToDownload, WholeOutcome
  <2>3. CASE BatchBegins
    BY <2>3 DEF BatchBegins, cycleVars
  <2>4. CASE BatchStops
    BY <2>4 DEF BatchStops
  <2>5. CASE BatchEnds
    BY <2>5 DEF BatchEnds, BatchOutcomes, WholeOutcome
  <2>6. CASE RecordCycle
    BY <2>6 DEF RecordCycle, RecordedPhase, cycleVars, TypeOK, Outcomes
  <2> QED
    BY <2>1, <2>2, <2>3, <2>4, <2>5, <2>6 DEF CycleStep
<1> QED
  BY <1>1, <1>2, <1>3, <1>4, <1>5 DEF Next

LEMMA WaitsAndShows == Safe => [](WaitInv /\ ShownInv)
<1> DEFINE Inv == WaitInv /\ ShownInv
<1>1. Init => Inv
  BY DEF Init, WaitInv, ShownInv, StalePhase, Settling
<1>2. TypeOK /\ Inv /\ [Next]_vars => Inv'
  <2> SUFFICES ASSUME TypeOK, Inv, [Next]_vars PROVE Inv'
    OBVIOUS
  <2>1. CASE Next
    BY <2>1, WaitStep, ShownStep
  <2>2. CASE UNCHANGED vars
    BY <2>2, Zenon DEF vars, WaitInv, ShownInv, StalePhase, Settling, Wakeup, PauseWakeup
  <2> QED
    BY <2>1, <2>2
<1> QED
  BY <1>1, <1>2, TypeCorrect, PTL DEF Safe

\* The loop never waits for something that nothing will bring: NotStranded
\* (syncer.go:112-115, 448-480).
THEOREM NeverStranded == Safe => []NotStranded
<1>1. WaitInv => NotStranded
  BY DEF WaitInv, NotStranded
<1> QED
  BY <1>1, WaitsAndShows, PTL

\* While the loop waits, the phase it published is true of the job or about
\* to be replaced: PhaseHonest (syncer.go:411-425, 464-479).
THEOREM PhaseStaysHonest == Safe => []PhaseHonest
<1>1. ShownInv => PhaseHonest
  BY DEF ShownInv, StalePhase, Settling, PhaseHonest
<1> QED
  BY <1>1, WaitsAndShows, PTL

-----------------------------------------------------------------------------
(***************************************************************************)
(* Success.  A success without a whole scan is the shutdown's doing.       *)
(***************************************************************************)
PartialInv ==
  /\ PartialIsNoSuccess
  /\ loop \in {"scan", "pick", "download", "record"} /\ missed = "unvisited" => cancelled

LEMMA PartialStep ==
  ASSUME TypeOK, PartialInv, Next
  PROVE  PartialInv'
<1> USE DEF PartialInv, PartialIsNoSuccess
<1>1. ASSUME NEW c \in Callers, Control(c) PROVE PartialInv'
  <2>1. ControlEffect
    BY <1>1, ControlKeeps
  <2> QED
    BY <2>1 DEF ControlEffect, loopVars
<1>2. CASE Start \/ TakeCancel \/ LoopStep
  <2>1. loop' \notin {"scan", "pick", "download", "record"}
    BY <1>2 DEF Start, TakeCancel, LoopStep, TakeTimer, TakeSyncNow, TakePause, Gate,
                GateNext, MarkPaused, Recheck, RecheckNext, Repoll
  <2> QED
    BY <2>1
<1>3. CASE CycleStep
  <2>1. CASE Begin \/ ScanFails \/ Walked
    BY <2>1 DEF Begin, ScanFails, Walked, controlVars
  <2>2. CASE SelectionCut
    BY <2>2 DEF SelectionCut, controlVars
  <2>3. CASE NothingToDownload
    <3>1. WholeOutcome(missed, cancelled) = "nil" /\ missed = "unreadable" => cancelled
      BY Zenon DEF WholeOutcome
    <3> QED
      BY <2>3, <3>1 DEF NothingToDownload, controlVars, TypeOK
  <2>4. CASE BatchBegins \/ BatchStops
    BY <2>4 DEF BatchBegins, BatchStops, controlVars, cycleVars
  <2>5. CASE BatchEnds
    <3>1. WholeOutcome(missed, cancelled) = "nil" /\ missed = "unreadable" => cancelled
      BY Zenon DEF WholeOutcome
    <3>2. outcome' = "nil" => WholeOutcome(missed, cancelled) = "nil"
      <4>1. CASE stopped
        BY <2>5, <4>1 DEF BatchEnds, BatchOutcomes
      <4>2. CASE ~stopped
        BY <2>5, <4>2 DEF BatchEnds, BatchOutcomes
      <4> QED
        BY <4>1, <4>2
    <3> QED
      BY <2>5, <3>1, <3>2 DEF BatchEnds, controlVars, TypeOK
  <2>6. CASE RecordCycle
    BY <2>6 DEF RecordCycle
  <2> QED
    BY <1>3, <2>1, <2>2, <2>3, <2>4, <2>5, <2>6 DEF CycleStep
<1> QED
  BY <1>1, <1>2, <1>3 DEF Next

\* Only a shutdown lets a scan that did not see the whole server pass for a
\* success (syncer.go:515-519, 554-558, 566-572).
THEOREM PartialNeverSucceeds == Safe => []PartialIsNoSuccess
<1>1. Init => PartialInv
  BY DEF Init, PartialInv, PartialIsNoSuccess
<1>2. TypeOK /\ PartialInv /\ [Next]_vars => PartialInv'
  <2> SUFFICES ASSUME TypeOK, PartialInv, [Next]_vars PROVE PartialInv'
    OBVIOUS
  <2>1. CASE Next
    BY <2>1, PartialStep
  <2>2. CASE UNCHANGED vars
    BY <2>2 DEF vars, PartialInv, PartialIsNoSuccess
  <2> QED
    BY <2>1, <2>2
<1>3. PartialInv => PartialIsNoSuccess
  BY DEF PartialInv
<1> QED
  BY <1>1, <1>2, <1>3, TypeCorrect, PTL DEF Safe

-----------------------------------------------------------------------------
(***************************************************************************)
(* Implementation.                                                         *)
(***************************************************************************)

\* Every step of the loop and of its controls is a step JobControl allows:
\* scans are admitted only while the job is not paused, one at a time, and a
\* loop that ended has been cancelled (syncer.go:116-209, 427-481).
THEOREM Implementation == Safe => JC!Safe
<1>1. Init => JC!Init
  BY DEF Init, JC!Init, InCycle
<1>2. TypeOK /\ [Next]_vars => [JC!Next]_JC!vars
  <2> SUFFICES ASSUME TypeOK, [Next]_vars PROVE [JC!Next]_JC!vars
    OBVIOUS
  <2> USE DEF JC!Next, JC!vars, InCycle
  <2>1. ASSUME NEW c \in Callers, Control(c) PROVE [JC!Next]_JC!vars
    <3>1. CASE Pause(c)
      BY <3>1 DEF Pause, loopVars, JC!Pause
    <3>2. CASE Resume(c)
      BY <3>2 DEF Resume, loopVars, JC!Resume
    <3>3. CASE SyncNow(c)
      BY <3>3 DEF SyncNow, loopVars, controlVars, JC!Request
    <3>4. CASE Stop(c)
      BY <3>4 DEF Stop, loopVars, JC!Cancel
    <3>5. CASE SendPause(c) \/ SendSync(c) \/ StopReturns(c)
      BY <3>5 DEF SendPause, SendSync, StopReturns, loopVars
    <3> QED
      BY <2>1, <3>1, <3>2, <3>3, <3>4, <3>5 DEF Control
  <2>2. CASE Start
    BY <2>2 DEF Start, JC!Request
  <2>3. CASE TakeCancel
    BY <2>3 DEF TakeCancel, CancelReady, controlVars, JC!End
  <2>4. CASE LoopStep
    <3>1. CASE Gate
      <4>1. CASE paused
        BY <3>1, <4>1 DEF Gate, GateNext, controlVars
      <4>2. CASE ~paused
        BY <3>1, <4>2 DEF Gate, GateNext, controlVars, JC!Admit
      <4> QED
        BY <4>1, <4>2
    <3>2. CASE TakeTimer \/ TakeSyncNow \/ TakePause
      BY <3>2 DEF TakeTimer, TakeSyncNow, TakePause, controlVars
    <3>3. CASE MarkPaused \/ Recheck \/ Repoll
      BY <3>3 DEF MarkPaused, Recheck, RecheckNext, Repoll, controlVars
    <3> QED
      BY <2>4, <3>1, <3>2, <3>3 DEF LoopStep
  <2>5. CASE CycleStep
    <3>1. CASE Begin
      BY <3>1 DEF Begin, controlVars, JC!Begin
    <3>2. CASE ScanFails \/ Walked \/ SelectionCut \/ NothingToDownload
      BY <3>2 DEF ScanFails, Walked, SelectionCut, NothingToDownload, controlVars
    <3>3. CASE BatchBegins \/ BatchStops \/ BatchEnds
      BY <3>3 DEF BatchBegins, BatchStops, BatchEnds, controlVars
    <3>4. CASE RecordCycle
      BY <3>4 DEF RecordCycle, controlVars, JC!Finish
    <3> QED
      BY <2>5, <3>1, <3>2, <3>3, <3>4 DEF CycleStep
  <2>6. CASE UNCHANGED vars
    BY <2>6 DEF vars
  <2> QED
    BY <2>1, <2>2, <2>3, <2>4, <2>5, <2>6 DEF Next
<1> QED
  BY <1>1, <1>2, TypeCorrect, PTL DEF Safe, JC!Safe

\* Every step of the loop is a step Cycle allows, for cycle after cycle: the
\* result of a cycle that a pause or a shutdown cut short is no success, and
\* a pause only if the job is not being stopped (syncer.go:411-425, 482-572).
THEOREM CyclesImplemented == Safe => Cy!Safe
<1>1. Init => Cy!Init
  BY DEF Init, Cy!Init, InCycle
<1>2. TypeOK /\ ShownInv /\ [Next]_vars => [Cy!Next]_Cy!vars
  <2> SUFFICES ASSUME TypeOK, ShownInv, [Next]_vars PROVE [Cy!Next]_Cy!vars
    OBVIOUS
  <2> USE DEF Cy!Next, Cy!vars, InCycle
  <2>0. paused \in BOOLEAN /\ stopped \in BOOLEAN /\ outcome \in {"nil", "paused", "error"}
        /\ (loop \in {"scan", "pick"} => ~stopped)
    BY DEF TypeOK, ShownInv, Outcomes
  <2>1. ASSUME NEW c \in Callers, Control(c) PROVE [Cy!Next]_Cy!vars
    <3>1. CASE Pause(c) \/ Resume(c)
      <4>1. paused' = ~paused
        BY <2>0, <3>1 DEF Pause, Resume
      <4>2. UNCHANGED <<cancelled, loop, stopped, outcome>>
        BY <3>1 DEF Pause, Resume, loopVars
      <4> QED
        BY <4>1, <4>2 DEF Cy!Toggle
    <3>2. CASE Stop(c)
      BY <3>2 DEF Stop, loopVars, Cy!Cancel
    <3>3. CASE SendPause(c) \/ SendSync(c) \/ SyncNow(c) \/ StopReturns(c)
      BY <3>3 DEF SendPause, SendSync, SyncNow, StopReturns, loopVars, controlVars
    <3> QED
      BY <2>1, <3>1, <3>2, <3>3 DEF Control
  <2>2. CASE Start
    BY <2>2 DEF Start, cycleVars
  <2>3. CASE TakeCancel
    BY <2>3 DEF TakeCancel, CancelReady, controlVars, cycleVars
  <2>4. CASE LoopStep
    <3>1. CASE Gate
      BY <3>1 DEF Gate, GateNext, controlVars, cycleVars
    <3>2. CASE TakeTimer \/ TakeSyncNow \/ TakePause
      BY <3>2 DEF TakeTimer, TakeSyncNow, TakePause, controlVars, cycleVars
    <3>3. CASE MarkPaused \/ Recheck \/ Repoll
      BY <3>3 DEF MarkPaused, Recheck, RecheckNext, Repoll, controlVars, cycleVars
    <3> QED
      BY <2>4, <3>1, <3>2, <3>3 DEF LoopStep
  <2>5. CASE CycleStep
    <3>1. CASE Begin
      BY <3>1 DEF Begin, controlVars, Cy!Begin
    <3>2. CASE ScanFails
      BY <2>0, <3>2 DEF ScanFails, controlVars, Cy!Return, Cy!Results
    <3>3. CASE Walked \/ SelectionCut \/ BatchBegins
      BY <3>3 DEF Walked, SelectionCut, BatchBegins, controlVars, cycleVars
    <3>4. CASE NothingToDownload
      <4>1. outcome' \in {"nil", "error"}
        BY <3>4 DEF NothingToDownload, WholeOutcome
      <4>2. /\ loop = "pick" /\ loop' = "record" /\ ~stopped
            /\ UNCHANGED <<paused, cancelled, stopped>>
        BY <2>0, <3>4 DEF NothingToDownload, controlVars
      <4> QED
        BY <4>1, <4>2 DEF Cy!Return, Cy!Results
    <3>5. CASE BatchStops
      BY <3>5 DEF BatchStops, Cy!Cut, controlVars
    <3>6. CASE BatchEnds
      <4>1. loop = "download" /\ loop' = "record" /\ UNCHANGED <<paused, cancelled, stopped>>
        BY <3>6 DEF BatchEnds, controlVars
      <4>2. CASE stopped
        <5>1. outcome' = "error" \/ (outcome' = "paused" /\ ~cancelled)
          BY <3>6, <4>2 DEF BatchEnds, BatchOutcomes
        <5> QED
          BY <4>1, <4>2, <5>1 DEF Cy!Return, Cy!Results
      <4>3. CASE ~stopped
        <5>1. outcome' \in {"nil", "error"}
          BY <3>6, <4>3 DEF BatchEnds, BatchOutcomes, WholeOutcome
        <5> QED
          BY <4>1, <4>3, <5>1 DEF Cy!Return, Cy!Results
      <4> QED
        BY <4>2, <4>3
    <3>7. CASE RecordCycle
      BY <2>0, <3>7 DEF RecordCycle, controlVars, cycleVars, Cy!Finish
    <3> QED
      BY <2>5, <3>1, <3>2, <3>3, <3>4, <3>5, <3>6, <3>7 DEF CycleStep
  <2>6. CASE UNCHANGED vars
    BY <2>6 DEF vars
  <2> QED
    BY <2>1, <2>2, <2>3, <2>4, <2>5, <2>6 DEF Next
<1> QED
  BY <1>1, <1>2, TypeCorrect, WaitsAndShows, PTL DEF Safe, Cy!Safe
=============================================================================
