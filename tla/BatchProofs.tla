---------------------------- MODULE BatchProofs ----------------------------
(***************************************************************************)
(* Safety of Batch for any number of files, workers and attempts, any      *)
(* sizes, and any mix of failures, pauses and shutdowns.                   *)
(***************************************************************************)
EXTENDS Batch, ConfigProofs, FiniteSetTheorems, TLAPS

-----------------------------------------------------------------------------
(***************************************************************************)
(* What every step keeps to.                                               *)
(***************************************************************************)

\* TypeOK without the two parts that need counting, slots and count.
Shape ==
  /\ settings \in Settings
  /\ sub \in {"check", "acquire", "wait", "apply", "return", "done"}
  /\ attempted \in 0 .. N
  /\ worker \in [Files -> WorkerPCs]
  /\ attempt \in [Files -> 1 .. MaxAttempts]
  /\ copied \in [Files -> Nat]
  /\ reported \in [Files -> Nat]
  /\ bytes \in Nat
  /\ current \in 0 .. N
  /\ staged \in SUBSET Files
  /\ placed \in SUBSET Files
  /\ outcome \in [Files -> {"none", "ok", "skip", "fail", "refused"}]
  /\ recorded \in SUBSET Files
  /\ ret \in {"none", "nil", "failed", "interrupted", "paused"}
  /\ paused \in BOOLEAN
  /\ cancelled \in BOOLEAN
  /\ lateStarts \in Nat
  /\ lateTries \in [Files -> Nat]

\* No file has reported more than it copied.
Reported == \A f \in Files : reported[f] <= copied[f]

\* Files are numbers, and zero stands for no file.
LEMMA FileNumbers == Files \subseteq 0 .. N /\ N \in Nat /\ 0 \in 0 .. N
BY BatchAssumption DEF Files

\* The clamped subtraction never goes below zero (syncer.go:342-354).
LEMMA LessIsNatural == ASSUME NEW a \in Nat, NEW b \in Nat PROVE Less(a, b) \in Nat
BY DEF Less

\* The ways a goroutine's step changes where the file is, and only those: it
\* moves on, or it ends with an outcome that is counted.
Moves(f) ==
  /\ \E pc \in WorkerPCs \ {"none", "done"} : worker' = [worker EXCEPT ![f] = pc]
  /\ UNCHANGED <<slots, outcome, count>>

Ends(f, out) ==
  /\ worker' = [worker EXCEPT ![f] = "done"]
  /\ outcome' = [outcome EXCEPT ![f] = out]
  /\ slots' = slots - 1
  /\ count' = CASE out = "ok"   -> recordFile(count, "completed")
                [] out = "skip" -> recordSkipped(count)
                [] OTHER        -> recordFile(count, "failed")

\* Every step of a goroutine is one of the two, and leaves the submitting
\* goroutine and the controls alone.
LEMMA WorkShape ==
  ASSUME Shape, NEW f \in Files, Work(f)
  PROVE  /\ worker[f] \notin {"none", "done"}
         /\ Moves(f) \/ \E out \in {"ok", "skip", "fail", "refused"} : Ends(f, out)
         /\ UNCHANGED <<batchVars, control, lateStarts>>
<1> USE DEF Shape, WorkerPCs, workFrame
<1>1. CASE SetCurrent(f)
  BY <1>1 DEF SetCurrent, MoveTo, Moves
<1>2. CASE SettleEarly(f)
  BY <1>2 DEF SettleEarly, recordSkipOrFailure, Settled, Exit, ReleaseSlot, Ends
<1>3. CASE FirstTry(f)
  BY <1>3 DEF FirstTry, MoveTo, Moves
<1>4. CASE Copy(f)
  <2>1. worker = [worker EXCEPT ![f] = "transfer"]
    BY <1>4 DEF Copy
  <2> QED
    BY <1>4, <2>1 DEF Copy, Moves
<1>5. CASE FetchOk(f)
  BY <1>5 DEF FetchOk, MoveTo, Moves
<1>6. CASE FetchFailsForGood(f)
  BY <1>6 DEF FetchFailsForGood, Exit, ReleaseSlot, Ends
<1>7. CASE FetchFailsForNow(f)
  BY <1>7 DEF FetchFailsForNow, MoveTo, Moves, Exit, ReleaseSlot, Ends
<1>8. CASE BackoffBegins(f)
  BY <1>8 DEF BackoffBegins, MoveTo, Moves
<1>9. CASE BackoffCut(f)
  BY <1>9 DEF BackoffCut, Exit, ReleaseSlot, Ends
<1>10. CASE Retry(f)
  BY <1>10 DEF Retry, MoveTo, Moves
<1>11. CASE SettleLate(f)
  BY <1>11 DEF SettleLate, recordSkipOrFailure, Settled, Exit, ReleaseSlot, Ends
<1>12. CASE PlaceFails(f)
  BY <1>12 DEF PlaceFails, Exit, ReleaseSlot, Ends
<1>13. CASE Place(f)
  BY <1>13 DEF Place, Exit, ReleaseSlot, Ends
<1> QED
  BY <1>1, <1>2, <1>3, <1>4, <1>5, <1>6, <1>7, <1>8, <1>9, <1>10, <1>11, <1>12, <1>13
     DEF Work, Transfer

\* Nothing changes the settings (config.go:70-98).
LEMMA SettingsStay ==
  ASSUME [Next]_vars
  PROVE  settings' = settings /\ Workers' = Workers /\ MaxAttempts' = MaxAttempts
<1> SUFFICES settings' = settings
  BY DEF Workers, MaxAttempts
<1>1. CASE Control
  BY <1>1 DEF Control, Pause, Resume, Cancel, controlFrame
<1>2. CASE Submit
  BY <1>2 DEF Submit, Check, Acquire, Wait, Apply, Return, submitFrame
<1>3. ASSUME NEW f \in Files, Work(f) PROVE settings' = settings
  BY <1>3 DEF Work, Transfer, SetCurrent, SettleEarly, FirstTry, Copy, FetchOk,
              FetchFailsForGood, FetchFailsForNow, BackoffBegins, BackoffCut, Retry,
              SettleLate, PlaceFails, Place, workFrame
<1>4. CASE UNCHANGED vars
  BY <1>4 DEF vars
<1> QED
  BY <1>1, <1>2, <1>3, <1>4 DEF Next

\* A batch runs with settings that Load accepted (config.go:70-158).
LEMMA SettingsAccepted == Init => settings \in Settings
BY BatchAssumption, AcceptedIsSound DEF Init

\* The settings of a job bound its workers and its attempts.
LEMMA SettingsBound ==
  ASSUME settings \in Settings
  PROVE  Workers \in Nat \ {0} /\ MaxAttempts \in Nat \ {0}
BY DEF Settings, Workers, MaxAttempts

\* Every variable but the two counted ones keeps to its type, and reports stay
\* behind what was copied (syncer.go:269-336, 605-747; retry.go:144-208).
THEOREM Shapes == Safe => [](Shape /\ Reported)
<1> USE BatchAssumption, FileNumbers
<1>1. Init => Shape /\ Reported
  <2>1. ASSUME Init PROVE settings \in Settings
    BY <2>1, SettingsAccepted
  <2>2. ASSUME Init PROVE Shape
    <3>1. settings \in Settings /\ 1 \in 1 .. MaxAttempts
      BY <2>1, <2>2, SettingsBound
    <3> QED
      BY <2>2, <3>1 DEF Init, Shape, WorkerPCs
  <2>3. ASSUME Init PROVE Reported
    BY <2>3 DEF Init, Reported
  <2> QED
    BY <2>2, <2>3
<1>2. Shape /\ Reported /\ [Next]_vars => Shape' /\ Reported'
  <2> SUFFICES ASSUME Shape, Reported, [Next]_vars PROVE Shape' /\ Reported'
    OBVIOUS
  <2>0. settings' = settings /\ MaxAttempts' = MaxAttempts /\ MaxAttempts \in Nat \ {0}
    BY SettingsStay, SettingsBound DEF Shape
  <2> USE <2>0
  <2> USE DEF Shape, Reported, WorkerPCs
  <2>1. CASE Control
    <3> USE DEF controlFrame, batchVars, progress, result
    <3>1. CASE Pause
      BY <3>1 DEF Pause
    <3>2. CASE Resume
      BY <3>2 DEF Resume
    <3>3. CASE Cancel
      BY <3>3 DEF Cancel
    <3> QED
      BY <2>1, <3>1, <3>2, <3>3 DEF Control
  <2>2. CASE Submit
    <3> USE DEF submitFrame, progress, control
    <3>1. CASE Check
      BY <3>1 DEF Check
    <3>2. CASE Acquire
      <4>1. worker' \in [Files -> WorkerPCs]
        BY <3>2 DEF Acquire
      <4>2. lateStarts' = lateStarts + 1 \/ lateStarts' = 0
        BY <3>2, Zenon DEF Acquire
      <4> QED
        BY <3>2, <4>1, <4>2 DEF Acquire
    <3>3. CASE Wait
      BY <3>3 DEF Wait
    <3>4. CASE Apply
      BY <3>4 DEF Apply, applyDownloadOutcomes
    <3>5. CASE Return
      BY <3>5 DEF Return, incompleteBatchError
    <3> QED
      BY <2>2, <3>1, <3>2, <3>3, <3>4, <3>5 DEF Submit
  <2>3. ASSUME NEW f \in Files, Work(f) PROVE Shape' /\ Reported'
    <3> USE DEF workFrame, batchVars, control, progress
    <3>0. f \in 0 .. N
      OBVIOUS
    <3>1. CASE SetCurrent(f)
      BY <3>0, <3>1 DEF SetCurrent, MoveTo
    <3>2. CASE SettleEarly(f)
      BY <3>2 DEF SettleEarly, recordSkipOrFailure, Settled, Exit, clearCurrent
    <3>3. CASE FirstTry(f)
      BY <3>3 DEF FirstTry, MoveTo, CountTry
    <3>4. CASE Copy(f)
      BY <3>0, <3>4 DEF Copy
    <3>5. CASE FetchOk(f)
      BY <3>0, <3>5 DEF FetchOk, MoveTo, Flushed, Reporting
    <3>6. CASE FetchFailsForGood(f)
      <4>1. bytes + (copied[f] - reported[f]) \in Nat
        OBVIOUS
      <4>2. bytes' \in Nat
        BY <3>6, <4>1, LessIsNatural DEF FetchFailsForGood, Exit, WithoutFailed
      <4> QED
        BY <3>0, <3>6, <4>2 DEF FetchFailsForGood, Exit, clearCurrent, Reporting
    <3>7. CASE FetchFailsForNow(f)
      <4>1. bytes + (copied[f] - reported[f]) \in Nat
        OBVIOUS
      <4>2. Less(bytes + (copied[f] - reported[f]), copied[f]) \in Nat
        BY <4>1, LessIsNatural
      <4>3. bytes' \in Nat
        BY <3>7, <4>2 DEF FetchFailsForNow, Exit, discardAttempt
      <4>4. attempt' \in [Files -> 1 .. MaxAttempts]
        <5>1. CASE MayRetry(attempt[f]) /\ attempt' = [attempt EXCEPT ![f] = @ + 1]
          BY <5>1 DEF MayRetry
        <5>2. CASE UNCHANGED attempt
          BY <5>2
        <5> QED
          BY <3>7, <5>1, <5>2 DEF FetchFailsForNow
      <4>5. CASE MoveTo(f, "backoff") /\ current' = Reporting(f)
        BY <3>0, <3>7, <4>3, <4>4, <4>5 DEF FetchFailsForNow, MoveTo, Reporting
      <4>6. CASE Exit(f, "fail", recordFile(count, "failed"), bytes', Reporting(f))
        BY <3>0, <3>7, <4>3, <4>4, <4>6 DEF FetchFailsForNow, Exit, clearCurrent, Reporting
      <4> QED
        BY <3>7, <4>5, <4>6 DEF FetchFailsForNow, Exit
    <3>8. CASE BackoffBegins(f)
      BY <3>8 DEF BackoffBegins, MoveTo
    <3>9. CASE BackoffCut(f)
      <4>1. bytes' \in Nat
        BY <3>9, LessIsNatural DEF BackoffCut, Exit, WithoutFailed
      <4> QED
        BY <3>9, <4>1 DEF BackoffCut, Exit, clearCurrent
    <3>10. CASE Retry(f)
      BY <3>10 DEF Retry, MoveTo, CountTry
    <3>11. CASE SettleLate(f)
      BY <3>11 DEF SettleLate, recordSkipOrFailure, Settled, Exit, clearCurrent, Unstaged
    <3>12. CASE PlaceFails(f)
      <4>1. bytes' \in Nat
        BY <3>12, LessIsNatural DEF PlaceFails, Exit, WithoutFailed
      <4> QED
        BY <3>12, <4>1 DEF PlaceFails, Exit, clearCurrent, Unstaged
    <3>13. CASE Place(f)
      BY <3>13 DEF Place, Exit, clearCurrent
    <3> QED
      BY <2>3, <3>1, <3>2, <3>3, <3>4, <3>5, <3>6, <3>7, <3>8, <3>9, <3>10, <3>11, <3>12, <3>13
         DEF Work, Transfer
  <2>4. CASE UNCHANGED vars
    BY <2>4 DEF vars, batchVars, progress, result, control
  <2> QED
    BY <2>1, <2>2, <2>3, <2>4 DEF Next
<1> QED
  BY <1>1, <1>2, PTL DEF Safe

-----------------------------------------------------------------------------
(***************************************************************************)
(* Which goroutines there are.                                             *)
(***************************************************************************)

\* The files taken on are those up to attempted, save the one that waits for a
\* slot; a goroutine is done exactly when it has sent an outcome; once the
\* submitting goroutine has waited for them, none is running.
Flow ==
  /\ \A f \in Files : worker[f] = "none" <=> f > attempted \/ (f = attempted /\ sub = "acquire")
  /\ sub = "acquire" => attempted \in Files
  /\ \A f \in Files : outcome[f] = "none" <=> worker[f] # "done"
  /\ sub \in {"apply", "return", "done"} => Running = {}

\* The life of the goroutines (syncer.go:613-735).
THEOREM Flows == Safe => []Flow
<1> USE BatchAssumption, FileNumbers
<1>1. Init => Flow
  BY DEF Init, Flow, Running, Files
<1>2. Shape /\ Flow /\ [Next]_vars => Flow'
  <2> SUFFICES ASSUME Shape, Flow, [Next]_vars PROVE Flow'
    OBVIOUS
  <2> USE DEF Shape, Flow, WorkerPCs, Running
  <2>1. CASE Control
    BY <2>1 DEF Control, Pause, Resume, Cancel, controlFrame, batchVars, result
  <2>2. CASE Submit
    <3> USE DEF submitFrame, Files
    <3>1. CASE Check
      <4>0. UNCHANGED <<worker, outcome>> /\ sub = "check"
        BY <3>1 DEF Check
      <4>1. CASE sub' = "wait" /\ attempted' = attempted
        BY <4>0, <4>1
      <4>2. CASE sub' = "acquire" /\ attempted' = attempted + 1 /\ attempted # N
        <5>1. attempted' \in 1 .. N
          BY <4>2
        <5>2. ASSUME NEW f \in Files
              PROVE  worker[f] = "none" <=> f > attempted' \/ f = attempted'
          <6>1. f > attempted <=> f > attempted' \/ f = attempted'
            BY <4>2
          <6> QED
            BY <4>0, <6>1
        <5> QED
          BY <4>0, <4>2, <5>1, <5>2
      <4> QED
        BY <3>1, <4>1, <4>2 DEF Check
    <3>2. CASE Acquire
      <4>1. /\ attempted \in Files
            /\ worker[attempted] = "none"
            /\ outcome[attempted] = "none"
        BY <3>2 DEF Acquire
      <4>2. ASSUME NEW f \in Files
            PROVE  /\ worker'[f] = "none" <=> f > attempted
                   /\ outcome[f] = "none" <=> worker'[f] # "done"
        <5>1. CASE f = attempted
          BY <3>2, <4>1, <5>1 DEF Acquire
        <5>2. CASE f # attempted
          BY <3>2, <4>1, <5>2 DEF Acquire
        <5> QED
          BY <5>1, <5>2
      <4> QED
        BY <3>2, <4>2 DEF Acquire
    <3>3. CASE Wait
      BY <3>3 DEF Wait
    <3>4. CASE Apply
      BY <3>4 DEF Apply
    <3>5. CASE Return
      BY <3>5 DEF Return
    <3> QED
      BY <2>2, <3>1, <3>2, <3>3, <3>4, <3>5 DEF Submit
  <2>3. ASSUME NEW f \in Files, Work(f) PROVE Flow'
    <3>1. /\ worker[f] \notin {"none", "done"}
          /\ UNCHANGED <<sub, attempted>>
      BY <2>3, WorkShape DEF batchVars
    <3>2. CASE Moves(f)
      BY <3>1, <3>2 DEF Moves
    <3>3. ASSUME NEW out \in {"ok", "skip", "fail", "refused"}, Ends(f, out) PROVE Flow'
      BY <3>1, <3>3 DEF Ends
    <3> QED
      BY <2>3, <3>2, <3>3, WorkShape
  <2>4. CASE UNCHANGED vars
    BY <2>4 DEF vars, batchVars, result
  <2> QED
    BY <2>1, <2>2, <2>3, <2>4 DEF Next
<1> QED
  BY <1>1, <1>2, Shapes, PTL DEF Safe

-----------------------------------------------------------------------------
(***************************************************************************)
(* Noticing a pause and a shutdown.                                        *)
(***************************************************************************)

\* A start is late only once it has been made: not while the file still waits
\* for its slot.
LateInv ==
  /\ lateStarts <= 1
  /\ ~paused /\ ~cancelled => lateStarts = 0
  /\ sub = "acquire" => lateStarts = 0

\* After a pause or a shutdown at most one more file is taken on, whatever the
\* number of files and workers (syncer.go:614-622).
LEMMA AtMostOneLateStart == Safe => []OneLateStart
<1>1. Init => LateInv
  BY DEF Init, LateInv
<1>2. Shape /\ LateInv /\ [Next]_vars => LateInv'
  <2> SUFFICES ASSUME Shape, LateInv, [Next]_vars PROVE LateInv'
    OBVIOUS
  <2> USE DEF Shape, LateInv
  <2>1. CASE Pause
    BY <2>1 DEF Pause, controlFrame, batchVars
  <2>2. CASE Resume
    BY <2>2 DEF Resume, controlFrame, batchVars
  <2>3. CASE Cancel
    BY <2>3 DEF Cancel, controlFrame, batchVars
  <2>4. CASE Check
    BY <2>4 DEF Check, shouldStopSubmitting, submitFrame, control
  <2>5. CASE Acquire
    BY <2>5 DEF Acquire, submitFrame, control
  <2>6. CASE Wait \/ Apply \/ Return
    BY <2>6 DEF Wait, Apply, Return, submitFrame, control
  <2>7. ASSUME NEW f \in Files, Work(f) PROVE LateInv'
    BY <2>7, WorkShape DEF batchVars, control
  <2>8. CASE UNCHANGED vars
    BY <2>8 DEF vars, batchVars, control
  <2> QED
    BY <2>1, <2>2, <2>3, <2>4, <2>5, <2>6, <2>7, <2>8 DEF Next, Control, Submit
<1>3. LateInv => OneLateStart
  BY DEF LateInv, OneLateStart
<1> QED
  BY <1>1, <1>2, <1>3, Shapes, PTL DEF Safe

\* A goroutine that may still begin an attempt has begun none since the
\* shutdown; one that has is never again between the look at the context and
\* the timer.
TryInv ==
  \A f \in Files :
    /\ lateTries[f] <= 1
    /\ ~cancelled => lateTries[f] = 0
    /\ worker[f] \in {"none", "start", "begun", "sleep"} => lateTries[f] = 0

\* After a shutdown no file begins more than one attempt (retry.go:116-163).
LEMMA AtMostOneLateTry == Safe => []OneLateTry
<1>1. Init => TryInv
  BY DEF Init, TryInv
<1>2. Shape /\ Flow /\ TryInv /\ [Next]_vars => TryInv'
  <2> SUFFICES ASSUME Shape, Flow, TryInv, [Next]_vars PROVE TryInv'
    OBVIOUS
  <2> USE DEF Shape, TryInv, WorkerPCs
  <2>1. CASE Control
    BY <2>1 DEF Control, Pause, Resume, Cancel, controlFrame
  <2>2. CASE Acquire
    BY <2>2 DEF Acquire, submitFrame, control, Flow
  <2>3. CASE Check \/ Wait \/ Apply \/ Return
    BY <2>3 DEF Check, Wait, Apply, Return, submitFrame, control
  <2>4. ASSUME NEW f \in Files, Work(f) PROVE TryInv'
    <3> USE DEF workFrame, control
    <3>1. CASE FirstTry(f)
      BY <3>1 DEF FirstTry, MoveTo, CountTry
    <3>2. CASE Retry(f)
      BY <3>2 DEF Retry, MoveTo, CountTry
    <3>3. CASE BackoffBegins(f)
      BY <3>3 DEF BackoffBegins, MoveTo, sleepRefused
    <3>4. CASE SetCurrent(f)
      BY <3>4 DEF SetCurrent, MoveTo
    <3>5. CASE Copy(f) \/ FetchOk(f)
      BY <3>5 DEF Copy, FetchOk, MoveTo
    <3>6. CASE FetchFailsForGood(f) \/ FetchFailsForNow(f)
      BY <3>6 DEF FetchFailsForGood, FetchFailsForNow, MoveTo, Exit
    <3>7. CASE SettleEarly(f) \/ SettleLate(f)
      BY <3>7 DEF SettleEarly, SettleLate, recordSkipOrFailure, Exit
    <3>8. CASE BackoffCut(f) \/ PlaceFails(f) \/ Place(f)
      BY <3>8 DEF BackoffCut, PlaceFails, Place, Exit
    <3> QED
      BY <2>4, <3>1, <3>2, <3>3, <3>4, <3>5, <3>6, <3>7, <3>8 DEF Work, Transfer
  <2>5. CASE UNCHANGED vars
    BY <2>5 DEF vars, control
  <2> QED
    BY <2>1, <2>2, <2>3, <2>4, <2>5 DEF Next, Submit
<1>3. TryInv => OneLateTry
  BY DEF TryInv, OneLateTry
<1> QED
  BY <1>1, <1>2, <1>3, Shapes, Flows, PTL DEF Safe

\* A stop lets at most one more file and one more attempt of each file through,
\* for any number of files, workers and attempts (syncer.go:614-622;
\* retry.go:116-163).
THEOREM StopsTakeEffect == Safe => []StopsInTime
<1>1. OneLateStart /\ OneLateTry => StopsInTime
  BY DEF StopsInTime
<1> QED
  BY <1>1, AtMostOneLateStart, AtMostOneLateTry, PTL

-----------------------------------------------------------------------------
(***************************************************************************)
(* What is left behind, what is shown and what is recorded.                *)
(***************************************************************************)

\* A staging file belongs to a transfer or to the placing that follows it.
StagedInv == \A f \in staged : worker[f] \in {"transfer", "place"}

\* No way out of a worker leaves a staging file: whatever fails, what is on
\* disk belongs to a goroutine that still runs (syncer.go:674-713;
\* retry.go:144-208).
THEOREM NothingStagedLeft == Safe => []NoStagingLeft
<1>1. Init => StagedInv
  BY DEF Init, StagedInv
<1>2. Shape /\ Flow /\ StagedInv /\ [Next]_vars => StagedInv'
  <2> SUFFICES ASSUME Shape, Flow, StagedInv, [Next]_vars PROVE StagedInv'
    OBVIOUS
  <2> USE DEF Shape, StagedInv, WorkerPCs
  <2>1. CASE Control
    BY <2>1 DEF Control, Pause, Resume, Cancel, controlFrame
  <2>2. CASE Acquire
    <3>1. attempted \in Files /\ worker[attempted] = "none"
      BY <2>2 DEF Acquire, Flow
    <3>2. attempted \notin staged
      BY <3>1
    <3> QED
      BY <2>2, <3>1, <3>2 DEF Acquire, submitFrame
  <2>3. CASE Check \/ Wait \/ Apply \/ Return
    BY <2>3 DEF Check, Wait, Apply, Return, submitFrame
  <2>4. ASSUME NEW f \in Files, Work(f) PROVE StagedInv'
    <3>1. CASE SetCurrent(f) \/ FirstTry(f) \/ BackoffBegins(f) \/ Retry(f)
      BY <3>1 DEF SetCurrent, FirstTry, BackoffBegins, Retry, MoveTo
    <3>2. CASE Copy(f) \/ FetchOk(f)
      BY <3>2 DEF Copy, FetchOk, MoveTo
    <3>3. CASE FetchFailsForGood(f) \/ FetchFailsForNow(f)
      BY <3>3 DEF FetchFailsForGood, FetchFailsForNow, MoveTo, Exit
    <3>4. CASE SettleEarly(f) \/ BackoffCut(f)
      BY <3>4 DEF SettleEarly, recordSkipOrFailure, BackoffCut, Exit
    <3>5. CASE SettleLate(f) \/ PlaceFails(f) \/ Place(f)
      BY <3>5 DEF SettleLate, recordSkipOrFailure, PlaceFails, Place, Exit, Unstaged
    <3> QED
      BY <2>4, <3>1, <3>2, <3>3, <3>4, <3>5 DEF Work, Transfer
  <2>5. CASE UNCHANGED vars
    BY <2>5 DEF vars
  <2> QED
    BY <2>1, <2>2, <2>3, <2>4, <2>5 DEF Next, Submit
<1>3. Shape /\ StagedInv => NoStagingLeft
  BY DEF Shape, StagedInv, NoStagingLeft, Running
<1> QED
  BY <1>1, <1>2, <1>3, Shapes, Flows, PTL DEF Safe

\* The current file is one being worked on, whichever of the goroutines spoke
\* to the status last (syncer.go:332-336, 378-386).
LEMMA CurrentRuns == Safe => []CurrentIsRunning
<1> USE BatchAssumption, FileNumbers
<1>1. Init => CurrentIsRunning
  BY DEF Init, CurrentIsRunning
<1>2. Shape /\ Flow /\ CurrentIsRunning /\ [Next]_vars => CurrentIsRunning'
  <2> SUFFICES ASSUME Shape, Flow, CurrentIsRunning, [Next]_vars PROVE CurrentIsRunning'
    OBVIOUS
  <2> USE DEF Shape, CurrentIsRunning, WorkerPCs, Running
  <2>1. CASE Control
    BY <2>1 DEF Control, Pause, Resume, Cancel, controlFrame
  <2>2. CASE Acquire
    BY <2>2 DEF Acquire, submitFrame, Flow
  <2>3. CASE Check \/ Wait \/ Apply \/ Return
    BY <2>3 DEF Check, Wait, Apply, Return, submitFrame
  <2>4. ASSUME NEW f \in Files, Work(f) PROVE CurrentIsRunning'
    <3>1. worker[f] \notin {"none", "done"}
      BY <2>4, WorkShape
    <3>2. CASE SetCurrent(f) \/ FirstTry(f) \/ BackoffBegins(f) \/ Retry(f)
      BY <3>1, <3>2 DEF SetCurrent, FirstTry, BackoffBegins, Retry, MoveTo
    <3>3. CASE Copy(f) \/ FetchOk(f)
      BY <3>1, <3>3 DEF Copy, FetchOk, MoveTo, Reporting
    <3>4. CASE FetchFailsForGood(f)
      BY <3>1, <3>4 DEF FetchFailsForGood, Exit, Reporting, clearCurrent
    <3>5. CASE FetchFailsForNow(f)
      BY <3>1, <3>5 DEF FetchFailsForNow, MoveTo, Exit, Reporting, clearCurrent
    <3>6. CASE SettleEarly(f) \/ BackoffCut(f)
      BY <3>1, <3>6 DEF SettleEarly, recordSkipOrFailure, BackoffCut, Exit, clearCurrent
    <3>7. CASE SettleLate(f) \/ PlaceFails(f) \/ Place(f)
      BY <3>1, <3>7 DEF SettleLate, recordSkipOrFailure, PlaceFails, Place, Exit, clearCurrent
    <3> QED
      BY <2>4, <3>2, <3>3, <3>4, <3>5, <3>6, <3>7 DEF Work, Transfer
  <2>5. CASE UNCHANGED vars
    BY <2>5 DEF vars
  <2> QED
    BY <2>1, <2>2, <2>3, <2>4, <2>5 DEF Next, Submit
<1> QED
  BY <1>1, <1>2, Shapes, Flows, PTL DEF Safe

\* A file is at its destination exactly when its goroutine has reported so,
\* and nothing enters the manifest before every goroutine is done.
PlacedInv ==
  /\ \A f \in Files : outcome[f] = "ok" <=> f \in placed
  /\ recorded = IF sub \in {"return", "done"} THEN placed ELSE {}

\* What is placed follows the outcomes (syncer.go:705-739).
LEMMA PlacedFollows == Safe => []PlacedInv
<1>1. Init => PlacedInv
  BY DEF Init, PlacedInv
<1>2. Shape /\ Flow /\ PlacedInv /\ [Next]_vars => PlacedInv'
  <2> SUFFICES ASSUME Shape, Flow, PlacedInv, [Next]_vars PROVE PlacedInv'
    OBVIOUS
  <2> USE DEF Shape, PlacedInv
  <2>1. CASE Control
    BY <2>1 DEF Control, Pause, Resume, Cancel, controlFrame, batchVars, result
  <2>2. CASE Check \/ Acquire \/ Wait \/ Return
    BY <2>2 DEF Check, Acquire, Wait, Return, submitFrame
  <2>3. CASE Apply
    <3>1. {f \in Files : outcome[f] = "ok"} = placed
      OBVIOUS
    <3> QED
      BY <2>3, <3>1 DEF Apply, applyDownloadOutcomes, submitFrame
  <2>4. ASSUME NEW f \in Files, Work(f) PROVE PlacedInv'
    <3>1. /\ worker[f] \notin {"none", "done"}
          /\ UNCHANGED <<sub, recorded>>
      BY <2>4, WorkShape DEF batchVars
    <3>2. outcome[f] = "none" /\ f \notin placed
      BY <3>1 DEF Flow
    <3>3. sub \notin {"return", "done"}
      BY <3>1 DEF Flow, Running
    <3>4. CASE Place(f)
      BY <3>1, <3>2, <3>3, <3>4 DEF Place, Exit
    <3>5. CASE SettleEarly(f) \/ SettleLate(f)
      BY <3>1, <3>2, <3>3, <3>5
         DEF SettleEarly, SettleLate, recordSkipOrFailure, Exit, Settled
    <3>6. CASE FetchFailsForGood(f) \/ FetchFailsForNow(f) \/ BackoffCut(f) \/ PlaceFails(f)
      BY <3>1, <3>2, <3>3, <3>6
         DEF FetchFailsForGood, FetchFailsForNow, BackoffCut, PlaceFails, MoveTo, Exit
    <3>7. CASE SetCurrent(f) \/ FirstTry(f) \/ BackoffBegins(f) \/ Retry(f) \/ Copy(f) \/ FetchOk(f)
      BY <3>1, <3>3, <3>7 DEF SetCurrent, FirstTry, BackoffBegins, Retry, Copy, FetchOk, MoveTo
    <3> QED
      BY <2>4, <3>4, <3>5, <3>6, <3>7 DEF Work, Transfer
  <2>5. CASE UNCHANGED vars
    BY <2>5 DEF vars, batchVars, result
  <2> QED
    BY <2>1, <2>2, <2>3, <2>4, <2>5 DEF Next, Submit
<1> QED
  BY <1>1, <1>2, Shapes, Flows, PTL DEF Safe

\* The manifest takes up exactly the files that reached their destination,
\* and takes them up whatever else failed (syncer.go:705-739, 753-771).
THEOREM RecordedPlaced == Safe => []RecordedArePlaced
<1>1. PlacedInv => RecordedArePlaced
  BY DEF PlacedInv, RecordedArePlaced
<1> QED
  BY <1>1, PlacedFollows, PTL

\* downloadAll has no result before it returns.
ReturnInv == (sub # "done" => ret = "none") /\ ReturnHonest

LEMMA ReturnFollows == Safe => []ReturnInv
<1> USE BatchAssumption, FileNumbers
<1>1. Init => ReturnInv
  BY DEF Init, ReturnInv, ReturnHonest
<1>2. Shape /\ Flow /\ ReturnInv /\ [Next]_vars => ReturnInv'
  <2> SUFFICES ASSUME Shape, Flow, ReturnInv, [Next]_vars PROVE ReturnInv'
    OBVIOUS
  <2> USE DEF Shape, ReturnInv, ReturnHonest, Failed, With
  <2>1. CASE Control
    BY <2>1 DEF Control, Pause, Resume, Cancel, controlFrame, batchVars, result
  <2>2. CASE Check \/ Acquire \/ Wait \/ Apply
    BY <2>2 DEF Check, Acquire, Wait, Apply, submitFrame, control
  <2>3. CASE Return
    <3>0. sub' = "done" /\ UNCHANGED <<outcome, cancelled>>
      BY <2>3 DEF Return, submitFrame, control
    <3>1. \A f \in Files : outcome[f] = "none" <=> f > attempted
      BY <2>3 DEF Return, Flow, Running
    <3>2. CASE Failed # {}
      BY <2>3, <3>0, <3>2 DEF Return
    <3>3. CASE Failed = {} /\ attempted >= N
      <4>1. ASSUME NEW f \in Files PROVE outcome[f] \in {"ok", "skip"}
        <5>1. ~(f > attempted)
          BY <3>3 DEF Files
        <5>2. outcome[f] \notin {"none", "fail", "refused"}
          BY <3>1, <3>3, <5>1
        <5> QED
          BY <5>2
      <4> QED
        BY <2>3, <3>0, <3>3, <4>1 DEF Return, incompleteBatchError
    <3>4. CASE Failed = {} /\ ~(attempted >= N)
      <4>1. N \in Files /\ N > attempted
        BY <3>4 DEF Files
      <4>2. With("none") # {}
        BY <3>1, <4>1
      <4>3. ret' = IF cancelled THEN "interrupted" ELSE "paused"
        BY <2>3, <3>4 DEF Return, incompleteBatchError
      <4> QED
        BY <3>0, <3>4, <4>2, <4>3
    <3> QED
      BY <3>2, <3>3, <3>4
  <2>4. ASSUME NEW f \in Files, Work(f) PROVE ReturnInv'
    <3>1. sub # "done" /\ UNCHANGED <<sub, ret>>
      BY <2>4, WorkShape DEF batchVars, Flow, Running
    <3> QED
      BY <3>1
  <2>5. CASE UNCHANGED vars
    BY <2>5 DEF vars, batchVars, result, control
  <2> QED
    BY <2>1, <2>2, <2>3, <2>4, <2>5 DEF Next, Submit
<1> QED
  BY <1>1, <1>2, Shapes, Flows, PTL DEF Safe

\* downloadAll reports success, a failure, a pause or an interruption only when
\* it is true of the files (syncer.go:743-746, 811-846).
THEOREM ReturnsHonest == Safe => []ReturnHonest
<1>1. ReturnInv => ReturnHonest
  BY DEF ReturnInv
<1> QED
  BY <1>1, ReturnFollows, PTL

-----------------------------------------------------------------------------
(***************************************************************************)
(* Counting: the counters, the slots, and with them TypeOK.                *)
(***************************************************************************)

\* The files, and every set of them, can be counted.
LEMMA Finite ==
  /\ IsFiniteSet(Files)
  /\ Cardinality(Files) = N
  /\ \A S \in SUBSET Files : IsFiniteSet(S) /\ Cardinality(S) \in 0 .. N
<1>1. IsFiniteSet(Files) /\ Cardinality(Files) = N
  BY FS_Interval, BatchAssumption DEF Files
<1>2. ASSUME NEW S \in SUBSET Files
      PROVE  IsFiniteSet(S) /\ Cardinality(S) \in 0 .. N
  <2>1. IsFiniteSet(S) /\ Cardinality(S) <= N
    BY <1>1, FS_Subset
  <2>2. Cardinality(S) \in Nat
    BY <2>1, FS_CardinalityType
  <2> QED
    BY <2>1, <2>2, BatchAssumption
<1> QED
  BY <1>1, <1>2

\* One more file in a set.
LEMMA OneMore ==
  ASSUME NEW S \in SUBSET Files, NEW f \in Files \ S
  PROVE  Cardinality(S \cup {f}) = Cardinality(S) + 1
BY Finite, FS_AddElement

\* And one fewer, which takes a set that is not empty.
LEMMA OneLess ==
  ASSUME NEW S \in SUBSET Files, NEW f \in S
  PROVE  Cardinality(S \ {f}) = Cardinality(S) - 1 /\ Cardinality(S) > 0
<1>1. Cardinality(S \ {f}) = Cardinality(S) - 1
  BY Finite, FS_RemoveElement
<1>2. S \ {f} \in SUBSET Files
  OBVIOUS
<1> QED
  BY <1>1, <1>2, Finite, BatchAssumption

\* The counters while the batch runs.
Counters == [{"completed", "failed", "skipped", "remaining"} -> Nat]

\* A completed or a failed file: one more there, one fewer remaining.
LEMMA FileRecorded ==
  ASSUME NEW c \in Counters, c.remaining > 0, NEW field \in {"completed", "failed"}
  PROVE  /\ recordFile(c, field) =
              [i \in {"completed", "failed", "skipped", "remaining"} |->
                 IF i = field THEN c[i] + 1 ELSE IF i = "remaining" THEN c[i] - 1 ELSE c[i]]
         /\ recordFile(c, field) \in Counters
<1>1. recordFile(c, field) =
        [i \in {"completed", "failed", "skipped", "remaining"} |->
           IF i = field THEN c[i] + 1 ELSE IF i = "remaining" THEN c[i] - 1 ELSE c[i]]
  BY DEF recordFile, Counters
<1>2. c["remaining"] - 1 \in Nat
  BY DEF Counters
<1> QED
  BY <1>1, <1>2 DEF Counters

\* A skipped file, likewise.
LEMMA SkipRecorded ==
  ASSUME NEW c \in Counters, c.remaining > 0
  PROVE  /\ recordSkipped(c) =
              [i \in {"completed", "failed", "skipped", "remaining"} |->
                 IF i = "skipped" THEN c[i] + 1 ELSE IF i = "remaining" THEN c[i] - 1 ELSE c[i]]
         /\ recordSkipped(c) \in Counters
<1>1. recordSkipped(c) =
        [i \in {"completed", "failed", "skipped", "remaining"} |->
           IF i = "skipped" THEN c[i] + 1 ELSE IF i = "remaining" THEN c[i] - 1 ELSE c[i]]
  BY DEF recordSkipped, Counters
<1>2. c["remaining"] - 1 \in Nat
  BY DEF Counters
<1> QED
  BY <1>1, <1>2 DEF Counters

\* A token of the semaphore for every goroutine, and the counters count the
\* outcomes.
CountInv ==
  /\ slots = Cardinality(Running)
  /\ slots <= Workers
  /\ count \in Counters
  /\ CountersAddUp

\* What the end of a goroutine does to the sets that are counted.
LEMMA EndsMoves ==
  ASSUME Shape, NEW f \in Files, NEW out \in {"ok", "skip", "fail", "refused"},
         worker[f] \notin {"none", "done"}, outcome[f] = "none", Ends(f, out)
  PROVE  /\ f \in Running /\ Running' = Running \ {f}
         /\ f \in With("none") /\ With("none")' = With("none") \ {f}
         /\ With("ok")' = IF out = "ok" THEN With("ok") \cup {f} ELSE With("ok")
         /\ With("skip")' = IF out = "skip" THEN With("skip") \cup {f} ELSE With("skip")
         /\ Failed' = IF out \in {"fail", "refused"} THEN Failed \cup {f} ELSE Failed
         /\ f \notin With("ok") /\ f \notin With("skip") /\ f \notin Failed
<1> USE DEF Shape
<1>1. f \in Running /\ Running' = Running \ {f}
  BY DEF Running, Ends
<1>2. f \in With("none") /\ f \notin With("ok") /\ f \notin With("skip") /\ f \notin Failed
  BY DEF With, Failed
<1>3. outcome'[f] = out /\ \A g \in Files \ {f} : outcome'[g] = outcome[g]
  BY DEF Ends
<1>4. With("none")' = With("none") \ {f}
  BY <1>3 DEF With
<1>5. With("ok")' = IF out = "ok" THEN With("ok") \cup {f} ELSE With("ok")
  BY <1>2, <1>3 DEF With
<1>6. With("skip")' = IF out = "skip" THEN With("skip") \cup {f} ELSE With("skip")
  BY <1>2, <1>3 DEF With
<1>7. Failed' = IF out \in {"fail", "refused"} THEN Failed \cup {f} ELSE Failed
  BY <1>2, <1>3 DEF With, Failed
<1> QED
  BY <1>1, <1>2, <1>4, <1>5, <1>6, <1>7

\* The published counters describe the goroutines, and the semaphore never
\* holds more tokens than there are workers (syncer.go:342-386, 613-622).
THEOREM Counted == Safe => []CountInv
<1> USE BatchAssumption, FileNumbers
<1>1. Init => CountInv
  <2> SUFFICES ASSUME Init PROVE CountInv
    OBVIOUS
  <2>1. Running = {} /\ With("ok") = {} /\ With("skip") = {} /\ Failed = {}
    BY DEF Init, Running, With, Failed
  <2>2. With("none") = Files
    BY DEF Init, With
  <2>3. count \in Counters
    BY DEF Init, Counters
  <2>4. Workers \in Nat \ {0}
    BY SettingsAccepted, SettingsBound
  <2> QED
    BY <2>1, <2>2, <2>3, <2>4, Finite, FS_EmptySet DEF Init, CountInv, CountersAddUp
<1>2. Shape /\ Flow /\ CountInv /\ [Next]_vars => CountInv'
  <2> SUFFICES ASSUME Shape, Flow, CountInv, [Next]_vars PROVE CountInv'
    OBVIOUS
  <2>0. Workers' = Workers /\ Workers \in Nat \ {0}
    BY SettingsStay, SettingsBound DEF Shape
  <2> USE <2>0
  <2>1. CASE UNCHANGED <<slots, worker, outcome, count>>
    BY <2>1 DEF CountInv, CountersAddUp, Running, With, Failed
  <2>2. CASE Control
    BY <2>1, <2>2 DEF Control, Pause, Resume, Cancel, controlFrame, result
  <2>3. CASE Check \/ Wait \/ Apply \/ Return
    BY <2>1, <2>3 DEF Check, Wait, Apply, Return, submitFrame
  <2>4. CASE Acquire
    <3>1. attempted \in Files /\ worker[attempted] = "none"
      BY <2>4 DEF Acquire, Flow
    <3>2. attempted \in Files \ Running /\ Running' = Running \cup {attempted}
      BY <2>4, <3>1 DEF Acquire, Running, Shape, WorkerPCs
    <3>3. Cardinality(Running') = Cardinality(Running) + 1
      BY <3>2, OneMore DEF Running
    <3>4. Cardinality(Running) \in Nat
      BY Finite DEF Running
    <3>5. slots' = Cardinality(Running') /\ slots' <= Workers
      BY <2>4, <3>3, <3>4 DEF Acquire, CountInv
    <3> QED
      BY <2>4, <3>5 DEF Acquire, submitFrame, CountInv, CountersAddUp, With, Failed
  <2>5. ASSUME NEW f \in Files, Work(f) PROVE CountInv'
    <3>1. worker[f] \notin {"none", "done"} /\ outcome[f] = "none"
      BY <2>5, WorkShape DEF Flow
    <3>2. CASE Moves(f)
      <4>1. Running' = Running
        BY <3>1, <3>2 DEF Moves, Running, Shape, WorkerPCs
      <4> QED
        BY <3>2, <4>1 DEF Moves, CountInv, CountersAddUp, With, Failed
    <3>3. ASSUME NEW out \in {"ok", "skip", "fail", "refused"}, Ends(f, out) PROVE CountInv'
      <4>1. /\ f \in Running /\ Running' = Running \ {f}
            /\ f \in With("none") /\ With("none")' = With("none") \ {f}
            /\ With("ok")' = IF out = "ok" THEN With("ok") \cup {f} ELSE With("ok")
            /\ With("skip")' = IF out = "skip" THEN With("skip") \cup {f} ELSE With("skip")
            /\ Failed' = IF out \in {"fail", "refused"} THEN Failed \cup {f} ELSE Failed
            /\ f \notin With("ok") /\ f \notin With("skip") /\ f \notin Failed
        BY <3>1, <3>3, EndsMoves
      <4>2. /\ Cardinality(Running \ {f}) = Cardinality(Running) - 1
            /\ Cardinality(With("none") \ {f}) = Cardinality(With("none")) - 1
            /\ Cardinality(With("none")) > 0
        BY <4>1, OneLess DEF Running, With
      <4>3. /\ Cardinality(With("ok") \cup {f}) = Cardinality(With("ok")) + 1
            /\ Cardinality(With("skip") \cup {f}) = Cardinality(With("skip")) + 1
            /\ Cardinality(Failed \cup {f}) = Cardinality(Failed) + 1
        <5>1. /\ f \in Files \ With("ok") /\ With("ok") \in SUBSET Files
              /\ f \in Files \ With("skip") /\ With("skip") \in SUBSET Files
              /\ f \in Files \ Failed /\ Failed \in SUBSET Files
          BY <4>1 DEF With, Failed
        <5> QED
          BY <5>1, OneMore
      <4>4. slots' = Cardinality(Running') /\ slots' <= Workers
        <5>1. Cardinality(Running) \in Nat
          BY Finite DEF Running
        <5> QED
          BY <3>3, <4>1, <4>2, <5>1 DEF Ends, CountInv
      <4>5. /\ count'.remaining = count.remaining - 1
            /\ count'.completed = count.completed + (IF out = "ok" THEN 1 ELSE 0)
            /\ count'.skipped = count.skipped + (IF out = "skip" THEN 1 ELSE 0)
            /\ count'.failed = count.failed + (IF out \in {"fail", "refused"} THEN 1 ELSE 0)
            /\ count' \in Counters
        <5> USE DEF CountInv
        <5>1. count.remaining > 0
          BY <4>2 DEF CountersAddUp
        <5>2. CASE out = "ok"
          <6>1. count' = recordFile(count, "completed")
            BY <3>3, <5>2 DEF Ends
          <6> QED
            BY <5>1, <5>2, <6>1, FileRecorded DEF Counters
        <5>3. CASE out = "skip"
          <6>1. count' = recordSkipped(count)
            BY <3>3, <5>3 DEF Ends
          <6> QED
            BY <5>1, <5>3, <6>1, SkipRecorded DEF Counters
        <5>4. CASE out \in {"fail", "refused"}
          <6>1. count' = recordFile(count, "failed")
            BY <3>3, <5>4 DEF Ends
          <6> QED
            BY <5>1, <5>4, <6>1, FileRecorded DEF Counters
        <5> QED
          BY <5>2, <5>3, <5>4
      <4>6. /\ Cardinality(With("none")') = Cardinality(With("none")) - 1
            /\ Cardinality(With("ok")') = Cardinality(With("ok")) + (IF out = "ok" THEN 1 ELSE 0)
            /\ Cardinality(With("skip")') = Cardinality(With("skip")) + (IF out = "skip" THEN 1 ELSE 0)
            /\ Cardinality(Failed') = Cardinality(Failed)
                                     + (IF out \in {"fail", "refused"} THEN 1 ELSE 0)
        <5>1. /\ Cardinality(With("ok")) \in Nat
              /\ Cardinality(With("skip")) \in Nat
              /\ Cardinality(Failed) \in Nat
          BY Finite DEF With, Failed
        <5>2. CASE out = "ok"
          <6>1. /\ With("ok")' = With("ok") \cup {f}
                /\ With("skip")' = With("skip")
                /\ Failed' = Failed
            BY <4>1, <5>2
          <6>2. /\ Cardinality(With("none")') = Cardinality(With("none")) - 1
                /\ Cardinality(With("ok")') = Cardinality(With("ok")) + 1
                /\ Cardinality(With("skip")') = Cardinality(With("skip"))
                /\ Cardinality(Failed') = Cardinality(Failed)
            BY <4>1, <4>2, <4>3, <6>1, Zenon
          <6> QED
            BY <5>1, <5>2, <6>2
        <5>3. CASE out = "skip"
          <6>1. /\ With("ok")' = With("ok")
                /\ With("skip")' = With("skip") \cup {f}
                /\ Failed' = Failed
            BY <4>1, <5>3
          <6>2. /\ Cardinality(With("none")') = Cardinality(With("none")) - 1
                /\ Cardinality(With("ok")') = Cardinality(With("ok"))
                /\ Cardinality(With("skip")') = Cardinality(With("skip")) + 1
                /\ Cardinality(Failed') = Cardinality(Failed)
            BY <4>1, <4>2, <4>3, <6>1, Zenon
          <6> QED
            BY <5>1, <5>3, <6>2
        <5>4. CASE out \in {"fail", "refused"}
          <6>1. /\ With("ok")' = With("ok")
                /\ With("skip")' = With("skip")
                /\ Failed' = Failed \cup {f}
            BY <4>1, <5>4
          <6>2. /\ Cardinality(With("none")') = Cardinality(With("none")) - 1
                /\ Cardinality(With("ok")') = Cardinality(With("ok"))
                /\ Cardinality(With("skip")') = Cardinality(With("skip"))
                /\ Cardinality(Failed') = Cardinality(Failed) + 1
            BY <4>1, <4>2, <4>3, <6>1, Zenon
          <6> QED
            BY <5>1, <5>4, <6>2
        <5> QED
          BY <5>2, <5>3, <5>4
      <4>7. CountersAddUp'
        BY <4>5, <4>6 DEF CountInv, CountersAddUp
      <4> QED
        BY <4>4, <4>5, <4>7 DEF CountInv
    <3> QED
      BY <2>5, <3>2, <3>3, WorkShape
  <2>6. CASE UNCHANGED vars
    BY <2>1, <2>6 DEF vars, result
  <2> QED
    BY <2>2, <2>3, <2>4, <2>5, <2>6 DEF Next, Submit
<1> QED
  BY <1>1, <1>2, Shapes, Flows, PTL DEF Safe

\* Every file is in exactly one of the published counters, for any number of
\* files and in any order of the goroutines' steps (syncer.go:342-386).
LEMMA CountersRight == Safe => []CountersAddUp
<1>1. CountInv => CountersAddUp
  BY DEF CountInv
<1> QED
  BY <1>1, Counted, PTL

\* Every variable keeps to its type: no attempt goes past the budget, no
\* counter below zero or past the number of files, and the semaphore holds at
\* most a token per worker (syncer.go:342-386, 605-747; retry.go:144-163).
THEOREM TypeCorrect == Safe => []TypeOK
<1>1. Shape /\ CountInv => TypeOK
  <2> SUFFICES ASSUME Shape, CountInv PROVE TypeOK
    OBVIOUS
  <2>1. slots \in 0 .. Workers
    <3>1. Cardinality(Running) \in Nat
      BY Finite, BatchAssumption DEF Running
    <3>2. Workers \in Nat
      BY SettingsBound DEF Shape
    <3> QED
      BY <3>1, <3>2 DEF CountInv
  <2>2. \A i \in {"completed", "failed", "skipped", "remaining"} : count[i] \in 0 .. N
    <3>1. /\ count.completed \in 0 .. N /\ count.skipped \in 0 .. N
          /\ count.failed \in 0 .. N /\ count.remaining \in 0 .. N
      BY Finite DEF CountInv, CountersAddUp, With, Failed
    <3> QED
      BY <3>1
  <2>3. count \in [{"completed", "failed", "skipped", "remaining"} -> 0 .. N]
    BY <2>2 DEF CountInv, Counters
  <2> QED
    BY <2>1, <2>3 DEF Shape, TypeOK
<1> QED
  BY <1>1, Shapes, Counted, PTL
-----------------------------------------------------------------------------
(***************************************************************************)
(* The byte total.                                                         *)
(***************************************************************************)

\* What a file contributes is its number of blocks.
LEMMA FileBlocks ==
  ASSUME NEW f, NEW k \in Nat
  PROVE  IsFiniteSet({f} \X (1 .. k)) /\ Cardinality({f} \X (1 .. k)) = k
<1>1. IsFiniteSet(1 .. k) /\ Cardinality(1 .. k) = k
  BY FS_Interval
<1>2. IsFiniteSet({f}) /\ Cardinality({f}) = 1
  BY FS_Singleton, Zenon
<1>3. /\ IsFiniteSet({f} \X (1 .. k))
      /\ Cardinality({f} \X (1 .. k)) = Cardinality({f}) * Cardinality(1 .. k)
  BY <1>1, <1>2, FS_Product, Zenon
<1> QED
  BY <1>1, <1>2, <1>3

\* The blocks of some files can be counted.
LEMMA BlocksFinite ==
  ASSUME NEW fs \in SUBSET Files, NEW n \in [Files -> Nat]
  PROVE  IsFiniteSet(BlocksOf(fs, n)) /\ Cardinality(BlocksOf(fs, n)) \in Nat
<1> DEFINE parts == {{f} \X (1 .. n[f]) : f \in fs}
<1>1. IsFiniteSet(fs)
  BY Finite
<1>2. IsFiniteSet(parts)
  <2> DEFINE share == [f \in fs |-> {f} \X (1 .. n[f])]
  <2>1. share \in Surjection(fs, parts)
    BY DEF Surjection
  <2> QED
    BY <1>1, <2>1, FS_Surjection, Zenon
<1>3. ASSUME NEW part \in parts PROVE IsFiniteSet(part)
  <2>1. PICK f \in fs : part = {f} \X (1 .. n[f])
    OBVIOUS
  <2>2. n[f] \in Nat
    OBVIOUS
  <2> QED
    BY <2>1, <2>2, FileBlocks
<1>4. IsFiniteSet(UNION parts)
  BY <1>2, <1>3, FS_UNION, Zenon
<1> QED
  BY <1>4, FS_CardinalityType DEF BlocksOf

\* A file's share is its own: the rest of the total does not depend on it.
LEMMA BlocksSplit ==
  ASSUME NEW fs \in SUBSET Files, NEW n \in [Files -> Nat], NEW f \in fs
  PROVE  Cardinality(BlocksOf(fs, n)) = Cardinality(BlocksOf(fs \ {f}, n)) + n[f]
<1> DEFINE one  == {f} \X (1 .. n[f])
           rest == BlocksOf(fs \ {f}, n)
<1>1. IsFiniteSet(one) /\ Cardinality(one) = n[f] /\ n[f] \in Nat
  BY FileBlocks
<1>2. IsFiniteSet(rest) /\ Cardinality(rest) \in Nat
  BY BlocksFinite
<1>3. BlocksOf(fs, n) = rest \cup one
  BY DEF BlocksOf
<1>4. rest \cap one = {}
  BY DEF BlocksOf
<1>5. Cardinality(rest \cup one) = Cardinality(rest) + Cardinality(one) - Cardinality(rest \cap one)
  BY <1>1, <1>2, FS_Union, Zenon
<1>6. Cardinality(rest \cap one) = 0
  BY <1>4, FS_EmptySet, Zenon
<1> HIDE DEF one
<1> QED
  BY <1>1, <1>2, <1>3, <1>5, <1>6

\* Only the numbers of the counted files matter.
LEMMA BlocksAgree ==
  ASSUME NEW fs \in SUBSET Files, NEW n, NEW m, \A f \in fs : n[f] = m[f]
  PROVE  BlocksOf(fs, n) = BlocksOf(fs, m)
BY DEF BlocksOf

\* Larger files have more blocks.
LEMMA BlocksGrow ==
  ASSUME NEW n \in [Files -> Nat], NEW m \in [Files -> Nat], \A f \in Files : n[f] <= m[f]
  PROVE  Cardinality(BlocksOf(Files, n)) <= Cardinality(BlocksOf(Files, m))
<1>1. BlocksOf(Files, n) \in SUBSET BlocksOf(Files, m)
  <2> SUFFICES ASSUME NEW f \in Files, NEW b \in {f} \X (1 .. n[f])
               PROVE  b \in {f} \X (1 .. m[f])
    BY DEF BlocksOf
  <2>1. n[f] \in Nat /\ m[f] \in Nat /\ n[f] <= m[f]
    OBVIOUS
  <2>2. 1 .. n[f] \subseteq 1 .. m[f]
    BY <2>1
  <2> QED
    BY <2>2
<1> QED
  BY <1>1, BlocksFinite, FS_Subset

\* Fewer files have no more blocks.
LEMMA FewerBlocks ==
  ASSUME NEW A \in SUBSET Files, NEW B \in SUBSET Files, A \subseteq B, NEW n \in [Files -> Nat]
  PROVE  Cardinality(BlocksOf(A, n)) <= Cardinality(BlocksOf(B, n))
<1>1. BlocksOf(A, n) \subseteq BlocksOf(B, n)
  BY DEF BlocksOf
<1> QED
  BY <1>1, BlocksFinite, FS_Subset

\* The byte total is what the files whose transfer did not fail have reported,
\* those refused afterwards included.  Between
\* two attempts a file has reported nothing, a file that waits for its place
\* has reported everything, and what is placed stays as it was reported.
\* This is what the code does, and stronger than what is asked of it.
BytesInv ==
  /\ bytes = Blocks(Files \ With("fail"))
  /\ \A f \in Files : worker[f] \in {"backoff", "sleep"} => copied[f] = 0
  /\ \A f \in Files : worker[f] = "place" \/ f \in placed
                        => copied[f] = Actual[f] /\ reported[f] = Actual[f]

\* What the step of a goroutine does to the total: its own file's share
\* changes, or goes when the file fails.
LEMMA ShareChanges ==
  ASSUME Shape, Shape', bytes = Blocks(Files \ With("fail")), NEW f \in Files,
         outcome[f] # "fail", \A g \in Files \ {f} : reported'[g] = reported[g]
  PROVE  \E rest \in Nat :
           /\ bytes = rest + reported[f]
           /\ With("fail")' = With("fail") => Blocks(Files \ With("fail"))' = rest + reported'[f]
           /\ With("fail")' = With("fail") \cup {f} => Blocks(Files \ With("fail"))' = rest
<1> DEFINE good == Files \ With("fail")
           rest == Cardinality(BlocksOf(good \ {f}, reported))
<1>1. reported \in [Files -> Nat] /\ reported' \in [Files -> Nat]
  BY DEF Shape
<1>2. f \in good /\ good \in SUBSET Files /\ good \ {f} \in SUBSET Files
  BY DEF With
<1>3. rest \in Nat
  BY <1>1, <1>2, BlocksFinite
<1>4. bytes = rest + reported[f]
  BY <1>1, <1>2, BlocksSplit DEF Blocks
<1>5. BlocksOf(good \ {f}, reported') = BlocksOf(good \ {f}, reported)
  BY <1>2, BlocksAgree
<1>6. Cardinality(BlocksOf(good, reported')) = rest + reported'[f]
  BY <1>1, <1>2, <1>5, BlocksSplit
<1>7. ASSUME With("fail")' = With("fail") PROVE Blocks(good)' = rest + reported'[f]
  BY <1>6, <1>7 DEF Blocks
<1>8. ASSUME With("fail")' = With("fail") \cup {f} PROVE Blocks(good)' = rest
  <2>1. good' = good \ {f}
    BY <1>8
  <2> QED
    BY <1>5, <2>1 DEF Blocks
<1> QED
  BY <1>3, <1>4, <1>7, <1>8

\* The clamp takes off exactly what is there to take off.
LEMMA LessIsExact == ASSUME NEW a \in Nat, NEW b \in Nat PROVE Less(a + b, b) = a
BY DEF Less

\* How the end of a goroutine changes who has failed.
LEMMA FailedMoves ==
  ASSUME Shape, NEW f \in Files, outcome[f] = "none"
  PROVE  /\ UNCHANGED outcome => With("fail")' = With("fail")
         /\ \A out : outcome' = [outcome EXCEPT ![f] = out]
              => With("fail")' = IF out = "fail" THEN With("fail") \cup {f} ELSE With("fail")
BY DEF Shape, With

\* The total follows the reports (syncer.go:269-361; retry.go:144-208).
LEMMA BytesFollow == Safe => []BytesInv
<1> USE BatchAssumption
<1>1. Init => BytesInv
  <2> SUFFICES ASSUME Init PROVE BytesInv
    OBVIOUS
  <2>1. \A f \in Files : 1 .. reported[f] = {}
    BY DEF Init
  <2>2. BlocksOf(Files \ With("fail"), reported) = {}
    BY <2>1 DEF BlocksOf
  <2>3. Blocks(Files \ With("fail")) = 0
    BY <2>2, FS_EmptySet, Zenon DEF Blocks
  <2> QED
    BY <2>3 DEF Init, BytesInv
<1>2. Shape /\ Reported /\ Flow /\ PlacedInv /\ BytesInv /\ [Next]_vars /\ Shape' => BytesInv'
  <2> SUFFICES ASSUME Shape, Reported, Flow, PlacedInv, BytesInv, [Next]_vars, Shape' PROVE BytesInv'
    OBVIOUS
  <2>1. ASSUME UNCHANGED <<bytes, reported, copied, outcome, placed>>,
               UNCHANGED worker \/ (\E g \in Files : worker' = [worker EXCEPT ![g] = "start"])
        PROVE  BytesInv'
    <3>1. Blocks(Files \ With("fail"))' = Blocks(Files \ With("fail"))
      BY <2>1 DEF Blocks, With
    <3>2. \A f \in Files : worker'[f] = worker[f] \/ worker'[f] = "start"
      BY <2>1 DEF Shape
    <3> QED
      BY <2>1, <3>1, <3>2 DEF BytesInv
  <2>2. CASE Control
    BY <2>1, <2>2 DEF Control, Pause, Resume, Cancel, controlFrame, result, progress
  <2>3. CASE Submit
    <3>1. UNCHANGED <<bytes, reported, copied, outcome, placed>>
      BY <2>3 DEF Submit, Check, Acquire, Wait, Apply, Return, submitFrame, progress
    <3>2. CASE Acquire
      <4>1. attempted \in Files /\ worker' = [worker EXCEPT ![attempted] = "start"]
        BY <3>2 DEF Acquire, Flow
      <4> QED
        BY <2>1, <3>1, <4>1
    <3>3. CASE Check \/ Wait \/ Apply \/ Return
      BY <2>1, <3>1, <3>3 DEF Check, Wait, Apply, Return
    <3> QED
      BY <2>3, <3>2, <3>3 DEF Submit
  <2>4. ASSUME NEW f \in Files, Work(f) PROVE BytesInv'
    <3>1. worker[f] \notin {"none", "done"} /\ outcome[f] = "none" /\ f \notin placed
      BY <2>4, WorkShape DEF Flow, PlacedInv, Shape
    <3>2. /\ reported[f] \in Nat /\ copied[f] \in Nat /\ reported[f] <= copied[f]
          /\ reported'[f] \in Nat /\ copied'[f] \in Nat
      BY DEF Shape, Reported
    <3>3. \A g \in Files \ {f} : /\ worker'[g] = worker[g]
                                 /\ copied'[g] = copied[g]
                                 /\ reported'[g] = reported[g]
                                 /\ g \in placed' <=> g \in placed
      BY <2>4 DEF Shape, Work, Transfer, SetCurrent, SettleEarly, FirstTry, Copy, FetchOk,
                  FetchFailsForGood, FetchFailsForNow, BackoffBegins, BackoffCut, Retry,
                  SettleLate, PlaceFails, Place, MoveTo, Exit, recordSkipOrFailure, progress
    <3>4. PICK rest \in Nat :
           /\ bytes = rest + reported[f]
           /\ With("fail")' = With("fail") => Blocks(Files \ With("fail"))' = rest + reported'[f]
           /\ With("fail")' = With("fail") \cup {f} => Blocks(Files \ With("fail"))' = rest
      BY <3>1, <3>3, ShareChanges DEF BytesInv
    <3>5. SUFFICES
           /\ \/ With("fail")' = With("fail") /\ bytes' = rest + reported'[f]
              \/ With("fail")' = With("fail") \cup {f} /\ bytes' = rest
           /\ worker'[f] \in {"backoff", "sleep"} => copied'[f] = 0
           /\ worker'[f] = "place" \/ f \in placed'
                => copied'[f] = Actual[f] /\ reported'[f] = Actual[f]
      BY <3>3, <3>4 DEF BytesInv
    <3> USE <3>1, <3>2, <3>4
    <3> USE DEF progress
    <3>6. CASE SetCurrent(f) \/ FirstTry(f) \/ BackoffBegins(f) \/ Retry(f)
      <4>1. /\ UNCHANGED <<outcome, bytes, progress, placed>>
            /\ worker'[f] \in {"begun", "transfer", "sleep"}
            /\ worker'[f] = "sleep" => worker[f] = "backoff"
        BY <3>6 DEF SetCurrent, FirstTry, BackoffBegins, Retry, MoveTo, Shape
      <4> QED
        BY <4>1, FailedMoves DEF BytesInv
    <3>7. CASE SettleEarly(f) \/ SettleLate(f)
      <4>1. /\ \E out \in {"skip", "refused"} : outcome' = [outcome EXCEPT ![f] = out]
            /\ UNCHANGED <<bytes, progress, placed>> /\ worker'[f] = "done"
        BY <3>7 DEF SettleEarly, SettleLate, Settled, recordSkipOrFailure, Exit, Shape
      <4>2. PICK out \in {"skip", "refused"} : outcome' = [outcome EXCEPT ![f] = out]
        BY <4>1
      <4>3. With("fail")' = With("fail")
        BY <4>2, FailedMoves
      <4> QED
        BY <4>1, <4>3
    <3>8. CASE Place(f)
      <4>1. /\ outcome' = [outcome EXCEPT ![f] = "ok"]
            /\ UNCHANGED <<bytes, progress>> /\ worker'[f] = "done" /\ worker[f] = "place"
        BY <3>8 DEF Place, Exit, Shape
      <4>2. With("fail")' = With("fail")
        BY <4>1 DEF With, Shape
      <4> QED
        BY <4>1, <4>2 DEF BytesInv
    <3>9. CASE Copy(f)
      <4>1. /\ UNCHANGED <<outcome, placed, worker>> /\ worker[f] = "transfer"
            /\ \/ bytes' = bytes + (copied[f] + 1 - reported[f]) /\ reported'[f] = copied[f] + 1
               \/ bytes' = bytes /\ reported'[f] = reported[f]
        BY <3>9 DEF Copy, Shape
      <4> QED
        BY <4>1, FailedMoves
    <3>10. CASE FetchOk(f)
      <4>1. /\ UNCHANGED <<outcome, placed>> /\ worker'[f] = "place"
            /\ copied[f] = Actual[f] /\ copied' = copied
            /\ bytes' = bytes + (copied[f] - reported[f]) /\ reported'[f] = copied[f]
        BY <3>10 DEF FetchOk, Flushed, MoveTo, Shape
      <4> QED
        BY <4>1, FailedMoves
    <3>11. CASE FetchFailsForGood(f)
      <4>1. /\ outcome' = [outcome EXCEPT ![f] = "fail"] /\ worker'[f] = "done"
            /\ bytes' = Less(bytes + (copied[f] - reported[f]), copied[f])
            /\ UNCHANGED placed
        BY <3>11 DEF FetchFailsForGood, WithoutFailed, Exit, Shape
      <4>2. bytes + (copied[f] - reported[f]) = rest + copied[f]
        OBVIOUS
      <4> QED
        BY <4>1, <4>2, LessIsExact, FailedMoves
    <3>12. CASE FetchFailsForNow(f)
      <4>1. /\ \/ UNCHANGED outcome /\ worker'[f] = "backoff"
               \/ outcome' = [outcome EXCEPT ![f] = "fail"] /\ worker'[f] = "done"
            /\ bytes' = Less(bytes + (copied[f] - reported[f]), copied[f])
            /\ copied'[f] = 0 /\ reported'[f] = 0
            /\ UNCHANGED placed
        BY <3>12 DEF FetchFailsForNow, discardAttempt, MoveTo, Exit, Shape
      <4>2. bytes + (copied[f] - reported[f]) = rest + copied[f]
        OBVIOUS
      <4>3. bytes' = rest
        BY <4>1, <4>2, LessIsExact
      <4> QED
        BY <4>1, <4>3, FailedMoves
    <3>13. CASE BackoffCut(f) \/ PlaceFails(f)
      <4>1. /\ outcome' = [outcome EXCEPT ![f] = "fail"] /\ worker'[f] = "done"
            /\ bytes' = Less(bytes, copied[f])
            /\ worker[f] \in {"backoff", "sleep", "place"}
            /\ UNCHANGED placed
        BY <3>13 DEF BackoffCut, PlaceFails, WithoutFailed, Exit, Shape
      <4>2. bytes = rest + copied[f]
        BY <4>1 DEF BytesInv
      <4> QED
        BY <4>1, <4>2, LessIsExact, FailedMoves
    <3> QED
      BY <2>4, <3>6, <3>7, <3>8, <3>9, <3>10, <3>11, <3>12, <3>13 DEF Work, Transfer
  <2>5. CASE UNCHANGED vars
    BY <2>1, <2>5 DEF vars, result, progress
  <2> QED
    BY <2>2, <2>3, <2>4, <2>5 DEF Next
<1> QED
  BY <1>1, <1>2, Shapes, Flows, PlacedFollows, PTL DEF Safe

\* Retries, throttled updates, failures and the clamp neither lose nor invent a
\* block, whatever the sizes and the order of the goroutines' steps; and the
\* status of a batch that placed every file shows the whole total
\* (syncer.go:212-225, 269-361; retry.go:144-208).
LEMMA BytesRight == Safe => []BytesAccounted
<1>1. Shape /\ PlacedInv /\ BytesInv => BytesAccounted
  <2> SUFFICES ASSUME Shape, PlacedInv, BytesInv PROVE BytesAccounted
    OBVIOUS
  <2>1. ASSUME sub = "done", placed = Files, TotalBytes > 0, \A f \in Files : Actual[f] >= Listed[f]
        PROVE  Published = TotalBytes
    <3>1. Listed \in [Files -> Nat] /\ Actual \in [Files -> Nat] /\ reported \in [Files -> Nat]
      BY BatchAssumption DEF Shape
    <3>2. Files \ With("fail") = Files
      BY <2>1 DEF PlacedInv, With
    <3>3. \A f \in Files : reported[f] = Actual[f]
      BY <2>1 DEF BytesInv
    <3>4. bytes = Cardinality(BlocksOf(Files, Actual))
      BY <3>2, <3>3, BlocksAgree DEF BytesInv, Blocks
    <3>5. \A f \in Files : Listed[f] <= Actual[f]
      BY <2>1, <3>1
    <3>6. TotalBytes <= bytes
      BY <3>1, <3>4, <3>5, BlocksGrow DEF TotalBytes
    <3>7. TotalBytes \in Nat /\ bytes \in Nat
      BY <3>1, BlocksFinite DEF TotalBytes, Shape
    <3> QED
      BY <2>1, <3>6, <3>7 DEF Published
  <2>2. /\ Blocks(Files \ Failed) \in Nat
        /\ Blocks(Files \ With("fail")) \in Nat
        /\ Blocks(Files \ Failed) <= Blocks(Files \ With("fail"))
    <3>1. reported \in [Files -> Nat]
      BY DEF Shape
    <3>2. /\ Files \ Failed \in SUBSET Files
          /\ Files \ With("fail") \in SUBSET Files
          /\ Files \ Failed \subseteq Files \ With("fail")
      BY DEF Failed
    <3> QED
      BY <3>1, <3>2, FewerBlocks, BlocksFinite DEF Blocks
  <2> QED
    BY <2>1, <2>2 DEF BytesInv, BytesAccounted
<1> QED
  BY <1>1, Shapes, PlacedFollows, BytesFollow, PTL

\* What Status publishes of a batch is true at every moment, for any number of
\* files of any size and in any order of the goroutines' steps: each file is
\* in one counter, every block reported by a file in work, placed or skipped is
\* counted and none of a failed transfer is, and the current file is being
\* worked on.  Blocks of a file refused after its transfer are left open
\* (syncer.go:212-225, 269-386).
THEOREM StatusIsTrue == Safe => []StatusTrue
<1>1. CountersAddUp /\ BytesAccounted /\ CurrentIsRunning => StatusTrue
  BY DEF StatusTrue
<1> QED
  BY <1>1, CountersRight, BytesRight, CurrentRuns, PTL

-----------------------------------------------------------------------------
(***************************************************************************)
(* Implementation.                                                         *)
(***************************************************************************)

\* Every step of the batch, by whichever goroutine, is a step Cycle allows: it
\* is cut short only for a pause or a shutdown, is no success then, and
\* reports a pause only if no shutdown came first (syncer.go:614-622, 743-746,
\* 811-846).
THEOREM Implementation == Safe => Cy!Safe
<1>1. Init => Cy!Init
  BY BatchAssumption DEF Init, Cy!Init
<1>2. Shape /\ ReturnInv /\ [Next]_vars => [Cy!Next]_Cy!vars
  <2> SUFFICES ASSUME Shape, ReturnInv, [Next]_vars PROVE [Cy!Next]_Cy!vars
    OBVIOUS
  <2> USE DEF Cy!Next, Cy!vars
  <2>0. /\ attempted \in 0 .. N /\ N \in Nat /\ paused \in BOOLEAN
        /\ sub # "done" => ret = "none"
    BY BatchAssumption DEF Shape, ReturnInv
  <2>1. CASE Pause \/ Resume
    BY <2>0, <2>1 DEF Pause, Resume, controlFrame, batchVars, Cy!Toggle
  <2>2. CASE Cancel
    BY <2>2 DEF Cancel, controlFrame, batchVars, Cy!Cancel
  <2>3. CASE Check
    <3>1. sub = "check" /\ UNCHANGED <<paused, cancelled, ret>> /\ ret = "none"
      BY <2>0, <2>3 DEF Check, submitFrame, control
    <3>2. CASE sub' = "wait" /\ UNCHANGED attempted /\ attempted < N
      <4>1. paused \/ cancelled
        BY <2>0, <2>3, <3>1, <3>2 DEF Check, shouldStopSubmitting
      <4> QED
        BY <3>1, <3>2, <4>1 DEF Cy!Cut
    <3>3. CASE sub' = "wait" /\ UNCHANGED attempted /\ ~(attempted < N)
      BY <3>1, <3>3
    <3>4. CASE sub' = "acquire"
      BY <3>1, <3>4
    <3> QED
      BY <2>3, <3>2, <3>3, <3>4 DEF Check
  <2>4. CASE Acquire \/ Wait \/ Apply
    BY <2>4 DEF Acquire, Wait, Apply, submitFrame, control
  <2>5. CASE Return
    <3>1. /\ sub = "return" /\ sub' = "done" /\ ret = "none"
          /\ UNCHANGED <<paused, cancelled, attempted>>
      BY <2>0, <2>5 DEF Return, submitFrame, control
    <3>2. ret' = "failed" \/ ret' = incompleteBatchError(attempted, cancelled)
      BY <2>5 DEF Return
    <3>3. CASE attempted < N
      BY <2>0, <3>1, <3>2, <3>3 DEF incompleteBatchError, Cy!Return, Cy!Results
    <3>4. CASE ~(attempted < N)
      BY <2>0, <3>1, <3>2, <3>4 DEF incompleteBatchError, Cy!Return, Cy!Results
    <3> QED
      BY <3>3, <3>4
  <2>6. ASSUME NEW f \in Files, Work(f) PROVE [Cy!Next]_Cy!vars
    <3>1. UNCHANGED <<sub, attempted, ret, paused, cancelled>>
      BY <2>6, WorkShape DEF batchVars, control, workFrame
    <3> QED
      BY <3>1
  <2>7. CASE UNCHANGED vars
    BY <2>7 DEF vars, batchVars, control
  <2> QED
    BY <2>1, <2>2, <2>3, <2>4, <2>5, <2>6, <2>7 DEF Next, Control, Submit
<1> QED
  BY <1>1, <1>2, Shapes, ReturnFollows, PTL DEF Safe, Cy!Safe
=============================================================================
