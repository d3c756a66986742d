------------------------------- MODULE Batch -------------------------------
(***************************************************************************)
(* One download batch of one job: downloadAll with its worker goroutines,  *)
(* downloadWithRetries, fileProgress and the counters of SyncStatus        *)
(* (internal/syncer/syncer.go, retry.go).                                  *)
(*                                                                         *)
(* The files are taken on in order by one submitting goroutine, which is   *)
(* the run loop; a semaphore of Workers slots bounds how many are worked   *)
(* on.  Pause, Resume and shutdown happen around it at any moment.         *)
(*                                                                         *)
(* Bytes are counted in blocks.  Where a file ends up is Library's         *)
(* subject: here a destination is granted, refused or skipped.             *)
(*                                                                         *)
(* A definition marked "mutant" is a broken variant of the definition after *)
(* it, kept to confirm that a property notices the bug; Next uses none.    *)
(***************************************************************************)
EXTENDS Config, FiniteSets

CONSTANTS N,            \* number of files in the batch
          Listed,       \* Listed[f]: blocks of file f when the server was walked
          Actual,       \* Actual[f]: blocks the transfer of f really yields
          Configs       \* config files the job may have been given

Files == 1 .. N

ASSUME BatchAssumption ==
  /\ N \in Nat \ {0}
  /\ Listed \in [Files -> Nat]
  /\ Actual \in [Files -> Nat]
  /\ \A file \in Configs : WellFormed(file)

VARIABLES settings,   \* cfg.Sync, which nothing changes
          sub,        \* where the submitting goroutine is
          attempted,  \* files taken on so far; file attempted is the current one
          slots,      \* tokens in the semaphore
          worker,     \* where each file's goroutine is
          attempt,    \* attempt number of each file's download
          copied,     \* fileProgress.copied
          reported,   \* fileProgress.reported
          bytes,      \* status.BytesCompleted
          count,      \* status.Completed, Failed, Skipped and Remaining
          current,    \* status.CurrentFile, 0 when empty
          staged,     \* files with a staging file on disk
          placed,     \* files renamed to their destination by this batch
          outcome,    \* what each worker sent on results
          recorded,   \* files applyDownloadOutcomes put in the manifest
          ret,        \* what downloadAll returned
          paused, cancelled,
          lateStarts, \* history: files taken on since the batch had to stop
          lateTries   \* history: attempts each file began after the shutdown

batchVars == <<sub, attempted, recorded, ret>>   \* the submitting goroutine's
progress  == <<attempt, copied, reported>>       \* fileProgress and its attempt
result    == <<slots, outcome, count, bytes>>    \* what finishing a file changes
control   == <<paused, cancelled>>
vars == <<settings, batchVars, worker, progress, staged, placed, result, current, control,
          lateStarts, lateTries>>

\* What each of the three kinds of actor never touches.
controlFrame == <<settings, batchVars, worker, progress, staged, placed, result, current,
                  lateTries>>
submitFrame  == <<settings, progress, staged, placed, outcome, count, bytes, current, control,
                  lateTries>>
workFrame    == <<settings, batchVars, control, lateStarts>>

Workers     == settings.workers
MaxAttempts == settings.max_attempts
FolderNone  == settings.folder_structure = "none"
Policy      == settings.collision_policy

WorkerPCs == {"none", "start", "begun", "transfer", "backoff", "sleep", "place", "done"}
Running   == {f \in Files : worker[f] \notin {"none", "done"}}
With(o)   == {f \in Files : outcome[f] = o}

\* Every variable keeps to the values the code can give it; in particular no
\* download goes past its attempt budget.
TypeOK ==
  /\ settings \in Settings
  /\ sub \in {"check", "acquire", "wait", "apply", "return", "done"}
  /\ attempted \in 0 .. N
  /\ slots \in 0 .. Workers
  /\ worker \in [Files -> WorkerPCs]
  /\ attempt \in [Files -> 1 .. MaxAttempts]
  /\ copied \in [Files -> Nat]
  /\ reported \in [Files -> Nat]
  /\ bytes \in Nat
  /\ count \in [{"completed", "failed", "skipped", "remaining"} -> 0 .. N]
  /\ current \in 0 .. N
  /\ staged \in SUBSET Files
  /\ placed \in SUBSET Files
  /\ outcome \in [Files -> {"none", "ok", "skip", "fail", "refused"}]
  /\ recorded \in SUBSET Files
  /\ ret \in {"none", "nil", "failed", "interrupted", "paused"}
  /\ paused \in BOOLEAN
  /\ cancelled \in BOOLEAN
  /\ lateStarts \in Nat
  /\ lateTries \in [Files -> Nat]

\* A job with a config file that Load accepted; beginDownload has just
\* published the batch.
Init ==
  /\ \E file \in Configs : Accepted(file) /\ settings = Loaded(file)
  /\ sub = "check"
  /\ attempted = 0
  /\ slots = 0
  /\ worker = [f \in Files |-> "none"]
  /\ attempt = [f \in Files |-> 1]
  /\ copied = [f \in Files |-> 0]
  /\ reported = [f \in Files |-> 0]
  /\ bytes = 0
  /\ count = [completed |-> 0, failed |-> 0, skipped |-> 0, remaining |-> N]
  /\ current = 0
  /\ staged = {}
  /\ placed = {}
  /\ outcome = [f \in Files |-> "none"]
  /\ recorded = {}
  /\ ret = "none"
  /\ paused \in BOOLEAN
  /\ cancelled = FALSE
  /\ lateStarts = 0
  /\ lateTries = [f \in Files |-> 0]

-----------------------------------------------------------------------------
\* The user and the shutdown.

Pause == /\ ~paused
         /\ paused' = TRUE
         /\ UNCHANGED <<controlFrame, cancelled, lateStarts>>

Resume == /\ paused
          /\ paused' = FALSE
          /\ lateStarts' = IF cancelled THEN lateStarts ELSE 0
          /\ UNCHANGED <<controlFrame, cancelled>>

Cancel == /\ ~cancelled
          /\ cancelled' = TRUE
          /\ UNCHANGED <<controlFrame, paused, lateStarts>>

Control == Pause \/ Resume \/ Cancel

-----------------------------------------------------------------------------
\* The submitting goroutine.

StopIgnoresPause(isPaused, stopping) == stopping   \* mutant
shouldStopSubmitting(isPaused, stopping) == isPaused \/ stopping

\* The stop check is made before the wait for a slot, not after it.
Check ==
  /\ sub = "check"
  /\ IF attempted = N \/ shouldStopSubmitting(paused, cancelled)
       THEN sub' = "wait" /\ UNCHANGED attempted
       ELSE sub' = "acquire" /\ attempted' = attempted + 1
  /\ UNCHANGED <<submitFrame, slots, worker, lateStarts, recorded, ret>>

Acquire ==
  /\ sub = "acquire"
  /\ slots < Workers
  /\ slots' = slots + 1
  /\ worker' = [worker EXCEPT ![attempted] = "start"]
  /\ lateStarts' = IF paused \/ cancelled THEN lateStarts + 1 ELSE 0
  /\ sub' = "check"
  /\ UNCHANGED <<submitFrame, attempted, recorded, ret>>

\* wg.Wait returns.
Wait ==
  /\ sub = "wait"
  /\ \A f \in 1 .. attempted : worker[f] = "done"
  /\ sub' = "apply"
  /\ UNCHANGED <<submitFrame, attempted, slots, worker, lateStarts, recorded, ret>>

AppliesSkips(out) == {f \in Files : out[f] \in {"ok", "skip"}}  \* mutant
\* The outcomes that enter the manifest.
applyDownloadOutcomes(out) == {f \in Files : out[f] = "ok"}

\* The manifest is updated and saved; a failed save is only logged.
Apply ==
  /\ sub = "apply"
  /\ recorded' = applyDownloadOutcomes(outcome)
  /\ sub' = "return"
  /\ UNCHANGED <<submitFrame, attempted, slots, worker, lateStarts, ret>>

IncompleteIgnored(tried, stopping) == "nil"   \* mutant
incompleteBatchError(tried, stopping) ==
  IF tried >= N THEN "nil" ELSE IF stopping THEN "interrupted" ELSE "paused"

Return ==
  /\ sub = "return"
  /\ ret' = IF With("fail") \cup With("refused") # {} THEN "failed"
            ELSE incompleteBatchError(attempted, cancelled)
  /\ sub' = "done"
  /\ UNCHANGED <<submitFrame, attempted, slots, worker, lateStarts, recorded>>

Submit == Check \/ Acquire \/ Wait \/ Apply \/ Return

-----------------------------------------------------------------------------
\* How a file's end enters the counters, under the status mutex.

KeepsCurrent(shown, f) == shown            \* mutant
clearCurrent(shown, f) == IF shown = f THEN 0 ELSE shown

SkipKeepsRemaining(c) == [c EXCEPT !.skipped = @ + 1]   \* mutant
recordSkipped(c) == [c EXCEPT !.skipped = @ + 1,
                              !.remaining = IF @ > 0 THEN @ - 1 ELSE 0]
recordFile(c, field) == [c EXCEPT ![field] = @ + 1,
                                  !.remaining = IF @ > 0 THEN @ - 1 ELSE 0]

\* Subtraction with the clamp at zero.
Less(total, n) == IF total < n THEN 0 ELSE total - n

WithoutFailed(total, n) == Less(total, n)

SlotLeaks(n) == n                           \* mutant
ReleaseSlot(n) == n - 1

\* The goroutine of f records its outcome in the counters, sends it and frees
\* its slot; total is what is left of the byte count, shown the current file.
Exit(f, out, counters, total, shown) ==
  /\ worker' = [worker EXCEPT ![f] = "done"]
  /\ outcome' = [outcome EXCEPT ![f] = out]
  /\ slots' = ReleaseSlot(slots)
  /\ count' = counters
  /\ bytes' = total
  /\ current' = clearCurrent(shown, f)

-----------------------------------------------------------------------------
\* One file's goroutine.

MoveTo(f, pc) == worker' = [worker EXCEPT ![f] = pc] /\ UNCHANGED <<slots, outcome, count>>
CountTry(f)   == lateTries' = [lateTries EXCEPT ![f] = IF cancelled THEN @ + 1 ELSE @]

SetCurrent(f) ==
  /\ worker[f] = "start"
  /\ MoveTo(f, "begun")
  /\ current' = f
  /\ UNCHANGED <<workFrame, progress, staged, placed, bytes, lateTries>>

\* What a collision can do to a file under the policy; rename fails when
\* every suffix is taken.
Settled == IF Policy = "skip" THEN {"ok", "skip"} ELSE {"ok", "refused"}

\* A skipped or refused file is recorded with no bytes to take off.
recordSkipOrFailure(f, out) ==
  Exit(f, out, IF out = "skip" THEN recordSkipped(count) ELSE recordFile(count, "failed"),
       bytes, current)

\* Without EXIF folders the destination is settled before the transfer.
SettleEarly(f) ==
  /\ worker[f] = "begun"
  /\ FolderNone
  /\ \E s \in Settled \ {"ok"} : recordSkipOrFailure(f, s)
  /\ UNCHANGED <<workFrame, progress, staged, placed, lateTries>>

FirstTry(f) ==
  /\ worker[f] = "begun"
  /\ MoveTo(f, "transfer")
  /\ CountTry(f)
  /\ UNCHANGED <<workFrame, progress, staged, placed, bytes, current>>

\* copyWithProgress writes a block.  The update reaches the status unless it
\* is throttled, which the first one after a reset never is.
Copy(f) ==
  /\ worker[f] = "transfer"
  /\ copied[f] < Actual[f]
  /\ copied' = [copied EXCEPT ![f] = @ + 1]
  /\ staged' = staged \cup {f}
  /\ \/ /\ bytes' = bytes + (copied[f] + 1 - reported[f])
        /\ reported' = [reported EXCEPT ![f] = copied[f] + 1]
        /\ current' = f
     \/ /\ reported[f] > 0
        /\ UNCHANGED <<bytes, reported, current>>
  /\ UNCHANGED <<workFrame, worker, slots, outcome, count, attempt, placed, lateTries>>

\* flush reports what throttling withheld, and its file becomes the current
\* one if there was anything.
Flushed(f)   == copied[f]
Reporting(f) == IF copied[f] > reported[f] THEN f ELSE current

FetchOk(f) ==
  /\ worker[f] = "transfer"
  /\ copied[f] = Actual[f]
  /\ MoveTo(f, "place")
  /\ staged' = staged \cup {f}
  /\ bytes' = bytes + (Flushed(f) - reported[f])
  /\ reported' = [reported EXCEPT ![f] = Flushed(f)]
  /\ current' = Reporting(f)
  /\ UNCHANGED <<workFrame, attempt, copied, placed, lateTries>>

\* A failure that another attempt cannot mend: the file fails at once, after
\* the flush, and what it copied is taken off again.
FetchFailsForGood(f) ==
  /\ worker[f] = "transfer"
  /\ staged' = staged \ {f}
  /\ reported' = [reported EXCEPT ![f] = copied[f]]
  /\ Exit(f, "fail", recordFile(count, "failed"),
          WithoutFailed(bytes + (copied[f] - reported[f]), copied[f]), Reporting(f))
  /\ UNCHANGED <<workFrame, attempt, copied, placed, lateTries>>

RetryPastBudget(n) == n <= MaxAttempts     \* mutant
MayRetry(n) == n < MaxAttempts

DiscardKeeps(total, n) == total            \* mutant
discardAttempt(total, n) == Less(total, n)

\* A transport failure or a checksum mismatch: flush, mark the connection
\* stale, discard the attempt, and go on to the next one or give up.
FetchFailsForNow(f) ==
  /\ worker[f] = "transfer"
  /\ staged' = staged \ {f}
  /\ copied' = [copied EXCEPT ![f] = 0]
  /\ reported' = [reported EXCEPT ![f] = 0]
  /\ LET left == discardAttempt(bytes + (copied[f] - reported[f]), copied[f])
     IN \/ /\ MayRetry(attempt[f])
           /\ MoveTo(f, "backoff")
           /\ attempt' = [attempt EXCEPT ![f] = @ + 1]
           /\ bytes' = left
           /\ current' = Reporting(f)
        \/ /\ ~MayRetry(attempt[f])
           /\ Exit(f, "fail", recordFile(count, "failed"), left, Reporting(f))
           /\ UNCHANGED attempt
  /\ UNCHANGED <<workFrame, placed, lateTries>>

SleepDeaf(stopping) == FALSE               \* mutant
sleepRefused(stopping) == stopping

\* sleepFor looks at the context first, and only then starts its timer.
BackoffBegins(f) ==
  /\ worker[f] = "backoff"
  /\ ~sleepRefused(cancelled)
  /\ MoveTo(f, "sleep")
  /\ UNCHANGED <<workFrame, progress, staged, placed, bytes, current, lateTries>>

\* The wait ends with the context error, before or during the sleep.
BackoffCut(f) ==
  /\ \/ worker[f] = "backoff" /\ sleepRefused(cancelled)
     \/ worker[f] = "sleep" /\ cancelled
  /\ Exit(f, "fail", recordFile(count, "failed"), WithoutFailed(bytes, copied[f]), current)
  /\ UNCHANGED <<workFrame, progress, staged, placed, lateTries>>

\* The timer of the backoff fires; when the context is gone as well, the
\* select may take either.
Retry(f) ==
  /\ worker[f] = "sleep"
  /\ MoveTo(f, "transfer")
  /\ CountTry(f)
  /\ UNCHANGED <<workFrame, progress, staged, placed, bytes, current>>

SkipLeavesStaging(f) == staged             \* mutant
Unstaged(f) == staged \ {f}

\* The destination is settled after the transfer, without EXIF folders once
\* more: what came to lie there meanwhile is refused like any other file.
SettleLate(f) ==
  /\ worker[f] = "place"
  /\ \E s \in Settled \ {"ok"} : recordSkipOrFailure(f, s)
  /\ staged' = Unstaged(f)
  /\ UNCHANGED <<workFrame, progress, placed, lateTries>>

\* mkdir or rename fails.
PlaceFails(f) ==
  /\ worker[f] = "place"
  /\ Exit(f, "fail", recordFile(count, "failed"), WithoutFailed(bytes, copied[f]), current)
  /\ staged' = Unstaged(f)
  /\ UNCHANGED <<workFrame, progress, placed, lateTries>>

Place(f) ==
  /\ worker[f] = "place"
  /\ placed' = placed \cup {f}
  /\ staged' = staged \ {f}
  /\ Exit(f, "ok", recordFile(count, "completed"), bytes, current)
  /\ UNCHANGED <<workFrame, progress, lateTries>>

Transfer(f) == Copy(f) \/ FetchOk(f) \/ FetchFailsForGood(f) \/ FetchFailsForNow(f)
Work(f) == \/ SetCurrent(f) \/ SettleEarly(f) \/ FirstTry(f) \/ Transfer(f)
           \/ BackoffBegins(f) \/ BackoffCut(f) \/ Retry(f)
           \/ SettleLate(f) \/ PlaceFails(f) \/ Place(f)

Next == Control \/ Submit \/ \E f \in Files : Work(f)

Safe == Init /\ [][Next]_vars

\* Goroutines that can run do; a transfer yields blocks or fails in the end
\* (the code sets no deadline on one, so this is asked of the network).
Spec == Safe /\ WF_vars(Submit) /\ \A f \in Files : WF_vars(Work(f))

-----------------------------------------------------------------------------
(***************************************************************************)
(* Properties.                                                             *)
(***************************************************************************)
\* The blocks of the files fs, of which there are n[f] in file f.
BlocksOf(fs, n) == UNION {{f} \X (1 .. n[f]) : f \in fs}
Blocks(fs)      == Cardinality(BlocksOf(fs, reported))
Failed          == With("fail") \cup With("refused")

\* The published counters describe the workers, however their steps
\* interleave: every file is in exactly one of them (syncer.go:342-386).
CountersAddUp ==
  /\ count.completed = Cardinality(With("ok"))
  /\ count.skipped = Cardinality(With("skip"))
  /\ count.failed = Cardinality(Failed)
  /\ count.remaining = Cardinality(With("none"))

\* The byte total holds what every file that is in work, placed or skipped
\* has reported, and nothing of a file whose transfer failed: retries,
\* throttled updates and the clamp at zero neither lose nor invent a block.
\* Of a file refused after its transfer it says nothing: the code and its
\* comment disagree about that one (FailedBytesNotCounted).  A batch that
\* completed every file has counted everything, so that the status shows the
\* whole total, unless every file was listed as empty and the total is not
\* known (syncer.go:212-225, 282-330, 342-354; retry.go:165-208).
TotalBytes == Cardinality(BlocksOf(Files, Listed))
Published  == IF TotalBytes > 0 /\ bytes > TotalBytes THEN TotalBytes ELSE bytes
BytesAccounted ==
  /\ bytes \in Blocks(Files \ Failed) .. Blocks(Files \ With("fail"))
  /\ sub = "done" /\ placed = Files /\ TotalBytes > 0 /\ (\A f \in Files : Actual[f] >= Listed[f])
       => Published = TotalBytes

\* The file shown as current is one being worked on: it is never left over
\* from a file that is done, whichever worker spoke last (syncer.go:332-336,
\* 378-386).
CurrentIsRunning == current # 0 => current \in Running

\* What Status publishes of a batch is true at every moment, in any order of
\* the goroutines' updates: the counters, the byte total and the current file
\* (syncer.go:212-225, 321-386).
StatusTrue == CountersAddUp /\ BytesAccounted /\ CurrentIsRunning

\* Every way out of a worker removes its staging file (syncer.go:674-713).
NoStagingLeft == staged \subseteq Running

\* Only files that reached their destination enter the manifest, and when
\* the batch returns all of them have (syncer.go:724-739, 753-771).
RecordedArePlaced == /\ recorded \subseteq placed
                     /\ sub = "done" => recorded = placed

\* The result tells the truth.  Success: every file is there or was skipped.
\* Pause: nothing failed, files are left, and nobody asked to stop.
\* Interruption: files are left because of the shutdown (syncer.go:743-746,
\* 811-846).
ReturnHonest ==
  /\ ret = "nil" => \A f \in Files : outcome[f] \in {"ok", "skip"}
  /\ ret = "failed" => Failed # {}
  /\ ret \in {"paused", "interrupted"} => Failed = {} /\ With("none") # {}
  /\ ret = "interrupted" => cancelled

\* After a pause or a shutdown at most the one file already waiting for a
\* slot is still taken on (syncer.go:614-622).
OneLateStart == lateStarts <= 1

\* After a shutdown no worker begins more than one attempt: the one its
\* backoff timer, or its late start, had already let through (retry.go:
\* 116-136, 156-163).
OneLateTry == \A f \in Files : lateTries[f] <= 1

\* A stop lets no more than that through: one file that waits for a slot, and
\* one attempt of each file (syncer.go:614-622; retry.go:116-163).
StopsInTime == OneLateStart /\ OneLateTry

\* The batch is what Cycle says of it, from the first file it takes on to its
\* return: cut short only by a pause or a shutdown, no success then, a pause
\* only if no shutdown came before the return, and it does return, whatever
\* fails, is paused or is cancelled (syncer.go:614-622, 729-746, 811-846).
Cy == INSTANCE Cycle WITH
        work   <- IF attempted < N /\ sub \in {"wait", "apply", "return", "done"}
                    THEN "cut" ELSE "whole",
        result <- IF ret \in {"failed", "interrupted"} THEN "error" ELSE ret

ImplementsCycle == Cy!Spec

\* "On failure those bytes were written to a temp file that is removed, so
\* they must not count towards completed bytes" (syncer.go:339-341): once no
\* file is in work, the total holds nothing of a file that failed.
FailedBytesNotCounted == Running = {} => bytes = Blocks(Files \ Failed)
=============================================================================
