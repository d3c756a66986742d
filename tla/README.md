# Verification of sftp-sync

TLA+ models of sftp-sync, the TLC configurations that check them on small
instances, and theorems about them that TLAPS proves for every instance. All
line numbers refer to `src/`; `syncer.go`, `retry.go`, `destination.go`,
`verify.go` and `staging.go` are in `internal/syncer`, `client.go` in
`internal/sftp`, `manifest.go` in `internal/state`, `daemon.go` and `api.go` in
`internal/daemon`, `config.go` in `internal/config`, `menu.go`, `refresh.go` and
`daemon_manager.go` in `cmd/sftpsyncbar`, `menubar.go` in `internal/menubar`.

## 1. The system

A daemon (`sftpsyncd`) runs any number of jobs. A job polls one directory of an
SFTP server and downloads what is new into a local directory. A CLI
(`sftpsync`) and a menu bar program (`sftpsyncbar`) control the daemon over a
Unix socket.

### Inventory

| Component | State | Operations | What is hard | What makes it correct |
|---|---|---|---|---|
| Run loop and controls (`syncer.go`) | paused flag, published status, `syncNow` and `pauseCh` (capacity one), timer, context | `Start`, `Pause`, `Resume`, `SyncNow`, `Stop`, `run`, `sync`, `recordCycle` | a control is a flag change and, after an unlock, a channel send; the loop looks at the flag and publishes the phase in separate critical sections | no request lost, no scan on a paused job, no overlap of scans, the phase is honest, `Stop` returns |
| Download batch (`syncer.go`, `retry.go`) | semaphore, one goroutine per file, counters, byte total, current file, staging files | `downloadAll`, `downloadWithRetries`, `sleepFor`, `fileProgress` | workers interleave with each other, with pause and with shutdown; retries take back what was counted, throttling withholds it | counters and bytes add up, every way out cleans up, stops are noticed, the batch returns |
| Destinations, manifest, adoption (`destination.go`, `manifest.go`, `verify.go`) | manifest in memory and on disk, table of claimed and recorded paths | `Walk`, `selectForDownload`, `resolve`, `applyDownloadOutcomes`, `Save`, `Load` | photos change during a cycle, names collide, a crash falls between rename and save, a user works in the same directory | the manifest is truthful, no batch gives two photos one file, nothing foreign is overwritten but where the code takes it for the photo's own, the library converges |
| SFTP connection (`client.go`) | the connection, a stale mark, one mutex | `Connect`, `EnsureConnected`, `ready`, `MarkStale`, `Close` | workers share and replace one connection; a mark arrives late | none leaks, a broken one is not reused, nobody keeps the mutex |
| Staging and free space (`staging.go`, `disk_*.go`) | files named `.sftpsync-*` | `checkSpace`, `pruneStaging` | a batch that does not fit; leftovers of a crash | a refusal downloads nothing, only stale leftovers go |
| Daemon registry and control API (`daemon.go`, `api.go`) | jobs in memory, `registry.json` and its temporary file | add, remove, pause, resume, `saveRegistry`, `loadRegistry` | requests are served concurrently; a save is a snapshot, a truncation, a write and a rename without a lock around them; the daemon dies in between | registry readable, in agreement with memory, durable |
| Daemon process (`cmd/sftpsyncd`, `api.go`) | the process, the socket path | start, serve, shutdown by signal or request | shutdown during a cycle or a save; every start and every end removes the socket path, whoever created it | every job's `Stop` returns, a daemon that serves is reachable, a path left by a dead one stops no start |
| API client and CLI (`apiclient`, `cmd/sftpsync`) | none | one request per command | timeouts | - |
| Menu (`menubar.go`, `menu.go`, `refresh.go`) | job slots, action errors, controls, the refresher and its trigger, rows | `refresh`, `show`, `clear`, click handlers | a slot is drawn after its mutex is released, by the refresher and by handlers; a click may reach a slot whose job changed | a click acts on the job it shows, no refresh is lost, the menu settles on what the daemon has |
| Daemon manager (`daemon_manager.go`) | `m.cmd` | `EnsureRunning`, `Shutdown` | two goroutines may start a daemon at once; a timeout races the daemon's end | quitting ends, and takes the daemon the program started with it |
| Configuration (`config.go`) | none | `Load`, `validate` | options absent, zero or out of range | the ranges the other parts rely on |
| EXIF dates and sizes (`exif`, `humanize`) | none | pure functions | - | - |

### How they interact

The API handlers call the controls of a job's syncer and then save the
registry. The controls reach the run loop through the paused flag, two channels
and a context. The run loop calls `sync`, which has the connection checked,
walks the server, selects files against the manifest and starts a batch. The
workers of the batch use the connection, the destination table and the status;
the run loop applies their outcomes to the manifest and saves it. A pause is
noticed by the batch at its stop check and by the loop at its gate; a shutdown
cancels the context that all of them look at.

The menu bar program polls the daemon's API and draws what it gets; a click is
handled by a goroutine of its own that sends a request and asks for a refresh.
It starts a daemon when none answers, and stops it when the user quits. Daemons
know each other only through the path of the socket.

## 2. The modules

| Module | Models | Checked by | Proved in |
|---|---|---|---|
| `JobControl` | what a job promises those who control it | as a property of `SyncLoop` | `SyncLoopProofs` (safety) |
| `Cycle` | what a cycle promises about its result | as a property of `SyncLoop` and of `Batch` | `SyncLoopProofs`, `BatchProofs` (safety) |
| `SyncLoop` | run loop and controls | `sync_loop` | `SyncLoopProofs` |
| `Config` | what a config file comes to | through `Batch` and `Library` | `ConfigProofs` |
| `Batch` | one download batch | `batch`, `failed_bytes` | `BatchProofs` |
| `Library` | the library over many cycles | `library`, `overwrites` | `LibraryProofs` |
| `Connection` | the shared connection | `connection`, `survives_interruptions` | `ConnectionProofs` |
| `Registry` | daemon, registry, control API | `registry`, `lost_pause`, `skipped_job` | `RegistryProofs` |
| `Daemons` | daemon processes, the socket path, the daemon manager | `daemons` | `DaemonsProofs` |
| `Menu` | the menu's slots, refresher and click handlers | `menu` | `MenuProofs` |

Each `MC<Module>` extends its module with the small values and symmetry sets
the configurations use. A definition marked "mutant" in a module is a broken
variant of its neighbour: putting it in the neighbour's place must make TLC find
a property violated, which shows that the property says something about the
code. No specification uses one.

The cut between the modules follows what the properties need. `SyncLoop` keeps
every step of the loop and of the controls and leaves of a cycle only how it
ends. `Batch` is the inside of one download phase and leaves of a destination
only whether it was granted. `Library` is about paths and contents and lets all
files of a batch be worked on at once, a superset of what the semaphore allows.
`Connection` leaves of a batch only its use of the connection. `Registry` looks
inside one daemon, `Daemons` at daemons from outside, and `Menu` at what the API
shows of one. `Config` is part of `Batch` and `Library`: their settings come from
a config file that `Accepted` admits, not from ranges assumed to hold.

### SyncLoop, JobControl and Cycle

`paused`, `phase`, `syncNow`, `pauseCh` and `cancelled` are the fields of the
syncer; `timer` is the loop's timer; `loop` is its program counter. `Pause` and
`SendPause` are the two halves of `Syncer.Pause`, `Resume` and `SendSync` those
of `Resume`; `TakeCancel`, `TakeTimer`, `TakeSyncNow` and `TakePause` the cases of
the select; `Gate` and `MarkPaused` the check before a cycle, `Recheck`,
`MarkPaused` and `Repoll` what follows it. The cycle is `Begin`, the scan, the
selection, perhaps a batch, and `RecordCycle`. `owed` is a history variable: a
scan was asked for since the last one began.

`JobControl` has no channels and no timer: a scan is admitted only while the job
is not paused, one at a time, an owed scan is admitted in the end, and a
cancelled job ends. `JC` in `SyncLoop` is the refinement mapping.

`Cycle` is the seam between the loop and the batch. It says of one cycle that its
work is cut short only by a pause or a shutdown, that what was cut short is no
success, that it reports a pause only when no shutdown came first, and that it
returns. `SyncLoop` implements it for cycle after cycle with a choice in place of
the batch (`BatchStops`, `BatchOutcomes`); `Batch` implements it with files,
workers and retries. So what the loop is checked and proved against is what a
batch does. `Cy` is the refinement mapping in both: in the loop `stopped` says
that the work was cut, in the batch that the submitting goroutine left its loop
before the last file.

### Batch

`sub` is the submitting goroutine (`Check`, `Acquire`, `Wait`, `Apply`,
`Return`); `worker[f]` the goroutine of file `f`, from `SetCurrent` through
`SettleEarly` (no EXIF folders), `FirstTry`, `Copy` and the three ends of a
transfer, the backoff (`BackoffBegins`, `BackoffCut`, `Retry`), to `SettleLate`
(in every layout: without EXIF folders it is the second look at a destination
that was granted before), `PlaceFails` or `Place`. `copied` and `reported` are the fields of
`fileProgress`; an update that is throttled leaves `reported` behind. `Exit`
stands for the status update, the send on `results` and the release of the slot
at the end of each goroutine. Bytes are counted in blocks. The number of workers
and of attempts, the policy and the layout are what `Loaded` makes of the file
the behavior starts with.

### Config

`Initial` is what `Load` starts from, `Filled` the defaults of `validate`,
`Valid` its refusals; `Accepted` says whether a job can be started with a file.
Zero is no value for attempts and becomes the default, a negative number is
refused; for workers both become the default, as the code does.

### Library

`mem` and `saved` are the manifest in memory and on disk, `disk` the local
directory. A file is its bytes (`Data`), and `Bytes` says what each version of a
photo holds: a hash comparison is equality of bytes, whoever they belong to, so
copies of one photo under two names are adopted onto each other's files as the
code does. All files have the same size, the case in which the size check cannot
tell two apart. `Walk`, `Inspect`, `SaveAdopted`, `BatchBegins`, `BeginFile`,
`Fetch`, `VerifyDownload`, `Settle`, `Place`, `Apply` and `SaveBatch` are a cycle;
`resolve` is the function of that name in `destination.go`. When two entries have
one path, the index of a batch keeps either, as ranging over a Go map does. The
environment changes photos on the server, puts, replaces and deletes local files
wherever the job may look, recorded paths included, makes an operation fail, or
ends the process between any two steps. The user keeps off a path only between
the code's look at it and its rename: no code could notice that, since
`rename(2)` replaces what is there. Three history variables say which paths the
user changed since a photo was put there (`touched`), which were ever recorded for
two photos at once (`shared`, set by `Inspect`), and where a rename replaced bytes
that no version of the photo has (`overwrote`): at a path new to the photo
("new"), or at its recorded one, because the user touched it, because it is
shared, or for neither reason ("own").

### Connection

Connections are numbered as they are dialled. `holder` is who dials and so holds
the mutex; all other uses of the mutex are single steps. `ReadStale` and `Probe`
are `EnsureConnected`, `Ready` and `WorkerDials` are `ready`, `MarkStale` includes
what `downloadWithRetries` does after it. With sha256 a transferred file is read
once more: the worker goes through `ready` again, and `HashRemote` ends the file,
verified or not, without a mark, or finds other bytes, which the retry treats as
a broken transfer, mark included. A dial that fails for good (authentication,
host key) fails the file without a mark or a retry. The hashing of a file to be
adopted is done by the run loop between a walk and its batch, when the
connection is neither stale nor missing, and changes nothing here. An outage
breaks all connections at once. `blamed` is a history variable: connections a user of theirs found broken.

### Registry

A request is served by a goroutine: `Control`, `Act`, `Compare` for pause and
resume, `AddJob` and `RemoveJob`, then the save: `List` (the snapshot of the
jobs, under the lock), one `Read` per job (its flag, read after the lock was
released), `Open` (truncation of the temporary file), `Write`, `Rename`.
`newID` gives a job an ID that none has had (a random one, of four bytes), and `AddJob` refuses a config that
cannot be loaded. `SaveFailed` rolls a pause or a resume back and leaves an added or removed job
as it is, as the code does. `fd` follows an open file through the renames of
others. `Crash` stands for every end of the process; a shutdown saves nothing
either. `Load` refuses a file that cannot be parsed and leaves out a job whose
config cannot be loaded. `promised`, `alone`, `unsaved` and `skipped` are history
variables that say what was answered to whom.

### Menu

`job`, `err` and `enabled` are a slot's fields, `shown` what its rows display:
`StoreSlot` is the part of `show` and `clear` under the mutex, `DrawSlot` the part
after it, and the handlers have the same two halves (`Begin` and `DrawCleared`,
`StoreFailure` and `DrawFailure`). `AskJobs` and `ListJobs` (the request for the
list and its answer, between which anything may change), `TimerFires` and
`Triggered` are the refresher, `trigger` its channel of capacity one, `Now` the send that gives
up when the channel is full. `ClickSlot` and `ClickMenu` are clicks on rows as
they are displayed; `Resolve` is the look at the slot when the click arrives,
`RequestJob`, `RunCommand` and the others what the handler asks of the daemon or
of the system, with the failures and timeouts of the client. `owed` (a refresh was
asked for), `late` (slots drawn last by a handler that asks for none) and a
handler's `aim` and `calm` (the job whose row was clicked, and whether the slot
had it by then) are history variables.

### Daemons

`main` is where each process of `sftpsyncd` is, `ends` how far its shutdown went,
`socket` the process whose socket is at the path. `ClearSocket`, `Listen` and
`Chmod` are the start of `ServeAPI`; `StopJobs`, `Close` and `RemoveSocket` its
end, which removes the path twice. `cmd` is `m.cmd`; `Ping`, `Assign`, `StartCmd`
and `Waited` are `EnsureRunning`, which the goroutine of `onReady` and the handler
of Start Daemon may run at once; `CheckOwned` to `Exit` are `onExit` and
`Shutdown`. `m.cmd.Process` is nil until the command is
started: a goroutine that looks through it after another one replaced `m.cmd`
panics, which ends the program (`Panics`), in `Waited` after a ping that was
answered and in `TimesOut`. Others start, stop, signal and kill daemons too. `overlap` (two
daemons lived at once) and `calm` (no start was under way when the user quit) are
history variables.

## 3. The runs

Seven runs pass. TLC explores each to the end.

| Run | Instance | Question |
|---|---|---|
| `sync_loop` | two callers | Can any interleaving of two control calls with the loop lose a request, strand the loop or leave a phase that is no longer true? Are pauses shown and stops answered? Can a partial scan be a success? Does the loop implement `JobControl`, so that requests are served, and `Cycle`? |
| `batch` | three files, the first bigger than listed; any of six config files: two workers and two attempts with and without EXIF folders, defaults, and three that `Load` refuses | Do counters, bytes, manifest and result describe what the workers did? How late can a stop be noticed? Is every staging file removed, and does the batch return? Does it implement `Cycle`? |
| `library` | two photos under sha256 that start as copies of each other: one named like the other's suffixed form, or both wanting the same dated path; a file or a copy anywhere; a fault and a crash, or a user's action | Where can a rename replace other bytes? Is the manifest truthful at every moment, and does it never go back? Do two photos come to share a path by adoption only? Does the library converge? |
| `connection` | three workers, two attempts, two faults (outages, damaged transfers), any number of refusals | Can a connection leak, a broken one be reused, a walk start on a marked one? Does every batch end? |
| `registry` | three jobs, one client at a time, two failing saves, two ends of the process, two config changes | Does the registry agree with memory, can it be read, and is what was answered durable? |
| `menu` | one slot, two jobs or none, two handlers, one change by others or one fault | Is a refresh ever lost? Does a control act on the job that was clicked? Can a control stay disabled with nobody to enable it? Does the menu show what was fetched, and settle on what the daemon has? |
| `daemons` | three processes, two calls of `EnsureRunning`; one daemon started and one ended by others, or two ended | Is a daemon that met no other reachable while it serves? Does quitting end, and end the daemon? Is the daemon the program started over once it has waited for it? |

`Agrees`, `Durable` and `Honoured` make an exception of two kinds of job, because
the code does: one whose own add or remove could not be saved (the answer said
so), and one a start left out because of its config. What becomes of the latter
is the run `skipped_job`.

### Disagreements between code and documentation

Five runs end in a violation of what the documentation or a comment says.

- `failed_bytes`: "on failure those bytes were written to a temp file that is
  removed, so they must not count towards completed bytes" (syncer.go:339-341,
  tested for failed renames in syncer_test.go:267-291). The collision policy
  refuses a file whose destination was taken during its transfer;
  `recordSkipOrFailure` (syncer.go:359-367) then records a failure with zero
  bytes, and the total keeps the file's. `StatusTrue`, in `batch`, says what holds
  of the total beside that: it has all that files in work, placed or skipped
  reported, and nothing of a transfer that failed.
- `overwrites`: "The file already at this path is the one this remote file wrote
  last time, so it is not a collision" (destination.go:78-80) and "No policy
  overwrites an unrelated local file" (README.md:250). `adoptable`
  (verify.go:34-77) compares contents, and `selectForDownload`
  (syncer.go:583-596) does not ask for whom a file is recorded. A photo `a` is
  renamed to `a-2` for a collision; a copy of it called `a-2` appears on the
  server and is adopted onto that file; both entries now have one path. When the
  first photo changes it is updated there, and when the second changes, its
  update replaces the first one's current version, which the manifest goes on
  calling up to date. `OverwritesExplained`, `OnePathEach` and `ManifestTruthful`
  say that nothing but this, and a user's own changes, leads there.
- `survives_interruptions`: "Three attempts survives a brief interruption"
  (config.go:128). `MarkStale` (client.go:136-140) marks whatever connection is
  installed by the time it has the mutex. Two workers lose the same connection;
  one replaces it; the other's late mark condemns the replacement; the next
  `ready` closes it under its user, whose mark condemns the next one. One outage
  can use up all attempts of a file.
- `lost_pause`: "a paused job stays paused across a daemon restart"
  (README.md:110-111). Two requests save at once (daemon.go:234-258); the one
  with the older snapshot renames last.
- `skipped_job`: "Jobs persist across daemon restarts" (README.md:8). A job whose
  config could not be loaded at start is left out of memory (daemon.go:202-207),
  and the next save of any other job writes the registry without it.

Further behaviour of this kind that reading the code shows, and that no run
checks:

- A token left in `pauseCh` by a pause that was resumed during a cycle makes the
  loop scan once more (syncer.go:443), although "pauseCh wakes the run loop so it
  can reflect the paused state" (syncer.go:75-76).
- "Shutdown and `sftpsync pause` interrupt a retry wait immediately"
  (README.md:218), but `sleepFor` (retry.go:119-136) waits for the timer and the
  context; a pause touches neither, so the wait runs to its end and the next
  attempt is made on a paused job.
- With `verify: size`, the default, a file of the right size at a photo's path is
  adopted whatever it holds (verify.go:49-57), and overwritten when the photo
  changes. This is why the properties of `Library` speak of sha256, or except
  "own" under size.
- A file the user puts in the place of a recorded photo is overwritten by the
  photo's next update: a recorded path is trusted without a look at the disk
  (destination.go:77-86). `OverwritesExplained` allows it as "touched".
- The stop check comes before the wait for a slot and is not repeated
  (syncer.go:615-621), so one file is still taken on after a pause:
  `StopsInTime` states the bound, the comment at syncer.go:112-114 says none.
- A crash between a rename and the manifest's save makes the next run download
  the photo again; with EXIF folders its dated path is then taken, and it ends up
  in the library twice, since adoption looks only at the path without a date.
- A cycle cut short by a shutdown counts as a success (syncer.go:556, 566-572).
- Two saves that overlap share `registry.json.tmp`: one may truncate it before
  the other renames it, which leaves a torn registry, and a pause may be rolled
  back in memory after another request's save has written it (api.go:103-114).
  Until then other requests see the pause.
- A worker that replaces a stale connection closes it while other workers'
  transfers run on it (client.go:163).
- A handler that is still at work when its slot is cleared draws its rows again,
  until the next refresh.
- A click acts on the job the slot has when the click arrives (menu.go:25-26),
  not when its row was drawn: a refresh that stores between the two makes it act
  on another job. `ActsOnClicked` makes exactly this exception.
- Reveal and Copy Error draw their slot without asking for a refresh, so that
  an older view may stay until the next poll, which on an idle daemon comes after
  thirty seconds (menubar.go:19-20 bounds staleness by two). Copy Error copies
  the error the slot has by then.
- The controls are disabled "so a double click cannot start a second request"
  (menu.go:161-162), but by the handler's own goroutine (menu.go:419-431): until
  it runs, a second click is forwarded and starts a second handler, and the first
  of the two to finish enables the controls again.
- "A failure is shown in the job's own section" (menu.go:428-429), but
  `setActionError` stores it in the slot and draws it with the job the slot holds
  by then, and `show` keeps it (menu.go:82-90, 146-153): when the list shifts, it
  appears with another job.
- A daemon that starts removes the socket of one that runs (api.go:20-22), and
  one that ends removes that of its successor: the other serves on, unreachable.
  A `Chmod` that finds the path gone makes the start fail, and the `Close` that
  follows removes whatever is at the path by then.
- Two calls of `EnsureRunning`, or one whose three seconds ran out on a slow
  restore, start two daemons; the program forgets the first, although "Shutdown
  stops the daemon if this app started it" (daemon_manager.go:70). The request
  it sends at quit stops whichever daemon answers. One of two calls may find
  `m.cmd` replaced by the other and not started: its look at
  `m.cmd.Process.Pid` (daemon_manager.go:63), or the kill at quit
  (daemon_manager.go:87), panics. A start that is under way at
  quit may leave a daemon behind; `QuitStops` excludes it.

### Bounds, and why they are enough

- Two callers in `sync_loop`: every race of the controls is between the two
  halves of one call, a second call and the loop; the theorems cover any number
  of callers.
- Three files with two workers make one file wait for a slot; two attempts are
  one retry; a second block makes a throttled update and a file bigger than
  listed possible. The config files cover the layouts and the policies that
  differ in `Batch`, an absent and a zero number, and three ways to be refused.
- Two photos make every collision: with a claim of the same batch, with a
  recorded path, with a file on disk, with a copy of the other. They start with
  the same bytes and go different ways (`MCBytes`), since copies that stay equal
  overwrite each other with no harm. The user brings a foreign file or the copy
  (`MCBrought`); at the start it lies where a photo should go (`Wanted`), later
  anywhere a candidate may be (`Looked`). Two versions make an update; one crash is
  enough because a restart returns to a state that differs from the first only in
  the disk and the manifest, which are arbitrary by then. `MCPaths` has enough
  suffixes that a name never runs out, as the code, which tries a thousand, has.
- Three workers allow a mark, a dial and a transfer at the same time. `MaxConns`
  is larger than what two faults can make the client dial: it is never reached,
  and had it run out, `TransfersEnd` would fail.
- Three jobs are one that a request is about, one whose save failed and one whose
  config broke. Requests are served one at a time in `registry`, since
  overlapping saves break its properties: `lost_pause` shows how.
- One slot over two jobs has a list that shifts and a row for further jobs; two
  handlers and the refresher race for its drawing. The theorems cover any number
  of each.
- Three processes let a daemon meet its predecessor's and its successor's use
  of the path; the theorems cover any number.

`CHECK_DEADLOCK FALSE` is set where the system may stop: a job that has ended,
a budget of outages or job IDs that is spent, a program that was quit. In `Batch`
a batch that has returned goes on with pauses and resumes only.

### Fairness

The Go runtime runs every goroutine that can run: weak fairness of the loop, of
each worker, of the submitting goroutine and of the second half of a control.
A `select` picks among its ready cases at random: strong fairness of each
receive. A dial, a transfer and a scan are assumed to end, by success or failure;
the code sets a deadline on the TCP connect only (client.go:87), not on the SSH
handshake after it, so this is a property asked of TCP. No fairness is assumed of users, outages, crashes or failures, nor that a batch
notices a pause before it is over. In `Library` a cycle goes on as long as it
can and a daemon that died is started again. In `Menu` the refresher and every
handler go on: the client gives each request ten seconds, and the timer fires.
In `Daemons` only `onExit` is fair: its request and its wait have deadlines, and
the daemon itself has to do nothing.

## 4. The proofs

TLAPS proves the following for every value of the constants, from the named
assumptions of the modules only.

`SyncLoopProofs` (no assumption; any set of callers):
- `TypeCorrect`: `TypeOK`.
- `NoRequestLost`: `RequestKept`. The invariant is inductive with `TypeOK` once it
  says of each place of the loop whether a request that arrived there is still
  to be noticed.
- `NeverStranded`, `PhaseStaysHonest`: `NotStranded` and `PhaseHonest`. Neither is
  inductive, because the step that reaches the select was decided earlier, where
  a control could still slip in; `WaitInv` and `ShownInv` say of each such point
  that the control left a wake-up behind.
- `PartialNeverSucceeds`: `PartialIsNoSuccess`. What the walk missed is weighed
  once, when the outcome is decided; the invariant carries it to the recording.
- `Implementation`: every step is a step of `JobControl` or changes none of its
  variables. The liveness half of the refinement is checked by TLC.
- `CyclesImplemented`: the same for `Cycle`. A result other than an error appears
  only where the loop's `stopped` agrees with it.

`ConnectionProofs` (`ConnectionAssumption`: "loop" and "nobody" are no workers,
bounds are natural numbers):
- `TypeCorrect`, and `Exclusive`: the mutex is held by whoever dials, with no
  connection installed, and no worker is in the client outside a batch.
- `NothingLeaks`, `BrokenNeverReused`: `NoLeak` and `MarkHeeded`, from one inductive
  invariant, `ConnInv`. Dialling installs a number that nobody can have blamed,
  because blamed connections were dialled before; closing leaves nothing open
  because the installed connection was the only one; and the mark
  `EnsureConnected` read is still true when it acts on it, because only workers
  of a batch set it.

`ConfigProofs` (no assumption): `AcceptedIsSound`: a file that `Load` accepts gives
`Settings`, the ranges `Batch` and `Library` use.

`BatchProofs` (`BatchAssumption`: at least one file, sizes that are natural
numbers, config files that yaml can decode; the ranges of workers and attempts
come from `AcceptedIsSound`):
- `TypeCorrect`: `TypeOK`. `Shape`, the part of `TypeOK` that needs no counting, is
  inductive with `Reported` (no file reports more than it copied); `CountInv` adds
  that the semaphore holds a token per running goroutine and that the counters
  add up.
- `Flows` says which goroutines there are: the files up to `attempted`, save the
  one that waits for a slot; none once the submitting goroutine has waited. The
  theorems below rest on it.
- `RecordedPlaced`, `ReturnsHonest`: `RecordedArePlaced` and `ReturnHonest`. After
  the wait no outcome can change, so what is recorded and returned stays true.
- `NothingStagedLeft`: `NoStagingLeft`, since only a file in transfer or about to
  be placed has a staging file.
- `StopsTakeEffect`: `StopsInTime`. A file that waits for its slot has not been
  counted yet, and the check after it stops the batch; a goroutine that may still
  begin an attempt has begun none since the shutdown.
- `StatusIsTrue`: `StatusTrue`, in three lemmas, for any number of files of any
  size. `CountersRight`: the clamp of `Remaining` at zero is never reached, because
  the file that ends is still among those with no outcome. `BytesRight`: the total
  is the number of blocks, a set of pairs of a file and a position, so that what
  one file reports or takes back changes its own blocks only and no induction over
  a sum is needed. `BytesInv` adds that a file waiting to retry has nothing copied,
  and that one about to be placed has reported all of it: throttling cannot
  withhold the last block, and the clamp of the bytes is never reached either.
  `CurrentRuns`: the file that ends clears its name.
- `Implementation`: every step of a batch is a step of `Cycle` or changes none of
  its variables, by `Flow` and by what `ReturnHonest` says of each result.

`LibraryProofs` (`LibraryAssumption`: photos have different paths on the server and so
different undated ones, the candidates of a path begin with it, config files
are well-formed; any photos, paths and names):
- `TypeCorrect`, `SavedNeverRegresses`: from `BaseInv`, which adds to the types
  that the manifest in memory is never behind the one on disk nor ahead of what
  the walk listed (`Forward`), and what each stage of a cycle may hold (`Underway`,
  `Resting`). So neither an update nor a save can go back.
- `OnlyAdoptionShares`: `OnePathEach`, for any contents, policy, layout and way of
  verifying, from `OwnInv`: two photos recorded at one path share it
  (`Distinct`), one that shares none keeps its path (`Kept`), nobody claims what is
  recorded for another photo alone (`Claims`), the table of a batch knows every
  recorded path (`Indexed`), and a path about to be renamed onto is the photo's
  own or free (`Settled`). `Resolved` is the lemma on `resolve`: what it returns is
  the recorded path or the first candidate that is free.
- `ManifestAlwaysTrue`, `OverwritesAreExplained`: `ManifestTruthful` and
  `OverwritesExplained`. To `OwnInv` they add `Held`, for sha256: a recorded path
  that is neither shared nor touched holds its photo, at least as new as
  recorded. The invariants need each other: only a path that is one photo's
  alone keeps what it holds, and only a truthful manifest makes the renames onto
  recorded paths harmless. That no new path is overwritten needs no hash.

`RegistryProofs` (`RegistryAssumption`: the bounds are natural numbers):
- `TypeCorrect`: for any number of requests at a time; no new job gets the ID of
  one that a start left out.
- `RegistryAgrees`, `AnswersDurable`, `AnswersHonoured`: for any number of jobs,
  failures and restarts, and one request at a time (`OneClient`). `OneInv` follows
  the one request: what its snapshot has read so far, what the temporary file
  holds, and that the registry differs from memory only in what the request
  changes. The assumption is needed: with two requests at once, `lost_pause`
  violates what `Durable` says.

`DaemonsProofs` (`DaemonsAssumption`: the bounds are natural numbers):
- `TypeCorrect`: in particular nothing is looked up through a nil `m.cmd`. A nil
  `m.cmd.Process` is met, as the model shows, and ends the program.
- `AloneAtThePath`: `AloneServes`. As long as no two daemons lived at once, at most
  one lives now, and the path belongs to it from `Listen` on (`AloneInv`); what a
  dead one left is removed before.
- `QuitLeavesNone`: `OwnedIsStopped`, if no start was under way when the user quit.
  `QuitInv` says that from `CheckOwned` on nobody assigns `m.cmd`, so that the
  process waited for, the one killed and the one asked about are the same, and
  that each way out of the wait leaves it dead.

`MenuProofs` (`MenuAssumption`: at least one slot, lists of jobs):
- `TypeCorrect`: `TypeOK`, which says what every handler goroutine may hold at each
  of its places and that the refresher goes through existing slots only.
- `ControlsComeBack`: `DisabledIsBusy`. Only a handler that will enable the row
  disables it, and it passes the duty on from step to step until it has done so;
  another handler that enables the row early leaves nothing disabled.
- `NoRefreshLost`: `RefreshKept`, inductive as it stands.
- `ClicksHitTheirJob`: `ActsOnClicked`. `ClickInv` adds that the slot of a click which
  no refresh has overtaken still holds the job that was clicked.
- `MenuShowsFetched`: `ShowsFetched`. `ShowInv` says at every moment which slots can
  be trusted: those the refresher is done with, and that no handler is about to
  draw or has drawn before asking for a refresh. Every step of a handler spares
  them (`Spares`), or leaves a token in the trigger.

Every invariant and every step property that a passing run checks is proved.
Only model-checked is liveness, which needs fairness and ENABLED, beyond the
prover: `PauseSettles`, `StopEnds`, `TransfersEnd`, `Converges`, `Settles`,
`QuitStops`, and the liveness halves of `ImplementsJobControl` (requests are served,
a cancelled job ends) and `ImplementsCycle` (cycles and batches return). What TLC finds violated in the other
runs is a behaviour, which needs no proof. What is said of `Library` under
`sha256` rests on equality of contents standing for equality of hashes.

## 5. Not modelled

- Authentication, host keys, the paging of a walk, the wire: I/O that decides
  nothing the properties speak of. What a walk returns is a choice.
- `pruneStaging`: it removes files older than a day when a job starts, which no
  other part reads. `retryDelay`: the models wait for any length of time.
- The menu's notice row and Open Daemon Log, which no other step reads; how
  percentages, times and names are rendered; how long the poll interval is.
- Parsing of arguments and printing in the CLI, `humanize`, EXIF parsing: pure
  functions on text or bytes. The date of a photo is a constant of `Library`.
- Idle connections that reach a daemon whose path was removed are in `Daemons`
  for the menu bar program only; that `main` may return while `srv.Shutdown`
  still drains is left out, since requests have no part in it.
- A user who creates a file between the look at a path and the rename onto it,
  and two jobs with the same local path: the code has nothing that could notice.
