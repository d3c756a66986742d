----------------------------- MODULE Registry -----------------------------
(***************************************************************************)
(* The daemon's jobs and the registry file that outlives it                *)
(* (internal/daemon/daemon.go, api.go): the control requests of its        *)
(* clients, each served by a goroutine of its own, and saveRegistry, which *)
(* every one of them calls without a lock around the snapshot, the         *)
(* temporary file and the rename.                                          *)
(*                                                                         *)
(* The two files are modelled down to their inodes: a writer that has the  *)
(* temporary file open keeps writing to it after somebody renamed it.      *)
(* What a job does when it runs is SyncLoop's subject.                     *)
(*                                                                         *)
(* A definition marked "mutant" is a broken variant of the definition after *)
(* it, kept to confirm that a property notices the bug; Next uses none.    *)
(***************************************************************************)
EXTENDS Naturals, FiniteSets

CONSTANTS Jobs,         \* job IDs; newID never gives one out twice
          Callers,      \* clients with a request each
          MaxFaults, MaxCrashes, MaxChanges    \* bounds of the model

ASSUME RegistryAssumption == {MaxFaults, MaxCrashes, MaxChanges} \subseteq Nat

VARIABLES up,        \* the daemon runs
          jobs,      \* keys of Daemon.jobs
          paused,    \* the paused flag of each job's syncer
          used,      \* IDs given out so far
          reg, tmp,  \* registry.json and registry.json.tmp
          pc, req,   \* where each request is, and what it asks
          listed,    \* jobs a save has yet to look at
          seen,      \* entries a save has gathered
          fd,        \* which file a save has open, followed through renames
          broken,    \* jobs whose config file cannot be loaded
          skipped,   \* history: jobs a start left out for that reason
          promised,  \* history: what the last answer said of each job
          alone,     \* history: no other request for its job overlapped this one
          unsaved,   \* history: jobs added or removed without being saved
          budget     \* faults, crashes and config changes still to come

requests == <<pc, req, alone>>
saving   == <<listed, seen, fd>>
config   == <<broken, skipped>>
memory   == <<up, jobs, paused, used>>
vars == <<memory, reg, tmp, requests, saving, config, promised, unsaved, budget>>

Entries == [Jobs -> {"absent", "active", "paused"}]
NoEntry == [j \in Jobs |-> "absent"]
Kinds   == {"pause", "resume", "add", "remove"}
NoRequest == [kind |-> "none"]

\* The contents of a file; only a whole one has entries that can be read.
File(how, entries) == [how |-> how, entries |-> entries]
Missing == File("missing", NoEntry)
Empty   == File("empty", NoEntry)
Torn    == File("torn", NoEntry)
FileContents == {Missing, Empty, Torn} \cup {File("whole", e) : e \in Entries}
PCs     == {"idle", "act", "compare", "list", "read", "write", "rename", "failed"}

\* Every variable keeps to the values the code can give it.
TypeOK ==
  /\ up \in BOOLEAN
  /\ jobs \subseteq used
  /\ used \subseteq Jobs
  /\ paused \in [Jobs -> BOOLEAN]
  /\ reg \in FileContents
  /\ tmp \in FileContents
  /\ pc \in [Callers -> PCs]
  /\ req \in [Callers -> [kind : Kinds, job : Jobs, prev : BOOLEAN] \cup {NoRequest}]
  /\ listed \in [Callers -> SUBSET Jobs]
  /\ seen \in [Callers -> Entries]
  /\ fd \in [Callers -> {"none", "tmp", "reg", "lost"}]
  /\ broken \subseteq Jobs
  /\ skipped \subseteq used \ jobs
  /\ promised \in [Jobs -> {"none", "absent", "active", "paused"}]
  /\ alone \in [Callers -> BOOLEAN]
  /\ unsaved \subseteq Jobs
  /\ budget \in [faults : 0 .. MaxFaults, crashes : 0 .. MaxCrashes, changes : 0 .. MaxChanges]

Init == /\ up = TRUE
        /\ jobs = {}
        /\ used = {}
        /\ paused = [j \in Jobs |-> FALSE]
        /\ reg = Missing
        /\ tmp = Missing
        /\ pc = [c \in Callers |-> "idle"]
        /\ req = [c \in Callers |-> NoRequest]
        /\ listed = [c \in Callers |-> {}]
        /\ seen = [c \in Callers |-> NoEntry]
        /\ fd = [c \in Callers |-> "none"]
        /\ broken = {}
        /\ skipped = {}
        /\ promised = [j \in Jobs |-> "none"]
        /\ alone = [c \in Callers |-> TRUE]
        /\ unsaved = {}
        /\ budget = [faults |-> MaxFaults, crashes |-> MaxCrashes, changes |-> MaxChanges]

Busy(j) == {c \in Callers : pc[c] # "idle" /\ req[c].job = j}
Fault   == budget.faults > 0 /\ budget' = [budget EXCEPT !.faults = @ - 1]
Fine    == UNCHANGED budget
Goto(c, place) == pc' = [pc EXCEPT ![c] = place]

-----------------------------------------------------------------------------
\* A request comes in.  One for an unknown job is refused and changes nothing.

Receive(c, kind, j, prev, place) ==
  /\ up
  /\ pc[c] = "idle"
  /\ Goto(c, place)
  /\ req' = [req EXCEPT ![c] = [kind |-> kind, job |-> j, prev |-> prev]]
  /\ alone' = [d \in Callers |-> IF d = c THEN Busy(j) = {}
                                 ELSE alone[d] /\ d \notin Busy(j)]
  /\ UNCHANGED <<reg, tmp, saving, config, promised, budget>>

\* jobControl finds the job and reads its paused state before it acts.
Control(c, j) ==
  /\ j \in jobs
  /\ \E kind \in {"pause", "resume"} : Receive(c, kind, j, paused[j], "act")
  /\ UNCHANGED <<memory, unsaved>>

ReusedID == Jobs \ jobs   \* mutant
newID    == Jobs \ used

\* AddJob loads the config, starts the job and enters it; the save comes after.
AddJob(c, j) ==
  /\ j \in newID \ broken
  /\ Receive(c, "add", j, FALSE, "list")
  /\ used' = used \cup {j}
  /\ jobs' = jobs \cup {j}
  /\ unsaved' = unsaved \cup {j}
  /\ UNCHANGED <<up, paused>>

RemoveJob(c, j) ==
  /\ j \in jobs
  /\ Receive(c, "remove", j, FALSE, "list")
  /\ jobs' = jobs \ {j}
  /\ unsaved' = unsaved \cup {j}
  /\ UNCHANGED <<up, paused, used>>

Wanted(kind) == CASE kind = "pause" -> "paused"
                  [] kind = "remove" -> "absent"
                  [] OTHER -> "active"

\* The answer: what a success says of the job holds from then on, unless the
\* outcome depends on a request that overlapped this one.
Answer(c, ok) ==
  /\ Goto(c, "idle")
  /\ promised' = [promised EXCEPT ![req[c].job] =
                    IF ~alone[c] THEN "none"
                    ELSE IF ok THEN Wanted(req[c].kind)
                    ELSE IF req[c].kind \in {"add", "remove"} THEN "none" ELSE @]
  /\ req' = [req EXCEPT ![c] = NoRequest]
  /\ alone' = [alone EXCEPT ![c] = TRUE]

\* Pause or Resume of the syncer.
Act(c) ==
  /\ pc[c] = "act"
  /\ paused' = [paused EXCEPT ![req[c].job] = (req[c].kind = "pause")]
  /\ Goto(c, "compare")
  /\ UNCHANGED <<up, jobs, used, reg, tmp, req, alone, saving, config, promised, unsaved, budget>>

MustSave(now, prev)   == now # prev

\* An idempotent call needs no write, and promises nothing of a job that was
\* never saved.
Compare(c) ==
  /\ pc[c] = "compare"
  /\ IF MustSave(paused[req[c].job], req[c].prev)
       THEN Goto(c, "list") /\ UNCHANGED <<req, alone, promised>>
       ELSE Answer(c, req[c].job \notin unsaved)
  /\ UNCHANGED <<memory, reg, tmp, saving, config, unsaved, budget>>

-----------------------------------------------------------------------------
\* saveRegistry.

\* The jobs are listed under the lock; their flags are read after it.
List(c) ==
  /\ pc[c] = "list"
  /\ listed' = [listed EXCEPT ![c] = jobs]
  /\ seen' = [seen EXCEPT ![c] = NoEntry]
  /\ Goto(c, "read")
  /\ UNCHANGED <<memory, reg, tmp, req, alone, fd, config, promised, unsaved, budget>>

EntryWithoutPaused(isPaused) == "active"    \* mutant
newRegistryEntry(isPaused)   == IF isPaused THEN "paused" ELSE "active"

Read(c, j) ==
  /\ pc[c] = "read"
  /\ j \in listed[c]
  /\ listed' = [listed EXCEPT ![c] = @ \ {j}]
  /\ seen' = [seen EXCEPT ![c][j] = newRegistryEntry(paused[j])]
  /\ UNCHANGED <<memory, reg, tmp, requests, fd, config, promised, unsaved, budget>>

OpenTmp(c) ==
  /\ tmp' = Empty
  /\ fd' = [fd EXCEPT ![c] = "tmp"]
  /\ UNCHANGED reg

\* os.WriteFile truncates the file, and then writes it.
Open(c) ==
  /\ pc[c] = "read"
  /\ listed[c] = {}
  /\ \/ OpenTmp(c) /\ Goto(c, "write") /\ Fine
     \/ Goto(c, "failed") /\ Fault /\ UNCHANGED <<reg, tmp, fd>>
  /\ UNCHANGED <<memory, req, alone, listed, seen, config, promised, unsaved>>

\* Config paths are taken to be equally long: a job is so many characters,
\* and "paused": true some more.
Size(entries) == 2 * Cardinality({j \in Jobs : entries[j] # "absent"})
                 + Cardinality({j \in Jobs : entries[j] = "paused"})

\* Entries written from the start of a file that another writer filled.
Overlay(old, new) ==
  IF old = Empty \/ (old.how = "whole" /\ Size(new) >= Size(old.entries))
    THEN File("whole", new)
    ELSE Torn

\* The write goes where the open file is now.
Into(c, onTmp, onReg) ==
  /\ tmp' = IF fd[c] = "tmp" THEN onTmp ELSE tmp
  /\ reg' = IF fd[c] = "reg" THEN onReg ELSE reg

Write(c) ==
  /\ pc[c] = "write"
  /\ \/ Into(c, Overlay(tmp, seen[c]), Overlay(reg, seen[c])) /\ Goto(c, "rename") /\ Fine
     \/ Into(c, Torn, Torn) /\ Goto(c, "failed") /\ Fault
  /\ fd' = [fd EXCEPT ![c] = "none"]
  /\ UNCHANGED <<memory, req, alone, listed, seen, config, promised, unsaved>>

\* The rename takes whatever the temporary file is by now; there may be none.
Rename(c) ==
  /\ pc[c] = "rename"
  /\ \/ /\ tmp # Missing
        /\ reg' = tmp
        /\ tmp' = Missing
        /\ fd' = [d \in Callers |-> CASE fd[d] = "tmp" -> "reg"
                                      [] fd[d] = "reg" -> "lost"
                                      [] OTHER -> fd[d]]
        /\ unsaved' = {}
        /\ Answer(c, TRUE)
        /\ Fine
     \/ /\ Goto(c, "failed")
        /\ IF tmp = Missing THEN Fine ELSE Fault
        /\ UNCHANGED <<reg, tmp, fd, req, alone, promised, unsaved>>
  /\ UNCHANGED <<memory, listed, seen, config>>

KeepsPaused(now, prev) == now         \* mutant
rolledBack(now, prev)  == prev

\* A pause or resume that was not saved is taken back; an added job stays, and
\* a removed one stays away.  The caller is told of the failure.
SaveFailed(c) ==
  /\ pc[c] = "failed"
  /\ paused' = IF req[c].kind \in {"pause", "resume"}
                 THEN [paused EXCEPT ![req[c].job] = rolledBack(@, req[c].prev)]
                 ELSE paused
  /\ Answer(c, FALSE)
  /\ UNCHANGED <<up, jobs, used, reg, tmp, saving, config, unsaved, budget>>

-----------------------------------------------------------------------------
\* The end of the process, by a shutdown or a crash: the requests being served
\* die with it.  What was promised of their jobs no longer counts.
Crash ==
  /\ up
  /\ budget.crashes > 0
  /\ budget' = [budget EXCEPT !.crashes = @ - 1]
  /\ up' = FALSE
  /\ jobs' = {}
  /\ paused' = [j \in Jobs |-> FALSE]
  /\ pc' = [c \in Callers |-> "idle"]
  /\ req' = [c \in Callers |-> NoRequest]
  /\ alone' = [c \in Callers |-> TRUE]
  /\ listed' = [c \in Callers |-> {}]
  /\ seen' = [c \in Callers |-> NoEntry]
  /\ fd' = [c \in Callers |-> "none"]
  /\ promised' = [j \in Jobs |-> IF Busy(j) = {} THEN promised[j] ELSE "none"]
  /\ UNCHANGED <<used, reg, tmp, config, unsaved>>

LoadsAsActive(entry) == FALSE         \* mutant
LoadedPaused(entry)  == entry = "paused"

\* loadRegistry.  A file that cannot be parsed keeps the daemon from starting;
\* a job whose config cannot be loaded is left out.
Load ==
  /\ ~up
  /\ reg.how \in {"missing", "whole"}
  /\ up' = TRUE
  /\ jobs' = {j \in Jobs \ broken : reg.entries[j] # "absent"}
  /\ paused' = [j \in Jobs |-> j \notin broken /\ LoadedPaused(reg.entries[j])]
  /\ unsaved' = {}
  /\ skipped' = (skipped \cup {j \in broken : reg.entries[j] # "absent"}) \ jobs'
  /\ UNCHANGED <<used, reg, tmp, requests, saving, broken, promised, budget>>

\* The user's config file of a job goes away and comes back.
ConfigChanges(j) ==
  /\ budget.changes > 0
  /\ budget' = [budget EXCEPT !.changes = @ - 1]
  /\ broken' = IF j \in broken THEN broken \ {j} ELSE broken \cup {j}
  /\ UNCHANGED <<memory, reg, tmp, requests, saving, skipped, promised, unsaved>>

Save(c) == List(c) \/ (\E j \in Jobs : Read(c, j)) \/ Open(c) \/ Write(c) \/ Rename(c)
Serve(c) == Act(c) \/ Compare(c) \/ Save(c) \/ SaveFailed(c)
Ask(c)   == \E j \in Jobs : Control(c, j) \/ AddJob(c, j) \/ RemoveJob(c, j)

Next == \/ \E c \in Callers : Ask(c) \/ Serve(c)
        \/ Crash \/ Load
        \/ \E j \in Jobs : ConfigChanges(j)

Spec == Init /\ [][Next]_vars

-----------------------------------------------------------------------------
(***************************************************************************)
(* Properties.                                                             *)
(***************************************************************************)

\* What the registry says of a job.
Entry(j) == IF reg.how \in {"missing", "whole"} THEN reg.entries[j] ELSE "unreadable"

\* What the daemon says of it.
Says(j) == IF j \notin jobs THEN "absent" ELSE IF paused[j] THEN "paused" ELSE "active"

\* Whatever is interrupted, the registry file can be read by the next start
\* (daemon.go:193-200, 253-257; cmd/sftpsyncd/main.go:14-16).
Readable == reg.how \in {"missing", "whole"}

\* "The runtime state must not disagree with the registry" (registry_test.go:
\* 152): with no request under way, the registry says of every job what the
\* daemon says, save of those whose own save failed and those a start left out
\* (daemon.go:94-113, 202-207; api.go:85-116).
Agrees ==
  up /\ (\A c \in Callers : pc[c] = "idle") =>
    \A j \in Jobs \ (unsaved \cup skipped) : Entry(j) = Says(j)

\* What was said of j is not being changed by a request under way.
Promised(j) == Busy(j) = {} /\ promised[j] # "none"

\* "A changed paused state must be durable, so a job comes back after a
\* restart in the state the user asked for" (api.go:99-101): what a request
\* was answered stays so on disk, in a file the next start can read, through
\* crashes and the failures of later requests, until somebody asks for
\* something else.
Durable == Readable /\ \A j \in Jobs \ skipped : Promised(j) => Entry(j) = promised[j]

\* What a request was answered holds in the running daemon, before and after
\* a restart, whatever the requests for other jobs do (api.go:85-116,
\* daemon.go:202-230; README.md:110-113).
Honoured == up => \A j \in Jobs \ skipped : Promised(j) => Says(j) = promised[j]

\* "Jobs persist across daemon restarts, including paused state"
\* (README.md:8): a job that was added stays in the registry until somebody
\* asks to remove it, also when a start had to leave it out.
JobsPersist ==
  \A j \in Jobs : Promised(j) /\ promised[j] # "absent" => Entry(j) # "absent"

\* "A paused job stays paused across a daemon restart" (README.md:110-111):
\* once a pause was answered with success the registry says so, whatever is
\* asked of other jobs.
PauseSurvives ==
  Readable => \A j \in Jobs \ skipped : Promised(j) /\ promised[j] = "paused" => Entry(j) = "paused"
=============================================================================
