------------------------------ MODULE Library ------------------------------
(***************************************************************************)
(* The photo library of one job over many cycles: the remote tree, the     *)
(* destination directory, the manifest in memory and on disk               *)
(* (internal/state/manifest.go), adoption (internal/syncer/verify.go), the *)
(* table of destinations of a batch (internal/syncer/destination.go) and   *)
(* the part of sync and downloadAll that moves files.                      *)
(*                                                                         *)
(* Photos change on the server, the user puts files in the directory and   *)
(* deletes files from it, operations fail, and the daemon can die between  *)
(* any two steps: what is on disk stays, what is in memory is lost.        *)
(*                                                                         *)
(* The code knows a file by its bytes, not by where they came from: two    *)
(* photos may have the same ones.  All sizes are equal, the case in which  *)
(* the size check of adoptable cannot tell two files apart.                *)
(*                                                                         *)
(* The files of a batch are worked on all at once, a superset of what the  *)
(* worker limit allows.                                                    *)
(*                                                                         *)
(* A definition marked "mutant" is a broken variant of the definition after *)
(* it, kept to confirm that a property notices the bug; Next uses none.    *)
(***************************************************************************)
EXTENDS Config, Sequences, SequencesExt, FiniteSets

CONSTANTS Remotes,     \* remote paths
          Paths,       \* local paths
          Home,        \* Home[r] = localPath(r)
          Dated,       \* Dated[r] = datePath(r), or localPath(r) without a date
          Candidates,  \* Candidates[p]: p and its suffixed forms, in order
          Data,        \* what a file can hold
          Bytes,       \* Bytes[r][v]: what version v of photo r holds
          Brought,     \* what the files hold that the user puts in
          Cases,       \* a config file, and a bound on what happens to its job
          MaxVersion   \* bound: versions of a photo

ASSUME LibraryAssumption ==
  /\ Home \in [Remotes -> Paths]
  /\ Dated \in [Remotes -> Paths]
  /\ \A r, s \in Remotes : Home[r] = Home[s] => r = s
  /\ Candidates \in [Paths -> Seq(Paths)]
  /\ \A p \in Paths : Candidates[p] # <<>> /\ Candidates[p][1] = p
  /\ "none" \notin Paths \cup Data
  /\ "nobody" \notin Remotes
  /\ MaxVersion \in Nat \ {0}
  /\ Bytes \in [Remotes -> [1 .. MaxVersion -> Data]]
  /\ Brought \subseteq Data
  /\ \A c \in Cases : /\ WellFormed(c.file)
                      /\ c.budget \in [user : Nat, faults : Nat, crashes : Nat]

VARIABLES settings, \* cfg.Sync, which nothing changes
          remote,   \* version of each photo on the server, 0 before it exists
          disk,     \* what each local path holds
          mem,      \* manifest.Entries
          saved,    \* the manifest file
          step,     \* where the cycle is
          listing,  \* what the walk saw, 0 for what it did not
          todo,     \* listed files selectForDownload has yet to look at
          work,     \* where each file of the batch is
          got,      \* version in the staging file of each file
          dest,     \* destination granted to each file
          claimed,  \* batchDestinations.claimed
          owner,    \* batchDestinations.recorded
          touched,  \* history: paths the user wrote or deleted since a photo was put there
          shared,   \* history: paths that were recorded for two photos at once
          overwrote,\* history: where bytes that are not the photo's were replaced
          budget    \* how often the environment may still act

vars == <<settings, remote, disk, mem, saved, step, listing, todo, work, got, dest, claimed,
          owner, touched, shared, overwrote, budget>>

FolderNone == settings.folder_structure = "none"
Policy     == settings.collision_policy
Verify     == settings.verify

\* Where photos should go, and all the paths this job may ever look at.
Dest(r) == IF FolderNone THEN Home[r] ELSE Dated[r]
Wanted  == UNION {{Home[r], Dest(r)} : r \in Remotes}
Looked  == Wanted \cup UNION {ToSet(Candidates[Dest(r)]) : r \in Remotes}

NoFile   == "none"
NoEntry  == [v |-> 0, path |-> "none"]
Entries  == {NoEntry} \cup [v : 1 .. MaxVersion, path : Paths]
WorkPCs  == {"none", "queued", "begun", "staged", "fetched", "settled", "placed"}

\* What photo r holds from version v on.
Since(r, v) == {Bytes[r][w] : w \in v .. MaxVersion}

\* Every variable keeps to the values the code can give it.
TypeOK ==
  /\ settings \in Settings
  /\ remote \in [Remotes -> 0 .. MaxVersion]
  /\ disk \in [Paths -> Data \cup {NoFile}]
  /\ mem \in [Remotes -> Entries]
  /\ saved \in [Remotes -> Entries]
  /\ step \in {"down", "idle", "select", "adopted", "batch", "save"}
  /\ listing \in [Remotes -> 0 .. MaxVersion]
  /\ todo \in SUBSET Remotes
  /\ work \in [Remotes -> WorkPCs]
  /\ got \in [Remotes -> 0 .. MaxVersion]
  /\ dest \in [Remotes -> Paths \cup {"none"}]
  /\ claimed \in [Paths -> Remotes \cup {"nobody"}]
  /\ owner \in [Paths -> Remotes \cup {"nobody"}]
  /\ touched \in SUBSET Paths
  /\ shared \in SUBSET Paths
  /\ overwrote \in SUBSET {"new", "touched", "shared", "own"}
  /\ budget \in [user : Nat, faults : Nat, crashes : Nat]

Idle == /\ listing = [r \in Remotes |-> 0]
        /\ todo = {}
        /\ work = [r \in Remotes |-> "none"]
        /\ got = [r \in Remotes |-> 0]
        /\ dest = [r \in Remotes |-> "none"]
        /\ claimed = [p \in Paths |-> "nobody"]
        /\ owner = [p \in Paths |-> "nobody"]

\* A new job: an empty manifest, a directory in which one file may already be
\* where a photo should go.
Init == /\ \E c \in Cases : /\ Accepted(c.file)
                           /\ settings = Loaded(c.file)
                           /\ budget = c.budget
        /\ remote \in [Remotes -> 0 .. 1]
        /\ disk \in {[p \in Paths |-> NoFile]} \cup
                    {[p \in Paths |-> IF p = q THEN d ELSE NoFile] : q \in Wanted, d \in Brought}
        /\ mem = [r \in Remotes |-> NoEntry]
        /\ saved = mem
        /\ step = "idle"
        /\ Idle
        /\ touched = {}
        /\ shared = {}
        /\ overwrote = {}

\* The cycle's own state goes with the cycle.
CycleEnds == /\ listing' = [r \in Remotes |-> 0]
             /\ todo' = {}
             /\ work' = [r \in Remotes |-> "none"]
             /\ got' = [r \in Remotes |-> 0]
             /\ dest' = [r \in Remotes |-> "none"]
             /\ claimed' = [p \in Paths |-> "nobody"]
             /\ owner' = [p \in Paths |-> "nobody"]

batchVars == <<work, got, dest, claimed, owner>>
cycleVars == <<listing, todo, batchVars>>
world     == <<settings, remote, touched, shared>>

-----------------------------------------------------------------------------
\* The environment.

RemoteChanges(r) ==
  /\ remote[r] < MaxVersion
  /\ remote' = [remote EXCEPT ![r] = @ + 1]
  /\ UNCHANGED <<settings, disk, mem, saved, step, cycleVars, touched, shared, overwrote, budget>>

\* A destination is about to be renamed onto: between the look at it and the
\* rename nothing in the code could notice the user, who keeps off it here.
AboutToBeWritten(p) == \E r \in Remotes : work[r] = "settled" /\ dest[r] = p

\* A file put in, or put in the place of another one; at paths the job never
\* looks at it does not matter.
UserPuts(p) ==
  /\ budget.user > 0
  /\ p \in Looked
  /\ ~AboutToBeWritten(p)
  /\ \E d \in Brought \ {disk[p]} : disk' = [disk EXCEPT ![p] = d]
  /\ touched' = touched \cup {p}
  /\ budget' = [budget EXCEPT !.user = @ - 1]
  /\ UNCHANGED <<settings, remote, mem, saved, step, cycleVars, shared, overwrote>>

UserDeletes(p) ==
  /\ budget.user > 0
  /\ disk[p] # NoFile
  /\ ~AboutToBeWritten(p)
  /\ disk' = [disk EXCEPT ![p] = NoFile]
  /\ touched' = touched \cup {p}
  /\ budget' = [budget EXCEPT !.user = @ - 1]
  /\ UNCHANGED <<settings, remote, mem, saved, step, cycleVars, shared, overwrote>>

\* The process dies.  Staging files are ignored: no later run looks at them.
Crash ==
  /\ budget.crashes > 0
  /\ step # "down"
  /\ step' = "down"
  /\ mem' = [r \in Remotes |-> NoEntry]
  /\ CycleEnds
  /\ budget' = [budget EXCEPT !.crashes = @ - 1]
  /\ UNCHANGED <<world, disk, saved, overwrote>>

\* Start: the manifest is read back.
Load == /\ step = "down"
        /\ mem' = saved
        /\ step' = "idle"
        /\ UNCHANGED <<world, disk, saved, cycleVars, overwrote, budget>>

Fault == budget.faults > 0 /\ budget' = [budget EXCEPT !.faults = @ - 1]
Fine  == UNCHANGED budget

-----------------------------------------------------------------------------
\* The scan.

\* A walk lists what is there; one that fails in part misses some of it.
Walk == /\ step = "idle"
        /\ \E seen \in SUBSET Remotes :
             /\ IF seen = Remotes THEN Fine ELSE Fault
             /\ listing' = [r \in Remotes |-> IF r \in seen THEN remote[r] ELSE 0]
        /\ todo' = {r \in Remotes : listing'[r] # 0}
        /\ step' = "select"
        /\ UNCHANGED <<world, disk, mem, saved, batchVars, overwrote>>

AdoptsAnything(r, c) == c # NoFile     \* mutant
\* With sha256 the local file must hold the bytes the server offers now, also
\* if they are another photo's; by size alone, any file of the photo's size
\* will do.
adoptable(r, c) == c # NoFile /\ (Verify = "sha256" => c = Bytes[r][remote[r]])

IgnoresVersion(r) == mem[r] # NoEntry  \* mutant
UpToDate(r) == mem[r] # NoEntry /\ mem[r].v = listing[r]

Owners(p) == {r \in Remotes : mem[r].path = p}

\* selectForDownload looks at one listed file: recorded and unchanged, never
\* seen but found on disk, or to be downloaded.  It asks nobody whether the
\* file found is recorded for another photo.
Inspect(r) ==
  /\ step = "select"
  /\ r \in todo
  /\ todo' = todo \ {r}
  /\ \/ /\ UpToDate(r)
        /\ UNCHANGED <<mem, work, shared>>
        /\ Fine
     \/ /\ mem[r] = NoEntry
        /\ adoptable(r, disk[Home[r]])
        /\ mem' = [mem EXCEPT ![r] = [v |-> listing[r], path |-> Home[r]]]
        /\ shared' = IF Owners(Home[r]) = {} THEN shared ELSE shared \cup {Home[r]}
        /\ UNCHANGED work
        /\ Fine
     \/ /\ ~UpToDate(r)
        /\ IF mem[r] = NoEntry /\ adoptable(r, disk[Home[r]]) THEN Fault ELSE Fine
        /\ work' = [work EXCEPT ![r] = "queued"]
        /\ UNCHANGED <<mem, shared>>
  /\ UNCHANGED <<settings, remote, touched, disk, saved, step, listing, got, dest, claimed, owner,
                 overwrote>>

\* The manifest is saved after the selection and after the batch; a save that
\* fails is logged, and the old file stays.
Save == \/ saved' = mem /\ Fine
        \/ saved' = saved /\ Fault

\* A shutdown cuts the selection short.
SaveAdopted ==
  /\ step = "select"
  /\ IF todo = {} THEN Save ELSE saved' = mem /\ Fault
  /\ todo' = {}
  /\ step' = "adopted"
  /\ UNCHANGED <<world, disk, mem, listing, batchVars, overwrote>>

\* newBatchDestinations indexes the manifest by local path.  When two entries
\* share one, the map keeps whichever it saw last.
BatchBegins ==
  /\ step = "adopted"
  /\ \E r \in Remotes : work[r] = "queued"
  /\ \E last \in [{p \in Paths : Owners(p) # {}} -> Remotes] :
       /\ \A p \in DOMAIN last : last[p] \in Owners(p)
       /\ owner' = [p \in Paths |-> IF p \in DOMAIN last THEN last[p] ELSE "nobody"]
  /\ step' = "batch"
  /\ UNCHANGED <<world, disk, mem, saved, listing, todo, work, got, dest, claimed,
                 overwrote, budget>>

\* Nothing to download, or no room for it (checkSpace).
NoBatch ==
  /\ step = "adopted"
  /\ IF \A r \in Remotes : work[r] # "queued" THEN Fine ELSE Fault
  /\ step' = "idle"
  /\ CycleEnds
  /\ UNCHANGED <<world, disk, mem, saved, overwrote>>

-----------------------------------------------------------------------------
\* The batch.

claimedByOther(p, r) == claimed[p] \notin {"nobody", r}

NotInBatchIsFree(p, r) == claimedByOther(p, r) \/ disk[p] # NoFile             \* mutant
UnclaimedIsFree(p, r) == claimedByOther(p, r) \/ owner[p] \notin {"nobody", r}  \* mutant
unavailableTo(p, r) == \/ claimedByOther(p, r)
                       \/ owner[p] \notin {"nobody", r}
                       \/ disk[p] # NoFile

\* The path recorded for a file wins, unless another file of this batch has
\* it: the only conflict that no policy resolves by writing.
KeepsRecorded(r) == mem[r] # NoEntry /\ ~claimedByOther(mem[r].path, r)

\* resolve: where r may be written, or "none" if the policy says it may not.
resolve(r, desired) ==
  IF KeepsRecorded(r) THEN mem[r].path
  ELSE LET options == IF Policy = "rename" THEN Candidates[desired] ELSE <<desired>>
           k == SelectInSeq(options, LAMBDA p : ~unavailableTo(p, r))
       IN IF k = 0 THEN "none" ELSE options[k]

\* resolve claims what it returns; a file that gets nothing is settled, as
\* skipped or as failed.
Claim(r, desired, next) ==
  LET p == resolve(r, desired)
  IN IF p = "none"
       THEN /\ work' = [work EXCEPT ![r] = "none"]
            /\ UNCHANGED <<dest, claimed>>
       ELSE /\ work' = [work EXCEPT ![r] = next]
            /\ dest' = [dest EXCEPT ![r] = p]
            /\ claimed' = [claimed EXCEPT ![p] = r]

\* Without EXIF folders the destination is claimed before the transfer.
BeginFile(r) ==
  /\ step = "batch"
  /\ work[r] = "queued"
  /\ IF FolderNone THEN Claim(r, Home[r], "begun")
     ELSE work' = [work EXCEPT ![r] = "begun"] /\ UNCHANGED <<dest, claimed>>
  /\ UNCHANGED <<world, disk, mem, saved, step, listing, todo, got, owner, overwrote, budget>>

\* The staging file gets what the server holds now, which may be newer than
\* what the walk listed.
Fetch(r) ==
  /\ step = "batch"
  /\ work[r] = "begun"
  /\ got' = [got EXCEPT ![r] = remote[r]]
  /\ work' = [work EXCEPT ![r] = IF Verify = "sha256" THEN "staged" ELSE "fetched"]
  /\ UNCHANGED <<world, disk, mem, saved, step, listing, todo, dest, claimed, owner,
                 overwrote, budget>>

\* verifyDownload compares the staging file with a second read of the photo.
\* One that differs is fetched again, or fails when its attempts are spent; if
\* the photo cannot be read again, the file is kept unverified.
VerifyDownload(r) ==
  /\ step = "batch"
  /\ work[r] = "staged"
  /\ \/ /\ Bytes[r][got[r]] = Bytes[r][remote[r]]
        /\ work' = [work EXCEPT ![r] = "fetched"]
        /\ Fine
     \/ /\ Bytes[r][got[r]] # Bytes[r][remote[r]]
        /\ \E next \in {"begun", "none"} : work' = [work EXCEPT ![r] = next]
        /\ Fine
     \/ work' = [work EXCEPT ![r] = "fetched"] /\ Fault
  /\ UNCHANGED <<world, disk, mem, saved, step, listing, todo, got, dest, claimed, owner, overwrote>>

\* The destination is settled, with the date of the file now known.
Settle(r) ==
  /\ step = "batch"
  /\ work[r] = "fetched"
  /\ Claim(r, Dest(r), "settled")
  /\ UNCHANGED <<world, disk, mem, saved, step, listing, todo, got, owner, overwrote, budget>>

\* What the rename replaces, if it is not a version of the photo, and why it
\* could.
Foreign(r) == disk[dest[r]] \notin {NoFile} \cup Since(r, 1)
Reason(r)  == CASE mem[r].path # dest[r] -> "new"
                [] dest[r] \in touched   -> "touched"
                [] dest[r] \in shared    -> "shared"
                [] OTHER                 -> "own"

\* The rename onto the destination, over whatever is there.
Place(r) ==
  /\ step = "batch"
  /\ work[r] = "settled"
  /\ disk' = [disk EXCEPT ![dest[r]] = Bytes[r][got[r]]]
  /\ touched' = touched \ {dest[r]}
  /\ overwrote' = IF Foreign(r) THEN overwrote \cup {Reason(r)} ELSE overwrote
  /\ work' = [work EXCEPT ![r] = "placed"]
  /\ UNCHANGED <<settings, remote, mem, saved, step, listing, todo, got, dest, claimed, owner,
                 shared, budget>>

\* A transfer, mkdir or rename fails, or the batch stops before the file.
FileFails(r) ==
  /\ step = "batch"
  /\ work[r] \in {"queued", "begun", "staged", "settled"}
  /\ Fault
  /\ work' = [work EXCEPT ![r] = "none"]
  /\ UNCHANGED <<world, disk, mem, saved, step, listing, todo, got, dest, claimed, owner,
                 overwrote>>

\* The entry has the version the walk listed and the path the file is at.
entryFor(r) == [v |-> listing[r], path |-> dest[r]]

RecordsListed(r) == IF listing[r] # 0 THEN entryFor(r) ELSE mem[r]       \* mutant
OnlyThisBatch(r) == IF work[r] = "placed" THEN entryFor(r) ELSE NoEntry  \* mutant
afterBatch(r)    == IF work[r] = "placed" THEN entryFor(r) ELSE mem[r]

\* applyDownloadOutcomes, once every worker is done.
Apply ==
  /\ step = "batch"
  /\ \A r \in Remotes : work[r] \in {"none", "placed"}
  /\ mem' = [r \in Remotes |-> afterBatch(r)]
  /\ step' = "save"
  /\ UNCHANGED <<world, disk, saved, cycleVars, overwrote, budget>>

SaveBatch == /\ step = "save"
             /\ step' = "idle"
             /\ Save
             /\ CycleEnds
             /\ UNCHANGED <<world, disk, mem, overwrote>>

FileStep(r) == BeginFile(r) \/ Fetch(r) \/ VerifyDownload(r) \/ Settle(r) \/ Place(r)
Cycle == \/ Walk \/ SaveAdopted \/ BatchBegins \/ NoBatch \/ Apply \/ SaveBatch
         \/ \E r \in Remotes : Inspect(r) \/ FileStep(r)
Environment == \/ Crash
               \/ \E r \in Remotes : RemoteChanges(r) \/ FileFails(r)
               \/ \E p \in Paths : UserPuts(p) \/ UserDeletes(p)

Next == Load \/ Cycle \/ Environment

Safe == Init /\ [][Next]_vars

\* The job is started again after a crash, and its cycles go on.
Spec == Safe /\ WF_vars(Load) /\ WF_vars(Cycle)

-----------------------------------------------------------------------------
(***************************************************************************)
(* Properties.                                                             *)
(***************************************************************************)

\* "No policy overwrites an unrelated local file" (README.md:250): a photo is
\* never renamed over bytes that no version of it had.
NoUnrelatedOverwritten == overwrote = {}

\* Where that can happen at all.  A path that is not yet the photo's own is
\* free when it is granted and stays free until the rename, whatever the other
\* workers do; and with sha256 the photo's own path holds nothing else, but
\* for what the user put there since, and for a photo adopted onto another
\* one's file (destination.go:73-160; syncer.go:583-598, 689-713).
OverwritesExplained ==
  overwrote \subseteq {"touched", "shared"}
                      \cup (IF Verify = "sha256" THEN {} ELSE {"own"})

\* What a manifest compared by hash claims, in memory or on disk, is there:
\* the recorded path holds that photo, at least as new as recorded, unless the
\* user changed it since or an adoption gave the path to a second photo.  So a
\* crash between a rename and the save, a failed save or a photo that changes
\* during its transfer leave nothing out for good (syncer.go:577-600, 650-724,
\* 753-771; manifest.go:58-73).
Truthful(entries) ==
  \A r \in Remotes :
    entries[r] # NoEntry /\ entries[r].path \notin touched \cup shared
      => disk[entries[r].path] \in Since(r, entries[r].v)
ManifestTruthful == Verify = "sha256" => Truthful(mem) /\ Truthful(saved)

\* Only adoption ever records two photos at one path: no batch does, whatever
\* it finds on disk and in the manifest, and a path held by a photo that is not
\* in the batch counts as taken (destination.go:31-34, 73-160).
OnePathEach ==
  \A r, s \in Remotes : r # s /\ mem[r] # NoEntry /\ mem[r].path = mem[s].path
                           => mem[r].path \in shared

\* The manifest on disk forgets no photo and never goes back to an older
\* version, through crashes, failed saves and scans that saw only a part of
\* the server (README.md:225; syncer.go:515-526, 737-741).
NeverRegresses == [][\A r \in Remotes : saved'[r].v >= saved[r].v]_vars

\* Once the server, the user and the faults leave the job alone, the library
\* ends up holding the current version of every photo, but at paths the user
\* changed since or that two photos share.
Current(r) == /\ mem[r].v = remote[r]
              /\ \/ disk[mem[r].path] = Bytes[r][remote[r]]
                 \/ mem[r].path \in touched \cup shared
Converges == <>[](\A r \in Remotes : remote[r] > 0 => Current(r))
=============================================================================
