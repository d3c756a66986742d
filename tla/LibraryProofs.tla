---------------------------- MODULE LibraryProofs ----------------------------
(***************************************************************************)
(* What holds of a library of any photos and paths, whatever the bounds on *)
(* what happens to it.                                                     *)
(***************************************************************************)
EXTENDS Library, ConfigProofs, WellFoundedInduction

-----------------------------------------------------------------------------
(***************************************************************************)
(* What resolve returns.                                                   *)
(***************************************************************************)

Less == {ss \in Nat \X Nat : ss[1] < ss[2]}

LEMMA LessWellFounded == IsWellFoundedOn(Less, Nat)
<1>1. OpToRel(<, Nat) = Less
  BY Zenon DEF OpToRel, Less
<1> QED
  BY <1>1, NatLessThanWellFounded, Zenon

LEMMA MinIn ==
  ASSUME NEW T \in SUBSET Nat, T # {}
  PROVE  Min(T) \in T
<1>1. PICK m \in T : \A y \in T : ~(<<y, m>> \in Less)
  BY LessWellFounded, WFMin, Zenon
<1>2. ASSUME NEW y \in T PROVE m <= y
  <2>1. ~(<<y, m>> \in Less)
    BY <1>1
  <2>2. m \in Nat /\ y \in Nat
    OBVIOUS
  <2>3. ~(y < m)
    BY <2>1, <2>2 DEF Less
  <2> QED
    BY <2>2, <2>3
<1> QED
  BY <1>2 DEF Min

\* A path that resolve grants is the one recorded for the file, or one that
\* nobody else has.
LEMMA Resolved ==
  ASSUME TypeOK, NEW r \in Remotes, NEW d \in Paths, resolve(r, d) # "none"
  PROVE  /\ resolve(r, d) \in Paths
         /\ \/ KeepsRecorded(r) /\ resolve(r, d) = mem[r].path
            \/ ~KeepsRecorded(r) /\ ~unavailableTo(resolve(r, d), r)
<1>1. CASE KeepsRecorded(r)
  <2>1. mem[r] # NoEntry /\ mem[r] \in Entries
    BY <1>1 DEF KeepsRecorded, TypeOK
  <2> QED
    BY <1>1, <2>1 DEF resolve, Entries
<1>2. CASE ~KeepsRecorded(r)
  <2> DEFINE options == IF Policy = "rename" THEN Candidates[d] ELSE <<d>>
             I == {i \in 1 .. Len(options) : ~unavailableTo(options[i], r)}
             k == SelectInSeq(options, LAMBDA p : ~unavailableTo(p, r))
  <2>1. options \in Seq(Paths)
    BY LibraryAssumption
  <2>2. k = IF I # {} THEN Min(I) ELSE 0
    BY DEF SelectInSeq
  <2>3. resolve(r, d) = IF k = 0 THEN "none" ELSE options[k]
    BY <1>2 DEF resolve
  <2>4. I # {} /\ k = Min(I)
    BY <2>2, <2>3
  <2> HIDE DEF options
  <2>5. I \in SUBSET Nat
    BY <2>1
  <2> HIDE DEF k
  <2>6. k \in I
    BY <2>4, <2>5, MinIn
  <2>7. resolve(r, d) = options[k]
    BY <2>1, <2>3, <2>6
  <2> QED
    BY <1>2, <2>1, <2>6, <2>7
<1> QED
  BY <1>1, <1>2

\* What a claim changes: nothing but the file's own state, or one path more
\* that is the file's.
LEMMA Granted ==
  ASSUME TypeOK, NEW r \in Remotes, NEW d \in Paths, NEW next, Claim(r, d, next)
  PROVE  \/ /\ work' = [work EXCEPT ![r] = "none"]
            /\ UNCHANGED <<dest, claimed>>
         \/ \E p \in Paths :
              /\ \/ KeepsRecorded(r) /\ p = mem[r].path
                 \/ ~KeepsRecorded(r) /\ ~unavailableTo(p, r)
              /\ work' = [work EXCEPT ![r] = next]
              /\ dest' = [dest EXCEPT ![r] = p]
              /\ claimed' = [claimed EXCEPT ![p] = r]
<1>1. CASE resolve(r, d) = "none"
  BY <1>1 DEF Claim
<1>2. CASE resolve(r, d) # "none"
  BY <1>2, Resolved DEF Claim
<1> QED
  BY <1>1, <1>2

-----------------------------------------------------------------------------
(***************************************************************************)
(* Versions only grow: what is recorded was listed, and what was listed is *)
(* on the server.                                                          *)
(***************************************************************************)

\* Nothing is known of a photo that the server does not have.
Versions ==
  \A r \in Remotes : /\ mem[r].v <= remote[r]
                     /\ saved[r].v <= remote[r]
                     /\ listing[r] <= remote[r]

\* The manifest in memory is ahead of the saved one, and behind the walk.
Forward ==
  \A r \in Remotes : /\ step # "down" => saved[r].v <= mem[r].v
                     /\ listing[r] # 0 => mem[r].v <= listing[r]

\* Only listed files are looked at and worked on; a file that was fetched is
\* at least as new as listed, and one about to be placed has a destination.
Underway ==
  \A r \in Remotes :
    /\ work[r] # "none" \/ r \in todo => listing[r] # 0
    /\ work[r] \in {"staged", "fetched", "settled", "placed"} => got[r] >= listing[r]
    /\ work[r] \in {"settled", "placed"} => dest[r] \in Paths

Resting == step \in {"down", "idle"} => Idle

BaseInv == TypeOK /\ Versions /\ Forward /\ Underway /\ Resting

LEMMA DestTyped == \A r \in Remotes : Home[r] \in Paths /\ Dest(r) \in Paths
BY LibraryAssumption DEF Dest

LEMMA Numbers ==
  ASSUME TypeOK, NEW r \in Remotes
  PROVE  /\ mem[r].v \in Nat /\ saved[r].v \in Nat
         /\ remote[r] \in Nat /\ listing[r] \in Nat /\ got[r] \in Nat
<1>1. MaxVersion \in Nat
  BY LibraryAssumption
<1>2. mem[r] \in Entries /\ saved[r] \in Entries
  BY DEF TypeOK
<1>3. \A e \in Entries : e.v \in Nat
  BY <1>1 DEF Entries, NoEntry
<1> QED
  BY <1>1, <1>2, <1>3 DEF TypeOK

Budget == [user : Nat, faults : Nat, crashes : Nat]

LEMMA BudgetTyped ==
  ASSUME TypeOK
  PROVE  (Fine => budget' \in Budget) /\ (Fault => budget' \in Budget)
BY DEF Fine, Fault, TypeOK, Budget

LEMMA SaveTyped ==
  ASSUME TypeOK, Save
  PROVE  budget' \in Budget /\ (saved' = mem \/ saved' = saved)
BY BudgetTyped DEF Save

LEMMA EntryTyped ==
  ASSUME TypeOK, NEW r \in Remotes, listing[r] # 0, NEW p \in Paths
  PROVE  [v |-> listing[r], path |-> p] \in Entries
<1>1. listing[r] \in 1 .. MaxVersion
  BY LibraryAssumption DEF TypeOK
<1> QED
  BY <1>1 DEF Entries

LEMMA BaseInit == Init => BaseInv
<1> SUFFICES ASSUME Init PROVE BaseInv
  OBVIOUS
<1>1. settings \in Settings /\ budget \in Budget
  <2>1. PICK c \in Cases : Accepted(c.file) /\ settings = Loaded(c.file) /\ budget = c.budget
    BY DEF Init
  <2>2. WellFormed(c.file) /\ c.budget \in Budget
    BY LibraryAssumption DEF Budget
  <2> QED
    BY <2>1, <2>2, AcceptedIsSound
<1>2. disk \in [Paths -> Data \cup {NoFile}]
  BY LibraryAssumption DEF Init
<1>3. MaxVersion \in Nat \ {0}
  BY LibraryAssumption
<1>4. TypeOK
  BY <1>1, <1>2, <1>3 DEF Init, Idle, TypeOK, Entries, Budget, WorkPCs
<1>5. \A r \in Remotes : mem[r].v = 0 /\ saved[r].v = 0 /\ listing[r] = 0 /\ work[r] = "none"
  BY DEF Init, Idle, NoEntry
<1>6. Versions /\ Forward
  BY <1>4, <1>5, Numbers DEF Versions, Forward
<1>7. Underway /\ Resting
  BY <1>5 DEF Init, Underway, Resting, Idle
<1> QED
  BY <1>4, <1>6, <1>7 DEF BaseInv

LEMMA CycleEndsTyped ==
  ASSUME CycleEnds, MaxVersion \in Nat
  PROVE  /\ listing' \in [Remotes -> 0 .. MaxVersion]
         /\ todo' \in SUBSET Remotes
         /\ work' \in [Remotes -> WorkPCs]
         /\ got' \in [Remotes -> 0 .. MaxVersion]
         /\ dest' \in [Remotes -> Paths \cup {"none"}]
         /\ claimed' \in [Paths -> Remotes \cup {"nobody"}]
         /\ owner' \in [Paths -> Remotes \cup {"nobody"}]
BY DEF CycleEnds, WorkPCs

LEMMA TypeStep == BaseInv /\ [Next]_vars => TypeOK'
<1> SUFFICES ASSUME TypeOK, Underway, [Next]_vars PROVE TypeOK'
  BY DEF BaseInv
<1>0. MaxVersion \in Nat
  BY LibraryAssumption
<1>1. CASE Load
  BY <1>1 DEF Load, world, cycleVars, batchVars, TypeOK
<1>2. CASE Walk
  <2>1. budget' \in Budget /\ listing' \in [Remotes -> 0 .. MaxVersion] /\ todo' \in SUBSET Remotes
    BY <1>0, <1>2, BudgetTyped DEF Walk, TypeOK
  <2> QED
    BY <1>2, <2>1 DEF Walk, world, batchVars, TypeOK, Budget
<1>3. ASSUME NEW r \in Remotes, Inspect(r) PROVE TypeOK'
  <2>1. listing[r] # 0
    BY <1>3 DEF Inspect, Underway
  <2>2. mem' \in [Remotes -> Entries]
    BY <1>3, <2>1, EntryTyped, DestTyped DEF Inspect, TypeOK
  <2>3. work' \in [Remotes -> WorkPCs]
    BY <1>3 DEF Inspect, TypeOK, WorkPCs
  <2>4. budget' \in Budget /\ todo' \in SUBSET Remotes
    BY <1>3, BudgetTyped DEF Inspect, TypeOK
  <2>5. shared' \in SUBSET Paths
    BY <1>3, DestTyped DEF Inspect, TypeOK
  <2>6. UNCHANGED <<settings, remote, touched, disk, saved, step, listing, got, dest, claimed,
                    owner, overwrote>>
    BY <1>3 DEF Inspect
  <2> QED
    BY <2>2, <2>3, <2>4, <2>5, <2>6 DEF TypeOK, Budget
<1>4. CASE SaveAdopted
  <2>1. budget' \in Budget /\ (saved' = mem \/ saved' = saved)
    BY <1>4, SaveTyped, BudgetTyped DEF SaveAdopted
  <2> QED
    BY <1>4, <2>1 DEF SaveAdopted, world, batchVars, TypeOK, Budget
<1>5. CASE BatchBegins
  <2>1. owner' \in [Paths -> Remotes \cup {"nobody"}]
    BY <1>5 DEF BatchBegins
  <2> QED
    BY <1>5, <2>1 DEF BatchBegins, world, TypeOK
<1>6. CASE NoBatch
  <2>1. budget' \in Budget /\ CycleEnds
    BY <1>6, BudgetTyped DEF NoBatch
  <2> QED
    BY <1>0, <1>6, <2>1, CycleEndsTyped DEF NoBatch, world, TypeOK, Budget
<1>7. ASSUME NEW r \in Remotes, BeginFile(r) \/ Settle(r) PROVE TypeOK'
  <2>0. \E next \in {"none", "begun", "settled"} :
          /\ work' = [work EXCEPT ![r] = next]
          /\ \/ UNCHANGED <<dest, claimed>>
             \/ \E p \in Paths : /\ dest' = [dest EXCEPT ![r] = p]
                                /\ claimed' = [claimed EXCEPT ![p] = r]
    <3>1. CASE BeginFile(r) /\ FolderNone
      BY <3>1, Granted, DestTyped DEF BeginFile
    <3>2. CASE BeginFile(r) /\ ~FolderNone
      BY <3>2 DEF BeginFile
    <3>3. CASE Settle(r)
      BY <3>3, Granted, DestTyped DEF Settle
    <3> QED
      BY <1>7, <3>1, <3>2, <3>3
  <2>1. work' \in [Remotes -> WorkPCs]
    BY <2>0 DEF TypeOK, WorkPCs
  <2>2. \/ UNCHANGED <<dest, claimed>>
        \/ \E p \in Paths : /\ dest' = [dest EXCEPT ![r] = p]
                           /\ claimed' = [claimed EXCEPT ![p] = r]
    BY <2>0
  <2>3. /\ dest' \in [Remotes -> Paths \cup {"none"}]
        /\ claimed' \in [Paths -> Remotes \cup {"nobody"}]
    BY <2>2 DEF TypeOK
  <2>4. UNCHANGED <<world, disk, mem, saved, step, listing, todo, got, owner, overwrote, budget>>
    BY <1>7, Zenon DEF BeginFile, Settle
  <2> QED
    BY <2>1, <2>3, <2>4 DEF world, TypeOK
<1>8. ASSUME NEW r \in Remotes, Fetch(r) \/ VerifyDownload(r) PROVE TypeOK'
  <2>1. got' \in [Remotes -> 0 .. MaxVersion] /\ work' \in [Remotes -> WorkPCs]
    BY <1>8 DEF Fetch, VerifyDownload, TypeOK, WorkPCs
  <2>2. budget' \in Budget
    BY <1>8, BudgetTyped DEF Fetch, VerifyDownload, TypeOK, Budget
  <2> QED
    BY <1>8, <2>1, <2>2 DEF Fetch, VerifyDownload, world, TypeOK, Budget
<1>9. ASSUME NEW r \in Remotes, Place(r) PROVE TypeOK'
  <2>1. got[r] \in 1 .. MaxVersion
    BY <1>0, <1>9, Numbers DEF Place, Underway, TypeOK
  <2>2. Bytes[r][got[r]] \in Data
    BY <2>1, LibraryAssumption
  <2>3. disk' \in [Paths -> Data \cup {NoFile}] /\ touched' \in SUBSET Paths
    BY <1>9, <2>2 DEF Place, TypeOK
  <2>4. Reason(r) \in {"new", "touched", "shared", "own"}
    BY DEF Reason
  <2>5. overwrote' \in SUBSET {"new", "touched", "shared", "own"}
    BY <1>9, <2>4 DEF Place, TypeOK
  <2>6. work' \in [Remotes -> WorkPCs]
    BY <1>9 DEF Place, TypeOK, WorkPCs
  <2> QED
    BY <1>9, <2>3, <2>5, <2>6 DEF Place, TypeOK
<1>10. ASSUME NEW r \in Remotes, FileFails(r) PROVE TypeOK'
  <2>1. budget' \in Budget
    BY <1>10, BudgetTyped DEF FileFails
  <2> QED
    BY <1>10, <2>1 DEF FileFails, world, TypeOK, Budget, WorkPCs
<1>11. CASE Apply
  <2>1. \A r \in Remotes : afterBatch(r) \in Entries
    BY EntryTyped DEF afterBatch, entryFor, Underway, TypeOK
  <2> QED
    BY <1>11, <2>1 DEF Apply, world, cycleVars, batchVars, TypeOK
<1>12. CASE SaveBatch
  <2>1. budget' \in Budget /\ (saved' = mem \/ saved' = saved) /\ CycleEnds
    BY <1>12, SaveTyped DEF SaveBatch
  <2> QED
    BY <1>0, <1>12, <2>1, CycleEndsTyped DEF SaveBatch, world, TypeOK, Budget
<1>13. ASSUME NEW r \in Remotes, RemoteChanges(r) PROVE TypeOK'
  <2>1. remote' \in [Remotes -> 0 .. MaxVersion]
    BY <1>0, <1>13 DEF RemoteChanges, TypeOK
  <2> QED
    BY <1>13, <2>1 DEF RemoteChanges, cycleVars, batchVars, TypeOK
<1>14. ASSUME NEW p \in Paths, UserPuts(p) \/ UserDeletes(p) PROVE TypeOK'
  <2>1. budget' \in Budget
    BY <1>14 DEF UserPuts, UserDeletes, TypeOK, Budget
  <2>2. disk' \in [Paths -> Data \cup {NoFile}] /\ touched' \in SUBSET Paths
    <3>1. \E d \in Brought \cup {NoFile} : disk' = [disk EXCEPT ![p] = d]
      BY <1>14 DEF UserPuts, UserDeletes
    <3>2. touched' = touched \cup {p}
      BY <1>14 DEF UserPuts, UserDeletes
    <3> QED
      BY <3>1, <3>2, LibraryAssumption DEF TypeOK
  <2>3. UNCHANGED <<settings, remote, mem, saved, step, cycleVars, shared, overwrote>>
    BY <1>14 DEF UserPuts, UserDeletes
  <2> QED
    BY <2>1, <2>2, <2>3 DEF cycleVars, batchVars, TypeOK, Budget
<1>15. CASE Crash
  <2>1. budget' \in Budget
    BY <1>15 DEF Crash, TypeOK, Budget
  <2>2. mem' \in [Remotes -> Entries]
    BY <1>15 DEF Crash, Entries
  <2> QED
    BY <1>0, <1>15, <2>1, <2>2, CycleEndsTyped DEF Crash, world, TypeOK, Budget
<1>16. CASE UNCHANGED vars
  BY <1>16 DEF vars, TypeOK
<1> QED
  BY <1>1, <1>2, <1>3, <1>4, <1>5, <1>6, <1>7, <1>8, <1>9, <1>10, <1>11, <1>12, <1>13, <1>14,
     <1>15, <1>16 DEF Next, Cycle, FileStep, Environment

LEMMA VersionsStep == BaseInv /\ [Next]_vars => Versions'
<1> SUFFICES ASSUME TypeOK, Versions, Underway, [Next]_vars PROVE Versions'
  BY DEF BaseInv
<1>1. CASE UNCHANGED <<remote, mem, saved, listing>>
  BY <1>1 DEF Versions
<1>2. CASE Load
  BY <1>2 DEF Load, world, cycleVars, Versions
<1>3. CASE Walk
  BY <1>3, Numbers DEF Walk, world, Versions
<1>4. ASSUME NEW r \in Remotes, Inspect(r) PROVE Versions'
  BY <1>4 DEF Inspect, world, Versions, TypeOK
<1>5. CASE SaveAdopted
  BY <1>5, SaveTyped DEF SaveAdopted, world, Versions
<1>6. CASE NoBatch
  BY <1>6, Numbers DEF NoBatch, CycleEnds, world, Versions
<1>7. CASE Apply
  BY <1>7 DEF Apply, afterBatch, entryFor, world, cycleVars, Versions
<1>8. CASE SaveBatch
  BY <1>8, SaveTyped, Numbers DEF SaveBatch, CycleEnds, world, Versions
<1>9. ASSUME NEW r \in Remotes, RemoteChanges(r) PROVE Versions'
  <2>1. \A s \in Remotes : remote[s] <= remote'[s] /\ remote'[s] \in Nat
    BY <1>9, Numbers DEF RemoteChanges, TypeOK
  <2>2. \A s \in Remotes : /\ mem'[s].v <= remote[s]
                           /\ saved'[s].v <= remote[s]
                           /\ listing'[s] <= remote[s]
    BY <1>9 DEF RemoteChanges, cycleVars, Versions
  <2>3. \A s \in Remotes : /\ mem'[s].v \in Nat /\ saved'[s].v \in Nat
                           /\ listing'[s] \in Nat /\ remote[s] \in Nat
    BY <1>9, Numbers DEF RemoteChanges, cycleVars
  <2> QED
    BY <2>1, <2>2, <2>3 DEF Versions
<1>10. CASE Crash
  <2>1. \A s \in Remotes : mem'[s].v = 0 /\ listing'[s] = 0
    BY <1>10 DEF Crash, CycleEnds, NoEntry
  <2> QED
    BY <1>10, <2>1, Numbers DEF Crash, world, Versions
<1> QED
  BY <1>1, <1>2, <1>3, <1>4, <1>5, <1>6, <1>7, <1>8, <1>9, <1>10
  DEF Next, Cycle, FileStep, Environment, BatchBegins, BeginFile, Fetch, VerifyDownload, Settle, Place, FileFails,
      UserPuts, UserDeletes, world, cycleVars, vars

LEMMA ForwardStep == BaseInv /\ [Next]_vars => Forward'
<1> SUFFICES ASSUME TypeOK, Versions, Forward, Underway, Resting, [Next]_vars PROVE Forward'
  BY DEF BaseInv
<1>1. CASE UNCHANGED <<step, mem, saved, listing>>
  BY <1>1 DEF Forward
<1>2. CASE Load
  <2>1. \A r \in Remotes : listing'[r] = 0
    BY <1>2 DEF Load, cycleVars, Resting, Idle
  <2> QED
    BY <1>2, <2>1, Numbers DEF Load, Forward
<1>3. CASE Walk
  BY <1>3 DEF Walk, Versions, Forward
<1>4. ASSUME NEW r \in Remotes, Inspect(r) PROVE Forward'
  BY <1>4, Numbers DEF Inspect, NoEntry, Forward, TypeOK
<1>5. CASE SaveAdopted
  BY <1>5, SaveTyped, Numbers DEF SaveAdopted, Forward
<1>6. CASE BatchBegins \/ NoBatch
  BY <1>6 DEF BatchBegins, NoBatch, CycleEnds, Forward
<1>7. CASE Apply
  BY <1>7, Numbers DEF Apply, afterBatch, entryFor, cycleVars, Forward, Underway
<1>8. CASE SaveBatch
  BY <1>8, SaveTyped, Numbers DEF SaveBatch, CycleEnds, Forward
<1>9. CASE Crash
  BY <1>9 DEF Crash, CycleEnds, Forward
<1> QED
  BY <1>1, <1>2, <1>3, <1>4, <1>5, <1>6, <1>7, <1>8, <1>9
  DEF Next, Cycle, FileStep, Environment, BeginFile, Fetch, VerifyDownload, Settle, Place, FileFails,
      RemoteChanges, UserPuts, UserDeletes, cycleVars, vars

LEMMA UnderwayStep == BaseInv /\ [Next]_vars => Underway'
<1> SUFFICES ASSUME TypeOK, Versions, Underway, Resting, [Next]_vars PROVE Underway'
  BY DEF BaseInv
<1>1. CASE UNCHANGED <<listing, todo, work, got, dest>>
  BY <1>1 DEF Underway
<1>2. CASE Walk
  BY <1>2 DEF Walk, batchVars, Resting, Idle, Underway
<1>3. ASSUME NEW r \in Remotes, Inspect(r) PROVE Underway'
  BY <1>3 DEF Inspect, Underway, TypeOK
<1>4. CASE SaveAdopted
  BY <1>4 DEF SaveAdopted, batchVars, Underway
<1>5. CASE CycleEnds
  BY <1>5 DEF CycleEnds, Underway
<1>6. ASSUME NEW r \in Remotes, BeginFile(r) \/ Settle(r) PROVE Underway'
  <2>1. /\ work[r] # "none"
        /\ work[r] = "fetched" \/ work'[r] \in {"none", "begun"}
        /\ UNCHANGED <<listing, todo, got>>
    BY <1>6, Granted, DestTyped DEF BeginFile, Settle, TypeOK
  <2>2. /\ \A s \in Remotes \ {r} : work'[s] = work[s] /\ dest'[s] = dest[s]
        /\ work'[r] \in {"settled", "placed"} => dest'[r] \in Paths
    BY <1>6, Granted, DestTyped DEF BeginFile, Settle, TypeOK, KeepsRecorded
  <2> QED
    BY <2>1, <2>2 DEF Underway
<1>7. ASSUME NEW r \in Remotes, Fetch(r) \/ VerifyDownload(r) PROVE Underway'
  BY <1>7, Numbers DEF Fetch, VerifyDownload, Versions, Underway, TypeOK
<1>8. ASSUME NEW r \in Remotes, Place(r) \/ FileFails(r) PROVE Underway'
  BY <1>8 DEF Place, FileFails, Underway, TypeOK
<1> QED
  BY <1>1, <1>2, <1>3, <1>4, <1>5, <1>6, <1>7, <1>8
  DEF Next, Load, Cycle, FileStep, Environment, BatchBegins, NoBatch, Apply, SaveBatch, Crash,
      RemoteChanges, UserPuts, UserDeletes, cycleVars, batchVars, vars

LEMMA RestingStep == BaseInv /\ [Next]_vars => Resting'
<1> SUFFICES ASSUME TypeOK, Resting, [Next]_vars PROVE Resting'
  BY DEF BaseInv
<1>1. CASE /\ UNCHANGED <<listing, todo, work, got, dest, claimed, owner>>
           /\ step' \in {"down", "idle"} => step \in {"down", "idle"}
  BY <1>1 DEF Resting, Idle
<1>2. CASE CycleEnds
  BY <1>2 DEF CycleEnds, Resting, Idle
<1>3. CASE step' \notin {"down", "idle"}
  BY <1>3 DEF Resting
<1> QED
  BY <1>1, <1>2, <1>3
  DEF Next, Load, Cycle, FileStep, Environment, Walk, Inspect, SaveAdopted, BatchBegins, NoBatch,
      BeginFile, Fetch, VerifyDownload, Settle, Place, FileFails, Apply, SaveBatch, Crash, RemoteChanges,
      UserPuts, UserDeletes, cycleVars, batchVars, vars

LEMMA BaseStep == BaseInv /\ [Next]_vars => BaseInv'
BY TypeStep, VersionsStep, ForwardStep, UnderwayStep, RestingStep DEF BaseInv

LEMMA BaseAlways == Safe => []BaseInv
BY BaseInit, BaseStep, PTL DEF Safe

\* Every variable keeps to its values, whatever the photos and paths.
THEOREM TypeCorrect == Safe => []TypeOK
<1>1. BaseInv => TypeOK
  BY DEF BaseInv
<1> QED
  BY <1>1, BaseAlways, PTL

\* NeverRegresses for any photos, paths and bounds: the saved manifest never
\* goes back, through failed saves, partial scans and crashes.
THEOREM SavedNeverRegresses == Safe => NeverRegresses
<1>1. BaseInv /\ [Next]_vars => [\A r \in Remotes : saved'[r].v >= saved[r].v]_vars
  <2> SUFFICES ASSUME BaseInv, Next PROVE \A r \in Remotes : saved'[r].v >= saved[r].v
    OBVIOUS
  <2>1. saved' = saved \/ (saved' = mem /\ step # "down")
    BY DEF Next, Load, Cycle, Environment, FileStep, Walk, Inspect, SaveAdopted, Save,
           BatchBegins, NoBatch, BeginFile, Fetch, VerifyDownload, Settle, Place, FileFails, Apply, SaveBatch,
           RemoteChanges, UserPuts, UserDeletes, Crash, cycleVars
  <2>2. \A r \in Remotes : mem[r].v \in Nat /\ saved[r].v \in Nat
    BY Numbers DEF BaseInv
  <2> QED
    BY <2>1, <2>2 DEF BaseInv, Forward
<1> QED
  BY <1>1, BaseAlways, PTL DEF Safe, NeverRegresses

-----------------------------------------------------------------------------
(***************************************************************************)
(* Whose a path is.  A path goes to another photo through the table of     *)
(* claims only, or through an adoption, which leaves it in shared; the     *)
(* table agrees with the manifest and with the disk on all other paths.    *)
(***************************************************************************)

\* Two photos recorded at one path share it.
Distinct(entries) ==
  \A r, s \in Remotes : r # s /\ entries[r] # NoEntry /\ entries[r].path = entries[s].path
                           => entries[r].path \in shared

\* A recorded photo keeps its path, if it does not share it.
Kept == step # "down" =>
  \A r \in Remotes : saved[r] # NoEntry =>
    /\ mem[r] # NoEntry
    /\ saved[r].path \notin shared => mem[r].path = saved[r].path

\* A granted destination is claimed.  A path recorded for one photo alone is
\* the one granted to it, and nobody else's.
Claims ==
  \A r \in Remotes :
    /\ dest[r] \in Paths => claimed[dest[r]] = r
    /\ mem[r] # NoEntry /\ mem[r].path \notin shared =>
         /\ dest[r] \in Paths => dest[r] = mem[r].path
         /\ claimed[mem[r].path] \in {r, "nobody"}

\* The table of a batch knows every recorded path.
Indexed == step = "batch" =>
  \A p \in Paths : /\ owner[p] = "nobody" => \A r \in Remotes : mem[r].path # p
                   /\ \A r \in Remotes : owner[p] = r => mem[r].path = p

\* Outside a batch nothing is claimed.
Unclaimed == step \notin {"batch", "save"} =>
  /\ claimed = [p \in Paths |-> "nobody"]
  /\ dest = [r \in Remotes |-> "none"]
  /\ \A r \in Remotes : work[r] \in {"none", "queued"}

\* A destination about to be renamed onto is the recorded one, or free.
Settled ==
  \A r \in Remotes : work[r] = "settled" => mem[r].path = dest[r] \/ disk[dest[r]] = NoFile

OwnInv == Distinct(mem) /\ Distinct(saved) /\ Kept /\ Claims /\ Indexed /\ Unclaimed /\ Settled

LEMMA Nobody == "nobody" \notin Remotes /\ "none" \notin Paths
BY LibraryAssumption

LEMMA EntryPath ==
  ASSUME TypeOK, NEW r \in Remotes
  PROVE  /\ mem[r] = NoEntry \/ mem[r].path \in Paths
         /\ saved[r] = NoEntry \/ saved[r].path \in Paths
BY DEF TypeOK, Entries

LEMMA PathEntry ==
  ASSUME NEW r \in Remotes, mem[r].path \in Paths
  PROVE  mem[r] # NoEntry
BY Nobody DEF NoEntry

\* A destination of one photo is not another's.
LEMMA OwnPath ==
  ASSUME TypeOK, Claims, NEW r \in Remotes, dest[r] \in Paths, NEW s \in Remotes, s # r
  PROVE  /\ mem[s] # NoEntry /\ mem[s].path = dest[r] => dest[r] \in shared
         /\ dest[s] # dest[r]
BY Nobody DEF Claims

\* What applyDownloadOutcomes leaves of an entry.
LEMMA Applied ==
  ASSUME BaseInv, Apply, NEW r \in Remotes
  PROVE  \/ mem'[r] = mem[r]
         \/ /\ dest[r] \in Paths
            /\ mem'[r] # NoEntry
            /\ mem'[r].path = dest[r]
<1>1. mem'[r] = afterBatch(r)
  BY DEF Apply
<1>2. work[r] = "placed" => dest[r] \in Paths
  BY DEF BaseInv, Underway
<1>3. dest[r] \in Paths => entryFor(r).path = dest[r] /\ entryFor(r) # NoEntry
  BY Nobody DEF entryFor, NoEntry
<1> QED
  BY <1>1, <1>2, <1>3 DEF afterBatch

\* What an adoption leaves of the manifest.
LEMMA Adopted ==
  ASSUME BaseInv, NEW r \in Remotes, Inspect(r)
  PROVE  \/ UNCHANGED <<mem, shared>>
         \/ /\ mem[r] = NoEntry
            /\ adoptable(r, disk[Home[r]])
            /\ mem'[r] = [v |-> listing[r], path |-> Home[r]]
            /\ \A s \in Remotes \ {r} : mem'[s] = mem[s]
            /\ shared \subseteq shared'
            /\ \A s \in Remotes : mem[s].path = Home[r] => Home[r] \in shared'
BY DEF Inspect, BaseInv, TypeOK, Owners

LEMMA DistinctStep ==
  ASSUME BaseInv, OwnInv, [Next]_vars
  PROVE  Distinct(mem)' /\ Distinct(saved)'
<1> USE DEF OwnInv
<1>1. CASE UNCHANGED <<mem, saved, shared>>
  BY <1>1 DEF Distinct
<1>2. CASE Load \/ Crash
  BY <1>2 DEF Load, Crash, world, Distinct
<1>3. ASSUME NEW r \in Remotes, Inspect(r) PROVE Distinct(mem)' /\ Distinct(saved)'
  <2>1. UNCHANGED saved /\ shared \subseteq shared'
    BY <1>3 DEF Inspect
  <2>2. CASE UNCHANGED mem
    BY <2>1, <2>2 DEF Distinct
  <2>3. CASE /\ mem'[r].path = Home[r]
             /\ \A s \in Remotes \ {r} : mem'[s] = mem[s]
             /\ \A s \in Remotes : mem[s].path = Home[r] => Home[r] \in shared'
    BY <2>1, <2>3 DEF Distinct
  <2>4. CASE mem'[r] = [v |-> listing[r], path |-> Home[r]]
    BY <1>3, <2>2, <2>3, <2>4, Adopted
  <2> QED
    BY <1>3, <2>2, <2>4, Adopted
<1>4. CASE SaveAdopted \/ SaveBatch
  BY <1>4, SaveTyped DEF SaveAdopted, SaveBatch, world, Distinct, BaseInv
<1>5. CASE Apply
  <2>1. UNCHANGED <<saved, shared>>
    BY <1>5 DEF Apply, world
  <2>2. ASSUME NEW r \in Remotes, NEW s \in Remotes, r # s, mem'[r] # NoEntry,
               mem'[r].path = mem'[s].path
        PROVE  mem'[r].path \in shared
    <3>1. CASE mem'[r] = mem[r] /\ mem'[s] = mem[s]
      BY <2>2, <3>1 DEF Distinct
    <3>2. CASE mem'[r] = mem[r] /\ dest[s] \in Paths /\ mem'[s].path = dest[s]
      BY <2>2, <3>2, OwnPath DEF BaseInv
    <3>3. CASE mem'[s] = mem[s] /\ dest[r] \in Paths /\ mem'[r].path = dest[r]
      <4>1. mem[s] # NoEntry
        BY <2>2, <3>3, PathEntry
      <4> QED
        BY <2>2, <3>3, <4>1, OwnPath DEF BaseInv
    <3>4. CASE /\ dest[r] \in Paths /\ mem'[r].path = dest[r]
               /\ dest[s] \in Paths /\ mem'[s].path = dest[s]
      BY <2>2, <3>4, OwnPath DEF BaseInv
    <3> QED
      BY <1>5, <3>1, <3>2, <3>3, <3>4, Applied
  <2> QED
    BY <2>1, <2>2 DEF Distinct
<1> QED
  BY <1>1, <1>2, <1>3, <1>4, <1>5
  DEF Next, Cycle, FileStep, Environment, Walk, BatchBegins, NoBatch, BeginFile, Fetch,
      VerifyDownload, Settle, Place, FileFails, RemoteChanges, UserPuts, UserDeletes, world, vars

LEMMA KeptStep ==
  ASSUME BaseInv, OwnInv, [Next]_vars
  PROVE  Kept'
<1> USE DEF OwnInv
<1>1. CASE UNCHANGED <<mem, saved, shared>> /\ (step' # "down" => step # "down")
  BY <1>1 DEF Kept
<1>2. CASE Load \/ Crash
  BY <1>2 DEF Load, Crash, Kept
<1>3. ASSUME NEW r \in Remotes, Inspect(r) PROVE Kept'
  <2>1. UNCHANGED saved /\ step # "down"
    BY <1>3 DEF Inspect
  <2>2. CASE UNCHANGED <<mem, shared>>
    BY <2>1, <2>2 DEF Kept
  <2>3. CASE /\ mem[r] = NoEntry /\ \A s \in Remotes \ {r} : mem'[s] = mem[s]
             /\ shared \subseteq shared'
    BY <2>1, <2>3 DEF Kept
  <2> QED
    BY <1>3, <2>2, <2>3, Adopted
<1>4. CASE SaveAdopted \/ SaveBatch
  BY <1>4, SaveTyped DEF SaveAdopted, SaveBatch, world, Kept, BaseInv
<1>5. CASE Apply
  <2>1. UNCHANGED <<saved, shared>> /\ step = "batch"
    BY <1>5 DEF Apply, world
  <2>2. ASSUME NEW r \in Remotes, saved[r] # NoEntry
        PROVE  /\ mem'[r] # NoEntry
               /\ saved[r].path \notin shared => mem'[r].path = saved[r].path
    <3>1. /\ mem[r] # NoEntry
          /\ saved[r].path \notin shared => mem[r].path = saved[r].path
      BY <2>1, <2>2 DEF Kept
    <3>2. /\ dest[r] \in Paths /\ mem[r].path \notin shared => dest[r] = mem[r].path
      BY <3>1 DEF Claims
    <3> QED
      BY <1>5, <3>1, <3>2, Applied
  <2> QED
    BY <2>1, <2>2 DEF Kept
<1> QED
  BY <1>1, <1>2, <1>3, <1>4, <1>5
  DEF Next, Cycle, FileStep, Environment, Walk, BatchBegins, NoBatch, BeginFile, Fetch,
      VerifyDownload, Settle, Place, FileFails, RemoteChanges, UserPuts, UserDeletes, world, vars

LEMMA UnclaimedStep ==
  ASSUME BaseInv, OwnInv, [Next]_vars
  PROVE  Unclaimed'
<1> USE DEF BaseInv, OwnInv
<1>1. CASE step' \in {"batch", "save"}
  BY <1>1 DEF Unclaimed
<1>2. CASE CycleEnds
  BY <1>2 DEF CycleEnds, Unclaimed
<1>3. CASE /\ UNCHANGED <<work, dest, claimed>>
           /\ step \in {"batch", "save"} => step' \in {"batch", "save"}
  BY <1>3 DEF Unclaimed
<1>4. ASSUME NEW r \in Remotes, Inspect(r) PROVE Unclaimed'
  BY <1>4 DEF Inspect, Unclaimed, TypeOK
<1> QED
  BY <1>1, <1>2, <1>3, <1>4
  DEF Next, Load, Cycle, FileStep, Environment, Walk, SaveAdopted, BatchBegins, NoBatch,
      BeginFile, Fetch, VerifyDownload, Settle, Place, FileFails, Apply, SaveBatch, Crash,
      RemoteChanges, UserPuts, UserDeletes, cycleVars, batchVars, vars

LEMMA IndexedStep ==
  ASSUME BaseInv, OwnInv, [Next]_vars
  PROVE  Indexed'
<1> USE DEF OwnInv
<1>1. CASE /\ UNCHANGED <<mem, owner>>
           /\ step' = "batch" => step = "batch"
  BY <1>1 DEF Indexed
<1>2. CASE step' # "batch"
  BY <1>2 DEF Indexed
<1>3. CASE BatchBegins
  <2>1. UNCHANGED mem
    BY <1>3 DEF BatchBegins
  <2>2. \A p \in Paths : IF Owners(p) # {} THEN owner'[p] \in Owners(p) ELSE owner'[p] = "nobody"
    BY <1>3 DEF BatchBegins
  <2> QED
    BY <2>1, <2>2, Nobody DEF Owners, Indexed
<1> QED
  BY <1>1, <1>2, <1>3
  DEF Next, Load, Cycle, FileStep, Environment, Walk, Inspect, SaveAdopted, NoBatch,
      BeginFile, Fetch, VerifyDownload, Settle, Place, FileFails, Apply, SaveBatch, Crash,
      RemoteChanges, UserPuts, UserDeletes, cycleVars, batchVars, vars

\* A granted destination was claimed by nobody else, and is the recorded one or
\* free, on disk as in the manifest.
LEMMA GrantedFree ==
  ASSUME BaseInv, OwnInv, step = "batch", NEW r \in Remotes, NEW p \in Paths,
         \/ KeepsRecorded(r) /\ p = mem[r].path
         \/ ~KeepsRecorded(r) /\ ~unavailableTo(p, r)
  PROVE  /\ claimed[p] \in {r, "nobody"}
         /\ mem[r].path = p \/ disk[p] = NoFile
         /\ mem[r] # NoEntry /\ mem[r].path \notin shared => mem[r].path = p
         /\ \A s \in Remotes \ {r} : mem[s] # NoEntry /\ mem[s].path = p => p \in shared
<1> USE DEF OwnInv
<1>1. CASE KeepsRecorded(r) /\ p = mem[r].path
  BY <1>1 DEF KeepsRecorded, claimedByOther, Distinct
<1>2. CASE ~KeepsRecorded(r) /\ ~unavailableTo(p, r)
  <2>1. claimed[p] \in {r, "nobody"} /\ owner[p] \in {r, "nobody"} /\ disk[p] = NoFile
    BY <1>2 DEF unavailableTo, claimedByOther
  <2>2. mem[r] # NoEntry => mem[r].path \in shared
    BY <1>2 DEF KeepsRecorded, claimedByOther, Claims
  <2>3. ASSUME NEW s \in Remotes \ {r}, mem[s] # NoEntry, mem[s].path = p PROVE p \in shared
    <3>1. owner[p] = r
      BY <2>1, <2>3 DEF Indexed
    <3>2. mem[r].path = p
      BY <3>1 DEF Indexed
    <3> QED
      BY <2>3, <3>2 DEF Distinct
  <2> QED
    BY <2>1, <2>2, <2>3
<1> QED
  BY <1>1, <1>2

LEMMA ClaimsStep ==
  ASSUME BaseInv, OwnInv, [Next]_vars
  PROVE  Claims'
<1> USE DEF OwnInv
<1>0. TypeOK /\ TypeOK'
  BY TypeStep DEF BaseInv
<1>1. CASE UNCHANGED <<mem, dest, claimed, shared>>
  BY <1>1 DEF Claims
<1>2. CASE step' \notin {"batch", "save"}
  <2>1. Unclaimed'
    BY UnclaimedStep
  <2>2. \A r \in Remotes : dest'[r] \notin Paths
    BY <1>2, <2>1, Nobody DEF Unclaimed
  <2>3. \A r \in Remotes : mem'[r] # NoEntry => mem'[r].path \in Paths
    BY <1>0 DEF TypeOK, Entries
  <2>4. \A p \in Paths : claimed'[p] = "nobody"
    BY <1>2, <2>1 DEF Unclaimed
  <2> QED
    BY <2>2, <2>3, <2>4 DEF Claims
<1>3. ASSUME NEW r \in Remotes, BeginFile(r) \/ Settle(r) PROVE Claims'
  <2>1. UNCHANGED <<mem, shared>> /\ step = "batch"
    BY <1>3 DEF BeginFile, Settle, world
  <2>2. CASE UNCHANGED <<dest, claimed>>
    BY <2>1, <2>2 DEF Claims
  <2>3. ASSUME NEW p \in Paths,
               \/ KeepsRecorded(r) /\ p = mem[r].path
               \/ ~KeepsRecorded(r) /\ ~unavailableTo(p, r),
               dest' = [dest EXCEPT ![r] = p],
               claimed' = [claimed EXCEPT ![p] = r]
        PROVE  Claims'
    <3>1. /\ claimed[p] \in {r, "nobody"}
          /\ mem[r] # NoEntry /\ mem[r].path \notin shared => mem[r].path = p
          /\ \A s \in Remotes \ {r} : mem[s] # NoEntry /\ mem[s].path = p => p \in shared
      BY <2>1, <2>3, GrantedFree
    <3>2. dest'[r] = p /\ \A s \in Remotes \ {r} : dest'[s] = dest[s]
      BY <1>0, <2>3 DEF TypeOK
    <3>3. claimed'[p] = r /\ \A q \in Paths \ {p} : claimed'[q] = claimed[q]
      BY <1>0, <2>3 DEF TypeOK
    <3>4. \A s \in Remotes \ {r} : dest[s] \in Paths => dest[s] # p
      BY <3>1, Nobody DEF Claims
    <3>5. \A s \in Remotes : mem[s] # NoEntry => mem[s].path \in Paths
      BY <1>0, EntryPath
    <3> QED
      BY <2>1, <3>1, <3>2, <3>3, <3>4, <3>5 DEF Claims
  <2> QED
    BY <1>0, <1>3, <2>2, <2>3, Granted, DestTyped DEF BeginFile, Settle
<1>4. CASE Apply
  <2>1. UNCHANGED <<dest, claimed, shared>>
    BY <1>4 DEF Apply, world, cycleVars, batchVars
  <2> QED
    BY <1>4, <2>1, Applied DEF Claims
<1> QED
  BY <1>1, <1>2, <1>3, <1>4
  DEF Next, Load, Cycle, FileStep, Environment, Walk, Inspect, SaveAdopted, BatchBegins, NoBatch,
      Fetch, VerifyDownload, Place, FileFails, SaveBatch, Crash, RemoteChanges, UserPuts,
      UserDeletes, world, cycleVars, batchVars, vars

\* What a rename changes, and that it leaves the other photos' paths alone.
LEMMA Renamed ==
  ASSUME BaseInv, NEW r \in Remotes, Place(r)
  PROVE  /\ UNCHANGED <<mem, saved, step, dest, listing, got, shared>>
         /\ dest[r] \in Paths /\ listing[r] # 0 /\ listing[r] <= got[r]
         /\ disk'[dest[r]] = Bytes[r][got[r]]
         /\ \A p \in Paths \ {dest[r]} : /\ disk'[p] = disk[p]
                                         /\ p \in touched' <=> p \in touched
         /\ work'[r] = "placed"
         /\ \A s \in Remotes \ {r} : work'[s] = work[s]
BY Numbers DEF Place, BaseInv, Underway, TypeOK

LEMMA SettledStep ==
  ASSUME BaseInv, OwnInv, [Next]_vars
  PROVE  Settled'
<1> USE DEF OwnInv
<1>0. TypeOK
  BY DEF BaseInv
<1>1. CASE UNCHANGED <<work, dest, disk, mem>>
  BY <1>1 DEF Settled
<1>2. CASE step' \notin {"batch", "save"}
  BY <1>2, UnclaimedStep DEF Unclaimed, Settled
<1>3. ASSUME NEW r \in Remotes, BeginFile(r) \/ Settle(r) PROVE Settled'
  <2>1. UNCHANGED <<disk, mem>> /\ step = "batch"
    BY <1>3 DEF BeginFile, Settle
  <2>2. CASE /\ \A s \in Remotes \ {r} : work'[s] = work[s] /\ dest'[s] = dest[s]
             /\ work'[r] \in {"none", "begun"}
    BY <2>1, <2>2 DEF Settled
  <2>3. ASSUME NEW p \in Paths,
               \/ KeepsRecorded(r) /\ p = mem[r].path
               \/ ~KeepsRecorded(r) /\ ~unavailableTo(p, r),
               work' = [work EXCEPT ![r] = "settled"],
               dest' = [dest EXCEPT ![r] = p]
        PROVE  Settled'
    <3>1. mem[r].path = p \/ disk[p] = NoFile
      BY <2>1, <2>3, GrantedFree
    <3>2. dest'[r] = p /\ \A s \in Remotes \ {r} : work'[s] = work[s] /\ dest'[s] = dest[s]
      BY <1>0, <2>3 DEF TypeOK
    <3> QED
      BY <2>1, <3>1, <3>2 DEF Settled
  <2>4. CASE BeginFile(r)
    <3>1. \/ work' = [work EXCEPT ![r] = "none"] /\ UNCHANGED dest
          \/ /\ work' = [work EXCEPT ![r] = "begun"]
             /\ UNCHANGED dest \/ \E p \in Paths : dest' = [dest EXCEPT ![r] = p]
      BY <1>0, <2>4, Granted, DestTyped DEF BeginFile
    <3> QED
      BY <1>0, <2>2, <3>1 DEF TypeOK
  <2>5. CASE Settle(r)
    <3>1. CASE work' = [work EXCEPT ![r] = "none"] /\ UNCHANGED dest
      BY <1>0, <2>2, <3>1 DEF TypeOK
    <3> QED
      BY <1>0, <2>3, <2>5, <3>1, Granted, DestTyped DEF Settle
  <2> QED
    BY <1>3, <2>4, <2>5
<1>4. ASSUME NEW r \in Remotes, Fetch(r) \/ VerifyDownload(r) \/ FileFails(r) PROVE Settled'
  <2>1. /\ UNCHANGED <<dest, disk, mem>>
        /\ work'[r] # "settled"
        /\ \A s \in Remotes \ {r} : work'[s] = work[s]
    BY <1>0, <1>4 DEF Fetch, VerifyDownload, FileFails, TypeOK
  <2> QED
    BY <2>1 DEF Settled
<1>5. ASSUME NEW r \in Remotes, Place(r) PROVE Settled'
  <2>1. \A s \in Remotes \ {r} : work[s] = "settled" => dest[s] \in Paths \ {dest[r]}
    BY <1>0, <1>5, Renamed, OwnPath DEF BaseInv, Underway
  <2> QED
    BY <1>5, <2>1, Renamed DEF Settled
<1>6. ASSUME NEW q \in Paths, UserPuts(q) \/ UserDeletes(q) PROVE Settled'
  <2>1. UNCHANGED <<work, dest, mem>> /\ \A p \in Paths \ {q} : disk'[p] = disk[p]
    BY <1>0, <1>6 DEF UserPuts, UserDeletes, cycleVars, batchVars, TypeOK
  <2>2. \A r \in Remotes : work[r] = "settled" => dest[r] \in Paths \ {q}
    BY <1>6 DEF UserPuts, UserDeletes, AboutToBeWritten, BaseInv, Underway
  <2> QED
    BY <2>1, <2>2 DEF Settled
<1>7. CASE Apply
  BY <1>7 DEF Apply, cycleVars, batchVars, Settled
<1> QED
  BY <1>1, <1>2, <1>3, <1>4, <1>5, <1>6, <1>7
  DEF Next, Load, Cycle, FileStep, Environment, Walk, Inspect, SaveAdopted, BatchBegins, NoBatch,
      SaveBatch, Crash, RemoteChanges, cycleVars, batchVars, vars

LEMMA OwnInit == Init => OwnInv
<1> SUFFICES ASSUME Init PROVE OwnInv
  OBVIOUS
<1>1. /\ mem = [r \in Remotes |-> NoEntry] /\ saved = mem /\ step = "idle"
      /\ claimed = [p \in Paths |-> "nobody"] /\ dest = [r \in Remotes |-> "none"]
      /\ work = [r \in Remotes |-> "none"]
  BY DEF Init, Idle
<1> QED
  BY <1>1, Nobody DEF OwnInv, Distinct, Kept, Claims, Indexed, Unclaimed, Settled

LEMMA OwnStep == BaseInv /\ OwnInv /\ [Next]_vars => OwnInv'
BY DistinctStep, KeptStep, ClaimsStep, IndexedStep, UnclaimedStep, SettledStep DEF OwnInv

LEMMA OwnAlways == Safe => [](BaseInv /\ OwnInv)
BY BaseInit, BaseStep, OwnInit, OwnStep, PTL DEF Safe

\* OnePathEach for any photos, contents, layouts, policies and ways to compare:
\* no batch ever gives a photo the path recorded for another one.
THEOREM OnlyAdoptionShares == Safe => []OnePathEach
<1>1. OwnInv => OnePathEach
  BY DEF OwnInv, Distinct, OnePathEach
<1> QED
  BY <1>1, OwnAlways, PTL

-----------------------------------------------------------------------------
(***************************************************************************)
(* What is on disk when contents are compared by hash: at a path that is   *)
(* one photo's and that the user left alone, nothing older than recorded.  *)
(***************************************************************************)

Sha == Verify = "sha256"

IsHeld(r, p, v) == p \notin touched \cup shared => disk[p] \in Since(r, v)

Held ==
  \A r \in Remotes : /\ mem[r] # NoEntry => IsHeld(r, mem[r].path, mem[r].v)
                     /\ saved[r] # NoEntry => IsHeld(r, saved[r].path, saved[r].v)
                     /\ work[r] = "placed" => IsHeld(r, dest[r], listing[r])

HeldIfSha == Sha => Held

LEMMA SinceLater ==
  ASSUME NEW r \in Remotes, NEW v \in Nat, NEW w \in Nat, v <= w, w <= MaxVersion
  PROVE  Bytes[r][w] \in Since(r, v) /\ Since(r, w) \subseteq Since(r, v)
BY LibraryAssumption DEF Since

\* After a rename the destination holds the photo, at least as new as listed;
\* the paths of other photos keep what they had, unless they are shared.
LEMMA PlacedIsHeld ==
  ASSUME BaseInv, NEW r \in Remotes, Place(r), NEW v \in Nat, v <= listing[r]
  PROVE  disk'[dest[r]] \in Since(r, v)
<1>0. TypeOK /\ MaxVersion \in Nat
  BY LibraryAssumption DEF BaseInv
<1>1. v <= got[r] /\ got[r] \in Nat /\ got[r] <= MaxVersion
  <2>1. listing[r] \in Nat /\ listing[r] <= got[r]
    BY <1>0, Renamed, Numbers
  <2> QED
    BY <1>0, <2>1 DEF TypeOK
<1> QED
  BY <1>1, Renamed, SinceLater

LEMMA StaysHeld ==
  ASSUME NEW p, NEW S, disk'[p] = disk[p], p \in touched' <=> p \in touched,
         shared \subseteq shared', p \notin touched \cup shared => disk[p] \in S
  PROVE  p \notin touched' \cup shared' => disk'[p] \in S
OBVIOUS

LEMMA HeldInit == Init => HeldIfSha
<1> SUFFICES ASSUME Init, NEW r \in Remotes
             PROVE  mem[r] = NoEntry /\ saved[r] = NoEntry /\ work[r] # "placed"
  BY DEF HeldIfSha, Held
<1> QED
  BY DEF Init, Idle

LEMMA HeldStep ==
  ASSUME BaseInv, OwnInv, Sha, Held, [Next]_vars
  PROVE  Held'
<1>0. TypeOK
  BY DEF BaseInv
<1>1. ASSUME UNCHANGED <<disk, mem, saved, touched, shared>>,
             \A r \in Remotes : work'[r] = "placed" =>
               work[r] = "placed" /\ dest'[r] = dest[r] /\ listing'[r] = listing[r]
      PROVE  Held'
  BY <1>1 DEF Held, IsHeld, Since
<1>2. CASE Load
  BY <1>2 DEF Load, Held, IsHeld, Since, world, cycleVars, batchVars
<1>3. CASE Crash
  BY <1>3 DEF Crash, CycleEnds, Held, IsHeld, Since, world
<1>4. ASSUME NEW r \in Remotes, Inspect(r) PROVE Held'
  <2>1. /\ UNCHANGED <<disk, saved, touched, dest, listing>> /\ shared \subseteq shared'
        /\ \A s \in Remotes : work'[s] # "placed"
    BY <1>0, <1>4 DEF Inspect, OwnInv, Unclaimed, TypeOK
  <2>2. \A s \in Remotes : saved[s] # NoEntry => IsHeld(s, saved[s].path, saved[s].v)'
    BY <2>1 DEF Held, IsHeld, Since
  <2>3. \A s \in Remotes : mem'[s] = mem[s] /\ mem[s] # NoEntry
                             => IsHeld(s, mem[s].path, mem[s].v)'
    BY <2>1 DEF Held, IsHeld, Since
  <2>4. mem'[r] = mem[r] \/ IsHeld(r, mem[r].path, mem[r].v)'
    <3>1. CASE /\ adoptable(r, disk[Home[r]])
               /\ mem'[r] = [v |-> listing[r], path |-> Home[r]]
      <4>1. disk[Home[r]] = Bytes[r][remote[r]]
        BY <3>1 DEF adoptable, Sha
      <4>2. listing[r] <= remote[r] /\ listing[r] \in Nat /\ remote[r] \in Nat
        BY <1>0, Numbers DEF BaseInv, Versions
      <4>3. remote[r] <= MaxVersion
        BY <1>0, LibraryAssumption DEF TypeOK
      <4>4. disk[Home[r]] \in Since(r, listing[r])
        BY <4>1, <4>2, <4>3, SinceLater
      <4>5. mem'[r].path = Home[r] /\ mem'[r].v = listing[r]
        BY <3>1
      <4>6. IsHeld(r, Home[r], listing[r])'
        BY <2>1, <4>4 DEF IsHeld, Since
      <4> QED
        BY <2>1, <4>5, <4>6 DEF IsHeld, Since
    <3> QED
      BY <1>4, <3>1, Adopted
  <2>5. \A s \in Remotes \ {r} : mem'[s] = mem[s]
    BY <1>4, Adopted
  <2>6. \A s \in Remotes : mem'[s] # NoEntry => IsHeld(s, mem[s].path, mem[s].v)'
    BY <2>3, <2>4, <2>5 DEF IsHeld, Since
  <2> QED
    BY <2>1, <2>2, <2>6 DEF Held, IsHeld, Since
<1>5. CASE SaveAdopted \/ SaveBatch
  <2>1. /\ UNCHANGED <<disk, mem, touched, shared>>
        /\ saved' = mem \/ saved' = saved
        /\ \A r \in Remotes : work'[r] # "placed"
    BY <1>0, <1>5, SaveTyped DEF SaveAdopted, SaveBatch, CycleEnds, world, batchVars, OwnInv, Unclaimed
  <2> QED
    BY <2>1 DEF Held, IsHeld, Since
<1>6. ASSUME NEW r \in Remotes, Place(r) PROVE Held'
  <2>1. step = "batch" /\ touched' = touched \ {dest[r]}
    BY <1>6 DEF Place
  <2>2. /\ mem[r].v \in Nat /\ saved[r].v \in Nat /\ listing[r] \in Nat
        /\ mem[r].v <= listing[r] /\ saved[r].v <= listing[r]
    BY <1>0, <1>6, <2>1, Numbers, Renamed DEF BaseInv, Forward
  <2>3. ASSUME NEW s \in Remotes, mem[s] # NoEntry PROVE IsHeld(s, mem[s].path, mem[s].v)'
    <3>1. CASE mem[s].path # dest[r]
      BY <1>0, <1>6, <2>3, <3>1, EntryPath, Renamed DEF Held, IsHeld, Since
    <3>2. CASE mem[s].path = dest[r] /\ s # r
      BY <1>0, <1>6, <2>3, <3>2, OwnPath, Renamed DEF OwnInv, IsHeld
    <3>3. CASE mem[s].path = dest[r] /\ s = r
      BY <1>6, <2>2, <3>3, PlacedIsHeld, Renamed DEF IsHeld, Since
    <3> QED
      BY <3>1, <3>2, <3>3
  <2>4. ASSUME NEW s \in Remotes, saved[s] # NoEntry PROVE IsHeld(s, saved[s].path, saved[s].v)'
    <3>1. mem[s] # NoEntry /\ (saved[s].path \notin shared => mem[s].path = saved[s].path)
      BY <2>1, <2>4 DEF OwnInv, Kept
    <3>2. CASE saved[s].path # dest[r]
      BY <1>0, <1>6, <2>4, <3>2, EntryPath, Renamed DEF Held, IsHeld, Since
    <3>3. CASE saved[s].path = dest[r] /\ s # r
      BY <1>0, <1>6, <3>1, <3>3, OwnPath, Renamed DEF OwnInv, IsHeld
    <3>4. CASE saved[s].path = dest[r] /\ s = r
      BY <1>6, <2>2, <3>4, PlacedIsHeld, Renamed DEF IsHeld, Since
    <3> QED
      BY <3>2, <3>3, <3>4
  <2>5. ASSUME NEW s \in Remotes, work'[s] = "placed" PROVE IsHeld(s, dest[s], listing[s])'
    <3>1. CASE s = r
      BY <1>6, <2>2, <3>1, PlacedIsHeld, Renamed DEF IsHeld, Since
    <3>2. CASE s # r
      <4>1. work[s] = "placed" /\ dest[s] \in Paths \ {dest[r]}
        BY <1>0, <1>6, <2>5, <3>2, OwnPath, Renamed DEF BaseInv, OwnInv, Underway
      <4> QED
        BY <1>6, <4>1, Renamed DEF Held, IsHeld, Since
    <3> QED
      BY <3>1, <3>2
  <2> QED
    BY <1>6, <2>3, <2>4, <2>5, Renamed DEF Held, IsHeld, Since
<1>7. CASE Apply
  <2>1. UNCHANGED <<disk, saved, touched, shared, work, dest, listing>>
    BY <1>7 DEF Apply, world, cycleVars, batchVars
  <2>2. \A r \in Remotes : mem'[r] = afterBatch(r)
    BY <1>7 DEF Apply
  <2>3. ASSUME NEW r \in Remotes, mem'[r] # NoEntry PROVE IsHeld(r, mem[r].path, mem[r].v)'
    <3>1. CASE work[r] = "placed"
      <4>0. mem'[r] = entryFor(r)
        BY <2>2, <3>1, Zenon DEF afterBatch
      <4>1. mem'[r].path = dest[r] /\ mem'[r].v = listing[r]
        BY <4>0 DEF entryFor
      <4> QED
        BY <2>1, <3>1, <4>1 DEF Held, IsHeld, Since
    <3>2. CASE work[r] # "placed"
      <4>1. mem'[r] = mem[r]
        BY <2>2, <3>2 DEF afterBatch
      <4> QED
        BY <2>1, <2>3, <4>1 DEF Held, IsHeld, Since
    <3> QED
      BY <3>1, <3>2
  <2> QED
    BY <2>1, <2>3 DEF Held, IsHeld, Since
<1>8. ASSUME NEW q \in Paths, UserPuts(q) \/ UserDeletes(q) PROVE Held'
  <2>1. /\ UNCHANGED <<mem, saved, shared, work, dest, listing>>
        /\ touched' = touched \cup {q}
        /\ \A p \in Paths \ {q} : disk'[p] = disk[p]
    BY <1>0, <1>8 DEF UserPuts, UserDeletes, cycleVars, batchVars, TypeOK
  <2>2. \A r \in Remotes : /\ mem[r] = NoEntry \/ mem[r].path \in Paths
                           /\ saved[r] = NoEntry \/ saved[r].path \in Paths
                           /\ work[r] = "placed" => dest[r] \in Paths
    BY <1>0, EntryPath DEF BaseInv, Underway
  <2> QED
    BY <2>1, <2>2 DEF Held, IsHeld, Since
<1>9. CASE NoBatch
  BY <1>1, <1>9 DEF NoBatch, CycleEnds, world
<1>10. ASSUME NEW r \in Remotes, BeginFile(r) \/ Settle(r) PROVE Held'
  <2>1. UNCHANGED <<disk, mem, saved, touched, shared, listing>>
    BY <1>10 DEF BeginFile, Settle, world
  <2>2. work'[r] # "placed" /\ \A s \in Remotes \ {r} : work'[s] = work[s] /\ dest'[s] = dest[s]
    BY <1>0, <1>10, Granted, DestTyped DEF BeginFile, Settle, TypeOK
  <2> QED
    BY <1>1, <2>1, <2>2
<1>11. ASSUME NEW r \in Remotes, Fetch(r) \/ VerifyDownload(r) \/ FileFails(r) PROVE Held'
  <2>1. UNCHANGED <<disk, mem, saved, touched, shared, listing, dest>>
    BY <1>11 DEF Fetch, VerifyDownload, FileFails, world
  <2>2. work'[r] # "placed" /\ \A s \in Remotes \ {r} : work'[s] = work[s]
    BY <1>0, <1>11 DEF Fetch, VerifyDownload, FileFails, TypeOK
  <2> QED
    BY <1>1, <2>1, <2>2
<1>12. CASE Walk
  <2>1. UNCHANGED <<disk, mem, saved, touched, shared, work, dest>>
    BY <1>12 DEF Walk, world, batchVars
  <2>2. \A r \in Remotes : work[r] # "placed"
    BY <1>12 DEF Walk, OwnInv, Unclaimed
  <2> QED
    BY <1>1, <2>1, <2>2
<1>13. CASE BatchBegins \/ UNCHANGED vars
  BY <1>1, <1>13 DEF BatchBegins, world, vars
<1>14. ASSUME NEW r \in Remotes, RemoteChanges(r) PROVE Held'
  BY <1>1, <1>14 DEF RemoteChanges, cycleVars, batchVars
<1> QED
  BY <1>2, <1>3, <1>4, <1>5, <1>6, <1>7, <1>8, <1>9, <1>10, <1>11, <1>12, <1>13, <1>14
  DEF Next, Cycle, FileStep, Environment

LEMMA SameSettings == [Next]_vars => UNCHANGED settings
BY DEF Next, Load, Cycle, FileStep, Environment, Walk, Inspect, SaveAdopted, BatchBegins,
       NoBatch, BeginFile, Fetch, VerifyDownload, Settle, Place, FileFails, Apply, SaveBatch,
       Crash, RemoteChanges, UserPuts, UserDeletes, world, vars

LEMMA HeldAlways == Safe => []HeldIfSha
<1>1. BaseInv /\ OwnInv /\ HeldIfSha /\ [Next]_vars => HeldIfSha'
  <2> SUFFICES ASSUME BaseInv, OwnInv, HeldIfSha, [Next]_vars, Sha' PROVE Held'
    BY DEF HeldIfSha
  <2>1. Sha
    BY SameSettings DEF Sha, Verify
  <2> QED
    BY <2>1, HeldStep DEF HeldIfSha
<1> QED
  BY <1>1, HeldInit, OwnAlways, PTL DEF Safe

\* ManifestTruthful for any photos, contents, layouts and policies: what a
\* manifest compared by hash claims, in memory or on disk, is there, however
\* often the daemon died or a save failed.
THEOREM ManifestAlwaysTrue == Safe => []ManifestTruthful
<1>1. HeldIfSha => ManifestTruthful
  BY DEF HeldIfSha, Sha, Held, IsHeld, Truthful, ManifestTruthful
<1> QED
  BY <1>1, HeldAlways, PTL

LEMMA OverwroteStep ==
  ASSUME BaseInv, OwnInv, HeldIfSha, OverwritesExplained, [Next]_vars
  PROVE  OverwritesExplained'
<1>0. UNCHANGED settings
  BY SameSettings
<1>1. CASE UNCHANGED overwrote
  BY <1>0, <1>1 DEF OverwritesExplained, Verify
<1>2. ASSUME NEW r \in Remotes, Place(r) PROVE OverwritesExplained'
  <2>1. Foreign(r) => Reason(r) # "new"
    BY <1>2 DEF Place, OwnInv, Settled, Foreign, Reason
  <2>2. ASSUME Sha, Reason(r) = "own" PROVE ~Foreign(r)
    <3>1. mem[r].path = dest[r] /\ dest[r] \notin touched \cup shared /\ dest[r] \in Paths
      BY <1>2, <2>2, Renamed DEF Reason
    <3>2. mem[r] # NoEntry
      BY <3>1, PathEntry
    <3>3. disk[dest[r]] \in Since(r, mem[r].v)
      BY <2>2, <3>1, <3>2 DEF HeldIfSha, Held, IsHeld
    <3>4. mem[r].v \in 1 .. MaxVersion /\ MaxVersion \in Nat
      BY <3>2, LibraryAssumption DEF BaseInv, TypeOK, Entries
    <3>5. Since(r, mem[r].v) \subseteq Since(r, 1)
      BY <3>4, SinceLater
    <3> QED
      BY <3>3, <3>5 DEF Foreign
  <2>3. Reason(r) \in {"new", "touched", "shared", "own"}
    BY DEF Reason
  <2>4. overwrote' = IF Foreign(r) THEN overwrote \cup {Reason(r)} ELSE overwrote
    BY <1>2 DEF Place
  <2> QED
    BY <1>0, <2>1, <2>2, <2>3, <2>4 DEF OverwritesExplained, Sha, Verify
<1> QED
  BY <1>1, <1>2
  DEF Next, Load, Cycle, FileStep, Environment, Walk, Inspect, SaveAdopted, BatchBegins, NoBatch,
      BeginFile, Fetch, VerifyDownload, Settle, FileFails, Apply, SaveBatch, Crash,
      RemoteChanges, UserPuts, UserDeletes, vars

\* OverwritesExplained for any photos, contents, layouts and policies: no path
\* new to a photo holds anything when it is renamed onto, and with sha256 the
\* photo's own path holds something else only if the user put it there or the
\* path is shared.
THEOREM OverwritesAreExplained == Safe => []OverwritesExplained
<1>1. Init => OverwritesExplained
  BY DEF Init, OverwritesExplained
<1>2. BaseInv /\ OwnInv /\ HeldIfSha /\ OverwritesExplained /\ [Next]_vars => OverwritesExplained'
  BY OverwroteStep
<1> QED
  BY <1>1, <1>2, OwnAlways, HeldAlways, PTL DEF Safe
=============================================================================
