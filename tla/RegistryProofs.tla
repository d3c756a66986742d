--------------------------- MODULE RegistryProofs ---------------------------
(***************************************************************************)
(* What holds of a daemon with any number of jobs, however often it dies,  *)
(* its saves fail and its config files break.                              *)
(***************************************************************************)
EXTENDS Registry, TLAPS

-----------------------------------------------------------------------------
(***************************************************************************)
(* Types, with any number of clients at once.                              *)
(***************************************************************************)

\* Only jobs that have an ID can be in a file or in a save under way.
Known == \A j \in Jobs \ used : /\ ~paused[j]
                                /\ reg.entries[j] = "absent" /\ tmp.entries[j] = "absent"
                                /\ \A c \in Callers : seen[c][j] = "absent"

\* A save under way lists jobs that have an ID.
Listing == \A c \in Callers : listed[c] \subseteq used

\* A request is about a job that has an ID.
Asked == \A c \in Callers : pc[c] # "idle" => req[c].job \in used

TypeInv == TypeOK /\ Known /\ Listing /\ Asked

Budget == [faults : 0 .. MaxFaults, crashes : 0 .. MaxCrashes, changes : 0 .. MaxChanges]

LEMMA BudgetTyped ==
  ASSUME TypeOK
  PROVE  (Fine => budget' \in Budget) /\ (Fault => budget' \in Budget)
<1>1. MaxFaults \in Nat
  BY RegistryAssumption
<1> QED
  BY <1>1 DEF Fine, Fault, TypeOK, Budget

LEMMA FileTyped ==
  ASSUME NEW f \in FileContents
  PROVE  /\ f.entries \in Entries
         /\ f.how \in {"missing", "empty", "torn", "whole"}
         /\ f.how = "missing" => f = Missing
         /\ f.how = "whole" => f = File("whole", f.entries)
BY DEF FileContents, Missing, Empty, Torn, File, Entries, NoEntry

LEMMA OverlayTyped ==
  ASSUME NEW f \in FileContents, NEW e \in Entries
  PROVE  /\ Overlay(f, e) \in FileContents
         /\ Overlay(f, e) = File("whole", e) \/ Overlay(f, e) = Torn
BY DEF Overlay, FileContents

LEMMA EntryTyped == \A b : newRegistryEntry(b) \in {"active", "paused"}
BY DEF newRegistryEntry

LEMMA WantedTyped == \A kind : Wanted(kind) \in {"absent", "active", "paused"}
BY DEF Wanted

\* What an answer changes.
LEMMA AnswerTyped ==
  ASSUME TypeOK, NEW c \in Callers, NEW ok, Answer(c, ok)
  PROVE  /\ pc' \in [Callers -> PCs]
         /\ req' \in [Callers -> [kind : Kinds, job : Jobs, prev : BOOLEAN] \cup {NoRequest}]
         /\ alone' \in [Callers -> BOOLEAN]
         /\ promised' \in [Jobs -> {"none", "absent", "active", "paused"}]
<1>1. pc' \in [Callers -> PCs]
  BY DEF Answer, Goto, PCs, TypeOK
<1>2. req' \in [Callers -> [kind : Kinds, job : Jobs, prev : BOOLEAN] \cup {NoRequest}]
  BY DEF Answer, TypeOK
<1>3. alone' \in [Callers -> BOOLEAN]
  BY DEF Answer, TypeOK
<1>4. promised' \in [Jobs -> {"none", "absent", "active", "paused"}]
  BY WantedTyped DEF Answer, TypeOK
<1> QED
  BY <1>1, <1>2, <1>3, <1>4

LEMMA ReceiveTyped ==
  ASSUME TypeOK, NEW c \in Callers, NEW kind \in Kinds, NEW j \in Jobs, NEW prev \in BOOLEAN,
         NEW place \in PCs, Receive(c, kind, j, prev, place)
  PROVE  /\ pc' \in [Callers -> PCs]
         /\ req' \in [Callers -> [kind : Kinds, job : Jobs, prev : BOOLEAN] \cup {NoRequest}]
         /\ alone' \in [Callers -> BOOLEAN]
<1>1. pc' \in [Callers -> PCs]
  BY DEF Receive, Goto, TypeOK
<1>2. req' \in [Callers -> [kind : Kinds, job : Jobs, prev : BOOLEAN] \cup {NoRequest}]
  BY DEF Receive, TypeOK
<1>3. alone' \in [Callers -> BOOLEAN]
  BY DEF Receive, TypeOK
<1> QED
  BY <1>1, <1>2, <1>3

LEMMA TypeInit == Init => TypeInv
<1> SUFFICES ASSUME Init PROVE TypeInv
  OBVIOUS
<1>1. {MaxFaults, MaxCrashes, MaxChanges} \subseteq Nat
  BY RegistryAssumption
<1>2. budget \in Budget
  BY <1>1 DEF Init, Budget
<1>3. NoEntry \in Entries /\ Missing \in FileContents
  BY DEF NoEntry, Entries, FileContents
<1>4. TypeOK
  BY <1>2, <1>3 DEF Init, TypeOK, PCs, Budget
<1> QED
  BY <1>4 DEF Init, TypeInv, Known, Listing, Asked, Missing, File, NoEntry

LEMMA TypeStep == TypeInv /\ [Next]_vars => TypeInv'
<1> SUFFICES ASSUME TypeOK, Known, Listing, Asked, [Next]_vars
             PROVE  TypeOK' /\ Known' /\ Listing' /\ Asked'
  BY DEF TypeInv
<1>0. /\ NoEntry \in Entries /\ \A j \in Jobs : NoEntry[j] = "absent"
      /\ {Missing, Empty, Torn} \subseteq FileContents
      /\ Missing.entries = NoEntry /\ Empty.entries = NoEntry /\ Torn.entries = NoEntry
      /\ \A e : File("whole", e).entries = e
  BY DEF NoEntry, Entries, FileContents, Missing, Empty, Torn, File
<1> DEFINE Goal == TypeOK' /\ Known' /\ Listing' /\ Asked'
<1>1. ASSUME NEW c \in Callers, NEW j \in Jobs, Control(c, j) PROVE Goal
  <2>1. PICK kind \in {"pause", "resume"} : Receive(c, kind, j, paused[j], "act")
    BY <1>1 DEF Control
  <2>2. paused[j] \in BOOLEAN /\ kind \in Kinds /\ "act" \in PCs
    BY DEF TypeOK, Kinds, PCs
  <2>3. /\ pc' \in [Callers -> PCs]
        /\ req' \in [Callers -> [kind : Kinds, job : Jobs, prev : BOOLEAN] \cup {NoRequest}]
        /\ alone' \in [Callers -> BOOLEAN]
    BY <2>1, <2>2, ReceiveTyped
  <2>4. UNCHANGED <<memory, unsaved, reg, tmp, saving, config, promised, budget>>
    BY <1>1, <2>1 DEF Control, Receive
  <2>5. TypeOK'
    BY <2>3, <2>4 DEF memory, saving, config, TypeOK
  <2>6. Asked'
    BY <1>1, <2>1, <2>4 DEF Control, Receive, Goto, memory, Asked, TypeOK
  <2> QED
    BY <2>4, <2>5, <2>6 DEF memory, saving, Known, Listing
<1>2. ASSUME NEW c \in Callers, NEW j \in Jobs, AddJob(c, j) \/ RemoveJob(c, j) PROVE Goal
  <2>1. PICK kind \in Kinds : Receive(c, kind, j, FALSE, "list")
    BY <1>2 DEF AddJob, RemoveJob, Kinds
  <2>2. "list" \in PCs
    BY DEF PCs
  <2>3. /\ pc' \in [Callers -> PCs]
        /\ req' \in [Callers -> [kind : Kinds, job : Jobs, prev : BOOLEAN] \cup {NoRequest}]
        /\ alone' \in [Callers -> BOOLEAN]
    BY <2>1, <2>2, ReceiveTyped
  <2>4. /\ UNCHANGED <<up, paused, reg, tmp, saving, config, promised, budget>>
        /\ unsaved' = unsaved \cup {j}
        /\ \/ jobs' = jobs \cup {j} /\ used' = used \cup {j} /\ j \notin used
           \/ jobs' = jobs \ {j} /\ used' = used /\ j \in jobs
    BY <1>2, <2>1 DEF AddJob, newID, RemoveJob, Receive
  <2>5. skipped' \subseteq used' \ jobs'
    BY <2>4 DEF config, TypeOK
  <2>6. TypeOK'
    BY <2>3, <2>4, <2>5 DEF saving, config, TypeOK
  <2>7. Asked'
    BY <2>1, <2>4 DEF Receive, Goto, Asked, TypeOK
  <2> QED
    BY <2>4, <2>6, <2>7 DEF saving, Known, Listing
<1>3. ASSUME NEW c \in Callers, Act(c) PROVE Goal
  <2>1. paused' \in [Jobs -> BOOLEAN] /\ pc' \in [Callers -> PCs]
    BY <1>3 DEF Act, Goto, PCs, TypeOK
  <2>2. TypeOK'
    BY <1>3, <2>1 DEF Act, saving, config, TypeOK
  <2>3. req[c].job \in used
    BY <1>3 DEF Act, Asked
  <2>4. \A j \in Jobs \ used : paused'[j] = paused[j]
    BY <1>3, <2>3 DEF Act, TypeOK
  <2>5. Asked'
    BY <1>3 DEF Act, Goto, Asked, TypeOK
  <2> QED
    BY <1>3, <2>2, <2>4, <2>5 DEF Act, saving, Known, Listing
<1>4. ASSUME NEW c \in Callers, Compare(c) PROVE Goal
  <2>1. CASE Goto(c, "list") /\ UNCHANGED <<req, alone, promised>>
    <3>1. pc' \in [Callers -> PCs]
      BY <2>1 DEF Goto, PCs, TypeOK
    <3>2. UNCHANGED <<memory, reg, tmp, saving, config, unsaved, budget>>
      BY <1>4 DEF Compare
    <3>3. TypeOK'
      BY <2>1, <3>1, <3>2 DEF memory, saving, config, TypeOK
    <3>4. Asked'
      BY <1>4, <2>1, <3>2 DEF Compare, Goto, memory, Asked, TypeOK
    <3> QED
      BY <3>2, <3>3, <3>4 DEF memory, saving, Known, Listing
  <2>2. CASE Answer(c, req[c].job \notin unsaved)
    <3>1. /\ pc' \in [Callers -> PCs]
          /\ req' \in [Callers -> [kind : Kinds, job : Jobs, prev : BOOLEAN] \cup {NoRequest}]
          /\ alone' \in [Callers -> BOOLEAN]
          /\ promised' \in [Jobs -> {"none", "absent", "active", "paused"}]
      BY <2>2, AnswerTyped
    <3>2. UNCHANGED <<memory, reg, tmp, saving, config, unsaved, budget>>
      BY <1>4 DEF Compare
    <3>3. TypeOK'
      BY <3>1, <3>2 DEF memory, saving, config, TypeOK
    <3>4. Asked'
      BY <2>2, <3>2 DEF Answer, Goto, memory, Asked, TypeOK
    <3> QED
      BY <3>2, <3>3, <3>4 DEF memory, saving, Known, Listing
  <2> QED
    BY <1>4, <2>1, <2>2 DEF Compare
<1>5. ASSUME NEW c \in Callers, List(c) PROVE Goal
  <2>1. /\ pc' \in [Callers -> PCs]
        /\ seen' \in [Callers -> Entries]
        /\ listed' \in [Callers -> SUBSET Jobs]
    BY <1>0, <1>5 DEF List, Goto, PCs, TypeOK
  <2>2. TypeOK'
    BY <1>5, <2>1 DEF List, memory, config, TypeOK
  <2>3. Asked'
    BY <1>5 DEF List, Goto, memory, Asked, TypeOK
  <2>4. \A d \in Callers : \/ listed'[d] = listed[d] /\ seen'[d] = seen[d]
                           \/ listed'[d] = jobs /\ seen'[d] = NoEntry
    BY <1>5 DEF List, TypeOK
  <2>5. Known' /\ Listing'
    BY <1>0, <1>5, <2>4 DEF List, memory, Known, Listing, TypeOK
  <2> QED
    BY <2>2, <2>3, <2>5
<1>6. ASSUME NEW c \in Callers, NEW j \in Jobs, Read(c, j) PROVE Goal
  <2>1. newRegistryEntry(paused[j]) \in {"active", "paused"} /\ j \in used
    BY <1>6, EntryTyped DEF Read, Listing
  <2>2. seen[c] \in Entries
    BY DEF TypeOK
  <2>3. [seen[c] EXCEPT ![j] = newRegistryEntry(paused[j])] \in Entries
    BY <2>1, <2>2 DEF Entries
  <2>4. seen' = [seen EXCEPT ![c] = [seen[c] EXCEPT ![j] = newRegistryEntry(paused[j])]]
    BY <1>6 DEF Read, TypeOK
  <2>5. seen' \in [Callers -> Entries]
    BY <2>3, <2>4 DEF TypeOK
  <2>6. TypeOK'
    BY <1>6, <2>5 DEF Read, memory, requests, config, TypeOK
  <2>7. \A i \in Jobs \ used : \A d \in Callers : seen'[d][i] = seen[d][i]
    BY <2>1, <2>2, <2>4 DEF TypeOK, Entries
  <2> QED
    BY <1>6, <2>6, <2>7 DEF Read, memory, requests, Known, Listing, Asked, TypeOK
<1>7. ASSUME NEW c \in Callers, Open(c) PROVE Goal
  <2>1. budget' \in Budget
    BY <1>7, BudgetTyped DEF Open
  <2>2. pc' \in [Callers -> PCs] /\ fd' \in [Callers -> {"none", "tmp", "reg", "lost"}]
    BY <1>7 DEF Open, OpenTmp, Goto, PCs, TypeOK
  <2>3. UNCHANGED reg /\ (tmp' = Empty \/ tmp' = tmp)
    BY <1>7 DEF Open, OpenTmp
  <2>4. UNCHANGED <<memory, req, alone, listed, seen, config, promised, unsaved>>
    BY <1>7 DEF Open
  <2>5. TypeOK'
    BY <1>0, <2>1, <2>2, <2>3, <2>4 DEF memory, config, TypeOK, Budget
  <2>6. Asked'
    BY <1>7, <2>4 DEF Open, Goto, memory, Asked, TypeOK
  <2> QED
    BY <1>0, <2>3, <2>4, <2>5, <2>6 DEF memory, Known, Listing
<1>8. ASSUME NEW c \in Callers, Write(c) PROVE Goal
  <2>1. budget' \in Budget
    BY <1>8, BudgetTyped DEF Write
  <2>2. pc' \in [Callers -> PCs] /\ fd' \in [Callers -> {"none", "tmp", "reg", "lost"}]
    BY <1>8 DEF Write, Goto, PCs, TypeOK
  <2>3. /\ tmp' \in {tmp, Torn, File("whole", seen[c])}
        /\ reg' \in {reg, Torn, File("whole", seen[c])}
    <3>1. /\ Overlay(tmp, seen[c]) \in {Torn, File("whole", seen[c])}
          /\ Overlay(reg, seen[c]) \in {Torn, File("whole", seen[c])}
      BY DEF Overlay
    <3> QED
      BY <1>8, <3>1 DEF Write, Into
  <2>4. UNCHANGED <<memory, req, alone, listed, seen, config, promised, unsaved>>
    BY <1>8 DEF Write
  <2>5. File("whole", seen[c]) \in FileContents
    BY DEF FileContents, TypeOK
  <2>6. TypeOK'
    BY <1>0, <2>1, <2>2, <2>3, <2>4, <2>5 DEF memory, config, TypeOK, Budget
  <2>7. Asked'
    BY <1>8, <2>4 DEF Write, Goto, memory, Asked, TypeOK
  <2> QED
    BY <1>0, <2>3, <2>4, <2>6, <2>7 DEF memory, Known, Listing
<1>9. ASSUME NEW c \in Callers, Rename(c) PROVE Goal
  <2>1. budget' \in Budget
    BY <1>9, BudgetTyped DEF Rename
  <2>2. UNCHANGED <<memory, listed, seen, config>>
    BY <1>9 DEF Rename
  <2>3. /\ reg' \in {reg, tmp} /\ tmp' \in {tmp, Missing}
        /\ fd' \in [Callers -> {"none", "tmp", "reg", "lost"}]
        /\ unsaved' \subseteq Jobs
    BY <1>9 DEF Rename, TypeOK
  <2>4. CASE Answer(c, TRUE)
    <3>1. /\ pc' \in [Callers -> PCs]
          /\ req' \in [Callers -> [kind : Kinds, job : Jobs, prev : BOOLEAN] \cup {NoRequest}]
          /\ alone' \in [Callers -> BOOLEAN]
          /\ promised' \in [Jobs -> {"none", "absent", "active", "paused"}]
      BY <2>4, AnswerTyped
    <3>2. TypeOK'
      BY <1>0, <2>1, <2>2, <2>3, <3>1 DEF memory, config, TypeOK, Budget
    <3>3. Asked'
      BY <2>2, <2>4 DEF Answer, Goto, memory, Asked, TypeOK
    <3> QED
      BY <1>0, <2>2, <2>3, <3>2, <3>3 DEF memory, Known, Listing
  <2>5. CASE Goto(c, "failed") /\ UNCHANGED <<req, alone, promised>>
    <3>1. pc' \in [Callers -> PCs]
      BY <2>5 DEF Goto, PCs, TypeOK
    <3>2. TypeOK'
      BY <1>0, <2>1, <2>2, <2>3, <2>5, <3>1 DEF memory, config, TypeOK, Budget
    <3>3. Asked'
      BY <1>9, <2>2, <2>5 DEF Rename, Goto, memory, Asked, TypeOK
    <3> QED
      BY <1>0, <2>2, <2>3, <3>2, <3>3 DEF memory, Known, Listing
  <2> QED
    BY <1>9, <2>4, <2>5 DEF Rename
<1>10. ASSUME NEW c \in Callers, SaveFailed(c) PROVE Goal
  <2>1. /\ pc' \in [Callers -> PCs]
        /\ req' \in [Callers -> [kind : Kinds, job : Jobs, prev : BOOLEAN] \cup {NoRequest}]
        /\ alone' \in [Callers -> BOOLEAN]
        /\ promised' \in [Jobs -> {"none", "absent", "active", "paused"}]
    BY <1>10, AnswerTyped DEF SaveFailed
  <2>2. UNCHANGED <<up, jobs, used, reg, tmp, saving, config, unsaved, budget>>
    BY <1>10 DEF SaveFailed
  <2>3. req[c].job \in used
    BY <1>10 DEF SaveFailed, Asked
  <2>4. paused' \in [Jobs -> BOOLEAN] /\ \A j \in Jobs \ used : paused'[j] = paused[j]
    <3>1. CASE UNCHANGED paused
      BY <3>1 DEF TypeOK
    <3>2. CASE /\ req[c].kind \in {"pause", "resume"}
               /\ paused' = [paused EXCEPT ![req[c].job] = req[c].prev]
      <4>1. req[c].prev \in BOOLEAN
        BY <3>2 DEF TypeOK, NoRequest
      <4> QED
        BY <2>3, <3>2, <4>1 DEF TypeOK
    <3> QED
      BY <1>10, <3>1, <3>2 DEF SaveFailed, rolledBack
  <2>5. TypeOK'
    BY <2>1, <2>2, <2>4 DEF saving, config, TypeOK
  <2>6. Asked'
    BY <1>10, <2>2 DEF SaveFailed, Answer, Goto, Asked, TypeOK
  <2> QED
    BY <2>2, <2>4, <2>5, <2>6 DEF saving, Known, Listing
<1>11. CASE Crash
  <2>1. budget' \in Budget
    <3>1. MaxCrashes \in Nat
      BY RegistryAssumption
    <3> QED
      BY <1>11, <3>1 DEF Crash, TypeOK, Budget
  <2>2. promised' \in [Jobs -> {"none", "absent", "active", "paused"}]
    BY <1>11 DEF Crash, TypeOK
  <2>3. seen' \in [Callers -> Entries] /\ \A c \in Callers : seen'[c] = NoEntry
    BY <1>0, <1>11 DEF Crash
  <2>4. TypeOK'
    BY <1>11, <2>1, <2>2, <2>3 DEF Crash, config, TypeOK, PCs, Budget
  <2>5. Known' /\ Listing' /\ Asked'
    BY <1>0, <1>11, <2>3 DEF Crash, Known, Listing, Asked
  <2> QED
    BY <2>4, <2>5
<1>12. CASE Load
  <2>1. \A j \in Jobs : reg.entries[j] # "absent" => j \in used
    BY DEF Known
  <2>2. jobs' \subseteq used /\ paused' \in [Jobs -> BOOLEAN]
    BY <1>12, <2>1 DEF Load, LoadedPaused
  <2>3. skipped' \subseteq used \ jobs'
    BY <1>12, <2>1 DEF Load, TypeOK
  <2>4. TypeOK'
    BY <1>12, <2>2, <2>3 DEF Load, requests, saving, TypeOK
  <2>5. \A j \in Jobs \ used : ~paused'[j]
    BY <1>12, <2>1 DEF Load, LoadedPaused
  <2> QED
    BY <1>12, <2>4, <2>5 DEF Load, requests, saving, Known, Listing, Asked
<1>13. ASSUME NEW j \in Jobs, ConfigChanges(j) PROVE Goal
  <2>1. budget' \in Budget
    <3>1. MaxChanges \in Nat
      BY RegistryAssumption
    <3> QED
      BY <1>13, <3>1 DEF ConfigChanges, TypeOK, Budget
  <2>2. broken' \subseteq Jobs
    BY <1>13 DEF ConfigChanges, TypeOK
  <2>3. TypeOK'
    BY <1>13, <2>1, <2>2 DEF ConfigChanges, memory, requests, saving, TypeOK, Budget
  <2> QED
    BY <1>13, <2>3 DEF ConfigChanges, memory, requests, saving, Known, Listing, Asked
<1>14. CASE UNCHANGED vars
  BY <1>14 DEF vars, memory, requests, saving, config, TypeOK, Known, Listing, Asked
<1> QED
  BY <1>1, <1>2, <1>3, <1>4, <1>5, <1>6, <1>7, <1>8, <1>9, <1>10, <1>11, <1>12, <1>13, <1>14
  DEF Next, Ask, Serve, Save

LEMMA TypeAlways == Spec => []TypeInv
BY TypeInit, TypeStep, PTL DEF Spec

\* Every variable keeps to its values, for any jobs and any number of clients.
THEOREM TypeCorrect == Spec => []TypeOK
<1>1. TypeInv => TypeOK
  BY DEF TypeInv
<1> QED
  BY <1>1, TypeAlways, PTL

-----------------------------------------------------------------------------
(***************************************************************************)
(* One client at a time.                                                   *)
(***************************************************************************)

OneClient == \A c, d \in Callers : c = d

Controls(c) == pc[c] # "idle" /\ req[c].kind \in {"pause", "resume"}
Edits(c)    == pc[c] # "idle" /\ req[c].kind \in {"add", "remove"}

\* What a request under way has done to its job so far.
Requests ==
  \A c \in Callers :
    /\ alone[c]
    /\ pc[c] # "idle" => up /\ req[c] \in [kind : Kinds, job : Jobs, prev : BOOLEAN]
    /\ pc[c] \in {"act", "compare"} => Controls(c)
    /\ Controls(c) => /\ req[c].job \in jobs
                      /\ pc[c] # "act" => (paused[req[c].job] <=> req[c].kind = "pause")
    /\ Edits(c) => /\ req[c].job \in unsaved
                   /\ IF req[c].kind = "add" THEN req[c].job \in jobs /\ ~paused[req[c].job]
                      ELSE req[c].job \notin jobs

\* What a save has gathered is what the daemon says, and the temporary file
\* is the save's own.
Saving ==
  \A c \in Callers :
    /\ pc[c] = "read" =>
         /\ listed[c] \subseteq jobs
         /\ \A j \in Jobs : seen[c][j] = IF j \in listed[c] THEN "absent" ELSE Says(j)
    /\ pc[c] \in {"write", "rename"} => \A j \in Jobs : seen[c][j] = Says(j)
    /\ pc[c] = "write" => fd[c] = "tmp" /\ tmp = Empty
    /\ pc[c] # "write" => fd[c] = "none"
    /\ pc[c] = "rename" => tmp = File("whole", seen[c])

\* The registry agrees with memory, and with what it was before a request
\* that is not saved yet.
Agreed ==
  /\ up => \A j \in Jobs \ (unsaved \cup skipped) :
             Entry(j) = Says(j) \/ \E c \in Callers : Controls(c) /\ req[c].job = j
  /\ \A c \in Callers : Controls(c) /\ req[c].job \notin unsaved =>
       /\ Entry(req[c].job) = newRegistryEntry(req[c].prev)
       /\ pc[c] = "act" => Entry(req[c].job) = Says(req[c].job)

\* Promises hold on disk, and in memory when no request is about the job; the
\* one that is remembers what to go back to.
PromisesKept ==
  \A j \in Jobs : promised[j] # "none" =>
    /\ \/ \E c \in Callers : Edits(c) /\ req[c].job = j
       \/ Entry(j) = promised[j]
       \/ j \in skipped /\ Entry(j) = "absent"
    /\ up /\ j \notin skipped /\ Busy(j) = {} => Says(j) = promised[j]
    /\ \A c \in Callers : Controls(c) /\ req[c].job = j =>
         promised[j] = newRegistryEntry(req[c].prev)

OneInv == Requests /\ Saving /\ Readable /\ Agreed /\ PromisesKept

\* One client's request is the only one.
LEMMA OnlyRequest ==
  ASSUME OneClient, NEW c \in Callers
  PROVE  /\ \A d \in Callers : d = c
         /\ \A j \in Jobs : (Busy(j) = {}) <=> ~(pc[c] # "idle" /\ req[c].job = j)
BY DEF OneClient, Busy

LEMMA OneInit == Init => OneInv
BY DEF Init, OneInv, Requests, Saving, Readable, Agreed, PromisesKept, Controls, Edits, Says,
       Entry, Missing, File, NoEntry

\* What an answer leaves of the request.
LEMMA Answered ==
  ASSUME TypeOK, Requests, NEW c \in Callers, NEW ok, Answer(c, ok), pc[c] # "idle"
  PROVE  /\ pc'[c] = "idle" /\ alone'[c]
         /\ req[c].job \in Jobs
         /\ \A j \in Jobs \ {req[c].job} : promised'[j] = promised[j]
         /\ promised'[req[c].job] = IF ok THEN Wanted(req[c].kind)
                                    ELSE IF Edits(c) THEN "none" ELSE promised[req[c].job]
BY DEF Answer, Goto, Requests, Edits, TypeOK

LEMMA ReceiveStep ==
  ASSUME OneClient, TypeInv, OneInv, NEW c \in Callers, NEW j \in Jobs,
         Control(c, j) \/ AddJob(c, j) \/ RemoveJob(c, j)
  PROVE  OneInv'
<1> USE DEF TypeInv, OneInv
<1>1. PICK kind \in Kinds, prev \in BOOLEAN, place \in {"act", "list"} :
        Receive(c, kind, j, prev, place)
  BY DEF Control, AddJob, RemoveJob, Kinds, TypeOK
<1>2. /\ pc[c] = "idle" /\ pc'[c] = place /\ up
      /\ req'[c] = [kind |-> kind, job |-> j, prev |-> prev]
      /\ alone'[c]
      /\ UNCHANGED <<reg, tmp, saving, config, promised, up, paused>>
  <2>1. pc[c] = "idle" /\ pc'[c] = place /\ up
    BY <1>1 DEF Receive, Goto, TypeOK
  <2>2. req'[c] = [kind |-> kind, job |-> j, prev |-> prev]
    BY <1>1 DEF Receive, TypeOK
  <2>3. Busy(j) = {}
    BY <2>1, OnlyRequest
  <2>4. alone'[c]
    BY <1>1, <2>3 DEF Receive
  <2>5. UNCHANGED <<reg, tmp, saving, config, promised>>
    BY <1>1 DEF Receive
  <2>6. UNCHANGED <<up, paused>>
    BY DEF Control, AddJob, RemoveJob, memory
  <2> QED
    BY <2>1, <2>2, <2>4, <2>5, <2>6
<1>3. Readable'
  BY <1>2 DEF Readable
<1>4. Saving'
  BY <1>1, <1>2, OnlyRequest DEF Saving, saving
<1>5. CASE Control(c, j)
  <2>1. /\ kind \in {"pause", "resume"} /\ prev = paused[j] /\ place = "act"
        /\ j \in jobs /\ UNCHANGED <<memory, unsaved>>
    BY <1>2, <1>5 DEF Control, Receive, TypeOK, Goto
  <2>2. Requests'
    BY <1>2, <2>1, OnlyRequest DEF Requests, Controls, Edits, memory
  <2>3. Says(j) = newRegistryEntry(prev)
    BY <2>1 DEF Says, newRegistryEntry
  <2>4. \A i \in Jobs : Says(i)' = Says(i) /\ Entry(i)' = Entry(i)
    BY <1>2, <2>1 DEF Says, Entry, memory
  <2>5. j \notin skipped
    BY <2>1 DEF TypeOK
  <2>6. Agreed'
    BY <1>2, <2>1, <2>3, <2>4, <2>5, OnlyRequest DEF Agreed, Controls, config
  <2>7. PromisesKept'
    BY <1>2, <2>1, <2>3, <2>4, <2>5, OnlyRequest DEF PromisesKept, Controls, Edits, Busy, config
  <2> QED
    BY <1>3, <1>4, <2>2, <2>6, <2>7
<1>6. CASE AddJob(c, j) \/ RemoveJob(c, j)
  <2>1. /\ kind \in {"add", "remove"} /\ place = "list"
        /\ unsaved' = unsaved \cup {j}
        /\ \/ kind = "add" /\ j \notin used /\ jobs' = jobs \cup {j}
           \/ kind = "remove" /\ jobs' = jobs \ {j}
    BY <1>2, <1>6 DEF AddJob, newID, RemoveJob, Receive, Goto, TypeOK
  <2>2. Requests'
    BY <1>2, <2>1, OnlyRequest DEF Requests, Controls, Edits, Known
  <2>3. /\ \A i \in Jobs : Entry(i)' = Entry(i)
        /\ \A i \in Jobs \ {j} : Says(i)' = Says(i)
    BY <1>2, <2>1 DEF Says, Entry
  <2>4. Agreed'
    BY <1>2, <2>1, <2>3, OnlyRequest DEF Agreed, Controls, config
  <2>5. PromisesKept'
    BY <1>2, <2>1, <2>3, OnlyRequest DEF PromisesKept, Controls, Edits, Busy, config
  <2> QED
    BY <1>3, <1>4, <2>2, <2>4, <2>5
<1> QED
  BY <1>5, <1>6

LEMMA ActStep ==
  ASSUME OneClient, TypeInv, OneInv, NEW c \in Callers, Act(c)
  PROVE  OneInv'
<1> USE DEF TypeInv, OneInv
<1> DEFINE j == req[c].job
<1>1. Controls(c) /\ j \in jobs /\ j \in Jobs /\ up /\ j \notin skipped
  BY DEF Act, Requests, TypeOK
<1>2. /\ pc[c] = "act" /\ pc'[c] = "compare"
      /\ paused'[j] <=> req[c].kind = "pause"
      /\ \A i \in Jobs \ {j} : paused'[i] = paused[i]
      /\ UNCHANGED <<up, jobs, used, reg, tmp, req, alone, saving, config, promised, unsaved>>
  BY <1>1 DEF Act, Goto, TypeOK
<1>3. \A i \in Jobs : Entry(i)' = Entry(i) /\ (i # j => Says(i)' = Says(i))
  BY <1>2 DEF Says, Entry
<1>4. Requests'
  <2>1. alone'[c] /\ req[c] \in [kind : Kinds, job : Jobs, prev : BOOLEAN]
    BY <1>1, <1>2 DEF Requests, Controls
  <2>2. Controls(c)' /\ ~Edits(c)'
    BY <1>1, <1>2 DEF Controls, Edits
  <2> QED
    BY <1>1, <1>2, <2>1, <2>2, OnlyRequest DEF Requests
<1>5. Saving' /\ Readable'
  BY <1>2, OnlyRequest DEF Saving, saving, Readable
<1>6. Agreed'
  BY <1>1, <1>2, <1>3, OnlyRequest DEF Agreed, Controls, config
<1>7. PromisesKept'
  BY <1>1, <1>2, <1>3, OnlyRequest DEF PromisesKept, Controls, Edits, Busy, config
<1> QED
  BY <1>4, <1>5, <1>6, <1>7

LEMMA CompareStep ==
  ASSUME OneClient, TypeInv, OneInv, NEW c \in Callers, Compare(c)
  PROVE  OneInv'
<1> USE DEF TypeInv, OneInv
<1> DEFINE j == req[c].job
<1>1. /\ Controls(c) /\ j \in jobs /\ j \in Jobs /\ up /\ j \notin skipped
      /\ paused[j] <=> req[c].kind = "pause"
      /\ req[c].kind \in {"pause", "resume"}
  BY DEF Compare, Requests, Controls, TypeOK
<1>2. /\ pc[c] = "compare"
      /\ UNCHANGED <<memory, reg, tmp, saving, config, unsaved>>
  BY DEF Compare
<1>3. \A i \in Jobs : Entry(i)' = Entry(i) /\ Says(i)' = Says(i)
  BY <1>2 DEF Says, Entry, memory
<1>4. Readable'
  BY <1>2 DEF Readable
<1>5. CASE Goto(c, "list") /\ UNCHANGED <<req, alone, promised>>
  <2>1. pc'[c] = "list"
    BY <1>5 DEF Goto, TypeOK
  <2>2. Requests'
    BY <1>1, <1>2, <1>5, <2>1, OnlyRequest DEF Requests, Controls, Edits, memory
  <2>3. Saving'
    BY <1>2, <2>1, OnlyRequest DEF Saving, saving
  <2>4. Agreed'
    BY <1>1, <1>2, <1>3, <1>5, <2>1, OnlyRequest DEF Agreed, Controls, config, memory
  <2>5. PromisesKept'
    BY <1>1, <1>2, <1>3, <1>5, <2>1, OnlyRequest
    DEF PromisesKept, Controls, Edits, Busy, config, memory
  <2> QED
    BY <1>4, <2>2, <2>3, <2>4, <2>5
<1>6. CASE /\ paused[j] = req[c].prev
           /\ Answer(c, j \notin unsaved)
  <2>1. /\ pc'[c] = "idle" /\ alone'[c]
        /\ \A i \in Jobs \ {j} : promised'[i] = promised[i]
        /\ promised'[j] = IF j \notin unsaved THEN Wanted(req[c].kind) ELSE promised[j]
    BY <1>1, <1>2, <1>6, Answered DEF Edits
  <2>2. Requests'
    BY <2>1, OnlyRequest DEF Requests, Controls, Edits
  <2>3. Saving'
    BY <1>2, <2>1, OnlyRequest DEF Saving, saving
  <2>4. Says(j) = newRegistryEntry(req[c].prev) /\ Says(j) = Wanted(req[c].kind)
    BY <1>1, <1>6 DEF Says, newRegistryEntry, Wanted
  <2>5. j \notin unsaved => Entry(j) = Says(j)
    BY <1>1, <2>4 DEF Agreed
  <2>6. Agreed'
    BY <1>2, <1>3, <2>1, <2>5, OnlyRequest DEF Agreed, Controls, config, memory
  <2>7. ASSUME NEW i \in Jobs, promised'[i] # "none"
        PROVE  /\ Entry(i) = promised'[i] \/ (i \in skipped /\ Entry(i) = "absent")
               /\ i \notin skipped => Says(i) = promised'[i]
    <3>1. CASE i # j
      BY <1>1, <2>1, <2>7, <3>1, OnlyRequest DEF PromisesKept, Controls, Edits
    <3>2. CASE i = j /\ j \notin unsaved
      BY <2>1, <2>4, <2>5, <3>2
    <3>3. CASE i = j /\ j \in unsaved
      BY <1>1, <2>1, <2>4, <2>7, <3>3, OnlyRequest DEF PromisesKept, Controls, Edits
    <3> QED
      BY <3>1, <3>2, <3>3
  <2>8. PromisesKept'
    BY <1>2, <1>3, <2>1, <2>7, OnlyRequest DEF PromisesKept, Controls, config, memory
  <2> QED
    BY <1>4, <2>2, <2>3, <2>6, <2>8
<1>7. req[c].prev \in BOOLEAN
  BY <1>1 DEF Requests, Controls
<1> QED
  BY <1>5, <1>6 DEF Compare, MustSave

\* The steps of a save up to the rename change only the save.
LEMMA SavingStep ==
  ASSUME OneClient, TypeInv, OneInv, NEW c \in Callers,
         pc[c] \notin {"idle", "act", "compare"}, pc'[c] \notin {"idle", "act", "compare"},
         UNCHANGED <<memory, reg, req, alone, config, promised, unsaved>>
  PROVE  Requests' /\ Readable' /\ Agreed' /\ PromisesKept'
<1> USE DEF TypeInv, OneInv
<1>1. Controls(c)' = Controls(c) /\ Edits(c)' = Edits(c)
  BY DEF Controls, Edits
<1>2. \A i \in Jobs : Entry(i)' = Entry(i) /\ Says(i)' = Says(i)
  BY DEF Says, Entry, memory
<1>3. Requests'
  BY <1>1, OnlyRequest DEF Requests, memory
<1>4. Readable'
  BY DEF Readable
<1>5. Agreed'
  <2>1. Controls(c) => req[c].job \in Jobs
    BY DEF Requests, Controls
  <2> QED
    BY <1>1, <1>2, <2>1, OnlyRequest DEF Agreed, config, memory
<1>6. PromisesKept'
  BY <1>1, <1>2, OnlyRequest DEF PromisesKept, Busy, config, memory
<1> QED
  BY <1>3, <1>4, <1>5, <1>6

LEMMA SaveStep ==
  ASSUME OneClient, TypeInv, OneInv, NEW c \in Callers,
         List(c) \/ (\E j \in Jobs : Read(c, j)) \/ Open(c) \/ Write(c)
  PROVE  OneInv'
<1> USE DEF TypeInv, OneInv
<1>0. \A i \in Jobs : NoEntry[i] = "absent"
  BY DEF NoEntry
<1>1. CASE List(c)
  <2>1. /\ pc[c] = "list" /\ pc'[c] = "read"
        /\ listed'[c] = jobs /\ seen'[c] = NoEntry
        /\ UNCHANGED <<memory, reg, req, alone, fd, config, promised, unsaved>>
    BY <1>1 DEF List, Goto, TypeOK
  <2>2. \A i \in Jobs : seen'[c][i] = IF i \in listed'[c] THEN "absent" ELSE Says(i)'
    BY <1>0, <2>1 DEF Says, memory
  <2>3. Saving'
    BY <2>1, <2>2, OnlyRequest DEF Saving, memory
  <2> QED
    BY <2>1, <2>3, SavingStep
<1>2. ASSUME NEW j \in Jobs, Read(c, j) PROVE OneInv'
  <2>1. /\ pc[c] = "read"
        /\ UNCHANGED <<memory, reg, tmp, pc, req, alone, fd, config, promised, unsaved>>
        /\ j \in listed[c]
        /\ listed'[c] = listed[c] \ {j}
        /\ seen'[c] = [seen[c] EXCEPT ![j] = newRegistryEntry(paused[j])]
    BY <1>2 DEF Read, requests, TypeOK
  <2>2. seen'[c][j] = newRegistryEntry(paused[j]) /\ \A i \in Jobs \ {j} : seen'[c][i] = seen[c][i]
    BY <2>1 DEF TypeOK, Entries
  <2>3. \A i \in Jobs : Says(i)' = Says(i)
    BY <2>1 DEF Says, memory
  <2>4. newRegistryEntry(paused[j]) = Says(j)
    <3>1. j \in jobs
      BY <1>2 DEF Read, Saving
    <3> QED
      BY <3>1 DEF Says, newRegistryEntry
  <2>5. \A i \in Jobs : seen'[c][i] = IF i \in listed'[c] THEN "absent" ELSE Says(i)'
    BY <2>1, <2>2, <2>3, <2>4 DEF Saving
  <2>6. listed'[c] \subseteq jobs'
    BY <2>1 DEF Saving, memory
  <2>7. pc'[c] = "read" /\ fd'[c] = "none"
    BY <2>1 DEF Saving
  <2>8. Saving'
    BY <2>5, <2>6, <2>7, OnlyRequest DEF Saving
  <2> QED
    BY <2>1, <2>8, SavingStep
<1>3. CASE Open(c)
  <2>1. /\ pc[c] = "read" /\ listed[c] = {}
        /\ UNCHANGED <<memory, reg, req, alone, seen, config, promised, unsaved>>
        /\ \/ tmp' = Empty /\ fd'[c] = "tmp" /\ pc'[c] = "write"
           \/ UNCHANGED <<tmp, fd>> /\ pc'[c] = "failed"
    BY <1>3 DEF Open, OpenTmp, Goto, TypeOK
  <2>2. \A i \in Jobs : seen'[c][i] = Says(i)'
    BY <2>1 DEF Saving, Says, memory
  <2>3. Saving'
    BY <2>1, <2>2, OnlyRequest DEF Saving
  <2> QED
    BY <2>1, <2>3, SavingStep
<1>4. CASE Write(c)
  <2>1. /\ pc[c] = "write" /\ fd[c] = "tmp" /\ tmp = Empty
        /\ UNCHANGED <<memory, req, alone, seen, config, promised, unsaved>>
        /\ fd'[c] = "none"
    BY <1>4 DEF Write, Saving, TypeOK
  <2>2. Overlay(tmp, seen[c]) = File("whole", seen[c])
    BY <2>1 DEF Overlay
  <2>3. /\ UNCHANGED reg
        /\ \/ tmp' = File("whole", seen[c]) /\ pc'[c] = "rename"
           \/ pc'[c] = "failed"
    BY <1>4, <2>1, <2>2 DEF Write, Into, Goto, TypeOK
  <2>4. \A i \in Jobs : seen'[c][i] = Says(i)'
    BY <2>1 DEF Saving, Says, memory
  <2>5. Saving'
    BY <2>1, <2>3, <2>4, OnlyRequest DEF Saving
  <2> QED
    BY <2>1, <2>3, <2>5, SavingStep
<1> QED
  BY <1>1, <1>2, <1>3, <1>4

LEMMA RenameStep ==
  ASSUME OneClient, TypeInv, OneInv, NEW c \in Callers, Rename(c)
  PROVE  OneInv'
<1> USE DEF TypeInv, OneInv
<1> DEFINE j == req[c].job
<1>1. /\ pc[c] = "rename" /\ up /\ alone[c] /\ j \in Jobs
      /\ tmp = File("whole", seen[c])
      /\ \A i \in Jobs : seen[c][i] = Says(i)
      /\ fd[c] = "none"
  BY DEF Rename, Requests, Saving
<1>2. UNCHANGED <<memory, listed, seen, config>>
  BY DEF Rename
<1>3. CASE /\ pc' = [pc EXCEPT ![c] = "failed"]
           /\ UNCHANGED <<reg, tmp, fd, req, alone, promised, unsaved>>
  <2>1. pc'[c] = "failed"
    BY <1>3 DEF TypeOK
  <2>2. Saving'
    BY <1>1, <1>3, <2>1, OnlyRequest DEF Saving
  <2> QED
    BY <1>1, <1>2, <1>3, <2>1, <2>2, SavingStep
<1>4. CASE /\ reg' = tmp /\ tmp' = Missing /\ unsaved' = {}
           /\ Answer(c, TRUE)
  <2>1. /\ pc'[c] = "idle" /\ alone'[c]
        /\ \A i \in Jobs \ {j} : promised'[i] = promised[i]
        /\ promised'[j] = Wanted(req[c].kind)
    BY <1>1, <1>4, Answered
  <2>2. \A i \in Jobs : Says(i)' = Says(i) /\ Entry(i)' = Says(i)
    BY <1>1, <1>2, <1>4 DEF Says, Entry, File, memory
  <2>3. Readable'
    BY <1>1, <1>4 DEF Readable, File
  <2>4. Requests'
    BY <2>1, OnlyRequest DEF Requests, Controls, Edits
  <2>5. fd'[c] = "none"
    BY <1>1 DEF Rename, TypeOK
  <2>6. Saving'
    BY <2>1, <2>5, OnlyRequest DEF Saving
  <2>7. Agreed'
    BY <2>1, <2>2, OnlyRequest DEF Agreed, Controls
  <2>8. Says(j) = Wanted(req[c].kind)
    BY <1>1 DEF Requests, Controls, Edits, Says, Wanted, Kinds
  <2>9. ASSUME NEW i \in Jobs, promised'[i] # "none"
        PROVE  /\ Says(i) = promised'[i] \/ (i \in skipped /\ Says(i) = "absent")
               /\ i \notin skipped => Says(i) = promised'[i]
    <3>1. CASE i = j
      BY <2>1, <2>8, <3>1
    <3>2. CASE i # j /\ i \notin skipped
      BY <1>1, <2>1, <2>9, <3>2, OnlyRequest DEF PromisesKept
    <3>3. CASE i # j /\ i \in skipped
      BY <3>3 DEF Says, TypeOK
    <3> QED
      BY <3>1, <3>2, <3>3
  <2>10. PromisesKept'
    BY <1>2, <2>1, <2>2, <2>9, OnlyRequest DEF PromisesKept, Controls, config
  <2> QED
    BY <2>3, <2>4, <2>6, <2>7, <2>10
<1> QED
  BY <1>3, <1>4 DEF Rename, Goto

LEMMA SaveFailedStep ==
  ASSUME OneClient, TypeInv, OneInv, NEW c \in Callers, SaveFailed(c)
  PROVE  OneInv'
<1> USE DEF TypeInv, OneInv
<1>0. PICK j \in Jobs : j = req[c].job
  BY DEF SaveFailed, Requests
<1>1. /\ pc[c] = "failed" /\ up /\ alone[c] /\ req[c].prev \in BOOLEAN
      /\ Answer(c, FALSE)
      /\ UNCHANGED <<up, jobs, used, reg, tmp, saving, config, unsaved>>
      /\ Edits(c) <=> ~Controls(c)
  BY DEF SaveFailed, Requests, Controls, Edits, Kinds
<1>2. /\ pc'[c] = "idle" /\ alone'[c]
      /\ \A i \in Jobs \ {j} : promised'[i] = promised[i]
      /\ promised'[j] = IF Edits(c) THEN "none" ELSE promised[j]
  BY <1>0, <1>1, Answered
<1>3. \A i \in Jobs \ {j} : paused'[i] = paused[i]
  BY <1>0 DEF SaveFailed, TypeOK
<1>4. Controls(c) => Says(j)' = newRegistryEntry(req[c].prev)
  <2> SUFFICES ASSUME Controls(c) PROVE Says(j)' = newRegistryEntry(req[c].prev)
    OBVIOUS
  <2>1. paused' = [paused EXCEPT ![j] = req[c].prev]
    BY <1>0 DEF SaveFailed, Controls, rolledBack
  <2>2. paused'[j] = req[c].prev /\ j \in jobs'
    BY <1>0, <1>1, <2>1 DEF Requests, TypeOK
  <2> QED
    BY <2>2 DEF Says, newRegistryEntry
<1>5. \A i \in Jobs : Entry(i)' = Entry(i) /\ (i # j => Says(i)' = Says(i))
  BY <1>0, <1>1, <1>3 DEF Says, Entry
<1>6. Requests' /\ Readable'
  BY <1>0, <1>1, <1>2, OnlyRequest DEF Requests, Controls, Edits, Readable
<1>7. Saving'
  BY <1>0, <1>1, <1>2, OnlyRequest DEF Saving, saving
<1>8. Agreed'
  <2>1. j \in unsaved \/ Entry(j) = newRegistryEntry(req[c].prev)
    BY <1>0, <1>1 DEF Agreed, Requests
  <2>2. ASSUME NEW i \in Jobs \ (unsaved \cup skipped) PROVE Entry(i) = Says(i)'
    <3>1. CASE i = j
      BY <1>0, <1>1, <1>4, <2>1, <2>2, <3>1 DEF Requests
    <3>2. CASE i # j
      BY <1>0, <1>1, <1>5, <2>2, <3>2, OnlyRequest DEF Agreed
    <3> QED
      BY <3>1, <3>2
  <2> QED
    BY <1>0, <1>1, <1>2, <1>5, <2>2, OnlyRequest DEF Agreed, Controls, config
<1>9. PromisesKept'
  <2>1. ASSUME NEW i \in Jobs, promised'[i] # "none"
        PROVE  /\ Entry(i) = promised'[i] \/ (i \in skipped /\ Entry(i) = "absent")
               /\ i \notin skipped => Says(i)' = promised'[i]
    <3>1. CASE i = j
      <4>1. Controls(c) /\ promised'[j] = promised[j]
        BY <1>0, <1>1, <1>2, <2>1, <3>1
      <4>2. promised[j] = newRegistryEntry(req[c].prev)
        BY <1>0, <1>1, <2>1, <3>1, <4>1 DEF PromisesKept
      <4>3. ~Edits(c)
        BY <1>0, <1>1, <4>1
      <4>4. Entry(j) = promised[j] \/ (j \in skipped /\ Entry(j) = "absent")
        BY <1>0, <1>1, <2>1, <3>1, <4>1, <4>3, OnlyRequest DEF PromisesKept
      <4> QED
        BY <1>4, <3>1, <4>1, <4>2, <4>4
    <3>2. CASE i # j
      BY <1>0, <1>1, <1>2, <1>5, <2>1, <3>2, OnlyRequest DEF PromisesKept
    <3> QED
      BY <3>1, <3>2
  <2> QED
    BY <1>0, <1>1, <1>2, <1>5, <2>1, OnlyRequest DEF PromisesKept, Controls, config
<1> QED
  BY <1>6, <1>7, <1>8, <1>9

LEMMA RestartStep ==
  ASSUME OneClient, TypeInv, OneInv, Crash \/ Load
  PROVE  OneInv'
<1> USE DEF TypeInv, OneInv
<1>1. CASE Crash
  <2>1. /\ ~up' /\ UNCHANGED <<reg, skipped>>
        /\ \A c \in Callers : pc'[c] = "idle" /\ alone'[c] /\ fd'[c] = "none"
        /\ \A j \in Jobs : promised'[j] = IF Busy(j) = {} THEN promised[j] ELSE "none"
    BY <1>1 DEF Crash, config
  <2>2. \A j \in Jobs : Entry(j)' = Entry(j)
    BY <2>1 DEF Entry
  <2>3. \A j \in Jobs : Busy(j) = {} => ~ \E c \in Callers : Edits(c) /\ req[c].job = j
    BY DEF Busy, Edits
  <2>4. Requests' /\ Saving' /\ Readable' /\ Agreed'
    BY <2>1 DEF Requests, Controls, Edits, Saving, Readable, Agreed
  <2>5. PromisesKept'
    BY <2>1, <2>2, <2>3 DEF PromisesKept, Controls
  <2> QED
    BY <2>4, <2>5
<1>2. CASE Load
  <2>1. /\ ~up /\ UNCHANGED <<reg, tmp, requests, saving, promised>>
        /\ jobs' = {j \in Jobs \ broken : reg.entries[j] # "absent"}
        /\ paused' = [j \in Jobs |-> j \notin broken /\ LoadedPaused(reg.entries[j])]
        /\ skipped' = (skipped \cup {j \in broken : reg.entries[j] # "absent"}) \ jobs'
    BY <1>2 DEF Load
  <2>2. \A c \in Callers : pc[c] = "idle"
    BY <2>1 DEF Requests
  <2>3. \A j \in Jobs : Entry(j)' = Entry(j) /\ Entry(j) = reg.entries[j]
    BY <2>1 DEF Entry, Readable
  <2>4. \A j \in Jobs : reg.entries[j] \in {"absent", "active", "paused"}
    BY FileTyped DEF TypeOK, Entries
  <2>5. \A j \in Jobs \ skipped' : Says(j)' = Entry(j)
    BY <2>1, <2>3, <2>4 DEF Says, LoadedPaused
  <2>6. Requests' /\ Saving' /\ Readable'
    BY <2>1, <2>2 DEF Requests, Controls, Edits, Saving, Readable, requests, saving
  <2>7. Agreed'
    BY <2>1, <2>2, <2>3, <2>5 DEF Agreed, Controls, requests
  <2>8. PromisesKept'
    BY <2>1, <2>2, <2>3, <2>5 DEF PromisesKept, Controls, Edits, requests
  <2> QED
    BY <2>6, <2>7, <2>8
<1> QED
  BY <1>1, <1>2

LEMMA OneStep == OneClient /\ TypeInv /\ OneInv /\ [Next]_vars => OneInv'
<1> SUFFICES ASSUME OneClient, TypeInv, OneInv, [Next]_vars PROVE OneInv'
  OBVIOUS
<1>1. CASE UNCHANGED <<memory, reg, tmp, requests, saving, skipped, promised, unsaved>>
  BY <1>1 DEF memory, requests, saving, OneInv, Requests, Saving, Readable, Agreed,
              PromisesKept, Controls, Edits, Says, Entry, Busy
<1>2. CASE Crash \/ Load
  BY <1>2, RestartStep
<1>3. ASSUME NEW c \in Callers, Ask(c) \/ Serve(c) PROVE OneInv'
  BY <1>3, ReceiveStep, ActStep, CompareStep, SaveStep, RenameStep, SaveFailedStep
  DEF Ask, Serve, Save
<1> QED
  BY <1>1, <1>2, <1>3 DEF Next, ConfigChanges, config, vars

LEMMA OneAlways == ASSUME OneClient PROVE Spec => []OneInv
<1>1. OneClient
  OBVIOUS
<1>2. TypeInv /\ OneInv /\ [Next]_vars => OneInv'
  BY <1>1, OneStep
<1> QED
  BY <1>2, OneInit, TypeAlways, PTL DEF Spec

\* Agrees for any number of jobs, failures, restarts and config changes, with
\* one client at a time.
THEOREM RegistryAgrees == ASSUME OneClient PROVE Spec => []Agrees
<1>1. OneInv => Agrees
  BY DEF OneInv, Agreed, Agrees, Controls
<1>2. Spec => []OneInv
  BY OneAlways
<1> QED
  BY <1>1, <1>2, PTL

\* Durable likewise: the registry file can always be read, and says what was
\* answered.
THEOREM AnswersDurable == ASSUME OneClient PROVE Spec => []Durable
<1>1. OneInv => Durable
  BY DEF OneInv, Durable, PromisesKept, Promised, Busy, Edits
<1>2. Spec => []OneInv
  BY OneAlways
<1> QED
  BY <1>1, <1>2, PTL

\* Honoured likewise: the daemon does what it answered, restarts included.
THEOREM AnswersHonoured == ASSUME OneClient PROVE Spec => []Honoured
<1>1. OneInv => Honoured
  BY DEF OneInv, Honoured, PromisesKept, Promised
<1>2. Spec => []OneInv
  BY OneAlways
<1> QED
  BY <1>1, <1>2, PTL
=============================================================================
