-------------------------- MODULE ConnectionProofs --------------------------
(***************************************************************************)
(* Safety of Connection for any set of workers and any number of attempts, *)
(* connections and outages.                                                *)
(***************************************************************************)
EXTENDS Connection, TLAPS

-----------------------------------------------------------------------------
(***************************************************************************)
(* TypeOK.                                                                 *)
(***************************************************************************)

\* What closing and dialling leave is well typed.
LEMMA CloseTyped ==
  ASSUME TypeOK, closeLocked, UNCHANGED dialled
  PROVE  open' \subseteq 1 .. dialled' /\ conn' \in 0 .. dialled' /\ stale' \in BOOLEAN
<1>1. dialled \in Nat
  BY ConnectionAssumption DEF TypeOK
<1>2. open' \subseteq open /\ open \subseteq 1 .. dialled
  BY DEF closeLocked, AfterClose, TypeOK
<1>3. 0 \in 0 .. dialled
  BY <1>1
<1> QED
  BY <1>2, <1>3 DEF closeLocked

LEMMA DialTyped ==
  ASSUME TypeOK, NEW who, DialOk(who)
  PROVE  /\ dialled' \in 0 .. MaxConns
         /\ dialled' = dialled + 1
         /\ 0 .. dialled \subseteq 0 .. dialled'
         /\ open' \subseteq 1 .. dialled'
         /\ alive' \subseteq 1 .. dialled'
         /\ blamed \subseteq 1 .. dialled'
         /\ conn' \in 0 .. dialled'
<1>1. dialled \in Nat /\ dialled' = dialled + 1 /\ MaxConns \in Nat
  BY ConnectionAssumption DEF TypeOK, DialOk
<1>2. dialled' \in 0 .. MaxConns /\ 0 .. dialled \subseteq 0 .. dialled'
  BY <1>1 DEF TypeOK, DialOk
<1>3. 1 .. dialled \subseteq 1 .. dialled' /\ dialled + 1 \in 1 .. dialled'
  BY <1>1
<1> QED
  BY <1>1, <1>2, <1>3 DEF TypeOK, DialOk

\* Every variable of the client and of its users keeps to its type; no worker
\* goes past its attempts (client.go:60-189, retry.go:144-189).
THEOREM TypeCorrect == Safe => []TypeOK
<1> USE ConnectionAssumption
<1>1. Init => TypeOK
  <2>1. 1 \in 1 .. MaxAttempts /\ 0 \in 0 .. MaxConns /\ 0 \in 0 .. MaxFaults /\ 0 \in 0 .. 0
    OBVIOUS
  <2> QED
    BY <2>1 DEF Init, TypeOK, WorkerPCs
<1>2. TypeOK /\ [Next]_vars => TypeOK'
  <2> SUFFICES ASSUME TypeOK, [Next]_vars PROVE TypeOK'
    OBVIOUS
  <2> USE DEF TypeOK, WorkerPCs, client, network
  <2>1. CASE Outage
    BY <2>1 DEF Outage
  <2>2. CASE Loop
    <3>1. CASE ReadStale
      BY <3>1 DEF ReadStale
    <3>2. CASE Probe
      BY <3>2, CloseTyped DEF Probe
    <3>3. CASE LoopDials
      <4>1. CASE DialOk("loop") /\ loop' = "walk" /\ UNCHANGED faults
        BY <3>3, <4>1, DialTyped DEF LoopDials, DialOk
      <4>2. CASE DialFails("loop") /\ loop' = "ensure" /\ UNCHANGED <<client, network>>
        BY <3>3, <4>2 DEF LoopDials, DialFails, Released
      <4> QED
        BY <3>3, <4>1, <4>2 DEF LoopDials
    <3>4. CASE WalkFails
      BY <3>4, CloseTyped DEF WalkFails
    <3>5. CASE WalkOk
      BY <3>5 DEF WalkOk
    <3>6. CASE BatchEnds
      BY <3>6 DEF BatchEnds
    <3> QED
      BY <2>2, <3>1, <3>2, <3>3, <3>4, <3>5, <3>6 DEF Loop
  <2>3. ASSUME NEW w \in Workers, Work(w) PROVE TypeOK'
    <3>1. CASE Ready(w)
      <4>1. CASE Usable
        BY <3>1, <4>1 DEF Ready, Enter, MoveTo
      <4>2. CASE ~Usable
        BY <3>1, <4>2, CloseTyped DEF Ready, MoveTo
      <4> QED
        BY <4>1, <4>2
    <3>2. CASE WorkerDials(w)
      <4>1. CASE DialOk(w) /\ Enter(w, dialled + 1) /\ UNCHANGED faults
        <5>1. using' \in [Workers -> 0 .. dialled']
          BY <4>1, DialTyped DEF Enter
        <5> QED
          BY <3>2, <4>1, <5>1, DialTyped DEF WorkerDials, DialOk, Enter, MoveTo
      <4>2. CASE /\ DialFails(w)
                 /\ \E next \in {"broken", "over"} : Leave(w, next)
                 /\ UNCHANGED <<client, network>>
        <5>1. 0 \in 0 .. dialled
          OBVIOUS
        <5> QED
          BY <3>2, <4>2, <5>1 DEF WorkerDials, DialFails, Released, Leave, MoveTo
      <4> QED
        BY <3>2, <4>1, <4>2 DEF WorkerDials
    <3>3. CASE TransferOk(w)
      BY <3>3 DEF TransferOk, Leave, MoveTo
    <3>4. CASE TransferBreaks(w)
      BY <3>4 DEF TransferBreaks, MoveTo
    <3>6. CASE HashRemote(w)
      BY <3>6 DEF HashRemote, Leave, MoveTo
    <3>5. CASE MarkStale(w)
      <4>1. blamed' \subseteq 1 .. dialled'
        <5>1. using[w] # 0 => using[w] \in 1 .. dialled
          <6>1. using[w] \in 0 .. dialled
            OBVIOUS
          <6> QED
            BY <6>1
        <5> QED
          BY <3>5, <5>1 DEF MarkStale
      <4>2. attempt' \in [Workers -> 1 .. MaxAttempts]
        BY <3>5 DEF MarkStale, MayRetry
      <4> QED
        BY <3>5, <4>1, <4>2 DEF MarkStale, Marked, Leave, MoveTo
    <3> QED
      BY <2>3, <3>1, <3>2, <3>3, <3>4, <3>5, <3>6 DEF Work
  <2>4. CASE UNCHANGED vars
    BY <2>4 DEF vars
  <2> QED
    BY <2>1, <2>2, <2>3, <2>4 DEF Next
<1> QED
  BY <1>1, <1>2, PTL DEF Safe

-----------------------------------------------------------------------------
(***************************************************************************)
(* The mutex.                                                              *)
(***************************************************************************)

\* Whoever is dialling holds the mutex, and whoever holds it is dialling with
\* no connection installed; workers are only busy during a batch.
LockInv ==
  /\ holder = "loop" <=> loop = "dial"
  /\ \A w \in Workers : holder = w <=> pc[w] \in {"dial", "redial"}
  /\ holder # "nobody" => conn = 0
  /\ loop # "batch" => \A w \in Workers : pc[w] = "idle"

\* One dial at a time, whoever needs it, and never beside a connection that is
\* installed; a batch over, no worker is left in the client (client.go:60-106,
\* 156-170).
THEOREM Exclusive == Safe => []LockInv
<1> USE ConnectionAssumption
<1>1. Init => LockInv
  BY DEF Init, LockInv
<1>2. TypeOK /\ LockInv /\ [Next]_vars => LockInv'
  <2> SUFFICES ASSUME TypeOK, LockInv, [Next]_vars PROVE LockInv'
    OBVIOUS
  <2> USE DEF TypeOK, WorkerPCs, LockInv, client, network, Unlocked
  <2>1. CASE Outage
    BY <2>1 DEF Outage
  <2>2. CASE Loop
    <3>1. CASE ReadStale
      BY <3>1 DEF ReadStale
    <3>2. CASE Probe
      BY <3>2 DEF Probe, closeLocked
    <3>3. CASE LoopDials
      BY <3>3 DEF LoopDials, DialOk, DialFails, Released
    <3>4. CASE WalkFails
      BY <3>4 DEF WalkFails, closeLocked
    <3>5. CASE WalkOk
      BY <3>5 DEF WalkOk
    <3>6. CASE BatchEnds
      BY <3>6 DEF BatchEnds
    <3> QED
      BY <2>2, <3>1, <3>2, <3>3, <3>4, <3>5, <3>6 DEF Loop
  <2>3. ASSUME NEW w \in Workers, Work(w) PROVE LockInv'
    <3>1. CASE Ready(w)
      BY <3>1 DEF Ready, Enter, MoveTo, closeLocked
    <3>2. CASE WorkerDials(w)
      BY <3>2 DEF WorkerDials, DialOk, DialFails, Released, Enter, Leave, MoveTo
    <3>3. CASE TransferOk(w)
      BY <3>3 DEF TransferOk, Leave, MoveTo
    <3>4. CASE TransferBreaks(w)
      BY <3>4 DEF TransferBreaks, MoveTo
    <3>6. CASE HashRemote(w)
      BY <3>6 DEF HashRemote, Leave, MoveTo
    <3>5. CASE MarkStale(w)
      BY <3>5 DEF MarkStale, Leave, MoveTo
    <3> QED
      BY <2>3, <3>1, <3>2, <3>3, <3>4, <3>5, <3>6 DEF Work
  <2>4. CASE UNCHANGED vars
    BY <2>4 DEF vars
  <2> QED
    BY <2>1, <2>2, <2>3, <2>4 DEF Next
<1> QED
  BY <1>1, <1>2, TypeCorrect, PTL DEF Safe

-----------------------------------------------------------------------------
(***************************************************************************)
(* The connections.                                                        *)
(***************************************************************************)

\* A probe is of what EnsureConnected read: nobody marks a connection while no
\* batch runs.
ProbeInv == loop = "probe" => wasStale = stale

ConnInv == NoLeak /\ BrokenIsMarked /\ ProbeInv /\ WalkIsFresh

\* Closing leaves nothing open and nothing that needs a mark.
LEMMA CloseKeeps ==
  ASSUME TypeOK, NoLeak, closeLocked, blamed' = blamed
  PROVE  NoLeak' /\ BrokenIsMarked' /\ conn' = 0
<1>1. 0 \notin blamed
  BY DEF TypeOK
<1> QED
  BY <1>1 DEF NoLeak, BrokenIsMarked, closeLocked, AfterClose

\* What a dial installs is the one open connection, and nobody has blamed it.
LEMMA DialKeeps ==
  ASSUME TypeOK, NoLeak, conn = 0, NEW who, DialOk(who), blamed' = blamed
  PROVE  NoLeak' /\ BrokenIsMarked' /\ ~stale'
<1>1. dialled \in Nat /\ conn' = dialled + 1 /\ open' = {dialled + 1}
  BY ConnectionAssumption DEF TypeOK, NoLeak, DialOk
<1>2. conn' # 0 /\ conn' \notin blamed
  BY <1>1 DEF TypeOK
<1> QED
  BY <1>1, <1>2 DEF NoLeak, BrokenIsMarked, DialOk

\* The three properties below hold together, each resting on the others and
\* on the mutex (client.go:60-189, retry.go:165-189).
THEOREM Connections == Safe => []ConnInv
<1> USE ConnectionAssumption
<1>1. Init => ConnInv
  BY DEF Init, ConnInv, NoLeak, BrokenIsMarked, ProbeInv, WalkIsFresh
<1>2. TypeOK /\ LockInv /\ ConnInv /\ [Next]_vars => ConnInv'
  <2> SUFFICES ASSUME TypeOK, LockInv, ConnInv, [Next]_vars PROVE ConnInv'
    OBVIOUS
  <2> USE DEF ConnInv, ProbeInv, WalkIsFresh, client, network
  <2>1. CASE Outage
    BY <2>1 DEF Outage, NoLeak, BrokenIsMarked
  <2>2. CASE Loop
    <3>1. CASE ReadStale
      BY <3>1 DEF ReadStale, NoLeak, BrokenIsMarked
    <3>2. CASE Probe
      <4>1. CASE Reusable(wasStale)
        BY <3>2, <4>1 DEF Probe, Reusable, NoLeak, BrokenIsMarked
      <4>2. CASE ~Reusable(wasStale)
        BY <3>2, <4>2, CloseKeeps DEF Probe
      <4> QED
        BY <4>1, <4>2
    <3>3. CASE LoopDials
      <4>1. CASE DialOk("loop") /\ loop' = "walk"
        <5>1. conn = 0
          BY <3>3 DEF LoopDials, LockInv
        <5> QED
          BY <3>3, <4>1, <5>1, DialKeeps DEF LoopDials
      <4>2. CASE loop' = "ensure" /\ UNCHANGED <<client, network>>
        BY <3>3, <4>2 DEF LoopDials, NoLeak, BrokenIsMarked
      <4> QED
        BY <3>3, <4>1, <4>2 DEF LoopDials
    <3>4. CASE WalkFails
      BY <3>4, CloseKeeps DEF WalkFails
    <3>5. CASE WalkOk
      BY <3>5 DEF WalkOk, NoLeak, BrokenIsMarked
    <3>6. CASE BatchEnds
      BY <3>6 DEF BatchEnds, NoLeak, BrokenIsMarked
    <3> QED
      BY <2>2, <3>1, <3>2, <3>3, <3>4, <3>5, <3>6 DEF Loop
  <2>3. ASSUME NEW w \in Workers, Work(w) PROVE ConnInv'
    <3>0. loop = "batch" /\ loop' = "batch"
      BY <2>3 DEF Work, LockInv, Ready, WorkerDials, TransferOk, TransferBreaks,
             HashRemote, MarkStale
    <3>1. CASE Ready(w)
      <4>1. CASE Usable
        BY <3>0, <3>1, <4>1 DEF Ready, Enter, NoLeak, BrokenIsMarked
      <4>2. CASE ~Usable
        BY <3>0, <3>1, <4>2, CloseKeeps DEF Ready
      <4> QED
        BY <4>1, <4>2
    <3>2. CASE WorkerDials(w)
      <4>1. CASE DialOk(w)
        <5>1. conn = 0
          BY <3>2 DEF WorkerDials, LockInv
        <5> QED
          BY <3>0, <3>2, <4>1, <5>1, DialKeeps DEF WorkerDials
      <4>2. CASE UNCHANGED <<client, network>>
        BY <3>0, <3>2, <4>2 DEF WorkerDials, NoLeak, BrokenIsMarked
      <4> QED
        BY <3>2, <4>1, <4>2 DEF WorkerDials
    <3>3. CASE TransferOk(w)
      BY <3>0, <3>3 DEF TransferOk, NoLeak, BrokenIsMarked
    <3>4. CASE TransferBreaks(w)
      BY <3>0, <3>4 DEF TransferBreaks, NoLeak, BrokenIsMarked
    <3>6. CASE HashRemote(w)
      BY <3>0, <3>6 DEF HashRemote, NoLeak, BrokenIsMarked
    <3>5. CASE MarkStale(w)
      BY <3>0, <3>5 DEF MarkStale, Marked, NoLeak, BrokenIsMarked
    <3> QED
      BY <2>3, <3>1, <3>2, <3>3, <3>4, <3>5, <3>6 DEF Work
  <2>4. CASE UNCHANGED vars
    BY <2>4 DEF vars, NoLeak, BrokenIsMarked
  <2> QED
    BY <2>1, <2>2, <2>3, <2>4 DEF Next
<1> QED
  BY <1>1, <1>2, TypeCorrect, Exclusive, PTL DEF Safe

\* The client has no open connection but the one installed, however workers
\* and run loop replace it (client.go:60-106, 156-189).
THEOREM NothingLeaks == Safe => []NoLeak
<1>1. ConnInv => NoLeak
  BY DEF ConnInv
<1> QED
  BY <1>1, Connections, PTL

\* A connection that a transfer found broken stays marked as long as it is
\* installed, so that ready never hands it out again; and no walk starts on a
\* marked one, although EnsureConnected reads the mark, probes and connects in
\* three critical sections (client.go:119-170).
THEOREM BrokenNeverReused == Safe => []MarkHeeded
<1>1. ConnInv => MarkHeeded
  BY DEF ConnInv, MarkHeeded
<1> QED
  BY <1>1, Connections, PTL
=============================================================================
