----------------------------- MODULE Connection -----------------------------
(***************************************************************************)
(* The SFTP connection of a job (internal/sftp/client.go): one connection  *)
(* that the download workers share, replaced by whichever of them first    *)
(* needs one after a failure, and probed by the run loop before a scan.    *)
(*                                                                         *)
(* Connections are numbered in the order they are dialled; dialling holds  *)
(* the mutex, everything else takes it only for a moment.  The transfers   *)
(* of one batch, and their retries (internal/syncer/retry.go), are the     *)
(* users of the connection.                                                *)
(*                                                                         *)
(* A definition marked "mutant" is a broken variant of the definition after *)
(* it, kept to confirm that a property notices the bug; Next uses none.    *)
(***************************************************************************)
EXTENDS Naturals, FiniteSets

CONSTANTS Workers,      \* download workers, each with one file per batch
          MaxAttempts,  \* cfg.Sync.MaxAttempts
          MaxConns,     \* bound: how often the client may dial
          MaxFaults     \* bound: outages, refusals and damaged transfers

ASSUME ConnectionAssumption ==
  /\ Workers \cap {"loop", "nobody"} = {}
  /\ MaxAttempts \in Nat \ {0}
  /\ MaxConns \in Nat
  /\ MaxFaults \in Nat

VARIABLES holder,   \* who dials, holding the mutex: a worker, "loop" or "nobody"
          conn,     \* the connection installed in the client, 0 for none
          stale,    \* Client.stale
          dialled,  \* connections dialled so far
          open,     \* connections the client has not closed
          alive,    \* connections whose transport still works
          loop,     \* where the run loop is
          wasStale, \* what EnsureConnected read of stale
          pc,       \* where each worker is
          using,    \* the connection each transfer or second read runs on, 0 for none
          attempt,  \* attempt number of each worker
          blamed,   \* history: connections a user of theirs found broken
          faults    \* outages, refusals and damaged transfers so far

client  == <<conn, stale, open>>
network == <<dialled, alive>>
vars == <<holder, client, network, loop, wasStale, pc, using, attempt, blamed, faults>>

\* "check", "redial" and "hash" are for the second read of a file, as "want",
\* "dial" and "transfer" are for its transfer.  A file that is over was fetched
\* or refused; one that failed has spent its attempts.
WorkerPCs == {"idle", "want", "dial", "transfer", "check", "redial", "hash", "broken",
              "over", "failed"}

\* Every variable keeps to the values the code can give it; no worker makes
\* more attempts than it may.
TypeOK ==
  /\ holder \in Workers \cup {"loop", "nobody"}
  /\ conn \in 0 .. dialled
  /\ stale \in BOOLEAN
  /\ dialled \in 0 .. MaxConns
  /\ open \subseteq 1 .. dialled
  /\ alive \subseteq 1 .. dialled
  /\ loop \in {"ensure", "probe", "dial", "walk", "batch"}
  /\ wasStale \in BOOLEAN
  /\ pc \in [Workers -> WorkerPCs]
  /\ using \in [Workers -> 0 .. dialled]
  /\ attempt \in [Workers -> 1 .. MaxAttempts]
  /\ blamed \subseteq 1 .. dialled
  /\ faults \in 0 .. MaxFaults

Init == /\ holder = "nobody"
        /\ conn = 0
        /\ stale = FALSE
        /\ dialled = 0
        /\ open = {}
        /\ alive = {}
        /\ loop = "ensure"
        /\ wasStale = FALSE
        /\ pc = [w \in Workers |-> "idle"]
        /\ using = [w \in Workers |-> 0]
        /\ attempt = [w \in Workers |-> 1]
        /\ blamed = {}
        /\ faults = 0

Unlocked   == holder = "nobody"
Works(g)   == g \in open /\ g \in alive
MoveTo(w, place) == pc' = [pc EXCEPT ![w] = place]

-----------------------------------------------------------------------------
\* Connecting.

LeavesOld == open                \* mutant
AfterClose == open \ {conn}

\* closeLocked, the first thing connectLocked does.
closeLocked == /\ open' = AfterClose
               /\ conn' = 0
               /\ stale' = FALSE

\* The dial succeeds: a new connection is installed.
DialOk(who) ==
  /\ holder = who
  /\ dialled < MaxConns
  /\ dialled' = dialled + 1
  /\ alive' = alive \cup {dialled + 1}
  /\ open' = open \cup {dialled + 1}
  /\ conn' = dialled + 1
  /\ stale' = FALSE
  /\ holder' = "nobody"

KeepsMutex(who) == who           \* mutant
Released(who)   == "nobody"

\* The dial fails, in an outage or because the server refuses the client; that
\* path unlocks by itself.
DialFails(who) ==
  /\ holder = who
  /\ faults < MaxFaults
  /\ faults' = faults + 1
  /\ holder' = Released(who)

-----------------------------------------------------------------------------
\* The run loop: EnsureConnected, then the walk, then the batch.

ReadStale == /\ loop = "ensure"
             /\ Unlocked
             /\ wasStale' = stale
             /\ loop' = "probe"
             /\ UNCHANGED <<holder, client, network, pc, using, attempt, blamed, faults>>

ReusesAnswering(marked) == conn # 0 /\ Works(conn)   \* mutant: the mark is not looked at
Reusable(marked)        == ~marked /\ conn # 0 /\ Works(conn)

\* A connection that is not stale and answers is kept; otherwise Connect.
Probe == /\ loop = "probe"
         /\ Unlocked
         /\ IF Reusable(wasStale)
              THEN loop' = "walk" /\ UNCHANGED <<holder, client>>
              ELSE loop' = "dial" /\ holder' = "loop" /\ closeLocked
         /\ UNCHANGED <<network, wasStale, pc, using, attempt, blamed, faults>>

\* The cycle ends with a connect error when the dial fails.
LoopDials == /\ loop = "dial"
             /\ \/ DialOk("loop") /\ loop' = "walk" /\ UNCHANGED faults
                \/ DialFails("loop") /\ loop' = "ensure" /\ UNCHANGED <<client, network>>
             /\ UNCHANGED <<wasStale, pc, using, attempt, blamed>>

\* A walk over a dead connection fails, and sync closes it.
WalkFails == /\ loop = "walk"
             /\ Unlocked
             /\ ~Works(conn)
             /\ closeLocked
             /\ loop' = "ensure"
             /\ UNCHANGED <<holder, network, wasStale, pc, using, attempt, blamed, faults>>

\* A walk that worked is followed by a batch, with files for some workers.
WalkOk == /\ loop = "walk"
          /\ Works(conn)
          /\ loop' = "batch"
          /\ \E ws \in SUBSET Workers : pc' = [w \in Workers |-> IF w \in ws THEN "want" ELSE "over"]
          /\ attempt' = [w \in Workers |-> 1]
          /\ UNCHANGED <<holder, client, network, wasStale, using, blamed, faults>>

BatchEnds == /\ loop = "batch"
             /\ \A w \in Workers : pc[w] \in {"over", "failed"}
             /\ loop' = "ensure"
             /\ pc' = [w \in Workers |-> "idle"]
             /\ UNCHANGED <<holder, client, network, wasStale, using, attempt, blamed, faults>>

-----------------------------------------------------------------------------
\* A worker: ready, the transfer, HashRemote, MarkStale and the next attempt.

\* The worker goes on with the connection that it was handed.
Enter(w, g) == /\ MoveTo(w, IF pc[w] \in {"want", "dial"} THEN "transfer" ELSE "hash")
               /\ using' = [using EXCEPT ![w] = g]

\* It is done with the file, for better or worse.
Leave(w, place) == MoveTo(w, place) /\ using' = [using EXCEPT ![w] = 0]

Usable == conn # 0 /\ ~stale

\* ready hands out the connection, or replaces it under the mutex.
Ready(w) ==
  /\ pc[w] \in {"want", "check"}
  /\ Unlocked
  /\ IF Usable
       THEN Enter(w, conn) /\ UNCHANGED <<holder, client>>
       ELSE /\ MoveTo(w, IF pc[w] = "want" THEN "dial" ELSE "redial")
            /\ holder' = w
            /\ closeLocked
            /\ UNCHANGED using
  /\ UNCHANGED <<network, loop, wasStale, attempt, blamed, faults>>

\* A dial that fails for good (the host key, the authentication) fails the
\* file without a mark; one before the second read leaves the file unverified.
WorkerDials(w) ==
  /\ pc[w] \in {"dial", "redial"}
  /\ \/ DialOk(w) /\ Enter(w, dialled + 1) /\ UNCHANGED faults
     \/ /\ DialFails(w)
        /\ \E next \in IF pc[w] = "dial" THEN {"broken", "over"} ELSE {"over"} : Leave(w, next)
        /\ UNCHANGED <<client, network>>
  /\ UNCHANGED <<loop, wasStale, attempt, blamed>>

\* The file is there, or the server refuses it for good; with sha256 it is
\* read again.
TransferOk(w) ==
  /\ pc[w] = "transfer"
  /\ Works(using[w])
  /\ \E next \in {"over", "check"} : Leave(w, next)
  /\ UNCHANGED <<holder, client, network, loop, wasStale, attempt, blamed, faults>>

\* The connection is gone, by an outage or because another worker closed it.
TransferBreaks(w) ==
  /\ pc[w] = "transfer"
  /\ ~Works(using[w])
  /\ MoveTo(w, "broken")
  /\ UNCHANGED <<holder, client, network, loop, wasStale, using, attempt, blamed, faults>>

\* HashRemote reads the file again.  If it cannot, the file is kept and nothing
\* is marked; if the bytes differ, the transfer counts as broken, whatever the
\* connection is like.
HashRemote(w) ==
  /\ pc[w] = "hash"
  /\ \/ Leave(w, "over") /\ UNCHANGED faults
     \/ /\ Works(using[w])
        /\ faults < MaxFaults
        /\ faults' = faults + 1
        /\ MoveTo(w, "broken")
        /\ UNCHANGED using
  /\ UNCHANGED <<holder, client, network, loop, wasStale, attempt, blamed>>

TriesAgain(n) == n <= MaxAttempts      \* mutant
MayRetry(n)   == n < MaxAttempts

NotMarked == stale                     \* mutant
Marked    == TRUE

\* MarkStale waits for the mutex, and marks whatever is installed by then.
MarkStale(w) ==
  /\ pc[w] = "broken"
  /\ Unlocked
  /\ stale' = Marked
  /\ blamed' = IF using[w] = 0 THEN blamed ELSE blamed \cup {using[w]}
  /\ IF MayRetry(attempt[w])
       THEN Leave(w, "want") /\ attempt' = [attempt EXCEPT ![w] = @ + 1]
       ELSE Leave(w, "failed") /\ UNCHANGED attempt
  /\ UNCHANGED <<holder, conn, open, network, loop, wasStale, faults>>

-----------------------------------------------------------------------------
\* An outage breaks every connection there is.
Outage == /\ faults < MaxFaults
          /\ \E g \in open : g \in alive
          /\ alive' = {}
          /\ faults' = faults + 1
          /\ UNCHANGED <<holder, client, dialled, loop, wasStale, pc, using, attempt, blamed>>

Loop    == ReadStale \/ Probe \/ LoopDials \/ WalkFails \/ WalkOk \/ BatchEnds
Work(w) == Ready(w) \/ WorkerDials(w) \/ TransferOk(w) \/ TransferBreaks(w) \/ HashRemote(w)
           \/ MarkStale(w)

Next == Outage \/ Loop \/ \E w \in Workers : Work(w)

Safe == Init /\ [][Next]_vars

\* Whoever can go on does: a dial and a transfer end, one way or the other.
\* The code has a deadline for the TCP connect only; the rest is asked of TCP.
Spec == Safe /\ WF_vars(Loop) /\ \A w \in Workers : WF_vars(Work(w))

-----------------------------------------------------------------------------
(***************************************************************************)
(* Properties.                                                             *)
(***************************************************************************)

\* No connection leaks: whoever dials, the only one not closed is the one
\* installed (client.go:60-68, 100-104, 179-189).
NoLeak == open = (IF conn = 0 THEN {} ELSE {conn})

\* A connection that a transfer found broken is not handed out again: it is
\* marked as long as it is installed ("replaced by the next worker that needs
\* a connection", client.go:47-51, 156-170; README.md:222-223).
BrokenIsMarked == \A g \in blamed : conn = g => stale

\* A walk starts on no connection that was marked (client.go:119-131).
WalkIsFresh == loop = "walk" /\ conn # 0 => ~stale

\* The mark is set when it is due and heeded where it counts, although it is
\* set late, read under one lock and acted on under another.
MarkHeeded == BrokenIsMarked /\ WalkIsFresh

\* Every batch ends: no path through the dialling leaves the mutex held
\* (client.go:156-170).
TransfersEnd == loop = "batch" ~> loop = "ensure"

\* "Three attempts survives a brief interruption" (config.go:128): a file
\* runs out of attempts only after as many faults as it had attempts.
SurvivesInterruptions == \A w \in Workers : pc[w] = "failed" => faults >= MaxAttempts
=============================================================================
