--------------------------- MODULE DaemonsProofs ---------------------------
(***************************************************************************)
(* Theorems about Daemons, for any number of processes and of calls of     *)
(* EnsureRunning.                                                          *)
(***************************************************************************)
EXTENDS Daemons, TLAPS

USE DEF Procs, Starters, Unborn, Over

-----------------------------------------------------------------------------
(***************************************************************************)
(* Types.                                                                  *)
(***************************************************************************)

LEMMA DaemonTypes ==
  ASSUME TypeOK, NEW p \in Procs, Daemon(p) \/ StopJobs(p)
  PROVE  TypeOK'
<1> USE DEF TypeOK, Moves, appVars, quitVars
<1>1. CASE Restore(p)
  BY <1>1 DEF Restore
<1>2. CASE ClearSocket(p)
  BY <1>2 DEF ClearSocket, WithoutFile
<1>3. CASE Listen(p)
  <2>1. CASE socket = 0 /\ socket' = p /\ Moves(p, "chmod")
    BY <1>3, <2>1 DEF Listen
  <2>2. CASE UNCHANGED socket /\ Moves(p, "refused")
    BY <1>3, <2>2 DEF Listen
  <2> QED
    BY <1>3, <2>1, <2>2, Zenon DEF Listen
<1>4. CASE Chmod(p)
  BY <1>4 DEF Chmod
<1>5. CASE Abort(p)
  BY <1>5 DEF Abort
<1>6. CASE StopJobs(p)
  BY <1>6 DEF StopJobs
<1>7. CASE Close(p)
  BY <1>7 DEF Close
<1>8. CASE RemoveSocket(p)
  BY <1>8 DEF RemoveSocket
<1> QED
  BY <1>1, <1>2, <1>3, <1>4, <1>5, <1>6, <1>7, <1>8 DEF Daemon

LEMMA StarterTypes ==
  ASSUME TypeOK, NEW s \in Starters, ClickStart(s) \/ Start(s)
  PROVE  TypeOK'
<1> USE DEF TypeOK, Moves, procVars, quitVars, StarterGoes, Starting
<1>1. CASE ClickStart(s)
  BY <1>1 DEF ClickStart
<1>2. CASE Ping(s)
  BY <1>2 DEF Ping
<1>3. CASE Assign(s)
  <2>1. CASE UNCHANGED <<main, cmd>>
    BY <1>3, <2>1 DEF Assign
  <2>2. ASSUME NEW p \in Procs, Fresh(p), Moves(p, "made"), cmd' = p,
               StarterGoes(s, "start")
        PROVE  TypeOK'
    <3>1. main[p] = "none" /\ socket # p
      BY <2>2 DEF Fresh
    <3>2. UNCHANGED <<ends, socket, offered, quitVars, overlap, budget>>
      BY <1>3 DEF Assign
    <3>3. main' \in [Procs -> Unborn \cup Over \cup {"load", "clear", "listen", "chmod",
                                                  "serve", "abort", "remove"}]
      BY <2>2
    <3>4. socket' \in {0} \cup {q \in Procs : main'[q] \notin Unborn}
      BY <2>2, <3>1, <3>2
    <3>5. cmd' \in {0} \cup {q \in Procs : main'[q] # "none"} /\ cmd' # 0
      BY <2>2
    <3> QED
      BY <2>2, <3>2, <3>3, <3>4, <3>5
  <2> QED
    BY <1>3, <2>1, <2>2 DEF Assign
<1>4. CASE StartCmd(s)
  <2>1. CASE StarterGoes(s, "done") /\ UNCHANGED <<main, overlap>>
    BY <1>4, <2>1 DEF StartCmd
  <2>2. CASE main[cmd] = "made" /\ Moves(cmd, "load") /\ Overlaps(cmd) /\ StarterGoes(s, "wait")
    <3>1. UNCHANGED <<ends, socket, cmd, offered, quitVars, budget>>
      BY <1>4 DEF StartCmd
    <3>2. main' \in [Procs -> Unborn \cup Over \cup {"load", "clear", "listen", "chmod",
                                                  "serve", "abort", "remove"}]
      BY <2>2
    <3>3. \A q \in Procs : /\ main[q] \notin Unborn => main'[q] \notin Unborn
                           /\ main[q] # "none" => main'[q] # "none"
      BY <2>2 DEF Unborn
    <3>4. overlap' \in BOOLEAN
      BY <2>2, Zenon DEF Overlaps
    <3>5. starter' \in [Starters -> {"idle", "wait", "done"} \cup Starting]
      BY <2>2
    <3>6. socket' \in {0} \cup {q \in Procs : main'[q] \notin Unborn}
      BY <3>1, <3>3
    <3>7. cmd' \in {0} \cup {q \in Procs : main'[q] # "none"}
      BY <3>1, <3>3
    <3> QED
      BY <3>1, <3>2, <3>4, <3>5, <3>6, <3>7
  <2> QED
    BY <1>4, <2>1, <2>2, Zenon DEF StartCmd
<1>5. CASE Waited(s)
  BY <1>5 DEF Waited, Panics, ProgramEnds
<1> QED
  BY <1>1, <1>2, <1>3, <1>4, <1>5 DEF Start

LEMMA QuitTypes ==
  ASSUME TypeOK, Poll \/ Quit \/ OnExit
  PROVE  TypeOK'
<1> USE DEF TypeOK, procVars, appVars, quitVars
<1>1. CASE Poll
  BY <1>1 DEF Poll
<1>2. CASE Quit
  BY <1>2 DEF Quit
<1>3. CASE CheckOwned
  BY <1>3 DEF CheckOwned, Owns
<1>4. CASE AskShutdown
  BY <1>4 DEF AskShutdown, Asked
<1>5. CASE BeginWait
  BY <1>5 DEF BeginWait
<1>6. CASE Reap
  BY <1>6 DEF Reap
<1>7. CASE TimesOut
  BY <1>7 DEF TimesOut, Kill, Alive, Panics, ProgramEnds
<1>8. CASE Exit
  BY <1>8 DEF Exit, ProgramEnds, Starting
<1> QED
  BY <1>1, <1>2, <1>3, <1>4, <1>5, <1>6, <1>7, <1>8 DEF OnExit

LEMMA OthersTypes ==
  ASSUME TypeOK, Others
  PROVE  TypeOK'
<1> USE DEF TypeOK, Moves, appVars, quitVars
<1>1. CASE OthersStart
  BY <1>1 DEF OthersStart, Fresh, Overlaps
<1>2. CASE OthersStop
  BY <1>2 DEF OthersStop, Ends, Asked
<1>3. ASSUME NEW p \in Procs, Signal(p) PROVE TypeOK'
  <2>1. CASE ends' = Asked(p) /\ UNCHANGED main
    BY <1>3, <2>1 DEF Signal, Ends, Asked
  <2>2. CASE Moves(p, "dead") /\ UNCHANGED ends
    BY <1>3, <2>2 DEF Signal, Ends
  <2> QED
    BY <1>3, <2>1, <2>2 DEF Signal
<1>4. ASSUME NEW p \in Procs, Crash(p) PROVE TypeOK'
  BY <1>4 DEF Crash, Ends, Alive
<1> QED
  BY <1>1, <1>2, <1>3, <1>4 DEF Others

\* Every variable keeps to its values; in particular neither EnsureRunning nor
\* Shutdown looks through m.cmd while it is nil (daemon_manager.go:48-88).
THEOREM TypeCorrect == Safe => []TypeOK
<1>1. Init => TypeOK
  <2> SUFFICES ASSUME Init PROVE TypeOK
    OBVIOUS
  <2>1. budget \in [starts : Nat, ends : Nat]
    BY DaemonsAssumption DEF Init
  <2> QED
    BY <2>1 DEF Init, TypeOK, Starting
<1>2. TypeOK /\ [Next]_vars => TypeOK'
  <2> SUFFICES ASSUME TypeOK, [Next]_vars PROVE TypeOK'
    OBVIOUS
  <2>1. CASE Next
    BY <2>1, DaemonTypes, StarterTypes, QuitTypes, OthersTypes DEF Next
  <2>2. CASE UNCHANGED vars
    BY <2>2 DEF vars, procVars, appVars, quitVars, TypeOK
  <2> QED
    BY <2>1, <2>2
<1> QED
  BY <1>1, <1>2, PTL DEF Safe

-----------------------------------------------------------------------------
(***************************************************************************)
(* The socket path.  AloneServes is not inductive: whether a daemon finds  *)
(* the path its own was decided when it listened, and it listened in vain  *)
(* or not by what the one before it had left.  The strengthening follows   *)
(* the path through the start of the one daemon that lives.                *)
(***************************************************************************)
OneAlive == \A p, q \in Procs : Alive(p) /\ Alive(q) => p = q

AloneInv ==
  /\ OneAlive
  /\ \A p \in Procs : /\ main[p] \notin {"refused", "abort"}
                      /\ main[p] = "listen" => socket = 0
                      /\ main[p] \in {"chmod", "serve"} => socket = p
IInv == ~overlap => AloneInv

LEMMA DaemonStep ==
  ASSUME TypeOK, IInv, NEW p \in Procs, Daemon(p) \/ StopJobs(p)
  PROVE  IInv'
<1> SUFFICES ASSUME ~overlap' PROVE AloneInv'
  BY DEF IInv
<1>1. UNCHANGED overlap
  BY DEF Daemon, StopJobs, Restore, ClearSocket, Listen, Chmod, Abort, Close, RemoveSocket
<1>2. AloneInv
  BY <1>1 DEF IInv
<1> USE <1>2 DEF TypeOK, AloneInv, OneAlive, Alive, Moves
<1>3. CASE Restore(p)
  BY <1>3 DEF Restore
<1>4. CASE ClearSocket(p)
  BY <1>4 DEF ClearSocket, WithoutFile
<1>5. CASE Listen(p)
  <2>1. socket = 0 /\ socket' = p /\ Moves(p, "chmod")
    BY <1>5 DEF Listen
  <2>2. \A q \in Procs \ {p} : main'[q] = main[q] /\ main[q] \in Unborn \cup Over
    BY <1>2, <1>5, <2>1 DEF Listen
  <2>3. main'[p] = "chmod"
    BY <2>1
  <2> QED
    BY <2>1, <2>2, <2>3 DEF Unborn, Over
<1>6. CASE Chmod(p)
  BY <1>6 DEF Chmod
<1>7. CASE Abort(p)
  BY <1>7 DEF Abort
<1>8. CASE StopJobs(p)
  BY <1>8 DEF StopJobs
<1>9. CASE Close(p)
  BY <1>9 DEF Close
<1>10. CASE RemoveSocket(p)
  BY <1>10 DEF RemoveSocket
<1> QED
  BY <1>3, <1>4, <1>5, <1>6, <1>7, <1>8, <1>9, <1>10 DEF Daemon

LEMMA StarterStep ==
  ASSUME TypeOK, IInv, NEW s \in Starters, ClickStart(s) \/ Start(s)
  PROVE  IInv'
<1> USE DEF TypeOK, IInv, AloneInv, OneAlive, Alive, Moves
<1>1. CASE ClickStart(s) \/ Ping(s) \/ Waited(s)
  BY <1>1 DEF ClickStart, Ping, Waited, procVars
<1>2. CASE Assign(s)
  <2>1. CASE UNCHANGED main
    BY <1>2, <2>1 DEF Assign
  <2>2. ASSUME NEW p \in Procs, Fresh(p), Moves(p, "made") PROVE IInv'
    BY <1>2, <2>2 DEF Assign, Fresh
  <2> QED
    BY <1>2, <2>1, <2>2 DEF Assign
<1>3. CASE StartCmd(s)
  <2>1. CASE UNCHANGED <<main, overlap>>
    BY <1>3, <2>1 DEF StartCmd
  <2>2. CASE main[cmd] = "made" /\ Moves(cmd, "load") /\ Overlaps(cmd)
    BY <1>3, <2>2 DEF StartCmd, Overlaps
  <2> QED
    BY <1>3, <2>1, <2>2 DEF StartCmd
<1> QED
  BY <1>1, <1>2, <1>3 DEF Start

LEMMA QuitStep ==
  ASSUME TypeOK, IInv, Poll \/ Quit \/ OnExit
  PROVE  IInv'
<1> USE DEF TypeOK, IInv, AloneInv, OneAlive, Alive
<1>1. CASE Poll \/ Quit
  BY <1>1 DEF Poll, Quit, procVars
<1>2. CASE TimesOut
  <2>1. UNCHANGED <<socket, overlap, ends>>
    BY <1>2 DEF TimesOut
  <2>2. UNCHANGED main \/ main' = [main EXCEPT ![cmd] = "dead"]
    BY <1>2 DEF TimesOut, Kill
  <2> QED
    BY <2>1, <2>2
<1>3. CASE OnExit /\ ~TimesOut
  <2>1. UNCHANGED <<main, socket, overlap>>
    BY <1>3, Zenon DEF OnExit, CheckOwned, AskShutdown, BeginWait, Reap, Exit, procVars
  <2> QED
    BY <2>1
<1> QED
  BY <1>1, <1>2, <1>3 DEF OnExit

LEMMA OthersStep ==
  ASSUME TypeOK, IInv, Others
  PROVE  IInv'
<1> USE DEF TypeOK, IInv, AloneInv, OneAlive, Alive, Moves
<1>1. CASE OthersStart
  <2> SUFFICES ASSUME ~overlap' PROVE AloneInv'
    BY DEF IInv
  <2> PICK p \in Procs : Fresh(p) /\ Moves(p, "load") /\ Overlaps(p)
    BY <1>1 DEF OthersStart
  <2>1. ~overlap /\ \A q \in Procs \ {p} : ~Alive(q)
    BY DEF Overlaps
  <2>2. main[p] = "none" /\ UNCHANGED <<ends, socket>>
    BY <1>1 DEF Fresh, OthersStart
  <2>3. main'[p] = "load" /\ \A q \in Procs \ {p} : main'[q] = main[q]
    OBVIOUS
  <2> QED
    BY <2>1, <2>2, <2>3
<1>2. CASE OthersStop
  BY <1>2 DEF OthersStop
<1>3. ASSUME NEW p \in Procs, Signal(p) PROVE IInv'
  <2>1. CASE UNCHANGED main
    BY <1>3, <2>1 DEF Signal
  <2>2. CASE Moves(p, "dead")
    BY <1>3, <2>2 DEF Signal
  <2> QED
    BY <1>3, <2>1, <2>2 DEF Signal
<1>4. ASSUME NEW p \in Procs, Crash(p) PROVE IInv'
  BY <1>4 DEF Crash
<1> QED
  BY <1>1, <1>2, <1>3, <1>4 DEF Others

\* However many daemons were started, stopped or killed before it, a daemon
\* that never lived beside another one never fails to bind, and clients find
\* it at the path for as long as it serves (api.go:14-45).
THEOREM AloneAtThePath == Safe => []AloneServes
<1>1. Init => IInv
  BY DEF Init, IInv, AloneInv, OneAlive, Alive
<1>2. TypeOK /\ IInv /\ [Next]_vars => IInv'
  <2> SUFFICES ASSUME TypeOK, IInv, [Next]_vars PROVE IInv'
    OBVIOUS
  <2>1. CASE Next
    BY <2>1, DaemonStep, StarterStep, QuitStep, OthersStep DEF Next
  <2>2. CASE UNCHANGED vars
    BY <2>2 DEF vars, procVars, IInv, AloneInv, OneAlive, Alive
  <2> QED
    BY <2>1, <2>2
<1>3. IInv => AloneServes
  BY DEF IInv, AloneInv, AloneServes, Serving
<1> QED
  BY <1>1, <1>2, <1>3, TypeCorrect, PTL DEF Safe

-----------------------------------------------------------------------------
(***************************************************************************)
(* The end of the program.  OwnedIsStopped is about the moments after the  *)
(* wait; the strengthening says what is waited for, and that nothing       *)
(* starts a daemon or replaces m.cmd once the user has quit.               *)
(***************************************************************************)
QuitInv ==
  /\ calm => quit # "run" /\ \A s \in Starters : starter[s] \notin Starting
  /\ calm /\ quit = "await" => waits = cmd
  /\ OwnedIsStopped

\* A step that does not turn to the program's end and revives no daemon.
Leaves == /\ UNCHANGED <<cmd, quit, waits, calm>>
          /\ calm => \A s \in Starters : starter'[s] \notin Starting
          /\ calm /\ cmd # 0 /\ ~Alive(cmd) => ~Alive(cmd)'

LEMMA LeavesQuit ==
  ASSUME QuitInv, Leaves
  PROVE  QuitInv'
<1>1. ASSUME calm, quit \in {"exit", "gone"} PROVE cmd' = 0 \/ ~Alive(cmd)'
  BY <1>1 DEF QuitInv, Leaves, OwnedIsStopped
<1> QED
  BY <1>1 DEF QuitInv, Leaves, OwnedIsStopped

LEMMA DaemonLeaves ==
  ASSUME TypeOK, QuitInv, NEW p \in Procs, Daemon(p) \/ StopJobs(p)
  PROVE  Leaves
<1>1. UNCHANGED <<cmd, quit, waits, calm, starter>>
  BY Zenon DEF Daemon, StopJobs, Restore, ClearSocket, Listen, Chmod, Abort, Close, RemoveSocket,
     appVars, quitVars
<1>2. UNCHANGED main \/ main[p] \in {"load", "clear", "listen", "chmod", "abort", "serve", "remove"}
  BY DEF Daemon, StopJobs, Restore, ClearSocket, Listen, Chmod, Abort, Close, RemoveSocket
<1>3. UNCHANGED main \/ \E stage : main' = [main EXCEPT ![p] = stage]
  BY Zenon DEF Daemon, StopJobs, Restore, ClearSocket, Listen, Chmod, Abort, Close, RemoveSocket,
     Moves
<1>4. ASSUME ~Alive(cmd), cmd # 0 PROVE ~Alive(cmd)'
  <2>1. cmd \in Procs /\ (UNCHANGED main \/ cmd # p)
    BY <1>2, <1>4 DEF TypeOK, Alive
  <2>2. main'[cmd] = main[cmd]
    BY <1>3, <2>1 DEF TypeOK
  <2> QED
    BY <1>1, <1>4, <2>2 DEF Alive
<1> QED
  BY <1>1, <1>4 DEF Leaves, QuitInv

LEMMA StarterLeaves ==
  ASSUME TypeOK, QuitInv, NEW s \in Starters, ClickStart(s) \/ Start(s)
  PROVE  QuitInv'
<1>1. CASE ~calm
  <2>1. ~calm'
    BY <1>1 DEF ClickStart, Start, Ping, Assign, StartCmd, Waited, quitVars
  <2> QED
    BY <2>1 DEF QuitInv, OwnedIsStopped
<1>2. CASE calm
  <2>1. quit # "run" /\ starter[s] \notin {"ping", "assign", "start"}
    BY <1>2 DEF QuitInv, Starting
  <2>2. Waited(s)
    BY <2>1 DEF ClickStart, Start, Ping, Assign, StartCmd
  <2>3. CASE StarterGoes(s, "done") /\ UNCHANGED <<main, cmd, quit, waits, calm>>
    <3>1. \A r \in Starters : starter'[r] \notin Starting
      BY <1>2, <2>3 DEF QuitInv, TypeOK, StarterGoes, Starting
    <3>2. Leaves
      BY <2>3, <3>1 DEF Leaves, Alive
    <3> QED
      BY <3>2, LeavesQuit
  <2>4. CASE Panics /\ UNCHANGED <<main, cmd, calm>>
    BY <2>4 DEF Panics, ProgramEnds, QuitInv, OwnedIsStopped, Alive, Starting
  <2> QED
    BY <2>2, <2>3, <2>4 DEF Waited, procVars
<1> QED
  BY <1>1, <1>2

LEMMA QuitKeeps ==
  ASSUME TypeOK, QuitInv, Poll \/ Quit \/ OnExit
  PROVE  QuitInv'
<1> USE DEF QuitInv, OwnedIsStopped, procVars, appVars, quitVars, Alive
<1>1. CASE Poll
  BY <1>1 DEF Poll
<1>2. CASE Quit
  BY <1>2 DEF Quit
<1>3. CASE CheckOwned
  BY <1>3 DEF CheckOwned, Owns
<1>4. CASE AskShutdown
  BY <1>4 DEF AskShutdown
<1>5. CASE BeginWait
  BY <1>5 DEF BeginWait
<1>6. CASE Reap
  BY <1>6 DEF Reap
<1>7. CASE TimesOut
  <2>1. cmd \in Procs /\ cmd' = cmd /\ calm' = calm
    BY <1>7 DEF TimesOut, GivesUpAt, TypeOK
  <2>2. main'[cmd] \in Unborn \cup Over
    <3>1. main' = IF Alive(cmd) THEN [main EXCEPT ![cmd] = "dead"] ELSE main
      BY <1>7 DEF TimesOut, Kill, Panics
    <3>2. CASE Alive(cmd)
      BY <2>1, <3>1, <3>2 DEF TypeOK
    <3>3. CASE ~Alive(cmd)
      BY <3>1, <3>3
    <3> QED
      BY <3>2, <3>3
  <2>3. quit' # "run" /\ quit' # "await"
    BY <1>7 DEF TimesOut, Panics, ProgramEnds
  <2>4. calm => \A s \in Starters : starter'[s] \notin Starting
    BY <1>7 DEF TimesOut, Panics, ProgramEnds, Starting
  <2> QED
    BY <2>1, <2>2, <2>3, <2>4
<1>8. CASE Exit
  BY <1>8 DEF Exit, ProgramEnds, Starting
<1> QED
  BY <1>1, <1>2, <1>3, <1>4, <1>5, <1>6, <1>7, <1>8 DEF OnExit

LEMMA OthersLeave ==
  ASSUME TypeOK, QuitInv, Others
  PROVE  Leaves
<1>1. UNCHANGED <<cmd, quit, waits, calm, starter>>
  BY Zenon DEF Others, OthersStart, OthersStop, Signal, Crash, appVars, quitVars
<1>2. ASSUME cmd # 0, ~Alive(cmd) PROVE main'[cmd] \in Unborn \cup Over
  <2>1. cmd \in Procs /\ main[cmd] \in Unborn \cup Over /\ main[cmd] # "none"
    BY <1>2 DEF TypeOK, Alive
  <2>2. CASE UNCHANGED main
    BY <2>1, <2>2
  <2>3. ASSUME NEW p \in Procs, Moves(p, "dead") PROVE main'[cmd] \in Unborn \cup Over
    <3>1. main'[cmd] = main[cmd] \/ main'[cmd] = "dead"
      BY <2>1, <2>3 DEF Moves, TypeOK
    <3> QED
      BY <2>1, <3>1
  <2>4. ASSUME NEW p \in Procs, Fresh(p), Moves(p, "load") PROVE main'[cmd] = main[cmd]
    BY <2>1, <2>4 DEF Moves, Fresh
  <2> QED
    BY <2>1, <2>2, <2>3, <2>4, Zenon DEF Others, OthersStart, OthersStop, Signal, Crash
<1> QED
  BY <1>1, <1>2 DEF Leaves, QuitInv, Alive

\* If no start was under way when the user quit, the program never ends while
\* the daemon it started last lives, whatever daemons others start, stop or
\* put at the path meanwhile (daemon_manager.go:70-92).
THEOREM QuitLeavesNone == Safe => []OwnedIsStopped
<1>1. Init => QuitInv
  BY DEF Init, QuitInv, OwnedIsStopped
<1>2. TypeOK /\ QuitInv /\ [Next]_vars => QuitInv'
  <2> SUFFICES ASSUME TypeOK, QuitInv, [Next]_vars PROVE QuitInv'
    OBVIOUS
  <2>1. CASE Next
    BY <2>1, DaemonLeaves, StarterLeaves, QuitKeeps, OthersLeave, LeavesQuit DEF Next
  <2>2. CASE UNCHANGED vars
    BY <2>2 DEF vars, procVars, appVars, quitVars, QuitInv, OwnedIsStopped, Alive
  <2> QED
    BY <2>1, <2>2
<1>3. QuitInv => OwnedIsStopped
  BY DEF QuitInv
<1> QED
  BY <1>1, <1>2, <1>3, TypeCorrect, PTL DEF Safe
=============================================================================
