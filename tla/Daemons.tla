------------------------------ MODULE Daemons ------------------------------
(***************************************************************************)
(* The processes of sftpsyncd and the socket they share, the menu bar      *)
(* program that starts one and stops it when the user quits, and whoever   *)
(* else starts and stops daemons (cmd/sftpsyncbar/daemon_manager.go,       *)
(* main.go, cmd/sftpsyncd/main.go, internal/daemon/api.go, daemon.go).     *)
(*                                                                         *)
(* EnsureRunning may run in two goroutines at once, the one of onReady and *)
(* the handler of Start Daemon; both use the same field m.cmd, which is    *)
(* read again at every use.  The socket is the path in the file system:    *)
(* the process that created it, which may be gone.                         *)
(*                                                                         *)
(* A definition marked "mutant" is a broken variant of the definition after *)
(* it, kept to confirm that a property notices the bug; Next uses none.    *)
(***************************************************************************)
EXTENDS Integers, FiniteSets

CONSTANTS MaxProcs,    \* bound: daemon processes of a behavior
          MaxStarters, \* bound: calls of EnsureRunning
          Budgets      \* bounds: what others start, and what they stop or kill

Procs    == 1 .. MaxProcs
Starters == 1 .. MaxStarters

ASSUME DaemonsAssumption == /\ MaxProcs \in Nat \ {0}
                            /\ MaxStarters \in Nat \ {0}
                            /\ Budgets \subseteq [starts : Nat, ends : Nat]

VARIABLES main,    \* where the main goroutine of each process is
          ends,    \* what Shutdown has done in it: "no", "stopping", "cancelled"
          socket,  \* the process whose socket is at the path, 0 for none
          cmd,     \* m.cmd, 0 for nil
          starter, \* each call of EnsureRunning
          offered, \* the menu shows Start Daemon
          quit,    \* where onExit is, "run" before it
          waits,   \* the process that Shutdown's goroutine waits for
          calm,    \* history: no start was under way when the user quit
          overlap, \* history: a daemon was started while another one lived
          budget

procVars == <<main, ends, socket>>
appVars  == <<cmd, starter, offered>>
quitVars == <<quit, waits, calm>>
vars == <<procVars, appVars, quitVars, overlap, budget>>

Unborn == {"none", "made"}     \* no process yet; made: exec.Command only
Over   == {"dead", "refused"}  \* refused: the address was in use
Alive(p)   == main[p] \notin Unborn \cup Over
Serving(p) == main[p] = "serve" /\ ends[p] # "cancelled"
Starting   == {"ping", "assign", "start"}

\* Every variable keeps to the values the code can give it; in particular
\* nothing looks through m.cmd while it is nil.
TypeOK ==
  /\ main \in [Procs -> Unborn \cup Over \cup {"load", "clear", "listen", "chmod",
                                               "serve", "abort", "remove"}]
  /\ ends \in [Procs -> {"no", "stopping", "cancelled"}]
  /\ socket \in {0} \cup {p \in Procs : main[p] \notin Unborn}
  /\ cmd \in {0} \cup {p \in Procs : main[p] # "none"}
  /\ starter \in [Starters -> {"idle", "wait", "done"} \cup Starting]
  /\ offered \in BOOLEAN
  /\ quit \in {"run", "check", "ask", "reap", "await", "exit", "gone"}
  /\ waits \in {0} \cup Procs
  /\ calm \in BOOLEAN
  /\ overlap \in BOOLEAN
  /\ budget \in [starts : Nat, ends : Nat]
  /\ quit \in {"ask", "reap", "await"} => cmd # 0
  /\ quit = "await" => waits # 0

\* onReady has begun to look for a daemon.
Init ==
  /\ main = [p \in Procs |-> "none"]
  /\ ends = [p \in Procs |-> "no"]
  /\ socket = 0
  /\ cmd = 0
  /\ starter = [s \in Starters |-> IF s = 1 THEN "ping" ELSE "idle"]
  /\ offered = FALSE
  /\ quit = "run"
  /\ waits = 0
  /\ calm = FALSE
  /\ overlap = FALSE
  /\ budget \in Budgets

Moves(p, stage) == main' = [main EXCEPT ![p] = stage]

\* The first process that does not exist yet.
Fresh(p) == main[p] = "none" /\ \A q \in 1 .. p - 1 : main[q] # "none"

Overlaps(p) == overlap' = (overlap \/ \E q \in Procs \ {p} : Alive(q))

-----------------------------------------------------------------------------
\* A daemon process.

\* Start restores the jobs, or ends the process.
Restore(p) ==
  /\ main[p] = "load"
  /\ \E stage \in {"clear", "dead"} : Moves(p, stage)
  /\ UNCHANGED <<ends, socket, appVars, quitVars, overlap, budget>>

KeepsStale(s)  == s            \* mutant
WithoutFile(s) == 0

\* ServeAPI removes what an earlier process left at the path, and with it the
\* socket of one that still runs.
ClearSocket(p) ==
  /\ main[p] = "clear"
  /\ socket' = WithoutFile(socket)
  /\ Moves(p, "listen")
  /\ UNCHANGED <<ends, appVars, quitVars, overlap, budget>>

Listen(p) ==
  /\ main[p] = "listen"
  /\ IF socket = 0 THEN socket' = p /\ Moves(p, "chmod")
     ELSE UNCHANGED socket /\ Moves(p, "refused")
  /\ UNCHANGED <<ends, appVars, quitVars, overlap, budget>>

\* Chmod fails when the file is gone; the listener is closed then, which
\* removes whatever is at the path.
Chmod(p) ==
  /\ main[p] = "chmod"
  /\ Moves(p, IF socket = 0 THEN "abort" ELSE "serve")
  /\ UNCHANGED <<ends, socket, appVars, quitVars, overlap, budget>>

Abort(p) ==
  /\ main[p] = "abort"
  /\ socket' = 0
  /\ Moves(p, "dead")
  /\ UNCHANGED <<ends, appVars, quitVars, overlap, budget>>

\* Shutdown has waited for every job; the context is cancelled.
StopJobs(p) ==
  /\ Alive(p)
  /\ ends[p] = "stopping"
  /\ ends' = [ends EXCEPT ![p] = "cancelled"]
  /\ UNCHANGED <<main, socket, appVars, quitVars, overlap, budget>>

\* The server closes its listener, which removes the path, and Serve returns;
\* then ServeAPI removes the path once more and the process ends.
Close(p) ==
  /\ main[p] = "serve"
  /\ ends[p] = "cancelled"
  /\ socket' = 0
  /\ Moves(p, "remove")
  /\ UNCHANGED <<ends, appVars, quitVars, overlap, budget>>

RemoveSocket(p) ==
  /\ main[p] = "remove"
  /\ socket' = 0
  /\ Moves(p, "dead")
  /\ UNCHANGED <<ends, appVars, quitVars, overlap, budget>>

Daemon(p) == \/ Restore(p) \/ ClearSocket(p) \/ Listen(p) \/ Chmod(p) \/ Abort(p)
             \/ Close(p) \/ RemoveSocket(p)

-----------------------------------------------------------------------------
\* Requests.  One by a client that dials goes to the process at the path.  The
\* menu bar program polls and keeps idle connections, which may lead to a
\* process whose path has been removed.

Reached(p)  == Serving(p)
Unreachable == ~ \E p \in Procs : socket = p /\ Serving(p)

\* handleShutdown answers, and Shutdown begins; once more changes nothing.
Asked(p) == [ends EXCEPT ![p] = "stopping"]

-----------------------------------------------------------------------------
\* EnsureRunning.

StarterGoes(s, pc) == starter' = [starter EXCEPT ![s] = pc]

\* Start Daemon is clicked.
ClickStart(s) ==
  /\ quit = "run"
  /\ offered
  /\ starter[s] = "idle"
  /\ StarterGoes(s, "ping")
  /\ UNCHANGED <<procVars, cmd, offered, quitVars, overlap, budget>>

Ping(s) ==
  /\ starter[s] = "ping"
  /\ \/ (\E p \in Procs : Reached(p)) /\ StarterGoes(s, "done")
     \/ Unreachable /\ StarterGoes(s, "assign")
  /\ UNCHANGED <<procVars, cmd, offered, quitVars, overlap, budget>>

\* The binary or the log file may be missing; else m.cmd is replaced.
Assign(s) ==
  /\ starter[s] = "assign"
  /\ \/ StarterGoes(s, "done") /\ UNCHANGED <<main, cmd>>
     \/ /\ \E p \in Procs : Fresh(p) /\ Moves(p, "made") /\ cmd' = p
        /\ StarterGoes(s, "start")
  /\ UNCHANGED <<ends, socket, offered, quitVars, overlap, budget>>

\* m.cmd.Start fails, and does so when another goroutine has started it.
StartCmd(s) ==
  /\ starter[s] = "start"
  /\ \/ StarterGoes(s, "done") /\ UNCHANGED <<main, overlap>>
     \/ /\ main[cmd] = "made"
        /\ Moves(cmd, "load")
        /\ Overlaps(cmd)
        /\ StarterGoes(s, "wait")
  /\ UNCHANGED <<ends, socket, cmd, offered, quitVars, budget>>

\* The program ends, and its goroutines with it.
ProgramEnds ==
  /\ quit' = "gone"
  /\ starter' = [s \in Starters |-> "done"]
  /\ offered' = FALSE
  /\ waits' = 0

\* m.cmd.Process is nil until the command is started: who looks through it
\* after another goroutine replaced m.cmd ends the program.
Panics == main[cmd] = "made" /\ ProgramEnds

\* A ping is answered, and the process logged, or three seconds are over.
Waited(s) ==
  /\ starter[s] = "wait"
  /\ \/ StarterGoes(s, "done") /\ UNCHANGED <<offered, quit, waits>>
     \/ (\E p \in Procs : Reached(p)) /\ Panics
  /\ UNCHANGED <<procVars, cmd, calm, overlap, budget>>

\* The refresher shows Start Daemon while no daemon answers.
Poll ==
  /\ quit # "gone"
  /\ \/ (\E p \in Procs : Reached(p)) /\ offered' = FALSE
     \/ Unreachable /\ offered' = TRUE
  /\ UNCHANGED <<procVars, cmd, starter, quitVars, overlap, budget>>

Start(s) == Ping(s) \/ Assign(s) \/ StartCmd(s) \/ Waited(s)

-----------------------------------------------------------------------------
\* onExit.

Quit ==
  /\ quit = "run"
  /\ quit' = "check"
  /\ calm' = \A s \in Starters : starter[s] \notin Starting
  /\ UNCHANGED <<procVars, appVars, waits, overlap, budget>>

OwnsAny(c) == TRUE             \* mutant
Owns(c)    == c # 0

CheckOwned ==
  /\ quit = "check"
  /\ quit' = IF Owns(cmd) THEN "ask" ELSE "exit"
  /\ UNCHANGED <<procVars, appVars, waits, calm, overlap, budget>>

\* The request stops the daemon that answers, whichever it is.
AskShutdown ==
  /\ quit = "ask"
  /\ quit' = "reap"
  /\ \/ \E p \in Procs : Reached(p) /\ ends' = Asked(p)
     \/ Unreachable /\ UNCHANGED ends
  /\ UNCHANGED <<main, socket, appVars, waits, calm, overlap, budget>>

BeginWait ==
  /\ quit = "reap"
  /\ quit' = "await"
  /\ waits' = cmd
  /\ UNCHANGED <<procVars, appVars, calm, overlap, budget>>

\* Wait returns for a process that is over, or that was never started.
Reap ==
  /\ quit = "await"
  /\ ~Alive(waits)
  /\ quit' = "exit"
  /\ UNCHANGED <<procVars, appVars, waits, calm, overlap, budget>>

LetsLive(p) == UNCHANGED main  \* mutant
Kill(p)    == main' = IF Alive(p) THEN [main EXCEPT ![p] = "dead"] ELSE main

WaitsForever(stage) == FALSE   \* mutant
GivesUpAt(stage)    == stage = "await"

\* Five seconds are over.
TimesOut ==
  /\ GivesUpAt(quit)
  /\ \/ /\ main[cmd] # "made"
        /\ Kill(cmd)
        /\ quit' = "exit"
        /\ UNCHANGED <<starter, offered, waits>>
     \/ Panics /\ UNCHANGED main
  /\ UNCHANGED <<ends, socket, cmd, calm, overlap, budget>>

Exit ==
  /\ quit = "exit"
  /\ ProgramEnds
  /\ UNCHANGED <<procVars, cmd, calm, overlap, budget>>

OnExit == CheckOwned \/ AskShutdown \/ BeginWait \/ Reap \/ TimesOut \/ Exit

-----------------------------------------------------------------------------
\* Everybody else.

\* A shell or a launch agent starts a daemon.
OthersStart ==
  /\ budget.starts > 0
  /\ budget' = [budget EXCEPT !.starts = @ - 1]
  /\ \E p \in Procs : Fresh(p) /\ Moves(p, "load") /\ Overlaps(p)
  /\ UNCHANGED <<ends, socket, appVars, quitVars>>

Ends == budget.ends > 0 /\ budget' = [budget EXCEPT !.ends = @ - 1]

\* sftpsync stop, or Stop All Syncs.
OthersStop ==
  /\ Ends
  /\ socket # 0 /\ Serving(socket)
  /\ ends' = Asked(socket)
  /\ UNCHANGED <<main, socket, appVars, quitVars, overlap>>

\* SIGINT or SIGTERM begins Shutdown, once, or ends a process that does not
\* listen for signals yet.
Signal(p) ==
  /\ Ends
  /\ Alive(p) /\ ends[p] = "no"
  /\ \/ main[p] # "load" /\ ends' = Asked(p) /\ UNCHANGED main
     \/ main[p] \in {"load", "clear"} /\ Moves(p, "dead") /\ UNCHANGED ends
  /\ UNCHANGED <<socket, appVars, quitVars, overlap>>

\* SIGKILL or a crash: the path stays.
Crash(p) ==
  /\ Ends
  /\ Alive(p)
  /\ Moves(p, "dead")
  /\ UNCHANGED <<ends, socket, appVars, quitVars, overlap>>

Others == OthersStart \/ OthersStop \/ \E p \in Procs : Signal(p) \/ Crash(p)

Next == \/ \E p \in Procs : Daemon(p) \/ StopJobs(p)
        \/ \E s \in Starters : ClickStart(s) \/ Start(s)
        \/ Poll \/ Quit \/ OnExit \/ Others

Safe == Init /\ [][Next]_vars

\* onExit can always go on: its client gives the request ten seconds and its
\* timer fires.  The daemon has to do nothing: its jobs may hang.
Spec == Safe /\ WF_vars(OnExit)

-----------------------------------------------------------------------------
(***************************************************************************)
(* Properties.                                                             *)
(***************************************************************************)

\* A daemon that never lived beside another one is reachable at the path for
\* as long as it serves, and no start fails because of a path that a dead
\* daemon left: whatever ended the earlier ones, and wherever they were in
\* their own removal of the path (api.go:19-33; src/README.md:292).
AloneServes ==
  ~overlap => \A p \in Procs : /\ main[p] # "refused"
                               /\ Serving(p) => socket = p

\* If no start was under way when the user quit, the program never ends while
\* the daemon it started last lives: the wait is for that daemon, nothing
\* replaces it meanwhile, and what is still running after it is killed.  The
\* request may have stopped another one (daemon_manager.go:70-92).
OwnedIsStopped == calm /\ quit \in {"exit", "gone"} => cmd = 0 \/ ~Alive(cmd)

\* Once the user quits while no start is under way, the program ends, even if
\* the daemon's jobs hang or another daemon took its place at the path, and
\* the daemon it started last is over by then (daemon_manager.go:70-92).
QuitStops ==
  (quit = "check" /\ calm) ~> (quit = "gone" /\ (cmd = 0 \/ ~Alive(cmd)))
=============================================================================
