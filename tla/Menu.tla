-------------------------------- MODULE Menu --------------------------------
(***************************************************************************)
(* The menu of the menu bar program: the slots that show the daemon's jobs *)
(* and carry their controls, the goroutine that refreshes them, and the    *)
(* handlers of clicks (cmd/sftpsyncbar/menu.go, refresh.go,                *)
(* internal/menubar/menubar.go, internal/apiclient/client.go).             *)
(*                                                                         *)
(* A slot is written under its mutex and drawn after the mutex is given    *)
(* back, by the refresher and by any number of handlers at once: here the  *)
(* two are separate steps.  Drawing one slot is one step, although it sets *)
(* its rows one after the other.                                           *)
(*                                                                         *)
(* The daemon is what its API shows of it: whether it answers, and its     *)
(* list of jobs, which other clients and the jobs themselves change.       *)
(*                                                                         *)
(* A definition marked "mutant" is a broken variant of the definition after *)
(* it, kept to confirm that a property notices the bug; Next uses none.    *)
(***************************************************************************)
EXTENDS Integers, Sequences, FiniteSets

CONSTANTS maxSlots,    \* job slots in the menu
          Jobs,        \* job IDs
          Pathless,    \* jobs the daemon reports no local path for
          MaxHandlers, \* bound: handler goroutines of a behavior
          Lists,       \* lists of jobs the daemon may have at first
          Budgets      \* bounds: how much others change, and how much fails

Slots    == 1 .. maxSlots
Handlers == 1 .. MaxHandlers

ASSUME MenuAssumption == /\ maxSlots \in Nat \ {0}
                         /\ "none" \notin Jobs
                         /\ Lists \subseteq Seq([id : Jobs, paused : BOOLEAN,
                                                 st : {"idle", "active", "error"}])
                         /\ Pathless \subseteq Jobs
                         /\ MaxHandlers \in Nat \ {0}
                         /\ Budgets \subseteq [changes : Nat, faults : Nat]

VARIABLES daemon,   \* "up", "stopping" or "down"
          list,     \* its jobs, in the order of the API
          unborn,   \* IDs no job has had yet
          loop,     \* where the refresher is
          trigger,  \* the token in refresher.trigger
          fetched,  \* what the last ListJobs returned
          pending,  \* slots the update has yet to go through
          fresh,    \* what show took under the mutex and has yet to draw
          job,      \* jobSlot.job, NoJob when the slot is not occupied
          err,      \* jobSlot.actionError: the job whose action failed
          shown,    \* what each slot's rows show
          enabled,  \* whether each slot's controls are enabled
          bar,      \* title, tooltip, daemon row, notices of the whole menu
          click,    \* each handler goroutine
          owed,     \* history: a refresh was asked for since the last ListJobs
          late,     \* history: slots last drawn by a handler that asks for none
          budget

daemonVars  == <<daemon, list, unborn>>
refreshVars == <<loop, fetched, pending, fresh>>
slotVars    == <<job, err, shown, enabled>>
vars == <<daemonVars, refreshVars, trigger, slotVars, bar, click, owed, late, budget>>

-----------------------------------------------------------------------------
\* Values.

States   == {"idle", "active", "error"}
NoJob    == [id |-> "none", paused |-> FALSE, st |-> "idle"]
NoError  == "none"
JobRecords  == [id : Jobs, paused : BOOLEAN, st : States]
Errors      == Jobs \cup {NoError}

\* What a slot displays: the rows of JobSlotView, from which SlotControlsFor
\* and CopyableError decide the controls.  Drawing an empty slot shows its
\* header, so it is not the same as hiding it.
Hidden == [visible |-> FALSE, job |-> NoJob, err |-> NoError]
JobSlotView(j, e) == [visible |-> TRUE, job |-> j, err |-> e]
Views  == {Hidden} \cup [visible : {TRUE}, job : JobRecords \cup {NoJob}, err : Errors]

CopyableError(j, e) == j.st = "error" \/ e # NoError
RevealableDestination(j) == j # NoJob /\ j.id \notin Pathless

\* The controls a displayed slot offers.
Controls(v) ==
  IF ~v.visible THEN {}
  ELSE {"sync", "remove", IF v.job.paused THEN "resume" ELSE "pause"}
       \cup (IF RevealableDestination(v.job) THEN {"reveal"} ELSE {})
       \cup (IF CopyableError(v.job, v.err) THEN {"copy"} ELSE {})

\* The most urgent state of all jobs, and how many are in each.
MenuStatusFor(js) ==
  LET active == Cardinality({k \in DOMAIN js : js[k].st = "active"})
      failed == Cardinality({k \in DOMAIN js : js[k].st = "error"})
      paused == Cardinality({k \in DOMAIN js : js[k].st = "idle" /\ js[k].paused})
  IN [state  |-> IF failed > 0 THEN "error" ELSE IF active > 0 THEN "active"
                 ELSE IF paused > 0 THEN "paused" ELSE "idle",
      counts |-> <<Len(js), active, paused, failed>>]

NoticeUnchecked(total) == total - maxSlots     \* mutant
AdditionalJobsNotice(total) == IF total <= maxSlots THEN 0 ELSE total - maxSlots

\* ListJobs returns jobs, or an error.
Unreachable == [ok |-> FALSE, jobs |-> <<>>]
Listed(js)  == [ok |-> TRUE, jobs |-> js]

\* The rows of the whole menu.
BarFor(f) == [daemon |-> IF f.ok THEN "running" ELSE "not running",
              status |-> MenuStatusFor(f.jobs),
              more   |-> AdditionalJobsNotice(Len(f.jobs)),
              noJobs |-> f.jobs = <<>>]

\* What slot i should hold and display after a fetch.
JobFor(f, i) == IF i <= Len(f.jobs) THEN f.jobs[i] ELSE NoJob

Free == [pc |-> "free", act |-> "none", slot |-> 0, target |-> "none", view |-> Hidden,
         aim |-> "none", calm |-> TRUE]
Done == [Free EXCEPT !.pc = "done"]

SlotActs == {"pause", "resume", "sync", "remove", "reveal", "copy"}
MenuActs == {"add", "stop", "start", "refresh"}

\* What a handler goroutine holds in its variables, and aim and calm for a
\* property: the job whose row was clicked, and whether the slot still had it.
Goroutines ==
  [pc     : {"free", "clicked", "begin", "clear", "request", "failed", "report", "enable",
             "now", "done"},
   act    : SlotActs \cup MenuActs \cup {"startup", "none"},
   slot   : Slots \cup {0},
   target : Jobs \cup {"none"},
   view   : Views,
   aim    : Jobs \cup {"none"},
   calm   : BOOLEAN]

\* Every variable keeps to the values the code can give it.
TypeOK ==
  /\ daemon \in {"up", "stopping", "down"}
  /\ list \in Seq(JobRecords)
  /\ unborn \in SUBSET Jobs
  /\ loop \in {"list", "asked", "store", "draw", "wait"}
  /\ trigger \in BOOLEAN
  /\ fetched \in [ok : BOOLEAN, jobs : Seq(JobRecords)]
  /\ pending \in Seq(Slots)
  /\ fresh \in Views
  /\ job \in [Slots -> JobRecords \cup {NoJob}]
  /\ err \in [Slots -> Errors]
  /\ shown \in [Slots -> Views]
  /\ enabled \in [Slots -> BOOLEAN]
  /\ bar.daemon \in {"starting", "running", "not running"}
  /\ bar.more \in Nat
  /\ click \in [Handlers -> Goroutines]
  /\ owed \in BOOLEAN
  /\ late \in SUBSET Slots
  /\ budget \in [changes : Nat, faults : Nat]

IDs(js) == {js[k].id : k \in DOMAIN js}

\* buildMenu has cleared the slots and the refresher is about to ask for the
\* first time.  onReady's goroutine is the first handler: it is about to look
\* for the daemon, or has already found it and asked for a refresh.
Init ==
  /\ list \in Lists
  /\ unborn = Jobs \ IDs(list)
  /\ loop = "list"
  /\ fetched = Unreachable
  /\ pending = <<>>
  /\ fresh = Hidden
  /\ job = [i \in Slots |-> NoJob]
  /\ err = [i \in Slots |-> NoError]
  /\ shown = [i \in Slots |-> Hidden]
  /\ enabled = [i \in Slots |-> TRUE]
  /\ bar = [daemon |-> "starting", status |-> MenuStatusFor(<<>>), more |-> 0, noJobs |-> TRUE]
  /\ \/ /\ daemon = "down"
        /\ click = [h \in Handlers |->
             IF h = 1 THEN [Free EXCEPT !.pc = "request", !.act = "startup"] ELSE Free]
        /\ owed = FALSE
     \/ /\ daemon = "up"
        /\ click = [h \in Handlers |-> Free]
        /\ owed = TRUE
  /\ trigger = owed
  /\ late = {}
  /\ budget \in Budgets

Fault == budget.faults > 0 /\ budget' = [budget EXCEPT !.faults = @ - 1]
Fine  == UNCHANGED budget

-----------------------------------------------------------------------------
\* The daemon and its other clients.

\* Where the list has the job, and the list without it.
Position(id)      == CHOOSE k \in DOMAIN list : list[k].id = id
Removed(id)       == SubSeq(list, 1, Position(id) - 1)
                       \o SubSeq(list, Position(id) + 1, Len(list))
Paused(id, value) == [k \in DOMAIN list |->
                        IF list[k].id = id THEN [list[k] EXCEPT !.paused = value] ELSE list[k]]
\* New jobs come last: the list is sorted by the time they were added.
Added(id) == Append(list, [id |-> id, paused |-> FALSE, st |-> "idle"])

AddJob == \E id \in unborn : list' = Added(id) /\ unborn' = unborn \ {id}

Change == budget.changes > 0 /\ budget' = [budget EXCEPT !.changes = @ - 1]

\* A job becomes active, and then ends a cycle with or without an error.
Progress(st) == IF st = "active" THEN {"idle", "error"} ELSE {"active"}

\* A job goes on, or somebody else adds, removes, pauses or resumes one.
OthersAct ==
  /\ daemon = "up"
  /\ Change
  /\ \/ AddJob
     \/ /\ \E k \in DOMAIN list :
             \/ \E st \in Progress(list[k].st) : list' = [list EXCEPT ![k].st = st]
             \/ list' = Paused(list[k].id, ~list[k].paused)
             \/ list' = Removed(list[k].id)
        /\ UNCHANGED unborn
  /\ UNCHANGED <<daemon, refreshVars, trigger, slotVars, bar, click, owed, late>>

\* The daemon ends, or somebody else starts it: its jobs come back with it.
DaemonEnds ==
  /\ \/ daemon = "up" /\ Change
     \/ daemon = "stopping" /\ Fine
  /\ daemon' = "down"
  /\ UNCHANGED <<list, unborn, refreshVars, trigger, slotVars, bar, click, owed, late>>

DaemonStarts ==
  /\ daemon = "down"
  /\ Change
  /\ daemon' = "up"
  /\ UNCHANGED <<list, unborn, refreshVars, trigger, slotVars, bar, click, owed, late>>

-----------------------------------------------------------------------------
\* The refresher.

\* The slots in the order update goes through them: once, and once more by
\* showNoJobs when there is nothing to show; after an error only the latter.
AllSlots  == [i \in Slots |-> i]
Passes(f) == IF f.ok /\ f.jobs = <<>> THEN AllSlots \o AllSlots ELSE AllSlots

\* ListJobs begins: what is asked for from now on may be too late for it.
AskJobs ==
  /\ loop = "list"
  /\ loop' = "asked"
  /\ owed' = FALSE
  /\ UNCHANGED <<daemonVars, fetched, pending, fresh, trigger, slotVars, bar, click, late, budget>>

\* The daemon answers, and update sets the title, the tooltip and the rows of
\* the whole menu, which nobody else writes.
ListJobs ==
  /\ loop = "asked"
  /\ \/ daemon # "down" /\ fetched' = Listed(list) /\ Fine
     \/ daemon # "down" /\ fetched' = Unreachable /\ Fault
     \/ daemon = "down" /\ fetched' = Unreachable /\ Fine
  /\ bar' = BarFor(fetched')
  /\ pending' = Passes(fetched')
  /\ loop' = "store"
  /\ UNCHANGED <<daemonVars, fresh, trigger, slotVars, click, owed, late>>

\* A click whose row was drawn for another job than the slot has now, or has
\* by the time it is looked up, may be taken for the wrong one.
Overtaken(i, j) ==
  [h \in Handlers |->
     IF click[h].pc = "clicked" /\ click[h].slot = i /\ job[i].id # j.id
       THEN [click[h] EXCEPT !.calm = FALSE] ELSE click[h]]

\* To the next slot; after the last one the timer is set again.
Onward == /\ pending' = Tail(pending)
          /\ loop' = IF Len(pending) = 1 THEN "wait" ELSE "store"

SkipsKnown(i, j) == j # NoJob /\ job[i] = j     \* mutant
Skips(i, j)      == FALSE

\* show and clear, under the slot's mutex.
StoreSlot ==
  /\ loop = "store"
  /\ LET i == Head(pending)
         j == JobFor(fetched, i)
         e == IF j = NoJob THEN NoError ELSE err[i]
     IN /\ job' = [job EXCEPT ![i] = j]
        /\ err' = [err EXCEPT ![i] = e]
        /\ fresh' = IF j = NoJob THEN Hidden ELSE JobSlotView(j, e)
        /\ click' = Overtaken(i, j)
        /\ late' = late \ {i}
        /\ IF Skips(i, j) THEN Onward ELSE loop' = "draw" /\ UNCHANGED pending
  /\ UNCHANGED <<daemonVars, fetched, trigger, shown, enabled, bar, owed, budget>>

\* render, or the hiding of every row, after the mutex is given back.
DrawSlot ==
  /\ loop = "draw"
  /\ shown' = [shown EXCEPT ![Head(pending)] = fresh]
  /\ fresh' = Hidden
  /\ Onward
  /\ UNCHANGED <<daemonVars, fetched, trigger, job, err, enabled, bar, click,
                 owed, late, budget>>

RearmsOnly(place) == place                      \* mutant
AfterTimer(place) == "list"

\* The timer fires after one or after thirty seconds, or somebody asks.
TimerFires ==
  /\ loop = "wait"
  /\ loop' = AfterTimer(loop)
  /\ UNCHANGED <<daemonVars, fetched, pending, fresh, trigger, slotVars, bar, click,
                 owed, late, budget>>

Triggered ==
  /\ loop = "wait"
  /\ trigger
  /\ trigger' = FALSE
  /\ loop' = "list"
  /\ UNCHANGED <<daemonVars, fetched, pending, fresh, slotVars, bar, click, owed, late,
                 budget>>

Refresh == AskJobs \/ ListJobs \/ StoreSlot \/ DrawSlot \/ TimerFires \/ Triggered

-----------------------------------------------------------------------------
\* Clicks.

Goes(h, pc) == click' = [click EXCEPT ![h].pc = pc]
Drawn(h, pc) == click' = [click EXCEPT ![h].pc = pc, ![h].view = Hidden]
Closes(h)    == click' = [click EXCEPT ![h] = [Free EXCEPT !.pc = "enable", !.act = click[h].act,
                                                          !.slot = click[h].slot]]
Ends(h)     == click' = [click EXCEPT ![h] = Done]
Act(h)      == click[h].act
Slot(h)     == click[h].slot

TargetNow(h) == job[Slot(h)].id        \* mutant
\* The job the handler closes over.
Target(h) == click[h].target

\* Goroutines start in the order of their clicks.
Starts(h) == click[h].pc = "free" /\ \A g \in 1 .. h - 1 : click[g].pc # "free"

\* systray drops a click when the forwarder of its row is not waiting.
Forwarding(i, a) ==
  \E h \in Handlers : click[h].pc = "clicked" /\ click[h].slot = i /\ click[h].act = a

ClickSlot(h, i, a) ==
  /\ Starts(h)
  /\ enabled[i]
  /\ a \in Controls(shown[i])
  /\ ~Forwarding(i, a)
  /\ click' = [click EXCEPT ![h] =
       [Free EXCEPT !.pc = "clicked", !.act = a, !.slot = i, !.aim = shown[i].job.id,
                    !.calm = (shown[i].job.id = job[i].id)]]
  /\ UNCHANGED <<daemonVars, refreshVars, trigger, slotVars, bar, owed, late, budget>>

\* The rows of the whole menu that can be clicked.
MenuControls ==
  {"refresh"} \cup (IF bar.daemon = "not running" THEN {"start"} ELSE {"add", "stop"})

ClickMenu(h, a) ==
  /\ Starts(h)
  /\ a \in MenuControls
  /\ click' = [click EXCEPT ![h] =
       [Free EXCEPT !.pc = IF a = "refresh" THEN "now" ELSE "request", !.act = a]]
  /\ UNCHANGED <<daemonVars, refreshVars, trigger, slotVars, bar, owed, late, budget>>

\* slotAction looks the job up when the click arrives, not when the handler
\* runs; a slot without a job has nothing to do.
Resolve(h) ==
  /\ click[h].pc = "clicked"
  /\ IF job[Slot(h)] = NoJob THEN Ends(h)
     ELSE click' = [click EXCEPT ![h].pc = "begin", ![h].target = job[Slot(h)].id]
  /\ UNCHANGED <<daemonVars, refreshVars, trigger, slotVars, bar, owed, late, budget>>

\* setActionError and clearActionError, under the mutex: the handler keeps
\* the values and draws them in its next step.
SetActionError(h, e, pc) ==
  /\ err' = [err EXCEPT ![Slot(h)] = e]
  /\ click' = [click EXCEPT ![h].pc = pc, ![h].view = JobSlotView(job[Slot(h)], e)]

DisablesControls(h) == Act(h) \in SlotActs \ {"copy"} /\ ~(Act(h) = "reveal" /\ Target(h) \in Pathless)

\* control, remove and revealDestination disable the controls and drop the
\* previous failure.
Begin(h) ==
  /\ click[h].pc = "begin"
  /\ DisablesControls(h)
  /\ enabled' = [enabled EXCEPT ![Slot(h)] = FALSE]
  /\ SetActionError(h, NoError, "clear")
  /\ UNCHANGED <<daemonVars, refreshVars, trigger, job, shown, bar, owed, late, budget>>

\* revealDestination refuses a job without a path.
RefuseReveal(h) ==
  /\ click[h].pc = "begin"
  /\ Act(h) = "reveal" /\ Target(h) \in Pathless
  /\ SetActionError(h, Target(h), "report")
  /\ UNCHANGED <<daemonVars, refreshVars, trigger, job, shown, enabled, bar, owed, late,
                 budget>>

\* copyError copies what the slot has to say by now, if anything.
BeginCopy(h) ==
  /\ click[h].pc = "begin"
  /\ Act(h) = "copy"
  /\ IF CopyableError(job[Slot(h)], err[Slot(h)]) THEN Goes(h, "request") ELSE Ends(h)
  /\ UNCHANGED <<daemonVars, refreshVars, trigger, slotVars, bar, owed, late, budget>>

AsksForRefresh(h) == Act(h) \notin {"reveal", "copy"}

Draw(h) ==
  /\ shown' = [shown EXCEPT ![Slot(h)] = click[h].view]
  /\ late' = IF AsksForRefresh(h) THEN late ELSE late \cup {Slot(h)}

DrawCleared(h) ==
  /\ click[h].pc = "clear"
  /\ Draw(h)
  /\ Drawn(h, "request")
  /\ UNCHANGED <<daemonVars, refreshVars, trigger, job, err, enabled, bar, owed, budget>>

-----------------------------------------------------------------------------
\* Requests and commands.

Known(h) == Target(h) \in IDs(list)

\* What the daemon does when it accepts a request about a job.  A sync only
\* shows in the job's own progress.
Applied(h) == CASE Act(h) = "pause"  -> Paused(Target(h), TRUE)
                [] Act(h) = "resume" -> Paused(Target(h), FALSE)
                [] Act(h) = "remove" -> Removed(Target(h))
                [] Act(h) = "sync"   -> list

\* The request is answered; or refused, for want of a daemon or of the job; or
\* it fails, with its effect or without: the client's ten seconds are over, or
\* the registry could not be saved.
RequestJob(h) ==
  /\ click[h].pc = "request"
  /\ Act(h) \in {"pause", "resume", "sync", "remove"}
  /\ \/ daemon # "down" /\ Known(h) /\ Fine /\ list' = Applied(h) /\ Closes(h)
     \/ (daemon = "down" \/ ~Known(h)) /\ Fine /\ UNCHANGED list /\ Goes(h, "failed")
     \/ daemon # "down" /\ Known(h) /\ Fault /\ list' \in {list, Applied(h)} /\ Goes(h, "failed")
  /\ UNCHANGED <<daemon, unborn, refreshVars, trigger, slotVars, bar, owed, late>>

\* open or pbcopy, which may fail.
RunCommand(h) ==
  /\ click[h].pc = "request"
  /\ Act(h) \in {"reveal", "copy"}
  /\ \/ Fault /\ Goes(h, "failed")
     \/ Fine /\ IF Act(h) = "copy" THEN Ends(h) ELSE Closes(h)
  /\ UNCHANGED <<daemonVars, refreshVars, trigger, slotVars, bar, owed, late>>

\* add fails without a daemon or with a bad config file.
RequestAdd(h) ==
  /\ click[h].pc = "request"
  /\ Act(h) = "add"
  /\ Goes(h, "now")
  /\ \/ daemon # "down" /\ AddJob
     \/ UNCHANGED <<list, unborn>>
  /\ UNCHANGED <<daemon, refreshVars, trigger, slotVars, bar, owed, late, budget>>

\* handleStopAll does the same whether the daemon answers or not.
RequestStop(h) ==
  /\ click[h].pc = "request"
  /\ Act(h) = "stop"
  /\ Goes(h, "now")
  /\ daemon' = IF daemon = "up" THEN "stopping" ELSE daemon
  /\ UNCHANGED <<list, unborn, refreshVars, trigger, slotVars, bar, owed, late, budget>>

\* EnsureRunning leaves a daemon that answers alone, and may fail to start one.
EnsureRunning(h) ==
  /\ click[h].pc = "request"
  /\ Act(h) \in {"start", "startup"}
  /\ Goes(h, "now")
  /\ daemon' \in {daemon, IF daemon = "down" THEN "up" ELSE daemon}
  /\ UNCHANGED <<list, unborn, refreshVars, trigger, slotVars, bar, owed, late, budget>>

\* A failure is stored in the slot, then drawn.
StoreFailure(h) ==
  /\ click[h].pc = "failed"
  /\ SetActionError(h, Target(h), "report")
  /\ UNCHANGED <<daemonVars, refreshVars, trigger, job, shown, enabled, bar, owed, late,
                 budget>>

EndsUnenabled(h) == TRUE                  \* mutant
EndsHere(h)      == ~DisablesControls(h)

DrawFailure(h) ==
  /\ click[h].pc = "report"
  /\ Draw(h)
  /\ IF EndsHere(h) THEN Ends(h) ELSE Closes(h)
  /\ UNCHANGED <<daemonVars, refreshVars, trigger, job, err, enabled, bar, owed, budget>>

LosesSend(t) == loop = "wait"             \* mutant
Sends(t)     == TRUE

\* refresher.now: one token is enough.
Now(h) == trigger' = Sends(trigger) /\ owed' = TRUE

\* The controls are enabled again, then control and remove ask for a refresh.
Enable(h) ==
  /\ click[h].pc = "enable"
  /\ enabled' = [enabled EXCEPT ![Slot(h)] = TRUE]
  /\ IF AsksForRefresh(h) THEN Now(h) ELSE UNCHANGED <<trigger, owed>>
  /\ Ends(h)
  /\ UNCHANGED <<daemonVars, refreshVars, job, err, shown, bar, late, budget>>

\* A menu action ends with a refresh, as does the start of the program.
AskForRefresh(h) ==
  /\ click[h].pc = "now"
  /\ Now(h)
  /\ Ends(h)
  /\ UNCHANGED <<daemonVars, refreshVars, slotVars, bar, late, budget>>

Handle(h) == \/ Resolve(h) \/ Begin(h) \/ RefuseReveal(h) \/ BeginCopy(h)
             \/ DrawCleared(h) \/ RequestJob(h) \/ RunCommand(h) \/ RequestAdd(h)
             \/ RequestStop(h) \/ EnsureRunning(h)
             \/ StoreFailure(h) \/ DrawFailure(h) \/ Enable(h) \/ AskForRefresh(h)

Environment == \/ OthersAct \/ DaemonEnds \/ DaemonStarts
               \/ \E h \in Handlers : \/ \E i \in Slots, a \in SlotActs : ClickSlot(h, i, a)
                                    \/ \E a \in MenuActs : ClickMenu(h, a)

Next == Refresh \/ Environment \/ \E h \in Handlers : Handle(h)

Safe == Init /\ [][Next]_vars

\* The refresher and the handlers are goroutines that can always go on: the
\* client gives every request ten seconds, and a timer fires.  Nobody has to
\* click, and the daemon has to do nothing.
Spec == Safe /\ WF_vars(Refresh) /\ \A h \in Handlers : WF_vars(Handle(h))

-----------------------------------------------------------------------------
(***************************************************************************)
(* Properties.                                                             *)
(***************************************************************************)

\* No request for a refresh is lost, however it falls between the steps of
\* the loop: a ListJobs that begins after it is certain (refresh.go:33-62).
RefreshKept == owed => trigger \/ loop = "list"

\* What a slot should display.
Fetched(f, i) == IF JobFor(f, i) = NoJob THEN Hidden ELSE JobSlotView(JobFor(f, i), err[i])

\* While the refresher waits and no handler is at work, the menu shows
\* exactly what was fetched last, whatever the handlers of earlier clicks
\* drew, and when: each of them asks for a refresh after its last drawing.
\* The two that do not, Reveal and Copy Error, may leave their slot as they
\* drew it until the next poll (menu.go:78-127, 249-302, 436-474).
AtWork(h) == click[h].pc \notin {"free", "clicked", "done"}
ShowsFetched ==
  loop = "wait" /\ ~trigger /\ (\A h \in Handlers : ~AtWork(h))
    => /\ \A i \in Slots \ late : shown[i] = Fetched(fetched, i)
       /\ bar = BarFor(fetched)

\* A control acts on the job whose rows were clicked, even if a refresh puts
\* another job in the slot before the request is made: the only exception is
\* a refresh that falls between the drawing of the row and the look at the
\* slot when the click arrives (menu.go:22-26, 335-354).
ActsOnClicked ==
  \A h \in Handlers : AtWork(h) /\ Act(h) \in SlotActs /\ click[h].calm
                      => Target(h) = click[h].aim

\* The controls of a slot are never left disabled: as long as they are, one of
\* the handlers that disabled them has yet to enable them again, whether its
\* request succeeds, fails or is refused, and whatever job the slot holds by
\* then (menu.go:161-171, 427-463, 493-506).
WillEnable(h) == DisablesControls(h)
                   /\ click[h].pc \in {"clear", "request", "failed", "report", "enable"}
DisabledIsBusy == \A i \in Slots : ~enabled[i] => \E h \in Handlers : Slot(h) = i /\ WillEnable(h)

\* When nothing changes any more, the menu shows the daemon as it is, with
\* every control enabled: a stale drawing, a lost answer or a failed fetch is
\* made good by a later poll (refresh.go:24-52; menu.go:160-170).
Mirror == IF daemon = "down" THEN Unreachable ELSE Listed(list)
Settles == <>[](/\ \A i \in Slots : shown[i] = Fetched(Mirror, i) /\ enabled[i]
                /\ bar = BarFor(Mirror))
=============================================================================
