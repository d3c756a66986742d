----------------------------- MODULE MenuProofs -----------------------------
(***************************************************************************)
(* Theorems about Menu, for any number of slots, handlers and jobs.        *)
(***************************************************************************)
EXTENDS Menu, SequenceTheorems, TLAPS

\* No request for a refresh is lost, however many handlers ask at whatever
\* moments: RefreshKept, which is inductive as it stands (refresh.go:33-62).
THEOREM NoRefreshLost == Safe => []RefreshKept
<1> USE DEF RefreshKept
<1>1. Init => RefreshKept
  BY DEF Init
<1>2. RefreshKept /\ [Next]_vars => RefreshKept'
  <2> SUFFICES ASSUME RefreshKept, [Next]_vars PROVE RefreshKept'
    OBVIOUS
  <2>1. CASE AskJobs \/ ListJobs \/ TimerFires \/ Triggered
    BY <2>1 DEF AskJobs, ListJobs, TimerFires, AfterTimer, Triggered
  <2>2. CASE StoreSlot
    BY <2>2 DEF StoreSlot, Onward
  <2>3. CASE DrawSlot
    BY <2>3 DEF DrawSlot, Onward
  <2>4. ASSUME NEW h \in Handlers, Enable(h) \/ AskForRefresh(h) PROVE RefreshKept'
    BY <2>4 DEF Enable, AskForRefresh, Now, Sends, refreshVars
  <2>5. ASSUME NEW h \in Handlers, Handle(h), ~Enable(h), ~AskForRefresh(h) PROVE RefreshKept'
    <3>1. UNCHANGED <<owed, trigger, loop>>
      BY <2>5, Zenon DEF Handle, Resolve, Begin, RefuseReveal, BeginCopy, DrawCleared,
         RequestJob, RunCommand, RequestAdd, RequestStop, EnsureRunning, StoreFailure,
         DrawFailure, refreshVars
    <3> QED
      BY <3>1
  <2>6. CASE Environment
    <3>1. UNCHANGED <<owed, trigger, loop>>
      BY <2>6, Zenon DEF Environment, OthersAct, DaemonEnds, DaemonStarts, ClickSlot,
         ClickMenu, refreshVars
    <3> QED
      BY <3>1
  <2>7. CASE UNCHANGED vars
    BY <2>7 DEF vars, refreshVars
  <2> QED
    BY <2>1, <2>2, <2>3, <2>4, <2>5, <2>6, <2>7 DEF Next, Refresh
<1> QED
  BY <1>1, <1>2, PTL DEF Safe

-----------------------------------------------------------------------------
(***************************************************************************)
(* What a click acts on.  ActsOnClicked is about handlers that have looked *)
(* their job up; the strengthening adds those that have not: until a       *)
(* refresh overtakes it, the slot of a click still holds the job whose row *)
(* was clicked.                                                            *)
(***************************************************************************)
Shaped(c) == DOMAIN c = {"pc", "act", "slot", "target", "view", "aim", "calm"}

\* The state of one handler, with the jobs that the slots hold.
HandlerOK(c, held) ==
  /\ Shaped(c)
  /\ c.pc = "clicked" => c.slot \in Slots /\ c.act \in SlotActs
  /\ c.pc = "clicked" /\ c.calm => held[c.slot].id = c.aim
  /\ c.pc \notin {"free", "clicked", "done"} /\ c.act \in SlotActs /\ c.calm
       => c.target = c.aim

ClickInv == /\ DOMAIN job = Slots
            /\ DOMAIN click = Handlers
            /\ \A h \in Handlers : HandlerOK(click[h], job)

\* One handler's own step, after its look at the slot.
StepOf(h) ==
  /\ UNCHANGED job
  /\ \E c : /\ click' = [click EXCEPT ![h] = c]
            /\ HandlerOK(c, job)

LEMMA StepKeeps ==
  ASSUME ClickInv, NEW h \in Handlers, StepOf(h)
  PROVE  ClickInv'
<1> PICK c : click' = [click EXCEPT ![h] = c] /\ HandlerOK(c, job)
  BY DEF StepOf
<1>1. DOMAIN click' = Handlers
  BY DEF ClickInv
<1>2. ASSUME NEW g \in Handlers PROVE HandlerOK(click'[g], job)
  BY DEF ClickInv
<1> QED
  BY <1>1, <1>2 DEF ClickInv, StepOf

LEMMA Forms ==
  ASSUME ClickInv, NEW h \in Handlers, UNCHANGED job,
         click[h].pc \notin {"free", "clicked", "done"}, NEW v,
         NEW pc \in {"begin", "request", "failed", "now", "clear", "report"},
         \/ Goes(h, pc) \/ Drawn(h, pc) \/ Closes(h) \/ Ends(h)
         \/ click' = [click EXCEPT ![h].pc = pc, ![h].view = v]
  PROVE  StepOf(h)
<1> DEFINE c == click[h]
<1>0. HandlerOK(c, job)
  BY DEF ClickInv
<1>1. CASE Goes(h, pc)
  <2> DEFINE d == [c EXCEPT !.pc = pc]
  <2>1. click' = [click EXCEPT ![h] = d]
    BY <1>1 DEF Goes
  <2>2. HandlerOK(d, job)
    BY <1>0 DEF HandlerOK, Shaped
  <2> QED
    BY <2>1, <2>2 DEF StepOf
<1>2. ASSUME NEW w, click' = [click EXCEPT ![h].pc = pc, ![h].view = w] PROVE StepOf(h)
  <2> DEFINE d == [c EXCEPT !.pc = pc, !.view = w]
  <2>1. click' = [click EXCEPT ![h] = d]
    BY <1>2
  <2>2. HandlerOK(d, job)
    BY <1>0 DEF HandlerOK, Shaped
  <2> QED
    BY <2>1, <2>2 DEF StepOf
<1>3. CASE Closes(h)
  <2> DEFINE d == [Free EXCEPT !.pc = "enable", !.act = c.act, !.slot = c.slot]
  <2>1. click' = [click EXCEPT ![h] = d]
    BY <1>3 DEF Closes
  <2>2. HandlerOK(d, job)
    BY DEF HandlerOK, Shaped, Free
  <2> QED
    BY <2>1, <2>2 DEF StepOf
<1>4. CASE Ends(h)
  <2>1. HandlerOK(Done, job)
    BY DEF HandlerOK, Shaped, Free, Done
  <2> QED
    BY <1>4, <2>1 DEF StepOf, Ends
<1> QED
  BY <1>1, <1>2, <1>3, <1>4 DEF Drawn

LEMMA HandlerStep ==
  ASSUME ClickInv, NEW h \in Handlers, Handle(h)
  PROVE  ClickInv'
<1>1. UNCHANGED job
  BY Zenon DEF Handle, Resolve, Begin, RefuseReveal, BeginCopy, DrawCleared, RequestJob,
     RunCommand, RequestAdd, RequestStop, EnsureRunning, StoreFailure, DrawFailure,
     Enable, AskForRefresh, slotVars
<1>2. CASE Resolve(h)
  <2> DEFINE c == click[h]
             d == [c EXCEPT !.pc = "begin", !.target = job[c.slot].id]
  <2>1. HandlerOK(c, job) /\ c.pc = "clicked"
    BY <1>2 DEF ClickInv, Resolve
  <2>2. HandlerOK(d, job) /\ HandlerOK(Done, job)
    BY <2>1 DEF HandlerOK, Shaped, Free, Done
  <2>3. click' = [click EXCEPT ![h] = d] \/ click' = [click EXCEPT ![h] = Done]
    BY <1>2 DEF Resolve, Ends, Slot
  <2> QED
    BY <1>1, <2>2, <2>3, StepKeeps DEF StepOf
<1>3. CASE ~Resolve(h)
  <2>1. click[h].pc \notin {"free", "clicked", "done"}
    BY <1>3 DEF Handle, Begin, RefuseReveal, BeginCopy, DrawCleared, RequestJob,
       RunCommand, RequestAdd, RequestStop, EnsureRunning, StoreFailure, DrawFailure,
       Enable, AskForRefresh
  <2>2. \E v : \E pc \in {"begin", "request", "failed", "now", "clear", "report"} :
          \/ Goes(h, pc) \/ Drawn(h, pc) \/ Closes(h) \/ Ends(h)
          \/ click' = [click EXCEPT ![h].pc = pc, ![h].view = v]
    BY <1>3 DEF Handle, Begin, RefuseReveal, BeginCopy, DrawCleared, RequestJob,
       RunCommand, RequestAdd, RequestStop, EnsureRunning, StoreFailure, DrawFailure,
       Enable, AskForRefresh, SetActionError
  <2> QED
    BY <1>1, <2>1, <2>2, Forms, StepKeeps
<1> QED
  BY <1>2, <1>3

LEMMA ClickStep ==
  ASSUME ClickInv, NEW h \in Handlers,
         \/ \E i \in Slots, a \in SlotActs : ClickSlot(h, i, a)
         \/ \E a \in MenuActs : ClickMenu(h, a)
  PROVE  ClickInv'
<1>1. ASSUME NEW i \in Slots, NEW a \in SlotActs, ClickSlot(h, i, a) PROVE StepOf(h)
  <2> DEFINE d == [Free EXCEPT !.pc = "clicked", !.act = a, !.slot = i,
                               !.aim = shown[i].job.id,
                               !.calm = (shown[i].job.id = job[i].id)]
  <2>1. HandlerOK(d, job)
    BY DEF HandlerOK, Shaped, Free
  <2> QED
    BY <1>1, <2>1 DEF ClickSlot, StepOf, slotVars
<1>2. ASSUME NEW a \in MenuActs, ClickMenu(h, a) PROVE StepOf(h)
  <2> DEFINE d == [Free EXCEPT !.pc = IF a = "refresh" THEN "now" ELSE "request", !.act = a]
  <2>1. HandlerOK(d, job)
    BY DEF HandlerOK, Shaped, Free, MenuActs, SlotActs
  <2> QED
    BY <1>2, <2>1 DEF ClickMenu, StepOf, slotVars
<1> QED
  BY <1>1, <1>2, StepKeeps

\* The refresher puts another job in a slot.
LEMMA StoreStep ==
  ASSUME ClickInv, StoreSlot
  PROVE  ClickInv'
<1> DEFINE i == Head(pending)
           j == JobFor(fetched, i)
<1>1. job' = [job EXCEPT ![i] = j] /\ click' = Overtaken(i, j)
  BY DEF StoreSlot
<1>2. DOMAIN job' = Slots /\ DOMAIN click' = Handlers
  BY <1>1 DEF ClickInv, Overtaken
<1>3. ASSUME NEW h \in Handlers PROVE HandlerOK(click'[h], job')
  <2>1. HandlerOK(click[h], job)
    BY DEF ClickInv
  <2>2. CASE click[h].pc = "clicked" /\ click[h].slot = i /\ job[i].id # j.id
    <3>1. click'[h] = [click[h] EXCEPT !.calm = FALSE]
      BY <1>1, <2>2 DEF Overtaken
    <3> QED
      BY <2>1, <2>2, <3>1 DEF HandlerOK, Shaped
  <2>3. CASE ~(click[h].pc = "clicked" /\ click[h].slot = i /\ job[i].id # j.id)
    <3>1. click'[h] = click[h]
      BY <1>1, <2>3, Zenon DEF Overtaken
    <3>2. click[h].pc = "clicked" => job'[click[h].slot].id = job[click[h].slot].id
      BY <1>1, <2>1, <2>3 DEF HandlerOK, ClickInv
    <3> QED
      BY <2>1, <3>1, <3>2 DEF HandlerOK
  <2> QED
    BY <2>2, <2>3
<1> QED
  BY <1>2, <1>3 DEF ClickInv

\* A control acts on the job whose rows were clicked, however many refreshes,
\* failures and other handlers come between the look at the slot and the
\* request (menu.go:335-354).
THEOREM ClicksHitTheirJob == Safe => []ActsOnClicked
<1>1. Init => ClickInv
  <2> SUFFICES ASSUME Init PROVE ClickInv
    OBVIOUS
  <2>1. DOMAIN job = Slots /\ DOMAIN click = Handlers
    BY DEF Init
  <2>2. ASSUME NEW h \in Handlers PROVE HandlerOK(click[h], job)
    <3>1. HandlerOK(Free, job)
      BY DEF HandlerOK, Shaped, Free
    <3>2. HandlerOK([Free EXCEPT !.pc = "request", !.act = "startup"], job)
      BY DEF HandlerOK, Shaped, Free, SlotActs
    <3>3. click[h] \in {Free, [Free EXCEPT !.pc = "request", !.act = "startup"]}
      BY Zenon DEF Init
    <3> QED
      BY <3>1, <3>2, <3>3
  <2> QED
    BY <2>1, <2>2 DEF ClickInv
<1>2. ClickInv /\ [Next]_vars => ClickInv'
  <2> SUFFICES ASSUME ClickInv, [Next]_vars PROVE ClickInv'
    OBVIOUS
  <2>1. CASE UNCHANGED <<job, click>>
    BY <2>1 DEF ClickInv
  <2>2. CASE Refresh /\ ~StoreSlot
    BY <2>1, <2>2, Zenon DEF Refresh, AskJobs, ListJobs, DrawSlot, TimerFires, Triggered, slotVars
  <2>3. CASE OthersAct \/ DaemonEnds \/ DaemonStarts
    BY <2>1, <2>3, Zenon DEF OthersAct, DaemonEnds, DaemonStarts, slotVars
  <2>4. CASE UNCHANGED vars
    BY <2>1, <2>4 DEF vars, slotVars
  <2> QED
    BY <2>2, <2>3, <2>4, StoreStep, HandlerStep, ClickStep DEF Next, Environment, Refresh
<1>3. ClickInv => ActsOnClicked
  BY DEF ClickInv, HandlerOK, ActsOnClicked, AtWork, Act, Target
<1> QED
  BY <1>1, <1>2, <1>3, PTL DEF Safe

-----------------------------------------------------------------------------
(***************************************************************************)
(* What the menu shows.  ShowsFetched speaks of the moments at which       *)
(* nobody is at work.  The strengthening says at every moment which slots  *)
(* can be trusted: those the refresher is done with, that no handler has   *)
(* drawn without asking for a refresh (late), and that no handler is about *)
(* to draw, or has drawn before asking for one.                            *)
(***************************************************************************)
WellFormed(c) ==
  /\ Shaped(c)
  /\ c.act \in SlotActs <=> c.slot \in Slots
  /\ c.pc \in {"clicked", "begin", "clear", "failed", "report", "enable"} => c.act \in SlotActs
  /\ c.pc = "now" => c.act \notin SlotActs

Disturbs(c, i) ==
  /\ c.slot = i
  /\ \/ c.pc \in {"clear", "report"}
     \/ c.pc \in {"request", "failed", "enable"} /\ c.act \notin {"reveal", "copy"}

Settled(i) == i \notin late /\ \A h \in Handlers : ~Disturbs(click[h], i)
Awaits(i)  == \E k \in 1 .. Len(pending) : pending[k] = i

Passing == /\ pending \in Seq(Slots)
           /\ loop \in {"store", "draw"} => pending # <<>>
           /\ loop \in {"list", "asked", "wait"} => pending = <<>>
Formed  == DOMAIN click = Handlers /\ \A h \in Handlers : WellFormed(click[h])
Domains == DOMAIN job = Slots /\ DOMAIN err = Slots /\ DOMAIN shown = Slots
Shows   == loop \notin {"list", "asked"} /\ ~trigger =>
             /\ \A i \in Slots : Settled(i) /\ ~Awaits(i) => shown[i] = Fetched(fetched, i)
             /\ loop = "draw" /\ Settled(Head(pending)) => fresh = Fetched(fetched, Head(pending))
BarOK   == loop \notin {"list", "asked"} => bar = BarFor(fetched)

ShowInv == Passing /\ Formed /\ Domains /\ Shows /\ BarOK

\* A step that leaves the refresher alone, and a slot that can be trusted
\* after it as it was.
Spares == /\ UNCHANGED <<job, fetched, pending, fresh, loop, bar>>
          /\ Domains' /\ Formed'
          /\ trigger => trigger'
          /\ trigger' \/ \A i \in Slots : Settled(i)' => /\ Settled(i)
                                                         /\ err'[i] = err[i]
                                                         /\ shown'[i] = shown[i]

LEMMA SparingStep ==
  ASSUME ShowInv, Spares
  PROVE  ShowInv'
<1> USE DEF ShowInv, Spares
<1>1. Passing' /\ Formed' /\ Domains' /\ BarOK'
  BY DEF Passing, BarOK
<1>2. ASSUME loop' \notin {"list", "asked"}, ~trigger' PROVE Shows'
  <2>1. loop \notin {"list", "asked"} /\ ~trigger /\ Shows
    BY <1>2
  <2>2. ASSUME NEW i \in Slots, Settled(i)' PROVE Fetched(fetched, i)' = Fetched(fetched, i)
    BY <1>2, <2>2 DEF Fetched
  <2>3. ASSUME NEW i \in Slots, Settled(i)', ~Awaits(i)' PROVE shown'[i] = Fetched(fetched, i)'
    BY <1>2, <2>1, <2>2, <2>3 DEF Shows, Awaits
  <2>4. ASSUME loop' = "draw", Settled(Head(pending))'
        PROVE  fresh' = Fetched(fetched, Head(pending))'
    <3>1. Head(pending) \in Slots
      BY <2>4 DEF Passing
    <3> QED
      BY <1>2, <2>1, <2>2, <2>4, <3>1 DEF Shows
  <2> QED
    BY <2>3, <2>4, Zenon DEF Shows
<1> QED
  BY <1>1, <1>2 DEF Shows

\* One handler's new state, what it does to its slot, and what follows.
LEMMA OneHandler ==
  ASSUME ShowInv, NEW h \in Handlers, NEW c, WellFormed(c),
         click' = [click EXCEPT ![h] = c],
         UNCHANGED <<job, fetched, pending, fresh, loop, bar>>, Domains',
         trigger => trigger',
         late \subseteq late',
         \A i \in Slots : i # click[h].slot => err'[i] = err[i] /\ shown'[i] = shown[i],
         \/ trigger'
         \/ click[h].slot \notin Slots
         \/ Disturbs(c, click[h].slot)
         \/ click[h].slot \in late'
         \/ ~Disturbs(click[h], click[h].slot) /\ UNCHANGED <<err, shown>>
  PROVE  Spares
<1>1. Formed'
  BY DEF ShowInv, Formed
<1>2. ASSUME ~trigger', NEW i \in Slots, Settled(i)'
      PROVE  Settled(i) /\ err'[i] = err[i] /\ shown'[i] = shown[i]
  <2>1. i \notin late /\ \A g \in Handlers : ~Disturbs(click'[g], i)
    BY <1>2 DEF Settled
  <2>2. click'[h] = c /\ \A g \in Handlers \ {h} : click'[g] = click[g]
    BY DEF ShowInv, Formed
  <2>3. \A g \in Handlers \ {h} : ~Disturbs(click[g], i)
    BY <2>1, <2>2
  <2>4. CASE i # click[h].slot
    <3>1. ~Disturbs(click[h], i)
      BY <2>4 DEF Disturbs
    <3> QED
      BY <2>1, <2>3, <2>4, <3>1 DEF Settled
  <2>5. CASE i = click[h].slot
    <3>1. ~Disturbs(click[h], i) /\ UNCHANGED <<err, shown>>
      BY <1>2, <2>1, <2>2, <2>5 DEF Settled
    <3> QED
      BY <2>1, <2>3, <3>1 DEF Settled
  <2> QED
    BY <2>4, <2>5
<1> QED
  BY <1>1, <1>2 DEF Spares

\* A step that only moves a handler's program counter.
LEMMA Moves ==
  ASSUME ShowInv, NEW h \in Handlers, NEW c, WellFormed(c),
         click' = [click EXCEPT ![h] = c],
         UNCHANGED <<job, fetched, pending, fresh, loop, bar, err, shown, late>>,
         trigger => trigger',
         \/ trigger'
         \/ click[h].slot \notin Slots
         \/ Disturbs(c, click[h].slot)
         \/ ~Disturbs(click[h], click[h].slot)
  PROVE  Spares
<1>1. Domains'
  BY DEF ShowInv, Domains
<1> QED
  BY <1>1, OneHandler

\* What becomes of a handler: it goes on, or closes, or ends.
LEMMA NextForms ==
  ASSUME NEW c, WellFormed(c), c.act \in SlotActs
  PROVE  /\ \A pc \in {"begin", "clear", "request", "failed", "report", "enable"} : \A v, t :
              /\ WellFormed([c EXCEPT !.pc = pc])
              /\ WellFormed([c EXCEPT !.pc = pc, !.view = v])
              /\ WellFormed([c EXCEPT !.pc = pc, !.target = t])
         /\ LET d == [Free EXCEPT !.pc = "enable", !.act = c.act, !.slot = c.slot]
            IN  WellFormed(d) /\ d.pc = "enable" /\ d.act = c.act /\ d.slot = c.slot
BY DEF WellFormed, Shaped, Free

LEMMA DoneForm == WellFormed(Done) /\ WellFormed(Free)
BY DEF WellFormed, Shaped, Free, Done, SlotActs, Slots

LEMMA ShowsHandler ==
  ASSUME ShowInv, NEW h \in Handlers, Handle(h)
  PROVE  Spares
<1> DEFINE c == click[h]
<1>0. WellFormed(c)
  BY DEF ShowInv, Formed
<1> USE DEF refreshVars
<1>1. CASE Resolve(h)
  <2>1. c.pc = "clicked" /\ c.act \in SlotActs
    BY <1>0, <1>1 DEF Resolve, WellFormed, Shaped
  <2>2. ~Disturbs(c, c.slot)
    BY <2>1 DEF Disturbs
  <2> DEFINE d == [c EXCEPT !.pc = "begin", !.target = job[Slot(h)].id]
  <2>3. WellFormed(d)
    BY <1>0, <2>1, NextForms
  <2>4. click' = [click EXCEPT ![h] = d] \/ click' = [click EXCEPT ![h] = Done]
    BY <1>1 DEF Resolve, Ends
  <2> QED
    BY <1>1, <2>2, <2>3, <2>4, Moves, DoneForm DEF Resolve, slotVars
<1>2. CASE Begin(h) \/ RefuseReveal(h) \/ StoreFailure(h)
  <2>1. c.act \in SlotActs
    BY <1>0, <1>2 DEF Begin, RefuseReveal, StoreFailure, WellFormed, Shaped
  <2>2. PICK pc \in {"clear", "report"} : \E e : SetActionError(h, e, pc)
    <3>1. Begin(h) => SetActionError(h, NoError, "clear")
      BY Zenon DEF Begin
    <3>2. RefuseReveal(h) \/ StoreFailure(h) => SetActionError(h, Target(h), "report")
      BY Zenon DEF RefuseReveal, StoreFailure
    <3> QED
      BY <1>2, <3>1, <3>2
  <2> PICK e : SetActionError(h, e, pc)
    BY <2>2
  <2> DEFINE d == [c EXCEPT !.pc = pc, !.view = JobSlotView(job[Slot(h)], e)]
  <2>3. WellFormed(d) /\ Disturbs(d, c.slot)
    <3>1. WellFormed(d)
      BY <1>0, <2>1, NextForms
    <3>2. d.pc = pc /\ d.slot = c.slot
      BY <1>0 DEF WellFormed, Shaped
    <3> QED
      BY <3>1, <3>2 DEF Disturbs
  <2>4. click' = [click EXCEPT ![h] = d] /\ err' = [err EXCEPT ![c.slot] = e]
    BY DEF SetActionError, Slot
  <2>5. UNCHANGED <<job, fetched, pending, fresh, loop, bar, shown, late, trigger>>
    BY <1>2 DEF Begin, RefuseReveal, StoreFailure
  <2>6. Domains'
    BY <2>4, <2>5 DEF ShowInv, Domains
  <2>7. \A i \in Slots : i # c.slot => err'[i] = err[i] /\ shown'[i] = shown[i]
    BY <2>4, <2>5 DEF ShowInv, Domains
  <2> QED
    BY <2>3, <2>4, <2>5, <2>6, <2>7, OneHandler
<1>3. CASE BeginCopy(h)
  <2>1. c.pc = "begin" /\ c.act \in SlotActs
    BY <1>3 DEF BeginCopy, Act, SlotActs
  <2>2. ~Disturbs(c, c.slot)
    BY <2>1 DEF Disturbs
  <2> DEFINE d == [c EXCEPT !.pc = "request"]
  <2>3. WellFormed(d)
    BY <1>0, <2>1, NextForms
  <2>4. click' = [click EXCEPT ![h] = d] \/ click' = [click EXCEPT ![h] = Done]
    BY <1>3 DEF BeginCopy, Goes, Ends
  <2> QED
    BY <1>3, <2>2, <2>3, <2>4, Moves, DoneForm DEF BeginCopy, slotVars
<1>4. CASE DrawCleared(h) \/ DrawFailure(h)
  <2>1. c.act \in SlotActs /\ c.slot \in Slots
    BY <1>0, <1>4 DEF DrawCleared, DrawFailure, WellFormed, Shaped
  <2>2. Draw(h)
    BY <1>4 DEF DrawCleared, DrawFailure
  <2> DEFINE d == [c EXCEPT !.pc = "request", !.view = Hidden]
             e == [Free EXCEPT !.pc = "enable", !.act = c.act, !.slot = c.slot]
  <2>3. WellFormed(d) /\ WellFormed(e) /\ e.pc = "enable" /\ e.act = c.act /\ e.slot = c.slot
    BY <1>0, <2>1, NextForms
  <2>4. d.pc = "request" /\ d.act = c.act /\ d.slot = c.slot
    BY <1>0 DEF WellFormed, Shaped
  <2>5. \/ click' = [click EXCEPT ![h] = d]
        \/ click' = [click EXCEPT ![h] = e]
        \/ click' = [click EXCEPT ![h] = Done] /\ ~DisablesControls(h)
    BY <1>4 DEF DrawCleared, DrawFailure, Drawn, Ends, Closes, EndsHere
  <2>6. UNCHANGED <<job, fetched, pending, fresh, loop, bar, err, trigger>>
    BY <1>4 DEF DrawCleared, DrawFailure
  <2>7. shown' = [shown EXCEPT ![c.slot] = c.view] /\ late \subseteq late'
    BY <2>2 DEF Draw, Slot
  <2>8. Domains'
    BY <2>6, <2>7 DEF ShowInv, Domains
  <2>9. \A i \in Slots : i # c.slot => err'[i] = err[i] /\ shown'[i] = shown[i]
    BY <2>6, <2>7 DEF ShowInv, Domains
  <2>10. CASE c.act \in {"reveal", "copy"}
    <3>1. c.slot \in late'
      BY <2>2, <2>10 DEF Draw, Slot, AsksForRefresh, Act
    <3> QED
      BY <2>3, <2>5, <2>6, <2>7, <2>8, <2>9, <3>1, OneHandler, DoneForm
  <2>11. CASE c.act \notin {"reveal", "copy"}
    <3>1. DisablesControls(h)
      BY <2>1, <2>11 DEF DisablesControls, Act
    <3>2. Disturbs(d, c.slot) /\ Disturbs(e, c.slot)
      BY <2>3, <2>4, <2>11 DEF Disturbs
    <3> QED
      BY <2>3, <2>5, <2>6, <2>7, <2>8, <2>9, <3>1, <3>2, OneHandler
  <2> QED
    BY <2>10, <2>11
<1>5. CASE RequestJob(h) \/ RunCommand(h)
  <2>1. c.pc = "request" /\ c.act \in SlotActs
    BY <1>5 DEF RequestJob, RunCommand, Act, SlotActs
  <2> DEFINE d == [c EXCEPT !.pc = "failed"]
             e == [Free EXCEPT !.pc = "enable", !.act = c.act, !.slot = c.slot]
  <2>2. WellFormed(d) /\ WellFormed(e) /\ e.pc = "enable" /\ e.act = c.act /\ e.slot = c.slot
    BY <1>0, <2>1, NextForms
  <2>3. d.pc = "failed" /\ d.act = c.act /\ d.slot = c.slot
    BY <1>0 DEF WellFormed, Shaped
  <2>4. \/ click' = [click EXCEPT ![h] = d]
        \/ click' = [click EXCEPT ![h] = e]
        \/ click' = [click EXCEPT ![h] = Done] /\ c.act = "copy"
    BY <1>5 DEF RequestJob, RunCommand, Goes, Ends, Closes, Act
  <2>5. UNCHANGED <<job, fetched, pending, fresh, loop, bar, err, shown, late, trigger>>
    BY <1>5 DEF RequestJob, RunCommand, slotVars
  <2>6. CASE c.act \in {"reveal", "copy"}
    <3>1. ~Disturbs(c, c.slot)
      BY <2>1, <2>6 DEF Disturbs
    <3> QED
      BY <2>2, <2>4, <2>5, <3>1, Moves, DoneForm
  <2>7. CASE c.act \notin {"reveal", "copy"}
    <3>1. Disturbs(d, c.slot) /\ Disturbs(e, c.slot)
      BY <2>2, <2>3, <2>7 DEF Disturbs
    <3> QED
      BY <2>2, <2>4, <2>5, <2>7, <3>1, Moves
  <2> QED
    BY <2>6, <2>7
<1>6. CASE RequestAdd(h) \/ RequestStop(h) \/ EnsureRunning(h)
  <2>1. c.act \notin SlotActs
    BY <1>6 DEF RequestAdd, RequestStop, EnsureRunning, Act, SlotActs
  <2>2. c.slot \notin Slots
    BY <1>0, <2>1 DEF WellFormed, Shaped
  <2> DEFINE d == [c EXCEPT !.pc = "now"]
  <2>3. WellFormed(d)
    BY <1>0, <2>1 DEF WellFormed, Shaped
  <2>4. click' = [click EXCEPT ![h] = d]
    BY <1>6 DEF RequestAdd, RequestStop, EnsureRunning, Goes
  <2>5. UNCHANGED <<job, fetched, pending, fresh, loop, bar, err, shown, late, trigger>>
    BY <1>6 DEF RequestAdd, RequestStop, EnsureRunning, slotVars
  <2> QED
    BY <2>2, <2>3, <2>4, <2>5, Moves
<1>7. CASE Enable(h) \/ AskForRefresh(h)
  <2>1. click' = [click EXCEPT ![h] = Done]
    BY <1>7 DEF Enable, AskForRefresh, Ends
  <2>2. UNCHANGED <<job, fetched, pending, fresh, loop, bar, err, shown, late>>
    BY <1>7 DEF Enable, AskForRefresh, slotVars
  <2>3. trigger' \/ (UNCHANGED trigger /\ c.pc = "enable" /\ c.act \in {"reveal", "copy"})
    BY <1>7 DEF Enable, AskForRefresh, Now, Sends, AsksForRefresh, Act
  <2>4. trigger' \/ ~Disturbs(c, c.slot)
    BY <2>3 DEF Disturbs
  <2>5. trigger => trigger'
    BY <2>3
  <2> QED
    BY <2>1, <2>2, <2>4, <2>5, Moves, DoneForm
<1> QED
  BY <1>1, <1>2, <1>3, <1>4, <1>5, <1>6, <1>7 DEF Handle

LEMMA ShowsClick ==
  ASSUME ShowInv, NEW h \in Handlers,
         \/ \E i \in Slots, a \in SlotActs : ClickSlot(h, i, a)
         \/ \E a \in MenuActs : ClickMenu(h, a)
  PROVE  Spares
<1> USE DEF refreshVars, slotVars
<1>1. click[h].pc = "free" /\ ~Disturbs(click[h], click[h].slot)
  BY DEF ClickSlot, ClickMenu, Starts, Disturbs
<1>2. ASSUME NEW i \in Slots, NEW a \in SlotActs, ClickSlot(h, i, a) PROVE Spares
  <2> DEFINE d == [Free EXCEPT !.pc = "clicked", !.act = a, !.slot = i,
                               !.aim = shown[i].job.id,
                               !.calm = (shown[i].job.id = job[i].id)]
  <2>1. WellFormed(d)
    BY DEF WellFormed, Shaped, Free
  <2> QED
    BY <1>1, <1>2, <2>1, Moves DEF ClickSlot
<1>3. ASSUME NEW a \in MenuActs, ClickMenu(h, a) PROVE Spares
  <2> DEFINE d == [Free EXCEPT !.pc = IF a = "refresh" THEN "now" ELSE "request", !.act = a]
  <2>1. WellFormed(d)
    BY DEF WellFormed, Shaped, Free, MenuActs, SlotActs, Slots
  <2> QED
    BY <1>1, <1>3, <2>1, Moves DEF ClickMenu
<1> QED
  BY <1>2, <1>3

-----------------------------------------------------------------------------
\* The order in which a fetch goes through the slots.
LEMMA PassesAll ==
  ASSUME NEW f
  PROVE  /\ Passes(f) \in Seq(Slots)
         /\ Passes(f) # <<>>
         /\ \A i \in Slots : \E k \in 1 .. Len(Passes(f)) : Passes(f)[k] = i
<1>1. maxSlots \in Nat \ {0}
  BY MenuAssumption
<1>2. AllSlots \in Seq(Slots) /\ Len(AllSlots) = maxSlots /\ \A i \in Slots : AllSlots[i] = i
  <2>1. AllSlots \in [1 .. maxSlots -> Slots]
    BY DEF AllSlots, Slots
  <2> QED
    BY <1>1, <2>1 DEF AllSlots, Slots
<1>3. CASE Passes(f) = AllSlots
  BY <1>1, <1>2, <1>3 DEF Slots
<1>4. CASE Passes(f) = AllSlots \o AllSlots
  <2>0. /\ AllSlots \o AllSlots \in Seq(Slots)
        /\ Len(AllSlots \o AllSlots) = Len(AllSlots) + Len(AllSlots)
        /\ \A i \in 1 .. Len(AllSlots) + Len(AllSlots) :
             (AllSlots \o AllSlots)[i] =
                IF i <= Len(AllSlots) THEN AllSlots[i] ELSE AllSlots[i - Len(AllSlots)]
    BY <1>2, ConcatProperties, Zenon
  <2>1. /\ Passes(f) \in Seq(Slots)
        /\ Len(Passes(f)) = maxSlots + maxSlots
        /\ \A i \in 1 .. maxSlots + maxSlots :
             Passes(f)[i] = IF i <= maxSlots THEN AllSlots[i] ELSE AllSlots[i - maxSlots]
    BY <1>2, <1>4, <2>0
  <2>2. ASSUME NEW i \in Slots PROVE i \in 1 .. Len(Passes(f)) /\ Passes(f)[i] = i
    <3>1. i \in 1 .. maxSlots + maxSlots /\ i <= maxSlots
      BY <1>1 DEF Slots
    <3> QED
      BY <1>2, <2>1, <3>1, Zenon
  <2>3. Len(Passes(f)) # 0
    BY <1>1, <2>1
  <2> QED
    BY <2>1, <2>2, <2>3, EmptySeq, Zenon
<1> QED
  BY <1>3, <1>4 DEF Passes

\* After the slot at the head, only the slots behind it wait.
LEMMA OnwardKeeps ==
  ASSUME Passing, Onward, loop = "draw"
  PROVE  /\ Passing'
         /\ loop' \in {"store", "wait"}
         /\ \A i \in Slots : ~Awaits(i)' => i = Head(pending) \/ ~Awaits(i)
<1>1. pending \in Seq(Slots) /\ pending # <<>> /\ pending' = Tail(pending)
  BY DEF Passing, Onward
<1>2. Len(pending) \in Nat \ {0} /\ Len(pending') = Len(pending) - 1 /\ pending' \in Seq(Slots)
  BY <1>1
<1>3. loop' = IF Len(pending) = 1 THEN "wait" ELSE "store"
  BY DEF Onward
<1>4. Passing' /\ loop' \in {"store", "wait"}
  BY <1>2, <1>3 DEF Passing
<1>5. ASSUME NEW i \in Slots, Awaits(i), i # Head(pending) PROVE Awaits(i)'
  <2>1. PICK k \in 1 .. Len(pending) : pending[k] = i
    BY <1>5 DEF Awaits
  <2>2. k # 1
    BY <1>1, <1>5, <2>1
  <2>3. k - 1 \in 1 .. Len(pending') /\ pending'[k - 1] = i
    BY <1>1, <1>2, <2>1, <2>2
  <2> QED
    BY <2>3 DEF Awaits
<1> QED
  BY <1>4, <1>5

LEMMA ShowsRefresh ==
  ASSUME ShowInv, Refresh
  PROVE  ShowInv'
<1> USE DEF ShowInv, refreshVars, slotVars
<1>1. CASE ListJobs
  <2>1. pending' = Passes(fetched') /\ loop' = "store" /\ bar' = BarFor(fetched')
        /\ UNCHANGED <<job, err, shown, click>>
    BY <1>1 DEF ListJobs
  <2>2. Passing' /\ \A i \in Slots : Awaits(i)'
    BY <2>1, PassesAll DEF Passing, Awaits
  <2>3. Shows'
    BY <2>1, <2>2 DEF Shows
  <2> QED
    BY <2>1, <2>2, <2>3 DEF Formed, Domains, BarOK
<1>2. CASE StoreSlot
  <2> DEFINE i == Head(pending)
             j == JobFor(fetched, i)
             e == IF j = NoJob THEN NoError ELSE err[i]
  <2>1. /\ loop = "store" /\ loop' = "draw"
        /\ UNCHANGED <<pending, fetched, trigger, shown, bar>>
        /\ job' = [job EXCEPT ![i] = j]
        /\ err' = [err EXCEPT ![i] = e]
        /\ fresh' = IF j = NoJob THEN Hidden ELSE JobSlotView(j, e)
        /\ click' = Overtaken(i, j)
        /\ late' = late \ {i}
    BY <1>2 DEF StoreSlot, Skips
  <2>2. i \in Slots /\ Awaits(i)
    BY <2>1 DEF Passing, Awaits
  <2>3. Passing' /\ Domains' /\ BarOK'
    BY <2>1 DEF Passing, Domains, BarOK
  <2>4. ASSUME NEW h \in Handlers
        PROVE  /\ WellFormed(click'[h])
               /\ \A k \in Slots : Disturbs(click'[h], k) <=> Disturbs(click[h], k)
    <3>1. WellFormed(click[h])
      BY DEF Formed
    <3>2. CASE click'[h] = click[h]
      BY <3>1, <3>2
    <3>3. CASE click'[h] = [click[h] EXCEPT !.calm = FALSE]
      <4>1. WellFormed(click'[h]) /\ click'[h].pc = click[h].pc /\ click'[h].act = click[h].act
            /\ click'[h].slot = click[h].slot
        BY <3>1, <3>3 DEF WellFormed, Shaped
      <4> QED
        BY <4>1 DEF Disturbs
    <3> QED
      BY <2>1, <3>2, <3>3, Zenon DEF Overtaken
  <2>5. Formed'
    BY <2>1, <2>4 DEF Formed, Overtaken
  <2>6. fresh' = Fetched(fetched, i)'
    BY <2>1, <2>2 DEF Fetched, Domains
  <2>7. ASSUME ~trigger', NEW k \in Slots, Settled(k)', ~Awaits(k)'
        PROVE  shown'[k] = Fetched(fetched, k)'
    <3>1. ~Awaits(k) /\ k # i
      BY <2>1, <2>2, <2>7 DEF Awaits
    <3>2. Settled(k)
      BY <2>1, <2>4, <2>7, <3>1 DEF Settled
    <3>3. shown[k] = Fetched(fetched, k)
      BY <2>1, <2>7, <3>1, <3>2 DEF Shows
    <3>4. err'[k] = err[k]
      BY <2>1, <3>1 DEF Domains
    <3> QED
      BY <2>1, <3>3, <3>4 DEF Fetched
  <2>8. Shows'
    BY <2>1, <2>6, <2>7 DEF Shows
  <2> QED
    BY <2>3, <2>5, <2>8
<1>3. CASE DrawSlot
  <2> DEFINE i == Head(pending)
  <2>1. /\ loop = "draw" /\ Onward
        /\ shown' = [shown EXCEPT ![i] = fresh]
        /\ UNCHANGED <<fetched, trigger, job, err, bar, click, late>>
    BY <1>3 DEF DrawSlot
  <2>2. Passing' /\ loop' \in {"store", "wait"}
        /\ \A k \in Slots : ~Awaits(k)' => k = i \/ ~Awaits(k)
    BY <2>1, OnwardKeeps
  <2>3. Domains' /\ BarOK' /\ Formed'
    BY <2>1 DEF Domains, BarOK, Formed
  <2>4. ASSUME ~trigger', NEW k \in Slots, Settled(k)', ~Awaits(k)'
        PROVE  shown'[k] = Fetched(fetched, k)'
    <3>1. Settled(k) /\ Fetched(fetched, k)' = Fetched(fetched, k)
      BY <2>1, <2>4 DEF Settled, Fetched
    <3>2. CASE k = i
      BY <2>1, <2>4, <3>1, <3>2 DEF Shows, Domains
    <3>3. CASE k # i
      <4>1. ~Awaits(k)
        BY <2>2, <2>4, <3>3
      <4> QED
        BY <2>1, <2>4, <3>1, <3>3, <4>1 DEF Shows, Domains
    <3> QED
      BY <3>2, <3>3
  <2>5. Shows'
    BY <2>2, <2>4 DEF Shows
  <2> QED
    BY <2>2, <2>3, <2>5
<1>4. CASE AskJobs \/ TimerFires \/ Triggered
  BY <1>4 DEF AskJobs, TimerFires, AfterTimer, Triggered, Passing, Formed, Domains, Shows, BarOK
<1> QED
  BY <1>1, <1>2, <1>3, <1>4 DEF Refresh

LEMMA ShowsKept == Safe => []ShowInv
<1>1. Init => ShowInv
  <2> SUFFICES ASSUME Init PROVE ShowInv
    OBVIOUS
  <2>1. Passing /\ Domains /\ Shows /\ BarOK
    BY DEF Init, Passing, Domains, Shows, BarOK
  <2>2. ASSUME NEW h \in Handlers PROVE WellFormed(click[h])
    <3>1. WellFormed([Free EXCEPT !.pc = "request", !.act = "startup"])
      BY DEF WellFormed, Shaped, Free, SlotActs, Slots
    <3>2. click[h] \in {Free, [Free EXCEPT !.pc = "request", !.act = "startup"]}
      BY Zenon DEF Init
    <3> QED
      BY <3>1, <3>2, DoneForm
  <2>3. DOMAIN click = Handlers
    BY DEF Init
  <2> QED
    BY <2>1, <2>2, <2>3 DEF ShowInv, Formed
<1>2. ShowInv /\ [Next]_vars => ShowInv'
  <2> SUFFICES ASSUME ShowInv, [Next]_vars PROVE ShowInv'
    OBVIOUS
  <2>1. CASE OthersAct \/ DaemonEnds \/ DaemonStarts \/ UNCHANGED vars
    <3>1. UNCHANGED <<job, fetched, pending, fresh, loop, bar, err, shown, late, click, trigger>>
      BY <2>1, Zenon DEF OthersAct, DaemonEnds, DaemonStarts, vars, refreshVars, slotVars
    <3>2. Spares
      BY <3>1 DEF Spares, ShowInv, Domains, Formed, Settled
    <3> QED
      BY <3>2, SparingStep
  <2> QED
    BY <2>1, ShowsRefresh, ShowsHandler, ShowsClick, SparingStep DEF Next, Environment
<1> QED
  BY <1>1, <1>2, PTL DEF Safe

\* While the refresher waits and no handler is at work, the menu shows what
\* was fetched last, whatever handlers drew, stored or asked for at whatever
\* moments of the refresh (menu.go:78-127, 249-302, 436-474).
THEOREM MenuShowsFetched == Safe => []ShowsFetched
<1>1. ShowInv => ShowsFetched
  <2> SUFFICES ASSUME ShowInv, loop = "wait", ~trigger, \A h \in Handlers : ~AtWork(h)
               PROVE  (\A i \in Slots \ late : shown[i] = Fetched(fetched, i))
                      /\ bar = BarFor(fetched)
    BY DEF ShowsFetched
  <2>1. \A h \in Handlers, i \in Slots : ~Disturbs(click[h], i)
    BY DEF AtWork, Disturbs
  <2>2. \A i \in Slots : ~Awaits(i)
    BY DEF ShowInv, Passing, Awaits
  <2> QED
    BY <2>1, <2>2 DEF ShowInv, Shows, Settled, BarOK
<1> QED
  BY <1>1, ShowsKept, PTL

-----------------------------------------------------------------------------
(***************************************************************************)
(* Who enables a slot again.  A handler that disabled the controls of its  *)
(* slot keeps the duty through every outcome of its request.               *)
(***************************************************************************)
LEMMA DutyKept ==
  ASSUME Formed, NEW h \in Handlers, Handle(h), WillEnable(h)
  PROVE  /\ UNCHANGED enabled \/ Begin(h) \/ Enable(h)
         /\ Enable(h) \/ (WillEnable(h)' /\ Slot(h)' = Slot(h))
<1> DEFINE c == click[h]
           e == [Free EXCEPT !.pc = "enable", !.act = c.act, !.slot = c.slot]
<1>1. WellFormed(c) /\ DOMAIN click = Handlers
  BY DEF Formed
<1>2. c.pc \in {"clear", "request", "failed", "report", "enable"}
      /\ c.act \in SlotActs \ {"copy"} /\ ~(c.act = "reveal" /\ c.target \in Pathless)
  BY DEF WillEnable, DisablesControls, Act, Target
<1>3. UNCHANGED enabled \/ Begin(h) \/ Enable(h)
  BY Zenon DEF Handle, Resolve, Begin, RefuseReveal, BeginCopy, DrawCleared, RequestJob,
     RunCommand, RequestAdd, RequestStop, EnsureRunning, StoreFailure, DrawFailure,
     AskForRefresh, slotVars
<1>4. ASSUME NEW d, click' = [click EXCEPT ![h] = d], d.slot = c.slot, d.act = c.act,
             d.target = c.target \/ d.target = "none",
             d.pc \in {"request", "failed", "report", "enable"}
      PROVE  WillEnable(h)' /\ Slot(h)' = Slot(h)
  <2>1. click'[h] = d
    BY <1>1, <1>4
  <2>2. "none" \notin Pathless
    BY MenuAssumption
  <2> QED
    BY <1>2, <1>4, <2>1, <2>2 DEF WillEnable, DisablesControls, Act, Target, Slot
<1>5. ASSUME NEW pc \in {"request", "failed", "report", "enable"}, NEW v,
             \/ click' = [click EXCEPT ![h].pc = pc]
             \/ click' = [click EXCEPT ![h].pc = pc, ![h].view = v]
      PROVE  WillEnable(h)' /\ Slot(h)' = Slot(h)
  <2> DEFINE d1 == [c EXCEPT !.pc = pc]
             d2 == [c EXCEPT !.pc = pc, !.view = v]
  <2>1. click' = [click EXCEPT ![h] = d1] \/ click' = [click EXCEPT ![h] = d2]
    BY <1>5
  <2>2. /\ d1.slot = c.slot /\ d1.act = c.act /\ d1.target = c.target /\ d1.pc = pc
        /\ d2.slot = c.slot /\ d2.act = c.act /\ d2.target = c.target /\ d2.pc = pc
    BY <1>1 DEF WellFormed, Shaped
  <2> QED
    BY <1>4, <2>1, <2>2
<1>6. Closes(h) => WillEnable(h)' /\ Slot(h)' = Slot(h)
  <2>1. e.slot = c.slot /\ e.act = c.act /\ e.target = "none" /\ e.pc = "enable"
    BY DEF Free
  <2> QED
    BY <1>4, <2>1 DEF Closes
<1>6a. Goes(h, "failed") => WillEnable(h)' /\ Slot(h)' = Slot(h)
  BY <1>5 DEF Goes
<1>7. CASE DrawCleared(h)
  BY <1>5, <1>7 DEF DrawCleared, Drawn
<1>8. CASE RequestJob(h)
  <2>1. Closes(h) \/ Goes(h, "failed")
    BY <1>8, Zenon DEF RequestJob
  <2> QED
    BY <1>3, <1>6, <1>6a, <2>1
<1>9. CASE RunCommand(h)
  <2>1. c.act # "copy"
    BY <1>2
  <2>2. Closes(h) \/ Goes(h, "failed")
    BY <1>9, <2>1, Zenon DEF RunCommand, Act
  <2> QED
    BY <1>3, <1>6, <1>6a, <2>2
<1>10. CASE StoreFailure(h)
  BY <1>5, <1>10 DEF StoreFailure, SetActionError
<1>11. CASE DrawFailure(h)
  BY <1>6, <1>11 DEF DrawFailure, EndsHere, WillEnable
<1>12. CASE Resolve(h) \/ Begin(h) \/ RefuseReveal(h) \/ BeginCopy(h) \/ RequestAdd(h)
            \/ RequestStop(h) \/ EnsureRunning(h) \/ AskForRefresh(h)
  <2>1. c.pc = "request" => c.act \notin {"add", "stop", "start", "startup"}
    BY <1>2 DEF SlotActs
  <2>2. CASE RequestAdd(h) \/ RequestStop(h) \/ EnsureRunning(h)
    BY <2>1, <2>2 DEF RequestAdd, RequestStop, EnsureRunning, Act
  <2>3. CASE Resolve(h) \/ Begin(h) \/ RefuseReveal(h) \/ BeginCopy(h) \/ AskForRefresh(h)
    <3>1. c.pc \in {"clicked", "begin", "now"}
      BY <2>3, Zenon DEF Resolve, Begin, RefuseReveal, BeginCopy, AskForRefresh
    <3> QED
      BY <1>2, <3>1
  <2> QED
    BY <1>12, <2>2, <2>3
<1> QED
  BY <1>3, <1>7, <1>8, <1>9, <1>10, <1>11, <1>12 DEF Handle

BusyInv == DOMAIN enabled = Slots /\ DisabledIsBusy

LEMMA DutiesKept ==
  ASSUME Formed, BusyInv, NEW h \in Handlers, Handle(h)
  PROVE  BusyInv'
<1> USE DEF BusyInv
<1>1. DOMAIN click = Handlers
  BY DEF Formed
<1>2. ASSUME NEW g \in Handlers, g # h, WillEnable(g)
      PROVE  WillEnable(g)' /\ Slot(g)' = Slot(g)
  <2>1. click'[g] = click[g]
    BY <1>1, <1>2 DEF Handle, Resolve, Begin, RefuseReveal, BeginCopy, DrawCleared, RequestJob,
       RunCommand, RequestAdd, RequestStop, EnsureRunning, StoreFailure, DrawFailure, Enable,
       AskForRefresh, Goes, Ends, Closes, Drawn, SetActionError
  <2> QED
    BY <1>2, <2>1 DEF WillEnable, DisablesControls, Act, Target, Slot
<1>3. CASE Begin(h)
  <2>1. enabled' = [enabled EXCEPT ![Slot(h)] = FALSE]
    BY <1>3 DEF Begin
  <2>2. ASSUME NEW i \in Slots, ~enabled'[i], i # Slot(h)
        PROVE  \E g \in Handlers : Slot(g)' = i /\ WillEnable(g)'
    <3>1. PICK g \in Handlers : Slot(g) = i /\ WillEnable(g)
      BY <2>1, <2>2 DEF DisabledIsBusy
    <3> QED
      BY <1>2, <2>2, <3>1
  <2>3. WillEnable(h)' /\ Slot(h)' = Slot(h)
    <3> DEFINE c == click[h]
               d == [c EXCEPT !.pc = "clear", !.view = JobSlotView(job[Slot(h)], NoError)]
    <3>1. click'[h] = d
      BY <1>1, <1>3 DEF Begin, SetActionError
    <3>2. d.pc = "clear" /\ d.act = c.act /\ d.target = c.target /\ d.slot = c.slot
      BY DEF Formed, WellFormed, Shaped
    <3> QED
      BY <1>3, <3>1, <3>2 DEF Begin, WillEnable, DisablesControls, Act, Target, Slot
  <2> QED
    BY <2>1, <2>2, <2>3 DEF DisabledIsBusy
<1>4. CASE Enable(h)
  <2>1. enabled' = [enabled EXCEPT ![Slot(h)] = TRUE]
    BY <1>4 DEF Enable
  <2>2. ASSUME NEW i \in Slots, ~enabled'[i]
        PROVE  \E g \in Handlers : Slot(g)' = i /\ WillEnable(g)'
    <3>1. i # Slot(h) /\ ~enabled[i]
      BY <2>1, <2>2
    <3>2. PICK g \in Handlers : Slot(g) = i /\ WillEnable(g)
      BY <3>1 DEF DisabledIsBusy
    <3> QED
      BY <1>2, <3>1, <3>2
  <2> QED
    BY <2>1, <2>2 DEF DisabledIsBusy
<1>5. CASE ~Begin(h) /\ ~Enable(h)
  <2>1. UNCHANGED enabled
    BY <1>5, Zenon DEF Handle, Resolve, RefuseReveal, BeginCopy, DrawCleared, RequestJob,
       RunCommand, RequestAdd, RequestStop, EnsureRunning, StoreFailure, DrawFailure,
       AskForRefresh, slotVars
  <2>2. ASSUME NEW i \in Slots, ~enabled[i]
        PROVE  \E g \in Handlers : Slot(g)' = i /\ WillEnable(g)'
    <3>1. PICK g \in Handlers : Slot(g) = i /\ WillEnable(g)
      BY <2>2 DEF DisabledIsBusy
    <3> QED
      BY <1>2, <1>5, <3>1, DutyKept
  <2> QED
    BY <2>1, <2>2 DEF DisabledIsBusy
<1> QED
  BY <1>3, <1>4, <1>5

\* The refresher and new clicks take no duty away.
LEMMA DutiesSpared ==
  ASSUME Formed, BusyInv, [Next]_vars, ~\E h \in Handlers : Handle(h)
  PROVE  BusyInv'
<1> USE DEF BusyInv
<1>1. UNCHANGED enabled
  BY Zenon DEF Next, Refresh, Environment, AskJobs, ListJobs, StoreSlot, DrawSlot, TimerFires, Triggered,
     OthersAct, DaemonEnds, DaemonStarts, ClickSlot, ClickMenu, vars, slotVars
<1>2. ASSUME NEW g \in Handlers, WillEnable(g)
      PROVE  WillEnable(g)' /\ Slot(g)' = Slot(g)
  <2> DEFINE c == click[g]
  <2>1. WellFormed(c) /\ DOMAIN click = Handlers /\ c.pc \notin {"free", "clicked"}
    BY <1>2 DEF Formed, WillEnable
  <2>2. click'[g] = c
    <3>1. CASE StoreSlot
      BY <2>1, <3>1 DEF StoreSlot, Overtaken
    <3>2. CASE \E h \in Handlers : \/ \E i \in Slots, a \in SlotActs : ClickSlot(h, i, a)
                                   \/ \E a \in MenuActs : ClickMenu(h, a)
      BY <2>1, <3>2 DEF ClickSlot, ClickMenu, Starts
    <3>3. CASE UNCHANGED click
      BY <3>3
    <3> QED
      BY <3>1, <3>2, <3>3, Zenon DEF Next, Refresh, Environment, AskJobs, ListJobs, DrawSlot,
         TimerFires, Triggered, OthersAct, DaemonEnds, DaemonStarts, vars
  <2> QED
    BY <1>2, <2>2 DEF WillEnable, DisablesControls, Act, Target, Slot
<1> QED
  BY <1>1, <1>2 DEF DisabledIsBusy

\* The controls of a slot are never left disabled: while they are, a handler
\* that disabled them has yet to enable them, however many handlers share the
\* slot and whatever becomes of their requests (menu.go:161-171, 427-463,
\* 493-506).
THEOREM ControlsComeBack == Safe => []DisabledIsBusy
<1>1. Init => BusyInv
  BY DEF Init, BusyInv, DisabledIsBusy
<1>2. ShowInv /\ BusyInv /\ [Next]_vars => BusyInv'
  BY DutiesKept, DutiesSpared DEF ShowInv
<1>3. BusyInv => DisabledIsBusy
  BY DEF BusyInv
<1> QED
  BY <1>1, <1>2, <1>3, ShowsKept, PTL DEF Safe

-----------------------------------------------------------------------------
(***************************************************************************)
(* The values the variables keep to, with what ShowInv says of handlers    *)
(* and of the slots an update has yet to go through.                       *)
(***************************************************************************)
\* Parts of jobs and views.
LEMMA JobTypes ==
  /\ \A j \in JobRecords \cup {NoJob} : j.id \in Jobs \cup {"none"}
  /\ \A j \in JobRecords \cup {NoJob}, e \in Errors : JobSlotView(j, e) \in Views
  /\ Hidden \in Views
  /\ \A v \in Views : v.job \in JobRecords \cup {NoJob}
<1>1. \A j \in JobRecords \cup {NoJob} : j.id \in Jobs \cup {"none"}
  BY DEF JobRecords, NoJob
<1>2. \A j \in JobRecords \cup {NoJob}, e \in Errors : JobSlotView(j, e) \in Views
  BY DEF JobSlotView, Views
<1>3. ASSUME NEW v \in Views PROVE v.job \in JobRecords \cup {NoJob}
  <2>1. CASE v = Hidden
    BY <2>1 DEF Hidden
  <2>2. CASE v # Hidden
    BY <2>2 DEF Views
  <2> QED
    BY <2>1, <2>2
<1> QED
  BY <1>1, <1>2, <1>3 DEF Views

\* The daemon's list after each change.
LEMMA ListTypes ==
  ASSUME TypeOK
  PROVE  /\ \A id \in Jobs : Added(id) \in Seq(JobRecords)
         /\ \A k \in DOMAIN list, st \in States : [list EXCEPT ![k].st = st] \in Seq(JobRecords)
         /\ \A id \in Jobs, p \in BOOLEAN : Paused(id, p) \in Seq(JobRecords)
         /\ \A id \in IDs(list) : id \in Jobs /\ Removed(id) \in Seq(JobRecords)
<1>0. list \in Seq(JobRecords)
  BY DEF TypeOK
<1>1. list \in Seq(JobRecords) /\ DOMAIN list = 1 .. Len(list) /\ Len(list) \in Nat
      /\ \A k \in 1 .. Len(list) : list[k] \in JobRecords
  BY <1>0
<1>2. ASSUME NEW id \in Jobs PROVE Added(id) \in Seq(JobRecords)
  <2>1. [id |-> id, paused |-> FALSE, st |-> "idle"] \in JobRecords
    BY DEF JobRecords, States
  <2> QED
    BY <1>1, <2>1, AppendProperties DEF Added
<1>3. ASSUME NEW k \in DOMAIN list, NEW st \in States
      PROVE  [list EXCEPT ![k].st = st] \in Seq(JobRecords)
  <2>1. [list[k] EXCEPT !.st = st] \in JobRecords
    BY <1>1 DEF JobRecords
  <2> QED
    BY <1>1, <2>1, ExceptSeq
<1>4. ASSUME NEW id \in Jobs, NEW p \in BOOLEAN PROVE Paused(id, p) \in Seq(JobRecords)
  <2>1. ASSUME NEW k \in 1 .. Len(list)
        PROVE  (IF list[k].id = id THEN [list[k] EXCEPT !.paused = p] ELSE list[k]) \in JobRecords
    BY <1>1 DEF JobRecords
  <2>2. Paused(id, p) \in [1 .. Len(list) -> JobRecords]
    BY <1>1, <2>1 DEF Paused
  <2> QED
    BY <1>1, <2>2
<1>5. ASSUME NEW id \in IDs(list) PROVE id \in Jobs /\ Removed(id) \in Seq(JobRecords)
  <2> DEFINE k == Position(id)
             before == SubSeq(list, 1, k - 1)
             after == SubSeq(list, k + 1, Len(list))
  <2>1. \E n \in DOMAIN list : list[n].id = id
    BY DEF IDs
  <2>2. k \in 1 .. Len(list) /\ list[k].id = id
    BY <1>1, <2>1 DEF Position
  <2>3. before \in Seq(JobRecords) /\ after \in Seq(JobRecords)
    <3>1. k - 1 \in Int /\ k + 1 \in Int /\ Len(list) \in Int
          /\ (\A n \in 1 .. k - 1 : list[n] \in JobRecords)
          /\ (\A n \in k + 1 .. Len(list) : list[n] \in JobRecords)
      BY <1>1, <2>2
    <3> HIDE DEF k
    <3>2. before \in Seq(JobRecords)
      BY <3>1, SubSeqProperties, SMT
    <3>3. after \in Seq(JobRecords)
      BY <3>1, SubSeqProperties, SMT
    <3> QED
      BY <3>2, <3>3
  <2>4. before \o after \in Seq(JobRecords)
    BY <2>3, ConcatProperties, Zenon
  <2> QED
    BY <1>1, <2>2, <2>4 DEF Removed, JobRecords
<1> QED
  BY <1>2, <1>3, <1>4, <1>5

\* What a fetch puts in a slot and in the rows of the whole menu.
LEMMA FetchTypes ==
  ASSUME TypeOK, NEW f \in [ok : BOOLEAN, jobs : Seq(JobRecords)], NEW i \in Slots
  PROVE  /\ JobFor(f, i) \in JobRecords \cup {NoJob}
         /\ BarFor(f).daemon \in {"starting", "running", "not running"}
         /\ BarFor(f).more \in Nat
<1>1. maxSlots \in Nat
  BY MenuAssumption
<1>2. f.jobs \in Seq(JobRecords) /\ Len(f.jobs) \in Nat
  OBVIOUS
<1>3. JobFor(f, i) \in JobRecords \cup {NoJob}
  BY <1>1, <1>2 DEF JobFor, Slots
<1>4. AdditionalJobsNotice(Len(f.jobs)) \in Nat
  BY <1>1, <1>2 DEF AdditionalJobsNotice
<1>5. BarFor(f).more = AdditionalJobsNotice(Len(f.jobs))
      /\ BarFor(f).daemon = IF f.ok THEN "running" ELSE "not running"
  BY DEF BarFor
<1> QED
  BY <1>3, <1>4, <1>5

\* What the bounds count down to.
LEMMA BudgetTypes ==
  ASSUME TypeOK
  PROVE  Fine \/ Fault \/ Change => budget' \in [changes : Nat, faults : Nat]
<1>1. budget \in [changes : Nat, faults : Nat]
  BY DEF TypeOK
<1>2. CASE Fine
  BY <1>1, <1>2 DEF Fine
<1>3. CASE Fault
  BY <1>1, <1>3 DEF Fault
<1>4. CASE Change
  BY <1>1, <1>4 DEF Change
<1> QED
  BY <1>2, <1>3, <1>4

LEMMA RefreshTypes ==
  ASSUME TypeOK, Passing, Passing', Refresh
  PROVE  TypeOK'
<1> USE DEF daemonVars, slotVars, refreshVars
<1>1. CASE ListJobs
  <2>0. list \in Seq(JobRecords)
    BY DEF TypeOK
  <2>1. fetched' \in [ok : BOOLEAN, jobs : Seq(JobRecords)]
    <3>1. Listed(list) \in [ok : BOOLEAN, jobs : Seq(JobRecords)]
          /\ Unreachable \in [ok : BOOLEAN, jobs : Seq(JobRecords)]
      BY <2>0 DEF Listed, Unreachable
    <3> QED
      BY <1>1, <3>1, Zenon DEF ListJobs
  <2>2. budget' \in [changes : Nat, faults : Nat]
    BY <1>1, BudgetTypes, Zenon DEF ListJobs
  <2>3. 1 \in Slots
    <3>1. maxSlots \in Nat \ {0}
      BY MenuAssumption
    <3> QED
      BY <3>1 DEF Slots
  <2>4. bar'.daemon \in {"starting", "running", "not running"} /\ bar'.more \in Nat
    BY <1>1, <2>1, <2>3, FetchTypes DEF ListJobs
  <2> QED
    BY <1>1, <2>1, <2>2, <2>4 DEF ListJobs, TypeOK, Passing
<1>2. CASE StoreSlot
  <2> DEFINE i == Head(pending)
             j == JobFor(fetched, i)
             e == IF j = NoJob THEN NoError ELSE err[i]
  <2>1. i \in Slots
    BY <1>2 DEF StoreSlot, Passing
  <2>2. j \in JobRecords \cup {NoJob} /\ e \in Errors
    BY <2>1, FetchTypes DEF TypeOK, Errors, NoError
  <2>3. /\ job' = [job EXCEPT ![i] = j]
        /\ err' = [err EXCEPT ![i] = e]
        /\ fresh' = IF j = NoJob THEN Hidden ELSE JobSlotView(j, e)
        /\ click' = Overtaken(i, j)
        /\ late' = late \ {i}
        /\ loop' = "draw"
    BY <1>2 DEF StoreSlot, Skips
  <2>4. fresh' \in Views /\ job' \in [Slots -> JobRecords \cup {NoJob}] /\ err' \in [Slots -> Errors]
        /\ late' \in SUBSET Slots
    BY <2>2, <2>3, JobTypes DEF TypeOK
  <2>5. click' \in [Handlers -> Goroutines]
    <3>1. ASSUME NEW h \in Handlers PROVE [click[h] EXCEPT !.calm = FALSE] \in Goroutines
      <4>1. click[h] \in Goroutines
        BY DEF TypeOK
      <4> QED
        BY <4>1 DEF Goroutines
    <3> QED
      BY <2>3, <3>1 DEF Overtaken, TypeOK
  <2> QED
    BY <1>2, <2>3, <2>4, <2>5 DEF StoreSlot, TypeOK, Passing
<1>3. CASE DrawSlot
  <2>1. shown' \in [Slots -> Views] /\ fresh' \in Views
    BY <1>3, JobTypes DEF DrawSlot, TypeOK
  <2>2. loop' \in {"store", "wait"}
    BY <1>3 DEF DrawSlot, Onward
  <2> QED
    BY <1>3, <2>1, <2>2 DEF DrawSlot, TypeOK, Passing
<1>4. CASE AskJobs \/ TimerFires \/ Triggered
  BY <1>4 DEF AskJobs, TimerFires, AfterTimer, Triggered, TypeOK
<1> QED
  BY <1>1, <1>2, <1>3, <1>4 DEF Refresh

LEMMA EnvironmentTypes ==
  ASSUME TypeOK, OthersAct \/ DaemonEnds \/ DaemonStarts
  PROVE  TypeOK'
<1> USE DEF daemonVars, slotVars, refreshVars
<1>1. UNCHANGED <<loop, trigger, fetched, pending, fresh, job, err, shown, enabled, bar, click,
                  owed, late>>
  BY Zenon DEF OthersAct, DaemonEnds, DaemonStarts
<1>2. budget' \in [changes : Nat, faults : Nat]
  BY BudgetTypes, Zenon DEF OthersAct, DaemonEnds, DaemonStarts
<1>3. daemon' \in {"up", "stopping", "down"}
  BY DEF OthersAct, DaemonEnds, DaemonStarts, TypeOK
<1>4. list' \in Seq(JobRecords) /\ unborn' \in SUBSET Jobs
  <2>0. list \in Seq(JobRecords) /\ unborn \in SUBSET Jobs
    BY DEF TypeOK
  <2>1. CASE AddJob
    <3>1. PICK id \in unborn : list' = Added(id) /\ unborn' = unborn \ {id}
      BY <2>1 DEF AddJob
    <3>2. Added(id) \in Seq(JobRecords)
      BY <2>0, ListTypes
    <3> QED
      BY <2>0, <3>1, <3>2
  <2>2. ASSUME NEW k \in DOMAIN list, UNCHANGED unborn,
               \/ \E st \in Progress(list[k].st) : list' = [list EXCEPT ![k].st = st]
               \/ list' = Paused(list[k].id, ~list[k].paused)
               \/ list' = Removed(list[k].id)
        PROVE  list' \in Seq(JobRecords) /\ unborn' \in SUBSET Jobs
    <3>1. list[k] \in JobRecords
      BY <2>0
    <3>2. list[k].id \in IDs(list) /\ list[k].id \in Jobs /\ (~list[k].paused) \in BOOLEAN
      BY <3>1 DEF IDs, JobRecords
    <3>3. Progress(list[k].st) \subseteq States
      BY DEF Progress, States
    <3>4. (\A st \in States : [list EXCEPT ![k].st = st] \in Seq(JobRecords))
          /\ Paused(list[k].id, ~list[k].paused) \in Seq(JobRecords)
          /\ Removed(list[k].id) \in Seq(JobRecords)
      BY <3>2, ListTypes, Zenon
    <3> QED
      BY <2>0, <2>2, <3>3, <3>4, Zenon
  <2>3. CASE DaemonEnds \/ DaemonStarts
    BY <2>3 DEF DaemonEnds, DaemonStarts, TypeOK
  <2> QED
    BY <2>1, <2>2, <2>3, Zenon DEF OthersAct
<1> QED
  BY <1>1, <1>2, <1>3, <1>4 DEF TypeOK

\* What one handler does to its own variables.
LEMMA ClickTypes ==
  ASSUME TypeOK, NEW h \in Handlers, NEW c \in Goroutines,
         click' = [click EXCEPT ![h] = c]
  PROVE  click' \in [Handlers -> Goroutines]
BY DEF TypeOK

LEMMA NextTypes ==
  ASSUME NEW c \in Goroutines, NEW v \in Views, NEW t \in Jobs \cup {"none"},
         NEW pc \in {"begin", "clear", "request", "failed", "report", "now"}
  PROVE  /\ [c EXCEPT !.pc = pc] \in Goroutines
         /\ [c EXCEPT !.pc = pc, !.view = v] \in Goroutines
         /\ [c EXCEPT !.pc = pc, !.target = t] \in Goroutines
         /\ [Free EXCEPT !.pc = "enable", !.act = c.act, !.slot = c.slot] \in Goroutines
<1>0. [c EXCEPT !.pc = pc] \in Goroutines
  BY DEF Goroutines
<1>1. [c EXCEPT !.pc = pc, !.target = t] \in Goroutines
  BY DEF Goroutines
<1>2. [c EXCEPT !.pc = pc, !.view = v] \in Goroutines
  BY DEF Goroutines
<1>3. [Free EXCEPT !.pc = "enable", !.act = c.act, !.slot = c.slot] \in Goroutines
  <2>1. c.act \in SlotActs \cup MenuActs \cup {"startup", "none"} /\ c.slot \in Slots \cup {0}
    BY DEF Goroutines
  <2>2. Hidden \in Views
    BY DEF Views
  <2> QED
    BY <2>1, <2>2 DEF Goroutines, Free
<1> QED
  BY <1>0, <1>1, <1>2, <1>3

LEMMA FreeTypes == Free \in Goroutines /\ Done \in Goroutines
BY DEF Goroutines, Free, Done, Views

LEMMA HandlerTypes ==
  ASSUME TypeOK, Formed, NEW h \in Handlers, Handle(h)
  PROVE  TypeOK'
<1> DEFINE c == click[h]
<1> USE DEF daemonVars, slotVars, refreshVars
<1>0. /\ c \in Goroutines /\ WellFormed(c)
      /\ c.view \in Views /\ c.target \in Errors /\ c.target \in Jobs \cup {"none"}
  <2>1. c \in Goroutines /\ WellFormed(c)
    BY DEF TypeOK, Formed
  <2> QED
    BY <2>1 DEF Goroutines, Errors, NoError
<1>1. UNCHANGED <<loop, fetched, pending, fresh, job, bar>>
  BY Zenon DEF Handle, Resolve, Begin, RefuseReveal, BeginCopy, DrawCleared, RequestJob,
     RunCommand, RequestAdd, RequestStop, EnsureRunning, StoreFailure, DrawFailure,
     Enable, AskForRefresh
<1>2. ASSUME NEW pc \in {"begin", "clear", "request", "failed", "report", "now"}, NEW v \in Views,
             \/ Goes(h, pc) \/ Drawn(h, pc) \/ Closes(h) \/ Ends(h)
             \/ click' = [click EXCEPT ![h].pc = pc, ![h].view = v]
      PROVE  click' \in [Handlers -> Goroutines]
  <2> DEFINE d1 == [c EXCEPT !.pc = pc]
             d2 == [c EXCEPT !.pc = pc, !.view = v]
             d3 == [c EXCEPT !.pc = pc, !.view = Hidden]
             d4 == [Free EXCEPT !.pc = "enable", !.act = c.act, !.slot = c.slot]
  <2>1. d1 \in Goroutines /\ d2 \in Goroutines /\ d3 \in Goroutines /\ d4 \in Goroutines
    BY <1>0, JobTypes, NextTypes
  <2>2. \/ click' = [click EXCEPT ![h] = d1] \/ click' = [click EXCEPT ![h] = d2]
        \/ click' = [click EXCEPT ![h] = d3] \/ click' = [click EXCEPT ![h] = d4]
        \/ click' = [click EXCEPT ![h] = Done]
    BY <1>2 DEF Goes, Drawn, Closes, Ends
  <2> HIDE DEF d1, d2, d3, d4
  <2> QED
    BY <2>1, <2>2, FreeTypes, ClickTypes
<1>3. ASSUME NEW e \in Errors, NEW pc \in {"clear", "report"}, SetActionError(h, e, pc),
             c.act \in SlotActs
      PROVE  click' \in [Handlers -> Goroutines] /\ err' \in [Slots -> Errors]
  <2>1. c.slot \in Slots
    BY <1>0, <1>3 DEF WellFormed
  <2>2. JobSlotView(job[c.slot], e) \in Views
    BY <2>1, JobTypes DEF TypeOK
  <2>3. click' = [click EXCEPT ![h].pc = pc, ![h].view = JobSlotView(job[c.slot], e)]
        /\ err' = [err EXCEPT ![c.slot] = e]
    BY <1>3 DEF SetActionError, Slot
  <2>4. err' \in [Slots -> Errors]
    BY <2>3 DEF TypeOK
  <2> QED
    BY <1>2, <2>2, <2>3, <2>4
<1>4. ASSUME Draw(h), c.act \in SlotActs
      PROVE  shown' \in [Slots -> Views] /\ late' \in SUBSET Slots
  <2>1. c.slot \in Slots
    BY <1>0, <1>4 DEF WellFormed
  <2>2. shown \in [Slots -> Views] /\ late \in SUBSET Slots
    BY DEF TypeOK
  <2> QED
    BY <1>0, <1>4, <2>1, <2>2 DEF Draw, Slot
<1>5. CASE Resolve(h)
  <2> DEFINE t == job[c.slot].id
             d == [c EXCEPT !.pc = "begin", !.target = t]
  <2>1. c.slot \in Slots
    BY <1>0, <1>5 DEF WellFormed, Resolve
  <2>2. t \in Jobs \cup {"none"}
    BY <2>1, JobTypes DEF TypeOK
  <2>3. d \in Goroutines
    BY <1>0, <2>2, NextTypes, JobTypes
  <2>4. click' = [click EXCEPT ![h] = d] \/ click' = [click EXCEPT ![h] = Done]
    BY <1>5 DEF Resolve, Ends, Slot
  <2> HIDE DEF d
  <2>5. click' \in [Handlers -> Goroutines]
    BY <2>3, <2>4, FreeTypes, ClickTypes
  <2>6. UNCHANGED <<daemonVars, refreshVars, trigger, slotVars, bar, owed, late, budget>>
    BY <1>5, Zenon DEF Resolve
  <2> QED
    BY <2>5, <2>6 DEF TypeOK
<1>6. CASE Begin(h)
  <2>1. click' \in [Handlers -> Goroutines] /\ err' \in [Slots -> Errors]
    BY <1>0, <1>3, <1>6 DEF Begin, WellFormed, Errors
  <2>2. enabled' \in [Slots -> BOOLEAN]
    BY <1>6 DEF Begin, TypeOK
  <2>3. UNCHANGED <<daemonVars, refreshVars, trigger, job, shown, bar, owed, late, budget>>
    BY <1>6, Zenon DEF Begin
  <2> QED
    BY <2>1, <2>2, <2>3 DEF TypeOK
<1>7. CASE RefuseReveal(h) \/ StoreFailure(h)
  <2>1. click' \in [Handlers -> Goroutines] /\ err' \in [Slots -> Errors]
    BY <1>0, <1>3, <1>7 DEF RefuseReveal, StoreFailure, WellFormed, Target
  <2>2. UNCHANGED <<daemonVars, refreshVars, trigger, job, shown, enabled, bar, owed, late,
                    budget>>
    BY <1>7, Zenon DEF RefuseReveal, StoreFailure
  <2> QED
    BY <2>1, <2>2 DEF TypeOK
<1>8. CASE BeginCopy(h)
  <2>1. click' \in [Handlers -> Goroutines]
    BY <1>0, <1>2, <1>8 DEF BeginCopy
  <2>2. UNCHANGED <<daemonVars, refreshVars, trigger, slotVars, bar, owed, late, budget>>
    BY <1>8, Zenon DEF BeginCopy
  <2> QED
    BY <2>1, <2>2 DEF TypeOK
<1>9. CASE DrawCleared(h) \/ DrawFailure(h)
  <2>1. click' \in [Handlers -> Goroutines]
    BY <1>0, <1>2, <1>9 DEF DrawCleared, DrawFailure
  <2>2. shown' \in [Slots -> Views] /\ late' \in SUBSET Slots
    BY <1>0, <1>4, <1>9 DEF DrawCleared, DrawFailure, WellFormed
  <2>3. UNCHANGED <<daemonVars, refreshVars, trigger, job, err, enabled, bar, owed, budget>>
    BY <1>9, Zenon DEF DrawCleared, DrawFailure
  <2> QED
    BY <2>1, <2>2, <2>3 DEF TypeOK
<1>10. CASE RequestJob(h) \/ RunCommand(h)
  <2>1. click' \in [Handlers -> Goroutines]
    BY <1>0, <1>2, <1>10 DEF RequestJob, RunCommand
  <2>2. budget' \in [changes : Nat, faults : Nat]
    BY <1>10, BudgetTypes, Zenon DEF RequestJob, RunCommand
  <2>3. list' \in Seq(JobRecords)
    <3>1. list \in Seq(JobRecords)
      BY DEF TypeOK
    <3>2. ASSUME RequestJob(h), Known(h) PROVE Applied(h) \in Seq(JobRecords)
      <4>1. c.target \in IDs(list) /\ c.act \in {"pause", "resume", "sync", "remove"}
        BY <3>2 DEF RequestJob, Known, Target, Act
      <4> QED
        BY <3>1, <4>1, ListTypes DEF Applied, Act, Target
    <3> QED
      BY <1>10, <3>1, <3>2, Zenon DEF RequestJob, RunCommand
  <2>4. UNCHANGED <<daemon, unborn, trigger, err, shown, enabled, owed, late>>
    BY <1>10 DEF RequestJob, RunCommand
  <2> QED
    BY <1>1, <2>1, <2>2, <2>3, <2>4 DEF TypeOK
<1>11. CASE RequestAdd(h) \/ RequestStop(h) \/ EnsureRunning(h)
  <2>1. click' \in [Handlers -> Goroutines]
    BY <1>0, <1>2, <1>11 DEF RequestAdd, RequestStop, EnsureRunning
  <2>2. list' \in Seq(JobRecords) /\ unborn' \in SUBSET Jobs
    <3>1. list \in Seq(JobRecords) /\ unborn \in SUBSET Jobs
      BY DEF TypeOK
    <3>2. AddJob => list' \in Seq(JobRecords) /\ unborn' \in SUBSET Jobs
      BY <3>1, ListTypes DEF AddJob
    <3> QED
      BY <1>11, <3>1, <3>2 DEF RequestAdd, RequestStop, EnsureRunning
  <2>3. daemon' \in {"up", "stopping", "down"}
    BY <1>11 DEF RequestAdd, RequestStop, EnsureRunning, TypeOK
  <2>4. UNCHANGED <<trigger, err, shown, enabled, owed, late, budget>>
    BY <1>11 DEF RequestAdd, RequestStop, EnsureRunning
  <2> QED
    BY <1>1, <2>1, <2>2, <2>3, <2>4 DEF TypeOK
<1>12. CASE Enable(h) \/ AskForRefresh(h)
  <2>1. click' \in [Handlers -> Goroutines]
    BY <1>0, <1>2, <1>12 DEF Enable, AskForRefresh
  <2>2. enabled' \in [Slots -> BOOLEAN] /\ trigger' \in BOOLEAN /\ owed' \in BOOLEAN
    BY <1>12 DEF Enable, AskForRefresh, Now, Sends, TypeOK
  <2>3. UNCHANGED <<daemonVars, refreshVars, job, err, shown, bar, late, budget>>
    BY <1>12, Zenon DEF Enable, AskForRefresh, slotVars
  <2> QED
    BY <2>1, <2>2, <2>3 DEF TypeOK
<1> QED
  BY <1>5, <1>6, <1>7, <1>8, <1>9, <1>10, <1>11, <1>12 DEF Handle

\* A click of the user.
LEMMA NewClickTypes ==
  ASSUME TypeOK, NEW h \in Handlers,
         \/ \E i \in Slots, a \in SlotActs : ClickSlot(h, i, a)
         \/ \E a \in MenuActs : ClickMenu(h, a)
  PROVE  TypeOK'
<1>1. click' \in [Handlers -> Goroutines]
  <2>1. ASSUME NEW i \in Slots, NEW a \in SlotActs, ClickSlot(h, i, a)
        PROVE  click' \in [Handlers -> Goroutines]
    <3> DEFINE t == shown[i].job.id
               d == [Free EXCEPT !.pc = "clicked", !.act = a, !.slot = i, !.aim = t,
                                 !.calm = (t = job[i].id)]
    <3>1. shown[i] \in Views
      BY DEF TypeOK
    <3>2. t \in Jobs \cup {"none"}
      BY <3>1, JobTypes
    <3>3. click' = [click EXCEPT ![h] = d]
      BY <2>1 DEF ClickSlot
    <3> HIDE DEF t
    <3>4. d \in Goroutines
      BY <3>2 DEF Goroutines, Free, Views
    <3> HIDE DEF d
    <3> QED
      BY <3>3, <3>4, ClickTypes
  <2>2. ASSUME NEW a \in MenuActs, ClickMenu(h, a) PROVE click' \in [Handlers -> Goroutines]
    <3> DEFINE d == [Free EXCEPT !.pc = IF a = "refresh" THEN "now" ELSE "request", !.act = a]
    <3>1. d \in Goroutines
      BY DEF Goroutines, Free, Views
    <3>2. click' = [click EXCEPT ![h] = d]
      BY <2>2 DEF ClickMenu
    <3> HIDE DEF d
    <3> QED
      BY <3>1, <3>2, ClickTypes
  <2> QED
    BY <2>1, <2>2
<1>2. UNCHANGED <<daemonVars, refreshVars, trigger, slotVars, bar, owed, late, budget>>
  BY Zenon DEF ClickSlot, ClickMenu
<1> QED
  BY <1>1, <1>2 DEF TypeOK, daemonVars, refreshVars, slotVars

\* Every variable keeps to the values the code can give it: TypeOK.
THEOREM TypeCorrect == Safe => []TypeOK
<1>1. Init => TypeOK
  <2> SUFFICES ASSUME Init PROVE TypeOK
    OBVIOUS
  <2>1. list \in Seq(JobRecords) /\ budget \in [changes : Nat, faults : Nat]
    <3>1. list \in Lists /\ budget \in Budgets
      BY DEF Init
    <3> QED
      BY <3>1, MenuAssumption DEF JobRecords, States
  <2>2. click \in [Handlers -> Goroutines]
    <3>1. [Free EXCEPT !.pc = "request", !.act = "startup"] \in Goroutines
      BY DEF Goroutines, Free, Views
    <3> QED
      BY <3>1, FreeTypes DEF Init
  <2>3. bar.daemon = "starting" /\ bar.more = 0
    BY DEF Init
  <2>4. fetched \in [ok : BOOLEAN, jobs : Seq(JobRecords)]
    BY DEF Init, Unreachable
  <2>5. err \in [Slots -> Errors] /\ shown \in [Slots -> Views] /\ fresh \in Views
    BY DEF Init, Errors, Views
  <2>6. /\ job \in [Slots -> JobRecords \cup {NoJob}]
        /\ enabled \in [Slots -> BOOLEAN]
        /\ unborn \in SUBSET Jobs
        /\ pending \in Seq(Slots)
        /\ late \in SUBSET Slots
    BY DEF Init
  <2>7. loop = "list" /\ daemon \in {"up", "down"} /\ trigger \in BOOLEAN /\ owed \in BOOLEAN
    <3>1. loop = "list" /\ trigger = owed
          /\ ((daemon = "down" /\ owed = FALSE) \/ (daemon = "up" /\ owed = TRUE))
      BY DEF Init
    <3> QED
      BY <3>1
  <2> QED
    BY <2>1, <2>2, <2>3, <2>4, <2>5, <2>6, <2>7 DEF TypeOK
<1>2. TypeOK /\ ShowInv /\ ShowInv' /\ [Next]_vars => TypeOK'
  <2> SUFFICES ASSUME TypeOK, ShowInv, ShowInv', [Next]_vars PROVE TypeOK'
    OBVIOUS
  <2>1. CASE UNCHANGED vars
    BY <2>1 DEF vars, daemonVars, refreshVars, slotVars, TypeOK
  <2> QED
    BY <2>1, RefreshTypes, EnvironmentTypes, HandlerTypes, NewClickTypes
       DEF Next, Environment, ShowInv
<1> QED
  BY <1>1, <1>2, ShowsKept, PTL DEF Safe
=============================================================================
