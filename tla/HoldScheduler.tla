--------------------------- MODULE HoldScheduler ---------------------------
(***************************************************************************)
(* The hold scheduler for one thread: a dog parks the ball with hold_ball  *)
(* and a click, a webhook, a timer or a shell command releases it.  The    *)
(* active hold sits in a map keyed by thread, under HoldScheduler.mu; the  *)
(* ledger is written after the mutex is released.                          *)
(*                                                                         *)
(* Tasks are the goroutines that can meet in the scheduler: clients (the   *)
(* orchestration that parks, and whoever wakes or cancels), the platform's *)
(* ticker, and the goroutine that runs the command of the i-th hold.       *)
(*                                                                         *)
(* Holds are numbered in the order they are registered.  The code has no   *)
(* such number: a task keeps the record it started from, and takes         *)
(* whatever record the map has.  Clocks: due[i] says whether hold i's      *)
(* FireAt, then its Deadline, has passed.  A task that has taken hold i    *)
(* keeps the number in took; ends counts how often each hold was ended:    *)
(* released, refused by the ledger, expired or cancelled.                  *)
(***************************************************************************)
EXTENDS Custody

CONSTANTS Client, Ticker,
          MaxHolds,    \* bound on the number of holds
          Asks,        \* the holds the dogs of this instance ask for
          Others       \* what the rest of the system appends to this ledger

Id == 1..MaxHolds
Task == Client \cup {Ticker} \cup Id

ASSUME MaxHoldsAssumption == MaxHolds \in Nat
ASSUME TasksAreDistinct == Client \cap Id = {} /\ Ticker \notin Client \cup Id
ASSUME OthersAssumption == Others \subseteq Event

VARIABLES hold,    \* the active hold of the thread, or NoHold
          made,    \* the number of holds registered
          due,     \* which of each hold's moments have passed
          task,    \* local state of the tasks
          ends     \* history: how often each hold was ended

schedulerVars == <<view, hold, made, due, task, ends>>

Kind == {"manual", "webhook", "command"}
Ask  == [id : {0}, holder : Breed, kind : Kind, timed : BOOLEAN]
ASSUME AsksAssumption == Asks \subseteq Ask

\* A "command" record has a command; without one it is only ever woken, like a webhook.
HoldRecord == [id : 0..MaxHolds, holder : Holder, kind : Kind \cup {"none"}, timed : BOOLEAN]
NoHold == [id |-> 0, holder |-> None, kind |-> "none", timed |-> FALSE]

Due  == {"waiting", "fire", "deadline"}
Dealing == {"release", "expire", "cancel"}      \* hold taken, ledger not written yet
TaskPC   == Dealing \cup {"idle", "declared", "registered", "tick", "command"}

At(pc, rec, took) == [pc |-> pc, rec |-> rec, took |-> took]
IdleTask == At("idle", NoHold, 0)

\* FireAt and Deadline exist for timed holds; a command hold has a deadline only.
HasFireAt(r)   == r.timed
HasDeadline(r) == r.timed \/ r.kind = "command"

Retire(t)   == task' = [task EXCEPT ![t] = IdleTask]
Ended(t)    == ends' = [ends EXCEPT ![task[t].took] = @ + 1]
-----------------------------------------------------------------------------
SchedulerInit ==
  /\ view = EmptyView
  /\ hold = NoHold
  /\ made = 0
  /\ due = [i \in Id |-> "waiting"]
  /\ task = [t \in Task |-> IdleTask]
  /\ ends = [i \in Id |-> 0]

\* Runs, heartbeats, dispositions and the zombie sweep append around the scheduler.
Other(e) ==
  /\ view' = Observe(view, e)
  /\ UNCHANGED <<hold, made, due, task, ends>>

\* At the end of a run the orchestrator writes ball.held itself before it calls Hold.
Declare(c, r) ==
  /\ task[c].pc = "idle"
  /\ view.started # None
  /\ view' = Observe(view, By("ball.held", r.holder))
  /\ task' = [task EXCEPT ![c] = At("declared", r, 0)]
  /\ UNCHANGED <<hold, made, due, ends>>

\* Hold refuses a second hold, and a timed one that does not say what it waits for; the
\* orchestrator ignores the error.
HoldRefused(c, grounded) ==
  /\ task[c].pc = "declared"
  /\ hold # NoHold \/ (task[c].rec.timed /\ ~grounded)
  /\ Retire(c)
  /\ UNCHANGED <<view, hold, made, due, ends>>

\* A bug to look for: a second hold replaces the first.
HoldReplaces(c, grounded) ==
  /\ task[c].pc = "declared"
  /\ made < MaxHolds
  /\ task[c].rec.timed => grounded
  /\ made' = made + 1
  /\ hold' = [task[c].rec EXCEPT !.id = made + 1]
  /\ task' = [task EXCEPT ![c] = At("registered", hold', 0)]
  /\ UNCHANGED <<view, due, ends>>

Hold(c, grounded) ==
  /\ task[c].pc = "declared"
  /\ made < MaxHolds
  /\ hold = NoHold /\ (task[c].rec.timed => grounded)
  /\ made' = made + 1
  /\ hold' = [task[c].rec EXCEPT !.id = made + 1]
  /\ task' = [task EXCEPT ![c] = At("registered", hold', 0)]
  /\ UNCHANGED <<view, due, ends>>

\* ... then appends ball.held again and starts the command goroutine.
HoldRecorded(c) ==
  /\ task[c].pc = "registered"
  /\ view' = Observe(view, By("ball.held", task[c].rec.holder))
  /\ task' = [task EXCEPT ![c] = IdleTask,
                ![task[c].rec.id] =
                   IF task[c].rec.kind = "command" THEN At("command", task[c].rec, 0)
                   ELSE @]
  /\ UNCHANGED <<hold, made, due, ends>>

\* A matching click, webhook or external signal: Wake takes the hold.
Wake(c, kind) ==
  /\ task[c].pc = "idle"
  /\ hold # NoHold /\ hold.kind = kind
  /\ task' = [task EXCEPT ![c] = At("release", hold, hold.id)]
  /\ hold' = NoHold
  /\ UNCHANGED <<view, made, due, ends>>

Cancel(c) ==
  /\ task[c].pc = "idle"
  /\ hold # NoHold
  /\ task' = [task EXCEPT ![c] = At("cancel", hold, hold.id)]
  /\ hold' = NoHold
  /\ UNCHANGED <<view, made, due, ends>>

\* A bug to look for: acting on the record the task started from, whatever the map has.
TakeUnchecked(t, pc) ==
  /\ hold' = IF hold = task[t].rec THEN NoHold ELSE hold
  /\ task' = [task EXCEPT ![t] = At(pc, task[t].rec, task[t].rec.id)]

\* autoWake and expire up to the ledger: whatever hold the map has now is the one taken,
\* with the holder the task came with.  (autoWake's ball.wake_sent is an audit entry: it
\* leaves the view alone, and CustodyLog checks that it does.)
Take(t, pc) ==
  \/ /\ hold = NoHold
     /\ Retire(t)
     /\ UNCHANGED hold
  \/ /\ hold # NoHold
     /\ task' = [task EXCEPT ![t] = At(pc, task[t].rec, hold.id)]
     /\ hold' = NoHold

\* Tick copies the records out of the map ...
TickSnapshot ==
  /\ task[Ticker].pc = "idle"
  /\ hold # NoHold
  /\ task' = [task EXCEPT ![Ticker] = At("tick", hold, 0)]
  /\ UNCHANGED <<view, hold, made, due, ends>>

\* A bug to look for: Tick forgets the deadlines.
TickActNoDeadline ==
  /\ task[Ticker].pc = "tick"
  /\ IF task[Ticker].rec.timed /\ due[task[Ticker].rec.id] # "waiting" THEN Take(Ticker, "release")
     ELSE Retire(Ticker) /\ UNCHANGED hold
  /\ UNCHANGED <<view, made, due, ends>>

\* ... and looks at them later.  Dispositioned is read without the mutex: once somebody
\* has taken the hold, Tick may see that or not.
TickAct ==
  /\ task[Ticker].pc = "tick"
  /\ LET r == task[Ticker].rec
     IN  \/ /\ due[r.id] = "deadline"
            /\ Take(Ticker, "expire")
         \/ /\ due[r.id] = "fire"
            /\ Take(Ticker, "release")
         \/ /\ due[r.id] = "waiting" \/ hold.id # r.id
            /\ Retire(Ticker)
            /\ UNCHANGED hold
  /\ UNCHANGED <<view, made, due, ends>>

\* The command of hold i ends, whatever its exit status, or is cut off after
\* commandWakeTimeout; one that cannot be spawned expires its hold the same way.
CommandEnds(i, cutOff) ==
  /\ task[i].pc = "command"
  /\ Take(i, IF cutOff THEN "expire" ELSE "release")
  /\ UNCHANGED <<view, made, due, ends>>

\* TryHoldDispositioned, one step here (see BallLedger): the ledger takes the disposition
\* or refuses it, and on success the holder is run again.
Release(t) ==
  /\ task[t].pc = "release"
  /\ \/ /\ HoldGuard(view, task[t].rec.holder)
        /\ view' = Observe(Observe(view, By("wake_condition_met", task[t].rec.holder)),
                           By("hold_dispositioned", task[t].rec.holder))
     \/ /\ ~HoldGuard(view, task[t].rec.holder)
        /\ UNCHANGED view
  /\ Ended(t)
  /\ Retire(t)
  /\ UNCHANGED <<hold, made, due>>

Expire(t) ==
  /\ task[t].pc = "expire"
  /\ view' = Observe(view, By("ball.hold_expired", task[t].rec.holder))
  /\ Ended(t)
  /\ Retire(t)
  /\ UNCHANGED <<hold, made, due>>

Cancelled(t) ==
  /\ task[t].pc = "cancel"
  /\ view' = Observe(view, By("ball.void_pass", task[t].rec.holder))
  /\ Ended(t)
  /\ Retire(t)
  /\ UNCHANGED <<hold, made, due>>

\* Time passes for the active hold.
Pass ==
  /\ hold # NoHold
  /\ \/ /\ HasFireAt(hold) /\ due[hold.id] = "waiting"
        /\ due' = [due EXCEPT ![hold.id] = "fire"]
     \/ /\ HasDeadline(hold) /\ due[hold.id] = IF HasFireAt(hold) THEN "fire" ELSE "waiting"
        /\ due' = [due EXCEPT ![hold.id] = "deadline"]
  /\ UNCHANGED <<view, hold, made, task, ends>>

SchedulerNext ==
  \/ \E e \in Others : Other(e)
  \/ \E c \in Client :
       \/ \E r \in Asks : Declare(c, r)
       \/ \E grounded \in BOOLEAN : Hold(c, grounded) \/ HoldRefused(c, grounded)
       \/ HoldRecorded(c) \/ Cancel(c)
       \/ \E kind \in Kind : Wake(c, kind)
  \/ TickSnapshot \/ TickAct
  \/ \E i \in Id, cutOff \in BOOLEAN : CommandEnds(i, cutOff)
  \/ \E t \in Task : Release(t) \/ Expire(t) \/ Cancelled(t)
  \/ Pass

SchedulerSpec == SchedulerInit /\ [][SchedulerNext]_schedulerVars

\* The ticker lives as long as the process, and goroutines that hold nothing back run on.
\* Nothing is assumed of the commands: a child of theirs may keep the pipe open.
FairSchedulerSpec ==
  /\ SchedulerSpec
  /\ WF_schedulerVars(TickSnapshot) /\ WF_schedulerVars(TickAct) /\ WF_schedulerVars(Pass)
  /\ WF_schedulerVars(Release(Ticker)) /\ WF_schedulerVars(Expire(Ticker))
-----------------------------------------------------------------------------
Local == [pc : TaskPC, rec : HoldRecord, took : 0..MaxHolds]

\* The numbers a task keeps are those of holds among the first n.
Numbered(l, n) == /\ l.rec.id <= n
                  /\ l.pc \in Dealing => l.took \in 1..n
                  /\ l.pc \in {"registered", "tick"} => l.rec.id # 0

\* Types; tasks look at, and end, only holds that were made.
SchedulerTypeOK ==
  /\ view \in View
  /\ hold \in HoldRecord /\ (hold.id = 0 <=> hold = NoHold) /\ hold.id <= made
  /\ made \in 0..MaxHolds
  /\ due \in [Id -> Due]
  /\ task \in [Task -> Local] /\ \A t \in Task : Numbered(task[t], made)
  /\ ends \in [Id -> Nat]

Taking(t, i) == task[t].pc \in Dealing /\ task[t].took = i

\* "The guard makes a double-call harmless": however clicks, webhooks, ticks, commands and
\* cancels race for a hold, it is in the map, in one task's hands, or ended once.
EndsOnce ==
  \A i \in Id :
    /\ ends[i] <= 1
    /\ hold.id = i => ends[i] = 0
    /\ \A t \in Task : Taking(t, i) => hold.id # i /\ ends[i] = 0
    /\ \A t, u \in Task : Taking(t, i) /\ Taking(u, i) => t = u

\* Where a hold is: a hold that was made and is nowhere would be lost.
Phase(i) ==
  IF i > made THEN "unmade"
  ELSE IF hold.id = i THEN "active"
  ELSE IF \E t \in Task : Taking(t, i) THEN "taken"
  ELSE IF ends[i] # 0 THEN "ended"
  ELSE "lost"

Life == INSTANCE HoldLife WITH Holds <- Id, phase <- [i \in Id |-> Phase(i)]

\* One hold at a time, and each goes the same way: registered, taken by one, ended.  None
\* comes back, is replaced or dropped, whatever clients, ticker and commands do meanwhile.
ImplementsHoldLife == Life!LifeSpec

\* A hold with a timer or a command does not stay active for ever, whatever becomes of
\* the command and however often the ticker meets it too early.
AutoHoldEnds ==
  \A i \in Id : (hold.id = i /\ (HasFireAt(hold) \/ HasDeadline(hold))) ~> hold.id # i

\* A hold is released when its own wake condition is satisfied, not by the timer or the
\* command of an earlier hold of the thread.
\* It does not hold: README, "Disagreements".
OwnCondition == \A t \in Task : task[t].pc = "release" => task[t].took = task[t].rec.id
=============================================================================
