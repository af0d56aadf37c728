# Verification of sounds-great-ai

sounds-great-ai runs several coding agents ("dogs", each a breed driven by a command-line
client) in one conversation thread and passes the work ("the ball") between them. This
directory models the part that decides who holds the ball, who may pass it on, who runs
next and when a chain of runs ends; the processes the dogs run in; and what the platform
writes down because of them: memories of people, reviews, and the dogs' dossier. TLC checks
the models on small instances; TLAPS proves the main invariants for every instance.

- [Inventory](#inventory): the system's parts and what makes each correct
- [Plan](#plan): what exists, and what is still to come
- [Modules](#modules): how each corresponds to the code
- [Runs](#runs): what each shows, bounds
- [Fairness](#fairness)
- [Proofs](#proofs)
- [Findings](#findings) and [Disagreements](#disagreements)
- [What is not modelled](#what-is-not-modelled)

Paths are relative to the repository. `custody/` stands for
`src/internal/domains/custody/services/`, `transport/` for `src/internal/transport/`,
`unified/` for `src/internal/adapter/unified/`, `settings/` for `src/internal/settings/`,
`dossier/` for `src/internal/dossier/`; `warm.go` is `src/internal/adapter/pool/warm.go`.

## Inventory

### Custody and orchestration

**Custody ledger** (`custody/ball_ledger.go`, `ball_ledger_guard.go`, `projector.go`).
State: one append-only log of events for each thread, and a mutex. Operations: about
twenty `Record*` methods that append one event; `TryDispatchDispositioned` and
`TryHoldDispositioned`, which read, judge, append and read again under the mutex;
`Project`, a fold of the log into a snapshot (state, holder, generation);
`ReconcileZombies`, which reads every thread and closes the invocations nobody beats for.
Hard: the records do not take the mutex, so they land between a judgement and its commit;
the sweep writes on a stale read; guards compare with the *last* start and the *last*
handoff of a log that everything else is mixed into. Correct when: a disposition commits
only for the dog that has the ball and at most once per turn; a parked ball is released at
most once per park; the guards never refuse the dog that has the ball because of entries
that are about itself; what dangles is closed, and what does not dangle is not.

**Hold scheduler** (`custody/hold_scheduler.go`). State: a map from thread to the active
hold, under a mutex. Operations: `Hold`, `Wake` (click, webhook), `Cancel`, `Tick` (timers
and deadlines, from the reconciler's goroutine), `runCommandWake` (a goroutine per shell
command). Calls the ledger after the mutex is released, and the transport's `OnWake`. Hard:
five actors race for one map entry; holds are found by thread, not by identity; `Tick`
works on pointers it copied out before. Correct when: a hold ends once; it ends on its own
condition; a timed hold does end; a parked ball always has a hold that can release it.

**Routing worklist** (`src/internal/domains/routing/services/worklist_registry.go`). State:
for each invocation a depth, a streak of handoffs between one pair, a list of targets and
who brought them in, and the executed ones. Operations: `Register`, `Push`,
`PushToWorklist`, `List`, `A2AFrom`, `Done`, all under locks. Hard: it is the only thing
that ends a chain of dogs that answer each other; calls come from every level of a
recursion and after the end of it. Correct when: ping-pong and depth are cut off, once and
for all calls of an invocation; attribution is never rewritten.

**Orchestration loop** (`transport/execution.go`, `ws_handler.go`,
`src/internal/platform/platform.go` `StartReconciler`). State: the goroutines and their call
stacks, the streamer of each thread, the slots. Operations: a message starts a goroutine that
runs a dog (`executeWithPlatform`), reads its answer, hands off (`handleA2AHandoff`, a
recursion) or walks a pipeline (`executeSerial`); a released hold starts another
(`ResumeHeldThread`); heartbeats of every level of a stack; connections that come and go,
each of which may speak for several threads in turn. It drives the three parts above. Hard:
nothing is undone when a later gate refuses; two chains share the ledger and the thread's
streamer, which can outlive its connection; heartbeats of the callers continue. Correct when:
a relay of dogs runs within its budget and ends; a thread is never left active with nobody
running; a parked ball stays parked; a stopped chain stays stopped.

**A2A hub** (`src/internal/a2a/hub.go`). State: an unlocked map of hub threads. Called by
the handoff from every goroutine.

### The dogs' processes

**Warm process pool** (`warm.go`). State: processes by (project, provider), each with a
lease count and flags behind its own mutex. Operations: `Acquire` (retire, reuse, take a
stale lease by force, evict, spawn), `Release`, the background loop; `waitAndMark` sets
flags without the pool's mutex. Hard: a process dies at any point; a busy entry is
overwritten by a cold start; a late release meets another lease. Correct when: a
single-flight process serves one turn; each turn gives back what it took.

**CLI adapters** (`unified/`). State: the health of each transport of a provider. Operations:
`RunCarrierFallback` tries a transport and makes one hop to the next healthy one; a warm
transport takes its process from the pool and gives it back when the turn's last line is
read. Hard: health is read, the call takes minutes, and its failure is recorded on what the
health is by then. Correct when: each path gives back its lease; a call ends.

### What is written down

**People memory** (`settings/people_memory*.go`). State: for an operator the people, claims
with a status, events, relationships, proposed candidates with their drafts' verdicts, and
receipts of decisions; two stores (a file, Redis). Operations: propose, approve some drafts,
reject, shelve, undo, correct, retire, redact, amend, forget a person. Hard: every request
is legal in every state, in any order; an approval can fail half way; an undo comes after
anything. Correct when: what ended does not come back; nothing of a forgotten person is
left or returns; what counts as approved was made and is there; a resolved candidate hides no
draft that waits for a decision.

**Deferred receipts and the daily clerk** (`settings/people_memory_recall.go`, `_auth.go`,
`_redis*.go`). State: receipts (claimed, withdrawn) and the list of the ready ones.
Operations: defer, claim, withdraw, forget; once a day the clerk reserves each ready
receipt, asks a dog for minutes, and proposes, releases, or claims it itself. Hard: all of
that interleaves, and the Redis store does it in several commands. Correct when: a receipt
becomes one candidate or none; none is stuck; none waits for ever.

**Dossier** (`dossier/`). State: proposals in a database, the dossier file, git's index and
history, a cache the prompts are built from. Operations: propose, approve, reject, and
`ExecuteApply`: check the hash, write, add, commit, mark, invalidate, or roll back. Hard: no
lock over any of it. Correct when: only approved text gets in; applied text stays; the
cache is not stale.

**SOP guardian, review leases, checkpoint**
(`src/internal/domains/sop/services/sop_guardian.go`, `src/internal/sop/review.go`,
`dossier/checkpoint.go`). State: a lease and a review cycle for each pair of dogs, the
distillation opportunities. Operations: a handoff issues a lease or returns a verdict, and a
verdict creates an opportunity in the handoff's own goroutine. Hard: leases cross threads
and chains and never end. Correct when: a verdict was asked for; each source is recorded
once, and is recorded.

### The rest

| part | state and operations | hard behaviour | correct when |
|---|---|---|---|
| invocation queue (`src/internal/dispatch`) | queued items by thread and priority, slots | starvation, two callers executing one item | each item runs once; none waits for ever |
| managed jobs (`src/internal/jobs`) | job ledger, callbacks, delivery attempts | restart between run and delivery | a finished job is delivered; none runs twice |
| approvals (`src/internal/domains/approval`, `src/internal/aspect`) | pending items | decision against timeout, double decision | one decision per item |
| SOP gates, QC loop (`src/internal/sop`) | a state per quality loop | rounds and retries | merge only after the gates |
| memory lanes (`src/internal/memory`) | typed entries with a lifecycle | supersession order | only live entries are recalled |
| cue plane (`src/internal/cue`) | cues and a consumption ledger | a cue consumed twice | consumed once per session |
| threads, settings, skills, hooks, prompt, policy, eval, scheduler, auth, MCP, plugins, connectors, telemetry | stores with a lock per call, or pure functions | little | |
| process supervisor, command-line tools, web client | the operating system, I/O | | |

`PROJECT.json` lists every component with its sources and its status, and the hazards with
the line at which each bites.

## Plan

Done, most important behaviour first:

1. `Custody`: the projection and the guards as pure operators. `CustodyLog`: the log itself
   and the sweep, which justifies that the others keep only a *view* of the log. Proved.
2. `BallLedger`: the critical section of the dispositions. Proved.
3. `HoldScheduler`: holds and their race, which implements `HoldLife`. Proved.
4. `Worklist`: the budgets. Proved.
5. `Orchestration`: the composition of all four. Its types, its budget, its breaker, its
   slots and that each step of a chain counts proved.
6. `WarmPool`, `Health` and, composing them, `Carrier`, which implements `Lease`. Proved.
7. `PeopleMemory`; `Receipts`, which implements `Inbox`. Both proved.
8. `Dossier`. Proved.
9. `Review`: the guardian and the checkpoint. Proved.

To come:

10. `Approval`: a command waits for a verdict of the operator or its timeout
    (`aspect/approval.go`), and the two may race.
11. `HoldMarker`, the chunk-wise filter as an operator against its definition on whole texts.
12. An abstract ball (one holder, passed by its holder only) as a specification that
    `BallLedger` is related to, for as far as the disagreements leave it true.

## Modules

**`Custody`** declares the one variable that the modules about custody share, the projected
ledger `view`, and has no steps of its own. `StateAfter` and `HolderAfter` are the two halves
of the fold in `projector.go`; `Observe` advances a *view* by one event: the snapshot plus
the three facts the guards scan the log for (the last start's dog, the last handoff's
receiver, whether an invocation is in flight). `DispatchGuard` and `HoldGuard` are the
conjunctions judged by `tryCommitDispatch` and `tryCommitHold`. Reasons, correlation and
invocation identifiers are payload: an invocation is told apart by its dog only, which is
what `assertLatestInvocation` does too.

**`CustodyLog`** is the log of one thread with ages, and the sweep in its two steps
(`SweepRead`, `SweepWrite`), since `ReconcileZombies` has no lock around the two. It checks
that the incrementally kept view is what a scan of the log finds.

**`BallLedger`** is one thread's ledger under concurrent callers. A `Try*` method is a
sequence of steps with the mutex held (`TryDispatch`, `CommitDispatch`, `Unlock`; `TryHold`,
`ConditionMet`, `CommitHold`, `Unlock`); a record is one step without it; `RecordHanded` is
two, because it numbers the handoff from a read of its own. `given`, `passed`, `parks` and
`woken` are histories.

**`HoldScheduler`** has the map entry of one thread (`hold`), the clocks of each hold
(`due`), and one program counter per goroutine (`task`): clients, the ticker, and the
goroutine of each command. Whoever takes a hold out of the map has a step of its own to the
ledger (`Release`, `Expire`, `Cancelled`). `Dispositioned` has no variable: it is set
exactly when the record leaves the map. `Tick` reads it without the mutex, so `TickAct` may
or may not see it. The rest of the system appends events of `Others` at any time.
**`HoldLife`** is what that amounts to from outside: a hold is registered while none is
active, then taken, then ended.

**`Worklist`** has one record for each invocation and one action for each method. Each
method is one step: the lookup is under another lock than the work, but a released worklist
is never found again.

**`Orchestration`** composes them for one thread. A *chain* is a goroutine: a message's or a
resumption's. Its stack has a frame for each active call of `executeWithPlatform` (with the
mentions it still has to follow), of `executeSerial` or of `executeParallel` (with the dogs
still to run, or still running). A frame's program counter names the place between two
effects: `enter`, `hand`, `start`, `exec`, `run`, `held`, `mentions`, `push`, `gate`,
`serial` for a pipeline and `parallel` for dogs that run at once, which leave no trace in the
ledger and keep their slot until the last is done. A frame in `Beating` has a heartbeat
goroutine. A message asks for one dog, or for up to `MaxTargets` of them; `asked` is a
history of how many. `bound` is the connection whose streamer the thread has. A connection
that ends takes away the streamer of the thread it named last, and which one that is lies
outside a model of one thread: `Disconnect` takes this thread's or takes nothing from it
(then no step), so a streamer may outlive its connection. `Dispatch` is the guarded
disposition in one step (BallLedger has its steps), the worklist operators come from
`Worklist`, the hold is the scheduler's one manual hold. What a dog answers (which dogs it
mentions, whether it holds) is free, and so are the verdict of the review gate and whether a
handoff is substantive.

**`WarmPool`** is the pool: `entries` is its map, `proc` the processes with their flags and
lease counts. Each method of the pool is one step under `WarmPool.mu`; `waitAndMark` flags a
dead process without it, so `AcquireWarm` may hand out one that is flagged between the look
and the lease. Whether the working directory is there is free at each call, and any idle
process may be the oldest one. An identity that is dead, forgotten and held by nobody stands
for a process to come. `mode` is the configuration: multiplexing, a lease limit, a transport
built for several providers.

**`Health`** is the entry of a transport in the health store: a cooldown that runs down by
ticks and a count of strikes, with `Failed` and `AsRead` as the store's two methods.

**`Carrier`** composes the two. A *turn* is the goroutine of one call and, after that, the
goroutine of `releaseOnExit`. It is at `acquire` (the pool is asked), `run` (the prompt is
written), `running`, `ended` (the lease is still out), or on the second transport at `tier`
and `streaming`, and at `failed` between a failure and its record. A failure on the stream that
is marked fatal is recorded whatever its class (`YieldError`). **`Lease`** says what the
pool promises: a process is lent when it serves nobody and given back by the one who has it.

**`PeopleMemory`** is one operator's document. Each operation is one step, for the store
has one mutex. Claims and events are one table (`items`), an event being an item without a
key; a candidate has a verdict for each draft; `decisions` are the receipts an undo starts
from. What a dog or a client offers is a member of `Offers`: its drafts, the verdicts the
caller has set on them already (`Propose` fills the empty ones only), whom it is about, and
whether it comes with a person to create, named or not. `of` is a history: the draft an item
was made of.

**`Receipts`** has both stores, chosen in the initial state. In the file store an operation
is one step. In the Redis store `Reserve`/`ReserveWrite`, `Release`/`ReleaseWrite`/`Requeue`,
`Claim`/`ClaimStored` and the three steps of a purge are apart, as their commands are; the
Lua scripts are single steps. `Ghost` is the hash that a late `HSET` makes anew, without the
identifier. The clerk's places are `reserve`, `write`, `ask`, `release`, `clear`, `reopen`,
`requeue`, `fallback` and `store`. **`Inbox`** says what becomes of a receipt: it is open,
then taken (one candidate) or dropped, and that is final.

**`Dossier`** has a text for the file, the index, the history and the cache, each the set of
drafts in it (which stands for its hash as well). A request is at `read`, `write`, `add`,
`commit`, `sha`, `mark` or `invalidate`, and on the way back at `restore` and `reset`. The
loader reads in one step and stores in another. A `git reset` that fails is ignored by the
code: `Reset` may leave the text in the index. `overlapped` is a history: two of the
operations were under way at once.

**`Review`** has the guardian's tables (`assignments` of a pair, `authorAssign` of an author,
`cycles`) and, for each chain, its place in the checkpoint hook: `look`, `slot`, `again`,
`create`, `free`. `provenance` and `made` are histories.

MC modules give sets of events, asks and symmetries; they define nothing else. Definitions
whose comment says "a bug to look for" are not part of any specification: they are plausible
mistakes, and substituting each for the definition it imitates breaks the property that is
meant to catch it (`PROJECT.json`, "mutants").

## Runs

| run | shows | bounds |
|---|---|---|
| `CustodyLog` | the view is the scan; a dog's own entries never cost it its disposition; the sweep closes what dangles and adds at most three entries in a row | 2 dogs, 3 entries of the program between the sweep's; ages up to one past the largest threshold |
| `BallLedger` | one pass per turn, one wake per park | 2 callers, 2 dogs, 5 appends |
| `HoldScheduler` | each hold is ended once; the scheduler implements `HoldLife`; timed and command holds end | 2 clients, ticker, commands; 2 holds; 2 dogs |
| `Worklist` | ping-pong, budget, cap, attribution | 3 dogs, 1 invocation, ceiling 6, cap 2 |
| `Orchestration` | a relay stays in budget, a pipeline runs what was asked for; a tripped breaker ends it | 1 chain, 3 dogs; pipelines and fan-outs of up to 3, 2 mentions an answer; SOP depth 4 (ceiling 4) or 1 (every handoff escalates) |
| `OrchestrationLive` | every chain ends, each of its steps leaves it less to do, and messages give their worklists back | 2 chains, 2 dogs, fan-outs of 2, ceiling scaled to 2 |
| `OrchestrationHang` | a violation, see [Findings](#findings) | 1 chain, 2 dogs |
| `Carrier` | one turn for each process; leases are holders; the pool implements `Lease`; every call ends | 2 keys, 2 processes, 2 turns, room for 1; 3 configurations; cooldowns of 1 tick, 1 strike, 2 classes of failure |
| `PeopleMemory` | what ended stays ended; the forgotten are gone; what counts as approved is there; decisions keep what they refer to | 1 candidate at a time, 6 offers (two with a verdict already set, one with a person without a name), 2 keys, 2 people, 3 items, 2 decisions |
| `Receipts` | nothing is stuck; the file store implements `Inbox`; no receipt of the Redis store starves | 2 receipts, one about a person who may be forgotten; batch 1; both stores; 1 crash |
| `Dossier` | only approved text; applied text stays; a rollback leaves what it began with; the cache is fresh | 2 proposals, 2 requests, 1 crash |
| `Review` | verdicts were asked; one record for each source, and one for every verdict | 3 dogs, 2 threads, 2 chains |

Why they are enough. Two actors of each kind are what a race for one lock, map entry, process
or ledger needs; each caller can be used again, so a late step of one meets several of the
other. Five appends allow a pass, its return and a second pass with a stale one in between.
Two holds are what it takes for a task of the first to meet the second. Three dogs let a
handoff be superseded by a third, let a pair change in the streak, let a pipeline have a dog
that is neither first nor last, and let one author ask two reviewers; a ceiling of 6 lets the
streak of 4 trip before and after a change of pair. `worklistMaxDepth` never gives less than
4: `OrchestrationLive` lowers `Fallback`, the ceiling under a low SOP depth (8), so that two
recursions fit, and the other two runs use the code's own. Two slots for two chains never
make a message wait; one that waits is a chain that has not begun. Two keys and room for one
process force evictions, two processes let an overwritten one live on beside its successor.
One identifier of a candidate is used again after a resolution, and two people let it be
proposed about another; three items are a claim, its successor and an event. A batch of one
with two receipts makes one wait for the other. A crash can hit between any two steps, and
one is enough to lose every actor. The proofs below have no bounds.

Deadlock is checked for `HoldScheduler`, `Worklist`, `PeopleMemory` and `Review`. The other
models can stop for good: their appends, chains or receipts are used up, or a panic has
ended the server.

## Fairness

- `CustodyLog!FairLogSpec`: weak fairness of the sweep's two steps and of time. The reconciler
  is a ticker loop for the life of the process (`platform.go:772-789`). Nothing is assumed
  of the dogs.
- `HoldScheduler!FairSchedulerSpec`: weak fairness of the ticker's steps, of time while a
  hold is active, and of the ticker's own ledger writes. None for commands: a child that
  keeps the pipe open is exactly why `io.Copy` may never return, and `AutoHoldEnds` holds
  regardless, through the deadline. None for clients.
- `Orchestration!FairSpec`: weak fairness of each chain's next step and of the sweep. The
  former includes that a dog's process ends, which the code does not enforce: its liveness
  probe only warns (`unified/probe.go:84-135`). `ChainTerminates` is about the recursion,
  not about a hung process. Heartbeats, messages, wake-ups and connections have no fairness.
- `Carrier!FairSpec`: weak fairness of each call's next step while the server runs. It
  includes that a CLI answers, fails or ends, which neither the runner nor the transport
  enforces. Nothing is assumed of the reaper, of the clock, or of who calls: `EveryCallEnds`
  is about the hop, the leases and the processes that die on the way.
- `Receipts!FairSpec`: weak fairness of the clerk (its timer fires daily and its calls
  return) and of a purge that has begun. Nothing is assumed of the owner or of what the dog
  says: a dog that defers every day is the case `EveryReceiptIsOffered` is about.
- `Review!FairSpec`: weak fairness of each chain's hook, which is a sequence of calls
  without a wait in the handoff's own goroutine.

## Proofs

Each component's proofs are in a module of their own, those about custody in one. All of
them are for arbitrary sets and bounds; the assumptions are the named `ASSUME`s next to the
constants (sizes are natural numbers, `None` is not a dog, task sets are disjoint, the
fallback ceiling is not zero). A theorem that assumes more says so below.

**`Custody_proofs`** begins with what it needs of `Custody`: what `Observe` returns is a
view; only a handoff, a start or an event that names a holder changes the holder.

*The log.* Nothing about the log is shown by induction over the log: the view is a variable,
so that it agrees with the log is an invariant.
- `LogTypeCorrect`: `LogTypeOK`.
- `FoldIsScan`: `ViewIsScan`. `ViewIsScan` picks entries by `CHOOSE`; the invariant has the
  same facts with a witness (`StartIsScanned`, `HandoffIsScanned`): there is a last start
  that the view agrees with, or none and the view says so. An entry either becomes the last
  of its kind or leaves it the last.
- `NotRefused`: `HolderIsNotRefused`. The entry after a handoff makes the receiver the latest
  start, and later ones that name nobody else keep the three facts of the guard.
- `SweepSparse`: `SweepIsSparse`. A count of entries is not inductive by itself. `Room` is
  how many more entries the sweep may write on the view as it is (an idle mark, a degraded,
  a died, and no way back), and `TailIsShort` says that those it has just written and its
  room make at most three. A verdict that is stale is written after somebody else's entry
  (`VerdictIsFresh`).

*The ledger.*
- `LedgerTypeCorrect`: `LedgerTypeOK`, the types (no run checks them).
- `ExactlyOneDisposition`: `PassedOncePerTurn`. Not inductive: another caller could commit
  for the same dog. The strengthening says that only the caller that has the mutex is inside
  a `Try*` method, hence that at most one disposition is judged and not committed, so a
  commit uses up the one turn that `Passing` counts.
- `ExactlyOneWake`: `WokenOncePerPark`, in the same way; a ball that ceases to be parked
  between judgement and commit leaves its turn with the caller.

*The scheduler.*
- `SchedulerTypeCorrect`: `SchedulerTypeOK`, which includes that a task never looks at a hold
  that was not made (no run checks it).
- `ExactlyOneEnd`: `EndsOnce`. It is inductive together with the types and the fact that
  holds not made yet have no history: a hold is in the map, in the hands of one task, or
  ended, and each step moves it forward.
- `ImplementsLife`: `ImplementsHoldLife`. The refinement mapping (`Phase`) tells where a hold
  is, and has a fifth value, "lost", that no step of `HoldLife` leads to. A hold would be lost
  if starting a command overwrote a task that has one in its hands, so the proof needs that
  the goroutine `HoldRecorded` starts is a new one (`NewCommand`): a hold is reported once,
  and its command has not run before. Then every action is one of four cases: nothing
  moves, the next number is registered, the active hold is taken, a taken one is ended.
- `NoHoldIsLost`: the type invariant of `HoldLife` under that mapping, hence never "lost".

**`Orchestration_proofs`**
- `TypeCorrect`: `TypeOK`, the types of the variables and the shape of the stacks, which no
  run checks: the other theorems rest on it. A call that follows its mentions, pushes or is
  at the gate is one for a dog, and the mention in hand there names another (`GoodCall`):
  without it the ledger's events and the worklist's pairs would not be typed.
- `Budgeted`: `RunsAreBudgeted`, for any number of chains. The bound is not inductive: it
  does not say who has paid for a call that is about to enter. The invariant (`Budget`) gives
  each chain its shape. In a relay of dogs, the runs entered and the one that the current
  call is about to enter are at most one more than the depth of the worklist, which an
  accepted handoff raises before its call; every call that was entered has a live worklist
  (so that a handoff never finds a new one, with another ceiling), and a live one has the
  configured ceiling. The depth limits relays only: a pipeline or a parallel message may ask
  for more dogs than that (see [Disagreements](#disagreements)). What is shown of it is that
  it runs no dog it was not asked for: the dogs run and the dogs left in its frame are at most
  those asked for, and its dogs pass nothing on.
- `EveryStepCounts`: `StepsCount`, the argument for `ChainTerminates` that needs no
  fairness. `Remaining` is what a chain has left, as seven numbers in lexicographic order:
  whether it waits for its slot, the dogs left in its pipeline, the handoffs left under its
  ceiling, its calls, how far the current one is, its mentions, and whether the first of
  them was put to the ledger. Every step of the chain's own lowers it, a handoff because it
  raises the depth of the worklist before it adds a call, and no other chain, heartbeat,
  sweep or message changes it. The proof rests on `Budget`: without it a handoff could find
  a fresh worklist, and the ceiling would not be the one the measure counts from.
- `MeasureIsNatural`: the seven are natural numbers in every reachable state, so the order
  is well-founded. The step from the two to `ChainTerminates` is induction over that order
  and the fairness of `Proceed`; it stays with TLC.
- `MessagesGiveBack`: the worklists that messages have registered are never more than the bark
  slots, whatever path a chain ends on (`RegistryIsBounded`, run `OrchestrationLive`). The
  invariant is that a message
  has a list only while it has a slot (`ListsNeedSlots`) and that the slots are limited
  (`SlotsAreLimited`). It says of which chains the registry's growth comes: the resumed ones
  only (see [Disagreements](#disagreements)).
- `StoppedForGood`: `BreakerStops`, *assuming that the thread has one chain*; with two it is
  false (see [Disagreements](#disagreements)). The invariant (`Alone`) says what the ledger
  looks like while a stopped chain unwinds (`Stopped`): the ball is blocked, parked or void,
  so no heartbeat is heard, and it is with a dog that is not the latest run, so the guard
  refuses every dog. That the dog at `push` is the latest run follows from the guard and from
  the fact that whoever has mentions to follow has started; the sweep is silent while calls
  up the stack beat.

**`Worklist_proofs`**
- `TypeCorrect`: `TypeOK` with attribution (every target has one, nothing else has).
- `PingPongBroken`: `NoPingPong`. The strengthening relates the streak to the history: if
  the streak is n, the last n - 1 handoffs were small talk of the current pair and the one
  before them was of that pair, and the streak is below the threshold.
- `OneBudget`: `DepthIsOneBudget`; depth is the length of the history and at most the
  ceiling.
- `Attribution`: `AttributionStands`, from the first.

- `FanoutCapped`: `ExpansionIsCapped`, by the cardinalities: a list is finite, an expansion
  is refused at the cap, and what the chain reaches by itself counts as executed.

No run checks `DepthIsOneBudget`.

**`Carrier_proofs`**. The invariant is the types, `HasProcess` (a call that has a lease has
a process), `LeasesAreHolders` and `OneTurnPerProcess`. Every step is one of three: the pool
as the turns see it is the `Same`, a process is lent (`Lends`), or one comes back
(`Returns`); the three lemmas about these are what each action is reduced to.
- `TypeCorrect`: `TypeOK`.
- `LeasesCounted`: `LeasesAreHolders`. A count changes only with the set of holders, and a
  process that dies is counted no more.
- `OneTurn`: `OneTurnPerProcess`. A process without leases has no holders by the count, so a
  warm hit lends one that serves nobody; a cold start takes an identity nobody holds.
- `Implements`: `ImplementsLease`, from the three kinds of steps.

**`Receipts_proofs`**. The invariant is `Shape` (the types the argument needs),
`ClaimedIsThere`, `NothingIsStuck`, and `FileIsOrderly`: in the file store a claimed receipt
is a candidate once, or the clerk's own and none yet; one not claimed is none.
- `NothingStuck`: `NothingIsStuck`, in both stores.
- `Implements`: `ImplementsInbox`. A step of the clerk, the owner or a crash leaves each
  receipt's fate or moves it from open.

**`Dossier_proofs`**. The invariant is the types, `OnlyApproved` (also of what a request has
read and would restore), and, as long as nothing overlapped, `Solo`: at most one operation
is under way (`Alone`); what is marked applied is in the file and committed, and the file is
what the request that is under way read, with or without its draft according to its place
(`Landed`); and while no request is, what is cached or loaded is the file (`Rested`).
- `TypeCorrect`: `TypeOK`.
- `ApprovedOnly`: `OnlyApprovedText`, whatever overlaps, fails or crashes.
- `Stays`: `AppliedStays`; `Fresh`: `CacheIsFresh`.
- `StartsClean`: `RetryStartsClean`, an apply that failed leaves the text it began with.

**`Review_proofs`**
- `TypeCorrect`: `TypeOK`.
- `Verdicts`: `VerdictsWereAsked`. The lease of an author that stands in for a missing one of
  the pair (`LatestIsLease`) is of that author and of a request that was made.
- `One`: `OnePerSource`. The slot in `inFlight` is held by one chain (`Slots`), and a source
  that has a record is seen by the second look under the slot.

**`PeopleMemory_proofs`**. None of the properties is inductive alone, since an undo finds its
items by their ids. The invariant adds that an id stands for one item and was given out
(`Numbered`), that a decision refers to ids given out and its items are of its person, its
candidate and its drafts (`Attributed`), and that a candidate has a verdict or none yet for
each draft (`Judged`). Each step either touches one candidate only, or rewrites the items: it
drops some, changes what others say, and adds some under new numbers (`Rewritten`); that what
ended stays ended is shown of the same steps (`EndsStand`).
- `TypeCorrect`: `TypeOK`; `Forgotten`: `ForgetIsFinal`; `Undoable`: `DecisionsStand`;
  `EndedForGood`: `EndedStaysEnded`.
- `Resolved`: `MaterializedIsMade`, which has two parts. `ApprovedIsThere`: an undo drops
  only items of its decision's drafts, and it resets the verdicts of those drafts; an
  approval, also one that fails half way, sets the verdicts only of what it makes; a
  correction keeps the item it replaces; and the candidates about a person who is forgotten
  go as well. `NothingHidden`: the state is computed from the verdicts after every change of
  them. The first is about candidates that name a known person: one that brings a new person
  stays, approved, when that person is forgotten. Both speak of the drafts that were proposed
  open, of which see [Disagreements](#disagreements).

Only model-checked: what is temporal beyond `[]`, since liveness under fairness is outside
TLAPS here (`DanglingIsClosed`, `AutoHoldEnds`, `ChainTerminates`, `EveryCallEnds`,
`EveryReceiptIsOffered`, `EveryVerdictCounts`). That the view is `Project` of the
whole log holds by definition: the view starts as its empty snapshot and each append is one
turn of its loop.

## Findings

The run marked "violation" checks what a comment of the repository says; TLC's trace is the
disagreement. `PROJECT.json` quotes the text.

| run | property | in short |
|---|---|---|
| `OrchestrationHang` | `NeverHangs` | a handoff dropped after its disposition leaves the thread active with nobody running, and the sweep looks at invocations in flight only |

## Disagreements

The models allow more that a comment or a doc of the repository says cannot be. TLC reached
each of these while the models were written; they have no run of their own. Where a formula
stands in a module, it is named, and its comment points here.

Custody and orchestration:

- `BallLedger!NoStaleConverge`: a stale callback "can never wrongly converge a live ball"
  (`src/internal/domains/custody/ports/ledger.go:164-166`). A record between judgement and
  commit (`ball_ledger.go:187`) lets a stale disposition take a live ball.
- `HoldScheduler!OwnCondition`: a hold is released on its own condition
  (`hold_scheduler.go:46-47`, 272-273). Holds are found by thread (213), so the timer or the
  command of a hold already over releases the next one.
- `Orchestration!HoldIsParked`: "the thread stays parked until the hold is released"
  (`execution.go:451-452`). The sweep declares a parked dog dead (`ball_ledger.go:385`) and
  the release is refused.
- `Orchestration!DepthBackstop`: the SOP's depth limit is cumulative for the thread
  (`execution.go:190-191`). It is counted on a hub thread that is new for each handoff (515).
- `ReconcileZombies` is "safe to run concurrently" (`ball_ledger.go:353-354`), yet its
  verdict is written on a stale read: a ball that has become resolved becomes a zombie.
- `runCommandWake` promises "on failure/timeout it expires the hold"
  (`hold_scheduler.go:258-259`); the exit status is never read, so a failed command releases
  its hold (`CommandEnds` has no such case).
- A message gets one invocation id "so the A2A worklist (depth + ping-pong) shares a single
  budget for the whole chain" (`ws_handler.go:378-379`). The router takes any number of
  targets (`mention_router.go:97-133`) and `executeSerial` runs each without spending the
  worklist (`execution.go:669-699`): a pipeline is as long as its message. `RunsAreBudgeted`
  bounds it by what was asked for.
- The connection's loop takes away the streamer of a thread when the connection ends, but
  only of the last one it spoke for (`ws_handler.go:254-258`), for messages overwrite
  `sessionID` (194-197, 209-210, 239-241). The streamer of an earlier thread stays, and its
  chains run on for nobody.
- The loop writes `ball.held` and ignores a refusal of the scheduler
  (`execution.go:455-462`): a parked ball without a hold to release it.
- `executeSerial` passes on a ball its first dog has just parked (`execution.go:692`), though
  the hold branch is to "stop here" (450-452).
- The pre-dispatch snapshot gate is "against a concurrent/late handoff"
  (`execution.go:928-930`), and a chain alone with its thread is stopped by it: calls further
  up the stack keep beating, and the heartbeat of an active ball makes its dog the holder.
- `IWorklist.Done` is "called after the invocation and all its recursive handoffs complete"
  (`ports/worklist.go:42-43`); a resumed invocation has no such call.
- `BreakerStops` holds of a chain that is alone (run `Orchestration`) only because the
  ledger's guard refuses the dogs further up: they are not the latest run (theorem
  `StoppedForGood` has the whole argument). A second message
  that re-runs one of them undoes it, and the stopped chain passes the ball on.

Processes:

- `Carrier!ReleasedWhenCompleted`: a lease is released when the turn completes
  (`unified/bg_daemon.go:70-73`). A transport built for several providers has no pool of its
  own, and `releaseOnExit` (104-113) dereferences it.
- `leaseGeneration` is to keep a late `Release` from ending another's lease (`warm.go:38-40`).
  Nothing reads it: after a forced release, the late one ends the new lease (403-418).
  `LeasesAreHolders` and `OneTurnPerProcess` are stated without forced releases.
- A cold start may pass `MaxCapacity` when every process is busy, and one over a busy entry
  takes its place in the map (`warm.go:370`): the old process lives on outside the count.
- A transport that is skipped because it is degraded is recorded as a failure of class
  "unknown" (`unified/fallback.go:98-112`, `carrier.go:154`), which overwrites the longer
  cooldown it was degraded with (`health.go:19-20`).

What is written down:

- `PeopleMemory!OneCurrentPerKey`: "a new current claim supersedes the old one"
  (`settings/people_memory.go:22-23`). An undo out of order, and a correction to another
  key, leave two.
- `PeopleMemory!ResolvesWhenDecided`: a candidate resolves when every draft is decided
  (`people_memory_doc.go:225-226`). Approving the rest after rejecting some leaves it
  partially materialized (198-215).
- `PeopleMemory!MaterializedByDecision`: proposing "does NOT materialize anything -- only an
  explicit approveDrafts" does (`people_memory_doc.go:35-36`). `Propose` keeps a verdict that
  the caller has set (51-61; the request's body has the field,
  `people_memory_handler.go:287-302`). A draft that comes as approved is never made, and
  rejecting the rest shows the candidate as materialized.
- `Receipts!EveryTickPromotes`: "each tick promotes ready deferred receipts"
  (`people_memory_auth.go:86-88`). In the file store the first eight, deferred each day,
  stand before all others; a crash after a reservation leaves the receipt reserved; in the
  Redis store a ghost takes a place in the list every day (`people_memory_redis.go:181-191`,
  298-316).
- `Receipts!NotDoubleProcessed`: a receipt is reserved "so it is not double-processed"
  (`people_memory_recall.go:234-236`). In the Redis store the reservation is a read and a
  write, and the owner's claim falls between them: two candidates.
- `Dossier!NoLostUpdate`: the hash is an "optimistic lock" (`dossier/proposal.go:68-69`). The
  check and the write are apart (`service.go:125-136`), and of two applies one is lost.
- A rollback leaves the tree so that "a retry doesn't hit BASE_HASH_MISMATCH"
  (`dossier/service.go:97-98`), which is `RetryStartsClean`. When the command that failed was
  the last, `git rev-parse` (162-165), the commit has landed: the retry then writes what is
  committed, there is nothing to commit, and it is rolled back again, each time.
- `Invalidate` drops the cache "so the next read re-parses the file"
  (`dossier/loader.go:92-93`). A load that read the file before the apply stores the old text
  after it (115-135), and nothing clears it until the next apply. `CacheIsFresh` is about
  operations that do not overlap.
- `Review!AuthorsAreTold`: a review creates an opportunity for the reviewed author
  (`platform.go:420-422`). The source's identity leaves the author out: of two authors
  reviewed by one dog in one thread, one is told.
- Leases are "per-thread" (`sop_guardian.go:28-31`, 164-165); they are kept by pair across
  threads, and nothing releases them.

## What is not modelled

Custody and orchestration: the workflow and remote-A2A branches of the
loop, the stream filters, the HITL messages of the WebSocket loop, several threads at once
(they share the slots, the hub's map and the connections; the others' use of a connection is
the free choice in `Disconnect`), and every payload (texts, tokens, reasons,
identifiers). A webhook's token check is folded into "a matching wake". Restart: the ledger,
the holds and the worklists are in memory and start empty, so a restart is an initial state.

Pool and adapters: `Close`; `SealSession` and session affinity, which are dead code
(nothing stores into `sessionOwners`); metrics and fatal events; the transport's own
`RecordFailure` under a key nobody reads, and `RecordSuccess`, which nobody calls; the tmux
carrier; the parsers of each CLI's output, of which a turn shows only the outcome. No adapter
in the repository emits the fatal carrier error that `YieldError` takes care of.

People memory: what recall and drill return, broadcasts, source references, and saves that
fail. Receipts: a clerk without a dog to ask, other operators (served one after the other),
failed saves, where in the conversation a receipt stands.

Dossier: drafts that do not fit their section (refused without a trace), errors of file
reads and writes (the write of `restore` in particular: a rollback puts the file back), a
missing file, edits by others, observations, and the loss of the
in-memory proposal store at a restart. Review: `AssertSOPLinkage`, the static blockers of a
self-review, and the generations of leases, which no handoff carries.

Of the other components, the notes in `PROJECT.json` give the reason for each. The
command guard's approvals are in the plan. The invocation queue, the managed jobs and the
approval ingress are libraries that nothing in the repository calls, so the clients whose
interleavings would matter are not in the source; the
hub's unlocked map has no state after its fault. The rest is stores with a lock for each
call, text assembly, network and process I/O, or pure functions without state.
