----------------------------- MODULE BallLedger -----------------------------
(***************************************************************************)
(* The ledger of one thread under concurrent callers.  The Record* methods *)
(* append without taking BallLedger.mu; RecordHanded first reads the store *)
(* to number the handoff.  The Try* methods hold mu over read, judgement,  *)
(* append and the post-commit read, so they exclude each other and nothing *)
(* else.  Each append to the store is atomic (the store has its own lock), *)
(* as is each read of it.                                                  *)
(*                                                                         *)
(* passed, given, woken and parks are histories: how often each dog passed *)
(* the ball on by a disposition and how often it came to hold it, how many *)
(* holds were dispositioned and how many times the ball was parked.        *)
(***************************************************************************)
EXTENDS Custody, FiniteSets

CONSTANTS Caller,       \* goroutines that use the ledger of this thread
          Plain,        \* events recorded by a single unconditional append
          MaxAppends    \* bound on the number of appends

ASSUME PlainAssumption == Plain \subseteq {e \in Event : e.type \notin Handoff}
ASSUME MaxAppendsAssumption == MaxAppends \in Nat
ASSUME FreeIsNoCaller == None \notin Caller

VARIABLES handoffs,    \* handoff events in the log
          generation,  \* BallSnapshot.Generation
          mu,          \* the caller inside a Try* method, None if none
          caller,      \* the local state of each caller
          appends, given, passed, parks, woken

history == <<given, passed, parks, woken>>
ledgerVars == <<view, handoffs, generation, mu, caller, appends, history>>

NoCall == [pc |-> "idle", from |-> None, to |-> None, gen |-> 0]

Dispatching == {"dispatch", "dispatched"}
Waking      == {"wake", "met", "woken"}
CallPC == {"idle", "hand"} \cup Dispatching \cup Waking

Goto(c, pc) == caller' = [caller EXCEPT ![c].pc = pc]
Return(c)   == caller' = [caller EXCEPT ![c] = NoCall]

\* One event reaches the store.
Stored(e) ==
  /\ appends < MaxAppends
  /\ appends' = appends + 1
  /\ view' = Observe(view, e)
  /\ given' = [b \in Breed |-> IF view'.holder = b /\ view.holder # b THEN given[b] + 1 ELSE given[b]]
  /\ parks' = IF e.type \in Parking THEN parks + 1 ELSE parks

\* ... that is a handoff numbered gen.
StoredHandoff(type, b, gen) ==
  /\ Stored(HandTo(type, b))
  /\ handoffs' = handoffs + 1
  /\ generation' = IF gen > generation THEN gen ELSE generation

NextGeneration == handoffs + 1
-----------------------------------------------------------------------------
LedgerInit ==
  /\ view = EmptyView
  /\ handoffs = 0 /\ generation = 0
  /\ mu = None
  /\ caller = [c \in Caller |-> NoCall]
  /\ appends = 0
  /\ given = [b \in Breed |-> 0] /\ passed = [b \in Breed |-> 0]
  /\ parks = 0 /\ woken = 0

\* Record, RecordInvocationStarted, RecordTaskDone, ...
Record(c, e) ==
  /\ caller[c].pc = "idle"
  /\ Stored(e)
  /\ UNCHANGED <<handoffs, generation, mu, caller, passed, woken>>

\* RecordHanded numbers the handoff from one read of the store ...
RecordHanded(c, b) ==
  /\ caller[c].pc = "idle"
  /\ caller' = [caller EXCEPT ![c] = [pc |-> "hand", from |-> None, to |-> b, gen |-> NextGeneration]]
  /\ UNCHANGED <<view, handoffs, generation, mu, appends, history>>

\* ... and appends it later.
Handed(c) ==
  /\ caller[c].pc = "hand"
  /\ StoredHandoff("ball.handed", caller[c].to, caller[c].gen)
  /\ Return(c)
  /\ UNCHANGED <<mu, passed, woken>>

\* A bug to look for: the judgement made before taking the mutex.
TryDispatchUnlocked(c, from, to) ==
  /\ caller[c].pc = "idle"
  /\ from # to
  /\ DispatchGuard(view, from)
  /\ mu' = c
  /\ caller' = [caller EXCEPT ![c] = [pc |-> "dispatch", from |-> from, to |-> to, gen |-> NextGeneration]]
  /\ UNCHANGED <<view, handoffs, generation, appends, history>>

\* tryCommitDispatch up to the verdict.  A refusal appends only an audit event, which no
\* reader of the view can see, and returns false: nothing changes.
TryDispatch(c, from, to) ==
  /\ caller[c].pc = "idle" /\ mu = None
  /\ from # to
  /\ DispatchGuard(view, from)
  /\ mu' = c
  /\ caller' = [caller EXCEPT ![c] = [pc |-> "dispatch", from |-> from, to |-> to, gen |-> NextGeneration]]
  /\ UNCHANGED <<view, handoffs, generation, appends, history>>

CommitDispatch(c) ==
  /\ caller[c].pc = "dispatch"
  /\ StoredHandoff("dispatch_dispositioned", caller[c].to, caller[c].gen)
  /\ passed' = [passed EXCEPT ![caller[c].from] = @ + 1]
  /\ Goto(c, "dispatched")
  /\ UNCHANGED <<mu, woken>>

\* The post-commit read only decides between success and errPostCommit.
Unlock(c) ==
  /\ caller[c].pc \in {"dispatched", "woken"}
  /\ mu' = None
  /\ Return(c)
  /\ UNCHANGED <<view, handoffs, generation, appends, history>>

\* A bug to look for: the same for a hold.
TryHoldUnlocked(c, holder) ==
  /\ caller[c].pc = "idle"
  /\ HoldGuard(view, holder)
  /\ mu' = c
  /\ caller' = [caller EXCEPT ![c] = [pc |-> "wake", from |-> holder, to |-> None, gen |-> 0]]
  /\ UNCHANGED <<view, handoffs, generation, appends, history>>

\* tryCommitHold, likewise: judge, wake_condition_met, hold_dispositioned, unlock.
TryHold(c, holder) ==
  /\ caller[c].pc = "idle" /\ mu = None
  /\ HoldGuard(view, holder)
  /\ mu' = c
  /\ caller' = [caller EXCEPT ![c] = [pc |-> "wake", from |-> holder, to |-> None, gen |-> 0]]
  /\ UNCHANGED <<view, handoffs, generation, appends, history>>

ConditionMet(c) ==
  /\ caller[c].pc = "wake"
  /\ Stored(By("wake_condition_met", caller[c].from))
  /\ Goto(c, "met")
  /\ UNCHANGED <<handoffs, generation, mu, passed, woken>>

CommitHold(c) ==
  /\ caller[c].pc = "met"
  /\ Stored(By("hold_dispositioned", caller[c].from))
  /\ woken' = woken + 1
  /\ Goto(c, "woken")
  /\ UNCHANGED <<handoffs, generation, mu, passed>>

Call(c) ==
  \/ \E e \in Plain : Record(c, e)
  \/ \E b \in Breed : RecordHanded(c, b) \/ TryHold(c, b)
  \/ \E from, to \in Breed : TryDispatch(c, from, to)

Continue(c) == Handed(c) \/ CommitDispatch(c) \/ ConditionMet(c) \/ CommitHold(c) \/ Unlock(c)

LedgerNext == \E c \in Caller : Call(c) \/ Continue(c)

LedgerSpec == LedgerInit /\ [][LedgerNext]_ledgerVars
-----------------------------------------------------------------------------
\* The types of the projected ledger and of the callers' local state.
LedgerTypeOK ==
  /\ view \in View
  /\ handoffs \in Nat /\ generation \in Nat
  /\ mu \in Caller \cup {None}
  /\ caller \in [Caller -> [pc : CallPC, from : Holder, to : Holder, gen : Nat]]
  /\ appends \in Nat
  /\ given \in [Breed -> Nat] /\ passed \in [Breed -> Nat]
  /\ parks \in Nat /\ woken \in Nat

\* A disposition of b's that has been judged and not committed yet.
Passing(b) == \E c \in Caller : caller[c].pc = "dispatch" /\ caller[c].from = b

\* However many duplicate or stale handoff callbacks race, and whatever is appended
\* around them, a dog passes the ball on at most once for each time it came to hold it,
\* and has a turn left whenever it holds it.
PassedOncePerTurn ==
  \A b \in Breed : passed[b] + (IF view.holder = b \/ Passing(b) THEN 1 ELSE 0) <= given[b]

Releasing == \E c \in Caller : caller[c].pc \in {"wake", "met"}

\* However many wake-ups race (a click, a webhook, a timer), a parked ball is
\* dispositioned at most once for each time it was parked.
WokenOncePerPark == woken + (IF view.state = "parked" \/ Releasing THEN 1 ELSE 0) <= parks

\* "A stale/duplicate callback can never wrongly converge a live ball": when a
\* disposition lands, its sender is still the holder.
\* It does not hold: README, "Disagreements".
NoStaleConverge ==
  [][\A c \in Caller : CommitDispatch(c) => view.holder = caller[c].from]_ledgerVars
=============================================================================
