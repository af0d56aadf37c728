------------------------------- MODULE Carrier -------------------------------
(***************************************************************************)
(* One provider's calls through its transport chain [bg_daemon, print_sdk]: *)
(* RunCarrierFallback (src/internal/adapter/unified/fallback.go) over the   *)
(* carrier registry (carrier.go), the carrier health (health.go), the warm  *)
(* transport (bg_daemon.go, pty_real.go) and the warm pool.                 *)
(*                                                                         *)
(* A turn is the goroutine of one call with, once its process answers, the  *)
(* goroutine of releaseOnExit; it is reused for the next call.  What the    *)
(* CLI says is nondeterministic: a turn ends with the process's "result"    *)
(* line or with a read error, and may yield classified errors before.       *)
(***************************************************************************)
EXTENDS WarmPool, Health

CONSTANTS Turn, Nobody,
          Classes      \* the failures that print_sdk and the streams show

ASSUME TurnAssumption == Nobody \notin Turn /\ IsFiniteSet(Turn)
ASSUME ClassesAssumption == Classes \subseteq Class

Tier == {"bg_daemon", "print_sdk"}

VARIABLES turn,      \* local state of the calls
          health,    \* MemoryHealth's entry for each tier
          crashed    \* an unrecovered panic has ended the server

vars == <<poolVars, turn, health, crashed>>

PC == {"idle", "tier", "acquire", "run", "running", "ended",
       "streaming", "failed"}
Call == [pc : PC, key : Key, tier : Tier, process : Process \cup {NoProcess},
         class : Class]

At(pc, k, tier, p, class) ==
    [pc |-> pc, key |-> k, tier |-> tier, process |-> p,
     class |-> class]
AnyKey == CHOOSE k \in Key : TRUE
IdleCall == At("idle", AnyKey, "bg_daemon", NoProcess, "unknown")

CarrierTypeOK ==
    /\ turn \in [Turn -> Call]
    /\ health \in [Tier -> Entry]
    /\ crashed \in BOOLEAN

TypeOK == PoolTypeOK /\ CarrierTypeOK

(* The turns that have process p from the pool and have not released it.    *)
Holds(t, p) == turn[t].process = p /\ turn[t].pc \in {"run", "running", "ended"}
Holders(p) == {t \in Turn : Holds(t, p)}

(* An identity that can stand for a new process.                            *)
Fresh(p) == ~proc[p].up /\ Dead(p) /\ p \notin Pooled /\ Holders(p) = {}

Init ==
    /\ PoolInit
    /\ turn = [t \in Turn |-> IdleCall]
    /\ health = [tier \in Tier |-> Online]
    /\ crashed = FALSE

Goto(t, rec) == turn' = [turn EXCEPT ![t] = rec]
FailedAt(tier, class) == At("failed", AnyKey, tier, NoProcess, class)
Record(tier, class) ==
    health' = [health EXCEPT ![tier] = Failed(health[tier], class)]
-----------------------------------------------------------------------------
(* ExecuteTier's look at the health of a tier, which deletes an expired     *)
(* entry.  A degraded tier is not tried; the text of that refusal is one    *)
(* ClassifyError does not know.                                             *)
Look(tier) == health' = [health EXCEPT ![tier] = AsRead(health[tier])]

(* RunCarrierFallback starts with the first tier of the chain ...           *)
Start(t, k) ==
    /\ turn[t].pc = "idle"
    /\ Look("bg_daemon")
    /\ Goto(t, IF IsOnline(health["bg_daemon"])
               THEN At("acquire", k, "bg_daemon", NoProcess, "unknown")
               ELSE FailedAt("bg_daemon", "unknown"))
    /\ UNCHANGED <<poolVars, crashed>>

(* ... and tries the second after its hop, which looked at it already.      *)
(* ProcessTransport spawns a process of its own for the turn, or fails.     *)
Retry(t) ==
    /\ turn[t].pc = "tier"
    /\ Look("print_sdk")
    /\ \/ /\ IsOnline(health["print_sdk"])
          /\ Goto(t, At("streaming", AnyKey, "print_sdk", NoProcess, "unknown"))
       \/ /\ IsOnline(health["print_sdk"])
          /\ \E class \in Classes : Goto(t, FailedAt("print_sdk", class))
       \/ /\ ~IsOnline(health["print_sdk"])
          /\ Goto(t, FailedAt("print_sdk", "unknown"))
    /\ UNCHANGED <<poolVars, crashed>>

(* BgDaemonTransport.Spawn: Acquire.  Its own RecordFailure goes to the key *)
(* of the carrier, which nobody reads, and is left out.                     *)
Acquired(t, p) ==
    Goto(t, At("run", turn[t].key, "bg_daemon", p, "unknown"))

TakeWarm(t) ==
    /\ turn[t].pc = "acquire"
    /\ \E p \in Process, cwd \in BOOLEAN :
         AcquireWarm(turn[t].key, p, cwd) /\ Acquired(t, p)
    /\ UNCHANGED <<health, crashed>>

TakeCold(t) ==
    /\ turn[t].pc = "acquire"
    /\ \E p \in Process :
         /\ Fresh(p)
         /\ p = CHOOSE q \in Process : Fresh(q)
         /\ \E cwd \in BOOLEAN : AcquireCold(turn[t].key, p, cwd)
         /\ Acquired(t, p)
    /\ UNCHANGED <<health, crashed>>

TakeNone(t) ==
    /\ turn[t].pc = "acquire"
    /\ \E cwd \in BOOLEAN : AcquireFails(turn[t].key, cwd)
    /\ Goto(t, FailedAt("bg_daemon", "unknown"))
    /\ UNCHANGED <<health, crashed>>

(* PtyRunner.RunTurn: the prompt is written to a process that looks alive.  *)
RunTurn(t) ==
    /\ turn[t].pc = "run"
    /\ proc[turn[t].process].alive
    /\ Goto(t, At("running", turn[t].key, "bg_daemon", turn[t].process,
                  "unknown"))
    /\ UNCHANGED <<poolVars, health, crashed>>

(* A bug to look for: the error path of Spawn keeps the lease.              *)
RunFailsHolding(t) ==
    /\ turn[t].pc = "run"
    /\ ~proc[turn[t].process].up
    /\ Goto(t, FailedAt("bg_daemon", "unknown"))
    /\ UNCHANGED <<poolVars, health, crashed>>

(* It is dead, or the write fails: Spawn releases it and returns the error. *)
RunFails(t) ==
    /\ turn[t].pc = "run"
    /\ ~proc[turn[t].process].up
    /\ Release(turn[t].key, turn[t].process)
    /\ Goto(t, FailedAt("bg_daemon", "unknown"))
    /\ UNCHANGED <<health, crashed>>

(* A bug to look for: the end of the output does not end the turn.          *)
EndTurnOfLive(t) ==
    /\ turn[t].pc = "running"
    /\ proc[turn[t].process].up
    /\ Goto(t, At("ended", turn[t].key, "bg_daemon", turn[t].process,
                  "unknown"))
    /\ UNCHANGED <<poolVars, health, crashed>>

(* The reader sees the terminal line, or a read error: exitCh is closed.    *)
EndTurn(t) ==
    /\ turn[t].pc = "running"
    /\ Goto(t, At("ended", turn[t].key, "bg_daemon", turn[t].process,
                  "unknown"))
    /\ UNCHANGED <<poolVars, health, crashed>>

(* releaseOnExit: t.pool is nil when the transport was built for several    *)
(* providers, and the call panics in a goroutine nobody recovers.           *)
ReleaseOnExit(t) ==
    /\ turn[t].pc = "ended"
    /\ Goto(t, IdleCall)
    /\ IF mode.multi
       THEN crashed' = TRUE /\ UNCHANGED poolVars
       ELSE Release(turn[t].key, turn[t].process) /\ UNCHANGED crashed
    /\ UNCHANGED health

EndStream(t) ==
    /\ turn[t].pc = "streaming"
    /\ Goto(t, IdleCall)
    /\ UNCHANGED <<poolVars, health, crashed>>

(* monitorYieldedErrors: a failure in the stream is recorded for the next    *)
(* call and the stream goes on.  A fatal one is recorded whatever its class, *)
(* of the others those that are not transient; the rest change nothing.     *)
YieldError(t, class) ==
    /\ turn[t].pc \in {"running", "ended", "streaming"}
    /\ Record(turn[t].tier, class)
    /\ UNCHANGED <<poolVars, turn, crashed>>

(* The tier's failure is recorded.  A transient one ends the call; any other *)
(* is followed by one hop to the next healthy tier, if there is one.        *)
Hops(t) ==
    /\ turn[t].class # "transient"
    /\ turn[t].tier = "bg_daemon"
    /\ IsOnline(health["print_sdk"])

Fallback(t) ==
    /\ turn[t].pc = "failed"
    /\ Hops(t)
    /\ health' = [health EXCEPT
          !["bg_daemon"] = Failed(health["bg_daemon"], turn[t].class),
          !["print_sdk"] = AsRead(health["print_sdk"])]
    /\ Goto(t, At("tier", AnyKey, "print_sdk", NoProcess, "unknown"))
    /\ UNCHANGED <<poolVars, crashed>>

GiveUp(t) ==
    /\ turn[t].pc = "failed"
    /\ ~Hops(t)
    /\ Record(turn[t].tier, turn[t].class)
    /\ Goto(t, IdleCall)
    /\ UNCHANGED <<poolVars, crashed>>
-----------------------------------------------------------------------------
(* The clock: every cooldown has one tick less.                             *)
Tick ==
    /\ \E tier \in Tier : ~IsOnline(health[tier])
    /\ health' = [tier \in Tier |-> Aged(health[tier])]
    /\ UNCHANGED <<poolVars, turn, crashed>>

Background ==
    /\ \/ ReapDead
       \/ EvictExpired
       \/ \E p \in Process : Exit(p)
    /\ UNCHANGED <<turn, health, crashed>>

Notice(p) == WaitAndMark(p) /\ UNCHANGED <<turn, health, crashed>>

Step(t) ==
    \/ Retry(t) \/ TakeWarm(t) \/ TakeCold(t) \/ TakeNone(t)
    \/ RunTurn(t) \/ RunFails(t) \/ EndTurn(t) \/ ReleaseOnExit(t)
    \/ EndStream(t) \/ Fallback(t) \/ GiveUp(t)

Live ==
    \/ \E t \in Turn :
         \/ \E k \in Key : Start(t, k)
         \/ Step(t)
         \/ \E class \in Classes : YieldError(t, class)
    \/ Tick
    \/ Background
    \/ \E p \in Process : Notice(p)

(* After a panic nothing runs any more.                                     *)
Next == ~crashed /\ Live

Spec == Init /\ [][Next]_vars

(* Goroutines run, and a CLI answers or ends: that a turn's process does    *)
(* one of the two is assumed, for neither the runner nor the transport has  *)
(* a timeout.  Nothing is assumed of the reaper, or of those who call.      *)
Fairness == \A t \in Turn : WF_vars(~crashed /\ Step(t))

FairSpec == Spec /\ Fairness
-----------------------------------------------------------------------------
(* What a process is lent for: one turn at a time, unless the configuration *)
(* allows more.                                                             *)
Single == ~mode.multiplexing /\ ~mode.maxLease

(* A single-flight process without stale-lease recovery never serves two    *)
(* turns, through overwritten entries, evictions, crashes and releases that *)
(* come late (warm.go:212-217).                                             *)
OneTurnPerProcess ==
    Single => \A p \in Process : \A t, u \in Turn :
                 Holds(t, p) /\ Holds(u, p) => t = u

(* Unless leases are taken away by force, the lease count of a live process *)
(* is the number of turns that have it: no path through Spawn, a failed     *)
(* RunTurn, the end of a turn or a retirement loses or doubles a lease, so  *)
(* idle processes are idle and busy ones are not evicted                    *)
(* (bg_daemon.go:70-113, warm.go:413-438).                                  *)
LeasesAreHolders ==
    ~mode.maxLease /\ ~crashed =>
        \A p \in Process :
            proc[p].alive => proc[p].leases = Cardinality(Holders(p))

(* The pool and its transport implement Lease.                              *)
Owner == [p \in Process |->
            IF Single /\ Holders(p) # {}
            THEN CHOOSE t \in Turn : Holds(t, p) ELSE Nobody]
L == INSTANCE Lease WITH owner <- Owner
ImplementsLease == L!LeaseSpec

(* What the transport says of releaseOnExit: the lease is given back when   *)
(* the turn completes (bg_daemon.go:70-73).  It holds of a transport for one *)
(* provider; one that was built for several ends the server instead.        *)
(* It does not hold: README, "Disagreements".                               *)
ReleasedWhenCompleted ==
    \A p \in Process :
        proc[p].alive => proc[p].leases = Cardinality(Holders(p))

(* Whatever happens to its processes, a call through the chain ends: the    *)
(* hop happens once, and a reader whose process is gone sees it             *)
(* (fallback.go:77-141, pty_real.go:209-234).                               *)
EveryCallEnds ==
    \A t \in Turn :
        (turn[t].pc # "idle" /\ ~mode.multi) ~> (turn[t].pc = "idle")
=============================================================================
