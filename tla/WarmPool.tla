------------------------------ MODULE WarmPool ------------------------------
(***************************************************************************)
(* The pool of warm CLI processes (src/internal/adapter/pool/warm.go).      *)
(* Every method runs under WarmPool.mu, so it is one step; the flags of a   *)
(* process are behind its own mutex, and waitAndMark sets them without the  *)
(* pool's.  Process identities are reused: one that is dead, that the pool  *)
(* has forgotten and that no caller holds stands for a process to come.     *)
(*                                                                         *)
(* Left out: metrics, the key's text, idle times (any idle process may be   *)
(* the oldest one, or have outlived the TTL) and session affinity, which is *)
(* dead code: nothing ever stores into sessionOwners.                       *)
(***************************************************************************)
EXTENDS Naturals, FiniteSets

CONSTANTS Key,         \* pool keys: (project path, provider)
          Process,     \* bound on the processes that exist at once
          NoProcess,
          Capacity,    \* WarmPoolConfig.MaxCapacity
          Modes        \* the configurations to check

Mode == [multiplexing : BOOLEAN,   \* SupportsMultiplexing
         maxLease : BOOLEAN,       \* MaxLeaseMs > 0
         multi : BOOLEAN]          \* built by NewBgDaemonTransportMulti

ASSUME PoolAssumption ==
    Capacity \in Nat \ {0} /\ NoProcess \notin Process /\ Key # {}
ASSUME ModesAssumption == Modes \subseteq Mode

VARIABLES entries,  \* the process under each key, or NoProcess
          proc,     \* up (the OS process runs), alive (the flag), leases
          mode      \* the configuration; never changes

poolVars == <<entries, proc, mode>>

WarmProcess == [up : BOOLEAN, alive : BOOLEAN, leases : Nat]

PoolTypeOK ==
    /\ entries \in [Key -> Process \cup {NoProcess}]
    /\ proc \in [Process -> WarmProcess]
    /\ mode \in Mode

Blank == [up |-> FALSE, alive |-> FALSE, leases |-> 0]

PoolInit ==
    /\ entries = [k \in Key |-> NoProcess]
    /\ proc = [p \in Process |-> Blank]
    /\ mode \in Modes

Used(table) == {k \in Key : table[k] # NoProcess}
Pooled == {entries[k] : k \in Used(entries)}
Idle(p) == proc[p].leases = 0
Dead(p) == ~proc[p].alive

(* MarkDead: kill and flag, nothing for a process already flagged.          *)
Killed(P) == [p \in Process |->
    IF p \in P /\ proc[p].alive
    THEN Blank
    ELSE proc[p]]

Without(table, K) == [k \in Key |-> IF k \in K THEN NoProcess ELSE table[k]]
-----------------------------------------------------------------------------
(* Acquire.  cwd is what os.Stat says of the processes' working directory,  *)
(* which may vanish and come back at any time.                              *)
Usable(k, cwd) == k \in Used(entries) /\ proc[entries[k]].alive /\ cwd
(* A bug to look for: a busy process is handed out a second time.           *)
WarmHitBusy(k, cwd) == Usable(k, cwd)
WarmHit(k, cwd) == Usable(k, cwd) /\ (mode.multiplexing \/ Idle(entries[k]))
(* A bug to look for: a lease is taken back although none may go stale.     *)
StaleHitAlways(k, cwd) == Usable(k, cwd) /\ ~WarmHit(k, cwd)
StaleHit(k, cwd) == Usable(k, cwd) /\ ~WarmHit(k, cwd) /\ mode.maxLease

(* The leases of a reused process: forceRelease clears those it had.        *)
LeasesAfter(k, cwd) == IF StaleHit(k, cwd) THEN 1 ELSE proc[entries[k]].leases + 1

(* Steps 2, 3 and 5.  The process may be flagged dead by waitAndMark between *)
(* the look at Alive and incLease; it is handed out all the same.           *)
AcquireWarm(k, p, cwd) ==
    /\ WarmHit(k, cwd) \/ StaleHit(k, cwd)
    /\ p = entries[k]
    /\ \/ proc' = [proc EXCEPT ![p] = [up |-> proc[p].up,
                        alive |-> TRUE, leases |-> LeasesAfter(k, cwd)]]
       \/ /\ ~proc[p].up
          /\ proc' = [proc EXCEPT ![p] = [up |-> FALSE,
                        alive |-> FALSE, leases |-> 1]]
    /\ UNCHANGED <<entries, mode>>

(* Steps 1 and 4: an entry whose directory is gone, or that is dead, goes.  *)
Retired(k, cwd) == {j \in {k} \cap Used(entries) : proc[entries[j]].alive => ~cwd}
Cleared(k, cwd) == Without(entries, Retired(k, cwd))

(* Step 6: at capacity one idle entry goes, if there is one.                *)
Evictable(k, cwd) ==
    IF Cardinality(Used(Cleared(k, cwd))) >= Capacity
    THEN {j \in Used(Cleared(k, cwd)) : Idle(entries[j])}
    ELSE {}
Evicted(k, cwd) ==
    IF Evictable(k, cwd) = {} THEN {{}} ELSE {{j} : j \in Evictable(k, cwd)}

Cold(k, cwd) == ~WarmHit(k, cwd) /\ ~StaleHit(k, cwd)

(* The spawn fails: what was retired or evicted is gone all the same.       *)
AcquireFails(k, cwd) ==
    /\ Cold(k, cwd)
    /\ \E V \in Evicted(k, cwd) :
         LET out == Retired(k, cwd) \cup V IN
         /\ entries' = Without(entries, out)
         /\ proc' = Killed({entries[j] : j \in out})
    /\ UNCHANGED mode

(* A fresh process p takes the place under the key, whoever is still there: *)
(* a busy process is dropped from the table and lives on.                   *)
AcquireCold(k, p, cwd) ==
    /\ Cold(k, cwd)
    /\ \E V \in Evicted(k, cwd) :
         LET out == Retired(k, cwd) \cup V IN
         /\ entries' = [Without(entries, out) EXCEPT ![k] = p]
         /\ proc' = [Killed({entries[j] : j \in out}) EXCEPT ![p] =
                       [up |-> TRUE, alive |-> TRUE, leases |-> 1]]
    /\ UNCHANGED mode
-----------------------------------------------------------------------------
(* A bug to look for: a late release is counted twice.                      *)
ReleaseTwice(k, p) ==
    /\ IF Dead(p)
       THEN /\ entries' = Without(entries, {k})
            /\ UNCHANGED proc
       ELSE /\ proc' = [proc EXCEPT ![p] = [up |-> proc[p].up, alive |-> TRUE,
                          leases |-> proc[p].leases - 1]]
            /\ UNCHANGED entries
    /\ UNCHANGED mode

(* Release of p, which was acquired under k: the entry under a dead         *)
(* process's key goes, whatever it is by now; a live process has one lease  *)
(* less.                                                                    *)
Release(k, p) ==
    /\ IF Dead(p)
       THEN /\ entries' = Without(entries, {k})
            /\ UNCHANGED proc
       ELSE /\ proc' = [proc EXCEPT ![p] = [up |-> proc[p].up, alive |-> TRUE,
                          leases |-> IF Idle(p) THEN 0 ELSE proc[p].leases - 1]]
            /\ UNCHANGED entries
    /\ UNCHANGED mode

(* The background loop: first the dead entries go, then the expired ones.   *)
ReapDead ==
    /\ \E k \in Used(entries) : Dead(entries[k])
    /\ entries' = Without(entries, {k \in Used(entries) : Dead(entries[k])})
    /\ UNCHANGED <<proc, mode>>

EvictExpired ==
    /\ \E K \in SUBSET {k \in Used(entries) : Idle(entries[k])} :
         /\ K # {}
         /\ entries' = Without(entries, K)
         /\ proc' = Killed({entries[k] : k \in K})
    /\ UNCHANGED mode

(* The process ends by itself, and waitAndMark notices.                     *)
Exit(p) ==
    /\ proc[p].up
    /\ proc' = [proc EXCEPT ![p] = [up |-> FALSE,
                    alive |-> proc[p].alive, leases |-> proc[p].leases]]
    /\ UNCHANGED <<entries, mode>>

WaitAndMark(p) ==
    /\ ~proc[p].up /\ proc[p].alive
    /\ proc' = [proc EXCEPT ![p] = Blank]
    /\ UNCHANGED <<entries, mode>>
=============================================================================
