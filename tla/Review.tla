------------------------------- MODULE Review -------------------------------
(***************************************************************************)
(* The review leases of the SOP guardian and the checkpoint that turns a    *)
(* returned verdict into a distillation opportunity                         *)
(* (src/internal/domains/sop/services/sop_guardian.go, sop/review.go,       *)
(* dossier/checkpoint.go, called from transport/execution.go:906).          *)
(*                                                                         *)
(* A handoff comes from the identity that ran, which may be a variant, and  *)
(* goes to the default identity of a breed.  The generation of a lease and  *)
(* its holder thread are left out: no handoff carries a generation, and the *)
(* two threads are the same.  All of it is in memory.                       *)
(***************************************************************************)
EXTENDS Naturals

CONSTANTS Dog, Default,     \* identities; the ones a handoff can go to
          Thread, Chain,    \* chains of calls, one goroutine each
          NoLease, NoSource

Pair == {p \in SUBSET Dog : \E x, y \in Dog : x # y /\ p = {x, y}}
Lease == [author : Dog, reviewer : Dog, thread : Thread]
Source == [thread : Thread, reviewer : Dog]     \* the commit is the thread's name

ASSUME ReviewAssumption ==
    Default \subseteq Dog /\ NoLease \notin Lease /\ NoSource \notin Source

VARIABLES assignments,      \* of each pair of dogs
          authorAssign,     \* of each author, the last one
          cycles,           \* what the review cycle of a pair was bound to
          provenance,       \* the verdicts recorded
          hook,             \* each chain's place in the checkpoint
          inFlight,         \* the sources being recorded
          opportunity,      \* the state of the last one of each source
          made              \* history: how many there were (two is several)

guard == <<assignments, authorAssign, cycles, provenance>>
checkpoint == <<hook, inFlight, opportunity, made>>
vars == <<assignments, authorAssign, cycles, provenance,
          hook, inFlight, opportunity, made>>

TypeOK ==
    /\ assignments \in [Pair -> Lease \cup {NoLease}]
    /\ authorAssign \in [Dog -> Lease \cup {NoLease}]
    /\ cycles \in [Pair -> Lease \cup {NoLease}]
    /\ provenance \subseteq Lease
    /\ hook \in [Chain -> [pc : {"idle", "look", "slot", "again", "create", "free"},
                           source : Source \cup {NoSource}]]
    /\ inFlight \subseteq Source
    /\ opportunity \in [Source -> {"none", "pending", "processed"}]
    /\ made \in [Source -> 0..2]
    /\ \A k \in Chain : hook[k].source = NoSource <=> hook[k].pc = "idle"

Resting == [pc |-> "idle", source |-> NoSource]

Init ==
    /\ assignments = [p \in Pair |-> NoLease]
    /\ authorAssign = [d \in Dog |-> NoLease]
    /\ cycles = [p \in Pair |-> NoLease]
    /\ provenance = {}
    /\ hook = [k \in Chain |-> Resting]
    /\ inFlight = {}
    /\ opportunity = [s \in Source |-> "none"]
    /\ made = [s \in Source |-> 0]
-----------------------------------------------------------------------------
(* EnforceReviewHandoff.  The lease of the pair, or else of the author.     *)
LeaseOf(from, to) ==
    IF assignments[{from, to}] # NoLease THEN assignments[{from, to}] ELSE authorAssign[to]

(* The first handoff between two dogs is taken for a review request; a later *)
(* one in the same direction does nothing.                                  *)
Issue(from, to, thread) ==
    LET lease == [author |-> from, reviewer |-> to, thread |-> thread] IN
    /\ LeaseOf(from, to) = NoLease
    /\ assignments' = [assignments EXCEPT ![{from, to}] = lease]
    /\ authorAssign' = [authorAssign EXCEPT ![from] = lease]
    /\ UNCHANGED <<cycles, provenance, checkpoint>>

(* A bug to look for: whoever writes to the author is the reviewer.         *)
MayReturnAnybody(from, lease, thread) == thread = lease.thread

(* preflightReviewTerminalRoute: the reviewer, in the thread of the request. *)
MayReturn(from, lease, thread) == from = lease.reviewer /\ thread = lease.thread

Records(cycle, from, to, thread) ==    \* RecordReview's own checks
    cycle = [author |-> to, reviewer |-> from, thread |-> thread]

(* One back to the author is the verdict: the cycle of the pair is made when *)
(* there is none, and the checkpoint is called once the lock is gone.       *)
Return(k, from, to, thread) ==
    LET lease == LeaseOf(from, to)
        pair == {from, to}
        cycle == IF cycles[pair] = NoLease THEN lease ELSE cycles[pair]
    IN
    /\ lease # NoLease /\ lease.author = to
    /\ MayReturn(from, lease, thread)
    /\ cycles' = [cycles EXCEPT ![pair] = cycle]
    /\ IF Records(cycle, lease.reviewer, to, thread)
       THEN /\ provenance' = provenance \cup
                              {[author |-> to, reviewer |-> lease.reviewer, thread |-> thread]}
            /\ hook' = [hook EXCEPT ![k] = [pc |-> "look",
                          source |-> [thread |-> thread, reviewer |-> lease.reviewer]]]
       ELSE UNCHANGED <<provenance, hook>>
    /\ UNCHANGED <<assignments, authorAssign, inFlight, opportunity, made>>

(* A handoff to oneself, and one the preflight rejects, change nothing.     *)
Handoff(k, from, to, thread) ==
    /\ hook[k].pc = "idle" /\ from # to
    /\ \/ Issue(from, to, thread)
       \/ Return(k, from, to, thread)
-----------------------------------------------------------------------------
(* Checkpoint.record: look, take the source's slot, look again, create.     *)
(* Two bugs to look for: a call that is over keeps its source, and a source *)
(* that is being recorded, by oneself too, counts as recorded.              *)
LeavesHolding(k) == hook' = [hook EXCEPT ![k].pc = "idle"]
KnownOrTaken(k) == opportunity[hook[k].source] # "none" \/ hook[k].source \in inFlight

Leaves(k) == hook' = [hook EXCEPT ![k] = Resting]
Moves(k, pc) == hook' = [hook EXCEPT ![k].pc = pc]
Known(k) == opportunity[hook[k].source] # "none"

Look(k) ==
    /\ hook[k].pc = "look"
    /\ IF Known(k) THEN Leaves(k) ELSE Moves(k, "slot")
    /\ UNCHANGED <<guard, inFlight, opportunity, made>>

TakeSlot(k) ==
    /\ hook[k].pc = "slot"
    /\ IF hook[k].source \in inFlight THEN Leaves(k) ELSE Moves(k, "again")
    /\ inFlight' = inFlight \cup {hook[k].source}
    /\ UNCHANGED <<guard, opportunity, made>>

(* A bug to look for: the store is not looked at again.                     *)
AgainNot(k) ==
    /\ hook[k].pc = "again" /\ Moves(k, "create")
    /\ UNCHANGED <<guard, inFlight, opportunity, made>>

Again(k) ==
    /\ hook[k].pc = "again"
    /\ Moves(k, IF Known(k) THEN "free" ELSE "create")
    /\ UNCHANGED <<guard, inFlight, opportunity, made>>

Create(k) ==
    LET s == hook[k].source IN
    /\ hook[k].pc = "create" /\ Moves(k, "free")
    /\ opportunity' = [opportunity EXCEPT ![s] = "pending"]
    /\ made' = [made EXCEPT ![s] = IF @ = 0 THEN 1 ELSE 2]
    /\ UNCHANGED <<guard, inFlight>>

Free(k) ==
    /\ hook[k].pc = "free" /\ Leaves(k)
    /\ inFlight' = inFlight \ {hook[k].source}
    /\ UNCHANGED <<guard, opportunity, made>>

Hook(k) == Look(k) \/ TakeSlot(k) \/ Again(k) \/ Create(k) \/ Free(k)

(* Dismiss and MarkConverted, from the dogs and the operator.               *)
Settle(s) ==
    /\ opportunity[s] = "pending"
    /\ opportunity' = [opportunity EXCEPT ![s] = "processed"]
    /\ UNCHANGED <<guard, hook, inFlight, made>>

Next ==
    \/ \E k \in Chain : \/ Hook(k)
                        \/ \E from \in Dog, to \in Default, thread \in Thread :
                             Handoff(k, from, to, thread)
    \/ \E s \in Source : Settle(s)

Spec == Init /\ [][Next]_vars

(* A hook runs in the goroutine of its handoff and waits for nobody.        *)
FairSpec == Spec /\ \A k \in Chain : WF_vars(Hook(k))
-----------------------------------------------------------------------------
SourceOf(verdict) == [thread |-> verdict.thread, reviewer |-> verdict.reviewer]

(* A verdict is one that was asked for: of that very dog, in that thread,    *)
(* by the author it went to, whatever handoffs of others cross it and       *)
(* whatever is asked later (sop_guardian.go:161-168); and the cycle that    *)
(* records it never refuses what the guard has let through: the two agree   *)
(* on who reviews whom (review.go:234-262).                                 *)
VerdictsWereAsked ==
    /\ \A v \in provenance : assignments[{v.author, v.reviewer}] = v
    /\ \A p \in Pair : cycles[p] \in {NoLease, assignments[p]}

(* However many verdicts come at a time, a source makes one opportunity     *)
(* (checkpoint.go:171-173) ...                                              *)
OnePerSource == \A s \in Source : made[s] <= 1

(* ... and one that is recorded makes it in the end.                        *)
EveryVerdictCounts ==
    \A s \in Source : (\E v \in provenance : SourceOf(v) = s) ~> made[s] # 0

(* "a review completion creates a distillation opportunity for the reviewed *)
(* author" (platform.go:420-422): two reviewed authors, two opportunities.  *)
(* It does not hold: README, "Disagreements".                               *)
AuthorsAreTold ==
    \A v, w \in provenance : v.author # w.author => SourceOf(v) # SourceOf(w)
=============================================================================
