---------------------------- MODULE Review_proofs ----------------------------
(***************************************************************************)
(* Proofs about Review: no verdict but the one that was asked for, and one  *)
(* opportunity for a source.  The second rests on the slots: the chains     *)
(* between taking a source's slot and giving it back exclude each other.    *)
(***************************************************************************)
EXTENDS Review, TLAPS

Step == [pc : {"idle", "look", "slot", "again", "create", "free"},
         source : Source \cup {NoSource}]

HookOK ==
    /\ hook \in [Chain -> Step]
    /\ \A k \in Chain : hook[k].source = NoSource <=> hook[k].pc = "idle"

RestOK ==
    /\ assignments \in [Pair -> Lease \cup {NoLease}]
    /\ authorAssign \in [Dog -> Lease \cup {NoLease}]
    /\ cycles \in [Pair -> Lease \cup {NoLease}]
    /\ provenance \subseteq Lease
    /\ inFlight \subseteq Source
    /\ opportunity \in [Source -> {"none", "pending", "processed"}]
    /\ made \in [Source -> 0..2]

LEMMA Typed == TypeOK <=> HookOK /\ RestOK
  BY DEF TypeOK, HookOK, RestOK, Step

LEMMA PairOf ==
    ASSUME NEW x \in Dog, NEW y \in Dog, x # y PROVE {x, y} \in Pair
  BY DEF Pair

LEMMA PutTypes ==
    ASSUME HookOK, NEW k \in Chain, NEW e \in Step, e.source = NoSource <=> e.pc = "idle",
           hook' = [hook EXCEPT ![k] = e]
    PROVE  HookOK'
<1>1. hook' \in [Chain -> Step]
  BY DEF HookOK
<1>2. ASSUME NEW j \in Chain PROVE hook'[j].source = NoSource <=> hook'[j].pc = "idle"
  <2>1. CASE j = k
    BY <2>1 DEF HookOK
  <2>2. CASE j # k
    BY <2>2 DEF HookOK
  <2> QED
    BY <2>1, <2>2
<1> QED
  BY <1>1, <1>2 DEF HookOK

(* What the two ways on do to the hooks.                                    *)
LEMMA MovesOn ==
    ASSUME HookOK, NEW k \in Chain, hook[k].pc # "idle",
           NEW pc \in {"slot", "again", "create", "free"}, Moves(k, pc)
    PROVE  /\ HookOK'
           /\ hook'[k].pc = pc /\ hook'[k].source = hook[k].source
           /\ \A j \in Chain : j # k => hook'[j] = hook[j]
<1> DEFINE e == [pc |-> pc, source |-> hook[k].source]
<1>1. hook[k] \in Step
  BY DEF HookOK
<1>2. e \in Step /\ e.source # NoSource /\ e.pc # "idle"
  BY <1>1 DEF Step, HookOK
<1>3. [hook[k] EXCEPT !.pc = pc] = e
  BY <1>1 DEF Step
<1>4. hook' = [hook EXCEPT ![k] = e]
  BY <1>3 DEF Moves
<1>5. hook'[k] = e /\ \A j \in Chain : j # k => hook'[j] = hook[j]
  BY <1>4 DEF HookOK
<1>6. e.pc = pc /\ e.source = hook[k].source
  OBVIOUS
<1> HIDE DEF e
<1> QED
  BY <1>2, <1>4, <1>5, <1>6, PutTypes

LEMMA LeavesOff ==
    ASSUME HookOK, NEW k \in Chain, Leaves(k)
    PROVE  /\ HookOK'
           /\ hook'[k].pc = "idle"
           /\ \A j \in Chain : j # k => hook'[j] = hook[j]
<1>1. Resting \in Step /\ Resting.source = NoSource /\ Resting.pc = "idle"
  BY DEF Resting, Step
<1>2. hook' = [hook EXCEPT ![k] = Resting]
  BY DEF Leaves
<1>3. hook'[k] = Resting /\ \A j \in Chain : j # k => hook'[j] = hook[j]
  BY <1>2 DEF HookOK
<1> QED
  BY <1>1, <1>2, <1>3, PutTypes
-----------------------------------------------------------------------------
LEMMA TypeInit == Init => HookOK /\ RestOK
<1> SUFFICES ASSUME Init PROVE HookOK /\ RestOK
  OBVIOUS
<1>1. HookOK
  BY ReviewAssumption DEF Init, HookOK, Step, Resting
<1>2. RestOK
  BY DEF Init, RestOK
<1> QED
  BY <1>1, <1>2

(* What a returned verdict is.                                              *)
LEMMA Returned ==
    ASSUME RestOK, NEW k \in Chain, NEW from \in Dog, NEW to \in Default,
           NEW thread \in Thread, from # to, Return(k, from, to, thread)
    PROVE  /\ LeaseOf(from, to) \in Lease
           /\ LeaseOf(from, to) = [author |-> to, reviewer |-> from, thread |-> thread]
           /\ cycles' \in [Pair -> Lease \cup {NoLease}]
           /\ \A p \in Pair : cycles'[p] = IF p = {from, to} /\ cycles[p] = NoLease
                                          THEN LeaseOf(from, to) ELSE cycles[p]
<1>1. to \in Dog /\ {from, to} \in Pair
  BY ReviewAssumption, PairOf
<1>2. LeaseOf(from, to) \in Lease \cup {NoLease}
  BY <1>1 DEF RestOK, LeaseOf
<1>3. LeaseOf(from, to) \in Lease
  BY <1>2 DEF Return
<1>4. /\ LeaseOf(from, to).author = to /\ LeaseOf(from, to).reviewer = from
      /\ LeaseOf(from, to).thread = thread
  BY DEF Return, MayReturn
<1>5. LeaseOf(from, to) = [author |-> to, reviewer |-> from, thread |-> thread]
  BY <1>3, <1>4 DEF Lease
<1>6. cycles' = [cycles EXCEPT ![{from, to}] = IF cycles[{from, to}] = NoLease
                                               THEN LeaseOf(from, to) ELSE cycles[{from, to}]]
  BY DEF Return
<1>7. cycles' \in [Pair -> Lease \cup {NoLease}]
  BY <1>1, <1>3, <1>6 DEF RestOK
<1> QED
  BY <1>1, <1>3, <1>5, <1>6, <1>7 DEF RestOK

LEMMA TypeStep == HookOK /\ RestOK /\ [Next]_vars => (HookOK /\ RestOK)'
<1> SUFFICES ASSUME HookOK, RestOK, [Next]_vars PROVE (HookOK /\ RestOK)'
  OBVIOUS
<1>1. ASSUME NEW k \in Chain, NEW from \in Dog, NEW to \in Default, NEW thread \in Thread,
             from # to, Issue(from, to, thread)
      PROVE  (HookOK /\ RestOK)'
  <2>1. {from, to} \in Pair /\ to \in Dog
    BY <1>1, ReviewAssumption, PairOf
  <2>2. [author |-> from, reviewer |-> to, thread |-> thread] \in Lease
    BY <2>1 DEF Lease
  <2>3. /\ assignments' \in [Pair -> Lease \cup {NoLease}]
        /\ authorAssign' \in [Dog -> Lease \cup {NoLease}]
    <3> DEFINE lease == [author |-> from, reviewer |-> to, thread |-> thread]
    <3>1. /\ assignments' = [assignments EXCEPT ![{from, to}] = lease]
          /\ authorAssign' = [authorAssign EXCEPT ![from] = lease]
      BY <1>1 DEF Issue
    <3>2. lease \in Lease
      BY <2>2
    <3> HIDE DEF lease
    <3> QED
      BY <2>1, <3>1, <3>2 DEF RestOK
  <2>4. UNCHANGED <<hook, cycles, provenance, inFlight, opportunity, made>>
    BY <1>1 DEF Issue, checkpoint
  <2> QED
    BY <2>3, <2>4 DEF HookOK, RestOK
<1>2. ASSUME NEW k \in Chain, NEW from \in Dog, NEW to \in Default, NEW thread \in Thread,
             from # to, Return(k, from, to, thread)
      PROVE  (HookOK /\ RestOK)'
  <2> DEFINE e == [pc |-> "look", source |-> [thread |-> thread, reviewer |-> from]]
  <2>1. LeaseOf(from, to).reviewer = from
    BY <1>2, Returned
  <2>2. e \in Step /\ e.source # NoSource /\ e.pc # "idle"
    BY ReviewAssumption DEF Step, Source
  <2>3. UNCHANGED hook \/ hook' = [hook EXCEPT ![k] = e]
    BY <1>2, <2>1 DEF Return
  <2>4. [author |-> to, reviewer |-> from, thread |-> thread] \in Lease
    BY ReviewAssumption DEF Lease
  <2>5. provenance' \subseteq Lease
    BY <1>2, <2>1, <2>4 DEF Return, RestOK
  <2>6. RestOK'
    <3>1. cycles' \in [Pair -> Lease \cup {NoLease}]
      BY <1>2, Returned
    <3>2. UNCHANGED <<assignments, authorAssign, inFlight, opportunity, made>>
      BY <1>2 DEF Return
    <3> QED
      BY <2>5, <3>1, <3>2 DEF RestOK
  <2> HIDE DEF e
  <2>7. HookOK'
    BY <2>2, <2>3, PutTypes DEF HookOK
  <2> QED
    BY <2>6, <2>7
<1>3. ASSUME NEW k \in Chain, Hook(k) PROVE (HookOK /\ RestOK)'
  <2>1. hook[k].pc # "idle" /\ hook[k].source \in Source
    BY <1>3 DEF Hook, Look, TakeSlot, Again, Create, Free, HookOK, Step
  <2>2. Leaves(k) \/ \E pc \in {"slot", "again", "create", "free"} : Moves(k, pc)
    BY <1>3 DEF Hook, Look, TakeSlot, Again, Create, Free
  <2>3. HookOK'
    BY <2>1, <2>2, MovesOn, LeavesOff
  <2>4. UNCHANGED guard /\ inFlight' \subseteq Source
    BY <1>3, <2>1 DEF Hook, Look, TakeSlot, Again, Create, Free, guard, RestOK
  <2>5. /\ opportunity' \in [Source -> {"none", "pending", "processed"}]
        /\ made' \in [Source -> 0..2]
    BY <1>3, <2>1 DEF Hook, Look, TakeSlot, Again, Create, Free, RestOK
  <2> QED
    BY <2>3, <2>4, <2>5 DEF RestOK, guard
<1>4. ASSUME NEW s \in Source, Settle(s) PROVE (HookOK /\ RestOK)'
  BY <1>4 DEF Settle, HookOK, RestOK, guard
<1>5. CASE UNCHANGED vars
  BY <1>5 DEF vars, HookOK, RestOK
<1> QED
  BY <1>1, <1>2, <1>3, <1>4, <1>5 DEF Next, Handoff

LEMMA TypeNext == TypeOK /\ [Next]_vars => TypeOK'
  BY Typed, TypeStep, PTL

(* TypeOK is an invariant of the guard and the checkpoint for any number of  *)
(* dogs, threads and chains (sop_guardian.go:168-290, checkpoint.go:183).   *)
THEOREM TypeCorrect == Spec => []TypeOK
  BY Typed, TypeInit, TypeNext, PTL DEF Spec
-----------------------------------------------------------------------------
(* An author's last lease is the lease of its pair, too.                    *)
LatestIsLease ==
    \A d \in Dog : authorAssign[d] # NoLease =>
        /\ authorAssign[d].author = d /\ authorAssign[d].reviewer # d
        /\ assignments[{d, authorAssign[d].reviewer}] = authorAssign[d]

Asked == VerdictsWereAsked /\ LatestIsLease

LEMMA AskedInit == Init => Asked
  BY DEF Init, Asked, VerdictsWereAsked, LatestIsLease

(* Issuing a lease touches no pair that has one.                            *)
LEMMA IssueKeeps ==
    ASSUME HookOK, RestOK, Asked, NEW from \in Dog, NEW to \in Default, NEW thread \in Thread,
           from # to, Issue(from, to, thread)
    PROVE  Asked'
<1> DEFINE lease == [author |-> from, reviewer |-> to, thread |-> thread]
<1>1. {from, to} \in Pair /\ to \in Dog
  BY ReviewAssumption, PairOf
<1>2. assignments[{from, to}] = NoLease
  BY DEF Issue, LeaseOf
<1>3. /\ assignments' = [assignments EXCEPT ![{from, to}] = lease]
      /\ authorAssign' = [authorAssign EXCEPT ![from] = lease]
      /\ UNCHANGED <<cycles, provenance>>
  BY DEF Issue
<1>4. lease.author = from /\ lease.reviewer = to /\ lease \in Lease
  BY <1>1 DEF Lease
<1> HIDE DEF lease
<1>5. \A p \in Pair : assignments[p] # NoLease => assignments'[p] = assignments[p]
  BY <1>2, <1>3 DEF RestOK
<1>6. assignments'[{from, to}] = lease /\ authorAssign'[from] = lease
  BY <1>1, <1>3 DEF RestOK
<1>7. \A v \in provenance : assignments'[{v.author, v.reviewer}] = v
  <2> SUFFICES ASSUME NEW v \in provenance PROVE assignments'[{v.author, v.reviewer}] = v
    OBVIOUS
  <2>1. assignments[{v.author, v.reviewer}] = v /\ v \in Lease /\ v # NoLease
    BY ReviewAssumption DEF Asked, VerdictsWereAsked, RestOK
  <2>2. {v.author, v.reviewer} # {from, to}
    BY <1>2, <2>1
  <2> QED
    BY <1>3, <2>1, <2>2
<1>8. \A p \in Pair : cycles'[p] \in {NoLease, assignments'[p]}
  BY <1>3, <1>5 DEF Asked, VerdictsWereAsked
<1>9. LatestIsLease'
  <2> SUFFICES ASSUME NEW d \in Dog, authorAssign'[d] # NoLease
               PROVE  /\ authorAssign'[d].author = d /\ authorAssign'[d].reviewer # d
                      /\ assignments'[{d, authorAssign'[d].reviewer}] = authorAssign'[d]
    BY DEF LatestIsLease
  <2>1. CASE d = from
    BY <1>4, <1>6, <2>1
  <2>2. CASE d # from
    <3>1. authorAssign'[d] = authorAssign[d]
      BY <1>3, <2>2 DEF RestOK
    <3>2. /\ authorAssign[d].author = d /\ authorAssign[d].reviewer # d
          /\ assignments[{d, authorAssign[d].reviewer}] = authorAssign[d]
      BY <3>1 DEF Asked, LatestIsLease
    <3>3. {d, authorAssign[d].reviewer} # {from, to}
      BY <1>2, <3>1, <3>2
    <3>4. authorAssign[d] \in Lease
      BY <3>1 DEF RestOK
    <3>5. {d, authorAssign[d].reviewer} \in Pair
      BY <3>2, <3>4, PairOf DEF Lease
    <3> QED
      BY <1>3, <3>1, <3>2, <3>3, <3>5 DEF RestOK
  <2> QED
    BY <2>1, <2>2
<1> QED
  BY <1>3, <1>7, <1>8, <1>9 DEF Asked, VerdictsWereAsked

(* A verdict comes back on the lease of its own pair.                       *)
LEMMA ReturnKeeps ==
    ASSUME HookOK, RestOK, Asked, NEW k \in Chain, NEW from \in Dog, NEW to \in Default,
           NEW thread \in Thread, from # to, Return(k, from, to, thread)
    PROVE  Asked'
<1> DEFINE lease == [author |-> to, reviewer |-> from, thread |-> thread]
<1>1. {from, to} \in Pair /\ to \in Dog
  BY ReviewAssumption, PairOf
<1>2. LeaseOf(from, to) = lease /\ LeaseOf(from, to) \in Lease
  BY Returned
<1>3. lease.author = to /\ lease.reviewer = from /\ lease # NoLease
  BY <1>2, ReviewAssumption
<1> HIDE DEF lease
<1>4. assignments[{from, to}] = lease
  <2>1. CASE assignments[{from, to}] # NoLease
    BY <1>2, <2>1 DEF LeaseOf
  <2>2. CASE assignments[{from, to}] = NoLease
    <3>1. authorAssign[to] = lease
      BY <1>2, <2>2 DEF LeaseOf
    <3>2. assignments[{to, from}] = lease
      BY <1>1, <1>3, <3>1 DEF Asked, LatestIsLease
    <3>3. {to, from} = {from, to}
      OBVIOUS
    <3> QED
      BY <3>2, <3>3
  <2> QED
    BY <2>1, <2>2
<1>5. UNCHANGED <<assignments, authorAssign>>
  BY DEF Return
<1>6. provenance' \subseteq provenance \cup {lease}
  BY <1>2, <1>3 DEF Return, lease
<1>7. \A v \in provenance' : assignments'[{v.author, v.reviewer}] = v
  <2>1. {to, from} = {from, to}
    OBVIOUS
  <2> QED
    BY <1>3, <1>4, <1>5, <1>6, <2>1 DEF Asked, VerdictsWereAsked
<1>8. \A p \in Pair : cycles'[p] \in {NoLease, assignments'[p]}
  BY <1>2, <1>4, <1>5, Returned DEF Asked, VerdictsWereAsked
<1> QED
  BY <1>5, <1>7, <1>8 DEF Asked, VerdictsWereAsked, LatestIsLease

LEMMA AskedNext == TypeOK /\ Asked /\ [Next]_vars => Asked'
<1> SUFFICES ASSUME HookOK, RestOK, Asked, [Next]_vars PROVE Asked'
  BY Typed
<1>1. ASSUME UNCHANGED guard PROVE Asked'
  BY <1>1 DEF guard, Asked, VerdictsWereAsked, LatestIsLease
<1>2. ASSUME NEW k \in Chain, NEW from \in Dog, NEW to \in Default, NEW thread \in Thread,
             Handoff(k, from, to, thread)
      PROVE  Asked'
  BY <1>2, IssueKeeps, ReturnKeeps DEF Handoff
<1>3. ASSUME NEW k \in Chain, Hook(k) PROVE UNCHANGED guard
  BY <1>3 DEF Hook, Look, TakeSlot, Again, Create, Free
<1>4. ASSUME NEW s \in Source, Settle(s) PROVE UNCHANGED guard
  BY <1>4 DEF Settle
<1>5. UNCHANGED vars => UNCHANGED guard
  BY DEF vars, guard
<1> QED
  BY <1>1, <1>2, <1>3, <1>4, <1>5 DEF Next

(* A recorded verdict is the one its author asked for, and its review cycle  *)
(* agrees with the lease (sop_guardian.go:161-168, review.go:234-262).      *)
THEOREM Verdicts == Spec => []VerdictsWereAsked
<1>1. Asked => VerdictsWereAsked
  BY DEF Asked
<1> QED
  BY Typed, TypeInit, TypeNext, AskedInit, AskedNext, <1>1, PTL DEF Spec
-----------------------------------------------------------------------------
(* A chain that has its source's slot ...                                   *)
Holds(k) == hook[k].pc \in {"again", "create", "free"}

(* ... is the only one, and creates only what is not there.                 *)
Slots ==
    /\ \A k \in Chain : Holds(k) => hook[k].source \in inFlight
    /\ \A j, k \in Chain : Holds(j) /\ Holds(k) /\ hook[j].source = hook[k].source => j = k
    /\ \A k \in Chain : hook[k].pc = "create" => opportunity[hook[k].source] = "none"
    /\ \A s \in Source : IF opportunity[s] = "none" THEN made[s] = 0 ELSE made[s] = 1

LEMMA SlotsInit == Init => Slots
  BY DEF Init, Slots, Holds, Resting

(* A chain outside of the slot does nothing to it.                          *)
LEMMA SlotsApart ==
    ASSUME HookOK, RestOK, Slots, NEW k \in Chain, ~Holds(k), ~Holds(k)',
           \A j \in Chain : j # k => hook'[j] = hook[j],
           inFlight \subseteq inFlight', UNCHANGED <<opportunity, made>>
    PROVE  Slots'
<1>1. \A j \in Chain : Holds(j)' => j # k /\ Holds(j) /\ hook'[j] = hook[j]
  BY DEF Holds
<1>2. \A j \in Chain : hook'[j].pc = "create" => j # k /\ hook'[j] = hook[j]
  BY DEF Holds
<1> QED
  BY <1>1, <1>2 DEF Slots

LEMMA SlotsHook ==
    ASSUME HookOK, RestOK, Slots, NEW k \in Chain, Hook(k)
    PROVE  Slots'
<1>1. hook[k].pc # "idle" /\ hook[k].source \in Source
  BY DEF Hook, Look, TakeSlot, Again, Create, Free, HookOK, Step
<1>2. CASE Look(k)
  <2>1. ~Holds(k) /\ UNCHANGED <<inFlight, opportunity, made>> /\ (Leaves(k) \/ Moves(k, "slot"))
    BY <1>2 DEF Look, Holds
  <2>2. ~Holds(k)' /\ \A j \in Chain : j # k => hook'[j] = hook[j]
    BY <1>1, <2>1, MovesOn, LeavesOff DEF Holds
  <2> QED
    BY <2>1, <2>2, SlotsApart
<1>3. CASE TakeSlot(k) /\ hook[k].source \in inFlight
  <2>1. /\ ~Holds(k) /\ UNCHANGED <<opportunity, made>> /\ Leaves(k)
        /\ inFlight \subseteq inFlight'
    BY <1>3 DEF TakeSlot, Holds
  <2>2. ~Holds(k)' /\ \A j \in Chain : j # k => hook'[j] = hook[j]
    BY <2>1, LeavesOff DEF Holds
  <2> QED
    BY <2>1, <2>2, SlotsApart
<1>4. CASE TakeSlot(k) /\ hook[k].source \notin inFlight
  <2>1. /\ ~Holds(k) /\ UNCHANGED <<opportunity, made>> /\ Moves(k, "again")
        /\ inFlight' = inFlight \cup {hook[k].source}
    BY <1>4 DEF TakeSlot, Holds
  <2>2. /\ hook'[k].pc = "again" /\ hook'[k].source = hook[k].source
        /\ \A j \in Chain : j # k => hook'[j] = hook[j]
    BY <1>1, <2>1, MovesOn
  <2>3. \A j \in Chain : Holds(j) => hook[j].source # hook[k].source
    BY <1>4 DEF Slots
  <2>4. \A j \in Chain : Holds(j)' => hook'[j].source \in inFlight'
    BY <2>1, <2>2 DEF Slots, Holds
  <2>5. ASSUME NEW i \in Chain, NEW j \in Chain, Holds(i)', Holds(j)',
               hook'[i].source = hook'[j].source
        PROVE  i = j
    BY <2>2, <2>3, <2>5 DEF Slots, Holds
  <2> QED
    BY <2>1, <2>2, <2>4, <2>5 DEF Slots
<1>5. CASE Again(k)
  <2>1. /\ UNCHANGED <<inFlight, opportunity, made>> /\ hook[k].pc = "again"
        /\ Moves(k, IF Known(k) THEN "free" ELSE "create")
    BY <1>5 DEF Again
  <2>2. /\ hook'[k].pc = (IF Known(k) THEN "free" ELSE "create")
        /\ hook'[k].source = hook[k].source
        /\ \A j \in Chain : j # k => hook'[j] = hook[j]
    BY <1>1, <2>1, MovesOn
  <2>3. \A j \in Chain : (Holds(j)' <=> Holds(j)) /\ hook'[j].source = hook[j].source
    BY <2>1, <2>2 DEF Holds
  <2>4. \A j \in Chain : hook'[j].pc = "create" => opportunity[hook'[j].source] = "none"
    BY <2>2 DEF Known, Slots
  <2> QED
    BY <2>1, <2>3, <2>4 DEF Slots
<1>6. CASE Create(k)
  <2> DEFINE s == hook[k].source
  <2>1. /\ UNCHANGED inFlight /\ hook[k].pc = "create" /\ Moves(k, "free")
        /\ opportunity' = [opportunity EXCEPT ![s] = "pending"]
        /\ made' = [made EXCEPT ![s] = IF @ = 0 THEN 1 ELSE 2]
    BY <1>6 DEF Create
  <2>2. /\ hook'[k].pc = "free" /\ hook'[k].source = s
        /\ \A j \in Chain : j # k => hook'[j] = hook[j]
    BY <1>1, <2>1, MovesOn
  <2>3. \A j \in Chain : (Holds(j)' <=> Holds(j)) /\ hook'[j].source = hook[j].source
    BY <2>1, <2>2 DEF Holds
  <2>4. opportunity[s] = "none" /\ made[s] = 0
    BY <1>1, <2>1 DEF Slots
  <2>5. \A t \in Source : IF opportunity'[t] = "none" THEN made'[t] = 0 ELSE made'[t] = 1
    BY <1>1, <2>1, <2>4 DEF Slots, RestOK
  <2>6. ASSUME NEW j \in Chain, hook'[j].pc = "create" PROVE opportunity'[hook'[j].source] = "none"
    <3>1. j # k /\ hook'[j] = hook[j] /\ Holds(j) /\ Holds(k)
      BY <2>1, <2>2, <2>6 DEF Holds
    <3>2. hook[j].source # s /\ opportunity[hook[j].source] = "none"
      BY <2>6, <3>1 DEF Slots
    <3>3. hook[j].source \in Source
      BY <2>6, <3>1 DEF HookOK, Step
    <3> QED
      BY <2>1, <3>1, <3>2, <3>3 DEF RestOK
  <2> QED
    BY <2>1, <2>3, <2>5, <2>6 DEF Slots
<1>7. CASE Free(k)
  <2>1. /\ UNCHANGED <<opportunity, made>> /\ hook[k].pc = "free" /\ Leaves(k)
        /\ inFlight' = inFlight \ {hook[k].source}
    BY <1>7 DEF Free
  <2>2. hook'[k].pc = "idle" /\ \A j \in Chain : j # k => hook'[j] = hook[j]
    BY <2>1, LeavesOff
  <2>3. \A j \in Chain : Holds(j)' => j # k /\ Holds(j) /\ hook'[j] = hook[j]
    BY <2>2 DEF Holds
  <2>4. \A j \in Chain : Holds(j)' => hook[j].source # hook[k].source
    BY <2>1, <2>3 DEF Slots, Holds
  <2>5. \A j \in Chain : hook'[j].pc = "create" => j # k /\ hook'[j] = hook[j]
    BY <2>2
  <2> QED
    BY <2>1, <2>3, <2>4, <2>5 DEF Slots
<1> QED
  BY <1>2, <1>3, <1>4, <1>5, <1>6, <1>7 DEF Hook

LEMMA SlotsNext == TypeOK /\ Slots /\ [Next]_vars => Slots'
<1> SUFFICES ASSUME HookOK, RestOK, Slots, [Next]_vars PROVE Slots'
  BY Typed
<1>1. ASSUME UNCHANGED checkpoint PROVE Slots'
  BY <1>1 DEF checkpoint, Slots, Holds
<1>2. ASSUME NEW k \in Chain, NEW from \in Dog, NEW to \in Default, NEW thread \in Thread,
             Handoff(k, from, to, thread)
      PROVE  Slots'
  <2>1. hook[k].pc = "idle" /\ UNCHANGED <<inFlight, opportunity, made>>
    BY <1>2 DEF Handoff, Issue, Return, checkpoint
  <2>2. CASE UNCHANGED hook
    BY <1>1, <2>1, <2>2 DEF checkpoint
  <2>3. CASE ~UNCHANGED hook
    <3>1. PICK source : hook' = [hook EXCEPT ![k] = [pc |-> "look", source |-> source]]
      BY <1>2, <2>3 DEF Handoff, Issue, Return, checkpoint
    <3>2. hook'[k].pc = "look" /\ \A j \in Chain : j # k => hook'[j] = hook[j]
      BY <3>1 DEF HookOK
    <3>3. ~Holds(k) /\ ~Holds(k)'
      BY <2>1, <3>2 DEF Holds
    <3> QED
      BY <2>1, <3>2, <3>3, SlotsApart
  <2> QED
    BY <2>2, <2>3
<1>3. ASSUME NEW k \in Chain, Hook(k) PROVE Slots'
  BY <1>3, SlotsHook
<1>4. ASSUME NEW s \in Source, Settle(s) PROVE Slots'
  <2>1. /\ opportunity[s] = "pending" /\ UNCHANGED <<hook, inFlight, made>>
        /\ opportunity' = [opportunity EXCEPT ![s] = "processed"]
    BY <1>4 DEF Settle
  <2>2. \A t \in Source : opportunity'[t] = "none" <=> opportunity[t] = "none"
    BY <2>1 DEF RestOK
  <2>3. \A k \in Chain : hook[k].pc = "create" => hook[k].source \in Source
    BY DEF HookOK, Step
  <2>4. \A k \in Chain : hook'[k].pc = "create" => opportunity'[hook'[k].source] = "none"
    BY <2>1, <2>2, <2>3 DEF Slots
  <2> QED
    BY <2>1, <2>2, <2>4 DEF Slots, Holds
<1>5. UNCHANGED vars => UNCHANGED checkpoint
  BY DEF vars, checkpoint
<1> QED
  BY <1>1, <1>2, <1>3, <1>4, <1>5 DEF Next

(* However many verdicts are being recorded at a time, a source makes at     *)
(* most one opportunity (checkpoint.go:171-173, 183-220).                   *)
THEOREM One == Spec => []OnePerSource
<1>1. TypeOK /\ Slots => OnePerSource
  BY Typed DEF Slots, RestOK, OnePerSource
<1> QED
  BY Typed, TypeInit, TypeNext, SlotsInit, SlotsNext, <1>1, PTL DEF Spec
=============================================================================
