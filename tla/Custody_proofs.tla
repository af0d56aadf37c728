---------------------------- MODULE Custody_proofs ----------------------------
(***************************************************************************)
(* The proofs about the custody of a thread: the log and the sweep that    *)
(* reads it (CustodyLog), concurrent callers of the ledger (BallLedger),   *)
(* and the hold scheduler (HoldScheduler), for any number of dogs, callers,*)
(* holds and appends.  They share what they need of Custody.               *)
(***************************************************************************)
EXTENDS CustodyLog, BallLedger, HoldScheduler, SequenceTheorems, TLAPS

\* One event folds a well-typed view into a well-typed view.
LEMMA ObserveType == ASSUME NEW v \in View, NEW e \in Event PROVE Observe(v, e) \in View
  <1>1. StateAfter(v.state, e.type) \in BallState
    BY DEF View, Event, StateAfter, BallState
  <1>2. HolderAfter(v.state, v.holder, e) \in Holder
    BY DEF View, Event, HolderAfter
  <1> QED
    BY <1>1, <1>2 DEF Observe, View, Event, Stop

\* A handoff leaves its receiver holding the ball.
LEMMA HandoffHolder ==
  ASSUME NEW v \in View, NEW b \in Breed, NEW t \in Handoff
  PROVE  Observe(v, HandTo(t, b)).holder = b
  <1>1. t \notin Mute /\ t # "invocation.heartbeat" /\ t # "wake_condition_met"
    BY DEF Handoff, Mute, AuditOnly
  <1>2. b # None
    BY NoneIsNoBreed
  <1> QED
    BY <1>1, <1>2 DEF Observe, HolderAfter, HandTo, Speaks

\* The ball is parked after an event only if it was, or if the event parks it.
LEMMA ParkedAfter ==
  ASSUME NEW v \in View, NEW e \in Event, Observe(v, e).state = "parked", v.state # "parked"
  PROVE  e.type \in Parking
  BY DEF Observe, StateAfter, View, Event

\* An event that names a dog and no receiver is an event.
LEMMA ByEvent == ASSUME NEW b \in Holder, NEW t \in EventType PROVE By(t, b) \in Event
  BY DEF By, Event, Holder
-----------------------------------------------------------------------------
(***************************************************************************)
(* CustodyLog.  The facts the fold carries are stated with the entry each  *)
(* was taken from, which an append either keeps or replaces.  The sweep    *)
(* has a measure: each of its entries takes from the room that is left.    *)
(***************************************************************************)
Started == {"invocation.started"}

\* No entry from the i-th on has one of these types; the i-th is the last that has.
NoneFrom(i, types) == \A j \in i..Len(log) : log[j].event.type \notin types
IsLast(i, types)   == log[i].event.type \in types /\ NoneFrom(i + 1, types)

\* ViewIsScan, as the entries the facts were taken from.
StartIsScanned ==
  \/ NoneFrom(1, Started) /\ view.started = None /\ ~view.inFlight
  \/ \E i \in 1..Len(log) :
       /\ IsLast(i, Started)
       /\ view.started = log[i].event.holder
       /\ view.inFlight <=> NoneFrom(i + 1, Stop)
HandoffIsScanned ==
  \/ NoneFrom(1, Handoff) /\ view.lastTo = None
  \/ \E i \in 1..Len(log) : IsLast(i, Handoff) /\ view.lastTo = log[i].event.to

\* How many entries the sweep could still add to a log that ends with an entry of this
\* type and that nobody else writes to: degraded, then died, or an idle mark.
Room(v, last) ==
  IF v.inFlight THEN IF last = "ball.degraded" THEN 1 ELSE 2
  ELSE IF v.state = "blocked" /\ last # "task.idle_long" THEN 1
  ELSE 0

LastType == log[Len(log)].event.type
SweptTail(k) == \A j \in Len(log) - k + 1..Len(log) : log[j].swept
TailIsShort == \A k \in 1..Len(log) : SweptTail(k) => k + Room(view, LastType) <= 3

\* If nobody wrote since the last verdict, the one under way is of the present view.
Deserved(type) ==
  \/ type = "invocation.died" /\ view.inFlight
  \/ type = "ball.degraded" /\ view.inFlight /\ LastType # "ball.degraded"
  \/ type = "task.idle_long" /\ ~view.inFlight /\ view.state = "blocked" /\ LastType # "task.idle_long"
VerdictIsFresh ==
  verdict # NoVerdict =>
    /\ log # <<>>
    /\ verdict.type \in {"invocation.died", "ball.degraded", "task.idle_long"}
    /\ log[Len(log)].swept => Deserved(verdict.type)

LogIInv ==
  /\ LogTypeOK
  /\ StartIsScanned /\ HandoffIsScanned
  /\ HolderIsNotRefused
  /\ SweepIsSparse /\ TailIsShort /\ VerdictIsFresh
-----------------------------------------------------------------------------
\* What an append makes of the log.
LEMMA WriteLog ==
  ASSUME LogTypeOK, NEW e \in Event, NEW swept \in BOOLEAN, Write(e, swept)
  PROVE  /\ log' \in Seq(EntrySet) /\ Len(log) \in Nat /\ Len(log') = Len(log) + 1
         /\ \A i \in 1..Len(log) : log'[i] = log[i]
         /\ log'[Len(log) + 1].event = e /\ log'[Len(log) + 1].swept = swept
         /\ view' = Observe(view, e) /\ view \in View /\ view' \in View
  <1>1. Entry(e, swept) \in EntrySet
    <2>1. MaxAge \in Nat
      BY ThresholdsAssumption DEF MaxAge
    <2> QED
      BY <2>1 DEF Entry, EntrySet
  <1>2. log \in Seq(EntrySet) /\ log' = Append(log, Entry(e, swept))
    BY DEF LogTypeOK, Write
  <1>3. /\ log' \in Seq(EntrySet) /\ Len(log') = Len(log) + 1
        /\ \A i \in 1..Len(log) : log'[i] = log[i]
        /\ log'[Len(log) + 1] = Entry(e, swept)
    BY <1>1, <1>2, AppendProperties
  <1>4. Len(log) \in Nat
    BY <1>2, LenProperties
  <1>5. view' = Observe(view, e) /\ view \in View /\ view' \in View
    BY ObserveType DEF LogTypeOK, Write
  <1> QED
    BY <1>3, <1>4, <1>5 DEF Entry

\* Time changes nothing but ages.
LEMMA PassLog ==
  ASSUME LogTypeOK, TimePasses
  PROVE  /\ log' \in Seq(EntrySet) /\ Len(log) \in Nat /\ Len(log') = Len(log)
         /\ \A i \in 1..Len(log) : log'[i].event = log[i].event /\ log'[i].swept = log[i].swept
         /\ UNCHANGED <<view, activity, verdict>>
  <1>1. log \in Seq(EntrySet) /\ Len(log) \in Nat /\ DOMAIN log = 1..Len(log)
    BY LenProperties DEF LogTypeOK
  <1>2. log' = [i \in 1..Len(log) |-> Older(log[i])]
    BY <1>1 DEF TimePasses
  <1>3. \A i \in 1..Len(log) : Older(log[i]) \in EntrySet
    <2>1. MaxAge \in Nat
      BY ThresholdsAssumption DEF MaxAge
    <2>2. \A x \in EntrySet : Older(x) \in EntrySet
      BY <2>1 DEF Older, EntrySet
    <2> QED
      BY <1>1, <2>2, ElementOfSeq
  <1>4. log' \in [1..Len(log) -> EntrySet]
    BY <1>2, <1>3
  <1>5. log' \in Seq(EntrySet)
    BY <1>1, <1>4, SeqDef
  <1>6. Len(log') = Len(log)
    BY <1>1, <1>4, <1>5, LenProperties
  <1> QED
    BY <1>1, <1>2, <1>5, <1>6 DEF TimePasses, Older

\* A verdict is an event.
LEMMA VerdictType ==
  ASSUME view \in View
  PROVE  /\ Verdict \in Event \cup {NoVerdict}
         /\ Verdict # NoVerdict => /\ Verdict.type \in {"invocation.died", "ball.degraded", "task.idle_long"}
                                   /\ Deserved(Verdict.type)
  <1>1. /\ By("invocation.died", view.started) \in Event
        /\ By("ball.degraded", view.started) \in Event
        /\ By("task.idle_long", view.holder) \in Event
    BY ByEvent DEF View, EventType, Stop
  <1>2. \/ Verdict = By("invocation.died", view.started) /\ Deserved("invocation.died")
        \/ Verdict = By("ball.degraded", view.started) /\ Deserved("ball.degraded")
        \/ Verdict = By("task.idle_long", view.holder) /\ Deserved("task.idle_long")
        \/ Verdict = NoVerdict
    <2>1. \/ view.inFlight /\ Verdict = By("invocation.died", view.started)
          \/ view.inFlight /\ LastType # "ball.degraded" /\ Verdict = By("ball.degraded", view.started)
          \/ /\ ~view.inFlight /\ view.state = "blocked" /\ LastType # "task.idle_long"
             /\ Verdict = By("task.idle_long", view.holder)
          \/ Verdict = NoVerdict
      BY DEF Verdict, LastType, Last
    <2> QED
      BY <2>1 DEF Deserved
  <1> QED
    BY <1>1, <1>2 DEF By
-----------------------------------------------------------------------------
LEMMA LogInitInv == LogInit => LogIInv
  <1> SUFFICES ASSUME LogInit PROVE LogIInv
    OBVIOUS
  <1>1. LogTypeOK
    BY EmptySeq DEF LogInit, LogTypeOK, EmptyView, View, BallState, Holder
  <1>2. Len(log) = 0 /\ DOMAIN log = {}
    BY DEF LogInit
  <1> QED
    BY <1>1, <1>2
    DEF LogInit, LogIInv, StartIsScanned, HandoffIsScanned, NoneFrom, HolderIsNotRefused, SweepIsSparse,
        TailIsShort, VerdictIsFresh, EmptyView

LEMMA LogTypeStep == LogTypeOK /\ [LogNext]_logVars => LogTypeOK'
  <1> SUFFICES ASSUME LogTypeOK, [LogNext]_logVars PROVE LogTypeOK'
    OBVIOUS
  <1>1. ASSUME NEW e \in Event, NEW swept \in BOOLEAN, Write(e, swept), verdict' \in Event \cup {NoVerdict}
        PROVE  LogTypeOK'
    <2>1. activity' \in 0..Len(log') /\ (view'.inFlight => activity' > 0)
      <3>1. Len(log) \in Nat /\ Len(log') = Len(log) + 1 /\ view' = Observe(view, e) /\ view \in View
        BY <1>1, WriteLog
      <3>2. view'.inFlight => view.inFlight \/ e.type = "invocation.started"
        BY <3>1 DEF Observe
      <3> QED
        BY <1>1, <3>1, <3>2 DEF Write, IsActivity, LogTypeOK
    <2> QED
      BY <1>1, <2>1, WriteLog DEF LogTypeOK
  <1>2. ASSUME NEW e \in Writable, Recorded(e) PROVE LogTypeOK'
    BY <1>1, <1>2, WritableAssumption DEF Recorded, LogTypeOK
  <1>3. CASE SweepRead
    BY <1>3, VerdictType DEF SweepRead, LogTypeOK
  <1>4. CASE SweepWrite
    BY <1>1, <1>4 DEF SweepWrite, LogTypeOK
  <1>5. CASE TimePasses
    BY <1>5, PassLog DEF LogTypeOK
  <1>6. CASE UNCHANGED logVars
    BY <1>6 DEF logVars, LogTypeOK
  <1> QED
    BY <1>2, <1>3, <1>4, <1>5, <1>6 DEF LogNext
-----------------------------------------------------------------------------
\* An append, whoever makes it, keeps the facts the guards scan for.
LEMMA ScanWrite ==
  ASSUME LogTypeOK, StartIsScanned, HandoffIsScanned, NEW e \in Event, NEW swept \in BOOLEAN, Write(e, swept)
  PROVE  StartIsScanned' /\ HandoffIsScanned'
  <1>0. PICK n \in Nat : n = Len(log)
    BY WriteLog
  <1>1. /\ n = Len(log) /\ Len(log') = n + 1 /\ \A i \in 1..n : log'[i] = log[i]
        /\ log'[n + 1].event = e /\ view' = Observe(view, e)
    BY <1>0, WriteLog
  <1>2. StartIsScanned'
    <2>1. CASE e.type = "invocation.started"
      <3>1. view'.started = e.holder /\ view'.inFlight
        BY <1>1, <2>1 DEF Observe
      <3>2. IsLast(n + 1, Started)'
        BY <1>1, <2>1 DEF IsLast, NoneFrom, Started
      <3>3. NoneFrom(n + 2, Stop)'
        BY <1>1 DEF NoneFrom
      <3> QED
        BY <1>1, <3>1, <3>2, <3>3 DEF StartIsScanned
    <2>2. CASE e.type # "invocation.started"
      <3>1. view'.started = view.started /\ (view'.inFlight <=> view.inFlight /\ e.type \notin Stop)
        BY <1>1, <2>2 DEF Observe
      <3>2. CASE NoneFrom(1, Started) /\ view.started = None /\ ~view.inFlight
        <4>1. NoneFrom(1, Started)'
          BY <1>1, <2>2, <3>2 DEF NoneFrom, Started
        <4> QED
          BY <3>1, <3>2, <4>1 DEF StartIsScanned
      <3>3. ASSUME NEW i \in 1..n, IsLast(i, Started), view.started = log[i].event.holder,
                   view.inFlight <=> NoneFrom(i + 1, Stop)
            PROVE  StartIsScanned'
        <4>1. IsLast(i, Started)'
          BY <1>1, <2>2, <3>3 DEF IsLast, NoneFrom, Started
        <4>2. view'.inFlight <=> NoneFrom(i + 1, Stop)'
          <5>1. view'.inFlight <=> (e.type \notin Stop /\ \A j \in i + 1..n : log[j].event.type \notin Stop)
            BY <1>1, <3>1, <3>3 DEF NoneFrom
          <5>2. \A j \in i + 1..n + 1 : j = n + 1 \/ (j \in i + 1..n /\ j \in 1..n)
            BY <3>3
          <5>3. n + 1 \in i + 1..n + 1 /\ \A j \in i + 1..n : j \in i + 1..n + 1 /\ j \in 1..n
            BY <3>3
          <5>4. NoneFrom(i + 1, Stop)' <=> \A j \in i + 1..n + 1 : log'[j].event.type \notin Stop
            BY <1>1 DEF NoneFrom
          <5> QED
            BY <1>1, <5>1, <5>2, <5>3, <5>4
        <4>3. i \in 1..n + 1 /\ view'.started = log'[i].event.holder
          BY <1>1, <3>1, <3>3
        <4> QED
          BY <1>1, <4>1, <4>2, <4>3 DEF StartIsScanned
      <3> QED
        BY <1>1, <3>2, <3>3 DEF StartIsScanned
    <2> QED
      BY <2>1, <2>2
  <1>3. HandoffIsScanned'
    <2>1. CASE e.type \in Handoff
      <3>1. view'.lastTo = e.to
        BY <1>1, <2>1 DEF Observe
      <3>2. IsLast(n + 1, Handoff)'
        BY <1>1, <2>1 DEF IsLast, NoneFrom, Started
      <3> QED
        BY <1>1, <3>1, <3>2 DEF HandoffIsScanned
    <2>2. CASE e.type \notin Handoff
      <3>1. view'.lastTo = view.lastTo
        BY <1>1, <2>2 DEF Observe
      <3>2. CASE NoneFrom(1, Handoff) /\ view.lastTo = None
        <4>1. NoneFrom(1, Handoff)'
          BY <1>1, <2>2, <3>2 DEF NoneFrom
        <4> QED
          BY <3>1, <3>2, <4>1 DEF HandoffIsScanned
      <3>3. ASSUME NEW i \in 1..n, IsLast(i, Handoff), view.lastTo = log[i].event.to
            PROVE  HandoffIsScanned'
        <4>1. IsLast(i, Handoff)'
          BY <1>1, <2>2, <3>3 DEF IsLast, NoneFrom, Started
        <4>2. i \in 1..n + 1 /\ view'.lastTo = log'[i].event.to
          BY <1>1, <3>1, <3>3
        <4> QED
          BY <1>1, <4>1, <4>2 DEF HandoffIsScanned
      <3> QED
        BY <1>1, <3>2, <3>3 DEF HandoffIsScanned
    <2> QED
      BY <2>1, <2>2
  <1> QED
    BY <1>2, <1>3

\* A step that leaves view, events and authors as they are leaves the scans alone too.
LEMMA SameEvents ==
  ASSUME LogIInv, UNCHANGED view, Len(log') = Len(log), Len(log) \in Nat, DOMAIN log' = DOMAIN log, DOMAIN log = 1..Len(log),
         \A i \in 1..Len(log) : log'[i].event = log[i].event /\ log'[i].swept = log[i].swept
  PROVE  StartIsScanned' /\ HandoffIsScanned' /\ HolderIsNotRefused' /\ SweepIsSparse' /\ TailIsShort'
  <1> USE DEF LogIInv
  <1>1. \A types : \A i \in Nat : i >= 1 => (NoneFrom(i, types)' <=> NoneFrom(i, types))
    BY DEF NoneFrom
  <1>2. \A types : \A i \in 1..Len(log) : IsLast(i, types)' <=> IsLast(i, types)
    BY <1>1 DEF IsLast
  <1>3. StartIsScanned' /\ HandoffIsScanned'
    BY <1>1, <1>2 DEF StartIsScanned, HandoffIsScanned
  <1>4. HolderIsNotRefused'
    <2> SUFFICES ASSUME NEW b \in Breed, NEW i \in DOMAIN log,
                        log'[i].event \in {HandTo(t, b) : t \in Handoff},
                        i < Len(log), log'[i + 1].event = By("invocation.started", b),
                        \A j \in i + 2..Len(log) : {log'[j].event.holder, log'[j].event.to} \subseteq {b, None}
                 PROVE  DispatchGuard(view', b)
      BY DEF HolderIsNotRefused, DispatchGuard, CurrentHolder, LatestInvocation, ExactHandoffIsLive
    <2>1. log[i].event = log'[i].event /\ log[i + 1].event = log'[i + 1].event
      OBVIOUS
    <2>2. \A j \in i + 2..Len(log) : j \in 1..Len(log)
      OBVIOUS
    <2>3. \A j \in i + 2..Len(log) : log[j].event = log'[j].event
      BY <2>2
    <2>4. DispatchGuard(view, b)
      BY <2>1, <2>3 DEF HolderIsNotRefused
    <2> QED
      BY <2>4
  <1>5. SweepIsSparse'
    BY DEF SweepIsSparse
  <1>6. TailIsShort'
    <2>1. \A k \in 1..Len(log) : SweptTail(k)' => SweptTail(k)
      BY DEF SweptTail
    <2>2. Len(log) > 0 => LastType' = LastType
      BY DEF LastType
    <2> QED
      BY <2>1, <2>2 DEF TailIsShort, Room
  <1> QED
    BY <1>3, <1>4, <1>5, <1>6

\* Who holds the ball and started stays the holder until an entry names another dog.
LEMMA HolderWrite ==
  ASSUME LogTypeOK, StartIsScanned, HandoffIsScanned, HolderIsNotRefused,
         NEW e \in Event, NEW swept \in BOOLEAN, Write(e, swept)
  PROVE  HolderIsNotRefused'
  <1>0. PICK n \in Nat : n = Len(log)
    BY WriteLog
  <1>1. /\ n = Len(log) /\ Len(log') = n + 1 /\ \A i \in 1..n : log'[i] = log[i]
        /\ log'[n + 1].event = e /\ view' = Observe(view, e)
        /\ DOMAIN log = 1..n /\ DOMAIN log' = 1..n + 1
    BY <1>0, WriteLog, LenProperties DEF LogTypeOK
  <1> SUFFICES ASSUME NEW b \in Breed, NEW i \in 1..n + 1,
                      log'[i].event \in {HandTo(t, b) : t \in Handoff},
                      i < n + 1, log'[i + 1].event = By("invocation.started", b),
                      \A j \in i + 2..n + 1 : {log'[j].event.holder, log'[j].event.to} \subseteq {b, None}
               PROVE  DispatchGuard(view', b)
    BY <1>1 DEF HolderIsNotRefused, DispatchGuard, CurrentHolder, LatestInvocation, ExactHandoffIsLive
  <1>2. b # None
    BY NoneIsNoBreed
  <1>3. CASE i < n
    <2>1. DispatchGuard(view, b)
      <3>1. log[i].event \in {HandTo(t, b) : t \in Handoff} /\ log[i + 1].event = By("invocation.started", b)
        BY <1>1, <1>3
      <3>2. \A j \in i + 2..n : {log[j].event.holder, log[j].event.to} \subseteq {b, None}
        BY <1>1
      <3>3. HolderIsNotRefused /\ i \in DOMAIN log /\ i < Len(log)
        BY <1>1, <1>3
      <3> QED
        BY ONLY <1>1, <3>1, <3>2, <3>3 DEF HolderIsNotRefused
    <2>2. e.holder \in {b, None} /\ e.to \in {b, None}
      <3>1. n + 1 \in i + 2..n + 1
        BY <1>3
      <3> QED
        BY <1>1, <3>1
    <2>3. view'.holder = b
      BY <1>1, <2>1, <2>2 DEF Observe, HolderAfter, DispatchGuard, CurrentHolder
    <2>4. view'.started \in {None, b} /\ view'.lastTo \in {None, b}
      BY <1>1, <2>1, <2>2 DEF Observe, DispatchGuard, LatestInvocation, ExactHandoffIsLive
    <2> QED
      BY <2>3, <2>4 DEF DispatchGuard, CurrentHolder, LatestInvocation, ExactHandoffIsLive
  <1>4. CASE i = n
    <2>1. e = By("invocation.started", b) /\ log[n].event \in {HandTo(t, b) : t \in Handoff} /\ n >= 1
      BY <1>1, <1>4
    <2>2. view.lastTo = b
      <3>1. log[n].event.to = b /\ log[n].event.type \in Handoff
        BY <2>1 DEF HandTo
      <3>2. \A k \in 1..n : IsLast(k, Handoff) => k = n
        BY <1>1, <2>1, <3>1 DEF IsLast, NoneFrom
      <3>3. ~NoneFrom(1, Handoff)
        BY <1>1, <2>1, <3>1 DEF NoneFrom
      <3> QED
        BY <1>1, <3>1, <3>2, <3>3 DEF HandoffIsScanned
    <2>3. view'.holder = b /\ view'.started = b /\ view'.lastTo = b
      <3>1. Speaks(view.state, e.type) /\ e.holder = b /\ e.type \notin Handoff /\ e.type = "invocation.started"
        BY <2>1 DEF Speaks, By, Mute, AuditOnly, Handoff
      <3> QED
        BY <1>1, <1>2, <2>2, <3>1 DEF Observe, HolderAfter
    <2> QED
      BY <2>3 DEF DispatchGuard, CurrentHolder, LatestInvocation, ExactHandoffIsLive
  <1> QED
    BY <1>3, <1>4
-----------------------------------------------------------------------------
\* An entry of the sweep's uses up room, one of anybody else's ends the run of entries.
LEMMA SparseWrite ==
  ASSUME LogTypeOK, SweepIsSparse, TailIsShort, NEW e \in Event, NEW swept \in BOOLEAN, Write(e, swept),
         swept => /\ log # <<>>
                  /\ log[Len(log)].swept => Room(Observe(view, e), e.type) + 1 <= Room(view, LastType)
  PROVE  SweepIsSparse' /\ TailIsShort'
  <1>0. PICK n \in Nat : n = Len(log)
    BY WriteLog
  <1>1. /\ n = Len(log) /\ Len(log') = n + 1 /\ \A i \in 1..n : log'[i] = log[i]
        /\ log'[n + 1].event = e /\ log'[n + 1].swept = swept /\ view' = Observe(view, e)
        /\ DOMAIN log = 1..n /\ DOMAIN log' = 1..n + 1
    BY <1>0, WriteLog, LenProperties DEF LogTypeOK
  <1>2. LastType' = e.type
    BY <1>1 DEF LastType
  <1>3. \A v, t : Room(v, t) \in 0..2
    BY DEF Room
  <1>4. TailIsShort'
    <2> SUFFICES ASSUME NEW k \in 1..n + 1, SweptTail(k)' PROVE k + Room(view', e.type) <= 3
      BY <1>1, <1>2 DEF TailIsShort
    <2>1. \A j \in n + 2 - k..n + 1 : log'[j].swept
      BY <1>1 DEF SweptTail
    <2>2. swept
      BY <1>1, <2>1
    <2>3. CASE k = 1
      BY <1>3, <2>3
    <2>4. CASE k > 1
      <3>1. \A j \in n - (k - 1) + 1..n : log[j].swept
        BY <1>1, <2>1, <2>4
      <3>2. k - 1 \in 1..n /\ SweptTail(k - 1)
        BY <1>1, <2>4, <3>1 DEF SweptTail
      <3>3. k - 1 + Room(view, LastType) <= 3
        BY <1>1, <3>2 DEF TailIsShort
      <3>4. log[n].swept
        BY <2>4, <3>1
      <3> QED
        BY <1>1, <1>3, <2>2, <3>3, <3>4
    <2> QED
      BY <2>3, <2>4
  <1>5. SweepIsSparse'
    <2> SUFFICES ASSUME NEW i \in 1..n + 1, i + 3 \in 1..n + 1, \A j \in i..i + 3 : log'[j].swept
                 PROVE  FALSE
      BY <1>1 DEF SweepIsSparse
    <2>1. CASE i + 3 <= n
      <3>1. \A j \in i..i + 3 : log[j].swept
        BY <1>1, <2>1
      <3>2. i \in DOMAIN log /\ i + 3 \in DOMAIN log
        BY <1>1, <2>1
      <3> QED
        BY ONLY <3>1, <3>2, SweepIsSparse DEF SweepIsSparse
    <2>2. CASE i + 3 = n + 1
      <3>1. \A j \in (n + 1) - 4 + 1..n + 1 : log'[j].swept
        BY <2>2
      <3>2. SweptTail(4)'
        BY <1>1, <3>1 DEF SweptTail
      <3>3. 4 \in 1..n + 1
        BY <2>2
      <3>4. 4 + Room(view', e.type) <= 3
        BY <1>1, <1>2, <1>4, <3>2, <3>3 DEF TailIsShort
      <3> QED
        BY <1>3, <3>4
    <2> QED
      BY <2>1, <2>2
  <1> QED
    BY <1>4, <1>5

\* A verdict that is of the present view takes one from the room.
LEMMA VerdictTakesRoom ==
  ASSUME NEW v \in View, NEW e \in Event, NEW last,
         \/ e.type = "invocation.died" /\ v.inFlight
         \/ e.type = "ball.degraded" /\ v.inFlight /\ last # "ball.degraded"
         \/ e.type = "task.idle_long" /\ ~v.inFlight /\ v.state = "blocked" /\ last # "task.idle_long"
  PROVE  Room(Observe(v, e), e.type) + 1 <= Room(v, last)
  <1>1. CASE e.type = "invocation.died" /\ v.inFlight
    <2>1. ~Observe(v, e).inFlight /\ Observe(v, e).state = "zombie"
      BY <1>1 DEF Observe, StateAfter, Stop, Activating, Handoff, Parking, Blocking, Killing
    <2> QED
      BY <1>1, <2>1 DEF Room
  <1>2. CASE e.type = "ball.degraded" /\ v.inFlight /\ last # "ball.degraded"
    <2>1. Observe(v, e).inFlight
      BY <1>2 DEF Observe, Stop
    <2> QED
      BY <1>2, <2>1 DEF Room
  <1>3. CASE e.type = "task.idle_long" /\ ~v.inFlight /\ v.state = "blocked" /\ last # "task.idle_long"
    <2>1. ~Observe(v, e).inFlight
      BY <1>3 DEF Observe
    <2> QED
      BY <1>3, <2>1 DEF Room
  <1> QED
    BY <1>1, <1>2, <1>3

LEMMA LogStep == LogIInv /\ [LogNext]_logVars => LogIInv'
  <1> SUFFICES ASSUME LogIInv, [LogNext]_logVars PROVE LogIInv'
    OBVIOUS
  <1>0. /\ LogTypeOK /\ LogTypeOK' /\ log \in Seq(EntrySet) /\ Len(log) \in Nat /\ DOMAIN log = 1..Len(log)
        /\ StartIsScanned /\ HandoffIsScanned /\ HolderIsNotRefused /\ SweepIsSparse /\ TailIsShort
    BY LogTypeStep, LenProperties DEF LogIInv, LogTypeOK
  <1>1. ASSUME NEW e \in Writable, Recorded(e) PROVE LogIInv'
    <2>1. e \in Event /\ Write(e, FALSE) /\ UNCHANGED verdict
      BY <1>1, WritableAssumption DEF Recorded
    <2>2. StartIsScanned' /\ HandoffIsScanned' /\ HolderIsNotRefused'
      BY <1>0, <2>1, ScanWrite, HolderWrite
    <2>3. SweepIsSparse' /\ TailIsShort'
      BY <1>0, <2>1, SparseWrite
    <2>4. VerdictIsFresh'
      <3>1. /\ Len(log') = Len(log) + 1 /\ log'[Len(log) + 1].swept = FALSE /\ log' \in Seq(EntrySet)
        BY <1>0, <2>1, WriteLog
      <3>2. log' # <<>>
        BY <1>0, <3>1
      <3> QED
        BY <2>1, <3>1, <3>2 DEF LogIInv, VerdictIsFresh
    <2> QED
      BY <1>0, <2>2, <2>3, <2>4 DEF LogIInv
  <1>2. CASE SweepRead
    <2>1. UNCHANGED <<log, view, activity>> /\ verdict' = Verdict /\ log # <<>>
      BY <1>2 DEF SweepRead
    <2>2. StartIsScanned' /\ HandoffIsScanned' /\ HolderIsNotRefused' /\ SweepIsSparse' /\ TailIsShort'
      BY <1>0, <2>1, SameEvents
    <2>3. VerdictIsFresh'
      <3>1. view \in View
        BY <1>0 DEF LogTypeOK
      <3>2. \A t : Deserved(t)' <=> Deserved(t)
        BY <2>1 DEF Deserved, LastType
      <3> QED
        BY <2>1, <3>1, <3>2, VerdictType DEF VerdictIsFresh
    <2> QED
      BY <1>0, <2>2, <2>3 DEF LogIInv
  <1>3. CASE SweepWrite
    <2>1. verdict \in Event /\ Write(verdict, TRUE) /\ verdict' = NoVerdict /\ verdict # NoVerdict
      BY <1>0, <1>3 DEF SweepWrite, LogTypeOK
    <2>2. StartIsScanned' /\ HandoffIsScanned' /\ HolderIsNotRefused'
      BY <1>0, <2>1, ScanWrite, HolderWrite
    <2>3. log # <<>> /\ (log[Len(log)].swept => Deserved(verdict.type))
      BY <2>1 DEF LogIInv, VerdictIsFresh
    <2>4. log[Len(log)].swept => Room(Observe(view, verdict), verdict.type) + 1 <= Room(view, LastType)
      BY <1>0, <2>1, <2>3, VerdictTakesRoom DEF Deserved, LogTypeOK
    <2>5. SweepIsSparse' /\ TailIsShort'
      BY <1>0, <2>1, <2>3, <2>4, SparseWrite
    <2> QED
      BY <1>0, <2>1, <2>2, <2>5 DEF LogIInv, VerdictIsFresh
  <1>4. CASE TimePasses
    <2>1. /\ log' \in Seq(EntrySet) /\ Len(log') = Len(log) /\ UNCHANGED <<view, activity, verdict>>
          /\ \A i \in 1..Len(log) : log'[i].event = log[i].event /\ log'[i].swept = log[i].swept
      BY <1>0, <1>4, PassLog
    <2>2. DOMAIN log' = DOMAIN log
      BY <1>0, <2>1, LenProperties
    <2>3. StartIsScanned' /\ HandoffIsScanned' /\ HolderIsNotRefused' /\ SweepIsSparse' /\ TailIsShort'
      BY <1>0, <2>1, <2>2, SameEvents
    <2>4. VerdictIsFresh'
      <3>1. log # <<>> => Len(log) \in 1..Len(log) /\ log' # <<>>
        BY <1>0, <2>1, EmptySeq
      <3>2. log # <<>> => LastType' = LastType
        BY <2>1, <3>1 DEF LastType
      <3> QED
        BY <2>1, <3>1, <3>2 DEF LogIInv, VerdictIsFresh, Deserved
    <2> QED
      BY <1>0, <2>3, <2>4 DEF LogIInv
  <1>5. CASE UNCHANGED logVars
    <2>1. UNCHANGED <<log, view, activity, verdict>>
      BY <1>5 DEF logVars
    <2>2. StartIsScanned' /\ HandoffIsScanned' /\ HolderIsNotRefused' /\ SweepIsSparse' /\ TailIsShort'
      BY <1>0, <2>1, SameEvents
    <2> QED
      BY <1>0, <2>1, <2>2 DEF LogIInv, VerdictIsFresh, Deserved, LastType
  <1> QED
    BY <1>1, <1>2, <1>3, <1>4, <1>5 DEF LogNext

\* The entries the facts were taken from are the ones a scan of the log finds.
LEMMA Scanned == LogIInv => ViewIsScan
  <1> SUFFICES ASSUME LogIInv PROVE ViewIsScan
    OBVIOUS
  <1>1. DOMAIN log = 1..Len(log) /\ Len(log) \in Nat
    BY LenProperties DEF LogIInv, LogTypeOK
  <1>2. LastWhere(IsStart) = {i \in 1..Len(log) : IsLast(i, Started)}
    BY <1>1 DEF LastWhere, IsStart, IsLast, NoneFrom, Started
  <1>3. LastWhere(IsHandoff) = {i \in 1..Len(log) : IsLast(i, Handoff)}
    BY <1>1 DEF LastWhere, IsHandoff, IsLast, NoneFrom
  <1>4. ASSUME NEW types, NEW i \in 1..Len(log), IsLast(i, types)
        PROVE  {k \in 1..Len(log) : IsLast(k, types)} = {i}
    BY <1>1, <1>4 DEF IsLast, NoneFrom
  <1>5. ASSUME NEW types, NoneFrom(1, types) PROVE {k \in 1..Len(log) : IsLast(k, types)} = {}
    BY <1>1, <1>5 DEF IsLast, NoneFrom
  <1>6. \A i : (CHOOSE k \in {i} : TRUE) = i
    OBVIOUS
  <1> DEFINE StartFacts ==
        /\ view.started = IF LastWhere(IsStart) = {} THEN None
                          ELSE log[CHOOSE i \in LastWhere(IsStart) : TRUE].event.holder
        /\ view.inFlight <=> \E i \in LastWhere(IsStart) :
                               \A j \in i + 1..Len(log) : log[j].event.type \notin Stop
      HandoffFact ==
        view.lastTo = IF LastWhere(IsHandoff) = {} THEN None
                      ELSE log[CHOOSE i \in LastWhere(IsHandoff) : TRUE].event.to
  <1>7. StartFacts
    <2>1. CASE NoneFrom(1, Started) /\ view.started = None /\ ~view.inFlight
      BY <1>2, <1>5, <2>1
    <2>2. ASSUME NEW i \in 1..Len(log), IsLast(i, Started), view.started = log[i].event.holder,
                 view.inFlight <=> NoneFrom(i + 1, Stop)
          PROVE  StartFacts
      <3>1. LastWhere(IsStart) = {i}
        BY <1>2, <1>4, <2>2
      <3> QED
        BY <1>6, <2>2, <3>1 DEF NoneFrom
    <2> QED
      BY <2>1, <2>2 DEF LogIInv, StartIsScanned
  <1>8. HandoffFact
    <2>1. CASE NoneFrom(1, Handoff) /\ view.lastTo = None
      BY <1>3, <1>5, <2>1
    <2>2. ASSUME NEW i \in 1..Len(log), IsLast(i, Handoff), view.lastTo = log[i].event.to
          PROVE  HandoffFact
      <3>1. LastWhere(IsHandoff) = {i}
        BY <1>3, <1>4, <2>2
      <3> QED
        BY <1>6, <2>2, <3>1
    <2> QED
      BY <2>1, <2>2 DEF LogIInv, HandoffIsScanned
  <1> QED
    BY <1>7, <1>8 DEF ViewIsScan
-----------------------------------------------------------------------------
\* The inductive invariant holds in every reachable state.
THEOREM LogInvariance == LogSpec => []LogIInv
  BY LogInitInv, LogStep, PTL DEF LogSpec

\* The log is one of events, and an invocation in flight has an entry to be idle since.
THEOREM LogTypeCorrect == LogSpec => []LogTypeOK
  BY LogInvariance, PTL DEF LogIInv

\* What the fold carries is what the guards and the reconciler would find by scanning the
\* whole log, however long it is and whoever wrote it.
THEOREM FoldIsScan == LogSpec => []ViewIsScan
  <1>1. LogIInv => ViewIsScan
    BY Scanned
  <1> QED
    BY <1>1, LogInvariance, PTL

\* A dog that was handed the ball and started is not refused until another dog is named.
THEOREM NotRefused == LogSpec => []HolderIsNotRefused
  BY LogInvariance, PTL DEF LogIInv

\* The sweep never writes four entries in a row.
THEOREM SweepSparse == LogSpec => []SweepIsSparse
  BY LogInvariance, PTL DEF LogIInv
-----------------------------------------------------------------------------
(***************************************************************************)
(* BallLedger: type correctness and the two exactly-once guarantees.  The  *)
(* invariant that carries them adds what the mutex is for: only the caller *)
(* that holds mu is between judging a disposition and committing it.       *)
(***************************************************************************)
Critical == Dispatching \cup Waking

\* Callers inside a Try* method hold the mutex, and a pending dispatch changes hands.
MutexInv ==
  \A c \in Caller :
    /\ caller[c].pc \in Critical => mu = c
    /\ caller[c].pc = "dispatch" => caller[c].from \in Breed /\ caller[c].from # caller[c].to
    /\ caller[c].pc \in {"hand", "dispatch"} => caller[c].to \in Breed

LedgerIInv == LedgerTypeOK /\ MutexInv /\ PassedOncePerTurn /\ WokenOncePerPark

-----------------------------------------------------------------------------
\* The events the ledger writes are events.
LEMMA EventForms ==
  ASSUME NEW b \in Breed
  PROVE  /\ By("wake_condition_met", b) \in Event
         /\ By("hold_dispositioned", b) \in Event
         /\ HandTo("ball.handed", b) \in Event
         /\ HandTo("dispatch_dispositioned", b) \in Event
  BY DEF By, HandTo, Event, EventType, Handoff, Holder

\* What one append does to the histories, whoever writes it.
LEMMA AppendStep ==
  ASSUME LedgerTypeOK, NEW e \in Event, Stored(e)
  PROVE  /\ view' \in View /\ appends' \in Nat
         /\ given' \in [Breed -> Nat] /\ parks' \in Nat
         /\ parks' \in {parks, parks + 1}
         /\ \A b \in Breed : given'[b] \in {given[b], given[b] + 1}
         /\ \A b \in Breed : view'.holder = b /\ view.holder # b => given'[b] = given[b] + 1
         /\ view'.state = "parked" /\ view.state # "parked" => parks' = parks + 1
  <1>1. view' \in View
    BY ObserveType DEF LedgerTypeOK, Stored
  <1>2. view'.state = "parked" /\ view.state # "parked" => parks' = parks + 1
    BY ParkedAfter DEF LedgerTypeOK, Stored
  <1> QED
    BY <1>1, <1>2 DEF LedgerTypeOK, Stored
-----------------------------------------------------------------------------
LEMMA LedgerInitInv == LedgerInit => LedgerIInv
  <1> SUFFICES ASSUME LedgerInit PROVE LedgerIInv
    OBVIOUS
  <1>1. LedgerTypeOK
    BY DEF LedgerInit, LedgerTypeOK, EmptyView, View, BallState, Holder, NoCall, CallPC
  <1>2. MutexInv
    BY DEF LedgerInit, MutexInv, NoCall, Critical, Dispatching, Waking
  <1>3. PassedOncePerTurn /\ WokenOncePerPark
    BY NoneIsNoBreed DEF LedgerInit, PassedOncePerTurn, WokenOncePerPark, Passing, Releasing, EmptyView, NoCall
  <1> QED
    BY <1>1, <1>2, <1>3 DEF LedgerIInv

LEMMA LedgerTypeStep == LedgerTypeOK /\ MutexInv /\ [LedgerNext]_ledgerVars => LedgerTypeOK'
  <1> SUFFICES ASSUME LedgerTypeOK, MutexInv, [LedgerNext]_ledgerVars PROVE LedgerTypeOK'
    OBVIOUS
  <1> USE DEF LedgerTypeOK, Holder, CallPC, Dispatching, Waking
  <1>1. CASE UNCHANGED ledgerVars
    BY <1>1 DEF ledgerVars, history
  <1>2. ASSUME NEW c \in Caller, NEW e \in Plain, Record(c, e) PROVE LedgerTypeOK'
    <2>1. e \in Event
      BY PlainAssumption
    <2> QED
      BY <1>2, <2>1, AppendStep DEF Record
  <1>3. ASSUME NEW c \in Caller, NEW b \in Breed, RecordHanded(c, b) PROVE LedgerTypeOK'
    BY <1>3 DEF RecordHanded, NextGeneration, history
  <1>4. ASSUME NEW c \in Caller, NEW b \in Breed, TryHold(c, b) PROVE LedgerTypeOK'
    BY <1>4 DEF TryHold, history
  <1>5. ASSUME NEW c \in Caller, NEW from \in Breed, NEW to \in Breed, TryDispatch(c, from, to) PROVE LedgerTypeOK'
    BY <1>5 DEF TryDispatch, NextGeneration, history
  <1>6. ASSUME NEW c \in Caller, Handed(c) PROVE LedgerTypeOK'
    <2>1. caller[c].to \in Breed
      BY <1>6 DEF Handed, MutexInv
    <2>2. HandTo("ball.handed", caller[c].to) \in Event
      BY <2>1, EventForms
    <2> QED
      BY <1>6, <2>2, AppendStep DEF Handed, StoredHandoff, Return, NoCall
  <1>7. ASSUME NEW c \in Caller, CommitDispatch(c) PROVE LedgerTypeOK'
    <2>1. caller[c].to \in Breed /\ caller[c].from \in Breed
      BY <1>7 DEF CommitDispatch, MutexInv
    <2>2. HandTo("dispatch_dispositioned", caller[c].to) \in Event
      BY <2>1, EventForms
    <2> QED
      BY <1>7, <2>1, <2>2, AppendStep DEF CommitDispatch, StoredHandoff, Goto
  <1>8. ASSUME NEW c \in Caller, ConditionMet(c) PROVE LedgerTypeOK'
    <2>1. By("wake_condition_met", caller[c].from) \in Event
      BY DEF By, Event, EventType
    <2> QED
      BY <1>8, <2>1, AppendStep DEF ConditionMet, Goto
  <1>9. ASSUME NEW c \in Caller, CommitHold(c) PROVE LedgerTypeOK'
    <2>1. By("hold_dispositioned", caller[c].from) \in Event
      BY DEF By, Event, EventType
    <2> QED
      BY <1>9, <2>1, AppendStep DEF CommitHold, Goto
  <1>10. ASSUME NEW c \in Caller, Unlock(c) PROVE LedgerTypeOK'
    BY <1>10 DEF Unlock, Return, NoCall, history
  <1> QED
    BY <1>1, <1>2, <1>3, <1>4, <1>5, <1>6, <1>7, <1>8, <1>9, <1>10 DEF LedgerNext, Call, Continue

LEMMA MutexStep == LedgerTypeOK /\ MutexInv /\ [LedgerNext]_ledgerVars => MutexInv'
  <1> SUFFICES ASSUME LedgerTypeOK, MutexInv, [LedgerNext]_ledgerVars PROVE MutexInv'
    OBVIOUS
  <1> USE DEF LedgerTypeOK, MutexInv, Critical, Dispatching, Waking
  <1>1. CASE UNCHANGED ledgerVars
    BY <1>1 DEF ledgerVars, history
  <1>2. ASSUME NEW c \in Caller, NEW e \in Plain, Record(c, e) PROVE MutexInv'
    BY <1>2 DEF Record
  <1>3. ASSUME NEW c \in Caller, NEW b \in Breed, RecordHanded(c, b) PROVE MutexInv'
    BY <1>3 DEF RecordHanded
  <1>4. ASSUME NEW c \in Caller, NEW b \in Breed, TryHold(c, b) PROVE MutexInv'
    BY <1>4, FreeIsNoCaller DEF TryHold
  <1>5. ASSUME NEW c \in Caller, NEW from \in Breed, NEW to \in Breed, TryDispatch(c, from, to) PROVE MutexInv'
    BY <1>5, FreeIsNoCaller DEF TryDispatch
  <1>6. ASSUME NEW c \in Caller, Handed(c) PROVE MutexInv'
    BY <1>6 DEF Handed, Return, NoCall
  <1>7. ASSUME NEW c \in Caller, CommitDispatch(c) \/ ConditionMet(c) \/ CommitHold(c) PROVE MutexInv'
    BY <1>7 DEF CommitDispatch, ConditionMet, CommitHold, Goto
  <1>8. ASSUME NEW c \in Caller, Unlock(c) PROVE MutexInv'
    BY <1>8 DEF Unlock, Return, NoCall
  <1> QED
    BY <1>1, <1>2, <1>3, <1>4, <1>5, <1>6, <1>7, <1>8 DEF LedgerNext, Call, Continue
-----------------------------------------------------------------------------
\* An append by somebody who is not committing a disposition keeps PassedOncePerTurn:
\* whoever newly holds the ball has been given it.
LEMMA PassedAppend ==
  ASSUME LedgerTypeOK, PassedOncePerTurn, NEW e \in Event, Stored(e), UNCHANGED passed,
         \A b \in Breed : Passing(b)' => Passing(b)
  PROVE  PassedOncePerTurn'
  <1> SUFFICES ASSUME NEW b \in Breed
               PROVE  passed'[b] + (IF view'.holder = b \/ Passing(b)' THEN 1 ELSE 0) <= given'[b]
    BY DEF PassedOncePerTurn
  <1>1. passed[b] + (IF view.holder = b \/ Passing(b) THEN 1 ELSE 0) <= given[b]
    BY DEF PassedOncePerTurn
  <1>2. passed[b] \in Nat /\ given[b] \in Nat
    BY DEF LedgerTypeOK
  <1>3. given'[b] \in {given[b], given[b] + 1} /\ (view'.holder = b /\ view.holder # b => given'[b] = given[b] + 1)
    BY AppendStep
  <1>4. passed'[b] = passed[b]
    OBVIOUS
  <1>5. CASE view'.holder = b /\ view.holder # b
    BY <1>1, <1>2, <1>3, <1>4, <1>5
  <1>6. CASE ~(view'.holder = b /\ view.holder # b)
    <2>1. view'.holder = b \/ Passing(b)' => view.holder = b \/ Passing(b)
      BY <1>6
    <2> QED
      BY <2>1, <1>1, <1>2, <1>3, <1>4
  <1> QED
    BY <1>5, <1>6

\* The disposition itself: the turn it spends was counted while it was pending, no other
\* disposition is pending (the mutex), and the receiver is somebody else.
LEMMA PassedCommit ==
  ASSUME LedgerTypeOK, MutexInv, PassedOncePerTurn, NEW c \in Caller, CommitDispatch(c)
  PROVE  PassedOncePerTurn'
  <1> DEFINE from == caller[c].from  to == caller[c].to
  <1>1. from \in Breed /\ to \in Breed /\ from # to /\ mu = c
    BY DEF MutexInv, CommitDispatch, Critical, Dispatching
  <1>2. /\ Stored(HandTo("dispatch_dispositioned", to)) /\ HandTo("dispatch_dispositioned", to) \in Event
        /\ passed' = [passed EXCEPT ![from] = @ + 1]
    BY <1>1, EventForms DEF CommitDispatch, StoredHandoff
  <1>3. view'.holder = to
    BY <1>1, <1>2, HandoffHolder DEF Stored, LedgerTypeOK, Handoff
  <1>4. \A b \in Breed : ~Passing(b)'
    <2>1. \A d \in Caller : d # c => caller[d].pc # "dispatch"
      BY <1>1 DEF MutexInv, Critical, Dispatching
    <2>2. \A d \in Caller : caller'[d].pc # "dispatch"
      BY <2>1 DEF CommitDispatch, Goto, LedgerTypeOK
    <2> QED
      BY <2>2 DEF Passing
  <1> SUFFICES ASSUME NEW b \in Breed
               PROVE  passed'[b] + (IF view'.holder = b \/ Passing(b)' THEN 1 ELSE 0) <= given'[b]
    BY DEF PassedOncePerTurn
  <1>5. passed[b] + (IF view.holder = b \/ Passing(b) THEN 1 ELSE 0) <= given[b]
    BY DEF PassedOncePerTurn
  <1>6. passed[b] \in Nat /\ given[b] \in Nat
    BY DEF LedgerTypeOK
  <1>7. given'[b] \in {given[b], given[b] + 1} /\ (view'.holder = b /\ view.holder # b => given'[b] = given[b] + 1)
    BY <1>2, AppendStep
  <1>8. CASE b = from
    <2>1. Passing(b)
      BY <1>8 DEF CommitDispatch, Passing
    <2>2. passed'[b] = passed[b] + 1
      BY <1>2, <1>8 DEF LedgerTypeOK
    <2>3. view'.holder # b
      BY <1>1, <1>3, <1>8
    <2> QED
      BY <2>1, <2>2, <2>3, <1>4, <1>5, <1>6, <1>7
  <1>9. CASE b # from
    <2>1. passed'[b] = passed[b]
      BY <1>2, <1>9 DEF LedgerTypeOK
    <2> QED
      BY <2>1, <1>4, <1>5, <1>6, <1>7
  <1> QED
    BY <1>8, <1>9

LEMMA PassedStep == LedgerTypeOK /\ MutexInv /\ PassedOncePerTurn /\ [LedgerNext]_ledgerVars => PassedOncePerTurn'
  <1> SUFFICES ASSUME LedgerTypeOK, MutexInv, PassedOncePerTurn, [LedgerNext]_ledgerVars PROVE PassedOncePerTurn'
    OBVIOUS
  <1>1. CASE UNCHANGED ledgerVars
    BY <1>1 DEF ledgerVars, history, PassedOncePerTurn, Passing
  <1>2. ASSUME NEW c \in Caller, NEW e \in Plain, Record(c, e) PROVE PassedOncePerTurn'
    <2>1. e \in Event
      BY PlainAssumption
    <2>2. \A b \in Breed : Passing(b)' => Passing(b)
      BY <1>2 DEF Record, Passing
    <2> QED
      BY <1>2, <2>1, <2>2, PassedAppend DEF Record
  <1>3. ASSUME NEW c \in Caller, NEW b \in Breed, RecordHanded(c, b) \/ TryHold(c, b) PROVE PassedOncePerTurn'
    <2>1. \A d \in Breed : Passing(d)' => Passing(d)
      BY <1>3 DEF RecordHanded, TryHold, Passing, LedgerTypeOK
    <2> QED
      BY <1>3, <2>1 DEF RecordHanded, TryHold, PassedOncePerTurn, LedgerTypeOK, history
  <1>4. ASSUME NEW c \in Caller, NEW from \in Breed, NEW to \in Breed, TryDispatch(c, from, to)
        PROVE PassedOncePerTurn'
    <2>1. \A d \in Breed : Passing(d)' => Passing(d) \/ view.holder = d
      BY <1>4 DEF TryDispatch, Passing, LedgerTypeOK, DispatchGuard, CurrentHolder
    <2> QED
      BY <1>4, <2>1 DEF TryDispatch, PassedOncePerTurn, LedgerTypeOK, history
  <1>5. ASSUME NEW c \in Caller, Handed(c) PROVE PassedOncePerTurn'
    <2>1. Stored(HandTo("ball.handed", caller[c].to)) /\ HandTo("ball.handed", caller[c].to) \in Event
      BY <1>5, EventForms DEF Handed, StoredHandoff, MutexInv
    <2>2. \A b \in Breed : Passing(b)' => Passing(b)
      BY <1>5 DEF Handed, Return, NoCall, Passing, LedgerTypeOK
    <2> QED
      BY <1>5, <2>1, <2>2, PassedAppend DEF Handed
  <1>6. ASSUME NEW c \in Caller, CommitDispatch(c) PROVE PassedOncePerTurn'
    BY <1>6, PassedCommit
  <1>7. ASSUME NEW c \in Caller, ConditionMet(c) \/ CommitHold(c) PROVE PassedOncePerTurn'
    <2>1. By("wake_condition_met", caller[c].from) \in Event /\ By("hold_dispositioned", caller[c].from) \in Event
      BY DEF By, Event, EventType, LedgerTypeOK, Holder
    <2>3. Stored(By("wake_condition_met", caller[c].from)) \/ Stored(By("hold_dispositioned", caller[c].from))
      BY <1>7 DEF ConditionMet, CommitHold
    <2>2. \A b \in Breed : Passing(b)' => Passing(b)
      BY <1>7 DEF ConditionMet, CommitHold, Goto, Passing, LedgerTypeOK
    <2> QED
      BY <1>7, <2>1, <2>2, <2>3, PassedAppend DEF ConditionMet, CommitHold
  <1>8. ASSUME NEW c \in Caller, Unlock(c) PROVE PassedOncePerTurn'
    <2>1. \A d \in Breed : Passing(d)' => Passing(d)
      BY <1>8 DEF Unlock, Return, NoCall, Passing, LedgerTypeOK
    <2> QED
      BY <1>8, <2>1 DEF Unlock, PassedOncePerTurn, LedgerTypeOK, history
  <1> QED
    BY <1>1, <1>2, <1>3, <1>4, <1>5, <1>6, <1>7, <1>8 DEF LedgerNext, Call, Continue
-----------------------------------------------------------------------------
\* An append by somebody who is not committing a hold keeps WokenOncePerPark.
LEMMA WokenAppend ==
  ASSUME LedgerTypeOK, WokenOncePerPark, NEW e \in Event, Stored(e), UNCHANGED woken, Releasing' => Releasing
  PROVE  WokenOncePerPark'
  <1>1. woken \in Nat /\ parks \in Nat /\ parks' \in {parks, parks + 1}
    BY AppendStep DEF LedgerTypeOK
  <1>2. view'.state = "parked" /\ view.state # "parked" => parks' = parks + 1
    BY AppendStep
  <1> QED
    BY <1>1, <1>2 DEF WokenOncePerPark

\* The disposition itself: the park it spends was counted while it was pending, no other
\* release is pending, and the ball is not parked any more.
LEMMA WokenCommit ==
  ASSUME LedgerTypeOK, MutexInv, WokenOncePerPark, NEW c \in Caller, CommitHold(c)
  PROVE  WokenOncePerPark'
  <1> DEFINE e == By("hold_dispositioned", caller[c].from)
  <1>0. Stored(e) /\ woken' = woken + 1
    BY DEF CommitHold
  <1>1. e \in Event
    BY DEF By, Event, EventType, LedgerTypeOK, Holder
  <1>2. view'.state = "active"
    BY <1>0 DEF Stored, Observe, StateAfter, By, Activating
  <1>3. Releasing
    BY DEF CommitHold, Releasing
  <1>4. ~Releasing'
    <2>1. \A d \in Caller : d # c => caller[d].pc \notin {"wake", "met"}
      BY DEF MutexInv, CommitHold, Critical, Waking
    <2>2. \A d \in Caller : caller'[d].pc \notin {"wake", "met"}
      BY <2>1 DEF CommitHold, Goto, LedgerTypeOK
    <2> QED
      BY <2>2 DEF Releasing
  <1>5. parks' \in {parks, parks + 1} /\ parks \in Nat /\ woken \in Nat
    BY <1>0, <1>1, AppendStep DEF LedgerTypeOK
  <1> QED
    BY <1>0, <1>2, <1>3, <1>4, <1>5 DEF WokenOncePerPark

LEMMA WokenStep == LedgerTypeOK /\ MutexInv /\ WokenOncePerPark /\ [LedgerNext]_ledgerVars => WokenOncePerPark'
  <1> SUFFICES ASSUME LedgerTypeOK, MutexInv, WokenOncePerPark, [LedgerNext]_ledgerVars PROVE WokenOncePerPark'
    OBVIOUS
  <1>1. CASE UNCHANGED ledgerVars
    BY <1>1 DEF ledgerVars, history, WokenOncePerPark, Releasing
  <1>2. ASSUME NEW c \in Caller, NEW e \in Plain, Record(c, e) PROVE WokenOncePerPark'
    <2>1. e \in Event
      BY PlainAssumption
    <2>2. Releasing' => Releasing
      BY <1>2 DEF Record, Releasing
    <2> QED
      BY <1>2, <2>1, <2>2, WokenAppend DEF Record
  <1>3. ASSUME NEW c \in Caller, NEW b \in Breed, RecordHanded(c, b) PROVE WokenOncePerPark'
    <2>1. Releasing' => Releasing
      BY <1>3 DEF RecordHanded, Releasing, LedgerTypeOK
    <2> QED
      BY <1>3, <2>1 DEF RecordHanded, WokenOncePerPark, LedgerTypeOK, history
  <1>4. ASSUME NEW c \in Caller, NEW from \in Breed, NEW to \in Breed, TryDispatch(c, from, to)
        PROVE WokenOncePerPark'
    <2>1. Releasing' => Releasing
      BY <1>4 DEF TryDispatch, Releasing, LedgerTypeOK
    <2> QED
      BY <1>4, <2>1 DEF TryDispatch, WokenOncePerPark, LedgerTypeOK, history
  <1>5. ASSUME NEW c \in Caller, NEW b \in Breed, TryHold(c, b) PROVE WokenOncePerPark'
    BY <1>5 DEF TryHold, HoldGuard, WokenOncePerPark, LedgerTypeOK, history
  <1>6. ASSUME NEW c \in Caller, Handed(c) \/ CommitDispatch(c) PROVE WokenOncePerPark'
    <2>1. \E t \in Handoff : Stored(HandTo(t, caller[c].to)) /\ HandTo(t, caller[c].to) \in Event
      BY <1>6, EventForms DEF Handed, CommitDispatch, StoredHandoff, MutexInv, Handoff
    <2>2. Releasing' => Releasing
      BY <1>6 DEF Handed, CommitDispatch, Return, Goto, NoCall, Releasing, LedgerTypeOK
    <2> QED
      BY <1>6, <2>1, <2>2, WokenAppend DEF Handed, CommitDispatch
  <1>7. ASSUME NEW c \in Caller, ConditionMet(c) PROVE WokenOncePerPark'
    <2>1. Stored(By("wake_condition_met", caller[c].from))
      BY <1>7 DEF ConditionMet
    <2>2. By("wake_condition_met", caller[c].from) \in Event
      BY DEF By, Event, EventType, LedgerTypeOK, Holder
    <2>3. Releasing' => Releasing
      BY <1>7 DEF ConditionMet, Releasing
    <2> QED
      BY <1>7, <2>1, <2>2, <2>3, WokenAppend DEF ConditionMet
  <1>8. ASSUME NEW c \in Caller, CommitHold(c) PROVE WokenOncePerPark'
    BY <1>8, WokenCommit
  <1>9. ASSUME NEW c \in Caller, Unlock(c) PROVE WokenOncePerPark'
    <2>1. Releasing' => Releasing
      BY <1>9 DEF Unlock, Return, NoCall, Releasing, LedgerTypeOK
    <2> QED
      BY <1>9, <2>1 DEF Unlock, WokenOncePerPark, LedgerTypeOK, history
  <1> QED
    BY <1>1, <1>2, <1>3, <1>4, <1>5, <1>6, <1>7, <1>8, <1>9 DEF LedgerNext, Call, Continue

-----------------------------------------------------------------------------
\* The inductive invariant holds in every reachable state.
THEOREM LedgerInvariance == LedgerSpec => []LedgerIInv
  <1>1. LedgerIInv /\ [LedgerNext]_ledgerVars => LedgerIInv'
    BY LedgerTypeStep, MutexStep, PassedStep, WokenStep DEF LedgerIInv
  <1> QED
    BY <1>1, LedgerInitInv, PTL DEF LedgerSpec

\* The projected ledger and the callers' states keep their types.
THEOREM LedgerTypeCorrect == LedgerSpec => []LedgerTypeOK
  BY LedgerInvariance, PTL DEF LedgerIInv

\* A dog passes the ball on at most once per time it was given it, whatever races.
THEOREM ExactlyOneDisposition == LedgerSpec => []PassedOncePerTurn
  BY LedgerInvariance, PTL DEF LedgerIInv

\* A park is released at most once, whatever wake-ups race.
THEOREM ExactlyOneWake == LedgerSpec => []WokenOncePerPark
  BY LedgerInvariance, PTL DEF LedgerIInv
-----------------------------------------------------------------------------
(***************************************************************************)
(* HoldScheduler: every hold ends once.  What makes it inductive is that   *)
(* the numbers not given out yet have no history.                          *)
(***************************************************************************)
Fresh == \A i \in Id : i > made => ends[i] = 0

SchedulerIInv == SchedulerTypeOK /\ Fresh /\ EndsOnce
-----------------------------------------------------------------------------
\* The tasks are what their names say, and a hold's command is a task of its own.
LEMMA Tasks == /\ Client \subseteq Task /\ Ticker \in Task /\ Id \subseteq Task
               /\ \A c \in Client, i \in Id : c # i
  BY TasksAreDistinct DEF Task

LEMMA SchedulerInitInv == SchedulerInit => SchedulerIInv
  <1> SUFFICES ASSUME SchedulerInit PROVE SchedulerIInv
    OBVIOUS
  <1>1. SchedulerTypeOK
    BY MaxHoldsAssumption
    DEF SchedulerInit, SchedulerTypeOK, EmptyView, View, BallState, Holder, HoldRecord, NoHold, Local, Numbered, IdleTask, At, TaskPC, Dealing,
        Due, Id
  <1>2. Fresh
    BY DEF SchedulerInit, Fresh
  <1>3. EndsOnce
    BY DEF SchedulerInit, EndsOnce, Taking, IdleTask, At, Dealing, NoHold, Id
  <1> QED
    BY <1>1, <1>2, <1>3 DEF SchedulerIInv

\* An append of the scheduler's keeps the view well typed.
LEMMA AppendType ==
  ASSUME SchedulerTypeOK, NEW t \in Task
  PROVE  /\ Observe(view, By("ball.held", task[t].rec.holder)) \in View
         /\ Observe(view, By("ball.hold_expired", task[t].rec.holder)) \in View
         /\ Observe(view, By("ball.void_pass", task[t].rec.holder)) \in View
         /\ Observe(Observe(view, By("wake_condition_met", task[t].rec.holder)),
                    By("hold_dispositioned", task[t].rec.holder)) \in View
  <1> DEFINE h == task[t].rec.holder
  <1>1. h \in Holder /\ view \in View
    BY DEF SchedulerTypeOK, Local, HoldRecord
  <1>2. /\ By("ball.held", h) \in Event /\ By("ball.hold_expired", h) \in Event
        /\ By("ball.void_pass", h) \in Event
        /\ By("wake_condition_met", h) \in Event /\ By("hold_dispositioned", h) \in Event
    BY <1>1, ByEvent DEF EventType
  <1> HIDE DEF h
  <1>3. Observe(view, By("wake_condition_met", h)) \in View
    BY <1>1, <1>2, ObserveType
  <1> QED
    BY <1>1, <1>2, <1>3, ObserveType DEF h
-----------------------------------------------------------------------------
\* Local states are built from a program counter, a record and a number.
LEMMA AtLocal ==
  ASSUME NEW pc \in TaskPC, NEW rec \in HoldRecord, NEW took \in 0..MaxHolds
  PROVE  /\ At(pc, rec, took) \in Local
         /\ At(pc, rec, took).pc = pc /\ At(pc, rec, took).rec = rec
         /\ At(pc, rec, took).took = took
  BY DEF At, Local

LEMMA IdleLocal == IdleTask \in Local /\ IdleTask.pc = "idle" /\ IdleTask.rec.id = 0
  BY MaxHoldsAssumption DEF IdleTask, At, Local, NoHold, HoldRecord, Holder, TaskPC

\* Replacing one task's local state by a well-formed one.
LEMMA LocalStep ==
  ASSUME SchedulerTypeOK, NEW t \in Task, NEW l \in Local, Numbered(l, made'),
         made' \in {made, made + 1}, task' = [task EXCEPT ![t] = l]
  PROVE  task' \in [Task -> Local] /\ \A u \in Task : Numbered(task'[u], made')
  <1>1. \A u \in Task : Numbered(task'[u], made')
    <2>1. TAKE u \in Task
    <2>2. CASE u = t
      BY <2>2 DEF SchedulerTypeOK
    <2>3. CASE u # t
      <3>1. task'[u] = task[u] /\ task[u] \in Local /\ Numbered(task[u], made)
        BY <2>3 DEF SchedulerTypeOK
      <3> QED
        BY <3>1, MaxHoldsAssumption DEF Numbered, SchedulerTypeOK, Local, HoldRecord
    <2> QED
      BY <2>2, <2>3
  <1> QED
    BY <1>1 DEF SchedulerTypeOK

LEMMA RetireStep ==
  ASSUME SchedulerTypeOK, NEW t \in Task, Retire(t), UNCHANGED made
  PROVE  task' \in [Task -> Local] /\ \A u \in Task : Numbered(task'[u], made')
  <1>1. Numbered(IdleTask, made')
    BY IdleLocal DEF Numbered, Dealing, SchedulerTypeOK
  <1> QED
    BY <1>1, IdleLocal, LocalStep DEF Retire

\* Taking the active hold, for whatever purpose.
LEMMA TakeStep ==
  ASSUME SchedulerTypeOK, NEW t \in Task, NEW pc \in Dealing, NEW rec \in HoldRecord,
         rec.id <= made, hold # NoHold, UNCHANGED made,
         task' = [task EXCEPT ![t] = At(pc, rec, hold.id)]
  PROVE  task' \in [Task -> Local] /\ \A u \in Task : Numbered(task'[u], made')
  <1> DEFINE l == At(pc, rec, hold.id)
  <1>1. hold.id \in 1..made /\ hold.id \in 0..MaxHolds
    BY MaxHoldsAssumption DEF SchedulerTypeOK, HoldRecord
  <1>2. l \in Local /\ l.pc = pc /\ l.rec = rec /\ l.took = hold.id
    BY <1>1, AtLocal DEF TaskPC
  <1> HIDE DEF l
  <1>3. Numbered(l, made')
    BY <1>1, <1>2 DEF Numbered, Dealing
  <1> QED
    BY <1>2, <1>3, LocalStep DEF l

LEMMA NoHoldType == NoHold \in HoldRecord /\ NoHold.id = 0
  BY MaxHoldsAssumption DEF NoHold, HoldRecord, Holder

LEMMA SchedulerTypeStep == SchedulerTypeOK /\ [SchedulerNext]_schedulerVars => SchedulerTypeOK'
  <1> SUFFICES ASSUME SchedulerTypeOK, [SchedulerNext]_schedulerVars PROVE SchedulerTypeOK'
    OBVIOUS
  <1> USE Tasks
  <1> DEFINE TasksOK == task \in [Task -> Local] /\ \A t \in Task : Numbered(task[t], made)
  <1>0. made \in 0..MaxHolds /\ hold.id <= made /\ hold \in HoldRecord
    BY DEF SchedulerTypeOK
  <1>1. CASE UNCHANGED schedulerVars
    BY <1>1 DEF schedulerVars, SchedulerTypeOK, Numbered
  <1>2. ASSUME NEW e \in Others, Other(e) PROVE SchedulerTypeOK'
    BY <1>2, OthersAssumption, ObserveType DEF Other, SchedulerTypeOK, Numbered
  <1>3. ASSUME NEW c \in Client, NEW r \in Asks, Declare(c, r) PROVE SchedulerTypeOK'
    <2>1. r \in HoldRecord /\ r.id = 0
      BY AsksAssumption, MaxHoldsAssumption DEF Ask, HoldRecord, Holder
    <2>2. By("ball.held", r.holder) \in Event
      BY <2>1, ByEvent DEF HoldRecord, EventType
    <2>3. view' \in View
      BY <1>3, <2>2, ObserveType DEF Declare, SchedulerTypeOK
    <2>4. At("declared", r, 0) \in Local /\ Numbered(At("declared", r, 0), made')
      BY <1>0, <1>3, <2>1, MaxHoldsAssumption, AtLocal DEF Declare, Numbered, TaskPC, Dealing
    <2>5. TasksOK'
      BY <1>3, <2>4, LocalStep DEF Declare
    <2> QED
      BY <1>3, <2>3, <2>5 DEF Declare, SchedulerTypeOK
  <1>4. ASSUME NEW c \in Client, NEW g \in BOOLEAN, Hold(c, g) PROVE SchedulerTypeOK'
    <2>1. /\ hold' \in HoldRecord /\ hold'.id = made + 1 /\ made' = made + 1
          /\ made' \in 0..MaxHolds /\ hold' # NoHold
      <3>1. task[c].rec \in HoldRecord /\ made + 1 \in 0..MaxHolds
        BY <1>0, <1>4, MaxHoldsAssumption DEF Hold, SchedulerTypeOK, Local
      <3>2. hold' \in HoldRecord /\ hold'.id = made + 1
        BY <1>4, <3>1 DEF Hold, HoldRecord
      <3>3. made + 1 # 0
        BY <1>0
      <3>4. hold' # NoHold
        BY <3>2, <3>3, NoHoldType
      <3>5. made' = made + 1
        BY <1>4 DEF Hold
      <3> QED
        BY <3>1, <3>2, <3>4, <3>5
    <2>2. At("registered", hold', 0) \in Local /\ Numbered(At("registered", hold', 0), made')
      BY <1>0, <2>1, MaxHoldsAssumption, AtLocal DEF Numbered, TaskPC, Dealing
    <2>3. TasksOK'
      BY <1>4, <2>1, <2>2, LocalStep DEF Hold
    <2> QED
      BY <1>4, <2>1, <2>3 DEF Hold, SchedulerTypeOK
  <1>5. ASSUME NEW c \in Client, NEW g \in BOOLEAN, HoldRefused(c, g) PROVE SchedulerTypeOK'
    <2>1. TasksOK'
      BY <1>5, RetireStep DEF HoldRefused
    <2> QED
      BY <1>5, <2>1 DEF HoldRefused, SchedulerTypeOK
  <1>6. ASSUME NEW c \in Client, HoldRecorded(c) PROVE SchedulerTypeOK'
    <2> DEFINE r == task[c].rec
               l == At("command", r, 0)
    <2>1. view' \in View
      BY <1>6, AppendType DEF HoldRecorded
    <2>2. r \in HoldRecord /\ r.id <= made /\ r.id \in Id /\ c # r.id
      BY <1>0, <1>6, MaxHoldsAssumption DEF HoldRecorded, SchedulerTypeOK, Local, Numbered, HoldRecord, Id
    <2>3. l \in Local /\ Numbered(l, made') /\ IdleTask \in Local /\ Numbered(IdleTask, made')
      BY <1>0, <1>6, <2>2, MaxHoldsAssumption, AtLocal, IdleLocal
      DEF HoldRecorded, Numbered, TaskPC, Dealing
    <2> HIDE DEF r, l
    <2>4. \A u \in Task : task'[u] = IF u = r.id /\ r.kind = "command" THEN l
                                     ELSE IF u = c THEN IdleTask ELSE task[u]
      BY <1>6, <2>2 DEF HoldRecorded, SchedulerTypeOK, r, l
    <2>5. task' \in [Task -> Local]
      <3>1. \A u \in Task : task'[u] \in Local
        BY <2>3, <2>4 DEF SchedulerTypeOK
      <3> QED
        BY <1>6, <3>1 DEF HoldRecorded, SchedulerTypeOK
    <2>6. \A u \in Task : Numbered(task'[u], made')
      BY <1>6, <2>3, <2>4 DEF HoldRecorded, SchedulerTypeOK, Numbered
    <2> QED
      BY <1>6, <2>1, <2>5, <2>6 DEF HoldRecorded, SchedulerTypeOK
  <1>7. ASSUME NEW c \in Client, Cancel(c) PROVE SchedulerTypeOK'
    <2>1. TasksOK'
      BY <1>0, <1>7, TakeStep DEF Cancel, Dealing
    <2> QED
      BY <1>0, <1>7, <2>1, NoHoldType DEF Cancel, SchedulerTypeOK
  <1>8. ASSUME NEW c \in Client, NEW kind \in Kind, Wake(c, kind) PROVE SchedulerTypeOK'
    <2>1. TasksOK'
      BY <1>0, <1>8, TakeStep DEF Wake, Dealing
    <2> QED
      BY <1>0, <1>8, <2>1, NoHoldType DEF Wake, SchedulerTypeOK
  <1>9. CASE TickSnapshot
    <2>1. At("tick", hold, 0) \in Local /\ Numbered(At("tick", hold, 0), made')
      BY <1>0, <1>9, MaxHoldsAssumption, AtLocal DEF TickSnapshot, SchedulerTypeOK, Numbered, TaskPC, Dealing
    <2>2. TasksOK'
      BY <1>9, <2>1, LocalStep DEF TickSnapshot
    <2> QED
      BY <1>9, <2>2 DEF TickSnapshot, SchedulerTypeOK
  <1>10. ASSUME NEW t \in Task, NEW pc \in Dealing, Take(t, pc),
                UNCHANGED <<view, made, due, ends>>
         PROVE  SchedulerTypeOK'
    <2>1. task[t].rec \in HoldRecord /\ task[t].rec.id <= made
      BY DEF SchedulerTypeOK, Local, Numbered
    <2>2. TasksOK'
      BY <1>10, <2>1, TakeStep, RetireStep DEF Take
    <2> QED
      BY <1>0, <1>10, <2>2, NoHoldType DEF Take, SchedulerTypeOK
  <1>11. CASE TickAct
    <2>1. CASE UNCHANGED hold /\ Retire(Ticker)
      <3>1. TasksOK'
        BY <1>11, <2>1, RetireStep DEF TickAct
      <3> QED
        BY <1>11, <2>1, <3>1 DEF TickAct, SchedulerTypeOK
    <2> QED
      BY <1>10, <1>11, <2>1 DEF TickAct, Dealing
  <1>12. ASSUME NEW i \in Id, NEW cutOff \in BOOLEAN, CommandEnds(i, cutOff) PROVE SchedulerTypeOK'
    BY <1>10, <1>12 DEF CommandEnds, Dealing
  <1>13. ASSUME NEW t \in Task, Release(t) \/ Expire(t) \/ Cancelled(t) PROVE SchedulerTypeOK'
    <2>1. view' \in View
      BY <1>13, AppendType DEF Release, Expire, Cancelled, SchedulerTypeOK
    <2>2. ends' \in [Id -> Nat]
      BY <1>13 DEF Release, Expire, Cancelled, Ended, SchedulerTypeOK
    <2>3. TasksOK'
      BY <1>13, RetireStep DEF Release, Expire, Cancelled
    <2> QED
      BY <1>13, <2>1, <2>2, <2>3 DEF Release, Expire, Cancelled, SchedulerTypeOK
  <1>14. CASE Pass
    BY <1>14 DEF Pass, Due, SchedulerTypeOK, Numbered
  <1> QED
    BY <1>1, <1>2, <1>3, <1>4, <1>5, <1>6, <1>7, <1>8, <1>9, <1>11, <1>12, <1>13, <1>14 DEF SchedulerNext
-----------------------------------------------------------------------------
\* A task whose hands stay as they were leaves every hold where it was.
LEMMA SameHands ==
  ASSUME SchedulerIInv, UNCHANGED <<hold, ends>>,
         \A t \in Task, i \in Id : Taking(t, i)' => Taking(t, i)
  PROVE  EndsOnce'
  BY DEF SchedulerIInv, EndsOnce

\* Taking the active hold out of the map.
LEMMA HandOver ==
  ASSUME SchedulerIInv, NEW t \in Task, hold # NoHold, hold' = NoHold, UNCHANGED ends,
         \A u \in Task \ {t} : task'[u] = task[u],
         task'[t].took = hold.id,
         task[t].pc \notin Dealing
  PROVE  EndsOnce'
  <1>1. \A u \in Task, i \in Id : Taking(u, i)' => (u = t /\ i = hold.id) \/ (u # t /\ Taking(u, i))
    BY DEF Taking
  <1>2. \A u \in Task, i \in Id : hold.id = i => ends[i] = 0 /\ ~Taking(u, i)
    BY DEF SchedulerIInv, EndsOnce
  <1>3. \A i \in Id : hold'.id # i
    BY DEF NoHold, Id
  <1> QED
    BY <1>1, <1>2, <1>3 DEF SchedulerIInv, EndsOnce

\* A task that ends the hold in its hands.
LEMMA HandsEmpty ==
  ASSUME SchedulerIInv, NEW t \in Task, task[t].pc \in Dealing, Retire(t), Ended(t), UNCHANGED hold
  PROVE  EndsOnce'
  <1>1. \A u \in Task, i \in Id : Taking(u, i)' => u # t /\ Taking(u, i)
    BY DEF SchedulerIInv, SchedulerTypeOK, Local, Numbered, HoldRecord, Taking, Retire, IdleTask, At, Dealing
  <1>2. task[t].took \in Id /\ Taking(t, task[t].took)
    BY MaxHoldsAssumption DEF SchedulerIInv, SchedulerTypeOK, Local, Numbered, HoldRecord, Taking, Id
  <1>3. \A i \in Id : ends'[i] = IF i = task[t].took THEN ends[i] + 1 ELSE ends[i]
    BY DEF SchedulerIInv, SchedulerTypeOK, Local, Numbered, Ended
  <1> QED
    BY <1>1, <1>2, <1>3 DEF SchedulerIInv, EndsOnce

LEMMA EndsStep == SchedulerIInv /\ [SchedulerNext]_schedulerVars => EndsOnce'
  <1> SUFFICES ASSUME SchedulerIInv, [SchedulerNext]_schedulerVars PROVE EndsOnce'
    OBVIOUS
  <1> USE Tasks
  <1>0. SchedulerTypeOK
    BY DEF SchedulerIInv
  <1>1. CASE UNCHANGED schedulerVars
    BY <1>1, SameHands DEF schedulerVars, Taking
  <1>2. ASSUME NEW e \in Others, Other(e) PROVE EndsOnce'
    BY <1>2, SameHands DEF Other, Taking
  <1>3. ASSUME NEW c \in Client, NEW r \in Asks, Declare(c, r) PROVE EndsOnce'
    BY <1>0, <1>3, SameHands DEF Declare, SchedulerTypeOK, Local, Numbered, HoldRecord, Taking, IdleTask, At, Dealing
  <1>4. ASSUME NEW c \in Client, NEW g \in BOOLEAN, Hold(c, g) PROVE EndsOnce'
    <2>1. \A u \in Task, i \in Id : Taking(u, i)' => Taking(u, i)
      BY <1>0, <1>4 DEF Hold, SchedulerTypeOK, Taking, Dealing, At
    <2>2. made + 1 \in Id /\ ends[made + 1] = 0 /\ hold'.id = made + 1 /\ UNCHANGED ends
      BY <1>0, <1>4, MaxHoldsAssumption DEF Hold, SchedulerIInv, Fresh, SchedulerTypeOK, Id, HoldRecord
    <2>3. \A u \in Task : ~Taking(u, made + 1)
      BY <1>0 DEF SchedulerTypeOK, Local, Numbered, HoldRecord, Taking
    <2> QED
      BY <2>1, <2>2, <2>3 DEF SchedulerIInv, EndsOnce
  <1>5. ASSUME NEW c \in Client, NEW g \in BOOLEAN, HoldRefused(c, g) PROVE EndsOnce'
    BY <1>0, <1>5, SameHands DEF HoldRefused, Retire, SchedulerTypeOK, Local, Numbered, HoldRecord, Taking, IdleTask, At, Dealing
  <1>6. ASSUME NEW c \in Client, HoldRecorded(c) PROVE EndsOnce'
    BY <1>0, <1>6, SameHands DEF HoldRecorded, SchedulerTypeOK, Local, Numbered, HoldRecord, Taking, IdleTask, At, Dealing
  <1>7. ASSUME NEW c \in Client, Cancel(c) PROVE EndsOnce'
    BY <1>0, <1>7, HandOver DEF Cancel, SchedulerTypeOK, IdleTask, At, Dealing
  <1>8. ASSUME NEW c \in Client, NEW kind \in Kind, Wake(c, kind) PROVE EndsOnce'
    BY <1>0, <1>8, HandOver DEF Wake, SchedulerTypeOK, IdleTask, At, Dealing
  <1>9. CASE TickSnapshot
    BY <1>0, <1>9, SameHands DEF TickSnapshot, SchedulerTypeOK, Local, Numbered, HoldRecord, Taking, IdleTask, At, Dealing
  <1>10. ASSUME NEW t \in Task, NEW pc \in Dealing, Take(t, pc),
                task[t].pc \notin Dealing, UNCHANGED ends
         PROVE  EndsOnce'
    <2>1. CASE hold = NoHold /\ Retire(t) /\ UNCHANGED hold
      BY <1>0, <1>10, <2>1, SameHands DEF Retire, SchedulerTypeOK, Local, Numbered, HoldRecord, Taking, IdleTask, At, Dealing
    <2>2. CASE hold # NoHold
      <3>1. hold' = NoHold /\ task' = [task EXCEPT ![t] = At(pc, task[t].rec, hold.id)]
        BY <1>10, <2>2 DEF Take
      <3>2. task'[t].took = hold.id /\ \A u \in Task \ {t} : task'[u] = task[u]
        BY <1>0, <3>1 DEF SchedulerTypeOK, At
      <3> QED
        BY <1>10, <2>2, <3>1, <3>2, HandOver
    <2> QED
      BY <1>10, <2>1, <2>2 DEF Take
  <1>11. CASE TickAct
    <2>1. CASE UNCHANGED hold /\ Retire(Ticker)
      BY <1>0, <1>11, <2>1, SameHands DEF TickAct, Retire, SchedulerTypeOK, Local, Numbered, HoldRecord, Taking, IdleTask, At, Dealing
    <2> QED
      BY <1>10, <1>11, <2>1 DEF TickAct, Dealing
  <1>12. ASSUME NEW i \in Id, NEW cutOff \in BOOLEAN, CommandEnds(i, cutOff) PROVE EndsOnce'
    BY <1>10, <1>12 DEF CommandEnds, Dealing
  <1>13. ASSUME NEW t \in Task, Release(t) \/ Expire(t) \/ Cancelled(t) PROVE EndsOnce'
    BY <1>13, HandsEmpty DEF Release, Expire, Cancelled, Dealing
  <1>14. CASE Pass
    BY <1>14, SameHands DEF Pass, Taking
  <1> QED
    BY <1>1, <1>2, <1>3, <1>4, <1>5, <1>6, <1>7, <1>8, <1>9, <1>11, <1>12, <1>13, <1>14 DEF SchedulerNext

\* The numbers above made stay unused: only a task with a hold in its hands ends one.
LEMMA FreshStep == SchedulerIInv /\ [SchedulerNext]_schedulerVars => Fresh'
  <1> SUFFICES ASSUME SchedulerIInv, [SchedulerNext]_schedulerVars PROVE Fresh'
    OBVIOUS
  <1>1. made' \in {made, made + 1}
    BY DEF schedulerVars, SchedulerNext, Other, Declare, Hold, HoldRefused, HoldRecorded, Cancel, Wake, TickSnapshot,
           TickAct, CommandEnds, Release, Expire, Cancelled, Pass
  <1>2. \/ UNCHANGED ends
        \/ \E t \in Task : task[t].pc \in Dealing /\ Ended(t)
    BY DEF schedulerVars, SchedulerNext, Other, Declare, Hold, HoldRefused, HoldRecorded, Cancel, Wake, TickSnapshot,
           TickAct, CommandEnds, Release, Expire, Cancelled, Pass, Dealing
  <1>3. \A i \in Id : i > made => ends'[i] = 0
    BY <1>2, MaxHoldsAssumption DEF SchedulerIInv, Fresh, SchedulerTypeOK, Local, Numbered, Ended, Id
  <1> QED
    BY <1>1, <1>3, MaxHoldsAssumption DEF SchedulerIInv, Fresh, SchedulerTypeOK, Id
-----------------------------------------------------------------------------
\* The inductive invariant holds of every behaviour.
THEOREM SchedulerInvariance == SchedulerSpec => []SchedulerIInv
  <1>1. SchedulerIInv /\ [SchedulerNext]_schedulerVars => SchedulerIInv'
    BY SchedulerTypeStep, EndsStep, FreshStep DEF SchedulerIInv
  <1> QED
    BY <1>1, SchedulerInitInv, PTL DEF SchedulerSpec

\* Types of the scheduler: in particular a task never ends a hold it has not taken.
THEOREM SchedulerTypeCorrect == SchedulerSpec => []SchedulerTypeOK
  BY SchedulerInvariance, PTL DEF SchedulerIInv

\* Clicks, webhooks, ticks, commands and cancels end a hold once between them
\* (hold_scheduler.go:214-256), for any number of clients and holds.
THEOREM ExactlyOneEnd == SchedulerSpec => []EndsOnce
  BY SchedulerInvariance, PTL DEF SchedulerIInv
-----------------------------------------------------------------------------
(***************************************************************************)
(* HoldScheduler implements HoldLife.  A hold would drop out of sight if   *)
(* starting a command overwrote a task with a hold in its hands, so the    *)
(* proof needs that the goroutine HoldRecorded starts is a new one: the    *)
(* i-th hold is reported once, and its command has not run before.         *)
(***************************************************************************)
Registered(c, i) == task[c].pc = "registered" /\ task[c].rec.id = i

NewCommand ==
  \A i \in Id :
    /\ task[i].pc # "idle" => i <= made /\ \A c \in Client : ~Registered(c, i)
    /\ \A c, d \in Client : Registered(c, i) /\ Registered(d, i) => c = d

\* A step that registers no hold and starts no command, in terms of the tasks: a client's
\* report is an old one, and a hold's own task that is busy was busy before.
LEMMA NothingNew ==
  ASSUME NewCommand, UNCHANGED made,
         \A c \in Client, i \in Id : Registered(c, i)' => Registered(c, i),
         \A i \in Id : task'[i].pc # "idle" => task[i].pc # "idle"
  PROVE  NewCommand'
  BY DEF NewCommand

\* One task moves on to a local state that is not a report.
LEMMA MoveOn ==
  ASSUME SchedulerTypeOK, NewCommand, UNCHANGED made, NEW t \in Task, NEW l,
         task' = [task EXCEPT ![t] = l], l.pc # "registered",
         t \in Id => (l.pc # "idle" => task[t].pc # "idle")
  PROVE  NewCommand'
  <1> USE Tasks
  <1>1. task'[t] = l /\ \A u \in Task \ {t} : task'[u] = task[u]
    BY DEF SchedulerTypeOK
  <1>2. \A c \in Client, i \in Id : Registered(c, i)' => Registered(c, i)
    BY <1>1 DEF Registered
  <1>3. \A i \in Id : task'[i].pc # "idle" => task[i].pc # "idle"
    BY <1>1
  <1> QED
    BY <1>2, <1>3, NothingNew

LEMMA NewCommandStep == SchedulerTypeOK /\ NewCommand /\ [SchedulerNext]_schedulerVars => NewCommand'
  <1> SUFFICES ASSUME SchedulerTypeOK, NewCommand, [SchedulerNext]_schedulerVars PROVE NewCommand'
    OBVIOUS
  <1> USE Tasks
  <1>1. CASE UNCHANGED <<made, task>>
    BY <1>1 DEF NewCommand, Registered
  <1>2. ASSUME NEW t \in Task, Retire(t), UNCHANGED made PROVE NewCommand'
    BY <1>2, MoveOn, IdleLocal DEF Retire
  <1>3. ASSUME NEW t \in Task, NEW pc \in Dealing, NEW rec, NEW took, UNCHANGED made,
               task' = [task EXCEPT ![t] = At(pc, rec, took)], t \in Id => task[t].pc # "idle"
        PROVE  NewCommand'
    <2> DEFINE l == At(pc, rec, took)
    <2>1. l.pc \notin {"idle", "registered"}
      BY DEF At, Dealing
    <2>2. task' = [task EXCEPT ![t] = l]
      BY <1>3
    <2> HIDE DEF l
    <2> QED
      BY <1>3, <2>1, <2>2, MoveOn
  <1>4. ASSUME NEW c \in Client, NEW r \in Asks, Declare(c, r) PROVE NewCommand'
    <2> DEFINE l == At("declared", r, 0)
    <2>1. task' = [task EXCEPT ![c] = l] /\ made' = made /\ c \notin Id
      BY <1>4 DEF Declare
    <2>2. l.pc = "declared"
      BY DEF At
    <2> HIDE DEF l
    <2> QED
      BY <2>1, <2>2, MoveOn
  <1>5. ASSUME NEW c \in Client, NEW g \in BOOLEAN, Hold(c, g) PROVE NewCommand'
    <2>1. made \in Nat /\ made' = made + 1 /\ hold'.id = made + 1
      BY <1>5, MaxHoldsAssumption DEF Hold, SchedulerTypeOK, Local, HoldRecord
    <2>2. task'[c] = At("registered", hold', 0) /\ \A u \in Task \ {c} : task'[u] = task[u]
      BY <1>5 DEF Hold, SchedulerTypeOK
    <2>3. \A d \in Client, i \in Id : Registered(d, i)' => IF d = c THEN i = made + 1 ELSE Registered(d, i)
      BY <2>1, <2>2 DEF Registered, At
    <2>4. \A d \in Client, i \in Id : Registered(d, i) => i <= made
      BY DEF SchedulerTypeOK, Numbered, Registered
    <2>5. \A i \in Id : task'[i] = task[i] /\ i \in Int
      BY <2>2 DEF Id
    <2>6. \A i \in Id : task'[i].pc # "idle" => i <= made /\ \A d \in Client : ~Registered(d, i)'
      BY <2>1, <2>3, <2>5 DEF NewCommand
    <2>7. \A i \in Id : \A d, e \in Client : Registered(d, i)' /\ Registered(e, i)' => d = e
      BY <2>1, <2>3, <2>4, <2>5 DEF NewCommand
    <2>8. \A i \in Id : i <= made => i <= made'
      BY <2>1, <2>5
    <2> QED
      BY <2>6, <2>7, <2>8 DEF NewCommand
  <1>6. ASSUME NEW c \in Client, NEW g \in BOOLEAN, HoldRefused(c, g) PROVE NewCommand'
    BY <1>2, <1>6 DEF HoldRefused
  <1>7. ASSUME NEW c \in Client, HoldRecorded(c) PROVE NewCommand'
    <2> DEFINE n == task[c].rec.id
    <2>1. n \in Id /\ n <= made /\ Registered(c, n)
      BY <1>7, MaxHoldsAssumption
      DEF HoldRecorded, Registered, SchedulerTypeOK, Local, Numbered, HoldRecord, Id
    <2>2. \A u \in Task \ {n} : task'[u] = IF u = c THEN IdleTask ELSE task[u]
      BY <1>7, <2>1 DEF HoldRecorded, SchedulerTypeOK
    <2> HIDE DEF n
    <2>3. \A d \in Client, i \in Id : Registered(d, i)' => d # c /\ Registered(d, i)
      BY <2>1, <2>2, IdleLocal DEF Registered
    <2>4. \A i \in Id \ {n} : task'[i] = task[i]
      BY <2>2
    <2>5. \A d \in Client : Registered(d, n) => d = c
      BY <2>1 DEF NewCommand
    <2>6. UNCHANGED made
      BY <1>7 DEF HoldRecorded
    <2>7. \A i \in Id : task'[i].pc # "idle" => i <= made' /\ \A d \in Client : ~Registered(d, i)'
      BY <2>1, <2>3, <2>4, <2>5, <2>6 DEF NewCommand
    <2>8. \A i \in Id : \A d, e \in Client : Registered(d, i)' /\ Registered(e, i)' => d = e
      BY <2>3 DEF NewCommand
    <2> QED
      BY <2>7, <2>8 DEF NewCommand
  <1>8. ASSUME NEW c \in Client, Cancel(c) PROVE NewCommand'
    BY <1>3, <1>8 DEF Cancel, Dealing
  <1>9. ASSUME NEW c \in Client, NEW kind \in Kind, Wake(c, kind) PROVE NewCommand'
    BY <1>3, <1>9 DEF Wake, Dealing
  <1>10. CASE TickSnapshot
    <2> DEFINE l == At("tick", hold, 0)
    <2>1. task' = [task EXCEPT ![Ticker] = l] /\ made' = made /\ Ticker \notin Id
      BY <1>10, TasksAreDistinct DEF TickSnapshot
    <2>2. l.pc = "tick"
      BY DEF At
    <2> HIDE DEF l
    <2> QED
      BY <2>1, <2>2, MoveOn
  <1>11. ASSUME NEW t \in Task, NEW pc \in Dealing, Take(t, pc), UNCHANGED made, task[t].pc # "idle"
         PROVE  NewCommand'
    BY <1>2, <1>3, <1>11 DEF Take
  <1>12. CASE TickAct
    <2>1. CASE Retire(Ticker)
      BY <1>2, <1>12, <2>1 DEF TickAct
    <2> QED
      BY <1>11, <1>12, <2>1 DEF TickAct, Dealing
  <1>13. ASSUME NEW i \in Id, NEW cutOff \in BOOLEAN, CommandEnds(i, cutOff) PROVE NewCommand'
    BY <1>11, <1>13 DEF CommandEnds, Dealing
  <1>14. ASSUME NEW t \in Task, Release(t) \/ Expire(t) \/ Cancelled(t) PROVE NewCommand'
    BY <1>2, <1>14 DEF Release, Expire, Cancelled
  <1>15. CASE UNCHANGED schedulerVars \/ Pass \/ \E e \in Others : Other(e)
    BY <1>1, <1>15 DEF schedulerVars, Pass, Other
  <1> QED
    BY <1>4, <1>5, <1>6, <1>7, <1>8, <1>9, <1>10, <1>12, <1>13, <1>14, <1>15 DEF SchedulerNext

LEMMA NewCommandInvariance == SchedulerSpec => []NewCommand
  <1>1. SchedulerInit => NewCommand
    BY Tasks, IdleLocal DEF SchedulerInit, NewCommand, Registered
  <1> QED
    BY <1>1, NewCommandStep, SchedulerTypeCorrect, PTL DEF SchedulerSpec
-----------------------------------------------------------------------------
\* The phases of the holds, as the abstract specification sees them.
Phases == [i \in Id |-> Phase(i)]

\* No hold moves when the map, the tasks' hands and the counters stay as they were.
LEMMA NothingMoves ==
  ASSUME UNCHANGED <<hold, made, ends>>,
         \A t \in Task, i \in Id : Taking(t, i)' <=> Taking(t, i)
  PROVE  Phases' = Phases
  <1>1. \A i \in Id : Phase(i)' = Phase(i)
    <2>1. TAKE i \in Id
    <2>2. (\E t \in Task : Taking(t, i)') <=> \E t \in Task : Taking(t, i)
      OBVIOUS
    <2> QED
      BY <2>2 DEF Phase
  <1> QED
    BY <1>1 DEF Phases

\* One hold moves.
LEMMA OneMoves ==
  ASSUME NEW h \in Id, NEW from, NEW to, Phase(h) = from, Phase(h)' = to,
         \A i \in Id \ {h} : Phase(i)' = Phase(i)
  PROVE  Life!Move(h, from, to)
  <1>1. Phases[h] = from /\ Phases' = [Phases EXCEPT ![h] = to]
    BY DEF Phases
  <1> QED
    BY <1>1 DEF Life!Move, Phases

\* A task without a hold in its hands does something else: nothing moves.
LEMMA BusyElsewhere ==
  ASSUME SchedulerTypeOK, UNCHANGED <<hold, made, ends>>, NEW t \in Task, NEW l,
         task[t].pc \notin Dealing, l.pc \notin Dealing, task' = [task EXCEPT ![t] = l]
  PROVE  Phases' = Phases
  <1>1. task'[t] = l /\ \A u \in Task \ {t} : task'[u] = task[u]
    BY DEF SchedulerTypeOK
  <1>2. \A u \in Task, i \in Id : Taking(u, i)' <=> Taking(u, i)
    BY <1>1 DEF Taking
  <1> QED
    BY <1>2, NothingMoves

\* Whoever takes the hold out of the map has it in his hands.
LEMMA TakeMoves ==
  ASSUME SchedulerIInv, NEW t \in Task, NEW pc \in Dealing, NEW rec,
         hold # NoHold, hold' = NoHold, UNCHANGED <<made, ends>>, task[t].pc \notin Dealing,
         task' = [task EXCEPT ![t] = At(pc, rec, hold.id)]
  PROVE  \E h \in Id : Life!Take(h)
  <1>0. SchedulerTypeOK
    BY DEF SchedulerIInv
  <1>1. PICK h \in Id : h = hold.id /\ ~(h > made)
    BY <1>0, MaxHoldsAssumption DEF SchedulerTypeOK, HoldRecord, Id
  <1>2. task'[t] = At(pc, rec, h) /\ \A u \in Task \ {t} : task'[u] = task[u]
    BY <1>0, <1>1 DEF SchedulerTypeOK
  <1>3. Taking(t, h)'
    BY <1>2 DEF Taking, At
  <1>4. \A u \in Task, i \in Id \ {h} : Taking(u, i)' <=> Taking(u, i)
    BY <1>2 DEF Taking, At
  <1>5. \A i \in Id : hold'.id # i
    BY DEF NoHold, Id
  <1>6. Phase(h) = "active"
    BY <1>1 DEF Phase
  <1>7. Phase(h)' = "taken"
    BY <1>1, <1>3, <1>5 DEF Phase
  <1>8. \A i \in Id \ {h} : Phase(i)' = Phase(i)
    BY <1>1, <1>4, <1>5 DEF Phase
  <1> QED
    BY <1>6, <1>7, <1>8, OneMoves DEF Life!Take

\* Whoever has a hold in his hands ends it.
LEMMA EndMoves ==
  ASSUME SchedulerIInv, NEW t \in Task, task[t].pc \in Dealing, Retire(t), Ended(t),
         UNCHANGED <<hold, made>>
  PROVE  \E h \in Id : Life!End(h)
  <1>0. SchedulerTypeOK
    BY DEF SchedulerIInv
  <1>1. PICK h \in Id : h = task[t].took /\ ~(h > made)
    BY <1>0, MaxHoldsAssumption DEF SchedulerTypeOK, Local, Numbered, Id
  <1>2. task'[t] = IdleTask /\ \A u \in Task \ {t} : task'[u] = task[u]
    BY <1>0 DEF SchedulerTypeOK, Retire
  <1>3. ends'[h] = ends[h] + 1 /\ \A i \in Id \ {h} : ends'[i] = ends[i]
    BY <1>0, <1>1 DEF SchedulerTypeOK, Ended
  <1>4. Taking(t, h) /\ hold.id # h /\ ends[h] = 0 /\ \A u \in Task : Taking(u, h) => u = t
    BY <1>1 DEF SchedulerIInv, EndsOnce, Taking
  <1>5. \A u \in Task : ~Taking(u, h)'
    BY <1>2, <1>4, IdleLocal DEF Taking, Dealing
  <1>6. \A u \in Task, i \in Id \ {h} : Taking(u, i)' <=> Taking(u, i)
    BY <1>1, <1>2, IdleLocal DEF Taking, Dealing
  <1>7. Phase(h) = "taken"
    BY <1>1, <1>4 DEF Phase
  <1>8. ends'[h] # 0 /\ hold'.id # h /\ ~(h > made')
    BY <1>1, <1>3, <1>4
  <1>9. Phase(h)' = "ended"
    BY <1>5, <1>8 DEF Phase
  <1>10. \A i \in Id \ {h} : Phase(i)' = Phase(i)
    <2>1. TAKE i \in Id \ {h}
    <2>2. (\E u \in Task : Taking(u, i)') <=> \E u \in Task : Taking(u, i)
      BY <1>6
    <2>3. ends'[i] = ends[i] /\ hold' = hold /\ made' = made
      BY <1>3
    <2> QED
      BY <2>2, <2>3 DEF Phase
  <1> QED
    BY <1>7, <1>9, <1>10, OneMoves DEF Life!End

\* The hold a dog asks for gets the next number.
LEMMA HoldMoves ==
  ASSUME SchedulerIInv, NEW c \in Client, NEW g \in BOOLEAN, Hold(c, g)
  PROVE  \E h \in Id : Life!Register(h)
  <1> USE Tasks
  <1>0. SchedulerTypeOK
    BY DEF SchedulerIInv
  <1>1. PICK h \in Id : h = made + 1 /\ made' = h /\ hold'.id = h
    BY <1>0, MaxHoldsAssumption DEF Hold, SchedulerTypeOK, Local, HoldRecord, Id
  <1>2. made \in Nat /\ h > made /\ ~(h > made')
    BY <1>0, <1>1, MaxHoldsAssumption DEF SchedulerTypeOK
  <1>3. task'[c] = At("registered", hold', 0) /\ task[c].pc = "declared"
        /\ \A u \in Task \ {c} : task'[u] = task[u]
    BY <1>0 DEF Hold, SchedulerTypeOK
  <1>4. \A u \in Task, i \in Id : Taking(u, i)' <=> Taking(u, i)
    BY <1>3 DEF Taking, Dealing, At
  <1>5. \A i \in Id : hold.id # i
    BY DEF Hold, NoHold, Id
  <1>6. Phase(h) = "unmade"
    BY <1>2 DEF Phase
  <1>7. Phase(h)' = "active"
    BY <1>1, <1>2 DEF Phase
  <1>8. \A i \in Id \ {h} : Phase(i)' = Phase(i)
    <2>1. TAKE i \in Id \ {h}
    <2>2. i > made' <=> i > made
      BY <1>1, <1>2 DEF Id
    <2>3. hold'.id # i /\ hold.id # i /\ ends' = ends
      BY <1>1, <1>5 DEF Hold
    <2>4. (\E u \in Task : Taking(u, i)') <=> \E u \in Task : Taking(u, i)
      BY <1>4
    <2> QED
      BY <2>2, <2>3, <2>4 DEF Phase
  <1>9. \A i \in Id : Phases[i] # "active"
    BY <1>5 DEF Phases, Phase
  <1>10. Life!Move(h, "unmade", "active")
    BY <1>6, <1>7, <1>8, OneMoves
  <1> QED
    BY <1>9, <1>10 DEF Life!Register, Phases

\* Reporting a hold starts its command, in a goroutine that has nothing in its hands.
LEMMA ReportMoves ==
  ASSUME SchedulerTypeOK, NewCommand, NEW c \in Client, HoldRecorded(c)
  PROVE  Phases' = Phases
  <1> USE Tasks
  <1>1. PICK n \in Id : n = task[c].rec.id
    BY MaxHoldsAssumption DEF HoldRecorded, SchedulerTypeOK, Local, Numbered, HoldRecord, Id
  <1>2. Registered(c, n) /\ task[c].pc \notin Dealing
    BY <1>1 DEF HoldRecorded, Registered, Dealing
  <1>3. task[n].pc = "idle"
    BY <1>2 DEF NewCommand
  <1>4. \A u \in Task \ {c, n} : task'[u] = task[u]
    BY <1>1 DEF HoldRecorded, SchedulerTypeOK
  <1>5. task'[c].pc \notin Dealing
    BY <1>1, IdleLocal DEF HoldRecorded, SchedulerTypeOK, Dealing
  <1>6. task'[n].pc \notin Dealing
    BY <1>1, <1>3 DEF HoldRecorded, SchedulerTypeOK, At, Dealing
  <1>7. \A u \in Task, i \in Id : Taking(u, i)' <=> Taking(u, i)
    BY <1>2, <1>3, <1>4, <1>5, <1>6 DEF Taking, Dealing
  <1> QED
    BY <1>7, NothingMoves DEF HoldRecorded

LEMMA LifeStep == SchedulerIInv /\ NewCommand /\ [SchedulerNext]_schedulerVars => [Life!LifeNext]_Phases
  <1> SUFFICES ASSUME SchedulerIInv, NewCommand, [SchedulerNext]_schedulerVars
               PROVE  Phases' = Phases \/ \E h \in Id : Life!Register(h) \/ Life!Take(h) \/ Life!End(h)
    BY DEF Life!LifeNext
  <1> DEFINE Moves == Phases' = Phases \/ \E h \in Id : Life!Register(h) \/ Life!Take(h) \/ Life!End(h)
  <1> USE Tasks
  <1>0. SchedulerTypeOK
    BY DEF SchedulerIInv
  <1>1. CASE UNCHANGED <<hold, made, ends, task>>
    BY <1>1, NothingMoves DEF Taking
  <1>2. ASSUME NEW t \in Task, Retire(t), task[t].pc \notin Dealing, UNCHANGED <<hold, made, ends>>
        PROVE  Moves
    BY <1>0, <1>2, BusyElsewhere, IdleLocal DEF Retire, Dealing
  <1>3. ASSUME NEW c \in Client, NEW r \in Asks, Declare(c, r) PROVE Moves
    BY <1>0, <1>3, BusyElsewhere DEF Declare, At, Dealing
  <1>4. ASSUME NEW c \in Client, NEW g \in BOOLEAN, Hold(c, g) PROVE Moves
    BY <1>4, HoldMoves
  <1>5. ASSUME NEW c \in Client, NEW g \in BOOLEAN, HoldRefused(c, g) PROVE Moves
    BY <1>2, <1>5 DEF HoldRefused, Dealing
  <1>6. ASSUME NEW c \in Client, HoldRecorded(c) PROVE Moves
    BY <1>0, <1>6, ReportMoves
  <1>7. ASSUME NEW c \in Client, Cancel(c) PROVE Moves
    BY <1>7, TakeMoves DEF Cancel, Dealing
  <1>8. ASSUME NEW c \in Client, NEW kind \in Kind, Wake(c, kind) PROVE Moves
    BY <1>8, TakeMoves DEF Wake, Dealing
  <1>9. CASE TickSnapshot
    BY <1>0, <1>9, BusyElsewhere DEF TickSnapshot, At, Dealing
  <1>10. ASSUME NEW t \in Task, NEW pc \in Dealing, Take(t, pc), UNCHANGED <<made, ends>>,
                task[t].pc \notin Dealing
         PROVE  Moves
    BY <1>2, <1>10, TakeMoves DEF Take
  <1>11. CASE TickAct
    <2>1. CASE UNCHANGED hold /\ Retire(Ticker)
      BY <1>2, <1>11, <2>1 DEF TickAct, Dealing
    <2> QED
      BY <1>10, <1>11, <2>1 DEF TickAct, Dealing
  <1>12. ASSUME NEW i \in Id, NEW cutOff \in BOOLEAN, CommandEnds(i, cutOff) PROVE Moves
    BY <1>10, <1>12 DEF CommandEnds, Dealing
  <1>13. ASSUME NEW t \in Task, Release(t) \/ Expire(t) \/ Cancelled(t) PROVE Moves
    BY <1>13, EndMoves DEF Release, Expire, Cancelled, Dealing
  <1>14. CASE UNCHANGED schedulerVars \/ Pass \/ \E e \in Others : Other(e)
    BY <1>1, <1>14 DEF schedulerVars, Pass, Other
  <1> QED
    BY <1>3, <1>4, <1>5, <1>6, <1>7, <1>8, <1>9, <1>11, <1>12, <1>13, <1>14 DEF SchedulerNext

\* Each hold of a thread is registered while no other is active, taken by one task and ended
\* by that task (hold_scheduler.go:77-82, :214-256): the scheduler implements HoldLife, for
\* any number of clients and holds.
THEOREM ImplementsLife == SchedulerSpec => ImplementsHoldLife
  <1>1. SchedulerInit => Life!LifeInit
    BY DEF SchedulerInit, Life!LifeInit, Phase, Id
  <1>2. SchedulerIInv /\ NewCommand /\ [SchedulerNext]_schedulerVars
        => [Life!LifeNext]_[i \in Id |-> Phase(i)]
    BY LifeStep DEF Phases
  <1> QED
    BY <1>1, <1>2, SchedulerInvariance, NewCommandInvariance, PTL
    DEF SchedulerSpec, ImplementsHoldLife, Life!LifeSpec

\* No hold is lost between the map and the hands of the tasks: one that was made is active,
\* taken or ended, whoever acts on a record that is stale by then (hold_scheduler.go:213-256).
THEOREM NoHoldIsLost == SchedulerSpec => []Life!LifeTypeOK
  <1>1. Life!LifeInit => Life!LifeTypeOK
    BY DEF Life!LifeInit, Life!LifeTypeOK
  <1>2. Life!LifeTypeOK /\ [Life!LifeNext]_[i \in Id |-> Phase(i)] => Life!LifeTypeOK'
    BY DEF Life!LifeTypeOK, Life!LifeNext, Life!Register, Life!Take, Life!End, Life!Move
  <1> QED
    BY <1>1, <1>2, ImplementsLife, PTL DEF ImplementsHoldLife, Life!LifeSpec
=============================================================================
