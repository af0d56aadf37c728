----------------------------- MODULE CustodyLog -----------------------------
(***************************************************************************)
(* The append-only ledger of one thread, event by event, and the zombie    *)
(* sweep that reads it.  Orchestration goroutines append whatever they     *)
(* did; ReconcileZombies reads the whole log, decides, and appends its     *)
(* verdict later, with no lock around the two.                             *)
(*                                                                         *)
(* Time: an entry carries its age, which grows with TimePasses and         *)
(* saturates at MaxAge, one past the largest threshold; the code only      *)
(* compares ages with thresholds.  swept marks the sweep's own entries.    *)
(***************************************************************************)
EXTENDS Custody, SequencesExt

CONSTANTS Writable,          \* the events the callers of this instance append
          MaxWritten,        \* bound: how many of them
          DegradeThreshold, Timeout, LongIdle   \* 90 s, 5 min, 10 min in the code

ASSUME WritableAssumption   == Writable \subseteq Event
ASSUME ThresholdsAssumption == /\ DegradeThreshold \in Nat /\ Timeout \in Nat /\ LongIdle \in Nat
                               /\ DegradeThreshold < Timeout

VARIABLES log,       \* Seq of events with an age and their author
          activity,  \* index of the entry lastActivity is taken from, 0 before any
          verdict    \* what the sweep has decided to append, or NoVerdict

logVars == <<log, view, activity, verdict>>

NoVerdict == By("none", None)
MaxAge == 1 + IF Timeout > LongIdle THEN Timeout ELSE LongIdle

Entry(e, swept) == [event |-> e, age |-> 0, swept |-> swept]
Older(x) == [event |-> x.event, age |-> IF x.age < MaxAge THEN x.age + 1 ELSE x.age, swept |-> x.swept]

Written(l) == Len(SelectSeq(l, LAMBDA x : ~x.swept))

\* lastActivity: starts, and heartbeats of an invocation still in flight.
IsActivity(e) ==
  \/ e.type = "invocation.started"
  \/ e.type = "invocation.heartbeat" /\ view.inFlight

\* Append.  Project folds the log anew on each read; view is that fold, one entry at a time.
Write(e, swept) ==
  /\ log' = Append(log, Entry(e, swept))
  /\ view' = Observe(view, e)
  /\ activity' = IF IsActivity(e) THEN Len(log) + 1 ELSE activity

\* One thread's turn of ReconcileZombies.
Idleness == log[activity].age

\* Bugs to look for: repeating the degraded mark, and letting it silence the timeout.
VerdictRepeats ==
  CASE view.inFlight /\ Idleness > Timeout -> By("invocation.died", view.started)
    [] view.inFlight /\ Idleness \in DegradeThreshold + 1..Timeout -> By("ball.degraded", view.started)
    [] OTHER -> NoVerdict

VerdictMarksOnce ==
  IF view.inFlight /\ Idleness > DegradeThreshold /\ Last(log).event.type # "ball.degraded"
  THEN By(IF Idleness > Timeout THEN "invocation.died" ELSE "ball.degraded", view.started)
  ELSE NoVerdict

Verdict ==
  LET last == Last(log).event.type
  IN  IF view.inFlight /\ Idleness > Timeout THEN By("invocation.died", view.started)
      ELSE IF view.inFlight /\ Idleness > DegradeThreshold /\ last # "ball.degraded"
      THEN By("ball.degraded", view.started)
      ELSE IF /\ ~view.inFlight /\ view.state = "blocked"
              /\ Last(log).age > LongIdle /\ last # "task.idle_long"
      THEN By("task.idle_long", view.holder)
      ELSE NoVerdict
-----------------------------------------------------------------------------
LogInit == log = <<>> /\ view = EmptyView /\ activity = 0 /\ verdict = NoVerdict

Recorded(e) ==
  /\ Written(log) < MaxWritten
  /\ Write(e, FALSE)
  /\ UNCHANGED verdict

SweepRead ==
  /\ verdict = NoVerdict
  /\ log # <<>>
  /\ verdict' = Verdict
  /\ UNCHANGED <<log, view, activity>>

SweepWrite ==
  /\ verdict # NoVerdict
  /\ Write(verdict, TRUE)
  /\ verdict' = NoVerdict

TimePasses ==
  /\ \E i \in DOMAIN log : log[i].age < MaxAge
  /\ log' = [i \in DOMAIN log |-> Older(log[i])]
  /\ UNCHANGED <<view, activity, verdict>>

LogNext ==
  \/ \E e \in Writable : Recorded(e)
  \/ SweepRead
  \/ SweepWrite
  \/ TimePasses

LogSpec == LogInit /\ [][LogNext]_logVars

\* The sweep runs on a ticker for the life of the process, and time passes.
FairLogSpec == LogSpec /\ WF_logVars(SweepRead) /\ WF_logVars(SweepWrite) /\ WF_logVars(TimePasses)
-----------------------------------------------------------------------------
EntrySet == [event : Event, age : 0..MaxAge, swept : BOOLEAN]

\* log is a sequence of custody events of known authorship and age; an invocation in
\* flight always has an entry its idleness is measured from.
LogTypeOK ==
  /\ log \in Seq(EntrySet)
  /\ view \in View
  /\ activity \in 0..Len(log) /\ (view.inFlight => activity > 0)
  /\ verdict \in Event \cup {NoVerdict}

LastWhere(P(_)) == {i \in DOMAIN log : P(log[i].event) /\ \A j \in i + 1..Len(log) : ~P(log[j].event)}

IsStart(e) == e.type = "invocation.started"
IsHandoff(e) == e.type \in Handoff

\* The fold carries exactly the facts the guards and the reconciler scan the log for: the
\* last start, the last handoff's receiver, and whether a stop followed the last start.
ViewIsScan ==
  /\ view.started = IF LastWhere(IsStart) = {} THEN None
                    ELSE log[CHOOSE i \in LastWhere(IsStart) : TRUE].event.holder
  /\ view.lastTo = IF LastWhere(IsHandoff) = {} THEN None
                    ELSE log[CHOOSE i \in LastWhere(IsHandoff) : TRUE].event.to
  /\ view.inFlight <=> \E i \in LastWhere(IsStart) :
                         \A j \in i + 1..Len(log) : log[j].event.type \notin Stop

\* A dog the ball was handed to and that started passes the dispatch guard for as long as
\* no later entry names another dog: whatever it writes itself, and whatever is written
\* about it, cannot make the ledger refuse its own disposition.
HolderIsNotRefused ==
  \A b \in Breed, i \in DOMAIN log :
    ( /\ log[i].event \in {HandTo(t, b) : t \in Handoff}
      /\ i < Len(log) /\ log[i + 1].event = By("invocation.started", b)
      /\ \A j \in i + 2..Len(log) : {log[j].event.holder, log[j].event.to} \subseteq {b, None} )
    => DispatchGuard(view, b)

\* The sweep does not flood the log: however long a thread stays quiet, it adds at most
\* three entries in a row (a stale idle mark, then degraded, then died).
SweepIsSparse ==
  \A i \in DOMAIN log : i + 3 \in DOMAIN log => \E j \in i..i + 3 : ~log[j].swept

\* An invocation whose goroutine stopped writing is closed in the end.
DanglingIsClosed == view.inFlight ~> ~view.inFlight
=============================================================================
