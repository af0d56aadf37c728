------------------------------- MODULE Custody -------------------------------
(***************************************************************************)
(* The ball-custody state machine as pure operators: what one ledger event *)
(* does to the projected snapshot, and the three assertions a disposition  *)
(* has to pass.  Every module about custody is built from these.           *)
(*                                                                         *)
(* The code keeps an append-only log per thread and refolds it on every    *)
(* read.  All it ever reads back are a handful of facts about the log, so  *)
(* the modules that need not mention the log itself keep those facts in    *)
(* view, and advance it by one event with Observe.  CustodyLog shows that  *)
(* they are what a scan of the log finds.                                  *)
(***************************************************************************)
EXTENDS Naturals

CONSTANTS Breed,   \* the dogs: identities of the agents that can hold a ball
          None     \* the empty string where a breed is expected

ASSUME NoneIsNoBreed == None \notin Breed

VARIABLE view   \* the projected ledger of the thread: what Project makes of its log

Holder == Breed \cup {None}

BallState == {"new", "active", "blocked", "parked", "dead", "void", "zombie", "resolved"}

Handoff == {"ball.handed", "dispatch_dispositioned"}
Stop    == {"invocation.died", "task.done", "task.blocked"}

\* Events that are only an audit trail: they never touch the snapshot.
AuditOnly == {"ball.disposition_rejected", "ball.wake_sent"}

EventType == Handoff \cup Stop \cup AuditOnly \cup
  {"invocation.started", "invocation.heartbeat", "ball.held", "wake_condition_met",
   "hold_dispositioned", "ball.handed_cvo", "ball.void_pass", "ball.hold_expired",
   "ball.frozen", "ball.degraded", "ball.abandoned", "task.unblocked", "task.idle_long"}

Event == [type : EventType, holder : Holder, to : Holder]

\* An event that names its holder and no receiver, the form of most of them.
By(type, holder) == [type |-> type, holder |-> holder, to |-> None]

\* A handoff to b; the code always fills both To and Holder with the receiver.
HandTo(type, b) == [type |-> type, holder |-> b, to |-> b]

View == [state : BallState, holder : Holder, started : Holder, lastTo : Holder, inFlight : BOOLEAN]

EmptyView == [state |-> "new", holder |-> None, started |-> None, lastTo |-> None, inFlight |-> FALSE]
-----------------------------------------------------------------------------
\* Project, the state half of the fold: most events pin a state whatever came before.
Activating == Handoff \cup {"invocation.started", "hold_dispositioned"}
Parking    == {"ball.held", "ball.handed_cvo"}
Blocking   == {"task.blocked", "ball.frozen", "task.idle_long"}
Killing    == {"ball.hold_expired", "ball.abandoned"}

StateAfter(s, type) ==
  IF type \in Activating THEN "active"
  ELSE IF type \in Parking THEN "parked"
  ELSE IF type \in Blocking THEN "blocked"
  ELSE IF type \in Killing THEN "dead"
  ELSE IF type = "invocation.died" THEN "zombie"
  ELSE IF type = "task.done" THEN "resolved"
  ELSE IF type = "ball.void_pass" THEN "void"
  ELSE IF \/ type = "ball.degraded" /\ s = "new"
          \/ type = "task.unblocked" /\ s = "blocked" THEN "active"
  ELSE s

\* The events whose holder field Project ignores, whatever the state.
Mute == AuditOnly \cup {"hold_dispositioned", "ball.void_pass"}

\* Heartbeats speak only for an active ball, wake conditions for a parked one.
Speaks(s, type) ==
  /\ type \notin Mute
  /\ type = "invocation.heartbeat" => s = "active"
  /\ type = "wake_condition_met" => s = "parked"

\* A bug to look for: an event without a holder clears it.
HolderCleared(s, h, e) == IF Speaks(s, e.type) THEN e.holder ELSE h

\* Project, the holder half: the event's holder, else its receiver if it passes the ball.
HolderAfter(s, h, e) ==
  IF ~Speaks(s, e.type) THEN h
  ELSE IF e.holder # None THEN e.holder
  ELSE IF (e.type \in Handoff \/ e.type = "ball.handed_cvo") /\ e.to # None THEN e.to
  ELSE h

\* A bug to look for: a new start does not replace the one the guards compare with.
ObserveFirstStart(v, e) ==
  [v EXCEPT !.started = IF e.type = "invocation.started" /\ @ = None THEN e.holder ELSE @,
            !.lastTo  = IF e.type \in Handoff THEN e.to ELSE @]

\* One more event on the log: the snapshot, the facts the guards scan for, and
\* whether the reconciler sees an invocation in flight.
Observe(v, e) ==
  [state    |-> StateAfter(v.state, e.type),
   holder   |-> HolderAfter(v.state, v.holder, e),
   started  |-> IF e.type = "invocation.started" THEN e.holder ELSE v.started,
   lastTo   |-> IF e.type \in Handoff THEN e.to ELSE v.lastTo,
   inFlight |-> IF e.type = "invocation.started" THEN TRUE
                ELSE v.inFlight /\ e.type \notin Stop]
-----------------------------------------------------------------------------
\* assertCurrentHolder, assertLatestInvocation, assertExactHandoffIsLive.
CurrentHolder(v, from)       == v.holder = from
LatestInvocation(v, from)    == v.started \in {None, from}
ExactHandoffIsLive(v, from)  == v.lastTo \in {None, from}

\* A bug to look for: not asking whose run is the latest.
DispatchGuardAnyRun(v, from) == CurrentHolder(v, from) /\ ExactHandoffIsLive(v, from)

DispatchGuard(v, from) ==
  /\ CurrentHolder(v, from)
  /\ LatestInvocation(v, from)
  /\ ExactHandoffIsLive(v, from)

HoldGuard(v, holder) ==
  /\ v.state = "parked"
  /\ CurrentHolder(v, holder)
  /\ LatestInvocation(v, holder)
  /\ ExactHandoffIsLive(v, holder)
=============================================================================
