--------------------------- MODULE Orchestration ---------------------------
(***************************************************************************)
(* The orchestrator of one thread: what a user message or a released hold  *)
(* sets in motion.  Each is a goroutine, here a chain, that runs a dog,    *)
(* reads the dogs its answer mentions, passes the ball to them and runs    *)
(* them inside the same call, so a chain is a call stack.  It meets other  *)
(* chains, its own heartbeats and the zombie sweep in the custody ledger,  *)
(* spends the budget of its worklist, and speaks through whatever          *)
(* connection the thread is bound to at the moment.                        *)
(*                                                                         *)
(* The ledger is its view (Custody), a disposition is one step             *)
(* (BallLedger has its steps), the hold scheduler is the one manual hold   *)
(* it can have (HoldScheduler has the rest).  The review gate is a free    *)
(* choice.  A chain is used once, so Chain bounds how many messages and    *)
(* resumptions there are.  Conn is how many connections there are at once. *)
(***************************************************************************)
EXTENDS Custody, SequencesExt

CONSTANTS Chain, Conn,
          Runnable,      \* the dogs that have a variant to run with
          Slots,         \* maxConcurrentBark, 8
          SopDepths,     \* what the SOP's A2A depth may be configured to
          Fallback,      \* the worklists' ceiling under a low SOP depth, 8
          MaxMentions,   \* bound on the dogs one answer mentions
          MaxTargets,    \* bound on the dogs one message mentions
          Serial         \* whether messages may ask for a serial pipeline

ASSUME RunnableAssumption == Runnable \subseteq Breed
ASSUME BoundsAssumption ==
  {Slots, Fallback, MaxMentions, MaxTargets} \cup SopDepths \subseteq Nat /\ Fallback > 0

VARIABLES worklist,  \* the worklist of each chain's invocation
          hold,      \* the dog whose hold is registered, or None
          bound,     \* the connection whose streamer the thread has, be it closed by now, or None
          status,    \* of each chain: free, queued, live, over
          resumed,   \* the chains that a released hold started
          stack,     \* the calls of each chain, the current one last
          runs,      \* history: how often each chain entered executeWithPlatform
          asked,     \* history: the dogs a pipeline or parallel message asked for, 0 for others
          handoffs,  \* history: how many handoffs the thread has had
          tripped,   \* history: the chains whose breaker has tripped
          sopMax     \* the configured SOP depth, the same for the life of the process

custodyVars == <<view, hold>>
chainVars == <<status, resumed, stack, runs>>
limits == <<asked, handoffs, tripped, sopMax>>
vars == <<custodyVars, worklist, bound, chainVars, limits>>

\* Only the operators on one worklist are used, which know no MaxDepth, Inv or pushes.
W == INSTANCE Worklist WITH Inv <- Chain, MaxDepth <- Fallback, MaxFanout <- 16, pushes <- [c \in Chain |-> <<>>]

\* worklistMaxDepth.
MaxDepth == IF sopMax >= W!PingPongBlock THEN sopMax ELSE Fallback

\* A call: executeWithPlatform for a dog, with the mentions it still has to follow, or the
\* loop of executeSerial, with the dog it ran last and those still to run, or
\* executeParallel, with the dogs it still waits for.
Frame(breed, pc, todo) == [breed |-> breed, pc |-> pc, todo |-> todo]
Run(b) == Frame(b, "enter", <<>>)
Beating == {"run", "held", "mentions", "push", "gate"}   \* the heartbeat goroutine lives
PC == Beating \cup {"enter", "hand", "start", "exec", "serial", "parallel"}

Top(c) == stack[c][Len(stack[c])]
At(c, pc) == status[c] = "live" /\ Top(c).pc = pc
Below(c) == SubSeq(stack[c], 1, Len(stack[c]) - 1)
Goto(c, f) == stack' = [stack EXCEPT ![c] = Append(Below(c), f)]
Step(c, pc) == Goto(c, Frame(Top(c).breed, pc, Top(c).todo))

\* The mention in hand is dealt with.
Rest(f) == Frame(f.breed, "mentions", Tail(f.todo))
Skip(c) == Goto(c, Rest(Top(c)))

Call(c, caller, callee) == stack' = [stack EXCEPT ![c] = Below(c) \o <<caller, callee>>]
Record(e) == view' = Observe(view, e)

\* A call returns.  A message's goroutine releases the worklist when its first call
\* returns; a resumed one just ends.  No streamer, no variant, a spawn error: all return.
Return(c) ==
  /\ stack' = [stack EXCEPT ![c] = Below(c)]
  /\ status' = [status EXCEPT ![c] = IF Len(stack[c]) = 1 THEN "over" ELSE @]

\* A bug to look for: Done is not called.
ReleasedNever(c, w) == w

Released(c, w) == IF Len(stack[c]) = 1 /\ c \notin resumed THEN [w EXCEPT ![c] = W!NoList] ELSE w
ReturnAndRelease(c) == Return(c) /\ worklist' = Released(c, worklist)
-----------------------------------------------------------------------------
Init ==
  /\ view = EmptyView /\ hold = None
  /\ worklist = [c \in Chain |-> W!NoList]
  /\ bound = None
  /\ status = [c \in Chain |-> "free"] /\ resumed = {}
  /\ stack = [c \in Chain |-> <<>>] /\ runs = [c \in Chain |-> 0]
  /\ asked = [c \in Chain |-> 0] /\ handoffs = 0 /\ tripped = {}
  /\ sopMax \in SopDepths

\* A message, or an answer to an escalation that carries a prompt, binds the thread to its
\* connection and starts a goroutine.
UserInput(k, c, first) ==
  /\ status[c] = "free"
  /\ bound' = k
  /\ status' = [status EXCEPT ![c] = "queued"]
  /\ stack' = [stack EXCEPT ![c] = <<first>>]
  /\ asked' = [asked EXCEPT ![c] = Len(first.todo)]
  /\ UNCHANGED <<custodyVars, worklist, resumed, runs, handoffs, tripped, sopMax>>

\* A message that no dog can take only binds.
Unrouted(k) == bound' = k /\ UNCHANGED <<custodyVars, worklist, chainVars, limits>>

\* A connection closes and deletes the streamer of the thread it named last, by a message, an
\* answer or a wake-up, whichever connection that streamer is of.  Which thread that is, is
\* free: a connection that went on to another thread leaves this one a streamer that leads
\* nowhere, and closes without a step here.
Disconnect ==
  /\ bound # None /\ bound' = None
  /\ UNCHANGED <<custodyVars, worklist, chainVars, limits>>

\* Only messages' goroutines take a slot, and keep it to the end.
Acquire(c) ==
  /\ status[c] = "queued"
  /\ Cardinality({d \in Chain : status[d] = "live" /\ d \notin resumed}) < Slots
  /\ status' = [status EXCEPT ![c] = "live"]
  /\ UNCHANGED <<custodyVars, worklist, bound, resumed, stack, runs, limits>>

\* A wake-up, a click, a webhook or a timer, does not bind the thread.  The scheduler gives
\* up the hold, the ledger judges, and the holder is run again.
Wake(c) ==
  /\ hold # None /\ status[c] = "free"
  /\ hold' = None
  /\ \/ /\ HoldGuard(view, hold)
        /\ view' = Observe(Observe(view, By("wake_condition_met", hold)), By("hold_dispositioned", hold))
        /\ status' = [status EXCEPT ![c] = "live"]
        /\ resumed' = resumed \cup {c}
        /\ stack' = [stack EXCEPT ![c] = <<Run(hold)>>]
     \/ /\ ~HoldGuard(view, hold)
        /\ UNCHANGED <<view, status, resumed, stack>>
  /\ UNCHANGED <<worklist, bound, runs, limits>>
-----------------------------------------------------------------------------
\* Recursive calls register the invocation again, to no effect; the bug to look for is
\* that they start over.
RegisteredAfresh(w) == W!NewList(MaxDepth)
Registered(w) == IF w.live THEN w ELSE W!NewList(MaxDepth)

\* executeWithPlatform without a streamer, or for a dog without a variant.
EnterFails(c) ==
  /\ At(c, "enter")
  /\ \/ bound = None /\ worklist' = Released(c, worklist)
     \/ /\ bound # None /\ Top(c).breed \notin Runnable
        /\ worklist' = Released(c, [worklist EXCEPT ![c] = Registered(@)])
  /\ Return(c)
  /\ UNCHANGED <<custodyVars, bound, resumed, runs, limits>>

Enter(c) ==
  /\ At(c, "enter") /\ bound # None /\ Top(c).breed \in Runnable
  /\ worklist' = [worklist EXCEPT ![c] = Registered(@)]
  /\ runs' = [runs EXCEPT ![c] = @ + 1]
  /\ Step(c, "hand")
  /\ UNCHANGED <<custodyVars, bound, status, resumed, limits>>

Hand(c) ==
  /\ At(c, "hand") /\ Record(HandTo("ball.handed", Top(c).breed)) /\ Step(c, "start")
  /\ UNCHANGED <<hold, worklist, bound, status, resumed, runs, limits>>

Start(c) ==
  /\ At(c, "start") /\ Record(By("invocation.started", Top(c).breed)) /\ Step(c, "exec")
  /\ UNCHANGED <<hold, worklist, bound, status, resumed, runs, limits>>

Execute(c) ==
  /\ At(c, "exec") /\ Step(c, "run")
  /\ UNCHANGED <<custodyVars, worklist, bound, status, resumed, runs, limits>>

ExecuteFails(c) ==
  /\ At(c, "exec") /\ Record(By("invocation.died", Top(c).breed)) /\ ReturnAndRelease(c)
  /\ UNCHANGED <<hold, bound, resumed, runs, limits>>

\* Every call whose dog has begun to run beats until it returns, also while the dogs it
\* passed the ball to run.
Heartbeat(c, i) ==
  /\ status[c] = "live" /\ stack[c][i].pc \in Beating
  /\ Record(By("invocation.heartbeat", stack[c][i].breed))
  /\ UNCHANGED <<hold, worklist, bound, chainVars, limits>>

\* The answer asks to hold the ball ...
Held(c) ==
  /\ At(c, "run") /\ Record(By("ball.held", Top(c).breed)) /\ Step(c, "held")
  /\ UNCHANGED <<hold, worklist, bound, status, resumed, runs, limits>>

\* ... and the call returns, whether or not the scheduler had room for the hold.
Park(c) ==
  /\ At(c, "held")
  /\ \/ hold # None /\ UNCHANGED custodyVars
     \/ hold = None /\ hold' = Top(c).breed /\ Record(By("ball.held", Top(c).breed))
  /\ ReturnAndRelease(c)
  /\ UNCHANGED <<bound, resumed, runs, limits>>

\* The answer is complete.  A pipeline's dogs do not pass the ball on themselves.
Finish(c, mentions) ==
  /\ At(c, "run")
  /\ Record(By("task.done", Top(c).breed))
  /\ Goto(c, Frame(Top(c).breed, "mentions",
                   IF Len(stack[c]) > 1 /\ stack[c][1].pc = "serial" THEN <<>> ELSE mentions))
  /\ UNCHANGED <<hold, worklist, bound, status, resumed, runs, limits>>
-----------------------------------------------------------------------------
MentionsEnd(c) ==
  /\ At(c, "mentions") /\ Top(c).todo = <<>>
  /\ ReturnAndRelease(c)
  /\ UNCHANGED <<custodyVars, bound, resumed, runs, limits>>

Mentioned(c) == Head(Top(c).todo)

\* A mention of itself is skipped, one of nobody (None) is a voided pass.
MentionIdle(c) ==
  /\ At(c, "mentions") /\ Top(c).todo # <<>> /\ Mentioned(c) \in {Top(c).breed, None}
  /\ IF Mentioned(c) = None THEN Record(By("ball.void_pass", None)) ELSE UNCHANGED view
  /\ Skip(c)
  /\ UNCHANGED <<hold, worklist, bound, status, resumed, runs, limits>>

MentionsDog(c) ==
  At(c, "mentions") /\ Top(c).todo # <<>> /\ Mentioned(c) \notin {Top(c).breed, None}

\* A bug to look for: a refused disposition is tried again.
DispatchRetried(c) ==
  /\ MentionsDog(c)
  /\ DispatchGuard(view, Top(c).breed)
  /\ Record(HandTo("dispatch_dispositioned", Mentioned(c))) /\ Step(c, "push")
  /\ UNCHANGED <<hold, worklist, bound, status, resumed, runs, limits>>

\* handleA2AHandoff: the ledger disposes the ball to the dog, or refuses.
Dispatch(c) ==
  /\ MentionsDog(c)
  /\ \/ /\ DispatchGuard(view, Top(c).breed)
        /\ Record(HandTo("dispatch_dispositioned", Mentioned(c)))
        /\ Step(c, "push")
     \/ /\ ~DispatchGuard(view, Top(c).breed)
        /\ Record(By("ball.disposition_rejected", Top(c).breed))
        /\ Skip(c)
  /\ UNCHANGED <<hold, worklist, bound, status, resumed, runs, limits>>

\* The worklist refuses: the ball is blocked with the dog that did not get to run.
PushRefused(c, substantive) ==
  /\ At(c, "push") /\ ~W!Accepts(W!Found(c), Top(c).breed, Mentioned(c), substantive)
  /\ worklist' = [worklist EXCEPT ![c] = W!Found(c)]
  /\ Record(By("task.blocked", Mentioned(c)))
  /\ Skip(c)
  /\ tripped' = tripped \cup {c}
  /\ UNCHANGED <<hold, bound, status, resumed, runs, asked, handoffs, sopMax>>

\* The hub's thread is looked up by the session and stored under an id of its own, so
\* every handoff is the first of a new one, and its round is 1 when the SOP looks at it.
\* (PushToWorklist of the dog that Push has just taken in adds nothing.)
Push(c, substantive) ==
  /\ At(c, "push") /\ W!Accepts(W!Found(c), Top(c).breed, Mentioned(c), substantive)
  /\ worklist' = [worklist EXCEPT ![c] = W!Extended(W!Found(c), Top(c).breed, Mentioned(c), substantive)]
  /\ handoffs' = handoffs + 1
  /\ \/ 1 < sopMax /\ Step(c, "gate") /\ UNCHANGED <<view, tripped>>
     \/ /\ 1 >= sopMax /\ Record(By("ball.handed_cvo", Mentioned(c))) /\ Skip(c)
        /\ tripped' = tripped \cup {c}
  /\ UNCHANGED <<hold, bound, status, resumed, runs, asked, sopMax>>

SnapshotAllows(c) ==
  view.state \in {"void", "dead"} \/ view.holder \in {None, Top(c).breed, Mentioned(c)}

\* The review gate refuses (free), or the ledger names a third dog: the mention is dropped.
ReviewCloses(c) ==
  /\ At(c, "gate") /\ Skip(c)
  /\ UNCHANGED <<custodyVars, worklist, bound, status, resumed, runs, limits>>

GateCloses(c) ==
  /\ At(c, "gate") /\ ~SnapshotAllows(c) /\ Skip(c)
  /\ UNCHANGED <<custodyVars, worklist, bound, status, resumed, runs, limits>>

GateOpens(c) ==
  /\ At(c, "gate") /\ SnapshotAllows(c)
  /\ Call(c, Rest(Top(c)), Run(Mentioned(c)))
  /\ UNCHANGED <<custodyVars, worklist, bound, status, resumed, runs, limits>>

\* executeSerial: the first dog just runs, the others after a disposition that is not refused.
Pipe(c) ==
  /\ At(c, "serial") /\ Top(c).todo # <<>>
  /\ \/ Top(c).breed = None /\ UNCHANGED view
     \/ /\ Top(c).breed # None /\ DispatchGuard(view, Top(c).breed)
        /\ Record(HandTo("dispatch_dispositioned", Mentioned(c)))
  /\ Call(c, Frame(Mentioned(c), "serial", Tail(Top(c).todo)), Run(Mentioned(c)))
  /\ UNCHANGED <<hold, worklist, bound, status, resumed, runs, limits>>

PipeEnds(c) ==
  /\ At(c, "serial")
  /\ Top(c).todo = <<>> \/ (Top(c).breed # None /\ ~DispatchGuard(view, Top(c).breed))
  /\ ReturnAndRelease(c)
  /\ UNCHANGED <<custodyVars, bound, resumed, runs, limits>>

\* executeParallel: the dogs run at once, each its own goroutine, and leave no trace in the
\* ledger; one that has no streamer or no variant just ends.
Bark(c) ==
  /\ At(c, "parallel")
  /\ \E i \in 1..Len(Top(c).todo) : Goto(c, Frame(Top(c).breed, "parallel", RemoveAt(Top(c).todo, i)))
  /\ UNCHANGED <<custodyVars, worklist, bound, status, resumed, runs, limits>>

\* It answers when the last is done.
ParallelEnds(c) ==
  /\ At(c, "parallel") /\ Top(c).todo = <<>>
  /\ ReturnAndRelease(c)
  /\ UNCHANGED <<custodyVars, bound, resumed, runs, limits>>
-----------------------------------------------------------------------------
\* An invocation in flight that nobody beats for is degraded, then declared dead.
Sweep ==
  /\ view.inFlight
  /\ \A c \in Chain : \A i \in 1..Len(stack[c]) : stack[c][i].pc \notin Beating \cup {"exec"}
  /\ \E type \in {"ball.degraded", "invocation.died"} : Record(By(type, view.started))
  /\ UNCHANGED <<hold, worklist, bound, chainVars, limits>>

Mentions == UNION {[1..n -> Breed \cup {None}] : n \in 0..MaxMentions}
Distinct(s) == \A i, j \in 1..Len(s) : s[i] = s[j] => i = j

Several == UNION {[1..n -> Breed] : n \in 2..MaxTargets}

\* What the router makes of a message: one dog, or several in a row or at once.
Messages ==
  {Run(b) : b \in Breed} \cup
  {Frame(None, pc, s) : pc \in {"parallel"} \cup (IF Serial THEN {"serial"} ELSE {}),
                        s \in {t \in Several : Distinct(t)}}

Proceed(c) ==
  \/ Acquire(c)
  \/ EnterFails(c) \/ Enter(c) \/ Hand(c) \/ Start(c) \/ Execute(c) \/ ExecuteFails(c)
  \/ Held(c) \/ Park(c)
  \/ \E m \in Mentions : Distinct(m) /\ Finish(c, m)
  \/ MentionsEnd(c) \/ MentionIdle(c) \/ Dispatch(c)
  \/ \E substantive \in BOOLEAN : Push(c, substantive) \/ PushRefused(c, substantive)
  \/ ReviewCloses(c) \/ GateCloses(c) \/ GateOpens(c) \/ Pipe(c) \/ PipeEnds(c)
  \/ Bark(c) \/ ParallelEnds(c)

Next ==
  \/ \E c \in Chain :
       \/ Proceed(c)
       \/ \E i \in 1..Len(stack[c]) : Heartbeat(c, i)
       \/ \E k \in Conn, m \in Messages : UserInput(k, c, m)
       \/ Wake(c)
  \/ \E k \in Conn : Unrouted(k)
  \/ Disconnect \/ Sweep

Spec == Init /\ [][Next]_vars

\* Goroutines run on and the reconciler sweeps every minute.  That a dog's process ends is
\* assumed of the process: the liveness probe only warns of one that hangs.
FairSpec == Spec /\ (\A c \in Chain : WF_vars(Proceed(c))) /\ WF_vars(Sweep)
-----------------------------------------------------------------------------
CallSet == [breed : Holder, pc : PC, todo : Seq(Holder)]

\* Types; the calls under the current one wait for it in one of the two loops.
TypeOK ==
  /\ view \in View /\ hold \in Holder
  /\ worklist \in [Chain -> W!List]
  /\ bound \in Conn \cup {None}
  /\ status \in [Chain -> {"free", "queued", "live", "over"}] /\ resumed \subseteq Chain
  /\ {runs, asked} \subseteq [Chain -> Nat]
  /\ handoffs \in Nat /\ tripped \subseteq Chain /\ sopMax \in SopDepths
  /\ stack \in [Chain -> Seq(CallSet)]
  /\ \A c \in Chain :
       /\ stack[c] = <<>> <=> status[c] \in {"free", "over"}
       /\ \A i \in 1..Len(stack[c]) - 1 : stack[c][i].pc \in {"mentions", "serial"}

\* A dog, and all those its handoffs reach, run at most once more often than the worklist
\* is deep, whatever they answer.  A pipeline runs at most the dogs it was asked for, none
\* of them twice over: it hands nothing on, and its length is limited by nothing else.
RunsAreBudgeted ==
  \A c \in Chain : runs[c] <= IF asked[c] = 0 THEN 1 + MaxDepth ELSE asked[c]

\* The worklists that messages have registered, the ones that are done released on whatever
\* path they ended, belong to messages that have a bark slot, so that slots bound the
\* registry too.  (Those of resumed chains stay: README, "Disagreements".)
HaveSlot == {c \in Chain : status[c] = "live" /\ c \notin resumed}
HaveList == {c \in Chain : worklist[c].live /\ c \notin resumed}
RegistryIsBounded ==
  HaveList \subseteq HaveSlot /\ IsFiniteSet(HaveList) /\ Cardinality(HaveList) <= Slots

\* Every message and every resumed hold comes to an end: the dogs cannot keep the chain
\* going for ever, whatever other chains do to the ledger meanwhile.
ChainTerminates == \A c \in Chain : status[c] \in {"queued", "live"} ~> status[c] = "over"

\* What is left to a chain, the most significant first: whether it still waits for its
\* slot, the dogs left in its pipeline, the handoffs left in its worklist, the calls on its
\* stack (a gate may still make one), how far the current call is, its mentions, and
\* whether it has put the first of them to the ledger.
Phase(pc) ==
  IF pc = "gate" THEN 7 ELSE IF pc = "enter" THEN 6 ELSE IF pc = "hand" THEN 5
  ELSE IF pc = "start" THEN 4 ELSE IF pc = "exec" THEN 3 ELSE IF pc = "run" THEN 2
  ELSE IF pc = "held" THEN 1 ELSE 0

Row(waits, pipeline, pushes, calls, f) ==
  <<waits, pipeline, pushes, calls + (IF f.pc = "gate" THEN 1 ELSE 0),
    Phase(f.pc), Len(f.todo), IF f.pc = "mentions" THEN 1 ELSE 0>>

Piped(f) == IF f.pc = "serial" THEN Len(f.todo) ELSE 0

Remaining(c) ==
  IF stack[c] = <<>> THEN [i \in 1..7 |-> 0]
  ELSE Row(IF status[c] = "queued" THEN 2 ELSE 1, Piped(stack[c][1]),
           MaxDepth - worklist[c].depth, Len(stack[c]), Top(c))

\* Lexicographic order.
Less(m, n) == \E i \in 1..7 : m[i] < n[i] /\ \A j \in 1..i - 1 : m[j] = n[j]

\* Whatever the dogs answer, every step of a chain leaves it less to do, and nobody else's
\* step leaves it more: no step returns to where the chain has been.
StepsCount ==
  [][\A c \in Chain : status[c] \in {"queued", "live"} =>
        IF Proceed(c) THEN Less(Remaining(c)', Remaining(c)) ELSE Remaining(c)' = Remaining(c)]_vars

\* "Blocked: the chain terminates": once the worklist or the SOP has stopped a chain, no
\* dog further up its call stack passes the ball on.
BreakerStops == [][\A c \in Chain : c \in tripped /\ ~At(c, "push") => ~At(c, "push")']_vars

\* "So the projected custody state never hangs in active forever."
NeverHangs == view.state = "active" ~> view.state # "active"

\* "The thread stays parked until the hold is released."
\* It does not hold: README, "Disagreements".
HoldIsParked == hold # None => view.state = "parked"

\* "SOP's cumulative per-thread depth limit remains a separate backstop": a thread that has
\* had that many handoffs has had a chain stopped.
\* It does not hold: README, "Disagreements".
DepthBackstop == handoffs >= sopMax => tripped # {}
=============================================================================
