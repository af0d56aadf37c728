------------------------ MODULE Orchestration_proofs ------------------------
(***************************************************************************)
(* Proofs about Orchestration, for any number of chains, connections and   *)
(* dogs.  The invariant gives each chain its shape (a relay of dogs, a     *)
(* pipeline, or dogs that bark at once) and an account: the runs it has    *)
(* entered and those its current call is about to enter are paid for by    *)
(* the depth of its worklist, or by the length of its pipeline.  On a      *)
(* thread with one chain, a second invariant says what the ledger looks    *)
(* like once the breaker has tripped, and why it refuses all later         *)
(* handoffs.                                                               *)
(***************************************************************************)
EXTENDS Orchestration, SequenceTheorems, FiniteSetTheorems, TLAPS

\* Calls that have been entered: their chain's worklist is registered.
Entered == Beating \cup {"hand", "start", "exec"}
Loops   == {"serial", "parallel"}

\* A call for a dog is for one; a pipeline's dogs are dogs; a disposition names another.
GoodCall ==
  {f \in CallSet :
     /\ f.pc \notin Loops => f.breed \in Breed
     /\ f.pc = "serial" => f.todo \in Seq(Breed)
     /\ f.pc \in {"push", "gate"} => f.todo # <<>> /\ Head(f.todo) \notin {f.breed, None}}

CallsAreGood == stack \in [Chain -> Seq(GoodCall)]

\* The parts of TypeOK.
Ledgered  == view \in View /\ hold \in Holder
Connected == bound \in Conn \cup {None}
Counted ==
  /\ worklist \in [Chain -> W!List]
  /\ resumed \subseteq Chain
  /\ runs \in [Chain -> Nat] /\ asked \in [Chain -> Nat] /\ handoffs \in Nat /\ tripped \subseteq Chain /\ sopMax \in SopDepths
Stacked ==
  /\ CallsAreGood
  /\ status \in [Chain -> {"free", "queued", "live", "over"}]
  /\ \A c \in Chain :
       /\ stack[c] = <<>> <=> status[c] \in {"free", "over"}
       /\ \A i \in 1..Len(stack[c]) - 1 : stack[c][i].pc \in {"mentions", "serial"}

Typed == Ledgered /\ Connected /\ Counted /\ Stacked

\* One, if the current call is at a place where its run is still to be entered.
Unpaid(c, pcs) == IF Top(c).pc \in pcs THEN 1 ELSE 0

\* What a chain is: a dog and those it passes the ball to, which have run no more often
\* than the worklist is deep; a pipeline of the dogs asked for; or dogs that bark at once.
Relay(c) ==
  /\ asked[c] = 0
  /\ \A i \in 1..Len(stack[c]) : stack[c][i].pc \notin Loops
  /\ runs[c] + Unpaid(c, {"enter", "gate"}) <= 1 + worklist[c].depth
Pipeline(c) ==
  /\ asked[c] # 0
  /\ stack[c][1].pc = "serial" /\ Len(stack[c]) <= 2
  /\ Len(stack[c]) = 2 => /\ stack[c][2].pc \in {"enter", "hand", "start", "exec", "run", "held", "mentions"}
                          /\ stack[c][2].todo = <<>>
  /\ runs[c] + Len(stack[c][1].todo) + Unpaid(c, {"enter"}) <= asked[c]
Barking(c) == Len(stack[c]) = 1 /\ stack[c][1].pc = "parallel" /\ runs[c] = 0

Ceiling(w) == /\ w.live => w.max = MaxDepth /\ w.depth <= MaxDepth
              /\ ~w.live => w.depth = 0

\* What RunsAreBudgeted says of a chain.
Within(c) == runs[c] <= IF asked[c] = 0 THEN 1 + MaxDepth ELSE asked[c]

Budget(c) ==
  /\ Ceiling(worklist[c])
  /\ Within(c)
  /\ status[c] = "free" => runs[c] = 0 /\ asked[c] = 0 /\ ~worklist[c].live
  /\ \A i \in 1..Len(stack[c]) : stack[c][i].pc \in Entered => worklist[c].live
  /\ stack[c] # <<>> => Relay(c) \/ Pipeline(c) \/ Barking(c)

IInv == Typed /\ \A c \in Chain : Budget(c)
-----------------------------------------------------------------------------
\* One event folds a well-typed view into a well-typed view.
LEMMA ObserveType == ASSUME NEW v \in View, NEW e \in Event PROVE Observe(v, e) \in View
  <1>1. StateAfter(v.state, e.type) \in BallState
    BY DEF View, Event, StateAfter, BallState
  <1>2. HolderAfter(v.state, v.holder, e) \in Holder
    BY DEF View, Event, HolderAfter
  <1> QED
    BY <1>1, <1>2 DEF Observe, View, Event, Stop

\* The forms events are written in.
LEMMA ByEvent == ASSUME NEW b \in Holder, NEW t \in EventType PROVE By(t, b) \in Event
  BY DEF By, Event, Holder
LEMMA HandToEvent == ASSUME NEW b \in Breed, NEW t \in Handoff PROVE HandTo(t, b) \in Event
  BY DEF HandTo, Event, EventType, Holder
LEMMA RecordType == ASSUME view \in View, NEW e \in Event, Record(e) PROVE view' \in View
  BY ObserveType DEF Record

\* worklistMaxDepth never returns zero.
LEMMA DepthType == ASSUME sopMax \in SopDepths PROVE MaxDepth \in Nat /\ MaxDepth >= 1
  BY BoundsAssumption DEF MaxDepth, W!PingPongBlock
-----------------------------------------------------------------------------
\* What the worklist's operators return.
LEMMA NoListType == W!NoList \in W!List /\ W!NoList.live = FALSE /\ W!NoList.depth = 0
  BY DEF W!NoList, W!Empty, W!List

LEMMA NewListType ==
  ASSUME NEW m \in Nat, m >= 1
  PROVE  /\ W!NewList(m) \in W!List /\ W!NewList(m).live = TRUE
         /\ W!NewList(m).depth = 0 /\ W!NewList(m).max = m
  BY DEF W!NewList, W!Empty, W!Depth, W!List

LEMMA ExtendedType ==
  ASSUME NEW w \in W!List, NEW from \in Breed, NEW to \in Breed, NEW s \in BOOLEAN
  PROVE  /\ W!Extended(w, from, to, s) \in W!List
         /\ W!Extended(w, from, to, s).live = w.live /\ W!Extended(w, from, to, s).max = w.max
         /\ W!Extended(w, from, to, s).depth = w.depth + 1
  <1> DEFINE x == W!Extended(w, from, to, s)
             pair == W!UnorderedPair(from, to)
             streak == W!Streak(w, pair, s)
             first == W!FirstFrom(w, to, from)
  <1>1. pair \in SUBSET Breed
    BY DEF W!UnorderedPair
  <1>2. streak \in Nat
    BY DEF W!Streak, W!List
  <1>3. first \in [Breed -> Breed \cup {None}]
    BY DEF W!FirstFrom, W!List
  <1>4. w.depth + 1 \in Nat /\ w.list \cup {to} \in SUBSET Breed /\ w.executed \cup {to} \in SUBSET Breed
    BY DEF W!List
  <1>5. x = [w EXCEPT !.depth = w.depth + 1, !.pair = pair, !.streak = streak, !.list = w.list \cup {to},
                      !.executed = w.executed \cup {to}, !.a2aFrom = first]
    BY DEF W!Extended
  <1> HIDE DEF x, pair, streak, first
  <1>6. x \in W!List
    BY <1>1, <1>2, <1>3, <1>4, <1>5 DEF W!List
  <1>7. x.live = w.live /\ x.max = w.max /\ x.depth = w.depth + 1
    BY <1>5 DEF W!List
  <1> QED
    BY <1>6, <1>7 DEF x
-----------------------------------------------------------------------------
\* The current call.
LEMMA TopType ==
  ASSUME Stacked, NEW c \in Chain, stack[c] # <<>>
  PROVE  /\ stack[c] \in Seq(GoodCall) /\ Len(stack[c]) \in Nat /\ Len(stack[c]) >= 1
         /\ Top(c) = stack[c][Len(stack[c])] /\ Top(c) \in GoodCall /\ Top(c) \in CallSet
         /\ \A i \in 1..Len(stack[c]) : stack[c][i] \in GoodCall
  <1>1. stack[c] \in Seq(GoodCall) /\ Len(stack[c]) \in Nat \ {0}
    BY EmptySeq DEF Stacked, CallsAreGood
  <1>2. \A i \in 1..Len(stack[c]) : stack[c][i] \in GoodCall
    BY <1>1, ElementOfSeq
  <1>3. GoodCall \subseteq CallSet
    BY DEF GoodCall
  <1>4. Len(stack[c]) \in Nat /\ Len(stack[c]) >= 1 /\ Top(c) = stack[c][Len(stack[c])]
    BY <1>1 DEF Top
  <1> QED
    BY <1>1, <1>2, <1>3, <1>4

\* The calls under the current one.
LEMMA BelowType ==
  ASSUME Stacked, NEW c \in Chain, stack[c] # <<>>
  PROVE  /\ Below(c) \in Seq(GoodCall) /\ Len(Below(c)) = Len(stack[c]) - 1
         /\ \A i \in 1..Len(stack[c]) - 1 : Below(c)[i] = stack[c][i]
  <1> DEFINE s == stack[c]  n == Len(s) - 1
  <1>1. s \in Seq(GoodCall) /\ Len(s) \in Nat /\ n \in Nat /\ \A i \in 1..n : s[i] \in GoodCall
    BY TopType
  <1>2. Below(c) = SubSeq(s, 1, n)
    BY DEF Below
  <1> HIDE DEF s, n
  <1>3. /\ SubSeq(s, 1, n) \in Seq(GoodCall)
        /\ Len(SubSeq(s, 1, n)) = IF 1 <= n THEN n - 1 + 1 ELSE 0
        /\ \A i \in 1..n - 1 + 1 : SubSeq(s, 1, n)[i] = s[1 + i - 1]
    BY <1>1, SubSeqProperties
  <1>4. Len(Below(c)) = n /\ \A i \in 1..n : Below(c)[i] = s[i]
    BY <1>1, <1>2, <1>3
  <1> QED
    BY <1>2, <1>3, <1>4 DEF s, n

\* The current call becomes another.
LEMMA GotoStack ==
  ASSUME Stacked, NEW c \in Chain, stack[c] # <<>>, NEW f \in GoodCall, Goto(c, f)
  PROVE  /\ CallsAreGood' /\ stack'[c] # <<>> /\ Len(stack'[c]) = Len(stack[c]) /\ Top(c)' = f
         /\ \A i \in 1..Len(stack[c]) - 1 : stack'[c][i] = stack[c][i]
         /\ stack'[c][Len(stack[c])] = f
         /\ \A d \in Chain \ {c} : stack'[d] = stack[d]
  <1>1. stack' = [stack EXCEPT ![c] = Append(Below(c), f)] /\ stack \in [Chain -> Seq(GoodCall)]
    BY DEF Goto, Stacked, CallsAreGood
  <1>2. /\ Append(Below(c), f) \in Seq(GoodCall) /\ Append(Below(c), f) # <<>>
        /\ Len(Append(Below(c), f)) = Len(Below(c)) + 1
        /\ \A i \in 1..Len(Below(c)) : Append(Below(c), f)[i] = Below(c)[i]
        /\ Append(Below(c), f)[Len(Below(c)) + 1] = f
    BY BelowType, AppendProperties
  <1>3. Len(Below(c)) = Len(stack[c]) - 1 /\ Len(stack[c]) \in Nat
    BY BelowType, TopType
  <1>4. stack'[c] = Append(Below(c), f) /\ CallsAreGood' /\ \A d \in Chain \ {c} : stack'[d] = stack[d]
    BY <1>1, <1>2 DEF CallsAreGood
  <1> QED
    BY <1>2, <1>3, <1>4, BelowType DEF Top

\* The current call waits for a new one.
LEMMA CallStack ==
  ASSUME Stacked, NEW c \in Chain, stack[c] # <<>>, NEW f \in GoodCall, NEW g \in GoodCall, Call(c, f, g)
  PROVE  /\ CallsAreGood' /\ stack'[c] # <<>> /\ Len(stack'[c]) = Len(stack[c]) + 1 /\ Top(c)' = g
         /\ \A i \in 1..Len(stack[c]) - 1 : stack'[c][i] = stack[c][i]
         /\ stack'[c][Len(stack[c])] = f /\ stack'[c][Len(stack[c]) + 1] = g
         /\ \A d \in Chain \ {c} : stack'[d] = stack[d]
  <1> DEFINE b == Below(c)  m == Len(stack[c]) - 1  s == b \o <<f, g>>
  <1>1. stack' = [stack EXCEPT ![c] = s] /\ stack \in [Chain -> Seq(GoodCall)]
    BY DEF Call, Stacked, CallsAreGood
  <1>2. b \in Seq(GoodCall) /\ Len(b) = m /\ m \in Nat /\ \A i \in 1..m : b[i] = stack[c][i]
    BY BelowType, TopType
  <1>3. <<f, g>> \in Seq(GoodCall) /\ Len(<<f, g>>) = 2 /\ <<f, g>>[1] = f /\ <<f, g>>[2] = g
    OBVIOUS
  <1> HIDE DEF b, m
  <1>4. /\ s \in Seq(GoodCall) /\ Len(s) = m + 2
        /\ \A i \in 1..m + 2 : s[i] = IF i <= m THEN b[i] ELSE <<f, g>>[i - m]
    BY <1>2, <1>3, ConcatProperties
  <1>5. s[m + 1] = f /\ s[m + 2] = g /\ \A i \in 1..m : s[i] = b[i]
    <2>1. s[m + 1] = <<f, g>>[m + 1 - m] /\ s[m + 2] = <<f, g>>[m + 2 - m] /\ \A i \in 1..m : s[i] = b[i]
      BY <1>2, <1>4
    <2>2. m + 1 - m = 1 /\ m + 2 - m = 2
      BY <1>2
    <2> QED
      BY <1>3, <2>1, <2>2
  <1> HIDE DEF s
  <1>6. stack'[c] = s /\ CallsAreGood' /\ \A d \in Chain \ {c} : stack'[d] = stack[d]
    BY <1>1, <1>4 DEF CallsAreGood
  <1>7. Len(stack[c]) = m + 1 /\ Len(stack[c]) + 1 = m + 2
    BY <1>2, TopType DEF m
  <1>8. s # <<>>
    BY <1>2, <1>4
  <1> QED
    BY <1>2, <1>4, <1>5, <1>6, <1>7, <1>8 DEF Top, m

\* The current call returns.
LEMMA ReturnStack ==
  ASSUME Stacked, NEW c \in Chain, stack[c] # <<>>, Return(c)
  PROVE  /\ CallsAreGood' /\ Len(stack'[c]) = Len(stack[c]) - 1
         /\ Len(stack[c]) = 1 <=> stack'[c] = <<>>
         /\ \A i \in 1..Len(stack[c]) - 1 : stack'[c][i] = stack[c][i]
         /\ \A d \in Chain \ {c} : stack'[d] = stack[d]
  <1>1. stack'[c] = Below(c) /\ CallsAreGood' /\ \A d \in Chain \ {c} : stack'[d] = stack[d]
    BY BelowType DEF Return, Stacked, CallsAreGood
  <1>2. Len(Below(c)) = 0 <=> Below(c) = <<>>
    BY BelowType, EmptySeq
  <1>3. Len(stack[c]) \in Nat /\ Len(Below(c)) = Len(stack[c]) - 1
    BY BelowType, TopType
  <1>4. Len(stack[c]) = 1 <=> stack'[c] = <<>>
    BY <1>1, <1>2, <1>3
  <1>5. \A i \in 1..Len(stack[c]) - 1 : stack'[c][i] = stack[c][i]
    BY <1>1, BelowType
  <1> QED
    BY <1>1, <1>3, <1>4, <1>5
-----------------------------------------------------------------------------
\* A chain that runs has a call, and the call waits in no loop but its own.
LEMMA LiveStack == ASSUME Stacked, NEW c \in Chain, status[c] = "live" PROVE stack[c] # <<>>
  BY DEF Stacked

LEMMA GotoStacked ==
  ASSUME Stacked, NEW c \in Chain, status[c] = "live", NEW f \in GoodCall, Goto(c, f), status' = status
  PROVE  Stacked'
  <1>1. stack[c] # <<>> /\ Len(stack[c]) \in Nat
    BY LiveStack, TopType
  <1>2. \A d \in Chain : stack'[d] = <<>> <=> status'[d] \in {"free", "over"}
    BY <1>1, GotoStack DEF Stacked
  <1>3. \A d \in Chain : \A i \in 1..Len(stack'[d]) - 1 : stack'[d][i].pc \in {"mentions", "serial"}
    <2> DEFINE n == Len(stack[c])
    <2>1. /\ n \in Nat /\ Len(stack'[c]) = n /\ \A i \in 1..n - 1 : stack'[c][i] = stack[c][i]
          /\ \A d \in Chain \ {c} : stack'[d] = stack[d]
      BY <1>1, GotoStack
    <2>2. \A i \in 1..n - 1 : stack[c][i].pc \in {"mentions", "serial"}
      BY DEF Stacked
    <2> HIDE DEF n
    <2>3. \A i \in 1..Len(stack'[c]) - 1 : stack'[c][i].pc \in {"mentions", "serial"}
      BY <2>1, <2>2
    <2>4. \A d \in Chain \ {c} : \A i \in 1..Len(stack'[d]) - 1 : stack'[d][i].pc \in {"mentions", "serial"}
      BY <2>1 DEF Stacked
    <2> QED
      BY <2>3, <2>4
  <1>4. CallsAreGood'
    BY <1>1, GotoStack
  <1> QED
    BY <1>2, <1>3, <1>4 DEF Stacked

LEMMA CallStacked ==
  ASSUME Stacked, NEW c \in Chain, status[c] = "live", NEW f \in GoodCall, NEW g \in GoodCall, Call(c, f, g),
         f.pc \in {"mentions", "serial"}, status' = status
  PROVE  Stacked'
  <1>1. stack[c] # <<>> /\ Len(stack[c]) \in Nat
    BY LiveStack, TopType
  <1>2. \A d \in Chain : stack'[d] = <<>> <=> status'[d] \in {"free", "over"}
    BY <1>1, CallStack DEF Stacked
  <1>3. \A d \in Chain : \A i \in 1..Len(stack'[d]) - 1 : stack'[d][i].pc \in {"mentions", "serial"}
    <2> DEFINE n == Len(stack[c])
    <2>1. /\ n \in Nat /\ stack'[c][n] = f
          /\ \A i \in 1..n - 1 : stack'[c][i] = stack[c][i]
          /\ \A d \in Chain \ {c} : stack'[d] = stack[d]
      BY <1>1, CallStack
    <2>2. PICK k : k = Len(stack'[c]) /\ k = n + 1
      BY <1>1, CallStack
    <2>3. \A i \in 1..n - 1 : stack[c][i].pc \in {"mentions", "serial"}
      BY DEF Stacked
    <2> HIDE DEF n
    <2>4. \A i \in 1..k - 1 : i = n \/ i \in 1..n - 1
      BY <2>1, <2>2
    <2>5. \A i \in 1..k - 1 : stack'[c][i].pc \in {"mentions", "serial"}
      BY <2>1, <2>3, <2>4
    <2>6. \A i \in 1..Len(stack'[c]) - 1 : stack'[c][i].pc \in {"mentions", "serial"}
      BY <2>2, <2>5
    <2>7. \A d \in Chain \ {c} : \A i \in 1..Len(stack'[d]) - 1 : stack'[d][i].pc \in {"mentions", "serial"}
      BY <2>1 DEF Stacked
    <2> QED
      BY <2>6, <2>7
  <1>4. CallsAreGood'
    BY <1>1, CallStack
  <1> QED
    BY <1>2, <1>3, <1>4 DEF Stacked

LEMMA ReturnStacked ==
  ASSUME Stacked, NEW c \in Chain, status[c] = "live", Return(c)
  PROVE  /\ Stacked' /\ \A d \in Chain \ {c} : status'[d] = status[d]
         /\ status'[c] \in {"live", "over"}
  <1>1. stack[c] # <<>> /\ Len(stack[c]) \in Nat
    BY LiveStack, TopType
  <1>2. /\ status' \in [Chain -> {"free", "queued", "live", "over"}]
        /\ status'[c] = IF Len(stack[c]) = 1 THEN "over" ELSE "live"
        /\ \A d \in Chain \ {c} : status'[d] = status[d]
    BY DEF Return, Stacked
  <1>3. \A d \in Chain : stack'[d] = <<>> <=> status'[d] \in {"free", "over"}
    BY <1>1, <1>2, ReturnStack DEF Stacked
  <1>4. \A d \in Chain : \A i \in 1..Len(stack'[d]) - 1 : stack'[d][i].pc \in {"mentions", "serial"}
    <2> DEFINE n == Len(stack[c])
    <2>1. /\ n \in Nat /\ \A i \in 1..n - 1 : stack'[c][i] = stack[c][i]
          /\ \A d \in Chain \ {c} : stack'[d] = stack[d]
      BY <1>1, ReturnStack
    <2>2. PICK k : k = Len(stack'[c]) /\ k = n - 1
      BY <1>1, ReturnStack
    <2>3. \A i \in 1..n - 1 : stack[c][i].pc \in {"mentions", "serial"}
      BY DEF Stacked
    <2> HIDE DEF n
    <2>4. \A i \in 1..k - 1 : i \in 1..n - 1
      BY <2>1, <2>2
    <2>5. \A i \in 1..Len(stack'[c]) - 1 : stack'[c][i].pc \in {"mentions", "serial"}
      BY <2>1, <2>2, <2>3, <2>4
    <2>6. \A d \in Chain \ {c} : \A i \in 1..Len(stack'[d]) - 1 : stack'[d][i].pc \in {"mentions", "serial"}
      BY <2>1 DEF Stacked
    <2> QED
      BY <2>5, <2>6
  <1>5. CallsAreGood'
    BY <1>1, ReturnStack
  <1> QED
    BY <1>2, <1>3, <1>4, <1>5 DEF Stacked
-----------------------------------------------------------------------------
\* The calls that steps make.
LEMMA FrameType ==
  ASSUME NEW b, NEW p, NEW t
  PROVE  Frame(b, p, t).breed = b /\ Frame(b, p, t).pc = p /\ Frame(b, p, t).todo = t
  BY DEF Frame

LEMMA GoodFrame ==
  ASSUME NEW b \in Breed, NEW p \in PC \ Loops, NEW t \in Seq(Holder),
         p \in {"push", "gate"} => t # <<>> /\ Head(t) \notin {b, None}
  PROVE  Frame(b, p, t) \in GoodCall
  BY DEF GoodCall, CallSet, Frame, Holder, Loops

LEMMA GoodLoop ==
  ASSUME NEW b \in Holder, NEW p \in Loops, NEW t \in Seq(Breed)
  PROVE  Frame(b, p, t) \in GoodCall
  <1>1. t \in Seq(Holder)
    BY SeqMonotonic DEF Holder
  <1> QED
    BY <1>1 DEF GoodCall, CallSet, Frame, Loops, PC

LEMMA GoodRun == ASSUME NEW b \in Breed PROVE Run(b) \in GoodCall
  <1>1. <<>> \in Seq(Holder)
    OBVIOUS
  <1>2. "enter" \in PC \ Loops /\ "enter" \notin {"push", "gate"}
    BY DEF PC, Loops
  <1> QED
    BY <1>1, <1>2, GoodFrame DEF Run

LEMMA GoodRest ==
  ASSUME NEW f \in GoodCall, f.pc \notin Loops, f.todo # <<>>
  PROVE  Rest(f) \in GoodCall /\ Rest(f).pc = "mentions" /\ Rest(f).todo = Tail(f.todo) /\ Rest(f).breed = f.breed
  <1>1. f.breed \in Breed /\ f.todo \in Seq(Holder)
    BY DEF GoodCall, CallSet
  <1>2. Tail(f.todo) \in Seq(Holder)
    BY <1>1, HeadTailProperties
  <1>3. "mentions" \in PC \ Loops /\ "mentions" \notin {"push", "gate"}
    BY DEF PC, Beating, Loops
  <1>4. Frame(f.breed, "mentions", Tail(f.todo)) \in GoodCall
    BY <1>1, <1>2, <1>3, GoodFrame
  <1> QED
    BY <1>4, FrameType DEF Rest
-----------------------------------------------------------------------------
\* Steps that leave a chain alone, except that it may begin.
LEMMA BudgetStays ==
  ASSUME NEW d \in Chain, Budget(d), stack'[d] = stack[d], worklist'[d] = worklist[d], runs'[d] = runs[d],
         asked'[d] = asked[d], status'[d] = "free" => status[d] = "free", sopMax' = sopMax
  PROVE  Budget(d)'
  <1>1. MaxDepth' = MaxDepth /\ Top(d)' = Top(d)
    BY DEF MaxDepth, Top
  <1>2. Relay(d)' = Relay(d)
    BY <1>1 DEF Relay, Unpaid
  <1>3. Pipeline(d)' = Pipeline(d)
    BY <1>1 DEF Pipeline, Unpaid
  <1>4. Barking(d)' = Barking(d)
    BY DEF Barking
  <1>5. Ceiling(worklist[d])' = Ceiling(worklist[d]) /\ Within(d)' = Within(d)
    BY <1>1 DEF Ceiling, Within
  <1> QED
    BY <1>1, <1>2, <1>3, <1>4, <1>5 DEF Budget

\* A step of a call that pays for nothing: from one point of a run to another.
LEMMA WalkBudget ==
  ASSUME Typed, NEW c \in Chain, Budget(c), status[c] = "live", Top(c).pc \in Entered,
         NEW f \in GoodCall, Goto(c, f), f.pc \in Entered \ {"gate"},
         f.pc = "push" => Top(c).todo # <<>>,
         Len(stack[c]) = 2 /\ stack[c][1].pc = "serial" /\ Top(c).todo = <<>> => f.todo = <<>>,
         worklist'[c] = worklist[c], runs'[c] = runs[c], status' = status, asked' = asked, sopMax' = sopMax
  PROVE  Budget(c)'
  <1> DEFINE n == Len(stack[c])
  <1>1. /\ stack[c] # <<>> /\ n \in Nat /\ n >= 1 /\ Top(c) = stack[c][n]
        /\ n - 1 \in Nat
    BY LiveStack, TopType DEF Typed
  <1>2. /\ Len(stack'[c]) = n /\ Top(c)' = f /\ stack'[c][n] = f
        /\ \A i \in 1..n - 1 : stack'[c][i] = stack[c][i]
    BY <1>1, GotoStack DEF Typed
  <1>3. MaxDepth' = MaxDepth
    BY DEF MaxDepth
  <1>4. Top(c).pc \notin Loops /\ f.pc \notin Loops /\ f.pc \notin {"enter", "gate"}
    BY DEF Entered, Beating, Loops
  <1>5. runs[c] \in Nat /\ asked[c] \in Nat /\ worklist[c].depth \in Nat
    BY DEF Typed, Counted, W!List
  <1>6. Unpaid(c, {"enter", "gate"})' = 0 /\ Unpaid(c, {"enter"})' = 0
    BY <1>2, <1>4 DEF Unpaid
  <1>7. Unpaid(c, {"enter", "gate"}) \in {0, 1} /\ Unpaid(c, {"enter"}) \in {0, 1}
    BY DEF Unpaid
  <1>8. ASSUME Relay(c) PROVE Relay(c)'
    <2>1. \A i \in 1..n : stack'[c][i].pc \notin Loops
      <3>1. TAKE i \in 1..n
      <3>2. CASE i = n
        BY <3>2, <1>2, <1>4
      <3>3. CASE i # n
        BY <3>3, <1>1, <1>2, <1>8 DEF Relay
      <3> QED
        BY <3>2, <3>3
    <2>2. runs'[c] + 0 <= 1 + worklist'[c].depth
      BY <1>5, <1>7, <1>8 DEF Relay
    <2> QED
      BY <2>1, <2>2, <1>2, <1>6, <1>8 DEF Relay
  <1>9. ASSUME Pipeline(c) PROVE Pipeline(c)'
    <2>1. n = 2
      <3>1. stack[c][1].pc = "serial" /\ n <= 2
        BY <1>9 DEF Pipeline
      <3>2. n # 1
        BY <3>1, <1>1, <1>4 DEF Loops
      <3>3. n \in Nat /\ n >= 1
        BY <1>1
      <3> HIDE DEF n
      <3> QED
        BY <3>1, <3>2, <3>3
    <2>2. stack[c][2].todo = <<>> /\ stack[c][1].pc = "serial" /\ runs[c] + Len(stack[c][1].todo) + Unpaid(c, {"enter"}) <= asked[c]
      BY <1>9, <2>1 DEF Pipeline
    <2>3. f.todo = <<>> /\ f.pc \in {"enter", "hand", "start", "exec", "run", "held", "mentions"}
      BY <2>1, <2>2, <1>1 DEF Entered, Beating
    <2>4. stack'[c][1] = stack[c][1] /\ stack'[c][2] = f
      BY <2>1, <1>2
    <2>5. Len(stack[c][1].todo) \in Nat
      <3>1. stack[c][1] \in GoodCall
        BY <2>1, TopType, <1>1 DEF Typed
      <3> QED
        BY <3>1 DEF GoodCall, CallSet
    <2>6. runs'[c] + Len(stack'[c][1].todo) + 0 <= asked'[c]
      BY <2>2, <2>4, <2>5, <1>5, <1>7
    <2> QED
      BY <2>1, <2>2, <2>3, <2>4, <2>6, <1>2, <1>6, <1>9 DEF Pipeline
  <1>10. ~Barking(c)
    BY <1>1, <1>4 DEF Barking, Loops
  <1>11. Relay(c)' \/ Pipeline(c)' \/ Barking(c)'
    BY <1>1, <1>8, <1>9, <1>10 DEF Budget
  <1>12. \A i \in 1..n : stack'[c][i].pc \in Entered => worklist'[c].live
    <2>1. worklist[c].live
      BY <1>1 DEF Budget
    <2> QED
      BY <2>1
  <1>13. Ceiling(worklist[c])' /\ Within(c)' /\ status'[c] # "free"
    BY <1>3 DEF Budget, Ceiling, Within
  <1> QED
    BY <1>2, <1>11, <1>12, <1>13 DEF Budget

\* Such a step keeps the invariant, whatever it records.
LEMMA Walk ==
  ASSUME IInv, NEW c \in Chain, status[c] = "live", Top(c).pc \in Entered,
         NEW f \in GoodCall, Goto(c, f), f.pc \in Entered \ {"gate"},
         f.pc = "push" => Top(c).todo # <<>>,
         Len(stack[c]) = 2 /\ stack[c][1].pc = "serial" /\ Top(c).todo = <<>> => f.todo = <<>>,
         worklist' = worklist, Ledgered', tripped' \subseteq Chain,
         UNCHANGED <<bound, status, resumed, runs, asked, handoffs, sopMax>>
  PROVE  IInv'
  <1> USE DEF IInv, Typed
  <1>1. Stacked'
    BY GotoStacked
  <1>2. Connected' /\ Counted'
    BY DEF Connected, Counted
  <1>3. stack[c] # <<>>
    BY LiveStack
  <1>4. Budget(c)'
    BY WalkBudget
  <1>5. ASSUME NEW d \in Chain, d # c PROVE Budget(d)'
    <2>1. stack'[d] = stack[d]
      BY <1>3, <1>5, GotoStack
    <2> QED
      BY <2>1, BudgetStays
  <1> QED
    BY <1>1, <1>2, <1>4, <1>5
-----------------------------------------------------------------------------
\* The call of a dog.
LEMMA TopOfDog ==
  ASSUME IInv, NEW c \in Chain, NEW p, p \notin Loops, At(c, p)
  PROVE  /\ status[c] = "live" /\ stack[c] # <<>> /\ Top(c) \in GoodCall /\ Top(c).pc = p
         /\ Top(c).breed \in Breed /\ Top(c).breed \in Holder /\ Top(c).todo \in Seq(Holder)
  <1>1. status[c] = "live" /\ Top(c).pc = p
    BY DEF At
  <1>2. stack[c] # <<>> /\ Top(c) \in GoodCall
    BY <1>1, LiveStack, TopType DEF IInv, Typed
  <1> QED
    BY <1>1, <1>2 DEF GoodCall, CallSet, Holder

\* The mention in hand names a dog or nobody.
LEMMA MentionType ==
  ASSUME NEW t \in Seq(Holder), t # <<>>
  PROVE  Head(t) \in Holder /\ (Head(t) # None => Head(t) \in Breed)
  <1>1. Head(t) \in Holder
    BY HeadTailProperties
  <1> QED
    BY <1>1 DEF Holder

\* What a step that records, or does not, makes of the ledger.
LEMMA Recorded ==
  ASSUME IInv, NEW e \in Event, Record(e), hold' = hold PROVE Ledgered'
  <1>1. view' \in View
    BY RecordType DEF IInv, Typed, Ledgered
  <1> QED
    BY <1>1 DEF IInv, Typed, Ledgered

LEMMA Unrecorded == ASSUME IInv, UNCHANGED custodyVars PROVE Ledgered'
  BY DEF IInv, Typed, Ledgered, custodyVars

\* A step to another point of the same run, todo and breed unchanged.
LEMMA StepWalk ==
  ASSUME IInv, NEW c \in Chain, NEW p \in Entered, At(c, p), NEW q \in Entered \ {"gate"}, Step(c, q),
         q = "push" => Top(c).todo # <<>> /\ Head(Top(c).todo) \notin {Top(c).breed, None},
         worklist' = worklist, Ledgered', tripped' = tripped,
         UNCHANGED <<bound, status, resumed, runs, asked, handoffs, sopMax>>
  PROVE  IInv'
  <1> DEFINE f == Frame(Top(c).breed, q, Top(c).todo)
  <1>1. p \notin Loops /\ q \in PC \ Loops
    BY DEF Entered, Beating, PC, Loops
  <1>2. /\ status[c] = "live" /\ Top(c).pc = p /\ Top(c).breed \in Breed /\ Top(c).todo \in Seq(Holder)
    BY <1>1, TopOfDog
  <1>3. f \in GoodCall
    BY <1>1, <1>2, GoodFrame
  <1>4. f.pc = q /\ f.todo = Top(c).todo
    BY FrameType
  <1>5. Goto(c, f)
    BY DEF Step
  <1>6. tripped' \subseteq Chain
    BY DEF IInv, Typed, Counted
  <1> HIDE DEF f
  <1> QED
    BY <1>2, <1>3, <1>4, <1>5, <1>6, Walk

\* The mention in hand is dealt with.
LEMMA SkipWalk ==
  ASSUME IInv, NEW c \in Chain, NEW p \in {"mentions", "push", "gate"}, At(c, p), Skip(c), Top(c).todo # <<>>,
         worklist' = worklist, Ledgered', tripped' \subseteq Chain,
         UNCHANGED <<bound, status, resumed, runs, asked, handoffs, sopMax>>
  PROVE  IInv'
  <1> DEFINE f == Rest(Top(c))
  <1>1. p \notin Loops /\ p \in Entered
    BY DEF Entered, Beating, PC, Loops
  <1>2. status[c] = "live" /\ Top(c) \in GoodCall /\ Top(c).pc = p
    BY <1>1, TopOfDog
  <1>3. f \in GoodCall /\ f.pc = "mentions"
    BY <1>1, <1>2, GoodRest
  <1>4. f.pc \in Entered \ {"gate"} /\ f.pc # "push"
    BY <1>3 DEF Entered, Beating
  <1>5. Goto(c, f)
    BY DEF Skip
  <1> HIDE DEF f
  <1> QED
    BY <1>1, <1>2, <1>3, <1>4, <1>5, Walk
-----------------------------------------------------------------------------
\* The steps of a run up to its answer.
LEMMA HandKeeps == ASSUME IInv, NEW c \in Chain, Hand(c) PROVE IInv'
  <1>1. At(c, "hand") /\ "hand" \in Entered /\ "hand" \notin Loops /\ "start" \in Entered \ {"gate"}
    BY DEF Hand, Entered, Beating, Loops
  <1>2. HandTo("ball.handed", Top(c).breed) \in Event
    BY <1>1, TopOfDog, HandToEvent DEF Handoff
  <1>3. Ledgered'
    BY <1>2, Recorded DEF Hand
  <1> QED
    BY <1>1, <1>3, StepWalk DEF Hand, limits

LEMMA StartKeeps == ASSUME IInv, NEW c \in Chain, Start(c) PROVE IInv'
  <1>1. At(c, "start") /\ "start" \in Entered /\ "start" \notin Loops /\ "exec" \in Entered \ {"gate"}
    BY DEF Start, Entered, Beating, Loops
  <1>2. By("invocation.started", Top(c).breed) \in Event
    BY <1>1, TopOfDog, ByEvent DEF EventType
  <1>3. Ledgered'
    BY <1>2, Recorded DEF Start
  <1> QED
    BY <1>1, <1>3, StepWalk DEF Start, limits

LEMMA ExecuteKeeps == ASSUME IInv, NEW c \in Chain, Execute(c) PROVE IInv'
  <1>1. At(c, "exec") /\ "exec" \in Entered /\ "exec" \notin Loops /\ "run" \in Entered \ {"gate"}
    BY DEF Execute, Entered, Beating, Loops
  <1>2. Ledgered'
    BY Unrecorded DEF Execute
  <1> QED
    BY <1>1, <1>2, StepWalk DEF Execute, limits

LEMMA HeldKeeps == ASSUME IInv, NEW c \in Chain, Held(c) PROVE IInv'
  <1>1. At(c, "run") /\ "run" \in Entered /\ "run" \notin Loops /\ "held" \in Entered \ {"gate"}
    BY DEF Held, Entered, Beating, Loops
  <1>2. By("ball.held", Top(c).breed) \in Event
    BY <1>1, TopOfDog, ByEvent DEF EventType
  <1>3. Ledgered'
    BY <1>2, Recorded DEF Held
  <1> QED
    BY <1>1, <1>3, StepWalk DEF Held, limits

\* An answer and its mentions.
LEMMA MentionsType == ASSUME NEW m \in Mentions PROVE m \in Seq(Holder)
  <1>1. PICK n \in 0..MaxMentions : m \in [1..n -> Breed \cup {None}]
    BY DEF Mentions
  <1> QED
    BY <1>1, BoundsAssumption, SeqDef DEF Holder

LEMMA FinishKeeps == ASSUME IInv, NEW c \in Chain, NEW m \in Mentions, Finish(c, m) PROVE IInv'
  <1> DEFINE t == IF Len(stack[c]) > 1 /\ stack[c][1].pc = "serial" THEN <<>> ELSE m
             f == Frame(Top(c).breed, "mentions", t)
  <1>1. At(c, "run") /\ "run" \in Entered /\ "run" \notin Loops /\ "mentions" \in PC \ Loops
        /\ "mentions" \in Entered \ {"gate"}
    BY DEF Finish, Entered, Beating, Loops, PC
  <1>2. /\ status[c] = "live" /\ Top(c).pc = "run" /\ Top(c).breed \in Breed /\ Top(c).breed \in Holder
    BY <1>1, TopOfDog
  <1>3. By("task.done", Top(c).breed) \in Event
    BY <1>2, ByEvent DEF EventType, Stop
  <1>4. Ledgered'
    BY <1>3, Recorded DEF Finish
  <1>5. t \in Seq(Holder)
    BY MentionsType
  <1>6. Len(stack[c]) = 2 /\ stack[c][1].pc = "serial" => t = <<>>
    OBVIOUS
  <1>7. Goto(c, f)
    BY DEF Finish
  <1>8. tripped' \subseteq Chain
    BY DEF IInv, Typed, Counted, Finish, limits
  <1> HIDE DEF t
  <1>9. f \in GoodCall /\ f.pc = "mentions" /\ f.todo = t
    BY <1>1, <1>2, <1>5, GoodFrame, FrameType
  <1> HIDE DEF f
  <1> QED
    BY <1>1, <1>2, <1>4, <1>6, <1>7, <1>8, <1>9, Walk DEF Finish, limits

LEMMA MentionIdleKeeps == ASSUME IInv, NEW c \in Chain, MentionIdle(c) PROVE IInv'
  <1>1. At(c, "mentions") /\ Top(c).todo # <<>> /\ tripped' \subseteq Chain
    BY DEF MentionIdle, IInv, Typed, Counted, limits
  <1>2. By("ball.void_pass", None) \in Event
    BY ByEvent DEF EventType, Holder
  <1>3. Ledgered'
    <2>1. CASE Mentioned(c) = None
      BY <1>2, <2>1, Recorded DEF MentionIdle
    <2>2. CASE Mentioned(c) # None
      BY <2>2, Unrecorded DEF MentionIdle, custodyVars
    <2> QED
      BY <2>1, <2>2
  <1> QED
    BY <1>1, <1>3, SkipWalk DEF MentionIdle, limits

LEMMA DispatchKeeps == ASSUME IInv, NEW c \in Chain, Dispatch(c) PROVE IInv'
  <1>1. /\ At(c, "mentions") /\ Top(c).todo # <<>> /\ Mentioned(c) \notin {Top(c).breed, None}
        /\ "mentions" \notin Loops /\ "mentions" \in Entered /\ "push" \in Entered \ {"gate"}
        /\ tripped' = tripped /\ tripped' \subseteq Chain
    BY DEF Dispatch, MentionsDog, Loops, Entered, Beating, IInv, Typed, Counted, limits
  <1>2. Top(c).breed \in Holder /\ Mentioned(c) \in Breed
    BY <1>1, TopOfDog, MentionType DEF Mentioned
  <1>3. CASE Record(HandTo("dispatch_dispositioned", Mentioned(c))) /\ Step(c, "push")
    <2>1. HandTo("dispatch_dispositioned", Mentioned(c)) \in Event
      BY <1>2, HandToEvent DEF Handoff
    <2>2. Ledgered'
      BY <1>3, <2>1, Recorded DEF Dispatch
    <2> QED
      BY <1>1, <1>3, <2>2, StepWalk DEF Dispatch, limits, Mentioned
  <1>4. CASE Record(By("ball.disposition_rejected", Top(c).breed)) /\ Skip(c)
    <2>1. By("ball.disposition_rejected", Top(c).breed) \in Event
      BY <1>2, ByEvent DEF EventType, AuditOnly
    <2>2. Ledgered'
      BY <1>4, <2>1, Recorded DEF Dispatch
    <2> QED
      BY <1>1, <1>4, <2>2, SkipWalk DEF Dispatch, limits
  <1> QED
    BY <1>3, <1>4 DEF Dispatch

\* A mention that is still to be pushed, or judged by the gates, is there and names a dog.
LEMMA InHand ==
  ASSUME IInv, NEW c \in Chain, NEW p \in {"push", "gate"}, At(c, p)
  PROVE  /\ status[c] = "live" /\ Top(c) \in GoodCall /\ Top(c).pc = p /\ Top(c).breed \in Breed
         /\ Top(c).todo \in Seq(Holder) /\ Top(c).todo # <<>>
         /\ Mentioned(c) \in Breed /\ Mentioned(c) \in Holder /\ Mentioned(c) # Top(c).breed
         /\ worklist[c] \in W!List /\ worklist[c].live /\ W!Found(c) = worklist[c]
         /\ worklist[c].max = MaxDepth /\ worklist[c].depth <= MaxDepth
         /\ Relay(c)
  <1>1. p \notin Loops /\ p \in Entered
    BY DEF Loops, Entered, Beating
  <1>2. /\ status[c] = "live" /\ stack[c] # <<>> /\ Top(c) \in GoodCall /\ Top(c).pc = p
        /\ Top(c).breed \in Breed /\ Top(c).todo \in Seq(Holder)
    BY <1>1, TopOfDog
  <1>3. Top(c).todo # <<>> /\ Head(Top(c).todo) \notin {Top(c).breed, None}
    BY <1>2 DEF GoodCall
  <1>4. Mentioned(c) \in Breed /\ Mentioned(c) \in Holder /\ Mentioned(c) # Top(c).breed
    BY <1>2, <1>3, MentionType DEF Mentioned
  <1>5. Len(stack[c]) \in Nat /\ Len(stack[c]) >= 1 /\ Top(c) = stack[c][Len(stack[c])]
    BY <1>2, TopType DEF IInv, Typed
  <1>6. worklist[c] \in W!List /\ worklist[c].live
    BY <1>1, <1>2, <1>5 DEF IInv, Typed, Counted, Budget
  <1>7. W!Found(c) = worklist[c]
    BY <1>6 DEF W!Found
  <1>8. worklist[c].max = MaxDepth /\ worklist[c].depth <= MaxDepth
    BY <1>6 DEF IInv, Budget, Ceiling
  <1>9. ~Barking(c)
    BY <1>2, <1>5 DEF Barking
  <1>10. ~Pipeline(c)
    <2>1. SUFFICES ASSUME Pipeline(c) PROVE FALSE
      OBVIOUS
    <2>2. Len(stack[c]) # 1
      BY <1>2, <1>5, <2>1 DEF Pipeline
    <2>3. Len(stack[c]) # 2
      BY <1>2, <1>5, <2>1 DEF Pipeline
    <2> DEFINE n == Len(stack[c])
    <2>4. n \in Nat /\ n >= 1 /\ n <= 2 /\ n # 1 /\ n # 2
      BY <1>5, <2>1, <2>2, <2>3 DEF Pipeline
    <2> HIDE DEF n
    <2> QED
      BY <2>4
  <1>11. Relay(c)
    BY <1>2, <1>9, <1>10 DEF IInv, Budget
  <1> QED
    BY <1>2, <1>3, <1>4, <1>6, <1>7, <1>8, <1>11

\* Handoffs that come to nothing.
LEMMA PushRefusedKeeps ==
  ASSUME IInv, NEW c \in Chain, NEW s \in BOOLEAN, PushRefused(c, s) PROVE IInv'
  <1>1. At(c, "push") /\ tripped' \subseteq Chain
    BY DEF PushRefused, IInv, Typed, Counted
  <1>2. Top(c).todo # <<>> /\ Mentioned(c) \in Holder /\ W!Found(c) = worklist[c]
    BY <1>1, InHand
  <1>3. worklist' = worklist
    BY <1>2 DEF PushRefused, IInv, Typed, Counted
  <1>4. By("task.blocked", Mentioned(c)) \in Event
    BY <1>2, ByEvent DEF EventType, Stop
  <1>5. Ledgered'
    BY <1>4, Recorded DEF PushRefused
  <1> QED
    BY <1>1, <1>2, <1>3, <1>5, SkipWalk DEF PushRefused

LEMMA GateClosesKeeps ==
  ASSUME IInv, NEW c \in Chain, ReviewCloses(c) \/ GateCloses(c) PROVE IInv'
  <1>1. At(c, "gate") /\ Skip(c) /\ UNCHANGED <<custodyVars, worklist, bound, status, resumed, runs, limits>>
    BY DEF ReviewCloses, GateCloses
  <1>2. Top(c).todo # <<>> /\ tripped' \subseteq Chain
    BY <1>1, InHand DEF IInv, Typed, Counted, limits
  <1>3. Ledgered'
    BY <1>1, Unrecorded
  <1> QED
    BY <1>1, <1>2, <1>3, SkipWalk DEF limits
-----------------------------------------------------------------------------
\* Registered twice is registered once, and a worklist begins empty.
LEMMA RegisteredType ==
  ASSUME IInv, NEW c \in Chain
  PROVE  /\ Registered(worklist[c]) \in W!List /\ Registered(worklist[c]).live
         /\ Registered(worklist[c]).depth = worklist[c].depth /\ Ceiling(Registered(worklist[c]))
         /\ Registered(worklist[c]).depth \in Nat
  <1>1. worklist[c] \in W!List /\ Ceiling(worklist[c]) /\ sopMax \in SopDepths
    BY DEF IInv, Typed, Counted, Budget
  <1>2. CASE worklist[c].live
    <2>1. Registered(worklist[c]) = worklist[c]
      BY <1>2 DEF Registered
    <2> QED
      BY <1>1, <1>2, <2>1 DEF W!List
  <1>3. CASE ~worklist[c].live
    <2>1. Registered(worklist[c]) = W!NewList(MaxDepth) /\ worklist[c].depth = 0
      BY <1>1, <1>3 DEF Registered, Ceiling
    <2>2. MaxDepth \in Nat /\ MaxDepth >= 1
      BY <1>1, DepthType
    <2>3. /\ W!NewList(MaxDepth) \in W!List /\ W!NewList(MaxDepth).live = TRUE
          /\ W!NewList(MaxDepth).depth = 0 /\ W!NewList(MaxDepth).max = MaxDepth
      BY <2>2, NewListType
    <2> QED
      BY <2>1, <2>2, <2>3 DEF Ceiling
  <1> QED
    BY <1>2, <1>3

\* A call that returns spends nothing, whatever becomes of the worklist of the chain.
LEMMA ReturnBudget ==
  ASSUME IInv, NEW c \in Chain, status[c] = "live", Return(c),
         Len(stack[c]) > 1 => /\ worklist'[c].depth = worklist[c].depth
                              /\ worklist[c].live => worklist'[c].live,
         Ceiling(worklist'[c]), runs'[c] = runs[c], asked' = asked, sopMax' = sopMax
  PROVE  Budget(c)'
  <1> DEFINE n == Len(stack[c])
  <1>1. stack[c] # <<>> /\ n \in Nat /\ n >= 1 /\ Top(c) = stack[c][n]
        /\ \A i \in 1..n : stack[c][i] \in GoodCall
    BY LiveStack, TopType DEF IInv, Typed
  <1>2. /\ Len(stack'[c]) = n - 1 /\ (n = 1 <=> stack'[c] = <<>>)
        /\ \A i \in 1..n - 1 : stack'[c][i] = stack[c][i]
    BY <1>1, ReturnStack DEF IInv, Typed
  <1>3. MaxDepth' = MaxDepth
    BY DEF MaxDepth
  <1>4. status'[c] # "free" /\ Budget(c) /\ Ceiling(worklist[c])'
    BY <1>3, ReturnStacked DEF IInv, Typed, Budget, Ceiling
  <1>5. runs[c] \in Nat /\ asked[c] \in Nat /\ worklist[c].depth \in Nat
    BY DEF IInv, Typed, Counted, W!List
  <1>6. Within(c)'
    BY <1>3 DEF IInv, Budget, Within
  <1> HIDE DEF n
  <1>7. \A i \in 1..n - 1 : stack'[c][i].pc \in Entered => worklist'[c].live
    <2>1. TAKE i \in 1..n - 1
    <2>2. i \in 1..n /\ n > 1 /\ stack'[c][i] = stack[c][i]
      BY <1>1, <1>2
    <2>3. stack[c][i].pc \in Entered => worklist[c].live
      BY <2>2, <1>4 DEF Budget, n
    <2> QED
      BY <2>2, <2>3 DEF n
  <1>8. ASSUME stack'[c] # <<>> PROVE Relay(c)' \/ Pipeline(c)' \/ Barking(c)'
    <2>1. n > 1 /\ worklist'[c].depth = worklist[c].depth
      BY <1>1, <1>2, <1>8 DEF n
    <2>2. Top(c)' = stack[c][n - 1] /\ Top(c)'.pc \in {"mentions", "serial"}
      <3>1. Top(c)' = stack'[c][n - 1] /\ n - 1 \in 1..n - 1
        BY <1>1, <1>2, <2>1 DEF Top
      <3>2. stack[c][n - 1].pc \in {"mentions", "serial"}
        BY <3>1 DEF IInv, Typed, Stacked, n
      <3> QED
        BY <3>1, <3>2, <1>2
    <2>3. Unpaid(c, {"enter", "gate"})' = 0 /\ Unpaid(c, {"enter"})' = 0
      BY <2>2 DEF Unpaid
    <2>4. Unpaid(c, {"enter", "gate"}) \in {0, 1} /\ Unpaid(c, {"enter"}) \in {0, 1}
      BY DEF Unpaid
    <2>5. CASE Relay(c)
      <3>1. \A i \in 1..n - 1 : stack'[c][i].pc \notin Loops
        <4>1. TAKE i \in 1..n - 1
        <4>2. i \in 1..n
          BY <1>1
        <4> QED
          BY <4>2, <2>5, <1>2 DEF Relay, n
      <3>2. runs'[c] + 0 <= 1 + worklist'[c].depth
        BY <1>5, <2>1, <2>4, <2>5 DEF Relay
      <3> QED
        BY <3>1, <3>2, <2>3, <2>5, <1>2 DEF Relay
    <2>6. CASE Pipeline(c)
      <3>1. n <= 2 /\ stack[c][1].pc = "serial" /\ runs[c] + Len(stack[c][1].todo) + Unpaid(c, {"enter"}) <= asked[c]
        BY <2>6 DEF Pipeline, n
      <3>2. n = 2
        BY <2>1, <3>1, <1>1
      <3>3. stack'[c][1] = stack[c][1] /\ Len(stack'[c]) = 1 /\ Len(stack[c][1].todo) \in Nat
        <4>1. stack[c][1] \in GoodCall /\ 1 \in 1..n - 1 /\ n - 1 = 1
          BY <1>1, <3>2
        <4>2. stack[c][1].todo \in Seq(Holder)
          BY <4>1 DEF GoodCall, CallSet
        <4> QED
          BY <1>2, <4>1, <4>2
      <3>4. runs'[c] + Len(stack'[c][1].todo) + 0 <= asked'[c]
        BY <3>1, <3>3, <1>5, <2>4
      <3> QED
        BY <3>1, <3>3, <3>4, <2>3, <2>6 DEF Pipeline
    <2>7. ~Barking(c)
      <3>1. n # 1
        BY <2>1
      <3> QED
        BY <3>1 DEF Barking, n
    <2> QED
      BY <2>5, <2>6, <2>7, <1>1, <1>4 DEF Budget
  <1> QED
    BY <1>2, <1>4, <1>6, <1>7, <1>8 DEF Budget

\* A return, after the worklist was registered or not.
LEMMA ReturnKeeps ==
  ASSUME IInv, NEW c \in Chain, status[c] = "live", Return(c), NEW w \in [Chain -> W!List],
         w[c] \in {worklist[c], Registered(worklist[c])}, \A d \in Chain \ {c} : w[d] = worklist[d],
         worklist' = Released(c, w), Ledgered', UNCHANGED <<bound, resumed, runs, limits>>
  PROVE  IInv'
  <1>1. Stacked' /\ \A d \in Chain \ {c} : status'[d] = status[d] /\ stack'[d] = stack[d]
    BY ReturnStacked, ReturnStack, LiveStack DEF IInv, Typed
  <1>2. /\ w[c].depth = worklist[c].depth /\ Ceiling(w[c]) /\ (worklist[c].live => w[c].live)
    BY RegisteredType DEF IInv, Budget
  <1>3. CASE Len(stack[c]) = 1 /\ c \notin resumed
    <2>1. worklist' = [w EXCEPT ![c] = W!NoList]
      BY <1>3 DEF Released
    <2>2. worklist' \in [Chain -> W!List] /\ worklist'[c] = W!NoList /\ \A d \in Chain \ {c} : worklist'[d] = worklist[d]
      BY <2>1, NoListType
    <2>3. Ceiling(worklist'[c])
      BY <2>2, NoListType DEF Ceiling
    <2>4. Budget(c)'
      <3> DEFINE n == Len(stack[c])
      <3>1. n = 1
        BY <1>3
      <3> HIDE DEF n
      <3>2. ~(n > 1)
        BY <3>1
      <3> QED
        BY <2>3, <3>2, ReturnBudget DEF limits, n
    <2>5. \A d \in Chain \ {c} : Budget(d)'
      BY <1>1, <2>2, BudgetStays DEF IInv, limits
    <2> QED
      BY <1>1, <2>2, <2>4, <2>5 DEF IInv, Typed, Connected, Counted, limits
  <1>4. CASE ~(Len(stack[c]) = 1 /\ c \notin resumed)
    <2>1. worklist' = w
      BY <1>4 DEF Released
    <2>2. worklist' \in [Chain -> W!List] /\ \A d \in Chain \ {c} : worklist'[d] = worklist[d]
      BY <2>1
    <2>4. Budget(c)'
      BY <1>2, <2>1, ReturnBudget DEF limits
    <2>5. \A d \in Chain \ {c} : Budget(d)'
      BY <1>1, <2>2, BudgetStays DEF IInv, limits
    <2> QED
      BY <1>1, <2>2, <2>4, <2>5 DEF IInv, Typed, Connected, Counted, limits
  <1> QED
    BY <1>3, <1>4

LEMMA ReturnAndReleaseKeeps ==
  ASSUME IInv, NEW c \in Chain, status[c] = "live", ReturnAndRelease(c), Ledgered',
         UNCHANGED <<bound, resumed, runs, limits>>
  PROVE  IInv'
  <1>1. worklist \in [Chain -> W!List]
    BY DEF IInv, Typed, Counted
  <1> QED
    BY <1>1, ReturnKeeps DEF ReturnAndRelease

LEMMA EnterFailsKeeps == ASSUME IInv, NEW c \in Chain, EnterFails(c) PROVE IInv'
  <1>1. status[c] = "live" /\ Return(c) /\ Ledgered' /\ worklist \in [Chain -> W!List]
    BY Unrecorded DEF EnterFails, At, IInv, Typed, Counted
  <1>2. CASE worklist' = Released(c, worklist)
    BY <1>1, <1>2, ReturnKeeps DEF EnterFails
  <1>3. CASE worklist' = Released(c, [worklist EXCEPT ![c] = Registered(@)])
    <2> DEFINE w == [worklist EXCEPT ![c] = Registered(@)]
    <2>1. w \in [Chain -> W!List] /\ w[c] = Registered(worklist[c]) /\ \A d \in Chain \ {c} : w[d] = worklist[d]
      BY <1>1, RegisteredType
    <2> HIDE DEF w
    <2> QED
      BY <1>1, <1>3, <2>1, ReturnKeeps DEF EnterFails, w
  <1> QED
    BY <1>2, <1>3 DEF EnterFails

LEMMA ExecuteFailsKeeps == ASSUME IInv, NEW c \in Chain, ExecuteFails(c) PROVE IInv'
  <1>1. At(c, "exec") /\ "exec" \notin Loops
    BY DEF ExecuteFails, Loops
  <1>2. status[c] = "live" /\ By("invocation.died", Top(c).breed) \in Event
    BY <1>1, TopOfDog, ByEvent DEF EventType, Stop
  <1>3. Ledgered'
    BY <1>2, Recorded DEF ExecuteFails
  <1> QED
    BY <1>2, <1>3, ReturnAndReleaseKeeps DEF ExecuteFails

LEMMA ParkKeeps == ASSUME IInv, NEW c \in Chain, Park(c) PROVE IInv'
  <1>1. At(c, "held") /\ "held" \notin Loops
    BY DEF Park, Loops
  <1>2. status[c] = "live" /\ Top(c).breed \in Holder /\ By("ball.held", Top(c).breed) \in Event
    BY <1>1, TopOfDog, ByEvent DEF EventType
  <1>3. Ledgered'
    <2>1. CASE UNCHANGED custodyVars
      BY <2>1, Unrecorded
    <2>2. CASE hold' = Top(c).breed /\ Record(By("ball.held", Top(c).breed))
      BY <2>2, <1>2, RecordType DEF IInv, Typed, Ledgered
    <2> QED
      BY <2>1, <2>2 DEF Park
  <1> QED
    BY <1>2, <1>3, ReturnAndReleaseKeeps DEF Park

LEMMA EndKeeps ==
  ASSUME IInv, NEW c \in Chain, MentionsEnd(c) \/ PipeEnds(c) \/ ParallelEnds(c) PROVE IInv'
  <1>1. /\ status[c] = "live" /\ ReturnAndRelease(c) /\ UNCHANGED custodyVars
        /\ UNCHANGED <<bound, resumed, runs, limits>>
    BY DEF MentionsEnd, PipeEnds, ParallelEnds, At
  <1> QED
    BY <1>1, Unrecorded, ReturnAndReleaseKeeps
-----------------------------------------------------------------------------
\* A step of a chain of dogs whose worklist or count of runs changes.
LEMMA RelayBudget ==
  ASSUME IInv, NEW c \in Chain, status[c] = "live", Relay(c), Len(stack[c]) >= 1,
         NEW f \in GoodCall, Goto(c, f), f.pc \notin Loops,
         Ceiling(worklist'[c]), worklist'[c].live, runs'[c] <= 1 + MaxDepth,
         runs'[c] + (IF f.pc \in {"enter", "gate"} THEN 1 ELSE 0) <= 1 + worklist'[c].depth,
         status' = status, asked' = asked, sopMax' = sopMax
  PROVE  Budget(c)'
  <1> DEFINE n == Len(stack[c])
  <1>1. stack[c] # <<>> /\ n \in Nat /\ n >= 1
    BY LiveStack, TopType DEF IInv, Typed
  <1>2. /\ Len(stack'[c]) = n /\ Top(c)' = f /\ stack'[c][n] = f /\ stack'[c] # <<>>
        /\ \A i \in 1..n - 1 : stack'[c][i] = stack[c][i]
    BY <1>1, GotoStack DEF IInv, Typed
  <1>3. MaxDepth' = MaxDepth
    BY DEF MaxDepth
  <1>4. \A i \in 1..n : stack[c][i].pc \notin Loops
    BY DEF Relay
  <1> HIDE DEF n
  <1>5. \A i \in 1..n : stack'[c][i].pc \notin Loops
    <2>1. TAKE i \in 1..n
    <2>2. CASE i = n
      BY <2>2, <1>2
    <2>3. CASE i # n
      BY <2>3, <1>1, <1>2, <1>4
    <2> QED
      BY <2>2, <2>3
  <1>6. Relay(c)' /\ Within(c)'
    BY <1>2, <1>3, <1>5 DEF Relay, Unpaid, Within
  <1> QED
    BY <1>2, <1>3, <1>6 DEF Budget, Ceiling

\* Such a step leaves the other chains alone.
LEMMA OneChain ==
  ASSUME IInv, NEW c \in Chain, status[c] = "live", NEW f \in GoodCall, Goto(c, f), Budget(c)',
         worklist' \in [Chain -> W!List], \A d \in Chain \ {c} : worklist'[d] = worklist[d],
         runs' \in [Chain -> Nat], \A d \in Chain \ {c} : runs'[d] = runs[d],
         Ledgered', handoffs' \in Nat, tripped' \subseteq Chain,
         UNCHANGED <<bound, status, resumed, asked, sopMax>>
  PROVE  IInv'
  <1>1. Stacked' /\ \A d \in Chain \ {c} : stack'[d] = stack[d]
    BY GotoStacked, GotoStack, LiveStack DEF IInv, Typed
  <1>2. \A d \in Chain \ {c} : Budget(d)'
    BY <1>1, BudgetStays DEF IInv
  <1>3. Connected' /\ Counted'
    BY DEF IInv, Typed, Connected, Counted
  <1> QED
    BY <1>1, <1>2, <1>3 DEF IInv, Typed

\* An accepted handoff pays for one more run.
LEMMA PushBudget ==
  ASSUME IInv, NEW c \in Chain, NEW s \in BOOLEAN, Push(c, s),
         NEW f \in GoodCall, Goto(c, f), f.pc \in {"mentions", "gate"}, Ledgered', tripped' \subseteq Chain
  PROVE  IInv'
  <1> DEFINE w == worklist[c]
             x == W!Extended(w, Top(c).breed, Mentioned(c), s)
  <1>1. At(c, "push") /\ W!Accepts(W!Found(c), Top(c).breed, Mentioned(c), s)
        /\ UNCHANGED <<hold, bound, status, resumed, runs, asked, sopMax>> /\ handoffs' = handoffs + 1
        /\ worklist' = [worklist EXCEPT ![c] = W!Extended(W!Found(c), Top(c).breed, Mentioned(c), s)]
    BY DEF Push
  <1>2. /\ status[c] = "live" /\ Top(c).pc = "push" /\ Top(c).breed \in Breed /\ Mentioned(c) \in Breed
        /\ w \in W!List /\ w.live /\ W!Found(c) = w /\ w.max = MaxDepth /\ Relay(c)
    BY <1>1, InHand
  <1>3. w.depth < w.max /\ w.depth \in Nat /\ w.max \in Nat
    BY <1>1, <1>2 DEF W!Accepts, W!List
  <1> HIDE DEF w
  <1>4. x \in W!List /\ x.live = w.live /\ x.max = w.max /\ x.depth = w.depth + 1
    <2>1. \A a, b \in Breed : \A t \in BOOLEAN :
            /\ W!Extended(w, a, b, t) \in W!List
            /\ W!Extended(w, a, b, t).live = w.live /\ W!Extended(w, a, b, t).max = w.max
            /\ W!Extended(w, a, b, t).depth = w.depth + 1
      BY <1>2, ExtendedType
    <2> QED
      BY <1>2, <2>1, ZenonT(30)
  <1> HIDE DEF x
  <1>5. /\ worklist' \in [Chain -> W!List] /\ worklist'[c] = x /\ \A d \in Chain \ {c} : worklist'[d] = worklist[d]
    <2>1. worklist' = [worklist EXCEPT ![c] = x]
      BY <1>1, <1>2 DEF x
    <2>2. worklist \in [Chain -> W!List] /\ x \in W!List
      BY <1>4 DEF IInv, Typed, Counted
    <2> QED
      BY <2>1, <2>2
  <1>6. Ceiling(worklist'[c]) /\ worklist'[c].live
    <2>1. x.live
      BY <1>2, <1>4
    <2>2. x.max = MaxDepth /\ x.depth <= MaxDepth
      BY <1>2, <1>3, <1>4
    <2> QED
      BY <2>1, <2>2, <1>5 DEF Ceiling
  <1>7. runs[c] + 0 <= 1 + w.depth /\ runs[c] \in Nat /\ runs[c] <= 1 + MaxDepth
    BY <1>2 DEF Relay, Unpaid, IInv, Typed, Counted, Budget, Within, w
  <1>8. runs'[c] + (IF f.pc \in {"enter", "gate"} THEN 1 ELSE 0) <= 1 + worklist'[c].depth
    BY <1>1, <1>3, <1>4, <1>5, <1>7
  <1>9. f.pc \notin Loops /\ Len(stack[c]) >= 1 /\ runs'[c] <= 1 + MaxDepth
    BY <1>1, <1>2, <1>7, LiveStack, TopType DEF Loops, IInv, Typed
  <1>10. Budget(c)'
    BY <1>1, <1>2, <1>6, <1>8, <1>9, RelayBudget
  <1> QED
    BY <1>1, <1>2, <1>5, <1>10, OneChain DEF IInv, Typed, Counted

LEMMA PushKeeps == ASSUME IInv, NEW c \in Chain, NEW s \in BOOLEAN, Push(c, s) PROVE IInv'
  <1>1. At(c, "push") /\ hold' = hold
    BY DEF Push
  <1>2. /\ Top(c) \in GoodCall /\ Top(c).pc = "push" /\ Top(c).breed \in Breed /\ Top(c).todo \in Seq(Holder)
        /\ Top(c).todo # <<>> /\ Mentioned(c) \in Holder
    BY <1>1, InHand
  <1>3. CASE Step(c, "gate") /\ UNCHANGED <<view, tripped>>
    <2>1. Head(Top(c).todo) \notin {Top(c).breed, None}
      BY <1>2 DEF GoodCall
    <2>2. "gate" \in PC \ Loops
      BY DEF PC, Beating, Loops
    <2>3. Frame(Top(c).breed, "gate", Top(c).todo) \in GoodCall
      BY <1>2, <2>1, <2>2, GoodFrame
    <2>4. Ledgered' /\ tripped' \subseteq Chain
      BY <1>1, <1>3, Unrecorded DEF custodyVars, IInv, Typed, Counted
    <2> QED
      BY <1>3, <2>3, <2>4, FrameType, PushBudget DEF Step
  <1>4. CASE Record(By("ball.handed_cvo", Mentioned(c))) /\ Skip(c) /\ tripped' = tripped \cup {c}
    <2>1. Rest(Top(c)) \in GoodCall /\ Rest(Top(c)).pc = "mentions"
      BY <1>2, GoodRest DEF Loops
    <2>2. By("ball.handed_cvo", Mentioned(c)) \in Event
      BY <1>2, ByEvent DEF EventType
    <2>3. Ledgered' /\ tripped' \subseteq Chain
      BY <1>1, <1>4, <2>2, Recorded DEF IInv, Typed, Counted
    <2> QED
      BY <1>4, <2>1, <2>3, PushBudget DEF Skip
  <1> QED
    BY <1>3, <1>4 DEF Push

\* A run is spent where it has been paid for.
LEMMA EnterKeeps == ASSUME IInv, NEW c \in Chain, Enter(c) PROVE IInv'
  <1> DEFINE f == Frame(Top(c).breed, "hand", Top(c).todo)
             n == Len(stack[c])
             w == Registered(worklist[c])
  <1>1. /\ At(c, "enter") /\ "enter" \notin Loops /\ "hand" \in PC \ Loops /\ UNCHANGED custodyVars
        /\ UNCHANGED <<bound, status, resumed, limits>> /\ Goto(c, f)
        /\ worklist' = [worklist EXCEPT ![c] = w] /\ runs' = [runs EXCEPT ![c] = @ + 1]
    BY DEF Enter, Step, Loops, PC
  <1>2. /\ status[c] = "live" /\ stack[c] # <<>> /\ Top(c).pc = "enter" /\ Top(c).breed \in Breed
        /\ Top(c).todo \in Seq(Holder)
    BY <1>1, TopOfDog
  <1>3. f \in GoodCall /\ f.pc = "hand" /\ f.todo = Top(c).todo
    BY <1>1, <1>2, GoodFrame, FrameType
  <1>4. w \in W!List /\ w.live /\ w.depth = worklist[c].depth /\ Ceiling(w) /\ w.depth \in Nat
    BY RegisteredType
  <1> HIDE DEF w, f
  <1>5. /\ worklist' \in [Chain -> W!List] /\ worklist'[c] = w /\ \A d \in Chain \ {c} : worklist'[d] = worklist[d]
    BY <1>1, <1>4 DEF IInv, Typed, Counted
  <1>6. /\ runs' \in [Chain -> Nat] /\ runs'[c] = runs[c] + 1 /\ \A d \in Chain \ {c} : runs'[d] = runs[d]
        /\ runs[c] \in Nat
    BY <1>1 DEF IInv, Typed, Counted
  <1>7. n \in Nat /\ n >= 1 /\ Top(c) = stack[c][n] /\ \A i \in 1..n : stack[c][i] \in GoodCall
    BY <1>2, TopType DEF IInv, Typed
  <1>8. Unpaid(c, {"enter", "gate"}) = 1 /\ Unpaid(c, {"enter"}) = 1
    BY <1>2 DEF Unpaid
  <1>9. MaxDepth \in Nat /\ MaxDepth >= 1 /\ w.depth <= MaxDepth
    BY <1>4, DepthType DEF IInv, Typed, Counted, Ceiling
  <1>10. ASSUME Relay(c) PROVE Budget(c)'
    <2>1. runs[c] + 1 <= 1 + worklist[c].depth
      BY <1>8, <1>10 DEF Relay
    <2>2. runs'[c] <= 1 + MaxDepth /\ runs'[c] + 0 <= 1 + worklist'[c].depth
      BY <2>1, <1>4, <1>5, <1>6, <1>9
    <2>3. runs'[c] + (IF f.pc \in {"enter", "gate"} THEN 1 ELSE 0) <= 1 + worklist'[c].depth
      BY <2>2, <1>3
    <2>4. Ceiling(worklist'[c]) /\ worklist'[c].live /\ f.pc \notin Loops
      BY <1>3, <1>4, <1>5 DEF Loops
    <2> QED
      BY <2>2, <2>3, <2>4, <1>1, <1>2, <1>3, <1>7, <1>10, RelayBudget DEF limits
  <1>11. ASSUME Pipeline(c) PROVE Budget(c)'
    <2>1. stack[c][1].pc = "serial" /\ n <= 2 /\ runs[c] + Len(stack[c][1].todo) + 1 <= asked[c]
      BY <1>8, <1>11 DEF Pipeline
    <2>2. n # 1
      BY <2>1, <1>2, <1>7
    <2>3. n = 2
      <3> HIDE DEF n
      <3> QED
        BY <2>1, <2>2, <1>7
    <2>4. f.todo = <<>>
      BY <2>3, <1>3, <1>7, <1>11 DEF Pipeline
    <2>5. /\ Len(stack'[c]) = n /\ Top(c)' = f /\ stack'[c][n] = f /\ stack'[c] # <<>>
          /\ \A i \in 1..n - 1 : stack'[c][i] = stack[c][i]
      BY <1>1, <1>2, <1>3, GotoStack DEF IInv, Typed
    <2> HIDE DEF n
    <2>6. Len(stack'[c]) = 2 /\ stack'[c][1] = stack[c][1] /\ stack'[c][2] = f
      BY <2>3, <2>5
    <2>7. Len(stack[c][1].todo) \in Nat
      <3>1. stack[c][1] \in GoodCall
        BY <1>7
      <3>2. stack[c][1].todo \in Seq(Holder)
        BY <3>1 DEF GoodCall, CallSet
      <3> QED
        BY <3>2
    <2>8. runs'[c] + Len(stack'[c][1].todo) + 0 <= asked'[c] /\ runs'[c] <= asked'[c]
      <3> DEFINE k == Len(stack[c][1].todo)
      <3>1. k \in Nat /\ runs[c] + k + 1 <= asked[c] /\ asked[c] \in Nat /\ asked' = asked
        BY <2>1, <2>7, <1>1 DEF IInv, Typed, Counted, limits
      <3> HIDE DEF k
      <3>2. runs'[c] + k + 0 <= asked'[c] /\ runs'[c] <= asked'[c]
        BY <3>1, <1>6
      <3> QED
        BY <3>2, <2>6 DEF k
    <2>9. Unpaid(c, {"enter"})' = 0
      BY <2>5, <1>3 DEF Unpaid
    <2>10. asked'[c] # 0
      BY <1>1, <1>11 DEF Pipeline, limits
    <2>11. Pipeline(c)'
      BY <2>1, <2>4, <2>6, <2>8, <2>9, <2>10, <1>3 DEF Pipeline
    <2>12. Ceiling(worklist[c])' /\ worklist'[c].live /\ status'[c] # "free"
      BY <1>1, <1>2, <1>4, <1>5 DEF Ceiling, MaxDepth, limits
    <2>13. Within(c)'
      BY <2>8, <2>10 DEF Within
    <2> QED
      BY <2>11, <2>12, <2>13 DEF Budget
  <1>12. ~Barking(c)
    <2>1. SUFFICES ASSUME Barking(c) PROVE FALSE
      OBVIOUS
    <2>2. n = 1 /\ stack[c][1].pc = "parallel"
      BY <2>1 DEF Barking
    <2> QED
      BY <2>2, <1>2, <1>7
  <1>13. Budget(c)'
    BY <1>2, <1>10, <1>11, <1>12 DEF IInv, Budget
  <1>14. Ledgered' /\ handoffs' \in Nat /\ tripped' \subseteq Chain
    BY <1>1, Unrecorded DEF IInv, Typed, Counted, limits
  <1> QED
    BY <1>1, <1>2, <1>3, <1>5, <1>6, <1>13, <1>14, OneChain DEF limits
-----------------------------------------------------------------------------
\* A new call leaves the other chains alone, and touches nothing else but the ledger.
LEMMA CallKeeps ==
  ASSUME IInv, NEW c \in Chain, status[c] = "live", NEW f \in GoodCall, NEW g \in GoodCall, Call(c, f, g),
         f.pc \in {"mentions", "serial"}, Budget(c)', Ledgered',
         UNCHANGED <<worklist, bound, status, resumed, runs, limits>>
  PROVE  IInv'
  <1>1. Stacked' /\ \A d \in Chain \ {c} : stack'[d] = stack[d]
    BY CallStacked, CallStack, LiveStack DEF IInv, Typed
  <1>2. \A d \in Chain \ {c} : Budget(d)'
    BY <1>1, BudgetStays DEF IInv, limits
  <1>3. Connected' /\ Counted'
    BY DEF IInv, Typed, Connected, Counted, limits
  <1> QED
    BY <1>1, <1>2, <1>3 DEF IInv, Typed

\* A handoff that goes through is a call that the handoff has paid for.
LEMMA GateOpensKeeps == ASSUME IInv, NEW c \in Chain, GateOpens(c) PROVE IInv'
  <1> DEFINE f == Rest(Top(c))  g == Run(Mentioned(c))  n == Len(stack[c])
  <1>1. /\ At(c, "gate") /\ Call(c, f, g)
        /\ UNCHANGED custodyVars /\ UNCHANGED <<worklist, bound, status, resumed, runs, limits>>
    BY DEF GateOpens
  <1>2. /\ status[c] = "live" /\ Top(c) \in GoodCall /\ Top(c).pc = "gate" /\ Top(c).todo # <<>>
        /\ Mentioned(c) \in Breed /\ worklist[c].live /\ Relay(c)
    BY <1>1, InHand
  <1>3. f \in GoodCall /\ f.pc = "mentions"
    BY <1>2, GoodRest DEF Loops
  <1>4. g \in GoodCall /\ g.pc = "enter"
    BY <1>2, GoodRun, FrameType DEF Run
  <1>5. n \in Nat /\ n >= 1 /\ stack[c] # <<>>
    BY <1>2, LiveStack, TopType DEF IInv, Typed
  <1> HIDE DEF f, g
  <1>6. /\ stack'[c] # <<>> /\ Len(stack'[c]) = n + 1 /\ Top(c)' = g /\ stack'[c][n] = f /\ stack'[c][n + 1] = g
        /\ \A i \in 1..n - 1 : stack'[c][i] = stack[c][i]
    BY <1>1, <1>3, <1>4, <1>5, CallStack DEF IInv, Typed
  <1>7. Unpaid(c, {"enter", "gate"}) = 1 /\ Unpaid(c, {"enter", "gate"})' = 1
    BY <1>2, <1>4, <1>6 DEF Unpaid
  <1>8. \A i \in 1..n : stack[c][i].pc \notin Loops
    BY <1>2 DEF Relay
  <1> HIDE DEF n
  <1>9. \A i \in 1..n + 1 : stack'[c][i].pc \notin Loops
    <2>1. TAKE i \in 1..n + 1
    <2>2. CASE i = n + 1
      BY <2>2, <1>4, <1>6 DEF Loops
    <2>3. CASE i = n
      BY <2>3, <1>3, <1>6 DEF Loops
    <2>4. CASE i \in 1..n - 1
      BY <2>4, <1>5, <1>6, <1>8
    <2> QED
      BY <2>2, <2>3, <2>4, <1>5
  <1>10. Relay(c)'
    BY <1>1, <1>2, <1>6, <1>7, <1>9 DEF Relay, limits
  <1>11. MaxDepth' = MaxDepth
    BY <1>1 DEF MaxDepth, limits
  <1>12. Budget(c)'
    BY <1>1, <1>2, <1>10, <1>11 DEF IInv, Budget, Within, Ceiling, limits
  <1>13. Ledgered'
    BY <1>1, Unrecorded
  <1> QED
    BY <1>1, <1>2, <1>3, <1>4, <1>12, <1>13, CallKeeps

\* A loop is the only call of its chain, and the chain is of its kind.
LEMMA LoopTop ==
  ASSUME IInv, NEW c \in Chain, NEW p \in Loops, At(c, p)
  PROVE  /\ status[c] = "live" /\ Len(stack[c]) = 1 /\ stack[c][1] = Top(c) /\ Top(c) \in GoodCall /\ Top(c).pc = p
         /\ p = "serial" => Pipeline(c)
         /\ p = "parallel" => Barking(c)
  <1> DEFINE n == Len(stack[c])
  <1>1. status[c] = "live" /\ Top(c).pc = p /\ stack[c] # <<>>
    BY LiveStack DEF At, IInv, Typed
  <1>2. Top(c) \in GoodCall /\ n \in Nat /\ n >= 1 /\ Top(c) = stack[c][n]
    BY <1>1, TopType DEF IInv, Typed
  <1>3. ~Relay(c)
    BY <1>1, <1>2 DEF Relay
  <1>4. ASSUME Pipeline(c) PROVE n = 1 /\ p = "serial"
    <2>1. n # 2
      BY <1>1, <1>2, <1>4 DEF Pipeline, Loops
    <2>2. n <= 2 /\ stack[c][1].pc = "serial"
      BY <1>4 DEF Pipeline
    <2> HIDE DEF n
    <2> QED
      BY <2>1, <2>2, <1>1, <1>2
  <1>5. ASSUME Barking(c) PROVE n = 1 /\ p = "parallel"
    BY <1>1, <1>2, <1>5 DEF Barking
  <1>6. Pipeline(c) \/ Barking(c)
    BY <1>1, <1>3 DEF IInv, Budget
  <1> QED
    BY <1>1, <1>2, <1>4, <1>5, <1>6

\* The two loops go on.
LEMMA PipeKeeps == ASSUME IInv, NEW c \in Chain, Pipe(c) PROVE IInv'
  <1> DEFINE t == Top(c).todo
             f == Frame(Mentioned(c), "serial", Tail(t))
             g == Run(Mentioned(c))
  <1>1. /\ At(c, "serial") /\ "serial" \in Loops /\ t # <<>> /\ Call(c, f, g) /\ hold' = hold
        /\ UNCHANGED <<worklist, bound, status, resumed, runs, limits>>
        /\ UNCHANGED view \/ Record(HandTo("dispatch_dispositioned", Mentioned(c)))
    BY DEF Pipe, Loops
  <1>2. /\ status[c] = "live" /\ Len(stack[c]) = 1 /\ stack[c][1] = Top(c) /\ Top(c) \in GoodCall
        /\ Top(c).pc = "serial" /\ Pipeline(c)
    BY <1>1, LoopTop
  <1>3. t \in Seq(Breed)
    BY <1>2 DEF GoodCall
  <1> HIDE DEF t
  <1>4. Head(t) \in Breed /\ Tail(t) \in Seq(Breed) /\ Len(Tail(t)) = Len(t) - 1 /\ Len(t) \in Nat
    BY <1>1, <1>3, HeadTailProperties
  <1>5. Mentioned(c) \in Breed
    BY <1>4 DEF Mentioned, t
  <1>6. f \in GoodCall /\ f.pc = "serial" /\ f.todo = Tail(t)
    <2>1. Mentioned(c) \in Holder /\ Tail(t) \in Seq(Breed) /\ "serial" \in Loops
      BY <1>1, <1>4, <1>5 DEF Holder
    <2>2. f \in GoodCall
      BY <2>1, GoodLoop
    <2> QED
      BY <2>2 DEF Frame
  <1>7. g \in GoodCall /\ g.pc = "enter" /\ g.todo = <<>>
    BY <1>5, GoodRun, FrameType DEF Run
  <1>8. stack[c] # <<>>
    BY <1>2, LiveStack DEF IInv, Typed
  <1> HIDE DEF f, g
  <1>9. /\ stack'[c] # <<>> /\ Len(stack'[c]) = Len(stack[c]) + 1 /\ Top(c)' = g
        /\ stack'[c][Len(stack[c])] = f /\ stack'[c][Len(stack[c]) + 1] = g
    BY <1>1, <1>6, <1>7, <1>8, CallStack DEF IInv, Typed
  <1>10. Len(stack'[c]) = 2 /\ stack'[c][1] = f /\ stack'[c][2] = g
    <2> DEFINE n == Len(stack[c])
    <2>1. n = 1
      BY <1>2
    <2>2. Len(stack'[c]) = n + 1 /\ stack'[c][n] = f /\ stack'[c][n + 1] = g
      BY <1>9
    <2> HIDE DEF n
    <2> QED
      BY <2>1, <2>2
  <1>11. Unpaid(c, {"enter"}) = 0 /\ Unpaid(c, {"enter"})' = 1
    BY <1>2, <1>7, <1>9 DEF Unpaid
  <1>12. runs[c] \in Nat /\ asked[c] \in Nat /\ asked' = asked
    BY <1>1 DEF IInv, Typed, Counted, limits
  <1>13. runs'[c] + Len(stack'[c][1].todo) + 1 <= asked'[c]
    <2>1. runs[c] + Len(t) + 0 <= asked[c]
      BY <1>2, <1>11 DEF Pipeline, t
    <2> DEFINE k == Len(t)
    <2>2. k \in Nat /\ Len(stack'[c][1].todo) = k - 1 /\ runs[c] + k + 0 <= asked[c]
      BY <2>1, <1>4, <1>6, <1>10
    <2> HIDE DEF k
    <2>3. runs[c] + (k - 1) + 1 <= asked[c]
      BY <2>2, <1>12
    <2> QED
      BY <2>2, <2>3, <1>1, <1>12
  <1>14. Pipeline(c)'
    BY <1>2, <1>6, <1>7, <1>10, <1>11, <1>12, <1>13 DEF Pipeline
  <1>15. \A i \in 1..Len(stack'[c]) : stack'[c][i].pc \notin Entered
    <2>1. \A i \in 1..2 : i = 1 \/ i = 2
      OBVIOUS
    <2>2. f.pc \notin Entered /\ g.pc \notin Entered
      BY <1>6, <1>7 DEF Entered, Beating
    <2>3. \A i \in 1..2 : stack'[c][i].pc \notin Entered
      BY <2>1, <2>2, <1>10
    <2> QED
      BY <2>3, <1>10
  <1>16. MaxDepth' = MaxDepth
    BY <1>1 DEF MaxDepth, limits
  <1>17. Budget(c)'
    BY <1>1, <1>2, <1>12, <1>14, <1>15, <1>16 DEF IInv, Budget, Within, Ceiling
  <1>18. Ledgered'
    <2>1. CASE UNCHANGED view
      BY <2>1, <1>1, Unrecorded DEF custodyVars
    <2>2. CASE Record(HandTo("dispatch_dispositioned", Mentioned(c)))
      BY <2>2, <1>1, <1>5, HandToEvent, Recorded DEF Handoff
    <2> QED
      BY <2>1, <2>2, <1>1
  <1> QED
    BY <1>1, <1>2, <1>6, <1>7, <1>17, <1>18, CallKeeps

LEMMA RemoveType ==
  ASSUME NEW S, NEW s \in Seq(S), NEW i \in 1..Len(s) PROVE RemoveAt(s, i) \in Seq(S)
  <1>1. Len(s) \in Nat /\ i \in Nat /\ \A j \in 1..Len(s) : s[j] \in S
    BY ElementOfSeq
  <1>2. SubSeq(s, 1, i - 1) \in Seq(S) /\ SubSeq(s, i + 1, Len(s)) \in Seq(S)
    BY <1>1, SubSeqProperties
  <1> QED
    BY <1>2, ConcatProperties DEF RemoveAt

LEMMA BarkKeeps == ASSUME IInv, NEW c \in Chain, Bark(c) PROVE IInv'
  <1>1. /\ At(c, "parallel") /\ "parallel" \in Loops /\ UNCHANGED custodyVars
        /\ UNCHANGED <<worklist, bound, status, resumed, runs, limits>>
    BY DEF Bark, Loops
  <1>2. PICK i \in 1..Len(Top(c).todo) : Goto(c, Frame(Top(c).breed, "parallel", RemoveAt(Top(c).todo, i)))
    BY DEF Bark
  <1>3. /\ status[c] = "live" /\ Len(stack[c]) = 1 /\ stack[c][1] = Top(c) /\ Top(c) \in GoodCall
        /\ Top(c).pc = "parallel" /\ Barking(c)
    BY <1>1, LoopTop
  <1> DEFINE t == RemoveAt(Top(c).todo, i)  f == Frame(Top(c).breed, "parallel", t)
  <1>4. Top(c).breed \in Holder /\ Top(c).todo \in Seq(Holder)
    BY <1>3 DEF GoodCall, CallSet
  <1>5. t \in Seq(Holder)
    BY <1>4, RemoveType
  <1> HIDE DEF t
  <1>6. f \in GoodCall /\ f.pc = "parallel"
    BY <1>4, <1>5, FrameType DEF GoodCall, CallSet, Frame, Loops, PC
  <1>7. Goto(c, f)
    BY <1>2 DEF t
  <1>8. stack[c] # <<>>
    BY <1>3, LiveStack DEF IInv, Typed
  <1> HIDE DEF f
  <1>9. stack'[c] # <<>> /\ Len(stack'[c]) = Len(stack[c]) /\ stack'[c][Len(stack[c])] = f
    BY <1>6, <1>7, <1>8, GotoStack DEF IInv, Typed
  <1>10. Len(stack'[c]) = 1 /\ stack'[c][1] = f
    BY <1>3, <1>9
  <1>11. Barking(c)'
    BY <1>1, <1>3, <1>6, <1>10 DEF Barking
  <1>12. \A j \in 1..Len(stack'[c]) : stack'[c][j].pc \notin Entered
    BY <1>6, <1>10 DEF Entered, Beating
  <1>13. MaxDepth' = MaxDepth
    BY <1>1 DEF MaxDepth, limits
  <1>14. Budget(c)'
    BY <1>1, <1>3, <1>11, <1>12, <1>13 DEF IInv, Budget, Within, Ceiling, limits
  <1>15. Ledgered'
    BY <1>1, Unrecorded
  <1> QED
    BY <1>1, <1>3, <1>6, <1>7, <1>14, <1>15, OneChain DEF IInv, Typed, Counted, limits
-----------------------------------------------------------------------------
\* The steps that touch no call but a first one.
LEMMA AcquireKeeps == ASSUME IInv, NEW c \in Chain, Acquire(c) PROVE IInv'
  <1>1. /\ status[c] = "queued" /\ status' = [status EXCEPT ![c] = "live"]
        /\ UNCHANGED <<custodyVars, worklist, bound, resumed, stack, runs, limits>>
    BY DEF Acquire
  <1>2. /\ status' \in [Chain -> {"free", "queued", "live", "over"}]
        /\ status'[c] = "live" /\ \A d \in Chain \ {c} : status'[d] = status[d]
    BY <1>1 DEF IInv, Typed, Stacked
  <1>3. Stacked'
    BY <1>1, <1>2 DEF IInv, Typed, Stacked, CallsAreGood
  <1>4. Ledgered' /\ Connected' /\ Counted'
    BY <1>1, Unrecorded DEF IInv, Typed, Connected, Counted, limits
  <1>5. ASSUME NEW d \in Chain PROVE Budget(d)'
    BY <1>1, <1>2, BudgetStays DEF IInv, limits
  <1> QED
    BY <1>3, <1>4, <1>5 DEF IInv, Typed

\* The steps that only write to the ledger.
LEMMA LedgerKeeps ==
  ASSUME IInv, Ledgered', UNCHANGED <<hold, worklist, bound, chainVars, limits>> PROVE IInv'
  <1>1. Stacked' /\ Connected' /\ Counted'
    BY DEF IInv, Typed, Stacked, CallsAreGood, Connected, Counted, chainVars, limits
  <1>2. ASSUME NEW d \in Chain PROVE Budget(d)'
    BY BudgetStays DEF IInv, limits, chainVars
  <1> QED
    BY <1>1, <1>2 DEF IInv, Typed

LEMMA HeartbeatKeeps ==
  ASSUME IInv, NEW c \in Chain, NEW i \in 1..Len(stack[c]), Heartbeat(c, i) PROVE IInv'
  <1>1. stack[c] # <<>>
    BY LiveStack DEF Heartbeat, IInv, Typed
  <1>2. stack[c][i] \in GoodCall
    BY <1>1, TopType DEF IInv, Typed
  <1>3. stack[c][i].breed \in Holder
    BY <1>2 DEF GoodCall, CallSet
  <1>4. By("invocation.heartbeat", stack[c][i].breed) \in Event
    BY <1>3, ByEvent DEF EventType
  <1>5. Ledgered'
    BY <1>4, Recorded DEF Heartbeat
  <1> QED
    BY <1>5, LedgerKeeps DEF Heartbeat

LEMMA SweepKeeps == ASSUME IInv, Sweep PROVE IInv'
  <1>1. PICK type \in {"ball.degraded", "invocation.died"} : Record(By(type, view.started))
    BY DEF Sweep
  <1>2. view.started \in Holder /\ type \in EventType
    BY DEF IInv, Typed, Ledgered, View, EventType, Stop
  <1>3. By(type, view.started) \in Event
    BY <1>2, ByEvent
  <1>4. Ledgered'
    BY <1>1, <1>3, Recorded DEF Sweep
  <1> QED
    BY <1>4, LedgerKeeps DEF Sweep

\* The streamer is bound, or lost.
LEMMA ConnectionKeeps ==
  ASSUME IInv, bound' \in Conn \cup {None}, UNCHANGED <<custodyVars, worklist, chainVars, limits>> PROVE IInv'
  <1>1. Ledgered' /\ Connected' /\ Stacked' /\ Counted'
    BY Unrecorded DEF IInv, Typed, Connected, Stacked, CallsAreGood, Counted, chainVars, limits
  <1>2. ASSUME NEW d \in Chain PROVE Budget(d)'
    BY BudgetStays DEF IInv, limits, chainVars
  <1> QED
    BY <1>1, <1>2 DEF IInv, Typed

\* What the router makes of a message is a call to begin with.
LEMMA MessageType ==
  ASSUME NEW f \in Messages
  PROVE  /\ f \in GoodCall /\ f.pc \in {"enter", "serial", "parallel"}
         /\ Len(f.todo) \in Nat /\ (Len(f.todo) = 0 <=> f.pc = "enter")
  <1>1. CASE f \in {Run(b) : b \in Breed}
    <2>1. PICK b \in Breed : f = Run(b)
      BY <1>1
    <2>2. f.todo = <<>> /\ f.pc = "enter" /\ f \in GoodCall
      BY <2>1, GoodRun, FrameType DEF Run
    <2> QED
      BY <2>2
  <1>2. CASE f \notin {Run(b) : b \in Breed}
    <2>1. PICK p \in Loops, s \in Several : f = Frame(None, p, s)
      BY <1>2 DEF Messages, Loops
    <2>2. s \in Seq(Breed) /\ Len(s) \in Nat /\ Len(s) # 0
      <3>1. PICK n \in 2..MaxTargets : s \in [1..n -> Breed]
        BY DEF Several
      <3>2. MaxTargets \in Nat /\ n \in Nat /\ n >= 2
        BY BoundsAssumption
      <3>3. s \in Seq(Breed)
        BY <3>1, <3>2, SeqDef
      <3>4. Len(s) \in Nat /\ 1..n = 1..Len(s)
        BY <3>1, <3>3, LenProperties
      <3> DEFINE l == Len(s)
      <3>5. l \in Nat /\ 1..n = 1..l
        BY <3>4
      <3> HIDE DEF l
      <3>6. l # 0
        BY <3>2, <3>5
      <3> QED
        BY <3>3, <3>4, <3>6 DEF l
    <2>3. None \in Holder
      BY DEF Holder
    <2>4. f \in GoodCall
      BY <2>1, <2>2, <2>3, GoodLoop
    <2>5. f.pc = p /\ f.todo = s
      BY <2>1, FrameType
    <2> QED
      BY <2>2, <2>4, <2>5 DEF Loops
  <1> QED
    BY <1>1, <1>2

\* A chain begins with one call, and has not run a dog.
LEMMA FirstBudget ==
  ASSUME IInv, NEW c \in Chain, status[c] = "free", NEW f \in GoodCall, stack'[c] = <<f>>,
         f.pc \in {"enter", "serial", "parallel"}, Len(f.todo) \in Nat, Len(f.todo) = 0 <=> f.pc = "enter",
         asked'[c] = Len(f.todo), status'[c] # "free", UNCHANGED <<worklist, runs, sopMax>>
  PROVE  Budget(c)'
  <1>1. runs[c] = 0 /\ ~worklist[c].live /\ Ceiling(worklist[c]) /\ worklist[c].depth = 0
    BY DEF IInv, Budget, Ceiling
  <1>2. MaxDepth' = MaxDepth /\ MaxDepth \in Nat
    BY DepthType DEF MaxDepth, IInv, Typed, Counted
  <1>3. Len(stack'[c]) = 1 /\ stack'[c][1] = f /\ stack'[c] # <<>> /\ Top(c)' = f
    BY DEF Top
  <1>4. \A i \in 1..Len(stack'[c]) : stack'[c][i] = f
    BY <1>3
  <1>5. f.pc \notin Entered
    BY DEF Entered, Beating
  <1> DEFINE l == Len(f.todo)
  <1>6. l \in Nat /\ asked'[c] = l /\ runs'[c] = 0 /\ (l = 0 <=> f.pc = "enter")
    BY <1>1
  <1>7. Within(c)'
    <2> HIDE DEF l
    <2> QED
      BY <1>2, <1>6 DEF Within
  <1>8. CASE f.pc = "enter"
    <2>1. Unpaid(c, {"enter", "gate"})' = 1
      BY <1>3, <1>8 DEF Unpaid
    <2>2. Relay(c)'
      BY <2>1, <1>1, <1>4, <1>6, <1>8 DEF Relay, Loops
    <2> QED
      BY <2>2, <1>1, <1>2, <1>4, <1>5, <1>7 DEF Budget, Ceiling
  <1>9. CASE f.pc = "serial"
    <2>1. Unpaid(c, {"enter"})' = 0 /\ asked'[c] # 0
      BY <1>3, <1>6, <1>9 DEF Unpaid
    <2>2. runs'[c] + Len(stack'[c][1].todo) + 0 <= asked'[c]
      <3>1. Len(stack'[c][1].todo) = l
        BY <1>3
      <3> HIDE DEF l
      <3>2. runs'[c] + l + 0 <= asked'[c]
        BY <1>6
      <3> QED
        BY <3>1, <3>2
    <2>3. Pipeline(c)'
      BY <2>1, <2>2, <1>3, <1>9 DEF Pipeline
    <2> QED
      BY <2>3, <1>1, <1>2, <1>4, <1>5, <1>7 DEF Budget, Ceiling
  <1>10. CASE f.pc = "parallel"
    <2>1. Barking(c)'
      BY <1>1, <1>3, <1>10 DEF Barking
    <2> QED
      BY <2>1, <1>1, <1>2, <1>4, <1>5, <1>7 DEF Budget, Ceiling
  <1> QED
    BY <1>8, <1>9, <1>10

LEMMA FirstStacked ==
  ASSUME Stacked, NEW c \in Chain, NEW f \in GoodCall, NEW s \in {"queued", "live"},
         stack' = [stack EXCEPT ![c] = <<f>>], status' = [status EXCEPT ![c] = s]
  PROVE  /\ Stacked' /\ stack'[c] = <<f>> /\ status'[c] = s
         /\ \A d \in Chain \ {c} : stack'[d] = stack[d] /\ status'[d] = status[d]
  <1>1. /\ stack' \in [Chain -> Seq(GoodCall)] /\ stack'[c] = <<f>> /\ \A d \in Chain \ {c} : stack'[d] = stack[d]
    BY DEF Stacked, CallsAreGood
  <1>2. /\ status' \in [Chain -> {"free", "queued", "live", "over"}] /\ status'[c] = s
        /\ \A d \in Chain \ {c} : status'[d] = status[d]
    BY DEF Stacked
  <1>3. \A d \in Chain : stack'[d] = <<>> <=> status'[d] \in {"free", "over"}
    BY <1>1, <1>2 DEF Stacked
  <1>4. \A d \in Chain : \A i \in 1..Len(stack'[d]) - 1 : stack'[d][i].pc \in {"mentions", "serial"}
    <2>1. \A i \in 1..Len(<<f>>) - 1 : FALSE
      OBVIOUS
    <2> QED
      BY <2>1, <1>1 DEF Stacked
  <1> QED
    BY <1>1, <1>2, <1>3, <1>4 DEF Stacked, CallsAreGood

\* The two ways a chain begins.
LEMMA UserInputKeeps ==
  ASSUME IInv, NEW c \in Chain, NEW k \in Conn, NEW f \in Messages, UserInput(k, c, f) PROVE IInv'
  <1>1. /\ status[c] = "free" /\ bound' = k /\ asked' = [asked EXCEPT ![c] = Len(f.todo)]
        /\ status' = [status EXCEPT ![c] = "queued"] /\ stack' = [stack EXCEPT ![c] = <<f>>]
        /\ UNCHANGED <<custodyVars, worklist, resumed, runs, handoffs, tripped, sopMax>>
    BY DEF UserInput
  <1>2. /\ f \in GoodCall /\ f.pc \in {"enter", "serial", "parallel"}
        /\ Len(f.todo) \in Nat /\ (Len(f.todo) = 0 <=> f.pc = "enter")
    BY MessageType
  <1>3. /\ Stacked' /\ stack'[c] = <<f>> /\ status'[c] = "queued"
        /\ \A d \in Chain \ {c} : stack'[d] = stack[d] /\ status'[d] = status[d]
    BY <1>1, <1>2, FirstStacked DEF IInv, Typed
  <1>4. /\ asked' \in [Chain -> Nat] /\ asked'[c] = Len(f.todo)
        /\ \A d \in Chain \ {c} : asked'[d] = asked[d]
    <2> DEFINE l == Len(f.todo)
    <2>1. l \in Nat /\ asked' = [asked EXCEPT ![c] = l] /\ asked \in [Chain -> Nat]
      BY <1>1, <1>2 DEF IInv, Typed, Counted
    <2> HIDE DEF l
    <2>2. asked' \in [Chain -> Nat] /\ asked'[c] = l /\ \A d \in Chain \ {c} : asked'[d] = asked[d]
      BY <2>1
    <2> QED
      BY <2>2 DEF l
  <1>5. Budget(c)'
    BY <1>1, <1>2, <1>3, <1>4, FirstBudget
  <1>6. \A d \in Chain \ {c} : Budget(d)'
    BY <1>1, <1>3, <1>4, BudgetStays DEF IInv
  <1>7. Connected'
    BY <1>1 DEF Connected
  <1>8. Ledgered' /\ Counted'
    BY <1>1, <1>4, Unrecorded DEF IInv, Typed, Counted
  <1> QED
    BY <1>3, <1>5, <1>6, <1>7, <1>8 DEF IInv, Typed

LEMMA WakeKeeps ==
  ASSUME IInv, NEW c \in Chain, Wake(c) PROVE IInv'
  <1>1. /\ status[c] = "free" /\ hold # None /\ hold' = None
        /\ UNCHANGED <<worklist, bound, runs, limits>>
    BY DEF Wake
  <1>2. hold \in Breed /\ hold \in Holder /\ None \in Holder /\ view \in View
    BY <1>1 DEF IInv, Typed, Ledgered, Holder
  <1>3. Connected'
    BY <1>1 DEF IInv, Typed, Connected
  <1>4. CASE /\ view' = Observe(Observe(view, By("wake_condition_met", hold)), By("hold_dispositioned", hold))
             /\ status' = [status EXCEPT ![c] = "live"] /\ resumed' = resumed \cup {c}
             /\ stack' = [stack EXCEPT ![c] = <<Run(hold)>>]
    <2>1. By("wake_condition_met", hold) \in Event /\ By("hold_dispositioned", hold) \in Event
      BY <1>2, ByEvent DEF EventType
    <2>2. Observe(view, By("wake_condition_met", hold)) \in View
      BY <1>2, <2>1, ObserveType
    <2>3. view' \in View
      BY <1>4, <2>1, <2>2, ObserveType
    <2>4. /\ Run(hold) \in GoodCall /\ Run(hold).pc = "enter" /\ Run(hold).todo = <<>>
          /\ Len(Run(hold).todo) = 0 /\ asked'[c] = 0
      <3>1. Run(hold) \in GoodCall /\ Run(hold).pc = "enter" /\ Run(hold).todo = <<>>
        BY <1>2, GoodRun, FrameType DEF Run
      <3>2. asked'[c] = 0
        BY <1>1 DEF IInv, Budget, limits
      <3> QED
        BY <3>1, <3>2
    <2>5. /\ Stacked' /\ stack'[c] = <<Run(hold)>> /\ status'[c] = "live"
          /\ \A d \in Chain \ {c} : stack'[d] = stack[d] /\ status'[d] = status[d]
      BY <1>4, <2>4, FirstStacked DEF IInv, Typed
    <2>6. Budget(c)'
      BY <1>1, <2>4, <2>5, FirstBudget DEF limits
    <2>7. \A d \in Chain \ {c} : Budget(d)'
      BY <1>1, <2>5, BudgetStays DEF IInv, limits
    <2>8. Ledgered' /\ Counted'
      BY <1>1, <1>2, <1>4, <2>3 DEF IInv, Typed, Ledgered, Counted, limits
    <2> QED
      BY <1>3, <2>5, <2>6, <2>7, <2>8 DEF IInv, Typed
  <1>5. CASE UNCHANGED <<view, status, resumed, stack>>
    <2>1. \A d \in Chain : Budget(d)'
      BY <1>1, <1>5, BudgetStays DEF IInv, limits
    <2>2. Ledgered' /\ Counted' /\ Stacked'
      BY <1>1, <1>2, <1>5 DEF IInv, Typed, Ledgered, Counted, limits, Stacked, CallsAreGood
    <2> QED
      BY <1>3, <2>1, <2>2 DEF IInv, Typed
  <1> QED
    BY <1>4, <1>5 DEF Wake
-----------------------------------------------------------------------------
\* The invariant holds at first, and every step keeps it.
LEMMA Initially == Init => IInv
  <1> SUFFICES ASSUME Init PROVE IInv
    OBVIOUS
  <1> USE DEF Init
  <1>1. Ledgered
    BY DEF Ledgered, EmptyView, View, BallState, Holder
  <1>2. Connected /\ Stacked
    BY DEF Connected, Stacked, CallsAreGood
  <1>3. Counted
    BY NoListType DEF Counted
  <1>4. ASSUME NEW c \in Chain PROVE Budget(c)
    <2>1. /\ worklist[c].live = FALSE /\ worklist[c].depth = 0
          /\ runs[c] = 0 /\ asked[c] = 0 /\ stack[c] = <<>>
      BY NoListType
    <2>2. MaxDepth \in Nat
      BY DepthType
    <2> QED
      BY <2>1, <2>2 DEF Budget, Ceiling, Within
  <1> QED
    BY <1>1, <1>2, <1>3, <1>4 DEF IInv, Typed

LEMMA ProceedKeeps == ASSUME IInv, NEW c \in Chain, Proceed(c) PROVE IInv'
  <1>1. CASE Acquire(c) \/ EnterFails(c) \/ Enter(c)
    BY <1>1, AcquireKeeps, EnterFailsKeeps, EnterKeeps
  <1>2. CASE Hand(c) \/ Start(c) \/ Execute(c) \/ ExecuteFails(c)
    BY <1>2, HandKeeps, StartKeeps, ExecuteKeeps, ExecuteFailsKeeps
  <1>3. CASE Held(c) \/ Park(c) \/ \E m \in Mentions : Distinct(m) /\ Finish(c, m)
    BY <1>3, HeldKeeps, ParkKeeps, FinishKeeps
  <1>4. CASE MentionsEnd(c) \/ MentionIdle(c) \/ Dispatch(c)
    BY <1>4, EndKeeps, MentionIdleKeeps, DispatchKeeps
  <1>5. CASE \E s \in BOOLEAN : Push(c, s) \/ PushRefused(c, s)
    BY <1>5, PushKeeps, PushRefusedKeeps
  <1>6. CASE ReviewCloses(c) \/ GateCloses(c) \/ GateOpens(c)
    BY <1>6, GateClosesKeeps, GateOpensKeeps
  <1>7. CASE Pipe(c) \/ PipeEnds(c) \/ Bark(c) \/ ParallelEnds(c)
    BY <1>7, PipeKeeps, EndKeeps, BarkKeeps
  <1> QED
    BY <1>1, <1>2, <1>3, <1>4, <1>5, <1>6, <1>7 DEF Proceed

LEMMA StutterKeeps == ASSUME IInv, UNCHANGED vars PROVE IInv'
  BY LedgerKeeps, Unrecorded DEF vars, custodyVars

LEMMA Inductive == IInv /\ [Next]_vars => IInv'
  <1> SUFFICES ASSUME IInv, [Next]_vars PROVE IInv'
    OBVIOUS
  <1>1. CASE \E c \in Chain : Proceed(c)
    BY <1>1, ProceedKeeps
  <1>2. CASE \E c \in Chain : \E i \in 1..Len(stack[c]) : Heartbeat(c, i)
    BY <1>2, HeartbeatKeeps
  <1>3. CASE \E c \in Chain : \E k \in Conn, m \in Messages : UserInput(k, c, m)
    BY <1>3, UserInputKeeps
  <1>4. CASE \E c \in Chain : Wake(c)
    BY <1>4, WakeKeeps
  <1>5. CASE (\E k \in Conn : Unrouted(k)) \/ Disconnect
    BY <1>5, ConnectionKeeps DEF Unrouted, Disconnect
  <1>6. CASE Sweep
    BY <1>6, SweepKeeps
  <1>7. CASE UNCHANGED vars
    BY <1>7, StutterKeeps
  <1> QED
    BY <1>1, <1>2, <1>3, <1>4, <1>5, <1>6, <1>7 DEF Next

\* The invariant holds, whatever the chains, the sweep and the connections do.
THEOREM Invariance == Spec => []IInv
  BY Initially, Inductive, PTL DEF Spec

LEMMA TypedIsTypeOK == IInv => TypeOK
  <1>1. ASSUME CallsAreGood PROVE stack \in [Chain -> Seq(CallSet)]
    <2>1. Seq(GoodCall) \subseteq Seq(CallSet)
      BY SeqMonotonic DEF GoodCall
    <2> QED
      BY <1>1, <2>1 DEF CallsAreGood
  <1> QED
    BY <1>1 DEF IInv, Typed, Ledgered, Connected, Counted, Stacked, TypeOK

\* Type correctness: the calls under the current one wait in one of the two loops.
THEOREM TypeCorrect == Spec => []TypeOK
  BY Invariance, TypedIsTypeOK, PTL

\* Whatever the dogs answer, a message to one dog, or a resumed hold, runs dogs at most once
\* more often than the configured depth, and a pipeline of any length none that it was not
\* asked for (execution.go:179-624, 669-699).
THEOREM Budgeted == Spec => []RunsAreBudgeted
  <1>1. IInv => RunsAreBudgeted
    BY DEF IInv, Budget, Within, RunsAreBudgeted
  <1> QED
    BY <1>1, Invariance, PTL
-----------------------------------------------------------------------------
\* BreakerStops, of a thread that has one chain.  Stopped says what the ledger looks like
\* once a chain has been stopped: the ball is with a dog that is not the latest run, so
\* the guard refuses every dog, and no heartbeat is heard, for the ball is not active.
Stopped ==
  /\ view.state \in {"blocked", "parked", "void"}
  /\ view.started # None /\ view.holder \notin {None, view.started}

Begun == Beating \cup {"exec"}   \* points of a run after its start is recorded

Alone(c) ==
  /\ \A i \in 1..Len(stack[c]) : stack[c][i].pc \in Begun => view.started # None
  /\ stack[c] # <<>> /\ Top(c).pc = "push" => view.started = Top(c).breed
  /\ c \in tripped => /\ status[c] \in {"live", "over"}
                      /\ \A i \in 1..Len(stack[c]) : stack[c][i].pc = "mentions"
                      /\ stack[c] # <<>> => Stopped

\* The dog of the latest start changes only with a start.
LEMMA StartedStays ==
  ASSUME NEW e, Record(e), e.type # "invocation.started" PROVE view'.started = view.started
  BY DEF Record, Observe

\* The fields of the two forms of event.
LEMMA ByType == ASSUME NEW t, NEW b PROVE By(t, b).type = t /\ By(t, b).holder = b /\ By(t, b).to = None
  BY DEF By
LEMMA HandToType == ASSUME NEW t, NEW b PROVE HandTo(t, b).type = t /\ HandTo(t, b).holder = b
  BY DEF HandTo

\* Of the steps of a chain only Start records a start.
LEMMA OnlyStartStarts ==
  ASSUME NEW c \in Chain, Proceed(c), ~Start(c) PROVE view'.started = view.started
  <1>1. CASE UNCHANGED view
    BY <1>1
  <1>2. ASSUME NEW t, NEW b, Record(By(t, b)), t # "invocation.started" PROVE view'.started = view.started
    BY <1>2, ByType, StartedStays
  <1>3. ASSUME NEW t, NEW b, Record(HandTo(t, b)), t # "invocation.started" PROVE view'.started = view.started
    BY <1>3, HandToType, StartedStays
  <1>4. CASE Acquire(c) \/ EnterFails(c) \/ Enter(c) \/ Execute(c)
    BY <1>1, <1>4 DEF Acquire, EnterFails, Enter, Execute, custodyVars
  <1>5. CASE Hand(c) \/ ExecuteFails(c) \/ Held(c)
    BY <1>2, <1>3, <1>5 DEF Hand, ExecuteFails, Held
  <1>6. CASE Park(c) \/ \E m \in Mentions : Finish(c, m)
    BY <1>1, <1>2, <1>6 DEF Park, Finish, custodyVars
  <1>7. CASE MentionsEnd(c) \/ MentionIdle(c) \/ Dispatch(c)
    BY <1>1, <1>2, <1>3, <1>7 DEF MentionsEnd, MentionIdle, Dispatch, custodyVars
  <1>8. CASE \E s \in BOOLEAN : Push(c, s) \/ PushRefused(c, s)
    BY <1>1, <1>2, <1>8 DEF Push, PushRefused
  <1>9. CASE ReviewCloses(c) \/ GateCloses(c) \/ GateOpens(c)
    BY <1>1, <1>9 DEF ReviewCloses, GateCloses, GateOpens, custodyVars
  <1>10. CASE Pipe(c) \/ PipeEnds(c) \/ Bark(c) \/ ParallelEnds(c)
    BY <1>1, <1>3, <1>10 DEF Pipe, PipeEnds, Bark, ParallelEnds, custodyVars
  <1> QED
    BY <1>4, <1>5, <1>6, <1>7, <1>8, <1>9, <1>10 DEF Proceed
-----------------------------------------------------------------------------
\* A chain that has not been stopped moves on.
LEMMA GotoAlone ==
  ASSUME IInv, NEW c \in Chain, Alone(c), c \notin tripped', status[c] = "live",
         NEW f \in GoodCall, Goto(c, f),
         f.pc = "push" => view'.started = f.breed,
         f.pc \in Begun => view'.started # None,
         view'.started = view.started \/ view'.started # None
  PROVE  Alone(c)'
  <1> DEFINE n == Len(stack[c])
  <1>1. stack[c] # <<>> /\ n \in Nat
    BY LiveStack, TopType DEF IInv, Typed
  <1>2. /\ Len(stack'[c]) = n /\ Top(c)' = f /\ stack'[c][n] = f
        /\ \A i \in 1..n - 1 : stack'[c][i] = stack[c][i]
    BY <1>1, GotoStack DEF IInv, Typed
  <1>3. \A i \in 1..n : stack[c][i].pc \in Begun => view.started # None
    BY DEF Alone
  <1> HIDE DEF n
  <1>4. \A i \in 1..n : stack'[c][i].pc \in Begun => view'.started # None
    <2>1. TAKE i \in 1..n
    <2>2. CASE i = n
      BY <2>2, <1>2
    <2>3. CASE i # n
      BY <2>3, <1>1, <1>2, <1>3
    <2> QED
      BY <2>2, <2>3
  <1> QED
    BY <1>2, <1>4 DEF Alone

\* So does one that makes a call.
LEMMA CallAlone ==
  ASSUME IInv, NEW c \in Chain, Alone(c), c \notin tripped', status[c] = "live", view'.started = view.started,
         NEW f \in GoodCall, NEW g \in GoodCall, Call(c, f, g), g.pc = "enter",
         f.pc \in Begun => view.started # None
  PROVE  Alone(c)'
  <1> DEFINE n == Len(stack[c])
  <1>1. stack[c] # <<>> /\ n \in Nat
    BY LiveStack, TopType DEF IInv, Typed
  <1>2. /\ Len(stack'[c]) = n + 1 /\ Top(c)' = g /\ stack'[c][n] = f /\ stack'[c][n + 1] = g
        /\ \A i \in 1..n - 1 : stack'[c][i] = stack[c][i]
    BY <1>1, CallStack DEF IInv, Typed
  <1>3. \A i \in 1..n : stack[c][i].pc \in Begun => view.started # None
    BY DEF Alone
  <1>4. "enter" \notin Begun
    BY DEF Begun, Beating
  <1> HIDE DEF n
  <1>5. \A i \in 1..n + 1 : stack'[c][i].pc \in Begun => view'.started # None
    <2>1. TAKE i \in 1..n + 1
    <2>2. CASE i = n + 1
      BY <2>2, <1>2, <1>4
    <2>3. CASE i = n
      BY <2>3, <1>2
    <2>4. CASE i \in 1..n - 1
      BY <2>4, <1>1, <1>2, <1>3
    <2> QED
      BY <2>2, <2>3, <2>4, <1>1
  <1> QED
    BY <1>2, <1>5 DEF Alone

\* A call returns to one that follows its mentions, and a stopped chain without a trace.
LEMMA ReturnAlone ==
  ASSUME IInv, NEW c \in Chain, Alone(c), tripped' = tripped, status[c] = "live", Return(c),
         view'.started = view.started, c \in tripped => view' = view
  PROVE  Alone(c)'
  <1> DEFINE n == Len(stack[c])
  <1>1. stack[c] # <<>> /\ n \in Nat
    BY LiveStack, TopType DEF IInv, Typed
  <1>2. /\ Len(stack'[c]) = n - 1 /\ \A i \in 1..n - 1 : stack'[c][i] = stack[c][i]
        /\ (n = 1 <=> stack'[c] = <<>>) /\ status'[c] \in {"live", "over"}
    BY <1>1, ReturnStack, ReturnStacked DEF IInv, Typed
  <1>3. \A i \in 1..n : stack[c][i].pc \in Begun => view.started # None
    BY DEF Alone
  <1>4. \A i \in 1..n - 1 : stack[c][i].pc \in {"mentions", "serial"}
    BY DEF IInv, Typed, Stacked
  <1>5. c \in tripped => Stopped /\ \A i \in 1..n : stack[c][i].pc = "mentions"
    BY <1>1 DEF Alone
  <1> HIDE DEF n
  <1>6. \A i \in 1..n - 1 : i \in 1..n /\ stack'[c][i] = stack[c][i]
    BY <1>1, <1>2
  <1>7. \A i \in 1..n - 1 : stack'[c][i].pc \in Begun => view'.started # None
    BY <1>3, <1>6
  <1>8. ASSUME stack'[c] # <<>> PROVE Top(c)'.pc # "push"
    <2>1. n - 1 \in 1..n - 1 /\ Top(c)' = stack'[c][n - 1]
      <3>1. n # 1 /\ n # 0 /\ Len(stack'[c]) = n - 1
        BY <1>1, <1>2, <1>8 DEF n
      <3> QED
        BY <3>1, <1>1 DEF Top
    <2> QED
      BY <2>1, <1>4, <1>6
  <1>9. c \in tripped => Stopped' /\ \A i \in 1..n - 1 : stack'[c][i].pc = "mentions"
    BY <1>5, <1>6 DEF Stopped
  <1> QED
    BY <1>2, <1>7, <1>8, <1>9 DEF Alone
-----------------------------------------------------------------------------
\* A chain with work other than its mentions has not been stopped.
LEMMA NotStopped ==
  ASSUME IInv, NEW c \in Chain, Alone(c), status[c] = "live", Top(c).pc # "mentions" PROVE c \notin tripped
  <1>1. stack[c] # <<>>
    BY LiveStack DEF IInv, Typed
  <1>2. Top(c) = stack[c][Len(stack[c])] /\ Len(stack[c]) \in 1..Len(stack[c])
    BY <1>1, TopType DEF IInv, Typed
  <1> QED
    BY <1>2 DEF Alone

\* A call that has begun follows a start.
LEMMA BegunStarted ==
  ASSUME IInv, NEW c \in Chain, Alone(c), status[c] = "live", Top(c).pc \in Begun PROVE view.started # None
  <1>1. stack[c] # <<>>
    BY LiveStack DEF IInv, Typed
  <1>2. Top(c) = stack[c][Len(stack[c])] /\ Len(stack[c]) \in 1..Len(stack[c])
    BY <1>1, TopType DEF IInv, Typed
  <1> QED
    BY <1>2 DEF Alone

\* The steps of a run up to its answer.
LEMMA RunAlone ==
  ASSUME IInv, NEW c \in Chain, Alone(c), Enter(c) \/ Hand(c) \/ Start(c) \/ Execute(c) \/ Held(c) PROVE Alone(c)'
  <1>1. PICK p \in {"enter", "hand", "start", "exec", "run"} : At(c, p)
    BY DEF Enter, Hand, Start, Execute, Held
  <1>2. PICK q \in {"hand", "start", "exec", "run", "held"} :
          /\ Step(c, q) /\ tripped' = tripped /\ (q \in Begun => p \in Begun \cup {"start"})
          /\ p = "start" => Start(c)
    <2>1. CASE Enter(c)
      BY <2>1, <1>1 DEF Enter, At, limits, Begun, Beating
    <2>2. CASE Hand(c)
      BY <2>2, <1>1 DEF Hand, At, limits, Begun, Beating
    <2>3. CASE Start(c)
      BY <2>3, <1>1 DEF Start, At, limits, Begun, Beating
    <2>4. CASE Execute(c)
      BY <2>4, <1>1 DEF Execute, At, limits, Begun, Beating
    <2>5. CASE Held(c)
      BY <2>5, <1>1 DEF Held, At, limits, Begun, Beating
    <2> QED
      BY <2>1, <2>2, <2>3, <2>4, <2>5
  <1>3. p \notin Loops /\ q \in PC \ Loops /\ q \notin {"push", "gate"} /\ p # "mentions"
    BY DEF Loops, PC, Beating
  <1>4. /\ status[c] = "live" /\ Top(c).pc = p /\ Top(c).breed \in Breed /\ Top(c).todo \in Seq(Holder)
    BY <1>1, <1>3, TopOfDog
  <1> DEFINE f == Frame(Top(c).breed, q, Top(c).todo)
  <1>5. f \in GoodCall /\ f.pc = q /\ Goto(c, f)
    BY <1>2, <1>3, <1>4, GoodFrame, FrameType DEF Step
  <1>6. c \notin tripped'
    BY <1>2, <1>3, <1>4, NotStopped
  <1>7. CASE Start(c)
    <2>1. view'.started = Top(c).breed
      BY <1>7 DEF Start, Record, Observe, By
    <2>2. view'.started # None
      BY <2>1, <1>4, NoneIsNoBreed
    <2> HIDE DEF f
    <2> QED
      BY <2>2, <1>3, <1>4, <1>5, <1>6, GotoAlone
  <1>8. CASE ~Start(c)
    <2>1. view'.started = view.started
      BY <1>8, OnlyStartStarts DEF Proceed
    <2>2. f.pc \in Begun => view'.started # None
      BY <2>1, <1>2, <1>4, <1>5, <1>8, BegunStarted
    <2> HIDE DEF f
    <2> QED
      BY <2>1, <2>2, <1>3, <1>4, <1>5, <1>6, GotoAlone
  <1> QED
    BY <1>7, <1>8

\* The answer, the gates and the two loops.
LEMMA FinishAlone ==
  ASSUME IInv, NEW c \in Chain, Alone(c), NEW m \in Mentions, Distinct(m), Finish(c, m) PROVE Alone(c)'
  <1> DEFINE t == IF Len(stack[c]) > 1 /\ stack[c][1].pc = "serial" THEN <<>> ELSE m
             f == Frame(Top(c).breed, "mentions", t)
  <1>1. At(c, "run") /\ "run" \notin Loops /\ "mentions" \in PC \ Loops /\ "run" \in Begun /\ tripped' = tripped
    BY DEF Finish, Loops, PC, Begun, Beating, limits
  <1>2. status[c] = "live" /\ Top(c).pc = "run" /\ Top(c).breed \in Breed
    BY <1>1, TopOfDog
  <1>3. t \in Seq(Holder) /\ Goto(c, f)
    BY MentionsType DEF Finish
  <1>4. c \notin tripped'
    BY <1>1, <1>2, NotStopped
  <1>5. view'.started = view.started /\ view.started # None
    <2>1. ~Start(c)
      BY <1>2 DEF Start, At
    <2> QED
      BY <2>1, <1>1, <1>2, OnlyStartStarts, BegunStarted DEF Proceed
  <1> HIDE DEF t
  <1>6. f \in GoodCall /\ f.pc = "mentions"
    BY <1>1, <1>2, <1>3, GoodFrame, FrameType
  <1> HIDE DEF f
  <1> QED
    BY <1>2, <1>3, <1>4, <1>5, <1>6, GotoAlone

LEMMA GateAlone ==
  ASSUME IInv, NEW c \in Chain, Alone(c), ReviewCloses(c) \/ GateCloses(c) \/ GateOpens(c) PROVE Alone(c)'
  <1>1. At(c, "gate") /\ "gate" \in Begun /\ tripped' = tripped /\ view' = view
    BY DEF ReviewCloses, GateCloses, GateOpens, limits, custodyVars, Begun, Beating
  <1>2. /\ status[c] = "live" /\ Top(c) \in GoodCall /\ Top(c).pc = "gate" /\ Top(c).todo # <<>>
        /\ Mentioned(c) \in Breed
    BY <1>1, InHand
  <1>3. Rest(Top(c)) \in GoodCall /\ Rest(Top(c)).pc = "mentions"
    BY <1>2, GoodRest DEF Loops
  <1>4. c \notin tripped' /\ view.started # None
    BY <1>1, <1>2, NotStopped, BegunStarted
  <1>5. CASE Skip(c)
    BY <1>1, <1>2, <1>3, <1>4, <1>5, GotoAlone DEF Skip
  <1>6. CASE Call(c, Rest(Top(c)), Run(Mentioned(c)))
    <2>1. Run(Mentioned(c)) \in GoodCall /\ Run(Mentioned(c)).pc = "enter"
      BY <1>2, GoodRun, FrameType DEF Run
    <2> QED
      BY <2>1, <1>1, <1>2, <1>3, <1>4, <1>6, CallAlone
  <1> QED
    BY <1>5, <1>6 DEF ReviewCloses, GateCloses, GateOpens

LEMMA LoopAlone == ASSUME IInv, NEW c \in Chain, Alone(c), Pipe(c) \/ Bark(c) PROVE Alone(c)'
  <1>1. PICK p \in Loops : At(c, p) /\ tripped' = tripped /\ view'.started = view.started
    <2>1. Proceed(c) /\ \E p \in Loops : At(c, p) /\ tripped' = tripped
      BY DEF Proceed, Pipe, Bark, Loops, limits
    <2>2. ~Start(c)
      BY <2>1 DEF Start, At, Loops
    <2> QED
      BY <2>1, <2>2, OnlyStartStarts
  <1>2. status[c] = "live" /\ Top(c) \in GoodCall /\ Top(c).pc = p /\ p # "mentions"
    BY <1>1, LoopTop DEF Loops
  <1>3. c \notin tripped'
    BY <1>1, <1>2, NotStopped
  <1>4. "serial" \notin Begun /\ "parallel" \notin Begun /\ Loops = {"serial", "parallel"}
    BY DEF Begun, Beating, Loops
  <1>5. CASE Pipe(c)
    <2> DEFINE t == Top(c).todo  f == Frame(Mentioned(c), "serial", Tail(t))  g == Run(Mentioned(c))
    <2>1. Call(c, f, g) /\ Top(c).pc = "serial" /\ t # <<>>
      BY <1>5 DEF Pipe, At
    <2>2. t \in Seq(Breed)
      BY <1>2, <2>1 DEF GoodCall
    <2> HIDE DEF t
    <2>3. Head(t) \in Breed /\ Tail(t) \in Seq(Breed)
      BY <2>1, <2>2, HeadTailProperties
    <2>4. Mentioned(c) \in Breed /\ Mentioned(c) \in Holder
      BY <2>3 DEF Mentioned, Holder, t
    <2>5. f \in GoodCall
      BY <2>3, <2>4, <1>4, GoodLoop
    <2>6. f.pc = "serial" /\ g \in GoodCall /\ g.pc = "enter"
      BY <2>4, GoodRun DEF Frame, Run
    <2> HIDE DEF f, g
    <2> QED
      BY <2>1, <2>5, <2>6, <1>1, <1>2, <1>3, <1>4, CallAlone
  <1>6. CASE Bark(c)
    <2>1. PICK i \in 1..Len(Top(c).todo) : Goto(c, Frame(Top(c).breed, "parallel", RemoveAt(Top(c).todo, i)))
      BY <1>6 DEF Bark
    <2> DEFINE t == RemoveAt(Top(c).todo, i)  f == Frame(Top(c).breed, "parallel", t)
    <2>2. Top(c).breed \in Holder /\ Top(c).todo \in Seq(Holder)
      BY <1>2 DEF GoodCall, CallSet
    <2>3. t \in Seq(Holder)
      BY <2>2, RemoveType
    <2>4. Goto(c, f)
      BY <2>1
    <2> HIDE DEF t
    <2>5. f \in GoodCall /\ f.pc = "parallel"
      BY <2>2, <2>3, FrameType DEF GoodCall, CallSet, Frame, Loops, PC
    <2> HIDE DEF f
    <2> QED
      BY <2>4, <2>5, <1>1, <1>2, <1>3, <1>4, GotoAlone
  <1> QED
    BY <1>5, <1>6

LEMMA ReturnsAlone ==
  ASSUME IInv, NEW c \in Chain, Alone(c),
         EnterFails(c) \/ ExecuteFails(c) \/ Park(c) \/ MentionsEnd(c) \/ PipeEnds(c) \/ ParallelEnds(c)
  PROVE  Alone(c)'
  <1>1. /\ Return(c) /\ tripped' = tripped /\ status[c] = "live"
        /\ MentionsEnd(c) \/ Top(c).pc \in {"enter", "exec", "held", "serial", "parallel"}
    BY DEF EnterFails, ExecuteFails, Park, MentionsEnd, PipeEnds, ParallelEnds, ReturnAndRelease, At, limits
  <1>2. view'.started = view.started
    <2>1. ~Start(c)
      BY <1>1 DEF Start, MentionsEnd, At
    <2> QED
      BY <2>1, OnlyStartStarts DEF Proceed
  <1>3. c \in tripped => view' = view
    <2>1. CASE MentionsEnd(c)
      BY <2>1 DEF MentionsEnd, custodyVars
    <2>2. CASE Top(c).pc \in {"enter", "exec", "held", "serial", "parallel"}
      BY <2>2, <1>1, NotStopped
    <2> QED
      BY <1>1, <2>1, <2>2
  <1> QED
    BY <1>1, <1>2, <1>3, ReturnAlone
-----------------------------------------------------------------------------
\* What a stopped chain still writes, and its heartbeats, leave it stopped.
LEMMA StoppedStays ==
  ASSUME Stopped, NEW h, NEW t \in {"ball.disposition_rejected", "invocation.heartbeat", "ball.void_pass"},
         Record(By(t, h))
  PROVE  Stopped'
  <1>1. t \notin Activating \cup Parking \cup Blocking \cup Killing /\ t # "invocation.started"
    BY DEF Activating, Handoff, Parking, Blocking, Killing
  <1>2. StateAfter(view.state, t) \in {view.state, "void"}
    BY <1>1 DEF StateAfter
  <1>3. ~Speaks(view.state, t)
    BY DEF Speaks, Mute, AuditOnly, Stopped
  <1>4. HolderAfter(view.state, view.holder, By(t, h)) = view.holder
    BY <1>3, ByType DEF HolderAfter
  <1>5. view'.state = StateAfter(view.state, t) /\ view'.holder = view.holder /\ view'.started = view.started
    BY <1>1, <1>4, ByType DEF Record, Observe
  <1> QED
    BY <1>2, <1>5 DEF Stopped

\* The ball goes to a dog that does not run.
LEMMA Stops ==
  ASSUME NEW h \in Breed, view.started # None, h # view.started,
         NEW t \in {"task.blocked", "ball.handed_cvo"}, Record(By(t, h))
  PROVE  Stopped'
  <1>1. Speaks(view.state, t) /\ t # "invocation.started" /\ h # None
    BY NoneIsNoBreed DEF Speaks, Mute, AuditOnly
  <1>2. StateAfter(view.state, t) \in {"blocked", "parked"}
    BY DEF StateAfter, Activating, Handoff, Parking, Blocking
  <1>3. HolderAfter(view.state, view.holder, By(t, h)) = h
    BY <1>1, ByType DEF HolderAfter
  <1>4. view'.state = StateAfter(view.state, t) /\ view'.holder = h /\ view'.started = view.started
    BY <1>1, <1>3, ByType DEF Record, Observe
  <1> QED
    BY <1>1, <1>2, <1>4 DEF Stopped

\* In a stopped chain every call follows its mentions.
LEMMA SkipStopped ==
  ASSUME IInv, NEW c \in Chain, status[c] = "live", status' = status, Skip(c),
         Top(c).pc \notin Loops, Top(c).todo # <<>>,
         \A i \in 1..Len(stack[c]) - 1 : stack[c][i].pc = "mentions", Stopped'
  PROVE  Alone(c)'
  <1> DEFINE n == Len(stack[c])  f == Rest(Top(c))
  <1>1. stack[c] # <<>> /\ n \in Nat /\ Top(c) \in GoodCall
    BY LiveStack, TopType DEF IInv, Typed
  <1>2. f \in GoodCall /\ f.pc = "mentions" /\ Goto(c, f)
    BY <1>1, GoodRest DEF Skip
  <1> HIDE DEF f
  <1>3. /\ Len(stack'[c]) = n /\ Top(c)' = f /\ stack'[c][n] = f
        /\ \A i \in 1..n - 1 : stack'[c][i] = stack[c][i]
    BY <1>1, <1>2, GotoStack DEF IInv, Typed
  <1>4. \A i \in 1..n - 1 : stack[c][i].pc = "mentions"
    OBVIOUS
  <1> HIDE DEF n
  <1>5. \A i \in 1..n : stack'[c][i].pc = "mentions"
    <2>1. TAKE i \in 1..n
    <2>2. CASE i = n
      BY <2>2, <1>2, <1>3
    <2>3. CASE i # n
      BY <2>3, <1>1, <1>3, <1>4
    <2> QED
      BY <2>2, <2>3
  <1>6. Top(c)'.pc # "push" /\ view'.started # None
    BY <1>2, <1>3 DEF Stopped
  <1> QED
    BY <1>3, <1>5, <1>6 DEF Alone

\* Of a stopped chain.
LEMMA AllMentions ==
  ASSUME IInv, NEW c \in Chain, Alone(c), c \in tripped, status[c] = "live"
  PROVE  Stopped /\ \A i \in 1..Len(stack[c]) - 1 : stack[c][i].pc = "mentions"
  <1>1. stack[c] # <<>> /\ Len(stack[c]) \in Nat
    BY LiveStack, TopType DEF IInv, Typed
  <1>2. \A i \in 1..Len(stack[c]) - 1 : i \in 1..Len(stack[c])
    <2> DEFINE n == Len(stack[c])
    <2>1. n \in Nat
      BY <1>1
    <2> HIDE DEF n
    <2>2. \A i \in 1..n - 1 : i \in 1..n
      BY <2>1
    <2> QED
      BY <2>2 DEF n
  <1> QED
    BY <1>1, <1>2 DEF Alone

\* The mentions, of a chain that is stopped or not.  The guard refuses a stopped one.
LEMMA MentionIdleAlone == ASSUME IInv, NEW c \in Chain, Alone(c), MentionIdle(c) PROVE Alone(c)'
  <1>1. /\ At(c, "mentions") /\ "mentions" \notin Loops /\ Top(c).todo # <<>> /\ Skip(c) /\ tripped' = tripped
        /\ status' = status /\ "mentions" \in Begun
        /\ UNCHANGED view \/ Record(By("ball.void_pass", None))
    BY DEF MentionIdle, Loops, limits, Begun, Beating
  <1>2. status[c] = "live" /\ Top(c) \in GoodCall /\ Top(c).pc = "mentions"
    BY <1>1, TopOfDog
  <1>3. CASE c \in tripped
    <2>1. Stopped /\ \A i \in 1..Len(stack[c]) - 1 : stack[c][i].pc = "mentions"
      BY <1>2, <1>3, AllMentions
    <2>2. Stopped'
      BY <2>1, <1>1, StoppedStays DEF Stopped
    <2> QED
      BY <2>1, <2>2, <1>1, <1>2, SkipStopped
  <1>4. CASE c \notin tripped
    <2>1. Rest(Top(c)) \in GoodCall /\ Rest(Top(c)).pc = "mentions"
      BY <1>1, <1>2, GoodRest
    <2>2. view'.started = view.started /\ view.started # None
      BY <1>1, <1>2, BegunStarted, ByType, StartedStays
    <2> QED
      BY <2>1, <2>2, <1>1, <1>2, <1>4, GotoAlone DEF Skip
  <1> QED
    BY <1>3, <1>4

LEMMA DispatchAlone == ASSUME IInv, NEW c \in Chain, Alone(c), Dispatch(c) PROVE Alone(c)'
  <1>1. /\ At(c, "mentions") /\ "mentions" \notin Loops /\ "mentions" \in Begun
        /\ Top(c).todo # <<>> /\ Mentioned(c) \notin {Top(c).breed, None}
        /\ tripped' = tripped /\ status' = status
    BY DEF Dispatch, MentionsDog, Loops, Begun, Beating, limits
  <1>2. /\ status[c] = "live" /\ Top(c) \in GoodCall /\ Top(c).pc = "mentions" /\ Top(c).breed \in Breed
        /\ Top(c).todo \in Seq(Holder) /\ view.started # None
    BY <1>1, TopOfDog, BegunStarted
  <1>3. Rest(Top(c)) \in GoodCall /\ Rest(Top(c)).pc = "mentions"
    BY <1>1, <1>2, GoodRest
  <1>4. CASE /\ DispatchGuard(view, Top(c).breed)
             /\ Record(HandTo("dispatch_dispositioned", Mentioned(c))) /\ Step(c, "push")
    <2>1. view.started = Top(c).breed /\ view.holder = Top(c).breed
      BY <1>2, <1>4 DEF DispatchGuard, LatestInvocation, CurrentHolder
    <2>2. c \notin tripped
      BY <2>1, <1>2, AllMentions DEF Stopped
    <2>3. view'.started = view.started
      BY <1>4, HandToType, StartedStays
    <2> DEFINE f == Frame(Top(c).breed, "push", Top(c).todo)
    <2>4. "push" \in PC \ Loops /\ Head(Top(c).todo) \notin {Top(c).breed, None}
      BY <1>1 DEF PC, Beating, Loops, Mentioned
    <2>5. f \in GoodCall
      BY <2>4, <1>1, <1>2, GoodFrame
    <2>6. f.breed = Top(c).breed /\ Goto(c, f)
      BY <1>4, FrameType DEF Step
    <2> HIDE DEF f
    <2> QED
      BY <2>1, <2>2, <2>3, <2>5, <2>6, <1>1, <1>2, GotoAlone
  <1>5. CASE Record(By("ball.disposition_rejected", Top(c).breed)) /\ Skip(c)
    <2>1. CASE c \in tripped
      <3>1. Stopped /\ \A i \in 1..Len(stack[c]) - 1 : stack[c][i].pc = "mentions"
        BY <1>2, <2>1, AllMentions
      <3>2. Stopped'
        BY <3>1, <1>5, StoppedStays
      <3> QED
        BY <3>1, <3>2, <1>1, <1>2, <1>5, SkipStopped
    <2>2. CASE c \notin tripped
      <3>1. view'.started = view.started
        BY <1>5, ByType, StartedStays
      <3> QED
        BY <3>1, <2>2, <1>1, <1>2, <1>3, <1>5, GotoAlone DEF Skip
    <2> QED
      BY <2>1, <2>2
  <1> QED
    BY <1>4, <1>5 DEF Dispatch

\* A handoff is accepted, or stops the chain.
LEMMA PushAlone ==
  ASSUME IInv, NEW c \in Chain, Alone(c), NEW s \in BOOLEAN, Push(c, s) \/ PushRefused(c, s) PROVE Alone(c)'
  <1>1. At(c, "push") /\ status' = status /\ "push" \in Begun /\ "push" \notin Loops
    BY DEF Push, PushRefused, Begun, Beating, Loops
  <1>2. /\ status[c] = "live" /\ Top(c) \in GoodCall /\ Top(c).pc = "push" /\ Top(c).breed \in Breed
        /\ Top(c).todo \in Seq(Holder) /\ Top(c).todo # <<>> /\ Mentioned(c) \in Breed
        /\ Mentioned(c) # Top(c).breed /\ Relay(c)
    BY <1>1, InHand
  <1>3. stack[c] # <<>>
    BY <1>2, LiveStack DEF IInv, Typed
  <1>4. view.started = Top(c).breed /\ view.started # None /\ c \notin tripped
    BY <1>1, <1>2, <1>3, BegunStarted, NotStopped DEF Alone
  <1>5. \A i \in 1..Len(stack[c]) - 1 : stack[c][i].pc = "mentions"
    <2> DEFINE n == Len(stack[c])
    <2>1. n \in Nat /\ (\A i \in 1..n - 1 : stack[c][i].pc \in {"mentions", "serial"})
          /\ \A i \in 1..n : stack[c][i].pc \notin Loops
      BY <1>2, <1>3, TopType DEF IInv, Typed, Stacked, Relay
    <2> HIDE DEF n
    <2>2. \A i \in 1..n - 1 : i \in 1..n
      BY <2>1
    <2>3. \A i \in 1..n - 1 : stack[c][i].pc = "mentions"
      BY <2>1, <2>2 DEF Loops
    <2> QED
      BY <2>3 DEF n
  <1>6. CASE \E t \in {"task.blocked", "ball.handed_cvo"} : Record(By(t, Mentioned(c))) /\ Skip(c)
    <2>1. Stopped'
      BY <1>2, <1>4, <1>6, Stops
    <2> QED
      BY <2>1, <1>1, <1>2, <1>5, <1>6, SkipStopped
  <1>7. CASE Step(c, "gate") /\ UNCHANGED <<view, tripped>>
    <2> DEFINE f == Frame(Top(c).breed, "gate", Top(c).todo)
    <2>1. "gate" \in PC \ Loops /\ Head(Top(c).todo) \notin {Top(c).breed, None}
      BY <1>2 DEF PC, Beating, Loops, GoodCall
    <2>2. f \in GoodCall
      BY <2>1, <1>2, GoodFrame
    <2>3. f.pc = "gate" /\ Goto(c, f)
      BY <1>7, FrameType DEF Step
    <2> HIDE DEF f
    <2> QED
      BY <2>2, <2>3, <1>2, <1>4, <1>7, GotoAlone
  <1> QED
    BY <1>6, <1>7 DEF Push, PushRefused

\* Steps that leave the stack and the breaker as they are.
LEMMA StillAlone ==
  ASSUME NEW c \in Chain, Alone(c), stack'[c] = stack[c], tripped' = tripped,
         status'[c] \in {status[c], "live"}, view'.started = view.started,
         c \in tripped /\ stack[c] # <<>> => Stopped'
  PROVE  Alone(c)'
  <1>1. Top(c)' = Top(c)
    BY DEF Top
  <1> QED
    BY <1>1 DEF Alone

\* The heartbeats of a stopped chain are not heard.
LEMMA HeartbeatAlone ==
  ASSUME NEW c \in Chain, Alone(c), NEW i, Heartbeat(c, i) PROVE Alone(c)'
  <1>1. /\ Record(By("invocation.heartbeat", stack[c][i].breed))
        /\ stack' = stack /\ tripped' = tripped /\ status' = status
    BY DEF Heartbeat, chainVars, limits
  <1>2. view'.started = view.started
    BY <1>1, ByType, StartedStays
  <1>3. c \in tripped /\ stack[c] # <<>> => Stopped'
    BY <1>1, StoppedStays DEF Alone
  <1> QED
    BY <1>1, <1>2, <1>3, StillAlone

\* The sweep sees the heartbeats of a stopped chain.
LEMMA SweepAlone == ASSUME IInv, NEW c \in Chain, Alone(c), Sweep PROVE Alone(c)'
  <1>1. PICK t \in {"ball.degraded", "invocation.died"} : Record(By(t, view.started))
    BY DEF Sweep
  <1>2. stack' = stack /\ tripped' = tripped /\ status' = status
    BY DEF Sweep, chainVars, limits
  <1>3. view'.started = view.started
    BY <1>1, ByType, StartedStays
  <1>4. ~(c \in tripped /\ stack[c] # <<>>)
    <2>1. SUFFICES ASSUME c \in tripped, stack[c] # <<>> PROVE FALSE
      OBVIOUS
    <2>2. Len(stack[c]) \in 1..Len(stack[c])
      BY <2>1, TopType DEF IInv, Typed
    <2>3. stack[c][Len(stack[c])].pc = "mentions"
      BY <2>1, <2>2 DEF Alone
    <2> QED
      BY <2>2, <2>3 DEF Sweep, Beating
  <1> QED
    BY <1>2, <1>3, <1>4, StillAlone

\* A chain begins once, before it could be stopped.
LEMMA BeginsAlone ==
  ASSUME NEW c \in Chain, Alone(c), status[c] = "free", NEW f, stack'[c] = <<f>>, tripped' = tripped,
         f.pc \in {"enter", "serial", "parallel"}
  PROVE  Alone(c)'
  <1>1. c \notin tripped'
    BY DEF Alone
  <1>2. \A i \in 1..Len(stack'[c]) : stack'[c][i] = f
    OBVIOUS
  <1>3. Top(c)' = f
    BY DEF Top
  <1> QED
    BY <1>1, <1>2, <1>3 DEF Alone, Begun, Beating

\* Beginnings and all other steps.
LEMMA WakeAlone == ASSUME IInv, NEW c \in Chain, Alone(c), Wake(c) PROVE Alone(c)'
  <1>1. status[c] = "free" /\ tripped' = tripped
    BY DEF Wake, limits
  <1>2. CASE UNCHANGED <<view, status, resumed, stack>>
    BY <1>1, <1>2, StillAlone DEF Alone, Stopped
  <1>3. CASE stack' = [stack EXCEPT ![c] = <<Run(hold)>>]
    <2>1. stack'[c] = <<Run(hold)>> /\ Run(hold).pc = "enter"
      BY <1>3, FrameType DEF Run, IInv, Typed, Stacked, CallsAreGood
    <2> QED
      BY <2>1, <1>1, BeginsAlone
  <1> QED
    BY <1>2, <1>3 DEF Wake

LEMMA UserInputAlone ==
  ASSUME IInv, NEW c \in Chain, Alone(c), NEW k, NEW f \in Messages, UserInput(k, c, f) PROVE Alone(c)'
  <1>1. status[c] = "free" /\ tripped' = tripped /\ stack' = [stack EXCEPT ![c] = <<f>>]
    BY DEF UserInput, limits
  <1>2. stack'[c] = <<f>>
    BY <1>1 DEF IInv, Typed, Stacked, CallsAreGood
  <1> QED
    BY <1>1, <1>2, MessageType, BeginsAlone

LEMMA QuietAlone ==
  ASSUME IInv, NEW c \in Chain, Alone(c), Acquire(c) \/ (\E k \in Conn : Unrouted(k)) \/ Disconnect \/ UNCHANGED vars
  PROVE  Alone(c)'
  <1>1. stack' = stack /\ tripped' = tripped /\ view' = view /\ status'[c] \in {status[c], "live"}
    <2>1. CASE Acquire(c)
      BY <2>1 DEF Acquire, custodyVars, limits, IInv, Typed, Stacked
    <2>2. CASE (\E k \in Conn : Unrouted(k)) \/ Disconnect
      BY <2>2 DEF Unrouted, Disconnect, custodyVars, chainVars, limits
    <2>3. CASE UNCHANGED vars
      BY <2>3 DEF vars, custodyVars, chainVars, limits
    <2> QED
      BY <2>1, <2>2, <2>3
  <1>2. c \in tripped /\ stack[c] # <<>> => Stopped'
    BY <1>1 DEF Alone, Stopped
  <1> QED
    BY <1>1, <1>2, StillAlone

LEMMA ProceedAlone == ASSUME IInv, NEW c \in Chain, Alone(c), Proceed(c) PROVE Alone(c)'
  <1>1. CASE Acquire(c)
    BY <1>1, QuietAlone
  <1>2. CASE Enter(c) \/ Hand(c) \/ Start(c) \/ Execute(c) \/ Held(c)
    BY <1>2, RunAlone
  <1>3. CASE EnterFails(c) \/ ExecuteFails(c) \/ Park(c) \/ MentionsEnd(c) \/ PipeEnds(c) \/ ParallelEnds(c)
    BY <1>3, ReturnsAlone
  <1>4. CASE \E m \in Mentions : Distinct(m) /\ Finish(c, m)
    BY <1>4, FinishAlone
  <1>5. CASE MentionIdle(c) \/ Dispatch(c)
    BY <1>5, MentionIdleAlone, DispatchAlone
  <1>6. CASE \E s \in BOOLEAN : Push(c, s) \/ PushRefused(c, s)
    BY <1>6, PushAlone
  <1>7. CASE ReviewCloses(c) \/ GateCloses(c) \/ GateOpens(c)
    BY <1>7, GateAlone
  <1>8. CASE Pipe(c) \/ Bark(c)
    BY <1>8, LoopAlone
  <1> QED
    BY <1>1, <1>2, <1>3, <1>4, <1>5, <1>6, <1>7, <1>8 DEF Proceed

\* The thread has one chain.
OneOnly == \A c, d \in Chain : c = d

LEMMA NextAlone ==
  ASSUME OneOnly, IInv, NEW c \in Chain, Alone(c), [Next]_vars PROVE Alone(c)'
  <1>1. CASE \E d \in Chain : Proceed(d)
    BY <1>1, ProceedAlone DEF OneOnly
  <1>2. CASE \E d \in Chain : \E i \in 1..Len(stack[d]) : Heartbeat(d, i)
    BY <1>2, HeartbeatAlone DEF OneOnly
  <1>3. CASE \E d \in Chain : \E k \in Conn, m \in Messages : UserInput(k, d, m)
    BY <1>3, UserInputAlone DEF OneOnly
  <1>4. CASE \E d \in Chain : Wake(d)
    BY <1>4, WakeAlone DEF OneOnly
  <1>5. CASE Sweep
    BY <1>5, SweepAlone
  <1>6. CASE (\E k \in Conn : Unrouted(k)) \/ Disconnect \/ UNCHANGED vars
    BY <1>6, QuietAlone
  <1> QED
    BY <1>1, <1>2, <1>3, <1>4, <1>5, <1>6 DEF Next

\* The breaker stays tripped.
LEMMA TrippedStays == ASSUME [Next]_vars, NEW c \in tripped PROVE c \in tripped'
  <1>1. ASSUME NEW d \in Chain, Proceed(d) PROVE c \in tripped'
    <2>1. CASE \E substantive \in BOOLEAN : Push(d, substantive) \/ PushRefused(d, substantive)
      BY <2>1 DEF Push, PushRefused
    <2>2. CASE \/ Acquire(d) \/ EnterFails(d) \/ Enter(d) \/ Hand(d) \/ Start(d) \/ Execute(d)
               \/ ExecuteFails(d) \/ Held(d) \/ Park(d)
      BY <2>2, Zenon DEF Acquire, EnterFails, Enter, Hand, Start, Execute, ExecuteFails, Held, Park, limits
    <2>3. CASE \/ \E m \in Mentions : Distinct(m) /\ Finish(d, m)
               \/ MentionsEnd(d) \/ MentionIdle(d) \/ Dispatch(d)
      BY <2>3, Zenon DEF Finish, MentionsEnd, MentionIdle, Dispatch, limits
    <2>4. CASE \/ ReviewCloses(d) \/ GateCloses(d) \/ GateOpens(d) \/ Pipe(d) \/ PipeEnds(d)
               \/ Bark(d) \/ ParallelEnds(d)
      BY <2>4, Zenon DEF ReviewCloses, GateCloses, GateOpens, Pipe, PipeEnds, Bark, ParallelEnds, limits
    <2> QED
      BY <1>1, <2>1, <2>2, <2>3, <2>4, Zenon DEF Proceed
  <1>2. ASSUME NEW d \in Chain, NEW i, Heartbeat(d, i) PROVE c \in tripped'
    BY <1>2 DEF Heartbeat, limits
  <1>3. ASSUME NEW d \in Chain, NEW k, NEW m, UserInput(k, d, m) PROVE c \in tripped'
    BY <1>3 DEF UserInput, limits
  <1>4. ASSUME NEW d \in Chain, Wake(d) PROVE c \in tripped'
    BY <1>4 DEF Wake, limits
  <1>5. ASSUME (\E k \in Conn : Unrouted(k)) \/ Disconnect PROVE c \in tripped'
    BY <1>5 DEF Unrouted, Disconnect, limits
  <1>6. CASE Sweep
    BY <1>6 DEF Sweep, limits
  <1>7. CASE UNCHANGED vars
    BY <1>7 DEF vars, limits
  <1> QED
    BY <1>1, <1>2, <1>3, <1>4, <1>5, <1>6, <1>7, Zenon DEF Next

AllAlone == \A c \in Chain : Alone(c)
NonePushes == \A c \in tripped : ~At(c, "push")

\* What the second invariant is for.
LEMMA StoppedIsQuiet == IInv /\ AllAlone => NonePushes
  <1> SUFFICES ASSUME IInv, AllAlone, NEW c \in tripped, status[c] = "live" PROVE Top(c).pc # "push"
    BY DEF NonePushes, At
  <1>1. c \in Chain
    BY DEF IInv, Typed, Counted
  <1>2. stack[c] # <<>> /\ Len(stack[c]) \in 1..Len(stack[c])
    BY <1>1, LiveStack, TopType DEF IInv, Typed
  <1> QED
    BY <1>1, <1>2 DEF AllAlone, Alone, Top

\* "Blocked: the chain terminates", of a thread with one chain: once the worklist or the SOP
\* has stopped it, no dog further up its call stack passes the ball on.
THEOREM StoppedForGood == ASSUME \A c, d \in Chain : c = d PROVE Spec => BreakerStops
  <1>1. OneOnly
    BY DEF OneOnly
  <1>2. Init => AllAlone
    BY DEF Init, AllAlone, Alone
  <1>3. IInv /\ AllAlone /\ [Next]_vars => AllAlone'
    BY <1>1, NextAlone DEF AllAlone
  <1>4. NonePushes' /\ [Next]_vars
          => [\A c \in Chain : c \in tripped /\ ~At(c, "push") => ~At(c, "push")']_vars
    BY TrippedStays DEF NonePushes
  <1> QED
    BY <1>2, <1>3, <1>4, StoppedIsQuiet, Invariance, PTL DEF Spec, BreakerStops
-----------------------------------------------------------------------------
\* StepsCount.  The rows of two states differ first in one place, and that place tells
\* which step it was: a slot taken, a dog of the pipeline begun, a handoff spent, a call
\* that returned, or the current call getting further.
Gate(f) == IF f.pc = "gate" THEN 1 ELSE 0
Open(f) == IF f.pc = "mentions" THEN 1 ELSE 0

LEMMA RowAt ==
  ASSUME NEW w, NEW p, NEW d, NEW h, NEW f
  PROVE  /\ Row(w, p, d, h, f)[1] = w /\ Row(w, p, d, h, f)[2] = p /\ Row(w, p, d, h, f)[3] = d
         /\ Row(w, p, d, h, f)[4] = h + Gate(f) /\ Row(w, p, d, h, f)[5] = Phase(f.pc)
         /\ Row(w, p, d, h, f)[6] = Len(f.todo) /\ Row(w, p, d, h, f)[7] = Open(f)
  BY DEF Row, Gate, Open

LEMMA FirstDifference ==
  ASSUME NEW m, NEW n, NEW i \in 1..7, m[i] < n[i], \A j \in 1..i - 1 : m[j] = n[j] PROVE Less(m, n)
  BY DEF Less

LEMMA SlotTaken ==
  ASSUME NEW w, NEW p, NEW d, NEW h, NEW f, NEW v, NEW q, NEW e, NEW k, NEW g, v < w
  PROVE  Less(Row(v, q, e, k, g), Row(w, p, d, h, f))
  <1> DEFINE m == Row(v, q, e, k, g)  n == Row(w, p, d, h, f)
  <1>1. m[1] = v /\ n[1] = w
    BY RowAt
  <1> HIDE DEF m, n
  <1>2. Less(m, n)
    BY <1>1, FirstDifference
  <1> QED
    BY <1>2 DEF m, n

LEMMA DogBegun ==
  ASSUME NEW w, NEW p, NEW d, NEW h, NEW f, NEW q, NEW e, NEW k, NEW g, q < p
  PROVE  Less(Row(w, q, e, k, g), Row(w, p, d, h, f))
  <1> DEFINE m == Row(w, q, e, k, g)  n == Row(w, p, d, h, f)
  <1>1. m[1] = n[1] /\ m[2] = q /\ n[2] = p
    BY RowAt
  <1> HIDE DEF m, n
  <1>2. Less(m, n)
    BY <1>1, FirstDifference
  <1> QED
    BY <1>2 DEF m, n

LEMMA HandoffSpent ==
  ASSUME NEW w, NEW p, NEW d, NEW h, NEW f, NEW e, NEW k, NEW g, e < d
  PROVE  Less(Row(w, p, e, k, g), Row(w, p, d, h, f))
  <1> DEFINE m == Row(w, p, e, k, g)  n == Row(w, p, d, h, f)
  <1>1. m[1] = n[1] /\ m[2] = n[2] /\ m[3] = e /\ n[3] = d
    BY RowAt
  <1> HIDE DEF m, n
  <1>2. \A j \in 1..3 - 1 : m[j] = n[j]
    BY <1>1
  <1>3. Less(m, n)
    BY <1>1, <1>2, FirstDifference
  <1> QED
    BY <1>3 DEF m, n

LEMMA CallOver ==
  ASSUME NEW w, NEW p, NEW d, NEW h, NEW f, NEW k, NEW g, k + Gate(g) < h + Gate(f)
  PROVE  Less(Row(w, p, d, k, g), Row(w, p, d, h, f))
  <1> DEFINE m == Row(w, p, d, k, g)  n == Row(w, p, d, h, f)
  <1>1. m[1] = n[1] /\ m[2] = n[2] /\ m[3] = n[3] /\ m[4] < n[4]
    BY RowAt
  <1> HIDE DEF m, n
  <1>2. \A j \in 1..4 - 1 : m[j] = n[j]
    BY <1>1
  <1>3. Less(m, n)
    BY <1>1, <1>2, FirstDifference
  <1> QED
    BY <1>3 DEF m, n

\* The current call gets further, is rid of a mention, or has put one to the ledger.
Further(g, f) ==
  \/ Phase(g.pc) < Phase(f.pc)
  \/ /\ Phase(g.pc) = Phase(f.pc)
     /\ \/ Len(g.todo) < Len(f.todo)
        \/ Len(g.todo) = Len(f.todo) /\ Open(g) < Open(f)

LEMMA CallFurther ==
  ASSUME NEW w, NEW p, NEW d, NEW h, NEW f, NEW k, NEW g, k + Gate(g) = h + Gate(f), Further(g, f)
  PROVE  Less(Row(w, p, d, k, g), Row(w, p, d, h, f))
  <1> DEFINE m == Row(w, p, d, k, g)  n == Row(w, p, d, h, f)
  <1>1. m[1] = n[1] /\ m[2] = n[2] /\ m[3] = n[3] /\ m[4] = n[4]
    BY RowAt
  <1>2. m[5] < n[5] \/ (m[5] = n[5] /\ (m[6] < n[6] \/ (m[6] = n[6] /\ m[7] < n[7])))
    BY RowAt DEF Further
  <1> HIDE DEF m, n
  <1>3. CASE m[5] < n[5]
    <2>1. \A j \in 1..5 - 1 : m[j] = n[j]
      BY <1>1
    <2> QED
      BY <1>3, <2>1, FirstDifference DEF m, n
  <1>4. CASE m[5] = n[5] /\ m[6] < n[6]
    <2>1. \A j \in 1..6 - 1 : m[j] = n[j]
      BY <1>1, <1>4
    <2> QED
      BY <1>4, <2>1, FirstDifference DEF m, n
  <1>5. CASE m[5] = n[5] /\ m[6] = n[6] /\ m[7] < n[7]
    <2>1. \A j \in 1..7 - 1 : m[j] = n[j]
      BY <1>1, <1>5
    <2> QED
      BY <1>5, <2>1, FirstDifference DEF m, n
  <1> QED
    BY <1>2, <1>3, <1>4, <1>5

\* The rows before and after a step that replaces the current call of a chain.
LEMMA GotoRow ==
  ASSUME IInv, NEW c \in Chain, status[c] = "live", NEW f \in GoodCall, Goto(c, f), status'[c] = "live",
         sopMax' = sopMax, Top(c).pc # "serial", f.pc # "serial"
  PROVE  \E p, n \in Nat :
           /\ Remaining(c) = Row(1, p, MaxDepth - worklist[c].depth, n, Top(c))
           /\ Remaining(c)' = Row(1, p, MaxDepth - worklist'[c].depth, n, f)
  <1> DEFINE n == Len(stack[c])  p == Piped(stack[c][1])
  <1>1. stack[c] # <<>> /\ n \in Nat /\ n >= 1 /\ Top(c) = stack[c][n] /\ stack[c][1] \in GoodCall
    BY LiveStack, TopType DEF IInv, Typed
  <1>2. /\ stack'[c] # <<>> /\ Len(stack'[c]) = n /\ Top(c)' = f /\ stack'[c][n] = f
        /\ \A i \in 1..n - 1 : stack'[c][i] = stack[c][i]
    BY <1>1, GotoStack DEF IInv, Typed
  <1> HIDE DEF n
  <1>3. Piped(stack'[c][1]) = p
    <2>1. CASE n = 1
      BY <2>1, <1>1, <1>2 DEF Piped
    <2>2. CASE n # 1
      <3>1. stack'[c][1] = stack[c][1]
        BY <2>2, <1>1, <1>2
      <3> QED
        BY <3>1
    <2> QED
      BY <2>1, <2>2
  <1>4. p \in Nat
    <2>1. stack[c][1].todo \in Seq(Holder)
      BY <1>1 DEF GoodCall, CallSet
    <2>2. Len(stack[c][1].todo) \in Nat
      BY <2>1, LenProperties
    <2> QED
      BY <2>2 DEF Piped
  <1> HIDE DEF p
  <1>5. MaxDepth' = MaxDepth
    BY DEF MaxDepth
  <1>6. Remaining(c) = Row(1, p, MaxDepth - worklist[c].depth, n, Top(c))
    BY <1>1 DEF Remaining, n, p
  <1>7. Remaining(c)' = Row(1, p, MaxDepth - worklist'[c].depth, n, f)
    BY <1>2, <1>3, <1>5 DEF Remaining
  <1> QED
    BY <1>1, <1>4, <1>6, <1>7

\* A step that gets the current call further, and touches neither the stack below nor the
\* worklist's depth.
LEMMA GoesFurther ==
  ASSUME IInv, NEW c \in Chain, status[c] = "live", NEW f \in GoodCall, Goto(c, f), status'[c] = "live",
         sopMax' = sopMax, Top(c).pc # "serial", f.pc # "serial",
         worklist'[c].depth = worklist[c].depth, Gate(f) = Gate(Top(c)), Further(f, Top(c))
  PROVE  Less(Remaining(c)', Remaining(c))
  <1>1. PICK p, n \in Nat :
           /\ Remaining(c) = Row(1, p, MaxDepth - worklist[c].depth, n, Top(c))
           /\ Remaining(c)' = Row(1, p, MaxDepth - worklist'[c].depth, n, f)
    BY GotoRow
  <1>2. Remaining(c)' = Row(1, p, MaxDepth - worklist[c].depth, n, f)
    BY <1>1
  <1>3. Less(Row(1, p, MaxDepth - worklist[c].depth, n, f), Row(1, p, MaxDepth - worklist[c].depth, n, Top(c)))
    BY CallFurther
  <1> QED
    BY <1>1, <1>2, <1>3

LEMMA StepFurther ==
  ASSUME IInv, NEW c \in Chain, NEW p \in PC \ Loops, At(c, p), NEW q \in PC \ Loops, Step(c, q),
         q = "push" => Top(c).todo # <<>> /\ Head(Top(c).todo) \notin {Top(c).breed, None},
         p # "gate", q # "gate", Phase(q) < Phase(p) \/ (p = "mentions" /\ q = "push"),
         worklist'[c].depth = worklist[c].depth, status' = status, sopMax' = sopMax
  PROVE  Less(Remaining(c)', Remaining(c))
  <1> DEFINE f == Frame(Top(c).breed, q, Top(c).todo)
  <1>1. /\ status[c] = "live" /\ Top(c).pc = p /\ Top(c).breed \in Breed /\ Top(c).todo \in Seq(Holder)
    BY TopOfDog
  <1>2. f \in GoodCall /\ f.pc = q /\ f.todo = Top(c).todo
    BY <1>1, GoodFrame, FrameType
  <1>3. Goto(c, f)
    BY DEF Step
  <1> HIDE DEF f
  <1>4. Gate(f) = Gate(Top(c)) /\ q # "serial" /\ p # "serial"
    BY <1>1, <1>2 DEF Gate, Loops
  <1>5. Further(f, Top(c))
    <2>1. CASE Phase(q) < Phase(p)
      BY <1>1, <1>2, <2>1 DEF Further
    <2>2. CASE p = "mentions" /\ q = "push"
      <3>1. Phase(q) = Phase(p) /\ Open(f) < Open(Top(c))
        BY <1>1, <1>2, <2>2 DEF Phase, Open
      <3> QED
        BY <1>1, <1>2, <3>1 DEF Further
    <2> QED
      BY <2>1, <2>2
  <1> QED
    BY <1>1, <1>2, <1>3, <1>4, <1>5, GoesFurther

\* A call's mention is dealt with: the gate that closes takes back the call it might have made.
LEMMA SkipFurther ==
  ASSUME IInv, NEW c \in Chain, NEW p \in {"mentions", "push", "gate"}, At(c, p), Skip(c), Top(c).todo # <<>>,
         worklist'[c].depth = worklist[c].depth, status' = status, sopMax' = sopMax
  PROVE  Less(Remaining(c)', Remaining(c))
  <1> DEFINE f == Rest(Top(c))
  <1>1. /\ status[c] = "live" /\ Top(c).pc = p /\ Top(c) \in GoodCall /\ Top(c).todo \in Seq(Holder)
        /\ p \notin Loops /\ p # "serial"
    BY TopOfDog DEF Loops
  <1>2. f \in GoodCall /\ f.pc = "mentions" /\ f.todo = Tail(Top(c).todo)
    BY <1>1, GoodRest
  <1>3. Goto(c, f)
    BY DEF Skip
  <1>4. PICK m : m = Len(Top(c).todo) /\ m \in Nat /\ Len(Tail(Top(c).todo)) = m - 1
    BY <1>1, HeadTailProperties, LenProperties
  <1> HIDE DEF f
  <1>5. CASE p # "gate"
    <2>1. Gate(f) = Gate(Top(c)) /\ Phase(f.pc) = Phase(Top(c).pc)
      BY <1>1, <1>2, <1>5 DEF Gate, Phase
    <2>2. Len(f.todo) < Len(Top(c).todo)
      BY <1>2, <1>4
    <2>3. Further(f, Top(c))
      BY <2>1, <2>2 DEF Further
    <2> QED
      BY <1>1, <1>2, <1>3, <2>1, <2>3, GoesFurther
  <1>6. CASE p = "gate"
    <2>1. PICK q, n \in Nat :
             /\ Remaining(c) = Row(1, q, MaxDepth - worklist[c].depth, n, Top(c))
             /\ Remaining(c)' = Row(1, q, MaxDepth - worklist'[c].depth, n, f)
      BY <1>1, <1>2, <1>3, GotoRow
    <2>2. Remaining(c)' = Row(1, q, MaxDepth - worklist[c].depth, n, f)
      BY <2>1
    <2>3. Gate(f) = 0 /\ Gate(Top(c)) = 1
      BY <1>1, <1>2, <1>6 DEF Gate
    <2>4. n + Gate(f) < n + Gate(Top(c))
      BY <2>1, <2>3
    <2>5. Less(Row(1, q, MaxDepth - worklist[c].depth, n, f), Row(1, q, MaxDepth - worklist[c].depth, n, Top(c)))
      BY <2>4, CallOver
    <2> QED
      BY <2>1, <2>2, <2>5
  <1> QED
    BY <1>5, <1>6

\* The steps of a run up to its answer.
LEMMA RunCounts ==
  ASSUME IInv, NEW c \in Chain, Enter(c) \/ Hand(c) \/ Start(c) \/ Execute(c) \/ Held(c)
  PROVE  Less(Remaining(c)', Remaining(c))
  <1>1. {"enter", "hand", "start", "exec", "run", "held"} \subseteq PC \ Loops
    BY DEF PC, Beating, Loops
  <1>2. /\ Phase("enter") = 6 /\ Phase("hand") = 5 /\ Phase("start") = 4 /\ Phase("exec") = 3
        /\ Phase("run") = 2 /\ Phase("held") = 1
    BY DEF Phase
  <1>3. CASE Enter(c)
    <2>1. At(c, "enter") /\ Step(c, "hand") /\ status' = status /\ sopMax' = sopMax
          /\ worklist' = [worklist EXCEPT ![c] = Registered(@)]
      BY <1>3 DEF Enter, limits
    <2>2. worklist'[c].depth = worklist[c].depth
      BY <2>1, RegisteredType DEF IInv, Typed, Counted
    <2> QED
      BY <1>1, <1>2, <2>1, <2>2, StepFurther
  <1>4. CASE Hand(c) \/ Start(c) \/ Execute(c) \/ Held(c)
    <2>1. PICK p \in {"hand", "start", "exec", "run"}, q \in {"start", "exec", "run", "held"} :
             At(c, p) /\ Step(c, q) /\ Phase(q) < Phase(p)
      BY <1>2, <1>4 DEF Hand, Start, Execute, Held
    <2>2. status' = status /\ sopMax' = sopMax /\ worklist' = worklist
      BY <1>4 DEF Hand, Start, Execute, Held, limits
    <2> QED
      BY <1>1, <2>1, <2>2, StepFurther
  <1> QED
    BY <1>3, <1>4

LEMMA FinishCounts ==
  ASSUME IInv, NEW c \in Chain, NEW m \in Mentions, Finish(c, m) PROVE Less(Remaining(c)', Remaining(c))
  <1> DEFINE t == IF Len(stack[c]) > 1 /\ stack[c][1].pc = "serial" THEN <<>> ELSE m
             f == Frame(Top(c).breed, "mentions", t)
  <1>1. At(c, "run") /\ "run" \notin Loops /\ "mentions" \in PC \ Loops
        /\ worklist' = worklist /\ status' = status /\ sopMax' = sopMax
    BY DEF Finish, Loops, PC, Beating, limits
  <1>2. /\ status[c] = "live" /\ Top(c).pc = "run" /\ Top(c).breed \in Breed
    BY <1>1, TopOfDog
  <1>3. t \in Seq(Holder)
    BY MentionsType
  <1>4. Goto(c, f)
    BY DEF Finish
  <1> HIDE DEF t
  <1>5. f \in GoodCall /\ f.pc = "mentions"
    BY <1>2, <1>1, <1>3, GoodFrame, FrameType
  <1> HIDE DEF f
  <1>6. Gate(f) = Gate(Top(c)) /\ Further(f, Top(c))
    BY <1>2, <1>5 DEF Gate, Further, Phase
  <1> QED
    BY <1>1, <1>2, <1>4, <1>5, <1>6, GoesFurther

\* The mentions of an answer, one after the other.
LEMMA MentionCounts ==
  ASSUME IInv, NEW c \in Chain,
         \/ MentionIdle(c) \/ Dispatch(c) \/ ReviewCloses(c) \/ GateCloses(c)
         \/ \E s \in BOOLEAN : PushRefused(c, s)
  PROVE  Less(Remaining(c)', Remaining(c))
  <1>1. CASE MentionIdle(c)
    BY <1>1, SkipFurther DEF MentionIdle, limits
  <1>2. CASE Dispatch(c)
    <2>1. /\ At(c, "mentions") /\ Top(c).todo # <<>> /\ Head(Top(c).todo) \notin {Top(c).breed, None}
          /\ status' = status /\ sopMax' = sopMax /\ worklist' = worklist
          /\ Skip(c) \/ Step(c, "push")
      BY <1>2 DEF Dispatch, MentionsDog, Mentioned, limits
    <2>2. "mentions" \in PC \ Loops /\ "push" \in PC \ Loops
      BY DEF PC, Beating, Loops
    <2>3. CASE Skip(c)
      BY <2>1, <2>3, SkipFurther
    <2>4. CASE Step(c, "push")
      BY <2>1, <2>2, <2>4, StepFurther
    <2> QED
      BY <2>1, <2>3, <2>4
  <1>3. CASE ReviewCloses(c) \/ GateCloses(c)
    <2>1. At(c, "gate") /\ Skip(c) /\ status' = status /\ sopMax' = sopMax /\ worklist' = worklist
      BY <1>3 DEF ReviewCloses, GateCloses, limits
    <2>2. Top(c).todo # <<>>
      BY <2>1, InHand
    <2> QED
      BY <2>1, <2>2, SkipFurther
  <1>4. CASE \E s \in BOOLEAN : PushRefused(c, s)
    <2>1. /\ At(c, "push") /\ Skip(c) /\ status' = status /\ sopMax' = sopMax
          /\ worklist' = [worklist EXCEPT ![c] = W!Found(c)]
      BY <1>4 DEF PushRefused
    <2>2. Top(c).todo # <<>> /\ W!Found(c) = worklist[c]
      BY <2>1, InHand
    <2>3. worklist'[c] = worklist[c]
      BY <2>1, <2>2 DEF IInv, Typed, Counted
    <2> QED
      BY <2>1, <2>2, <2>3, SkipFurther
  <1> QED
    BY <1>1, <1>2, <1>3, <1>4

LEMMA RemoveShortens ==
  ASSUME NEW S, NEW s \in Seq(S), NEW i \in 1..Len(s) PROVE Len(RemoveAt(s, i)) < Len(s)
  <1> DEFINE n == Len(s)  a == SubSeq(s, 1, i - 1)  b == SubSeq(s, i + 1, n)
  <1>1. n \in Nat /\ i \in 1..n /\ \A j \in 1..n : s[j] \in S
    BY ElementOfSeq
  <1> HIDE DEF n
  <1>2. a \in Seq(S) /\ b \in Seq(S)
    BY <1>1, SubSeqProperties
  <1>3. Len(a) = i - 1
    BY <1>1, SubSeqProperties
  <1>4. Len(b) = n - i
    BY <1>1, SubSeqProperties
  <1>5. RemoveAt(s, i) = a \o b
    BY DEF RemoveAt, n
  <1> HIDE DEF a, b
  <1>6. Len(a \o b) = Len(a) + Len(b)
    BY <1>2, ConcatProperties
  <1>7. Len(RemoveAt(s, i)) = (i - 1) + (n - i)
    BY <1>3, <1>4, <1>5, <1>6
  <1> QED
    BY <1>1, <1>7 DEF n

\* A handoff that the worklist takes in is one that it cannot take in again.
LEMMA PushCounts ==
  ASSUME IInv, NEW c \in Chain, NEW s \in BOOLEAN, Push(c, s) PROVE Less(Remaining(c)', Remaining(c))
  <1>1. /\ At(c, "push") /\ status' = status /\ sopMax' = sopMax
        /\ worklist' = [worklist EXCEPT ![c] = W!Extended(W!Found(c), Top(c).breed, Mentioned(c), s)]
        /\ Step(c, "gate") \/ Skip(c)
    BY DEF Push
  <1>2. /\ status[c] = "live" /\ Top(c) \in GoodCall /\ Top(c).pc = "push" /\ Top(c).breed \in Breed
        /\ Top(c).todo \in Seq(Holder) /\ Top(c).todo # <<>> /\ Mentioned(c) \in Breed /\ Mentioned(c) # Top(c).breed
        /\ worklist[c] \in W!List /\ W!Found(c) = worklist[c]
    BY <1>1, InHand
  <1>3. worklist'[c].depth = worklist[c].depth + 1
    <2>1. \A w \in W!List : \A a, b \in Breed : W!Extended(w, a, b, s).depth = w.depth + 1
      BY ExtendedType
    <2>2. W!Extended(worklist[c], Top(c).breed, Mentioned(c), s).depth = worklist[c].depth + 1
      BY <1>2, <2>1
    <2>3. worklist'[c] = W!Extended(worklist[c], Top(c).breed, Mentioned(c), s)
      BY <1>1, <1>2 DEF IInv, Typed, Counted
    <2> QED
      BY <2>2, <2>3
  <1>4. PICK f \in GoodCall : Goto(c, f) /\ f.pc \in {"gate", "mentions"}
    <2>1. CASE Step(c, "gate")
      <3>1. "gate" \in PC \ Loops /\ Head(Top(c).todo) \notin {Top(c).breed, None}
        BY <1>2 DEF PC, Beating, Loops, GoodCall
      <3>2. Frame(Top(c).breed, "gate", Top(c).todo) \in GoodCall
        BY <1>2, <3>1, GoodFrame
      <3> QED
        BY <2>1, <3>2, FrameType DEF Step
    <2>2. CASE Skip(c)
      <3>1. Rest(Top(c)) \in GoodCall /\ Rest(Top(c)).pc = "mentions"
        BY <1>2, GoodRest DEF Loops
      <3> QED
        BY <2>2, <3>1 DEF Skip
    <2> QED
      BY <1>1, <2>1, <2>2
  <1>5. PICK p, n \in Nat :
           /\ Remaining(c) = Row(1, p, MaxDepth - worklist[c].depth, n, Top(c))
           /\ Remaining(c)' = Row(1, p, MaxDepth - worklist'[c].depth, n, f)
    BY <1>1, <1>2, <1>4, GotoRow
  <1>6. PICK d, e : d = MaxDepth - worklist[c].depth /\ e = MaxDepth - worklist'[c].depth /\ e < d
    <2>1. PICK m, w, x \in Int : m = MaxDepth /\ w = worklist[c].depth /\ x = worklist'[c].depth /\ x = w + 1
      BY <1>2, <1>3, DepthType DEF IInv, Typed, Counted, W!List
    <2>2. m - x < m - w
      BY <2>1
    <2> QED
      BY <2>1, <2>2
  <1>7. Less(Row(1, p, e, n, f), Row(1, p, d, n, Top(c)))
    BY <1>6, HandoffSpent
  <1> QED
    BY <1>5, <1>6, <1>7

\* The call that the gate lets through was counted when it came to the gate.
LEMMA GateOpensCounts ==
  ASSUME IInv, NEW c \in Chain, GateOpens(c) PROVE Less(Remaining(c)', Remaining(c))
  <1> DEFINE f == Rest(Top(c))  g == Run(Mentioned(c))  n == Len(stack[c])
             d == MaxDepth - worklist[c].depth
  <1>1. /\ At(c, "gate") /\ Call(c, f, g) /\ status' = status /\ sopMax' = sopMax /\ worklist' = worklist
    BY DEF GateOpens, limits
  <1>2. /\ status[c] = "live" /\ Top(c) \in GoodCall /\ Top(c).pc = "gate" /\ Top(c).todo # <<>>
        /\ Mentioned(c) \in Breed
    BY <1>1, InHand
  <1>3. f \in GoodCall /\ f.pc = "mentions" /\ g \in GoodCall /\ g.pc = "enter"
    BY <1>2, GoodRest, GoodRun, FrameType DEF Run, Loops
  <1>4. stack[c] # <<>> /\ n \in Nat /\ n >= 1 /\ Top(c) = stack[c][n]
    BY <1>2, LiveStack, TopType DEF IInv, Typed
  <1> HIDE DEF f, g
  <1>5. /\ stack'[c] # <<>> /\ Len(stack'[c]) = n + 1 /\ Top(c)' = g /\ stack'[c][n] = f
        /\ \A i \in 1..n - 1 : stack'[c][i] = stack[c][i]
    BY <1>1, <1>3, <1>4, CallStack DEF IInv, Typed
  <1> HIDE DEF n
  <1>6. Piped(stack'[c][1]) = Piped(stack[c][1])
    <2>1. CASE n = 1
      <3>1. stack'[c][1] = f /\ stack[c][1] = Top(c)
        BY <2>1, <1>4, <1>5
      <3> QED
        BY <3>1, <1>2, <1>3 DEF Piped
    <2>2. CASE n # 1
      <3>1. stack'[c][1] = stack[c][1]
        BY <2>2, <1>4, <1>5
      <3> QED
        BY <3>1
    <2> QED
      BY <2>1, <2>2
  <1>7. Remaining(c) = Row(1, Piped(stack[c][1]), d, n, Top(c))
    BY <1>2, <1>4 DEF Remaining, n
  <1>8. Remaining(c)' = Row(1, Piped(stack[c][1]), d, n + 1, g)
    <2>1. MaxDepth' - worklist'[c].depth = d /\ status'[c] = "live"
      BY <1>1, <1>2 DEF MaxDepth
    <2> HIDE DEF d
    <2> QED
      BY <2>1, <1>5, <1>6 DEF Remaining
  <1>9. (n + 1) + Gate(g) = n + Gate(Top(c))
    <2>1. Gate(g) = 0 /\ Gate(Top(c)) = 1
      BY <1>2, <1>3 DEF Gate
    <2> QED
      BY <2>1, <1>4
  <1>10. Further(g, Top(c))
    BY <1>2, <1>3 DEF Further, Phase
  <1> HIDE DEF d
  <1>11. Less(Row(1, Piped(stack[c][1]), d, n + 1, g), Row(1, Piped(stack[c][1]), d, n, Top(c)))
    BY <1>9, <1>10, CallFurther
  <1> QED
    BY <1>7, <1>8, <1>11

\* Each dog of a pipeline is begun once.
LEMMA PipeCounts == ASSUME IInv, NEW c \in Chain, Pipe(c) PROVE Less(Remaining(c)', Remaining(c))
  <1> DEFINE t == Top(c).todo
             f == Frame(Mentioned(c), "serial", Tail(t))
             g == Run(Mentioned(c))
             n == Len(stack[c])
             d == MaxDepth - worklist[c].depth
  <1>1. /\ At(c, "serial") /\ "serial" \in Loops /\ t # <<>> /\ Call(c, f, g)
        /\ status' = status /\ sopMax' = sopMax /\ worklist' = worklist
    BY DEF Pipe, Loops, limits
  <1>2. /\ status[c] = "live" /\ n = 1 /\ stack[c][1] = Top(c) /\ Top(c) \in GoodCall /\ Top(c).pc = "serial"
    BY <1>1, LoopTop
  <1>3. t \in Seq(Breed)
    BY <1>2 DEF GoodCall
  <1> HIDE DEF t
  <1>4. PICK k : k = Len(t) /\ k \in Nat /\ Len(Tail(t)) = k - 1
    BY <1>1, <1>3, HeadTailProperties
  <1>5. Mentioned(c) \in Breed /\ Mentioned(c) \in Holder /\ Tail(t) \in Seq(Breed)
    <2>1. Head(t) \in Breed /\ Tail(t) \in Seq(Breed)
      BY <1>1, <1>3, HeadTailProperties
    <2>2. Mentioned(c) = Head(t)
      BY DEF Mentioned, t
    <2> QED
      BY <2>1, <2>2 DEF Holder
  <1>6. f \in GoodCall /\ f.pc = "serial" /\ f.todo = Tail(t) /\ g \in GoodCall
    <2>1. f \in GoodCall
      BY <1>1, <1>5, GoodLoop
    <2>2. f.pc = "serial" /\ f.todo = Tail(t)
      BY DEF Frame
    <2>3. g \in GoodCall
      BY <1>5, GoodRun
    <2> QED
      BY <2>1, <2>2, <2>3
  <1>7. stack[c] # <<>>
    BY <1>2, LiveStack DEF IInv, Typed
  <1> HIDE DEF f, g
  <1>8. /\ stack'[c] # <<>> /\ Len(stack'[c]) = n + 1 /\ Top(c)' = g /\ stack'[c][n] = f
    BY <1>1, <1>6, <1>7, CallStack DEF IInv, Typed
  <1>9. Remaining(c) = Row(1, k, d, 1, Top(c))
    <2>1. Piped(stack[c][1]) = k
      BY <1>2, <1>4 DEF Piped, t
    <2> QED
      BY <2>1, <1>2, <1>7 DEF Remaining
  <1> HIDE DEF n
  <1>10. stack'[c][1] = f /\ Len(stack'[c]) = 2
    BY <1>2, <1>8
  <1>11. Remaining(c)' = Row(1, k - 1, d, 2, g)
    <2>1. Piped(stack'[c][1]) = k - 1
      BY <1>4, <1>6, <1>10 DEF Piped
    <2>2. MaxDepth' - worklist'[c].depth = d /\ status'[c] = "live"
      BY <1>1, <1>2 DEF MaxDepth
    <2> HIDE DEF d
    <2> QED
      BY <2>1, <2>2, <1>8, <1>10 DEF Remaining
  <1> HIDE DEF d
  <1>12. Less(Row(1, k - 1, d, 2, g), Row(1, k, d, 1, Top(c)))
    BY <1>4, DogBegun
  <1> QED
    BY <1>9, <1>11, <1>12

\* Each dog that barks is done once.
LEMMA BarkCounts == ASSUME IInv, NEW c \in Chain, Bark(c) PROVE Less(Remaining(c)', Remaining(c))
  <1>1. At(c, "parallel") /\ "parallel" \in Loops /\ status' = status /\ sopMax' = sopMax /\ worklist' = worklist
    BY DEF Bark, Loops, limits
  <1>2. PICK i \in 1..Len(Top(c).todo) : Goto(c, Frame(Top(c).breed, "parallel", RemoveAt(Top(c).todo, i)))
    BY DEF Bark
  <1>3. status[c] = "live" /\ Top(c) \in GoodCall /\ Top(c).pc = "parallel"
    BY <1>1, LoopTop
  <1> DEFINE s == Top(c).todo  t == RemoveAt(s, i)  f == Frame(Top(c).breed, "parallel", t)
  <1>4. Top(c).breed \in Holder /\ s \in Seq(Holder)
    BY <1>3 DEF GoodCall, CallSet
  <1>5. Goto(c, f) /\ i \in 1..Len(s)
    BY <1>2
  <1> HIDE DEF s
  <1>6. t \in Seq(Holder) /\ Len(t) < Len(s)
    BY <1>4, <1>5, RemoveType, RemoveShortens
  <1> HIDE DEF t
  <1>7. f \in GoodCall /\ f.pc = "parallel" /\ f.todo = t
    BY <1>4, <1>6, FrameType DEF GoodCall, CallSet, Frame, Loops, PC
  <1> HIDE DEF f
  <1>8. Gate(f) = Gate(Top(c)) /\ Further(f, Top(c))
    BY <1>3, <1>6, <1>7 DEF Gate, Further, s
  <1> QED
    BY <1>1, <1>3, <1>5, <1>7, <1>8, GoesFurther

\* A call that returns, and with the last one the chain.
LEMMA ReturnCounts ==
  ASSUME IInv, NEW c \in Chain, status[c] = "live", Return(c), sopMax' = sopMax,
         Len(stack[c]) > 1 => worklist'[c].depth = worklist[c].depth
  PROVE  Less(Remaining(c)', Remaining(c))
  <1> DEFINE n == Len(stack[c])  d == MaxDepth - worklist[c].depth  p == Piped(stack[c][1])
  <1>1. /\ stack[c] # <<>> /\ n \in Nat /\ n >= 1
        /\ \A i \in 1..n - 1 : stack[c][i].pc \in {"mentions", "serial"}
    BY LiveStack, TopType DEF IInv, Typed, Stacked
  <1>2. /\ Len(stack'[c]) = n - 1 /\ (n = 1 <=> stack'[c] = <<>>)
        /\ \A i \in 1..n - 1 : stack'[c][i] = stack[c][i]
    BY <1>1, ReturnStack DEF IInv, Typed
  <1>3. Remaining(c) = Row(1, p, d, n, Top(c))
    BY <1>1 DEF Remaining
  <1>4. CASE n = 1
    <2>1. PICK u, v : u = Remaining(c)' /\ v = Remaining(c)
      OBVIOUS
    <2>2. v[1] = 1
      BY <1>3, <2>1, RowAt
    <2>3. u[1] = 0
      BY <1>2, <1>4, <2>1 DEF Remaining
    <2>4. Less(u, v)
      BY <2>2, <2>3, FirstDifference
    <2> QED
      BY <2>1, <2>4
  <1>5. CASE n # 1
    <2>1. stack'[c] # <<>> /\ status'[c] = "live" /\ worklist'[c].depth = worklist[c].depth
      BY <1>1, <1>2, <1>5 DEF Return, IInv, Typed, Stacked
    <2>2. Top(c)' = stack'[c][n - 1]
      BY <1>2 DEF Top
    <2>3. MaxDepth' - worklist'[c].depth = d
      BY <2>1 DEF MaxDepth
    <2> HIDE DEF n, d
    <2>4. n - 1 \in 1..n - 1 /\ 1 \in 1..n - 1
      BY <1>1, <1>5
    <2>5. Top(c)' = stack[c][n - 1] /\ stack'[c][1] = stack[c][1]
      BY <1>2, <2>2, <2>4
    <2>6. PICK g : g = Top(c)' /\ Gate(g) = 0
      <3>1. stack[c][n - 1].pc \in {"mentions", "serial"}
        BY <1>1, <2>4
      <3> QED
        BY <2>5, <3>1 DEF Gate
    <2> HIDE DEF p
    <2>7. Remaining(c)' = Row(1, p, d, n - 1, g)
      BY <1>2, <2>1, <2>3, <2>5, <2>6 DEF Remaining, p
    <2>8. Gate(Top(c)) \in {0, 1}
      BY DEF Gate
    <2>9. (n - 1) + Gate(g) < n + Gate(Top(c))
      BY <1>1, <2>6, <2>8
    <2>10. Less(Row(1, p, d, n - 1, g), Row(1, p, d, n, Top(c)))
      BY <2>9, CallOver
    <2> QED
      BY <1>3, <2>7, <2>10
  <1> QED
    BY <1>4, <1>5

LEMMA EndCounts ==
  ASSUME IInv, NEW c \in Chain,
         EnterFails(c) \/ ExecuteFails(c) \/ Park(c) \/ MentionsEnd(c) \/ PipeEnds(c) \/ ParallelEnds(c)
  PROVE  Less(Remaining(c)', Remaining(c))
  <1>1. status[c] = "live" /\ Return(c) /\ sopMax' = sopMax
    BY Zenon DEF EnterFails, ExecuteFails, Park, MentionsEnd, PipeEnds, ParallelEnds, ReturnAndRelease, At, limits
  <1>2. ASSUME Len(stack[c]) > 1 PROVE worklist'[c].depth = worklist[c].depth
    <2>1. \A w : Released(c, w) = w
      <3> DEFINE n == Len(stack[c])
      <3>1. n \in Nat /\ n > 1
        BY <1>1, <1>2, LiveStack, TopType DEF IInv, Typed
      <3> HIDE DEF n
      <3>2. n # 1
        BY <3>1
      <3> QED
        BY <3>2 DEF Released, n
    <2>2. CASE EnterFails(c)
      <3>1. worklist' = worklist \/ worklist' = [worklist EXCEPT ![c] = Registered(@)]
        BY <2>1, <2>2 DEF EnterFails
      <3> QED
        BY <3>1, RegisteredType DEF IInv, Typed, Counted
    <2>3. CASE ExecuteFails(c) \/ Park(c) \/ MentionsEnd(c) \/ PipeEnds(c) \/ ParallelEnds(c)
      <3>1. worklist' = Released(c, worklist)
        BY <2>3, Zenon DEF ExecuteFails, Park, MentionsEnd, PipeEnds, ParallelEnds, ReturnAndRelease
      <3> QED
        BY <2>1, <3>1
    <2> QED
      BY <2>2, <2>3
  <1> QED
    BY <1>1, <1>2, ReturnCounts

LEMMA AcquireCounts == ASSUME IInv, NEW c \in Chain, Acquire(c) PROVE Less(Remaining(c)', Remaining(c))
  <1> DEFINE n == Len(stack[c])  d == MaxDepth - worklist[c].depth  p == Piped(stack[c][1])
  <1>1. /\ status[c] = "queued" /\ status'[c] = "live" /\ stack' = stack /\ worklist' = worklist
        /\ sopMax' = sopMax /\ stack[c] # <<>>
    BY DEF Acquire, limits, IInv, Typed, Stacked
  <1>2. Remaining(c) = Row(2, p, d, n, Top(c))
    BY <1>1 DEF Remaining
  <1>3. Remaining(c)' = Row(1, p, d, n, Top(c))
    BY <1>1 DEF Remaining, Top, MaxDepth
  <1>4. Less(Row(1, p, d, n, Top(c)), Row(2, p, d, n, Top(c)))
    BY SlotTaken
  <1> QED
    BY <1>2, <1>3, <1>4

LEMMA ProceedCounts == ASSUME IInv, NEW c \in Chain, Proceed(c) PROVE Less(Remaining(c)', Remaining(c))
  <1>1. CASE Acquire(c)
    BY <1>1, AcquireCounts
  <1>2. CASE Enter(c) \/ Hand(c) \/ Start(c) \/ Execute(c) \/ Held(c)
    BY <1>2, RunCounts
  <1>3. CASE EnterFails(c) \/ ExecuteFails(c) \/ Park(c) \/ MentionsEnd(c) \/ PipeEnds(c) \/ ParallelEnds(c)
    BY <1>3, EndCounts
  <1>4. CASE \E m \in Mentions : Distinct(m) /\ Finish(c, m)
    BY <1>4, FinishCounts
  <1>5. CASE MentionIdle(c) \/ Dispatch(c) \/ ReviewCloses(c) \/ GateCloses(c)
    BY <1>5, MentionCounts
  <1>6. CASE \E s \in BOOLEAN : Push(c, s) \/ PushRefused(c, s)
    BY <1>6, PushCounts, MentionCounts
  <1>7. CASE GateOpens(c) \/ Pipe(c) \/ Bark(c)
    BY <1>7, GateOpensCounts, PipeCounts, BarkCounts
  <1> QED
    BY <1>1, <1>2, <1>3, <1>4, <1>5, <1>6, <1>7 DEF Proceed

\* What others do.
LEMMA Untouched ==
  ASSUME NEW c \in Chain, stack'[c] = stack[c], status'[c] = status[c], worklist'[c] = worklist[c], sopMax' = sopMax
  PROVE  Remaining(c)' = Remaining(c)
  BY DEF Remaining, Top, MaxDepth

LEMMA OtherStack ==
  ASSUME CallsAreGood, NEW c \in Chain, NEW d \in Chain \ {c},
         Return(d) \/ (\E f : Goto(d, f)) \/ (\E f, g : Call(d, f, g)) \/ stack' = stack
  PROVE  stack'[c] = stack[c]
  BY DEF CallsAreGood, Return, Goto, Call

LEMMA OtherChain ==
  ASSUME IInv, NEW c \in Chain, NEW d \in Chain \ {c}, Proceed(d) PROVE Remaining(c)' = Remaining(c)
  <1> USE DEF IInv, Typed, Stacked, Counted
  <1>1. CASE Acquire(d)
    BY <1>1, Untouched DEF Acquire, limits
  <1>2. CASE EnterFails(d) \/ ExecuteFails(d) \/ Park(d) \/ MentionsEnd(d) \/ PipeEnds(d) \/ ParallelEnds(d)
    <2>1. Return(d) /\ sopMax' = sopMax
      BY <1>2, Zenon DEF EnterFails, ExecuteFails, Park, MentionsEnd, PipeEnds, ParallelEnds, ReturnAndRelease, limits
    <2>2. worklist' = Released(d, worklist) \/ worklist' = Released(d, [worklist EXCEPT ![d] = Registered(@)])
      BY <1>2, Zenon DEF EnterFails, ExecuteFails, Park, MentionsEnd, PipeEnds, ParallelEnds, ReturnAndRelease
    <2>3. worklist'[c] = worklist[c]
      BY <2>2 DEF Released
    <2>4. status'[c] = status[c]
      BY <2>1 DEF Return
    <2> QED
      BY <2>1, <2>3, <2>4, OtherStack, Untouched
  <1>3. CASE \/ Enter(d) \/ Hand(d) \/ Start(d) \/ Execute(d) \/ Held(d) \/ (\E m \in Mentions : Distinct(m) /\ Finish(d, m))
             \/ MentionIdle(d) \/ Dispatch(d) \/ (\E s \in BOOLEAN : Push(d, s) \/ PushRefused(d, s))
             \/ ReviewCloses(d) \/ GateCloses(d) \/ Bark(d)
    <2>1. \E f : Goto(d, f)
      BY <1>3, Zenon DEF Enter, Hand, Start, Execute, Held, Finish, MentionIdle, Dispatch, Push, PushRefused,
                         ReviewCloses, GateCloses, Bark, Step, Skip
    <2>2. status' = status /\ sopMax' = sopMax
      BY <1>3, Zenon DEF Enter, Hand, Start, Execute, Held, Finish, MentionIdle, Dispatch, Push, PushRefused,
                         ReviewCloses, GateCloses, Bark, limits
    <2>3. worklist' = worklist \/ \E w : worklist' = [worklist EXCEPT ![d] = w]
      BY <1>3, Zenon DEF Enter, Hand, Start, Execute, Held, Finish, MentionIdle, Dispatch, Push, PushRefused,
                         ReviewCloses, GateCloses, Bark
    <2>4. worklist'[c] = worklist[c]
      BY <2>3
    <2> QED
      BY <2>1, <2>2, <2>4, OtherStack, Untouched
  <1>4. CASE GateOpens(d) \/ Pipe(d)
    <2>1. (\E f, g : Call(d, f, g)) /\ status' = status /\ sopMax' = sopMax /\ worklist' = worklist
      BY <1>4, Zenon DEF GateOpens, Pipe, limits
    <2> QED
      BY <2>1, OtherStack, Untouched
  <1> QED
    BY <1>1, <1>2, <1>3, <1>4 DEF Proceed

LEMMA OthersCount ==
  ASSUME IInv, NEW c \in Chain, status[c] \in {"queued", "live"}, [Next]_vars, ~Proceed(c)
  PROVE  Remaining(c)' = Remaining(c)
  <1> USE DEF IInv, Typed, Stacked, CallsAreGood
  <1>1. CASE \E d \in Chain : Proceed(d)
    BY <1>1, OtherChain
  <1>2. CASE \E d \in Chain : \E i \in 1..Len(stack[d]) : Heartbeat(d, i)
    BY <1>2, Untouched DEF Heartbeat, chainVars, limits
  <1>3. ASSUME NEW d \in Chain, NEW k \in Conn, NEW m \in Messages, UserInput(k, d, m)
        PROVE  Remaining(c)' = Remaining(c)
    <2>1. /\ d # c /\ stack' = [stack EXCEPT ![d] = <<m>>] /\ status' = [status EXCEPT ![d] = "queued"]
          /\ worklist' = worklist /\ sopMax' = sopMax
      BY <1>3 DEF UserInput, limits
    <2> QED
      BY <2>1, Untouched
  <1>4. ASSUME NEW d \in Chain, Wake(d) PROVE Remaining(c)' = Remaining(c)
    <2>1. /\ d # c /\ worklist' = worklist /\ sopMax' = sopMax
          /\ \/ stack' = [stack EXCEPT ![d] = <<Run(hold)>>] /\ status' = [status EXCEPT ![d] = "live"]
             \/ stack' = stack /\ status' = status
      BY <1>4 DEF Wake, limits
    <2> QED
      BY <2>1, Untouched
  <1>5. CASE Sweep \/ (\E k \in Conn : Unrouted(k)) \/ Disconnect \/ UNCHANGED vars
    <2>1. stack' = stack /\ status' = status /\ worklist' = worklist /\ sopMax' = sopMax
      BY <1>5 DEF Sweep, Unrouted, Disconnect, vars, chainVars, limits
    <2> QED
      BY <2>1, Untouched
  <1> QED
    BY <1>1, <1>2, <1>3, <1>4, <1>5 DEF Next

\* Whatever the dogs answer, every step of a chain leaves it less to do, and nobody else's
\* step leaves it more.
THEOREM EveryStepCounts == Spec => StepsCount
  <1>1. IInv /\ [Next]_vars
          => [\A c \in Chain : status[c] \in {"queued", "live"} =>
                IF Proceed(c) THEN Less(Remaining(c)', Remaining(c)) ELSE Remaining(c)' = Remaining(c)]_vars
    <2> SUFFICES ASSUME IInv, [Next]_vars, NEW c \in Chain, status[c] \in {"queued", "live"}
                 PROVE  IF Proceed(c) THEN Less(Remaining(c)', Remaining(c)) ELSE Remaining(c)' = Remaining(c)
      OBVIOUS
    <2>1. CASE Proceed(c)
      BY <2>1, ProceedCounts
    <2>2. CASE ~Proceed(c)
      BY <2>2, OthersCount
    <2> QED
      BY <2>1, <2>2
  <1> QED
    BY <1>1, Invariance, PTL DEF Spec, StepsCount

\* What is left is told in natural numbers, so that a chain cannot have less and less of it
\* for ever.
Measured == \A c \in Chain : Remaining(c) \in [1..7 -> Nat]

LEMMA RowType ==
  ASSUME NEW w \in Nat, NEW p \in Nat, NEW d \in Nat, NEW h \in Nat, NEW f \in CallSet
  PROVE  Row(w, p, d, h, f) \in [1..7 -> Nat]
  <1>1. Phase(f.pc) \in Nat
    BY DEF Phase
  <1>2. Len(f.todo) \in Nat
    BY LenProperties DEF CallSet
  <1>3. Gate(f) \in Nat /\ Open(f) \in Nat
    BY DEF Gate, Open
  <1>4. PICK a, e, x, o \in Nat : a = h + Gate(f) /\ e = Phase(f.pc) /\ x = Len(f.todo) /\ o = Open(f)
    BY <1>1, <1>2, <1>3
  <1>5. Row(w, p, d, h, f) = <<w, p, d, a, e, x, o>>
    BY <1>4 DEF Row, Gate, Open
  <1>6. <<w, p, d, a, e, x, o>> \in [1..7 -> Nat]
    OBVIOUS
  <1> QED
    BY <1>5, <1>6

LEMMA RemainingType == ASSUME IInv, NEW c \in Chain PROVE Remaining(c) \in [1..7 -> Nat]
  <1>1. CASE stack[c] = <<>>
    <2>1. [i \in 1..7 |-> 0] \in [1..7 -> Nat]
      OBVIOUS
    <2> QED
      BY <1>1, <2>1 DEF Remaining
  <1>2. CASE stack[c] # <<>>
    <2>1. PICK d \in Nat : d = MaxDepth - worklist[c].depth
      <3>1. PICK m, w \in Nat : m = MaxDepth /\ w = worklist[c].depth
        BY DepthType DEF IInv, Typed, Counted, W!List
      <3>2. w <= m
        BY <3>1 DEF IInv, Budget, Ceiling, Typed, Counted, W!List
      <3>3. m - w \in Nat
        BY <3>1, <3>2
      <3> QED
        BY <3>1, <3>3
    <2>2. Len(stack[c]) \in Nat /\ Len(stack[c]) >= 1 /\ Top(c) \in CallSet
          /\ \A i \in 1..Len(stack[c]) : stack[c][i] \in GoodCall
      BY <1>2, TopType DEF IInv, Typed
    <2>3. Piped(stack[c][1]) \in Nat
      <3>1. stack[c][1] \in GoodCall
        BY <2>2
      <3>2. Len(stack[c][1].todo) \in Nat
        BY <3>1, LenProperties DEF GoodCall, CallSet
      <3> QED
        BY <3>2 DEF Piped
    <2>4. PICK s \in {1, 2} : s = IF status[c] = "queued" THEN 2 ELSE 1
      OBVIOUS
    <2>5. Remaining(c) = Row(s, Piped(stack[c][1]), d, Len(stack[c]), Top(c))
      BY <1>2, <2>1, <2>4 DEF Remaining
    <2>6. Row(s, Piped(stack[c][1]), d, Len(stack[c]), Top(c)) \in [1..7 -> Nat]
      BY <2>1, <2>2, <2>3, <2>4, RowType
    <2> QED
      BY <2>5, <2>6
  <1> QED
    BY <1>1, <1>2

\* The measure of StepsCount is one: seven natural numbers, whatever the state.
THEOREM MeasureIsNatural == Spec => []Measured
  <1>1. IInv => Measured
    BY RemainingType DEF Measured
  <1> QED
    BY <1>1, Invariance, PTL
-----------------------------------------------------------------------------
(***************************************************************************)
(* What messages may occupy.  A message's goroutine has a slot from its    *)
(* first call to its last, and a worklist only while it has the slot, so   *)
(* the slots bound the registry too.                                       *)
(***************************************************************************)
ListsNeedSlots  == HaveList \subseteq HaveSlot
SlotsAreLimited == IsFiniteSet(HaveSlot) /\ Cardinality(HaveSlot) <= Slots

\* Most steps give no slot away, and touch the worklist of a chain that runs.
LEMMA NoSlotTaken ==
  ASSUME ListsNeedSlots, SlotsAreLimited, HaveSlot' \subseteq HaveSlot, HaveList' \subseteq HaveSlot'
  PROVE  ListsNeedSlots' /\ SlotsAreLimited'
  <1>1. ListsNeedSlots'
    BY DEF ListsNeedSlots
  <1>2. IsFiniteSet(HaveSlot') /\ Cardinality(HaveSlot') <= Cardinality(HaveSlot)
    BY FS_Subset DEF SlotsAreLimited
  <1>3. Cardinality(HaveSlot) \in Nat /\ Cardinality(HaveSlot') \in Nat
    BY <1>2, FS_CardinalityType DEF SlotsAreLimited
  <1>4. Cardinality(HaveSlot') <= Slots
    BY <1>2, <1>3, BoundsAssumption DEF SlotsAreLimited
  <1> QED
    BY <1>1, <1>2, <1>4 DEF SlotsAreLimited

\* A step of a running chain within its calls.
LEMMA RunsOn ==
  ASSUME Counted, ListsNeedSlots, SlotsAreLimited, NEW c \in Chain, status[c] = "live",
         UNCHANGED <<status, resumed>>,
         worklist' = worklist \/ \E w : worklist' = [worklist EXCEPT ![c] = w]
  PROVE  ListsNeedSlots' /\ SlotsAreLimited'
  <1>1. \A d \in Chain \ {c} : worklist'[d] = worklist[d]
    BY DEF Counted
  <1>2. HaveSlot' = HaveSlot
    BY DEF HaveSlot
  <1>3. HaveList' \subseteq HaveList \cup {c}
    BY <1>1 DEF HaveList
  <1>4. c \notin resumed => c \in HaveSlot
    BY DEF HaveSlot
  <1>5. c \in HaveList' => c \notin resumed
    BY DEF HaveList
  <1>6. HaveList' \subseteq HaveSlot'
    BY <1>2, <1>3, <1>4, <1>5 DEF ListsNeedSlots
  <1> QED
    BY <1>2, <1>6, NoSlotTaken

\* A call returns: the last one of a message's goroutine gives both back.
LEMMA GivesBack ==
  ASSUME Counted, Stacked, ListsNeedSlots, SlotsAreLimited, NEW c \in Chain, status[c] = "live",
         Return(c), UNCHANGED resumed,
         worklist' = Released(c, worklist) \/ \E w : worklist' = Released(c, [worklist EXCEPT ![c] = w])
  PROVE  ListsNeedSlots' /\ SlotsAreLimited'
  <1>1. \A d \in Chain \ {c} : worklist'[d] = worklist[d] /\ status'[d] = status[d]
    <2>1. TAKE d \in Chain \ {c}
    <2>2. status'[d] = status[d]
      BY DEF Return, Stacked
    <2>3. Released(c, worklist)[d] = worklist[d]
      BY DEF Released, Counted
    <2>4. \A w : Released(c, [worklist EXCEPT ![c] = w])[d] = worklist[d]
      BY DEF Released, Counted
    <2> QED
      BY <2>2, <2>3, <2>4
  <1>2. status'[c] \in {"live", "over"} /\ (status'[c] = "over" => Len(stack[c]) = 1)
    BY DEF Return, Stacked
  <1>3. HaveSlot' \subseteq HaveSlot
    BY <1>1 DEF HaveSlot
  <1>4. c \in HaveList' => c \in HaveSlot'
    <2>1. SUFFICES ASSUME c \in HaveList', Len(stack[c]) = 1 PROVE FALSE
      BY <1>2 DEF HaveList, HaveSlot
    <2>2. c \notin resumed
      BY <2>1 DEF HaveList
    <2>3. worklist'[c] = W!NoList
      BY <2>1, <2>2 DEF Released, Counted
    <2>4. ~worklist'[c].live
      BY <2>3 DEF W!NoList, W!Empty
    <2> QED
      BY <2>1, <2>4 DEF HaveList
  <1>5. \A d \in Chain \ {c} : d \in HaveList' => d \in HaveSlot'
    BY <1>1 DEF ListsNeedSlots, HaveList, HaveSlot
  <1>6. HaveList' \subseteq HaveSlot'
    BY <1>4, <1>5 DEF HaveList
  <1> QED
    BY <1>3, <1>6, NoSlotTaken

\* A message gets its slot, if one is free.
LEMMA TakesSlot ==
  ASSUME Stacked, ListsNeedSlots, SlotsAreLimited, NEW c \in Chain, Acquire(c)
  PROVE  ListsNeedSlots' /\ SlotsAreLimited'
  <1>1. /\ status[c] = "queued" /\ status' = [status EXCEPT ![c] = "live"]
        /\ resumed' = resumed /\ worklist' = worklist
        /\ Cardinality({d \in Chain : status[d] = "live" /\ d \notin resumed}) < Slots
    BY DEF Acquire
  <1>2. HaveSlot' \subseteq HaveSlot \cup {c} /\ HaveSlot \subseteq HaveSlot'
    BY <1>1 DEF Stacked, HaveSlot
  <1>3. HaveList' = HaveList
    BY <1>1 DEF HaveList
  <1>4. c \notin HaveSlot /\ Cardinality(HaveSlot) < Slots
    BY <1>1 DEF HaveSlot
  <1>5. IsFiniteSet(HaveSlot \cup {c}) /\ Cardinality(HaveSlot \cup {c}) = Cardinality(HaveSlot) + 1
    BY <1>4, FS_AddElement DEF SlotsAreLimited
  <1>6. IsFiniteSet(HaveSlot') /\ Cardinality(HaveSlot') <= Cardinality(HaveSlot \cup {c})
    BY <1>2, <1>5, FS_Subset
  <1>7. Cardinality(HaveSlot) \in Nat /\ Cardinality(HaveSlot') \in Nat /\ Slots \in Nat
    BY <1>6, FS_CardinalityType, BoundsAssumption DEF SlotsAreLimited
  <1>8. Cardinality(HaveSlot') <= Slots
    BY <1>4, <1>5, <1>6, <1>7
  <1> QED
    BY <1>2, <1>3, <1>6, <1>8 DEF ListsNeedSlots, SlotsAreLimited

LEMMA SlotsProceed ==
  ASSUME Counted, Stacked, ListsNeedSlots, SlotsAreLimited, NEW c \in Chain, Proceed(c)
  PROVE  ListsNeedSlots' /\ SlotsAreLimited'
  <1>1. CASE Acquire(c)
    BY <1>1, TakesSlot
  <1>2. CASE EnterFails(c) \/ ExecuteFails(c) \/ Park(c) \/ MentionsEnd(c) \/ PipeEnds(c) \/ ParallelEnds(c)
    <2>1. Return(c) /\ resumed' = resumed /\ status[c] = "live"
      BY <1>2, Zenon DEF EnterFails, ExecuteFails, Park, MentionsEnd, PipeEnds, ParallelEnds, ReturnAndRelease, At
    <2>2. worklist' = Released(c, worklist) \/ worklist' = Released(c, [worklist EXCEPT ![c] = Registered(@)])
      BY <1>2, Zenon DEF EnterFails, ExecuteFails, Park, MentionsEnd, PipeEnds, ParallelEnds, ReturnAndRelease
    <2>3. worklist' = Released(c, worklist) \/ \E w : worklist' = Released(c, [worklist EXCEPT ![c] = w])
      BY <2>2
    <2> QED
      BY <2>1, <2>3, GivesBack
  <1>3. CASE \/ Enter(c) \/ Hand(c) \/ Start(c) \/ Execute(c) \/ Held(c) \/ (\E m \in Mentions : Distinct(m) /\ Finish(c, m))
             \/ MentionIdle(c) \/ Dispatch(c) \/ (\E s \in BOOLEAN : Push(c, s) \/ PushRefused(c, s))
             \/ ReviewCloses(c) \/ GateCloses(c) \/ Bark(c) \/ GateOpens(c) \/ Pipe(c)
    <2>1. status' = status /\ resumed' = resumed /\ status[c] = "live"
      BY <1>3, Zenon DEF Enter, Hand, Start, Execute, Held, Finish, MentionIdle, Dispatch, Push, PushRefused,
                         ReviewCloses, GateCloses, Bark, GateOpens, Pipe, MentionsDog, At
    <2>2. worklist' = worklist \/ \E w : worklist' = [worklist EXCEPT ![c] = w]
      BY <1>3, Zenon DEF Enter, Hand, Start, Execute, Held, Finish, MentionIdle, Dispatch, Push, PushRefused,
                         ReviewCloses, GateCloses, Bark, GateOpens, Pipe
    <2> QED
      BY <2>1, <2>2, RunsOn
  <1> QED
    BY <1>1, <1>2, <1>3 DEF Proceed

LEMMA SlotsStep ==
  ASSUME Counted, Stacked, ListsNeedSlots, SlotsAreLimited, [Next]_vars
  PROVE  ListsNeedSlots' /\ SlotsAreLimited'
  <1>1. CASE \E c \in Chain : Proceed(c)
    BY <1>1, SlotsProceed
  <1>2. ASSUME NEW c \in Chain, status[c] = "free", worklist' = worklist,
               \/ status' = [status EXCEPT ![c] = "queued"] /\ resumed' = resumed
               \/ status' = [status EXCEPT ![c] = "live"] /\ resumed' = resumed \cup {c}
        PROVE  ListsNeedSlots' /\ SlotsAreLimited'
    <2>1. \A d \in Chain \ {c} : status'[d] = status[d] /\ (d \in resumed' <=> d \in resumed)
      BY <1>2 DEF Stacked
    <2>2. c \notin HaveSlot /\ c \notin HaveSlot'
      BY <1>2 DEF HaveSlot, Stacked
    <2>3. c \notin HaveList
      BY <2>2 DEF ListsNeedSlots
    <2>4. HaveSlot' = HaveSlot
      BY <2>1, <2>2 DEF HaveSlot
    <2>5. HaveList' \subseteq HaveList
      BY <1>2 DEF HaveList
    <2> QED
      BY <2>4, <2>5, NoSlotTaken DEF ListsNeedSlots
  <1>3. CASE UNCHANGED <<status, resumed, worklist>>
    <2>1. HaveSlot' = HaveSlot /\ HaveList' = HaveList
      BY <1>3 DEF HaveSlot, HaveList
    <2> QED
      BY <2>1, NoSlotTaken DEF ListsNeedSlots
  <1>4. ASSUME NEW c \in Chain, NEW k \in Conn, NEW m \in Messages, UserInput(k, c, m)
        PROVE  ListsNeedSlots' /\ SlotsAreLimited'
    BY <1>2, <1>4 DEF UserInput
  <1>5. ASSUME NEW c \in Chain, Wake(c)
        PROVE  ListsNeedSlots' /\ SlotsAreLimited'
    BY <1>2, <1>3, <1>5 DEF Wake
  <1>6. CASE \/ Sweep \/ (\E k \in Conn : Unrouted(k)) \/ Disconnect \/ UNCHANGED vars
             \/ \E c \in Chain : \E i \in 1..Len(stack[c]) : Heartbeat(c, i)
    BY <1>3, <1>6 DEF Sweep, Unrouted, Disconnect, Heartbeat, vars, chainVars
  <1> QED
    BY <1>1, <1>4, <1>5, <1>6 DEF Next

LEMMA SlotsInvariance == Spec => [](ListsNeedSlots /\ SlotsAreLimited)
  <1>1. Init => ListsNeedSlots /\ SlotsAreLimited
    <2> SUFFICES ASSUME Init PROVE ListsNeedSlots /\ SlotsAreLimited
      OBVIOUS
    <2>1. HaveSlot = {}
      BY DEF Init, HaveSlot
    <2>2. HaveList = {}
      BY DEF Init, HaveList, W!NoList, W!Empty
    <2>3. IsFiniteSet({}) /\ Cardinality({}) = 0
      BY FS_EmptySet
    <2> QED
      BY <2>1, <2>2, <2>3, BoundsAssumption DEF ListsNeedSlots, SlotsAreLimited
  <1>2. IInv /\ ListsNeedSlots /\ SlotsAreLimited /\ [Next]_vars => (ListsNeedSlots /\ SlotsAreLimited)'
    BY SlotsStep DEF IInv, Typed
  <1> QED
    BY <1>1, <1>2, Invariance, PTL DEF Spec

\* The worklists that messages have registered belong to messages with a bark slot
\* (ws_handler.go:371-394), whatever fails on the way and however many messages there are.
\* Those of resumed chains are not counted: nobody releases them (execution.go:641).
THEOREM MessagesGiveBack == Spec => []RegistryIsBounded
  <1>1. ListsNeedSlots /\ SlotsAreLimited => RegistryIsBounded
    <2> SUFFICES ASSUME ListsNeedSlots, SlotsAreLimited PROVE RegistryIsBounded
      OBVIOUS
    <2>1. IsFiniteSet(HaveList) /\ Cardinality(HaveList) <= Cardinality(HaveSlot)
      BY FS_Subset DEF ListsNeedSlots, SlotsAreLimited
    <2>2. Cardinality(HaveList) \in Nat /\ Cardinality(HaveSlot) \in Nat
      BY <2>1, FS_CardinalityType DEF SlotsAreLimited
    <2> QED
      BY <2>1, <2>2, BoundsAssumption DEF ListsNeedSlots, SlotsAreLimited, RegistryIsBounded
  <1> QED
    BY <1>1, SlotsInvariance, PTL
=============================================================================
