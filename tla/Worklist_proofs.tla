-------------------------- MODULE Worklist_proofs --------------------------
(***************************************************************************)
(* The two loop-stoppers of the worklist, for any dogs, invocations and    *)
(* ceilings.  A worklist remembers one pair and one count; what makes the  *)
(* claim about the whole history inductive is that the count reaches back  *)
(* exactly to the handoff that broke the previous run of small talk.       *)
(***************************************************************************)
EXTENDS Worklist, FiniteSetTheorems, TLAPS

\* Where the current run of small talk began: at the start, with substantive work, or
\* after a handoff of another pair.
RunBegins(p, pair, first) ==
  first = 1 \/ p[first].substantive \/ p[first - 1].pair # pair

\* What a worklist says of the handoffs it accepted.
Tracks(w, p) ==
  /\ w.depth = Len(p) /\ w.depth <= w.max
  /\ ~w.live => p = <<>> /\ w.list = {}
  /\ w.streak <= Len(p) /\ (w.streak = 0 => p = <<>>)
  /\ p # <<>> => /\ p[Len(p)].pair = w.pair
                 /\ RunBegins(p, w.pair, Len(p) - w.streak + 1)

IInv == TypeOK /\ (\A i \in Inv : Tracks(worklist[i], pushes[i])) /\ NoPingPong
-----------------------------------------------------------------------------
LEMMA Lists ==
  /\ NoList \in List /\ Attributed(NoList) /\ Tracks(NoList, <<>>)
  /\ \A m \in Nat : /\ NewList(m) \in List /\ Attributed(NewList(m)) /\ NewList(m).live
                    /\ Tracks(NewList(m), <<>>)
  <1>1. NoList \in List /\ Attributed(NoList) /\ Tracks(NoList, <<>>)
    BY DEF NoList, Empty, List, Attributed, Tracks
  <1>2. ASSUME NEW m \in Nat
        PROVE  /\ NewList(m) \in List /\ Attributed(NewList(m)) /\ NewList(m).live
               /\ Tracks(NewList(m), <<>>)
    <2>1. Depth(m) \in Nat
      BY DEF Depth, PingPongBlock
    <2>2. NewList(m) = [live |-> TRUE, depth |-> 0, max |-> Depth(m), pair |-> {}, streak |-> 0,
                        list |-> {}, a2aFrom |-> [b \in Breed |-> None], executed |-> {}]
      BY DEF NewList, Empty
    <2>3. NewList(m) \in List
      BY <2>1, <2>2 DEF List
    <2>4. Attributed(NewList(m)) /\ NewList(m).live
      BY <2>2 DEF Attributed
    <2>5. Tracks(NewList(m), <<>>)
      BY <2>1, <2>2 DEF Tracks
    <2> QED
      BY <2>3, <2>4, <2>5
  <1> QED
    BY <1>1, <1>2

\* The worklist a method works on is well formed, and new if the invocation had none.
LEMMA FoundOK ==
  ASSUME TypeOK, \A i \in Inv : Tracks(worklist[i], pushes[i]), NEW i \in Inv
  PROVE  /\ Found(i) \in List /\ Attributed(Found(i)) /\ Found(i).live
         /\ Tracks(Found(i), pushes[i])
  <1>1. CASE worklist[i].live
    BY <1>1 DEF Found, TypeOK
  <1>2. CASE ~worklist[i].live
    BY <1>2, Lists DEF Found, Tracks
  <1> QED
    BY <1>1, <1>2

LEMMA ExtendedOK ==
  ASSUME NEW w \in List, Attributed(w), w.live, NEW from \in Breed, NEW to \in Breed, NEW s \in BOOLEAN
  PROVE  LET x == Extended(w, from, to, s)
         IN  /\ x \in List /\ Attributed(x) /\ x.live /\ x.max = w.max /\ x.depth = w.depth + 1
             /\ x.pair = UnorderedPair(from, to) /\ x.streak = Streak(w, UnorderedPair(from, to), s)
  <1>1. UnorderedPair(from, to) \in SUBSET Breed
    BY DEF UnorderedPair
  <1>2. Streak(w, UnorderedPair(from, to), s) \in Nat
    BY DEF Streak, List
  <1>3. to # None /\ from # None
    BY NoneIsNoBreed
  <1> DEFINE x == Extended(w, from, to, s)
  <1>4. FirstFrom(w, to, from) \in [Breed -> Breed \cup {None}]
    BY DEF FirstFrom, List
  <1>5. \A b \in Breed : FirstFrom(w, to, from)[b] = IF b = to /\ w.a2aFrom[to] = None THEN from ELSE w.a2aFrom[b]
    BY DEF FirstFrom, List, Attributed
  <1>6. w.depth + 1 \in Nat /\ w.list \cup {to} \in SUBSET Breed /\ w.executed \cup {to} \in SUBSET Breed
    BY DEF List
  <1>7. x = [w EXCEPT !.depth = w.depth + 1, !.pair = UnorderedPair(from, to),
                      !.streak = Streak(w, UnorderedPair(from, to), s), !.list = w.list \cup {to},
                      !.executed = w.executed \cup {to}, !.a2aFrom = FirstFrom(w, to, from)]
    BY DEF Extended
  <1>8. x \in List
    <2> HIDE DEF x
    <2> QED
      BY <1>1, <1>2, <1>4, <1>6, <1>7 DEF List
  <1>9. x \in List /\ x.live /\ x.max = w.max /\ x.depth = w.depth + 1
    BY <1>8, <1>7 DEF List
  <1>10. x.pair = UnorderedPair(from, to) /\ x.streak = Streak(w, UnorderedPair(from, to), s)
    BY <1>1, <1>2 DEF Extended, List
  <1>11. x.list = w.list \cup {to} /\ x.executed = w.executed \cup {to}
    BY DEF Extended, List
  <1>12. \A b \in Breed : x.a2aFrom[b] = IF b = to /\ w.a2aFrom[to] = None THEN from ELSE w.a2aFrom[b]
    BY <1>5 DEF Extended, List
  <1>13. Attributed(x)
    BY <1>3, <1>11, <1>12 DEF Attributed
  <1> QED
    BY <1>9, <1>10, <1>13

LEMMA ExpandedOK ==
  ASSUME NEW w \in List, Attributed(w), w.live, NEW to \in Breed, NEW from \in Breed, NEW p, Tracks(w, p)
  PROVE  LET x == Expanded(w, to, from)
         IN  x \in List /\ Attributed(x) /\ x.live /\ Tracks(x, p)
  <1>1. CASE Expanded(w, to, from) = w
    BY <1>1
  <1>2. CASE Expanded(w, to, from) = WithTarget(w, to, from)
    <2> DEFINE x == WithTarget(w, to, from)
    <2>1. from # None
      BY NoneIsNoBreed
    <2>2. /\ x \in List /\ x.live /\ x.list = w.list \cup {to} /\ x.executed = w.executed
          /\ x.depth = w.depth /\ x.max = w.max /\ x.streak = w.streak /\ x.pair = w.pair
      BY DEF WithTarget, List
    <2>3. \A b \in Breed : x.a2aFrom[b] = IF b = to THEN from ELSE w.a2aFrom[b]
      BY DEF WithTarget, List
    <2>4. Attributed(x)
      BY <2>1, <2>2, <2>3 DEF Attributed
    <2>5. Tracks(x, p)
      BY <2>2 DEF Tracks
    <2> QED
      BY <1>2, <2>2, <2>4, <2>5
  <1> QED
    BY <1>1, <1>2 DEF Expanded

\* Neither way a worklist takes in a target touches an attribution it already has.
LEMMA WithTargetKeeps ==
  ASSUME NEW w \in List, Attributed(w), NEW to \in Breed \ w.list, NEW from \in Breed
  PROVE  \A b \in Breed : w.a2aFrom[b] # None => WithTarget(w, to, from).a2aFrom[b] = w.a2aFrom[b]
  BY DEF WithTarget, List, Attributed

LEMMA ExtendedKeeps ==
  ASSUME NEW w \in List, NEW from \in Breed, NEW to \in Breed, NEW s
  PROVE  \A b \in Breed : w.a2aFrom[b] # None => Extended(w, from, to, s).a2aFrom[b] = w.a2aFrom[b]
  <1>1. Extended(w, from, to, s).a2aFrom = FirstFrom(w, to, from)
    BY DEF Extended, List
  <1> QED
    BY <1>1 DEF FirstFrom, List

\* The core: one more handoff within the streak limit keeps the history varied.
LEMMA PushKeeps ==
  ASSUME NEW w \in List, NEW x \in List, NEW p \in Seq(HandoffSet), Tracks(w, p), Varied(p),
         NEW pair \in SUBSET Breed, NEW s \in BOOLEAN,
         x.live, w.depth < w.max, x.max = w.max, x.depth = w.depth + 1, x.pair = pair,
         x.streak = Streak(w, pair, s), Streak(w, pair, s) < PingPongBlock
  PROVE  LET q == Append(p, Handoff(pair, s))
         IN  q \in Seq(HandoffSet) /\ Tracks(x, q) /\ Varied(q)
  <1> DEFINE q == Append(p, Handoff(pair, s))
             n == Len(p)
             first == n + 1 - x.streak + 1
  <1>1. Handoff(pair, s) \in HandoffSet /\ Handoff(pair, s).pair = pair /\ Handoff(pair, s).substantive = s
    BY DEF Handoff, HandoffSet
  <1>2. /\ q \in Seq(HandoffSet) /\ Len(q) = n + 1 /\ n \in Nat
        /\ q[n + 1] = Handoff(pair, s) /\ \A k \in 1..n : q[k] = p[k]
    BY <1>1
  <1>3. q # <<>>
    BY <1>2
  <1>4. x.streak \in 1..3 /\ x.streak <= n + 1
    BY <1>2 DEF Streak, PingPongBlock, Tracks, List
  <1>5. RunBegins(q, pair, first)
    <2>1. CASE x.streak = 1
      <3>1. CASE s
        <4>1. first = n + 1
          BY <1>2, <2>1
        <4>2. q[n + 1].substantive = s
          BY <1>1, <1>2
        <4> HIDE DEF q, first
        <4> QED
          BY <3>1, <4>1, <4>2, Zenon DEF RunBegins
      <3>2. CASE w.streak = 0
        BY <1>2, <2>1, <3>2 DEF RunBegins, Tracks
      <3>3. CASE ~s /\ w.streak # 0
        <4>1. pair # w.pair
          BY <2>1, <3>3 DEF Streak, List
        <4>2. n > 0 /\ p[n].pair = w.pair
          BY <1>2, <3>3 DEF Tracks, List
        <4> QED
          BY <1>2, <2>1, <4>1, <4>2 DEF RunBegins
      <3> QED
        BY <3>1, <3>2, <3>3
    <2>2. CASE x.streak # 1
      <3>1. x.streak = w.streak + 1 /\ pair = w.pair /\ w.streak > 0
        BY <2>2 DEF Streak
      <3>2. n > 0 /\ w.streak <= n /\ RunBegins(p, w.pair, n - w.streak + 1)
        BY <1>2, <3>1 DEF Tracks, List
      <3>3. w.streak \in Nat /\ first = n - w.streak + 1 /\ first \in 1..n
        <4>1. w.streak \in Nat
          BY DEF List
        <4>2. first = n - w.streak + 1
          BY <1>2, <3>1, <4>1
        <4> HIDE DEF first
        <4> QED
          BY <1>2, <3>1, <3>2, <4>1, <4>2
      <3>4. q[first] = p[first] /\ (first # 1 => q[first - 1] = p[first - 1])
        BY <1>2, <3>3
      <3> HIDE DEF q, first
      <3> QED
        BY <3>1, <3>2, <3>3, <3>4 DEF RunBegins
    <2> QED
      BY <2>1, <2>2
  <1> HIDE DEF q
  <1>6. Tracks(x, q)
    <2>1. w.depth = n /\ w.depth \in Nat /\ w.max \in Nat
      BY DEF Tracks, List
    <2>2. x.depth = n + 1 /\ x.depth <= x.max
      BY <1>2, <2>1
    <2>3. first = n + 1 - x.streak + 1 /\ q[n + 1].pair = x.pair
      BY <1>1, <1>2
    <2> HIDE DEF first
    <2> QED
      BY <1>2, <1>3, <1>4, <1>5, <2>2, <2>3 DEF Tracks
  <1>7. Varied(q)
    <2> SUFFICES ASSUME NEW m \in 1..Len(q) - 3,
                        \A k \in m + 1..m + 3 : q[k].pair = q[m].pair /\ ~q[k].substantive
                 PROVE  FALSE
      BY DEF Varied
    <2>1. CASE m + 3 <= n
      <3>1. m \in 1..Len(p) - 3 /\ \A k \in m..m + 3 : q[k] = p[k]
        BY <1>2, <2>1
      <3>2. PICK k \in m + 1..m + 3 : p[k].pair # p[m].pair \/ p[k].substantive
        BY <3>1 DEF Varied
      <3>3. q[k] = p[k] /\ q[m] = p[m]
        BY <3>1
      <3> QED
        BY <3>2, <3>3
    <2>2. CASE m + 3 = n + 1
      <3>1. first \in m + 1..m + 3 /\ first # 1
        BY <1>2, <1>4, <2>2
      <3>2. q[n + 1].pair = pair /\ q[m].pair = pair
        BY <1>1, <1>2, <2>2
      <3>3. first - 1 \in m..m + 3
        BY <3>1, <1>2
      <3>4. q[first - 1].pair = pair /\ ~q[first].substantive
        BY <3>1, <3>2, <3>3
      <3> QED
        BY <1>5, <3>1, <3>4 DEF RunBegins
    <2> QED
      BY <1>2, <2>1, <2>2
  <1> QED
    BY <1>2, <1>6, <1>7 DEF q
-----------------------------------------------------------------------------
LEMMA InitInv == Init => IInv
  <1> SUFFICES ASSUME Init PROVE IInv
    OBVIOUS
  <1>1. TypeOK /\ \A i \in Inv : Tracks(worklist[i], pushes[i])
    BY Lists DEF Init, TypeOK
  <1>2. NoPingPong
    BY DEF Init, NoPingPong, Varied
  <1> QED
    BY <1>1, <1>2 DEF IInv

\* A step that gives invocation i the worklist w and the history p.
LEMMA OneStep ==
  ASSUME IInv, NEW i \in Inv, NEW w \in List, Attributed(w), NEW p \in Seq(HandoffSet),
         Tracks(w, p), Varied(p),
         worklist' = [worklist EXCEPT ![i] = w], pushes' = [pushes EXCEPT ![i] = p]
  PROVE  IInv'
  <1>1. \A j \in Inv : /\ worklist'[j] = IF j = i THEN w ELSE worklist[j]
                       /\ pushes'[j] = IF j = i THEN p ELSE pushes[j]
    BY DEF IInv, TypeOK
  <1>2. worklist' \in [Inv -> List] /\ pushes' \in [Inv -> Seq(HandoffSet)]
    BY DEF IInv, TypeOK
  <1>3. \A j \in Inv : Attributed(worklist'[j]) /\ Tracks(worklist'[j], pushes'[j]) /\ Varied(pushes'[j])
    BY <1>1 DEF IInv, TypeOK, NoPingPong
  <1> QED
    BY <1>2, <1>3 DEF IInv, TypeOK, NoPingPong

LEMMA Step == IInv /\ [Next]_vars => IInv'
  <1> SUFFICES ASSUME IInv, [Next]_vars PROVE IInv'
    OBVIOUS
  <1>0. TypeOK /\ \A i \in Inv : Tracks(worklist[i], pushes[i]) /\ Varied(pushes[i])
    BY DEF IInv, NoPingPong
  <1>1. CASE UNCHANGED vars
    BY <1>1 DEF vars, IInv, TypeOK, NoPingPong
  <1>2. ASSUME NEW i \in Inv, NEW w \in List, Attributed(w), Tracks(w, pushes[i]),
               worklist' = [worklist EXCEPT ![i] = w], UNCHANGED pushes
        PROVE  IInv'
    <2>1. pushes[i] \in Seq(HandoffSet) /\ pushes' = [pushes EXCEPT ![i] = pushes[i]]
      BY <1>0, <1>2 DEF TypeOK
    <2> QED
      BY <1>0, <1>2, <2>1, OneStep
  <1>3. ASSUME NEW i \in Inv, Register(i) PROVE IInv'
    <2>1. pushes[i] = <<>>
      BY <1>0, <1>3 DEF Register, Tracks
    <2> QED
      BY <1>2, <1>3, <2>1, Lists, BoundsAssumption DEF Register
  <1>4. ASSUME NEW i \in Inv, Look(i) PROVE IInv'
    BY <1>0, <1>2, <1>4, FoundOK DEF Look
  <1>5. ASSUME NEW i \in Inv, Done(i) PROVE IInv'
    <2>1. Varied(<<>>) /\ <<>> \in Seq(HandoffSet)
      BY DEF Varied
    <2> QED
      BY <1>5, <2>1, Lists, OneStep DEF Done
  <1>6. ASSUME NEW i \in Inv, NEW from \in Breed, NEW to \in Breed, Expand(i, to, from) PROVE IInv'
    BY <1>0, <1>2, <1>6, FoundOK, ExpandedOK DEF Expand
  <1>7. ASSUME NEW i \in Inv, NEW from \in Breed, NEW to \in Breed, NEW s \in BOOLEAN,
               Refuse(i, from, to, s)
        PROVE  IInv'
    BY <1>0, <1>2, <1>7, FoundOK DEF Refuse
  <1>8. ASSUME NEW i \in Inv, NEW from \in Breed, NEW to \in Breed, NEW s \in BOOLEAN,
               Push(i, from, to, s)
        PROVE  IInv'
    <2> DEFINE pair == UnorderedPair(from, to)
               w == Found(i)
               x == Extended(w, from, to, s)
               p == pushes[i]
               q == Append(p, Handoff(pair, s))
    <2>1. w \in List /\ Attributed(w) /\ w.live /\ Tracks(w, p)
      BY <1>0, FoundOK
    <2>2. p \in Seq(HandoffSet) /\ Varied(p) /\ pair \in SUBSET Breed
      BY <1>0 DEF TypeOK, UnorderedPair
    <2>3. w.depth < w.max /\ Streak(w, pair, s) < PingPongBlock
      BY <1>8 DEF Push, Accepts
    <2> HIDE DEF w
    <2>4. /\ x \in List /\ Attributed(x) /\ x.live /\ x.max = w.max /\ x.depth = w.depth + 1
          /\ x.pair = pair /\ x.streak = Streak(w, pair, s)
      BY <2>1, ExtendedOK
    <2> HIDE DEF x, pair
    <2>5. q \in Seq(HandoffSet) /\ Tracks(x, q) /\ Varied(q)
      BY <2>1, <2>2, <2>3, <2>4, PushKeeps
    <2>6. worklist' = [worklist EXCEPT ![i] = x] /\ pushes' = [pushes EXCEPT ![i] = q]
      BY <1>8 DEF Push, w, x, pair, UnorderedPair
    <2> QED
      BY <2>4, <2>5, <2>6, OneStep
  <1> QED
    BY <1>1, <1>3, <1>4, <1>5, <1>6, <1>7, <1>8 DEF Next
-----------------------------------------------------------------------------
\* The inductive invariant holds of every behaviour.
THEOREM Invariance == Spec => []IInv
  BY InitInv, Step, PTL DEF Spec

\* Types and attribution of the worklists, for any dogs and invocations.
THEOREM TypeCorrect == Spec => []TypeOK
  BY Invariance, PTL DEF IInv

\* Two dogs never get four handoffs in a row of which the last three were small talk
\* (worklist_registry.go:106-122), however handoffs, refusals and expansions interleave.
THEOREM PingPongBroken == Spec => []NoPingPong
  BY Invariance, PTL DEF IInv

\* The handoffs of an invocation never exceed its ceiling (worklist_registry.go:50-60,
\* 100-103), however often it is registered again.
THEOREM OneBudget == Spec => []DepthIsOneBudget
  <1>1. IInv => DepthIsOneBudget
    <2> SUFFICES ASSUME IInv, NEW i \in Inv
                 PROVE  Len(pushes[i]) <= (IF worklist[i].live THEN worklist[i].max ELSE 0)
      BY DEF DepthIsOneBudget
    <2>1. Tracks(worklist[i], pushes[i])
      BY DEF IInv
    <2> QED
      BY <2>1 DEF Tracks
  <1> QED
    BY <1>1, Invariance, PTL

\* Who brought a target in is never rewritten while the worklist lives.
THEOREM Attribution == Spec => AttributionStands
  <1> DEFINE Keeps == \A i \in Inv, b \in Breed :
               worklist[i].a2aFrom[b] # None /\ worklist'[i].live
                 => worklist'[i].a2aFrom[b] = worklist[i].a2aFrom[b]
  <1>1. IInv /\ [Next]_vars => [Keeps]_vars
    <2> SUFFICES ASSUME IInv, Next PROVE Keeps
      BY DEF vars
    <2>0. TypeOK /\ \A i \in Inv : Tracks(worklist[i], pushes[i])
      BY DEF IInv
    <2>1. ASSUME NEW i \in Inv, NEW w, worklist' = [worklist EXCEPT ![i] = w],
                 w.live => \A b \in Breed : worklist[i].a2aFrom[b] # None
                                              => w.a2aFrom[b] = worklist[i].a2aFrom[b]
          PROVE  Keeps
      BY <2>0, <2>1 DEF TypeOK
    <2>2. ASSUME NEW i \in Inv
          PROVE  /\ Found(i) \in List /\ Attributed(Found(i))
                 /\ \A b \in Breed : worklist[i].a2aFrom[b] # None
                                        => Found(i).a2aFrom[b] = worklist[i].a2aFrom[b]
      <3>1. CASE worklist[i].live
        BY <2>0, <3>1, FoundOK DEF Found
      <3>2. CASE ~worklist[i].live
        BY <2>0, <3>2, FoundOK DEF TypeOK, Attributed, Tracks
      <3> QED
        BY <3>1, <3>2
    <2>3. ASSUME NEW i \in Inv, Register(i) PROVE Keeps
      BY <2>0, <2>1, <2>3, Lists, BoundsAssumption DEF Register, Tracks, TypeOK, Attributed
    <2>4. ASSUME NEW i \in Inv, Look(i) PROVE Keeps
      BY <2>1, <2>2, <2>4 DEF Look
    <2>5. ASSUME NEW i \in Inv, Done(i) PROVE Keeps
      <3>1. ~NoList.live
        BY DEF NoList, Empty
      <3> QED
        BY <2>1, <2>5, <3>1 DEF Done
    <2>6. ASSUME NEW i \in Inv, NEW from \in Breed, NEW to \in Breed, Expand(i, to, from) PROVE Keeps
      <3>1. \A b \in Breed : Found(i).a2aFrom[b] # None
                               => Expanded(Found(i), to, from).a2aFrom[b] = Found(i).a2aFrom[b]
        BY <2>2, WithTargetKeeps DEF Expanded
      <3> QED
        BY <2>1, <2>2, <2>6, <3>1 DEF Expand
    <2>7. ASSUME NEW i \in Inv, NEW from \in Breed, NEW to \in Breed, NEW s \in BOOLEAN,
                 Refuse(i, from, to, s)
          PROVE  Keeps
      BY <2>1, <2>2, <2>7 DEF Refuse
    <2>8. ASSUME NEW i \in Inv, NEW from \in Breed, NEW to \in Breed, NEW s \in BOOLEAN,
                 Push(i, from, to, s)
          PROVE  Keeps
      <3>1. \A b \in Breed : Found(i).a2aFrom[b] # None
                               => Extended(Found(i), from, to, s).a2aFrom[b] = Found(i).a2aFrom[b]
        BY <2>2, ExtendedKeeps
      <3> QED
        BY <2>1, <2>2, <2>8, <3>1 DEF Push
    <2> QED
      BY <2>3, <2>4, <2>5, <2>6, <2>7, <2>8 DEF Next
  <1> QED
    BY <1>1, Invariance, PTL DEF Spec, AttributionStands

\* The targets known are finitely many, which is what the cap is compared with.
Capped(w) == IsFiniteSet(w.list) /\ Cardinality(w.list \ w.executed) <= MaxFanout

\* A bigger share executed, or the same targets: the cap holds on.
LEMMA CappedStays ==
  ASSUME NEW w, NEW x, Capped(w), IsFiniteSet(x.list),
         x.list \ x.executed \subseteq w.list \ w.executed
  PROVE  Capped(x)
  <1>1. IsFiniteSet(w.list \ w.executed)
    BY FS_Subset DEF Capped
  <1>2. Cardinality(x.list \ x.executed) <= Cardinality(w.list \ w.executed)
    BY <1>1, FS_Subset
  <1>3. IsFiniteSet(x.list \ x.executed)
    BY FS_Subset
  <1>4. Cardinality(x.list \ x.executed) \in Nat /\ Cardinality(w.list \ w.executed) \in Nat
    BY <1>1, <1>3, FS_CardinalityType
  <1> QED
    BY <1>2, <1>4, BoundsAssumption DEF Capped

LEMMA EmptyCapped == Capped(NoList) /\ \A m \in Nat : Capped(NewList(m))
  <1>1. NoList.list = {} /\ \A m \in Nat : NewList(m).list = {}
    BY DEF NoList, NewList, Empty
  <1>2. IsFiniteSet({}) /\ Cardinality({}) = 0
    BY FS_EmptySet
  <1>3. \A e : {} \ e = {}
    OBVIOUS
  <1> QED
    BY <1>1, <1>2, <1>3, BoundsAssumption DEF Capped

LEMMA ExtendedCapped ==
  ASSUME NEW w \in List, Capped(w), NEW from \in Breed, NEW to \in Breed, NEW s
  PROVE  Capped(Extended(w, from, to, s))
  <1> DEFINE x == Extended(w, from, to, s)
  <1>1. x.list = w.list \cup {to} /\ x.executed = w.executed \cup {to}
    BY DEF Extended, List
  <1>2. IsFiniteSet(x.list)
    BY <1>1, FS_AddElement DEF Capped
  <1> HIDE DEF x
  <1>3. x.list \ x.executed \subseteq w.list \ w.executed
    BY <1>1
  <1>4. Capped(x)
    BY <1>2, <1>3, CappedStays
  <1> QED
    BY <1>4 DEF x

LEMMA ExpandedCapped ==
  ASSUME NEW w \in List, Capped(w), NEW from \in Breed, NEW to \in Breed
  PROVE  Capped(Expanded(w, to, from))
  <1>1. CASE Expanded(w, to, from) = w
    BY <1>1
  <1>2. CASE /\ Expanded(w, to, from) = WithTarget(w, to, from)
             /\ to \notin w.list /\ ~(Cardinality(w.list) >= MaxFanout)
    <2> DEFINE x == WithTarget(w, to, from)
    <2>1. x.list = w.list \cup {to} /\ x.executed = w.executed
      BY DEF WithTarget, List
    <2> HIDE DEF x
    <2>2. /\ IsFiniteSet(x.list) /\ Cardinality(x.list) = Cardinality(w.list) + 1
      <3>1. IsFiniteSet(w.list) /\ to \notin w.list
        BY <1>2 DEF Capped
      <3> QED
        BY <2>1, <3>1, FS_AddElement
    <2>3. /\ IsFiniteSet(x.list \ x.executed)
          /\ Cardinality(x.list \ x.executed) <= Cardinality(x.list)
      BY <2>2, FS_Subset
    <2>4. Cardinality(w.list) \in Nat /\ Cardinality(x.list \ x.executed) \in Nat
      BY <2>3, FS_CardinalityType DEF Capped
    <2>5. Capped(x)
      BY <1>2, <2>2, <2>3, <2>4, BoundsAssumption DEF Capped
    <2> QED
      BY <1>2, <2>5 DEF x
  <1> QED
    BY <1>1, <1>2 DEF Expanded

\* Expansion never takes the targets not yet executed past the cap
\* (worklist_registry.go:151-165), however many the chain has reached by itself.
THEOREM FanoutCapped == Spec => []ExpansionIsCapped
  <1> DEFINE C == \A i \in Inv : Capped(worklist[i])
  <1>1. Init => C
    BY EmptyCapped DEF Init
  <1>2. IInv /\ C /\ [Next]_vars => C'
    <2> SUFFICES ASSUME IInv, C, [Next]_vars PROVE C'
      OBVIOUS
    <2>0. TypeOK /\ \A i \in Inv : Tracks(worklist[i], pushes[i])
      BY DEF IInv
    <2>1. ASSUME NEW i \in Inv, NEW w, worklist' = [worklist EXCEPT ![i] = w], Capped(w)
          PROVE  C'
      <3>1. \A j \in Inv : worklist'[j] = IF j = i THEN w ELSE worklist[j]
        BY <2>0, <2>1 DEF TypeOK
      <3>2. \A j \in Inv : Capped(worklist'[j])
        BY <2>1, <3>1
      <3> QED
        BY <3>2 DEF Capped
    <2>2. ASSUME NEW i \in Inv PROVE Found(i) \in List /\ Capped(Found(i))
      BY <2>0, FoundOK, EmptyCapped DEF Found
    <2>3. CASE UNCHANGED vars
      BY <2>3 DEF vars, Capped
    <2>4. ASSUME NEW i \in Inv, Register(i) \/ Look(i) \/ Done(i) PROVE C'
      BY <2>1, <2>2, <2>4, EmptyCapped, BoundsAssumption DEF Register, Look, Done
    <2>5. ASSUME NEW i \in Inv, NEW from \in Breed, NEW to \in Breed, Expand(i, to, from) PROVE C'
      BY <2>1, <2>2, <2>5, ExpandedCapped DEF Expand
    <2>6. ASSUME NEW i \in Inv, NEW from \in Breed, NEW to \in Breed, NEW s \in BOOLEAN,
                 Push(i, from, to, s) \/ Refuse(i, from, to, s)
          PROVE  C'
      BY <2>1, <2>2, <2>6, ExtendedCapped DEF Push, Refuse
    <2> QED
      BY <2>3, <2>4, <2>5, <2>6 DEF Next
  <1>3. C => ExpansionIsCapped
    BY DEF Capped, ExpansionIsCapped
  <1> QED
    BY <1>1, <1>2, <1>3, Invariance, PTL DEF Spec
=============================================================================
