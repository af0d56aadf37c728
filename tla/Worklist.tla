------------------------------ MODULE Worklist ------------------------------
(***************************************************************************)
(* The registry of worklists: one budget of depth and patience for each    *)
(* invocation, that is for each user message or resumed hold and all the   *)
(* handoffs it leads to.  Every method runs under a lock, so each is one   *)
(* step; the registry creates a worklist for any invocation it is asked    *)
(* about.  A lookup is not under the same lock as the work on what it      *)
(* found: a Done between the two is here a Done after both, which no       *)
(* method can tell apart, for nobody finds a released worklist again.      *)
(*                                                                         *)
(* pushes is a history: the handoffs accepted since the worklist was made. *)
(***************************************************************************)
EXTENDS Integers, Sequences, FiniteSets

CONSTANTS Inv,         \* invocations
          Breed, None,
          MaxDepth,    \* what Register is called with
          MaxFanout    \* maxWorklistFanout, 16

ASSUME NoneIsNoBreed == None \notin Breed
ASSUME BoundsAssumption == MaxDepth \in Nat /\ MaxFanout \in Nat

VARIABLES worklist, pushes

vars == <<worklist, pushes>>

PingPongBlock == 4

\* Register falls back on the ping-pong threshold, as does a worklist nobody registered.
Depth(max) == IF max = 0 THEN PingPongBlock ELSE max

Empty(live, max) ==
  [live |-> live, depth |-> 0, max |-> max, pair |-> {}, streak |-> 0, list |-> {},
   a2aFrom |-> [b \in Breed |-> None], executed |-> {}]

NoList == Empty(FALSE, 0)
NewList(max) == Empty(TRUE, Depth(max))

\* A pair told apart by who hands off to whom.
OrderedPair(a, b) == {a}

UnorderedPair(a, b) == {a, b}

\* Every method but Register and Done takes the worklist of i as it is, or a new one.
Found(i) == IF worklist[i].live THEN worklist[i] ELSE NewList(0)

Streak(w, pair, substantive) ==
  IF ~substantive /\ w.streak > 0 /\ pair = w.pair THEN w.streak + 1 ELSE 1

\* An entry of the history.
Handoff(pair, substantive) == [pair |-> pair, substantive |-> substantive]
-----------------------------------------------------------------------------
Init == worklist = [i \in Inv |-> NoList] /\ pushes = [i \in Inv |-> <<>>]

\* A second call for the same invocation is a no-op, here no step at all.
Register(i) ==
  /\ ~worklist[i].live
  /\ worklist' = [worklist EXCEPT ![i] = NewList(MaxDepth)]
  /\ UNCHANGED pushes

\* Depth ceiling, then the streak.
Accepts(w, from, to, substantive) ==
  /\ w.depth < w.max
  /\ Streak(w, UnorderedPair(from, to), substantive) < PingPongBlock

\* A bug to look for: the last to hand off to a target takes the attribution.
LastFrom(w, to, from) == [w.a2aFrom EXCEPT ![to] = from]

\* The first to bring a target in keeps the attribution.
FirstFrom(w, to, from) ==
  IF to \in w.list \/ w.a2aFrom[to] # None THEN w.a2aFrom ELSE [w.a2aFrom EXCEPT ![to] = from]

\* What an accepted handoff makes of the worklist.
Extended(w, from, to, substantive) ==
  LET pair == UnorderedPair(from, to)
  IN  [w EXCEPT !.depth = w.depth + 1, !.pair = pair, !.streak = Streak(w, pair, substantive),
                !.list = w.list \cup {to}, !.executed = w.executed \cup {to},
                !.a2aFrom = FirstFrom(w, to, from)]

Push(i, from, to, substantive) ==
  /\ Accepts(Found(i), from, to, substantive)
  /\ worklist' = [worklist EXCEPT ![i] = Extended(Found(i), from, to, substantive)]
  /\ pushes' = [pushes EXCEPT ![i] = Append(pushes[i], Handoff({from, to}, substantive))]

\* A refused handoff leaves depth and streak as they were.
Refuse(i, from, to, substantive) ==
  /\ ~Accepts(Found(i), from, to, substantive)
  /\ worklist' = [worklist EXCEPT ![i] = Found(i)]
  /\ UNCHANGED pushes

\* A target taken in without saying from whom.
WithTargetOnly(w, to, from) == [w EXCEPT !.list = w.list \cup {to}]

WithTarget(w, to, from) ==
  [w EXCEPT !.list = w.list \cup {to}, !.a2aFrom = [w.a2aFrom EXCEPT ![to] = from]]

\* A bug to look for: only executed targets count against the cap.
ExpandedPastCap(w, to, from) ==
  IF to \in w.list \/ Cardinality(w.executed) >= MaxFanout THEN w ELSE WithTarget(w, to, from)

\* One target of PushToWorklist: skipped if known or executed, refused past the cap.
Expanded(w, to, from) ==
  IF to \in w.list \/ to \in w.executed \/ Cardinality(w.list) >= MaxFanout
  THEN w ELSE WithTarget(w, to, from)

Expand(i, to, from) ==
  /\ worklist' = [worklist EXCEPT ![i] = Expanded(Found(i), to, from)]
  /\ UNCHANGED pushes

\* List and A2AFrom only read, but create the worklist they read.
Look(i) == worklist' = [worklist EXCEPT ![i] = Found(i)] /\ UNCHANGED pushes

Done(i) ==
  /\ worklist' = [worklist EXCEPT ![i] = NoList]
  /\ pushes' = [pushes EXCEPT ![i] = <<>>]

Next ==
  \E i \in Inv :
    \/ Register(i) \/ Look(i) \/ Done(i)
    \/ \E from, to \in Breed :
         /\ from # to
         /\ \/ Expand(i, to, from)
            \/ \E substantive \in BOOLEAN :
                 Push(i, from, to, substantive) \/ Refuse(i, from, to, substantive)

Spec == Init /\ [][Next]_vars
-----------------------------------------------------------------------------
List == [live : BOOLEAN, depth : Nat, max : Nat, pair : SUBSET Breed, streak : Nat,
         list : SUBSET Breed, a2aFrom : [Breed -> Breed \cup {None}], executed : SUBSET Breed]
HandoffSet == [pair : SUBSET Breed, substantive : BOOLEAN]

Attributed(w) == /\ w.list = {b \in Breed : w.a2aFrom[b] # None}
                 /\ w.executed \subseteq w.list

\* Types; a worklist knows who brought in each of its targets, and only of them.
TypeOK ==
  /\ worklist \in [Inv -> List] /\ \A i \in Inv : Attributed(worklist[i])
  /\ pushes \in [Inv -> Seq(HandoffSet)]

Varied(p) ==
  \A n \in 1..Len(p) - 3 : \E k \in n + 1..n + 3 : p[k].pair # p[n].pair \/ p[k].substantive

\* However handoffs of several pairs, refusals and expansions interleave, the same two
\* dogs never get four handoffs in a row of which the last three were small talk.
NoPingPong == \A i \in Inv : Varied(pushes[i])

\* Recursive dispatches register again and again, and the budget of the invocation stays
\* one: it never gets more handoffs than the ceiling it was registered or found with.
DepthIsOneBudget ==
  \A i \in Inv : Len(pushes[i]) <= (IF worklist[i].live THEN worklist[i].max ELSE 0)

\* Who brought a target in is never rewritten while the worklist lives.
AttributionStands ==
  [][\A i \in Inv, b \in Breed :
       worklist[i].a2aFrom[b] # None /\ worklist'[i].live
         => worklist'[i].a2aFrom[b] = worklist[i].a2aFrom[b]]_vars

\* Expansion at run time never takes the targets not yet executed past the cap, however
\* many the chain itself has reached.
ExpansionIsCapped ==
  \A i \in Inv : Cardinality(worklist[i].list \ worklist[i].executed) <= MaxFanout
=============================================================================
