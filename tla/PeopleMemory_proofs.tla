------------------------- MODULE PeopleMemory_proofs -------------------------
(***************************************************************************)
(* Proofs about PeopleMemory, for any candidates, keys, offers and bounds.  *)
(* The invariant adds what the identifiers are for: an item is found under  *)
(* one id, no id is given out twice, and what a decision made is about the  *)
(* person it was made for.                                                  *)
(***************************************************************************)
EXTENDS PeopleMemory, FiniteSetTheorems, TLAPS

(* An id stands for one item, and was given out.                            *)
Numbered ==
    /\ \A i, j \in items : i.id = j.id => i = j
    /\ \A i \in items : i.id <= made

(* A decision refers to ids given out, and its items are of its person and   *)
(* of its drafts.                                                           *)
MadeBy(r, i) ==
    i.person = r.person /\ \E d \in r.drafts : i.of = <<r.candidate, d>>
Attributed ==
    \A r \in decisions :
        /\ r.person \in 1..born
        /\ r.items \subseteq 1..made
        /\ \A i \in items : i.id \in r.items => MadeBy(r, i)

(* A candidate has a verdict, or none yet, for each of its drafts.          *)
Judged ==
    \A c \in Candidate :
        Exists(c) => cands[c].decision \in [Drafts(c) -> Verdict]

IInv == /\ TypeOK /\ Numbered /\ Attributed /\ Judged
        /\ ForgetIsFinal /\ ApprovedIsThere /\ NothingHidden /\ DecisionsStand
-----------------------------------------------------------------------------
(* What a step may do to the items: it drops some, changes what others say, *)
(* and adds some under new numbers.                                         *)
Rewritten ==
    /\ items' \subseteq Item
    /\ made' \in made..MaxItems
    /\ \A i, j \in items' : i.id = j.id => i = j
    /\ \A j \in items' :
         /\ j.id <= made'
         /\ \/ j.id > made
            \/ \E i \in items : /\ i.id = j.id /\ i.person = j.person
                               /\ i.of = j.of

LEMMA WithStatusIs ==
    ASSUME NEW i \in Item, NEW s \in Status
    PROVE  LET j == Marked(i, i.key, s) IN
           /\ j \in Item /\ j.status = s
           /\ j.id = i.id /\ j.person = i.person /\ j.key = i.key
           /\ j.of = i.of
    BY DEF Item, Marked

LEMMA RestatusIs ==
    ASSUME NEW T \in SUBSET Item, NEW I \in SUBSET T, NEW s \in Status
    PROVE  /\ Restatus(T, I, s) \subseteq Item
           /\ Ids(Restatus(T, I, s)) = Ids(T)
           /\ \A j \in Restatus(T, I, s) :
                \/ j \in T \ I
                \/ \E i \in I : /\ j.id = i.id /\ j.person = i.person
                                /\ j.key = i.key /\ j.status = s /\ j.of = i.of
           /\ (\A i, j \in T : i.id = j.id => i = j) =>
                \A i, j \in Restatus(T, I, s) : i.id = j.id => i = j
<1>1. \A j \in Restatus(T, I, s) :
          \/ j \in T \ I
          \/ \E i \in I : j = Marked(i, i.key, s)
    BY DEF Restatus, WithStatus
<1>2. \A i \in I : Marked(i, i.key, s) \in Restatus(T, I, s)
    BY DEF Restatus, WithStatus
<1>3. \A i \in T \ I : i \in Restatus(T, I, s)
    BY DEF Restatus
<1>4. \A i \in I : /\ Marked(i, i.key, s) \in Item
                   /\ Marked(i, i.key, s).status = s
                   /\ Marked(i, i.key, s).id = i.id
                   /\ Marked(i, i.key, s).person = i.person
                   /\ Marked(i, i.key, s).key = i.key
                   /\ Marked(i, i.key, s).of = i.of
    BY WithStatusIs
<1>5. Restatus(T, I, s) \subseteq Item
    BY <1>1, <1>4
<1>6. \A j \in Restatus(T, I, s) :
          \/ j \in T \ I
          \/ \E i \in I : /\ j.id = i.id /\ j.person = i.person
                          /\ j.key = i.key /\ j.status = s /\ j.of = i.of
    BY <1>1, <1>4
<1>7. Ids(Restatus(T, I, s)) = Ids(T)
  <2>1. \A n \in Ids(Restatus(T, I, s)) : n \in Ids(T)
      BY <1>6 DEF Ids
  <2>2. \A i \in T : i.id \in Ids(Restatus(T, I, s))
      BY <1>2, <1>3, <1>4 DEF Ids
  <2> QED
      BY <2>1, <2>2 DEF Ids
<1>8. ASSUME \A i, j \in T : i.id = j.id => i = j
      PROVE  \A i, j \in Restatus(T, I, s) : i.id = j.id => i = j
  <2> TAKE j, k \in Restatus(T, I, s)
  <2> HAVE j.id = k.id
  <2>1. CASE j \in T \ I /\ k \in T \ I
      BY <2>1, <1>8
  <2>2. CASE j \notin T \ I
    <3>1. PICK i \in I : j = Marked(i, i.key, s)
        BY <2>2, <1>1
    <3>2. j.id = i.id
        BY <3>1, <1>4
    <3>3. k \notin T \ I
        BY <3>2, <1>8
    <3>4. PICK h \in I : k = Marked(h, h.key, s)
        BY <3>3, <1>1
    <3>5. k.id = h.id
        BY <3>4, <1>4
    <3>6. h = i
        BY <3>2, <3>5, <1>8
    <3> QED
        BY <3>1, <3>4, <3>6
  <2>3. CASE k \notin T \ I
    <3>1. PICK i \in I : k = Marked(i, i.key, s)
        BY <2>3, <1>1
    <3>2. k.id = i.id
        BY <3>1, <1>4
    <3>3. j \notin T \ I
        BY <3>2, <1>8
    <3>4. PICK h \in I : j = Marked(h, h.key, s)
        BY <3>3, <1>1
    <3>5. j.id = h.id
        BY <3>4, <1>4
    <3>6. h = i
        BY <3>2, <3>5, <1>8
    <3> QED
        BY <3>1, <3>4, <3>6
  <2> QED
      BY <2>1, <2>2, <2>3
<1> QED
    BY <1>5, <1>6, <1>7, <1>8

LEMMA RestatusPeople ==
    ASSUME NEW T \in SUBSET Item, NEW I \in SUBSET T, NEW s \in Status,
           NEW j \in Restatus(T, I, s)
    PROVE  \E i \in T : j.person = i.person
<1>1. j \in T \ I \/ \E i \in I : j = Marked(i, i.key, s)
    BY DEF Restatus, WithStatus
<1> QED
    BY <1>1, WithStatusIs

(* The places of the drafts of a set of claims, and how many it makes.      *)
LEMMA Places ==
    ASSUME NEW D \in SUBSET ClaimDraft, made \in Nat
    PROVE  /\ IsFiniteSet(D) /\ Cardinality(D) \in Nat
           /\ \A d \in D : IdOf(D, d) \in (made + 1)..(made + Cardinality(D))
           /\ \A d, e \in D : IdOf(D, d) = IdOf(D, e) => d = e
<1>1. D = {} \/ D = {"d1"} \/ D = {"d2"} \/ D = {"d1", "d2"}
    BY DEF ClaimDraft
<1>2. \A d \in D : {e \in D : Before(e, d)} = IF d = "d2" /\ "d1" \in D THEN {"d1"} ELSE {}
    BY DEF Before
<1>3. \A d \in D : IdOf(D, d) = IF d = "d2" /\ "d1" \in D THEN made + 2 ELSE made + 1
  <2> TAKE d \in D
  <2>1. Cardinality({e \in D : Before(e, d)}) = IF d = "d2" /\ "d1" \in D THEN 1 ELSE 0
      BY <1>2, FS_EmptySet, FS_Singleton
  <2> QED
      BY <2>1 DEF IdOf
<1>4. IsFiniteSet(D) /\ Cardinality(D) = IF D = {} THEN 0 ELSE IF D = {"d1", "d2"} THEN 2 ELSE 1
  <2>1. CASE D = {}
      BY <2>1, FS_EmptySet
  <2>2. CASE D = {"d1"}
      BY <2>2, FS_Singleton
  <2>3. CASE D = {"d2"}
    <3>1. D # {} /\ D # {"d1", "d2"}
        BY <2>3
    <3> QED
        BY <2>3, <3>1, FS_Singleton
  <2>4. CASE D = {"d1", "d2"}
    <3>1. D = {"d1"} \cup {"d2"} /\ "d2" \notin {"d1"}
        BY <2>4
    <3>2. IsFiniteSet({"d1"}) /\ Cardinality({"d1"}) = 1
        BY FS_Singleton
    <3>3. IsFiniteSet({"d1"} \cup {"d2"}) /\ Cardinality({"d1"} \cup {"d2"}) = 2
        BY <3>1, <3>2, FS_AddElement
    <3> QED
        BY <3>1, <3>3, <2>4
  <2> QED
      BY <1>1, <2>1, <2>2, <2>3, <2>4
<1> QED
    BY <1>1, <1>3, <1>4 DEF ClaimDraft

(* A candidate's offer is typed, and so is what an approval reads of it.     *)
LEMMA CandidateIs ==
    ASSUME TypeOK, NEW c \in Candidate, Exists(c)
    PROVE  /\ cands[c] \in CaptureCandidate /\ cands[c].offer \in Offer
           /\ Drafts(c) \in SUBSET Draft
           /\ \A d \in Drafts(c) : KeyOf(c, d) \in Payload
           /\ cands[c].offer.target \in Person \cup {NoPerson}
           /\ cands[c].state \in CandidateState
<1>1. cands[c] \in CaptureCandidate
    BY DEF TypeOK, Exists
<1>2. cands[c].offer \in Offer /\ cands[c].state \in CandidateState
    BY <1>1 DEF CaptureCandidate
<1>3. /\ cands[c].offer.drafts \in UNION {[D -> Payload] : D \in SUBSET Draft}
      /\ cands[c].offer.target \in Person \cup {NoPerson}
    BY <1>2 DEF Offer
<1>4. PICK D \in SUBSET Draft : cands[c].offer.drafts \in [D -> Payload]
    BY <1>3
<1> QED
    BY <1>1, <1>2, <1>3, <1>4 DEF Drafts, KeyOf

(* The person an approval is about, and that she is there afterwards.        *)
LEMMA AboutIs ==
    ASSUME TypeOK, NEW c \in Candidate, Exists(c), Approvable(c), RoomForPerson(c)
    PROVE  /\ About(c) \in Person
           /\ About(c) \in people \cup Born(c)
           /\ About(c) \in 1..(born + Cardinality(Born(c)))
           /\ born + Cardinality(Born(c)) \in born..MaxPeople
           /\ people \cup Born(c) \subseteq 1..(born + Cardinality(Born(c)))
           /\ \A p \in Born(c) : p > born
<1>1. born \in Nat /\ born <= MaxPeople /\ people \subseteq 1..born /\ MaxPeople \in Nat
    BY BoundsAssumption DEF TypeOK
<1>2. CASE NewPerson(c)
  <2>1. About(c) = born + 1 /\ Born(c) = {About(c)} /\ Cardinality(Born(c)) = 1
      BY <1>2, FS_Singleton DEF About, Born
  <2>2. born < MaxPeople
      BY <1>2 DEF RoomForPerson
  <2> QED
      BY <1>1, <2>1, <2>2 DEF Person
<1>3. CASE ~NewPerson(c)
  <2>1. About(c) \in people /\ Born(c) = {} /\ Cardinality(Born(c)) = 0
      BY <1>3, FS_EmptySet DEF About, Born, Approvable
  <2>2. About(c) \in 1..born /\ About(c) \in Person
    <3>1. \A p \in people : p \in 1..born
        BY <1>1
    <3>2. \A p \in 1..born : p \in Person
        BY <1>1 DEF Person
    <3> QED
        BY <2>1, <3>1, <3>2
  <2>3. born + Cardinality(Born(c)) = born
      BY <1>1, <2>1
  <2> QED
      BY <1>1, <2>1, <2>2, <2>3
<1> QED
    BY <1>2, <1>3

(* The claims of an approval: typed, numbered one by one, about the person.  *)
LEMMA ClaimsAre ==
    ASSUME TypeOK, NEW c \in Candidate, Exists(c), Approvable(c), RoomForPerson(c),
           NEW D \in SUBSET (ClaimDraft \cap Drafts(c))
    PROVE  /\ IsFiniteSet(Claims(c, D)) /\ Cardinality(Claims(c, D)) = Cardinality(D)
           /\ Cardinality(D) \in Nat
           /\ \A i \in Claims(c, D) :
                /\ i.id \in (made + 1)..(made + Cardinality(D))
                /\ i.person = About(c)
                /\ \E d \in D : i.of = <<c, d>>
                /\ made + Cardinality(D) <= MaxItems => i \in Item
           /\ \A d \in D : \E i \in Claims(c, D) : i.of = <<c, d>>
           /\ \A i, j \in Claims(c, D) : i.id = j.id => i = j
<1> DEFINE Mark(d) == IF \E e \in D : Before(d, e) /\ KeyOf(c, e) = KeyOf(c, d)
                      THEN "superseded" ELSE "current"
           Made(d) == [id |-> IdOf(D, d), person |-> About(c), key |-> KeyOf(c, d),
                       status |-> Mark(d), of |-> <<c, d>>]
<1>1. Claims(c, D) = {Made(d) : d \in D}
    BY DEF Claims
<1>2. made \in Nat /\ MaxItems \in Nat /\ D \in SUBSET ClaimDraft
    BY BoundsAssumption DEF TypeOK
<1>3. /\ IsFiniteSet(D) /\ Cardinality(D) \in Nat
      /\ \A d \in D : IdOf(D, d) \in (made + 1)..(made + Cardinality(D))
      /\ \A d, e \in D : IdOf(D, d) = IdOf(D, e) => d = e
    BY <1>2, Places
<1>4. \A d \in D : KeyOf(c, d) \in Payload
    BY CandidateIs
<1>5. About(c) \in Person
    BY AboutIs
<1>6. \A d \in D : Mark(d) \in Status
    BY DEF Status
<1>7. \A d \in D : /\ Made(d).id = IdOf(D, d) /\ Made(d).person = About(c)
                   /\ Made(d).key = KeyOf(c, d) /\ Made(d).status = Mark(d)
                   /\ Made(d).of = <<c, d>>
    OBVIOUS
<1>8. \A d \in D : made + Cardinality(D) <= MaxItems => Made(d) \in Item
  <2> SUFFICES ASSUME NEW d \in D, made + Cardinality(D) <= MaxItems
               PROVE  Made(d) \in Item
      OBVIOUS
  <2>1. IdOf(D, d) \in ItemId
      BY <1>2, <1>3 DEF ItemId
  <2> HIDE DEF Mark
  <2>2. <<c, d>> \in Origin
      BY <1>2 DEF Origin, Draft
  <2> QED
      BY <2>1, <2>2, <1>4, <1>5, <1>6 DEF Item
<1>9. IsFiniteSet(Claims(c, D)) /\ Cardinality(Claims(c, D)) = Cardinality(D)
  <2> HIDE DEF Made
  <2>1. D = {} \/ D = {"d1"} \/ D = {"d2"} \/ D = {"d1", "d2"}
      BY <1>2 DEF ClaimDraft
  <2>2. CASE D = {}
    <3>1. Claims(c, D) = {}
        BY <2>2, <1>1
    <3> QED
        BY <2>2, <3>1, FS_EmptySet
  <2>3. CASE D = {"d1"}
    <3>1. Claims(c, D) = {Made("d1")}
        BY <2>3, <1>1
    <3> QED
        BY <2>3, <3>1, FS_Singleton
  <2>4. CASE D = {"d2"}
    <3>1. Claims(c, D) = {Made("d2")}
        BY <2>4, <1>1
    <3> QED
        BY <2>4, <3>1, FS_Singleton
  <2>5. CASE D = {"d1", "d2"}
    <3>1. Claims(c, D) = {Made("d1")} \cup {Made("d2")}
        BY <2>5, <1>1
    <3>2. Made("d2") \notin {Made("d1")}
        BY <2>5, <1>3, <1>7
    <3>3. IsFiniteSet({Made("d1")}) /\ Cardinality({Made("d1")}) = 1
        BY FS_Singleton
    <3>4. IsFiniteSet(Claims(c, D)) /\ Cardinality(Claims(c, D)) = 2
        BY <3>1, <3>2, <3>3, FS_AddElement
    <3>5. IsFiniteSet({"d1"}) /\ Cardinality({"d1"}) = 1 /\ "d2" \notin {"d1"}
        BY FS_Singleton
    <3>6. D = {"d1"} \cup {"d2"}
        BY <2>5
    <3>7. Cardinality({"d1"} \cup {"d2"}) = 2
        BY <3>5, FS_AddElement
    <3> QED
        BY <3>4, <3>6, <3>7
  <2> QED
      BY <2>1, <2>2, <2>3, <2>4, <2>5
<1> HIDE DEF Made, Mark
<1> QED
    BY <1>1, <1>3, <1>7, <1>8, <1>9

(* ... and with its interaction, which comes last: the new items of an       *)
(* approval, one for each of its drafts.                                    *)
Fresh(c, D, new) ==
    /\ Cardinality(new) \in Nat /\ made + Cardinality(new) <= MaxItems
    /\ new \subseteq Item
    /\ \A i \in new : /\ i.id \in (made + 1)..(made + Cardinality(new))
                      /\ i.person = About(c)
    /\ \A i, j \in new : i.id = j.id => i = j
MadeOf(c, D, E, new) ==
    /\ \A i \in new : \E d \in D \cup {"event"} :
          i.of = <<c, d>> /\ (d = "event" => E # {})
    /\ \A d \in D : \E i \in new : i.of = <<c, d>>
    /\ E # {} => \E i \in new : i.of = <<c, "event">>

LEMMA NewItemsAre ==
    ASSUME TypeOK, NEW c \in Candidate, Exists(c), Approvable(c), RoomForPerson(c),
           NEW D \in SUBSET (ClaimDraft \cap Drafts(c)),
           NEW E \in {{}, Event(c, D)}, Room(Cardinality(Claims(c, D) \cup E))
    PROVE  Fresh(c, D, Claims(c, D) \cup E) /\ MadeOf(c, D, E, Claims(c, D) \cup E)
<1>1. made \in Nat /\ MaxItems \in Nat
    BY BoundsAssumption DEF TypeOK
<1>2. /\ IsFiniteSet(Claims(c, D)) /\ Cardinality(Claims(c, D)) = Cardinality(D)
      /\ Cardinality(D) \in Nat
      /\ \A i \in Claims(c, D) :
           /\ i.id \in (made + 1)..(made + Cardinality(D))
           /\ i.person = About(c)
           /\ \E d \in D : i.of = <<c, d>>
           /\ made + Cardinality(D) <= MaxItems => i \in Item
      /\ \A d \in D : \E i \in Claims(c, D) : i.of = <<c, d>>
      /\ \A i, j \in Claims(c, D) : i.id = j.id => i = j
    BY ClaimsAre
<1>3. CASE E = {}
  <2>1. Claims(c, D) \cup E = Claims(c, D)
      BY <1>3
  <2>2. "event" \notin D
      BY DEF ClaimDraft
  <2>3. \A i \in Claims(c, D) \cup E :
           \E d \in D \cup {"event"} : i.of = <<c, d>> /\ (d = "event" => E # {})
      BY <1>2, <2>1, <2>2
  <2>4. (\A d \in D : \E i \in Claims(c, D) \cup E : i.of = <<c, d>>) /\ E = {}
      BY <1>2, <1>3, <2>1
  <2>5. /\ Cardinality(Claims(c, D) \cup E) \in Nat
        /\ made + Cardinality(Claims(c, D) \cup E) <= MaxItems
        /\ Claims(c, D) \cup E \subseteq Item
        /\ \A i \in Claims(c, D) \cup E :
             /\ i.id \in (made + 1)..(made + Cardinality(Claims(c, D) \cup E))
             /\ i.person = About(c)
        /\ \A i, j \in Claims(c, D) \cup E : i.id = j.id => i = j
      BY <1>1, <1>2, <2>1 DEF Room
  <2> QED
      BY <2>3, <2>4, <2>5 DEF Fresh, MadeOf
<1>4. CASE E = Event(c, D)
  <2> DEFINE e == [id |-> made + 1 + Cardinality(D), person |-> About(c),
                   key |-> "event", status |-> "current", of |-> <<c, "event">>]
  <2>1. /\ E = {e} /\ e.id = made + 1 + Cardinality(D) /\ e.person = About(c)
        /\ e.of = <<c, "event">>
      BY <1>4 DEF Event
  <2>2. made + Cardinality(D) + 1 <= MaxItems => e \in Item
    <3> SUFFICES ASSUME made + Cardinality(D) + 1 <= MaxItems PROVE e \in Item
        OBVIOUS
    <3>1. made + 1 + Cardinality(D) \in ItemId
        BY <1>1, <1>2 DEF ItemId
    <3>2. About(c) \in Person
        BY AboutIs
    <3>3. <<c, "event">> \in Origin
        BY DEF Origin, Draft
    <3> QED
        BY <3>1, <3>2, <3>3 DEF Item, Payload, Marks, Status
  <2> HIDE DEF e
  <2>3. e \notin Claims(c, D)
      BY <1>1, <1>2, <2>1
  <2>4. Claims(c, D) \cup E = Claims(c, D) \cup {e}
      BY <2>1
  <2>5. Cardinality(Claims(c, D) \cup E) = Cardinality(D) + 1
    <3>1. Cardinality(Claims(c, D) \cup {e}) = Cardinality(Claims(c, D)) + 1
        BY <1>2, <2>3, FS_AddElement
    <3> QED
        BY <3>1, <1>2, <2>4
  <2>6. made + Cardinality(D) + 1 <= MaxItems
      BY <2>5, <1>1, <1>2 DEF Room
  <2>7. Claims(c, D) \cup E \subseteq Item
      BY <1>1, <1>2, <2>2, <2>4, <2>6
  <2>8. \A i \in Claims(c, D) \cup E :
          /\ i.id \in (made + 1)..(made + Cardinality(D) + 1)
          /\ i.person = About(c)
      BY <1>1, <1>2, <2>1, <2>4
  <2>9. \A i, j \in Claims(c, D) \cup E : i.id = j.id => i = j
      BY <1>1, <1>2, <2>1, <2>4
  <2> DEFINE n == Cardinality(Claims(c, D) \cup E)
  <2>10. n = Cardinality(D) + 1 /\ n \in Nat /\ made + n = made + Cardinality(D) + 1
      BY <1>1, <1>2, <2>5
  <2> HIDE DEF n
  <2>11. \A i \in Claims(c, D) \cup E : i.id \in (made + 1)..(made + n) /\ i.person = About(c)
      BY <2>8, <2>10
  <2>12. made + n <= MaxItems
      BY <2>6, <2>10
  <2>13. e \in Claims(c, D) \cup E /\ E # {}
      BY <2>1
  <2>14. \A i \in Claims(c, D) \cup E :
            \E d \in D \cup {"event"} : i.of = <<c, d>> /\ (d = "event" => E # {})
      BY <1>2, <2>1, <2>13
  <2>15. /\ \A d \in D : \E i \in Claims(c, D) \cup E : i.of = <<c, d>>
         /\ \E i \in Claims(c, D) \cup E : i.of = <<c, "event">>
      BY <1>2, <2>1, <2>13
  <2> USE DEF n
  <2> QED
      BY <2>7, <2>9, <2>10, <2>11, <2>12, <2>14, <2>15 DEF Fresh, MadeOf
<1> QED
    BY <1>3, <1>4
-----------------------------------------------------------------------------
(* A candidate that is staged: whatever its offer, state and verdicts, if    *)
(* it is shown as materialized they are verdicts.                            *)
LEMMA StagedIs ==
    ASSUME NEW o \in Offer, NEW s \in CandidateState,
           NEW v \in [DOMAIN o.drafts -> Verdict]
    PROVE  /\ Staged(o, s, v) \in CaptureCandidate
           /\ Staged(o, s, v).offer = o /\ Staged(o, s, v).state = s
           /\ Staged(o, s, v).decision = v
<1>1. DOMAIN o.drafts \in SUBSET Draft
  <2>1. o.drafts \in UNION {[D -> Payload] : D \in SUBSET Draft}
      BY DEF Offer
  <2> QED
      BY <2>1
<1>2. v \in Verdicts
    BY <1>1 DEF Verdicts
<1> QED
    BY <1>2 DEF Staged, CaptureCandidate

LEMMA Restaged ==
    ASSUME TypeOK, Judged, NothingHidden, NEW c \in Candidate,
           NEW o \in Offer, NEW s \in CandidateState,
           NEW v \in [DOMAIN o.drafts -> Verdict],
           s = "materialized" => \A d \in OpenIn(o) : v[d] \in Decided,
           cands' = [cands EXCEPT ![c] = Staged(o, s, v)]
    PROVE  /\ cands' \in [Candidate -> CaptureCandidate \cup {NoCandidate}]
           /\ Judged' /\ NothingHidden'
<1>1. /\ Staged(o, s, v) \in CaptureCandidate
      /\ Staged(o, s, v).offer = o /\ Staged(o, s, v).state = s
      /\ Staged(o, s, v).decision = v
    BY StagedIs
<1>2. cands' \in [Candidate -> CaptureCandidate \cup {NoCandidate}]
    BY <1>1 DEF TypeOK
<1>3. \A b \in Candidate : cands'[b] = IF b = c THEN Staged(o, s, v) ELSE cands[b]
    BY DEF TypeOK
<1> HIDE DEF Staged
<1>4. Judged'
  <2> SUFFICES ASSUME NEW b \in Candidate, Exists(b)'
               PROVE  cands'[b].decision \in
                        [DOMAIN cands'[b].offer.drafts -> Verdict]
      BY DEF Judged, Drafts
  <2>1. CASE b = c
      BY <2>1, <1>1, <1>3
  <2>2. CASE b # c
      BY <2>2, <1>3 DEF Judged, Exists, Drafts
  <2> QED
      BY <2>1, <2>2
<1>5. NothingHidden'
  <2> SUFFICES ASSUME NEW b \in Candidate, Exists(b)', cands'[b].state = "materialized",
                      NEW d \in OpenIn(cands'[b].offer)
               PROVE  cands'[b].decision[d] \in Decided
      BY DEF NothingHidden, OpenIn
  <2>1. CASE b = c
      BY <2>1, <1>1, <1>3
  <2>2. CASE b # c
      BY <2>2, <1>3 DEF NothingHidden, Exists
  <2> QED
      BY <2>1, <2>2
<1> QED
    BY <1>2, <1>4, <1>5

(* Candidates that are as they were, or gone.                                *)
LEMMA Unstaged ==
    ASSUME TypeOK, Judged, NothingHidden,
           cands' \in [Candidate -> CaptureCandidate \cup {NoCandidate}],
           \A c \in Candidate : cands'[c] \in {cands[c], NoCandidate}
    PROVE  Judged' /\ NothingHidden'
    BY DEF Judged, NothingHidden, Exists, Drafts, OpenIn

(* An item whose number is still there says what it was made of, and is of   *)
(* the same person.                                                         *)
LEMMA StillThere ==
    ASSUME TypeOK, Numbered, Rewritten, NEW i \in items, i.id \in Ids(items')
    PROVE  \E j \in items' : j.person = i.person /\ j.of = i.of
<1>1. PICK j \in items' : j.id = i.id
    BY DEF Ids
<1>2. i.id <= made /\ i.id \in Nat /\ made \in Nat
    BY BoundsAssumption DEF Numbered, TypeOK, Item, ItemId
<1>3. ~(j.id > made)
    BY <1>1, <1>2
<1>4. PICK h \in items : h.id = j.id /\ h.person = j.person /\ h.of = j.of
    BY <1>3 DEF Rewritten
<1>5. h = i
    BY <1>1, <1>4 DEF Numbered
<1> QED
    BY <1>4, <1>5

(* What the other candidates' drafts were made into stays, and of this one's *)
(* it is there.                                                             *)
LEMMA RestagedThere ==
    ASSUME TypeOK, Numbered, Rewritten, ApprovedIsThere, NEW c \in Candidate,
           NEW o \in Offer, NEW s \in CandidateState, NEW v \in [DOMAIN o.drafts -> Verdict],
           cands' = [cands EXCEPT ![c] = Staged(o, s, v)],
           \A i \in items : \A b \in Candidate \ {c} : \A d \in Draft :
              i.of = <<b, d>> => i.id \in Ids(items'),
           o.target # NoPerson =>
              \A d \in OpenIn(o) \ {"rel"} :
                 v[d] = "approved" =>
                    \E j \in items' : j.of = <<c, d>> /\ j.person = o.target
    PROVE  ApprovedIsThere'
<1>1. Staged(o, s, v).offer = o /\ Staged(o, s, v).decision = v
    BY StagedIs
<1>2. \A b \in Candidate : cands'[b] = IF b = c THEN Staged(o, s, v) ELSE cands[b]
    BY DEF TypeOK
<1> HIDE DEF Staged
<1> SUFFICES ASSUME NEW b \in Candidate, cands'[b] # NoCandidate,
                    cands'[b].offer.target # NoPerson,
                    NEW d \in OpenIn(cands'[b].offer) \ {"rel"},
                    cands'[b].decision[d] = "approved"
             PROVE  \E j \in items' :
                        j.of = <<b, d>> /\ j.person = cands'[b].offer.target
    BY DEF ApprovedIsThere, IsThere, Exists, OpenIn
<1>3. CASE b = c
    BY <1>1, <1>2, <1>3
<1>4. CASE b # c
  <2>1. cands'[b] = cands[b] /\ Exists(b)
      BY <1>2, <1>4 DEF Exists
  <2>2. d \in Draft
    <3>1. Drafts(b) \in SUBSET Draft
        BY <2>1, CandidateIs
    <3>2. d \in Drafts(b)
        BY <2>1 DEF OpenIn, Drafts
    <3> QED
        BY <3>1, <3>2
  <2>3. PICK i \in items : i.of = <<b, d>> /\ i.person = cands[b].offer.target
    <3>1. IsThere(<<b, d>>, cands[b].offer.target)
        BY <2>1 DEF ApprovedIsThere
    <3> QED
        BY <3>1 DEF IsThere
  <2>4. i.id \in Ids(items')
      BY <1>4, <2>2, <2>3
  <2>5. PICK j \in items' : j.person = i.person /\ j.of = i.of
      BY <2>4, StillThere
  <2> QED
      BY <2>1, <2>3, <2>5
<1> QED
    BY <1>3, <1>4

LEMMA UnstagedThere ==
    ASSUME TypeOK, Numbered, Rewritten, ApprovedIsThere,
           \A c \in Candidate : cands'[c] \in {cands[c], NoCandidate},
           \A i \in items : \A c \in Candidate :
              cands'[c] # NoCandidate /\ i.person = cands[c].offer.target
                 => i.id \in Ids(items')
    PROVE  ApprovedIsThere'
<1> SUFFICES ASSUME NEW b \in Candidate, cands'[b] # NoCandidate,
                    cands'[b].offer.target # NoPerson,
                    NEW d \in OpenIn(cands'[b].offer) \ {"rel"},
                    cands'[b].decision[d] = "approved"
             PROVE  \E j \in items' :
                        j.of = <<b, d>> /\ j.person = cands'[b].offer.target
    BY DEF ApprovedIsThere, IsThere, Exists, OpenIn
<1>1. cands'[b] = cands[b] /\ Exists(b)
    BY DEF Exists
<1>2. PICK i \in items : i.of = <<b, d>> /\ i.person = cands[b].offer.target
    BY <1>1 DEF ApprovedIsThere, IsThere
<1>3. i.id \in Ids(items')
    BY <1>1, <1>2
<1> QED
    BY <1>1, <1>2, <1>3, StillThere

(* The verdicts after a decision.                                            *)
LEMMA DecideIs ==
    ASSUME TypeOK, Judged, NEW c \in Candidate, Exists(c), NEW S,
           NEW verdict \in Verdict
    PROVE  /\ Decide(c, S, verdict) \in
                [DOMAIN cands[c].offer.drafts -> Verdict]
           /\ \A d \in Drafts(c) :
                Decide(c, S, verdict)[d] = IF d \in S THEN verdict ELSE cands[c].decision[d]
    BY DEF Judged, Drafts, Decide
-----------------------------------------------------------------------------
(* The items of every step but a redaction: some are dropped, some get       *)
(* another status, some are new.                                             *)
Ended == {"retired", "redacted"}
EndsStand ==
    \A i \in items, j \in items' :
        i.id = j.id /\ i.status \in Ended => j.status \in {i.status, "redacted"}

LEMMA Rewrites ==
    ASSUME TypeOK, Numbered, NEW T \in SUBSET items, NEW I \in SUBSET T,
           NEW s \in Status, \A i \in I : i.status \notin Ended,
           NEW new \in SUBSET Item, made' \in made..MaxItems,
           \A i \in new : i.id \in (made + 1)..made',
           \A i, j \in new : i.id = j.id => i = j,
           items' = Restatus(T, I, s) \cup new
    PROVE  Rewritten /\ EndsStand /\ Ids(items') = Ids(T) \cup Ids(new)
<1> DEFINE old == Restatus(T, I, s)
<1>1. made \in Nat /\ items \in SUBSET Item /\ made' \in Nat
    BY BoundsAssumption DEF TypeOK
<1>2. \A i \in Item : i.id \in Nat
    BY DEF Item, ItemId
<1>3. /\ old \subseteq Item /\ Ids(old) = Ids(T)
      /\ \A j \in old : \/ j \in T \ I
                        \/ \E i \in I : /\ j.id = i.id /\ j.person = i.person
                                        /\ j.key = i.key /\ j.status = s /\ j.of = i.of
      /\ \A i, j \in old : i.id = j.id => i = j
  <2>1. T \in SUBSET Item /\ \A i, j \in T : i.id = j.id => i = j
      BY <1>1 DEF Numbered
  <2>2. Restatus(T, I, s) \subseteq Item /\ Ids(Restatus(T, I, s)) = Ids(T)
      BY <2>1, RestatusIs
  <2>3. \A j \in Restatus(T, I, s) :
           \/ j \in T \ I
           \/ \E i \in I : /\ j.id = i.id /\ j.person = i.person
                           /\ j.key = i.key /\ j.status = s /\ j.of = i.of
      BY <2>1, RestatusIs
  <2>4. \A i, j \in Restatus(T, I, s) : i.id = j.id => i = j
      BY <2>1, RestatusIs
  <2> QED
      BY <2>2, <2>3, <2>4, Zenon
<1> HIDE DEF old
<1>4. items' = old \cup new
    BY DEF old
<1>5. \A j \in old :
          /\ j.id <= made
          /\ \E i \in items : i.id = j.id /\ i.person = j.person /\ i.of = j.of
  <2>1. \A j \in old :
            \E i \in items : i.id = j.id /\ i.person = j.person /\ i.of = j.of
      BY <1>3, Zenon
  <2> QED
      BY <2>1 DEF Numbered
<1>6. \A i \in new : i.id > made /\ i.id <= made' /\ i.id \in Nat
    BY <1>1, <1>2
<1>7. Rewritten
  <2>1. items' \subseteq Item
      BY <1>3, <1>4
  <2>2. \A i, j \in items' : i.id = j.id => i = j
    <3> SUFFICES ASSUME NEW i \in items', NEW j \in items', i.id = j.id PROVE i = j
        OBVIOUS
    <3>1. CASE i \in old /\ j \in old
        BY <3>1, <1>3
    <3>2. CASE i \in new /\ j \in new
        BY <3>2
    <3>3. CASE (i \in old /\ j \in new) \/ (i \in new /\ j \in old)
      <4>1. i.id <= made /\ i.id > made
          BY <3>3, <1>5, <1>6
      <4>2. i.id \in Nat
          BY <1>2, <2>1
      <4> QED
          BY <4>1, <4>2, <1>1
    <3> QED
        BY <1>4, <3>1, <3>2, <3>3
  <2>3. \A j \in items' :
          /\ j.id <= made'
          /\ \/ j.id > made
             \/ \E i \in items : /\ i.id = j.id /\ i.person = j.person
                                /\ i.of = j.of
    <3> TAKE j \in items'
    <3>1. CASE j \in new
        BY <3>1, <1>6
    <3>2. CASE j \in old
      <4>1. j.id <= made /\ j.id \in Nat
          BY <3>2, <1>2, <1>3, <1>5
      <4>2. j.id <= made'
          BY <4>1, <1>1
      <4> QED
          BY <4>2, <3>2, <1>5
    <3> QED
        BY <1>4, <3>1, <3>2
  <2> QED
      BY <2>1, <2>2, <2>3 DEF Rewritten
<1>8. EndsStand
  <2> SUFFICES ASSUME NEW i \in items, NEW j \in items', i.id = j.id, i.status \in Ended
               PROVE  j.status \in {i.status, "redacted"}
      BY DEF EndsStand
  <2>1. CASE j \in new
    <3>1. i.id <= made /\ j.id > made /\ i.id \in Nat
        BY <2>1, <1>1, <1>2, <1>6 DEF Numbered
    <3> QED
        BY <3>1, <1>1
  <2>2. CASE j \in T \ I
    <3>1. i = j
        BY <2>2 DEF Numbered
    <3> QED
        BY <3>1
  <2>3. CASE \E h \in I : j.id = h.id
    <3>1. PICK h \in I : j.id = h.id
        BY <2>3
    <3>2. h = i
        BY <3>1 DEF Numbered
    <3> QED
        BY <3>1, <3>2
  <2> QED
      BY <1>3, <1>4, <2>1, <2>2, <2>3
<1>9. Ids(items') = Ids(T) \cup Ids(new)
    BY <1>3, <1>4 DEF Ids
<1> QED
    BY <1>7, <1>8, <1>9

(* What the decisions say survives: the old ones lose nothing of a person    *)
(* who stays, and the new one, if there is one, made only new items.         *)
LEMMA DecisionsKept ==
    ASSUME IInv, Rewritten, born' \in Nat, born' >= born,
           \A p \in people' : p \in people \/ p > born,
           NEW Q, \A q, r \in Q : q = r,
           decisions' \subseteq decisions \cup Q,
           \A r \in decisions \cap decisions' :
              r.person \in people' => r.items \cap Ids(items) \subseteq Ids(items'),
           \A q \in Q : /\ q.person \in 1..born'
                        /\ q.items \subseteq (made + 1)..made'
                        /\ q.items \subseteq Ids(items')
                        /\ \A i \in items' : i.id \in q.items => MadeBy(q, i)
    PROVE  Numbered' /\ Attributed' /\ DecisionsStand'
<1>1. made \in Nat /\ made' \in Nat /\ made' >= made /\ born \in Nat
    BY BoundsAssumption DEF IInv, TypeOK, Rewritten
<1>2. Numbered'
    BY DEF Rewritten, Numbered
<1>3. \A r \in decisions : r.person \in 1..born /\ r.items \subseteq 1..made
    BY DEF IInv, Attributed
<1>4. Attributed'
  <2> SUFFICES ASSUME NEW r \in decisions'
               PROVE  /\ r.person \in 1..born'
                      /\ r.items \subseteq 1..made'
                      /\ \A i \in items' : i.id \in r.items => MadeBy(r, i)
      BY DEF Attributed
  <2>1. CASE r \in decisions
    <3>1. r.person \in 1..born' /\ r.items \subseteq 1..made'
        BY <2>1, <1>1, <1>3
    <3>2. ASSUME NEW i \in items', i.id \in r.items PROVE MadeBy(r, i)
      <4>1. i.id \in 1..made
          BY <3>2, <2>1, <1>3
      <4>2. ~(i.id > made)
          BY <4>1, <1>1
      <4>3. PICK h \in items : h.id = i.id /\ h.person = i.person /\ h.of = i.of
          BY <4>2 DEF Rewritten
      <4>4. MadeBy(r, h)
          BY <4>3, <3>2, <2>1 DEF IInv, Attributed
      <4> QED
          BY <4>3, <4>4 DEF MadeBy
    <3> QED
        BY <3>1, <3>2
  <2>2. CASE r \in Q
    <3>1. r.items \subseteq 1..made'
        BY <2>2, <1>1
    <3> QED
        BY <2>2, <3>1
  <2> QED
      BY <2>1, <2>2
<1>5. ASSUME NEW r \in decisions', r.person \in people' PROVE r.items \subseteq Ids(items')
  <2>1. CASE r \in decisions
    <3>1. r.person \in people
        BY <2>1, <1>1, <1>3, <1>5
    <3>2. r.items \subseteq Ids(items)
        BY <2>1, <3>1 DEF IInv, DecisionsStand
    <3> QED
        BY <2>1, <3>2, <1>5
  <2>2. CASE r \in Q
      BY <2>2
  <2> QED
      BY <2>1, <2>2
<1>6. ASSUME NEW r \in decisions', NEW q \in decisions', r # q
      PROVE  r.items \cap q.items = {}
  <2>1. CASE r \in decisions /\ q \in decisions
      BY <2>1, <1>6 DEF IInv, DecisionsStand
  <2>2. CASE r \in Q /\ q \in Q
      BY <2>2, <1>6
  <2>3. CASE r \in decisions /\ q \in Q
    <3>1. r.items \subseteq 1..made /\ q.items \subseteq (made + 1)..made'
        BY <2>3, <1>3
    <3> QED
        BY <3>1, <1>1
  <2>4. CASE q \in decisions /\ r \in Q
    <3>1. q.items \subseteq 1..made /\ r.items \subseteq (made + 1)..made'
        BY <2>4, <1>3
    <3> QED
        BY <3>1, <1>1
  <2> QED
      BY <2>1, <2>2, <2>3, <2>4
<1>7. DecisionsStand'
    BY <1>5, <1>6 DEF DecisionsStand
<1> QED
    BY <1>2, <1>4, <1>7

(* Steps that touch a candidate only.                                        *)
Untouched == UNCHANGED <<people, born, items, rel, decisions, made, decided>>
LEMMA UntouchedIs ==
    ASSUME IInv, Untouched
    PROVE  /\ TypeOK /\ Numbered /\ ApprovedIsThere /\ Rewritten
           /\ items' = items /\ \A i \in items : i.id \in Ids(items')
<1>1. made' \in made..MaxItems
    BY BoundsAssumption DEF IInv, TypeOK, Untouched
<1> QED
    BY <1>1 DEF IInv, TypeOK, Untouched, Numbered, Rewritten, Ids

LEMMA CandidateOnly ==
    ASSUME IInv, Untouched,
           cands' \in [Candidate -> CaptureCandidate \cup {NoCandidate}],
           Judged', ApprovedIsThere', NothingHidden'
    PROVE  IInv' /\ EndsStand
<1>1. TypeOK'
    BY DEF IInv, TypeOK, Untouched
<1>2. Numbered' /\ Attributed' /\ ForgetIsFinal' /\ DecisionsStand'
    BY DEF IInv, Untouched, Numbered, Attributed, MadeBy, ForgetIsFinal,
           DecisionsStand, Ids
<1>3. EndsStand
    BY DEF IInv, Untouched, Numbered, EndsStand
<1> QED
    BY <1>1, <1>2, <1>3 DEF IInv

LEMMA ProposeStep ==
    ASSUME IInv, NEW c \in Candidate, NEW o \in Offers, Propose(c, o)
    PROVE  IInv' /\ EndsStand
<1> DEFINE v == o.verdicts
<1>1. o \in Offer /\ v \in [DOMAIN o.drafts -> Verdict]
  <2>1. o \in Offer /\ DOMAIN v = DOMAIN o.drafts
      BY OffersAssumption
  <2>2. v \in Verdicts
      BY <2>1 DEF Offer
  <2> QED
      BY <2>1, <2>2 DEF Verdicts
<1>2. "pending_approval" \in CandidateState
    BY DEF CandidateState, Pending
<1>3. cands' = [cands EXCEPT ![c] = Staged(o, "pending_approval", v)] /\ Untouched
    BY DEF Propose, Untouched
<1>4. \A d \in OpenIn(o) : v[d] # "approved"
    BY DEF OpenIn
<1> HIDE DEF v
<1>5. /\ cands' \in [Candidate -> CaptureCandidate \cup {NoCandidate}]
      /\ Judged' /\ NothingHidden'
    BY <1>1, <1>2, <1>3, Restaged DEF IInv
<1>6. ApprovedIsThere'
    BY <1>1, <1>2, <1>3, <1>4, UntouchedIs, RestagedThere
<1> QED
    BY <1>3, <1>5, <1>6, CandidateOnly

LEMMA RejectStep ==
    ASSUME IInv, NEW c \in Candidate, NEW S \in SUBSET Draft, RejectDrafts(c, S)
    PROVE  IInv' /\ EndsStand
<1> DEFINE v == Decide(c, S, "rejected")
           open == {d \in Drafts(c) : v[d] = "pending"}
           s == IF open # {} THEN "partially_materialized"
                ELSE IF \E d \in Drafts(c) : v[d] = "approved"
                THEN "materialized" ELSE "rejected"
<1>1. Exists(c) /\ TypeOK /\ Judged /\ NothingHidden
    BY DEF RejectDrafts, IInv
<1>2. cands[c].offer \in Offer /\ Drafts(c) = DOMAIN cands[c].offer.drafts
    BY <1>1, CandidateIs DEF Drafts
<1>3. v \in [DOMAIN cands[c].offer.drafts -> Verdict]
  <2>1. "rejected" \in Verdict
      BY DEF Decided, Verdict
  <2> QED
      BY <1>1, <2>1, DecideIs
<1>31. \A d \in Drafts(c) : v[d] = "approved" => cands[c].decision[d] = "approved"
  <2>1. "rejected" \in Verdict
      BY DEF Decided, Verdict
  <2> QED
      BY <1>1, <2>1, DecideIs
<1>4. s \in CandidateState
    BY DEF CandidateState, Pending
<1>5. cands' = [cands EXCEPT ![c] = Staged(cands[c].offer, s, v)] /\ Untouched
    BY DEF RejectDrafts, Untouched
<1> HIDE DEF v
<1>6. s = "materialized" => \A d \in OpenIn(cands[c].offer) : v[d] \in Decided
    BY <1>2, <1>3 DEF Verdict, OpenIn
<1> HIDE DEF s
<1>7. /\ cands' \in [Candidate -> CaptureCandidate \cup {NoCandidate}]
      /\ Judged' /\ NothingHidden'
    BY <1>1, <1>2, <1>3, <1>4, <1>5, <1>6, Restaged
<1>8. ApprovedIsThere'
  <2>1. cands[c].offer.target # NoPerson =>
           \A d \in OpenIn(cands[c].offer) \ {"rel"} :
              v[d] = "approved" =>
                 \E j \in items' :
                    j.of = <<c, d>> /\ j.person = cands[c].offer.target
      BY <1>1, <1>2, <1>31, <1>5, UntouchedIs DEF ApprovedIsThere, IsThere, OpenIn
  <2> QED
      BY <1>2, <1>3, <1>4, <1>5, <2>1, UntouchedIs, RestagedThere
<1> QED
    BY <1>5, <1>7, <1>8, CandidateOnly

LEMMA ShelveStep ==
    ASSUME IInv, NEW c \in Candidate, Shelve(c)
    PROVE  IInv' /\ EndsStand
<1>1. Exists(c) /\ TypeOK /\ Judged /\ NothingHidden /\ Untouched
    BY DEF Shelve, IInv, Untouched
<1>2. PICK s \in {"rejected", "not_now", "withdrawn"} :
        cands' = [cands EXCEPT ![c] = Staged(cands[c].offer, s, cands[c].decision)]
    BY DEF Shelve
<1>3. cands[c].offer \in Offer
    BY <1>1, CandidateIs
<1>4. cands[c].decision \in [DOMAIN cands[c].offer.drafts -> Verdict]
    BY <1>1 DEF Judged, Drafts
<1>5. s \in CandidateState /\ s # "materialized"
    BY DEF CandidateState, Pending
<1>6. /\ cands' \in [Candidate -> CaptureCandidate \cup {NoCandidate}]
      /\ Judged' /\ NothingHidden'
    BY <1>1, <1>2, <1>3, <1>4, <1>5, Restaged
<1>7. ApprovedIsThere'
  <2>1. cands[c].offer.target # NoPerson =>
           \A d \in OpenIn(cands[c].offer) \ {"rel"} :
              cands[c].decision[d] = "approved" =>
                 \E j \in items' :
                    j.of = <<c, d>> /\ j.person = cands[c].offer.target
      BY <1>1, UntouchedIs DEF ApprovedIsThere, IsThere
  <2> QED
      BY <1>1, <1>2, <1>3, <1>4, <1>5, <2>1, UntouchedIs, RestagedThere
<1> QED
    BY <1>1, <1>6, <1>7, CandidateOnly

LEMMA ForgetProposalStep ==
    ASSUME IInv, NEW c \in Candidate, ForgetProposal(c)
    PROVE  IInv' /\ EndsStand
<1>1. /\ cands' \in [Candidate -> CaptureCandidate \cup {NoCandidate}]
      /\ \A b \in Candidate : cands'[b] \in {cands[b], NoCandidate}
    BY DEF IInv, TypeOK, ForgetProposal
<1>2. Judged' /\ NothingHidden'
    BY <1>1, Unstaged DEF IInv
<1>3. Untouched
    BY DEF ForgetProposal, Untouched
<1>4. ApprovedIsThere'
    BY <1>1, <1>3, UntouchedIs, UnstagedThere
<1> QED
    BY <1>1, <1>2, <1>3, <1>4, CandidateOnly
-----------------------------------------------------------------------------
(* What an approval does to the items.                                       *)
LEMMA Materializes ==
    ASSUME IInv, NEW c \in Candidate, Exists(c), Approvable(c), RoomForPerson(c),
           NEW S, NEW E \in {{}, Event(c, Looped(c, S))},
           S \subseteq Drafts(c),
           Room(Cardinality(Claims(c, Looped(c, S)) \cup E)),
           made' = made + Cardinality(Claims(c, Looped(c, S)) \cup E),
           items' = Restatus(items, Replaced(c, Looped(c, S)), "superseded")
                        \cup (Claims(c, Looped(c, S)) \cup E)
    PROVE  LET new == Claims(c, Looped(c, S)) \cup E IN
           /\ Rewritten /\ EndsStand /\ Ids(items') = Ids(items) \cup Ids(new)
           /\ Ids(new) \subseteq (made + 1)..made' /\ made' <= MaxItems
           /\ \A i \in items' : i.id \in Ids(new) =>
                /\ i.person = About(c)
                /\ \E d \in Looped(c, S) \cup {"event"} :
                     i.of = <<c, d>> /\ (d = "event" => E # {})
           /\ \A d \in Looped(c, S) :
                \E j \in items' : j.of = <<c, d>> /\ j.person = About(c)
           /\ E # {} => \E j \in items' : j.of = <<c, "event">> /\ j.person = About(c)
           /\ \A i \in items' : \/ \E h \in items : i.person = h.person
                                \/ i.person = About(c)
<1> DEFINE D == Looped(c, S)
           new == Claims(c, D) \cup E
           old == Replaced(c, D)
<1>1. D \in SUBSET (ClaimDraft \cap Drafts(c))
    BY DEF Looped
<1>2. TypeOK /\ Numbered
    BY DEF IInv
<1>3. Fresh(c, D, new) /\ MadeOf(c, D, E, new)
  <2>1. E \in {{}, Event(c, D)} /\ Room(Cardinality(Claims(c, D) \cup E))
      OBVIOUS
  <2> HIDE DEF D
  <2> QED
      BY <1>1, <1>2, <2>1, NewItemsAre
<1>31. /\ Cardinality(new) \in Nat /\ made + Cardinality(new) <= MaxItems
       /\ new \subseteq Item
       /\ \A i \in new : /\ i.id \in (made + 1)..(made + Cardinality(new))
                         /\ i.person = About(c)
       /\ \A i, j \in new : i.id = j.id => i = j
    BY <1>3 DEF Fresh
<1>32. /\ \A i \in new : \E d \in D \cup {"event"} :
             i.of = <<c, d>> /\ (d = "event" => E # {})
       /\ \A d \in D : \E i \in new : i.of = <<c, d>>
       /\ E # {} => \E i \in new : i.of = <<c, "event">>
    BY <1>3 DEF MadeOf
<1>4. old \in SUBSET items /\ \A i \in old : i.status \notin Ended
    BY DEF Replaced, Ended
<1>5. made \in Nat /\ MaxItems \in Nat
    BY <1>2, BoundsAssumption DEF TypeOK
<1>6. /\ made' = made + Cardinality(new)
      /\ items' = Restatus(items, old, "superseded") \cup new
    OBVIOUS
<1> HIDE DEF new, old, D
<1>7. made' \in made..MaxItems /\ \A i \in new : i.id \in (made + 1)..made'
    BY <1>31, <1>5, <1>6
<1>8. Rewritten /\ EndsStand /\ Ids(items') = Ids(items) \cup Ids(new)
  <2>1. "superseded" \in Status /\ items \in SUBSET items /\ new \in SUBSET Item
      BY <1>31 DEF Status
  <2>2. \A i, j \in new : i.id = j.id => i = j
      BY <1>31
  <2>3. items' = Restatus(items, old, "superseded") \cup new
      BY <1>6
  <2> QED
      BY ONLY <1>2, <1>4, <1>7, <2>1, <2>2, <2>3, Rewrites
<1>9. Ids(new) \subseteq (made + 1)..made'
    BY <1>7 DEF Ids
<1>10. \A i \in items' : i.id \in Ids(new) => i \in new
  <2> SUFFICES ASSUME NEW i \in items', i.id \in Ids(new) PROVE i \in new
      OBVIOUS
  <2>1. PICK j \in new : j.id = i.id
      BY DEF Ids
  <2>2. j \in items'
      BY <1>6
  <2> QED
      BY <1>8, <2>1, <2>2 DEF Rewritten
<1>11. \A i \in items' : i.person = About(c) \/ \E h \in items : i.person = h.person
  <2> SUFFICES ASSUME NEW i \in items'
               PROVE  i.person = About(c) \/ \E h \in items : i.person = h.person
      OBVIOUS
  <2>1. CASE i \in new
      BY <2>1, <1>31
  <2>2. CASE i \in Restatus(items, old, "superseded")
    <3>1. items \in SUBSET Item /\ "superseded" \in Status
        BY <1>2 DEF TypeOK, Status
    <3> QED
        BY <2>2, <3>1, <1>4, RestatusPeople
  <2> QED
      BY <1>6, <2>1, <2>2
<1>12. \A i \in items' : i.id \in Ids(new) =>
          /\ i.person = About(c)
          /\ \E d \in D \cup {"event"} : i.of = <<c, d>> /\ (d = "event" => E # {})
    BY <1>31, <1>32, <1>10
<1>13. /\ \A d \in D : \E j \in items' : j.of = <<c, d>> /\ j.person = About(c)
       /\ E # {} => \E j \in items' : j.of = <<c, "event">> /\ j.person = About(c)
    BY <1>31, <1>32, <1>6
<1>14. made' <= MaxItems
    BY <1>5, <1>7
<1> QED
    BY <1>8, <1>9, <1>11, <1>12, <1>13, <1>14 DEF new, D

(* What an approval says is approved is there.                               *)
LEMMA ApprovedThere ==
    ASSUME IInv, NEW c \in Candidate, Exists(c), Approvable(c), Rewritten,
           Ids(items) \subseteq Ids(items'), NEW s \in CandidateState,
           NEW M,
           \A d \in M \ {"rel"} :
              \E j \in items' : j.of = <<c, d>> /\ j.person = About(c),
           cands' = [cands EXCEPT ![c] =
                        Staged(cands[c].offer, s, Decide(c, M, "approved"))]
    PROVE  ApprovedIsThere'
<1> DEFINE v == Decide(c, M, "approved")
<1>1. TypeOK /\ Numbered /\ Judged /\ ApprovedIsThere
    BY DEF IInv
<1>2. /\ v \in [DOMAIN cands[c].offer.drafts -> Verdict]
      /\ \A d \in Drafts(c) :
           v[d] = IF d \in M THEN "approved" ELSE cands[c].decision[d]
  <2>1. "approved" \in Verdict
      BY DEF Decided, Verdict
  <2> QED
      BY <1>1, <2>1, DecideIs
<1>3. cands[c].offer \in Offer
    BY <1>1, CandidateIs
<1>4. cands' = [cands EXCEPT ![c] = Staged(cands[c].offer, s, v)]
    OBVIOUS
<1> HIDE DEF v
<1>5. \A i \in items : i.id \in Ids(items')
    BY DEF Ids
<1>6. ASSUME cands[c].offer.target # NoPerson,
             NEW d \in OpenIn(cands[c].offer) \ {"rel"}, v[d] = "approved"
      PROVE  \E j \in items' : j.of = <<c, d>> /\ j.person = cands[c].offer.target
  <2>1. About(c) = cands[c].offer.target
      BY <1>6 DEF About, NewPerson
  <2>2. CASE d \in M
      BY <1>6, <2>1, <2>2
  <2>3. CASE d \notin M
    <3>1. cands[c].decision[d] = "approved"
        BY <1>2, <1>6, <2>3 DEF OpenIn, Drafts
    <3>2. PICK i \in items : i.of = <<c, d>> /\ i.person = cands[c].offer.target
        BY <1>1, <1>6, <3>1 DEF ApprovedIsThere, IsThere
    <3> QED
        BY <1>1, <1>5, <3>2, StillThere
  <2> QED
      BY <2>2, <2>3
<1>7. \A i \in items : \A b \in Candidate \ {c} : \A d \in Draft :
         i.of = <<b, d>> => i.id \in Ids(items')
    BY <1>5
<1>8. cands[c].offer.target # NoPerson =>
         \A d \in OpenIn(cands[c].offer) \ {"rel"} :
            v[d] = "approved" =>
               \E j \in items' : j.of = <<c, d>> /\ j.person = cands[c].offer.target
    BY <1>6
<1>9. v \in [DOMAIN cands[c].offer.drafts -> Verdict]
    BY <1>2
<1>10. TypeOK /\ Numbered /\ Rewritten /\ ApprovedIsThere
    BY <1>1
<1> QED
    BY ONLY c \in Candidate, s \in CandidateState,
            <1>3, <1>4, <1>7, <1>8, <1>9, <1>10, RestagedThere

LEMMA ApproveStep ==
    ASSUME IInv, NEW c \in Candidate, NEW S \in SUBSET Draft, Approve(c, S)
    PROVE  IInv' /\ EndsStand
<1> DEFINE D == Looped(c, S)
           E == IF "event" \in S THEN Event(c, D) ELSE {}
           new == Claims(c, D) \cup E
           old == Replaced(c, D)
           v == Decide(c, S, "approved")
           s == IF \A d \in Drafts(c) : v[d] = "approved"
                THEN "materialized" ELSE "partially_materialized"
           q == [id |-> decided + 1, candidate |-> c, person |-> About(c),
                 drafts |-> S, items |-> Ids(new), restored |-> Ids(old),
                 created |-> "rel" \in S /\ About(c) \notin rel]
<1>1. /\ Exists(c) /\ Approvable(c) /\ RoomForPerson(c) /\ S \subseteq Drafts(c)
      /\ TypeOK /\ Judged /\ NothingHidden /\ decided < MaxDecisions
    BY DEF Approve, IInv
<1>2. /\ Room(Cardinality(new)) /\ made' = made + Cardinality(new)
      /\ items' = Restatus(items, old, "superseded") \cup new
      /\ people' = people \cup Born(c) /\ born' = born + Cardinality(Born(c))
      /\ rel' = IF "rel" \in S THEN rel \cup {About(c)} ELSE rel
      /\ cands' = [cands EXCEPT ![c] = Staged(cands[c].offer, s, v)]
      /\ decided' = decided + 1 /\ decisions' = decisions \cup {q}
    BY DEF Approve
<1>3. E \in {{}, Event(c, D)}
    OBVIOUS
<1>4. /\ About(c) \in Person /\ About(c) \in people' /\ About(c) \in 1..born'
      /\ born' \in born..MaxPeople /\ people' \subseteq 1..born'
      /\ \A p \in Born(c) : p > born
    BY <1>1, <1>2, AboutIs
<1>5. /\ cands' \in [Candidate -> CaptureCandidate \cup {NoCandidate}]
      /\ Judged' /\ NothingHidden'
  <2>1. /\ v \in [DOMAIN cands[c].offer.drafts -> Verdict]
        /\ Drafts(c) = DOMAIN cands[c].offer.drafts
    <3>1. "approved" \in Verdict
        BY DEF Decided, Verdict
    <3> QED
        BY <1>1, <3>1, DecideIs DEF Drafts
  <2>2. s \in CandidateState
      BY DEF CandidateState, Pending
  <2>3. s = "materialized" => \A d \in OpenIn(cands[c].offer) : v[d] \in Decided
    <3> HIDE DEF v
    <3> QED
        BY <2>1 DEF Decided, OpenIn
  <2>4. cands[c].offer \in Offer
      BY <1>1, CandidateIs
  <2> HIDE DEF s, v
  <2> QED
      BY <1>1, <1>2, <2>1, <2>2, <2>3, <2>4, Restaged
<1>6. /\ Rewritten /\ EndsStand /\ Ids(items') = Ids(items) \cup Ids(new)
      /\ Ids(new) \subseteq (made + 1)..made' /\ made' <= MaxItems
      /\ \A i \in items' : i.id \in Ids(new) =>
           /\ i.person = About(c)
           /\ \E d \in D \cup {"event"} : i.of = <<c, d>> /\ (d = "event" => E # {})
      /\ \A d \in D : \E j \in items' : j.of = <<c, d>> /\ j.person = About(c)
      /\ E # {} => \E j \in items' : j.of = <<c, "event">> /\ j.person = About(c)
      /\ \A i \in items' : (\E h \in items : i.person = h.person) \/ i.person = About(c)
  <2> HIDE DEF E
  <2> QED
      BY <1>1, <1>2, <1>3, Materializes
<1>7. /\ q.person = About(c) /\ q.items = Ids(new)
      /\ q.candidate = c /\ q.drafts = S
    OBVIOUS
<1>71. \A i \in items' : i.id \in q.items => MadeBy(q, i)
  <2>1. D \subseteq S /\ (E # {} => "event" \in S)
      BY DEF Looped
  <2> HIDE DEF D, E, q, new
  <2> QED
      BY <1>6, <1>7, <2>1 DEF MadeBy
<1>72. ApprovedIsThere'
  <2>1. ASSUME NEW d \in S \ {"rel"}
        PROVE  \E j \in items' : j.of = <<c, d>> /\ j.person = About(c)
    <3>1. CASE d \in ClaimDraft
      <4>1. d \in D
          BY <3>1 DEF Looped, Approve
      <4> HIDE DEF D, E, new
      <4> QED
          BY <1>6, <4>1
    <3>2. CASE d = "event"
      <4>1. E # {}
          BY <3>2 DEF Event
      <4> HIDE DEF D, E, new
      <4> QED
          BY <1>6, <4>1, <3>2
    <3> QED
        BY <3>1, <3>2 DEF Draft
  <2>2. s \in CandidateState
      BY DEF CandidateState, Pending
  <2>3. Ids(items) \subseteq Ids(items')
      BY <1>6
  <2> HIDE DEF s
  <2> QED
      BY <1>1, <1>2, <1>6, <2>1, <2>2, <2>3, ApprovedThere
<1>8. made \in Nat /\ MaxItems \in Nat /\ decided \in Nat /\ MaxDecisions \in Nat /\ made' \in 0..MaxItems
      /\ born \in Nat /\ MaxPeople \in Nat
    BY <1>1, <1>6, BoundsAssumption DEF TypeOK, Rewritten
<1>9. q \in Receipt
  <2>1. Ids(new) \in SUBSET ItemId
    <3> HIDE DEF new
    <3>1. \A n \in (made + 1)..made' : n \in 1..MaxItems
        BY <1>8
    <3> QED
        BY <1>6, <3>1 DEF ItemId
  <2>2. Ids(old) \in SUBSET ItemId
    <3>1. old \in SUBSET Item
        BY <1>1 DEF Replaced, TypeOK
    <3> HIDE DEF old
    <3> QED
        BY <3>1 DEF Ids, Item
  <2>3. decided + 1 \in 1..MaxDecisions
      BY <1>1, <1>8
  <2> HIDE DEF new, old
  <2> QED
      BY <2>1, <2>2, <2>3, <1>4 DEF Receipt
<1> HIDE DEF q, new, old, v, s
<1>10. Numbered' /\ Attributed' /\ DecisionsStand'
  <2> DEFINE Q == {q}
  <2>1. /\ born' \in Nat /\ born' >= born
        /\ \A p \in people' : p \in people \/ p > born
      BY <1>2, <1>4, <1>8
  <2>2. \A r \in decisions \cap decisions' :
           r.person \in people' => r.items \cap Ids(items) \subseteq Ids(items')
      BY <1>6
  <2>3. \A x \in Q : /\ x.person \in 1..born'
                     /\ x.items \subseteq (made + 1)..made'
                     /\ x.items \subseteq Ids(items')
                     /\ \A i \in items' : i.id \in x.items => MadeBy(x, i)
      BY <1>4, <1>6, <1>7, <1>71
  <2>4. (\A x, r \in Q : x = r) /\ decisions' \subseteq decisions \cup Q
      BY <1>2
  <2> HIDE DEF Q
  <2> QED
      BY <1>6, <2>1, <2>2, <2>3, <2>4, DecisionsKept
<1>11. TypeOK'
  <2>1. items' \subseteq Item
      BY <1>6 DEF Rewritten
  <2>2. rel' \subseteq Person
      BY <1>1, <1>2, <1>4 DEF TypeOK
  <2>3. decisions' \subseteq Receipt
      BY <1>1, <1>2, <1>9 DEF TypeOK
  <2>4. decided' \in 0..MaxDecisions /\ born' \in 0..MaxPeople
      BY <1>1, <1>2, <1>4, <1>8
  <2> QED
      BY <1>4, <1>5, <1>8, <2>1, <2>2, <2>3, <2>4 DEF TypeOK
<1>12. ForgetIsFinal'
  <2>1. people \subseteq people'
      BY <1>2
  <2>2. rel' \subseteq people'
      BY <1>2, <1>4, <2>1 DEF IInv, ForgetIsFinal
  <2>3. \A i \in items' : i.person \in people'
      BY <1>4, <1>6, <2>1 DEF IInv, ForgetIsFinal
  <2> QED
      BY <2>2, <2>3 DEF ForgetIsFinal
<1> QED
    BY <1>5, <1>6, <1>72, <1>10, <1>11, <1>12 DEF IInv

LEMMA ApproveFailsStep ==
    ASSUME IInv, NEW c \in Candidate, NEW S \in SUBSET Draft, ApproveFails(c, S)
    PROVE  IInv' /\ EndsStand
<1> DEFINE D == Looped(c, S)
           E == {}
           new == Claims(c, D) \cup E
           old == Replaced(c, D)
           v == Decide(c, D, "approved")
<1>1. /\ Exists(c) /\ Approvable(c) /\ RoomForPerson(c) /\ S \subseteq Drafts(c)
      /\ TypeOK /\ Judged /\ NothingHidden
    BY DEF ApproveFails, IInv
<1>2. Claims(c, D) \cup E = Claims(c, D) /\ Cardinality(Claims(c, D)) = Cardinality(D)
  <2>1. D \in SUBSET (ClaimDraft \cap Drafts(c))
      BY <1>1 DEF Looped
  <2> HIDE DEF D
  <2> QED
      BY <1>1, <2>1, ClaimsAre
<1>3. /\ Room(Cardinality(new)) /\ made' = made + Cardinality(new)
      /\ items' = Restatus(items, old, "superseded") \cup new
  <2>1. /\ Room(Cardinality(D)) /\ made' = made + Cardinality(D)
        /\ items' = Restatus(items, old, "superseded") \cup Claims(c, D)
      BY DEF ApproveFails
  <2>2. new = Claims(c, D) /\ Cardinality(new) = Cardinality(D)
      BY <1>2
  <2> HIDE DEF new, D, old
  <2> QED
      BY <2>1, <2>2
<1>4. /\ people' = people \cup Born(c) /\ born' = born + Cardinality(Born(c))
      /\ cands' = [cands EXCEPT ![c] = Staged(cands[c].offer, cands[c].state, v)]
      /\ rel' = rel /\ decisions' = decisions /\ decided' = decided
    BY DEF ApproveFails
<1>5. /\ About(c) \in Person /\ About(c) \in people' /\ About(c) \in 1..born'
      /\ born' \in born..MaxPeople /\ people' \subseteq 1..born'
      /\ \A p \in Born(c) : p > born
    BY <1>1, <1>4, AboutIs
<1>6. /\ cands' \in [Candidate -> CaptureCandidate \cup {NoCandidate}]
      /\ Judged' /\ NothingHidden'
  <2>1. /\ v \in [DOMAIN cands[c].offer.drafts -> Verdict]
        /\ Drafts(c) = DOMAIN cands[c].offer.drafts
        /\ \A d \in Drafts(c) :
             v[d] = IF d \in D THEN "approved" ELSE cands[c].decision[d]
    <3>1. "approved" \in Verdict
        BY DEF Decided, Verdict
    <3> HIDE DEF D
    <3> QED
        BY <1>1, <3>1, DecideIs DEF Drafts
  <2>2. cands[c].offer \in Offer /\ cands[c].state \in CandidateState
      BY <1>1, CandidateIs
  <2> HIDE DEF v, D
  <2>3. cands[c].state = "materialized" =>
            \A d \in OpenIn(cands[c].offer) : v[d] \in Decided
      BY <1>1, <2>1 DEF NothingHidden, Decided, OpenIn
  <2> QED
      BY <1>1, <1>4, <2>1, <2>2, <2>3, Restaged
<1>7. /\ Rewritten /\ EndsStand /\ Ids(items') = Ids(items) \cup Ids(new)
      /\ \A d \in D : \E j \in items' : j.of = <<c, d>> /\ j.person = About(c)
      /\ \A i \in items' : (\E h \in items : i.person = h.person) \/ i.person = About(c)
  <2>1. E \in {{}, Event(c, D)}
      OBVIOUS
  <2> HIDE DEF E
  <2> QED
      BY <1>1, <1>3, <2>1, Materializes
<1>71. ApprovedIsThere'
  <2>1. cands[c].state \in CandidateState
      BY <1>1, CandidateIs
  <2>2. Ids(items) \subseteq Ids(items')
      BY <1>7
  <2> HIDE DEF D
  <2> QED
      BY <1>1, <1>4, <1>7, <2>1, <2>2, ApprovedThere
<1> HIDE DEF new, old, v
<1>8. Numbered' /\ Attributed' /\ DecisionsStand'
  <2> DEFINE Q == {}
  <2>1. /\ born' \in Nat /\ born' >= born
        /\ \A p \in people' : p \in people \/ p > born
      BY <1>1, <1>4, <1>5, BoundsAssumption DEF TypeOK
  <2>2. \A r \in decisions \cap decisions' :
           r.person \in people' => r.items \cap Ids(items) \subseteq Ids(items')
      BY <1>7
  <2>3. /\ \A q, r \in Q : q = r
        /\ decisions' \subseteq decisions \cup Q
        /\ \A q \in Q : /\ q.person \in 1..born'
                        /\ q.items \subseteq (made + 1)..made'
                        /\ q.items \subseteq Ids(items')
                        /\ \A i \in items' : i.id \in q.items => MadeBy(q, i)
      BY <1>4
  <2> HIDE DEF Q
  <2> QED
      BY <1>7, <2>1, <2>2, <2>3, DecisionsKept
<1>9. TypeOK'
  <2>1. items' \subseteq Item /\ made' \in 0..MaxItems
      BY <1>1, <1>7, BoundsAssumption DEF Rewritten, TypeOK
  <2>2. born' \in 0..MaxPeople
      BY <1>1, <1>5, BoundsAssumption DEF TypeOK
  <2> QED
      BY <1>1, <1>4, <1>5, <1>6, <2>1, <2>2 DEF TypeOK
<1>10. ForgetIsFinal'
  <2>1. people \subseteq people'
      BY <1>4
  <2> QED
      BY <1>4, <1>5, <1>7, <2>1 DEF IInv, ForgetIsFinal
<1> QED
    BY <1>6, <1>7, <1>71, <1>8, <1>9, <1>10 DEF IInv
-----------------------------------------------------------------------------
(* Steps that rewrite items of people who have some, and nothing else.       *)
LEMMA ItemsOnly ==
    ASSUME IInv, Rewritten, EndsStand, Ids(items) \subseteq Ids(items'),
           UNCHANGED <<people, born, rel, cands, decisions, decided>>,
           \A j \in items' : \E i \in items : j.person = i.person
    PROVE  IInv' /\ EndsStand
<1>1. Numbered' /\ Attributed' /\ DecisionsStand'
  <2> DEFINE Q == {}
  <2>1. /\ born' \in Nat /\ born' >= born
        /\ \A p \in people' : p \in people \/ p > born
      BY BoundsAssumption DEF IInv, TypeOK
  <2>2. \A r \in decisions \cap decisions' :
           r.person \in people' => r.items \cap Ids(items) \subseteq Ids(items')
      OBVIOUS
  <2>3. /\ \A q, r \in Q : q = r
        /\ decisions' \subseteq decisions \cup Q
        /\ \A q \in Q : /\ q.person \in 1..born'
                        /\ q.items \subseteq (made + 1)..made'
                        /\ q.items \subseteq Ids(items')
                        /\ \A i \in items' : i.id \in q.items => MadeBy(q, i)
      OBVIOUS
  <2> HIDE DEF Q
  <2> QED
      BY <2>1, <2>2, <2>3, DecisionsKept
<1>2. TypeOK'
  <2>1. items' \subseteq Item /\ made' \in 0..MaxItems
      BY BoundsAssumption DEF IInv, Rewritten, TypeOK
  <2> QED
      BY <2>1 DEF IInv, TypeOK
<1>3. Judged' /\ NothingHidden'
    BY DEF IInv, Judged, NothingHidden, Exists, Drafts
<1>4. ForgetIsFinal'
    BY DEF IInv, ForgetIsFinal
<1>5. ApprovedIsThere'
  <2>1. \A i \in items : i.id \in Ids(items')
      BY DEF Ids
  <2> QED
      BY <2>1, UnstagedThere DEF IInv
<1> QED
    BY <1>1, <1>2, <1>3, <1>4, <1>5 DEF IInv

(* One claim gets another status, and maybe a successor.                     *)
LEMMA OneItem ==
    ASSUME IInv, NEW I \in SUBSET items, NEW s \in Status,
           \A h \in I : h.status \notin Ended,
           NEW new \in SUBSET Item, made' \in made..MaxItems,
           \A j \in new : /\ j.id \in (made + 1)..made'
                          /\ \E i \in items : j.person = i.person,
           \A j, k \in new : j.id = k.id => j = k,
           items' = Restatus(items, I, s) \cup new,
           UNCHANGED <<people, born, rel, cands, decisions, decided>>
    PROVE  IInv' /\ EndsStand
<1>1. TypeOK /\ Numbered /\ items \in SUBSET items /\ items \in SUBSET Item
    BY DEF IInv, TypeOK
<1>2. \A j \in new : j.id \in (made + 1)..made'
    OBVIOUS
<1>3. Rewritten /\ EndsStand /\ Ids(items') = Ids(items) \cup Ids(new)
    BY <1>1, <1>2, Rewrites
<1>4. \A j \in Restatus(items, I, s) :
        \/ j \in items \ I
        \/ \E i \in I : /\ j.id = i.id /\ j.person = i.person
                        /\ j.key = i.key /\ j.status = s /\ j.of = i.of
    BY ONLY <1>1, I \in SUBSET items, s \in Status, RestatusIs
<1>5. \A j \in items' : \E i \in items : j.person = i.person
    BY <1>4
<1> QED
    BY <1>3, <1>5, ItemsOnly

LEMMA CorrectStep ==
    ASSUME IInv, NEW i \in items, NEW k \in Key, Correct(i, k)
    PROVE  IInv' /\ EndsStand
<1> DEFINE n == [id |-> made + 1, person |-> i.person, key |-> k, status |-> "current",
                 of |-> Corrected]
<1>1. made \in Nat /\ MaxItems \in Nat /\ i \in Item /\ made' = made + 1 /\ made + 1 <= MaxItems
    BY BoundsAssumption DEF IInv, TypeOK, Correct, Room
<1>2. n \in Item /\ n.id = made + 1 /\ n.person = i.person
  <2>1. i.person \in Person /\ k \in Payload /\ made + 1 \in ItemId
      BY <1>1 DEF Item, Payload, ItemId
  <2> QED
      BY <2>1 DEF Item, Status
<1>3. /\ items' = Restatus(items, {i}, "superseded") \cup {n}
      /\ UNCHANGED <<people, born, rel, cands, decisions, decided>>
      /\ i.status \notin Ended
    BY DEF Correct, Ended
<1> HIDE DEF n
<1>4. "superseded" \in Status /\ {i} \in SUBSET items /\ {n} \in SUBSET Item
    BY <1>2 DEF Status
<1>5. made' \in made..MaxItems /\ \A j \in {n} : j.id \in (made + 1)..made'
    BY <1>1, <1>2
<1>6. \A j \in {n} : \E h \in items : j.person = h.person
    BY <1>2
<1> QED
    BY <1>3, <1>4, <1>5, <1>6, OneItem

LEMMA RetireStep ==
    ASSUME IInv, NEW i \in items, Retire(i)
    PROVE  IInv' /\ EndsStand
<1>1. made \in Nat /\ MaxItems \in Nat /\ made' = made /\ made <= MaxItems
    BY BoundsAssumption DEF IInv, TypeOK, Retire
<1>2. /\ items' = Restatus(items, {i}, "retired") \cup {}
      /\ UNCHANGED <<people, born, rel, cands, decisions, decided>>
      /\ i.status \notin Ended
    BY DEF Retire, Ended
<1>3. "retired" \in Status /\ {i} \in SUBSET items /\ {} \in SUBSET Item
    BY DEF Status
<1>4. made' \in made..MaxItems
    BY <1>1
<1> QED
    BY <1>2, <1>3, <1>4, OneItem

LEMMA AmendStep ==
    ASSUME IInv, NEW i \in items, Amend(i)
    PROVE  IInv' /\ EndsStand
<1> DEFINE n == [id |-> made + 1, person |-> i.person, key |-> "event",
                 status |-> "current", of |-> Corrected]
<1>1. made \in Nat /\ MaxItems \in Nat /\ i \in Item /\ made' = made + 1 /\ made + 1 <= MaxItems
    BY BoundsAssumption DEF IInv, TypeOK, Amend, Room
<1>2. n \in Item /\ n.id = made + 1 /\ n.person = i.person
  <2>1. i.person \in Person /\ made + 1 \in ItemId
      BY <1>1 DEF Item, ItemId
  <2> QED
      BY <2>1 DEF Item, Status, Payload, Marks
<1>3. /\ items' = items \cup {n}
      /\ UNCHANGED <<people, born, rel, cands, decisions, decided>>
    BY DEF Amend
<1> HIDE DEF n
<1>4. items' = Restatus(items, {}, "current") \cup {n}
    BY <1>3 DEF Restatus, WithStatus
<1>5. "current" \in Status /\ {} \in SUBSET items /\ {n} \in SUBSET Item
    BY <1>2 DEF Status
<1>6. made' \in made..MaxItems /\ \A j \in {n} : j.id \in (made + 1)..made'
    BY <1>1, <1>2
<1>7. \A j \in {n} : \E h \in items : j.person = h.person
    BY <1>2
<1> QED
    BY <1>3, <1>4, <1>5, <1>6, <1>7, OneItem

LEMMA RedactStep ==
    ASSUME IInv, NEW i \in items, Redact(i)
    PROVE  IInv' /\ EndsStand
<1> DEFINE k == IF IsClaim(i) THEN "redacted" ELSE "event"
           n == Marked(i, k, "redacted")
<1>1. made \in Nat /\ MaxItems \in Nat /\ made <= MaxItems /\ items \in SUBSET Item
    BY BoundsAssumption DEF IInv, TypeOK
<1>2. /\ n \in Item /\ n.id = i.id /\ n.person = i.person /\ n.of = i.of
      /\ n.status = "redacted"
  <2>1. k \in Payload
      BY DEF Payload, Marks
  <2> HIDE DEF k
  <2> QED
      BY <1>1, <2>1 DEF Item, Status, Marked
<1>3. /\ items' = (items \ {i}) \cup {n} /\ made' = made
      /\ UNCHANGED <<people, born, rel, cands, decisions, decided>>
    BY DEF Redact
<1> HIDE DEF n
<1>4. \A j, h \in items' : j.id = h.id => j = h
    BY <1>2, <1>3 DEF IInv, Numbered
<1>5. \A j \in items' :
         \E h \in items : h.id = j.id /\ h.person = j.person /\ h.of = j.of
    BY <1>2, <1>3
<1>6. \A j \in items' : j.id <= made'
    BY <1>3, <1>5 DEF IInv, Numbered
<1>7. Rewritten
    BY <1>1, <1>2, <1>3, <1>4, <1>5, <1>6 DEF Rewritten
<1>8. EndsStand
  <2> SUFFICES ASSUME NEW h \in items, NEW j \in items', h.id = j.id
               PROVE  j.status \in {h.status, "redacted"}
      BY DEF EndsStand
  <2>1. CASE j = n
      BY <2>1, <1>2
  <2>2. CASE j # n
    <3>1. j = h
        BY <2>2, <1>3 DEF IInv, Numbered
    <3> QED
        BY <3>1
  <2> QED
      BY <2>1, <2>2
<1>9. Ids(items) \subseteq Ids(items')
    BY <1>2, <1>3 DEF Ids
<1>10. \A j \in items' : \E h \in items : j.person = h.person
    BY <1>5
<1> QED
    BY <1>3, <1>7, <1>8, <1>9, <1>10, ItemsOnly
-----------------------------------------------------------------------------
LEMMA UndoStep ==
    ASSUME IInv, NEW q \in decisions, Undo(q)
    PROVE  IInv' /\ EndsStand
<1> DEFINE c == q.candidate
           T == Kept(q)
           I == Back(q)
           v == Decide(c, q.drafts, "pending")
<1>1. /\ TypeOK /\ Numbered /\ Judged /\ ApprovedIsThere /\ NothingHidden /\ Exists(c)
      /\ q \in Receipt /\ c \in Candidate
    BY DEF IInv, Undo, TypeOK, Receipt
<1>2. /\ items' = Restatus(T, I, "current") \cup {}
      /\ rel' = IF q.created THEN rel \ {q.person} ELSE rel
      /\ cands' = [cands EXCEPT ![c] = Staged(cands[c].offer, "pending_approval", v)]
      /\ decisions' = decisions \ {q}
      /\ UNCHANGED <<people, born, made, decided>>
    BY DEF Undo, Reopened
<1>3. /\ T \in SUBSET items /\ T \in SUBSET Item /\ I \in SUBSET T
      /\ \A i \in I : i.status \notin Ended
      /\ \A i \in items : i.id \in q.items \/ i \in T
    BY <1>1 DEF Kept, Back, Ended, TypeOK
<1>31. v \in [DOMAIN cands[c].offer.drafts -> Verdict]
  <2>1. "pending" \in Verdict
      BY DEF Verdict
  <2> QED
      BY <1>1, <2>1, DecideIs
<1>32. \A d \in Drafts(c) : v[d] = "approved" =>
          d \notin q.drafts /\ cands[c].decision[d] = "approved"
  <2>1. "pending" \in Verdict
      BY DEF Verdict
  <2> QED
      BY <1>1, <2>1, DecideIs
<1>33. \A i \in items : i.id \in q.items => \E d \in q.drafts : i.of = <<c, d>>
    BY DEF IInv, Attributed, MadeBy
<1>4. /\ cands' \in [Candidate -> CaptureCandidate \cup {NoCandidate}]
      /\ Judged' /\ NothingHidden'
  <2>1. v \in [DOMAIN cands[c].offer.drafts -> Verdict]
      BY <1>31
  <2>2. "pending_approval" \in CandidateState
      BY DEF CandidateState, Pending
  <2>3. cands[c].offer \in Offer
      BY <1>1, CandidateIs
  <2> HIDE DEF c, v
  <2> QED
      BY <1>1, <1>2, <2>1, <2>2, <2>3, Restaged
<1> HIDE DEF T, I, v, c
<1>5. "current" \in Status /\ {} \in SUBSET Item /\ made' \in made..MaxItems
    BY <1>1, <1>2, BoundsAssumption DEF TypeOK, Status
<1>6. Rewritten /\ EndsStand /\ Ids(items') = Ids(T) \cup Ids({})
  <2>1. items' = Restatus(T, I, "current") \cup {}
      BY <1>2
  <2>2. /\ \A i \in {} : i.id \in (made + 1)..made'
        /\ \A i, j \in {} : i.id = j.id => i = j
      OBVIOUS
  <2> QED
      BY ONLY <1>1, <1>3, <1>5, <2>1, <2>2, Rewrites
<1>7. Ids(items') = Ids(T)
    BY <1>6 DEF Ids
<1>71. ApprovedIsThere'
  <2>1. \A i \in items : i.id \notin q.items => i.id \in Ids(items')
      BY <1>3, <1>7 DEF Ids
  <2>2. \A i \in items : \A b \in Candidate \ {c} : \A d \in Draft :
           i.of = <<b, d>> => i.id \in Ids(items')
      BY <1>33, <2>1
  <2>3. ASSUME cands[c].offer.target # NoPerson,
               NEW d \in OpenIn(cands[c].offer) \ {"rel"}, v[d] = "approved"
        PROVE  \E j \in items' : j.of = <<c, d>> /\ j.person = cands[c].offer.target
    <3>1. d \notin q.drafts /\ cands[c].decision[d] = "approved"
        BY <1>32, <2>3 DEF OpenIn, Drafts
    <3>2. PICK i \in items : i.of = <<c, d>> /\ i.person = cands[c].offer.target
        BY <1>1, <2>3, <3>1 DEF ApprovedIsThere, IsThere
    <3>3. i.id \in Ids(items')
        BY <1>33, <2>1, <3>1, <3>2
    <3> QED
        BY <1>1, <1>6, <3>2, <3>3, StillThere
  <2>4. "pending_approval" \in CandidateState /\ cands[c].offer \in Offer
      BY <1>1, CandidateIs DEF CandidateState, Pending
  <2> QED
      BY <1>1, <1>2, <1>6, <1>31, <2>2, <2>3, <2>4, RestagedThere
<1>8. \A r \in decisions \cap decisions' : r.items \cap Ids(items) \subseteq Ids(items')
  <2> SUFFICES ASSUME NEW r \in decisions, r # q, NEW i \in items, i.id \in r.items
               PROVE  i.id \in Ids(T)
      BY <1>2, <1>7 DEF Ids
  <2>1. r.items \cap q.items = {}
      BY DEF IInv, DecisionsStand
  <2>2. i \in T
      BY <1>3, <2>1
  <2> QED
      BY <2>2 DEF Ids
<1>9. Numbered' /\ Attributed' /\ DecisionsStand'
  <2> DEFINE Q == {}
  <2>1. /\ born' \in Nat /\ born' >= born
        /\ \A p \in people' : p \in people \/ p > born
      BY <1>1, <1>2, BoundsAssumption DEF TypeOK
  <2>2. \A r \in decisions \cap decisions' :
           r.person \in people' => r.items \cap Ids(items) \subseteq Ids(items')
      BY <1>8
  <2>3. /\ \A x, r \in Q : x = r
        /\ decisions' \subseteq decisions \cup Q
        /\ \A x \in Q : /\ x.person \in 1..born'
                        /\ x.items \subseteq (made + 1)..made'
                        /\ x.items \subseteq Ids(items')
                        /\ \A i \in items' : i.id \in x.items => MadeBy(x, i)
      BY <1>2
  <2> HIDE DEF Q
  <2> QED
      BY <1>6, <2>1, <2>2, <2>3, DecisionsKept
<1>10. TypeOK'
  <2>1. items' \subseteq Item
      BY <1>6 DEF Rewritten
  <2> QED
      BY <1>1, <1>2, <1>4, <2>1 DEF TypeOK
<1>11. ForgetIsFinal'
  <2>1. \A j \in Restatus(T, I, "current") :
          \/ j \in T \ I
          \/ \E i \in I : /\ j.id = i.id /\ j.person = i.person
                          /\ j.key = i.key /\ j.status = "current" /\ j.of = i.of
      BY ONLY <1>3, <1>5, RestatusIs
  <2>2. \A j \in items' : \E i \in items : j.person = i.person
      BY <1>2, <1>3, <2>1
  <2> QED
      BY <1>2, <2>2 DEF IInv, ForgetIsFinal
<1> QED
    BY <1>4, <1>6, <1>71, <1>9, <1>10, <1>11 DEF IInv

LEMMA ForgetStep ==
    ASSUME IInv, NEW p \in Person, Forget(p)
    PROVE  IInv' /\ EndsStand
<1>1. /\ TypeOK /\ Numbered /\ Judged /\ ApprovedIsThere /\ NothingHidden
    BY DEF IInv
<1>2. /\ people' = people \ {p} /\ rel' = rel \ {p}
      /\ items' = {i \in items : i.person # p}
      /\ cands' = [c \in Candidate |->
            IF Exists(c) /\ cands[c].offer.target = p THEN NoCandidate ELSE cands[c]]
      /\ UNCHANGED <<born, decisions, made, decided>>
    BY DEF Forget
<1>3. items' \subseteq items
    BY <1>2
<1>4. /\ cands' \in [Candidate -> CaptureCandidate \cup {NoCandidate}]
      /\ Judged' /\ NothingHidden'
  <2>1. /\ cands' \in [Candidate -> CaptureCandidate \cup {NoCandidate}]
        /\ \A c \in Candidate : cands'[c] \in {cands[c], NoCandidate}
      BY <1>1, <1>2 DEF TypeOK
  <2> QED
      BY <1>1, <2>1, Unstaged
<1>5. Rewritten /\ EndsStand
  <2>1. made' = made /\ made \in 0..MaxItems /\ items' \subseteq Item
      BY <1>1, <1>2, <1>3 DEF TypeOK
  <2>2. made' \in made..MaxItems
      BY <2>1, BoundsAssumption
  <2>3. Rewritten
      BY <1>1, <1>3, <2>1, <2>2 DEF Rewritten, Numbered
  <2>4. EndsStand
      BY <1>1, <1>3 DEF EndsStand, Numbered
  <2> QED
      BY <2>3, <2>4
<1>51. ApprovedIsThere'
  <2>1. \A c \in Candidate : cands'[c] \in {cands[c], NoCandidate}
      BY <1>2
  <2>2. \A i \in items : \A c \in Candidate :
           cands'[c] # NoCandidate /\ i.person = cands[c].offer.target
              => i.id \in Ids(items')
      BY <1>2 DEF Ids, Exists
  <2> QED
      BY <1>1, <1>5, <2>1, <2>2, UnstagedThere
<1>6. \A r \in decisions \cap decisions' :
         r.person \in people' => r.items \cap Ids(items) \subseteq Ids(items')
  <2> SUFFICES ASSUME NEW r \in decisions, r.person # p,
                      NEW i \in items, i.id \in r.items
               PROVE  i.id \in Ids(items')
      BY <1>2 DEF Ids
  <2>1. i.person = r.person
      BY DEF IInv, Attributed, MadeBy
  <2>2. i \in items'
      BY <1>2, <2>1
  <2> QED
      BY <2>2 DEF Ids
<1>7. Numbered' /\ Attributed' /\ DecisionsStand'
  <2> DEFINE Q == {}
  <2>1. /\ born' \in Nat /\ born' >= born
        /\ \A h \in people' : h \in people \/ h > born
      BY <1>1, <1>2, BoundsAssumption DEF TypeOK
  <2>2. /\ \A x, r \in Q : x = r
        /\ decisions' \subseteq decisions \cup Q
        /\ \A x \in Q : /\ x.person \in 1..born'
                        /\ x.items \subseteq (made + 1)..made'
                        /\ x.items \subseteq Ids(items')
                        /\ \A i \in items' : i.id \in x.items => MadeBy(x, i)
      BY <1>2
  <2> HIDE DEF Q
  <2> QED
      BY <1>5, <1>6, <2>1, <2>2, DecisionsKept
<1>8. TypeOK'
    BY <1>1, <1>2, <1>3, <1>4 DEF TypeOK
<1>9. ForgetIsFinal'
    BY <1>2 DEF IInv, ForgetIsFinal
<1> QED
    BY <1>4, <1>5, <1>51, <1>7, <1>8, <1>9 DEF IInv
-----------------------------------------------------------------------------
LEMMA InitIInv == Init => IInv
<1> SUFFICES ASSUME Init PROVE IInv
    OBVIOUS
<1>1. TypeOK
    BY BoundsAssumption DEF Init, TypeOK
<1>2. Numbered /\ Attributed /\ ForgetIsFinal /\ DecisionsStand
    BY DEF Init, Numbered, Attributed, ForgetIsFinal, DecisionsStand, Ids
<1>3. Judged /\ ApprovedIsThere /\ NothingHidden
    BY DEF Init, Judged, ApprovedIsThere, NothingHidden, Exists
<1> QED
    BY <1>1, <1>2, <1>3 DEF IInv

LEMMA NextIInv == IInv /\ [Next]_vars => IInv' /\ EndsStand
<1> SUFFICES ASSUME IInv, [Next]_vars PROVE IInv' /\ EndsStand
    OBVIOUS
<1>1. ASSUME NEW c \in Candidate, NEW o \in Offers, Propose(c, o)
      PROVE  IInv' /\ EndsStand
    BY <1>1, ProposeStep
<1>2. ASSUME NEW c \in Candidate, NEW S \in SUBSET Draft,
             Approve(c, S) \/ ApproveFails(c, S) \/ RejectDrafts(c, S)
      PROVE  IInv' /\ EndsStand
    BY <1>2, ApproveStep, ApproveFailsStep, RejectStep
<1>3. ASSUME NEW c \in Candidate, Shelve(c) \/ ForgetProposal(c)
      PROVE  IInv' /\ EndsStand
    BY <1>3, ShelveStep, ForgetProposalStep
<1>4. ASSUME NEW r \in decisions, Undo(r) PROVE IInv' /\ EndsStand
    BY <1>4, UndoStep
<1>5. ASSUME NEW i \in items, NEW k \in Key, Correct(i, k) PROVE IInv' /\ EndsStand
    BY <1>5, CorrectStep
<1>6. ASSUME NEW i \in items, Retire(i) \/ Redact(i) \/ Amend(i)
      PROVE  IInv' /\ EndsStand
    BY <1>6, RetireStep, RedactStep, AmendStep
<1>7. ASSUME NEW p \in Person, Forget(p) PROVE IInv' /\ EndsStand
    BY <1>7, ForgetStep
<1>8. CASE UNCHANGED vars
  <2>1. Untouched /\ cands' = cands
      BY <1>8 DEF vars, Untouched
  <2>2. /\ cands' \in [Candidate -> CaptureCandidate \cup {NoCandidate}]
        /\ \A c \in Candidate : cands'[c] \in {cands[c], NoCandidate}
      BY <2>1 DEF IInv, TypeOK
  <2>3. Judged' /\ NothingHidden'
      BY <2>2, Unstaged DEF IInv
  <2>4. ApprovedIsThere'
      BY <2>1, <2>2, UntouchedIs, UnstagedThere
  <2> QED
      BY <2>1, <2>2, <2>3, <2>4, CandidateOnly
<1> QED
    BY <1>1, <1>2, <1>3, <1>4, <1>5, <1>6, <1>7, <1>8 DEF Next

LEMMA Inductive == Spec => []IInv
<1>1. IInv /\ [Next]_vars => IInv'
    BY NextIInv
<1> QED
    BY InitIInv, <1>1, PTL DEF Spec

(* The types of the document: people and items are numbered within the       *)
(* bounds, candidates and receipts are what the handlers make.               *)
THEOREM TypeCorrect == Spec => []TypeOK
<1>1. IInv => TypeOK
    BY DEF IInv
<1> QED
    BY Inductive, <1>1, PTL

(* Nothing of a forgotten person is in the document, and no undo, correction *)
(* or approval of what refers to her brings anything back.                   *)
THEOREM Forgotten == Spec => []ForgetIsFinal
<1>1. IInv => ForgetIsFinal
    BY DEF IInv
<1> QED
    BY Inductive, <1>1, PTL

(* What counts as approved is there, as items of the person it is about, and *)
(* a candidate shown as materialized hides no draft left to be decided, for  *)
(* whatever was proposed open.                                              *)
THEOREM Resolved == Spec => []MaterializedIsMade
<1>1. IInv => MaterializedIsMade
    BY DEF IInv, MaterializedIsMade
<1> QED
    BY Inductive, <1>1, PTL

(* What a decision made is there as long as its person is, and no other      *)
(* decision claims to have made it: each can be undone, in any order.        *)
THEOREM Undoable == Spec => []DecisionsStand
<1>1. IInv => DecisionsStand
    BY DEF IInv
<1> QED
    BY Inductive, <1>1, PTL

(* No step makes current again what was retired or redacted.                 *)
THEOREM EndedForGood == Spec => EndedStaysEnded
<1>1. IInv /\ [Next]_vars =>
        [\A i \in items, j \in items' :
            i.id = j.id /\ i.status \in {"retired", "redacted"} =>
               j.status \in {i.status, "redacted"}]_vars
    BY NextIInv DEF EndsStand, Ended
<1> QED
    BY Inductive, <1>1, PTL DEF Spec, EndedStaysEnded
=============================================================================
