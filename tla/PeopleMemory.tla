---------------------------- MODULE PeopleMemory ----------------------------
(***************************************************************************)
(* One operator's people-memory document: what was proposed, what was       *)
(* approved into truth, and how truth is corrected, undone and forgotten    *)
(* (src/internal/settings/people_memory_doc.go and _lifecycle.go).  Every   *)
(* operation of either store runs under its mutex and saves the document,   *)
(* so it is one step; the requests come from HTTP handlers in any order,    *)
(* twice, and late.                                                         *)
(*                                                                         *)
(* Claims and interaction events are items of one table: an event is an     *)
(* item that supersedes nothing.  Ids are uuids: they only grow here.       *)
(* Times, source references and the text of payloads are left out; a claim  *)
(* payload is its claimKey, or that it is the inference of an agent.        *)
(***************************************************************************)
EXTENDS Naturals, FiniteSets

CONSTANTS Candidate,     \* ids a caller may propose under
          NoCandidate,
          Key,           \* what claimKey tells apart
          Offers,        \* the candidates callers propose
          MaxPeople, MaxItems, MaxDecisions   \* bounds

ASSUME BoundsAssumption ==
    MaxPeople \in Nat /\ MaxItems \in Nat /\ MaxDecisions \in Nat

Marks == {"event", "inference", "redacted", "relationship"}
ASSUME KeyAssumption == Key \cap Marks = {}

Person == 1..MaxPeople
NoPerson == 0

(* The drafts of a candidate: its claims in the order d1, d2, and at most   *)
(* one relationship and one interaction.                                    *)
ClaimDraft == {"d1", "d2"}
Draft == ClaimDraft \cup {"rel", "event"}
Before(d, e) == d = "d1" /\ e = "d2"
Payload == Key \cup Marks
Decided == {"approved", "rejected"}
Pending == {"pending_approval", "not_now", "partially_materialized"}
CandidateState == Pending \cup {"materialized", "rejected", "withdrawn"}

(* What a caller proposes: drafts, for a known person, for a new one (drawn  *)
(* up with a name or without) or for nobody.  The drafts come with verdicts  *)
(* of the caller's; a verdict left empty is "pending".                      *)
Verdict == Decided \cup {"pending"}
Verdicts == UNION {[D -> Verdict] : D \in SUBSET Draft}
Offer == [drafts : UNION {[D -> Payload] : D \in SUBSET Draft},
          target : Person \cup {NoPerson},
          person : {"none", "unnamed", "named"}, verdicts : Verdicts]
ASSUME OffersAssumption ==
    Offers \subseteq {o \in Offer : DOMAIN o.verdicts = DOMAIN o.drafts}

CaptureCandidate ==
    [offer : Offer, state : CandidateState, decision : Verdicts]

ASSUME CandidateAssumption == NoCandidate \notin CaptureCandidate

VARIABLES people,      \* the people there are
          born,        \* how many person ids were ever given out
          items,       \* claims and events
          rel,         \* the people with a relationship
          cands,       \* the candidate under each id
          decisions,   \* the receipts of approvals, by number
          made,        \* the items ever made
          decided      \* the decisions ever made

vars == <<people, born, items, rel, cands, decisions, made, decided>>

Status == {"current", "superseded", "retired", "redacted"}
ItemId == 1..MaxItems
(* `of' is a history field: the draft an item was made of.                  *)
Origin == Candidate \X Draft
Corrected == <<>>
Item == [id : ItemId, person : Person, key : Payload, status : Status,
         of : Origin \cup {Corrected}]
Receipt == [id : 1..MaxDecisions, candidate : Candidate, person : Person,
            drafts : SUBSET Draft, items : SUBSET ItemId,
            restored : SUBSET ItemId, created : BOOLEAN]

TypeOK ==
    /\ people \subseteq 1..born /\ born \in 0..MaxPeople
    /\ items \subseteq Item
    /\ rel \subseteq Person
    /\ cands \in [Candidate -> CaptureCandidate \cup {NoCandidate}]
    /\ decisions \subseteq Receipt
    /\ made \in 0..MaxItems
    /\ decided \in 0..MaxDecisions

Init ==
    /\ people = {} /\ born = 0
    /\ items = {} /\ made = 0
    /\ rel = {}
    /\ cands = [c \in Candidate |-> NoCandidate]
    /\ decisions = {} /\ decided = 0

Staged(offer, state, decision) ==
    [offer |-> offer, state |-> state, decision |-> decision]
Exists(c) == cands[c] # NoCandidate
Drafts(c) == DOMAIN cands[c].offer.drafts
-----------------------------------------------------------------------------
(* propose: staged under its id, whoever is there already, with the verdicts *)
(* it came with.                                                            *)
Propose(c, o) ==
    /\ cands' = [cands EXCEPT ![c] = Staged(o, "pending_approval", o.verdicts)]
    /\ UNCHANGED <<people, born, items, rel, decisions, made, decided>>

(* Whom an approval is about: the target, or a person made up for the       *)
(* draft -- a new one every time.                                           *)
NewPerson(c) == cands[c].offer.target = NoPerson /\ cands[c].offer.person # "none"
About(c) == IF NewPerson(c) THEN born + 1 ELSE cands[c].offer.target
(* A bug to look for: nobody asks whether the target is still there.        *)
ApprovableForgotten(c) == NewPerson(c) \/ cands[c].offer.target # NoPerson
(* A bug to look for: nobody asks whether there is a target at all.         *)
ApprovableUnbound(c) == cands[c].offer.target \in people \cup {NoPerson}
Approvable(c) == NewPerson(c) \/ cands[c].offer.target \in people

(* The loop over the selected claim drafts stops at the first inference.    *)
Inferred(c, S) == {d \in S \cap ClaimDraft : cands[c].offer.drafts[d] = "inference"}
Looped(c, S) ==
    {d \in S \cap ClaimDraft : \A e \in Inferred(c, S) : Before(d, e)}

KeyOf(c, d) == cands[c].offer.drafts[d]
IdOf(D, d) == made + 1 + Cardinality({e \in D : Before(e, d)})

(* The claims the loop makes; one may supersede another of the same key.    *)
Claims(c, D) ==
    {[id |-> IdOf(D, d), person |-> About(c), key |-> KeyOf(c, d),
      status |-> IF \E e \in D : Before(d, e) /\ KeyOf(c, e) = KeyOf(c, d)
                 THEN "superseded" ELSE "current",
      of |-> <<c, d>>] : d \in D}

(* The current claims they supersede.                                       *)
Replaced(c, D) ==
    {i \in items : /\ i.person = About(c) /\ i.status = "current"
                   /\ \E d \in D : KeyOf(c, d) = i.key}

Marked(i, key, status) ==
    [id |-> i.id, person |-> i.person, key |-> key, status |-> status, of |-> i.of]
WithStatus(I, status) == {Marked(i, i.key, status) : i \in I}
Restatus(table, I, status) == (table \ I) \cup WithStatus(I, status)

Event(c, D) ==
    {[id |-> made + 1 + Cardinality(D), person |-> About(c), key |-> "event",
      status |-> "current", of |-> <<c, "event">>]}

Ids(I) == {i.id : i \in I}
Decide(c, S, verdict) ==
    [d \in Drafts(c) |-> IF d \in S THEN verdict ELSE cands[c].decision[d]]
Born(c) == IF NewPerson(c) THEN {About(c)} ELSE {}

(* Room under the bounds.                                                   *)
Room(n) == made + n <= MaxItems
RoomForPerson(c) == NewPerson(c) => born < MaxPeople

(* approveDrafts, whatever the candidate's state and the drafts' decisions. *)
(* A draft rejected before still counts as remaining.                       *)
Approve(c, S) ==
    /\ Exists(c) /\ S # {} /\ S \subseteq Drafts(c)
    /\ Approvable(c) /\ RoomForPerson(c)
    /\ Inferred(c, S) = {}
    /\ decided < MaxDecisions
    /\ LET D == Looped(c, S)
           new == Claims(c, D) \cup (IF "event" \in S THEN Event(c, D) ELSE {})
           old == Replaced(c, D)
           decision == Decide(c, S, "approved") IN
       /\ Room(Cardinality(new))
       /\ items' = Restatus(items, old, "superseded") \cup new
       /\ made' = made + Cardinality(new)
       /\ people' = people \cup Born(c)
       /\ born' = born + Cardinality(Born(c))
       /\ rel' = IF "rel" \in S THEN rel \cup {About(c)} ELSE rel
       /\ cands' = [cands EXCEPT ![c] =
             Staged(cands[c].offer,
                    IF \A d \in Drafts(c) : decision[d] = "approved"
                    THEN "materialized" ELSE "partially_materialized",
                    decision)]
       /\ decided' = decided + 1
       /\ decisions' = decisions \cup
             {[id |-> decided + 1, candidate |-> c, person |-> About(c),
               drafts |-> S, items |-> Ids(new), restored |-> Ids(old),
               created |-> "rel" \in S /\ About(c) \notin rel]}

(* It meets an inference: the error is returned with the person, the claims *)
(* before it and their verdicts already in the document, and no receipt.    *)
ApproveFails(c, S) ==
    /\ Exists(c) /\ S # {} /\ S \subseteq Drafts(c)
    /\ Approvable(c) /\ RoomForPerson(c)
    /\ Inferred(c, S) # {}
    /\ LET D == Looped(c, S) IN
       /\ Room(Cardinality(D))
       /\ items' = Restatus(items, Replaced(c, D), "superseded") \cup Claims(c, D)
       /\ made' = made + Cardinality(D)
       /\ people' = people \cup Born(c)
       /\ born' = born + Cardinality(Born(c))
       /\ cands' = [cands EXCEPT ![c] =
             Staged(cands[c].offer, cands[c].state, Decide(c, D, "approved"))]
    /\ UNCHANGED <<rel, decisions, decided>>

(* rejectDrafts, whatever they were before.                                 *)
RejectDrafts(c, S) ==
    /\ Exists(c) /\ S # {} /\ S \subseteq Drafts(c)
    /\ LET decision == Decide(c, S, "rejected")
           open == {d \in Drafts(c) : decision[d] = "pending"} IN
       cands' = [cands EXCEPT ![c] =
          Staged(cands[c].offer,
                 IF open # {} THEN "partially_materialized"
                 ELSE IF \E d \in Drafts(c) : decision[d] = "approved"
                 THEN "materialized" ELSE "rejected",
                 decision)]
    /\ UNCHANGED <<people, born, items, rel, decisions, made, decided>>

(* rejectCandidate, markNotNow and withdrawCandidate.                       *)
Shelve(c) ==
    /\ Exists(c)
    /\ \E state \in {"rejected", "not_now", "withdrawn"} :
         /\ state = "withdrawn" => cands[c].state # "materialized"
         /\ cands' = [cands EXCEPT ![c] =
               Staged(cands[c].offer, state, cands[c].decision)]
    /\ UNCHANGED <<people, born, items, rel, decisions, made, decided>>

(* A bug to look for: an undo drops what the approval superseded, too.      *)
KeptNew(r) == {i \in items : i.id \notin r.items \cup r.restored}
(* undoDecision drops what the approval made ...                            *)
Kept(r) == {i \in items : i.id \notin r.items}

(* A bug to look for: whatever it superseded is current again.              *)
BackAnyway(r) == {i \in Kept(r) : i.id \in r.restored /\ i.person = r.person}
(* ... makes what it superseded current again if it still is superseded ... *)
Back(r) ==
    {i \in Kept(r) : /\ i.id \in r.restored /\ i.person = r.person
                     /\ i.status = "superseded"}

(* A bug to look for: what it approved still counts as approved.            *)
ReopenedApproved(r) ==
    Staged(cands[r.candidate].offer, "pending_approval", cands[r.candidate].decision)
(* ... and opens the candidate again.                                       *)
Reopened(r) ==
    Staged(cands[r.candidate].offer, "pending_approval",
           Decide(r.candidate, r.drafts, "pending"))

(* A relationship the approval created goes with whatever was added to it   *)
(* since; one that it only changed stays changed.                           *)
Undo(r) ==
    /\ r \in decisions /\ Exists(r.candidate)
    /\ items' = Restatus(Kept(r), Back(r), "current")
    /\ rel' = IF r.created THEN rel \ {r.person} ELSE rel
    /\ cands' = [cands EXCEPT ![r.candidate] = Reopened(r)]
    /\ decisions' = decisions \ {r}
    /\ UNCHANGED <<people, born, made, decided>>
-----------------------------------------------------------------------------
IsClaim(i) == i.key # "event"

(* correctClaim: the current claim is superseded by a new one, of any key.  *)
Correct(i, k) ==
    /\ i \in items /\ IsClaim(i) /\ i.status = "current"
    /\ Room(1)
    /\ items' = Restatus(items, {i}, "superseded") \cup
          {[id |-> made + 1, person |-> i.person, key |-> k, status |-> "current",
            of |-> Corrected]}
    /\ made' = made + 1
    /\ UNCHANGED <<people, born, rel, cands, decisions, decided>>

Retire(i) ==
    /\ i \in items /\ IsClaim(i) /\ i.status = "current"
    /\ items' = Restatus(items, {i}, "retired")
    /\ UNCHANGED <<people, born, rel, cands, decisions, made, decided>>

(* redactItem, of a claim or an event in any status.                        *)
Redact(i) ==
    /\ i \in items
    /\ items' = (items \ {i}) \cup
          {Marked(i, IF IsClaim(i) THEN "redacted" ELSE "event", "redacted")}
    /\ UNCHANGED <<people, born, rel, cands, decisions, made, decided>>

(* amendInteraction: one more event, the amended one stays as it is.        *)
Amend(i) ==
    /\ i \in items /\ ~IsClaim(i)
    /\ Room(1)
    /\ items' = items \cup {[id |-> made + 1, person |-> i.person,
                             key |-> "event", status |-> "current",
                             of |-> Corrected]}
    /\ made' = made + 1
    /\ UNCHANGED <<people, born, rel, cands, decisions, decided>>

(* hardForget: the person with all items and the candidates that name it as *)
(* their target; decisions, and the candidate it was born of, stay.         *)
Forget(p) ==
    /\ p \in people
    /\ people' = people \ {p}
    /\ items' = {i \in items : i.person # p}
    /\ rel' = rel \ {p}
    /\ cands' = [c \in Candidate |->
          IF Exists(c) /\ cands[c].offer.target = p THEN NoCandidate ELSE cands[c]]
    /\ UNCHANGED <<born, decisions, made, decided>>

(* hardForgetProposal: only of a candidate that names nobody; a person draft *)
(* without a name does not count.                                           *)
ForgetProposal(c) ==
    /\ Exists(c)
    /\ cands[c].offer.target = NoPerson /\ cands[c].offer.person # "named"
    /\ cands' = [cands EXCEPT ![c] = NoCandidate]
    /\ UNCHANGED <<people, born, items, rel, decisions, made, decided>>

Next ==
    \/ \E c \in Candidate :
         \/ \E o \in Offers : Propose(c, o)
         \/ \E S \in SUBSET Draft :
              Approve(c, S) \/ ApproveFails(c, S) \/ RejectDrafts(c, S)
         \/ Shelve(c)
         \/ ForgetProposal(c)
    \/ \E r \in decisions : Undo(r)
    \/ \E i \in items :
         \/ \E k \in Key : Correct(i, k)
         \/ Retire(i) \/ Redact(i) \/ Amend(i)
    \/ \E p \in Person : Forget(p)

Spec == Init /\ [][Next]_vars
-----------------------------------------------------------------------------
(* Forgotten is forgotten: nothing of a person who is not there is in the   *)
(* document, and no later request about her -- an undo of what was decided, *)
(* a correction, an approval of what was proposed about her -- brings       *)
(* anything back (people_memory_lifecycle.go:141-189).                      *)
ForgetIsFinal ==
    /\ \A i \in items : i.person \in people
    /\ rel \subseteq people

(* What was retired or redacted does not become current again, whatever is  *)
(* undone later (people_memory_doc.go:404-411).                             *)
EndedStaysEnded ==
    [][\A i \in items, j \in items' :
          i.id = j.id /\ i.status \in {"retired", "redacted"} =>
             j.status \in {i.status, "redacted"}]_vars

(* The drafts that were proposed open: for somebody to decide.              *)
OpenIn(o) == {d \in DOMAIN o.drafts : o.verdicts[d] = "pending"}

IsThere(origin, p) == \E i \in items : i.of = origin /\ i.person = p
ApprovedIsThere ==
    \A c \in Candidate : Exists(c) /\ cands[c].offer.target # NoPerson =>
        \A d \in OpenIn(cands[c].offer) \ {"rel"} :
            cands[c].decision[d] = "approved" =>
                IsThere(<<c, d>>, cands[c].offer.target)

NothingHidden ==
    \A c \in Candidate : Exists(c) /\ cands[c].state = "materialized" =>
        \A d \in OpenIn(cands[c].offer) : cands[c].decision[d] \in Decided

(* What counts as approved is there.  Of each claim or interaction draft     *)
(* that was proposed open about a known person and counts as approved an     *)
(* item is in the document, and a candidate shown as materialized hides no   *)
(* draft that was proposed open and that nobody decided -- in any order of   *)
(* approvals that end well or half way, rejections, undone decisions,        *)
(* corrections, and repeated proposals under the same id                    *)
(* (people_memory_doc.go:121-216, 378-436).  A draft proposed with a verdict *)
(* is another matter: README, "Disagreements".                              *)
MaterializedIsMade == ApprovedIsThere /\ NothingHidden

(* A decision that stands can be undone: what it made is in the document as *)
(* long as its person is, and no other decision claims to have made it      *)
(* (people_memory_doc.go:378-436).                                          *)
DecisionsStand ==
    /\ \A r \in decisions :
          r.person \in people => r.items \subseteq Ids(items)
    /\ \A r, q \in decisions : r # q => r.items \cap q.items = {}

(* "A new current claim supersedes the old one" (people_memory.go:22-23):   *)
(* of one person and key at most one claim is current.                      *)
(* It does not hold: README, "Disagreements".                               *)
OneCurrentPerKey ==
    \A i, j \in items :
        /\ IsClaim(i) /\ i.person = j.person /\ i.key = j.key
        /\ i.status = "current" /\ j.status = "current"
        => i = j

(* "It does NOT materialize anything -- only an explicit approveDrafts       *)
(* promotes drafts to canonical truth" (people_memory_doc.go:35-36): a       *)
(* candidate shown as materialized has been decided by somebody.            *)
(* It does not hold: README, "Disagreements".                               *)
MaterializedByDecision ==
    \A c \in Candidate :
        Exists(c) /\ cands[c].state = "materialized" =>
            \E r \in decisions : r.candidate = c

(* "When every draft is decided (approved or rejected) the candidate        *)
(* resolves" (people_memory_doc.go:225-226).                                *)
(* It does not hold: README, "Disagreements".                               *)
ResolvesWhenDecided ==
    \A c \in Candidate :
        Exists(c) /\ (\A d \in Drafts(c) : cands[c].decision[d] \in Decided)
            => cands[c].state # "partially_materialized"
=============================================================================
