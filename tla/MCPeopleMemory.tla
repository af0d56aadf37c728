--------------------------- MODULE MCPeopleMemory ---------------------------
EXTENDS PeopleMemory, TLC

Open(drafts) == [d \in DOMAIN drafts |-> "pending"]
For(p, drafts) ==
    [drafts |-> drafts, target |-> p, person |-> "none", verdicts |-> Open(drafts)]
New(person, drafts) ==
    [drafts |-> drafts, target |-> NoPerson, person |-> person,
     verdicts |-> Open(drafts)]
Preset(offer, d, verdict) == [offer EXCEPT !.verdicts[d] = verdict]

CONSTANTS k1, k2

MCKeys == {k1, k2}

\* Somebody new with two facts, one of them approved by the caller; two about
\* the first person: one with an inference behind a fact, one with a
\* relationship and an interaction; a person without a name; nobody; and an
\* interaction with the first person that the caller says is approved, beside a
\* fact.
MCOffers ==
    { Preset(New("named", "d1" :> k1 @@ "d2" :> k2), "d2", "approved"),
      For(1, "d1" :> k1 @@ "d2" :> "inference"),
      For(1, "rel" :> "relationship" @@ "event" :> "event"),
      New("unnamed", "d1" :> k1),
      For(NoPerson, "d1" :> k1),
      Preset(For(1, "d1" :> k1 @@ "event" :> "event"), "event", "approved") }
=============================================================================
