SPECIFICATION Spec
CONSTANTS
  k1 = k1
  k2 = k2
  Candidate = {c1}
  NoCandidate = NoCandidate
  Key <- MCKeys
  Offers <- MCOffers
  MaxPeople = 2
  MaxItems = 3
  MaxDecisions = 2
INVARIANT TypeOK
INVARIANT ForgetIsFinal
INVARIANT MaterializedIsMade
INVARIANT DecisionsStand
PROPERTY EndedStaysEnded
