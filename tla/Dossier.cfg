SPECIFICATION Spec
SYMMETRY Symmetry
CONSTANTS
  Proposal = {p1, p2}
  Request = {x1, x2}
  NoProposal = NoProposal
  MaxCrashes = 1
CHECK_DEADLOCK FALSE
INVARIANT TypeOK
INVARIANT OnlyApprovedText
INVARIANT AppliedStays
INVARIANT CacheIsFresh
INVARIANT RetryStartsClean
