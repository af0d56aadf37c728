SPECIFICATION FairSpec
CONSTANTS
  Chain = {c1, c2}
  Conn = {k1}
  Breed = {a, b}
  None = None
  Runnable = {a, b}
  Slots = 2
  SopDepths = {3}
  Fallback = 2
  MaxMentions = 1
  MaxTargets = 2
  Serial = FALSE
CHECK_DEADLOCK FALSE
INVARIANT RegistryIsBounded
PROPERTIES ChainTerminates StepsCount
