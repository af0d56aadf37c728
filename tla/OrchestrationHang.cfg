SPECIFICATION FairSpec
CONSTANTS
  Chain = {c1}
  Conn = {k1}
  Breed = {a, b}
  None = None
  Runnable = {a, b}
  Slots = 1
  SopDepths = {3}
  Fallback = 8
  MaxMentions = 1
  MaxTargets = 2
  Serial = FALSE
CHECK_DEADLOCK FALSE
PROPERTY NeverHangs
