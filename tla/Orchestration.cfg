SPECIFICATION Spec
SYMMETRY Symmetry
CONSTANTS
  Chain = {c1}
  Conn = {k1}
  Breed = {a, b, c}
  None = None
  Runnable = {a, b, c}
  Slots = 1
  SopDepths = {1, 4}
  Fallback = 8
  MaxMentions = 2
  MaxTargets = 3
  Serial = TRUE
CHECK_DEADLOCK FALSE
INVARIANTS RunsAreBudgeted
PROPERTY BreakerStops
