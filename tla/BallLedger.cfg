SPECIFICATION LedgerSpec
CONSTANTS
  Breed = {a, b}
  None = None
  Caller = {p, q}
  Plain <- PlainEvents
  MaxAppends = 5
SYMMETRY Symmetry
INVARIANTS
  PassedOncePerTurn
  WokenOncePerPark
CHECK_DEADLOCK FALSE
