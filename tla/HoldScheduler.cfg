SPECIFICATION FairSchedulerSpec
PROPERTIES
  ImplementsHoldLife
  AutoHoldEnds
INVARIANT EndsOnce
CONSTANTS
  a = a
  b = b
  None = None
  Breed = {a, b}
  Client = {c1, c2}
  Ticker = ticker
  MaxHolds = 2
  Asks <- MCAsks
  Others <- MCOthers
