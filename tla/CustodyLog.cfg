SPECIFICATION FairLogSpec
CONSTANTS
  a = a
  b = b
  None = None
  Breed = {a, b}
  Writable <- MCWritable
  MaxWritten = 3
  DegradeThreshold = 0
  Timeout = 1
  LongIdle = 2
CHECK_DEADLOCK FALSE
INVARIANTS
  ViewIsScan
  HolderIsNotRefused
  SweepIsSparse
PROPERTY
  DanglingIsClosed
