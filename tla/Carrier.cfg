SPECIFICATION FairSpec
CONSTANTS
  Key = {k1, k2}
  Process = {p1, p2}
  NoProcess = NoProcess
  Turn = {t1, t2}
  Nobody = Nobody
  Classes = {"unknown", "transient"}
  Capacity = 1
  Modes <- MCModes
  TransientTicks = 1
  StructuralTicks = 1
  QuotaTicks = 1
  Strikes = 1
CHECK_DEADLOCK FALSE
INVARIANT TypeOK
INVARIANT OneTurnPerProcess
INVARIANT LeasesAreHolders
PROPERTY ImplementsLease
PROPERTY EveryCallEnds
