SPECIFICATION FairSpec
CONSTANTS
  Receipt = {r1, r2}
  Bound = {r2}
  NoReceipt = NoReceipt
  Backends <- MCBackends
  Batch = 1
  MaxCrashes = 1
CHECK_DEADLOCK FALSE
INVARIANT NothingIsStuck
PROPERTY ImplementsInbox
PROPERTY EveryReceiptIsOffered
