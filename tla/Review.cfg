SPECIFICATION FairSpec
CONSTANTS
  Dog = {a, b, c}
  Default = {a, b, c}
  Thread = {t1, t2}
  Chain = {k1, k2}
  NoLease = NoLease
  NoSource = NoSource
INVARIANT TypeOK
INVARIANT VerdictsWereAsked
INVARIANT OnePerSource
PROPERTY EveryVerdictCounts
