\* Three calls, batches of two, three names; the provider may be cancelled.
SPECIFICATION FairPeriodicSpec
CONSTANTS
  c1 = c1
  c2 = c2
  c3 = c3
  k1 = k1
  k2 = k2
  k3 = k3
  Calls = {c1, c2, c3}
  Names <- SomeNames
  Fold <- FoldSome
  Accounts = {k1, k2}
  NoProfile = NoProfile
  Failed = Failed
  Batch = 2
  MayCancel = TRUE
CHECK_DEADLOCK FALSE
INVARIANT JobsAreConserved
INVARIANT NothingBeforeStart
INVARIANT NoPanicInService
INVARIANT OneRoundAtATime
PROPERTY UuidExchangeSpec
PROPERTY EveryCallReturns
