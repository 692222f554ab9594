\* Three calls, batches of two, two names; the provider is not cancelled.
SPECIFICATION Spec
CONSTANTS
  c1 = c1
  c2 = c2
  c3 = c3
  k1 = k1
  k2 = k2
  Calls = {c1, c2, c3}
  Names <- SomeNames
  Fold <- FoldSome
  Accounts = {k1, k2}
  NoProfile = NoProfile
  Failed = Failed
  Batch = 2
  MayCancel = FALSE
CHECK_DEADLOCK FALSE
SYMMETRY Symmetry
INVARIANT FullBatchesAreSignalled
PROPERTY UuidExchangeSpec
