\* Two flights of two usernames, batches of one: rounds overlap, and leave jobs behind.
SPECIFICATION FairPipelineSpec
CONSTANTS
  c1 = c1
  c2 = c2
  k1 = k1
  k2 = k2
  Calls = {c1, c2}
  Names <- SomeNames
  Fold <- FoldSome
  Accounts = {k1}
  NoProfile = NoProfile
  Failed = Failed
  Batch = 1
  MayCancel = FALSE
  MaxLength = 1
CHECK_DEADLOCK FALSE
INVARIANT TimesAreOwn
INVARIANT NoForgottenTimers
PROPERTY EveryFlightLands
PROPERTY QueueLengthSettles
