\* One client that may send its request again, a worker with two handlers, two names.
SPECIFICATION FairSpec
CONSTANTS
  c1 = c1
  h1 = h1
  h2 = h2
  k1 = k1
  k2 = k2
  Clients = {c1}
  Handlers = {h1, h2}
  Names <- SomeNames
  Fold <- FoldSome
  NoProfile = NoProfile
  Failed = Failed
  Batch = 2
  Nobody = Nobody
INVARIANT GracefulShutdown
PROPERTY RemoteExchangeSpec
PROPERTY FailureIsNotAbsence
PROPERTY ShutdownEnds
PROPERTY EveryCallReturns
