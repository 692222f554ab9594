\* Two clients that never ask about the same identity or username.
SPECIFICATION Spec
CONSTANTS
  c1 = c1
  c2 = c2
  i1 = i1
  i2 = i2
  i3 = i3
  Clients = {c1, c2}
  Ids = {i1, i2, i3}
  Names <- SomeNames
  Lower <- LowerSome
  NoName = NoName
  NoSkin = NoSkin
  Scope <- Apart
INVARIANT RecordsAreReachable
PROPERTY DeletedIsGone
