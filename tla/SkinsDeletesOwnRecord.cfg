\* Against the documentation: one request at a time, no old records, no failures.
SPECIFICATION SmoothSpec
CONSTANTS
  c1 = c1
  c2 = c2
  i1 = i1
  i2 = i2
  i3 = i3
  Clients = {c1}
  Ids = {i1, i2}
  Names <- SomeNames
  Lower <- LowerSome
  NoName = NoName
  NoSkin = NoSkin
  Scope <- Everything
PROPERTY DeletesOwnRecord
