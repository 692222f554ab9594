\* One uuid and one username, two readers, every age and every phase of the ticker.
SPECIFICATION SeparatedSpec
CONSTANTS
  c1 = c1
  c2 = c2
  u1 = u1
  x1 = x1
  t1 = t1
  Clients = {c1, c2}
  Usernames = {u1}
  Uuids = {x1}
  Empty = Empty
  Absent = Absent
  Failed = Failed
  Unexpected = Unexpected
  Limit = 1
  Textures = {t1}
  NoTextures = NoTextures
  NoItem = NoItem
  Duration = 3
  GCPeriod = 2
  MayStop = TRUE
CHECK_DEADLOCK FALSE
INVARIANT AgreesWithLastStore
PROPERTY OldTexturesLeave
PROPERTY UuidsCacheSpec
PROPERTY ReportedIsRemoved
