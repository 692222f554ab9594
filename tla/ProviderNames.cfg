\* Two calls, two usernames, one uuid: what is told to whom and kept where.
SPECIFICATION Spec
CONSTANTS
  c1 = c1
  c2 = c2
  c3 = c3
  u1 = u1
  u2 = u2
  x1 = x1
  x2 = x2
  Calls = {c1, c2}
  Names <- TwoNames
  Usernames = {u1, u2}
  Lower <- LowerTwo
  NotAllowed = NotAllowed
  Uuids = {x1}
  NoUuid = NoUuid
  Absent = Absent
  NoTextures = NoTextures
  Failed = Failed
SYMMETRY Symmetry
INVARIANT OwnTextures
INVARIANT HonestCaches
