\* Against the code's own words.
SPECIFICATION FairSpec
CONSTANTS
  c1 = c1
  c2 = c2
  c3 = c3
  u1 = u1
  u2 = u2
  x1 = x1
  x2 = x2
  Calls = {c1, c2}
  Names <- OneName
  Usernames = {u1}
  Lower <- LowerOne
  NotAllowed = NotAllowed
  Uuids = {x1}
  NoUuid = NoUuid
  Absent = Absent
  NoTextures = NoTextures
  Failed = Failed
PROPERTY NilTexturesAreAHit
