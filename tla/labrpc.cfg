SPECIFICATION FairSpec
CONSTANTS
  p0 = p0
  p1 = p1
  r1 = r1
  Peer = {p0, p1}
  Id = {r1}
  MaxGen = 3
  Nil = Nil
INVARIANTS
  TypeOK
  PositiveReplyKept
  OldInstanceSilent
PROPERTIES
  CallsReturn
CHECK_DEADLOCK FALSE
