\* Two connections with a queue of one frame, one group, one publishing call.
SPECIFICATION Spec
CONSTANTS
  Conn = {c1, c2}
  room = room
  Group = {room}
  alice = alice
  User = {alice}
  user <- OneUser
  Call = {p1}
  outboundBuffer = 1
  Target <- SomeTargets
  Request <- SomeRequests
  MaxEvent = 1
  None = None
INVARIANTS
  HubSound
  NothingSkipped
  InOrder
PROPERTIES
  OnlyTheAudience
  PublishEnds
  CleanedUp
CHECK_DEADLOCK FALSE
