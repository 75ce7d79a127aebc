\* Two subscriptions of a topic with three events.
SPECIFICATION Spec
CONSTANTS
  Sub = {s1, s2}
  LockDuration = 1
  MaxEvent = 3
  MaxToken = 3
  MaxTime = 4
  MaxBatch = 2
SYMMETRY Symmetric
INVARIANTS
  TypeOK
  ExactlyOnePlace
  FreshInOrder
PROPERTIES
  LockHonoured
  TokenLost
CHECK_DEADLOCK FALSE
