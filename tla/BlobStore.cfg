\* One container, two names, one of them sent in two blocks, bodies of one byte and of one too many.
SPECIFICATION Spec
CONSTANTS
  Container = {c}
  Name = {n1, n2}
  Staged = {n1}
  i1 = i1
  i2 = i2
  BlockID = {i1, i2}
  Body <- Bodies
  BlockLists <- Lists
  Props = {p}
  maxBlobBytes = 2
  Absent = Absent
  Unsure = Unsure
INVARIANTS
  IndexSound
  Served
CHECK_DEADLOCK FALSE
