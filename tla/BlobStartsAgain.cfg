\* A restart after the process stopped anywhere.
SPECIFICATION Spec
CONSTANTS
  Container = {c}
  Name = {n1, n2}
  Staged = {n1}
  i1 = i1
  i2 = i2
  BlockID = {i1, i2}
  Body <- Bodies
  BlockLists <- Lists
  Props = {p}
  maxBlobBytes = 2
  Absent = Absent
  Unsure = Unsure
INVARIANTS
  StartsAgain
CHECK_DEADLOCK FALSE
