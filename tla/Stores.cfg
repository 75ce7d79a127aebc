\* Each store alone: three calls of Write, three entities, three versions, two messages,
\* four names, seven phrases, three rows, four listeners.
SPECIFICATION AnySpec
CONSTANTS
  Inode = {i1, i2, i3, i4, i5}
  NoInode = NoInode
  MaxWrite = 3
  a1 = a1
  a2 = a2
  Client = {x1, x2}
  Table = {t}
  Key = {k}
  Prop = {a1, a2}
  Value = {v1}
  Any = Any
  MaxEntity = 3
  Secret = {x1, x2}
  SecretValue = {v1, v2}
  Attributes = {a1, a2}
  MaxVersion = 3
  MaxUpdate = 1
  Queue = {q}
  Metadata = {a1}
  Visibility = {0, 1}
  TTL = {1, Infinite}
  MaxMsg = 2
  MaxReceipt = 2
  MaxTime = 2
  Infinite = Infinite
  NoQueue = NoQueue
  Nobody = Nobody
  MaxName = 4
  MaxResults = {0, 1, 2}
  MaxPage = 3
  MaxChange = 2
  Field = {a1, a2}
  FieldValue <- FieldValues
  Phrase <- Phrases
  MaxPhrase = 7
  maxFilterDepth = 1
  Column = {a1, a2}
  Record <- Records
  Expr <- Exprs
  MaxRow = 3
  MaxStage = 3
  Listeners = 4
  MaxStart = 2
  None = None
INVARIANTS
  TypesOK
  CrashSafe
  SnapshotsSound
  Pages
  FiltersMean
  StagesMean
  StopsWell
  NeverHangs
  OneKey
PROPERTIES
  NeverOlder
  Exclusive
  NoLostUpdate
  NeverBack
CHECK_DEADLOCK FALSE
