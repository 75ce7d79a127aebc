---------------------------- MODULE StoresProofs ----------------------------
(***************************************************************************)
(* What holds of the file-backed stores and of the process that serves     *)
(* them, for every value of the constants.                                 *)
(***************************************************************************)
EXTENDS QueueProofs

(* A step is a step of each service, or none of its.                       *)
LEMMA Inits ==
  AnyInit =>
    /\ Init /\ Tables!Init /\ Vault!Init /\ Queues!Init /\ Listing!Init /\ Filters!Init
    /\ Logs!Init /\ Starting!Init
  BY DEF AnyInit

LEMMA Steps ==
  [AnyNext]_allVars =>
    /\ [Next]_vars
    /\ [Tables!Next]_Tables!tableVars
    /\ [Vault!Next]_Vault!vaultVars
    /\ [Queues!Next]_Queues!vars
    /\ [Listing!Next]_Listing!listVars
    /\ [Filters!Next]_Filters!filterVars
    /\ [Logs!Next]_Logs!logVars
    /\ [Starting!Next]_Starting!processVars
<1> USE DEF tableVars, vaultVars, queueVars, listVars, filterVars, logVars, mainVars,
            Tables!tableVars, Vault!vaultVars, Queues!vars, Listing!listVars, Filters!filterVars,
            Logs!logVars, Starting!processVars, Starting!run, Starting!signer
<1> QED
  BY DEF AnyNext, allVars, serviceVars

-----------------------------------------------------------------------------
(* Write of atomicfile.                                                    *)

(* path.tmp never shares its file with path, as processes see them or on   *)
(* disk: truncating it touches nothing that can be read.                   *)
Apart ==
  /\ names.tmp # NoInode => names.tmp \notin {names.path, diskNames.path}
  /\ diskNames.tmp # NoInode => diskNames.tmp # diskNames.path

(* What path names has been synced, and is no older on the volatile side.  *)
Settled ==
  /\ names.path # NoInode =>
       /\ data[names.path] # Torn
       /\ data[names.path] = diskData[names.path]
  /\ diskNames.path # NoInode =>
       /\ diskData[diskNames.path] # Torn
       /\ data[diskNames.path] = diskData[diskNames.path]
       /\ names.path # NoInode
       /\ diskData[diskNames.path] <= diskData[names.path]

(* Between two steps the contents are where Write has brought them.        *)
InStep ==
  /\ \A i \in Inode : data[i] <= n /\ diskData[i] <= n
  /\ at # "return" => n > 0
  /\ at \in {"sync", "rename"} => data[names.tmp] = n
  /\ at = "rename" => diskData[names.tmp] = n
  /\ at = "dirSync" => names.path # NoInode /\ data[names.path] = n

FileInv == TypeOK /\ Apart /\ Settled /\ InStep /\ Survives

LEMMA FileInit == Init => FileInv
  BY AtomicFileAssumption
  DEF Init, FileInv, TypeOK, Entry, Data, Torn, Apart, Settled, InStep, Survives

LEMMA FileStep == FileInv /\ [Next]_vars => FileInv'
<1> SUFFICES ASSUME FileInv, [Next]_vars PROVE FileInv'
  OBVIOUS
<1> USE AtomicFileAssumption
<1> USE DEF FileInv, TypeOK, Entry, Data, Torn, Apart, Settled, InStep, Survives, fsVars, vars
<1>1. CASE Open
  BY <1>1 DEF Open, Free
<1>2. CASE WriteData
  BY <1>2 DEF WriteData
<1>3. CASE Sync
  BY <1>3 DEF Sync
<1>4. CASE Rename
  BY <1>4 DEF Rename
<1>5. CASE SyncDir
  BY <1>5 DEF SyncDir
<1>6. CASE Fail
  BY <1>6 DEF Fail
<1>7. CASE WriteBack
  BY <1>7 DEF WriteBack
<1>8. CASE Kill
  BY <1>8 DEF Kill
<1>9. CASE PowerFailure
  BY <1>9 DEF PowerFailure
<1>10. CASE UNCHANGED vars
  BY <1>10
<1>11. QED
  BY <1>1, <1>2, <1>3, <1>4, <1>5, <1>6, <1>7, <1>8, <1>9, <1>10 DEF Next

-----------------------------------------------------------------------------
(* Tables.                                                                 *)

EntitiesOf(ts) == {ts[t][k] : t \in DOMAIN ts, k \in Key} \ {None}

Asked == {c \in Client : answer[c] # None}

(* The entities that may be met again: in memory, in tables.json, and with *)
(* the clients.                                                            *)
Known ==
  EntitiesOf(tables) \cup EntitiesOf(snapshot)
    \cup ({answer[c].entity : c \in Asked} \ {None})

TableShape ==
  /\ \A t \in DOMAIN tables : DOMAIN tables[t] = Key
  /\ \A t \in DOMAIN snapshot : DOMAIN snapshot[t] = Key
  /\ DOMAIN answer = Client
  /\ clock \in Nat

(* No entity is ahead of the clock, and a timestamp names one entity.      *)
Past == \A e \in Known : e.timestamp \in Nat /\ e.timestamp <= clock
OneEach == \A e, f \in Known : e.timestamp = f.timestamp => e = f

TableInv == TableShape /\ Past /\ OneEach

-----------------------------------------------------------------------------
LEMMA TablesInit == Tables!Init => TableInv
  BY DEF Tables!Init, TableInv, TableShape, Past, OneEach, Known, EntitiesOf, Asked

(* Nothing is known afterwards but what was before.                        *)
LEMMA NothingNew ==
  ASSUME TableInv, TableShape', clock' = clock, Known' \subseteq Known
  PROVE  TableInv'
  BY DEF TableInv, Past, OneEach

(* Nothing is known afterwards but what was before, and one entity whose   *)
(* time is the clock's.                                                    *)
LEMMA OneNew ==
  ASSUME TableInv, TableShape', Tables!Tick, NEW e, e.timestamp = clock + 1, Known' \subseteq Known \cup {e}
  PROVE  TableInv'
<1>1. clock' = clock + 1 /\ clock \in Nat
  BY DEF TableInv, TableShape, Tables!Tick
<1>2. Past'
  BY <1>1 DEF TableInv, Past
<1>3. OneEach'
  BY <1>1 DEF TableInv, Past, OneEach
<1> QED
  BY <1>2, <1>3 DEF TableInv

LEMMA Persisted ==
  ASSUME Tables!persistLocked PROVE EntitiesOf(snapshot') \subseteq EntitiesOf(tables') \cup EntitiesOf(snapshot)
  BY DEF Tables!persistLocked

LEMMA PersistedShape ==
  ASSUME TableShape, Tables!persistLocked, \A t \in DOMAIN tables' : DOMAIN tables'[t] = Key
  PROVE  \A t \in DOMAIN snapshot' : DOMAIN snapshot'[t] = Key
  BY DEF TableShape, Tables!persistLocked

LEMMA Put ==
  ASSUME TableShape, NEW t \in DOMAIN tables, NEW k \in Key, NEW e, Tables!put(t, k, e)
  PROVE  /\ \A u \in DOMAIN tables' : DOMAIN tables'[u] = Key
         /\ EntitiesOf(tables') \subseteq EntitiesOf(tables) \cup ({e} \ {None})
  BY DEF TableShape, Tables!put, EntitiesOf

LEMMA Answer ==
  ASSUME TableShape, NEW c \in Client, NEW t, NEW k, NEW ifMatch, NEW e, Tables!Answered(c, t, k, ifMatch, e)
  PROVE  /\ DOMAIN answer' = Client
         /\ ({answer'[d].entity : d \in Asked'} \ {None})
              \subseteq ({answer[d].entity : d \in Asked} \ {None}) \cup ({e} \ {None})
<1>1. answer' = [answer EXCEPT ![c] = [table |-> t, key |-> k, ifMatch |-> ifMatch, entity |-> e]]
  BY DEF Tables!Answered
<1>2. DOMAIN answer' = Client
  BY <1>1 DEF TableShape
<1>3. ASSUME NEW d \in Asked', answer'[d].entity # None
      PROVE  answer'[d].entity = e \/ (d \in Asked /\ answer'[d].entity = answer[d].entity)
  <2>1. CASE d = c
    BY <1>1, <2>1 DEF TableShape
  <2>2. CASE d # c
    BY <1>1, <1>3, <2>2 DEF TableShape, Asked
  <2> QED
    BY <2>1, <2>2
<1> QED
  BY <1>2, <1>3

(* A write of an entity, in all its parts.                                 *)
LEMMA Write ==
  ASSUME TableInv, NEW c \in Client, NEW t \in DOMAIN tables, NEW k \in Key, NEW ifMatch,
         NEW e, Tables!put(t, k, e), Tables!persistLocked, Tables!Answered(c, t, k, ifMatch, e)
  PROVE  Known' \subseteq Known \cup ({e} \ {None}) /\ (clock' \in Nat => TableShape')
<1>1. TableShape
  BY DEF TableInv
<1>2. Known' \subseteq Known \cup ({e} \ {None})
  BY <1>1, Put, Persisted, Answer DEF Known
<1>3. DOMAIN answer' = Client
  BY <1>1, Answer
<1>4. \A u \in DOMAIN tables' : DOMAIN tables'[u] = Key
  BY <1>1, Put
<1>5. \A u \in DOMAIN snapshot' : DOMAIN snapshot'[u] = Key
  BY <1>1, <1>4, PersistedShape
<1> QED
  BY <1>2, <1>3, <1>4, <1>5 DEF TableShape

-----------------------------------------------------------------------------
LEMMA TablesStep == TableInv /\ [Tables!Next]_Tables!tableVars => TableInv'
<1> SUFFICES ASSUME TableInv, [Tables!Next]_Tables!tableVars PROVE TableInv'
  OBVIOUS
<1>0. TableShape /\ clock \in Nat
  BY DEF TableInv, TableShape
<1>1. ASSUME NEW t \in Table, Tables!CreateTable(t) PROVE TableInv'
  <2>1. /\ \A u \in DOMAIN tables' : DOMAIN tables'[u] = Key
        /\ EntitiesOf(tables') \subseteq EntitiesOf(tables)
    BY <1>0, <1>1 DEF Tables!CreateTable, TableShape, EntitiesOf, Tables!Empty
  <2>2. Tables!persistLocked /\ answer' = answer /\ clock' = clock
    BY <1>1 DEF Tables!CreateTable
  <2>3. TableShape'
    BY <1>0, <2>1, <2>2, PersistedShape DEF TableShape
  <2>4. Known' \subseteq Known
    BY <2>1, <2>2, Persisted DEF Known, Asked
  <2> QED
    BY <2>2, <2>3, <2>4, NothingNew
<1>2. ASSUME NEW t \in Table, Tables!DeleteTable(t) PROVE TableInv'
  <2>1. /\ \A u \in DOMAIN tables' : DOMAIN tables'[u] = Key
        /\ EntitiesOf(tables') \subseteq EntitiesOf(tables)
    BY <1>0, <1>2 DEF Tables!DeleteTable, TableShape, EntitiesOf
  <2>2. Tables!persistLocked /\ answer' = answer /\ clock' = clock
    BY <1>2 DEF Tables!DeleteTable
  <2>3. TableShape'
    BY <1>0, <2>1, <2>2, PersistedShape DEF TableShape
  <2>4. Known' \subseteq Known
    BY <2>1, <2>2, Persisted DEF Known, Asked
  <2> QED
    BY <2>2, <2>3, <2>4, NothingNew
<1>3. ASSUME NEW c \in Client, NEW t \in Table, NEW k \in Key, NEW props \in Tables!Props,
             Tables!InsertEntity(c, t, k, props)
      PROVE  TableInv'
  <2> DEFINE e == Tables!buildEntity(props)
  <2>1. /\ t \in DOMAIN tables /\ Tables!Tick
        /\ Tables!put(t, k, e) /\ Tables!persistLocked /\ Tables!Answered(c, t, k, None, e)
    BY <1>3 DEF Tables!InsertEntity, Tables!Found
  <2>2. e.timestamp = clock + 1 /\ clock' \in Nat
    BY <1>0, <2>1 DEF Tables!buildEntity, Tables!Tick
  <2> HIDE DEF e
  <2>3. TableShape' /\ Known' \subseteq Known \cup {e}
    BY <2>1, <2>2, Write
  <2> QED
    BY <2>1, <2>2, <2>3, OneNew
<1>4. ASSUME NEW c \in Client, NEW t \in Table, NEW k \in Key, Tables!GetEntity(c, t, k) PROVE TableInv'
  <2>1. t \in DOMAIN tables /\ Tables!Answered(c, t, k, None, tables[t][k])
    BY <1>4 DEF Tables!GetEntity, Tables!Found
  <2>2. tables' = tables /\ snapshot' = snapshot /\ clock' = clock
    BY <1>4 DEF Tables!GetEntity
  <2>3. {tables[t][k]} \ {None} \subseteq EntitiesOf(tables)
    BY <2>1 DEF EntitiesOf
  <2>4. TableShape'
    BY <1>0, <2>1, <2>2, Answer DEF TableShape
  <2>5. Known' \subseteq Known
    BY <1>0, <2>1, <2>2, <2>3, Answer DEF Known
  <2> QED
    BY <2>2, <2>4, <2>5, NothingNew
<1>5. ASSUME NEW c \in Client, NEW t \in Table, NEW k \in Key, NEW ifMatch,
             NEW props \in Tables!Props, NEW merge \in BOOLEAN, Tables!update(c, t, k, props, ifMatch, merge)
      PROVE  TableInv'
  <2>1. PICK e : /\ e.timestamp = clock + 1 /\ t \in DOMAIN tables /\ Tables!Tick
                 /\ Tables!put(t, k, e) /\ Tables!persistLocked /\ Tables!Answered(c, t, k, ifMatch, e)
    BY <1>5 DEF Tables!update, Tables!Found, Tables!buildEntity
  <2>2. clock' \in Nat
    BY <1>0, <2>1 DEF Tables!Tick
  <2>3. TableShape' /\ Known' \subseteq Known \cup {e}
    BY <2>1, <2>2, Write
  <2> QED
    BY <2>1, <2>3, OneNew
<1>6. ASSUME NEW c \in Client, NEW t \in Table, NEW k \in Key, NEW ifMatch,
             Tables!DeleteEntity(c, t, k, ifMatch)
      PROVE  TableInv'
  <2>1. /\ t \in DOMAIN tables /\ clock' = clock
        /\ Tables!put(t, k, None) /\ Tables!persistLocked /\ Tables!Answered(c, t, k, ifMatch, None)
    BY <1>6 DEF Tables!DeleteEntity, Tables!Found
  <2>2. TableShape' /\ Known' \subseteq Known
    BY <1>0, <2>1, Write
  <2> QED
    BY <2>1, <2>2, NothingNew
<1>7. CASE Tables!Stop
  BY <1>0, <1>7, NothingNew DEF Tables!Stop, TableShape, Known, Asked
<1>8. CASE Tables!load
  BY <1>0, <1>8, NothingNew DEF Tables!load, TableShape, Known, Asked
<1>9. CASE UNCHANGED Tables!tableVars
  BY <1>0, <1>9, NothingNew DEF Tables!tableVars, TableShape, Known, Asked
<1> QED
  BY <1>1, <1>2, <1>3, <1>4, <1>5, <1>6, <1>7, <1>8, <1>9 DEF Tables!Next

-----------------------------------------------------------------------------
(* The condition of a request is met by the entity its client knows.       *)
LEMMA ConditionMet ==
  ASSUME TableInv, NEW c \in Client, NEW t \in DOMAIN tables, NEW k \in Key, tables[t][k] # None,
         NEW ifMatch \in Tables!Conditions(c, t, k), ifMatch \notin {None, Any},
         Tables!matchETag(tables[t][k], ifMatch)
  PROVE  tables[t][k] = answer[c].entity
<1>1. /\ answer[c] # None /\ answer[c].entity # None
      /\ ifMatch = answer[c].entity.timestamp
  BY DEF Tables!Conditions, Tables!etagFor
<1>2. ifMatch = tables[t][k].timestamp
  BY DEF Tables!matchETag, Tables!etagFor
<1>3. tables[t][k] \in Known /\ answer[c].entity \in Known
  BY <1>1 DEF Known, EntitiesOf, Asked
<1> QED
  BY <1>1, <1>2, <1>3 DEF TableInv, OneEach

LEMMA StepMeets ==
  ASSUME TableInv, [Tables!Next]_Tables!tableVars, NEW d \in Client, answer'[d] # answer[d],
         answer'[d].ifMatch \notin {None, Any}
  PROVE  /\ answer'[d].table \in DOMAIN tables
         /\ tables[answer'[d].table][answer'[d].key] = answer[d].entity
<1> DEFINE a == answer'[d]
           Met == a.table \in DOMAIN tables /\ tables[a.table][a.key] = answer[d].entity
<1>0. DOMAIN answer = Client
  BY DEF TableInv, TableShape
<1>1. ASSUME NEW c \in Client, NEW t \in Table, NEW k \in Key, NEW ifMatch, NEW e,
             Tables!Answered(c, t, k, ifMatch, e)
      PROVE  c = d /\ a.table = t /\ a.key = k /\ a.ifMatch = ifMatch
  BY <1>0, <1>1 DEF Tables!Answered
<1>2. ASSUME NEW c \in Client, NEW t \in Table, NEW k \in Key, NEW props \in Tables!Props,
             Tables!InsertEntity(c, t, k, props)
      PROVE  Met
  <2>1. Tables!Answered(c, t, k, None, Tables!buildEntity(props))
    BY <1>2 DEF Tables!InsertEntity
  <2> QED
    BY <1>1, <2>1
<1>3. ASSUME NEW c \in Client, NEW t \in Table, NEW k \in Key, Tables!GetEntity(c, t, k)
      PROVE  Met
  <2>1. Tables!Answered(c, t, k, None, tables[t][k])
    BY <1>3 DEF Tables!GetEntity
  <2> QED
    BY <1>1, <2>1
<1>4. ASSUME NEW c \in Client, NEW t \in Table, NEW k \in Key,
             NEW ifMatch \in Tables!Conditions(c, t, k), NEW props \in Tables!Props, NEW merge \in BOOLEAN,
             Tables!update(c, t, k, props, ifMatch, merge)
      PROVE  Met
  <2>1. /\ t \in DOMAIN tables
        /\ IF tables[t][k] = None THEN ifMatch = None ELSE Tables!matchETag(tables[t][k], ifMatch)
        /\ \E e : Tables!Answered(c, t, k, ifMatch, e)
    BY <1>4 DEF Tables!update, Tables!Found
  <2>2. c = d /\ a.table = t /\ a.key = k /\ a.ifMatch = ifMatch
    BY <1>1, <2>1
  <2>3. tables[t][k] = answer[c].entity
    BY <2>1, <2>2, ConditionMet
  <2> QED
    BY <2>1, <2>2, <2>3
<1>5. ASSUME NEW c \in Client, NEW t \in Table, NEW k \in Key,
             NEW ifMatch \in Tables!Conditions(c, t, k), Tables!DeleteEntity(c, t, k, ifMatch)
      PROVE  Met
  <2>1. /\ t \in DOMAIN tables /\ tables[t][k] # None
        /\ Tables!matchETag(tables[t][k], ifMatch)
        /\ Tables!Answered(c, t, k, ifMatch, None)
    BY <1>5 DEF Tables!DeleteEntity, Tables!Found
  <2>2. c = d /\ a.table = t /\ a.key = k /\ a.ifMatch = ifMatch
    BY <1>1, <2>1
  <2>3. tables[t][k] = answer[c].entity
    BY <2>1, <2>2, ConditionMet
  <2> QED
    BY <2>1, <2>2, <2>3
<1>6. ASSUME UNCHANGED answer PROVE FALSE
  BY <1>6
<1>7. \A t \in Table : ~Tables!CreateTable(t) /\ ~Tables!DeleteTable(t)
  BY <1>6 DEF Tables!CreateTable, Tables!DeleteTable
<1>8. ~Tables!Stop /\ ~Tables!load /\ ~UNCHANGED Tables!tableVars
  BY <1>6 DEF Tables!Stop, Tables!load, Tables!tableVars
<1> QED
  BY <1>2, <1>3, <1>4, <1>5, <1>7, <1>8 DEF Tables!Next

(* tables.json is what is in memory unless its last write failed.          *)
SavedInv == ~unsaved => snapshot = tables

LEMMA SavedStep == SavedInv /\ [Tables!Next]_Tables!tableVars => SavedInv'
<1> SUFFICES ASSUME SavedInv, [Tables!Next]_Tables!tableVars PROVE SavedInv'
  OBVIOUS
<1>1. CASE Tables!persistLocked
  BY <1>1 DEF Tables!persistLocked, SavedInv
<1>2. CASE UNCHANGED <<tables, snapshot, unsaved>>
  BY <1>2 DEF SavedInv
<1>3. CASE Tables!load
  BY <1>3 DEF Tables!load, SavedInv
<1>4. ASSUME NEW t \in Table
      PROVE  Tables!CreateTable(t) \/ Tables!DeleteTable(t) => Tables!persistLocked
  BY DEF Tables!CreateTable, Tables!DeleteTable
<1>5. ASSUME NEW c \in Client, NEW t \in Table, NEW k \in Key, NEW props \in Tables!Props
      PROVE  Tables!InsertEntity(c, t, k, props) => Tables!persistLocked
  BY DEF Tables!InsertEntity
<1>6. ASSUME NEW c \in Client, NEW t \in Table, NEW k \in Key
      PROVE  Tables!GetEntity(c, t, k) => UNCHANGED <<tables, snapshot, unsaved>>
  BY DEF Tables!GetEntity
<1>7. ASSUME NEW c \in Client, NEW t \in Table, NEW k \in Key, NEW ifMatch,
             NEW props \in Tables!Props, NEW merge \in BOOLEAN
      PROVE  Tables!update(c, t, k, props, ifMatch, merge) => Tables!persistLocked
  BY DEF Tables!update
<1>8. ASSUME NEW c \in Client, NEW t \in Table, NEW k \in Key, NEW ifMatch
      PROVE  Tables!DeleteEntity(c, t, k, ifMatch) => Tables!persistLocked
  BY DEF Tables!DeleteEntity
<1>9. Tables!Stop \/ UNCHANGED Tables!tableVars => UNCHANGED <<tables, snapshot, unsaved>>
  BY DEF Tables!Stop, Tables!tableVars
<1> QED
  BY <1>1, <1>2, <1>3, <1>4, <1>5, <1>6, <1>7, <1>8, <1>9 DEF Tables!Next

(* Both copies of the tables are of their type.                            *)
LEMMA TablesOfSome ==
  ASSUME NEW S \in SUBSET Table, NEW ts \in [S -> [Key -> Tables!Entity \cup {None}]]
  PROVE  ts \in Tables!Tables
  BY DEF Tables!Tables

LEMMA PutTyped ==
  ASSUME tables \in Tables!Tables, NEW t \in DOMAIN tables, NEW k \in Key,
         NEW e \in Tables!Entity \cup {None}, Tables!put(t, k, e)
  PROVE  tables' \in Tables!Tables
<1>1. PICK S \in SUBSET Table : tables \in [S -> [Key -> Tables!Entity \cup {None}]]
  BY DEF Tables!Tables
<1>2. tables' \in [S -> [Key -> Tables!Entity \cup {None}]]
  BY <1>1 DEF Tables!put
<1> QED
  BY <1>2, TablesOfSome

LEMMA EntityIn ==
  ASSUME tables \in Tables!Tables, NEW t \in DOMAIN tables, NEW k \in Key
  PROVE  tables[t][k] \in Tables!Entity \cup {None}
  BY DEF Tables!Tables

LEMMA BuiltTyped ==
  ASSUME Tables!TypeOK, Tables!Tick, NEW props \in Tables!Props
  PROVE  Tables!buildEntity(props) \in Tables!Entity /\ clock' \in 0..MaxEntity
  BY StoresAssumption DEF Tables!TypeOK, Tables!Tick, Tables!buildEntity, Tables!Entity

LEMMA SnapshotTyped ==
  ASSUME Tables!TypeOK, Tables!persistLocked, tables' \in Tables!Tables
  PROVE  snapshot' \in Tables!Tables
  BY DEF Tables!TypeOK, Tables!persistLocked

LEMMA TablesTypedInit == Tables!Init => Tables!TypeOK
<1> SUFFICES ASSUME Tables!Init PROVE Tables!TypeOK
  OBVIOUS
<1>1. <<>> \in [{} -> [Key -> Tables!Entity \cup {None}]]
  OBVIOUS
<1>2. <<>> \in Tables!Tables
  BY <1>1, TablesOfSome
<1> QED
  BY <1>2, StoresAssumption DEF Tables!Init, Tables!TypeOK

LEMMA TablesTypedStep == Tables!TypeOK /\ [Tables!Next]_Tables!tableVars => Tables!TypeOK'
<1> SUFFICES ASSUME Tables!TypeOK, [Tables!Next]_Tables!tableVars PROVE Tables!TypeOK'
  OBVIOUS
<1>0. tables \in Tables!Tables /\ snapshot \in Tables!Tables /\ clock \in 0..MaxEntity
  BY DEF Tables!TypeOK
<1>1. PICK S \in SUBSET Table : tables \in [S -> [Key -> Tables!Entity \cup {None}]]
  BY <1>0 DEF Tables!Tables
<1>2. ASSUME NEW t \in Table, Tables!CreateTable(t) PROVE Tables!TypeOK'
  <2>1. tables' \in [S \cup {t} -> [Key -> Tables!Entity \cup {None}]]
    BY <1>1, <1>2 DEF Tables!CreateTable, Tables!Empty
  <2>2. tables' \in Tables!Tables
    BY <2>1, TablesOfSome
  <2> QED
    BY <1>0, <1>2, <2>2, SnapshotTyped DEF Tables!CreateTable, Tables!TypeOK
<1>3. ASSUME NEW t \in Table, Tables!DeleteTable(t) PROVE Tables!TypeOK'
  <2>1. tables' \in [S \ {t} -> [Key -> Tables!Entity \cup {None}]]
    BY <1>1, <1>3 DEF Tables!DeleteTable
  <2>2. tables' \in Tables!Tables
    BY <2>1, TablesOfSome
  <2> QED
    BY <1>0, <1>3, <2>2, SnapshotTyped DEF Tables!DeleteTable, Tables!TypeOK
<1>4. ASSUME NEW c \in Client, NEW t \in Table, NEW k \in Key, NEW props \in Tables!Props,
             Tables!InsertEntity(c, t, k, props)
      PROVE  Tables!TypeOK'
  <2>1. t \in DOMAIN tables /\ Tables!Tick /\ Tables!put(t, k, Tables!buildEntity(props))
    BY <1>4 DEF Tables!InsertEntity, Tables!Found
  <2>2. tables' \in Tables!Tables /\ clock' \in 0..MaxEntity
    BY <1>0, <2>1, BuiltTyped, PutTyped
  <2> QED
    BY <1>4, <2>2, SnapshotTyped DEF Tables!InsertEntity, Tables!TypeOK
<1>5. ASSUME NEW c \in Client, NEW t \in Table, NEW k \in Key, Tables!GetEntity(c, t, k)
      PROVE  Tables!TypeOK'
  BY <1>0, <1>5 DEF Tables!GetEntity, Tables!TypeOK
<1>6. ASSUME NEW c \in Client, NEW t \in Table, NEW k \in Key,
             NEW ifMatch, NEW props \in Tables!Props, NEW merge \in BOOLEAN,
             Tables!update(c, t, k, props, ifMatch, merge)
      PROVE  Tables!TypeOK'
  <2> DEFINE old == tables[t][k]
             now_ == IF merge /\ old # None THEN Tables!Merged(old.props, props) ELSE props
  <2>1. t \in DOMAIN tables /\ Tables!Tick /\ Tables!put(t, k, Tables!buildEntity(now_))
    BY <1>6 DEF Tables!update, Tables!Found
  <2>2. now_ \in Tables!Props
    <3>1. old \in Tables!Entity \cup {None}
      BY <1>0, <2>1, EntityIn
    <3>2. CASE merge /\ old # None
      BY <3>1, <3>2 DEF Tables!Merged, Tables!Props, Tables!Entity
    <3> QED
      BY <3>2
  <2> HIDE DEF now_
  <2>3. tables' \in Tables!Tables /\ clock' \in 0..MaxEntity
    BY <1>0, <2>1, <2>2, BuiltTyped, PutTyped
  <2> QED
    BY <1>6, <2>3, SnapshotTyped DEF Tables!update, Tables!TypeOK
<1>7. ASSUME NEW c \in Client, NEW t \in Table, NEW k \in Key, NEW ifMatch,
             Tables!DeleteEntity(c, t, k, ifMatch)
      PROVE  Tables!TypeOK'
  <2>1. tables' \in Tables!Tables
    BY <1>0, <1>7, PutTyped DEF Tables!DeleteEntity, Tables!Found
  <2> QED
    BY <1>0, <1>7, <2>1, SnapshotTyped DEF Tables!DeleteEntity, Tables!TypeOK
<1>8. CASE Tables!Stop \/ Tables!load \/ UNCHANGED Tables!tableVars
  BY <1>0, <1>8 DEF Tables!Stop, Tables!load, Tables!tableVars, Tables!TypeOK
<1> QED
  BY <1>2, <1>3, <1>4, <1>5, <1>6, <1>7, <1>8 DEF Tables!Next

-----------------------------------------------------------------------------
(* Secrets.                                                                *)

SetEntry == [name : Secret, value : SecretValue]

(* No version in memory or in secrets.json is ahead of those set, or one   *)
(* whose removal is on disk.                                               *)
VaultInv ==
  /\ set \in Seq(SetEntry)
  /\ deleted \subseteq DOMAIN set
  /\ Vault!VersionsIn(vault) \subseteq DOMAIN set \ deleted
  /\ Vault!VersionsIn(secretsFile) \subseteq DOMAIN set \ deleted

-----------------------------------------------------------------------------
LEMMA VaultInit == Vault!Init => VaultInv
  BY DEF Vault!Init, VaultInv, Vault!VersionsIn

(* A request that sets no version, persisted or not.                       *)
LEMMA NoneSet ==
  ASSUME VaultInv, Vault!persistLocked, UNCHANGED set, Vault!VersionsIn(vault') \subseteq Vault!VersionsIn(vault)
  PROVE  VaultInv' /\ deleted \subseteq deleted'
<1>1. CASE secretsFile' = vault' /\ deleted' = DOMAIN set' \ Vault!VersionsIn(vault')
  BY <1>1 DEF VaultInv
<1>2. CASE UNCHANGED <<secretsFile, deleted>>
  BY <1>2 DEF VaultInv
<1> QED
  BY <1>1, <1>2 DEF Vault!persistLocked

(* The sequence of the versions set grows by one that was not in use.      *)
LEMMA Grown ==
  ASSUME VaultInv, NEW s \in SetEntry, set' = Append(set, s)
  PROVE  /\ set' \in Seq(SetEntry)
         /\ DOMAIN set' = DOMAIN set \cup {Vault!newVersion}
         /\ Vault!newVersion \notin DOMAIN set
  BY DEF VaultInv, Vault!newVersion

LEMMA OneSet ==
  ASSUME VaultInv, Vault!persistLocked, NEW s \in SetEntry, set' = Append(set, s),
         Vault!VersionsIn(vault') \subseteq Vault!VersionsIn(vault) \cup {Vault!newVersion}
  PROVE  VaultInv' /\ deleted \subseteq deleted'
<1>1. CASE secretsFile' = vault' /\ deleted' = DOMAIN set' \ Vault!VersionsIn(vault')
  BY <1>1, Grown DEF VaultInv
<1>2. CASE UNCHANGED <<secretsFile, deleted>>
  BY <1>2, Grown DEF VaultInv
<1> QED
  BY <1>1, <1>2 DEF Vault!persistLocked

-----------------------------------------------------------------------------
LEMMA VaultStep == VaultInv /\ [Vault!Next]_Vault!vaultVars => VaultInv' /\ deleted \subseteq deleted'
<1> SUFFICES ASSUME VaultInv, [Vault!Next]_Vault!vaultVars PROVE VaultInv' /\ deleted \subseteq deleted'
  OBVIOUS
<1>1. ASSUME NEW name \in Secret, NEW value \in SecretValue, NEW attrs \in Attributes,
             Vault!SetSecret(name, value, attrs)
      PROVE  VaultInv' /\ deleted \subseteq deleted'
  <2>1. /\ set' = Append(set, [name |-> name, value |-> value])
        /\ [name |-> name, value |-> value] \in SetEntry
        /\ Vault!persistLocked
    BY <1>1 DEF Vault!SetSecret, SetEntry
  <2> DEFINE e == IF name \in DOMAIN vault THEN vault[name] ELSE Vault!NewEntry
  <2> DEFINE entry ==
        [Current |-> Vault!newVersion,
         Order |-> Append(e.Order, Vault!newVersion),
         Versions |-> [w \in DOMAIN e.Versions \cup {Vault!newVersion} |->
                         IF w = Vault!newVersion THEN [value |-> value, attrs |-> attrs]
                                           ELSE e.Versions[w]]]
  <2>2. vault' = Vault!With(name, entry) /\ DOMAIN entry.Versions = DOMAIN e.Versions \cup {Vault!newVersion}
    BY <1>1 DEF Vault!SetSecret
  <2>3. Vault!VersionsIn(vault') \subseteq Vault!VersionsIn(vault) \cup {Vault!newVersion}
    <3>1. DOMAIN e.Versions \subseteq Vault!VersionsIn(vault)
      BY DEF Vault!VersionsIn, Vault!NewEntry
    <3> HIDE DEF e, entry
    <3>2. /\ DOMAIN vault' = DOMAIN vault \cup {name}
          /\ \A m \in DOMAIN vault' : vault'[m] = IF m = name THEN entry ELSE vault[m]
      BY <2>2 DEF Vault!With
    <3>3. ASSUME NEW m \in DOMAIN vault'
          PROVE  DOMAIN vault'[m].Versions \subseteq Vault!VersionsIn(vault) \cup {Vault!newVersion}
      <4>1. CASE m = name
        BY <2>2, <3>1, <3>2, <4>1
      <4>2. CASE m # name
        BY <3>2, <4>2 DEF Vault!VersionsIn
      <4> QED
        BY <4>1, <4>2
    <3> QED
      BY <3>3 DEF Vault!VersionsIn
  <2> QED
    BY <2>1, <2>3, OneSet
<1>2. ASSUME NEW name \in Secret, NEW version \in Vault!Version \cup {0}, NEW attrs \in Attributes,
             Vault!UpdateSecret(name, version, attrs)
      PROVE  VaultInv' /\ deleted \subseteq deleted'
  <2>1. /\ name \in DOMAIN vault
        /\ vault' = [vault EXCEPT ![name].Versions[Vault!VersionOf(name, version)].attrs = attrs]
        /\ UNCHANGED set /\ Vault!persistLocked
    BY <1>2 DEF Vault!UpdateSecret, Vault!Found
  <2>2. DOMAIN vault' = DOMAIN vault
    BY <2>1
  <2>3. \A m \in DOMAIN vault : DOMAIN vault'[m].Versions \subseteq DOMAIN vault[m].Versions
    BY <2>1
  <2>4. Vault!VersionsIn(vault') \subseteq Vault!VersionsIn(vault)
    BY <2>2, <2>3 DEF Vault!VersionsIn
  <2> QED
    BY <2>1, <2>4, NoneSet
<1>3. ASSUME NEW name \in Secret, Vault!DeleteSecret(name)
      PROVE  VaultInv' /\ deleted \subseteq deleted'
  <2>1. /\ vault' = [m \in DOMAIN vault \ {name} |-> vault[m]]
        /\ UNCHANGED set /\ Vault!persistLocked
    BY <1>3 DEF Vault!DeleteSecret
  <2>2. Vault!VersionsIn(vault') \subseteq Vault!VersionsIn(vault)
    BY <2>1 DEF Vault!VersionsIn
  <2> QED
    BY <2>1, <2>2, NoneSet
<1>4. CASE Vault!Stop
  BY <1>4 DEF Vault!Stop, VaultInv
<1>5. CASE Vault!load
  BY <1>5 DEF Vault!load, VaultInv
<1>6. CASE UNCHANGED Vault!vaultVars
  BY <1>6 DEF Vault!vaultVars, VaultInv
<1> QED
  BY <1>1, <1>2, <1>3, <1>4, <1>5, <1>6 DEF Vault!Next

(* A secret whose versions are among those set in s.                       *)
EntryOK(s, name, e) ==
  /\ e \in Vault!Entries
  /\ e.Order # <<>> /\ e.Current = e.Order[Len(e.Order)]
  /\ DOMAIN e.Versions = {e.Order[i] : i \in DOMAIN e.Order}
  /\ \A i, j \in DOMAIN e.Order : i < j => e.Order[i] < e.Order[j]
  /\ \A ver \in DOMAIN e.Versions :
       ver \in DOMAIN s /\ s[ver].name = name /\ s[ver].value = e.Versions[ver].value

CopyOK(s, v) == \A name \in DOMAIN v : name \in Secret /\ EntryOK(s, name, v[name])

SecretsOK == set \in Seq(SetEntry) /\ CopyOK(set, vault) /\ CopyOK(set, secretsFile)

LEMMA EntryTyped ==
  ASSUME NEW e \in Vault!Entries
  PROVE  /\ e.Current \in Vault!Version /\ e.Order \in Seq(Vault!Version)
         /\ DOMAIN e.Versions \subseteq Vault!Version
         /\ \A ver \in DOMAIN e.Versions :
              e.Versions[ver] \in [value : SecretValue, attrs : Attributes]
         /\ e.Versions = [ver \in DOMAIN e.Versions |-> e.Versions[ver]]
  BY DEF Vault!Entries

LEMMA EntryBuilt ==
  ASSUME NEW cur \in Vault!Version, NEW order \in Seq(Vault!Version),
         NEW W \in SUBSET Vault!Version,
         NEW vs \in [W -> [value : SecretValue, attrs : Attributes]]
  PROVE  [Current |-> cur, Order |-> order, Versions |-> vs] \in Vault!Entries
  BY DEF Vault!Entries

(* What is set afterwards disturbs no entry.                               *)
LEMMA EntryStays ==
  ASSUME NEW s \in Seq(SetEntry), NEW new \in SetEntry, NEW name, NEW e, EntryOK(s, name, e)
  PROVE  EntryOK(Append(s, new), name, e)
<1>1. \A ver \in DOMAIN s : ver \in DOMAIN Append(s, new) /\ Append(s, new)[ver] = s[ver]
  OBVIOUS
<1> QED
  BY <1>1 DEF EntryOK

LEMMA CopyStays ==
  ASSUME NEW s \in Seq(SetEntry), NEW new \in SetEntry, NEW v, CopyOK(s, v)
  PROVE  CopyOK(Append(s, new), v)
  BY EntryStays DEF CopyOK

(* The entry SetSecret makes of e.                                         *)
OrderAfter(e, ver) == Append(e.Order, ver)
VersionsAfter(e, ver, value, attrs) ==
  [w \in DOMAIN e.Versions \cup {ver} |->
     IF w = ver THEN [value |-> value, attrs |-> attrs] ELSE e.Versions[w]]
EntryAfter(e, ver, value, attrs) ==
  [Current |-> ver, Order |-> OrderAfter(e, ver),
   Versions |-> VersionsAfter(e, ver, value, attrs)]

LEMMA EntryExtended ==
  ASSUME NEW s \in Seq(SetEntry), NEW name \in Secret, NEW value \in SecretValue,
         NEW attrs \in Attributes, NEW ver \in Vault!Version, ver = Len(s) + 1,
         NEW e, e = Vault!NewEntry \/ EntryOK(s, name, e)
  PROVE  EntryOK(Append(s, [name |-> name, value |-> value]), name,
                 EntryAfter(e, ver, value, attrs))
<1> DEFINE new == [name |-> name, value |-> value]
           order == OrderAfter(e, ver)
           vs == VersionsAfter(e, ver, value, attrs)
<1>1. /\ e.Order \in Seq(Vault!Version)
      /\ DOMAIN e.Versions = {e.Order[i] : i \in DOMAIN e.Order}
      /\ \A i, j \in DOMAIN e.Order : i < j => e.Order[i] < e.Order[j]
      /\ \A w \in DOMAIN e.Versions : 
           /\ w \in Vault!Version
           /\ e.Versions[w] \in [value : SecretValue, attrs : Attributes]
           /\ w \in DOMAIN s /\ s[w].name = name /\ s[w].value = e.Versions[w].value
  <2>1. CASE e = Vault!NewEntry
    BY <2>1 DEF Vault!NewEntry
  <2>2. CASE EntryOK(s, name, e)
    BY <2>2, EntryTyped DEF EntryOK
  <2> QED
    BY <2>1, <2>2
<1>2. new \in SetEntry
  BY DEF SetEntry
<1>3. \A w \in DOMAIN s : w \in DOMAIN Append(s, new) /\ Append(s, new)[w] = s[w] /\ w < ver
  BY <1>2
<1>4. Len(s) + 1 \in DOMAIN Append(s, new) /\ Append(s, new)[Len(s) + 1] = new
  BY <1>2
<1>5. /\ order \in Seq(Vault!Version) /\ Len(order) = Len(e.Order) + 1
      /\ order[Len(order)] = ver
      /\ \A i \in DOMAIN e.Order : i \in DOMAIN order /\ order[i] = e.Order[i]
      /\ \A i \in DOMAIN order : i \in DOMAIN e.Order \/ i = Len(order)
      /\ \A i \in DOMAIN e.Order : i < Len(order)
      /\ Len(order) \in DOMAIN order /\ order # <<>>
      /\ DOMAIN order \subseteq Nat
  <2>1. PICK old \in Seq(Vault!Version) : old = e.Order
    BY <1>1
  <2>2. order = Append(old, ver)
    BY <2>1 DEF OrderAfter
  <2> HIDE DEF order
  <2>3. /\ order \in Seq(Vault!Version) /\ Len(order) = Len(old) + 1
        /\ order[Len(old) + 1] = ver
        /\ \A i \in 1..Len(old) : order[i] = old[i]
    BY <2>2, AppendProperties
  <2>4. /\ DOMAIN old = 1..Len(old) /\ Len(old) \in Nat
        /\ DOMAIN order = 1..(Len(old) + 1)
    BY <2>3
  <2> QED
    BY <2>1, <2>3, <2>4
<1>6. /\ DOMAIN vs = DOMAIN e.Versions \cup {ver}
      /\ vs[ver] = [value |-> value, attrs |-> attrs]
      /\ \A w \in DOMAIN e.Versions : vs[w] = e.Versions[w]
      /\ vs \in [DOMAIN e.Versions \cup {ver} -> [value : SecretValue, attrs : Attributes]]
  <2>1. ver \notin DOMAIN e.Versions
    BY <1>1, <1>3
  <2>2. /\ DOMAIN vs = DOMAIN e.Versions \cup {ver}
        /\ vs[ver] = [value |-> value, attrs |-> attrs]
        /\ \A w \in DOMAIN e.Versions : vs[w] = e.Versions[w]
    BY <2>1 DEF VersionsAfter
  <2>3. [value |-> value, attrs |-> attrs] \in [value : SecretValue, attrs : Attributes]
    OBVIOUS
  <2>4. vs \in [DOMAIN e.Versions \cup {ver} -> [value : SecretValue, attrs : Attributes]]
    BY <1>1, <2>3 DEF VersionsAfter
  <2> QED
    BY <2>2, <2>4
<1> HIDE DEF order, vs
<1>7. [Current |-> ver, Order |-> order, Versions |-> vs] \in Vault!Entries
  <2>1. DOMAIN e.Versions \cup {ver} \in SUBSET Vault!Version
    BY <1>1
  <2> QED
    BY <1>5, <1>6, <2>1, EntryBuilt
<1>8. DOMAIN vs = {order[i] : i \in DOMAIN order}
  <2>1. ASSUME NEW w \in DOMAIN vs PROVE w \in {order[i] : i \in DOMAIN order}
    <3>1. CASE w = ver
      BY <1>5, <3>1
    <3>2. CASE w \in DOMAIN e.Versions
      <4>1. PICK i \in DOMAIN e.Order : w = e.Order[i]
        BY <1>1, <3>2
      <4> QED
        BY <1>5, <4>1
    <3> QED
      BY <1>6, <2>1, <3>1, <3>2
  <2>2. ASSUME NEW i \in DOMAIN order PROVE order[i] \in DOMAIN vs
    <3>1. CASE i \in DOMAIN e.Order
      BY <1>1, <1>5, <1>6, <3>1
    <3>2. CASE i = Len(order)
      BY <1>5, <1>6, <3>2
    <3> QED
      BY <1>5, <3>1, <3>2
  <2> QED
    BY <2>1, <2>2
<1>9. \A i \in DOMAIN e.Order : e.Order[i] < ver
  BY <1>1, <1>3
<1>10. \A i, j \in DOMAIN order : i < j => order[i] < order[j]
  BY <1>1, <1>5, <1>9
<1>11. \A w \in DOMAIN vs :
         /\ w \in DOMAIN Append(s, new)
         /\ Append(s, new)[w].name = name /\ Append(s, new)[w].value = vs[w].value
  <2>1. ASSUME NEW w \in DOMAIN vs
        PROVE  /\ w \in DOMAIN Append(s, new)
               /\ Append(s, new)[w].name = name /\ Append(s, new)[w].value = vs[w].value
    <3>1. CASE w = ver
      BY <1>4, <1>6, <3>1
    <3>2. CASE w \in DOMAIN e.Versions
      BY <1>1, <1>3, <1>6, <3>2
    <3> QED
      BY <1>6, <2>1, <3>1, <3>2
  <2> QED
    BY <2>1
<1> HIDE DEF new
<1>12. EntryOK(Append(s, new), name, [Current |-> ver, Order |-> order, Versions |-> vs])
  BY <1>5, <1>7, <1>8, <1>10, <1>11 DEF EntryOK
<1> QED
  BY <1>12 DEF new, order, vs, EntryAfter

(* A request that sets no version.                                         *)
LEMMA SecretsSame ==
  ASSUME SecretsOK, UNCHANGED set, CopyOK(set, vault'), CopyOK(set, secretsFile')
  PROVE  SecretsOK'
  BY DEF SecretsOK

LEMMA FileWritten ==
  ASSUME NEW s, Vault!persistLocked, CopyOK(s, vault'), CopyOK(s, secretsFile)
  PROVE  CopyOK(s, secretsFile')
  BY DEF Vault!persistLocked

LEMMA SecretsInit == Vault!Init => SecretsOK
  BY DEF Vault!Init, SecretsOK, CopyOK

LEMMA SecretsStep == SecretsOK /\ [Vault!Next]_Vault!vaultVars => SecretsOK'
<1> SUFFICES ASSUME SecretsOK, [Vault!Next]_Vault!vaultVars PROVE SecretsOK'
  OBVIOUS
<1>0. set \in Seq(SetEntry) /\ CopyOK(set, vault) /\ CopyOK(set, secretsFile)
  BY DEF SecretsOK
<1>1. ASSUME NEW name \in Secret, NEW value \in SecretValue, NEW attrs \in Attributes,
             Vault!SetSecret(name, value, attrs)
      PROVE  SecretsOK'
  <2> DEFINE new == [name |-> name, value |-> value]
             e == IF name \in DOMAIN vault THEN vault[name] ELSE Vault!NewEntry
             entry == EntryAfter(e, Vault!newVersion, value, attrs)
  <2>1. /\ set' = Append(set, new) /\ Vault!newVersion \in Vault!Version
        /\ vault' = Vault!With(name, entry) /\ Vault!persistLocked
    BY <1>1 DEF Vault!SetSecret, EntryAfter, OrderAfter, VersionsAfter
  <2>2. new \in SetEntry
    BY DEF SetEntry
  <2>3. e = Vault!NewEntry \/ EntryOK(set, name, e)
    BY <1>0 DEF CopyOK
  <2>4. EntryOK(Append(set, new), name, entry)
    <3>1. Vault!newVersion = Len(set) + 1
      BY DEF Vault!newVersion
    <3> HIDE DEF e
    <3> QED
      BY <1>0, <2>1, <2>3, <3>1, EntryExtended
  <2> HIDE DEF entry, new
  <2>5. /\ DOMAIN vault' = DOMAIN vault \cup {name}
        /\ \A m \in DOMAIN vault' : vault'[m] = IF m = name THEN entry ELSE vault[m]
    BY <2>1 DEF Vault!With
  <2>6. CopyOK(Append(set, new), vault) /\ CopyOK(Append(set, new), secretsFile)
    BY <1>0, <2>2, CopyStays
  <2>7. CopyOK(Append(set, new), vault')
    BY <2>4, <2>5, <2>6 DEF CopyOK
  <2>8. CopyOK(Append(set, new), secretsFile')
    BY <2>1, <2>6, <2>7, FileWritten
  <2>9. set' \in Seq(SetEntry)
    BY <1>0, <2>1, <2>2
  <2> QED
    BY <2>1, <2>7, <2>8, <2>9 DEF SecretsOK
<1>2. ASSUME NEW name \in Secret, NEW version \in Vault!Version \cup {0},
             NEW attrs \in Attributes, Vault!UpdateSecret(name, version, attrs)
      PROVE  SecretsOK'
  <2> DEFINE e == vault[name]
             ver == Vault!VersionOf(name, version)
             vs == [e.Versions EXCEPT ![ver].attrs = attrs]
             entry == [Current |-> e.Current, Order |-> e.Order, Versions |-> vs]
  <2>1. /\ name \in DOMAIN vault
        /\ version \in DOMAIN vault[name].Versions \cup {0}
        /\ vault' = [vault EXCEPT ![name].Versions[ver].attrs = attrs]
        /\ UNCHANGED set /\ Vault!persistLocked
    BY <1>2 DEF Vault!UpdateSecret, Vault!Found
  <2>2. EntryOK(set, name, e)
    BY <1>0, <2>1 DEF CopyOK
  <2>3. /\ e.Current \in Vault!Version /\ e.Order \in Seq(Vault!Version)
        /\ DOMAIN e.Versions \in SUBSET Vault!Version
        /\ \A w \in DOMAIN e.Versions :
             e.Versions[w] \in [value : SecretValue, attrs : Attributes]
        /\ e.Versions = [w \in DOMAIN e.Versions |-> e.Versions[w]]
    BY <2>2, EntryTyped DEF EntryOK
  <2>4. /\ vs \in [DOMAIN e.Versions -> [value : SecretValue, attrs : Attributes]]
        /\ \A w \in DOMAIN e.Versions : vs[w].value = e.Versions[w].value
    BY <2>3
  <2>5. e = [Current |-> e.Current, Order |-> e.Order, Versions |-> e.Versions]
    BY <2>2 DEF EntryOK, Vault!Entries
  <2>6. entry \in Vault!Entries
    <3> HIDE DEF vs
    <3> QED
      BY <2>3, <2>4, EntryBuilt
  <2>7. EntryOK(set, name, entry)
    <3> HIDE DEF vs
    <3> QED
      BY <2>2, <2>4, <2>6 DEF EntryOK
  <2>8. /\ DOMAIN vault' = DOMAIN vault
        /\ \A m \in DOMAIN vault : m # name => vault'[m] = vault[m]
        /\ vault'[name] = [e EXCEPT !.Versions = vs]
    BY <2>1
  <2>9. vault'[name] = entry
    <3> HIDE DEF vs
    <3> QED
      BY <2>5, <2>8
  <2> HIDE DEF entry
  <2>10. CopyOK(set, vault')
    BY <1>0, <2>7, <2>8, <2>9 DEF CopyOK
  <2> QED
    BY <1>0, <2>1, <2>10, FileWritten, SecretsSame
<1>3. ASSUME NEW name \in Secret, Vault!DeleteSecret(name) PROVE SecretsOK'
  <2>1. /\ vault' = [m \in DOMAIN vault \ {name} |-> vault[m]]
        /\ UNCHANGED set /\ Vault!persistLocked
    BY <1>3 DEF Vault!DeleteSecret
  <2>2. CopyOK(set, vault')
    BY <1>0, <2>1 DEF CopyOK
  <2> QED
    BY <1>0, <2>1, <2>2, FileWritten, SecretsSame
<1>4. CASE Vault!Stop \/ Vault!load \/ UNCHANGED Vault!vaultVars
  BY <1>0, <1>4, SecretsSame DEF Vault!Stop, Vault!load, Vault!vaultVars
<1> QED
  BY <1>1, <1>2, <1>3, <1>4 DEF Vault!Next

LEMMA SecretsSound == SecretsOK => Vault!TypeOK /\ Vault!VersionsSound
<1> SUFFICES ASSUME SecretsOK PROVE Vault!TypeOK /\ Vault!VersionsSound
  OBVIOUS
<1>1. ASSUME NEW v \in {vault, secretsFile}, NEW name \in DOMAIN v
      PROVE  EntryOK(set, name, v[name]) /\ name \in Secret
  BY DEF SecretsOK, CopyOK
<1>2. Vault!TypeOK
  BY <1>1 DEF Vault!TypeOK, EntryOK
<1>3. ASSUME NEW v \in {vault, secretsFile}, NEW name \in DOMAIN v
      PROVE  Vault!GetSecret(v, name, 0) = Vault!Last(Vault!ListVersions(v, name))
  <2> DEFINE e == v[name]
             listed_ == Vault!ListVersions(v, name)
  <2>1. e.Order \in Seq(Vault!Version) /\ e.Order # <<>> /\ e.Current = e.Order[Len(e.Order)]
    <3>1. EntryOK(set, name, e)
      BY <1>1, <1>3
    <3>2. e \in Vault!Entries /\ e.Order # <<>> /\ e.Current = e.Order[Len(e.Order)]
      BY <3>1 DEF EntryOK
    <3> QED
      BY <3>2, EntryTyped
  <2>2. Len(e.Order) \in 1..Len(e.Order) /\ DOMAIN e.Order = 1..Len(e.Order)
    BY <2>1
  <2>3. listed_ = [i \in 1..Len(e.Order) |-> e.Versions[e.Order[i]]]
    BY <2>2 DEF Vault!ListVersions
  <2>4. listed_[Len(listed_)] = e.Versions[e.Order[Len(e.Order)]]
    <3>1. Len(listed_) = Len(e.Order)
      BY <2>1, <2>3
    <3> QED
      BY <2>2, <2>3, <3>1
  <2> QED
    BY <2>1, <2>4 DEF Vault!GetSecret, Vault!Last
<1>4. Vault!VersionsSound
  BY <1>1, <1>3 DEF Vault!VersionsSound, EntryOK, Vault!ToSet
<1> QED
  BY <1>2, <1>4

-----------------------------------------------------------------------------
(* Lists.                                                                  *)
Rising(s) == \A i, j \in DOMAIN s : i < j => s[i] < s[j]

(* A page made of the names up to x, for a client that resumes at marker.  *)
PageOK(page, next, x) ==
  /\ page \in Seq(Listing!Entry) /\ Rising(page)
  /\ \A i \in DOMAIN page : /\ page[i] > marker
                            /\ \E k \in present : k <= x /\ page[i] = dir[k]
  /\ \A k \in present : k <= x =>
       dir[k] <= marker \/ dir[k] \in RangeOf(page) \/ (next # 0 /\ dir[k] > next)
  /\ next # 0 => /\ page # <<>> /\ next = page[Len(page)]
                 /\ \E s \in present : s <= x /\ dir[s] > next

Laid ==
  /\ dir \in [Listing!Entry -> Listing!Entry] /\ present \in SUBSET Listing!Entry
  /\ \A k, x \in Listing!Entry : k <= x => dir[k] <= dir[x]
  /\ marker \in 0..MaxName

LEMMA Plain ==
  ASSUME Laid
  PROVE  /\ MaxName \in Nat /\ marker \in Nat
         /\ \A x \in Listing!Entry : x \in Nat /\ x > 0 /\ x <= MaxName
                                     /\ dir[x] \in Listing!Entry /\ dir[x] \in Nat /\ dir[x] > 0
         /\ \A x \in present : x \in Listing!Entry
  BY StoresAssumption DEF Laid, Listing!Entry

LEMMA PageStart == ASSUME Laid PROVE PageOK(<<>>, 0, 0)
<1>1. \A k \in present : ~(k <= 0)
  BY Plain
<1> QED
  BY <1>1 DEF PageOK, Rising, RangeOf

(* The loop at a name that changes nothing.                                *)
LEMMA PageSame ==
  ASSUME Laid, NEW x \in Nat, NEW page, NEW next, PageOK(page, next, x),
         (x + 1) \in present /\ next = 0 =>
           dir[x + 1] <= marker \/ dir[x + 1] \in RangeOf(page)
  PROVE  PageOK(page, next, x + 1)
<1>0. \A k \in present : k \in Nat /\ k \in Listing!Entry /\ dir[k] \in Nat
  BY Plain
<1>1. \A k \in present : k <= x => k <= x + 1
  BY <1>0
<1>2. ASSUME NEW k \in present, k <= x + 1
      PROVE  dir[k] <= marker \/ dir[k] \in RangeOf(page) \/ (next # 0 /\ dir[k] > next)
  <2>1. CASE k <= x
    BY <2>1 DEF PageOK
  <2>2. CASE ~(k <= x) /\ next = 0
    <3>1. k = x + 1
      BY <1>0, <1>2, <2>2
    <3> QED
      BY <2>2, <3>1
  <2>3. CASE ~(k <= x) /\ next # 0
    <3>1. k = x + 1
      BY <1>0, <1>2, <2>3
    <3>2. PICK s \in present : s <= x /\ dir[s] > next
      BY <2>3 DEF PageOK
    <3>3. next \in Nat
      <4>1. Len(page) \in DOMAIN page /\ page[Len(page)] \in Listing!Entry
        BY <2>3 DEF PageOK
      <4> QED
        BY <2>3, <4>1 DEF PageOK, Listing!Entry
    <3>4. dir[s] <= dir[k]
      BY <1>0, <3>1, <3>2 DEF Laid
    <3> QED
      BY <1>0, <2>3, <3>2, <3>3, <3>4
  <2> QED
    BY <2>1, <2>2, <2>3
<1>3. \A i \in DOMAIN page : page[i] > marker /\ \E k \in present : k <= x + 1 /\ page[i] = dir[k]
  BY <1>1 DEF PageOK
<1>4. next # 0 => \E s \in present : s <= x + 1 /\ dir[s] > next
  BY <1>1 DEF PageOK
<1> QED
  BY <1>2, <1>3, <1>4 DEF PageOK

(* How far the list has come: what it resumes after.                       *)
After(page) == IF page = <<>> THEN marker ELSE page[Len(page)]

LEMMA AfterIs ==
  ASSUME Laid, NEW x \in Nat, NEW page, NEW next, PageOK(page, next, x)
  PROVE  /\ After(page) \in 0..MaxName
         /\ \A i \in DOMAIN page : page[i] <= After(page)
         /\ page # <<>> => /\ After(page) \in RangeOf(page) /\ After(page) # 0
                           /\ \E k \in present : k <= x /\ After(page) = dir[k]
<1>1. page \in Seq(Listing!Entry) /\ Rising(page)
  BY DEF PageOK
<1>2. CASE page = <<>>
  BY <1>2 DEF After, Laid
<1>3. CASE page # <<>>
  <2> DEFINE l == Len(page)
  <2>1. l \in Nat /\ DOMAIN page = 1..l /\ l \in DOMAIN page /\ After(page) = page[l]
    BY <1>1, <1>3 DEF After
  <2> HIDE DEF l
  <2>2. \A i \in DOMAIN page : page[i] \in Listing!Entry
    BY <1>1
  <2>3. \A i \in DOMAIN page : i < l => page[i] < page[l]
    BY <1>1, <2>1 DEF Rising
  <2>4. \A i \in DOMAIN page : page[i] <= page[l]
    <3> TAKE i \in DOMAIN page
    <3>1. i < l \/ i = l
      BY <2>1
    <3>2. page[i] \in Nat /\ page[l] \in Nat
      BY <2>1, <2>2 DEF Listing!Entry
    <3> QED
      BY <2>3, <3>1, <3>2
  <2>5. page[l] \in RangeOf(page) /\ page[l] \in 0..MaxName /\ page[l] # 0
    BY <2>1, <2>2 DEF RangeOf, Listing!Entry
  <2>6. \E k \in present : k <= x /\ page[l] = dir[k]
    BY <2>1 DEF PageOK
  <2> QED
    BY <2>1, <2>4, <2>5, <2>6
<1> QED
  BY <1>2, <1>3

(* A name not after it is on an earlier page, or on this one.              *)
LEMMA NotAfter ==
  ASSUME Laid, NEW x \in Nat, NEW page, NEW next, PageOK(page, next, x),
         (x + 1) \in present, dir[x + 1] <= After(page)
  PROVE  dir[x + 1] <= marker \/ dir[x + 1] \in RangeOf(page)
<1>1. CASE page = <<>>
  BY <1>1 DEF After
<1>2. CASE page # <<>>
  <2>1. PICK k \in present : k <= x /\ After(page) = dir[k]
    BY <1>2, AfterIs
  <2>2. k \in Listing!Entry /\ x + 1 \in Listing!Entry /\ k <= x + 1
    BY <2>1, Plain
  <2>3. dir[k] <= dir[x + 1]
    BY <2>2 DEF Laid
  <2>4. dir[k] = dir[x + 1]
    BY <2>1, <2>2, <2>3, Plain
  <2> QED
    BY <1>2, <2>1, <2>4, AfterIs
<1> QED
  BY <1>1, <1>2

(* The page is full: the list is resumed after its last name.              *)
LEMMA PageFull ==
  ASSUME Laid, NEW x \in Nat, NEW page, PageOK(page, 0, x),
         (x + 1) \in present, ~(dir[x + 1] <= After(page)), page # <<>>
  PROVE  PageOK(page, After(page), x + 1)
<1>1. /\ After(page) = page[Len(page)] /\ After(page) # 0 /\ After(page) \in Nat
      /\ After(page) \in RangeOf(page)
  BY AfterIs DEF After
<1>2. dir[x + 1] > After(page) /\ \A k \in present : k \in Nat
  BY <1>1, Plain
<1>3. ASSUME NEW k \in present, k <= x + 1
      PROVE  dir[k] <= marker \/ dir[k] \in RangeOf(page) \/ dir[k] > After(page)
  <2>1. k <= x \/ k = x + 1
    BY <1>2, <1>3
  <2> QED
    BY <1>2, <2>1 DEF PageOK
<1>4. \A k \in present : k <= x => k <= x + 1
  BY <1>2
<1>5. x + 1 <= x + 1
  OBVIOUS
<1> QED
  BY <1>1, <1>2, <1>3, <1>4, <1>5 DEF PageOK

(* It is not, and the name is put on it.                                   *)
LEMMA PageGrows ==
  ASSUME Laid, NEW x \in Nat, NEW page, PageOK(page, 0, x),
         (x + 1) \in present, ~(dir[x + 1] <= After(page))
  PROVE  PageOK(Append(page, dir[x + 1]), 0, x + 1) /\ After(Append(page, dir[x + 1])) = dir[x + 1]
<1> DEFINE key_ == dir[x + 1]
           l == Len(page)
           longer == Append(page, key_)
<1>1. page \in Seq(Listing!Entry) /\ Rising(page) /\ key_ \in Listing!Entry
  BY Plain DEF PageOK
<1>2. /\ After(page) \in Nat /\ key_ \in Nat /\ key_ > After(page) /\ marker \in Nat
      /\ \A i \in DOMAIN page : page[i] \in Nat /\ page[i] < key_
  <2>1. After(page) \in Nat /\ \A i \in DOMAIN page : page[i] <= After(page)
    BY AfterIs
  <2>2. key_ \in Nat /\ marker \in Nat
    BY Plain
  <2>3. \A i \in DOMAIN page : page[i] \in Nat
    <3>1. \A i \in DOMAIN page : page[i] \in Listing!Entry
      BY <1>1
    <3> QED
      BY <3>1 DEF Listing!Entry
  <2> HIDE DEF key_
  <2>4. key_ > After(page)
    BY <2>1, <2>2 DEF key_
  <2> QED
    BY <2>1, <2>2, <2>3, <2>4
<1>3. key_ > marker
  <2>1. CASE page = <<>>
    BY <1>2, <2>1 DEF After
  <2>2. CASE page # <<>>
    <3>1. PICK i \in DOMAIN page : page[i] > marker
      BY <1>1, <2>2 DEF PageOK
    <3> HIDE DEF key_
    <3> QED
      BY <1>2, <3>1
  <2> QED
    BY <2>1, <2>2
<1> HIDE DEF key_
<1>4. /\ longer \in Seq(Listing!Entry)
      /\ RangeOf(longer) = RangeOf(page) \cup {key_}
      /\ DOMAIN longer = DOMAIN page \cup {l + 1}
      /\ \A i \in DOMAIN page : longer[i] = page[i]
      /\ longer[l + 1] = key_
  BY <1>1, AppendIs
<1>5. DOMAIN page = 1..l /\ l \in Nat /\ Len(longer) = l + 1 /\ longer # <<>>
  BY <1>1
<1> HIDE DEF l, longer
<1>6. Rising(longer)
  <2> SUFFICES ASSUME NEW i \in DOMAIN longer, NEW j \in DOMAIN longer, i < j
               PROVE  longer[i] < longer[j]
    BY DEF Rising
  <2>1. i \in DOMAIN page
    BY <1>4, <1>5
  <2>2. j \in DOMAIN page \/ j = l + 1
    BY <1>4
  <2> QED
    BY <1>1, <1>2, <1>4, <2>1, <2>2 DEF Rising
<1>7. \A k \in present : k \in Nat /\ (k <= x => k <= x + 1) /\ (k <= x + 1 => k <= x \/ k = x + 1)
  BY Plain
<1>8. \A i \in DOMAIN longer : longer[i] > marker /\ \E k \in present : k <= x + 1 /\ longer[i] = dir[k]
  <2> TAKE i \in DOMAIN longer
  <2>1. CASE i \in DOMAIN page
    BY <1>4, <1>7, <2>1 DEF PageOK
  <2>2. CASE i = l + 1
    <3>1. x + 1 <= x + 1
      OBVIOUS
    <3> QED
      BY <1>3, <1>4, <2>2, <3>1 DEF key_
  <2> QED
    BY <1>4, <2>1, <2>2
<1>9. \A k \in present : k <= x + 1 => dir[k] <= marker \/ dir[k] \in RangeOf(longer)
  BY <1>4, <1>7 DEF PageOK, key_
<1>10. PageOK(longer, 0, x + 1)
  BY <1>4, <1>6, <1>8, <1>9 DEF PageOK
<1>11. After(longer) = key_
  BY <1>4, <1>5 DEF After
<1> QED
  BY <1>10, <1>11 DEF longer, key_

-----------------------------------------------------------------------------
(* The loops.                                                              *)
Loops == [after : 0..MaxName, page : Seq(Listing!Entry), seen : SUBSET Listing!Entry,
          next : 0..MaxName]

Reaches(loop, x) ==
  /\ loop \in Loops /\ PageOK(loop.page, loop.next, x)
  /\ loop.after = After(loop.page)
  /\ \A key_ \in loop.seen : key_ <= marker \/ key_ \in RangeOf(loop.page)

LEMMA Clamped ==
  ASSUME NEW max \in Int PROVE Listing!Clamp(max) \in Nat \ {0}
  BY StoresAssumption DEF Listing!Clamp

LEMMA SeenIs ==
  ASSUME Laid, NEW loop \in Loops, NEW x \in Listing!Entry
  PROVE  /\ Listing!Seen(loop, x) \in Loops
         /\ Listing!Seen(loop, x).after = loop.after
         /\ Listing!Seen(loop, x).page = loop.page
         /\ Listing!Seen(loop, x).next = loop.next
         /\ Listing!Seen(loop, x).seen \subseteq loop.seen \cup {dir[x]}
<1>1. dir[x] \in Listing!Entry
  BY Plain
<1> QED
  BY <1>1 DEF Listing!Seen, Loops

(* What a visit makes of the loop: nothing, a name passed over, the end of *)
(* the page, or a name more on it.                                         *)
Outcome(loop, x, max, v) ==
  \/ /\ loop.next # 0 \/ dir[x] \in loop.seen
     /\ v = loop
  \/ /\ loop.next = 0 /\ dir[x] <= loop.after
     /\ v = Listing!Seen(loop, x)
  \/ /\ loop.next = 0 /\ ~(dir[x] <= loop.after) /\ Len(loop.page) >= max
     /\ v = [loop EXCEPT !.next = loop.after]
  \/ /\ loop.next = 0 /\ ~(dir[x] <= loop.after)
     /\ v = [Listing!Seen(loop, x) EXCEPT !.page = Append(@, dir[x]), !.after = dir[x]]

LEMMA VisitIs ==
  ASSUME Laid, NEW x \in Listing!Entry, NEW max \in Nat \ {0}, NEW loop \in Loops
  PROVE  Outcome(loop, x, max, Listing!Visit(loop, x, max))
<1>1. loop.after \in Nat /\ dir[x] \in Nat /\ dir[x] > 0
  BY Plain DEF Loops
<1> QED
  BY <1>1 DEF Listing!Visit, Listing!NoMarker, Outcome

LEMMA VisitTyped ==
  ASSUME Laid, NEW x \in Listing!Entry, NEW max \in Nat \ {0}, NEW loop \in Loops
  PROVE  Listing!Visit(loop, x, max) \in Loops
<1> DEFINE v == Listing!Visit(loop, x, max)
           s == Listing!Seen(loop, x)
<1>1. /\ s \in Loops /\ dir[x] \in Listing!Entry /\ dir[x] \in 0..MaxName
  BY SeenIs, Plain
<1>2. [loop EXCEPT !.next = loop.after] \in Loops
  BY DEF Loops
<1>3. [s EXCEPT !.page = Append(@, dir[x]), !.after = dir[x]] \in Loops
  <2>1. s.page \in Seq(Listing!Entry)
    BY <1>1 DEF Loops
  <2>2. Append(s.page, dir[x]) \in Seq(Listing!Entry)
    BY <1>1, <2>1
  <2> HIDE DEF s
  <2> QED
    BY <1>1, <2>2 DEF Loops
<1>4. v \in {loop, s, [loop EXCEPT !.next = loop.after],
             [s EXCEPT !.page = Append(@, dir[x]), !.after = dir[x]]}
  BY VisitIs DEF Outcome
<1> HIDE DEF v, s
<1> QED
  BY <1>1, <1>2, <1>3, <1>4 DEF v

LEMMA VisitReaches ==
  ASSUME Laid, NEW x \in Nat, NEW max \in Nat \ {0}, NEW loop, Reaches(loop, x),
         x + 1 \in present
  PROVE  Reaches(Listing!Visit(loop, x + 1, max), x + 1)
<1> DEFINE v == Listing!Visit(loop, x + 1, max)
           s == Listing!Seen(loop, x + 1)
           page == loop.page
<1>1. /\ loop \in Loops /\ PageOK(page, loop.next, x) /\ loop.after = After(page)
      /\ \A key_ \in loop.seen : key_ <= marker \/ key_ \in RangeOf(page)
      /\ x + 1 \in Listing!Entry
  BY Plain DEF Reaches
<1>2. v \in Loops
  BY <1>1, VisitTyped
<1>3. CASE v = loop /\ (loop.next # 0 \/ dir[x + 1] \in loop.seen)
  <2>1. loop.next = 0 => dir[x + 1] <= marker \/ dir[x + 1] \in RangeOf(page)
    BY <1>1, <1>3
  <2>2. PageOK(page, loop.next, x + 1)
    BY <1>1, <2>1, PageSame
  <2> QED
    BY <1>1, <1>3, <2>2 DEF Reaches
<1>4. CASE v = s /\ loop.next = 0 /\ dir[x + 1] <= loop.after
  <2>1. dir[x + 1] <= marker \/ dir[x + 1] \in RangeOf(page)
    BY <1>1, <1>4, NotAfter
  <2>2. PageOK(page, loop.next, x + 1)
    BY <1>1, <2>1, PageSame
  <2>3. /\ s \in Loops /\ s.after = loop.after /\ s.page = page /\ s.next = loop.next
        /\ s.seen \subseteq loop.seen \cup {dir[x + 1]}
    BY <1>1, SeenIs
  <2> HIDE DEF s, v
  <2> QED
    BY <1>1, <1>4, <2>1, <2>2, <2>3 DEF Reaches, v
<1>5. CASE /\ loop.next = 0 /\ ~(dir[x + 1] <= loop.after) /\ Len(page) >= max
           /\ v = [loop EXCEPT !.next = loop.after]
  <2>1. page # <<>>
    BY <1>5
  <2>2. PageOK(page, After(page), x + 1)
    BY <1>1, <1>5, <2>1, PageFull
  <2>3. v.page = page /\ v.after = loop.after /\ v.next = After(page) /\ v.seen = loop.seen
    BY <1>1, <1>5 DEF Loops
  <2> HIDE DEF v
  <2> QED
    BY <1>1, <1>2, <2>2, <2>3 DEF Reaches, v
<1>6. CASE /\ loop.next = 0 /\ ~(dir[x + 1] <= loop.after)
           /\ v = [s EXCEPT !.page = Append(@, dir[x + 1]), !.after = dir[x + 1]]
  <2> DEFINE key_ == dir[x + 1]
             longer == Append(page, key_)
  <2>1. PageOK(longer, 0, x + 1) /\ After(longer) = key_
    BY <1>1, <1>6, PageGrows
  <2>2. RangeOf(longer) = RangeOf(page) \cup {key_}
    <3>1. page \in Seq(Listing!Entry) /\ key_ \in Listing!Entry
      BY <1>1, Plain DEF Loops
    <3> HIDE DEF key_
    <3> QED
      BY <3>1, AppendIs
  <2>3. /\ s \in Loops /\ s.after = loop.after /\ s.page = page /\ s.next = loop.next
        /\ s.seen \subseteq loop.seen \cup {key_}
    BY <1>1, SeenIs
  <2> HIDE DEF s, key_
  <2>4. v.page = longer /\ v.after = key_ /\ v.next = 0 /\ v.seen = s.seen
    <3>1. v = [s EXCEPT !.page = Append(@, key_), !.after = key_]
      BY <1>6 DEF key_
    <3> HIDE DEF v
    <3> QED
      BY <1>6, <2>3, <3>1 DEF Loops
  <2> HIDE DEF v, longer
  <2> QED
    BY <1>1, <1>2, <2>1, <2>2, <2>3, <2>4 DEF Reaches, v
<1>7. Outcome(loop, x + 1, max, v)
  BY <1>1, VisitIs
<1> QED
  BY <1>3, <1>4, <1>5, <1>6, <1>7 DEF Outcome

LEMMA StartReaches ==
  ASSUME Laid
  PROVE  /\ Reaches(Listing!Start(marker), 0) /\ Listing!Start(marker) \in Loops
         /\ Listing!Start(marker).page = <<>> /\ Listing!Start(marker).after = marker
<1>1. Listing!Start(marker) = [after |-> marker, page |-> <<>>, seen |-> {}, next |-> 0]
  BY DEF Listing!Start, Listing!NoMarker
<1>2. Listing!Start(marker) \in Loops
  BY <1>1, Plain DEF Laid, Loops
<1>3. After(<<>>) = marker
  BY DEF After
<1> QED
  BY <1>1, <1>2, <1>3, PageStart DEF Reaches

LEMMA NameReaches ==
  ASSUME Laid, NEW x \in Nat, NEW max \in Nat \ {0}, NEW loop, Reaches(loop, x),
         NEW next, next = IF x + 1 \in present THEN Listing!Visit(loop, x + 1, max) ELSE loop
  PROVE  Reaches(next, x + 1)
<1>1. CASE x + 1 \in present
  BY <1>1, VisitReaches
<1>2. CASE x + 1 \notin present
  BY <1>2, PageSame DEF Reaches
<1> QED
  BY <1>1, <1>2

LEMMA BlobsReach ==
  ASSUME Laid, NEW max \in Int
  PROVE  Reaches(Listing!ListBlobs(max), MaxName)
<1> DEFINE size == Listing!Clamp(max)
           step == [x \in 1..MaxName |->
                      [l \in Loops |-> IF x \in present THEN Listing!Visit(l, x, size) ELSE l]]
           loop(f) == [x \in 0..MaxName |->
                         IF x = 0 THEN Listing!Start(marker)
                         ELSE IF x \in present THEN Listing!Visit(f[x - 1], x, size)
                         ELSE f[x - 1]]
<1>1. size \in Nat \ {0} /\ MaxName \in Nat
  BY Clamped, StoresAssumption
<1>2. Reaches(Listing!Start(marker), 0) /\ Listing!Start(marker) \in Loops
  BY StartReaches
<1> HIDE DEF size
<1>3. step \in [1..MaxName -> [Loops -> Loops]]
  <2>1. ASSUME NEW x \in 1..MaxName, NEW l \in Loops
        PROVE  (IF x \in present THEN Listing!Visit(l, x, size) ELSE l) \in Loops
    BY <1>1, VisitTyped DEF Listing!Entry
  <2> QED
    BY <2>1
<1>4. PICK f \in [0..MaxName -> Loops] :
        f[0] = Listing!Start(marker) /\ \A x \in 1..MaxName : f[x] = step[x][f[x - 1]]
  <2> HIDE DEF step
  <2> QED
    BY <1>1, <1>2, <1>3, Iterates
<1>5. f = loop(f)
  <2>1. ASSUME NEW x \in 1..MaxName
        PROVE  f[x] = IF x \in present THEN Listing!Visit(f[x - 1], x, size) ELSE f[x - 1]
    <3>1. f[x - 1] \in Loops
      BY <1>1, <1>4
    <3>2. f[x] = step[x][f[x - 1]]
      BY <1>4
    <3> QED
      BY <3>1, <3>2
  <2>2. /\ f[0] = Listing!Start(marker) /\ f = [x \in 0..MaxName |-> f[x]]
        /\ \A x \in 0..MaxName : x # 0 => x \in 1..MaxName
    BY <1>1, <1>4
  <2> QED
    BY <2>1, <2>2
<1> DEFINE all == CHOOSE g : g = loop(g)
<1>6. all = loop(all)
  BY <1>5
<1>7. Listing!ListBlobs(max) = all[MaxName]
  BY DEF Listing!ListBlobs, size
<1> HIDE DEF all
<1> DEFINE T == {x \in Nat : x <= MaxName => Reaches(all[x], x)}
<1>8. 0 \in T
  <2>1. all[0] = Listing!Start(marker)
    BY <1>1, <1>6
  <2> QED
    BY <1>2, <2>1
<1>9. ASSUME NEW x \in Nat, x \in T PROVE x + 1 \in T
  <2> SUFFICES ASSUME x + 1 <= MaxName PROVE Reaches(all[x + 1], x + 1)
    OBVIOUS
  <2>1. Reaches(all[x], x)
    BY <1>1, <1>9
  <2>2. all[x + 1] = IF x + 1 \in present THEN Listing!Visit(all[x], x + 1, size) ELSE all[x]
    <3>1. x + 1 \in 0..MaxName /\ x + 1 # 0 /\ (x + 1) - 1 = x
      BY <1>1
    <3> QED
      BY <1>6, <3>1
  <2> QED
    BY <1>1, <2>1, <2>2, NameReaches
<1>10. MaxName \in T
  <2>1. Nat \subseteq T
    <3> HIDE DEF T
    <3> QED
      BY <1>8, <1>9, NatSets
  <2> QED
    BY <1>1, <2>1
<1>11. MaxName <= MaxName
  BY <1>1
<1> QED
  BY <1>7, <1>10, <1>11

(* The loop of ListContainers, none of whose names are virtual.            *)
Flat == \A x \in Listing!Entry : dir[x] = x

Passes(loop, x, max) ==
  /\ loop \in Loops /\ PageOK(loop.page, loop.next, x)
  /\ loop.after = marker /\ Len(loop.page) <= max

LEMMA ContainerTyped ==
  ASSUME Laid, NEW x \in Listing!Entry, NEW max \in Nat \ {0}, NEW loop \in Loops
  PROVE  Listing!VisitContainer(loop, x, max) \in Loops
<1>1. /\ loop.page \in Seq(Listing!Entry) /\ Append(loop.page, x) \in Seq(Listing!Entry)
      /\ loop.after \in 0..MaxName /\ loop.seen \in SUBSET Listing!Entry /\ loop.next \in 0..MaxName
  BY DEF Loops
<1>2. Len(loop.page) = max => loop.page[max] \in 0..MaxName
  <2>1. Len(loop.page) = max => max \in DOMAIN loop.page
    BY <1>1
  <2>2. Len(loop.page) = max => loop.page[max] \in Listing!Entry
    BY <1>1, <2>1
  <2> QED
    BY <2>2, Plain DEF Listing!Entry
<1>3. [loop EXCEPT !.page = Append(@, x)] \in Loops
  BY <1>1 DEF Loops
<1>4. Len(loop.page) = max => [loop EXCEPT !.next = loop.page[max]] \in Loops
  BY <1>1, <1>2 DEF Loops
<1> QED
  BY <1>3, <1>4 DEF Listing!VisitContainer

LEMMA ContainerPasses ==
  ASSUME Laid, Flat, NEW x \in Nat, NEW max \in Nat \ {0}, NEW loop, Passes(loop, x, max),
         NEW next, next = IF x + 1 \in present THEN Listing!VisitContainer(loop, x + 1, max)
                          ELSE loop
  PROVE  Passes(next, x + 1, max)
<1> DEFINE page == loop.page
<1>0. /\ loop \in Loops /\ PageOK(page, loop.next, x) /\ loop.after = marker
      /\ page \in Seq(Listing!Entry) /\ Len(page) <= max /\ Len(page) \in Nat
  BY DEF Passes, Loops
<1>1. CASE x + 1 \notin present
  BY <1>1, PageSame DEF Passes
<1>2. CASE x + 1 \in present
  <2>1. /\ x + 1 \in Listing!Entry /\ dir[x + 1] = x + 1 /\ x + 1 > 0
        /\ next = Listing!VisitContainer(loop, x + 1, max) /\ marker \in Nat
    BY <1>2, Plain DEF Flat
  <2>2. next \in Loops
    BY <1>0, <2>1, ContainerTyped
  <2>3. CASE loop.next # 0 \/ (loop.after # 0 /\ x + 1 <= loop.after)
    <3>1. next = loop
      BY <2>1, <2>3 DEF Listing!VisitContainer, Listing!NoMarker
    <3>2. loop.next = 0 => dir[x + 1] <= marker
      BY <1>0, <2>1, <2>3
    <3>3. PageOK(page, loop.next, x + 1)
      BY <1>0, <3>2, PageSame
    <3> QED
      BY <1>0, <3>1, <3>3 DEF Passes
  <2>4. CASE loop.next = 0 /\ ~(loop.after # 0 /\ x + 1 <= loop.after)
    <3>1. ~(dir[x + 1] <= After(page))
      <4>1. CASE page = <<>>
        BY <1>0, <2>1, <2>4, <4>1 DEF After
      <4>2. CASE page # <<>>
        <5>1. PICK k \in present : k <= x /\ After(page) = dir[k]
          BY <1>0, <4>2, AfterIs
        <5>2. k \in Nat /\ dir[k] = k
          BY Plain DEF Flat
        <5> QED
          BY <2>1, <5>1, <5>2
      <4> QED
        BY <4>1, <4>2
    <3>2. CASE Len(page) = max
      <4>1. next = [loop EXCEPT !.next = page[max]]
        BY <2>1, <2>4, <3>2 DEF Listing!VisitContainer, Listing!NoMarker
      <4>2. page # <<>> /\ After(page) = page[max]
        BY <3>2 DEF After
      <4>3. PageOK(page, After(page), x + 1)
        BY <1>0, <1>2, <2>4, <3>1, <4>2, PageFull
      <4>4. next.page = page /\ next.after = marker /\ next.next = After(page)
        BY <1>0, <4>1, <4>2 DEF Loops
      <4> QED
        BY <1>0, <2>2, <4>3, <4>4 DEF Passes
    <3>3. CASE Len(page) # max
      <4>1. next = [loop EXCEPT !.page = Append(@, x + 1)]
        BY <2>1, <2>4, <3>3 DEF Listing!VisitContainer, Listing!NoMarker
      <4>2. PageOK(Append(page, x + 1), 0, x + 1)
        BY <1>0, <1>2, <2>1, <2>4, <3>1, PageGrows
      <4>3. next.page = Append(page, x + 1) /\ next.after = marker /\ next.next = 0
        BY <1>0, <2>4, <4>1 DEF Loops
      <4>4. Len(Append(page, x + 1)) = Len(page) + 1
        BY <1>0, <2>1
      <4>5. Len(page) + 1 <= max
        BY <1>0, <3>3
      <4> QED
        BY <2>2, <4>2, <4>3, <4>4, <4>5 DEF Passes
    <3> QED
      BY <3>2, <3>3
  <2> QED
    BY <2>3, <2>4
<1> QED
  BY <1>1, <1>2

LEMMA StartPasses ==
  ASSUME Laid, NEW max \in Nat
  PROVE  Passes(Listing!Start(marker), 0, max) /\ Listing!Start(marker) \in Loops
  BY StartReaches DEF Passes, Reaches

LEMMA ContainersPass ==
  ASSUME Laid, Flat, NEW max \in Int
  PROVE  Passes(Listing!ListContainers(max), MaxName, Listing!Clamp(max))
<1> DEFINE size == Listing!Clamp(max)
           step == [x \in 1..MaxName |->
                      [l \in Loops |-> IF x \in present THEN Listing!VisitContainer(l, x, size) ELSE l]]
           loop(f) == [x \in 0..MaxName |->
                         IF x = 0 THEN Listing!Start(marker)
                         ELSE IF x \in present THEN Listing!VisitContainer(f[x - 1], x, size)
                         ELSE f[x - 1]]
<1>1. size \in Nat \ {0} /\ MaxName \in Nat
  BY Clamped, StoresAssumption
<1>2. Passes(Listing!Start(marker), 0, size) /\ Listing!Start(marker) \in Loops
  BY <1>1, StartPasses
<1> HIDE DEF size
<1>3. step \in [1..MaxName -> [Loops -> Loops]]
  <2>1. ASSUME NEW x \in 1..MaxName, NEW l \in Loops
        PROVE  (IF x \in present THEN Listing!VisitContainer(l, x, size) ELSE l) \in Loops
    BY <1>1, ContainerTyped DEF Listing!Entry
  <2> QED
    BY <2>1
<1>4. PICK f \in [0..MaxName -> Loops] :
        f[0] = Listing!Start(marker) /\ \A x \in 1..MaxName : f[x] = step[x][f[x - 1]]
  <2> HIDE DEF step
  <2> QED
    BY <1>1, <1>2, <1>3, Iterates
<1>5. f = loop(f)
  <2>1. ASSUME NEW x \in 1..MaxName
        PROVE  f[x] = IF x \in present THEN Listing!VisitContainer(f[x - 1], x, size) ELSE f[x - 1]
    <3>1. f[x - 1] \in Loops
      BY <1>1, <1>4
    <3>2. f[x] = step[x][f[x - 1]]
      BY <1>4
    <3> QED
      BY <3>1, <3>2
  <2>2. /\ f[0] = Listing!Start(marker) /\ f = [x \in 0..MaxName |-> f[x]]
        /\ \A x \in 0..MaxName : x # 0 => x \in 1..MaxName
    BY <1>1, <1>4
  <2> QED
    BY <2>1, <2>2
<1> DEFINE all == CHOOSE g : g = loop(g)
<1>6. all = loop(all)
  BY <1>5
<1>7. Listing!ListContainers(max) = all[MaxName]
  BY DEF Listing!ListContainers, size
<1> HIDE DEF all
<1> DEFINE T == {x \in Nat : x <= MaxName => Passes(all[x], x, size)}
<1>8. 0 \in T
  <2>1. all[0] = Listing!Start(marker)
    BY <1>1, <1>6
  <2> QED
    BY <1>2, <2>1
<1>9. ASSUME NEW x \in Nat, x \in T PROVE x + 1 \in T
  <2> SUFFICES ASSUME x + 1 <= MaxName PROVE Passes(all[x + 1], x + 1, size)
    OBVIOUS
  <2>1. Passes(all[x], x, size)
    BY <1>1, <1>9
  <2>2. all[x + 1] = IF x + 1 \in present THEN Listing!VisitContainer(all[x], x + 1, size) ELSE all[x]
    <3>1. x + 1 \in 0..MaxName /\ x + 1 # 0 /\ (x + 1) - 1 = x
      BY <1>1
    <3> QED
      BY <1>6, <3>1
  <2> QED
    BY <1>1, <2>1, <2>2, ContainerPasses
<1>10. MaxName \in T
  <2>1. Nat \subseteq T
    <3> HIDE DEF T
    <3> QED
      BY <1>8, <1>9, NatSets
  <2> QED
    BY <1>1, <2>1
<1>11. MaxName <= MaxName
  BY <1>1
<1> QED
  BY <1>7, <1>10, <1>11 DEF size

-----------------------------------------------------------------------------
(* The pages of a list.                                                    *)
ListInv ==
  /\ Laid /\ (virtual = {} => Flat)
  /\ throughout \subseteq present /\ present \subseteq sometime /\ changes \in Nat
  /\ listed \in Seq(Listing!Entry) /\ Rising(listed)
  /\ marker # 0 => marker \in RangeOf(listed) /\ \A i \in DOMAIN listed : listed[i] <= marker
  /\ marker = 0 => over \/ listed = <<>>
  /\ \A x \in throughout : over \/ dir[x] <= marker => dir[x] \in RangeOf(listed)
  /\ RangeOf(listed) \subseteq {dir[x] : x \in sometime}
  /\ changes = 0 /\ marker # 0 => \E s \in present : dir[s] > marker

LEMMA ListInit == Listing!Init => ListInv
<1> SUFFICES ASSUME Listing!Init PROVE ListInv
  OBVIOUS
<1>1. Listing!Layout /\ present \in SUBSET Listing!Entry
      /\ marker = 0 /\ listed = <<>> /\ over = FALSE /\ changes = 0 /\ throughout = present
      /\ sometime = present
  BY DEF Listing!Init, Listing!NoMarker
<1>2. Laid
  BY <1>1, StoresAssumption DEF Listing!Layout, Laid
<1>3. virtual = {} => Flat
  BY <1>1 DEF Listing!Layout, Flat
<1>4. <<>> \in Seq(Listing!Entry) /\ Rising(<<>>) /\ RangeOf(<<>>) = {}
  BY DEF Rising, RangeOf
<1>5. \A x \in throughout : ~(over \/ dir[x] <= marker)
  BY <1>1, <1>2, Plain
<1> QED
  BY <1>1, <1>2, <1>3, <1>4, <1>5 DEF ListInv

LEMMA Joined ==
  ASSUME NEW A, NEW s \in Seq(A), NEW t \in Seq(A)
  PROVE  /\ s \o t \in Seq(A)
         /\ RangeOf(s \o t) = RangeOf(s) \cup RangeOf(t)
         /\ \A i \in DOMAIN (s \o t) :
              \/ i \in DOMAIN s /\ (s \o t)[i] = s[i]
              \/ i > Len(s) /\ i - Len(s) \in DOMAIN t /\ (s \o t)[i] = t[i - Len(s)]
<1> DEFINE u == s \o t
           l == Len(s)
           k == Len(t)
<1>1. /\ u \in Seq(A) /\ Len(u) = l + k /\ l \in Nat /\ k \in Nat
      /\ DOMAIN s = 1..l /\ DOMAIN t = 1..k /\ DOMAIN u = 1..(l + k)
      /\ \A i \in 1..(l + k) : u[i] = IF i <= l THEN s[i] ELSE t[i - l]
  BY ConcatProperties
<1> HIDE DEF u, l, k
<1>2. \A i \in DOMAIN u : \/ i \in DOMAIN s /\ u[i] = s[i]
                          \/ i > l /\ i - l \in DOMAIN t /\ u[i] = t[i - l]
  <2> TAKE i \in DOMAIN u
  <2>1. CASE i <= l
    BY <1>1, <2>1
  <2>2. CASE ~(i <= l)
    BY <1>1, <2>2
  <2> QED
    BY <2>1, <2>2
<1>3. \A i \in DOMAIN s : i \in DOMAIN u /\ u[i] = s[i]
  BY <1>1
<1>4. \A i \in DOMAIN t : i + l \in DOMAIN u /\ u[i + l] = t[i]
  <2> TAKE i \in DOMAIN t
  <2>1. i + l \in 1..(l + k) /\ ~(i + l <= l) /\ (i + l) - l = i
    BY <1>1
  <2> QED
    BY <1>1, <2>1
<1>5. RangeOf(u) = RangeOf(s) \cup RangeOf(t)
  BY <1>2, <1>3, <1>4 DEF RangeOf
<1> QED
  BY <1>1, <1>2, <1>5 DEF u, l

LEMMA FetchKeeps ==
  ASSUME ListInv, NEW answer_, answer_ \in Loops, PageOK(answer_.page, answer_.next, MaxName),
         Listing!Fetch(answer_)
  PROVE  ListInv'
<1> DEFINE page == answer_.page
           next == answer_.next
<1>1. /\ Laid /\ (virtual = {} => Flat) /\ throughout \subseteq present /\ present \subseteq sometime
      /\ listed \in Seq(Listing!Entry) /\ Rising(listed) /\ changes \in Nat
      /\ RangeOf(listed) \subseteq {dir[x] : x \in sometime}
  BY DEF ListInv
<1>2. /\ ~over /\ listed' = listed \o page /\ marker' = next /\ over' = (next = 0)
      /\ UNCHANGED <<virtual, dir, present, changes, throughout, sometime>>
  BY DEF Listing!Fetch, Listing!NoMarker
<1>3. page \in Seq(Listing!Entry) /\ next \in 0..MaxName /\ PageOK(page, next, MaxName)
  BY DEF Loops
<1> HIDE DEF page, next
<1>4. \A i \in DOMAIN listed : listed[i] <= marker /\ listed[i] \in Nat
  <2>1. \A i \in DOMAIN listed : listed[i] \in Listing!Entry
    BY <1>1
  <2>2. marker = 0 => DOMAIN listed = {}
    BY <1>2 DEF ListInv
  <2>3. marker # 0 => \A i \in DOMAIN listed : listed[i] <= marker
    BY DEF ListInv
  <2> QED
    BY <1>1, <2>1, <2>2, <2>3, Plain
<1>5. \A i \in DOMAIN page : page[i] > marker /\ page[i] \in Nat
  <2>1. \A i \in DOMAIN page : page[i] \in Listing!Entry
    BY <1>3
  <2> QED
    BY <1>1, <1>3, <2>1, Plain DEF PageOK
<1>6. /\ listed' \in Seq(Listing!Entry)
      /\ RangeOf(listed') = RangeOf(listed) \cup RangeOf(page)
      /\ \A i \in DOMAIN listed' :
           \/ i \in DOMAIN listed /\ listed'[i] = listed[i]
           \/ i > Len(listed) /\ i - Len(listed) \in DOMAIN page /\ listed'[i] = page[i - Len(listed)]
  BY <1>1, <1>2, <1>3, Joined
<1>7. Rising(listed')
  <2> SUFFICES ASSUME NEW i \in DOMAIN listed', NEW j \in DOMAIN listed', i < j
               PROVE  listed'[i] < listed'[j]
    BY DEF Rising
  <2> DEFINE l == Len(listed)
  <2>0. l \in Nat /\ DOMAIN listed = 1..l /\ marker \in Nat /\ i \in Nat /\ j \in Nat
    BY <1>1, <1>6, Plain
  <2>1. Rising(page)
    BY <1>3 DEF PageOK
  <2> HIDE DEF l
  <2>2. CASE i \in DOMAIN listed /\ listed'[i] = listed[i]
             /\ j \in DOMAIN listed /\ listed'[j] = listed[j]
    BY <1>1, <2>2 DEF Rising
  <2>3. CASE i \in DOMAIN listed /\ listed'[i] = listed[i]
             /\ j - l \in DOMAIN page /\ listed'[j] = page[j - l]
    BY <1>4, <1>5, <2>0, <2>3
  <2>4. CASE i - l \in DOMAIN page /\ listed'[i] = page[i - l]
             /\ j - l \in DOMAIN page /\ listed'[j] = page[j - l]
    <3>1. i - l < j - l
      BY <2>0
    <3> QED
      BY <2>1, <2>4, <3>1 DEF Rising
  <2>5. i > l => j > l
    BY <2>0
  <2>6. j \in DOMAIN listed => ~(j > l)
    BY <2>0
  <2> QED
    BY <1>6, <2>2, <2>3, <2>4, <2>5, <2>6 DEF l
<1>8. next # 0 => next \in RangeOf(listed') /\ \A i \in DOMAIN listed' : listed'[i] <= next
  <2> SUFFICES ASSUME next # 0
               PROVE  next \in RangeOf(listed') /\ \A i \in DOMAIN listed' : listed'[i] <= next
    OBVIOUS
  <2>1. page # <<>> /\ next = After(page)
    BY <1>3 DEF PageOK, After
  <2>2. MaxName \in Nat /\ marker \in Nat
    BY <1>1, Plain
  <2>3. next \in RangeOf(page) /\ \A i \in DOMAIN page : page[i] <= next
    BY <1>1, <1>3, <2>1, <2>2, AfterIs
  <2>4. next > marker /\ next \in Nat
    BY <1>5, <2>3 DEF RangeOf
  <2> QED
    BY <1>4, <1>6, <2>2, <2>3, <2>4
<1>9. ASSUME NEW x \in throughout, next = 0 \/ dir[x] <= next
      PROVE  dir[x] \in RangeOf(listed')
  <2>1. x \in present /\ x <= MaxName /\ dir[x] \in Nat
    BY <1>1, Plain
  <2>2. dir[x] <= marker \/ dir[x] \in RangeOf(page) \/ (next # 0 /\ dir[x] > next)
    BY <1>3, <2>1 DEF PageOK
  <2>3. CASE dir[x] <= marker
    BY <1>6, <2>3 DEF ListInv
  <2>4. CASE dir[x] \in RangeOf(page)
    BY <1>6, <2>4
  <2>5. ~(next # 0 /\ dir[x] > next)
    BY <1>3, <1>9, <2>1
  <2> QED
    BY <2>2, <2>3, <2>4, <2>5
<1>10. RangeOf(listed') \subseteq {dir[x] : x \in sometime}
  <2>1. \A k \in present : k \in sometime
    BY <1>1
  <2>2. ASSUME NEW i \in DOMAIN page PROVE page[i] \in {dir[x] : x \in sometime}
    <3>1. \E k \in present : page[i] = dir[k]
      BY <1>3 DEF PageOK
    <3> QED
      BY <2>1, <3>1
  <2>3. RangeOf(page) \subseteq {dir[x] : x \in sometime}
    BY <2>2 DEF RangeOf
  <2> QED
    BY <1>1, <1>6, <2>3
<1>11. next # 0 => \E s \in present : dir[s] > next
  BY <1>3 DEF PageOK
<1>12. Laid' /\ (virtual' = {} => Flat')
  <2>1. dir' = dir /\ present' = present /\ virtual' = virtual /\ marker' \in 0..MaxName
    BY <1>2, <1>3
  <2>2. Laid'
    BY <1>1, <2>1 DEF Laid, Listing!Entry
  <2>3. virtual' = {} => Flat'
    BY <1>1, <2>1 DEF Flat, Listing!Entry
  <2> QED
    BY <2>2, <2>3
<1>13. /\ throughout' \subseteq present' /\ present' \subseteq sometime' /\ changes' \in Nat
       /\ marker' # 0 => marker' \in RangeOf(listed')
                         /\ \A i \in DOMAIN listed' : listed'[i] <= marker'
       /\ marker' = 0 => over' \/ listed' = <<>>
  BY <1>1, <1>2, <1>8
<1>14. \A x \in throughout' : over' \/ dir'[x] <= marker' => dir'[x] \in RangeOf(listed')
  BY <1>2, <1>9
<1>15. /\ RangeOf(listed') \subseteq {dir'[x] : x \in sometime'}
       /\ changes' = 0 /\ marker' # 0 => \E s \in present' : dir'[s] > marker'
  BY <1>2, <1>10, <1>11
<1> QED
  BY <1>6, <1>7, <1>12, <1>13, <1>14, <1>15 DEF ListInv

LEMMA NamesChange ==
  ASSUME ListInv, Listing!Change PROVE ListInv'
<1>1. /\ ~over /\ changes' = changes + 1 /\ UNCHANGED <<virtual, dir, marker, listed, over>>
  BY DEF Listing!Change
<1>2. /\ throughout' \subseteq throughout /\ throughout' \subseteq present'
      /\ present' \subseteq sometime' /\ present' \in SUBSET Listing!Entry
      /\ sometime \subseteq sometime'
  <2>1. /\ throughout \subseteq present /\ present \subseteq sometime
        /\ present \in SUBSET Listing!Entry
    BY DEF ListInv, Laid
  <2>2. PICK x \in Listing!Entry :
          \/ /\ present' = present \cup {x} /\ sometime' = sometime \cup {x} /\ UNCHANGED throughout
          \/ /\ present' = present \ {x} /\ throughout' = throughout \ {x} /\ UNCHANGED sometime
    BY DEF Listing!Change
  <2> QED
    BY <2>1, <2>2
<1>3. Laid' /\ (virtual' = {} => Flat')
  BY <1>1, <1>2 DEF ListInv, Laid, Flat
<1>4. changes' \in Nat /\ changes' # 0
  BY <1>1 DEF ListInv
<1>5. RangeOf(listed)' = RangeOf(listed)
  BY <1>1 DEF RangeOf
<1>6. /\ listed' \in Seq(Listing!Entry) /\ Rising(listed)'
      /\ marker' # 0 => marker' \in RangeOf(listed)' /\ \A i \in DOMAIN listed' : listed'[i] <= marker'
      /\ marker' = 0 => over' \/ listed' = <<>>
  BY <1>1, <1>5 DEF ListInv, Rising
<1>7. \A x \in throughout' : over' \/ dir'[x] <= marker' => dir'[x] \in RangeOf(listed)'
  BY <1>1, <1>2, <1>5 DEF ListInv
<1>8. RangeOf(listed)' \subseteq {dir'[x] : x \in sometime'}
  <2>1. RangeOf(listed) \subseteq {dir[x] : x \in sometime}
    BY DEF ListInv
  <2> QED
    BY <1>1, <1>2, <1>5, <2>1
<1> QED
  BY <1>2, <1>3, <1>4, <1>6, <1>7, <1>8 DEF ListInv

LEMMA ListStep == ListInv /\ [Listing!Next]_Listing!listVars => ListInv'
<1> SUFFICES ASSUME ListInv, [Listing!Next]_Listing!listVars PROVE ListInv'
  OBVIOUS
<1>0. Laid /\ MaxResults \subseteq Int
  BY StoresAssumption DEF ListInv
<1>1. ASSUME NEW max \in MaxResults, Listing!Fetch(Listing!ListBlobs(max)) PROVE ListInv'
  <2>1. Reaches(Listing!ListBlobs(max), MaxName)
    BY <1>0, BlobsReach
  <2> QED
    BY <1>1, <2>1, FetchKeeps DEF Reaches
<1>2. ASSUME NEW max \in MaxResults, virtual = {}, Listing!Fetch(Listing!ListContainers(max))
      PROVE ListInv'
  <2>1. Flat
    BY <1>2 DEF ListInv
  <2>2. Passes(Listing!ListContainers(max), MaxName, Listing!Clamp(max))
    BY <1>0, <2>1, ContainersPass
  <2> QED
    BY <1>2, <2>2, FetchKeeps DEF Passes
<1>3. CASE UNCHANGED Listing!listVars
  <2>1. UNCHANGED <<virtual, dir, present, marker, listed, over, changes, throughout, sometime>>
    BY <1>3 DEF Listing!listVars
  <2>2. Laid' = Laid /\ Flat' = Flat
    BY <2>1 DEF Laid, Flat
  <2>3. RangeOf(listed)' = RangeOf(listed) /\ Rising(listed)' = Rising(listed)
    BY <2>1 DEF RangeOf, Rising
  <2> QED
    BY <2>1, <2>2, <2>3 DEF ListInv
<1> QED
  BY <1>1, <1>2, <1>3, NamesChange DEF Listing!Next

LEMMA PagesHold == ListInv => Pages /\ Listing!TypeOK
<1> SUFFICES ASSUME ListInv PROVE Pages /\ Listing!TypeOK
  OBVIOUS
<1>1. Listing!ToSet(listed) = RangeOf(listed)
  BY DEF Listing!ToSet, RangeOf
<1>2. Listing!NothingTwice
  BY DEF ListInv, Listing!NothingTwice, Rising
<1>3. Listing!Complete
  BY <1>1 DEF ListInv, Listing!Complete
<1>4. Listing!TypeOK
  BY <1>1 DEF ListInv, Listing!TypeOK, Laid, Listing!NoMarker
<1>5. Listing!NoEmptyPage
  <2> SUFFICES ASSUME changes = 0, marker # 0
               PROVE  \E max \in MaxResults : Listing!ListBlobs(max).page # <<>>
    BY DEF Listing!NoEmptyPage, Listing!NoMarker
  <2>1. PICK s \in present : dir[s] > marker
    BY DEF ListInv
  <2>2. PICK max \in MaxResults : max \in Int
    BY StoresAssumption
  <2> DEFINE answer_ == Listing!ListBlobs(max)
  <2>3. Reaches(answer_, MaxName) /\ Laid
    BY <2>2, BlobsReach DEF ListInv
  <2> HIDE DEF answer_
  <2>4. /\ s <= MaxName /\ ~(dir[s] <= marker)
    BY <2>1, <2>3, Plain
  <2>5. dir[s] \in RangeOf(answer_.page) \/ answer_.next # 0
    BY <2>3, <2>4 DEF Reaches, PageOK
  <2>6. answer_.page # <<>>
    <3>1. RangeOf(<<>>) = {}
      BY DEF RangeOf
    <3> QED
      BY <2>3, <2>5, <3>1 DEF Reaches, PageOK
  <2> QED
    BY <2>2, <2>6 DEF answer_
<1> QED
  BY <1>2, <1>3, <1>4, <1>5 DEF Pages

-----------------------------------------------------------------------------
(* The signing key.                                                        *)

Early == main \in {"key", "write"}

(* No token is signed before the key is on disk whole, which it then stays. *)
KeyOK ==
  /\ starts \in Nat
  /\ minted \subseteq {keyFile}
  /\ keyFile \in {None, Starting!Torn} => minted = {}
  /\ Starting!Running /\ Early => \A i \in Starting!Listener : goroutine[i] = "none"
  /\ main = "key" => starts # 0
  /\ main = "write" => keyFile = Starting!Torn /\ key \in Nat \ {Starting!Torn}
  /\ Starting!Running /\ ~Early => key = keyFile /\ keyFile \notin {None, Starting!Torn}

LEMMA KeyInit == Starting!Init => KeyOK
  BY DEF Starting!Init, KeyOK, Starting!Running, Early

LEMMA KeyStep == KeyOK /\ [Starting!Next]_Starting!processVars => KeyOK'
<1> SUFFICES ASSUME KeyOK, [Starting!Next]_Starting!processVars PROVE KeyOK'
  OBVIOUS
<1> USE StoresAssumption DEF KeyOK, Starting!Running, Early, Starting!Torn
<1>1. CASE Starting!Start
  BY <1>1 DEF Starting!Start, Starting!GoTo
<1>2. CASE Starting!signerFromFile
  BY <1>2 DEF Starting!signerFromFile, Starting!fatal, Starting!GoTo, Starting!NoChange
<1>3. CASE Starting!newSigner
  BY <1>3 DEF Starting!newSigner, Starting!fatal, Starting!GoTo, Starting!NoChange
<1>4. CASE Starting!writeKey
  BY <1>4 DEF Starting!writeKey, Starting!fatal, Starting!GoTo, Starting!NoChange
<1>5. CASE Starting!Bind \/ Starting!closeListeners \/ Starting!Go \/ Starting!Ready \/ Starting!Select \/ Starting!Shutdown \/ Starting!CloseAMQP \/ Starting!Wait
  <2>1. Starting!Running /\ ~Early /\ ~Early' /\ UNCHANGED Starting!signer
    BY <1>5 DEF Starting!Bind, Starting!closeListeners, Starting!Go, Starting!Ready, Starting!Select, Starting!Shutdown, Starting!CloseAMQP, Starting!Wait, Starting!GoTo
  <2> QED
    BY <2>1 DEF Starting!signer
<1>6. ASSUME NEW i \in Starting!Listener, Starting!Goroutine(i) \/ Starting!AcceptFails(i) PROVE KeyOK'
  <2>1. Starting!Running /\ UNCHANGED <<main, Starting!signer>> /\ goroutine[i] # "none"
    BY <1>6 DEF Starting!Goroutine, Starting!AcceptFails, Starting!Serve, Starting!AcceptClosed, Starting!reportErr
  <2> QED
    BY <2>1 DEF Starting!signer
<1>7. CASE Starting!Cancel
  BY <1>7 DEF Starting!Cancel, Starting!signer
<1>8. CASE Starting!Kill
  BY <1>8 DEF Starting!Kill, Starting!GoTo, Starting!signer
<1>9. CASE Starting!Token
  BY <1>9 DEF Starting!Token, Starting!run
<1>10. CASE UNCHANGED Starting!processVars
  BY <1>10 DEF Starting!processVars, Starting!run, Starting!signer
<1> QED
  BY <1>1, <1>2, <1>3, <1>4, <1>5, <1>6, <1>7, <1>8, <1>9, <1>10 DEF Starting!Next

LEMMA KeySigns == KeyOK => OneKey
<1> SUFFICES ASSUME KeyOK PROVE OneKey
  OBVIOUS
<1>1. IsFiniteSet({keyFile}) /\ Cardinality({keyFile}) = 1
  BY FS_Singleton
<1>2. Cardinality(minted) <= Cardinality({keyFile})
  BY <1>1, FS_Subset DEF KeyOK
<1> QED
  BY <1>1, <1>2 DEF OneKey, Starting!OneKey, Starting!Cardinality, Cardinality

-----------------------------------------------------------------------------
(* Start and stop.                                                         *)

Bound == {"serve", "ready", "select", "shutdown", "wait"}   \* run has bound all

RunTypes ==
  /\ main \in {"off", "key", "write", "bind", "serve", "ready", "select", "shutdown", "wait",
               "return"}
  /\ place \in Starting!Listener
  /\ listener \in [Starting!Listener -> {"unbound", "open", "closed"}]
  /\ goroutine \in [Starting!Listener -> {"none", "start", "accept", "report", "done"}]
  /\ shuttingDown \in [Starting!Listener -> BOOLEAN]
  /\ {errc, result} \subseteq Starting!Listener \cup {None}
  /\ failed \subseteq Starting!Listener
  /\ {cancelled, ready} \subseteq BOOLEAN

(* How far run has come.                                                   *)
Before == \* no listener served
  main \in {"key", "write", "bind"} =>
    /\ \A i \in Starting!Listener :
         /\ goroutine[i] = "none" /\ ~shuttingDown[i]
         /\ listener[i] = IF main = "bind" /\ i < place THEN "open" ELSE "unbound"
    /\ main # "bind" => place = 1
    /\ ~ready /\ errc = None /\ result = None /\ failed = {}

Serving ==
  main \in Bound =>
    /\ \A i \in Starting!Listener :
         /\ goroutine[i] = "none" <=> main = "serve" /\ i >= place
         /\ shuttingDown[i] => main = "wait" \/ (main = "shutdown" /\ i < place)
         /\ Starting!IsHTTP(i) /\ (main = "wait" \/ (main = "shutdown" /\ i < place))
              => shuttingDown[i]
    /\ main \in {"ready", "select"} => place = 1
    /\ ready => main \notin {"serve", "ready"}

(* What a goroutine has made of its listener.                              *)
Served ==
  main \in Bound =>
    \A i \in Starting!Listener :
      /\ listener[i] # "unbound"
      /\ listener[i] = "closed" => shuttingDown[i] \/ i \in failed \/ main = "wait"
      /\ Starting!IsHTTP(i) =>
           /\ goroutine[i] \in {"none", "start"} => listener[i] = "open"
           /\ goroutine[i] = "accept" /\ shuttingDown[i] => listener[i] = "closed"
           /\ goroutine[i] \in {"report", "done"} => listener[i] = "closed"
      /\ ~Starting!IsHTTP(i) /\ main = "wait" => listener[i] = "closed"
      /\ ~Starting!IsHTTP(i) /\ main # "wait" => listener[i] = "open"

(* Errors are of listeners that failed, and run returns for a reason.      *)
Reasons ==
  main # "off" =>
    /\ \A i \in Starting!Listener : goroutine[i] = "report" => i \in failed
    /\ {errc, result} \ {None} \subseteq failed
    /\ main \in {"shutdown", "wait", "return"} => result # None \/ cancelled

Left ==
  main = "return" =>
    \A i \in Starting!Listener : listener[i] # "open" /\ goroutine[i] \in {"none", "done"}

RunOK == RunTypes /\ Before /\ Serving /\ Served /\ Reasons /\ Left

LEMMA ListenersAre ==
  /\ Starting!Listener = 1..Listeners
  /\ 1 \in Starting!Listener /\ Listeners \in Starting!Listener
  /\ Starting!Management = 1
  /\ None \notin Starting!Listener
  /\ \A i \in Starting!Listener : i \in Nat /\ (Starting!IsHTTP(i) <=> i # Listeners)
BY StoresAssumption DEF Starting!Listener, Starting!IsHTTP, Starting!Management

LEMMA RunInit == Starting!Init => RunOK
<1> SUFFICES ASSUME Starting!Init PROVE RunOK
  OBVIOUS
<1> QED
  BY ListenersAre
     DEF Starting!Init, RunOK, RunTypes, Before, Serving, Served, Reasons, Left, Bound

LEMMA RunStep == RunOK /\ [Starting!Next]_Starting!processVars => RunOK'
<1> SUFFICES ASSUME RunOK, [Starting!Next]_Starting!processVars PROVE RunOK'
  OBVIOUS
<1>0. RunTypes /\ Before /\ Serving /\ Served /\ Reasons /\ Left
  BY DEF RunOK
<1> USE DEF Starting!GoTo, Starting!NoChange, Starting!fatal, Starting!signer
<1>1. CASE Starting!Start
  <2>1. RunTypes'
    BY <1>0, <1>1, ListenersAre
       DEF Starting!Start, RunTypes, Bound
  <2>2. Before'
    BY <1>0, <1>1, ListenersAre
       DEF Starting!Start, RunTypes, Before, Bound
  <2>3. Serving'
    BY <1>0, <1>1, ListenersAre
       DEF Starting!Start, RunTypes, Before, Serving, Bound
  <2>4. Served'
    BY <1>0, <1>1, ListenersAre
       DEF Starting!Start, RunTypes, Before, Serving, Served, Reasons, Bound
  <2>5. Reasons'
    BY <1>0, <1>1, ListenersAre
       DEF Starting!Start, RunTypes, Before, Reasons, Bound
  <2>6. Left'
    BY <1>0, <1>1, ListenersAre
       DEF Starting!Start, RunTypes, Before, Serving, Served, Left, Bound
  <2> QED
    BY <2>1, <2>2, <2>3, <2>4, <2>5, <2>6 DEF RunOK
<1>2. CASE Starting!signerFromFile \/ Starting!newSigner \/ Starting!writeKey
  <2>1. /\ main \in {"key", "write"} /\ main' \in {"off", "write", "bind"}
        /\ UNCHANGED <<place, listener, goroutine, shuttingDown, errc, cancelled, ready, result,
                       failed>>
    BY <1>2 DEF Starting!signerFromFile, Starting!newSigner, Starting!writeKey
  <2> QED
    BY <1>0, <2>1, ListenersAre DEF RunOK, RunTypes, Before, Serving, Served, Reasons, Left, Bound
<1>3. CASE Starting!Bind
  <2>1. RunTypes'
    BY <1>0, <1>3, ListenersAre
       DEF Starting!Bind, RunTypes, Bound
  <2>2. Before'
    BY <1>0, <1>3, ListenersAre
       DEF Starting!Bind, RunTypes, Before, Bound
  <2>3. Serving'
    BY <1>0, <1>3, ListenersAre
       DEF Starting!Bind, RunTypes, Before, Serving, Bound
  <2>4. Served'
    BY <1>0, <1>3, ListenersAre
       DEF Starting!Bind, RunTypes, Before, Serving, Served, Reasons, Bound
  <2>5. Reasons'
    BY <1>0, <1>3, ListenersAre
       DEF Starting!Bind, RunTypes, Before, Reasons, Bound
  <2>6. Left'
    BY <1>0, <1>3, ListenersAre
       DEF Starting!Bind, RunTypes, Before, Serving, Served, Left, Bound
  <2> QED
    BY <2>1, <2>2, <2>3, <2>4, <2>5, <2>6 DEF RunOK
<1>4. CASE Starting!closeListeners
  <2>1. RunTypes'
    BY <1>0, <1>4, ListenersAre
       DEF Starting!closeListeners, RunTypes, Bound
  <2>2. Before'
    BY <1>0, <1>4, ListenersAre
       DEF Starting!closeListeners, RunTypes, Before, Bound
  <2>3. Serving'
    BY <1>0, <1>4, ListenersAre
       DEF Starting!closeListeners, RunTypes, Before, Serving, Bound
  <2>4. Served'
    BY <1>0, <1>4, ListenersAre
       DEF Starting!closeListeners, RunTypes, Before, Serving, Served, Reasons, Bound
  <2>5. Reasons'
    BY <1>0, <1>4, ListenersAre
       DEF Starting!closeListeners, RunTypes, Before, Reasons, Bound
  <2>6. Left'
    BY <1>0, <1>4, ListenersAre
       DEF Starting!closeListeners, RunTypes, Before, Serving, Served, Left, Bound
  <2> QED
    BY <2>1, <2>2, <2>3, <2>4, <2>5, <2>6 DEF RunOK
<1>5. CASE Starting!Go
  <2>1. RunTypes'
    BY <1>0, <1>5, ListenersAre
       DEF Starting!Go, RunTypes, Bound
  <2>2. Before'
    BY <1>0, <1>5, ListenersAre
       DEF Starting!Go, RunTypes, Before, Bound
  <2>3. Serving'
    BY <1>0, <1>5, ListenersAre
       DEF Starting!Go, RunTypes, Before, Serving, Bound
  <2>4. Served'
    BY <1>0, <1>5, ListenersAre
       DEF Starting!Go, RunTypes, Before, Serving, Served, Reasons, Bound
  <2>5. Reasons'
    BY <1>0, <1>5, ListenersAre
       DEF Starting!Go, RunTypes, Before, Reasons, Bound
  <2>6. Left'
    BY <1>0, <1>5, ListenersAre
       DEF Starting!Go, RunTypes, Before, Serving, Served, Left, Bound
  <2> QED
    BY <2>1, <2>2, <2>3, <2>4, <2>5, <2>6 DEF RunOK
<1>6. CASE Starting!Ready
  <2>1. RunTypes'
    BY <1>0, <1>6, ListenersAre
       DEF Starting!Ready, RunTypes, Bound
  <2>2. Before'
    BY <1>0, <1>6, ListenersAre
       DEF Starting!Ready, RunTypes, Before, Bound
  <2>3. Serving'
    BY <1>0, <1>6, ListenersAre
       DEF Starting!Ready, RunTypes, Before, Serving, Bound
  <2>4. Served'
    BY <1>0, <1>6, ListenersAre
       DEF Starting!Ready, RunTypes, Before, Serving, Served, Reasons, Bound
  <2>5. Reasons'
    BY <1>0, <1>6, ListenersAre
       DEF Starting!Ready, RunTypes, Before, Reasons, Bound
  <2>6. Left'
    BY <1>0, <1>6, ListenersAre
       DEF Starting!Ready, RunTypes, Before, Serving, Served, Left, Bound
  <2> QED
    BY <2>1, <2>2, <2>3, <2>4, <2>5, <2>6 DEF RunOK
<1>7. CASE Starting!Select
  <2>1. RunTypes'
    BY <1>0, <1>7, ListenersAre
       DEF Starting!Select, RunTypes, Bound
  <2>2. Before'
    BY <1>0, <1>7, ListenersAre
       DEF Starting!Select, RunTypes, Before, Bound
  <2>3. Serving'
    BY <1>0, <1>7, ListenersAre
       DEF Starting!Select, RunTypes, Before, Serving, Bound
  <2>4. Served'
    BY <1>0, <1>7, ListenersAre
       DEF Starting!Select, RunTypes, Before, Serving, Served, Reasons, Bound
  <2>5. Reasons'
    BY <1>0, <1>7, ListenersAre
       DEF Starting!Select, RunTypes, Before, Reasons, Bound
  <2>6. Left'
    BY <1>0, <1>7, ListenersAre
       DEF Starting!Select, RunTypes, Before, Serving, Served, Left, Bound
  <2> QED
    BY <2>1, <2>2, <2>3, <2>4, <2>5, <2>6 DEF RunOK
<1>8. CASE Starting!Shutdown
  <2>1. RunTypes'
    BY <1>0, <1>8, ListenersAre
       DEF Starting!Shutdown, RunTypes, Bound
  <2>2. Before'
    BY <1>0, <1>8, ListenersAre
       DEF Starting!Shutdown, RunTypes, Before, Bound
  <2>3. Serving'
    BY <1>0, <1>8, ListenersAre
       DEF Starting!Shutdown, RunTypes, Before, Serving, Bound
  <2>4. Served'
    BY <1>0, <1>8, ListenersAre
       DEF Starting!Shutdown, RunTypes, Before, Serving, Served, Reasons, Bound
  <2>5. Reasons'
    BY <1>0, <1>8, ListenersAre
       DEF Starting!Shutdown, RunTypes, Before, Reasons, Bound
  <2>6. Left'
    BY <1>0, <1>8, ListenersAre
       DEF Starting!Shutdown, RunTypes, Before, Serving, Served, Left, Bound
  <2> QED
    BY <2>1, <2>2, <2>3, <2>4, <2>5, <2>6 DEF RunOK
<1>9. CASE Starting!CloseAMQP
  <2>1. RunTypes'
    BY <1>0, <1>9, ListenersAre
       DEF Starting!CloseAMQP, RunTypes, Bound
  <2>2. Before'
    BY <1>0, <1>9, ListenersAre
       DEF Starting!CloseAMQP, RunTypes, Before, Bound
  <2>3. Serving'
    BY <1>0, <1>9, ListenersAre
       DEF Starting!CloseAMQP, RunTypes, Before, Serving, Bound
  <2>4. Served'
    BY <1>0, <1>9, ListenersAre
       DEF Starting!CloseAMQP, RunTypes, Before, Serving, Served, Reasons, Bound
  <2>5. Reasons'
    BY <1>0, <1>9, ListenersAre
       DEF Starting!CloseAMQP, RunTypes, Before, Reasons, Bound
  <2>6. Left'
    BY <1>0, <1>9, ListenersAre
       DEF Starting!CloseAMQP, RunTypes, Before, Serving, Served, Left, Bound
  <2> QED
    BY <2>1, <2>2, <2>3, <2>4, <2>5, <2>6 DEF RunOK
<1>10. CASE Starting!Wait
  <2>1. RunTypes'
    BY <1>0, <1>10, ListenersAre
       DEF Starting!Wait, RunTypes, Bound
  <2>2. Before'
    BY <1>0, <1>10, ListenersAre
       DEF Starting!Wait, RunTypes, Before, Bound
  <2>3. Serving'
    BY <1>0, <1>10, ListenersAre
       DEF Starting!Wait, RunTypes, Before, Serving, Bound
  <2>4. Served'
    BY <1>0, <1>10, ListenersAre
       DEF Starting!Wait, RunTypes, Before, Serving, Served, Reasons, Bound
  <2>5. Reasons'
    BY <1>0, <1>10, ListenersAre
       DEF Starting!Wait, RunTypes, Before, Reasons, Bound
  <2>6. Left'
    BY <1>0, <1>10, ListenersAre
       DEF Starting!Wait, RunTypes, Before, Serving, Served, Left, Bound
  <2> QED
    BY <2>1, <2>2, <2>3, <2>4, <2>5, <2>6 DEF RunOK
<1>11. ASSUME NEW i \in Starting!Listener, Starting!Running, Starting!Serve(i) PROVE RunOK'
  <2>1. RunTypes'
    BY <1>0, <1>11, ListenersAre
       DEF Starting!Serve, Starting!Running, RunTypes, Bound
  <2>2. Before'
    BY <1>0, <1>11, ListenersAre
       DEF Starting!Serve, Starting!Running, RunTypes, Before, Bound
  <2>3. Serving'
    BY <1>0, <1>11, ListenersAre
       DEF Starting!Serve, Starting!Running, RunTypes, Before, Serving, Bound
  <2>4. Served'
    BY <1>0, <1>11, ListenersAre
       DEF Starting!Serve, Starting!Running, RunTypes, Before, Serving, Served, Reasons, Bound
  <2>5. Reasons'
    BY <1>0, <1>11, ListenersAre
       DEF Starting!Serve, Starting!Running, RunTypes, Before, Reasons, Bound
  <2>6. Left'
    BY <1>0, <1>11, ListenersAre
       DEF Starting!Serve, Starting!Running, RunTypes, Before, Serving, Served, Left, Bound
  <2> QED
    BY <2>1, <2>2, <2>3, <2>4, <2>5, <2>6 DEF RunOK
<1>12. ASSUME NEW i \in Starting!Listener, Starting!Running, Starting!AcceptClosed(i) PROVE RunOK'
  <2>1. RunTypes'
    BY <1>0, <1>12, ListenersAre
       DEF Starting!AcceptClosed, Starting!Running, RunTypes, Bound
  <2>2. Before'
    BY <1>0, <1>12, ListenersAre
       DEF Starting!AcceptClosed, Starting!Running, RunTypes, Before, Bound
  <2>3. Serving'
    BY <1>0, <1>12, ListenersAre
       DEF Starting!AcceptClosed, Starting!Running, RunTypes, Before, Serving, Bound
  <2>4. Served'
    BY <1>0, <1>12, ListenersAre
       DEF Starting!AcceptClosed, Starting!Running, RunTypes, Before, Serving, Served, Reasons,
           Bound
  <2>5. Reasons'
    BY <1>0, <1>12, ListenersAre
       DEF Starting!AcceptClosed, Starting!Running, RunTypes, Before, Reasons, Bound
  <2>6. Left'
    BY <1>0, <1>12, ListenersAre
       DEF Starting!AcceptClosed, Starting!Running, RunTypes, Before, Serving, Served, Left,
           Bound
  <2> QED
    BY <2>1, <2>2, <2>3, <2>4, <2>5, <2>6 DEF RunOK
<1>13. ASSUME NEW i \in Starting!Listener, Starting!Running, Starting!reportErr(i) PROVE RunOK'
  <2>1. RunTypes'
    BY <1>0, <1>13, ListenersAre
       DEF Starting!reportErr, Starting!Running, RunTypes, Bound
  <2>2. Before'
    BY <1>0, <1>13, ListenersAre
       DEF Starting!reportErr, Starting!Running, RunTypes, Before, Bound
  <2>3. Serving'
    BY <1>0, <1>13, ListenersAre
       DEF Starting!reportErr, Starting!Running, RunTypes, Before, Serving, Bound
  <2>4. Served'
    BY <1>0, <1>13, ListenersAre
       DEF Starting!reportErr, Starting!Running, RunTypes, Before, Serving, Served, Reasons,
           Bound
  <2>5. Reasons'
    BY <1>0, <1>13, ListenersAre
       DEF Starting!reportErr, Starting!Running, RunTypes, Before, Reasons, Bound
  <2>6. Left'
    BY <1>0, <1>13, ListenersAre
       DEF Starting!reportErr, Starting!Running, RunTypes, Before, Serving, Served, Left, Bound
  <2> QED
    BY <2>1, <2>2, <2>3, <2>4, <2>5, <2>6 DEF RunOK
<1>14. ASSUME NEW i \in Starting!Listener, Starting!AcceptFails(i) PROVE RunOK'
  <2>1. RunTypes'
    BY <1>0, <1>14, ListenersAre
       DEF Starting!AcceptFails, Starting!Running, RunTypes, Bound
  <2>2. Before'
    BY <1>0, <1>14, ListenersAre
       DEF Starting!AcceptFails, Starting!Running, RunTypes, Before, Bound
  <2>3. Serving'
    BY <1>0, <1>14, ListenersAre
       DEF Starting!AcceptFails, Starting!Running, RunTypes, Before, Serving, Bound
  <2>4. Served'
    BY <1>0, <1>14, ListenersAre
       DEF Starting!AcceptFails, Starting!Running, RunTypes, Before, Serving, Served, Reasons,
           Bound
  <2>5. Reasons'
    BY <1>0, <1>14, ListenersAre
       DEF Starting!AcceptFails, Starting!Running, RunTypes, Before, Reasons, Bound
  <2>6. Left'
    BY <1>0, <1>14, ListenersAre
       DEF Starting!AcceptFails, Starting!Running, RunTypes, Before, Serving, Served, Left,
           Bound
  <2> QED
    BY <2>1, <2>2, <2>3, <2>4, <2>5, <2>6 DEF RunOK
<1>15. CASE Starting!Cancel
  <2>1. RunTypes'
    BY <1>0, <1>15, ListenersAre
       DEF Starting!Cancel, Starting!Running, RunTypes, Bound
  <2>2. Before'
    BY <1>0, <1>15, ListenersAre
       DEF Starting!Cancel, Starting!Running, RunTypes, Before, Bound
  <2>3. Serving'
    BY <1>0, <1>15, ListenersAre
       DEF Starting!Cancel, Starting!Running, RunTypes, Before, Serving, Bound
  <2>4. Served'
    BY <1>0, <1>15, ListenersAre
       DEF Starting!Cancel, Starting!Running, RunTypes, Before, Serving, Served, Reasons, Bound
  <2>5. Reasons'
    BY <1>0, <1>15, ListenersAre
       DEF Starting!Cancel, Starting!Running, RunTypes, Before, Reasons, Bound
  <2>6. Left'
    BY <1>0, <1>15, ListenersAre
       DEF Starting!Cancel, Starting!Running, RunTypes, Before, Serving, Served, Left, Bound
  <2> QED
    BY <2>1, <2>2, <2>3, <2>4, <2>5, <2>6 DEF RunOK
<1>16. CASE Starting!Kill
  <2>1. RunTypes'
    BY <1>0, <1>16, ListenersAre
       DEF Starting!Kill, Starting!Running, RunTypes, Bound
  <2>2. Before'
    BY <1>0, <1>16, ListenersAre
       DEF Starting!Kill, Starting!Running, RunTypes, Before, Bound
  <2>3. Serving'
    BY <1>0, <1>16, ListenersAre
       DEF Starting!Kill, Starting!Running, RunTypes, Before, Serving, Bound
  <2>4. Served'
    BY <1>0, <1>16, ListenersAre
       DEF Starting!Kill, Starting!Running, RunTypes, Before, Serving, Served, Reasons, Bound
  <2>5. Reasons'
    BY <1>0, <1>16, ListenersAre
       DEF Starting!Kill, Starting!Running, RunTypes, Before, Reasons, Bound
  <2>6. Left'
    BY <1>0, <1>16, ListenersAre
       DEF Starting!Kill, Starting!Running, RunTypes, Before, Serving, Served, Left, Bound
  <2> QED
    BY <2>1, <2>2, <2>3, <2>4, <2>5, <2>6 DEF RunOK
<1>17. CASE Starting!Token
  <2>1. RunTypes'
    BY <1>0, <1>17, ListenersAre
       DEF Starting!Token, Starting!Running, Starting!run, RunTypes, Bound
  <2>2. Before'
    BY <1>0, <1>17, ListenersAre
       DEF Starting!Token, Starting!Running, Starting!run, RunTypes, Before, Bound
  <2>3. Serving'
    BY <1>0, <1>17, ListenersAre
       DEF Starting!Token, Starting!Running, Starting!run, RunTypes, Before, Serving, Bound
  <2>4. Served'
    BY <1>0, <1>17, ListenersAre
       DEF Starting!Token, Starting!Running, Starting!run, RunTypes, Before, Serving, Served,
           Reasons, Bound
  <2>5. Reasons'
    BY <1>0, <1>17, ListenersAre
       DEF Starting!Token, Starting!Running, Starting!run, RunTypes, Before, Reasons, Bound
  <2>6. Left'
    BY <1>0, <1>17, ListenersAre
       DEF Starting!Token, Starting!Running, Starting!run, RunTypes, Before, Serving, Served,
           Left, Bound
  <2> QED
    BY <2>1, <2>2, <2>3, <2>4, <2>5, <2>6 DEF RunOK
<1>18. CASE UNCHANGED Starting!processVars
  BY <1>0, <1>18
     DEF Starting!processVars, Starting!run, RunOK, RunTypes, Before, Serving, Served, Reasons, Left
<1> QED
  BY <1>1, <1>2, <1>3, <1>4, <1>5, <1>6, <1>7, <1>8, <1>9, <1>10, <1>11, <1>12, <1>13, <1>14, <1>15, <1>16, <1>17, <1>18
     DEF Starting!Next, Starting!Goroutine

LEMMA RunStopsWell == RunOK => StopsWell
<1> SUFFICES ASSUME RunOK PROVE StopsWell
  OBVIOUS
<1> QED
  BY ListenersAre
     DEF RunOK, RunTypes, Before, Serving, Served, Reasons, Left, Bound, StopsWell,
         Starting!NothingLeft, Starting!TellsWhy, Starting!HealthTells, Starting!Healthy

\* Every goroutine run waits for is done, or has a step of its own to take.
NobodyIsStuck ==
  main = "wait" => \A i \in Starting!Listener :
    \/ goroutine[i] \in {"start", "report", "done"}
    \/ goroutine[i] = "accept" /\ listener[i] = "closed"

LEMMA RunGoesOn == RunOK => NobodyIsStuck
  BY ListenersAre
     DEF RunOK, RunTypes, Before, Serving, Served, Bound, NobodyIsStuck

-----------------------------------------------------------------------------
(* Every service's state is of its type.                                   *)
LEMMA FileTyped == FileInv => TypeOK
  BY DEF FileInv

LEMMA RunTyped == KeyOK /\ RunOK => Starting!TypeOK
<1> SUFFICES ASSUME KeyOK, RunOK PROVE Starting!TypeOK
  OBVIOUS
<1>1. RunTypes /\ Before
  BY DEF RunOK
<1>2. main = "bind" => \A i \in Starting!Listener : listener[i] = "open" <=> i < place
  BY <1>1 DEF Before
<1>3. main \in {"bind", "serve", "ready", "select"} => key \notin {None, Starting!Torn}
  BY DEF KeyOK, Starting!Running, Early
<1> QED
  BY <1>1, <1>2, <1>3 DEF RunTypes, Starting!TypeOK

LEMMA QueuesStep == QueueInv /\ [Queues!Next]_Queues!vars => QueueInv'
  BY QueueStep, QueueSame DEF Queues!vars, queueVars

-----------------------------------------------------------------------------
(* Whatever fails or dies in Write, at whatever step of it, whoever opens  *)
(* path reads contents that one call wrote whole, and contents whose       *)
(* directory entry was synced survive every power failure (CrashSafe;      *)
(* Write of atomicfile).                                                   *)
THEOREM WriteIsCrashSafe == AnySpec => []CrashSafe
<1>1. FileInv => CrashSafe
  BY DEF FileInv, Settled, Intact, CrashSafe
<1> QED
  BY Inits, Steps, FileInit, FileStep, <1>1, PTL DEF AnySpec

(* Later calls never let older contents come back on disk (NeverOlder;     *)
(* Write of atomicfile).                                                   *)
THEOREM DiskMovesOn == AnySpec => NeverOlder
<1> DEFINE Step == diskNames.path # NoInode =>
              /\ diskNames'.path # NoInode
              /\ diskData'[diskNames'.path] >= diskData[diskNames.path]
<1>1. FileInv /\ [Next]_vars => [Step]_vars
  BY DEF FileInv, TypeOK, Entry, Data, Torn, Apart, Settled, InStep, Next, Open, Free,
         WriteData, Sync, Rename, SyncDir, Fail, WriteBack, Kill, PowerFailure, fsVars, vars
<1> QED
  BY Inits, Steps, FileInit, FileStep, <1>1, PTL DEF AnySpec, NeverOlder

(* Of two clients that read an entity and write it back on the condition   *)
(* of its ETag, the second is refused, also when the entity was deleted    *)
(* and created anew in between or came back with the snapshot              *)
(* (NoLostUpdate; update, DeleteEntity, load).                             *)
THEOREM UpdatesAreNotLost == AnySpec => NoLostUpdate
<1>1. TableInv /\ [Tables!Next]_Tables!tableVars =>
        [\A c \in Client :
           LET a == answer'[c] IN
           a # answer[c] /\ a.ifMatch \notin {None, Any}
           => /\ a.table \in DOMAIN tables
              /\ tables[a.table][a.key] = answer[c].entity]_Tables!tableVars
  BY StepMeets
<1> QED
  BY Inits, Steps, TablesInit, TablesStep, <1>1, PTL DEF AnySpec, NoLostUpdate, Tables!NoLostUpdate

(* Once its removal is on disk, a version is never served again: not under *)
(* its name set anew, not after a restart (NeverBack; SetSecret,           *)
(* persistLocked, load).                                                   *)
THEOREM DeletedStaysAway == AnySpec => NeverBack
<1>1. VaultInv /\ [Vault!Next]_Vault!vaultVars =>
        [deleted \subseteq deleted' /\ Vault!VersionsIn(vault') \cap deleted' = {}]_Vault!vaultVars
  BY VaultStep DEF VaultInv
<1> QED
  BY Inits, Steps, VaultInit, VaultStep, <1>1, PTL DEF AnySpec, NeverBack, Vault!NeverBack

(* Tokens minted before a restart keep verifying: whenever the process was *)
(* killed, in the writing of the key file included, all tokens are signed  *)
(* with one key (OneKey; signerFromFile, newSigner, writeKey, Token).      *)
THEOREM OneKeySigns == AnySpec => []OneKey
  BY Inits, Steps, KeyInit, KeyStep, KeySigns, PTL DEF AnySpec

(* However run returns, it leaves no listener and no goroutine behind and  *)
(* says why; and as long as no listener has failed, the health endpoint    *)
(* calls ready only a process whose services are all bound (StopsWell;     *)
(* closeListeners, Ready, Shutdown, CloseAMQP, Wait, Serve).               *)
THEOREM RunStops == AnySpec => []StopsWell
  BY Inits, Steps, RunInit, RunStep, RunStopsWell, PTL DEF AnySpec

(* Once run waits, no goroutine it waits for is stuck: one that still      *)
(* accepts has had its listener closed, however the shutdown and its own   *)
(* start interleaved, and nothing blocks one that reports an error or has  *)
(* not begun.  This is what the guards of NeverHangs come to (Shutdown,    *)
(* CloseAMQP, Serve, reportErr, Wait).                                     *)
THEOREM NobodyStuck == AnySpec => []NobodyIsStuck
  BY Inits, Steps, RunInit, RunStep, RunGoesOn, PTL DEF AnySpec

(* Every service's state is of its type, in any order of requests, writes  *)
(* that fail, and restarts: no queue has a hole, no secret is without a    *)
(* current version, no listener is open that run has not come to (TypesOK; *)
(* DeleteMessage, SetSecret, deleteVersion, run).                          *)
THEOREM TypesHold == AnySpec => []TypesOK
<1>1. /\ FileInv /\ Tables!TypeOK /\ SecretsOK /\ QueueInv /\ ListInv /\ KeyOK /\ RunOK
      => TypesOK
  BY FileTyped, SecretsSound, QueueSound, PagesHold, RunTyped DEF TypesOK
<1>2. AnyInit => /\ FileInv /\ Tables!TypeOK /\ SecretsOK /\ QueueInv /\ ListInv
                 /\ KeyOK /\ RunOK
  BY Inits, FileInit, TablesTypedInit, SecretsInit, QueueInit, ListInit, KeyInit, RunInit
<1>3. FileInv /\ [AnyNext]_allVars => FileInv'
  BY Steps, FileStep
<1>4. Tables!TypeOK /\ [AnyNext]_allVars => Tables!TypeOK'
  BY Steps, TablesTypedStep
<1>5. SecretsOK /\ [AnyNext]_allVars => SecretsOK'
  BY Steps, SecretsStep
<1>6. QueueInv /\ [AnyNext]_allVars => QueueInv'
  BY Steps, QueuesStep
<1>7. ListInv /\ [AnyNext]_allVars => ListInv'
  BY Steps, ListStep
<1>8. KeyOK /\ [AnyNext]_allVars => KeyOK'
  BY Steps, KeyStep
<1>9. RunOK /\ [AnyNext]_allVars => RunOK'
  BY Steps, RunStep
<1> QED
  BY <1>1, <1>2, <1>3, <1>4, <1>5, <1>6, <1>7, <1>8, <1>9, PTL DEF AnySpec

(* Memory and the snapshots agree, whatever writes have failed: a table's  *)
(* file is memory unless its last write failed; a message written stays    *)
(* until it is removed or expires, one whose removal was written is gone,  *)
(* and the last holder finds its message as it was handed out; a version   *)
(* of a secret is what it was set to (SnapshotsSound; persistLocked and    *)
(* load of each store).                                                    *)
THEOREM SnapshotsAgree == AnySpec => []SnapshotsSound
<1>1. AnyInit => SavedInv /\ SecretsOK /\ QueueInv
  BY Inits, SecretsInit, QueueInit DEF Tables!Init, SavedInv
<1>2. SavedInv /\ SecretsOK /\ QueueInv /\ [AnyNext]_allVars
      => SavedInv' /\ SecretsOK' /\ QueueInv'
  BY Steps, SavedStep, SecretsStep, QueuesStep
<1>3. SavedInv /\ SecretsOK /\ QueueInv => SnapshotsSound
  BY SecretsSound, QueueSound DEF SnapshotsSound, SavedInv, Tables!Saved
<1> QED
  BY <1>1, <1>2, <1>3, PTL DEF AnySpec

(* While a message is hidden, nobody else is handed it and no older        *)
(* receipt deletes or updates it, also after a restart or when writes of   *)
(* other requests failed (Exclusive; Dequeue, DeleteMessage,               *)
(* UpdateMessage).                                                         *)
THEOREM HandedToOne == AnySpec => Exclusive
<1>1. QueueInv /\ [Queues!Next]_Queues!vars =>
        [\A m \in Queues!Msg :
           /\ queueRequest = None /\ queueRequest' # None
           /\ holder[m] # Nobody /\ now < holder[m].visible
           /\ \/ \E h \in queueRequest'.handed : h.id = m
              \/ queueRequest'.removed = {m} /\ queueRequest'.by # Queues!NoReceipt
           => queueRequest'.by = holder[m].receipt]_Queues!vars
  BY ExclusiveStep DEF ExclusiveFor
<1> QED
  BY Inits, Steps, QueueInit, QueuesStep, <1>1, PTL DEF AnySpec, Exclusive, Queues!Exclusive

(* A list fetched page by page names everything that was there throughout, *)
(* nothing that never was, in order and once, whatever is put and deleted  *)
(* between its pages, and a marker is not given for an empty page (Pages;  *)
(* ListBlobs, ListContainers).                                             *)
THEOREM PagesJoin == AnySpec => []Pages
  BY Inits, Steps, ListInit, ListStep, PagesHold, PTL DEF AnySpec
=============================================================================
