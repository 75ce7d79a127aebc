--------------------------- MODULE BlobStoreProofs ---------------------------
(***************************************************************************)
(* Theorems about BlobStore: what was removed is gone, and what was written*)
(* is served as it was sent, for every set of containers, names, blocks and*)
(* bodies.                                                                 *)
(*                                                                         *)
(* The invariant behind both is FilesOK.  Between two files of a request   *)
(* the directory does not say what the history says; what bridges the two  *)
(* is what the request at hand still knows (BusyOK, UnlinkOK), and that    *)
(* nobody else's files are touched meanwhile (Keeps).                      *)
(***************************************************************************)
EXTENDS BlobStore, FiniteSetTheorems, SequenceTheorems, NaturalsInduction,
        WellFoundedInduction, TLAPS

-----------------------------------------------------------------------------
(* The inductive invariant.                                                *)

\* The request is between its data file and its metadata file.
Between(c, n) == At("meta") /\ busy.c = c /\ busy.n = n

\* What the request at hand knows.  An entry is removed behind its files.
BusyOK ==
  /\ busy \in Request \cup {Absent}
  /\ busy # Absent => up
  /\ At("container") => mem[busy.c] = Absent /\ disk[busy.c] = EmptyDir
  /\ busy # Absent /\ ~At("container") => mem[busy.c] # Absent
  /\ At("data") \/ At("meta") => busy.data = busy.sent /\ busy.info.length = Len(busy.data)
  /\ At("meta") => disk[busy.c].data[busy.n] = busy.data

UnlinkOK ==
  /\ At("unlink meta") /\ ~busy.error => disk[busy.c].data[busy.n] = Absent
  /\ At("unlink blocks") /\ ~busy.error =>
       disk[busy.c].data[busy.n] = Absent /\ disk[busy.c].meta[busy.n] = Absent
  /\ At("unlink meta") \/ At("unlink blocks") =>
       settled[busy.c] # Unsure /\ settled[busy.c][busy.n] = Unsure

\* A container, its directory and its index.
ContainerAt(c) ==
  /\ settled[c] = Absent => disk[c] \in {Absent, EmptyDir}
  /\ up /\ mem[c] = Absent => disk[c] \in {Absent, EmptyDir}
  /\ mem[c] # Absent => settled[c] # Absent
  /\ settled[c] # Absent => disk[c] # Absent

\* A blob that was removed, and one that was written.
RemovedAt(c, n) ==
  settled[c] \notin {Absent, Unsure} /\ settled[c][n] = Absent =>
    /\ disk[c].meta[n] = Absent
    /\ disk[c].data[n] = Absent \/ Between(c, n)

WrittenAt(c, n) ==
  settled[c] \notin {Absent, Unsure} /\ settled[c][n] \notin {Absent, Unsure} =>
    /\ settled[c][n].info.length = Len(settled[c][n].data)
    /\ disk[c].meta[n] = settled[c][n].info
    /\ disk[c].data[n] = settled[c][n].data \/ Between(c, n)
    /\ up => mem[c] # Absent /\ mem[c][n] = settled[c][n].info

FilesOK ==
  /\ TypeOK
  /\ BusyOK
  /\ UnlinkOK
  /\ \A c \in Container : ContainerAt(c)
  /\ \A c \in Container, n \in Name : RemovedAt(c, n) /\ WrittenAt(c, n)

-----------------------------------------------------------------------------
(* The shapes of requests and directories.                                 *)

\* A request at a container, at one of a write's files, at a block, at an unlink.
LEMMA RequestShape ==
  ASSUME busy \in Request \cup {Absent}, busy # Absent
  PROVE  /\ busy.c \in Container
         /\ busy.step \in {"container", "remove", "data", "meta", "consume", "block",
                          "unlink data", "unlink meta", "unlink blocks"}
         /\ busy.step \in {"data", "meta", "consume"} =>
              /\ busy \in [step : {"data", "meta", "consume"}, c : Container, n : Name,
                          data : Payload, sent : Payload, info : BlobInfo, consume : BOOLEAN]
              /\ busy.n \in Name /\ busy.data \in Payload /\ busy.sent \in Payload
              /\ busy.info \in BlobInfo
         /\ busy.step = "block" =>
              /\ busy \in [step : {"block"}, c : Container, n : Name, id : BlockID,
                          data : Payload]
              /\ busy.n \in Name /\ busy.id \in BlockID /\ busy.data \in Payload
         /\ busy.step \in {"unlink data", "unlink meta", "unlink blocks"} =>
              /\ busy \in [step : {"unlink data", "unlink meta", "unlink blocks"},
                          c : Container, n : Name, error : BOOLEAN]
              /\ busy.n \in Name /\ busy.error \in BOOLEAN
<1>1. CASE busy \in [step : {"container", "remove"}, c : Container]
  BY <1>1
<1>2. CASE busy \in [step : {"data", "meta", "consume"}, c : Container, n : Name,
                    data : Payload, sent : Payload, info : BlobInfo, consume : BOOLEAN]
  BY <1>2
<1>3. CASE busy \in [step : {"block"}, c : Container, n : Name, id : BlockID, data : Payload]
  BY <1>3
<1>4. CASE busy \in [step : {"unlink data", "unlink meta", "unlink blocks"}, c : Container,
                    n : Name, error : BOOLEAN]
  BY <1>4
<1> QED
  BY <1>1, <1>2, <1>3, <1>4 DEF Request

\* What replacing one file makes of a directory.
LEMMA FileReplaced ==
  ASSUME NEW d \in Directory, NEW n \in Name
  PROVE  /\ \A x \in Payload \cup {Absent} :
              LET e == [d EXCEPT !.data[n] = x] IN
              /\ e \in Directory /\ e.container = d.container /\ e.meta = d.meta
              /\ \A m \in Name : e.data[m] = IF m = n THEN x ELSE d.data[m]
         /\ \A x \in BlobInfo \cup {Absent} :
              LET e == [d EXCEPT !.meta[n] = x] IN
              /\ e \in Directory /\ e.container = d.container /\ e.data = d.data
              /\ \A m \in Name : e.meta[m] = IF m = n THEN x ELSE d.meta[m]
         /\ \A x \in [BlockID -> Payload \cup {Absent}] :
              LET e == [d EXCEPT !.blocks[n] = x] IN
              /\ e \in Directory /\ e.container = d.container
              /\ e.data = d.data /\ e.meta = d.meta
         /\ \A i \in BlockID, x \in Payload \cup {Absent} :
              LET e == [d EXCEPT !.blocks[n][i] = x] IN
              /\ e \in Directory /\ e.container = d.container
              /\ e.data = d.data /\ e.meta = d.meta
<1>1. /\ DOMAIN d = {"container", "data", "meta", "blocks"}
      /\ d.container \in BOOLEAN
      /\ d.data \in [Name -> Payload \cup {Absent}]
      /\ d.meta \in [Name -> BlobInfo \cup {Absent}]
      /\ d.blocks \in [Name -> [BlockID -> Payload \cup {Absent}]]
      /\ d = [container |-> d.container, data |-> d.data, meta |-> d.meta,
              blocks |-> d.blocks]
  BY DEF Directory, Index
<1>2. ASSUME NEW x \in Payload \cup {Absent}
      PROVE  LET e == [d EXCEPT !.data[n] = x] IN
             /\ e \in Directory /\ e.container = d.container /\ e.meta = d.meta
             /\ \A m \in Name : e.data[m] = IF m = n THEN x ELSE d.data[m]
  BY <1>1 DEF Directory, Index
<1>3. ASSUME NEW x \in BlobInfo \cup {Absent}
      PROVE  LET e == [d EXCEPT !.meta[n] = x] IN
             /\ e \in Directory /\ e.container = d.container /\ e.data = d.data
             /\ \A m \in Name : e.meta[m] = IF m = n THEN x ELSE d.meta[m]
  BY <1>1 DEF Directory, Index
<1>4. ASSUME NEW x \in [BlockID -> Payload \cup {Absent}]
      PROVE  LET e == [d EXCEPT !.blocks[n] = x] IN
             /\ e \in Directory /\ e.container = d.container
             /\ e.data = d.data /\ e.meta = d.meta
  BY <1>1 DEF Directory, Index
<1>5. ASSUME NEW i \in BlockID, NEW x \in Payload \cup {Absent}
      PROVE  LET e == [d EXCEPT !.blocks[n][i] = x] IN
             /\ e \in Directory /\ e.container = d.container
             /\ e.data = d.data /\ e.meta = d.meta
  BY <1>1 DEF Directory, Index
<1> QED
  BY <1>2, <1>3, <1>4, <1>5

LEMMA Marks ==
  /\ Absent # Unsure
  /\ \A x \in Payload : x # Absent
  /\ \A x \in BlobInfo : x # Absent
  /\ \A x \in Index : x # Absent
  /\ \A x \in Directory : x # Absent
  /\ \A x \in Request : x # Absent
  /\ \A x \in [info : BlobInfo, data : Payload] : x # Absent /\ x # Unsure
  /\ \A x \in [Name -> Outcome] : x # Absent /\ x # Unsure
  /\ EmptyDir \in Directory
  /\ NoFiles \in Index
  /\ NoFiles \in [Name -> Payload \cup {Absent}]
  /\ NoFiles \in [Name -> Outcome]
<1>1. /\ NoFiles \in Index
      /\ NoFiles \in [Name -> Payload \cup {Absent}]
      /\ NoFiles \in [Name -> Outcome]
      /\ NoBlocks \in [Name -> [BlockID -> Payload \cup {Absent}]]
  BY DEF NoFiles, NoBlocks, Index, Outcome
<1>2. EmptyDir \in Directory
  BY <1>1 DEF EmptyDir, Directory
<1> QED
  BY <1>1, <1>2, BlobStoreAssumption

-----------------------------------------------------------------------------
(* What a step leaves alone.                                               *)

\* What is known of a blob before the step still holds after it.
Keeps(c, n) ==
  settled'[c] \notin {Absent, Unsure} /\ settled'[c][n] # Unsure =>
    /\ settled[c] \notin {Absent, Unsure}
    /\ settled'[c][n] = settled[c][n]
    /\ disk'[c].meta[n] = disk[c].meta[n]
    /\ Between(c, n)' \/ (~Between(c, n) /\ disk'[c].data[n] = disk[c].data[n])
    /\ up' => /\ up
              /\ mem[c] # Absent /\ mem[c][n] # Absent =>
                   mem'[c] # Absent /\ mem'[c][n] = mem[c][n]

LEMMA BlobKept ==
  ASSUME NEW c \in Container, NEW n \in Name, TypeOK, Keeps(c, n), RemovedAt(c, n),
         WrittenAt(c, n)
  PROVE  RemovedAt(c, n)' /\ WrittenAt(c, n)'
<1>1. CASE settled'[c] \in {Absent, Unsure}
  BY <1>1 DEF RemovedAt, WrittenAt
<1>2. CASE settled'[c] \notin {Absent, Unsure} /\ settled'[c][n] = Unsure
  BY <1>2, Marks DEF RemovedAt, WrittenAt
<1>3. CASE settled'[c] \notin {Absent, Unsure} /\ settled'[c][n] # Unsure
  <2>1. /\ settled[c] \notin {Absent, Unsure}
        /\ settled'[c][n] = settled[c][n]
        /\ disk'[c].meta[n] = disk[c].meta[n]
        /\ Between(c, n)' \/ (~Between(c, n) /\ disk'[c].data[n] = disk[c].data[n])
        /\ up' => /\ up
                  /\ mem[c] # Absent /\ mem[c][n] # Absent =>
                       mem'[c] # Absent /\ mem'[c][n] = mem[c][n]
    BY <1>3 DEF Keeps
  <2>2. settled[c][n] # Absent => settled[c][n] \in [info : BlobInfo, data : Payload]
    BY <1>3, <2>1 DEF TypeOK, Outcome
  <2>3. RemovedAt(c, n)'
    BY <2>1 DEF RemovedAt
  <2>4. settled[c][n] # Absent => settled[c][n].info # Absent
    BY <2>2, Marks
  <2> QED
    BY <1>3, <2>1, <2>3, <2>4 DEF WrittenAt
<1> QED
  BY <1>1, <1>2, <1>3

\* A request that has taken the lock and not touched a file.
LEMMA Started ==
  ASSUME FilesOK, Unlocked, UNCHANGED <<mem, disk, up, settled>>, busy' \in Request,
         busy'.step \in {"remove", "data", "unlink data"}, mem[busy'.c] # Absent,
         busy'.step = "data" => busy'.data = busy'.sent /\ busy'.info.length = Len(busy'.data)
  PROVE  FilesOK'
<1>0. up'
  BY DEF Unlocked
<1>1. /\ TypeOK
      /\ mem' = mem /\ disk' = disk /\ up' = up /\ settled' = settled
      /\ up
      /\ busy = Absent
  BY DEF FilesOK, Unlocked
<1>2. TypeOK'
  BY <1>1 DEF TypeOK
<1>3. BusyOK'
  <2>1. busy'.step # "container" /\ busy'.step # "meta"
    OBVIOUS
  <2>2. mem'[busy'.c] # Absent
    BY <1>1
  <2> QED
    BY <1>0, <2>1, <2>2 DEF BusyOK, At
<1>4. UnlinkOK'
  BY <1>1 DEF UnlinkOK, At
<1>5. \A c \in Container : ContainerAt(c)'
  BY <1>1 DEF FilesOK, ContainerAt
<1>6. ASSUME NEW c \in Container, NEW n \in Name
      PROVE  RemovedAt(c, n)' /\ WrittenAt(c, n)'
  <2>1. Keeps(c, n)
    BY <1>1 DEF Keeps, Between, At
  <2> QED
    BY <1>1, <2>1, BlobKept DEF FilesOK
<1> QED
  BY <1>2, <1>3, <1>4, <1>5, <1>6 DEF FilesOK

-----------------------------------------------------------------------------
(* Taking the lock.                                                        *)

LEMMA LimitReaderPayload ==
  ASSUME NEW body \in Body
  PROVE  LimitReader(body) \in Payload
<1> DEFINE k == IF Len(body) < maxBlobBytes THEN Len(body) ELSE maxBlobBytes
<1>1. body \in Seq(Nat) /\ maxBlobBytes \in Nat
  BY BlobStoreAssumption DEF Payload
<1>2. Len(body) \in Nat
  BY <1>1
<1>3. k \in Int /\ \A i \in 1..k : i \in 1..Len(body)
  BY <1>1, <1>2
<1>4. \A i \in 1..Len(body) : body[i] \in Nat
  BY <1>1, ElementOfSeq
<1> HIDE DEF k
<1>5. SubSeq(body, 1, k) \in Seq(Nat)
  BY <1>3, <1>4, SubSeqProperties
<1> QED
  BY <1>5 DEF LimitReader, Payload, k

LEMMA CreateContainerStep ==
  ASSUME FilesOK, NEW k \in Container, CreateContainer(k)
  PROVE  FilesOK'
<1>0. up /\ up'
  BY DEF CreateContainer, Unlocked
<1>1. /\ TypeOK
      /\ mem' = mem /\ up' = up /\ settled' = settled
      /\ busy = Absent
      /\ mem[k] = Absent
      /\ disk' = [disk EXCEPT ![k] = IF @ = Absent THEN EmptyDir ELSE @]
      /\ busy' = [step |-> "container", c |-> k]
  BY DEF CreateContainer, Unlocked, FilesOK
<1>2. disk[k] \in {Absent, EmptyDir}
  BY <1>0, <1>1 DEF FilesOK, ContainerAt
<1>3. disk'[k] = EmptyDir /\ \A c \in Container : c # k => disk'[c] = disk[c]
  BY <1>1, <1>2 DEF TypeOK
<1>4. disk' \in [Container -> Directory \cup {Absent}]
  BY <1>1, <1>2, Marks DEF TypeOK
<1>5. TypeOK'
  BY <1>1, <1>3, <1>4, Marks DEF TypeOK
<1>6. busy' \in Request /\ busy'.step = "container" /\ busy'.c = k
  BY <1>1 DEF Request
<1>7. BusyOK'
  BY <1>0, <1>1, <1>3, <1>6 DEF BusyOK, At
<1>8. UnlinkOK'
  BY <1>6 DEF UnlinkOK, At
<1>9. \A c \in Container : ContainerAt(c)'
  BY <1>0, <1>1, <1>3, Marks DEF FilesOK, ContainerAt
<1>10. ASSUME NEW c \in Container, NEW n \in Name
       PROVE  RemovedAt(c, n)' /\ WrittenAt(c, n)'
  <2>1. settled[c] \notin {Absent, Unsure} => disk[c] # Absent
    BY DEF FilesOK, ContainerAt
  <2>2. settled[c] \notin {Absent, Unsure} => disk'[c] = disk[c]
    BY <1>1, <1>2, <1>3, <2>1
  <2>3. Keeps(c, n)
    BY <1>1, <2>2, <1>0 DEF Keeps, Between, At
  <2> QED
    BY <1>1, <2>3, BlobKept DEF FilesOK
<1> QED
  BY <1>5, <1>7, <1>8, <1>9, <1>10 DEF FilesOK

LEMMA DeleteContainerStep ==
  ASSUME FilesOK, NEW k \in Container, DeleteContainer(k)
  PROVE  FilesOK'
<1>1. /\ Unlocked /\ UNCHANGED <<mem, disk, up, settled>>
      /\ mem[k] # Absent /\ busy' = [step |-> "remove", c |-> k]
  BY DEF DeleteContainer, lookupContainer
<1>2. busy' \in Request /\ busy'.step = "remove" /\ busy'.c = k
  BY <1>1 DEF Request
<1> QED
  BY <1>1, <1>2, Started

LEMMA DeleteBlobStep ==
  ASSUME FilesOK, NEW k \in Container, NEW b \in Name, DeleteBlob(k, b)
  PROVE  FilesOK'
<1>1. /\ Unlocked /\ UNCHANGED <<mem, disk, up, settled>>
      /\ mem[k] # Absent
      /\ busy' = [step |-> "unlink data", c |-> k, n |-> b, error |-> FALSE]
  BY DEF DeleteBlob, lookupContainer
<1>2. busy' \in Request /\ busy'.step = "unlink data" /\ busy'.c = k
  BY <1>1 DEF Request
<1> QED
  BY <1>1, <1>2, Started

LEMMA WritingStarts ==
  ASSUME FilesOK, NEW k \in Container, NEW b \in Name, NEW data \in Payload, NEW md5, NEW props,
         NEW consume \in BOOLEAN, md5 \in Payload \cup {Absent}, props \in Props,
         lookupContainer(k), UNCHANGED <<mem, disk, up, settled>>,
         busy' = Writing(k, b, data, data, Info(Len(data), md5, props), consume)
  PROVE  FilesOK'
<1>1. Unlocked /\ mem[k] # Absent
  BY DEF lookupContainer
<1>2. Len(data) \in Nat
  BY DEF Payload
<1>3. /\ Info(Len(data), md5, props) \in BlobInfo
      /\ Info(Len(data), md5, props).length = Len(data)
  BY <1>2 DEF Info, BlobInfo
<1>4. /\ busy' \in Request /\ busy'.step = "data" /\ busy'.c = k /\ busy'.data = data
      /\ busy'.sent = data /\ busy'.info = Info(Len(data), md5, props)
  BY <1>3 DEF Request, Writing
<1> QED
  BY <1>1, <1>3, <1>4, Started

LEMMA PutBlobStep ==
  ASSUME FilesOK, NEW k \in Container, NEW b \in Name, NEW body \in Body, NEW props \in Props,
         PutBlob(k, b, body, props)
  PROVE  FilesOK'
<1> DEFINE data == LimitReader(body)
<1>1. data \in Payload
  BY LimitReaderPayload
<1>2. /\ lookupContainer(k) /\ UNCHANGED <<mem, disk, up, settled>>
      /\ busy' = Writing(k, b, data, data, Info(Len(data), data, props), FALSE)
  BY DEF PutBlob
<1> HIDE DEF data
<1> QED
  BY <1>1, <1>2, WritingStarts

LEMMA StageBlockStep ==
  ASSUME FilesOK, NEW k \in Container, NEW b \in Name, NEW id \in BlockID, NEW body \in Body,
         StageBlock(k, b, id, body)
  PROVE  FilesOK'
<1> DEFINE data == LimitReader(body)
<1>0. up /\ up'
  BY DEF StageBlock, lookupContainer, Unlocked
<1>1. /\ TypeOK
      /\ disk' = disk /\ up' = up /\ settled' = settled
      /\ busy = Absent
      /\ mem[k] # Absent
      /\ mem' = [mem EXCEPT ![k][b] = IF @ = Absent THEN Placeholder ELSE @]
      /\ busy' = [step |-> "block", c |-> k, n |-> b, id |-> id, data |-> data]
  BY DEF StageBlock, lookupContainer, Unlocked, FilesOK
<1>2. data \in Payload
  BY LimitReaderPayload
<1> HIDE DEF data
<1>3. mem \in [Container -> Index \cup {Absent}] /\ mem[k] \in [Name -> BlobInfo \cup {Absent}]
  BY <1>1 DEF TypeOK, Index
<1>4. Placeholder \in BlobInfo
  BY DEF Placeholder, Info, BlobInfo
<1>5. /\ mem' \in [Container -> Index \cup {Absent}]
      /\ mem'[k] \in Index
      /\ \A n \in Name : mem[k][n] # Absent => mem'[k][n] = mem[k][n]
      /\ \A c \in Container : c # k => mem'[c] = mem[c]
  BY <1>1, <1>3, <1>4 DEF Index
<1>6. mem'[k] # Absent
  BY <1>5, Marks
<1>7. TypeOK'
  BY <1>1, <1>5 DEF TypeOK
<1>8. busy' \in Request /\ busy'.step = "block" /\ busy'.c = k
  BY <1>1, <1>2 DEF Request
<1>9. BusyOK'
  BY <1>0, <1>6, <1>8 DEF BusyOK, At
<1>10. UnlinkOK'
  BY <1>8 DEF UnlinkOK, At
<1>11. \A c \in Container : ContainerAt(c)'
  BY <1>0, <1>1, <1>5, <1>6 DEF FilesOK, ContainerAt
<1>12. ASSUME NEW c \in Container, NEW n \in Name
       PROVE  RemovedAt(c, n)' /\ WrittenAt(c, n)'
  <2>1. Keeps(c, n)
    BY <1>0, <1>1, <1>5, <1>6 DEF Keeps, Between, At
  <2> QED
    BY <1>1, <2>1, BlobKept DEF FilesOK
<1> QED
  BY <1>7, <1>9, <1>10, <1>11, <1>12 DEF FilesOK

-----------------------------------------------------------------------------
(* The files of a request.                                                 *)

LEMMA Holding ==
  ASSUME FilesOK, busy # Absent
  PROVE  /\ TypeOK
         /\ up
         /\ busy \in Request
         /\ busy.c \in Container
         /\ ~At("container") =>
              /\ mem[busy.c] \in Index /\ mem[busy.c] # Absent
              /\ disk[busy.c] \in Directory /\ disk[busy.c] # Absent
              /\ settled[busy.c] # Absent
<1>1. TypeOK /\ busy \in Request
  BY DEF FilesOK, BusyOK
<1>2. busy.c \in Container
  BY <1>1, RequestShape
<1>3. up
  BY DEF FilesOK, BusyOK
<1>4. ASSUME ~At("container")
      PROVE  /\ mem[busy.c] \in Index /\ mem[busy.c] # Absent
             /\ disk[busy.c] \in Directory /\ disk[busy.c] # Absent
             /\ settled[busy.c] # Absent
  <2>1. mem[busy.c] # Absent
    BY <1>4 DEF FilesOK, BusyOK
  <2> QED
    BY <1>1, <1>2, <2>1 DEF FilesOK, TypeOK, ContainerAt
<1> QED
  BY <1>1, <1>2, <1>3, <1>4

LEMMA Settles ==
  ASSUME TypeOK, NEW k \in Container, NEW b \in Name, NEW o \in Outcome,
         settled[k] # Absent, Settle(k, b, o)
  PROVE  /\ settled' \in [Container -> [Name -> Outcome] \cup {Absent, Unsure}]
         /\ settled'[k] \notin {Absent, Unsure}
         /\ settled'[k][b] = o
         /\ \A m \in Name : m # b => \/ settled'[k][m] = Unsure
                                     \/ /\ settled[k] \notin {Absent, Unsure}
                                        /\ settled'[k][m] = settled[k][m]
         /\ \A c \in Container : c # k => settled'[c] = settled[c]
<1> DEFINE new == [m \in Name |-> IF m = b THEN o
                                  ELSE IF settled[k] = Unsure THEN Unsure ELSE settled[k][m]]
<1>1. settled' = [settled EXCEPT ![k] = new]
  BY DEF Settle
<1>2. settled \in [Container -> [Name -> Outcome] \cup {Absent, Unsure}]
  BY DEF TypeOK
<1>3. settled[k] # Unsure => settled[k] \in [Name -> Outcome]
  BY <1>2
<1>4. new \in [Name -> Outcome]
  BY <1>3 DEF Outcome
<1>5. /\ new[b] = o
      /\ \A m \in Name : m # b => new[m] = IF settled[k] = Unsure THEN Unsure ELSE settled[k][m]
  OBVIOUS
<1> HIDE DEF new
<1>6. new \notin {Absent, Unsure}
  BY <1>4, Marks
<1> QED
  BY <1>1, <1>2, <1>4, <1>5, <1>6

\* The lock is released, and no file but blocks has changed.
LEMMA Released ==
  ASSUME FilesOK, busy # Absent, ~At("meta"), busy' = Absent, UNCHANGED <<mem, up, settled>>,
         \/ disk' = disk
         \/ /\ ~At("container")
            /\ \E e \in Directory : /\ e.data = disk[busy.c].data /\ e.meta = disk[busy.c].meta
                                    /\ disk' = [disk EXCEPT ![busy.c] = e]
  PROVE  FilesOK'
<1> DEFINE k == busy.c
<1>1. TypeOK /\ up /\ k \in Container
  BY Holding
<1>2. up'
  BY <1>1
<1>3. mem' = mem /\ settled' = settled
  OBVIOUS
<1>4. BusyOK' /\ UnlinkOK'
  BY DEF BusyOK, UnlinkOK, At
<1>5. /\ disk' \in [Container -> Directory \cup {Absent}]
      /\ \A c \in Container :
           \/ disk'[c] = disk[c]
           \/ /\ disk'[c] # Absent
              /\ disk'[c].data = disk[c].data
              /\ disk'[c].meta = disk[c].meta
              /\ mem[c] # Absent
              /\ settled[c] # Absent
  <2>1. CASE disk' = disk
    BY <1>1, <2>1 DEF TypeOK
  <2>2. ASSUME ~At("container"),
               NEW e \in Directory, e.data = disk[k].data, e.meta = disk[k].meta,
               disk' = [disk EXCEPT ![k] = e]
        PROVE  <1>5
    <3>1. e # Absent
      BY Marks
    <3>2. mem[k] # Absent /\ disk[k] # Absent /\ settled[k] # Absent
      BY <2>2, Holding
    <3>3. disk \in [Container -> Directory \cup {Absent}]
      BY <1>1 DEF TypeOK
    <3>4. disk'[k] = e /\ \A c \in Container : c # k => disk'[c] = disk[c]
      BY <1>1, <2>2, <3>3
    <3>5. disk' \in [Container -> Directory \cup {Absent}]
      BY <1>1, <2>2, <3>3
    <3> QED
      BY <2>2, <3>1, <3>2, <3>4, <3>5
  <2> QED
    BY <2>1, <2>2
<1>6. TypeOK'
  <2>1. \A c \in Container : mem[c] # Absent => disk'[c] # Absent
    BY <1>1, <1>5 DEF TypeOK
  <2> QED
    BY <1>1, <1>2, <1>3, <1>5, <2>1 DEF TypeOK
<1>7. \A c \in Container : ContainerAt(c)'
  <2> SUFFICES ASSUME NEW c \in Container PROVE ContainerAt(c)'
    OBVIOUS
  <2>1. ContainerAt(c)
    BY DEF FilesOK
  <2> QED
    BY <1>1, <1>2, <1>3, <1>5, <2>1 DEF ContainerAt
<1>8. ASSUME NEW c \in Container, NEW n \in Name
      PROVE  RemovedAt(c, n)' /\ WrittenAt(c, n)'
  <2>1. disk'[c].meta = disk[c].meta /\ disk'[c].data = disk[c].data
    BY <1>5
  <2>2. ~Between(c, n)
    BY DEF Between
  <2>3. Keeps(c, n)
    BY <1>1, <1>3, <2>1, <2>2 DEF Keeps
  <2> QED
    BY <1>1, <2>3, BlobKept DEF FilesOK
<1> QED
  BY <1>4, <1>6, <1>7, <1>8 DEF FilesOK

LEMMA persistContainerStep ==
  ASSUME FilesOK, persistContainer
  PROVE  FilesOK'
<1> DEFINE k == busy.c
<1>0. /\ At("container") /\ busy # Absent /\ busy.step = "container"
      /\ busy' = Absent
  BY DEF persistContainer, At, Release
<1>1. TypeOK /\ up /\ k \in Container
  BY <1>0, Holding
<1>2. mem[k] = Absent /\ disk[k] = EmptyDir
  BY <1>0 DEF FilesOK, BusyOK
<1>3. up'
  BY <1>1 DEF persistContainer
<1>4. BusyOK' /\ UnlinkOK'
  BY <1>0 DEF BusyOK, UnlinkOK, At
<1>5. CASE UNCHANGED <<mem, disk, settled>>
  <2>1. ~At("meta") /\ UNCHANGED <<mem, up, settled>> /\ disk' = disk
    BY <1>0, <1>5 DEF At, persistContainer
  <2> QED
    BY <1>0, <2>1, Released
<1>6. CASE /\ disk' = [disk EXCEPT ![busy.c].container = TRUE]
           /\ mem' = [mem EXCEPT ![busy.c] = NoFiles]
           /\ settled' = [settled EXCEPT ![busy.c] = NoFiles]
  <2>1. EmptyDir \in Directory /\ NoFiles \in Index /\ NoFiles \in [Name -> Outcome]
    BY Marks
  <2> DEFINE new == [EmptyDir EXCEPT !.container = TRUE]
  <2>2. new \in Directory /\ new.data = NoFiles /\ new.meta = NoFiles
    BY <2>1 DEF EmptyDir, Directory
  <2>3. disk' = [disk EXCEPT ![k] = new]
    BY <1>2, <1>6
  <2> HIDE DEF new
  <2>4. /\ disk'[k] = new /\ mem'[k] = NoFiles /\ settled'[k] = NoFiles
        /\ \A c \in Container : c # k => /\ disk'[c] = disk[c] /\ mem'[c] = mem[c]
                                         /\ settled'[c] = settled[c]
    BY <1>1, <1>6, <2>3 DEF TypeOK
  <2>5. NoFiles # Absent /\ NoFiles # Unsure /\ new # Absent
    BY <2>1, <2>2, Marks
  <2>6. TypeOK'
    <3>1. /\ disk' \in [Container -> Directory \cup {Absent}]
          /\ mem' \in [Container -> Index \cup {Absent}]
          /\ settled' \in [Container -> [Name -> Outcome] \cup {Absent, Unsure}]
      BY <1>1, <1>6, <2>1, <2>2, <2>3 DEF TypeOK
    <3>2. \A c \in Container : mem'[c] # Absent => disk'[c] # Absent
      BY <1>1, <2>4, <2>5 DEF TypeOK
    <3> QED
      BY <1>3, <3>1, <3>2 DEF TypeOK
  <2>7. \A c \in Container : ContainerAt(c)'
    BY <1>1, <2>4, <2>5 DEF FilesOK, ContainerAt
  <2>8. ASSUME NEW c \in Container, NEW n \in Name
        PROVE  RemovedAt(c, n)' /\ WrittenAt(c, n)'
    <3>1. CASE c = k
      <4>1. NoFiles[n] = Absent
        BY DEF NoFiles
      <4> QED
        BY <3>1, <4>1, <2>2, <2>4 DEF RemovedAt, WrittenAt
    <3>2. CASE c # k
      <4>1. Keeps(c, n)
        BY <1>1, <1>0, <2>4, <3>2 DEF Keeps, Between, At
      <4> QED
        BY <1>1, <4>1, BlobKept DEF FilesOK
    <3> QED
      BY <3>1, <3>2
  <2> QED
    BY <1>4, <2>6, <2>7, <2>8 DEF FilesOK
<1> QED
  BY <1>5, <1>6 DEF persistContainer

LEMMA RemoveEntryStep ==
  ASSUME FilesOK, RemoveEntry
  PROVE  FilesOK'
<1> DEFINE k == busy.c
<1>0. /\ At("remove") /\ busy # Absent /\ busy.step = "remove" /\ ~At("container")
      /\ mem' = mem /\ up' = up /\ busy' = busy
      /\ settled' = [settled EXCEPT ![k] = Unsure]
  BY DEF RemoveEntry, At
<1>1. /\ TypeOK /\ up /\ k \in Container /\ busy \in Request
      /\ mem[k] # Absent /\ disk[k] \in Directory
  BY <1>0, Holding
<1>2. up'
  BY <1>1 DEF RemoveEntry
<1>3. PICK e \in Directory : disk' = [disk EXCEPT ![k] = e]
  <2> DEFINE d == disk[k]
  <2>1. [d EXCEPT !.container = FALSE] \in Directory
    BY <1>1 DEF Directory
  <2>2. \A n \in Name : [d EXCEPT !.data[n] = Absent] \in Directory
    BY <1>1, FileReplaced
  <2>3. \A n \in Name : [d EXCEPT !.meta[n] = Absent] \in Directory
    BY <1>1, FileReplaced
  <2>4. \A n \in Name, i \in BlockID : [d EXCEPT !.blocks[n][i] = Absent] \in Directory
    BY <1>1, FileReplaced
  <2> DEFINE blocksTorn == {[d EXCEPT !.blocks[n][i] = Absent] : n \in Name, i \in BlockID}
             torn == {[d EXCEPT !.container = FALSE]}
                       \cup {[d EXCEPT !.data[n] = Absent] : n \in Name}
                       \cup {[d EXCEPT !.meta[n] = Absent] : n \in Name}
                       \cup blocksTorn
  <2>5. disk' \in {[disk EXCEPT ![k] = e] : e \in torn}
    BY DEF RemoveEntry
  <2> HIDE DEF d
  <2>6. \A e \in torn : e \in Directory
    <3>1. \A e \in blocksTorn : e \in Directory
      BY <2>4
    <3> HIDE DEF blocksTorn
    <3> QED
      BY <2>1, <2>2, <2>3, <3>1
  <2> HIDE DEF torn
  <2> QED
    BY <2>5, <2>6
<1>4. /\ disk'[k] = e /\ settled'[k] = Unsure
      /\ \A c \in Container : c # k => disk'[c] = disk[c] /\ settled'[c] = settled[c]
  BY <1>0, <1>1, <1>3 DEF TypeOK
<1>5. e # Absent /\ Absent # Unsure
  BY Marks
<1>6. TypeOK'
  <2>1. /\ disk' \in [Container -> Directory \cup {Absent}]
        /\ settled' \in [Container -> [Name -> Outcome] \cup {Absent, Unsure}]
    BY <1>0, <1>1, <1>3 DEF TypeOK
  <2>2. \A c \in Container : mem[c] # Absent => disk'[c] # Absent
    BY <1>1, <1>4, <1>5 DEF TypeOK
  <2> QED
    BY <1>0, <1>1, <2>1, <2>2 DEF TypeOK
<1>7. BusyOK'
  BY <1>0, <1>1, <1>2 DEF BusyOK, At
<1>8. UnlinkOK'
  BY <1>0 DEF UnlinkOK, At
<1>9. \A c \in Container : ContainerAt(c)'
  BY <1>0, <1>1, <1>4, <1>5 DEF FilesOK, ContainerAt
<1>10. ASSUME NEW c \in Container, NEW n \in Name
       PROVE  RemovedAt(c, n)' /\ WrittenAt(c, n)'
  <2>1. Keeps(c, n)
    BY <1>0, <1>1, <1>4 DEF Keeps, Between, At
  <2> QED
    BY <1>1, <2>1, BlobKept DEF FilesOK
<1> QED
  BY <1>6, <1>7, <1>8, <1>9, <1>10 DEF FilesOK

LEMMA RemoveAllStep ==
  ASSUME FilesOK, RemoveAll
  PROVE  FilesOK'
<1> DEFINE k == busy.c
<1>0. /\ At("remove") /\ busy # Absent /\ busy.step = "remove" /\ ~At("container")
      /\ ~At("meta") /\ busy' = Absent /\ up' = up
  BY DEF RemoveAll, At, Release
<1>1. TypeOK /\ up /\ k \in Container
  BY <1>0, Holding
<1>2. CASE UNCHANGED <<mem, disk, settled>>
  <2>1. UNCHANGED <<mem, up, settled>> /\ disk' = disk
    BY <1>0, <1>2
  <2> QED
    BY <1>0, <2>1, Released
<1>3. CASE /\ disk' = [disk EXCEPT ![busy.c] = Absent]
           /\ mem' = [mem EXCEPT ![busy.c] = Absent]
           /\ settled' = [settled EXCEPT ![busy.c] = Absent]
  <2>1. /\ disk'[k] = Absent /\ mem'[k] = Absent /\ settled'[k] = Absent
        /\ \A c \in Container : c # k => /\ disk'[c] = disk[c] /\ mem'[c] = mem[c]
                                         /\ settled'[c] = settled[c]
    BY <1>1, <1>3 DEF TypeOK
  <2>2. TypeOK'
    <3>1. /\ disk' \in [Container -> Directory \cup {Absent}]
          /\ mem' \in [Container -> Index \cup {Absent}]
          /\ settled' \in [Container -> [Name -> Outcome] \cup {Absent, Unsure}]
      BY <1>1, <1>3 DEF TypeOK
    <3>2. \A c \in Container : mem'[c] # Absent => disk'[c] # Absent
      BY <1>1, <2>1 DEF TypeOK
    <3> QED
      BY <1>0, <1>1, <3>1, <3>2 DEF TypeOK
  <2>3. BusyOK' /\ UnlinkOK'
    BY <1>0 DEF BusyOK, UnlinkOK, At
  <2>4. \A c \in Container : ContainerAt(c)'
    BY <1>0, <1>1, <2>1 DEF FilesOK, ContainerAt
  <2>5. ASSUME NEW c \in Container, NEW n \in Name
        PROVE  RemovedAt(c, n)' /\ WrittenAt(c, n)'
    <3>1. Keeps(c, n)
      BY <1>0, <1>1, <2>1 DEF Keeps, Between, At
    <3> QED
      BY <1>1, <3>1, BlobKept DEF FilesOK
  <2> QED
    BY <2>2, <2>3, <2>4, <2>5 DEF FilesOK
<1> QED
  BY <1>2, <1>3 DEF RemoveAll

LEMMA streamBlockStep ==
  ASSUME FilesOK, streamBlock
  PROVE  FilesOK'
<1> DEFINE k == busy.c
<1>0. /\ busy # Absent /\ busy.step = "block" /\ ~At("container")
      /\ ~At("meta") /\ busy' = Absent /\ UNCHANGED <<mem, up, settled>>
  BY DEF streamBlock, At, Release
<1>1. /\ busy \in Request /\ k \in Container
      /\ disk[k] \in Directory
  BY <1>0, Holding
<1>2. busy.n \in Name /\ busy.id \in BlockID /\ busy.data \in Payload
  BY <1>0, <1>1, RequestShape
<1> DEFINE e == [disk[k] EXCEPT !.blocks[busy.n][busy.id] = busy.data]
<1>3. e \in Directory /\ e.data = disk[k].data /\ e.meta = disk[k].meta
  BY <1>1, <1>2, FileReplaced
<1>4. disk' = disk \/ disk' = [disk EXCEPT ![k] = e]
  BY DEF streamBlock
<1> HIDE DEF e
<1> QED
  BY <1>0, <1>3, <1>4, Released

(* Whatever RemoveAll leaves of a block directory, the other files stay.   *)
LEMMA BlocksGone ==
  ASSUME NEW k \in Container, NEW b \in Name, disk[k] \in Directory,
         disk' \in BlocksRemoved(k, b)
  PROVE  \E e \in Directory : /\ disk' = [disk EXCEPT ![k] = e]
                             /\ e.data = disk[k].data /\ e.meta = disk[k].meta
<1> DEFINE old == disk[k].blocks[b]
           left(gone) == [i \in BlockID |-> IF i \in gone THEN Absent ELSE old[i]]
           e(gone) == [disk[k] EXCEPT !.blocks[b] = left(gone)]
<1>1. old \in [BlockID -> Payload \cup {Absent}]
  BY DEF Directory
<1>2. ASSUME NEW gone \in SUBSET BlockID
      PROVE  /\ e(gone) \in Directory
             /\ e(gone).data = disk[k].data /\ e(gone).meta = disk[k].meta
  <2>1. left(gone) \in [BlockID -> Payload \cup {Absent}]
    BY <1>1
  <2> HIDE DEF left
  <2> QED
    BY <2>1, FileReplaced
<1>3. PICK gone \in SUBSET BlockID : disk' = [disk EXCEPT ![k] = e(gone)]
  BY DEF BlocksRemoved
<1> QED
  BY <1>2, <1>3

LEMMA consumeBlocksStep ==
  ASSUME FilesOK, consumeBlocks
  PROVE  FilesOK'
<1> DEFINE k == busy.c
<1>0. /\ busy # Absent /\ busy.step = "consume" /\ ~At("container")
      /\ ~At("meta") /\ busy' = Absent /\ UNCHANGED <<mem, up, settled>>
  BY DEF consumeBlocks, At, Release
<1>1. /\ busy \in Request /\ k \in Container
      /\ disk[k] \in Directory
  BY <1>0, Holding
<1>2. busy.n \in Name
  BY <1>0, <1>1, RequestShape
<1>3. PICK e \in Directory : /\ disk' = [disk EXCEPT ![k] = e]
                            /\ e.data = disk[k].data /\ e.meta = disk[k].meta
  BY <1>1, <1>2, BlocksGone DEF consumeBlocks
<1>4. disk' = disk \/ disk' = [disk EXCEPT ![k] = e]
  BY <1>3
<1> QED
  BY <1>0, <1>3, <1>4, Released

LEMMA streamToFileStep ==
  ASSUME FilesOK, streamToFile
  PROVE  FilesOK'
<1> DEFINE k == busy.c
           b == busy.n
           e == [disk[k] EXCEPT !.data[b] = busy.data]
<1>0. /\ busy # Absent /\ busy.step = "data" /\ ~At("container") /\ ~At("meta")
      /\ mem' = mem /\ up' = up /\ settled' = settled
  BY DEF streamToFile, At
<1>1. /\ TypeOK /\ up /\ busy \in Request /\ k \in Container
      /\ disk[k] \in Directory /\ mem[k] # Absent /\ settled[k] # Absent
  BY <1>0, Holding
<1>2. /\ b \in Name /\ busy.data \in Payload
      /\ busy \in [step : {"data", "meta", "consume"}, c : Container, n : Name,
                   data : Payload, sent : Payload, info : BlobInfo, consume : BOOLEAN]
  BY <1>0, <1>1, RequestShape
<1>3. CASE busy' = Absent /\ disk' = disk
  BY <1>0, <1>3, Released
<1>4. CASE /\ disk' = [disk EXCEPT ![busy.c].data[busy.n] = busy.data]
           /\ busy' = [busy EXCEPT !.step = "meta"]
  <2>0. up'
    BY <1>1 DEF streamToFile
  <2>1. /\ e \in Directory /\ e.meta = disk[k].meta
        /\ \A m \in Name : e.data[m] = IF m = b THEN busy.data ELSE disk[k].data[m]
    BY <1>1, <1>2, FileReplaced
  <2>2. disk' = [disk EXCEPT ![k] = e]
    BY <1>4
  <2> HIDE DEF e
  <2>3. disk'[k] = e /\ \A c \in Container : c # k => disk'[c] = disk[c]
    BY <1>1, <2>2 DEF TypeOK
  <2>4. e # Absent
    BY <2>1, Marks
  <2>5. TypeOK'
    <3>1. disk' \in [Container -> Directory \cup {Absent}]
      BY <1>1, <2>1, <2>2 DEF TypeOK
    <3>2. \A c \in Container : mem[c] # Absent => disk'[c] # Absent
      BY <1>1, <2>3, <2>4 DEF TypeOK
    <3> QED
      BY <1>0, <1>1, <3>1, <3>2 DEF TypeOK
  <2>6. /\ busy' \in Request /\ busy'.step = "meta" /\ busy'.c = k /\ busy'.n = b
        /\ busy'.data = busy.data /\ busy'.sent = busy.sent /\ busy'.info = busy.info
    BY <1>2, <1>4 DEF Request
  <2>7. busy.data = busy.sent /\ busy.info.length = Len(busy.data)
    BY <1>0 DEF FilesOK, BusyOK, At
  <2>8. BusyOK'
    BY <1>0, <1>1, <1>2, <2>0, <2>1, <2>3, <2>6, <2>7 DEF BusyOK, At
  <2>9. UnlinkOK'
    BY <2>6 DEF UnlinkOK, At
  <2>10. \A c \in Container : ContainerAt(c)'
    BY <1>0, <1>1, <2>3, <2>4 DEF FilesOK, ContainerAt
  <2>11. ASSUME NEW c \in Container, NEW n \in Name
         PROVE  RemovedAt(c, n)' /\ WrittenAt(c, n)'
    <3>1. busy' # Absent
      BY <2>6, Marks
    <3>2. ~Between(c, n) /\ (c = k /\ n = b => Between(c, n)')
      BY <1>0, <2>6, <3>1 DEF Between, At
    <3>3. /\ disk'[c].meta = disk[c].meta
          /\ ~(c = k /\ n = b) => disk'[c].data[n] = disk[c].data[n]
      BY <2>1, <2>3
    <3>4. Keeps(c, n)
      BY <1>0, <1>1, <3>2, <3>3 DEF Keeps
    <3> QED
      BY <1>1, <3>4, BlobKept DEF FilesOK
  <2> QED
    BY <2>5, <2>8, <2>9, <2>10, <2>11 DEF FilesOK
<1> QED
  BY <1>3, <1>4 DEF streamToFile, Release

LEMMA commitWrittenBlobLockedStep ==
  ASSUME FilesOK, commitWrittenBlobLocked
  PROVE  FilesOK'
<1> DEFINE k == busy.c
           b == busy.n
           e == [disk[k] EXCEPT !.meta[b] = busy.info]
<1>0. /\ busy # Absent /\ busy.step = "meta" /\ ~At("container") /\ At("meta")
      /\ up' = up
  BY DEF commitWrittenBlobLocked, At
<1>1. /\ TypeOK /\ up /\ busy \in Request /\ k \in Container
      /\ mem[k] \in Index
      /\ disk[k] \in Directory /\ disk[k] # Absent /\ mem[k] # Absent /\ settled[k] # Absent
  BY <1>0, Holding
<1>2. /\ b \in Name /\ busy.data \in Payload /\ busy.sent \in Payload /\ busy.info \in BlobInfo
      /\ busy \in [step : {"data", "meta", "consume"}, c : Container, n : Name,
                   data : Payload, sent : Payload, info : BlobInfo, consume : BOOLEAN]
  BY <1>0, <1>1, RequestShape
<1>3. up'
  BY <1>1 DEF commitWrittenBlobLocked
<1>4. \A c \in Container, n \in Name : Between(c, n) => c = k /\ n = b
  BY DEF Between
<1>5. CASE Settle(k, b, Unsure) /\ busy' = Absent /\ mem' = mem /\ disk' = disk
  <2>1. Unsure \in Outcome
    BY DEF Outcome
  <2>2. /\ settled' \in [Container -> [Name -> Outcome] \cup {Absent, Unsure}]
        /\ settled'[k] \notin {Absent, Unsure}
        /\ settled'[k][b] = Unsure
        /\ \A m \in Name : m # b => \/ settled'[k][m] = Unsure
                                    \/ /\ settled[k] \notin {Absent, Unsure}
                                       /\ settled'[k][m] = settled[k][m]
        /\ \A c \in Container : c # k => settled'[c] = settled[c]
    BY <1>1, <1>2, <1>5, <2>1, Settles
  <2>3. TypeOK'
    BY <1>0, <1>1, <1>5, <2>2 DEF TypeOK
  <2>4. BusyOK' /\ UnlinkOK'
    BY <1>5 DEF BusyOK, UnlinkOK, At
  <2>5. \A c \in Container : ContainerAt(c)'
    <3> SUFFICES ASSUME NEW c \in Container PROVE ContainerAt(c)'
      OBVIOUS
    <3>1. ContainerAt(c)
      BY DEF FilesOK
    <3> QED
      BY <1>0, <1>1, <1>5, <2>2, <3>1 DEF ContainerAt
  <2>6. ASSUME NEW c \in Container, NEW n \in Name
        PROVE  RemovedAt(c, n)' /\ WrittenAt(c, n)'
    <3>1. Keeps(c, n)
      BY <1>0, <1>1, <1>4, <1>5, <2>2 DEF Keeps
    <3> QED
      BY <1>1, <3>1, BlobKept DEF FilesOK
  <2> QED
    BY <2>3, <2>4, <2>5, <2>6 DEF FilesOK
<1>6. CASE /\ disk' = [disk EXCEPT ![busy.c].meta[busy.n] = busy.info]
           /\ mem' = [mem EXCEPT ![busy.c][busy.n] = busy.info]
           /\ Settle(busy.c, busy.n, [info |-> busy.info, data |-> busy.sent])
           /\ busy' = Absent \/ busy' = [busy EXCEPT !.step = "consume"]
  <2> DEFINE o == [info |-> busy.info, data |-> busy.sent]
             x == [mem[k] EXCEPT ![b] = busy.info]
  <2>1. o \in Outcome /\ o # Absent /\ o # Unsure /\ o.info = busy.info /\ o.data = busy.sent
    BY <1>2, Marks DEF Outcome
  <2>2. Settle(k, b, o)
    BY <1>6
  <2> HIDE DEF o
  <2>3. /\ settled' \in [Container -> [Name -> Outcome] \cup {Absent, Unsure}]
        /\ settled'[k] \notin {Absent, Unsure}
        /\ settled'[k][b] = o
        /\ \A m \in Name : m # b => \/ settled'[k][m] = Unsure
                                    \/ /\ settled[k] \notin {Absent, Unsure}
                                       /\ settled'[k][m] = settled[k][m]
        /\ \A c \in Container : c # k => settled'[c] = settled[c]
    BY <1>1, <1>2, <2>1, <2>2, Settles
  <2>4. /\ e \in Directory /\ e.data = disk[k].data
        /\ \A m \in Name : e.meta[m] = IF m = b THEN busy.info ELSE disk[k].meta[m]
    BY <1>1, <1>2, FileReplaced
  <2>5. disk' = [disk EXCEPT ![k] = e]
    BY <1>6
  <2> HIDE DEF e
  <2>6. /\ x \in Index
        /\ \A m \in Name : x[m] = IF m = b THEN busy.info ELSE mem[k][m]
    BY <1>1, <1>2 DEF Index
  <2>7. mem' = [mem EXCEPT ![k] = x]
    BY <1>6
  <2> HIDE DEF x
  <2>8. /\ disk'[k] = e /\ mem'[k] = x
        /\ \A c \in Container : c # k => disk'[c] = disk[c] /\ mem'[c] = mem[c]
    BY <1>1, <2>5, <2>7 DEF TypeOK
  <2>9. e # Absent /\ x # Absent
    BY <2>4, <2>6, Marks
  <2>10. TypeOK'
    <3>1. /\ disk' \in [Container -> Directory \cup {Absent}]
          /\ mem' \in [Container -> Index \cup {Absent}]
      BY <1>1, <2>4, <2>5, <2>6, <2>7 DEF TypeOK
    <3>2. \A c \in Container : mem'[c] # Absent => disk'[c] # Absent
      BY <1>1, <2>8, <2>9 DEF TypeOK
    <3> QED
      BY <1>0, <1>1, <2>3, <3>1, <3>2 DEF TypeOK
  <2>11. BusyOK' /\ UnlinkOK'
    <3>1. CASE busy' = Absent
      BY <3>1 DEF BusyOK, UnlinkOK, At
    <3>2. CASE busy' = [busy EXCEPT !.step = "consume"]
      <4>1. busy' \in Request /\ busy'.step = "consume" /\ busy'.c = k
        BY <1>2, <3>2 DEF Request
      <4> QED
        BY <1>3, <2>8, <2>9, <4>1 DEF BusyOK, UnlinkOK, At
    <3> QED
      BY <1>6, <3>1, <3>2
  <2>12. \A c \in Container : ContainerAt(c)'
    <3> SUFFICES ASSUME NEW c \in Container PROVE ContainerAt(c)'
      OBVIOUS
    <3>1. ContainerAt(c)
      BY DEF FilesOK
    <3> QED
      BY <1>0, <1>1, <2>3, <2>8, <2>9, <3>1 DEF ContainerAt
  <2>13. ASSUME NEW c \in Container, NEW n \in Name
         PROVE  RemovedAt(c, n)' /\ WrittenAt(c, n)'
    <3>1. CASE c = k /\ n = b
      <4>1. /\ disk[k].data[b] = busy.data /\ busy.data = busy.sent
            /\ busy.info.length = Len(busy.data)
        BY <1>0 DEF FilesOK, BusyOK
      <4>2. /\ disk'[c].data[n] = o.data /\ disk'[c].meta[n] = o.info
            /\ o.info.length = Len(o.data) /\ mem'[c] # Absent /\ mem'[c][n] = o.info
            /\ settled'[c][n] = o
        BY <1>2, <2>1, <2>3, <2>4, <2>6, <2>8, <2>9, <3>1, <4>1
      <4> QED
        BY <2>1, <4>2 DEF RemovedAt, WrittenAt
    <3>2. CASE ~(c = k /\ n = b)
      <4>1. Keeps(c, n)
        BY <1>0, <1>1, <1>4, <2>3, <2>4, <2>6, <2>8, <2>9, <3>2 DEF Keeps
      <4> QED
        BY <1>1, <4>1, BlobKept DEF FilesOK
    <3> QED
      BY <3>1, <3>2
  <2> QED
    BY <2>10, <2>11, <2>12, <2>13 DEF FilesOK
<1> QED
  BY <1>5, <1>6 DEF commitWrittenBlobLocked, Release

-----------------------------------------------------------------------------
(* Removing a blob.                                                        *)

\* Where a removal is after one of its files.
LEMMA Unlinked ==
  ASSUME FilesOK, busy # Absent, busy.step \in {"unlink data", "unlink meta"},
         NEW next \in {"unlink meta", "unlink blocks"}, NEW removed, Unlink(removed, next)
  PROVE  /\ busy' \in Request /\ busy' # Absent
         /\ busy'.step = next /\ busy'.c = busy.c /\ busy'.n = busy.n
         /\ ~busy'.error => disk' = removed /\ ~busy.error
         /\ disk' \in {disk, removed}
<1>1. busy \in Request
  BY Holding
<1>2. /\ busy \in [step : {"unlink data", "unlink meta", "unlink blocks"},
                   c : Container, n : Name, error : BOOLEAN]
      /\ busy.error \in BOOLEAN
  BY <1>1, RequestShape
<1>3. CASE disk' = removed /\ busy' = [busy EXCEPT !.step = next]
  <2>1. /\ busy' \in Request /\ busy'.step = next /\ busy'.c = busy.c /\ busy'.n = busy.n
        /\ busy'.error = busy.error
    BY <1>2, <1>3 DEF Request
  <2> QED
    BY <1>3, <2>1, Marks
<1>4. CASE disk' = disk /\ busy' = [busy EXCEPT !.step = next, !.error = TRUE]
  <2>1. /\ busy' \in Request /\ busy'.step = next /\ busy'.c = busy.c /\ busy'.n = busy.n
        /\ busy'.error = TRUE
    BY <1>2, <1>4 DEF Request
  <2> QED
    BY <1>4, <2>1, Marks
<1> QED
  BY <1>3, <1>4 DEF Unlink

LEMMA unlinkDataStep ==
  ASSUME FilesOK, unlinkData
  PROVE  FilesOK'
<1> DEFINE k == busy.c
           b == busy.n
           e == [disk[k] EXCEPT !.data[b] = Absent]
<1>0. /\ busy # Absent /\ busy.step = "unlink data" /\ ~At("container") /\ ~At("meta")
      /\ mem' = mem /\ up' = up /\ Settle(k, b, Unsure)
      /\ Unlink([disk EXCEPT ![k] = e], "unlink meta")
  BY DEF unlinkData, At
<1>1. /\ TypeOK /\ up /\ busy \in Request /\ k \in Container
      /\ disk[k] \in Directory /\ disk[k] # Absent /\ mem[k] # Absent /\ settled[k] # Absent
  BY <1>0, Holding
<1>2. b \in Name
  BY <1>0, <1>1, RequestShape
<1>3. up'
  BY <1>1 DEF unlinkData
<1>4. /\ e \in Directory /\ e.meta = disk[k].meta
      /\ \A m \in Name : e.data[m] = IF m = b THEN Absent ELSE disk[k].data[m]
  BY <1>1, <1>2, FileReplaced
<1>5. e # Absent
  BY <1>4, Marks
<1> HIDE DEF e
<1>6. /\ busy' \in Request /\ busy' # Absent
      /\ busy'.step = "unlink meta" /\ busy'.c = k /\ busy'.n = b
      /\ ~busy'.error => disk' = [disk EXCEPT ![k] = e]
      /\ disk' \in {disk, [disk EXCEPT ![k] = e]}
  BY <1>0, Unlinked
<1>7. /\ disk' \in [Container -> Directory \cup {Absent}]
      /\ disk'[k] \in {disk[k], e}
      /\ ~busy'.error => disk'[k] = e
      /\ \A c \in Container : c # k => disk'[c] = disk[c]
  BY <1>1, <1>4, <1>6 DEF TypeOK
<1>8. Unsure \in Outcome
  BY DEF Outcome
<1>9. /\ settled' \in [Container -> [Name -> Outcome] \cup {Absent, Unsure}]
      /\ settled'[k] \notin {Absent, Unsure}
      /\ settled'[k][b] = Unsure
      /\ \A m \in Name : m # b => \/ settled'[k][m] = Unsure
                                  \/ /\ settled[k] \notin {Absent, Unsure}
                                     /\ settled'[k][m] = settled[k][m]
      /\ \A c \in Container : c # k => settled'[c] = settled[c]
  BY <1>0, <1>1, <1>2, <1>8, Settles
<1>10. TypeOK'
  BY <1>0, <1>1, <1>3, <1>5, <1>7, <1>9 DEF TypeOK
<1>11. BusyOK'
  BY <1>0, <1>1, <1>3, <1>6 DEF BusyOK, At
<1>12. UnlinkOK'
  <2>1. ~busy'.error => disk'[busy'.c].data[busy'.n] = Absent
    BY <1>2, <1>4, <1>6, <1>7
  <2>2. settled'[busy'.c] # Unsure /\ settled'[busy'.c][busy'.n] = Unsure
    BY <1>6, <1>9
  <2> QED
    BY <1>6, <2>1, <2>2 DEF UnlinkOK, At
<1>13. \A c \in Container : ContainerAt(c)'
  <2> SUFFICES ASSUME NEW c \in Container PROVE ContainerAt(c)'
    OBVIOUS
  <2>1. ContainerAt(c)
    BY DEF FilesOK
  <2> QED
    BY <1>0, <1>1, <1>5, <1>7, <1>9, <2>1 DEF ContainerAt
<1>14. ASSUME NEW c \in Container, NEW n \in Name
       PROVE  RemovedAt(c, n)' /\ WrittenAt(c, n)'
  <2>1. ~Between(c, n)
    BY <1>0 DEF Between
  <2>2. /\ disk'[c].meta = disk[c].meta
        /\ ~(c = k /\ n = b) => disk'[c].data[n] = disk[c].data[n]
    BY <1>4, <1>7
  <2>3. settled'[c] \notin {Absent, Unsure} /\ settled'[c][n] # Unsure =>
          /\ ~(c = k /\ n = b)
          /\ settled[c] \notin {Absent, Unsure} /\ settled'[c][n] = settled[c][n]
    BY <1>9
  <2>4. Keeps(c, n)
    BY <1>0, <1>1, <2>1, <2>2, <2>3 DEF Keeps
  <2> QED
    BY <1>1, <2>4, BlobKept DEF FilesOK
<1> QED
  BY <1>10, <1>11, <1>12, <1>13, <1>14 DEF FilesOK

LEMMA unlinkMetaStep ==
  ASSUME FilesOK, unlinkMeta
  PROVE  FilesOK'
<1> DEFINE k == busy.c
           b == busy.n
           e == [disk[k] EXCEPT !.meta[b] = Absent]
<1>0. /\ busy # Absent /\ busy.step = "unlink meta" /\ ~At("container") /\ ~At("meta")
      /\ mem' = mem /\ up' = up /\ settled' = settled
      /\ Unlink([disk EXCEPT ![k] = e], "unlink blocks")
  BY DEF unlinkMeta, At
<1>1. /\ TypeOK /\ up /\ busy \in Request /\ k \in Container
      /\ disk[k] \in Directory /\ disk[k] # Absent /\ mem[k] # Absent /\ settled[k] # Absent
  BY <1>0, Holding
<1>2. b \in Name
  BY <1>0, <1>1, RequestShape
<1>3. up'
  BY <1>1 DEF unlinkMeta
<1>4. /\ e \in Directory /\ e.data = disk[k].data
      /\ \A m \in Name : e.meta[m] = IF m = b THEN Absent ELSE disk[k].meta[m]
  BY <1>1, <1>2, FileReplaced
<1>5. e # Absent
  BY <1>4, Marks
<1> HIDE DEF e
<1>6. /\ busy' \in Request /\ busy' # Absent
      /\ busy'.step = "unlink blocks" /\ busy'.c = k /\ busy'.n = b
      /\ ~busy'.error => disk' = [disk EXCEPT ![k] = e] /\ ~busy.error
      /\ disk' \in {disk, [disk EXCEPT ![k] = e]}
  BY <1>0, Unlinked
<1>7. /\ disk' \in [Container -> Directory \cup {Absent}]
      /\ disk'[k] \in {disk[k], e}
      /\ ~busy'.error => disk'[k] = e
      /\ \A c \in Container : c # k => disk'[c] = disk[c]
  BY <1>1, <1>4, <1>6 DEF TypeOK
<1>8. /\ settled[k] # Unsure /\ settled[k][b] = Unsure
      /\ ~busy'.error => disk[k].data[b] = Absent
  BY <1>0, <1>6 DEF FilesOK, UnlinkOK, At
<1>10. TypeOK'
  BY <1>0, <1>1, <1>3, <1>5, <1>7 DEF TypeOK
<1>11. BusyOK'
  BY <1>0, <1>1, <1>3, <1>6 DEF BusyOK, At
<1>12. UnlinkOK'
  <2>1. ~busy'.error => /\ disk'[busy'.c].data[busy'.n] = Absent
                        /\ disk'[busy'.c].meta[busy'.n] = Absent
    BY <1>2, <1>4, <1>6, <1>7, <1>8
  <2>2. settled'[busy'.c] # Unsure /\ settled'[busy'.c][busy'.n] = Unsure
    BY <1>0, <1>6, <1>8
  <2> QED
    BY <1>6, <2>1, <2>2 DEF UnlinkOK, At
<1>13. \A c \in Container : ContainerAt(c)'
  <2> SUFFICES ASSUME NEW c \in Container PROVE ContainerAt(c)'
    OBVIOUS
  <2>1. ContainerAt(c)
    BY DEF FilesOK
  <2> QED
    BY <1>0, <1>1, <1>5, <1>7, <2>1 DEF ContainerAt
<1>14. ASSUME NEW c \in Container, NEW n \in Name
       PROVE  RemovedAt(c, n)' /\ WrittenAt(c, n)'
  <2>1. ~Between(c, n)
    BY <1>0 DEF Between
  <2>2. /\ disk'[c].data = disk[c].data
        /\ ~(c = k /\ n = b) => disk'[c].meta[n] = disk[c].meta[n]
    BY <1>4, <1>7
  <2>3. settled'[c] \notin {Absent, Unsure} /\ settled'[c][n] # Unsure =>
          /\ ~(c = k /\ n = b)
          /\ settled[c] \notin {Absent, Unsure} /\ settled'[c][n] = settled[c][n]
    BY <1>0, <1>8
  <2>4. Keeps(c, n)
    BY <1>0, <1>1, <2>1, <2>2, <2>3 DEF Keeps
  <2> QED
    BY <1>1, <2>4, BlobKept DEF FilesOK
<1> QED
  BY <1>10, <1>11, <1>12, <1>13, <1>14 DEF FilesOK

LEMMA unlinkBlocksStep ==
  ASSUME FilesOK, unlinkBlocks
  PROVE  FilesOK'
<1> DEFINE k == busy.c
           b == busy.n
           x == [mem[k] EXCEPT ![b] = Absent]
<1>0. /\ busy # Absent /\ busy.step = "unlink blocks" /\ ~At("container") /\ ~At("meta")
      /\ busy' = Absent /\ up' = up
      /\ mem' = [mem EXCEPT ![k] = x]
      /\ disk' \in BlocksRemoved(k, b)
      /\ IF busy.error THEN settled' = settled ELSE Settle(k, b, Absent)
  BY DEF unlinkBlocks, At, Release
<1>1. /\ TypeOK /\ up /\ busy \in Request /\ k \in Container /\ mem[k] \in Index
      /\ disk[k] \in Directory /\ disk[k] # Absent /\ mem[k] # Absent /\ settled[k] # Absent
  BY <1>0, Holding
<1>2. b \in Name /\ busy.error \in BOOLEAN
  BY <1>0, <1>1, RequestShape
<1>3. up'
  BY <1>1 DEF unlinkBlocks
<1>4. PICK e \in Directory : /\ disk' = [disk EXCEPT ![k] = e]
                            /\ e.data = disk[k].data /\ e.meta = disk[k].meta
  BY <1>0, <1>1, <1>2, BlocksGone
<1>5. /\ e \in Directory /\ e.data = disk[k].data /\ e.meta = disk[k].meta
      /\ x \in Index
      /\ \A m \in Name : m # b => x[m] = mem[k][m]
  BY <1>1, <1>2, <1>4 DEF Index
<1>6. e # Absent /\ x # Absent
  BY <1>5, Marks
<1> HIDE DEF x
<1>7. /\ disk' \in [Container -> Directory \cup {Absent}]
      /\ mem' \in [Container -> Index \cup {Absent}]
      /\ disk'[k] # Absent /\ mem'[k] = x
      /\ \A c \in Container : disk'[c].data = disk[c].data /\ disk'[c].meta = disk[c].meta
      /\ \A c \in Container : c # k => disk'[c] = disk[c] /\ mem'[c] = mem[c]
  BY <1>0, <1>1, <1>4, <1>5, <1>6 DEF TypeOK
<1>8. /\ settled[k] # Unsure /\ settled[k][b] = Unsure
      /\ ~busy.error => disk[k].data[b] = Absent /\ disk[k].meta[b] = Absent
  BY <1>0 DEF FilesOK, UnlinkOK, At
<1>9. /\ settled' \in [Container -> [Name -> Outcome] \cup {Absent, Unsure}]
      /\ settled'[k] # Absent
      /\ settled'[k][b] = Unsure
           \/ (~busy.error /\ settled'[k] # Unsure /\ settled'[k][b] = Absent)
      /\ \A m \in Name : m # b => \/ settled'[k] = Unsure
                                  \/ settled'[k][m] = Unsure
                                  \/ /\ settled[k] \notin {Absent, Unsure}
                                     /\ settled'[k][m] = settled[k][m]
      /\ \A c \in Container : c # k => settled'[c] = settled[c]
  <2>1. CASE busy.error
    BY <1>0, <1>1, <1>8, <2>1 DEF TypeOK
  <2>2. CASE ~busy.error
    <3>1. Absent \in Outcome
      BY DEF Outcome
    <3>2. Settle(k, b, Absent)
      BY <1>0, <2>2
    <3> QED
      BY <1>1, <1>2, <2>2, <3>1, <3>2, Settles
  <2> QED
    BY <1>2, <2>1, <2>2
<1>10. TypeOK'
  <2>1. \A c \in Container : mem'[c] # Absent => disk'[c] # Absent
    BY <1>1, <1>7 DEF TypeOK
  <2> QED
    BY <1>0, <1>1, <1>3, <1>7, <1>9, <2>1 DEF TypeOK
<1>11. BusyOK' /\ UnlinkOK'
  BY <1>0 DEF BusyOK, UnlinkOK, At
<1>12. \A c \in Container : ContainerAt(c)'
  <2> SUFFICES ASSUME NEW c \in Container PROVE ContainerAt(c)'
    OBVIOUS
  <2>1. ContainerAt(c)
    BY DEF FilesOK
  <2> QED
    BY <1>0, <1>1, <1>6, <1>7, <1>9, <2>1 DEF ContainerAt
<1>13. ASSUME NEW c \in Container, NEW n \in Name
       PROVE  RemovedAt(c, n)' /\ WrittenAt(c, n)'
  <2>1. ~Between(c, n)
    BY <1>0 DEF Between
  <2>2. CASE c = k /\ n = b
    BY <1>7, <1>8, <1>9, <2>2, Marks DEF RemovedAt, WrittenAt
  <2>3. CASE ~(c = k /\ n = b)
    <3>1. ASSUME c # k PROVE Keeps(c, n)
      BY <1>0, <1>7, <1>9, <2>1, <3>1 DEF Keeps
    <3>2. ASSUME c = k PROVE Keeps(c, n)
      <4>1. mem'[c] # Absent /\ mem'[c][n] = mem[c][n]
        BY <1>5, <1>6, <1>7, <2>3, <3>2
      <4> QED
        BY <1>0, <1>1, <1>7, <1>9, <2>1, <2>3, <3>2, <4>1 DEF Keeps
    <3>3. Keeps(c, n)
      BY <3>1, <3>2
    <3> QED
      BY <1>1, <3>3, BlobKept DEF FilesOK
  <2> QED
    BY <2>2, <2>3
<1> QED
  BY <1>10, <1>11, <1>12, <1>13 DEF FilesOK

-----------------------------------------------------------------------------
(* Stopping and starting.                                                  *)

LEMMA StopStep ==
  ASSUME FilesOK, Stop
  PROVE  FilesOK'
<1>0. ~up'
  BY DEF Stop
<1>1. /\ TypeOK /\ up' = FALSE /\ busy' = Absent /\ disk' = disk
      /\ mem' = [c \in Container |-> Absent]
      /\ IF At("meta") THEN Settle(busy.c, busy.n, Unsure) ELSE settled' = settled
  BY DEF Stop, Release, FilesOK
<1>2. /\ settled' \in [Container -> [Name -> Outcome] \cup {Absent, Unsure}]
      /\ \A c \in Container : settled'[c] = Absent <=> settled[c] = Absent
      /\ \A c \in Container, n \in Name :
           \/ settled'[c] = Unsure
           \/ settled'[c][n] = Unsure
           \/ ~Between(c, n) /\ settled'[c] = settled[c]
           \/ /\ ~Between(c, n)
              /\ settled[c] \notin {Absent, Unsure}
              /\ settled'[c][n] = settled[c][n]
  <2>1. CASE ~At("meta")
    BY <1>1, <2>1 DEF TypeOK, Between
  <2>2. CASE At("meta")
    <3>1. /\ busy # Absent /\ busy.step = "meta" /\ ~At("container")
      BY <2>2 DEF At
    <3>2. /\ busy \in Request /\ busy.c \in Container /\ settled[busy.c] # Absent
      BY <3>1, Holding
    <3>3. busy.n \in Name
      BY <3>1, <3>2, RequestShape
    <3>4. Unsure \in Outcome
      BY DEF Outcome
    <3>5. Settle(busy.c, busy.n, Unsure)
      BY <1>1, <2>2
    <3>6. /\ settled' \in [Container -> [Name -> Outcome] \cup {Absent, Unsure}]
          /\ settled'[busy.c] \notin {Absent, Unsure}
          /\ settled'[busy.c][busy.n] = Unsure
          /\ \A m \in Name : m # busy.n =>
               \/ settled'[busy.c][m] = Unsure
               \/ /\ settled[busy.c] \notin {Absent, Unsure}
                  /\ settled'[busy.c][m] = settled[busy.c][m]
          /\ \A c \in Container : c # busy.c => settled'[c] = settled[c]
      BY <1>1, <3>2, <3>3, <3>4, <3>5, Settles
    <3>7. \A c \in Container, n \in Name : Between(c, n) => c = busy.c /\ n = busy.n
      BY DEF Between
    <3> QED
      BY <3>2, <3>6, <3>7
  <2> QED
    BY <2>1, <2>2
<1>3. \A c \in Container : mem'[c] = Absent
  BY <1>1
<1>4. TypeOK'
  BY <1>1, <1>2, <1>3 DEF TypeOK
<1>5. BusyOK' /\ UnlinkOK'
  BY <1>1 DEF BusyOK, UnlinkOK, At
<1>6. \A c \in Container : ContainerAt(c)'
  <2> SUFFICES ASSUME NEW c \in Container PROVE ContainerAt(c)'
    OBVIOUS
  <2>1. ContainerAt(c)
    BY DEF FilesOK
  <2> QED
    BY <1>1, <1>2, <1>3, <2>1 DEF ContainerAt
<1>7. ASSUME NEW c \in Container, NEW n \in Name
      PROVE  RemovedAt(c, n)' /\ WrittenAt(c, n)'
  <2>1. ASSUME settled'[c] \notin {Absent, Unsure}, settled'[c][n] # Unsure
        PROVE  /\ ~Between(c, n) /\ settled[c] \notin {Absent, Unsure}
               /\ settled'[c][n] = settled[c][n]
    <3>1. \/ ~Between(c, n) /\ settled'[c] = settled[c]
          \/ /\ ~Between(c, n)
             /\ settled[c] \notin {Absent, Unsure}
             /\ settled'[c][n] = settled[c][n]
      BY <1>2, <2>1
    <3> QED
      BY <2>1, <3>1
  <2>2. Keeps(c, n)
    BY <1>0, <1>1, <2>1 DEF Keeps
  <2> QED
    BY <1>1, <2>2, BlobKept DEF FilesOK
<1> QED
  BY <1>4, <1>5, <1>6, <1>7 DEF FilesOK

LEMMA loadStep ==
  ASSUME FilesOK, load
  PROVE  FilesOK'
<1>0. ~up /\ up'
  BY DEF load
<1>1. /\ TypeOK /\ Loadable
      /\ disk' = disk /\ busy' = busy /\ settled' = settled
      /\ mem' = [c \in Container |-> IF disk[c] = Absent THEN Absent ELSE disk[c].meta]
  BY DEF load, loadContainer, FilesOK
<1>2. busy = Absent
  BY <1>0 DEF FilesOK, BusyOK
<1>3. \A c \in Container : disk[c] # Absent => disk[c] \in Directory /\ disk[c].meta \in Index
  BY <1>1 DEF TypeOK, Directory
<1>4. \A c \in Container :
        /\ disk[c] = Absent => mem'[c] = Absent
        /\ disk[c] # Absent => mem'[c] = disk[c].meta /\ mem'[c] \in Index /\ mem'[c] # Absent
  BY <1>1, <1>3, Marks
<1>5. mem' \in [Container -> Index \cup {Absent}]
  BY <1>1, <1>3
<1>6. TypeOK'
  BY <1>0, <1>1, <1>4, <1>5 DEF TypeOK
<1>7. BusyOK' /\ UnlinkOK'
  BY <1>1, <1>2 DEF BusyOK, UnlinkOK, At
<1>8. \A c \in Container : ContainerAt(c)'
  <2> SUFFICES ASSUME NEW c \in Container PROVE ContainerAt(c)'
    OBVIOUS
  <2>1. ContainerAt(c)
    BY DEF FilesOK
  <2>2. disk[c] = EmptyDir => disk[c] = Absent
    BY <1>1 DEF Loadable, EmptyDir
  <2> QED
    BY <1>1, <1>4, <2>1, <2>2 DEF ContainerAt
<1>9. ASSUME NEW c \in Container, NEW n \in Name
      PROVE  RemovedAt(c, n)' /\ WrittenAt(c, n)'
  <2>1. RemovedAt(c, n) /\ WrittenAt(c, n) /\ ContainerAt(c)
    BY DEF FilesOK
  <2>2. ~Between(c, n)
    BY <1>2 DEF Between, At
  <2>3. RemovedAt(c, n)'
    BY <1>1, <2>1, <2>2 DEF RemovedAt
  <2>4. settled[c] \notin {Absent, Unsure} =>
          disk[c] # Absent /\ mem'[c] = disk[c].meta /\ mem'[c] # Absent
    BY <1>4, <2>1 DEF ContainerAt
  <2>5. WrittenAt(c, n)'
    BY <1>1, <2>1, <2>2, <2>4 DEF WrittenAt
  <2> QED
    BY <2>3, <2>5
<1> QED
  BY <1>6, <1>7, <1>8, <1>9 DEF FilesOK

LEMMA InitFiles ==
  ASSUME Init
  PROVE  FilesOK
<1>1. /\ mem = [c \in Container |-> Absent] /\ disk = [c \in Container |-> Absent]
      /\ settled = [c \in Container |-> Absent]
      /\ up /\ up \in BOOLEAN /\ busy = Absent
  BY DEF Init
<1>2. TypeOK
  BY <1>1 DEF TypeOK
<1>3. BusyOK /\ UnlinkOK
  BY <1>1 DEF BusyOK, UnlinkOK, At
<1>4. \A c \in Container : ContainerAt(c)
  BY <1>1 DEF ContainerAt
<1>5. \A c \in Container, n \in Name : RemovedAt(c, n) /\ WrittenAt(c, n)
  BY <1>1 DEF RemovedAt, WrittenAt
<1> QED
  BY <1>2, <1>3, <1>4, <1>5 DEF FilesOK

-----------------------------------------------------------------------------
(* Committing blocks.  FlattenSeq and Listed recurse over the block list;  *)
(* what holds of every length is shown of the set of the lengths it holds  *)
(* of.                                                                     *)

LEMMA SetInduction ==
  ASSUME NEW T, 0 \in T, \A n \in Nat : n \in T => n + 1 \in T
  PROVE  Nat \subseteq T
<1> DEFINE U == Nat \ T
           R == {ss \in Nat \X Nat : ss[1] < ss[2]}
<1> SUFFICES ASSUME U # {} PROVE FALSE
  OBVIOUS
<1>1. IsWellFoundedOn(R, Nat)
  BY NatLessThanWellFounded DEF OpToRel
<1>2. PICK x \in U : \A y \in U : <<y, x>> \notin R
  BY <1>1, WFMin
<1>3. x # 0 /\ x - 1 \in Nat /\ x - 1 < x
  BY <1>2
<1>4. x - 1 \in T
  BY <1>2, <1>3
<1> QED
  BY <1>2, <1>3, <1>4

\* A list of payloads is joined from nothing on, or from its first payload on.
Joined(f, n, s) == f = [i \in 0..n |-> IF i = 0 THEN <<>> ELSE f[i - 1] \o s[i]]
Flattened(g, n, s) == \A i \in 1..n : g[i] = IF i = 1 THEN s[i] ELSE g[i - 1] \o s[i]
Payloads(n, s) == \A i \in 1..n : s[i] \in Payload

LEMMA JoinedExists ==
  ASSUME NEW s, NEW n \in Nat
  PROVE  \E f : Joined(f, n, s)
<1> DEFINE T == {k \in Nat : \E f : Joined(f, k, s)}
<1>1. 0 \in T
  <2>1. Joined([i \in 0..0 |-> <<>>], 0, s)
    BY DEF Joined
  <2> QED
    BY <2>1
<1>2. ASSUME NEW k \in Nat, k \in T PROVE k + 1 \in T
  <2>1. PICK f : Joined(f, k, s)
    BY <1>2
  <2> DEFINE g == [i \in 0..k + 1 |-> IF i = k + 1 THEN f[k] \o s[k + 1] ELSE f[i]]
  <2>2. g[k + 1] = f[k] \o s[k + 1] /\ \A i \in 0..k : g[i] = f[i]
    OBVIOUS
  <2>3. \A i \in 0..k : f[i] = IF i = 0 THEN <<>> ELSE f[i - 1] \o s[i]
    BY <2>1 DEF Joined
  <2>4. \A i \in 0..k + 1 : g[i] = IF i = 0 THEN <<>> ELSE g[i - 1] \o s[i]
    <3> SUFFICES ASSUME NEW i \in 0..k + 1
                 PROVE  g[i] = IF i = 0 THEN <<>> ELSE g[i - 1] \o s[i]
      OBVIOUS
    <3>1. CASE i = k + 1
      BY <2>2, <3>1
    <3>2. CASE i \in 1..k
      <4>1. i \in 0..k /\ i - 1 \in 0..k /\ i # 0
        BY <3>2
      <4> HIDE DEF g
      <4> QED
        BY <2>2, <2>3, <4>1
    <3>3. CASE i = 0
      BY <2>2, <2>3, <3>3
    <3> QED
      BY <3>1, <3>2, <3>3
  <2>5. g = [i \in 0..k + 1 |-> g[i]]
    OBVIOUS
  <2>6. Joined(g, k + 1, s)
    <3> HIDE DEF g
    <3> QED
      BY <2>4, <2>5 DEF Joined
  <2> QED
    BY <2>6
<1> HIDE DEF T
<1>3. Nat \subseteq T
  BY <1>1, <1>2, SetInduction
<1> QED
  BY <1>3 DEF T

\* One way to join them agrees with any other, and makes a payload.
LEMMA JoinedUnique ==
  ASSUME NEW s, NEW n \in Nat, Payloads(n, s),
         NEW f, Joined(f, n, s), NEW g, Flattened(g, n, s)
  PROVE  /\ \A i \in 0..n : f[i] \in Payload
         /\ \A i \in 1..n : f[i] = g[i]
<1> DEFINE T == {k \in Nat : k <= n => f[k] \in Payload /\ (k # 0 => f[k] = g[k])}
<1>0. \A i \in 0..n : f[i] = IF i = 0 THEN <<>> ELSE f[i - 1] \o s[i]
  BY DEF Joined
<1>1. 0 \in T
  <2>1. f[0] = <<>>
    BY <1>0
  <2>2. <<>> \in Payload
    BY DEF Payload
  <2> QED
    BY <2>1, <2>2
<1>2. ASSUME NEW k \in Nat, k \in T PROVE k + 1 \in T
  <2> SUFFICES ASSUME k + 1 <= n
               PROVE  f[k + 1] \in Payload /\ f[k + 1] = g[k + 1]
    OBVIOUS
  <2>1. f[k] \in Payload /\ (k # 0 => f[k] = g[k])
    BY <1>2
  <2>2. k + 1 \in 0..n /\ k + 1 \in 1..n /\ k + 1 # 0 /\ (k + 1) - 1 = k /\ (k + 1 = 1 <=> k = 0)
    OBVIOUS
  <2>3. f[k + 1] = f[k] \o s[k + 1]
    BY <1>0, <2>2
  <2>4. s[k + 1] \in Payload
    BY <2>2 DEF Payloads
  <2>5. g[k + 1] = IF k = 0 THEN s[k + 1] ELSE g[k] \o s[k + 1]
    BY <2>2 DEF Flattened
  <2>6. f[k] \o s[k + 1] \in Payload
    BY <2>1, <2>4 DEF Payload
  <2>7. CASE k = 0
    <3>1. f[k] = <<>>
      BY <1>0, <2>7
    <3>2. <<>> \o s[k + 1] = s[k + 1]
      BY <2>4, ConcatEmptySeq DEF Payload
    <3> QED
      BY <2>3, <2>5, <2>6, <2>7, <3>1, <3>2
  <2>8. CASE k # 0
    BY <2>1, <2>3, <2>5, <2>6, <2>8
  <2> QED
    BY <2>7, <2>8
<1> HIDE DEF T
<1>3. Nat \subseteq T
  BY <1>1, <1>2, SetInduction
<1> QED
  BY <1>3 DEF T

\* The blocks of a list, assembled, are the payload the list stands for.
LEMMA Assembled ==
  ASSUME NEW blocks, NEW ids \in Seq(BlockID),
         \A i \in DOMAIN ids : blocks[ids[i]] \in Payload
  PROVE  /\ FlattenSeq([i \in DOMAIN ids |-> blocks[ids[i]]]) = Listed(blocks, ids)
         /\ Listed(blocks, ids) \in Payload
<1> DEFINE n == Len(ids)
           s == [i \in DOMAIN ids |-> blocks[ids[i]]]
           joined[i \in 0..n] == IF i = 0 THEN <<>> ELSE joined[i - 1] \o blocks[ids[i]]
           flatten[i \in 1..Len(s)] == IF i = 1 THEN s[i] ELSE flatten[i - 1] \o s[i]
<1>1. /\ n \in Nat /\ DOMAIN ids = 1..n
      /\ Len(s) = n /\ \A i \in 1..n : s[i] = blocks[ids[i]] /\ s[i] \in Payload
  OBVIOUS
<1>2. PICK f : Joined(f, n, s)
  BY <1>1, JoinedExists
<1>3. joined = [i \in 0..n |-> IF i = 0 THEN <<>> ELSE joined[i - 1] \o blocks[ids[i]]]
  <2>1. f = [i \in 0..n |-> IF i = 0 THEN <<>> ELSE f[i - 1] \o blocks[ids[i]]]
    BY <1>1, <1>2 DEF Joined
  <2> QED
    BY <2>1
<1>4. \A i \in 0..n : joined[i] = IF i = 0 THEN <<>> ELSE joined[i - 1] \o blocks[ids[i]]
  BY <1>3
<1>5. Joined(joined, n, s)
  <2> HIDE DEF joined
  <2>1. joined = [i \in 0..n |-> IF i = 0 THEN <<>> ELSE joined[i - 1] \o s[i]]
    BY <1>1, <1>3
  <2> QED
    BY <2>1 DEF Joined
<1>6. CASE n = 0
  <2>1. s = <<>>
    BY <1>1, <1>6
  <2>2. FlattenSeq(s) = <<>>
    BY <1>1, <1>6, <2>1 DEF FlattenSeq
  <2>3. joined[0] = <<>>
    <3> HIDE DEF joined
    <3> QED
      BY <1>1, <1>4
  <2>4. Listed(blocks, ids) = <<>>
    BY <1>6, <2>3 DEF Listed
  <2> QED
    BY <2>2, <2>4 DEF Payload
<1>7. CASE n # 0
  <2>1. flatten = [i \in 1..Len(s) |-> IF i = 1 THEN s[i] ELSE flatten[i - 1] \o s[i]]
    <3> DEFINE g == [i \in 1..Len(s) |-> joined[i]]
    <3> HIDE DEF joined
    <3>1. ASSUME NEW i \in 1..n
          PROVE  g[i] = IF i = 1 THEN s[i] ELSE g[i - 1] \o s[i]
      <4>1. i \in 0..n /\ i # 0 /\ g[i] = joined[i] /\ s[i] = blocks[ids[i]]
        BY <1>1
      <4>2. g[i] = joined[i - 1] \o s[i]
        BY <1>4, <4>1
      <4>3. CASE i = 1
        <5>1. joined[i - 1] = <<>>
          BY <1>1, <1>4, <4>3
        <5>2. <<>> \o s[i] = s[i]
          BY <1>1, ConcatEmptySeq DEF Payload
        <5> QED
          BY <4>2, <4>3, <5>1, <5>2
      <4>4. CASE i # 1
        <5>1. i - 1 \in 1..Len(s)
          BY <1>1, <4>4
        <5>2. g[i - 1] = joined[i - 1]
          BY <5>1
        <5> HIDE DEF g, s
        <5> QED
          BY <4>2, <4>4, <5>2
      <4> QED
        BY <4>3, <4>4
    <3>2. g = [i \in 1..Len(s) |-> g[i]]
      OBVIOUS
    <3> HIDE DEF g
    <3>3. g = [i \in 1..Len(s) |-> IF i = 1 THEN s[i] ELSE g[i - 1] \o s[i]]
      BY <1>1, <3>1, <3>2
    <3> QED
      BY <3>3
  <2>2. FlattenSeq(s) = flatten[n]
    BY <1>1, <1>7 DEF FlattenSeq
  <2>3. Listed(blocks, ids) = joined[n]
    BY DEF Listed
  <2> HIDE DEF joined, flatten
  <2>4. Flattened(flatten, n, s)
    BY <1>1, <2>1 DEF Flattened
  <2>5. /\ \A i \in 0..n : joined[i] \in Payload
        /\ \A i \in 1..n : joined[i] = flatten[i]
    <3>1. Payloads(n, s)
      BY <1>1 DEF Payloads
    <3>2. n \in Nat
      BY <1>1
    <3> HIDE DEF s, n
    <3> QED
      BY <1>5, <2>4, <3>1, <3>2, JoinedUnique
  <2> QED
    BY <1>1, <1>7, <2>2, <2>3, <2>5
<1> QED
  BY <1>6, <1>7

LEMMA CommitBlockListStep ==
  ASSUME FilesOK, NEW k \in Container, NEW b \in Name, NEW ids \in BlockLists, NEW props \in Props,
         CommitBlockList(k, b, ids, props)
  PROVE  FilesOK'
<1> DEFINE blocks == disk[k].blocks[b]
           data == assembleBlocks(k, b, ids)
<1>1. /\ lookupContainer(k) /\ UNCHANGED <<mem, disk, up, settled>>
      /\ \A i \in DOMAIN ids : blocks[ids[i]] # Absent
      /\ busy' = Writing(k, b, data, Listed(blocks, ids), Info(Len(data), Absent, props), TRUE)
  BY DEF CommitBlockList
<1>2. ids \in Seq(BlockID)
  BY BlobStoreAssumption
<1>3. disk[k] \in Directory
  BY <1>1 DEF lookupContainer, FilesOK, TypeOK
<1>4. blocks \in [BlockID -> Payload \cup {Absent}]
  BY <1>3 DEF Directory
<1>5. \A i \in DOMAIN ids : blocks[ids[i]] \in Payload
  <2> HIDE DEF blocks
  <2>1. \A i \in DOMAIN ids : ids[i] \in BlockID
    BY <1>2
  <2> QED
    BY <1>1, <1>4, <2>1
<1>6. data = Listed(blocks, ids) /\ data \in Payload
  <2>1. data = FlattenSeq([i \in DOMAIN ids |-> blocks[ids[i]]])
    BY DEF assembleBlocks
  <2> HIDE DEF blocks, data
  <2> QED
    BY <1>2, <1>5, <2>1, Assembled
<1> HIDE DEF data, blocks
<1> QED
  BY <1>1, <1>6, WritingStarts

LEMMA NextFiles ==
  ASSUME FilesOK, [Next]_vars
  PROVE  FilesOK'
<1>1. CASE UNCHANGED vars
  <2>1. mem' = mem /\ disk' = disk /\ up' = up /\ busy' = busy /\ settled' = settled
    BY <1>1 DEF vars
  <2>2. TypeOK' /\ BusyOK' /\ UnlinkOK'
    BY <2>1 DEF FilesOK, TypeOK, BusyOK, UnlinkOK, At
  <2>3. \A c \in Container : ContainerAt(c)'
    BY <2>1 DEF FilesOK, ContainerAt
  <2>4. \A c \in Container, n \in Name : RemovedAt(c, n)' /\ WrittenAt(c, n)'
    BY <2>1 DEF FilesOK, RemovedAt, WrittenAt, Between, At
  <2> QED
    BY <2>2, <2>3, <2>4 DEF FilesOK
<1>2. ASSUME NEW c \in Container, handleContainer(c) PROVE FilesOK'
  BY <1>2, CreateContainerStep, DeleteContainerStep DEF handleContainer
<1>3. ASSUME NEW c \in Container, NEW n \in Name, handleBlob(c, n) PROVE FilesOK'
  <2>1. ASSUME NEW body \in Body, NEW props \in Props, PutBlob(c, n, body, props) PROVE FilesOK'
    BY <2>1, PutBlobStep
  <2>2. ASSUME NEW id \in BlockID, NEW body \in Body, StageBlock(c, n, id, body) PROVE FilesOK'
    BY <2>2, StageBlockStep
  <2>3. ASSUME NEW ids \in BlockLists, NEW props \in Props, CommitBlockList(c, n, ids, props)
        PROVE  FilesOK'
    BY <2>3, CommitBlockListStep
  <2>4. ASSUME DeleteBlob(c, n) PROVE FilesOK'
    BY <2>4, DeleteBlobStep
  <2> QED
    BY <1>3, <2>1, <2>2, <2>3, <2>4 DEF handleBlob
<1>4. ASSUME Files PROVE FilesOK'
  BY <1>4, persistContainerStep, RemoveEntryStep, RemoveAllStep, streamBlockStep,
     streamToFileStep, commitWrittenBlobLockedStep, consumeBlocksStep, unlinkDataStep,
     unlinkMetaStep, unlinkBlocksStep DEF Files
<1> QED
  BY <1>1, <1>2, <1>3, <1>4, StopStep, loadStep DEF Next

\* What is known of the files holds in every state.
THEOREM FilesSound == Spec => []FilesOK
<1>1. Init => FilesOK
  BY InitFiles
<1>2. FilesOK /\ [Next]_vars => FilesOK'
  BY NextFiles
<1> QED
  BY <1>1, <1>2, PTL DEF Spec

-----------------------------------------------------------------------------
(* The index.                                                              *)

LEMMA FilesGone ==
  ASSUME FilesOK
  PROVE  Gone
<1> SUFFICES ASSUME NEW c \in Container, NEW n \in Name, Unlocked, settled[c] # Unsure,
                    settled[c] = Absent \/ settled[c][n] = Absent
             PROVE  /\ getBlob(c, n, NoRange).status \notin {200, 206}
                    /\ disk[c] # Absent => disk[c].meta[n] = Absent
  BY DEF Gone
<1>1. /\ TypeOK /\ up /\ busy = Absent
      /\ ContainerAt(c) /\ RemovedAt(c, n)
  BY DEF FilesOK, Unlocked
<1>2. ~Between(c, n)
  BY <1>1 DEF Between, At
<1>3. disk[c] # Absent => disk[c].meta[n] = Absent /\ disk[c].data[n] = Absent
  <2>1. CASE settled[c] = Absent
    <3>1. disk[c] \in {Absent, EmptyDir}
      BY <1>1, <2>1 DEF ContainerAt
    <3> QED
      BY <3>1 DEF EmptyDir, NoFiles
  <2>2. CASE settled[c] # Absent
    BY <1>1, <1>2, <2>2 DEF RemovedAt
  <2> QED
    BY <2>1, <2>2
<1>4. getBlob(c, n, NoRange).status \in {404, 500}
  BY <1>3 DEF getBlob, Failure
<1> QED
  BY <1>3, <1>4

\* The index and the directories are well-formed, and a blob that was removed, alone or
\* with its container, is in neither and not served: whatever fails or is cut off on the
\* way (DeleteBlob, DeleteContainer, persistence.go).
THEOREM IndexIsSound == Spec => []IndexSound
<1>1. FilesOK => IndexSound
  BY FilesGone DEF FilesOK, IndexSound
<1> QED
  BY <1>1, FilesSound, PTL

-----------------------------------------------------------------------------
(* What is served.                                                         *)

LEMMA SliceIs ==
  ASSUME NEW data \in Payload, NEW spec, NEW a \in Nat, NEW b \in Nat, a <= b, b < Len(data),
         {o \in 0..Len(data) - 1 : Requested(spec, o, Len(data))} = a..b
  PROVE  /\ Slice(spec, data) = SubSeq(data, a + 1, b + 1)
         /\ Len(SubSeq(data, a + 1, b + 1)) = b - a + 1
<1> DEFINE S == {o \in 0..Len(data) - 1 : Requested(spec, o, Len(data))}
           part == SubSeq(data, a + 1, b + 1)
<1>1. data \in Seq(Nat) /\ Len(data) \in Nat
  BY DEF Payload
<1>2. Cardinality(a..b) = b - a + 1 /\ a \in a..b
  BY FS_Interval
<1>3. Min(a..b) = a
  BY <1>2 DEF Min
<1>4. S = a..b /\ S # {}
  BY <1>2
<1>5. Slice(spec, data) = [i \in 1..Cardinality(S) |-> data[Min(S) + i]]
  BY <1>4 DEF Slice
<1>6. Slice(spec, data) = [i \in 1..b - a + 1 |-> data[a + i]]
  <2> HIDE DEF S
  <2> QED
    BY <1>2, <1>3, <1>4, <1>5
<1>7. \A i \in a + 1..b + 1 : data[i] \in Nat
  <2>1. \A i \in a + 1..b + 1 : i \in 1..Len(data)
    BY <1>1
  <2> QED
    BY <1>1, <2>1, ElementOfSeq
<1>8. /\ part \in Seq(Nat)
      /\ Len(part) = b - a + 1
      /\ \A i \in 1..b - a + 1 : part[i] = data[a + i]
  <2>1. a + 1 \in Int /\ b + 1 \in Int
    OBVIOUS
  <2>2. /\ SubSeq(data, a + 1, b + 1) \in Seq(Nat)
        /\ Len(SubSeq(data, a + 1, b + 1)) =
             IF a + 1 <= b + 1 THEN (b + 1) - (a + 1) + 1 ELSE 0
        /\ \A i \in 1..(b + 1) - (a + 1) + 1 :
             SubSeq(data, a + 1, b + 1)[i] = data[(a + 1) + i - 1]
    BY <1>7, <2>1, SubSeqProperties
  <2> HIDE DEF part
  <2>3. (b + 1) - (a + 1) + 1 = b - a + 1 /\ \A i \in Int : (a + 1) + i - 1 = a + i
    OBVIOUS
  <2> QED
    BY <2>2, <2>3 DEF part
<1> HIDE DEF part
<1>9. part = [i \in 1..b - a + 1 |-> part[i]]
  BY <1>8, LenProperties
<1>10. part = [i \in 1..b - a + 1 |-> data[a + i]]
  BY <1>8, <1>9
<1> QED
  BY <1>6, <1>8, <1>10 DEF part

\* A parsed range stands for the slice that is asked for: all of it, or from a to b.
Stands(range, spec, data) ==
  \/ range = Absent /\ Slice(spec, data) = data
  \/ \E a, b \in Nat :
       /\ range = <<a, b>> /\ range # Absent /\ b < Len(data)
       /\ Slice(spec, data) = SubSeq(data, a + 1, b + 1)
       /\ Len(SubSeq(data, a + 1, b + 1)) = b - a + 1

LEMMA RangeStands ==
  ASSUME NEW data \in Payload, NEW spec \in Ranges
  PROVE  Stands(parseRange(spec, Len(data)), spec, data)
<1> DEFINE size == Len(data)
           S == {o \in 0..size - 1 : Requested(spec, o, size)}
           range == parseRange(spec, size)
           last == IF spec.to = Absent \/ spec.to >= size THEN size - 1 ELSE spec.to
<1>1. size \in Nat
  BY DEF Payload
<1>2. /\ spec.from \in Nat \cup {Absent} /\ spec.to \in Nat \cup {Absent}
      /\ Absent \notin Nat
  BY BlobStoreAssumption DEF Ranges, NoRange
<1>3. \A a, b \in Nat : <<a, b>> # Absent
  <2>1. \A a, b \in Nat : <<a, b>> \in Payload
    BY DEF Payload
  <2> QED
    BY <2>1, Marks
<1>4. ASSUME range = Absent, S = {}
      PROVE  Stands(range, spec, data)
  BY <1>4 DEF Slice, Stands
<1>5. ASSUME NEW a \in Nat, NEW b \in Nat, a <= b, b < size, range = <<a, b>>, S = a..b
      PROVE  Stands(range, spec, data)
  <2>1. /\ Slice(spec, data) = SubSeq(data, a + 1, b + 1)
        /\ Len(SubSeq(data, a + 1, b + 1)) = b - a + 1
    BY <1>5, SliceIs
  <2>2. range # Absent
    BY <1>3, <1>5
  <2> HIDE DEF range
  <2> QED
    BY <1>5, <2>1, <2>2 DEF Stands
<1>6. CASE size = 0
  <2>1. range = Absent
    BY <1>6 DEF parseRange
  <2>2. S = {}
    BY <1>6
  <2> QED
    BY <1>4, <2>1, <2>2
<1>7. CASE size > 0 /\ spec.from = Absent
  <2>1. CASE spec.to \in {Absent, 0}
    <3>1. range = Absent
      BY <1>7, <2>1 DEF parseRange
    <3>2. S = {}
      BY <1>1, <1>2, <1>7, <2>1 DEF Requested
    <3> QED
      BY <1>4, <3>1, <3>2
  <2>2. CASE spec.to \notin {Absent, 0}
    <3> DEFINE a == IF spec.to > size THEN 0 ELSE size - spec.to
               b == size - 1
    <3>1. range = <<a, b>>
      BY <1>7, <2>2 DEF parseRange
    <3>2. spec.to \in Nat /\ spec.to > 0
      BY <1>2, <2>2
    <3>3. a \in Nat /\ b \in Nat /\ a <= b /\ b < size
      BY <1>1, <1>7, <3>2
    <3>4. S = a..b
      BY <1>1, <1>7, <2>2, <3>2 DEF Requested
    <3> HIDE DEF a, b
    <3> QED
      BY <1>5, <3>1, <3>3, <3>4
  <2> QED
    BY <2>1, <2>2
<1>8. CASE size > 0 /\ spec.from # Absent
  <2>0. spec.from \in Nat /\ last \in Nat /\ last < size
    BY <1>1, <1>2, <1>8
  <2>1. CASE spec.from >= size \/ last < spec.from
    <3>1. range = Absent
      BY <1>1, <1>8, <2>0, <2>1 DEF parseRange
    <3>2. S = {}
      BY <1>1, <1>2, <1>8, <2>0, <2>1 DEF Requested
    <3> QED
      BY <1>4, <3>1, <3>2
  <2>2. CASE spec.from < size /\ spec.from <= last
    <3>1. range = <<spec.from, last>>
      BY <1>8, <2>2 DEF parseRange
    <3>2. S = spec.from..last
      BY <1>1, <1>2, <1>8, <2>0, <2>2 DEF Requested
    <3> HIDE DEF last
    <3> QED
      BY <1>5, <2>0, <2>2, <3>1, <3>2
  <2> QED
    BY <1>1, <2>0, <2>1, <2>2
<1> QED
  BY <1>1, <1>6, <1>7, <1>8

\* What getBlob sends of a payload.
Sent(range, info, data) ==
  LET first == IF range = Absent THEN 0 ELSE range[1]
      end == IF range = Absent THEN Len(data)
             ELSE IF range[2] + 1 < Len(data) THEN range[2] + 1 ELSE Len(data)
  IN  [status |-> IF range = Absent THEN 200 ELSE 206,
       length |-> IF range = Absent THEN info.length ELSE range[2] - range[1] + 1,
       md5 |-> info.md5,
       body |-> SubSeq(data, first + 1, end)]

LEMMA SentIs ==
  ASSUME NEW range, NEW spec, NEW info, NEW data \in Payload, info.length = Len(data),
         Stands(range, spec, data)
  PROVE  LET r == Sent(range, info, data) IN
         /\ r.status \in {200, 206}
         /\ r.body = Slice(spec, data)
         /\ r.length = Len(r.body)
         /\ r.md5 = info.md5
<1>1. Len(data) \in Nat
  BY DEF Payload
<1>2. CASE range = Absent /\ Slice(spec, data) = data
  <2>1. SubSeq(data, 1, Len(data)) = data
    BY SubSeqFull DEF Payload
  <2>2. Sent(range, info, data) = [status |-> 200, length |-> Len(data), md5 |-> info.md5,
                                   body |-> SubSeq(data, 0 + 1, Len(data))]
    BY <1>2 DEF Sent
  <2>3. 0 + 1 = 1
    OBVIOUS
  <2> QED
    BY <1>2, <2>1, <2>2, <2>3
<1>3. ASSUME NEW a \in Nat, NEW b \in Nat, range = <<a, b>>, range # Absent, b < Len(data),
             Slice(spec, data) = SubSeq(data, a + 1, b + 1),
             Len(SubSeq(data, a + 1, b + 1)) = b - a + 1
      PROVE  LET r == Sent(range, info, data) IN
             /\ r.status \in {200, 206}
             /\ r.body = Slice(spec, data)
             /\ r.length = Len(r.body)
             /\ r.md5 = info.md5
  <2>1. range[1] = a /\ range[2] = b
    BY <1>3
  <2>2. (IF b + 1 < Len(data) THEN b + 1 ELSE Len(data)) = b + 1
    BY <1>1, <1>3
  <2>3. Sent(range, info, data) =
          [status |-> 206, length |-> b - a + 1, md5 |-> info.md5,
           body |-> SubSeq(data, a + 1, IF b + 1 < Len(data) THEN b + 1 ELSE Len(data))]
    BY <1>3, <2>1 DEF Sent
  <2> DEFINE part == SubSeq(data, a + 1, b + 1)
  <2>4. Sent(range, info, data) =
          [status |-> 206, length |-> b - a + 1, md5 |-> info.md5, body |-> part]
    BY <2>2, <2>3
  <2>5. Slice(spec, data) = part /\ Len(part) = b - a + 1
    BY <1>3
  <2> HIDE DEF part
  <2> QED
    BY <2>4, <2>5
<1> QED
  BY <1>2, <1>3 DEF Stands

LEMMA FilesServed ==
  ASSUME FilesOK
  PROVE  Served
<1> SUFFICES ASSUME NEW c \in Container, NEW n \in Name, Unlocked,
                    settled[c] \notin {Absent, Unsure}, settled[c][n] \notin {Absent, Unsure}
             PROVE  /\ mem[c][n] = settled[c][n].info
                    /\ \A spec \in Ranges :
                         LET r == getBlob(c, n, spec) IN
                         /\ r.status \in {200, 206}
                         /\ r.body = Slice(spec, settled[c][n].data)
                         /\ r.length = Len(r.body)
                         /\ r.md5 = settled[c][n].info.md5
  BY DEF Served
<1> DEFINE info == settled[c][n].info
           data == settled[c][n].data
<1>1. /\ TypeOK /\ up /\ busy = Absent
      /\ ContainerAt(c) /\ WrittenAt(c, n)
  BY DEF FilesOK, Unlocked
<1>2. ~Between(c, n)
  BY <1>1 DEF Between, At
<1>3. settled[c][n] \in [info : BlobInfo, data : Payload]
  BY <1>1 DEF TypeOK, Outcome
<1>4. info # Absent /\ data \in Payload /\ data # Absent
  BY <1>3, Marks
<1>5. /\ info.length = Len(data) /\ disk[c].data[n] = data
      /\ mem[c] # Absent /\ mem[c][n] = info /\ disk[c] # Absent
  BY <1>1, <1>2 DEF WrittenAt, ContainerAt
<1>6. ASSUME NEW spec \in Ranges
      PROVE  LET r == getBlob(c, n, spec) IN
             /\ r.status \in {200, 206}
             /\ r.body = Slice(spec, data)
             /\ r.length = Len(r.body)
             /\ r.md5 = info.md5
  <2>1. getBlob(c, n, spec) = Sent(parseRange(spec, mem[c][n].length), mem[c][n],
                                   disk[c].data[n])
    <3> HIDE DEF info, data
    <3>1. ~(mem[c] = Absent \/ mem[c][n] = Absent) /\ ~(disk[c] = Absent \/ disk[c].data[n] = Absent)
      BY <1>4, <1>5
    <3> QED
      BY <3>1 DEF getBlob, Sent
  <2> HIDE DEF info, data
  <2>2. getBlob(c, n, spec) = Sent(parseRange(spec, Len(data)), info, data)
    BY <1>5, <2>1
  <2> QED
    BY <1>4, <1>5, <2>2, RangeStands, SentIs
<1> QED
  BY <1>5, <1>6

\* A blob that was put, or committed from its blocks, is served as it was sent, range by
\* range and under its own length, MD5 and properties, until a request on it or its
\* container changes or breaks it (getBlob, parseRange, commitWrittenBlobLocked).
THEOREM BlobsServed == Spec => []Served
<1>1. FilesOK => Served
  BY FilesServed
<1> QED
  BY <1>1, FilesSound, PTL

=============================================================================
