------------------------------ MODULE BlobStore ------------------------------
(***************************************************************************)
(* The Blob storage of one account: internal/stores/blobstore/fsstore,     *)
(* with the requests internal/servers/blobserver makes of it.              *)
(*                                                                         *)
(* A request that changes something holds the store's lock from its first  *)
(* file to its last, so requests are serial; each of its files is a step,  *)
(* after which the process may stop or the next file may fail.  A file is  *)
(* replaced whole or not at all (streamToFile as well as atomicfile write  *)
(* a temporary file and rename it, see AtomicFile), and what is renamed is *)
(* taken to survive.                                                       *)
(***************************************************************************)
EXTENDS Integers, SequencesExt

CONSTANTS
  Container, Name, BlockID,
  Staged,         \* bound: the names of blobs that are sent in blocks
  Body,           \* the bodies clients send, sequences of bytes
  Props,          \* the content settings and metadata they send
  BlockLists,     \* the block lists they commit, sequences of block ids
  maxBlobBytes,   \* the server's cap on one body
  Absent,         \* no container, blob, file or request
  Unsure          \* a request on it failed or was cut off after its first file

\* Files and blobs, and what the requests that went through have left of a blob.
Payload == Seq(Nat)
BlobInfo == [length : Nat, md5 : Payload \cup {Absent}, props : Props \cup {Absent}]
Index == [Name -> BlobInfo \cup {Absent}]
Directory ==
  [container : BOOLEAN, data : [Name -> Payload \cup {Absent}], meta : Index,
   blocks : [Name -> [BlockID -> Payload \cup {Absent}]]]
Outcome == [info : BlobInfo, data : Payload] \cup {Absent, Unsure}

\* A request at one of its files.
Request ==
  [step : {"container", "remove"}, c : Container]
    \cup [step : {"data", "meta", "consume"}, c : Container, n : Name, data : Payload,
          sent : Payload, info : BlobInfo, consume : BOOLEAN]
    \cup [step : {"block"}, c : Container, n : Name, id : BlockID, data : Payload]
    \cup [step : {"unlink data", "unlink meta", "unlink blocks"}, c : Container, n : Name,
          error : BOOLEAN]

ASSUME BlobStoreAssumption ==
  /\ Body \subseteq Payload
  /\ BlockLists \subseteq Seq(BlockID)
  /\ maxBlobBytes \in Nat
  /\ Absent # Unsure
  /\ \A mark \in {Absent, Unsure} :
       mark \notin Nat \cup Payload \cup BlobInfo \cup Index \cup Directory \cup Request
                 \cup [info : BlobInfo, data : Payload] \cup [Name -> Outcome]

VARIABLES
  mem,     \* Store.accounts: for each container its index of blobs
  disk,    \* for each container its directory
  up,      \* whether the process runs
  busy,    \* the request that holds the lock, and the file it is at
  settled  \* history: what the requests that went through have made of each
           \* container and blob

vars == <<mem, disk, up, busy, settled>>

NoFiles == [n \in Name |-> Absent]
NoBlocks == [n \in Name |-> [i \in BlockID |-> Absent]]
EmptyDir == [container |-> FALSE, data |-> NoFiles, meta |-> NoFiles, blocks |-> NoBlocks]

\* A BlobInfo.  The MD5 stands for the payload it was computed from.
Info(length, md5, props) == [length |-> length, md5 |-> md5, props |-> props]
Placeholder == Info(0, Absent, Absent)

Init ==
  /\ mem = [c \in Container |-> Absent]
  /\ disk = mem
  /\ up = TRUE
  /\ busy = Absent
  /\ settled = mem

-----------------------------------------------------------------------------
(* Whoever wants the lock finds it free; lookupContainer.                  *)
Unlocked == up /\ busy = Absent
lookupContainer(c) == Unlocked /\ mem[c] # Absent

At(step) == busy # Absent /\ busy.step = step
Release == busy' = Absent

(* A request has left blob n of container c with this.                     *)
Settle(c, n, outcome) ==
  settled' = [settled EXCEPT ![c] =
                [m \in Name |-> IF m = n THEN outcome
                                ELSE IF @ = Unsure THEN Unsure ELSE @[m]]]

(* persistContainer makes the directory, then the file that makes it a     *)
(* container.                                                              *)
CreateContainer(c) ==
  /\ Unlocked
  /\ mem[c] = Absent
  /\ disk' = [disk EXCEPT ![c] = IF @ = Absent THEN EmptyDir ELSE @]
  /\ busy' = [step |-> "container", c |-> c]
  /\ UNCHANGED <<mem, up, settled>>

persistContainer ==
  /\ At("container")
  /\ Release
  /\ \/ /\ disk' = [disk EXCEPT ![busy.c].container = TRUE]
        /\ mem' = [mem EXCEPT ![busy.c] = NoFiles]
        /\ settled' = [settled EXCEPT ![busy.c] = NoFiles]
     \/ UNCHANGED <<mem, disk, settled>>
  /\ UNCHANGED up

(* DeleteContainer: RemoveAll takes the directory apart in any order and   *)
(* may stop at an error, which leaves the index as it is.                  *)
DeleteContainer(c) ==
  /\ lookupContainer(c)
  /\ busy' = [step |-> "remove", c |-> c]
  /\ UNCHANGED <<mem, disk, up, settled>>

RemoveEntry ==
  /\ At("remove")
  /\ LET d == disk[busy.c] IN
       disk' \in { [disk EXCEPT ![busy.c] = e] : e \in
                     {[d EXCEPT !.container = FALSE]}
                       \cup {[d EXCEPT !.data[n] = Absent] : n \in Name}
                       \cup {[d EXCEPT !.meta[n] = Absent] : n \in Name}
                       \cup {[d EXCEPT !.blocks[n][i] = Absent] : n \in Name, i \in BlockID} }
  /\ settled' = [settled EXCEPT ![busy.c] = Unsure]
  /\ UNCHANGED <<mem, up, busy>>

RemoveAll ==
  /\ At("remove")
  /\ Release
  /\ \/ /\ disk' = [disk EXCEPT ![busy.c] = Absent]
        /\ mem' = [mem EXCEPT ![busy.c] = Absent]
        /\ settled' = [settled EXCEPT ![busy.c] = Absent]
     \/ UNCHANGED <<mem, disk, settled>>
  /\ UNCHANGED up

-----------------------------------------------------------------------------
(* Writing blobs.                                                          *)

(* What the server reads of a body; the rest is left.                      *)
LimitReader(body) == SubSeq(body, 1, IF Len(body) < maxBlobBytes THEN Len(body)
                                     ELSE maxBlobBytes)

\* The data to write, what the client asked for, and whether blocks are used up.
Writing(c, n, data, sent, info, consume) ==
  [step |-> "data", c |-> c, n |-> n, data |-> data, sent |-> sent, info |-> info,
   consume |-> consume]

PutBlob(c, n, body, props) ==
  LET data == LimitReader(body) IN
  /\ lookupContainer(c)
  /\ busy' = Writing(c, n, data, data, Info(Len(data), data, props), FALSE)
  /\ UNCHANGED <<mem, disk, up, settled>>

StageBlock(c, n, id, body) ==
  /\ lookupContainer(c)
  /\ mem' = [mem EXCEPT ![c][n] = IF @ = Absent THEN Placeholder ELSE @]
  /\ busy' = [step |-> "block", c |-> c, n |-> n, id |-> id, data |-> LimitReader(body)]
  /\ UNCHANGED <<disk, up, settled>>

streamBlock ==
  /\ At("block")
  /\ Release
  /\ \/ disk' = [disk EXCEPT ![busy.c].blocks[busy.n][busy.id] = busy.data]
     \/ UNCHANGED disk
  /\ UNCHANGED <<mem, up, settled>>

MutAssembleBackwards(c, n, ids) ==
  FlattenSeq([i \in DOMAIN ids |-> disk[c].blocks[n][ids[Len(ids) + 1 - i]]])

assembleBlocks(c, n, ids) ==
  FlattenSeq([i \in DOMAIN ids |-> disk[c].blocks[n][ids[i]]])

\* What the client means by its list: these blocks, one after the other.
Listed(blocks, ids) ==
  LET joined[i \in 0..Len(ids)] == IF i = 0 THEN <<>> ELSE joined[i - 1] \o blocks[ids[i]]
  IN  joined[Len(ids)]

CommitBlockList(c, n, ids, props) ==
  /\ lookupContainer(c)
  /\ mem[c][n] # Absent
  /\ \A i \in DOMAIN ids : disk[c].blocks[n][ids[i]] # Absent
  /\ LET data == assembleBlocks(c, n, ids)
         sent == Listed(disk[c].blocks[n], ids)
     IN  busy' = Writing(c, n, data, sent, Info(Len(data), Absent, props), TRUE)
  /\ UNCHANGED <<mem, disk, up, settled>>

(* The data file is replaced first; a body that breaks off or an error     *)
(* before the rename leaves everything as it was.                          *)
streamToFile ==
  /\ At("data")
  /\ \/ /\ disk' = [disk EXCEPT ![busy.c].data[busy.n] = busy.data]
        /\ busy' = [busy EXCEPT !.step = "meta"]
     \/ Release /\ UNCHANGED disk
  /\ UNCHANGED <<mem, up, settled>>

commitWrittenBlobLocked ==
  /\ At("meta")
  /\ \/ /\ disk' = [disk EXCEPT ![busy.c].meta[busy.n] = busy.info]
        /\ mem' = [mem EXCEPT ![busy.c][busy.n] = busy.info]
        /\ Settle(busy.c, busy.n, [info |-> busy.info, data |-> busy.sent])
        /\ IF busy.consume THEN busy' = [busy EXCEPT !.step = "consume"] ELSE Release
     \/ /\ Settle(busy.c, busy.n, Unsure)
        /\ Release
        /\ UNCHANGED <<mem, disk>>
  /\ UNCHANGED up

(* What RemoveAll may leave of a blob's block directory: the files it did  *)
(* not come to, or could not remove.                                       *)
BlocksRemoved(c, n) ==
  { [disk EXCEPT ![c].blocks[n] = [i \in BlockID |-> IF i \in gone THEN Absent ELSE @[i]]] :
      gone \in SUBSET BlockID }

(* CommitBlockList removes the blocks it has used, and ignores errors.     *)
consumeBlocks ==
  /\ At("consume")
  /\ Release
  /\ disk' \in BlocksRemoved(busy.c, busy.n)
  /\ UNCHANGED <<mem, up, settled>>

(* DeleteBlob removes three files one after the other and ignores errors,  *)
(* then forgets the blob.                                                  *)
DeleteBlob(c, n) ==
  /\ lookupContainer(c)
  /\ mem[c][n] # Absent
  /\ busy' = [step |-> "unlink data", c |-> c, n |-> n, error |-> FALSE]
  /\ UNCHANGED <<mem, disk, up, settled>>

(* Remove took the directory to what it is without the file, or failed.    *)
Unlink(removed, next) ==
  \/ /\ disk' = removed
     /\ busy' = [busy EXCEPT !.step = next]
  \/ /\ disk' = disk
     /\ busy' = [busy EXCEPT !.step = next, !.error = TRUE]

unlinkData ==
  /\ At("unlink data")
  /\ Unlink([disk EXCEPT ![busy.c].data[busy.n] = Absent], "unlink meta")
  /\ Settle(busy.c, busy.n, Unsure)
  /\ UNCHANGED <<mem, up>>

MutUnlinkMetaForgotten ==
  /\ At("unlink meta")
  /\ busy' = [busy EXCEPT !.step = "unlink blocks"]
  /\ UNCHANGED <<mem, disk, up, settled>>

unlinkMeta ==
  /\ At("unlink meta")
  /\ Unlink([disk EXCEPT ![busy.c].meta[busy.n] = Absent], "unlink blocks")
  /\ UNCHANGED <<mem, up, settled>>

unlinkBlocks ==
  /\ At("unlink blocks")
  /\ disk' \in BlocksRemoved(busy.c, busy.n)
  /\ mem' = [mem EXCEPT ![busy.c][busy.n] = Absent]
  /\ IF busy.error THEN UNCHANGED settled ELSE Settle(busy.c, busy.n, Absent)
  /\ Release
  /\ UNCHANGED up

-----------------------------------------------------------------------------
(* The process stops, between two requests or two files of one.            *)
Stop ==
  /\ up
  /\ up' = FALSE
  /\ mem' = [c \in Container |-> Absent]
  /\ Release
  /\ IF At("meta") THEN Settle(busy.c, busy.n, Unsure) ELSE UNCHANGED settled
  /\ UNCHANGED disk

(* loadContainer fails on a directory without its container file, and load *)
(* and New with it.                                                        *)
Loadable == \A c \in Container : disk[c] # Absent => disk[c].container

loadContainer(c) == disk[c].meta

load ==
  /\ ~up
  /\ Loadable
  /\ up' = TRUE
  /\ mem' = [c \in Container |-> IF disk[c] = Absent THEN Absent ELSE loadContainer(c)]
  /\ UNCHANGED <<disk, busy, settled>>

-----------------------------------------------------------------------------
(* Reading: requests that change nothing.                                  *)

NoRange == [from |-> Absent, to |-> Absent]
Ranges == [from : 0..maxBlobBytes + 1, to : 0..maxBlobBytes + 1]
  \cup [from : 0..maxBlobBytes + 1, to : {Absent}]
  \cup [from : {Absent}, to : 0..maxBlobBytes + 1]   \* bytes=-n: the last n
  \cup {NoRange}

(* The first and last offset to send, or Absent for the whole payload.     *)
parseRange(spec, size) ==
  LET last == IF spec.to = Absent \/ spec.to >= size THEN size - 1 ELSE spec.to IN
  CASE size > 0 /\ spec.from = Absent /\ spec.to \notin {Absent, 0} ->
         <<IF spec.to > size THEN 0 ELSE size - spec.to, size - 1>>
    [] size > 0 /\ spec.from # Absent /\ spec.from < size /\ spec.from <= last ->
         <<spec.from, last>>
    [] OTHER -> Absent

Failure(status) == [status |-> status, length |-> 0, md5 |-> Absent, body |-> <<>>]

(* GetBlob opens the data file before the lock is released; what follows   *)
(* reads that file, whatever replaces it.  A Copy ends where the file ends.*)
getBlob(c, n, spec) ==
  IF mem[c] = Absent \/ mem[c][n] = Absent THEN Failure(404)
  ELSE IF disk[c] = Absent \/ disk[c].data[n] = Absent THEN Failure(500)
  ELSE LET info == mem[c][n]
           data == disk[c].data[n]
           range == parseRange(spec, info.length)
           first == IF range = Absent THEN 0 ELSE range[1]
           end == IF range = Absent THEN Len(data)
                  ELSE IF range[2] + 1 < Len(data) THEN range[2] + 1 ELSE Len(data)
       IN [status |-> IF range = Absent THEN 200 ELSE 206,
           length |-> IF range = Absent THEN info.length ELSE range[2] - range[1] + 1,
           md5 |-> info.md5,
           body |-> SubSeq(data, first + 1, end)]

handleContainer(c) == CreateContainer(c) \/ DeleteContainer(c)

handleBlob(c, n) ==
  \/ \E body \in Body, props \in Props : PutBlob(c, n, body, props)
  \/ \E id \in BlockID, body \in Body : n \in Staged /\ StageBlock(c, n, id, body)
  \/ \E ids \in BlockLists, props \in Props : CommitBlockList(c, n, ids, props)
  \/ DeleteBlob(c, n)

Files ==
  \/ persistContainer \/ RemoveEntry \/ RemoveAll
  \/ streamBlock \/ streamToFile \/ commitWrittenBlobLocked \/ consumeBlocks
  \/ unlinkData \/ unlinkMeta \/ unlinkBlocks

Next ==
  \/ \E c \in Container : handleContainer(c) \/ \E n \in Name : handleBlob(c, n)
  \/ Files \/ Stop \/ load

Spec == Init /\ [][Next]_vars

-----------------------------------------------------------------------------
(* Properties.                                                             *)

(* The index and the directories stay well-formed, and no blob is in the   *)
(* index of a container that has no directory.                             *)
TypeOK ==
  /\ mem \in [Container -> Index \cup {Absent}]
  /\ disk \in [Container -> Directory \cup {Absent}]
  /\ up \in BOOLEAN
  /\ settled \in [Container -> [Name -> Outcome] \cup {Absent, Unsure}]
  /\ \A c \in Container : mem[c] # Absent => disk[c] # Absent

Requested(spec, offset, size) ==
  IF spec.from = Absent THEN spec.to # Absent /\ offset >= size - spec.to
  ELSE offset >= spec.from /\ (spec.to = Absent \/ offset <= spec.to)

(* The bytes of data that a range asks for, all of them if that is none.   *)
Slice(spec, data) ==
  LET S == {o \in 0..Len(data) - 1 : Requested(spec, o, Len(data))}
  IN  IF S = {} THEN data ELSE [i \in 1..Cardinality(S) |-> data[Min(S) + i]]

(* A blob that was put, or committed from its blocks, is served as it was  *)
(* sent, range by range, under its own length, MD5 and properties, until a *)
(* request on that blob or its container changes or breaks it: whatever    *)
(* else fails, is staged, or stops the process in between.                 *)
Served ==
  \A c \in Container, n \in Name :
    Unlocked /\ settled[c] \notin {Absent, Unsure} /\ settled[c][n] \notin {Absent, Unsure}
      => /\ mem[c][n] = settled[c][n].info
         /\ \A spec \in Ranges :
              LET r == getBlob(c, n, spec) IN
              /\ r.status \in {200, 206}
              /\ r.body = Slice(spec, settled[c][n].data)
              /\ r.length = Len(r.body)
              /\ r.md5 = settled[c][n].info.md5

(* A blob that was removed, alone or with its container, is not served     *)
(* again and not found by a restart, though its name is staged anew.       *)
Gone ==
  \A c \in Container, n \in Name :
    Unlocked /\ settled[c] # Unsure /\ (settled[c] = Absent \/ settled[c][n] = Absent)
      => /\ getBlob(c, n, NoRange).status \notin {200, 206}
         /\ disk[c] # Absent => disk[c].meta[n] = Absent

(* The index and the directories are well-formed, and what was removed is  *)
(* in neither (persistence.go, DeleteBlob, DeleteContainer).               *)
IndexSound == TypeOK /\ Gone

(* "every mutation is written through to disk so that a container restart  *)
(* preserves state": the process can always start again.                   *)
StartsAgain == ~up => Loadable
=============================================================================
