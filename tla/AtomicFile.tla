----------------------------- MODULE AtomicFile -----------------------------
(***************************************************************************)
(* Write of internal/utils/atomicfile: replace the contents of path by     *)
(* way of path.tmp, over a file system that keeps a volatile and a durable *)
(* copy of its two directory entries and of the files' data, and loses the *)
(* volatile one in a power failure.                                        *)
(***************************************************************************)
EXTENDS Integers

CONSTANTS
  Inode,      \* the file system's inodes
  NoInode,    \* the entry of a name that does not exist
  MaxWrite    \* bound: how many times Write is called

ASSUME AtomicFileAssumption == NoInode \notin Inode /\ MaxWrite \in Nat

\* The n-th call writes the contents n; anything incomplete is Torn.
Torn == 0
Data == 0..MaxWrite

VARIABLES
  names, data,           \* directory entries and file contents as processes see them
  diskNames, diskData,   \* what a power failure leaves of them
  at,                    \* the step Write is about to take
  n,                     \* how many calls there have been
  synced                 \* the last call that synced the directory; 0, none

fsVars == <<names, data, diskNames, diskData>>
vars == <<fsVars, at, n, synced>>

Entry == [path : Inode \cup {NoInode}, tmp : Inode \cup {NoInode}]

Init ==
  /\ names = [path |-> NoInode, tmp |-> NoInode]
  /\ data = [i \in Inode |-> Torn]
  /\ diskNames = names
  /\ diskData = data
  /\ at = "return"
  /\ n = 0
  /\ synced = 0

-----------------------------------------------------------------------------
(* The steps of Write.                                                     *)

Free(i) == i \notin {names.path, names.tmp, diskNames.path, diskNames.tmp}

(* OpenFile: create path.tmp, or truncate the one a crash left there.      *)
MutOpenInPlace ==
  /\ at = "return"
  /\ n < MaxWrite
  /\ n' = n + 1
  /\ IF names.path # NoInode
     THEN /\ data' = [data EXCEPT ![names.path] = Torn]
          /\ names' = [names EXCEPT !.tmp = names.path]
     ELSE \E i \in Inode : /\ Free(i)
                           /\ names' = [names EXCEPT !.tmp = i]
                           /\ data' = [data EXCEPT ![i] = Torn]
  /\ at' = "write"
  /\ UNCHANGED <<diskNames, diskData, synced>>

Open ==
  /\ at = "return"
  /\ n < MaxWrite
  /\ n' = n + 1
  /\ \E i \in Inode :
       /\ IF names.tmp = NoInode THEN Free(i) ELSE i = names.tmp
       /\ names' = [names EXCEPT !.tmp = i]
       /\ data' = [data EXCEPT ![i] = Torn]
  /\ at' = "write"
  /\ UNCHANGED <<diskNames, diskData, synced>>

WriteData ==
  /\ at = "write"
  /\ data' = [data EXCEPT ![names.tmp] = n]
  /\ at' = "sync"
  /\ UNCHANGED <<names, diskNames, diskData, n, synced>>

(* Sync, and Close, which changes nothing.                                 *)
Sync ==
  /\ at = "sync"
  /\ diskData' = [diskData EXCEPT ![names.tmp] = data[names.tmp]]
  /\ at' = "rename"
  /\ UNCHANGED <<names, data, diskNames, n, synced>>

MutRenameRemovesFirst ==
  /\ at = "rename"
  /\ IF names.path # NoInode
     THEN names' = [names EXCEPT !.path = NoInode] /\ at' = at
     ELSE names' = [path |-> names.tmp, tmp |-> NoInode] /\ at' = "dirSync"
  /\ UNCHANGED <<data, diskNames, diskData, n, synced>>

Rename ==
  /\ at = "rename"
  /\ names' = [path |-> names.tmp, tmp |-> NoInode]
  /\ at' = "dirSync"
  /\ UNCHANGED <<data, diskNames, diskData, n, synced>>

(* The directory's fsync is best-effort: when it fails Write returns nil   *)
(* all the same.                                                           *)
MutSyncDirNothing ==
  /\ at = "dirSync"
  /\ synced' = n
  /\ at' = "return"
  /\ UNCHANGED <<fsVars, n>>

SyncDir ==
  /\ at = "dirSync"
  /\ \/ diskNames' = names /\ synced' = n
     \/ UNCHANGED <<diskNames, synced>>
  /\ at' = "return"
  /\ UNCHANGED <<names, data, diskData, n>>

(* An error in writing, syncing, closing or renaming: path.tmp is removed, *)
(* unless that fails too.  An error in opening changes nothing.            *)
Fail ==
  /\ at \in {"write", "sync", "rename"}
  /\ names' \in {names, [names EXCEPT !.tmp = NoInode]}
  /\ at' = "return"
  /\ UNCHANGED <<data, diskNames, diskData, n, synced>>

-----------------------------------------------------------------------------
(* The file system and the machine.                                        *)

(* The kernel may write anything back early: a file's data, in part or     *)
(* whole, and the directory, whose operations are journalled.              *)
WriteBack ==
  /\ \/ /\ \E i \in Inode : /\ diskData[i] # data[i]
                            /\ \E d \in {Torn, data[i]} :
                                 diskData' = [diskData EXCEPT ![i] = d]
        /\ UNCHANGED diskNames
     \/ /\ diskNames' = names
        /\ UNCHANGED diskData
  /\ UNCHANGED <<names, data, at, n, synced>>

(* The process is killed, or the power fails, anywhere in Write.           *)
Kill ==
  /\ at # "return"
  /\ at' = "return"
  /\ UNCHANGED <<fsVars, n, synced>>

PowerFailure ==
  /\ names' = diskNames
  /\ data' = diskData
  /\ at' = "return"
  /\ UNCHANGED <<diskNames, diskData, n, synced>>

Next ==
  \/ Open \/ WriteData \/ Sync \/ Rename \/ SyncDir \/ Fail
  \/ WriteBack \/ Kill \/ PowerFailure

Spec == Init /\ [][Next]_vars

-----------------------------------------------------------------------------
(* Properties.                                                             *)

(* The variables have their types, and Write has path.tmp to work on until *)
(* the rename.                                                             *)
TypeOK ==
  /\ names \in Entry /\ diskNames \in Entry
  /\ data \in [Inode -> Data] /\ diskData \in [Inode -> Data]
  /\ at \in {"return", "write", "sync", "rename", "dirSync"}
  /\ n \in 0..MaxWrite
  /\ synced \in 0..n
  /\ at \in {"write", "sync", "rename"} => names.tmp # NoInode

(* "A crash at any point leaves either the old file or the fully written   *)
(* new file, never a truncated or invisible one": whoever opens path, now  *)
(* or after a power failure, reads contents that one call wrote whole.     *)
Intact ==
  /\ names.path # NoInode => data[names.path] # Torn
  /\ diskNames.path # NoInode => diskData[diskNames.path] # Torn

(* Contents whose directory entry was synced are never lost: a power       *)
(* failure leaves them or those of a later call.                           *)
Survives ==
  synced # 0 => diskNames.path # NoInode /\ diskData[diskNames.path] >= synced

(* No older contents come back on disk, whatever path.tmp a crash left.    *)
NeverOlder ==
  [][diskNames.path # NoInode =>
       /\ diskNames'.path # NoInode
       /\ diskData'[diskNames'.path] >= diskData[diskNames.path]]_vars
=============================================================================
