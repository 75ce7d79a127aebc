------------------------------- MODULE Stores -------------------------------
(***************************************************************************)
(* The file-backed stores, the queries, and the process itself, which      *)
(* share nothing but Write of AtomicFile: a behaviour is one of a single   *)
(* service, and the others stay as they are in their Init.                 *)
(***************************************************************************)
EXTENDS AtomicFile, Sequences, FiniteSets

CONSTANTS
  Client, Table, Key, Prop, Value, Any, MaxEntity,            \* TableStore
  Secret, SecretValue, Attributes, MaxVersion, MaxUpdate,     \* KeyVault
  Queue, Metadata, Visibility, TTL, MaxMsg, MaxReceipt, MaxTime,
  Infinite, NoQueue, Nobody,                                  \* QueueStore
  MaxName, MaxResults, MaxPage, MaxChange,                    \* BlobListing
  Field, FieldValue, Phrase, MaxPhrase, maxFilterDepth,       \* TableFilter
  Column, Record, Expr, MaxRow, MaxStage,                     \* LogQuery
  Listeners, MaxStart,                                        \* Process
  None

ASSUME StoresAssumption ==
  /\ {MaxEntity, MaxVersion, MaxMsg, MaxReceipt, MaxTime} \subseteq Nat
  /\ Visibility \subseteq Nat /\ TTL \subseteq Nat \cup {Infinite}
  /\ MaxName \in Nat /\ MaxPage \in Nat \ {0}
  /\ MaxResults \subseteq Int /\ MaxResults # {}
  /\ MaxRow \in Nat
  /\ Listeners \in Nat /\ Listeners >= 2
  /\ None \notin Nat

VARIABLES
  service,
  tables, snapshot, running, clock, answer, unsaved,
  vault, secretsFile, serving, set, updates, deleted,
  mem, disk, up, queueRequest, issued, receipts, now, kept, gone, holder,
  virtual, dir, present, marker, listed, over, changes, throughout, sometime,
  expr, phrases, filter,
  table, rows, stages, seen, said, sorts,
  main, place, listener, goroutine, shuttingDown, errc, cancelled, ready, result, failed,
  keyFile, key, starts, minted

Tables == INSTANCE TableStore WITH MaxWrite <- MaxEntity

Vault == INSTANCE KeyVault

Queues == INSTANCE QueueStore WITH request <- queueRequest

ASSUME QueueAssumption == NoQueue \notin Queues!Content

Listing == INSTANCE BlobListing

Filters == INSTANCE TableFilter WITH Absent <- None

ASSUME FiltersAssumption == Filters!FilterAssumption

Logs == INSTANCE LogQuery WITH nil <- None, kept <- said

ASSUME LogsAssumption == Logs!LogAssumption

Starting == INSTANCE Process WITH Last <- Listeners, at <- place

tableVars == <<tables, snapshot, running, clock, answer, unsaved>>
vaultVars == <<vault, secretsFile, serving, set, updates, deleted>>
queueVars == <<mem, disk, up, queueRequest, issued, receipts, now, kept, gone, holder>>
listVars == <<virtual, dir, present, marker, listed, over, changes, throughout, sometime>>
filterVars == <<expr, phrases, filter>>
logVars == <<table, rows, stages, seen, said, sorts>>
mainVars == <<main, place, listener, goroutine, shuttingDown, errc, cancelled, ready, result,
              failed, keyFile, key, starts, minted>>
serviceVars ==
  <<vars, tableVars, vaultVars, queueVars, listVars, filterVars, logVars, mainVars>>
allVars == <<service, serviceVars>>

AnyInit ==
  /\ service \in {"file", "table", "vault", "queue", "list", "filter", "log", "process"}
  /\ Init
  /\ Tables!Init /\ Vault!Init /\ Queues!Init /\ Filters!Init /\ Logs!Init /\ Starting!Init
  /\ Listing!Init /\ (service # "list" => virtual = {} /\ present = {})

Only(name) == service = name /\ UNCHANGED service

AnyNext ==
  \/ Only("file") /\ Next
     /\ UNCHANGED <<tableVars, vaultVars, queueVars, listVars, filterVars, logVars, mainVars>>
  \/ Only("table") /\ Tables!Next
     /\ UNCHANGED <<vars, vaultVars, queueVars, listVars, filterVars, logVars, mainVars>>
  \/ Only("vault") /\ Vault!Next
     /\ UNCHANGED <<vars, tableVars, queueVars, listVars, filterVars, logVars, mainVars>>
  \/ Only("queue") /\ Queues!Next
     /\ UNCHANGED <<vars, tableVars, vaultVars, listVars, filterVars, logVars, mainVars>>
  \/ Only("list") /\ Listing!Next
     /\ UNCHANGED <<vars, tableVars, vaultVars, queueVars, filterVars, logVars, mainVars>>
  \/ Only("filter") /\ Filters!Next
     /\ UNCHANGED <<vars, tableVars, vaultVars, queueVars, listVars, logVars, mainVars>>
  \/ Only("log") /\ Logs!Next
     /\ UNCHANGED <<vars, tableVars, vaultVars, queueVars, listVars, filterVars, mainVars>>
  \/ Only("process") /\ Starting!Next
     /\ UNCHANGED <<vars, tableVars, vaultVars, queueVars, listVars, filterVars, logVars>>

AnySpec == AnyInit /\ [][AnyNext]_allVars

-----------------------------------------------------------------------------
(* The properties, joined by what they are about out of those their        *)
(* modules state and comment on.                                           *)

(* Every service's state is of its type: among others, a queue has no      *)
(* holes, no secret is without a current version, and no listener is open  *)
(* that run has not come to.                                               *)
TypesOK ==
  /\ TypeOK /\ Tables!TypeOK /\ Vault!TypeOK /\ Queues!TypeOK /\ Listing!TypeOK
  /\ Starting!TypeOK

(* Memory and the snapshots, some of whose writes have failed, agree:      *)
(* tables.json is what is in memory unless its last write failed; in the   *)
(* queues' file a message stays until a request removes it, does not come  *)
(* back once its removal is on disk, and can be settled with a receipt on  *)
(* disk until it is handed out again; a version in secrets.json is what it *)
(* was set to, and the current one the last set (persistLocked of each).   *)
SnapshotsSound ==
  Tables!Saved /\ Queues!Kept /\ Queues!NoReturn /\ Queues!HolderKeeps /\ Vault!VersionsSound

(* Whatever fails or dies in Write, nobody reads torn contents, and what   *)
(* was synced survives (atomicfile).                                       *)
CrashSafe == Intact /\ Survives

(* No message is handed out while another holds it (messages.go).          *)
Exclusive == Queues!Exclusive

(* A conditional write meets the entity its client was answered with       *)
(* (entities.go).                                                          *)
NoLostUpdate == Tables!NoLostUpdate

(* A version whose removal is on disk is never served again (store.go of   *)
(* keyvaultstore).                                                         *)
NeverBack == Vault!NeverBack

(* The pages of a list, joined, name what there is, once and in order,     *)
(* while names come and go, and a marker is not given for nothing          *)
(* (ListBlobs, ListContainers).                                            *)
Pages == Listing!NothingTwice /\ Listing!Complete /\ Listing!NoEmptyPage

(* A filter accepts what it means, and is refused if it means nothing or   *)
(* is nested too deep (filter_parser.go).                                  *)
FiltersMean == Filters!MeansWhatItSays

(* A query has the rows its stages say, in the order they say (kql.go).    *)
StagesMean == Logs!StagesMean

(* The process leaves nothing behind when it stops, tells why, and its     *)
(* health endpoint does not call it ready before every service is bound,   *)
(* nor later unless a listener has failed (server.go, management.go).      *)
StopsWell == Starting!NothingLeft /\ Starting!TellsWhy /\ Starting!HealthTells

(* The process stops: no goroutine it waits for is stuck (server.go).      *)
NeverHangs == Starting!NeverHangs

(* One key signs all tokens, across kills and restarts (signer.go).        *)
OneKey == Starting!OneKey
=============================================================================
