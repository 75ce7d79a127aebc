------------------------------ MODULE TableStore ------------------------------
(***************************************************************************)
(* The tables of one account: internal/stores/tablestore, with the entity  *)
(* requests of internal/servers/tableserver.  Clients read an entity and   *)
(* later write it on the condition that it is still what they read.        *)
(*                                                                         *)
(* A request holds the store's mutex throughout, the snapshot's writing    *)
(* included, whose error is ignored.                                       *)
(***************************************************************************)
EXTENDS Integers, FiniteSets

CONSTANTS
  Client,
  Table, Key,      \* table names; pairs of a partition key and a row key
  Prop, Value,     \* the properties an entity may have
  Any,             \* If-Match: *
  MaxWrite,        \* bound: how many entities are built
  None             \* no property, entity, condition or answer

VARIABLES
  tables,     \* Store.accounts[account]: by name, the entities by key
  snapshot,   \* tables.json
  running,
  clock,      \* time.Now of the last entity built; see buildEntity
  answer,     \* what each client was last answered about an entity
  \* History.
  unsaved     \* the last write of the snapshot failed

tableVars == <<tables, snapshot, running, clock, answer, unsaved>>

Props == [Prop -> Value \cup {None}]
Entity == [props : Props, timestamp : 1..MaxWrite]
Empty == [k \in Key |-> None]

Init ==
  /\ tables = <<>>
  /\ snapshot = <<>>
  /\ running = TRUE
  /\ clock = 0
  /\ answer = [c \in Client |-> None]
  /\ unsaved = FALSE

-----------------------------------------------------------------------------
MutEtagForSeconds(timestamp) == timestamp \div 2

\* The seven digits of the fraction keep two timestamps apart.
etagFor(timestamp) == timestamp

\* Empty or "*" always match an entity that is there.
matchETag(e, ifMatch) ==
  ifMatch \in {None, Any} \/ ifMatch = etagFor(e.timestamp)

(* Of the keys in a body, those the server manages are dropped and the     *)
(* entity's own put in, so props are the client's only.  The clock moves   *)
(* on between two entities, the first being written to disk before the     *)
(* second is built, and is not set back.                                   *)
buildEntity(props) == [props |-> props, timestamp |-> clock + 1]

Tick == clock < MaxWrite /\ clock' = clock + 1

(* persistLocked, whatever it wrote before.                                *)
persistLocked ==
  \/ snapshot' = tables' /\ unsaved' = FALSE
  \/ unsaved' = TRUE /\ UNCHANGED snapshot

Answered(c, t, k, ifMatch, e) ==
  answer' = [answer EXCEPT ![c] =
               [table |-> t, key |-> k, ifMatch |-> ifMatch, entity |-> e]]

Found(t) == running /\ t \in DOMAIN tables

put(t, k, e) == tables' = [tables EXCEPT ![t][k] = e]

CreateTable(t) ==
  /\ running /\ t \notin DOMAIN tables
  /\ tables' = [u \in DOMAIN tables \cup {t} |-> IF u = t THEN Empty ELSE tables[u]]
  /\ persistLocked
  /\ UNCHANGED <<running, clock, answer>>

DeleteTable(t) ==
  /\ Found(t)
  /\ tables' = [u \in DOMAIN tables \ {t} |-> tables[u]]
  /\ persistLocked
  /\ UNCHANGED <<running, clock, answer>>

InsertEntity(c, t, k, props) ==
  /\ Found(t) /\ tables[t][k] = None
  /\ Tick
  /\ put(t, k, buildEntity(props))
  /\ persistLocked
  /\ Answered(c, t, k, None, buildEntity(props))
  /\ UNCHANGED running

(* ListEntities answers so for each of the table's entities.               *)
GetEntity(c, t, k) ==
  /\ Found(t) /\ tables[t][k] # None
  /\ Answered(c, t, k, None, tables[t][k])
  /\ UNCHANGED <<tables, snapshot, running, clock, unsaved>>

Merged(old, new) == [p \in Prop |-> IF new[p] = None THEN old[p] ELSE new[p]]

(* ReplaceEntity and MergeEntity.                                          *)
update(c, t, k, props, ifMatch, merge) ==
  LET existing == tables[t][k]
      e == buildEntity(IF merge /\ existing # None THEN Merged(existing.props, props) ELSE props) IN
  /\ Found(t)
  /\ IF existing = None THEN ifMatch = None ELSE matchETag(existing, ifMatch)
  /\ Tick
  /\ put(t, k, e)
  /\ persistLocked
  /\ Answered(c, t, k, ifMatch, e)
  /\ UNCHANGED running

DeleteEntity(c, t, k, ifMatch) ==
  /\ Found(t) /\ tables[t][k] # None
  /\ matchETag(tables[t][k], ifMatch)
  /\ put(t, k, None)
  /\ persistLocked
  /\ Answered(c, t, k, ifMatch, None)
  /\ UNCHANGED <<running, clock>>

(* The end of the process, and New.                                        *)
Stop == running /\ running' = FALSE /\ UNCHANGED <<tables, snapshot, clock, answer, unsaved>>

load ==
  /\ ~running
  /\ tables' = snapshot
  /\ running' = TRUE
  /\ unsaved' = FALSE
  /\ UNCHANGED <<snapshot, clock, answer>>

-----------------------------------------------------------------------------
\* What a client may ask for: no condition, any, or that of its last answer.
Conditions(c, t, k) ==
  {None, Any} \cup
  {etagFor(a.entity.timestamp) :
     a \in {b \in {answer[c]} : b # None /\ b.table = t /\ b.key = k /\ b.entity # None}}

Next ==
  \/ \E t \in Table : CreateTable(t) \/ DeleteTable(t)
  \/ \E c \in Client, t \in Table, k \in Key :
       \/ \E props \in Props : InsertEntity(c, t, k, props)
       \/ GetEntity(c, t, k)
       \/ \E ifMatch \in Conditions(c, t, k) :
            \/ \E props \in Props, merge \in BOOLEAN : update(c, t, k, props, ifMatch, merge)
            \/ DeleteEntity(c, t, k, ifMatch)
  \/ Stop \/ load

Spec == Init /\ [][Next]_tableVars

-----------------------------------------------------------------------------
(* Properties.                                                             *)

Tables == UNION {[S -> [Key -> Entity \cup {None}]] : S \in SUBSET Table}

(* Both copies are tables of entities.                                     *)
TypeOK ==
  /\ tables \in Tables /\ snapshot \in Tables
  /\ clock \in 0..MaxWrite

(* A write on the condition of an ETag meets the very entity the client    *)
(* was answered with, or nothing: not a later one, one created anew, or    *)
(* one that came back with the snapshot (update, DeleteEntity).            *)
NoLostUpdate ==
  [][\A c \in Client :
       LET a == answer'[c] IN
       a # answer[c] /\ a.ifMatch \notin {None, Any}
       => /\ a.table \in DOMAIN tables
          /\ tables[a.table][a.key] = answer[c].entity]_tableVars

(* The snapshot is what is in memory unless its last write failed, and the *)
(* next that does not makes good for it.                                   *)
Saved == running /\ ~unsaved => snapshot = tables
=============================================================================
