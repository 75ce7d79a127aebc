------------------------------- MODULE KeyVault -------------------------------
(***************************************************************************)
(* The secrets of one vault: internal/stores/keyvaultstore, with the       *)
(* requests of internal/servers/kvserver.  The challenge that precedes a   *)
(* client's first request changes nothing.                                 *)
(*                                                                         *)
(* A request holds the store's mutex throughout, the snapshot's writing    *)
(* included, whose error is ignored.                                       *)
(***************************************************************************)
EXTENDS Integers, SequencesExt

CONSTANTS
  Secret,          \* names
  SecretValue,
  Attributes,      \* content types, tags and attributes
  MaxVersion,      \* bound: how many versions are set
  MaxUpdate        \* bound: how many times attributes are updated

VARIABLES
  vault,           \* by name, the versions of the secret
  secretsFile,     \* secrets.json
  serving,
  set,             \* the n-th version set, by SetSecret: its name and value
  updates,
  \* History.
  deleted          \* the versions whose removal is on disk

vaultVars == <<vault, secretsFile, serving, set, updates, deleted>>

\* Versions are 128 random bits, no two alike: here, numbers.
Version == 1..MaxVersion

VersionsIn(v) == UNION {DOMAIN v[name].Versions : name \in DOMAIN v}

MutNewVersionCounts == Cardinality(VersionsIn(vault)) + 1

newVersion == Len(set) + 1

Init ==
  /\ vault = <<>>
  /\ secretsFile = <<>>
  /\ serving = TRUE
  /\ set = <<>>
  /\ updates = 0
  /\ deleted = {}

-----------------------------------------------------------------------------
(* persistLocked.                                                          *)
persistLocked ==
  \/ secretsFile' = vault' /\ deleted' = DOMAIN set' \ VersionsIn(vault')
  \/ UNCHANGED <<secretsFile, deleted>>

With(name, entry) ==
  [m \in DOMAIN vault \cup {name} |-> IF m = name THEN entry ELSE vault[m]]

NewEntry == [Current |-> 0, Order |-> <<>>, Versions |-> <<>>]

SetSecret(name, value, attrs) ==
  LET e == IF name \in DOMAIN vault THEN vault[name] ELSE NewEntry
      ver == newVersion
  IN  /\ serving /\ ver \in Version
      /\ set' = Append(set, [name |-> name, value |-> value])
      /\ vault' = With(name,
           [Current |-> ver,
            Order |-> Append(e.Order, ver),
            Versions |-> [w \in DOMAIN e.Versions \cup {ver} |->
                            IF w = ver THEN [value |-> value, attrs |-> attrs]
                                       ELSE e.Versions[w]]])
      /\ persistLocked
      /\ UNCHANGED <<serving, updates>>

\* lookupLocked, and the version asked for or, by 0, the current one.
Found(name, version) ==
  /\ serving
  /\ name \in DOMAIN vault
  /\ version \in DOMAIN vault[name].Versions \cup {0}

VersionOf(name, version) == IF version = 0 THEN vault[name].Current ELSE version

UpdateSecret(name, version, attrs) ==
  /\ Found(name, version)
  /\ updates < MaxUpdate
  /\ updates' = updates + 1
  /\ vault' = [vault EXCEPT ![name].Versions[VersionOf(name, version)].attrs = attrs]
  /\ UNCHANGED <<serving, set>>
  /\ persistLocked

DeleteSecret(name) ==
  /\ Found(name, 0)
  /\ vault' = [m \in DOMAIN vault \ {name} |-> vault[m]]
  /\ UNCHANGED <<serving, set, updates>>
  /\ persistLocked

(* What GetSecret and ListVersions answer from v; ListSecrets answers      *)
(* GetSecret's of every name.                                              *)
GetSecret(v, name, version) ==
  v[name].Versions[IF version = 0 THEN v[name].Current ELSE version]
ListVersions(v, name) ==
  [i \in DOMAIN v[name].Order |-> v[name].Versions[v[name].Order[i]]]

(* The end of the process, and New.                                        *)
Stop == serving /\ serving' = FALSE /\ UNCHANGED <<vault, secretsFile, set, updates, deleted>>

load ==
  /\ ~serving
  /\ serving' = TRUE
  /\ vault' = secretsFile
  /\ UNCHANGED <<secretsFile, set, updates, deleted>>

-----------------------------------------------------------------------------
Next ==
  \/ \E name \in Secret :
       \/ \E value \in SecretValue, attrs \in Attributes : SetSecret(name, value, attrs)
       \/ \E version \in Version \cup {0}, attrs \in Attributes :
            UpdateSecret(name, version, attrs)
       \/ DeleteSecret(name)
  \/ Stop \/ load

Spec == Init /\ [][Next]_vaultVars

-----------------------------------------------------------------------------
(* Properties.                                                             *)

Entries ==
  [Current : Version, Order : Seq(Version),
   Versions : UNION {[W -> [value : SecretValue, attrs : Attributes]] : W \in SUBSET Version}]

(* Both copies are secrets.                                                *)
TypeOK ==
  \A v \in {vault, secretsFile} :
    /\ DOMAIN v \subseteq Secret
    /\ \A name \in DOMAIN v : v[name] \in Entries

(* A version is the value it was set to, under the name it was set for,    *)
(* whatever was updated, deleted and restarted since (UpdateSecret: "The   *)
(* value is immutable"), and versions are listed in the order they were    *)
(* set in, the current one last.  DeleteSecret and ListSecrets dereference *)
(* the current version without looking.                                    *)
VersionsSound ==
  \A v \in {vault, secretsFile} : \A name \in DOMAIN v :
    LET e == v[name] IN
    /\ \A ver \in DOMAIN e.Versions :
         set[ver].name = name /\ set[ver].value = e.Versions[ver].value
    /\ e.Order # <<>> /\ GetSecret(v, name, 0) = Last(ListVersions(v, name))
    /\ ToSet(e.Order) = DOMAIN e.Versions
    /\ \A i, j \in DOMAIN e.Order : i < j => e.Order[i] < e.Order[j]

(* A version whose removal is on disk is never served again, also under    *)
(* the same name set anew and after a restart.                             *)
NeverBack == [][deleted \subseteq deleted' /\ VersionsIn(vault') \cap deleted' = {}]_vaultVars
=============================================================================
