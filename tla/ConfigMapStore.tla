-------------------------- MODULE ConfigMapStore --------------------------
(***************************************************************************)
(* ConfigMapStore (configmap_store.go): the data of all compositions of a  *)
(* cluster ID in one ConfigMap.  Every operation reads the ConfigMap and   *)
(* then creates, updates or deletes it in a second API call, and           *)
(* DeleteResource is a Load followed by a Save or a Purge.                 *)
(*                                                                         *)
(* The API server is external.  It refuses an Update of a ConfigMap that   *)
(* has changed since the Get (resourceVersion; an Update that changes      *)
(* nothing leaves it as it is), a Create of one that exists and an Update  *)
(* or Delete of one that does not, and what has a data key other than      *)
(* letters, digits, "-", "_" and ".".  Any API call may fail or lose its   *)
(* answer.                                                                 *)
(***************************************************************************)
EXTENDS ResourceData, Integers

CONSTANTS
  Clients,   \* calls of the function that share the store
  Keys,      \* composition keys of one cluster ID
  Saves,     \* the compositions a client may save
  Settled,   \* compositions that no client works on meanwhile
  Crowded,   \* TRUE: saves clash with deletions of a ConfigMap that may run empty
  KeyLength  \* the length of each composition key in bytes

ASSUME ConfigMapAssumption ==
  /\ Settled \subseteq Keys /\ Settled # Keys
  /\ Saves \subseteq Composition \ {EmptyComposition} /\ Saves # {}
  /\ Crowded \in BOOLEAN
  /\ KeyLength \in [Keys -> Nat \ {0}]

VARIABLES
  configMap, \* whether it exists, and its data
  at,        \* where each client stands, see Places
  op,        \* the operation of each client, NoOperation while idle
  snapshot,  \* the data of the ConfigMap a client has got
  fresh,     \* whether the ConfigMap is still the one the client has got
  writing,   \* what the client will write under its key
  got        \* what a Load will return

locals == <<op, snapshot, writing, got>>
vars == <<configMap, at, fresh, locals>>

\* "load", "save", "purge": before the Get of that method; "create", "update",
\* "delete": before that API call; "answer": before the return without error.
Places == {"idle", "load", "save", "purge", "create", "update", "delete", "answer"}

Operation ==
  [kind : {"Load", "Purge"}, key : Keys]
  \cup [kind : {"Save"}, key : Keys, resources : Saves]
  \cup [kind : {"DeleteResource"}, key : Keys, resource : Resources]

\* The operation of an idle client.
NoOperation == CHOOSE o \in Operation : o.kind = "Load"

\* A key without data is not in the ConfigMap: no empty composition is written.
NoKeys == [k \in Keys |-> EmptyComposition]
NoConfigMap == [exists |-> FALSE, data |-> NoKeys]

\* The types, and that a ConfigMap exists exactly while it holds data: Purge
\* deletes it with its last key (configmap_store.go:191-199).
ConfigMapTypeOK ==
  /\ configMap \in [exists : BOOLEAN, data : [Keys -> Composition]]
  /\ configMap.exists <=> configMap.data # NoKeys
  /\ at \in [Clients -> Places]
  /\ op \in [Clients -> Operation]
  /\ snapshot \in [Clients -> [Keys -> Composition]]
  /\ fresh \in [Clients -> BOOLEAN]
  /\ writing \in [Clients -> Composition]
  /\ got \in [Clients -> Composition]

Init ==
  /\ configMap \in
       {NoConfigMap} \cup
       {[exists |-> Settled # {},
         data |-> [k \in Keys |-> IF k \in Settled THEN s ELSE EmptyComposition]] :
           s \in Saves}
  /\ at = [c \in Clients |-> "idle"]
  /\ op = [c \in Clients |-> NoOperation]
  /\ snapshot = [c \in Clients |-> NoKeys]
  /\ fresh = [c \in Clients |-> FALSE]
  /\ writing = [c \in Clients |-> EmptyComposition]
  /\ got = [c \in Clients |-> EmptyComposition]

---------------------------------------------------------------------------
(* Operations begin and end *)

FirstPlace(o) ==
  CASE o.kind \in {"Load", "DeleteResource"} -> "load"
    [] o.kind = "Save" -> "save"
    [] o.kind = "Purge" -> "purge"

\* Settled data keep the ConfigMap from running empty.
KeptAlive == \E k \in Settled : configMap.data[k] # EmptyComposition

\* A Save at once with an operation that may delete the ConfigMap.
Empties(o) == o.kind \in {"Purge", "DeleteResource"}
Clash(o, p) == (o.kind = "Save" /\ Empties(p)) \/ (p.kind = "Save" /\ Empties(o))

\* A call of the function has one operation at a time, and a composite is
\* reconciled once at a time.
Invoke(c, o) ==
  /\ at[c] = "idle"
  /\ o.key \notin Settled
  /\ \A d \in Clients \ {c} : at[d] # "idle" =>
       op[d].key # o.key /\ (Crowded \/ KeptAlive \/ ~Clash(o, op[d]))
  /\ at' = [at EXCEPT ![c] = FirstPlace(o)]
  /\ op' = [op EXCEPT ![c] = o]
  /\ writing' = [writing EXCEPT ![c] =
                   IF o.kind = "Save" THEN o.resources ELSE EmptyComposition]
  /\ UNCHANGED <<configMap, snapshot, fresh, got>>

\* The operation returns, with or without an error, and its locals are gone.
End(c) ==
  /\ at' = [at EXCEPT ![c] = "idle"]
  /\ op' = [op EXCEPT ![c] = NoOperation]
  /\ snapshot' = [snapshot EXCEPT ![c] = NoKeys]
  /\ writing' = [writing EXCEPT ![c] = EmptyComposition]
  /\ got' = [got EXCEPT ![c] = EmptyComposition]

Answer(c) ==
  /\ at[c] = "answer"
  /\ End(c)
  /\ fresh' = [fresh EXCEPT ![c] = FALSE]
  /\ UNCHANGED configMap

\* A Get that fails ends the operation with an error.
GetFails(c) ==
  /\ at[c] \in {"load", "save", "purge"}
  /\ End(c)
  /\ UNCHANGED <<configMap, fresh>>

Go(c, place) == at' = [at EXCEPT ![c] = place]

---------------------------------------------------------------------------
(* Gets *)

Keep(c) ==
  /\ snapshot' = [snapshot EXCEPT ![c] = configMap.data]
  /\ fresh' = [fresh EXCEPT ![c] = TRUE]

\* Load: no ConfigMap and no key are both an empty composition.
LoadGet(c) ==
  /\ at[c] = "load"
  /\ op[c].kind = "Load"
  /\ got' = [got EXCEPT ![c] = configMap.data[op[c].key]]
  /\ Go(c, "answer")
  /\ UNCHANGED <<configMap, op, snapshot, fresh, writing>>

\* DeleteResource: what is left is saved, or the key purged, in a second round.
DeleteGet(c) ==
  /\ at[c] = "load"
  /\ op[c].kind = "DeleteResource"
  /\ LET left == [configMap.data[op[c].key] EXCEPT ![op[c].resource] = NoData]
     IN  /\ writing' = [writing EXCEPT ![c] = left]
         /\ Go(c, IF left = EmptyComposition THEN "purge" ELSE "save")
  /\ UNCHANGED <<configMap, op, snapshot, fresh, got>>

SaveGet(c) ==
  /\ at[c] = "save"
  /\ Keep(c)
  /\ Go(c, IF configMap.exists THEN "update" ELSE "create")
  /\ UNCHANGED <<configMap, op, writing, got>>

\* Purge: nothing to do without ConfigMap; without other keys it is deleted.
NeverEmpty(c) == FALSE  \* a slip: the emptied ConfigMap kept
LeavesNothing(c) == [configMap.data EXCEPT ![op[c].key] = EmptyComposition] = NoKeys

PurgeGet(c) ==
  /\ at[c] = "purge"
  /\ Keep(c)
  /\ Go(c, IF ~configMap.exists THEN "answer"
           ELSE IF LeavesNothing(c) THEN "delete"
           ELSE "update")
  /\ UNCHANGED <<configMap, op, writing, got>>

---------------------------------------------------------------------------
(* Writes *)

\* encodeKey: standard base64 of a key of n bytes, padded with "=", which no
\* data key may contain.  Of the rest of the alphabet, "+" and "/" cannot come
\* from the letters of a composition key.
Encoded(n) == [length |-> 4 * ((n + 2) \div 3), padding |-> (-n) % 3]

IsDataKey(encoded) == encoded.length <= 253 /\ encoded.padding = 0

ValidKeys(data) ==
  \A k \in Keys : data[k] # EmptyComposition => IsDataKey(Encoded(KeyLength[k]))

\* A write succeeds only if the API server allows it; it fails otherwise, or
\* for another reason, or its answer is lost: all three are an error.
Write(c, allowed, written) ==
  \/ /\ allowed
     /\ configMap' = written
     /\ fresh' = [d \in Clients |-> d # c /\ fresh[d] /\ written = configMap]
     /\ \/ End(c)
        \/ /\ Go(c, "answer")
           /\ snapshot' = [snapshot EXCEPT ![c] = NoKeys]
           /\ writing' = [writing EXCEPT ![c] = EmptyComposition]
           /\ UNCHANGED <<op, got>>
  \/ /\ End(c)
     /\ fresh' = [fresh EXCEPT ![c] = FALSE]
     /\ UNCHANGED configMap

\* Two slips: an Update without resourceVersion, and a write of the key alone.
UpdateAllowedAlways(c) == configMap.exists
WrittenAlone(c) ==
  [exists |-> TRUE, data |-> [NoKeys EXCEPT ![op[c].key] = writing[c]]]

UpdateAllowed(c) == configMap.exists /\ fresh[c]
Written(c) ==
  [exists |-> TRUE, data |-> [snapshot[c] EXCEPT ![op[c].key] = writing[c]]]

Create(c) ==
  /\ at[c] = "create"
  /\ Write(c, ~configMap.exists /\ ValidKeys(Written(c).data), Written(c))

Update(c) ==
  /\ at[c] = "update"
  /\ Write(c, UpdateAllowed(c) /\ ValidKeys(Written(c).data), Written(c))

\* DeleteOptions{}: no precondition on what is deleted.
Delete(c) == at[c] = "delete" /\ Write(c, configMap.exists, NoConfigMap)

---------------------------------------------------------------------------

Next ==
  \E c \in Clients :
    \/ \E o \in Operation : Invoke(c, o)
    \/ Answer(c) \/ GetFails(c)
    \/ LoadGet(c) \/ DeleteGet(c) \/ SaveGet(c) \/ PurgeGet(c)
    \/ Create(c) \/ Update(c) \/ Delete(c)

Spec == Init /\ [][Next]_vars

---------------------------------------------------------------------------
(* Properties *)

\* Only an operation on a composition changes its data: Purge removes the data
\* for a composition (store.go:23, configmap_store.go:171) and no other.
OthersKeepTheirData ==
  [][\A k \in Keys : configMap.data[k] # configMap'.data[k] =>
       \E c \in Clients : at[c] # "idle" /\ op[c].key = k /\ at'[c] # at[c]]_vars

\* What a Save sends can be stored: the encoded composition key of every entry
\* serves as a ConfigMap data key (configmap_store.go:64, README.md:92).
KeysCanBeStored ==
  \A c \in Clients : at[c] \in {"create", "update"} => ValidKeys(Written(c).data)
===========================================================================
