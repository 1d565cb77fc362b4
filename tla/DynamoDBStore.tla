-------------------------- MODULE DynamoDBStore --------------------------
(***************************************************************************)
(* DynamoDBStore (dynamodb_store.go): one item per cluster ID and          *)
(* composition key, and one API call per operation.                        *)
(*                                                                         *)
(* DynamoDB and its SDK are external.  A call on one item is atomic; a     *)
(* GetItem that does not ask for a consistent read (dynamodb_store.go:121) *)
(* may return what the item was a while ago; the SDK repeats a call whose  *)
(* answer it has lost, so that the work may be done twice, and gives up    *)
(* with an error in the end.                                               *)
(***************************************************************************)
EXTENDS ResourceData, Naturals, FiniteSets

CONSTANTS
  Clients,  \* calls of the function that share the store
  Keys,     \* composition keys of one cluster ID
  Saves,    \* the compositions a client may save
  Settled,  \* compositions that no client works on meanwhile
  MaxPast   \* bound on the versions of an item that can be read at a time

VARIABLES
  items,   \* [Keys -> Item]
  past,    \* what a GetItem of each key may return
  at,      \* "idle", "call" before an answered API call, "answer" after it
  op,      \* the operation of each client, NoOperation while idle
  landed,  \* whether an attempt of the call did its work and lost its answer
  got      \* what a Load will return

locals == <<at, op, landed, got>>
vars == <<items, past, locals>>

Operation ==
  [kind : {"Load", "Purge"}, key : Keys]
  \cup [kind : {"Save"}, key : Keys, resources : Saves]
  \cup [kind : {"DeleteResource"}, key : Keys, resource : Resources]

\* The operation of an idle client.
NoOperation == CHOOSE o \in Operation : o.kind = "Load"

\* An item may be there without any resource: DeleteResource never deletes it.
Item == [exists : BOOLEAN, resources : Composition]
NoItem == [exists |-> FALSE, resources |-> EmptyComposition]

\* The types, and that what is there now can always be read.
DynamoDBTypeOK ==
  /\ items \in [Keys -> Item]
  /\ past \in [Keys -> SUBSET Composition]
  /\ \A k \in Keys : items[k].resources \in past[k]
  /\ at \in [Clients -> {"idle", "call", "answer"}]
  /\ op \in [Clients -> Operation]
  /\ landed \in [Clients -> BOOLEAN]
  /\ got \in [Clients -> Composition]

Init ==
  /\ items = [k \in Keys |-> NoItem]
  /\ past = [k \in Keys |-> {EmptyComposition}]
  /\ at = [c \in Clients |-> "idle"]
  /\ op = [c \in Clients |-> NoOperation]
  /\ landed = [c \in Clients |-> FALSE]
  /\ got = [c \in Clients |-> EmptyComposition]

---------------------------------------------------------------------------

\* A composite is reconciled once at a time, and a call of the function has
\* one operation at a time.
Invoke(c, o) ==
  /\ at[c] = "idle"
  /\ o.key \notin Settled
  /\ \A d \in Clients \ {c} : at[d] # "idle" => op[d].key # o.key
  /\ at' = [at EXCEPT ![c] = "call"]
  /\ op' = [op EXCEPT ![c] = o]
  /\ UNCHANGED <<items, past, landed, got>>

\* The operation returns, with or without an error.
End(c) ==
  /\ at' = [at EXCEPT ![c] = "idle"]
  /\ op' = [op EXCEPT ![c] = NoOperation]
  /\ landed' = [landed EXCEPT ![c] = FALSE]
  /\ got' = [got EXCEPT ![c] = EmptyComposition]
  /\ UNCHANGED <<items, past>>

Answer(c) == at[c] = "answer" /\ End(c)

\* The SDK has no attempts left, or the call's deadline has passed.
GivesUp(c) == at[c] = "call" /\ End(c)

Succeeds(c) ==
  /\ at' = [at EXCEPT ![c] = "answer"]
  /\ landed' = [landed EXCEPT ![c] = FALSE]

\* Two slips: the whole item deleted, and an item put on top of the old one.
DropItem(item, r) == NoItem
PutOver(item, resources) ==
  [exists |-> TRUE,
   resources |-> [r \in Resources |-> MergeData(item.resources[r], resources[r])]]

\* What PutItem, DeleteItem and UpdateItem leave of an item.  An UpdateItem
\* whose condition does not hold leaves it alone, and that error is not one
\* for DeleteResource.
Put(item, resources) == [exists |-> TRUE, resources |-> resources]
Remove(item, r) == [item EXCEPT !.resources[r] = NoData]

HasResource(item, r) == item.exists /\ item.resources[r] # NoData

ItemAfter(o, item) ==
  CASE o.kind = "Save" -> Put(item, o.resources)
    [] o.kind = "Purge" -> NoItem
    [] o.kind = "DeleteResource" ->
         IF HasResource(item, o.resource) THEN Remove(item, o.resource) ELSE item

\* One attempt of PutItem, DeleteItem or UpdateItem that did its work.
Write(c) ==
  /\ at[c] = "call"
  /\ op[c].kind # "Load"
  /\ LET k == op[c].key
     IN  /\ items' = [items EXCEPT ![k] = ItemAfter(op[c], @)]
         /\ past' = [past EXCEPT ![k] = @ \cup {items'[k].resources}]
         /\ Cardinality(past'[k]) <= MaxPast
  /\ \/ Succeeds(c)
     \/ landed' = [landed EXCEPT ![c] = TRUE] /\ UNCHANGED at
  /\ UNCHANGED <<op, got>>

\* Load: no item and no resources are both an empty composition.
GetItem(c) ==
  /\ at[c] = "call"
  /\ op[c].kind = "Load"
  /\ \E found \in past[op[c].key] : got' = [got EXCEPT ![c] = found]
  /\ Succeeds(c)
  /\ UNCHANGED <<items, past, op>>

\* A write reaches the last replica.
Replicate(k) ==
  /\ past' = [past EXCEPT ![k] = {items[k].resources}]
  /\ UNCHANGED <<items, locals>>

Next ==
  \/ \E c \in Clients :
       \/ \E o \in Operation : Invoke(c, o)
       \/ Answer(c) \/ GivesUp(c) \/ Write(c) \/ GetItem(c)
  \/ \E k \in Keys : Replicate(k)

Spec == Init /\ [][Next]_vars
===========================================================================
