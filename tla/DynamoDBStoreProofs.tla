----------------------- MODULE DynamoDBStoreProofs -----------------------
(***************************************************************************)
(* DynamoDBStore implements AtomicStore, for every set of clients, keys,   *)
(* resources and names and every bound on the old data.  The lemmas are    *)
(* about the DynamoDBStore of module Stores, so that StoresProofs can      *)
(* build on them.                                                          *)
(***************************************************************************)
EXTENDS Stores, TLAPS

\* Where a client stands in AtomicStore: an attempt that did its work has taken
\* effect, whether or not the client knows.
ItemStands(c) ==
  IF at[c] = "idle" THEN "idle"
  ELSE IF at[c] = "answer" \/ landed[c] THEN "taken" ELSE "pending"

ItemStanding == [c \in Clients |-> ItemStands(c)]
Shown == [k \in Keys |-> items[k].resources]

Items == INSTANCE AtomicStore WITH store <- Shown, at <- ItemStanding

---------------------------------------------------------------------------
(* The inductive invariant: besides the types, no item has resources while *)
(* it does not exist, no two calls are about one key, and what an attempt  *)
(* with a lost answer did is still there, so that a second attempt does    *)
(* nothing.                                                                *)

NoGhost(item) == ~item.exists => item.resources = DynamoDB!EmptyComposition

OneClientPerKey ==
  \A c, d \in Clients :
    c # d /\ at[c] # "idle" /\ at[d] # "idle" => op[c].key # op[d].key

LandedIsThere ==
  \A c \in Clients : landed[c] =>
    /\ at[c] = "call"
    /\ op[c].kind # "Load"
    /\ DynamoDB!ItemAfter(op[c], items[op[c].key]) = items[op[c].key]

DynamoDBInv ==
  /\ DynamoDB!DynamoDBTypeOK
  /\ \A k \in Keys : NoGhost(items[k])
  /\ OneClientPerKey
  /\ LandedIsThere

LEMMA NothingTypeDB ==
  /\ DynamoDB!NoData \in DynamoDB!Data
  /\ DynamoDB!EmptyComposition \in DynamoDB!Composition
  /\ DynamoDB!NoItem \in DynamoDB!Item
BY DEF DynamoDB!NoData, DynamoDB!Data, DynamoDB!ExtName, DynamoDB!ObjName,
   DynamoDB!EmptyComposition, DynamoDB!Composition, DynamoDB!NoItem, DynamoDB!Item

LEMMA OperationTypeDB ==
  ASSUME NEW o \in DynamoDB!Operation
  PROVE  /\ o.key \in Keys
         /\ o.kind \in {"Load", "Purge", "Save", "DeleteResource"}
         /\ o.kind = "Save" => o.resources \in Saves
         /\ o.kind = "DeleteResource" => o.resource \in Resources
BY DEF DynamoDB!Operation

LEMMA ItemAfterCases ==
  ASSUME NEW o, NEW item
  PROVE  /\ o.kind = "Save" => DynamoDB!ItemAfter(o, item) = DynamoDB!Put(item, o.resources)
         /\ o.kind = "Purge" => DynamoDB!ItemAfter(o, item) = DynamoDB!NoItem
         /\ o.kind = "DeleteResource" =>
              DynamoDB!ItemAfter(o, item) =
                IF DynamoDB!HasResource(item, o.resource)
                THEN DynamoDB!Remove(item, o.resource) ELSE item
BY Zenon DEF DynamoDB!ItemAfter

LEMMA ResultCasesDB ==
  ASSUME NEW o, NEW composition
  PROVE  /\ o.kind = "Load" => Items!Result(o, composition) = composition
         /\ o.kind = "Save" => Items!Result(o, composition) = o.resources
         /\ o.kind = "Purge" => Items!Result(o, composition) = DynamoDB!EmptyComposition
         /\ o.kind = "DeleteResource" =>
              Items!Result(o, composition) =
                [composition EXCEPT ![o.resource] = DynamoDB!NoData]
BY Zenon DEF Items!Result, Items!NoData, Items!EmptyComposition, DynamoDB!NoData,
   DynamoDB!EmptyComposition

\* What one API call leaves of an item: an item without ghosts, what the
\* operation promises, and nothing to do for a second attempt.
LEMMA ItemAfterFacts ==
  ASSUME Saves \subseteq DynamoDB!Composition, NEW o \in DynamoDB!Operation, o.kind # "Load",
         NEW item \in DynamoDB!Item, NoGhost(item)
  PROVE  /\ DynamoDB!ItemAfter(o, item) \in DynamoDB!Item
         /\ NoGhost(DynamoDB!ItemAfter(o, item))
         /\ DynamoDB!ItemAfter(o, item).resources = Items!Result(o, item.resources)
         /\ DynamoDB!ItemAfter(o, DynamoDB!ItemAfter(o, item)) = DynamoDB!ItemAfter(o, item)
<1>1. item.exists \in BOOLEAN /\ item.resources \in DynamoDB!Composition
  BY DEF DynamoDB!Item
<1>2. CASE o.kind = "Save"
  <2>1. ASSUME NEW i
        PROVE  DynamoDB!ItemAfter(o, i) = [exists |-> TRUE, resources |-> o.resources]
    BY <1>2, ItemAfterCases, Zenon DEF DynamoDB!Put
  <2>2. DynamoDB!ItemAfter(o, item) = [exists |-> TRUE, resources |-> o.resources]
    BY <2>1
  <2>3. DynamoDB!ItemAfter(o, DynamoDB!ItemAfter(o, item)) = DynamoDB!ItemAfter(o, item)
    BY <2>1
  <2>4. o.resources \in DynamoDB!Composition
    BY <1>2, OperationTypeDB
  <2>5. DynamoDB!ItemAfter(o, item).resources = Items!Result(o, item.resources)
    BY <1>2, <2>2, ResultCasesDB
  <2> QED
    BY <2>2, <2>3, <2>4, <2>5 DEF DynamoDB!Item, NoGhost
<1>3. CASE o.kind = "Purge"
  <2>1. ASSUME NEW i PROVE DynamoDB!ItemAfter(o, i) = DynamoDB!NoItem
    BY <1>3, ItemAfterCases, Zenon
  <2>2. DynamoDB!ItemAfter(o, DynamoDB!ItemAfter(o, item)) = DynamoDB!ItemAfter(o, item)
    BY <2>1
  <2>3. Items!Result(o, item.resources) = DynamoDB!EmptyComposition
    BY <1>3, ResultCasesDB, Zenon
  <2>4. /\ DynamoDB!NoItem \in DynamoDB!Item /\ NoGhost(DynamoDB!NoItem)
        /\ DynamoDB!NoItem.resources = DynamoDB!EmptyComposition
    BY NothingTypeDB DEF DynamoDB!NoItem, NoGhost
  <2> QED
    BY <2>1, <2>2, <2>3, <2>4
<1>4. CASE o.kind = "DeleteResource"
  <2>1. o.resource \in Resources
    BY <1>4, OperationTypeDB
  <2>2. CASE DynamoDB!HasResource(item, o.resource)
    <3>1. DynamoDB!ItemAfter(o, item) =
            [exists |-> TRUE,
             resources |-> [item.resources EXCEPT ![o.resource] = DynamoDB!NoData]]
      BY <1>4, <1>1, <2>2, ItemAfterCases DEF DynamoDB!Remove, DynamoDB!HasResource,
         DynamoDB!Item
    <3>2. [item.resources EXCEPT ![o.resource] = DynamoDB!NoData] \in DynamoDB!Composition
      BY <1>1, <2>1, NothingTypeDB DEF DynamoDB!Composition
    <3>3. ~DynamoDB!HasResource(DynamoDB!ItemAfter(o, item), o.resource)
      BY <1>1, <2>1, <3>1 DEF DynamoDB!HasResource, DynamoDB!Composition
    <3>4. DynamoDB!ItemAfter(o, DynamoDB!ItemAfter(o, item)) = DynamoDB!ItemAfter(o, item)
      BY <1>4, <3>3, ItemAfterCases
    <3> QED
      BY <1>4, <3>1, <3>2, <3>4, ResultCasesDB DEF DynamoDB!Item, NoGhost
  <2>3. CASE ~DynamoDB!HasResource(item, o.resource)
    <3>1. DynamoDB!ItemAfter(o, item) = item
      BY <1>4, <2>3, ItemAfterCases
    <3>2. item.resources[o.resource] = DynamoDB!NoData
      BY <1>1, <2>1, <2>3 DEF DynamoDB!HasResource, NoGhost, DynamoDB!EmptyComposition
    <3>3. [item.resources EXCEPT ![o.resource] = DynamoDB!NoData] = item.resources
      BY <1>1, <2>1, <3>2 DEF DynamoDB!Composition
    <3> QED
      BY <1>4, <3>1, <3>3, ResultCasesDB
  <2> QED
    BY <2>2, <2>3
<1> QED
  BY <1>2, <1>3, <1>4, OperationTypeDB

---------------------------------------------------------------------------
(* The invariant holds in every step. *)

LEMMA InvokeInvDB ==
  ASSUME DynamoDBInv, NEW c \in Clients, NEW o \in DynamoDB!Operation, DynamoDB!Invoke(c, o)
  PROVE  DynamoDBInv'
<1>1. DynamoDB!DynamoDBTypeOK'
  BY DEF DynamoDB!Invoke, DynamoDBInv, DynamoDB!DynamoDBTypeOK
<1>2. OneClientPerKey'
  BY DEF DynamoDB!Invoke, DynamoDBInv, DynamoDB!DynamoDBTypeOK, OneClientPerKey
<1>3. LandedIsThere'
  <2> SUFFICES ASSUME NEW d \in Clients, landed'[d]
               PROVE  /\ at'[d] = "call" /\ op'[d].kind # "Load"
                      /\ DynamoDB!ItemAfter(op'[d], items'[op'[d].key]) = items'[op'[d].key]
    BY DEF LandedIsThere
  <2>1. landed[d] /\ d # c /\ op'[d] = op[d] /\ at'[d] = at[d] /\ items' = items
    BY DEF DynamoDB!Invoke, DynamoDBInv, DynamoDB!DynamoDBTypeOK, LandedIsThere
  <2> QED
    BY <2>1 DEF DynamoDBInv, LandedIsThere
<1> QED
  BY <1>1, <1>2, <1>3 DEF DynamoDB!Invoke, DynamoDBInv

LEMMA NoOperationTypeDB == Keys # {} => DynamoDB!NoOperation \in DynamoDB!Operation
<1> SUFFICES ASSUME NEW k \in Keys PROVE DynamoDB!NoOperation \in DynamoDB!Operation
  OBVIOUS
<1>1. [kind |-> "Load", key |-> k] \in DynamoDB!Operation
  BY DEF DynamoDB!Operation
<1> QED
  BY <1>1 DEF DynamoDB!NoOperation

LEMMA EndInvDB ==
  ASSUME DynamoDBInv, Keys # {}, NEW c \in Clients, DynamoDB!End(c)
  PROVE  DynamoDBInv'
<1>1. DynamoDB!DynamoDBTypeOK'
  BY NoOperationTypeDB, NothingTypeDB DEF DynamoDB!End, DynamoDBInv, DynamoDB!DynamoDBTypeOK
<1>2. OneClientPerKey'
  BY DEF DynamoDB!End, DynamoDBInv, DynamoDB!DynamoDBTypeOK, OneClientPerKey
<1>3. LandedIsThere'
  <2> SUFFICES ASSUME NEW d \in Clients, landed'[d]
               PROVE  /\ at'[d] = "call" /\ op'[d].kind # "Load"
                      /\ DynamoDB!ItemAfter(op'[d], items'[op'[d].key]) = items'[op'[d].key]
    BY DEF LandedIsThere
  <2>1. landed[d] /\ d # c /\ op'[d] = op[d] /\ at'[d] = at[d] /\ items' = items
    BY DEF DynamoDB!End, DynamoDBInv, DynamoDB!DynamoDBTypeOK
  <2> QED
    BY <2>1 DEF DynamoDBInv, LandedIsThere
<1> QED
  BY <1>1, <1>2, <1>3 DEF DynamoDB!End, DynamoDBInv

LEMMA GetItemInv ==
  ASSUME DynamoDBInv, NEW c \in Clients, DynamoDB!GetItem(c)
  PROVE  DynamoDBInv'
<1>1. DynamoDB!DynamoDBTypeOK'
  BY OperationTypeDB DEF DynamoDB!GetItem, DynamoDB!Succeeds, DynamoDBInv,
     DynamoDB!DynamoDBTypeOK
<1>2. OneClientPerKey'
  BY DEF DynamoDB!GetItem, DynamoDB!Succeeds, DynamoDBInv, DynamoDB!DynamoDBTypeOK,
     OneClientPerKey
<1>3. LandedIsThere'
  <2> SUFFICES ASSUME NEW d \in Clients, landed'[d]
               PROVE  /\ at'[d] = "call" /\ op'[d].kind # "Load"
                      /\ DynamoDB!ItemAfter(op'[d], items'[op'[d].key]) = items'[op'[d].key]
    BY DEF LandedIsThere
  <2>1. landed[d] /\ d # c /\ op' = op /\ at'[d] = at[d] /\ items' = items
    BY DEF DynamoDB!GetItem, DynamoDB!Succeeds, DynamoDBInv, DynamoDB!DynamoDBTypeOK
  <2> QED
    BY <2>1 DEF DynamoDBInv, LandedIsThere
<1> QED
  BY <1>1, <1>2, <1>3 DEF DynamoDB!GetItem, DynamoDBInv

LEMMA ReplicateInv ==
  ASSUME DynamoDBInv, NEW k \in Keys, DynamoDB!Replicate(k)
  PROVE  DynamoDBInv'
<1>1. DynamoDB!DynamoDBTypeOK'
  BY DEF DynamoDB!Replicate, DynamoDB!locals, DynamoDBInv, DynamoDB!DynamoDBTypeOK,
     DynamoDB!Item
<1> QED
  BY <1>1 DEF DynamoDB!Replicate, DynamoDB!locals, DynamoDBInv, OneClientPerKey,
     LandedIsThere

\* What a Write does, in terms of its item.
LEMMA WriteFacts ==
  ASSUME DynamoDBInv, Saves \subseteq DynamoDB!Composition,
         NEW c \in Clients, DynamoDB!Write(c)
  PROVE  /\ op[c].key \in Keys /\ op[c].kind # "Load" /\ at[c] = "call"
         /\ items' = [items EXCEPT ![op[c].key] = DynamoDB!ItemAfter(op[c], items[op[c].key])]
         /\ past' = [past EXCEPT ![op[c].key] =
              past[op[c].key] \cup {DynamoDB!ItemAfter(op[c], items[op[c].key]).resources}]
         /\ DynamoDB!ItemAfter(op[c], items[op[c].key]) \in DynamoDB!Item
         /\ NoGhost(DynamoDB!ItemAfter(op[c], items[op[c].key]))
         /\ DynamoDB!ItemAfter(op[c], items[op[c].key]).resources
              = Items!Result(op[c], items[op[c].key].resources)
         /\ DynamoDB!ItemAfter(op[c], DynamoDB!ItemAfter(op[c], items[op[c].key]))
              = DynamoDB!ItemAfter(op[c], items[op[c].key])
         /\ op' = op /\ got' = got
<1> DEFINE k == op[c].key
           i == DynamoDB!ItemAfter(op[c], items[k])
<1>1. /\ op[c] \in DynamoDB!Operation /\ op[c].kind # "Load" /\ k \in Keys
      /\ items[k] \in DynamoDB!Item /\ NoGhost(items[k])
  BY OperationTypeDB DEF DynamoDB!Write, DynamoDBInv, DynamoDB!DynamoDBTypeOK
<1>2. /\ i \in DynamoDB!Item /\ NoGhost(i)
      /\ i.resources = Items!Result(op[c], items[k].resources)
      /\ DynamoDB!ItemAfter(op[c], i) = i
  BY <1>1, ItemAfterFacts
<1>3. items' = [items EXCEPT ![k] = i]
  BY DEF DynamoDB!Write
<1>4. items'[k] = i
  BY <1>1, <1>3 DEF DynamoDBInv, DynamoDB!DynamoDBTypeOK
<1>5. past' = [past EXCEPT ![k] = past[k] \cup {i.resources}]
  BY <1>4 DEF DynamoDB!Write
<1> QED
  BY <1>1, <1>2, <1>3, <1>5 DEF DynamoDB!Write

LEMMA WriteInvDB ==
  ASSUME DynamoDBInv, Saves \subseteq DynamoDB!Composition,
         NEW c \in Clients, DynamoDB!Write(c)
  PROVE  DynamoDBInv'
<1> DEFINE k == op[c].key
           i == DynamoDB!ItemAfter(op[c], items[k])
<1>1. /\ k \in Keys /\ op[c].kind # "Load" /\ at[c] = "call"
      /\ items' = [items EXCEPT ![k] = i]
      /\ past' = [past EXCEPT ![k] = past[k] \cup {i.resources}]
      /\ i \in DynamoDB!Item /\ NoGhost(i) /\ DynamoDB!ItemAfter(op[c], i) = i
      /\ op' = op /\ got' = got
  BY WriteFacts
<1> HIDE DEF i
<1>2. /\ at' \in [Clients -> {"idle", "call", "answer"}]
      /\ landed' \in [Clients -> BOOLEAN]
      /\ \A d \in Clients \ {c} : at'[d] = at[d] /\ landed'[d] = landed[d]
      /\ landed'[c] => at'[c] = "call"
  BY <1>1 DEF DynamoDB!Write, DynamoDB!Succeeds, DynamoDBInv, DynamoDB!DynamoDBTypeOK
<1>3. /\ items' \in [Keys -> DynamoDB!Item]
      /\ \A j \in Keys : items'[j] = IF j = k THEN i ELSE items[j]
      /\ past' \in [Keys -> SUBSET DynamoDB!Composition]
      /\ \A j \in Keys : items'[j].resources \in past'[j]
  BY <1>1 DEF DynamoDBInv, DynamoDB!DynamoDBTypeOK, DynamoDB!Item
<1>4. DynamoDB!DynamoDBTypeOK'
  BY <1>1, <1>2, <1>3 DEF DynamoDBInv, DynamoDB!DynamoDBTypeOK
<1>5. \A j \in Keys : NoGhost(items'[j])
  BY <1>1, <1>3 DEF DynamoDBInv
<1>6. OneClientPerKey'
  BY <1>1, <1>2 DEF DynamoDBInv, OneClientPerKey
<1>7. LandedIsThere'
  <2> SUFFICES ASSUME NEW d \in Clients, landed'[d]
               PROVE  /\ at'[d] = "call" /\ op[d].kind # "Load"
                      /\ DynamoDB!ItemAfter(op[d], items'[op[d].key]) = items'[op[d].key]
    BY <1>1 DEF LandedIsThere
  <2>1. CASE d = c
    BY <1>1, <1>2, <1>3, <2>1
  <2>2. CASE d # c
    <3>1. /\ landed[d] /\ at[d] = "call" /\ op[d].kind # "Load"
          /\ DynamoDB!ItemAfter(op[d], items[op[d].key]) = items[op[d].key]
      BY <1>2, <2>2 DEF DynamoDBInv, LandedIsThere
    <3>2. op[d].key # k
      BY <1>1, <2>2, <3>1 DEF DynamoDBInv, OneClientPerKey
    <3>3. items'[op[d].key] = items[op[d].key]
      BY <1>1, <3>2 DEF DynamoDBInv, DynamoDB!DynamoDBTypeOK
    <3> QED
      BY <1>2, <2>2, <3>1, <3>3
  <2> QED
    BY <2>1, <2>2
<1> QED
  BY <1>4, <1>5, <1>6, <1>7 DEF DynamoDBInv

LEMMA InvStepDB ==
  ASSUME Keys # {}, Saves \subseteq DynamoDB!Composition
  PROVE  DynamoDBInv /\ [DynamoDB!Next]_(DynamoDB!vars) => DynamoDBInv'
<1> SUFFICES ASSUME DynamoDBInv, [DynamoDB!Next]_(DynamoDB!vars) PROVE DynamoDBInv'
  OBVIOUS
<1>1. CASE \E c \in Clients : \E o \in DynamoDB!Operation : DynamoDB!Invoke(c, o)
  BY <1>1, InvokeInvDB
<1>2. CASE \E c \in Clients : DynamoDB!Answer(c) \/ DynamoDB!GivesUp(c)
  BY <1>2, EndInvDB DEF DynamoDB!Answer, DynamoDB!GivesUp
<1>3. CASE \E c \in Clients : DynamoDB!Write(c)
  BY <1>3, WriteInvDB
<1>4. CASE \E c \in Clients : DynamoDB!GetItem(c)
  BY <1>4, GetItemInv
<1>5. CASE \E k \in Keys : DynamoDB!Replicate(k)
  BY <1>5, ReplicateInv
<1>6. CASE UNCHANGED DynamoDB!vars
  BY <1>6 DEF DynamoDB!vars, DynamoDB!locals, DynamoDBInv, DynamoDB!DynamoDBTypeOK,
     OneClientPerKey, LandedIsThere
<1> QED
  BY <1>1, <1>2, <1>3, <1>4, <1>5, <1>6 DEF DynamoDB!Next

LEMMA InitInvDB ==
  ASSUME Keys # {} PROVE DynamoDB!Init => DynamoDBInv
<1> SUFFICES ASSUME DynamoDB!Init PROVE DynamoDBInv
  OBVIOUS
<1>1. DynamoDB!DynamoDBTypeOK
  BY NothingTypeDB, NoOperationTypeDB DEF DynamoDB!Init, DynamoDB!DynamoDBTypeOK,
     DynamoDB!NoItem
<1> QED
  BY <1>1 DEF DynamoDB!Init, DynamoDBInv, NoGhost, DynamoDB!NoItem, OneClientPerKey,
     LandedIsThere

\* The types, whatever operations come in whatever order and however often
\* they are repeated (dynamodb_store.go:77-229).
THEOREM DynamoDBTypeCorrect ==
  ASSUME Keys # {}, Saves \subseteq DynamoDB!Composition
  PROVE  DynamoDB!Spec => []DynamoDB!DynamoDBTypeOK
<1>1. DynamoDB!Init => DynamoDBInv
  BY InitInvDB
<1>2. DynamoDBInv /\ [DynamoDB!Next]_(DynamoDB!vars) => DynamoDBInv'
  BY InvStepDB
<1>3. DynamoDBInv => DynamoDB!DynamoDBTypeOK
  BY DEF DynamoDBInv
<1> QED
  BY <1>1, <1>2, <1>3, PTL DEF DynamoDB!Spec

---------------------------------------------------------------------------
(* Every step is a step of AtomicStore, or a stutter. *)

\* What one client does moves only that client.
LEMMA StandingMovesDB ==
  ASSUME NEW c \in Clients,
         \A d \in Clients \ {c} : at'[d] = at[d] /\ landed'[d] = landed[d]
  PROVE  ItemStanding' = [ItemStanding EXCEPT ![c] = ItemStands(c)']
BY DEF ItemStanding, ItemStands

LEMMA SameNamesDB ==
  /\ Items!NoOperation = DynamoDB!NoOperation /\ Items!Operation = DynamoDB!Operation
  /\ Items!EmptyComposition = DynamoDB!EmptyComposition
BY DEF Items!NoOperation, Items!Operation, DynamoDB!NoOperation, DynamoDB!Operation,
   Items!EmptyComposition, DynamoDB!EmptyComposition, Items!NoData, DynamoDB!NoData

LEMMA InvokeImplementsDB ==
  ASSUME DynamoDBInv, NEW c \in Clients, NEW o \in DynamoDB!Operation, DynamoDB!Invoke(c, o)
  PROVE  Items!Invoke(c, o)
<1>1. ItemStanding' = [ItemStanding EXCEPT ![c] = ItemStands(c)']
  BY StandingMovesDB DEF DynamoDB!Invoke, DynamoDBInv, DynamoDB!DynamoDBTypeOK
<1>2. ItemStanding[c] = "idle" /\ ItemStands(c)' = "pending"
  BY DEF DynamoDB!Invoke, DynamoDBInv, DynamoDB!DynamoDBTypeOK, LandedIsThere,
     ItemStanding, ItemStands
<1>3. Shown' = Shown
  BY DEF DynamoDB!Invoke, Shown
<1> QED
  BY <1>1, <1>2, <1>3 DEF DynamoDB!Invoke, Items!Invoke

LEMMA EndImplementsDB ==
  ASSUME DynamoDBInv, NEW c \in Clients, DynamoDB!Answer(c) \/ DynamoDB!GivesUp(c)
  PROVE  Items!Answer(c) \/ Items!Refuse(c)
<1>1. DynamoDB!End(c) /\ at[c] # "idle"
  BY DEF DynamoDB!Answer, DynamoDB!GivesUp
<1>2. ItemStanding' = [ItemStanding EXCEPT ![c] = ItemStands(c)']
  BY <1>1, StandingMovesDB DEF DynamoDB!End, DynamoDBInv, DynamoDB!DynamoDBTypeOK
<1>3. ItemStands(c)' = "idle" /\ ItemStanding[c] \in {"taken", "pending"}
  BY <1>1 DEF DynamoDB!End, DynamoDBInv, DynamoDB!DynamoDBTypeOK, ItemStanding, ItemStands
<1>4. Shown' = Shown /\ past' = past
  BY <1>1 DEF DynamoDB!End, Shown
<1>5. Items!End(c)
  BY <1>1, <1>2, <1>3, SameNamesDB DEF DynamoDB!End, Items!End
<1> QED
  BY <1>3, <1>4, <1>5 DEF Items!Answer, Items!Refuse

LEMMA GetItemImplementsDB ==
  ASSUME DynamoDBInv, NEW c \in Clients, DynamoDB!GetItem(c)
  PROVE  Items!Take(c)
<1>1. ItemStanding' = [ItemStanding EXCEPT ![c] = ItemStands(c)']
  BY StandingMovesDB DEF DynamoDB!GetItem, DynamoDB!Succeeds, DynamoDBInv,
     DynamoDB!DynamoDBTypeOK
<1>2. ItemStanding[c] = "pending" /\ ItemStands(c)' = "taken"
  BY DEF DynamoDB!GetItem, DynamoDB!Succeeds, DynamoDBInv, DynamoDB!DynamoDBTypeOK,
     LandedIsThere, ItemStanding, ItemStands
<1>3. Shown' = Shown /\ past' = past
  BY DEF DynamoDB!GetItem, Shown
<1>4. Items!Effect(c)
  <2>1. Shown = [Shown EXCEPT ![op[c].key] = Items!Result(op[c], Shown[op[c].key])]
    BY ResultCasesDB DEF DynamoDB!GetItem, Shown
  <2>2. Items!Remember
    BY <1>3 DEF Items!Remember, Shown, DynamoDBInv, DynamoDB!DynamoDBTypeOK
  <2> QED
    BY <1>3, <2>1, <2>2 DEF Items!Effect
<1> QED
  BY <1>1, <1>2, <1>4 DEF DynamoDB!GetItem, Items!Take

LEMMA ReplicateImplementsDB ==
  ASSUME DynamoDBInv, NEW k \in Keys, DynamoDB!Replicate(k)
  PROVE  Items!CatchUp
<1>1. Shown' = Shown /\ ItemStanding' = ItemStanding /\ UNCHANGED <<op, got>>
  BY DEF DynamoDB!Replicate, DynamoDB!locals, Shown, ItemStanding, ItemStands
<1>2. Items!Remember
  BY <1>1 DEF DynamoDB!Replicate, Items!Remember, Shown, DynamoDBInv,
     DynamoDB!DynamoDBTypeOK
<1> QED
  BY <1>1, <1>2 DEF Items!CatchUp

\* The first attempt that does its work is the operation; another one changes
\* nothing that can be seen.
LEMMA WriteImplementsDB ==
  ASSUME DynamoDBInv, Saves \subseteq DynamoDB!Composition,
         NEW c \in Clients, DynamoDB!Write(c)
  PROVE  Items!Take(c) \/ UNCHANGED Items!atomicVars
<1> DEFINE k == op[c].key
           i == DynamoDB!ItemAfter(op[c], items[k])
<1>1. /\ k \in Keys /\ op[c].kind # "Load" /\ at[c] = "call"
      /\ items' = [items EXCEPT ![k] = i]
      /\ past' = [past EXCEPT ![k] = past[k] \cup {i.resources}]
      /\ i.resources = Items!Result(op[c], items[k].resources)
      /\ op' = op /\ got' = got
  BY WriteFacts
<1> HIDE DEF i
<1>2. ItemStanding' = [ItemStanding EXCEPT ![c] = ItemStands(c)'] /\ ItemStands(c)' = "taken"
  <2>1. \A d \in Clients \ {c} : at'[d] = at[d] /\ landed'[d] = landed[d]
    BY DEF DynamoDB!Write, DynamoDB!Succeeds, DynamoDBInv, DynamoDB!DynamoDBTypeOK
  <2>2. ItemStands(c)' = "taken"
    BY <1>1 DEF DynamoDB!Write, DynamoDB!Succeeds, DynamoDBInv, DynamoDB!DynamoDBTypeOK,
       ItemStands
  <2> QED
    BY <2>1, <2>2, StandingMovesDB
<1>3. CASE landed[c]
  <2>1. i = items[k]
    BY <1>3 DEF DynamoDBInv, LandedIsThere, i
  <2>2. items' = items /\ past' = past
    BY <1>1, <2>1 DEF DynamoDBInv, DynamoDB!DynamoDBTypeOK
  <2>3. ItemStanding[c] = "taken"
    BY <1>1, <1>3 DEF ItemStanding, ItemStands
  <2>4. ItemStanding' = ItemStanding /\ Shown' = Shown
    BY <1>2, <2>2, <2>3 DEF ItemStanding, Shown
  <2> QED
    BY <1>1, <2>2, <2>4 DEF Items!atomicVars
<1>4. CASE ~landed[c]
  <2>1. ItemStanding[c] = "pending"
    BY <1>1, <1>4 DEF ItemStanding, ItemStands
  <2>2. Shown' = [Shown EXCEPT ![k] = Items!Result(op[c], Shown[k])]
    BY <1>1 DEF Shown, DynamoDBInv, DynamoDB!DynamoDBTypeOK
  <2>3. Items!Remember
    <3>1. \A j \in Keys : Shown'[j] = IF j = k THEN i.resources ELSE Shown[j]
      BY <1>1 DEF Shown, DynamoDBInv, DynamoDB!DynamoDBTypeOK
    <3>2. \A j \in Keys : Shown[j] \in past[j]
      BY DEF Shown, DynamoDBInv, DynamoDB!DynamoDBTypeOK
    <3> QED
      BY <1>1, <3>1, <3>2 DEF Items!Remember, DynamoDBInv, DynamoDB!DynamoDBTypeOK
  <2> QED
    BY <1>1, <1>2, <2>1, <2>2, <2>3 DEF Items!Take, Items!Effect
<1> QED
  BY <1>3, <1>4

LEMMA ItemsInit ==
  ASSUME Keys # {} PROVE DynamoDB!Init => Items!AtomicInit
<1> SUFFICES ASSUME DynamoDB!Init PROVE Items!AtomicInit
  OBVIOUS
<1>1. Shown = [k \in Keys |-> DynamoDB!EmptyComposition]
      /\ ItemStanding = [c \in Clients |-> "idle"]
  BY DEF DynamoDB!Init, DynamoDB!NoItem, Shown, ItemStanding, ItemStands
<1>2. past = [k \in Keys |-> {Shown[k]}]
  BY <1>1 DEF DynamoDB!Init
<1> QED
  BY <1>1, <1>2, SameNamesDB DEF DynamoDB!Init, Items!AtomicInit

LEMMA ItemsStep ==
  ASSUME Saves \subseteq DynamoDB!Composition, DynamoDBInv, [DynamoDB!Next]_(DynamoDB!vars)
  PROVE  Items!AtomicNext \/ UNCHANGED Items!atomicVars
<1>1. CASE \E c \in Clients : \E o \in DynamoDB!Operation : DynamoDB!Invoke(c, o)
  BY <1>1, InvokeImplementsDB, SameNamesDB DEF Items!AtomicNext
<1>2. CASE \E c \in Clients : DynamoDB!Answer(c) \/ DynamoDB!GivesUp(c)
  BY <1>2, EndImplementsDB DEF Items!AtomicNext
<1>3. CASE \E c \in Clients : DynamoDB!Write(c)
  BY <1>3, WriteImplementsDB DEF Items!AtomicNext
<1>4. CASE \E c \in Clients : DynamoDB!GetItem(c)
  BY <1>4, GetItemImplementsDB DEF Items!AtomicNext
<1>5. CASE \E k \in Keys : DynamoDB!Replicate(k)
  BY <1>5, ReplicateImplementsDB DEF Items!AtomicNext
<1>6. CASE UNCHANGED DynamoDB!vars
  BY <1>6 DEF DynamoDB!vars, DynamoDB!locals, Items!atomicVars, Shown, ItemStanding,
     ItemStands
<1> QED
  BY <1>1, <1>2, <1>3, <1>4, <1>5, <1>6 DEF DynamoDB!Next

\* Every operation of DynamoDBStore takes effect at one moment and on its own
\* composition, although the SDK repeats calls whose answers it has lost, and
\* a Load returns what the composition is or lately was (store.go:16-28).
THEOREM DynamoDBImplementsStore ==
  ASSUME Keys # {}, Saves \subseteq DynamoDB!Composition
  PROVE  DynamoDB!Spec => Items!AtomicSpec
<1>1. DynamoDB!Init => DynamoDBInv /\ Items!AtomicInit
  BY InitInvDB, ItemsInit
<1>2. DynamoDBInv /\ [DynamoDB!Next]_(DynamoDB!vars) => DynamoDBInv'
  BY InvStepDB
<1>3. DynamoDBInv /\ [DynamoDB!Next]_(DynamoDB!vars) => [Items!AtomicNext]_(Items!atomicVars)
  BY ItemsStep
<1> QED
  BY <1>1, <1>2, <1>3, PTL DEF DynamoDB!Spec, Items!AtomicSpec
===========================================================================
