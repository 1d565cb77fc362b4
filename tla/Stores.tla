------------------------------ MODULE Stores ------------------------------
(***************************************************************************)
(* The store a request works on: ConfigMapStore or DynamoDBStore, as the   *)
(* annotation store-type says (the switch in RunFunction), and what both   *)
(* of them owe the handler, AtomicStore.  (The third, MockResourceStore,   *)
(* runs every operation under a mutex and is AtomicStore as it stands.)    *)
(***************************************************************************)
EXTENDS ConfigMapStore

CONSTANTS
  StoreTypes,  \* the values the annotation may have
  MaxPast      \* bound on the versions of an item that can be read at a time

ASSUME StoresAssumption ==
  /\ StoreTypes # {} /\ StoreTypes \subseteq {"awsdynamodb", "k8sconfigmap"}
  /\ MaxPast \in Nat \ {0}

VARIABLES
  storeType,  \* config.StoreType
  items, past, landed  \* see DynamoDBStore

DynamoDB == INSTANCE DynamoDBStore

OnConfigMap == storeType = "k8sconfigmap"
storesVars == <<vars, storeType, items, past, landed>>

StoresInit ==
  /\ storeType \in StoreTypes
  /\ Init
  /\ DynamoDB!Init

StoresNext ==
  \/ /\ OnConfigMap
     /\ Next
     /\ UNCHANGED <<storeType, items, past, landed>>
  \/ /\ ~OnConfigMap
     /\ DynamoDB!Next
     /\ UNCHANGED <<storeType, configMap, snapshot, fresh, writing>>

StoresSpec == StoresInit /\ [][StoresNext]_storesVars

---------------------------------------------------------------------------

\* The types of both stores.
StoresTypeOK == IF OnConfigMap THEN ConfigMapTypeOK ELSE DynamoDB!DynamoDBTypeOK

\* The store at work, as AtomicStore has it.
StoreNow ==
  IF OnConfigMap THEN configMap.data ELSE [k \in Keys |-> items[k].resources]

PastNow == IF OnConfigMap THEN [k \in Keys |-> {configMap.data[k]}] ELSE past

AtNow ==
  [c \in Clients |->
     IF at[c] = "idle" THEN "idle"
     ELSE IF at[c] = "answer" \/ (~OnConfigMap /\ landed[c]) THEN "taken" ELSE "pending"]

Store ==
  INSTANCE AtomicStore WITH store <- StoreNow, past <- PastNow, at <- AtNow

\* Every operation takes effect at one moment and on its own composition
\* (store.go:16-28): on a ConfigMap, although it takes several API calls and
\* all compositions share one object, and then a Load returns the present; on
\* DynamoDB, although the SDK repeats calls, and then a Load may lag behind.
ImplementsStore == Store!AtomicSpec
===========================================================================
