--------------------------- MODULE StoresProofs ---------------------------
(***************************************************************************)
(* Whichever store the annotation store-type picks, what the handler sees  *)
(* of it is AtomicStore, as long as no Save comes at once with a purge or  *)
(* a deletion that may empty the ConfigMap (~Crowded).                     *)
(*                                                                         *)
(* The store type never changes.  While it is a ConfigMap, the inductive   *)
(* invariant and the steps are those of ConfigMapStoreProofs; while it is  *)
(* DynamoDB, those of DynamoDBStoreProofs.  What is left to show is that   *)
(* the view of AtomicStore in Stores is the view in the one or the other.  *)
(***************************************************************************)
EXTENDS ConfigMapStoreProofs, DynamoDBStoreProofs

StoresInv ==
  /\ storeType \in {"awsdynamodb", "k8sconfigmap"}
  /\ IF OnConfigMap THEN ConfigMapInv ELSE DynamoDBInv

---------------------------------------------------------------------------
(* The two views *)

LEMMA ConfigMapView ==
  /\ OnConfigMap => StoreNow = configMap.data /\ PastNow = Present /\ AtNow = Standing
  /\ OnConfigMap' =>
       StoreNow' = configMap'.data /\ PastNow' = Present' /\ AtNow' = Standing'
BY DEF StoreNow, PastNow, Present, AtNow, Standing, Stands

LEMMA DynamoDBView ==
  /\ ~OnConfigMap => StoreNow = Shown /\ PastNow = past /\ AtNow = ItemStanding
  /\ ~OnConfigMap' => StoreNow' = Shown' /\ PastNow' = past' /\ AtNow' = ItemStanding'
BY DEF StoreNow, PastNow, Shown, AtNow, ItemStanding, ItemStands

LEMMA SameOperations ==
  /\ Store!NoOperation = Abstract!NoOperation /\ Store!Operation = Abstract!Operation
  /\ Store!EmptyComposition = Abstract!EmptyComposition
  /\ \A o, composition : Store!Result(o, composition) = Abstract!Result(o, composition)
BY DEF Store!NoOperation, Abstract!NoOperation, Store!Operation, Abstract!Operation,
   Store!EmptyComposition, Abstract!EmptyComposition, Store!NoData, Abstract!NoData,
   Store!Result, Abstract!Result

LEMMA SameItemOperations ==
  /\ Store!NoOperation = Items!NoOperation /\ Store!Operation = Items!Operation
  /\ Store!EmptyComposition = Items!EmptyComposition
  /\ \A o, composition : Store!Result(o, composition) = Items!Result(o, composition)
BY DEF Store!NoOperation, Items!NoOperation, Store!Operation, Items!Operation,
   Store!EmptyComposition, Items!EmptyComposition, Store!NoData, Items!NoData,
   Store!Result, Items!Result

LEMMA ConfigMapGlue ==
  ASSUME OnConfigMap, OnConfigMap', Abstract!AtomicNext
  PROVE  Store!AtomicNext
<1>1. /\ StoreNow = configMap.data /\ PastNow = Present /\ AtNow = Standing
      /\ StoreNow' = configMap'.data /\ PastNow' = Present' /\ AtNow' = Standing'
  BY ConfigMapView
<1>2. Abstract!Remember => Store!Remember
  BY <1>1 DEF Abstract!Remember, Store!Remember
<1>3. ASSUME NEW c \in Clients PROVE Abstract!End(c) => Store!End(c)
  BY <1>1, SameOperations DEF Abstract!End, Store!End
<1>4. ASSUME NEW c \in Clients PROVE Abstract!Effect(c) => Store!Effect(c)
  BY <1>1, <1>2, SameOperations DEF Abstract!Effect, Store!Effect
<1>5. Abstract!CatchUp => Store!CatchUp
  BY <1>1, <1>2 DEF Abstract!CatchUp, Store!CatchUp
<1>6. ASSUME NEW c \in Clients, NEW o PROVE Abstract!Invoke(c, o) => Store!Invoke(c, o)
  BY <1>1 DEF Abstract!Invoke, Store!Invoke
<1>7. ASSUME NEW c \in Clients PROVE Abstract!Take(c) => Store!Take(c)
  BY <1>1, <1>4 DEF Abstract!Take, Store!Take
<1>8. ASSUME NEW c \in Clients
      PROVE  /\ Abstract!Answer(c) => Store!Answer(c)
             /\ Abstract!Refuse(c) => Store!Refuse(c)
             /\ Abstract!Lose(c) => Store!Lose(c)
  BY <1>1, <1>3, <1>4 DEF Abstract!Answer, Store!Answer, Abstract!Refuse, Store!Refuse,
     Abstract!Lose, Store!Lose
<1> QED
  BY <1>5, <1>6, <1>7, <1>8, SameOperations DEF Abstract!AtomicNext, Store!AtomicNext

LEMMA DynamoDBGlue ==
  ASSUME ~OnConfigMap, ~OnConfigMap', Items!AtomicNext
  PROVE  Store!AtomicNext
<1>1. /\ StoreNow = Shown /\ PastNow = past /\ AtNow = ItemStanding
      /\ StoreNow' = Shown' /\ PastNow' = past' /\ AtNow' = ItemStanding'
  BY DynamoDBView
<1>2. Items!Remember => Store!Remember
  BY <1>1 DEF Items!Remember, Store!Remember
<1>3. ASSUME NEW c \in Clients PROVE Items!End(c) => Store!End(c)
  BY <1>1, SameItemOperations DEF Items!End, Store!End
<1>4. ASSUME NEW c \in Clients PROVE Items!Effect(c) => Store!Effect(c)
  BY <1>1, <1>2, SameItemOperations DEF Items!Effect, Store!Effect
<1>5. Items!CatchUp => Store!CatchUp
  BY <1>1, <1>2 DEF Items!CatchUp, Store!CatchUp
<1>6. ASSUME NEW c \in Clients, NEW o PROVE Items!Invoke(c, o) => Store!Invoke(c, o)
  BY <1>1 DEF Items!Invoke, Store!Invoke
<1>7. ASSUME NEW c \in Clients PROVE Items!Take(c) => Store!Take(c)
  BY <1>1, <1>4 DEF Items!Take, Store!Take
<1>8. ASSUME NEW c \in Clients
      PROVE  /\ Items!Answer(c) => Store!Answer(c)
             /\ Items!Refuse(c) => Store!Refuse(c)
             /\ Items!Lose(c) => Store!Lose(c)
  BY <1>1, <1>3, <1>4 DEF Items!Answer, Store!Answer, Items!Refuse, Store!Refuse,
     Items!Lose, Store!Lose
<1> QED
  BY <1>5, <1>6, <1>7, <1>8, SameItemOperations DEF Items!AtomicNext, Store!AtomicNext

---------------------------------------------------------------------------
(* Both stores in one *)

LEMMA SavesType == Keys # {} /\ Saves \subseteq DynamoDB!Composition
BY ConfigMapAssumption DEF Composition, Data, ExtName, ObjName,
   DynamoDB!Composition, DynamoDB!Data, DynamoDB!ExtName, DynamoDB!ObjName

LEMMA StoresInitInv == StoresInit => StoresInv /\ Store!AtomicInit
<1> SUFFICES ASSUME StoresInit PROVE StoresInv /\ Store!AtomicInit
  OBVIOUS
<1>1. ConfigMapInv /\ Abstract!AtomicInit
  BY InitInv, InitImplements DEF StoresInit
<1>2. DynamoDBInv /\ Items!AtomicInit
  BY SavesType, InitInvDB, ItemsInit DEF StoresInit
<1>3. StoresInv
  BY <1>1, <1>2, StoresAssumption DEF StoresInit, StoresInv
<1>4. CASE OnConfigMap
  <2>1. StoreNow = configMap.data /\ PastNow = Present /\ AtNow = Standing
    BY <1>4, ConfigMapView
  <2> QED
    BY <1>1, <1>3, <2>1, SameOperations DEF Abstract!AtomicInit, Store!AtomicInit
<1>5. CASE ~OnConfigMap
  <2>1. StoreNow = Shown /\ PastNow = past /\ AtNow = ItemStanding
    BY <1>5, DynamoDBView
  <2> QED
    BY <1>2, <1>3, <2>1, SameItemOperations DEF Items!AtomicInit, Store!AtomicInit
<1> QED
  BY <1>3, <1>4, <1>5

LEMMA StoresStep ==
  ASSUME ~Crowded, StoresInv, [StoresNext]_storesVars
  PROVE  StoresInv' /\ (Store!AtomicNext \/ UNCHANGED Store!atomicVars)
<1>1. storeType' = storeType /\ (OnConfigMap' <=> OnConfigMap)
  BY DEF StoresNext, storesVars, OnConfigMap
<1>2. CASE OnConfigMap
  <2>1. ConfigMapInv /\ [Next]_vars
    BY <1>2 DEF StoresInv, StoresNext, storesVars
  <2>2. ConfigMapInv'
    BY <2>1, InvStep
  <2>3. Abstract!AtomicNext \/ UNCHANGED Abstract!atomicVars
    BY <2>1, StepImplements
  <2>4. UNCHANGED Abstract!atomicVars => UNCHANGED Store!atomicVars
    BY <1>1, <1>2, ConfigMapView DEF Abstract!atomicVars, Store!atomicVars
  <2> QED
    BY <1>1, <1>2, <2>2, <2>3, <2>4, ConfigMapGlue DEF StoresInv
<1>3. CASE ~OnConfigMap
  <2>1. DynamoDBInv /\ [DynamoDB!Next]_(DynamoDB!vars)
    BY <1>3 DEF StoresInv, StoresNext, storesVars, vars, locals, DynamoDB!vars,
       DynamoDB!locals
  <2>2. DynamoDBInv'
    BY <2>1, SavesType, InvStepDB
  <2>3. Items!AtomicNext \/ UNCHANGED Items!atomicVars
    BY <2>1, SavesType, ItemsStep
  <2>4. UNCHANGED Items!atomicVars => UNCHANGED Store!atomicVars
    BY <1>1, <1>3, DynamoDBView DEF Items!atomicVars, Store!atomicVars
  <2> QED
    BY <1>1, <1>3, <2>2, <2>3, <2>4, DynamoDBGlue DEF StoresInv
<1> QED
  BY <1>2, <1>3

\* The types of the store at work, whichever it is and whatever its clients do
\* at once (store.go:16-28).
THEOREM StoresTypeCorrect == StoresSpec => []StoresTypeOK
<1> DEFINE Types == IF OnConfigMap THEN SoundInv ELSE DynamoDBInv
<1>1. StoresInit => Types
  BY StoresInitInv DEF StoresInv, ConfigMapInv
<1>2. Types /\ [StoresNext]_storesVars => Types'
  <2> SUFFICES ASSUME Types, [StoresNext]_storesVars PROVE Types'
    OBVIOUS
  <2>1. OnConfigMap' <=> OnConfigMap
    BY DEF StoresNext, storesVars, OnConfigMap
  <2>2. CASE OnConfigMap
    <3>1. SoundInv /\ [Next]_vars
      BY <2>2 DEF StoresNext, storesVars
    <3> QED
      BY <2>1, <2>2, <3>1, SoundStep
  <2>3. CASE ~OnConfigMap
    <3>1. DynamoDBInv /\ [DynamoDB!Next]_(DynamoDB!vars)
      BY <2>3 DEF StoresNext, storesVars, vars, locals, DynamoDB!vars, DynamoDB!locals
    <3> QED
      BY <2>1, <2>3, <3>1, SavesType, InvStepDB
  <2> QED
    BY <2>2, <2>3
<1>3. Types => StoresTypeOK
  BY DEF StoresTypeOK, SoundInv, DynamoDBInv
<1> QED
  BY <1>1, <1>2, <1>3, PTL DEF StoresSpec

\* What ResourceStore promises (store.go:16-28), of both stores and for any
\* number of clients, keys, resources and names: every operation takes effect
\* at one moment and on its own composition only, unless a Save comes at once
\* with a purge or a deletion that may empty the ConfigMap.
THEOREM StoresImplementStore ==
  ASSUME ~Crowded
  PROVE  StoresSpec => ImplementsStore
<1>1. StoresInv /\ [StoresNext]_storesVars => StoresInv'
  BY StoresStep
<1>2. StoresInv /\ [StoresNext]_storesVars => [Store!AtomicNext]_(Store!atomicVars)
  BY StoresStep
<1> QED
  BY <1>1, <1>2, StoresInitInv, PTL DEF StoresSpec, ImplementsStore, Store!AtomicSpec
===========================================================================
