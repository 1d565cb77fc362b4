-------------------------- MODULE ReconcileProofs --------------------------
(***************************************************************************)
(* What the function owes the loop it lives in, for every set of           *)
(* composites, resources and names and every bound on what goes wrong.     *)
(***************************************************************************)
EXTENDS Reconcile, ResponseProofs

---------------------------------------------------------------------------
(* Types *)

LEMMA TemplateType ==
  ASSUME ReconcileTypeOK, NEW c \in Calls
  PROVE  /\ template[c] \in Objects /\ objects[c] \in Objects
         /\ RequestOf(c) \in Request /\ KeyOf[c] \in Keys
<1>1. \A t \in Templates \cup {NoObject} : t \in Object
  BY NoObjectsType, ReconcileAssumption
<1>2. template[c] \in Objects /\ objects[c] \in Objects
  BY <1>1 DEF ReconcileTypeOK, Objects
<1>3. /\ drive[c].enabled \in BOOLEAN /\ drive[c].purge \in BOOLEAN
      /\ drive[c].restoreOnly \in BOOLEAN /\ drive[c].scope \in Scopes
  BY ReconcileAssumption DEF ReconcileTypeOK
<1> QED
  BY <1>2, <1>3, ReconcileAssumption DEF RequestOf, Request

Spendable ==
  [edits : 0..MaxEdits, switches : 0..MaxSwitches, renames : 0..MaxRenames,
   disasters : 0..MaxDisasters, drops : 0..MaxDrops]

LEMMA SpendType ==
  ASSUME spent \in Spendable
  PROVE  /\ spent.edits < MaxEdits => [spent EXCEPT !.edits = @ + 1] \in Spendable
         /\ spent.switches < MaxSwitches => [spent EXCEPT !.switches = @ + 1] \in Spendable
         /\ spent.renames < MaxRenames => [spent EXCEPT !.renames = @ + 1] \in Spendable
         /\ spent.disasters < MaxDisasters =>
              [spent EXCEPT !.disasters = @ + 1] \in Spendable
         /\ spent.drops < MaxDrops => [spent EXCEPT !.drops = @ + 1] \in Spendable
<1>1. ASSUME NEW max \in Nat, NEW n \in 0..max, n < max PROVE n + 1 \in 0..max
  BY <1>1
<1>2. /\ spent.edits \in 0..MaxEdits /\ spent.switches \in 0..MaxSwitches
      /\ spent.renames \in 0..MaxRenames /\ spent.disasters \in 0..MaxDisasters
      /\ spent.drops \in 0..MaxDrops
  BY DEF Spendable
<1>3. /\ spent.edits < MaxEdits => spent.edits + 1 \in 0..MaxEdits
      /\ spent.switches < MaxSwitches => spent.switches + 1 \in 0..MaxSwitches
      /\ spent.renames < MaxRenames => spent.renames + 1 \in 0..MaxRenames
      /\ spent.disasters < MaxDisasters => spent.disasters + 1 \in 0..MaxDisasters
      /\ spent.drops < MaxDrops => spent.drops + 1 \in 0..MaxDrops
  BY <1>1, <1>2, ReconcileAssumption
<1> QED
  BY <1>3 DEF Spendable

\* One step of the call of a composite, as RunFunction takes it.
Moves(c) == StepOf(c, RequestOf(c), KeyOf[c], store[KeyOf[c]])

LEMMA MovesType ==
  ASSUME ReconcileTypeOK, NEW c \in Calls, Moves(c)
  PROVE  TypeOK'
<1>1. RequestOf(c) \in Request /\ KeyOf[c] \in Keys /\ TypeOK
  BY TemplateType DEF ReconcileTypeOK
<1>2. store[KeyOf[c]] \in Composition
  BY <1>1 DEF TypeOK
<1>3. CASE Continue(c) \/ Abandon(c) \/ Return(c)
  BY <1>1, <1>3, ContinueIsTyped
<1>4. CASE ~(Continue(c) \/ Abandon(c) \/ Return(c))
  BY <1>1, <1>2, <1>4, StartType DEF Moves, StepOf
<1> QED
  BY <1>3, <1>4

\* A reconcile is a step of its call and, when it applies, of its objects.
LEMMA ReconcilesMoves ==
  ASSUME NEW c \in Calls, Reconciles(c) \/ Drop(c)
  PROVE  /\ Moves(c)
         /\ UNCHANGED <<drive, template>>
         /\ Apply(c) \/ UNCHANGED <<objects, cloud>>
         /\ Drop(c) \/ UNCHANGED spent
BY DEF Reconciles, Begin, Work, Apply, GiveUp, Drop, Moves, StepOf, Load, cluster

LEMMA AppliedType ==
  ASSUME NEW old \in Object, NEW d \in Object, NEW generated \in ObjNames
  PROVE  /\ AppliedObject(old, d, generated) \in Object
         /\ AppliedObject(old, d, generated).present = d.present
         /\ ~d.present => AppliedObject(old, d, generated) = NoObject
         /\ d.present =>
              /\ AppliedObject(old, d, generated).spec = d.spec
              /\ AppliedObject(old, d, generated).ext = Prefer(d.ext, old.ext)
              /\ AppliedObject(old, d, generated).storedExt = d.storedExt
              /\ AppliedObject(old, d, generated).storedName = d.storedName
              /\ AppliedObject(old, d, generated).name =
                   IF old.present THEN old.name ELSE Prefer(d.name, generated)
<1>1. CASE ~d.present
  <2>1. AppliedObject(old, d, generated) = NoObject
    BY <1>1 DEF AppliedObject
  <2>2. d.present = FALSE
    BY <1>1 DEF Object
  <2>3. NoObject.present = FALSE
    BY DEF NoObject
  <2> QED
    BY <1>1, <2>1, <2>2, <2>3, NoObjectsType
<1>2. CASE d.present
  <2> DEFINE name == IF old.present THEN old.name ELSE Prefer(d.name, generated)
             ext == Prefer(d.ext, old.ext)
  <2>1. AppliedObject(old, d, generated) = [d EXCEPT !.name = name, !.ext = ext]
    BY <1>2 DEF AppliedObject
  <2>2. name \in ObjName /\ ext \in ExtName
    BY DEF Prefer, Object, ObjName, ExtName
  <2> HIDE DEF name, ext
  <2>3. /\ AppliedObject(old, d, generated) \in Object
        /\ AppliedObject(old, d, generated).present = d.present
        /\ AppliedObject(old, d, generated).spec = d.spec
        /\ AppliedObject(old, d, generated).ext = ext
        /\ AppliedObject(old, d, generated).storedExt = d.storedExt
        /\ AppliedObject(old, d, generated).storedName = d.storedName
        /\ AppliedObject(old, d, generated).name = name
    BY <2>1, <2>2 DEF Object
  <2> QED
    BY <1>2, <2>3 DEF name, ext
<1> QED
  BY <1>1, <1>2

LEMMA ApplyType ==
  ASSUME ReconcileTypeOK, NEW c \in Calls, Apply(c)
  PROVE  objects' \in [Calls -> Objects] /\ cloud' \in [Calls -> [Resources -> SUBSET ExtNames]]
<1>1. PICK generated \in [Resources -> ObjNames] :
        objects' = [objects EXCEPT ![c] =
          [r \in Resources |->
             AppliedObject(objects[c][r], desired[c][r], generated[r])]]
  BY DEF Apply
<1>2. ASSUME NEW r \in Resources
      PROVE  AppliedObject(objects[c][r], desired[c][r], generated[r]) \in Object
  <2>1. objects[c][r] \in Object /\ desired[c][r] \in Object /\ generated[r] \in ObjNames
    BY DEF ReconcileTypeOK, TypeOK, Objects
  <2> QED
    BY <2>1, AppliedType
<1>3. [r \in Resources |-> AppliedObject(objects[c][r], desired[c][r], generated[r])]
        \in Objects
  BY <1>2 DEF Objects
<1>4. ASSUME NEW r \in Resources PROVE CloudAfter(c, r) \in SUBSET ExtNames
  BY DEF CloudAfter, ReconcileTypeOK
<1> QED
  BY <1>1, <1>3, <1>4 DEF Apply, ReconcileTypeOK

LEMMA DropType ==
  ASSUME ReconcileTypeOK, NEW c \in Calls, Drop(c)
  PROVE  ReconcileTypeOK'
<1>1. TypeOK'
  BY ReconcilesMoves, MovesType
<1>2. spent' \in Spendable
  <2>1. spent \in Spendable
    BY DEF ReconcileTypeOK, Spendable
  <2> QED
    BY <2>1, SpendType DEF Drop
<1> QED
  BY <1>1, <1>2 DEF Drop, ReconcileTypeOK, Spendable

LEMMA DisasterType ==
  ASSUME ReconcileTypeOK, Disaster
  PROVE  ReconcileTypeOK'
<1>1. TypeOK'
  BY DefaultsType, NoObjectsType, EmptyCompositionType
     DEF Disaster, ReconcileTypeOK, TypeOK, PC
<1>2. spent' \in Spendable
  <2>1. spent \in Spendable
    BY DEF ReconcileTypeOK, Spendable
  <2> QED
    BY <2>1, SpendType DEF Disaster
<1> QED
  BY <1>1, <1>2, NoObjectsType DEF Disaster, ReconcileTypeOK, Spendable

\* What a provider or a user does to one object: it gets another external name.
Named(c, r, e) ==
  /\ e \in ExtNames
  /\ objects' = [objects EXCEPT ![c][r].ext = e]
  /\ cloud' = [cloud EXCEPT ![c][r] = @ \cup {e}]

LEMMA NamedBy ==
  ASSUME ReconcileTypeOK, NEW c \in Calls, NEW r \in Resources,
         ProviderCreates(c, r) \/ Rename(c, r)
  PROVE  \E e : Named(c, r, e)
<1>1. Unused \subseteq ExtNames /\ cloud[c][r] \subseteq ExtNames
  BY DEF Unused, ReconcileTypeOK
<1>2. CASE ProviderCreates(c, r)
  BY <1>1, <1>2 DEF ProviderCreates, Named
<1>3. CASE Rename(c, r)
  BY <1>1, <1>3 DEF Rename, Named
<1> QED
  BY <1>2, <1>3

LEMMA NamedType ==
  ASSUME ReconcileTypeOK, NEW c \in Calls, NEW r \in Resources, NEW e, Named(c, r, e)
  PROVE  /\ objects' \in [Calls -> Objects]
         /\ cloud' \in [Calls -> [Resources -> SUBSET ExtNames]]
         /\ \A d \in Calls, s \in Resources :
              objects'[d][s] = IF d = c /\ s = r THEN [objects[c][r] EXCEPT !.ext = e]
                               ELSE objects[d][s]
         /\ [objects[c][r] EXCEPT !.ext = e] \in Object
<1>1. /\ objects[c] \in Objects /\ objects[c][r] \in Object
      /\ cloud[c] \in [Resources -> SUBSET ExtNames]
  BY DEF ReconcileTypeOK, Objects
<1>2. [objects[c][r] EXCEPT !.ext = e] \in Object
  BY <1>1 DEF Named, Object, ExtName
<1>3. objects' = [objects EXCEPT ![c] =
                    [objects[c] EXCEPT ![r] = [objects[c][r] EXCEPT !.ext = e]]]
  BY DEF Named
<1>4. cloud' = [cloud EXCEPT ![c] = [cloud[c] EXCEPT ![r] = cloud[c][r] \cup {e}]]
  BY DEF Named
<1> DEFINE o == [objects[c][r] EXCEPT !.ext = e]
<1> HIDE DEF o
<1>5. [objects[c] EXCEPT ![r] = o] \in Objects
  BY <1>1, <1>2 DEF Objects, o
<1>6. [cloud[c] EXCEPT ![r] = cloud[c][r] \cup {e}] \in [Resources -> SUBSET ExtNames]
  BY <1>1 DEF Named
<1>7. \A d \in Calls, s \in Resources :
        objects'[d][s] = IF d = c /\ s = r THEN o ELSE objects[d][s]
  BY <1>1, <1>3 DEF o, ReconcileTypeOK, Objects
<1> QED
  BY <1>2, <1>3, <1>4, <1>5, <1>6, <1>7 DEF o, ReconcileTypeOK

LEMMA UsersType ==
  ASSUME ReconcileTypeOK, NEW c \in Calls,
         \/ Annotate(c)
         \/ \E r \in Resources : ProviderCreates(c, r) \/ Rename(c, r) \/ Compose(c, r)
  PROVE  ReconcileTypeOK'
<1>0. spent \in Spendable
  BY DEF ReconcileTypeOK, Spendable
<1>1. TypeOK'
  BY DEF Annotate, ProviderCreates, Rename, Compose, vars, local, ReconcileTypeOK, TypeOK
<1>2. CASE Annotate(c)
  <2>1. spent' \in Spendable
    BY <1>0, <1>2, SpendType DEF Annotate
  <2>2. drive' \in [Calls -> Drives]
    BY <1>2 DEF Annotate, ReconcileTypeOK
  <2> QED
    BY <1>1, <1>2, <2>1, <2>2 DEF Annotate, ReconcileTypeOK, Spendable
<1>3. ASSUME NEW r \in Resources, ProviderCreates(c, r) \/ Rename(c, r)
      PROVE  ReconcileTypeOK'
  <2>1. spent' \in Spendable
    BY <1>0, <1>3, SpendType DEF ProviderCreates, Rename
  <2>2. UNCHANGED <<drive, template>>
    BY <1>3 DEF ProviderCreates, Rename
  <2> QED
    BY <1>1, <1>3, <2>1, <2>2, NamedBy, NamedType DEF ReconcileTypeOK, Spendable
<1>4. ASSUME NEW r \in Resources, Compose(c, r) PROVE ReconcileTypeOK'
  <2>1. spent' \in Spendable
    BY <1>0, <1>4, SpendType DEF Compose
  <2>2. template' \in [Calls -> [Resources -> Templates \cup {NoObject}]]
    BY <1>4 DEF Compose, ReconcileTypeOK
  <2> QED
    BY <1>1, <1>4, <2>1, <2>2 DEF Compose, ReconcileTypeOK, Spendable
<1> QED
  BY <1>2, <1>3, <1>4

LEMMA ReconcileTypeStep ==
  ASSUME ReconcileTypeOK, [ReconcileNext]_allvars
  PROVE  ReconcileTypeOK'
<1>1. CASE Disaster
  BY <1>1, DisasterType
<1>2. ASSUME NEW c \in Calls, Reconciles(c) PROVE ReconcileTypeOK'
  <2>1. TypeOK' /\ UNCHANGED <<drive, template>>
    BY <1>2, ReconcilesMoves, MovesType
  <2>2. UNCHANGED spent
    BY <1>2 DEF Reconciles, Begin, Work, Apply, GiveUp, cluster
  <2>3. Apply(c) \/ UNCHANGED <<objects, cloud>>
    BY <1>2, ReconcilesMoves
  <2> QED
    BY <2>1, <2>2, <2>3, ApplyType DEF ReconcileTypeOK
<1>3. ASSUME NEW c \in Calls, Drop(c) PROVE ReconcileTypeOK'
  BY <1>3, DropType
<1>4. CASE UNCHANGED allvars
  BY <1>4 DEF allvars, cluster, vars, local, ReconcileTypeOK, TypeOK
<1> QED
  BY <1>1, <1>2, <1>3, <1>4, UsersType DEF ReconcileNext

LEMMA ReconcileInitType == ReconcileInit => ReconcileTypeOK
BY InitType, NoObjectsType, ReconcileAssumption DEF ReconcileInit, ReconcileTypeOK

\* The names the function puts on objects come back to it as observed ones,
\* and everything keeps its type (RunFunction, fn.go:632-1421).
THEOREM ReconcileTypeCorrect == ReconcileSpec => []ReconcileTypeOK
<1>1. ReconcileTypeOK /\ [ReconcileNext]_allvars => ReconcileTypeOK'
  BY ReconcileTypeStep
<1> QED
  BY <1>1, ReconcileInitType, PTL DEF ReconcileSpec

---------------------------------------------------------------------------
(* The invariant of the function inside the loop: every call is about the   *)
(* key of its composite, so that no two are about one key, whatever the     *)
(* constant Exclusive says.                                                 *)

AtOwnKey == \A c \in Calls : Running(c) => key[c] = KeyOf[c]

FunctionInv == AtOwnKey /\ NoOverlap /\ CacheCoherent /\ ReadyInv /\ Cached

\* An object that says its external name is stored is there and has one.
Sound(o) == o.storedExt # None => o.present /\ o.ext # None

\* The objects of a composite, the response that is to become its objects, and
\* what a running call has observed of them.
ObjectsSound(c) ==
  /\ \A r \in Resources :
       Sound(objects[c][r]) /\ (objects[c][r].present => objects[c][r].name # None)
  /\ pc[c] = "done" => \A r \in Resources : Sound(desired[c][r])
  /\ Running(c) => \A r \in Resources :
       /\ observed[c][r].present = objects[c][r].present
       /\ observed[c][r].spec = objects[c][r].spec
       /\ observed[c][r].ext # None => objects[c][r].ext # None
       /\ Sound(observed[c][r])

LoopInv == ReconcileTypeOK /\ FunctionInv /\ (\A c \in Calls : ObjectsSound(c))

LEMMA PlainTemplate ==
  ASSUME TemplatesArePlain, ReconcileTypeOK, NEW c \in Calls, NEW r \in Resources
  PROVE  /\ template[c][r].storedExt = None /\ template[c][r].storedName = None
         /\ ~template[c][r].deleted
<1>1. template[c][r] \in Templates \cup {NoObject}
  BY DEF ReconcileTypeOK
<1> QED
  BY <1>1 DEF TemplatesArePlain, NoObject

LEMMA RequestIsOrdinary ==
  ASSUME TemplatesArePlain, ReconcileTypeOK, NEW c \in Calls, ObjectsSound(c)
  PROVE  Ordinary(RequestOf(c))
BY PlainTemplate DEF Ordinary, RequestOf, ObjectsSound, Sound

LEMMA OwnKeyIsFree ==
  ASSUME AtOwnKey, NEW c \in Calls
  PROVE  \A d \in Calls \ {c} : Running(d) => key[d] # KeyOf[c]
BY ReconcileAssumption DEF AtOwnKey

\* A call that runs after its step has loaded its composition in that step, or
\* ran before under the same key and with the same objects.
LEMMA StillRunning ==
  ASSUME TypeOK, NEW c \in Calls, NEW rq, NEW k, NEW found, StepOf(c, rq, k, found),
         Running(c)'
  PROVE  \/ /\ LoadFound(c, k, rq, found)
            /\ key'[c] = k /\ desired'[c] = rq.desired /\ observed'[c] = rq.observed
            /\ mode'[c] = [restoreOnly |-> rq.restoreOnly, scope |-> rq.scope]
            /\ loaded'[c] = found /\ store' = store /\ faults' = faults
         \/ /\ Running(c) /\ key'[c] = key[c] /\ mode'[c] = mode[c]
            /\ (\E s \in Resources : DeleteOne(c, s)) \/ PurgeEmpty(c)
            /\ \A r \in Resources :
                 /\ observed'[c][r].present = observed[c][r].present
                 /\ observed'[c][r].spec = observed[c][r].spec
                 /\ observed'[c][r].ext = observed[c][r].ext
                 /\ observed'[c][r].storedExt \in {None, observed[c][r].storedExt}
<1>1. CASE LoadFound(c, k, rq, found)
  BY <1>1 DEF LoadFound, Fail, Leave, Running, TypeOK
<1>2. ASSUME NEW s \in Resources, DeleteOne(c, s)
      PROVE  /\ Running(c) /\ key'[c] = key[c] /\ mode'[c] = mode[c]
             /\ \A r \in Resources :
                  /\ observed'[c][r].present = observed[c][r].present
                  /\ observed'[c][r].spec = observed[c][r].spec
                  /\ observed'[c][r].ext = observed[c][r].ext
                  /\ observed'[c][r].storedExt \in {None, observed[c][r].storedExt}
  <2>1. \/ observed' = observed
        \/ \A r \in Resources :
             observed'[c][r] = IF r = s THEN Untracked(observed[c][s]) ELSE observed[c][r]
    BY <1>2 DEF DeleteOne, Dropped, TypeOK, Objects
  <2>2. observed[c][s] \in Object
    BY DEF TypeOK, Objects
  <2>3. /\ Untracked(observed[c][s]).present = observed[c][s].present
        /\ Untracked(observed[c][s]).spec = observed[c][s].spec
        /\ Untracked(observed[c][s]).ext = observed[c][s].ext
        /\ Untracked(observed[c][s]).storedExt = None
    BY <2>2 DEF Untracked, Object
  <2> QED
    BY <1>2, <2>1, <2>3 DEF DeleteOne, Running
<1>3. CASE PurgeEmpty(c)
  BY <1>3 DEF PurgeEmpty, local, Running
<1>4. LoadFound(c, k, rq, found) \/ (\E s \in Resources : DeleteOne(c, s)) \/ PurgeEmpty(c)
  BY EndsRunning DEF StepOf, Continue
<1> QED
  BY <1>1, <1>2, <1>3, <1>4

LEMMA MovesKeepFunctionInv ==
  ASSUME TemplatesArePlain, LoopInv, NEW c \in Calls, Moves(c)
  PROVE  FunctionInv'
<1> DEFINE rq == RequestOf(c)
           k == KeyOf[c]
<1>1. /\ Inv /\ TypeOK /\ rq \in Request /\ k \in Keys /\ Ordinary(rq)
      /\ StepOf(c, rq, k, store[k])
  BY TemplateType, RequestIsOrdinary DEF LoopInv, FunctionInv, Inv, ReconcileTypeOK, Moves
<1>2. \A d \in Calls \ {c} : Running(d) => key[d] # k
  BY OwnKeyIsFree DEF LoopInv, FunctionInv
<1>3. AtOwnKey'
  <2> SUFFICES ASSUME NEW d \in Calls, Running(d)' PROVE key'[d] = KeyOf[d]
    BY DEF AtOwnKey
  <2>1. CASE d # c
    <3>1. pc'[d] = pc[d] /\ key'[d] = key[d]
      BY <1>1, <2>1, StepFrame
    <3> QED
      BY <3>1 DEF LoopInv, FunctionInv, AtOwnKey, Running
  <2>2. CASE d = c
    <3>1. key'[c] = k \/ (Running(c) /\ key'[c] = key[c])
      BY <1>1, <2>2, StillRunning
    <3> QED
      BY <2>2, <3>1 DEF LoopInv, FunctionInv, AtOwnKey
  <2> QED
    BY <2>1, <2>2
<1> HIDE DEF rq, k
<1>4. (NoOverlap /\ CacheCoherent)'
  <2>1. CASE \/ Skip(c, rq) \/ PurgeComposition(c, k, rq)
             \/ LoadFound(c, k, rq, store[k]) \/ LoadFails(c, k, rq)
    BY <1>1, <1>2, <2>1, StartPreserves DEF Load
  <2>2. CASE \E s \in Resources : DeleteOne(c, s)
    BY <1>1, <2>2, DeleteOnePreserves
  <2>3. CASE \/ PurgeEmpty(c) \/ RestoreFails(c) \/ RespondUnsaved(c)
             \/ SaveAndRespond(c) \/ Abandon(c) \/ Return(c)
    BY <1>1, <2>3, ContinuePreserves
  <2> QED
    BY <1>1, <2>1, <2>2, <2>3 DEF StepOf, Continue
<1>5. ReadyInv'
  BY <1>1, StepKeepsReady DEF LoopInv, FunctionInv
<1>6. Cached'
  BY <1>1, <1>2, CachedStep DEF LoopInv, FunctionInv
<1> QED
  BY <1>3, <1>4, <1>5, <1>6 DEF FunctionInv

\* How a call comes to have a response: it answers, or it has passed the
\* desired state on, without the function or after a purge.
LEMMA Responds ==
  ASSUME ReconcileTypeOK, NEW c \in Calls, Moves(c), pc'[c] = "done"
  PROVE  \/ Answers(c)
         \/ /\ desired'[c] = template[c]
            /\ ~drive[c].enabled /\ store' = store
         \/ /\ desired'[c] = template[c]
            /\ drive[c].enabled /\ drive[c].purge
            /\ store' = [store EXCEPT ![KeyOf[c]] = EmptyComposition]
<1>1. TypeOK
  BY DEF ReconcileTypeOK
<1>2. CASE Skip(c, RequestOf(c))
  BY <1>1, <1>2 DEF Skip, RequestOf, Bypassed, Respond, Leave, TypeOK
<1>3. CASE PurgeComposition(c, KeyOf[c], RequestOf(c))
  <2>1. PICK outcome \in Outcomes :
          /\ store' = After(outcome, Purge(store, KeyOf[c]))
          /\ IF outcome = "ok" THEN Respond(c, Bypassed(RequestOf(c))) ELSE Fail(c)
    BY <1>3 DEF PurgeComposition
  <2>2. outcome = "ok"
    BY <1>1, <2>1 DEF Fail, Leave, TypeOK
  <2> QED
    BY <1>1, <1>3, <2>1, <2>2
       DEF PurgeComposition, RequestOf, Bypassed, Respond, Leave, TypeOK, After, Purge
<1>4. CASE Continue(c)
  <2>1. Running(c)
    BY <1>4 DEF Continue, DeleteOne, PurgeEmpty, RestoreFails, RespondUnsaved,
       SaveAndRespond, PastDeletes, Running
  <2> QED
    BY <2>1 DEF Answers
<1>5. ~(\/ LoadFound(c, KeyOf[c], RequestOf(c), store[KeyOf[c]])
        \/ LoadFails(c, KeyOf[c], RequestOf(c)) \/ Abandon(c) \/ Return(c))
  BY <1>1 DEF LoadFound, LoadFails, Abandon, Return, Fail, Leave, TypeOK
<1> QED
  BY <1>2, <1>3, <1>4, <1>5 DEF Moves, StepOf

LEMMA AnswerIsSound ==
  ASSUME LoopInv, NEW c \in Calls, Moves(c), Answers(c), NEW r \in Resources
  PROVE  Sound(desired'[c][r])
<1> DEFINE d == desired[c][r]
           o == observed[c][r]
           p == RestorePass(c)[r]
           q == desired'[c][r]
<1>1. TypeOK /\ Running(c) /\ d.storedExt = None /\ Sound(o)
  BY DEF LoopInv, ReconcileTypeOK, FunctionInv, ReadyInv, Ready, ObjectsSound, Answers
<1>2. desired'[c] = Response(c, StoredBy(c)) /\ StoredBy(c) \in Composition
  BY <1>1, AnswerStep DEF Moves
<1>3. /\ q.present = d.present
      /\ ~d.present => q = d
      /\ d.present =>
           /\ q.ext = Prefer(o.ext, p.ext)
           /\ q.storedExt = Prefer(o.storedExt, Prefer(StoredBy(c)[r].ext, p.storedExt))
  BY <1>1, <1>2, ResponseFields
<1>4. d.present => (p.storedExt # None => p.ext # None)
  BY <1>1, RestoredFields
<1>5. StoredBy(c)[r].ext # None => o.ext # None
  BY DEF StoredBy, EmptyComposition, NoData, NewResourceData, NewData
<1> HIDE DEF d, o, p, q
<1>6. Sound(q)
  BY <1>1, <1>3, <1>4, <1>5 DEF Sound, Prefer
<1> QED
  BY <1>6 DEF q

LEMMA ResponseIsSound ==
  ASSUME TemplatesArePlain, LoopInv, NEW c \in Calls, Moves(c), pc'[c] = "done",
         NEW r \in Resources
  PROVE  Sound(desired'[c][r])
<1>1. CASE Answers(c)
  BY <1>1, AnswerIsSound
<1>2. CASE desired'[c] = template[c]
  BY <1>2, PlainTemplate DEF LoopInv, Sound
<1> QED
  BY <1>1, <1>2, Responds DEF LoopInv

\* The objects after an apply.
LEMMA AppliedObjects ==
  ASSUME ReconcileTypeOK, NEW c \in Calls, Apply(c), NEW r \in Resources
  PROVE  /\ objects'[c][r].present = desired[c][r].present
         /\ ~desired[c][r].present => objects'[c][r] = NoObject
         /\ desired[c][r].present =>
              /\ objects'[c][r].spec = desired[c][r].spec
              /\ objects'[c][r].ext = Prefer(desired[c][r].ext, objects[c][r].ext)
              /\ objects'[c][r].storedExt = desired[c][r].storedExt
              /\ objects'[c][r].storedName = desired[c][r].storedName
              /\ \/ objects[c][r].present /\ objects'[c][r].name = objects[c][r].name
                 \/ objects'[c][r].name # None
<1>1. PICK generated \in [Resources -> ObjNames] :
        objects' = [objects EXCEPT ![c] =
          [s \in Resources |->
             AppliedObject(objects[c][s], desired[c][s], generated[s])]]
  BY DEF Apply
<1>2. objects[c][r] \in Object /\ desired[c][r] \in Object /\ generated[r] \in ObjNames
  BY DEF ReconcileTypeOK, TypeOK, Objects
<1>3. objects'[c][r] = AppliedObject(objects[c][r], desired[c][r], generated[r])
  BY <1>1 DEF ReconcileTypeOK
<1>4. Prefer(desired[c][r].name, generated[r]) # None
  BY <1>2, NamesAssumption DEF Prefer
<1> DEFINE old == objects[c][r]
           d == desired[c][r]
           a == AppliedObject(old, d, generated[r])
<1>5. /\ a.present = d.present
      /\ ~d.present => a = NoObject
      /\ d.present =>
           /\ a.spec = d.spec
           /\ a.ext = Prefer(d.ext, old.ext)
           /\ a.storedExt = d.storedExt
           /\ a.storedName = d.storedName
           /\ a.name = IF old.present THEN old.name ELSE Prefer(d.name, generated[r])
  <2> HIDE DEF old, d
  <2>1. old \in Object /\ d \in Object
    BY <1>2 DEF old, d
  <2> QED
    BY <1>2, <2>1, AppliedType
<1>6. objects'[c][r] = a
  BY <1>3
<1> HIDE DEF a
<1> QED
  BY <1>4, <1>5, <1>6

LEMMA ApplyFrame ==
  ASSUME ReconcileTypeOK, NEW c \in Calls, Apply(c)
  PROVE  /\ \A d \in Calls \ {c} : objects'[d] = objects[d]
         /\ pc[c] = "done" /\ pc'[c] = "idle" /\ store' = store
BY DEF Apply, Return, ReconcileTypeOK, TypeOK

LEMMA MovesKeepObjectsSound ==
  ASSUME TemplatesArePlain, LoopInv, NEW c \in Calls, Reconciles(c) \/ Drop(c),
         NEW d \in Calls
  PROVE  ObjectsSound(d)'
<1>1. /\ Moves(c) /\ UNCHANGED template
      /\ Apply(c) \/ UNCHANGED objects
      /\ TypeOK /\ ReconcileTypeOK /\ ObjectsSound(d)
  BY ReconcilesMoves DEF LoopInv, ReconcileTypeOK
<1>2. CASE d # c
  <2>1. objects'[d] = objects[d]
    BY <1>1, <1>2, ApplyFrame
  <2>2. pc'[d] = pc[d] /\ desired'[d] = desired[d] /\ observed'[d] = observed[d]
    BY <1>1, <1>2, StepFrame DEF Moves
  <2> QED
    BY <1>1, <2>1, <2>2 DEF ObjectsSound, Running
<1>3. CASE d = c /\ Apply(c)
  <2>1. ~Running(c)' /\ pc'[c] # "done"
    BY <1>1, <1>3, ApplyFrame DEF Running
  <2>2. ASSUME NEW r \in Resources
        PROVE  Sound(objects'[c][r]) /\ (objects'[c][r].present => objects'[c][r].name # None)
    <3>1. CASE desired[c][r].present
      <4>1. Sound(desired[c][r])
        BY <1>1, <1>3 DEF ObjectsSound, Apply
      <4> QED
        BY <1>1, <1>3, <3>1, <4>1, AppliedObjects DEF ObjectsSound, Sound, Prefer
    <3>2. CASE ~desired[c][r].present
      BY <1>1, <1>3, <3>2, AppliedObjects DEF Sound, NoObject
    <3> QED
      BY <3>1, <3>2
  <2> QED
    BY <1>3, <2>1, <2>2 DEF ObjectsSound
<1>4. CASE d = c /\ UNCHANGED objects
  <2>1. pc'[c] = "done" => \A r \in Resources : Sound(desired'[c][r])
    BY <1>1, ResponseIsSound
  <2>2. Running(c)' => \A r \in Resources :
          /\ observed'[c][r].present = objects[c][r].present
          /\ observed'[c][r].spec = objects[c][r].spec
          /\ observed'[c][r].ext # None => objects[c][r].ext # None
          /\ Sound(observed'[c][r])
    <3> SUFFICES ASSUME Running(c)', NEW r \in Resources
                 PROVE  /\ observed'[c][r].present = objects[c][r].present
                        /\ observed'[c][r].spec = objects[c][r].spec
                        /\ observed'[c][r].ext # None => objects[c][r].ext # None
                        /\ Sound(observed'[c][r])
      OBVIOUS
    <3>1. CASE observed'[c] = RequestOf(c).observed
      BY <1>1, <1>4, <3>1 DEF RequestOf, ObjectsSound
    <3>2. CASE /\ Running(c)
               /\ observed'[c][r].present = observed[c][r].present
               /\ observed'[c][r].spec = observed[c][r].spec
               /\ observed'[c][r].ext = observed[c][r].ext
               /\ observed'[c][r].storedExt \in {None, observed[c][r].storedExt}
      BY <1>1, <1>4, <3>2 DEF ObjectsSound, Sound
    <3> QED
      BY <1>1, <3>1, <3>2, StillRunning DEF Moves
  <2> QED
    BY <1>1, <1>4, <2>1, <2>2 DEF ObjectsSound
<1> QED
  BY <1>1, <1>2, <1>3, <1>4

LEMMA NamedKeepsObjectsSound ==
  ASSUME LoopInv, NEW c \in Calls, NEW r \in Resources,
         ProviderCreates(c, r) \/ Rename(c, r), NEW d \in Calls
  PROVE  ObjectsSound(d)'
<1>1. PICK e : Named(c, r, e)
  BY NamedBy DEF LoopInv
<1>2. /\ \A s \in Resources :
           objects'[d][s] = IF d = c /\ s = r THEN [objects[c][r] EXCEPT !.ext = e]
                            ELSE objects[d][s]
      /\ objects[c][r] \in Object /\ e # None
  BY <1>1, NamedType, NamesAssumption DEF LoopInv, ReconcileTypeOK, Objects, Named
<1>3. ASSUME NEW s \in Resources
      PROVE  /\ objects'[d][s].present = objects[d][s].present
             /\ objects'[d][s].spec = objects[d][s].spec
             /\ objects'[d][s].name = objects[d][s].name
             /\ objects'[d][s].storedExt = objects[d][s].storedExt
             /\ objects'[d][s].ext = objects[d][s].ext \/ objects'[d][s].ext # None
  BY <1>2 DEF Object
<1>4. UNCHANGED vars
  BY DEF ProviderCreates, Rename
<1> QED
  BY <1>3, <1>4 DEF LoopInv, ObjectsSound, Sound, vars, local, Running

LEMMA DisasterEndsCalls ==
  ASSUME ReconcileTypeOK, Disaster, NEW c \in Calls
  PROVE  /\ pc'[c] = "idle" /\ ~Running(c)' /\ store' = store
         /\ \A r \in Resources : objects'[c][r] = NoObject
BY DEF Disaster, Running, NoObjects

LEMMA LoopInvStep ==
  ASSUME TemplatesArePlain, LoopInv, [ReconcileNext]_allvars
  PROVE  LoopInv'
<1>1. ReconcileTypeOK'
  BY ReconcileTypeStep DEF LoopInv
<1>2. CASE Disaster
  <2>1. FunctionInv'
    BY <1>2, DisasterEndsCalls
       DEF LoopInv, FunctionInv, AtOwnKey, NoOverlap, CacheCoherent, ReadyInv, Cached
  <2>2. ASSUME NEW d \in Calls PROVE ObjectsSound(d)'
    BY <1>2, DisasterEndsCalls DEF LoopInv, ObjectsSound, Sound, NoObject
  <2> QED
    BY <1>1, <2>1, <2>2 DEF LoopInv
<1>3. ASSUME NEW c \in Calls, Reconciles(c) \/ Drop(c) PROVE LoopInv'
  <2>1. FunctionInv'
    BY <1>3, ReconcilesMoves, MovesKeepFunctionInv
  <2>2. ASSUME NEW d \in Calls PROVE ObjectsSound(d)'
    BY <1>3, MovesKeepObjectsSound
  <2> QED
    BY <1>1, <2>1, <2>2 DEF LoopInv
<1>4. UNCHANGED vars => FunctionInv'
  BY DEF LoopInv, FunctionInv, AtOwnKey, NoOverlap, CacheCoherent, ReadyInv, Ready,
     Cached, vars, local, Running
<1>5. UNCHANGED <<vars, objects>> => \A d \in Calls : ObjectsSound(d)'
  BY DEF LoopInv, ObjectsSound, Sound, vars, local, Running
<1>6. ASSUME NEW c \in Calls, NEW r \in Resources, ProviderCreates(c, r) \/ Rename(c, r)
      PROVE  LoopInv'
  <2>1. UNCHANGED vars
    BY <1>6 DEF ProviderCreates, Rename
  <2>2. ASSUME NEW d \in Calls PROVE ObjectsSound(d)'
    BY <1>6, NamedKeepsObjectsSound
  <2> QED
    BY <1>1, <1>4, <2>1, <2>2 DEF LoopInv
<1>7. ASSUME NEW c \in Calls, NEW r \in Resources, Compose(c, r) PROVE LoopInv'
  BY <1>1, <1>4, <1>5, <1>7 DEF Compose, LoopInv
<1>8. ASSUME NEW c \in Calls, Annotate(c) PROVE LoopInv'
  BY <1>1, <1>4, <1>5, <1>8 DEF Annotate, LoopInv
<1>9. CASE UNCHANGED allvars
  BY <1>1, <1>4, <1>5, <1>9 DEF allvars, cluster, LoopInv
<1> QED
  BY <1>2, <1>3, <1>6, <1>7, <1>8, <1>9 DEF ReconcileNext

LEMMA LoopInvInit == ReconcileInit => LoopInv
<1> SUFFICES ASSUME ReconcileInit PROVE LoopInv
  OBVIOUS
<1>1. ReconcileTypeOK
  BY ReconcileInitType
<1>2. \A c \in Calls : pc[c] = "idle" /\ ~Running(c)
  BY DEF ReconcileInit, Init, Running
<1>3. FunctionInv
  BY <1>2 DEF FunctionInv, AtOwnKey, NoOverlap, CacheCoherent, ReadyInv, Cached
<1>4. \A c \in Calls : ObjectsSound(c)
  BY <1>2 DEF ReconcileInit, ObjectsSound, Sound, NoObjects, NoObject
<1> QED
  BY <1>1, <1>3, <1>4 DEF LoopInv

---------------------------------------------------------------------------
(* What a step of a call does to the store and the response.                *)

\* A call writes under the key of its composite only: nothing, an entry that
\* goes, or what it has loaded with the new data merged in.
LEMMA MovesStore ==
  ASSUME LoopInv, NEW c \in Calls, Moves(c)
  PROVE  /\ \A d \in Calls \ {c} : store'[KeyOf[d]] = store[KeyOf[d]]
         /\ \A r \in Resources :
              \/ store'[KeyOf[c]][r] = store[KeyOf[c]][r]
              \/ store'[KeyOf[c]][r] = NoData
              \/ /\ SaveAndRespond(c)
                 /\ store'[KeyOf[c]][r] = MergeData(loaded[c][r], NewResourceData(c)[r])
<1> DEFINE k == KeyOf[c]
<1>1. /\ TypeOK /\ k \in Keys /\ store[k] \in Composition
      /\ \A d \in Calls \ {c} : KeyOf[d] \in Keys /\ KeyOf[d] # k
  BY ReconcileAssumption DEF LoopInv, ReconcileTypeOK, TypeOK
<1>2. Running(c) => key[c] = k
  BY DEF LoopInv, FunctionInv, AtOwnKey
<1>3. CASE PurgeComposition(c, k, RequestOf(c))
  BY <1>1, <1>3 DEF PurgeComposition, After, Purge, EmptyComposition, TypeOK
<1>4. ASSUME NEW s \in Resources, DeleteOne(c, s)
      PROVE  store' = store \/ store' = [store EXCEPT ![k] = [store[k] EXCEPT ![s] = NoData]]
  BY <1>2, <1>4 DEF DeleteOne, After, DeleteResource, Running
<1>5. CASE \E s \in Resources : DeleteOne(c, s)
  <2>1. PICK s \in Resources : DeleteOne(c, s)
    BY <1>5
  <2>2. CASE store' = [store EXCEPT ![k] = [store[k] EXCEPT ![s] = NoData]]
    <3>1. /\ store'[k] = [store[k] EXCEPT ![s] = NoData]
          /\ \A d \in Calls \ {c} : store'[KeyOf[d]] = store[KeyOf[d]]
      BY <1>1, <2>2 DEF TypeOK
    <3> QED
      BY <1>1, <3>1 DEF Composition
  <2> QED
    BY <1>4, <2>1, <2>2
<1>6. CASE PurgeEmpty(c)
  <2>1. store' = store \/ store' = [store EXCEPT ![k] = EmptyComposition]
    BY <1>2, <1>6 DEF PurgeEmpty, After, Purge, Running
  <2> QED
    BY <1>1, <2>1 DEF TypeOK, EmptyComposition
<1>7. CASE SaveAndRespond(c)
  <2>1. store' = store \/ store' = [store EXCEPT ![k] = AllResourceData(c)]
    BY <1>2, <1>7 DEF SaveAndRespond, After, Save, PastDeletes, Running
  <2>2. \A r \in Resources :
          AllResourceData(c)[r] = MergeData(loaded[c][r], NewResourceData(c)[r])
    BY DEF AllResourceData
  <2> QED
    BY <1>1, <1>7, <2>1, <2>2 DEF TypeOK
<1>8. ~(\/ PurgeComposition(c, k, RequestOf(c)) \/ PurgeEmpty(c) \/ SaveAndRespond(c)
        \/ \E s \in Resources : DeleteOne(c, s)) => store' = store
  BY DEF Moves, StepOf, Continue, Skip, LoadFound, LoadFails, RestoreFails,
     RespondUnsaved, Abandon, Return
<1>9. CASE store' = store
  BY <1>9
<1> QED
  BY <1>3, <1>5, <1>6, <1>7, <1>8, <1>9

LEMMA SpecOfResponse ==
  ASSUME TypeOK, NEW c \in Calls, NEW r \in Resources, NEW stored \in Composition
  PROVE  Response(c, stored)[r].spec = desired[c][r].spec
<1> DEFINE d == desired[c][r]
           p == RestorePass(c)[r]
<1>1. d \in Object /\ observed[c][r] \in Object /\ p \in Object /\ stored[r] \in Data
  BY RestorePassType DEF TypeOK, Objects, Composition
<1>2. p = d \/ p = Restored(d, observed[c][r], loaded[c][r])
  BY DEF RestorePass
<1>3. \/ Response(c, stored)[r] = p
      \/ Response(c, stored)[r] = MergeObserved(Tracked(p, stored[r]), observed[c][r])
  BY DEF Response
<1> HIDE DEF d, p
<1>4. Restored(d, observed[c][r], loaded[c][r]).spec = d.spec
  BY <1>1 DEF Restored, Object
<1>5. Tracked(p, stored[r]).spec = p.spec /\ Tracked(p, stored[r]) \in Object
  BY <1>1, TrackedType DEF Tracked, Object
<1> DEFINE t == Tracked(p, stored[r])
<1>6. t \in Object /\ t.spec = p.spec
  BY <1>5
<1> HIDE DEF t
<1>7. MergeObserved(t, observed[c][r]).spec = t.spec
  BY <1>6 DEF MergeObserved, Object
<1>8. Response(c, stored)[r].spec = d.spec
  BY <1>2, <1>3, <1>4, <1>6, <1>7 DEF t
<1> QED
  BY <1>8 DEF d

\* Of a resource found without an external name, the cache is up to date and
\* nothing new is stored.
LEMMA FoundNameless ==
  ASSUME LoopInv, NEW c \in Calls, Running(c), NEW r \in Resources,
         observed[c][r].ext = None
  PROVE  loaded[c][r].ext = store[KeyOf[c]][r].ext /\ NewResourceData(c)[r].ext = None
<1>1. loaded[c][r] = store[KeyOf[c]][r]
  BY DEF LoopInv, FunctionInv, AtOwnKey, Cached, ReadyInv, Ready
<1>2. NewResourceData(c)[r].ext = None
  BY DEF NewResourceData, NewData, NoData
<1> QED
  BY <1>1, <1>2

---------------------------------------------------------------------------
(* No second cloud resource: an object that is in scope and has no external *)
(* name yet, or is about to be applied without one, has none in the store.  *)

Nameless(c, o) == o.present /\ o.ext = None /\ ShouldProcess(o, drive[c].scope)

NothingToRestore(c) ==
  /\ Running(c) => mode[c].scope = drive[c].scope
  /\ \A r \in Resources :
       Nameless(c, objects[c][r]) => store[KeyOf[c]][r].ext = None
  /\ pc[c] = "done" => \A r \in Resources :
       Nameless(c, desired[c][r]) => store[KeyOf[c]][r].ext = None

NameInv == LoopInv /\ \A c \in Calls : NothingToRestore(c)

\* The names a provider waits for stay out of the store.
LEMMA MovesKeepNamelessOut ==
  ASSUME NameInv, NEW c \in Calls, Moves(c), NEW r \in Resources,
         Nameless(c, objects[c][r])
  PROVE  store'[KeyOf[c]][r].ext = None
<1>1. LoopInv /\ store[KeyOf[c]][r].ext = None
  BY DEF NameInv, NothingToRestore
<1>2. CASE SaveAndRespond(c)
  <2>1. Running(c)
    BY <1>2 DEF SaveAndRespond, PastDeletes, Running
  <2>2. observed[c][r].ext = None
    BY <1>1, <2>1 DEF LoopInv, ObjectsSound, Nameless
  <2>3. loaded[c][r].ext = None /\ NewResourceData(c)[r].ext = None
    BY <1>1, <2>1, <2>2, FoundNameless
  <2>4. MergeData(loaded[c][r], NewResourceData(c)[r]).ext = None
    BY <2>3 DEF MergeData, Prefer
  <2>5. NoData.ext = None
    BY DEF NoData
  <2> QED
    BY <1>1, <2>4, <2>5, MovesStore
<1>3. CASE ~SaveAndRespond(c)
  BY <1>1, <1>3, MovesStore DEF NoData
<1> QED
  BY <1>2, <1>3

\* A response without an external name, for a resource in scope, has looked
\* for it in the store.
LEMMA AnswerHasLooked ==
  ASSUME NameInv, NEW c \in Calls, Moves(c), Answers(c), NEW r \in Resources,
         Nameless(c, desired'[c][r])
  PROVE  store'[KeyOf[c]][r].ext = None
<1> DEFINE d == desired[c][r]
           o == observed[c][r]
           p == RestorePass(c)[r]
           q == desired'[c][r]
<1>1. /\ LoopInv /\ TypeOK /\ Running(c) /\ mode[c].scope = drive[c].scope
      /\ key[c] = KeyOf[c]
  BY DEF NameInv, NothingToRestore, LoopInv, ReconcileTypeOK, Answers, FunctionInv, AtOwnKey
<1>2. desired'[c] = Response(c, StoredBy(c)) /\ StoredBy(c) \in Composition
  BY <1>1, AnswerStep DEF Moves
<1>3. /\ q.present = d.present /\ q.spec = d.spec
      /\ d.present => q.ext = Prefer(o.ext, p.ext)
  BY <1>1, <1>2, ResponseFields, SpecOfResponse
<1>4. d.present /\ ShouldProcess(d, mode[c].scope) /\ o.ext = None /\ p.ext = None
  BY <1>1, <1>3 DEF Nameless, ShouldProcess, Prefer
<1>5. p = Restored(d, o, loaded[c][r])
  BY <1>4 DEF RestorePass
<1>6. loaded[c][r].ext = None
  <2>1. d \in Object
    BY <1>1 DEF TypeOK, Objects
  <2> HIDE DEF d, o, p
  <2>2. p.ext = Prefer(IF Prefer(d.ext, o.ext) = None THEN loaded[c][r].ext ELSE None, d.ext)
    BY <1>5, <2>1 DEF Restored, Object
  <2> QED
    BY <1>4, <2>2 DEF Prefer
<1>7. store[KeyOf[c]][r].ext = None /\ NewResourceData(c)[r].ext = None
  BY <1>1, <1>4, <1>6, FoundNameless
<1>8. StoredBy(c)[r].ext = None
  BY <1>7 DEF StoredBy, EmptyComposition, NoData
<1>9. store'[key[c]][r].ext \in
        {Prefer(StoredBy(c)[r].ext, loaded[c][r].ext), store[key[c]][r].ext}
  BY <1>1, StoredByAnswer DEF Moves
<1> QED
  BY <1>1, <1>6, <1>7, <1>8, <1>9 DEF Prefer

LEMMA ResponseHasLooked ==
  ASSUME AlwaysOn, NameInv, NEW c \in Calls, Moves(c), pc'[c] = "done",
         NEW r \in Resources, Nameless(c, desired'[c][r])
  PROVE  store'[KeyOf[c]][r].ext = None
<1>1. ReconcileTypeOK /\ drive[c] \in Drives /\ drive[c].enabled
  BY DEF NameInv, LoopInv, ReconcileTypeOK, AlwaysOn
<1>2. CASE Answers(c)
  BY <1>2, AnswerHasLooked
<1>3. CASE store' = [store EXCEPT ![KeyOf[c]] = EmptyComposition]
  <2>1. store'[KeyOf[c]] = EmptyComposition
    BY <1>1, <1>3, ReconcileAssumption DEF ReconcileTypeOK, TypeOK
  <2> QED
    BY <2>1 DEF EmptyComposition, NoData
<1> QED
  BY <1>1, <1>2, <1>3, Responds

\* Nothing but a step of a call changes the store, the calls and the scopes.
LEMMA AloneKeepsNothingToRestore ==
  ASSUME NameInv, NEW d \in Calls,
         pc'[d] = pc[d], mode'[d] = mode[d], desired'[d] = desired[d],
         store'[KeyOf[d]] = store[KeyOf[d]], drive'[d].scope = drive[d].scope,
         \A r \in Resources : Nameless(d, objects[d][r])' => Nameless(d, objects[d][r])
  PROVE  NothingToRestore(d)'
BY DEF NameInv, NothingToRestore, Nameless, Running

LEMMA MovesKeepNothingToRestore ==
  ASSUME AlwaysOn, NameInv, NEW c \in Calls, Reconciles(c) \/ Drop(c)
  PROVE  NothingToRestore(c)'
<1>1. /\ Moves(c) /\ drive'[c] = drive[c] /\ LoopInv /\ ReconcileTypeOK /\ TypeOK
      /\ Apply(c) \/ UNCHANGED objects
  BY ReconcilesMoves DEF NameInv, LoopInv, ReconcileTypeOK
<1>2. Running(c)' => mode'[c].scope = drive'[c].scope
  <2>1. RequestOf(c).scope = drive[c].scope
    BY DEF RequestOf
  <2>2. Running(c) => mode[c].scope = drive[c].scope
    BY DEF NameInv, NothingToRestore
  <2>3. ASSUME Running(c)'
        PROVE  \/ mode'[c] = [restoreOnly |-> RequestOf(c).restoreOnly,
                              scope |-> RequestOf(c).scope]
               \/ Running(c) /\ mode'[c] = mode[c]
    BY <1>1, <2>3, StillRunning DEF Moves
  <2> QED
    BY <1>1, <2>1, <2>2, <2>3
<1>3. ASSUME pc'[c] = "done", NEW r \in Resources, Nameless(c, desired'[c][r])
      PROVE  store'[KeyOf[c]][r].ext = None
  BY <1>1, <1>3, ResponseHasLooked
<1>4. ASSUME NEW r \in Resources, Nameless(c, objects'[c][r])
      PROVE  store'[KeyOf[c]][r].ext = None
  <2>1. CASE Apply(c)
    <3>1. /\ desired[c][r].present
          /\ objects'[c][r].spec = desired[c][r].spec
          /\ Prefer(desired[c][r].ext, objects[c][r].ext) = None
          /\ pc[c] = "done" /\ store' = store
      BY <1>1, <1>4, <2>1, AppliedObjects, ApplyFrame DEF Nameless
    <3>2. Nameless(c, desired[c][r])
      BY <1>4, <3>1 DEF Nameless, ShouldProcess, Prefer
    <3> QED
      BY <3>1, <3>2 DEF NameInv, NothingToRestore
  <2>2. CASE UNCHANGED objects
    BY <1>1, <1>4, <2>2, MovesKeepNamelessOut
  <2> QED
    BY <1>1, <2>1, <2>2
<1>5. ASSUME NEW o PROVE Nameless(c, o)' => Nameless(c, o)
  BY <1>1 DEF Nameless
<1> QED
  BY <1>1, <1>2, <1>3, <1>4 DEF NothingToRestore, Nameless

LEMMA NameInvStep ==
  ASSUME TemplatesArePlain, AlwaysOn, NameInv, [ReconcileNext]_allvars
  PROVE  NameInv'
<1>1. LoopInv'
  BY LoopInvStep DEF NameInv
<1>2. ReconcileTypeOK /\ TypeOK
  BY DEF NameInv, LoopInv, ReconcileTypeOK
<1> SUFFICES ASSUME NEW d \in Calls PROVE NothingToRestore(d)'
  BY <1>1 DEF NameInv
<1>3. CASE Disaster
  <2>1. pc'[d] = "idle" /\ ~Running(d)' /\ \A r \in Resources : ~objects'[d][r].present
    BY <1>2, <1>3, DisasterEndsCalls DEF NoObject
  <2> QED
    BY <2>1 DEF NothingToRestore, Nameless
<1>4. ASSUME NEW c \in Calls, Reconciles(c) \/ Drop(c) PROVE NothingToRestore(d)'
  <2>1. CASE d = c
    BY <1>4, <2>1, MovesKeepNothingToRestore
  <2>2. CASE d # c
    <3>1. Moves(c) /\ drive' = drive /\ (Apply(c) \/ UNCHANGED objects)
      BY <1>4, ReconcilesMoves
    <3>2. pc'[d] = pc[d] /\ mode'[d] = mode[d] /\ desired'[d] = desired[d]
      BY <1>2, <2>2, <3>1, StepFrame DEF Moves
    <3>3. objects'[d] = objects[d]
      BY <1>2, <2>2, <3>1, ApplyFrame
    <3>4. store'[KeyOf[d]] = store[KeyOf[d]]
      BY <2>2, <3>1, MovesStore DEF NameInv
    <3>5. \A r \in Resources : Nameless(d, objects[d][r])' => Nameless(d, objects[d][r])
      BY <3>1, <3>3 DEF Nameless
    <3> QED
      BY <3>1, <3>2, <3>4, <3>5, AloneKeepsNothingToRestore
  <2> QED
    BY <2>1, <2>2
<1>5. ASSUME UNCHANGED vars, drive'[d].scope = drive[d].scope,
             \A r \in Resources : Nameless(d, objects[d][r])' => Nameless(d, objects[d][r])
      PROVE  NothingToRestore(d)'
  BY <1>5, AloneKeepsNothingToRestore DEF vars, local
<1>6. ASSUME NEW c \in Calls, NEW r \in Resources, ProviderCreates(c, r) \/ Rename(c, r)
      PROVE  NothingToRestore(d)'
  <2>1. UNCHANGED <<vars, drive>>
    BY <1>6 DEF ProviderCreates, Rename
  <2>2. PICK e : Named(c, r, e)
    BY <1>2, <1>6, NamedBy
  <2>3. ASSUME NEW s \in Resources PROVE Nameless(d, objects[d][s])' => Nameless(d, objects[d][s])
    <3>1. CASE d = c /\ s = r
      <4>1. objects'[d][s] = [objects[c][r] EXCEPT !.ext = e] /\ objects[c][r] \in Object
        BY <1>2, <2>2, <3>1, NamedType DEF ReconcileTypeOK, Objects
      <4>2. objects'[d][s].ext # None
        BY <2>2, <4>1, NamesAssumption DEF Named, Object
      <4> QED
        BY <4>2 DEF Nameless
    <3>2. CASE ~(d = c /\ s = r)
      <4>1. objects'[d][s] = IF d = c /\ s = r THEN [objects[c][r] EXCEPT !.ext = e]
                             ELSE objects[d][s]
        BY <1>2, <2>2, NamedType
      <4>2. objects'[d][s] = objects[d][s]
        BY <3>2, <4>1
      <4> QED
        BY <2>1, <4>2 DEF Nameless
    <3> QED
      BY <3>1, <3>2
  <2> QED
    BY <1>5, <2>1, <2>3
<1>7. ASSUME NEW c \in Calls, NEW r \in Resources, Compose(c, r) PROVE NothingToRestore(d)'
  BY <1>5, <1>7 DEF Compose, Nameless
<1>8. ASSUME NEW c \in Calls, Annotate(c) PROVE NothingToRestore(d)'
  <2>1. drive'[d] \in Drives /\ drive[d] \in Drives
    BY <1>1, <1>2 DEF LoopInv, ReconcileTypeOK
  <2>2. drive'[d].scope = drive[d].scope
    BY <2>1 DEF AlwaysOn
  <2> QED
    BY <1>5, <1>8, <2>2 DEF Annotate, Nameless
<1>9. CASE UNCHANGED allvars
  BY <1>5, <1>9 DEF allvars, cluster, Nameless
<1> QED
  BY <1>3, <1>4, <1>6, <1>7, <1>8, <1>9 DEF ReconcileNext

LEMMA NameInvInit == ReconcileInit => NameInv
<1> SUFFICES ASSUME ReconcileInit PROVE NameInv
  OBVIOUS
<1>1. \A c \in Calls : pc[c] = "idle" /\ \A r \in Resources : ~objects[c][r].present
  BY DEF ReconcileInit, Init, NoObjects, NoObject
<1>2. ASSUME NEW c \in Calls PROVE NothingToRestore(c)
  BY <1>1 DEF NothingToRestore, Nameless, Running
<1> QED
  BY <1>2, LoopInvInit DEF NameInv

\* A provider makes a new cloud resource for an object in scope only if the
\* store has no name for it: whatever fails, is lost, renamed, recomposed or
\* purged, and after any number of disasters (README.md:34-37).
THEOREM NothingIsDuplicated ==
  ASSUME TemplatesArePlain, AlwaysOn PROVE ReconcileSpec => NoDuplicate
<1>1. NameInv /\ [ReconcileNext]_allvars => NameInv'
  BY NameInvStep
<1>2. NameInv /\ [ReconcileNext]_allvars =>
        [\A c \in Calls, r \in Resources :
           (/\ objects[c][r].present /\ objects[c][r].ext = None
            /\ objects'[c][r].ext # None
            /\ ShouldProcess(objects[c][r], drive[c].scope)) =>
             store[KeyOf[c]][r].ext = None]_allvars
  BY DEF NameInv, NothingToRestore, Nameless
<1> QED
  BY <1>1, <1>2, NameInvInit, PTL DEF ReconcileSpec, NoDuplicate

---------------------------------------------------------------------------
(* Tracking annotations: whatever is to become, or is, the objects of a     *)
(* composite says only of stored names that they are stored, and a running  *)
(* call sees the store as it is, unless its own call loses something.       *)

\* Where a step counts no fault, the store call in it went well.
LEMMA AllEndsWell ==
  ASSUME TypeOK, NEW outcome \in Outcomes, Ends(outcome), faults' \in {0, faults}
  PROVE  outcome = "ok"
BY RunFunctionAssumption DEF TypeOK, Ends

LEMMA BeginsTrue ==
  ASSUME TemplatesArePlain, LoopInv, NEW c \in Calls, Begin(c), TrackingTrue(c),
         faults' = faults, pc'[c] # "fatal"
  PROVE  TrackingTrue(c)'
<1> DEFINE k == KeyOf[c]
           rq == RequestOf(c)
<1>1. /\ ReconcileTypeOK /\ TypeOK /\ k \in Keys
      /\ rq.desired = template[c] /\ rq.observed = objects[c]
  BY TemplateType DEF LoopInv, ReconcileTypeOK, RequestOf
<1>2. \A r \in Resources :
        template[c][r].storedExt = None /\ template[c][r].storedName = None
  BY <1>1, PlainTemplate
<1> HIDE DEF k, rq
<1>3. ASSUME pc' = [pc EXCEPT ![c] = "done"], desired'[c] = template[c]
      PROVE  TrackingTrue(c)'
  <2>1. pc'[c] = "done" /\ ~Running(c)'
    BY <1>1, <1>3 DEF TypeOK, Running
  <2> QED
    BY <1>2, <1>3, <2>1 DEF TrackingTrue, Tracking
<1>4. CASE Skip(c, rq)
  BY <1>1, <1>3, <1>4 DEF Skip, Bypassed, Respond, Leave, TypeOK
<1>5. CASE PurgeComposition(c, k, rq)
  <2>1. Respond(c, Bypassed(rq))
    BY <1>1, <1>5, AllEndsWell DEF PurgeComposition
  <2> QED
    BY <1>1, <1>3, <2>1 DEF Bypassed, Respond, Leave, TypeOK
<1>6. CASE Load(c, k, rq)
  <2>1. ~Fail(c)
    BY <1>1 DEF Fail, Leave, TypeOK
  <2>2. /\ pc'[c] = "deleting" /\ observed'[c] = objects[c]
        /\ loaded'[c] = store[k] /\ store' = store
    BY <1>1, <1>6, <2>1 DEF Load, LoadFound, TypeOK
  <2>3. pc[c] = "idle"
    BY <1>6 DEF Load, LoadFound, Admissible
  <2> QED
    BY <2>2, <2>3 DEF TrackingTrue, Tracking, Running, k
<1>7. ~LoadFails(c, k, rq)
  BY <1>1, RunFunctionAssumption DEF LoadFails, TypeOK
<1> QED
  BY <1>4, <1>5, <1>6, <1>7 DEF Begin, k, rq

LEMMA DeletesTrue ==
  ASSUME LoopInv, NEW c \in Calls, NEW s \in Resources, DeleteOne(c, s),
         faults' = faults, TrackingTrue(c)
  PROVE  TrackingTrue(c)'
<1> DEFINE k == KeyOf[c]
<1>1. TypeOK /\ k \in Keys /\ Running(c) /\ key[c] = k
  BY TemplateType DEF LoopInv, ReconcileTypeOK, DeleteOne, Running, FunctionInv, AtOwnKey
<1>2. /\ store' = DeleteResource(store, k, s)
      /\ loaded' = [loaded EXCEPT ![c][s] = NoData]
      /\ observed' = [observed EXCEPT ![c][s] = Untracked(@)]
      /\ pc' = pc
  BY <1>1, AllEndsWell DEF DeleteOne, Dropped, After
<1>3. store'[k] = [store[k] EXCEPT ![s] = NoData] /\ loaded'[c] = [loaded[c] EXCEPT ![s] = NoData]
  BY <1>1, <1>2 DEF DeleteResource, TypeOK
<1>4. loaded'[c] = store'[k] /\ Running(c)'
  BY <1>1, <1>2, <1>3 DEF TrackingTrue, Running
<1>5. ASSUME NEW r \in Resources
      PROVE  /\ observed'[c][r].storedExt # None => store'[k][r].ext # None
             /\ observed'[c][r].storedName # None => store'[k][r].name # None
  <2>1. observed[c][s] \in Object /\ observed[c] \in [Resources -> Object]
    BY <1>1 DEF TypeOK, Objects
  <2>2. observed'[c][r] = IF r = s THEN Untracked(observed[c][s]) ELSE observed[c][r]
    BY <1>1, <1>2, <2>1 DEF TypeOK
  <2>3. Untracked(observed[c][s]).storedExt = None /\ Untracked(observed[c][s]).storedName = None
    BY <2>1 DEF Untracked, Object
  <2>4. CASE r = s
    BY <2>2, <2>3, <2>4
  <2>5. CASE r # s
    <3>1. observed'[c][r] = observed[c][r]
      BY <2>2, <2>5
    <3>2. store'[k][r] = store[k][r]
      BY <1>1, <1>3, <2>5 DEF TypeOK, Composition
    <3> QED
      BY <1>1, <3>1, <3>2 DEF TrackingTrue, Tracking
  <2> QED
    BY <2>4, <2>5
<1> QED
  BY <1>4, <1>5 DEF TrackingTrue, Tracking

LEMMA PurgesTrue ==
  ASSUME LoopInv, NEW c \in Calls, PurgeEmpty(c), TrackingTrue(c)
  PROVE  TrackingTrue(c)'
<1>1. TypeOK /\ KeyOf[c] \in Keys /\ Running(c) /\ key[c] = KeyOf[c]
  BY TemplateType DEF LoopInv, ReconcileTypeOK, PurgeEmpty, Running, FunctionInv, AtOwnKey
<1>2. store[KeyOf[c]] = EmptyComposition /\ loaded[c] = EmptyComposition
  BY <1>1 DEF PurgeEmpty, IsEmpty, TrackingTrue
<1>3. store'[KeyOf[c]] = store[KeyOf[c]] /\ pc'[c] = "purged" /\ UNCHANGED local
  BY <1>1, <1>2 DEF TypeOK, PurgeEmpty, After, Purge
<1> QED
  BY <1>1, <1>3 DEF TrackingTrue, Tracking, Running, local

LEMMA AnswersTrue ==
  ASSUME LoopInv, NEW c \in Calls, Moves(c), Answers(c), TrackingTrue(c)
  PROVE  TrackingTrue(c)'
<1>1. TypeOK /\ Running(c) /\ key[c] = KeyOf[c] /\ loaded[c] = store[KeyOf[c]]
  BY DEF LoopInv, ReconcileTypeOK, FunctionInv, AtOwnKey, Answers, TrackingTrue
<1>2. desired'[c] = Response(c, StoredBy(c)) /\ StoredBy(c) \in Composition
  BY <1>1, AnswerStep DEF Moves
<1>3. ASSUME NEW r \in Resources
      PROVE  /\ desired'[c][r].storedExt # None => store'[KeyOf[c]][r].ext # None
             /\ desired'[c][r].storedName # None => store'[KeyOf[c]][r].name # None
  <2> DEFINE d == desired[c][r]
             o == observed[c][r]
             p == RestorePass(c)[r]
             q == desired'[c][r]
             new == StoredBy(c)[r]
             had == loaded[c][r]
             has == store'[KeyOf[c]][r]
  <2>1. d.storedExt = None /\ d.storedName = None
    BY <1>1 DEF LoopInv, FunctionInv, ReadyInv, Ready
  <2>2. /\ ~d.present => q = d
        /\ d.present =>
             /\ q.storedExt = Prefer(o.storedExt, Prefer(new.ext, p.storedExt))
             /\ q.storedName = Prefer(o.storedName, Prefer(new.name, p.storedName))
    BY <1>1, <1>2, ResponseFields
  <2>3. d.present => p.storedExt \in {None, had.ext} /\ p.storedName \in {None, had.name}
    BY <1>1, <2>1, RestoredFields
  <2>4. /\ o.storedExt # None => had.ext # None
        /\ o.storedName # None => had.name # None
    BY <1>1 DEF TrackingTrue, Tracking
  <2>5. has.ext = Prefer(new.ext, had.ext) /\ has.name = Prefer(new.name, had.name)
    <3>1. CASE SavesNothing(c)
      <4>1. store' = store
        BY <1>1, <3>1, AnswerStep DEF Moves
      <4>2. new.ext = None /\ new.name = None
        BY <3>1 DEF StoredBy, EmptyComposition, NoData
      <4> QED
        BY <1>1, <4>1, <4>2 DEF Prefer
    <3>2. CASE ~SavesNothing(c)
      <4>1. store'[KeyOf[c]] = AllResourceData(c)
        BY <1>1, <3>2, AnswerStep DEF Moves
      <4>2. AllResourceData(c)[r] = MergeData(loaded[c][r], StoredBy(c)[r])
        BY <3>2 DEF AllResourceData, StoredBy
      <4>3. /\ MergeData(had, new).ext = Prefer(new.ext, had.ext)
            /\ MergeData(had, new).name = Prefer(new.name, had.name)
        BY DEF MergeData
      <4> QED
        BY <4>1, <4>2, <4>3
    <3> QED
      BY <3>1, <3>2
  <2> HIDE DEF d, o, p, q, new, had, has
  <2>6. /\ q.storedExt # None => has.ext # None
        /\ q.storedName # None => has.name # None
    BY <2>1, <2>2, <2>3, <2>4, <2>5 DEF Prefer
  <2> QED
    BY <2>6 DEF q, has
<1>4. pc'[c] = "done" /\ ~Running(c)'
  BY DEF Answers, Running
<1> QED
  BY <1>3, <1>4 DEF TrackingTrue, Tracking

LEMMA WorkTrue ==
  ASSUME LoopInv, NEW c \in Calls, Work(c), TrackingTrue(c),
         faults' = faults, pc'[c] # "fatal"
  PROVE  TrackingTrue(c)'
<1>1. TypeOK /\ Moves(c) /\ Continue(c)
  BY DEF LoopInv, ReconcileTypeOK, Moves, StepOf, Work
<1>2. ~RestoreFails(c)
  BY <1>1 DEF RestoreFails, Fail, Leave, TypeOK
<1>3. CASE RespondUnsaved(c) \/ SaveAndRespond(c)
  <2>1. Running(c)
    BY <1>3 DEF RespondUnsaved, SaveAndRespond, PastDeletes, Running
  <2>2. pc'[c] = "done"
    BY <1>1, <1>3, AllEndsWell
       DEF RespondUnsaved, SaveAndRespond, AnswerSaved, Respond, Leave, TypeOK
  <2> QED
    BY <1>1, <2>1, <2>2, AnswersTrue DEF Answers
<1> QED
  BY <1>1, <1>2, <1>3, DeletesTrue, PurgesTrue DEF Continue

LEMMA ApplyTrue ==
  ASSUME ReconcileTypeOK, NEW c \in Calls, Apply(c), TrackingTrue(c)
  PROVE  TrackingTrue(c)'
<1>1. /\ pc[c] = "done" /\ pc'[c] = "idle" /\ store' = store
      /\ ~Running(c) /\ ~Running(c)'
  BY ApplyFrame DEF Running
<1>2. ASSUME NEW r \in Resources
      PROVE  /\ objects'[c][r].storedExt # None => desired[c][r].storedExt # None
             /\ objects'[c][r].storedName # None => desired[c][r].storedName # None
  <2>1. NoObject.storedExt = None /\ NoObject.storedName = None
    BY DEF NoObject
  <2> QED
    BY <2>1, AppliedObjects
<1> QED
  BY <1>1, <1>2 DEF TrackingTrue, Tracking

LEMMA GiveUpTrue ==
  ASSUME ReconcileTypeOK, NEW c \in Calls, GiveUp(c), TrackingTrue(c)
  PROVE  TrackingTrue(c)'
<1>1. pc[c] = "fatal" /\ pc'[c] = "idle" /\ UNCHANGED <<store, objects>>
  BY DEF GiveUp, Return, cluster, ReconcileTypeOK, TypeOK
<1> QED
  BY <1>1 DEF TrackingTrue, Tracking, Running

\* What touches neither the call, its annotations nor its composition.
LEMMA AloneStaysTrue ==
  ASSUME NEW d \in Calls, TrackingTrue(d),
         pc'[d] = pc[d], loaded'[d] = loaded[d],
         observed'[d] = observed[d], desired'[d] = desired[d],
         store'[KeyOf[d]] = store[KeyOf[d]],
         \A r \in Resources :
           /\ objects'[d][r].storedExt = objects[d][r].storedExt
           /\ objects'[d][r].storedName = objects[d][r].storedName
  PROVE  TrackingTrue(d)'
BY DEF TrackingTrue, Tracking, Running

LEMMA TrackingStep ==
  ASSUME TemplatesArePlain, LoopInv, [ReconcileNext]_allvars, NEW d \in Calls,
         TrackingTrue(d), ~Drop(d), ~Errs(d)
  PROVE  TrackingTrue(d)'
<1>1. ReconcileTypeOK /\ TypeOK
  BY DEF LoopInv, ReconcileTypeOK
<1>2. CASE Disaster
  <2>1. /\ pc'[d] = "idle" /\ ~Running(d)'
        /\ \A r \in Resources :
             objects'[d][r].storedExt = None /\ objects'[d][r].storedName = None
    BY <1>1, <1>2, DisasterEndsCalls DEF NoObject
  <2> QED
    BY <2>1 DEF TrackingTrue, Tracking
<1>3. CASE Reconciles(d)
  <2>1. faults' = faults /\ pc'[d] # "fatal"
    BY <1>3 DEF Errs
  <2> QED
    BY <1>1, <1>3, <2>1, BeginsTrue, WorkTrue, ApplyTrue, GiveUpTrue DEF Reconciles
<1>4. ASSUME NEW c \in Calls, c # d, Reconciles(c) \/ Drop(c) PROVE TrackingTrue(d)'
  <2>1. Moves(c)
    BY <1>4, ReconcilesMoves
  <2>2. /\ pc'[d] = pc[d] /\ loaded'[d] = loaded[d]
        /\ observed'[d] = observed[d] /\ desired'[d] = desired[d]
    BY <1>1, <1>4, <2>1, StepFrame DEF Moves
  <2>3. store'[KeyOf[d]] = store[KeyOf[d]]
    BY <1>4, <2>1, MovesStore
  <2>4. objects'[d] = objects[d]
    BY <1>1, <1>4, ReconcilesMoves, ApplyFrame
  <2> QED
    BY <2>2, <2>3, <2>4, AloneStaysTrue
<1>5. ASSUME UNCHANGED vars,
             \A r \in Resources :
               /\ objects'[d][r].storedExt = objects[d][r].storedExt
               /\ objects'[d][r].storedName = objects[d][r].storedName
      PROVE  TrackingTrue(d)'
  BY <1>5, AloneStaysTrue DEF vars, local
<1>6. ASSUME NEW c \in Calls, NEW r \in Resources, ProviderCreates(c, r) \/ Rename(c, r)
      PROVE  TrackingTrue(d)'
  <2>1. PICK e : Named(c, r, e)
    BY <1>1, <1>6, NamedBy
  <2>2. ASSUME NEW s \in Resources
        PROVE  /\ objects'[d][s].storedExt = objects[d][s].storedExt
               /\ objects'[d][s].storedName = objects[d][s].storedName
    <3>1. objects'[d][s] = IF d = c /\ s = r THEN [objects[c][r] EXCEPT !.ext = e]
                           ELSE objects[d][s]
      BY <1>1, <2>1, NamedType
    <3>2. objects[c][r] \in Object
      BY <1>1 DEF ReconcileTypeOK, Objects
    <3> QED
      BY <3>1, <3>2 DEF Object
  <2>3. UNCHANGED vars
    BY <1>6 DEF ProviderCreates, Rename
  <2> QED
    BY <1>5, <2>2, <2>3
<1>7. ASSUME NEW c \in Calls, NEW r \in Resources, Compose(c, r) PROVE TrackingTrue(d)'
  BY <1>5, <1>7 DEF Compose
<1>8. ASSUME NEW c \in Calls, Annotate(c) PROVE TrackingTrue(d)'
  BY <1>5, <1>8 DEF Annotate
<1>9. CASE UNCHANGED allvars
  BY <1>5, <1>9 DEF allvars, cluster
<1> QED
  BY <1>2, <1>3, <1>4, <1>6, <1>7, <1>8, <1>9 DEF ReconcileNext

\* An annotation that truly says a name is stored becomes untrue only by an
\* error of the composite's own call, or by the loss of that call or of its
\* response, restore-only or not (fn.go:912-1004, 1277-1304).
THEOREM TrackingIsKeptTrue ==
  ASSUME TemplatesArePlain PROVE ReconcileSpec => TrackingLostOnlyByLoss
<1>1. LoopInv /\ [ReconcileNext]_allvars => LoopInv'
  BY LoopInvStep
<1>2. LoopInv /\ [ReconcileNext]_allvars =>
        [\A c \in Calls : TrackingTrue(c) /\ ~Drop(c) /\ ~Errs(c) =>
           TrackingTrue(c)']_allvars
  BY TrackingStep
<1> QED
  BY <1>1, <1>2, LoopInvInit, PTL DEF ReconcileSpec, TrackingLostOnlyByLoss

---------------------------------------------------------------------------
(* While nothing is lost and nobody asks for restoration only, no call ends *)
(* fatally, so that the annotations stay true throughout.                   *)

Lossless == faults = 0 /\ spent.drops = 0

BacksUpItsCall(c) == Running(c) => ~mode[c].restoreOnly

TrackedInv ==
  /\ LoopInv
  /\ \A c \in Calls : BacksUpItsCall(c)
  /\ Lossless => \A c \in Calls : TrackingTrue(c)

\* Faults stay counted.
LEMMA FaultsStay ==
  ASSUME TypeOK, NEW c \in Calls, Moves(c), faults' = 0
  PROVE  faults = 0
<1>1. faults \in Nat
  BY RunFunctionAssumption DEF TypeOK
<1>2. ASSUME NEW outcome \in Outcomes, Ends(outcome) PROVE faults = 0
  BY <1>1, <1>2 DEF Ends
<1>3. \/ UNCHANGED faults \/ faults' = faults + 1
      \/ \E outcome \in Outcomes : Ends(outcome)
  BY DEF Moves, StepOf, Skip, PurgeComposition, LoadFound, LoadFails, Continue, DeleteOne,
     PurgeEmpty, RestoreFails, RespondUnsaved, SaveAndRespond, Abandon, Return
<1> QED
  BY <1>1, <1>2, <1>3

LEMMA StaysBackup ==
  ASSUME NeverRestoreOnly, LoopInv, [ReconcileNext]_allvars, NEW d \in Calls,
         BacksUpItsCall(d)
  PROVE  BacksUpItsCall(d)'
<1>1. ReconcileTypeOK /\ TypeOK /\ drive[d] \in Drives
  BY DEF LoopInv, ReconcileTypeOK
<1>2. CASE Disaster
  BY <1>1, <1>2, DisasterEndsCalls DEF BacksUpItsCall
<1>3. ASSUME NEW c \in Calls, Reconciles(c) \/ Drop(c) PROVE BacksUpItsCall(d)'
  <2>1. Moves(c)
    BY <1>3, ReconcilesMoves
  <2>2. CASE c # d
    <3>1. pc'[d] = pc[d] /\ mode'[d] = mode[d]
      BY <1>1, <2>1, <2>2, StepFrame DEF Moves
    <3> QED
      BY <3>1 DEF BacksUpItsCall, Running
  <2>3. CASE c = d
    <3> SUFFICES ASSUME Running(d)' PROVE ~mode'[d].restoreOnly
      BY DEF BacksUpItsCall
    <3>1. \/ mode'[d] = [restoreOnly |-> RequestOf(d).restoreOnly,
                         scope |-> RequestOf(d).scope]
          \/ Running(d) /\ mode'[d] = mode[d]
      BY <1>1, <2>1, <2>3, StillRunning DEF Moves
    <3>2. ~RequestOf(d).restoreOnly
      BY <1>1 DEF RequestOf, NeverRestoreOnly
    <3> QED
      BY <3>1, <3>2 DEF BacksUpItsCall
  <2> QED
    BY <2>2, <2>3
<1>4. UNCHANGED vars => BacksUpItsCall(d)'
  BY DEF BacksUpItsCall, Running, vars, local
<1> QED
  BY <1>2, <1>3, <1>4
     DEF ReconcileNext, ProviderCreates, Rename, Compose, Annotate, allvars

\* A call that loses nothing does not end fatally.
LEMMA NothingFatal ==
  ASSUME NeverRestoreOnly, LoopInv, NEW c \in Calls, Reconciles(c), BacksUpItsCall(c),
         faults' = faults
  PROVE  pc'[c] # "fatal"
<1>1. ReconcileTypeOK /\ TypeOK /\ drive[c] \in Drives
  BY DEF LoopInv, ReconcileTypeOK
<1>2. ~RequestOf(c).restoreOnly
  BY <1>1 DEF RequestOf, NeverRestoreOnly
<1>3. CASE Begin(c)
  <2>1. ~LoadFails(c, KeyOf[c], RequestOf(c))
    BY <1>1, RunFunctionAssumption DEF LoadFails, TypeOK
  <2>2. CASE PurgeComposition(c, KeyOf[c], RequestOf(c))
    BY <1>1, <2>2, AllEndsWell DEF PurgeComposition, Respond, Leave, TypeOK
  <2>3. CASE Skip(c, RequestOf(c))
    BY <1>1, <2>3 DEF Skip, Respond, Leave, TypeOK
  <2>4. CASE Load(c, KeyOf[c], RequestOf(c))
    BY <1>1, <1>2, <2>4 DEF Load, LoadFound, TypeOK
  <2> QED
    BY <1>3, <2>1, <2>2, <2>3, <2>4 DEF Begin
<1>4. CASE Work(c)
  <2>1. ~RestoreFails(c)
    BY DEF RestoreFails, RestoreIncomplete, PastDeletes, Running, BacksUpItsCall
  <2>2. CASE RespondUnsaved(c)
    BY <1>1, <2>2 DEF RespondUnsaved, Respond, Leave, TypeOK
  <2>3. CASE SaveAndRespond(c)
    BY <1>1, <2>3, AllEndsWell DEF SaveAndRespond, AnswerSaved, Respond, Leave, TypeOK
  <2>4. CASE PurgeEmpty(c) \/ \E r \in Resources : DeleteOne(c, r)
    BY <1>1, <2>4 DEF PurgeEmpty, DeleteOne, TypeOK
  <2> QED
    BY <1>4, <2>1, <2>2, <2>3, <2>4 DEF Work, Continue
<1>5. CASE Apply(c) \/ GiveUp(c)
  BY <1>1, <1>5 DEF Apply, GiveUp, Return, TypeOK
<1> QED
  BY <1>3, <1>4, <1>5 DEF Reconciles

\* What was lost stays lost.
LEMMA LosslessBefore ==
  ASSUME ReconcileTypeOK, [ReconcileNext]_allvars, Lossless'
  PROVE  Lossless /\ \A c \in Calls : ~Drop(c)
<1>1. TypeOK /\ spent \in Spendable /\ spent.drops \in Nat
  BY ReconcileAssumption DEF ReconcileTypeOK, Spendable
<1>2. ASSUME NEW c \in Calls, Drop(c) PROVE FALSE
  <2>1. spent'.drops = spent.drops + 1
    BY <1>1, <1>2 DEF Drop, Spendable
  <2> QED
    BY <1>1, <2>1 DEF Lossless
<1>3. ASSUME Disaster PROVE Lossless
  BY <1>1, <1>3 DEF Disaster, Lossless, Spendable
<1>4. ASSUME NEW c \in Calls, Reconciles(c) PROVE Lossless
  <2>1. Moves(c) /\ UNCHANGED spent
    BY <1>4, ReconcilesMoves
       DEF Reconciles, Begin, Work, Apply, GiveUp, cluster
  <2> QED
    BY <1>1, <2>1, FaultsStay DEF Lossless
<1>5. ASSUME NEW c \in Calls, NEW r \in Resources,
             ProviderCreates(c, r) \/ Rename(c, r) \/ Compose(c, r)
      PROVE  Lossless
  BY <1>1, <1>5 DEF ProviderCreates, Rename, Compose, Lossless, Spendable, vars
<1>6. ASSUME NEW c \in Calls, Annotate(c) PROVE Lossless
  BY <1>1, <1>6 DEF Annotate, Lossless, Spendable, vars
<1>7. ASSUME UNCHANGED allvars PROVE Lossless
  BY <1>7 DEF allvars, cluster, vars, Lossless
<1> QED
  BY <1>2, <1>3, <1>4, <1>5, <1>6, <1>7 DEF ReconcileNext

LEMMA TrackedInvStep ==
  ASSUME TemplatesArePlain, NeverRestoreOnly, TrackedInv, [ReconcileNext]_allvars
  PROVE  TrackedInv'
<1>1. LoopInv' /\ LoopInv /\ ReconcileTypeOK /\ \A c \in Calls : BacksUpItsCall(c)'
  BY LoopInvStep, StaysBackup DEF TrackedInv, LoopInv
<1> SUFFICES ASSUME Lossless', NEW d \in Calls PROVE TrackingTrue(d)'
  BY <1>1 DEF TrackedInv
<1>2. Lossless /\ ~Drop(d)
  BY <1>1, LosslessBefore
<1>3. ~Errs(d)
  <2>1. faults' = faults
    BY <1>2 DEF Lossless
  <2> QED
    BY <1>1, <2>1, NothingFatal DEF Errs, TrackedInv
<1> QED
  BY <1>1, <1>2, <1>3, TrackingStep DEF TrackedInv

LEMMA TrackedInvInit == ReconcileInit => TrackedInv
<1> SUFFICES ASSUME ReconcileInit PROVE TrackedInv
  OBVIOUS
<1>1. ASSUME NEW c \in Calls PROVE TrackingTrue(c) /\ BacksUpItsCall(c)
  <2>1. pc[c] = "idle" /\ ~Running(c)
    BY DEF ReconcileInit, Init, Running
  <2>2. \A r \in Resources :
          objects[c][r].storedExt = None /\ objects[c][r].storedName = None
    BY DEF ReconcileInit, NoObjects, NoObject
  <2> QED
    BY <2>1, <2>2 DEF TrackingTrue, Tracking, BacksUpItsCall
<1> QED
  BY <1>1, LoopInvInit DEF TrackedInv

\* While no store call and no response is lost, an object that says its
\* external name is stored is in the store between reconciles, whatever is
\* purged, switched off, recomposed, renamed or lost with the cluster
\* (fn.go:21-22, 1228).
THEOREM TrackingIsTrue ==
  ASSUME TemplatesArePlain, NeverRestoreOnly
  PROVE  ReconcileSpec => []TrackedMeansStoredUnlessLost
<1>1. TrackedInv /\ [ReconcileNext]_allvars => TrackedInv'
  BY TrackedInvStep
<1>2. TrackedInv => TrackedMeansStoredUnlessLost
  BY DEF TrackedInv, Lossless, TrackingTrue, Tracking, Running,
     TrackedMeansStoredUnlessLost, TrackedMeansStored
<1> QED
  BY <1>1, <1>2, TrackedInvInit, PTL DEF ReconcileSpec

---------------------------------------------------------------------------
(* No adoption of what is gone.  While nothing is disturbed, the entries of *)
(* a composite that backs up with scope "orphaned" name cloud resources     *)
(* that exist, since an object whose policies let its cloud resource be     *)
(* deleted never has the name the store has: it is not tracked, and an      *)
(* object that is not tracked does not have the stored name.                *)

Backing(c) == BacksUp(c) /\ drive[c].scope = "orphaned"
Entry(c, r) == store[KeyOf[c]][r].ext

\* Its policies let the function see a deletion coming, if a provider deletes.
Seen(o) == o.present /\ ProviderDeletes(o.spec) => DeletionCriteria(o.spec)

Exists(c, r) ==
  /\ Seen(objects[c][r])
  /\ Entry(c, r) # None => Entry(c, r) \in cloud[c][r]
  /\ objects[c][r].ext # None => objects[c][r].present /\ objects[c][r].ext \in cloud[c][r]
  /\ DeletionCriteria(objects[c][r].spec) => objects[c][r].storedExt = None

\* No response is under way to the objects.
Untouched(c, r) ==
  objects[c][r].storedExt = None /\ objects[c][r].ext # None =>
    Entry(c, r) # objects[c][r].ext

Underway(c, r) ==
  /\ ~mode[c].restoreOnly /\ mode[c].scope = "orphaned"
  /\ Seen(desired[c][r])
  /\ loaded[c][r] = store[KeyOf[c]][r]
  /\ desired[c][r].ext = None
  /\ observed[c][r].ext \in {None, objects[c][r].ext}
  /\ observed[c][r].storedExt = objects[c][r].storedExt \/ loaded[c][r] = NoData
  /\ (/\ desired[c][r].present /\ DeletionCriteria(desired[c][r].spec)
      /\ observed[c][r].storedExt # None) => r \in pending[c]
  /\ pc[c] = "purged" => pending[c] = {}

Answered(c, r) ==
  /\ Seen(desired[c][r])
  /\ desired[c][r].ext # None => desired[c][r].ext \in cloud[c][r]
  /\ desired[c][r].present /\ DeletionCriteria(desired[c][r].spec) =>
       desired[c][r].storedExt = None
  /\ desired[c][r].present /\ desired[c][r].storedExt = None =>
       \/ Entry(c, r) = None
       \/ Entry(c, r) # Prefer(desired[c][r].ext, objects[c][r].ext)
  /\ (/\ ~desired[c][r].present /\ DeletionCriteria(objects[c][r].spec)
      /\ objects[c][r].ext # None) => Entry(c, r) # objects[c][r].ext

Owned(c, r) ==
  /\ Exists(c, r)
  /\ pc[c] # "done" => Untouched(c, r)
  /\ Running(c) => Underway(c, r)
  /\ pc[c] = "done" => Answered(c, r)

OwnedInv ==
  /\ LoopInv
  /\ Undisturbed => \A c \in Calls : Backing(c) => \A r \in Resources : Owned(c, r)

LEMMA ProcessedSurvives ==
  ASSUME NEW o, ShouldProcess(o, "orphaned") PROVE ~DeletionCriteria(o.spec)
BY DEF ShouldProcess, DeletionCriteria

LEMMA LoadOwns ==
  ASSUME TemplatesAreUnnamed, DeletionsAreSeen, LoopInv, NEW c \in Calls, Backing(c),
         Load(c, KeyOf[c], RequestOf(c)), UNCHANGED cluster,
         NEW r \in Resources, Owned(c, r)
  PROVE  Owned(c, r)'
<1> DEFINE rq == RequestOf(c)
<1>1. /\ rq.desired = template[c] /\ rq.observed = objects[c] /\ ~rq.restoreOnly
      /\ rq.scope = "orphaned"
  BY DEF RequestOf, Backing, BacksUp
<1>2. TypeOK /\ template[c][r] \in Templates \cup {NoObject}
  BY DEF LoopInv, ReconcileTypeOK
<1>3. template[c][r].ext = None /\ Seen(template[c][r])
  BY <1>2 DEF TemplatesAreUnnamed, DeletionsAreSeen, Seen, NoObject
<1>4. \/ template[c][r].storedExt = None
      \/ Prefer(template[c][r].storedExt, objects[c][r].storedExt) # None
  BY DEF Prefer
<1> HIDE DEF rq
<1>5. /\ pc[c] = "idle" /\ pc'[c] = "deleting" /\ store' = store
      /\ mode'[c] = [restoreOnly |-> rq.restoreOnly, scope |-> rq.scope]
      /\ desired'[c] = template[c] /\ observed'[c] = objects[c]
      /\ loaded'[c] = store[KeyOf[c]] /\ pending'[c] = ToDelete(rq)
  BY <1>1, <1>2 DEF Load, LoadFound, Admissible, TypeOK, rq
<1>6. ASSUME template[c][r].present, DeletionCriteria(template[c][r].spec),
             objects[c][r].storedExt # None
      PROVE  r \in ToDelete(rq)
  BY <1>1, <1>4, <1>6 DEF ToDelete, Discards, Prefer, ShouldDelete, DeletionCriteria
<1>7. Exists(c, r)' /\ Untouched(c, r)'
  BY <1>5 DEF Owned, Exists, Untouched, Entry, cluster
<1>8. mode'[c].restoreOnly = rq.restoreOnly /\ mode'[c].scope = rq.scope
  BY <1>5
<1>9. Underway(c, r)'
  BY <1>1, <1>3, <1>5, <1>6, <1>8 DEF Underway, cluster
<1> QED
  BY <1>5, <1>7, <1>9 DEF Owned

LEMMA DeleteOwns ==
  ASSUME LoopInv, NEW c \in Calls, NEW s \in Resources, DeleteOne(c, s),
         UNCHANGED cluster, faults' = 0, NEW r \in Resources, Owned(c, r)
  PROVE  Owned(c, r)'
<1> DEFINE k == KeyOf[c]
<1>1. TypeOK /\ k \in Keys /\ Running(c) /\ key[c] = k /\ pc[c] = "deleting"
  BY TemplateType DEF LoopInv, ReconcileTypeOK, DeleteOne, Running, FunctionInv, AtOwnKey
<1>2. /\ store' = [store EXCEPT ![k] = [store[k] EXCEPT ![s] = NoData]]
      /\ loaded' = [loaded EXCEPT ![c] = [loaded[c] EXCEPT ![s] = NoData]]
      /\ observed' = [observed EXCEPT ![c] =
                        [observed[c] EXCEPT ![s] = Untracked(observed[c][s])]]
      /\ desired' = [desired EXCEPT ![c] = [desired[c] EXCEPT ![s] = MarkDeleted(desired[c][s])]]
      /\ pending' = [pending EXCEPT ![c] = pending[c] \ {s}]
      /\ mode' = mode /\ pc' = pc
  BY <1>1, AllEndsWell DEF DeleteOne, Dropped, After, DeleteResource
<1>3. /\ observed[c][s] \in Object /\ desired[c][s] \in Object
      /\ store[k] \in [Resources -> Data] /\ loaded[c] \in [Resources -> Data]
      /\ observed[c] \in [Resources -> Object] /\ desired[c] \in [Resources -> Object]
  BY <1>1 DEF TypeOK, Composition, Objects
<1>4. /\ store'[k][r] = IF r = s THEN NoData ELSE store[k][r]
      /\ loaded'[c][r] = IF r = s THEN NoData ELSE loaded[c][r]
      /\ observed'[c][r] = IF r = s THEN Untracked(observed[c][s]) ELSE observed[c][r]
      /\ desired'[c][r] = IF r = s THEN MarkDeleted(desired[c][s]) ELSE desired[c][r]
      /\ pending'[c] = pending[c] \ {s} /\ mode'[c] = mode[c] /\ pc'[c] = pc[c]
  BY <1>1, <1>2, <1>3 DEF TypeOK
<1>5. CASE r # s
  BY <1>1, <1>4, <1>5
     DEF Owned, Exists, Untouched, Underway, Entry, Running, cluster
<1>6. CASE r = s
  <2>1. /\ store'[k][r] = NoData /\ loaded'[c][r] = NoData /\ NoData.ext = None
        /\ observed'[c][r].ext = observed[c][r].ext /\ observed'[c][r].storedExt = None
        /\ desired'[c][r].ext = desired[c][r].ext
        /\ desired'[c][r].present = desired[c][r].present
        /\ desired'[c][r].spec = desired[c][r].spec
    BY <1>3, <1>4, <1>6 DEF Untracked, MarkDeleted, Object, NoData
  <2>2. Exists(c, r)' /\ Untouched(c, r)'
    BY <2>1 DEF Owned, Exists, Untouched, Entry, cluster
  <2>3. Underway(c, r)'
    BY <1>1, <1>4, <2>1 DEF Owned, Underway, Seen, cluster
  <2> QED
    BY <1>1, <1>4, <2>2, <2>3 DEF Owned
<1> QED
  BY <1>5, <1>6

LEMMA PurgeOwns ==
  ASSUME LoopInv, NEW c \in Calls, PurgeEmpty(c), UNCHANGED cluster, faults' = 0,
         \A r \in Resources : Owned(c, r), NEW r \in Resources
  PROVE  Owned(c, r)'
<1>1. TypeOK /\ KeyOf[c] \in Keys /\ Running(c) /\ key[c] = KeyOf[c]
  BY TemplateType DEF LoopInv, ReconcileTypeOK, PurgeEmpty, Running, FunctionInv, AtOwnKey
<1>2. /\ store' = [store EXCEPT ![KeyOf[c]] = EmptyComposition]
      /\ UNCHANGED <<local, desired>> /\ pc'[c] = "purged" /\ pc[c] = "deleting"
  BY <1>1, AllEndsWell DEF PurgeEmpty, After, Purge, TypeOK
<1>3. store[KeyOf[c]][r] = EmptyComposition[r]
  BY <1>1 DEF PurgeEmpty, IsEmpty, Owned, Underway
<1>4. store'[KeyOf[c]][r] = store[KeyOf[c]][r]
  BY <1>1, <1>2, <1>3 DEF TypeOK
<1>5. Exists(c, r)' /\ Untouched(c, r)'
  BY <1>2, <1>4 DEF Owned, Exists, Untouched, Entry, cluster
<1>6. pending'[c] = {} /\ Underway(c, r)
  BY <1>1, <1>2 DEF PurgeEmpty, Owned, local
<1>7. Underway(c, r)'
  BY <1>2, <1>4, <1>6 DEF Underway, local, cluster
<1> QED
  BY <1>2, <1>5, <1>7 DEF Owned

\* The stored data after the answer of a call that sees the store as it is.
LEMMA EntryAnswered ==
  ASSUME LoopInv, NEW c \in Calls, Moves(c), Answers(c), NEW r \in Resources,
         loaded[c][r] = store[KeyOf[c]][r]
  PROVE  Entry(c, r)' = Prefer(StoredBy(c)[r].ext, Entry(c, r))
<1>1. TypeOK /\ key[c] = KeyOf[c]
  BY DEF LoopInv, ReconcileTypeOK, FunctionInv, AtOwnKey, Answers
<1>2. CASE SavesNothing(c)
  <2>1. store' = store
    BY <1>1, <1>2, AnswerStep DEF Moves
  <2>2. StoredBy(c)[r].ext = None
    BY <1>2 DEF StoredBy, EmptyComposition, NoData
  <2> QED
    BY <2>1, <2>2 DEF Entry, Prefer
<1>3. CASE ~SavesNothing(c)
  <2>1. store'[KeyOf[c]] = AllResourceData(c)
    BY <1>1, <1>3, AnswerStep DEF Moves
  <2>2. AllResourceData(c)[r] = MergeData(loaded[c][r], StoredBy(c)[r])
    BY <1>3 DEF AllResourceData, StoredBy
  <2>3. MergeData(loaded[c][r], StoredBy(c)[r]).ext =
          Prefer(StoredBy(c)[r].ext, loaded[c][r].ext)
    BY DEF MergeData
  <2> QED
    BY <2>1, <2>2, <2>3 DEF Entry
<1> QED
  BY <1>2, <1>3

\* A new name is the observed one, of a resource that survives its object.
LEMMA NewIsObserved ==
  ASSUME NEW c \in Calls, NEW r \in Resources, StoredBy(c)[r].ext # None,
         mode[c].scope = "orphaned"
  PROVE  /\ StoredBy(c)[r].ext = observed[c][r].ext
         /\ desired[c][r].present => ~DeletionCriteria(desired[c][r].spec)
         /\ ~desired[c][r].present => ~DeletionCriteria(observed[c][r].spec)
<1> DEFINE d == desired[c][r]
           o == observed[c][r]
<1>1. StoredBy(c) = NewResourceData(c)
  BY DEF StoredBy, EmptyComposition, NoData
<1>2. o.present
  BY <1>1 DEF NewResourceData, NoData
<1>3. NewResourceData(c)[r] =
        NewData(o, ShouldProcess(IF d.present THEN d ELSE o, mode[c].scope))
  BY <1>2 DEF NewResourceData
<1>4. /\ StoredBy(c)[r].ext = o.ext
      /\ ShouldProcess(IF d.present THEN d ELSE o, "orphaned")
  BY <1>1, <1>3 DEF NewData
<1> HIDE DEF d, o
<1>5. /\ d.present => ~DeletionCriteria(d.spec)
      /\ ~d.present => ~DeletionCriteria(o.spec)
  BY <1>4, ProcessedSurvives
<1> QED
  BY <1>4, <1>5 DEF d, o

LEMMA AnswerOwns ==
  ASSUME LoopInv, NEW c \in Calls, Moves(c), Answers(c), pending[c] = {},
         UNCHANGED cluster, NEW r \in Resources, Owned(c, r)
  PROVE  Owned(c, r)'
<1> DEFINE d == desired[c][r]
           o == observed[c][r]
           p == RestorePass(c)[r]
           q == desired'[c][r]
           a == objects[c][r]
           new == StoredBy(c)[r].ext
           had == Entry(c, r)
           has == Entry(c, r)'
<1>1. /\ TypeOK /\ Running(c) /\ pc[c] # "done" /\ pc'[c] = "done" /\ ~Running(c)'
      /\ Exists(c, r) /\ Untouched(c, r) /\ Underway(c, r) /\ d.storedExt = None
      /\ o.spec = a.spec
  BY DEF LoopInv, ReconcileTypeOK, Answers, Running, Owned, FunctionInv, ReadyInv, Ready,
     ObjectsSound
<1>2. desired'[c] = Response(c, StoredBy(c)) /\ StoredBy(c) \in Composition
  BY <1>1, AnswerStep DEF Moves
<1>3. has = Prefer(new, had)
  BY <1>1, EntryAnswered DEF Underway
<1>4. /\ q.present = d.present /\ q.spec = d.spec
      /\ ~d.present => q = d
      /\ d.present =>
           /\ q.ext = Prefer(o.ext, p.ext)
           /\ q.storedExt = Prefer(o.storedExt, Prefer(new, p.storedExt))
  BY <1>1, <1>2, ResponseFields, SpecOfResponse
<1>5. d.present =>
        \/ p.ext = None /\ p.storedExt = None
        \/ p.ext = had /\ p.storedExt = had
  BY <1>1, RestoredFields DEF Underway, Entry
<1>6. d.present /\ DeletionCriteria(d.spec) => p.storedExt = None
  BY <1>1, ProcessedSurvives DEF RestorePass, Underway
<1>7. new # None =>
        /\ new = o.ext
        /\ d.present => ~DeletionCriteria(d.spec)
        /\ ~d.present => ~DeletionCriteria(a.spec)
  BY <1>1, NewIsObserved DEF Underway
<1>8. /\ had # None => had \in cloud[c][r]
      /\ a.ext # None => a.present /\ a.ext \in cloud[c][r]
      /\ DeletionCriteria(a.spec) => a.storedExt = None
      /\ a.storedExt = None /\ a.ext # None => had # a.ext
      /\ Seen(a)
  BY <1>1 DEF Exists, Untouched
<1>9. /\ d.ext = None /\ o.ext \in {None, a.ext}
      /\ o.storedExt = a.storedExt \/ had = None
      /\ d.present /\ DeletionCriteria(d.spec) => o.storedExt = None
      /\ Seen(d)
  BY <1>1 DEF Underway, Entry, NoData
<1> HIDE DEF d, o, p, q, a, new, had, has
<1>10. has # None => has \in cloud[c][r]
  BY <1>3, <1>7, <1>8, <1>9 DEF Prefer
<1>11. q.ext # None => q.ext \in cloud[c][r]
  BY <1>4, <1>5, <1>8, <1>9 DEF Prefer
<1>12. q.present /\ DeletionCriteria(q.spec) => q.storedExt = None
  BY <1>1, <1>4, <1>6, <1>7, <1>9 DEF Prefer
<1>13. ASSUME q.present, q.storedExt = None
       PROVE  has = None \/ has # Prefer(q.ext, a.ext)
  <2>1. d.present /\ o.storedExt = None /\ new = None /\ p.storedExt = None
    BY <1>4, <1>13 DEF Prefer
  <2>2. has = had /\ p.ext = None
    BY <1>3, <1>5, <2>1 DEF Prefer
  <2>3. Prefer(q.ext, a.ext) = a.ext
    BY <1>4, <1>9, <2>1, <2>2 DEF Prefer
  <2> QED
    BY <1>8, <1>9, <2>1, <2>2, <2>3
<1>14. (~q.present /\ DeletionCriteria(a.spec) /\ a.ext # None) => has # a.ext
  BY <1>3, <1>4, <1>7, <1>8 DEF Prefer
<1>15. Exists(c, r)'
  BY <1>8, <1>10 DEF Exists, has, a, cluster
<1>16. Seen(q)
  BY <1>4, <1>9 DEF Seen
<1>17. Answered(c, r)'
  BY <1>11, <1>12, <1>13, <1>14, <1>16 DEF Answered, has, a, q, cluster
<1> QED
  BY <1>1, <1>15, <1>17 DEF Owned

LEMMA ApplyOwns ==
  ASSUME ReconcileTypeOK, NEW c \in Calls, Apply(c), NEW r \in Resources, Owned(c, r)
  PROVE  Owned(c, r)'
<1> DEFINE d == desired[c][r]
           a == objects[c][r]
           b == objects'[c][r]
           had == Entry(c, r)
           resources == cloud[c][r]
           left == cloud'[c][r]
<1>1. /\ pc[c] = "done" /\ pc'[c] = "idle" /\ ~Running(c)' /\ store' = store
  BY ApplyFrame DEF Running
<1>2. /\ had # None => had \in resources
      /\ a.ext # None => a.ext \in resources
      /\ d.ext # None => d.ext \in resources
      /\ d.present /\ DeletionCriteria(d.spec) => d.storedExt = None
      /\ d.present /\ d.storedExt = None => had = None \/ had # Prefer(d.ext, a.ext)
      /\ Seen(a) /\ Seen(d)
      /\ (~d.present /\ DeletionCriteria(a.spec) /\ a.ext # None) => had # a.ext
  BY <1>1 DEF Owned, Exists, Answered
<1>3. /\ b.present = d.present
      /\ ~d.present => b = NoObject
      /\ d.present =>
           b.spec = d.spec /\ b.ext = Prefer(d.ext, a.ext) /\ b.storedExt = d.storedExt
  BY AppliedObjects
<1>4. /\ NoObject.ext = None /\ NoObject.storedExt = None
      /\ ~DeletionCriteria(NoObject.spec)
  BY DEF NoObject, DeletionCriteria
<1>5. left = CloudAfter(c, r)
  BY DEF Apply, ReconcileTypeOK
<1>6. \/ left = resources
      \/ left = resources \ {a.ext} /\ ~d.present /\ DeletionCriteria(a.spec)
  BY <1>2, <1>5 DEF CloudAfter, Seen
<1>7. Entry(c, r)' = had
  BY <1>1 DEF Entry
<1> HIDE DEF d, a, b, had, resources, left
<1>8. had # None => had \in left
  BY <1>2, <1>6
<1>9. b.ext # None => b.present /\ b.ext \in left
  BY <1>2, <1>3, <1>4, <1>6 DEF Prefer
<1>10. /\ DeletionCriteria(b.spec) => b.storedExt = None
       /\ b.storedExt = None /\ b.ext # None => had # b.ext
  <2>1. CASE d.present
    BY <1>2, <1>3, <2>1
  <2>2. CASE ~d.present
    BY <1>3, <1>4, <2>2
  <2> QED
    BY <2>1, <2>2
<1>11. Seen(b)
  BY <1>2, <1>3, <1>4 DEF Seen
<1>12. Exists(c, r)' /\ Untouched(c, r)'
  BY <1>7, <1>8, <1>9, <1>10, <1>11 DEF Exists, Untouched, b, left
<1> QED
  BY <1>1, <1>12 DEF Owned

LEMMA ProviderOwns ==
  ASSUME LoopInv, NEW c \in Calls, NEW s \in Resources, ProviderCreates(c, s),
         NEW d \in Calls, NEW r \in Resources, Owned(d, r)
  PROVE  Owned(d, r)'
<1>1. /\ ReconcileTypeOK /\ UNCHANGED vars /\ objects[c][s].ext = None
      /\ objects[c][s].present /\ objects[c][s] \in Object
  BY DEF LoopInv, ProviderCreates, ReconcileTypeOK, Objects
<1>2. PICK e \in Unused :
        /\ objects' = [objects EXCEPT ![c][s].ext = e]
        /\ cloud' = [cloud EXCEPT ![c][s] = @ \cup {e}]
  BY DEF ProviderCreates
<1>3. e \in ExtNames /\ e # None /\ e \notin cloud[c][s]
  BY NamesAssumption DEF Unused
<1>4. Named(c, s, e)
  BY <1>2, <1>3 DEF Named
<1>5. /\ objects'[d][r] = IF d = c /\ r = s THEN [objects[c][s] EXCEPT !.ext = e]
                          ELSE objects[d][r]
      /\ cloud'[d][r] = IF d = c /\ r = s THEN cloud[c][s] \cup {e} ELSE cloud[d][r]
  <2>1. /\ cloud[c] \in [Resources -> SUBSET ExtNames]
        /\ cloud' = [cloud EXCEPT ![c] = [cloud[c] EXCEPT ![s] = cloud[c][s] \cup {e}]]
    BY <1>1, <1>2 DEF ReconcileTypeOK
  <2>2. cloud'[d][r] = IF d = c /\ r = s THEN cloud[c][s] \cup {e} ELSE cloud[d][r]
    BY <1>1, <2>1 DEF ReconcileTypeOK
  <2>3. objects'[d][r] = IF d = c /\ r = s THEN [objects[c][s] EXCEPT !.ext = e]
                         ELSE objects[d][r]
    BY <1>1, <1>4, NamedType
  <2> QED
    BY <2>2, <2>3
<1>6. CASE ~(d = c /\ r = s)
  <2>1. objects'[d][r] = objects[d][r] /\ cloud'[d][r] = cloud[d][r]
    BY <1>5, <1>6
  <2> QED
    BY <1>1, <2>1
       DEF Owned, Exists, Untouched, Underway, Answered, Entry, Running, vars, local
<1>7. CASE d = c /\ r = s
  <2>1. /\ cloud'[d][r] = cloud[d][r] \cup {e} /\ objects[d][r].ext = None
        /\ e \notin cloud[d][r]
    BY <1>1, <1>3, <1>5, <1>7
  <2>2. /\ objects'[d][r].ext = e /\ objects'[d][r].present
        /\ objects'[d][r].storedExt = objects[d][r].storedExt
        /\ objects'[d][r].spec = objects[d][r].spec
    BY <1>1, <1>5, <1>7 DEF Object
  <2>3. Entry(d, r)' = Entry(d, r)
    BY <1>1 DEF Entry, vars
  <2>4. Exists(d, r) /\ Entry(d, r) # e
    BY <1>3, <2>1 DEF Owned, Exists
  <2>5. Exists(d, r)' /\ Untouched(d, r)'
    BY <1>1, <1>7, <2>1, <2>2, <2>3, <2>4 DEF Exists, Untouched, Seen
  <2>6. ASSUME Underway(d, r) PROVE Underway(d, r)'
    BY <1>1, <2>1, <2>2, <2>6 DEF Underway, vars, local
  <2>7. ASSUME Answered(d, r) PROVE Answered(d, r)'
    <3>1. desired'[d][r] = desired[d][r]
      BY <1>1 DEF vars
    <3>2. Prefer(desired[d][r].ext, e) \in {e, Prefer(desired[d][r].ext, None)}
      BY DEF Prefer
    <3> QED
      BY <2>1, <2>2, <2>3, <2>4, <2>7, <3>1, <3>2 DEF Answered
  <2> QED
    BY <1>1, <2>5, <2>6, <2>7 DEF Owned, Running, vars, local
<1> QED
  BY <1>6, <1>7

\* What touches neither the composite, its call nor its composition.
LEMMA AloneStaysOwned ==
  ASSUME NEW d \in Calls, NEW r \in Resources, Owned(d, r),
         pc'[d] = pc[d], mode'[d] = mode[d], loaded'[d] = loaded[d],
         observed'[d] = observed[d], desired'[d] = desired[d], pending'[d] = pending[d],
         store'[KeyOf[d]] = store[KeyOf[d]], objects'[d] = objects[d], cloud'[d] = cloud[d]
  PROVE  Owned(d, r)'
BY DEF Owned, Exists, Untouched, Underway, Answered, Entry, Running

LEMMA ReconcileOwns ==
  ASSUME TemplatesAreUnnamed, DeletionsAreSeen, LoopInv, NEW c \in Calls,
         Reconciles(c), faults' = 0, Backing(c), \A r \in Resources : Owned(c, r), NEW r \in Resources
  PROVE  Owned(c, r)'
<1>1. /\ ReconcileTypeOK /\ TypeOK
      /\ RequestOf(c).enabled /\ ~RequestOf(c).purge
  BY DEF LoopInv, ReconcileTypeOK, RequestOf, Backing, BacksUp
<1>2. CASE Begin(c)
  <2>1. ~LoadFails(c, KeyOf[c], RequestOf(c))
    BY <1>1, <1>2, RunFunctionAssumption DEF LoadFails, TypeOK
  <2>2. Load(c, KeyOf[c], RequestOf(c)) /\ UNCHANGED cluster
    BY <1>1, <1>2, <2>1 DEF Begin, Skip, PurgeComposition
  <2> QED
    BY <2>2, LoadOwns
<1>3. CASE Work(c)
  <2>1. Moves(c) /\ UNCHANGED cluster /\ Continue(c)
    BY <1>3 DEF Work, Moves, StepOf
  <2>2. CASE RespondUnsaved(c) \/ SaveAndRespond(c)
    <3>1. Running(c) /\ (pc[c] = "purged" \/ pending[c] = {})
      BY <2>2 DEF RespondUnsaved, SaveAndRespond, PastDeletes, Running
    <3>2. pc'[c] = "done"
      BY <1>1, <2>2, AllEndsWell
         DEF RespondUnsaved, SaveAndRespond, AnswerSaved, Respond, Leave, TypeOK
    <3>3. pending[c] = {}
      BY <3>1 DEF Owned, Underway
    <3> QED
      BY <2>1, <3>1, <3>2, <3>3, AnswerOwns DEF Answers
  <2>3. ~RestoreFails(c)
    BY DEF RestoreFails, RestoreIncomplete, PastDeletes, Running, Owned, Underway
  <2> QED
    BY <2>1, <2>2, <2>3, DeleteOwns, PurgeOwns DEF Continue
<1>4. CASE GiveUp(c)
  <2>1. pc[c] = "fatal" /\ pc'[c] = "idle" /\ store' = store /\ UNCHANGED cluster
    BY <1>1, <1>4 DEF GiveUp, Return, TypeOK
  <2> QED
    BY <2>1 DEF Owned, Exists, Untouched, Entry, Running, cluster
<1> QED
  BY <1>1, <1>2, <1>3, <1>4, ApplyOwns DEF Reconciles


\* What disturbs a step has come or has been before it.
LEMMA UndisturbedBefore ==
  ASSUME LoopInv, ReconcileNext, Undisturbed'
  PROVE  /\ Undisturbed /\ drive' = drive
         /\ \/ \E c \in Calls : Reconciles(c)
            \/ \E c \in Calls, r \in Resources : ProviderCreates(c, r) \/ Compose(c, r)
<1>1. /\ ReconcileTypeOK /\ TypeOK /\ faults \in Nat /\ spent \in Spendable
      /\ spent.drops \in Nat /\ spent.disasters \in Nat /\ spent.renames \in Nat
      /\ spent.switches \in Nat
  BY RunFunctionAssumption, ReconcileAssumption
     DEF LoopInv, ReconcileTypeOK, TypeOK, Spendable
<1>2. ~Disaster
  <2>1. ASSUME Disaster PROVE spent'.disasters = spent.disasters + 1
    BY <1>1, <2>1 DEF Disaster, Spendable
  <2> QED
    BY <1>1, <2>1 DEF Undisturbed
<1>3. ASSUME NEW c \in Calls PROVE ~Drop(c)
  <2>1. ASSUME Drop(c) PROVE spent'.drops = spent.drops + 1
    BY <1>1, <2>1 DEF Drop, Spendable
  <2> QED
    BY <1>1, <2>1 DEF Undisturbed
<1>4. ASSUME NEW c \in Calls, NEW r \in Resources PROVE ~Rename(c, r)
  <2>1. ASSUME Rename(c, r) PROVE spent'.renames = spent.renames + 1
    BY <1>1, <2>1 DEF Rename, Spendable
  <2> QED
    BY <1>1, <2>1 DEF Undisturbed
<1>5. ASSUME NEW c \in Calls PROVE ~Annotate(c)
  <2>1. ASSUME Annotate(c) PROVE spent'.switches = spent.switches + 1
    BY <1>1, <2>1 DEF Annotate, Spendable
  <2> QED
    BY <1>1, <2>1 DEF Undisturbed
<1>6. ASSUME NEW c \in Calls, Reconciles(c) PROVE Undisturbed /\ drive' = drive
  <2>1. Moves(c) /\ UNCHANGED <<spent, drive>>
    BY <1>6, ReconcilesMoves DEF Reconciles, Begin, Work, Apply, GiveUp, cluster
  <2>2. faults = 0
    BY <1>1, <2>1, FaultsStay DEF Undisturbed
  <2> QED
    BY <2>1, <2>2 DEF Undisturbed
<1>7. ASSUME NEW c \in Calls, NEW r \in Resources, ProviderCreates(c, r)
      PROVE  Undisturbed /\ drive' = drive
  BY <1>7 DEF ProviderCreates, vars, Undisturbed
<1>8. ASSUME NEW c \in Calls, NEW r \in Resources, Compose(c, r)
      PROVE  Undisturbed /\ drive' = drive
  <2>1. /\ spent'.drops = spent.drops /\ spent'.disasters = spent.disasters
        /\ spent'.renames = spent.renames /\ spent'.switches = spent.switches
        /\ faults' = faults /\ drive' = drive
    BY <1>1, <1>8 DEF Compose, Spendable, vars
  <2> QED
    BY <2>1 DEF Undisturbed
<1> QED
  BY <1>2, <1>3, <1>4, <1>5, <1>6, <1>7, <1>8 DEF ReconcileNext

LEMMA OwnedInvStep ==
  ASSUME TemplatesArePlain, TemplatesAreUnnamed, DeletionsAreSeen, OwnedInv,
         [ReconcileNext]_allvars
  PROVE  OwnedInv'
<1>1. LoopInv' /\ LoopInv /\ ReconcileTypeOK /\ TypeOK
  BY LoopInvStep DEF OwnedInv, LoopInv, ReconcileTypeOK
<1> SUFFICES ASSUME Undisturbed', NEW d \in Calls, Backing(d)', NEW r \in Resources
             PROVE  Owned(d, r)'
  BY <1>1 DEF OwnedInv
<1>2. CASE ReconcileNext
  <2>1. Undisturbed /\ drive' = drive
    BY <1>1, <1>2, UndisturbedBefore
  <2>2. Backing(d) /\ \A s \in Resources : Owned(d, s)
    BY <2>1 DEF OwnedInv, Backing, BacksUp
  <2>3. ASSUME NEW c \in Calls, Reconciles(c) PROVE Owned(d, r)'
    <3>1. Moves(c) /\ (Apply(c) \/ UNCHANGED <<objects, cloud>>) /\ faults' = 0
      BY <2>3, ReconcilesMoves DEF Undisturbed
    <3>2. CASE d = c
      BY <1>1, <2>2, <2>3, <3>1, <3>2, ReconcileOwns
    <3>3. CASE d # c
      <4>1. /\ pc'[d] = pc[d] /\ mode'[d] = mode[d] /\ loaded'[d] = loaded[d]
            /\ observed'[d] = observed[d] /\ desired'[d] = desired[d]
            /\ pending'[d] = pending[d]
        BY <1>1, <3>1, <3>3, StepFrame DEF Moves
      <4>2. store'[KeyOf[d]] = store[KeyOf[d]]
        BY <1>1, <3>1, <3>3, MovesStore
      <4>3. objects'[d] = objects[d]
        BY <1>1, <3>1, <3>3, ApplyFrame
      <4>4. cloud'[d] = cloud[d]
        BY <1>1, <3>1, <3>3 DEF Apply, ReconcileTypeOK
      <4> QED
        BY <2>2, <4>1, <4>2, <4>3, <4>4, AloneStaysOwned
    <3> QED
      BY <3>2, <3>3
  <2>4. ASSUME NEW c \in Calls, NEW s \in Resources, ProviderCreates(c, s)
        PROVE  Owned(d, r)'
    BY <1>1, <2>2, <2>4, ProviderOwns
  <2>5. ASSUME NEW c \in Calls, NEW s \in Resources, Compose(c, s) PROVE Owned(d, r)'
    BY <2>2, <2>5, AloneStaysOwned DEF Compose, vars, local
  <2> QED
    BY <1>1, <1>2, <2>3, <2>4, <2>5, UndisturbedBefore
<1>3. CASE UNCHANGED allvars
  <2>1. Undisturbed /\ Backing(d)
    BY <1>3 DEF allvars, vars, cluster, Undisturbed, Backing, BacksUp
  <2> QED
    BY <1>3, <2>1, AloneStaysOwned DEF OwnedInv, allvars, vars, local, cluster
<1> QED
  BY <1>2, <1>3

LEMMA OwnedInvInit == ReconcileInit => OwnedInv
<1> SUFFICES ASSUME ReconcileInit PROVE OwnedInv
  OBVIOUS
<1>1. ASSUME NEW c \in Calls, NEW r \in Resources PROVE Owned(c, r)
  <2>1. pc[c] = "idle" /\ ~Running(c)
    BY DEF ReconcileInit, Init, Running
  <2>2. /\ objects[c][r].ext = None /\ objects[c][r].storedExt = None
        /\ Entry(c, r) = None
    BY ReconcileAssumption DEF ReconcileInit, Init, NoObjects, NoObject, Entry,
       EmptyComposition, NoData
  <2>3. Seen(objects[c][r])
    BY DEF ReconcileInit, NoObjects, NoObject, Seen
  <2> QED
    BY <2>1, <2>2, <2>3 DEF Owned, Exists, Untouched
<1> QED
  BY <1>1, LoopInvInit DEF OwnedInv

\* A name the store gives to a new object is that of a cloud resource that
\* exists, through all changes of policy, in an undisturbed backup with scope
\* "orphaned" (fn.go:874-1004), for compositions that spell out the policies a
\* provider deletes for.
THEOREM NothingGoneIsAdopted ==
  ASSUME TemplatesArePlain, TemplatesAreUnnamed, DeletionsAreSeen
  PROVE  ReconcileSpec => NeverAdoptsDeleted
<1>1. OwnedInv /\ [ReconcileNext]_allvars => OwnedInv'
  BY OwnedInvStep
<1>2. ASSUME OwnedInv, [ReconcileNext]_allvars, NEW c \in Calls, NEW r \in Resources,
             Undisturbed, BacksUp(c), drive[c].scope = "orphaned",
             ~objects[c][r].present, objects'[c][r].ext # None
      PROVE  objects'[c][r].ext \in cloud[c][r]
  <2>1. Owned(c, r) /\ LoopInv /\ ReconcileTypeOK
    BY <1>2 DEF OwnedInv, Backing, LoopInv
  <2>2. CASE objects'[c][r] = objects[c][r]
    BY <1>2, <2>1, <2>2 DEF Owned, Exists
  <2>3. CASE Apply(c)
    <3>1. desired[c][r].present /\
            objects'[c][r].ext = Prefer(desired[c][r].ext, objects[c][r].ext)
      BY <1>2, <2>1, <2>3, AppliedObjects DEF NoObject
    <3> QED
      BY <1>2, <2>1, <2>3, <3>1 DEF Owned, Exists, Answered, Apply, Prefer
  <2>4. objects'[c][r] = objects[c][r] \/ Apply(c)
    <3>1. ASSUME NEW d \in Calls, Reconciles(d) \/ Drop(d)
          PROVE  objects'[c][r] = objects[c][r] \/ Apply(c)
      BY <2>1, <3>1, ReconcilesMoves, ApplyFrame
    <3>2. ASSUME NEW d \in Calls, NEW s \in Resources,
                 ProviderCreates(d, s) \/ Rename(d, s)
          PROVE  objects'[c][r] = objects[c][r] \/ Apply(c)
      <4>1. PICK e : Named(d, s, e)
        BY <2>1, <3>2, NamedBy
      <4>2. objects[d][s].present \/ objects[d][s].ext # None
        BY <3>2 DEF ProviderCreates, Rename
      <4>3. ~(c = d /\ r = s)
        BY <1>2, <2>1, <4>2 DEF Owned, Exists
      <4>4. objects'[c][r] = IF c = d /\ r = s THEN [objects[d][s] EXCEPT !.ext = e]
                             ELSE objects[c][r]
        BY <2>1, <4>1, NamedType
      <4> QED
        BY <4>3, <4>4
    <3>3. CASE Disaster
      BY <1>2, <2>1, <3>3, DisasterEndsCalls DEF NoObject
    <3> QED
      BY <1>2, <3>1, <3>2, <3>3
         DEF ReconcileNext, Compose, Annotate, allvars, cluster
  <2> QED
    BY <2>2, <2>3, <2>4
<1>3. OwnedInv /\ [ReconcileNext]_allvars =>
        [\A c \in Calls, r \in Resources :
           (/\ Undisturbed /\ BacksUp(c) /\ drive[c].scope = "orphaned"
            /\ ~objects[c][r].present /\ objects'[c][r].ext # None) =>
             objects'[c][r].ext \in cloud[c][r]]_allvars
  BY <1>2
<1> QED
  BY <1>1, <1>3, OwnedInvInit, PTL DEF ReconcileSpec, NeverAdoptsDeleted

---------------------------------------------------------------------------
(* What is promised of the handler for exclusive keys and ordinary requests *)
(* holds in the loop, which has no other: each composite has its own key,   *)
(* and its requests are made of its templates and its objects.              *)

LEMMA LoopInvariant ==
  ASSUME TemplatesArePlain PROVE ReconcileSpec => []LoopInv
<1>1. LoopInv /\ [ReconcileNext]_allvars => LoopInv'
  BY LoopInvStep
<1> QED
  BY <1>1, LoopInvInit, PTL DEF ReconcileSpec

LEMMA LoopMoves ==
  ASSUME [ReconcileNext]_allvars
  PROVE  Disaster \/ (\E c \in Calls : Moves(c)) \/ UNCHANGED vars
BY ReconcilesMoves
   DEF ReconcileNext, ProviderCreates, Rename, Compose, Annotate, allvars

LEMMA MoveLosesWhenTold ==
  ASSUME LoopInv, NEW c \in Calls, Moves(c), NEW k \in Keys, NEW r \in Resources,
         Loses(k, r)
  PROVE  \/ pc[c] = "idle" /\ pc'[c] # "idle"
         \/ pc[c] = "deleting" /\ key[c] = k /\ r \in pending[c] \ pending'[c]
<1>1. store' # store /\ Inv /\ TypeOK
  BY UnchangedLosesNothing DEF LoopInv, FunctionInv, Inv, ReconcileTypeOK
<1>2. CASE PurgeComposition(c, KeyOf[c], RequestOf(c))
  BY <1>1, <1>2 DEF PurgeComposition, Admissible, Respond, Fail, Leave, TypeOK
<1>3. CASE \E s \in Resources : DeleteOne(c, s)
  BY <1>1, <1>3, DeleteLosesItsOwn
<1>4. PurgeEmpty(c) => store' = store
  BY <1>1, PurgeEmptyStutters DEF Inv
<1>5. ~SaveAndRespond(c)
  BY <1>1, SaveLosesNothing
<1> QED
  BY <1>1, <1>2, <1>3, <1>4, <1>5
     DEF Moves, StepOf, Continue, Skip, LoadFound, LoadFails, RestoreFails,
         RespondUnsaved, Abandon, Return

\* In the loop, too, a stored name goes away only on a purge request or by the
\* deletion of its resource, whatever fails or is lost (fn.go:874-1004).
THEOREM LoopKeepsNames ==
  ASSUME TemplatesArePlain PROVE ReconcileSpec => NamesLeaveOnlyWhenTold
<1>1. LoopInv /\ [ReconcileNext]_allvars =>
        [\A k \in Keys, r \in Resources : Loses(k, r) =>
           \E c \in Calls :
             \/ pc[c] = "idle" /\ pc'[c] # "idle"
             \/ pc[c] = "deleting" /\ key[c] = k /\ r \in pending[c] \ pending'[c]]_vars
  <2> SUFFICES ASSUME LoopInv, [ReconcileNext]_allvars, vars' # vars,
                      NEW k \in Keys, NEW r \in Resources, Loses(k, r)
               PROVE  \E c \in Calls :
                        \/ pc[c] = "idle" /\ pc'[c] # "idle"
                        \/ /\ pc[c] = "deleting" /\ key[c] = k
                           /\ r \in pending[c] \ pending'[c]
    OBVIOUS
  <2>1. ~Disaster
    BY UnchangedLosesNothing DEF Disaster
  <2> QED
    BY <2>1, LoopMoves, MoveLosesWhenTold
<1> QED
  BY <1>1, LoopInvariant, PTL DEF ReconcileSpec, NamesLeaveOnlyWhenTold

LEMMA LoopAnswers ==
  ASSUME LoopInv, [ReconcileNext]_allvars, NEW c \in Calls, Answers(c)
  PROVE  ResponseInv /\ Moves(c)
<1>1. ResponseInv /\ TypeOK
  BY DEF LoopInv, FunctionInv, ResponseInv, Inv, ReconcileTypeOK
<1>2. ~Disaster
  BY <1>1, DisasterEndsCalls DEF LoopInv, Answers
<1>3. ~UNCHANGED vars
  BY DEF vars, Answers, Running
<1> QED
  BY <1>1, <1>2, <1>3, LoopMoves, OneAnswers DEF Moves

\* In the loop, too, the response says only of stored names that they are
\* stored, keeps what makes a failed deletion come again, and gives names in
\* the order found, rendered, stored (fn.go:914-930, 1042-1155, 1298-1304).
THEOREM LoopAnswersTruly ==
  ASSUME TemplatesArePlain
  PROVE  ReconcileSpec => TrackingIsBacked /\ FailedDeleteIsRetried /\ RestoresStoredName
<1>1. LoopInv /\ [ReconcileNext]_allvars =>
        [\A c \in Calls, r \in Resources : Answers(c) =>
           /\ desired'[c][r].storedExt \in
                {None, observed[c][r].storedExt, store'[key[c]][r].ext}
           /\ desired'[c][r].storedName \in
                {None, observed[c][r].storedName, store'[key[c]][r].name}]_vars
  BY LoopAnswers, AnswerIsBacked DEF Moves
<1>2. LoopInv /\ [ReconcileNext]_allvars =>
        [\A c \in Calls, r \in Resources :
           (Answers(c) /\ desired[c][r].deleted
              /\ ~ShouldProcess(desired[c][r], mode[c].scope)) =>
             \/ store'[key[c]][r].ext = None
             \/ desired'[c][r].storedExt # None]_vars
  BY LoopAnswers, AnswerRetries DEF Moves, ResponseInv, Inv
<1>3. LoopInv /\ [ReconcileNext]_allvars =>
        [\A c \in Calls, r \in Resources : Answers(c) /\ desired[c][r].present =>
           /\ Chosen(observed[c][r].ext, desired[c][r].ext,
                     store[key[c]][r].ext, desired'[c][r].ext)
           /\ desired[c][r].name = None =>
                desired'[c][r].name \in {None, store[key[c]][r].name}
           /\ desired[c][r].name # None => UNCHANGED desired[c][r].name]_vars
  BY LoopAnswers, AnswerRestores DEF Moves
<1> QED
  BY <1>1, <1>2, <1>3, LoopInvariant, PTL
     DEF ReconcileSpec, TrackingIsBacked, FailedDeleteIsRetried, RestoresStoredName
---------------------------------------------------------------------------
(* The function agrees with itself: where a reconcile has nothing to do it  *)
(* writes nothing, and what it makes of the objects gives the next one      *)
(* nothing to do.                                                           *)

\* What a composite with nothing to do is given back for a resource: its
\* object as it was, with what is rendered for it.
LEMMA AppliedAgain ==
  ASSUME NEW t \in Object, NEW o \in Object, NEW data, NEW scope, NEW generated,
         t.storedExt = None, t.storedName = None, t.present,
         NothingToDo(t, o, data, scope)
  PROVE  LET a == AppliedObject(o, MergeObserved(t, o), generated)
         IN  /\ a.present = o.present /\ a.spec = t.spec /\ a.name = o.name
             /\ a.ext = o.ext /\ a.storedExt = o.storedExt /\ a.storedName = o.storedName
<1> DEFINE q == MergeObserved(t, o)
           a == AppliedObject(o, q, generated)
<1>1. o.present /\ (t.ext # None => o.ext # None)
  BY DEF NothingToDo
<1>2. /\ q \in Object /\ q.present = t.present /\ q.spec = t.spec
      /\ q.ext = Prefer(o.ext, t.ext)
      /\ q.storedExt = Prefer(o.storedExt, t.storedExt)
      /\ q.storedName = Prefer(o.storedName, t.storedName)
  BY MergeObservedType DEF MergeObserved, Object
<1>3. q.ext = o.ext /\ q.storedExt = o.storedExt /\ q.storedName = o.storedName
  BY <1>1, <1>2 DEF Prefer
<1> HIDE DEF q
<1>4. a = [q EXCEPT !.name = o.name, !.ext = Prefer(@, o.ext)]
  BY <1>1, <1>2 DEF AppliedObject
<1>5. /\ a.present = q.present /\ a.spec = q.spec /\ a.name = o.name
      /\ a.ext = Prefer(q.ext, o.ext)
      /\ a.storedExt = q.storedExt /\ a.storedName = q.storedName
  BY <1>2, <1>4 DEF Object
<1>6. Prefer(q.ext, o.ext) = o.ext
  BY <1>3 DEF Prefer
<1>7. a.present = o.present
  BY <1>1, <1>2, <1>5
<1> QED
  BY <1>2, <1>3, <1>5, <1>6, <1>7 DEF q

\* An object that differs from another in nothing but having the rendered
\* policies has nothing to be done for it either.
LEMMA NothingLeft ==
  ASSUME NEW t, NEW o, NEW a, NEW data, NEW scope, NothingToDo(t, o, data, scope),
         a.present = o.present, a.spec = t.spec, a.name = o.name, a.ext = o.ext,
         a.storedExt = o.storedExt, a.storedName = o.storedName
  PROVE  NothingToDo(t, a, data, scope)
<1>1. ShouldDelete(t, a) => ShouldDelete(t, o)
  BY DEF ShouldDelete, DeletionCriteria
<1>2. Discards(t, a) => Discards(t, o)
  BY <1>1 DEF Discards
<1>3. NewData(a, ShouldProcess(t, scope)) = NewData(o, ShouldProcess(t, scope))
  BY DEF NewData
<1>4. Restored(t, a, data) = Restored(t, o, data)
  BY DEF Restored
<1> QED
  BY <1>2, <1>3, <1>4 DEF NothingToDo

\* The objects of a composite with nothing to do, and what is rendered.
LEMMA SettledObjects ==
  ASSUME LoopInv, NEW c \in Calls, Settled(c), NEW r \in Resources
  PROVE  /\ template[c][r] \in Object /\ objects[c][r] \in Object
         /\ store[KeyOf[c]][r] \in Data
         /\ NothingToDo(template[c][r], objects[c][r], store[KeyOf[c]][r], drive[c].scope)
<1>1. ReconcileTypeOK /\ TypeOK
  BY DEF LoopInv, ReconcileTypeOK
<1> QED
  BY <1>1, TemplateType DEF Settled, UpToDate, Objects, TypeOK, Composition

\* What does not touch the composite.
LEMMA SettledFrame ==
  ASSUME NEW c \in Calls, Settled(c),
         pc'[c] = pc[c], mode'[c] = mode[c], desired'[c] = desired[c],
         observed'[c] = observed[c], loaded'[c] = loaded[c], pending'[c] = pending[c],
         store'[KeyOf[c]] = store[KeyOf[c]], objects'[c] = objects[c],
         UNCHANGED <<drive[c], template[c]>>
  PROVE  Settled(c)'
BY DEF Settled, Sees, BacksUp, UpToDate, ObjectsToBe, Running

\* Its call ends without a response, or begins.
LEMMA SettledObjectsStay ==
  ASSUME NEW c \in Calls, Settled(c), pc'[c] # "done",
         store'[KeyOf[c]] = store[KeyOf[c]], objects'[c] = objects[c],
         UNCHANGED <<drive[c], template[c]>>
  PROVE  (BacksUp(c) /\ UpToDate(c, objects[c]) /\ UpToDate(c, ObjectsToBe(c)))'
BY DEF Settled, BacksUp, UpToDate, ObjectsToBe

LEMMA SettledBegins ==
  ASSUME LoopInv, NEW c \in Calls, Settled(c), Begin(c)
  PROVE  Settled(c)' /\ store' = store
<1> DEFINE k == KeyOf[c]
           rq == RequestOf(c)
<1>1. TypeOK
  BY DEF LoopInv, ReconcileTypeOK
<1>2. /\ rq.enabled /\ ~rq.purge /\ ~rq.restoreOnly /\ rq.scope = drive[c].scope
      /\ rq.desired = template[c] /\ rq.observed = objects[c]
  BY DEF Settled, BacksUp, RequestOf
<1>3. UNCHANGED <<drive[c], template[c]>> /\ objects'[c] = objects[c]
  BY DEF Begin, cluster
<1>4. ToDelete(rq) = {}
  BY <1>2, SettledObjects DEF ToDelete, NothingToDo, Discards
<1> HIDE DEF k, rq
<1>5. CASE Load(c, k, rq)
  <2>1. /\ pc' = [pc EXCEPT ![c] = "deleting"] /\ UNCHANGED store
        /\ mode' = [mode EXCEPT ![c] = [restoreOnly |-> rq.restoreOnly, scope |-> rq.scope]]
        /\ desired' = [desired EXCEPT ![c] = rq.desired]
        /\ observed' = [observed EXCEPT ![c] = rq.observed]
        /\ loaded' = [loaded EXCEPT ![c] = store[k]]
        /\ pending' = [pending EXCEPT ![c] = ToDelete(rq)]
        /\ rq.restoreOnly \in BOOLEAN
    <3>1. rq.restoreOnly \in BOOLEAN
      BY ReconcileAssumption DEF rq, RequestOf, LoopInv, ReconcileTypeOK
    <3> QED
      BY <1>2, <1>5, <3>1 DEF Load, LoadFound
  <2>2. /\ pc'[c] = "deleting" /\ pending'[c] = {} /\ desired'[c] = template[c]
        /\ observed'[c] = objects[c] /\ loaded'[c] = store[k]
        /\ mode'[c] = [restoreOnly |-> FALSE, scope |-> drive[c].scope]
    BY <1>1, <1>2, <1>4, <2>1 DEF TypeOK
  <2>3. (BacksUp(c) /\ UpToDate(c, objects[c]) /\ UpToDate(c, ObjectsToBe(c)))'
    BY <1>3, <2>1, <2>2, SettledObjectsStay
  <2> QED
    BY <1>3, <2>1, <2>2, <2>3 DEF Settled, Sees, k
<1>6. CASE LoadFails(c, k, rq)
  <2>1. pc'[c] = "fatal" /\ store' = store /\ ~Running(c)'
    BY <1>1, <1>6 DEF LoadFails, Fail, Leave, TypeOK, Running
  <2> QED
    BY <1>3, <2>1, SettledObjectsStay DEF Settled
<1>7. ~Skip(c, rq) /\ ~PurgeComposition(c, k, rq)
  BY <1>2 DEF Skip, PurgeComposition
<1> QED
  BY <1>5, <1>6, <1>7 DEF Begin, k, rq

\* A call with nothing to do finds nothing to save, and its restoration and
\* its response leave what is rendered as it is.
LEMMA SettledAnswer ==
  ASSUME LoopInv, NEW c \in Calls, Settled(c), Running(c)
  PROVE  /\ NewResourceData(c) = EmptyComposition
         /\ \A r \in Resources :
              Response(c, EmptyComposition)[r] =
                IF template[c][r].present THEN MergeObserved(template[c][r], objects[c][r])
                ELSE template[c][r]
<1>1. /\ mode[c].scope = drive[c].scope /\ ~mode[c].restoreOnly
      /\ desired[c] = template[c] /\ observed[c] = objects[c]
      /\ loaded[c] = store[KeyOf[c]]
  BY DEF Settled, Sees
<1>2. ASSUME NEW r \in Resources PROVE NewResourceData(c)[r] = NoData
  BY <1>1, SettledObjects DEF NewResourceData, NothingToDo
<1>3. ASSUME NEW r \in Resources
      PROVE  Response(c, EmptyComposition)[r] =
               IF template[c][r].present THEN MergeObserved(template[c][r], objects[c][r])
               ELSE template[c][r]
  <2>1. RestorePass(c)[r] = template[c][r]
    BY <1>1, SettledObjects DEF RestorePass, NothingToDo
  <2>2. Tracked(template[c][r], NoData) = template[c][r]
    BY SettledObjects DEF Tracked, NoData, Prefer, Object
  <2> QED
    BY <1>1, <2>1, <2>2 DEF Response, EmptyComposition
<1> QED
  BY <1>2, <1>3 DEF NewResourceData, EmptyComposition

LEMMA SettledWorks ==
  ASSUME TemplatesArePlain, LoopInv, NEW c \in Calls, Settled(c), Work(c)
  PROVE  Settled(c)' /\ store'[KeyOf[c]] = store[KeyOf[c]]
<1>1. /\ ReconcileTypeOK /\ TypeOK /\ KeyOf[c] \in Keys
      /\ UNCHANGED <<drive[c], template[c]>> /\ objects'[c] = objects[c]
  BY TemplateType DEF LoopInv, ReconcileTypeOK, Work, cluster
<1>2. Running(c)
  BY DEF Work, Continue, DeleteOne, PurgeEmpty, RestoreFails, RespondUnsaved,
     SaveAndRespond, PastDeletes, Running
<1>3. /\ key[c] = KeyOf[c] /\ loaded[c] = store[KeyOf[c]] /\ pending[c] = {}
      /\ ~mode[c].restoreOnly
  BY <1>2 DEF LoopInv, FunctionInv, AtOwnKey, Settled, Sees
<1>4. SavesNothing(c)
  BY <1>2, SettledAnswer DEF SavesNothing
<1>5. CASE PurgeEmpty(c)
  <2>1. store'[KeyOf[c]] = store[KeyOf[c]]
    BY <1>1, <1>3, <1>5 DEF PurgeEmpty, IsEmpty, After, Purge, TypeOK
  <2>2. pc'[c] = "purged" /\ UNCHANGED <<local, desired>>
    BY <1>1, <1>5 DEF PurgeEmpty, TypeOK
  <2>3. (BacksUp(c) /\ UpToDate(c, objects[c]) /\ UpToDate(c, ObjectsToBe(c)))'
    BY <1>1, <2>1, <2>2, SettledObjectsStay
  <2> QED
    BY <1>1, <1>2, <2>1, <2>2, <2>3 DEF Settled, Sees, local
<1>6. CASE RespondUnsaved(c)
  <2>1. pc'[c] = "done" /\ desired'[c] = Response(c, EmptyComposition) /\ store' = store
    BY <1>1, <1>6 DEF RespondUnsaved, Respond, Leave, TypeOK
  <2>2. ASSUME NEW r \in Resources
        PROVE  NothingToDo(template[c][r],
                 AppliedObject(objects[c][r], desired'[c][r], None),
                 store[KeyOf[c]][r], drive[c].scope)
    <3> DEFINE t == template[c][r]
               o == objects[c][r]
               data == store[KeyOf[c]][r]
               a == AppliedObject(o, desired'[c][r], None)
    <3>1. t \in Object /\ o \in Object /\ NothingToDo(t, o, data, drive[c].scope)
      BY SettledObjects
    <3>2. desired'[c][r] = IF t.present THEN MergeObserved(t, o) ELSE t
      BY <1>2, <2>1, SettledAnswer
    <3>3. t.storedExt = None /\ t.storedName = None
      BY <1>1, PlainTemplate
    <3> HIDE DEF t, o, data
    <3>4. CASE t.present
      <4>1. a = AppliedObject(o, MergeObserved(t, o), None)
        BY <3>2, <3>4
      <4>2. /\ a.present = o.present /\ a.spec = t.spec /\ a.name = o.name
            /\ a.ext = o.ext /\ a.storedExt = o.storedExt /\ a.storedName = o.storedName
        BY <3>1, <3>3, <3>4, <4>1, AppliedAgain
      <4> HIDE DEF a
      <4>3. NothingToDo(t, a, data, drive[c].scope)
        BY <3>1, <4>2, NothingLeft
      <4> QED
        BY <4>3 DEF a, t, o, data
    <3>5. CASE ~t.present
      <4>1. a = NoObject
        BY <3>2, <3>5 DEF AppliedObject
      <4>2. t.present = NoObject.present
        BY <3>1, <3>5 DEF Object, NoObject
      <4>3. NothingToDo(t, a, data, drive[c].scope)
        BY <3>5, <4>1, <4>2 DEF NothingToDo
      <4> QED
        BY <4>3 DEF a, t, o, data
    <3> QED
      BY <3>4, <3>5
  <2>3. ~Running(c)'
    BY <2>1 DEF Running
  <2> QED
    BY <1>1, <2>1, <2>2, <2>3 DEF Settled, BacksUp, UpToDate, ObjectsToBe
<1>7. ~RestoreFails(c) /\ ~SaveAndRespond(c) /\ \A r \in Resources : ~DeleteOne(c, r)
  BY <1>3, <1>4 DEF RestoreFails, RestoreIncomplete, SaveAndRespond, DeleteOne
<1> QED
  BY <1>5, <1>6, <1>7 DEF Work, Continue

LEMMA SettledApplies ==
  ASSUME LoopInv, NEW c \in Calls, Settled(c), Apply(c)
  PROVE  Settled(c)' /\ store' = store
<1>1. /\ ReconcileTypeOK /\ TypeOK /\ UNCHANGED <<drive[c], template[c]>>
      /\ pc[c] = "done" /\ pc'[c] = "idle" /\ store' = store
  BY ApplyFrame DEF LoopInv, ReconcileTypeOK, Apply
<1>2. PICK generated \in [Resources -> ObjNames] :
        objects' = [objects EXCEPT ![c] =
          [r \in Resources |->
             AppliedObject(objects[c][r], desired[c][r], generated[r])]]
  BY DEF Apply
<1>3. ASSUME NEW r \in Resources
      PROVE  objects'[c][r] = AppliedObject(objects[c][r], desired[c][r], None)
  <2> DEFINE d == desired[c][r]
             o == objects[c][r]
  <2>1. objects'[c][r] = AppliedObject(o, d, generated[r])
    BY <1>1, <1>2 DEF ReconcileTypeOK
  <2>2. d \in Object /\ o \in Object
    BY <1>1 DEF ReconcileTypeOK, TypeOK, Objects
  <2>3. AppliedObject(o, d, None).present = o.present
    BY <1>1 DEF Settled, UpToDate, ObjectsToBe, NothingToDo
  <2> HIDE DEF d, o
  <2>4. AppliedObject(o, d, None).present = d.present
    <3>1. CASE d.present
      <4>1. AppliedObject(o, d, None) =
              [d EXCEPT !.name = IF o.present THEN o.name ELSE Prefer(@, None),
                        !.ext = Prefer(@, o.ext)]
        BY <3>1 DEF AppliedObject
      <4> QED
        BY <2>2, <4>1 DEF Object
    <3>2. CASE ~d.present
      BY <2>2, <3>2 DEF AppliedObject, NoObject, Object
    <3> QED
      BY <3>1, <3>2
  <2>5. AppliedObject(o, d, generated[r]) = AppliedObject(o, d, None)
    BY <2>3, <2>4 DEF AppliedObject
  <2> QED
    BY <2>1, <2>5 DEF d, o
<1>4. UpToDate(c, objects[c])'
  BY <1>1, <1>3 DEF Settled, UpToDate, ObjectsToBe
<1> QED
  BY <1>1, <1>4 DEF Settled, BacksUp, ObjectsToBe, Running

LEMMA SettledStep ==
  ASSUME TemplatesArePlain, LoopInv, [ReconcileNext]_allvars, NEW c \in Calls,
         Settled(c), LeftAlone(c)
  PROVE  Settled(c)' /\ UNCHANGED store[KeyOf[c]]
<1>1. ReconcileTypeOK /\ TypeOK /\ spent \in Spendable /\ pc[c] \in PC
  BY DEF LoopInv, ReconcileTypeOK, TypeOK, Spendable
<1>2. ASSUME UNCHANGED vars PROVE Settled(c)' /\ UNCHANGED store[KeyOf[c]]
  <2>1. ~Apply(c)
    BY <1>1, <1>2, ApplyFrame DEF vars
  <2>2. UNCHANGED <<drive[c], template[c]>> /\ objects'[c] = objects[c]
    BY <2>1 DEF LeftAlone
  <2> QED
    BY <1>2, <2>2, SettledFrame DEF vars, local
<1>3. ~Disaster
  <2>1. ASSUME Disaster PROVE spent'.disasters = spent.disasters + 1
    BY <1>1, <2>1 DEF Disaster, Spendable
  <2>2. spent.disasters \in Nat
    BY <1>1, ReconcileAssumption DEF Spendable
  <2> QED
    BY <2>1, <2>2 DEF LeftAlone
<1>4. ASSUME NEW d \in Calls, d # c, Reconciles(d) \/ Drop(d)
      PROVE  Settled(c)' /\ UNCHANGED store[KeyOf[c]]
  <2>1. Moves(d) /\ UNCHANGED <<drive, template>>
    BY <1>4, ReconcilesMoves
  <2>2. /\ pc'[c] = pc[c] /\ mode'[c] = mode[c] /\ desired'[c] = desired[c]
        /\ observed'[c] = observed[c] /\ loaded'[c] = loaded[c]
        /\ pending'[c] = pending[c]
    BY <1>1, <1>4, <2>1, StepFrame DEF Moves
  <2>3. store'[KeyOf[c]] = store[KeyOf[c]]
    BY <1>4, <2>1, MovesStore
  <2>4. objects'[c] = objects[c]
    BY <1>1, <1>4, ReconcilesMoves, ApplyFrame
  <2> QED
    BY <2>1, <2>2, <2>3, <2>4, SettledFrame
<1>5. CASE Begin(c)
  BY <1>5, SettledBegins
<1>6. CASE Work(c)
  BY <1>6, SettledWorks
<1>7. CASE Apply(c)
  BY <1>7, SettledApplies
<1>8. CASE GiveUp(c) \/ Drop(c)
  <2>1. pc'[c] = "idle" /\ store' = store /\ ~Running(c)'
    BY <1>1, <1>8 DEF GiveUp, Drop, Return, Abandon, Leave, TypeOK, Running
  <2>2. UNCHANGED <<drive[c], template[c]>> /\ objects'[c] = objects[c]
    BY <1>8 DEF GiveUp, Drop, cluster
  <2>3. (BacksUp(c) /\ UpToDate(c, objects[c]) /\ UpToDate(c, ObjectsToBe(c)))'
    BY <2>1, <2>2, SettledObjectsStay
  <2> QED
    BY <2>1, <2>3 DEF Settled
<1>9. ASSUME NEW d \in Calls, NEW r \in Resources,
             Compose(d, r) \/ ProviderCreates(d, r) \/ Rename(d, r)
      PROVE  Settled(c)' /\ UNCHANGED store[KeyOf[c]]
  BY <1>2, <1>9 DEF Compose, ProviderCreates, Rename
<1>10. ASSUME NEW d \in Calls, Annotate(d)
       PROVE  Settled(c)' /\ UNCHANGED store[KeyOf[c]]
  BY <1>2, <1>10 DEF Annotate
<1>11. CASE UNCHANGED allvars
  BY <1>2, <1>11 DEF allvars
<1> QED
  BY <1>3, <1>4, <1>5, <1>6, <1>7, <1>8, <1>9, <1>10, <1>11 DEF ReconcileNext, Reconciles

\* A composite with nothing to do stays so, and its entry as it is, until
\* somebody changes it, its composition or its objects: reconciling it again
\* and again writes nothing, whatever is lost (fn.go:912-1304).
THEOREM NothingIsDoneTwice ==
  ASSUME TemplatesArePlain PROVE ReconcileSpec => SettledStays
<1>1. LoopInv /\ [ReconcileNext]_allvars => LoopInv'
  BY LoopInvStep
<1>2. LoopInv /\ [ReconcileNext]_allvars =>
        [\A c \in Calls : Settled(c) /\ LeftAlone(c) =>
           Settled(c)' /\ UNCHANGED store[KeyOf[c]]]_allvars
  BY SettledStep
<1> QED
  BY <1>1, <1>2, LoopInvInit, PTL DEF ReconcileSpec, SettledStays
---------------------------------------------------------------------------
(* One answer is enough.                                                    *)

\* What the answer of a call that sees a whole composite makes of a resource.
LEMMA AnswerOfWhole ==
  ASSUME TemplatesArePlain, LoopInv, NEW c \in Calls, Moves(c), Answers(c), Sees(c),
         Whole(c), NEW r \in Resources, template[c][r].present
  PROVE  LET t == template[c][r]
             o == objects[c][r]
             had == store[KeyOf[c]][r]
             new == NewData(o, ShouldProcess(t, drive[c].scope))
             q == desired'[c][r]
             ext == IF /\ ShouldProcess(t, drive[c].scope)
                       /\ o.ext = None /\ t.ext = None
                    THEN had.ext ELSE None
         IN  /\ q \in Object /\ q.present /\ q.spec = t.spec
             /\ q.ext = Prefer(o.ext, Prefer(ext, t.ext))
             /\ q.storedExt = Prefer(o.storedExt, Prefer(new.ext, ext))
             /\ q.storedName = Prefer(o.storedName, new.name)
             /\ store'[KeyOf[c]][r] = MergeData(had, new)
<1> DEFINE t == template[c][r]
           o == objects[c][r]
           had == store[KeyOf[c]][r]
           new == NewData(o, ShouldProcess(t, drive[c].scope))
           q == desired'[c][r]
           p == RestorePass(c)[r]
           ext == IF /\ ShouldProcess(t, drive[c].scope)
                     /\ o.ext = None /\ t.ext = None
                  THEN had.ext ELSE None
<1>1. /\ ReconcileTypeOK /\ TypeOK /\ Running(c) /\ key[c] = KeyOf[c] /\ ObjectsSound(c)
  BY DEF LoopInv, ReconcileTypeOK, FunctionInv, AtOwnKey, Answers
<1>2. /\ mode[c].scope = drive[c].scope /\ ~mode[c].restoreOnly
      /\ desired[c] = template[c] /\ observed[c] = objects[c]
      /\ loaded[c] = store[KeyOf[c]]
  BY DEF Sees
<1>3. /\ t \in Object /\ o \in Object /\ had \in Data
      /\ t.storedExt = None /\ t.storedName = None
  BY <1>1, TemplateType, PlainTemplate DEF Objects, TypeOK, Composition
<1>4. o.present /\ o.name # None
  BY <1>1 DEF Whole, ObjectsSound
<1>5. desired'[c] = Response(c, StoredBy(c)) /\ StoredBy(c) \in Composition
  BY <1>1, AnswerStep DEF Moves
<1>6. StoredBy(c)[r] = new
  <2>1. NewResourceData(c)[r] = new
    BY <1>2, <1>4 DEF NewResourceData
  <2>2. SavesNothing(c) => new = NoData
    BY <1>2, <2>1 DEF SavesNothing, EmptyComposition
  <2> QED
    BY <2>1, <2>2 DEF StoredBy, EmptyComposition
<1>7. new \in Data
  BY <1>5, <1>6 DEF Composition
<1>8. store'[KeyOf[c]][r] = MergeData(had, new)
  <2>1. CASE SavesNothing(c)
    <3>1. store' = store
      BY <1>1, <2>1, AnswerStep DEF Moves
    <3>2. new = NoData
      BY <1>6, <2>1 DEF StoredBy, EmptyComposition
    <3>3. MergeData(had, NoData) = had
      <4> HIDE DEF had
      <4> QED
        BY <1>3 DEF MergeData, NoData, Prefer, Data
    <3> QED
      BY <3>1, <3>2, <3>3
  <2>2. CASE ~SavesNothing(c)
    <3>1. store'[KeyOf[c]] = AllResourceData(c)
      BY <1>1, <2>2, AnswerStep DEF Moves
    <3>2. NewResourceData(c)[r] = new
      BY <1>6, <2>2 DEF StoredBy
    <3> QED
      BY <1>2, <3>1, <3>2 DEF AllResourceData
  <2> QED
    BY <2>1, <2>2
<1>9. p = IF ShouldProcess(t, drive[c].scope) THEN Restored(t, o, had) ELSE t
  BY <1>2 DEF RestorePass
<1>10. q = IF p.present THEN MergeObserved(Tracked(p, new), o) ELSE p
  BY <1>2, <1>5, <1>6 DEF Response
<1> HIDE DEF t, o, had, new, q, p
<1>11. /\ p \in Object /\ p.present /\ p.spec = t.spec
       /\ p.ext = Prefer(ext, t.ext) /\ p.storedExt = ext /\ p.storedName = None
  <2>1. t.present
    BY DEF t
  <2>2. CASE ~ShouldProcess(t, drive[c].scope)
    BY <1>3, <1>9, <2>1, <2>2 DEF Prefer
  <2>3. CASE ShouldProcess(t, drive[c].scope)
    <3>1. p = [t EXCEPT !.name = Prefer(None, @), !.storedName = Prefer(None, @),
                        !.ext = Prefer(ext, @), !.storedExt = Prefer(ext, @)]
      BY <1>4, <1>9, <2>3 DEF Restored, Prefer
    <3>2. ext \in ExtName
      BY <1>3 DEF Data, ExtName
    <3> QED
      BY <1>3, <2>1, <3>1, <3>2 DEF Prefer, Object, ExtName, ObjName
  <2> QED
    BY <2>2, <2>3
<1>12. /\ q \in Object /\ q.present /\ q.spec = t.spec
       /\ q.ext = Prefer(o.ext, p.ext)
       /\ q.storedExt = Prefer(o.storedExt, Prefer(new.ext, p.storedExt))
       /\ q.storedName = Prefer(o.storedName, Prefer(new.name, p.storedName))
  <2> DEFINE w == Tracked(p, new)
  <2>1. /\ w \in Object /\ w.present /\ w.spec = p.spec /\ w.ext = p.ext
        /\ w.storedExt = Prefer(new.ext, p.storedExt)
        /\ w.storedName = Prefer(new.name, p.storedName)
    BY <1>7, <1>11, TrackedType DEF Tracked, Object
  <2> HIDE DEF w
  <2>2. q = MergeObserved(w, o)
    BY <1>10, <1>11 DEF w
  <2>3. q \in Object
    BY <1>3, <2>1, <2>2, MergeObservedType
  <2> QED
    BY <1>3, <1>11, <2>1, <2>2, <2>3 DEF MergeObserved, Object
<1>13. Prefer(new.name, p.storedName) = new.name
  BY <1>11 DEF Prefer
<1> QED
  BY <1>8, <1>11, <1>12, <1>13 DEF t, o, had, new, q

LEMMA AnswerSettles ==
  ASSUME TemplatesArePlain, LoopInv, NEW c \in Calls, Moves(c), Answers(c), Sees(c),
         Whole(c), NEW r \in Resources
  PROVE  NothingToDo(template[c][r], AppliedObject(objects[c][r], desired'[c][r], None),
                     store'[KeyOf[c]][r], drive[c].scope)
<1> DEFINE t == template[c][r]
           o == objects[c][r]
           had == store[KeyOf[c]][r]
           new == NewData(o, ShouldProcess(t, drive[c].scope))
           q == desired'[c][r]
           a == AppliedObject(o, q, None)
           has == store'[KeyOf[c]][r]
           scope == drive[c].scope
           ext == IF ShouldProcess(t, scope) /\ o.ext = None /\ t.ext = None
                  THEN had.ext ELSE None
<1>1. ReconcileTypeOK /\ TypeOK /\ ObjectsSound(c)
  BY DEF LoopInv, ReconcileTypeOK
<1>2. /\ t \in Object /\ o \in Object /\ had \in Data
  BY <1>1, TemplateType DEF Objects, TypeOK, Composition
<1>3. CASE t.present
  <2>1. /\ q \in Object /\ q.present /\ q.spec = t.spec
        /\ q.ext = Prefer(o.ext, Prefer(ext, t.ext))
        /\ q.storedExt = Prefer(o.storedExt, Prefer(new.ext, ext))
        /\ q.storedName = Prefer(o.storedName, new.name)
        /\ has = MergeData(had, new)
    BY <1>1, <1>3, AnswerOfWhole
  <2>2. /\ o.present /\ ~Discards(t, o) /\ (t.ext # None => o.ext # None)
        /\ ShouldProcess(t, scope) => ~ShouldDelete(t, o)
        /\ o.storedExt \in {None, o.ext} /\ o.storedName \in {None, o.name}
    BY <1>3 DEF Whole
  <2>3. o.name # None
    BY <1>1, <2>2 DEF ObjectsSound
  <2>4. /\ new.ext = IF ShouldProcess(t, scope) /\ o.storedExt # o.ext THEN o.ext ELSE None
        /\ new.name = IF o.storedName # o.name THEN o.name ELSE None
    BY DEF NewData
  <2>5. has.ext = Prefer(new.ext, had.ext)
    BY <2>1 DEF MergeData
  <2>6. t.storedExt = None
    BY <1>1, PlainTemplate
  <2> HIDE DEF t, o, had, new, q, has, scope
  <2>7. /\ a.present /\ a.spec = t.spec /\ a.name = o.name
        /\ a.ext = Prefer(q.ext, o.ext)
        /\ a.storedExt = q.storedExt /\ a.storedName = q.storedName
    <3>1. a = [q EXCEPT !.name = o.name, !.ext = Prefer(@, o.ext)]
      BY <2>1, <2>2 DEF AppliedObject
    <3> QED
      BY <2>1, <3>1 DEF Object
  <2> HIDE DEF a
  <2>8. a.storedName = a.name
    BY <2>1, <2>2, <2>3, <2>4, <2>7 DEF Prefer
  <2>9. a.ext = Prefer(o.ext, ext)
    BY <2>1, <2>2, <2>7 DEF Prefer
  <2>10. CASE ShouldProcess(t, scope)
    <3>1. a.storedExt = a.ext
      BY <2>1, <2>2, <2>4, <2>7, <2>9, <2>10 DEF Prefer
    <3>2. NewData(a, ShouldProcess(t, scope)) = NoData
      BY <2>8, <3>1 DEF NewData, NoData
    <3>3. ~ShouldDelete(t, a)
      BY <2>2, <2>7, <2>10 DEF ShouldDelete, DeletionCriteria
    <3>4. Restored(t, a, has) = t
      <4>1. Prefer(t.ext, a.ext) = None => has.ext = None
        BY <2>4, <2>5, <2>9, <2>10 DEF Prefer
      <4>2. Prefer(t.name, a.name) # None
        BY <2>3, <2>7 DEF Prefer
      <4>3. Restored(t, a, has) =
              [t EXCEPT !.name = Prefer(None, @), !.storedName = Prefer(None, @),
                        !.ext = Prefer(None, @), !.storedExt = Prefer(None, @)]
        BY <4>1, <4>2 DEF Restored
      <4>4. Restored(t, a, has) =
              [t EXCEPT !.name = t.name, !.storedName = t.storedName,
                        !.ext = t.ext, !.storedExt = t.storedExt]
        BY <4>3 DEF Prefer
      <4>5. t \in Object
        BY <1>2
      <4> QED
        BY <4>4, <4>5 DEF Object
    <3> QED
      BY <1>3, <2>2, <2>7, <2>9, <3>2, <3>3, <3>4 DEF NothingToDo, Discards, Prefer,
         t, o, has, q, scope, a
  <2>11. CASE ~ShouldProcess(t, scope)
    <3>1. a.storedExt = o.storedExt
      BY <2>1, <2>4, <2>7, <2>11 DEF Prefer
    <3>2. NewData(a, ShouldProcess(t, scope)) = NoData
      BY <2>8, <2>11 DEF NewData, NoData
    <3>3. ShouldDelete(t, a) => ShouldDelete(t, o)
      BY <2>7 DEF ShouldDelete, DeletionCriteria
    <3>4. ~Discards(t, a)
      BY <2>2, <3>1, <3>3 DEF Discards
    <3>5. t.ext # None => a.ext # None
      BY <2>2, <2>9 DEF Prefer
    <3>6. NothingToDo(t, a, has, scope)
      BY <1>3, <2>7, <2>11, <3>2, <3>4, <3>5 DEF NothingToDo, t
    <3> QED
      BY <3>6 DEF t, o, has, q, scope, a
  <2> QED
    BY <2>10, <2>11
<1>4. CASE ~t.present
  <2>1. q.present = t.present
    <3>1. desired[c][r] = t
      BY DEF Sees
    <3>2. desired'[c] = Response(c, StoredBy(c)) /\ StoredBy(c) \in Composition
      BY <1>1, AnswerStep DEF Moves
    <3> QED
      BY <1>1, <3>1, <3>2, ResponseFields
  <2>2. a = NoObject
    BY <1>4, <2>1 DEF AppliedObject
  <2>3. NoObject.present = t.present
    BY <1>2, <1>4 DEF Object, NoObject
  <2> QED
    BY <1>4, <2>2, <2>3 DEF NothingToDo
<1> QED
  BY <1>3, <1>4

\* An answer changes nothing around the function.
LEMMA AnswerFrame ==
  ASSUME LoopInv, [ReconcileNext]_allvars, NEW c \in Calls, Answers(c)
  PROVE  Moves(c) /\ pc'[c] = "done" /\ UNCHANGED <<drive, template>> /\ objects' = objects
<1>1. TypeOK /\ ReconcileTypeOK /\ pc[c] # "done" /\ pc'[c] = "done"
  BY DEF LoopInv, ReconcileTypeOK, Answers, Running
<1>2. ~Disaster /\ ~UNCHANGED vars
  BY <1>1, DisasterEndsCalls DEF vars
<1>3. PICK d \in Calls : Reconciles(d) \/ Drop(d)
  BY <1>2 DEF ReconcileNext, Annotate, ProviderCreates, Rename, Compose, allvars
<1>4. Moves(d) /\ UNCHANGED <<drive, template>> /\ (Apply(d) \/ objects' = objects)
  BY <1>3, ReconcilesMoves
<1>5. d = c
  BY <1>1, <1>4, StepFrame DEF Moves
<1>6. ~Apply(c)
  BY <1>1 DEF Apply
<1> QED
  BY <1>1, <1>4, <1>5, <1>6

\* Once the answer to a request about a whole composite is applied, there is
\* nothing left to do for it: one reconcile takes it to where the next ones
\* change nothing (fn.go:1042-1406).
THEOREM OneAnswerIsEnough ==
  ASSUME TemplatesArePlain PROVE ReconcileSpec => OneAnswerSettles
<1>1. LoopInv /\ [ReconcileNext]_allvars => LoopInv'
  BY LoopInvStep
<1>2. ASSUME LoopInv, [ReconcileNext]_allvars, NEW c \in Calls,
             Answers(c), Sees(c), Whole(c), BacksUp(c)
      PROVE  UpToDate(c, ObjectsToBe(c))'
  <2>1. Moves(c) /\ pc'[c] = "done" /\ UNCHANGED <<drive, template>> /\ objects' = objects
    BY <1>2, AnswerFrame
  <2> QED
    BY <1>2, <2>1, AnswerSettles DEF UpToDate, ObjectsToBe
<1>3. LoopInv /\ [ReconcileNext]_allvars =>
        [\A c \in Calls : Answers(c) /\ Sees(c) /\ Whole(c) /\ BacksUp(c) =>
           UpToDate(c, ObjectsToBe(c))']_allvars
  BY <1>2
<1> QED
  BY <1>1, <1>3, LoopInvInit, PTL DEF ReconcileSpec, OneAnswerSettles
===========================================================================
