------------------------ MODULE RunFunctionProofs ------------------------
(***************************************************************************)
(* What holds of RunFunction for every set of calls, keys, resources,      *)
(* names and requests and every number of faults.                          *)
(***************************************************************************)
EXTENDS RunFunction, TLAPS

---------------------------------------------------------------------------
(* The operations on one resource keep objects and data what they are. *)

LEMMA NoneIsAName == None \in ExtName /\ None \in ObjName /\ NoData \in Data
BY DEF ExtName, ObjName, NoData, Data

LEMMA EmptyCompositionType == EmptyComposition \in Composition
BY NoneIsAName DEF EmptyComposition, Composition

LEMMA NoObjectsType == NoObject \in Object /\ NoObjects \in Objects
BY NoneIsAName DEF NoObject, NoObjects, Object, Objects

LEMMA MarkDeletedType ==
  ASSUME NEW d \in Object PROVE MarkDeleted(d) \in Object
BY NoneIsAName DEF MarkDeleted, Object

LEMMA UntrackedType ==
  ASSUME NEW o \in Object PROVE Untracked(o) \in Object
BY NoneIsAName DEF Untracked, Object

LEMMA RestoredType ==
  ASSUME NEW d \in Object, NEW o \in Object, NEW data \in Data
  PROVE  Restored(d, o, data) \in Object
BY NoneIsAName DEF Restored, Prefer, Object, Data

LEMMA NewDataType ==
  ASSUME NEW o \in Object, NEW inScope \in BOOLEAN
  PROVE  NewData(o, inScope) \in Data
BY NoneIsAName DEF NewData, Object, Data

LEMMA MergeDataType ==
  ASSUME NEW old \in Data, NEW new \in Data
  PROVE  MergeData(old, new) \in Data
BY DEF MergeData, Prefer, Data

LEMMA TrackedType ==
  ASSUME NEW d \in Object, NEW new \in Data
  PROVE  Tracked(d, new) \in Object
BY DEF Tracked, Prefer, Object, Data

LEMMA MergeObservedType ==
  ASSUME NEW d \in Object, NEW o \in Object
  PROVE  MergeObserved(d, o) \in Object
BY DEF MergeObserved, Prefer, Object

\* Merging never loses a name that was there.
LEMMA MergeKeepsNames ==
  ASSUME NEW old \in Data, NEW new \in Data
  PROVE  /\ old.ext # None => MergeData(old, new).ext # None
         /\ old.name # None => MergeData(old, new).name # None
BY DEF MergeData, Prefer, Data

---------------------------------------------------------------------------
(* Type correctness *)

LEMMA DefaultsType == NoKey \in Keys /\ NoMode \in Mode
BY RunFunctionAssumption DEF NoKey, NoMode, Mode

LEMMA RequestType ==
  ASSUME NEW rq \in Request
  PROVE  /\ rq.enabled \in BOOLEAN /\ rq.purge \in BOOLEAN
         /\ rq.restoreOnly \in BOOLEAN /\ rq.scope \in Scopes
         /\ rq.desired \in Objects /\ rq.observed \in Objects
BY DEF Request

\* What a response and what a Save are made of.
LEMMA NewResourceDataType ==
  ASSUME TypeOK, NEW c \in Calls
  PROVE  NewResourceData(c) \in Composition
<1>1. ASSUME NEW r \in Resources
      PROVE  NewResourceData(c)[r] \in Data
  <2>1. observed[c][r] \in Object
    BY DEF TypeOK, Objects
  <2>2. ASSUME NEW s \in BOOLEAN PROVE NewData(observed[c][r], s) \in Data
    BY <2>1, NewDataType
  <2>3. ShouldProcess(IF desired[c][r].present THEN desired[c][r]
                      ELSE observed[c][r], mode[c].scope) \in BOOLEAN
    BY DEF ShouldProcess
  <2> QED
    BY <2>2, <2>3, NoneIsAName DEF NewResourceData
<1> QED
  BY <1>1 DEF NewResourceData, Composition

LEMMA AllResourceDataType ==
  ASSUME TypeOK, NEW c \in Calls
  PROVE  AllResourceData(c) \in Composition
<1>1. ASSUME NEW r \in Resources
      PROVE  MergeData(loaded[c][r], NewResourceData(c)[r]) \in Data
  BY NewResourceDataType, MergeDataType DEF TypeOK, Composition
<1> QED
  BY <1>1 DEF AllResourceData, Composition

LEMMA RestorePassType ==
  ASSUME TypeOK, NEW c \in Calls
  PROVE  RestorePass(c) \in Objects
<1>1. ASSUME NEW r \in Resources
      PROVE  /\ desired[c][r] \in Object
             /\ Restored(desired[c][r], observed[c][r], loaded[c][r]) \in Object
  BY RestoredType DEF TypeOK, Objects, Composition
<1> QED
  BY <1>1 DEF RestorePass, Objects

LEMMA ResponseType ==
  ASSUME TypeOK, NEW c \in Calls, NEW stored \in Composition
  PROVE  Response(c, stored) \in Objects
<1>1. ASSUME NEW r \in Resources
      PROVE  /\ RestorePass(c)[r] \in Object
             /\ MergeObserved(Tracked(RestorePass(c)[r], stored[r]),
                              observed[c][r]) \in Object
  <2>1. RestorePass(c)[r] \in Object
    BY RestorePassType DEF Objects
  <2>2. Tracked(RestorePass(c)[r], stored[r]) \in Object
    BY <2>1, TrackedType DEF Composition
  <2> QED
    BY <2>1, <2>2, MergeObservedType DEF TypeOK, Objects
<1> QED
  BY <1>1 DEF Response, Objects

\* How a call ends leaves its variables well typed.
LEMMA ForgetType ==
  ASSUME TypeOK, NEW c \in Calls, Forget(c)
  PROVE  /\ key' \in [Calls -> Keys] /\ mode' \in [Calls -> Mode]
         /\ observed' \in [Calls -> Objects] /\ loaded' \in [Calls -> Composition]
         /\ pending' \in [Calls -> SUBSET Resources]
BY DefaultsType, NoObjectsType, EmptyCompositionType DEF TypeOK, Forget

LEMMA LeaveType ==
  ASSUME TypeOK, NEW c \in Calls, NEW objects \in Objects, NEW place \in PC,
         Leave(c, place, objects)
  PROVE  /\ pc' \in [Calls -> PC] /\ desired' \in [Calls -> Objects]
         /\ Forget(c)
BY DEF TypeOK, Leave

LEMMA RespondType ==
  ASSUME TypeOK, NEW c \in Calls, NEW objects \in Objects, Respond(c, objects)
  PROVE  /\ pc' \in [Calls -> PC] /\ desired' \in [Calls -> Objects]
         /\ Forget(c)
BY LeaveType DEF Respond, PC

LEMMA FailType ==
  ASSUME TypeOK, NEW c \in Calls, Fail(c)
  PROVE  /\ pc' \in [Calls -> PC] /\ desired' \in [Calls -> Objects]
         /\ Forget(c)
BY LeaveType, NoObjectsType DEF Fail, PC

LEMMA EndsType ==
  ASSUME TypeOK, NEW outcome, Ends(outcome)
  PROVE  faults' \in 0..MaxFaults
BY RunFunctionAssumption DEF TypeOK, Ends

LEMMA StoreType ==
  ASSUME TypeOK, NEW k \in Keys, NEW r \in Resources, NEW data \in Composition
  PROVE  /\ Purge(store, k) \in [Keys -> Composition]
         /\ DeleteResource(store, k, r) \in [Keys -> Composition]
         /\ Save(store, k, data) \in [Keys -> Composition]
<1>1. [store[k] EXCEPT ![r] = NoData] \in Composition
  BY NoneIsAName DEF TypeOK, Composition
<1> QED
  BY <1>1, EmptyCompositionType DEF TypeOK, Purge, DeleteResource, Save

LEMMA AfterType ==
  ASSUME TypeOK, NEW outcome, NEW changed \in [Keys -> Composition]
  PROVE  After(outcome, changed) \in [Keys -> Composition]
BY DEF TypeOK, After

LEMMA InitType == Init => TypeOK
BY DefaultsType, NoObjectsType, EmptyCompositionType, RunFunctionAssumption
   DEF Init, TypeOK, PC

LEMMA StartType ==
  ASSUME TypeOK, NEW c \in Calls, NEW rq \in Request, NEW k \in Keys,
         NEW found \in Composition,
         \/ Skip(c, rq) \/ PurgeComposition(c, k, rq)
         \/ LoadFound(c, k, rq, found) \/ LoadFails(c, k, rq)
  PROVE  TypeOK'
<1>1. CASE Skip(c, rq)
  BY <1>1, RequestType, RespondType, ForgetType DEF Skip, Bypassed, TypeOK
<1>2. CASE PurgeComposition(c, k, rq)
  <2>1. PICK outcome \in Outcomes :
          /\ Ends(outcome)
          /\ store' = After(outcome, Purge(store, k))
          /\ IF outcome = "ok" THEN Respond(c, Bypassed(rq)) ELSE Fail(c)
    BY <1>2 DEF PurgeComposition
  <2>2. store' \in [Keys -> Composition]
    BY <2>1, EmptyCompositionType DEF TypeOK, After, Purge
  <2>3. /\ pc' \in [Calls -> PC] /\ desired' \in [Calls -> Objects]
        /\ Forget(c)
    BY <2>1, RequestType, RespondType, FailType DEF Bypassed
  <2> QED
    BY <2>1, <2>2, <2>3, ForgetType, EndsType DEF TypeOK
<1>3. CASE LoadFound(c, k, rq, found)
  <2>1. CASE rq.restoreOnly /\ found = EmptyComposition
    BY <1>3, <2>1, FailType, ForgetType DEF LoadFound, TypeOK
  <2>2. CASE ~(rq.restoreOnly /\ found = EmptyComposition)
    <3>1. [restoreOnly |-> rq.restoreOnly, scope |-> rq.scope] \in Mode
      BY RequestType DEF Mode
    <3>2. ToDelete(rq) \in SUBSET Resources
      BY DEF ToDelete
    <3>3. pc' \in [Calls -> PC]
      BY <1>3, <2>2 DEF LoadFound, TypeOK, PC
    <3> QED
      BY <1>3, <2>2, <3>1, <3>2, <3>3, RequestType DEF LoadFound, TypeOK
  <2> QED
    BY <2>1, <2>2
<1>4. CASE LoadFails(c, k, rq)
  <2>1. faults' \in 0..MaxFaults
    BY <1>4, RunFunctionAssumption DEF LoadFails, TypeOK
  <2> QED
    BY <1>4, <2>1, FailType, ForgetType DEF LoadFails, TypeOK
<1> QED
  BY <1>1, <1>2, <1>3, <1>4

LEMMA DeleteOneType ==
  ASSUME TypeOK, NEW c \in Calls, NEW r \in Resources, DeleteOne(c, r)
  PROVE  TypeOK'
<1>1. PICK outcome \in Outcomes :
        /\ Ends(outcome)
        /\ store' = After(outcome, DeleteResource(store, key[c], r))
        /\ Dropped(c, r, outcome)
  BY DEF DeleteOne
<1>2. store' \in [Keys -> Composition]
  <2>1. key[c] \in Keys /\ EmptyComposition \in Composition
    BY EmptyCompositionType DEF TypeOK
  <2>2. DeleteResource(store, key[c], r) \in [Keys -> Composition]
    BY <2>1, StoreType
  <2> QED
    BY <1>1, <2>2, AfterType
<1>3. desired' \in [Calls -> Objects]
  <2>1. MarkDeleted(desired[c][r]) \in Object
    BY MarkDeletedType DEF TypeOK, Objects
  <2>2. [desired[c] EXCEPT ![r] = MarkDeleted(desired[c][r])] \in Objects
    BY <2>1 DEF TypeOK, Objects
  <2> QED
    BY <2>2 DEF DeleteOne, TypeOK
<1>4. observed' \in [Calls -> Objects] /\ loaded' \in [Calls -> Composition]
  <2>1. [observed[c] EXCEPT ![r] = Untracked(observed[c][r])] \in Objects
    BY UntrackedType DEF TypeOK, Objects
  <2>2. [loaded[c] EXCEPT ![r] = NoData] \in Composition
    BY NoneIsAName DEF TypeOK, Composition
  <2> QED
    BY <1>1, <2>1, <2>2 DEF Dropped, TypeOK
<1>5. pending' \in [Calls -> SUBSET Resources]
  BY DEF DeleteOne, TypeOK
<1> QED
  BY <1>1, <1>2, <1>3, <1>4, <1>5, EndsType DEF DeleteOne, TypeOK

LEMMA PurgeEmptyType ==
  ASSUME TypeOK, NEW c \in Calls, PurgeEmpty(c)
  PROVE  TypeOK'
<1>1. PICK outcome \in Outcomes :
        Ends(outcome) /\ store' = After(outcome, Purge(store, key[c]))
  BY DEF PurgeEmpty
<1>2. store' \in [Keys -> Composition]
  BY <1>1, EmptyCompositionType DEF TypeOK, After, Purge
<1>3. pc' \in [Calls -> PC]
  BY DEF PurgeEmpty, TypeOK, PC
<1> QED
  BY <1>1, <1>2, <1>3, EndsType DEF PurgeEmpty, TypeOK, local

LEMMA AnswerType ==
  ASSUME TypeOK, NEW c \in Calls,
         \/ RestoreFails(c) \/ RespondUnsaved(c) \/ SaveAndRespond(c)
         \/ Abandon(c) \/ Return(c)
  PROVE  TypeOK'
<1>1. CASE RestoreFails(c)
  BY <1>1, FailType, ForgetType DEF RestoreFails, TypeOK
<1>2. CASE RespondUnsaved(c)
  <2>1. Response(c, EmptyComposition) \in Objects
    BY EmptyCompositionType, ResponseType
  <2> QED
    BY <1>2, <2>1, RespondType, ForgetType DEF RespondUnsaved, TypeOK
<1>3. CASE SaveAndRespond(c)
  <2>1. PICK outcome \in Outcomes :
          /\ Ends(outcome)
          /\ store' = After(outcome, Save(store, key[c], AllResourceData(c)))
          /\ AnswerSaved(c, outcome)
    BY <1>3 DEF SaveAndRespond
  <2>2. store' \in [Keys -> Composition]
    BY <2>1, AllResourceDataType DEF TypeOK, After, Save
  <2>3. Response(c, NewResourceData(c)) \in Objects
    BY NewResourceDataType, ResponseType
  <2>4. /\ pc' \in [Calls -> PC] /\ desired' \in [Calls -> Objects]
        /\ Forget(c)
    BY <2>1, <2>3, RespondType, FailType DEF AnswerSaved
  <2> QED
    BY <2>1, <2>2, <2>4, ForgetType, EndsType DEF TypeOK
<1>4. CASE Return(c)
  <2>1. pc' \in [Calls -> PC]
    BY <1>4 DEF Return, TypeOK, PC
  <2> QED
    BY <1>4, <2>1, NoObjectsType DEF Return, TypeOK, local
<1>5. CASE Abandon(c)
  <2>1. "idle" \in PC
    BY DEF PC
  <2> QED
    BY <1>5, <2>1, LeaveType, NoObjectsType, ForgetType DEF Abandon, TypeOK
<1> QED
  BY <1>1, <1>2, <1>3, <1>4, <1>5

LEMMA StartIsTyped ==
  ASSUME TypeOK, NEW c \in Calls, Start(c) PROVE TypeOK'
<1>1. PICK rq \in Request, k \in Keys :
        Skip(c, rq) \/ PurgeComposition(c, k, rq) \/ Load(c, k, rq) \/ LoadFails(c, k, rq)
  BY RunFunctionAssumption DEF Start
<1>2. store[k] \in Composition
  BY DEF TypeOK
<1> QED
  BY <1>1, <1>2, StartType DEF Load

LEMMA ContinueIsTyped ==
  ASSUME TypeOK, NEW c \in Calls, Continue(c) \/ Abandon(c) \/ Return(c)
  PROVE  TypeOK'
BY DeleteOneType, PurgeEmptyType, AnswerType DEF Continue

\* Every variable keeps its type: names, resources and keys never mix, and a
\* call that does not run holds nothing (RunFunction, fn.go:632-1421).
THEOREM TypeCorrect == Spec => []TypeOK
<1>1. TypeOK /\ [Next]_vars => TypeOK'
  <2> SUFFICES ASSUME TypeOK, [Next]_vars PROVE TypeOK'
    OBVIOUS
  <2>1. CASE Next
    <3>1. PICK c \in Calls :
        Start(c) \/ Continue(c) \/ Abandon(c) \/ Return(c)
      BY <2>1 DEF Next
    <3> QED
      BY <3>1, StartIsTyped, ContinueIsTyped
  <2>2. CASE UNCHANGED vars
    BY <2>2 DEF TypeOK, vars, local
  <2> QED
    BY <2>1, <2>2
<1> QED
  BY <1>1, InitType, PTL DEF Spec

---------------------------------------------------------------------------
(* The cache and the store.  CacheCoherent alone is not inductive: another  *)
(* call about the same key would change the store under the cache, so the  *)
(* invariant says besides that there is none.                              *)

Inv == TypeOK /\ NoOverlap /\ CacheCoherent

\* A call that ends leaves the others as they are.
LEMMA EndFrame ==
  ASSUME TypeOK, NEW c \in Calls,
         \/ \E objects : Respond(c, objects)
         \/ Fail(c) \/ Abandon(c)
  PROVE  /\ ~Running(c)'
         /\ \A d \in Calls \ {c} :
              pc'[d] = pc[d] /\ key'[d] = key[d] /\ loaded'[d] = loaded[d]
BY DEF TypeOK, Respond, Fail, Abandon, Leave, Forget, Running

\* Nothing in a cache means nothing in the store.
LEMMA EmptyCacheEmptyStore ==
  ASSUME TypeOK, CacheCoherent, NEW c \in Calls, Running(c), IsEmpty(c),
         NEW r \in Resources
  PROVE  store[key[c]][r] = NoData
BY DEF CacheCoherent, IsEmpty, EmptyComposition

\* The two halves of the invariant, for a call that ends, when the store has
\* changed under its key only.
LEMMA EndPreserves ==
  ASSUME Inv, NEW c \in Calls,
         \/ \E objects : Respond(c, objects)
         \/ Fail(c) \/ Abandon(c),
         \A d \in Calls \ {c} : Running(d) => store'[key[d]] = store[key[d]]
  PROVE  (NoOverlap /\ CacheCoherent)'
<1>1. /\ ~Running(c)'
      /\ \A d \in Calls \ {c} :
           pc'[d] = pc[d] /\ key'[d] = key[d] /\ loaded'[d] = loaded[d]
  BY EndFrame DEF Inv
<1>2. \A d \in Calls : Running(d)' => d # c /\ Running(d)
  BY <1>1 DEF Running
<1>3. NoOverlap'
  BY <1>1, <1>2 DEF Inv, NoOverlap
<1>4. CacheCoherent'
  BY <1>1, <1>2 DEF Inv, CacheCoherent
<1> QED
  BY <1>3, <1>4

LEMMA StartPreserves ==
  ASSUME Inv, NEW c \in Calls, NEW rq \in Request, NEW k \in Keys,
         Admissible(c, k) => \A d \in Calls \ {c} : Running(d) => key[d] # k,
         \/ Skip(c, rq) \/ PurgeComposition(c, k, rq)
         \/ Load(c, k, rq) \/ LoadFails(c, k, rq)
  PROVE  (NoOverlap /\ CacheCoherent)'
<1>1. CASE Skip(c, rq)
  BY <1>1, EndPreserves DEF Skip
<1>2. CASE PurgeComposition(c, k, rq)
  <2>1. PICK outcome \in Outcomes :
          /\ store' = After(outcome, Purge(store, k))
          /\ IF outcome = "ok" THEN Respond(c, Bypassed(rq)) ELSE Fail(c)
    BY <1>2 DEF PurgeComposition
  <2>2. \A d \in Calls \ {c} : Running(d) => store'[key[d]] = store[key[d]]
    BY <1>2, <2>1 DEF PurgeComposition, After, Purge, Inv, TypeOK
  <2> QED
    BY <2>1, <2>2, EndPreserves
<1>3. CASE Load(c, k, rq)
  <2>1. CASE rq.restoreOnly /\ store[k] = EmptyComposition
    BY <1>3, <2>1, EndPreserves DEF Load, LoadFound
  <2>2. CASE ~(rq.restoreOnly /\ store[k] = EmptyComposition)
    <3>1. /\ store' = store /\ key'[c] = k /\ loaded'[c] = store[k]
          /\ \A d \in Calls \ {c} :
               pc'[d] = pc[d] /\ key'[d] = key[d] /\ loaded'[d] = loaded[d]
          /\ \A d \in Calls \ {c} : Running(d) => key[d] # k
      BY <1>3, <2>2 DEF Load, LoadFound, Inv, TypeOK
    <3>2. \A d \in Calls \ {c} : Running(d)' => Running(d)
      BY <3>1 DEF Running
    <3>3. NoOverlap'
      BY <3>1, <3>2 DEF Inv, NoOverlap
    <3>4. CacheCoherent'
      BY <3>1, <3>2 DEF Inv, CacheCoherent
    <3> QED
      BY <3>3, <3>4
  <2> QED
    BY <2>1, <2>2
<1>4. CASE LoadFails(c, k, rq)
  BY <1>4, EndPreserves DEF LoadFails
<1> QED
  BY <1>1, <1>2, <1>3, <1>4

\* A step in the middle of a call: every call keeps its key, and the others
\* keep what they loaded.
LEMMA DeleteOnePreserves ==
  ASSUME Inv, NEW c \in Calls, NEW r \in Resources, DeleteOne(c, r)
  PROVE  (NoOverlap /\ CacheCoherent)'
<1>1. PICK outcome \in Outcomes :
        /\ store' = After(outcome, DeleteResource(store, key[c], r))
        /\ Dropped(c, r, outcome)
  BY DEF DeleteOne
<1>2. /\ pc' = pc /\ key' = key /\ Running(c)
      /\ \A d \in Calls : Running(d)' <=> Running(d)
  BY DEF DeleteOne, Running
<1>3. NoOverlap'
  BY <1>2 DEF Inv, NoOverlap
<1>4. ASSUME NEW d \in Calls, Running(d)', NEW s \in Resources
      PROVE  loaded'[d][s] = store'[key'[d]][s] \/ store'[key'[d]][s] = NoData
  <2>1. /\ loaded[d][s] = store[key[d]][s] \/ store[key[d]][s] = NoData
        /\ key[d] \in Keys /\ key[c] \in Keys
    BY <1>2, <1>4 DEF Inv, CacheCoherent, TypeOK
  <2>2. CASE d = c
    <3>1. /\ s # r => store'[key[c]][s] = store[key[c]][s]
          /\ outcome # "failed" => store'[key[c]][r] = NoData
          /\ outcome = "failed" => store' = store
      BY <1>1, <2>1 DEF After, DeleteResource, Inv, TypeOK, Composition
    <3>2. /\ s # r => loaded'[c][s] = loaded[c][s]
          /\ outcome # "ok" => loaded' = loaded
      BY <1>1 DEF Dropped, Inv, TypeOK, Composition
    <3> QED
      BY <1>2, <2>1, <2>2, <3>1, <3>2
  <2>3. CASE d # c
    <3>1. key[d] # key[c]
      BY <1>2, <1>4, <2>3 DEF Inv, NoOverlap
    <3>2. store'[key[d]] = store[key[d]]
      BY <1>1, <2>1, <3>1 DEF After, DeleteResource, Inv, TypeOK
    <3>3. loaded'[d] = loaded[d]
      BY <1>1, <2>3 DEF Dropped, Inv, TypeOK
    <3> QED
      BY <1>2, <2>1, <3>2, <3>3
  <2> QED
    BY <2>2, <2>3
<1>5. CacheCoherent'
  BY <1>4 DEF CacheCoherent
<1> QED
  BY <1>3, <1>5

\* The purge of an empty composition changes nothing.
LEMMA PurgeEmptyStutters ==
  ASSUME TypeOK, CacheCoherent, NEW c \in Calls, PurgeEmpty(c)
  PROVE  store' = store
<1>1. Running(c) /\ IsEmpty(c) /\ key[c] \in Keys
  BY DEF PurgeEmpty, Running, TypeOK
<1>2. store[key[c]] \in Composition
  BY <1>1 DEF TypeOK
<1>3. store[key[c]] = EmptyComposition
  BY <1>1, <1>2, EmptyCacheEmptyStore DEF EmptyComposition, Composition
<1>4. Purge(store, key[c]) = store
  BY <1>3 DEF Purge, TypeOK
<1> QED
  BY <1>4 DEF PurgeEmpty, After

LEMMA ContinuePreserves ==
  ASSUME Inv, NEW c \in Calls,
         \/ PurgeEmpty(c) \/ RestoreFails(c) \/ RespondUnsaved(c)
         \/ SaveAndRespond(c) \/ Abandon(c) \/ Return(c)
  PROVE  (NoOverlap /\ CacheCoherent)'
<1>1. CASE PurgeEmpty(c)
  <2>1. /\ store' = store /\ key' = key /\ loaded' = loaded
        /\ \A d \in Calls : Running(d)' => Running(d)
    BY <1>1, PurgeEmptyStutters DEF PurgeEmpty, local, Running, Inv, TypeOK
  <2> QED
    BY <2>1 DEF Inv, NoOverlap, CacheCoherent
<1>2. CASE RestoreFails(c)
  BY <1>2, EndPreserves DEF RestoreFails
<1>3. CASE RespondUnsaved(c)
  BY <1>3, EndPreserves DEF RespondUnsaved
<1>4. CASE SaveAndRespond(c)
  <2>1. PICK outcome \in Outcomes :
          /\ store' = After(outcome, Save(store, key[c], AllResourceData(c)))
          /\ AnswerSaved(c, outcome)
    BY <1>4 DEF SaveAndRespond
  <2>2. Running(c)
    BY <1>4 DEF SaveAndRespond, PastDeletes, Running
  <2>3. \A d \in Calls \ {c} : Running(d) => store'[key[d]] = store[key[d]]
    BY <2>1, <2>2 DEF After, Save, Inv, NoOverlap, TypeOK
  <2> QED
    BY <2>1, <2>3, EndPreserves DEF AnswerSaved
<1>5. CASE Return(c)
  <2>1. /\ store' = store /\ key' = key /\ loaded' = loaded
        /\ \A d \in Calls : Running(d)' => Running(d)
    BY <1>5 DEF Return, local, Running, Inv, TypeOK
  <2> QED
    BY <2>1 DEF Inv, NoOverlap, CacheCoherent
<1>6. CASE Abandon(c)
  BY <1>6, EndPreserves DEF Abandon
<1> QED
  BY <1>1, <1>2, <1>3, <1>4, <1>5, <1>6

LEMMA InvStep ==
  ASSUME Exclusive PROVE Inv /\ [Next]_vars => Inv'
<1> SUFFICES ASSUME Inv, [Next]_vars PROVE Inv'
  OBVIOUS
<1>1. CASE Next
  <2>1. PICK c \in Calls :
        Start(c) \/ Continue(c) \/ Abandon(c) \/ Return(c)
    BY <1>1 DEF Next
  <2>2. CASE Start(c)
    <3>1. \A k \in Keys :
            Admissible(c, k) => \A d \in Calls \ {c} : Running(d) => key[d] # k
      BY DEF Admissible
    <3> QED
      BY <2>2, <3>1, RunFunctionAssumption, StartPreserves, StartIsTyped DEF Start, Inv
  <2>3. CASE Continue(c) \/ Abandon(c) \/ Return(c)
    BY <2>3, DeleteOnePreserves, ContinuePreserves, ContinueIsTyped DEF Continue, Inv
  <2> QED
    BY <2>1, <2>2, <2>3
<1>2. CASE UNCHANGED vars
  BY <1>2 DEF Inv, TypeOK, NoOverlap, CacheCoherent, Running, vars, local
<1> QED
  BY <1>1, <1>2

LEMMA InvInvariant ==
  ASSUME Exclusive PROVE Spec => []Inv
<1>1. Init => Inv
  BY InitType DEF Init, Inv, NoOverlap, CacheCoherent, Running
<1> QED
  BY <1>1, InvStep, PTL DEF Spec

\* While no two calls are about one key, a call's cache is what the store
\* holds, short of the entries a delete with a lost answer took away
\* (fn.go:847-1004).
THEOREM CacheIsCoherent ==
  ASSUME Exclusive PROVE Spec => []CacheCoherent
BY InvInvariant, PTL DEF Inv

---------------------------------------------------------------------------
(* What a step may take out of the store *)

LEMMA UnchangedLosesNothing ==
  ASSUME store' = store, NEW k \in Keys, NEW r \in Resources
  PROVE  ~Loses(k, r)
BY DEF Loses

LEMMA SaveLosesNothing ==
  ASSUME Inv, NEW c \in Calls, SaveAndRespond(c),
         NEW k \in Keys, NEW r \in Resources
  PROVE  ~Loses(k, r)
<1>1. PICK outcome \in Outcomes :
        store' = After(outcome, Save(store, key[c], AllResourceData(c)))
  BY DEF SaveAndRespond
<1>2. CASE outcome = "failed" \/ k # key[c]
  <2>1. store'[k] = store[k]
    BY <1>1, <1>2 DEF After, Save, Inv, TypeOK
  <2> QED
    BY <2>1 DEF Loses
<1>3. CASE outcome # "failed" /\ k = key[c]
  <2>1. store'[k][r] = MergeData(loaded[c][r], NewResourceData(c)[r])
    BY <1>1, <1>3 DEF After, Save, AllResourceData, Inv, TypeOK
  <2>2. loaded[c][r] \in Data /\ NewResourceData(c)[r] \in Data
    BY NewResourceDataType DEF Inv, TypeOK, Composition
  <2>3. Running(c)
    BY DEF SaveAndRespond, PastDeletes, Running
  <2>4. CASE loaded[c][r] = store[k][r]
    BY <2>1, <2>2, <2>4, MergeKeepsNames DEF Loses
  <2>5. CASE store[k][r] = NoData
    BY <2>5 DEF Loses, NoData
  <2> QED
    BY <1>3, <2>3, <2>4, <2>5 DEF Inv, CacheCoherent
<1> QED
  BY <1>2, <1>3

\* A step that takes a name out of the store is the first step of a call or
\* the deletion of that very resource.
LEMMA LossIsTold ==
  ASSUME Inv, Next, NEW k \in Keys, NEW r \in Resources, Loses(k, r)
  PROVE  \E c \in Calls :
           \/ pc[c] = "idle" /\ pc'[c] # "idle"
           \/ pc[c] = "deleting" /\ key[c] = k /\ r \in pending[c] \ pending'[c]
<1>1. PICK c \in Calls :
        Start(c) \/ Continue(c) \/ Abandon(c) \/ Return(c)
  BY DEF Next
<1>2. store' # store
  BY UnchangedLosesNothing
<1>3. CASE Start(c)
  <2>1. PICK rq \in Requests, j \in Keys : PurgeComposition(c, j, rq)
    BY <1>2, <1>3 DEF Start, Skip, Load, LoadFound, LoadFails
  <2>2. pc[c] = "idle" /\ pc'[c] # "idle"
    BY <2>1 DEF PurgeComposition, Admissible, Respond, Fail, Leave, Inv, TypeOK
  <2> QED
    BY <2>2
<1>4. CASE \E s \in Resources : DeleteOne(c, s)
  <2>1. PICK s \in Resources : DeleteOne(c, s)
    BY <1>4
  <2>2. \/ store' = store
        \/ store' = [store EXCEPT ![key[c]][s] = NoData]
    BY <2>1 DEF DeleteOne, After, DeleteResource
  <2>3. k = key[c] /\ r = s
    BY <1>2, <2>2 DEF Loses, Inv, TypeOK, Composition
  <2>4. r \notin pending'[c]
    BY <2>1, <2>3 DEF DeleteOne, Inv, TypeOK
  <2> QED
    BY <2>1, <2>3, <2>4 DEF DeleteOne
<1>5. CASE PurgeEmpty(c)
  BY <1>2, <1>5, PurgeEmptyStutters DEF Inv
<1>6. CASE SaveAndRespond(c)
  BY <1>6, SaveLosesNothing
<1>7. CASE RestoreFails(c) \/ RespondUnsaved(c) \/ Abandon(c) \/ Return(c)
  BY <1>2, <1>7 DEF RestoreFails, RespondUnsaved, Abandon, Return
<1> QED
  BY <1>1, <1>3, <1>4, <1>5, <1>6, <1>7 DEF Continue

\* A name the store holds goes away only on a purge request or by the deletion
\* of its resource, whatever the store calls answer (fn.go:874-1004, 1271-1298).
THEOREM NamesAreKept ==
  ASSUME Exclusive PROVE Spec => NamesLeaveOnlyWhenTold
<1>1. Inv /\ [Next]_vars =>
        [\A k \in Keys, r \in Resources : Loses(k, r) =>
           \E c \in Calls :
             \/ pc[c] = "idle" /\ pc'[c] # "idle"
             \/ pc[c] = "deleting" /\ key[c] = k /\ r \in pending[c] \ pending'[c]]_vars
  BY LossIsTold
<1> QED
  BY <1>1, InvInvariant, PTL DEF Spec, NamesLeaveOnlyWhenTold

---------------------------------------------------------------------------
(* Two calls about one key.  Without Exclusive nothing relates a cache to   *)
(* the store; what remains is that a step loses no name its cache has.     *)

LEMMA SaveLosesUnseen ==
  ASSUME TypeOK, NEW c \in Calls, SaveAndRespond(c),
         NEW k \in Keys, NEW r \in Resources, Loses(k, r)
  PROVE  Unseen(c, k, r)
<1>1. PICK outcome \in Outcomes :
        /\ store' = After(outcome, Save(store, key[c], AllResourceData(c)))
        /\ AnswerSaved(c, outcome)
  BY DEF SaveAndRespond
<1>2. Running(c) /\ pc'[c] # pc[c]
  BY <1>1 DEF SaveAndRespond, PastDeletes, Running, AnswerSaved, Respond, Fail,
     Leave, TypeOK
<1>3. outcome # "failed" /\ key[c] = k
  BY <1>1 DEF After, Save, Loses, TypeOK
<1>4. store'[k][r] = MergeData(loaded[c][r], NewResourceData(c)[r])
  BY <1>1, <1>3 DEF After, Save, AllResourceData, TypeOK
<1>5. loaded[c][r] \in Data /\ NewResourceData(c)[r] \in Data
  BY NewResourceDataType DEF TypeOK, Composition
<1> QED
  BY <1>2, <1>3, <1>4, <1>5, MergeKeepsNames DEF Unseen

LEMMA PurgeLosesUnseen ==
  ASSUME TypeOK, NEW c \in Calls, PurgeEmpty(c),
         NEW k \in Keys, NEW r \in Resources, Loses(k, r)
  PROVE  Unseen(c, k, r)
<1>1. Running(c) /\ pc'[c] # pc[c]
  BY DEF PurgeEmpty, Running, TypeOK
<1>2. key[c] = k
  BY DEF PurgeEmpty, After, Purge, Loses, TypeOK
<1>3. loaded[c][r] = NoData
  BY DEF PurgeEmpty, IsEmpty, EmptyComposition
<1> QED
  BY <1>1, <1>2, <1>3 DEF Unseen, NoData

\* A deletion takes out its own resource and no other.
LEMMA DeleteLosesItsOwn ==
  ASSUME TypeOK, NEW c \in Calls, NEW s \in Resources, DeleteOne(c, s),
         NEW k \in Keys, NEW r \in Resources, Loses(k, r)
  PROVE  pc[c] = "deleting" /\ key[c] = k /\ r \in pending[c] \ pending'[c]
<1>1. \/ store' = store
      \/ store' = [store EXCEPT ![key[c]][s] = NoData]
  BY DEF DeleteOne, After, DeleteResource
<1>2. k = key[c] /\ r = s
  BY <1>1 DEF Loses, TypeOK, Composition
<1>3. r \notin pending'[c]
  BY <1>2 DEF DeleteOne, TypeOK
<1> QED
  BY <1>2, <1>3 DEF DeleteOne

\* Every step of a call, whatever its Load has found.
LEMMA CallLosesUnseen ==
  ASSUME TypeOK, NEW c \in Calls,
         NEW rq, NEW j, NEW found,
         \/ Skip(c, rq) \/ PurgeComposition(c, j, rq)
         \/ LoadFound(c, j, rq, found) \/ LoadFails(c, j, rq)
         \/ Continue(c) \/ Abandon(c) \/ Return(c),
         NEW k \in Keys, NEW r \in Resources, Loses(k, r)
  PROVE  \/ pc[c] = "idle" /\ pc'[c] # "idle"
         \/ pc[c] = "deleting" /\ key[c] = k /\ r \in pending[c] \ pending'[c]
         \/ Unseen(c, k, r)
<1>1. store' # store
  BY UnchangedLosesNothing
<1>2. CASE PurgeComposition(c, j, rq)
  BY <1>2 DEF PurgeComposition, Admissible, Respond, Fail, Leave, TypeOK
<1>3. CASE Skip(c, rq) \/ LoadFound(c, j, rq, found) \/ LoadFails(c, j, rq)
  BY <1>1, <1>3 DEF Skip, LoadFound, LoadFails
<1>4. CASE \E s \in Resources : DeleteOne(c, s)
  BY <1>4, DeleteLosesItsOwn
<1>5. CASE PurgeEmpty(c)
  BY <1>5, PurgeLosesUnseen
<1>6. CASE SaveAndRespond(c)
  BY <1>6, SaveLosesUnseen
<1>7. CASE RestoreFails(c) \/ RespondUnsaved(c) \/ Abandon(c) \/ Return(c)
  BY <1>1, <1>7 DEF RestoreFails, RespondUnsaved, Abandon, Return
<1> QED
  BY <1>2, <1>3, <1>4, <1>5, <1>6, <1>7 DEF Continue

\* However many calls are about one key, a name that nobody asked to remove is
\* lost only to a call that had not seen it (fn.go:1276-1298, 987-1004).
THEOREM SeenNamesAreKept == Spec => OnlyUnseenNamesAreLost
<1>1. TypeOK /\ [Next]_vars =>
        [\A k \in Keys, r \in Resources : Loses(k, r) =>
           \E c \in Calls :
             \/ pc[c] = "idle" /\ pc'[c] # "idle"
             \/ pc[c] = "deleting" /\ key[c] = k /\ r \in pending[c] \ pending'[c]
             \/ Unseen(c, k, r)]_vars
  <2> SUFFICES ASSUME TypeOK, Next, NEW k \in Keys, NEW r \in Resources, Loses(k, r)
               PROVE  \E c \in Calls :
                        \/ pc[c] = "idle" /\ pc'[c] # "idle"
                        \/ /\ pc[c] = "deleting" /\ key[c] = k
                           /\ r \in pending[c] \ pending'[c]
                        \/ Unseen(c, k, r)
    OBVIOUS
  <2>1. PICK c \in Calls :
          Start(c) \/ Continue(c) \/ Abandon(c) \/ Return(c)
    BY DEF Next
  <2>2. CASE Start(c)
    BY <2>2, CallLosesUnseen DEF Start, Load
  <2>3. CASE Continue(c) \/ Abandon(c) \/ Return(c)
    BY <2>3, CallLosesUnseen
  <2> QED
    BY <2>1, <2>2, <2>3
<1> QED
  BY <1>1, TypeCorrect, PTL DEF Spec, OnlyUnseenNamesAreLost
===========================================================================
