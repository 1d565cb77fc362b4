-------------------------- MODULE ResponseProofs --------------------------
(***************************************************************************)
(* What holds of the response of a call, for every set of calls, keys,     *)
(* resources and names, every number of faults and every set of ordinary   *)
(* requests.                                                               *)
(***************************************************************************)
EXTENDS RunFunctionProofs

\* One step of a call, whatever its Load has found.
StepOf(c, rq, k, found) ==
  \/ Skip(c, rq) \/ PurgeComposition(c, k, rq)
  \/ LoadFound(c, k, rq, found) \/ LoadFails(c, k, rq)
  \/ Continue(c) \/ Abandon(c) \/ Return(c)

\* The step of a call touches no other call.
LEMMA StepFrame ==
  ASSUME TypeOK, NEW c \in Calls, NEW d \in Calls, d # c,
         NEW rq, NEW k, NEW found, StepOf(c, rq, k, found)
  PROVE  /\ pc'[d] = pc[d] /\ key'[d] = key[d] /\ mode'[d] = mode[d]
         /\ desired'[d] = desired[d] /\ observed'[d] = observed[d]
         /\ loaded'[d] = loaded[d] /\ pending'[d] = pending[d]
<1>1. CASE LoadFound(c, k, rq, found)
  BY <1>1 DEF LoadFound, Fail, Leave, Forget, TypeOK
<1>2. CASE Skip(c, rq) \/ PurgeComposition(c, k, rq) \/ LoadFails(c, k, rq)
  BY <1>2 DEF Skip, PurgeComposition, LoadFails, Respond, Fail, Leave, Forget, TypeOK
<1>3. CASE \E r \in Resources : DeleteOne(c, r)
  BY <1>3 DEF DeleteOne, Dropped, TypeOK
<1>4. CASE PurgeEmpty(c)
  BY <1>4 DEF PurgeEmpty, local, TypeOK
<1>5. CASE RestoreFails(c) \/ RespondUnsaved(c) \/ SaveAndRespond(c)
  BY <1>5 DEF RestoreFails, RespondUnsaved, SaveAndRespond, AnswerSaved, Respond,
     Fail, Leave, Forget, TypeOK
<1>6. CASE Abandon(c) \/ Return(c)
  BY <1>6 DEF Abandon, Return, local, Leave, Forget, TypeOK
<1> QED
  BY <1>1, <1>2, <1>3, <1>4, <1>5, <1>6 DEF StepOf, Continue

---------------------------------------------------------------------------
(* What a running call holds of a resource: no tracking annotation of its   *)
(* own making yet; whatever is deleted, or is going to be, is desired and   *)
(* found with both its names; and a deletion either left the observed       *)
(* tracking annotations in place, or took them and the cached entry away.   *)

Ready(c, r) ==
  /\ desired[c][r].storedExt = None /\ desired[c][r].storedName = None
  /\ r \in pending[c] => observed[c][r].storedExt # None
  /\ (r \in pending[c] \/ desired[c][r].deleted) =>
       /\ desired[c][r].present /\ observed[c][r].present
       /\ observed[c][r].ext # None /\ observed[c][r].name # None
  /\ desired[c][r].deleted =>
       \/ observed[c][r].storedExt # None
       \/ loaded[c][r] = NoData /\ observed[c][r].storedName = None

ReadyInv == \A c \in Calls : Running(c) => \A r \in Resources : Ready(c, r)

LEMMA LoadMakesReady ==
  ASSUME TypeOK, NEW c \in Calls, NEW rq \in Request, Ordinary(rq), NEW k, NEW found,
         LoadFound(c, k, rq, found), Running(c)', NEW r \in Resources
  PROVE  Ready(c, r)'
<1>1. /\ desired'[c] = rq.desired /\ observed'[c] = rq.observed
      /\ pending'[c] = ToDelete(rq)
  BY DEF LoadFound, Fail, Leave, Running, TypeOK
<1>2. rq.desired[r] \in Object /\ rq.observed[r] \in Object
  BY RequestType DEF Objects
<1> QED
  BY <1>1, <1>2 DEF Ready, ToDelete, Discards, Prefer, Ordinary, Object

LEMMA DeleteKeepsReady ==
  ASSUME TypeOK, NEW c \in Calls, NEW s \in Resources, DeleteOne(c, s),
         NEW r \in Resources, Ready(c, r), Ready(c, s)
  PROVE  Ready(c, r)'
<1>1. PICK outcome \in Outcomes : Dropped(c, s, outcome)
  BY DEF DeleteOne
<1>2. /\ pending'[c] = pending[c] \ {s}
      /\ \A q \in Resources :
           desired'[c][q] = IF q = s THEN MarkDeleted(desired[c][s]) ELSE desired[c][q]
  BY DEF DeleteOne, TypeOK, Objects
<1>3. CASE outcome = "ok"
  <2>1. /\ \A q \in Resources :
             /\ observed'[c][q] = IF q = s THEN Untracked(observed[c][s]) ELSE observed[c][q]
             /\ loaded'[c][q] = IF q = s THEN NoData ELSE loaded[c][q]
    BY <1>1, <1>3 DEF Dropped, TypeOK, Objects, Composition
  <2>2. desired[c][s] \in Object /\ observed[c][s] \in Object /\ s \in pending[c]
    BY DEF TypeOK, Objects, DeleteOne
  <2>3. CASE r # s
    BY <1>2, <2>1, <2>3 DEF Ready
  <2>4. CASE r = s
    <3>1. /\ desired'[c][r] = MarkDeleted(desired[c][r]) /\ r \notin pending'[c]
          /\ observed'[c][r] = Untracked(observed[c][r]) /\ loaded'[c][r] = NoData
      BY <1>2, <2>1, <2>4
    <3>2. /\ desired'[c][r].storedExt = None
          /\ desired'[c][r].storedName = desired[c][r].storedName
          /\ desired'[c][r].present = desired[c][r].present
      BY <2>2, <2>4, <3>1 DEF MarkDeleted, Object
    <3>3. /\ observed'[c][r].storedName = None
          /\ observed'[c][r].present = observed[c][r].present
          /\ observed'[c][r].ext = observed[c][r].ext
          /\ observed'[c][r].name = observed[c][r].name
      BY <2>2, <2>4, <3>1 DEF Untracked, Object
    <3> QED
      BY <2>2, <2>4, <3>1, <3>2, <3>3 DEF Ready
  <2> QED
    BY <2>3, <2>4
<1>4. CASE outcome # "ok"
  <2>1. observed' = observed /\ loaded' = loaded
    BY <1>1, <1>4 DEF Dropped
  <2>2. desired[c][s] \in Object /\ s \in pending[c]
    BY DEF TypeOK, Objects, DeleteOne
  <2> QED
    BY <1>2, <2>1, <2>2 DEF Ready, MarkDeleted, Object
<1> QED
  BY <1>3, <1>4

\* A call that ends does not run.
LEMMA EndsRunning ==
  ASSUME TypeOK, NEW c \in Calls, NEW rq, NEW k,
         \/ Skip(c, rq) \/ PurgeComposition(c, k, rq) \/ LoadFails(c, k, rq)
         \/ RestoreFails(c) \/ RespondUnsaved(c) \/ SaveAndRespond(c)
         \/ Abandon(c) \/ Return(c)
  PROVE  ~Running(c)'
BY DEF Skip, PurgeComposition, LoadFails, RestoreFails, RespondUnsaved, SaveAndRespond,
   AnswerSaved, Abandon, Return, Respond, Fail, Leave, Running, TypeOK

LEMMA StepKeepsReady ==
  ASSUME TypeOK, ReadyInv, NEW c \in Calls, NEW rq \in Request, Ordinary(rq),
         NEW k, NEW found, StepOf(c, rq, k, found)
  PROVE  ReadyInv'
<1> SUFFICES ASSUME NEW d \in Calls, Running(d)', NEW r \in Resources
             PROVE  Ready(d, r)'
  BY DEF ReadyInv
<1>1. CASE d # c
  <2>1. /\ pc'[d] = pc[d] /\ desired'[d] = desired[d] /\ observed'[d] = observed[d]
        /\ loaded'[d] = loaded[d] /\ pending'[d] = pending[d]
    BY <1>1, StepFrame
  <2> QED
    BY <2>1 DEF ReadyInv, Running, Ready
<1>2. CASE d = c
  <2>1. CASE LoadFound(c, k, rq, found)
    BY <1>2, <2>1, LoadMakesReady
  <2>2. CASE \E s \in Resources : DeleteOne(c, s)
    <3>1. Running(c)
      BY <2>2 DEF DeleteOne, Running
    <3> QED
      BY <1>2, <2>2, <3>1, DeleteKeepsReady DEF ReadyInv
  <2>3. CASE PurgeEmpty(c)
    BY <1>2, <2>3 DEF PurgeEmpty, local, ReadyInv, Running, Ready
  <2>4. CASE ~(\/ LoadFound(c, k, rq, found) \/ PurgeEmpty(c)
               \/ \E s \in Resources : DeleteOne(c, s))
    BY <1>2, <2>4, EndsRunning DEF StepOf, Continue
  <2> QED
    BY <2>1, <2>2, <2>3, <2>4
<1> QED
  BY <1>1, <1>2

---------------------------------------------------------------------------
(* The answer *)

\* The fields of a restored object, and of one in a response.
LEMMA RestoredFields ==
  ASSUME TypeOK, NEW c \in Calls, NEW r \in Resources, desired[c][r].present
  PROVE  LET d == desired[c][r]
             o == observed[c][r]
             p == RestorePass(c)[r]
         IN  /\ p \in Object /\ p.present
             /\ \/ p.ext = d.ext /\ p.storedExt = d.storedExt
                \/ /\ d.ext = None /\ o.ext = None
                   /\ p.ext = loaded[c][r].ext /\ p.storedExt = loaded[c][r].ext
             /\ \/ p.name = d.name /\ p.storedName = d.storedName
                \/ /\ d.name = None /\ o.name = None
                   /\ p.name = loaded[c][r].name /\ p.storedName = loaded[c][r].name
<1> DEFINE p == RestorePass(c)[r]
<1>1. /\ desired[c][r] \in Object /\ observed[c][r] \in Object /\ loaded[c][r] \in Data
  BY DEF TypeOK, Objects, Composition
<1>2. p \in Object
  BY RestorePassType DEF Objects
<1>3. p = desired[c][r] \/ p = Restored(desired[c][r], observed[c][r], loaded[c][r])
  BY DEF RestorePass
<1> HIDE DEF p
<1>4. CASE p = desired[c][r]
  BY <1>2, <1>4 DEF p
<1>5. CASE p = Restored(desired[c][r], observed[c][r], loaded[c][r])
  BY <1>1, <1>2, <1>5 DEF p, Restored, Prefer, Object, Data
<1> QED
  BY <1>3, <1>4, <1>5

LEMMA ResponseFields ==
  ASSUME TypeOK, NEW c \in Calls, NEW r \in Resources, NEW stored \in Composition
  PROVE  LET d == desired[c][r]
             o == observed[c][r]
             p == RestorePass(c)[r]
             q == Response(c, stored)[r]
         IN  /\ q.present = d.present
             /\ ~d.present => q = d
             /\ d.present =>
                  /\ q.ext = Prefer(o.ext, p.ext)
                  /\ q.name = p.name
                  /\ q.storedExt = Prefer(o.storedExt, Prefer(stored[r].ext, p.storedExt))
                  /\ q.storedName =
                       Prefer(o.storedName, Prefer(stored[r].name, p.storedName))
<1>1. CASE desired[c][r].present
  <2>1. /\ RestorePass(c)[r] \in Object /\ RestorePass(c)[r].present
        /\ observed[c][r] \in Object /\ stored[r] \in Data
    BY <1>1, RestoredFields DEF TypeOK, Objects, Composition
  <2>2. Response(c, stored)[r] =
          MergeObserved(Tracked(RestorePass(c)[r], stored[r]), observed[c][r])
    BY <2>1 DEF Response
  <2> DEFINE p == RestorePass(c)[r]
  <2>3. p \in Object /\ p.present
    BY <2>1
  <2> HIDE DEF p
  <2>4. /\ Tracked(p, stored[r]) \in Object
        /\ Tracked(p, stored[r]).present
        /\ Tracked(p, stored[r]).ext = p.ext
        /\ Tracked(p, stored[r]).name = p.name
        /\ Tracked(p, stored[r]).storedExt = Prefer(stored[r].ext, p.storedExt)
        /\ Tracked(p, stored[r]).storedName = Prefer(stored[r].name, p.storedName)
    BY <2>1, <2>3, TrackedType DEF Tracked, Object
  <2> DEFINE t == Tracked(p, stored[r])
  <2>5. t \in Object
    BY <2>4
  <2> HIDE DEF t
  <2>6. /\ MergeObserved(t, observed[c][r]).present = t.present
        /\ MergeObserved(t, observed[c][r]).name = t.name
        /\ MergeObserved(t, observed[c][r]).ext = Prefer(observed[c][r].ext, t.ext)
        /\ MergeObserved(t, observed[c][r]).storedExt =
             Prefer(observed[c][r].storedExt, t.storedExt)
        /\ MergeObserved(t, observed[c][r]).storedName =
             Prefer(observed[c][r].storedName, t.storedName)
    BY <2>5 DEF MergeObserved, Object
  <2>7. Response(c, stored)[r] = MergeObserved(t, observed[c][r])
    BY <2>2 DEF t, p
  <2> QED
    BY <1>1, <2>4, <2>6, <2>7 DEF t, p
<1>2. CASE ~desired[c][r].present
  <2>1. RestorePass(c)[r] = desired[c][r]
    BY <1>2 DEF RestorePass
  <2> QED
    BY <1>2, <2>1 DEF Response
<1> QED
  BY <1>1, <1>2

\* What is stored for a call that answers.
StoredBy(c) == IF SavesNothing(c) THEN EmptyComposition ELSE NewResourceData(c)

\* A call answers after its restoration was complete: with what it has
\* restored, having nothing to write, or after its Save took effect.
LEMMA AnswerStep ==
  ASSUME TypeOK, NEW c \in Calls, NEW rq, NEW k, NEW found,
         StepOf(c, rq, k, found), Answers(c)
  PROVE  /\ ~RestoreIncomplete(c)
         /\ desired'[c] = Response(c, StoredBy(c))
         /\ StoredBy(c) \in Composition
         /\ SavesNothing(c) => store' = store
         /\ ~SavesNothing(c) => store'[key[c]] = AllResourceData(c)
<1>1. RespondUnsaved(c) \/ SaveAndRespond(c)
  BY DEF StepOf, Continue, Answers, Running, Skip, PurgeComposition, LoadFound,
     LoadFails, Admissible, DeleteOne, PurgeEmpty, RestoreFails, Abandon, Return,
     Fail, Leave, TypeOK
<1>2. StoredBy(c) \in Composition
  BY NewResourceDataType, EmptyCompositionType DEF StoredBy
<1>3. CASE RespondUnsaved(c)
  BY <1>2, <1>3 DEF RespondUnsaved, Respond, Leave, StoredBy, TypeOK
<1>4. CASE SaveAndRespond(c)
  <2>1. PICK outcome \in Outcomes :
          /\ store' = After(outcome, Save(store, key[c], AllResourceData(c)))
          /\ AnswerSaved(c, outcome)
    BY <1>4 DEF SaveAndRespond
  <2>2. outcome = "ok"
    BY <2>1 DEF AnswerSaved, Answers, Fail, Leave, TypeOK
  <2>3. store'[key[c]] = AllResourceData(c)
    BY <2>1, <2>2 DEF After, Save, TypeOK
  <2> QED
    BY <1>2, <1>4, <2>1, <2>2, <2>3 DEF SaveAndRespond, AnswerSaved, Respond, Leave,
       StoredBy, TypeOK
<1> QED
  BY <1>1, <1>3, <1>4

\* Only the call whose step it is can answer.
LEMMA OneAnswers ==
  ASSUME TypeOK, NEW c \in Calls, NEW rq, NEW k, NEW found,
         StepOf(c, rq, k, found), NEW d \in Calls, Answers(d)
  PROVE  d = c
BY StepFrame DEF Answers, Running

---------------------------------------------------------------------------
(* A failed deletion.  Its resource keeps the observed annotations and with *)
(* them the mark that makes the next request delete it; a deletion that was *)
(* seen to succeed has emptied the cache, so that the metadata.name is new  *)
(* and a Save writes the entry without the external name.                   *)

LEMMA AnswerRetries ==
  ASSUME TypeOK, ReadyInv, NEW c \in Calls, NEW rq, NEW k, NEW found,
         StepOf(c, rq, k, found), Answers(c), NEW r \in Resources,
         desired[c][r].deleted, ~ShouldProcess(desired[c][r], mode[c].scope)
  PROVE  store'[key[c]][r].ext = None \/ desired'[c][r].storedExt # None
<1>1. /\ desired[c][r].present /\ observed[c][r].present
      /\ observed[c][r].name # None
      /\ \/ observed[c][r].storedExt # None
         \/ loaded[c][r] = NoData /\ observed[c][r].storedName = None
  BY DEF ReadyInv, Ready, Answers
<1>2. CASE observed[c][r].storedExt # None
  <2>1. desired'[c][r].storedExt = Prefer(observed[c][r].storedExt,
                 Prefer(StoredBy(c)[r].ext, RestorePass(c)[r].storedExt))
    BY <1>1, AnswerStep, ResponseFields
  <2> QED
    BY <1>2, <2>1 DEF Prefer
<1>3. CASE loaded[c][r] = NoData /\ observed[c][r].storedName = None
  <2>1. ~mode[c].restoreOnly
    BY <1>1, <1>3, AnswerStep DEF RestoreIncomplete
  <2>2. /\ NewResourceData(c)[r].name # None
        /\ NewResourceData(c)[r].ext = None
    BY <1>1, <1>3 DEF NewResourceData, NewData
  <2>3. NewResourceData(c) # EmptyComposition
    BY <2>2 DEF EmptyComposition, NoData
  <2>4. store'[key[c]][r] = MergeData(loaded[c][r], NewResourceData(c)[r])
    BY <2>1, <2>3, AnswerStep DEF SavesNothing, AllResourceData
  <2> QED
    BY <1>3, <2>2, <2>4 DEF MergeData, Prefer, NoData
<1> QED
  BY <1>1, <1>2, <1>3

\* A step of a call whose request, if it reads one, is ordinary.
OrdinaryStep(c) ==
  \E rq \in Request, k \in Keys, found \in Composition :
    Ordinary(rq) /\ StepOf(c, rq, k, found)

LEMMA ContinueIsOrdinary ==
  ASSUME NEW c \in Calls, Continue(c) \/ Abandon(c) \/ Return(c)
  PROVE  OrdinaryStep(c)
<1> DEFINE rq == [enabled |-> FALSE, purge |-> FALSE, restoreOnly |-> FALSE,
                  scope |-> NoMode.scope, desired |-> NoObjects, observed |-> NoObjects]
<1>1. rq \in Request
  BY DefaultsType, NoObjectsType DEF Request, Mode
<1>2. Ordinary(rq)
  BY DEF Ordinary, NoObjects, NoObject
<1>3. ASSUME NEW q, NEW k, NEW found PROVE StepOf(c, q, k, found)
  BY DEF StepOf
<1> HIDE DEF rq
<1> QED
  BY <1>1, <1>2, <1>3, DefaultsType, EmptyCompositionType DEF OrdinaryStep

LEMMA StartIsOrdinary ==
  ASSUME NEW c \in Calls, NEW rq \in Request, Ordinary(rq), NEW k \in Keys,
         NEW found \in Composition,
         \/ Skip(c, rq) \/ PurgeComposition(c, k, rq)
         \/ LoadFound(c, k, rq, found) \/ LoadFails(c, k, rq)
  PROVE  OrdinaryStep(c)
BY DEF OrdinaryStep, StepOf

LEMMA NextIsOrdinary ==
  ASSUME TypeOK, OrdinaryRequests, Next
  PROVE  \E c \in Calls : OrdinaryStep(c)
<1>1. PICK c \in Calls : Start(c) \/ Continue(c) \/ Abandon(c) \/ Return(c)
  BY DEF Next
<1>2. CASE Start(c)
  <2>1. PICK rq \in Requests, k \in Keys :
          Skip(c, rq) \/ PurgeComposition(c, k, rq) \/ Load(c, k, rq) \/ LoadFails(c, k, rq)
    BY <1>2, RunFunctionAssumption DEF Start
  <2>2. rq \in Request /\ Ordinary(rq) /\ store[k] \in Composition
    BY RunFunctionAssumption DEF OrdinaryRequests, TypeOK
  <2> QED
    BY <2>1, <2>2, StartIsOrdinary DEF Load
<1> QED
  BY <1>1, <1>2, ContinueIsOrdinary

LEMMA ReadyStep ==
  ASSUME TypeOK, ReadyInv, NEW c \in Calls, OrdinaryStep(c) PROVE ReadyInv'
BY StepKeepsReady DEF OrdinaryStep

LEMMA RetryStep ==
  ASSUME TypeOK, ReadyInv, NEW c \in Calls, OrdinaryStep(c),
         NEW d \in Calls, NEW r \in Resources,
         Answers(d), desired[d][r].deleted, ~ShouldProcess(desired[d][r], mode[d].scope)
  PROVE  store'[key[d]][r].ext = None \/ desired'[d][r].storedExt # None
BY OneAnswers, AnswerRetries DEF OrdinaryStep

LEMMA ReadyInvariant ==
  ASSUME OrdinaryRequests PROVE Spec => [](TypeOK /\ ReadyInv)
<1>1. Init => ReadyInv
  BY DEF Init, ReadyInv, Running
<1>2. TypeOK /\ ReadyInv /\ [Next]_vars => ReadyInv'
  <2> SUFFICES ASSUME TypeOK, ReadyInv, [Next]_vars PROVE ReadyInv'
    OBVIOUS
  <2>1. CASE Next
    BY <2>1, NextIsOrdinary, ReadyStep
  <2>2. CASE UNCHANGED vars
    BY <2>2 DEF vars, local, ReadyInv, Running, Ready
  <2> QED
    BY <2>1, <2>2
<1> QED
  BY <1>1, <1>2, TypeCorrect, PTL DEF Spec

\* What a deletion could not take out of the store is tried again by a later
\* request, however many calls are about one key and whatever the store calls
\* answer (fn.go:905-930, 1042-1298).
THEOREM DeletesAreRetried ==
  ASSUME OrdinaryRequests PROVE Spec => FailedDeleteIsRetried
<1>1. TypeOK /\ ReadyInv /\ [Next]_vars =>
        [\A c \in Calls, r \in Resources :
           (Answers(c) /\ desired[c][r].deleted
              /\ ~ShouldProcess(desired[c][r], mode[c].scope)) =>
             \/ store'[key[c]][r].ext = None
             \/ desired'[c][r].storedExt # None]_vars
  BY NextIsOrdinary, RetryStep
<1> QED
  BY <1>1, ReadyInvariant, PTL DEF Spec, FailedDeleteIsRetried

---------------------------------------------------------------------------
(* The cache of a call that has its key to itself: it differs from the      *)
(* store only in what a deletion removed without the call knowing.          *)

Cached ==
  \A c \in Calls : Running(c) => \A r \in Resources :
    loaded[c][r] = store[key[c]][r] \/ desired[c][r].deleted

ResponseInv == Inv /\ ReadyInv /\ Cached

LEMMA LoadMakesCached ==
  ASSUME TypeOK, NEW c \in Calls, NEW rq, NEW k \in Keys, Load(c, k, rq), Running(c)',
         NEW r \in Resources
  PROVE  loaded'[c][r] = store'[key'[c]][r]
BY DEF Load, LoadFound, Fail, Leave, Running, TypeOK

LEMMA DeleteKeepsCached ==
  ASSUME TypeOK, Cached, NEW c \in Calls, NEW s \in Resources, DeleteOne(c, s),
         NEW r \in Resources
  PROVE  loaded'[c][r] = store'[key'[c]][r] \/ desired'[c][r].deleted
<1>1. PICK outcome \in Outcomes :
        /\ store' = After(outcome, DeleteResource(store, key[c], s))
        /\ Dropped(c, s, outcome)
  BY DEF DeleteOne
<1>2. CASE r = s
  <2>1. desired'[c][r] = MarkDeleted(desired[c][r]) /\ desired[c][r] \in Object
    BY <1>2 DEF DeleteOne, TypeOK, Objects
  <2> QED
    BY <2>1 DEF MarkDeleted, Object
<1>3. CASE r # s
  <2>1. desired'[c][r] = desired[c][r] /\ key'[c] = key[c] /\ key[c] \in Keys
    BY <1>3 DEF DeleteOne, TypeOK, Objects
  <2>2. store'[key[c]][r] = store[key[c]][r]
    BY <1>1, <1>3, <2>1 DEF After, DeleteResource, TypeOK, Composition
  <2>3. loaded'[c][r] = loaded[c][r]
    BY <1>1, <1>3 DEF Dropped, TypeOK, Composition
  <2>4. Running(c)
    BY DEF DeleteOne, Running
  <2> QED
    BY <2>1, <2>2, <2>3, <2>4 DEF Cached
<1> QED
  BY <1>2, <1>3

\* A call writes under its own key and no running call but it has that key.
LEMMA StoreFrame ==
  ASSUME Inv, NEW c \in Calls, NEW rq, NEW k \in Keys, NEW found,
         StepOf(c, rq, k, found), NEW d \in Calls \ {c}, Running(d),
         Admissible(c, k) => key[d] # k
  PROVE  store'[key[d]] = store[key[d]]
<1>1. CASE PurgeComposition(c, k, rq)
  BY <1>1 DEF PurgeComposition, After, Purge, Inv, TypeOK
<1>2. CASE (\E s \in Resources : DeleteOne(c, s)) \/ PurgeEmpty(c) \/ SaveAndRespond(c)
  <2>1. key[c] # key[d] /\ key[c] \in Keys /\ key[d] \in Keys
    BY <1>2 DEF Inv, NoOverlap, DeleteOne, PurgeEmpty, SaveAndRespond, PastDeletes,
       Running, TypeOK
  <2>2. \/ store' = store
        \/ \E new : store' = [store EXCEPT ![key[c]] = new]
    BY <1>2 DEF DeleteOne, PurgeEmpty, SaveAndRespond, After, DeleteResource, Purge, Save
  <2> QED
    BY <2>1, <2>2 DEF Inv, TypeOK
<1>3. CASE \/ Skip(c, rq) \/ LoadFound(c, k, rq, found) \/ LoadFails(c, k, rq)
           \/ RestoreFails(c) \/ RespondUnsaved(c) \/ Abandon(c) \/ Return(c)
  BY <1>3 DEF Skip, LoadFound, LoadFails, RestoreFails, RespondUnsaved, Abandon, Return
<1> QED
  BY <1>1, <1>2, <1>3 DEF StepOf, Continue

LEMMA CachedStep ==
  ASSUME Inv, Cached, NEW c \in Calls, NEW rq, NEW k \in Keys,
         Admissible(c, k) => \A d \in Calls \ {c} : Running(d) => key[d] # k,
         StepOf(c, rq, k, store[k])
  PROVE  Cached'
<1> SUFFICES ASSUME NEW d \in Calls, Running(d)', NEW r \in Resources
             PROVE  loaded'[d][r] = store'[key'[d]][r] \/ desired'[d][r].deleted
  BY DEF Cached
<1>0. TypeOK
  BY DEF Inv
<1>1. CASE d # c
  <2>1. /\ pc'[d] = pc[d] /\ desired'[d] = desired[d] /\ key'[d] = key[d]
        /\ loaded'[d] = loaded[d]
    BY <1>0, <1>1, StepFrame
  <2>2. Running(d)
    BY <2>1 DEF Running
  <2>3. store'[key[d]] = store[key[d]]
    BY <1>1, <2>2, StoreFrame
  <2> QED
    BY <2>1, <2>2, <2>3 DEF Cached
<1>2. CASE d = c
  <2>1. CASE LoadFound(c, k, rq, store[k])
    BY <1>0, <1>2, <2>1, LoadMakesCached DEF Load
  <2>2. CASE \E s \in Resources : DeleteOne(c, s)
    BY <1>0, <1>2, <2>2, DeleteKeepsCached
  <2>3. CASE PurgeEmpty(c)
    BY <1>2, <2>3, PurgeEmptyStutters DEF PurgeEmpty, local, Running, Inv, Cached
  <2>4. CASE ~(\/ LoadFound(c, k, rq, store[k]) \/ PurgeEmpty(c)
               \/ \E s \in Resources : DeleteOne(c, s))
    BY <1>0, <1>2, <2>4, EndsRunning DEF StepOf, Continue
  <2> QED
    BY <2>1, <2>2, <2>3, <2>4
<1> QED
  BY <1>1, <1>2

LEMMA NextIsStep ==
  ASSUME Next
  PROVE  \E c \in Calls, k \in Keys : \E rq : StepOf(c, rq, k, store[k])
<1>1. PICK c \in Calls : Start(c) \/ Continue(c) \/ Abandon(c) \/ Return(c)
  BY DEF Next
<1>2. CASE Start(c)
  <2>1. PICK rq \in Requests, k \in Keys :
          Skip(c, rq) \/ PurgeComposition(c, k, rq) \/ Load(c, k, rq) \/ LoadFails(c, k, rq)
    BY <1>2, RunFunctionAssumption DEF Start
  <2>2. StepOf(c, rq, k, store[k])
    BY <2>1 DEF StepOf, Load
  <2> QED
    BY <2>2
<1>3. CASE ~Start(c)
  <2>1. StepOf(c, NoMode, NoKey, store[NoKey])
    BY <1>1, <1>3 DEF StepOf
  <2> QED
    BY <2>1, DefaultsType
<1> QED
  BY <1>2, <1>3

LEMMA ResponseInvariant ==
  ASSUME Exclusive, OrdinaryRequests PROVE Spec => []ResponseInv
<1>1. Init => Cached
  BY DEF Init, Cached, Running
<1>2. Inv /\ Cached /\ [Next]_vars => Cached'
  <2> SUFFICES ASSUME Inv, Cached, [Next]_vars PROVE Cached'
    OBVIOUS
  <2>1. CASE Next
    <3>1. PICK c \in Calls, k \in Keys : \E rq : StepOf(c, rq, k, store[k])
      BY <2>1, NextIsStep
    <3>2. Admissible(c, k) => \A d \in Calls \ {c} : Running(d) => key[d] # k
      BY DEF Admissible
    <3> QED
      BY <3>1, <3>2, CachedStep
  <2>2. CASE UNCHANGED vars
    BY <2>2 DEF vars, local, Cached, Running
  <2> QED
    BY <2>1, <2>2
<1> QED
  BY <1>1, <1>2, InvInvariant, ReadyInvariant, PTL DEF Spec, ResponseInv

\* What is restored has been read from the store as it still is: a resource
\* whose entry a deletion has removed is observed with both its names, so that
\* nothing is restored to it from the cache.
LEMMA RestoredIsStored ==
  ASSUME ResponseInv, NEW c \in Calls, Running(c), NEW r \in Resources
  PROVE  /\ observed[c][r].ext = None => loaded[c][r].ext = store[key[c]][r].ext
         /\ observed[c][r].name = None => loaded[c][r].name = store[key[c]][r].name
BY DEF ResponseInv, Cached, ReadyInv, Ready

\* What a call that answers leaves in the store.
LEMMA StoredByAnswer ==
  ASSUME TypeOK, NEW c \in Calls, NEW rq, NEW k, NEW found,
         StepOf(c, rq, k, found), Answers(c), NEW r \in Resources
  PROVE  /\ store'[key[c]][r].ext \in
              {Prefer(StoredBy(c)[r].ext, loaded[c][r].ext), store[key[c]][r].ext}
         /\ store'[key[c]][r].name \in
              {Prefer(StoredBy(c)[r].name, loaded[c][r].name), store[key[c]][r].name}
         /\ StoredBy(c)[r].ext # None => store'[key[c]][r].ext = StoredBy(c)[r].ext
         /\ StoredBy(c)[r].name # None => store'[key[c]][r].name = StoredBy(c)[r].name
<1>1. CASE SavesNothing(c)
  BY <1>1, AnswerStep DEF StoredBy, EmptyComposition, NoData
<1>2. CASE ~SavesNothing(c)
  <2>1. store'[key[c]][r] = MergeData(loaded[c][r], StoredBy(c)[r])
    BY <1>2, AnswerStep DEF AllResourceData, StoredBy
  <2> QED
    BY <2>1 DEF MergeData, Prefer
<1> QED
  BY <1>1, <1>2

LEMMA AnswerIsBacked ==
  ASSUME ResponseInv, NEW c \in Calls, NEW rq, NEW k, NEW found,
         StepOf(c, rq, k, found), Answers(c), NEW r \in Resources
  PROVE  /\ desired'[c][r].storedExt \in
              {None, observed[c][r].storedExt, store'[key[c]][r].ext}
         /\ desired'[c][r].storedName \in
              {None, observed[c][r].storedName, store'[key[c]][r].name}
<1>1. TypeOK /\ Running(c) /\ Ready(c, r)
  BY DEF ResponseInv, Inv, ReadyInv, Answers
<1>2. desired'[c] = Response(c, StoredBy(c)) /\ StoredBy(c) \in Composition
  BY <1>1, AnswerStep
<1>3. CASE ~desired[c][r].present
  <2>1. desired'[c][r] = desired[c][r]
    BY <1>1, <1>2, <1>3, ResponseFields
  <2> QED
    BY <1>1, <2>1 DEF Ready
<1>4. CASE desired[c][r].present
  <2> DEFINE p == RestorePass(c)[r]
  <2>1. /\ desired'[c][r].storedExt =
             Prefer(observed[c][r].storedExt, Prefer(StoredBy(c)[r].ext, p.storedExt))
        /\ desired'[c][r].storedName =
             Prefer(observed[c][r].storedName, Prefer(StoredBy(c)[r].name, p.storedName))
    BY <1>1, <1>2, <1>4, ResponseFields
  <2>2. /\ \/ p.storedExt = None
           \/ p.storedExt = loaded[c][r].ext /\ loaded[c][r].ext = store[key[c]][r].ext
        /\ \/ p.storedName = None
           \/ p.storedName = loaded[c][r].name /\ loaded[c][r].name = store[key[c]][r].name
    <3> HIDE DEF p
    <3>1. /\ \/ p.storedExt = None
             \/ p.storedExt = loaded[c][r].ext /\ observed[c][r].ext = None
          /\ \/ p.storedName = None
             \/ p.storedName = loaded[c][r].name /\ observed[c][r].name = None
      BY <1>1, <1>4, RestoredFields DEF Ready, p
    <3> QED
      BY <1>1, <3>1, RestoredIsStored
  <2> HIDE DEF p
  <2>3. /\ store'[key[c]][r].ext \in
              {Prefer(StoredBy(c)[r].ext, loaded[c][r].ext), store[key[c]][r].ext}
        /\ store'[key[c]][r].name \in
              {Prefer(StoredBy(c)[r].name, loaded[c][r].name), store[key[c]][r].name}
        /\ StoredBy(c)[r].ext # None => store'[key[c]][r].ext = StoredBy(c)[r].ext
        /\ StoredBy(c)[r].name # None => store'[key[c]][r].name = StoredBy(c)[r].name
    BY <1>1, StoredByAnswer
  <2> QED
    BY <2>1, <2>2, <2>3 DEF Prefer
<1> QED
  BY <1>3, <1>4

LEMMA AnswerRestores ==
  ASSUME ResponseInv, NEW c \in Calls, NEW rq, NEW k, NEW found,
         StepOf(c, rq, k, found), Answers(c), NEW r \in Resources, desired[c][r].present
  PROVE  /\ Chosen(observed[c][r].ext, desired[c][r].ext,
                   store[key[c]][r].ext, desired'[c][r].ext)
         /\ desired[c][r].name = None =>
              desired'[c][r].name \in {None, store[key[c]][r].name}
         /\ desired[c][r].name # None => UNCHANGED desired[c][r].name
<1> DEFINE p == RestorePass(c)[r]
<1>1. TypeOK /\ Running(c)
  BY DEF ResponseInv, Inv, Answers
<1>2. /\ desired'[c][r].ext = Prefer(observed[c][r].ext, p.ext)
      /\ desired'[c][r].name = p.name
  BY <1>1, AnswerStep, ResponseFields
<1>3. /\ \/ p.ext = desired[c][r].ext
         \/ /\ desired[c][r].ext = None /\ observed[c][r].ext = None
            /\ p.ext = loaded[c][r].ext
      /\ \/ p.name = desired[c][r].name
         \/ /\ desired[c][r].name = None /\ observed[c][r].name = None
            /\ p.name = loaded[c][r].name
  BY <1>1, RestoredFields
<1> HIDE DEF p
<1>4. /\ observed[c][r].ext = None => loaded[c][r].ext = store[key[c]][r].ext
      /\ observed[c][r].name = None => loaded[c][r].name = store[key[c]][r].name
  BY <1>1, RestoredIsStored
<1>5. Chosen(observed[c][r].ext, desired[c][r].ext,
             store[key[c]][r].ext, desired'[c][r].ext)
  BY <1>2, <1>3, <1>4 DEF Chosen, Prefer
<1> QED
  BY <1>2, <1>3, <1>4, <1>5

LEMMA NextAnswers ==
  ASSUME ResponseInv, Next, NEW c \in Calls, Answers(c)
  PROVE  \E k \in Keys : \E rq : StepOf(c, rq, k, store[k])
BY NextIsStep, OneAnswers DEF ResponseInv, Inv

\* A response calls a name stored only when its request did or the store has
\* it (fn.go:1298-1304).
THEOREM TrackingTellsTheTruth ==
  ASSUME Exclusive, OrdinaryRequests PROVE Spec => TrackingIsBacked
<1>1. ResponseInv /\ [Next]_vars =>
        [\A c \in Calls, r \in Resources : Answers(c) =>
           /\ desired'[c][r].storedExt \in
                {None, observed[c][r].storedExt, store'[key[c]][r].ext}
           /\ desired'[c][r].storedName \in
                {None, observed[c][r].storedName, store'[key[c]][r].name}]_vars
  BY NextAnswers, AnswerIsBacked
<1> QED
  BY <1>1, ResponseInvariant, PTL DEF Spec, TrackingIsBacked

\* A name a response gives to a resource is the observed one, the composition's
\* or the one stored for it at that moment (fn.go:1042-1155, 478-480).
THEOREM RestoredNamesAreStored ==
  ASSUME Exclusive, OrdinaryRequests PROVE Spec => RestoresStoredName
<1>1. ResponseInv /\ [Next]_vars =>
        [\A c \in Calls, r \in Resources : Answers(c) /\ desired[c][r].present =>
           /\ Chosen(observed[c][r].ext, desired[c][r].ext,
                     store[key[c]][r].ext, desired'[c][r].ext)
           /\ desired[c][r].name = None =>
                desired'[c][r].name \in {None, store[key[c]][r].name}
           /\ desired[c][r].name # None => UNCHANGED desired[c][r].name]_vars
  BY NextAnswers, AnswerRestores
<1> QED
  BY <1>1, ResponseInvariant, PTL DEF Spec, RestoresStoredName
---------------------------------------------------------------------------
(* Restore-only: the deletion pass is the only thing that makes such a      *)
(* request write.  Where it has nothing to delete, the composition it has   *)
(* found, which is not empty, stays in its cache.                           *)

RestoreOnlyDeletesNothing == \A rq \in Requests : rq.restoreOnly => ToDelete(rq) = {}

RestoreInv ==
  \A c \in Calls : Running(c) /\ mode[c].restoreOnly =>
    pending[c] = {} /\ loaded[c] # EmptyComposition

LEMMA LoadFindsSomething ==
  ASSUME TypeOK, NEW c \in Calls, NEW k, NEW rq \in Requests, NEW found,
         LoadFound(c, k, rq, found), RestoreOnlyDeletesNothing,
         Running(c)', mode'[c].restoreOnly
  PROVE  pending'[c] = {} /\ loaded'[c] # EmptyComposition
<1>1. ~Fail(c)
  BY DEF Fail, Leave, TypeOK, Running
<1>2. /\ ~(rq.restoreOnly /\ found = EmptyComposition)
      /\ loaded'[c] = found /\ pending'[c] = ToDelete(rq)
  BY <1>1 DEF LoadFound, TypeOK
<1>3. mode'[c] = [restoreOnly |-> rq.restoreOnly, scope |-> rq.scope]
  BY <1>1 DEF LoadFound, TypeOK
<1>4. rq.restoreOnly
  BY <1>3
<1> QED
  BY <1>2, <1>4 DEF RestoreOnlyDeletesNothing

\* What a call in restore-only mode does of the steps after its Load.
LEMMA RestoreContinues ==
  ASSUME RestoreInv, NEW c \in Calls, Continue(c), mode[c].restoreOnly
  PROVE  UNCHANGED store /\ (RestoreFails(c) \/ RespondUnsaved(c))
<1>1. Running(c)
  BY DEF Continue, DeleteOne, PurgeEmpty, RestoreFails, RespondUnsaved, SaveAndRespond,
     PastDeletes, Running
<1>2. ~PurgeEmpty(c) /\ ~SaveAndRespond(c) /\ \A r \in Resources : ~DeleteOne(c, r)
  BY <1>1 DEF RestoreInv, PurgeEmpty, IsEmpty, SaveAndRespond, SavesNothing, DeleteOne
<1> QED
  BY <1>2 DEF Continue, RestoreFails, RespondUnsaved

LEMMA RestoreStep ==
  ASSUME TypeOK, RestoreInv, RestoreOnlyDeletesNothing, Next
  PROVE  RestoreInv'
<1> SUFFICES ASSUME NEW d \in Calls, Running(d)', mode'[d].restoreOnly
             PROVE  pending'[d] = {} /\ loaded'[d] # EmptyComposition
  BY DEF RestoreInv
<1>1. PICK c \in Calls : Start(c) \/ Continue(c) \/ Abandon(c) \/ Return(c)
  BY DEF Next
<1>2. CASE c # d
  <2>1. \E k : \E rq : StepOf(c, rq, k, store[k])
    BY <1>1 DEF Start, StepOf, Load
  <2>2. /\ pc'[d] = pc[d] /\ mode'[d] = mode[d]
        /\ pending'[d] = pending[d] /\ loaded'[d] = loaded[d]
    BY <1>2, <2>1, StepFrame
  <2> QED
    BY <2>2 DEF RestoreInv, Running
<1>3. CASE c = d /\ Start(c)
  <2>1. PICK rq \in Requests, k \in Keys :
          Skip(c, rq) \/ PurgeComposition(c, k, rq) \/ Load(c, k, rq) \/ LoadFails(c, k, rq)
    BY <1>3, RunFunctionAssumption DEF Start
  <2>2. LoadFound(c, k, rq, store[k])
    BY <1>3, <2>1, EndsRunning DEF Load
  <2> QED
    BY <1>3, <2>2, LoadFindsSomething
<1>4. CASE c = d /\ Continue(c)
  <2>1. ~(RestoreFails(c) \/ RespondUnsaved(c) \/ SaveAndRespond(c))
    BY <1>4, EndsRunning
  <2>2. mode'[c] = mode[c]
    BY <1>4, <2>1 DEF Continue, DeleteOne, PurgeEmpty, local
  <2> QED
    BY <1>4, <2>1, <2>2, RestoreContinues
<1>5. CASE c = d /\ (Abandon(c) \/ Return(c))
  BY <1>5, EndsRunning
<1> QED
  BY <1>1, <1>2, <1>3, <1>4, <1>5

LEMMA RestoreWritesNothing ==
  ASSUME TypeOK, RestoreInv, [Next]_vars, NEW c \in Calls, Running(c), mode[c].restoreOnly,
         pending'[c] # pending[c] \/ pc'[c] # pc[c]
  PROVE  UNCHANGED store
<1>1. Next
  BY DEF vars, local
<1>2. PICK d \in Calls : Start(d) \/ Continue(d) \/ Abandon(d) \/ Return(d)
  BY <1>1 DEF Next
<1>3. d = c
  <2>1. \E k : \E rq : StepOf(d, rq, k, store[k])
    BY <1>2 DEF Start, StepOf, Load
  <2> QED
    BY <2>1, StepFrame
<1>4. ~Start(c)
  BY DEF Start, Skip, PurgeComposition, Load, LoadFound, LoadFails, Admissible, Running
<1> QED
  BY <1>2, <1>3, <1>4, RestoreContinues DEF Abandon, Return

\* restore-only leaves the stored data as it is (README.md:404), if only the
\* request has nothing to delete: the deletion pass, which runs whatever the
\* mode (fn.go:912-1004), is all that stands against it.
THEOREM RestoreOnlyWithoutDeletions ==
  ASSUME RestoreOnlyDeletesNothing PROVE Spec => RestoreOnlyLeavesStore
<1>1. Init => RestoreInv
  BY DEF Init, RestoreInv, Running
<1>2. TypeOK /\ RestoreInv /\ [Next]_vars => RestoreInv'
  <2>1. CASE Next
    BY <2>1, RestoreStep
  <2>2. CASE UNCHANGED vars
    BY <2>2 DEF vars, local, RestoreInv, Running
  <2> QED
    BY <2>1, <2>2
<1>3. TypeOK /\ RestoreInv /\ [Next]_vars =>
        [\A c \in Calls : (Running(c) /\ mode[c].restoreOnly
                              /\ (pending'[c] # pending[c] \/ pc'[c] # pc[c])) =>
           UNCHANGED store]_vars
  BY RestoreWritesNothing
<1> QED
  BY <1>1, <1>2, <1>3, TypeCorrect, PTL DEF Spec, RestoreOnlyLeavesStore
===========================================================================
