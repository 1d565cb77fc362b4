--------------------------- MODULE RunFunction ---------------------------
(***************************************************************************)
(* RunFunction (fn.go): the handler of one request, run by several calls   *)
(* at once against one store.  Each store call is a step of its own; the   *)
(* code between two store calls reads and writes nothing but the call's    *)
(* own request, so it belongs to the step it follows.  A store call        *)
(* succeeds, fails, or loses its answer: the write lands and the handler   *)
(* sees an error.                                                          *)
(*                                                                         *)
(* The store is the one ResourceStore (store.go) describes: every          *)
(* operation atomic, one map of resources per key, a key being a cluster   *)
(* ID and a composition key.                                               *)
(***************************************************************************)
EXTENDS ResourceData, Naturals

CONSTANTS
  Calls,      \* concurrent invocations of the function
  Keys,       \* cluster ID and composition key
  Scopes,     \* values of the backup-scope annotation
  Requests,   \* the requests a call may be given
  Exclusive,  \* TRUE: no two running calls are about the same key
  MaxFaults   \* bound on store calls that fail or lose their answer

\* What Crossplane sends: the composite's annotations as far as they drive the
\* passes, and its composed resources, as rendered and as found.
Request ==
  [enabled : BOOLEAN, purge : BOOLEAN, restoreOnly : BOOLEAN,
   scope : Scopes, desired : Objects, observed : Objects]

ASSUME RunFunctionAssumption ==
  /\ Keys # {} /\ Scopes # {}
  /\ Exclusive \in BOOLEAN
  /\ MaxFaults \in Nat
  /\ Requests \subseteq Request

\* A request as Crossplane, the composition and the providers make it: what is
\* rendered carries none of the function's own annotations, and an object that
\* says its external name is stored is there with both its names.
Ordinary(rq) ==
  \A r \in Resources :
    /\ rq.desired[r].storedExt = None /\ rq.desired[r].storedName = None
    /\ ~rq.desired[r].deleted
    /\ rq.observed[r].storedExt # None =>
         rq.observed[r].present /\ rq.observed[r].ext # None /\ rq.observed[r].name # None

OrdinaryRequests == \A rq \in Requests : Ordinary(rq)

VARIABLES
  store,     \* [Keys -> Composition], the external store
  pc,        \* where each call stands
  key,       \* compositionKey of a running call
  mode,      \* requireRestore and backupScope of a running call
  desired,   \* the response's desired resources, changed in place
  observed,  \* the request's observed resources, changed in place
  loaded,    \* resourceDataStore[compositionKey], the local cache
  pending,   \* resources the deletion pass has still to delete
  faults     \* store calls that went wrong so far

local == <<key, mode, observed, loaded, pending>>
vars == <<store, pc, local, desired, faults>>

Mode == [restoreOnly : BOOLEAN, scope : Scopes]

\* "deleting": in the deletion pass; "purged": past the purge of an empty
\* composition; "done": a response with results; "fatal": a fatal response.
PC == {"idle", "deleting", "purged", "done", "fatal"}
Running(c) == pc[c] \in {"deleting", "purged"}

\* Every variable has its type: above all, no step takes an external name for
\* a metadata.name or the other way round (store.go:8-13).
TypeOK ==
  /\ store \in [Keys -> Composition]
  /\ pc \in [Calls -> PC]
  /\ key \in [Calls -> Keys]
  /\ mode \in [Calls -> Mode]
  /\ desired \in [Calls -> Objects]
  /\ observed \in [Calls -> Objects]
  /\ loaded \in [Calls -> Composition]
  /\ pending \in [Calls -> SUBSET Resources]
  /\ faults \in 0..MaxFaults

\* The locals of a call that does not run.
NoKey == CHOOSE k \in Keys : TRUE
NoMode == [restoreOnly |-> FALSE, scope |-> CHOOSE s \in Scopes : TRUE]

Init ==
  /\ store = [k \in Keys |-> EmptyComposition]
  /\ pc = [c \in Calls |-> "idle"]
  /\ key = [c \in Calls |-> NoKey]
  /\ mode = [c \in Calls |-> NoMode]
  /\ desired = [c \in Calls |-> NoObjects]
  /\ observed = [c \in Calls |-> NoObjects]
  /\ loaded = [c \in Calls |-> EmptyComposition]
  /\ pending = [c \in Calls |-> {}]
  /\ faults = 0

---------------------------------------------------------------------------
(* The end of a call: it returns a response and its locals are gone. *)

Forget(c) ==
  /\ key' = [key EXCEPT ![c] = NoKey]
  /\ mode' = [mode EXCEPT ![c] = NoMode]
  /\ observed' = [observed EXCEPT ![c] = NoObjects]
  /\ loaded' = [loaded EXCEPT ![c] = EmptyComposition]
  /\ pending' = [pending EXCEPT ![c] = {}]

Leave(c, place, objects) ==
  /\ pc' = [pc EXCEPT ![c] = place]
  /\ desired' = [desired EXCEPT ![c] = objects]
  /\ Forget(c)

Respond(c, objects) == Leave(c, "done", objects)

\* Crossplane drops the desired state of a response with a fatal result.
Fail(c) == Leave(c, "fatal", NoObjects)

\* How a store call may end.  "lost" is a timeout or a dropped connection
\* after the store did the work.
Outcomes == {"ok", "failed", "lost"}
Ends(outcome) ==
  \/ outcome = "ok" /\ UNCHANGED faults
  \/ outcome # "ok" /\ faults < MaxFaults /\ faults' = faults + 1

\* The store operations.
Purge(st, k) == [st EXCEPT ![k] = EmptyComposition]
DeleteResource(st, k, r) == [st EXCEPT ![k][r] = NoData]
Save(st, k, resources) == [st EXCEPT ![k] = resources]

\* The store after an operation that ended so.
After(outcome, changed) == IF outcome = "failed" THEN store ELSE changed

---------------------------------------------------------------------------
(* The first store call of a request *)

\* Crossplane runs one reconcile of a composite at a time and derives the key
\* from the composite; override annotations and a shared cluster ID break it.
Admissible(c, k) ==
  /\ pc[c] = "idle"
  /\ Exclusive => \A d \in Calls \ {c} : Running(d) => key[d] # k

\* The response without the passes: the desired state as it came.  A slip
\* merges the observed annotations into it, as the full response does.
BypassedMerged(rq) ==
  [r \in Resources |->
     IF rq.desired[r].present THEN MergeObserved(rq.desired[r], rq.observed[r])
     ELSE rq.desired[r]]
Bypassed(rq) == rq.desired

\* The enable annotation is missing.
Skip(c, rq) ==
  /\ pc[c] = "idle"
  /\ ~rq.enabled
  /\ Respond(c, Bypassed(rq))
  /\ UNCHANGED <<store, faults>>

\* The purge annotation is set: purge the composition and return.
PurgeComposition(c, k, rq) ==
  /\ Admissible(c, k)
  /\ rq.enabled /\ rq.purge
  /\ \E outcome \in Outcomes :
       /\ Ends(outcome)
       /\ store' = After(outcome, Purge(store, k))
       /\ IF outcome = "ok" THEN Respond(c, Bypassed(rq)) ELSE Fail(c)

ToDelete(rq) == {r \in Resources : Discards(rq.desired[r], rq.observed[r])}

\* Load the composition: this was found.  restore-only fails on an empty one.
LoadFound(c, k, rq, found) ==
  /\ Admissible(c, k)
  /\ rq.enabled /\ ~rq.purge
  /\ UNCHANGED <<store, faults>>
  /\ IF rq.restoreOnly /\ found = EmptyComposition
     THEN Fail(c)
     ELSE /\ pc' = [pc EXCEPT ![c] = "deleting"]
          /\ key' = [key EXCEPT ![c] = k]
          /\ mode' = [mode EXCEPT ![c] =
                        [restoreOnly |-> rq.restoreOnly, scope |-> rq.scope]]
          /\ desired' = [desired EXCEPT ![c] = rq.desired]
          /\ observed' = [observed EXCEPT ![c] = rq.observed]
          /\ loaded' = [loaded EXCEPT ![c] = found]
          /\ pending' = [pending EXCEPT ![c] = ToDelete(rq)]

Load(c, k, rq) == LoadFound(c, k, rq, store[k])

LoadFails(c, k, rq) ==
  /\ Admissible(c, k)
  /\ rq.enabled /\ ~rq.purge
  /\ faults < MaxFaults /\ faults' = faults + 1
  /\ Fail(c)
  /\ UNCHANGED store

---------------------------------------------------------------------------
(* The deletion pass, in the order the map iteration happens to take *)

\* Two slips: the cache, or the tracking annotations, cleared before the
\* store's answer is looked at.
DroppedCacheFirst(c, r, outcome) ==
  /\ loaded' = [loaded EXCEPT ![c][r] = NoData]
  /\ IF outcome = "ok" THEN observed' = [observed EXCEPT ![c][r] = Untracked(@)]
                       ELSE UNCHANGED observed
DroppedTrackingFirst(c, r, outcome) ==
  /\ observed' = [observed EXCEPT ![c][r] = Untracked(@)]
  /\ IF outcome = "ok" THEN loaded' = [loaded EXCEPT ![c][r] = NoData]
                       ELSE UNCHANGED loaded

\* A failed delete is logged and no more: the cache and the observed tracking
\* annotations stay, and the merge at the end brings the annotations back.
Dropped(c, r, outcome) ==
  IF outcome = "ok"
  THEN /\ loaded' = [loaded EXCEPT ![c][r] = NoData]
       /\ observed' = [observed EXCEPT ![c][r] = Untracked(@)]
  ELSE UNCHANGED <<loaded, observed>>

DeleteOne(c, r) ==
  /\ pc[c] = "deleting"
  /\ r \in pending[c]
  /\ pending' = [pending EXCEPT ![c] = @ \ {r}]
  /\ desired' = [desired EXCEPT ![c][r] = MarkDeleted(@)]
  /\ \E outcome \in Outcomes :
       /\ Ends(outcome)
       /\ store' = After(outcome, DeleteResource(store, key[c], r))
       /\ Dropped(c, r, outcome)
  /\ UNCHANGED <<pc, key, mode>>

\* After all deletions, a composition without data is purged; a failure of
\* that purge is logged and no more.
AlwaysEmpty(c) == TRUE  \* a slip: no look at what is left
IsEmpty(c) == loaded[c] = EmptyComposition

PurgeEmpty(c) ==
  /\ pc[c] = "deleting"
  /\ pending[c] = {}
  /\ IsEmpty(c)
  /\ pc' = [pc EXCEPT ![c] = "purged"]
  /\ \E outcome \in Outcomes :
       /\ Ends(outcome)
       /\ store' = After(outcome, Purge(store, key[c]))
  /\ UNCHANGED <<local, desired>>

---------------------------------------------------------------------------
(* Restoration, backup and the response *)

PastDeletes(c) ==
  \/ pc[c] = "purged"
  \/ pc[c] = "deleting" /\ pending[c] = {} /\ ~IsEmpty(c)

\* A slip: only what is observed restored.
RestoreObserved(c) ==
  [r \in Resources |->
     IF observed[c][r].present
     THEN Restored(desired[c][r], observed[c][r], loaded[c][r])
     ELSE desired[c][r]]

\* The second pass over the desired resources.
RestorePass(c) ==
  [r \in Resources |->
     LET d == desired[c][r]
     IN  IF d.present /\ (mode[c].restoreOnly \/ ShouldProcess(d, mode[c].scope))
         THEN Restored(d, observed[c][r], loaded[c][r])
         ELSE d]

\* restore-only wants data for every desired resource.
RestoreIncomplete(c) ==
  /\ mode[c].restoreOnly
  /\ \E r \in Resources : desired[c][r].present /\ loaded[c][r] = NoData

\* The pass over the observed resources: newResourceData.  The scope decision
\* taken for a desired resource also holds for the observed one.
NewResourceData(c) ==
  [r \in Resources |->
     LET d == desired[c][r]
         o == observed[c][r]
     IN  IF o.present
         THEN NewData(o, ShouldProcess(IF d.present THEN d ELSE o, mode[c].scope))
         ELSE NoData]

OnlyNewResourceData(c) == NewResourceData(c)  \* a slip: the merge left out

AllResourceData(c) ==
  [r \in Resources |-> MergeData(loaded[c][r], NewResourceData(c)[r])]

\* The desired state of the response: restored, tracked for what was stored,
\* and the observed annotations merged over both.
Response(c, stored) ==
  [r \in Resources |->
     LET d == RestorePass(c)[r]
     IN  IF d.present
         THEN MergeObserved(Tracked(d, stored[r]), observed[c][r])
         ELSE d]

RestoreFails(c) ==
  /\ PastDeletes(c)
  /\ RestoreIncomplete(c)
  /\ Fail(c)
  /\ UNCHANGED <<store, faults>>

\* restore-only never backs up, and nothing new needs no write.
SavesNothing(c) == mode[c].restoreOnly \/ NewResourceData(c) = EmptyComposition

RespondUnsaved(c) ==
  /\ PastDeletes(c)
  /\ ~RestoreIncomplete(c)
  /\ SavesNothing(c)
  /\ Respond(c, Response(c, EmptyComposition))
  /\ UNCHANGED <<store, faults>>

\* Save writes the whole composition: the loaded data with the new data merged
\* in.  Only after it succeeds are tracking annotations added.
AnswerUnchecked(c, outcome) ==  \* a slip: the error of Save not looked at
  Respond(c, Response(c, NewResourceData(c)))
AnswerSaved(c, outcome) ==
  IF outcome = "ok" THEN Respond(c, Response(c, NewResourceData(c))) ELSE Fail(c)

SaveAndRespond(c) ==
  /\ PastDeletes(c)
  /\ ~RestoreIncomplete(c)
  /\ ~SavesNothing(c)
  /\ \E outcome \in Outcomes :
       /\ Ends(outcome)
       /\ store' = After(outcome, Save(store, key[c], AllResourceData(c)))
       /\ AnswerSaved(c, outcome)

\* The call is lost between two store calls: the function restarts, or the
\* caller's deadline passes.
Abandon(c) ==
  /\ Running(c)
  /\ Leave(c, "idle", NoObjects)
  /\ UNCHANGED <<store, faults>>

\* The caller takes the response.
Return(c) ==
  /\ pc[c] \in {"done", "fatal"}
  /\ pc' = [pc EXCEPT ![c] = "idle"]
  /\ desired' = [desired EXCEPT ![c] = NoObjects]
  /\ UNCHANGED <<store, local, faults>>

---------------------------------------------------------------------------

Start(c) ==
  \E rq \in Requests :
    \/ Skip(c, rq)
    \/ \E k \in Keys :
         \/ PurgeComposition(c, k, rq)
         \/ Load(c, k, rq)
         \/ LoadFails(c, k, rq)

Continue(c) ==
  \/ \E r \in Resources : DeleteOne(c, r)
  \/ PurgeEmpty(c)
  \/ RestoreFails(c)
  \/ RespondUnsaved(c)
  \/ SaveAndRespond(c)

Next ==
  \E c \in Calls : Start(c) \/ Continue(c) \/ Abandon(c) \/ Return(c)

Spec == Init /\ [][Next]_vars

---------------------------------------------------------------------------
(* Safety *)

\* Crossplane reconciles a composite once at a time, so that no two running
\* calls are about one key (not a fact about this code: see Admissible).
NoOverlap ==
  \A c, d \in Calls : c # d /\ Running(c) /\ Running(d) => key[c] # key[d]

\* What a running call holds of a resource is what the store holds, or the
\* store has no entry any more, because a delete the call took for failed did
\* take effect (fn.go:847, the cache that every later decision is taken on).
CacheCoherent ==
  \A c \in Calls : Running(c) =>
    \A r \in Resources :
      \/ loaded[c][r] = store[key[c]][r]
      \/ store[key[c]][r] = NoData

\* A stored name goes away only by the purge annotation (a call's first step)
\* or by the deletion pass, and then it is the resource being deleted that
\* loses it: neither the Save of the whole map (fn.go:1277-1298) nor the purge
\* of an empty composition (fn.go:987-1004) drops one.
Loses(k, r) ==
  \/ store[k][r].ext # None /\ store'[k][r].ext = None
  \/ store[k][r].name # None /\ store'[k][r].name = None

NamesLeaveOnlyWhenTold ==
  [][\A k \in Keys, r \in Resources : Loses(k, r) =>
       \E c \in Calls :
         \/ pc[c] = "idle" /\ pc'[c] # "idle"
         \/ pc[c] = "deleting" /\ key[c] = k /\ r \in pending[c] \ pending'[c]]_vars

Answers(c) == Running(c) /\ pc'[c] = "done"

\* A response says a name is stored (its tracking annotation) only when the
\* request's observed object said so already or the store holds that name at
\* that moment: no tracking before a Save succeeded (fn.go:1298-1304).
TrackingIsBacked ==
  [][\A c \in Calls, r \in Resources : Answers(c) =>
       /\ desired'[c][r].storedExt \in
            {None, observed[c][r].storedExt, store'[key[c]][r].ext}
       /\ desired'[c][r].storedName \in
            {None, observed[c][r].storedName, store'[key[c]][r].name}]_vars

\* A deletion that did not take effect is tried again by a later request: at
\* the response, a resource taken through the deletion pass and out of scope
\* has left the store, or its response still carries the stored-external-name
\* that makes the next request delete it (fn.go:914-930).
FailedDeleteIsRetried ==
  [][\A c \in Calls, r \in Resources :
       (Answers(c) /\ desired[c][r].deleted
          /\ ~ShouldProcess(desired[c][r], mode[c].scope)) =>
         \/ store'[key[c]][r].ext = None
         \/ desired'[c][r].storedExt # None]_vars

\* A name that leaves the store without being told to leaves it because the
\* call that writes has not seen it: what its cache has of a resource it
\* writes back (fn.go:1276-1298), and it purges an empty composition only while
\* its cache is empty (fn.go:987-1004).  This holds even when two calls are
\* about one key, or when a Load returns old data.
Unseen(c, k, r) ==
  /\ Running(c) /\ pc'[c] # pc[c] /\ key[c] = k
  /\ store[k][r].ext # None /\ store'[k][r].ext = None => loaded[c][r].ext = None
  /\ store[k][r].name # None /\ store'[k][r].name = None => loaded[c][r].name = None

OnlyUnseenNamesAreLost ==
  [][\A k \in Keys, r \in Resources : Loses(k, r) =>
       \E c \in Calls :
         \/ pc[c] = "idle" /\ pc'[c] # "idle"
         \/ pc[c] = "deleting" /\ key[c] = k /\ r \in pending[c] \ pending'[c]
         \/ Unseen(c, k, r)]_vars

\* Of the names a response may give a resource, the observed one comes first,
\* then the one the composition sets, and only where neither is known the one
\* stored for this very resource under this key, whatever other calls do
\* meanwhile (fn.go:1042-1155, 478-480).
Chosen(observedName, desiredName, stored, name) ==
  IF observedName = None /\ desiredName = None
  THEN name \in {None, stored}
  ELSE name = Prefer(observedName, desiredName)

RestoresStoredName ==
  [][\A c \in Calls, r \in Resources : Answers(c) /\ desired[c][r].present =>
       /\ Chosen(observed[c][r].ext, desired[c][r].ext,
                 store[key[c]][r].ext, desired'[c][r].ext)
       /\ desired[c][r].name = None =>
            desired'[c][r].name \in {None, store[key[c]][r].name}
       /\ desired[c][r].name # None => UNCHANGED desired[c][r].name]_vars

\* restore-only leaves the stored data as it is (README.md:404).
RestoreOnlyLeavesStore ==
  [][\A c \in Calls : (Running(c) /\ mode[c].restoreOnly
                          /\ (pending'[c] # pending[c] \/ pc'[c] # pc[c])) =>
       UNCHANGED store]_vars
===========================================================================
