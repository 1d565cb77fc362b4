---------------------------- MODULE Reconcile ----------------------------
(***************************************************************************)
(* The loop the function lives in: Crossplane reconciles a composite, runs *)
(* the function on what it renders and finds in the cluster, and applies   *)
(* the response; providers create cloud resources and name them; the store *)
(* outlives the cluster.  Every step of the function is RunFunction's.     *)
(*                                                                         *)
(* What is not the function (Crossplane, the providers, the user) is not   *)
(* in this repository and is modelled from what the code expects of it:    *)
(* annotations that are not in the desired state again are lost (fn.go:    *)
(* 1405), an external name once set stays, a fatal response changes        *)
(* nothing, and one reconcile of a composite runs at a time.               *)
(***************************************************************************)
EXTENDS RunFunction

CONSTANTS
  KeyOf,        \* the composition key of each composite: [Calls -> Keys]
  Drives,       \* what the composite's annotations may ask for
  Templates,    \* what the composition may render for a resource
  MaxEdits,     \* bound on changes to the composition
  MaxSwitches,  \* bound on changes to the composite's annotations
  MaxRenames,   \* bound on changes of an external name
  MaxDisasters, \* bound on losses of the whole cluster
  MaxDrops      \* bound on responses that are never applied

ASSUME ReconcileAssumption ==
  /\ KeyOf \in [Calls -> Keys]
  /\ \A c, d \in Calls : c # d => KeyOf[c] # KeyOf[d]
  /\ Drives \subseteq [enabled : BOOLEAN, purge : BOOLEAN,
                       restoreOnly : BOOLEAN, scope : Scopes]
  /\ Drives # {}
  /\ Templates \subseteq Object
  /\ Templates # {}
  /\ MaxEdits \in Nat /\ MaxSwitches \in Nat /\ MaxRenames \in Nat
  /\ MaxDisasters \in Nat /\ MaxDrops \in Nat

\* What a composition renders carries none of the function's own annotations.
TemplatesArePlain ==
  \A t \in Templates : t.storedExt = None /\ t.storedName = None /\ ~t.deleted

\* What a composition renders has no external name yet: providers make them.
TemplatesAreUnnamed == \A t \in Templates : t.ext = None

\* Whether a provider deletes the cloud resource with its object: unset policies
\* are "Delete" and "*" to it, and a "Delete" among the management policies
\* counts for more than the deletionPolicy.
ProviderDeletes(spec) ==
  \/ spec = NoSpec
  \/ "Delete" \in spec.managementPolicies
  \/ /\ spec.deletionPolicy # "Orphan"
     /\ spec.managementPolicies = {} \/ "*" \in spec.managementPolicies

\* The function sees every deletion coming: policies a provider deletes for are
\* spelled out, as checkDeletionCriteria wants them (fn.go:525-549).
DeletionsAreSeen ==
  \A t \in Templates : ProviderDeletes(t.spec) => DeletionCriteria(t.spec)

\* Every composite has the function enabled, and they agree on what is in scope.
AlwaysOn == \A a, b \in Drives : a.enabled /\ a.scope = b.scope

\* Nobody asks for restoration only.
NeverRestoreOnly == \A a \in Drives : ~a.restoreOnly

VARIABLES
  drive,     \* the annotations of each composite
  template,  \* what the composition renders for each of its resources
  objects,   \* the composed resources in the cluster
  cloud,     \* the cloud resources made for each composed resource
  spent      \* how much of each bound is used up

cluster == <<drive, template, objects, cloud, spent>>
allvars == <<vars, cluster>>

\* The types of the function's state and of the cluster around it; the names
\* the function puts on objects come back to it as observed ones.
ReconcileTypeOK ==
  /\ TypeOK
  /\ drive \in [Calls -> Drives]
  /\ template \in [Calls -> [Resources -> Templates \cup {NoObject}]]
  /\ objects \in [Calls -> Objects]
  /\ cloud \in [Calls -> [Resources -> SUBSET ExtNames]]
  /\ spent \in [edits : 0..MaxEdits, switches : 0..MaxSwitches,
               renames : 0..MaxRenames, disasters : 0..MaxDisasters,
               drops : 0..MaxDrops]

ReconcileInit ==
  /\ Init
  /\ drive \in [Calls -> Drives]
  /\ template \in [Calls -> [Resources -> Templates]]
  /\ objects = [c \in Calls |-> NoObjects]
  /\ cloud = [c \in Calls |-> [r \in Resources |-> {}]]
  /\ spent = [edits |-> 0, switches |-> 0, renames |-> 0, disasters |-> 0,
              drops |-> 0]

---------------------------------------------------------------------------
(* Crossplane *)

\* The request: what the composition renders and what the cluster holds.
RequestOf(c) ==
  [enabled |-> drive[c].enabled, purge |-> drive[c].purge,
   restoreOnly |-> drive[c].restoreOnly, scope |-> drive[c].scope,
   desired |-> template[c], observed |-> objects[c]]

Begin(c) ==
  /\ \/ Skip(c, RequestOf(c))
     \/ PurgeComposition(c, KeyOf[c], RequestOf(c))
     \/ Load(c, KeyOf[c], RequestOf(c))
     \/ LoadFails(c, KeyOf[c], RequestOf(c))
  /\ UNCHANGED cluster

Work(c) == Continue(c) /\ UNCHANGED cluster

\* One composed resource after the apply.  An object keeps its name, a new one
\* without a name is given one.  An object no longer desired is deleted.
AppliedObject(old, d, generated) ==
  IF ~d.present THEN NoObject
  ELSE [d EXCEPT !.name = IF old.present THEN old.name ELSE Prefer(@, generated),
                 !.ext = Prefer(@, old.ext)]

\* A provider deletes the cloud resource of an object that is deleted, if the
\* policies on the object let it.
CloudAfter(c, r) ==
  IF objects[c][r].present /\ ~desired[c][r].present
     /\ ProviderDeletes(objects[c][r].spec)
  THEN cloud[c][r] \ {objects[c][r].ext}
  ELSE cloud[c][r]

Apply(c) ==
  /\ pc[c] = "done"
  /\ Return(c)
  /\ \E generated \in [Resources -> ObjNames] :
       objects' = [objects EXCEPT ![c] =
         [r \in Resources |->
            AppliedObject(objects[c][r], desired[c][r], generated[r])]]
  /\ cloud' = [cloud EXCEPT ![c] = [r \in Resources |-> CloudAfter(c, r)]]
  /\ UNCHANGED <<drive, template, spent>>

GiveUp(c) ==
  /\ pc[c] = "fatal"
  /\ Return(c)
  /\ UNCHANGED cluster

---------------------------------------------------------------------------
(* What goes wrong *)

\* The call, or its response, is lost: the function restarts, the deadline
\* passes, another function of the pipeline fails, the apply fails.
Drop(c) ==
  /\ spent.drops < MaxDrops
  /\ spent' = [spent EXCEPT !.drops = @ + 1]
  /\ Abandon(c) \/ (pc[c] = "done" /\ Return(c))
  /\ UNCHANGED <<drive, template, objects, cloud>>

\* The cluster is lost and set up again from Git; the store and the cloud
\* resources are still there.
Disaster ==
  /\ spent.disasters < MaxDisasters
  /\ spent' = [spent EXCEPT !.disasters = @ + 1]
  /\ objects' = [c \in Calls |-> NoObjects]
  /\ pc' = [c \in Calls |-> "idle"]
  /\ key' = [c \in Calls |-> NoKey]
  /\ mode' = [c \in Calls |-> NoMode]
  /\ desired' = [c \in Calls |-> NoObjects]
  /\ observed' = [c \in Calls |-> NoObjects]
  /\ loaded' = [c \in Calls |-> EmptyComposition]
  /\ pending' = [c \in Calls |-> {}]
  /\ UNCHANGED <<store, faults, drive, template, cloud>>

---------------------------------------------------------------------------
(* Providers and users *)

Unused == ExtNames \ UNION {cloud[c][r] : c \in Calls, r \in Resources}

\* A provider finds no external name: it makes a cloud resource and names it.
ProviderCreates(c, r) ==
  /\ objects[c][r].present
  /\ objects[c][r].ext = None
  /\ \E e \in Unused :
       /\ objects' = [objects EXCEPT ![c][r].ext = e]
       /\ cloud' = [cloud EXCEPT ![c][r] = @ \cup {e}]
  /\ UNCHANGED <<vars, drive, template, spent>>

\* The external name is changed to another cloud resource, or back.
Rename(c, r) ==
  /\ spent.renames < MaxRenames
  /\ spent' = [spent EXCEPT !.renames = @ + 1]
  /\ objects[c][r].ext # None
  /\ \E e \in (Unused \cup cloud[c][r]) \ {objects[c][r].ext} :
       /\ objects' = [objects EXCEPT ![c][r].ext = e]
       /\ cloud' = [cloud EXCEPT ![c][r] = @ \cup {e}]
  /\ UNCHANGED <<vars, drive, template>>

\* The composition changes: other policies, or the resource dropped or back.
Compose(c, r) ==
  /\ spent.edits < MaxEdits
  /\ spent' = [spent EXCEPT !.edits = @ + 1]
  /\ \E t \in Templates \cup {NoObject} :
       /\ t # template[c][r]
       /\ template' = [template EXCEPT ![c][r] = t]
  /\ UNCHANGED <<vars, drive, objects, cloud>>

\* The composite's annotations change.
Annotate(c) ==
  /\ spent.switches < MaxSwitches
  /\ spent' = [spent EXCEPT !.switches = @ + 1]
  /\ \E a \in Drives \ {drive[c]} : drive' = [drive EXCEPT ![c] = a]
  /\ UNCHANGED <<vars, template, objects, cloud>>

---------------------------------------------------------------------------

Reconciles(c) == Begin(c) \/ Work(c) \/ Apply(c) \/ GiveUp(c)

ReconcileNext ==
  \/ Disaster
  \/ \E c \in Calls :
       \/ Reconciles(c)
       \/ Drop(c)
       \/ Annotate(c)
       \/ \E r \in Resources :
            ProviderCreates(c, r) \/ Rename(c, r) \/ Compose(c, r)

ReconcileSpec == ReconcileInit /\ [][ReconcileNext]_allvars

\* A response tells Crossplane to come back after a minute (response.DefaultTTL,
\* fn.go:635), and a failed reconcile is queued again: reconciling never stops.
FairSpec == ReconcileSpec /\ \A c \in Calls : WF_allvars(Reconciles(c))

---------------------------------------------------------------------------
(* Safety *)

\* What the function is for (README.md:34-37): a provider makes a new cloud
\* resource for an object that is in scope only if the store has no name for
\* it, whatever was lost or went wrong before.
NoDuplicate ==
  [][\A c \in Calls, r \in Resources :
       (/\ objects[c][r].present /\ objects[c][r].ext = None
        /\ objects'[c][r].ext # None
        /\ ShouldProcess(objects[c][r], drive[c].scope)) =>
         store[KeyOf[c]][r].ext = None]_allvars

\* The annotations of the composite ask for backup and restoration.
BacksUp(c) == drive[c].enabled /\ ~drive[c].purge /\ ~drive[c].restoreOnly

\* Nothing was lost, nobody renamed anything, and the annotations stayed.
Undisturbed ==
  /\ faults = 0 /\ spent.drops = 0 /\ spent.disasters = 0
  /\ spent.renames = 0 /\ spent.switches = 0

\* A name the store gives to a new object is that of a cloud resource that
\* exists, through all changes of policy: an entry does not outlive a deletion
\* by policy (fn.go:874-1004) in an undisturbed backup with scope "orphaned",
\* as long as the policies are spelled out (DeletionsAreSeen): unset ones, which
\* delete in the provider, are in scope of a backup (597-610) and not of the
\* deletion pass (531-549).
\* (An object that gets its name back without a tracking annotation takes no
\* entry with it when its cloud resource goes: one that a disaster or a
\* restore-only phase brings back while the policies already say to delete it,
\* and one that is given the stored name by hand.)
NeverAdoptsDeleted ==
  [][\A c \in Calls, r \in Resources :
       (/\ Undisturbed /\ BacksUp(c) /\ drive[c].scope = "orphaned"
        /\ ~objects[c][r].present /\ objects'[c][r].ext # None) =>
         objects'[c][r].ext \in cloud[c][r]]_allvars

\* Between reconciles, an object that says its external name is stored is in
\* the store: the entry of a resource thought to be stored, and missing, is
\* not written again as long as the name stays the same (fn.go:1228).
TrackedMeansStored ==
  \A c \in Calls, r \in Resources :
    (pc[c] = "idle" /\ objects[c][r].storedExt # None) =>
      store[KeyOf[c]][r].ext # None

\* The same while no store call and no response was lost, through purges,
\* phases without the function and changes of policy.  (A restore-only request
\* that deletes an entry fails for want of it, fn.go:1176, and the objects keep
\* their tracking.)
TrackedMeansStoredUnlessLost ==
  (faults = 0 /\ spent.drops = 0) => TrackedMeansStored

\* What says of a composite's names which are stored: its objects, or what its
\* call or its response is about to make of them.
Tracking(c) ==
  IF Running(c) THEN observed[c] ELSE IF pc[c] = "done" THEN desired[c] ELSE objects[c]

TrackingTrue(c) ==
  /\ Running(c) => loaded[c] = store[KeyOf[c]]
  /\ \A r \in Resources :
       /\ Tracking(c)[r].storedExt # None => store[KeyOf[c]][r].ext # None
       /\ Tracking(c)[r].storedName # None => store[KeyOf[c]][r].name # None

\* The call of a composite has a store call go wrong, or ends fatally.
Errs(c) == Reconciles(c) /\ (faults' # faults \/ pc'[c] = "fatal")

\* An annotation that truly says a name is stored becomes untrue only by an
\* error of the composite's own call, or by the loss of that call or of its
\* response (fn.go:912-1004, 1277-1304): neither by a purge, a deletion or an
\* answer that works, nor by a disaster, a change of the composite or its
\* composition, or the calls of the other composites.
TrackingLostOnlyByLoss ==
  [][\A c \in Calls : TrackingTrue(c) /\ ~Drop(c) /\ ~Errs(c) =>
       TrackingTrue(c)']_allvars

\* A resource rendered as t and found as o for which a backup has nothing to
\* do: nothing to delete, to store or to restore, and no name to be set.
NothingToDo(t, o, data, scope) ==
  /\ t.present = o.present
  /\ t.present =>
       /\ ~Discards(t, o)
       /\ NewData(o, ShouldProcess(t, scope)) = NoData
       /\ ShouldProcess(t, scope) => Restored(t, o, data) = t
       /\ t.ext # None => o.ext # None

UpToDate(c, found) ==
  \A r \in Resources :
    NothingToDo(template[c][r], found[r], store[KeyOf[c]][r], drive[c].scope)

\* The objects of a composite once its response, if it has one, is applied.
ObjectsToBe(c) ==
  IF pc[c] = "done"
  THEN [r \in Resources |-> AppliedObject(objects[c][r], desired[c][r], None)]
  ELSE objects[c]

\* A call that sees the composite as it is, and has nothing to delete.
Sees(c) ==
  /\ mode[c] = [restoreOnly |-> FALSE, scope |-> drive[c].scope]
  /\ desired[c] = template[c] /\ observed[c] = objects[c]
  /\ loaded[c] = store[KeyOf[c]] /\ pending[c] = {}

\* A composite with nothing to do, whose call, if it runs, sees it as it is.
Settled(c) ==
  /\ BacksUp(c)
  /\ UpToDate(c, objects[c]) /\ UpToDate(c, ObjectsToBe(c))
  /\ Running(c) => Sees(c)

\* Nobody changes the composite, its composition or, but for the function,
\* its objects.
LeftAlone(c) ==
  /\ UNCHANGED <<drive[c], template[c], spent.disasters>>
  /\ UNCHANGED objects[c] \/ Apply(c)

\* What is rendered is there, no name on it has changed since it was stored, and
\* the scope asks to store nothing that the policies delete.
Whole(c) ==
  \A r \in Resources :
    LET t == template[c][r]
        o == objects[c][r]
    IN  t.present => /\ o.present /\ ~Discards(t, o)
                     /\ ShouldProcess(t, drive[c].scope) => ~ShouldDelete(t, o)
                     /\ t.ext # None => o.ext # None
                     /\ o.storedExt \in {None, o.ext} /\ o.storedName \in {None, o.name}

\* One answer is enough: once the answer to a request about a whole composite
\* is applied, there is nothing left to do, whether the request had to store
\* names, to restore some, or both (fn.go:1042-1406).  (With scope "all" a
\* resource is stored and deleted by turns while its policies delete it, fn.go:
\* 914-930, and a name that has changed is stored by every request, 478-480.)
OneAnswerSettles ==
  [][\A c \in Calls : Answers(c) /\ Sees(c) /\ Whole(c) /\ BacksUp(c) =>
       UpToDate(c, ObjectsToBe(c))']_allvars

\* The function agrees with itself: what one reconcile made of a composite
\* gives the next one nothing to do (fn.go:912-1304, README.md:539), and its
\* entry stays as it is, whatever calls and responses are lost and whatever
\* the other composites do.
SettledStays ==
  [][\A c \in Calls : Settled(c) /\ LeftAlone(c) =>
       Settled(c)' /\ UNCHANGED store[KeyOf[c]]]_allvars

---------------------------------------------------------------------------
(* Liveness *)

BackedUp(c, r) == store[KeyOf[c]][r].ext = objects[c][r].ext

InScope(c, r) == BacksUp(c) /\ ShouldProcess(template[c][r], drive[c].scope)

\* A purge that took effect and failed all the same leaves objects that say
\* their names are stored; the properties on backup are for the other histories.
NoPurgeLost == spent.switches = 0 \/ (faults = 0 /\ spent.drops = 0)

\* The external name of a resource that stays in scope is backed up for good,
\* in spite of failures and restarts, purges and phases without the function
\* (fn.go:1187-1298).
EventuallyBackedUp ==
  \A c \in Calls, r \in Resources :
    <>[](NoPurgeLost /\ objects[c][r].ext # None /\ InScope(c, r)
          => BackedUp(c, r))

\* Once nothing changes any more, an object that says its external name is
\* stored is in the store (fn.go:21-22), whatever was lost on the way.
TrackingSettles == <>[](NoPurgeLost => TrackedMeansStored)

\* A resource that is lost and still rendered in scope comes back under the
\* name it was stored with (fn.go:1042-1163), once no response to an earlier
\* request is on its way.
EventuallyRestored ==
  \A c \in Calls, r \in Resources, e \in ExtNames :
    (/\ pc[c] = "idle" /\ ~objects[c][r].present /\ store[KeyOf[c]][r].ext = e
     /\ template[c][r].present
     /\ []InScope(c, r)) ~>
      objects[c][r].ext = e

\* Once nothing changes any more, nothing is saved and no resource is deleted
\* from the store again (README.md:539), and the store stays as it is.  Calls of
\* Purge do go on, one for every request of a composite without data (fn.go:
\* 988-992) or with the purge annotation (818-840): they purge what is empty.
EventuallyQuiet ==
  <>[][/\ UNCHANGED store
       /\ \A c \in Calls : /\ ~SaveAndRespond(c)
                           /\ \A r \in Resources : ~DeleteOne(c, r)]_allvars
===========================================================================
