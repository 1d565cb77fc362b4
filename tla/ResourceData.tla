--------------------------- MODULE ResourceData ---------------------------
(***************************************************************************)
(* The data the function works on and the decisions it takes about one     *)
(* composed resource (fn.go, store.go).  A name is a model value and None  *)
(* stands for the empty string, which the code reads as "not set".         *)
(*                                                                         *)
(* A composed resource, desired or observed, is an Object: its spec (only  *)
(* the two policy fields the code reads), its metadata.name, and the       *)
(* annotations that decide something: crossplane.io/external-name and the  *)
(* function's stored-external-name, stored-resource-name and               *)
(* external-name-deleted.  The other timestamps the function writes are    *)
(* never read back and are left out.                                       *)
(***************************************************************************)
CONSTANTS
  Resources,  \* pipeline resource names, the keys inside a composition
  ExtNames,   \* values of the crossplane.io/external-name annotation
  ObjNames,   \* values of metadata.name
  None,       \* the empty string
  NoSpec      \* a resource without a spec

ASSUME NamesAssumption ==
  /\ None \notin ExtNames \cup ObjNames

ExtName == ExtNames \cup {None}
ObjName == ObjNames \cup {None}

\* What the store keeps for one resource.  An entry with both names empty is
\* never stored (fn.go marks an entry only when it has a name to store), so
\* the empty entry stands for "no entry".
Data == [ext : ExtName, name : ObjName]
NoData == [ext |-> None, name |-> None]

\* The stored data of one composition: map[string]ResourceData.
Composition == [Resources -> Data]
EmptyComposition == [r \in Resources |-> NoData]

---------------------------------------------------------------------------
(* Objects *)

ManagementPolicies == SUBSET {"*", "Delete", "Observe"}

Policies ==
  [deletionPolicy : {"Delete", "Orphan", "unset"},
   managementPolicies : ManagementPolicies]

Object ==
  [present : BOOLEAN, spec : Policies \cup {NoSpec},
   name : ObjName, ext : ExtName,
   storedExt : ExtName, storedName : ObjName, deleted : BOOLEAN]

NoObject ==
  [present |-> FALSE, spec |-> NoSpec, name |-> None, ext |-> None,
   storedExt |-> None, storedName |-> None, deleted |-> FALSE]

Objects == [Resources -> Object]
NoObjects == [r \in Resources |-> NoObject]

\* getAnnotationValueFromResource, getMetadataNameFromResource: the desired
\* value, and the observed one where the desired one is not set.
Prefer(first, fallback) == IF first # None THEN first ELSE fallback

---------------------------------------------------------------------------
(* Decisions *)

\* Whether Crossplane would delete the cloud resource as far as the
\* management policies say: they contain "*" or "Delete".
AllowsDelete(spec) == spec.managementPolicies \cap {"*", "Delete"} # {}

\* checkDeletionCriteria.
DeletionCriteria(spec) ==
  /\ spec # NoSpec
  /\ spec.deletionPolicy = "Delete"
  /\ AllowsDelete(spec)

\* A slip: what is observed preferred to what is desired.
ShouldDeleteObserved(d, o) ==
  IF o.spec # NoSpec THEN DeletionCriteria(o.spec) ELSE DeletionCriteria(d.spec)

\* shouldDeleteFromExternalStoreWithFallback: the observed spec counts only
\* when the desired resource has none.
ShouldDelete(d, o) ==
  IF d.spec # NoSpec THEN DeletionCriteria(d.spec) ELSE DeletionCriteria(o.spec)

\* The deletion pass takes a desired resource out of the store when one of the
\* two objects says an external name was stored and the policies now delete it.
Discards(d, o) ==
  /\ d.present
  /\ Prefer(d.storedExt, o.storedExt) # None
  /\ ShouldDelete(d, o)

\* shouldProcessResource: scope "orphaned" wants a resource that survives the
\* deletion of its object; any other scope processes everything.
ShouldProcess(obj, scope) ==
  \/ scope # "orphaned"
  \/ /\ obj.spec # NoSpec
     /\ \/ obj.spec.deletionPolicy = "Orphan"
        \/ ~AllowsDelete(obj.spec)

---------------------------------------------------------------------------
(* What the passes of RunFunction do to one resource *)

\* The desired resource after the deletion pass, whether or not the store
\* could delete its entry.
MarkDeleted(d) == [d EXCEPT !.storedExt = None, !.deleted = TRUE]

\* removeTrackingAnnotationsFromObserved, and a slip that forgets one of them.
UntrackedName(o) == [o EXCEPT !.storedName = None]
Untracked(o) == [o EXCEPT !.storedExt = None, !.storedName = None]

\* Two slips: the two stored names taken for each other, and a restoration
\* that does not look for a name the resource already has.
RestoredCrossed(d, o, data) ==
  [d EXCEPT !.name = IF Prefer(@, o.name) = None THEN data.ext ELSE @]

RestoredOverExisting(d, o, data) ==
  [d EXCEPT !.name = Prefer(data.name, @), !.storedName = Prefer(data.name, @),
            !.ext = Prefer(data.ext, @), !.storedExt = Prefer(data.ext, @)]

\* The second pass: a name that neither object has is taken from the store,
\* and the tracking annotation with it.
Restored(d, o, data) ==
  LET name == IF Prefer(d.name, o.name) = None THEN data.name ELSE None
      ext  == IF Prefer(d.ext, o.ext) = None THEN data.ext ELSE None
  IN  [d EXCEPT !.name = Prefer(name, @), !.storedName = Prefer(name, @),
                !.ext = Prefer(ext, @), !.storedExt = Prefer(ext, @)]

\* The observed pass: the names to back up.  An external name has to be in
\* scope, a metadata.name has not; a name the tracking annotation already
\* holds is not stored again.
NewData(o, inScope) ==
  [ext  |-> IF inScope /\ o.storedExt # o.ext THEN o.ext ELSE None,
   name |-> IF o.storedName # o.name THEN o.name ELSE None]

\* Merge new data into an existing entry: a name that is not new is kept.
MergeData(old, new) ==
  [ext |-> Prefer(new.ext, old.ext), name |-> Prefer(new.name, old.name)]

\* Tracking annotations for what was just stored.
NotTracked(d, new) == d  \* a slip
Tracked(d, new) ==
  [d EXCEPT !.storedExt = Prefer(new.ext, @), !.storedName = Prefer(new.name, @)]

\* mergeObservedAnnotations: every observed annotation overwrites the desired
\* one.
MergeObserved(d, o) ==
  [d EXCEPT !.ext = Prefer(o.ext, @), !.storedExt = Prefer(o.storedExt, @),
            !.storedName = Prefer(o.storedName, @), !.deleted = @ \/ o.deleted]
===========================================================================
