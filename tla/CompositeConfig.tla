------------------------- MODULE CompositeConfig -------------------------
(***************************************************************************)
(* What RunFunction reads off the composite of a request: whether it is    *)
(* enabled, which store it uses, what it is to do, and the composition key *)
(* (fn.go:100-173, 257-274, 360-411, 702-813).                             *)
(*                                                                         *)
(* A composite has its annotations as a function from their names, without *)
(* the prefix fn.crossplane.io/.  None is the empty string, which the code *)
(* reads as "not set", and a composite that is missing from the request    *)
(* reads like one in which nothing is set.                                 *)
(***************************************************************************)
EXTENDS Sequences

CONSTANT None  \* the empty string

NoComposite ==
  [group |-> None, version |-> None, kind |-> None, name |-> None,
   namespace |-> None, claimNamespace |-> None, claimName |-> None,
   annotations |-> <<>>]

\* getAnnotationValue.
Value(xr, a) == IF a \in DOMAIN xr.annotations THEN xr.annotations[a] ELSE None

FirstSet(first, second, default) ==
  IF first # None THEN first ELSE IF second # None THEN second ELSE default

---------------------------------------------------------------------------
(* Switches *)

Truthy == {"true", "yes", "1"}

ASSUME EmptyAssumption == None \notin Truthy \cup {"none"}

\* shouldEnableExternalStore, shouldPurgeExternalStore: either composite may
\* say so.
IsOn(rq, a) == {Value(rq.desired, a), Value(rq.observed, a)} \cap Truthy # {}

ShouldEnable(rq) == IsOn(rq, "enable-external-store")
ShouldPurge(rq) == IsOn(rq, "purge-external-store")

\* shouldRequireRestore takes no other word than "true".
ShouldRequireRestore(rq) ==
  "true" \in {Value(rq.observed, "restore-only"), Value(rq.desired, "restore-only")}

---------------------------------------------------------------------------
(* Configuration *)

\* A slip: the desired composite, which an earlier function may have made
\* without the annotations, the only one to be read.
SettingDesired(rq, a, default) == FirstSet(Value(rq.desired, a), None, default)

\* getConfigAnnotation: the observed composite is the source of truth.
Setting(rq, a, default) ==
  FirstSet(Value(rq.observed, a), Value(rq.desired, a), default)

ClusterID(rq) == Setting(rq, "cluster-id", "default")
StoreType(rq) == Setting(rq, "store-type", "awsdynamodb")
BackupScope(rq) == Setting(rq, "backup-scope", "orphaned")

\* Where the chosen store keeps its data.
Location(rq) ==
  CASE StoreType(rq) = "awsdynamodb" ->
         <<Setting(rq, "dynamodb-table", "external-name-backup"),
           Setting(rq, "dynamodb-region", "us-west-2")>>
    [] StoreType(rq) = "k8sconfigmap" ->
         <<Setting(rq, "configmap-namespace", "crossplane-system")>>
    [] OTHER -> <<>>

\* How the request drives the passes of RunFunction.
DriveOf(rq) ==
  [enabled |-> ShouldEnable(rq), purge |-> ShouldPurge(rq),
   restoreOnly |-> ShouldRequireRestore(rq), scope |-> BackupScope(rq)]

---------------------------------------------------------------------------
(* The composition key *)

\* Two slips: the identity taken from the desired composite, and an override
\* looked for in the desired composite only.
DesiredComposite(rq) == rq.desired
OverrideDesired(rq, a, default) == FirstSet(Value(rq.desired, a), None, default)

\* The composite that says who the request is about.
Composite(rq) == rq.observed

Override(rq, a, default) ==
  FirstSet(Value(rq.desired, a), Value(rq.observed, a), default)

\* A slip: no namespace but that of a claim.
ClaimNamespaceOnly(xr) == FirstSet(xr.claimNamespace, None, "none")
ClaimNamespace(xr) == FirstSet(xr.claimNamespace, xr.namespace, "none")
ClaimName(xr) == FirstSet(xr.claimName, None, "none")

\* {namespace}/{claimName}/{apiVersion}/{kind}/{name}, in its parts; of the
\* apiVersion, group and version.
CompositionKey(rq) ==
  LET xr == Composite(rq)
  IN  <<Override(rq, "override-namespace", ClaimNamespace(xr)), ClaimName(xr),
        xr.group, xr.version,
        Override(rq, "override-kind", xr.kind), xr.name>>

\* Where the data of the request's composition are.
Place(rq) ==
  [storeType |-> StoreType(rq), location |-> Location(rq),
   clusterID |-> ClusterID(rq), key |-> CompositionKey(rq)]
===========================================================================
