--------------------------- MODULE MCReconcile ---------------------------
(***************************************************************************)
(* Reconcile for TLC.                                                      *)
(***************************************************************************)
EXTENDS Reconcile, TLC

CONSTANTS c1, k1, r1, e1, e2, n1, n2

Rendered(policy) ==
  [NoObject EXCEPT !.present = TRUE,
     !.spec = [deletionPolicy |-> policy, managementPolicies |-> {"*"}]]

Orphaned == {Rendered("Orphan")}
OrphanOrDelete == {Rendered("Orphan"), Rendered("Delete")}

Config == INSTANCE CompositeConfig

\* The observed composite carries the annotations; the pipeline has made no
\* desired one.
Annotated(annotations) ==
  Config!DriveOf(
    [observed |-> [Config!NoComposite EXCEPT !.annotations = annotations],
     desired |-> Config!NoComposite])

Enabled == "enable-external-store" :> "true"

Normal == Annotated(Enabled)
RestoreOnly == Annotated(Enabled @@ "restore-only" :> "true")
Disabled == Annotated(<<>>)
Purging == Annotated(Enabled @@ "purge-external-store" :> "true")

AlwaysNormal == {Normal}
NormalOrRestoreOnly == {Normal, RestoreOnly}
NormalOrOff == {Normal, Disabled, Purging}

\* What the theorems about the loop assume of the composition.
ASSUME RenderedIsPlain == TemplatesArePlain
ASSUME RenderedIsUnnamed == TemplatesAreUnnamed
ASSUME RenderedIsSpelledOut == DeletionsAreSeen

OneKey == [c \in Calls |-> k1]
===========================================================================
