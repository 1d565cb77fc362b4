-------------------------- MODULE MCRunFunction --------------------------
(***************************************************************************)
(* RunFunction for TLC: the situations a composed resource is found in,    *)
(* and every request that puts the resources in such situations.           *)
(***************************************************************************)
EXTENDS RunFunction

CONSTANTS c1, c2, k1, k2, r1, r2, e1, e2, n1

Orphan == [deletionPolicy |-> "Orphan", managementPolicies |-> {"*"}]
Delete == [deletionPolicy |-> "Delete", managementPolicies |-> {"*"}]

\* What the composition renders: the policies, no name and no annotation.
Rendered(spec) == [NoObject EXCEPT !.present = TRUE, !.spec = spec]

\* What Crossplane finds in the cluster: a provider has set the external name;
\* then the function has added its tracking annotations.
Live(spec) == [Rendered(spec) EXCEPT !.name = n1, !.ext = e1]
Stored(spec) == [Live(spec) EXCEPT !.storedExt = e1, !.storedName = n1]

\* Desired and observed object of one resource: not rendered, rendered and not
\* yet created, named by the composition, created, backed up, renamed since,
\* switched to Delete, gone from the composition, and rendered without a spec.
Situations ==
  {<<NoObject, NoObject>>,
   <<Rendered(Orphan), NoObject>>,
   <<[Rendered(Orphan) EXCEPT !.ext = e2], NoObject>>,
   <<Rendered(Orphan), Live(Orphan)>>,
   <<Rendered(Orphan), Stored(Orphan)>>,
   <<Rendered(Orphan), [Stored(Orphan) EXCEPT !.ext = e2]>>,
   <<Rendered(Delete), Stored(Orphan)>>,
   <<NoObject, Live(Orphan)>>,
   <<Rendered(NoSpec), Stored(Delete)>>}

\* The five ways the annotations of the composite drive a request.
Drive(enabled, purge, restoreOnly, scope, situation) ==
  [enabled |-> enabled, purge |-> purge, restoreOnly |-> restoreOnly,
   scope |-> scope,
   desired |-> [r \in Resources |-> situation[r][1]],
   observed |-> [r \in Resources |-> situation[r][2]]]

AllRequests ==
  UNION {{Drive(FALSE, FALSE, FALSE, "orphaned", s),
          Drive(TRUE, TRUE, FALSE, "orphaned", s),
          Drive(TRUE, FALSE, TRUE, "orphaned", s),
          Drive(TRUE, FALSE, FALSE, "orphaned", s),
          Drive(TRUE, FALSE, FALSE, "all", s)} :
         s \in [Resources -> Situations]}

\* What the theorems about responses assume of the requests.
ASSUME RequestsAreOrdinary == OrdinaryRequests
===========================================================================
