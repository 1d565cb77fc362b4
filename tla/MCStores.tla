----------------------------- MODULE MCStores -----------------------------
(***************************************************************************)
(* Stores for TLC: saves of one resource and of both, and composition keys *)
(* of the lengths of two of the README's: that of the namespaced composite *)
(* standalone-db, and that of the cluster-scoped one (README.md:308, 312). *)
(***************************************************************************)
EXTENDS Stores

CONSTANTS c1, c2, k0, k1, k2, r1, r2, e1

Entry == [ext |-> e1, name |-> None]

OneOrBoth ==
  {[EmptyComposition EXCEPT ![r1] = Entry], [r \in Resources |-> Entry]}

NamespacedKeys == [k \in Keys |-> 63]
ClusterScopedKeys == [k \in Keys |-> 61]
===========================================================================
