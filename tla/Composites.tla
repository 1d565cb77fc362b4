---------------------------- MODULE Composites ----------------------------
(***************************************************************************)
(* Composites over their lives, and the part of RunFunction before its     *)
(* first store call (fn.go:632-813): composites are created from their     *)
(* manifests, annotated, lost with the cluster and created again, while    *)
(* requests come for them whose desired composite an earlier function of   *)
(* the pipeline has left out, made anew or passed on (fn.go:123-126).      *)
(*                                                                         *)
(* Users, Crossplane and the pipeline are external.                        *)
(***************************************************************************)
EXTENDS CompositeConfig, FiniteSets, Integers, Sequences

Aws == INSTANCE Credentials

CONSTANTS
  Owners,       \* composites and claims, by their manifest
  Manifest,     \* [Owners -> composite without annotations]
  Annotations,  \* [Owners -> the sets of annotations it may have]
  Generated,    \* names Crossplane may generate for the composite of a claim
  Secrets,      \* what the credentials secret may be
  MaxVisits     \* bound: the visits remembered

ASSUME CompositesAssumption ==
  /\ DOMAIN Manifest = Owners /\ DOMAIN Annotations = Owners
  /\ \A o \in Owners : DOMAIN Manifest[o] = DOMAIN NoComposite
  /\ \A o \in Owners :
       /\ \A field \in {"group", "version", "kind"} : Manifest[o][field] # None
       /\ Manifest[o].claimName = None => Manifest[o].name # None
  /\ \A o \in Owners : Annotations[o] # {}
  /\ None \notin Generated
  /\ \A s \in Secrets : s.format = "text" =>
       /\ s.lines \in Seq({s.lines[i] : i \in DOMAIN s.lines})
       /\ \A i \in DOMAIN s.lines : Aws!IsLine(s.lines[i])
  /\ MaxVisits \in Nat

\* What tells the composites of a cluster apart: the claim and the kind it is
\* bound to, or the kind, namespace and name; and nobody is called "none", the
\* word the key has for what is missing.
ManifestsDiffer ==
  /\ \A o \in Owners :
       /\ "none" \notin {Manifest[o].namespace, Manifest[o].claimNamespace,
                        Manifest[o].claimName}
       /\ Manifest[o].claimName # None =>
            Manifest[o].claimNamespace # None /\ Manifest[o].namespace = None
       /\ Manifest[o].claimName = None => Manifest[o].claimNamespace = None
  /\ \A o, p \in Owners :
       (/\ \A field \in DOMAIN NoComposite \ {"annotations", "name"} :
             Manifest[o][field] = Manifest[p][field]
        /\ Manifest[o].claimName = None => Manifest[o].name = Manifest[p].name) => o = p

VARIABLES
  xrs,     \* the composites in the cluster: [Owners -> composite or NoComposite]
  secret,  \* the credentials secret
  visits   \* who has come, with what annotations, and was led to which place

compositesVars == <<xrs, secret, visits>>

IsClaim(o) == Manifest[o].claimName # None

\* What a composite created for an owner may be.
Composed(o, a, n) ==
  [Manifest[o] EXCEPT !.annotations = a, !.name = IF IsClaim(o) THEN n ELSE @]
Created(o) == {Composed(o, a, n) : a \in Annotations[o], n \in Generated}

\* The types; and a composition key has all of its parts, so that the string
\* they are joined to tells them apart (fn.go:813).
CompositesTypeOK ==
  /\ DOMAIN xrs = Owners
  /\ \A o \in Owners : xrs[o] \in Created(o) \cup {NoComposite}
  /\ secret \in Secrets
  /\ \A v \in visits :
       /\ v.owner \in Owners /\ v.annotations \in Annotations[v.owner]
       /\ Len(v.place.key) = 6
       /\ \A i \in 1..6 : v.place.key[i] # None

CompositesInit ==
  /\ xrs = [o \in Owners |-> NoComposite]
  /\ secret \in Secrets
  /\ visits = {}

---------------------------------------------------------------------------

Create(o) ==
  /\ xrs[o] = NoComposite
  /\ \E xr \in Created(o) : xrs' = [xrs EXCEPT ![o] = xr]
  /\ UNCHANGED <<secret, visits>>

Annotate(o) ==
  /\ xrs[o] # NoComposite
  /\ \E a \in Annotations[o] \ {xrs[o].annotations} :
       xrs' = [xrs EXCEPT ![o].annotations = a]
  /\ UNCHANGED <<secret, visits>>

\* The cluster is lost; the stores are not.
Disaster ==
  /\ \E o \in Owners : xrs[o] # NoComposite
  /\ xrs' = [o \in Owners |-> NoComposite]
  /\ UNCHANGED <<secret, visits>>

---------------------------------------------------------------------------
(* Requests *)

\* What the pipeline may have made of a composite.
Bare(xr) == [xr EXCEPT !.annotations = <<>>]
Desired(xr) == {NoComposite, Bare(xr), xr}

Request(xr, desired) == [observed |-> xr, desired |-> desired]

\* The credentials are read for DynamoDB only.
CredentialsFail(rq) == StoreType(rq) = "awsdynamodb" /\ Aws!Provider(secret) = "error"

Supported(rq) == StoreType(rq) \in {"awsdynamodb", "k8sconfigmap", "mock"}

\* The request is enabled and its store can be had (the table, the namespace
\* is there): it goes on to purge or to load the data at its place.
Visit(o) ==
  /\ xrs[o] # NoComposite
  /\ Cardinality(visits) < MaxVisits
  /\ \E d \in Desired(xrs[o]) :
       LET rq == Request(xrs[o], d)
       IN  /\ ShouldEnable(rq)
           /\ ~CredentialsFail(rq) /\ Supported(rq)
           /\ visits' = visits \cup
                {[owner |-> o, annotations |-> xrs[o].annotations,
                  place |-> Place(rq)]}
  /\ UNCHANGED <<xrs, secret>>

\* It is not enabled, or fails for its credentials, its store or its input:
\* nothing is read or written.
TurnAway(o) ==
  /\ xrs[o] # NoComposite
  /\ UNCHANGED compositesVars

CompositesNext ==
  \/ Disaster
  \/ \E o \in Owners : Create(o) \/ Annotate(o) \/ Visit(o) \/ TurnAway(o)

CompositesSpec == CompositesInit /\ [][CompositesNext]_compositesVars

---------------------------------------------------------------------------
(* Properties *)

IsOverridden(v) ==
  {"override-namespace", "override-kind"} \cap DOMAIN v.annotations # {}

\* Without overrides no composite ever loads, writes or purges the data of
\* another one of the cluster, whoever of them has claims, namespaces or
\* neither (fn.go:752-764, 813).
KeysAreDistinct ==
  \A v, w \in visits :
    ~IsOverridden(v) /\ ~IsOverridden(w) /\ v.place = w.place => v.owner = w.owner

\* The namespaced composite that takes the place of a cluster-scoped one.
Migrates(new, old) ==
  /\ ~IsClaim(new) /\ ~IsClaim(old)
  /\ Manifest[old].namespace = None /\ Manifest[new].namespace # None
  /\ \A field \in {"group", "version", "name"} :
       Manifest[new][field] = Manifest[old][field]

\* The migration guide as followed: both overrides, and the same cluster ID and
\* location as before.
GuideFollowed ==
  \A new, old \in Owners : Migrates(new, old) =>
    \A a \in Annotations[new], b \in Annotations[old] :
      {"override-namespace", "override-kind"} \cap DOMAIN a # {} =>
        /\ {"override-namespace", "override-kind"} \subseteq DOMAIN a
        /\ a["override-namespace"] = "none" /\ a["override-kind"] = Manifest[old].kind
        /\ \A s \in {"cluster-id", "dynamodb-table", "dynamodb-region",
                     "configmap-namespace"} :
             Value([annotations |-> a], s) = Value([annotations |-> b], s)

\* With the overrides of the migration guide a namespaced composite is led to
\* the data of the cluster-scoped one of the same name (README.md:372-396).
MigrationFindsBackup ==
  \A v, w \in visits :
    (/\ Migrates(v.owner, w.owner) /\ IsOverridden(v) /\ ~IsOverridden(w)
     /\ v.place.storeType = w.place.storeType) => v.place = w.place

\* Whether the pipeline hands on the annotations of the composite, makes it
\* anew without them or leaves it out: the request has the same effect and is
\* led to the same data (fn.go:123-126, 709-764), so that what is lost and set
\* up again under its old name finds them.
PipelineMakesNoDifference ==
  \A o \in Owners : xrs[o] # NoComposite =>
    \A d, e \in Desired(xrs[o]) :
      LET rq == Request(xrs[o], d)
          other == Request(xrs[o], e)
      IN  DriveOf(rq) = DriveOf(other) /\ Place(rq) = Place(other)

\* The credentials taken from text are those [default] gives, each field's
\* last value, and never put together from two profiles (fn.go:203-254).
CredentialsAreOfDefault ==
  secret.format = "text" =>
    Aws!Parsed(secret.lines) =
      [f \in Aws!Fields |-> Aws!ValueInDefault(secret.lines, f)]
===========================================================================
