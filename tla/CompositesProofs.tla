------------------------- MODULE CompositesProofs -------------------------
(***************************************************************************)
(* What holds of composition keys for every set of composites, manifests,  *)
(* annotations, generated names and secrets.                               *)
(***************************************************************************)
EXTENDS Composites, WellFoundedInduction, TLAPS

---------------------------------------------------------------------------
(* Reading the composite *)

\* The fields of a composite are those of its manifest, but for what is set
\* when it is created.
LEMMA CreatedFields ==
  ASSUME NEW o \in Owners, NEW xr \in Created(o)
  PROVE  /\ xr.annotations \in Annotations[o]
         /\ IsClaim(o) => xr.name \in Generated
         /\ ~IsClaim(o) => xr.name = Manifest[o].name
         /\ xr.group = Manifest[o].group /\ xr.version = Manifest[o].version
         /\ xr.kind = Manifest[o].kind /\ xr.namespace = Manifest[o].namespace
         /\ xr.claimNamespace = Manifest[o].claimNamespace
         /\ xr.claimName = Manifest[o].claimName
         /\ DOMAIN xr = DOMAIN Manifest[o]
<1>1. DOMAIN Manifest[o] = {"group", "version", "kind", "name", "namespace",
                           "claimNamespace", "claimName", "annotations"}
  BY CompositesAssumption DEF NoComposite
<1>2. PICK a \in Annotations[o], n \in Generated : xr = Composed(o, a, n)
  BY DEF Created
<1>3. DOMAIN xr = DOMAIN Manifest[o]
  BY <1>2 DEF Composed
<1>4. \A field \in DOMAIN Manifest[o] :
        xr[field] = IF field = "name" THEN (IF IsClaim(o) THEN n ELSE Manifest[o].name)
                    ELSE IF field = "annotations" THEN a ELSE Manifest[o][field]
  BY <1>1, <1>2 DEF Composed
<1> QED
  BY <1>1, <1>2, <1>3, <1>4

LEMMA AnnotatedIsCreated ==
  ASSUME NEW o \in Owners, NEW xr \in Created(o), NEW a \in Annotations[o]
  PROVE  [xr EXCEPT !.annotations = a] \in Created(o)
<1>1. PICK b \in Annotations[o], n \in Generated : xr = Composed(o, b, n)
  BY DEF Created
<1>2. [xr EXCEPT !.annotations = a] = Composed(o, a, n)
  BY <1>1 DEF Composed
<1> QED
  BY <1>2 DEF Created

\* What the pipeline hands on of an annotation is its value or nothing.
LEMMA DesiredValue ==
  ASSUME NEW o \in Owners, NEW xr \in Created(o), NEW d \in Desired(xr), NEW a
  PROVE  Value(d, a) \in {None, Value(xr, a)}
<1>1. CASE d = NoComposite
  BY <1>1 DEF Value, NoComposite
<1>2. CASE d = Bare(xr)
  <2>1. DOMAIN xr = DOMAIN Manifest[o]
    BY CreatedFields
  <2>2. "annotations" \in DOMAIN xr
    BY <2>1, CompositesAssumption DEF NoComposite
  <2>3. d.annotations = <<>>
    BY <1>2, <2>2 DEF Bare
  <2> QED
    BY <2>3 DEF Value
<1>3. CASE d = xr
  BY <1>3
<1> QED
  BY <1>1, <1>2, <1>3 DEF Desired

\* So a request reads as if the composite had been passed on as it is.
LEMMA PipelineReads ==
  ASSUME NEW o \in Owners, NEW xr \in Created(o), NEW d \in Desired(xr)
  PROVE  /\ DriveOf(Request(xr, d)) = DriveOf(Request(xr, xr))
         /\ Place(Request(xr, d)) = Place(Request(xr, xr))
<1> DEFINE rq == Request(xr, d)
           same == Request(xr, xr)
<1>1. /\ rq.observed = xr /\ rq.desired = d
      /\ same.observed = xr /\ same.desired = xr
  BY DEF Request
<1>2. \A a : Value(d, a) \in {None, Value(xr, a)}
  BY DesiredValue
<1> HIDE DEF rq, same
<1>3. \A a, default : Setting(rq, a, default) = Setting(same, a, default)
  BY <1>1, <1>2 DEF Setting, FirstSet
<1>4. \A a, default : Override(rq, a, default) = Override(same, a, default)
  BY <1>1, <1>2 DEF Override, FirstSet
<1>5. \A a : IsOn(rq, a) = IsOn(same, a)
  BY <1>1, <1>2, EmptyAssumption DEF IsOn
<1>6. ShouldRequireRestore(rq) = ShouldRequireRestore(same)
  BY <1>1, <1>2, EmptyAssumption DEF ShouldRequireRestore, Truthy
<1>7. DriveOf(rq) = DriveOf(same)
  BY <1>3, <1>5, <1>6 DEF DriveOf, ShouldEnable, ShouldPurge, BackupScope
<1>8. StoreType(rq) = StoreType(same) /\ ClusterID(rq) = ClusterID(same)
  BY <1>3 DEF StoreType, ClusterID
<1>9. Location(rq) = Location(same)
  BY <1>3, <1>8 DEF Location
<1>10. CompositionKey(rq) = CompositionKey(same)
  BY <1>1, <1>4 DEF CompositionKey, Composite
<1>11. Place(rq) = Place(same)
  BY <1>8, <1>9, <1>10 DEF Place
<1> QED
  BY <1>7, <1>11 DEF rq, same

---------------------------------------------------------------------------
(* The place a composite is led to, in its parts *)

PlaceOf(xr) == Place(Request(xr, xr))

\* The first part of the key of a composite without overrides.
Namespace(o) ==
  FirstSet(Manifest[o].claimNamespace, Manifest[o].namespace, "none")

LEMMA KeyParts ==
  ASSUME NEW o \in Owners, NEW xr \in Created(o)
  PROVE  PlaceOf(xr).key =
           <<IF Value(xr, "override-namespace") # None
             THEN Value(xr, "override-namespace") ELSE Namespace(o),
             FirstSet(Manifest[o].claimName, None, "none"),
             Manifest[o].group, Manifest[o].version,
             IF Value(xr, "override-kind") # None
             THEN Value(xr, "override-kind") ELSE Manifest[o].kind,
             xr.name>>
BY CreatedFields DEF PlaceOf, Place, Request, CompositionKey, Composite, Override,
   ClaimNamespace, ClaimName, Namespace, FirstSet

LEMMA KeyIsComplete ==
  ASSUME NEW o \in Owners, NEW xr \in Created(o)
  PROVE  /\ Len(PlaceOf(xr).key) = 6
         /\ \A i \in 1..6 : PlaceOf(xr).key[i] # None
<1>1. Namespace(o) # None /\ FirstSet(Manifest[o].claimName, None, "none") # None
  BY EmptyAssumption DEF Namespace, FirstSet
<1>2. xr.name # None
  BY CreatedFields, CompositesAssumption DEF IsClaim
<1>3. Manifest[o].group # None /\ Manifest[o].version # None /\ Manifest[o].kind # None
  BY CompositesAssumption
<1> QED
  BY <1>1, <1>2, <1>3, KeyParts

---------------------------------------------------------------------------
(* The invariant: the types, and that whoever has come was led to the place *)
(* of a composite with that owner and those annotations.                    *)

VisitsAreLed ==
  \A v \in visits :
    v.owner \in Owners /\ \E xr \in Created(v.owner) :
      xr.annotations = v.annotations /\ v.place = PlaceOf(xr)

XRsTyped ==
  DOMAIN xrs = Owners /\ \A o \in Owners : xrs[o] \in Created(o) \cup {NoComposite}

CompositesInv == XRsTyped /\ secret \in Secrets /\ VisitsAreLed

LEMMA InvIsTyped ==
  ASSUME CompositesInv PROVE CompositesTypeOK
<1>1. ASSUME NEW v \in visits
      PROVE  /\ v.owner \in Owners /\ v.annotations \in Annotations[v.owner]
             /\ Len(v.place.key) = 6
             /\ \A i \in 1..6 : v.place.key[i] # None
  <2>1. PICK xr \in Created(v.owner) :
          xr.annotations = v.annotations /\ v.place = PlaceOf(xr)
    BY DEF CompositesInv, VisitsAreLed
  <2>2. v.owner \in Owners
    BY DEF CompositesInv, VisitsAreLed
  <2> QED
    BY <2>1, <2>2, CreatedFields, KeyIsComplete
<1> QED
  BY <1>1 DEF CompositesInv, XRsTyped, CompositesTypeOK

LEMMA VisitIsLed ==
  ASSUME CompositesInv, NEW o \in Owners, Visit(o) PROVE VisitsAreLed'
<1>1. PICK d \in Desired(xrs[o]) :
        visits' = visits \cup {[owner |-> o, annotations |-> xrs[o].annotations,
                                place |-> Place(Request(xrs[o], d))]}
  BY DEF Visit
<1>2. xrs[o] \in Created(o)
  BY DEF Visit, CompositesInv, XRsTyped
<1>3. Place(Request(xrs[o], d)) = PlaceOf(xrs[o])
  BY <1>2, PipelineReads DEF PlaceOf
<1> QED
  BY <1>1, <1>2, <1>3 DEF CompositesInv, VisitsAreLed

LEMMA CompositesStep ==
  CompositesInv /\ [CompositesNext]_compositesVars => CompositesInv'
<1> SUFFICES ASSUME CompositesInv, [CompositesNext]_compositesVars
             PROVE  CompositesInv'
  OBVIOUS
<1>1. CASE Disaster
  BY <1>1 DEF Disaster, CompositesInv, XRsTyped, VisitsAreLed
<1>2. ASSUME NEW o \in Owners, Create(o) PROVE CompositesInv'
  BY <1>2 DEF Create, CompositesInv, XRsTyped, VisitsAreLed
<1>3. ASSUME NEW o \in Owners, Annotate(o) PROVE CompositesInv'
  <2>1. xrs[o] \in Created(o)
    BY <1>3 DEF Annotate, CompositesInv, XRsTyped
  <2>2. PICK a \in Annotations[o] : xrs' = [xrs EXCEPT ![o].annotations = a]
    BY <1>3 DEF Annotate
  <2>3. [xrs[o] EXCEPT !.annotations = a] \in Created(o)
    BY <2>1, AnnotatedIsCreated
  <2>4. XRsTyped'
    BY <2>2, <2>3 DEF CompositesInv, XRsTyped
  <2> QED
    BY <1>3, <2>4 DEF Annotate, CompositesInv, VisitsAreLed
<1>4. ASSUME NEW o \in Owners, Visit(o) PROVE CompositesInv'
  BY <1>4, VisitIsLed DEF Visit, CompositesInv, XRsTyped
<1>5. CASE UNCHANGED compositesVars
  BY <1>5 DEF compositesVars, CompositesInv, XRsTyped, VisitsAreLed
<1> QED
  BY <1>1, <1>2, <1>3, <1>4, <1>5 DEF CompositesNext, TurnAway

LEMMA CompositesInvariant == CompositesSpec => []CompositesInv
<1>1. CompositesInit => CompositesInv
  BY DEF CompositesInit, CompositesInv, XRsTyped, VisitsAreLed
<1> QED
  BY <1>1, CompositesStep, PTL DEF CompositesSpec

\* Composites and visits have their types, and every composition key has all
\* of its six parts (fn.go:752-813).
THEOREM CompositesTypeCorrect == CompositesSpec => []CompositesTypeOK
BY CompositesInvariant, InvIsTyped, PTL

---------------------------------------------------------------------------
(* Who is led where *)

LEMMA InvPipeline ==
  ASSUME CompositesInv PROVE PipelineMakesNoDifference
BY PipelineReads DEF CompositesInv, XRsTyped, PipelineMakesNoDifference

\* A request has the same effect whatever an earlier function of the pipeline
\* made of the desired composite (fn.go:123-126).
THEOREM PipelineIsIrrelevant == CompositesSpec => []PipelineMakesNoDifference
BY CompositesInvariant, InvPipeline, PTL

LEMMA NotOverridden ==
  ASSUME NEW v, ~IsOverridden(v), NEW xr, xr.annotations = v.annotations
  PROVE  Value(xr, "override-namespace") = None /\ Value(xr, "override-kind") = None
BY DEF IsOverridden, Value

LEMMA InvDistinct ==
  ASSUME ManifestsDiffer, CompositesInv PROVE KeysAreDistinct
<1> SUFFICES ASSUME NEW v \in visits, NEW w \in visits,
                    ~IsOverridden(v), ~IsOverridden(w), v.place = w.place
             PROVE  v.owner = w.owner
  BY DEF KeysAreDistinct
<1> DEFINE o == v.owner
           p == w.owner
<1>1. PICK x \in Created(o), y \in Created(p) :
        /\ x.annotations = v.annotations /\ v.place = PlaceOf(x)
        /\ y.annotations = w.annotations /\ w.place = PlaceOf(y)
  BY DEF CompositesInv, VisitsAreLed
<1>2. o \in Owners /\ p \in Owners
  BY DEF CompositesInv, VisitsAreLed
<1> HIDE DEF o, p
<1>3. /\ Value(x, "override-namespace") = None /\ Value(x, "override-kind") = None
      /\ Value(y, "override-namespace") = None /\ Value(y, "override-kind") = None
  BY <1>1, NotOverridden
<1>4. /\ PlaceOf(x).key = <<Namespace(o), FirstSet(Manifest[o].claimName, None, "none"),
                            Manifest[o].group, Manifest[o].version, Manifest[o].kind, x.name>>
      /\ PlaceOf(y).key = <<Namespace(p), FirstSet(Manifest[p].claimName, None, "none"),
                            Manifest[p].group, Manifest[p].version, Manifest[p].kind, y.name>>
  BY <1>2, <1>3, KeyParts
<1>5. /\ Namespace(o) = Namespace(p)
      /\ FirstSet(Manifest[o].claimName, None, "none") =
           FirstSet(Manifest[p].claimName, None, "none")
      /\ Manifest[o].group = Manifest[p].group
      /\ Manifest[o].version = Manifest[p].version
      /\ Manifest[o].kind = Manifest[p].kind
      /\ x.name = y.name
  <2> DEFINE k == PlaceOf(x).key
  <2>1. k = PlaceOf(y).key
    BY <1>1
  <2>2. /\ k[1] = Namespace(o) /\ k[2] = FirstSet(Manifest[o].claimName, None, "none")
        /\ k[3] = Manifest[o].group /\ k[4] = Manifest[o].version
        /\ k[5] = Manifest[o].kind /\ k[6] = x.name
    BY <1>4
  <2> HIDE DEF k
  <2>3. /\ k[1] = Namespace(p) /\ k[2] = FirstSet(Manifest[p].claimName, None, "none")
        /\ k[3] = Manifest[p].group /\ k[4] = Manifest[p].version
        /\ k[5] = Manifest[p].kind /\ k[6] = y.name
    BY <1>4, <2>1
  <2> QED
    BY <2>2, <2>3
<1>6. Manifest[o].claimName = Manifest[p].claimName
  BY <1>2, <1>5, EmptyAssumption DEF ManifestsDiffer, FirstSet
<1>7. /\ Manifest[o].claimNamespace = Manifest[p].claimNamespace
      /\ Manifest[o].namespace = Manifest[p].namespace
  BY <1>2, <1>5, <1>6 DEF ManifestsDiffer, Namespace, FirstSet
<1>8. Manifest[o].claimName = None => Manifest[o].name = Manifest[p].name
  BY <1>2, <1>5, <1>6, CreatedFields DEF IsClaim
<1>9. \A field \in DOMAIN NoComposite \ {"annotations", "name"} :
        Manifest[o][field] = Manifest[p][field]
  BY <1>5, <1>6, <1>7 DEF NoComposite
<1> QED
  BY <1>2, <1>8, <1>9 DEF ManifestsDiffer, o, p

\* Composites that differ in their manifests never share a place, unless an
\* override leads them to one (fn.go:752-764, 813).
THEOREM KeysStayApart ==
  ASSUME ManifestsDiffer PROVE CompositesSpec => []KeysAreDistinct
BY CompositesInvariant, InvDistinct, PTL

\* What decides where the data are, beside the key.
LEMMA SettingsDecide ==
  ASSUME NEW x, NEW y, StoreType(Request(x, x)) = StoreType(Request(y, y)),
         \A s \in {"cluster-id", "dynamodb-table", "dynamodb-region",
                   "configmap-namespace"} : Value(x, s) = Value(y, s),
         CompositionKey(Request(x, x)) = CompositionKey(Request(y, y))
  PROVE  PlaceOf(x) = PlaceOf(y)
<1>1. \A default : \A s \in {"cluster-id", "dynamodb-table", "dynamodb-region",
                              "configmap-namespace"} :
        Setting(Request(x, x), s, default) = Setting(Request(y, y), s, default)
  BY DEF Setting, Request
<1>2. Location(Request(x, x)) = Location(Request(y, y))
  BY <1>1 DEF Location
<1>3. ClusterID(Request(x, x)) = ClusterID(Request(y, y))
  BY <1>1 DEF ClusterID
<1> QED
  BY <1>2, <1>3 DEF PlaceOf, Place

LEMMA InvMigration ==
  ASSUME ManifestsDiffer, GuideFollowed, CompositesInv PROVE MigrationFindsBackup
<1> SUFFICES ASSUME NEW v \in visits, NEW w \in visits,
                    Migrates(v.owner, w.owner), IsOverridden(v), ~IsOverridden(w),
                    v.place.storeType = w.place.storeType
             PROVE  v.place = w.place
  BY DEF MigrationFindsBackup
<1> DEFINE o == v.owner
           p == w.owner
<1>1. PICK x \in Created(o), y \in Created(p) :
        /\ x.annotations = v.annotations /\ v.place = PlaceOf(x)
        /\ y.annotations = w.annotations /\ w.place = PlaceOf(y)
  BY DEF CompositesInv, VisitsAreLed
<1>2. o \in Owners /\ p \in Owners /\ Migrates(o, p)
  BY DEF CompositesInv, VisitsAreLed
<1> HIDE DEF o, p
<1>3. x.annotations \in Annotations[o] /\ y.annotations \in Annotations[p]
  BY <1>2, CreatedFields
<1>4. /\ {"override-namespace", "override-kind"} \subseteq DOMAIN x.annotations
      /\ x.annotations["override-namespace"] = "none"
      /\ x.annotations["override-kind"] = Manifest[p].kind
      /\ \A s \in {"cluster-id", "dynamodb-table", "dynamodb-region",
                   "configmap-namespace"} :
           Value([annotations |-> x.annotations], s) = Value([annotations |-> y.annotations], s)
  BY <1>1, <1>2, <1>3 DEF GuideFollowed, IsOverridden
<1>5. /\ Value(x, "override-namespace") = "none"
      /\ Value(x, "override-kind") = Manifest[p].kind
      /\ \A s \in {"cluster-id", "dynamodb-table", "dynamodb-region",
                   "configmap-namespace"} : Value(x, s) = Value(y, s)
  BY <1>4 DEF Value
<1>6. Value(y, "override-namespace") = None /\ Value(y, "override-kind") = None
  BY <1>1, NotOverridden
<1>7. /\ Namespace(p) = "none" /\ Manifest[o].claimName = None /\ Manifest[p].claimName = None
      /\ x.name = y.name /\ Manifest[o].group = Manifest[p].group
      /\ Manifest[o].version = Manifest[p].version
  BY <1>2, CreatedFields DEF Migrates, IsClaim, Namespace, FirstSet, ManifestsDiffer
<1>8. PlaceOf(x).key = PlaceOf(y).key
  BY <1>2, <1>5, <1>6, <1>7, KeyParts, EmptyAssumption, CompositesAssumption
<1>9. StoreType(Request(x, x)) = StoreType(Request(y, y))
  BY <1>1 DEF PlaceOf, Place
<1> QED
  BY <1>1, <1>5, <1>8, <1>9, SettingsDecide DEF PlaceOf, Place

\* A composite annotated as the migration guide says is led to the data of the
\* one it takes the place of (README.md:372-396, fn.go:752-764, 813).
THEOREM MigrationIsLed ==
  ASSUME ManifestsDiffer, GuideFollowed PROVE CompositesSpec => []MigrationFindsBackup
BY CompositesInvariant, InvMigration, PTL
---------------------------------------------------------------------------
(* What the parser of credentials computes, for every text: after n lines   *)
(* it is in [default] if the last header was that, and it has the last      *)
(* value [default] has given to each field so far (fn.go:203-254).          *)

Below == {ss \in Nat \X Nat : ss[1] < ss[2]}

\* A set of numbers that is not empty has a least one: what induction over the
\* lines rests on.
LEMMA LeastNumber ==
  ASSUME NEW S, S \subseteq Nat, S # {}
  PROVE  \E m \in S : \A k \in S : ~(k < m)
<1>1. OpToRel(<, Nat) = Below
  BY Zenon DEF OpToRel, Below
<1>2. \E m \in S : \A k \in S : <<k, m>> \notin Below
  BY <1>1, NatLessThanWellFounded, WFMin, Zenon
<1>3. \A k \in Nat, m \in Nat : k < m => <<k, m>> \in Below
  BY DEF Below
<1> QED
  BY <1>2, <1>3

IsText(lines) ==
  /\ \E S : lines \in Seq(S)
  /\ \A i \in DOMAIN lines : Aws!IsLine(lines[i])

\* What the parser is to hold after n lines.
Held(lines, n) ==
  [inDefault |-> Aws!IsInDefault(lines, n + 1),
   creds |-> [f \in Aws!Fields |-> Aws!ValueAfter(lines, n, f)]]

LEMMA HeldAtFirst ==
  ASSUME NEW lines PROVE Held(lines, 0) = Aws!Start
<1>1. Aws!IsInDefault(lines, 0 + 1) = FALSE
  BY DEF Aws!IsInDefault
<1>2. \A f : Aws!Given(lines, 0, f) = {}
  BY DEF Aws!Given
<1>3. \A f : Aws!ValueAfter(lines, 0, f) = None
  BY <1>2 DEF Aws!ValueAfter
<1>4. [f \in Aws!Fields |-> Aws!ValueAfter(lines, 0, f)] = Aws!NoCredentials
  BY <1>3 DEF Aws!NoCredentials
<1> QED
  BY <1>1, <1>4, Zenon DEF Held, Aws!Start

\* A header decides alone whether what follows is in [default]; another line
\* leaves that as it is.
LEMMA HeaderDecides ==
  ASSUME NEW lines, NEW n \in Nat \ {0},
         lines[n].kind = "section", lines[n] \in {Aws!Section(TRUE), Aws!Section(FALSE)}
  PROVE  Aws!IsInDefault(lines, n + 1) = lines[n].default
<1>1. \A h \in 1..n : n \in h + 1..n \/ h = n
  OBVIOUS
<1>2. CASE lines[n] = Aws!Section(TRUE)
  <2>1. \A j \in n + 1..(n + 1) - 1 : FALSE
    OBVIOUS
  <2>2. n \in 1..(n + 1) - 1
    OBVIOUS
  <2>3. Aws!IsInDefault(lines, n + 1) = TRUE
    BY <1>2, <2>1, <2>2 DEF Aws!IsInDefault
  <2>4. lines[n].default = TRUE
    BY <1>2 DEF Aws!Section
  <2> QED
    BY <2>3, <2>4, Zenon
<1>3. CASE lines[n] = Aws!Section(FALSE)
  <2>1. Aws!Section(FALSE) # Aws!Section(TRUE) /\ lines[n].default = FALSE
    BY <1>3 DEF Aws!Section
  <2>2. (n + 1) - 1 = n
    OBVIOUS
  <2>3. Aws!IsInDefault(lines, n + 1) = FALSE
    BY <1>1, <1>3, <2>1, <2>2 DEF Aws!IsInDefault
  <2> QED
    BY <2>1, <2>3, Zenon
<1> QED
  BY <1>2, <1>3

LEMMA OthersLeaveSection ==
  ASSUME NEW lines, NEW n \in Nat \ {0}, lines[n].kind # "section"
  PROVE  Aws!IsInDefault(lines, n + 1) = Aws!IsInDefault(lines, n)
<1>1. lines[n] # Aws!Section(TRUE)
  BY DEF Aws!Section
<1>2. \A h \in 1..n - 1 : h + 1..(n + 1) - 1 = (h + 1..n - 1) \cup {n}
  OBVIOUS
<1>3. 1..(n + 1) - 1 = (1..n - 1) \cup {n}
  OBVIOUS
<1> QED
  BY <1>1, <1>2, <1>3 DEF Aws!IsInDefault

LEMMA GivenNext ==
  ASSUME NEW lines, NEW n \in Nat \ {0}, NEW f
  PROVE  Aws!Given(lines, n, f) =
           Aws!Given(lines, n - 1, f) \cup
             (IF /\ lines[n].kind = "assignment" /\ lines[n].field = f
                 /\ Aws!IsInDefault(lines, n)
              THEN {n} ELSE {})
<1>1. 1..n = (1..n - 1) \cup {n}
  OBVIOUS
<1> QED
  BY <1>1 DEF Aws!Given

LEMMA ValueNext ==
  ASSUME NEW lines, NEW n \in Nat \ {0}, NEW f
  PROVE  Aws!ValueAfter(lines, n, f) =
           IF /\ lines[n].kind = "assignment" /\ lines[n].field = f
              /\ Aws!IsInDefault(lines, n)
           THEN lines[n].value ELSE Aws!ValueAfter(lines, n - 1, f)
<1> DEFINE given == Aws!Given(lines, n, f)
<1>1. CASE /\ lines[n].kind = "assignment" /\ lines[n].field = f
           /\ Aws!IsInDefault(lines, n)
  <2>1. n \in given /\ \A j \in given : j \in Nat /\ j <= n
    BY <1>1 DEF Aws!Given
  <2>2. \A i \in given : (\A j \in given : j <= i) => i = n
    BY <2>1
  <2>3. (CHOOSE i \in given : \A j \in given : j <= i) = n
    BY <2>1, <2>2
  <2> QED
    BY <1>1, <2>1, <2>3 DEF Aws!ValueAfter
<1>2. CASE ~(/\ lines[n].kind = "assignment" /\ lines[n].field = f
             /\ Aws!IsInDefault(lines, n))
  <2>1. given = Aws!Given(lines, n - 1, f) \cup {}
    BY <1>2, GivenNext, Zenon
  <2> QED
    BY <1>2, <2>1 DEF Aws!ValueAfter
<1> QED
  BY <1>1, <1>2

\* One line.
LEMMA ReadHolds ==
  ASSUME NEW lines, NEW n \in Nat \ {0}, Aws!IsLine(lines[n])
  PROVE  Aws!Read(Held(lines, n - 1), lines[n]) = Held(lines, n)
<1> DEFINE line == lines[n]
           before == Held(lines, n - 1)
<1>1. /\ before.inDefault = Aws!IsInDefault(lines, n)
      /\ before.creds = [f \in Aws!Fields |-> Aws!ValueAfter(lines, n - 1, f)]
      /\ before = [inDefault |-> before.inDefault, creds |-> before.creds]
  BY (n - 1) + 1 = n DEF Held
<1>2. CASE line \in {Aws!Section(TRUE), Aws!Section(FALSE)}
  <2>1. line.kind = "section"
    BY <1>2 DEF Aws!Section
  <2>2. Aws!IsInDefault(lines, n + 1) = line.default
    BY <1>2, <2>1, HeaderDecides
  <2>3. \A f : Aws!ValueAfter(lines, n, f) = Aws!ValueAfter(lines, n - 1, f)
    BY <2>1, ValueNext
  <2>4. Aws!Read(before, line) = [before EXCEPT !.inDefault = line.default]
    BY <2>1 DEF Aws!Read
  <2> QED
    BY <1>1, <2>2, <2>3, <2>4 DEF Held
<1>3. CASE line = Aws!Other
  <2>1. line.kind = "other"
    BY <1>3 DEF Aws!Other
  <2>2. Aws!IsInDefault(lines, n + 1) = Aws!IsInDefault(lines, n)
    BY <2>1, OthersLeaveSection
  <2>3. \A f : Aws!ValueAfter(lines, n, f) = Aws!ValueAfter(lines, n - 1, f)
    BY <2>1, ValueNext
  <2>4. Aws!Read(before, line) = before
    BY <2>1 DEF Aws!Read
  <2> QED
    BY <1>1, <2>2, <2>3, <2>4 DEF Held
<1>4. CASE line.field \in Aws!Fields /\ line = Aws!Assignment(line.field, line.value)
  <2>1. line.kind = "assignment"
    BY <1>4 DEF Aws!Assignment
  <2>2. Aws!IsInDefault(lines, n + 1) = Aws!IsInDefault(lines, n)
    BY <2>1, OthersLeaveSection
  <2>3. CASE Aws!IsInDefault(lines, n)
    <3>1. Aws!Read(before, line) = [before EXCEPT !.creds[line.field] = line.value]
      BY <1>1, <2>1, <2>3 DEF Aws!Read
    <3>2. [before.creds EXCEPT ![line.field] = line.value] =
            [f \in Aws!Fields |-> Aws!ValueAfter(lines, n, f)]
      BY <1>1, <1>4, <2>1, <2>3, ValueNext
    <3> QED
      BY <1>1, <2>2, <3>1, <3>2 DEF Held
  <2>4. CASE ~Aws!IsInDefault(lines, n)
    <3>1. Aws!Read(before, line) = before
      BY <1>1, <2>1, <2>4 DEF Aws!Read
    <3>2. \A f : Aws!ValueAfter(lines, n, f) = Aws!ValueAfter(lines, n - 1, f)
      BY <2>4, ValueNext
    <3> QED
      BY <1>1, <2>2, <3>1, <3>2 DEF Held
  <2> QED
    BY <2>3, <2>4
<1> QED
  BY <1>2, <1>3, <1>4 DEF Aws!IsLine

\* The loop: it exists, since what is held after each line satisfies it, and
\* there is no other, since it could not differ first at any line.
LEMMA ParsedIsHeld ==
  ASSUME NEW lines, IsText(lines)
  PROVE  Aws!Parsed(lines) = Held(lines, Len(lines)).creds
<1> DEFINE n == Len(lines)
           Loop(g) == g = [i \in 0..n |-> IF i = 0 THEN Aws!Start
                                          ELSE Aws!Read(g[i - 1], lines[i])]
           held == [i \in 0..n |-> Held(lines, i)]
<1>1. n \in Nat /\ DOMAIN lines = 1..n
  BY DEF IsText
<1>2. \A i \in 1..n : Aws!Read(Held(lines, i - 1), lines[i]) = Held(lines, i)
  BY <1>1, ReadHolds DEF IsText
<1>3. Held(lines, 0) = Aws!Start
  BY HeldAtFirst
<1>4. Loop(held)
  <2>1. \A i \in 0..n : held[i] = IF i = 0 THEN Aws!Start
                                  ELSE Aws!Read(held[i - 1], lines[i])
    BY <1>1, <1>2, <1>3
  <2> QED
    BY <2>1
<1>5. ASSUME NEW g, Loop(g) PROVE g = held
  <2>1. \A i \in 0..n : g[i] = IF i = 0 THEN Aws!Start
                               ELSE Aws!Read(g[i - 1], lines[i])
    BY <1>5
  <2> DEFINE wrong == {i \in 0..n : g[i] # held[i]}
  <2>2. ASSUME wrong # {} PROVE FALSE
    <3> HIDE DEF wrong
    <3>0. wrong \subseteq Nat
      BY <1>1 DEF wrong
    <3>1. PICK m \in wrong : \A k \in wrong : ~(k < m)
      BY <2>2, <3>0, LeastNumber
    <3> USE DEF wrong
    <3>2. m # 0
      BY <1>1, <1>3, <2>1, <3>1
    <3>3. m - 1 \in 0..n /\ g[m - 1] = held[m - 1]
      BY <1>1, <3>1, <3>2
    <3> QED
      BY <1>1, <1>2, <2>1, <3>1, <3>2, <3>3
  <2>3. \A i \in 0..n : g[i] = held[i]
    BY <2>2
  <2>4. g = [i \in 0..n |-> g[i]]
    BY <1>5
  <2> QED
    BY <2>3, <2>4
<1>6. (CHOOSE g : Loop(g)) = held
  BY <1>4, <1>5
<1>7. Aws!Parsed(lines) = (CHOOSE g : Loop(g))[n].creds
  BY DEF Aws!Parsed
<1>8. held[n] = Held(lines, n)
  BY <1>1
<1> HIDE DEF Loop, held
<1> QED
  BY <1>6, <1>7, <1>8, Zenon

LEMMA TextsAreRead ==
  ASSUME secret \in Secrets PROVE CredentialsAreOfDefault
<1>1. SUFFICES ASSUME secret.format = "text"
               PROVE  Aws!Parsed(secret.lines) =
                        [f \in Aws!Fields |-> Aws!ValueInDefault(secret.lines, f)]
  BY DEF CredentialsAreOfDefault
<1>2. IsText(secret.lines)
  BY <1>1, CompositesAssumption DEF IsText
<1>3. Held(secret.lines, Len(secret.lines)).creds =
        [f \in Aws!Fields |-> Aws!ValueAfter(secret.lines, Len(secret.lines), f)]
  BY DEF Held
<1> QED
  BY <1>2, <1>3, ParsedIsHeld DEF Aws!ValueInDefault

\* Whatever the text of the secret: the credentials taken from it are those
\* [default] gives, and never put together from two profiles (fn.go:203-254).
THEOREM CredentialsAreNeverMixed == CompositesSpec => []CredentialsAreOfDefault
BY CompositesInvariant, TextsAreRead, PTL DEF CompositesInv
===========================================================================
