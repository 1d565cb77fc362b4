# Verification of function-external-name-backup-restore

TLA+ models of the Crossplane composition function that backs up external names
to a store and restores them after a disaster, TLC configurations that check
them on small instances, and theorems checked by TLAPS. Paths and line numbers
are those of the repository (`fn.go`, `store.go`, ...).

## 1. The system

| Component | State | Operations | Modelled by |
|---|---|---|---|
| RunFunction handler (`fn.go:632-1421`) | locals of one call: the key, `requireRestore` and `backupScope`, the cache `resourceDataStore`, the desired and observed resources (changed in place) | one request: enable check, purge, Load, deletion pass, purge of an empty composition, restore pass, observed pass, Save, tracking annotations, merge of observed annotations | `RunFunction` |
| Per-resource decisions (`fn.go:276-347, 416-627`) | none | deletion criteria, backup scope, restoration, what is new, merging | `ResourceData` |
| The loop around the function | composed resources and their annotations, the composition, the composite's annotations, cloud resources | reconcile, apply, create, rename, edit, disaster | `Reconcile` |
| ResourceStore (`store.go`) | per cluster ID and composition key a map of resource names to two names | Save, Load, Purge, DeleteResource | `AtomicStore` |
| ConfigMapStore (`configmap_store.go`) | one ConfigMap per cluster ID, all compositions in it | the same, as Get and Create/Update/Delete | `ConfigMapStore`, `Stores` |
| DynamoDBStore (`dynamodb_store.go`) | one item per cluster ID and key | PutItem, GetItem, DeleteItem, conditional UpdateItem | `DynamoDBStore`, `Stores` |
| MockResourceStore (`mock_store.go`) | a map under a mutex | the same | `AtomicStore!Result` |
| Composite annotations and key (`fn.go:113-173, 257-411, 707-813`) | none | which value wins, observed or desired; defaults; overrides; the key | `CompositeConfig`, `Composites` |
| Credentials (`fn.go:177-254`) | none | JSON or INI text of a secret; which credentials the DynamoDB client gets | `Credentials`, `Composites` |
| Server, input type, packaging | none of interest | | not modelled |

**Interaction.** Crossplane calls the function once per reconcile with the
desired resources (what the pipeline has rendered so far) and the observed ones
(what is in the cluster). The function answers with the desired resources.
Between calls it remembers nothing: what it knows comes from the store and from
its own annotations on observed objects (`stored-external-name`,
`stored-resource-name`). An annotation that is not in the response is gone from
the object after the apply. Each call makes up to `n + 4` store calls, which may
fail or take effect without an answer. All clusters and calls share the store;
what separates them is the cluster ID and the composition key, both read off the
composite of the request.

**What is hard.**
- Store and annotations are two records of one fact, updated at two moments (a
  store call; the apply of a response that may be lost).
- The handler takes all decisions on a cache loaded at its start and writes the
  whole composition back.
- Three passes and the final merge edit the same annotations in an order that
  matters.
- A failed store call ends some passes fatally and is only logged in others.
- ConfigMapStore makes two to three API calls per operation on an object that
  all compositions share.
- The store outlives the cluster and the cloud resources it names.
- DynamoDB is read eventually consistently, and its SDK repeats calls.
- The composite comes twice, observed and desired, and an earlier function may
  have left out the desired one or its annotations; every annotation has its
  own order of the two.

**What makes each component correct.**
- Handler: a stored name leaves the store only when told to; a tracking
  annotation has a stored name behind it; a failed deletion is tried again; the
  order of precedence of names; restore-only leaves the store alone.
- Loop: no duplicate of a backed-up cloud resource and no adoption of a deleted
  one; annotations and store agree; everything in scope is backed up in the end,
  lost resources come back, and the store comes to rest.
- Stores: every operation is atomic and on its own composition only.
- Configuration and key: every composite is led to its own data, before and after
  a disaster, and a migrated one to its predecessor's, whatever the pipeline does.
- Credentials: never put together from two profiles.

The hazards behind these, each at its line, are in `PROJECT.json`.

## 2. The modules

Extended modules are on the left of an arrow:

- `ResourceData` <- `RunFunction` <- `Reconcile`, `EventualReads`.
- `ResourceData` <- `AtomicStore`, `ConfigMapStore`, `DynamoDBStore`;
  `ConfigMapStore` <- `Stores`, which instantiates `DynamoDBStore`, and
  `AtomicStore` with a refinement mapping.
- `CompositeConfig` <- `Composites`, which instantiates `Credentials`.
- Proofs of the handler: `RunFunction` <- `RunFunctionProofs` <-
  `ResponseProofs` <- `EventualReadsProofs` (with `EventualReads`) and
  `ReconcileProofs` (with `Reconcile`).
- Proofs of the stores: `ConfigMapStore` <- `ConfigMapStoreProofs`; `Stores` <-
  `DynamoDBStoreProofs`, about the instance of `DynamoDBStore` in it; both of
  them <- `StoresProofs`.
- Proofs of the keys: `Composites` <- `CompositesProofs`.
- `MC*` modules give the constants of the runs. `MCReconcile` instantiates
  `CompositeConfig`: what drives its requests are the values `DriveOf` gives for
  annotated composites.

**ResourceData.** An object is its policies, `metadata.name`, external name and
the annotations that decide something. The empty string and a missing value,
which the code treats alike, are `None`. A store entry always has a name (the
code marks an entry for storage only for a name), so the entry with two `None`s
is "no entry". Timestamps are left out, except whether `external-name-deleted`
is there. The two policies are `deletionPolicy` and the set of
`managementPolicies`. Every definition is one check or one edit of `fn.go` on one
resource, for instance `Restored` (`fn.go:1042-1163`) or `MergeObserved`
(`fn.go:416-490`).

**RunFunction.** `Calls` are concurrent invocations. Each store call is one
step, and the code up to the next store call belongs to it: that code touches
only the call's own request, so no interleaving is lost. The passes iterate Go
maps: the order of deletions is open (`\E r`); the restore and observed passes
treat each resource by itself, and their order cannot be seen.

| Action | Code |
|---|---|
| `Skip` | not enabled: the desired state as it came (`637-656`) |
| `PurgeComposition` | the purge annotation (`818-840`) |
| `Load`, `LoadFails` | Load, and require-restore on an empty composition (`842-872`) |
| `DeleteOne` | one deletion: store, cache, observed and desired annotations (`904-984`) |
| `PurgeEmpty` | the purge of a composition without data (`987-1004`) |
| `RestoreFails` | require-restore without data for a resource (`1164-1185`) |
| `RespondUnsaved` | restore, nothing to save, merge (`1006-1275`, `1403-1421`) |
| `SaveAndRespond` | restore, Save, tracking annotations, merge (`1006-1421`) |
| `Abandon` | the call dies between store calls |
| `Return` | the caller takes the response |

A store call ends "ok", "failed" (no effect, an error) or "lost" (effect, an
error). `Exclusive` says that no two running calls are about one key. Crossplane
reconciles a composite once at a time, so this is the normal case; a default
cluster ID in two clusters or an override annotation breaks it, and the run
`two_calls` drops it. `Load` is `LoadFound` of what is in the store; `loaded`
keeps what was found, so that properties can say what a call has `Unseen`.
`Bypassed` is the response of a call that is disabled or purges. A fatal
response leaves no desired state: Crossplane discards it. Errors before the
first store call (credentials, initialisation, input) end the call without
effect like `LoadFails`.

**Reconcile.** `Begin`, `Work`, `Apply` and `GiveUp` are one reconcile; the
function's part of each is `RunFunction`'s action. Crossplane, providers and
users are external: apply keeps the names of an existing object, generates a
name where there is none, deletes objects no longer desired, and drops the
function's annotations that are not desired again (`fn.go:1405` says the merge is
there to keep them); a provider makes a cloud resource for an object without
external name and deletes it with the object where the policies say so, which
is not the function's own test (`fn.go:525-549`): to a provider an unset policy is
"Delete" or "*" (`ProviderDeletes`);
`Disaster` is the loss of the cluster with the store and the cloud resources
intact (`README.md:28-35`).
What the properties need to say of a composite has operators of its own:
`Tracking` is where its tracking annotations are at the moment (the observed
objects of the running call, its response, or the objects), `NothingToDo` and
`UpToDate` say that a backup would not delete, store or restore anything,
`Settled` that this is so and its call knows it, `LeftAlone` that nobody but the
function changes it, and `Whole` that what is rendered is there and no name on it
has changed since it was stored.

**EventualReads.** The same actions, but a Load finds any member of `past[k]`: what
the store has, or what it had before the last writes. `Replicate` forgets what
was before. This is the handler on DynamoDBStore as far as the reads go.

**AtomicStore.** What `store.go` promises: an operation takes effect at one
moment between call and answer, on one composition. Each operation that reports
an error may have taken effect or not, and a Load may return what the composition
was a while ago (`past`); a store without that lag keeps `past` at the present.
`RunFunction` is written against this store.

**ConfigMapStore.** A Get, Create, Update or Delete is one step. `fresh` says
whether the ConfigMap is still the one a client has got (`resourceVersion`).
`DeleteResource` is a Load and then a Save or Purge with a Get of its own. Of the
encoding of keys (`configmap_store.go:64-66`) the length modulo three is modelled,
because that decides on padding and a padded key is not accepted: `KeyLength`
gives each key its length.

**DynamoDBStore.** One API call per operation. `Write` is one attempt: it does its
work and either answers or loses its answer (`landed`), and then the SDK tries
again. `UpdateItem` does nothing when its condition is false, and DeleteResource
takes that for success (`dynamodb_store.go:196`).

**Stores.** A request works on the store that its `store-type` names. Under the
mapping, `store` is the ConfigMap's data or the items' resources, an operation
whose write has succeeded is `taken`, whether or not its client knows, and
everything else stutters or answers. The `past` of a ConfigMap is its present: the
mapping claims that its reads do not lag.

**CompositeConfig.** One operator per look at the composite: `IsOn` for the
switches that either composite may set, `Setting` (observed first), `Override`
(desired first), the defaults, `CompositionKey`, and `Place`: the table or
namespace, cluster ID and key under which the data are.

**Credentials.** The parser as a recursive function that takes the lines one by one
through `Read`, what `NewDynamoDBStore` makes of the result, and beside it what the
text says without a parser (`ValueInDefault`: the last assignment to a key whose
section line is `[default]`).

**Composites.** The lives of composites around these two: created from
manifests, annotated, lost, created again. `Visit` is the part of a request before
its first store call; it remembers who was led where. `TurnAway` is a request
that ends before (disabled, credentials, unknown store, input).

## 3. The runs

| Run | Bounds | Shows |
|---|---|---|
| `one_request` | 1 call at a time, 1 key, 2 resources, 2 external names, 9 situations per resource, 5 drives, 2 faults | `TypeOK`, `CacheCoherent`, `NamesLeaveOnlyWhenTold`, `TrackingIsBacked`, `RestoresStoredName` hold |
| `two_calls` | 2 calls at once, 1 key, 1 resource, lagging reads (2 versions), 2 faults | `FailedDeleteIsRetried`, `OnlyUnseenNamesAreLost` hold |
| `loop` | 1 composite, 1 resource, 2 names, 5 edits, 1 switch of restore-only, 1 rename, 1 disaster, 1 fault, 1 drop | `ReconcileTypeOK`, `NoDuplicate`, `NeverAdoptsDeleted`, `OneAnswerSettles`, `SettledStays` hold |
| `live` | 2 faults, 1 drop, 1 disaster, 1 edit, 2 switches between enabled, disabled and purging, no rename | `TrackedMeansStoredUnlessLost`, `EventuallyBackedUp`, `EventuallyRestored`, `EventuallyQuiet`, `TrackingSettles`, `TrackingLostOnlyByLoss` hold |
| `stores` | ConfigMap: 2 clients at once, 2 keys, a third key with settled data or without; DynamoDB: 2 clients, repeated attempts, 2 versions; 2 resources | `StoresTypeOK`, `ImplementsStore` hold |
| `composites` | 4 owners (cluster-scoped, two namespaces, claim), 2 remembered visits, 91 secrets | `CompositesTypeOK`, `KeysAreDistinct`, `MigrationFindsBackup`, `PipelineMakesNoDifference`, `CredentialsAreOfDefault` hold |
| `restore_only` | as `one_request`, 1 fault | `RestoreOnlyLeavesStore` is violated |
| `lost_response` | 1 drop, 2 edits | `TrackingSettles` is violated |
| `stale_backup` | 2 renames | `EventuallyBackedUp` is violated |
| `stale_read` | 1 call at a time, no faults, lagging reads | `NamesLeaveOnlyWhenTold` is violated |
| `shared_purge` | 2 clients, 2 keys, nothing settled | `OthersKeepTheirData` is violated |
| `data_key` | 1 client, keys of 61 bytes | `KeysCanBeStored` is violated |

**Why the bounds are enough.** A resource is handled without a look at the
others except in three places: the cache that runs empty, restore-only with one
resource missing, and Save of the whole map; two resources make these happen,
and `two_calls`, which has one, is about what two calls do to one entry. Two
external names are needed for a rename and for a duplicate. The nine situations
are the ones a resource goes through from first rendering to backup, rename,
change of policy, removal and recovery; `one_request` gives every pair of them to
every drive, from every store the earlier requests have left. Requests in that
run need not follow from each other (a composite may be edited, restored or
migrated in between); `loop` and `live` have only the sequences the cluster can
produce. Two faults let a deletion fail and its retry fail or lose its answer.
The bounds of `Reconcile` (`MaxEdits`, `MaxSwitches`, `MaxRenames`,
`MaxDisasters`, `MaxDrops`) are guards of the disturbances only, never of the
function. `MaxPast` bounds the versions that can be read: a write that would make
one more waits for `Replicate`; two are the present and one before, and a stale
Load is possible after every write. `MaxVisits` bounds what `Composites`
remembers, not what happens: its properties compare two visits. In `stores`
two clients work at once, and the ConfigMap comes and goes under them: two first
Saves race to create it, a purge deletes it between the Get and the Update of
another, and it is gone between the two rounds of a deletion. What is left out (`~Crowded`) is a Save at once with a purge or
a deletion (`Clash`) while no third, settled composition keeps the ConfigMap alive
(`KeptAlive`): these run into disagreement 4.

**Fairness.** `FairSpec` has weak fairness on the reconcile of every composite
and on nothing else: responses carry `response.DefaultTTL` (`fn.go:635`), after
which Crossplane reconciles again, and a failed reconcile is queued again. No
fairness is assumed of store calls that succeed: the faults are bounded instead,
that is, the store works in the end. Providers and users need not do anything.

**Why some properties are conditional.** `TrackedMeansStored` fails for a while
after every lost answer or response of a deletion; `TrackedMeansStoredUnlessLost`
is stated for histories without these, and `TrackingSettles` says what remains in
the long run. `live`, which checks it, has no restore-only: a restore-only request
that deletes an entry then fails for want of it (`fn.go:1176`, disagreement 1), and
the objects keep their tracking. `TrackingLostOnlyByLoss` is the same step by
step, for each composite and in every mode: only an error of its own call, or the
loss of that call or its response, makes a true annotation untrue.

`live` has no rename. After one the tracking annotation stays the old one
(disagreement 3), Save is repeated by every request, and `EventuallyQuiet` fails.
`EventuallyQuiet` says that the store stays as it is and that nothing is saved and no
entry deleted any more. It does not say that the function calls the store no more
but to read: every request of a composition without data purges it again
(`fn.go:988-992`), and so does every request with the purge annotation
(`fn.go:818-821`).
`loop`, which has a rename, checks instead that the function agrees with itself
from one reconcile to the next. `OneAnswerSettles`: the answer to a request about a
`Whole` composite leaves nothing to do. `SettledStays`: what has nothing to do
stays so, and its entry too, whatever calls and responses are lost. `Whole` leaves
out what takes more than one answer: objects not yet there, deletions, a rendered
name the object does not have yet, a renamed object, and scope "all" with Delete
policies, where the same call deletes the entry and marks the name as new.

`NeverAdoptsDeleted` is about undisturbed backup (`Undisturbed`, `BacksUp`) with
scope "orphaned": an entry is deleted only for an object whose annotation says it
is stored (`fn.go:893`), and an object may have its stored name without that
annotation: a disaster or a restore-only phase brings it back while its policies
already say to delete it, or an orphaned cloud resource is given by hand to an
object with Delete policies. Lost answers and responses part store and annotation
as well. The entry then outlives the cloud resource (`README.md:288-290` asks for a
purge in such cases). What is left is what a user would count on: changes of
policy, and of the composition, at any moment of any request, as long as the
composition spells out the policies a provider deletes for (`DeletionsAreSeen`). An
object with unset `managementPolicies` is in scope of the backup (`fn.go:597-610`) but
not of the deletion pass, which asks for both policies (`fn.go:531-549`); the provider
deletes its cloud resource all the same, and its entry stays.

`NoPurgeLost` excludes histories that
switch the function's mode and also lose a store call or a response: a purge that
takes effect without the cluster learning of it is the hazard at `fn.go:821`.
`MigrationFindsBackup` is about the annotations of the migration guide on both
composites in the same store. That a composite set up again under its old name and
annotations is led to its data is part of `PipelineMakesNoDifference`; one made for
a claim is not, because its name is generated and part of the key.

**Slips.** Definitions commented as slips (`RestoredCrossed`, `AnswerUnchecked`,
`DroppedTrackingFirst`, ...) are plausible mistakes in the definition that
follows them and are used by nothing. With the slip in its place the property
that `PROJECT.json` pairs it with is violated: this shows that the property
depends on the code it is about.

## 4. Disagreements found

1. **Restore-only deletes backups** (`restore_only`, `fn.go:912`). The deletion
   pass runs before restore-only is looked at. A resource that carries
   `stored-external-name` and Delete policies loses its entry, and the call then
   ends fatally because the entry is missing. `README.md:404`: the function will
   not write to the store in this mode.
2. **A lost response leaves a false annotation** (`lost_response`, `fn.go:912`,
   `1228`). Orphan, backed up; switched to Delete; the entry is deleted and the
   response lost; switched back to Orphan: the object says "stored" and the
   store has nothing, for good.
3. **The tracking annotation is overwritten by the observed one**
   (`stale_backup`, `fn.go:478`). After e1 -> e2 the store has e2 and the
   annotation still says e1; Save is repeated on every request; after e2 -> e1
   the annotation equals the name, nothing is saved, and the store keeps e2.
4. **Purge can delete other compositions' backups** (`shared_purge`,
   `configmap_store.go:193`). The Delete of the ConfigMap has no precondition.
   What another composition has saved since the Get is lost. The purge is
   that of the only composition with data, on request or because DeleteResource has
   taken its last resource (`configmap_store.go:163-165`); one of a composition without
   data finds no ConfigMap (`181`) or other keys in it (`202`) and deletes nothing.
   `LossesWereUnseen` shows that there is no other way to lose the data of others.
5. **A stale read undoes a backup** (`stale_read`, `dynamodb_store.go:121`).
   GetItem does not ask for a consistent read. A request whose Load does not yet
   see the last Save takes the composition for empty and purges it
   (`fn.go:987-992`), or saves over it. The object has its tracking annotation by
   then, so that nothing saves the name again. What survives is
   `OnlyUnseenNamesAreLost`: the only names a call loses are those its Load did
   not see.
6. **Most composition keys are no ConfigMap data keys** (`data_key`,
   `configmap_store.go:66`). Standard base64 pads with `=`, which Kubernetes does
   not accept in a data key. Every key whose length is not a multiple of three, as
   that of `README.md:312`, cannot be saved.

## 5. The proofs

Each theorem holds for every value of the constants: any number of calls or
composites, keys, resources, names and requests, and any bound on faults and
disturbances. Every invariant and every action property that a run finds to hold is
proved; of what the passing runs check only liveness is left to them.

**The handler, one call at a time** (`RunFunctionProofs`, `ResponseProofs`).

| Theorem | Property | Assumes |
|---|---|---|
| `TypeCorrect` | `TypeOK` | |
| `CacheIsCoherent` | `CacheCoherent` | `Exclusive` |
| `NamesAreKept` | `NamesLeaveOnlyWhenTold` | `Exclusive` |
| `SeenNamesAreKept` | `OnlyUnseenNamesAreLost` | |
| `DeletesAreRetried` | `FailedDeleteIsRetried` | `OrdinaryRequests` |
| `TrackingTellsTheTruth` | `TrackingIsBacked` | `Exclusive`, `OrdinaryRequests` |
| `RestoredNamesAreStored` | `RestoresStoredName` | `Exclusive`, `OrdinaryRequests` |

- `CacheCoherent` alone is not inductive: a second call about the same key would
  change the store under the first one's cache, so that `NoOverlap` has to go along
  (`Inv == TypeOK /\ NoOverlap /\ CacheCoherent`). It allows the store to have lost
  an entry that the cache still has, because a delete may lose its answer.
- Names are kept because Save writes the cache with new names merged in, and
  merging drops none, and because PurgeEmpty runs only with an empty cache, which
  by `CacheCoherent` means an empty store. Without `Exclusive` the same argument
  shows that what is taken away was among what the call's Load had not seen.
- The theorems about responses follow a resource through the passes. `ReadyInv`
  says what the deletion pass leaves for the later ones: no desired object has a
  tracking annotation yet, whatever was or will be deleted is desired and observed
  with both its names, and a deletion either left the observed tracking annotation
  (so that the merge at the end brings it back and a later request deletes again)
  or removed annotation and cached entry together. `Cached` adds that for all other
  resources the cache is the store to the entry; with it, what the restore pass
  takes from the cache is the stored name.
- `RestoreOnlyWithoutDeletions` says how far disagreement 1 reaches: if no
  restore-only request has anything to delete (`RestoreOnlyDeletesNothing`),
  `RestoreOnlyLeavesStore` holds of the specification. A restore-only call that goes
  on has found data (`fn.go:851`) and has no deletion pending, so that its cache
  never runs empty and nothing is purged (`fn.go:988`), and it does not save
  (`fn.go:1273`): only the deletion pass stands between the code and
  `README.md:404`.
- `OrdinaryRequests` is needed because the handler trusts its input: a desired object
  that already carries `stored-external-name` would go out with it. Rendered
  objects carry none, and an observed object that says its name is stored has its
  names. TLC evaluates it on the requests of the runs, and `ReconcileProofs` proves
  that the loop sends no others.

**The handler on lagging reads** (`EventualReadsProofs`). `LaggingTypeCorrect`,
`SeenNamesAreKeptLagging` and `DeletesAreRetriedLagging`: the properties above that
need no `Exclusive` survive a Load that returns old data, however old. The step
lemmas are the same, stated for whatever a Load finds; what is new is that
everything in `past` is a composition.

**The loop** (`ReconcileProofs`).

| Theorem | Property | Assumes |
|---|---|---|
| `ReconcileTypeCorrect` | `ReconcileTypeOK` | |
| `LoopKeepsNames` | `NamesLeaveOnlyWhenTold` | `TemplatesArePlain` |
| `LoopAnswersTruly` | `TrackingIsBacked`, `FailedDeleteIsRetried`, `RestoresStoredName` | `TemplatesArePlain` |
| `NothingIsDuplicated` | `NoDuplicate` | `TemplatesArePlain`, `AlwaysOn` |
| `TrackingIsKeptTrue` | `TrackingLostOnlyByLoss` | `TemplatesArePlain` |
| `TrackingIsTrue` | `TrackedMeansStoredUnlessLost` | `TemplatesArePlain`, `NeverRestoreOnly` |
| `OneAnswerIsEnough` | `OneAnswerSettles` | `TemplatesArePlain` |
| `NothingIsDoneTwice` | `SettledStays` | `TemplatesArePlain` |
| `NothingGoneIsAdopted` | `NeverAdoptsDeleted` | `TemplatesArePlain`, `TemplatesAreUnnamed`, `DeletionsAreSeen` |

All rest on `LoopInv`: the types; the handler's invariant, in which `AtOwnKey`
(every call is about the key of its composite) takes the place of `Exclusive`; and
`ObjectsSound`: an object that says its name is stored has one, and so has the
response on its way to become the objects, and a running call has observed what is
there now. From it follows that the loop's requests are ordinary. Beside it:

- `NameInv` for duplicates: an object in scope without an external name, in the
  cluster *or in a response on its way there*, has none in the store. The second
  half is what makes it inductive. A Save keeps it because it stores only names it
  observed, and while a call runs only a provider can name the object.
- `TrackingTrue` for annotations: what the composite's tracking says is stored is
  stored, and the cache of a running call is the store. A deletion takes the entry out
  of both and the annotation off the observed object, which the merge at the end
  takes its annotations from; a response calls only those names stored that Save has
  stored or the observed object did; and an apply makes the objects say what the
  response says. `TrackingStep` shows that every step of
  anybody keeps it but those that err or lose the composite's own call.
  `TrackedInv` makes an invariant of this: with nothing lost and no call that only
  restores (`BacksUpItsCall`), no call errs (`NothingFatal`).
- Settling needs nothing beyond `LoopInv`. `OneAnswerIsEnough` follows one resource
  from the answer through the apply and compares what the next request makes of it
  with what this one did: the name restored or saved is the one the annotation
  then carries. `NothingIsDoneTwice` shows that a call that `Sees` a settled
  composite passes every pass unchanged and answers with what is there. Together:
  one answer to a whole composite is applied, and from then on nothing is saved
  or deleted until somebody changes it. That the answer comes is fairness, and TLC's.
- `OwnedInv`: stored names and those of objects are names of cloud resources that
  exist; an object whose policies let its cloud resource be deleted is not tracked;
  and an object that is not tracked does not have the name the store has. So
  nothing that is deleted leaves its entry. `Untouched`, `Underway` and `Answered`
  say the same of an object at rest, of one a running call works on, and of one a
  response is about to change. `Seen` carries `DeletionsAreSeen` from the templates to
  the objects: what the provider deletes, the function's criteria match.

The assumptions say what the properties are about, and without them the
properties fail: a phase without the function, or a change of scope, leaves an object without
name and an entry, and the provider does not wait (`AlwaysOn`; purge and
restore-only may still come and go); `NeverRestoreOnly` and the conditions inside
`NeverAdoptsDeleted` are discussed in section 3; a composition that renders the
external name itself decides on it (`TemplatesAreUnnamed`; `TemplatesArePlain` as
above); and unset policies hide deletions from the function (`DeletionsAreSeen`). TLC
evaluates the three on the templates of the runs.

**The stores** (`ConfigMapStoreProofs`, `DynamoDBStoreProofs`, `StoresProofs`).
`StoresImplementStore` is `ImplementsStore`: whichever store a request names, it
implements `AtomicStore`. `StoresTypeCorrect` is
`StoresTypeOK`. The first needs `~Crowded`, the second nothing. They are put together
from theorems about each store:

- Without a condition, for any number of clients at once: `ConfigMapTypeCorrect` and
  `LossesWereUnseen`, which says that the data of a composition change only by an
  operation on it or by the Delete of an emptied ConfigMap whose Get had not seen
  them. `SoundInv` is what each client can rely on whatever the others do: a snapshot
  that is still fresh is the ConfigMap, so that an Update that is allowed changes
  nothing else; a Create was begun on nothing; and a Delete was begun when there was
  no other data.
- With `~Crowded`: `DataOfOthersAreKept` and `ConfigMapImplementsStore`. The condition
  leaves out a Save at once with a purge or a deletion of another composition while
  nothing settled keeps the ConfigMap alive, the two operations of disagreement 4,
  and no other. `ConfigMapInv` adds that a client about to write holds what its
  operation leaves of its own composition (`Exact`), and that a client about to
  delete the ConfigMap has nobody beside it who could have filled it (`Apart`).
- `DynamoDBTypeCorrect`, `DynamoDBImplementsStore`, given a key and that saves are
  compositions. `DynamoDBInv` has that an item that is not there has no resources
  (`NoGhost`), that no two clients are about one key (`OneClientPerKey`), and that what
  an attempt with a lost answer did is still there (`LandedIsThere`). The last makes
  the second attempt a stuttering step: PutItem, DeleteItem and the conditional
  UpdateItem leave alone what they have left before, and nobody else has changed
  the item between the two attempts.

**Keys** (`CompositesProofs`). `CompositesTypeCorrect`, `PipelineIsIrrelevant`
(`PipelineMakesNoDifference`),
`KeysStayApart` (`KeysAreDistinct`), `MigrationIsLed` (`MigrationFindsBackup`),
`CredentialsAreNeverMixed` (`CredentialsAreOfDefault`). The
invariant `CompositesInv` says that every remembered visit was led to the place of
some composite of that owner with those annotations; the rest is about reading a
composite. `KeysStayApart` and `MigrationIsLed` assume `ManifestsDiffer`: what
Kubernetes makes unique is different, claims are not namespaced composites at the
same time, and no one is called "none", the word the key has for a missing part (a
namespace of that name would share keys with what is cluster-scoped).
`MigrationIsLed` also assumes `GuideFollowed`. TLC evaluates both on the networks of
the run.

`CredentialsAreNeverMixed` is about texts of any length. `Held` says what the parser
holds after n lines without running it: whether line n + 1 would belong to
`[default]`, and the last value that the first n lines give each key there.
`ReadHolds` shows that a line takes what is held before it to what is held after it.
The function that the loop computes is therefore the one that `Held` gives: it
satisfies the loop's equation, and another one that does would differ from it at
a first line, where there is nothing to differ by (`ParsedIsHeld`; the first line is
found with the well-foundedness of `<` instead of an induction theorem).

**Assumptions.** Beside those above only the ones the modules name: `None` is no
name (`NamesAssumption`) and no text (`EmptyAssumption`), and the constants have
their types; in `CompositesAssumption`, the text of a secret is a sequence of lines.

**Only model-checked.** Liveness (`EventuallyBackedUp`, `EventuallyRestored`,
`EventuallyQuiet`, `TrackingSettles`) is out of the prover's reach.
The properties of runs that expect a violation are false as
they stand; of `NamesLeaveOnlyWhenTold`, `RestoreOnlyLeavesStore` and
`OthersKeepTheirData` the theorems say under what condition they hold.

## 6. What is not modelled

- Logging, timestamps, conditions and results of the response; the gRPC
  server, flags, the empty input type, generated code.
- Annotations other than those above; objects whose metadata is not a map; two
  resources that share one object.
- JSON in the stores; splitting and trimming the text of the credentials;
  how a key's parts are joined (`CompositesTypeOK` has all of them there).
- Construction of clients and stores but for the credentials, and the mock's
  registry of stores for tests.
- A write that lands after its client has given up: in `DynamoDBStore` and
  `ConfigMapStore` a call that has ended does nothing more.
- Composites whose desired annotations an earlier function has set to other
  values than the observed ones; claims whose composite's name changes; a change
  of key, store or cluster ID under a living composite (`fn.go:813` among the
  hazards).
- Results of several functions of one pipeline.

## 7. Plan

1. *Done*: `ResourceData`, `RunFunction`, `Reconcile`, `AtomicStore`,
   `ConfigMapStore`, type correctness and two safety theorems.
2. *Done*: `DynamoDBStore` and its refinement, `Stores`, `EventualReads`,
   `CompositeConfig`, `Credentials`, `Composites`; overlapping calls and lagging
   reads proved.
3. *Done*: the handler's responses, the loop, both stores, the keys and the
   credentials proved; that the loop settles, checked and proved.
4. `RunFunction` over `ConfigMapStore`: the handler's calls refined into API
   calls; whether `NamesLeaveOnlyWhenTold` survives.
5. A change of key, store or cluster ID under a living composite.
6. Of the proofs: the loop on lagging reads, where the argument of
   `SeenNamesAreKept` should still give that only unseen names are lost.
