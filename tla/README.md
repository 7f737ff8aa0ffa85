# A formal model of oasgen-provider

The repository turns an OpenAPI document into a Kubernetes resource kind and reconciles custom resources (CRs) of that
kind against the HTTP API the document describes. It is two programs:

- **oasgen-provider** (`go/oasgen-provider`) reconciles `RestDefinition`s: it fetches the document, generates a CRD from
  it, applies the CRD, and deploys one controller per definition;
- **rest-dynamic-controller**, RDC (`go/rest-dynamic-controller`), is that controller: for every CR it observes, creates,
  updates and deletes one resource of the external API.

The modules model the RDC's reconcile loop first, because that is where a wrong step costs a duplicate or an orphaned
external resource, then the provider's controller, where a wrong step costs every CR of a kind, and then what passes
between the two: the schema the provider generates and the requests the RDC builds from what it admits.

## 1. Inventory

### rest-dynamic-controller

| Part | State it keeps | Operations | What is hard | Module |
| --- | --- | --- | --- | --- |
| Reconcile loop (`restResources.go`, `exists.go`, `mutate_restaction.go`) | nothing in memory; the CR's conditions, status identifiers and annotations | Observe, Create, Update, Delete, Exists | every handler is a sequence of API calls and CR writes, and anything can happen between two of them | `RdcLifecycle` |
| Dispatch verb (`dispatch.go`) | two annotations: token dispatched, misses | observeDispatch, createDispatch, deleteDispatch | a trigger that must not be repeated, looked up in a list that lags | `RdcDispatch` |
| Long-running operations (`async_handler.go`, `async_requeue.go`, `tools/async`) | three annotations: handle, action, poll inputs | driveAsync, recordAsyncOperation, driveAsyncRequeue | the handle is recorded, polled and given up across restarts | `RdcAsync` |
| findby and pagination (`restclient.go`, `tools/pagination`) | the paginator of one walk | FindBy, Next | "I could not tell" must not become a 404 | `FindByWalk` |
| Drift (`drift.go`, `comparison`) | two annotations: signature, repeats | recordDriftRepeat, clearDriftRepeats, CompareExisting | a brake on an update that does not converge; what "not there" means to each side | `RdcUpdate`, `Comparison` |
| Dependent lookups (`lookup_runner.go`) | nothing | runDependentLookups, matchLookupItem | a referent that is not there yet | its outcome only, in `RdcLifecycle` |
| secretRef RBAC (`secretrbac_integration.go`, `tools/secretrbac`) | a Role and a RoleBinding per CR | ensureSecretRefRBACAndResolve, deleteSecretRefRBAC | made by Create, demanded by Update, removed by Delete | `RdcUpdate` |
| Delegation (`observe_restaction.go`, `mutate_restaction.go`, `snowplow`, `authn`) | a cached token, shared by the workers | observeViaRestAction, mutateViaRestAction, Token, Invalidate | a partial status behind a 200; a token that dies; a retry of what already ran | `RdcDelegation` |
| Request building (`builder.go`, `clienttools.go`, `pathparsing`) | nothing | BuildCallConfig, IsResourceKnown, ValidateRequest | six writers of one request, in an order | `KindContract` |
| Field mapping, jq (`fieldmapping`, `jqengine`) | nothing | pure functions | an object where a URL wants a scalar | which places they read and write, in `KindContract` |
| Host policy, authentication, definition getter | nothing | pure functions and reads | | their outcomes only |

Around a handler stands the *unstructured-runtime*, a library outside this repository: the work queue, the
external-create annotations, the recovery of a create whose outcome was never recorded, the conditions after a handler
returns, the finalizer.

### oasgen-provider

| Part | State it keeps | Operations | What is hard | Module |
| --- | --- | --- | --- | --- |
| RestDefinition controller (`restdefinition.go`) | the RestDefinition's status: kind and version, hashes, digest, Ready; a finalizer | Observe, Create, Update, Delete | two phases (CRD, then controller), each of which can fail half way; definitions that share a kind | `RestDefinition` |
| Version pruning and backfill (`prune.go`, `version_backfill.go`) | labels on instances | prunableServedVersions, pruneStaleServedVersions, backfillVersionLabels | a version is retired only when no instance uses it, and a LIST that failed is not zero | `RestDefinition` |
| CRDs (`crd/apply.go`, `crd/prune.go`, `crd/generation`, `crd/collision`) | the CRD's versions, storedVersions and owner | ApplyOrUpdateCRD, PruneServedVersions, Uninstall, collision check | versions are added and never silently replaced; one live owner | `RestDefinition`; the collision check is planned |
| Deployment (`deploy/deploy.go`, `policy`, `kube`) | Deployment, RBAC, ConfigMap, admission policy | Deploy, Lookup, Undeploy | order of objects, removal of what is still needed | one object per definition in `RestDefinition`; the rest planned |
| Auth-secret RBAC (`authsecretrbac.go`) | a Role and RoleBinding per namespace; the namespaces and a digest in status | syncAuthSecretRBAC, teardownAuthSecretRBAC | what must be withdrawn when a secret is no longer referenced; a legacy name two definitions share | `AuthSecretRbac` |
| OpenAPI to JSON schema (`oas2jsonschema`) | nothing that lasts | Generate | every verb contributes to one spec, three stanzas take away from it, and what is lost is refused or warned of | `KindSchema` |

The provider's runtime is *provider-runtime*, another library outside this repository.

## 2. Modules

`RdcLifecycle`, `RdcUpdate`, `RdcDispatch`, `RdcAsync`, `RdcDelegation`, `FindByWalk`, `RestDefinition`,
`AuthSecretRbac` and `KindSchema` model one component each; `Comparison` is the algorithm `RdcUpdate` is built
on, and `KindContract` extends `KindSchema` with the API server, the author and the request building of the
RDC. `MC...` modules fix the instances TLC checks and `...Proofs` modules hold the theorems. `ManagedResource`
and `OneRead` are abstract specifications.

How the parts fit together:

- `RdcLifecycle` implements `ManagedResource` (what the author of a CR is promised): `KeepsContract`. The promise is made
  for kinds with `get` and `delete` whose identity can be learnt again (a name from spec, or `findby`),
  that answer a write when it is done, and as long as no resource was lost: after a loss the identifier in
  status names the lost one, and a resource whose identifier never got there cannot be found (`Promised`).
- `FindByWalk` implements `OneRead`, a single atomic read of a collection: `AnswersAsOneRead`. This is what justifies
  the one-step reads (`ReadFound`, `ReadNothing`) of `RdcLifecycle` and `RdcAsync`, and its assumption `Fitting` says for
  which declarations they are justified.
- `RdcDispatch` and `RdcAsync` model the two special kinds of create. They share the shape of `RdcLifecycle` (a pass, a
  marker, a work queue, an environment) but not its text, because their observes are different code; what they do not
  repeat (deletion of an ordinary resource, updates, drift) is in `RdcLifecycle`.
- `RdcUpdate` opens the one-step comparison of `RdcLifecycle` (`seen = "inSync"` or `"drifted"`), on kinds
  whose resource is named by the spec, so that identity and the create marker need not be repeated.
- `RdcDelegation` is the observe, create, update and delete of `RdcLifecycle` for kinds whose verbs are sequences.
- `KindContract` composes the two programs: the provider generates a schema from a definition, the API server admits
  what the schema says, and the RDC builds requests from what was admitted and what it learnt. The traits of a kind
  (`named`, `echo`, `findby`) that `RdcLifecycle` takes as given are here consequences of documents.
- `AuthSecretRbac` is the part of a `RestDefinition` pass between its CRD and its controller.
- `RestDefinition` is what makes the kinds of the other modules exist: a CR is reconciled by the controller whose version
  its label names. `RdcLifecycle` sees of it one thing, whether the definition is still there.

### RdcLifecycle

One CR of one kind. A *kind* is the set of verbs its RestDefinition declares plus four traits: addressed by a name from
spec (`named`) or by an identifier the API returned; whether answers to writes carry that identifier (`echo`); whether
writes are answered with 202 (`async`); whether a write first looks up another resource (`lookup`).

| State | Code |
| --- | --- |
| `phase`, `marker` | deletionTimestamp and finalizer; the runtime's `krateo.io/external-create-*` annotations |
| `ready`, `synced`, `id` | the reason of the Ready condition, the Synced condition, the identifier in status. `EndpointRefused` stands for `CreateFailed` and `UpdateFailed` |
| `live`, `coming`, `dying`, `minted`, `spec` | the external resources: readable, accepted with 202, deletion accepted; how many there ever were; whether they match the CR |
| `late`, `lost` | history: the resources that were ever coming, and those somebody else deleted |
| `pc`, `seen`, `target`, `copy` | the handler's next step, the answer and the identifier it holds, whether the CR changed since it was read |
| `queue` | Create and Update events the runtime queued |
| `present` | the RestDefinition, and the referent of a dependent lookup |

A handler is cut at every call that leaves the process. `Observe` is `tools.Update`, the read, the status write with
the identifier, the conclusion; `Create` is the checks before the call, the call, the status write, the runtime's
settlement; `Delete` is the reasons to give up, the call, the verification, the finalizer. A status write fails when the
CR changed since the pass read it (optimistic concurrency); conditions the runtime writes go to a fresh copy and do not.
`Exists` is `CanTell`, `ProvenAbsent` and the three `Recover...` actions.

### RdcDispatch

A kind whose create fires a trigger that must not be repeated. `recorded` and `misses` are the two annotations, `runs`,
`unlisted` and `listed` the invocations the API performed and which of them its collection shows, `echoed` whether the
declared `echoedAt` finds the token. `submitted` and `unknown` are history variables: how often the user set a token, and
how many of its invocations never reached the annotation.

### RdcAsync

A kind whose create starts an operation the API finishes later, in blocking (Model A) or requeue mode (Model B), with
and without `postGet`. Operation *n* provisions resource *n*; `handle` is the annotation, `recorded` (history) the
operations whose handle ever reached the CR. The two status writes at the end of Observe are one step here, and the
branch for a verb that no longer declares async is left out.

### FindByWalk

One walk over the pages of a collection in search of one item, over and over. An API is a declaration (strategy, signal,
page size, maxPages) together with what it really does (how many items it serves on a page, whether its tokens end).
Pages count from the declared `startPage`, taken to be the API's first page. Whether an item matches is not modelled:
`where` is the position of the item that would. `kept` is a history variable: during this walk the API dropped no token
and no item moved across the walk's position.

### RestDefinition

Definitions of one group and kind, which share one CRD, and the instances of that kind. A document is an abstract
*content*: its version (`VersionOf`), whether it generates a Configuration CRD (`Secured`), and an identity that stands
for everything else generation reads, `spec.resource` and the generator's build included.

| State | Code |
| --- | --- |
| `phase`, `held` | deletionTimestamp and the runtime's finalizer; the `restresources-still-exist` finalizer |
| `doc` | what the definition's `oasPath` leads to at the moment |
| `status` | `status.resource`, `status.configuration`, the three hashes as one, `status.digest`, the Ready condition. A digest is the version it was rendered for |
| `crd` | owner annotation, schema of each served version, `status.storedVersions` without the vacuum version |
| `config` | the owner of the Configuration CRD |
| `ctrl`, `rolling` | the deployed controller of a definition and whether it is rolling out |
| `inst` | the instances and their `krateo.io/oas-version` label (`Bare`: none) |
| `pc`, `work` | the next step of a pass, the content it fetched, the verb, the versions it is about to retire, and whether its count was of a version that is not served |
| `applied`, `late` | history: the content a definition last applied to the CRD that is there; the instances that came, or were labelled, after a pass counted them |
| `overlooked` | history: the definitions that recorded a content they did not generate from (the second phase of Create), or whose pass ended after it applied a content and before it recorded it |

A pass is cut where it reads or writes the cluster: `Observe` up to the backfill, `Backfill`,
`Weigh`/`Conclude` (versions to retire, the digest of what is deployed, finalizer, Ready); `Create` and
`Update` fetch the document again, then `Apply`, `Configure`, and either `Note` (the first phase of Create
ends) or `Inspect`, `Retire`, `Deploy`, `Record`; `Delete` is `ObserveDeleted`, `Count`, `Drop`, `Undeploy`.
`Deploy` contains the second backfill and the second prune, which the code makes in the same pass without
another write in between. `Abandon` ends a pass at any step: a call that failed, or a restart. Which of two
live definitions owns the CRD is decided at `Apply` from what the API server says then (`MayOwn`); that check
and the write it allows are one step, as the resourceVersion makes them.

`Settles` says of a definition that is left alone that it becomes Available for its document and that everything agrees
with it: status, the deployed controller, the schema that is served (but for `overlooked` ones), no stale version served
that no instance carries, no instance without a label. It does not say that every instance is watched: one that was
written through an older version keeps its label, and the controller of the new version does not select it
(`restdefinition.go:952`).

### RdcUpdate and Comparison

One CR of one kind whose documents matter. A *kind* is an API: the bodies it may answer with, what it makes of a create
and of an update, what it moves by itself, and the paths `compareScope` leaves. A document is a JSON value (`Comparison`):
a scalar, an object or a list of values; `Inferred` stands for `InferType` as the table of what the text of each value
reads as: a scalar is compared with whatever the API has in its place by their texts, so `"[]"` is an empty list.

| State | Code |
| --- | --- |
| `phase`, `spec`, `generation` | deletionTimestamp and finalizer, the spec with the Secrets it refers to, `metadata.generation` |
| `noted`, `repeats`, `ready` | the annotations `drift-signature` and `drift-repeats`, the reason of Ready |
| `granted`, `bound` | the Role with the names it grants, the RoleBinding |
| `resource` | what the API would answer |
| `pc`, `held`, `verdict`, `copy` | the next step, what the pass read of the CR, the result of the comparison, whether the CR changed since |
| `sent`, `leaked` | history: updates the API performed since the noted signature was noted; whether a teardown failed |

`CompareExisting` is a recursive function over the documents of the instance; it reports the first difference in the
order the code walks. Its reference, `Clashes`, quantifies over paths instead. `NoteDrift` counts a report *before* the
Update it leads to is queued, and `Holds` is the brake. The Role is written by whichever verb comes by (`GrantRole`);
Update alone fails when it is missing (`RoleIsMissing`). The count in the code goes on above the limit; here it stays.

### RdcDelegation

One CR whose verbs are RESTActions. A *part* of the external resource stands for a stage: a create or update stage writes
it, a delete stage removes it, an observe stage reads it; `Base` is the part that the identifier names and the get verb
reads. `Run` picks any set of stages that succeed (a fault, unless it is all of them) and answers 200 all the same.
`cached` is the token all workers share, by the key that signed it, and `ageing` that it is within `refreshSkew` of its
expiry. A call is `AcquireToken`, then one of `KeyUnknown` (503), `CredentialMissing` and `UpstreamUnauthorized` (the two
401s), `AnswerLost` and `Run`; `Unauthorized` is the single retry. `dispatched` is a history variable: how often this call
ran its stages.

A *kind* declares whether its observe is delegated and with which predicates, and whether it has a get verb and a
`notFoundBody` for it. After a teardown that was answered, `resolveDeleteOutcome` is `VerifyDelete` (the get finds the
base, or it does not, or it cannot be asked because no identifier is known), `PredicateFails` (the base is there but
`notFoundBody` cannot be evaluated: unverifiable, so the 200 governs) or `VerificationFails` (the get, or its client,
fails: the finalizer stays); `ReleaseFinalizer` is the runtime's, in a step of its own, and fails on a CR that changed.
`past` is a history variable: whether status ever carried the identifier, whether a create or an update was ever answered
with parts but without the base (which takes the identifier from status), whether a predicate ever failed at a
verification. `IdentifiedIsNotOrphaned` says that nothing else releases a CR over a base that its status once named. A
status write that conflicts ends the Observe with an error, which the runtime reports as ObserveFailed or requeues
quietly (`restResources.go:847`): both are in the model (`Conflicts`).

### AuthSecretRbac

Definitions of one plural in different groups, whose Configuration instances refer to Secrets of any namespace. `role` and
`bound` are the grants under the group-qualified name, `legacy` the namespaces with a grant under the older name that
definitions share, `recorded` and `digest` the two status fields, `held` and `todo` what a pass collected and what its
loop has left. A pass is cut at every Role and RoleBinding it writes or removes; a call that fails may have written the
Role already. A pass that fails after its sync may still leave what the sync put into status in memory, because
provider-runtime writes the status with the error (`PassFailsRecorded`), or may not (`PassFails`). `lost` and `taken` are
history variables: the namespaces where a failed pass left a grant that status does not name, and those where somebody
removed a grant since the sync made it; only in the latter may a controller be deployed without one.

### KindSchema and KindContract

A schema is a set of field paths, a root or a leaf under it; types, formats and defaults are not modelled, presence and
"is an object" are. `KindSchema` generates: `AddParameters` for each verb in any order, references and identifier
selectors, then configured, excluded and included fields, then the diagnostics; what is in `warned` is what the code
collects as warnings. `KindContract` serves the schema (`Serve` prunes what a live CR has outside it), lets an author
write any admissible CR, and reconciles it with requests filled in the order of `BuildCallConfig`: Configuration, static
values, spec, status, mappings. `Filled`, `Composites` and `Missing` say of one parameter of one verb who writes it,
whether it would be an object in a URL, and whether it is missing; `Verdict` is what Observe makes of that. The author
may change the definition while CRs live (`Change`).

## 3. Assumptions about code outside `src/`

The unstructured-runtime is modelled from what the handler's comments and guards rely on:

- one pass per CR at a time; each pass reads the CR once;
- Observe says *absent*: a Create is queued; *not up to date*: an Update is queued; *ok*: Synced becomes a success; an
  error sets Ready to ObserveFailed and Synced to an error, except where the handler says it assessed Ready itself;
- before Create the pending marker is written; nil settles it as succeeded and leaves Ready alone; an error settles it as
  failed and sets Creating; a conflict writes no condition and leaves the marker pending or failed;
- a pending marker makes the next pass ask `Exists` before anything else: true adopts, false waits two minutes and then
  clears the marker, an error sets Creating and keeps it (the table in `exists.go`);
- the queue is in memory and lost with the process; a verb that ended in an error is tried again by way of an Observe.
  (A runtime that retried a failed Create event without observing first would need `CreatesOnlyWhenBlind` restated.)

provider-runtime runs Observe and then, in the same pass, the verb it asked for; one pass per definition at a time; a pass
that failed is followed by another; a definition gets its finalizer with its first pass and loses it when Delete returned
nil and the extra finalizer is gone. Its create annotations are abstracted: that a Create whose outcome was not recorded
is settled is taken for granted.

The external API never serves stale reads of a single resource, and does not give two resources the same name. The
Kubernetes API server removes the instances of a CRD with the CRD, and answers a list through a version that is not
served with "no matches" or "not found".

snowplow runs the stages of one call or none of them before it answers 401 with a cause of its own, answers 503 for a
token whose key it does not know, and 200 with what was composed otherwise. Stages are written to be run again: a
create sequence may find parts of the resource there. authn issues tokens signed with its current key.

## 4. Runs

All are listed in `PROJECT.json` with what each shows. The passing runs:

| Run | Question | Instance | States |
| --- | --- | --- | --- |
| `RdcLifecycleSafety` | can a create be sent next to a resource the CR could have read, a CR be Available for nothing, a finalizer go early, the promise to the author be broken? | 13 kinds, 3 resources, 2 disturbances | 401k |
| `RdcLifecycleLive` | does a CR come back to Available, and does a deleted one go? | 7 kinds, 3 resources, 2 disturbances | 214k |
| `RdcDispatchRun` | is a token fired once, and does a dispatch get a verdict? | 2 tokens, 2 misses, 3 disturbances | 285k |
| `RdcAsyncRun` | is a recorded operation followed and not repeated, and does its CR end Available? | 12 kinds, 4 operations, 3 disturbances | 43k |
| `FindByWalkRun` | does a walk answer as one read would, and does it end? | every declaration, up to 7 items, 2 disturbances | 43k |
| `RestDefinitionRun` | does a definition settle on its document, a deleted one go, and is nothing dropped or retired that a pass counted? | 1 definition, 3 contents in 2 versions, 1 instance, 3 edits, 2 disturbances | 268k |
| `RestDefinitionRivals` | is a definition that becomes Available for what it applied served that, next to a rival? | 2 definitions, the same contents, 1 instance, 2 edits | 1.05M |
| `RdcUpdateRun` | is the comparison right, is a futile update given up and an edit tried, does the Role go with its CR? | 6 APIs, 2 specs, 1 edit, 1 disturbance, a limit of 3 | 245k |
| `AuthSecretRbacRun` | does a controller read what its Configuration refers to, and nothing forgotten? | 2 definitions, 2 namespaces, 2 Secrets, 1 edit, 1 failure | 297k |
| `KindContractRun` | can every request be built from what the schema admits, or was the author warned; does what was found stay found? | 202 definitions and their edits, any admissible CR | 27k |
| `RdcDelegationRun` | is no sequence replayed, no finalizer released over a base the CR knew but where the code says so, and does a delegated CR end complete and a deleted one go? | 9 of the 15 declarations, 2 parts, 2 disturbances | 359k |

The bounds. `MaxFaults` bounds disturbances, not steps: a run explores every point at which that many
failures, conflicts, restarts and edits can fall, and two are enough for "a failure while recovering from a
failure". `MaxCreates` bounds the resources the API makes; the second one is the duplicate the properties are
about, and there is one more than disturbances can consume, so that no run ends for want of a resource.
`MaxMisses` is 2 where the code has 5: it separates "not yet" from "for good". `Ceiling` is 3 where the code
has `MaxFindByPages`, with declarations on both sides of it, and 7 items of 1 to 3 a page fill more pages than
the ceiling allows. In `RestDefinition` two contents of one version and one of another make both kinds of
edit, and the version the provider falls back to before the first status is one of the two, so that the
fallback can be served and not served; `MaxEdits` bounds what users do (an edit of a document, an instance
written or deleted, a definition created or deleted), and in the two-definition run the rival passes are the
disturbance. `MaxDriftRepeats` is 3 where the code has 5: a first report, one that repeats it, and the one
that brakes. The APIs of `RdcUpdateRun` are one that obeys, over a resource somebody else left in eight strange
shapes, and one for each way to miss: it answers in another shape, with and without a scope that leaves the
field out, in a shape that cannot be compared, it moves a field by itself, and it resets one field whenever
another is set. Two parts are enough for a partial stage, and a base with an attachment. `RdcDelegationRun` leaves out
kinds that lack a predicate and have no get verb, or one with a `notFoundBody`; its safety properties were also checked for all 15
and three disturbances (2.0M states), and are theorems. The definitions of
`KindContractRun` differ from the plainest of their shape in at most two of identity, mappings, narrowing and
answers, so that in its two main shapes every pair of features meets.

Type correctness is a theorem of every module; `KindContract`'s `ContractTypeOK` is also checked by its run.

Deadlock is not checked in the lifecycle, dispatch, delegation, RestDefinition and auth-secret runs: a CR that is gone is
the end, and so are definitions that are gone when the users have nothing left to do.

One run states what a comment says and the code does not do; `findings` in `PROJECT.json` quotes it.
`RestDefinitionDrop`: a definition that never generated anything, refused because another one owns the kind,
is deleted; it counts instances through the fallback version, which the CRD does not serve, finds none, and
drops the owner's CRD with its instances.

### Known limits of the code that the properties allow for

These came out of counterexamples while the models were written. They are what the exceptions in the properties stand
for, and are stated here so that nobody takes an exception for a detail.

- *Reconcile loop.* A create the API refused with a 403 is sent again after the next Observe, which does not
  consult the condition (`condition.go:22` says the controller stops). A create that waited for a lookup's
  referent is not retried: waiting is spelled Pending, and Observe takes a 404 under Pending for a create
  under way (`restResources.go:1120` says the next reconcile retries). The error answer of Exists on a Pending
  CR makes the runtime write Creating over it, and the next 404 is taken for absence while the first create is
  under way (`exists.go:43` calls the error path strictly safer). A status write of Create that
  conflicts after a 202 loses Pending (`restResources.go:1243`), with the same effect. A CR whose identifier was not recorded
  when it is deleted cannot address its resource and leaves it behind (`restResources.go:1601`).
  A create queued before an update is sent although the
  update was answered with 202 and the CR is Pending for it. A write-only kind answered with 202 is
  created again, because Pending is neither Creating nor Available to an Observe that has no verb
  (`docs/api.md:104`). After a loss the identifier in status names the lost resource, and a resource created
  in its place whose identifier never reached status is not found. A create still under way when a deletion
  verified absence comes up afterwards.
- *Dispatch.* An invocation whose answer or annotation was lost is fired twice; a token used again after another one is
  fired again; a restart between the create marker and the call leaves a dispatch that is never fired.
- *Long-running operations.* A restart after a handle was recorded and before the marker was settled leaves an operation
  that is never polled (`restResources.go:1178` says that each Observe polls). A `postGet` whose identifier is found
  only by list, or whose status write conflicts, keeps its handle for ever.
- *Pagination.* A continuation token missing from one answer, a page size the API clamps, and an item removed behind the
  walk each make a 404 of a resource that is there. A complete walk whose last permitted page is full is reported as
  truncated (the comment at `page_number.go:72`).
- *Drift and updates.* Two differences that alternate reset each other's count and are updated without end (`Settles`
  speaks of a difference that stays). A comparison that fails, because shapes clash, is not counted at all. A restart
  between the note and its verdict uses up a count: what is counted are reports, though `drift.go` speaks of updates.
- *Role of a CR.* A CR that adopted its resource and refers to Secrets fails every Update, because only Create makes the
  Role that Update demands. The Role is not narrowed when the last reference goes. A teardown that fails is only logged.
- *Delegation.* An update whose stages failed still sets Available, and a kind without `upToDateExpr` stays so. A partial
  observe can read as absent, and the sequence of the create is run over a resource that is there. A teardown that cannot
  be verified trusts its 200: a kind without a get verb, a CR without an identifier (one that was never written, or that
  the answer of a later create or update lacked, `mutate_restaction.go:46`), a `notFoundBody` that fails on the resource
  (`mutate_restaction.go:212`). One that can be verified looks at the base alone. Observed status is merged, so that a
  field which is gone stays. A pending marker of a kind with a delegated observe is never settled.
- *Grants for authentication.* A pass that fails, or a provider that restarts, before it writes status forgets a grant it
  made if its reference is gone by the next pass (`lost`); legacy grants that cannot be removed are only logged.
- *Schema and requests.* A required parameter that is excluded because a status field stands in for it is
  missing until status has it, the first create included. A configured parameter leaves the spec for every
  verb though the Configuration gives it to the listed ones. A whole status field whose answer is an object
  takes a parameter's name without a warning. An update whose answer omits the identifier erases it, and the
  next Observe falls back on findby or a create (`builder.go:505` says that only "no identity yet" may lead to
  a create). An allowlist drops a dotted identifier that selects a kind nobody creates
  (`included_spec_fields.go:71`). A mapping from the status of a kind without a status schema is not warned
  of, and one that reads its own target counts as a supplier in the shadow check.
- *RestDefinition.* The prune at the end of Create and Update looks at `storedVersions` only, and retires a
  version that instances carry as their label (`prune.go:27` says any live instance keeps it). The second
  phase of Create records the hash of the document as it is then: after an edit in between that keeps the
  version, the definition is Available over the old schema (`restdefinition.go:1483` says Ready means the kind
  described is the kind served). A pass that is cut off after it applied an edit, and finds the edit taken back, has
  the same effect: the recorded hash agrees with the document again, and nobody applies it (`overlooked`). An instance
  that is labelled with a version the document no longer names is watched by no controller
  (`restdefinition.go:952`), and keeps that version served. If applying the Configuration CRD fails after the resource CRD was applied,
  later passes find the version served and do not apply it until the document changes (`Unconfigured`). The
  check that another definition references a version compares group and version with a version
  (`prune.go:138`; its tests set a bare version) and never finds one. The second phase of Create does not look
  at the owner, so a rival whose version is served deploys a second controller for the kind (the comment at
  `apply.go:33` says it is refused). An adopted CRD keeps the schema of the definition it is adopted from
  while the version is the same and nothing drifted: `AvailableForWhatItApplied` speaks of definitions that
  applied something.

## 5. Fairness

RDC: a worker finishes the pass it started, resyncs keep coming, and the work queue is first in, first out:
weak fairness of the steps of a pass and of `StartObserve`, strong fairness of the starts of a queued Create
or Update and of a deletion (a resync does not starve them, though it can come first any number of times). The
API finishes what it accepted (`Materialise`, `Reap`, `List`, `OperationSucceeds`) and a referent appears.
`FindByWalk` needs only that the worker goes on.

`RdcUpdate` and `RdcDelegation` assume the same of their passes and queue; `RdcDelegation` adds that time passes (`Age`),
which is what frees a worker from a dead token. `AuthSecretRbac` assumes that a started pass goes on and, strongly, that
a definition whose grants drifted is observed. `KindContract` has safety properties only and assumes nothing.

Provider: weak fairness of each definition's pass, because a pass runs to its end and a watch or the poll interval brings
the next one, and of `RollOut`, because a deployment becomes available.

Steps that are disturbances are excluded from every fair action: nothing depends on a failure happening.

## 6. Proofs

Every theorem is proved for every value of the constants, from the named assumptions in the component's module.

Every action property, both refinements and every safety invariant but one that the runs check are theorems: a run
shows that a property fails on a mutant of the code and holds on an instance of it, its theorem that it holds on all.
The newest strengthenings are definitions at the end of `RdcLifecycle` and `KindContract`; TLC checked them before they
were proved, those of `RdcLifecycle` with more disturbances than its runs have.

- `RdcLifecycleProofs`: types; `AvailableIsReal` from `TracesAreReal` (everything that could make Observe or the
  runtime write Available is a trace of a resource: an answer that found one, a queued update, a success recorded as
  Creating with no error beside it); `OrphansAreByDesign` from `ReleaseIsJustified` (the reason a pass holds when it
  reaches the release, and that what is still coming was accepted with a 202), with the lemma that only
  `ReleaseFinalizer` ends a CR.
  `CreatesAreBlind`, `PendingHolds` and `LifecycleKeepsContract` share one inductive invariant, `Foreseen`. A create is
  decided on in one step, from a read of an earlier one, and sent in a third, so none of the three says anything of
  the step before: `CreateIsBlind` carries what the 404 showed (whatever can be read came up late) from the
  conclusion through the queue to the request, past an update in between that makes the controller read with findby
  instead; `PendingWaits` says what a Pending CR with a create still to come is waiting for; `OneResource` that a kind
  the promise covers gets one resource in its life and has it until a deletion begins;
  `Numbered` and `PassIsPlaced` what identifiers, the pass and the queue say of each other. The refinement
  maps a create that lands to `Provision` (there was none, by `OneResource`), what takes resources away to `Destroy` or a
  stutter, the beginning of a deletion to `Abandon`, `ReleaseFinalizer` to `Release` (nothing is within reach, by
  `ReleaseIsJustified`), and every other step to `Identify`, which changes at most what the CR can address.
- `RdcDispatchProofs`: types; `RecordedIsRun`; `RunsNeedCredit`. The bound on runs is not inductive: firing is not
  guarded by it. `CreditIsLeft` says where the credit of a fire still to come is: in the CR's token while it is not
  the recorded one or a Create is queued, in the Create under way, in the edit made behind a pass.
- `RdcAsyncProofs`: types; `PendingHasReason`, `NoSecondTrigger` and `HandleIsTraded` from `AsyncInv` (every operation is
  running, failed or a resource; of the recorded ones only the CR's can be running; no create is queued or under way
  while the CR has a handle; what each step of the poll remembers).
- `RequestProofs`, about `FindByWalk`: types; `BoundDecides` and `GivesUpAtItsBound`, both from `BoundInv` (a page-number
  walk that goes on has read fewer pages than it may); `WalkIsOneRead`, the refinement of `OneRead`, from
  `NothingIsBehind` (what the walk has passed is in the collection and is not the resource).
- `RequestProofs`, about `KindContract`: types (what is served is what was generated last, among them); the five
  promises from `KindIsKept`, for every set of names, documents, definitions and edits. The promises are about a
  request at the end of the chain; the invariant says, at each stage of the generation, where what a verb needs has gone.
  `BoundIsCarried`: a required parameter no one else supplies is in the spec and required, or was taken out by the
  Configuration, or by an exclusion that has a status field to stand in (`NothingMissing`). `OfferIsCarried`: a field
  the documents offer is in the spec or its absence is accounted for; after `Change` and `Serve` this says what may be
  pruned (`DroppedAnnounced`). `WarningsAreIn`: a finished generation has given its warnings (`ObjectsForetold`,
  `AbsenceForetold`). `ResourceFits`: a CR holds what the served schema has, its status included. `FoundNotLost` follows
  each of the ways a verdict is made (an identity in a path, a mapping, a Configuration, findby) through each step.
- `RestDefinitionProofs`: types; `DropsNoneItCounted`, `StoredVersionsStay` and `AvailableMatches`, for any number of
  definitions, from `IInv`. The action properties are not about one step: `CountHolds` carries a count to the step it
  authorises (what is there between the two came late), `Owns` says that whoever applied the CRD still owns it and that
  its version is as applied or retired, `DigestHasHash` that what is recorded belongs together, `PassKnows` that a pass
  still belongs to a definition and to a content, and `Unobserved` that a definition which goes at once has made nothing.
- `RdcUpdateProofs`: types (a count of repeats is there exactly when a signature is); `UpdatesAreBounded` from
  `BrakeInv`. That fewer updates than the limit were sent is not inductive, because sending is not guarded by
  the count: the invariant says that each update sent, or still owed by a queued event or a pass on its way,
  was paid for by a report of its own, and that a pass about to conclude has one to spend. `GrantsGoWithTheCR`
  from what the steps of a deletion leave.
- `AuthSecretRbacProofs`: types; `GrantsAreRemembered` from an invariant on each step of a pass (what the loop has done
  is among what was collected, what it has left to withdraw is still recorded); `GrantsPrecedeDeployment` from what the
  sync has provided by the time it reaches the deployment, in every namespace where nobody took a grant away since
  (`taken`), whatever calls failed before.
- `RdcDelegationProofs`: types; `StagesRunOnce` (the only way back to a call leaves its stages not run) and
  `IdentifiedGoesWithItsBase`. A release is decided in one step and made in another, and what it rests on was written
  by passes long ago: `Identity` says that once status named the base it still does, unless an answer without the base
  was projected, and that a pass that reaches the release of such a kind has seen the base gone or a predicate fail;
  nothing brings the base of a CR that is being deleted back in between.

What is only model-checked: liveness (`Converges`, `DeletionCompletes`, `Diagnosed`, `Followed`, `WalkEnds`,
`Settles`, `EditIsTried`, `ReadsWhatItRefersTo`, `DeletedGoes`), which is out of the prover's reach, because it rests on
fairness and ENABLED; and `ReportsFirstClash`, because what a recursive function computes for every document needs an
induction over documents.

What the attempts to prove showed about the models:

- `PendingIsNotRecreated` had been stated for any resource that is coming. It is not so: with three disturbances a
  create that was queued before an update is still sent after the update was answered with 202 and made the CR Pending.
  TLC finds it at `MaxFaults = 3`; the run has 2. The property now speaks of what Pending is about: the resource the CR
  names, or the first the API accepted.
- `FoundIsNotLost` had allowed for any write of the controller. It now says what such a write must do: drop from status
  something the resource is found by, an identifier, a parameter of get, or the source of one of its mappings.
- `DroppedFieldsAreAnnounced` had asked only about fields some verb still supplies. It now asks about every field the
  documents offer (`Offered`), and an allowlist counts only when the field is off it.
- A status can hold only what its schema has: `Serve` prunes it like the spec (`StatusKeeps`), as the API server does.

## 7. Plan, and what is not modelled

Still worth doing, in this order:

1. `RdcAsync` for update and delete: their handles, an Update queued before an operation started, the stale annotation of
   a verb that no longer declares async.
2. Deployment: the objects of one deployment, their order, and what Undeploy may remove.
3. provider-runtime's create annotations in `RestDefinition`, the collision check, and management policies.

Not modelled, by component:

- *Schema generation*: composites of the deprecated `requestFieldMapping`, conflicts between documents over a name that is
  also a body property, patterns and validation keywords, the envelope of lists, the OpenAPI parser adapters.
- *Request building*: the deprecated `requestFieldMapping`, which writes to path, query and body before `fieldMapping`
  does (`builder.go:222`): the definitions of `KindContract` declare `fieldMapping` only. The base body of a dispatch,
  authentication and telemetry of the HTTP call.
- *Reconcile loop*: `notFoundBody`. In `RdcLifecycle` a get tells absence by its 404, and `Verdict` has no predicate
  that fails on a 200, after which the delete would count as unverifiable and its own answer govern; `RdcDelegation`
  models that branch of `resolveDeleteOutcome`, which both share.
- *Delegation*: an operation in flight that a delegated observe overlooks.
- *Host policy and authentication methods*: pure decisions about one address or header, without state or order.
- *jq programs*: written by the author; only where they read and write is modelled.
- Chart rendering and templating, telemetry, the mock server, generated code.
