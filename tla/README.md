# Verification of the odh-observability operator

TLA+ specifications of the operator in `src/`, the TLC runs that check them on
small instances, and TLAPS proofs of the properties that matter most. The
modules are translated from the Go code; `PROJECT.json` maps every definition to
the lines it stands for, and lists the hazards of the code with the properties
that would catch them.

## The system

The operator reconciles one cluster-scoped `Monitoring` CR into MonitoringStack
and ThanosQuerier (metrics), two log pipelines (a LokiStack each, with a usage
logs collector or a ClusterLogForwarder shipping into it), tracing, an
OpenTelemetry collector, alerting, dashboards and Korrel8r. It also serves an
admission webhook that labels ServiceMonitors and PodMonitors, and probes that
webhook.

| Part | Source | Module |
|---|---|---|
| What the reconciler promises of owned objects | `monitoring_reconciler.go` | `Custody` (abstract) |
| Reconcile round: finalizer, gates, apply, sweep, status patch, requeues | `monitoring_reconciler.go` | `MonitoringReconciler` |
| Log pipelines, storage gate, metrics stack, Prometheus CA | `actions.go`, `helpers.go` | `MonitoringReconciler` |
| Tracing, collector, alerting, Perses, node metrics, Korrel8r; clean-ups that verify and then delete; platform handshake | `actions.go`, `monitoring_reconciler.go` | `FeatureReconciler` |
| What a round reads and computes: COO version, images, proxy TLS, API server addresses, namespaces, exporters | `templatedata.go`, `proxy_tls.go`, `helpers.go` | `TemplateData`, `TemplateAlgorithms` |
| The key by which storage Secrets are compared | `actions.go` | `StorageLocation` |
| Conditions and their aggregation | `conditions/conditions.go` | `Conditions` |
| Webhook TLS posture | `cmd/tls.go`, `cmd/main.go` | `WebhookTLS` |
| Admission probe and injector | `webhook/probe.go`, `webhook/mutating.go` | `AdmissionProbe` |

The parts interact as follows. The work queue starts a round when a watch event
or a requeue asks for one. A round reads the spec and the status, and what it
publishes in the status (an endpoint) is read by the next round to decide what to
render (the collector). The storage gate withholds pipelines from rendering, and
the sweep has to shield what is withheld. The webhook reads the CR that the
reconciler manages; the probe tests the webhook through the API server.

The reconcile round appears in three modules, each of which keeps the whole
sequence of a round and details one side of it: the life of the CR and the log and
metrics stores (`MonitoringReconciler`), the other features and what a round
deletes after a check (`FeatureReconciler`), and the values it computes before it
applies anything, with the namespace scopes that follow from them
(`TemplateData`). One module with the product of their states would be out of
TLC's reach. They share `Conditions`, and what one of them computes the others
take as given: the gate's comparison is an intersection of abstract locations in
`MonitoringReconciler` and `canonicalStorageLocation` in `StorageLocation`; an
invalid exporter is a flag in the one and a list of checks in the other.

## The modules

### `Conditions`

A condition is one value, its verdict: `"Absent"`, `"True"`, `"Info"` (False at
info severity), `"Unknown"`, or a failure, of which the storage conflict and the
missing credential are told apart because the code reads those reasons back.
`AggregateOver`, `MarkReconcileFailed` and `MarkStopped` are the three ways in
which the top-level conditions come about.

### `MonitoringReconciler`

State: the CR (`cr`, `spec`, `status`), the work queue (`queued`, `timer`), the
owned objects (`live`, those without a component label in `legacy`, the Secret
that each LokiStack was applied with in `stackSecret`, the LokiStacks that are
`ready`), the rest of the cluster (`secrets`, `operators`, `crds`, `credential`,
`caInjected`), and the running round (`pc`, `round`).

One action per stretch of the round between two writes that others can observe:

| Action | Code |
|---|---|
| `BeginGone`, `BeginDeleting`, `Begin` | `Reconcile` up to the call of `reconcile` |
| `Cleanup`, `RemoveFinalizer` | `deleteAllOwned` and the finalizer patch |
| `CleanupRemoved` | `managementState: Removed` |
| `Stop` | namespace mismatch, missing operators, configuration error |
| `Render` | the action functions, the storage gate, rendering, the Prometheus CA |
| `Deploy`, `DeployRejected` | the apply |
| `Sweep` | `collectGarbage`, the Thanos CA, endpoints, aggregation, the result |
| `PatchStatus` | `patchStatus` and the return to the work queue |

Failing calls have counterparts named `...Fails`, with the partial effects the
code can leave. `Restart` may happen anywhere. The environment edits and deletes
the CR, edits Secrets, makes stacks ready or not, deletes owned objects, installs
and removes operators and CRDs, and changes the credential and the CA.

Reads of one stretch are one step, with one exception: the readiness of the log
forwarding LokiStack is read twice in a round (`actions.go:976` and again for the
ClusterLogForwarder), and the forwarder's verdict is therefore a choice of its
own.

The templates of a pipeline are one object per way in which they are treated: the
LokiStack, which the sweep keeps by its kind even without a component label, the
namespaced workload and the cluster-scoped RBAC. An upgrade finds a LokiStack, and
perhaps a usage logs collector with its RBAC, that carry no such label.

### `Custody`

The abstract specification: owned objects and published endpoints exist only
under a CR that carries the finalizer, and that CR is released only from a state
in which all is gone and nothing is added. It knows no rounds, templates,
failures or restarts. `MonitoringReconciler` instantiates it as `Kept` (`Owned` is
`Objects`, `Components` is `Pipelines`, `endpoints` is `status.endpoints`, `closed`
is `pc = "unfinalize"`), and `CustodyKept` says that it implements it.

### `FeatureReconciler`

State: as above for the CR, the queue and the round; `live`, where an object
stands for the templates of one action or of one branch of it; `collector`, with
its configuration and the generation at which it was last reported Ready;
`korrel8r`; `guarded`, the three kinds of objects that are read, verified and then
deleted (legacy token Secrets, the OpenTelemetry operator's NetworkPolicies,
cluster-scoped RBAC); the platform ConfigMap; and two inputs that decide how a
round returns and whether it stamps the platform version, the Prometheus CA
(`caInjected`), without which the MonitoringStack is left out, and the storage
Secrets (`refused`), for which the gate refuses the log pipelines. `applied`
records the versions for which a round left nothing out.

    Begin -> Render -> DeleteToken -> Deploy -> DeletePolicy -> Sweep
          -> DeleteRBAC -> PatchStatus

Each of the three deletes is a step apart from the read that it relies on, so
that a user can take over the object in between; `round.held` records whether the
object is still as it was read. The deployer sorts by kind, so an apply that fails
leaves any part of the rendered objects behind.

### `TemplateData`, `TemplateAlgorithms` and `StorageLocation`

One action per step of `buildTemplateData`, in its order and with its early
returns, then the gate, the apply and the sweep in their effect on the two scopes
that follow other people's namespaces: the Roles of the TargetAllocator, of which
an apply is rejected if its namespace has gone since it was listed and which the
sweep deletes elsewhere, and the namespaces that logs are forwarded from. A sweep
that fails is logged, the round reports what it would have reported, and a
requeue makes up for it. `validateExporters` is one step per exporter in any
order, because the code ranges over a Go map. The algorithms that look at nothing
but their arguments are operators of `TemplateAlgorithms`
(`cooInstalledCSVVersion`, `imageSupported`, `filterProxyCurvePreferences`,
`kubernetesAPIServerCIDRs`, `namespaceWatchPredicate`, `firstFailing`) and of
`StorageLocation` (`canonicalStorageLocation`), which also has the spellings of a
location (`Spell`), from which the Secrets are made.

The config of an exporter is the set of its nodes (objects, arrays, strings, keys
and values of unsupported types) with their depth and size, and the names of its
fields. Which node contains which is left out, so that any offending node may be
the one the message names, unless the outermost object offends. A bucket is one
label of a host name; bucket names with dots, which the code strips from the host
in the same way, are left out, and the key is the record of the parts that the
code joins into a string.

### `WebhookTLS`

The process resolves the posture once (`resolveWebhookTLS`), registers a watcher
or a recovery poller (`registerWebhookTLSReload`), and exits to be restarted when
either of them finds the posture outdated. Settings and their readability change
at any time. `buildWebhookTLSOpts` validates once more the profile that the load
has validated (`tls.go:252`), which therefore never fails, and the profiles are
those that convert to Go settings (`tls.go:256`): either failure would end the
process as a refused load does.

A cluster without the APIServer API, or without the resource, is assumed to stay
so (`NoAPIServer`). The process that finds neither keeps Go's defaults and watches
nothing (`tls.go:190`), so that it would not notice an APIServer resource created
later, until it is restarted; `NoSilentStaleness` and `FollowsCluster` rest on that
assumption.

### `AdmissionProbe`

One action per API call of a probe cycle. `Admitted` is the API server with the
webhook behind it, under either failure policy; `inject` is the injector. The
webhook, the namespace label and its cached copy, the CR and the canary change
between the calls.

### `DocumentedClaims`, `MCReconciler`, `MCFeatures`, `MCTemplateData`

What comments and documents say where the code does something else, and the
small instances.

## What TLC checks

| Run | Question | Properties |
|---|---|---|
| `pipelines` | Edits move one bucket between the pipelines, onto both and onto a missing Secret; an upgrade leaves unlabelled stacks and collectors, two faults anywhere | `QuiescentNoLeftovers`, `WithheldPipelineFrozen`, `NoSharedBucketAfterSweep`, `ClaimedStackNeverSwept`, `EndpointWithdrawnOnlyWhenConfirmed`, `TypeOK` |
| `lifecycle` | Create, edit, Removed, delete, drift, LokiStacks fail, two faults anywhere | `NothingLeftBehind`, `ReadyIsHonest`, `DeletionCompletes`, `CustodyKept` |
| `metrics_stack` | Operators and the ThanosQuerier CRD come and go, the CA disappears, a list call fails | `MetricsStoreKept`, `ReadyIsHonest` |
| `convergence` | Secrets are edited into a conflict and back, also under a round; users settle on a spec that is in order, or on a conflict | `Converges`, `ConflictReported` |
| `features` | Specs, CRDs, the platform version, the CA, the storage Secrets and the guarded objects change under a round, calls fail, the operator restarts | `ForeignKept`, `LegacyTokenGoneFirst`, `PlatformVersionEarned`, `ReadinessReported`, `FeaturesConverge`, `TypeOK` |
| `template_data` | 1844 clusters, ordinary in all respects but one; in some of them namespaces and inference services change, lists and sweeps fail and Roles are rejected | `ExportersOrderFree`, `NewestCOOVersion`, `ImageNewEnough`, `CurvesKeepPreference`, `OneLocationOneKey`, `SecretScopeCurrent`, `InferenceFollowed`, `StatusSettles`, `TypeOK` |
| `webhook_tls` | Settings change around resolution, crash and restart | `NoSilentStaleness`, `FollowsCluster`, `TypeOK` |
| `admission_probe` | The webhook goes and comes under both failure policies | `SuccessProvesAdmission`, `OutageReported`, `HealthReported`, `TypeOK` |

All of them hold. What the less obvious ones had to be weakened by says something
of the code:

- `ReadinessReported` and `FeaturesConverge` end either in the right state or in
  a reported configuration error: a failed list call of `buildTemplateData` is
  treated like one (`monitoring_reconciler.go:351`), with no error and so no
  backoff.
- `ForeignKept` speaks of Secrets and RBAC, whose deletes carry preconditions. The
  delete of a NetworkPolicy carries none (`monitoring_reconciler.go:533`).
- `WithheldPipelineFrozen` exempts what an upgrade left without a component label,
  LokiStacks excepted. The sweep cannot tell to which pipeline it belongs: an
  upgrade into a storage conflict deletes the collector and its RBAC, and the
  first apply that is not withheld brings them back.
- `StatusSettles` is stated for maps of which there is only one thing to say. With
  two offending exporters, or two offending places in the config of one, the
  message depends on the order of a Go map; a status that changes starts another
  round, and the rounds do not come to rest.
- `SecretScopeCurrent` lets the scope be too wide while a timer is pending, as it
  is after a sweep that failed, and says nothing while the status reports a
  failure, as it does after an apply that was rejected.
- `PlatformVersionEarned` counts a round only if it left nothing out. That the
  version is stamped in the end is part of `FeaturesConverge`, which exempts the
  wait for a CA that never comes and storage that stays refused.
- `InferenceFollowed` holds in the end only: a failed discovery is logged, and the
  round forwards from no namespace and reports success until its requeue.
- `OneLocationOneKey` leaves out hosts that themselves begin with the bucket's
  name, and claims nothing of them. For bucket `b` at host `b.minio` the path style
  is keyed `//minio/b` and the virtual-host style `//b.minio/b`
  (`actions.go:1301`): two Secrets that spell this one place in the two ways are
  not seen to conflict, although the comment at `actions.go:1256` has the gate fail
  closed where a spelling is ambiguous. Path-style `b.minio` and `minio`, which are
  two places, are in turn taken for one.
- `NewestCOOVersion` is about chains: replacements go upwards, and every installed
  version but one newest is replaced in its namespace. For others the code falls
  back to the ClusterExtension.
- `NoSharedBucketAfterSweep` is about the end of a sweep. The apply precedes it, so
  a bucket that an edit moves has two stacks on it in between.

Four runs refute what a comment or document says; `PROJECT.json` quotes the lines:

- `removed_endpoint`: `managementState: Removed` leaves the endpoints of deleted
  stacks in the status.
- `conflict_resolved`: the first round after a storage conflict is fixed sweeps
  the usage logs collector instead of resuming the pipeline.
- `missing_querier_crd`: with only the ThanosQuerier CRD missing,
  `MonitoringStackAvailable` keeps its old verdict.
- `operator_installed`: a logs-only spec that stopped for missing operators stays
  stopped after they are installed, if their CRDs were there before.

### Bounds

- Two Secrets and two locations: enough for separate, overlapping (`OneBucket`
  has one Secret with two locations), shared and missing storage. The code
  compares at most two claimants.
- Each run lets users move between two to four specs, chosen so that every pair
  of modes the question is about follows each other.
- `MaxFaults` is the number of failed calls and restarts in a behaviour. One is
  enough for every single-fault path; `pipelines` has two, because a failed sweep
  is masked by the event of the status patch unless that is lost as well, and
  `lifecycle` has two, so that a retry of the clean-up can fail again.
- `MaxChanges` of `FeatureReconciler` counts edits, faults and disturbances
  together. Two let a user take over an object under a round that an edit, a
  fault or another change has prepared. Users move between traces in Tempo,
  metrics storage with alerting and logs, and Removed; all operators are there or
  none, and three CRDs are never there, so that their features are unavailable or
  left out; those of the collector and of Perses come and go.
  There is one platform version, published during the behaviour. The instance
  starts after an upgrade that left tokens and policies behind (`Leftovers`); a
  fresh start is covered by the theorems, for safety.
- `MaxChanges` of `TemplateData` bounds namespace and inference changes and failed
  lists and sweeps. Sizes, depths and versions take the values around their
  limits; up to three ClusterServiceVersions are listed in every order, and up to
  three curves.
- `Disturbances` names what else may happen in a run of the reconciler, so that
  each question is asked with the disturbances that bear on it.
- `MaxPolls` bounds the reads of a probe cycle, `MaxCrashes` the crashes of the
  process. Nothing is declared symmetric: the specs tell Secrets and locations
  apart.

Deadlock is not checked in `features` and `template_data`, where the bound on
changes lets a controller without work wait for ever, as the real one does.

### Fairness

`MonitoringReconciler`: a queued request is handed out and a round runs on (the
controller-runtime worker), a requeue fires (`TimerFires`), and a LokiStack that
exists and is not disturbed becomes ready (the Loki operator).
`FeatureReconciler` and `TemplateData`: the same of the worker and the timers, and
nothing of other operators. A collector may never be admitted, and the status
must then say so. Failed calls and restarts are not fair and are bounded.
`WebhookTLS`: kube restarts the process, the manager runs what was registered, the
poller ticks. `AdmissionProbe`: the ticker fires, calls return, the cache catches
up.

The ten-hour resync of the informers is not modelled. "At rest" (`Quiescent`)
means until something happens, and the properties at rest are claims about the
code's own requeues and watches.

## What is proved

The theorems hold for every value of the constants that satisfies the assumptions
of the modules: specs, stores, operators and CRDs have their types and are not
empty, what an upgrade leaves is `"absent"` or `"ours"`, and the bounds on faults
and changes are natural numbers. Of the clusters of `TemplateData` they assume
`WellFormed`: no ClusterServiceVersion is listed twice (a name is a version, so a
namespace has each version once) and none without the API for them, versions,
sizes and curve IDs are natural numbers, a map of exporters is finite, and a claim
names a place (or none) in one of the `Styles`.

| Module | Theorem | Property |
|---|---|---|
| `ReconcilerProofs` | `ReconcilerTypeSafe` | `TypeOK` |
| | `FinalizerLeavesNothing` | `NothingLeftBehind` |
| | `StatusIsHonest` | `ReadyIsHonest` |
| | `CustodyRefined` | `CustodyKept` |
| | `RestLeavesNothing` | `QuiescentNoLeftovers` |
| `SweepProofs` | `ClaimedStacksKept` | `ClaimedStackNeverSwept` |
| | `MetricsStoreSafe` | `MetricsStoreKept` |
| | `WithheldIsFrozen` | `WithheldPipelineFrozen` |
| | `EndpointsHeld` | `EndpointWithdrawnOnlyWhenConfirmed` |
| | `BucketsApart` | `NoSharedBucketAfterSweep` |
| `FeatureProofs` | `FeatureTypeSafe` | `TypeOK` |
| | `UsersObjectsStay` | `ForeignKept` |
| | `ReleaseIsEarned` | `PlatformVersionEarned` |
| | `TokensGoFirst` | `LegacyTokenGoneFirst` |
| `TemplateTypes` | `TemplateTypeSafe` | `TypeOK` |
| | `SecretScopeFollows` | `SecretScopeCurrent` |
| `TemplateProofs` | `ExportersAsSets` | `ExportersOrderFree` |
| | `NewestVersionFound` | `NewestCOOVersion` |
| | `ImagesOrdered` | `ImageNewEnough` |
| | `PreferenceKept` | `CurvesKeepPreference` |
| | `PlacesTold` | `OneLocationOneKey` |
| `AdmissionProbeProofs` | `ProbeTypeSafe`, `SuccessIsEarned` | `TypeOK`, `SuccessProvesAdmission` |
| `WebhookTLSProofs` | `WebhookTLSTypes`, `WebhookTLSNoSilentStaleness` | `TypeOK`, `NoSilentStaleness` |

The arguments:

- `TypeOK` of the reconciler says besides the types that a round runs only while
  there is a CR, and the clean-up ahead of the finalizer only while that CR is being
  deleted. It is inductive.
- `NothingLeftBehind` says nothing of a CR that has no finalizer yet, or of one
  whose cleanup is over. `LifecycleInv` adds that both have no objects, and that a
  round which may still apply something works on a CR that carries the finalizer.
- `CustodyRefined` maps every step to one of `Custody` or to a stutter, under
  `LifecycleInv`: it is what makes an apply a `Provision`, and the finalizer patch
  a `Release` of a CR without objects.
- `ReadyIsHonest` is about the patched status; `HonestInv` adds the status that
  the round is about to patch. Every way of ending a round rewrites `Ready`
  (`HonestMarks`), so nothing has to be known of the round before.
- `QuiescentNoLeftovers` is about a controller at rest. `RestInv` says what every
  other state owes it: an event or a requeue is due, or the CR is being cleaned up,
  or a round for the spec as it is now is under way, which has only wanted objects
  to apply and ends with a requeue unless all is accounted for. An edit under a
  round is covered by the event it leaves in the queue, a failed call by its
  backoff, a failed sweep by its requeue.
- The sweep properties rest on `ObjectInv` (objects exist only while their CRD
  does, and a stack that is not there has no Secret) and `RenderedInv` (between
  rendering and the end of the sweep, a claimed stack that is live is desired,
  nothing withheld is desired, and a MonitoringStack that is live and not desired
  goes with a reported ThanosQuerier). `ObjectInv` is needed because a stack whose
  CRD is missing is not rendered: it must not be live either.
- `EndpointInv` carries the published endpoints through the round; that each stack
  condition was written in this very round is the part of `RenderedInv` it uses.
- `BucketsApart` assumes `SecretsSettled`: users leave the contents of the Secrets
  alone, since nothing locks them. `BucketInv` says that a round which withholds
  nothing was let through by the gate, that it renders stacks of claimants only,
  and that behind the apply they use the Secrets of its spec.
- `HeldInv`, `EarnedInv` and `TokenInv` carry the three properties of the features
  through a round: what is held is still the operator's; the release a round is
  about to publish is one that was applied, and so is, behind the apply, the one
  it read, unless it left out the MonitoringStack or had its pipelines refused;
  while there are legacy tokens, a round that gets to the apply did not render the
  datasources.
- `TypeInv`, `HandOver` and `ScopeInv` of `TemplateTypes` carry what the steps of
  `buildTemplateData` compute to where it is used: a value is still that of the
  cluster's inputs, and, unless an event is due, the namespaces a round has listed
  are those that exist, behind the apply they are part of the scope, and behind
  the sweep they are all of it or a timer is pending. `WatchSuffices` is the heart
  of the last one: a change that `namespaceWatchPredicate` does not let through
  leaves `listAllNamespaces` as it was.
- `ExporterInv` is the loop invariant of `validateExporters`, for an arbitrary set
  `Visited`: each exporter in it is in order by itself, the running total is the
  size of the set, and the rendered ones are those with a config. `Rejects` gives
  the other half: an exporter that does not fit behind some others makes the whole
  map too large, in whatever order it is visited.
- `NewestVersionFound` rests on `ChainEnds`: of a chain whose replacements go
  upwards exactly the newest version is replaced by nothing.
- `PreferenceKept` is the loop invariant `KeptWell` of the curve filter: after k
  curves it has kept the usable ones among them, ordered by first occurrence.
- `PlacesTold`, for hosts that do not begin with the bucket, shows that
  `canonicalStorageLocation` of any spelling of a place is `KeyOf` that place
  (`KeyOfSpelling`): case, default port, bucket label and path noise leave no
  trace, the last by a loop invariant of `Clean` (`CleanNoise`); and that `KeyOf`
  is injective.
- `LabelledInv` says that a label on the canary, seen in the current cycle, was
  put there in it; `RetriggerInv` that a cycle writes again only after it read a
  canary without the label.
- `TLSInv` says that a process that is not degraded serves what it loaded, and
  that with no event due the watcher would find nothing to do.

The proofs about the template data are about folds over sets and sequences of any
size. `AlgorithmProofs` has what is shown of the algorithms themselves. It begins
with what that needs: induction over natural numbers and over the subsets of a
finite set in the form of least counterexamples, and from it that the recursion
behind `MapThenSumSet` and `FoldLeft` has a solution (`FoldExists`,
`FoldLeftExists`), so that what those operators choose satisfies the recursion.

Only model-checked is liveness (`DeletionCompletes`, `Converges`,
`ConflictReported`, `ReadinessReported`, `FeaturesConverge`, `InferenceFollowed`,
`StatusSettles`, `FollowsCluster`, `OutageReported`, `HealthReported`), which
needs fairness and is out of the prover's reach.

## What is not modelled

- The webhook infrastructure condition and the admission policies: one read that
  sets a condition without bearing on `Ready`, and a template that is always
  rendered.
- The contents of the templates and of the chart; replica counts, resource
  defaults, names and addresses that only fill templates; `status.url` and the
  phase.
- API discovery of the sweep: a sweep that fails has deleted any part of what it
  should.
- The NetworkPolicies of a LokiStack, which the sweep treats like the namespaced
  objects of the pipeline's workload, and the collector's monitors, which come and
  go with metrics storage as the node metrics proxy does.
- The HTTP method gate of the metrics server, flags and health checks in
  `cmd/main.go`: stateless, and without interaction with the rest.
- Generated code and identifiers, which have no behaviour of their own, and the
  helpers of the end-to-end tests.
- Cache lag of the reconciler's own reads, except for the objects that are
  verified and then deleted, and for the namespaces that the webhook and the probe
  read.
- Several replicas: the chart runs one, and asks for leader election with more,
  which leaves one active reconciler.
