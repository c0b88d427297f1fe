------------------------ MODULE MonitoringReconciler ------------------------
(***************************************************************************)
(* The reconcile round of the Monitoring controller                        *)
(* (internal/controller/monitoring_reconciler.go, with the pipeline        *)
(* actions of actions.go), running against a cluster that changes under    *)
(* it.                                                                     *)
(*                                                                         *)
(* One round is a sequence of steps, each ending where the code hands over *)
(* to the API server for a write that others can observe or overtake:      *)
(*                                                                         *)
(*   Begin -> Render -> Deploy -> Sweep -> PatchStatus                     *)
(*                                                                         *)
(* with the exits Cleanup/RemoveFinalizer (the CR is being deleted),       *)
(* CleanupRemoved (managementState Removed) and Stop (an early return).    *)
(* Every API call may fail (the actions named ...Fails), the operator may  *)
(* restart between any two steps, and the environment acts at any time.    *)
(*                                                                         *)
(* The modelled objects are, for each of the two log pipelines, its        *)
(* LokiStack, the namespaced objects of the workload shipping into it and  *)
(* that workload's cluster-scoped RBAC; and, for metrics, the              *)
(* MonitoringStack and the ThanosQuerier. The NetworkPolicies of a         *)
(* LokiStack are left out: they are rendered with it, and the sweep treats *)
(* them as it does the namespaced objects of the shipping workload.        *)
(***************************************************************************)
EXTENDS Conditions, FiniteSets, Naturals

CONSTANTS
    Secrets,       \* names a user may give as storage.secretName
    NoSecret,      \* the pipeline has no storage in the spec
    Locations,     \* canonical object store locations (host, prefix, bucket)
    Specs,         \* the Monitoring specs users write
    Stores,        \* the contents the storage Secrets take
    OperatorSets,  \* the sets of prerequisite operators that get installed
    CRDSets,       \* the sets of optional CRDs that get installed
    Disturbances,  \* which of the optional disturbances happen
    MaxFaults      \* the bound on failing API calls and restarts together

VARIABLES
    \* The Monitoring CR and the work queue of the controller.
    cr,           \* "gone", "fresh" (no finalizer yet), "live", "deleting"
    spec,         \* the spec of the CR
    status,       \* the status subresource, as last patched
    queued,       \* the CR is in the work queue
    timer,        \* a RequeueAfter or a backoff is pending
    \* The cluster.
    live,         \* the owned objects that exist
    legacy,       \* those of them that lack the component label
    stackSecret,  \* the Secret each existing LokiStack is configured with
    ready,        \* the pipelines whose LokiStack reports ready
    secrets,      \* the storage Secrets that exist, and their locations
    operators,    \* the prerequisite operators installed
    crds,         \* the optional CRDs installed
    credential,   \* the Secret named by usageLogs.credentialSecret exists
    caInjected,   \* service-ca has filled the Prometheus CA ConfigMap
    \* The running round.
    pc,
    round,
    faults        \* the failed API calls and restarts so far

crVars == <<cr, spec, status>>
queueVars == <<queued, timer>>
objectVars == <<live, legacy, stackSecret, ready>>
clusterVars == <<secrets, operators, crds, credential, caInjected>>
vars == <<crVars, queueVars, objectVars, clusterVars, pc, round, faults>>

-----------------------------------------------------------------------------
(* Specs, objects and statuses *)

SpecType ==
    [managed          : BOOLEAN,
     namespaceMatches : BOOLEAN,
     storage          : [Pipelines -> Secrets \cup {NoSecret}],
     exporters        : {"none", "valid", "invalid"},
     credentialSecret : BOOLEAN,
     metricsStorage   : BOOLEAN]

EmptySpec ==
    [managed          |-> FALSE,
     namespaceMatches |-> TRUE,
     storage          |-> [p \in Pipelines |-> NoSecret],
     exporters        |-> "none",
     credentialSecret |-> FALSE,
     metricsStorage   |-> FALSE]

Claims(s) == {p \in Pipelines : s.storage[p] # NoSecret}

CollectorConfigured(s) == "usageLogs" \in Claims(s) \/ s.exporters # "none"

Stack(p) == [component |-> p, kind |-> "LokiStack"]

ShipperObjects(p) == {[component |-> p, kind |-> "Shipper"],
                      [component |-> p, kind |-> "ClusterRBAC"]}

MonitoringStack == [component |-> "metrics", kind |-> "MonitoringStack"]

ThanosQuerier == [component |-> "metrics", kind |-> "ThanosQuerier"]

Objects == {MonitoringStack, ThanosQuerier}
           \cup (UNION {{Stack(p)} \cup ShipperObjects(p) : p \in Pipelines})

\* The CRD that an object's kind needs, if it is not a core kind.
CRDOf(o) ==
    CASE o.kind \in {"LokiStack", "MonitoringStack", "ThanosQuerier"} -> {o.kind}
      [] o.kind = "ClusterRBAC" -> {}
      [] o.kind = "Shipper" -> IF o.component = "usageLogs"
                               THEN {"OpenTelemetryCollector"}
                               ELSE {"ClusterLogForwarder"}

Operators == {"opentelemetry", "cert-manager", "cluster-observability",
              "loki", "cluster-logging"}

CRDs == {"LokiStack", "OpenTelemetryCollector", "ClusterLogForwarder",
         "MonitoringStack", "ThanosQuerier"}

StoreType == UNION {[S -> SUBSET Locations] : S \in SUBSET Secrets}

\* A disturbance that only some configurations of the model include.
May(d) == d \in Disturbances

ASSUME SpecsAssumption == Specs \subseteq SpecType
ASSUME StoresAssumption == Stores \subseteq StoreType /\ Stores # {}
ASSUME ClusterAssumption ==
    /\ OperatorSets \subseteq SUBSET Operators /\ OperatorSets # {}
    /\ CRDSets \subseteq SUBSET CRDs /\ CRDSets # {}
ASSUME MaxFaultsAssumption == MaxFaults \in Nat
ASSUME NoSecretAssumption == NoSecret \notin Secrets

StatusType == [conds      : [ConditionTypes -> Verdicts],
               endpoints  : SUBSET Pipelines,
               forwarding : BOOLEAN]

EmptyStatus == [conds      |-> [c \in ConditionTypes |-> "Absent"],
                endpoints  |-> {},
                forwarding |-> FALSE]

\* What a round carries in memory: the spec it read, the status it will patch,
\* what it rendered, the pipelines the storage gate withheld, whether the
\* Prometheus CA is in place, and how the round ends.
RoundType == [spec     : SpecType,
              status   : StatusType,
              desired  : SUBSET Objects,
              withheld : SUBSET Pipelines,
              caReady  : BOOLEAN,
              result   : {"done", "requeue", "error"}]

RoundOf(s, st) == [spec     |-> s,
                   status   |-> st,
                   desired  |-> {},
                   withheld |-> {},
                   caReady  |-> TRUE,
                   result   |-> "done"]

NoRound == RoundOf(EmptySpec, EmptyStatus)

-----------------------------------------------------------------------------
(* What a round reads and computes *)

\* The canonical locations a storage Secret resolves to: none when the Secret
\* is missing or names no usable location.
lokiStorageLocations(store, s) == IF s \in DOMAIN store THEN store[s] ELSE {}

\* The storage gate letting two claimants through uncompared.
checkStorageIsolation_OffByOne(s) ==
    LET locations(p) == lokiStorageLocations(secrets, s.storage[p])
    IN  IF Cardinality(Claims(s)) <= 2 THEN "Isolated"
        ELSE IF \E p \in Claims(s) : locations(p) = {} THEN "Unknown"
        ELSE "StorageConflict"

\* Fewer than two claimants are not compared; a claimant that resolves to no
\* location leaves the question open; a location claimed twice is a conflict.
checkStorageIsolation(s) ==
    LET locations(p) == lokiStorageLocations(secrets, s.storage[p])
    IN  IF Cardinality(Claims(s)) < 2 THEN "Isolated"
        ELSE IF \E p \in Claims(s) : locations(p) = {} THEN "Unknown"
        ELSE IF \E p, q \in Claims(s) : p # q /\ locations(p) \cap locations(q) # {}
        THEN "StorageConflict"
        ELSE "Isolated"

\* The operators checkMonitoringPreconditions asks OLM for.
requiredOperators(s) ==
    {o \in Operators :
        \/ o = "opentelemetry" /\ (s.metricsStorage \/ CollectorConfigured(s))
        \/ o \in {"cert-manager", "cluster-observability"} /\ s.metricsStorage
        \/ o = "loki" /\ Claims(s) # {}
        \/ o = "cluster-logging" /\ "logs" \in Claims(s)}

lokiStackVerdict(s, p) ==
    IF p \notin Claims(s) THEN "Info"
    ELSE IF "LokiStack" \in crds /\ p \in ready THEN "True"
    ELSE "False"

usageLogsCollectorVerdict(s, endpoints) ==
    IF ~CollectorConfigured(s) THEN "Info"
    ELSE IF "usageLogs" \in Claims(s) /\ "usageLogs" \notin endpoints THEN "False"
    ELSE IF s.credentialSecret /\ s.exporters # "none" /\ ~credential
    THEN "CredentialNotFound"
    ELSE IF "OpenTelemetryCollector" \notin crds THEN "False"
    ELSE "True"

\* The forwarder's action reads the readiness of the stack once more, which may
\* have changed since the stack's own action did: with a stack there, any answer.
clusterLogForwarderVerdict(s, forwarderReady) ==
    IF "logs" \notin Claims(s) THEN "Info"
    ELSE IF /\ {"ClusterLogForwarder", "LokiStack"} \subseteq crds
            /\ Stack("logs") \in live
            /\ forwarderReady
    THEN "True"
    ELSE "False"

\* The MonitoringStack and the ThanosQuerier are rendered together or not at all.
metricsObjects(s) ==
    IF s.metricsStorage /\ {"MonitoringStack", "ThanosQuerier"} \subseteq crds
    THEN {MonitoringStack, ThanosQuerier} ELSE {}

\* A missing CRD is reported on its own condition; the other one stays as it was.
deployMonitoringStack(conds, s) ==
    [c \in ConditionTypes |->
        IF c \notin DOMAIN MetricsCRD THEN conds[c]
        ELSE IF ~s.metricsStorage THEN "Info"
        ELSE IF metricsObjects(s) # {} THEN "True"
        ELSE IF MetricsCRD[c] \notin crds THEN "False"
        ELSE conds[c]]

\* The conditions after the pipeline of p has run, or was withheld with its
\* stack (markWithheldPipeline).
deployPipeline(conds, s, endpoints, p, withheld, forwarderReady) ==
    IF p \in withheld
    THEN Mark(conds, ShipperCondition[p], conds[StackCondition[p]])
    ELSE [conds EXCEPT
            ![StackCondition[p]] = lokiStackVerdict(s, p),
            ![ShipperCondition[p]] = IF p = "usageLogs"
                                     THEN usageLogsCollectorVerdict(s, endpoints)
                                     ELSE clusterLogForwarderVerdict(s, forwarderReady)]

\* The templates of the pipelines: a stack is rendered once its CRD exists;
\* the collector when all its gates are open; the forwarder also while its
\* stack is still coming up.
pipelineObjects(s, endpoints, withheld) ==
    {Stack(p) : p \in {q \in Claims(s) \ withheld : "LokiStack" \in crds}}
    \cup UNION {ShipperObjects(p) : p \in {q \in Pipelines \ withheld :
            \/ q = "usageLogs" /\ usageLogsCollectorVerdict(s, endpoints) = "True"
            \/ /\ q = "logs" /\ q \in Claims(s)
               /\ {"ClusterLogForwarder", "LokiStack"} \subseteq crds}}

renderMonitoringResources(s, endpoints, withheld) ==
    pipelineObjects(s, endpoints, withheld) \cup metricsObjects(s)

\* The conditions as a round proceeds: dependencies checked, the actions ahead
\* of the storage gate run, the gate's verdict recorded on every claimant, the
\* usage logs pipeline deployed.
WithDependencies(r) ==
    Mark(r.status.conds, "MonitoringDependenciesReady", "True")

WithMonitoringStack(r) == deployMonitoringStack(WithDependencies(r), r.spec)

\* The gate withholding its claimants without recording why.
WithGate_Unmarked(r, withheld, verdict) == WithMonitoringStack(r)

\* validateStorageIsolation records its verdict on the stack of every claimant it
\* withholds.
WithGate(r, withheld, verdict) ==
    [c \in ConditionTypes |->
        IF \E p \in withheld : c = StackCondition[p]
        THEN verdict
        ELSE WithMonitoringStack(r)[c]]

WithUsageLogs(r, withheld, verdict) ==
    deployPipeline(WithGate(r, withheld, verdict), r.spec, r.status.endpoints,
                   "usageLogs", withheld, FALSE)

WithPipelines(r, withheld, verdict, forwarderReady) ==
    deployPipeline(WithUsageLogs(r, withheld, verdict), r.spec,
                   r.status.endpoints, "logs", withheld, forwarderReady)

\* shouldCollectOwnedResource and shouldCollectScopedClusterRBAC without the
\* fallback that shields a LokiStack by its kind.
shouldCollect_LabelOnly(o, r) ==
    /\ o \in legacy \/ o.component \notin r.withheld
    /\ o \notin r.desired

\* The same with the component label read only by the sweep of namespaced kinds.
shouldCollect_UnshieldedRBAC(o, r) ==
    /\ o \in legacy \/ o.kind = "ClusterRBAC" \/ o.component \notin r.withheld
    /\ o.kind = "LokiStack" => r.withheld = {}
    /\ o \notin r.desired

\* The same comparing with what was deployed instead of what was rendered.
shouldCollect_DeployedOnly(o, r) ==
    /\ o \in legacy \/ o.component \notin r.withheld
    /\ o.kind = "LokiStack" => r.withheld = {}
    /\ o \notin r.desired \/ (o = MonitoringStack /\ ~r.caReady)

\* The same with nothing collected that has no component label.
shouldCollect_LabelledOnly(o, r) ==
    /\ o \notin legacy /\ o.component \notin r.withheld
    /\ o.kind = "LokiStack" => r.withheld = {}
    /\ o \notin r.desired

\* An object is kept while its component is withheld, which its label says;
\* a LokiStack is kept while any Loki component is withheld, label or not.
shouldCollect(o, r) ==
    /\ o \in legacy \/ o.component \notin r.withheld
    /\ o.kind = "LokiStack" => r.withheld = {}
    /\ o \notin r.desired

\* publishLokiEndpoints clearing an endpoint whose stack it could not observe.
publishLokiEndpoints_ClearsUnknown(r) ==
    {p \in Claims(r.spec) : r.status.conds[StackCondition[p]] = "True"}

\* An endpoint is published while its stack is ready, and held while the
\* stack's readiness could not be observed.
publishLokiEndpoints(r) ==
    {p \in Claims(r.spec) :
        \/ r.status.conds[StackCondition[p]] = "True"
        \/ /\ r.status.conds[StackCondition[p]] = "Unknown"
           /\ p \in r.status.endpoints}

\* Which way a round that got past the sweep returns, without the requeue for
\* LokiStacks that are not ready.
resultOf_ForgetsStacks(r, gcFailed) ==
    LET conds == r.status.conds
    IN  IF r.withheld # {} THEN "error"
        ELSE IF \/ ~r.caReady
                \/ conds["UsageLogsCollectorAvailable"] = "CredentialNotFound"
                \/ "logs" \in Claims(r.spec)
                \/ gcFailed
                \/ r.spec.metricsStorage
        THEN "requeue"
        ELSE "done"

\* Which way a round that got past the sweep returns: the storage gate's error;
\* a requeue for the CA, an endpoint, the credential, log forwarding, a failed
\* sweep or (requeueForCOOVersionRefresh) metrics storage; or nothing. The one for
\* a collector that is not ready (requeueForCollectorReadiness) is for traces and
\* metrics; with metrics storage the round is requeued here anyway.
resultOf(r, gcFailed) ==
    LET conds == r.status.conds
    IN  IF r.withheld # {} THEN "error"
        ELSE IF \/ ~r.caReady
                \/ \E p \in Claims(r.spec) : conds[StackCondition[p]] # "True"
                \/ conds["UsageLogsCollectorAvailable"] = "CredentialNotFound"
                \/ "logs" \in Claims(r.spec)
                \/ gcFailed
                \/ r.spec.metricsStorage
        THEN "requeue"
        ELSE "done"

-----------------------------------------------------------------------------
(* Effects shared by several steps *)

\* The owned objects become `objs', of which those in `applied' were just
\* applied with the spec s. What is known of a LokiStack goes with it.
SetObjects(objs, applied, s) ==
    /\ live' = objs
    /\ legacy' = (legacy \cap objs) \ applied
    /\ stackSecret' = [p \in Pipelines |->
            IF Stack(p) \in applied THEN s.storage[p]
            ELSE IF Stack(p) \in objs THEN stackSecret[p]
            ELSE NoSecret]
    /\ ready' = {p \in ready : Stack(p) \in objs}

\* Every modelled object is a core kind or has core siblings (policies, service
\* accounts, RBAC) that carry the part-of label, so that the creation or the
\* deletion of one by the operator comes back as a watch event.
ObjectEvents(objs) == queued' = (queued \/ objs # live)

\* The round ends in memory with these conditions; only the status patch is left.
EndRound(conds, result) ==
    /\ pc' = "patch"
    /\ round' = [round EXCEPT !.status.conds = conds, !.result = result]

\* reconcile returns an error.
Abort(conds) == EndRound(MarkReconcileFailed(conds), "error")

\* reconcile returns early without an error.
StopResult == IF round.spec.managed /\ round.spec.metricsStorage
              THEN "requeue" ELSE "done"

\* Reconcile returns to the work queue without patching the status.
Return(backoff) ==
    /\ pc' = "idle"
    /\ round' = NoRound
    /\ timer' = (timer \/ backoff)

-----------------------------------------------------------------------------
(* The steps of a round *)

TimerFires ==
    /\ timer
    /\ timer' = FALSE
    /\ queued' = TRUE
    /\ UNCHANGED <<crVars, objectVars, clusterVars, pc, round>>

\* Reconcile of a CR that is gone.
BeginGone ==
    /\ pc = "idle" /\ queued /\ cr = "gone"
    /\ queued' = FALSE
    /\ UNCHANGED <<crVars, timer, objectVars, clusterVars, pc, round>>

\* Reconcile of a CR that is being deleted.
BeginDeleting ==
    /\ pc = "idle" /\ queued /\ cr = "deleting"
    /\ queued' = FALSE
    /\ pc' = "cleanup"
    /\ UNCHANGED <<crVars, timer, objectVars, clusterVars, round>>

\* Begin without the finalizer.
Begin_NoFinalizer ==
    /\ pc = "idle" /\ queued /\ cr \in {"fresh", "live"}
    /\ queued' = FALSE
    /\ round' = RoundOf(spec, status)
    /\ pc' = "render"
    /\ UNCHANGED <<crVars, timer, objectVars, clusterVars>>

\* Reconcile otherwise: add the finalizer if it is missing (which comes back as
\* a watch event), snapshot the status, and go on to reconcile.
Begin ==
    /\ pc = "idle" /\ queued /\ cr \in {"fresh", "live"}
    /\ cr' = "live"
    /\ queued' = (cr = "fresh")
    /\ round' = RoundOf(spec, status)
    /\ pc' = "render"
    /\ UNCHANGED <<spec, status, timer, objectVars, clusterVars>>

\* Reading the CR or adding the finalizer fails.
BeginFails ==
    /\ pc = "idle" /\ queued /\ cr # "gone"
    /\ queued' = FALSE
    /\ Return(TRUE)
    /\ UNCHANGED <<crVars, objectVars, clusterVars>>

\* A cleanup that asks for another pass instead of going on to the finalizer.
Cleanup_AnotherPass ==
    /\ pc = "cleanup"
    /\ SetObjects({}, {}, EmptySpec)
    /\ ObjectEvents({})
    /\ Return(TRUE)
    /\ UNCHANGED <<crVars, clusterVars>>

\* deleteAllOwned, on behalf of the finalizer. A failure leaves part of the
\* objects and returns the error, which keeps the finalizer.
Cleanup ==
    /\ pc = "cleanup"
    /\ SetObjects({}, {}, EmptySpec)
    /\ ObjectEvents({})
    /\ pc' = "unfinalize"
    /\ UNCHANGED <<crVars, timer, clusterVars, round>>

\* A cleanup that takes its error for success.
CleanupFails_Ignored ==
    /\ pc = "cleanup"
    /\ \E left \in SUBSET live : SetObjects(left, {}, EmptySpec) /\ ObjectEvents(left)
    /\ pc' = "unfinalize"
    /\ UNCHANGED <<crVars, timer, clusterVars, round>>

CleanupFails ==
    /\ pc = "cleanup"
    /\ \E left \in SUBSET live : SetObjects(left, {}, EmptySpec) /\ ObjectEvents(left)
    /\ Return(TRUE)
    /\ UNCHANGED <<crVars, clusterVars>>

\* The finalizer comes off and the API server removes the CR.
RemoveFinalizer ==
    /\ pc = "unfinalize"
    /\ cr' = "gone"
    /\ status' = EmptyStatus
    /\ queued' = TRUE
    /\ Return(FALSE)
    /\ UNCHANGED <<spec, objectVars, clusterVars>>

RemoveFinalizerFails ==
    /\ pc = "unfinalize"
    /\ Return(TRUE)
    /\ UNCHANGED <<crVars, queued, objectVars, clusterVars>>

\* reconcile with managementState Removed: delete everything, report it on the
\* dependency condition and on the top-level ones, and leave the rest of the
\* status as it was.
CleanupRemoved ==
    /\ pc = "render" /\ ~round.spec.managed
    /\ SetObjects({}, {}, EmptySpec)
    /\ ObjectEvents({})
    /\ EndRound(MarkStopped(Mark(round.status.conds, "MonitoringDependenciesReady", "Info")),
                "done")
    /\ UNCHANGED <<crVars, timer, clusterVars>>

CleanupRemovedFails ==
    /\ pc = "render" /\ ~round.spec.managed
    /\ \E left \in SUBSET live : SetObjects(left, {}, EmptySpec) /\ ObjectEvents(left)
    /\ Abort(round.status.conds)
    /\ UNCHANGED <<crVars, timer, clusterVars>>

\* The checks ahead of the rendering pass.
DependenciesMet == requiredOperators(round.spec) \subseteq operators

Proceeds == /\ round.spec.managed
            /\ round.spec.namespaceMatches
            /\ DependenciesMet

\* The early returns without an error: the namespace does not match, operators
\* are missing, the exporters do not validate (markConfigurationError).
Stop ==
    /\ pc = "render" /\ round.spec.managed
    /\ \/ /\ ~round.spec.namespaceMatches
          /\ EndRound(MarkStopped(round.status.conds), StopResult)
       \/ /\ round.spec.namespaceMatches /\ ~DependenciesMet
          /\ EndRound(AggregateReady(Mark(round.status.conds,
                                          "MonitoringDependenciesReady", "False")),
                      StopResult)
       \/ /\ Proceeds /\ round.spec.exporters = "invalid"
          /\ EndRound(MarkStopped(Mark(WithDependencies(round),
                                       "UsageLogsCollectorAvailable", "False")),
                      StopResult)
    /\ UNCHANGED <<crVars, queueVars, objectVars, clusterVars>>

\* A list call of buildTemplateData fails (namespaces for metrics, API server
\* endpoints for metrics or logs), which is reported like a configuration error
\* and not retried.
BuildTemplateDataFails ==
    /\ May("listFault")
    /\ pc = "render" /\ Proceeds
    /\ round.spec.metricsStorage \/ "logs" \in Claims(round.spec)
    /\ EndRound(MarkStopped(WithDependencies(round)), StopResult)
    /\ UNCHANGED <<crVars, queueVars, objectVars, clusterVars>>

\* renderMonitoringResources and preparePrometheusWebTLSCA, with the storage
\* gate's verdict.
RenderWith(verdict) ==
    LET withheld == IF verdict = "Isolated" THEN {} ELSE Claims(round.spec)
        desired == renderMonitoringResources(round.spec, round.status.endpoints, withheld)
        caReady == MonitoringStack \in desired => caInjected
    IN  /\ pc = "render" /\ Proceeds /\ round.spec.exporters # "invalid"
        /\ \E forwarderReady \in BOOLEAN :
              LET conds == WithPipelines(round, withheld, verdict, forwarderReady)
              IN  round' = [round EXCEPT
                      !.status.conds = IF caReady THEN conds
                                       ELSE Mark(conds, "MonitoringStackAvailable", "False"),
                      !.desired = desired,
                      !.withheld = withheld,
                      !.caReady = caReady]
        /\ pc' = "deploy"
        /\ UNCHANGED <<crVars, queueVars, objectVars, clusterVars>>

Render == RenderWith(checkStorageIsolation(round.spec))

\* A storage Secret that is compared cannot be read.
GateReadFails ==
    /\ Cardinality(Claims(round.spec)) >= 2
    /\ RenderWith("Unknown")

\* A call of the round fails before anything is applied: the platform version
\* or the preconditions cannot be read; a call ahead of the storage gate fails;
\* the CRD or readiness check of a stack fails, which is marked on the stack;
\* a check of the workload shipping to it fails; the Prometheus CA cannot be
\* prepared.
RenderFails ==
    LET verdict == checkStorageIsolation(round.spec)
        withheld == IF verdict = "Isolated" THEN {} ELSE Claims(round.spec)
        before(p) == IF p = "usageLogs" THEN WithGate(round, withheld, verdict)
                     ELSE WithUsageLogs(round, withheld, verdict)
    IN  /\ pc = "render"
        /\ \/ Abort(round.status.conds)
           \/ /\ Proceeds /\ round.spec.exporters # "invalid"
              /\ \/ Abort(WithDependencies(round))
                 \/ Abort(WithMonitoringStack(round))
                 \/ \E p \in Claims(round.spec) \ withheld :
                       Abort(Mark(before(p), StackCondition[p], "Unknown"))
                 \/ \E p \in Pipelines \ withheld :
                       /\ \/ p = "logs" /\ p \in Claims(round.spec)
                          \/ /\ p = "usageLogs" /\ CollectorConfigured(round.spec)
                             /\ p \in Claims(round.spec) => p \in round.status.endpoints
                       /\ Abort(Mark(before(p), StackCondition[p],
                                     lokiStackVerdict(round.spec, p)))
                 \/ \E forwarderReady \in BOOLEAN :
                       /\ round.spec.metricsStorage
                       /\ Abort(WithPipelines(round, withheld, verdict, forwarderReady))
        /\ UNCHANGED <<crVars, queueVars, objectVars, clusterVars>>

\* Deploy leaves out the MonitoringStack until the CA is in place.
deployResources == IF round.caReady THEN round.desired
                   ELSE round.desired \ {MonitoringStack}

\* The apply of the rendered resources, and the cleanup of the OpenTelemetry
\* operator's policies behind it.
Deploy ==
    /\ pc = "deploy"
    /\ \A o \in deployResources : CRDOf(o) \subseteq crds
    /\ SetObjects(live \cup deployResources, deployResources, round.spec)
    /\ ObjectEvents(live \cup deployResources)
    /\ pc' = "sweep"
    /\ UNCHANGED <<crVars, timer, clusterVars, round>>

\* An apply fails (as it must once a CRD has gone), or the policy cleanup does:
\* the round aborts ahead of the sweep with part of the resources applied.
DeployAborts ==
    /\ \E applied \in SUBSET {o \in deployResources : CRDOf(o) \subseteq crds} :
          /\ SetObjects(live \cup applied, applied, round.spec)
          /\ ObjectEvents(live \cup applied)
    /\ Abort(round.status.conds)
    /\ UNCHANGED <<crVars, timer, clusterVars>>

DeployRejected ==
    /\ pc = "deploy"
    /\ \E o \in deployResources : ~(CRDOf(o) \subseteq crds)
    /\ DeployAborts

DeployFails ==
    /\ pc = "deploy"
    /\ \A o \in deployResources : CRDOf(o) \subseteq crds
    /\ DeployAborts

\* What follows the sweep in memory: syncPostDeployResources, whose failure is
\* reported on the MonitoringStack condition; the endpoints; the forwarding
\* status; the aggregation; and the way the round returns.
Publish(gcFailed, synced) ==
    LET r == IF synced THEN round
             ELSE [round EXCEPT !.status.conds =
                        Mark(round.status.conds, "MonitoringStackAvailable", "False")]
        conds == AggregateReady(r.status.conds)
        result == resultOf(r, gcFailed)
    IN  /\ pc' = "patch"
        /\ round' = [r EXCEPT
              !.status = [conds      |-> IF result = "error" THEN MarkReconcileFailed(conds)
                                         ELSE IF r.caReady THEN conds
                                         ELSE Mark(conds, "ProvisioningSucceeded", "False"),
                          endpoints  |-> publishLokiEndpoints(r),
                          forwarding |-> /\ r.status.conds["UsageLogsCollectorAvailable"] = "True"
                                         /\ r.spec.exporters # "none"],
              !.result = result]

garbage == {o \in live : shouldCollect(o, round)}

Sweep ==
    /\ pc = "sweep"
    /\ SetObjects(live \ garbage, {}, EmptySpec)
    /\ ObjectEvents(live \ garbage)
    /\ Publish(FALSE, TRUE)
    /\ UNCHANGED <<crVars, timer, clusterVars>>

\* collectGarbage fails part way: the cluster-scoped RBAC is reached only after
\* all namespaced objects are gone. Desired state is applied, so the round goes
\* on; or the sweep succeeds and the sync of the Thanos route's CA fails.
SweepFails ==
    /\ pc = "sweep"
    /\ \/ \E collected \in SUBSET garbage :
             /\ (\E o \in collected : o.kind = "ClusterRBAC")
                    => \A o \in garbage \ collected : o.kind = "ClusterRBAC"
             /\ SetObjects(live \ collected, {}, EmptySpec)
             /\ ObjectEvents(live \ collected)
             /\ Publish(TRUE, TRUE)
       \/ /\ round.spec.metricsStorage
          /\ SetObjects(live \ garbage, {}, EmptySpec)
          /\ ObjectEvents(live \ garbage)
          /\ Publish(FALSE, FALSE)
    /\ UNCHANGED <<crVars, timer, clusterVars>>

\* The status is patched on every way out of reconcile. A patch that changes
\* something comes back as a watch event; the timer is the requeue or the
\* backoff the round asked for.
PatchStatus ==
    /\ pc = "patch"
    /\ status' = round.status
    /\ queued' = (queued \/ status # round.status)
    /\ Return(round.result # "done")
    /\ UNCHANGED <<cr, spec, objectVars, clusterVars>>

PatchStatusFails ==
    /\ pc = "patch"
    /\ Return(TRUE)
    /\ UNCHANGED <<crVars, queued, objectVars, clusterVars>>

\* The operator goes down and comes up again: the round and the timers are lost,
\* and the informers enqueue the CR when they start.
Restart ==
    /\ pc' = "idle"
    /\ round' = NoRound
    /\ timer' = FALSE
    /\ queued' = TRUE
    /\ UNCHANGED <<crVars, objectVars, clusterVars>>

-----------------------------------------------------------------------------
(* The environment *)

\* The Monitoring CR is watched without a predicate.
CreateMonitoring ==
    /\ cr = "gone"
    /\ cr' = "fresh"
    /\ spec' \in Specs
    /\ status' = EmptyStatus
    /\ queued' = TRUE
    /\ UNCHANGED <<timer, objectVars, clusterVars, pc, round>>

\* spec.namespace cannot be changed.
EditMonitoring ==
    /\ cr \in {"fresh", "live"}
    /\ spec' \in Specs
    /\ spec'.namespaceMatches = spec.namespaceMatches
    /\ queued' = TRUE
    /\ UNCHANGED <<cr, status, timer, objectVars, clusterVars, pc, round>>

DeleteMonitoring ==
    /\ May("delete")
    /\ \/ cr = "fresh" /\ cr' = "gone" /\ status' = EmptyStatus
       \/ cr = "live" /\ cr' = "deleting" /\ status' = status
    /\ queued' = TRUE
    /\ UNCHANGED <<spec, timer, objectVars, clusterVars, pc, round>>

\* Storage Secrets come, go and change; storageSecretRequests lets through the
\* events of those named in the current spec.
EditSecrets ==
    /\ secrets' \in Stores
    /\ secrets' # secrets
    /\ queued' = (\/ queued
                  \/ /\ cr # "gone"
                     /\ \E p \in Claims(spec) :
                          lokiStorageLocations(secrets', spec.storage[p])
                             # lokiStorageLocations(secrets, spec.storage[p]))
    /\ UNCHANGED <<crVars, timer, objectVars, operators, crds, credential,
                   caInjected, pc, round>>

\* LokiStacks are not watched.
StackBecomesReady(p) ==
    /\ Stack(p) \in live /\ p \notin ready
    /\ ready' = ready \cup {p}
    /\ UNCHANGED <<crVars, queueVars, live, legacy, stackSecret, clusterVars, pc, round>>

StackFails(p) ==
    /\ May("stackFails")
    /\ p \in ready
    /\ ready' = ready \ {p}
    /\ UNCHANGED <<crVars, queueVars, live, legacy, stackSecret, clusterVars, pc, round>>

\* Somebody deletes an owned object. Of the modelled kinds only RBAC is watched.
ObjectDeleted(o) ==
    /\ May("drift")
    /\ o \in live
    /\ SetObjects(live \ {o}, {}, EmptySpec)
    /\ queued' = (queued \/ o.kind = "ClusterRBAC")
    /\ UNCHANGED <<crVars, timer, clusterVars, pc, round>>

\* The credential Secret comes and goes; it carries no label and is not watched.
CredentialChanges ==
    /\ May("credential")
    /\ credential' = ~credential
    /\ UNCHANGED <<crVars, queueVars, objectVars, secrets, operators, crds,
                   caInjected, pc, round>>

\* service-ca fills the CA ConfigMap, or the ConfigMap is recreated empty; it
\* carries the part-of label and is watched.
CAChanges ==
    /\ May("ca")
    /\ caInjected' = ~caInjected
    /\ queued' = TRUE
    /\ UNCHANGED <<crVars, timer, objectVars, secrets, operators, crds,
                   credential, pc, round>>

\* Prerequisite operators are found through OLM objects, which are not watched.
OperatorsChange ==
    /\ operators' \in OperatorSets
    /\ operators' # operators
    /\ UNCHANGED <<crVars, queueVars, objectVars, secrets, crds, credential,
                   caInjected, pc, round>>

\* CRDs are watched; removing one removes its objects.
CRDsChange ==
    /\ crds' \in CRDSets
    /\ crds' # crds
    /\ SetObjects({o \in live : CRDOf(o) \subseteq crds'}, {}, EmptySpec)
    /\ queued' = TRUE
    /\ UNCHANGED <<crVars, timer, secrets, operators, credential, caInjected,
                   pc, round>>

-----------------------------------------------------------------------------
(* The specification *)

\* A new installation without a CR, or an upgrade from the version that kept
\* usage logs in the LokiStack now used for log forwarding: its objects, the
\* collector with its policy and its RBAC included, have no component label.
Init ==
    /\ secrets \in Stores
    /\ operators \in OperatorSets
    /\ crds \in CRDSets
    /\ credential = FALSE
    /\ caInjected = FALSE
    /\ queued = TRUE /\ timer = FALSE
    /\ pc = "idle" /\ round = NoRound
    /\ faults = 0
    /\ \/ /\ cr = "gone" /\ spec = EmptySpec /\ status = EmptyStatus
          /\ live = {} /\ legacy = {} /\ ready = {}
          /\ stackSecret = [p \in Pipelines |-> NoSecret]
       \/ /\ May("upgrade") /\ "LokiStack" \in crds
          /\ cr = "live" /\ spec \in Specs /\ "usageLogs" \in Claims(spec)
          /\ status \in {EmptyStatus, [EmptyStatus EXCEPT !.endpoints = {"usageLogs"}]}
          /\ \E collector \in {{}, ShipperObjects("usageLogs")} :
                /\ \A o \in collector : CRDOf(o) \subseteq crds
                /\ live = {Stack("logs")} \cup collector
          /\ legacy = live /\ ready = {"logs"}
          /\ stackSecret = [usageLogs |-> NoSecret,
                            logs      |-> spec.storage["usageLogs"]]

RoundStep ==
    \/ BeginGone \/ BeginDeleting \/ Begin
    \/ Cleanup \/ RemoveFinalizer \/ CleanupRemoved
    \/ Stop \/ Render \/ Deploy \/ DeployRejected \/ Sweep \/ PatchStatus

FaultStep ==
    /\ faults < MaxFaults
    /\ \/ Restart
       \/ BeginFails \/ CleanupFails \/ RemoveFinalizerFails \/ CleanupRemovedFails
       \/ BuildTemplateDataFails \/ GateReadFails \/ RenderFails
       \/ DeployFails \/ SweepFails \/ PatchStatusFails

EnvironmentStep ==
    \/ CreateMonitoring \/ EditMonitoring \/ DeleteMonitoring
    \/ EditSecrets \/ CredentialChanges \/ CAChanges
    \/ OperatorsChange \/ CRDsChange
    \/ \E p \in Pipelines : StackBecomesReady(p) \/ StackFails(p)
    \/ \E o \in Objects : ObjectDeleted(o)

Next == \/ (RoundStep \/ TimerFires) /\ faults' = faults
        \/ FaultStep /\ faults' = faults + 1
        \/ EnvironmentStep /\ faults' = faults

Spec == Init /\ [][Next]_vars

\* The work queue hands out what is queued and a started round runs on; timers
\* fire; a LokiStack that nobody disturbs comes up.
Fairness ==
    /\ WF_vars(RoundStep /\ faults' = faults)
    /\ WF_vars(TimerFires /\ faults' = faults)
    /\ \A p \in Pipelines : WF_vars(StackBecomesReady(p) /\ faults' = faults)

FairSpec == Spec /\ Fairness

-----------------------------------------------------------------------------
(* Properties *)

\* The types, with what ties the round to its CR: a round runs only for a CR
\* that carries the finalizer, and a cleanup only for one that is being deleted.
TypeOK ==
    /\ cr \in {"gone", "fresh", "live", "deleting"}
    /\ spec \in SpecType
    /\ status \in StatusType
    /\ queued \in BOOLEAN /\ timer \in BOOLEAN
    /\ live \subseteq Objects
    /\ legacy \subseteq live
    /\ stackSecret \in [Pipelines -> Secrets \cup {NoSecret}]
    /\ ready \subseteq {p \in Pipelines : Stack(p) \in live}
    /\ secrets \in StoreType
    /\ operators \subseteq Operators
    /\ crds \subseteq CRDs
    /\ credential \in BOOLEAN /\ caInjected \in BOOLEAN
    /\ pc \in {"idle", "cleanup", "unfinalize", "render", "deploy", "sweep", "patch"}
    /\ pc # "idle" => cr \in {"live", "deleting"}
    /\ pc \in {"cleanup", "unfinalize"} => cr = "deleting"
    /\ round \in RoundType
    /\ faults \in 0..MaxFaults

\* The finalizer does its work: whatever fails, and wherever the operator
\* restarts, no owned object outlives the Monitoring CR. deleteAllOwned must
\* have succeeded in full before the finalizer comes off, and nothing may be
\* applied for a CR that does not carry it yet.
NothingLeftBehind == cr = "gone" => live = {}

Kept == INSTANCE Custody WITH Owned <- Objects, Components <- Pipelines,
                              endpoints <- status.endpoints, closed <- pc = "unfinalize"

\* The rounds, with all that can go wrong in them, implement the custody of the
\* objects that Custody promises: a CR is not released ahead of its objects, and
\* no object or endpoint appears under a CR that is not in custody.
CustodyKept == Kept!Spec

HonestlyReady(conds) ==
    conds["Ready"] = "True" =>
        /\ conds["MonitoringDependenciesReady"] = "True"
        /\ \A f \in FeatureConditions : conds[f] \notin Failing \cup {"Unknown"}

\* A patched status never says Ready over a feature that is failing or could not
\* be observed, nor over missing dependencies, whichever way the round that
\* patched it ended: AggregateReady, an early return or the deferred error
\* handler all have to rewrite what the round before them left.
ReadyIsHonest == HonestlyReady(status.conds)

\* The sweep never deletes the LokiStack of a pipeline that the spec of its
\* round asks for: not when the storage gate withheld the stack, not when the
\* stack predates the component label, not when a check failed on the way.
ClaimedStackNeverSwept ==
    [][pc = "sweep" /\ pc' = "patch" =>
          \A p \in Claims(round.spec) : Stack(p) \in live => Stack(p) \in live']_vars

\* Of a spec with metrics storage the sweep deletes the MonitoringStack, and the
\* data it keeps, in one case only: the ThanosQuerier's CRD is missing, which
\* the round reports. In particular not while the CA that the MonitoringStack
\* waits for is missing again: it is left out of the apply then, and has to
\* count as desired all the same.
MetricsStoreKept ==
    [][/\ pc = "sweep" /\ pc' = "patch" /\ round.spec.metricsStorage
       /\ MonitoringStack \in live \ live'
       => round.status.conds["ThanosQuerierAvailable"] = "False"]_vars

\* What the storage gate withheld is frozen: until the round is over, no object
\* of a withheld pipeline appears, no LokiStack of one is reconfigured, and none
\* is deleted, labelled or not. Of the others, namespaced or cluster-scoped, the
\* sweep deletes only those without the component label, which an older version
\* left behind and the next clean apply brings back.
WithheldPipelineFrozen ==
    [][pc' # pc /\ pc \in {"deploy", "sweep"} =>
          \A p \in round.withheld :
              /\ stackSecret'[p] = stackSecret[p]
              /\ \A o \in live' \ live : o.component # p
              /\ \A o \in live \ live' :
                    o.component = p => o \in legacy /\ o.kind # "LokiStack"]_vars

\* A published endpoint is withdrawn only by a status that says why: its stack
\* is confirmed not ready (or refused), or not configured any more. A failed
\* API call on the way never withdraws it (publishLokiEndpoints holds it), since
\* the next round would take the usage logs collector down.
EndpointWithdrawnOnlyWhenConfirmed ==
    [][\A p \in status.endpoints \ status'.endpoints :
          \/ cr' = "gone"
          \/ status'.conds[StackCondition[p]] \in Failing \cup {"Info"}]_vars

\* Nothing will run the controller again until something happens.
Quiescent == pc = "idle" /\ ~queued /\ ~timer

\* The objects that the spec has a use for.
WantedObjects(s) ==
    IF ~s.managed THEN {}
    ELSE {Stack(p) : p \in Claims(s)}
         \cup (UNION {ShipperObjects(p) : p \in {q \in Pipelines :
                    q \in Claims(s) \/ (q = "usageLogs" /\ CollectorConfigured(s))}})
         \cup {o \in {MonitoringStack, ThanosQuerier} : s.metricsStorage}

\* The controller never comes to rest over leftovers: once nothing is queued and
\* no requeue is pending, every owned object is one the spec still has a use
\* for, or the status says that provisioning did not succeed. A failed sweep, a
\* lost status patch, an edit under a round or a restart must each leave something
\* behind that brings the controller back. (The early returns of reconcile leave
\* what is there alone, but they do not claim success.)
QuiescentNoLeftovers ==
    Quiescent /\ cr # "gone" =>
        \/ live \subseteq WantedObjects(spec)
        \/ spec.managed /\ status.conds["ProvisioningSucceeded"] = "False"

SharedBucket ==
    \E p, q \in Pipelines :
        /\ p # q /\ {Stack(p), Stack(q)} \subseteq live
        /\ lokiStorageLocations(secrets, stackSecret[p])
              \cap lokiStorageLocations(secrets, stackSecret[q]) # {}

\* A round that let the storage gate through and swept everything it should
\* leaves no two LokiStacks on one bucket, as long as users leave the contents
\* of the Secrets alone: not after an edit that moves a bucket from one pipeline
\* to the other, nor after an upgrade from the one stack that served both, nor
\* after rounds that applied or swept only part of their objects.
NoSharedBucketAfterSweep ==
    [][/\ pc = "sweep" /\ pc' = "patch"
       /\ round.withheld = {} /\ live' = live \ garbage
       => ~SharedBucket']_vars

\* A CR that is being deleted goes away, whatever else happens: the failed
\* cleanup of one round is retried by another until the finalizer is off.
DeletionCompletes == cr = "deleting" ~> cr = "gone"

\* The spec s is in order and a round for it has what it waits for.
Settled(s) ==
    /\ cr = "live"
    /\ s.managed /\ s.namespaceMatches /\ s.exporters # "invalid"
    /\ requiredOperators(s) \subseteq operators /\ crds = CRDs
    /\ checkStorageIsolation(s) = "Isolated"
    /\ s.credentialSecret => credential
    /\ s.metricsStorage => caInjected

\* Once users settle on a spec that is in order, the controller brings the
\* cluster to it and stays there: exactly the wanted objects exist and the
\* endpoint of every pipeline is published. LokiStacks and the credential are
\* not watched, the collector waits for an endpoint that another round
\* publishes, and the gate may have withheld everything a moment ago, so every
\* such wait needs a requeue of its own.
Converges ==
    <>[]Settled(spec) /\ <>[][UNCHANGED spec]_vars
        => <>[](live = WantedObjects(spec) /\ status.endpoints = Claims(spec))

\* The spec s is in order but for two pipelines sharing a bucket.
InConflict(s) ==
    /\ cr = "live"
    /\ s.managed /\ s.namespaceMatches /\ s.exporters # "invalid"
    /\ requiredOperators(s) \subseteq operators
    /\ LET locations(p) == lokiStorageLocations(secrets, s.storage[p])
       IN  /\ \A p \in Claims(s) : locations(p) # {}
           /\ \E p, q \in Claims(s) : p # q /\ locations(p) \cap locations(q) # {}

\* A conflict that users do not resolve comes to light: every pipeline involved
\* says so for good, and none of them publishes an endpoint. The gate of a round
\* may have read the Secrets just before they were edited, the round going on to
\* apply both stacks and to report them ready; another round has to follow.
ConflictReported ==
    <>[]InConflict(spec) /\ <>[][UNCHANGED spec]_vars
        => <>[](/\ status.endpoints = {}
                /\ \A p \in Claims(spec) :
                      status.conds[StackCondition[p]] = "StorageConflict")
=============================================================================
