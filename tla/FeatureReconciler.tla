-------------------------- MODULE FeatureReconciler --------------------------
(***************************************************************************)
(* The same reconcile round as in MonitoringReconciler, seen from the      *)
(* other features: tracing, the OpenTelemetry collector, alerting, node    *)
(* metrics, Korrel8r and Perses (actions.go), with the clean-ups that read *)
(* an object and then delete it, the collector's readiness, the platform   *)
(* version handshake and observedGeneration.                               *)
(*                                                                         *)
(*   Begin -> Render -> DeleteToken -> Deploy -> DeletePolicy -> Sweep     *)
(*         -> DeleteRBAC -> PatchStatus                                    *)
(*                                                                         *)
(* A Delete step is taken only if the step before it, whose last act is to *)
(* read and verify the object, found something to delete; the cluster may  *)
(* change between the two. Of the metrics store there is the               *)
(* MonitoringStack, which waits for its CA, and of the log pipelines the   *)
(* refusal of the storage gate, since both decide how a round returns. The *)
(* pipelines themselves, the life of the CR and operators that come and go *)
(* are in MonitoringReconciler.                                            *)
(***************************************************************************)
EXTENDS Conditions, Naturals, Sequences

CONSTANTS
    Specs,         \* the Monitoring specs users write
    OperatorSets,  \* the sets of prerequisite operators that may be installed
    CRDSets,       \* the sets of optional CRDs that get installed
    Versions,      \* the platform versions published in the platform ConfigMap
    NoVersion,     \* no platform version
    Leftovers,     \* what is there of the guarded objects: "absent", or "ours" as an
                   \* older version of the operator left them
    MaxChanges     \* the bound on edits, failing calls, restarts and other disturbances

VARIABLES
    \* The Monitoring CR and the work queue of the controller.
    spec, status, queued, timer,
    \* The cluster.
    live,        \* the owned objects that exist
    collector,   \* the collector's configuration, and the generation at which the
                 \* OpenTelemetry operator last reported it Ready
    korrel8r,    \* the Korrel8r Deployment and its endpoints are ready
    guarded,     \* the objects that are verified before they are deleted
    operators, crds, platform,
    caInjected,  \* service-ca has filled the Prometheus CA ConfigMap
    refused,     \* the storage Secrets are such that the gate refuses the log pipelines
    \* The running round.
    pc, round,
    changes,
    \* The platform versions for which a round has applied all that the spec asks for.
    applied

crVars == <<spec, status>>
queueVars == <<queued, timer>>
objectVars == <<live, collector, korrel8r>>
clusterVars == <<operators, crds, platform, caInjected, refused>>
vars == <<crVars, queueVars, objectVars, guarded, clusterVars, pc, round, changes, applied>>

-----------------------------------------------------------------------------
(* Specs, objects and statuses *)

SpecType ==
    [managed  : BOOLEAN,
     metrics  : {"none", "exporters", "storage"},
     traces   : {"none", "exporters", "pv", "object"},
     logs     : BOOLEAN,
     alerting : BOOLEAN]

HasMetrics(s) == s.metrics # "none"
HasTraces(s) == s.traces # "none"
MetricsStorage(s) == s.metrics = "storage"
TracesStorage(s) == s.traces \in {"pv", "object"}
HasCollector(s) == HasMetrics(s) \/ HasTraces(s)

\* What the collector is configured with.
ConfigOf(s) == <<s.metrics, s.traces>>

CollectorType == [config : {<<m, t>> : m \in {"none", "exporters", "storage"},
                                       t \in {"none", "exporters", "pv", "object"}},
                  ready  : {"never", "older", "current"}]

NoCollector == [config |-> <<"none", "none">>, ready |-> "never"]

\* The objects, each for the templates of one action or of one branch of it. The
\* collector's monitors, which come and go with metrics storage as the NodeProxy
\* does, are left out.
Objects == {"Instrumentation", "TempoMonolithic", "TempoStack", "Collector",
            "OperatorRules", "NodeProxy", "Korrel8r",
            "Perses", "TempoDatasource", "TempoDashboard", "PrometheusDatasources",
            "MonitoringStack"}

\* The CRD an object needs, if it is not of a core kind. The CRDs of MonitoringStack
\* and ThanosQuerier are taken as one, as are their conditions.
CRDOf(o) ==
    CASE o \in {"Instrumentation", "TempoMonolithic", "TempoStack", "Perses", "MonitoringStack"}
            -> {o}
      [] o = "Collector" -> {"OpenTelemetryCollector"}
      [] o \in {"TempoDatasource", "PrometheusDatasources"} -> {"PersesDatasource"}
      [] o = "TempoDashboard" -> {"PersesDashboard"}
      [] o = "OperatorRules" -> {"PrometheusRule"}
      [] o \in {"NodeProxy", "Korrel8r"} -> {}

CRDs == UNION {CRDOf(o) : o \in Objects}

Operators == {"opentelemetry", "cert-manager", "cluster-observability", "tempo",
              "loki", "cluster-logging"}

\* Each stands for the objects of one clean-up: the legacy token Secrets of the
\* Perses datasources, the NetworkPolicies of the OpenTelemetry operator, and the
\* cluster-scoped RBAC of the collector's way to Tempo.
Guarded == {"token", "policy", "rbac"}

\* "ours": the checks ahead of the deletion find it; "foreign": an object of that
\* name that they must leave alone (a user's, or opted out by annotation).
GuardedType == [Guarded -> {"absent", "ours", "foreign"}]

\* The feature conditions, in the order in which the actions mark them.
Features == <<"MonitoringStackAvailable", "InstrumentationAvailable", "TempoAvailable",
              "OpenTelemetryCollectorAvailable", "AlertingAvailable",
              "NodeMetricsEndpointAvailable", "Korrel8rAvailable", "PersesAvailable",
              "PersesTempoDataSourceAvailable", "PersesPrometheusDataSourceAvailable">>

FeatureTypes == {Features[i] : i \in DOMAIN Features}

Types == FeatureTypes \cup
         {"MonitoringDependenciesReady", "Ready", "ProvisioningSucceeded", "Degraded"}

\* observed: status.observedGeneration is the generation of the current spec.
StatusType == [conds    : [Types -> Verdicts],
               observed : BOOLEAN,
               platform : Versions \cup {NoVersion}]

EmptyStatus == [conds    |-> [c \in Types |-> "Absent"],
                observed |-> FALSE,
                platform |-> NoVersion]

\* What a round carries in memory. current: the spec it read is still the
\* current one. rbac: it rendered the guarded RBAC. caReady: the CA is there or not
\* needed. storageErr: the storage gate refused the log pipelines. held: the guarded
\* object it is about to delete is as it was read (same UID and resourceVersion).
RoundType == [spec     : SpecType,
              status   : StatusType,
              current  : BOOLEAN,
              platform : Versions \cup {NoVersion},
              desired  : SUBSET Objects,
              rbac     : BOOLEAN,
              caReady  : BOOLEAN,
              storageErr : BOOLEAN,
              held     : BOOLEAN,
              result   : {"done", "requeue", "error"}]

RoundOf(s, st) == [spec     |-> s,
                   status   |-> st,
                   current  |-> TRUE,
                   platform |-> platform,
                   desired  |-> {},
                   rbac     |-> FALSE,
                   caReady  |-> TRUE,
                   storageErr |-> FALSE,
                   held     |-> FALSE,
                   result   |-> "done"]

EmptySpec == [managed |-> FALSE, metrics |-> "none", traces |-> "none",
              logs |-> FALSE, alerting |-> FALSE]

NoRound == [RoundOf(EmptySpec, EmptyStatus) EXCEPT !.platform = NoVersion]

ASSUME FeatureAssumptions ==
    /\ Specs \subseteq SpecType /\ Specs # {}
    /\ OperatorSets \subseteq SUBSET Operators /\ OperatorSets # {}
    /\ CRDSets \subseteq SUBSET CRDs /\ CRDSets # {}
    /\ NoVersion \notin Versions
    /\ Leftovers \subseteq {"absent", "ours"} /\ Leftovers # {}
    /\ MaxChanges \in Nat

-----------------------------------------------------------------------------
(* What a round reads and computes *)

requiredOperators(s) ==
    {o \in Operators :
        \/ o = "opentelemetry" /\ HasCollector(s)
        \/ o = "cert-manager" /\ HasMetrics(s)
        \/ o = "cluster-observability" /\ MetricsStorage(s)
        \/ o = "tempo" /\ TracesStorage(s)
        \/ o \in {"loki", "cluster-logging"} /\ s.logs}

Available(configured, needed) ==
    IF ~configured THEN "Info" ELSE IF needed \subseteq crds THEN "True" ELSE "False"

TempoKind(s) == IF s.traces = "pv" THEN "TempoMonolithic" ELSE "TempoStack"

\* The readiness check that does not compare generations (hasReadyCondition).
openTelemetryCollectorVerdict_AnyGeneration(s) ==
    IF ~HasCollector(s) THEN "Info"
    ELSE IF "OpenTelemetryCollector" \in crds /\ collector.ready # "never" THEN "True"
    ELSE "False"

\* The collector must be Ready at its current generation (hasCurrentReadyCondition).
openTelemetryCollectorVerdict(s) ==
    IF ~HasCollector(s) THEN "Info"
    ELSE IF "OpenTelemetryCollector" \in crds /\ collector.ready = "current" THEN "True"
    ELSE "False"

\* Korrel8r serves once its Deployment and one of its endpoints are ready.
korrel8rVerdict(s) ==
    IF ~HasCollector(s) /\ ~s.logs THEN "Info" ELSE IF korrel8r THEN "True" ELSE "False"

\* What each action reports.
verdict(f, s) ==
    CASE f = "MonitoringStackAvailable" ->
            Available(MetricsStorage(s), {"MonitoringStack"})
      [] f = "InstrumentationAvailable" -> Available(HasTraces(s), {"Instrumentation"})
      [] f = "TempoAvailable" -> Available(TracesStorage(s), {TempoKind(s)})
      [] f = "OpenTelemetryCollectorAvailable" -> openTelemetryCollectorVerdict(s)
      [] f = "AlertingAvailable" -> Available(s.alerting, {"PrometheusRule"})
      [] f = "NodeMetricsEndpointAvailable" -> Available(MetricsStorage(s), {})
      [] f = "Korrel8rAvailable" -> korrel8rVerdict(s)
      [] f = "PersesAvailable" ->
            Available(MetricsStorage(s) \/ TracesStorage(s), {"Perses"})
      [] f = "PersesTempoDataSourceAvailable" ->
            Available(TracesStorage(s), {"Perses", "PersesDatasource"})
      [] f = "PersesPrometheusDataSourceAvailable" ->
            Available(MetricsStorage(s), {"Perses", "PersesDatasource"})

\* The action that marks f makes a call that can fail. (The one that marks the
\* node metrics makes none, but deployOperatorMonitoring runs ahead of it.)
Calls(f, s) ==
    \/ f = "NodeMetricsEndpointAvailable"
    \/ f = "PersesTempoDataSourceAvailable" /\ "Perses" \in crds
    \/ verdict(f, s) # "Info" /\ (f = "PersesPrometheusDataSourceAvailable" => "Perses" \in crds)

\* The objects whose templates the actions collect.
renderedObjects(s) ==
    {o \in Objects :
        CASE o = "MonitoringStack" -> MetricsStorage(s) /\ o \in crds
          [] o = "Instrumentation" -> HasTraces(s) /\ o \in crds
          [] o \in {"TempoMonolithic", "TempoStack"} ->
                TracesStorage(s) /\ o = TempoKind(s) /\ o \in crds
          [] o = "Collector" -> HasCollector(s) /\ "OpenTelemetryCollector" \in crds
          [] o = "NodeProxy" -> MetricsStorage(s)
          [] o = "Korrel8r" -> HasCollector(s) \/ s.logs
          [] o = "OperatorRules" -> "PrometheusRule" \in crds
          [] o = "Perses" -> verdict("PersesAvailable", s) = "True"
          [] o = "TempoDatasource" -> verdict("PersesTempoDataSourceAvailable", s) = "True"
          [] o = "TempoDashboard" ->
                /\ verdict("PersesTempoDataSourceAvailable", s) = "True"
                /\ "PersesDashboard" \in crds
          [] o = "PrometheusDatasources" ->
                verdict("PersesPrometheusDataSourceAvailable", s) = "True"}

\* The RBAC for the export to Tempo is rendered with the collector.
rbacRendered(s) == TracesStorage(s) /\ "OpenTelemetryCollector" \in crds

\* What deployPersesTempoIntegration deletes by name once Tempo is not configured.
droppedTempoObjects(s) ==
    IF TracesStorage(s) \/ "Perses" \notin crds THEN {}
    ELSE {o \in {"TempoDatasource", "TempoDashboard"} : CRDOf(o) \subseteq crds}

\* The conditions after the first k actions.
Marked(conds, s, k) ==
    [c \in Types |-> IF \E i \in 1..k : c = Features[i] THEN verdict(c, s) ELSE conds[c]]

\* The deferred requeues: the refresh of the COO version, and the wait for the
\* collector, which covers the specs without a periodic requeue.
requeueFor(s, conds) ==
    \/ MetricsStorage(s)
    \/ /\ ~s.logs /\ HasCollector(s)
       /\ conds["OpenTelemetryCollectorAvailable"] # "True"

-----------------------------------------------------------------------------
(* Effects shared by several steps *)

\* The owned objects become `objs', of which those in `new' were just applied
\* with the spec s. A collector whose configuration changes gets a new
\* generation; what is known of an object goes with it.
SetObjects(objs, new, s) ==
    /\ live' = objs
    /\ collector' =
          IF "Collector" \notin objs THEN NoCollector
          ELSE IF "Collector" \notin new \/ collector.config = ConfigOf(s) THEN collector
          ELSE [config |-> ConfigOf(s),
                ready  |-> IF collector.ready = "never" THEN "never" ELSE "older"]
    /\ korrel8r' = (korrel8r /\ "Korrel8r" \in objs)

\* Every set of templates has core kinds that carry the part-of label, so that
\* creating or deleting an object comes back as a watch event.
ObjectEvents(objs) == queued' = (queued \/ objs # live)

\* reconcile returns; only the status patch is left. A platform version
\* that was read is stamped if the round says so.
EndRound(conds, result, stamp) ==
    /\ pc' = "patch"
    /\ round' = [round EXCEPT
          !.status.conds = conds,
          !.status.platform = IF stamp /\ round.platform # NoVersion
                              THEN round.platform ELSE @,
          !.held = FALSE,
          !.result = result]

Abort(conds) == EndRound(MarkReconcileFailed(conds), "error", FALSE)

Stopped(conds) ==
    EndRound(conds, IF requeueFor(round.spec, conds) THEN "requeue" ELSE "done", FALSE)

\* The conditions once the sweep is over: the aggregation, after the sync of the
\* Thanos route's CA, whose failure is reported on the metrics store.
FinalConds(synced) ==
    AggregateOver(FeatureTypes,
                  IF synced THEN round.status.conds
                  ELSE Mark(round.status.conds, "MonitoringStackAvailable", "False"))

\* Finish stamping the platform version although the MonitoringStack was left out.
Finish_StampsAnyway(gcFailed, synced) ==
    LET conds == FinalConds(synced)
    IN  IF round.storageErr THEN Abort(conds)
        ELSE EndRound(IF round.caReady THEN conds
                      ELSE Mark(conds, "ProvisioningSucceeded", "False"),
                      IF \/ ~round.caReady \/ round.spec.logs \/ gcFailed
                         \/ requeueFor(round.spec, conds)
                      THEN "requeue" ELSE "done",
                      TRUE)

\* What follows the sweep, and the way the round returns: with the error of the
\* storage gate; waiting for the CA; or in order, and only then with the stamp.
Finish(gcFailed, synced) ==
    LET conds == FinalConds(synced)
    IN  IF round.storageErr THEN Abort(conds)
        ELSE EndRound(IF round.caReady THEN conds
                      ELSE Mark(conds, "ProvisioningSucceeded", "False"),
                      IF \/ ~round.caReady \/ round.spec.logs \/ gcFailed
                         \/ requeueFor(round.spec, conds)
                      THEN "requeue" ELSE "done",
                      round.caReady)

\* The delete of the guarded object g that the round read, without preconditions.
Conflicts_NoPreconditions(g) == FALSE

\* The delete carries the UID and the resourceVersion of the read: it fails if
\* there is an object and it is not as it was read.
Conflicts(g) == ~round.held /\ guarded[g] # "absent"

Remove(g) == guarded' = [guarded EXCEPT ![g] = "absent"]

-----------------------------------------------------------------------------
(* The steps of a round *)

TimerFires ==
    /\ timer
    /\ timer' = FALSE
    /\ queued' = TRUE
    /\ UNCHANGED <<crVars, objectVars, guarded, clusterVars, pc, round, applied>>

\* The round snapshots the CR and reads the platform version.
Begin ==
    /\ pc = "idle" /\ queued
    /\ queued' = FALSE
    /\ round' = RoundOf(spec, status)
    /\ pc' = "render"
    /\ UNCHANGED <<crVars, timer, objectVars, guarded, clusterVars, applied>>

DependenciesMet == requiredOperators(round.spec) \subseteq operators

RemovedConds ==
    MarkStopped(Mark(round.status.conds, "MonitoringDependenciesReady", "Info"))

\* managementState Removed: deleteAllOwned, whose last part verifies the RBAC.
CleanupRemoved ==
    /\ pc = "render" /\ ~round.spec.managed
    /\ SetObjects({}, {}, EmptySpec)
    /\ ObjectEvents({})
    /\ IF guarded["rbac"] = "ours"
       THEN pc' = "rbac" /\ round' = [round EXCEPT !.held = TRUE]
       ELSE EndRound(RemovedConds, "done", FALSE)
    /\ UNCHANGED <<crVars, timer, guarded, clusterVars, applied>>

\* An early return: operators are missing.
Stop ==
    /\ pc = "render" /\ round.spec.managed /\ ~DependenciesMet
    /\ Stopped(MarkStopped(Mark(round.status.conds, "MonitoringDependenciesReady", "False")))
    /\ UNCHANGED <<crVars, queueVars, objectVars, guarded, clusterVars, applied>>

WithDependencies == Mark(round.status.conds, "MonitoringDependenciesReady", "True")

\* A list call of buildTemplateData fails (the API server's endpoints, or the
\* namespaces), which is reported like a configuration error and not retried.
BuildTemplateDataFails ==
    /\ pc = "render" /\ round.spec.managed /\ DependenciesMet
    /\ HasCollector(round.spec) \/ round.spec.logs
    /\ Stopped(MarkStopped(WithDependencies))
    /\ UNCHANGED <<crVars, queueVars, objectVars, guarded, clusterVars, applied>>

\* No clean-up of the legacy tokens.
FindsToken_Never(s) == FALSE

\* The last action reads the legacy tokens, if it gets that far.
FindsToken(s) ==
    /\ verdict("PersesPrometheusDataSourceAvailable", s) = "True"
    /\ guarded["token"] = "ours"

\* renderMonitoringResources with the storage gate's verdict, and
\* preparePrometheusWebTLSCA.
RenderWith(storageErr) ==
    LET s == round.spec
        caReady == "MonitoringStack" \in renderedObjects(s) => caInjected
        conds == Marked(WithDependencies, s, Len(Features))
    IN  /\ pc = "render" /\ DependenciesMet
        /\ SetObjects(live \ droppedTempoObjects(s), {}, s)
        /\ ObjectEvents(live \ droppedTempoObjects(s))
        /\ round' = [round EXCEPT
              !.status.conds = IF caReady THEN conds
                               ELSE Mark(conds, "MonitoringStackAvailable", "False"),
              !.desired = renderedObjects(s),
              !.rbac = rbacRendered(s),
              !.caReady = caReady,
              !.storageErr = storageErr,
              !.held = TRUE]
        /\ pc' = IF FindsToken(s) THEN "token" ELSE "deploy"
        /\ UNCHANGED <<crVars, timer, guarded, clusterVars, applied>>

\* A round that goes on behind the clean-up of Removed.
Render_RemovedToo == RenderWith(refused /\ round.spec.logs)

Render == round.spec.managed /\ RenderWith(refused /\ round.spec.logs)

\* A storage Secret that the gate compares cannot be read.
GateReadFails == round.spec.managed /\ round.spec.logs /\ RenderWith(TRUE)

\* The calls ahead of the dependencies fail, or those ahead of the actions (k = 0), the
\* call of the action after the k-th, or one behind the actions (the storage gate's
\* stacks, the CA).
RenderFails ==
    /\ pc = "render"
    /\ \/ /\ Abort(round.status.conds)
          /\ SetObjects(live, {}, round.spec)
       \/ /\ round.spec.managed /\ DependenciesMet
          /\ \E k \in 0..Len(Features) :
                /\ k \in 1..(Len(Features) - 1) => Calls(Features[k + 1], round.spec)
                /\ Abort(Marked(WithDependencies, round.spec, k))
                /\ \E dropped \in SUBSET droppedTempoObjects(round.spec) :
                      /\ k < 8 => dropped = {}
                      /\ k = 8 => dropped \subseteq {"TempoDatasource"}
                      /\ k > 8 => dropped = droppedTempoObjects(round.spec)
                      /\ SetObjects(live \ dropped, {}, round.spec)
    /\ ObjectEvents(live')
    /\ UNCHANGED <<crVars, timer, guarded, clusterVars, applied>>

\* cleanupLegacyPersesDatasourceSATokenSecret deletes what it read.
DeleteToken ==
    /\ pc = "token"
    /\ IF Conflicts("token")
       THEN /\ Abort([round.status.conds EXCEPT
                        !["PersesPrometheusDataSourceAvailable"] =
                            status.conds["PersesPrometheusDataSourceAvailable"]])
            /\ UNCHANGED guarded
       ELSE /\ Remove("token")
            /\ pc' = "deploy"
            /\ UNCHANGED round
    /\ UNCHANGED <<crVars, queueVars, objectVars, clusterVars, applied>>

\* The MonitoringStack is left out until its CA is there.
deployResources == IF round.caReady THEN round.desired
                   ELSE round.desired \ {"MonitoringStack"}

\* The apply. Opting out is an annotation that the apply does not own, so it
\* stays. Then the policies of the OpenTelemetry operator are read.
Deploy ==
    /\ pc = "deploy"
    /\ \A o \in deployResources : CRDOf(o) \subseteq crds
    /\ SetObjects(live \cup deployResources, deployResources, round.spec)
    /\ guarded' = IF round.rbac /\ guarded["rbac"] = "absent"
                  THEN [guarded EXCEPT !["rbac"] = "ours"] ELSE guarded
    /\ queued' = (queued \/ live' # live \/ guarded' # guarded)
    /\ applied' = IF deployResources = round.desired /\ ~round.storageErr
                  THEN applied \cup {round.platform} ELSE applied
    /\ pc' = IF guarded["policy"] = "ours" THEN "policy" ELSE "sweep"
    /\ round' = [round EXCEPT !.held = TRUE]
    /\ UNCHANGED <<crVars, timer, clusterVars>>

\* An apply fails, as it must once a CRD has gone: the round aborts with part of
\* the resources applied. The deployer sorts them by kind, so that may be any part.
DeployAborts ==
    /\ \E new \in SUBSET {o \in deployResources : CRDOf(o) \subseteq crds} :
          SetObjects(live \cup new, new, round.spec)
    /\ ObjectEvents(live')
    /\ Abort(round.status.conds)
    /\ UNCHANGED <<crVars, timer, guarded, clusterVars, applied>>

DeployRejected ==
    /\ pc = "deploy"
    /\ \E o \in deployResources : ~(CRDOf(o) \subseteq crds)
    /\ DeployAborts

DeployFails ==
    /\ pc = "deploy"
    /\ \A o \in deployResources : CRDOf(o) \subseteq crds
    /\ DeployAborts

\* cleanupOpenTelemetryOperatorNetworkPolicies deletes by name: whatever is there
\* now goes. Policies with the operator's labels are watched.
DeletePolicy ==
    /\ pc = "policy"
    /\ Remove("policy")
    /\ queued' = (queued \/ guarded["policy"] = "ours")
    /\ pc' = "sweep"
    /\ UNCHANGED <<crVars, timer, objectVars, clusterVars, round, applied>>

\* A token or a policy cannot be read or deleted: the round aborts.
DeleteFails ==
    /\ \/ /\ pc = "token"
          /\ Abort([round.status.conds EXCEPT
                      !["PersesPrometheusDataSourceAvailable"] =
                          status.conds["PersesPrometheusDataSourceAvailable"]])
       \/ /\ pc \in {"policy", "sweep"}
          /\ Abort(round.status.conds)
    /\ UNCHANGED <<crVars, queueVars, objectVars, guarded, clusterVars, applied>>

\* collectGarbage, whose last part lists the RBAC and verifies it.
Sweep ==
    /\ pc = "sweep"
    /\ SetObjects(live \cap round.desired, {}, round.spec)
    /\ ObjectEvents(live')
    /\ IF guarded["rbac"] = "ours" /\ ~round.rbac
       THEN pc' = "rbac" /\ round' = [round EXCEPT !.held = TRUE]
       ELSE Finish(FALSE, TRUE)
    /\ UNCHANGED <<crVars, timer, guarded, clusterVars, applied>>

\* The sweep fails part way; or it succeeds and the sync of the Thanos route's CA fails.
SweepFails ==
    /\ pc = "sweep"
    /\ \/ /\ \E left \in SUBSET (live \ round.desired) :
                SetObjects((live \cap round.desired) \cup left, {}, round.spec)
          /\ Finish(TRUE, TRUE)
       \/ /\ MetricsStorage(round.spec) /\ (guarded["rbac"] = "ours" => round.rbac)
          /\ SetObjects(live \cap round.desired, {}, round.spec)
          /\ Finish(FALSE, FALSE)
    /\ ObjectEvents(live')
    /\ UNCHANGED <<crVars, timer, guarded, clusterVars, applied>>

\* The sweep could not delete the RBAC, which only fails the round if there is
\* nothing else to do in it.
RBACRemains ==
    /\ IF round.spec.managed THEN Finish(TRUE, TRUE) ELSE Abort(round.status.conds)
    /\ UNCHANGED <<crVars, queueVars, objectVars, guarded, clusterVars, applied>>

\* collectScopedClusterRBACGarbage deletes what it listed. RBAC is watched.
DeleteRBAC ==
    /\ pc = "rbac"
    /\ \/ Conflicts("rbac") /\ RBACRemains
       \/ /\ ~Conflicts("rbac")
          /\ Remove("rbac")
          /\ queued' = TRUE
          /\ IF round.spec.managed THEN Finish(FALSE, TRUE)
             ELSE EndRound(RemovedConds, "done", FALSE)
          /\ UNCHANGED <<crVars, timer, objectVars, clusterVars, applied>>

DeleteRBACFails == pc = "rbac" /\ RBACRemains

Return(backoff) ==
    /\ pc' = "idle"
    /\ round' = NoRound
    /\ timer' = (timer \/ backoff)

\* The patch of conditions, platform release and observedGeneration. If any of
\* them changes, it comes back as a watch event.
PatchStatus ==
    /\ pc = "patch"
    /\ status' = [round.status EXCEPT !.observed = round.current]
    /\ queued' = \/ queued
                 \/ round.status.conds # status.conds
                 \/ round.status.platform # status.platform
                 \/ ~round.status.observed
    /\ Return(round.result # "done")
    /\ UNCHANGED <<spec, objectVars, guarded, clusterVars, applied>>

\* The CR cannot be read, or its status not be patched.
RoundLost ==
    /\ \/ pc = "idle" /\ queued /\ queued' = FALSE
       \/ pc = "patch" /\ UNCHANGED queued
    /\ Return(TRUE)
    /\ UNCHANGED <<crVars, objectVars, guarded, clusterVars, applied>>

Restart ==
    /\ pc' = "idle"
    /\ round' = NoRound
    /\ timer' = FALSE
    /\ queued' = TRUE
    /\ UNCHANGED <<crVars, objectVars, guarded, clusterVars, applied>>

-----------------------------------------------------------------------------
(* The environment *)

EditMonitoring ==
    /\ spec' \in Specs \ {spec}
    /\ status' = [status EXCEPT !.observed = FALSE]
    /\ round' = [round EXCEPT !.current = (pc = "idle")]
    /\ queued' = TRUE
    /\ UNCHANGED <<timer, objectVars, guarded, clusterVars, pc, applied>>

\* The OpenTelemetry operator admits the collector. Collectors are not watched.
CollectorAdmitted ==
    /\ "Collector" \in live /\ collector.ready # "current"
    /\ collector' = [collector EXCEPT !.ready = "current"]
    /\ UNCHANGED <<crVars, queueVars, live, korrel8r, guarded, clusterVars, pc, round, applied>>

\* The Deployment of Korrel8r and its EndpointSlices are watched.
Korrel8rBecomes(ready) ==
    /\ "Korrel8r" \in live /\ korrel8r # ready
    /\ korrel8r' = ready
    /\ queued' = TRUE
    /\ UNCHANGED <<crVars, timer, live, collector, guarded, clusterVars, pc, round, applied>>

Korrel8rStarts == Korrel8rBecomes(TRUE)
Korrel8rFails == Korrel8rBecomes(FALSE)

\* The object g is not any more what a round that read it has seen.
Touched(g) == round' = [round EXCEPT !.held = @ /\ pc # g]

\* A user creates an object of that name, replaces ours by one, or opts ours out.
\* Of these only RBAC is watched (by a label that opting out leaves on).
UserTakes(g) ==
    /\ guarded[g] # "foreign"
    /\ guarded' = [guarded EXCEPT ![g] = "foreign"]
    /\ queued' = (queued \/ (g = "rbac" /\ guarded[g] = "ours"))
    /\ Touched(g)
    /\ UNCHANGED <<crVars, timer, objectVars, clusterVars, pc, applied>>

UserDrops(g) ==
    /\ guarded[g] = "foreign"
    /\ Remove(g)
    /\ queued' \in {queued, queued \/ g = "rbac"}
    /\ Touched(g)
    /\ UNCHANGED <<crVars, timer, objectVars, clusterVars, pc, applied>>

\* A reconcile of the OpenTelemetry operator that was in flight creates its policy
\* again, which nobody watches.
PolicyRecreated_Unwatched ==
    /\ guarded["policy"] = "absent" /\ "Collector" \in live
    /\ guarded' = [guarded EXCEPT !["policy"] = "ours"]
    /\ Touched("policy")
    /\ UNCHANGED <<crVars, queueVars, objectVars, clusterVars, pc, applied>>

\* The same with the watch on that operator's policies.
PolicyRecreated ==
    /\ guarded["policy"] = "absent" /\ "Collector" \in live
    /\ guarded' = [guarded EXCEPT !["policy"] = "ours"]
    /\ Touched("policy")
    /\ queued' = TRUE
    /\ UNCHANGED <<crVars, timer, objectVars, clusterVars, pc, applied>>

\* The platform ConfigMap is watched.
PlatformPublishes ==
    /\ platform' \in Versions \ {platform}
    /\ queued' = TRUE
    /\ UNCHANGED <<crVars, timer, objectVars, guarded, operators, crds, caInjected,
                   refused, pc, round, applied>>

\* The CA ConfigMap is filled, or recreated empty; it is watched. It belongs to the
\* metrics store.
CAChanges ==
    /\ MetricsStorage(spec)
    /\ caInjected' = ~caInjected
    /\ queued' = TRUE
    /\ UNCHANGED <<crVars, timer, objectVars, guarded, operators, crds, platform,
                   refused, pc, round, applied>>

\* Storage Secrets that the current spec names are edited into a conflict or out of
\* it; they are watched.
SecretsChange ==
    /\ spec.logs
    /\ refused' = ~refused
    /\ queued' = TRUE
    /\ UNCHANGED <<crVars, timer, objectVars, guarded, operators, crds, platform,
                   caInjected, pc, round, applied>>

CRDsChange ==
    /\ crds' \in CRDSets \ {crds}
    /\ SetObjects({o \in live : CRDOf(o) \subseteq crds'}, {}, spec)
    /\ queued' = TRUE
    /\ UNCHANGED <<crVars, timer, guarded, operators, platform, caInjected, refused,
                   pc, round, applied>>

-----------------------------------------------------------------------------
(* The system *)

\* The controller was just started, perhaps after an upgrade from a version that
\* left tokens and policies behind.
Init ==
    /\ spec \in Specs
    /\ status = EmptyStatus
    /\ queued = TRUE
    /\ timer = FALSE
    /\ live = {}
    /\ collector = NoCollector
    /\ korrel8r = FALSE
    /\ \E left \in Leftovers :
          guarded = [g \in Guarded |-> IF g = "rbac" THEN "absent" ELSE left]
    /\ operators \in OperatorSets
    /\ crds \in CRDSets
    /\ platform = NoVersion
    /\ caInjected = FALSE
    /\ refused = FALSE
    /\ pc = "idle"
    /\ round = NoRound
    /\ changes = 0
    /\ applied = {}

RoundStep ==
    /\ Begin \/ CleanupRemoved \/ Stop \/ Render \/ DeleteToken \/ Deploy
       \/ DeployRejected \/ DeletePolicy \/ Sweep \/ DeleteRBAC \/ PatchStatus
    /\ UNCHANGED changes

Fault ==
    BuildTemplateDataFails \/ GateReadFails \/ RenderFails \/ DeleteFails \/ DeployFails \/ SweepFails
    \/ DeleteRBACFails \/ RoundLost \/ Restart

Disturbance ==
    EditMonitoring \/ CRDsChange \/ PlatformPublishes \/ CAChanges \/ SecretsChange
    \/ PolicyRecreated \/ Korrel8rFails \/ \E g \in Guarded : UserTakes(g) \/ UserDrops(g)

Next ==
    \/ RoundStep
    \/ (TimerFires \/ CollectorAdmitted \/ Korrel8rStarts) /\ UNCHANGED changes
    \/ changes < MaxChanges /\ changes' = changes + 1 /\ (Fault \/ Disturbance)

Spec == Init /\ [][Next]_vars

\* The controller keeps working off its queue and its timers fire. Nothing is
\* assumed of the other operators: a collector may never be admitted.
FairSpec ==
    /\ Spec
    /\ WF_vars(RoundStep)
    /\ WF_vars(TimerFires /\ UNCHANGED changes)

-----------------------------------------------------------------------------
(* Properties *)

\* The types, among them that only a round of a managed spec comes to apply objects.
TypeOK ==
    /\ spec \in SpecType
    /\ status \in StatusType
    /\ queued \in BOOLEAN /\ timer \in BOOLEAN
    /\ live \in SUBSET Objects
    /\ collector \in CollectorType
    /\ korrel8r \in BOOLEAN
    /\ guarded \in GuardedType
    /\ operators \in SUBSET Operators
    /\ crds \in SUBSET CRDs
    /\ platform \in Versions \cup {NoVersion}
    /\ caInjected \in BOOLEAN /\ refused \in BOOLEAN
    /\ pc \in {"idle", "render", "token", "deploy", "policy", "sweep", "rbac", "patch"}
    /\ round \in RoundType
    /\ pc \in {"token", "deploy", "policy", "sweep"} => round.spec.managed
    /\ changes \in 0..MaxChanges
    /\ applied \in SUBSET (Versions \cup {NoVersion})

\* A round never deletes a Secret or RBAC that is not the operator's, even if it
\* was when the round read it: the deletes carry preconditions. (The delete of a
\* NetworkPolicy does not; nothing is claimed of it.)
ForeignKept ==
    [][pc' # pc => \A g \in {"token", "rbac"} :
                      guarded[g] = "foreign" => guarded'[g] = "foreign"]_vars

\* The platform release in the status, on which the platform waits before it goes
\* on with an upgrade, is one for which some round applied all that its spec asks
\* for: a round that left out the MonitoringStack, or whose log pipelines the
\* storage gate refused, does not count.
PlatformVersionEarned == status.platform \in applied \cup {NoVersion}

\* The datasources that use the caller's token are never there together with the
\* legacy token Secrets of the service account.
LegacyTokenGoneFirst == "PrometheusDatasources" \in live => guarded["token"] # "ours"

\* The spec asks for something, and the operators that it requires are there.
Configured == spec.managed /\ requiredOperators(spec) \subseteq operators

Admitted == collector.ready = "current"

\* The status says of a feature that it is ready just if it is.
Reported(c, ready) ==
    Configured /\ HasCollector(spec) => (status.conds[c] = "True") = ready

\* The last round was a failed list call of buildTemplateData: the status says that
\* the configuration is in error.
ConfigurationErrorReported ==
    /\ status.conds["MonitoringDependenciesReady"] = "True"
    /\ status.conds["ProvisioningSucceeded"] = "False"
    /\ status.conds["Degraded"] = "False"

\* What the status says of the collector and of Korrel8r in the end is what they
\* are, for a collector: Ready at its current generation or not. Both are read
\* before the round applies them, and collectors are not watched. The one other
\* way to end is a configuration error, and then the status says so.
ReadinessReported ==
    /\ <>[][UNCHANGED <<spec, operators, Admitted>>]_vars
          => \/ <>[]Reported("OpenTelemetryCollectorAvailable", Admitted)
             \/ <>[]ConfigurationErrorReported
    /\ <>[][UNCHANGED <<spec, operators, korrel8r>>]_vars
          => \/ <>[]Reported("Korrel8rAvailable", korrel8r)
             \/ <>[]ConfigurationErrorReported

\* The metrics store that the spec asks for has to wait for its CA.
AwaitsCA == "MonitoringStack" \in renderedObjects(spec) /\ ~caInjected

\* Once spec and cluster stay, the objects are in the end those of the spec, but
\* for a MonitoringStack without a CA, the clean-ups are done, and the platform
\* release is stamped if nothing was left out or refused; or else a list call of
\* buildTemplateData has failed, and the status says so.
FeaturesConverge ==
    <>[][UNCHANGED <<spec, clusterVars>>]_vars =>
        \/ <>[](Configured =>
                  /\ live \subseteq renderedObjects(spec)
                  /\ renderedObjects(spec) \ live
                         \subseteq IF AwaitsCA THEN {"MonitoringStack"} ELSE {}
                  /\ guarded["policy"] # "ours"
                  /\ rbacRendered(spec) \/ guarded["rbac"] # "ours"
                  /\ AwaitsCA \/ (spec.logs /\ refused) \/ status.platform = platform)
        \/ <>[]ConfigurationErrorReported
=============================================================================
