-------------------------- MODULE DocumentedClaims --------------------------
(***************************************************************************)
(* What comments and documents of the repository say of the reconcile      *)
(* round, stated over its model, where the code does something else. Each  *)
(* of them is refuted by a run.                                            *)
(***************************************************************************)
EXTENDS MonitoringReconciler

\* api/v1alpha1/monitoring_types.go:290, :295: an endpoint is populated when its
\* storage is configured and its LokiStack is ready. Stated for a controller at
\* rest, and as weakly as it goes: the endpoint's stack exists.
PublishedEndpointHasStack ==
    Quiescent => \A p \in status.endpoints : Stack(p) \in live

\* actions.go:750: withholding freezes the pipeline as one unit, and it resumes
\* when the storage is fixed: the round that finds the storage fixed and the
\* stack ready does not take down the collector that the freeze has kept.
PipelineResumesWhenStorageFixed ==
    [][/\ pc = "sweep" /\ pc' = "patch"
       /\ status.conds["UsageLogsLokiStackAvailable"] = "StorageConflict"
       /\ round.status.conds["UsageLogsLokiStackAvailable"] = "True"
       => \A o \in ShipperObjects("usageLogs") : o \in live => o \in live']_vars

\* actions.go:168: if either CRD is missing mark both conditions false.
BothMetricsConditionsFalse ==
    pc = "deploy" /\ round.spec.metricsStorage /\ MonitoringStack \notin round.desired
        => \A c \in DOMAIN MetricsCRD : round.status.conds[c] \in Failing

\* docs/ARCHITECTURE.md:52: no retry is needed after missing operators, the CRD
\* watch triggers another round when they are installed. So a controller at rest
\* does not report operators missing that are all there.
InstalledOperatorsNoticed ==
    Quiescent /\ cr = "live" /\ requiredOperators(spec) \subseteq operators
        => status.conds["MonitoringDependenciesReady"] # "False"
=============================================================================
