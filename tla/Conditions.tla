----------------------------- MODULE Conditions -----------------------------
(***************************************************************************)
(* The conditions manager of internal/controller/conditions: what a        *)
(* condition of the Monitoring status can say, and how the top-level       *)
(* conditions Ready, ProvisioningSucceeded and Degraded are derived from   *)
(* the feature conditions.                                                 *)
(*                                                                         *)
(* A condition is abstracted to one value, its verdict: its status         *)
(* together with the severity and with the two reasons that the controller *)
(* (or a property) tells apart.                                            *)
(***************************************************************************)

\* The two log pipelines, in the order of lokiComponents.
Pipelines == {"usageLogs", "logs"}

\* The condition of a pipeline's LokiStack, and of the workload shipping to it.
StackCondition == [usageLogs |-> "UsageLogsLokiStackAvailable",
                   logs      |-> "LokiStackAvailable"]

ShipperCondition == [usageLogs |-> "UsageLogsCollectorAvailable",
                     logs      |-> "ClusterLogForwarderAvailable"]

\* The CRD that each metrics condition reports on.
MetricsCRD == [MonitoringStackAvailable |-> "MonitoringStack",
               ThanosQuerierAvailable   |-> "ThanosQuerier"]

\* The feature conditions that take part in the aggregation.
FeatureConditions ==
    {"UsageLogsLokiStackAvailable", "LokiStackAvailable",
     "UsageLogsCollectorAvailable", "ClusterLogForwarderAvailable",
     "MonitoringStackAvailable", "ThanosQuerierAvailable"}

ConditionTypes ==
    FeatureConditions \cup
    {"MonitoringDependenciesReady", "Ready", "ProvisioningSucceeded", "Degraded"}

\* Status False at error severity, with the reasons that matter later.
Failing == {"False", "StorageConflict", "CredentialNotFound"}

\* "Absent": the condition is not there; "Info": False at info severity.
Verdicts == {"Absent", "True", "Info", "Unknown"} \cup Failing

Mark(conds, type, verdict) == [conds EXCEPT ![type] = verdict]

MarkTopLevel(conds, ready, provisioned, degraded) ==
    [conds EXCEPT !["Ready"] = ready,
                  !["ProvisioningSucceeded"] = provisioned,
                  !["Degraded"] = degraded]

\* The aggregation over the feature conditions in fs that AggregateReady makes
\* once the dependencies are there.
AggregateOver(fs, conds) ==
    IF \E f \in fs : conds[f] \in Failing
    THEN MarkTopLevel(conds, "False", "True", "True")
    ELSE IF \E f \in fs : conds[f] = "Unknown"
    THEN MarkTopLevel(conds, "Unknown", "True", "False")
    ELSE MarkTopLevel(conds, "True", "True", "False")

\* AggregateReady without the look at the dependencies.
AggregateReady_SkipsDependencies(conds) == AggregateOver(FeatureConditions, conds)

AggregateReady(conds) ==
    IF conds["MonitoringDependenciesReady"] # "True"
    THEN MarkTopLevel(conds, "False", "False", "False")
    ELSE AggregateOver(FeatureConditions, conds)

\* The deferred handler of reconcile when the round returns an error.
MarkReconcileFailed(conds) == MarkTopLevel(conds, "False", "False", "True")

\* An early exit leaving Ready as it was.
MarkStopped_KeepsReady(conds) ==
    MarkTopLevel(conds, conds["Ready"], "False", "False")

\* The early exits that return no error (Removed, namespace mismatch,
\* configuration error).
MarkStopped(conds) == MarkTopLevel(conds, "False", "False", "False")
=============================================================================
