--------------------------- MODULE FeatureProofs ---------------------------
(***************************************************************************)
(* Proofs of the safety properties of the feature rounds, for any specs,   *)
(* operators, CRDs and platform versions and for any number of edits,      *)
(* failed calls, restarts and objects taken over by users.                 *)
(***************************************************************************)
EXTENDS FeatureReconciler, TLAPS

-----------------------------------------------------------------------------
(* Types *)

Conds == [Types -> Verdicts]

\* The type invariant in parts: the CR, the objects, the rest of the cluster and
\* the round.
CROK == spec \in SpecType /\ status \in StatusType

ObjectsOK == live \in SUBSET Objects /\ collector \in CollectorType

FlagsOK == queued \in BOOLEAN /\ timer \in BOOLEAN /\ korrel8r \in BOOLEAN

ClusterOK ==
    /\ guarded \in GuardedType
    /\ operators \in SUBSET Operators
    /\ crds \in SUBSET CRDs
    /\ platform \in Versions \cup {NoVersion}
    /\ caInjected \in BOOLEAN /\ refused \in BOOLEAN
    /\ applied \in SUBSET (Versions \cup {NoVersion})

RoundOK ==
    /\ pc \in {"idle", "render", "token", "deploy", "policy", "sweep", "rbac", "patch"}
    /\ round \in RoundType
    /\ pc \in {"token", "deploy", "policy", "sweep"} => round.spec.managed

ChangesOK == changes \in 0..MaxChanges

\* The parts make up the whole.
LEMMA TypeParts ==
    TypeOK <=> CROK /\ ObjectsOK /\ FlagsOK /\ ClusterOK /\ RoundOK /\ ChangesOK
BY DEF TypeOK, CROK, ObjectsOK, FlagsOK, ClusterOK, RoundOK, ChangesOK

\* The conditions of this model.
LEMMA TypeNames ==
    /\ {"MonitoringDependenciesReady", "Ready", "ProvisioningSucceeded", "Degraded"}
          \subseteq Types
    /\ {"PersesPrometheusDataSourceAvailable", "MonitoringStackAvailable"} \subseteq Types
    /\ FeatureTypes \subseteq Types
    /\ {"Absent", "True", "Info", "Unknown", "False"} \subseteq Verdicts
<1>1. /\ 1 \in DOMAIN Features /\ Features[1] = "MonitoringStackAvailable"
      /\ 10 \in DOMAIN Features /\ Features[10] = "PersesPrometheusDataSourceAvailable"
  BY DEF Features
<1>2. {"PersesPrometheusDataSourceAvailable", "MonitoringStackAvailable"} \subseteq FeatureTypes
  BY <1>1 DEF FeatureTypes
<1> QED BY <1>2 DEF Types, Verdicts, Failing

\* The ways to mark conditions.
LEMMA MarkTypes ==
    ASSUME NEW conds \in Conds
    PROVE  /\ \A c \in Types, v \in Verdicts : Mark(conds, c, v) \in Conds
           /\ \A r, p, d \in Verdicts : MarkTopLevel(conds, r, p, d) \in Conds
BY TypeNames DEF Conds, Mark, MarkTopLevel

\* The derived top-level conditions.
LEMMA TopLevelTypes ==
    ASSUME NEW conds \in Conds
    PROVE  /\ AggregateOver(FeatureTypes, conds) \in Conds
           /\ MarkReconcileFailed(conds) \in Conds
           /\ MarkStopped(conds) \in Conds
BY MarkTypes, TypeNames DEF AggregateOver, MarkReconcileFailed, MarkStopped

\* Every feature reports a verdict.
LEMMA VerdictType ==
    ASSUME NEW f \in FeatureTypes, NEW s
    PROVE  verdict(f, s) \in Verdicts
<1>1. \A c, n : Available(c, n) \in Verdicts
  BY TypeNames DEF Available
<1>2. openTelemetryCollectorVerdict(s) \in Verdicts
  BY TypeNames DEF openTelemetryCollectorVerdict
<1>3. korrel8rVerdict(s) \in Verdicts
  BY TypeNames DEF korrel8rVerdict
<1>4. f \in {"MonitoringStackAvailable", "InstrumentationAvailable", "TempoAvailable",
             "OpenTelemetryCollectorAvailable", "AlertingAvailable",
             "NodeMetricsEndpointAvailable", "Korrel8rAvailable", "PersesAvailable",
             "PersesTempoDataSourceAvailable", "PersesPrometheusDataSourceAvailable"}
  BY DEF FeatureTypes, Features
<1> QED BY <1>1, <1>2, <1>3, <1>4 DEF verdict

\* So does a rendering pass, however far it gets.
LEMMA MarkedType ==
    ASSUME NEW conds \in Conds, NEW s, NEW k \in 0..Len(Features)
    PROVE  Marked(conds, s, k) \in Conds
<1>1. ASSUME NEW c \in Types, NEW i \in 1..k, c = Features[i]
      PROVE  verdict(c, s) \in Verdicts
  <2>1. i \in DOMAIN Features
    BY <1>1 DEF Features
  <2> QED BY <1>1, <2>1, VerdictType DEF FeatureTypes
<1> QED BY <1>1 DEF Marked, Conds

\* The objects after a step.
LEMMA SetObjectsType ==
    ASSUME ObjectsOK, NEW objs \in SUBSET Objects, NEW new, NEW s \in SpecType,
           SetObjects(objs, new, s)
    PROVE  ObjectsOK'
<1>1. ConfigOf(s) \in {<<m, t>> : m \in {"none", "exporters", "storage"},
                                  t \in {"none", "exporters", "pv", "object"}}
  BY DEF ConfigOf, SpecType
<1>2. NoCollector \in CollectorType
  BY DEF NoCollector, CollectorType
<1>3. [config |-> ConfigOf(s),
       ready  |-> IF collector.ready = "never" THEN "never" ELSE "older"] \in CollectorType
  BY <1>1 DEF CollectorType
<1> QED BY <1>2, <1>3 DEF SetObjects, ObjectsOK

\* The rounds that start, and the one that is none.
LEMMA EmptyTypes ==
    /\ EmptySpec \in SpecType
    /\ EmptyStatus \in StatusType
    /\ NoCollector \in CollectorType
    /\ platform \in Versions \cup {NoVersion} => NoRound \in RoundType
<1>1. EmptySpec \in SpecType
  BY DEF EmptySpec, SpecType
<1>2. EmptyStatus \in StatusType
  BY TypeNames DEF EmptyStatus, StatusType
<1>3. NoCollector \in CollectorType
  BY DEF NoCollector, CollectorType
<1>4. platform \in Versions \cup {NoVersion} => NoRound \in RoundType
  BY <1>1, <1>2 DEF NoRound, RoundOf, RoundType
<1> QED BY <1>1, <1>2, <1>3, <1>4

\* The initial states are well typed.
LEMMA TypeInit == Init => TypeOK
<1> SUFFICES ASSUME Init PROVE TypeOK
    OBVIOUS
<1>1. CROK
  BY EmptyTypes, FeatureAssumptions DEF Init, CROK
<1>2. ObjectsOK
  BY EmptyTypes DEF Init, ObjectsOK
<1>3. FlagsOK
  BY DEF Init, FlagsOK
<1>4. ClusterOK
  BY FeatureAssumptions DEF Init, ClusterOK, GuardedType, Guarded
<1>5. RoundOK
  BY EmptyTypes DEF Init, RoundOK
<1>6. ChangesOK
  BY FeatureAssumptions DEF Init, ChangesOK
<1> QED BY <1>1, <1>2, <1>3, <1>4, <1>5, <1>6, TypeParts

\* Steps that leave the CR alone: all but the patch of its status and its edits.
Others ==
    \/ Begin \/ CleanupRemoved \/ Stop \/ Render \/ DeleteToken \/ Deploy \/ DeployRejected
    \/ DeletePolicy \/ Sweep \/ DeleteRBAC
    \/ TimerFires \/ CollectorAdmitted \/ Korrel8rStarts
    \/ Fault \/ CRDsChange \/ PlatformPublishes \/ CAChanges \/ SecretsChange
    \/ PolicyRecreated \/ Korrel8rFails
    \/ \E g \in Guarded : UserTakes(g) \/ UserDrops(g)

\* Next in these terms.
LEMMA Steps == Next => Others \/ PatchStatus \/ EditMonitoring
BY DEF Next, RoundStep, Disturbance, Others

\* They do leave it alone.
LEMMA OthersKeepCR == Others => UNCHANGED <<spec, status>>
BY DEF Others, Fault, GateReadFails, RenderWith, Begin, CleanupRemoved, Stop, Render,
       DeleteToken, Deploy, DeployRejected,
       DeletePolicy, Sweep, DeleteRBAC, RBACRemains, TimerFires, CollectorAdmitted, Korrel8rStarts,
       Korrel8rFails, Korrel8rBecomes, BuildTemplateDataFails, RenderFails, DeleteFails,
       DeployFails, DeployAborts, SweepFails, DeleteRBACFails, RoundLost, Restart, CRDsChange,
       PlatformPublishes, CAChanges, SecretsChange, PolicyRecreated, UserTakes, UserDrops, crVars

\* The patched status is that of the round.
LEMMA CRStep == CROK /\ RoundOK /\ [Next]_vars => CROK'
<1> SUFFICES ASSUME CROK, RoundOK, [Next]_vars PROVE CROK'
    OBVIOUS
<1>1. CASE UNCHANGED vars \/ Others
  BY <1>1, OthersKeepCR DEF vars, crVars, CROK
<1>2. CASE PatchStatus
  <2>1. round.status \in StatusType /\ round.current \in BOOLEAN
    BY DEF RoundOK, RoundType
  <2>2. [round.status EXCEPT !.observed = round.current] \in StatusType
    BY <2>1 DEF StatusType
  <2> QED BY <1>2, <2>2 DEF PatchStatus, CROK
<1>3. CASE EditMonitoring
  <2>1. [status EXCEPT !.observed = FALSE] \in StatusType
    BY DEF CROK, StatusType
  <2> QED BY <1>3, <2>1, FeatureAssumptions DEF EditMonitoring, CROK
<1> QED BY <1>1, <1>2, <1>3, Steps

\* Nothing but what a round rendered, or what was there, is ever there.
LEMMA ObjectsStep == CROK /\ RoundOK /\ ObjectsOK /\ [Next]_vars => ObjectsOK'
<1> SUFFICES ASSUME CROK, RoundOK, ObjectsOK, [Next]_vars PROVE ObjectsOK'
    OBVIOUS
<1>0. /\ live \in SUBSET Objects /\ round.desired \in SUBSET Objects
      /\ round.spec \in SpecType /\ spec \in SpecType /\ EmptySpec \in SpecType
  BY EmptyTypes DEF CROK, RoundOK, RoundType, ObjectsOK
<1>1. CASE \/ UNCHANGED vars \/ PatchStatus \/ EditMonitoring
           \/ Begin \/ Stop \/ DeleteToken \/ DeletePolicy \/ DeleteRBAC \/ TimerFires
           \/ BuildTemplateDataFails \/ DeleteFails \/ DeleteRBACFails \/ RoundLost \/ Restart
           \/ PlatformPublishes \/ CAChanges \/ SecretsChange \/ PolicyRecreated
           \/ \E g \in Guarded : UserTakes(g) \/ UserDrops(g)
  <2>1. UNCHANGED <<live, collector>>
    BY <1>1 DEF vars, objectVars, PatchStatus, EditMonitoring, Begin, Stop, DeleteToken,
                DeletePolicy, DeleteRBAC, RBACRemains, TimerFires, BuildTemplateDataFails,
                DeleteFails, DeleteRBACFails, RoundLost, Restart, PlatformPublishes, CAChanges,
                SecretsChange,
                PolicyRecreated, UserTakes, UserDrops
  <2> QED BY <2>1 DEF ObjectsOK
<1>2. CASE Korrel8rStarts \/ Korrel8rFails
  BY <1>2 DEF Korrel8rStarts, Korrel8rFails, Korrel8rBecomes, ObjectsOK
<1>3. CASE CollectorAdmitted
  BY <1>3 DEF CollectorAdmitted, ObjectsOK, CollectorType
<1>4. CASE CleanupRemoved
  BY <1>0, <1>4, SetObjectsType DEF CleanupRemoved
<1>5. CASE Render \/ GateReadFails
  BY <1>0, <1>5, SetObjectsType DEF Render, GateReadFails, RenderWith
<1>6. CASE RenderFails
  BY <1>0, <1>6, SetObjectsType DEF RenderFails
<1>7. CASE Deploy
  BY <1>0, <1>7, SetObjectsType DEF Deploy, deployResources
<1>8. CASE DeployRejected \/ DeployFails
  <2>1. PICK new \in SUBSET round.desired : SetObjects(live \cup new, new, round.spec)
    BY <1>8 DEF DeployRejected, DeployFails, DeployAborts, deployResources
  <2> QED BY <1>0, <2>1, SetObjectsType
<1>9. CASE Sweep
  BY <1>0, <1>9, SetObjectsType DEF Sweep
<1>10. CASE SweepFails
  BY <1>0, <1>10, SetObjectsType DEF SweepFails
<1>11. CASE CRDsChange
  BY <1>0, <1>11, SetObjectsType DEF CRDsChange
<1> QED BY <1>1, <1>2, <1>3, <1>4, <1>5, <1>6, <1>7, <1>8, <1>9, <1>10, <1>11, Steps
           DEF Others, Fault

\* Flags are set to what comparisons yield.
LEMMA FlagsStep == FlagsOK /\ [Next]_vars => FlagsOK'
<1> SUFFICES ASSUME FlagsOK, [Next]_vars PROVE FlagsOK'
    OBVIOUS
<1> USE DEF FlagsOK
<1>1. CASE UNCHANGED vars
  BY <1>1 DEF vars, queueVars, objectVars
<1>2. CASE Begin \/ Stop \/ DeleteToken \/ DeletePolicy \/ BuildTemplateDataFails \/ DeleteFails
  BY <1>2 DEF Begin, Stop, DeleteToken, DeletePolicy, BuildTemplateDataFails, DeleteFails,
              queueVars, objectVars
<1>3. CASE DeleteRBAC \/ DeleteRBACFails
  BY <1>3 DEF DeleteRBAC, DeleteRBACFails, RBACRemains, queueVars, objectVars
<1>4. CASE CleanupRemoved \/ Render \/ GateReadFails \/ RenderFails
  BY <1>4 DEF CleanupRemoved, Render, GateReadFails, RenderWith, RenderFails, SetObjects,
              ObjectEvents
<1>5. CASE Deploy \/ DeployRejected \/ DeployFails
  BY <1>5 DEF Deploy, DeployRejected, DeployFails, DeployAborts, SetObjects, ObjectEvents
<1>6. CASE Sweep \/ SweepFails
  BY <1>6 DEF Sweep, SweepFails, SetObjects, ObjectEvents
<1>7. CASE PatchStatus
  BY <1>7 DEF PatchStatus, Return, objectVars
<1>8. CASE RoundLost \/ Restart \/ TimerFires \/ EditMonitoring \/ PlatformPublishes
           \/ CAChanges \/ SecretsChange
  BY <1>8 DEF RoundLost, Restart, Return, TimerFires, EditMonitoring, PlatformPublishes,
              CAChanges, SecretsChange,
              queueVars, objectVars
<1>9. CASE CollectorAdmitted \/ Korrel8rStarts \/ Korrel8rFails \/ PolicyRecreated
  BY <1>9 DEF CollectorAdmitted, Korrel8rStarts, Korrel8rFails, Korrel8rBecomes,
              PolicyRecreated, queueVars, objectVars
<1>10. CASE CRDsChange
  BY <1>10 DEF CRDsChange, SetObjects
<1>11. ASSUME NEW g \in Guarded, UserTakes(g) \/ UserDrops(g)
       PROVE  FlagsOK'
  BY <1>11 DEF UserTakes, UserDrops, objectVars
<1> QED BY <1>1, <1>2, <1>3, <1>4, <1>5, <1>6, <1>7, <1>8, <1>9, <1>10, <1>11, Steps
           DEF Others, Fault

\* Removing an object leaves the others.
LEMMA RemoveType ==
    ASSUME guarded \in GuardedType, NEW g \in Guarded, Remove(g)
    PROVE  /\ guarded' \in GuardedType
           /\ guarded'[g] = "absent"
           /\ \A h \in Guarded \ {g} : guarded'[h] = guarded[h]
BY DEF Remove, GuardedType, Guarded

\* What the environment publishes and what users leave behind.
LEMMA ClusterStep == RoundOK /\ ClusterOK /\ [Next]_vars => ClusterOK'
<1> SUFFICES ASSUME RoundOK, ClusterOK, [Next]_vars PROVE ClusterOK'
    OBVIOUS
<1>0. guarded \in GuardedType
  BY DEF ClusterOK
<1>1. CASE \/ UNCHANGED vars \/ PatchStatus \/ EditMonitoring
           \/ Begin \/ CleanupRemoved \/ Stop \/ Render \/ DeployRejected \/ Sweep
           \/ TimerFires \/ CollectorAdmitted \/ Korrel8rStarts \/ Korrel8rFails
           \/ Fault
  BY <1>1 DEF Fault, GateReadFails, RenderWith, vars, clusterVars, PatchStatus, EditMonitoring,
              Begin, CleanupRemoved, Stop,
              Render, DeployRejected, DeployAborts, Sweep, TimerFires, CollectorAdmitted,
              Korrel8rStarts, Korrel8rFails, Korrel8rBecomes, BuildTemplateDataFails, RenderFails,
              DeleteFails, DeployFails, SweepFails, DeleteRBACFails, RBACRemains, RoundLost,
              Restart, ClusterOK
<1>2. CASE DeleteToken
  <2>1. guarded' \in GuardedType
    BY <1>0, <1>2, RemoveType DEF DeleteToken, Guarded
  <2> QED BY <1>2, <2>1 DEF DeleteToken, clusterVars, ClusterOK
<1>3. CASE DeletePolicy
  <2>1. guarded' \in GuardedType
    BY <1>0, <1>3, RemoveType DEF DeletePolicy, Guarded
  <2> QED BY <1>3, <2>1 DEF DeletePolicy, clusterVars, ClusterOK
<1>4. CASE DeleteRBAC
  <2>1. guarded' \in GuardedType
    BY <1>0, <1>4, RemoveType DEF DeleteRBAC, RBACRemains, Guarded
  <2> QED BY <1>4, <2>1 DEF DeleteRBAC, RBACRemains, clusterVars, ClusterOK
<1>5. CASE Deploy
  <2>1. guarded' \in GuardedType
    BY <1>0, <1>5 DEF Deploy, GuardedType, Guarded
  <2>2. round.platform \in Versions \cup {NoVersion}
    BY DEF RoundOK, RoundType
  <2> QED BY <1>5, <2>1, <2>2 DEF Deploy, clusterVars, ClusterOK
<1>6. CASE CRDsChange \/ PlatformPublishes \/ CAChanges \/ SecretsChange
  BY <1>6, FeatureAssumptions DEF CRDsChange, PlatformPublishes, CAChanges, SecretsChange, ClusterOK
<1>7. CASE PolicyRecreated
  <2>1. guarded' \in GuardedType
    BY <1>0, <1>7 DEF PolicyRecreated, GuardedType, Guarded
  <2> QED BY <1>7, <2>1 DEF PolicyRecreated, clusterVars, ClusterOK
<1>8. ASSUME NEW g \in Guarded, UserTakes(g) \/ UserDrops(g)
      PROVE  ClusterOK'
  <2>1. guarded' \in GuardedType
    BY <1>0, <1>8, RemoveType DEF UserTakes, UserDrops, GuardedType, Guarded
  <2> QED BY <1>8, <2>1 DEF UserTakes, UserDrops, clusterVars, ClusterOK
<1> QED BY <1>1, <1>2, <1>3, <1>4, <1>5, <1>6, <1>7, <1>8, Steps DEF Others

\* The fields of a round.
LEMMA RoundFields ==
    ASSUME NEW r \in RoundType
    PROVE  /\ r.spec \in SpecType /\ r.status \in StatusType
           /\ r.status.conds \in Conds
           /\ r.status.platform \in Versions \cup {NoVersion}
           /\ r.platform \in Versions \cup {NoVersion}
           /\ r.desired \in SUBSET Objects
           /\ r.caReady \in BOOLEAN /\ r.storageErr \in BOOLEAN
BY DEF RoundType, StatusType, Conds

\* reconcile returns with conditions and a result.
LEMMA EndRoundType ==
    ASSUME round \in RoundType, NEW c \in Conds, NEW stamp \in BOOLEAN,
           NEW res \in {"done", "requeue", "error"}, EndRound(c, res, stamp)
    PROVE  RoundOK'
<1> DEFINE v == IF stamp /\ round.platform # NoVersion THEN round.platform
                ELSE round.status.platform
           st == [round.status EXCEPT !.conds = c, !.platform = v]
<1>1. v \in Versions \cup {NoVersion}
  BY RoundFields
<1>2. round' = [round EXCEPT !.status = st, !.held = FALSE, !.result = res]
  BY RoundFields DEF EndRound, RoundType, StatusType
<1> HIDE DEF v
<1>3. st \in StatusType
  BY <1>1, RoundFields DEF StatusType, Conds
<1> HIDE DEF st
<1>4. round' \in RoundType
  BY <1>2, <1>3 DEF RoundType
<1> QED BY <1>4 DEF EndRound, RoundOK

\* An error ends it with the failure marked,
LEMMA AbortType ==
    ASSUME round \in RoundType, NEW c \in Conds, Abort(c)
    PROVE  RoundOK'
<1>1. MarkReconcileFailed(c) \in Conds
  BY TopLevelTypes
<1> QED BY <1>1, EndRoundType DEF Abort

\* an early return with what it waits for,
LEMMA StoppedType ==
    ASSUME round \in RoundType, NEW c \in Conds, Stopped(c)
    PROVE  RoundOK'
BY EndRoundType DEF Stopped

\* and a complete round with the aggregate.
LEMMA FinishType ==
    ASSUME round \in RoundType, NEW gcFailed, NEW synced, Finish(gcFailed, synced)
    PROVE  RoundOK'
<1>1. FinalConds(synced) \in Conds
  BY RoundFields, MarkTypes, TopLevelTypes, TypeNames DEF FinalConds
<1>2. Mark(FinalConds(synced), "ProvisioningSucceeded", "False") \in Conds
  BY <1>1, MarkTypes, TypeNames
<1>3. CASE round.storageErr
  BY <1>1, <1>3, AbortType DEF Finish
<1>4. CASE ~round.storageErr
  <2>1. PICK c \in Conds, res \in {"done", "requeue", "error"} : EndRound(c, res, round.caReady)
    BY <1>1, <1>2, <1>4 DEF Finish
  <2> QED BY <2>1, RoundFields, EndRoundType
<1> QED BY <1>3, <1>4

\* A round carries well-typed conditions, objects and versions to its end.
LEMMA RoundTypeStep == CROK /\ ClusterOK /\ RoundOK /\ [Next]_vars => RoundOK'
<1> SUFFICES ASSUME CROK, ClusterOK, RoundOK, [Next]_vars PROVE RoundOK'
    OBVIOUS
<1> DEFINE conds == round.status.conds
           before == status.conds["PersesPrometheusDataSourceAvailable"]
<1>0. /\ round \in RoundType /\ conds \in Conds /\ before \in Verdicts
      /\ WithDependencies \in Conds
      /\ RemovedConds \in Conds
      /\ MarkStopped(WithDependencies) \in Conds
      /\ MarkStopped(Mark(conds, "MonitoringDependenciesReady", "False")) \in Conds
      /\ [conds EXCEPT !["PersesPrometheusDataSourceAvailable"] = before] \in Conds
  <2>1. round \in RoundType /\ conds \in Conds
    BY RoundFields DEF RoundOK
  <2>2. before \in Verdicts
    BY TypeNames DEF CROK, StatusType
  <2>3. /\ WithDependencies \in Conds
        /\ Mark(conds, "MonitoringDependenciesReady", "Info") \in Conds
        /\ Mark(conds, "MonitoringDependenciesReady", "False") \in Conds
    BY <2>1, MarkTypes, TypeNames DEF WithDependencies
  <2>4. [conds EXCEPT !["PersesPrometheusDataSourceAvailable"] = before] \in Conds
    BY <2>1, <2>2, TypeNames DEF Conds
  <2> QED BY <2>1, <2>2, <2>3, <2>4, TopLevelTypes DEF RemovedConds
<1> HIDE DEF before
<1>1. CASE \/ UNCHANGED vars \/ DeletePolicy \/ TimerFires \/ CollectorAdmitted \/ Korrel8rStarts
           \/ Korrel8rFails \/ CRDsChange \/ PlatformPublishes \/ CAChanges \/ SecretsChange
  BY <1>1 DEF vars, DeletePolicy, TimerFires, CollectorAdmitted, Korrel8rStarts, Korrel8rFails,
              Korrel8rBecomes, CRDsChange, PlatformPublishes, CAChanges, SecretsChange, RoundOK
<1>2. CASE Begin
  <2>1. RoundOf(spec, status) \in RoundType
    BY DEF CROK, ClusterOK, RoundOf, RoundType
  <2> QED BY <1>2, <2>1 DEF Begin, RoundOK
<1>3. CASE PatchStatus \/ RoundLost \/ Restart
  <2>1. NoRound \in RoundType
    BY EmptyTypes DEF ClusterOK
  <2> QED BY <1>3, <2>1 DEF PatchStatus, RoundLost, Restart, Return, RoundOK
<1>4. ASSUME NEW b \in BOOLEAN
      PROVE  /\ [round EXCEPT !.held = b] \in RoundType
             /\ [round EXCEPT !.held = b].spec = round.spec
  BY <1>0, <1>4 DEF RoundType
<1>5. CASE CleanupRemoved
  <2>1. CASE guarded["rbac"] = "ours"
    BY <1>4, <1>5, <2>1 DEF CleanupRemoved, RoundOK
  <2>2. CASE guarded["rbac"] # "ours"
    BY <1>0, <1>5, <2>2, EndRoundType DEF CleanupRemoved
  <2> QED BY <2>1, <2>2
<1>6. CASE Stop \/ BuildTemplateDataFails
  BY <1>0, <1>6, StoppedType DEF Stop, BuildTemplateDataFails
<1>7. ASSUME NEW err \in BOOLEAN, round.spec.managed, RenderWith(err) PROVE RoundOK'
  <2> DEFINE all == Marked(WithDependencies, round.spec, Len(Features))
             ca == "MonitoringStack" \in renderedObjects(round.spec) => caInjected
             c == IF ca THEN all ELSE Mark(all, "MonitoringStackAvailable", "False")
             d == renderedObjects(round.spec)
             b == rbacRendered(round.spec)
             st == [round.status EXCEPT !.conds = c]
  <2>1. c \in Conds
    <3>1. all \in Conds
      BY <1>0, MarkedType DEF Features
    <3> QED BY <3>1, MarkTypes, TypeNames
  <2>2. d \in SUBSET Objects /\ ca \in BOOLEAN
    BY DEF renderedObjects, ClusterOK
  <2>3. b \in BOOLEAN
    BY DEF rbacRendered
  <2>4. round' = [round EXCEPT !.status = st, !.desired = d, !.rbac = b, !.caReady = ca,
                               !.storageErr = err, !.held = TRUE]
    BY <1>0, <1>7 DEF RenderWith, RoundType
  <2>5. pc' \in {"token", "deploy"}
    BY <1>7 DEF RenderWith
  <2> HIDE DEF c, d, b, ca
  <2>6. st \in StatusType
    BY <1>0, <2>1, RoundFields DEF StatusType, Conds
  <2> HIDE DEF st
  <2>7. round' \in RoundType /\ round'.spec = round.spec
    BY <1>0, <2>2, <2>3, <2>4, <2>6 DEF RoundType
  <2> QED BY <1>7, <2>5, <2>7 DEF RoundOK
<1>21. CASE Render \/ GateReadFails
  <2>1. (refused /\ round.spec.logs) \in BOOLEAN /\ TRUE \in BOOLEAN
    OBVIOUS
  <2> QED BY <1>7, <1>21, <2>1 DEF Render, GateReadFails
<1>8. CASE RenderFails
  <2>1. CASE Abort(conds)
    BY <1>0, <2>1, AbortType
  <2>2. ASSUME NEW k \in 0..Len(Features), Abort(Marked(WithDependencies, round.spec, k))
        PROVE  RoundOK'
    BY <1>0, <2>2, AbortType, MarkedType
  <2> QED BY <1>8, <2>1, <2>2 DEF RenderFails
<1>9. CASE DeleteToken
  <2>1. CASE Conflicts("token")
    BY <1>0, <1>9, <2>1, AbortType DEF DeleteToken, before
  <2>2. CASE ~Conflicts("token")
    BY <1>9, <2>2 DEF DeleteToken, RoundOK
  <2> QED BY <2>1, <2>2
<1>10. CASE Deploy
  <2>1. pc' \in {"policy", "sweep"} /\ round' = [round EXCEPT !.held = TRUE]
    BY <1>10 DEF Deploy
  <2>2. round.spec.managed
    BY <1>10 DEF Deploy, RoundOK
  <2> QED BY <1>4, <2>1, <2>2 DEF RoundOK
<1>11. CASE DeployRejected \/ DeployFails
  BY <1>0, <1>11, AbortType DEF DeployRejected, DeployFails, DeployAborts
<1>12. CASE DeleteFails
  BY <1>0, <1>12, AbortType DEF DeleteFails, before
<1>13. CASE Sweep
  <2>1. CASE guarded["rbac"] = "ours" /\ ~round.rbac
    BY <1>4, <1>13, <2>1 DEF Sweep, RoundOK
  <2>2. CASE ~(guarded["rbac"] = "ours" /\ ~round.rbac)
    BY <1>0, <1>13, <2>2, FinishType DEF Sweep
  <2> QED BY <2>1, <2>2
<1>14. CASE SweepFails
  BY <1>0, <1>14, FinishType DEF SweepFails
<1>15. ASSUME RBACRemains PROVE RoundOK'
  BY <1>0, <1>15, FinishType, AbortType DEF RBACRemains
<1>16. CASE DeleteRBACFails
  BY <1>15, <1>16 DEF DeleteRBACFails
<1>17. CASE DeleteRBAC
  BY <1>0, <1>15, <1>17, FinishType, EndRoundType DEF DeleteRBAC
<1>18. CASE EditMonitoring
  BY <1>0, <1>18 DEF EditMonitoring, RoundOK, RoundType
<1>19. ASSUME NEW g, Touched(g), UNCHANGED pc PROVE RoundOK'
  <2>1. (round.held /\ pc # g) \in BOOLEAN
    OBVIOUS
  <2>2. round' = [round EXCEPT !.held = (round.held /\ pc # g)]
    BY <1>19 DEF Touched
  <2> QED BY <1>4, <1>19, <2>1, <2>2 DEF RoundOK
<1>20. CASE PolicyRecreated \/ \E g \in Guarded : UserTakes(g) \/ UserDrops(g)
  BY <1>19, <1>20 DEF PolicyRecreated, UserTakes, UserDrops
<1> QED BY <1>1, <1>2, <1>3, <1>5, <1>6, <1>21, <1>8, <1>9, <1>10, <1>11, <1>12, <1>13, <1>14,
           <1>16, <1>17, <1>18, <1>20, Steps DEF Others, Fault

\* The variables of the feature rounds keep their types: among others, a status
\* has a verdict for every condition, and a round applies known objects only.
THEOREM FeatureTypeSafe == Spec => []TypeOK
<1>1. TypeOK /\ [Next]_vars => TypeOK'
  <2>1. ChangesOK /\ [Next]_vars => ChangesOK'
    BY FeatureAssumptions DEF Next, RoundStep, vars, ChangesOK
  <2> QED BY <2>1, TypeParts, CRStep, ObjectsStep, FlagsStep, ClusterStep, RoundTypeStep, PTL
<1> QED BY <1>1, TypeInit, PTL DEF Spec

-----------------------------------------------------------------------------
(* The guarded objects *)

\* The inductive invariant behind ForeignKept: as long as nothing has touched the
\* object a round is about to delete, it is the one that the round verified.
HeldInv ==
    /\ guarded \in GuardedType
    /\ pc = "token" /\ round.held => guarded["token"] = "ours"
    /\ pc = "rbac" /\ round.held => guarded["rbac"] = "ours"

\* It holds when the controller starts.
LEMMA HeldInit == Init => HeldInv
BY FeatureAssumptions DEF Init, HeldInv, GuardedType, Guarded

\* A step that ends the round in memory does not touch the guarded objects.
LEMMA HeldPatch ==
    ASSUME HeldInv, pc' \in {"patch", "idle", "render", "deploy", "policy", "sweep"},
           guarded' \in GuardedType
    PROVE  HeldInv'
BY DEF HeldInv

\* A user's doing on the object g is seen by a round that is about to delete it.
LEMMA HeldTouched ==
    ASSUME HeldInv, round \in RoundType, NEW g \in Guarded, Touched(g), UNCHANGED pc,
           guarded' \in GuardedType,
           \A h \in Guarded \ {g} : guarded'[h] = guarded[h]
    PROVE  HeldInv'
<1>1. round'.held = (round.held /\ pc # g)
  BY DEF Touched, RoundType
<1> QED BY <1>1 DEF HeldInv, Guarded

\* Every step preserves it.
LEMMA HeldStep == TypeOK /\ TypeOK' /\ HeldInv /\ [Next]_vars => HeldInv'
<1> SUFFICES ASSUME TypeOK, TypeOK', HeldInv, [Next]_vars PROVE HeldInv'
    OBVIOUS
<1>0. round \in RoundType /\ guarded \in GuardedType /\ guarded' \in GuardedType
  BY DEF TypeOK
<1>1. CASE \/ UNCHANGED vars \/ TimerFires \/ CollectorAdmitted \/ Korrel8rStarts \/ Korrel8rFails
           \/ CRDsChange \/ PlatformPublishes \/ CAChanges \/ SecretsChange
  BY <1>1 DEF vars, TimerFires, CollectorAdmitted, Korrel8rStarts, Korrel8rFails,
              Korrel8rBecomes, CRDsChange, PlatformPublishes, CAChanges, SecretsChange, HeldInv
<1>2. CASE EditMonitoring
  <2>1. round'.held = round.held /\ UNCHANGED <<pc, guarded>>
    BY <1>0, <1>2 DEF EditMonitoring, RoundType
  <2> QED BY <2>1 DEF HeldInv
<1>3. CASE Begin \/ Stop \/ DeleteToken \/ Deploy \/ DeployRejected \/ DeletePolicy \/ DeleteRBAC
           \/ PatchStatus \/ (Fault /\ ~GateReadFails)
  <2>1. pc' \in {"patch", "idle", "render", "deploy", "policy", "sweep"}
    BY <1>3 DEF Fault, Begin, Stop, DeleteToken, Deploy, DeployRejected, DeployAborts,
                DeletePolicy, DeleteRBAC, RBACRemains, PatchStatus, BuildTemplateDataFails,
                RenderFails, DeleteFails, DeployFails, SweepFails, DeleteRBACFails, RoundLost,
                Restart, Return, Stopped, Abort, Finish, EndRound
  <2> QED BY <1>0, <2>1, HeldPatch
<1>4. CASE CleanupRemoved
  <2>1. UNCHANGED guarded /\ (pc' = "patch" \/ (pc' = "rbac" /\ guarded["rbac"] = "ours"))
    BY <1>4 DEF CleanupRemoved, EndRound
  <2> QED BY <1>0, <2>1 DEF HeldInv
<1>5. CASE Render \/ GateReadFails
  <2>1. UNCHANGED guarded /\ (pc' = "deploy" \/ (pc' = "token" /\ guarded["token"] = "ours"))
    BY <1>5 DEF Render, GateReadFails, RenderWith, FindsToken
  <2> QED BY <1>0, <2>1 DEF HeldInv
<1>6. CASE Sweep
  <2>1. UNCHANGED guarded /\ (pc' = "patch" \/ (pc' = "rbac" /\ guarded["rbac"] = "ours"))
    BY <1>6 DEF Sweep, Finish, Abort, EndRound
  <2> QED BY <1>0, <2>1 DEF HeldInv
<1>7. CASE PolicyRecreated
  <2>1. \A h \in Guarded \ {"policy"} : guarded'[h] = guarded[h]
    BY <1>0, <1>7 DEF PolicyRecreated, GuardedType
  <2> QED BY <1>0, <1>7, <2>1, HeldTouched DEF PolicyRecreated, Guarded
<1>8. ASSUME NEW g \in Guarded, UserTakes(g) \/ UserDrops(g)
      PROVE  HeldInv'
  <2>1. Touched(g) /\ UNCHANGED pc
    BY <1>8 DEF UserTakes, UserDrops
  <2>2. \A h \in Guarded \ {g} : guarded'[h] = guarded[h]
    BY <1>0, <1>8 DEF UserTakes, UserDrops, Remove, GuardedType
  <2> QED BY <1>0, <2>1, <2>2, HeldTouched
<1> QED BY <1>1, <1>2, <1>3, <1>4, <1>5, <1>6, <1>7, <1>8, Steps DEF Others

\* The verify-then-delete clean-ups take nobody else's Secret or RBAC, even one
\* that took the place of ours between the read and the delete.
THEOREM UsersObjectsStay == Spec => ForeignKept
<1>1. ASSUME TypeOK, HeldInv, [Next]_vars
      PROVE  [pc' # pc => \A g \in {"token", "rbac"} :
                 guarded[g] = "foreign" => guarded'[g] = "foreign"]_vars
  <2>0. guarded \in GuardedType
    BY <1>1 DEF TypeOK
  <2>1. CASE UNCHANGED vars
    BY <2>1
  <2>2. CASE DeleteToken
    BY <1>1, <2>0, <2>2 DEF DeleteToken, Conflicts, Remove, HeldInv, GuardedType, Guarded
  <2>3. CASE DeleteRBAC
    BY <1>1, <2>0, <2>3 DEF DeleteRBAC, RBACRemains, Conflicts, Remove, HeldInv, GuardedType,
                            Guarded
  <2>4. CASE DeletePolicy
    BY <2>0, <2>4 DEF DeletePolicy, Remove, GuardedType, Guarded
  <2>5. CASE Deploy
    BY <2>0, <2>5 DEF Deploy, GuardedType, Guarded
  <2>6. CASE \/ PatchStatus \/ EditMonitoring \/ Begin \/ CleanupRemoved \/ Stop \/ Render
             \/ DeployRejected \/ Sweep \/ TimerFires \/ CollectorAdmitted \/ Korrel8rStarts
             \/ Korrel8rFails \/ CRDsChange \/ PlatformPublishes \/ CAChanges \/ SecretsChange
             \/ Fault
    BY <2>6 DEF Fault, GateReadFails, RenderWith, PatchStatus, EditMonitoring, Begin,
                CleanupRemoved, Stop, Render,
                DeployRejected, DeployAborts, Sweep, TimerFires, CollectorAdmitted,
                Korrel8rStarts, Korrel8rFails, Korrel8rBecomes, CRDsChange, PlatformPublishes,
                CAChanges, SecretsChange,
                BuildTemplateDataFails, RenderFails, DeleteFails, DeployFails, SweepFails,
                DeleteRBACFails, RBACRemains, RoundLost, Restart
  <2>7. CASE PolicyRecreated \/ \E g \in Guarded : UserTakes(g) \/ UserDrops(g)
    BY <2>7 DEF PolicyRecreated, UserTakes, UserDrops
  <2> QED BY <1>1, <2>1, <2>2, <2>3, <2>4, <2>5, <2>6, <2>7, Steps DEF Others
<1> QED BY <1>1, FeatureTypeSafe, HeldInit, HeldStep, PTL DEF Spec, ForeignKept

-----------------------------------------------------------------------------
(* The platform version *)

\* The inductive invariant behind PlatformVersionEarned: what a status says was
\* earned, and a round that is past the apply has earned the version it read unless
\* it left something out.
EarnedInv ==
    /\ status.platform \in applied \cup {NoVersion}
    /\ round.status.platform \in applied \cup {NoVersion}
    /\ \/ pc \in {"policy", "sweep"}
       \/ pc = "rbac" /\ round.spec.managed
       => (round.caReady /\ ~round.storageErr => round.platform \in applied)

\* It holds when the controller starts.
LEMMA EarnedInit == Init => EarnedInv
BY DEF Init, EarnedInv, NoRound, RoundOf, EmptyStatus

\* The end of a round stamps the version it read, or leaves the one that was there.
LEMMA EarnedEnd ==
    ASSUME TypeOK, EarnedInv, NEW c, NEW res, NEW stamp \in BOOLEAN, EndRound(c, res, stamp),
           stamp => round.platform \in applied, UNCHANGED <<status, applied>>
    PROVE  EarnedInv'
<1>1. round \in RoundType
  BY DEF TypeOK
<1>2. /\ round'.status.platform = IF stamp /\ round.platform # NoVersion THEN round.platform
                                  ELSE round.status.platform
      /\ pc' = "patch"
  BY <1>1 DEF EndRound, RoundType, StatusType
<1> QED BY <1>2 DEF EarnedInv

\* An error or an early return stamps nothing.
LEMMA EarnedAbort ==
    ASSUME TypeOK, EarnedInv, NEW c, Abort(c) \/ Stopped(c), UNCHANGED <<status, applied>>
    PROVE  EarnedInv'
<1> DEFINE no == FALSE
<1>1. no \in BOOLEAN /\ ~no
  OBVIOUS
<1>2. \E d, res : EndRound(d, res, no)
  BY DEF Abort, Stopped
<1> HIDE DEF no
<1> QED BY <1>1, <1>2, EarnedEnd

\* A round that finished stamps only what it has applied in full.
LEMMA EarnedFinish ==
    ASSUME TypeOK, EarnedInv, NEW gcFailed, NEW synced, Finish(gcFailed, synced),
           round.caReady /\ ~round.storageErr => round.platform \in applied,
           UNCHANGED <<status, applied>>
    PROVE  EarnedInv'
<1>1. round.caReady \in BOOLEAN
  BY RoundFields DEF TypeOK
<1>2. CASE round.storageErr
  BY <1>2, EarnedAbort DEF Finish
<1>3. CASE ~round.storageErr
  <2>1. \E d, res : EndRound(d, res, round.caReady)
    BY <1>3 DEF Finish
  <2> QED BY <1>1, <1>3, <2>1, EarnedEnd
<1> QED BY <1>2, <1>3

\* A step that goes on with the same status and version.
LEMMA EarnedFrame ==
    ASSUME EarnedInv, UNCHANGED <<status, applied>>,
           round'.status = round.status \/ round'.status.platform = round.status.platform,
           \/ pc' \in {"token", "deploy"}
           \/ /\ round'.platform = round.platform /\ round'.spec = round.spec
              /\ round'.caReady = round.caReady /\ round'.storageErr = round.storageErr
              /\ pc' = pc \/ (pc = "policy" /\ pc' = "sweep")
    PROVE  EarnedInv'
BY DEF EarnedInv

\* Every step preserves it.
LEMMA EarnedStep == TypeOK /\ EarnedInv /\ [Next]_vars => EarnedInv'
<1> SUFFICES ASSUME TypeOK, EarnedInv, [Next]_vars PROVE EarnedInv'
    OBVIOUS
<1>0. round \in RoundType
  BY DEF TypeOK
<1>1. CASE \/ UNCHANGED vars \/ TimerFires \/ CollectorAdmitted \/ Korrel8rStarts \/ Korrel8rFails
           \/ CRDsChange \/ PlatformPublishes \/ CAChanges \/ SecretsChange \/ DeletePolicy
  <2>1. UNCHANGED <<status, applied, round>> /\ (pc' = pc \/ (pc = "policy" /\ pc' = "sweep"))
    BY <1>1 DEF vars, crVars, TimerFires, CollectorAdmitted, Korrel8rStarts, Korrel8rFails,
                Korrel8rBecomes, CRDsChange, PlatformPublishes, CAChanges, SecretsChange,
                DeletePolicy
  <2> QED BY <2>1, EarnedFrame
<1>2. CASE EditMonitoring
  <2>1. /\ round'.status = round.status /\ round'.platform = round.platform
        /\ round'.caReady = round.caReady /\ round'.storageErr = round.storageErr
        /\ round'.spec = round.spec /\ UNCHANGED <<pc, applied>>
    BY <1>0, <1>2 DEF EditMonitoring, RoundType
  <2>2. status'.platform = status.platform
    BY <1>2 DEF EditMonitoring, TypeOK, StatusType
  <2> QED BY <2>1, <2>2 DEF EarnedInv
<1>3. CASE Begin
  BY <1>3 DEF Begin, crVars, RoundOf, EarnedInv
<1>4. CASE PatchStatus \/ RoundLost \/ Restart
  <2>1. NoRound.status.platform = NoVersion
    BY DEF NoRound, RoundOf, EmptyStatus
  <2>2. pc' = "idle" /\ round' = NoRound /\ UNCHANGED applied
    BY <1>4 DEF PatchStatus, RoundLost, Restart, Return
  <2>3. status'.platform \in {status.platform, round.status.platform}
    BY <1>0, <1>4 DEF PatchStatus, RoundLost, Restart, crVars, RoundType, StatusType
  <2> QED BY <2>1, <2>2, <2>3 DEF EarnedInv
<1>5. CASE CleanupRemoved
  <2>1. CASE guarded["rbac"] = "ours"
    <3>1. /\ pc' = "rbac" /\ UNCHANGED <<status, applied>> /\ ~round.spec.managed
          /\ round'.status = round.status /\ round'.spec = round.spec
      BY <1>0, <1>5, <2>1 DEF CleanupRemoved, crVars, RoundType
    <3> QED BY <3>1 DEF EarnedInv
  <2>2. CASE guarded["rbac"] # "ours"
    <3> DEFINE no == FALSE
    <3>1. no \in BOOLEAN /\ ~no
      OBVIOUS
    <3>2. EndRound(RemovedConds, "done", no) /\ UNCHANGED <<status, applied>>
      BY <1>5, <2>2 DEF CleanupRemoved, crVars
    <3> HIDE DEF no
    <3> QED BY <3>1, <3>2, EarnedEnd
  <2> QED BY <2>1, <2>2
<1>6. CASE Stop \/ BuildTemplateDataFails \/ RenderFails \/ DeployRejected \/ DeployFails
           \/ DeleteFails
  <2>1. UNCHANGED <<status, applied>>
    BY <1>6 DEF Stop, BuildTemplateDataFails, RenderFails, DeployRejected, DeployFails,
                DeployAborts, DeleteFails, crVars
  <2>2. \E c : Abort(c) \/ Stopped(c)
    BY <1>6 DEF Stop, BuildTemplateDataFails, RenderFails, DeployRejected, DeployFails,
                DeployAborts, DeleteFails
  <2> QED BY <2>1, <2>2, EarnedAbort
<1>7. CASE Render \/ GateReadFails
  <2>0. PICK err : RenderWith(err)
    BY <1>7 DEF Render, GateReadFails
  <2>1. round'.status.platform = round.status.platform
    BY <1>0, <2>0 DEF RenderWith, RoundType, StatusType
  <2>2. pc' \in {"token", "deploy"} /\ UNCHANGED <<status, applied>>
    BY <1>7 DEF Render, GateReadFails, RenderWith, crVars
  <2> QED BY <2>1, <2>2, EarnedFrame
<1>8. CASE DeleteToken
  <2>1. UNCHANGED <<status, applied>>
    BY <1>8 DEF DeleteToken, crVars
  <2>2. (\E c : Abort(c)) \/ (pc' = "deploy" /\ UNCHANGED round)
    BY <1>8 DEF DeleteToken
  <2> QED BY <2>1, <2>2, EarnedAbort, EarnedFrame
<1>9. CASE Deploy
  <2>1. /\ round'.status = round.status /\ round'.platform = round.platform
        /\ round'.caReady = round.caReady /\ round'.storageErr = round.storageErr
        /\ applied \subseteq applied' /\ UNCHANGED status
        /\ round.caReady /\ ~round.storageErr => round.platform \in applied'
    BY <1>0, <1>9 DEF Deploy, deployResources, crVars, RoundType
  <2> QED BY <2>1 DEF EarnedInv
<1>10. CASE Sweep
  <2>1. /\ pc = "sweep" /\ UNCHANGED <<status, applied>>
        /\ round.caReady /\ ~round.storageErr => round.platform \in applied
    BY <1>10 DEF Sweep, crVars, EarnedInv
  <2>2. CASE guarded["rbac"] = "ours" /\ ~round.rbac
    <3>1. /\ round'.status = round.status /\ round'.platform = round.platform
          /\ round'.caReady = round.caReady /\ round'.storageErr = round.storageErr
      BY <1>0, <1>10, <2>2 DEF Sweep, RoundType
    <3> QED BY <2>1, <3>1 DEF EarnedInv
  <2>3. CASE ~(guarded["rbac"] = "ours" /\ ~round.rbac)
    BY <1>10, <2>1, <2>3, EarnedFinish DEF Sweep
  <2> QED BY <2>2, <2>3
<1>11. CASE SweepFails
  BY <1>11, EarnedFinish DEF SweepFails, crVars, EarnedInv
<1>12. ASSUME pc = "rbac", RBACRemains PROVE EarnedInv'
  BY <1>12, EarnedFinish, EarnedAbort DEF RBACRemains, crVars, EarnedInv
<1>13. CASE DeleteRBAC
  <2>1. CASE RBACRemains
    BY <1>12, <1>13, <2>1 DEF DeleteRBAC
  <2>2. CASE ~RBACRemains /\ round.spec.managed
    BY <1>13, <2>2, EarnedFinish DEF DeleteRBAC, crVars, EarnedInv
  <2>3. CASE ~RBACRemains /\ ~round.spec.managed
    <3> DEFINE no == FALSE
    <3>1. no \in BOOLEAN /\ ~no
      OBVIOUS
    <3>2. EndRound(RemovedConds, "done", no) /\ UNCHANGED <<status, applied>>
      BY <1>13, <2>3 DEF DeleteRBAC, crVars
    <3> HIDE DEF no
    <3> QED BY <3>1, <3>2, EarnedEnd
  <2> QED BY <2>1, <2>2, <2>3
<1>14. CASE DeleteRBACFails
  BY <1>12, <1>14 DEF DeleteRBACFails
<1>15. CASE PolicyRecreated \/ \E g \in Guarded : UserTakes(g) \/ UserDrops(g)
  <2>1. /\ round'.status = round.status /\ round'.platform = round.platform
        /\ round'.caReady = round.caReady /\ round'.storageErr = round.storageErr
        /\ round'.spec = round.spec
    BY <1>0, <1>15 DEF PolicyRecreated, UserTakes, UserDrops, Touched, RoundType
  <2>2. UNCHANGED <<status, applied, pc>>
    BY <1>15 DEF PolicyRecreated, UserTakes, UserDrops, crVars
  <2> QED BY <2>1, <2>2, EarnedFrame
<1> QED BY <1>1, <1>2, <1>3, <1>4, <1>5, <1>6, <1>7, <1>8, <1>9, <1>10, <1>11, <1>13, <1>14,
           <1>15, Steps DEF Others, Fault

\* The release in the status is one for which a round has applied all that its spec
\* asks for, even if the platform publishes another one in the middle of the round:
\* no round stamps it that leaves out the MonitoringStack or whose log pipelines the
\* storage gate refuses.
THEOREM ReleaseIsEarned == Spec => []PlatformVersionEarned
<1>1. EarnedInv => PlatformVersionEarned
  BY DEF EarnedInv, PlatformVersionEarned
<1> QED BY <1>1, FeatureTypeSafe, EarnedInit, EarnedStep, PTL DEF Spec

-----------------------------------------------------------------------------
(* The legacy tokens *)

\* The inductive invariant behind LegacyTokenGoneFirst: while there are legacy
\* tokens, a round that gets to the apply did not render the datasources.
TokenInv ==
    guarded["token"] = "ours" =>
        /\ "PrometheusDatasources" \notin live
        /\ pc = "deploy" => "PrometheusDatasources" \notin round.desired

\* It holds when the controller starts.
LEMMA TokenInit == Init => TokenInv
BY DEF Init, TokenInv

\* Nothing makes a legacy token.
LEMMA NoNewTokens ==
    ASSUME TypeOK, [Next]_vars, guarded'["token"] = "ours"
    PROVE  guarded["token"] = "ours"
<1>0. guarded \in GuardedType
  BY DEF TypeOK
<1>1. CASE \/ UNCHANGED vars \/ PatchStatus \/ EditMonitoring
           \/ Begin \/ CleanupRemoved \/ Stop \/ Render \/ DeployRejected \/ Sweep
           \/ TimerFires \/ CollectorAdmitted \/ Korrel8rStarts \/ Korrel8rFails
           \/ Fault \/ CRDsChange \/ PlatformPublishes \/ CAChanges \/ SecretsChange
  BY <1>1 DEF Fault, GateReadFails, RenderWith, vars, PatchStatus, EditMonitoring, Begin,
              CleanupRemoved, Stop,
              Render, DeployRejected, DeployAborts, Sweep, TimerFires, CollectorAdmitted,
              Korrel8rStarts, Korrel8rFails, Korrel8rBecomes, BuildTemplateDataFails, RenderFails,
              DeleteFails, DeployFails, SweepFails, DeleteRBACFails, RBACRemains, RoundLost,
              Restart, CRDsChange, PlatformPublishes, CAChanges, SecretsChange
<1>2. CASE DeleteToken \/ DeletePolicy \/ DeleteRBAC
  BY <1>0, <1>2 DEF DeleteToken, DeletePolicy, DeleteRBAC, RBACRemains, Remove, GuardedType,
                    Guarded
<1>3. CASE Deploy \/ PolicyRecreated
  BY <1>0, <1>3 DEF Deploy, PolicyRecreated, GuardedType, Guarded
<1>4. ASSUME NEW g \in Guarded, UserTakes(g) \/ UserDrops(g)
      PROVE  guarded["token"] = "ours"
  BY <1>0, <1>4 DEF UserTakes, UserDrops, Remove, GuardedType, Guarded
<1> QED BY <1>1, <1>2, <1>3, <1>4, Steps DEF Others

\* Every step preserves it.
LEMMA TokenStep == TypeOK /\ TokenInv /\ [Next]_vars => TokenInv'
<1> SUFFICES ASSUME TypeOK, TokenInv, [Next]_vars, guarded'["token"] = "ours"
             PROVE  /\ "PrometheusDatasources" \notin live'
                    /\ pc' = "deploy" => "PrometheusDatasources" \notin round'.desired
    BY DEF TokenInv
<1>0. round \in RoundType
  BY DEF TypeOK
<1>1. /\ "PrometheusDatasources" \notin live
      /\ pc = "deploy" => "PrometheusDatasources" \notin round.desired
      /\ guarded["token"] = "ours"
  BY NoNewTokens DEF TokenInv
<1>2. CASE Render \/ GateReadFails
  <2>1. live' \subseteq live
    BY <1>2 DEF Render, GateReadFails, RenderWith, SetObjects
  <2>2. ASSUME pc' = "deploy" PROVE "PrometheusDatasources" \notin round'.desired
    <3>1. verdict("PersesPrometheusDataSourceAvailable", round.spec) # "True"
      BY <1>1, <1>2, <2>2 DEF Render, GateReadFails, RenderWith, FindsToken
    <3>2. "PrometheusDatasources" \notin renderedObjects(round.spec)
      BY <3>1 DEF renderedObjects
    <3>3. round'.desired = renderedObjects(round.spec)
      BY <1>0, <1>2 DEF Render, GateReadFails, RenderWith, RoundType
    <3> QED BY <3>2, <3>3
  <2> QED BY <1>1, <2>1, <2>2
<1>3. CASE Deploy \/ DeployRejected \/ DeployFails
  <2>1. pc' \in {"policy", "sweep", "patch"}
    BY <1>3 DEF Deploy, DeployRejected, DeployFails, DeployAborts, Abort, EndRound
  <2>2. pc = "deploy" /\ live' \subseteq live \cup round.desired
    BY <1>3 DEF Deploy, DeployRejected, DeployFails, DeployAborts, deployResources,
                SetObjects
  <2> QED BY <1>1, <2>1, <2>2
<1>4. CASE CleanupRemoved \/ RenderFails \/ Sweep \/ SweepFails
  <2>1. pc' \in {"rbac", "patch"}
    BY <1>4 DEF CleanupRemoved, RenderFails, Sweep, SweepFails, Abort, Finish, EndRound
  <2>2. live' \subseteq live
    BY <1>4 DEF CleanupRemoved, RenderFails, Sweep, SweepFails, SetObjects
  <2> QED BY <1>1, <2>1, <2>2
<1>5. CASE \/ Begin \/ Stop \/ DeletePolicy \/ DeleteRBAC \/ PatchStatus \/ BuildTemplateDataFails
           \/ DeleteFails \/ DeleteRBACFails \/ RoundLost \/ Restart
  <2>1. pc' # "deploy"
    BY <1>5 DEF Begin, Stop, DeletePolicy, DeleteRBAC, RBACRemains, PatchStatus,
                BuildTemplateDataFails, DeleteFails, DeleteRBACFails, RoundLost, Restart, Return,
                Abort, Stopped, Finish, EndRound
  <2>2. live' = live
    BY <1>5 DEF Begin, Stop, DeletePolicy, DeleteRBAC, RBACRemains, PatchStatus,
                BuildTemplateDataFails, DeleteFails, DeleteRBACFails, RoundLost, Restart,
                objectVars
  <2> QED BY <1>1, <2>1, <2>2
<1>6. CASE DeleteToken
  <2>1. CASE Conflicts("token")
    BY <1>1, <1>6, <2>1 DEF DeleteToken, Abort, EndRound, objectVars
  <2>2. CASE ~Conflicts("token")
    BY <1>6, <2>2 DEF DeleteToken, Remove, TypeOK, GuardedType, Guarded
  <2> QED BY <2>1, <2>2
<1>7. CASE \/ UNCHANGED vars \/ TimerFires \/ CollectorAdmitted \/ Korrel8rStarts \/ Korrel8rFails
           \/ CRDsChange \/ PlatformPublishes \/ CAChanges \/ SecretsChange
           \/ EditMonitoring \/ PolicyRecreated
           \/ \E g \in Guarded : UserTakes(g) \/ UserDrops(g)
  <2>1. pc' = pc /\ live' \subseteq live
    BY <1>7 DEF vars, objectVars, TimerFires, CollectorAdmitted, Korrel8rStarts, Korrel8rFails,
                Korrel8rBecomes, CRDsChange, SetObjects, PlatformPublishes, CAChanges,
                SecretsChange, EditMonitoring,
                PolicyRecreated, UserTakes, UserDrops
  <2>2. round'.desired = round.desired
    BY <1>0, <1>7 DEF vars, TimerFires, CollectorAdmitted, Korrel8rStarts, Korrel8rFails,
                      Korrel8rBecomes, CRDsChange, PlatformPublishes, CAChanges, SecretsChange,
                      EditMonitoring,
                      PolicyRecreated, UserTakes, UserDrops, Touched, RoundType
  <2> QED BY <1>1, <2>1, <2>2
<1> QED BY <1>2, <1>3, <1>4, <1>5, <1>6, <1>7, Steps DEF Others, Fault

\* The datasources with the caller's token never meet the legacy tokens, wherever
\* the clean-up of the tokens fails or is overtaken.
THEOREM TokensGoFirst == Spec => []LegacyTokenGoneFirst
<1>1. TokenInv => LegacyTokenGoneFirst
  BY DEF TokenInv, LegacyTokenGoneFirst
<1> QED BY <1>1, FeatureTypeSafe, TokenInit, TokenStep, PTL DEF Spec
=============================================================================
