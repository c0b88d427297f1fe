---------------------------- MODULE SweepProofs ----------------------------
(***************************************************************************)
(* Proofs of what the apply and the sweep of a round may never do, and of  *)
(* when an endpoint may be withdrawn, for any specs, store contents,       *)
(* operators, CRDs and disturbances.                                       *)
(***************************************************************************)
EXTENDS ReconcilerProofs, FiniteSetTheorems

-----------------------------------------------------------------------------
(* The objects of the cluster *)

\* Objects exist only while their CRD does, and a LokiStack that is not there has
\* no Secret.
ObjectInv ==
    /\ \A o \in live : CRDOf(o) \subseteq crds
    /\ \A p \in Pipelines : Stack(p) \notin live => stackSecret[p] = NoSecret

\* SetObjects preserves it when the CRDs of the new objects are there.
LEMMA SetObjectsInv ==
    ASSUME ObjectInv, NEW objs, NEW applied \in SUBSET objs, NEW s,
           SetObjects(objs, applied, s), \A o \in objs : CRDOf(o) \subseteq crds'
    PROVE  ObjectInv'
<1>1. \A o \in live' : (CRDOf(o) \subseteq crds)'
  BY DEF SetObjects, CRDOf
<1>2. ASSUME NEW p \in Pipelines, Stack(p) \notin live'
      PROVE  stackSecret'[p] = NoSecret
  BY <1>2 DEF ObjectInv, SetObjects
<1> QED BY <1>1, <1>2 DEF ObjectInv, Stack

\* It holds of a new installation and of an upgraded one.
LEMMA ObjectInit == Init => ObjectInv
<1> SUFFICES ASSUME Init PROVE ObjectInv
    OBVIOUS
<1>1. CASE live = {}
  BY <1>1 DEF Init, ObjectInv
<1>2. ASSUME NEW c, live = {Stack("logs")} \cup c, "LokiStack" \in crds,
             \A o \in c : CRDOf(o) \subseteq crds,
             stackSecret = [usageLogs |-> NoSecret, logs |-> spec.storage["usageLogs"]]
      PROVE  ObjectInv
  <2>1. CRDOf(Stack("logs")) \subseteq crds
    BY <1>2 DEF Stack, CRDOf
  <2>2. stackSecret["usageLogs"] = NoSecret /\ Stack("logs") \in live
    BY <1>2
  <2>3. Pipelines = {"usageLogs", "logs"}
    BY DEF Pipelines
  <2> QED BY <1>2, <2>1, <2>2, <2>3 DEF ObjectInv
<1> QED BY <1>1, <1>2 DEF Init

\* Every step preserves it: the apply is refused without the CRD, and a CRD
\* that goes takes its objects along.
LEMMA ObjectStep == TypeOK /\ ObjectInv /\ [Next]_vars => ObjectInv'
<1> SUFFICES ASSUME TypeOK, ObjectInv, [Next]_vars PROVE ObjectInv'
    OBVIOUS
<1>1. ASSUME UNCHANGED <<live, stackSecret, crds>> PROVE ObjectInv'
  BY <1>1 DEF ObjectInv, CRDOf, Stack
<1>2. CASE \/ TimerFires \/ BeginGone \/ BeginDeleting \/ Begin \/ BeginFails
           \/ RemoveFinalizer \/ RemoveFinalizerFails \/ Stop \/ BuildTemplateDataFails
           \/ RenderFails \/ PatchStatus \/ PatchStatusFails \/ Restart \/ UNCHANGED vars
  BY <1>1, <1>2 DEF objectVars, clusterVars, vars, TimerFires, BeginGone, BeginDeleting,
       Begin, BeginFails, RemoveFinalizer, RemoveFinalizerFails, Stop,
       BuildTemplateDataFails, RenderFails, PatchStatus, PatchStatusFails, Restart
<1>3. CASE Render \/ GateReadFails
  BY <1>1, <1>3 DEF Render, GateReadFails, RenderWith, objectVars, clusterVars
<1>4. CASE Cleanup \/ CleanupFails \/ CleanupRemoved \/ CleanupRemovedFails
  <2>1. PICK left \in SUBSET live : SetObjects(left, {}, EmptySpec)
    BY <1>4 DEF Cleanup, CleanupFails, CleanupRemoved, CleanupRemovedFails
  <2>2. crds' = crds
    BY <1>4 DEF Cleanup, CleanupFails, CleanupRemoved, CleanupRemovedFails, clusterVars
  <2> QED BY <2>1, <2>2, SetObjectsInv DEF ObjectInv
<1>5. CASE Deploy \/ DeployRejected \/ DeployFails
  <2>1. PICK applied \in SUBSET {o \in deployResources : CRDOf(o) \subseteq crds} :
           SetObjects(live \cup applied, applied, round.spec)
    BY <1>5 DEF Deploy, DeployRejected, DeployFails, DeployAborts
  <2>2. crds' = crds
    BY <1>5 DEF Deploy, DeployRejected, DeployFails, DeployAborts, clusterVars
  <2> QED BY <2>1, <2>2, SetObjectsInv DEF ObjectInv
<1>6. CASE Sweep \/ SweepFails
  <2>1. PICK gone : SetObjects(live \ gone, {}, EmptySpec)
    BY <1>6 DEF Sweep, SweepFails
  <2>2. crds' = crds
    BY <1>6 DEF Sweep, SweepFails, clusterVars
  <2> QED BY <2>1, <2>2, SetObjectsInv DEF ObjectInv
<1>7. CASE CRDsChange
  <2>1. SetObjects({o \in live : CRDOf(o) \subseteq crds'}, {}, EmptySpec)
    BY <1>7 DEF CRDsChange
  <2> QED BY <2>1, SetObjectsInv
<1>8. ASSUME NEW o \in Objects, ObjectDeleted(o) PROVE ObjectInv'
  <2>1. SetObjects(live \ {o}, {}, EmptySpec) /\ crds' = crds
    BY <1>8 DEF ObjectDeleted, clusterVars
  <2> QED BY <2>1, SetObjectsInv DEF ObjectInv
<1>9. CASE \/ CreateMonitoring \/ EditMonitoring \/ DeleteMonitoring
           \/ EditSecrets \/ CredentialChanges \/ CAChanges \/ OperatorsChange
           \/ \E p \in Pipelines : StackBecomesReady(p) \/ StackFails(p)
  BY <1>1, <1>9 DEF objectVars, clusterVars, CreateMonitoring, EditMonitoring,
       DeleteMonitoring, EditSecrets, CredentialChanges, CAChanges, OperatorsChange,
       StackBecomesReady, StackFails
<1> QED
  BY <1>2, <1>3, <1>4, <1>5, <1>6, <1>7, <1>8, <1>9
     DEF Next, RoundStep, FaultStep, EnvironmentStep

-----------------------------------------------------------------------------
(* What the rendering pass establishes *)

\* The conditions of the two pipelines do not overlap, nor with those of metrics.
LEMMA ConditionsApart ==
    /\ \A p, q \in Pipelines : StackCondition[p] # ShipperCondition[q]
    /\ \A p, q \in Pipelines : p # q => StackCondition[p] # StackCondition[q]
    /\ \A p \in Pipelines : StackCondition[p] # "ThanosQuerierAvailable"
    /\ \A p \in Pipelines : ShipperCondition[p] # "ThanosQuerierAvailable"
    /\ "ThanosQuerierAvailable" \in ConditionTypes
BY DEF Pipelines, StackCondition, ShipperCondition, ConditionTypes, FeatureConditions

\* Deploying one pipeline leaves the stack condition of the other one alone.
LEMMA DeployPipelineConds ==
    ASSUME NEW conds \in Conds, NEW s, NEW e, NEW p \in Pipelines, NEW w, NEW f,
           NEW d, d = deployPipeline(conds, s, e, p, w, f)
    PROVE  /\ d[StackCondition[p]] = IF p \in w THEN conds[StackCondition[p]]
                                     ELSE lokiStackVerdict(s, p)
           /\ \A q \in Pipelines \ {p} : d[StackCondition[q]] = conds[StackCondition[q]]
           /\ d["ThanosQuerierAvailable"] = conds["ThanosQuerierAvailable"]
<1> DEFINE a == lokiStackVerdict(s, p)
           b == IF p = "usageLogs" THEN usageLogsCollectorVerdict(s, e)
                ELSE clusterLogForwarderVerdict(s, f)
<1>1. deployPipeline(conds, s, e, p, w, f)
        = IF p \in w THEN Mark(conds, ShipperCondition[p], conds[StackCondition[p]])
          ELSE [conds EXCEPT ![StackCondition[p]] = a, ![ShipperCondition[p]] = b]
  BY DEF deployPipeline
<1> HIDE DEF a, b
<1>2. \A q \in Pipelines : StackCondition[q] \in ConditionTypes
  BY ConditionNames
<1>3. CASE p \in w
  BY <1>1, <1>2, <1>3, ConditionsApart DEF Mark, Conds
<1>4. CASE p \notin w
  <2>1. deployPipeline(conds, s, e, p, w, f)[StackCondition[p]] = a
    BY <1>1, <1>2, <1>4, ConditionsApart DEF Conds
  <2>2. \A q \in Pipelines \ {p} :
          deployPipeline(conds, s, e, p, w, f)[StackCondition[q]] = conds[StackCondition[q]]
    BY <1>1, <1>2, <1>4, ConditionsApart DEF Conds
  <2>3. deployPipeline(conds, s, e, p, w, f)["ThanosQuerierAvailable"]
          = conds["ThanosQuerierAvailable"]
    BY <1>1, <1>2, <1>4, ConditionsApart DEF Conds
  <2> QED BY <1>4, <2>1, <2>2, <2>3 DEF a
<1> QED BY <1>3, <1>4

\* The stack conditions after the pass: the word of the gate on what it withheld,
\* and what was found of the others.
LEMMA WithPipelinesConds ==
    ASSUME NEW r \in RoundType, NEW w \in SUBSET Pipelines, NEW f,
           NEW v, w = {} \/ v \in Verdicts
    PROVE  LET c == WithPipelines(r, w, v, f)
           IN  /\ \A p \in Pipelines :
                     c[StackCondition[p]] = IF p \in w THEN v ELSE lokiStackVerdict(r.spec, p)
               /\ c["ThanosQuerierAvailable"]
                     = WithMonitoringStack(r)["ThanosQuerierAvailable"]
<1> DEFINE c0 == WithGate(r, w, v)
           c1 == WithUsageLogs(r, w, v)
           c2 == WithPipelines(r, w, v, f)
           u == "usageLogs"
           l == "logs"
           no == FALSE
<1>1. c0 \in Conds /\ c1 \in Conds
  BY WithTypes
<1>2. /\ \A p \in Pipelines : p \in w => c0[StackCondition[p]] = v
      /\ c0["ThanosQuerierAvailable"] = WithMonitoringStack(r)["ThanosQuerierAvailable"]
  BY ConditionNames, ConditionsApart DEF WithGate
<1>3. /\ c1 = deployPipeline(c0, r.spec, r.status.endpoints, u, w, no)
      /\ c2 = deployPipeline(c1, r.spec, r.status.endpoints, l, w, f)
  BY DEF WithUsageLogs, WithPipelines
<1>4. Pipelines = {u, l} /\ u \in Pipelines \ {l} /\ l \in Pipelines \ {u}
  BY DEF Pipelines
<1> HIDE DEF c0, c1, c2, u, l, no
<1>5. /\ c1[StackCondition[u]] = IF u \in w THEN c0[StackCondition[u]]
                                 ELSE lokiStackVerdict(r.spec, u)
      /\ c1[StackCondition[l]] = c0[StackCondition[l]]
      /\ c1["ThanosQuerierAvailable"] = c0["ThanosQuerierAvailable"]
  BY <1>1, <1>3, <1>4, DeployPipelineConds
<1>6. /\ c2[StackCondition[l]] = IF l \in w THEN c1[StackCondition[l]]
                                 ELSE lokiStackVerdict(r.spec, l)
      /\ c2[StackCondition[u]] = c1[StackCondition[u]]
      /\ c2["ThanosQuerierAvailable"] = c1["ThanosQuerierAvailable"]
  BY <1>1, <1>3, <1>4, DeployPipelineConds
<1> QED BY <1>2, <1>4, <1>5, <1>6 DEF c2

\* What is rendered: nothing of a withheld pipeline, and the stack of every other
\* claimed one if its CRD is there.
LEMMA RenderedObjects ==
    ASSUME NEW s, NEW e, NEW w \in SUBSET Pipelines
    PROVE  LET d == renderMonitoringResources(s, e, w)
           IN  /\ \A o \in d : o.component \notin w
               /\ \A p \in Claims(s) \ w : "LokiStack" \in crds => Stack(p) \in d
               /\ /\ s.metricsStorage /\ {"MonitoringStack", "ThanosQuerier"} \subseteq crds
                  => MonitoringStack \in d
<1>1. \A p : Stack(p).component = p /\ \A o \in ShipperObjects(p) : o.component = p
  BY DEF Stack, ShipperObjects
<1>2. \A o \in pipelineObjects(s, e, w) : \E p \in Pipelines \ w : o.component = p
  BY <1>1 DEF pipelineObjects, Claims
<1>3. \A o \in metricsObjects(s) : o.component = "metrics"
  BY DEF metricsObjects, MonitoringStack, ThanosQuerier
<1>4. "metrics" \notin Pipelines
  BY DEF Pipelines
<1>5. \A p \in Claims(s) \ w : "LokiStack" \in crds => Stack(p) \in pipelineObjects(s, e, w)
  BY DEF pipelineObjects
<1>6. s.metricsStorage /\ {"MonitoringStack", "ThanosQuerier"} \subseteq crds
        => MonitoringStack \in metricsObjects(s)
  BY DEF metricsObjects
<1> QED BY <1>2, <1>3, <1>4, <1>5, <1>6 DEF renderMonitoringResources

\* The metrics conditions of a round with metrics storage: without the
\* ThanosQuerier's CRD that condition is False.
LEMMA QuerierCondition ==
    ASSUME NEW r \in RoundType, r.spec.metricsStorage, "ThanosQuerier" \notin crds
    PROVE  WithMonitoringStack(r)["ThanosQuerierAvailable"] = "False"
<1>1. /\ "ThanosQuerierAvailable" \in ConditionTypes
      /\ "ThanosQuerierAvailable" \in DOMAIN MetricsCRD
      /\ MetricsCRD["ThanosQuerierAvailable"] = "ThanosQuerier"
  BY DEF MetricsCRD, ConditionTypes, FeatureConditions
<1>2. metricsObjects(r.spec) = {}
  BY DEF metricsObjects
<1> QED BY <1>1, <1>2 DEF WithMonitoringStack, deployMonitoringStack

\* What a round relies on between the rendering pass and the end of the sweep:
\* nothing of a withheld pipeline is desired; a claimed LokiStack that exists is
\* desired unless something is withheld; so is a MonitoringStack, unless the
\* ThanosQuerier is reported missing; and every stack condition was written in
\* this very round.
RenderedInv ==
    pc \in {"deploy", "sweep"} =>
        /\ \A o \in round.desired : o.component \notin round.withheld
        /\ round.withheld = {} =>
              \A p \in Claims(round.spec) : Stack(p) \in live => Stack(p) \in round.desired
        /\ round.spec.metricsStorage /\ MonitoringStack \in live \ round.desired
              => round.status.conds["ThanosQuerierAvailable"] = "False"
        /\ \A p \in Pipelines :
              round.status.conds[StackCondition[p]] \in
                  IF p \in Claims(round.spec) THEN Failing \cup {"True", "Unknown"} ELSE {"Info"}

\* The rendering pass establishes it, since objects exist only while their CRDs do.
LEMMA RenderEstablishes ==
    ASSUME TypeOK, ObjectInv, Render \/ GateReadFails
    PROVE  RenderedInv'
<1>1. PICK v \in {"Isolated", "Unknown", "StorageConflict"} : RenderWith(v)
  BY GateVerdicts DEF Render, GateReadFails
<1>2. round \in RoundType /\ round.spec \in SpecType
  BY RoundFields DEF TypeOK
<1> DEFINE w == IF v = "Isolated" THEN {} ELSE Claims(round.spec)
           d == renderMonitoringResources(round.spec, round.status.endpoints, w)
           ca == MonitoringStack \in d => caInjected
<1>3. PICK f \in BOOLEAN :
        round' = [round EXCEPT
            !.status.conds = IF ca THEN WithPipelines(round, w, v, f)
                             ELSE Mark(WithPipelines(round, w, v, f),
                                       "MonitoringStackAvailable", "False"),
            !.desired = d, !.withheld = w, !.caReady = ca]
  BY <1>1 DEF RenderWith
<1> DEFINE c == WithPipelines(round, w, v, f)
           k == IF ca THEN c ELSE Mark(c, "MonitoringStackAvailable", "False")
<1>4. /\ w \in SUBSET Pipelines /\ (w = {} \/ v \in Verdicts)
      /\ w \subseteq Claims(round.spec)
      /\ w # {} => v \in Failing \cup {"Unknown"}
  BY <1>2, Withholding DEF Failing
<1>5. /\ c \in Conds
      /\ \A p \in Pipelines :
            c[StackCondition[p]] = IF p \in w THEN v ELSE lokiStackVerdict(round.spec, p)
      /\ c["ThanosQuerierAvailable"] = WithMonitoringStack(round)["ThanosQuerierAvailable"]
  BY <1>2, <1>4, WithTypes, WithPipelinesConds
<1>6. /\ \A o \in d : o.component \notin w
      /\ \A p \in Claims(round.spec) \ w : "LokiStack" \in crds => Stack(p) \in d
      /\ /\ round.spec.metricsStorage /\ {"MonitoringStack", "ThanosQuerier"} \subseteq crds
         => MonitoringStack \in d
  BY <1>4, RenderedObjects
<1>7. round' = [round EXCEPT !.status.conds = k, !.desired = d, !.withheld = w, !.caReady = ca]
  BY <1>3
<1>8. UNCHANGED <<live, crds>>
  BY <1>1 DEF RenderWith, objectVars, clusterVars
<1> HIDE DEF w, d, ca, c
<1>9. /\ \A p \in Pipelines : k[StackCondition[p]] = c[StackCondition[p]]
      /\ k["ThanosQuerierAvailable"] = c["ThanosQuerierAvailable"]
  <2>1. /\ \A p \in Pipelines : StackCondition[p] # "MonitoringStackAvailable"
        /\ \A p \in Pipelines : StackCondition[p] \in ConditionTypes
        /\ "ThanosQuerierAvailable" \in ConditionTypes
    BY ConditionNames, ConditionsApart DEF Pipelines, StackCondition
  <2> QED BY <1>5, <2>1 DEF Mark, Conds
<1> HIDE DEF k
<1>10. /\ round'.spec = round.spec /\ round'.status.conds = k
       /\ round'.desired = d /\ round'.withheld = w
  BY <1>2, <1>7 DEF RoundType, StatusType
<1>11. ASSUME NEW p \in Claims(round.spec), w = {}, Stack(p) \in live
       PROVE  Stack(p) \in d
  <2>1. "LokiStack" \in crds
    BY <1>11 DEF ObjectInv, CRDOf, Stack
  <2> QED BY <1>6, <1>11, <2>1
<1>12. ASSUME round.spec.metricsStorage, MonitoringStack \in live \ d
       PROVE  k["ThanosQuerierAvailable"] = "False"
  <2>1. "MonitoringStack" \in crds
    BY <1>12 DEF ObjectInv, CRDOf, MonitoringStack
  <2>2. "ThanosQuerier" \notin crds
    BY <1>6, <1>12, <2>1
  <2> QED BY <1>2, <1>5, <1>9, <1>12, <2>2, QuerierCondition
<1>13. ASSUME NEW p \in Pipelines
       PROVE  k[StackCondition[p]] \in
                IF p \in Claims(round.spec) THEN Failing \cup {"True", "Unknown"} ELSE {"Info"}
  BY <1>4, <1>5, <1>9, <1>13 DEF lokiStackVerdict, Failing
<1>14. Claims(round'.spec) = Claims(round.spec)
  BY <1>10
<1> QED BY <1>6, <1>8, <1>10, <1>11, <1>12, <1>13, <1>14
        DEF RenderedInv, Claims, Stack, MonitoringStack

\* Initially there is no round.
LEMMA RenderedInit == Init => RenderedInv
BY DEF Init, RenderedInv

\* After that objects appear only because they are desired.
LEMMA RenderedStep == TypeOK /\ ObjectInv /\ RenderedInv /\ [Next]_vars => RenderedInv'
<1> SUFFICES ASSUME TypeOK, ObjectInv, RenderedInv, [Next]_vars PROVE RenderedInv'
    OBVIOUS
<1>1. ASSUME pc' \notin {"deploy", "sweep"} PROVE RenderedInv'
  BY <1>1 DEF RenderedInv
<1>2. ASSUME UNCHANGED round, pc \in {"deploy", "sweep"} \/ UNCHANGED pc,
             live' \subseteq live \cup round.desired
      PROVE  RenderedInv'
  BY <1>2 DEF RenderedInv, Claims, Stack, MonitoringStack
<1>3. CASE \/ BeginDeleting \/ Begin \/ BeginFails \/ Cleanup \/ CleanupFails
           \/ RemoveFinalizer \/ RemoveFinalizerFails \/ CleanupRemoved \/ CleanupRemovedFails
           \/ Stop \/ BuildTemplateDataFails \/ RenderFails \/ DeployRejected \/ DeployFails
           \/ PatchStatus \/ PatchStatusFails \/ Restart
  <2>1. pc' \in {"cleanup", "render", "idle", "unfinalize", "patch"}
    BY <1>3 DEF BeginDeleting, Begin, BeginFails, Cleanup, CleanupFails,
         RemoveFinalizer, RemoveFinalizerFails, CleanupRemoved, CleanupRemovedFails,
         Stop, BuildTemplateDataFails, RenderFails, DeployRejected, DeployFails,
         DeployAborts, PatchStatus, PatchStatusFails, Restart, Return, EndRound, Abort
  <2> QED BY <1>1, <2>1
<1>4. CASE Sweep \/ SweepFails
  BY <1>1, <1>4 DEF Sweep, SweepFails, Publish
<1>5. CASE Render \/ GateReadFails
  BY <1>5, RenderEstablishes
<1>6. CASE Deploy
  <2>1. deployResources \subseteq round.desired
    BY DEF deployResources
  <2> QED BY <1>2, <1>6, <2>1 DEF Deploy, SetObjects
<1>7. CASE TimerFires \/ BeginGone \/ UNCHANGED vars
  BY <1>2, <1>7 DEF TimerFires, BeginGone, vars, objectVars
<1>8. CASE EnvironmentStep
  <2>1. UNCHANGED <<pc, round>>
    BY <1>8 DEF EnvironmentStep, CreateMonitoring, EditMonitoring, DeleteMonitoring,
         EditSecrets, CredentialChanges, CAChanges, OperatorsChange, CRDsChange,
         StackBecomesReady, StackFails, ObjectDeleted
  <2>2. live' \subseteq live
    BY <1>8 DEF EnvironmentStep, CreateMonitoring, EditMonitoring, DeleteMonitoring,
         EditSecrets, CredentialChanges, CAChanges, OperatorsChange, CRDsChange,
         StackBecomesReady, StackFails, ObjectDeleted, SetObjects, objectVars
  <2> QED BY <1>2, <2>1, <2>2
<1> QED
  BY <1>3, <1>4, <1>5, <1>6, <1>7, <1>8 DEF Next, RoundStep, FaultStep

-----------------------------------------------------------------------------
(* What the apply and the sweep may never do *)

\* The steps that may take a round from one place to the next behind its
\* rendering pass, with their effect on the objects.
LEMMA ApplyAndSweep ==
    ASSUME [Next]_vars, pc \in {"deploy", "sweep"}, pc' # pc
    PROVE  \/ UNCHANGED objectVars /\ pc' = "idle"
           \/ /\ pc = "deploy"
              /\ \E applied \in SUBSET round.desired :
                    SetObjects(live \cup applied, applied, round.spec)
           \/ /\ pc = "sweep" /\ pc' = "patch"
              /\ \E collected \in SUBSET garbage : SetObjects(live \ collected, {}, EmptySpec)
<1>1. deployResources \subseteq round.desired
  BY DEF deployResources
<1>2. CASE Deploy \/ DeployRejected \/ DeployFails
  BY <1>1, <1>2 DEF Deploy, DeployRejected, DeployFails, DeployAborts
<1>3. CASE Sweep \/ SweepFails
  BY <1>3 DEF Sweep, SweepFails, Publish
<1>4. CASE Restart
  BY <1>4 DEF Restart
<1>5. CASE \/ BeginGone \/ BeginDeleting \/ Begin \/ BeginFails \/ Cleanup \/ CleanupFails
           \/ RemoveFinalizer \/ RemoveFinalizerFails \/ CleanupRemoved \/ CleanupRemovedFails
           \/ Stop \/ BuildTemplateDataFails \/ RenderFails
           \/ PatchStatus \/ PatchStatusFails
  BY <1>5 DEF BeginGone, BeginDeleting, Begin, BeginFails, Cleanup, CleanupFails,
         RemoveFinalizer, RemoveFinalizerFails, CleanupRemoved, CleanupRemovedFails,
         Stop, BuildTemplateDataFails, RenderFails, PatchStatus, PatchStatusFails
<1>6. CASE Render \/ GateReadFails
  BY <1>6 DEF Render, GateReadFails, RenderWith
<1>7. CASE TimerFires \/ EnvironmentStep \/ UNCHANGED vars
  BY <1>7 DEF vars, TimerFires, EnvironmentStep, CreateMonitoring, EditMonitoring,
         DeleteMonitoring, EditSecrets, CredentialChanges, CAChanges, OperatorsChange,
         CRDsChange, StackBecomesReady, StackFails, ObjectDeleted
<1> QED
  BY <1>2, <1>3, <1>4, <1>5, <1>6, <1>7 DEF Next, RoundStep, FaultStep

\* The inductive invariant of this module so far.
SweepInv == TypeOK /\ ObjectInv /\ RenderedInv

\* It holds throughout.
THEOREM SweepInvariant == Spec => []SweepInv
<1>1. Init => SweepInv
  BY TypeInit, ObjectInit, RenderedInit DEF SweepInv
<1>2. SweepInv /\ [Next]_vars => SweepInv'
  BY TypeStep, ObjectStep, RenderedStep DEF SweepInv
<1> QED BY <1>1, <1>2, PTL DEF Spec

\* Whatever was withheld, failed or left from an older version, the sweep keeps
\* every LokiStack that the spec of its round asks for.
THEOREM ClaimedStacksKept == Spec => ClaimedStackNeverSwept
<1>1. ASSUME SweepInv, [Next]_vars, pc = "sweep", pc' = "patch",
             NEW p \in Claims(round.spec), Stack(p) \in live
      PROVE  Stack(p) \in live'
  <2>1. PICK collected \in SUBSET garbage : SetObjects(live \ collected, {}, EmptySpec)
    BY <1>1, ApplyAndSweep
  <2>2. Stack(p).kind = "LokiStack"
    BY DEF Stack
  <2>3. Stack(p) \notin garbage
    BY <1>1, <2>2 DEF garbage, shouldCollect, SweepInv, RenderedInv
  <2> QED BY <1>1, <2>1, <2>3 DEF SetObjects
<1>2. SweepInv /\ [Next]_vars =>
        [pc = "sweep" /\ pc' = "patch" =>
            \A p \in Claims(round.spec) : Stack(p) \in live => Stack(p) \in live']_vars
  BY <1>1
<1> QED BY <1>2, SweepInvariant, PTL DEF Spec, ClaimedStackNeverSwept

\* With metrics storage in the spec the sweep deletes the MonitoringStack only
\* in a round that reports the ThanosQuerier's CRD missing.
THEOREM MetricsStoreSafe == Spec => MetricsStoreKept
<1>1. ASSUME SweepInv, [Next]_vars, pc = "sweep", pc' = "patch", round.spec.metricsStorage,
             MonitoringStack \in live \ live'
      PROVE  round.status.conds["ThanosQuerierAvailable"] = "False"
  <2>1. PICK collected \in SUBSET garbage : SetObjects(live \ collected, {}, EmptySpec)
    BY <1>1, ApplyAndSweep
  <2>2. MonitoringStack \in garbage
    BY <1>1, <2>1 DEF SetObjects
  <2>3. MonitoringStack \notin round.desired
    BY <2>2 DEF garbage, shouldCollect
  <2> QED BY <1>1, <2>3 DEF SweepInv, RenderedInv
<1>2. SweepInv /\ [Next]_vars =>
        [/\ pc = "sweep" /\ pc' = "patch" /\ round.spec.metricsStorage
         /\ MonitoringStack \in live \ live'
         => round.status.conds["ThanosQuerierAvailable"] = "False"]_vars
  BY <1>1
<1> QED BY <1>2, SweepInvariant, PTL DEF Spec, MetricsStoreKept

\* What a step leaves alone of a pipeline that its round withholds.
Frozen(p) ==
    /\ stackSecret'[p] = stackSecret[p]
    /\ \A o \in live' \ live : o.component # p
    /\ \A o \in live \ live' :
          o.component = p => o \in legacy /\ o.kind # "LokiStack"

\* Until the round is over, nothing of a pipeline that the storage gate withheld
\* is applied or reconfigured, and nothing of it is deleted but what an older
\* version left without a label, and of that no LokiStack.
THEOREM WithheldIsFrozen == Spec => WithheldPipelineFrozen
<1>1. ASSUME SweepInv, [Next]_vars, pc' # pc, pc \in {"deploy", "sweep"},
             NEW p \in round.withheld
      PROVE  Frozen(p)
  <2>1. p \in Pipelines /\ round.withheld # {}
    BY <1>1, RoundFields DEF SweepInv, TypeOK
  <2>2. Stack(p).component = p /\ Stack(p).kind = "LokiStack"
    BY DEF Stack
  <2>3. Stack(p) \notin live => stackSecret[p] = NoSecret
    BY <1>1, <2>1 DEF SweepInv, ObjectInv
  <2>4. CASE UNCHANGED objectVars
    BY <2>4 DEF objectVars, Frozen
  <2>5. ASSUME pc = "deploy", NEW applied \in SUBSET round.desired,
               SetObjects(live \cup applied, applied, round.spec)
        PROVE  Frozen(p)
    <3>1. \A o \in applied : o.component # p
      BY <1>1, <2>5 DEF SweepInv, RenderedInv
    <3>2. Stack(p) \notin applied
      BY <2>2, <3>1
    <3> QED BY <2>1, <2>3, <2>5, <3>1, <3>2 DEF SetObjects, Frozen
  <2>6. ASSUME NEW collected \in SUBSET garbage, SetObjects(live \ collected, {}, EmptySpec)
        PROVE  Frozen(p)
    <3>1. \A o \in garbage : o.component = p => o \in legacy /\ o.kind # "LokiStack"
      BY <1>1, <2>1 DEF garbage, shouldCollect
    <3>2. Stack(p) \notin garbage
      BY <2>2, <3>1
    <3> QED BY <2>1, <2>3, <2>6, <3>1, <3>2 DEF SetObjects, Frozen
  <2> QED BY <1>1, <2>4, <2>5, <2>6, ApplyAndSweep
<1>2. SweepInv /\ [Next]_vars =>
        [pc' # pc /\ pc \in {"deploy", "sweep"} =>
            \A p \in round.withheld :
                /\ stackSecret'[p] = stackSecret[p]
                /\ \A o \in live' \ live : o.component # p
                /\ \A o \in live \ live' :
                      o.component = p => o \in legacy /\ o.kind # "LokiStack"]_vars
  BY <1>1 DEF Frozen
<1> QED BY <1>2, SweepInvariant, PTL DEF Spec, WithheldPipelineFrozen

-----------------------------------------------------------------------------
(* When an endpoint is withdrawn *)

\* A round carries the published endpoints from its start to the sweep, and by
\* the time it patches the status it has said of each one it drops why.
EndpointInv ==
    /\ cr = "gone" => status.endpoints = {}
    /\ pc \in {"render", "deploy", "sweep"} => round.status.endpoints = status.endpoints
    /\ pc = "patch" =>
          \A p \in status.endpoints \ round.status.endpoints :
              round.status.conds[StackCondition[p]] \in Failing \cup {"Info"}

\* Marking a metrics condition or the top-level ones, or aggregating, leaves the
\* stack conditions alone.
LEMMA StackConditionsKept ==
    ASSUME NEW conds \in Conds, NEW p \in Pipelines
    PROVE  /\ Mark(conds, "MonitoringStackAvailable", "False")[StackCondition[p]]
                 = conds[StackCondition[p]]
           /\ Mark(conds, "ProvisioningSucceeded", "False")[StackCondition[p]]
                 = conds[StackCondition[p]]
           /\ MarkReconcileFailed(conds)[StackCondition[p]] = conds[StackCondition[p]]
           /\ AggregateReady(conds)[StackCondition[p]] = conds[StackCondition[p]]
<1>1. /\ StackCondition[p] \in FeatureConditions /\ StackCondition[p] \in ConditionTypes
      /\ StackCondition[p] \notin {"MonitoringStackAvailable", "ProvisioningSucceeded"}
  BY ConditionNames DEF Pipelines, StackCondition
<1>2. \A v \in {"MonitoringStackAvailable", "ProvisioningSucceeded"} :
         Mark(conds, v, "False")[StackCondition[p]] = conds[StackCondition[p]]
  BY <1>1 DEF Mark, Conds
<1>3. ASSUME NEW r \in Verdicts, NEW q \in Verdicts, NEW d \in Verdicts
      PROVE  MarkTopLevel(conds, r, q, d)[StackCondition[p]] = conds[StackCondition[p]]
  <2>1. \A f \in FeatureConditions : MarkTopLevel(conds, r, q, d)[f] = conds[f]
    BY <1>3, MarkTopLevelType
  <2> QED BY <1>1, <2>1
<1> QED BY <1>2, <1>3, VerdictNames DEF MarkReconcileFailed, AggregateReady, AggregateOver

\* What is published after the sweep drops an endpoint only for a reason that
\* the conditions give.
LEMMA PublishExplains ==
    ASSUME TypeOK, RenderedInv, pc = "sweep", NEW g \in BOOLEAN, NEW y \in BOOLEAN, Publish(g, y),
           NEW p \in round.status.endpoints \ round'.status.endpoints
    PROVE  round'.status.conds[StackCondition[p]] \in Failing \cup {"Info"}
<1> DEFINE r == IF y THEN round
                ELSE [round EXCEPT !.status.conds =
                        Mark(round.status.conds, "MonitoringStackAvailable", "False")]
           agg == AggregateReady(r.status.conds)
           c == IF resultOf(r, g) = "error" THEN MarkReconcileFailed(agg)
                ELSE IF r.caReady THEN agg
                ELSE Mark(agg, "ProvisioningSucceeded", "False")
           e == publishLokiEndpoints(r)
           f == /\ r.status.conds["UsageLogsCollectorAvailable"] = "True"
                /\ r.spec.exporters # "none"
           res == resultOf(r, g)
<1>1. /\ round \in RoundType /\ round.status.conds \in Conds
      /\ Mark(round.status.conds, "MonitoringStackAvailable", "False") \in Conds
  BY RoundFields, MarkType, VerdictNames DEF TypeOK, ConditionTypes, FeatureConditions
<1>2. p \in Pipelines
  BY <1>1, RoundFields
<1>3. /\ r \in RoundType /\ r.status.conds \in Conds
      /\ r.spec = round.spec /\ r.status.endpoints = round.status.endpoints
      /\ r.status.conds[StackCondition[p]] = round.status.conds[StackCondition[p]]
  BY <1>1, <1>2, StackConditionsKept DEF RoundType, StatusType, Conds
<1>4. c[StackCondition[p]] = r.status.conds[StackCondition[p]]
  BY <1>2, <1>3, StackConditionsKept, AggregateReadyType
<1>5. round' = [r EXCEPT !.status = [conds |-> c, endpoints |-> e, forwarding |-> f],
                         !.result = res]
  BY DEF Publish
<1>6. r.status.conds[StackCondition[p]] \in
         IF p \in Claims(r.spec) THEN Failing \cup {"True", "Unknown"} ELSE {"Info"}
  BY <1>2, <1>3 DEF RenderedInv
<1>7. p \notin e => r.status.conds[StackCondition[p]] \in Failing \cup {"Info"}
  BY <1>3, <1>6 DEF publishLokiEndpoints
<1> HIDE DEF r, c, e, f, res
<1>8. round'.status.endpoints = e /\ round'.status.conds = c
  BY <1>3, <1>5 DEF RoundType
<1> QED BY <1>4, <1>7, <1>8

\* Initially no round has anything to drop.
LEMMA EndpointInit == Init => EndpointInv
BY DEF Init, EndpointInv, EmptyStatus

\* Ending a round early keeps its endpoints.
LEMMA EndRoundKeepsEndpoints ==
    ASSUME round \in RoundType, NEW c, NEW res, EndRound(c, res)
    PROVE  pc' = "patch" /\ round'.status.endpoints = round.status.endpoints
BY DEF EndRound, RoundType, StatusType

\* Nothing but the round changes the status of a CR that carries the finalizer.
LEMMA EndpointStep ==
    SweepInv /\ LifecycleInv /\ EndpointInv /\ [Next]_vars => EndpointInv'
<1> SUFFICES ASSUME SweepInv, LifecycleInv, EndpointInv, [Next]_vars PROVE EndpointInv'
    OBVIOUS
<1>1. TypeOK /\ RenderedInv /\ round \in RoundType
  BY DEF SweepInv, TypeOK
<1>2. EmptyStatus.endpoints = {}
  BY DEF EmptyStatus
<1>3. CASE TimerFires \/ BeginGone \/ UNCHANGED vars
  BY <1>3 DEF EndpointInv, TimerFires, BeginGone, vars, crVars
<1>4. CASE BeginDeleting \/ BeginFails \/ Cleanup \/ CleanupFails \/ RemoveFinalizerFails
           \/ PatchStatusFails \/ Restart
  BY <1>4, SMTT(30) DEF EndpointInv, BeginDeleting, BeginFails, Cleanup, CleanupFails,
       RemoveFinalizerFails, PatchStatusFails, Restart, Return, crVars
<1>5. CASE Begin
  <2>1. round'.status = status
    BY <1>5 DEF Begin, RoundOf
  <2> QED BY <1>5, <2>1 DEF Begin, EndpointInv
<1>6. CASE RemoveFinalizer
  BY <1>2, <1>6 DEF RemoveFinalizer, Return, EndpointInv
<1>7. CASE CleanupRemoved \/ CleanupRemovedFails \/ Stop \/ BuildTemplateDataFails
           \/ RenderFails \/ DeployRejected \/ DeployFails
  <2>1. pc \in {"render", "deploy"} /\ UNCHANGED crVars
    BY <1>7 DEF CleanupRemoved, CleanupRemovedFails, Stop, BuildTemplateDataFails,
         RenderFails, DeployRejected, DeployFails, DeployAborts
  <2>2. CASE RenderFails
    <3>1. \E c \in Conds : Abort(c)
      BY <1>1, <2>2, RenderFailsAborts
    <3> QED BY <1>1, <2>1, <3>1, EndRoundKeepsEndpoints DEF Abort, EndpointInv, crVars
  <2>3. CASE CleanupRemoved \/ CleanupRemovedFails \/ Stop \/ BuildTemplateDataFails
             \/ DeployRejected \/ DeployFails
    <3>1. \E c, res : EndRound(c, res)
      BY <2>3, ZenonT(30) DEF CleanupRemoved, CleanupRemovedFails, Stop, BuildTemplateDataFails,
           DeployRejected, DeployFails, DeployAborts, Abort
    <3> QED BY <1>1, <2>1, <3>1, EndRoundKeepsEndpoints DEF EndpointInv, crVars
  <2> QED BY <1>7, <2>2, <2>3
<1>8. CASE Render \/ GateReadFails
  <2>1. PICK v : RenderWith(v)
    BY <1>8 DEF Render, GateReadFails
  <2> DEFINE w == IF v = "Isolated" THEN {} ELSE Claims(round.spec)
             d == renderMonitoringResources(round.spec, round.status.endpoints, w)
             ca == MonitoringStack \in d => caInjected
             k(f) == IF ca THEN WithPipelines(round, w, v, f)
                     ELSE Mark(WithPipelines(round, w, v, f),
                               "MonitoringStackAvailable", "False")
  <2>2. PICK f \in BOOLEAN :
          round' = [round EXCEPT !.status.conds = k(f), !.desired = d, !.withheld = w,
                                 !.caReady = ca]
    BY <2>1 DEF RenderWith
  <2> HIDE DEF w, d, ca, k
  <2>3. round'.status.endpoints = round.status.endpoints
    BY <1>1, <2>2 DEF RoundType, StatusType
  <2>4. pc = "render" /\ pc' = "deploy" /\ UNCHANGED crVars
    BY <2>1 DEF RenderWith
  <2> QED BY <2>3, <2>4 DEF EndpointInv, crVars
<1>9. CASE Deploy
  BY <1>9 DEF Deploy, EndpointInv, crVars
<1>10. CASE Sweep \/ SweepFails
  <2>1. PICK g \in BOOLEAN, y \in BOOLEAN : Publish(g, y)
    BY <1>10 DEF Sweep, SweepFails
  <2>2. pc = "sweep" /\ pc' = "patch" /\ UNCHANGED crVars
    BY <1>10, ZenonT(30) DEF Sweep, SweepFails, Publish
  <2> QED BY <1>1, <2>1, <2>2, PublishExplains DEF EndpointInv, crVars
<1>11. CASE PatchStatus
  BY <1>11 DEF PatchStatus, Return, EndpointInv, LifecycleInv
<1>12. CASE EnvironmentStep
  <2>1. UNCHANGED <<pc, round>>
    BY <1>12 DEF EnvironmentStep, CreateMonitoring, EditMonitoring, DeleteMonitoring,
         EditSecrets, CredentialChanges, CAChanges, OperatorsChange, CRDsChange,
         StackBecomesReady, StackFails, ObjectDeleted
  <2>2. CASE CreateMonitoring \/ EditMonitoring \/ DeleteMonitoring
    BY <1>2, <2>1, <2>2
       DEF EndpointInv, LifecycleInv, CreateMonitoring, EditMonitoring, DeleteMonitoring
  <2>3. CASE UNCHANGED <<cr, status>>
    BY <2>1, <2>3 DEF EndpointInv
  <2> QED
    BY <1>12, <2>2, <2>3 DEF EnvironmentStep, EditSecrets, CredentialChanges, CAChanges,
         OperatorsChange, CRDsChange, StackBecomesReady, StackFails, ObjectDeleted, crVars
<1> QED
  BY <1>3, <1>4, <1>5, <1>6, <1>7, <1>8, <1>9, <1>10, <1>11, <1>12
     DEF Next, RoundStep, FaultStep

\* A published endpoint is withdrawn only by a status that says why; a failed
\* call never withdraws it.
THEOREM EndpointsHeld == Spec => EndpointWithdrawnOnlyWhenConfirmed
<1>1. ASSUME SweepInv, LifecycleInv, EndpointInv, [Next]_vars,
             NEW p \in status.endpoints \ status'.endpoints
      PROVE  cr' = "gone" \/ status'.conds[StackCondition[p]] \in Failing \cup {"Info"}
  <2>1. status' # status
    BY <1>1
  <2>2. CASE PatchStatus
    BY <1>1, <2>2 DEF PatchStatus, EndpointInv
  <2>3. CASE RemoveFinalizer \/ DeleteMonitoring
    BY <2>1, <2>3 DEF RemoveFinalizer, DeleteMonitoring
  <2>4. CASE CreateMonitoring
    BY <1>1, <2>4 DEF CreateMonitoring, EndpointInv
  <2>5. CASE \/ TimerFires \/ BeginGone \/ BeginDeleting \/ Begin \/ BeginFails
             \/ Cleanup \/ CleanupFails \/ RemoveFinalizerFails \/ CleanupRemoved
             \/ CleanupRemovedFails \/ Stop \/ BuildTemplateDataFails \/ RenderFails
             \/ Deploy \/ DeployRejected \/ DeployFails \/ Sweep \/ SweepFails
             \/ PatchStatusFails \/ Restart \/ UNCHANGED vars
    BY <2>1, <2>5 DEF vars, crVars, TimerFires, BeginGone, BeginDeleting, Begin, BeginFails,
         Cleanup, CleanupFails, RemoveFinalizerFails, CleanupRemoved, CleanupRemovedFails,
         Stop, BuildTemplateDataFails, RenderFails, Deploy, DeployRejected, DeployFails,
         DeployAborts, Sweep, SweepFails, PatchStatusFails, Restart
  <2>6. CASE Render \/ GateReadFails
    BY <2>1, <2>6, ZenonT(30) DEF Render, GateReadFails, RenderWith, crVars
  <2>7. CASE \/ EditMonitoring \/ EditSecrets \/ CredentialChanges \/ CAChanges
             \/ OperatorsChange \/ CRDsChange
             \/ \E q \in Pipelines : StackBecomesReady(q) \/ StackFails(q)
             \/ \E o \in Objects : ObjectDeleted(o)
    BY <2>1, <2>7 DEF crVars, EditMonitoring, EditSecrets, CredentialChanges, CAChanges,
         OperatorsChange, CRDsChange, StackBecomesReady, StackFails, ObjectDeleted
  <2> QED
    BY <1>1, <2>2, <2>3, <2>4, <2>5, <2>6, <2>7
       DEF Next, RoundStep, FaultStep, EnvironmentStep
<1>2. SweepInv /\ LifecycleInv /\ EndpointInv /\ [Next]_vars =>
        [\A p \in status.endpoints \ status'.endpoints :
            \/ cr' = "gone"
            \/ status'.conds[StackCondition[p]] \in Failing \cup {"Info"}]_vars
  BY <1>1
<1> QED
  BY <1>2, SweepInvariant, LifecycleInit, LifecycleStep, EndpointInit, EndpointStep, PTL
     DEF Spec, EndpointWithdrawnOnlyWhenConfirmed

-----------------------------------------------------------------------------
(* No bucket is shared *)

(***************************************************************************)
(* The storage gate and the sweep together keep the LokiStacks apart, for  *)
(* any specs, operators and CRDs, and for any number of failed calls and   *)
(* restarts, as long as users leave the contents of the Secrets alone.     *)
(***************************************************************************)

\* Users leave the contents of the storage Secrets alone.
SecretsSettled == \A a, b \in Stores : a = b

\* There are two pipelines.
LEMMA TwoPipelines ==
    /\ Cardinality({}) = 0
    /\ Cardinality({"usageLogs", "logs"}) = 2
<1>1. IsFiniteSet({"logs"}) /\ Cardinality({"logs"}) = 1
  BY FS_Singleton
<1>2. Cardinality({"logs"} \cup {"usageLogs"}) = Cardinality({"logs"}) + 1
  BY <1>1, FS_AddElement
<1>3. {"logs"} \cup {"usageLogs"} = {"usageLogs", "logs"}
  OBVIOUS
<1> QED BY <1>1, <1>2, <1>3, FS_EmptySet

\* The gate's word for two claimants: their locations have nothing in common.
LEMMA IsolatedApart ==
    ASSUME NEW s, checkStorageIsolation(s) = "Isolated",
           NEW p \in Claims(s), NEW q \in Claims(s), p # q
    PROVE  lokiStorageLocations(secrets, s.storage[p])
              \cap lokiStorageLocations(secrets, s.storage[q]) = {}
<1>1. Claims(s) = {"usageLogs", "logs"}
  BY DEF Claims, Pipelines
<1>2. ~(Cardinality(Claims(s)) < 2)
  BY <1>1, TwoPipelines
<1> QED BY <1>2 DEF checkStorageIsolation

\* The stacks among the rendered objects are those of claimants.
LEMMA RenderedStacks ==
    ASSUME NEW s, NEW e, NEW w, NEW p \in Pipelines,
           Stack(p) \in renderMonitoringResources(s, e, w)
    PROVE  p \in Claims(s)
<1>1. \A q : Stack(q).kind = "LokiStack" /\ Stack(q).component = q
  BY DEF Stack
<1>2. \A q : \A o \in ShipperObjects(q) : o.kind # "LokiStack"
  BY DEF ShipperObjects
<1>3. \A o \in metricsObjects(s) : o.kind # "LokiStack"
  BY DEF metricsObjects, MonitoringStack, ThanosQuerier
<1>4. \E q \in Claims(s) : Stack(p) = Stack(q)
  BY <1>1, <1>2, <1>3 DEF renderMonitoringResources, pipelineObjects
<1> QED BY <1>1, <1>4

\* The inductive invariant behind NoSharedBucketAfterSweep. A round that withholds
\* nothing was let through by the gate; it renders the stacks of claimants only;
\* and once it has applied them they use the Secrets of its spec.
BucketInv ==
    /\ secrets \in Stores
    /\ pc \in {"deploy", "sweep"} =>
          /\ round.withheld = {} => checkStorageIsolation(round.spec) = "Isolated"
          /\ \A p \in Pipelines : Stack(p) \in round.desired => p \in Claims(round.spec)
    /\ pc = "sweep" =>
          \A p \in Pipelines : Stack(p) \in live \cap round.desired
                                  => stackSecret[p] = round.spec.storage[p]

\* Initially there is no round.
LEMMA BucketInit == Init => BucketInv
BY DEF Init, BucketInv

\* The rendering pass withholds nothing only if the gate let it through.
LEMMA RenderIsolated ==
    ASSUME TypeOK, BucketInv, Render \/ GateReadFails
    PROVE  BucketInv'
<1>1. PICK v : /\ RenderWith(v)
               /\ v = checkStorageIsolation(round.spec)
                     \/ (v = "Unknown" /\ Cardinality(Claims(round.spec)) >= 2)
  BY DEF Render, GateReadFails
<1>2. round \in RoundType
  BY DEF TypeOK
<1> DEFINE w == IF v = "Isolated" THEN {} ELSE Claims(round.spec)
           d == renderMonitoringResources(round.spec, round.status.endpoints, w)
<1>3. /\ round'.spec = round.spec /\ round'.desired = d /\ round'.withheld = w
      /\ pc' = "deploy" /\ UNCHANGED secrets
  BY <1>1, <1>2 DEF RenderWith, RoundType, clusterVars
<1>4. ASSUME w = {} PROVE checkStorageIsolation(round.spec) = "Isolated"
  <2>1. CASE v = "Isolated"
    BY <1>1, <2>1
  <2>2. CASE v # "Isolated"
    <3>1. Claims(round.spec) = {}
      BY <1>4, <2>2
    <3>2. Cardinality(Claims(round.spec)) < 2
      BY <3>1, TwoPipelines
    <3> QED BY <3>2 DEF checkStorageIsolation
  <2> QED BY <2>1, <2>2
<1>5. \A p \in Pipelines : Stack(p) \in d => p \in Claims(round.spec)
  BY RenderedStacks
<1>6. checkStorageIsolation(round.spec)' = checkStorageIsolation(round.spec)
  BY <1>3 DEF checkStorageIsolation, lokiStorageLocations, Claims
<1>7. Claims(round'.spec) = Claims(round.spec)
  BY <1>3
<1> HIDE DEF w, d
<1> QED BY <1>3, <1>4, <1>5, <1>6, <1>7 DEF BucketInv, Stack, Claims

\* Behind the rendering pass a round keeps what it established.
LEMMA BucketFrame ==
    ASSUME BucketInv, UNCHANGED <<round, secrets>>, UNCHANGED pc \/ pc' = "sweep",
           pc' = "sweep" =>
              /\ pc \in {"deploy", "sweep"}
              /\ \A p \in Pipelines : Stack(p) \in live' \cap round.desired
                                         => stackSecret'[p] = round.spec.storage[p]
    PROVE  BucketInv'
<1>1. checkStorageIsolation(round.spec)' = checkStorageIsolation(round.spec)
  BY DEF checkStorageIsolation, lokiStorageLocations, Claims
<1>2. Claims(round'.spec) = Claims(round.spec)
  OBVIOUS
<1> QED BY <1>1, <1>2 DEF BucketInv, Stack, Claims

\* Objects that go take nothing from those that stay.
LEMMA BucketGone ==
    ASSUME BucketInv, UNCHANGED <<pc, round, secrets>>, live' \subseteq live,
           \A p \in Pipelines : Stack(p) \in live' => stackSecret'[p] = stackSecret[p]
    PROVE  BucketInv'
<1>1. pc' = "sweep" => /\ pc \in {"deploy", "sweep"}
                       /\ \A p \in Pipelines : Stack(p) \in live' \cap round.desired
                             => stackSecret'[p] = round.spec.storage[p]
  BY DEF BucketInv
<1> QED BY <1>1, BucketFrame

\* Every step preserves it while users leave the Secrets alone.
LEMMA BucketStep ==
    ASSUME SecretsSettled
    PROVE  SweepInv /\ BucketInv /\ [Next]_vars => BucketInv'
<1> SUFFICES ASSUME SweepInv, BucketInv, [Next]_vars PROVE BucketInv'
    OBVIOUS
<1>1. ASSUME UNCHANGED secrets, pc' \notin {"deploy", "sweep"} PROVE BucketInv'
  BY <1>1 DEF BucketInv
<1>2. CASE \/ BeginDeleting \/ Begin \/ BeginFails \/ Cleanup \/ CleanupFails
           \/ RemoveFinalizer \/ RemoveFinalizerFails \/ CleanupRemoved \/ CleanupRemovedFails
           \/ Stop \/ BuildTemplateDataFails \/ RenderFails \/ DeployRejected \/ DeployFails
           \/ PatchStatus \/ PatchStatusFails \/ Restart
  <2>1. pc' \in {"cleanup", "render", "idle", "unfinalize", "patch"}
    BY <1>2 DEF BeginDeleting, Begin, BeginFails, Cleanup, CleanupFails,
         RemoveFinalizer, RemoveFinalizerFails, CleanupRemoved, CleanupRemovedFails,
         Stop, BuildTemplateDataFails, RenderFails, DeployRejected, DeployFails,
         DeployAborts, PatchStatus, PatchStatusFails, Restart, Return, EndRound, Abort
  <2>2. UNCHANGED secrets
    BY <1>2 DEF BeginDeleting, Begin, BeginFails, Cleanup, CleanupFails,
         RemoveFinalizer, RemoveFinalizerFails, CleanupRemoved, CleanupRemovedFails,
         Stop, BuildTemplateDataFails, RenderFails, DeployRejected, DeployFails,
         DeployAborts, PatchStatus, PatchStatusFails, Restart, clusterVars
  <2> QED BY <1>1, <2>1, <2>2
<1>3. CASE Sweep \/ SweepFails
  BY <1>1, <1>3 DEF Sweep, SweepFails, Publish, clusterVars
<1>4. CASE Render \/ GateReadFails
  BY <1>4, RenderIsolated DEF SweepInv
<1>5. CASE Deploy
  <2>1. /\ pc = "deploy" /\ pc' = "sweep" /\ UNCHANGED <<round, secrets>>
        /\ SetObjects(live \cup deployResources, deployResources, round.spec)
    BY <1>5 DEF Deploy, clusterVars
  <2>2. \A p \in Pipelines : Stack(p) \in round.desired => Stack(p) \in deployResources
    BY DEF deployResources, Stack, MonitoringStack
  <2>3. \A p \in Pipelines : Stack(p) \in round.desired
                                => stackSecret'[p] = round.spec.storage[p]
    BY <2>1, <2>2 DEF SetObjects
  <2> QED BY <2>1, <2>3, BucketFrame
<1>6. CASE TimerFires \/ BeginGone \/ UNCHANGED vars
  BY <1>6, BucketGone DEF TimerFires, BeginGone, vars, objectVars, clusterVars
<1>7. CASE EditSecrets
  BY <1>7, SecretsSettled DEF EditSecrets, BucketInv, SecretsSettled
<1>8. CASE \/ CreateMonitoring \/ EditMonitoring \/ DeleteMonitoring \/ CredentialChanges
           \/ CAChanges \/ OperatorsChange
           \/ \E p \in Pipelines : StackBecomesReady(p) \/ StackFails(p)
  BY <1>8, BucketGone DEF CreateMonitoring, EditMonitoring, DeleteMonitoring,
       CredentialChanges, CAChanges, OperatorsChange, StackBecomesReady, StackFails,
       objectVars, clusterVars
<1>9. CASE CRDsChange \/ \E o \in Objects : ObjectDeleted(o)
  <2>1. PICK objs \in SUBSET live : SetObjects(objs, {}, EmptySpec)
    BY <1>9 DEF CRDsChange, ObjectDeleted
  <2>2. UNCHANGED <<pc, round, secrets>>
    BY <1>9 DEF CRDsChange, ObjectDeleted, clusterVars
  <2>3. /\ live' \subseteq live
        /\ \A p \in Pipelines : Stack(p) \in live' => stackSecret'[p] = stackSecret[p]
    BY <2>1 DEF SetObjects
  <2> QED BY <2>2, <2>3, BucketGone
<1> QED
  BY <1>2, <1>3, <1>4, <1>5, <1>6, <1>7, <1>8, <1>9
     DEF Next, RoundStep, FaultStep, EnvironmentStep

\* A round that the storage gate let through, and that swept all it should, leaves
\* no two LokiStacks on one bucket: what stays was rendered, what was rendered is
\* claimed and uses the Secrets of the spec, and the gate compared those.
THEOREM BucketsApart == SecretsSettled => (Spec => NoSharedBucketAfterSweep)
<1> SUFFICES ASSUME SecretsSettled PROVE Spec => NoSharedBucketAfterSweep
    OBVIOUS
<1>1. ASSUME SweepInv, BucketInv, [Next]_vars, pc = "sweep", pc' = "patch",
             round.withheld = {}, live' = live \ garbage
      PROVE  ~SharedBucket'
  <2>1. PICK collected \in SUBSET garbage : SetObjects(live \ collected, {}, EmptySpec)
    BY <1>1, ApplyAndSweep
  <2>2. UNCHANGED secrets
    <3>1. BucketInv'
      BY <1>1, BucketStep
    <3> QED BY <1>1, <3>1 DEF BucketInv, SecretsSettled
  <2>3. ASSUME NEW p \in Pipelines, Stack(p) \in live'
        PROVE  p \in Claims(round.spec) /\ stackSecret'[p] = round.spec.storage[p]
    <3>1. Stack(p) \in live \cap round.desired
      BY <1>1, <2>3 DEF garbage, shouldCollect, Stack
    <3>2. stackSecret'[p] = stackSecret[p]
      BY <2>1, <2>3 DEF SetObjects
    <3> QED BY <1>1, <3>1, <3>2, <2>3 DEF BucketInv
  <2>4. ASSUME NEW p \in Pipelines, NEW q \in Pipelines, p # q,
               Stack(p) \in live', Stack(q) \in live'
        PROVE  lokiStorageLocations(secrets', stackSecret'[p])
                  \cap lokiStorageLocations(secrets', stackSecret'[q]) = {}
    <3>1. checkStorageIsolation(round.spec) = "Isolated"
      BY <1>1 DEF BucketInv
    <3> QED BY <2>2, <2>3, <2>4, <3>1, IsolatedApart
  <2> QED BY <2>4 DEF SharedBucket, Stack, lokiStorageLocations
<1>2. SweepInv /\ BucketInv /\ [Next]_vars =>
        [/\ pc = "sweep" /\ pc' = "patch"
         /\ round.withheld = {} /\ live' = live \ garbage
         => ~SharedBucket']_vars
  BY <1>1
<1> QED BY <1>2, SweepInvariant, BucketInit, BucketStep, PTL DEF Spec, NoSharedBucketAfterSweep
=============================================================================
