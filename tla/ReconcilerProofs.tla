-------------------------- MODULE ReconcilerProofs --------------------------
(***************************************************************************)
(* Proofs of the safety properties of the reconcile round, for any specs,  *)
(* store contents, operators, CRDs and disturbances, and for any number of *)
(* failed calls and restarts; and that the round implements Custody.       *)
(***************************************************************************)
EXTENDS MonitoringReconciler, TLAPS

-----------------------------------------------------------------------------
(* Types, and lemmas on the operators of the model *)

Conds == [ConditionTypes -> Verdicts]

\* The part of TypeOK that SetObjects is responsible for.
ObjectsOK ==
    /\ live \subseteq Objects
    /\ legacy \subseteq live
    /\ stackSecret \in [Pipelines -> Secrets \cup {NoSecret}]
    /\ ready \subseteq {p \in Pipelines : Stack(p) \in live}

\* The part that the CR, its queue and the rest of the cluster are responsible for.
ClusterOK ==
    /\ cr \in {"gone", "fresh", "live", "deleting"}
    /\ spec \in SpecType
    /\ status \in StatusType
    /\ queued \in BOOLEAN /\ timer \in BOOLEAN
    /\ secrets \in StoreType
    /\ operators \subseteq Operators
    /\ crds \subseteq CRDs
    /\ credential \in BOOLEAN /\ caInjected \in BOOLEAN

\* The part that the running round is responsible for.
RoundOK ==
    /\ pc \in {"idle", "cleanup", "unfinalize", "render", "deploy", "sweep", "patch"}
    /\ round \in RoundType

\* The part that ties the round to its CR.
PhaseOK ==
    /\ pc # "idle" => cr \in {"live", "deleting"}
    /\ pc \in {"cleanup", "unfinalize"} => cr = "deleting"

\* TypeOK, taken apart.
LEMMA TypeParts ==
    TypeOK <=> ObjectsOK /\ ClusterOK /\ RoundOK /\ PhaseOK /\ faults \in 0..MaxFaults
BY DEF TypeOK, ObjectsOK, ClusterOK, RoundOK, PhaseOK

-----------------------------------------------------------------------------
(* The operators on conditions *)

\* Pipelines are told apart by their stack and shipper conditions, which are
\* feature conditions.
LEMMA ConditionNames ==
    /\ \A p \in Pipelines : StackCondition[p] \in FeatureConditions
    /\ \A p \in Pipelines : ShipperCondition[p] \in FeatureConditions
    /\ FeatureConditions \subseteq ConditionTypes
BY DEF Pipelines, StackCondition, ShipperCondition, FeatureConditions, ConditionTypes

\* Mark replaces one condition.
LEMMA MarkType ==
    ASSUME NEW conds \in Conds, NEW c \in ConditionTypes, NEW v \in Verdicts
    PROVE  Mark(conds, c, v) \in Conds
BY DEF Conds, Mark

\* MarkTopLevel replaces three conditions and keeps the others.
LEMMA MarkTopLevelType ==
    ASSUME NEW conds \in Conds, NEW r \in Verdicts, NEW p \in Verdicts, NEW d \in Verdicts
    PROVE  /\ MarkTopLevel(conds, r, p, d) \in Conds
           /\ MarkTopLevel(conds, r, p, d)["Ready"] = r
           /\ MarkTopLevel(conds, r, p, d)["MonitoringDependenciesReady"]
                 = conds["MonitoringDependenciesReady"]
           /\ \A f \in FeatureConditions : MarkTopLevel(conds, r, p, d)[f] = conds[f]
BY DEF Conds, MarkTopLevel, ConditionTypes, FeatureConditions

\* The verdicts that are used by name.
LEMMA VerdictNames ==
    /\ {"Absent", "True", "Info", "Unknown", "False"} \subseteq Verdicts
    /\ Failing \subseteq Verdicts
BY DEF Verdicts, Failing

\* The derived top-level conditions are conditions.
LEMMA AggregateReadyType ==
    ASSUME NEW conds \in Conds
    PROVE  /\ AggregateReady(conds) \in Conds
           /\ MarkReconcileFailed(conds) \in Conds
           /\ MarkStopped(conds) \in Conds
BY MarkTopLevelType, VerdictNames DEF AggregateReady, AggregateOver, MarkReconcileFailed, MarkStopped

\* Every action of the rendering pass marks conditions with verdicts.
LEMMA VerdictTypes ==
    ASSUME NEW s, NEW e, NEW f
    PROVE  /\ \A p \in Pipelines : lokiStackVerdict(s, p) \in Verdicts
           /\ usageLogsCollectorVerdict(s, e) \in Verdicts
           /\ clusterLogForwarderVerdict(s, f) \in Verdicts
BY DEF lokiStackVerdict, usageLogsCollectorVerdict, clusterLogForwarderVerdict, Verdicts, Failing

\* So are those that the metrics action leaves,
LEMMA DeployMonitoringStackType ==
    ASSUME NEW conds \in Conds, NEW s
    PROVE  deployMonitoringStack(conds, s) \in Conds
BY VerdictNames DEF Conds, deployMonitoringStack

\* and those that the actions of one pipeline leave.
LEMMA DeployPipelineType ==
    ASSUME NEW conds \in Conds, NEW s, NEW e, NEW p \in Pipelines, NEW w, NEW f
    PROVE  deployPipeline(conds, s, e, p, w, f) \in Conds
<1>1. /\ StackCondition[p] \in ConditionTypes
      /\ ShipperCondition[p] \in ConditionTypes
  BY ConditionNames
<1>2. CASE p \in w
  BY <1>1, <1>2, MarkType DEF deployPipeline, Conds
<1>3. CASE p \notin w
  <2> DEFINE a == lokiStackVerdict(s, p)
             b == IF p = "usageLogs" THEN usageLogsCollectorVerdict(s, e)
                  ELSE clusterLogForwarderVerdict(s, f)
  <2>1. a \in Verdicts /\ b \in Verdicts
    BY VerdictTypes
  <2>2. deployPipeline(conds, s, e, p, w, f)
          = [conds EXCEPT ![StackCondition[p]] = a, ![ShipperCondition[p]] = b]
    BY <1>3 DEF deployPipeline
  <2> HIDE DEF a, b
  <2> QED BY <1>1, <2>1, <2>2 DEF Conds
<1> QED BY <1>2, <1>3

\* The storage gate answers with one of three words, the latter two of which are
\* verdicts on the stacks it withholds.
LEMMA GateVerdicts ==
    ASSUME NEW s
    PROVE  checkStorageIsolation(s) \in {"Isolated", "Unknown", "StorageConflict"}
BY DEF checkStorageIsolation

\* The fields of a round.
LEMMA RoundFields ==
    ASSUME NEW r \in RoundType
    PROVE  /\ r.spec \in SpecType
           /\ r.status \in StatusType
           /\ r.status.conds \in Conds
           /\ r.status.endpoints \in SUBSET Pipelines
           /\ r.desired \in SUBSET Objects
           /\ r.withheld \in SUBSET Pipelines
           /\ r.caReady \in BOOLEAN
           /\ r.result \in {"done", "requeue", "error"}
BY DEF RoundType, StatusType, Conds

\* The conditions of a round stay conditions as the round proceeds.
LEMMA WithTypes ==
    ASSUME NEW r \in RoundType, NEW w \in SUBSET Pipelines, NEW f,
           NEW v, w = {} \/ v \in Verdicts
    PROVE  /\ WithDependencies(r) \in Conds
           /\ WithMonitoringStack(r) \in Conds
           /\ WithGate(r, w, v) \in Conds
           /\ WithUsageLogs(r, w, v) \in Conds
           /\ WithPipelines(r, w, v, f) \in Conds
<1>1. WithDependencies(r) \in Conds
  BY RoundFields, MarkType, VerdictNames DEF WithDependencies, ConditionTypes
<1>2. WithMonitoringStack(r) \in Conds
  BY <1>1, DeployMonitoringStackType DEF WithMonitoringStack
<1>3. WithGate(r, w, v) \in Conds
  BY <1>2 DEF WithGate, Conds
<1>4. "usageLogs" \in Pipelines /\ "logs" \in Pipelines
  BY DEF Pipelines
<1>5. WithUsageLogs(r, w, v) \in Conds
  BY <1>3, <1>4, DeployPipelineType DEF WithUsageLogs
<1>6. WithPipelines(r, w, v, f) \in Conds
  BY <1>5, <1>4, DeployPipelineType DEF WithPipelines
<1> QED BY <1>1, <1>2, <1>3, <1>5, <1>6

\* What the gate withholds, and that its word is a verdict when it does.
LEMMA Withholding ==
    ASSUME NEW s \in SpecType, NEW v \in {"Isolated", "Unknown", "StorageConflict"},
           NEW w, w = IF v = "Isolated" THEN {} ELSE Claims(s)
    PROVE  /\ w \in SUBSET Pipelines
           /\ w \subseteq Claims(s)
           /\ w = {} \/ v \in Verdicts
BY DEF Claims, Verdicts, Failing

-----------------------------------------------------------------------------
(* The operators on objects *)

\* The constituents of Objects.
LEMMA ObjectNames ==
    /\ \A p \in Pipelines : Stack(p) \in Objects
    /\ \A p \in Pipelines : ShipperObjects(p) \subseteq Objects
    /\ MonitoringStack \in Objects /\ ThanosQuerier \in Objects
<1>1. ASSUME NEW p \in Pipelines
      PROVE  {Stack(p)} \cup ShipperObjects(p) \subseteq Objects
  BY <1>1 DEF Objects
<1>2. MonitoringStack \in Objects /\ ThanosQuerier \in Objects
  BY DEF Objects
<1> QED BY <1>1, <1>2

\* A round renders objects of the model only.
LEMMA RenderType ==
    ASSUME NEW s \in SpecType, NEW e, NEW w
    PROVE  renderMonitoringResources(s, e, w) \in SUBSET Objects
<1>1. metricsObjects(s) \subseteq Objects
  BY ObjectNames DEF metricsObjects
<1>2. pipelineObjects(s, e, w) \subseteq Objects
  BY ObjectNames DEF pipelineObjects, Claims
<1> QED BY <1>1, <1>2 DEF renderMonitoringResources

\* SetObjects keeps what is known of the objects in step with them.
LEMMA SetObjectsType ==
    ASSUME ObjectsOK, NEW objs \in SUBSET Objects, NEW applied \in SUBSET objs,
           NEW s \in SpecType, SetObjects(objs, applied, s)
    PROVE  ObjectsOK'
<1>1. live' \subseteq Objects /\ legacy' \subseteq live'
  BY DEF SetObjects
<1>2. stackSecret' \in [Pipelines -> Secrets \cup {NoSecret}]
  BY DEF SetObjects, ObjectsOK, SpecType
<1>3. ready' \subseteq {p \in Pipelines : Stack(p) \in live'}
  BY DEF SetObjects, ObjectsOK
<1> QED BY <1>1, <1>2, <1>3 DEF ObjectsOK

\* The empty spec and the empty round are well typed.
LEMMA EmptyTypes ==
    /\ EmptySpec \in SpecType
    /\ EmptyStatus \in StatusType
    /\ NoRound \in RoundType
<1>1. EmptySpec \in SpecType
  BY DEF EmptySpec, SpecType
<1>2. EmptyStatus \in StatusType
  BY DEF EmptyStatus, StatusType, Verdicts
<1> QED BY <1>1, <1>2 DEF NoRound, RoundOf, RoundType

\* So is the round that starts from a spec and a status.
LEMMA RoundOfType ==
    ASSUME NEW s \in SpecType, NEW st \in StatusType
    PROVE  RoundOf(s, st) \in RoundType
BY DEF RoundOf, RoundType

\* The ways for a round to end in memory.
LEMMA EndRoundType ==
    ASSUME round \in RoundType, NEW c \in Conds,
           NEW res \in {"done", "requeue", "error"}, EndRound(c, res)
    PROVE  RoundOK'
BY DEF EndRound, RoundOK, RoundType, StatusType, Conds

\* An error ends it with the failure marked on the top level.
LEMMA AbortType ==
    ASSUME round \in RoundType, NEW c \in Conds, Abort(c)
    PROVE  RoundOK'
BY EndRoundType, AggregateReadyType DEF Abort

\* Going back to the work queue.
LEMMA ReturnType ==
    ASSUME NEW b \in BOOLEAN, timer \in BOOLEAN, Return(b)
    PROVE  RoundOK' /\ timer' \in BOOLEAN
BY EmptyTypes DEF Return, RoundOK

-----------------------------------------------------------------------------
(* The steps *)

\* The steps at the two ends of a round, which do not touch its objects.
LEMMA QueueStepTypes ==
    ASSUME TypeOK,
           \/ TimerFires \/ BeginGone \/ BeginDeleting \/ Begin \/ BeginFails
           \/ RemoveFinalizer \/ RemoveFinalizerFails
           \/ PatchStatus \/ PatchStatusFails \/ Restart
    PROVE  ObjectsOK' /\ ClusterOK' /\ RoundOK'
<1> USE TypeParts
<1>1. ObjectsOK'
  BY DEF ObjectsOK, objectVars, TimerFires, BeginGone, BeginDeleting, Begin, BeginFails,
         RemoveFinalizer, RemoveFinalizerFails, PatchStatus, PatchStatusFails, Restart
<1>2. CASE TimerFires \/ BeginGone \/ BeginDeleting \/ Restart
  BY <1>1, <1>2, EmptyTypes
     DEF ClusterOK, RoundOK, crVars, clusterVars, TimerFires, BeginGone, BeginDeleting, Restart
<1>3. CASE Begin
  BY <1>1, <1>3, RoundOfType DEF ClusterOK, RoundOK, clusterVars, Begin
<1>4. CASE BeginFails \/ RemoveFinalizerFails \/ PatchStatusFails
  <2>1. RoundOK' /\ timer' \in BOOLEAN
    BY <1>4, ReturnType DEF ClusterOK, BeginFails, RemoveFinalizerFails, PatchStatusFails
  <2> QED
    BY <1>1, <1>4, <2>1
       DEF ClusterOK, crVars, clusterVars, BeginFails, RemoveFinalizerFails, PatchStatusFails
<1>5. CASE RemoveFinalizer
  <2>1. RoundOK' /\ timer' \in BOOLEAN
    BY <1>5, ReturnType DEF ClusterOK, RemoveFinalizer
  <2> QED BY <1>1, <1>5, <2>1, EmptyTypes DEF ClusterOK, clusterVars, RemoveFinalizer
<1>6. CASE PatchStatus
  <2>1. round.status \in StatusType /\ (round.result # "done") \in BOOLEAN
    BY RoundFields DEF RoundOK
  <2>2. RoundOK' /\ timer' \in BOOLEAN
    BY <1>6, <2>1, ReturnType DEF ClusterOK, PatchStatus
  <2> QED BY <1>1, <1>6, <2>1, <2>2 DEF ClusterOK, clusterVars, PatchStatus
<1> QED BY <1>2, <1>3, <1>4, <1>5, <1>6

\* The cleanup behind a deletion or a Removed.
LEMMA CleanupTypes ==
    ASSUME TypeOK, Cleanup \/ CleanupFails \/ CleanupRemoved \/ CleanupRemovedFails
    PROVE  ObjectsOK' /\ ClusterOK' /\ RoundOK'
<1> USE TypeParts, EmptyTypes
<1>1. PICK left \in SUBSET live : SetObjects(left, {}, EmptySpec) /\ ObjectEvents(left)
  BY DEF Cleanup, CleanupFails, CleanupRemoved, CleanupRemovedFails
<1>2. ObjectsOK'
  BY <1>1, SetObjectsType DEF ObjectsOK
<1>3. queued' \in BOOLEAN
  BY <1>1 DEF ObjectEvents, ClusterOK
<1>4. round \in RoundType /\ round.status.conds \in Conds
  BY RoundFields DEF RoundOK
<1>5. CASE Cleanup
  BY <1>2, <1>3, <1>5 DEF ClusterOK, RoundOK, crVars, clusterVars, Cleanup
<1>6. CASE CleanupFails
  <2>1. RoundOK' /\ timer' \in BOOLEAN
    BY <1>6, ReturnType DEF ClusterOK, CleanupFails
  <2> QED BY <1>2, <1>3, <1>6, <2>1 DEF ClusterOK, crVars, clusterVars, CleanupFails
<1>7. CASE CleanupRemoved
  <2>1. MarkStopped(Mark(round.status.conds, "MonitoringDependenciesReady", "Info")) \in Conds
    BY <1>4, MarkType, AggregateReadyType, VerdictNames DEF ConditionTypes
  <2>2. RoundOK'
    BY <1>4, <1>7, <2>1, EndRoundType DEF CleanupRemoved
  <2> QED BY <1>2, <1>3, <1>7, <2>2 DEF ClusterOK, crVars, clusterVars, CleanupRemoved
<1>8. CASE CleanupRemovedFails
  <2>1. RoundOK'
    BY <1>4, <1>8, AbortType DEF CleanupRemovedFails
  <2> QED BY <1>2, <1>3, <1>8, <2>1 DEF ClusterOK, crVars, clusterVars, CleanupRemovedFails
<1> QED BY <1>5, <1>6, <1>7, <1>8

\* A call that fails ahead of the apply aborts the round with the conditions it
\* had marked by then.
LEMMA RenderFailsAborts ==
    ASSUME TypeOK, RenderFails
    PROVE  \E c \in Conds : Abort(c)
<1>1. round \in RoundType /\ round.status.conds \in Conds /\ round.spec \in SpecType
  BY RoundFields DEF TypeOK
<1>2. WithDependencies(round) \in Conds /\ WithMonitoringStack(round) \in Conds
  BY <1>1, WithTypes
<1> DEFINE v == checkStorageIsolation(round.spec)
           w == IF v = "Isolated" THEN {} ELSE Claims(round.spec)
           before(p) == IF p = "usageLogs" THEN WithGate(round, w, v)
                        ELSE WithUsageLogs(round, w, v)
<1>3. w \in SUBSET Pipelines /\ (w = {} \/ v \in Verdicts)
  BY <1>1, GateVerdicts, Withholding
<1>4. \A p : before(p) \in Conds
  BY <1>1, <1>3, WithTypes
<1>5. \A f : WithPipelines(round, w, v, f) \in Conds
  BY <1>1, <1>3, WithTypes
<1>6. \A p \in Pipelines :
         /\ Mark(before(p), StackCondition[p], "Unknown") \in Conds
         /\ Mark(before(p), StackCondition[p], lokiStackVerdict(round.spec, p)) \in Conds
  BY <1>4, MarkType, ConditionNames, VerdictNames, VerdictTypes
<1>7. Claims(round.spec) \subseteq Pipelines
  BY DEF Claims
<1> QED BY <1>1, <1>2, <1>5, <1>6, <1>7 DEF RenderFails

\* The early returns, and the calls that fail ahead of the apply: the round ends
\* with conditions, whichever of them it had marked by then.
LEMMA StopTypes ==
    ASSUME TypeOK, Stop \/ BuildTemplateDataFails \/ RenderFails
    PROVE  ObjectsOK' /\ ClusterOK' /\ RoundOK'
<1> USE TypeParts
<1>1. ObjectsOK' /\ ClusterOK'
  BY DEF ObjectsOK, ClusterOK, objectVars, crVars, queueVars, clusterVars,
         Stop, BuildTemplateDataFails, RenderFails
<1>2. round \in RoundType /\ round.status.conds \in Conds /\ round.spec \in SpecType
  BY RoundFields DEF RoundOK
<1>3. StopResult \in {"done", "requeue", "error"}
  BY DEF StopResult
<1>4. WithDependencies(round) \in Conds /\ WithMonitoringStack(round) \in Conds
  BY <1>2, WithTypes
<1>5. CASE Stop
  <2>1. /\ MarkStopped(round.status.conds) \in Conds
        /\ AggregateReady(Mark(round.status.conds, "MonitoringDependenciesReady", "False"))
              \in Conds
        /\ MarkStopped(Mark(WithDependencies(round), "UsageLogsCollectorAvailable", "False"))
              \in Conds
    BY <1>2, <1>4, MarkType, AggregateReadyType, VerdictNames
       DEF ConditionTypes, FeatureConditions
  <2> QED BY <1>1, <1>2, <1>3, <1>5, <2>1, EndRoundType DEF Stop
<1>6. CASE BuildTemplateDataFails
  BY <1>1, <1>2, <1>3, <1>4, <1>6, AggregateReadyType, EndRoundType DEF BuildTemplateDataFails
<1>7. CASE RenderFails
  BY <1>1, <1>2, <1>7, RenderFailsAborts, AbortType
<1> QED BY <1>5, <1>6, <1>7

\* The rendering pass.
LEMMA RenderStepTypes ==
    ASSUME TypeOK, Render \/ GateReadFails
    PROVE  ObjectsOK' /\ ClusterOK' /\ RoundOK'
<1> USE TypeParts
<1>1. PICK v \in {"Isolated", "Unknown", "StorageConflict"} : RenderWith(v)
  BY GateVerdicts DEF Render, GateReadFails
<1>2. ObjectsOK' /\ ClusterOK'
  BY <1>1 DEF ObjectsOK, ClusterOK, objectVars, crVars, queueVars, clusterVars, RenderWith
<1>3. round \in RoundType /\ round.spec \in SpecType
  BY RoundFields DEF RoundOK
<1> DEFINE w == IF v = "Isolated" THEN {} ELSE Claims(round.spec)
           d == renderMonitoringResources(round.spec, round.status.endpoints, w)
           ca == MonitoringStack \in d => caInjected
<1>4. w \in SUBSET Pipelines /\ (w = {} \/ v \in Verdicts)
  BY <1>3, Withholding
<1>5. d \in SUBSET Objects
  BY <1>3, RenderType
<1>6. ca \in BOOLEAN
  OBVIOUS
<1>7. PICK f \in BOOLEAN :
        round' = [round EXCEPT
            !.status.conds = IF ca THEN WithPipelines(round, w, v, f)
                             ELSE Mark(WithPipelines(round, w, v, f),
                                       "MonitoringStackAvailable", "False"),
            !.desired = d, !.withheld = w, !.caReady = ca]
  BY <1>1 DEF RenderWith
<1> DEFINE c == IF ca THEN WithPipelines(round, w, v, f)
                ELSE Mark(WithPipelines(round, w, v, f), "MonitoringStackAvailable", "False")
<1>8. c \in Conds
  BY <1>3, <1>4, WithTypes, MarkType, VerdictNames DEF ConditionTypes, FeatureConditions
<1>9. pc' = "deploy"
  BY <1>1 DEF RenderWith
<1>10. round' = [round EXCEPT !.status.conds = c, !.desired = d, !.withheld = w, !.caReady = ca]
  BY <1>7
<1> HIDE DEF w, d, ca, c
<1> QED BY <1>2, <1>3, <1>4, <1>5, <1>6, <1>8, <1>9, <1>10
        DEF RoundOK, RoundType, StatusType, Conds

\* The apply.
LEMMA DeployTypes ==
    ASSUME TypeOK, Deploy \/ DeployRejected \/ DeployFails
    PROVE  ObjectsOK' /\ ClusterOK' /\ RoundOK'
<1> USE TypeParts
<1>1. round \in RoundType /\ round.spec \in SpecType /\ round.status.conds \in Conds
  BY RoundFields DEF RoundOK
<1>2. deployResources \subseteq Objects
  BY RoundFields DEF RoundOK, deployResources
<1>3. PICK applied \in SUBSET deployResources :
        /\ SetObjects(live \cup applied, applied, round.spec)
        /\ ObjectEvents(live \cup applied)
  BY DEF Deploy, DeployRejected, DeployFails, DeployAborts
<1>4. ObjectsOK'
  BY <1>1, <1>2, <1>3, SetObjectsType DEF ObjectsOK
<1>5. queued' \in BOOLEAN
  BY <1>3 DEF ObjectEvents, ClusterOK
<1>6. CASE Deploy
  BY <1>4, <1>5, <1>6 DEF ClusterOK, RoundOK, crVars, clusterVars, Deploy
<1>7. CASE DeployRejected \/ DeployFails
  <2>1. RoundOK'
    BY <1>1, <1>7, AbortType DEF DeployRejected, DeployFails, DeployAborts
  <2> QED
    BY <1>4, <1>5, <1>7, <2>1
       DEF ClusterOK, crVars, clusterVars, DeployRejected, DeployFails, DeployAborts
<1> QED BY <1>6, <1>7

\* What a round has in memory after the sweep.
LEMMA PublishType ==
    ASSUME round \in RoundType, NEW g \in BOOLEAN, NEW y \in BOOLEAN, Publish(g, y)
    PROVE  RoundOK'
<1> DEFINE r == IF y THEN round
                ELSE [round EXCEPT !.status.conds =
                        Mark(round.status.conds, "MonitoringStackAvailable", "False")]
           agg == AggregateReady(r.status.conds)
           res == resultOf(r, g)
           c == IF res = "error" THEN MarkReconcileFailed(agg)
                ELSE IF r.caReady THEN agg
                ELSE Mark(agg, "ProvisioningSucceeded", "False")
           e == publishLokiEndpoints(r)
           f == /\ r.status.conds["UsageLogsCollectorAvailable"] = "True"
                /\ r.spec.exporters # "none"
<1>1. Mark(round.status.conds, "MonitoringStackAvailable", "False") \in Conds
  BY RoundFields, MarkType, VerdictNames DEF ConditionTypes, FeatureConditions
<1>2. r \in RoundType
  BY <1>1 DEF RoundType, StatusType, Conds
<1>3. r.status.conds \in Conds
  BY <1>2, RoundFields
<1>4. res \in {"done", "requeue", "error"}
  BY DEF resultOf
<1>5. agg \in Conds
  BY <1>3, AggregateReadyType
<1>6. c \in Conds
  BY <1>5, AggregateReadyType, MarkType, VerdictNames DEF ConditionTypes
<1>7. e \in SUBSET Pipelines
  BY DEF publishLokiEndpoints, Claims
<1>8. f \in BOOLEAN
  OBVIOUS
<1>9. /\ pc' = "patch"
      /\ round' = [r EXCEPT !.status = [conds |-> c, endpoints |-> e, forwarding |-> f],
                            !.result = res]
  BY DEF Publish
<1> HIDE DEF r, agg, res, c, e, f
<1>10. [conds |-> c, endpoints |-> e, forwarding |-> f] \in StatusType
  BY <1>6, <1>7, <1>8 DEF StatusType, Conds
<1> QED BY <1>2, <1>4, <1>9, <1>10 DEF RoundOK, RoundType

\* The sweep.
LEMMA SweepTypes ==
    ASSUME TypeOK, Sweep \/ SweepFails
    PROVE  ObjectsOK' /\ ClusterOK' /\ RoundOK'
<1> USE TypeParts, EmptyTypes
<1>1. garbage \subseteq live
  BY DEF garbage
<1>2. PICK collected \in SUBSET garbage, g \in BOOLEAN, y \in BOOLEAN :
        /\ SetObjects(live \ collected, {}, EmptySpec)
        /\ ObjectEvents(live \ collected)
        /\ Publish(g, y)
  BY DEF Sweep, SweepFails
<1>3. ObjectsOK'
  BY <1>2, SetObjectsType DEF ObjectsOK
<1>4. queued' \in BOOLEAN
  BY <1>2 DEF ObjectEvents, ClusterOK
<1>5. RoundOK'
  BY <1>2, PublishType DEF RoundOK
<1> QED BY <1>3, <1>4, <1>5 DEF ClusterOK, crVars, clusterVars, Sweep, SweepFails

\* The environment.
LEMMA EnvironmentTypes ==
    ASSUME TypeOK, EnvironmentStep
    PROVE  ObjectsOK' /\ ClusterOK' /\ RoundOK'
<1> USE TypeParts, EmptyTypes
<1>1. CASE CreateMonitoring \/ EditMonitoring \/ DeleteMonitoring
  BY <1>1, SpecsAssumption
     DEF ObjectsOK, ClusterOK, RoundOK, objectVars, clusterVars,
         CreateMonitoring, EditMonitoring, DeleteMonitoring
<1>2. CASE EditSecrets \/ CredentialChanges \/ CAChanges \/ OperatorsChange
  <2>1. UNCHANGED <<objectVars, pc, round>>
    BY <1>2 DEF EditSecrets, CredentialChanges, CAChanges, OperatorsChange
  <2>2. ObjectsOK' /\ RoundOK'
    BY <2>1 DEF ObjectsOK, RoundOK, objectVars
  <2>3. CASE EditSecrets
    BY <2>2, <2>3, StoresAssumption DEF ClusterOK, crVars, EditSecrets
  <2>4. CASE CredentialChanges \/ CAChanges
    BY <2>2, <2>4 DEF ClusterOK, crVars, queueVars, CredentialChanges, CAChanges
  <2>5. CASE OperatorsChange
    BY <2>2, <2>5, ClusterAssumption DEF ClusterOK, crVars, queueVars, OperatorsChange
  <2> QED BY <1>2, <2>3, <2>4, <2>5
<1>3. CASE CRDsChange
  <2>1. ObjectsOK'
    BY <1>3, SetObjectsType DEF CRDsChange, ObjectsOK
  <2> QED BY <1>3, <2>1, ClusterAssumption DEF ClusterOK, RoundOK, crVars, CRDsChange
<1>4. ASSUME NEW p \in Pipelines, StackBecomesReady(p) \/ StackFails(p)
      PROVE  ObjectsOK' /\ ClusterOK' /\ RoundOK'
  BY <1>4 DEF ObjectsOK, ClusterOK, RoundOK, crVars, queueVars, clusterVars,
              StackBecomesReady, StackFails
<1>5. ASSUME NEW o \in Objects, ObjectDeleted(o)
      PROVE  ObjectsOK' /\ ClusterOK' /\ RoundOK'
  <2>1. ObjectsOK'
    BY <1>5, SetObjectsType DEF ObjectDeleted, ObjectsOK
  <2> QED BY <1>5, <2>1 DEF ClusterOK, RoundOK, crVars, clusterVars, ObjectDeleted
<1> QED BY <1>1, <1>2, <1>3, <1>4, <1>5 DEF EnvironmentStep

-----------------------------------------------------------------------------
(* The theorem *)

\* A new installation and an upgraded one are well typed.
LEMMA TypeInit == Init => TypeOK
<1> SUFFICES ASSUME Init PROVE TypeOK
    OBVIOUS
<1> USE EmptyTypes, ObjectNames
<1>1. /\ secrets \in StoreType /\ operators \subseteq Operators /\ crds \subseteq CRDs
      /\ faults \in 0..MaxFaults
  BY StoresAssumption, ClusterAssumption, MaxFaultsAssumption DEF Init
<1>2. RoundOK /\ PhaseOK
  BY DEF Init, RoundOK, PhaseOK
<1>3. CASE cr = "gone" /\ spec = EmptySpec /\ status = EmptyStatus
           /\ live = {} /\ legacy = {} /\ ready = {}
           /\ stackSecret = [p \in Pipelines |-> NoSecret]
  BY <1>1, <1>2, <1>3, TypeParts DEF Init, ObjectsOK, ClusterOK
<1>4. CASE /\ cr = "live" /\ spec \in Specs
           /\ status \in {EmptyStatus, [EmptyStatus EXCEPT !.endpoints = {"usageLogs"}]}
           /\ live \in {{Stack("logs")}, {Stack("logs")} \cup ShipperObjects("usageLogs")}
           /\ legacy = live /\ ready = {"logs"}
           /\ stackSecret = [usageLogs |-> NoSecret,
                             logs      |-> spec.storage["usageLogs"]]
  <2>1. spec \in SpecType
    BY <1>4, SpecsAssumption
  <2>2. [EmptyStatus EXCEPT !.endpoints = {"usageLogs"}] \in StatusType
    BY DEF StatusType, Pipelines
  <2>3. stackSecret \in [Pipelines -> Secrets \cup {NoSecret}]
    BY <1>4, <2>1 DEF SpecType, Pipelines
  <2>4. ObjectsOK
    BY <1>4, <2>3 DEF ObjectsOK, Pipelines
  <2>5. ClusterOK
    BY <1>1, <1>4, <2>1, <2>2 DEF Init, ClusterOK
  <2> QED BY <1>1, <1>2, <2>4, <2>5, TypeParts
<1> QED BY <1>3, <1>4 DEF Init

\* Every step preserves what ties the round to its CR: the CR loses its finalizer
\* in the last step of a round, and nothing else ends it while a round runs.
LEMMA PhaseStep == PhaseOK /\ [Next]_vars => PhaseOK'
<1> SUFFICES ASSUME PhaseOK, [Next]_vars PROVE PhaseOK'
    OBVIOUS
<1>1. CASE \/ BeginFails \/ CleanupFails \/ RemoveFinalizer \/ RemoveFinalizerFails
           \/ PatchStatus \/ PatchStatusFails \/ Restart
  <2>1. pc' = "idle"
    BY <1>1 DEF BeginFails, CleanupFails, RemoveFinalizer, RemoveFinalizerFails,
         PatchStatus, PatchStatusFails, Restart, Return
  <2> QED BY <2>1 DEF PhaseOK
<1>2. CASE BeginDeleting \/ Begin \/ Cleanup
  BY <1>2 DEF PhaseOK, BeginDeleting, Begin, Cleanup, crVars
<1>3. CASE \/ CleanupRemoved \/ CleanupRemovedFails \/ Stop \/ BuildTemplateDataFails
           \/ RenderFails \/ Deploy \/ DeployRejected \/ DeployFails \/ Sweep \/ SweepFails
  <2>1. pc \in {"render", "deploy", "sweep"} /\ pc' \in {"sweep", "patch"} /\ cr' = cr
    BY <1>3 DEF CleanupRemoved, CleanupRemovedFails, Stop, BuildTemplateDataFails,
         RenderFails, Deploy, DeployRejected, DeployFails, DeployAborts, Sweep, SweepFails,
         Publish, Abort, EndRound, crVars
  <2> QED BY <2>1 DEF PhaseOK
<1>4. CASE Render \/ GateReadFails
  <2>1. pc = "render" /\ pc' = "deploy" /\ cr' = cr
    BY <1>4 DEF Render, GateReadFails, RenderWith, crVars
  <2> QED BY <2>1 DEF PhaseOK
<1>5. CASE CreateMonitoring \/ EditMonitoring \/ DeleteMonitoring
  BY <1>5 DEF PhaseOK, CreateMonitoring, EditMonitoring, DeleteMonitoring
<1>6. CASE \/ TimerFires \/ BeginGone \/ EditSecrets \/ CredentialChanges \/ CAChanges
           \/ OperatorsChange \/ CRDsChange \/ UNCHANGED vars
           \/ \E p \in Pipelines : StackBecomesReady(p) \/ StackFails(p)
           \/ \E o \in Objects : ObjectDeleted(o)
  <2>1. UNCHANGED <<cr, pc>>
    BY <1>6 DEF TimerFires, BeginGone, EditSecrets, CredentialChanges, CAChanges,
         OperatorsChange, CRDsChange, StackBecomesReady, StackFails, ObjectDeleted,
         crVars, vars
  <2> QED BY <2>1 DEF PhaseOK
<1> QED
  BY <1>1, <1>2, <1>3, <1>4, <1>5, <1>6
     DEF Next, RoundStep, FaultStep, EnvironmentStep

\* Every step preserves the types.
LEMMA TypeStep == TypeOK /\ [Next]_vars => TypeOK'
<1> SUFFICES ASSUME TypeOK, [Next]_vars PROVE TypeOK'
    OBVIOUS
<1>1. CASE UNCHANGED vars
  BY <1>1 DEF vars, crVars, queueVars, objectVars, clusterVars, TypeOK
<1>2. CASE Next
  <2>1. faults' \in 0..MaxFaults
    BY <1>2, MaxFaultsAssumption DEF Next, FaultStep, TypeOK
  <2>2. ObjectsOK' /\ ClusterOK' /\ RoundOK'
    BY <1>2, QueueStepTypes, CleanupTypes, StopTypes, RenderStepTypes, DeployTypes,
       SweepTypes, EnvironmentTypes
       DEF Next, RoundStep, FaultStep
  <2>3. PhaseOK'
    BY PhaseStep DEF TypeOK, PhaseOK
  <2> QED BY <2>1, <2>2, <2>3 DEF TypeOK, ObjectsOK, ClusterOK, RoundOK, PhaseOK
<1> QED BY <1>1, <1>2

\* Whatever specs users write, whatever fails and whatever the cluster does, the
\* state of the controller keeps its type. In particular a round never outlives
\* the finalizer of its CR, and only a CR being deleted is ever cleaned up.
THEOREM ReconcilerTypeSafe == Spec => []TypeOK
BY TypeInit, TypeStep, PTL DEF Spec

-----------------------------------------------------------------------------
(* Nothing outlives the CR *)

\* The inductive invariant behind NothingLeftBehind: a CR without the finalizer
\* has no objects, the finalizer comes off only after a full cleanup, and a round
\* that may still apply something works on a CR that has it.
LifecycleInv ==
    /\ cr \in {"gone", "fresh"} => live = {}
    /\ pc = "cleanup" => cr = "deleting"
    /\ pc = "unfinalize" => cr = "deleting" /\ live = {}
    /\ pc \in {"render", "deploy", "sweep", "patch"} => cr \in {"live", "deleting"}

\* It holds of a new installation and of an upgraded one.
LEMMA LifecycleInit == Init => LifecycleInv
BY DEF Init, LifecycleInv

\* A step that changes neither the CR nor the round and adds no object.
LEMMA LifecycleFrame ==
    ASSUME LifecycleInv, UNCHANGED <<cr, pc>>, live' \subseteq live
    PROVE  LifecycleInv'
BY DEF LifecycleInv

\* Every step preserves it.
LEMMA LifecycleStep == LifecycleInv /\ [Next]_vars => LifecycleInv'
<1> SUFFICES ASSUME LifecycleInv, [Next]_vars PROVE LifecycleInv'
    OBVIOUS
<1>1. CASE TimerFires \/ BeginGone \/ UNCHANGED vars
  BY <1>1, LifecycleFrame
     DEF TimerFires, BeginGone, vars, crVars, objectVars
<1>2. CASE BeginDeleting \/ Begin \/ BeginFails
  BY <1>2 DEF LifecycleInv, crVars, objectVars, BeginDeleting, Begin, BeginFails, Return
<1>3. CASE Cleanup \/ CleanupFails
  BY <1>3 DEF LifecycleInv, crVars, Cleanup, CleanupFails, Return, SetObjects
<1>4. CASE RemoveFinalizer \/ RemoveFinalizerFails
  BY <1>4 DEF LifecycleInv, crVars, objectVars, RemoveFinalizer, RemoveFinalizerFails, Return
<1>5. CASE CleanupRemoved \/ CleanupRemovedFails
  BY <1>5 DEF LifecycleInv, crVars, CleanupRemoved, CleanupRemovedFails, SetObjects,
              EndRound, Abort
<1>6. CASE Stop \/ BuildTemplateDataFails
  BY <1>6 DEF LifecycleInv, crVars, objectVars, Stop, BuildTemplateDataFails, EndRound
<1>7. CASE RenderFails
  <2>1. pc = "render" /\ pc' = "patch" /\ UNCHANGED <<cr, live>>
    BY <1>7 DEF RenderFails, Abort, EndRound, crVars, objectVars
  <2> QED BY <2>1 DEF LifecycleInv
<1>8. CASE Render \/ GateReadFails
  <2>1. pc = "render" /\ pc' = "deploy" /\ UNCHANGED <<cr, live>>
    BY <1>8 DEF Render, GateReadFails, RenderWith, crVars, objectVars
  <2> QED BY <2>1 DEF LifecycleInv
<1>9. CASE Deploy \/ DeployRejected \/ DeployFails
  BY <1>9 DEF LifecycleInv, crVars, Deploy, DeployRejected, DeployFails, DeployAborts,
              Abort, EndRound
<1>10. CASE Sweep \/ SweepFails
  BY <1>10 DEF LifecycleInv, crVars, Sweep, SweepFails, Publish
<1>11. CASE PatchStatus \/ PatchStatusFails \/ Restart
  BY <1>11 DEF LifecycleInv, crVars, objectVars, PatchStatus, PatchStatusFails, Restart, Return
<1>12. CASE CreateMonitoring \/ EditMonitoring \/ DeleteMonitoring
  BY <1>12 DEF LifecycleInv, objectVars, CreateMonitoring, EditMonitoring, DeleteMonitoring
<1>13. CASE EditSecrets \/ CredentialChanges \/ CAChanges \/ OperatorsChange
  BY <1>13, LifecycleFrame
     DEF crVars, objectVars, EditSecrets, CredentialChanges, CAChanges, OperatorsChange
<1>14. CASE CRDsChange
  BY <1>14, LifecycleFrame DEF crVars, CRDsChange, SetObjects
<1>15. ASSUME NEW p \in Pipelines, StackBecomesReady(p) \/ StackFails(p)
       PROVE  LifecycleInv'
  BY <1>15, LifecycleFrame DEF crVars, StackBecomesReady, StackFails
<1>16. ASSUME NEW o \in Objects, ObjectDeleted(o)
       PROVE  LifecycleInv'
  BY <1>16, LifecycleFrame DEF crVars, ObjectDeleted, SetObjects
<1> QED
  BY <1>1, <1>2, <1>3, <1>4, <1>5, <1>6, <1>7, <1>8, <1>9, <1>10, <1>11, <1>12, <1>13,
     <1>14, <1>15, <1>16 DEF Next, RoundStep, FaultStep, EnvironmentStep

\* The finalizer does its work: no owned object outlives the Monitoring CR,
\* whatever fails, and wherever the operator restarts.
THEOREM FinalizerLeavesNothing == Spec => []NothingLeftBehind
<1>1. LifecycleInv => NothingLeftBehind
  BY DEF LifecycleInv, NothingLeftBehind
<1> QED BY <1>1, LifecycleInit, LifecycleStep, PTL DEF Spec

-----------------------------------------------------------------------------
(* Ready is honest *)

\* The inductive invariant behind ReadyIsHonest: the status a round is about to
\* patch is as honest as the one patched before.
HonestInv ==
    /\ HonestlyReady(status.conds)
    /\ pc = "patch" => HonestlyReady(round.status.conds)

\* Every way of setting the top-level conditions is honest by itself, whatever
\* the conditions of the round before were.
LEMMA HonestMarks ==
    ASSUME NEW conds \in Conds
    PROVE  /\ HonestlyReady(MarkReconcileFailed(conds))
           /\ HonestlyReady(MarkStopped(conds))
           /\ HonestlyReady(AggregateReady(conds))
           /\ HonestlyReady(Mark(AggregateReady(conds), "ProvisioningSucceeded", "False"))
<1>1. ASSUME NEW r \in Verdicts \ {"True"}, NEW p \in Verdicts, NEW d \in Verdicts
      PROVE  HonestlyReady(MarkTopLevel(conds, r, p, d))
  <2>1. r \in Verdicts /\ r # "True"
    BY <1>1
  <2>2. MarkTopLevel(conds, r, p, d)["Ready"] = r
    BY <1>1, <2>1, MarkTopLevelType
  <2> QED BY <2>1, <2>2 DEF HonestlyReady
<1>2. HonestlyReady(AggregateReady(conds))
  <2>1. CASE \/ conds["MonitoringDependenciesReady"] # "True"
             \/ \E f \in FeatureConditions : conds[f] \in Failing \cup {"Unknown"}
    BY <1>1, <2>1, VerdictNames DEF AggregateReady, AggregateOver
  <2>2. CASE /\ conds["MonitoringDependenciesReady"] = "True"
             /\ \A f \in FeatureConditions : conds[f] \notin Failing \cup {"Unknown"}
    <3>1. AggregateReady(conds) = MarkTopLevel(conds, "True", "True", "False")
      BY <2>2 DEF AggregateReady, AggregateOver
    <3>2. {"True", "False"} \subseteq Verdicts
      BY VerdictNames
    <3>3. /\ AggregateReady(conds)["MonitoringDependenciesReady"] = "True"
          /\ \A f \in FeatureConditions : AggregateReady(conds)[f] = conds[f]
      BY <2>2, <3>1, <3>2, MarkTopLevelType
    <3> QED BY <2>2, <3>3 DEF HonestlyReady
  <2> QED BY <2>1, <2>2
<1>3. ASSUME NEW c \in Conds, HonestlyReady(c)
      PROVE  HonestlyReady(Mark(c, "ProvisioningSucceeded", "False"))
  BY <1>3 DEF HonestlyReady, Mark, Conds, ConditionTypes, FeatureConditions
<1> QED BY <1>1, <1>2, <1>3, AggregateReadyType, VerdictNames
        DEF MarkReconcileFailed, MarkStopped

\* So a round that ends with an error, or with such conditions, ends honestly.
LEMMA HonestEnd ==
    ASSUME round \in RoundType, NEW c \in Conds,
           \/ Abort(c)
           \/ \E res : EndRound(MarkStopped(c), res) \/ EndRound(AggregateReady(c), res)
    PROVE  HonestlyReady(round'.status.conds)
<1>1. ASSUME NEW d, NEW res, EndRound(d, res)
      PROVE  round'.status.conds = d
  BY <1>1 DEF EndRound, RoundType, StatusType
<1> QED BY <1>1, HonestMarks DEF Abort

\* So does one that gets past the sweep.
LEMMA HonestPublish ==
    ASSUME round \in RoundType, NEW g, NEW y \in BOOLEAN, Publish(g, y)
    PROVE  HonestlyReady(round'.status.conds)
<1> DEFINE r == IF y THEN round
                ELSE [round EXCEPT !.status.conds =
                        Mark(round.status.conds, "MonitoringStackAvailable", "False")]
           agg == AggregateReady(r.status.conds)
           c == IF resultOf(r, g) = "error" THEN MarkReconcileFailed(agg)
                ELSE IF r.caReady THEN agg
                ELSE Mark(agg, "ProvisioningSucceeded", "False")
<1>1. Mark(round.status.conds, "MonitoringStackAvailable", "False") \in Conds
  BY RoundFields, MarkType, VerdictNames DEF ConditionTypes, FeatureConditions
<1>2. r \in RoundType
  BY <1>1 DEF RoundType, StatusType, Conds
<1>3. r.status.conds \in Conds
  BY <1>2, RoundFields
<1>4. HonestlyReady(c)
  BY <1>3, HonestMarks, AggregateReadyType
<1>5. round'.status.conds = c
  <2> DEFINE st == [conds      |-> c,
                    endpoints  |-> publishLokiEndpoints(r),
                    forwarding |-> /\ r.status.conds["UsageLogsCollectorAvailable"] = "True"
                                   /\ r.spec.exporters # "none"]
  <2>1. round' = [r EXCEPT !.status = st, !.result = resultOf(r, g)]
    BY DEF Publish
  <2>2. st.conds = c
    OBVIOUS
  <2> HIDE DEF r, c, st
  <2> QED BY <1>2, <2>1, <2>2 DEF RoundType
<1> QED BY <1>4, <1>5

\* An empty status claims nothing.
LEMMA HonestInit == Init => HonestInv
BY DEF Init, HonestInv, HonestlyReady, EmptyStatus, ConditionTypes, FeatureConditions

\* Every step preserves it: a patch writes what the round ended with.
LEMMA HonestStep == TypeOK /\ HonestInv /\ [Next]_vars => HonestInv'
<1> SUFFICES ASSUME TypeOK, HonestInv, [Next]_vars PROVE HonestInv'
    OBVIOUS
<1>1. round \in RoundType /\ round.status.conds \in Conds /\ round.spec \in SpecType
  BY RoundFields DEF TypeOK
<1>2. ASSUME UNCHANGED status, UNCHANGED <<pc, round>> \/ pc' # "patch"
      PROVE  HonestInv'
  BY <1>2 DEF HonestInv
<1>3. ASSUME UNCHANGED status, HonestlyReady(round'.status.conds)
      PROVE  HonestInv'
  BY <1>3 DEF HonestInv
<1>4. HonestlyReady(EmptyStatus.conds)
  BY DEF HonestlyReady, EmptyStatus, ConditionTypes, FeatureConditions
<1>5. CASE \/ TimerFires \/ BeginGone \/ BeginDeleting \/ Begin \/ BeginFails
           \/ Cleanup \/ CleanupFails \/ RemoveFinalizerFails
           \/ Deploy \/ PatchStatusFails \/ Restart \/ UNCHANGED vars
  BY <1>2, <1>5 DEF crVars, vars, TimerFires, BeginGone, BeginDeleting, Begin, BeginFails,
       Cleanup, CleanupFails, RemoveFinalizerFails, Deploy, PatchStatusFails, Restart, Return
<1>6. CASE RemoveFinalizer
  BY <1>4, <1>6 DEF RemoveFinalizer, Return, HonestInv
<1>7. CASE CleanupRemoved \/ CleanupRemovedFails
  <2>1. Mark(round.status.conds, "MonitoringDependenciesReady", "Info") \in Conds
    BY <1>1, MarkType, VerdictNames DEF ConditionTypes
  <2> QED BY <1>1, <1>3, <1>7, <2>1, HonestEnd DEF CleanupRemoved, CleanupRemovedFails, crVars
<1>8. CASE Stop \/ BuildTemplateDataFails
  <2>1. WithDependencies(round) \in Conds
    BY <1>1, WithTypes
  <2>2. /\ Mark(round.status.conds, "MonitoringDependenciesReady", "False") \in Conds
        /\ Mark(WithDependencies(round), "UsageLogsCollectorAvailable", "False") \in Conds
    BY <1>1, <2>1, MarkType, VerdictNames DEF ConditionTypes, FeatureConditions
  <2> QED BY <1>1, <1>3, <1>8, <2>1, <2>2, HonestEnd DEF Stop, BuildTemplateDataFails, crVars
<1>9. CASE RenderFails
  <2>1. \E c \in Conds : Abort(c)
    BY <1>9, RenderFailsAborts
  <2> QED BY <1>1, <1>3, <1>9, <2>1, HonestEnd DEF RenderFails, crVars
<1>10. CASE Render \/ GateReadFails
  BY <1>2, <1>10 DEF Render, GateReadFails, RenderWith, crVars
<1>11. CASE DeployRejected \/ DeployFails
  BY <1>1, <1>3, <1>11, HonestEnd DEF DeployRejected, DeployFails, DeployAborts, crVars
<1>12. CASE Sweep \/ SweepFails
  <2>1. \E g, y \in BOOLEAN : Publish(g, y)
    BY <1>12, ZenonT(30) DEF Sweep, SweepFails
  <2> QED BY <1>1, <1>3, <1>12, <2>1, HonestPublish DEF Sweep, SweepFails, crVars
<1>13. CASE PatchStatus
  BY <1>13 DEF PatchStatus, Return, HonestInv
<1>14. CASE EnvironmentStep
  <2>1. UNCHANGED <<pc, round>>
    BY <1>14 DEF EnvironmentStep, CreateMonitoring, EditMonitoring, DeleteMonitoring,
         EditSecrets, CredentialChanges, CAChanges, OperatorsChange, CRDsChange,
         StackBecomesReady, StackFails, ObjectDeleted
  <2>2. status' \in {status, EmptyStatus}
    BY <1>14 DEF EnvironmentStep, CreateMonitoring, EditMonitoring, DeleteMonitoring,
         EditSecrets, CredentialChanges, CAChanges, OperatorsChange, CRDsChange,
         StackBecomesReady, StackFails, ObjectDeleted, crVars
  <2> QED BY <1>4, <2>1, <2>2 DEF HonestInv
<1> QED
  BY <1>5, <1>6, <1>7, <1>8, <1>9, <1>10, <1>11, <1>12, <1>13, <1>14
     DEF Next, RoundStep, FaultStep

\* A patched status never says Ready over a failing or unobserved feature, nor
\* over missing dependencies, whichever way the round that patched it ended.
THEOREM StatusIsHonest == Spec => []ReadyIsHonest
<1>1. HonestInv => ReadyIsHonest
  BY DEF HonestInv, ReadyIsHonest
<1> QED BY <1>1, HonestInit, HonestStep, ReconcilerTypeSafe, PTL DEF Spec

-----------------------------------------------------------------------------
(* Custody *)

(***************************************************************************)
(* The reconcile rounds implement the custody of the owned objects that    *)
(* module Custody specifies. The mapping is that of Kept: the CR and the   *)
(* objects as they are, the endpoints of the status, and "closed" for the  *)
(* time between a complete cleanup and the removal of the finalizer.       *)
(***************************************************************************)

\* The initial states map to initial states.
LEMMA CustodyInit == Init /\ TypeOK => Kept!Init
<1> SUFFICES ASSUME Init, TypeOK PROVE Kept!Init
    OBVIOUS
<1>1. status.endpoints \in SUBSET Pipelines /\ live \in SUBSET Objects
  BY DEF TypeOK, StatusType
<1>2. CASE cr = "gone"
  BY <1>2 DEF Init, EmptyStatus, Kept!Init
<1>3. CASE cr = "live"
  BY <1>1, <1>3 DEF Init, Kept!Init
<1> QED BY <1>2, <1>3 DEF Init

\* A step that leaves the CR and its status alone, adds no object and neither
\* completes a cleanup nor leaves one behind discards objects, if it does anything.
LEMMA Discarding ==
    ASSUME UNCHANGED <<cr, status>>, live' \subseteq live,
           pc = "unfinalize" <=> pc' = "unfinalize"
    PROVE  Kept!Discard
BY DEF Kept!Discard

\* A step of the deployment provisions objects.
LEMMA Provisioning ==
    ASSUME LifecycleInv, UNCHANGED <<cr, status>>, pc = "deploy", pc' # "unfinalize",
           live \subseteq live', live' \subseteq Objects
    PROVE  Kept!Provision
BY DEF Kept!Provision, Kept!InCustody, LifecycleInv

\* Every step maps to a step of the custody, or to none.
LEMMA CustodyStep ==
    LifecycleInv /\ TypeOK /\ TypeOK' /\ [Next]_vars => [Kept!Next]_(Kept!vars)
<1> SUFFICES ASSUME LifecycleInv, TypeOK, TypeOK', [Next]_vars
             PROVE  Kept!Next \/ UNCHANGED Kept!vars
    OBVIOUS
<1> DEFINE Quiet == UNCHANGED <<cr, status>> /\ live' \subseteq live
                    /\ (pc = "unfinalize" <=> pc' = "unfinalize")
<1>0. Quiet => Kept!Next
  BY Discarding DEF Kept!Next
<1>1. CASE UNCHANGED vars
  BY <1>1 DEF vars, crVars, objectVars, Kept!vars
<1>2. CASE TimerFires \/ BeginGone \/ BeginDeleting \/ BeginFails
  BY <1>0, <1>2 DEF TimerFires, BeginGone, BeginDeleting, BeginFails, Return, crVars, objectVars
<1>3. CASE Begin
  <2>1. CASE cr = "live"
    BY <1>0, <1>3, <2>1 DEF Begin, objectVars
  <2>2. CASE cr = "fresh"
    BY <1>3, <2>2 DEF Begin, objectVars, Kept!Next, Kept!Adopt
  <2> QED BY <1>3, <2>1, <2>2 DEF Begin
<1>4. CASE Cleanup
  BY <1>4 DEF Cleanup, SetObjects, crVars, LifecycleInv, Kept!Next, Kept!Close
<1>5. CASE CleanupFails
  BY <1>0, <1>5 DEF CleanupFails, SetObjects, Return, crVars
<1>6. CASE RemoveFinalizer
  BY <1>6 DEF RemoveFinalizer, Return, objectVars, EmptyStatus, LifecycleInv,
              Kept!Next, Kept!Release
<1>7. CASE RemoveFinalizerFails
  BY <1>7 DEF RemoveFinalizerFails, Return, crVars, objectVars, Kept!Next, Kept!Reopen
<1>8. CASE CleanupRemoved \/ CleanupRemovedFails
  BY <1>0, <1>8 DEF CleanupRemoved, CleanupRemovedFails, SetObjects, EndRound, Abort, crVars
<1>9. CASE Stop \/ BuildTemplateDataFails \/ RenderFails
  <2>1. pc = "render" /\ pc' = "patch" /\ UNCHANGED <<cr, status, live>>
    BY <1>9 DEF Stop, BuildTemplateDataFails, RenderFails, Abort, EndRound, crVars, objectVars
  <2> QED BY <1>0, <2>1
<1>10. CASE Render \/ GateReadFails
  <2>1. pc = "render" /\ pc' = "deploy" /\ UNCHANGED <<cr, status, live>>
    BY <1>10 DEF Render, GateReadFails, RenderWith, crVars, objectVars
  <2> QED BY <1>0, <2>1
<1>11. CASE Deploy \/ DeployRejected \/ DeployFails
  <2>1. /\ pc = "deploy" /\ pc' \in {"sweep", "patch"}
        /\ UNCHANGED <<cr, status>> /\ live \subseteq live'
    BY <1>11 DEF Deploy, DeployRejected, DeployFails, DeployAborts, SetObjects, Abort,
                 EndRound, crVars
  <2> QED BY <2>1, Provisioning DEF TypeOK, Kept!Next
<1>12. CASE Sweep \/ SweepFails
  <2>1. /\ pc = "sweep" /\ pc' = "patch"
        /\ UNCHANGED <<cr, status>> /\ live' \subseteq live
    BY <1>12 DEF Sweep, SweepFails, SetObjects, Publish, crVars
  <2> QED BY <1>0, <2>1
<1>13. CASE PatchStatus
  <2>1. status'.endpoints \in SUBSET Pipelines
    BY DEF TypeOK, StatusType
  <2>2. /\ pc = "patch" /\ pc' = "idle"
        /\ UNCHANGED <<cr, live>>
    BY <1>13 DEF PatchStatus, Return, objectVars
  <2> QED BY <2>1, <2>2 DEF LifecycleInv, Kept!Next, Kept!Advertise, Kept!InCustody
<1>14. CASE PatchStatusFails
  BY <1>0, <1>14 DEF PatchStatusFails, Return, crVars, objectVars
<1>15. CASE Restart
  <2>1. pc' = "idle" /\ UNCHANGED <<cr, status, live>>
    BY <1>15 DEF Restart, crVars, objectVars
  <2>2. CASE pc = "unfinalize"
    BY <2>1, <2>2 DEF Kept!Next, Kept!Reopen
  <2> QED BY <1>0, <2>1, <2>2
<1>16. CASE CreateMonitoring
  BY <1>16 DEF CreateMonitoring, EmptyStatus, objectVars, Kept!Next, Kept!Create
<1>17. CASE EditMonitoring
  BY <1>0, <1>17 DEF EditMonitoring, objectVars
<1>18. CASE DeleteMonitoring
  BY <1>18 DEF DeleteMonitoring, EmptyStatus, objectVars, Kept!Next, Kept!Abandon,
               Kept!RequestDeletion
<1>19. CASE EditSecrets \/ CredentialChanges \/ CAChanges \/ OperatorsChange \/ CRDsChange
  BY <1>0, <1>19 DEF EditSecrets, CredentialChanges, CAChanges, OperatorsChange, CRDsChange,
                     SetObjects, crVars, objectVars
<1>20. ASSUME NEW p \in Pipelines, StackBecomesReady(p) \/ StackFails(p)
       PROVE  Kept!Next
  BY <1>0, <1>20 DEF StackBecomesReady, StackFails, crVars, queueVars
<1>21. ASSUME NEW o \in Objects, ObjectDeleted(o)
       PROVE  Kept!Next
  BY <1>0, <1>21 DEF ObjectDeleted, SetObjects, crVars
<1> QED
  BY <1>1, <1>2, <1>3, <1>4, <1>5, <1>6, <1>7, <1>8, <1>9, <1>10, <1>11, <1>12, <1>13,
     <1>14, <1>15, <1>16, <1>17, <1>18, <1>19, <1>20, <1>21
     DEF Next, RoundStep, FaultStep, EnvironmentStep

\* The reconcile rounds implement Custody: for any specs, stores, operators and
\* disturbances, and wherever calls fail or the operator restarts, objects and
\* endpoints appear only under a CR in custody, and the finalizer releases the CR
\* only once its objects are gone and none is being added.
THEOREM CustodyRefined == Spec => CustodyKept
<1>1. Spec => []TypeOK
  BY ReconcilerTypeSafe
<1>2. Spec => []LifecycleInv
  BY LifecycleInit, LifecycleStep, PTL DEF Spec
<1> QED BY <1>1, <1>2, CustodyInit, CustodyStep, PTL DEF Spec, CustodyKept, Kept!Spec

-----------------------------------------------------------------------------
(* Nothing is left over at rest *)

\* There is no leftover for the spec s, or these conditions admit to failure.
Accounted(s, conds) ==
    \/ live \subseteq WantedObjects(s)
    \/ s.managed /\ conds["ProvisioningSucceeded"] = "False"

\* The inductive invariant behind QuiescentNoLeftovers: the controller will be
\* back, or the CR is being cleaned up, or the cluster is as it should be, or a
\* round for the current spec is under way that has only wanted objects to apply
\* and ends either with a requeue or with everything accounted for.
RestInv ==
    \/ queued \/ timer \/ cr = "gone"
    \/ pc \in {"cleanup", "unfinalize"}
    \/ pc = "idle" /\ Accounted(spec, status.conds)
    \/ /\ pc \in {"render", "deploy", "sweep", "patch"} /\ round.spec = spec
       /\ pc \in {"deploy", "sweep"} => round.desired \subseteq WantedObjects(spec)
       /\ pc = "patch" => round.result # "done" \/ Accounted(spec, round.status.conds)

\* The controller starts with the CR in its queue.
LEMMA RestInit == Init => RestInv
BY DEF Init, RestInv

\* A round renders only what its spec has a use for.
LEMMA RenderedWanted ==
    ASSUME NEW s, s.managed, NEW e, NEW w
    PROVE  renderMonitoringResources(s, e, w) \subseteq WantedObjects(s)
<1>1. usageLogsCollectorVerdict(s, e) = "True" => CollectorConfigured(s)
  BY DEF usageLogsCollectorVerdict
<1>2. pipelineObjects(s, e, w) \subseteq
        {Stack(p) : p \in Claims(s)}
        \cup (UNION {ShipperObjects(p) : p \in {q \in Pipelines :
                   q \in Claims(s) \/ (q = "usageLogs" /\ CollectorConfigured(s))}})
  BY <1>1 DEF pipelineObjects
<1>3. metricsObjects(s) \subseteq {o \in {MonitoringStack, ThanosQuerier} : s.metricsStorage}
  BY DEF metricsObjects
<1> QED BY <1>2, <1>3 DEF renderMonitoringResources, WantedObjects

\* A step that touches neither the CR nor the round, adds no object and forgets no
\* reason to come back.
LEMMA RestFrame ==
    ASSUME RestInv, UNCHANGED <<cr, spec, status, pc, round>>, live' \subseteq live,
           queued \/ timer => queued' \/ timer'
    PROVE  RestInv'
BY DEF RestInv, Accounted, WantedObjects, Claims, CollectorConfigured

\* A round that returns early without an error says that it did not provision.
LEMMA RestStopped ==
    ASSUME TypeOK, Stop \/ BuildTemplateDataFails
    PROVE  /\ round'.spec = round.spec /\ round.spec.managed
           /\ round'.status.conds["ProvisioningSucceeded"] = "False"
<1>1. round \in RoundType /\ round.status.conds \in Conds
  BY RoundFields DEF TypeOK
<1>2. ASSUME NEW c \in Conds, NEW res, EndRound(c, res)
      PROVE  round'.spec = round.spec /\ round'.status.conds = c
  BY <1>1, <1>2 DEF EndRound, RoundType, StatusType
<1>3. WithDependencies(round) \in Conds
  BY <1>1, WithTypes
<1>4. ASSUME NEW c \in Conds
      PROVE  /\ MarkStopped(c) \in Conds
             /\ MarkStopped(c)["ProvisioningSucceeded"] = "False"
  BY <1>4, AggregateReadyType DEF MarkStopped, MarkTopLevel, Conds, ConditionTypes
<1> DEFINE m == Mark(round.status.conds, "MonitoringDependenciesReady", "False")
           x == Mark(WithDependencies(round), "UsageLogsCollectorAvailable", "False")
<1>5. m \in Conds /\ x \in Conds
  BY <1>1, <1>3, MarkType, VerdictNames DEF ConditionTypes, FeatureConditions
<1>6. /\ AggregateReady(m) \in Conds
      /\ AggregateReady(m)["ProvisioningSucceeded"] = "False"
  <2>1. m["MonitoringDependenciesReady"] # "True"
    BY <1>1 DEF Mark, Conds, ConditionTypes
  <2>2. AggregateReady(m) = MarkTopLevel(m, "False", "False", "False")
    BY <2>1 DEF AggregateReady
  <2> HIDE DEF m
  <2> QED BY <1>5, <2>2, AggregateReadyType DEF MarkTopLevel, Conds, ConditionTypes
<1>7. PICK c, res : EndRound(c, res) /\ c \in {MarkStopped(round.status.conds),
                       AggregateReady(m), MarkStopped(x), MarkStopped(WithDependencies(round))}
  BY ZenonT(30) DEF Stop, BuildTemplateDataFails
<1>8. round.spec.managed
  BY DEF Stop, BuildTemplateDataFails, Proceeds
<1> HIDE DEF m, x
<1>9. c \in Conds /\ c["ProvisioningSucceeded"] = "False"
  <2>1. CASE c = AggregateReady(m)
    BY <1>6, <2>1
  <2>2. CASE c \in {MarkStopped(round.status.conds), MarkStopped(x),
                    MarkStopped(WithDependencies(round))}
    BY <1>1, <1>3, <1>4, <1>5, <2>2
  <2> QED BY <1>7, <2>1, <2>2
<1>10. round'.spec = round.spec /\ round'.status.conds = c
  BY <1>2, <1>7, <1>9
<1> QED BY <1>8, <1>9, <1>10

\* A round that returns without a requeue had nothing to sweep, withheld nothing
\* and missed nothing.
LEMMA RestSwept ==
    ASSUME TypeOK, Sweep \/ SweepFails, ~queued', round'.result = "done"
    PROVE  live' \subseteq round.desired
<1>1. round \in RoundType
  BY DEF TypeOK
<1>2. ASSUME NEW g \in BOOLEAN, NEW y \in BOOLEAN, Publish(g, y)
      PROVE  ~g /\ round.withheld = {} /\ ~round.spec.metricsStorage
  <2> DEFINE r == IF y THEN round
                  ELSE [round EXCEPT !.status.conds =
                          Mark(round.status.conds, "MonitoringStackAvailable", "False")]
             res == resultOf(r, g)
  <2>1. r.withheld = round.withheld /\ r.spec = round.spec
    BY <1>1 DEF RoundType
  <2>2. DOMAIN r = DOMAIN round
    BY <1>1 DEF RoundType
  <2>3. round'.result = res
    <3> DEFINE st == [conds |-> IF res = "error" THEN MarkReconcileFailed(AggregateReady(r.status.conds))
                                ELSE IF r.caReady THEN AggregateReady(r.status.conds)
                                ELSE Mark(AggregateReady(r.status.conds),
                                          "ProvisioningSucceeded", "False"),
                      endpoints |-> publishLokiEndpoints(r),
                      forwarding |-> /\ r.status.conds["UsageLogsCollectorAvailable"] = "True"
                                     /\ r.spec.exporters # "none"]
    <3>1. round' = [r EXCEPT !.status = st, !.result = res]
      BY <1>2 DEF Publish
    <3>2. "result" \in DOMAIN r
      BY <1>1, <2>2 DEF RoundType
    <3> HIDE DEF r, st, res
    <3> QED BY <3>1, <3>2
  <2>4. r.withheld = {} /\ ~g /\ ~r.spec.metricsStorage
    BY <2>3 DEF resultOf
  <2> QED BY <2>1, <2>4
<1>3. CASE Sweep
  <2>1. round.withheld = {}
    BY <1>2, <1>3 DEF Sweep
  <2>2. live' = live \ garbage /\ live \ garbage = live
    BY <1>3 DEF Sweep, SetObjects, ObjectEvents
  <2> QED BY <2>1, <2>2 DEF garbage, shouldCollect
<1>4. CASE SweepFails
  <2>1. \/ Publish(TRUE, TRUE)
        \/ round.spec.metricsStorage /\ Publish(FALSE, FALSE)
    BY <1>4 DEF SweepFails
  <2> QED BY <1>2, <2>1
<1> QED BY <1>3, <1>4

\* Every step preserves the invariant.
LEMMA RestStep == TypeOK /\ RestInv /\ [Next]_vars => RestInv'
<1> SUFFICES ASSUME TypeOK, RestInv, [Next]_vars PROVE RestInv'
    OBVIOUS
<1>1. round \in RoundType
  BY DEF TypeOK
<1>2. CASE \/ TimerFires \/ BeginGone \/ EditSecrets \/ CredentialChanges \/ CAChanges
           \/ OperatorsChange \/ UNCHANGED vars
           \/ \E p \in Pipelines : StackBecomesReady(p) \/ StackFails(p)
  <2>1. CASE BeginGone
    BY <2>1 DEF BeginGone, RestInv, crVars
  <2>2. CASE ~BeginGone
    <3>1. /\ UNCHANGED <<cr, spec, status, pc, round>> /\ live' \subseteq live
          /\ queued \/ timer => queued' \/ timer'
      <4>1. CASE TimerFires
        BY <4>1 DEF TimerFires, crVars, objectVars
      <4>2. CASE EditSecrets
        BY <4>2 DEF EditSecrets, crVars, objectVars
      <4>3. CASE CredentialChanges \/ CAChanges \/ OperatorsChange
        BY <4>3 DEF CredentialChanges, CAChanges, OperatorsChange, crVars, queueVars, objectVars
      <4>4. CASE \E p \in Pipelines : StackBecomesReady(p) \/ StackFails(p)
        BY <4>4 DEF StackBecomesReady, StackFails, crVars, queueVars
      <4>5. CASE UNCHANGED vars
        BY <4>5 DEF vars, crVars, queueVars, objectVars
      <4> QED BY <1>2, <2>2, <4>1, <4>2, <4>3, <4>4, <4>5
    <3> QED BY <3>1, RestFrame
  <2> QED BY <2>1, <2>2
<1>3. CASE CRDsChange \/ \E o \in Objects : ObjectDeleted(o)
  <2>1. /\ UNCHANGED <<cr, spec, status, pc, round>> /\ live' \subseteq live
        /\ queued \/ timer => queued' \/ timer'
    <3>1. CASE CRDsChange
      BY <3>1 DEF CRDsChange, SetObjects, crVars
    <3>2. CASE \E o \in Objects : ObjectDeleted(o)
      <4>1. PICK o : ObjectDeleted(o)
        BY <3>2
      <4>2. queued' = (queued \/ o.kind = "ClusterRBAC")
        BY <4>1 DEF ObjectDeleted
      <4>3. queued => queued'
        BY <4>2
      <4>4. UNCHANGED <<cr, spec, status, timer, pc, round>> /\ live' = live \ {o}
        BY <4>1 DEF ObjectDeleted, SetObjects, crVars
      <4> QED BY <4>3, <4>4
    <3> QED BY <1>3, <3>1, <3>2
  <2> QED BY <2>1, RestFrame
<1>4. CASE CreateMonitoring \/ EditMonitoring \/ DeleteMonitoring \/ Restart
  BY <1>4 DEF RestInv, CreateMonitoring, EditMonitoring, DeleteMonitoring, Restart
<1>5. CASE BeginDeleting \/ Cleanup
  BY <1>5 DEF RestInv, BeginDeleting, Cleanup
<1>6. CASE Begin
  BY <1>6 DEF RestInv, Begin, RoundOf
<1>7. CASE BeginFails \/ CleanupFails \/ RemoveFinalizerFails \/ PatchStatusFails
  BY <1>7 DEF RestInv, BeginFails, CleanupFails, RemoveFinalizerFails, PatchStatusFails, Return
<1>8. CASE RemoveFinalizer
  BY <1>8, ZenonT(30) DEF RestInv, RemoveFinalizer
<1>9. CASE CleanupRemoved
  <2>1. live' = {} /\ pc = "render" /\ pc' = "patch" /\ UNCHANGED <<cr, spec, timer>>
        /\ (queued => queued')
    BY <1>9 DEF CleanupRemoved, SetObjects, ObjectEvents, EndRound, crVars
  <2>2. round'.spec = round.spec
    BY <1>1, <1>9 DEF CleanupRemoved, EndRound, RoundType
  <2> QED BY <2>1, <2>2 DEF RestInv, Accounted
<1>10. ASSUME NEW c \in Conds, Abort(c), pc \in {"render", "deploy"},
              UNCHANGED <<cr, spec, timer>>, queued => queued'
       PROVE  RestInv'
  <2>1. pc' = "patch" /\ round'.spec = round.spec /\ round'.result = "error"
    BY <1>1, <1>10 DEF Abort, EndRound, RoundType
  <2> QED BY <1>10, <2>1 DEF RestInv
<1>11. CASE CleanupRemovedFails \/ RenderFails \/ DeployRejected \/ DeployFails
  <2>1. \E c \in Conds : Abort(c)
    BY <1>1, <1>11, RenderFailsAborts, RoundFields
       DEF CleanupRemovedFails, DeployRejected, DeployFails, DeployAborts
  <2>2. pc \in {"render", "deploy"} /\ UNCHANGED <<cr, spec, timer>> /\ (queued => queued')
    <3>1. CASE RenderFails
      BY <3>1 DEF RenderFails, crVars, queueVars
    <3>2. CASE CleanupRemovedFails
      BY <3>2 DEF CleanupRemovedFails, ObjectEvents, crVars
    <3>3. CASE DeployRejected \/ DeployFails
      BY <3>3 DEF DeployRejected, DeployFails, DeployAborts, ObjectEvents, crVars
    <3> QED BY <1>11, <3>1, <3>2, <3>3
  <2> QED BY <1>10, <2>1, <2>2
<1>12. CASE Stop \/ BuildTemplateDataFails
  <2>1. /\ round'.spec = round.spec /\ round.spec.managed
        /\ round'.status.conds["ProvisioningSucceeded"] = "False"
    BY <1>12, RestStopped
  <2>2. pc = "render" /\ pc' = "patch" /\ UNCHANGED <<cr, spec, queued, timer>>
    BY <1>12 DEF Stop, BuildTemplateDataFails, EndRound, crVars, queueVars
  <2> QED BY <2>1, <2>2 DEF RestInv, Accounted
<1>13. CASE Render \/ GateReadFails
  <2>1. PICK v : RenderWith(v)
    BY <1>13 DEF Render, GateReadFails
  <2> DEFINE w == IF v = "Isolated" THEN {} ELSE Claims(round.spec)
             d == renderMonitoringResources(round.spec, round.status.endpoints, w)
  <2>2. round'.desired = d /\ round'.spec = round.spec
    BY <1>1, <2>1 DEF RenderWith, RoundType
  <2>3. round.spec.managed
    BY <2>1 DEF RenderWith, Proceeds
  <2>4. d \subseteq WantedObjects(round.spec)
    BY <2>3, RenderedWanted
  <2>5. pc = "render" /\ pc' = "deploy" /\ UNCHANGED <<cr, spec, queued, timer>>
    BY <2>1 DEF RenderWith, crVars, queueVars
  <2> HIDE DEF d
  <2>6. WantedObjects(spec)' = WantedObjects(spec)
    BY <2>5 DEF WantedObjects, Claims, CollectorConfigured
  <2> QED BY <2>2, <2>4, <2>5, <2>6 DEF RestInv
<1>14. CASE Deploy
  BY <1>14 DEF RestInv, Deploy, ObjectEvents, crVars, WantedObjects, Claims,
       CollectorConfigured
<1>15. CASE Sweep \/ SweepFails
  <2>1. /\ pc = "sweep" /\ pc' = "patch" /\ UNCHANGED <<cr, spec, timer>>
        /\ (queued => queued')
    BY <1>15 DEF Sweep, SweepFails, Publish, ObjectEvents, crVars
  <2>2. round'.spec = round.spec
    BY <1>1, <1>15, ZenonT(30) DEF Sweep, SweepFails, Publish, RoundType
  <2>3. ~queued' /\ round'.result = "done" => live' \subseteq round.desired
    BY <1>15, RestSwept
  <2>4. WantedObjects(spec)' = WantedObjects(spec)
    BY <2>1 DEF WantedObjects, Claims, CollectorConfigured
  <2> QED BY <2>1, <2>2, <2>3, <2>4 DEF RestInv, Accounted
<1>16. CASE PatchStatus
  BY <1>16 DEF RestInv, PatchStatus, Return, Accounted, objectVars, WantedObjects, Claims,
       CollectorConfigured
<1> QED
  BY <1>2, <1>3, <1>4, <1>5, <1>6, <1>7, <1>8, <1>9, <1>11, <1>12, <1>13, <1>14, <1>15, <1>16
     DEF Next, RoundStep, FaultStep, EnvironmentStep

\* The controller never comes to rest over leftovers, whatever users do and
\* wherever calls fail or the operator restarts, unless the status says that
\* provisioning did not succeed.
THEOREM RestLeavesNothing == Spec => []QuiescentNoLeftovers
<1>1. RestInv => QuiescentNoLeftovers
  BY DEF RestInv, QuiescentNoLeftovers, Quiescent, Accounted
<1> QED BY <1>1, RestInit, RestStep, ReconcilerTypeSafe, PTL DEF Spec
=============================================================================
