---------------------------- MODULE TemplateTypes ---------------------------
(***************************************************************************)
(* Proofs about what a round reads and hands on from stage to stage, for   *)
(* any clusters, any namespaces and any number of changes and failing      *)
(* lists: its types, where the values in the template data come from, and  *)
(* the scope that follows the namespaces.                                  *)
(***************************************************************************)
EXTENDS TemplateData, TLAPS

-----------------------------------------------------------------------------
(* Types *)

Fields == {"coo", "curves", "cidrs", "secrets", "map", "total", "exporters", "inference", "gate"}

\* The stages of a round ahead of the exporters, and those behind them.
Early == {"idle", "coo", "images", "tls", "apiServer", "namespaces"}
Late == {"inference", "gate", "deploy", "sweep"}

\* TypeOK with what it needs to be inductive: the template data have their fields,
\* and the namespaces in them are namespaces.
TypeInv ==
    /\ TypeOK
    /\ cluster \in Clusters
    /\ DOMAIN data = Fields
    /\ data.secrets \subseteq Names /\ data.inference \subseteq Names
    /\ data.gate \in {"Isolated", "Conflict", "CheckFailed"}
    /\ data.map \in 1..4
    /\ (pc \in Early => data.map = 1) /\ (pc = "exporters" => data.map \in 1..3)
    /\ data.total \in Nat
    /\ todo \subseteq ExportersOf(data.map)

\* The three maps.
LEMMA MapNames ==
    /\ Len(Maps) = 3 /\ ToSet(Maps) = {"metrics", "traces", "usageLogs"}
    /\ Maps[1] = "metrics" /\ Maps[2] = "traces" /\ Maps[3] = "usageLogs"
BY DEF Maps, ToSet

\* The data a round starts with.
LEMMA NoDataFields ==
    /\ DOMAIN NoData = Fields
    /\ NoData.coo = Unknown /\ NoData.secrets = {Monitoring} /\ NoData.inference = {}
    /\ NoData.map = 1 /\ NoData.total = 0 /\ NoData.gate = "Isolated"
    /\ NoData.exporters = [m \in ToSet(Maps) |-> {}]
BY DEF NoData, Fields

\* Where a round ends: its report, an event if the report is news, and a timer.
LEMMA EndFields ==
    ASSUME NEW r, NEW requeues \in SUBSET BOOLEAN, EndWith(r, requeues),
           queued \in BOOLEAN, timer \in BOOLEAN
    PROVE  /\ report' = r /\ pc' = "idle" /\ todo' = {} /\ data' = NoData
           /\ queued' \in BOOLEAN /\ (queued => queued')
           /\ timer' \in BOOLEAN /\ (timer => timer')
<1>1. PICK t \in requeues : timer' = (timer \/ t)
  BY DEF EndWith
<1> QED BY <1>1 DEF EndWith

\* A round that ends may be requeued or not.
LEMMA RequeueType == ASSUME NEW class PROVE mayRequeue(class) \in SUBSET BOOLEAN
BY DEF mayRequeue

\* All that matters of the limits.
LEMMA Limits == maxTotalExporterSize \in Nat /\ maxExporterSize \in Nat
BY SMT DEF maxTotalExporterSize, maxExporterSize

\* An exporter without a complaint keeps the total within the limit.
LEMMA TotalWithinLimit ==
    ASSUME NEW e, e.bytes \in Nat, NEW total \in 0..maxTotalExporterSize,
           exporterComplaint(e, total) = NoComplaint
    PROVE  total + e.bytes \in 0..maxTotalExporterSize
BY Limits DEF exporterComplaint, firstFailing, NoComplaint

\* Exporters are of a map of the cluster, and have a size.
LEMMA ExporterSizes ==
    ASSUME cluster \in Clusters, NEW k \in 1..4, NEW e \in ExportersOf(k)
    PROVE  e.bytes \in Nat /\ k \in 1..3 /\ Has(Maps[k]) /\ e \in cluster.exporters[Maps[k]]
<1>1. k <= Len(Maps) /\ Has(Maps[k]) /\ e \in cluster.exporters[Maps[k]]
  BY DEF ExportersOf
<1>2. k \in 1..3 /\ Maps[k] \in ToSet(Maps)
  BY <1>1, MapNames
<1> QED BY <1>1, <1>2, ClustersAssumption DEF WellFormed

\* The verdicts of the storage comparison.
LEMMA IsolationType == ASSUME NEW a, NEW b
                       PROVE  Isolation(a, b) \in {"Isolated", "Conflict", "CheckFailed"}
BY DEF Isolation

\* The types hold initially.
LEMMA TypeInit == Init => TypeInv
<1> SUFFICES ASSUME Init PROVE TypeInv
    OBVIOUS
<1>1. namespaces \in [Names -> NamespaceStates \cup {Gone}]
  BY DEF Init, NamespaceStates
<1>2. changes \in 0..MaxChanges
  BY BoundsAssumption DEF Init
<1>3. data = NoData /\ todo = {} /\ pc = "idle" /\ report.class = "new" /\ cluster \in Clusters
  BY DEF Init, Report
<1>4. data.total \in 0..maxTotalExporterSize /\ data.total \in Nat /\ data.map \in 1..4
  BY <1>3, NoDataFields, Limits
<1>5. TypeOK
  BY <1>1, <1>2, <1>3, <1>4 DEF Init, TypeOK, Classes, Stages
<1> QED BY <1>3, <1>4, <1>5, NoDataFields, BoundsAssumption DEF TypeInv, Early

\* What a round that got to its end reports.
LEMMA ReportType ==
    /\ RoundReport.class \in {"ready", "storage"} /\ RoundReport.class \in Classes
    /\ RoundReport.what \in {NoComplaint, data.gate}
BY DEF RoundReport, Ready, Report, Classes

\* A change is counted within the bound.
LEMMA Counted ==
    ASSUME changes \in 0..MaxChanges, changes < MaxChanges, changes' = changes + 1
    PROVE  changes' \in 0..MaxChanges
BY BoundsAssumption

\* Every step preserves them.
LEMMA TypeStep == TypeInv /\ [Next]_vars => TypeInv'
<1> SUFFICES ASSUME TypeInv, [Next]_vars PROVE TypeInv'
    OBVIOUS
<1>0. /\ queued \in BOOLEAN /\ timer \in BOOLEAN /\ changes \in 0..MaxChanges
      /\ secretScope \subseteq Names /\ inferenceScope \subseteq Names
      /\ report.class \in Classes /\ pc \in Stages /\ cluster \in Clusters
      /\ namespaces \in [Names -> NamespaceStates \cup {Gone}] /\ inference \subseteq Names
  BY DEF TypeInv, TypeOK
<1> DEFINE Data(d) == /\ DOMAIN d = Fields
                      /\ d.secrets \subseteq Names /\ d.inference \subseteq Names
                      /\ d.gate \in {"Isolated", "Conflict", "CheckFailed"}
                      /\ d.map \in 1..4 /\ d.total \in 0..maxTotalExporterSize
           Input == /\ namespaces' \in [Names -> NamespaceStates \cup {Gone}]
                    /\ inference' \subseteq Names /\ cluster' = cluster
                    /\ changes' \in 0..MaxChanges
           Output == /\ inferenceScope' \subseteq Names /\ secretScope' \subseteq Names
                     /\ report'.class \in Classes
                     /\ queued' \in BOOLEAN /\ timer' \in BOOLEAN
           Map(stage, map) == /\ stage \in Early => map = 1
                              /\ stage = "exporters" => map \in 1..3
<1>1. Data(data) /\ todo \subseteq ExportersOf(data.map) /\ Map(pc, data.map)
  BY DEF TypeInv, TypeOK
<1>2. ASSUME Data(data'), Input, Output, pc' \in Stages, todo' \subseteq ExportersOf(data'.map),
             Map(pc', data'.map)
      PROVE  TypeInv'
  <2>1. data'.total \in Nat
    BY <1>2, Limits
  <2>2. ExportersOf(data.map)' = ExportersOf(data'.map)
    BY <1>2 DEF ExportersOf, Has
  <2> QED BY <1>0, <1>2, <2>1, <2>2 DEF TypeInv, TypeOK
<1>3. Data(NoData) /\ Map("idle", NoData.map)
  BY NoDataFields, BoundsAssumption, Limits
<1>4. ASSUME NEW r, NEW requeues \in SUBSET BOOLEAN, EndWith(r, requeues),
             r.class \in Classes, Input,
             secretScope' \subseteq Names, inferenceScope' \subseteq Names
      PROVE  TypeInv'
  <2>1. /\ report' = r /\ pc' = "idle" /\ todo' = {} /\ data' = NoData
        /\ queued' \in BOOLEAN /\ timer' \in BOOLEAN
    BY <1>0, <1>4, EndFields
  <2> QED BY <1>2, <1>3, <1>4, <2>1 DEF Stages
<1>5. ASSUME NEW class \in Classes, NEW what, NEW detail, Fail(class, what, detail), Input
      PROVE  TypeInv'
  BY <1>0, <1>4, <1>5, RequeueType DEF Fail, End, Report
<1>6. ASSUME Input, output' = output, queue' = queue, Data(data'), data'.map = data.map,
             pc' \in Stages, Map(pc', data.map), todo' \subseteq todo
      PROVE  TypeInv'
  <2>1. Output
    BY <1>0, <1>6 DEF output, queue
  <2> QED BY <1>1, <1>2, <1>6, <2>1
<1>7. ASSUME NEW next \in Stages \ {"exporters"}, NEW d, Continue(next, d), Input,
             Data(d), d.map = data.map, next \in Early => pc \in Early
      PROVE  TypeInv'
  BY <1>1, <1>6, <1>7 DEF Continue, output, queue
<1>8. CASE RoundStep
  <2>1. Input
    BY <1>0, <1>8 DEF RoundStep, input
  <2> HIDE DEF Input
  <2>2. CASE Begin
    <3>1. Output /\ pc' = "coo" /\ data' = data /\ todo' = todo
      BY <1>0, <2>2 DEF Begin, output
    <3> QED BY <1>1, <1>2, <2>1, <2>2, <3>1 DEF Begin, Early, Stages
  <2>3. CASE CheckPreconditions
    <3>1. CASE Fail("retry", "csvs", NoDetail)
      BY <1>5, <2>1, <3>1 DEF Classes
    <3>2. CASE Continue("images", data) \/ Continue("images", [data EXCEPT !.coo = cooVersion])
      BY <1>1, <1>7, <2>1, <2>3, <3>2 DEF CheckPreconditions, Early, Fields, Stages
    <3> QED BY <2>3, <3>1, <3>2 DEF CheckPreconditions
  <2>4. CASE AddImageURLs
    BY <1>1, <1>5, <1>7, <2>1, <2>4 DEF AddImageURLs, Early, Stages, Classes
  <2>5. CASE AddTLSData
    BY <1>1, <1>5, <1>7, <2>1, <2>5 DEF AddTLSData, Early, Fields, Stages, Classes
  <2>6. CASE AddKorrel8rAPIServerData
    BY <1>1, <1>5, <1>7, <2>1, <2>6 DEF AddKorrel8rAPIServerData, Early, Fields, Stages, Classes
  <2>7. CASE ListNamespaces
    <3>1. Data(data') /\ data'.map = data.map /\ pc' = "exporters"
          /\ todo' = ExportersOf(1) /\ output' = output /\ queue' = queue
      BY <1>1, <2>7 DEF ListNamespaces, Fields, listAllNamespaces
    <3>2. data.map = 1 /\ Output
      BY <1>0, <1>1, <2>7 DEF ListNamespaces, Early, output, queue
    <3> QED BY <1>2, <2>1, <3>1, <3>2 DEF Stages, Early
  <2>8. CASE ValidateExporter
    <3>1. PICK e \in todo : LET complaint == exporterComplaint(e, data.total)
          IN  IF complaint = NoComplaint
              THEN /\ todo' = todo \ {e}
                   /\ data' = [data EXCEPT
                         !.total = @ + e.bytes,
                         !.exporters[Maps[data.map]] = IF e.bytes = 0 THEN @ ELSE @ \cup {e.id}]
                   /\ UNCHANGED <<output, queue, pc>>
              ELSE \E detail \in complaintDetails(e, complaint) :
                      Fail(IF Maps[data.map] = "usageLogs" THEN "usageLogs" ELSE "configuration",
                           complaint, detail)
      BY <2>8 DEF ValidateExporter
    <3>2. CASE exporterComplaint(e, data.total) = NoComplaint
      <4>1. e.bytes \in Nat
        BY <1>0, <1>1, ExporterSizes
      <4>2. data.total + e.bytes \in 0..maxTotalExporterSize
        BY <1>1, <3>2, <4>1, TotalWithinLimit
      <4>3. /\ data' = [data EXCEPT !.total = @ + e.bytes,
                         !.exporters[Maps[data.map]] = IF e.bytes = 0 THEN @ ELSE @ \cup {e.id}]
            /\ todo' = todo \ {e} /\ output' = output /\ queue' = queue /\ pc' = pc
        BY <3>1, <3>2
      <4>4. Data(data') /\ data'.map = data.map
        BY <1>1, <4>2, <4>3 DEF Fields
      <4> QED BY <1>0, <1>1, <1>6, <2>1, <2>8, <4>3, <4>4 DEF ValidateExporter
    <3>3. CASE exporterComplaint(e, data.total) # NoComplaint
      BY <1>5, <2>1, <3>1, <3>3 DEF Classes
    <3> QED BY <3>2, <3>3
  <2>9. CASE NextMap
    <3>1. data.map \in 1..3 /\ data' = [data EXCEPT !.map = @ + 1, !.total = 0]
      BY <1>1, <2>9 DEF NextMap
    <3>2. Data(data') /\ data'.map = data.map + 1
      BY <1>1, <3>1, Limits DEF Fields
    <3>3. pc' = (IF data.map < 3 THEN "exporters" ELSE "inference")
      BY <2>9, MapNames DEF NextMap
    <3>4. Output /\ todo' = ExportersOf(data.map + 1)
      BY <1>0, <2>9 DEF NextMap, output, queue
    <3>5. pc' \in Stages /\ Map(pc', data'.map)
      BY <3>1, <3>2, <3>3 DEF Stages, Early
    <3> QED BY <1>2, <2>1, <3>2, <3>4, <3>5
  <2>10. CASE FindInferenceNamespaces
    BY <1>0, <1>1, <1>7, <2>1, <2>10 DEF FindInferenceNamespaces, Early, Fields, Stages,
         inferenceNamespaces
  <2>11. CASE CompareStorage
    BY <1>1, <1>7, <2>1, <2>11, IsolationType DEF CompareStorage, Early, Fields, Stages,
         ClaimedIsolation
  <2>12. CASE Deploy
    <3>1. Output
      BY <1>0, <1>1, <2>12 DEF Deploy, desiredScope, queue
    <3> QED BY <1>1, <1>2, <2>1, <2>12, <3>1 DEF Deploy, Stages, Early
  <2>13. CASE DeployRejected
    <3>1. secretScope' \subseteq Names /\ inferenceScope' \subseteq Names
      BY <1>0, <1>1, <2>13 DEF DeployRejected, desiredScope
    <3> QED BY <1>4, <2>1, <2>13, <3>1, RequeueType DEF DeployRejected, End, Report, Classes
  <2>14. CASE Sweep
    <3>1. secretScope' \subseteq Names /\ inferenceScope' \subseteq Names
      BY <1>0, <2>14 DEF Sweep
    <3> QED BY <1>4, <2>1, <2>14, <3>1, RequeueType, ReportType DEF Sweep, End
  <2> QED BY <1>8, <2>2, <2>3, <2>4, <2>5, <2>6, <2>7, <2>8, <2>9, <2>10, <2>11, <2>12,
             <2>13, <2>14
          DEF RoundStep
<1>9. CASE TimerFires /\ UNCHANGED <<input, changes>>
  BY <1>0, <1>1, <1>2, <1>9 DEF TimerFires, input, output
<1>10. CASE changes < MaxChanges /\ changes' = changes + 1
            /\ (ListFails \/ DiscoveryFails \/ SweepFails) /\ UNCHANGED input
  <2>1. Input
    BY <1>0, <1>10, Counted DEF input
  <2> HIDE DEF Input
  <2>2. CASE ListFails \/ DiscoveryFails
    BY <1>1, <1>5, <1>7, <2>1, <2>2 DEF ListFails, DiscoveryFails, Classes, Stages, Early
  <2>3. CASE SweepFails
    <3>1. secretScope' \subseteq Names /\ inferenceScope' \subseteq Names
      BY <1>0, <2>3 DEF SweepFails
    <3> QED BY <1>4, <2>1, <2>3, <3>1, ReportType DEF SweepFails
  <2> QED BY <1>10, <2>2, <2>3
<1>11. CASE changes < MaxChanges /\ changes' = changes + 1 /\ NamespaceChanges
  <2>1. Input
    BY <1>0, <1>11, Counted DEF NamespaceChanges, NamespaceSteps
  <2>2. Output
    BY <1>0, <1>11 DEF NamespaceChanges, output
  <2> QED BY <1>0, <1>1, <1>2, <1>11, <2>1, <2>2 DEF NamespaceChanges
<1>12. CASE changes < MaxChanges /\ changes' = changes + 1 /\ InferenceChanges
  <2>1. Input
    BY <1>0, <1>12, Counted DEF InferenceChanges
  <2> QED BY <1>0, <1>1, <1>6, <1>12, <2>1 DEF InferenceChanges, output, queue
<1>13. CASE UNCHANGED vars
  BY <1>0, <1>1, <1>6, <1>13 DEF vars, input, output, queue
<1> QED BY <1>8, <1>9, <1>10, <1>11, <1>12, <1>13 DEF Next

\* The types of TemplateData, among them that the exporters that validateExporters
\* accepts never add up to more than its limit.
THEOREM TemplateTypeSafe == Spec => []TypeOK
<1>1. TypeInv => TypeOK
  BY DEF TypeInv
<1> QED BY <1>1, TypeInit, TypeStep, PTL DEF Spec

-----------------------------------------------------------------------------
(* What the stages hand over *)

Complaints == {"name", "size", "total", "syntax", "limits", "schema"}

\* What a stage computes is still there in the next one, for the same cluster.
HandOver ==
    /\ pc = "images" /\ Has("storage") =>
          data.coo = cooVersion
    /\ pc = "tls" => imageSupported(cluster.image)
    /\ report.what = "image" => ~imageSupported(cluster.image)
    /\ pc = "apiServer" =>
          data.curves = filterProxyCurvePreferences(cluster.tls.curves, cluster.tls.fips = "on")
    /\ pc = "deploy" /\ Has("logs") /\ Has("usageLogs") => data.gate = ClaimedIsolation

\* The complaints about an exporter.
LEMMA ComplaintNames ==
    ASSUME NEW e, NEW total
    PROVE  exporterComplaint(e, total) \in Complaints \cup {NoComplaint}
BY DEF exporterComplaint, firstFailing, Complaints

\* What a step can do to the stage, the report and the data, by stage.
LEMMA StageSteps ==
    ASSUME TypeInv, [Next]_vars
    PROVE  /\ cluster' = cluster
           /\ \/ UNCHANGED <<pc, data, report>>
              \/ pc' = "coo" /\ UNCHANGED <<data, report>>
              \/ CheckPreconditions
              \/ AddImageURLs
              \/ AddTLSData
              \/ /\ pc' \in {"namespaces", "exporters", "inference", "gate", "sweep"} /\ report' = report
              \/ CompareStorage
              \/ /\ pc' = "idle"
                 /\ report'.what \in Complaints \cup {"none", "Isolated", "Conflict", "CheckFailed",
                                                  "apiServer", "list", "apply"}
<1>1. ASSUME NEW class, NEW what, NEW detail, Fail(class, what, detail)
      PROVE  pc' = "idle" /\ report'.what = what
  BY <1>1 DEF Fail, End, EndWith, Report
<1>2. cluster' = cluster
  BY DEF Next, RoundStep, input, NamespaceChanges, InferenceChanges, vars
<1>3. CASE RoundStep
  <2>1. CASE Begin
    BY <1>2, <2>1 DEF Begin, output
  <2>2. CASE AddKorrel8rAPIServerData
    BY <1>1, <1>2, <2>2 DEF AddKorrel8rAPIServerData, Continue, output
  <2>3. CASE ListNamespaces \/ NextMap \/ FindInferenceNamespaces
    BY <1>2, <2>3 DEF ListNamespaces, NextMap, FindInferenceNamespaces, Continue, output
  <2>4. CASE ValidateExporter
    <3>1. PICK e \in todo :
             \/ pc' = pc /\ report' = report
             \/ /\ exporterComplaint(e, data.total) # NoComplaint
                /\ \E class, detail : Fail(class, exporterComplaint(e, data.total), detail)
      BY <2>4 DEF ValidateExporter, output
    <3> QED BY <1>1, <1>2, <2>4, <3>1, ComplaintNames DEF ValidateExporter
  <2>5. CASE Deploy
    BY <1>2, <2>5 DEF Deploy
  <2>6. CASE DeployRejected
    BY <1>2, <2>6 DEF DeployRejected, End, EndWith, Report
  <2>7. CASE Sweep
    BY <1>2, <2>7, ReportType DEF Sweep, End, EndWith, NoComplaint, TypeInv
  <2> QED BY <1>2, <1>3, <2>1, <2>2, <2>3, <2>4, <2>5, <2>6, <2>7 DEF RoundStep
<1>4. CASE TimerFires \/ NamespaceChanges \/ InferenceChanges \/ UNCHANGED vars
  BY <1>2, <1>4 DEF TimerFires, NamespaceChanges, InferenceChanges, vars, output
<1>5. CASE ListFails \/ DiscoveryFails
  BY <1>1, <1>2, <1>5 DEF ListFails, DiscoveryFails, Continue, output
<1>6. CASE SweepFails
  BY <1>2, <1>6, ReportType DEF SweepFails, EndWith, NoComplaint, TypeInv
<1> QED BY <1>3, <1>4, <1>5, <1>6 DEF Next

\* The handing over is an invariant.
LEMMA HandOverStep == TypeInv /\ HandOver /\ [Next]_vars => HandOver'
<1> SUFFICES ASSUME TypeInv, HandOver, [Next]_vars PROVE HandOver'
    OBVIOUS
<1>1. cluster' = cluster
  BY StageSteps
<1>2. ClaimedIsolation' = ClaimedIsolation
  BY <1>1 DEF ClaimedIsolation
<1>3. (\A signal : Has(signal)' = Has(signal)) /\ cooVersion' = cooVersion
  BY <1>1 DEF Has, cooVersion
<1>4. DOMAIN data = Fields
  BY DEF TypeInv
<1>5. CASE UNCHANGED <<pc, data, report>>
  BY <1>1, <1>2, <1>3, <1>5 DEF HandOver
<1>6. CASE pc' = "coo" /\ UNCHANGED <<data, report>>
  BY <1>1, <1>6 DEF HandOver
<1>7. CASE CheckPreconditions
  <2>1. \/ pc' = "images" /\ report' = report /\ (Has("storage") => data'.coo = cooVersion)
        \/ pc' = "idle" /\ report'.what = "csvs"
    BY <1>4, <1>7 DEF CheckPreconditions, Continue, output, Fields, Fail, End, EndWith, Report
  <2> QED BY <1>1, <1>3, <2>1 DEF HandOver
<1>8. CASE AddImageURLs
  <2>1. CASE imageSupported(cluster.image)
    <3>1. \/ pc' = "tls" /\ report' = report
          \/ pc' = "idle" /\ report'.what = "operatorImage"
      BY <1>8, <2>1 DEF AddImageURLs, Continue, output, Fail, End, EndWith, Report
    <3> QED BY <1>1, <2>1, <3>1 DEF HandOver
  <2>2. CASE ~imageSupported(cluster.image)
    BY <1>1, <1>8, <2>2 DEF HandOver, AddImageURLs, Fail, End, EndWith
  <2> QED BY <2>1, <2>2
<1>9. CASE AddTLSData
  <2>1. \/ /\ pc' = "apiServer" /\ report' = report
           /\ data'.curves = filterProxyCurvePreferences(cluster.tls.curves,
                                                         cluster.tls.fips = "on")
        \/ pc' = "idle" /\ report'.what = "tls"
    BY <1>4, <1>9 DEF AddTLSData, Continue, output, Fail, End, EndWith, Report, Fields
  <2> QED BY <1>1, <2>1 DEF HandOver
<1>10. CASE pc' \in {"namespaces", "exporters", "inference", "gate", "sweep"} /\ report' = report
  BY <1>1, <1>10 DEF HandOver
<1>11. CASE CompareStorage
  <2>1. /\ pc' = "deploy" /\ report' = report
        /\ Has("logs") /\ Has("usageLogs") => data'.gate = ClaimedIsolation
    BY <1>4, <1>11 DEF CompareStorage, Continue, output, Fields
  <2> QED BY <1>1, <1>2, <1>3, <2>1 DEF HandOver
<1>12. CASE /\ pc' = "idle"
            /\ report'.what \in Complaints \cup {"none", "Isolated", "Conflict", "CheckFailed",
                                              "apiServer", "list", "apply"}
  BY <1>12 DEF HandOver, Complaints
<1> QED BY <1>5, <1>6, <1>7, <1>8, <1>9, <1>10, <1>11, <1>12, StageSteps

\* The invariant that the following theorems rest on.
LEMMA Computed == Spec => [](TypeInv /\ HandOver)
<1>1. Init => HandOver
  BY DEF Init, HandOver, Report, NoComplaint
<1> QED BY <1>1, TypeInit, TypeStep, HandOverStep, PTL DEF Spec

-----------------------------------------------------------------------------
(* The scope of the TargetAllocator *)

\* Unless an event is pending, the list that a round took is still the cluster's;
\* once it is applied it is part of the scope; and after the sweep it is all of the
\* scope, or else a timer is pending.
ScopeInv ==
    Has("metrics") /\ ~queued =>
        /\ pc = "exporters" \/ pc \in Late => data.secrets = listAllNamespaces
        /\ pc = "sweep" => data.secrets \subseteq secretScope
        /\ pc = "idle" /\ report.class \in {"ready", "storage"} =>
              /\ listAllNamespaces \subseteq secretScope
              /\ timer \/ secretScope \subseteq listAllNamespaces

\* The watch lets no change of the list pass.
LEMMA WatchSuffices ==
    ASSUME TypeInv, NamespaceChanges, ~queued'
    PROVE  ~queued /\ listAllNamespaces' = listAllNamespaces /\ secretScope' = secretScope
<1>1. PICK n \in Names : \E new \in NamespaceSteps(namespaces[n]) \ {namespaces[n]} :
          /\ namespaces' = [namespaces EXCEPT ![n] = new]
          /\ queued' = (queued \/ namespaceWatchPredicate(namespaces[n], new))
          /\ secretScope' = IF new = Gone THEN secretScope \ {n} ELSE secretScope
  BY DEF NamespaceChanges
<1>2. PICK new : /\ namespaces' = [namespaces EXCEPT ![n] = new]
                 /\ queued' = (queued \/ namespaceWatchPredicate(namespaces[n], new))
                 /\ secretScope' = IF new = Gone THEN secretScope \ {n} ELSE secretScope
  BY <1>1
<1> DEFINE old == namespaces[n]
<1>3. ~queued /\ ~namespaceWatchPredicate(old, new)
  BY <1>2
<1>4. /\ old # Gone /\ new # Gone /\ old.terminating = new.terminating
      /\ isSystemNamespace(old) = isSystemNamespace(new)
  BY <1>3 DEF namespaceWatchPredicate
<1>5. \A m \in Names : namespaces'[m] = IF m = n THEN new ELSE namespaces[m]
  BY <1>2 DEF TypeInv, TypeOK
<1> HIDE DEF old
<1>6. \A m \in Names : m \in listAllNamespaces <=> m \in listAllNamespaces'
  <2> SUFFICES ASSUME NEW m \in Names
               PROVE  m \in listAllNamespaces <=> m \in listAllNamespaces'
      OBVIOUS
  <2>1. CASE m # n
    BY <1>5, <2>1 DEF listAllNamespaces
  <2>2. CASE m = n
    <3>1. namespaces[m] = old /\ namespaces'[m] = new
      BY <1>5, <2>2 DEF old
    <3>2. m \in listAllNamespaces <=>
              old # Gone /\ ~old.terminating /\ (m = Monitoring \/ ~isSystemNamespace(old))
      BY <1>4, <3>1 DEF listAllNamespaces
    <3>3. m \in listAllNamespaces' <=>
              new # Gone /\ ~new.terminating /\ (m = Monitoring \/ ~isSystemNamespace(new))
      BY <1>4, <3>1 DEF listAllNamespaces
    <3> QED BY <1>4, <3>2, <3>3
  <2> QED BY <2>1, <2>2
<1>7. listAllNamespaces \subseteq Names /\ listAllNamespaces' \subseteq Names
  BY DEF listAllNamespaces
<1> QED BY <1>2, <1>3, <1>4, <1>6, <1>7

\* Every step preserves the invariant.
LEMMA ScopeStep == TypeInv /\ ScopeInv /\ [Next]_vars => ScopeInv'
<1> SUFFICES ASSUME TypeInv, ScopeInv, [Next]_vars PROVE ScopeInv'
    OBVIOUS
<1>0. cluster' = cluster
  BY StageSteps
<1> SUFFICES ASSUME Has("metrics"), ~queued' PROVE ScopeInv'
    BY <1>0 DEF ScopeInv, Has
<1>1. queued \in BOOLEAN /\ timer \in BOOLEAN /\ DOMAIN data = Fields
  BY DEF TypeInv, TypeOK
<1>2. ASSUME NEW class, NEW what, NEW detail, Fail(class, what, detail),
             class \notin {"ready", "storage"}
      PROVE  ScopeInv'
  <2>1. pc' = "idle" /\ report'.class = class
    BY <1>2 DEF Fail, End, EndWith, Report
  <2> QED BY <1>2, <2>1 DEF ScopeInv, Late
<1>3. CASE RoundStep
  <2>1. listAllNamespaces' = listAllNamespaces
    BY <1>3 DEF RoundStep, input, listAllNamespaces
  <2>2. CASE Begin \/ CheckPreconditions
    BY <1>2, <2>2 DEF Begin, CheckPreconditions, Continue, ScopeInv, Late
  <2>3. CASE AddImageURLs
    BY <1>2, <2>3 DEF AddImageURLs, Continue, ScopeInv, Late
  <2>4. CASE AddTLSData
    BY <1>2, <2>4 DEF AddTLSData, Continue, ScopeInv, Late
  <2>5. CASE AddKorrel8rAPIServerData
    BY <1>2, <2>5 DEF AddKorrel8rAPIServerData, Continue, ScopeInv, Late
  <2>6. CASE ListNamespaces
    BY <1>1, <2>1, <2>6 DEF ListNamespaces, ScopeInv, Late, Fields
  <2>7. CASE ValidateExporter
    <3>1. PICK e \in todo :
             \/ UNCHANGED <<pc, output, queue>> /\ data'.secrets = data.secrets
             \/ \E detail :
                   Fail(IF Maps[data.map] = "usageLogs" THEN "usageLogs" ELSE "configuration",
                        exporterComplaint(e, data.total), detail)
      BY <1>1, <2>7 DEF ValidateExporter, Fields
    <3>2. CASE UNCHANGED <<pc, output, queue>> /\ data'.secrets = data.secrets
      BY <2>1, <2>7, <3>2 DEF ValidateExporter, ScopeInv, output, queue
    <3> QED BY <1>2, <3>1, <3>2
  <2>8. CASE NextMap \/ FindInferenceNamespaces \/ CompareStorage
    <3>1. /\ pc \in {"exporters"} \cup (Late \ {"sweep"})
          /\ pc' \in {"exporters"} \cup (Late \ {"sweep"})
          /\ queued' = queued /\ data'.secrets = data.secrets
      BY <1>1, <2>8 DEF NextMap, FindInferenceNamespaces, CompareStorage, Continue, queue,
           Fields, Late
    <3> QED BY <2>1, <3>1 DEF ScopeInv, Late
  <2>9. CASE Deploy
    <3>1. /\ pc = "deploy" /\ pc' = "sweep" /\ UNCHANGED <<queued, data>>
          /\ data.secrets \subseteq secretScope'
      BY <2>9 DEF Deploy, desiredScope, queue
    <3> QED BY <2>1, <3>1 DEF ScopeInv, Late
  <2>10. CASE DeployRejected
    <3>1. pc' = "idle" /\ report'.class = "retry"
      BY <2>10 DEF DeployRejected, End, EndWith, Report
    <3> QED BY <3>1 DEF ScopeInv, Late
  <2>11. CASE Sweep
    <3>1. pc = "sweep" /\ pc' = "idle" /\ secretScope' = secretScope \cap data.secrets /\ ~queued
      BY <1>1, <2>11 DEF Sweep, End, EndWith, desiredScope
    <3>2. data.secrets = listAllNamespaces /\ data.secrets \subseteq secretScope
      BY <3>1 DEF ScopeInv, Late
    <3>3. secretScope' = listAllNamespaces'
      BY <2>1, <3>1, <3>2
    <3> QED BY <3>1, <3>3 DEF ScopeInv, Late
  <2> QED BY <1>3, <2>2, <2>3, <2>4, <2>5, <2>6, <2>7, <2>8, <2>9, <2>10, <2>11 DEF RoundStep
<1>4. CASE NamespaceChanges
  <2>1. ~queued /\ listAllNamespaces' = listAllNamespaces /\ secretScope' = secretScope
    BY <1>4, WatchSuffices
  <2> QED BY <1>4, <2>1 DEF NamespaceChanges, ScopeInv
<1>5. CASE ListFails /\ UNCHANGED input
  BY <1>2, <1>5 DEF ListFails
<1>6. CASE DiscoveryFails /\ UNCHANGED input
  BY <1>6 DEF DiscoveryFails, Continue, ScopeInv, output, queue, input, listAllNamespaces, Late
<1>7. CASE InferenceChanges \/ UNCHANGED vars
  BY <1>7 DEF InferenceChanges, vars, ScopeInv, output, queue, input, listAllNamespaces
<1>8. CASE TimerFires
  BY <1>8 DEF TimerFires
<1>9. CASE SweepFails /\ UNCHANGED input
  <2>1. /\ pc = "sweep" /\ pc' = "idle" /\ ~queued /\ timer'
        /\ secretScope \cap data.secrets \subseteq secretScope'
    BY <1>1, <1>9 DEF SweepFails, EndWith, desiredScope
  <2>2. data.secrets = listAllNamespaces /\ data.secrets \subseteq secretScope
    BY <2>1 DEF ScopeInv, Late
  <2>3. listAllNamespaces' = listAllNamespaces
    BY <1>9 DEF input, listAllNamespaces
  <2>4. listAllNamespaces' \subseteq secretScope'
    BY <2>1, <2>2, <2>3
  <2> QED BY <2>1, <2>4 DEF ScopeInv, Late
<1> QED BY <1>3, <1>4, <1>5, <1>6, <1>7, <1>8, <1>9 DEF Next

\* Between rounds, unless the status reports a failure, the TargetAllocator may read
\* the Secrets of every namespace it should, and those of another only while a timer
\* is pending that brings back a round to sweep it.
THEOREM SecretScopeFollows == Spec => []SecretScopeCurrent
<1>1. Init => ScopeInv
  BY DEF Init, ScopeInv
<1>2. ScopeInv => SecretScopeCurrent
  BY DEF ScopeInv, SecretScopeCurrent
<1> QED BY <1>1, <1>2, TypeInit, TypeStep, ScopeStep, PTL DEF Spec
=============================================================================
