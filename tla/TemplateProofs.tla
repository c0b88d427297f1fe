--------------------------- MODULE TemplateProofs ---------------------------
(***************************************************************************)
(* Proofs about what a round computes, from what the algorithms compute:   *)
(* versions, exporters, curves and storage keys.                           *)
(***************************************************************************)
EXTENDS TemplateTypes, AlgorithmProofs

-----------------------------------------------------------------------------
(* The image of the label proxy *)

\* A release of the label proxy is accepted just if it is 0.16.2 or a later one.
THEOREM ImagesOrdered == Spec => []ImageNewEnough
<1>1. TypeInv /\ HandOver => ImageNewEnough
  <2> SUFFICES ASSUME TypeInv, HandOver, cluster.image.kind = "release"
               PROVE  ImageNewEnough
      BY DEF ImageNewEnough
  <2> DEFINE v == cluster.image.version
  <2>1. v \in [1..3 -> Nat]
    BY ClustersAssumption DEF TypeInv, WellFormed
  <2>2. imageSupported(cluster.image)
        <=> (v[1] > 0 \/ v[2] > 16 \/ (v[2] = 16 /\ v[3] >= 2))
    BY DEF imageSupported
  <2> QED BY <2>1, <2>2, VersionOrder DEF HandOver, ImageNewEnough
<1> QED BY <1>1, Computed, PTL

-----------------------------------------------------------------------------
(* The version of the Cluster Observability Operator *)

\* During an upgrade the version is that of the newest CSV of the chain, for lists of
\* any length in any order.
THEOREM NewestVersionFound == Spec => []NewestCOOVersion
<1>1. TypeInv /\ HandOver => NewestCOOVersion
  <2> SUFFICES ASSUME TypeInv, HandOver PROVE NewestCOOVersion
      OBVIOUS
  <2>1. cluster.csvs \in Seq(CSVType) /\ IsInjective(cluster.csvs)
    BY ClustersAssumption DEF TypeInv, WellFormed
  <2> DEFINE installed == {c \in ToSet(cluster.csvs) : ~c.copied /\ c.succeeded}
             newest == Max({c.version : c \in installed})
  <2> SUFFICES ASSUME pc = "images", Has("storage"),
                      \A c \in installed : c.replaces < c.version,
                      \A c \in installed :
                         \/ c.version = newest
                         \/ \E d \in installed : /\ d.namespace = c.namespace
                                                 /\ d.replaces = c.version,
                      Cardinality({c \in installed : c.version = newest}) = 1
               PROVE  data.coo = newest
      BY DEF NewestCOOVersion
  <2>2. data.coo = cooVersion
    BY DEF HandOver
  <2>3. /\ installed = {c \in ToSet(cluster.csvs) : ~c.copied /\ c.succeeded}
        /\ newest = Max({c.version : c \in installed})
    OBVIOUS
  <2> HIDE DEF installed, newest
  <2>4. cooInstalledCSVVersion(cluster.csvs, cluster.extension) = newest
    BY <2>1, <2>3, ChainEnds
  <2>5. cluster.csvAPI = "absent" => cluster.csvs = <<>>
    BY ClustersAssumption DEF TypeInv, WellFormed
  <2>6. cluster.csvs # <<>>
    <3>1. {c \in installed : c.version = newest} # {}
      BY FS_EmptySet
    <3>2. ToSet(cluster.csvs) # {}
      BY <2>3, <3>1
    <3> QED BY <3>2 DEF ToSet
  <2> QED BY <2>2, <2>4, <2>5, <2>6 DEF cooVersion
<1> QED BY <1>1, Computed, PTL

-----------------------------------------------------------------------------
(* Exporters in any order *)

\* What validateExporters makes of the exporters it accepts.
Rendered(es) == {e.id : e \in {x \in es : x.bytes > 0}}

\* The exporters of the map at hand that it has visited.
Visited == ExportersOf(data.map) \ todo

\* The maps ahead of the k-th are acceptable and rendered.
Done(k) ==
    \A j \in 1..(k - 1) : Has(Maps[j]) =>
        /\ Acceptable(Maps[j])
        /\ data.exporters[Maps[j]] = Rendered(cluster.exporters[Maps[j]])

\* A complaint is laid at the right door.
Blamed ==
    IF \A m \in Configured \ {"usageLogs"} : Acceptable(m)
    THEN report.class = "usageLogs" /\ ~Acceptable("usageLogs")
    ELSE report.class = "configuration"

\* The loop invariant of validateExporters, for whatever set it has visited.
ExporterInv ==
    /\ DOMAIN data.exporters = ToSet(Maps)
    /\ pc \in Early => data.total = 0 /\ \A m \in ToSet(Maps) : data.exporters[m] = {}
    /\ pc = "exporters" =>
          /\ Done(data.map)
          /\ \A j \in (data.map + 1)..3 : data.exporters[Maps[j]] = {}
          /\ \A e \in Visited : exporterComplaint(e, 0) = NoComplaint
          /\ data.total = TotalBytes(Visited)
          /\ data.exporters[Maps[data.map]] = Rendered(Visited)
    /\ pc \in Late => Done(4)
    /\ report.what \in Complaints => Blamed

\* The exporters of a map are finitely many.
LEMMA MapSized ==
    ASSUME cluster \in Clusters, NEW k \in 1..4, NEW es \in SUBSET ExportersOf(k)
    PROVE  Sized(es)
<1>1. Sized(ExportersOf(k))
  <2>1. CASE k <= Len(Maps) /\ Has(Maps[k])
    <3>1. Maps[k] \in ToSet(Maps)
      BY <2>1, MapNames
    <3>2. ExportersOf(k) = cluster.exporters[Maps[k]]
      BY <2>1 DEF ExportersOf
    <3> QED BY <3>1, <3>2, ClustersAssumption DEF WellFormed, Sized
  <2>2. CASE ~(k <= Len(Maps) /\ Has(Maps[k]))
    BY <2>2, FS_EmptySet DEF ExportersOf, Sized
  <2> QED BY <2>1, <2>2
<1> QED BY <1>1, SizedParts

\* An exporter that fits under a total is in order; one that does not is not, or
\* makes the total too large.
LEMMA ComplaintParts ==
    ASSUME NEW e, e.bytes \in Nat, NEW total \in Nat
    PROVE  exporterComplaint(e, total) = NoComplaint <=>
              /\ exporterComplaint(e, 0) = NoComplaint
              /\ e.bytes = 0 \/ total + e.bytes <= maxTotalExporterSize
<1>1. 0 + e.bytes = e.bytes /\ total + e.bytes \in Nat /\ e.bytes <= total + e.bytes
  OBVIOUS
<1>2. ASSUME NEW t \in Nat
      PROVE  exporterComplaint(e, t) = NoComplaint <=>
                /\ e.name = "fine"
                /\ \/ e.bytes = 0
                   \/ /\ e.bytes <= maxExporterSize
                      /\ t + e.bytes <= maxTotalExporterSize
                      /\ e.parses /\ configWithinLimits(e.config)
                      /\ schemaAccepts(e.type, e.config)
  BY <1>2, Limits DEF exporterComplaint, firstFailing, NoComplaint
<1> QED BY <1>1, <1>2, Limits

\* One more exporter is added to the size.
LEMMA OneMore ==
    ASSUME cluster \in Clusters, NEW k \in 1..4, NEW V \in SUBSET ExportersOf(k),
           NEW e \in ExportersOf(k), e \notin V
    PROVE  /\ TotalBytes(V) \in Nat /\ e.bytes \in Nat
           /\ TotalBytes(V \cup {e}) = TotalBytes(V) + e.bytes
<1>1. Sized(V) /\ Sized(V \cup {e})
  BY MapSized
<1>2. TotalBytes(V) \in Nat /\ e.bytes \in Nat
  BY <1>1, TotalTypes DEF Sized
<1>3. (V \cup {e}) \ {e} = V
  OBVIOUS
<1>4. TotalBytes(V \cup {e}) = e.bytes + TotalBytes(V)
  BY <1>1, <1>3, TotalRemove
<1> QED BY <1>2, <1>4

\* One more exporter is rendered, unless it has no config.
LEMMA OneMoreRendered ==
    ASSUME NEW V, NEW e, e.bytes \in Nat
    PROVE  Rendered(V \cup {e}) = IF e.bytes = 0 THEN Rendered(V) ELSE Rendered(V) \cup {e.id}
<1>1. e.bytes = 0 \/ e.bytes > 0
  OBVIOUS
<1> QED BY <1>1 DEF Rendered

\* An exporter that does not fit behind others of its map makes it unacceptable.
LEMMA Rejects ==
    ASSUME cluster \in Clusters, NEW k \in 1..4, NEW V \in SUBSET ExportersOf(k),
           NEW e \in ExportersOf(k), e \notin V,
           exporterComplaint(e, TotalBytes(V)) # NoComplaint
    PROVE  Has(Maps[k]) /\ ~Acceptable(Maps[k])
<1> DEFINE es == cluster.exporters[Maps[k]]
<1>1. es = ExportersOf(k) /\ Has(Maps[k]) /\ e \in es
  BY ExporterSizes DEF ExportersOf
<1>2. /\ TotalBytes(V) \in Nat /\ e.bytes \in Nat
      /\ TotalBytes(V \cup {e}) = TotalBytes(V) + e.bytes
  BY OneMore
<1>3. Sized(es) /\ V \cup {e} \in SUBSET es
  BY <1>1, MapSized
<1> SUFFICES ASSUME Acceptable(Maps[k]) PROVE FALSE
    BY <1>1
<1>4. exporterComplaint(e, 0) = NoComplaint /\ TotalBytes(es) <= maxTotalExporterSize
  BY <1>1 DEF Acceptable
<1>5. ~(TotalBytes(V) + e.bytes <= maxTotalExporterSize)
  BY <1>2, <1>4, ComplaintParts
<1> HIDE DEF es
<1>6. TotalBytes(V \cup {e}) <= TotalBytes(es) /\ TotalBytes(es) \in Nat
  BY <1>3, TotalMonotone, TotalTypes
<1> QED BY <1>2, <1>4, <1>5, <1>6, Limits

\* The other steps leave the loop alone.
LEMMA LoopFrame ==
    ASSUME TypeInv, [Next]_vars
    PROVE  /\ cluster' = cluster
           /\ \/ ListNamespaces \/ ValidateExporter \/ NextMap
              \/ /\ data'.exporters = data.exporters /\ data'.total = data.total
                 /\ data'.map = data.map /\ todo' = todo /\ report' = report
                 /\ pc' = pc \/ {pc, pc'} \subseteq Early \/ {pc, pc'} \subseteq Late
              \/ pc' = "idle" /\ data' = NoData /\ report'.what \notin Complaints
<1>1. ASSUME NEW class, NEW what, NEW detail, Fail(class, what, detail)
      PROVE  pc' = "idle" /\ data' = NoData /\ report'.what = what
  BY <1>1 DEF Fail, End, EndWith, Report
<1>2. cluster' = cluster
  BY StageSteps
<1>3. CASE RoundStep
  <2>1. CASE Begin
    BY <1>2, <2>1 DEF Begin, output, Early
  <2>2. CASE CheckPreconditions
    <3>1. CASE Fail("retry", "csvs", NoDetail)
      BY <1>1, <1>2, <3>1 DEF Complaints
    <3>2. CASE Continue("images", data)
      BY <1>2, <2>2, <3>2 DEF CheckPreconditions, Continue, output, Early
    <3>3. CASE \E v : Continue("images", [data EXCEPT !.coo = v])
      BY <1>2, <2>2, <3>3 DEF CheckPreconditions, Continue, output, Early
    <3> QED BY <2>2, <3>1, <3>2, <3>3 DEF CheckPreconditions
  <2>3. CASE AddImageURLs
    BY <1>1, <1>2, <2>3 DEF AddImageURLs, Continue, output, Early, Complaints
  <2>4. CASE AddTLSData
    <3>1. CASE \E class : Fail(class, "tls", NoDetail)
      BY <1>1, <1>2, <3>1 DEF Complaints
    <3>2. CASE \E c : Continue("apiServer", [data EXCEPT !.curves = c])
      BY <1>2, <2>4, <3>2 DEF AddTLSData, Continue, output, Early
    <3> QED BY <2>4, <3>1, <3>2 DEF AddTLSData
  <2>5. CASE AddKorrel8rAPIServerData
    <3>1. CASE Fail("configuration", "apiServer", NoDetail)
      BY <1>1, <1>2, <3>1 DEF Complaints
    <3>2. CASE Continue("namespaces", data)
      BY <1>2, <2>5, <3>2 DEF AddKorrel8rAPIServerData, Continue, output, Early
    <3>3. CASE \E c : Continue("namespaces", [data EXCEPT !.cidrs = c])
      BY <1>2, <2>5, <3>3 DEF AddKorrel8rAPIServerData, Continue, output, Early
    <3> QED BY <2>5, <3>1, <3>2, <3>3 DEF AddKorrel8rAPIServerData
  <2>6. CASE FindInferenceNamespaces
    BY <1>2, <2>6 DEF FindInferenceNamespaces, Continue, output, Late
  <2>7. CASE CompareStorage
    BY <1>2, <2>7 DEF CompareStorage, Continue, output, Late
  <2>8. CASE Deploy
    BY <1>2, <2>8 DEF Deploy, Late
  <2>9. CASE DeployRejected
    BY <1>2, <2>9 DEF DeployRejected, End, EndWith, Report, Complaints
  <2>10. CASE Sweep
    BY <1>2, <2>10, ReportType DEF Sweep, End, EndWith, NoComplaint, Complaints, TypeInv
  <2> QED BY <1>2, <1>3, <2>1, <2>2, <2>3, <2>4, <2>5, <2>6, <2>7, <2>8, <2>9, <2>10
          DEF RoundStep
<1>4. CASE TimerFires \/ NamespaceChanges \/ InferenceChanges \/ UNCHANGED vars
  BY <1>2, <1>4 DEF TimerFires, NamespaceChanges, InferenceChanges, vars, output
<1>5. CASE ListFails \/ DiscoveryFails
  BY <1>1, <1>2, <1>5 DEF ListFails, DiscoveryFails, Continue, output, Late, Complaints
<1>6. CASE SweepFails
  BY <1>2, <1>6, ReportType DEF SweepFails, EndWith, NoComplaint, Complaints, TypeInv
<1> QED BY <1>3, <1>4, <1>5, <1>6 DEF Next

\* The loop invariant holds initially.
LEMMA ExporterInit == Init => ExporterInv
BY NoDataFields DEF Init, ExporterInv, Early, Late, Report, NoComplaint, Complaints

\* Whose fault it is, if the exporters of the k-th map are the first not to be in order.
LEMMA BlameFirst ==
    ASSUME NEW k \in 1..3, Has(Maps[k]), ~Acceptable(Maps[k]),
           \A j \in 1..(k - 1) : Has(Maps[j]) => Acceptable(Maps[j])
    PROVE  IF \A m \in Configured \ {"usageLogs"} : Acceptable(m)
           THEN Maps[k] = "usageLogs" /\ ~Acceptable("usageLogs")
           ELSE Maps[k] # "usageLogs"
<1>1. CASE k = 3
  <2>1. 1 \in 1..(k - 1) /\ 2 \in 1..(k - 1)
    BY <1>1
  <2> QED BY <1>1, <2>1, MapNames DEF Configured
<1>2. CASE k \in 1..2
  BY <1>2, MapNames DEF Configured
<1> QED BY <1>1, <1>2

\* Every step preserves the loop invariant.
LEMMA ExporterStep == TypeInv /\ ExporterInv /\ [Next]_vars => ExporterInv'
<1> SUFFICES ASSUME TypeInv, ExporterInv, [Next]_vars PROVE ExporterInv'
    OBVIOUS
<1>1. cluster' = cluster /\ cluster \in Clusters
  BY LoopFrame DEF TypeInv
<1>2. /\ \A m : Has(m)' = Has(m)
      /\ \A m : Acceptable(m)' = Acceptable(m)
      /\ \A k : ExportersOf(k)' = ExportersOf(k)
      /\ Configured' = Configured
  BY <1>1 DEF Has, Acceptable, ExportersOf, Configured
<1>3. report' = report => Blamed' = Blamed
  BY <1>2 DEF Blamed
<1>4. ASSUME pc' = "idle", data' = NoData, report'.what \in Complaints => Blamed'
      PROVE  ExporterInv'
  BY <1>4, NoDataFields DEF ExporterInv, Early, Late
<1>5. CASE /\ data'.exporters = data.exporters /\ data'.total = data.total
           /\ data'.map = data.map /\ todo' = todo /\ report' = report
           /\ pc' = pc \/ {pc, pc'} \subseteq Early \/ {pc, pc'} \subseteq Late
  <2>1. \A k : Done(k)' = Done(k)
    BY <1>1, <1>2, <1>5 DEF Done
  <2>2. Visited' = Visited
    BY <1>2, <1>5 DEF Visited
  <2>3. "exporters" \notin Early \cup Late /\ Early \cap Late = {}
    BY DEF Early, Late
  <2> QED BY <1>3, <1>5, <2>1, <2>2, <2>3 DEF ExporterInv
<1>6. CASE ListNamespaces
  <2>1. /\ pc' = "exporters" /\ pc \in Early /\ report' = report /\ todo' = ExportersOf(1)
        /\ data.map = 1 /\ data.total = 0
    BY <1>6 DEF ListNamespaces, Early, output, TypeInv, ExporterInv
  <2>2. data'.map = 1 /\ data'.total = 0 /\ data'.exporters = data.exporters
    BY <1>6, <2>1 DEF ListNamespaces
  <2>3. Visited' = {}
    BY <1>2, <2>1, <2>2 DEF Visited
  <2>4. TotalBytes({}) = 0 /\ Rendered({}) = {}
    BY FS_EmptySet, TotalTypes DEF Sized, Rendered
  <2>5. \A j \in 1..3 : data.exporters[Maps[j]] = {}
    BY <2>1, MapNames DEF ExporterInv
  <2>6. Done(data.map)'
    BY <2>2 DEF Done
  <2>7. "exporters" \notin Early \cup Late
    BY DEF Early, Late
  <2>8. DOMAIN data.exporters = ToSet(Maps) /\ (report.what \in Complaints => Blamed)
    BY DEF ExporterInv
  <2>9. /\ \A j \in (data'.map + 1)..3 : data'.exporters[Maps[j]] = {}
        /\ data'.exporters[Maps[data'.map]] = {}
    BY <2>2, <2>5
  <2> QED BY <1>3, <2>1, <2>2, <2>3, <2>4, <2>6, <2>7, <2>8, <2>9 DEF ExporterInv
<1>7. CASE ValidateExporter
  <2> DEFINE V == Visited
             k == data.map
  <2>1. PICK e \in todo : LET complaint == exporterComplaint(e, data.total)
          IN  IF complaint = NoComplaint
              THEN /\ todo' = todo \ {e}
                   /\ data' = [data EXCEPT
                         !.total = @ + e.bytes,
                         !.exporters[Maps[data.map]] = IF e.bytes = 0 THEN @ ELSE @ \cup {e.id}]
                   /\ UNCHANGED <<output, queue, pc>>
              ELSE \E detail \in complaintDetails(e, complaint) :
                      Fail(IF Maps[data.map] = "usageLogs" THEN "usageLogs" ELSE "configuration",
                           complaint, detail)
    BY <1>7 DEF ValidateExporter
  <2>2. /\ pc = "exporters" /\ k \in 1..3 /\ e \in ExportersOf(k)
        /\ V \in SUBSET ExportersOf(k) /\ e \notin V
    BY <1>7 DEF ValidateExporter, TypeInv, Visited
  <2>3. /\ Done(k) /\ data.total = TotalBytes(V) /\ data.exporters[Maps[k]] = Rendered(V)
        /\ \A x \in V : exporterComplaint(x, 0) = NoComplaint
        /\ \A j \in (k + 1)..3 : data.exporters[Maps[j]] = {}
        /\ DOMAIN data.exporters = ToSet(Maps)
    BY <2>2 DEF ExporterInv
  <2>4. /\ TotalBytes(V) \in Nat /\ e.bytes \in Nat
        /\ TotalBytes(V \cup {e}) = TotalBytes(V) + e.bytes
    <3>1. k \in 1..4
      BY <2>2
    <3> HIDE DEF k, V
    <3> QED BY <1>1, <2>2, <3>1, OneMore
  <2>5. CASE exporterComplaint(e, data.total) = NoComplaint
    <3>1. /\ todo' = todo \ {e} /\ pc' = pc /\ report' = report
          /\ data' = [data EXCEPT !.total = @ + e.bytes,
                         !.exporters[Maps[data.map]] = IF e.bytes = 0 THEN @ ELSE @ \cup {e.id}]
      BY <2>1, <2>5 DEF output
    <3>2. DOMAIN data = Fields /\ Maps[k] \in ToSet(Maps)
      BY <2>2, MapNames DEF TypeInv
    <3>3. /\ data'.map = k /\ data'.total = data.total + e.bytes
          /\ DOMAIN data'.exporters = ToSet(Maps)
          /\ data'.exporters[Maps[k]] = (IF e.bytes = 0 THEN Rendered(V) ELSE Rendered(V) \cup {e.id})
          /\ \A m : m # Maps[k] => data'.exporters[m] = data.exporters[m]
      BY <2>3, <3>1, <3>2 DEF Fields
    <3>4. Visited' = V \cup {e}
      BY <1>2, <2>2, <3>1, <3>3 DEF Visited
    <3>5. exporterComplaint(e, 0) = NoComplaint
      BY <2>3, <2>4, <2>5, ComplaintParts
    <3>6. data'.exporters[Maps[k]] = Rendered(V \cup {e})
      BY <2>4, <3>3, OneMoreRendered
    <3>7. \A j \in 1..3 : j # k => Maps[j] # Maps[k]
      BY <2>2, MapNames
    <3>8. Done(data.map)'
      BY <1>1, <1>2, <2>2, <2>3, <3>3, <3>7 DEF Done
    <3>9. \A j \in (k + 1)..3 : data'.exporters[Maps[j]] = {}
      BY <2>2, <2>3, <3>3, <3>7
    <3> HIDE DEF k, V
    <3> QED BY <1>3, <2>2, <2>3, <2>4, <3>1, <3>3, <3>4, <3>5, <3>6, <3>8, <3>9
            DEF ExporterInv, Early, Late
  <2>6. CASE exporterComplaint(e, data.total) # NoComplaint
    <3>1. /\ pc' = "idle" /\ data' = NoData
          /\ report'.class = IF Maps[k] = "usageLogs" THEN "usageLogs" ELSE "configuration"
      BY <2>1, <2>6 DEF Fail, End, EndWith, Report
    <3>2. Has(Maps[k]) /\ ~Acceptable(Maps[k])
      BY <1>1, <2>2, <2>3, <2>6, Rejects
    <3>3. \A j \in 1..(k - 1) : Has(Maps[j]) => Acceptable(Maps[j])
      BY <2>3 DEF Done
    <3>4. IF \A m \in Configured \ {"usageLogs"} : Acceptable(m)
          THEN Maps[k] = "usageLogs" /\ ~Acceptable("usageLogs")
          ELSE Maps[k] # "usageLogs"
      BY <2>2, <3>2, <3>3, BlameFirst
    <3>5. Blamed'
      BY <1>2, <3>1, <3>4 DEF Blamed
    <3> QED BY <1>4, <3>1, <3>5
  <2> QED BY <2>5, <2>6
<1>8. CASE NextMap
  <2> DEFINE k == data.map
  <2>1. /\ pc = "exporters" /\ todo = {} /\ k \in 1..3 /\ DOMAIN data = Fields
        /\ data' = [data EXCEPT !.map = @ + 1, !.total = 0] /\ report' = report
        /\ todo' = ExportersOf(k + 1) /\ pc' = IF k < 3 THEN "exporters" ELSE "inference"
    BY <1>8, MapNames DEF NextMap, TypeInv, output
  <2>2. data'.map = k + 1 /\ data'.total = 0 /\ data'.exporters = data.exporters
    BY <2>1 DEF Fields
  <2>3. Visited = ExportersOf(k) /\ Visited' = {}
    BY <1>2, <2>1, <2>2 DEF Visited
  <2>4. TotalBytes({}) = 0 /\ Rendered({}) = {}
    BY FS_EmptySet, TotalTypes DEF Sized, Rendered
  <2>5. /\ Done(k) /\ data.total = TotalBytes(Visited)
        /\ data.exporters[Maps[k]] = Rendered(Visited)
        /\ \A x \in Visited : exporterComplaint(x, 0) = NoComplaint
        /\ \A j \in (k + 1)..3 : data.exporters[Maps[j]] = {}
        /\ DOMAIN data.exporters = ToSet(Maps)
    BY <2>1 DEF ExporterInv
  <2>6. data.total \in 0..maxTotalExporterSize
    BY DEF TypeInv, TypeOK
  <2>7. Has(Maps[k]) => /\ Acceptable(Maps[k])
                        /\ data.exporters[Maps[k]] = Rendered(cluster.exporters[Maps[k]])
    <3> SUFFICES ASSUME Has(Maps[k])
                 PROVE  /\ Acceptable(Maps[k])
                        /\ data.exporters[Maps[k]] = Rendered(cluster.exporters[Maps[k]])
        OBVIOUS
    <3>1. ExportersOf(k) = cluster.exporters[Maps[k]]
      BY <2>1, MapNames DEF ExportersOf
    <3>2. TotalBytes(cluster.exporters[Maps[k]]) <= maxTotalExporterSize
      BY <2>3, <2>5, <2>6, <3>1, Limits
    <3> QED BY <2>3, <2>5, <3>1, <3>2 DEF Acceptable
  <2>8. Done(k + 1)
    <3>1. \A j \in 1..((k + 1) - 1) : j = k \/ j \in 1..(k - 1)
      BY <2>1
    <3> QED BY <2>5, <2>7, <3>1 DEF Done
  <2>9. \A i : Done(i)' = Done(i)
    BY <1>1, <1>2, <2>2 DEF Done
  <2>10. \A j \in (k + 2)..3 : data'.exporters[Maps[j]] = {}
    BY <2>1, <2>2, <2>5
  <2>11. k < 3 => data'.exporters[Maps[k + 1]] = {}
    BY <2>1, <2>2, <2>5
  <2>12. Done(data.map)'
    BY <1>1, <1>2, <2>2, <2>8 DEF Done
  <2>13. pc' \in Late => Done(4)'
    <3>1. k = 3 => Done(4)
      BY <2>8
    <3> QED BY <2>1, <2>9, <3>1 DEF Late
  <2>14. (k + 1) + 1 = k + 2
    BY <2>1
  <2> HIDE DEF k
  <2> QED BY <1>3, <2>1, <2>2, <2>3, <2>4, <2>5, <2>10, <2>11, <2>12, <2>13, <2>14
          DEF ExporterInv, Early
<1>9. CASE pc' = "idle" /\ data' = NoData /\ report'.what \notin Complaints
  BY <1>4, <1>9
<1> QED BY <1>5, <1>6, <1>7, <1>8, <1>9, LoopFrame

\* Whatever the order in which the exporters of a map are met, and however many there
\* are, validateExporters decides as if it looked at them as a set.
THEOREM ExportersAsSets == Spec => []ExportersOrderFree
<1>1. TypeInv /\ ExporterInv => ExportersOrderFree
  <2> SUFFICES ASSUME TypeInv, ExporterInv PROVE ExportersOrderFree
      OBVIOUS
  <2>1. ASSUME pc \in Late, NEW m \in Configured
        PROVE  Acceptable(m) /\ data.exporters[m] = Rendered(cluster.exporters[m])
    <3>1. Done(4) /\ Has(m)
      BY <2>1 DEF ExporterInv, Configured
    <3>2. PICK j \in 1..3 : Maps[j] = m
      BY MapNames DEF Configured
    <3>3. j \in 1..(4 - 1)
      OBVIOUS
    <3> QED BY <3>1, <3>2, <3>3 DEF Done
  <2>2. report.what \in Complaints => Blamed
    BY DEF ExporterInv
  <2> QED BY <2>1, <2>2 DEF ExportersOrderFree, Late, Rendered, Complaints, Blamed
<1> QED BY <1>1, TypeInit, TypeStep, ExporterInit, ExporterStep, PTL DEF Spec

-----------------------------------------------------------------------------
(* Curves in order of preference *)

\* The curves that the proxies offer, for profiles of any length: the usable ones,
\* once each and in the order of preference.
THEOREM PreferenceKept == Spec => []CurvesKeepPreference
<1>1. TypeInv /\ HandOver => CurvesKeepPreference
  <2> SUFFICES ASSUME TypeInv, HandOver, pc = "apiServer" PROVE CurvesKeepPreference
      BY DEF CurvesKeepPreference
  <2> DEFINE profile == cluster.tls.curves
             fips == cluster.tls.fips = "on"
  <2>1. profile \in Seq(Nat)
    BY ClustersAssumption DEF TypeInv, WellFormed
  <2>2. KeptWell(data.curves, profile, fips, Len(profile))
    BY <2>1, CurvesKept DEF HandOver
  <2>3. ToSet(data.curves) = ToSet(profile) \cap Usable(fips)
    <3>1. \A c : c \in ToSet(data.curves) <=>
                c \in Usable(fips) /\ \E i \in 1..Len(profile) : profile[i] = c
      BY <2>2 DEF KeptWell
    <3>2. \A c : c \in ToSet(profile) <=> \E i \in 1..Len(profile) : profile[i] = c
      BY <2>1 DEF ToSet
    <3> HIDE DEF profile, fips
    <3> QED BY <3>1, <3>2
  <2>4. \A i, j \in DOMAIN data.curves :
           i < j => First(profile, data.curves[i]) < First(profile, data.curves[j])
    BY <2>2 DEF KeptWell
  <2> QED BY <2>3, <2>4 DEF CurvesKeepPreference, First, Usable
<1> QED BY <1>1, Computed, PTL

-----------------------------------------------------------------------------
(* One key for one place *)

\* The storage gate tells two claims apart just if they name different places, for
\* any places whose host does not begin with the bucket and however their Secrets
\* spell them. Of a host that does begin with it nothing is claimed: the two styles
\* of one place then have different keys.
THEOREM PlacesTold == Spec => []OneLocationOneKey
<1>1. TypeInv /\ HandOver => OneLocationOneKey
  <2> SUFFICES ASSUME TypeInv, HandOver PROVE OneLocationOneKey
      OBVIOUS
  <2> DEFINE a == cluster.claims[1].place
             b == cluster.claims[2].place
             A == lokiStorageLocations(SecretFor(a, cluster.claims[1].style))
             B == lokiStorageLocations(SecretFor(b, cluster.claims[2].style))
             ambiguous(p) == p # Nowhere /\ Head(p.host) = p.bucket
  <2> SUFFICES ASSUME pc = "deploy", Has("logs"), Has("usageLogs"), ~ambiguous(a), ~ambiguous(b)
               PROVE  data.gate = IF Nowhere \in {a, b} THEN "CheckFailed"
                                  ELSE IF a = b THEN "Conflict" ELSE "Isolated"
      BY DEF OneLocationOneKey
  <2>1. /\ a = Nowhere \/ (IsPlace(a) /\ Head(a.host) # a.bucket)
        /\ b = Nowhere \/ (IsPlace(b) /\ Head(b.host) # b.bucket)
        /\ cluster.claims[1].style \in Styles /\ cluster.claims[2].style \in Styles
    <3>1. WellFormed(cluster)
      BY ClustersAssumption DEF TypeInv
    <3>2. \A i \in 1..2 : /\ \/ cluster.claims[i].place = Nowhere
                             \/ IsPlace(cluster.claims[i].place)
                          /\ cluster.claims[i].style \in Styles
      BY <3>1 DEF WellFormed
    <3>3. 1 \in 1..2 /\ 2 \in 1..2
      OBVIOUS
    <3>4. \A p : IsPlace(p) => p # Nowhere
      BY PlaceParts
    <3>5. /\ a = Nowhere \/ IsPlace(a)
          /\ b = Nowhere \/ IsPlace(b)
          /\ cluster.claims[1].style \in Styles /\ cluster.claims[2].style \in Styles
      BY <3>2, <3>3
    <3> HIDE DEF a, b
    <3> QED BY <3>4, <3>5
  <2>2. data.gate = IF Failed \in A \cup B THEN "CheckFailed"
                    ELSE IF A \cap B # {} THEN "Conflict" ELSE "Isolated"
    BY DEF HandOver, ClaimedIsolation, Isolation
  <2>3. /\ a = Nowhere => A = {Failed}
        /\ a # Nowhere => A = {KeyOf(a)} /\ IsPlace(a)
    BY <2>1, LocationsOf
  <2>4. /\ b = Nowhere => B = {Failed}
        /\ b # Nowhere => B = {KeyOf(b)} /\ IsPlace(b)
    BY <2>1, LocationsOf
  <2>5. \A loc : KeyOf(loc) # Failed
    <3> SUFFICES ASSUME NEW loc PROVE KeyOf(loc) # Failed
        OBVIOUS
    <3>1. KeyOf(loc).kind = "key" /\ Failed.kind = "error"
      BY DEF KeyOf, Failed
    <3> QED BY <3>1
  <2>6. a # Nowhere /\ b # Nowhere => (KeyOf(a) = KeyOf(b) <=> a = b)
    BY <2>3, <2>4, KeysDiffer
  <2> HIDE DEF a, b, A, B
  <2> QED BY <2>2, <2>3, <2>4, <2>5, <2>6
<1> QED BY <1>1, Computed, PTL
=============================================================================
