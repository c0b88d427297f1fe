---------------------------- MODULE TemplateData ----------------------------
(***************************************************************************)
(* What a reconcile round reads from the cluster and computes before it    *)
(* applies anything: the version of the Cluster Observability Operator,    *)
(* buildTemplateData (templatedata.go, proxy_tls.go, helpers.go) and the   *)
(* comparison of the storage Secrets (actions.go); with the two scopes     *)
(* that follow other people's namespaces, and the watch that drives them.  *)
(*                                                                         *)
(* Specs, Secrets and the cluster's settings are fixed in a behaviour; in  *)
(* a cluster that is restless, the namespaces, and the inference services  *)
(* in them, come and go, and list calls fail.                              *)
(***************************************************************************)
EXTENDS TemplateAlgorithms

CONSTANTS
    Clusters,    \* the specs and settings to be read
    Names,       \* the names of namespaces
    Monitoring,  \* the one the operator monitors from (the fallback)
    MaxChanges   \* the bound on changes and failing lists

VARIABLES
    cluster,
    namespaces,      \* the namespace of each name, or Gone
    inference,       \* the namespaces with inference services
    secretScope,     \* the namespaces whose Secrets the TargetAllocator may read
    inferenceScope,  \* the namespaces whose logs are forwarded
    report,          \* what the status says of the last round
    queued, timer,
    pc,
    todo,            \* the exporters that validateExporters has yet to visit
    data,            \* the template data so far
    changes

input == <<cluster, namespaces, inference>>
output == <<secretScope, inferenceScope, report>>
queue == <<queued, timer>>
vars == <<input, output, queue, pc, todo, data, changes>>

-----------------------------------------------------------------------------
(* Namespaces *)

\* listAllNamespaces: the live namespaces that are not the system's, and the
\* monitoring namespace unless it is seen to terminate.
listAllNamespaces ==
    {n \in Names :
        \/ /\ namespaces[n] # Gone /\ ~namespaces[n].terminating
           /\ n = Monitoring \/ ~isSystemNamespace(namespaces[n])
        \/ n = Monitoring /\ namespaces[n] = Gone}

\* The namespaces from spec.logs.inferenceNamespaces that are well-formed names;
\* if there are none in it, those that have inference services.
inferenceNamespaces ==
    IF cluster.listed # {} THEN cluster.listed \cap Names ELSE inference

-----------------------------------------------------------------------------
(* The steps of a round *)

\* The maps of exporters, in the order in which they are validated.
Maps == <<"metrics", "traces", "usageLogs">>

Has(signal) == signal \in cluster.signals

\* What the proofs rest on: a list has no object twice and is empty without its API,
\* versions and sizes are numbers, maps are finite, and a claim names a place, or
\* none, in some style.
WellFormed(c) ==
    /\ c.csvs \in Seq(CSVType) /\ IsInjective(c.csvs)
    /\ c.csvAPI = "absent" => c.csvs = <<>>
    /\ c.image.version \in [1..3 -> Nat]
    /\ c.tls.curves \in Seq(Nat)
    /\ \A m \in ToSet(Maps) : /\ IsFiniteSet(c.exporters[m])
                              /\ \A e \in c.exporters[m] : e.bytes \in Nat
    /\ \A i \in 1..2 : /\ c.claims[i].place = Nowhere \/ IsPlace(c.claims[i].place)
                       /\ c.claims[i].style \in Styles

ASSUME ClustersAssumption == \A c \in Clusters : WellFormed(c)

ASSUME BoundsAssumption == Monitoring \in Names /\ MaxChanges \in Nat

NoData == [coo |-> Unknown, curves |-> <<>>, cidrs |-> {}, secrets |-> {Monitoring},
           map |-> 1, total |-> 0, exporters |-> [m \in ToSet(Maps) |-> {}],
           inference |-> {}, gate |-> "Isolated"]

\* A report is a class, and what the message of the condition tells apart: what it
\* is about, a number (of an exporter, or a size) and the place in a config.
Report(class, what, detail) == [class |-> class, what |-> what, detail |-> detail]

Unplaced == <<"nowhere", 0, 0>>

NoDetail == <<0, Unplaced>>

Ready == Report("ready", NoComplaint, NoDetail)

\* mayRequeue without the periodic look for inference namespaces.
mayRequeue_NoDiscovery(class) ==
    IF class \in {"retry", "storage"} \/ Has("storage") THEN {TRUE} ELSE {FALSE}

\* Whether a round that ends in this class of report may come back by a timer: by
\* backoff, for the COO version, for the inference namespaces, or for a collector
\* that is not ready yet.
mayRequeue(class) ==
    LET periodic == Has("storage") \/ (class = "ready" /\ Has("logs"))
        awaits == ~Has("logs") /\ (Has("metrics") \/ Has("traces"))
    IN  IF class \in {"retry", "storage"} \/ periodic THEN {TRUE}
        ELSE IF awaits THEN BOOLEAN ELSE {FALSE}

\* The round ends; a status that changes comes back as an event.
EndWith(r, requeues) ==
    /\ report' = r
    /\ queued' = (queued \/ r # report)
    /\ \E t \in requeues : timer' = (timer \/ t)
    /\ pc' = "idle"
    /\ todo' = {}
    /\ data' = NoData

End(r) == EndWith(r, mayRequeue(r.class))

Fail(class, what, detail) ==
    /\ End(Report(class, what, detail))
    /\ UNCHANGED <<secretScope, inferenceScope>>

Continue(next, d) ==
    /\ pc' = next
    /\ data' = d
    /\ UNCHANGED <<output, queue, todo>>

Begin ==
    /\ pc = "idle" /\ queued
    /\ queued' = FALSE
    /\ pc' = "coo"
    /\ UNCHANGED <<output, timer, todo, data>>

\* The version of the Cluster Observability Operator: without the API for CSVs it
\* is the one that OperatorExists came up with.
cooVersion == IF cluster.csvAPI = "absent" THEN cluster.fallback
              ELSE cooInstalledCSVVersion(cluster.csvs, cluster.extension)

\* checkMonitoringPreconditions, of which a failing list is an error of the round.
CheckPreconditions ==
    /\ pc = "coo"
    /\ IF ~Has("storage") THEN Continue("images", data)
       ELSE IF cluster.csvAPI = "failing" THEN Fail("retry", "csvs", NoDetail)
       ELSE Continue("images", [data EXCEPT !.coo = cooVersion])

AddImageURLs ==
    /\ pc = "images"
    /\ IF ~imageSupported(cluster.image) THEN Fail("configuration", "image", NoDetail)
       ELSE IF ~cluster.operatorImage THEN Fail("configuration", "operatorImage", NoDetail)
       ELSE Continue("tls", data)

AddTLSData ==
    /\ pc = "tls"
    /\ \/ /\ tlsVerdict(cluster.tls) = "ok"
          /\ Continue("apiServer",
                      [data EXCEPT !.curves = filterProxyCurvePreferences(
                                                  cluster.tls.curves, cluster.tls.fips = "on")])
       \/ tlsVerdict(cluster.tls) = "retry" /\ Fail("retry", "tls", NoDetail)
       \/ tlsVerdict(cluster.tls) = "invalid" /\ Fail("configuration", "tls", NoDetail)

AddKorrel8rAPIServerData ==
    LET cidrs == kubernetesAPIServerCIDRs(cluster.slices)
    IN  /\ pc = "apiServer"
        /\ IF ~Has("metrics") /\ ~Has("traces") /\ ~Has("logs") THEN Continue("namespaces", data)
           ELSE IF cidrs = {} THEN Fail("configuration", "apiServer", NoDetail)
           ELSE Continue("namespaces", [data EXCEPT !.cidrs = cidrs])

\* The exporters of the k-th map, if its signal is configured.
ExportersOf(k) == IF k <= Len(Maps) /\ Has(Maps[k]) THEN cluster.exporters[Maps[k]] ELSE {}

ListNamespaces ==
    /\ pc = "namespaces"
    /\ pc' = "exporters"
    /\ todo' = ExportersOf(1)
    /\ data' = IF Has("metrics") THEN [data EXCEPT !.secrets = listAllNamespaces] ELSE data
    /\ UNCHANGED <<output, queue>>

\* A list call fails, which counts as an error of the configuration.
ListFails ==
    /\ \/ pc = "apiServer" /\ (Has("metrics") \/ Has("traces") \/ Has("logs"))
       \/ pc = "namespaces" /\ Has("metrics")
    /\ Fail("configuration", "list", NoDetail)

\* The message of a complaint with the size of the exporters so far.
complaintDetails_SizeSoFar(e, what) == {<<data.total + e.bytes, Unplaced>>}

\* What the message of a complaint may say: it names the exporter, or the total if
\* it is about that, and a place in the config, which is any of those refused.
complaintDetails(e, what) ==
    IF what = "total" THEN {<<data.total + e.bytes, Unplaced>>}
    ELSE {e.id} \X (IF what = "limits" THEN limitMessages(e.config)
                    ELSE IF what = "schema" THEN schemaMessages(e.type, e.config)
                    ELSE {Unplaced})

\* validateExporters ranges over a Go map: the next exporter is any of them.
ValidateExporter ==
    /\ pc = "exporters"
    /\ \E e \in todo :
          LET complaint == exporterComplaint(e, data.total)
          IN  IF complaint = NoComplaint
              THEN /\ todo' = todo \ {e}
                   /\ data' = [data EXCEPT
                         !.total = @ + e.bytes,
                         !.exporters[Maps[data.map]] = IF e.bytes = 0 THEN @ ELSE @ \cup {e.id}]
                   /\ UNCHANGED <<output, queue, pc>>
              ELSE \E detail \in complaintDetails(e, complaint) :
                      Fail(IF Maps[data.map] = "usageLogs" THEN "usageLogs" ELSE "configuration",
                           complaint, detail)

\* NextMap with the total carried over to the next map.
NextMap_KeepsTotal ==
    /\ pc = "exporters" /\ todo = {}
    /\ pc' = IF data.map < Len(Maps) THEN "exporters" ELSE "inference"
    /\ todo' = ExportersOf(data.map + 1)
    /\ data' = [data EXCEPT !.map = @ + 1]
    /\ UNCHANGED <<output, queue>>

NextMap ==
    /\ pc = "exporters" /\ todo = {}
    /\ pc' = IF data.map < Len(Maps) THEN "exporters" ELSE "inference"
    /\ todo' = ExportersOf(data.map + 1)
    /\ data' = [data EXCEPT !.map = @ + 1, !.total = 0]
    /\ UNCHANGED <<output, queue>>

FindInferenceNamespaces ==
    /\ pc = "inference"
    /\ Continue("gate", IF Has("logs") THEN [data EXCEPT !.inference = inferenceNamespaces]
                        ELSE data)

\* The discovery fails: the round goes on without any namespaces.
DiscoveryFails ==
    /\ pc = "inference" /\ Has("logs") /\ cluster.listed = {}
    /\ Continue("gate", data)

\* The comparison of the Secrets that the two claims name.
ClaimedIsolation ==
    LET secret(claim) == SecretFor(claim.place, claim.style)
    IN  Isolation(secret(cluster.claims[1]), secret(cluster.claims[2]))

\* resolveStorageIsolation.
CompareStorage ==
    /\ pc = "gate"
    /\ Continue("deploy", IF Has("logs") /\ Has("usageLogs")
                          THEN [data EXCEPT !.gate = ClaimedIsolation]
                          ELSE data)

\* The namespaces whose Secrets are rendered as the TargetAllocator's to read.
desiredScope == IF Has("metrics") THEN data.secrets ELSE {}

\* A Role can be applied in the namespace n: it is there and, unless the Role is
\* already, not terminating.
Accepts(n) == namespaces[n] # Gone /\ (namespaces[n].terminating => n \in secretScope)

\* The round applies what it rendered, but for the pipelines that are withheld.
Deploy ==
    /\ pc = "deploy"
    /\ \A n \in desiredScope : Accepts(n)
    /\ secretScope' = secretScope \cup desiredScope
    /\ inferenceScope' = IF data.gate = "Isolated" THEN data.inference ELSE inferenceScope
    /\ pc' = "sweep"
    /\ UNCHANGED <<report, queue, todo, data>>

\* A namespace went away behind the list: the apply of its Role fails, and the
\* round with it, having applied part of the rest.
DeployRejected ==
    /\ pc = "deploy"
    /\ \E n \in desiredScope : ~Accepts(n)
    /\ \E applied \in SUBSET {n \in desiredScope : Accepts(n)} :
          secretScope' = secretScope \cup applied
    /\ inferenceScope' \in {inferenceScope, IF data.gate = "Isolated" THEN data.inference
                                            ELSE inferenceScope}
    /\ End(Report("retry", "apply", NoDetail))

RoundReport == IF data.gate = "Isolated" THEN Ready ELSE Report("storage", data.gate, NoDetail)

\* collectTargetAllocatorRBACGarbage deletes the Roles that are not rendered.
Sweep ==
    /\ pc = "sweep"
    /\ secretScope' = secretScope \cap desiredScope
    /\ UNCHANGED inferenceScope
    /\ End(RoundReport)

\* collectGarbage fails at some point: that is logged, and the round goes on to
\* the same report, but comes back by a timer.
SweepFails ==
    /\ pc = "sweep"
    /\ \E left \in SUBSET secretScope : secretScope' = (secretScope \cap desiredScope) \cup left
    /\ UNCHANGED inferenceScope
    /\ EndWith(RoundReport, {TRUE})

TimerFires ==
    /\ timer
    /\ timer' = FALSE
    /\ queued' = TRUE
    /\ UNCHANGED <<output, pc, todo, data>>

-----------------------------------------------------------------------------
(* The environment and the system *)

NamespaceStates == [terminating : BOOLEAN, labels : SUBSET (SystemLabels \cup {"team"})]

\* What may follow the state ns of a namespace.
NamespaceSteps(ns) ==
    IF ns = Gone THEN {new \in NamespaceStates : ~new.terminating}
    ELSE {new \in NamespaceStates : ns.terminating => new.terminating} \cup
         (IF ns.terminating THEN {Gone} ELSE {})

\* A namespace that goes takes the Role in it along.
NamespaceChanges ==
    /\ \E n \in Names : \E new \in NamespaceSteps(namespaces[n]) \ {namespaces[n]} :
          /\ namespaces' = [namespaces EXCEPT ![n] = new]
          /\ queued' = (queued \/ namespaceWatchPredicate(namespaces[n], new))
          /\ secretScope' = IF new = Gone THEN secretScope \ {n} ELSE secretScope
    /\ UNCHANGED <<cluster, inference, inferenceScope, report, timer, pc, todo, data>>

\* Inference services come and go, which is not watched.
InferenceChanges ==
    /\ inference' \in SUBSET Names \ {inference}
    /\ UNCHANGED <<cluster, namespaces, output, queue, pc, todo, data>>

Init ==
    /\ cluster \in Clusters
    /\ namespaces = [n \in Names |-> [terminating |-> FALSE, labels |-> {}]]
    /\ inference = {}
    /\ secretScope = {} /\ inferenceScope = {}
    /\ report = Report("new", NoComplaint, NoDetail)
    /\ queued = TRUE /\ timer = FALSE
    /\ pc = "idle" /\ todo = {} /\ data = NoData
    /\ changes = IF cluster.restless THEN 0 ELSE MaxChanges

RoundStep ==
    /\ \/ Begin \/ CheckPreconditions \/ AddImageURLs \/ AddTLSData
       \/ AddKorrel8rAPIServerData \/ ListNamespaces \/ ValidateExporter \/ NextMap
       \/ FindInferenceNamespaces \/ CompareStorage \/ Deploy \/ DeployRejected \/ Sweep
    /\ UNCHANGED <<input, changes>>

Next ==
    \/ RoundStep
    \/ TimerFires /\ UNCHANGED <<input, changes>>
    \/ /\ changes < MaxChanges /\ changes' = changes + 1
       /\ \/ (ListFails \/ DiscoveryFails \/ SweepFails) /\ UNCHANGED input
          \/ NamespaceChanges \/ InferenceChanges

Spec == Init /\ [][Next]_vars

\* The controller keeps working off its queue and its timers fire.
FairSpec ==
    /\ Spec
    /\ WF_vars(RoundStep)
    /\ WF_vars(TimerFires /\ UNCHANGED <<input, changes>>)

-----------------------------------------------------------------------------
(* Properties *)

Classes == {"new", "ready", "configuration", "usageLogs", "retry", "storage"}

Stages == {"idle", "coo", "images", "tls", "apiServer", "namespaces", "exporters",
           "inference", "gate", "deploy", "sweep"}

\* Types; the exporters accepted so far never add up to more than the limit of
\* validateExporters.
TypeOK ==
    /\ namespaces \in [Names -> NamespaceStates \cup {Gone}]
    /\ inference \subseteq Names /\ inferenceScope \subseteq Names /\ secretScope \subseteq Names
    /\ report.class \in Classes
    /\ queued \in BOOLEAN /\ timer \in BOOLEAN
    /\ pc \in Stages
    /\ data.total \in 0..maxTotalExporterSize
    /\ changes \in 0..MaxChanges

\* The maps of exporters that the spec configures, and whether the exporters of one
\* are all in order and fit together, looked at as a set.
Configured == {m \in ToSet(Maps) : Has(m)}

Acceptable(m) ==
    LET es == cluster.exporters[m]
    IN  /\ \A e \in es : exporterComplaint(e, 0) = NoComplaint
        /\ TotalBytes(es) <= maxTotalExporterSize

\* In whatever order validateExporters meets the exporters of a map: a round gets
\* past it just if they are acceptable, it then renders each that has a config, and
\* the usage log condition is only blamed for its own exporters.
ExportersOrderFree ==
    /\ pc \in {"inference", "gate", "deploy", "sweep"} =>
          \A m \in Configured :
              /\ Acceptable(m)
              /\ data.exporters[m] = {e.id : e \in {x \in cluster.exporters[m] : x.bytes > 0}}
    /\ report.what \in {"name", "size", "total", "syntax", "limits", "schema"} =>
          IF \A m \in Configured \ {"usageLogs"} : Acceptable(m)
          THEN report.class = "usageLogs" /\ ~Acceptable("usageLogs")
          ELSE report.class = "configuration"

\* During an upgrade, with old and new CSVs installed at once, the version is that
\* of the newest of the chain, in whatever order the CSVs are listed.
NewestCOOVersion ==
    LET installed == {c \in ToSet(cluster.csvs) : ~c.copied /\ c.succeeded}
        newest == Max({c.version : c \in installed})
        chain == \A c \in installed :
                    /\ c.replaces < c.version
                    /\ \/ c.version = newest
                       \/ \E d \in installed : /\ d.namespace = c.namespace
                                               /\ d.replaces = c.version
    IN  pc = "images" /\ Has("storage") /\ installed # {} /\ chain
            /\ Cardinality({c \in installed : c.version = newest}) = 1
        => data.coo = newest

\* A release of the label proxy is accepted just if it is, in the order of
\* versions, 0.16.2 or a later one.
ImageNewEnough ==
    LET min == <<0, 16, 2>>
        newEnough(v) ==
            v = min \/ \E i \in 1..3 : v[i] > min[i] /\ \A j \in 1..(i - 1) : v[j] = min[j]
    IN  cluster.image.kind = "release" =>
            /\ pc = "tls" => newEnough(cluster.image.version)
            /\ report.what = "image" => ~newEnough(cluster.image.version)

\* The curves the proxies offer are those of the cluster's TLS profile that they
\* may use, once each and in the profile's order of preference.
CurvesKeepPreference ==
    pc = "apiServer" =>
        LET profile == cluster.tls.curves
            first(c) == Min({i \in DOMAIN profile : profile[i] = c})
            usable == IF cluster.tls.fips = "on" THEN fipsApprovedProxyCurveIDs ELSE proxyCurveIDs
        IN  /\ ToSet(data.curves) = ToSet(profile) \cap usable
            /\ \A i, j \in DOMAIN data.curves :
                  i < j => first(data.curves[i]) < first(data.curves[j])

\* Two claims are told apart just if they name different places in the object
\* store, however their Secrets spell them. (For hosts that do not themselves begin
\* with the name of the bucket.)
OneLocationOneKey ==
    LET a == cluster.claims[1].place
        b == cluster.claims[2].place
        ambiguous(p) == p # Nowhere /\ Head(p.host) = p.bucket
    IN  pc = "deploy" /\ Has("logs") /\ Has("usageLogs") /\ ~ambiguous(a) /\ ~ambiguous(b) =>
            data.gate = IF Nowhere \in {a, b} THEN "CheckFailed"
                        ELSE IF a = b THEN "Conflict" ELSE "Isolated"

\* Between rounds, the TargetAllocator may read the Secrets of every namespace it
\* should, unless the status reports that the last round failed: the watch on
\* namespaces lets no relevant change pass. It may read those of no other unless a
\* timer is pending: a sweep that fails is in no status, and has to be made up for.
SecretScopeCurrent ==
    pc = "idle" /\ ~queued /\ Has("metrics") /\ report.class \in {"ready", "storage"} =>
        /\ listAllNamespaces \subseteq secretScope
        /\ timer \/ secretScope \subseteq listAllNamespaces

\* Logs are in the end forwarded from just the namespaces with inference services,
\* which are not watched, even if the discovery failed; unless a round ends in an
\* error, and then the status says so.
InferenceFollowed ==
    Has("logs") /\ cluster.listed = {} /\ <>[][UNCHANGED inference]_vars =>
        <>[](inferenceScope = inference) \/ <>[](report.class # "ready")

\* What the messages about the exporters of the map m may say.
Messages(m) ==
    UNION {{<<exporterComplaint(e, 0), d>> : d \in complaintDetails(e, exporterComplaint(e, 0))} :
           e \in {x \in cluster.exporters[m] : exporterComplaint(x, 0) # NoComplaint}}

\* The status settles, so that the rounds it triggers by changing come to an end,
\* if there is at most one thing to be said of the exporters of each map and they
\* are not too large together: otherwise the message depends on the order in which
\* Go maps, those of exporters and those in their configs, are gone through.
StatusSettles ==
    (\A m \in Configured : /\ Cardinality(Messages(m)) <= 1
                           /\ TotalBytes(cluster.exporters[m]) <= maxTotalExporterSize)
        => <>[][UNCHANGED report]_vars
=============================================================================
