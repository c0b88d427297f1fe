------------------------- MODULE TemplateAlgorithms -------------------------
(***************************************************************************)
(* The computations of a reconcile round that look at nothing but their    *)
(* arguments: which version of the Cluster Observability Operator is       *)
(* installed, which images, TLS profiles and exporters are accepted, and   *)
(* which namespaces are the system's (templatedata.go, proxy_tls.go,       *)
(* helpers.go); StorageLocation has those on storage.                      *)
(***************************************************************************)
EXTENDS StorageLocation, FiniteSets, FiniteSetsExt

-----------------------------------------------------------------------------
(* The version of the Cluster Observability Operator *)

Unknown == 0

CSVType == [version : Nat, namespace : STRING, copied : BOOLEAN, succeeded : BOOLEAN,
            replaces : Nat]

\* cooInstalledCSVVersion taking whichever CSV the list ends with.
cooInstalledCSVVersion_ListOrder(csvs, extension) ==
    LET installed == {i \in DOMAIN csvs : ~csvs[i].copied /\ csvs[i].succeeded}
    IN  IF installed = {} THEN extension ELSE csvs[Max(installed)].version

\* The one installed CSV that no installed CSV of its namespace replaces has the
\* version; if there is not exactly one, the ClusterExtension has, or it stays unknown.
cooInstalledCSVVersion(csvs, extension) ==
    LET installed == {i \in DOMAIN csvs : ~csvs[i].copied /\ csvs[i].succeeded}
        replaced == {<<csvs[i].namespace, csvs[i].replaces>> : i \in installed}
        current == {i \in installed : <<csvs[i].namespace, csvs[i].version>> \notin replaced}
    IN  IF Cardinality(current) = 1 THEN csvs[CHOOSE i \in current : TRUE].version
        ELSE extension

-----------------------------------------------------------------------------
(* Images, TLS and the API server *)

\* validatePromLabelProxyImageSupportsQueryParamOnly looking at the patch level
\* whatever the minor version.
imageSupported_PatchOnly(image) ==
    \/ image.kind = "digest"
    \/ /\ image.kind = "release"
       /\ image.version[1] > 0 \/ (image.version[2] >= 16 /\ image.version[3] >= 2)

\* validatePromLabelProxyImageSupportsQueryParamOnly. "other" is a tag that is not
\* a release: floating, a prerelease or a build.
imageSupported(image) ==
    \/ image.kind = "digest"
    \/ /\ image.kind = "release"
       /\ \/ image.version[1] > 0
          \/ image.version[2] > 16
          \/ image.version[2] = 16 /\ image.version[3] >= 2

HTTP2Ciphers == {"TLS_ECDHE_RSA_WITH_AES_128_GCM_SHA256",
                 "TLS_ECDHE_ECDSA_WITH_AES_128_GCM_SHA256"}

\* validateProxyHTTP2CipherSuites.
ciphersServeHTTP2(minVersion, ciphers) ==
    minVersion = "VersionTLS13" \/ ciphers = {} \/ ciphers \cap HTTP2Ciphers # {}

proxyCurveIDs == {23, 24, 25, 29, 4588}
fipsApprovedProxyCurveIDs == {23, 24, 25}

\* filterProxyCurvePreferences that drops the earlier one of two equal curves.
filterProxyCurvePreferences_KeepsLast(curves, fips) ==
    LET usable == IF fips THEN fipsApprovedProxyCurveIDs ELSE proxyCurveIDs
        step(kept, c) == IF c \notin usable THEN kept
                         ELSE Append(SelectSeq(kept, LAMBDA k : k # c), c)
    IN  FoldLeft(step, <<>>, curves)

\* filterProxyCurvePreferences: the usable curves, each where it first occurs.
filterProxyCurvePreferences(curves, fips) ==
    LET usable == IF fips THEN fipsApprovedProxyCurveIDs ELSE proxyCurveIDs
        step(kept, c) == IF c \notin usable \/ c \in ToSet(kept) THEN kept
                         ELSE Append(kept, c)
    IN  FoldLeft(step, <<>>, curves)

\* addTLSData: "retry" if the profile or the FIPS mode cannot be read.
tlsVerdict(tls) ==
    IF tls.profile = "unreadable" THEN "retry"
    ELSE IF tls.profile \notin {"VersionTLS12", "VersionTLS13"} THEN "invalid"
    ELSE IF ~ciphersServeHTTP2(tls.profile, tls.ciphers) THEN "invalid"
    ELSE IF tls.fips = "unreadable" THEN "retry"
    ELSE IF tls.curves # <<>> /\ filterProxyCurvePreferences(tls.curves, tls.fips = "on") = <<>>
    THEN "invalid" ELSE "ok"

\* kubernetesAPIServerCIDRs, of a list of EndpointSlices [type, endpoints] with
\* endpoints [ready, addresses]; an endpoint that does not say is ready. The result
\* is empty if an address is not of its slice's type or none is there.
kubernetesAPIServerCIDRs(slices) ==
    LET usable == {s \in slices : s.type \in {"IPv4", "IPv6"}}
        ready(s) == {e \in s.endpoints : e.ready # "no"}
        wrong == \E s \in usable : \E e \in ready(s) : \E a \in e.addresses : a.type # s.type
    IN  IF wrong THEN {}
        ELSE UNION {UNION {e.addresses : e \in ready(s)} : s \in usable}

-----------------------------------------------------------------------------
(* Namespaces *)

Gone == [terminating |-> FALSE, labels |-> {"gone"}]

\* The labels that mark a namespace of the system, and any other label.
SystemLabels == {"openshift.io/run-level", "openshift.io/cluster-monitoring"}

isSystemNamespace(ns) == ns.labels \cap SystemLabels # {}

\* namespaceWatchPredicate that lets updates of labels pass unnoticed.
namespaceWatchPredicate_DeletionOnly(old, new) ==
    Gone \in {old, new} \/ old.terminating # new.terminating

\* namespaceWatchPredicate.
namespaceWatchPredicate(old, new) ==
    \/ Gone \in {old, new}
    \/ old.terminating # new.terminating
    \/ isSystemNamespace(old) # isSystemNamespace(new)

-----------------------------------------------------------------------------
(* Exporters *)

maxExporterSize == 10240
maxTotalExporterSize == 51200
maxNestingDepth == 10
maxConfigFields == 50
maxArrayLength == 100
maxStringLength == 1024

\* A config is a set of nodes [kind, depth, size]: its objects, arrays, strings and
\* keys, and the values of types that are not supported.
sizeLimit == [object |-> maxConfigFields, array |-> maxArrayLength,
              string |-> maxStringLength, key |-> maxStringLength]

nodeWithinLimits(n) ==
    n.depth <= maxNestingDepth /\ n.kind # "unsupported" /\ n.size <= sizeLimit[n.kind]

\* validateExporterConfigSecurity and validateConfigDepthAndTypes.
configWithinLimits(c) == \A n \in c.nodes : nodeWithinLimits(n)

\* What the message says of a node: the depth, but not of one that is too deep, and
\* the length of an array.
nodeMessage(n) == IF n.depth > maxNestingDepth THEN <<"too deep", 0, 0>>
                  ELSE <<n.kind, n.depth, IF n.kind = "array" THEN n.size ELSE 0>>

\* The nodes a config may be refused for: the outermost object if that has too many
\* fields, otherwise whichever the iteration over Go maps meets first.
limitMessages(c) ==
    LET refused == {n \in c.nodes : ~nodeWithinLimits(n)}
        outermost == {n \in refused : n.kind = "object" /\ n.depth = 1}
    IN  {nodeMessage(n) : n \in IF outermost # {} THEN outermost ELSE refused}

ClientFields == {"endpoint", "headers", "tls", "retry_on_failure", "sending_queue"}

\* metricsExporterSchemas: the fields that must be and that may be there.
metricsExporterSchemas ==
    [otlp     |-> [required |-> {"endpoint"},
                   allowed  |-> ClientFields \cup {"compression", "timeout", "balancer_name"}],
     otlphttp |-> [required |-> {"endpoint"},
                   allowed  |-> ClientFields \cup {"compression", "timeout"}],
     debug    |-> [required |-> {},
                   allowed  |-> {"verbosity", "sampling_initial", "sampling_thereafter"}],
     prometheusremotewrite |->
                  [required |-> {"endpoint"},
                   allowed  |-> ClientFields \cup {"remote_timeout", "write_relabel_configs",
                                                   "resource_to_telemetry_conversion"}]]

\* validateExporterSchema. c.wrong: the fields whose value is not of the type,
\* length, pattern or values of the schema; c.endpoint: how the endpoint is reached.
\* Exporters of other types have no schema.
schemaAccepts(type, c) ==
    type \in DOMAIN metricsExporterSchemas =>
        LET schema == metricsExporterSchemas[type]
        IN  /\ schema.required \subseteq c.fields
            /\ c.fields \subseteq schema.allowed
            /\ c.wrong = {}
            /\ "endpoint" \in c.fields => c.endpoint # "http to a remote host"

\* The fields a config may be refused for: one that is missing (no schema requires
\* two), or else any that does not belong there, or else any with a wrong value.
schemaMessages(type, c) ==
    LET schema == metricsExporterSchemas[type]
        missing == schema.required \ c.fields
        foreign == c.fields \ schema.allowed
        insecure == {f \in c.fields \cap {"endpoint"} : c.endpoint = "http to a remote host"}
        fields == IF missing # {} THEN missing ELSE IF foreign # {} THEN foreign
                  ELSE c.wrong \cup insecure
    IN  {<<f, 0, 0>> : f \in fields}

NoComplaint == "none"

\* The check of the loop body of validateExporters that the exporter e fails, if
\* those before it add up to `total'. An exporter without a config is passed over.
firstFailing(e, total, limit) ==
    IF e.name # "fine" THEN "name"
    ELSE IF e.bytes = 0 THEN NoComplaint
    ELSE IF e.bytes > maxExporterSize THEN "size"
    ELSE IF total + e.bytes > limit THEN "total"
    ELSE IF ~e.parses THEN "syntax"
    ELSE IF ~configWithinLimits(e.config) THEN "limits"
    ELSE IF ~schemaAccepts(e.type, e.config) THEN "schema"
    ELSE NoComplaint

\* The size of the exporter at hand is not yet in the total that is checked.
exporterComplaint_LateTotal(e, total) ==
    firstFailing(e, total, maxTotalExporterSize + e.bytes)

exporterComplaint(e, total) == firstFailing(e, total, maxTotalExporterSize)

\* What the loop over the exporters of a map should add up to.
TotalBytes(es) == MapThenSumSet(LAMBDA e : e.bytes, es)
=============================================================================
