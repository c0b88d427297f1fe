--------------------------- MODULE MCTemplateData ---------------------------
(***************************************************************************)
(* TemplateData on clusters that are ordinary in all respects but one.     *)
(***************************************************************************)
EXTENDS TemplateData

NoExporters == [m \in {"metrics", "traces", "usageLogs"} |-> {}]

GoodTLS == [profile |-> "VersionTLS12", ciphers |-> {}, curves |-> <<>>, fips |-> "off"]

Endpoint(ready, addresses) == [ready |-> ready, addresses |-> addresses]
Address(type, n) == [type |-> type, address |-> n]

GoodSlices == {[type |-> "IPv4", endpoints |-> {Endpoint("yes", {Address("IPv4", 1)})}]}

Place(host, port, prefix, bucket) ==
    [host |-> host, port |-> port, prefix |-> prefix, bucket |-> bucket]

Claim(place, style) == [place |-> place, style |-> style]

Here == Place(<<"minio", "svc">>, "", <<>>, "b")
There == Place(<<"minio", "svc">>, "", <<>>, "c")
Far == Place(<<"gw", "minio", "svc">>, "9000", <<"store">>, "b")

Base(signals) ==
    [restless |-> FALSE, signals |-> signals, csvs |-> <<>>, extension |-> Unknown,
     csvAPI |-> "served", fallback |-> 7, operatorImage |-> TRUE,
     image |-> [kind |-> "digest", version |-> <<0, 0, 0>>],
     tls |-> GoodTLS, slices |-> GoodSlices, exporters |-> NoExporters, listed |-> {},
     claims |-> <<Claim(Here, Plain), Claim(There, Plain)>>]

-----------------------------------------------------------------------------
(* One thing at a time *)

CSV(version, replaces, copied, succeeded) ==
    [version |-> version, namespace |-> "coo", copied |-> copied, succeeded |-> succeeded,
     replaces |-> replaces]

CSVs == {CSV(1, 0, FALSE, TRUE), CSV(2, 1, FALSE, TRUE), CSV(2, 1, FALSE, FALSE),
         CSV(3, 2, FALSE, TRUE), CSV(3, 1, FALSE, TRUE), CSV(3, 2, TRUE, TRUE),
         [CSV(2, 0, FALSE, TRUE) EXCEPT !.namespace = "other"]}

COOClusters ==
    {[Base({"metrics", "storage"}) EXCEPT !.csvs = c, !.extension = x] :
        c \in {l \in UNION {[1..n -> CSVs] : n \in 0..3} : IsInjective(l)}, x \in {Unknown, 9}}
    \cup {[Base(s) EXCEPT !.csvAPI = a] :
            s \in {{"metrics"}, {"metrics", "storage"}}, a \in {"absent", "failing"}}

ImageClusters ==
    {[Base({"metrics"}) EXCEPT !.image = [kind |-> k, version |-> <<a, b, c>>]] :
        k \in {"release", "other"}, a \in 0..1, b \in 15..17, c \in 1..3}
    \cup {[Base({"metrics"}) EXCEPT !.operatorImage = FALSE]}

TLSClusters ==
    {[Base({"metrics"}) EXCEPT !.tls.profile = p, !.tls.ciphers = cs] :
        p \in {"unreadable", "VersionTLS11", "VersionTLS12", "VersionTLS13"},
        cs \in SUBSET {"TLS_ECDHE_RSA_WITH_AES_128_GCM_SHA256", "other"}}
    \cup
    {[Base({"metrics"}) EXCEPT !.tls.curves = cu, !.tls.fips = f] :
        cu \in UNION {[1..n -> {23, 29, 99}] : n \in 0..3}, f \in {"on", "off", "unreadable"}}

SliceClusters ==
    {[Base(s) EXCEPT !.slices = {[type |-> t, endpoints |-> es]}] :
        s \in {{}, {"traces"}}, t \in {"IPv4", "IPv6", "FQDN"},
        es \in SUBSET {Endpoint("yes", {Address("IPv4", 1)}), Endpoint("unsaid", {Address("IPv6", 2)}),
                       Endpoint("no", {Address("unparsable", 3)})}}

Node(kind, depth, size) == [kind |-> kind, depth |-> depth, size |-> size]

\* As large as can be.
GoodConfig == [nodes |-> {Node("object", 1, 50), Node("array", 2, 100), Node("string", 10, 1024)},
               fields |-> {"endpoint"}, wrong |-> {}, endpoint |-> "https"]

Exporter(n, bytes) ==
    [id |-> n, name |-> "fine", type |-> "otlp", bytes |-> bytes, parses |-> TRUE,
     config |-> GoodConfig]

\* Five of the largest fill a map.
Fitting == {Exporter(n, 10240) : n \in 1..5}

Others ==
    {Exporter(6, 0), Exporter(6, 1), Exporter(7, 10241),
     [Exporter(8, 0) EXCEPT !.name = "reserved"],
     [Exporter(8, 10) EXCEPT !.parses = FALSE],
     [Exporter(8, 20) EXCEPT !.type = "vendor", !.config.fields = {"anything"}],
     [Exporter(8, 20) EXCEPT !.config.nodes = {Node("object", 1, 50), Node("string", 11, 1)}],
     [Exporter(8, 20) EXCEPT !.config.nodes = {Node("object", 1, 51), Node("array", 2, 101)}],
     [Exporter(8, 20) EXCEPT !.config.nodes = {Node("object", 1, 2), Node("array", 2, 101),
                                               Node("key", 1, 1025)}],
     [Exporter(8, 20) EXCEPT !.config.nodes = {Node("unsupported", 2, 1)}],
     [Exporter(8, 20) EXCEPT !.config.fields = {}],
     [Exporter(8, 20) EXCEPT !.config.fields = {"endpoint", "here", "there"}],
     [Exporter(8, 20) EXCEPT !.config.wrong = {"endpoint"},
                             !.config.endpoint = "http to a remote host"]}

ExporterSets ==
    {{e} : e \in Others} \cup {{d, e} : d \in {Exporter(1, 5), Exporter(9, 10241)}, e \in Others}
    \cup {Fitting, Fitting \cup {Exporter(6, 1)}, Fitting \cup {Exporter(6, 0)}}

ExporterClusters ==
    {[Base({"metrics", "traces", "usageLogs"}) EXCEPT
        !.exporters = [metrics |-> a, traces |-> b, usageLogs |-> c]] :
        a \in {{}, Fitting}, b \in {{}, {Exporter(1, 5)}, {Exporter(8, 10241)}}, c \in ExporterSets}

Places == {Place(h, p, x, b) : h \in {<<"minio", "svc">>, <<"gw", "minio", "svc">>},
                               p \in {"", "9000"}, x \in {<<>>, <<"store">>}, b \in {"b", "c"}}

StorageClusters ==
    {[Base({"logs", "usageLogs"}) EXCEPT
        !.claims = <<Claim(pair[1], Plain), Claim(pair[2], style)>>] :
        pair \in {<<Here, Here>>, <<Here, There>>, <<Far, Far>>}, style \in Styles}
    \cup
    {[Base({"logs", "usageLogs"}) EXCEPT !.claims = <<Claim(a, Plain), Claim(b, Plain)>>] :
        a \in Places \cup {Nowhere}, b \in Places}

NamespaceClusters ==
    {[Base({"metrics"}) EXCEPT !.restless = TRUE],
     [Base({"metrics", "logs"}) EXCEPT !.restless = TRUE],
     [Base({"logs"}) EXCEPT !.listed = {"app", "Not A Name"}]}

MCClusters ==
    COOClusters \cup ImageClusters \cup TLSClusters \cup SliceClusters \cup ExporterClusters
    \cup StorageClusters \cup NamespaceClusters
=============================================================================
