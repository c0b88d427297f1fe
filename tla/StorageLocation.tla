--------------------------- MODULE StorageLocation ---------------------------
(***************************************************************************)
(* canonicalStorageLocation of actions.go: the key under which the storage *)
(* gate compares the bucket of one LokiStack with that of another, and the *)
(* ways in which a Secret can spell one location.                          *)
(*                                                                         *)
(* A host is the sequence of its labels and a path that of its segments; a *)
(* label is a record, so that the folding of case is a step of its own. A  *)
(* bucket is one label: one with a dot in its name, which the code strips  *)
(* from the host just the same, is left out. The key is a record of what   *)
(* the code joins into a string, from which the parts can be told again,   *)
(* as neither a host nor a valid bucket name holds a slash.                *)
(***************************************************************************)
EXTENDS Sequences, SequencesExt, Naturals

DefaultPorts == {"80", "443"}
NoPort == ""

Lower(label) == label.name

\* path.Clean of a rooted path: empty and dot segments go, and a double dot takes
\* the segment before it.
Clean(path) ==
    FoldLeft(LAMBDA done, seg :
                IF seg \in {"", "."} THEN done
                ELSE IF seg = ".." THEN (IF done = <<>> THEN done ELSE Front(done))
                ELSE Append(done, seg),
             <<>>, path)

\* TrimPrefix(host, bucket + "."), where a host that is only the bucket stays. A host
\* that begins with the bucket of its own accord is stripped too.
WithoutBucket(host, bucket) ==
    IF Len(host) > 1 /\ Head(host) = bucket THEN Tail(host) ELSE host

\* An endpoint that is empty, hostless or does not parse.
Unusable == [kind |-> "unusable"]

Failed == [kind |-> "error"]

\* canonicalStorageLocation stripping the bucket ahead of folding the case.
canonicalStorageLocation_CaseLast(e, bucket) ==
    IF e = Unusable THEN Failed
    ELSE LET stripped == WithoutBucket(e.labels, bucket)
         IN  [kind   |-> "key",
              host   |-> [i \in DOMAIN stripped |-> Lower(stripped[i])],
              port   |-> IF e.port \in DefaultPorts THEN NoPort ELSE e.port,
              prefix |-> Clean(e.path),
              bucket |-> Lower(bucket)]

\* The key: scheme, root dot and default ports are left out of it, case is
\* folded in the host and in the bucket but not in the path, and a bucket in front
\* of the host is not part of the host.
canonicalStorageLocation(e, bucket) ==
    IF e = Unusable THEN Failed
    ELSE [kind   |-> "key",
          host   |-> WithoutBucket([i \in DOMAIN e.labels |-> Lower(e.labels[i])],
                                   Lower(bucket)),
          port   |-> IF e.port \in DefaultPorts THEN NoPort ELSE e.port,
          prefix |-> Clean(e.path),
          bucket |-> Lower(bucket)]

\* A storage Secret holds an endpoint and a list of bucket names, in which blank
\* entries are skipped; without any bucket it names no location.
lokiStorageLocations(secret) ==
    LET keys == {canonicalStorageLocation(secret.endpoint, b) : b \in secret.buckets}
    IN  IF keys = {} \/ Failed \in keys THEN {Failed} ELSE keys

\* checkStorageIsolation over the Secrets of two claims.
Isolation(first, second) ==
    LET a == lokiStorageLocations(first)
        b == lokiStorageLocations(second)
    IN  IF Failed \in a \cup b THEN "CheckFailed"
        ELSE IF a \cap b # {} THEN "Conflict" ELSE "Isolated"

-----------------------------------------------------------------------------
(* Spellings *)

\* A place in an object store is a bucket at a gateway, under a path. It is written
\* in one way: without a default port and without segments that Clean would drop.
IsPlace(p) ==
    /\ p \in [host : Seq(STRING), port : STRING, prefix : Seq(STRING), bucket : STRING]
    /\ p.host # <<>> /\ p.port \notin DefaultPorts
    /\ \A i \in DOMAIN p.prefix : p.prefix[i] \notin {"", ".", ".."}

Label(name, upper) == [name |-> name, upper |-> upper]

\* How a Secret may write a location down.
Styles == [scheme  : {"none", "https"},
           upper   : BOOLEAN,                   \* the host in capitals
           capital : BOOLEAN,                   \* the bucket in capitals
           rootDot : BOOLEAN,
           port    : {"omitted", "80", "443"},  \* if it is a default port
           virtual : BOOLEAN,                   \* the bucket as the first label
           noise   : {<<>>, <<"", ".", "x", "..">>}]

Plain == [scheme |-> "none", upper |-> FALSE, capital |-> FALSE, rootDot |-> FALSE,
          port |-> "omitted", virtual |-> FALSE, noise |-> <<>>]

Spell(loc, st) ==
    LET names == IF st.virtual THEN <<loc.bucket>> \o loc.host ELSE loc.host
    IN  [kind    |-> "endpoint",
         scheme  |-> st.scheme,
         labels  |-> [i \in DOMAIN names |-> Label(names[i], st.upper)],
         rootDot |-> st.rootDot,
         port    |-> IF loc.port # NoPort THEN loc.port
                     ELSE IF st.port = "omitted" THEN NoPort ELSE st.port,
         path    |-> st.noise \o loc.prefix]

\* The Secret that names the location loc in the style st, or none.
Nowhere == [host |-> <<>>]

SecretFor(loc, st) ==
    IF loc = Nowhere THEN [endpoint |-> Unusable, buckets |-> {Label("any", FALSE)}]
    ELSE [endpoint |-> Spell(loc, st), buckets |-> {Label(loc.bucket, st.capital)}]
=============================================================================
