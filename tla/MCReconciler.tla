---------------------------- MODULE MCReconciler ----------------------------
(***************************************************************************)
(* Small instances of the reconcile round. Each .cfg picks the specs that  *)
(* users move between, the contents of the storage Secrets, the operators  *)
(* and CRDs that come and go, and the disturbances.                        *)
(***************************************************************************)
EXTENDS DocumentedClaims, TLC

CONSTANTS s1, s2, l1, l2

-----------------------------------------------------------------------------
(* Specs *)

\* A managed spec with the given storage Secrets and nothing else.
Logs(usage, logs) ==
    [EmptySpec EXCEPT !.managed = TRUE,
                      !.storage = [usageLogs |-> usage, logs |-> logs]]

Removed(s) == [s EXCEPT !.managed = FALSE]

Metrics(s) == [s EXCEPT !.metricsStorage = TRUE]

\* The collector also exports, with a credential of its own.
Exporting(s) == [s EXCEPT !.exporters = "valid", !.credentialSecret = TRUE]

UsageOnly == Logs(s1, NoSecret)
ForwardingOnly == Logs(NoSecret, s1)
Both == Logs(s1, s2)
Neither == Logs(NoSecret, NoSecret)

\* Each pipeline alone on the same Secret, so that edits move the bucket from one
\* to the other, both on it, and one of them on a Secret that may be missing.
PipelineSpecs == {UsageOnly, ForwardingOnly, Logs(s1, s1), Both}

GateSpecs == {Both, UsageOnly}

LifecycleSpecs ==
    {UsageOnly, Removed(UsageOnly),
     [UsageOnly EXCEPT !.exporters = "invalid"],
     [UsageOnly EXCEPT !.namespaceMatches = FALSE]}

MetricsSpecs == {Metrics(Neither), Metrics(UsageOnly)}

ConvergenceSpecs == {Exporting(UsageOnly), Both}

RemovalSpecs == {UsageOnly, Removed(UsageOnly)}

-----------------------------------------------------------------------------
(* The cluster *)

SeparateBuckets == (s1 :> {l1}) @@ (s2 :> {l2})
OneBucket       == (s1 :> {l1}) @@ (s2 :> {l1, l2})
SecondMissing   == s1 :> {l1}

FixedStores == {SeparateBuckets}
OneStore == {SecondMissing}
ConflictStores == {SeparateBuckets, OneBucket}

AllOperators == {Operators}
LokiComesAndGoes == {Operators, Operators \ {"loki"}}

AllCRDs == {CRDs}
QuerierCRDComesAndGoes == {CRDs, CRDs \ {"ThanosQuerier"}}
LokiCRDComesAndGoes == {CRDs, CRDs \ {"LokiStack"}}
=============================================================================
