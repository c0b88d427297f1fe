----------------------------- MODULE MCFeatures -----------------------------
(***************************************************************************)
(* A small instance of the features: specs that differ in what collects,   *)
(* stores and deletes, with CRDs that come and go.                         *)
(***************************************************************************)
EXTENDS FeatureReconciler

CONSTANT v1

Managed == [EmptySpec EXCEPT !.managed = TRUE]

\* Traces in Tempo, metrics with alerting and logs, and Removed.
FeatureSpecs ==
    {[Managed EXCEPT !.traces = "pv"],
     [Managed EXCEPT !.metrics = "storage", !.alerting = TRUE, !.logs = TRUE],
     EmptySpec}

AllOrNone == {Operators, {}}

\* Three CRDs are never there, so that their features are unavailable or left out;
\* those of the collector and of Perses come and go.
Installed == CRDs \ {"Instrumentation", "PrometheusRule", "PersesDashboard"}

CRDsComeAndGo == {Installed, Installed \ {"OpenTelemetryCollector", "Perses"}}

=============================================================================
