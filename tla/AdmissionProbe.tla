--------------------------- MODULE AdmissionProbe ---------------------------
(***************************************************************************)
(* The webhook admission probe (internal/webhook/probe.go) and the         *)
(* injector it tests (internal/webhook/mutating.go). A probe cycle takes   *)
(* the scrape label off a canary PodMonitor and looks whether the webhook  *)
(* puts it back; every API call of the cycle is a step, and the webhook,   *)
(* the namespace, the Monitoring CR and the canary change in between.      *)
(***************************************************************************)
EXTENDS Naturals

CONSTANTS
    MaxPolls,   \* how often the canary is read back before the deadline
    MaxFaults   \* the bound on failed API calls, restarts and edits of the canary

ASSUME BoundsAssumption == MaxPolls \in Nat \ {0} /\ MaxFaults \in Nat

VARIABLES
    \* The cluster.
    policy,      \* the webhook's failurePolicy: "Fail" or "Ignore"
    webhookUp,   \* the API server reaches the webhook
    enrolled,    \* the probe namespace carries the scrape label
    cached,      \* the same in the operator's cache, where Namespaces are read
    monitoring,  \* the Monitoring CR: "managed", "removed" or "absent"
    canary,      \* the scrape label of the canary: "none", "true", "other"; or "gone"
    \* The probe.
    pc,
    read,        \* the canary as last read
    stale,       \* somebody else wrote the canary since
    polls,
    mutated,     \* the webhook labelled the canary in this cycle
    outcome,     \* the last outcome that the metrics show
    faults

clusterVars == <<policy, webhookUp, enrolled, cached, monitoring>>
vars == <<clusterVars, canary, pc, read, stale, polls, mutated, outcome, faults>>

Labels == {"none", "true", "other"}

-----------------------------------------------------------------------------
(* Admission *)

\* An injector that labels monitors whatever the management state.
inject_IgnoresRemoved(label) ==
    IF cached /\ monitoring # "absent" /\ label = "none" THEN "true" ELSE label

\* The injector labels an unlabelled monitor while monitoring is managed; a
\* label that is there stays, whatever it says.
inject(label) ==
    IF cached /\ monitoring = "managed" /\ label = "none" THEN "true" ELSE label

\* What becomes of a write of the canary with this label. The API server calls
\* the webhook for the namespaces its selector matches.
Admitted(label) ==
    IF ~enrolled THEN label
    ELSE IF webhookUp THEN inject(label)
    ELSE IF policy = "Ignore" THEN label
    ELSE "rejected"

-----------------------------------------------------------------------------
(* A probe cycle *)

Finish(result) ==
    /\ pc' = "idle" /\ outcome' = result
    /\ read' = "gone" /\ stale' = FALSE /\ polls' = 0 /\ mutated' = FALSE

\* The ticker fires. The namespace is looked up before anything else.
Start ==
    /\ pc = "idle"
    /\ IF cached THEN pc' = "get" /\ UNCHANGED <<read, stale, polls, mutated, outcome>>
                 ELSE Finish("failure")
    /\ UNCHANGED <<clusterVars, canary>>

\* A probe that treats a missing canary as a failed read.
GetCanary_NotFoundFails ==
    /\ pc = "get"
    /\ IF canary = "gone" THEN Finish("failure")
       ELSE pc' = "write" /\ read' = canary /\ stale' = FALSE
            /\ UNCHANGED <<polls, mutated, outcome>>
    /\ UNCHANGED <<clusterVars, canary>>

GetCanary ==
    /\ pc = "get"
    /\ pc' = "write" /\ read' = canary /\ stale' = FALSE
    /\ UNCHANGED <<clusterVars, canary, polls, mutated, outcome>>

\* A probe that leaves the label of an existing canary on it.
WriteCanary_KeepsLabel ==
    LET sent == IF read = "gone" THEN "none" ELSE read
        stored == Admitted(sent)
    IN  /\ pc = "write"
        /\ IF stale \/ stored = "rejected" THEN Finish("failure") /\ UNCHANGED canary
           ELSE /\ canary' = stored /\ mutated' = (stored # sent)
                /\ pc' = "verify"
                /\ UNCHANGED <<read, stale, polls, outcome>>
        /\ UNCHANGED clusterVars

\* Create the canary, or update it, without the label. The update carries the
\* version that was read; a write of anybody else in between is a conflict.
WriteCanary ==
    LET stored == Admitted("none")
    IN  /\ pc = "write"
        /\ IF stale \/ stored = "rejected" THEN Finish("failure") /\ UNCHANGED canary
           ELSE /\ canary' = stored /\ mutated' = (stored # "none")
                /\ pc' = "verify"
                /\ UNCHANGED <<read, stale, polls, outcome>>
        /\ UNCHANGED clusterVars

ReadBack ==
    /\ pc = "verify"
    /\ IF canary = "true" THEN Finish("success")
       ELSE /\ pc' = IF canary = "gone" THEN "wait" ELSE "retrigger"
            /\ read' = canary /\ stale' = FALSE
            /\ UNCHANGED <<polls, mutated, outcome>>
    /\ UNCHANGED <<clusterVars, canary>>

\* Touch the canary so that it is admitted again. A conflict is no error, and
\* another failure shows at the deadline.
Retrigger ==
    LET stored == Admitted(read)
    IN  /\ pc = "retrigger"
        /\ pc' = "wait"
        /\ IF stale \/ stored = "rejected" THEN UNCHANGED <<canary, mutated>>
           ELSE canary' = stored /\ mutated' = (mutated \/ stored # read)
        /\ UNCHANGED <<clusterVars, read, stale, polls, outcome>>

\* A wait that never gives up.
Wait_NoDeadline ==
    /\ pc = "wait"
    /\ pc' = "verify" /\ polls' = polls + 1
    /\ UNCHANGED <<clusterVars, canary, read, stale, mutated, outcome>>

\* Read again, or report the failure once the deadline has passed, which slow
\* calls may bring about after any number of reads.
Wait ==
    /\ pc = "wait"
    /\ \/ /\ polls < MaxPolls
          /\ pc' = "verify" /\ polls' = polls + 1
          /\ UNCHANGED <<read, stale, mutated, outcome>>
       \/ Finish("failure")
    /\ UNCHANGED <<clusterVars, canary>>

-----------------------------------------------------------------------------
(* Faults and the environment *)

\* An API call fails: reported at once ahead of the polling, and retried in it.
CallFails ==
    /\ \/ pc \in {"idle", "get", "write"} /\ Finish("failure")
       \/ /\ pc \in {"verify", "retrigger"} /\ pc' = "wait"
          /\ UNCHANGED <<read, stale, polls, mutated, outcome>>
    /\ UNCHANGED <<clusterVars, canary>>

\* The operator restarts and its metrics with it.
Restart == Finish("none") /\ UNCHANGED <<clusterVars, canary>>

\* Somebody relabels or deletes the canary. (Nobody but the webhook sets the
\* label to true.)
EditCanary ==
    /\ canary # "gone"
    /\ canary' \in {"none", "other", "gone"} \ {canary}
    /\ stale' = TRUE
    /\ UNCHANGED <<clusterVars, pc, read, polls, mutated, outcome>>

CacheSync ==
    /\ cached # enrolled
    /\ cached' = enrolled
    /\ UNCHANGED <<policy, webhookUp, enrolled, monitoring, canary, pc, read,
                   stale, polls, mutated, outcome>>

ClusterChanges ==
    /\ \/ webhookUp' = ~webhookUp /\ UNCHANGED <<enrolled, monitoring>>
       \/ enrolled' = ~enrolled /\ UNCHANGED <<webhookUp, monitoring>>
       \/ /\ monitoring' \in {"managed", "removed", "absent"} \ {monitoring}
          /\ UNCHANGED <<webhookUp, enrolled>>
    /\ UNCHANGED <<policy, cached, canary, pc, read, stale, polls, mutated, outcome>>

Init ==
    /\ policy \in {"Fail", "Ignore"}
    /\ webhookUp \in BOOLEAN /\ enrolled \in BOOLEAN /\ cached = enrolled
    /\ monitoring \in {"managed", "removed", "absent"}
    /\ canary \in {"gone", "true"}
    /\ pc = "idle" /\ read = "gone" /\ stale = FALSE /\ polls = 0
    /\ mutated = FALSE /\ outcome = "none" /\ faults = 0

ProbeStep == Start \/ GetCanary \/ WriteCanary \/ ReadBack \/ Retrigger \/ Wait

Next == \/ (ProbeStep \/ CacheSync \/ ClusterChanges) /\ faults' = faults
        \/ /\ faults < MaxFaults
           /\ CallFails \/ Restart \/ EditCanary
           /\ faults' = faults + 1

Spec == Init /\ [][Next]_vars

\* The ticker keeps firing, API calls return and the cache catches up.
FairSpec == /\ Spec
            /\ WF_vars(ProbeStep /\ faults' = faults)
            /\ WF_vars(CacheSync /\ faults' = faults)

-----------------------------------------------------------------------------
(* Properties *)

TypeOK ==
    /\ policy \in {"Fail", "Ignore"}
    /\ webhookUp \in BOOLEAN /\ enrolled \in BOOLEAN /\ cached \in BOOLEAN
    /\ monitoring \in {"managed", "removed", "absent"}
    /\ canary \in Labels \cup {"gone"} /\ read \in Labels \cup {"gone"}
    /\ pc \in {"idle", "get", "write", "verify", "retrigger", "wait"}
    /\ stale \in BOOLEAN /\ mutated \in BOOLEAN
    /\ polls \in 0..MaxPolls
    /\ outcome \in {"none", "success", "failure"}
    /\ faults \in 0..MaxFaults

\* A cycle reports success only if the webhook labelled the canary in this very
\* cycle: never on a label of an earlier cycle, which an unreachable webhook
\* under failurePolicy Ignore would let through.
SuccessProvesAdmission ==
    [][pc = "verify" /\ pc' = "idle" /\ outcome' = "success" => mutated]_vars

Admitting == webhookUp /\ enrolled /\ monitoring = "managed"

\* A webhook that has stopped labelling monitors, for whatever reason and under
\* either failure policy, ends up reported as failing for good. (A Monitoring CR
\* that is absent or Removed is one of the reasons.)
OutageReported == <>[]~Admitting => <>[](outcome = "failure")

\* A webhook that labels monitors again ends up reported as succeeding for good,
\* whatever happened to the canary: it may be missing, relabelled or stale.
HealthReported == <>[]Admitting => <>[](outcome = "success")
=============================================================================
