----------------------------- MODULE WebhookTLS -----------------------------
(***************************************************************************)
(* The TLS posture of the admission webhook over the life of the operator  *)
(* process (cmd/tls.go, cmd/main.go). The posture is resolved once, before *)
(* the manager starts, and never changes in a running process: a change of *)
(* the cluster's settings has to end the process, so that kube restarts it *)
(* and it resolves anew. Either the SecurityProfileWatcher notices the     *)
(* change, or, while the settings could not be read and a stand-in is      *)
(* served, the recovery poller notices that they can be.                   *)
(*                                                                         *)
(* A cluster without the APIServer API, or without its resource, is        *)
(* assumed to stay so: the process that finds none keeps Go's defaults and *)
(* watches nothing, so that it would not notice one created later.         *)
(***************************************************************************)
EXTENDS Naturals

CONSTANTS
    Profiles,     \* the TLS profiles that convert to Go settings
    Invalid,      \* a profile that is invalid under Strict adherence
    NoAPIServer,  \* the settings of a cluster without the APIServer API or resource
    MaxCrashes    \* the bound on the crashes and failed starts of the process

VARIABLES
    settings,  \* adherence and profile of the APIServer resource
    api,       \* what reading it gives: "ok", "unreadable", "broken"
    proc,      \* "down", "resolved" (manager not started), "running", "stopping"
    tls,       \* webhookTLSResult
    event,     \* a watch event for the APIServer resource is due
    crashes

vars == <<settings, api, proc, tls, event, crashes>>

\* An unset adherence counts as Legacy, an unknown one as Strict
\* (ShouldHonorClusterTLSProfile).
ClusterSettings == [adherence : {"Legacy", "Strict"}, profile : Profiles \cup {Invalid}]

Settings == ClusterSettings \cup {NoAPIServer}

\* No TLS options at all, and the Strict Intermediate posture of a stand-in.
Postures == Profiles \cup {"defaults", "standIn"}

ASSUME TLSAssumption ==
    /\ NoAPIServer \notin ClusterSettings
    /\ Invalid \notin Profiles
    /\ {"defaults", "standIn"} \cap (Profiles \cup {Invalid}) = {}
    /\ MaxCrashes \in Nat

TLSResult == [posture   : Postures,
              loaded    : Settings,
              watchable : BOOLEAN,
              degraded  : BOOLEAN]

-----------------------------------------------------------------------------

ShouldHonorClusterTLSProfile(s) == s # NoAPIServer /\ s.adherence = "Strict"

InvalidStrict(s) == ShouldHonorClusterTLSProfile(s) /\ s.profile = Invalid

\* buildWebhookTLSOpts, for settings that are not InvalidStrict. It validates the
\* profile that decideWebhookTLSLoad has validated once more, and so never refuses
\* it; the Profiles are those of which the conversion to Go settings succeeds.
buildWebhookTLSOpts(s) ==
    IF ShouldHonorClusterTLSProfile(s) THEN s.profile ELSE "defaults"

\* A load that does not validate the profile.
decideWebhookTLSLoad_NoValidation ==
    IF api = "unreadable" THEN "standIn"
    ELSE IF api = "broken" THEN "error"
    ELSE "load"

\* A denied, timed-out or otherwise failed read asks for the stand-in; an
\* invalid Strict profile, and any error that is not classified, refuses.
decideWebhookTLSLoad ==
    IF api = "unreadable" THEN "standIn"
    ELSE IF api = "broken" \/ InvalidStrict(settings) THEN "error"
    ELSE "load"

strictStandInWebhookTLS ==
    [posture |-> "standIn", loaded |-> NoAPIServer,
     watchable |-> FALSE, degraded |-> TRUE]

evaluateWebhookTLS ==
    IF decideWebhookTLSLoad = "standIn" THEN strictStandInWebhookTLS
    ELSE [posture   |-> buildWebhookTLSOpts(settings),
          loaded    |-> settings,
          watchable |-> settings # NoAPIServer,
          degraded  |-> FALSE]

NoTLS == [posture |-> "defaults", loaded |-> NoAPIServer,
          watchable |-> FALSE, degraded |-> FALSE]

-----------------------------------------------------------------------------
(* The process *)

\* main up to the manager. When the settings are refused the process exits with
\* an error and is started again: that changes nothing.
resolveWebhookTLS ==
    /\ proc = "down"
    /\ decideWebhookTLSLoad # "error"
    /\ tls' = evaluateWebhookTLS
    /\ proc' = "resolved"
    /\ UNCHANGED <<settings, api, event, crashes>>

\* A watcher that only learns of changes made after it was started.
registerWebhookTLSReload_ChangesOnly ==
    /\ proc = "resolved"
    /\ proc' = "running"
    /\ event' = FALSE
    /\ UNCHANGED <<settings, api, tls, crashes>>

\* The watcher or the poller is registered and the manager starts. The first
\* list of the watcher's informer delivers an event.
registerWebhookTLSReload ==
    /\ proc = "resolved"
    /\ proc' = "running"
    /\ event' = tls.watchable
    /\ UNCHANGED <<settings, api, tls, crashes>>

\* The process ends for a reason of its own, or a registration fails.
Crash ==
    /\ proc # "down" /\ crashes < MaxCrashes
    /\ proc' = "down" /\ tls' = NoTLS /\ event' = FALSE
    /\ crashes' = crashes + 1
    /\ UNCHANGED <<settings, api>>

\* The watcher compares the settings with those the process started with; the
\* profile matters only if the process honours it.
NeedsReload(s) ==
    \/ ShouldHonorClusterTLSProfile(s) # ShouldHonorClusterTLSProfile(tls.loaded)
    \/ ShouldHonorClusterTLSProfile(tls.loaded) /\ s.profile # tls.loaded.profile

SecurityProfileWatcher ==
    /\ proc = "running" /\ event /\ api = "ok"
    /\ event' = FALSE
    /\ proc' = IF NeedsReload(settings) THEN "stopping" ELSE proc
    /\ UNCHANGED <<settings, api, tls, crashes>>

\* A poller that leaves the stand-in only for settings it can serve.
webhookTLSReadRecovery_OnlyHealthy ==
    /\ proc = "running" /\ tls.degraded
    /\ decideWebhookTLSLoad = "load"
    /\ proc' = "stopping"
    /\ UNCHANGED <<settings, api, tls, event, crashes>>

\* The poller, at a tick that finds the stand-in no longer justified: the
\* settings can be served, or the process has to be refused.
webhookTLSReadRecovery ==
    /\ proc = "running" /\ tls.degraded
    /\ decideWebhookTLSLoad # "standIn"
    /\ proc' = "stopping"
    /\ UNCHANGED <<settings, api, tls, event, crashes>>

\* The manager has stopped and main returns.
Exit ==
    /\ proc = "stopping"
    /\ proc' = "down" /\ tls' = NoTLS /\ event' = FALSE
    /\ UNCHANGED <<settings, api, crashes>>

-----------------------------------------------------------------------------
(* The cluster *)

ChangeSettings ==
    /\ settings # NoAPIServer
    /\ settings' \in ClusterSettings \ {settings}
    /\ event' = (event \/ (proc = "running" /\ tls.watchable))
    /\ UNCHANGED <<api, proc, tls, crashes>>

ChangeAPI ==
    /\ api' \in {"ok", "unreadable", "broken"} \ {api}
    /\ UNCHANGED <<settings, proc, tls, event, crashes>>

Init ==
    /\ settings \in Settings
    /\ api \in {"ok", "unreadable", "broken"}
    /\ proc = "down" /\ tls = NoTLS /\ event = FALSE
    /\ crashes = 0

ProcessStep ==
    \/ resolveWebhookTLS \/ registerWebhookTLSReload
    \/ SecurityProfileWatcher \/ webhookTLSReadRecovery \/ Exit

Next == ProcessStep \/ Crash \/ ChangeSettings \/ ChangeAPI

Spec == Init /\ [][Next]_vars

\* Kube restarts the process whatever its exit code, the manager runs what was
\* registered, and the poller's ticks come.
FairSpec == Spec /\ WF_vars(ProcessStep)

-----------------------------------------------------------------------------
(* Properties *)

TypeOK ==
    /\ settings \in Settings
    /\ api \in {"ok", "unreadable", "broken"}
    /\ proc \in {"down", "resolved", "running", "stopping"}
    /\ tls \in TLSResult
    /\ event \in BOOLEAN
    /\ crashes \in 0..MaxCrashes

\* A running webhook whose posture is not the one that the cluster's settings
\* ask for will be told: a watch event is due, or the recovery poller runs.
\* This is about the settings that change between the resolution and the start
\* of the watcher, about the profile that a Legacy process does not watch, and
\* about the stand-in, which has no watcher.
NoSilentStaleness ==
    proc = "running"
    /\ (InvalidStrict(settings) \/ tls.posture # buildWebhookTLSOpts(settings))
        => event \/ tls.degraded

Serving == IF proc \in {"running", "stopping"} THEN tls.posture ELSE "none"

\* Once the settings stay as they are and can be read, the webhook ends up
\* serving what they ask for; settings that are invalid under Strict end with
\* no webhook at all, also when it was serving something else before.
FollowsCluster ==
    \A s \in Settings :
        <>[](settings = s /\ api = "ok")
            => <>[](Serving = IF InvalidStrict(s) THEN "none" ELSE buildWebhookTLSOpts(s))
=============================================================================
