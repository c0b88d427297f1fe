-------------------------- MODULE WebhookTLSProofs --------------------------
(***************************************************************************)
(* Proofs about the TLS posture of the webhook, for any set of profiles.   *)
(***************************************************************************)
EXTENDS WebhookTLS, TLAPS

\* A process that is not degraded serves what the settings it loaded ask for,
\* and has a watcher exactly on the clusters that have something to watch.
ServesLoaded ==
    proc \in {"resolved", "running"} /\ ~tls.degraded =>
        /\ tls.posture = buildWebhookTLSOpts(tls.loaded)
        /\ ~InvalidStrict(tls.loaded)
        /\ tls.watchable <=> tls.loaded # NoAPIServer
        /\ tls.loaded = NoAPIServer <=> settings = NoAPIServer

\* With no event due, the watcher would find nothing to do.
NothingMissed ==
    proc = "running" /\ ~tls.degraded /\ ~event =>
        settings = NoAPIServer \/ ~NeedsReload(settings)

\* The inductive invariant.
TLSInv == TypeOK /\ ServesLoaded /\ NothingMissed

\* What a resolution yields has the type of a result: an invalid profile is
\* never turned into a posture.
LEMMA EvaluateType ==
    ASSUME settings \in Settings, decideWebhookTLSLoad # "error"
    PROVE  evaluateWebhookTLS \in TLSResult
BY TLSAssumption
   DEF evaluateWebhookTLS, decideWebhookTLSLoad, strictStandInWebhookTLS, TLSResult,
       Postures, Settings, ClusterSettings, buildWebhookTLSOpts, InvalidStrict,
       ShouldHonorClusterTLSProfile

\* So has the result of a process that is down.
LEMMA NoTLSType == NoTLS \in TLSResult
BY DEF NoTLS, TLSResult, Postures, Settings

\* The invariant holds initially.
LEMMA TLSInvInit == Init => TLSInv
<1> SUFFICES ASSUME Init PROVE TLSInv
    OBVIOUS
<1>1. crashes \in 0..MaxCrashes
  BY TLSAssumption DEF Init
<1>2. TypeOK
  BY <1>1, NoTLSType DEF Init, TypeOK
<1> QED
  BY <1>2 DEF Init, TLSInv, ServesLoaded, NothingMissed

\* Every step of the process, of the cluster and every crash preserves it.
LEMMA TLSInvStep == TLSInv /\ [Next]_vars => TLSInv'
<1> SUFFICES ASSUME TLSInv, [Next]_vars PROVE TLSInv'
    OBVIOUS
<1> USE TLSAssumption
<1>1. CASE resolveWebhookTLS
  <2>1. evaluateWebhookTLS \in TLSResult
    BY <1>1, EvaluateType DEF TLSInv, TypeOK, resolveWebhookTLS
  <2>2. TypeOK'
    BY <1>1, <2>1 DEF TLSInv, TypeOK, resolveWebhookTLS
  <2>3. ServesLoaded'
    BY <1>1 DEF TLSInv, TypeOK, ServesLoaded, resolveWebhookTLS, evaluateWebhookTLS,
                decideWebhookTLSLoad, strictStandInWebhookTLS, buildWebhookTLSOpts,
                InvalidStrict, ShouldHonorClusterTLSProfile
  <2>4. NothingMissed'
    BY <1>1 DEF NothingMissed, resolveWebhookTLS
  <2> QED BY <2>2, <2>3, <2>4 DEF TLSInv
<1>2. CASE registerWebhookTLSReload
  \* A watchable process gets an event with the first list of its watcher.
  BY <1>2 DEF TLSInv, TypeOK, ServesLoaded, NothingMissed, registerWebhookTLSReload,
              TLSResult, buildWebhookTLSOpts, InvalidStrict, ShouldHonorClusterTLSProfile
<1>3. CASE SecurityProfileWatcher
  BY <1>3 DEF TLSInv, TypeOK, ServesLoaded, NothingMissed, SecurityProfileWatcher,
              NeedsReload, buildWebhookTLSOpts, InvalidStrict, ShouldHonorClusterTLSProfile
<1>4. CASE webhookTLSReadRecovery
  BY <1>4 DEF TLSInv, TypeOK, ServesLoaded, NothingMissed, webhookTLSReadRecovery
<1>5. CASE Exit \/ Crash
  <2>1. crashes' \in 0..MaxCrashes
    BY <1>5 DEF TLSInv, TypeOK, Exit, Crash
  <2>2. TypeOK'
    BY <1>5, <2>1, NoTLSType DEF TLSInv, TypeOK, Exit, Crash
  <2> QED
    BY <1>5, <2>2 DEF TLSInv, ServesLoaded, NothingMissed, Exit, Crash
<1>6. CASE ChangeSettings
  \* A change that a running process has to hear of leaves an event.
  BY <1>6 DEF TLSInv, TypeOK, ServesLoaded, NothingMissed, ChangeSettings, TLSResult,
              Settings, buildWebhookTLSOpts, InvalidStrict, ShouldHonorClusterTLSProfile
<1>7. CASE ChangeAPI
  BY <1>7 DEF TLSInv, TypeOK, ServesLoaded, NothingMissed, ChangeAPI, NeedsReload,
              buildWebhookTLSOpts, InvalidStrict, ShouldHonorClusterTLSProfile
<1>8. CASE UNCHANGED vars
  BY <1>8 DEF TLSInv, TypeOK, ServesLoaded, NothingMissed, vars, NeedsReload,
              buildWebhookTLSOpts, InvalidStrict, ShouldHonorClusterTLSProfile
<1> QED
  BY <1>1, <1>2, <1>3, <1>4, <1>5, <1>6, <1>7, <1>8 DEF Next, ProcessStep

\* The invariant is strong enough: a posture that differs from the one asked for
\* means a watcher with something to do, or a stand-in.
LEMMA TLSInvSuffices == TLSInv => NoSilentStaleness
BY TLSAssumption
   DEF TLSInv, TypeOK, ServesLoaded, NothingMissed, NoSilentStaleness, NeedsReload,
       Settings, ClusterSettings, buildWebhookTLSOpts, InvalidStrict,
       ShouldHonorClusterTLSProfile

\* The webhook is never served with an invalid profile, and the variables keep
\* their types, for any set of profiles and any bound on the crashes.
THEOREM WebhookTLSTypes == Spec => []TypeOK
<1>1. TLSInv => TypeOK
  BY DEF TLSInv
<1> QED
  BY <1>1, TLSInvInit, TLSInvStep, PTL DEF Spec

\* A running webhook never serves a posture other than the one that the cluster
\* asks for without a watch event due or the recovery poller running.
THEOREM WebhookTLSNoSilentStaleness == Spec => []NoSilentStaleness
BY TLSInvInit, TLSInvStep, TLSInvSuffices, PTL DEF Spec
=============================================================================
