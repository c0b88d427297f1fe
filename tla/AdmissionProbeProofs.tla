----------------------- MODULE AdmissionProbeProofs -----------------------
(***************************************************************************)
(* Proofs about the admission probe, for any number of polls and for any   *)
(* number of failed calls, restarts and edits of the canary.               *)
(***************************************************************************)
EXTENDS AdmissionProbe, TLAPS

\* A write of the canary stores a label or is rejected.
LEMMA AdmittedType ==
    ASSUME NEW label \in Labels
    PROVE  Admitted(label) \in Labels \cup {"rejected"}
BY DEF Admitted, inject, Labels

\* The type invariant in parts: the flags, the counters and the rest.
FlagsOK ==
    /\ webhookUp \in BOOLEAN /\ enrolled \in BOOLEAN /\ cached \in BOOLEAN
    /\ stale \in BOOLEAN /\ mutated \in BOOLEAN

CountersOK == polls \in 0..MaxPolls /\ faults \in 0..MaxFaults

NamesOK ==
    /\ policy \in {"Fail", "Ignore"}
    /\ monitoring \in {"managed", "removed", "absent"}
    /\ canary \in Labels \cup {"gone"} /\ read \in Labels \cup {"gone"}
    /\ pc \in {"idle", "get", "write", "verify", "retrigger", "wait"}
    /\ outcome \in {"none", "success", "failure"}

\* A canary is retriggered as it was read: not gone, and without the label.
RetriggerInv == pc = "retrigger" => read \in {"none", "other"}

\* The parts make up the whole.
LEMMA ProbeTypeParts == TypeOK <=> FlagsOK /\ CountersOK /\ NamesOK
BY DEF TypeOK, FlagsOK, CountersOK, NamesOK

\* The initial states are well typed.
LEMMA ProbeTypeInit == Init => TypeOK
<1> SUFFICES ASSUME Init PROVE TypeOK
    OBVIOUS
<1>1. FlagsOK
  BY DEF Init, FlagsOK
<1>2. CountersOK
  BY BoundsAssumption DEF Init, CountersOK
<1>3. NamesOK
  BY DEF Init, NamesOK, Labels
<1> QED BY <1>1, <1>2, <1>3, ProbeTypeParts

\* Flags are set to what comparisons yield.
LEMMA FlagsStep == FlagsOK /\ [Next]_vars => FlagsOK'
<1> SUFFICES ASSUME FlagsOK, [Next]_vars PROVE FlagsOK'
    OBVIOUS
<1> USE DEF FlagsOK, clusterVars
<1>1. CASE UNCHANGED vars
  BY <1>1 DEF vars
<1>2. CASE Start \/ GetCanary \/ ReadBack \/ Wait \/ CallFails \/ Restart
  BY <1>2 DEF Start, GetCanary, ReadBack, Wait, CallFails, Restart, Finish
<1>3. CASE WriteCanary
  BY <1>3 DEF WriteCanary, Finish
<1>4. CASE Retrigger
  BY <1>4 DEF Retrigger
<1>5. CASE EditCanary \/ CacheSync \/ ClusterChanges
  BY <1>5 DEF EditCanary, CacheSync, ClusterChanges
<1> QED BY <1>1, <1>2, <1>3, <1>4, <1>5 DEF Next, ProbeStep

\* The polls are counted up to their bound.
LEMMA CountersStep == CountersOK /\ [Next]_vars => CountersOK'
<1> SUFFICES ASSUME CountersOK, [Next]_vars PROVE CountersOK'
    OBVIOUS
<1>1. polls' \in {polls, 0} \/ (polls < MaxPolls /\ polls' = polls + 1)
  BY DEF Next, ProbeStep, Start, GetCanary, WriteCanary, ReadBack, Retrigger, Wait, CallFails,
         Restart, EditCanary, CacheSync, ClusterChanges, Finish, vars
<1>2. faults' = faults \/ (faults < MaxFaults /\ faults' = faults + 1)
  BY DEF Next, vars
<1> QED BY <1>1, <1>2, BoundsAssumption DEF CountersOK

\* Labels stay labels.
LEMMA NamesStep == NamesOK /\ RetriggerInv /\ [Next]_vars => NamesOK' /\ RetriggerInv'
<1> SUFFICES ASSUME NamesOK, RetriggerInv, [Next]_vars PROVE NamesOK' /\ RetriggerInv'
    OBVIOUS
<1> USE DEF NamesOK, RetriggerInv, Labels, clusterVars
<1>1. CASE UNCHANGED vars
  BY <1>1 DEF vars
<1>2. CASE Start \/ GetCanary \/ CallFails \/ Restart
  BY <1>2 DEF Start, GetCanary, CallFails, Restart, Finish
<1>3. CASE WriteCanary
  BY <1>3, AdmittedType DEF WriteCanary, Finish
<1>4. CASE ReadBack \/ Wait
  BY <1>4 DEF ReadBack, Wait, Finish
<1>5. CASE Retrigger
  BY <1>5, AdmittedType DEF Retrigger
<1>6. CASE EditCanary \/ CacheSync \/ ClusterChanges
  BY <1>6 DEF EditCanary, CacheSync, ClusterChanges
<1> QED BY <1>1, <1>2, <1>3, <1>4, <1>5, <1>6 DEF Next, ProbeStep

\* Every step of the probe keeps the types.
LEMMA ProbeTypeStep == TypeOK /\ RetriggerInv /\ [Next]_vars => TypeOK' /\ RetriggerInv'
BY ProbeTypeParts, FlagsStep, CountersStep, NamesStep, PTL

\* The variables of the probe keep their types, whatever the cluster does in the
\* middle of a cycle.
THEOREM ProbeTypeSafe == Spec => []TypeOK
<1>1. Init => RetriggerInv
  BY DEF Init, RetriggerInv
<1> QED BY <1>1, ProbeTypeInit, ProbeTypeStep, PTL DEF Spec

-----------------------------------------------------------------------------
(* Success proves admission *)

\* The inductive invariant behind SuccessProvesAdmission: from the write of the
\* unlabelled canary on, a canary that carries the label got it in this cycle.
LabelledInv == pc \in {"verify", "retrigger", "wait"} /\ canary = "true" => mutated

\* Every step preserves it.
LEMMA LabelledStep == TypeOK /\ RetriggerInv /\ LabelledInv /\ [Next]_vars => LabelledInv'
<1> SUFFICES ASSUME TypeOK, RetriggerInv, LabelledInv, [Next]_vars PROVE LabelledInv'
    OBVIOUS
<1>1. CASE UNCHANGED vars
  BY <1>1 DEF vars, LabelledInv
<1>2. CASE Start \/ GetCanary \/ CacheSync \/ ClusterChanges \/ EditCanary
  BY <1>2 DEF Start, GetCanary, CacheSync, ClusterChanges, EditCanary, Finish, LabelledInv
<1>3. CASE WriteCanary
  BY <1>3 DEF WriteCanary, Finish, LabelledInv
<1>4. CASE ReadBack \/ Wait \/ CallFails \/ Restart
  BY <1>4 DEF ReadBack, Wait, CallFails, Restart, Finish, LabelledInv
<1>5. CASE Retrigger
  BY <1>5 DEF Retrigger, RetriggerInv, LabelledInv
<1> QED BY <1>1, <1>2, <1>3, <1>4, <1>5 DEF Next, ProbeStep

\* A success is reported only over a canary that the webhook labelled in this very
\* cycle, however calls fail and the cluster changes in between.
THEOREM SuccessIsEarned == Spec => SuccessProvesAdmission
<1>1. Init => RetriggerInv /\ LabelledInv
  BY DEF Init, RetriggerInv, LabelledInv
<1>2. LabelledInv /\ [Next]_vars
        => [pc = "verify" /\ pc' = "idle" /\ outcome' = "success" => mutated]_vars
  BY DEF LabelledInv, Next, ProbeStep, Start, GetCanary, WriteCanary, ReadBack, Retrigger,
         Wait, CallFails, Restart, EditCanary, CacheSync, ClusterChanges, Finish
<1> QED BY <1>1, <1>2, ProbeTypeInit, ProbeTypeStep, LabelledStep, PTL
           DEF Spec, SuccessProvesAdmission
=============================================================================
