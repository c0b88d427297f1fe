------------------------------ MODULE Custody ------------------------------
(***************************************************************************)
(* What the operator promises of the objects it owns, without a word on    *)
(* rounds, templates, failures or restarts: they are in the custody of a   *)
(* Monitoring CR that carries the finalizer. Objects and endpoints appear  *)
(* only under such a CR; once its deletion has been asked for, it is       *)
(* released only from a state in which everything is gone and nothing is   *)
(* added any more.                                                         *)
(***************************************************************************)
CONSTANTS Owned, Components

VARIABLES
    cr,         \* "gone", "fresh" (without the finalizer), "live", "deleting"
    live,       \* the owned objects that exist
    endpoints,  \* the endpoints that the status of the CR advertises
    closed      \* everything is gone and nothing is added

vars == <<cr, live, endpoints, closed>>

InCustody == cr \in {"live", "deleting"}

Init ==
    /\ \/ cr = "gone" /\ live = {} /\ endpoints = {}
       \/ cr = "live" /\ live \in SUBSET Owned /\ endpoints \in SUBSET Components
    /\ closed = FALSE

Create ==
    /\ cr = "gone" /\ cr' = "fresh"
    /\ endpoints' = {}
    /\ UNCHANGED <<live, closed>>

\* A CR without the finalizer goes at once.
Abandon ==
    /\ cr = "fresh" /\ cr' = "gone"
    /\ endpoints' = {}
    /\ UNCHANGED <<live, closed>>

Adopt ==
    /\ cr = "fresh" /\ cr' = "live"
    /\ UNCHANGED <<live, endpoints, closed>>

RequestDeletion ==
    /\ cr = "live" /\ cr' = "deleting"
    /\ UNCHANGED <<live, endpoints, closed>>

\* Also for a CR that is being deleted, by a round that began before.
Provision ==
    /\ InCustody /\ ~closed
    /\ live' \in SUBSET Owned /\ live \subseteq live'
    /\ UNCHANGED <<cr, endpoints, closed>>

Discard ==
    /\ live' \in SUBSET live
    /\ UNCHANGED <<cr, endpoints, closed>>

Advertise ==
    /\ InCustody /\ ~closed
    /\ endpoints' \in SUBSET Components
    /\ UNCHANGED <<cr, live, closed>>

Close ==
    /\ cr = "deleting"
    /\ live' = {} /\ closed' = TRUE
    /\ UNCHANGED <<cr, endpoints>>

Reopen ==
    /\ closed /\ closed' = FALSE
    /\ UNCHANGED <<cr, live, endpoints>>

Release ==
    /\ closed /\ closed' = FALSE
    /\ cr = "deleting" /\ cr' = "gone"
    /\ live = {}
    /\ endpoints' = {}
    /\ UNCHANGED live

Next == \/ Create \/ Abandon \/ Adopt \/ RequestDeletion \/ Provision \/ Discard
        \/ Advertise \/ Close \/ Reopen \/ Release

Spec == Init /\ [][Next]_vars
=============================================================================
