------------------------------- MODULE Rollout -------------------------------
(***************************************************************************)
(* The contract between the reconcile loop and Delivery: a version is        *)
(* offered to the Envoys, and what becomes of it is told by the version that  *)
(* is active and by the last failure.  Whatever happens to an offer, Envoys  *)
(* are served it while it stands and the active version otherwise.           *)
(*                                                                         *)
(* `active`, `candidate` and `served` hold one version or none; serving none *)
(* is serving the empty baseline, or nothing yet.                            *)
(***************************************************************************)
VARIABLES
    active,     \* the version the Envoys accepted
    candidate,  \* the version on offer
    served,     \* what Envoys are given
    failed      \* none, rejected or delivery

vars == <<active, candidate, served, failed>>

Init ==
    /\ active = {}
    /\ candidate = {}
    /\ served = {}
    /\ failed = "none"

(***************************************************************************)
(* What Envoys and the ACK timer decide, at any time.                       *)
(***************************************************************************)
Accept ==
    /\ candidate # {}
    /\ active' = candidate
    /\ candidate' = {}
    /\ failed' = "none"
    /\ UNCHANGED served

Withdraw ==
    /\ candidate # {}
    /\ candidate' = {}
    /\ served' = active
    /\ failed' \in {"rejected", "delivery"}
    /\ UNCHANGED active

Decide == Accept \/ Withdraw

(***************************************************************************)
(* What the reconcile loop orders, and what may become of an order.  The     *)
(* candidate offered again stays, or is accepted.                           *)
(***************************************************************************)
\* One version, and another one than before.
New(chosen) == \E v \in chosen : chosen = {v} /\ v \notin active \cup candidate

\* A publication that failed half way may have brought the version out.
Offer ==
    /\ New(candidate')
    /\ served' = candidate'
    /\ failed' \in {"none", "delivery"}
    /\ UNCHANGED active

\* The Envoys run the version already.
OfferAccepted ==
    /\ New(active')
    /\ served' = active'
    /\ candidate' = {}
    /\ failed' = "none"

OfferFails ==
    /\ failed' = "delivery"
    /\ UNCHANGED <<active, candidate, served>>

\* The active version is wanted again, or nothing that compiles.
TakeBack ==
    /\ candidate' = {}
    /\ served' = active
    /\ \/ failed' = "none"
       \/ (candidate # {} \/ failed = "delivery") /\ failed' = "delivery"
    /\ UNCHANGED active

Order == Offer \/ OfferAccepted \/ OfferFails \/ TakeBack

\* A controller that starts knows nothing.
Restart ==
    /\ active' = {}
    /\ candidate' = {}
    /\ served' = {}
    /\ failed' = "none"

Next == Decide \/ Order \/ Restart

Spec == Init /\ [][Next]_vars

=============================================================================
