----------------------------- MODULE MCDelivery -----------------------------
(***************************************************************************)
(* Delivery on small instances: two Envoys, the second of which may connect  *)
(* a second time, and two resource types.                                   *)
(***************************************************************************)
EXTENDS Delivery, TLC

CONSTANTS n1, n2, s1, s2, s3, lds, cds, v1, v2, v3

\* s3 is a second stream of the second Envoy.
StreamOwner == [s \in Streams |-> IF s = s1 THEN n1 ELSE n2]

\* The second configuration has no clusters.
Needs == [v \in Versions |-> Types \cap (IF v = v2 THEN {lds} ELSE {lds, cds})]

\* The second Envoy refuses the listeners of the second configuration.
Refusals == {<<n2, lds, v2>>} \cap (Nodes \X Types \X Versions)
NoRefusals == {}

=============================================================================
