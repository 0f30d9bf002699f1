----------------------------- MODULE MCExchange -----------------------------
(***************************************************************************)
(* Exchange on a small instance: requests of one caller under two policies,  *)
(* a second caller the policies may move to, and two requests open at a time. *)
(***************************************************************************)
EXTENDS Exchange

CONSTANTS q1, q2, q3, c1, c2, k1, k2

OneCaller == [r \in Requests |-> c1]

\* The limit of k1 is one call's largest charge, that of k2 one token more.
Limits == [p \in Policies |-> IF p = k1 THEN 1 ELSE 2]

=============================================================================
