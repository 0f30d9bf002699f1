------------------------- MODULE MCRequestConsumer -------------------------
(***************************************************************************)
(* RequestConsumer on a small instance: one partition two replicas take from *)
(* each other, a model call, a plain request and a message nobody decodes.   *)
(***************************************************************************)
EXTENDS RequestConsumer, TLC

CONSTANTS r1, r2, r3, p1, c1, c2

OnePartition == [r \in Records |-> p1]

=============================================================================
