---------------------------- MODULE MCExecution ----------------------------
(***************************************************************************)
(* Execution on small instances: all executions belong to one conversation. *)
(***************************************************************************)
EXTENDS Execution, TLC

CONSTANTS e1, e2, w1, w2, v1, c1, c2

SameConversation == [e \in Executions |-> v1]
CallSymmetry == Permutations(Calls)

=============================================================================
