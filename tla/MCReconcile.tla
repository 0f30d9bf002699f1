----------------------------- MODULE MCReconcile -----------------------------
(***************************************************************************)
(* Reconcile on a small instance: a plugin that a policy needs and one that  *)
(* is only installed, a small module and one that fills the directory.      *)
(***************************************************************************)
EXTENDS Reconcile, TLC

CONSTANTS p1, p2, s1, s2

ItsOwn == [s \in Sources |-> s]

Sizes == [m \in Modules |-> IF m = s2 THEN 2 ELSE 1]

=============================================================================
