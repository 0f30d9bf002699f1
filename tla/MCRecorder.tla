----------------------------- MODULE MCRecorder -----------------------------
(***************************************************************************)
(* Recorder on small instances.                                             *)
(***************************************************************************)
EXTENDS Recorder, TLC

BatchSymmetry == Permutations(Batches)

=============================================================================
