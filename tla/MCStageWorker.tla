---------------------------- MODULE MCStageWorker ----------------------------
(***************************************************************************)
(* Finite instances of StageWorker for TLC.                                *)
(***************************************************************************)
EXTENDS StageWorker, TLC

(* Timer callbacks are interchangeable.                                    *)
PassSymmetry == Permutations(Passes)

=============================================================================
