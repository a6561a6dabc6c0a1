------------------------ MODULE MCTestingRequestSaga ------------------------
(***************************************************************************)
(* Finite instances of TestingRequestSaga for TLC.                         *)
(***************************************************************************)
EXTENDS TestingRequestSaga, TLC

(* The two locations play the same part everywhere.                        *)
PathSymmetry == Permutations(Paths)

(* A failing publish sent nothing, or stopped after the first worker, or   *)
(* after two in the middle: which depends on the subscriptions' order.     *)
FewWorkers == {{}, {1}, {2, 3}}
NoWorkers == {{}}

=============================================================================
