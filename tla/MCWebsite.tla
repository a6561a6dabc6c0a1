------------------------------ MODULE MCWebsite ------------------------------
(***************************************************************************)
(* Finite instances of Website for TLC.                                    *)
(***************************************************************************)
EXTENDS Website

(* A state with reasons and the one that is shown as complete.             *)
EndedOrFailed == {Failed, Finished}

=============================================================================
