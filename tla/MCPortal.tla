------------------------------ MODULE MCPortal ------------------------------
(***************************************************************************)
(* Finite instances of Portal for TLC.                                     *)
(***************************************************************************)
EXTENDS Portal

(* A publish that throws has sent nothing.                                 *)
AllOrNothing == {{}}

=============================================================================
