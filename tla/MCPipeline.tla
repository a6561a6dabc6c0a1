----------------------------- MODULE MCPipeline -----------------------------
(***************************************************************************)
(* Finite instances of Pipeline for TLC.                                   *)
(***************************************************************************)
EXTENDS Pipeline

(* A publish that throws has sent nothing.                                 *)
AllOrNothing == {{}}

=============================================================================
