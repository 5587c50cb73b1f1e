------------------------- MODULE MCProcessSupervisor -------------------------
(***************************************************************************)
(* A step and one retry of it for TLC.                                     *)
(***************************************************************************)
EXTENDS ProcessSupervisorProps
=============================================================================
