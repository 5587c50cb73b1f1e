---------------------------- MODULE MCJobPipeline ----------------------------
(***************************************************************************)
(* A small pipeline for TLC: one task of a recipe and one of a gate.       *)
(***************************************************************************)
EXTENDS JobPipelineProps

CONSTANTS recipeTask, gateTask
=============================================================================
