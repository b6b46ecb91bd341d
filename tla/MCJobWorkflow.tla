--------------------------- MODULE MCJobWorkflow ---------------------------
(* JobWorkflow for TLC.  Job identifiers are numbers, so that NewJob is the   *)
(* least one left: one behaviour stands for all its renamings.                *)
EXTENDS JobWorkflow, TLC

Symmetry == Permutations(Handlers)
=============================================================================
