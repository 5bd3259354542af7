--------------------------- MODULE MCWorkflowRuns ---------------------------
(***************************************************************************)
(* Instance of WorkflowRuns for TLC.                                       *)
(***************************************************************************)
EXTENDS WorkflowRuns
=============================================================================
