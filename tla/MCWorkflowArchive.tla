-------------------------- MODULE MCWorkflowArchive --------------------------
(* Instances of WorkflowArchive for TLC. *)
EXTENDS WorkflowArchive
=============================================================================
