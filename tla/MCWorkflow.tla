----------------------------- MODULE MCWorkflow -----------------------------
(***************************************************************************)
(* Instances of Workflow for TLC; one token stands for a thousand.         *)
(***************************************************************************)
EXTENDS Workflow
=============================================================================
