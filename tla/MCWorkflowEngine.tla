-------------------------- MODULE MCWorkflowEngine --------------------------
(* Small instances of WorkflowEngine for TLC. *)
EXTENDS WorkflowEngine

\* Unreserved routes, and routes with dual approval.
MCApprovers == {0, 2}
=============================================================================
