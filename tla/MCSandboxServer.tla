-------------------------- MODULE MCSandboxServer --------------------------
(* Instances of SandboxServer for TLC. *)
EXTENDS SandboxServer, TLC

=============================================================================
