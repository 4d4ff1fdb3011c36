---------------------------- MODULE MCAuditChain ----------------------------
(* The audit archive with a few events and restarts. *)
EXTENDS AuditChain
=============================================================================
