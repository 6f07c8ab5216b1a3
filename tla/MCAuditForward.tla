---------------------------- MODULE MCAuditForward ----------------------------
(* Instances of AuditForward for TLC. *)
EXTENDS AuditForward

Webhook == {"webhook"}
===============================================================================
