---------------------------- MODULE MCAuditChain ----------------------------
(* Two writers, a walk and retention on a short trail.                      *)
EXTENDS AuditChain
CONSTANTS api, collector
=============================================================================
