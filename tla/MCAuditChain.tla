---------------------------- MODULE MCAuditChain ----------------------------
(* Instances of AuditChain for TLC. *)
EXTENDS AuditChain, TLC

Symmetric == Permutations(Workers)
=============================================================================
