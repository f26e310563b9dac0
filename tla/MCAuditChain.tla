---------------------------- MODULE MCAuditChain ----------------------------
(* A small instance of AuditChain.                                         *)
EXTENDS AuditChain, TLC

Symmetry == Permutations(Events)
=============================================================================
