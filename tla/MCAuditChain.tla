---------------------------- MODULE MCAuditChain ----------------------------
(* Instances of AuditChain for TLC. *)
EXTENDS AuditChain, TLC

\* Writers are interchangeable: no definition orders them.
Symmetry == Permutations(Writers)
=============================================================================
