---------------------------- MODULE MCAdminLogin ----------------------------
(* Instances of AdminLogin for TLC. *)
EXTENDS AdminLogin, TLC

\* Handlers and addresses are interchangeable.
Symmetry == Permutations(Handlers) \union Permutations(IPs)
=============================================================================
