--------------------------- MODULE MCAuditSearch ---------------------------
(* Instance of AuditSearch for TLC. *)
EXTENDS AuditSearch, TLC

\* Two of the four stages, and a window that later rows fall out of.
MCFilters ==
    {[stages |-> {"received", "validated"}, since |-> 1, until |-> 5]}
=============================================================================
