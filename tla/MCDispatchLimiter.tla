------------------------- MODULE MCDispatchLimiter -------------------------
(* Instances of DispatchLimiter for TLC. *)
EXTENDS DispatchLimiter, TLC

\* Senders and chats are interchangeable.
Symmetry == Permutations(Senders) \union Permutations(Chats)
=============================================================================
