------------------------------ MODULE MCServer ------------------------------
(***************************************************************************)
(* Instance of Server for TLC; the constants are in Server.cfg. There is   *)
(* no symmetry, since liveness is checked.                                 *)
(***************************************************************************)
EXTENDS Server, TLC
=============================================================================
