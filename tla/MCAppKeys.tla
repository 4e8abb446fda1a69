----------------------------- MODULE MCAppKeys -----------------------------
(* Instances of AppKeys for TLC. *)
EXTENDS AppKeys, TLC

CONSTANTS send, register

MCSendCaps == {send}
MCMgmtCaps == {register}

Body(add, rem, active) == [add |-> add, rem |-> rem, active |-> active]

\* A removal, a grant with a removal, a refused grant and the active flag.
MCPatches == {Body({}, {send}, "keep"), Body({send}, {register}, "on"),
              Body({register}, {}, "keep"), Body({}, {}, "off")}

\* Sessions are interchangeable: no definition orders them.
Symmetry == Permutations(Sessions)
=============================================================================
