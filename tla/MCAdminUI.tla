----------------------------- MODULE MCAdminUI -----------------------------
(***************************************************************************)
(* Instance of the admin UI's pages for TLC: the forms of AdminConsole and *)
(* the read-only pages of Dashboard. The two share no variable and read    *)
(* none of each other's, so a step of one never changes what the other can *)
(* do or what is said of it; a behaviour uses one of them.                 *)
(***************************************************************************)
EXTENDS AdminConsole, Dashboard, TLC

\* Operators are interchangeable, and so are grantable capabilities: no
\* definition orders or names them.
Symmetry == Permutations(Operators) \union Permutations(Grantable)

Kind(stage, app, trace, code) ==
    [stage |-> stage, app |-> app, trace |-> trace, code |-> code]

MCKinds ==
    {Kind("received", 1, 4, 0), Kind("validated", 1, 1, 0),
     Kind("delivered", 1, 1, 0), Kind("delivered", 2, 2, 0),
     Kind("denied", 1, 1, 1), Kind("denied", 0, 0, 2), Kind("intrusion_kick", 0, 0, 0)}

\* Three requests of three apps came in at once, and one of them was denied:
\* two rows more, and each fold, the sample limit and a second recipient occur.
First(i, kind) ==
    [id |-> i, at |-> 0, stage |-> kind.stage, app |-> kind.app,
     trace |-> kind.trace, code |-> kind.code]

MCStart == {First(a, Kind("received", a, a, 0)) : a \in 1..3}
           \union {First(4, Kind("denied", 3, 3, 1))}

\* By the hour and by the day.
MCRanges == {[unit |-> 1, buckets |-> 2], [unit |-> 2, buckets |-> 2]}

MCFilters ==
    {[days |-> 1, app |-> All, stage |-> AnyStage, code |-> All],
     [days |-> 2, app |-> 1, stage |-> "denied", code |-> 1]}

UIInit == Init /\ DashInit

UINext == \/ DashInit /\ Next /\ UNCHANGED dashVars
          \/ Init /\ DashNext /\ UNCHANGED vars

UISpec == UIInit /\ [][UINext]_<<vars, dashVars>>
=============================================================================
