-------------------------- MODULE MCStrategyCases --------------------------
(* Instances of StrategyCases for TLC. *)
EXTENDS StrategyCases

\* User 1 takes every combination of columns, user 2 is ready or unsubscribed.
Columns(tg, grades) ==
    [tg : {tg}, active : BOOLEAN, grade : grades, sub : BOOLEAN,
     linked : BOOLEAN, admin : BOOLEAN, topic : BOOLEAN]

Ready(tg) == [tg |-> tg, active |-> TRUE, grade |-> "developer", sub |-> TRUE,
              linked |-> TRUE, admin |-> TRUE, topic |-> TRUE]

MCRegistries ==
    {<<c, d>> : c \in Columns(11, StoredGrades),
                d \in {Ready(12), [Ready(12) EXCEPT !.sub = FALSE]}}

\* Ids 1 and 2 are users, 11 and 12 their telegram ids, 9 is nobody.
MCIdLists == {<<1>>, <<1, 1>>, <<2, 1>>, <<9, 1>>, <<9, 1, 9>>, <<1, 2, 1>>,
              <<11>>, <<11, 12, 11>>, <<9, 11, 9>>}
MCGrades == {"", "user", "dev", "admin", "superuser"}
=============================================================================
