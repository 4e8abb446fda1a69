----------------------------- MODULE MCDispatch -----------------------------
(***************************************************************************)
(* Instances of Dispatch for TLC: users 1 and 2 with telegram ids 11 and   *)
(* 12, id 9 unknown to the registry.                                       *)
(***************************************************************************)
EXTENDS Dispatch, TLC

Ready(tg, grade) ==
    [tg |-> tg, active |-> TRUE, grade |-> grade, sub |-> TRUE, linked |-> TRUE,
     admin |-> TRUE, topic |-> TRUE]

TwoUsers == 1 :> Ready(11, "user") @@ 2 :> Ready(12, "developer")

\* One user, so that MaxChanges lets two changes happen: the app and the user's
\* row may both change between the two statements of a resolver.
OneUser == 1 :> [Ready(11, "user") EXCEPT !.sub = FALSE]

MCRegistries ==
    {[app |-> [active |-> TRUE, min |-> "user"], users |-> OneUser],
     [app |-> [active |-> TRUE, min |-> "user"], users |-> TwoUsers],
     [app |-> [active |-> FALSE, min |-> "user"], users |-> TwoUsers],
     [app |-> [active |-> TRUE, min |-> "developer"],
      users |-> [TwoUsers EXCEPT ![1].active = FALSE, ![2].sub = FALSE]]}

Body(s, ids, min) == [strat |-> s, ids |-> ids, min |-> min, body |-> "ok"]

MCInputs ==
    {Body("direct", <<1, 2, 1>>, ""), Body("direct", <<9, 1, 9>>, ""),
     Body("direct_dm", <<11, 12, 11>>, ""), Body("topic", <<>>, "user"),
     Body("topic", <<>>, "developer"), Body("broadcast", <<>>, "dev")}
    \union {[strat |-> s, ids |-> <<>>, min |-> "", body |-> b] :
               s \in {"direct", "direct_dm"}, b \in {"malformed_json", "empty_recipients"}}

=============================================================================
