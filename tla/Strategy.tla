------------------------------ MODULE Strategy ------------------------------
(***************************************************************************)
(* Recipient resolution of the four route strategies                       *)
(* (internal/dispatch/strategy): what each query and its loop return for a *)
(* registry and a request.  A result is a set of items; idx is the place   *)
(* of the item in the order the loop appends, code "ok" marks a recipient  *)
(* and any other code a skipped one.                                       *)
(***************************************************************************)
EXTENDS Integers, Sequences, FiniteSets

Strategies == {"direct", "topic", "broadcast", "direct_dm"}
NamesApp(s) == s \in {"direct", "topic"}
ListsRecipients(s) == s \in {"direct", "direct_dm"}

\* Values users.grade and apps.min_grade may hold (CHECK constraints).
StoredGrades == {"user", "developer", "admin"}

gradeRank(g) ==
    CASE g = "admin" -> 3
      [] g \in {"developer", "dev"} -> 2
      [] g = "user" -> 1
      [] OTHER -> 0

normalizeGrade(g) ==
    CASE g = "dev" -> "developer" [] g = "" -> "user" [] OTHER -> g

maxGrade(a, b) == IF gradeRank(a) >= gradeRank(b) THEN a ELSE b

(***************************************************************************)
(* users: a function from users.id to the joined columns the queries read  *)
(*   tg      telegram_id                                                   *)
(*   active  status = 'active'       grade   users.grade                   *)
(*   sub     a user_subscriptions row for the app                          *)
(*   linked  personal_supergroup_chat_id is set                            *)
(*   admin   bot_is_admin_in_supergroup                                    *)
(*   topic   a user_topics row for the app                                 *)
(***************************************************************************)
UserRow == [tg : Nat, active : BOOLEAN, grade : StoredGrades, sub : BOOLEAN,
            linked : BOOLEAN, admin : BOOLEAN, topic : BOOLEAN]

\* unnest(...) LEFT JOIN ... has no ORDER BY: its rows come in any order.
RowOrders(n) == {p \in [1..n -> 1..n] : \A i, j \in 1..n : p[i] = p[j] => i = j}

FirstFailing(checks) ==
    IF \A i \in DOMAIN checks : checks[i][1] THEN "ok"
    ELSE checks[CHOOSE i \in DOMAIN checks :
                    ~checks[i][1] /\ \A j \in 1..(i - 1) : checks[j][1]][2]

\* The checks on a known recipient, in the order of the loop.
DirectCode(u) == FirstFailing(<<
    <<u.active, "recipient_inactive">>, <<u.sub, "recipient_not_subscribed">>,
    <<u.linked, "recipient_not_linked">>, <<u.admin, "bot_not_admin">>,
    <<u.topic, "recipient_topic_missing">> >>)

TopicCode(u, min) == FirstFailing(<<
    <<gradeRank(u.grade) >= gradeRank(min), "grade_insufficient">>,
    <<u.linked, "recipient_not_linked">>, <<u.admin, "bot_not_admin">>,
    <<u.topic, "recipient_topic_missing">> >>)

BroadcastCode(u, min) == FirstFailing(<<
    <<gradeRank(u.grade) >= gradeRank(min), "grade_insufficient">>,
    <<u.linked, "recipient_not_linked">>, <<u.admin, "bot_not_admin">> >>)

DMCode(u) == IF u.active THEN "ok" ELSE "recipient_inactive"

\* Row i of the join belongs to request position ord[i]; an earlier row with
\* the same user makes it a duplicate.
NotSeen(key, i) == \A j \in 1..(i - 1) : key[j] # key[i]

\* The loop takes the id of an unknown recipient from userIDs[idx].
DirectItem(users, ids, ord, i) ==
    LET id == ids[ord[i]] IN
    IF id \in DOMAIN users
    THEN [idx |-> i, user |-> id, code |-> DirectCode(users[id])]
    ELSE [idx |-> i, user |-> ids[i], code |-> "unknown_recipient"]

\* Mutant: the loop has no "seen" map.
ResolveDirectKeepingDuplicates(users, ids, ord) ==
    {DirectItem(users, ids, ord, i) : i \in DOMAIN ids}

ResolveDirect(users, ids, ord) ==
    LET key == [i \in DOMAIN ids |-> ids[ord[i]]] IN
    {DirectItem(users, ids, ord, i) :
        i \in {k \in DOMAIN ids : key[k] \in DOMAIN users => NotSeen(key, k)}}

\* Mutant: the effective grade is the request's alone.
ResolveTopicRequestGrade(users, appMin, min) ==
    {[idx |-> u, user |-> u, code |-> TopicCode(users[u], normalizeGrade(min))] :
        u \in {v \in DOMAIN users : users[v].sub /\ users[v].active}}

ResolveTopic(users, appMin, min) ==
    {[idx |-> u, user |-> u,
      code |-> TopicCode(users[u], maxGrade(appMin, normalizeGrade(min)))] :
        u \in {v \in DOMAIN users : users[v].sub /\ users[v].active}}

ResolveBroadcast(users, min) ==
    {[idx |-> u, user |-> u,
      code |-> BroadcastCode(users[u], normalizeGrade(min))] :
        u \in {v \in DOMAIN users : users[v].active}}

\* users.telegram_id is UNIQUE: at most one user per requested id.
DMItem(users, ids, ord, i) ==
    LET id == ids[ord[i]]
        match == {u \in DOMAIN users : users[u].tg = id}
    IN IF match = {}
       THEN [idx |-> i, user |-> id, code |-> "unknown_recipient"]
       ELSE LET u == CHOOSE u \in match : TRUE
            IN [idx |-> i, user |-> u, code |-> DMCode(users[u])]

ResolveDirectDM(users, ids, ord) ==
    LET key == [i \in DOMAIN ids |-> ids[ord[i]]]
        known == {users[u].tg : u \in DOMAIN users}
    IN {DMItem(users, ids, ord, i) :
           i \in {k \in DOMAIN ids : key[k] \in known => NotSeen(key, k)}}

Recipients(items) == {it \in items : it.code = "ok"}
Skipped(items) == {it \in items : it.code # "ok"}

\* For the properties, without the ranks the code compares: the stored grades
\* that a minimum grade lets through.  A minimum that is none of the grades, or
\* is left out, keeps nobody out.
Admits(min) ==
    CASE min = "admin" -> {"admin"}
      [] min \in {"developer", "dev"} -> {"developer", "admin"}
      [] OTHER -> StoredGrades
=============================================================================
