--------------------------- MODULE StrategyCases ---------------------------
(***************************************************************************)
(* Registries and requests run through the resolvers of Strategy and       *)
(* compared with what the documentation says each endpoint addresses.      *)
(***************************************************************************)
EXTENDS Strategy

CONSTANTS
    CaseRegistries,   \* registries to try
    IdLists,          \* recipients arrays to try
    Grades            \* min_grade strings to try

\* users.id is the key of the table, users.telegram_id is UNIQUE.
ASSUME CaseAssumption ==
    /\ \A users \in CaseRegistries :
          /\ DOMAIN users \subseteq Nat
          /\ \A u \in DOMAIN users : users[u] \in UserRow
          /\ \A u, v \in DOMAIN users : users[u].tg = users[v].tg => u = v
    /\ IdLists \subseteq Seq(Nat)

VARIABLES
    registry,   \* the users, as the queries see them
    appGrade,   \* apps.min_grade of the app asked for
    request,    \* the request
    result      \* what the resolver returned

\* A request without a min_grade.
NoGrade == ""

caseVars == <<registry, appGrade, request, result>>

CaseInit ==
    /\ registry \in CaseRegistries
    /\ appGrade \in StoredGrades
    /\ request = [strat |-> "none", ids |-> <<>>, min |-> NoGrade]
    /\ result = {}

Ask(s, ids, min) ==
    /\ request.strat = "none"
    /\ request' = [strat |-> s, ids |-> ids, min |-> min]
    /\ UNCHANGED <<registry, appGrade>>

Direct ==
    \E ids \in IdLists :
        /\ Ask("direct", ids, NoGrade)
        /\ \E ord \in RowOrders(Len(ids)) : result' = ResolveDirect(registry, ids, ord)

DirectDM ==
    \E ids \in IdLists :
        /\ Ask("direct_dm", ids, NoGrade)
        /\ \E ord \in RowOrders(Len(ids)) : result' = ResolveDirectDM(registry, ids, ord)

\* Topic and Broadcast: recipients is accepted and not passed on.
Topic ==
    \E ids \in IdLists \union {<<>>}, min \in Grades :
        Ask("topic", ids, min) /\ result' = ResolveTopic(registry, appGrade, min)

Broadcast ==
    \E ids \in IdLists \union {<<>>}, min \in Grades :
        Ask("broadcast", ids, min) /\ result' = ResolveBroadcast(registry, min)

CaseNext == Direct \/ DirectDM \/ Topic \/ Broadcast

CaseSpec == CaseInit /\ [][CaseNext]_caseVars

-----------------------------------------------------------------------------
Reached == {it.user : it \in Recipients(result)}
Ids == {request.ids[i] : i \in DOMAIN request.ids}
Deliverable(u) == registry[u].active /\ registry[u].linked /\ registry[u].admin

\* Who gets the message, said without the resolvers' ranks and joins.
\*   topic      the app's subscribers whose grade both minima admit (prd.md:52)
\*   broadcast  everyone whose grade is admitted (prd.md:53)
\*   direct     the listed subscribers (prd.md:50)
\*   direct_dm  the users with a listed Telegram id, grade or not (prd.md:51)
\* Each of them only if the message can be delivered.  Of topic and broadcast it
\* is claimed when no recipients are listed, since the code ignores the list
\* (TopicHonoursRecipients is refuted); of direct with the ids taken as users.id,
\* as the join takes them (DirectTakesTelegramIds is refuted).
AudienceExact ==
    /\ request.strat = "topic" /\ request.ids = <<>> =>
          Reached = {u \in DOMAIN registry :
              /\ Deliverable(u) /\ registry[u].sub /\ registry[u].topic
              /\ registry[u].grade \in Admits(appGrade) \intersect Admits(request.min)}
    /\ request.strat = "broadcast" /\ request.ids = <<>> =>
          Reached = {u \in DOMAIN registry :
              Deliverable(u) /\ registry[u].grade \in Admits(request.min)}
    /\ request.strat = "direct" =>
          Reached = {u \in DOMAIN registry \intersect Ids :
              Deliverable(u) /\ registry[u].sub /\ registry[u].topic}
    /\ request.strat = "direct_dm" =>
          Reached = {u \in DOMAIN registry : registry[u].active /\ registry[u].tg \in Ids}

\* Whatever order the join yields its rows in, every listed user gets one
\* verdict and every position of an unknown id gets one.
OneVerdictEach ==
    request.strat \in {"direct", "direct_dm"} =>
        LET known == {i \in DOMAIN request.ids :
                         IF request.strat = "direct" THEN request.ids[i] \in DOMAIN registry
                         ELSE \E u \in DOMAIN registry : registry[u].tg = request.ids[i]}
            verdicts == {it \in result : it.code # "unknown_recipient"}
        IN /\ Cardinality(verdicts) = Cardinality({request.ids[i] : i \in known})
           /\ Cardinality({it.user : it \in verdicts}) = Cardinality(verdicts)
           /\ Cardinality(result \ verdicts) = Len(request.ids) - Cardinality(known)

\* A recipient reported as unknown is an id of the request that names no user.
UnknownIsUnknown ==
    request.strat = "direct" =>
        \A it \in result : it.code = "unknown_recipient" => it.user \notin DOMAIN registry

\* A topic request that lists recipients reaches no one else.
TopicHonoursRecipients ==
    request.strat = "topic" /\ request.ids # <<>> =>
        \A u \in Reached : {u, registry[u].tg} \intersect Ids # {}

\* recipients are Telegram user ids: a direct request that lists the id of a
\* user who can get the message reaches that user.
DirectTakesTelegramIds ==
    request.strat = "direct" =>
        \A u \in DOMAIN registry :
            /\ registry[u].tg \in Ids
            /\ Deliverable(u) /\ registry[u].sub /\ registry[u].topic
            => u \in Reached
=============================================================================
