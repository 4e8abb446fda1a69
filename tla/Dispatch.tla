------------------------------ MODULE Dispatch ------------------------------
(***************************************************************************)
(* The message endpoints: runStrategyDispatch (internal/api/handlers) with *)
(* the resolvers of internal/dispatch/strategy and Dispatcher.Send of      *)
(* internal/dispatch/telegram, one action per database statement, audit    *)
(* write or Telegram call.  Between any two of them the registry may       *)
(* change, the request context may end and the process may die.            *)
(*                                                                         *)
(* An audit write is taken from AuditChain: it appends and returns nil,    *)
(* appends and returns an error (the answer of COMMIT is lost), or leaves  *)
(* the log alone and returns an error.                                     *)
(***************************************************************************)
EXTENDS Strategy

CONSTANTS
    Reqs,        \* requests (audit message_id)
    Inputs,      \* request bodies that may arrive
    Registries,  \* registry contents the server may start with
    MaxChanges   \* bound: registry changes while requests run, times the users

\* What the registry tables may hold: of the app in question and of all users.
AppRow == [active : BOOLEAN, min : StoredGrades]

IsRegistry(r) ==
    /\ r = [app |-> r.app, users |-> r.users]
    /\ r.app \in AppRow
    /\ DOMAIN r.users \subseteq Nat /\ r.users \in [DOMAIN r.users -> UserRow]
    /\ \A u, v \in DOMAIN r.users : r.users[u].tg = r.users[v].tg => u = v

ASSUME DispatchAssumption ==
    /\ MaxChanges \in Nat /\ Inputs # {}
    /\ \A in \in Inputs : in.strat \in Strategies /\ in.ids \in Seq(Nat)
    /\ \A r \in Registries : IsRegistry(r)

VARIABLES
    reg,      \* apps and users as the queries see them
    changes,  \* registry changes so far
    pc,       \* pc[m]: next step of the handler of request m
    input,    \* input[m]: the decoded body, with the defect decoding finds
    appMin,   \* appMin[m]: apps.min_grade as the topic resolver read it
    items,    \* items[m]: resolved recipients and skips not yet handled
    sending,  \* sending[m]: outcome of the Send in progress
    report,   \* report[m]: per-recipient results of the response so far
    resp,     \* resp[m]: the HTTP answer
    expired,  \* expired[m]: the request context is done
    log,      \* log[m]: committed audit rows of m, in id order
    errors,   \* errors[m]: audit rows of which only the error log knows
    chat,     \* chat[m]: users Telegram really delivered m to
    seen      \* history, seen[m]: the registry at each statement of m's resolver

vars == <<reg, changes, pc, input, appMin, items, sending, report, resp,
          expired, log, errors, chat, seen>>

(***************************************************************************)
(* body is "ok" or the first check of the handler that fails.              *)
(***************************************************************************)
BodyDefects(s) ==
    {"malformed_json", "missing_envelope_version", "unsupported_envelope_version",
     "empty_envelope_text"}
    \union (IF NamesApp(s) THEN {"missing_app_id"} ELSE {})
    \union (IF ListsRecipients(s) THEN {"empty_recipients"} ELSE {})

Running(m) == pc[m] \notin {"idle", "done", "dead"}

-----------------------------------------------------------------------------
(* writeAuditSafe *)

WriteOutcomes(m) == IF expired[m] THEN {"failed"} ELSE {"ok", "lost", "failed"}

Row(stage, user) == [stage |-> stage, user |-> user]

AuditWrite(m, row, o) ==
    /\ log' = IF o = "failed" THEN log ELSE [log EXCEPT ![m] = Append(@, row)]
    /\ errors' = IF o = "failed" THEN [errors EXCEPT ![m] = @ \union {row}] ELSE errors

Goto(m, l) == pc' = [pc EXCEPT ![m] = l]

Answer(m, code) == resp' = [resp EXCEPT ![m] = code] /\ Goto(m, "done")

\* auditFlow.deny: the denied row may be lost, the answer is sent all the same.
Deny(m, code) ==
    /\ \E o \in WriteOutcomes(m) : AuditWrite(m, Row("denied", 0), o)
    /\ Answer(m, code)

-----------------------------------------------------------------------------
(* The handler. *)

Receive(m, in) ==
    /\ pc[m] = "idle"
    /\ input' = [input EXCEPT ![m] = in]
    /\ \E o \in WriteOutcomes(m) :
          /\ AuditWrite(m, Row("received", 0), o)
          /\ IF o = "ok" THEN Goto(m, "check") /\ UNCHANGED resp
                         ELSE Answer(m, "audit_unavailable")
    /\ UNCHANGED <<reg, changes, appMin, items, sending, report, expired, chat, seen>>

\* decodeStrict and the checks on the body.
Check(m) ==
    /\ pc[m] = "check"
    /\ IF input[m].body = "ok"
       THEN /\ Goto(m, IF NamesApp(input[m].strat) THEN "app" ELSE "resolve")
            /\ UNCHANGED <<log, errors, resp>>
       ELSE Deny(m, input[m].body)
    /\ UNCHANGED <<reg, changes, input, appMin, items, sending, report, expired,
                   chat, seen>>

\* Mutant: the lookup does not ask for active apps.
LookupAppAnyStatus(m) ==
    /\ pc[m] = "app"
    /\ \/ /\ ~expired[m]
          /\ appMin' = [appMin EXCEPT ![m] = reg.app.min]
          /\ seen' = [seen EXCEPT ![m] = Append(@, reg)]
          /\ Goto(m, "resolve")
          /\ UNCHANGED <<log, errors, resp>>
       \/ Deny(m, "resolver_error") /\ UNCHANGED <<appMin, seen>>
    /\ UNCHANGED <<reg, changes, input, items, sending, report, expired, chat>>

\* First statement of ResolveDirect and ResolveTopic.
LookupApp(m) ==
    /\ pc[m] = "app"
    /\ \/ /\ ~expired[m] /\ reg.app.active
          /\ appMin' = [appMin EXCEPT ![m] = reg.app.min]
          /\ seen' = [seen EXCEPT ![m] = Append(@, reg)]
          /\ Goto(m, "resolve")
          /\ UNCHANGED <<log, errors, resp>>
       \/ /\ ~expired[m] /\ ~reg.app.active
          /\ Deny(m, "app_not_found")
          /\ UNCHANGED <<appMin, seen>>
       \/ Deny(m, "resolver_error") /\ UNCHANGED <<appMin, seen>>
    /\ UNCHANGED <<reg, changes, input, items, sending, report, expired, chat>>

Resolved(m) ==
    LET in == input[m] IN
    CASE in.strat = "topic"     -> {ResolveTopic(reg.users, appMin[m], in.min)}
      [] in.strat = "broadcast" -> {ResolveBroadcast(reg.users, in.min)}
      [] in.strat = "direct"    -> {ResolveDirect(reg.users, in.ids, ord) :
                                       ord \in RowOrders(Len(in.ids))}
      [] in.strat = "direct_dm" -> {ResolveDirectDM(reg.users, in.ids, ord) :
                                       ord \in RowOrders(Len(in.ids))}

\* The recipient query and the loop over its rows.
Resolve(m) ==
    /\ pc[m] = "resolve"
    /\ \/ /\ ~expired[m]
          /\ \E its \in Resolved(m) : items' = [items EXCEPT ![m] = its]
          /\ seen' = [seen EXCEPT ![m] = Append(@, reg)]
          /\ Goto(m, "validate")
          /\ UNCHANGED <<log, errors, resp>>
       \/ Deny(m, "resolver_error") /\ UNCHANGED <<items, seen>>
    /\ UNCHANGED <<reg, changes, input, appMin, sending, report, expired, chat>>

\* Mutant: a failed write of the validated row is logged and ignored.
ValidateIgnoringAudit(m) ==
    /\ pc[m] = "validate"
    /\ \E o \in WriteOutcomes(m) : AuditWrite(m, Row("validated", 0), o)
    /\ Goto(m, "loop")
    /\ UNCHANGED <<reg, changes, input, appMin, items, sending, report, resp,
                   expired, chat, seen>>

Validate(m) ==
    /\ pc[m] = "validate"
    /\ \E o \in WriteOutcomes(m) :
          /\ AuditWrite(m, Row("validated", 0), o)
          /\ IF o = "ok" THEN Goto(m, "loop") /\ UNCHANGED resp
                         ELSE Answer(m, "audit_unavailable")
    /\ UNCHANGED <<reg, changes, input, appMin, items, sending, report, expired,
                   chat, seen>>

\* The next recipient of the loop, in the resolver's order.
IsNext(its, it) == it \in its /\ \A other \in its : it.idx <= other.idx

\* Mutant: the dispatched row is left until Telegram has answered.
DispatchedLater(m) ==
    /\ pc[m] = "loop" /\ Recipients(items[m]) # {}
    /\ Goto(m, "send")
    /\ UNCHANGED <<reg, changes, input, appMin, items, sending, report, resp,
                   expired, log, errors, chat, seen>>

\* The dispatched row, before the call; its failure is ignored.
Dispatched(m) ==
    /\ pc[m] = "loop"
    /\ \E it \in Recipients(items[m]), o \in WriteOutcomes(m) :
          /\ IsNext(Recipients(items[m]), it)
          /\ AuditWrite(m, Row("dispatched", it.user), o)
    /\ Goto(m, "send")
    /\ UNCHANGED <<reg, changes, input, appMin, items, sending, report, resp,
                   expired, chat, seen>>

(***************************************************************************)
(* Dispatcher.Send: Telegram delivers and its answer arrives; delivers and *)
(* the answer is lost (context, connection); or the call is refused by the *)
(* limiter, the context or Telegram.  A call on its way when the context   *)
(* ends is Send with any outcome and then Expire.                          *)
(***************************************************************************)
SendOutcomes(m) == IF expired[m] THEN {"refused"} ELSE {"sent", "unanswered", "refused"}

\* Mutant: an error of Send is not told from success.
SendIgnoringError(m) ==
    /\ pc[m] = "send"
    /\ \E it \in Recipients(items[m]), o \in SendOutcomes(m) :
          /\ IsNext(Recipients(items[m]), it)
          /\ chat' = IF o = "refused" THEN chat
                     ELSE [chat EXCEPT ![m] = Append(@, it.user)]
          /\ sending' = [sending EXCEPT ![m] = "delivered"]
    /\ Goto(m, "record")
    /\ UNCHANGED <<reg, changes, input, appMin, items, report, resp, expired, log, errors,
                   seen>>

Send(m) ==
    /\ pc[m] = "send"
    /\ \E it \in Recipients(items[m]), o \in SendOutcomes(m) :
          /\ IsNext(Recipients(items[m]), it)
          /\ chat' = IF o = "refused" THEN chat
                     ELSE [chat EXCEPT ![m] = Append(@, it.user)]
          /\ sending' = [sending EXCEPT ![m] = IF o = "sent" THEN "delivered" ELSE "failed"]
    /\ Goto(m, "record")
    /\ UNCHANGED <<reg, changes, input, appMin, items, report, resp, expired, log, errors,
                   seen>>

\* dispatchReport: one entry of the response, at place idx of the resolver's
\* result; code is "ok" or why the recipient was skipped.
Verdict(it, status) ==
    [idx |-> it.idx, user |-> it.user, code |-> it.code, status |-> status]

StageOf(status) == IF status = "delivered" THEN "delivered" ELSE "deferred"

\* Mutant: the loop does not advance past a failed recipient.
RecordRetryingFailed(m) ==
    /\ pc[m] = "record"
    /\ \E it \in Recipients(items[m]), o \in WriteOutcomes(m) :
          /\ IsNext(Recipients(items[m]), it)
          /\ AuditWrite(m, Row(StageOf(sending[m]), it.user), o)
          /\ IF sending[m] = "failed" THEN UNCHANGED <<report, items>>
             ELSE /\ report' = [report EXCEPT ![m] = @ \union
                        {Verdict(it, sending[m])}]
                  /\ items' = [items EXCEPT ![m] = @ \ {it}]
    /\ sending' = [sending EXCEPT ![m] = "none"]
    /\ Goto(m, "loop")
    /\ UNCHANGED <<reg, changes, input, appMin, resp, expired, chat, seen>>

\* The delivered or deferred row (its failure is ignored) and the report.
Record(m) ==
    /\ pc[m] = "record"
    /\ \E it \in Recipients(items[m]), o \in WriteOutcomes(m) :
          /\ IsNext(Recipients(items[m]), it)
          /\ AuditWrite(m, Row(StageOf(sending[m]), it.user), o)
          /\ report' = [report EXCEPT ![m] = @ \union {Verdict(it, sending[m])}]
          /\ items' = [items EXCEPT ![m] = @ \ {it}]
    /\ sending' = [sending EXCEPT ![m] = "none"]
    /\ Goto(m, "loop")
    /\ UNCHANGED <<reg, changes, input, appMin, resp, expired, chat, seen>>

\* The second loop: one denied row per skipped recipient.
Skip(m) ==
    /\ pc[m] = "loop" /\ Recipients(items[m]) = {}
    /\ \E it \in items[m], o \in WriteOutcomes(m) :
          /\ IsNext(items[m], it)
          /\ AuditWrite(m, Row("denied", it.user), o)
          /\ report' = [report EXCEPT ![m] = @ \union {Verdict(it, "skipped")}]
          /\ items' = [items EXCEPT ![m] = @ \ {it}]
    /\ UNCHANGED <<reg, changes, pc, input, appMin, sending, resp, expired, chat, seen>>

\* Mutant: the response is written before the skipped recipients are handled.
RespondEarly(m) ==
    /\ pc[m] = "loop" /\ Recipients(items[m]) = {}
    /\ Answer(m, "ok")
    /\ UNCHANGED <<reg, changes, input, appMin, items, sending, report, expired,
                   log, errors, chat, seen>>

Respond(m) ==
    /\ pc[m] = "loop" /\ items[m] = {}
    /\ Answer(m, "ok")
    /\ UNCHANGED <<reg, changes, input, appMin, items, sending, report, expired,
                   log, errors, chat, seen>>

-----------------------------------------------------------------------------
(* The environment. *)

\* chi Timeout(30s) or the caller hanging up.
Expire(m) ==
    /\ Running(m) /\ ~expired[m]
    /\ expired' = [expired EXCEPT ![m] = TRUE]
    /\ UNCHANGED <<reg, changes, pc, input, appMin, items, sending, report, resp,
                   log, errors, chat, seen>>

Crash ==
    /\ \E m \in Reqs : Running(m)
    /\ pc' = [m \in Reqs |-> IF Running(m) THEN "dead" ELSE pc[m]]
    /\ UNCHANGED <<reg, changes, input, appMin, items, sending, report, resp,
                   expired, log, errors, chat, seen>>

(***************************************************************************)
(* What the admin API and the bot commit meanwhile: PATCH, DELETE or POST  *)
(* of the app, its purge with the rows that cascade, and for a user the    *)
(* grade, a subscription, a topic row, a linked chat (which clears the     *)
(* flag) and a promotion or demotion of the bot.  Nothing in the server    *)
(* calls UserStore.Anonymize or SupergroupStore.ResetLink.  Users who      *)
(* register while a request runs are left out.                             *)
(***************************************************************************)
Purged ==
    [app |-> [reg.app EXCEPT !.active = FALSE],
     users |-> [u \in DOMAIN reg.users |->
                   [reg.users[u] EXCEPT !.sub = FALSE, !.topic = FALSE]]]

NextRows(row) ==
    {[row EXCEPT !.grade = g] : g \in StoredGrades}
    \union {[row EXCEPT !.sub = b] : b \in BOOLEAN}
    \union {[row EXCEPT !.topic = b] : b \in BOOLEAN}
    \union {[row EXCEPT !.admin = b] : b \in BOOLEAN}
    \union {[row EXCEPT !.linked = TRUE, !.admin = FALSE]}

NextRegistries ==
    {[reg EXCEPT !.app = app] : app \in AppRow} \union {Purged}
    \union UNION {{[reg EXCEPT !.users[u] = row] : row \in NextRows(reg.users[u])} :
                     u \in DOMAIN reg.users}

RegistryChange ==
    /\ changes * Cardinality(DOMAIN reg.users) < MaxChanges
    /\ \E m \in Reqs : pc[m] \notin {"done", "dead"}
    /\ changes' = changes + 1
    /\ reg' \in NextRegistries
    /\ UNCHANGED <<pc, input, appMin, items, sending, report, resp, expired, log,
                   errors, chat, seen>>

-----------------------------------------------------------------------------
Init ==
    /\ reg \in Registries /\ changes = 0
    /\ pc = [m \in Reqs |-> "idle"]
    /\ input = [m \in Reqs |-> CHOOSE in \in Inputs : TRUE]
    /\ appMin = [m \in Reqs |-> "user"]
    /\ items = [m \in Reqs |-> {}]
    /\ sending = [m \in Reqs |-> "none"]
    /\ report = [m \in Reqs |-> {}]
    /\ resp = [m \in Reqs |-> "none"]
    /\ expired = [m \in Reqs |-> FALSE]
    /\ log = [m \in Reqs |-> <<>>]
    /\ errors = [m \in Reqs |-> {}]
    /\ chat = [m \in Reqs |-> <<>>]
    /\ seen = [m \in Reqs |-> <<>>]

HandlerStep(m) ==
    \/ Check(m) \/ LookupApp(m) \/ Resolve(m) \/ Validate(m)
    \/ Dispatched(m) \/ Send(m) \/ Record(m) \/ Skip(m) \/ Respond(m)

Next ==
    \/ \E m \in Reqs : \/ \E in \in Inputs : Receive(m, in)
                       \/ HandlerStep(m) \/ Expire(m)
    \/ RegistryChange
    \/ Crash

Spec == Init /\ [][Next]_vars

\* Once it has a request, a handler goroutine keeps running; every call it
\* makes returns, at the latest when the request context ends.
FairSpec == Spec /\ \A m \in Reqs : WF_vars(HandlerStep(m))

-----------------------------------------------------------------------------
(* Properties. *)

Item == [idx : Nat, user : Nat, code : STRING]
Report == [idx : Nat, user : Nat, code : STRING,
           status : {"delivered", "failed", "skipped"}]
Stage == {"received", "validated", "dispatched", "delivered", "deferred", "denied"}

\* Type invariant.
TypeOK ==
    /\ changes \in Nat
    /\ pc \in [Reqs -> {"idle", "check", "app", "resolve", "validate", "loop",
                        "send", "record", "done", "dead"}]
    /\ input \in [Reqs -> Inputs]
    /\ appMin \in [Reqs -> StoredGrades]
    /\ \A m \in Reqs : \A it \in items[m] : it \in Item
    /\ sending \in [Reqs -> {"none", "delivered", "failed"}]
    /\ \A m \in Reqs : report[m] \subseteq Report
    /\ resp \in [Reqs -> STRING]
    /\ expired \in [Reqs -> BOOLEAN]
    /\ log \in [Reqs -> Seq([stage : Stage, user : Nat])]
    /\ \A m \in Reqs : errors[m] \subseteq [stage : Stage, user : Nat]
    /\ chat \in [Reqs -> Seq(Nat)]

HasRow(m, stage, user) == \E i \in DOMAIN log[m] : log[m][i] = Row(stage, user)
Reports(m, status) == {r \in report[m] : r.status = status}

\* Nothing reaches Telegram for a request whose received and validated rows
\* are not both in the audit log (the two fail-closed writes).
FailClosed ==
    \A m \in Reqs : chat[m] # <<>> => HasRow(m, "received", 0) /\ HasRow(m, "validated", 0)

\* The row is in the audit log, or its failed write is in the error log.
Accounted(m, stage, user) ==
    HasRow(m, stage, user) \/ Row(stage, user) \in errors[m]

\* Whenever the process dies, what it did is accounted for: a message Telegram
\* has was announced by its dispatched row before the call, and a verdict in the
\* report has its row; a write that failed is ignored but never silent
\* (runStrategyDispatch's loops, writeAuditSafe).
NothingSilent ==
    \A m \in Reqs :
        /\ \A i \in DOMAIN chat[m] : Accounted(m, "dispatched", chat[m][i])
        /\ \A r \in report[m] :
              Accounted(m, IF r.status = "skipped" THEN "denied" ELSE StageOf(r.status), r.user)

\* A request reaches each user at most once, whatever duplicates the body
\* lists and however its calls fail (the resolvers' seen maps, no retry).
AtMostOnce ==
    \A m \in Reqs : \A i, j \in DOMAIN chat[m] : chat[m][i] = chat[m][j] => i = j

\* A recipient is reported delivered, and audited delivered, only when
\* Telegram delivered the message to that user.
DeliveredIsTrue ==
    \A m \in Reqs : \A u \in {r.user : r \in Reports(m, "delivered")}
                          \union {log[m][i].user : i \in {j \in DOMAIN log[m] :
                                                          log[m][j].stage = "delivered"}} :
        \E i \in DOMAIN chat[m] : chat[m][i] = u

\* The users a request addresses, and the positions of its list that name
\* nobody, going by the users table.
Addressed(in, users) ==
    LET listed == {in.ids[i] : i \in DOMAIN in.ids} IN
    CASE in.strat = "direct"    -> DOMAIN users \intersect listed
      [] in.strat = "direct_dm" -> {u \in DOMAIN users : users[u].tg \in listed}
      [] in.strat = "topic"     -> {u \in DOMAIN users : users[u].sub /\ users[u].active}
      [] in.strat = "broadcast" -> {u \in DOMAIN users : users[u].active}

Nobodies(in, users) ==
    LET known == IF in.strat = "direct" THEN DOMAIN users
                 ELSE {users[u].tg : u \in DOMAIN users}
    IN {i \in DOMAIN in.ids : ListsRecipients(in.strat) /\ in.ids[i] \notin known}

AtLookup(m) == seen[m][1]
AtQuery(m) == seen[m][Len(seen[m])]

\* A 200 answers for everyone, whatever failed on the way: each user the request
\* addressed when the recipients were read has exactly one entry and nobody else
\* has one, whoever has the message is not said to be skipped, and there is one
\* entry per listed position that names nobody.  (Which id such an entry shows
\* is another matter: UnknownIsUnknown is refuted.)
ResponseComplete ==
    \A m \in Reqs : resp[m] = "ok" =>
        LET users == AtQuery(m).users
            named == {r \in report[m] : r.code # "unknown_recipient"}
        IN /\ {r.user : r \in named} = Addressed(input[m], users)
           /\ \A r, s \in named : r.user = s.user => r = s
           /\ \A i \in DOMAIN chat[m] :
                 \E r \in named : r.user = chat[m][i] /\ r.status # "skipped"
           /\ Cardinality(report[m] \ named) = Cardinality(Nobodies(input[m], users))

\* Who may get a message, per strategy, from the app and the user row.
Qualifies(in, app, u) ==
    /\ u.active
    /\ NamesApp(in.strat) => app.active /\ u.sub /\ u.topic
    /\ in.strat # "direct_dm" => u.linked /\ u.admin
    /\ in.strat = "topic" => u.grade \in Admits(app.min)
    /\ in.strat \in {"topic", "broadcast"} => u.grade \in Admits(in.min)

\* Whoever is sent a message qualified, by the app and the user row of one and
\* the same moment, when the app was looked up or when the recipients were read.
\* The one exception the two statements leave open (topic.go:43, direct.go:49):
\* both the app and the user's row changed between them.
QualifiedDuringRequest ==
    \A m \in Reqs : \A i \in DOMAIN chat[m] :
        LET u == chat[m][i] IN
        \/ \E r \in {AtLookup(m), AtQuery(m)} : Qualifies(input[m], r.app, r.users[u])
        \/ AtLookup(m).app # AtQuery(m).app /\ AtLookup(m).users[u] # AtQuery(m).users[u]

\* Every request that is being handled is answered, unless the process dies.
Answered == \A m \in Reqs : Running(m) ~> pc[m] \in {"done", "dead"}

\* A dispatched row means Telegram accepted the message.
DispatchedIsAccepted ==
    \A m \in Reqs : \A i \in DOMAIN log[m] : log[m][i].stage = "dispatched" /\ pc[m] = "done" =>
        \E j \in DOMAIN chat[m] : chat[m][j] = log[m][i].user

\* Every recipient a 200 reports as delivered has its delivered row.
DeliveredIsLogged ==
    \A m \in Reqs : resp[m] = "ok" =>
        \A r \in Reports(m, "delivered") : HasRow(m, "delivered", r.user)
=============================================================================
