----------------------------- MODULE Onboarding -----------------------------
(***************************************************************************)
(* How a user gets a personal supergroup with one topic per app: the bot's *)
(* poller and its handlers (internal/bot), the registry they write         *)
(* (internal/registry) and the admin API writing the same tables           *)
(* (internal/api/handlers/admin_subscriptions.go, admin_users.go,          *)
(* admin_apps.go).                                                         *)
(*                                                                         *)
(* The poller handles one update at a time; users, chats and the admin API *)
(* go on meanwhile. An action is one statement or one Telegram call of a   *)
(* handler; lookups that follow one another and change nothing are one     *)
(* action, apart from the write they decide on. Every such step may fail,  *)
(* or succeed with its answer lost. Replies to the user are left out: a    *)
(* handler does nothing after them.                                        *)
(***************************************************************************)
EXTENDS Integers, Sequences, FiniteSets, FiniteSetsExt

CONSTANTS
    Users,       \* Telegram accounts
    Chats,       \* group chats the bot can be added to
    None,        \* NULL
    Apps,        \* app ids, numbered in the order of ORDER BY app_id
    Commands,    \* commands users send, of UserCommands
    Joiners,     \* accounts that join chats, of Users
    AppChanges,  \* (app, state) pairs of PATCH, DELETE and POST /admin/apps
    Grades,      \* ranks PATCH /admin/users may set, of 0..1
    MaxTokens,   \* bound: tokens issued; later INSERTs have no effect
    MaxThreads,  \* bound: topics per chat; later createForumTopic calls fail
    MaxQueue,    \* bound: updates waiting
    MaxFaults    \* bound: failed steps and restarts

ASSUME OnboardingAssumption ==
    /\ None \notin Users \union Chats /\ IsFiniteSet(Users)
    /\ Joiners \subseteq Users /\ Grades \subseteq 0..1
    /\ Apps \subseteq Nat /\ AppChanges \subseteq Apps \X {"active", "restricted", "inactive"}
    /\ MaxTokens \in Nat /\ MaxThreads \in Nat /\ MaxQueue \in Nat /\ MaxFaults \in Nat

Tokens == 1..MaxTokens
\* An app's row: active for users of every grade, active with a min_grade above
\* the lowest, not active, or no row.
AppStates == {"active", "restricted", "inactive", "gone"}
Rights == {"left", "member", "partial", "admin"}  \* partial: admin, a right missing

VARIABLES
    users,    \* users[u]: the row of users, known when it exists
    apps,     \* apps[a]: one of AppStates
    subs,     \* user_subscriptions
    rows,     \* rows[u][a]: user_topics.telegram_topic_id, 0 when there is none
    pending,  \* pending_supergroup_tokens, as a set of tokens
    owner,    \* owner[t]: user_id of token t
    expired,  \* tokens past expires_at
    minted,   \* tokens drawn so far
    rights,   \* rights[c]: what the bot really is in chat c
    threads,  \* threads[c]: topics of chat c, a thread id is a position
    banned,   \* (chat, account) pairs the bot has banned
    queue,    \* updates Telegram will deliver, in order
    last,     \* the update being handled, or handled last
    job,      \* what is left of its handler
    faults,   \* faults so far
    linked,   \* history: linked[u] is the set of chats u has been linked to
    spent,    \* history: spent[t] is the set of chats token t has linked
    silent,   \* history: (user, app) pairs subscribed through the admin API
    purged,   \* history: apps that have been purged
    missed    \* history: chats whose last my_chat_member update was lost or failed

tables == <<users, apps, subs, rows, pending, owner, expired, minted>>
chat == <<rights, threads, banned>>
history == <<linked, spent, silent, purged, missed>>
vars == <<tables, chat, queue, last, job, faults, history>>

-----------------------------------------------------------------------------
Command(k, u) == [kind |-> k, user |-> u]
Choice(k, u, a) == [kind |-> k, user |-> u, app |-> a]
Token(c, t) == [kind |-> "token", chat |-> c, token |-> t]
MyChatMember(c, r) == [kind |-> "my_chat_member", chat |-> c, status |-> r]
ChatMember(c, u) == [kind |-> "chat_member", chat |-> c, user |-> u]
NoUpdate == [kind |-> "none"]

UserCommands == {Command(k, u) : k \in {"/start", "/agree", "/apps"}, u \in Users}
    \union {Choice(k, u, a) : k \in {"/subscribe", "/unsubscribe"}, u \in Users, a \in Apps}

ASSUME CommandsAssumption == Commands \subseteq UserCommands

Updates == UserCommands
    \union {Token(c, t) : c \in Chats, t \in Tokens}
    \union {MyChatMember(c, r) : c \in Chats, r \in Rights}
    \union {ChatMember(c, u) : c \in Chats, u \in Users}

Idle == [pc |-> "idle"]
Job(l, u, c) == [pc |-> l, user |-> u, chat |-> c]

\* The update whose handler runs next.
Takes(k) == /\ job = Idle /\ queue # <<>> /\ Head(queue).kind = k
            /\ last' = Head(queue) /\ queue' = Tail(queue)

\* A statement or a call takes effect unless it failed; the handler goes on
\* when the answer says so.
Outcomes == {"ok", "failed", "lost"}
Outcome(o) == \/ o = "ok" /\ UNCHANGED faults
              \/ o # "ok" /\ faults < MaxFaults /\ faults' = faults + 1
Effective(o) == o # "failed"
Next1(o, j) == job' = IF o = "ok" THEN j ELSE Idle

Ready(u) == users[u].link # None /\ users[u].admin

\* Whether Telegram lets the bot ban and manage topics in chat c. With only some
\* of the rights it depends on which one is missing.
May(c) == CASE rights[c] = "admin" -> {TRUE}
            [] rights[c] = "partial" -> BOOLEAN
            [] OTHER -> {FALSE}

-----------------------------------------------------------------------------
(* Statements of the stores, as what the tables become. *)

UpsertOnStart(u) == [users EXCEPT ![u].known = TRUE]

\* agreed_at is written once, for the row that GetByTelegramID found or
\* UpsertOnStart made.
MarkAgreed(u) == [users EXCEPT ![u].known = TRUE, ![u].agreed = TRUE]

IssueToken(t, u) ==
    /\ pending' = pending \union {t}
    /\ owner' = [owner EXCEPT ![t] = u]

\* DELETE ... RETURNING found the token, and it has not expired.
Redeems(t) == t \in pending \ expired

SetBotIsAdmin(u, isAdmin) == [users EXCEPT ![u].admin = isAdmin]

\* ON CONFLICT DO NOTHING; the foreign key refuses a purged app.
AddTopic(u, a, n) == IF apps[a] # "gone" /\ rows[u][a] = 0
                     THEN [rows EXCEPT ![u][a] = n] ELSE rows

-----------------------------------------------------------------------------
(* /start and /agree in a private chat: StartHandler. *)

\* Mutant: handleStart without the check of AgreedAt.
handleStartUnasked(o) ==
    /\ Takes("/start") /\ Outcome(o)
    /\ LET u == last'.user IN
       /\ users' = IF Effective(o) THEN UpsertOnStart(u) ELSE users
       /\ Next1(o, IF ~Ready(u) THEN Job("issue", u, None) ELSE Idle)
    /\ UNCHANGED <<apps, subs, rows, pending, owner, expired, minted, chat, history>>

\* UpsertOnStart, then by the row it returns: registered already, consent
\* first, or a deeplink.
handleStart(o) ==
    /\ Takes("/start") /\ Outcome(o)
    /\ LET u == last'.user IN
       /\ users' = IF Effective(o) THEN UpsertOnStart(u) ELSE users
       /\ Next1(o, IF ~Ready(u) /\ users[u].agreed THEN Job("issue", u, None) ELSE Idle)
    /\ UNCHANGED <<apps, subs, rows, pending, owner, expired, minted, chat, history>>

\* /agree before /start makes the row, which stays when MarkAgreed fails.
handleAgree(o) ==
    /\ Takes("/agree") /\ Outcome(o)
    /\ LET u == last'.user IN
       /\ \/ Effective(o) /\ users' = MarkAgreed(u)
          \/ o = "failed" /\ users' \in {users, UpsertOnStart(u)}
       /\ Next1(o, Job("issue", u, None))
    /\ UNCHANGED <<apps, subs, rows, pending, owner, expired, minted, chat, history>>

\* newToken draws a token no one has seen; IssueToken inserts it.
issueStartgroupDeeplink(o) ==
    /\ job.pc = "issue" /\ Outcome(o)
    /\ IF Effective(o) /\ minted < MaxTokens
       THEN /\ minted' = minted + 1
            /\ IssueToken(minted + 1, job.user)
       ELSE UNCHANGED <<minted, pending, owner>>
    /\ job' = Idle
    /\ UNCHANGED <<users, apps, subs, rows, expired, chat, queue, last, history>>

-----------------------------------------------------------------------------
(* "/start <token>" in a group: StartgroupHandler. *)

\* Mutant: ConsumeToken reads the token and leaves it.
ConsumeTokenKept(o) ==
    /\ Takes("token") /\ Outcome(o)
    /\ LET t == last'.token IN
       Next1(o, IF Redeems(t) THEN Job("link", owner[t], last'.chat) ELSE Idle)
    /\ UNCHANGED <<tables, chat, history>>

\* ConsumeToken deletes the token, expired or not. Unknown and expired tokens
\* are answered and left.
ConsumeToken(o) ==
    /\ Takes("token") /\ Outcome(o)
    /\ LET t == last'.token IN
       /\ pending' = IF Effective(o) THEN pending \ {t} ELSE pending
       /\ Next1(o, IF Redeems(t) THEN Job("link", owner[t], last'.chat) ELSE Idle)
    /\ UNCHANGED <<users, apps, subs, rows, owner, expired, minted, chat, history>>

\* Mutant: the flag of the chat linked before is kept.
LinkedRowKeepingFlag(u, c) == [users[u] EXCEPT !.link = c]

LinkedRow(u, c) == [users[u] EXCEPT !.link = c, !.admin = FALSE]

LinkSupergroup(o) ==
    /\ job.pc = "link" /\ Outcome(o)
    /\ LET u == job.user
           c == job.chat IN
       IF Effective(o)
       THEN /\ users' = [users EXCEPT ![u] = LinkedRow(u, c)]
            /\ linked' = [linked EXCEPT ![u] = @ \union {c}]
            /\ spent' = [spent EXCEPT ![last.token] = @ \union {c}]
       ELSE UNCHANGED <<users, linked, spent>>
    /\ job' = Idle
    /\ UNCHANGED <<apps, subs, rows, pending, owner, expired, minted, chat, queue, last, silent,
                   purged, missed>>

-----------------------------------------------------------------------------
(* my_chat_member and chat_member: PromoteHandler and IntrusionHandler. *)

\* Any row of the SELECT; no ORDER BY, and no unique constraint on the column.
FindUserByChatID(c) == {u \in Users : users[u].link = c}

\* Lookup errors and chats of nobody are ignored. Full rights set the flag and
\* provision; less than that clears it. "left" covers the kicked bot and the
\* deleted group.
Promote(o) ==
    /\ Takes("my_chat_member") /\ Outcome(o)
    /\ LET c == last'.chat
           yes == last'.status = "admin" IN
       \/ /\ FindUserByChatID(c) = {} \/ o = "failed"
          /\ job' = Idle /\ UNCHANGED users
       \/ \E u \in FindUserByChatID(c) :
          /\ Effective(o)
          /\ users' = SetBotIsAdmin(u, yes)
          /\ Next1(o, IF yes THEN Job("list", u, c) ELSE Idle)
    /\ missed' = IF o = "failed" THEN missed \union {last'.chat} ELSE missed \ {last'.chat}
    /\ UNCHANGED <<apps, subs, rows, pending, owner, expired, minted, chat, linked, spent,
                   silent, purged>>

\* Whoever became an ordinary member of a linked chat is banned, if the bot may.
Intrusion(o) ==
    /\ Takes("chat_member") /\ Outcome(o)
    /\ \E may \in May(last'.chat) :
       banned' = IF may /\ Effective(o) /\ FindUserByChatID(last'.chat) # {}
                 THEN banned \union {<<last'.chat, last'.user>>} ELSE banned
    /\ job' = Idle
    /\ UNCHANGED <<tables, rights, threads, history>>

-----------------------------------------------------------------------------
(* TopicProvisioner.EnsureForSubscribedApps. *)

\* Mutant: every subscribed app, whether it has a topic or not.
EverySubscribedApp(u) == {a \in Apps : <<u, a>> \in subs}

ListSubscribedAppsWithoutTopic(u) == {a \in Apps : <<u, a>> \in subs /\ rows[u][a] = 0}

Provision(u, c, todo) ==
    IF todo = {} THEN Idle
    ELSE [pc |-> "create", user |-> u, chat |-> c, todo |-> todo]

List(o) ==
    /\ job.pc = "list" /\ Outcome(o)
    /\ Next1(o, Provision(job.user, job.chat, ListSubscribedAppsWithoutTopic(job.user)))
    /\ UNCHANGED <<tables, chat, queue, last, history>>

\* createForumTopic works where the bot is an admin. An error skips the app; a
\* lost answer skips it too, with the topic made.
CreateForumTopic(o) ==
    /\ job.pc = "create" /\ Outcome(o)
    /\ \E may \in May(job.chat) :
       LET a == Min(job.todo)
           c == job.chat
           done == may /\ Len(threads[c]) < MaxThreads /\ Effective(o) IN
       /\ threads' = IF done THEN [threads EXCEPT ![c] = Append(@, [app |-> a, open |-> TRUE])]
                     ELSE threads
       /\ job' = IF done /\ o = "ok"
                 THEN [pc |-> "add", user |-> job.user, chat |-> c, todo |-> job.todo,
                       thread |-> Len(threads[c]) + 1]
                 ELSE Provision(job.user, c, job.todo \ {a})
    /\ UNCHANGED <<tables, rights, banned, queue, last, history>>

\* Mutant: the row is written for the last app of the list.
ProvisionedAppLast(todo) == Max(todo)

ProvisionedApp(todo) == Min(todo)

\* A row that was not written is logged and the loop goes on.
Add(o) ==
    /\ job.pc = "add" /\ Outcome(o)
    /\ LET a == ProvisionedApp(job.todo)
           u == job.user IN
       /\ rows' = IF Effective(o) THEN AddTopic(u, a, job.thread) ELSE rows
       /\ job' = Provision(u, job.chat, job.todo \ {Min(job.todo)})
    /\ UNCHANGED <<users, apps, subs, pending, owner, expired, minted, chat, queue, last,
                   history>>

-----------------------------------------------------------------------------
(* /apps, /subscribe, /unsubscribe: AppsHandler. *)

\* The app exists, is active, and the user has its grade.
Allowed(u, a) == /\ users[u].known
                 /\ apps[a] = "active" \/ (apps[a] = "restricted" /\ users[u].rank = 1)

\* /apps prints the list.
list == /\ Takes("/apps") /\ job' = Idle
        /\ UNCHANGED <<tables, chat, faults, history>>

\* Mutant: /subscribe leaves the topic to the next promotion.
AfterSubscribeNothing(u) == Idle

AfterSubscribe(u) == IF Ready(u) THEN Job("list", u, users[u].link) ELSE Idle

\* The lookups of the user and the app; the admin API may change both after.
toggleOn(o) ==
    /\ Takes("/subscribe") /\ Outcome(o)
    /\ LET u == last'.user
           a == last'.app IN
       Next1(o, IF Allowed(u, a) THEN [pc |-> "subscribe", user |-> u, app |-> a] ELSE Idle)
    /\ UNCHANGED <<tables, chat, history>>

\* The INSERT, which the foreign key refuses for a purged app, and then the
\* topic. The chat and the flag are those the lookup read: only the poller
\* writes them.
SubscribeRow(o) ==
    /\ job.pc = "subscribe" /\ Outcome(o)
    /\ LET there == apps[job.app] # "gone" IN
       /\ subs' = IF there /\ Effective(o) THEN subs \union {<<job.user, job.app>>} ELSE subs
       /\ Next1(o, IF there THEN AfterSubscribe(job.user) ELSE Idle)
    /\ UNCHANGED <<users, apps, rows, pending, owner, expired, minted, chat, queue, last,
                   history>>

\* The lookups and the GetTopicID of Close, when there is a chat to close the
\* topic in. A failed lookup is answered; a failed GetTopicID ends only Close.
toggleOff(o) ==
    /\ Takes("/unsubscribe") /\ Outcome(o)
    /\ LET u == last'.user
           a == last'.app IN
       \/ /\ ~Allowed(u, a) \/ o # "ok"
          /\ job' = Idle
       \/ /\ Allowed(u, a)
          /\ job' = [pc |-> IF Ready(u) /\ rows[u][a] # 0 /\ o = "ok"
                            THEN "close" ELSE "unsubscribe",
                     user |-> u, chat |-> users[u].link, app |-> a, thread |-> rows[u][a]]
    /\ UNCHANGED <<tables, chat, history>>

\* closeForumTopic; an error ends Close, not the handler.
CloseForumTopic(o) ==
    /\ job.pc = "close" /\ Outcome(o)
    /\ \E may \in May(job.chat) :
       LET c == job.chat
           done == may /\ job.thread \in DOMAIN threads[c] /\ Effective(o) IN
       /\ threads' = IF done THEN [threads EXCEPT ![c][job.thread].open = FALSE] ELSE threads
       /\ job' = [job EXCEPT !.pc = IF done /\ o = "ok" THEN "remove" ELSE "unsubscribe"]
    /\ UNCHANGED <<tables, rights, banned, queue, last, history>>

Remove(o) ==
    /\ job.pc = "remove" /\ Outcome(o)
    /\ rows' = IF Effective(o) THEN [rows EXCEPT ![job.user][job.app] = 0] ELSE rows
    /\ job' = [job EXCEPT !.pc = "unsubscribe"]
    /\ UNCHANGED <<users, apps, subs, pending, owner, expired, minted, chat, queue, last,
                   history>>

UnsubscribeRow(o) ==
    /\ job.pc = "unsubscribe" /\ Outcome(o)
    /\ subs' = IF Effective(o) THEN subs \ {<<job.user, job.app>>} ELSE subs
    /\ silent' = IF Effective(o) THEN silent \ {<<job.user, job.app>>} ELSE silent
    /\ job' = Idle
    /\ UNCHANGED <<users, apps, rows, pending, owner, expired, minted, chat, queue, last,
                   linked, spent, purged, missed>>

-----------------------------------------------------------------------------
(* The admin API: user_subscriptions, users.grade and apps. *)

\* The INSERT; the grade is not asked, and no topic is made. The app was active
\* when the request looked, which was before: every app was at the start, and a
\* request may be slow. So only the foreign key counts here.
AdminSubscribe(u, a) ==
    /\ users[u].known /\ apps[a] # "gone" /\ <<u, a>> \notin subs
    /\ subs' = subs \union {<<u, a>>}
    /\ silent' = silent \union {<<u, a>>}
    /\ UNCHANGED <<users, apps, rows, pending, owner, expired, minted, chat, queue, last, job,
                   faults, linked, spent, purged, missed>>

AdminUnsubscribe(u, a) ==
    /\ <<u, a>> \in subs
    /\ subs' = subs \ {<<u, a>>}
    /\ silent' = silent \ {<<u, a>>}
    /\ UNCHANGED <<users, apps, rows, pending, owner, expired, minted, chat, queue, last, job,
                   faults, linked, spent, purged, missed>>

PatchUser(u, r) ==
    /\ users[u].known /\ users[u].rank # r
    /\ users' = [users EXCEPT ![u].rank = r]
    /\ UNCHANGED <<apps, subs, rows, pending, owner, expired, minted, chat, queue, last, job,
                   faults, history>>

\* PATCH of active and min_grade, DELETE, and POST /admin/apps of an app that is
\* gone, which makes it active.
SetApp(a, s) ==
    /\ <<a, s>> \in AppChanges /\ apps[a] # s
    /\ apps[a] = "gone" => s # "inactive"
    /\ apps' = [apps EXCEPT ![a] = s]
    /\ UNCHANGED <<users, subs, rows, pending, owner, expired, minted, chat, queue, last, job,
                   faults, history>>

\* Purge: subscriptions and topics go with the app, Telegram's topics stay.
PurgeApp(a) ==
    /\ apps[a] # "gone"
    /\ apps' = [apps EXCEPT ![a] = "gone"]
    /\ subs' = {p \in subs : p[2] # a}
    /\ silent' = {p \in silent : p[2] # a}
    /\ rows' = [u \in Users |-> [rows[u] EXCEPT ![a] = 0]]
    /\ purged' = purged \union {a}
    /\ UNCHANGED <<users, pending, owner, expired, minted, chat, queue, last, job, faults,
                   linked, spent, missed>>

-----------------------------------------------------------------------------
(* Telegram: what users do, in the order in which it is delivered. *)

Deliver(m) == Len(queue) < MaxQueue /\ queue' = Append(queue, m)

SendCommand(m) ==
    /\ Deliver(m)
    /\ UNCHANGED <<tables, chat, last, job, faults, history>>

\* Someone changes what the bot may do in chat c.
SetRights(c, r) ==
    /\ rights[c] # r /\ Deliver(MyChatMember(c, r))
    /\ rights' = [rights EXCEPT ![c] = r]
    /\ UNCHANGED <<tables, threads, banned, last, job, faults, history>>

\* A deeplink is opened into chat c, perhaps not for the first time.
PresentToken(c, t) ==
    /\ rights[c] # "left" /\ t <= minted /\ Deliver(Token(c, t))
    /\ UNCHANGED <<tables, chat, last, job, faults, history>>

\* u becomes an ordinary member of chat c, where the bot is an admin: only then
\* are chat_member updates sent.
Join(c, u) ==
    /\ rights[c] \in {"partial", "admin"} /\ Deliver(ChatMember(c, u))
    /\ UNCHANGED <<tables, chat, last, job, faults, history>>

Expire(t) ==
    /\ t \in pending \ expired
    /\ expired' = expired \union {t}
    /\ UNCHANGED <<users, apps, subs, rows, pending, owner, minted, chat, queue, last, job,
                   faults, history>>

MyChats(q) == {m.chat : m \in {q[i] : i \in {j \in DOMAIN q : q[j].kind = "my_chat_member"}}}

\* The server stops and starts again. Updates telego had fetched ahead and so
\* confirmed are lost, with all before them; the one handled last comes again if
\* it had not been confirmed (bound: the others of its batch do not).
Restart ==
    /\ faults < MaxFaults /\ faults' = faults + 1
    /\ \/ \E k \in 0..Len(queue) :
             /\ queue' = SubSeq(queue, k + 1, Len(queue))
             /\ missed' = missed \union MyChats(SubSeq(queue, 1, k))
       \/ last # NoUpdate /\ queue' = <<last>> \o queue /\ UNCHANGED missed
    /\ last' = NoUpdate /\ job' = Idle
    /\ UNCHANGED <<tables, chat, linked, spent, silent, purged>>

-----------------------------------------------------------------------------
Init ==
    /\ users = [u \in Users |-> [known |-> FALSE, agreed |-> FALSE, link |-> None,
                                admin |-> FALSE, rank |-> 0]]
    /\ apps = [a \in Apps |-> "active"]
    /\ subs = {} /\ rows = [u \in Users |-> [a \in Apps |-> 0]]
    /\ pending = {} /\ owner = [t \in Tokens |-> None] /\ expired = {} /\ minted = 0
    /\ rights = [c \in Chats |-> "left"] /\ threads = [c \in Chats |-> <<>>] /\ banned = {}
    /\ queue = <<>> /\ last = NoUpdate /\ job = Idle /\ faults = 0
    /\ linked = [u \in Users |-> {}] /\ spent = [t \in Tokens |-> {}] /\ silent = {}
    /\ purged = {} /\ missed = {}

Poller ==
    \/ list
    \/ \E o \in Outcomes :
       \/ handleStart(o) \/ handleAgree(o) \/ issueStartgroupDeeplink(o)
       \/ ConsumeToken(o) \/ LinkSupergroup(o) \/ Promote(o) \/ Intrusion(o)
       \/ List(o) \/ CreateForumTopic(o) \/ Add(o)
       \/ toggleOn(o) \/ SubscribeRow(o)
       \/ toggleOff(o) \/ CloseForumTopic(o) \/ Remove(o) \/ UnsubscribeRow(o)

Admin ==
    \/ \E u \in Users, a \in Apps : AdminSubscribe(u, a) \/ AdminUnsubscribe(u, a)
    \/ \E u \in Users, r \in Grades : PatchUser(u, r)
    \/ \E a \in Apps : PurgeApp(a) \/ \E s \in AppStates : SetApp(a, s)

Telegram ==
    \/ \E m \in Commands : SendCommand(m)
    \/ \E c \in Chats, r \in Rights : SetRights(c, r)
    \/ \E c \in Chats, t \in Tokens : PresentToken(c, t)
    \/ \E c \in Chats, u \in Joiners : Join(c, u)
    \/ \E t \in Tokens : Expire(t)

Next == Poller \/ Admin \/ Telegram \/ Restart

Spec == Init /\ [][Next]_vars

-----------------------------------------------------------------------------
(* Properties. *)

Row == [known : BOOLEAN, agreed : BOOLEAN, link : Chats \union {None}, admin : BOOLEAN,
        rank : 0..1]

\* The type of the state.
TypeOK ==
    /\ users \in [Users -> Row]
    /\ apps \in [Apps -> AppStates]
    /\ subs \subseteq Users \X Apps /\ silent \subseteq Users \X Apps
    /\ rows \in [Users -> [Apps -> 0..MaxThreads]]
    /\ pending \subseteq 1..minted /\ expired \subseteq 1..minted /\ minted \in 0..MaxTokens
    /\ owner \in [Tokens -> Users \union {None}]
    /\ rights \in [Chats -> Rights]
    /\ \A c \in Chats : /\ Len(threads[c]) <= MaxThreads
                        /\ \A n \in DOMAIN threads[c] : threads[c][n].app \in Apps
    /\ banned \subseteq Chats \X Users
    /\ queue \in Seq(Updates) /\ last \in Updates \union {NoUpdate}
    /\ job.pc \in {"idle", "issue", "link", "list", "create", "add", "subscribe", "close",
                   "remove", "unsubscribe"}
    /\ faults \in 0..MaxFaults
    /\ linked \in [Users -> SUBSET Chats] /\ spent \in [Tokens -> SUBSET Chats]
    /\ purged \subseteq Apps /\ missed \subseteq Chats

\* Nobody has a chat linked, or a token to link one, who has not agreed to the
\* notice (handleStart, handleAgree), whatever fails in between.
ConsentFirst ==
    \A u \in Users :
        \/ users[u].link # None
        \/ \E t \in pending : owner[t] = u
        => users[u].agreed

\* A token binds one chat, though it may be presented in many, again after a
\* restart, and while the link it made is failing (ConsumeToken).
TokenUsedOnce == \A t \in Tokens : Cardinality(spent[t]) <= 1

\* Only one user has ever linked chat c.
Unshared(c) == Cardinality({u \in Users : c \in linked[u]}) <= 1

\* users.bot_is_admin_in_supergroup says so only of a chat where the bot is an
\* admin, or where the update that clears the flag is on its way; in particular
\* it never speaks of a chat that was linked before (LinkSupergroup, Promote).
\* An update that was lost or whose SetBotIsAdmin failed is never tried again;
\* then, whatever else failed, the next one of the chat puts the flag right.
FlagMatchesChat ==
    \A u \in Users :
        /\ users[u].admin /\ Unshared(users[u].link) /\ users[u].link \notin missed
        => \/ rights[users[u].link] = "admin"
           \/ \E i \in DOMAIN queue : /\ queue[i].kind = "my_chat_member"
                                      /\ queue[i].chat = users[u].link
                                      /\ queue[i].status # "admin"

\* Chat c holds topic n, and it is the topic of app a.
Names(c, n, a) == n \in DOMAIN threads[c] /\ threads[c][n].app = a

\* As long as a user keeps one chat, user_topics sends the messages of an app to
\* the topic of that app, whatever fails and whatever the admin API does
\* meanwhile (EnsureForSubscribedApps, Close, the cascade of a purge).
TopicOfItsApp ==
    \A u \in Users, a \in Apps, c \in Chats :
        linked[u] = {c} /\ rows[u][a] # 0 => Names(c, rows[u][a], a)

OpenTopics(c, a) == {n \in DOMAIN threads[c] : threads[c][n] = [app |-> a, open |-> TRUE]}

\* Without faults, promotions and subscriptions that come again make no second
\* topic (ListSubscribedAppsWithoutTopic, Close).
OneTopicPerApp ==
    \A u \in Users, a \in Apps \ purged, c \in Chats :
        faults = 0 /\ linked[u] = {c} /\ Unshared(c) => Cardinality(OpenTopics(c, a)) <= 1

\* When everything delivered has been handled without fault, a user whose flag is
\* set has a topic for every app subscribed to by command (Promote, toggleOn). Of
\* two users with one chat, only one gets its updates (FindUserByChatID).
Provisioned ==
    \A u \in Users, a \in Apps :
        /\ faults = 0 /\ queue = <<>> /\ job = Idle /\ Ready(u) /\ Unshared(users[u].link)
        /\ <<u, a>> \in subs \ silent
        /\ Len(threads[users[u].link]) < MaxThreads
        => rows[u][a] # 0

-----------------------------------------------------------------------------
(* What the repository says, and the code does not do. *)

\* When full rights were granted in the linked chat and every update has been
\* handled, the flag is set (comment of PromoteHandler).
PromotionSticks ==
    \A u \in Users :
        /\ faults = 0 /\ queue = <<>> /\ job = Idle
        /\ users[u].link # None /\ Unshared(users[u].link) /\ rights[users[u].link] = "admin"
        => users[u].admin

\* The topic ids of a user are topics of the chat linked now (StartgroupHandler's
\* message: the topics of the subscribed apps are made).
TopicInLinkedChat ==
    \A u \in Users, a \in Apps :
        Ready(u) /\ job = Idle /\ rows[u][a] # 0 => Names(users[u].link, rows[u][a], a)

\* /apps makes the topics still missing (the operator note of Subscribe).
RunAppsProvisions ==
    [][\A u \in Users :
        /\ queue # <<>> /\ Head(queue) = Command("/apps", u) /\ queue' = Tail(queue)
        /\ Ready(u) /\ faults' = faults
        => job' # Idle \/ \A a \in Apps : <<u, a>> \in subs => rows[u][a] # 0]_vars

\* OneTopicPerApp with retries after faults (comment of EnsureForSubscribedApps).
TopicsIdempotent ==
    \A u \in Users, a \in Apps \ purged, c \in Chats :
        linked[u] = {c} /\ Unshared(c) => Cardinality(OpenTopics(c, a)) <= 1

\* The owner of a personal supergroup is never banned from it (comment of
\* IntrusionHandler).
OwnerNeverBanned == \A u \in Users : <<users[u].link, u>> \notin banned
=============================================================================
