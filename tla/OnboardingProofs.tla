-------------------------- MODULE OnboardingProofs --------------------------
(***************************************************************************)
(* For any users, chats, apps, tokens and number of faults: consent comes  *)
(* first, a token links one chat, the admin flag speaks of the chat that   *)
(* is linked, and user_topics names the topic of the app.                  *)
(***************************************************************************)
EXTENDS Onboarding, FiniteSetTheorems, SequenceTheorems, WellFoundedInduction, TLAPS

Provisioning == {"list", "create", "add"}
Closing == {"close", "remove", "unsubscribe"}

\* What the handler that is running still knows.
JobTypes ==
    /\ job.pc = "idle" => job = Idle
    /\ job.pc # "idle" => job.user \in Users
    /\ job.pc \in Provisioning \union {"link", "close", "remove"} => job.chat \in Chats
    /\ job.pc = "link" => last.kind = "token"
    /\ job.pc \in {"create", "add"} => job.todo \subseteq Apps /\ job.todo # {}
    /\ job.pc = "add" => job.thread \in 1..MaxThreads
    /\ job.pc = "subscribe" => job.app \in Apps
    /\ job.pc \in Closing =>
          /\ job = [pc |-> job.pc, user |-> job.user, chat |-> job.chat, app |-> job.app,
                    thread |-> job.thread]
          /\ job.app \in Apps

Topic == [app : Apps, open : BOOLEAN]

\* Tokens were issued to users.
GoodOwners == \A t \in pending : owner[t] \in Users

Types == TypeOK /\ JobTypes /\ GoodOwners /\ threads \in [Chats -> Seq(Topic)]

\* Whoever is given a token, or is being linked, has agreed.
Consent ==
    /\ ConsentFirst
    /\ job.pc \in {"issue", "link"} => users[job.user].agreed

\* A token that has linked a chat is gone; the one that is about to has not
\* linked any yet.
TokensSpent ==
    /\ \A t \in Tokens : spent[t] # {} =>
          t <= minted /\ t \notin pending /\ \E c \in Chats : spent[t] = {c}
    /\ job.pc = "link" =>
          last.token <= minted /\ last.token \notin pending /\ spent[last.token] = {}

\* An update that takes the rights in chat c away from the bot.
Demotes(m, c) == m.kind = "my_chat_member" /\ m.chat = c /\ m.status # "admin"
Demoted(c) == \E i \in DOMAIN queue : Demotes(queue[i], c)

\* An update that gives it the rights is true, or followed by one that does not.
QueueTrue ==
    /\ \A i \in DOMAIN queue :
          queue[i].kind = "my_chat_member" /\ queue[i].status = "admin" =>
              \/ rights[queue[i].chat] = "admin"
              \/ \E j \in DOMAIN queue : j > i /\ Demotes(queue[j], queue[i].chat)
    /\ last.kind = "my_chat_member" /\ last.status = "admin" =>
          rights[last.chat] = "admin" \/ Demoted(last.chat)

\* The chat of a user has been linked by that user, and the flag is of a chat.
LinkKnown ==
    \A u \in Users : /\ users[u].link # None => users[u].link \in linked[u]
                     /\ users[u].admin => users[u].link # None

\* The rows of a user are topics of a chat the user has linked, and so is the
\* topic that has just been made.
TopicsNamed ==
    /\ \A u \in Users, a \in Apps : rows[u][a] # 0 =>
          \E c \in linked[u] : Names(c, rows[u][a], a)
    /\ job.pc \in Provisioning \union {"close", "remove"} => job.chat \in linked[job.user]
    /\ job.pc = "add" => Names(job.chat, job.thread, Min(job.todo))
    /\ \A c \in Chats : threads[c] # <<>> => \E u \in Users : c \in linked[u]

\* An open topic is in user_topics, or is about to be.
OpenRecorded ==
    \A u \in Users, a \in Apps \ purged, c \in Chats :
        linked[u] = {c} /\ Unshared(c) => \A n \in OpenTopics(c, a) :
            \/ rows[u][a] = n
            \/ job.pc = "add" /\ job.user = u /\ job.thread = n /\ Min(job.todo) = a

\* A topic is made for an app without one.
TodoFree == job.pc \in {"create", "add"} => \A a \in job.todo : rows[job.user][a] = 0

\* The row goes when its topic has been closed.
ClosingRow ==
    /\ job.pc \in {"close", "remove"} /\ job.app \notin purged =>
          rows[job.user][job.app] = job.thread
    /\ job.pc = "remove" => job.thread \notin OpenTopics(job.chat, job.app)

PurgedKnown == \A a \in Apps : apps[a] = "gone" => a \in purged

TopicsOnce == faults = 0 => OpenRecorded /\ TodoFree /\ ClosingRow /\ PurgedKnown

\* A purged app has no subscriptions left.
SubsKnown == \A p \in subs : apps[p[2]] # "gone"

\* Topics are made in the chat that is linked, with the flag set.
ProvisionsLinked ==
    job.pc \in Provisioning => users[job.user].link = job.chat /\ users[job.user].admin

\* User u subscribes to app a by command, and has no topic for it.
Due(u, a) ==
    /\ Ready(u) /\ Unshared(users[u].link) /\ <<u, a>> \in subs \ silent
    /\ Len(threads[users[u].link]) < MaxThreads /\ rows[u][a] = 0

\* The handler at work serves the user and the app, or unsubscribes them.
Serves(u, a) ==
    \/ job.pc = "list" /\ job.user = u
    \/ job.pc \in {"create", "add"} /\ job.user = u /\ a \in job.todo
    \/ job.pc \in Closing /\ job.user = u /\ job.app = a

\* What is due is served, or the flag will be cleared.
DueServed ==
    \A u \in Users, a \in Apps : Due(u, a) => Serves(u, a) \/ Demoted(users[u].link)

TopicsDue == faults = 0 => missed = {} /\ SubsKnown /\ ProvisionsLinked /\ DueServed

OnboardingInv ==
    /\ Types /\ Consent /\ TokensSpent /\ LinkKnown /\ QueueTrue /\ FlagMatchesChat
    /\ TopicsNamed /\ TopicsOnce /\ TopicsDue

-----------------------------------------------------------------------------
(* Updates. *)

\* The fields of an update, by its kind.
LEMMA UpdateFields ==
    ASSUME NEW m \in Updates
    PROVE  /\ m.kind \in {"/start", "/agree", "/apps", "/subscribe", "/unsubscribe"} =>
                 m.user \in Users
           /\ m.kind \in {"/subscribe", "/unsubscribe"} => m.app \in Apps
           /\ m.kind = "token" => m.chat \in Chats /\ m.token \in Tokens
           /\ m.kind = "my_chat_member" => m.chat \in Chats /\ m.status \in Rights
           /\ m.kind = "chat_member" => m.chat \in Chats /\ m.user \in Users
    BY DEF Updates, UserCommands, Command, Choice, Token, MyChatMember, ChatMember

\* Taking an update from the queue.
LEMMA TakesHead ==
    ASSUME queue \in Seq(Updates), NEW k, Takes(k)
    PROVE  /\ job = Idle /\ last' \in Updates /\ last'.kind = k
           /\ queue' \in Seq(Updates) /\ Len(queue) \in Nat \ {0}
           /\ last' = queue[1] /\ Len(queue') = Len(queue) - 1
           /\ \A i \in 1..Len(queue') : queue'[i] = queue[i + 1]
<1>1. queue # <<>> /\ last' = Head(queue) /\ queue' = Tail(queue) /\ job = Idle /\ Head(queue).kind = k
    BY DEF Takes
<1> QED BY <1>1

\* The smallest app of a list is on it.
LEMMA MinIn ==
    ASSUME NEW S, S \subseteq Nat, S # {}
    PROVE  Min(S) \in S
<1> DEFINE R == OpToRel(<, Nat)
<1>1. IsWellFoundedOn(R, Nat)
    BY NatLessThanWellFounded
<1>2. \A x, y \in Nat : <<y, x>> \notin R => x <= y
    BY DEF OpToRel
<1> HIDE DEF R
<1>3. PICK x \in S : \A y \in S : <<y, x>> \notin R
    BY <1>1, WFMin
<1>4. \E z \in S : \A y \in S : z =< y
    BY <1>2, <1>3
<1> QED BY <1>4 DEF Min

-----------------------------------------------------------------------------
(* Types. *)

\* The rows of users.
LEMMA UsersType ==
    ASSUME Types, [Next]_vars
    PROVE  users' \in [Users -> Row]
<1>1. users \in [Users -> Row] /\ queue \in Seq(Updates)
    BY DEF Types, TypeOK
<1>2. CASE UNCHANGED users
    BY <1>1, <1>2
<1>3. ASSUME NEW o, handleStart(o) \/ handleAgree(o)
      PROVE  users' \in [Users -> Row]
    <2>1. last'.user \in Users
        BY <1>1, <1>3, TakesHead, UpdateFields DEF handleStart, handleAgree
    <2>2. users' \in {users, UpsertOnStart(last'.user), MarkAgreed(last'.user)}
        BY <1>3 DEF handleStart, handleAgree
    <2>3. UpsertOnStart(last'.user) \in [Users -> Row]
        BY <1>1, <2>1 DEF UpsertOnStart, Row
    <2>4. MarkAgreed(last'.user) \in [Users -> Row]
        <3>1. PICK u : u = last'.user
            OBVIOUS
        <3>2. PICK s : s = [users EXCEPT ![u].known = TRUE]
            OBVIOUS
        <3>3. s \in [Users -> Row]
            BY <1>1, <2>1, <3>1, <3>2 DEF Row
        <3>4. MarkAgreed(u) = [s EXCEPT ![u].agreed = TRUE]
            BY <3>2 DEF MarkAgreed
        <3> QED BY <3>1, <2>1, <3>3, <3>4 DEF Row
    <2> QED BY <1>1, <2>2, <2>3, <2>4
<1>4. ASSUME NEW o, LinkSupergroup(o)
      PROVE  users' \in [Users -> Row]
    <2>1. job.user \in Users /\ job.chat \in Chats
        BY <1>4 DEF LinkSupergroup, Types, JobTypes
    <2>2. LinkedRow(job.user, job.chat) \in Row
        BY <1>1, <2>1 DEF LinkedRow, Row
    <2> QED BY <1>1, <1>4, <2>1, <2>2 DEF LinkSupergroup
<1>5. ASSUME NEW o, Promote(o)
      PROVE  users' \in [Users -> Row]
    <2>1. users' = users \/ \E u \in Users, b \in BOOLEAN : users' = SetBotIsAdmin(u, b)
        BY <1>5 DEF Promote, FindUserByChatID
    <2> QED BY <1>1, <2>1 DEF SetBotIsAdmin, Row
<1>6. ASSUME NEW u \in Users, NEW r \in Grades, PatchUser(u, r)
      PROVE  users' \in [Users -> Row]
    BY <1>1, <1>6, OnboardingAssumption DEF PatchUser, Row
<1>7. ASSUME NEW o, \/ issueStartgroupDeeplink(o) \/ ConsumeToken(o) \/ Intrusion(o) \/ List(o)
                    \/ CreateForumTopic(o) \/ Add(o) \/ toggleOn(o) \/ SubscribeRow(o) \/ toggleOff(o)
                    \/ CloseForumTopic(o) \/ Remove(o) \/ UnsubscribeRow(o)
      PROVE  UNCHANGED users
    BY <1>7 DEF issueStartgroupDeeplink, ConsumeToken, Intrusion, List, CreateForumTopic, Add,
        toggleOn, SubscribeRow, toggleOff, CloseForumTopic, Remove, UnsubscribeRow, tables
<1>8. list \/ Telegram \/ Restart \/ UNCHANGED vars => UNCHANGED users
    BY DEF list, Telegram, SendCommand, SetRights, PresentToken, Join, Expire, Restart, vars, tables
<1>9. ASSUME NEW a \in Apps,
             \/ \E u \in Users : AdminSubscribe(u, a) \/ AdminUnsubscribe(u, a)
             \/ PurgeApp(a) \/ \E s \in AppStates : SetApp(a, s)
      PROVE  UNCHANGED users
    BY <1>9 DEF AdminSubscribe, AdminUnsubscribe, PurgeApp, SetApp
<1> QED BY <1>2, <1>3, <1>4, <1>5, <1>6, <1>7, <1>8, <1>9 DEF Next, Poller, Admin

\* The tables of the admin API and of the registry.
LEMMA TablesType ==
    ASSUME Types, [Next]_vars
    PROVE  /\ apps' \in [Apps -> AppStates]
           /\ subs' \subseteq Users \X Apps /\ silent' \subseteq Users \X Apps
           /\ purged' \subseteq Apps
<1>1. /\ apps \in [Apps -> AppStates] /\ queue \in Seq(Updates)
      /\ subs \subseteq Users \X Apps /\ silent \subseteq Users \X Apps /\ purged \subseteq Apps
    BY DEF Types, TypeOK
<1>2. CASE UNCHANGED <<apps, subs, silent, purged>>
    BY <1>1, <1>2
<1>3. ASSUME NEW o, SubscribeRow(o)
      PROVE  subs' \subseteq Users \X Apps /\ UNCHANGED <<apps, silent, purged>>
    <2>1. job.user \in Users /\ job.app \in Apps
        BY <1>3 DEF SubscribeRow, Types, JobTypes
    <2> QED BY <1>1, <1>3, <2>1 DEF SubscribeRow, history
<1>4. ASSUME NEW o, UnsubscribeRow(o)
      PROVE  subs' \subseteq subs /\ silent' \subseteq silent /\ UNCHANGED <<apps, purged>>
    BY <1>4 DEF UnsubscribeRow
<1>5. ASSUME NEW u \in Users, NEW a \in Apps, AdminSubscribe(u, a) \/ AdminUnsubscribe(u, a)
      PROVE  /\ subs' \subseteq subs \union {<<u, a>>} /\ silent' \subseteq silent \union {<<u, a>>}
             /\ UNCHANGED <<apps, purged>>
    BY <1>5 DEF AdminSubscribe, AdminUnsubscribe
<1>6. ASSUME NEW a \in Apps, PurgeApp(a)
      PROVE  /\ apps' \in [Apps -> AppStates]
             /\ subs' \subseteq subs /\ silent' \subseteq silent /\ purged' \subseteq Apps
    BY <1>1, <1>6 DEF PurgeApp, AppStates
<1>7. ASSUME NEW a \in Apps, NEW s \in AppStates, SetApp(a, s)
      PROVE  apps' \in [Apps -> AppStates] /\ UNCHANGED <<subs, silent, purged>>
    BY <1>1, <1>7, OnboardingAssumption DEF SetApp, history
<1>8. ASSUME NEW o, \/ handleStart(o) \/ handleAgree(o) \/ issueStartgroupDeeplink(o)
                    \/ ConsumeToken(o) \/ LinkSupergroup(o) \/ Promote(o) \/ Intrusion(o)
                    \/ List(o) \/ CreateForumTopic(o) \/ Add(o) \/ toggleOn(o) \/ toggleOff(o)
                    \/ CloseForumTopic(o) \/ Remove(o)
      PROVE  UNCHANGED <<apps, subs, silent, purged>>
    BY <1>8 DEF handleStart, handleAgree, issueStartgroupDeeplink, ConsumeToken, LinkSupergroup,
        Promote, Intrusion, List, CreateForumTopic, Add, toggleOn, toggleOff, CloseForumTopic, Remove,
        tables, history
<1>9. list \/ Telegram \/ Restart \/ UNCHANGED vars => UNCHANGED <<apps, subs, silent, purged>>
    BY DEF list, Telegram, SendCommand, SetRights, PresentToken, Join, Expire, Restart, vars,
        tables, history
<1>10. ASSUME NEW u \in Users, NEW r \in Grades, PatchUser(u, r)
       PROVE  UNCHANGED <<apps, subs, silent, purged>>
    BY <1>10 DEF PatchUser, history
<1> QED BY <1>1, <1>2, <1>3, <1>4, <1>5, <1>6, <1>7, <1>8, <1>9, <1>10 DEF Next, Poller, Admin

\* user_topics.
LEMMA RowsType ==
    ASSUME Types, [Next]_vars
    PROVE  rows' \in [Users -> [Apps -> 0..MaxThreads]]
<1>1. rows \in [Users -> [Apps -> 0..MaxThreads]] /\ MaxThreads \in Nat /\ Apps \subseteq Nat
    BY OnboardingAssumption DEF Types, TypeOK
<1>2. CASE UNCHANGED rows
    BY <1>1, <1>2
<1>3. ASSUME NEW o, Add(o)
      PROVE  rows' \in [Users -> [Apps -> 0..MaxThreads]]
    <2>1. PICK u, a, n : u = job.user /\ a = ProvisionedApp(job.todo) /\ n = job.thread
        OBVIOUS
    <2>2. u \in Users /\ n \in 0..MaxThreads /\ a \in Apps
        BY <1>1, <1>3, <2>1, MinIn DEF Add, Types, JobTypes, ProvisionedApp
    <2>3. rows' = rows \/ rows' = [rows EXCEPT ![u][a] = n]
        BY <1>3, <2>1 DEF Add, AddTopic
    <2> QED BY <1>1, <2>2, <2>3
<1>4. ASSUME NEW o, Remove(o)
      PROVE  rows' \in [Users -> [Apps -> 0..MaxThreads]]
    <2>1. job.user \in Users /\ job.app \in Apps
        BY <1>4 DEF Remove, Types, JobTypes, Closing
    <2> QED BY <1>1, <1>4, <2>1 DEF Remove
<1>5. ASSUME NEW a \in Apps, PurgeApp(a)
      PROVE  rows' \in [Users -> [Apps -> 0..MaxThreads]]
    BY <1>1, <1>5 DEF PurgeApp
<1>6. ASSUME NEW o, \/ handleStart(o) \/ handleAgree(o) \/ issueStartgroupDeeplink(o)
                    \/ ConsumeToken(o) \/ LinkSupergroup(o) \/ Promote(o) \/ Intrusion(o)
                    \/ List(o) \/ CreateForumTopic(o) \/ toggleOn(o) \/ SubscribeRow(o)
                    \/ toggleOff(o) \/ CloseForumTopic(o) \/ UnsubscribeRow(o)
      PROVE  UNCHANGED rows
    BY <1>6 DEF handleStart, handleAgree, issueStartgroupDeeplink, ConsumeToken, LinkSupergroup,
        Promote, Intrusion, List, CreateForumTopic, toggleOn, SubscribeRow, toggleOff,
        CloseForumTopic, UnsubscribeRow, tables
<1>7. list \/ Telegram \/ Restart \/ UNCHANGED vars => UNCHANGED rows
    BY DEF list, Telegram, SendCommand, SetRights, PresentToken, Join, Expire, Restart, vars, tables
<1>8. ASSUME NEW u \in Users, NEW a \in Apps, AdminSubscribe(u, a) \/ AdminUnsubscribe(u, a)
      PROVE  UNCHANGED rows
    BY <1>8 DEF AdminSubscribe, AdminUnsubscribe
<1>9. ASSUME NEW u \in Users, NEW r \in Grades, PatchUser(u, r)
      PROVE  UNCHANGED rows
    BY <1>9 DEF PatchUser
<1>10. ASSUME NEW a \in Apps, NEW s \in AppStates, SetApp(a, s)
       PROVE  UNCHANGED rows
    BY <1>10 DEF SetApp
<1> QED BY <1>2, <1>3, <1>4, <1>5, <1>6, <1>7, <1>8, <1>9, <1>10 DEF Next, Poller, Admin

\* The tokens, and what they have linked.
LEMMA TokensType ==
    ASSUME Types, [Next]_vars
    PROVE  /\ minted' \in 0..MaxTokens /\ pending' \subseteq 1..minted' /\ expired' \subseteq 1..minted'
           /\ owner' \in [Tokens -> Users \union {None}]
           /\ linked' \in [Users -> SUBSET Chats] /\ spent' \in [Tokens -> SUBSET Chats]
<1>1. /\ minted \in 0..MaxTokens /\ pending \subseteq 1..minted /\ expired \subseteq 1..minted
      /\ owner \in [Tokens -> Users \union {None}] /\ queue \in Seq(Updates) /\ MaxTokens \in Nat
      /\ linked \in [Users -> SUBSET Chats] /\ spent \in [Tokens -> SUBSET Chats]
    BY OnboardingAssumption DEF Types, TypeOK
<1>2. CASE UNCHANGED <<minted, pending, expired, owner, linked, spent>>
    BY <1>1, <1>2
<1>3. ASSUME NEW o, issueStartgroupDeeplink(o)
      PROVE  /\ minted' \in 0..MaxTokens /\ pending' \subseteq 1..minted'
             /\ expired \subseteq 1..minted' /\ UNCHANGED <<expired, linked, spent>>
             /\ owner' \in [Tokens -> Users \union {None}]
    <2>1. UNCHANGED <<expired, linked, spent>> /\ job.user \in Users
        BY <1>3 DEF issueStartgroupDeeplink, history, Types, JobTypes
    <2>2. CASE minted' = minted /\ UNCHANGED <<pending, owner>>
        BY <1>1, <2>1, <2>2
    <2>3. CASE /\ minted < MaxTokens /\ minted' = minted + 1 /\ pending' = pending \union {minted + 1}
               /\ owner' = [owner EXCEPT ![minted + 1] = job.user]
        <3>1. owner' \in [Tokens -> Users \union {None}]
            BY <1>1, <2>1, <2>3
        <3>2. minted' \in 0..MaxTokens /\ 1..minted \subseteq 1..minted' /\ minted + 1 \in 1..minted'
            BY <1>1, <2>3
        <3>3. pending' \subseteq 1..minted' /\ expired \subseteq 1..minted'
            BY <1>1, <2>3, <3>2
        <3> QED BY <2>1, <3>1, <3>2, <3>3
    <2> QED BY <1>3, <2>2, <2>3 DEF issueStartgroupDeeplink, IssueToken
<1>4. ASSUME NEW o, ConsumeToken(o)
      PROVE  pending' \subseteq pending /\ UNCHANGED <<minted, expired, owner, linked, spent>>
    BY <1>4 DEF ConsumeToken, history
<1>5. ASSUME NEW o, LinkSupergroup(o)
      PROVE  /\ linked' \in [Users -> SUBSET Chats] /\ spent' \in [Tokens -> SUBSET Chats]
             /\ UNCHANGED <<minted, pending, expired, owner>>
    <2>1. job.chat \in Chats
        BY <1>5 DEF LinkSupergroup, Types, JobTypes
    <2> QED BY <1>1, <1>5, <2>1 DEF LinkSupergroup
<1>6. ASSUME NEW t \in Tokens, Expire(t)
      PROVE  expired' \subseteq 1..minted /\ UNCHANGED <<minted, pending, owner, linked, spent>>
    BY <1>1, <1>6 DEF Expire, history
<1>7. ASSUME NEW o, \/ handleStart(o) \/ handleAgree(o) \/ Promote(o) \/ Intrusion(o) \/ List(o)
                    \/ CreateForumTopic(o) \/ Add(o) \/ toggleOn(o) \/ SubscribeRow(o) \/ toggleOff(o)
                    \/ CloseForumTopic(o) \/ Remove(o) \/ UnsubscribeRow(o)
      PROVE  UNCHANGED <<minted, pending, expired, owner, linked, spent>>
    BY <1>7 DEF handleStart, handleAgree, Promote, Intrusion, List, CreateForumTopic, Add, toggleOn,
        SubscribeRow, toggleOff, CloseForumTopic, Remove, UnsubscribeRow, tables, history
<1>8. list \/ Admin \/ Restart \/ UNCHANGED vars =>
          UNCHANGED <<minted, pending, expired, owner, linked, spent>>
    BY DEF list, Admin, AdminSubscribe, AdminUnsubscribe, PatchUser, SetApp, PurgeApp, Restart, vars,
        tables, history
<1>9. ASSUME Telegram, ~\E t \in Tokens : Expire(t)
      PROVE  UNCHANGED <<minted, pending, expired, owner, linked, spent>>
    BY <1>9 DEF Telegram, SendCommand, SetRights, PresentToken, Join, tables, history
<1> QED BY <1>1, <1>2, <1>3, <1>4, <1>5, <1>6, <1>7, <1>8, <1>9 DEF Next, Poller

\* Telegram's side.
LEMMA ChatType ==
    ASSUME Types, [Next]_vars
    PROVE  /\ rights' \in [Chats -> Rights] /\ banned' \subseteq Chats \X Users
           /\ threads' \in [Chats -> Seq(Topic)] /\ \A c \in Chats : Len(threads'[c]) <= MaxThreads
<1>1. /\ rights \in [Chats -> Rights] /\ banned \subseteq Chats \X Users
      /\ threads \in [Chats -> Seq(Topic)] /\ \A c \in Chats : Len(threads[c]) <= MaxThreads
      /\ queue \in Seq(Updates) /\ MaxThreads \in Nat /\ Apps \subseteq Nat
    BY OnboardingAssumption DEF Types, TypeOK
<1>2. CASE UNCHANGED <<rights, banned, threads>>
    BY <1>1, <1>2
<1>3. ASSUME NEW o, Intrusion(o)
      PROVE  banned' \subseteq Chats \X Users /\ UNCHANGED <<rights, threads>>
    <2>1. last'.chat \in Chats /\ last'.user \in Users
        BY <1>1, <1>3, TakesHead, UpdateFields DEF Intrusion
    <2> QED BY <1>1, <1>3, <2>1 DEF Intrusion
<1>4. ASSUME NEW o, CreateForumTopic(o)
      PROVE  /\ threads' \in [Chats -> Seq(Topic)] /\ UNCHANGED <<rights, banned>>
             /\ \A c \in Chats : Len(threads'[c]) <= MaxThreads
    <2>1. PICK c, a : c = job.chat /\ a = Min(job.todo)
        OBVIOUS
    <2>2. c \in Chats /\ a \in Apps
        BY <1>1, <1>4, <2>1, MinIn DEF CreateForumTopic, Types, JobTypes, Provisioning
    <2>3. \/ threads' = threads
          \/ /\ Len(threads[c]) < MaxThreads
             /\ threads' = [threads EXCEPT ![c] = Append(threads[c], [app |-> a, open |-> TRUE])]
        BY <1>4, <2>1 DEF CreateForumTopic
    <2>4. [app |-> a, open |-> TRUE] \in Topic
        BY <2>2 DEF Topic
    <2>5. PICK s : s = Append(threads[c], [app |-> a, open |-> TRUE])
        OBVIOUS
    <2>6. s \in Seq(Topic) /\ Len(s) = Len(threads[c]) + 1 /\ Len(threads[c]) \in Nat
        BY <1>1, <2>2, <2>4, <2>5, AppendProperties
    <2>7. UNCHANGED <<rights, banned>>
        BY <1>4 DEF CreateForumTopic
    <2>8. CASE threads' = threads
        BY <1>1, <2>7, <2>8
    <2>9. CASE Len(threads[c]) < MaxThreads /\ threads' = [threads EXCEPT ![c] = s]
        <3>1. Len(s) <= MaxThreads
            BY <1>1, <2>6, <2>9
        <3>2. threads'[c] = s /\ \A x \in Chats \ {c} : threads'[x] = threads[x]
            BY <1>1, <2>2, <2>9
        <3> QED BY <1>1, <2>2, <2>6, <2>7, <2>9, <3>1, <3>2
    <2> QED BY <2>3, <2>5, <2>8, <2>9
<1>5. ASSUME NEW o, CloseForumTopic(o)
      PROVE  /\ threads' \in [Chats -> Seq(Topic)] /\ UNCHANGED <<rights, banned>>
             /\ \A c \in Chats : Len(threads'[c]) <= MaxThreads
    <2>1. PICK c, n : c = job.chat /\ n = job.thread
        OBVIOUS
    <2>2. c \in Chats /\ UNCHANGED <<rights, banned>>
        BY <1>5, <2>1 DEF CloseForumTopic, Types, JobTypes, Closing
    <2>3. CASE threads' = threads
        BY <1>1, <2>2, <2>3
    <2>4. CASE threads' # threads
        <3>1. n \in DOMAIN threads[c] /\ threads' = [threads EXCEPT ![c][n].open = FALSE]
            BY <1>5, <2>1, <2>4 DEF CloseForumTopic
        <3>2. PICK s, x : s = threads[c] /\ x = [s[n] EXCEPT !.open = FALSE]
            OBVIOUS
        <3>3. s \in Seq(Topic) /\ n \in 1..Len(s) /\ s[n] \in Topic
            BY <1>1, <2>2, <3>1, <3>2, ElementOfSeq
        <3>4. x \in Topic
            BY <3>2, <3>3 DEF Topic
        <3>5. PICK z : z = [s EXCEPT ![n] = x]
            OBVIOUS
        <3>6. z \in Seq(Topic) /\ Len(z) = Len(s)
            BY <3>3, <3>4, <3>5, ExceptSeq
        <3>7. threads' = [threads EXCEPT ![c] = z]
            BY <1>1, <3>1, <3>2, <3>5
        <3> QED BY <1>1, <2>2, <3>2, <3>6, <3>7
    <2> QED BY <2>3, <2>4
<1>6. ASSUME NEW c \in Chats, NEW r \in Rights, SetRights(c, r)
      PROVE  rights' \in [Chats -> Rights] /\ UNCHANGED <<banned, threads>>
    BY <1>1, <1>6 DEF SetRights
<1>7. ASSUME NEW o, \/ handleStart(o) \/ handleAgree(o) \/ issueStartgroupDeeplink(o)
                    \/ ConsumeToken(o) \/ LinkSupergroup(o) \/ Promote(o) \/ List(o) \/ Add(o)
                    \/ toggleOn(o) \/ SubscribeRow(o) \/ toggleOff(o) \/ Remove(o)
                    \/ UnsubscribeRow(o)
      PROVE  UNCHANGED <<rights, banned, threads>>
    BY <1>7 DEF handleStart, handleAgree, issueStartgroupDeeplink, ConsumeToken, LinkSupergroup,
        Promote, List, Add, toggleOn, SubscribeRow, toggleOff, Remove, UnsubscribeRow, chat
<1>8. list \/ Admin \/ Restart \/ UNCHANGED vars => UNCHANGED <<rights, banned, threads>>
    BY DEF list, Admin, AdminSubscribe, AdminUnsubscribe, PatchUser, SetApp, PurgeApp, Restart, vars,
        chat
<1>9. ASSUME Telegram, ~\E c \in Chats, r \in Rights : SetRights(c, r)
      PROVE  UNCHANGED <<rights, banned, threads>>
    BY <1>9 DEF Telegram, SendCommand, PresentToken, Join, Expire, chat
<1> QED BY <1>1, <1>2, <1>3, <1>4, <1>5, <1>6, <1>7, <1>8, <1>9 DEF Next, Poller

\* The steps a handler begins with, and its later ones.
Beginning(o) ==
    \/ handleStart(o) \/ handleAgree(o) \/ ConsumeToken(o) \/ Promote(o) \/ Intrusion(o)
    \/ toggleOn(o) \/ toggleOff(o)

Continuing(o) ==
    \/ issueStartgroupDeeplink(o) \/ LinkSupergroup(o) \/ List(o) \/ CreateForumTopic(o) \/ Add(o)
    \/ SubscribeRow(o) \/ CloseForumTopic(o) \/ Remove(o) \/ UnsubscribeRow(o)

\* The steps of the poller's handlers, one by one.
LEMMA PollerSteps ==
    Poller => list \/ \E o \in Outcomes : Beginning(o) \/ Continuing(o)
    BY DEF Poller, Beginning, Continuing

\* An update is added; one about the bot's rights tells them as they are.
Sent(m) ==
    /\ queue' = Append(queue, m)
    /\ IF m.kind = "my_chat_member" THEN rights' = [rights EXCEPT ![m.chat] = m.status]
                                    ELSE rights' = rights

\* Whatever happens to the queue: nothing, an update is taken, by the handler of
\* its kind, one is added at the end, or the server is restarted.
LEMMA QueueMoves ==
    ASSUME [Next]_vars
    PROVE  \/ UNCHANGED <<queue, last>>
           \/ \E k : Takes(k) /\ (k = "my_chat_member" => \E o \in Outcomes : Promote(o))
           \/ last' = last /\ \E m \in Updates : Sent(m)
           \/ Restart
<1>1. ASSUME NEW o \in Outcomes, Beginning(o)
      PROVE  \E k : Takes(k) /\ (k = "my_chat_member" => \E x \in Outcomes : Promote(x))
    <2>1. CASE Promote(o)
        BY <2>1 DEF Promote
    <2>2. CASE ~Promote(o)
        <3>1. \E k \in {"/start", "/agree", "token", "chat_member", "/subscribe", "/unsubscribe"} : Takes(k)
            BY <1>1, <2>2 DEF Beginning, handleStart, handleAgree, ConsumeToken, Intrusion, toggleOn, toggleOff
        <3> QED BY <3>1
    <2> QED BY <2>1, <2>2
<1>2. list => Takes("/apps")
    BY DEF list
<1>3. ASSUME NEW o, Continuing(o) PROVE UNCHANGED <<queue, last>>
    BY <1>3 DEF Continuing, issueStartgroupDeeplink, LinkSupergroup, SubscribeRow, List,
        CreateForumTopic, Add, CloseForumTopic, Remove, UnsubscribeRow
<1>4. Admin \/ UNCHANGED vars => UNCHANGED <<queue, last>>
    BY DEF Admin, AdminSubscribe, AdminUnsubscribe, PatchUser, SetApp, PurgeApp, vars
<1>5. ASSUME Telegram
      PROVE  \/ UNCHANGED <<queue, last>>
             \/ last' = last /\ \E m \in Updates : Sent(m)
    <2>1. ASSUME NEW m \in Commands, SendCommand(m)
          PROVE  last' = last /\ m \in Updates /\ Sent(m)
        <3>1. m.kind # "my_chat_member" /\ m \in Updates
            BY CommandsAssumption DEF UserCommands, Command, Choice, Updates
        <3> QED BY <2>1, <3>1 DEF SendCommand, Deliver, Sent, chat
    <2>2. ASSUME NEW c \in Chats, NEW r \in Rights, SetRights(c, r)
          PROVE  last' = last /\ MyChatMember(c, r) \in Updates /\ Sent(MyChatMember(c, r))
        BY <2>2 DEF SetRights, Deliver, Updates, Sent, MyChatMember
    <2>3. ASSUME NEW c \in Chats, NEW t \in Tokens, PresentToken(c, t)
          PROVE  last' = last /\ Token(c, t) \in Updates /\ Sent(Token(c, t))
        BY <2>3 DEF PresentToken, Deliver, Updates, Sent, Token, chat
    <2>4. ASSUME NEW c \in Chats, NEW u \in Joiners, Join(c, u)
          PROVE  last' = last /\ ChatMember(c, u) \in Updates /\ Sent(ChatMember(c, u))
        BY <2>4, OnboardingAssumption DEF Join, Deliver, Updates, Sent, ChatMember, chat
    <2>5. ASSUME NEW t \in Tokens, Expire(t) PROVE UNCHANGED <<queue, last>>
        BY <2>5 DEF Expire
    <2> QED BY <1>5, <2>1, <2>2, <2>3, <2>4, <2>5 DEF Telegram
<1>6. list => \E k : Takes(k) /\ (k = "my_chat_member" => \E o \in Outcomes : Promote(o))
    <2>1. "/apps" # "my_chat_member"
        OBVIOUS
    <2> QED BY <1>2, <2>1
<1> QED BY <1>1, <1>3, <1>4, <1>5, <1>6, PollerSteps DEF Next

\* A restart drops updates from the front, or puts the last one back there.
LEMMA RestartQueue ==
    ASSUME Types, Restart
    PROVE  /\ last' = NoUpdate /\ job' = Idle
           /\ \/ \E k \in 0..Len(queue) :
                    /\ Len(queue') = Len(queue) - k /\ queue' \in Seq(Updates)
                    /\ \A i \in 1..Len(queue') : queue'[i] = queue[i + k]
                    /\ \A i \in 1..k : queue[i].kind = "my_chat_member" => queue[i].chat \in missed'
                    /\ missed \subseteq missed' /\ missed' \subseteq Chats
              \/ /\ last \in Updates /\ missed' = missed
                 /\ Len(queue') = Len(queue) + 1 /\ queue' \in Seq(Updates)
                 /\ queue'[1] = last /\ \A i \in 1..Len(queue) : queue'[i + 1] = queue[i]
<1>1. queue \in Seq(Updates) /\ last \in Updates \union {NoUpdate} /\ missed \subseteq Chats
    BY DEF Types, TypeOK
<1>2. last' = NoUpdate /\ job' = Idle
    BY DEF Restart
<1>3. ASSUME NEW k \in 0..Len(queue), queue' = SubSeq(queue, k + 1, Len(queue)),
             missed' = missed \union MyChats(SubSeq(queue, 1, k))
      PROVE  /\ Len(queue') = Len(queue) - k /\ queue' \in Seq(Updates)
             /\ \A i \in 1..Len(queue') : queue'[i] = queue[i + k]
             /\ \A i \in 1..k : queue[i].kind = "my_chat_member" => queue[i].chat \in missed'
             /\ missed \subseteq missed' /\ missed' \subseteq Chats
    <2>1. Len(queue) \in Nat /\ k \in Nat /\ k <= Len(queue)
        BY <1>1
    <2>2. /\ Len(queue') = Len(queue) - k /\ queue' \in Seq(Updates)
          /\ \A i \in 1..Len(queue') : queue'[i] = queue[i + k]
        BY <1>1, <1>3, <2>1
    <2>3. PICK s : s = SubSeq(queue, 1, k)
        OBVIOUS
    <2>4. s \in Seq(Updates) /\ Len(s) = k /\ \A i \in 1..k : s[i] = queue[i]
        BY <1>1, <2>1, <2>3
    <2>5. DOMAIN s = 1..k /\ \A i \in 1..k : s[i] \in Updates
        BY <2>1, <2>4
    <2>6. MyChats(s) \subseteq Chats
        BY <2>5, UpdateFields DEF MyChats
    <2>7. \A i \in 1..k : queue[i].kind = "my_chat_member" => queue[i].chat \in MyChats(s)
        BY <2>4, <2>5 DEF MyChats
    <2> QED BY <1>1, <1>3, <2>2, <2>3, <2>6, <2>7
<1>4. ASSUME last # NoUpdate, queue' = <<last>> \o queue
      PROVE  /\ last \in Updates /\ Len(queue') = Len(queue) + 1 /\ queue' \in Seq(Updates)
             /\ queue'[1] = last /\ \A i \in 1..Len(queue) : queue'[i + 1] = queue[i]
    <2>1. last \in Updates
        BY <1>1, <1>4
    <2>2. PICK s : s = <<last>>
        OBVIOUS
    <2>3. s \in Seq(Updates) /\ Len(s) = 1 /\ s[1] = last
        BY <2>1, <2>2
    <2>4. /\ queue' \in Seq(Updates) /\ Len(queue') = Len(s) + Len(queue)
          /\ \A i \in 1..(Len(s) + Len(queue)) :
                queue'[i] = IF i <= Len(s) THEN s[i] ELSE queue[i - Len(s)]
        BY <1>1, <1>4, <2>2, <2>3, ConcatProperties
    <2>5. Len(queue) \in Nat
        BY <1>1
    <2>6. queue'[1] = last /\ \A i \in 1..Len(queue) : queue'[i + 1] = queue[i]
        BY <2>3, <2>4, <2>5
    <2> QED BY <2>1, <2>3, <2>4, <2>5, <2>6
<1> QED BY <1>2, <1>3, <1>4 DEF Restart

\* The queue, and what was missed.
LEMMA QueueType ==
    ASSUME Types, [Next]_vars
    PROVE  /\ queue' \in Seq(Updates) /\ last' \in Updates \union {NoUpdate}
           /\ faults' \in 0..MaxFaults /\ missed' \subseteq Chats
<1>1. /\ queue \in Seq(Updates) /\ last \in Updates \union {NoUpdate} /\ missed \subseteq Chats
      /\ faults \in 0..MaxFaults /\ MaxFaults \in Nat
    BY OnboardingAssumption DEF Types, TypeOK
<1>2. queue' \in Seq(Updates) /\ last' \in Updates \union {NoUpdate}
    <2>1. CASE UNCHANGED <<queue, last>>
        BY <1>1, <2>1
    <2>2. CASE \E k : Takes(k)
        BY <1>1, <2>2, TakesHead
    <2>3. ASSUME NEW m \in Updates, last' = last, Sent(m)
          PROVE  queue' \in Seq(Updates) /\ last' \in Updates \union {NoUpdate}
        BY <1>1, <2>3 DEF Sent
    <2>4. CASE Restart
        BY <2>4, RestartQueue
    <2> QED BY <2>1, <2>2, <2>3, <2>4, QueueMoves
<1>3. faults' \in 0..MaxFaults
    <2>1. ASSUME NEW o, Outcome(o) PROVE faults' \in 0..MaxFaults
        BY <1>1, <2>1 DEF Outcome
    <2>2. ASSUME NEW o, Beginning(o) \/ Continuing(o) PROVE Outcome(o)
        BY <2>2 DEF Beginning, Continuing, handleStart, handleAgree, ConsumeToken, Promote,
            Intrusion, toggleOn, SubscribeRow, toggleOff, issueStartgroupDeeplink, LinkSupergroup,
            List, CreateForumTopic, Add, CloseForumTopic, Remove, UnsubscribeRow
    <2>3. Restart => faults' \in 0..MaxFaults
        BY <1>1 DEF Restart
    <2>4. list \/ Admin \/ Telegram \/ UNCHANGED vars => faults' = faults
        BY DEF list, Admin, AdminSubscribe, AdminUnsubscribe, PatchUser, SetApp, PurgeApp, Telegram,
            SendCommand, SetRights, PresentToken, Join, Expire, vars
    <2> QED BY <1>1, <2>1, <2>2, <2>3, <2>4, PollerSteps DEF Next
<1>4. missed' \subseteq Chats
    <2>1. ASSUME NEW o, Promote(o) PROVE missed' \subseteq Chats
        <3>1. last'.chat \in Chats
            BY <1>1, <2>1, TakesHead, UpdateFields DEF Promote
        <3> QED BY <1>1, <2>1, <3>1 DEF Promote
    <2>2. ASSUME NEW o, Beginning(o) \/ Continuing(o), ~Promote(o) PROVE missed' = missed
        BY <2>2 DEF Beginning, Continuing, handleStart, handleAgree, ConsumeToken, Intrusion,
            toggleOn, SubscribeRow, toggleOff, issueStartgroupDeeplink, LinkSupergroup, List,
            CreateForumTopic, Add, CloseForumTopic, Remove, UnsubscribeRow, history
    <2>3. Restart => missed' \subseteq Chats
        BY <1>1, RestartQueue
    <2>4. list \/ Admin \/ Telegram \/ UNCHANGED vars => missed' = missed
        BY DEF list, Admin, AdminSubscribe, AdminUnsubscribe, PatchUser, SetApp, PurgeApp, Telegram,
            SendCommand, SetRights, PresentToken, Join, Expire, vars, history
    <2> QED BY <1>1, <2>1, <2>2, <2>3, <2>4, PollerSteps DEF Next
<1> QED BY <1>2, <1>3, <1>4

\* What is left of the handler.
LEMMA JobType ==
    ASSUME Types, [Next]_vars
    PROVE  /\ JobTypes'
           /\ job'.pc \in {"idle", "issue", "link", "subscribe"} \union Provisioning \union Closing
<1> DEFINE Good == /\ JobTypes'
                   /\ job'.pc \in {"idle", "issue", "link", "subscribe"} \union Provisioning \union Closing
<1>1. /\ queue \in Seq(Updates) /\ users \in [Users -> Row] /\ Apps \subseteq Nat
      /\ rows \in [Users -> [Apps -> 0..MaxThreads]] /\ threads \in [Chats -> Seq(Topic)]
      /\ MaxThreads \in Nat /\ owner \in [Tokens -> Users \union {None}]
    BY OnboardingAssumption DEF Types, TypeOK
<1>2. UNCHANGED <<job, last>> => Good
    BY DEF Types, TypeOK, JobTypes, Provisioning, Closing
<1>3. job' = Idle => Good
    BY DEF JobTypes, Idle, Provisioning, Closing
<1>4. ASSUME NEW u \in Users, NEW c \in Chats, job' = Job("list", u, c) PROVE Good
    BY <1>4 DEF Job, JobTypes, Provisioning, Closing
<1>5. ASSUME NEW u \in Users, NEW c \in Chats, NEW S, S \subseteq Apps, job' = Provision(u, c, S) PROVE Good
    <2>1. CASE S = {}
        BY <1>3, <1>5, <2>1 DEF Provision
    <2>2. CASE S # {}
        BY <1>5, <2>2 DEF Provision, JobTypes, Provisioning, Closing
    <2> QED BY <2>1, <2>2
<1>6. ASSUME NEW o, handleStart(o) \/ handleAgree(o) PROVE Good
    <2>1. PICK u \in Users : job' \in {Idle, Job("issue", u, None)}
        BY <1>1, <1>6, TakesHead, UpdateFields DEF handleStart, handleAgree, Next1
    <2>2. job' = Job("issue", u, None) => Good
        BY DEF Job, JobTypes, Provisioning, Closing
    <2> QED BY <1>3, <2>1, <2>2
<1>7. ASSUME NEW o, ConsumeToken(o) PROVE Good
    <2>1. PICK t : t = last'.token
        OBVIOUS
    <2>2. last'.chat \in Chats /\ t \in Tokens /\ last'.kind = "token"
        BY <1>1, <1>7, <2>1, TakesHead, UpdateFields DEF ConsumeToken
    <2>3. job' = Idle \/ (t \in pending /\ job' = Job("link", owner[t], last'.chat))
        BY <1>7, <2>1 DEF ConsumeToken, Next1, Redeems
    <2>4. ASSUME t \in pending, job' = Job("link", owner[t], last'.chat) PROVE Good
        <3>1. owner[t] \in Users
            BY <2>4 DEF Types, GoodOwners
        <3> QED BY <2>2, <2>4, <3>1 DEF Job, JobTypes, Provisioning, Closing
    <2> QED BY <1>3, <2>3, <2>4
<1>8. ASSUME NEW o, Promote(o) PROVE Good
    <2>1. last'.chat \in Chats
        BY <1>1, <1>8, TakesHead, UpdateFields DEF Promote
    <2>2. job' = Idle \/ \E u \in Users : job' = Job("list", u, last'.chat)
        BY <1>8 DEF Promote, Next1, FindUserByChatID
    <2> QED BY <1>3, <1>4, <2>1, <2>2
<1>9. ASSUME NEW o, toggleOn(o) \/ SubscribeRow(o) PROVE Good
    <2>1. CASE toggleOn(o)
        <3>1. PICK u \in Users, a \in Apps :
                  job' = Idle \/ job' = [pc |-> "subscribe", user |-> u, app |-> a]
            BY <1>1, <2>1, TakesHead, UpdateFields DEF toggleOn, Next1
        <3>2. job' = [pc |-> "subscribe", user |-> u, app |-> a] => Good
            BY DEF JobTypes, Provisioning, Closing
        <3> QED BY <1>3, <3>1, <3>2
    <2>2. CASE SubscribeRow(o)
        <3>1. PICK u \in Users : job' = Idle \/ (Ready(u) /\ job' = Job("list", u, users[u].link))
            BY <2>2 DEF SubscribeRow, Next1, AfterSubscribe, Types, JobTypes
        <3>2. Ready(u) => users[u].link \in Chats
            BY <1>1 DEF Ready, Row
        <3> QED BY <1>3, <1>4, <3>1, <3>2
    <2> QED BY <1>9, <2>1, <2>2
<1>10. ASSUME NEW o, toggleOff(o) PROVE Good
    <2>1. PICK u \in Users, a \in Apps : u = last'.user /\ a = last'.app
        BY <1>1, <1>10, TakesHead, UpdateFields DEF toggleOff
    <2>2. \/ job' = Idle
          \/ \E p \in {"close", "unsubscribe"} :
                /\ p = "close" => Ready(u)
                /\ job' = [pc |-> p, user |-> u, chat |-> users[u].link, app |-> a, thread |-> rows[u][a]]
        BY <1>10, <2>1 DEF toggleOff
    <2>3. ASSUME NEW p \in {"close", "unsubscribe"}, p = "close" => Ready(u),
                 job' = [pc |-> p, user |-> u, chat |-> users[u].link, app |-> a, thread |-> rows[u][a]]
          PROVE  Good
        <3>1. Ready(u) => users[u].link \in Chats
            BY <1>1 DEF Ready, Row
        <3>2. /\ job'.pc = p /\ job'.user = u /\ job'.chat = users[u].link /\ job'.app = a
              /\ job' = [pc |-> job'.pc, user |-> job'.user, chat |-> job'.chat, app |-> job'.app,
                         thread |-> job'.thread]
            BY <2>3
        <3> QED BY <2>3, <3>1, <3>2 DEF JobTypes, Provisioning, Closing
    <2> QED BY <1>3, <2>2, <2>3
<1>11. ASSUME NEW o, \/ Intrusion(o) \/ issueStartgroupDeeplink(o) \/ LinkSupergroup(o)
                     \/ UnsubscribeRow(o) \/ list \/ Restart
       PROVE  Good
    BY <1>3, <1>11 DEF Intrusion, issueStartgroupDeeplink, LinkSupergroup, UnsubscribeRow, list, Restart
<1>12. ASSUME NEW o, List(o) PROVE Good
    <2>1. job.user \in Users /\ job.chat \in Chats
        BY <1>12 DEF List, Types, JobTypes, Provisioning
    <2>2. job' = Idle \/ job' = Provision(job.user, job.chat, ListSubscribedAppsWithoutTopic(job.user))
        BY <1>12 DEF List, Next1
    <2>3. ListSubscribedAppsWithoutTopic(job.user) \subseteq Apps
        BY DEF ListSubscribedAppsWithoutTopic
    <2> QED BY <1>3, <1>5, <2>1, <2>2, <2>3
<1>13. ASSUME NEW o, CreateForumTopic(o) PROVE Good
    <2>1. PICK u, c, S : u = job.user /\ c = job.chat /\ S = job.todo
        OBVIOUS
    <2>2. u \in Users /\ c \in Chats /\ S \subseteq Apps /\ S # {}
        BY <1>13, <2>1 DEF CreateForumTopic, Types, JobTypes, Provisioning
    <2>3. \/ job' = Provision(u, c, S \ {Min(S)})
          \/ /\ Len(threads[c]) < MaxThreads
             /\ job' = [pc |-> "add", user |-> u, chat |-> c, todo |-> S, thread |-> Len(threads[c]) + 1]
        BY <1>13, <2>1 DEF CreateForumTopic
    <2>4. Len(threads[c]) \in Nat
        BY <1>1, <2>2
    <2>5. ASSUME Len(threads[c]) < MaxThreads,
                 job' = [pc |-> "add", user |-> u, chat |-> c, todo |-> S, thread |-> Len(threads[c]) + 1]
          PROVE  Good
        <3>1. Len(threads[c]) + 1 \in 1..MaxThreads
            BY <1>1, <2>4, <2>5
        <3> QED BY <2>2, <2>5, <3>1 DEF JobTypes, Provisioning, Closing
    <2> QED BY <1>5, <2>2, <2>3, <2>5
<1>14. ASSUME NEW o, Add(o) PROVE Good
    <2>1. PICK u, c, S : u = job.user /\ c = job.chat /\ S = job.todo
        OBVIOUS
    <2>2. u \in Users /\ c \in Chats /\ S \subseteq Apps
        BY <1>14, <2>1 DEF Add, Types, JobTypes, Provisioning
    <2>3. job' = Provision(u, c, S \ {Min(S)})
        BY <1>14, <2>1 DEF Add
    <2> QED BY <1>5, <2>2, <2>3
<1>15. ASSUME NEW o, CloseForumTopic(o) \/ Remove(o) PROVE Good
    <2>1. PICK p \in {"remove", "unsubscribe"} : job' = [job EXCEPT !.pc = p]
        BY <1>15 DEF CloseForumTopic, Remove
    <2>2. PICK u, c, a, n : u = job.user /\ c = job.chat /\ a = job.app /\ n = job.thread
        OBVIOUS
    <2>3. /\ job.pc \in {"close", "remove"} /\ u \in Users /\ c \in Chats /\ a \in Apps
          /\ job = [pc |-> job.pc, user |-> u, chat |-> c, app |-> a, thread |-> n]
        BY <1>15, <2>2 DEF CloseForumTopic, Remove, Types, JobTypes, Closing
    <2>4. job' = [pc |-> p, user |-> u, chat |-> c, app |-> a, thread |-> n]
        BY <2>1, <2>3
    <2> QED BY <2>3, <2>4 DEF JobTypes, Provisioning, Closing
<1>16. Admin \/ Telegram \/ UNCHANGED vars => UNCHANGED <<job, last>>
    BY DEF Admin, AdminSubscribe, AdminUnsubscribe, PatchUser, SetApp, PurgeApp, Telegram,
        SendCommand, SetRights, PresentToken, Join, Expire, vars
<1>17. Good
    <2> HIDE DEF Good
    <2> QED BY <1>2, <1>6, <1>7, <1>8, <1>9, <1>10, <1>11, <1>12, <1>13, <1>14, <1>15, <1>16
            DEF Next, Poller
<1> QED BY <1>17

\* Every step keeps the tokens' owners.
LEMMA OwnersNext ==
    ASSUME Types, [Next]_vars
    PROVE  GoodOwners'
<1>1. /\ GoodOwners /\ minted \in 0..MaxTokens /\ pending \subseteq 1..minted /\ MaxTokens \in Nat
      /\ owner \in [Tokens -> Users \union {None}]
    BY OnboardingAssumption DEF Types, TypeOK
<1>2. CASE pending' \subseteq pending /\ owner' = owner
    BY <1>1, <1>2 DEF GoodOwners
<1>3. ASSUME NEW o, issueStartgroupDeeplink(o) PROVE GoodOwners'
    <2>1. job.user \in Users
        BY <1>3 DEF issueStartgroupDeeplink, Types, JobTypes
    <2>2. CASE minted < MaxTokens /\ pending' = pending \union {minted + 1}
               /\ owner' = [owner EXCEPT ![minted + 1] = job.user]
        <3>1. minted + 1 \in Tokens /\ minted + 1 \notin pending
            BY <1>1, <2>2 DEF Tokens
        <3>2. owner'[minted + 1] = job.user /\ \A t \in pending : owner'[t] = owner[t]
            BY <1>1, <2>2, <3>1
        <3> QED BY <1>1, <2>1, <2>2, <3>2 DEF GoodOwners
    <2> QED BY <1>2, <1>3, <2>2 DEF issueStartgroupDeeplink, IssueToken
<1>4. ASSUME NEW o, Beginning(o) \/ Continuing(o), ~issueStartgroupDeeplink(o)
      PROVE  pending' \subseteq pending /\ owner' = owner
    BY <1>4 DEF Beginning, Continuing, handleStart, handleAgree, ConsumeToken, Promote, Intrusion,
        toggleOn, SubscribeRow, toggleOff, LinkSupergroup, List, CreateForumTopic, Add,
        CloseForumTopic, Remove, UnsubscribeRow, tables
<1>5. list \/ Admin \/ Telegram \/ Restart \/ UNCHANGED vars => UNCHANGED <<pending, owner>>
    BY DEF list, Admin, AdminSubscribe, AdminUnsubscribe, PatchUser, SetApp, PurgeApp, Telegram,
        SendCommand, SetRights, PresentToken, Join, Expire, Restart, vars, tables
<1> QED BY <1>2, <1>3, <1>4, <1>5, PollerSteps DEF Next

\* Every step keeps the types.
LEMMA TypesNext ==
    ASSUME Types, [Next]_vars
    PROVE  Types'
<1>1. \A c \in Chats : \A n \in DOMAIN threads'[c] : threads'[c][n].app \in Apps
    <2> SUFFICES ASSUME NEW c \in Chats, NEW n \in DOMAIN threads'[c]
                 PROVE  threads'[c][n].app \in Apps
        OBVIOUS
    <2>1. PICK s \in Seq(Topic) : s = threads'[c]
        BY ChatType
    <2>2. s[n] \in Topic
        BY <2>1, ElementOfSeq
    <2> QED BY <2>1, <2>2 DEF Topic
<1>2. \A c \in Chats : Len(threads'[c]) <= MaxThreads
    BY ChatType
<1>3. TypeOK'
    BY <1>1, <1>2, UsersType, TablesType, RowsType, TokensType, ChatType, QueueType, JobType
        DEF TypeOK, Provisioning, Closing
<1> QED BY <1>3, ChatType, JobType, OwnersNext DEF Types

\* The bot starts with them.
LEMMA TypesInit ==
    ASSUME Init
    PROVE  Types
<1>1. users \in [Users -> Row]
    BY DEF Init, Row
<1>2. rows \in [Users -> [Apps -> 0..MaxThreads]]
    BY OnboardingAssumption DEF Init
<1>3. threads \in [Chats -> Seq(Topic)] /\ \A c \in Chats : threads[c] = <<>>
    BY DEF Init
<1>4. \A c \in Chats : Len(threads[c]) <= MaxThreads /\ DOMAIN threads[c] = {}
    BY <1>3, OnboardingAssumption
<1>5. queue \in Seq(Updates)
    BY DEF Init
<1>6. JobTypes /\ job.pc = "idle"
    BY DEF Init, Idle, JobTypes, Provisioning, Closing
<1>7. TypeOK
    <2>1. minted \in 0..MaxTokens /\ faults \in 0..MaxFaults
        BY OnboardingAssumption DEF Init
    <2>2. /\ linked \in [Users -> SUBSET Chats] /\ spent \in [Tokens -> SUBSET Chats]
          /\ owner \in [Tokens -> Users \union {None}] /\ rights \in [Chats -> Rights]
          /\ apps \in [Apps -> AppStates]
        BY DEF Init, Rights, AppStates
    <2>3. last = NoUpdate /\ pending = {} /\ expired = {} /\ subs = {} /\ silent = {} /\ banned = {}
          /\ purged = {} /\ missed = {}
        BY DEF Init
    <2> QED BY <1>1, <1>2, <1>4, <1>5, <1>6, <2>1, <2>2, <2>3 DEF TypeOK
<1> QED BY <1>3, <1>6, <1>7 DEF Init, Types, GoodOwners

-----------------------------------------------------------------------------
(* What steps leave alone. *)

\* The steps of handlers that are not about linking.
Elsewhere(o) ==
    \/ Intrusion(o) \/ List(o) \/ CreateForumTopic(o) \/ Add(o) \/ toggleOn(o) \/ toggleOff(o)
    \/ SubscribeRow(o) \/ CloseForumTopic(o) \/ Remove(o) \/ UnsubscribeRow(o) \/ list

\* Handlers about topics, intruders and lists leave users, tokens and links alone.
LEMMA ElsewhereKeeps ==
    ASSUME Types, NEW o, Elsewhere(o)
    PROVE  /\ UNCHANGED <<users, pending, owner, minted, linked, spent>>
           /\ job'.pc \notin {"issue", "link"}
<1>1. UNCHANGED <<users, pending, owner, minted, linked, spent>>
    BY DEF Elsewhere, Intrusion, List, CreateForumTopic, Add, toggleOn, SubscribeRow, toggleOff,
        CloseForumTopic, Remove, UnsubscribeRow, list, tables, history
<1>2. CASE \/ Intrusion(o) \/ List(o) \/ CreateForumTopic(o) \/ Add(o) \/ toggleOn(o)
           \/ SubscribeRow(o) \/ toggleOff(o) \/ UnsubscribeRow(o) \/ list
    BY <1>1, <1>2 DEF Intrusion, List, CreateForumTopic, Add, toggleOn, SubscribeRow, toggleOff,
        UnsubscribeRow, list, Next1, AfterSubscribe, Provision, Idle, Job
<1>3. CASE CloseForumTopic(o) \/ Remove(o)
    <2>1. PICK p \in {"remove", "unsubscribe"} : job' = [job EXCEPT !.pc = p]
        BY <1>3 DEF CloseForumTopic, Remove
    <2>2. job = [pc |-> job.pc, user |-> job.user, chat |-> job.chat, app |-> job.app,
                 thread |-> job.thread]
        BY <1>3 DEF CloseForumTopic, Remove, Types, JobTypes, Closing
    <2>3. job'.pc = p
        BY <2>1, <2>2
    <2> QED BY <1>1, <2>3
<1> QED BY <1>2, <1>3 DEF Elsewhere

\* What happens outside the poller touches no token, no link and no handler.
LEMMA OutsideKeeps ==
    ASSUME Admin \/ Telegram \/ UNCHANGED vars
    PROVE  UNCHANGED <<pending, owner, minted, linked, spent, job, last, faults, missed>>
    BY DEF Admin, AdminSubscribe, AdminUnsubscribe, PatchUser, SetApp, PurgeApp, Telegram,
        SendCommand, SetRights, PresentToken, Join, Expire, vars, tables, history

-----------------------------------------------------------------------------
(* Consent. *)

\* Nobody takes back his consent, and only a link that is due adds one.
LEMMA ConsentKept ==
    ASSUME Types, Consent,
           \A u \in Users : users[u].agreed => users'[u].agreed,
           \A u \in Users : users'[u].link # None => users[u].link # None \/ users[u].agreed,
           \A t \in pending' : owner'[t] \in Users /\ users[owner'[t]].agreed,
           job'.pc \in {"issue", "link"} => job'.user \in Users /\ users'[job'.user].agreed
    PROVE  Consent'
    BY DEF Consent, ConsentFirst

\* Every step keeps consent first.
LEMMA ConsentNext ==
    ASSUME Types, Consent, [Next]_vars
    PROVE  Consent'
<1>1. /\ users \in [Users -> Row] /\ queue \in Seq(Updates) /\ users' \in [Users -> Row]
      /\ minted \in 0..MaxTokens /\ pending \subseteq 1..minted /\ MaxTokens \in Nat
      /\ owner \in [Tokens -> Users \union {None}]
    BY UsersType, OnboardingAssumption DEF Types, TypeOK
<1>2. \A t \in pending : owner[t] \in Users /\ users[owner[t]].agreed
    BY DEF Types, GoodOwners, Consent, ConsentFirst
<1>3. CASE /\ \A u \in Users : users'[u].agreed = users[u].agreed /\ users'[u].link = users[u].link
           /\ pending' \subseteq pending /\ owner' = owner
           /\ job'.pc \in {"issue", "link"} => job' = job
    BY <1>2, <1>3, ConsentKept DEF Consent, Types, JobTypes
<1>4. ASSUME NEW o, handleStart(o) \/ handleAgree(o) PROVE Consent'
    <2>1. PICK u \in Users : u = last'.user
        BY <1>1, <1>4, TakesHead, UpdateFields DEF handleStart, handleAgree
    <2>2. users' \in {users, UpsertOnStart(u), MarkAgreed(u)}
        BY <1>4, <2>1 DEF handleStart, handleAgree
    <2>3. \A x \in Users : users'[x].link = users[x].link /\ (users[x].agreed => users'[x].agreed)
        BY <1>1, <2>2 DEF UpsertOnStart, MarkAgreed, Row
    <2>4. UNCHANGED <<pending, owner>>
        BY <1>4 DEF handleStart, handleAgree
    <2>5. job' = Idle \/ (job' = Job("issue", u, None) /\ users'[u].agreed)
        <3>1. CASE handleStart(o)
            BY <2>1, <2>3, <3>1 DEF handleStart, Next1
        <3>2. CASE handleAgree(o)
            <4>1. MarkAgreed(u)[u].agreed
                BY <1>1 DEF MarkAgreed, Row
            <4> QED BY <2>1, <3>2, <4>1 DEF handleAgree, Next1, Effective
        <3> QED BY <1>4, <3>1, <3>2
    <2>6. job'.pc \in {"issue", "link"} => job'.user = u /\ users'[u].agreed
        BY <2>5 DEF Idle, Job
    <2> QED BY <1>2, <2>3, <2>4, <2>6, ConsentKept
<1>5. ASSUME NEW o, issueStartgroupDeeplink(o) PROVE Consent'
    <2>1. users' = users /\ job' = Idle /\ job.user \in Users /\ users[job.user].agreed
        BY <1>5 DEF issueStartgroupDeeplink, Types, JobTypes, Consent
    <2>2. CASE UNCHANGED <<pending, owner>>
        BY <1>3, <2>1, <2>2 DEF Idle
    <2>3. CASE minted < MaxTokens /\ pending' = pending \union {minted + 1}
               /\ owner' = [owner EXCEPT ![minted + 1] = job.user]
        <3>1. minted + 1 \in Tokens /\ minted + 1 \notin pending
            BY <1>1, <2>3 DEF Tokens
        <3>2. owner'[minted + 1] = job.user /\ \A t \in pending : owner'[t] = owner[t]
            BY <1>1, <2>3, <3>1
        <3>3. \A t \in pending' : owner'[t] \in Users /\ users[owner'[t]].agreed
            BY <1>2, <2>1, <2>3, <3>2
        <3> QED BY <2>1, <3>3, ConsentKept DEF Idle
    <2> QED BY <1>5, <2>2, <2>3 DEF issueStartgroupDeeplink, IssueToken
<1>6. ASSUME NEW o, ConsumeToken(o) PROVE Consent'
    <2>1. users' = users /\ pending' \subseteq pending /\ owner' = owner
        BY <1>6 DEF ConsumeToken
    <2>2. job' = Idle \/ \E t \in pending : job' = Job("link", owner[t], last'.chat)
        BY <1>6 DEF ConsumeToken, Next1, Redeems
    <2>3. job'.pc \in {"issue", "link"} => job'.user \in Users /\ users[job'.user].agreed
        BY <1>2, <2>2 DEF Idle, Job
    <2> QED BY <1>2, <2>1, <2>3, ConsentKept
<1>7. ASSUME NEW o, LinkSupergroup(o) PROVE Consent'
    <2>1. UNCHANGED <<pending, owner>> /\ job' = Idle /\ job.user \in Users /\ users[job.user].agreed
        BY <1>7 DEF LinkSupergroup, Types, JobTypes, Consent
    <2>2. users' = users \/ users' = [users EXCEPT ![job.user] = LinkedRow(job.user, job.chat)]
        BY <1>7 DEF LinkSupergroup
    <2>3. LinkedRow(job.user, job.chat).agreed = users[job.user].agreed
        BY <1>1, <2>1 DEF LinkedRow, Row
    <2>4. \A u \in Users : /\ users'[u].agreed = users[u].agreed
                           /\ users'[u].link = users[u].link \/ u = job.user
        BY <1>1, <2>2, <2>3
    <2> QED BY <1>2, <2>1, <2>4, ConsentKept DEF Idle
<1>8. ASSUME NEW o, Promote(o) PROVE Consent'
    <2>1. UNCHANGED <<pending, owner>>
        BY <1>8 DEF Promote
    <2>2. users' = users \/ \E u \in Users, b \in BOOLEAN : users' = SetBotIsAdmin(u, b)
        BY <1>8 DEF Promote, FindUserByChatID
    <2>3. \A u \in Users : users'[u].agreed = users[u].agreed /\ users'[u].link = users[u].link
        BY <1>1, <2>2 DEF SetBotIsAdmin, Row
    <2>4. job'.pc \notin {"issue", "link"}
        BY <1>8 DEF Promote, Next1, Idle, Job
    <2> QED BY <1>3, <2>1, <2>3, <2>4
<1>9. ASSUME NEW u \in Users, NEW r \in Grades, PatchUser(u, r) PROVE Consent'
    <2>1. \A x \in Users : users'[x].agreed = users[x].agreed /\ users'[x].link = users[x].link
        BY <1>1, <1>9 DEF PatchUser, Row
    <2> QED BY <1>3, <1>9, <2>1 DEF PatchUser
<1>10. ASSUME NEW o, Elsewhere(o)
       PROVE  UNCHANGED <<users, pending, owner>> /\ job'.pc \notin {"issue", "link"}
    BY <1>10, ElsewhereKeeps
<1>11. (Admin /\ UNCHANGED users) \/ Telegram \/ UNCHANGED vars => UNCHANGED <<users, pending, owner, job>>
    BY DEF Admin, AdminSubscribe, AdminUnsubscribe, PatchUser, SetApp, PurgeApp, Telegram,
        SendCommand, SetRights, PresentToken, Join, Expire, vars, tables
<1>12. Restart => UNCHANGED <<users, pending, owner>> /\ job'.pc \notin {"issue", "link"}
    BY DEF Restart, tables, Idle
<1>13. Admin => UNCHANGED users \/ \E u \in Users, r \in Grades : PatchUser(u, r)
    BY DEF Admin, AdminSubscribe, AdminUnsubscribe, SetApp, PurgeApp
<1> QED BY <1>3, <1>4, <1>5, <1>6, <1>7, <1>8, <1>9, <1>10, <1>11, <1>12, <1>13
        DEF Next, Poller, Elsewhere

-----------------------------------------------------------------------------
(* Tokens. *)

\* Every step keeps spent tokens spent.
LEMMA TokensNext ==
    ASSUME Types, TokensSpent, [Next]_vars
    PROVE  TokensSpent'
<1>1. /\ queue \in Seq(Updates) /\ minted \in 0..MaxTokens /\ pending \subseteq 1..minted
      /\ MaxTokens \in Nat /\ spent \in [Tokens -> SUBSET Chats]
      /\ last \in Updates \union {NoUpdate}
    BY OnboardingAssumption DEF Types, TypeOK
<1>2. CASE /\ UNCHANGED <<minted, pending, spent>>
           /\ job'.pc = "link" => UNCHANGED <<job, last>>
    BY <1>2 DEF TokensSpent
<1>3. ASSUME NEW o, handleStart(o) \/ handleAgree(o) \/ Promote(o) PROVE TokensSpent'
    <2>1. UNCHANGED <<minted, pending, spent>>
        BY <1>3 DEF handleStart, handleAgree, Promote, history
    <2>2. job'.pc # "link"
        BY <1>3 DEF handleStart, handleAgree, Promote, Next1, Idle, Job
    <2> QED BY <1>2, <2>1, <2>2
<1>4. ASSUME NEW o, issueStartgroupDeeplink(o) PROVE TokensSpent'
    <2>1. UNCHANGED spent /\ job'.pc # "link"
        BY <1>4 DEF issueStartgroupDeeplink, history, Idle
    <2>2. CASE UNCHANGED <<minted, pending>>
        BY <1>2, <2>1, <2>2
    <2>3. CASE minted' = minted + 1 /\ pending' = pending \union {minted + 1}
        <3>1. \A t \in Tokens : t \in Nat
            BY DEF Tokens
        <3>2. \A t \in Tokens : t <= minted => t <= minted' /\ t # minted + 1
            BY <1>1, <2>3, <3>1
        <3> QED BY <2>1, <2>3, <3>2 DEF TokensSpent
    <2> QED BY <1>4, <2>2, <2>3 DEF issueStartgroupDeeplink, IssueToken
<1>5. ASSUME NEW o, ConsumeToken(o) PROVE TokensSpent'
    <2>1. UNCHANGED <<minted, spent>> /\ pending' \subseteq pending
        BY <1>5 DEF ConsumeToken, history
    <2>2. last'.token \in Tokens
        BY <1>1, <1>5, TakesHead, UpdateFields DEF ConsumeToken
    <2>3. job'.pc = "link" => pending' = pending \ {last'.token} /\ last'.token \in pending
        <3>1. (o = "ok" /\ Redeems(last'.token)) \/ job' = Idle
            BY <1>5 DEF ConsumeToken, Next1
        <3>2. o = "ok" => pending' = pending \ {last'.token}
            BY <1>5 DEF ConsumeToken, Effective
        <3> QED BY <3>1, <3>2 DEF Redeems, Idle
    <2>4. last'.token \in pending => last'.token <= minted /\ spent[last'.token] = {}
        <3>1. \A t \in Tokens : t \in pending => t <= minted /\ spent[t] = {}
            BY <1>1 DEF TokensSpent
        <3> QED BY <2>2, <3>1
    <2>5. job'.pc = "link" =>
              last'.token <= minted /\ last'.token \notin pending' /\ spent[last'.token] = {}
        BY <2>3, <2>4
    <2> QED BY <2>1, <2>5 DEF TokensSpent
<1>6. ASSUME NEW o, LinkSupergroup(o) PROVE TokensSpent'
    <2>1. UNCHANGED <<minted, pending>> /\ job'.pc # "link"
        BY <1>6 DEF LinkSupergroup, Idle
    <2>2. PICK t : t = last.token
        OBVIOUS
    <2>3. job.pc = "link" /\ job.chat \in Chats /\ last.kind = "token"
        BY <1>6 DEF LinkSupergroup, Types, JobTypes
    <2>4. t \in Tokens /\ t <= minted /\ t \notin pending /\ spent[t] = {}
        <3>1. last # NoUpdate
            BY <2>3 DEF NoUpdate
        <3> QED BY <1>1, <2>2, <2>3, <3>1, UpdateFields DEF TokensSpent
    <2>5. spent' = spent \/ spent' = [spent EXCEPT ![t] = spent[t] \union {job.chat}]
        BY <1>6, <2>2 DEF LinkSupergroup
    <2>6. \A x \in Tokens : spent'[x] = spent[x] \/ (x = t /\ spent'[x] = {job.chat})
        BY <1>1, <2>4, <2>5
    <2> QED BY <2>1, <2>3, <2>4, <2>6 DEF TokensSpent
<1>7. ASSUME NEW o, Elsewhere(o) PROVE TokensSpent'
    BY <1>2, <1>7, ElsewhereKeeps
<1>8. CASE Admin \/ Telegram \/ UNCHANGED vars
    BY <1>2, <1>8, OutsideKeeps
<1>9. Restart => UNCHANGED <<minted, pending, spent>> /\ job'.pc # "link"
    BY DEF Restart, tables, Idle
<1> QED BY <1>2, <1>3, <1>4, <1>5, <1>6, <1>7, <1>8, <1>9 DEF Next, Poller, Elsewhere

-----------------------------------------------------------------------------
(* The admin flag. *)

\* Who changes the rights sends an update.
LEMMA RightsMove ==
    ASSUME [Next]_vars
    PROVE  \/ UNCHANGED rights
           \/ last' = last /\ \E m \in Updates : Sent(m)
<1>1. ASSUME NEW c \in Chats, NEW r \in Rights, SetRights(c, r)
      PROVE  last' = last /\ MyChatMember(c, r) \in Updates /\ Sent(MyChatMember(c, r))
    BY <1>1 DEF SetRights, Deliver, Updates, Sent, MyChatMember
<1>2. ASSUME NEW o, Beginning(o) \/ Continuing(o) PROVE UNCHANGED rights
    BY <1>2 DEF Beginning, Continuing, handleStart, handleAgree, ConsumeToken, Promote, Intrusion,
        toggleOn, SubscribeRow, toggleOff, issueStartgroupDeeplink, LinkSupergroup, List,
        CreateForumTopic, Add, CloseForumTopic, Remove, UnsubscribeRow, chat
<1>3. list \/ Admin \/ Restart \/ UNCHANGED vars => UNCHANGED rights
    BY DEF list, Admin, AdminSubscribe, AdminUnsubscribe, PatchUser, SetApp, PurgeApp, Restart, vars, chat
<1>4. ASSUME Telegram, ~\E c \in Chats, r \in Rights : SetRights(c, r) PROVE UNCHANGED rights
    BY <1>4 DEF Telegram, SendCommand, PresentToken, Join, Expire, chat
<1> QED BY <1>1, <1>2, <1>3, <1>4, PollerSteps DEF Next, Telegram

\* An update at the end.
LEMMA SentQueue ==
    ASSUME Types, NEW m \in Updates, Sent(m)
    PROVE  /\ Len(queue') = Len(queue) + 1 /\ queue'[Len(queue) + 1] = m
           /\ DOMAIN queue = 1..Len(queue) /\ DOMAIN queue' = 1..Len(queue') /\ Len(queue) \in Nat
           /\ \A i \in 1..Len(queue) : queue'[i] = queue[i]
           /\ \A c \in Chats : rights'[c] = rights[c]
                               \/ /\ m.kind = "my_chat_member" /\ m.chat = c
                                  /\ rights'[c] = m.status
<1>1. queue \in Seq(Updates) /\ rights \in [Chats -> Rights]
    BY DEF Types, TypeOK
<1>2. queue' = Append(queue, m)
    BY DEF Sent
<1>3. /\ Len(queue') = Len(queue) + 1 /\ queue'[Len(queue) + 1] = m
      /\ DOMAIN queue = 1..Len(queue) /\ DOMAIN queue' = 1..Len(queue') /\ Len(queue) \in Nat
      /\ \A i \in 1..Len(queue) : queue'[i] = queue[i]
    BY <1>1, <1>2
<1> QED BY <1>1, <1>3 DEF Sent

\* Every step keeps the queue's news true.
LEMMA QueueTrueNext ==
    ASSUME Types, QueueTrue, [Next]_vars
    PROVE  QueueTrue'
<1>1. /\ queue \in Seq(Updates) /\ DOMAIN queue = 1..Len(queue) /\ Len(queue) \in Nat
      /\ last \in Updates \union {NoUpdate} /\ NoUpdate.kind # "my_chat_member"
      /\ \A i \in 1..Len(queue) : queue[i] \in Updates
    BY DEF Types, TypeOK, NoUpdate
<1>2. CASE UNCHANGED <<queue, last, rights>>
    BY <1>2 DEF QueueTrue, Demoted
<1>3. ASSUME NEW k, Takes(k), UNCHANGED rights PROVE QueueTrue'
    <2>1. /\ last' = queue[1] /\ 1 \in 1..Len(queue) /\ Len(queue') = Len(queue) - 1
          /\ DOMAIN queue' = 1..Len(queue') /\ \A i \in 1..Len(queue') : queue'[i] = queue[i + 1]
        <3>1. /\ last' = queue[1] /\ Len(queue) \in Nat \ {0} /\ Len(queue') = Len(queue) - 1
              /\ queue' \in Seq(Updates) /\ \A i \in 1..Len(queue') : queue'[i] = queue[i + 1]
            BY <1>1, <1>3, TakesHead
        <3>2. DOMAIN queue' = 1..Len(queue')
            BY <3>1
        <3>3. 1 \in 1..Len(queue)
            BY <3>1
        <3> QED BY <3>1, <3>2, <3>3
    <2>2. \A j \in 1..Len(queue) : j > 1 => j - 1 \in 1..Len(queue') /\ queue'[j - 1] = queue[j]
        BY <1>1, <2>1
    <2>3. ASSUME NEW i \in DOMAIN queue', queue'[i].kind = "my_chat_member", queue'[i].status = "admin"
          PROVE  \/ rights'[queue'[i].chat] = "admin"
                 \/ \E j \in DOMAIN queue' : j > i /\ Demotes(queue'[j], queue'[i].chat)
        <3>1. i + 1 \in 1..Len(queue) /\ queue'[i] = queue[i + 1]
            BY <1>1, <2>1
        <3>2. CASE rights[queue'[i].chat] = "admin"
            BY <1>3, <3>2
        <3>3. ASSUME NEW j \in 1..Len(queue), j > i + 1, Demotes(queue[j], queue'[i].chat)
              PROVE  \E x \in DOMAIN queue' : x > i /\ Demotes(queue'[x], queue'[i].chat)
            <4>1. j > 1 /\ j - 1 > i
                BY <2>1, <3>3
            <4> QED BY <2>1, <2>2, <3>3, <4>1
        <3> QED BY <1>1, <2>3, <3>1, <3>2, <3>3 DEF QueueTrue
    <2>4. ASSUME last'.kind = "my_chat_member", last'.status = "admin"
          PROVE  rights'[last'.chat] = "admin" \/ \E i \in DOMAIN queue' : Demotes(queue'[i], last'.chat)
        <3>1. \/ rights[last'.chat] = "admin"
              \/ \E j \in 1..Len(queue) : j > 1 /\ Demotes(queue[j], last'.chat)
            BY <1>1, <2>1, <2>4 DEF QueueTrue
        <3> QED BY <1>3, <2>1, <2>2, <3>1
    <2> QED BY <2>3, <2>4 DEF QueueTrue, Demoted
<1>4. ASSUME NEW m \in Updates, last' = last, Sent(m) PROVE QueueTrue'
    <2>1. /\ Len(queue') = Len(queue) + 1 /\ queue'[Len(queue) + 1] = m
          /\ DOMAIN queue' = 1..Len(queue') /\ \A i \in 1..Len(queue) : queue'[i] = queue[i]
          /\ \A c \in Chats : rights'[c] = rights[c]
                              \/ /\ m.kind = "my_chat_member" /\ m.chat = c
                                 /\ rights'[c] = m.status
        BY <1>4, SentQueue
    <2>2. Len(queue') \in DOMAIN queue' /\ queue'[Len(queue')] = m
          /\ \A i \in 1..Len(queue) : i \in DOMAIN queue' /\ Len(queue') > i
        BY <1>1, <2>1
    <2>3. ASSUME NEW c \in Chats
          PROVE  \/ rights'[c] = "admin" \/ Demotes(m, c)
                 \/ rights'[c] = rights[c]
        BY <2>1 DEF Demotes
    <2>4. ASSUME NEW i \in DOMAIN queue', queue'[i].kind = "my_chat_member", queue'[i].status = "admin"
          PROVE  \/ rights'[queue'[i].chat] = "admin"
                 \/ \E j \in DOMAIN queue' : j > i /\ Demotes(queue'[j], queue'[i].chat)
        <3>1. CASE i = Len(queue')
            <4>1. m.chat \in Chats /\ m.kind = "my_chat_member" /\ m.status = "admin"
                BY <2>2, <2>4, <3>1, UpdateFields
            <4>2. rights' = [rights EXCEPT ![m.chat] = m.status] /\ rights \in [Chats -> Rights]
                BY <1>4, <4>1 DEF Sent, Types, TypeOK
            <4> QED BY <2>2, <3>1, <4>1, <4>2
        <3>2. CASE i # Len(queue')
            <4>1. i \in 1..Len(queue) /\ queue'[i] = queue[i]
                BY <1>1, <2>1, <3>2
            <4>2. queue[i].chat \in Chats
                BY <1>1, <2>4, <4>1, UpdateFields
            <4>3. \/ rights[queue[i].chat] = "admin"
                  \/ \E j \in 1..Len(queue) : j > i /\ Demotes(queue[j], queue[i].chat)
                BY <1>1, <2>4, <4>1 DEF QueueTrue
            <4> QED BY <2>1, <2>2, <2>3, <4>1, <4>2, <4>3
        <3> QED BY <3>1, <3>2
    <2>5. ASSUME last'.kind = "my_chat_member", last'.status = "admin"
          PROVE  rights'[last'.chat] = "admin" \/ \E i \in DOMAIN queue' : Demotes(queue'[i], last'.chat)
        <3>1. last.chat \in Chats /\ (rights[last.chat] = "admin"
                  \/ \E j \in 1..Len(queue) : Demotes(queue[j], last.chat))
            BY <1>1, <1>4, <2>5, UpdateFields DEF QueueTrue, Demoted
        <3> QED BY <1>4, <2>1, <2>2, <2>3, <3>1
    <2> QED BY <2>4, <2>5 DEF QueueTrue, Demoted
<1>5. CASE Restart
    <2>1. last'.kind # "my_chat_member" /\ UNCHANGED rights
        BY <1>1, <1>5, RestartQueue DEF Restart, chat
    <2>2. ASSUME NEW k \in 0..Len(queue), Len(queue') = Len(queue) - k, queue' \in Seq(Updates),
                 \A i \in 1..Len(queue') : queue'[i] = queue[i + k]
          PROVE  QueueTrue'
        <3>1. DOMAIN queue' = 1..Len(queue')
            BY <2>2
        <3>2. \A j \in 1..Len(queue) : j > k => j - k \in 1..Len(queue') /\ queue'[j - k] = queue[j]
            BY <1>1, <2>2
        <3>3. ASSUME NEW i \in DOMAIN queue', queue'[i].kind = "my_chat_member", queue'[i].status = "admin"
              PROVE  \/ rights'[queue'[i].chat] = "admin"
                     \/ \E j \in DOMAIN queue' : j > i /\ Demotes(queue'[j], queue'[i].chat)
            <4>1. i + k \in 1..Len(queue) /\ queue'[i] = queue[i + k]
                BY <1>1, <2>2, <3>1
            <4>2. ASSUME NEW j \in 1..Len(queue), j > i + k, Demotes(queue[j], queue'[i].chat)
                  PROVE  \E x \in DOMAIN queue' : x > i /\ Demotes(queue'[x], queue'[i].chat)
                <5>1. j > k /\ j - k > i
                    BY <2>2, <3>1, <4>2
                <5> QED BY <3>1, <3>2, <4>2, <5>1
            <4> QED BY <1>1, <2>1, <3>3, <4>1, <4>2 DEF QueueTrue
        <3> QED BY <2>1, <3>3 DEF QueueTrue
    <2>3. ASSUME last \in Updates, Len(queue') = Len(queue) + 1, queue' \in Seq(Updates),
                 queue'[1] = last, \A i \in 1..Len(queue) : queue'[i + 1] = queue[i]
          PROVE  QueueTrue'
        <3>1. DOMAIN queue' = 1..Len(queue')
            BY <2>3
        <3>2. \A j \in 1..Len(queue) : j + 1 \in DOMAIN queue' /\ queue'[j + 1] = queue[j] /\ j + 1 > 1
            BY <1>1, <2>3, <3>1
        <3>3. ASSUME NEW i \in DOMAIN queue', queue'[i].kind = "my_chat_member", queue'[i].status = "admin"
              PROVE  \/ rights'[queue'[i].chat] = "admin"
                     \/ \E j \in DOMAIN queue' : j > i /\ Demotes(queue'[j], queue'[i].chat)
            <4>1. CASE i = 1
                <5>1. \/ rights[last.chat] = "admin"
                      \/ \E j \in 1..Len(queue) : Demotes(queue[j], last.chat)
                    BY <1>1, <2>3, <3>3, <4>1 DEF QueueTrue, Demoted
                <5> QED BY <2>1, <2>3, <3>2, <4>1, <5>1
            <4>2. CASE i # 1
                <5>1. i - 1 \in 1..Len(queue) /\ queue'[i] = queue[i - 1]
                    BY <1>1, <2>3, <3>1, <4>2
                <5>2. \/ rights[queue'[i].chat] = "admin"
                      \/ \E j \in 1..Len(queue) : j > i - 1 /\ Demotes(queue[j], queue'[i].chat)
                    BY <1>1, <3>3, <5>1 DEF QueueTrue
                <5>3. \A j \in 1..Len(queue) : j > i - 1 => j + 1 > i
                    BY <3>1
                <5> QED BY <2>1, <3>2, <5>2, <5>3
            <4> QED BY <4>1, <4>2
        <3> QED BY <2>1, <3>3 DEF QueueTrue
    <2> QED BY <1>5, <2>2, <2>3, RestartQueue
<1> QED BY <1>2, <1>3, <1>4, <1>5, QueueMoves, RightsMove

-----------------------------------------------------------------------------
(* Links. *)

\* User x is linked to chat c.
Links(x, c) ==
    /\ users' = [users EXCEPT ![x] = LinkedRow(x, c)]
    /\ linked' = [linked EXCEPT ![x] = linked[x] \union {c}]

\* Who is linked to what: one user gets a chat and loses the flag, or everybody
\* keeps his own. Only the update about the bot sets the flag, or is missed no more.
LEMMA LinksMove ==
    ASSUME Types, [Next]_vars
    PROVE  \/ \E o \in Outcomes : /\ LinkSupergroup(o) /\ job.user \in Users /\ job.chat \in Chats
                                  /\ Links(job.user, job.chat) /\ missed' = missed
           \/ /\ linked' = linked /\ \A u \in Users : users'[u].link = users[u].link
              /\ \/ \E o \in Outcomes : Promote(o)
                 \/ /\ \A u \in Users : users'[u].admin = users[u].admin
                    /\ missed \subseteq missed'
<1>1. users \in [Users -> Row] /\ queue \in Seq(Updates)
    BY DEF Types, TypeOK
<1> DEFINE Kept == /\ linked' = linked /\ missed \subseteq missed'
                   /\ \A u \in Users : users'[u].link = users[u].link /\ users'[u].admin = users[u].admin
<1>2. ASSUME NEW o, handleStart(o) \/ handleAgree(o) PROVE Kept
    <2>1. users' \in {users, UpsertOnStart(last'.user), MarkAgreed(last'.user)}
        BY <1>2 DEF handleStart, handleAgree
    <2>2. last'.user \in Users
        BY <1>1, <1>2, TakesHead, UpdateFields DEF handleStart, handleAgree
    <2>3. PICK x \in Users : users' \in {users, UpsertOnStart(x), MarkAgreed(x)}
        BY <2>1, <2>2
    <2>4. \A u \in Users : users'[u].link = users[u].link /\ users'[u].admin = users[u].admin
        BY <1>1, <2>3 DEF UpsertOnStart, MarkAgreed, Row
    <2> QED BY <1>2, <2>4 DEF handleStart, handleAgree, history
<1>3. ASSUME NEW o, \/ issueStartgroupDeeplink(o) \/ ConsumeToken(o) \/ Elsewhere(o)
      PROVE  Kept
    BY <1>3 DEF issueStartgroupDeeplink, ConsumeToken, Elsewhere, Intrusion, List, CreateForumTopic,
        Add, toggleOn, SubscribeRow, toggleOff, CloseForumTopic, Remove, UnsubscribeRow, list,
        tables, history
<1>4. ASSUME NEW o, LinkSupergroup(o)
      PROVE  Kept \/ /\ job.user \in Users /\ job.chat \in Chats /\ missed' = missed
                     /\ Links(job.user, job.chat)
    BY <1>4 DEF LinkSupergroup, Types, JobTypes, Links
<1>5. ASSUME NEW o, Promote(o)
      PROVE  linked' = linked /\ \A u \in Users : users'[u].link = users[u].link
    <2>1. users' = users \/ \E u \in Users, b \in BOOLEAN : users' = SetBotIsAdmin(u, b)
        BY <1>5 DEF Promote, FindUserByChatID
    <2> QED BY <1>1, <1>5, <2>1 DEF Promote, SetBotIsAdmin, Row
<1>6. ASSUME NEW u \in Users, NEW r \in Grades, PatchUser(u, r) PROVE Kept
    BY <1>1, <1>6 DEF PatchUser, Row, history
<1>7. ASSUME NEW a \in Apps,
             \/ \E u \in Users : AdminSubscribe(u, a) \/ AdminUnsubscribe(u, a)
             \/ PurgeApp(a) \/ \E s \in AppStates : SetApp(a, s)
      PROVE  Kept
    BY <1>7 DEF AdminSubscribe, AdminUnsubscribe, PurgeApp, SetApp, history
<1>8. Telegram \/ Restart \/ UNCHANGED vars => Kept
    BY DEF Telegram, SendCommand, SetRights, PresentToken, Join, Expire, Restart, vars, tables, history
<1>9. list => Kept
    BY <1>3 DEF Elsewhere
<1> HIDE DEF Kept
<1>10. Kept \/ (\E o \in Outcomes : Promote(o))
            \/ \E o \in Outcomes : /\ LinkSupergroup(o) /\ job.user \in Users /\ job.chat \in Chats
                                   /\ Links(job.user, job.chat) /\ missed' = missed
    BY <1>2, <1>3, <1>4, <1>6, <1>7, <1>8, <1>9 DEF Next, Poller, Admin, Elsewhere
<1> QED BY <1>5, <1>10 DEF Kept

\* A chat that was linked stays among the linked ones.
LEMMA LinkedGrows ==
    ASSUME Types, [Next]_vars
    PROVE  \A u \in Users : linked[u] \subseteq linked'[u]
<1>1. linked \in [Users -> SUBSET Chats]
    BY DEF Types, TypeOK
<1> QED BY <1>1, LinksMove DEF Links

\* A set with at most one member.
LEMMA CardLeOne ==
    ASSUME NEW S, IsFiniteSet(S), Cardinality(S) <= 1, NEW x \in S, NEW y \in S
    PROVE  x = y
<1> SUFFICES ASSUME x # y PROVE FALSE
    OBVIOUS
<1>1. IsFiniteSet(S \ {x}) /\ Cardinality(S \ {x}) = Cardinality(S) - 1
    BY FS_RemoveElement
<1>2. Cardinality(S) \in Nat /\ Cardinality(S \ {x}) \in Nat
    BY <1>1, FS_CardinalityType
<1>3. Cardinality(S \ {x}) = 0
    BY <1>1, <1>2
<1>4. S \ {x} = {}
    BY <1>1, <1>3, FS_EmptySet
<1> QED BY <1>4

\* A chat that only one user has ever linked had only one before.
LEMMA UnsharedBefore ==
    ASSUME Types, [Next]_vars, NEW c, Unshared(c)'
    PROVE  Unshared(c)
<1> DEFINE S == {u \in Users : c \in linked[u]}
           T == {u \in Users : c \in linked'[u]}
<1>1. IsFiniteSet(Users) /\ S \subseteq T /\ T \subseteq Users
    BY LinkedGrows, OnboardingAssumption
<1>2. IsFiniteSet(T) /\ Cardinality(T) <= 1
    BY <1>1, FS_Subset DEF Unshared
<1>3. IsFiniteSet(S) /\ Cardinality(S) <= Cardinality(T)
    BY <1>1, <1>2, FS_Subset
<1>4. Cardinality(S) \in Nat /\ Cardinality(T) \in Nat
    BY <1>2, <1>3, FS_CardinalityType
<1>5. Cardinality(S) <= 1
    BY <1>2, <1>3, <1>4
<1> QED BY <1>5 DEF Unshared

\* A chat that is not shared has been linked by one user.
LEMMA OnlyOne ==
    ASSUME NEW c, Unshared(c), NEW u \in Users, NEW x \in Users, c \in linked[u], c \in linked[x]
    PROVE  u = x
<1> DEFINE S == {v \in Users : c \in linked[v]}
<1>1. S \subseteq Users /\ u \in S /\ x \in S
    OBVIOUS
<1>2. IsFiniteSet(S) /\ Cardinality(S) <= 1
    BY <1>1, FS_Subset, OnboardingAssumption DEF Unshared
<1> HIDE DEF S
<1> QED BY <1>1, <1>2, CardLeOne

\* A step that is not about the bot in chat c keeps what is queued about c.
LEMMA DemotionKept ==
    ASSUME Types, [Next]_vars, NEW c \in Chats, c \notin missed',
           \A o \in Outcomes : Promote(o) => last'.chat # c, Demoted(c)
    PROVE  Demoted(c)'
<1>1. queue \in Seq(Updates) /\ DOMAIN queue = 1..Len(queue) /\ Len(queue) \in Nat
    BY DEF Types, TypeOK
<1>2. PICK j \in 1..Len(queue) : Demotes(queue[j], c)
    BY <1>1 DEF Demoted
<1>3. CASE UNCHANGED queue
    BY <1>3 DEF Demoted
<1>4. ASSUME NEW k, Takes(k), k = "my_chat_member" => \E o \in Outcomes : Promote(o) PROVE Demoted(c)'
    <2>1. /\ last' = queue[1] /\ last'.kind = k /\ Len(queue) \in Nat \ {0} /\ Len(queue') = Len(queue) - 1
          /\ queue' \in Seq(Updates) /\ \A i \in 1..Len(queue') : queue'[i] = queue[i + 1]
        BY <1>1, <1>4, TakesHead
    <2>2. j # 1 => j - 1 \in DOMAIN queue' /\ queue'[j - 1] = queue[j]
        BY <1>1, <2>1
    <2>3. ~Demotes(queue[1], c)
        BY <1>4, <2>1 DEF Demotes
    <2> QED BY <1>2, <2>2, <2>3 DEF Demoted
<1>5. ASSUME NEW m \in Updates, Sent(m) PROVE Demoted(c)'
    <2>1. /\ Len(queue') = Len(queue) + 1
          /\ DOMAIN queue' = 1..Len(queue') /\ \A i \in 1..Len(queue) : queue'[i] = queue[i]
        BY <1>5, SentQueue
    <2>2. j \in DOMAIN queue' /\ queue'[j] = queue[j]
        BY <1>1, <2>1
    <2> QED BY <1>2, <2>2 DEF Demoted
<1>6. CASE Restart
    <2>1. ASSUME NEW k \in 0..Len(queue), Len(queue') = Len(queue) - k, queue' \in Seq(Updates),
                 \A i \in 1..Len(queue') : queue'[i] = queue[i + k],
                 \A i \in 1..k : queue[i].kind = "my_chat_member" => queue[i].chat \in missed'
          PROVE  Demoted(c)'
        <3>1. j \in 1..k \/ (j - k \in DOMAIN queue' /\ queue'[j - k] = queue[j])
            BY <1>1, <2>1
        <3> QED BY <1>2, <2>1, <3>1 DEF Demoted, Demotes
    <2>2. ASSUME Len(queue') = Len(queue) + 1, queue' \in Seq(Updates),
                 \A i \in 1..Len(queue) : queue'[i + 1] = queue[i]
          PROVE  Demoted(c)'
        <3>1. j + 1 \in DOMAIN queue' /\ queue'[j + 1] = queue[j]
            BY <1>1, <2>2
        <3> QED BY <1>2, <3>1 DEF Demoted
    <2> QED BY <1>6, <2>1, <2>2, RestartQueue
<1> QED BY <1>3, <1>4, <1>5, <1>6, QueueMoves

\* The rights go with an update that says so.
LEMMA RightsKept ==
    ASSUME Types, [Next]_vars, NEW c \in Chats, rights[c] = "admin"
    PROVE  rights'[c] = "admin" \/ Demoted(c)'
<1>1. ASSUME NEW m \in Updates, Sent(m)
      PROVE  rights'[c] = "admin" \/ Demoted(c)'
    <2>1. /\ Len(queue') = Len(queue) + 1 /\ queue'[Len(queue) + 1] = m /\ Len(queue) \in Nat
          /\ DOMAIN queue' = 1..Len(queue')
          /\ \/ rights'[c] = rights[c]
             \/ m.kind = "my_chat_member" /\ m.chat = c /\ rights'[c] = m.status
        BY <1>1, SentQueue
    <2>2. Len(queue) + 1 \in DOMAIN queue'
        BY <2>1
    <2> QED BY <2>1, <2>2 DEF Demoted, Demotes
<1> QED BY <1>1, RightsMove

\* The handler of an update about the bot, in a chat that one user has linked.
LEMMA PromoteFlag ==
    ASSUME Types, LinkKnown, NEW o, Promote(o), NEW u \in Users
    PROVE  /\ last'.chat \in Chats /\ last'.kind = "my_chat_member"
           /\ users[u].link # last'.chat => users'[u].admin = users[u].admin
           /\ users[u].link = last'.chat /\ Unshared(last'.chat) /\ last'.chat \notin missed' =>
                 users'[u].admin = (last'.status = "admin")
           /\ \A c \in Chats : c # last'.chat => (c \in missed' <=> c \in missed)
<1>1. queue \in Seq(Updates) /\ users \in [Users -> Row] /\ None \notin Chats
    BY OnboardingAssumption DEF Types, TypeOK
<1>2. last'.chat \in Chats /\ last'.kind = "my_chat_member"
    BY <1>1, TakesHead, UpdateFields DEF Promote
<1>3. \A c \in Chats : c # last'.chat => (c \in missed' <=> c \in missed)
    BY DEF Promote
<1>4. o = "failed" => last'.chat \in missed'
    BY DEF Promote
<1>5. \/ FindUserByChatID(last'.chat) = {} \/ o = "failed"
      \/ \E x \in FindUserByChatID(last'.chat) : users' = SetBotIsAdmin(x, last'.status = "admin")
    BY DEF Promote
<1>6. users' = users \/ \E x \in FindUserByChatID(last'.chat) :
                           users' = SetBotIsAdmin(x, last'.status = "admin")
    BY DEF Promote
<1>7. \A x \in FindUserByChatID(last'.chat) : x \in Users /\ users[x].link = last'.chat
    BY DEF FindUserByChatID
<1>8. users[u].link # last'.chat => users'[u].admin = users[u].admin
    BY <1>1, <1>6, <1>7 DEF SetBotIsAdmin
<1>9. ASSUME users[u].link = last'.chat, Unshared(last'.chat), last'.chat \notin missed'
      PROVE  users'[u].admin = (last'.status = "admin")
    <2>1. PICK x \in FindUserByChatID(last'.chat) : users' = SetBotIsAdmin(x, last'.status = "admin")
        BY <1>4, <1>5, <1>9 DEF FindUserByChatID
    <2>2. last'.chat \in linked[u] /\ last'.chat \in linked[x] /\ x \in Users
        BY <1>1, <1>2, <1>7, <1>9, <2>1 DEF LinkKnown
    <2>3. PICK c : c = last'.chat
        OBVIOUS
    <2>4. x = u
        BY <1>9, <2>2, <2>3, OnlyOne
    <2>5. PICK b \in BOOLEAN : b = (last'.status = "admin")
        OBVIOUS
    <2>6. users' = [users EXCEPT ![u].admin = b]
        BY <2>1, <2>4, <2>5 DEF SetBotIsAdmin
    <2>7. users'[u].admin = b
        BY <1>1, <2>6 DEF Row
    <2> QED BY <2>5, <2>7
<1> QED BY <1>2, <1>3, <1>8, <1>9

\* FlagMatchesChat, with a demotion that waits in the queue as one condition.
LEMMA FlagIs ==
    FlagMatchesChat <=>
        \A u \in Users : users[u].admin /\ Unshared(users[u].link) /\ users[u].link \notin missed
            => rights[users[u].link] = "admin" \/ Demoted(users[u].link)
    BY DEF FlagMatchesChat, Demoted, Demotes

\* Every step keeps the links known.
LEMMA LinkKnownNext ==
    ASSUME Types, LinkKnown, [Next]_vars
    PROVE  LinkKnown'
<1>1. /\ linked \in [Users -> SUBSET Chats] /\ users \in [Users -> Row] /\ None \notin Chats
      /\ users' \in [Users -> Row]
    BY UsersType, OnboardingAssumption DEF Types, TypeOK
<1>2. ASSUME NEW x \in Users, NEW c \in Chats, Links(x, c) PROVE LinkKnown'
    <2>1. LinkedRow(x, c).link = c
        BY <1>1 DEF LinkedRow, Row
    <2>2. users'[x].link = c /\ c \in linked'[x]
        BY <1>1, <1>2, <2>1 DEF Links
    <2>3. \A u \in Users \ {x} : users'[u] = users[u] /\ linked'[u] = linked[u]
        BY <1>1, <1>2 DEF Links
    <2> QED BY <1>1, <2>2, <2>3 DEF LinkKnown
<1>3. ASSUME linked' = linked, \A u \in Users : users'[u].link = users[u].link
      PROVE  \A u \in Users : users'[u].link # None => users'[u].link \in linked'[u]
    BY <1>3 DEF LinkKnown
<1>4. ASSUME NEW o, Promote(o), \A u \in Users : users'[u].link = users[u].link
      PROVE  \A u \in Users : users'[u].admin => users'[u].link # None
    BY <1>1, <1>4, PromoteFlag DEF LinkKnown
<1>5. ASSUME \A u \in Users : users'[u].link = users[u].link /\ users'[u].admin = users[u].admin
      PROVE  \A u \in Users : users'[u].admin => users'[u].link # None
    BY <1>5 DEF LinkKnown
<1>6. CASE /\ linked' = linked /\ \A u \in Users : users'[u].link = users[u].link
           /\ \/ \E o \in Outcomes : Promote(o)
              \/ \A u \in Users : users'[u].admin = users[u].admin
    <2>1. \A u \in Users : users'[u].admin => users'[u].link # None
        BY <1>4, <1>5, <1>6
    <2> QED BY <1>3, <1>6, <2>1 DEF LinkKnown
<1> QED BY <1>2, <1>6, LinksMove

\* Every step keeps the flag in agreement with the chat.
LEMMA FlagNext ==
    ASSUME Types, LinkKnown, QueueTrue, FlagMatchesChat, [Next]_vars
    PROVE  FlagMatchesChat'
<1>1. /\ users \in [Users -> Row] /\ users' \in [Users -> Row] /\ None \notin Chats
      /\ linked \in [Users -> SUBSET Chats]
    BY UsersType, OnboardingAssumption DEF Types, TypeOK
<1> SUFFICES ASSUME NEW u \in Users, NEW c, c = users'[u].link, users'[u].admin, Unshared(c)', c \notin missed'
             PROVE  rights'[c] = "admin" \/ Demoted(c)'
    BY DEF FlagMatchesChat, Unshared, Demoted, Demotes
<1>2. c \in Chats /\ Unshared(c)
    BY <1>1, LinkKnownNext, UnsharedBefore DEF LinkKnown, Row
<1>3. ASSUME users[u].admin, users[u].link = c, c \notin missed
      PROVE  rights[c] = "admin" \/ Demoted(c)
    BY <1>2, <1>3, FlagIs
<1>4. ASSUME NEW o \in Outcomes, Promote(o), users'[u].link = users[u].link
      PROVE  rights'[c] = "admin" \/ Demoted(c)'
    <2>1. CASE last'.chat = c
        <3>1. last'.kind = "my_chat_member" /\ last'.status = "admin"
            BY <1>2, <1>4, <2>1, PromoteFlag
        <3> QED BY <2>1, <3>1, QueueTrueNext DEF QueueTrue, Demoted
    <2>2. CASE last'.chat # c
        <3>1. users[u].admin /\ c \notin missed
            BY <1>2, <1>4, <2>2, PromoteFlag
        <3>2. \A x \in Outcomes : Promote(x) => last'.chat # c
            BY <2>2
        <3> QED BY <1>2, <1>3, <1>4, <3>1, <3>2, DemotionKept, RightsKept
    <2> QED BY <2>1, <2>2
<1>5. ASSUME \A o \in Outcomes : ~Promote(o), users[u].admin, users[u].link = c, c \notin missed
      PROVE  rights'[c] = "admin" \/ Demoted(c)'
    BY <1>2, <1>3, <1>5, DemotionKept, RightsKept
<1>6. ASSUME NEW x \in Users, NEW z \in Chats, Links(x, z)
      PROVE  users'[u] = users[u]
    <2>1. LinkedRow(x, z).admin = FALSE
        BY <1>1 DEF LinkedRow, Row
    <2> QED BY <1>1, <1>6, <2>1 DEF Links
<1>7. ASSUME NEW o, LinkSupergroup(o), NEW x \in Outcomes PROVE ~Promote(x)
    BY <1>7 DEF LinkSupergroup, Promote, Takes, Idle
<1> QED BY <1>4, <1>5, <1>6, <1>7, LinksMove

-----------------------------------------------------------------------------
(* Topics. *)

NewTopic(a) == [app |-> a, open |-> TRUE]

\* Topics are made at the end of a chat and closed; nothing else happens to them.
LEMMA ThreadsMove ==
    ASSUME Types, [Next]_vars
    PROVE  \/ threads' = threads
           \/ \E o \in Outcomes :
                 /\ CreateForumTopic(o) /\ Len(threads[job.chat]) < MaxThreads
                 /\ threads' = [threads EXCEPT ![job.chat] = Append(threads[job.chat], NewTopic(Min(job.todo)))]
           \/ \E o \in Outcomes :
                 /\ CloseForumTopic(o) /\ job.thread \in DOMAIN threads[job.chat]
                 /\ threads' = [threads EXCEPT ![job.chat] =
                                   [threads[job.chat] EXCEPT ![job.thread].open = FALSE]]
<1>1. threads \in [Chats -> Seq(Topic)]
    BY DEF Types
<1>2. ASSUME NEW o, CreateForumTopic(o), threads' # threads
      PROVE  /\ Len(threads[job.chat]) < MaxThreads
             /\ threads' = [threads EXCEPT ![job.chat] = Append(threads[job.chat], NewTopic(Min(job.todo)))]
    BY <1>2 DEF CreateForumTopic, NewTopic
<1>3. ASSUME NEW o, CloseForumTopic(o), threads' # threads
      PROVE  /\ job.thread \in DOMAIN threads[job.chat]
             /\ threads' = [threads EXCEPT ![job.chat] =
                               [threads[job.chat] EXCEPT ![job.thread].open = FALSE]]
    <2>1. job.thread \in DOMAIN threads[job.chat] /\ threads' = [threads EXCEPT ![job.chat][job.thread].open = FALSE]
        BY <1>3 DEF CloseForumTopic
    <2> QED BY <1>1, <2>1
<1>4. ASSUME NEW o, \/ handleStart(o) \/ handleAgree(o) \/ issueStartgroupDeeplink(o)
                    \/ ConsumeToken(o) \/ LinkSupergroup(o) \/ Promote(o) \/ Intrusion(o) \/ List(o)
                    \/ Add(o) \/ toggleOn(o) \/ SubscribeRow(o) \/ toggleOff(o) \/ Remove(o)
                    \/ UnsubscribeRow(o)
      PROVE  threads' = threads
    BY <1>4 DEF handleStart, handleAgree, issueStartgroupDeeplink, ConsumeToken, LinkSupergroup,
        Promote, Intrusion, List, Add, toggleOn, SubscribeRow, toggleOff, Remove, UnsubscribeRow, chat
<1>5. list \/ Admin \/ Telegram \/ Restart \/ UNCHANGED vars => threads' = threads
    BY DEF list, Admin, AdminSubscribe, AdminUnsubscribe, PatchUser, SetApp, PurgeApp, Restart, vars,
        chat, Telegram, SendCommand, SetRights, PresentToken, Join, Expire
<1> QED BY <1>2, <1>3, <1>4, <1>5 DEF Next, Poller

\* What happens to the topics of one chat.
LEMMA ThreadsOf ==
    ASSUME Types, [Next]_vars, NEW c \in Chats
    PROVE  /\ threads[c] \in Seq(Topic) /\ DOMAIN threads[c] = 1..Len(threads[c]) /\ Len(threads[c]) \in Nat
           /\ DOMAIN threads'[c] = 1..Len(threads'[c])
           /\ \/ threads'[c] = threads[c]
              \/ /\ \E o \in Outcomes : CreateForumTopic(o)
                 /\ c = job.chat /\ Min(job.todo) \in Apps
                 /\ Len(threads[c]) < MaxThreads /\ Len(threads'[c]) = Len(threads[c]) + 1
                 /\ threads'[c][Len(threads'[c])] = NewTopic(Min(job.todo))
                 /\ \A n \in 1..Len(threads[c]) : threads'[c][n] = threads[c][n]
              \/ /\ \E o \in Outcomes : CloseForumTopic(o)
                 /\ c = job.chat /\ Len(threads'[c]) = Len(threads[c]) /\ job.thread \in 1..Len(threads[c])
                 /\ threads'[c][job.thread] = [threads[c][job.thread] EXCEPT !.open = FALSE]
                 /\ \A n \in 1..Len(threads[c]) : n # job.thread => threads'[c][n] = threads[c][n]
<1>1. threads \in [Chats -> Seq(Topic)] /\ threads' \in [Chats -> Seq(Topic)]
    BY ChatType DEF Types
<1>2. /\ threads[c] \in Seq(Topic) /\ DOMAIN threads[c] = 1..Len(threads[c]) /\ Len(threads[c]) \in Nat
      /\ DOMAIN threads'[c] = 1..Len(threads'[c]) /\ Len(threads'[c]) \in Nat
    BY <1>1
<1>3. ASSUME NEW o \in Outcomes, CreateForumTopic(o), Len(threads[job.chat]) < MaxThreads,
             threads' = [threads EXCEPT ![job.chat] = Append(threads[job.chat], NewTopic(Min(job.todo)))],
             threads'[c] # threads[c]
      PROVE  /\ c = job.chat /\ Min(job.todo) \in Apps
             /\ Len(threads[c]) < MaxThreads /\ Len(threads'[c]) = Len(threads[c]) + 1
             /\ threads'[c][Len(threads'[c])] = NewTopic(Min(job.todo))
             /\ \A n \in 1..Len(threads[c]) : threads'[c][n] = threads[c][n]
    <2>1. c = job.chat
        BY <1>1, <1>3
    <2>2. PICK a, s : a = Min(job.todo) /\ s = threads[c]
        OBVIOUS
    <2>3. a \in Apps
        BY <1>3, <2>2, MinIn, OnboardingAssumption DEF CreateForumTopic, Types, JobTypes
    <2>4. NewTopic(a) \in Topic /\ s \in Seq(Topic)
        BY <1>2, <2>2, <2>3 DEF NewTopic, Topic
    <2>5. threads'[c] = Append(s, NewTopic(a))
        BY <1>1, <1>3, <2>1, <2>2
    <2>6. /\ Len(threads'[c]) = Len(s) + 1 /\ threads'[c][Len(s) + 1] = NewTopic(a)
          /\ \A n \in 1..Len(s) : threads'[c][n] = s[n]
        BY <2>4, <2>5, AppendProperties
    <2> QED BY <1>3, <2>1, <2>2, <2>3, <2>6
<1>4. ASSUME NEW o \in Outcomes, CloseForumTopic(o), job.thread \in DOMAIN threads[job.chat],
             threads' = [threads EXCEPT ![job.chat] =
                            [threads[job.chat] EXCEPT ![job.thread].open = FALSE]],
             threads'[c] # threads[c]
      PROVE  /\ c = job.chat /\ Len(threads'[c]) = Len(threads[c]) /\ job.thread \in 1..Len(threads[c])
             /\ threads'[c][job.thread] = [threads[c][job.thread] EXCEPT !.open = FALSE]
             /\ \A n \in 1..Len(threads[c]) : n # job.thread => threads'[c][n] = threads[c][n]
    <2>1. c = job.chat
        BY <1>1, <1>4
    <2>2. PICK k, s, x : k = job.thread /\ s = threads[c] /\ x = [s[k] EXCEPT !.open = FALSE]
        OBVIOUS
    <2>3. s \in Seq(Topic) /\ k \in 1..Len(s)
        BY <1>2, <1>4, <2>1, <2>2
    <2>4. threads'[c] = [s EXCEPT ![k] = x]
        BY <1>1, <1>4, <2>1, <2>2
    <2>5. x \in Topic
        <3>1. s[k] \in Topic
            BY <2>3, ElementOfSeq
        <3> QED BY <2>2, <3>1 DEF Topic
    <2>6. Len(threads'[c]) = Len(s)
        BY <2>3, <2>4, <2>5, ExceptSeq
    <2>7. threads'[c][k] = x /\ \A n \in 1..Len(s) : n # k => threads'[c][n] = s[n]
        BY <2>3, <2>4
    <2> QED BY <2>1, <2>2, <2>3, <2>6, <2>7
<1>5. CASE threads'[c] = threads[c]
    BY <1>2, <1>5
<1>6. CASE threads'[c] # threads[c]
    BY <1>2, <1>3, <1>4, <1>6, ThreadsMove
<1> QED BY <1>5, <1>6

\* A topic stays the topic of its app.
LEMMA NamesKept ==
    ASSUME Types, [Next]_vars, NEW c \in Chats, NEW n, NEW a, Names(c, n, a)
    PROVE  Names(c, n, a)'
<1>1. n \in 1..Len(threads[c]) /\ threads[c][n].app = a /\ threads[c] \in Seq(Topic) /\ Len(threads[c]) \in Nat
    BY ThreadsOf DEF Names
<1>2. DOMAIN threads'[c] = 1..Len(threads'[c])
    BY ThreadsOf
<1>3. CASE threads'[c] = threads[c]
    BY <1>1, <1>3 DEF Names
<1>4. CASE /\ Len(threads'[c]) = Len(threads[c]) + 1
           /\ \A i \in 1..Len(threads[c]) : threads'[c][i] = threads[c][i]
    BY <1>1, <1>2, <1>4 DEF Names
<1>5. CASE /\ Len(threads'[c]) = Len(threads[c])
           /\ threads'[c][job.thread] = [threads[c][job.thread] EXCEPT !.open = FALSE]
           /\ \A i \in 1..Len(threads[c]) : i # job.thread => threads'[c][i] = threads[c][i]
    <2>1. threads[c][n] \in Topic
        BY <1>1, ElementOfSeq
    <2>2. [threads[c][n] EXCEPT !.open = FALSE].app = a
        BY <1>1, <2>1 DEF Topic
    <2>3. threads'[c][n].app = a
        BY <1>1, <1>5, <2>2
    <2> QED BY <1>1, <1>2, <1>5, <2>3 DEF Names
<1> QED BY <1>3, <1>4, <1>5, ThreadsOf

\* Only these steps touch user_topics.
LEMMA RowsMove ==
    ASSUME Types, [Next]_vars
    PROVE  \/ rows' = rows
           \/ /\ \E o \in Outcomes : Add(o)
              /\ job.user \in Users /\ Min(job.todo) \in job.todo /\ job.todo \subseteq Apps
              /\ apps[Min(job.todo)] # "gone" /\ rows[job.user][Min(job.todo)] = 0
              /\ rows' = [rows EXCEPT ![job.user][Min(job.todo)] = job.thread]
           \/ /\ \E o \in Outcomes : Remove(o)
              /\ job.user \in Users /\ job.app \in Apps
              /\ rows' = [rows EXCEPT ![job.user][job.app] = 0]
           \/ \E a \in Apps : PurgeApp(a)
<1>1. ASSUME NEW o, Add(o), rows' # rows
      PROVE  /\ job.user \in Users /\ Min(job.todo) \in job.todo /\ job.todo \subseteq Apps
             /\ apps[Min(job.todo)] # "gone" /\ rows[job.user][Min(job.todo)] = 0
             /\ rows' = [rows EXCEPT ![job.user][Min(job.todo)] = job.thread]
    <2>1. job.user \in Users /\ job.todo \subseteq Apps /\ job.todo # {} /\ Apps \subseteq Nat
        BY <1>1, OnboardingAssumption DEF Add, Types, JobTypes
    <2>2. Min(job.todo) \in job.todo
        BY <2>1, MinIn
    <2> QED BY <1>1, <2>1, <2>2 DEF Add, AddTopic, ProvisionedApp
<1>2. ASSUME NEW o, Remove(o), rows' # rows
      PROVE  /\ job.user \in Users /\ job.app \in Apps /\ rows' = [rows EXCEPT ![job.user][job.app] = 0]
    BY <1>2 DEF Remove, Types, JobTypes, Closing
<1>3. ASSUME NEW o, \/ handleStart(o) \/ handleAgree(o) \/ issueStartgroupDeeplink(o)
                    \/ ConsumeToken(o) \/ LinkSupergroup(o) \/ Promote(o) \/ Intrusion(o)
                    \/ List(o) \/ CreateForumTopic(o) \/ toggleOn(o) \/ SubscribeRow(o)
                    \/ toggleOff(o) \/ CloseForumTopic(o) \/ UnsubscribeRow(o)
      PROVE  UNCHANGED rows
    BY <1>3 DEF handleStart, handleAgree, issueStartgroupDeeplink, ConsumeToken, LinkSupergroup,
        Promote, Intrusion, List, CreateForumTopic, toggleOn, SubscribeRow, toggleOff,
        CloseForumTopic, UnsubscribeRow, tables
<1>4. list \/ Telegram \/ Restart \/ UNCHANGED vars => UNCHANGED rows
    BY DEF list, Telegram, SendCommand, SetRights, PresentToken, Join, Expire, Restart, vars, tables
<1>5. Admin => (\E a \in Apps : PurgeApp(a)) \/ UNCHANGED rows
    BY DEF Admin, AdminSubscribe, AdminUnsubscribe, PatchUser, SetApp
<1> QED BY <1>1, <1>2, <1>3, <1>4, <1>5 DEF Next, Poller

\* A row that is there was there before, or is of the topic that was just made.
LEMMA RowKept ==
    ASSUME Types, [Next]_vars, NEW u \in Users, NEW a \in Apps, rows'[u][a] # 0
    PROVE  \/ rows'[u][a] = rows[u][a]
           \/ job.pc = "add" /\ u = job.user /\ a = Min(job.todo) /\ rows'[u][a] = job.thread
<1>1. rows \in [Users -> [Apps -> 0..MaxThreads]]
    BY DEF Types, TypeOK
<1>2. ASSUME NEW o, Add(o) PROVE job.pc = "add"
    BY <1>2 DEF Add
<1>3. CASE /\ \E o \in Outcomes : Add(o)
           /\ job.user \in Users /\ Min(job.todo) \in Apps
           /\ rows' = [rows EXCEPT ![job.user][Min(job.todo)] = job.thread]
    <2>1. PICK x, b, n : x = job.user /\ b = Min(job.todo) /\ n = job.thread
        OBVIOUS
    <2>2. rows' = [rows EXCEPT ![x][b] = n] /\ x \in Users /\ b \in Apps
        BY <1>3, <2>1
    <2>3. rows'[u][a] = rows[u][a] \/ (u = x /\ a = b /\ rows'[u][a] = n)
        BY <1>1, <2>2
    <2> QED BY <1>2, <1>3, <2>1, <2>3
<1>4. CASE /\ job.user \in Users /\ job.app \in Apps
           /\ rows' = [rows EXCEPT ![job.user][job.app] = 0]
    BY <1>1, <1>4
<1>5. ASSUME NEW b \in Apps, PurgeApp(b) PROVE rows'[u][a] = rows[u][a]
    BY <1>1, <1>5 DEF PurgeApp
<1> QED BY <1>3, <1>4, <1>5, RowsMove

\* The chat of a handler is the one its user had when it began.
LEMMA JobChat ==
    ASSUME Types, [Next]_vars, job'.pc \in Provisioning \union {"close", "remove"}
    PROVE  \/ /\ job.pc \in Provisioning \union {"close", "remove"}
              /\ job'.user = job.user /\ job'.chat = job.chat
           \/ /\ job'.user \in Users /\ job'.chat \in Chats /\ users[job'.user].link = job'.chat
<1> DEFINE Good == \/ /\ job.pc \in Provisioning \union {"close", "remove"}
                      /\ job'.user = job.user /\ job'.chat = job.chat
                   \/ /\ job'.user \in Users /\ job'.chat \in Chats /\ users[job'.user].link = job'.chat
<1>1. queue \in Seq(Updates) /\ users \in [Users -> Row]
    BY DEF Types, TypeOK
<1>2. ASSUME NEW o, \/ handleStart(o) \/ handleAgree(o) \/ issueStartgroupDeeplink(o)
                    \/ ConsumeToken(o) \/ LinkSupergroup(o) \/ Intrusion(o) \/ UnsubscribeRow(o)
                    \/ toggleOn(o) \/ list \/ Restart
      PROVE  job'.pc \in {"idle", "issue", "link", "subscribe"}
    BY <1>2 DEF handleStart, handleAgree, issueStartgroupDeeplink, ConsumeToken, LinkSupergroup,
        Intrusion, toggleOn, UnsubscribeRow, list, Restart, Next1, Idle, Job
<1>3. ASSUME NEW o, Promote(o) PROVE Good
    <2>1. last'.chat \in Chats
        BY <1>1, <1>3, TakesHead, UpdateFields DEF Promote
    <2>2. job' = Idle \/ \E u \in Users : users[u].link = last'.chat /\ job' = Job("list", u, last'.chat)
        BY <1>3 DEF Promote, Next1, FindUserByChatID
    <2> QED BY <2>1, <2>2 DEF Idle, Job, Provisioning
<1>4. ASSUME NEW o, SubscribeRow(o) PROVE Good
    <2>1. PICK u \in Users : job' = Idle \/ (Ready(u) /\ job' = Job("list", u, users[u].link))
        BY <1>4 DEF SubscribeRow, Next1, AfterSubscribe, Types, JobTypes
    <2>2. Ready(u) => users[u].link \in Chats
        BY <1>1 DEF Ready, Row
    <2> QED BY <2>1, <2>2 DEF Idle, Job, Provisioning
<1>5. ASSUME NEW o, toggleOff(o) PROVE Good
    <2>1. PICK u \in Users, a \in Apps : u = last'.user /\ a = last'.app
        BY <1>1, <1>5, TakesHead, UpdateFields DEF toggleOff
    <2>2. \/ job' = Idle
          \/ \E p \in {"close", "unsubscribe"} :
                /\ p = "close" => Ready(u)
                /\ job' = [pc |-> p, user |-> u, chat |-> users[u].link, app |-> a, thread |-> rows[u][a]]
        BY <1>5, <2>1 DEF toggleOff
    <2>3. Ready(u) => users[u].link \in Chats
        BY <1>1 DEF Ready, Row
    <2> QED BY <2>2, <2>3 DEF Idle, Provisioning
<1>6. ASSUME NEW o, List(o) \/ CreateForumTopic(o) \/ Add(o) PROVE Good
    <2>1. job.pc \in Provisioning
        BY <1>6 DEF List, CreateForumTopic, Add, Provisioning
    <2>2. job' = Idle \/ (job'.user = job.user /\ job'.chat = job.chat)
        BY <1>6 DEF List, CreateForumTopic, Add, Next1, Provision
    <2> QED BY <2>1, <2>2 DEF Idle, Provisioning
<1>7. ASSUME NEW o, CloseForumTopic(o) \/ Remove(o) PROVE Good
    <2>1. PICK p : job' = [job EXCEPT !.pc = p]
        BY <1>7 DEF CloseForumTopic, Remove
    <2>2. PICK u, c, a, n : u = job.user /\ c = job.chat /\ a = job.app /\ n = job.thread
        OBVIOUS
    <2>3. /\ job.pc \in {"close", "remove"}
          /\ job = [pc |-> job.pc, user |-> u, chat |-> c, app |-> a, thread |-> n]
        BY <1>7, <2>2 DEF CloseForumTopic, Remove, Types, JobTypes, Closing
    <2>4. job' = [pc |-> p, user |-> u, chat |-> c, app |-> a, thread |-> n]
        BY <2>1, <2>3
    <2>5. job'.user = u /\ job'.chat = c
        BY <2>4
    <2> QED BY <2>2, <2>3, <2>5
<1>8. Admin \/ Telegram \/ UNCHANGED vars => job' = job
    BY DEF Admin, AdminSubscribe, AdminUnsubscribe, PatchUser, SetApp, PurgeApp, Telegram,
        SendCommand, SetRights, PresentToken, Join, Expire, vars
<1>9. job' = job => Good
    OBVIOUS
<1>10. job'.pc \notin {"idle", "issue", "link", "subscribe"}
    BY DEF Provisioning
<1> HIDE DEF Good
<1>11. Good
    BY <1>2, <1>3, <1>4, <1>5, <1>6, <1>7, <1>8, <1>9, <1>10 DEF Next, Poller
<1> QED BY <1>11 DEF Good

\* A row is about to be written for the topic that was just made.
LEMMA JobAdd ==
    ASSUME Types, [Next]_vars, job'.pc = "add"
    PROVE  \/ job' = job
           \/ \E o \in Outcomes :
                 /\ CreateForumTopic(o) /\ job.chat \in Chats /\ job.user \in Users /\ o = "ok"
                 /\ job' = [pc |-> "add", user |-> job.user, chat |-> job.chat, todo |-> job.todo,
                            thread |-> Len(threads[job.chat]) + 1]
                 /\ threads' = [threads EXCEPT ![job.chat] = Append(threads[job.chat], NewTopic(Min(job.todo)))]
<1>1. ASSUME NEW o, \/ handleStart(o) \/ handleAgree(o) \/ issueStartgroupDeeplink(o)
                    \/ ConsumeToken(o) \/ LinkSupergroup(o) \/ Intrusion(o) \/ UnsubscribeRow(o)
                    \/ Promote(o) \/ toggleOn(o) \/ SubscribeRow(o) \/ toggleOff(o) \/ List(o)
                    \/ Add(o)
                    \/ list \/ Restart
      PROVE  FALSE
    BY <1>1 DEF handleStart, handleAgree, issueStartgroupDeeplink, ConsumeToken, LinkSupergroup,
        Intrusion, UnsubscribeRow, Promote, toggleOn, SubscribeRow, toggleOff, List, Add, list,
        Restart, Next1, AfterSubscribe, Provision, Idle, Job
<1>2. ASSUME NEW o, CloseForumTopic(o) \/ Remove(o) PROVE FALSE
    <2>1. PICK p \in {"remove", "unsubscribe"} : job' = [job EXCEPT !.pc = p]
        BY <1>2 DEF CloseForumTopic, Remove
    <2>2. job = [pc |-> job.pc, user |-> job.user, chat |-> job.chat, app |-> job.app,
                 thread |-> job.thread]
        BY <1>2 DEF CloseForumTopic, Remove, Types, JobTypes, Closing
    <2>3. job'.pc = p
        BY <2>1, <2>2
    <2> QED BY <2>3
<1>3. ASSUME NEW o, CreateForumTopic(o)
      PROVE  /\ job.chat \in Chats /\ job.user \in Users /\ o = "ok"
             /\ job' = [pc |-> "add", user |-> job.user, chat |-> job.chat, todo |-> job.todo,
                        thread |-> Len(threads[job.chat]) + 1]
             /\ threads' = [threads EXCEPT ![job.chat] = Append(threads[job.chat], NewTopic(Min(job.todo)))]
    <2>1. job.chat \in Chats /\ job.user \in Users
        BY <1>3 DEF CreateForumTopic, Types, JobTypes, Provisioning
    <2>2. \A S : Provision(job.user, job.chat, S).pc # "add"
        BY DEF Provision, Idle
    <2> QED BY <1>3, <2>1, <2>2 DEF CreateForumTopic, NewTopic
<1>4. Admin \/ Telegram \/ UNCHANGED vars => job' = job
    BY DEF Admin, AdminSubscribe, AdminUnsubscribe, PatchUser, SetApp, PurgeApp, Telegram,
        SendCommand, SetRights, PresentToken, Join, Expire, vars
<1> QED BY <1>1, <1>2, <1>3, <1>4 DEF Next, Poller

\* Every step keeps recorded topics those of their apps.
LEMMA TopicsNamedNext ==
    ASSUME Types, LinkKnown, TopicsNamed, [Next]_vars
    PROVE  TopicsNamed'
<1>1. /\ linked \in [Users -> SUBSET Chats] /\ linked' \in [Users -> SUBSET Chats]
      /\ users \in [Users -> Row] /\ None \notin Chats /\ threads \in [Chats -> Seq(Topic)]
    BY TokensType, OnboardingAssumption DEF Types, TypeOK
<1>2. \A u \in Users : linked[u] \subseteq linked'[u]
    BY LinkedGrows
<1>3. ASSUME NEW u \in Users, NEW a \in Apps, rows'[u][a] # 0
      PROVE  \E c \in linked'[u] : rows'[u][a] \in DOMAIN threads'[c] /\ threads'[c][rows'[u][a]].app = a
    <2>1. PICK n : n = rows'[u][a]
        OBVIOUS
    <2>2. CASE n = rows[u][a]
        <3>1. PICK c \in linked[u] : Names(c, n, a)
            BY <1>3, <2>1, <2>2 DEF TopicsNamed
        <3>2. c \in Chats /\ c \in linked'[u]
            BY <1>1, <1>2, <3>1
        <3>3. Names(c, n, a)'
            BY <3>1, <3>2, NamesKept
        <3> QED BY <2>1, <3>2, <3>3 DEF Names
    <2>3. CASE job.pc = "add" /\ u = job.user /\ a = Min(job.todo) /\ n = job.thread
        <3>1. PICK c : c = job.chat
            OBVIOUS
        <3>2. c \in linked[u] /\ Names(c, n, a)
            BY <2>3, <3>1 DEF TopicsNamed, Provisioning
        <3>3. c \in Chats /\ c \in linked'[u]
            BY <1>1, <1>2, <3>2
        <3>4. Names(c, n, a)'
            BY <3>2, <3>3, NamesKept
        <3> QED BY <2>1, <3>3, <3>4 DEF Names
    <2> QED BY <1>3, <2>1, <2>2, <2>3, RowKept
<1>4. ASSUME job'.pc \in Provisioning \union {"close", "remove"}
      PROVE  job'.chat \in linked'[job'.user]
    <2>1. CASE /\ job.pc \in Provisioning \union {"close", "remove"}
               /\ job'.user = job.user /\ job'.chat = job.chat
        <3>1. job.user \in Users
            BY <2>1 DEF Types, JobTypes, Provisioning
        <3> QED BY <1>2, <2>1, <3>1 DEF TopicsNamed
    <2>2. CASE job'.user \in Users /\ job'.chat \in Chats /\ users[job'.user].link = job'.chat
        <3>1. \A u \in Users : users[u].link \in Chats => users[u].link \in linked'[u]
            BY <1>1, <1>2 DEF LinkKnown
        <3> QED BY <2>2, <3>1
    <2> QED BY <1>4, <2>1, <2>2, JobChat
<1>5. ASSUME job'.pc = "add"
      PROVE  /\ job'.thread \in DOMAIN threads'[job'.chat]
             /\ threads'[job'.chat][job'.thread].app = Min(job'.todo)
    <2>1. CASE job' = job
        <3>1. PICK c, n, a : c = job.chat /\ n = job.thread /\ a = Min(job.todo)
            OBVIOUS
        <3>2. c \in Chats /\ Names(c, n, a)
            BY <1>5, <2>1, <3>1 DEF Types, JobTypes, Provisioning, TopicsNamed
        <3>3. Names(c, n, a)'
            BY <3>2, NamesKept
        <3> QED BY <2>1, <3>1, <3>3 DEF Names
    <2>2. CASE /\ job.chat \in Chats
               /\ job' = [pc |-> "add", user |-> job.user, chat |-> job.chat, todo |-> job.todo,
                          thread |-> Len(threads[job.chat]) + 1]
               /\ threads' = [threads EXCEPT ![job.chat] = Append(threads[job.chat], NewTopic(Min(job.todo)))]
        <3>1. PICK c, s, a : c = job.chat /\ s = threads[c] /\ a = Min(job.todo)
            OBVIOUS
        <3>2. s \in Seq(Topic) /\ threads'[c] = Append(s, NewTopic(a)) /\ Len(s) \in Nat
            BY <1>1, <2>2, <3>1
        <3>3. /\ Len(s) + 1 \in DOMAIN Append(s, NewTopic(a))
              /\ Append(s, NewTopic(a))[Len(s) + 1] = NewTopic(a)
            BY <3>2
        <3>4. NewTopic(a).app = a
            BY DEF NewTopic
        <3>5. job'.chat = c /\ job'.thread = Len(s) + 1 /\ job'.todo = job.todo
            BY <2>2, <3>1
        <3> QED BY <3>1, <3>2, <3>3, <3>4, <3>5
    <2> QED BY <1>5, <2>1, <2>2, JobAdd
<1>6. ASSUME NEW c \in Chats, threads'[c] # <<>>
      PROVE  \E u \in Users : c \in linked'[u]
    <2>1. CASE threads[c] # <<>>
        BY <1>2, <2>1 DEF TopicsNamed
    <2>2. CASE threads[c] = <<>>
        <3>1. PICK o \in Outcomes : c = job.chat /\ (CreateForumTopic(o) \/ CloseForumTopic(o))
            BY <1>6, <2>2, ThreadsOf
        <3>2. job.user \in Users /\ c \in linked[job.user]
            BY <3>1 DEF CreateForumTopic, CloseForumTopic, Types, JobTypes, Provisioning, TopicsNamed
        <3> QED BY <1>2, <3>2
    <2> QED BY <2>1, <2>2
<1> QED BY <1>3, <1>4, <1>5, <1>6 DEF TopicsNamed, Names

-----------------------------------------------------------------------------
(* Without faults: one topic for each app. *)

\* Whatever happens while nothing has failed.
LEMMA CleanSteps ==
    ASSUME Types, [Next]_vars, faults' = 0
    PROVE  /\ faults = 0
           /\ \/ job = Idle /\ (list \/ Beginning("ok"))
              \/ Continuing("ok")
              \/ job' = job /\ UNCHANGED threads /\ (Admin \/ Telegram \/ UNCHANGED vars)
<1>1. faults \in Nat
    BY OnboardingAssumption DEF Types, TypeOK
<1>2. ASSUME NEW o, Outcome(o) PROVE o = "ok" /\ faults = 0
    BY <1>1, <1>2 DEF Outcome
<1>3. ASSUME NEW o, Beginning(o) PROVE Outcome(o) /\ job = Idle
    BY <1>3 DEF Beginning, handleStart, handleAgree, ConsumeToken, Promote, Intrusion, toggleOn,
        toggleOff, Takes
<1>4. ASSUME NEW o, Continuing(o) PROVE Outcome(o)
    BY <1>4 DEF Continuing, issueStartgroupDeeplink, LinkSupergroup, SubscribeRow, List,
        CreateForumTopic, Add, CloseForumTopic, Remove, UnsubscribeRow
<1>5. list => job = Idle /\ faults = 0
    BY DEF list, Takes
<1>6. ~Restart
    BY <1>1 DEF Restart
<1>7. Admin \/ Telegram \/ UNCHANGED vars => UNCHANGED <<job, threads, faults>>
    BY DEF Admin, AdminSubscribe, AdminUnsubscribe, PatchUser, SetApp, PurgeApp, Telegram,
        SendCommand, SetRights, PresentToken, Join, Expire, vars, chat
<1>8. ASSUME NEW o, Beginning(o) PROVE Beginning("ok") /\ job = Idle /\ faults = 0
    BY <1>2, <1>3, <1>8
<1>9. ASSUME NEW o, Continuing(o) PROVE Continuing("ok") /\ faults = 0
    BY <1>2, <1>4, <1>9
<1> QED BY <1>5, <1>6, <1>7, <1>8, <1>9, PollerSteps DEF Next

\* A handler that is to write a row either does, or does nothing yet.
LEMMA CleanAdd ==
    ASSUME Types, [Next]_vars, faults' = 0, job.pc = "add"
    PROVE  job' = job \/ Add("ok")
<1>1. job # Idle
    BY DEF Idle
<1>2. Continuing("ok") => Add("ok")
    BY DEF Continuing, issueStartgroupDeeplink, LinkSupergroup, SubscribeRow, List, CreateForumTopic,
        CloseForumTopic, Remove, UnsubscribeRow
<1> QED BY <1>1, <1>2, CleanSteps

\* A purged app stays purged.
LEMMA GoneNext ==
    ASSUME Types, [Next]_vars, \A a \in Apps : apps[a] = "gone" => a \in purged
    PROVE  (\A a \in Apps : apps'[a] = "gone" => a \in purged') /\ purged \subseteq purged'
<1>1. apps \in [Apps -> AppStates]
    BY DEF Types, TypeOK
<1>2. ASSUME NEW b \in Apps, PurgeApp(b)
      PROVE  (\A a \in Apps : apps'[a] = "gone" => a \in purged') /\ purged \subseteq purged'
    BY <1>1, <1>2 DEF PurgeApp
<1>3. ASSUME NEW b \in Apps, NEW s \in AppStates, SetApp(b, s)
      PROVE  (\A a \in Apps : apps'[a] = "gone" => a \in purged') /\ purged \subseteq purged'
    BY <1>1, <1>3, OnboardingAssumption DEF SetApp, history
<1>4. ASSUME NEW o, Beginning(o) \/ Continuing(o) PROVE UNCHANGED <<apps, purged>>
    BY <1>4 DEF Beginning, handleStart, handleAgree, ConsumeToken, Promote, Intrusion, toggleOn,
        SubscribeRow, toggleOff, Continuing, issueStartgroupDeeplink, LinkSupergroup, List,
        CreateForumTopic, Add, CloseForumTopic, Remove, UnsubscribeRow, tables, history
<1>5. list \/ Telegram \/ Restart \/ UNCHANGED vars => UNCHANGED <<apps, purged>>
    BY DEF list, Telegram, SendCommand, SetRights, PresentToken, Join, Expire, Restart, vars, tables, history
<1>6. ASSUME NEW u \in Users, NEW a \in Apps, AdminSubscribe(u, a) \/ AdminUnsubscribe(u, a)
      PROVE  UNCHANGED <<apps, purged>>
    BY <1>6 DEF AdminSubscribe, AdminUnsubscribe
<1>7. ASSUME NEW u \in Users, NEW r \in Grades, PatchUser(u, r)
      PROVE  UNCHANGED <<apps, purged>>
    BY <1>7 DEF PatchUser, history
<1> QED BY <1>2, <1>3, <1>4, <1>5, <1>6, <1>7, PollerSteps DEF Next, Admin

\* A topic that is open was open, or has just been made.
LEMMA OpenBefore ==
    ASSUME Types, [Next]_vars, NEW c \in Chats, NEW a, NEW n \in OpenTopics(c, a)'
    PROVE  \/ n \in OpenTopics(c, a)
           \/ /\ \E o \in Outcomes : CreateForumTopic(o)
              /\ c = job.chat /\ a = Min(job.todo) /\ n = Len(threads[c]) + 1
              /\ threads'[c] # threads[c]
<1>1. n \in DOMAIN threads'[c] /\ threads'[c][n] = NewTopic(a)
    BY DEF OpenTopics, NewTopic
<1>2. DOMAIN threads'[c] = 1..Len(threads'[c]) /\ DOMAIN threads[c] = 1..Len(threads[c]) /\ Len(threads[c]) \in Nat
    BY ThreadsOf
<1>3. n \in DOMAIN threads[c] /\ threads[c][n] = NewTopic(a) => n \in OpenTopics(c, a)
    BY DEF OpenTopics, NewTopic
<1>4. CASE threads'[c] = threads[c]
    BY <1>1, <1>3, <1>4
<1>5. CASE /\ \E o \in Outcomes : CreateForumTopic(o)
           /\ c = job.chat /\ Len(threads'[c]) = Len(threads[c]) + 1
           /\ threads'[c][Len(threads'[c])] = NewTopic(Min(job.todo))
           /\ \A i \in 1..Len(threads[c]) : threads'[c][i] = threads[c][i]
    <2>1. CASE n \in 1..Len(threads[c])
        BY <1>1, <1>2, <1>3, <1>5, <2>1
    <2>2. CASE n = Len(threads[c]) + 1
        <3>1. NewTopic(Min(job.todo)) = NewTopic(a)
            BY <1>1, <1>5, <2>2
        <3>2. \A x, y : NewTopic(x) = NewTopic(y) => x = y
            BY DEF NewTopic
        <3>3. threads'[c] # threads[c]
            BY <1>2, <1>5
        <3> QED BY <1>5, <2>2, <3>1, <3>2, <3>3
    <2> QED BY <1>1, <1>2, <1>5, <2>1, <2>2
<1>6. CASE /\ Len(threads'[c]) = Len(threads[c]) /\ job.thread \in 1..Len(threads[c])
           /\ threads'[c][job.thread] = [threads[c][job.thread] EXCEPT !.open = FALSE]
           /\ \A i \in 1..Len(threads[c]) : i # job.thread => threads'[c][i] = threads[c][i]
    <2>1. threads[c][job.thread] \in Topic
        BY <1>6, ThreadsOf, ElementOfSeq
    <2>2. [threads[c][job.thread] EXCEPT !.open = FALSE].open = FALSE /\ NewTopic(a).open = TRUE
        BY <2>1 DEF Topic, NewTopic
    <2>3. n # job.thread
        BY <1>1, <1>6, <2>2
    <2> QED BY <1>1, <1>2, <1>3, <1>6, <2>3
<1> QED BY <1>4, <1>5, <1>6, ThreadsOf

\* The apps a topic will be made for have none.
LEMMA TodoFreeNext ==
    ASSUME Types, TodoFree, [Next]_vars, faults' = 0
    PROVE  TodoFree'
<1>1. rows \in [Users -> [Apps -> 0..MaxThreads]] /\ rows' \in [Users -> [Apps -> 0..MaxThreads]]
    BY RowsType DEF Types, TypeOK
<1>2. ASSUME NEW u \in Users, NEW c, NEW S, S \subseteq Apps, \A a \in S : rows'[u][a] = 0,
             job' = Provision(u, c, S)
      PROVE  TodoFree'
    BY <1>2 DEF TodoFree, Provision, Idle
<1>3. CASE job' = job
    <2>1. ASSUME job.pc \in {"create", "add"}, NEW a \in job.todo PROVE rows'[job.user][a] = 0
        <3>1. job.user \in Users /\ a \in Apps /\ rows[job.user][a] = 0
            BY <2>1 DEF Types, JobTypes, TodoFree
        <3>2. CASE rows' = rows
            BY <3>1, <3>2
        <3>3. ASSUME NEW b \in Apps, PurgeApp(b) PROVE rows'[job.user][a] = 0
            BY <1>1, <3>1, <3>3 DEF PurgeApp
        <3>4. ASSUME NEW o, Add(o) \/ Remove(o) PROVE job' # job
            <4>1. CASE Add(o)
                <5>1. job' = Idle \/ job'.pc = "create"
                    BY <4>1 DEF Add, Provision
                <5> QED BY <4>1, <5>1 DEF Add, Idle
            <4>2. CASE Remove(o)
                BY <2>1, <4>2 DEF Remove
            <4> QED BY <3>4, <4>1, <4>2
        <3> QED BY <1>3, <3>2, <3>3, <3>4, RowsMove
    <2> QED BY <1>3, <2>1 DEF TodoFree
<1>4. CASE List("ok")
    <2>1. job.user \in Users /\ UNCHANGED rows
        BY <1>4 DEF List, Types, JobTypes, tables
    <2>2. job' = Provision(job.user, job.chat, ListSubscribedAppsWithoutTopic(job.user))
        BY <1>4 DEF List, Next1
    <2> QED BY <1>2, <2>1, <2>2 DEF ListSubscribedAppsWithoutTopic
<1>5. CASE CreateForumTopic("ok")
    <2>1. PICK u, c, S : u = job.user /\ c = job.chat /\ S = job.todo
        OBVIOUS
    <2>2. u \in Users /\ S \subseteq Apps /\ UNCHANGED rows /\ \A a \in S : rows[u][a] = 0
        BY <1>5, <2>1 DEF CreateForumTopic, Types, JobTypes, tables, TodoFree
    <2>3. \/ job' = Provision(u, c, S \ {Min(S)})
          \/ job' = [pc |-> "add", user |-> u, chat |-> c, todo |-> S, thread |-> Len(threads[c]) + 1]
        BY <1>5, <2>1 DEF CreateForumTopic
    <2>4. CASE job' = [pc |-> "add", user |-> u, chat |-> c, todo |-> S, thread |-> Len(threads[c]) + 1]
        BY <2>2, <2>4 DEF TodoFree
    <2> QED BY <1>2, <2>2, <2>3, <2>4
<1>6. CASE Add("ok")
    <2>1. PICK u, c, S, n : u = job.user /\ c = job.chat /\ S = job.todo /\ n = job.thread
        OBVIOUS
    <2>2. u \in Users /\ S \subseteq Apps /\ \A a \in S : rows[u][a] = 0
        BY <1>6, <2>1 DEF Add, Types, JobTypes, TodoFree
    <2>3. job' = Provision(u, c, S \ {Min(S)}) /\ (rows' = rows \/ rows' = [rows EXCEPT ![u][Min(S)] = n])
        BY <1>6, <2>1 DEF Add, AddTopic, ProvisionedApp
    <2>4. \A a \in S \ {Min(S)} : rows'[u][a] = 0
        BY <1>1, <2>2, <2>3
    <2> QED BY <1>2, <2>2, <2>3, <2>4
<1>7. ASSUME job'.pc \notin {"create", "add"} PROVE TodoFree'
    BY <1>7 DEF TodoFree
<1>8. CASE \/ issueStartgroupDeeplink("ok") \/ LinkSupergroup("ok") \/ SubscribeRow("ok")
           \/ UnsubscribeRow("ok") \/ list
    BY <1>7, <1>8 DEF issueStartgroupDeeplink, LinkSupergroup, SubscribeRow, UnsubscribeRow, list,
        Next1, AfterSubscribe, Job, Idle
<1>9. CASE CloseForumTopic("ok") \/ Remove("ok")
    <2>1. PICK p \in {"remove", "unsubscribe"} : job' = [job EXCEPT !.pc = p]
        BY <1>9 DEF CloseForumTopic, Remove
    <2>2. job = [pc |-> job.pc, user |-> job.user, chat |-> job.chat, app |-> job.app,
                 thread |-> job.thread]
        BY <1>9 DEF CloseForumTopic, Remove, Types, JobTypes, Closing
    <2>3. job'.pc = p
        BY <2>1, <2>2
    <2> QED BY <1>7, <2>3
<1>10. CASE Beginning("ok")
    <2>1. job'.pc \notin {"create", "add"}
        BY <1>10 DEF Beginning, handleStart, handleAgree, ConsumeToken, Promote, Intrusion, toggleOn,
            toggleOff, Next1, AfterSubscribe, Job, Idle
    <2> QED BY <1>7, <2>1
<1> QED BY <1>3, <1>4, <1>5, <1>6, <1>8, <1>9, <1>10, CleanSteps DEF Continuing

\* What is to be removed is the row that Close read, of a topic that is closed.
LEMMA ClosingRowNext ==
    ASSUME Types, ClosingRow, PurgedKnown, [Next]_vars, faults' = 0
    PROVE  ClosingRow'
<1>1. /\ rows \in [Users -> [Apps -> 0..MaxThreads]] /\ queue \in Seq(Updates)
      /\ threads \in [Chats -> Seq(Topic)] /\ users \in [Users -> Row]
    BY DEF Types, TypeOK
<1>2. ASSUME job'.pc \notin {"close", "remove"} PROVE ClosingRow'
    BY <1>2 DEF ClosingRow
<1>3. purged \subseteq purged'
    BY GoneNext DEF PurgedKnown
<1>4. ASSUME job' = job, UNCHANGED threads, Admin \/ Telegram \/ UNCHANGED vars PROVE ClosingRow'
    <2>1. job'.pc = "remove" => job'.thread \notin OpenTopics(job.chat, job.app)'
        BY <1>4 DEF ClosingRow, OpenTopics
    <2>2. ASSUME job.pc \in {"close", "remove"}, job.app \notin purged'
          PROVE  rows'[job.user][job.app] = job.thread
        <3>1. job.user \in Users /\ job.app \in Apps /\ rows[job.user][job.app] = job.thread
            BY <1>3, <2>2 DEF Types, JobTypes, Closing, ClosingRow
        <3>2. ASSUME NEW b \in Apps, PurgeApp(b) PROVE rows'[job.user][job.app] = job.thread
            <4>1. b # job.app
                BY <2>2, <3>2 DEF PurgeApp
            <4> QED BY <1>1, <3>1, <3>2, <4>1 DEF PurgeApp
        <3>3. rows' = rows \/ \E b \in Apps : PurgeApp(b)
            BY <1>4 DEF Admin, AdminSubscribe, AdminUnsubscribe, PatchUser, SetApp, Telegram,
                SendCommand, SetRights, PresentToken, Join, Expire, vars, tables
        <3> QED BY <3>1, <3>2, <3>3
    <2> QED BY <1>4, <2>1, <2>2 DEF ClosingRow
<1>5. CASE toggleOff("ok")
    <2>1. PICK u \in Users, a \in Apps : u = last'.user /\ a = last'.app
        BY <1>1, <1>5, TakesHead, UpdateFields DEF toggleOff
    <2>2. UNCHANGED rows /\ (job' = Idle \/ \E p \in {"close", "unsubscribe"} :
                job' = [pc |-> p, user |-> u, chat |-> users[u].link, app |-> a, thread |-> rows[u][a]])
        BY <1>5, <2>1 DEF toggleOff, tables
    <2>3. CASE job' = Idle
        BY <1>2, <2>3 DEF Idle
    <2>4. ASSUME NEW p \in {"close", "unsubscribe"},
                 job' = [pc |-> p, user |-> u, chat |-> users[u].link, app |-> a, thread |-> rows[u][a]]
          PROVE  ClosingRow'
        BY <2>2, <2>4 DEF ClosingRow
    <2> QED BY <2>2, <2>3, <2>4
<1>6. CASE CloseForumTopic("ok")
    <2>1. PICK u, c, a, n : u = job.user /\ c = job.chat /\ a = job.app /\ n = job.thread
        OBVIOUS
    <2>2. /\ job.pc = "close" /\ c \in Chats /\ job = [pc |-> job.pc, user |-> u, chat |-> c, app |-> a, thread |-> n]
          /\ UNCHANGED <<rows, purged>>
        BY <1>6, <2>1 DEF CloseForumTopic, Types, JobTypes, Closing, tables, history
    <2>3. \/ job' = [job EXCEPT !.pc = "unsubscribe"]
          \/ /\ job' = [job EXCEPT !.pc = "remove"] /\ n \in DOMAIN threads[c]
             /\ threads' = [threads EXCEPT ![c][n].open = FALSE]
        BY <1>6, <2>1 DEF CloseForumTopic, Effective
    <2>4. CASE job' = [job EXCEPT !.pc = "unsubscribe"]
        BY <1>2, <2>2, <2>4
    <2>5. CASE /\ job' = [job EXCEPT !.pc = "remove"] /\ n \in DOMAIN threads[c]
               /\ threads' = [threads EXCEPT ![c][n].open = FALSE]
        <3>1. job' = [pc |-> "remove", user |-> u, chat |-> c, app |-> a, thread |-> n]
            BY <2>2, <2>5
        <3>2. a \notin purged => rows'[u][a] = n
            BY <2>1, <2>2 DEF ClosingRow
        <3>3. threads[c][n] \in Topic
            BY <1>1, <2>2, <2>5, ElementOfSeq
        <3>4. threads'[c][n].open = FALSE
            <4>1. threads'[c][n] = [threads[c][n] EXCEPT !.open = FALSE]
                BY <1>1, <2>2, <2>5
            <4> QED BY <3>3, <4>1 DEF Topic
        <3>5. n \notin OpenTopics(c, a)'
            BY <3>4 DEF OpenTopics
        <3> QED BY <2>2, <3>1, <3>2, <3>5 DEF ClosingRow, OpenTopics
    <2> QED BY <2>3, <2>4, <2>5
<1>7. CASE Remove("ok")
    <2>1. job = [pc |-> job.pc, user |-> job.user, chat |-> job.chat, app |-> job.app, thread |-> job.thread]
        BY <1>7 DEF Remove, Types, JobTypes, Closing
    <2>2. job'.pc = "unsubscribe"
        BY <1>7, <2>1 DEF Remove
    <2> QED BY <1>2, <2>2
<1>8. CASE \/ issueStartgroupDeeplink("ok") \/ LinkSupergroup("ok") \/ List("ok") \/ CreateForumTopic("ok")
           \/ Add("ok") \/ UnsubscribeRow("ok") \/ list
    BY <1>2, <1>8 DEF issueStartgroupDeeplink, LinkSupergroup, List, CreateForumTopic, Add,
        UnsubscribeRow, list, Next1, Provision, Idle
<1>9. CASE \/ handleStart("ok") \/ handleAgree("ok") \/ ConsumeToken("ok") \/ Promote("ok")
           \/ Intrusion("ok") \/ toggleOn("ok") \/ SubscribeRow("ok")
    BY <1>2, <1>9 DEF handleStart, handleAgree, ConsumeToken, Promote, Intrusion, toggleOn,
        SubscribeRow, Next1, AfterSubscribe, Job, Idle
<1> QED BY <1>4, <1>5, <1>6, <1>7, <1>8, <1>9, CleanSteps DEF Beginning, Continuing

\* A chat whose only link is the one of user u, now or before the step.
LEMMA LinkedBefore ==
    ASSUME Types, TopicsNamed, [Next]_vars, NEW u \in Users, NEW c \in Chats,
           linked'[u] = {c}, Unshared(c)'
    PROVE  linked[u] = {c} \/ (threads[c] = <<>> /\ UNCHANGED threads)
<1>1. linked \in [Users -> SUBSET Chats] /\ linked[u] \subseteq {c}
    BY LinkedGrows DEF Types, TypeOK
<1>2. CASE linked[u] = {}
    <2>1. ASSUME threads[c] # <<>> PROVE FALSE
        <3>1. PICK x \in Users : c \in linked[x]
            BY <2>1 DEF TopicsNamed
        <3>2. c \in linked'[x]
            BY <3>1, LinkedGrows
        <3> DEFINE S == {v \in Users : c \in linked'[v]}
        <3>3. S \subseteq Users /\ u \in S /\ x \in S
            BY <3>2
        <3>4. IsFiniteSet(S) /\ Cardinality(S) <= 1
            BY <3>3, FS_Subset, OnboardingAssumption DEF Unshared
        <3> HIDE DEF S
        <3>5. x = u
            BY <3>3, <3>4, CardLeOne
        <3> QED BY <1>2, <3>1, <3>5
    <2>2. PICK o \in Outcomes : LinkSupergroup(o)
        <3>1. linked' # linked
            BY <1>2
        <3> QED BY <3>1, LinksMove
    <2>3. UNCHANGED threads
        BY <2>2 DEF LinkSupergroup, chat
    <2> QED BY <2>1, <2>3
<1> QED BY <1>1, <1>2

\* Without a fault, every open topic stays recorded.
LEMMA OpenRecordedNext ==
    ASSUME Types, TopicsNamed, OpenRecorded, TodoFree, ClosingRow, PurgedKnown, [Next]_vars, faults' = 0
    PROVE  OpenRecorded'
<1>1. /\ linked \in [Users -> SUBSET Chats] /\ rows \in [Users -> [Apps -> 0..MaxThreads]]
      /\ threads \in [Chats -> Seq(Topic)]
    BY DEF Types, TypeOK
<1> SUFFICES ASSUME NEW u \in Users, NEW a \in Apps, a \notin purged', NEW c \in Chats,
                    linked'[u] = {c}, Unshared(c)', NEW n \in OpenTopics(c, a)'
             PROVE  \/ rows'[u][a] = n
                    \/ job'.pc = "add" /\ job'.user = u /\ job'.thread = n /\ Min(job'.todo) = a
    BY DEF OpenRecorded
<1>2. a \notin purged /\ Unshared(c)
    BY GoneNext, UnsharedBefore DEF PurgedKnown
<1>3. linked[u] = {c}
    <2>1. CASE threads[c] = <<>> /\ UNCHANGED threads
        BY <2>1 DEF OpenTopics
    <2> QED BY <2>1, LinkedBefore
<1>4. ASSUME rows[u][a] = n, n \in OpenTopics(c, a) PROVE rows'[u][a] = n
    <2>1. n # 0
        BY <1>1, <1>4 DEF OpenTopics
    <2>2. CASE /\ job.user \in Users /\ Min(job.todo) \in Apps /\ rows[job.user][Min(job.todo)] = 0
               /\ rows' = [rows EXCEPT ![job.user][Min(job.todo)] = job.thread]
        BY <1>1, <1>4, <2>1, <2>2
    <2>3. CASE /\ \E o \in Outcomes : Remove(o)
               /\ job.user \in Users /\ job.app \in Apps
               /\ rows' = [rows EXCEPT ![job.user][job.app] = 0]
        <3>1. job.pc = "remove"
            BY <2>3 DEF Remove
        <3>2. ASSUME u = job.user, a = job.app PROVE FALSE
            <4>1. job.chat = c
                BY <1>3, <3>1, <3>2 DEF TopicsNamed
            <4>2. job.thread = n
                BY <1>2, <1>4, <3>1, <3>2 DEF ClosingRow
            <4> QED BY <1>4, <3>1, <3>2, <4>1, <4>2 DEF ClosingRow
        <3> QED BY <1>1, <1>4, <2>3, <3>2
    <2>4. ASSUME NEW b \in Apps, PurgeApp(b) PROVE rows'[u][a] = n
        <3>1. b # a
            BY <2>4 DEF PurgeApp
        <3> QED BY <1>1, <1>4, <2>4, <3>1 DEF PurgeApp
    <2> QED BY <1>4, <2>2, <2>3, <2>4, RowsMove
<1>5. ASSUME job.pc = "add", job.user = u, job.thread = n, Min(job.todo) = a
      PROVE  \/ rows'[u][a] = n
             \/ job'.pc = "add" /\ job'.user = u /\ job'.thread = n /\ Min(job'.todo) = a
    <2>1. CASE job' = job
        BY <1>5, <2>1
    <2>2. CASE Add("ok")
        <3>1. job.todo \subseteq Apps /\ job.todo # {} /\ Apps \subseteq Nat
            BY <1>5, OnboardingAssumption DEF Types, JobTypes
        <3>2. a \in job.todo
            BY <1>5, <3>1, MinIn
        <3>3. rows[u][a] = 0 /\ apps[a] # "gone"
            BY <1>2, <1>5, <3>2 DEF TodoFree, PurgedKnown
        <3>4. rows' = [rows EXCEPT ![u][a] = n]
            BY <1>5, <2>2, <3>3 DEF Add, AddTopic, ProvisionedApp, Effective
        <3> QED BY <1>1, <3>4
    <2> QED BY <1>5, <2>1, <2>2, CleanAdd
<1>6. CASE n \in OpenTopics(c, a)
    BY <1>2, <1>3, <1>4, <1>5, <1>6 DEF OpenRecorded
<1>7. ASSUME NEW o \in Outcomes, CreateForumTopic(o), c = job.chat, a = Min(job.todo),
             n = Len(threads[c]) + 1, threads'[c] # threads[c]
      PROVE  job'.pc = "add" /\ job'.user = u /\ job'.thread = n /\ Min(job'.todo) = a
    <2>1. job.pc = "create" /\ job.user \in Users /\ c \in linked[job.user]
        BY <1>7 DEF CreateForumTopic, Types, JobTypes, TopicsNamed, Provisioning
    <2>2. job.user = u
        BY <1>2, <1>3, <2>1, OnlyOne
    <2>3. o = "ok"
        BY <1>7 DEF CreateForumTopic, Outcome, Types, TypeOK
    <2>4. job' = [pc |-> "add", user |-> job.user, chat |-> c, todo |-> job.todo,
                  thread |-> Len(threads[c]) + 1]
        BY <1>7, <2>3 DEF CreateForumTopic
    <2> QED BY <1>7, <2>2, <2>4
<1> QED BY <1>6, <1>7, OpenBefore

\* Without a fault, every step keeps one topic for an app.
LEMMA TopicsOnceNext ==
    ASSUME Types, TopicsNamed, TopicsOnce, [Next]_vars
    PROVE  TopicsOnce'
<1> SUFFICES ASSUME faults' = 0 PROVE OpenRecorded' /\ TodoFree' /\ ClosingRow' /\ PurgedKnown'
    BY DEF TopicsOnce
<1>1. OpenRecorded /\ TodoFree /\ ClosingRow /\ PurgedKnown
    BY CleanSteps DEF TopicsOnce
<1>2. PurgedKnown'
    BY <1>1, GoneNext DEF PurgedKnown
<1> QED BY <1>1, <1>2, OpenRecordedNext, TodoFreeNext, ClosingRowNext

-----------------------------------------------------------------------------
(* Without faults: a topic for each app. *)

\* Without a fault, no update is missed.
LEMMA MissedNext ==
    ASSUME Types, missed = {}, [Next]_vars, faults' = 0
    PROVE  missed' = {}
<1>1. Promote("ok") => missed' \subseteq missed
    BY DEF Promote
<1>2. Beginning("ok") \/ Continuing("ok") => Promote("ok") \/ missed' = missed
    BY DEF Beginning, Continuing, handleStart, handleAgree, ConsumeToken, Intrusion, toggleOn,
        SubscribeRow, toggleOff, issueStartgroupDeeplink, LinkSupergroup, List, CreateForumTopic,
        Add, CloseForumTopic, Remove, UnsubscribeRow, history
<1>3. list \/ Admin \/ Telegram \/ UNCHANGED vars => missed' = missed
    BY DEF list, Admin, AdminSubscribe, AdminUnsubscribe, PatchUser, SetApp, PurgeApp, Telegram,
        SendCommand, SetRights, PresentToken, Join, Expire, vars, history
<1> QED BY <1>1, <1>2, <1>3, CleanSteps

\* Subscriptions are made by /subscribe and by the admin API, to an app that is
\* there, and end with it.
LEMMA SubsMove ==
    ASSUME Types, [Next]_vars
    PROVE  \/ UNCHANGED <<subs, silent>>
           \/ \E o \in Outcomes, u \in Users, a \in Apps :
                 /\ SubscribeRow(o) /\ job.user = u /\ job.app = a /\ apps[a] # "gone"
                 /\ subs' = subs \union {<<u, a>>} /\ silent' = silent
           \/ \E o \in Outcomes :
                 /\ UnsubscribeRow(o) /\ subs' = subs \ {<<job.user, job.app>>}
                 /\ silent' = silent \ {<<job.user, job.app>>}
           \/ \E u \in Users, a \in Apps :
                 /\ AdminSubscribe(u, a) /\ subs' = subs \union {<<u, a>>} /\ silent' = silent \union {<<u, a>>}
           \/ \E u \in Users, a \in Apps : subs' = subs \ {<<u, a>>} /\ silent' = silent \ {<<u, a>>}
           \/ \E a \in Apps :
                 /\ PurgeApp(a) /\ subs' = {p \in subs : p[2] # a} /\ silent' = {p \in silent : p[2] # a}
<1>1. ASSUME NEW o \in Outcomes, SubscribeRow(o) PROVE silent' = silent
    BY <1>1 DEF SubscribeRow, history
<1>2. ASSUME NEW o \in Outcomes, SubscribeRow(o), subs' # subs
      PROVE  \E u \in Users, a \in Apps :
                 /\ job.user = u /\ job.app = a /\ apps[a] # "gone"
                 /\ subs' = subs \union {<<u, a>>} /\ silent' = silent
    <2>1. job.user \in Users /\ job.app \in Apps
        BY <1>2 DEF SubscribeRow, Types, JobTypes
    <2> QED BY <1>1, <1>2, <2>1 DEF SubscribeRow
<1>3. ASSUME NEW o, toggleOn(o) PROVE UNCHANGED <<subs, silent>>
    BY <1>3 DEF toggleOn, tables, history
<1>4. ASSUME NEW o, UnsubscribeRow(o)
      PROVE  \/ UNCHANGED <<subs, silent>>
             \/ subs' = subs \ {<<job.user, job.app>>} /\ silent' = silent \ {<<job.user, job.app>>}
    BY <1>4 DEF UnsubscribeRow
<1>5. ASSUME NEW o, \/ handleStart(o) \/ handleAgree(o) \/ issueStartgroupDeeplink(o)
                    \/ ConsumeToken(o) \/ LinkSupergroup(o) \/ Promote(o) \/ Intrusion(o)
                    \/ List(o) \/ CreateForumTopic(o) \/ Add(o) \/ toggleOff(o)
                    \/ CloseForumTopic(o) \/ Remove(o)
      PROVE  UNCHANGED <<subs, silent>>
    BY <1>5 DEF handleStart, handleAgree, issueStartgroupDeeplink, ConsumeToken, LinkSupergroup,
        Promote, Intrusion, List, CreateForumTopic, Add, toggleOff, CloseForumTopic, Remove,
        tables, history
<1>6. list \/ Telegram \/ Restart \/ UNCHANGED vars => UNCHANGED <<subs, silent>>
    BY DEF list, Telegram, SendCommand, SetRights, PresentToken, Join, Expire, Restart, vars,
        tables, history
<1>7. ASSUME NEW u \in Users, NEW r \in Grades, PatchUser(u, r) PROVE UNCHANGED <<subs, silent>>
    BY <1>7 DEF PatchUser, history
<1>8. ASSUME NEW a \in Apps, NEW s \in AppStates, SetApp(a, s) PROVE UNCHANGED <<subs, silent>>
    BY <1>8 DEF SetApp, history
<1>9. ASSUME NEW u \in Users, NEW a \in Apps
      PROVE  /\ AdminSubscribe(u, a) => subs' = subs \union {<<u, a>>} /\ silent' = silent \union {<<u, a>>}
             /\ AdminUnsubscribe(u, a) => subs' = subs \ {<<u, a>>} /\ silent' = silent \ {<<u, a>>}
    BY DEF AdminSubscribe, AdminUnsubscribe
<1>10. ASSUME NEW a \in Apps, PurgeApp(a)
       PROVE  subs' = {p \in subs : p[2] # a} /\ silent' = {p \in silent : p[2] # a}
    BY <1>10 DEF PurgeApp
<1>11. CASE Poller
    BY <1>1, <1>2, <1>3, <1>4, <1>5, <1>6, <1>11 DEF Poller
<1>12. CASE Admin
    BY <1>7, <1>8, <1>9, <1>10, <1>12 DEF Admin
<1> QED BY <1>6, <1>11, <1>12 DEF Next

\* Every step keeps subscriptions to apps that are there.
LEMMA SubsKnownNext ==
    ASSUME Types, SubsKnown, [Next]_vars
    PROVE  SubsKnown'
<1>1. apps \in [Apps -> AppStates] /\ subs \subseteq Users \X Apps
    BY DEF Types, TypeOK
<1>2. ASSUME NEW b \in Apps, PurgeApp(b) PROVE SubsKnown'
    BY <1>1, <1>2 DEF PurgeApp, SubsKnown
<1>3. ASSUME NEW b \in Apps, NEW s \in AppStates, SetApp(b, s) PROVE SubsKnown'
    BY <1>1, <1>3, OnboardingAssumption DEF SetApp, SubsKnown
<1>4. ASSUME NEW o, Beginning(o) \/ Continuing(o) PROVE UNCHANGED apps
    BY <1>4 DEF Beginning, handleStart, handleAgree, ConsumeToken, Promote, Intrusion, toggleOn,
        SubscribeRow, toggleOff, Continuing, issueStartgroupDeeplink, LinkSupergroup, List,
        CreateForumTopic, Add, CloseForumTopic, Remove, UnsubscribeRow, tables
<1>5. list \/ Telegram \/ Restart \/ UNCHANGED vars => UNCHANGED apps
    BY DEF list, Telegram, SendCommand, SetRights, PresentToken, Join, Expire, Restart, vars, tables
<1>6. ASSUME NEW u \in Users, NEW a \in Apps, AdminSubscribe(u, a) \/ AdminUnsubscribe(u, a)
      PROVE  UNCHANGED apps
    BY <1>6 DEF AdminSubscribe, AdminUnsubscribe
<1>7. ASSUME NEW u \in Users, NEW r \in Grades, PatchUser(u, r) PROVE UNCHANGED apps
    BY <1>7 DEF PatchUser
<1>8. ASSUME UNCHANGED apps, ~\E b \in Apps : PurgeApp(b) PROVE SubsKnown'
    <2>1. ASSUME NEW u \in Users, NEW a \in Apps, subs' = subs \union {<<u, a>>}, apps[a] # "gone"
          PROVE  SubsKnown'
        BY <1>8, <2>1 DEF SubsKnown
    <2>2. CASE subs' \subseteq subs
        BY <1>8, <2>2 DEF SubsKnown
    <2> QED BY <1>8, <2>1, <2>2, SubsMove DEF AdminSubscribe
<1>9. \/ UNCHANGED apps \/ (\E b \in Apps : PurgeApp(b))
      \/ \E b \in Apps, s \in AppStates : SetApp(b, s)
    BY <1>4, <1>5, <1>6, <1>7, PollerSteps DEF Next, Admin
<1> QED BY <1>2, <1>3, <1>8, <1>9

\* Nobody's link or flag changes while topics are made.
LEMMA ProvisioningKeeps ==
    ASSUME Types, [Next]_vars, job.pc \in Provisioning
    PROVE  \A u \in Users : users'[u].link = users[u].link /\ users'[u].admin = users[u].admin
<1>1. ASSUME NEW o PROVE ~LinkSupergroup(o) /\ ~Promote(o)
    BY DEF LinkSupergroup, Promote, Takes, Idle, Provisioning
<1> QED BY <1>1, LinksMove

\* Without a fault, topics are made in the chat that is linked.
LEMMA ProvisionsLinkedNext ==
    ASSUME Types, ProvisionsLinked, [Next]_vars, faults' = 0
    PROVE  ProvisionsLinked'
<1>1. queue \in Seq(Updates) /\ users \in [Users -> Row]
    BY DEF Types, TypeOK
<1>2. ASSUME job'.pc \notin Provisioning PROVE ProvisionsLinked'
    BY <1>2 DEF ProvisionsLinked
<1>3. ASSUME job.pc \in Provisioning, job'.user = job.user, job'.chat = job.chat PROVE ProvisionsLinked'
    <2>1. job.user \in Users
        BY <1>3 DEF Types, JobTypes, Provisioning
    <2> QED BY <1>3, <2>1, ProvisioningKeeps DEF ProvisionsLinked
<1>4. CASE job' = job
    BY <1>2, <1>3, <1>4
<1>5. CASE List("ok") \/ CreateForumTopic("ok") \/ Add("ok")
    <2>1. job.pc \in Provisioning
        BY <1>5 DEF List, CreateForumTopic, Add, Provisioning
    <2>2. job' = Idle \/ (job'.user = job.user /\ job'.chat = job.chat)
        BY <1>5 DEF List, CreateForumTopic, Add, Next1, Provision
    <2>3. job' = Idle => job'.pc \notin Provisioning
        BY DEF Idle, Provisioning
    <2> QED BY <1>2, <1>3, <2>1, <2>2, <2>3
<1>6. CASE Promote("ok")
    <2>1. \/ job' = Idle
          \/ \E u \in Users : /\ users[u].link = last'.chat /\ job' = Job("list", u, last'.chat)
                              /\ users' = SetBotIsAdmin(u, TRUE)
        BY <1>6 DEF Promote, Next1, FindUserByChatID
    <2>2. CASE job' = Idle
        BY <1>2, <2>2 DEF Idle, Provisioning
    <2>3. ASSUME NEW u \in Users, users[u].link = last'.chat, job' = Job("list", u, last'.chat),
                 users' = SetBotIsAdmin(u, TRUE)
          PROVE  ProvisionsLinked'
        <3>1. users'[u].admin = TRUE /\ users'[u].link = users[u].link
            BY <1>1, <2>3 DEF SetBotIsAdmin, Row
        <3>2. job'.user = u /\ job'.chat = last'.chat
            BY <2>3 DEF Job
        <3> QED BY <2>3, <3>1, <3>2 DEF ProvisionsLinked
    <2> QED BY <2>1, <2>2, <2>3
<1>7. CASE SubscribeRow("ok")
    <2>1. PICK u \in Users : job' = Idle \/ (Ready(u) /\ job' = Job("list", u, users[u].link))
        BY <1>7 DEF SubscribeRow, Next1, AfterSubscribe, Types, JobTypes
    <2>2. users' = users
        BY <1>7 DEF SubscribeRow
    <2>3. CASE job' = Idle
        BY <1>2, <2>3 DEF Idle, Provisioning
    <2>4. CASE Ready(u) /\ job' = Job("list", u, users[u].link)
        BY <2>2, <2>4 DEF Ready, Job, ProvisionsLinked
    <2> QED BY <2>1, <2>3, <2>4
<1>8. CASE \/ handleStart("ok") \/ handleAgree("ok") \/ issueStartgroupDeeplink("ok")
           \/ ConsumeToken("ok") \/ LinkSupergroup("ok") \/ Intrusion("ok") \/ UnsubscribeRow("ok")
           \/ toggleOn("ok") \/ toggleOff("ok") \/ list
    <2>1. job'.pc \in {"idle", "issue", "link", "subscribe"} \union Closing
        BY <1>8 DEF handleStart, handleAgree, issueStartgroupDeeplink, ConsumeToken, LinkSupergroup,
            Intrusion, UnsubscribeRow, toggleOn, toggleOff, list, Next1, Idle, Job, Closing
    <2> QED BY <1>2, <2>1 DEF Provisioning, Closing
<1>9. CASE CloseForumTopic("ok") \/ Remove("ok")
    <2>1. PICK p \in {"remove", "unsubscribe"} : job' = [job EXCEPT !.pc = p]
        BY <1>9 DEF CloseForumTopic, Remove
    <2>2. job = [pc |-> job.pc, user |-> job.user, chat |-> job.chat, app |-> job.app,
                 thread |-> job.thread]
        BY <1>9 DEF CloseForumTopic, Remove, Types, JobTypes, Closing
    <2>3. job'.pc = p
        BY <2>1, <2>2
    <2> QED BY <1>2, <2>3 DEF Provisioning
<1> QED BY <1>4, <1>5, <1>6, <1>7, <1>8, <1>9, CleanSteps DEF Beginning, Continuing

\* A handler goes on serving until the topic is there, the subscription is gone, or
\* Telegram has refused the topic to a bot that is no longer an admin.
LEMMA ServesNext ==
    ASSUME Types, FlagMatchesChat, missed = {}, SubsKnown, ProvisionsLinked, [Next]_vars, faults' = 0,
           NEW u \in Users, NEW a \in Apps, Due(u, a), Serves(u, a)
    PROVE  \/ Serves(u, a)'
           \/ rows'[u][a] # 0 \/ <<u, a>> \notin subs'
           \/ Demoted(users[u].link) /\ UNCHANGED <<queue, users>>
<1>1. /\ rows \in [Users -> [Apps -> 0..MaxThreads]] /\ Apps \subseteq Nat /\ users \in [Users -> Row]
      /\ MaxThreads \in Nat
    BY OnboardingAssumption DEF Types, TypeOK
<1>2. CASE job' = job
    BY <1>2 DEF Serves
<1>3. job # Idle
    BY DEF Serves, Idle, Closing
<1>4. CASE List("ok")
    <2>1. job.user = u
        BY <1>4 DEF List, Serves, Closing
    <2>2. a \in ListSubscribedAppsWithoutTopic(u)
        BY DEF Due, ListSubscribedAppsWithoutTopic
    <2>3. job' = Provision(u, job.chat, ListSubscribedAppsWithoutTopic(u))
        BY <1>4, <2>1 DEF List, Next1
    <2> QED BY <2>2, <2>3 DEF Provision, Serves
<1>5. CASE CreateForumTopic("ok")
    <2>1. PICK c, S : c = job.chat /\ S = job.todo
        OBVIOUS
    <2>2. job.pc = "create" /\ job.user = u /\ a \in S
        BY <1>5, <2>1 DEF CreateForumTopic, Serves, Closing
    <2>3. \/ job' = Provision(u, c, S \ {Min(S)})
          \/ job' = [pc |-> "add", user |-> u, chat |-> c, todo |-> S, thread |-> Len(threads[c]) + 1]
        BY <1>5, <2>1, <2>2 DEF CreateForumTopic
    <2>4. CASE job' = [pc |-> "add", user |-> u, chat |-> c, todo |-> S, thread |-> Len(threads[c]) + 1]
        BY <2>2, <2>4 DEF Serves
    <2>5. CASE job' = Provision(u, c, S \ {Min(S)}) /\ a # Min(S)
        BY <2>2, <2>5 DEF Serves, Provision
    <2>6. CASE job' = Provision(u, c, S \ {Min(S)}) /\ a = Min(S)
        <3>1. users[u].link = c /\ users[u].admin /\ Unshared(c) /\ Len(threads[c]) < MaxThreads
            BY <2>1, <2>2 DEF ProvisionsLinked, Provisioning, Due
        <3>2. job'.pc # "add"
            BY <2>6 DEF Provision, Idle
        <3>3. rights[c] # "admin"
            <4>1. rights[c] = "admin" => May(c) = {TRUE}
                BY DEF May
            <4>2. PICK may \in May(c) :
                      may => job' = [pc |-> "add", user |-> job.user, chat |-> c, todo |-> job.todo,
                                     thread |-> Len(threads[c]) + 1]
                BY <1>5, <2>1, <3>1 DEF CreateForumTopic, Effective
            <4>3. may => job'.pc = "add"
                BY <4>2
            <4>4. rights[c] = "admin" => may = TRUE
                BY <4>1, <4>2
            <4> QED BY <3>2, <4>3, <4>4, Zenon
        <3>4. Demoted(c)
            BY <3>1, <3>3, FlagIs
        <3> QED BY <1>5, <3>1, <3>4 DEF CreateForumTopic, tables
    <2> QED BY <2>3, <2>4, <2>5, <2>6
<1>6. CASE Add("ok")
    <2>1. PICK c, S, n : c = job.chat /\ S = job.todo /\ n = job.thread
        OBVIOUS
    <2>2. job.user = u /\ a \in S /\ n \in 1..MaxThreads
        BY <1>6, <2>1 DEF Add, Serves, Closing, Types, JobTypes
    <2>3. job' = Provision(u, c, S \ {Min(S)})
        BY <1>6, <2>1, <2>2 DEF Add
    <2>4. CASE a # Min(S)
        BY <2>2, <2>3, <2>4 DEF Serves, Provision
    <2>5. CASE a = Min(S)
        <3>1. <<u, a>> \in subs /\ rows[u][a] = 0
            BY DEF Due
        <3>2. apps[a] # "gone"
            BY <3>1 DEF SubsKnown
        <3>3. rows' = [rows EXCEPT ![u][a] = n]
            BY <1>6, <2>1, <2>2, <2>5, <3>1, <3>2 DEF Add, AddTopic, ProvisionedApp, Effective
        <3>4. rows'[u][a] = n
            BY <1>1, <3>3
        <3> QED BY <1>1, <2>2, <3>4
    <2> QED BY <2>4, <2>5
<1>7. CASE CloseForumTopic("ok") \/ Remove("ok")
    <2>1. PICK p \in {"remove", "unsubscribe"} : job' = [job EXCEPT !.pc = p]
        BY <1>7 DEF CloseForumTopic, Remove
    <2>2. PICK c, n : c = job.chat /\ n = job.thread
        OBVIOUS
    <2>3. job = [pc |-> job.pc, user |-> u, chat |-> c, app |-> a, thread |-> n]
        BY <1>7, <2>2 DEF CloseForumTopic, Remove, Types, JobTypes, Closing, Serves
    <2>4. job' = [pc |-> p, user |-> u, chat |-> c, app |-> a, thread |-> n]
        BY <2>1, <2>3
    <2> QED BY <2>4 DEF Serves, Closing
<1>8. CASE UnsubscribeRow("ok")
    <2>1. job.user = u /\ job.app = a
        BY <1>8 DEF UnsubscribeRow, Serves, Closing
    <2> QED BY <1>8, <2>1 DEF UnsubscribeRow, Effective
<1>9. ~issueStartgroupDeeplink("ok") /\ ~LinkSupergroup("ok") /\ ~SubscribeRow("ok")
    BY DEF issueStartgroupDeeplink, LinkSupergroup, SubscribeRow, Serves, Closing
<1> QED BY <1>2, <1>3, <1>4, <1>5, <1>6, <1>7, <1>8, <1>9, CleanSteps DEF Continuing

\* Without a fault, every topic that is due is there or on its way.
LEMMA DueServedNext ==
    ASSUME Types, LinkKnown, FlagMatchesChat, missed = {}, SubsKnown, ProvisionsLinked, DueServed,
           [Next]_vars, faults' = 0
    PROVE  DueServed'
<1>1. /\ rows \in [Users -> [Apps -> 0..MaxThreads]] /\ users \in [Users -> Row] /\ None \notin Chats
      /\ users' \in [Users -> Row] /\ subs \subseteq Users \X Apps /\ linked \in [Users -> SUBSET Chats]
      /\ MaxThreads \in Nat /\ Apps \subseteq Nat
    BY UsersType, OnboardingAssumption DEF Types, TypeOK
<1> SUFFICES ASSUME NEW u \in Users, NEW a \in Apps, Due(u, a)'
             PROVE  Serves(u, a)' \/ Demoted(users[u].link)'
    BY DEF DueServed
<1>2. PICK c : c = users'[u].link
    OBVIOUS
<1>3. /\ c \in Chats /\ users'[u].admin /\ Unshared(c)' /\ <<u, a>> \in subs' /\ <<u, a>> \notin silent'
      /\ Len(threads'[c]) < MaxThreads /\ rows'[u][a] = 0
    BY <1>1, <1>2 DEF Due, Ready, Unshared, Row
<1>4. Unshared(c) /\ missed' = {}
    BY <1>3, UnsharedBefore, MissedNext
<1>5. Demoted(c)' => Demoted(users[u].link)'
    BY <1>2 DEF Demoted
<1>6. ASSUME NEW o \in Outcomes, Promote(o), last'.chat = c, users[u].link = c PROVE Serves(u, a)'
    <2>1. last'.status = "admin"
        BY <1>3, <1>4, <1>6, PromoteFlag
    <2>2. o = "ok"
        BY <1>6 DEF Promote, Outcome, Types, TypeOK
    <2>3. PICK x \in FindUserByChatID(c) : job' = Job("list", x, c)
        BY <1>6, <2>1, <2>2 DEF Promote, Next1, Effective, FindUserByChatID
    <2>4. x \in Users /\ c \in linked[x] /\ c \in linked[u]
        BY <1>1, <1>3, <1>6 DEF FindUserByChatID, LinkKnown
    <2>5. x = u
        BY <1>4, <2>4, OnlyOne
    <2> QED BY <2>3, <2>5 DEF Job, Serves
<1>7. ASSUME \A o \in Outcomes : Promote(o) => last'.chat # c
      PROVE  users[u].link = c /\ users[u].admin
    <2>1. ASSUME NEW x \in Users, NEW z \in Chats, Links(x, z) PROVE users'[u] = users[u]
        <3>1. LinkedRow(x, z).admin = FALSE
            BY <1>1 DEF LinkedRow, Row
        <3> QED BY <1>1, <1>3, <2>1, <3>1 DEF Links
    <2>2. ASSUME NEW o \in Outcomes, Promote(o), users'[u].link = users[u].link
          PROVE  users'[u].admin = users[u].admin
        BY <1>2, <1>7, <2>2, PromoteFlag
    <2> QED BY <1>2, <1>3, <2>1, <2>2, LinksMove
<1>8. ASSUME Due(u, a), \A o \in Outcomes : Promote(o) => last'.chat # c
      PROVE  Serves(u, a)' \/ Demoted(c)'
    <2>1. users[u].link = c
        BY <1>7, <1>8
    <2>2. CASE Demoted(c)
        BY <1>3, <1>4, <1>8, <2>2, DemotionKept
    <2>3. CASE Serves(u, a)
        <3>1. \/ Serves(u, a)'
              \/ rows'[u][a] # 0 \/ <<u, a>> \notin subs'
              \/ Demoted(users[u].link) /\ UNCHANGED <<queue, users>>
            BY <1>8, <2>3, ServesNext
        <3> QED BY <1>3, <2>1, <2>2, <3>1
    <2> QED BY <1>8, <2>1, <2>2, <2>3 DEF DueServed
<1>9. Len(threads[c]) < MaxThreads
    <2>1. Len(threads[c]) \in Nat /\ Len(threads'[c]) \in {Len(threads[c]), Len(threads[c]) + 1}
        BY <1>3, ThreadsOf
    <2> QED BY <1>1, <1>3, <2>1
<1>10. ASSUME <<u, a>> \notin subs \/ <<u, a>> \in silent, users[u].link = c, users[u].admin
       PROVE  Serves(u, a)'
    <2>1. PICK o \in Outcomes, x \in Users, b \in Apps :
              /\ SubscribeRow(o) /\ job.user = x /\ job.app = b /\ apps[b] # "gone"
              /\ subs' = subs \union {<<x, b>>} /\ silent' = silent
        BY <1>3, <1>10, SubsMove
    <2>2. x = u /\ b = a
        BY <1>3, <1>10, <2>1
    <2>3. o = "ok"
        BY <2>1 DEF SubscribeRow, Outcome, Types, TypeOK
    <2>4. Ready(u)
        BY <1>1, <1>3, <1>10 DEF Ready
    <2>5. job' = Job("list", u, c)
        BY <1>10, <2>1, <2>2, <2>3, <2>4 DEF SubscribeRow, Next1, AfterSubscribe
    <2> QED BY <2>5 DEF Job, Serves
<1>11. ASSUME rows[u][a] # 0 PROVE Serves(u, a)'
    <2>1. CASE /\ job.user \in Users /\ Min(job.todo) \in Apps /\ rows[job.user][Min(job.todo)] = 0
               /\ rows' = [rows EXCEPT ![job.user][Min(job.todo)] = job.thread]
        BY <1>1, <1>3, <1>11, <2>1
    <2>2. ASSUME NEW o \in Outcomes, Remove(o), job.user \in Users, job.app \in Apps,
                 rows' = [rows EXCEPT ![job.user][job.app] = 0]
          PROVE  Serves(u, a)'
        <3>1. job.user = u /\ job.app = a
            BY <1>1, <1>3, <1>11, <2>2
        <3>2. PICK z, n : z = job.chat /\ n = job.thread
            OBVIOUS
        <3>3. job = [pc |-> "remove", user |-> u, chat |-> z, app |-> a, thread |-> n]
            BY <2>2, <3>1, <3>2 DEF Remove, Types, JobTypes, Closing
        <3>4. job' = [pc |-> "unsubscribe", user |-> u, chat |-> z, app |-> a, thread |-> n]
            BY <2>2, <3>3 DEF Remove
        <3> QED BY <3>4 DEF Serves, Closing
    <2>3. ASSUME NEW b \in Apps, PurgeApp(b) PROVE FALSE
        <3>1. b # a
            BY <1>3, <2>3 DEF PurgeApp
        <3> QED BY <1>1, <1>3, <1>11, <2>3, <3>1 DEF PurgeApp
    <2> QED BY <1>3, <1>11, <2>1, <2>2, <2>3, RowsMove
<1>12. CASE \A o \in Outcomes : Promote(o) => last'.chat # c
    <2>1. users[u].link = c /\ users[u].admin
        BY <1>7, <1>12
    <2>2. CASE <<u, a>> \in subs /\ <<u, a>> \notin silent /\ rows[u][a] = 0
        <3>1. Due(u, a)
            BY <1>1, <1>3, <1>4, <1>9, <2>1, <2>2 DEF Due, Ready
        <3> QED BY <1>5, <1>8, <1>12, <3>1
    <2> QED BY <1>10, <1>11, <2>1, <2>2
<1>13. ASSUME NEW o \in Outcomes, Promote(o), last'.chat = c PROVE Serves(u, a)'
    <2>1. \A x \in Outcomes : ~LinkSupergroup(x)
        BY <1>13 DEF Promote, Takes, LinkSupergroup, Idle
    <2>2. users[u].link = c
        BY <1>2, <2>1, LinksMove
    <2> QED BY <1>6, <1>13, <2>2
<1> QED BY <1>12, <1>13

\* Without a fault, every step keeps the topics that are due served.
LEMMA TopicsDueNext ==
    ASSUME Types, LinkKnown, FlagMatchesChat, TopicsDue, [Next]_vars
    PROVE  TopicsDue'
<1> SUFFICES ASSUME faults' = 0 PROVE missed' = {} /\ SubsKnown' /\ ProvisionsLinked' /\ DueServed'
    BY DEF TopicsDue
<1>1. missed = {} /\ SubsKnown /\ ProvisionsLinked /\ DueServed
    BY CleanSteps DEF TopicsDue
<1> QED BY <1>1, MissedNext, SubsKnownNext, ProvisionsLinkedNext, DueServedNext

-----------------------------------------------------------------------------
(* The theorems. *)

\* A set whose members are all the same has at most one.
LEMMA CardOne ==
    ASSUME NEW S, \A x, y \in S : x = y
    PROVE  Cardinality(S) <= 1
<1>1. CASE S = {}
    BY <1>1, FS_EmptySet
<1>2. CASE S # {}
    <2>1. PICK x : x \in S
        BY <1>2
    <2>2. S = {x}
        BY <2>1
    <2> QED BY <2>2, FS_Singleton
<1> QED BY <1>1, <1>2

\* The bot starts with the invariant.
LEMMA OnboardingInit ==
    ASSUME Init
    PROVE  OnboardingInv
<1>1. Types
    BY TypesInit
<1>2. job = Idle /\ queue = <<>> /\ last = NoUpdate /\ subs = {} /\ pending = {} /\ missed = {}
    BY DEF Init
<1>3. \A u \in Users : users[u].link = None /\ ~users[u].admin /\ linked[u] = {}
    BY DEF Init
<1>4. \A u \in Users, a \in Apps : rows[u][a] = 0
    BY DEF Init
<1>5. \A c \in Chats : threads[c] = <<>>
    BY DEF Init
<1>6. \A t \in Tokens : spent[t] = {}
    BY DEF Init
<1>7. \A a \in Apps : apps[a] # "gone"
    BY DEF Init
<1>8. Consent /\ TokensSpent /\ LinkKnown /\ FlagMatchesChat
    BY <1>2, <1>3, <1>6 DEF Consent, ConsentFirst, TokensSpent, LinkKnown, FlagMatchesChat, Idle
<1>9. QueueTrue
    BY <1>2 DEF QueueTrue, NoUpdate
<1>10. TopicsNamed
    BY <1>2, <1>4, <1>5 DEF TopicsNamed, Idle, Provisioning
<1>11. TopicsOnce
    BY <1>2, <1>3, <1>7 DEF TopicsOnce, OpenRecorded, TodoFree, ClosingRow, PurgedKnown, Idle
<1>12. TopicsDue
    BY <1>2 DEF TopicsDue, SubsKnown, ProvisionsLinked, DueServed, Due, Idle, Provisioning
<1> QED BY <1>1, <1>8, <1>9, <1>10, <1>11, <1>12 DEF OnboardingInv

\* Every step of the poller, of the admin API and of Telegram, failed or not, and
\* every restart keeps the invariant.
THEOREM OnboardingInvariant == Spec => []OnboardingInv
<1>1. Init => OnboardingInv
    BY OnboardingInit
<1>2. OnboardingInv /\ [Next]_vars => OnboardingInv'
    <2> SUFFICES ASSUME OnboardingInv, [Next]_vars PROVE OnboardingInv'
        OBVIOUS
    <2> USE DEF OnboardingInv
    <2>1. Types' /\ Consent' /\ TokensSpent'
        BY TypesNext, ConsentNext, TokensNext
    <2>2. LinkKnown' /\ QueueTrue' /\ FlagMatchesChat'
        BY LinkKnownNext, QueueTrueNext, FlagNext
    <2>3. TopicsNamed' /\ TopicsOnce' /\ TopicsDue'
        BY TopicsNamedNext, TopicsOnceNext, TopicsDueNext
    <2> QED BY <2>1, <2>2, <2>3
<1> QED BY <1>1, <1>2, PTL DEF Spec

\* The registry, the chats and the handler's job keep their types.
THEOREM TypesAlways == Spec => []TypeOK
<1>1. OnboardingInv => TypeOK
    BY DEF OnboardingInv, Types
<1> QED BY <1>1, OnboardingInvariant, PTL

\* handleStart and handleAgree: whoever has a chat linked, or a token to link one,
\* has agreed.
THEOREM ConsentAlwaysFirst == Spec => []ConsentFirst
<1>1. OnboardingInv => ConsentFirst
    BY DEF OnboardingInv, Consent
<1> QED BY <1>1, OnboardingInvariant, PTL

\* ConsumeToken: a token links at most one chat, however often it is presented and
\* whatever fails or is restarted in between.
THEOREM TokenAlwaysUsedOnce == Spec => []TokenUsedOnce
<1>1. OnboardingInv => TokenUsedOnce
    <2> SUFFICES ASSUME OnboardingInv, NEW t \in Tokens PROVE Cardinality(spent[t]) <= 1
        BY DEF TokenUsedOnce
    <2>1. \A x, y \in spent[t] : x = y
        BY DEF OnboardingInv, TokensSpent
    <2> QED BY <2>1, CardOne
<1> QED BY <1>1, OnboardingInvariant, PTL

\* Promote and LinkSupergroup: a set flag is true of the chat that is linked, or
\* the update that clears it is queued.
THEOREM FlagAlwaysMatches == Spec => []FlagMatchesChat
<1>1. OnboardingInv => FlagMatchesChat
    BY DEF OnboardingInv
<1> QED BY <1>1, OnboardingInvariant, PTL

\* EnsureForSubscribedApps and Close: the topic id of an app is the id of a topic
\* of that app.
THEOREM TopicAlwaysOfItsApp == Spec => []TopicOfItsApp
<1>1. OnboardingInv => TopicOfItsApp
    BY DEF OnboardingInv, TopicsNamed, TopicOfItsApp
<1> QED BY <1>1, OnboardingInvariant, PTL

\* ListSubscribedAppsWithoutTopic and Close: while nothing fails, an app has one
\* open topic at most.
THEOREM AlwaysOneTopicPerApp == Spec => []OneTopicPerApp
<1>1. OnboardingInv => OneTopicPerApp
    <2> SUFFICES ASSUME OnboardingInv, NEW u \in Users, NEW a \in Apps \ purged, NEW c \in Chats,
                        faults = 0, linked[u] = {c}, Unshared(c)
                 PROVE  Cardinality(OpenTopics(c, a)) <= 1
        BY DEF OneTopicPerApp
    <2>1. OpenRecorded /\ TodoFree /\ Types
        BY DEF OnboardingInv, TopicsOnce
    <2>2. \A n \in OpenTopics(c, a) : n # 0
        <3>1. DOMAIN threads[c] = 1..Len(threads[c])
            BY <2>1 DEF Types
        <3> QED BY <3>1 DEF OpenTopics
    <2>3. ASSUME job.pc = "add", job.user = u, Min(job.todo) = a PROVE rows[u][a] = 0
        <3>1. job.todo \subseteq Nat /\ job.todo # {}
            BY <2>1, <2>3, OnboardingAssumption DEF Types, JobTypes
        <3>2. a \in job.todo
            BY <2>3, <3>1, MinIn
        <3> QED BY <2>1, <2>3, <3>2 DEF TodoFree
    <2>4. \A n, m \in OpenTopics(c, a) : n = m
        BY <2>1, <2>2, <2>3 DEF OpenRecorded
    <2> QED BY <2>4, CardOne
<1> QED BY <1>1, OnboardingInvariant, PTL

\* Promote and toggleOn: while nothing fails, every subscription made by command
\* has its topic once all updates have been handled.
THEOREM AlwaysProvisioned == Spec => []Provisioned
<1>1. OnboardingInv => Provisioned
    <2> SUFFICES ASSUME OnboardingInv, NEW u \in Users, NEW a \in Apps, faults = 0, queue = <<>>,
                        job = Idle, Ready(u), Unshared(users[u].link), <<u, a>> \in subs \ silent,
                        Len(threads[users[u].link]) < MaxThreads
                 PROVE  rows[u][a] # 0
        BY DEF Provisioned
    <2>1. ~Serves(u, a)
        BY DEF Serves, Idle, Closing
    <2>2. ~Demoted(users[u].link)
        BY DEF Demoted
    <2> QED BY <2>1, <2>2 DEF OnboardingInv, TopicsDue, DueServed, Due
<1> QED BY <1>1, OnboardingInvariant, PTL
=============================================================================
