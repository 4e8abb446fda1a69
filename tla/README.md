# A TLA+ model of telegram_server

telegram_server is an HTTP gateway in front of a Telegram bot. Apps send
messages through it with API keys; users own a personal supergroup with one
forum topic per subscribed app; every step of a message is written to a
hash-chained audit log. This directory models the parts of the server in which
processes, database sessions and Telegram interleave, checks them with TLC on
small instances, and proves the most important invariants with TLAPS for every
value of the constants. Paths below are relative to the repository.

## 1. Inventory

| Component | Code | State | Operations | Interacts with |
|---|---|---|---|---|
| Audit log | `internal/audit/writer.go`, `event.go`, migration 0007 | `audit_log`, its id sequence, the advisory lock | `Write` | called by every handler, the bot and the admin UI |
| Chain verification | `internal/audit/chain.go`, `adminui/store.go`, `adminui/audit.go` | the walk of one request | `VerifyChain` with a 30 s deadline | reads the audit log while it grows |
| Dispatch pipeline | `internal/api/handlers/common.go`, `messages_*.go` | one handler per request | received, checks, resolve, validated, dispatched/send/record per recipient, response | strategies, audit log, dispatcher |
| Route strategies | `internal/dispatch/strategy` | none (queries) | four resolvers | `users`, `apps`, `user_subscriptions`, `user_topics` |
| Dispatcher and its limiter | `internal/dispatch/telegram` | a global bucket, one bucket per chat | `Allow`, `Send` | Telegram |
| Authentication | `internal/auth`, `api/middleware/auth.go` | identity pinned per request | `Resolve`, `RequireCapability` | `app_keys`, `apps`, `app_capabilities` |
| Admin API: apps | `api/handlers/admin_apps.go` | the same tables | `Create`, `Patch`, `Delete`, `Purge` | authentication, key store, onboarding (cascades) |
| Admin API: users, subscriptions | `admin_users.go`, `admin_subscriptions.go` | `users.grade`, `user_subscriptions` | patch, subscribe, unsubscribe | the bot writes the same tables |
| Key store | `adminui/keystore.go` | `app_keys` | `IssueKey`, `RevokeKey`, `UpdateKeyLabel` | admin API, key forms |
| Bot poller and handlers | `internal/bot` | one update at a time; what is left of its handler | `/start`, `/agree`, token, promote, intrusion, `/apps`, `/subscribe`, `/unsubscribe` | Telegram, registry, provisioner |
| Topic provisioner | `internal/bot/topic_provisioner.go` | `user_topics`, the topics of the chat | `EnsureForSubscribedApps`, `Close` | Telegram |
| Registry | `internal/registry` | `users`, `pending_supergroup_tokens`, `user_topics` | its statements | bot |
| Request rate limiting | `internal/ratelimit` | one bucket per key | `Allow` | middleware |
| Server lifecycle | `cmd/server/main.go`, `internal/api/server.go` | connection pool, contexts, where `run` stands | start, serve, drain the bot, drain HTTP, close the pool | everything |
| Admin UI sessions and login | `adminui/session.go`, `handlers.go`, `csrf.go` | secret, revoked nonces, one bucket per address, back-off | login, logout, sweeps | browsers that keep their cookies |
| Audit search | `api/handlers/admin_audit.go`, `adminui/audit.go`, `apiclient/audit.go` | the cursor in the page link | a page | reads the audit log and writes to it |
| Admin UI forms | `adminui/apps.go`, `users.go`, `keys.go`, `apiclient` | the form being submitted, calls under way | save, create, deactivate, delete an app; grade and subscriptions of a user; issue, revoke, relabel a key | admin API, key store, audit log |
| Dashboard and delivery pages | `adminui/dashboard.go`, `delivery.go`, `store.go` | the page being put together | one query and one card after another | read the audit log |
| Hooks, mock Telegram, config, seeding, layout | see `PROJECT.json` | none of their own, or unused | | |

What is hard here, and what makes each part correct:

* **Audit log.** Writers of several processes append at once; COMMIT can
  succeed with its answer lost; a process can die with an inserted row. The log
  must be one chain, a caller told `nil` must find its row in it, a verification
  must neither raise a false alarm nor call a truncated walk complete, and it
  must see every inner edit.
* **Dispatch.** Between any two statements of a handler the registry changes,
  the request context ends, or the process dies; Telegram may deliver without
  answering. Nothing may be sent without its audit rows, nobody gets a message
  twice, no report claims a delivery that did not happen, everybody is answered
  for, and a recipient must have qualified while the request ran.
* **Apps and keys.** Handlers check without a lock and write later, at READ
  COMMITTED; app ids are purged and made again. A request must run with the
  capabilities of one version, a version must name one set, a dead key must stay
  dead and management capabilities must not come back.
* **Onboarding.** Updates arrive in orders nobody wrote a test for, are lost or
  come again in a restart; the admin API writes the same tables; each of several
  steps of a handler can fail alone. A token links one chat, consent precedes
  it, the admin flag and the topic ids speak of the chat they are used for.
* **Dispatch limiter.** Callers read the clock before the mutex, so readings
  arrive out of order; rate and burst must hold all the same.
* **Login and sessions.** Attempts pass the limiter and the back-off before
  their password is checked, so several can be past them at once; a restart
  forgets failures and revocations. Password checks must stay bounded, and a
  session that was logged out must stay so, whatever the sweeps remove.
* **Audit search.** Pages are separate queries over a log that grows, not least
  by the searches themselves. No row may be passed over or shown twice.
* **Server lifecycle.** An admin handler that denies inside its transaction
  holds one connection and asks for another; the bot's updates have no deadline;
  closing the pool waits for every connection. All work must end, what a handler
  takes it must give back on every way out, and a process told to stop must stop.
* **Admin UI forms.** Two operators edit the same app, a call lands after the
  page has given up on it, the process dies between a key's commit and its audit
  row. A form reported as saved must have been, management capabilities must
  survive every form, and the trail must be true and never silently incomplete.
* **Dashboard.** Every card has its own query and may fail alone, rows appear
  and age between two queries, and axes come from another clock than the
  buckets. A card may neither lose a row nor count one twice, and a chart with
  nothing on it may not hide a row.

`PROJECT.json` lists each hazard at its line with the properties that guard it.

## 2. Modules

| Module | Models | Used by |
|---|---|---|
| `AuditLog` | what `audit.Writer` promises: an append-only log | `AuditChain` (`INSTANCE`) |
| `AuditChain` | writers, verifier and direct edits of the table | `MCAuditChain`, `AuditChainProofs`, `AuditSearch` |
| `Strategy` | the four resolvers as operators of a registry, a request and a join order | `StrategyCases`, `Dispatch`, `DispatchProofs` |
| `StrategyCases` | one registry and one request run through them | `MCStrategyCases`, `DispatchProofs` |
| `Dispatch` | the message handlers, concurrent with registry changes | `MCDispatch`, `DispatchProofs` |
| `AppKeys` | admin API, key store and authentication, statement by statement | `MCAppKeys`, `AppKeysProofs` |
| `Onboarding` | poller, handlers, provisioner, registry, admin API, Telegram | `MCOnboarding`, `OnboardingProofs` |
| `DispatchLimiter` | the two buckets and the waiting sender | `MCDispatchLimiter`, `DispatchLimiterProofs` |
| `AdminLogin` | login handlers, limiter, back-off, session cookies, revocation | `MCAdminLogin`, `AdminLoginProofs` |
| `AuditSearch` | the search page, its requests and their handler, on top of `AuditChain` | `MCAuditSearch`, `AuditChainProofs` |
| `Server` | `run` of the API process, its requests, the poller, pool and locks | `MCServer`, `ServerProofs` |
| `AdminConsole` | operators' forms, the API's side of their calls, the key store | `MCAdminUI`, `AdminConsoleProofs` |
| `Dashboard` | the read-only pages over a growing log | `MCAdminUI`, `AdminConsoleProofs` |

### AuditChain

`Begin`, `Lock`, `Insert` and `Commit` are the four round trips of `Write`;
`Abort` is any of them failing, or the process dying. `now()` is fixed in
`Begin`, the id is drawn in `Insert` and is never rolled back, the row becomes
visible in `Commit`, whose answer may be lost. `VerifyStart` takes the
statement's snapshot, `VerifyRow` is one turn of the loop with both comparisons,
`VerifyEnd` the end of the rows and `VerifyError` the deadline. `TamperSpec`
adds one direct edit, deletion or forged row. SHA-256 is taken to be collision
free: a hash is the sequence of the payloads behind it. The back-fill of
migration 0007 is not modelled; the log starts empty.

`AuditLog` is the same component as its callers see it: `Call`, then `Record`
or `Refuse`; a recorded entry may still be answered with an error. `AuditChain`
implements it under the mapping in `Log`: the abstract log is the history that
the hash of the newest committed row seals, a caller's wish is its event and
time, its answer is the outcome of `Write`. So the log the callers count on is
the one the hashes attest: a fork, a lost row or a row under an old head would
not be an `Append`. `Dispatch` relies on this interface: its `AuditWrite` has
the outcomes of `Record` and `Refuse`.

### Strategy and Dispatch

A resolver returns a set of items with the place of each in the loop's order
and the code of the first check that failed. The join of the direct resolvers
has no ORDER BY, so its order is an argument and every permutation is tried.
`StrategyCases` puts one registry and one request through a resolver, with the
app's grade as the column has it. `AudienceExact` names the audience without the
ranks, joins and loops of the code: the grades a minimum lets through are written
out (`Admits`). Of a topic or broadcast it speaks only for requests without
`recipients`, and of a direct request by `users.id`: on the other cases the
documents say something else, and `TopicHonoursRecipients` and
`DirectTakesTelegramIds` below are refuted.

`Dispatch` has one action per statement, audit write or call of
`runStrategyDispatch`. An audit write is what `AuditChain` shows it to be:
appended with `nil`, appended with an error, or not appended with an error.
`Send` delivers and answers, delivers without an answer, or is refused (limiter,
context, Telegram; `classify` only tells refusals apart). `Expire` is the 30 s
timeout or a caller hanging up, after which every write and call fails. `Crash`
stops all requests. A call that is on its way when the context ends is `Send` with
any outcome, then `Expire`. The registry changes between the statements
(`NextRegistries`): the app is patched, deactivated, reactivated or purged with the
rows that cascade; a user is regraded up or down, subscribed or not, gets or loses a
topic row, links a chat, and the bot there is promoted or demoted. `seen` is history:
the registry at each statement of a request's resolver. `QualifiedDuringRequest`
compares the app and the user row of one moment; it leaves open what two statements
without a transaction leave open, that both the app and the user changed between
them. `ResponseComplete` says who must have an entry from the users at the query.

### AppKeys

One action per statement another session can influence; statements that touch
only locked rows are taken with COMMIT. `gen` counts the incarnations of an app
id and, with `issued`, `hist` and `view.dead`, is history. `PatchLock` locks
nothing when the row is gone, as `FOR UPDATE` does. `Resolve` and
`loadCapabilitiesTx` share the snapshot of one REPEATABLE READ transaction. The
Argon2id check accepts the bearer of one key only. Audit writes of the admin
handlers are left out: their failures change none of these tables.

### Onboarding

The poller runs one handler at a time, and `job` is what is left of it. Each
statement or Telegram call has an outcome: `ok`, `failed` (no effect) or `lost`
(effect, error). Users, the admin API and Telegram's own state go on meanwhile.
`Restart` loses the updates that were fetched ahead and so confirmed, oldest
first, and then nothing before them comes again; or it brings back the one handled
last, which was not confirmed yet; that only one comes again is a bound, a
batch may hold more.
The lookups of `/subscribe` (`toggleOn`) and its INSERT (`SubscribeRow`) are steps of
their own, and between them the app may be kept for a higher grade, deactivated or
purged (`SetApp`, which `AppChanges` limits). `AdminSubscribe` is the INSERT alone:
it is taken to succeed whenever the foreign keys let it, whatever the lookups before
it found.
Telegram is external: `rights`, `threads` and `banned` are modelled from the
calls the bot makes, and a chat where the bot lacks one of the rights
(`partial`) lets a call succeed or fail. Replies to users are left out; a
handler does nothing after them. Adjacent statements on columns that only the
poller writes are one action.

### DispatchLimiter

`Allow` reads the clock, `takeGlobal` and `takePerChat` each run under their own
mutex. Tokens are counted in credits, `Unit` to a message, so that rates are
integers; the code uses float64, and rounding is not modelled. A wait that is
cut off to zero gives up, as in the code (`Refused`). `Timer` sends without
asking again.

### AdminLogin

`handleLoginSubmit` is the form check and the address's bucket (with the sweep
of full buckets, `Charged`), `Allow` the back-off, and `RecordFailure` or
`RecordSuccess` the end of the password check: three steps of a handler, since
each takes its own mutex. `verify` checks signature and expiry, `isRevoked` looks
into the map; between them the session may be logged out. Expiries are cut to
whole seconds (`Unix`), so `Second` ticks make one. HMAC is unforgeable: a cookie
or form token verifies only under its secret, and `Restart` draws a new one while
browsers keep their cookies. Form tokens of other nonces are tried, and refused.

### AuditSearch

The handler is one of the writers of `AuditChain`: `Request` begins its received
row, `Query` reads the page once that write has ended, well or not, and then come
the validated and delivered rows, or the denied one. `Show` is what the page makes
of the answer: the surplus row is cut off and the last row shown becomes the
cursor of the next link. `start` (the log at the first page), `seen` and `count`
are history. The page of a date is a window of times; how dates and labels are
written is left out.

### Server

A statement is what it needs: a connection, and for an audit write the chain
lock. A request walks through stages; `Then` and `OnError` say what may follow a
stage, standing for the checks in between. `tx` are the requests with an open
transaction, which is a second connection; `rowLock` is the app row. `live` are
the contexts that have not ended. `Deadline` is `HandlerTimeout` (2 s for
`/healthz`) or a client that leaves; an ended context lets `Fail` end the
operation. `Signal` cancels the bot's context only; `BotDrained` or its time-out,
`HttpDrained` or its time-out, then `pool.Close` and `Exit`. A listener that
fails skips the drains.
Telegram calls hold nothing and are part of the stage before them: that an update
ends rests on Telegram answering. The admin
UI's own process has the same shutdown without the bot.

### AdminConsole

The tables are a set of facts about one app and one user. A form becomes a call
with what it needs, adds and removes; `SaveApp` computes the difference to the
grants it has just read, as `handleAppPatch` does. The call is carried out some
time later (`Execute`; `PassCheck` comes first for PATCH and for subscriptions,
whose handlers look for the app without a lock), fails, or is answered after
`GiveUp`. A PATCH whose app is deleted after the check writes nothing and is answered
200 all the same (`Written`), so `SavedMeansSo` promises nothing of an app that
somebody deleted or made anew meanwhile (`Overtaken`). `page` keeps what the operator
asked for and, as history, what other calls changed since. Keys are written by
the UI itself; `Committed` is the moment the row is there, `writeKeyAudit` comes
after it, and `Crash` may come between. `done` and `told` are history, and so is the
key's id in an event (`KeyEvent`): the row has the stage and the prefix, and two keys
under one prefix look the same in it. A form
refused before it changes anything is `FormRefused`.

### Dashboard

`Pairs`, `RequestBuckets`, `StageCounts` and the others are the WHERE, GROUP BY
and LIMIT of the queries as set operators; `build...` and `selectLineSeries` are
what is drawn. Handlers are one action per query (`Section`, `Fetch`) and one
per chart that is drawn from an earlier answer (`Draw`, on the admin UI's clock,
which may be behind). A row becomes visible at its commit with the time of its
BEGIN, so `WriteRow` may add one a tick old. `shown` is the card a step has just
put on the page and the rows its query saw, for the properties. The folds go by
the place of a name in the order (`Place`), and a sum of counts is the size of a
disjoint union (`Sum`), so that no recursion is needed. Buckets have a
fixed length: uneven months are left out, as are rates, percentiles, labels,
dropdowns and SVG.

## 3. Runs

All runs use the modules as they stand; a configuration only gives constants
their values.

| Run | Properties | Instance | Distinct states |
|---|---|---|---|
| `audit_chain` | `ChainLinked`, `NoFalseBreak`, `OkIsComplete`, `OkIsDurable`, `ImplementsLog` | 3 writers, 4 ids, 4 transactions | 156 058 |
| `audit_tamper` | `TamperDetected` | 2 writers, 2 events, 3 ids, one edit, deletion or forgery | 1 885 414 |
| `strategy_cases` | `AudienceExact`, `OneVerdictEach` | every row for user 1, 2 rows for user 2, every grade of the app, 9 recipient lists, 5 grades, every join order | 77 760 |
| `dispatch` | `NothingSilent`, `FailClosed`, `AtMostOnce`, `DeliveredIsTrue`, `ResponseComplete`, `QualifiedDuringRequest`, `Answered` | 1 request, 10 bodies, 3 registries of two users and 1 change, 1 registry of one user and 2 changes, under fairness | 996 157 |
| `app_keys` | `PinnedIdentity`, `VersionNamesOneSet`, `BearerDiesWithKey`, `NoEscalation`, `PatchTakesEffect` | 2 sessions, 1 app created again once, versions up to 3, 1 key | 1 371 436 |
| `onboarding_link` | `ConsentFirst`, `TokenUsedOnce`, `FlagMatchesChat` | 1 user, 2 chats, 2 tokens, 2 updates waiting, 1 fault | 4 100 233 |
| `onboarding_topics` | `TopicOfItsApp`, `OneTopicPerApp`, `Provisioned` | 1 user, 1 chat, 2 apps, one of them subscribed to by command and kept for a higher grade or made again after a purge, 2 topics, 1 fault | 2 329 014 |
| `dispatch_limiter` | `WithinRate` | 2 senders, 2 chats, 4 ticks, rates that do not divide the bursts | 2 790 476 |
| `login` | `AttemptsWithinRate`, `GuessesBounded`, `LogoutSticks` | 2 handlers, 2 addresses, 2 cookies, 4 ticks of half a second, 1 restart, back-off after 2 failures | 2 643 617 |
| `audit_search` | `PagesComplete` | the search and 1 other writer, 4 ids, 8 transactions, pages of 1 row and of the limit | 8 786 730 |
| `server` | `LocksReleased`, `WorkEnds`, `ServerStops` | 2 requests, the poller, 2 connections, under fairness | 71 104 |
| `admin_ui` | `SavedMeansSo`, `NoSilentKeyChange`, `TrailTrue`, `ManagementKept`, `CardsExact` | forms: 2 operators, 3 forms, 2 grantable and 1 management capability, 1 prefix; pages: 4 rows to begin with and 2 more, 5 ticks, folds, samples and failures limited to 1 | 2 614 626 |

The modules' `TypeOK` hold on the same instances; they are left out of the runs,
which are for properties that say something of the code. Those of `AuditChain`,
`DispatchLimiter`, `Server`, `AdminLogin` and `Onboarding` are proved.

Why the bounds are enough. A fork of the audit chain needs two writers, and one
in the gap between them a third; four ids leave room for an aborted one before,
between and after committed rows. A decision on stale data needs one change
between two statements, and one on rows that were never there together needs two:
`MaxChanges` counts changes times users, so that a registry of one user has two. The
registries stand for what came before.
Requests share nothing but the registry and the log, so one of them, with all
the rest of the world changing around it, is enough. The races of `AppKeys` are
between two sessions over one row, and purging and creating an app once shows
whatever a second incarnation inherits. Linking a second chat shows what the
first leaves behind; a fault is followed by the recovery the code has, and one
fault suffices since none of the recoveries has steps of its own. Two senders
are enough for clock readings out of order. Two login handlers pass the back-off
together, and with a threshold of two they reach the bound `GuessesBounded`
states; a sweep that removes too much needs a second login, whose logout runs
it. A row that becomes visible behind the cursor needs one writer that has
committed a row and holds another while the search reads its first page: eight
transactions, with those of the search itself. Two connections and two requests
that each hold one and want one more are the smallest pool everyone can wait on;
with the poller there is an actor that holds neither and wants one. A mixture of
two saves needs two operators with two boxes each, and a third form deletes the
app or revokes the key meanwhile. Three apps, two causes and three traces make
each fold and limit of 1 bite; two-tick days and five ticks let a row age out of
the window, out of the slack and off the axis. `AdminConsole` and `Dashboard`
share no variable, so `admin_ui` lets a behaviour use either of them. Symmetry
is used where sessions, writers, senders, users, chats, operators or grantable
capabilities are interchangeable, and in no liveness run.

Deadlock is checked except where a run ends by design: a request that is
answered (`dispatch`), one case (`strategy_cases`), or the transactions, forms
or ticks of the instance are used up (`audit_search`, `admin_ui`). `server`
checks it: everybody waiting on everybody would be a deadlock there.

**Fairness.** `Answered` assumes weak fairness of each request's handler steps.
A goroutine that can run is run, and each call in it ends, at the latest when the
30 s request context ends; neither arrival, expiry nor crash is assumed to
happen. `WorkEnds` and `ServerStops` of `Server` assume that deadlines pass, that
an operation which has what it needs, or whose context has ended, ends, that the
poller's channel is closed after its context is cancelled, and that `run` goes
on: all weak fairness. Getting a connection or the chain lock is under strong
fairness, since others may take it in between: pgxpool's waiters and PostgreSQL's
lock queue are served first come, first served. Nothing is assumed of requests
arriving, of the signal, of updates, or of which way a stage goes. All other
properties are safety properties.

Each property has a mutant in `PROJECT.json`: a plausible slip in one mapped
definition (a dropped lock, a snapshot not shared, a missing reset) that makes
TLC find it violated.

### Where the code and its documents disagree

These are stated in the modules too. TLC refutes each within a minute with the named
configuration and the property put in place of its INVARIANT or PROPERTY line.
`IssuedForActiveApp`, `PatchFindsApp`, `VersionsMonotone`, `RunAppsProvisions`
and `InflightUpdatesFinish` are PROPERTYs; `PrefixNamesOneKey` needs `MaxKeys = 2`, and
`SentWithinRate` three senders, `Unit`, rates and `gBurst` 1, `pBurst` 2 and
`MaxTime` 2; `TopicInLinkedChat` two chats, `Apps = {3}`, `MaxTokens = 2`,
`MaxThreads = 1` and `MaxFaults = 0`.

| Property | Configuration | The repository says | The code does |
|---|---|---|---|
| `IdOrderIsTimeOrder` | `AuditChain.cfg` | `docs/guide/api-spec.md:283`: results are sorted by `at DESC` | `now()` is fixed before the lock is granted; the search orders by id |
| `UnknownIsUnknown` | `Strategy.cfg` | `docs/guide/api-spec.md:126`: rely on the per-recipient results | `direct.go:87` names an unknown recipient by position in a join without an order |
| `TopicHonoursRecipients` | `Strategy.cfg` | `docs/guide/api-client-guide.md:37`: all subscribers when `recipients` is left out | `topic.go:27` ignores `recipients` |
| `DirectTakesTelegramIds` | `Strategy.cfg` | `docs/guide/api-client-guide.md:42`: Telegram user ids | `direct.go:64` joins with `users.id` |
| `DispatchedIsAccepted` | `Dispatch.cfg` | `docs/planning/prd.md:392`: dispatched means a 2xx answer | `common.go:234` writes the row before the call |
| `DeliveredIsLogged` | `Dispatch.cfg` | `docs/planning/prd.md:702`: every dispatch event is audited | `common.go:245` discards the result of the write |
| `PatchFindsApp` | `AppKeys.cfg` | `docs/guide/api-spec.md:214`: 404 `app_not_found` | a purge between EXISTS and FOR UPDATE is answered 200 |
| `PrefixNamesOneKey` | `AppKeys.cfg` | `adminui/keystore.go:44`: a prefix is never reused | a purge frees the prefixes of the app |
| `IssuedForActiveApp` | `AppKeys.cfg` | `adminui/keystore.go:42`: no key for an inactive app | `active` is checked without a lock and the key inserted later (`keystore.go:134`); it does not authenticate while the app is inactive |
| `SentWithinRate` | `DispatchLimiter.cfg` | `docs/planning/prd.md:751`: Telegram's limits are kept | `dispatcher.go:36`: a refused sender waits and then sends without a token |
| `VersionsMonotone` | `AppKeys.cfg` | `docs/security-model.md:61`: versions set a monotone order | an app created again starts at 1 |
| `RowsCarryVersion` | `AppKeys.cfg` | `docs/security-model.md:88`: every event of a request has the version | the denied row of `RequireCapability` has none |
| `PromotionSticks` | `OnboardingLink.cfg` | `bot/handlers/promote.go:16`: granting the rights sets the flag | a promotion that arrives before the token is dropped, and linking clears the flag |
| `RunAppsProvisions` | `OnboardingTopics.cfg` | `admin_subscriptions.go:75`: run `/apps` for the topic | `/apps` only lists |
| `TopicsIdempotent` | `OnboardingTopics.cfg` | `bot/topic_provisioner.go:28`: idempotent against retries | a topic whose row was lost is made again |
| `OwnerNeverBanned` | `OnboardingLink.cfg` | `bot/handlers/intrusion.go:13`: nor the owner | only the bot is compared |
| `TopicInLinkedChat` | `OnboardingTopics.cfg` | `bot/handlers/startgroup.go:68`: the topics of the subscribed apps are made in the new chat | `personal_supergroup.go:72` leaves `user_topics` as it is, so no topic is made in a second chat and the thread ids of the first are used there |
| `InflightUpdatesFinish` | `Server.cfg` | `cmd/server/main.go:183`: in-flight updates can finish their audit writes | `botCancel` cancels the context those writes run under |
| `ZeroInflightDrops` | `Server.cfg` | `docs/planning/prd.md:728`: zero in-flight drops | a request longer than the 10 s of `Shutdown` is cut off by `pool.Close` and the exit |
| `TrendNoteIsTrue` | `AdminUI.cfg` | `adminui/delivery.go:293`: the note is shown when the window matched nothing | without a stage filter, `validated`, `dispatched`, `retried` and `deferred` rows match and are on no line |

Two more need no run. `adminui/session.go:25` says a cookie stops working the moment
its operator logs out. The entry of `revoked` may be swept once the TTL has passed
since the logout, while the cookie verifies to the end of the second its expiry was cut
off to: a session logged out in the second it was issued in, and swept by another
logout, verifies again for the rest of that second. `LogoutSticks` covers the lifetime
of the cookie and leaves this out. And the page of an app that was
deleted while it was saved says that it was saved, since `PatchFindsApp` fails.

Three things seen on the way, without a document that says otherwise. The audit
log can report a key as revoked before it reports it as issued
(`RevokedAfterIssued` in `AdminConsole`): the rows are written after the commits.
`adminui/store.go:71` says the headline and the two cards below it describe the
same slice of time; they are three statements, so rows between them are in one
and not in the other, and the strip's caption and dots likewise. And when the
admin UI's clock is behind a bucket of the database's, the oldest bucket of the
axis was not asked for and is drawn empty (`Drawn` in `Dashboard`).

## 4. Proofs

`AuditChainProofs` proves, for any sets of writers and events and any bounds,
from `AuditAssumption` alone:

* `TypeCorrect`: `Spec => []TypeOK`.
* `ChainAlwaysLinked` and `OkAlwaysDurable`. `ChainLinked` is not inductive: the
  row a writer has inserted and not yet committed must still continue the
  committed head when it is committed. `ChainInv` adds `LockHeld` (only the
  lock's holder is past the lock statement), `IdsBelow` (the sequence is ahead of
  every row) and `PendingExtends` (an inserted row continues the chain), and
  `OkIsDurable`. The heart is the lemma `AppendLinked`.
* `NeverFalseBreak` and `OkAlwaysComplete`. `VerifyInv`, on top of `ChainInv`,
  says that the snapshot is a finite linked part of the table, that the walk
  stands on a row of it and carries its hash, and that it has counted the rows
  up to there. `NextRowClean` then gives that the next row passes both
  comparisons, and `WalkedAdds` that the count goes up by one.
* `LogImplemented`: `Spec => ImplementsLog`, the refinement. The initial states
  map to initial states, `Begin` to `Call`, `Commit` to `Record`, `Abort` to
  `Refuse`, and every other step to a stutter. It rests on `ChainInv`: only a
  linked table has one head, and only a row that extends the head makes the
  sealed history grow by exactly its payload.

* `TamperAlwaysDetected`: `TamperSpec => []TamperDetected`. After an edit the row no
  longer has the hash of its payload (`EditBreaks`, from `HashTells`); after a
  deletion or a forged row that is not the newest, the row behind it still seals the
  one that was there (`DeleteBreaks`, `ForgeBreaks`, from `HashGrows`). `TamperInv`
  adds that a broken table stays broken whatever is appended (`AppendKeepsBroken`,
  for which an uncommitted row must be newer than all others), and that a walk has
  found every row up to its cursor clean: so it cannot reach the end of a broken
  snapshot.
* `PagesAlwaysComplete`: `SearchSpec => []PagesComplete`, for any page sizes.
  `SearchInv` says that what the operator has seen of the log at the first page
  (`start`) is its newest part, and that the cursor is the oldest row shown. It
  rests on `ChainInv` and the order of the ids: a row that becomes visible later has
  a greater id than every committed one, so it is on no later page.

`DispatchLimiterProofs` proves, for any senders, chats, rates and bursts, from
`LimiterAssumption`:

* `LimiterTypes`: no bucket is overdrawn or above its burst.
* `LimiterKeepsRate`: `Spec => []WithinRate`. `LimiterInv` adds that no clock
  reading and no refill lies in the future, and the account of each bucket: what
  was taken and what is left together are at most the burst and the rate's yield
  up to the last refill.

`DispatchProofs` proves, for any requests, bodies and well-formed registries,
from `DispatchAssumption`: `AlwaysFailClosed`, `NeverSilent`, `SentAtMostOnce`,
`DeliveredAlwaysTrue`, `ResponseAlwaysComplete` and `AlwaysQualified`.

* About the four resolvers of `Strategy`, as operators: the lemma
  `ResolvedQualifies`, for any registry and any order of the join. Items stand at
  different places, no user is a recipient twice (`Verdicts`), and whoever is let
  through qualifies by the users at the query and the app row of the lookup.
* `DispatchInv` says of every request what its place in the handler implies:
  which audit rows are there (`Audited`, `Announced`), that of the items still to
  be handled only the one being recorded may have been sent (`SentOnce`), that
  whoever was sent to is reported or still to be recorded (`Reported`,
  `Truthful`), that the resolver's result answers for everyone addressed at the query
  (`Covered`), and that who is let through qualified by what the two statements read
  (`Fresh`, by `AtLookup` and `AtQuery`). None of the six properties is inductive alone: they speak of
  rows, chat and report, the steps of items and position. Requests share only the
  registry, so a step of one keeps the part of the others (`OthersKeep`).

From `CaseAssumption` (the keys `users.id` and `users.telegram_id` are unique) the
same module proves `AudienceAlwaysExact` and `AlwaysOneVerdictEach` of
`StrategyCases`, for every registry, list, grade and order of the join. `CaseInv`
says that the result is what the resolver of the request returned. A join order is
onto (`OrderOnto`), so every listed key has a row, and its first row is kept by the
"seen" map (`FirstRow`, `KeptOnce`): the rows kept correspond one to one to the keys
listed (`KeptRows`), which gives the audience and, by `VerdictCounts`, the numbers
of verdicts.

`AppKeysProofs` proves, for any sessions, apps, capabilities and bounds, from
`AppKeysAssumption`: `IdentityAlwaysPinned`, `VersionAlwaysNamesOneSet`,
`BearerAlwaysDies`, `NeverEscalates`, and the action property
`PatchAlwaysTakesEffect`.

* `AppsRecorded` (the current set and version of an app are the newest of its
  history) makes `VersionNamesOneSet` inductive; `KeysIssued` numbers the keys and
  ties each to the incarnation it was issued for.
* `PatchSound` says what a session past its lock knows of the row, `IdentitySound`
  what an identity says of the snapshot it was read from.
* A step moves the tables only forward and touches no row that another session
  has locked (`TablesMove`), which keeps the other sessions' part (`OthersKeep`);
  that is proved once and cited for every action.

`OnboardingProofs` proves, for any finite set of users, any chats, apps and bounds,
with faults and restarts, from `OnboardingAssumption` and `CommandsAssumption`:
`TypesAlways`, `ConsentAlwaysFirst`, `TokenAlwaysUsedOnce`, `FlagAlwaysMatches`,
`TopicAlwaysOfItsApp`, `AlwaysOneTopicPerApp`, `AlwaysProvisioned`.

* `Consent` and `TokensSpent` add what the handler under way holds: the token
  that is about to link is neither valid nor spent, its owner has agreed.
* `FlagMatchesChat` needs `QueueTrue` (an update that grants the rights, waiting or
  handled last, is true or followed by one that takes them away) and `LinkKnown` (a link is among the chats that were ever
  linked, and a flag is only set with a link).
* `TopicsNamed` says of rows, and of the thread a handler is about to record,
  which app they are of. Without faults, `TopicsOnce` says that an open topic is
  recorded or about to be, and that what is still to be made has none; `TopicsDue`
  that a subscription without a topic has a step ahead that makes it: a waiting
  promotion or the handler that runs.

`AdminLoginProofs` proves, for any finite set of handlers, any addresses, limits,
rates and delays, from `LoginAssumption`: `BucketsNeverOverdrawn`,
`AttemptsAlwaysWithinRate`, `GuessesAlwaysBounded` and the action property
`LogoutAlwaysSticks`.

* `RateAccount` is the account of every bucket, whether it is kept or was dropped
  as full: attempts and tokens together are at most the limit and the yield since
  the start.
* `GuessAccount` counts, while a block lasts, the handlers that are still
  comparing with those that have failed: no round of the back-off has room for more
  failures than there are handlers.
* `CookiesRevoked`: a cookie that was logged out is expired, of another secret, or
  in the map, and the map keeps it until it has expired.

`ServerProofs` proves, for any finite set of requests and any number of
connections, from `ServerAssumption`: `PoolNeverOverdrawn` and
`LocksAlwaysReleased`. `ServerInv` adds `Holding` (who is at which stage with
which connection and lock) and `Started` (the poller is started by `run` and walks
through no stage of a request); the pool's account counts operations and open
transactions.

`AdminConsoleProofs` proves, for any operators, capabilities, settings and number
of forms, from `ConsoleAssumption`: `SavedAlwaysMeansSo`, `KeyChangeNeverSilent`,
`TrailAlwaysTrue` and the action property `ManagementAlwaysKept`. `CallsHarmless`
and `CallsFit` say of a call under way that it touches no management capability and
asks for what its page claims; for PATCH that takes `Founded` (a call that adds facts
about an app creates it, needs it or will look for it, or the app is there, or the
page remembers that it was deleted); `KeysNumbered` that nothing has happened yet
to a key that is about to be inserted or revoked, `EventsPending` that an event
about to be written is not in the trail and has one page to write it.

Of `Dashboard` the same module proves, for any rows, ranges, filters, limits and
clock skew, from `DashAssumption`, `CardsAlwaysExact`.

* `DashInv` says that the rows are finitely many, none in the future, and the
  "received" row the first of its request (`RowsOk`), that what a chart has fetched
  is the answer to its query on the rows of that moment (`ScreenOk`), and that what
  is shown is the view of those rows (`ShownOk`). What follows speaks of one view at
  a time.
* A row is in the window of a query exactly when its bucket is on the axis of the
  query's clock (`OnAxis`, from `BucketStart`). `SumOfCounts` says that the counts
  of some names add up to the rows with these names; `LineCount`, `NameCount` and
  `CountFound` are its uses, `FoldIsFair` what a fold does to any ranking.
* `TracePaired` and `LastIsRecent`: a request that was delivered lately has a pair,
  with the time of its last delivery of all.

**What the proofs found.** Two statements about `Onboarding` that the runs had
passed turned out not to hold of larger instances, and were put right. With two
faults, a restart could lose a demotion and the next one bring back the promotion
before it, which Telegram's confirmation rules out: it covers every update up to
the newest that was fetched (`Restart`). And
`Provisioned` was false for two users who link the same chat, since the chat's
updates reach only one of them; it now says so (`Unshared`).

Where an argument needs a smallest or a largest element, or the first row that has
a property, it takes it from a well-founded order (`WFMin`): the library's
theorems about induction have an operator as a parameter, which the provers cannot
instantiate.

**Only model-checked.** `Answered`, `WorkEnds` and `ServerStops`, which are liveness
under fairness and outside TLAPS. Every other property of the runs is proved. The
`TypeOK` of `Dispatch`, `AppKeys` and `AdminConsole` are not: their invariants prove
the part of it the arguments need; the rest is membership in sets of strings and
records. In every proof float64 rounding, SHA-256, HMAC and Argon2id are abstracted
as in the modules. The inductive invariants were checked with TLC on the instances
of the runs before they were proved.

## 5. Not modelled

* Request rate limiting (`internal/ratelimit`): one bucket per key, the clock read
  before the mutex, refilled and taken as in the per-chat bucket of the dispatch
  limiter, which `DispatchLimiter` models and proves about; a module of its own
  would say the same again. Policies are loaded once at start.
* The admin UI's test send (one message request, as `Dispatch` models it), its
  list and detail pages (they show rows as they are), layout and routing.
* Logging, recovery and request ids have no state; the health check's ping is a
  request of `Server`.
* The hook chain has no caller at this commit; configuration, key hashing,
  seeding and the mock Telegram are start-up, a library, fixtures and a test
  double.
* `Anonymize`, `SetStatus`, `ResetLink` and `ListForUser` of the registry have no
  caller.
* Two users who link the same chat: which of them `FindUserByChatID` returns is
  not determined, and no document says what should happen.

## 6. Plan

Done, in this order: `AuditChain` with proofs, `Strategy`, `Dispatch`,
`AppKeys`, `Onboarding`, `DispatchLimiter` with proofs, `AdminLogin`,
`AuditSearch`, `AuditLog` with the refinement and its proof, `Server`,
`AdminConsole`, `Dashboard`; then the proofs of `Server`, `AdminConsole`,
`Dispatch` with the resolvers, `AppKeys`, `AdminLogin` and `Onboarding`; last
`TamperDetected`, `PagesComplete`, the audiences and verdicts of `StrategyCases`
and the cards of `Dashboard`. What is left:

1. A history of sent messages for the dispatch limiter, to say how far a burst of
   waiting senders can exceed the rate (`SentWithinRate` does not hold).
2. Which of two users who link one chat gets its updates, once the repository says
   which it should be.
