------------------------------ MODULE AppKeys ------------------------------
(***************************************************************************)
(* Apps, their capabilities and their keys: the admin handlers that change *)
(* them (internal/api/handlers/admin_apps.go), the key store of the admin  *)
(* UI (internal/adminui/keystore.go) and the requests that authenticate    *)
(* with a key (internal/auth/store.go, internal/api/middleware/auth.go).   *)
(*                                                                         *)
(* PostgreSQL runs every transaction at READ COMMITTED, except Resolve. An *)
(* action is one statement whose result another session can influence;    *)
(* statements that only touch rows the transaction has locked are taken    *)
(* together with its COMMIT.                                               *)
(***************************************************************************)
EXTENDS Integers, FiniteSets

CONSTANTS
    Sessions,   \* concurrent requests to the API and the admin UI
    Nobody,     \* no session holds the row lock
    Apps,       \* app ids
    SendCaps,   \* capabilities the admin API may grant (allowedCapabilities)
    MgmtCaps,   \* forbiddenCapabilities: only a seeded app has them
    Patches,    \* PATCH bodies that may arrive: [add, rem, active]
    Prefixes,   \* key prefixes
    MaxGen,     \* bound: how often one app id is created again
    MaxVer,     \* bound: capability_set_version
    MaxKeys     \* bound: keys issued

Caps == SendCaps \union MgmtCaps

ASSUME AppKeysAssumption ==
    /\ Nobody \notin Sessions
    /\ SendCaps \intersect MgmtCaps = {}
    /\ MaxGen \in Nat /\ MaxVer \in Nat /\ MaxKeys \in Nat

VARIABLES
    apps,     \* apps[a]: the row, and gen, which counts its incarnations
    caps,     \* caps[a]: app_capabilities
    keys,     \* app_keys
    lock,     \* lock[a]: session holding the row lock of a
    pc,       \* pc[s]: next statement of session s
    req,      \* req[s]: the request s is working on
    pending,  \* pending[s]: capability rows s inserted and deleted, uncommitted
    view,     \* view[s]: snapshot of Resolve's transaction
    ident,    \* ident[s]: RequesterIdentity pinned in the request context
    ans,      \* ans[s]: the answer s is about to give
    rows,     \* rows[s]: capability_set_ver of the audit rows of s's request
    issued,   \* history: every key ever issued
    hist      \* history: committed (app, incarnation, version, capabilities)

vars == <<apps, caps, keys, lock, pc, req, pending, view, ident, ans, rows,
          issued, hist>>
tables == <<apps, caps, keys, issued, hist>>

-----------------------------------------------------------------------------
\* gen is history: the incarnation the request was made for.
NoRequest == [app |-> CHOOSE a \in Apps : TRUE, gen |-> 0, add |-> {}, rem |-> {},
              active |-> "keep", prefix |-> CHOOSE p \in Prefixes : TRUE]
NoIdentity == [app |-> CHOOSE a \in Apps : TRUE, gen |-> 0, ver |-> 0, caps |-> {},
               key |-> 0]
NoDelta == [ins |-> {}, del |-> {}]
NoView == [caps |-> [a \in Apps |-> {}], dead |-> {}]

Live(a) == apps[a].live
MayLock(s, a) == lock[a] \in {s, Nobody}
Unlock(s) == lock' = [a \in Apps |-> IF lock[a] = s THEN Nobody ELSE lock[a]]

Goto(s, l) == pc' = [pc EXCEPT ![s] = l]

\* The handler gives answer c and returns; see Return.
Answer(s, c) == Goto(s, "answer") /\ ans' = [ans EXCEPT ![s] = c]

Record(a, app, cs) == [app |-> a, gen |-> app.gen, ver |-> app.ver, caps |-> cs]

\* The committed row and capabilities of a become app and cs.
Commit(a, app, cs) ==
    /\ apps' = [apps EXCEPT ![a] = app]
    /\ caps' = [caps EXCEPT ![a] = cs]
    /\ hist' = hist \union {Record(a, app, cs)}

\* The loop stops at the first capability that may not be granted.
validateCapabilityGrant(cs) ==
    IF cs \intersect MgmtCaps # {} THEN "forbidden_capability"
    ELSE IF cs \subseteq SendCaps THEN "" ELSE "unknown_capability"

-----------------------------------------------------------------------------
(* POST, DELETE /admin/apps. *)

\* The INSERT fails on a live row and waits for one that is being purged;
\* nothing is visible before COMMIT.
Create(s, a, cs) ==
    /\ pc[s] = "idle"
    /\ LET refused == validateCapabilityGrant(cs) IN
       IF refused # "" \/ Live(a)
       THEN /\ Answer(s, IF refused # "" THEN refused ELSE "app_already_exists")
            /\ UNCHANGED <<apps, caps, hist>>
       ELSE /\ apps[a].gen < MaxGen
            /\ Commit(a, [live |-> TRUE, active |-> TRUE, ver |-> 1,
                          gen |-> apps[a].gen + 1], caps[a] \union cs)
            /\ Answer(s, "created")
    /\ UNCHANGED <<keys, issued, lock, req, pending, view, ident, rows>>

\* FOR UPDATE, then the UPDATE that deactivates; 404 when it hits no row.
Delete(s, a) ==
    /\ pc[s] = "idle"
    /\ \/ /\ Live(a) /\ MayLock(s, a) /\ apps[a].ver < MaxVer
          /\ Commit(a, [apps[a] EXCEPT !.active = FALSE, !.ver = @ + 1], caps[a])
          /\ Answer(s, "deleted")
       \/ ~Live(a) /\ Answer(s, "app_not_found") /\ UNCHANGED <<apps, caps, hist>>
    /\ UNCHANGED <<keys, issued, lock, req, pending, view, ident, rows>>

\* What the DELETE FROM apps removes in each table.
Purged(a, capsLeft, keysLeft) ==
    /\ apps' = [apps EXCEPT ![a].live = FALSE]
    /\ caps' = [caps EXCEPT ![a] = capsLeft]
    /\ keys' = keysLeft

\* Mutant: app_capabilities does not cascade.
CascadeKeepingCaps(a) == Purged(a, caps[a], {k \in keys : k.app # a})

Cascade(a) == Purged(a, {}, {k \in keys : k.app # a})

\* FOR UPDATE, DELETE; capabilities and keys cascade.
Purge(s, a) ==
    /\ pc[s] = "idle"
    /\ \/ Live(a) /\ MayLock(s, a) /\ Cascade(a) /\ Answer(s, "purged")
       \/ ~Live(a) /\ Answer(s, "app_not_found") /\ UNCHANGED <<apps, caps, keys>>
    /\ UNCHANGED <<issued, hist, lock, req, pending, view, ident, rows>>

-----------------------------------------------------------------------------
(* PATCH /admin/apps/{id}. *)

\* The checks on the body, then SELECT EXISTS, which locks nothing.
Patch(s, a, body) ==
    /\ pc[s] = "idle"
    /\ LET refused == validateCapabilityGrant(body.add) IN
       IF refused # "" \/ ~Live(a)
       THEN /\ Answer(s, IF refused # "" THEN refused ELSE "app_not_found")
            /\ UNCHANGED req
       ELSE /\ req' = [req EXCEPT ![s] = [NoRequest EXCEPT !.app = a,
                   !.gen = apps[a].gen, !.add = body.add, !.rem = body.rem, !.active = body.active]]
            /\ Goto(s, "lock") /\ UNCHANGED ans
    /\ UNCHANGED <<tables, lock, pending, view, ident, rows>>

\* Mutant: the FOR UPDATE statement is left out.
PatchLockSkipped(s) ==
    /\ pc[s] = "lock" /\ Goto(s, "write")
    /\ UNCHANGED <<tables, lock, req, pending, view, ident, ans, rows>>

\* SELECT ... FOR UPDATE: waits for the holder; locks nothing, and reports no
\* error, when the row is gone by then.
PatchLock(s) ==
    LET a == req[s].app IN
    /\ pc[s] = "lock" /\ MayLock(s, a)
    /\ lock' = IF Live(a) THEN [lock EXCEPT ![a] = s] ELSE lock
    /\ Goto(s, "write")
    /\ UNCHANGED <<tables, req, pending, view, ident, ans, rows>>

\* The UPDATE of active and the foreign key of an inserted capability lock
\* the row; a DELETE of capabilities does not.
NeedsRow(s) == req[s].active # "keep" \/ req[s].add # {}

\* UPDATEs, INSERTs and DELETEs, each on what is committed when it runs.
PatchWrite(s) ==
    LET a == req[s].app IN
    /\ pc[s] = "write" /\ (NeedsRow(s) => MayLock(s, a))
    /\ IF req[s].add # {} /\ ~Live(a)
       THEN Answer(s, "db_error") /\ UNCHANGED <<lock, pending>>
       ELSE /\ lock' = IF NeedsRow(s) /\ Live(a) THEN [lock EXCEPT ![a] = s] ELSE lock
            /\ pending' = [pending EXCEPT ![s] =
                  [ins |-> req[s].add \ req[s].rem,
                   del |-> req[s].rem \intersect (caps[a] \union req[s].add)]]
            /\ Goto(s, "commit") /\ UNCHANGED ans
    /\ UNCHANGED <<tables, req, view, ident, rows>>

\* Mutant: removals alone do not bump the version.
capsAdded(s) == req[s].add # {}

capsChanged(s) == req[s].add # {} \/ req[s].rem # {}

Activity(s, a) == IF req[s].active = "keep" THEN apps[a].active ELSE req[s].active = "on"

\* The UPDATE of the version, which waits for the row lock, and COMMIT; its
\* answer may be lost.  A row that is gone is no error: the UPDATE hits nothing.
PatchCommit(s) ==
    LET a == req[s].app IN
    /\ pc[s] = "commit" /\ (capsChanged(s) => MayLock(s, a))
    /\ IF Live(a)
       THEN /\ capsChanged(s) => apps[a].ver < MaxVer
            /\ Commit(a, [apps[a] EXCEPT !.active = Activity(s, a),
                                         !.ver = IF capsChanged(s) THEN @ + 1 ELSE @],
                      (caps[a] \union pending[s].ins) \ pending[s].del)
       ELSE UNCHANGED <<apps, caps, hist>>
    /\ \E c \in {"updated", "db_error"} : Answer(s, c)
    /\ Unlock(s)
    /\ UNCHANGED <<keys, issued, req, pending, view, ident, rows>>

-----------------------------------------------------------------------------
(* The key store. *)

\* SELECT active, which locks nothing.
IssueKey(s, a, p) ==
    /\ pc[s] = "idle"
    /\ IF Live(a) /\ apps[a].active
       THEN /\ req' = [req EXCEPT ![s] = [NoRequest EXCEPT !.app = a,
                   !.gen = apps[a].gen, !.prefix = p]]
            /\ Goto(s, "insert") /\ UNCHANGED ans
       ELSE Answer(s, IF Live(a) THEN "app_inactive" ELSE "app_not_found") /\ UNCHANGED req
    /\ UNCHANGED <<tables, lock, pending, view, ident, rows>>

\* The prefix check, the INSERT (its foreign key waits for a FOR UPDATE) and
\* COMMIT.
IssueInsert(s) ==
    LET a == req[s].app
        k == [id |-> Cardinality(issued) + 1, app |-> a, gen |-> apps[a].gen,
              prefix |-> req[s].prefix, revoked |-> FALSE]
    IN
    /\ pc[s] = "insert" /\ MayLock(s, a)
    /\ IF (\E j \in keys : j.prefix = k.prefix) \/ ~Live(a)
       THEN /\ Answer(s, IF Live(a) THEN "prefix_taken" ELSE "insert_error")
            /\ UNCHANGED <<keys, issued>>
       ELSE /\ Cardinality(issued) < MaxKeys
            /\ keys' = keys \union {k} /\ issued' = issued \union {k}
            /\ Answer(s, "issued")
    /\ UNCHANGED <<apps, caps, hist, lock, req, pending, view, ident, rows>>

RevokeKey(s, a, p) ==
    LET hit == {k \in keys : k.app = a /\ k.prefix = p /\ ~k.revoked} IN
    /\ pc[s] = "idle"
    /\ keys' = (keys \ hit) \union {[k EXCEPT !.revoked = TRUE] : k \in hit}
    /\ Answer(s, IF hit = {} THEN "key_not_found" ELSE "revoked")
    /\ UNCHANGED <<apps, caps, issued, hist, lock, req, pending, view, ident, rows>>

-----------------------------------------------------------------------------
(* middleware.Auth, RequireCapability and the handler behind them. *)

\* Mutant: revoked keys are matched too.
MatchesRevoked(k, bearer) == apps[k.app].active /\ k.id = bearer.id

\* The WHERE clause of the key query and the Argon2id check: the hash of
\* one key accepts only its own bearer.
Matches(k, bearer) ==
    /\ k.prefix = bearer.prefix /\ ~k.revoked
    /\ apps[k.app].active
    /\ k.id = bearer.id

\* Keys that a request starting now must not be able to use.
DeadKeys == {b.id : b \in {c \in issued : \A k \in keys : k.id = c.id => k.revoked}}

\* First query of the REPEATABLE READ transaction: it fixes the snapshot.
Resolve(s, bearer) ==
    /\ pc[s] = "idle"
    /\ \/ /\ \E k \in keys :
                /\ Matches(k, bearer)
                /\ ident' = [ident EXCEPT ![s] =
                      [app |-> k.app, gen |-> apps[k.app].gen, ver |-> apps[k.app].ver,
                       caps |-> {}, key |-> k.id]]
          /\ view' = [view EXCEPT ![s] = [caps |-> caps, dead |-> DeadKeys]]
          /\ Goto(s, "caps") /\ UNCHANGED ans
       \/ /\ \A k \in keys : ~Matches(k, bearer)
          /\ Answer(s, "unknown_bearer") /\ UNCHANGED <<ident, view>>
    /\ UNCHANGED <<tables, lock, req, pending, rows>>

\* Mutant: the two queries of Resolve do not share a snapshot.
loadCapabilitiesCommitted(s) ==
    /\ pc[s] = "caps"
    /\ ident' = [ident EXCEPT ![s].caps = caps[ident[s].app]]
    /\ Goto(s, "gate")
    /\ UNCHANGED <<tables, lock, req, pending, view, ans, rows>>

loadCapabilitiesTx(s) ==
    /\ pc[s] = "caps"
    /\ ident' = [ident EXCEPT ![s].caps = view[s].caps[ident[s].app]]
    /\ Goto(s, "gate")
    /\ UNCHANGED <<tables, lock, req, pending, view, ans, rows>>

\* RequireCapability; its denied row carries no version (NULL, here 0).
RequireCapability(s, c) ==
    /\ pc[s] = "gate"
    /\ IF c \in ident[s].caps
       THEN Goto(s, "handle") /\ UNCHANGED <<ans, rows>>
       ELSE /\ rows' = [rows EXCEPT ![s] = @ \union {0}]
            /\ Answer(s, "forbidden")
    /\ UNCHANGED <<tables, lock, req, pending, view, ident>>

\* The rows of auditFlow and runStrategyDispatch.
Handle(s) ==
    /\ pc[s] = "handle"
    /\ rows' = [rows EXCEPT ![s] = @ \union {ident[s].ver}]
    /\ Answer(s, "ok")
    /\ UNCHANGED <<tables, lock, req, pending, view, ident>>

\* A statement fails or the context ends.
Fail(s) ==
    /\ pc[s] \notin {"idle", "answer"}
    /\ Answer(s, "db_error")
    /\ UNCHANGED <<tables, lock, req, pending, view, ident, rows>>

\* The handler returns; a transaction still open is rolled back.
Return(s) ==
    /\ pc[s] = "answer"
    /\ Goto(s, "idle") /\ Unlock(s)
    /\ req' = [req EXCEPT ![s] = NoRequest]
    /\ pending' = [pending EXCEPT ![s] = NoDelta]
    /\ view' = [view EXCEPT ![s] = NoView]
    /\ ident' = [ident EXCEPT ![s] = NoIdentity]
    /\ ans' = [ans EXCEPT ![s] = "none"]
    /\ rows' = [rows EXCEPT ![s] = {}]
    /\ UNCHANGED tables

-----------------------------------------------------------------------------
\* The seed migrations: every app exists, with management capabilities.
Init ==
    /\ apps = [a \in Apps |-> [live |-> TRUE, active |-> TRUE, ver |-> 1, gen |-> 0]]
    /\ caps = [a \in Apps |-> MgmtCaps]
    /\ keys = {} /\ issued = {}
    /\ hist = {Record(a, apps[a], caps[a]) : a \in Apps}
    /\ lock = [a \in Apps |-> Nobody]
    /\ pc = [s \in Sessions |-> "idle"]
    /\ req = [s \in Sessions |-> NoRequest]
    /\ pending = [s \in Sessions |-> NoDelta]
    /\ view = [s \in Sessions |-> NoView]
    /\ ident = [s \in Sessions |-> NoIdentity]
    /\ ans = [s \in Sessions |-> "none"]
    /\ rows = [s \in Sessions |-> {}]

AdminStep(s) ==
    \/ \E a \in Apps : \/ \E cs \in SUBSET Caps : Create(s, a, cs)
                       \/ Delete(s, a) \/ Purge(s, a)
                       \/ \E body \in Patches : Patch(s, a, body)
                       \/ \E p \in Prefixes : IssueKey(s, a, p) \/ RevokeKey(s, a, p)
    \/ PatchLock(s) \/ PatchWrite(s) \/ PatchCommit(s) \/ IssueInsert(s)

RequestStep(s) ==
    \/ \E b \in issued : Resolve(s, b)
    \/ loadCapabilitiesTx(s)
    \/ \E c \in Caps : RequireCapability(s, c)
    \/ Handle(s)

Next == \E s \in Sessions : AdminStep(s) \/ RequestStep(s) \/ Fail(s) \/ Return(s)

Spec == Init /\ [][Next]_vars

-----------------------------------------------------------------------------
(* Properties. *)

Key == [id : Nat \ {0}, app : Apps, gen : Nat, prefix : Prefixes, revoked : BOOLEAN]

\* Type invariant.
TypeOK ==
    /\ apps \in [Apps -> [live : BOOLEAN, active : BOOLEAN, ver : Nat, gen : Nat]]
    /\ caps \in [Apps -> SUBSET Caps]
    /\ keys \subseteq Key /\ issued \subseteq Key
    /\ lock \in [Apps -> Sessions \union {Nobody}]
    /\ pc \in [Sessions -> {"idle", "lock", "write", "commit", "insert", "caps",
                            "gate", "handle", "answer"}]
    /\ req \in [Sessions -> [app : Apps, gen : Nat, add : SUBSET Caps, rem : SUBSET Caps,
                             active : {"keep", "on", "off"}, prefix : Prefixes]]
    /\ pending \in [Sessions -> [ins : SUBSET Caps, del : SUBSET Caps]]
    /\ ident \in [Sessions -> [app : Apps, gen : Nat, ver : Nat, caps : SUBSET Caps,
                               key : Nat]]
    /\ ans \in [Sessions -> STRING]
    /\ rows \in [Sessions -> SUBSET Nat]

Authenticated(s) == pc[s] \in {"gate", "handle"}

\* The identity a request is pinned to is a version of its app with exactly
\* the capabilities that version had, however the app is patched, deleted,
\* purged and created again meanwhile (Resolve's one snapshot).
PinnedIdentity ==
    \A s \in Sessions : Authenticated(s) =>
        [app |-> ident[s].app, gen |-> ident[s].gen, ver |-> ident[s].ver,
         caps |-> ident[s].caps] \in hist

\* Within one incarnation of an app, a version number names one capability
\* set: the forensic reading of capability_set_ver.
VersionNamesOneSet ==
    \A h, k \in hist : h.app = k.app /\ h.gen = k.gen /\ h.ver = k.ver => h.caps = k.caps

\* A PATCH whose app is not purged under it leaves the app with what it
\* added and without what it removed, also under concurrent PATCHes (the
\* FOR UPDATE that serializes them).
PatchTakesEffect ==
    [][\A s \in Sessions :
         LET a == req[s].app IN
         pc[s] = "commit" /\ ans'[s] = "updated" /\ Live(a) /\ apps[a].gen = req[s].gen =>
             /\ req[s].add \ req[s].rem \subseteq caps'[a]
             /\ req[s].rem \intersect caps'[a] = {}]_vars

\* A bearer authenticates only for the incarnation of the app it was issued
\* to, and never in a request that starts after it was revoked or purged.
BearerDiesWithKey ==
    \A s \in Sessions : Authenticated(s) =>
        /\ ident[s].key \notin view[s].dead
        /\ \A k \in issued : k.id = ident[s].key => k.gen = ident[s].gen

\* No sequence of admin calls gives an app a management capability it was
\* not seeded with, nor a purged app id its old ones back.
NoEscalation ==
    \A a \in Apps : apps[a].gen > 0 => caps[a] \intersect MgmtCaps = {}

\* No key is issued for an app that is not active at that moment.
IssuedForActiveApp == [][\A k \in issued' \ issued : apps[k.app].active]_vars

\* A PATCH of an app that does not exist does not answer 200.
PatchFindsApp ==
    [][\A s \in Sessions : pc[s] = "commit" /\ ans'[s] = "updated" => Live(req[s].app)]_vars

\* A prefix in an audit row names one key, for good.
PrefixNamesOneKey == \A j, k \in issued : j.prefix = k.prefix => j.id = k.id

\* A version number of an app id orders its capability sets: it is never
\* used twice.
VersionsMonotone == [][\A a \in Apps : apps'[a].ver >= apps[a].ver]_vars

\* Every audit row of an authenticated request carries the pinned version.
RowsCarryVersion == \A s \in Sessions : rows[s] \subseteq {ident[s].ver}
=============================================================================
