---------------------------- MODULE AdminConsole ----------------------------
(***************************************************************************)
(* Operators at work in the admin UI: the forms for one app and one user   *)
(* (internal/adminui/apps.go, users.go), each turned into a call of the    *)
(* /admin API with a ten second timeout (apiclient/admin.go), and the      *)
(* forms for the app's keys, which the UI writes itself and reports to the *)
(* audit log afterwards (keys.go, keystore.go).                            *)
(*                                                                         *)
(* What the forms are about is a set of facts: the app exists ("live"), is *)
(* "active", has a capability or a setting, the user has a grade, the user *)
(* is "subscribed".  AppKeys has the transactions of the API in detail;    *)
(* here the writes of a call are one step, some time after it was sent and *)
(* after its look at the app, if it takes one.                             *)
(***************************************************************************)
EXTENDS Integers, Sequences, Functions

CONSTANTS
    Operators,   \* requests of operators' browsers
    Grantable,   \* grantableCapabilities
    Mgmt,        \* management capabilities, which only a seeded app has
    Settings,    \* values of description and min_grade
    Grades,      \* grades of the user
    Prefixes,    \* key prefixes
    Labels,      \* key labels
    MaxForms     \* bound: forms submitted

Caps == Grantable \union Mgmt
AppFacts == {"live", "active", "subscribed"} \union Caps \union Settings

ASSUME ConsoleAssumption ==
    /\ Grantable \intersect Mgmt = {} /\ Caps \intersect Settings = {}
    /\ AppFacts \intersect Grades = {}
    /\ {"live", "active", "subscribed"} \intersect (Caps \union Settings) = {}
    /\ Settings # {} /\ Grades # {} /\ Labels # {}
    /\ MaxForms \in Nat

VARIABLES
    facts,   \* what holds in apps, app_capabilities, users, user_subscriptions
    keys,    \* app_keys
    calls,   \* calls of the API that were sent and not yet carried out
    page,    \* page[o]: the form o submitted and what came of it
    forms,   \* forms submitted; numbers the calls and the keys
    trail,   \* key_issued and key_revoked rows of the audit log
    logged,  \* key events whose audit write failed, in the error log
    done,    \* history: key events that were committed
    told     \* history: key events an operator was shown as done

vars == <<facts, keys, calls, page, forms, trail, logged, done, told>>
keyVars == <<trail, logged, done, told>>

NoPage == [at |-> "idle", n |-> 0, yes |-> {}, no |-> {}, touched |-> {}, event |-> <<>>]

Ready(o) == page[o].at \in {"idle", "done", "failed"} /\ forms < MaxForms

\* The form of o is answered: with the page that says so, or with an error.
Answer(o, at) == page' = [page EXCEPT ![o].at = at]

-----------------------------------------------------------------------------
(* Forms that become a call of the API. *)

\* The API first looks at check, without a lock; its writes succeed when needs
\* hold and bars do not, and then add and remove facts.
Call(check, needs, bars, add, rem) ==
    [check |-> check, needs |-> needs, bars |-> bars, add |-> add, rem |-> rem]

Send(o, call, yes, no) ==
    /\ Ready(o)
    /\ forms' = forms + 1
    /\ calls' = calls \union {[n |-> forms + 1, call |-> call]}
    /\ page' = [page EXCEPT ![o] = [NoPage EXCEPT !.at = "waiting", !.n = forms + 1,
                                                  !.yes = yes, !.no = no]]
    /\ UNCHANGED <<facts, keys, keyVars>>

filterGrantable(cs) == cs \intersect Grantable

\* Mutant: unchecked boxes are not turned into removals.
CapabilityDiffAddsOnly(desired, current) == [add |-> desired \ current, rem |-> {}]

\* What the checkboxes mean against the grants just read.
CapabilityDiff(desired, current) ==
    [add |-> desired \ current, rem |-> current \ desired]

\* Mutant: the grants read are not filtered, so management capabilities, which
\* no box stands for, look unchecked.
DiffUnfiltered(form) == CapabilityDiff(filterGrantable(form), facts \intersect Caps)

Diff(form) == CapabilityDiff(filterGrantable(form), filterGrantable(facts))

\* A capability is granted by an INSERT that refers to the app's row.
NeededBy(add) == IF add = {} THEN {} ELSE {"live"}

\* handleAppPatch with the full form: GetApp reads the grants afresh.
SaveApp(o) ==
    /\ "live" \in facts
    /\ \E form \in SUBSET Caps, s \in Settings :
          LET d == Diff(form) IN
          Send(o, Call({"live"}, NeededBy(d.add), {}, d.add \union {s},
                       d.rem \union (Settings \ {s})),
               filterGrantable(form) \union {s},
               (Grantable \ form) \union (Settings \ {s}))

\* The form with set_active only: no read, no capabilities.
Reactivate(o) == Send(o, Call({"live"}, {}, {}, {"active"}, {}), {"active"}, {})

handleAppDeactivate(o) == Send(o, Call({}, {"live"}, {}, {}, {"active"}), {}, {"active"})

\* confirm_id was retyped; the cascade takes subscriptions and capabilities.
handleAppDelete(o) == Send(o, Call({}, {"live"}, {}, {}, AppFacts), {}, AppFacts)

handleAppCreate(o) ==
    \E form \in SUBSET Caps, s \in Settings :
        LET new == {"live", "active", s} \union filterGrantable(form)
        IN  Send(o, Call({}, {}, {"live"}, new, {}), new, {})

handleUserGrade(o) ==
    \E g \in Grades : Send(o, Call({}, {}, {}, {g}, Grades \ {g}), {g}, Grades \ {g})

handleUserSubscribe(o) ==
    Send(o, Call({"live", "active"}, {"live"}, {}, {"subscribed"}, {}), {"subscribed"}, {})

handleUserUnsubscribe(o) ==
    Send(o, Call({}, {"subscribed"}, {}, {}, {"subscribed"}), {}, {"subscribed"})

\* A form that ends in an error before it changes or sends anything: malformed,
\* confirm_id or confirm missing, no database, the app gone or not readable.
FormRefused(o) ==
    /\ Ready(o)
    /\ forms' = forms + 1
    /\ page' = [page EXCEPT ![o] = [NoPage EXCEPT !.at = "failed"]]
    /\ UNCHANGED <<facts, keys, calls, keyVars>>

-----------------------------------------------------------------------------
(* The API's side of a call. *)

Waits(o, c) == page[o].at = "waiting" /\ page[o].n = c.n

\* Whoever waits for c is answered, or the answer is lost; every other page
\* remembers what changed since its own form was read.
Answered(c, new, ats) ==
    \E at \in ats :
        page' = [o \in Operators |->
                   IF Waits(o, c) THEN [page[o] EXCEPT !.at = at]
                   ELSE [page[o] EXCEPT !.touched =
                            @ \union (facts \ new) \union (new \ facts)]]

\* Subscribe and PATCH look at the app before they write, without a lock; an
\* app that is not found is one of the ways in which CallFails.
PassCheck(c) ==
    /\ c.call.check # {} /\ c.call.check \subseteq facts
    /\ calls' = (calls \ {c}) \union {[c EXCEPT !.call.check = {}]}
    /\ UNCHANGED <<facts, keys, page, forms, keyVars>>

\* What the call adds: PATCH's UPDATEs of an app that was deleted after the
\* check find no row, which is no error.
Written(c) == IF "live" \in facts \union c.call.add THEN c.call.add ELSE c.call.add \ AppFacts

Execute(c) ==
    /\ c.call.check = {}
    /\ LET ok  == c.call.needs \subseteq facts /\ c.call.bars \intersect facts = {}
           new == IF ok THEN (facts \ c.call.rem) \union Written(c) ELSE facts
       IN  /\ facts' = new
           /\ keys' = IF "live" \in new THEN keys ELSE {}
           /\ Answered(c, new, IF ok THEN {"done", "failed"} ELSE {"failed"})
    /\ calls' = calls \ {c}
    /\ UNCHANGED <<forms, keyVars>>

\* Denied, rate limited, a database error or no connection.
CallFails(c) ==
    /\ calls' = calls \ {c}
    /\ Answered(c, facts, {"failed"})
    /\ UNCHANGED <<facts, keys, forms, keyVars>>

\* Ten seconds pass: the UI reports an error, the call may still get through.
GiveUp(o) ==
    /\ page[o].at = "waiting"
    /\ Answer(o, "failed")
    /\ UNCHANGED <<facts, keys, calls, forms, keyVars>>

-----------------------------------------------------------------------------
(* Keys, written by the UI itself. *)

\* An event of a key, as its row in the audit log has it: the stage and the
\* prefix.  The id between them is history, it is not in the row: keys issued
\* under one prefix, before and after the app was deleted, look the same there.
KeyEvent(stage, key) == <<stage, key.id, key.prefix>>

\* A key event was committed; its audit row is next, unless the answer of the
\* statement was lost and the operator gets an error.
Committed(o, key, stage) ==
    /\ done' = done \union {KeyEvent(stage, key)}
    /\ \E at \in {"audit", "failed"} :
          page' = [page EXCEPT ![o] = [NoPage EXCEPT !.at = at,
                                                     !.event = <<KeyEvent(stage, key)>>]]
    /\ UNCHANGED <<trail, logged, told>>

\* IssueKey reads active, and holds no lock on the app afterwards.
IssueCheck(o) ==
    /\ Ready(o) /\ {"live", "active"} \subseteq facts
    /\ forms' = forms + 1
    /\ page' = [page EXCEPT ![o] = [NoPage EXCEPT !.at = "issue", !.n = forms + 1]]
    /\ UNCHANGED <<facts, keys, calls, keyVars>>

\* The INSERT needs the app row and a prefix no key has, revoked ones included.
IssueInsert(o, p) ==
    /\ page[o].at = "issue"
    /\ LET key == [id |-> page[o].n, prefix |-> p, revoked |-> FALSE,
                   label |-> CHOOSE l \in Labels : TRUE]
       IN  IF "live" \in facts /\ \A k \in keys : k.prefix # p
           THEN keys' = keys \union {key} /\ Committed(o, key, "key_issued")
           ELSE Answer(o, "failed") /\ UNCHANGED <<keys, keyVars>>
    /\ UNCHANGED <<facts, calls, forms>>

\* Mutant: the UPDATE is not restricted to keys that are not revoked.
RevocableTwice(k, p) == k.prefix = p

Revocable(k, p) == k.prefix = p /\ ~k.revoked

\* RevokeKey, one UPDATE; no row means an error page.
handleKeyRevoke(o, p) ==
    /\ Ready(o) /\ forms' = forms + 1
    /\ \E k \in keys :
          /\ Revocable(k, p)
          /\ keys' = (keys \ {k}) \union {[k EXCEPT !.revoked = TRUE]}
          /\ Committed(o, k, "key_revoked")
    /\ UNCHANGED <<facts, calls>>

\* UpdateKeyLabel; no audit row.
handleKeyLabel(o, p) ==
    /\ Ready(o) /\ forms' = forms + 1
    /\ \E k \in keys, l \in Labels :
          /\ k.prefix = p /\ ~k.revoked
          /\ keys' = (keys \ {k}) \union {[k EXCEPT !.label = l]}
    /\ \E at \in {"done", "failed"} : page' = [page EXCEPT ![o] = [NoPage EXCEPT !.at = at]]
    /\ UNCHANGED <<facts, calls, keyVars>>

\* Mutant: an error of the audit write is dropped.
AuditErrorDropped(o) == trail' \in {trail, trail \o page[o].event} /\ UNCHANGED logged

\* The row is written, or it is not, or only the answer is lost; every error
\* is logged.
AuditWrite(o) ==
    \/ trail' = trail \o page[o].event /\ UNCHANGED logged
    \/ /\ trail' \in {trail, trail \o page[o].event}
       /\ logged' = logged \union Range(page[o].event)

\* writeKeyAudit, then the page: the new key in plain text, or the list.  When
\* the page cannot be rendered the operator is told to check the list.
writeKeyAudit(o) ==
    /\ page[o].at = "audit"
    /\ AuditWrite(o)
    /\ \/ Answer(o, "done") /\ told' = told \union Range(page[o].event)
       \/ Answer(o, "failed") /\ UNCHANGED told
    /\ UNCHANGED <<facts, keys, calls, forms, done>>

\* The process ends: browsers get an error, calls already sent live on.
Crash ==
    /\ \E o \in Operators : page[o].at \in {"waiting", "issue", "audit"}
    /\ page' = [o \in Operators |->
                  IF page[o].at \in {"waiting", "issue", "audit"}
                  THEN [page[o] EXCEPT !.at = "failed"] ELSE page[o]]
    /\ UNCHANGED <<facts, keys, calls, forms, keyVars>>

-----------------------------------------------------------------------------
\* A seeded app, which has a management capability.
Init ==
    /\ \E s \in Settings, g \in Grades :
          facts = {"live", "active", s, g} \union Mgmt
    /\ keys = {} /\ calls = {} /\ forms = 0
    /\ page = [o \in Operators |-> NoPage]
    /\ trail = <<>> /\ logged = {} /\ done = {} /\ told = {}

AppForm(o) == \/ SaveApp(o) \/ Reactivate(o) \/ handleAppDeactivate(o)
              \/ handleAppDelete(o) \/ handleAppCreate(o)

UserForm(o) == handleUserGrade(o) \/ handleUserSubscribe(o) \/ handleUserUnsubscribe(o)

KeyForm(o) ==
    \/ IssueCheck(o) \/ writeKeyAudit(o)
    \/ \E p \in Prefixes : IssueInsert(o, p) \/ handleKeyRevoke(o, p) \/ handleKeyLabel(o, p)

CallStep == \E c \in calls : PassCheck(c) \/ Execute(c) \/ CallFails(c)

Next ==
    \/ \E o \in Operators : AppForm(o) \/ UserForm(o) \/ KeyForm(o) \/ FormRefused(o) \/ GiveUp(o)
    \/ CallStep \/ Crash

Spec == Init /\ [][Next]_vars

-----------------------------------------------------------------------------
(* Properties. *)

\* What may have come after a form, or in between: the facts another call
\* changed, and with an app deleted or created anew everything about it.
Overtaken(s) == s.touched \union IF "live" \in s.touched THEN AppFacts ELSE {}

\* When a form is reported as done, everything it asked for holds, box by box,
\* except what another call changed after the form's own read: two operators
\* saving the same app at the same time each get what they asked for or what
\* the other asked for, never a mixture nobody asked for (handleAppPatch's
\* diff against a fresh GetApp, doAdmin).  A PATCH that finds the app deleted
\* after its check is reported as done and saved nothing (Patch does not look
\* at RowsAffected): what was asked to hold of an app is promised only while
\* nobody deletes it, what was asked to be taken away is gone in any case.
SavedMeansSo ==
    \A o \in Operators : page[o].at = "done" =>
        /\ page[o].yes \ Overtaken(page[o]) \subseteq facts
        /\ (page[o].no \ page[o].touched) \intersect facts = {}

\* No form takes a management capability away or grants one, whatever boxes it
\* submits: they only go with the app (filterGrantable on both sides of the
\* diff; the API does not gate removals).
ManagementKept ==
    [][facts \intersect Mgmt # facts' \intersect Mgmt => "live" \notin facts']_vars

\* A key an operator was told is issued or revoked is in the audit log, or the
\* failure to write it is in the error log; also when the process dies between
\* the commit and the audit write (writeKeyAudit: never silent).
NoSilentKeyChange == told \subseteq Range(trail) \union logged

\* The audit log says of every key at most once that it was issued and at most
\* once that it was revoked, and only what happened, with any number of
\* operators at the same key (RevokeKey's WHERE, IssueKey's unique prefix).
TrailTrue ==
    /\ Range(trail) \subseteq done
    /\ \A i, j \in DOMAIN trail : trail[i] = trail[j] => i = j

\* The audit log reports a key as revoked only after it has reported it as
\* issued.
RevokedAfterIssued ==
    \A i, j \in DOMAIN trail :
        trail[i][1] = "key_revoked" /\ trail[j][1] = "key_issued" /\ trail[i][2] = trail[j][2]
            => j < i
=============================================================================
