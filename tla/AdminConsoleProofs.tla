------------------------- MODULE AdminConsoleProofs -------------------------
(***************************************************************************)
(* For any operators, capabilities, settings, prefixes and number of       *)
(* forms: a form reported as saved was saved, no form touches a management *)
(* capability, and the trail of the keys is true and never silently        *)
(* incomplete. For any log, clock skew, ranges, filters and limits: the    *)
(* charts, the donut and the strip of the dashboard count what they show   *)
(* exactly.                                                                *)
(***************************************************************************)
EXTENDS AdminConsole, Dashboard, FiniteSetTheorems, TLAPS

Events == {"key_issued", "key_revoked"} \X Nat \X Prefixes
Places == {"idle", "waiting", "issue", "audit", "done", "failed"}

\* The shape of a page, and of a call.
IsPage(s) ==
    /\ s = [at |-> s.at, n |-> s.n, yes |-> s.yes, no |-> s.no, touched |-> s.touched,
            event |-> s.event]
    /\ s.at \in Places /\ s.n \in Nat

IsCall(c) ==
    /\ c = [n |-> c.n, call |-> c.call] /\ c.n \in Nat
    /\ c.call = [check |-> c.call.check, needs |-> c.call.needs, bars |-> c.call.bars,
                 add |-> c.call.add, rem |-> c.call.rem]

IsKey(k) ==
    /\ k = [id |-> k.id, prefix |-> k.prefix, revoked |-> k.revoked, label |-> k.label]
    /\ k.id \in Nat /\ k.prefix \in Prefixes /\ k.revoked \in BOOLEAN

\* The types of the state, and the numbers drawn so far.
ConsoleTypes ==
    /\ forms \in Nat
    /\ page = [o \in Operators |-> page[o]]
    /\ \A o \in Operators : IsPage(page[o]) /\ page[o].n <= forms
    /\ \A c \in calls : IsCall(c) /\ c.n <= forms
    /\ \A k \in keys : IsKey(k) /\ k.id <= forms
    /\ trail \in Seq(Events)
    /\ done \subseteq Events

\* A call leaves management capabilities alone, or deletes the app.
CallsHarmless ==
    \A c \in calls :
        \/ (c.call.add \union c.call.rem) \intersect Mgmt = {}
        \/ c.call.add = {} /\ "live" \in c.call.rem

\* What the facts are after the call, if the API carries it out now and finds
\* the app's row.
After(c) == (facts \ c.call.rem) \union c.call.add

\* A call that adds facts about an app creates it, needs it, will look for it,
\* or the app is there, or was: then page s knows.
Founded(s, c) ==
    \/ c.call.add \intersect AppFacts = {}
    \/ "live" \in c.call.add \union c.call.needs \union c.call.check
                  \union facts \union s.touched

\* Carrying out the call a page waits for brings about what its form asks for,
\* except what was changed since.
CallsFit ==
    \A o \in Operators, c \in calls : Waits(o, c) =>
        /\ page[o].yes \ page[o].touched \subseteq After(c)
        /\ (page[o].no \ page[o].touched) \intersect After(c) = {}
        /\ Founded(page[o], c)

\* Keys have one id each; nothing has happened yet to the key a page is about
\* to insert, and no key that is not revoked has been revoked.
KeysNumbered ==
    /\ \A k, l \in keys : k.id = l.id => k = l
    /\ \A k \in keys : ~k.revoked => \A e \in done : e[1] = "key_revoked" => e[2] # k.id
    /\ \A e \in done : e[2] <= forms
    /\ \A o \in Operators : page[o].at = "issue" =>
          /\ \A k \in keys : k.id # page[o].n
          /\ \A e \in done : e[2] # page[o].n
          /\ \A q \in Operators : page[q].at = "issue" /\ page[q].n = page[o].n => q = o

\* An event that is about to be written happened, is not in the trail, and
\* nobody else is about to write it; its page asked for nothing else.
EventsPending ==
    \A o \in Operators : page[o].at = "audit" =>
        /\ page[o].yes = {} /\ page[o].no = {}
        /\ \E e \in done :
              /\ page[o].event = <<e>> /\ e \notin Range(trail)
              /\ \A q \in Operators : page[q].at = "audit" /\ page[q].event = <<e>> => q = o

ConsoleInv ==
    /\ ConsoleTypes /\ CallsHarmless /\ CallsFit /\ SavedMeansSo
    /\ KeysNumbered /\ EventsPending /\ TrailTrue /\ NoSilentKeyChange

-----------------------------------------------------------------------------
(* Forms that become a call. *)

\* The numbers of the state are numbers.
LEMMA Numbers ==
    ASSUME ConsoleTypes
    PROVE  /\ forms \in Nat
           /\ \A o \in Operators : page[o].n \in Nat /\ page[o].n <= forms
           /\ \A c \in calls : c.n \in Nat /\ c.n <= forms
           /\ \A k \in keys : k.id \in Nat /\ k.id <= forms
           /\ \A e \in done : e[2] \in Nat /\ e[1] \in {"key_issued", "key_revoked"}
                               /\ e = <<e[1], e[2], e[3]>>
<1>1. forms \in Nat
    BY DEF ConsoleTypes
<1>2. \A o \in Operators : page[o].n \in Nat /\ page[o].n <= forms
    BY DEF ConsoleTypes, IsPage
<1>3. \A c \in calls : c.n \in Nat /\ c.n <= forms
    BY DEF ConsoleTypes, IsCall
<1>4. \A k \in keys : k.id \in Nat /\ k.id <= forms
    BY DEF ConsoleTypes, IsKey
<1>5. \A e \in done : e[2] \in Nat /\ e[1] \in {"key_issued", "key_revoked"}
                        /\ e = <<e[1], e[2], e[3]>>
    BY DEF ConsoleTypes, Events
<1> QED BY <1>1, <1>2, <1>3, <1>4, <1>5

NewPage(at, n, yes, no, event) ==
    [at |-> at, n |-> n, yes |-> yes, no |-> no, touched |-> {}, event |-> event]

\* What the forms make of an empty page.
LEMMA PageOfForm ==
    ASSUME NEW s, NEW at, NEW n, NEW yes, NEW no, NEW event
    PROVE  /\ s = [NoPage EXCEPT !.at = at] => s = NewPage(at, 0, {}, {}, <<>>)
           /\ s = [NoPage EXCEPT !.at = at, !.n = n] => s = NewPage(at, n, {}, {}, <<>>)
           /\ s = [NoPage EXCEPT !.at = at, !.event = event] => s = NewPage(at, 0, {}, {}, event)
           /\ s = [NoPage EXCEPT !.at = at, !.n = n, !.yes = yes, !.no = no]
                 => s = NewPage(at, n, yes, no, <<>>)
<1>1. s = [NoPage EXCEPT !.at = at] => s = NewPage(at, 0, {}, {}, <<>>)
    BY DEF NoPage, NewPage
<1>2. s = [NoPage EXCEPT !.at = at, !.n = n] => s = NewPage(at, n, {}, {}, <<>>)
    BY DEF NoPage, NewPage
<1>3. s = [NoPage EXCEPT !.at = at, !.event = event] => s = NewPage(at, 0, {}, {}, event)
    BY DEF NoPage, NewPage
<1>4. s = [NoPage EXCEPT !.at = at, !.n = n, !.yes = yes, !.no = no]
          => s = NewPage(at, n, yes, no, <<>>)
    BY DEF NoPage, NewPage
<1> QED BY <1>1, <1>2, <1>3, <1>4

\* The fields of such a page.
LEMMA NewPageFields ==
    ASSUME NEW at, NEW n, NEW yes, NEW no, NEW event, NEW s, s = NewPage(at, n, yes, no, event)
    PROVE  /\ s.at = at /\ s.n = n /\ s.yes = yes /\ s.no = no /\ s.event = event
           /\ s.touched = {} /\ (at \in Places /\ n \in Nat => IsPage(s))
    BY DEF NewPage, IsPage

\* A page whose place changes.
LEMMA Moved ==
    ASSUME NEW s, IsPage(s), NEW at \in Places, NEW t, t = [s EXCEPT !.at = at]
    PROVE  /\ IsPage(t) /\ t.at = at /\ t.n = s.n /\ t.yes = s.yes /\ t.no = s.no
           /\ t.touched = s.touched /\ t.event = s.event
    BY DEF IsPage

\* A page that neither waits nor writes and that asked for nothing says nothing.
LEMMA PlainPage ==
    ASSUME ConsoleInv, NEW o \in Operators, NEW at \in {"done", "failed"},
           page' = [page EXCEPT ![o] = NewPage(at, 0, {}, {}, <<>>)],
           forms' = forms + 1, UNCHANGED <<facts, calls, trail, logged, done, told>>,
           \A k \in keys' : IsKey(k) /\ \E l \in keys : k.id = l.id /\ k.revoked = l.revoked,
           \A k, l \in keys' : k.id = l.id => k = l
    PROVE  ConsoleInv'
<1> USE DEF ConsoleInv
<1>1. /\ page' = [q \in Operators |-> page'[q]]
      /\ page'[o] = NewPage(at, 0, {}, {}, <<>>)
      /\ \A q \in Operators \ {o} : page'[q] = page[q]
    BY DEF ConsoleTypes
<1>2. /\ page'[o].at = at /\ page'[o].n = 0 /\ page'[o].yes = {} /\ page'[o].no = {}
      /\ at \notin {"waiting", "issue", "audit"} /\ IsPage(page'[o]) /\ forms \in Nat
    BY <1>1, NewPageFields DEF Places, ConsoleTypes
<1>3. ConsoleTypes'
    <2>1. \A q \in Operators : IsPage(page'[q]) /\ page'[q].n <= forms + 1
        BY <1>1, <1>2, Numbers DEF ConsoleTypes
    <2>2. \A c \in calls : IsCall(c) /\ c.n <= forms + 1
        BY <1>2, Numbers DEF ConsoleTypes
    <2>3. \A k \in keys' : IsKey(k) /\ k.id <= forms + 1
        BY <1>2, Numbers DEF ConsoleTypes
    <2> QED BY <1>1, <1>2, <2>1, <2>2, <2>3 DEF ConsoleTypes
<1>4. CallsHarmless'
    BY DEF CallsHarmless
<1>5. CallsFit' /\ SavedMeansSo'
    BY <1>1, <1>2 DEF CallsFit, Founded, SavedMeansSo, Overtaken, After, Waits
<1>6. KeysNumbered'
    BY <1>1, <1>2, Numbers DEF KeysNumbered
<1>7. EventsPending'
    BY <1>1, <1>2 DEF EventsPending
<1>8. TrailTrue' /\ NoSilentKeyChange'
    BY DEF TrailTrue, NoSilentKeyChange
<1> QED BY <1>3, <1>4, <1>5, <1>6, <1>7, <1>8

\* A form refused before it does anything.
LEMMA FormRefusedKeeps ==
    ASSUME ConsoleInv, NEW o \in Operators, FormRefused(o)
    PROVE  ConsoleInv'
<1>1. [NoPage EXCEPT !.at = "failed"] = NewPage("failed", 0, {}, {}, <<>>)
    BY PageOfForm
<1>2. page' = [page EXCEPT ![o] = NewPage("failed", 0, {}, {}, <<>>)]
    BY <1>1 DEF FormRefused
<1>3. forms' = forms + 1 /\ UNCHANGED <<facts, keys, calls, trail, logged, done, told>>
    BY DEF FormRefused, keyVars
<1> QED BY <1>2, <1>3, PlainPage DEF ConsoleInv, ConsoleTypes, KeysNumbered

\* A call that leaves management alone, or deletes the app, and that brings
\* about what the form asks for.
LEMMA SendKeeps ==
    ASSUME ConsoleInv, NEW o \in Operators,
           NEW check, NEW needs, NEW bars, NEW add, NEW rem, NEW yes, NEW no,
           Send(o, Call(check, needs, bars, add, rem), yes, no),
           \/ (add \union rem) \intersect Mgmt = {}
           \/ add = {} /\ "live" \in rem,
           yes \subseteq (facts \ rem) \union add,
           no \intersect ((facts \ rem) \union add) = {},
           add \intersect AppFacts = {} \/ "live" \in add \union needs \union check
    PROVE  ConsoleInv'
<1> USE DEF ConsoleInv
<1> DEFINE new == [n |-> forms + 1, call |-> Call(check, needs, bars, add, rem)]
<1>14. forms \in Nat
    BY DEF ConsoleTypes
<1>1. /\ forms' = forms + 1 /\ calls' = calls \union {new}
      /\ UNCHANGED <<facts, keys, trail, logged, done, told>>
    BY DEF Send, keyVars
<1>2. /\ new.n = forms + 1 /\ new.call.add = add /\ new.call.rem = rem
      /\ new.call.check = check /\ new.call.needs = needs /\ new.call.bars = bars
      /\ new = [n |-> new.n, call |-> new.call]
      /\ new.call = [check |-> check, needs |-> needs, bars |-> bars, add |-> add, rem |-> rem]
    BY DEF Call
<1>13. \A c \in calls' : c \in calls \/ c = new
    BY <1>1
<1>3. page' = [page EXCEPT ![o] = NewPage("waiting", forms + 1, yes, no, <<>>)]
    <2>1. PICK s : s = [NoPage EXCEPT !.at = "waiting", !.n = forms + 1, !.yes = yes, !.no = no]
        OBVIOUS
    <2>2. s = NewPage("waiting", forms + 1, yes, no, <<>>)
        BY <2>1 DEF NoPage, NewPage
    <2>3. page' = [page EXCEPT ![o] = s]
        BY <2>1 DEF Send
    <2> QED BY <2>2, <2>3
<1> HIDE DEF new
<1>4. /\ page' = [q \in Operators |-> page'[q]]
      /\ page'[o] = NewPage("waiting", forms + 1, yes, no, <<>>)
      /\ \A q \in Operators \ {o} : page'[q] = page[q]
    BY <1>3 DEF ConsoleTypes
<1>5. /\ page'[o].at = "waiting" /\ page'[o].n = forms + 1 /\ page'[o].yes = yes
      /\ page'[o].no = no /\ page'[o].touched = {} /\ IsPage(page'[o])
    BY <1>14, <1>4, NewPageFields DEF Places
<1>6. ConsoleTypes'
    <2>1. \A q \in Operators : IsPage(page'[q]) /\ page'[q].n <= forms + 1
        BY <1>14, <1>4, <1>5, Numbers DEF ConsoleTypes
    <2>4. IsCall(new)
        BY <1>14, <1>2 DEF IsCall
    <2>2. \A c \in calls' : IsCall(c) /\ c.n <= forms + 1
        BY <1>14, <1>13, <1>2, <2>4, Numbers DEF ConsoleTypes
    <2>3. \A k \in keys : IsKey(k) /\ k.id <= forms + 1
        BY <1>14, Numbers DEF ConsoleTypes
    <2> QED BY <1>1, <1>14, <1>4, <2>1, <2>2, <2>3 DEF ConsoleTypes
<1>7. CallsHarmless'
    BY <1>13, <1>2 DEF CallsHarmless
<1>8. CallsFit'
    <2> SUFFICES ASSUME NEW q \in Operators, NEW c \in calls', Waits(q, c)'
                 PROVE  /\ page'[q].yes \ page'[q].touched \subseteq After(c)'
                        /\ (page'[q].no \ page'[q].touched) \intersect After(c)' = {}
                        /\ Founded(page[q], c)'
        BY DEF CallsFit
    <2>1. CASE c \in calls
        <3>1. c.n <= forms /\ c.n \in Nat
            BY <2>1, Numbers
        <3>2. q # o
            BY <1>14, <1>5, <3>1 DEF Waits
        <3> QED BY <1>1, <1>4, <2>1, <3>2 DEF CallsFit, Founded, Waits, After
    <2>2. CASE c = new
        <3>1. q = o
            BY <1>14, <1>2, <1>4, <2>2, Numbers DEF Waits
        <3> QED BY <1>1, <1>2, <1>5, <2>2, <3>1 DEF After, Founded
    <2> QED BY <1>13, <2>1, <2>2
<1>9. SavedMeansSo'
    BY <1>1, <1>4, <1>5 DEF SavedMeansSo, Overtaken
<1>10. KeysNumbered'
    BY <1>1, <1>14, <1>4, <1>5, Numbers DEF KeysNumbered
<1>11. EventsPending'
    BY <1>1, <1>4, <1>5 DEF EventsPending
<1>12. TrailTrue' /\ NoSilentKeyChange'
    BY <1>1 DEF TrailTrue, NoSilentKeyChange
<1> QED BY <1>6, <1>7, <1>8, <1>9, <1>10, <1>11, <1>12

-----------------------------------------------------------------------------
(* The forms: what they send is harmless, and fits what they ask for. *)

\* The difference a save form computes never touches a management capability.
LEMMA SaveAppKeeps ==
    ASSUME ConsoleInv, NEW o \in Operators, SaveApp(o)
    PROVE  ConsoleInv'
<1>1. PICK form \in SUBSET Caps, s \in Settings :
          Send(o, Call({"live"}, NeededBy(Diff(form).add), {}, Diff(form).add \union {s},
                       Diff(form).rem \union (Settings \ {s})),
               filterGrantable(form) \union {s}, (Grantable \ form) \union (Settings \ {s}))
    BY DEF SaveApp
<1>2. PICK needs, add, rem, yes, no :
          /\ needs = NeededBy(Diff(form).add)
          /\ add = ((form \intersect Grantable) \ (facts \intersect Grantable)) \union {s}
          /\ rem = ((facts \intersect Grantable) \ (form \intersect Grantable))
                     \union (Settings \ {s})
          /\ yes = (form \intersect Grantable) \union {s}
          /\ no = (Grantable \ form) \union (Settings \ {s})
    OBVIOUS
<1>3. Send(o, Call({"live"}, needs, {}, add, rem), yes, no)
    BY <1>1, <1>2 DEF Diff, CapabilityDiff, filterGrantable
<1>4. (add \union rem) \intersect Mgmt = {}
    BY <1>2, ConsoleAssumption DEF Caps
<1>5. yes \subseteq (facts \ rem) \union add
    BY <1>2, ConsoleAssumption DEF Caps
<1>6. no \intersect ((facts \ rem) \union add) = {}
    BY <1>2, ConsoleAssumption DEF Caps
<1> QED BY <1>3, <1>4, <1>5, <1>6, SendKeeps

\* Reactivating and deactivating move one fact.
LEMMA ReactivateKeeps ==
    ASSUME ConsoleInv, NEW o \in Operators, Reactivate(o) \/ handleAppDeactivate(o)
    PROVE  ConsoleInv'
<1>1. ({"active"} \union {}) \intersect Mgmt = {} /\ ({} \union {"active"}) \intersect Mgmt = {}
    BY ConsoleAssumption DEF Caps
<1>2. CASE Reactivate(o)
    BY <1>1, <1>2, SendKeeps DEF Reactivate
<1>3. CASE handleAppDeactivate(o)
    BY <1>1, <1>3, SendKeeps DEF handleAppDeactivate
<1> QED BY <1>2, <1>3

\* Deleting an app asks for what its call removes.
LEMMA DeleteKeeps ==
    ASSUME ConsoleInv, NEW o \in Operators, handleAppDelete(o)
    PROVE  ConsoleInv'
<1>1. "live" \in AppFacts
    BY DEF AppFacts
<1> QED BY <1>1, SendKeeps DEF handleAppDelete

\* Creating an app asks for what its call adds.
LEMMA CreateKeeps ==
    ASSUME ConsoleInv, NEW o \in Operators, handleAppCreate(o)
    PROVE  ConsoleInv'
<1>1. PICK form \in SUBSET Caps, s \in Settings :
          Send(o, Call({}, {}, {"live"}, {"live", "active", s} \union filterGrantable(form), {}),
               {"live", "active", s} \union filterGrantable(form), {})
    BY DEF handleAppCreate
<1>2. PICK new : new = {"live", "active", s} \union filterGrantable(form)
    OBVIOUS
<1>3. (new \union {}) \intersect Mgmt = {}
    BY <1>2, ConsoleAssumption DEF Caps, filterGrantable
<1>4. Send(o, Call({}, {}, {"live"}, new, {}), new, {}) /\ "live" \in new
    BY <1>1, <1>2
<1> QED BY <1>3, <1>4, SendKeeps

\* A change of grade replaces the grade and nothing else.
LEMMA GradeKeeps ==
    ASSUME ConsoleInv, NEW o \in Operators, handleUserGrade(o)
    PROVE  ConsoleInv'
<1>1. PICK g \in Grades : Send(o, Call({}, {}, {}, {g}, Grades \ {g}), {g}, Grades \ {g})
    BY DEF handleUserGrade
<1>2. ({g} \union (Grades \ {g})) \intersect Mgmt = {}
    BY ConsoleAssumption DEF Caps, AppFacts
<1>3. {g} \intersect AppFacts = {}
    BY ConsoleAssumption
<1> QED BY <1>1, <1>2, <1>3, SendKeeps

\* Subscribing and unsubscribing move one fact.
LEMMA SubscriptionKeeps ==
    ASSUME ConsoleInv, NEW o \in Operators, handleUserSubscribe(o) \/ handleUserUnsubscribe(o)
    PROVE  ConsoleInv'
<1>1. /\ ({"subscribed"} \union {}) \intersect Mgmt = {}
      /\ ({} \union {"subscribed"}) \intersect Mgmt = {}
    BY ConsoleAssumption DEF Caps
<1>2. CASE handleUserSubscribe(o)
    BY <1>1, <1>2, SendKeeps DEF handleUserSubscribe
<1>3. CASE handleUserUnsubscribe(o)
    BY <1>1, <1>3, SendKeeps DEF handleUserUnsubscribe
<1> QED BY <1>2, <1>3

-----------------------------------------------------------------------------
(* The API's side. *)

\* Pages change only in whether they wait, and remember what the facts became.
LEMMA AnsweredKeeps ==
    ASSUME ConsoleInv, NEW c \in calls, NEW new, NEW ats, ats \subseteq {"done", "failed"},
           Answered(c, new, ats), facts' = new, calls' = calls \ {c},
           "done" \in ats => /\ c.call.check = {} /\ c.call.needs \subseteq facts
                             /\ new = (facts \ c.call.rem) \union Written(c),
           UNCHANGED <<forms, trail, logged, done, told>>,
           keys' \subseteq keys
    PROVE  ConsoleInv'
<1> USE DEF ConsoleInv
<1>1. PICK at \in ats :
          page' = [o \in Operators |->
                     IF Waits(o, c) THEN [page[o] EXCEPT !.at = at]
                     ELSE [page[o] EXCEPT !.touched = @ \union (facts \ new) \union (new \ facts)]]
    BY DEF Answered
<1>2. \A o \in Operators : Waits(o, c) => page'[o] = [page[o] EXCEPT !.at = at]
    BY <1>1
<1>3. \A o \in Operators : ~Waits(o, c) =>
          page'[o] = [page[o] EXCEPT !.touched = page[o].touched \union (facts \ new) \union (new \ facts)]
    BY <1>1
<1>4. page' = [o \in Operators |-> page'[o]]
    BY <1>1
<1>5. \A o \in Operators : Waits(o, c) =>
          /\ page'[o].at = at /\ page'[o].n = page[o].n /\ page'[o].yes = page[o].yes
          /\ page'[o].no = page[o].no /\ page'[o].touched = page[o].touched
          /\ IsPage(page'[o])
    <2>1. at \in Places
        BY <1>1 DEF Places
    <2> SUFFICES ASSUME NEW o \in Operators, Waits(o, c)
                 PROVE  /\ page'[o].at = at /\ page'[o].n = page[o].n
                        /\ page'[o].yes = page[o].yes /\ page'[o].no = page[o].no
                        /\ page'[o].touched = page[o].touched /\ IsPage(page'[o])
        OBVIOUS
    <2>2. page'[o] = [page[o] EXCEPT !.at = at] /\ IsPage(page[o])
        BY <1>2 DEF ConsoleTypes
    <2> QED BY <2>1, <2>2, Moved
<1>6. \A o \in Operators : ~Waits(o, c) =>
          /\ page'[o].at = page[o].at /\ page'[o].n = page[o].n /\ page'[o].yes = page[o].yes
          /\ page'[o].no = page[o].no /\ page'[o].event = page[o].event
          /\ page'[o].touched = page[o].touched \union (facts \ new) \union (new \ facts)
          /\ IsPage(page'[o])
    BY <1>3 DEF ConsoleTypes, IsPage
<1>7. ConsoleTypes'
    BY <1>4, <1>5, <1>6, Numbers DEF ConsoleTypes
<1>8. CallsHarmless'
    BY DEF CallsHarmless
<1>9. CallsFit'
    <2> SUFFICES ASSUME NEW o \in Operators, NEW d \in calls', Waits(o, d)'
                 PROVE  /\ page'[o].yes \ page'[o].touched \subseteq After(d)'
                        /\ (page'[o].no \ page'[o].touched) \intersect After(d)' = {}
                        /\ Founded(page[o], d)'
        BY DEF CallsFit
    <2>1. ~Waits(o, c)
        BY <1>1, <1>5 DEF Waits
    <2>2. Waits(o, d) /\ d \in calls
        BY <1>6, <2>1 DEF Waits
    <2>3. After(d)' = (new \ d.call.rem) \union d.call.add
        BY DEF After
    <2>4. /\ page[o].yes \ page[o].touched \subseteq (facts \ d.call.rem) \union d.call.add
          /\ (page[o].no \ page[o].touched) \intersect ((facts \ d.call.rem) \union d.call.add) = {}
        BY <2>2 DEF CallsFit, After
    <2>5. Founded(page[o], d)
        BY <2>2 DEF CallsFit
    <2>6. Founded(page[o], d)'
        BY <1>6, <2>1, <2>5 DEF Founded
    <2> QED BY <1>6, <2>1, <2>3, <2>4, <2>6
<1>10. SavedMeansSo'
    <2> SUFFICES ASSUME NEW o \in Operators, page'[o].at = "done"
                 PROVE  /\ page'[o].yes \ Overtaken(page'[o]) \subseteq new
                        /\ (page'[o].no \ page'[o].touched) \intersect new = {}
        BY DEF SavedMeansSo, Overtaken
    <2>1. CASE Waits(o, c)
        <3>1. /\ c.call.check = {} /\ c.call.needs \subseteq facts
              /\ new = (facts \ c.call.rem) \union Written(c)
            BY <1>1, <1>5, <2>1
        <3>2. /\ page[o].yes \ page[o].touched \subseteq (facts \ c.call.rem) \union c.call.add
              /\ (page[o].no \ page[o].touched)
                    \intersect ((facts \ c.call.rem) \union c.call.add) = {}
              /\ Founded(page[o], c)
            BY <2>1 DEF CallsFit, After
        <3>3. Written(c) \subseteq c.call.add
            BY DEF Written
        <3>4. Written(c) = c.call.add
              \/ (Written(c) = c.call.add \ AppFacts /\ "live" \in page[o].touched)
            BY <3>1, <3>2 DEF Written, Founded
        <3>5. page[o].yes \ Overtaken(page[o]) \subseteq new
            BY <3>1, <3>2, <3>4 DEF Overtaken
        <3>6. page'[o].touched = page[o].touched /\ page'[o].yes = page[o].yes
              /\ page'[o].no = page[o].no
            BY <1>5, <2>1
        <3> QED BY <3>1, <3>2, <3>3, <3>5, <3>6 DEF Overtaken
    <2>2. CASE ~Waits(o, c)
        <3>1. /\ page[o].yes \ Overtaken(page[o]) \subseteq facts
              /\ (page[o].no \ page[o].touched) \intersect facts = {}
            BY <1>6, <2>2 DEF SavedMeansSo
        <3> QED BY <1>6, <2>2, <3>1 DEF Overtaken
    <2> QED BY <2>1, <2>2
<1>11. KeysNumbered'
    <2>1. \A o \in Operators : page'[o].at = "issue" => page[o].at = "issue" /\ page'[o].n = page[o].n
        BY <1>1, <1>5, <1>6
    <2> QED BY <2>1 DEF KeysNumbered
<1>12. EventsPending'
    <2>1. \A o \in Operators : page'[o].at = "audit" =>
              /\ page[o].at = "audit" /\ page'[o].event = page[o].event
              /\ page'[o].yes = page[o].yes /\ page'[o].no = page[o].no
        BY <1>1, <1>5, <1>6
    <2> QED BY <2>1 DEF EventsPending
<1>13. TrailTrue' /\ NoSilentKeyChange'
    BY DEF TrailTrue, NoSilentKeyChange
<1> QED BY <1>7, <1>8, <1>9, <1>10, <1>11, <1>12, <1>13

\* The look at the app before the writes: what was looked for is there.
LEMMA PassCheckKeeps ==
    ASSUME ConsoleInv, NEW c \in calls, PassCheck(c)
    PROVE  ConsoleInv'
<1> USE DEF ConsoleInv
<1>1. PICK d : d = [c EXCEPT !.call.check = {}]
    OBVIOUS
<1>2. calls' = (calls \ {c}) \union {d} /\ UNCHANGED <<facts, keys, page, forms, trail, logged, done, told>>
    BY <1>1 DEF PassCheck, keyVars
<1>3. IsCall(c) /\ c.n <= forms
    BY DEF ConsoleTypes
<1>4. /\ d.n = c.n /\ d.call.add = c.call.add /\ d.call.rem = c.call.rem /\ IsCall(d)
      /\ d.call.needs = c.call.needs /\ c.call.check \subseteq facts
    BY <1>1, <1>3 DEF IsCall, PassCheck
<1>5. \A e \in calls' : e \in calls \/ e = d
    BY <1>2
<1>6. ConsoleTypes'
    <2>1. \A e \in calls' : IsCall(e) /\ e.n <= forms
        BY <1>3, <1>4, <1>5 DEF ConsoleTypes
    <2> QED BY <1>2, <2>1 DEF ConsoleTypes
<1>7. CallsHarmless'
    BY <1>4, <1>5 DEF CallsHarmless
<1>8. CallsFit' /\ SavedMeansSo'
    BY <1>2, <1>4, <1>5 DEF CallsFit, Founded, SavedMeansSo, Overtaken, Waits, After
<1>9. KeysNumbered' /\ EventsPending' /\ TrailTrue' /\ NoSilentKeyChange'
    BY <1>2 DEF KeysNumbered, EventsPending, TrailTrue, NoSilentKeyChange
<1> QED BY <1>6, <1>7, <1>8, <1>9

\* The API carries a call out: every other page notes what it changed.
LEMMA ExecuteKeeps ==
    ASSUME ConsoleInv, NEW c \in calls, Execute(c)
    PROVE  ConsoleInv'
<1>1. PICK new, ats :
          /\ Answered(c, new, ats) /\ facts' = new /\ ats \subseteq {"done", "failed"}
          /\ "done" \in ats => /\ c.call.check = {} /\ c.call.needs \subseteq facts
                              /\ new = (facts \ c.call.rem) \union Written(c)
          /\ keys' = IF "live" \in new THEN keys ELSE {}
    BY DEF Execute
<1>2. calls' = calls \ {c} /\ UNCHANGED <<forms, trail, logged, done, told>>
    BY DEF Execute, keyVars
<1>3. keys' \subseteq keys
    BY <1>1
<1> QED BY <1>1, <1>2, <1>3, AnsweredKeeps

\* A call that fails changes no table and is not reported as saved.
LEMMA CallFailsKeeps ==
    ASSUME ConsoleInv, NEW c \in calls, CallFails(c)
    PROVE  ConsoleInv'
<1>1. PICK new, ats : new = facts /\ ats = {"failed"}
    OBVIOUS
<1>2. Answered(c, new, ats) /\ facts' = new /\ keys' \subseteq keys
    BY <1>1 DEF CallFails
<1>3. calls' = calls \ {c} /\ UNCHANGED <<forms, trail, logged, done, told>>
    BY DEF CallFails, keyVars
<1> QED BY <1>1, <1>2, <1>3, AnsweredKeeps

\* Pages that give up what they were doing are silent from then on.
LEMMA GivingUp ==
    ASSUME ConsoleInv, page' = [o \in Operators |-> page'[o]],
           \A o \in Operators : page'[o] = page[o] \/ page'[o] = [page[o] EXCEPT !.at = "failed"],
           UNCHANGED <<facts, keys, calls, forms, trail, logged, done, told>>
    PROVE  ConsoleInv'
<1> USE DEF ConsoleInv
<1>1. \A o \in Operators :
          /\ IsPage(page'[o]) /\ page'[o].n = page[o].n /\ page'[o].yes = page[o].yes
          /\ page'[o].no = page[o].no /\ page'[o].touched = page[o].touched
          /\ page'[o].event = page[o].event /\ (page'[o].at = page[o].at \/ page'[o].at = "failed")
    <2> SUFFICES ASSUME NEW o \in Operators
                 PROVE  /\ IsPage(page'[o]) /\ page'[o].n = page[o].n /\ page'[o].yes = page[o].yes
                        /\ page'[o].no = page[o].no /\ page'[o].touched = page[o].touched
                        /\ page'[o].event = page[o].event
                        /\ (page'[o].at = page[o].at \/ page'[o].at = "failed")
        OBVIOUS
    <2>1. IsPage(page[o]) /\ "failed" \in Places
        BY DEF ConsoleTypes, Places
    <2> QED BY <2>1, Moved
<1>2. ConsoleTypes' /\ CallsHarmless'
    BY <1>1 DEF ConsoleTypes, CallsHarmless
<1>3. CallsFit' /\ SavedMeansSo'
    BY <1>1 DEF CallsFit, Founded, SavedMeansSo, Overtaken, Waits, After
<1>4. KeysNumbered'
    BY <1>1 DEF KeysNumbered
<1>5. EventsPending' /\ TrailTrue' /\ NoSilentKeyChange'
    BY <1>1 DEF EventsPending, TrailTrue, NoSilentKeyChange
<1> QED BY <1>2, <1>3, <1>4, <1>5

\* A page that stops waiting leaves its call under way and claims nothing.
LEMMA GiveUpKeeps ==
    ASSUME ConsoleInv, NEW o \in Operators, GiveUp(o)
    PROVE  ConsoleInv'
<1>1. /\ page' = [q \in Operators |-> page'[q]]
      /\ \A q \in Operators : page'[q] = page[q] \/ page'[q] = [page[q] EXCEPT !.at = "failed"]
    BY DEF GiveUp, Answer, ConsoleInv, ConsoleTypes
<1>2. UNCHANGED <<facts, keys, calls, forms, trail, logged, done, told>>
    BY DEF GiveUp, keyVars
<1> QED BY <1>1, <1>2, GivingUp

\* A crash ends the pages that wait; nothing that is stored changes.
LEMMA CrashKeeps ==
    ASSUME ConsoleInv, Crash
    PROVE  ConsoleInv'
<1>1. /\ page' = [q \in Operators |-> page'[q]]
      /\ \A q \in Operators : page'[q] = page[q] \/ page'[q] = [page[q] EXCEPT !.at = "failed"]
    BY DEF Crash
<1>2. UNCHANGED <<facts, keys, calls, forms, trail, logged, done, told>>
    BY DEF Crash, keyVars
<1> QED BY <1>1, <1>2, GivingUp

-----------------------------------------------------------------------------
(* The keys. *)

\* The check before an insert changes nothing that is stored.
LEMMA IssueCheckKeeps ==
    ASSUME ConsoleInv, NEW o \in Operators, IssueCheck(o)
    PROVE  ConsoleInv'
<1> USE DEF ConsoleInv
<1>1. forms' = forms + 1 /\ UNCHANGED <<facts, keys, calls, trail, logged, done, told>>
    BY DEF IssueCheck, keyVars
<1>2. page' = [page EXCEPT ![o] = NewPage("issue", forms + 1, {}, {}, <<>>)]
    <2>1. PICK s : s = [NoPage EXCEPT !.at = "issue", !.n = forms + 1]
        OBVIOUS
    <2>2. s = NewPage("issue", forms + 1, {}, {}, <<>>)
        BY <2>1 DEF NoPage, NewPage
    <2>3. page' = [page EXCEPT ![o] = s]
        BY <2>1 DEF IssueCheck
    <2> QED BY <2>2, <2>3
<1>3. /\ page' = [q \in Operators |-> page'[q]]
      /\ page'[o] = NewPage("issue", forms + 1, {}, {}, <<>>)
      /\ \A q \in Operators \ {o} : page'[q] = page[q]
    BY <1>2 DEF ConsoleTypes
<1>4. forms \in Nat
    BY DEF ConsoleTypes
<1>5. page'[o].at = "issue" /\ page'[o].n = forms + 1 /\ IsPage(page'[o])
    BY <1>3, <1>4, NewPageFields DEF Places
<1>6. ConsoleTypes'
    <2>1. \A q \in Operators : IsPage(page'[q]) /\ page'[q].n <= forms + 1
        BY <1>3, <1>4, <1>5, Numbers DEF ConsoleTypes
    <2>2. \A c \in calls : IsCall(c) /\ c.n <= forms + 1
        BY <1>4, Numbers DEF ConsoleTypes
    <2>3. \A k \in keys : IsKey(k) /\ k.id <= forms + 1
        BY <1>4, Numbers DEF ConsoleTypes
    <2> QED BY <1>1, <1>3, <1>4, <2>1, <2>2, <2>3 DEF ConsoleTypes
<1>7. CallsHarmless'
    BY <1>1 DEF CallsHarmless
<1>8. CallsFit' /\ SavedMeansSo'
    BY <1>1, <1>3, <1>5 DEF CallsFit, Founded, SavedMeansSo, Overtaken, After, Waits
<1>9. KeysNumbered'
    <2>1. \A k \in keys : k.id # forms + 1
        BY <1>4, Numbers
    <2>2. \A e \in done : e[2] # forms + 1 /\ e[2] <= forms + 1
        BY <1>4, Numbers DEF KeysNumbered
    <2>3. \A q \in Operators : page[q].n # forms + 1
        BY <1>4, Numbers
    <2> QED BY <1>1, <1>3, <1>5, <2>1, <2>2, <2>3 DEF KeysNumbered
<1>10. EventsPending'
    BY <1>1, <1>3, <1>5 DEF EventsPending
<1>11. TrailTrue' /\ NoSilentKeyChange'
    BY <1>1 DEF TrailTrue, NoSilentKeyChange
<1> QED BY <1>6, <1>7, <1>8, <1>9, <1>10, <1>11

\* A new key event was committed: it is not in the trail, and only the page of
\* the operator who caused it may be about to write it.
LEMMA CommittedKeeps ==
    ASSUME ConsoleInv, NEW o \in Operators, NEW e \in Events, e \notin done,
           NEW at \in {"audit", "failed"},
           page' = [page EXCEPT ![o] = NewPage(at, 0, {}, {}, <<e>>)],
           done' = done \union {e}, forms' \in {forms, forms + 1},
           UNCHANGED <<facts, calls, trail, logged, told>>,
           \A k \in keys' : IsKey(k) /\ k.id <= forms',
           KeysNumbered'
    PROVE  ConsoleInv'
<1> USE DEF ConsoleInv
<1>1. /\ page' = [q \in Operators |-> page'[q]]
      /\ page'[o] = NewPage(at, 0, {}, {}, <<e>>)
      /\ \A q \in Operators \ {o} : page'[q] = page[q]
    BY DEF ConsoleTypes
<1>2. forms \in Nat /\ forms' \in Nat /\ forms <= forms'
    BY DEF ConsoleTypes
<1>3. /\ page'[o].at = at /\ page'[o].n = 0 /\ page'[o].event = <<e>> /\ IsPage(page'[o])
      /\ page'[o].yes = {} /\ page'[o].no = {} /\ at \notin {"waiting", "done"}
    BY <1>1, NewPageFields DEF Places
<1>4. ConsoleTypes'
    <2>1. \A q \in Operators : IsPage(page'[q]) /\ page'[q].n <= forms'
        BY <1>1, <1>2, <1>3, Numbers DEF ConsoleTypes
    <2>2. \A c \in calls : IsCall(c) /\ c.n <= forms'
        BY <1>2, Numbers DEF ConsoleTypes
    <2> QED BY <1>1, <1>2, <2>1, <2>2 DEF ConsoleTypes
<1>5. CallsHarmless'
    BY DEF CallsHarmless
<1>6. CallsFit' /\ SavedMeansSo'
    BY <1>1, <1>3 DEF CallsFit, Founded, SavedMeansSo, Overtaken, After, Waits
<1>7. EventsPending'
    <2> SUFFICES ASSUME NEW q \in Operators, page'[q].at = "audit"
                 PROVE  /\ page'[q].yes = {} /\ page'[q].no = {}
                        /\ \E d \in done' :
                           /\ page'[q].event = <<d>> /\ d \notin Range(trail)
                           /\ \A r \in Operators :
                                 page'[r].at = "audit" /\ page'[r].event = <<d>> => r = q
        BY DEF EventsPending
    <2>1. \A r \in Operators \ {o} : page[r].at = "audit" => page[r].event # <<e>>
        BY DEF EventsPending
    <2>2. CASE q = o
        <3>1. e \notin Range(trail)
            BY DEF TrailTrue
        <3> QED BY <1>1, <1>3, <2>1, <2>2, <3>1
    <2>3. CASE q # o
        <3>1. PICK d \in done :
                  /\ page[q].event = <<d>> /\ d \notin Range(trail)
                  /\ \A r \in Operators : page[r].at = "audit" /\ page[r].event = <<d>> => r = q
            BY <1>1, <2>3 DEF EventsPending
        <3>2. d # e
            OBVIOUS
        <3>3. page[q].yes = {} /\ page[q].no = {}
            BY <1>1, <2>3 DEF EventsPending
        <3>4. \A r \in Operators : page'[r].at = "audit" /\ page'[r].event = <<d>> => r = q
            BY <1>1, <1>3, <3>1, <3>2
        <3> QED BY <1>1, <2>3, <3>1, <3>3, <3>4
    <2> QED BY <2>2, <2>3
<1>8. TrailTrue' /\ NoSilentKeyChange'
    BY DEF TrailTrue, NoSilentKeyChange
<1> QED BY <1>4, <1>5, <1>6, <1>7, <1>8

\* The page Committed leaves.
LEMMA CommittedPage ==
    ASSUME NEW o \in Operators, NEW key, NEW event, Committed(o, key, event)
    PROVE  /\ \E at \in {"audit", "failed"} :
                 page' = [page EXCEPT ![o] = NewPage(at, 0, {}, {}, <<KeyEvent(event, key)>>)]
           /\ done' = done \union {KeyEvent(event, key)} /\ UNCHANGED <<trail, logged, told>>
<1>1. PICK at \in {"audit", "failed"} :
          page' = [page EXCEPT ![o] = [NoPage EXCEPT !.at = at, !.event = <<KeyEvent(event, key)>>]]
    BY DEF Committed
<1>2. PICK s : s = [NoPage EXCEPT !.at = at, !.event = <<KeyEvent(event, key)>>]
    OBVIOUS
<1>3. s = NewPage(at, 0, {}, {}, <<KeyEvent(event, key)>>)
    BY <1>2 DEF NoPage, NewPage
<1>4. page' = [page EXCEPT ![o] = s]
    BY <1>1, <1>2
<1> QED BY <1>3, <1>4 DEF Committed

\* An inserted key has a new number, so its event is new.
LEMMA IssueInsertKeeps ==
    ASSUME ConsoleInv, NEW o \in Operators, NEW p \in Prefixes, IssueInsert(o, p)
    PROVE  ConsoleInv'
<1> USE DEF ConsoleInv
<1>1. PICK key : key = [id |-> page[o].n, prefix |-> p, revoked |-> FALSE,
                        label |-> CHOOSE l \in Labels : TRUE]
    OBVIOUS
<1>2. UNCHANGED <<facts, calls, forms>> /\ page[o].at = "issue"
    BY DEF IssueInsert
<1>3. \/ keys' = keys \union {key} /\ Committed(o, key, "key_issued")
      \/ Answer(o, "failed") /\ UNCHANGED <<keys, keyVars>>
    BY <1>1 DEF IssueInsert
<1>4. CASE keys' = keys \union {key} /\ Committed(o, key, "key_issued")
    <2>1. /\ key.id = page[o].n /\ key.revoked = FALSE /\ key.id \in Nat /\ key.id <= forms
          /\ IsKey(key)
        BY <1>1, Numbers DEF IsKey
    <2>2. PICK e : e = KeyEvent("key_issued", key)
        OBVIOUS
    <2>3. e \in Events /\ e[2] = key.id /\ e[1] # "key_revoked"
        BY <2>1, <2>2 DEF Events, KeyEvent, IsKey
    <2>4. e \notin done
        BY <1>2, <2>1, <2>3 DEF KeysNumbered
    <2>5. PICK at \in {"audit", "failed"} :
              page' = [page EXCEPT ![o] = NewPage(at, 0, {}, {}, <<e>>)]
        BY <1>4, <2>2, CommittedPage
    <2>6. done' = done \union {e} /\ UNCHANGED <<trail, logged, told>>
        BY <1>4, <2>2, CommittedPage
    <2>7. /\ page'[o].at # "issue"
          /\ \A q \in Operators \ {o} : page'[q] = page[q]
        BY <2>5, NewPageFields DEF ConsoleTypes
    <2>8. KeysNumbered'
        <3>1. \A k, l \in keys' : k.id = l.id => k = l
            BY <1>2, <1>4, <2>1 DEF KeysNumbered
        <3>2. \A k \in keys : k.id # key.id
            BY <1>2, <2>1 DEF KeysNumbered
        <3>3. \A k \in keys' : ~k.revoked => \A d \in done' : d[1] = "key_revoked" => d[2] # k.id
            <4> SUFFICES ASSUME NEW k \in keys', ~k.revoked, NEW d \in done', d[1] = "key_revoked"
                         PROVE  d[2] # k.id
                OBVIOUS
            <4>1. d \in done
                BY <2>3, <2>6
            <4>2. CASE k \in keys
                BY <4>1, <4>2 DEF KeysNumbered
            <4>3. CASE k = key
                BY <1>2, <2>1, <4>1, <4>3 DEF KeysNumbered
            <4> QED BY <1>4, <4>2, <4>3
        <3>4. \A d \in done' : d[2] <= forms'
            BY <1>2, <2>1, <2>3, <2>6 DEF KeysNumbered
        <3>5. \A q \in Operators : page'[q].at = "issue" =>
                  /\ page[q].at = "issue" /\ page'[q].n = page[q].n /\ page[q].n # key.id
            BY <1>2, <2>1, <2>7 DEF KeysNumbered
        <3> QED BY <1>4, <2>3, <2>6, <3>1, <3>3, <3>4, <3>5 DEF KeysNumbered
    <2>9. \A k \in keys' : IsKey(k) /\ k.id <= forms'
        BY <1>2, <1>4, <2>1 DEF ConsoleTypes
    <2> QED BY <1>2, <2>3, <2>4, <2>5, <2>6, <2>8, <2>9, CommittedKeeps
<1>5. CASE Answer(o, "failed") /\ UNCHANGED <<keys, keyVars>>
    <2>1. /\ page' = [q \in Operators |-> page'[q]]
          /\ \A q \in Operators : page'[q] = page[q] \/ page'[q] = [page[q] EXCEPT !.at = "failed"]
        BY <1>5 DEF Answer, ConsoleTypes
    <2> QED BY <1>2, <1>5, <2>1, GivingUp DEF keyVars
<1> QED BY <1>3, <1>4, <1>5

\* A key is revoked once, so its event is new.
LEMMA RevokeKeeps ==
    ASSUME ConsoleInv, NEW o \in Operators, NEW p, handleKeyRevoke(o, p)
    PROVE  ConsoleInv'
<1> USE DEF ConsoleInv
<1>1. PICK k \in keys :
          /\ ~k.revoked /\ keys' = (keys \ {k}) \union {[k EXCEPT !.revoked = TRUE]}
          /\ Committed(o, k, "key_revoked")
    BY DEF handleKeyRevoke, Revocable
<1>2. forms' = forms + 1 /\ UNCHANGED <<facts, calls>>
    BY DEF handleKeyRevoke
<1>3. IsKey(k) /\ k.id \in Nat /\ k.id <= forms /\ forms \in Nat
    BY Numbers DEF ConsoleTypes
<1>4. PICK key : key = [k EXCEPT !.revoked = TRUE]
    OBVIOUS
<1>5. IsKey(key) /\ key.id = k.id /\ key.revoked
    BY <1>3, <1>4 DEF IsKey
<1>6. PICK e : e = KeyEvent("key_revoked", k)
    OBVIOUS
<1>7. e \in Events /\ e[2] = k.id /\ e \notin done
    BY <1>1, <1>3, <1>6 DEF Events, KeysNumbered, KeyEvent, IsKey
<1>8. PICK at \in {"audit", "failed"} :
          page' = [page EXCEPT ![o] = NewPage(at, 0, {}, {}, <<e>>)]
    BY <1>1, <1>6, CommittedPage
<1>9. done' = done \union {e} /\ UNCHANGED <<trail, logged, told>>
    BY <1>1, <1>6, CommittedPage
<1>10. \A l \in keys' : l = key \/ (l \in keys /\ l # k /\ l.id # k.id)
    BY <1>1, <1>4 DEF KeysNumbered
<1>11. page'[o].at # "issue" /\ \A q \in Operators \ {o} : page'[q] = page[q]
    BY <1>8, NewPageFields DEF ConsoleTypes
<1>12. KeysNumbered'
    <2>1. \A l, m \in keys' : l.id = m.id => l = m
        BY <1>5, <1>10 DEF KeysNumbered
    <2>2. \A l \in keys' : ~l.revoked => \A d \in done' : d[1] = "key_revoked" => d[2] # l.id
        BY <1>5, <1>7, <1>9, <1>10 DEF KeysNumbered
    <2>3. \A d \in done' : d[2] <= forms'
        BY <1>2, <1>3, <1>7, <1>9, Numbers DEF KeysNumbered
    <2>4. \A q \in Operators : page'[q].at = "issue" =>
              page[q].at = "issue" /\ page'[q].n = page[q].n /\ page[q].n # k.id
        BY <1>11 DEF KeysNumbered
    <2> QED BY <1>5, <1>7, <1>9, <1>10, <2>1, <2>2, <2>3, <2>4 DEF KeysNumbered
<1>13. \A l \in keys' : IsKey(l) /\ l.id <= forms'
    BY <1>2, <1>3, <1>5, <1>10, Numbers DEF ConsoleTypes
<1> QED BY <1>2, <1>7, <1>8, <1>9, <1>12, <1>13, CommittedKeeps

\* A label is no event.
LEMMA LabelKeeps ==
    ASSUME ConsoleInv, NEW o \in Operators, NEW p, handleKeyLabel(o, p)
    PROVE  ConsoleInv'
<1> USE DEF ConsoleInv
<1>1. PICK k \in keys, l \in Labels : keys' = (keys \ {k}) \union {[k EXCEPT !.label = l]}
    BY DEF handleKeyLabel
<1>2. PICK key : key = [k EXCEPT !.label = l]
    OBVIOUS
<1>3. IsKey(key) /\ key.id = k.id /\ key.revoked = k.revoked
    BY <1>2 DEF ConsoleTypes, IsKey
<1>4. \A m \in keys' : m = key \/ (m \in keys /\ m.id # k.id)
    BY <1>1, <1>2 DEF KeysNumbered
<1>5. \A m \in keys' : IsKey(m) /\ \E n \in keys : m.id = n.id /\ m.revoked = n.revoked
    BY <1>3, <1>4 DEF ConsoleTypes
<1>6. \A m, n \in keys' : m.id = n.id => m = n
    BY <1>3, <1>4 DEF KeysNumbered
<1>7. forms' = forms + 1 /\ UNCHANGED <<facts, calls, trail, logged, done, told>>
    BY DEF handleKeyLabel, keyVars
<1>8. PICK at \in {"done", "failed"} : page' = [page EXCEPT ![o] = [NoPage EXCEPT !.at = at]]
    BY DEF handleKeyLabel
<1>9. PICK s : s = [NoPage EXCEPT !.at = at]
    OBVIOUS
<1>10. page' = [page EXCEPT ![o] = s] /\ s = NewPage(at, 0, {}, {}, <<>>)
    BY <1>8, <1>9, PageOfForm
<1> QED BY <1>5, <1>6, <1>7, <1>10, PlainPage

\* A row more.
LEMMA Appended ==
    ASSUME NEW S, NEW s \in Seq(S), NEW e \in S
    PROVE  Range(s \o <<e>>) = Range(s) \union {e}
<1>1. PICK t : t = s \o <<e>>
    OBVIOUS
<1>2. /\ DOMAIN s = 1..Len(s) /\ DOMAIN t = 1..(Len(s) + 1) /\ Len(s) \in Nat
      /\ t[Len(s) + 1] = e /\ \A i \in 1..Len(s) : t[i] = s[i]
    BY <1>1
<1>3. \A i \in DOMAIN t : i \in DOMAIN s \/ i = Len(s) + 1
    BY <1>2
<1>4. DOMAIN s \subseteq DOMAIN t /\ Len(s) + 1 \in DOMAIN t
    BY <1>2
<1>5. Range(t) = Range(s) \union {e}
    BY <1>2, <1>3, <1>4 DEF Range
<1> QED BY <1>1, <1>5

\* The row of a key's event: written once, or its loss is logged.
LEMMA AuditWriteKeeps ==
    ASSUME ConsoleInv, NEW o \in Operators, writeKeyAudit(o)
    PROVE  ConsoleInv'
<1> USE DEF ConsoleInv
<1>1. PICK e \in done :
          /\ page[o].event = <<e>> /\ e \notin Range(trail)
          /\ \A q \in Operators : page[q].at = "audit" /\ page[q].event = <<e>> => q = o
    BY DEF writeKeyAudit, EventsPending
<1>2. UNCHANGED <<facts, keys, calls, forms, done>>
    BY DEF writeKeyAudit
<1>3. PICK at \in {"done", "failed"} : page' = [page EXCEPT ![o].at = at]
    BY DEF writeKeyAudit, Answer
<1>4. Range(<<e>>) = {e}
    BY DEF Range
<1>5. /\ trail' \in {trail, trail \o <<e>>}
      /\ \/ trail' = trail \o <<e>> /\ logged' = logged
         \/ logged' = logged \union {e}
    BY <1>1, <1>4 DEF writeKeyAudit, AuditWrite
<1>6. told' \subseteq told \union {e}
    BY <1>1, <1>4 DEF writeKeyAudit
<1>7. /\ page' = [q \in Operators |-> page'[q]]
      /\ \A q \in Operators \ {o} : page'[q] = page[q]
    BY <1>3 DEF ConsoleTypes
<1>8. /\ IsPage(page'[o]) /\ page'[o].at = at /\ page'[o].n = page[o].n
      /\ page'[o].yes = {} /\ page'[o].no = {} /\ at \notin {"waiting", "issue", "audit"}
    <2>1. IsPage(page[o]) /\ at \in Places /\ page[o].yes = {} /\ page[o].no = {}
        BY DEF ConsoleTypes, Places, writeKeyAudit, EventsPending
    <2>2. page'[o] = [page[o] EXCEPT !.at = at]
        BY <1>3 DEF ConsoleTypes
    <2> QED BY <2>1, <2>2, Moved
<1>9. trail \in Seq(Events) /\ trail \o <<e>> \in Seq(Events)
    BY DEF ConsoleTypes
<1>10. Range(trail) \subseteq Range(trail') /\ Range(trail') \subseteq Range(trail) \union {e}
    <2>1. Range(trail \o <<e>>) = Range(trail) \union {e}
        BY <1>9, Appended DEF ConsoleTypes
    <2> QED BY <1>5, <2>1
<1>11. SavedMeansSo'
    BY <1>2, <1>7, <1>8 DEF SavedMeansSo
<1>12. ConsoleTypes'
    <2>1. \A q \in Operators : IsPage(page'[q]) /\ page'[q].n <= forms
        BY <1>7, <1>8, Numbers DEF ConsoleTypes
    <2> QED BY <1>2, <1>5, <1>7, <1>9, <2>1 DEF ConsoleTypes
<1>13. CallsHarmless'
    BY <1>2 DEF CallsHarmless
<1>14. CallsFit'
    BY <1>2, <1>7, <1>8 DEF CallsFit, Founded, After, Waits
<1>15. KeysNumbered'
    BY <1>2, <1>7, <1>8 DEF KeysNumbered
<1>16. EventsPending'
    <2> SUFFICES ASSUME NEW q \in Operators, page'[q].at = "audit"
                 PROVE  /\ page'[q].yes = {} /\ page'[q].no = {}
                        /\ \E d \in done :
                              /\ page'[q].event = <<d>> /\ d \notin Range(trail')
                              /\ \A r \in Operators :
                                    page'[r].at = "audit" /\ page'[r].event = <<d>> => r = q
        BY <1>2 DEF EventsPending
    <2>1. q # o /\ page'[q] = page[q]
        BY <1>7, <1>8
    <2>2. PICK d \in done :
              /\ page[q].event = <<d>> /\ d \notin Range(trail)
              /\ \A r \in Operators : page[r].at = "audit" /\ page[r].event = <<d>> => r = q
        BY <2>1 DEF EventsPending
    <2>3. d # e
        BY <1>1, <2>1, <2>2
    <2>4. d \notin Range(trail')
        BY <1>10, <2>2, <2>3
    <2>5. page[q].yes = {} /\ page[q].no = {}
        BY <2>1 DEF EventsPending
    <2>6. \A r \in Operators : page'[r].at = "audit" /\ page'[r].event = <<d>> => r = q
        BY <1>7, <1>8, <2>2
    <2> QED BY <2>1, <2>2, <2>4, <2>5, <2>6
<1>17. TrailTrue'
    <2>1. Range(trail') \subseteq done'
        BY <1>1, <1>2, <1>10 DEF TrailTrue
    <2>2. \A i, j \in DOMAIN trail' : trail'[i] = trail'[j] => i = j
        <3>1. CASE trail' = trail
            BY <3>1 DEF TrailTrue
        <3>2. CASE trail' = trail \o <<e>>
            <4>1. \A i \in DOMAIN trail : trail[i] # e
                BY <1>1 DEF Range
            <4>2. /\ DOMAIN trail = 1..Len(trail) /\ DOMAIN trail' = 1..(Len(trail) + 1)
                  /\ Len(trail) \in Nat /\ trail'[Len(trail) + 1] = e
                  /\ \A i \in 1..Len(trail) : trail'[i] = trail[i]
                BY <1>9, <3>2
            <4>3. \A i \in DOMAIN trail' : i \in DOMAIN trail \/ i = Len(trail) + 1
                BY <4>2
            <4>4. \A i, j \in DOMAIN trail : trail[i] = trail[j] => i = j
                BY DEF TrailTrue
            <4> QED BY <4>1, <4>2, <4>3, <4>4
        <3> QED BY <1>5, <3>1, <3>2
    <2> QED BY <2>1, <2>2 DEF TrailTrue
<1>18. NoSilentKeyChange'
    <2>1. e \in Range(trail') \union logged'
        <3>1. e \in Range(trail \o <<e>>)
            BY <1>9, Appended
        <3> QED BY <1>5, <3>1
    <2>2. logged \subseteq logged'
        BY <1>5
    <2> QED BY <1>6, <1>10, <2>1, <2>2 DEF NoSilentKeyChange
<1> QED BY <1>11, <1>12, <1>13, <1>14, <1>15, <1>16, <1>17, <1>18

-----------------------------------------------------------------------------
\* A console nobody has used satisfies the invariant.
LEMMA ConsoleInit ==
    ASSUME Init
    PROVE  ConsoleInv
<1>1. \A o \in Operators : page[o] = NoPage
    BY DEF Init
<1>2. IsPage(NoPage) /\ NoPage.at = "idle" /\ NoPage.n = 0
    BY DEF NoPage, IsPage, Places
<1>3. ConsoleTypes
    BY <1>1, <1>2 DEF Init, ConsoleTypes
<1>4. CallsHarmless /\ CallsFit /\ SavedMeansSo
    BY <1>1, <1>2 DEF Init, CallsHarmless, CallsFit, SavedMeansSo
<1>5. KeysNumbered /\ EventsPending
    BY <1>1, <1>2 DEF Init, KeysNumbered, EventsPending
<1>6. TrailTrue /\ NoSilentKeyChange
    BY DEF Init, TrailTrue, NoSilentKeyChange, Range
<1> QED BY <1>3, <1>4, <1>5, <1>6 DEF ConsoleInv

\* Every step keeps the invariant.
LEMMA ConsoleNext ==
    ASSUME ConsoleInv, Next
    PROVE  ConsoleInv'
<1>1. ASSUME NEW o \in Operators, AppForm(o) PROVE ConsoleInv'
    BY <1>1, SaveAppKeeps, ReactivateKeeps, DeleteKeeps, CreateKeeps DEF AppForm
<1>2. ASSUME NEW o \in Operators, UserForm(o) PROVE ConsoleInv'
    BY <1>2, GradeKeeps, SubscriptionKeeps DEF UserForm
<1>3. ASSUME NEW o \in Operators, KeyForm(o) PROVE ConsoleInv'
    BY <1>3, IssueCheckKeeps, AuditWriteKeeps, IssueInsertKeeps, RevokeKeeps, LabelKeeps DEF KeyForm
<1>4. ASSUME NEW o \in Operators, FormRefused(o) \/ GiveUp(o) PROVE ConsoleInv'
    BY <1>4, FormRefusedKeeps, GiveUpKeeps
<1>5. ASSUME CallStep PROVE ConsoleInv'
    BY <1>5, PassCheckKeeps, ExecuteKeeps, CallFailsKeeps DEF CallStep
<1> QED BY <1>1, <1>2, <1>3, <1>4, <1>5, CrashKeeps DEF Next

\* So does a step that changes nothing.
LEMMA ConsoleStutters ==
    ASSUME ConsoleInv, UNCHANGED vars
    PROVE  ConsoleInv'
    BY DEF ConsoleInv, vars, ConsoleTypes, CallsHarmless, CallsFit, SavedMeansSo, KeysNumbered,
           EventsPending, TrailTrue, NoSilentKeyChange, Waits, After, Founded, Overtaken

\* The inductive invariant of the forms, the calls in flight and the trail of
\* the keys.
THEOREM ConsoleInvariant == Spec => []ConsoleInv
<1>1. Init => ConsoleInv
    BY ConsoleInit
<1>2. ConsoleInv /\ [Next]_vars => ConsoleInv'
    BY ConsoleNext, ConsoleStutters
<1> QED BY <1>1, <1>2, PTL DEF Spec

\* A form reported as saved was saved: what it asked for holds, except what
\* another call changed since, and what it asked to hold of an app that was
\* deleted or created anew since (handleAppPatch, doAdmin, Patch), for any number
\* of operators and calls that arrive in any order, late, or not at all.
THEOREM SavedAlwaysMeansSo == Spec => []SavedMeansSo
<1>1. ConsoleInv => SavedMeansSo
    BY DEF ConsoleInv
<1> QED BY <1>1, ConsoleInvariant, PTL

\* A key change an operator was told of is in the trail or in the error log,
\* whichever write fails and whenever the process dies (writeKeyAudit).
THEOREM KeyChangeNeverSilent == Spec => []NoSilentKeyChange
<1>1. ConsoleInv => NoSilentKeyChange
    BY DEF ConsoleInv
<1> QED BY <1>1, ConsoleInvariant, PTL

\* The trail has every key event at most once, and only events that happened
\* (RevokeKey, IssueKey, writeKeyAudit).
THEOREM TrailAlwaysTrue == Spec => []TrailTrue
<1>1. ConsoleInv => TrailTrue
    BY DEF ConsoleInv
<1> QED BY <1>1, ConsoleInvariant, PTL

\* The facts change only when the API carries a call out, and every call in
\* flight leaves the management capabilities alone or deletes the app.
LEMMA ManagementStep ==
    ASSUME ConsoleInv, [Next]_vars, facts \intersect Mgmt # facts' \intersect Mgmt
    PROVE  "live" \notin facts'
<1>1. ASSUME NEW o \in Operators, AppForm(o) \/ UserForm(o) PROVE facts' = facts
    BY <1>1 DEF AppForm, UserForm, SaveApp, Reactivate, handleAppDeactivate, handleAppDelete,
                handleAppCreate, handleUserGrade, handleUserSubscribe, handleUserUnsubscribe, Send
<1>2. ASSUME NEW o \in Operators, KeyForm(o) \/ FormRefused(o) \/ GiveUp(o) PROVE facts' = facts
    BY <1>2 DEF KeyForm, FormRefused, GiveUp, IssueCheck, writeKeyAudit, IssueInsert,
                handleKeyRevoke, handleKeyLabel
<1>3. ASSUME NEW c \in calls, PassCheck(c) \/ CallFails(c) PROVE facts' = facts
    BY <1>3 DEF PassCheck, CallFails
<1>4. Crash \/ UNCHANGED vars => facts' = facts
    BY DEF Crash, vars
<1>5. PICK c \in calls : Execute(c)
    BY <1>1, <1>2, <1>3, <1>4 DEF Next, CallStep
<1>8. Written(c) \subseteq c.call.add
    BY DEF Written
<1>6. facts' = (facts \ c.call.rem) \union Written(c)
    BY <1>5 DEF Execute
<1>7. c.call.add = {} /\ "live" \in c.call.rem
    BY <1>6, <1>8 DEF ConsoleInv, CallsHarmless
<1> QED BY <1>6, <1>7, <1>8

\* No form grants or takes a management capability; they go with the app only
\* (filterGrantable on both sides of handleAppPatch's diff).
THEOREM ManagementAlwaysKept == Spec => ManagementKept
<1>1. ConsoleInv /\ [Next]_vars
          => [facts \intersect Mgmt # facts' \intersect Mgmt => "live" \notin facts']_vars
    BY ManagementStep
<1> QED BY <1>1, ConsoleInvariant, PTL DEF Spec, ManagementKept

-----------------------------------------------------------------------------
(* The dashboard: what was read, and what is shown of it. *)

\* Rows that can be committed at time t; the first row of a request is the
\* "received" one.
RowsOk(T, t) ==
    /\ IsFiniteSet(T)
    /\ \A r \in T : r.at \in 0..t /\ r.id \in 1..Cardinality(T)
    /\ \A r, s \in T :
          r.trace = s.trace /\ r.trace # 0 /\ r.stage = "received" => r.at <= s.at

DashboardSteps == {"kpi", "pipeline", "pie", "latency", "samples", "requests", "chart"}
DeliverySteps == {"funnel", "trend", "trendChart", "failures"}

\* What was fetched for a chart is the answer to its query.
ScreenOk ==
    /\ screen = [step |-> screen.step, ask |-> screen.ask, got |-> screen.got,
                 snap |-> screen.snap, at |-> screen.at]
    /\ screen.step \in {"idle"} \union DashboardSteps \union DeliverySteps
    /\ screen.step \in DashboardSteps => screen.ask \in Ranges
    /\ screen.step \in DeliverySteps => screen.ask \in Filters
    /\ screen.step \in {"chart", "trendChart"} =>
          screen.at \in Nat /\ RowsOk(screen.snap, screen.at)
    /\ screen.step = "chart" =>
          screen.got = RequestBuckets(screen.snap, screen.at, screen.ask)
    /\ screen.step = "trendChart" =>
          screen.got = DeliveryDailyCounts(screen.snap, screen.at, screen.ask)

\* What a card that did not fail shows of the rows T at time t.
CardView(card, view, ask, T, t, axis) ==
    \/ card = "kpi" /\ view = buildKPIView(Rolling(T, t, Day))
    \/ card = "pipeline" /\ view = buildPipelineFlow(Rolling(T, t, Day))
    \/ card = "pie" /\ view = buildFailurePie(Of(Rolling(T, t, Day), deliveryFailureStages))
    \/ /\ card = "strip"
       /\ \E dots \in LatencySamples(T, t) : view = buildLatencyStrip(dots, view.data.count)
    \/ /\ card = "chart" /\ ask \in Ranges
       /\ view = buildLineChart(RequestBuckets(T, t, ask), ask, axis)
    \/ /\ card = "funnel" /\ ask \in Filters
       /\ view = buildFunnels(StageCounts(T, t, ask))
    \/ /\ card = "trend" /\ ask \in Filters
       /\ view = buildTrendChart(DeliveryDailyCounts(T, t, ask), ask, axis)
    \/ /\ card = "failures" /\ ask \in Filters
       /\ view = IF RecentFailures(T, t, ask) = {} THEN Empty
                 ELSE Data(RecentFailures(T, t, ask))

ShownOk ==
    \/ shown = NoCard
    \/ shown.view = Failed
    \/ /\ shown.at \in Nat /\ shown.axis \in Int /\ RowsOk(shown.snap, shown.at)
       /\ CardView(shown.card, shown.view, shown.ask, shown.snap, shown.at, shown.axis)

DashInv == now \in Nat /\ RowsOk(rows, now) /\ ScreenOk /\ ShownOk

\* Time passes.
LEMMA RowsLater ==
    ASSUME NEW T, NEW t \in Nat, RowsOk(T, t)
    PROVE  RowsOk(T, t + 1)
BY DEF RowsOk

\* A row of a request comes after its other rows, the first is "received".
LEMMA WriteRowKeeps ==
    ASSUME DashInv, NEW k \in Kinds, WriteRow(k)
    PROVE  RowsOk(rows', now)
<1> DEFINE n == Cardinality(rows)
           new(at) == [id |-> n + 1, at |-> at, stage |-> k.stage,
                       app |-> k.app, trace |-> k.trace, code |-> k.code]
<1>1. PICK at \in {now - 1, now} \intersect Nat :
          /\ \A r \in Trace(rows, k.trace) : r.at <= at
          /\ rows' = rows \union {new(at)}
    BY DEF WriteRow
<1>2. (k.stage = "received") = (Trace(rows, k.trace) = {}) \/ k.trace = 0
    BY DEF WriteRow
<1> DEFINE x == new(at)
<1>3. /\ x.id = n + 1 /\ x.at = at /\ x.stage = k.stage /\ x.trace = k.trace
    OBVIOUS
<1>4. rows' = rows \union {x}
    BY <1>1
<1> HIDE DEF x
<1>5. n \in Nat /\ IsFiniteSet(rows)
    BY FS_CardinalityType DEF DashInv, RowsOk
<1>6. x \notin rows
    BY <1>3, <1>5 DEF DashInv, RowsOk
<1>7. IsFiniteSet(rows') /\ Cardinality(rows') = n + 1
    BY <1>4, <1>5, <1>6, FS_AddElement
<1>8. \A r \in rows' : r.at \in 0..now /\ r.id \in 1..(n + 1)
    <2>1. at \in 0..now /\ now \in Nat
        BY DEF DashInv
    <2>2. \A r \in rows : r.at \in 0..now /\ r.id \in 1..n
        BY DEF DashInv, RowsOk
    <2> HIDE DEF n
    <2> QED BY <1>3, <1>4, <1>5, <2>1, <2>2
<1>9. ASSUME NEW r \in rows', NEW s \in rows', r.trace = s.trace, r.trace # 0,
             r.stage = "received"
      PROVE  r.at <= s.at
    <2>1. CASE r \in rows /\ s \in rows
        BY <1>9, <2>1 DEF DashInv, RowsOk
    <2>2. CASE r \in rows /\ s = x
        BY <1>1, <1>3, <1>9, <2>2 DEF Trace
    <2>3. CASE r = x /\ s \in rows
        BY <1>2, <1>3, <1>9, <2>3 DEF Trace
    <2>4. CASE r = x /\ s = x
        BY <1>3, <2>4
    <2> QED BY <1>4, <2>1, <2>2, <2>3, <2>4
<1> QED BY <1>7, <1>8, <1>9 DEF RowsOk

\* A page is opened.
LEMMA OpenKeeps ==
    ASSUME DashInv, NEW step, NEW ask, Open(step, ask),
           \/ step = "kpi" /\ ask \in Ranges
           \/ step \in {"funnel", "trend", "failures"} /\ ask \in Filters
    PROVE  DashInv'
<1>1. /\ screen' = [step |-> step, ask |-> ask, got |-> <<>>, snap |-> {}, at |-> 0]
      /\ shown' = NoCard /\ rows' = rows /\ now' = now
    BY DEF Open, NoScreen
<1>2. /\ screen'.step = step /\ screen'.ask = ask /\ screen'.got = <<>>
      /\ screen'.snap = {} /\ screen'.at = 0
    BY <1>1
<1>3. ScreenOk'
    BY <1>1, <1>2 DEF ScreenOk, DashboardSteps, DeliverySteps
<1> QED BY <1>1, <1>3 DEF DashInv, ShownOk

\* A card is put on the page.
LEMMA SettleKeeps ==
    ASSUME DashInv, NEW card, NEW view, NEW snap, NEW at, NEW axis, NEW next,
           Settle(card, view, snap, at, axis, next),
           \/ next = "idle"
           \/ next \in DashboardSteps \ {"chart"} /\ screen.ask \in Ranges,
           \/ view = Failed
           \/ /\ at \in Nat /\ axis \in Int /\ RowsOk(snap, at)
              /\ CardView(card, view, screen.ask, snap, at, axis)
    PROVE  DashInv'
<1>1. /\ shown' = [card |-> card, view |-> view, ask |-> screen.ask,
                   snap |-> snap, at |-> at, axis |-> axis]
      /\ rows' = rows /\ now' = now
    BY DEF Settle
<1>2. /\ shown'.card = card /\ shown'.view = view /\ shown'.ask = screen.ask
      /\ shown'.snap = snap /\ shown'.at = at /\ shown'.axis = axis
    BY <1>1
<1>3. ShownOk'
    BY <1>2 DEF ShownOk
<1>4. ScreenOk'
    <2>1. CASE next = "idle"
        <3>1. screen' = NoScreen
            BY <2>1 DEF Settle
        <3> QED BY <3>1 DEF ScreenOk, NoScreen, DashboardSteps, DeliverySteps
    <2>2. CASE next \in DashboardSteps \ {"chart"} /\ screen.ask \in Ranges
        <3>1. next # "idle"
            BY <2>2 DEF DashboardSteps
        <3>2. screen' = [step |-> next, ask |-> screen.ask, got |-> <<>>,
                         snap |-> {}, at |-> 0]
            BY <3>1 DEF Settle, NoScreen
        <3>3. screen'.step = next /\ screen'.ask = screen.ask
            BY <3>2
        <3>4. screen'.step \in DashboardSteps \ {"chart"} /\ screen'.ask \in Ranges
            BY <2>2, <3>3
        <3>5. screen' = [step |-> screen'.step, ask |-> screen'.ask, got |-> screen'.got,
                         snap |-> screen'.snap, at |-> screen'.at]
            BY <3>2
        <3> QED BY <3>4, <3>5 DEF ScreenOk, DashboardSteps, DeliverySteps
    <2> QED BY <2>1, <2>2
<1> QED BY <1>1, <1>3, <1>4 DEF DashInv

\* A query with a card of its own.
LEMMA SectionKeeps ==
    ASSUME DashInv, NEW step, NEW card, NEW view, NEW next,
           Section(step, card, view, next),
           \/ next = "idle"
           \/ next \in DashboardSteps \ {"chart"} /\ screen.ask \in Ranges,
           CardView(card, view, screen.ask, rows, now, now)
    PROVE  DashInv'
<1>1. PICK v \in {view, Failed} : Settle(card, v, rows, now, now, next)
    BY DEF Section
<1>2. now \in Nat /\ now \in Int /\ RowsOk(rows, now)
    BY DEF DashInv
<1>3. CASE v = Failed
    BY <1>1, <1>3, SettleKeeps
<1>4. CASE v = view
    BY <1>1, <1>2, <1>4, SettleKeeps
<1> QED BY <1>3, <1>4

\* A query whose answer is kept for the next card.
LEMMA FetchKeeps ==
    ASSUME DashInv, NEW step, NEW card, NEW g, NEW next, NEW end,
           Fetch(step, card, g, next, end),
           \/ next = "samples" /\ end = "requests" /\ screen.ask \in Ranges
           \/ /\ next = "chart" /\ end = "idle" /\ screen.ask \in Ranges
              /\ g = RequestBuckets(rows, now, screen.ask)
           \/ /\ next = "trendChart" /\ end = "idle" /\ screen.ask \in Filters
              /\ g = DeliveryDailyCounts(rows, now, screen.ask)
    PROVE  DashInv'
<1>1. CASE /\ screen' = [screen EXCEPT !.step = next, !.got = g, !.snap = rows, !.at = now]
           /\ shown' = NoCard
           /\ UNCHANGED <<rows, now>>
    <2>1. screen' = [step |-> next, ask |-> screen.ask, got |-> g, snap |-> rows, at |-> now]
        BY <1>1 DEF DashInv, ScreenOk
    <2>2. /\ screen'.step = next /\ screen'.ask = screen.ask /\ screen'.got = g
          /\ screen'.snap = rows /\ screen'.at = now
        BY <2>1
    <2>3. now \in Nat /\ RowsOk(rows, now)
        BY DEF DashInv
    <2>4. ScreenOk'
        BY <2>1, <2>2, <2>3 DEF ScreenOk, DashboardSteps, DeliverySteps
    <2> QED BY <1>1, <2>3, <2>4 DEF DashInv, ShownOk
<1>2. CASE Settle(card, Failed, rows, now, now, end)
    <2>1. \/ end = "idle"
          \/ end \in DashboardSteps \ {"chart"} /\ screen.ask \in Ranges
        BY DEF DashboardSteps
    <2> QED BY <1>2, <2>1, SettleKeeps
<1> QED BY <1>1, <1>2 DEF Fetch

\* Every step of the dashboard keeps the invariant.
LEMMA DashNextInv == DashInv /\ [DashNext]_dashVars => DashInv'
<1> SUFFICES ASSUME DashInv, [DashNext]_dashVars PROVE DashInv'
    OBVIOUS
<1> USE DEF CardView
<1>1. CASE handleDashboard
    <2>1. PICK spec \in Ranges : Open("kpi", spec)
        BY <1>1 DEF handleDashboard
    <2> QED BY <2>1, OpenKeeps
<1>2. CASE handleDeliveryPage
    <2>1. PICK f \in Filters, view \in {"funnel", "trend", "failures"} : Open(view, f)
        BY <1>2 DEF handleDeliveryPage
    <2> QED BY <2>1, OpenKeeps
<1>3. CASE KPICard
    <2>1. Section("kpi", "kpi", buildKPIView(Rolling(rows, now, Day)), "pipeline")
        BY <1>3 DEF KPICard, Recent
    <2>2. screen.ask \in Ranges /\ "pipeline" \in DashboardSteps \ {"chart"}
        BY <2>1 DEF Section, DashInv, ScreenOk, DashboardSteps
    <2> QED BY <2>1, <2>2, SectionKeeps
<1>4. CASE PipelineCard
    <2>1. Section("pipeline", "pipeline", buildPipelineFlow(Rolling(rows, now, Day)), "pie")
        BY <1>4 DEF PipelineCard, Recent
    <2>2. screen.ask \in Ranges /\ "pie" \in DashboardSteps \ {"chart"}
        BY <2>1 DEF Section, DashInv, ScreenOk, DashboardSteps
    <2> QED BY <2>1, <2>2, SectionKeeps
<1>5. CASE PieCard
    <2>1. Section("pie", "pie",
                  buildFailurePie(Of(Rolling(rows, now, Day), deliveryFailureStages)),
                  "latency")
        BY <1>5 DEF PieCard, Recent
    <2>2. screen.ask \in Ranges /\ "latency" \in DashboardSteps \ {"chart"}
        BY <2>1 DEF Section, DashInv, ScreenOk, DashboardSteps
    <2> QED BY <2>1, <2>2, SectionKeeps
<1>6. CASE LatencyQuery
    <2>1. screen.ask \in Ranges
        BY <1>6 DEF LatencyQuery, Fetch, DashInv, ScreenOk, DashboardSteps
    <2> QED BY <1>6, <2>1, FetchKeeps DEF LatencyQuery
<1>7. CASE StripCard
    <2>1. PICK dots \in LatencySamples(rows, now) :
              Section("samples", "strip", buildLatencyStrip(dots, screen.got), "requests")
        BY <1>7 DEF StripCard
    <2> DEFINE view == buildLatencyStrip(dots, screen.got)
    <2>2. view = buildLatencyStrip(dots, view.data.count)
        BY DEF buildLatencyStrip, Data
    <2>3. screen.ask \in Ranges /\ "requests" \in DashboardSteps \ {"chart"}
        BY <2>1 DEF Section, DashInv, ScreenOk, DashboardSteps
    <2> HIDE DEF view
    <2>4. CardView("strip", view, screen.ask, rows, now, now)
        BY <2>2
    <2>5. Section("samples", "strip", view, "requests")
        BY <2>1 DEF view
    <2> HIDE DEF CardView
    <2> QED BY <2>3, <2>4, <2>5, SectionKeeps
<1>8. CASE RequestsQuery
    <2>1. screen.ask \in Ranges
        BY <1>8 DEF RequestsQuery, Fetch, DashInv, ScreenOk, DashboardSteps
    <2> QED BY <1>8, <2>1, FetchKeeps DEF RequestsQuery
<1>9. CASE ChartCard
    <2>1. PICK lag \in 0..MaxLag :
              Settle("chart", buildLineChart(screen.got, screen.ask, now - lag),
                     screen.snap, screen.at, now - lag, "idle")
        BY <1>9 DEF ChartCard, Draw
    <2>2. screen.step = "chart"
        BY <1>9 DEF ChartCard, Draw
    <2>3. /\ screen.ask \in Ranges /\ screen.at \in Nat /\ RowsOk(screen.snap, screen.at)
          /\ screen.got = RequestBuckets(screen.snap, screen.at, screen.ask)
        BY <2>2 DEF DashInv, ScreenOk, DashboardSteps
    <2>4. now - lag \in Int
        BY DashAssumption DEF DashInv
    <2> QED BY <2>1, <2>3, <2>4, SettleKeeps
<1>10. CASE FunnelCard
    <2>1. screen.ask \in Filters
        BY <1>10 DEF FunnelCard, Section, DashInv, ScreenOk, DeliverySteps
    <2> QED BY <1>10, <2>1, SectionKeeps DEF FunnelCard
<1>11. CASE TrendQuery
    <2>1. screen.ask \in Filters
        BY <1>11 DEF TrendQuery, Fetch, DashInv, ScreenOk, DeliverySteps
    <2> QED BY <1>11, <2>1, FetchKeeps DEF TrendQuery
<1>12. CASE TrendCard
    <2>1. PICK lag \in 0..MaxLag :
              Settle("trend", buildTrendChart(screen.got, screen.ask, now - lag),
                     screen.snap, screen.at, now - lag, "idle")
        BY <1>12 DEF TrendCard, Draw
    <2>2. screen.step = "trendChart"
        BY <1>12 DEF TrendCard, Draw
    <2>3. /\ screen.ask \in Filters /\ screen.at \in Nat /\ RowsOk(screen.snap, screen.at)
          /\ screen.got = DeliveryDailyCounts(screen.snap, screen.at, screen.ask)
        BY <2>2 DEF DashInv, ScreenOk, DeliverySteps
    <2>4. now - lag \in Int
        BY DashAssumption DEF DashInv
    <2> QED BY <2>1, <2>3, <2>4, SettleKeeps
<1>13. CASE FailuresCard
    <2>1. screen.ask \in Filters
        BY <1>13 DEF FailuresCard, Section, DashInv, ScreenOk, DeliverySteps
    <2> DEFINE newest == RecentFailures(rows, now, screen.ask)
               view == IF newest = {} THEN Empty ELSE Data(newest)
    <2>2. Section("failures", "failures", view, "idle")
        BY <1>13 DEF FailuresCard
    <2>3. CardView("failures", view, screen.ask, rows, now, now)
        BY <2>1
    <2> HIDE DEF view, CardView
    <2> QED BY <2>2, <2>3, SectionKeeps
<1>14. CASE Tick
    <2>1. RowsOk(rows, now + 1)
        BY RowsLater DEF DashInv
    <2> QED BY <1>14, <2>1 DEF Tick, DashInv, ScreenOk, ShownOk
<1>15. CASE \E k \in Kinds : WriteRow(k)
    <2>1. PICK k \in Kinds : WriteRow(k)
        BY <1>15
    <2>2. RowsOk(rows', now)
        BY <2>1, WriteRowKeeps
    <2>3. now' = now /\ screen' = screen /\ shown' = NoCard
        BY <2>1 DEF WriteRow
    <2> QED BY <2>2, <2>3 DEF DashInv, ScreenOk, ShownOk
<1>16. CASE UNCHANGED dashVars
    BY <1>16 DEF dashVars, DashInv, ScreenOk, ShownOk
<1> QED
    BY <1>1, <1>2, <1>3, <1>4, <1>5, <1>6, <1>7, <1>8, <1>9, <1>10, <1>11, <1>12,
       <1>13, <1>14, <1>15, <1>16 DEF DashNext

\* Whatever is shown is the view of the rows that its query found.
LEMMA DashAlways == DashSpec => []DashInv
<1>1. DashInit => DashInv
    <2> SUFFICES ASSUME DashInit PROVE DashInv
        OBVIOUS
    <2>1. RowsOk(rows, now) /\ now \in Nat
        BY DashAssumption DEF DashInit, RowsOk
    <2>2. ScreenOk
        BY DEF DashInit, ScreenOk, NoScreen, DashboardSteps, DeliverySteps
    <2> QED BY <2>1, <2>2 DEF DashInit, DashInv, ShownOk
<1> QED BY <1>1, DashNextInv, PTL DEF DashSpec

-----------------------------------------------------------------------------
(* Smallest and largest elements, buckets. *)

\* A set of natural numbers has a smallest element.
LEMMA SmallestOf ==
    ASSUME NEW S \in SUBSET Nat, S # {}
    PROVE  Min(S) \in S /\ \A y \in S : Min(S) <= y
<1>1. PICK x \in S : \A y \in S : ~(<<y, x>> \in OpToRel(<, Nat))
    BY NatLessThanWellFounded, WFMin
<1>2. ASSUME NEW y \in S PROVE x =< y
    <2>1. <<y, x>> \in Nat \X Nat /\ x \in Nat /\ y \in Nat
        OBVIOUS
    <2>2. ~(y < x)
        BY <1>1, <2>1 DEF OpToRel
    <2> QED BY <2>1, <2>2
<1> QED BY <1>2 DEF Min

\* A bounded set of natural numbers has a largest element.
LEMMA LargestOf ==
    ASSUME NEW t \in Nat, NEW S \in SUBSET (0..t), S # {}
    PROVE  Max(S) \in S /\ \A y \in S : y <= Max(S)
<1> DEFINE D == {t - y : y \in S}
<1>1. D \in SUBSET Nat
    <2>1. \A y \in S : y \in 0..t
        OBVIOUS
    <2>2. \A y \in 0..t : t - y \in Nat
        OBVIOUS
    <2> QED BY <2>1, <2>2
<1>2. Min(D) \in D /\ \A y \in D : Min(D) <= y
    <2>1. D # {}
        OBVIOUS
    <2> HIDE DEF D
    <2> QED BY <1>1, <2>1, SmallestOf
<1>3. PICK x \in S : Min(D) = t - x
    BY <1>2
<1>4. ASSUME NEW y \in S PROVE x >= y
    <2>1. t - x <= t - y
        BY <1>2, <1>3
    <2>2. x \in 0..t /\ y \in 0..t
        OBVIOUS
    <2> QED BY <2>1, <2>2
<1>5. \A y \in S : y \in 0..t
    OBVIOUS
<1>6. Max(S) \in S /\ \A y \in S : Max(S) >= y
    BY <1>4 DEF Max
<1> QED BY <1>5, <1>6

\* A bucket is the time from its start on.
LEMMA BucketStart ==
    ASSUME NEW n \in Int, NEW u \in Nat \ {0}, NEW c \in Int
    PROVE  /\ Bucket(n, u) \in Int
           /\ n >= c * u <=> Bucket(n, u) >= c
<1> DEFINE q == n \div u
           m == n % u
<1>1. q \in Int /\ m \in 0..(u - 1)
    OBVIOUS
<1>2. n = u * q + m
    OBVIOUS
<1> HIDE DEF q, m
<1>3. ASSUME q >= c PROVE n >= c * u
    <2>1. q - c \in Nat
        BY <1>1, <1>3
    <2>2. u * (q - c) \in Nat /\ u * (q - c) = u * q - c * u
        BY <1>1, <2>1
    <2> QED BY <1>1, <1>2, <2>2
<1>4. ASSUME q < c PROVE n < c * u
    <2>1. c - q - 1 \in Nat
        BY <1>1, <1>4
    <2>2. u * (c - q - 1) \in Nat /\ u * (c - q - 1) = c * u - u * q - u
        BY <1>1, <2>1
    <2> QED BY <1>1, <1>2, <2>2
<1> QED BY <1>1, <1>3, <1>4 DEF Bucket, q

-----------------------------------------------------------------------------
(* What a card shows. *)

\* The two ways to say how old a row may be.
LEMMA RollingIs ==
    ASSUME NEW T, NEW t \in Nat, RowsOk(T, t), NEW length \in Int
    PROVE  Rolling(T, t, length) = {r \in T : t - r.at <= length}
<1>1. \A r \in T : r.at \in Int
    BY DEF RowsOk
<1> QED BY <1>1 DEF Rolling

\* What a card shows is one of three kinds.
LEMMA ViewKinds ==
    /\ Failed.kind = "error" /\ Empty.kind = "empty"
    /\ \A d : Data(d).kind = "data" /\ Data(d).data = d
BY DEF Failed, Empty, Data

-----------------------------------------------------------------------------
(* The latency strip. *)

\* The delivered rows of trace k, and the rows it was received by.
Ends(T, k) == {r.at : r \in Of(Trace(T, k), {"delivered"})}
RecentEnds(T, t, k) == {r.at : r \in {d \in Of(Rolling(T, t, Day), {"delivered"}) : d.trace = k}}
Begins(T, t, k) == {r.at : r \in {d \in RecvRows(T, t) : d.trace = k}}
PairOf(T, t, k) == [trace |-> k, at |-> Max(RecentEnds(T, t, k)),
                    secs |-> Max(RecentEnds(T, t, k)) - Min(Begins(T, t, k))]
PairTraces(T, t) ==
    {k \in ({r.trace : r \in Of(Rolling(T, t, Day), {"delivered"})}
            \intersect {r.trace : r \in RecvRows(T, t)}) \ {0} :
        Max(RecentEnds(T, t, k)) >= Min(Begins(T, t, k))}

\* The pairs the query joins.
LEMMA PairsAre ==
    ASSUME NEW T, NEW t
    PROVE  Pairs(T, t) = {PairOf(T, t, k) : k \in PairTraces(T, t)}
BY DEF Pairs, PairOf, PairTraces, RecentEnds, Begins

\* Times are bounded.
LEMMA TimesBounded ==
    ASSUME NEW T, NEW t \in Nat, RowsOk(T, t), NEW k
    PROVE  /\ Ends(T, k) \in SUBSET (0..t)
           /\ RecentEnds(T, t, k) \in SUBSET (0..t)
           /\ Begins(T, t, k) \in SUBSET (0..t) /\ Begins(T, t, k) \in SUBSET Nat
<1>1. \A r \in T : r.at \in 0..t
    BY DEF RowsOk
<1> QED BY <1>1 DEF Ends, RecentEnds, Begins, Of, Rolling, RecvRows, Trace

\* A request delivered lately, and received by the slack before, has a pair.
LEMMA TracePaired ==
    ASSUME NEW T, NEW t \in Nat, RowsOk(T, t),
           NEW d \in T, d.stage = "delivered", t - d.at <= Day,
           NEW r \in Of(Trace(T, d.trace), {"received"}), d.at - r.at <= Slack
    PROVE  d.trace \in PairTraces(T, t)
<1> DEFINE k == d.trace
           E == RecentEnds(T, t, k)
           B == Begins(T, t, k)
<1>1. r \in T /\ r.trace = k /\ k # 0 /\ r.stage = "received"
    BY DEF Of, Trace
<1>2. r.at <= d.at /\ r.at \in 0..t /\ d.at \in 0..t
    BY <1>1 DEF RowsOk
<1>3. Day \in Nat /\ Slack \in Nat
    BY DashAssumption
<1>4. d.at >= t - Day /\ r.at >= t - (Day + Slack)
    BY <1>2, <1>3
<1>5. d \in Of(Rolling(T, t, Day), {"delivered"}) /\ r \in RecvRows(T, t)
    BY <1>1, <1>4 DEF Of, Rolling, RecvRows
<1>6. d.at \in E /\ r.at \in B
    BY <1>1, <1>5 DEF RecentEnds, Begins
<1>7. E \in SUBSET (0..t) /\ B \in SUBSET Nat
    BY TimesBounded
<1> HIDE DEF E, B
<1>8. d.at <= Max(E) /\ Max(E) \in Nat
    <2>1. Max(E) \in E /\ \A y \in E : y <= Max(E)
        BY <1>6, <1>7, LargestOf
    <2>2. Max(E) \in 0..t
        BY <1>7, <2>1
    <2> QED BY <1>6, <2>1, <2>2
<1>9. Min(B) <= r.at /\ Min(B) \in Nat
    BY <1>6, <1>7, SmallestOf
<1>10. Max(E) >= Min(B)
    BY <1>2, <1>8, <1>9
<1>11. k \in {x.trace : x \in Of(Rolling(T, t, Day), {"delivered"})}
    BY <1>5
<1>12. k \in {x.trace : x \in RecvRows(T, t)}
    BY <1>1, <1>5
<1> QED BY <1>1, <1>10, <1>11, <1>12 DEF PairTraces, E, B

\* The last delivery is the last of the recent ones, if there is one.
LEMMA LastIsRecent ==
    ASSUME NEW T, NEW t \in Nat, RowsOk(T, t), NEW k, k # 0, RecentEnds(T, t, k) # {}
    PROVE  Max(RecentEnds(T, t, k)) = Max(Ends(T, k))
<1> DEFINE E == RecentEnds(T, t, k)
           A == Ends(T, k)
<1>1. E \in SUBSET (0..t) /\ A \in SUBSET (0..t)
    BY TimesBounded
<1>2. \A r \in T : r.at \in 0..t
    BY DEF RowsOk
<1>3. \A y \in E : y \in A /\ y >= t - Day
    BY DEF RecentEnds, Ends, Of, Rolling, Trace
<1>4. \A y \in A : y \in E \/ ~(y >= t - Day)
    BY DEF RecentEnds, Ends, Of, Rolling, Trace
<1> HIDE DEF E, A
<1>5. Max(E) \in E /\ \A y \in E : y <= Max(E)
    BY <1>1, LargestOf DEF E
<1>6. Max(A) \in A /\ \A y \in A : y <= Max(A)
    BY <1>1, <1>3, <1>5, LargestOf
<1>7. Max(E) \in 0..t /\ Max(A) \in 0..t /\ Day \in Nat
    BY <1>1, <1>5, <1>6, DashAssumption
<1>8. Max(E) <= Max(A)
    BY <1>3, <1>5, <1>6
<1>9. Max(A) <= Max(E)
    <2>1. CASE Max(A) \in E
        BY <1>5, <2>1
    <2>2. CASE ~(Max(A) >= t - Day)
        BY <1>3, <1>5, <1>7, <2>2
    <2> QED BY <1>4, <1>6, <2>1, <2>2
<1>10. Max(E) = Max(A)
    BY <1>7, <1>8, <1>9
<1> QED BY <1>10 DEF E, A

\* What the strip is about has pairs.
LEMMA StripAbout ==
    ASSUME shown.card = "strip", shown.at \in Nat, RowsOk(shown.snap, shown.at),
           NEW d \in About
    PROVE  d.trace \in PairTraces(shown.snap, shown.at)
<1>1. d \in {e \in Of({r \in shown.snap : shown.at - r.at <= Day}, {"delivered"}) :
                \E r \in Of(Trace(shown.snap, e.trace), {"received"}) : e.at - r.at <= Slack}
    BY DEF About
<1>2. d \in shown.snap /\ d.stage = "delivered" /\ shown.at - d.at <= Day
    BY <1>1 DEF Of
<1>3. PICK r \in Of(Trace(shown.snap, d.trace), {"received"}) : d.at - r.at <= Slack
    BY <1>1
<1> QED BY <1>2, <1>3, TracePaired

\* Every dot is the time from a request to its last recipient, and only the
\* limit leaves a request out.
LEMMA StripTrue ==
    ASSUME shown.card = "strip", shown.at \in Nat, RowsOk(shown.snap, shown.at),
           NEW D \in LatencySamples(shown.snap, shown.at),
           shown.view = buildLatencyStrip(D, shown.view.data.count)
    PROVE  DotsTrue
<1> DEFINE T == shown.snap
           t == shown.at
           dots == IF shown.view = Empty THEN {} ELSE shown.view.data.dots
<1>1. dots = D
    <2>1. CASE D = {}
        BY <2>1 DEF buildLatencyStrip
    <2>2. CASE D # {}
        <3>1. shown.view = Data([dots |-> D, count |-> shown.view.data.count])
            BY <2>2 DEF buildLatencyStrip
        <3>2. shown.view # Empty /\ shown.view.data = [dots |-> D, count |-> shown.view.data.count]
            BY <3>1, ViewKinds
        <3>3. shown.view.data.dots = D
            BY <3>2
        <3> QED BY <3>2, <3>3
    <2> QED BY <2>1, <2>2
<1>2. \A k \in PairTraces(T, t) :
          /\ k # 0 /\ RecentEnds(T, t, k) # {} /\ Begins(T, t, k) # {}
    BY DEF PairTraces, RecentEnds, Begins
<1>3. \A k \in PairTraces(T, t) : Max(RecentEnds(T, t, k)) = Max(Ends(T, k))
    BY <1>2, LastIsRecent
<1>4. \A d \in D : \E k \in PairTraces(T, t) : d = PairOf(T, t, k)
    BY PairsAre DEF LatencySamples
<1>5. ASSUME NEW d \in D
      PROVE  \E r \in Of(Trace(T, d.trace), {"received"}) :
                 d.secs = Max(Ends(T, d.trace)) - r.at
    <2>1. PICK k \in PairTraces(T, t) : d = PairOf(T, t, k)
        BY <1>4
    <2>2. d.trace = k /\ d.secs = Max(RecentEnds(T, t, k)) - Min(Begins(T, t, k))
        BY <2>1 DEF PairOf
    <2>3. Min(Begins(T, t, k)) \in Begins(T, t, k)
        BY <1>2, TimesBounded, SmallestOf
    <2>4. PICK r \in RecvRows(T, t) : r.trace = k /\ r.at = Min(Begins(T, t, k))
        BY <2>3 DEF Begins
    <2>5. r \in Of(Trace(T, k), {"received"})
        BY <1>2, <2>4 DEF RecvRows, Of, Rolling, Trace
    <2> QED BY <1>3, <2>2, <2>4, <2>5
<1>6. ASSUME NEW a \in About, a.trace \notin {d.trace : d \in D}
      PROVE  /\ Cardinality(D) = latencySampleLimit
             /\ \A d \in D : d.at >= Max(Ends(T, a.trace))
    <2> DEFINE e == PairOf(T, t, a.trace)
    <2>1. a.trace \in PairTraces(T, t)
        BY StripAbout
    <2>2. e \in Pairs(T, t) /\ e.trace = a.trace /\ e.at = Max(RecentEnds(T, t, a.trace))
        BY <2>1, PairsAre DEF PairOf
    <2>3. e \notin D
        BY <1>6, <2>2
    <2>4. Cardinality(D) = latencySampleLimit /\ \A d \in D : d.at >= e.at
        BY <2>2, <2>3 DEF LatencySamples
    <2>5. e.at = Max(Ends(T, a.trace))
        BY <1>3, <2>1, <2>2
    <2> HIDE DEF e
    <2> QED BY <2>4, <2>5
<1>7. \A k : Ends(T, k) = {r.at : r \in Of(Trace(shown.snap, k), {"delivered"})}
    BY DEF Ends
<1> HIDE DEF dots
<1> QED BY <1>1, <1>5, <1>6, <1>7 DEF DotsTrue, dots

-----------------------------------------------------------------------------
(* Sums of counts. *)

\* The elements of R whose name is x, and those whose name is in S.
ClassOf(R, nm, x) == {r \in R : nm[r] = x}
ClassesIn(R, nm, S) == {r \in R : nm[r] \in S}
NamesIn(R, nm) == {nm[r] : r \in R}

\* A one-to-one image is as large as its set.
LEMMA SameSize ==
    ASSUME NEW S, IsFiniteSet(S), NEW T, NEW g \in [S -> T],
           \A x, y \in S : g[x] = g[y] => x = y,
           \A t \in T : \E x \in S : g[x] = t
    PROVE  Cardinality(T) = Cardinality(S)
<1>1. g \in Bijection(S, T)
    BY DEF Bijection, Injection, Surjection, IsInjective
<1>2. ExistsBijection(S, T)
    BY <1>1 DEF ExistsBijection
<1> QED BY <1>2, FS_Bijection

\* There are finitely many names.
LEMMA NamesFinite ==
    ASSUME NEW R, IsFiniteSet(R), NEW nm
    PROVE  IsFiniteSet(NamesIn(R, nm))
<1> DEFINE N == NamesIn(R, nm)
           g == [r \in R |-> nm[r]]
<1>1. g \in [R -> N] /\ \A n \in N : \E r \in R : g[r] = n
    BY DEF NamesIn
<1>2. g \in Surjection(R, N)
    BY <1>1 DEF Surjection
<1> HIDE DEF N, g
<1>3. IsFiniteSet(N)
    BY <1>2, FS_Surjection
<1> QED BY <1>3 DEF N

\* A class can be numbered by its count.
LEMMA Numbered ==
    ASSUME NEW R, IsFiniteSet(R), NEW nm, NEW x, NEW n, n = Cardinality(ClassOf(R, nm, x))
    PROVE  \E g \in [ClassOf(R, nm, x) -> 1..n] :
               /\ \A r, s \in ClassOf(R, nm, x) : g[r] = g[s] => r = s
               /\ \A i \in 1..n : \E r \in ClassOf(R, nm, x) : g[r] = i
<1> DEFINE C == ClassOf(R, nm, x)
<1>1. C \in SUBSET R
    BY DEF ClassOf
<1> HIDE DEF C
<1>2. IsFiniteSet(C)
    BY <1>1, FS_Subset
<1>3. n \in Nat
    BY <1>2, FS_CardinalityType DEF C
<1>4. IsFiniteSet(1..n) /\ Cardinality(1..n) = n
    BY <1>3, FS_Interval
<1>5. ExistsBijection(C, 1..n)
    BY <1>2, <1>4, FS_SameCardinalityBij DEF C
<1>6. PICK g : g \in Bijection(C, 1..n)
    BY <1>5 DEF ExistsBijection
<1>7. /\ g \in [C -> 1..n]
      /\ \A r, s \in C : g[r] = g[s] => r = s
      /\ \A i \in 1..n : \E r \in C : g[r] = i
    BY <1>6 DEF Bijection, Injection, Surjection, IsInjective
<1> QED BY <1>7 DEF C

\* The counts of some names add up to the number of elements with these names.
LEMMA SumOfCounts ==
    ASSUME NEW R, IsFiniteSet(R), NEW nm, NEW S, NEW f, DOMAIN f = S,
           \A x \in S : f[x] = Cardinality(ClassOf(R, nm, x))
    PROVE  Sum(f) = Cardinality(ClassesIn(R, nm, S))
<1> DEFINE Numbering(x, g) ==
               /\ g \in [ClassOf(R, nm, x) -> 1..f[x]]
               /\ \A r, s \in ClassOf(R, nm, x) : g[r] = g[s] => r = s
               /\ \A i \in 1..f[x] : \E r \in ClassOf(R, nm, x) : g[r] = i
           num == [x \in S |-> CHOOSE g : Numbering(x, g)]
           C == ClassesIn(R, nm, S)
           U == UNION {{x} \X (1..f[x]) : x \in S}
           h == [r \in C |-> <<nm[r], num[nm[r]][r]>>]
<1>1. ASSUME NEW x \in S PROVE Numbering(x, num[x])
    <2>1. \E g : Numbering(x, g)
        BY Numbered
    <2> HIDE DEF Numbering
    <2> QED BY <2>1
<1>2. \A r \in C : r \in R /\ nm[r] \in S /\ r \in ClassOf(R, nm, nm[r])
    BY DEF ClassOf, ClassesIn
<1>3. \A x \in S : \A r \in ClassOf(R, nm, x) : r \in C /\ nm[r] = x
    BY DEF ClassOf, ClassesIn
<1>4. C \in SUBSET R
    BY DEF ClassesIn
<1> HIDE DEF num, C
<1>5. ASSUME NEW r \in C PROVE h[r] \in U
    <2>1. num[nm[r]][r] \in 1..f[nm[r]]
        BY <1>1, <1>2
    <2>2. <<nm[r], num[nm[r]][r]>> \in {nm[r]} \X (1..f[nm[r]])
        BY <2>1
    <2> QED BY <1>2, <2>2
<1>6. ASSUME NEW r \in C, NEW s \in C, h[r] = h[s] PROVE r = s
    <2>1. nm[r] = nm[s] /\ num[nm[r]][r] = num[nm[s]][s]
        BY <1>6
    <2> QED BY <1>1, <1>2, <2>1
<1>7. ASSUME NEW u \in U PROVE \E r \in C : h[r] = u
    <2>1. PICK x \in S : u \in {x} \X (1..f[x])
        OBVIOUS
    <2>2. PICK i \in 1..f[x] : u = <<x, i>>
        BY <2>1
    <2>3. PICK r \in ClassOf(R, nm, x) : num[x][r] = i
        BY <1>1
    <2> QED BY <1>3, <2>2, <2>3
<1>8. IsFiniteSet(C)
    BY <1>4, FS_Subset
<1>9. h \in [C -> U]
    BY <1>5
<1> HIDE DEF h, U
<1>10. Cardinality(U) = Cardinality(C)
    BY <1>6, <1>7, <1>8, <1>9, SameSize
<1> QED BY <1>10 DEF Sum, U, C

\* The names that come before n.
Ahead(total, n) ==
    {m \in DOMAIN total : total[m] > total[n] \/ (total[m] = total[n] /\ m < n)}

FairGroups(G, total) ==
    /\ UNION G = DOMAIN total
    /\ \A g, h \in G : g # h => g \intersect h = {}
    /\ \A g, h \in G : Cardinality(g) = 1 /\ Cardinality(h) > 1 =>
          \A a \in g, b \in h : total[a] >= total[b]

\* The fold shares out the names, and every name that stands alone next to a
\* group counts at least as much as each name of the group.
LEMMA FoldIsFair ==
    ASSUME NEW total, IsFiniteSet(DOMAIN total),
           \A n \in DOMAIN total : total[n] \in Nat, NEW top \in Nat,
           NEW G, G = Folded(total, top)
    PROVE  FairGroups(G, total)
<1> USE DEF FairGroups
<1> DEFINE N == DOMAIN total
           few == {m \in N : Place(total, m) < top}
           rest == {n \in N : Place(total, n) >= top}
<1>1. \A n : Cardinality({n}) = 1
    BY FS_Singleton
<1>2. ASSUME NEW n \in N PROVE Place(total, n) \in Nat
    <2>1. Ahead(total, n) \in SUBSET N
        BY DEF Ahead
    <2>2. IsFiniteSet(Ahead(total, n))
        BY <2>1, FS_Subset
    <2>3. Cardinality(Ahead(total, n)) \in Nat
        BY <2>2, FS_CardinalityType
    <2> QED BY <2>3 DEF Place, Ahead
<1>3. ASSUME NEW a \in N, NEW b \in N, total[b] > total[a]
      PROVE  Place(total, b) <= Place(total, a)
    <2>1. Ahead(total, b) \in SUBSET Ahead(total, a)
        BY <1>3 DEF Ahead
    <2>2. Ahead(total, a) \in SUBSET N
        BY DEF Ahead
    <2>3. IsFiniteSet(Ahead(total, a))
        BY <2>2, FS_Subset
    <2>4. Cardinality(Ahead(total, b)) <= Cardinality(Ahead(total, a))
        BY <2>1, <2>3, FS_Subset
    <2> QED BY <2>4 DEF Place, Ahead
<1>4. CASE G = {{n} : n \in N}
    <2>1. UNION G = N
        BY <1>4
    <2>2. \A g \in G : \E n \in N : g = {n}
        BY <1>4
    <2>3. ASSUME NEW g \in G, NEW h \in G, g # h PROVE g \intersect h = {}
        <3>1. PICK m \in N : g = {m}
            BY <2>2
        <3>2. PICK n \in N : h = {n}
            BY <2>2
        <3> QED BY <2>3, <3>1, <3>2
    <2>4. \A g \in G : ~(Cardinality(g) > 1)
        BY <1>1, <2>2
    <2> QED BY <2>1, <2>3, <2>4
<1>5. CASE G = {{n} : n \in few} \union {rest}
    <2>1. \A n \in N : n \in few <=> n \notin rest
        BY <1>2
    <2>2. few \subseteq N /\ rest \subseteq N
        OBVIOUS
    <2>3. \A n \in few : Place(total, n) < top
        OBVIOUS
    <2>4. \A n \in rest : Place(total, n) >= top
        OBVIOUS
    <2> HIDE DEF few, rest
    <2>5. UNION G = N
        BY <1>5, <2>1, <2>2
    <2>6. ASSUME NEW g \in G, NEW h \in G, g # h PROVE g \intersect h = {}
        <3>1. \A x \in G : x = rest \/ \E n \in few : x = {n}
            BY <1>5
        <3>2. \A n \in few : n \notin rest
            BY <2>1, <2>2
        <3>3. CASE g = rest
            <4>1. PICK n \in few : h = {n}
                BY <2>6, <3>1, <3>3
            <4> QED BY <3>2, <3>3, <4>1
        <3>4. CASE h = rest
            <4>1. PICK n \in few : g = {n}
                BY <2>6, <3>1, <3>4
            <4> QED BY <3>2, <3>4, <4>1
        <3>5. CASE g # rest /\ h # rest
            <4>1. PICK m \in few : g = {m}
                BY <3>1, <3>5
            <4>2. PICK n \in few : h = {n}
                BY <3>1, <3>5
            <4> QED BY <2>6, <4>1, <4>2
        <3> QED BY <3>3, <3>4, <3>5
    <2>7. ASSUME NEW g \in G, NEW h \in G, Cardinality(g) = 1, Cardinality(h) > 1,
                 NEW a \in g, NEW b \in h
          PROVE  total[a] >= total[b]
        <3>1. h = rest
            BY <1>1, <1>5, <2>7
        <3>2. g # rest
            BY <2>7, <3>1
        <3>3. a \in few /\ b \in rest
            BY <1>5, <2>7, <3>1, <3>2
        <3>4. Place(total, a) < top /\ Place(total, b) >= top
            BY <2>3, <2>4, <3>3
        <3>5. Place(total, a) \in Nat /\ Place(total, b) \in Nat
            BY <1>2, <2>2, <3>3
        <3>6. ~(total[b] > total[a])
            BY <1>3, <2>2, <3>3, <3>4, <3>5
        <3> QED BY <2>2, <3>3, <3>6
    <2> QED BY <2>5, <2>6, <2>7
<1> QED BY <1>4, <1>5 DEF Folded

\* The query of a chart on the rows C, named by nm.
SeriesItem(C, unit, nm, r) ==
    [name |-> nm[r], bucket |-> Bucket(r.at, unit),
     count |-> Cardinality({s \in C : /\ nm[s] = nm[r]
                                      /\ Bucket(s.at, unit) = Bucket(r.at, unit)})]
SeriesOf(C, unit, nm) == {SeriesItem(C, unit, nm, r) : r \in C}

\* What a chart finds for a name and a bucket is the number of rows.
LEMMA CountFound ==
    ASSUME NEW C, IsFiniteSet(C), NEW unit, NEW nm, NEW n, NEW b
    PROVE  CountIn(SeriesOf(C, unit, nm), n, b)
               = Cardinality({r \in C : nm[r] = n /\ Bucket(r.at, unit) = b})
<1> DEFINE R == {r \in C : nm[r] = n /\ Bucket(r.at, unit) = b}
           S == {q \in SeriesOf(C, unit, nm) : q.name = n /\ q.bucket = b}
           f == [p \in S |-> p.count]
           item == [r \in R |-> SeriesItem(C, unit, nm, r)]
<1>1. \A r : /\ SeriesItem(C, unit, nm, r).name = nm[r]
             /\ SeriesItem(C, unit, nm, r).bucket = Bucket(r.at, unit)
    BY DEF SeriesItem
<1>2. \A r \in R : SeriesItem(C, unit, nm, r) =
                       [name |-> n, bucket |-> b, count |-> Cardinality(R)]
    BY DEF SeriesItem
<1>3. \A p \in S : \E r \in R : p = SeriesItem(C, unit, nm, r)
    BY <1>1 DEF SeriesOf
<1>4. \A r \in R : SeriesItem(C, unit, nm, r) \in S
    BY <1>1 DEF SeriesOf
<1>5. R \in SUBSET C
    OBVIOUS
<1>6. IsFiniteSet(R)
    <2> HIDE DEF R
    <2> QED BY <1>5, FS_Subset
<1> HIDE DEF R, S
<1>7. ASSUME NEW p \in S PROVE f[p] = Cardinality(ClassOf(R, item, p))
    <2>1. p = [name |-> n, bucket |-> b, count |-> Cardinality(R)]
        BY <1>2, <1>3
    <2>2. \A r \in R : item[r] = p
        BY <1>2, <2>1
    <2>3. ClassOf(R, item, p) = R
        BY <2>2 DEF ClassOf
    <2>4. p.count = Cardinality(R)
        BY <2>1
    <2> QED BY <2>3, <2>4
<1>8. ClassesIn(R, item, S) = R
    BY <1>4 DEF ClassesIn
<1>9. DOMAIN f = S
    OBVIOUS
<1> HIDE DEF f, item
<1>10. Sum(f) = Cardinality(R)
    BY <1>6, <1>7, <1>8, <1>9, SumOfCounts
<1> QED BY <1>10 DEF CountIn, f, S, R

\* The rows of a line of a chart in one bucket, and those of a name.
LineRows(C, unit, nm, g, b) == {r \in C : nm[r] \in g /\ Bucket(r.at, unit) = b}
NameRows(C, unit, nm, n, axis) == {r \in C : nm[r] = n /\ Bucket(r.at, unit) \in axis}

\* A line of a chart, in one bucket.
LEMMA LineCount ==
    ASSUME NEW C, IsFiniteSet(C), NEW unit, NEW nm, NEW g, NEW b, NEW f, DOMAIN f = g,
           \A n \in g : f[n] = CountIn(SeriesOf(C, unit, nm), n, b)
    PROVE  Sum(f) = Cardinality(LineRows(C, unit, nm, g, b))
<1> DEFINE R == {r \in C : Bucket(r.at, unit) = b}
<1>1. R \in SUBSET C
    OBVIOUS
<1>2. \A n : ClassOf(R, nm, n) = {r \in C : nm[r] = n /\ Bucket(r.at, unit) = b}
    BY DEF ClassOf
<1>3. ClassesIn(R, nm, g) = LineRows(C, unit, nm, g, b)
    BY DEF ClassesIn, LineRows
<1> HIDE DEF R
<1>4. IsFiniteSet(R)
    BY <1>1, FS_Subset
<1>5. \A n \in g : f[n] = Cardinality(ClassOf(R, nm, n))
    BY <1>2, CountFound
<1>6. Sum(f) = Cardinality(ClassesIn(R, nm, g))
    BY <1>4, <1>5, SumOfCounts
<1> QED BY <1>3, <1>6

\* A name of a chart, over the axis.
LEMMA NameCount ==
    ASSUME NEW C, IsFiniteSet(C), NEW unit, NEW nm, NEW n, NEW axis, NEW f, DOMAIN f = axis,
           \A b \in axis : f[b] = CountIn(SeriesOf(C, unit, nm), n, b)
    PROVE  Sum(f) = Cardinality(NameRows(C, unit, nm, n, axis))
<1> DEFINE R == {r \in C : nm[r] = n}
           at == [r \in R |-> Bucket(r.at, unit)]
<1>1. R \in SUBSET C
    OBVIOUS
<1>2. \A b : ClassOf(R, at, b) = {r \in C : nm[r] = n /\ Bucket(r.at, unit) = b}
    BY DEF ClassOf
<1>3. ClassesIn(R, at, axis) = NameRows(C, unit, nm, n, axis)
    BY DEF ClassesIn, NameRows
<1> HIDE DEF R, at
<1>4. IsFiniteSet(R)
    BY <1>1, FS_Subset
<1>5. \A b \in axis : f[b] = Cardinality(ClassOf(R, at, b))
    BY <1>2, CountFound
<1>6. Sum(f) = Cardinality(ClassesIn(R, at, axis))
    BY <1>4, <1>5, SumOfCounts
<1> QED BY <1>3, <1>6

\* The rows of the window are those in a bucket of the axis.
LEMMA OnAxis ==
    ASSUME NEW T, NEW t \in Nat, RowsOk(T, t), NEW r \in T,
           NEW spec, spec.unit \in Nat \ {0}, spec.buckets \in Nat \ {0}
    PROVE  r \in Bucketed(T, t, spec) <=> Bucket(r.at, spec.unit) \in Axis(spec, t)
<1> DEFINE u == spec.unit
           b == Bucket(r.at, u)
           c == Bucket(t, u)
           low == c - (spec.buckets - 1)
<1>1. r.at \in 0..t
    BY DEF RowsOk
<1>2. b \in Int /\ c \in Int
    BY <1>1, BucketStart
<1>3. low \in Int
    BY <1>2
<1> HIDE DEF low
<1>4. r.at >= low * u <=> b >= low
    BY <1>1, <1>3, BucketStart
<1>5. b <= c
    <2>1. r.at >= b * u
        BY <1>1, <1>2, BucketStart
    <2>2. b * u \in Int
        BY <1>2
    <2>3. t >= b * u
        BY <1>1, <2>1, <2>2
    <2>4. c >= b
        BY <1>2, <2>3, BucketStart
    <2> QED BY <1>2, <2>4
<1>6. r \in Bucketed(T, t, spec) <=> r.at >= low * u
    BY DEF Bucketed, low
<1>7. b \in Axis(spec, t) <=> low <= b /\ b <= c
    BY <1>2, <1>3 DEF Axis, low
<1> QED BY <1>2, <1>3, <1>4, <1>5, <1>6, <1>7

-----------------------------------------------------------------------------
(* The chart of requests. *)

ChartRows(T, t, spec) == {r \in Of(Bucketed(T, t, spec), {"received"}) : r.app # 0}
AppOf(C) == [r \in C |-> r.app]

\* The query counts its rows by app.
LEMMA RequestSeries ==
    ASSUME NEW T, NEW t, NEW spec, NEW C, C = ChartRows(T, t, spec)
    PROVE  RequestBuckets(T, t, spec) = SeriesOf(C, spec.unit, AppOf(C))
BY DEF RequestBuckets, CountsBy, SeriesOf, SeriesItem, ChartRows, AppOf

\* What the chart is about.
LEMMA ChartAbout ==
    ASSUME shown.card = "chart", shown.at \in Nat, RowsOk(shown.snap, shown.at),
           shown.ask \in Ranges,
           NEW C, C = ChartRows(shown.snap, shown.at, shown.ask)
    PROVE  /\ IsFiniteSet(C)
           /\ About = {r \in C : Bucket(r.at, shown.ask.unit) \in Axis(shown.ask, shown.axis)}
<1> DEFINE T == shown.snap
           spec == shown.ask
<1>1. spec.unit \in Nat \ {0} /\ spec.buckets \in Nat \ {0}
    BY DashAssumption
<1>2. \A r \in T : r \in Bucketed(T, shown.at, spec)
                     <=> Bucket(r.at, spec.unit) \in Axis(spec, shown.at)
    BY <1>1, OnAxis
<1>3. Bucketed(T, shown.at, spec) \subseteq T
    BY DEF Bucketed
<1>4. C \in SUBSET T
    BY <1>3 DEF ChartRows, Of
<1>5. IsFiniteSet(C)
    BY <1>4, FS_Subset DEF RowsOk
<1>6. About = {r \in InBuckets(Of(T, {"received"}), spec, Drawn(spec)) : r.app # 0}
    BY DEF About
<1>7. About = {r \in C : Bucket(r.at, spec.unit) \in Axis(spec, shown.axis)}
    BY <1>2, <1>3, <1>6 DEF ChartRows, Of, InBuckets, Drawn
<1> QED BY <1>5, <1>7

\* The chart is empty only when there is nothing to draw, its lines count every
\* row once, and the apps share them out fairly.
LEMMA ChartTrue ==
    ASSUME shown.card = "chart", shown.at \in Nat, RowsOk(shown.snap, shown.at),
           shown.ask \in Ranges,
           shown.view = buildLineChart(RequestBuckets(shown.snap, shown.at, shown.ask),
                                       shown.ask, shown.axis)
    PROVE  (shown.view.kind = "empty" => About = {}) /\ ChartsComplete
<1> DEFINE spec == shown.ask
           unit == spec.unit
           C == ChartRows(shown.snap, shown.at, spec)
           nm == AppOf(C)
           series == SeriesOf(C, unit, nm)
           axis == Axis(spec, shown.axis)
           apps == {p.name : p \in {q \in series : q.bucket \in axis}}
           perApp == [a \in apps |-> [b \in axis |-> CountIn(series, a, b)]]
           total == [a \in DOMAIN perApp |-> Sum(perApp[a])]
           G == Folded(total, topLineChartApps)
           line(g) == [names |-> g,
                       counts |-> [b \in axis |-> Sum([a \in g |-> perApp[a][b]])]]
<1>1. series = RequestBuckets(shown.snap, shown.at, spec)
    BY RequestSeries
<1>2. IsFiniteSet(C) /\ About = {r \in C : Bucket(r.at, unit) \in axis}
    BY ChartAbout
<1>3. \A r \in C : nm[r] = r.app
    BY DEF AppOf
<1> HIDE DEF C, nm
<1>4. apps = {r.app : r \in About}
    <2>1. \A r \in C : /\ SeriesItem(C, unit, nm, r).name = r.app
                       /\ SeriesItem(C, unit, nm, r).bucket = Bucket(r.at, unit)
        BY <1>3 DEF SeriesItem
    <2>2. ASSUME NEW a \in apps PROVE a \in {r.app : r \in About}
        <3>1. PICK p \in series : p.bucket \in axis /\ a = p.name
            OBVIOUS
        <3>2. PICK r \in C : p = SeriesItem(C, unit, nm, r)
            BY DEF SeriesOf
        <3>3. r \in About /\ a = r.app
            BY <1>2, <2>1, <3>1, <3>2
        <3> QED BY <3>3
    <2>3. ASSUME NEW r \in About PROVE r.app \in apps
        <3>1. r \in C /\ Bucket(r.at, unit) \in axis
            BY <1>2
        <3>2. SeriesItem(C, unit, nm, r) \in series
            BY <3>1 DEF SeriesOf
        <3> QED BY <2>1, <3>1, <3>2
    <2> QED BY <2>2, <2>3
<1>5. shown.view = IF apps = {} THEN Empty ELSE Data({line(g) : g \in G})
    BY <1>1 DEF buildLineChart, selectLineSeries
<1>6. shown.view.kind = "empty" => About = {}
    BY <1>4, <1>5, ViewKinds
<1>7. DOMAIN total = apps /\ DOMAIN perApp = apps
    OBVIOUS
<1>8. ASSUME NEW a \in apps
      PROVE  total[a] = Cardinality({r \in About : r.app = a})
    <2>1. /\ DOMAIN perApp[a] = axis
          /\ \A b \in axis : perApp[a][b] = CountIn(series, a, b)
        OBVIOUS
    <2>2. total[a] = Sum(perApp[a])
        OBVIOUS
    <2> HIDE DEF perApp, axis, total, apps
    <2>3. Sum(perApp[a]) = Cardinality(NameRows(C, unit, nm, a, axis))
        BY <1>2, <2>1, NameCount
    <2>4. NameRows(C, unit, nm, a, axis) = {r \in About : r.app = a}
        BY <1>2, <1>3 DEF NameRows
    <2> QED BY <2>2, <2>3, <2>4
<1>9. IsFiniteSet(About)
    <2>1. About \in SUBSET C
        BY <1>2
    <2> QED BY <1>2, <2>1, FS_Subset
<1>10. IsFiniteSet(apps)
    <2>1. apps = NamesIn(About, AppOf(About))
        BY <1>4 DEF AppOf, NamesIn
    <2> QED BY <1>9, <2>1, NamesFinite
<1>11. \A a \in apps : total[a] \in Nat
    <2>1. ASSUME NEW a \in apps PROVE Cardinality({r \in About : r.app = a}) \in Nat
        <3>1. {r \in About : r.app = a} \in SUBSET About
            OBVIOUS
        <3> QED BY <1>9, <3>1, FS_Subset, FS_CardinalityType
    <2> HIDE DEF total, apps
    <2> QED BY <1>8, <2>1
<1>12. /\ UNION G = apps
       /\ \A g, h \in G : g # h => g \intersect h = {}
       /\ \A g, h \in G : Cardinality(g) = 1 /\ Cardinality(h) > 1 =>
             \A a \in g, b \in h : total[a] >= total[b]
    <2>1. topLineChartApps \in Nat
        BY DashAssumption
    <2>2. G = Folded(total, topLineChartApps)
        OBVIOUS
    <2> HIDE DEF total, apps, perApp, G
    <2>3. FairGroups(G, total)
        BY <1>7, <1>10, <1>11, <2>1, <2>2, FoldIsFair
    <2> QED BY <1>7, <2>3 DEF FairGroups
<1>13. ASSUME NEW g \in G, NEW b \in axis
       PROVE  line(g).counts[b] =
                  Cardinality({r \in About : r.app \in g /\ Bucket(r.at, unit) = b})
    <2> DEFINE f == [a \in g |-> perApp[a][b]]
    <2>1. g \subseteq apps
        BY <1>12
    <2>2. DOMAIN f = g /\ \A a \in g : f[a] = CountIn(series, a, b)
        BY <2>1
    <2>3. line(g).counts[b] = Sum(f)
        OBVIOUS
    <2> HIDE DEF f, axis, apps, line, G
    <2>4. Sum(f) = Cardinality(LineRows(C, unit, nm, g, b))
        BY <1>2, <2>2, LineCount
    <2>5. LineRows(C, unit, nm, g, b) = {r \in About : r.app \in g /\ Bucket(r.at, unit) = b}
        BY <1>2, <1>3, <1>13 DEF LineRows
    <2> QED BY <2>3, <2>4, <2>5
<1>14. \A g : line(g).names = g
    OBVIOUS
<1> HIDE DEF line, G, total, apps, perApp, axis
<1>15. ASSUME HasData("chart") PROVE shown.view.data = {line(g) : g \in G}
    BY <1>5, <1>15, ViewKinds DEF HasData
<1>16. ASSUME HasData("chart") PROVE LinesExact(spec, LAMBDA r : r.app)
    <2>1. ASSUME NEW l \in shown.view.data, NEW b \in Axis(spec, shown.axis)
          PROVE  l.counts[b] = Cardinality({r \in About : r.app \in l.names
                                                 /\ Bucket(r.at, spec.unit) = b})
        <3>1. PICK g \in G : l = line(g)
            BY <1>15, <1>16
        <3> QED BY <1>13, <1>14, <3>1 DEF axis
    <2> QED BY <2>1 DEF LinesExact
<1>17. ASSUME HasData("chart")
       PROVE  FairFold({l.names : l \in shown.view.data}, {r.app : r \in About},
                       LAMBDA a : {r \in About : r.app = a})
    <2>1. {l.names : l \in shown.view.data} = G
        BY <1>14, <1>15, <1>17
    <2>2. ASSUME NEW g \in G, NEW h \in G, Cardinality(g) = 1, Cardinality(h) > 1,
                 NEW a \in g, NEW b \in h
          PROVE  Cardinality({r \in About : r.app = a}) >= Cardinality({r \in About : r.app = b})
        <3>1. a \in apps /\ b \in apps
            BY <1>12
        <3> QED BY <1>8, <1>12, <2>2, <3>1
    <2>3. UNION G = {r.app : r \in About} /\ \A g, h \in G : g # h => g \intersect h = {}
        BY <1>4, <1>12
    <2>4. FairFold(G, {r.app : r \in About}, LAMBDA a : {r \in About : r.app = a})
        BY <2>2, <2>3 DEF FairFold
    <2> QED BY <2>1, <2>4
<1> QED BY <1>6, <1>16, <1>17 DEF ChartsComplete, HasData

-----------------------------------------------------------------------------
(* The trend and the donut. *)

TrendStages == deliveryFunnelStages \union deliveryFailureStages
TrendRows(T, t, f) == Matching(Of(Bucketed(T, t, DaySpec(f)), TrendStages), f)
StageOf(C) == [r \in C |-> r.stage]

\* The query counts its rows by stage.
LEMMA TrendSeries ==
    ASSUME NEW T, NEW t, NEW f, NEW C, C = TrendRows(T, t, f)
    PROVE  DeliveryDailyCounts(T, t, f) = SeriesOf(C, Day, StageOf(C))
BY DEF DeliveryDailyCounts, CountsBy, SeriesOf, SeriesItem, TrendRows, StageOf, TrendStages

\* The query asks for every stage that has a line.
LEMMA LinesAsked ==
    ASSUME NEW f \in Filters
    PROVE  UNION trendSeriesDefs(f) \subseteq TrendStages
<1>1. CASE f.stage # AnyStage
    <2>1. f.stage \in TrendStages
        BY <1>1, DashAssumption DEF TrendStages
    <2>2. trendSeriesDefs(f) = {{f.stage}}
        BY <1>1 DEF trendSeriesDefs
    <2> QED BY <2>1, <2>2
<1>2. CASE f.stage = AnyStage
    <2>1. "received" \in TrendStages /\ "delivered" \in TrendStages
        BY DEF TrendStages, deliveryFunnelStages, FunnelStages, funnelStageOrder
    <2>2. deliveryFailureStages \subseteq TrendStages
        BY DEF TrendStages
    <2>3. trendSeriesDefs(f) = {{"received"}, {"delivered"}, deliveryFailureStages}
        BY <1>2 DEF trendSeriesDefs
    <2> QED BY <2>1, <2>2, <2>3
<1> QED BY <1>1, <1>2

\* What the trend is about.
LEMMA TrendAbout ==
    ASSUME shown.card = "trend", shown.at \in Nat, RowsOk(shown.snap, shown.at),
           NEW f \in Filters, f = shown.ask,
           NEW C, C = TrendRows(shown.snap, shown.at, f)
    PROVE  /\ IsFiniteSet(C)
           /\ About = {r \in C : /\ r.stage \in UNION trendSeriesDefs(f)
                                 /\ Bucket(r.at, Day) \in Axis(DaySpec(f), shown.axis)}
<1> DEFINE T == shown.snap
           spec == DaySpec(f)
           L == UNION trendSeriesDefs(f)
<1>1. spec.unit = Day /\ spec.unit \in Nat \ {0} /\ spec.buckets \in Nat \ {0}
    BY DashAssumption DEF DaySpec
<1>2. \A r \in T : r \in Bucketed(T, shown.at, spec)
                     <=> Bucket(r.at, Day) \in Axis(spec, shown.at)
    <2> HIDE DEF spec
    <2> QED BY <1>1, OnAxis
<1>3. Bucketed(T, shown.at, spec) \subseteq T
    BY DEF Bucketed
<1>4. C \in SUBSET T
    BY <1>3 DEF TrendRows, Matching, OfApp, Of
<1>5. IsFiniteSet(C)
    BY <1>4, FS_Subset DEF RowsOk
<1>6. About = InBuckets(Matching(Of(T, L), f), spec, Drawn(spec))
    BY DEF About
<1>7. L \subseteq TrendStages
    BY LinesAsked
<1> HIDE DEF L
<1>8. About = {r \in C : r.stage \in L /\ Bucket(r.at, Day) \in Axis(spec, shown.axis)}
    <2> HIDE DEF spec
    <2>1. \A r : r \in C <=> /\ r \in Bucketed(T, shown.at, spec) /\ r.stage \in TrendStages
                             /\ f.app \in {All, r.app}
                             /\ f.stage \in {AnyStage, r.stage} /\ f.code \in {All, r.code}
        BY DEF TrendRows, Matching, OfApp, Of, spec
    <2>2. \A r : r \in About <=> /\ r \in T /\ r.stage \in L
                                 /\ f.app \in {All, r.app}
                                 /\ f.stage \in {AnyStage, r.stage} /\ f.code \in {All, r.code}
                                 /\ Bucket(r.at, Day) \in Axis(spec, shown.axis)
                                 /\ Bucket(r.at, Day) \in Axis(spec, shown.at)
        BY <1>1, <1>6 DEF InBuckets, Drawn, Matching, OfApp, Of
    <2> QED BY <1>2, <1>3, <1>7, <2>1, <2>2
<1> QED BY <1>5, <1>8 DEF L

\* The trend is empty only when there is nothing to draw, and its lines count
\* every row once.
LEMMA TrendTrue ==
    ASSUME shown.card = "trend", shown.at \in Nat, RowsOk(shown.snap, shown.at),
           NEW f \in Filters, f = shown.ask,
           shown.view = buildTrendChart(DeliveryDailyCounts(shown.snap, shown.at, f),
                                        f, shown.axis)
    PROVE  (shown.view.kind = "empty" => About = {}) /\ ChartsComplete
<1> DEFINE C == TrendRows(shown.snap, shown.at, f)
           nm == StageOf(C)
           series == SeriesOf(C, Day, nm)
           spec == DaySpec(f)
           axis == Axis(spec, shown.axis)
           defs == trendSeriesDefs(f)
           matched == {p \in series : p.bucket \in axis /\ p.name \in UNION defs}
           line(g) == [names |-> g,
                       counts |-> [b \in axis |-> Sum([s \in g |-> CountIn(series, s, b)])]]
<1>1. series = DeliveryDailyCounts(shown.snap, shown.at, f)
    BY TrendSeries
<1>2. /\ IsFiniteSet(C)
      /\ About = {r \in C : r.stage \in UNION defs /\ Bucket(r.at, Day) \in axis}
    BY TrendAbout
<1>3. \A r \in C : nm[r] = r.stage
    BY DEF StageOf
<1> HIDE DEF C, nm
<1>4. shown.view = IF matched = {} THEN Empty ELSE Data({line(g) : g \in defs})
    BY <1>1 DEF buildTrendChart
<1>5. ASSUME NEW r \in About PROVE matched # {}
    <2>1. r \in C /\ r.stage \in UNION defs /\ Bucket(r.at, Day) \in axis
        BY <1>2
    <2>2. /\ SeriesItem(C, Day, nm, r).name = r.stage
          /\ SeriesItem(C, Day, nm, r).bucket = Bucket(r.at, Day)
        BY <1>3, <2>1 DEF SeriesItem
    <2>3. SeriesItem(C, Day, nm, r) \in series
        BY <2>1 DEF SeriesOf
    <2> QED BY <2>1, <2>2, <2>3
<1>6. shown.view.kind = "empty" => About = {}
    <2> HIDE DEF matched
    <2> QED BY <1>4, <1>5, ViewKinds
<1>7. ASSUME NEW g \in defs, NEW b \in axis
      PROVE  line(g).counts[b] =
                 Cardinality({r \in About : r.stage \in g /\ Bucket(r.at, Day) = b})
    <2> DEFINE h == [s \in g |-> CountIn(series, s, b)]
    <2>1. DOMAIN h = g /\ \A s \in g : h[s] = CountIn(series, s, b)
        OBVIOUS
    <2>2. line(g).counts[b] = Sum(h)
        OBVIOUS
    <2>3. g \subseteq UNION defs
        OBVIOUS
    <2> HIDE DEF h, axis, line, defs
    <2>4. Sum(h) = Cardinality(LineRows(C, Day, nm, g, b))
        BY <1>2, <2>1, LineCount
    <2>5. LineRows(C, Day, nm, g, b) = {r \in About : r.stage \in g /\ Bucket(r.at, Day) = b}
        BY <1>2, <1>3, <1>7, <2>3 DEF LineRows
    <2> QED BY <2>2, <2>4, <2>5
<1>8. \A g : line(g).names = g
    OBVIOUS
<1>9. spec.unit = Day
    BY DEF DaySpec
<1> HIDE DEF line, axis, defs, matched, spec
<1>10. ASSUME HasData("trend") PROVE LinesExact(DaySpec(f), LAMBDA r : r.stage)
    <2>1. shown.view.data = {line(g) : g \in defs}
        BY <1>4, <1>10, ViewKinds DEF HasData
    <2>2. ASSUME NEW l \in shown.view.data, NEW b \in Axis(spec, shown.axis)
          PROVE  l.counts[b] = Cardinality({r \in About : r.stage \in l.names
                                                 /\ Bucket(r.at, spec.unit) = b})
        <3>1. PICK g \in defs : l = line(g)
            BY <2>1
        <3> QED BY <1>7, <1>8, <1>9, <3>1 DEF axis
    <2>3. LinesExact(spec, LAMBDA r : r.stage)
        BY <2>2 DEF LinesExact
    <2> QED BY <2>3 DEF spec
<1> QED BY <1>6, <1>10 DEF ChartsComplete, HasData

CodeOf(F) == [r \in F |-> r.code]

\* The slices count every failure once, and the codes share them out fairly.
LEMMA PieTrue ==
    ASSUME shown.card = "pie", shown.at \in Nat, RowsOk(shown.snap, shown.at),
           shown.view = buildFailurePie(Of(Rolling(shown.snap, shown.at, Day),
                                           deliveryFailureStages))
    PROVE  ChartsComplete
<1> DEFINE F == Of(Rolling(shown.snap, shown.at, Day), deliveryFailureStages)
           codes == {r.code : r \in F}
           total == [c \in codes |-> Cardinality({r \in F : r.code = c})]
           G == Folded(total, pieFoldAfter)
           slice(g) == [codes |-> g, count |-> Sum([c \in g |-> total[c]])]
<1>1. shown.view = IF codes = {} THEN Empty ELSE Data({slice(g) : g \in G})
    BY DEF buildFailurePie
<1>2. About = F
    <2>1. Rolling(shown.snap, shown.at, Day)
              = {r \in shown.snap : shown.at - r.at <= Day}
        BY DashAssumption, RollingIs
    <2> QED BY <2>1 DEF About
<1>3. F \in SUBSET shown.snap
    BY DEF Of, Rolling
<1> HIDE DEF F
<1>4. IsFiniteSet(F)
    BY <1>3, FS_Subset DEF RowsOk
<1>5. \A r \in F : CodeOf(F)[r] = r.code
    BY DEF CodeOf
<1>6. \A c : ClassOf(F, CodeOf(F), c) = {r \in F : r.code = c}
    BY <1>5 DEF ClassOf
<1>7. IsFiniteSet(codes)
    <2>1. codes = NamesIn(F, CodeOf(F))
        BY <1>5 DEF NamesIn
    <2> QED BY <1>4, <2>1, NamesFinite
<1>8. \A c \in codes : total[c] = Cardinality(ClassOf(F, CodeOf(F), c))
    BY <1>6
<1>9. ASSUME NEW c \in codes PROVE total[c] \in Nat
    <2>1. ClassOf(F, CodeOf(F), c) \in SUBSET F
        BY DEF ClassOf
    <2>2. Cardinality(ClassOf(F, CodeOf(F), c)) \in Nat
        BY <1>4, <2>1, FS_Subset, FS_CardinalityType
    <2> QED BY <1>8, <2>2
<1>10. DOMAIN total = codes /\ G = Folded(total, pieFoldAfter) /\ pieFoldAfter \in Nat
    BY DashAssumption
<1>11. FairGroups(G, total)
    <2> HIDE DEF codes, total, G
    <2> QED BY <1>7, <1>9, <1>10, FoldIsFair
<1>12. ASSUME NEW g \in G
       PROVE  slice(g).count = Cardinality({r \in F : r.code \in g})
    <2> DEFINE h == [c \in g |-> total[c]]
    <2>1. g \subseteq codes
        BY <1>10, <1>11 DEF FairGroups
    <2>2. DOMAIN h = g /\ \A c \in g : h[c] = Cardinality(ClassOf(F, CodeOf(F), c))
        BY <1>8, <2>1
    <2>3. slice(g).count = Sum(h)
        OBVIOUS
    <2> HIDE DEF h, codes, total, G, slice
    <2>4. Sum(h) = Cardinality(ClassesIn(F, CodeOf(F), g))
        BY <1>4, <2>2, SumOfCounts
    <2>5. ClassesIn(F, CodeOf(F), g) = {r \in F : r.code \in g}
        BY <1>5 DEF ClassesIn
    <2> QED BY <2>3, <2>4, <2>5
<1>13. \A g : slice(g).codes = g
    OBVIOUS
<1>14. \A c \in codes : total[c] = Cardinality({r \in About : r.code = c})
    BY <1>2
<1>15. codes = {r.code : r \in About}
    BY <1>2
<1> HIDE DEF slice, G, total, codes
<1>16. ASSUME HasData("pie") PROVE shown.view.data = {slice(g) : g \in G}
    BY <1>1, <1>16, ViewKinds DEF HasData
<1>17. ASSUME HasData("pie"), NEW p \in shown.view.data
       PROVE  p.count = Cardinality({r \in About : r.code \in p.codes})
    <2>1. PICK g \in G : p = slice(g)
        BY <1>16, <1>17
    <2> QED BY <1>2, <1>12, <1>13, <2>1
<1>18. ASSUME HasData("pie")
       PROVE  FairFold({p.codes : p \in shown.view.data}, {r.code : r \in About},
                       LAMBDA c : {r \in About : r.code = c})
    <2>1. {p.codes : p \in shown.view.data} = G
        BY <1>13, <1>16, <1>18
    <2>2. /\ UNION G = codes
          /\ \A g, h \in G : g # h => g \intersect h = {}
          /\ \A g, h \in G : Cardinality(g) = 1 /\ Cardinality(h) > 1 =>
                \A a \in g, b \in h : total[a] >= total[b]
        BY <1>10, <1>11 DEF FairGroups
    <2>3. ASSUME NEW g \in G, NEW h \in G, Cardinality(g) = 1, Cardinality(h) > 1,
                 NEW a \in g, NEW b \in h
          PROVE  Cardinality({r \in About : r.code = a}) >= Cardinality({r \in About : r.code = b})
        <3>1. a \in codes /\ b \in codes
            BY <2>2
        <3>2. total[a] >= total[b]
            BY <2>2, <2>3
        <3>3. /\ total[a] = Cardinality({r \in About : r.code = a})
              /\ total[b] = Cardinality({r \in About : r.code = b})
            BY <1>14, <3>1
        <3> QED BY <3>2, <3>3
    <2>4. UNION G = {r.code : r \in About} /\ \A g, h \in G : g # h => g \intersect h = {}
        BY <1>15, <2>2
    <2>5. FairFold(G, {r.code : r \in About}, LAMBDA c : {r \in About : r.code = c})
        BY <2>3, <2>4 DEF FairFold
    <2> QED BY <2>1, <2>5
<1> QED BY <1>17, <1>18 DEF ChartsComplete, HasData

-----------------------------------------------------------------------------
(* What the pages say. *)

\* The cards lose no row and count none twice, the folds are fair, every dot is
\* true, and a chart or a trend of one stage without data had nothing to draw:
\* for any log, clock skew, ranges, filters and limits.
THEOREM CardsAlwaysExact == DashSpec => []CardsExact
<1>1. ASSUME DashInv PROVE CardsExact
    <2>1. CASE shown = NoCard
        <3>1. shown.card = "none"
            BY <2>1 DEF NoCard
        <3> QED BY <3>1 DEF CardsExact, ChartsComplete, ChartNotesTrue, HasData, DotsTrue
    <2>2. CASE shown.view = Failed
        BY <2>2, ViewKinds DEF CardsExact, ChartsComplete, ChartNotesTrue, HasData, DotsTrue
    <2>3. CASE /\ shown.at \in Nat /\ shown.axis \in Int /\ RowsOk(shown.snap, shown.at)
               /\ CardView(shown.card, shown.view, shown.ask, shown.snap, shown.at, shown.axis)
        <3> USE <2>3
        <3>1. shown.card \notin {"chart", "trend", "pie"} => ChartsComplete
            BY DEF ChartsComplete, HasData
        <3>2. shown.card = "pie" => ChartsComplete
            BY PieTrue DEF CardView
        <3>3. shown.card = "chart" => ChartsComplete /\ ChartNotesTrue
            BY ChartTrue, ViewKinds DEF CardView, ChartNotesTrue
        <3>4. shown.card = "trend" => ChartsComplete /\ ChartNotesTrue
            BY TrendTrue, ViewKinds DEF CardView, ChartNotesTrue
        <3>7. shown.card \notin {"chart", "trend"} => ChartNotesTrue
            BY DEF ChartNotesTrue
        <3>5. shown.card = "strip" => DotsTrue
            BY StripTrue DEF CardView
        <3>6. shown.card # "strip" => DotsTrue
            BY DEF DotsTrue
        <3> QED BY <3>1, <3>2, <3>3, <3>4, <3>5, <3>6, <3>7 DEF CardsExact
    <2> QED BY <1>1, <2>1, <2>2, <2>3 DEF DashInv, ShownOk
<1> QED BY DashAlways, <1>1, PTL
=============================================================================
