--------------------------- MODULE AppKeysProofs ---------------------------
(***************************************************************************)
(* For any sessions, apps, capabilities, PATCH bodies and bounds: the      *)
(* identity of a request is one committed version, a version names one     *)
(* capability set, a bearer dies with its key, management capabilities do  *)
(* not spread, and a PATCH takes effect.                                   *)
(*                                                                         *)
(* Every step is the step of one session. The argument has three parts:    *)
(* what a step may do to the tables and the locks (Moves), that the step   *)
(* keeps what holds of the tables and of its own session, and that what    *)
(* holds of another session survives whatever a step may do (OthersKeep).  *)
(***************************************************************************)
EXTENDS AppKeys, FiniteSetTheorems, TLAPS

IsApp(r) ==
    /\ r = [live |-> r.live, active |-> r.active, ver |-> r.ver, gen |-> r.gen]
    /\ r.live \in BOOLEAN /\ r.ver \in Nat /\ r.gen \in Nat

IsKey(k) ==
    /\ k = [id |-> k.id, app |-> k.app, gen |-> k.gen, prefix |-> k.prefix,
            revoked |-> k.revoked]
    /\ k.id \in Nat /\ k.app \in Apps

IsIdent(i) == i = [app |-> i.app, gen |-> i.gen, ver |-> i.ver, caps |-> i.caps, key |-> i.key]

\* The variables are functions on their index sets.
TableTypes ==
    /\ apps = [a \in Apps |-> apps[a]] /\ \A a \in Apps : IsApp(apps[a])
    /\ caps = [a \in Apps |-> caps[a]] /\ lock = [a \in Apps |-> lock[a]]

SessionTypes ==
    /\ pc = [s \in Sessions |-> pc[s]] /\ req = [s \in Sessions |-> req[s]]
    /\ pending = [s \in Sessions |-> pending[s]] /\ view = [s \in Sessions |-> view[s]]
    /\ ident = [s \in Sessions |-> ident[s]] /\ \A s \in Sessions : IsIdent(ident[s])
    /\ ans = [s \in Sessions |-> ans[s]]

\* The committed state of every app that exists is in the history, and nothing
\* in the history is newer; a purged app has no capabilities and no lock.
AppsRecorded ==
    /\ \A a \in Apps : IF Live(a) THEN Record(a, apps[a], caps[a]) \in hist
                                  ELSE caps[a] = {} /\ lock[a] = Nobody
    /\ \A h \in hist :
          /\ h.app \in Apps /\ h.gen \in Nat /\ h.ver \in Nat /\ h.gen <= apps[h.app].gen
          /\ h.gen = apps[h.app].gen => h.ver <= apps[h.app].ver

\* A key belongs to the incarnation of its app that exists now; ids are unique.
KeysIssued ==
    /\ IsFiniteSet(issued)
    /\ \A b \in issued : b.id \in 1..Cardinality(issued)
    /\ \A b, c \in issued : b.id = c.id => b = c
    /\ \A k \in keys :
          /\ IsKey(k) /\ Live(k.app) /\ k.gen = apps[k.app].gen
          /\ \E b \in issued : b.id = k.id /\ b.gen = k.gen

\* A session that waits for a request holds no lock; answers are fresh.
AtRest(s) ==
    /\ pc[s] = "idle" => \A a \in Apps : lock[a] # s
    /\ pc[s] # "answer" => ans[s] = "none"

\* The PATCH of s was validated; from the FOR UPDATE on, s has the row lock of
\* the app its request was made for, if that still exists, so the deletions it
\* has computed still are the right ones at COMMIT.
PatchSound(s) ==
    LET r == req[s]
        same == apps[r.app].live /\ apps[r.app].gen = r.gen IN
    /\ pc[s] \in {"lock", "write", "commit", "insert"} =>
          r.app \in Apps /\ r.gen \in Nat /\ r.gen <= apps[r.app].gen
    /\ pc[s] \in {"lock", "write", "commit"} => r.add \intersect MgmtCaps = {}
    /\ pc[s] \in {"write", "commit"} /\ same => lock[r.app] = s
    /\ pc[s] = "commit" =>
          /\ pending[s].ins = r.add \ r.rem /\ pending[s].del \subseteq r.rem
          /\ same => pending[s].del = r.rem \intersect (caps[r.app] \union r.add)

\* What Resolve has read, and will read, is one committed version; the key was
\* good when it began.
IdentitySound(s) ==
    LET i == ident[s] IN
    /\ pc[s] = "caps" =>
          [app |-> i.app, gen |-> i.gen, ver |-> i.ver, caps |-> view[s].caps[i.app]] \in hist
    /\ pc[s] \in {"gate", "handle"} =>
          [app |-> i.app, gen |-> i.gen, ver |-> i.ver, caps |-> i.caps] \in hist
    /\ pc[s] \in {"caps", "gate", "handle"} =>
          /\ i.key \in 1..Cardinality(issued) /\ i.key \notin view[s].dead
          /\ \A k \in issued : k.id = i.key => k.gen = i.gen

TablesInv == AppsRecorded /\ VersionNamesOneSet /\ NoEscalation /\ KeysIssued

SessionInv(s) == AtRest(s) /\ PatchSound(s) /\ IdentitySound(s)

KeysInv == TableTypes /\ SessionTypes /\ TablesInv /\ \A s \in Sessions : SessionInv(s)

-----------------------------------------------------------------------------
(* A step of session s, seen from another session. *)

\* The tables only move forward, an app that comes back is a new incarnation,
\* and what another session has locked stays as it is.
TablesMove(s) ==
    /\ hist \subseteq hist'
    /\ \A a \in Apps :
          /\ apps'[a].gen \in Nat /\ apps[a].gen <= apps'[a].gen
          /\ apps'[a].live => apps[a].live \/ apps[a].gen < apps'[a].gen
          /\ lock'[a] \in {lock[a], s, Nobody}
          /\ lock[a] \notin {s, Nobody} => lock'[a] = lock[a] /\ caps'[a] = caps[a]
    /\ Cardinality(issued) \in Nat /\ Cardinality(issued') \in Nat
    /\ Cardinality(issued) <= Cardinality(issued')
    /\ \A k \in issued' : k \in issued \/ k.id = Cardinality(issued) + 1

\* The session variables of every other session stay.
Frame(s) ==
    \A t \in Sessions \ {s} :
        /\ pc'[t] = pc[t] /\ req'[t] = req[t] /\ pending'[t] = pending[t]
        /\ view'[t] = view[t] /\ ident'[t] = ident[t] /\ ans'[t] = ans[t]

\* What another session does keeps this session's part of the invariant.
LEMMA OthersKeep ==
    ASSUME KeysInv, NEW s \in Sessions, NEW t \in Sessions \ {s}, TablesMove(s), Frame(s)
    PROVE  SessionInv(t)'
<1>1. /\ pc'[t] = pc[t] /\ req'[t] = req[t] /\ pending'[t] = pending[t]
      /\ view'[t] = view[t] /\ ident'[t] = ident[t] /\ ans'[t] = ans[t]
    BY DEF Frame
<1>2. AtRest(t) /\ PatchSound(t) /\ IdentitySound(t) /\ TableTypes /\ t # s /\ t # Nobody
    BY AppKeysAssumption DEF KeysInv, SessionInv
<1>3. AtRest(t)'
    BY <1>1, <1>2 DEF AtRest, TablesMove
<1>4. PatchSound(t)'
    <2>1. PICK r : r = req[t]
        OBVIOUS
    <2>2. pc[t] \in {"lock", "write", "commit", "insert"} =>
              /\ r.app \in Apps /\ r.gen \in Nat /\ r.gen <= apps[r.app].gen
              /\ r.gen <= apps'[r.app].gen /\ apps[r.app].gen \in Nat
              /\ apps'[r.app].gen \in Nat /\ apps[r.app].gen <= apps'[r.app].gen
        BY <1>2, <2>1 DEF PatchSound, TablesMove, TableTypes, IsApp
    <2>3. /\ pc[t] \in {"write", "commit"}
          /\ apps'[r.app].live /\ apps'[r.app].gen = r.gen
          => /\ apps[r.app].live /\ apps[r.app].gen = r.gen
             /\ lock[r.app] = t /\ lock'[r.app] = t /\ caps'[r.app] = caps[r.app]
        BY <1>2, <2>1, <2>2 DEF PatchSound, TablesMove
    <2> QED BY <1>1, <1>2, <2>1, <2>2, <2>3 DEF PatchSound
<1>5. IdentitySound(t)'
    <2>1. pc[t] \in {"caps", "gate", "handle"} =>
              /\ ident[t].key \in 1..Cardinality(issued')
              /\ \A k \in issued' : k.id = ident[t].key => k.gen = ident[t].gen
        BY <1>2 DEF IdentitySound, TablesMove
    <2> QED BY <1>1, <1>2, <2>1 DEF IdentitySound, TablesMove
<1> QED BY <1>3, <1>4, <1>5 DEF SessionInv

\* A step whose tables and locks stay as they are.
LEMMA TablesStay ==
    ASSUME KeysInv, NEW s \in Sessions, UNCHANGED <<tables, lock>>
    PROVE  TableTypes' /\ TablesInv' /\ TablesMove(s)
<1>1. UNCHANGED <<apps, caps, keys, issued, hist, lock>>
    BY DEF tables
<1>2. TablesInv'
    BY <1>1 DEF KeysInv, TablesInv, AppsRecorded, VersionNamesOneSet, NoEscalation, KeysIssued, Live
<1>3. \A a \in Apps : apps[a].gen \in Nat
    BY DEF KeysInv, TableTypes, IsApp
<1>4. Cardinality(issued) \in Nat
    BY FS_CardinalityType DEF KeysInv, TablesInv, KeysIssued
<1>5. TablesMove(s)
    BY <1>1, <1>3, <1>4 DEF TablesMove
<1>6. TableTypes'
    BY <1>1 DEF KeysInv, TableTypes
<1> QED BY <1>2, <1>5, <1>6

\* What is left to show of a step of s.
LEMMA Combine ==
    ASSUME KeysInv, NEW s \in Sessions, TableTypes', SessionTypes', TablesInv', TablesMove(s),
           Frame(s), SessionInv(s)'
    PROVE  KeysInv'
<1>1. \A t \in Sessions \ {s} : SessionInv(t)'
    BY OthersKeep
<1> QED BY <1>1 DEF KeysInv

\* A session that answers has nothing left to keep.
LEMMA Answers ==
    ASSUME KeysInv, NEW s \in Sessions, NEW c, Answer(s, c), UNCHANGED <<req, pending, view, ident>>
    PROVE  SessionTypes' /\ Frame(s) /\ SessionInv(s)'
<1>1. pc'[s] = "answer" /\ pc' = [t \in Sessions |-> pc'[t]] /\ ans' = [t \in Sessions |-> ans'[t]]
    BY DEF Answer, Goto, KeysInv, SessionTypes
<1>2. SessionTypes'
    BY <1>1 DEF KeysInv, SessionTypes
<1>3. Frame(s)
    BY DEF Answer, Goto, KeysInv, SessionTypes, Frame
<1>4. SessionInv(s)'
    BY <1>1 DEF SessionInv, AtRest, PatchSound, IdentitySound
<1> QED BY <1>2, <1>3, <1>4

\* An answer that changes no table.
LEMMA Refuses ==
    ASSUME KeysInv, NEW s \in Sessions, NEW c, Answer(s, c),
           UNCHANGED <<tables, lock, req, pending, view, ident>>
    PROVE  KeysInv'
    BY Answers, TablesStay, Combine

-----------------------------------------------------------------------------
(* What the transactions do to the tables. *)

\* The locks of s may be released.
LocksMove(s) ==
    /\ lock' = [b \in Apps |-> lock'[b]]
    /\ \A b \in Apps : lock'[b] = lock[b] \/ (lock[b] = s /\ lock'[b] = Nobody)

\* A step that takes no lock and frees none leaves every lock as it is.
LEMMA LocksStay ==
    ASSUME TableTypes, UNCHANGED lock, NEW s
    PROVE  LocksMove(s)
<1>1. lock = [b \in Apps |-> lock[b]]
    BY DEF TableTypes
<1>2. lock' = [b \in Apps |-> lock'[b]]
    BY <1>1
<1>3. \A b \in Apps : lock'[b] = lock[b]
    OBVIOUS
<1> QED BY <1>2, <1>3 DEF LocksMove

\* An UPDATE of active and the version.
LEMMA Updated ==
    ASSUME NEW r, IsApp(r), NEW x, NEW v \in Nat, NEW q,
           q = [live |-> r.live, active |-> x, ver |-> v, gen |-> r.gen]
    PROVE  IsApp(q) /\ q.live = r.live /\ q.gen = r.gen /\ q.ver = v
    BY DEF IsApp

\* A new version, the same version with the same capabilities, or a new
\* incarnation.
Follows(a, app, cs) ==
    \/ apps[a].live /\ app.gen = apps[a].gen /\ app.ver = apps[a].ver + 1
    \/ apps[a].live /\ app.gen = apps[a].gen /\ app.ver = apps[a].ver /\ cs = caps[a]
    \/ ~apps[a].live /\ app.gen = apps[a].gen + 1

\* A committed app row that continues its history keeps the tables' part.
LEMMA CommitKeeps ==
    ASSUME KeysInv, NEW s \in Sessions, NEW a \in Apps, NEW app, NEW cs, Commit(a, app, cs),
           LocksMove(s), UNCHANGED <<keys, issued>>,
           IsApp(app), app.live, Follows(a, app, cs),
           app.gen > 0 => cs \intersect MgmtCaps = {},
           lock[a] \in {s, Nobody} \/ cs = caps[a]
    PROVE  TableTypes' /\ TablesInv' /\ TablesMove(s)
<1> USE DEF KeysInv, TablesInv
<1>1. /\ apps' = [b \in Apps |-> apps'[b]] /\ caps' = [b \in Apps |-> caps'[b]]
      /\ apps'[a] = app /\ caps'[a] = cs
      /\ \A b \in Apps \ {a} : apps'[b] = apps[b] /\ caps'[b] = caps[b]
    BY DEF Commit, TableTypes
<1>2. PICK r : r = [app |-> a, gen |-> app.gen, ver |-> app.ver, caps |-> cs]
    OBVIOUS
<1>3. hist' = hist \union {r} /\ r.app = a /\ r.gen = app.gen /\ r.ver = app.ver /\ r.caps = cs
    BY <1>2 DEF Commit, Record
<1>4. app.gen \in Nat /\ app.ver \in Nat
    BY DEF IsApp
<1>5. \A b \in Apps : apps[b].gen \in Nat /\ apps[b].ver \in Nat
    BY DEF TableTypes, IsApp
<1>6. TableTypes'
    BY <1>1 DEF TableTypes, LocksMove
<1>7. AppsRecorded'
    <2>1. \A b \in Apps : IF apps'[b].live THEN Record(b, apps'[b], caps'[b]) \in hist'
                                           ELSE caps'[b] = {} /\ lock'[b] = Nobody
        <3> SUFFICES ASSUME NEW b \in Apps
                     PROVE  IF apps'[b].live THEN Record(b, apps'[b], caps'[b]) \in hist'
                                             ELSE caps'[b] = {} /\ lock'[b] = Nobody
            OBVIOUS
        <3>1. CASE b = a
            <4>1. apps'[b] = app /\ caps'[b] = cs
                BY <1>1, <3>1
            <4>2. Record(b, apps'[b], caps'[b]) = r
                BY <1>2, <3>1, <4>1 DEF Record
            <4> QED BY <1>3, <4>1, <4>2
        <3>2. CASE b # a
            <4>1. apps'[b] = apps[b] /\ caps'[b] = caps[b]
                BY <1>1, <3>2
            <4>2. lock[b] = Nobody => lock'[b] = Nobody
                BY DEF LocksMove
            <4> QED BY <1>3, <4>1, <4>2 DEF AppsRecorded, Live
        <3> QED BY <3>1, <3>2
    <2>2. \A h \in hist' :
              /\ h.app \in Apps /\ h.gen \in Nat /\ h.ver \in Nat /\ h.gen <= apps'[h.app].gen
              /\ h.gen = apps'[h.app].gen => h.ver <= apps'[h.app].ver
        <3> SUFFICES ASSUME NEW h \in hist'
                     PROVE  /\ h.app \in Apps /\ h.gen \in Nat /\ h.ver \in Nat
                            /\ h.gen <= apps'[h.app].gen
                            /\ h.gen = apps'[h.app].gen => h.ver <= apps'[h.app].ver
            OBVIOUS
        <3>1. CASE h = r
            BY <1>1, <1>3, <1>4, <3>1
        <3>2. CASE h \in hist /\ h.app # a
            BY <1>1, <3>2 DEF AppsRecorded
        <3>3. CASE h \in hist /\ h.app = a
            <4>1. /\ h.gen \in Nat /\ h.ver \in Nat /\ h.gen <= apps[a].gen
                  /\ h.gen = apps[a].gen => h.ver <= apps[a].ver
                BY <3>3 DEF AppsRecorded
            <4> QED BY <1>1, <1>4, <1>5, <3>3, <4>1 DEF Follows
        <3> QED BY <1>3, <3>1, <3>2, <3>3
    <2> QED BY <2>1, <2>2 DEF AppsRecorded, Live
<1>8. VersionNamesOneSet'
    <2>1. \A h \in hist : h.app = a /\ h.gen = app.gen /\ h.ver = app.ver => h.caps = cs
        <3> SUFFICES ASSUME NEW h \in hist, h.app = a, h.gen = app.gen, h.ver = app.ver
                     PROVE  h.caps = cs
            OBVIOUS
        <3>1. h.gen <= apps[a].gen /\ (h.gen = apps[a].gen => h.ver <= apps[a].ver)
            BY DEF AppsRecorded
        <3>2. apps[a].live /\ app.gen = apps[a].gen /\ app.ver = apps[a].ver /\ cs = caps[a]
            BY <1>4, <1>5, <3>1 DEF Follows
        <3>3. PICK q : q = Record(a, apps[a], caps[a])
            OBVIOUS
        <3>4. q \in hist /\ q.app = a /\ q.gen = apps[a].gen /\ q.ver = apps[a].ver /\ q.caps = caps[a]
            BY <3>2, <3>3 DEF AppsRecorded, Live, Record
        <3> QED BY <3>2, <3>4 DEF VersionNamesOneSet
    <2> QED BY <1>3, <2>1 DEF VersionNamesOneSet
<1>9. NoEscalation'
    BY <1>1 DEF NoEscalation
<1>10. KeysIssued'
    <2>1. \A k \in keys : IsKey(k) /\ apps'[k.app].live /\ k.gen = apps'[k.app].gen
        BY <1>1 DEF KeysIssued, Live, IsKey, Follows
    <2> QED BY <2>1 DEF KeysIssued, Live
<1>11. TablesMove(s)
    <2>1. Cardinality(issued) \in Nat
        BY FS_CardinalityType DEF KeysIssued
    <2>2. \A b \in Apps : /\ apps'[b].gen \in Nat /\ apps[b].gen <= apps'[b].gen
                          /\ apps'[b].live => apps[b].live \/ apps[b].gen < apps'[b].gen
        BY <1>1, <1>4, <1>5 DEF Follows
    <2>3. \A b \in Apps : /\ lock'[b] \in {lock[b], s, Nobody}
                          /\ lock[b] \notin {s, Nobody} => lock'[b] = lock[b] /\ caps'[b] = caps[b]
        BY <1>1 DEF LocksMove
    <2>4. /\ hist \subseteq hist' /\ Cardinality(issued') = Cardinality(issued)
          /\ \A k \in issued' : k \in issued
        BY <1>3
    <2>5. Cardinality(issued) <= Cardinality(issued')
        BY <2>1, <2>4
    <2>6. \A k \in issued' : k \in issued \/ k.id = Cardinality(issued) + 1
        BY <2>4
    <2> QED BY <2>1, <2>2, <2>3, <2>4, <2>5, <2>6 DEF TablesMove
<1> QED BY <1>6, <1>7, <1>8, <1>9, <1>10, <1>11

\* A purge ends an incarnation and its keys.
LEMMA PurgeMoves ==
    ASSUME KeysInv, NEW s \in Sessions, NEW a \in Apps, Cascade(a), Live(a), lock[a] = Nobody,
           UNCHANGED <<issued, hist, lock>>
    PROVE  TableTypes' /\ TablesInv' /\ TablesMove(s)
<1> USE DEF KeysInv, TablesInv
<1>1. /\ apps' = [b \in Apps |-> apps'[b]] /\ caps' = [b \in Apps |-> caps'[b]]
      /\ apps'[a] = [apps[a] EXCEPT !.live = FALSE] /\ caps'[a] = {}
      /\ \A b \in Apps \ {a} : apps'[b] = apps[b] /\ caps'[b] = caps[b]
      /\ keys' = {k \in keys : k.app # a}
    BY DEF Cascade, Purged, TableTypes
<1>2. /\ IsApp(apps'[a]) /\ apps'[a].live = FALSE /\ apps'[a].gen = apps[a].gen
      /\ apps'[a].ver = apps[a].ver
    BY <1>1 DEF TableTypes, IsApp
<1>3. \A b \in Apps : apps[b].gen \in Nat /\ apps[b].ver \in Nat
    BY DEF TableTypes, IsApp
<1>4. TableTypes'
    BY <1>1, <1>2 DEF TableTypes
<1>5. \A b \in Apps : apps'[b].gen = apps[b].gen /\ apps'[b].ver = apps[b].ver
    BY <1>1, <1>2
<1>6. AppsRecorded'
    <2>1. \A b \in Apps : IF apps'[b].live THEN Record(b, apps'[b], caps'[b]) \in hist
                                           ELSE caps'[b] = {} /\ lock[b] = Nobody
        BY <1>1, <1>2 DEF AppsRecorded, Live
    <2> QED BY <1>5, <2>1 DEF AppsRecorded, Live
<1>7. VersionNamesOneSet' /\ NoEscalation'
    BY <1>1, <1>5 DEF VersionNamesOneSet, NoEscalation
<1>8. KeysIssued'
    <2>1. \A k \in keys' : k \in keys /\ IsKey(k) /\ apps'[k.app].live /\ k.gen = apps'[k.app].gen
        BY <1>1, <1>5 DEF KeysIssued, Live, IsKey
    <2> QED BY <2>1 DEF KeysIssued, Live
<1>9. TablesMove(s)
    <2>1. Cardinality(issued) \in Nat
        BY FS_CardinalityType DEF KeysIssued
    <2>2. \A b \in Apps : apps'[b].live => apps[b].live
        BY <1>1, <1>2
    <2>3. \A b \in Apps : lock[b] # Nobody => caps'[b] = caps[b]
        BY <1>1
    <2> QED BY <1>3, <1>5, <2>1, <2>2, <2>3 DEF TablesMove
<1> QED BY <1>4, <1>6, <1>7, <1>8, <1>9

\* An inserted key is new and of the current incarnation.
LEMMA InsertMoves ==
    ASSUME KeysInv, NEW s \in Sessions, NEW k, IsKey(k), Live(k.app), k.gen = apps[k.app].gen,
           k.id = Cardinality(issued) + 1,
           keys' = keys \union {k}, issued' = issued \union {k},
           UNCHANGED <<apps, caps, hist, lock>>
    PROVE  TableTypes' /\ TablesInv' /\ TablesMove(s)
<1> USE DEF KeysInv, TablesInv
<1>1. IsFiniteSet(issued) /\ Cardinality(issued) \in Nat
    BY FS_CardinalityType DEF KeysIssued
<1>2. k \notin issued
    BY <1>1 DEF KeysIssued
<1>3. IsFiniteSet(issued') /\ Cardinality(issued') = Cardinality(issued) + 1
    BY <1>1, <1>2, FS_AddElement
<1>4. TableTypes' /\ AppsRecorded' /\ VersionNamesOneSet' /\ NoEscalation'
    BY DEF TableTypes, AppsRecorded, VersionNamesOneSet, NoEscalation, Live
<1>5. KeysIssued'
    <2>1. \A b \in issued' : b.id \in 1..Cardinality(issued')
        BY <1>1, <1>3 DEF KeysIssued
    <2>2. \A b, c \in issued' : b.id = c.id => b = c
        BY <1>1 DEF KeysIssued
    <2>3. \A j \in keys' :
              /\ IsKey(j) /\ apps[j.app].live /\ j.gen = apps[j.app].gen
              /\ \E b \in issued' : b.id = j.id /\ b.gen = j.gen
        BY DEF KeysIssued, Live
    <2> QED BY <1>3, <2>1, <2>2, <2>3 DEF KeysIssued, Live
<1>6. TablesMove(s)
    <2>1. \A b \in Apps : apps[b].gen \in Nat
        BY DEF TableTypes, IsApp
    <2> QED BY <1>1, <1>3, <2>1 DEF TablesMove
<1> QED BY <1>4, <1>5, <1>6

\* A revoked key leaves the valid ones.
LEMMA RevokeMoves ==
    ASSUME KeysInv, NEW s \in Sessions, NEW hit \in SUBSET keys,
           keys' = (keys \ hit) \union {[k EXCEPT !.revoked = TRUE] : k \in hit},
           UNCHANGED <<apps, caps, issued, hist, lock>>
    PROVE  TableTypes' /\ TablesInv' /\ TablesMove(s)
<1> USE DEF KeysInv, TablesInv
<1>1. TableTypes' /\ AppsRecorded' /\ VersionNamesOneSet' /\ NoEscalation'
    BY DEF TableTypes, AppsRecorded, VersionNamesOneSet, NoEscalation, Live
<1>2. \A j \in keys' : \E k \in keys : j = k \/ j = [k EXCEPT !.revoked = TRUE]
    OBVIOUS
<1>3. \A j \in keys' : IsKey(j) /\ \E k \in keys : j.id = k.id /\ j.app = k.app /\ j.gen = k.gen
    <2> SUFFICES ASSUME NEW j \in keys'
                 PROVE  IsKey(j) /\ \E k \in keys : j.id = k.id /\ j.app = k.app /\ j.gen = k.gen
        OBVIOUS
    <2>1. PICK k \in keys : j = k \/ j = [k EXCEPT !.revoked = TRUE]
        BY <1>2
    <2>2. IsKey(k)
        BY DEF KeysIssued
    <2>3. IsKey(j) /\ j.id = k.id /\ j.app = k.app /\ j.gen = k.gen
        BY <2>1, <2>2 DEF IsKey
    <2> QED BY <2>3
<1>4. KeysIssued'
    BY <1>3 DEF KeysIssued, Live
<1>5. TablesMove(s)
    <2>1. \A b \in Apps : apps[b].gen \in Nat
        BY DEF TableTypes, IsApp
    <2>2. Cardinality(issued) \in Nat
        BY FS_CardinalityType DEF KeysIssued
    <2> QED BY <2>1, <2>2 DEF TablesMove
<1> QED BY <1>1, <1>4, <1>5

\* A step that at most releases locks.
LEMMA LocksReleased ==
    ASSUME KeysInv, NEW s \in Sessions, LocksMove(s), UNCHANGED <<apps, caps, keys, issued, hist>>
    PROVE  TableTypes' /\ TablesInv' /\ TablesMove(s)
<1> USE DEF KeysInv, TablesInv
<1>1. TableTypes'
    BY DEF TableTypes, LocksMove
<1>2. AppsRecorded'
    <2>1. \A b \in Apps : lock[b] = Nobody => lock'[b] = Nobody
        BY DEF LocksMove
    <2> QED BY <2>1 DEF AppsRecorded, Live
<1>3. VersionNamesOneSet' /\ NoEscalation' /\ KeysIssued'
    BY DEF VersionNamesOneSet, NoEscalation, KeysIssued, Live
<1>4. TablesMove(s)
    <2>1. \A b \in Apps : apps[b].gen \in Nat
        BY DEF TableTypes, IsApp
    <2>2. Cardinality(issued) \in Nat
        BY FS_CardinalityType DEF KeysIssued
    <2>3. \A b \in Apps : /\ lock'[b] \in {lock[b], s, Nobody}
                          /\ lock[b] \notin {s, Nobody} => lock'[b] = lock[b]
        BY DEF LocksMove
    <2> QED BY <2>1, <2>2, <2>3 DEF TablesMove
<1> QED BY <1>1, <1>2, <1>3, <1>4

-----------------------------------------------------------------------------
(* The admin handlers. *)

\* validateCapabilityGrant lets no management capability pass.
LEMMA Validated ==
    ASSUME NEW cs, validateCapabilityGrant(cs) = ""
    PROVE  cs \intersect MgmtCaps = {}
    BY DEF validateCapabilityGrant

\* Create starts an incarnation at version 1.
LEMMA CreateKeeps ==
    ASSUME KeysInv, NEW s \in Sessions, NEW a \in Apps, NEW cs, Create(s, a, cs)
    PROVE  KeysInv'
<1>1. UNCHANGED <<keys, issued, lock, req, pending, view, ident>>
    BY DEF Create
<1>2. CASE validateCapabilityGrant(cs) # "" \/ Live(a)
    <2>1. UNCHANGED <<apps, caps, hist>> /\ \E c : Answer(s, c)
        BY <1>2 DEF Create
    <2> QED BY <1>1, <2>1, Refuses DEF tables
<1>3. CASE validateCapabilityGrant(cs) = "" /\ ~Live(a)
    <2>1. PICK app : app = [live |-> TRUE, active |-> TRUE, ver |-> 1, gen |-> apps[a].gen + 1]
        OBVIOUS
    <2>2. PICK new : new = caps[a] \union cs
        OBVIOUS
    <2>3. Commit(a, app, new) /\ Answer(s, "created")
        BY <1>3, <2>1, <2>2 DEF Create
    <2>4. apps[a].gen \in Nat /\ caps[a] = {} /\ lock[a] = Nobody
        BY <1>3 DEF KeysInv, TableTypes, IsApp, TablesInv, AppsRecorded
    <2>5. IsApp(app) /\ app.live /\ app.gen = apps[a].gen + 1
        BY <2>1, <2>4 DEF IsApp
    <2>6. Follows(a, app, new)
        BY <1>3, <2>5 DEF Follows, Live
    <2>7. new \intersect MgmtCaps = {}
        BY <1>3, <2>2, <2>4, Validated
    <2>8. LocksMove(s)
        BY <1>1, LocksStay DEF KeysInv
    <2>9. TableTypes' /\ TablesInv' /\ TablesMove(s)
        BY <1>1, <2>3, <2>4, <2>5, <2>6, <2>7, <2>8, CommitKeeps
    <2>10. SessionTypes' /\ Frame(s) /\ SessionInv(s)'
        BY <1>1, <2>3, Answers
    <2> QED BY <2>9, <2>10, Combine
<1> QED BY <1>2, <1>3

\* Delete only makes the app inactive.
LEMMA DeleteKeeps ==
    ASSUME KeysInv, NEW s \in Sessions, NEW a \in Apps, Delete(s, a)
    PROVE  KeysInv'
<1>1. UNCHANGED <<keys, issued, lock, req, pending, view, ident>>
    BY DEF Delete
<1>2. CASE Answer(s, "app_not_found") /\ UNCHANGED <<apps, caps, hist>>
    BY <1>1, <1>2, Refuses DEF tables
<1>3. CASE /\ Live(a) /\ MayLock(s, a) /\ Answer(s, "deleted")
           /\ Commit(a, [apps[a] EXCEPT !.active = FALSE, !.ver = @ + 1], caps[a])
    <2>1. PICK app, new : /\ app = [apps[a] EXCEPT !.active = FALSE, !.ver = apps[a].ver + 1]
                          /\ new = caps[a]
        OBVIOUS
    <2>2. IsApp(apps[a]) /\ apps[a].live /\ apps[a].ver + 1 \in Nat
        BY <1>3 DEF KeysInv, TableTypes, Live, IsApp
    <2>9. IsApp(app) /\ app.live = apps[a].live /\ app.gen = apps[a].gen /\ app.ver = apps[a].ver + 1
        <3>1. PICK r, v : r = apps[a] /\ v = apps[a].ver + 1
            OBVIOUS
        <3>2. r = [live |-> r.live, active |-> r.active, ver |-> r.ver, gen |-> r.gen]
            BY <2>2, <3>1 DEF IsApp
        <3>3. app = [live |-> r.live, active |-> FALSE, ver |-> v, gen |-> r.gen]
            BY <2>1, <3>1, <3>2
        <3> QED BY <2>2, <3>1, <3>3, Updated
    <2>3. IsApp(app) /\ app.live /\ app.gen = apps[a].gen /\ app.ver = apps[a].ver + 1
        BY <2>2, <2>9
    <2>4. Commit(a, app, new) /\ Follows(a, app, new)
        BY <1>3, <2>1, <2>2, <2>3 DEF Follows
    <2>5. app.gen > 0 => new \intersect MgmtCaps = {}
        BY <2>1, <2>3 DEF KeysInv, TablesInv, NoEscalation
    <2>6. LocksMove(s) /\ lock[a] \in {s, Nobody}
        BY <1>1, <1>3, LocksStay DEF KeysInv, MayLock
    <2>7. TableTypes' /\ TablesInv' /\ TablesMove(s)
        BY <1>1, <2>3, <2>4, <2>5, <2>6, CommitKeeps
    <2>8. SessionTypes' /\ Frame(s) /\ SessionInv(s)'
        BY <1>1, <1>3, Answers
    <2> QED BY <2>7, <2>8, Combine
<1> QED BY <1>2, <1>3 DEF Delete

\* Purge keeps the invariant, whoever is at work on the app.
LEMMA PurgeKeeps ==
    ASSUME KeysInv, NEW s \in Sessions, NEW a \in Apps, Purge(s, a)
    PROVE  KeysInv'
<1>1. UNCHANGED <<issued, hist, lock, req, pending, view, ident>> /\ pc[s] = "idle"
    BY DEF Purge
<1>2. CASE Answer(s, "app_not_found") /\ UNCHANGED <<apps, caps, keys>>
    BY <1>1, <1>2, Refuses DEF tables
<1>3. CASE Live(a) /\ MayLock(s, a) /\ Cascade(a) /\ Answer(s, "purged")
    <2>1. lock[a] = Nobody
        BY <1>1, <1>3 DEF KeysInv, SessionInv, AtRest, MayLock
    <2>2. TableTypes' /\ TablesInv' /\ TablesMove(s)
        BY <1>1, <1>3, <2>1, PurgeMoves
    <2>3. SessionTypes' /\ Frame(s) /\ SessionInv(s)'
        BY <1>1, <1>3, Answers
    <2> QED BY <2>2, <2>3, Combine
<1> QED BY <1>2, <1>3 DEF Purge

\* Patch begins with a check that locks nothing.
LEMMA PatchKeeps ==
    ASSUME KeysInv, NEW s \in Sessions, NEW a \in Apps, NEW body, Patch(s, a, body)
    PROVE  KeysInv'
<1>1. UNCHANGED <<tables, lock, pending, view, ident>> /\ pc[s] = "idle"
    BY DEF Patch
<1>2. CASE validateCapabilityGrant(body.add) # "" \/ ~Live(a)
    <2>1. UNCHANGED req /\ \E c : Answer(s, c)
        BY <1>2 DEF Patch
    <2> QED BY <1>1, <2>1, Refuses
<1>3. CASE validateCapabilityGrant(body.add) = "" /\ Live(a)
    <2>1. PICK r : r = [NoRequest EXCEPT !.app = a, !.gen = apps[a].gen, !.add = body.add,
                                         !.rem = body.rem, !.active = body.active]
        OBVIOUS
    <2>2. r.app = a /\ r.gen = apps[a].gen /\ r.add = body.add
        BY <2>1 DEF NoRequest
    <2>3. req' = [req EXCEPT ![s] = r] /\ Goto(s, "lock") /\ UNCHANGED ans
        BY <1>3, <2>1 DEF Patch
    <2>4. TableTypes' /\ TablesInv' /\ TablesMove(s)
        BY <1>1, TablesStay
    <2>5. /\ pc'[s] = "lock" /\ req'[s] = r
          /\ pc' = [t \in Sessions |-> pc'[t]] /\ req' = [t \in Sessions |-> req'[t]]
        BY <2>3 DEF Goto, KeysInv, SessionTypes
    <2>6. SessionTypes'
        BY <1>1, <2>3, <2>5 DEF KeysInv, SessionTypes
    <2>7. Frame(s)
        BY <1>1, <2>3 DEF Goto, KeysInv, SessionTypes, Frame
    <2>8. AtRest(s)'
        BY <1>1, <2>3, <2>5 DEF KeysInv, SessionInv, AtRest
    <2>9. PatchSound(s)'
        <3>1. r.gen \in Nat /\ apps' = apps /\ r.add \intersect MgmtCaps = {}
            BY <1>1, <1>3, <2>2, Validated DEF KeysInv, TableTypes, IsApp, tables
        <3> QED BY <2>2, <2>5, <3>1 DEF PatchSound
    <2>10. IdentitySound(s)'
        BY <2>5 DEF IdentitySound
    <2> QED BY <2>4, <2>6, <2>7, <2>8, <2>9, <2>10, Combine DEF SessionInv
<1> QED BY <1>2, <1>3

\* A step that takes the lock of an app that exists, or no lock.
LEMMA LockMoves ==
    ASSUME KeysInv, NEW s \in Sessions, NEW a \in Apps, UNCHANGED tables,
           \/ lock' = lock
           \/ lock' = [lock EXCEPT ![a] = s] /\ Live(a) /\ MayLock(s, a)
    PROVE  TableTypes' /\ TablesInv' /\ TablesMove(s)
<1>1. CASE lock' = lock
    BY <1>1, TablesStay
<1>2. CASE lock' = [lock EXCEPT ![a] = s] /\ Live(a) /\ MayLock(s, a)
    <2>1. UNCHANGED <<apps, caps, keys, issued, hist>>
        BY DEF tables
    <2>2. /\ lock' = [b \in Apps |-> lock'[b]] /\ lock'[a] = s
          /\ \A b \in Apps \ {a} : lock'[b] = lock[b]
        BY <1>2 DEF KeysInv, TableTypes
    <2>3. TableTypes'
        BY <2>1, <2>2 DEF KeysInv, TableTypes
    <2>4. AppsRecorded'
        <3>1. \A b \in Apps : ~Live(b) => lock'[b] = Nobody
            BY <1>2, <2>2 DEF KeysInv, TablesInv, AppsRecorded
        <3> QED BY <2>1, <3>1 DEF KeysInv, TablesInv, AppsRecorded, Live
    <2>5. VersionNamesOneSet' /\ NoEscalation' /\ KeysIssued'
        BY <2>1 DEF KeysInv, TablesInv, VersionNamesOneSet, NoEscalation, KeysIssued, Live
    <2>6. TablesMove(s)
        <3>1. \A b \in Apps : apps[b].gen \in Nat
            BY DEF KeysInv, TableTypes, IsApp
        <3>2. Cardinality(issued) \in Nat
            BY FS_CardinalityType DEF KeysInv, TablesInv, KeysIssued
        <3>3. \A b \in Apps : /\ lock'[b] \in {lock[b], s, Nobody}
                              /\ lock[b] \notin {s, Nobody} => lock'[b] = lock[b]
            BY <1>2, <2>2 DEF MayLock
        <3> QED BY <2>1, <3>1, <3>2, <3>3 DEF TablesMove
    <2> QED BY <2>3, <2>4, <2>5, <2>6 DEF TablesInv
<1> QED BY <1>1, <1>2

\* A session that goes to label l, its request, view and identity unchanged.
LEMMA Goes ==
    ASSUME KeysInv, NEW s \in Sessions, NEW l, Goto(s, l), UNCHANGED <<req, view, ident, ans>>,
           NEW d, pending' = [pending EXCEPT ![s] = d] \/ (pending' = pending /\ d = pending[s])
    PROVE  SessionTypes' /\ Frame(s) /\ pc'[s] = l /\ pending'[s] = d
<1>1. /\ pc'[s] = l /\ pc' = [t \in Sessions |-> pc'[t]]
      /\ pending'[s] = d /\ pending' = [t \in Sessions |-> pending'[t]]
    BY DEF Goto, KeysInv, SessionTypes
<1>2. SessionTypes'
    BY <1>1 DEF KeysInv, SessionTypes
<1>3. \A t \in Sessions \ {s} : pc'[t] = pc[t] /\ pending'[t] = pending[t]
    BY DEF Goto, KeysInv, SessionTypes
<1> QED BY <1>1, <1>2, <1>3 DEF Frame

\* The lock is taken, or the row is gone and there is nothing to lock.
LEMMA PatchLockKeeps ==
    ASSUME KeysInv, NEW s \in Sessions, PatchLock(s)
    PROVE  KeysInv'
<1>1. PICK a, d : a = req[s].app /\ d = pending[s]
    OBVIOUS
<1>2. /\ pc[s] = "lock" /\ MayLock(s, a) /\ Goto(s, "write")
      /\ lock' = IF Live(a) THEN [lock EXCEPT ![a] = s] ELSE lock
      /\ UNCHANGED <<tables, req, pending, view, ident, ans>>
    BY <1>1 DEF PatchLock
<1>3. PatchSound(s) /\ AtRest(s) /\ a \in Apps
    BY <1>1, <1>2 DEF KeysInv, SessionInv, PatchSound
<1>4. TableTypes' /\ TablesInv' /\ TablesMove(s)
    BY <1>2, <1>3, LockMoves
<1>5. SessionTypes' /\ Frame(s) /\ pc'[s] = "write"
    BY <1>1, <1>2, Goes
<1>6. AtRest(s)'
    BY <1>2, <1>3, <1>5 DEF AtRest
<1>7. PatchSound(s)'
    <2>1. Live(a) => lock'[a] = s
        BY <1>2, <1>3 DEF KeysInv, TableTypes
    <2> QED BY <1>1, <1>2, <1>3, <1>5, <2>1 DEF PatchSound, tables, Live
<1>8. IdentitySound(s)'
    BY <1>5 DEF IdentitySound
<1> QED BY <1>4, <1>5, <1>6, <1>7, <1>8, Combine DEF SessionInv

\* The write changes what is to be committed, and no table.
LEMMA PatchWriteKeeps ==
    ASSUME KeysInv, NEW s \in Sessions, PatchWrite(s)
    PROVE  KeysInv'
<1>1. PICK a, r : r = req[s] /\ a = r.app
    OBVIOUS
<1>2. /\ pc[s] = "write" /\ (NeedsRow(s) => MayLock(s, a))
      /\ UNCHANGED <<tables, req, view, ident>>
    BY <1>1 DEF PatchWrite
<1>3. PatchSound(s) /\ AtRest(s) /\ a \in Apps
    BY <1>1, <1>2 DEF KeysInv, SessionInv, PatchSound
<1>4. CASE r.add # {} /\ ~Live(a)
    <2>1. Answer(s, "db_error") /\ UNCHANGED <<lock, pending>>
        BY <1>1, <1>4 DEF PatchWrite
    <2> QED BY <1>2, <2>1, Refuses
<1>5. CASE ~(r.add # {} /\ ~Live(a))
    <2>1. PICK d : d = [ins |-> r.add \ r.rem, del |-> r.rem \intersect (caps[a] \union r.add)]
        OBVIOUS
    <2>2. /\ lock' = IF NeedsRow(s) /\ Live(a) THEN [lock EXCEPT ![a] = s] ELSE lock
          /\ pending' = [pending EXCEPT ![s] = d] /\ Goto(s, "commit") /\ UNCHANGED ans
        BY <1>1, <1>5, <2>1 DEF PatchWrite
    <2>3. TableTypes' /\ TablesInv' /\ TablesMove(s)
        BY <1>2, <1>3, <2>2, LockMoves
    <2>4. SessionTypes' /\ Frame(s) /\ pc'[s] = "commit" /\ pending'[s] = d
        BY <1>2, <2>2, Goes
    <2>5. AtRest(s)'
        BY <1>2, <1>3, <2>2, <2>4 DEF AtRest
    <2>6. lock[a] = s => lock'[a] = s
        BY <1>3, <2>2 DEF KeysInv, TableTypes
    <2>7. d.ins = r.add \ r.rem /\ d.del = r.rem \intersect (caps[a] \union r.add)
        BY <2>1
    <2>8. PatchSound(s)'
        <3>1. apps' = apps /\ caps' = caps /\ req'[s] = r
            BY <1>1, <1>2 DEF tables
        <3>2. /\ r.gen \in Nat /\ r.gen <= apps[a].gen /\ r.add \intersect MgmtCaps = {}
              /\ apps[a].live /\ apps[a].gen = r.gen => lock'[a] = s
            BY <1>1, <1>2, <1>3, <2>6 DEF PatchSound
        <3> QED BY <1>1, <1>3, <2>4, <2>7, <3>1, <3>2 DEF PatchSound
    <2>9. IdentitySound(s)'
        BY <2>4 DEF IdentitySound
    <2> QED BY <2>3, <2>4, <2>5, <2>8, <2>9, Combine DEF SessionInv
<1> QED BY <1>4, <1>5

\* What a live COMMIT of a PATCH makes of the capabilities.
PatchedCaps(s, a) == (caps[a] \union pending[s].ins) \ pending[s].del

\* Freeing a lock moves nothing else.
LEMMA UnlockMoves ==
    ASSUME TableTypes, NEW s, Unlock(s)
    PROVE  LocksMove(s)
    BY DEF Unlock, LocksMove

\* The commit gives the new set a new version.
LEMMA PatchCommitKeeps ==
    ASSUME KeysInv, NEW s \in Sessions, PatchCommit(s)
    PROVE  KeysInv'
<1>1. PICK a, r : r = req[s] /\ a = r.app
    OBVIOUS
<1>2. /\ pc[s] = "commit" /\ (capsChanged(s) => MayLock(s, a))
      /\ UNCHANGED <<keys, issued, req, pending, view, ident>> /\ Unlock(s)
      /\ \E c : Answer(s, c)
    BY <1>1 DEF PatchCommit
<1>3. PatchSound(s) /\ a \in Apps
    BY <1>1, <1>2 DEF KeysInv, SessionInv, PatchSound
<1>4. SessionTypes' /\ Frame(s) /\ SessionInv(s)'
    BY <1>2, Answers
<1>5. LocksMove(s)
    BY <1>2, UnlockMoves DEF KeysInv
<1>6. CASE Live(a)
    <2>1. PICK new : new = PatchedCaps(s, a)
        OBVIOUS
    <2>2. PICK v : v = IF capsChanged(s) THEN apps[a].ver + 1 ELSE apps[a].ver
        OBVIOUS
    <2>3. PICK app : app = [apps[a] EXCEPT !.active = Activity(s, a), !.ver = v]
        OBVIOUS
    <2>4. Commit(a, app, new)
        BY <1>1, <1>6, <2>1, <2>2, <2>3 DEF PatchCommit, PatchedCaps
    <2>5. IsApp(apps[a]) /\ v \in Nat /\ apps[a].live
        BY <1>3, <1>6, <2>2 DEF KeysInv, TableTypes, IsApp, Live
    <2>6. IsApp(app) /\ app.live = apps[a].live /\ app.gen = apps[a].gen /\ app.ver = v
        <3>1. PICK q, x : q = apps[a] /\ x = Activity(s, a)
            OBVIOUS
        <3>2. q = [live |-> q.live, active |-> q.active, ver |-> q.ver, gen |-> q.gen]
            BY <2>5, <3>1 DEF IsApp
        <3>3. app = [live |-> q.live, active |-> x, ver |-> v, gen |-> q.gen]
            BY <2>3, <3>1, <3>2
        <3> QED BY <2>5, <3>1, <3>3, Updated
    <2>7. /\ pending[s].ins = r.add \ r.rem /\ pending[s].del \subseteq r.rem
          /\ r.add \intersect MgmtCaps = {}
        BY <1>1, <1>2, <1>3 DEF PatchSound
    <2>8. ~capsChanged(s) => new = caps[a]
        BY <1>1, <2>1, <2>7 DEF capsChanged, PatchedCaps
    <2>9. Follows(a, app, new)
        BY <2>2, <2>5, <2>6, <2>8 DEF Follows
    <2>10. app.gen > 0 => new \intersect MgmtCaps = {}
        BY <1>3, <2>1, <2>6, <2>7 DEF KeysInv, TablesInv, NoEscalation, PatchedCaps
    <2>11. lock[a] \in {s, Nobody} \/ new = caps[a]
        BY <1>2, <2>8 DEF MayLock
    <2>12. app.live
        BY <2>5, <2>6
    <2>13. TableTypes' /\ TablesInv' /\ TablesMove(s)
        BY <1>2, <1>3, <1>5, <2>4, <2>6, <2>9, <2>10, <2>11, <2>12, CommitKeeps
    <2> QED BY <1>4, <2>13, Combine
<1>7. CASE ~Live(a)
    <2>1. UNCHANGED <<apps, caps, hist, keys, issued>>
        BY <1>1, <1>2, <1>7 DEF PatchCommit
    <2>2. TableTypes' /\ TablesInv' /\ TablesMove(s)
        BY <1>5, <2>1, LocksReleased
    <2> QED BY <1>4, <2>2, Combine
<1> QED BY <1>6, <1>7

-----------------------------------------------------------------------------
(* The key store. *)

\* IssueKey begins with checks that change nothing.
LEMMA IssueKeyKeeps ==
    ASSUME KeysInv, NEW s \in Sessions, NEW a \in Apps, NEW p, IssueKey(s, a, p)
    PROVE  KeysInv'
<1>1. UNCHANGED <<tables, lock, pending, view, ident>> /\ pc[s] = "idle"
    BY DEF IssueKey
<1>2. CASE ~(Live(a) /\ apps[a].active)
    <2>1. UNCHANGED req /\ \E c : Answer(s, c)
        BY <1>2 DEF IssueKey
    <2> QED BY <1>1, <2>1, Refuses
<1>3. CASE Live(a) /\ apps[a].active
    <2>1. PICK r : r = [NoRequest EXCEPT !.app = a, !.gen = apps[a].gen, !.prefix = p]
        OBVIOUS
    <2>2. r.app = a /\ r.gen = apps[a].gen
        BY <2>1 DEF NoRequest
    <2>3. req' = [req EXCEPT ![s] = r] /\ Goto(s, "insert") /\ UNCHANGED ans
        BY <1>3, <2>1 DEF IssueKey
    <2>4. TableTypes' /\ TablesInv' /\ TablesMove(s)
        BY <1>1, TablesStay
    <2>5. /\ pc'[s] = "insert" /\ req'[s] = r
          /\ pc' = [t \in Sessions |-> pc'[t]] /\ req' = [t \in Sessions |-> req'[t]]
        BY <2>3 DEF Goto, KeysInv, SessionTypes
    <2>6. SessionTypes'
        BY <1>1, <2>3, <2>5 DEF KeysInv, SessionTypes
    <2>7. Frame(s)
        BY <1>1, <2>3 DEF Goto, KeysInv, SessionTypes, Frame
    <2>8. AtRest(s)'
        BY <1>1, <2>3, <2>5 DEF KeysInv, SessionInv, AtRest
    <2>9. PatchSound(s)'
        <3>1. r.gen \in Nat /\ apps' = apps
            BY <1>1, <2>2 DEF KeysInv, TableTypes, IsApp, tables
        <3> QED BY <2>2, <2>5, <3>1 DEF PatchSound
    <2>10. IdentitySound(s)'
        BY <2>5 DEF IdentitySound
    <2> QED BY <2>4, <2>6, <2>7, <2>8, <2>9, <2>10, Combine DEF SessionInv
<1> QED BY <1>2, <1>3

\* The key is inserted for the incarnation that is there.
LEMMA IssueInsertKeeps ==
    ASSUME KeysInv, NEW s \in Sessions, IssueInsert(s)
    PROVE  KeysInv'
<1>1. PICK a, k : /\ a = req[s].app
                  /\ k = [id |-> Cardinality(issued) + 1, app |-> a, gen |-> apps[a].gen,
                          prefix |-> req[s].prefix, revoked |-> FALSE]
    OBVIOUS
<1>2. pc[s] = "insert" /\ UNCHANGED <<apps, caps, hist, lock, req, pending, view, ident>>
    BY DEF IssueInsert
<1>3. a \in Apps
    BY <1>1, <1>2 DEF KeysInv, SessionInv, PatchSound
<1>4. \/ (\E c : Answer(s, c)) /\ UNCHANGED <<keys, issued>>
      \/ /\ Live(a) /\ Answer(s, "issued")
         /\ keys' = keys \union {k} /\ issued' = issued \union {k}
    BY <1>1 DEF IssueInsert
<1>5. CASE (\E c : Answer(s, c)) /\ UNCHANGED <<keys, issued>>
    BY <1>2, <1>5, Refuses DEF tables
<1>6. CASE /\ Live(a) /\ Answer(s, "issued")
           /\ keys' = keys \union {k} /\ issued' = issued \union {k}
    <2>1. Cardinality(issued) \in Nat
        BY FS_CardinalityType DEF KeysInv, TablesInv, KeysIssued
    <2>2. IsKey(k) /\ k.app = a /\ k.gen = apps[a].gen /\ k.id = Cardinality(issued) + 1
        BY <1>1, <1>3, <2>1 DEF IsKey
    <2>3. TableTypes' /\ TablesInv' /\ TablesMove(s)
        BY <1>2, <1>6, <2>2, InsertMoves
    <2>4. SessionTypes' /\ Frame(s) /\ SessionInv(s)'
        BY <1>2, <1>6, Answers
    <2> QED BY <2>3, <2>4, Combine
<1> QED BY <1>4, <1>5, <1>6

\* Revoking kills the key for every request that starts later.
LEMMA RevokeKeyKeeps ==
    ASSUME KeysInv, NEW s \in Sessions, NEW a, NEW p, RevokeKey(s, a, p)
    PROVE  KeysInv'
<1>1. PICK hit \in SUBSET keys :
          keys' = (keys \ hit) \union {[k EXCEPT !.revoked = TRUE] : k \in hit}
    BY DEF RevokeKey
<1>2. /\ UNCHANGED <<apps, caps, issued, hist, lock, req, pending, view, ident>>
      /\ \E c : Answer(s, c)
    BY DEF RevokeKey
<1>3. TableTypes' /\ TablesInv' /\ TablesMove(s)
    BY <1>1, <1>2, RevokeMoves
<1>4. SessionTypes' /\ Frame(s) /\ SessionInv(s)'
    BY <1>2, Answers
<1> QED BY <1>3, <1>4, Combine

-----------------------------------------------------------------------------
(* Requests. *)

\* A key that matches is not dead, and belongs to the app as committed.
LEMMA ResolveKeeps ==
    ASSUME KeysInv, NEW s \in Sessions, NEW bearer, Resolve(s, bearer)
    PROVE  KeysInv'
<1>1. UNCHANGED <<tables, lock, req, pending>> /\ pc[s] = "idle"
    BY DEF Resolve
<1>2. CASE Answer(s, "unknown_bearer") /\ UNCHANGED <<ident, view>>
    BY <1>1, <1>2, Refuses
<1>3. CASE /\ \E k \in keys :
                 /\ Matches(k, bearer)
                 /\ ident' = [ident EXCEPT ![s] =
                       [app |-> k.app, gen |-> apps[k.app].gen, ver |-> apps[k.app].ver,
                        caps |-> {}, key |-> k.id]]
           /\ view' = [view EXCEPT ![s] = [caps |-> caps, dead |-> DeadKeys]]
           /\ Goto(s, "caps") /\ UNCHANGED ans
    <2>1. PICK k \in keys :
              /\ Matches(k, bearer)
              /\ ident' = [ident EXCEPT ![s] =
                    [app |-> k.app, gen |-> apps[k.app].gen, ver |-> apps[k.app].ver,
                     caps |-> {}, key |-> k.id]]
        BY <1>3
    <2>2. PICK i : i = [app |-> k.app, gen |-> apps[k.app].gen, ver |-> apps[k.app].ver,
                        caps |-> {}, key |-> k.id]
        OBVIOUS
    <2>3. PICK v : v = [caps |-> caps, dead |-> DeadKeys]
        OBVIOUS
    <2>4. /\ i.app = k.app /\ i.gen = apps[k.app].gen /\ i.ver = apps[k.app].ver /\ i.key = k.id
          /\ IsIdent(i)
        BY <2>2 DEF IsIdent
    <2>5. v.caps = caps /\ v.dead = DeadKeys
        BY <2>3
    <2>6. /\ pc' = [t \in Sessions |-> pc'[t]] /\ pc'[s] = "caps"
          /\ \A t \in Sessions \ {s} : pc'[t] = pc[t]
        BY <1>3 DEF Goto, KeysInv, SessionTypes
    <2>7. /\ ident' = [t \in Sessions |-> ident'[t]] /\ ident'[s] = i
          /\ \A t \in Sessions \ {s} : ident'[t] = ident[t]
        BY <2>1, <2>2 DEF KeysInv, SessionTypes
    <2>8. /\ view' = [t \in Sessions |-> view'[t]] /\ view'[s] = v
          /\ \A t \in Sessions \ {s} : view'[t] = view[t]
        BY <1>3, <2>3 DEF KeysInv, SessionTypes
    <2>9. SessionTypes'
        BY <1>1, <1>3, <2>4, <2>6, <2>7, <2>8 DEF KeysInv, SessionTypes
    <2>10. Frame(s)
        BY <1>1, <1>3, <2>6, <2>7, <2>8 DEF Frame
    <2>11. TableTypes' /\ TablesInv' /\ TablesMove(s)
        BY <1>1, TablesStay
    <2>12. AtRest(s)' /\ PatchSound(s)'
        BY <1>1, <1>3, <2>6 DEF KeysInv, SessionInv, AtRest, PatchSound
    <2>13. IdentitySound(s)'
        <3>1. IsKey(k) /\ Live(k.app) /\ k.gen = apps[k.app].gen /\ k.app \in Apps
            BY DEF KeysInv, TablesInv, KeysIssued, IsKey
        <3>2. Record(k.app, apps[k.app], caps[k.app]) \in hist
            BY <3>1 DEF KeysInv, TablesInv, AppsRecorded
        <3>3. [app |-> i.app, gen |-> i.gen, ver |-> i.ver, caps |-> v.caps[i.app]] \in hist
            BY <2>4, <2>5, <3>2 DEF Record
        <3>4. PICK b \in issued : b.id = k.id /\ b.gen = k.gen
            BY DEF KeysInv, TablesInv, KeysIssued
        <3>5. k.id \in 1..Cardinality(issued) /\ \A c \in issued : c.id = k.id => c.gen = k.gen
            BY <3>4 DEF KeysInv, TablesInv, KeysIssued
        <3>6. k.id \notin DeadKeys
            BY <2>1 DEF Matches, DeadKeys
        <3>7. hist' = hist /\ issued' = issued
            BY <1>1 DEF tables
        <3> QED BY <2>4, <2>5, <2>6, <2>7, <2>8, <3>1, <3>3, <3>5, <3>6, <3>7 DEF IdentitySound
    <2> QED BY <2>9, <2>10, <2>11, <2>12, <2>13, Combine DEF SessionInv
<1> QED BY <1>2, <1>3 DEF Resolve

\* The identity is read in one snapshot.
LEMMA LoadKeeps ==
    ASSUME KeysInv, NEW s \in Sessions, loadCapabilitiesTx(s)
    PROVE  KeysInv'
<1>1. /\ pc[s] = "caps" /\ Goto(s, "gate")
      /\ UNCHANGED <<tables, lock, req, pending, view, ans>>
    BY DEF loadCapabilitiesTx
<1>2. PICK i, j, cs : i = ident[s] /\ cs = view[s].caps[i.app] /\ j = [i EXCEPT !.caps = cs]
    OBVIOUS
<1>3. IsIdent(i)
    BY <1>2 DEF KeysInv, SessionTypes
<1>4. /\ j.app = i.app /\ j.gen = i.gen /\ j.ver = i.ver /\ j.key = i.key /\ j.caps = cs
      /\ IsIdent(j)
    BY <1>2, <1>3 DEF IsIdent
<1>5. /\ ident' = [t \in Sessions |-> ident'[t]] /\ ident'[s] = j
      /\ \A t \in Sessions \ {s} : ident'[t] = ident[t]
    BY <1>2 DEF KeysInv, SessionTypes, loadCapabilitiesTx
<1>6. /\ pc' = [t \in Sessions |-> pc'[t]] /\ pc'[s] = "gate"
      /\ \A t \in Sessions \ {s} : pc'[t] = pc[t]
    BY <1>1 DEF Goto, KeysInv, SessionTypes
<1>7. SessionTypes' /\ Frame(s)
    BY <1>1, <1>4, <1>5, <1>6 DEF KeysInv, SessionTypes, Frame
<1>8. TableTypes' /\ TablesInv' /\ TablesMove(s)
    BY <1>1, TablesStay
<1>9. AtRest(s)' /\ PatchSound(s)'
    BY <1>1, <1>6 DEF KeysInv, SessionInv, AtRest, PatchSound
<1>10. IdentitySound(s)'
    <2>1. IdentitySound(s) /\ hist' = hist /\ issued' = issued /\ view'[s] = view[s]
        BY <1>1 DEF KeysInv, SessionInv, tables
    <2> QED BY <1>1, <1>2, <1>4, <1>5, <1>6, <2>1 DEF IdentitySound
<1> QED BY <1>7, <1>8, <1>9, <1>10, Combine DEF SessionInv

\* The capability check reads the pinned identity.
LEMMA RequireKeeps ==
    ASSUME KeysInv, NEW s \in Sessions, NEW c, RequireCapability(s, c)
    PROVE  KeysInv'
<1>1. pc[s] = "gate" /\ UNCHANGED <<tables, lock, req, pending, view, ident>>
    BY DEF RequireCapability
<1>2. CASE Answer(s, "forbidden")
    BY <1>1, <1>2, Refuses
<1>3. CASE Goto(s, "handle") /\ UNCHANGED ans
    <2>1. PICK d : d = pending[s]
        OBVIOUS
    <2>2. SessionTypes' /\ Frame(s) /\ pc'[s] = "handle"
        BY <1>1, <1>3, <2>1, Goes
    <2>3. TableTypes' /\ TablesInv' /\ TablesMove(s)
        BY <1>1, TablesStay
    <2>4. AtRest(s)' /\ PatchSound(s)'
        BY <1>1, <1>3, <2>2 DEF KeysInv, SessionInv, AtRest, PatchSound
    <2>5. IdentitySound(s)'
        BY <1>1, <2>2 DEF KeysInv, SessionInv, IdentitySound, tables
    <2> QED BY <2>2, <2>3, <2>4, <2>5, Combine DEF SessionInv
<1> QED BY <1>2, <1>3 DEF RequireCapability

\* Handling a request, and a failure anywhere, change no table.
LEMMA HandleKeeps ==
    ASSUME KeysInv, NEW s \in Sessions, Handle(s) \/ Fail(s)
    PROVE  KeysInv'
<1>1. UNCHANGED <<tables, lock, req, pending, view, ident>> /\ \E c : Answer(s, c)
    BY DEF Handle, Fail
<1> QED BY <1>1, Refuses

\* A session that returns frees its locks.
LEMMA ReturnKeeps ==
    ASSUME KeysInv, NEW s \in Sessions, Return(s)
    PROVE  KeysInv'
<1>1. LocksMove(s) /\ UNCHANGED <<apps, caps, keys, issued, hist>>
    BY UnlockMoves DEF Return, KeysInv, tables
<1>2. TableTypes' /\ TablesInv' /\ TablesMove(s)
    BY <1>1, LocksReleased
<1>3. /\ pc'[s] = "idle" /\ ans'[s] = "none" /\ ident'[s] = NoIdentity
      /\ pc' = [t \in Sessions |-> pc'[t]] /\ req' = [t \in Sessions |-> req'[t]]
      /\ pending' = [t \in Sessions |-> pending'[t]] /\ view' = [t \in Sessions |-> view'[t]]
      /\ ident' = [t \in Sessions |-> ident'[t]] /\ ans' = [t \in Sessions |-> ans'[t]]
    BY DEF Return, Goto, KeysInv, SessionTypes
<1>4. Frame(s)
    BY DEF Return, Goto, KeysInv, SessionTypes, Frame
<1>5. SessionTypes'
    <2>1. IsIdent(NoIdentity)
        BY DEF IsIdent, NoIdentity
    <2>2. \A t \in Sessions : IsIdent(ident'[t])
        BY <1>3, <1>4, <2>1 DEF KeysInv, SessionTypes, Frame
    <2> QED BY <1>3, <2>2 DEF SessionTypes
<1>6. SessionInv(s)'
    <2>1. \A a \in Apps : lock'[a] # s
        BY AppKeysAssumption DEF Return, Unlock
    <2> QED BY <1>3, <2>1 DEF SessionInv, AtRest, PatchSound, IdentitySound
<1> QED BY <1>2, <1>4, <1>5, <1>6, Combine

-----------------------------------------------------------------------------
\* The seeded tables satisfy the invariant.
LEMMA KeysInit ==
    ASSUME Init
    PROVE  KeysInv
<1>1. \A a \in Apps : apps[a] = [live |-> TRUE, active |-> TRUE, ver |-> 1, gen |-> 0]
    BY DEF Init
<1>2. \A a \in Apps : apps[a].live /\ apps[a].ver = 1 /\ apps[a].gen = 0 /\ IsApp(apps[a])
    <2> SUFFICES ASSUME NEW a \in Apps
                 PROVE  apps[a].live /\ apps[a].ver = 1 /\ apps[a].gen = 0 /\ IsApp(apps[a])
        OBVIOUS
    <2>1. PICK r : r = apps[a]
        OBVIOUS
    <2>2. r = [live |-> TRUE, active |-> TRUE, ver |-> 1, gen |-> 0]
        BY <1>1, <2>1
    <2>3. r.live = TRUE /\ r.active = TRUE /\ r.ver = 1 /\ r.gen = 0
        BY <2>2
    <2>4. IsApp(r)
        BY <2>2, <2>3 DEF IsApp
    <2> QED BY <2>1, <2>3, <2>4
<1>3. TableTypes
    BY <1>2 DEF Init, TableTypes
<1>4. SessionTypes
    <2>1. IsIdent(NoIdentity)
        BY DEF IsIdent, NoIdentity
    <2> QED BY <2>1 DEF Init, SessionTypes
<1>5. \A h \in hist : \E a \in Apps : /\ h.app = a /\ h.gen = 0 /\ h.ver = 1
                                      /\ h.caps = caps[a]
    BY <1>2 DEF Init, Record
<1>6. AppsRecorded
    <2>1. \A a \in Apps : Record(a, apps[a], caps[a]) \in hist
        BY DEF Init
    <2> QED BY <1>2, <1>5, <2>1 DEF AppsRecorded, Live
<1>7. VersionNamesOneSet
    BY <1>5 DEF VersionNamesOneSet
<1>8. NoEscalation
    BY <1>2 DEF NoEscalation
<1>9. KeysIssued
    BY FS_EmptySet DEF Init, KeysIssued
<1>10. \A s \in Sessions : SessionInv(s)
    BY AppKeysAssumption DEF Init, SessionInv, AtRest, PatchSound, IdentitySound
<1> QED BY <1>3, <1>4, <1>6, <1>7, <1>8, <1>9, <1>10 DEF KeysInv, TablesInv

\* Every step keeps the invariant.
LEMMA KeysNext ==
    ASSUME KeysInv, Next
    PROVE  KeysInv'
<1>1. PICK s \in Sessions : AdminStep(s) \/ RequestStep(s) \/ Fail(s) \/ Return(s)
    BY DEF Next
<1>2. CASE AdminStep(s)
    BY <1>2, CreateKeeps, DeleteKeeps, PurgeKeeps, PatchKeeps, IssueKeyKeeps, RevokeKeyKeeps,
       PatchLockKeeps, PatchWriteKeeps, PatchCommitKeeps, IssueInsertKeeps DEF AdminStep
<1>3. CASE RequestStep(s)
    BY <1>3, ResolveKeeps, LoadKeeps, RequireKeeps, HandleKeeps DEF RequestStep
<1>4. CASE Fail(s) \/ Return(s)
    BY <1>4, HandleKeeps, ReturnKeeps
<1> QED BY <1>1, <1>2, <1>3, <1>4

\* So does a step that changes nothing.
LEMMA KeysStutter ==
    ASSUME KeysInv, UNCHANGED vars
    PROVE  KeysInv'
<1>1. UNCHANGED <<apps, caps, keys, issued, hist, lock, pc, req, pending, view, ident, ans>>
    BY DEF vars
<1>2. TableTypes' /\ SessionTypes'
    BY <1>1 DEF KeysInv, TableTypes, SessionTypes
<1>3. TablesInv'
    BY <1>1 DEF KeysInv, TablesInv, AppsRecorded, VersionNamesOneSet, NoEscalation, KeysIssued, Live
<1>4. \A s \in Sessions : SessionInv(s)'
    BY <1>1 DEF KeysInv, SessionInv, AtRest, PatchSound, IdentitySound
<1> QED BY <1>2, <1>3, <1>4 DEF KeysInv

\* The inductive invariant of the tables, the row locks and the sessions.
THEOREM KeysInvariant == Spec => []KeysInv
<1>1. Init => KeysInv
    BY KeysInit
<1>2. KeysInv /\ [Next]_vars => KeysInv'
    BY KeysNext, KeysStutter
<1> QED BY <1>1, <1>2, PTL DEF Spec

\* The identity of every request is one committed version of its app with the
\* capabilities of that version, for any number of sessions and however the
\* transactions interleave (Resolve's snapshot).
THEOREM IdentityAlwaysPinned == Spec => []PinnedIdentity
<1>1. KeysInv => PinnedIdentity
    BY DEF KeysInv, SessionInv, IdentitySound, PinnedIdentity, Authenticated
<1> QED BY <1>1, KeysInvariant, PTL

\* A version number never names two capability sets of one incarnation of an
\* app (the version UPDATE of PatchApp and DeleteApp).
THEOREM VersionAlwaysNamesOneSet == Spec => []VersionNamesOneSet
<1>1. KeysInv => VersionNamesOneSet
    BY DEF KeysInv, TablesInv
<1> QED BY <1>1, KeysInvariant, PTL

\* No request that starts after its key was revoked or purged gets past the
\* authentication, and none is taken for an app created again under the same id
\* (Resolve's WHERE clause, the cascade of a purge).
THEOREM BearerAlwaysDies == Spec => []BearerDiesWithKey
<1>1. KeysInv => BearerDiesWithKey
    BY DEF KeysInv, SessionInv, IdentitySound, BearerDiesWithKey, Authenticated
<1> QED BY <1>1, KeysInvariant, PTL

\* No app that was not seeded with a management capability ever has one
\* (validateCapabilityGrant, the cascade of a purge).
THEOREM NeverEscalates == Spec => []NoEscalation
<1>1. KeysInv => NoEscalation
    BY DEF KeysInv, TablesInv
<1> QED BY <1>1, KeysInvariant, PTL

-----------------------------------------------------------------------------
(* PatchTakesEffect. *)

\* A step of t leaves the answer of every other session alone.
LEMMA OwnAnswer ==
    ASSUME SessionTypes, NEW t \in Sessions, NEW s \in Sessions \ {t},
           AdminStep(t) \/ RequestStep(t) \/ Fail(t) \/ Return(t)
    PROVE  ans'[s] = ans[s]
<1>1. \A c : Answer(t, c) => ans'[s] = ans[s]
    BY DEF Answer, SessionTypes
<1>2. ASSUME NEW a \in Apps, NEW cs, Create(t, a, cs) PROVE ans'[s] = ans[s]
    BY <1>1, <1>2 DEF Create
<1>3. ASSUME NEW a \in Apps, Delete(t, a) \/ Purge(t, a) PROVE ans'[s] = ans[s]
    BY <1>1, <1>3 DEF Delete, Purge
<1>4. ASSUME NEW a \in Apps, NEW body, Patch(t, a, body) PROVE ans'[s] = ans[s]
    BY <1>1, <1>4 DEF Patch
<1>5. ASSUME NEW a \in Apps, NEW p, IssueKey(t, a, p) \/ RevokeKey(t, a, p)
      PROVE  ans'[s] = ans[s]
    BY <1>1, <1>5 DEF IssueKey, RevokeKey
<1>6. PatchLock(t) \/ PatchWrite(t) => ans'[s] = ans[s]
    BY <1>1 DEF PatchLock, PatchWrite
<1>7. PatchCommit(t) \/ IssueInsert(t) => ans'[s] = ans[s]
    BY <1>1 DEF PatchCommit, IssueInsert
<1>8. ASSUME NEW b, Resolve(t, b) PROVE ans'[s] = ans[s]
    BY <1>1, <1>8 DEF Resolve
<1>9. ASSUME NEW c, RequireCapability(t, c) PROVE ans'[s] = ans[s]
    BY <1>1, <1>9 DEF RequireCapability
<1>10. loadCapabilitiesTx(t) \/ Handle(t) \/ Fail(t) => ans'[s] = ans[s]
    BY <1>1 DEF loadCapabilitiesTx, Handle, Fail
<1>11. Return(t) => ans'[s] = ans[s]
    BY DEF Return, SessionTypes
<1>12. AdminStep(t) => ans'[s] = ans[s]
    BY <1>2, <1>3, <1>4, <1>5, <1>6, <1>7 DEF AdminStep
<1>13. RequestStep(t) => ans'[s] = ans[s]
    BY <1>8, <1>9, <1>10 DEF RequestStep
<1> QED BY <1>10, <1>11, <1>12, <1>13

\* Only COMMIT answers "updated".
LEMMA OnlyCommitUpdates ==
    ASSUME KeysInv, [Next]_vars, NEW s \in Sessions, pc[s] = "commit", ans'[s] = "updated"
    PROVE  PatchCommit(s)
<1>1. ans[s] = "none"
    BY DEF KeysInv, SessionInv, AtRest
<1>2. ans' # ans
    BY <1>1
<1>3. PICK t \in Sessions : AdminStep(t) \/ RequestStep(t) \/ Fail(t) \/ Return(t)
    BY <1>2 DEF Next, vars
<1>4. t = s
    BY <1>1, <1>3, OwnAnswer DEF KeysInv
<1>5. ~RequestStep(s) /\ ~Return(s)
    BY DEF RequestStep, Resolve, loadCapabilitiesTx, RequireCapability, Handle, Return
<1>6. ~Fail(s)
    BY DEF Fail, Answer, KeysInv, SessionTypes
<1>7. AdminStep(s)
    BY <1>3, <1>4, <1>5, <1>6
<1> QED BY <1>7 DEF AdminStep, Create, Delete, Purge, Patch, IssueKey, RevokeKey, PatchLock,
                    PatchWrite, IssueInsert

\* A PATCH that is answered with success has just committed its set.
LEMMA PatchStep ==
    ASSUME KeysInv, [Next]_vars, NEW s \in Sessions, pc[s] = "commit", ans'[s] = "updated",
           NEW a, a = req[s].app, Live(a), apps[a].gen = req[s].gen
    PROVE  /\ req[s].add \ req[s].rem \subseteq caps'[a]
           /\ req[s].rem \intersect caps'[a] = {}
<1>1. PatchCommit(s) /\ PatchSound(s) /\ TableTypes
    BY OnlyCommitUpdates DEF KeysInv, SessionInv
<1>2. a \in Apps
    BY <1>1 DEF PatchSound
<1>3. PICK app : Commit(a, app, (caps[a] \union pending[s].ins) \ pending[s].del)
    BY <1>1 DEF PatchCommit
<1>4. caps'[a] = (caps[a] \union pending[s].ins) \ pending[s].del
    BY <1>1, <1>2, <1>3 DEF Commit, TableTypes
<1>5. /\ pending[s].ins = req[s].add \ req[s].rem
      /\ pending[s].del = req[s].rem \intersect (caps[a] \union req[s].add)
    BY <1>1 DEF PatchSound, Live
<1> QED BY <1>4, <1>5

\* A PATCH that is answered with success leaves the app it was made for with
\* what it added and without what it removed (PatchApp's FOR UPDATE).
THEOREM PatchAlwaysTakesEffect == Spec => PatchTakesEffect
<1> DEFINE Effect ==
        \A s \in Sessions :
            LET a == req[s].app IN
            pc[s] = "commit" /\ ans'[s] = "updated" /\ Live(a) /\ apps[a].gen = req[s].gen =>
                /\ req[s].add \ req[s].rem \subseteq caps'[a]
                /\ req[s].rem \intersect caps'[a] = {}
<1>1. ASSUME KeysInv, [Next]_vars PROVE Effect
    <2> SUFFICES ASSUME NEW s \in Sessions, pc[s] = "commit", ans'[s] = "updated",
                        Live(req[s].app), apps[req[s].app].gen = req[s].gen
                 PROVE  /\ req[s].add \ req[s].rem \subseteq caps'[req[s].app]
                        /\ req[s].rem \intersect caps'[req[s].app] = {}
        OBVIOUS
    <2>1. PICK a : a = req[s].app
        OBVIOUS
    <2> QED BY <1>1, <2>1, PatchStep
<1>2. KeysInv /\ [Next]_vars => [Effect]_vars
    BY <1>1
<1> HIDE DEF Effect
<1>3. Spec => [][Effect]_vars
    BY <1>2, KeysInvariant, PTL DEF Spec
<1> QED BY <1>3 DEF Effect, PatchTakesEffect
=============================================================================
