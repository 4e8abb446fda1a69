--------------------------- MODULE DispatchProofs ---------------------------
(***************************************************************************)
(* For any requests, bodies, registries and number of registry changes,    *)
(* the message handlers keep what they promise. The proof first shows what *)
(* the four resolvers return, then that every step of a handler, every     *)
(* change of the registry and every crash keeps DispatchInv, which ties    *)
(* the items still to be handled to the chat, the report and the audit     *)
(* rows at each place of the handler.                                      *)
(***************************************************************************)
EXTENDS Dispatch, StrategyCases, FiniteSetTheorems, TLAPS

\* Two items of a resolver's result stand at different places, and no user is
\* a recipient twice.
Verdicts(its) ==
    /\ \A a \in its : a.idx \in Nat /\ a.user \in Nat
    /\ \A a \in its : a = [idx |-> a.idx, user |-> a.user, code |-> a.code]
    /\ \A a, b \in its : a.idx = b.idx => a = b
    /\ \A a, b \in Recipients(its) : a.user = b.user => a = b

-----------------------------------------------------------------------------
(* The resolvers. *)

\* Of at most five checks that do not all pass, there is a first that fails.
LEMMA FirstExists ==
    ASSUME NEW checks, NEW n \in 1..5, NEW k \in 1..n, ~checks[k][1]
    PROVE  \E i \in 1..n : ~checks[i][1] /\ \A j \in 1..(i - 1) : checks[j][1]
<1>1. k \in {1, 2, 3, 4, 5}
    OBVIOUS
<1>2. \/ ~checks[1][1]
      \/ checks[1][1] /\ ~checks[2][1] /\ 2 <= n
      \/ checks[1][1] /\ checks[2][1] /\ ~checks[3][1] /\ 3 <= n
      \/ checks[1][1] /\ checks[2][1] /\ checks[3][1] /\ ~checks[4][1] /\ 4 <= n
      \/ /\ checks[1][1] /\ checks[2][1] /\ checks[3][1] /\ checks[4][1]
         /\ ~checks[5][1] /\ 5 <= n
    BY <1>1
<1>3. 1..0 = {} /\ 1..1 = {1} /\ 1..2 = {1, 2} /\ 1..3 = {1, 2, 3} /\ 1..4 = {1, 2, 3, 4}
    OBVIOUS
<1>4. 1 - 1 = 0 /\ 2 - 1 = 1 /\ 3 - 1 = 2 /\ 4 - 1 = 3 /\ 5 - 1 = 4
    OBVIOUS
<1>5. \A i \in {1, 2, 3, 4, 5} : i <= n => i \in 1..n
    OBVIOUS
<1>6. 1 \in 1..n
    OBVIOUS
<1>7. CASE ~checks[1][1]
    BY <1>7, <1>6, <1>3
<1>8. CASE checks[1][1] /\ ~checks[2][1] /\ 2 <= n
    BY <1>8, <1>5
<1>9. CASE checks[1][1] /\ checks[2][1] /\ ~checks[3][1] /\ 3 <= n
    BY <1>9, <1>5
<1>10. CASE checks[1][1] /\ checks[2][1] /\ checks[3][1] /\ ~checks[4][1] /\ 4 <= n
    BY <1>10, <1>5
<1>11. CASE /\ checks[1][1] /\ checks[2][1] /\ checks[3][1] /\ checks[4][1]
            /\ ~checks[5][1] /\ 5 <= n
    BY <1>11, <1>5
<1> QED BY <1>2, <1>7, <1>8, <1>9, <1>10, <1>11

\* A list of checks yields "ok" if all of them pass, and else the code of one.
LEMMA FirstFailingIn ==
    ASSUME NEW checks, NEW n \in 1..5, DOMAIN checks = 1..n
    PROVE  /\ (\A i \in 1..n : checks[i][1]) => FirstFailing(checks) = "ok"
           /\ \/ \A i \in 1..n : checks[i][1]
              \/ \E i \in 1..n : FirstFailing(checks) = checks[i][2]
<1> DEFINE Fails(i) == ~checks[i][1] /\ \A j \in 1..(i - 1) : checks[j][1]
<1>1. (\A i \in 1..n : checks[i][1]) => FirstFailing(checks) = "ok"
    BY DEF FirstFailing
<1>2. ASSUME NEW k \in 1..n, ~checks[k][1]
      PROVE  \E i \in 1..n : FirstFailing(checks) = checks[i][2]
    <2>1. \E i \in 1..n : Fails(i)
        BY <1>2, FirstExists
    <2>2. (CHOOSE i \in 1..n : Fails(i)) \in 1..n
        BY <2>1
    <2> QED BY <1>2, <2>2 DEF FirstFailing
<1> QED BY <1>1, <1>2

\* A list of checks passes only if each of them does.
LEMMA FirstFailingOk ==
    ASSUME NEW checks, NEW n \in 1..5, DOMAIN checks = 1..n,
           \A i \in 1..n : checks[i][2] # "ok",
           FirstFailing(checks) = "ok", NEW k \in 1..n
    PROVE  checks[k][1]
BY FirstFailingIn

\* A direct recipient is active and subscribed, has linked a chat in which the
\* bot is an administrator, and has the topic of the app.
LEMMA DirectCodeOk ==
    ASSUME NEW u, DirectCode(u) = "ok"
    PROVE  u.active /\ u.sub /\ u.linked /\ u.admin /\ u.topic
<1> DEFINE checks == <<
        <<u.active, "recipient_inactive">>, <<u.sub, "recipient_not_subscribed">>,
        <<u.linked, "recipient_not_linked">>, <<u.admin, "bot_not_admin">>,
        <<u.topic, "recipient_topic_missing">> >>
<1>1. /\ checks[1][1] = u.active /\ checks[2][1] = u.sub /\ checks[3][1] = u.linked
      /\ checks[4][1] = u.admin /\ checks[5][1] = u.topic
    OBVIOUS
<1>2. DOMAIN checks = 1..5 /\ \A i \in 1..5 : checks[i][2] # "ok"
    OBVIOUS
<1>3. FirstFailing(checks) = "ok"
    BY DEF DirectCode
<1> HIDE DEF checks
<1>4. \A k \in 1..5 : checks[k][1]
    BY <1>2, <1>3, FirstFailingOk
<1> QED BY <1>1, <1>4

\* A topic recipient has the grade asked for, a linked chat with the bot as an
\* administrator, and the topic of the app.
LEMMA TopicCodeOk ==
    ASSUME NEW u, NEW min, TopicCode(u, min) = "ok"
    PROVE  gradeRank(u.grade) >= gradeRank(min) /\ u.linked /\ u.admin /\ u.topic
<1> DEFINE high == gradeRank(u.grade) >= gradeRank(min)
           checks == <<
        <<high, "grade_insufficient">>, <<u.linked, "recipient_not_linked">>,
        <<u.admin, "bot_not_admin">>, <<u.topic, "recipient_topic_missing">> >>
<1>1. FirstFailing(checks) = "ok"
    BY DEF TopicCode
<1> HIDE DEF high
<1>2. /\ checks[1][1] = high /\ checks[2][1] = u.linked
      /\ checks[3][1] = u.admin /\ checks[4][1] = u.topic
    OBVIOUS
<1>3. DOMAIN checks = 1..4 /\ \A i \in 1..4 : checks[i][2] # "ok"
    OBVIOUS
<1> HIDE DEF checks
<1>4. \A k \in 1..4 : checks[k][1]
    BY <1>1, <1>3, FirstFailingOk
<1>5. high /\ u.linked /\ u.admin /\ u.topic
    BY <1>2, <1>4
<1> QED BY <1>5 DEF high

\* A broadcast recipient has the grade asked for and a linked chat with the bot
\* as an administrator.
LEMMA BroadcastCodeOk ==
    ASSUME NEW u, NEW min, BroadcastCode(u, min) = "ok"
    PROVE  gradeRank(u.grade) >= gradeRank(min) /\ u.linked /\ u.admin
<1> DEFINE high == gradeRank(u.grade) >= gradeRank(min)
           checks == <<
        <<high, "grade_insufficient">>, <<u.linked, "recipient_not_linked">>,
        <<u.admin, "bot_not_admin">> >>
<1>1. FirstFailing(checks) = "ok"
    BY DEF BroadcastCode
<1> HIDE DEF high
<1>2. checks[1][1] = high /\ checks[2][1] = u.linked /\ checks[3][1] = u.admin
    OBVIOUS
<1>3. DOMAIN checks = 1..3 /\ \A i \in 1..3 : checks[i][2] # "ok"
    OBVIOUS
<1> HIDE DEF checks
<1>4. \A k \in 1..3 : checks[k][1]
    BY <1>1, <1>3, FirstFailingOk
<1>5. high /\ u.linked /\ u.admin
    BY <1>2, <1>4
<1> QED BY <1>5 DEF high

\* Comparing ranks is asking which grades a minimum admits.
LEMMA RankAdmits ==
    ASSUME NEW g \in StoredGrades
    PROVE  /\ \A min : gradeRank(g) >= gradeRank(normalizeGrade(min)) <=> g \in Admits(min)
           /\ \A min \in StoredGrades : gradeRank(g) >= gradeRank(min) <=> g \in Admits(min)
<1>1. gradeRank("admin") = 3 /\ gradeRank("developer") = 2 /\ gradeRank("user") = 1
    BY DEF gradeRank
<1>2. g = "user" \/ g = "developer" \/ g = "admin"
    BY DEF StoredGrades
<1>3. gradeRank(g) \in 1..3 /\ (gradeRank(g) >= 2 <=> g \in {"developer", "admin"})
      /\ (gradeRank(g) >= 3 <=> g = "admin")
    BY <1>1, <1>2
<1>4. ASSUME NEW min PROVE gradeRank(g) >= gradeRank(normalizeGrade(min)) <=> g \in Admits(min)
    <2>1. CASE min = "admin"
        <3>1. normalizeGrade(min) = "admin" /\ Admits(min) = {"admin"}
            BY <2>1 DEF normalizeGrade, Admits
        <3> QED BY <1>1, <1>3, <3>1
    <2>2. CASE min \in {"developer", "dev"}
        <3>1. normalizeGrade(min) = "developer" /\ Admits(min) = {"developer", "admin"}
            BY <2>2 DEF normalizeGrade, Admits
        <3> QED BY <1>1, <1>3, <3>1
    <2>3. CASE min \notin {"admin", "developer", "dev"}
        <3>1. Admits(min) = StoredGrades
            BY <2>3 DEF Admits
        <3>2. normalizeGrade(min) \notin {"admin", "developer", "dev"}
            BY <2>3 DEF normalizeGrade
        <3>3. gradeRank(normalizeGrade(min)) \in {0, 1}
            BY <3>2 DEF gradeRank
        <3> QED BY <1>3, <3>1, <3>3
    <2> QED BY <2>1, <2>2, <2>3
<1>5. \A min \in StoredGrades : normalizeGrade(min) = min
    BY DEF StoredGrades, normalizeGrade
<1> QED BY <1>4, <1>5

\* The effective grade of a topic is no lower than the app's or the request's.
LEMMA MaxGradeBounds ==
    ASSUME NEW a, NEW b, NEW g, gradeRank(g) >= gradeRank(maxGrade(a, b))
    PROVE  gradeRank(g) >= gradeRank(a) /\ gradeRank(g) >= gradeRank(b)
<1>1. \A x : gradeRank(x) \in Nat
    BY DEF gradeRank
<1> QED BY <1>1 DEF maxGrade

-----------------------------------------------------------------------------
(***************************************************************************)
(* Rows and verdicts, for every list of recipients and every join order.  A *)
(* list that names a user more than once has a first row with that user,   *)
(* which the "seen" map keeps, and a join order is a permutation: so the   *)
(* rows the loop keeps correspond one to one to the users that are listed. *)
(***************************************************************************)

\* A set of numbers has a least one.
LEMMA LeastNumber ==
    ASSUME NEW S \in SUBSET Nat, S # {}
    PROVE  \E m \in S : \A x \in S : m <= x
<1>1. PICK m \in S : \A x \in S : ~(<<x, m>> \in OpToRel(<, Nat))
    BY NatLessThanWellFounded, WFMin
<1>2. ASSUME NEW x \in S PROVE m <= x
    <2>1. <<x, m>> \in Nat \X Nat /\ x \in Nat /\ m \in Nat
        OBVIOUS
    <2>2. ~(x < m)
        BY <1>1, <2>1 DEF OpToRel
    <2> QED BY <2>1, <2>2
<1> QED BY <1>2

\* A direct recipient is exactly a user who passes the five checks, and no
\* known user is reported as unknown.
LEMMA DirectCodeIff ==
    ASSUME NEW u
    PROVE  /\ DirectCode(u) = "ok" <=> u.active /\ u.sub /\ u.linked /\ u.admin /\ u.topic
           /\ DirectCode(u) # "unknown_recipient"
<1> DEFINE checks == <<
        <<u.active, "recipient_inactive">>, <<u.sub, "recipient_not_subscribed">>,
        <<u.linked, "recipient_not_linked">>, <<u.admin, "bot_not_admin">>,
        <<u.topic, "recipient_topic_missing">> >>
<1>1. /\ checks[1][1] = u.active /\ checks[2][1] = u.sub /\ checks[3][1] = u.linked
      /\ checks[4][1] = u.admin /\ checks[5][1] = u.topic
    OBVIOUS
<1>2. DOMAIN checks = 1..5 /\ \A i \in 1..5 : checks[i][2] # "unknown_recipient"
    OBVIOUS
<1>3. DirectCode(u) = FirstFailing(checks)
    BY DEF DirectCode
<1> HIDE DEF checks
<1>4. u.active /\ u.sub /\ u.linked /\ u.admin /\ u.topic => \A i \in 1..5 : checks[i][1]
    <2>1. \A i \in 1..5 : i \in {1, 2, 3, 4, 5}
        OBVIOUS
    <2> QED BY <1>1, <2>1
<1>5. /\ (\A i \in 1..5 : checks[i][1]) => FirstFailing(checks) = "ok"
      /\ FirstFailing(checks) # "unknown_recipient"
    BY <1>2, FirstFailingIn
<1>6. u.active /\ u.sub /\ u.linked /\ u.admin /\ u.topic => DirectCode(u) = "ok"
    BY <1>3, <1>4, <1>5
<1>7. DirectCode(u) = "ok" => u.active /\ u.sub /\ u.linked /\ u.admin /\ u.topic
    BY DirectCodeOk
<1> QED BY <1>3, <1>5, <1>6, <1>7

\* The same of a topic recipient.
LEMMA TopicCodeIff ==
    ASSUME NEW u, NEW min
    PROVE  /\ TopicCode(u, min) = "ok" <=>
                 gradeRank(u.grade) >= gradeRank(min) /\ u.linked /\ u.admin /\ u.topic
           /\ TopicCode(u, min) # "unknown_recipient"
<1> DEFINE high == gradeRank(u.grade) >= gradeRank(min)
           checks == <<
        <<high, "grade_insufficient">>, <<u.linked, "recipient_not_linked">>,
        <<u.admin, "bot_not_admin">>, <<u.topic, "recipient_topic_missing">> >>
<1>1. TopicCode(u, min) = FirstFailing(checks)
    BY DEF TopicCode
<1> HIDE DEF high
<1>2. /\ checks[1][1] = high /\ checks[2][1] = u.linked
      /\ checks[3][1] = u.admin /\ checks[4][1] = u.topic
    OBVIOUS
<1>3. DOMAIN checks = 1..4 /\ \A i \in 1..4 : checks[i][2] # "unknown_recipient"
    OBVIOUS
<1> HIDE DEF checks
<1>4. high /\ u.linked /\ u.admin /\ u.topic => \A i \in 1..4 : checks[i][1]
    <2>1. \A i \in 1..4 : i \in {1, 2, 3, 4}
        OBVIOUS
    <2> QED BY <1>2, <2>1
<1>5. /\ high /\ u.linked /\ u.admin /\ u.topic => TopicCode(u, min) = "ok"
      /\ TopicCode(u, min) # "unknown_recipient"
    BY <1>1, <1>3, <1>4, FirstFailingIn
<1> QED BY <1>5, TopicCodeOk DEF high

\* The same of a broadcast recipient.
LEMMA BroadcastCodeIff ==
    ASSUME NEW u, NEW min
    PROVE  /\ BroadcastCode(u, min) = "ok" <=>
                 gradeRank(u.grade) >= gradeRank(min) /\ u.linked /\ u.admin
           /\ BroadcastCode(u, min) # "unknown_recipient"
<1> DEFINE high == gradeRank(u.grade) >= gradeRank(min)
           checks == <<
        <<high, "grade_insufficient">>, <<u.linked, "recipient_not_linked">>,
        <<u.admin, "bot_not_admin">> >>
<1>1. BroadcastCode(u, min) = FirstFailing(checks)
    BY DEF BroadcastCode
<1> HIDE DEF high
<1>2. checks[1][1] = high /\ checks[2][1] = u.linked /\ checks[3][1] = u.admin
    OBVIOUS
<1>3. DOMAIN checks = 1..3 /\ \A i \in 1..3 : checks[i][2] # "unknown_recipient"
    OBVIOUS
<1> HIDE DEF checks
<1>4. high /\ u.linked /\ u.admin => \A i \in 1..3 : checks[i][1]
    <2>1. \A i \in 1..3 : i \in {1, 2, 3}
        OBVIOUS
    <2> QED BY <1>2, <2>1
<1>5. /\ high /\ u.linked /\ u.admin => BroadcastCode(u, min) = "ok"
      /\ BroadcastCode(u, min) # "unknown_recipient"
    BY <1>1, <1>3, <1>4, FirstFailingIn
<1> QED BY <1>5, BroadcastCodeOk DEF high

\* A join order leaves out no position.
LEMMA OrderOnto ==
    ASSUME NEW n \in Nat, NEW ord \in RowOrders(n), NEW k \in 1..n
    PROVE  \E i \in 1..n : ord[i] = k
<1>1. ord \in Injection(1..n, 1..n)
    BY DEF RowOrders, Injection, IsInjective
<1>2. IsFiniteSet(1..n)
    BY FS_Interval
<1>3. ord \in Surjection(1..n, 1..n)
    BY <1>1, <1>2, FS_Injection
<1> QED BY <1>3 DEF Surjection

\* The first row with a given key is kept.
LEMMA FirstRow ==
    ASSUME NEW n \in Nat, NEW key, NEW k \in 1..n
    PROVE  \E i \in 1..n : key[i] = key[k] /\ NotSeen(key, i)
<1> DEFINE S == {i \in 1..n : key[i] = key[k]}
<1>1. S \in SUBSET Nat /\ S # {}
    OBVIOUS
<1>2. PICK i \in S : \A j \in S : i <= j
    <2> HIDE DEF S
    <2> QED BY <1>1, LeastNumber
<1>3. \A j \in 1..(i - 1) : j \in 1..n /\ ~(i <= j)
    OBVIOUS
<1>4. NotSeen(key, i)
    BY <1>2, <1>3 DEF NotSeen
<1> QED BY <1>2, <1>4

\* A one-to-one image is as large as its set.
LEMMA OneToOne ==
    ASSUME NEW S, IsFiniteSet(S), NEW T, NEW g \in [S -> T],
           \A x, y \in S : g[x] = g[y] => x = y,
           \A t \in T : \E x \in S : g[x] = t
    PROVE  IsFiniteSet(T) /\ Cardinality(T) = Cardinality(S)
<1>1. g \in Bijection(S, T)
    BY DEF Bijection, Injection, Surjection, IsInjective
<1>2. ExistsBijection(S, T)
    BY <1>1 DEF ExistsBijection
<1> QED BY <1>2, FS_Bijection

\* Rows of a known key that the "seen" map keeps have different keys.
LEMMA KeptOnce ==
    ASSUME NEW n \in Nat, NEW key, NEW i \in 1..n, NEW j \in 1..n,
           NotSeen(key, i), NotSeen(key, j), key[i] = key[j]
    PROVE  i = j
<1> SUFFICES ASSUME i # j PROVE FALSE
    OBVIOUS
<1>1. i \in 1..(j - 1) \/ j \in 1..(i - 1)
    OBVIOUS
<1> QED BY <1>1 DEF NotSeen

\* The rows of known keys the loop keeps, the rows of unknown keys, the
\* positions of the request with a known key and the keys there, all the rows
\* the loop keeps, and the key of each row of the join.
KeptOf(key, Known, n) == {k \in 1..n : key[k] \in Known /\ NotSeen(key, k)}
UnknownOf(key, Known, n) == {k \in 1..n : key[k] \notin Known}
KnownAt(ids, Known, n) == {i \in 1..n : ids[i] \in Known}
ListedOf(ids, Known, n) == {ids[i] : i \in KnownAt(ids, Known, n)}
RowsOf(key, Known, n) == {k \in 1..n : key[k] \in Known => NotSeen(key, k)}
KeyOf(ids, ord) == [i \in DOMAIN ids |-> ids[ord[i]]]
JoinOf(key, ids, ord, n) == \A i \in 1..n : key[i] = ids[ord[i]]

\* The items f makes of the rows in F, those that are not "unknown_recipient",
\* and the users of a set of items.
ItemsOf(f, F) == {f[i] : i \in F}
DecidedOf(its) == {it \in its : it.code # "unknown_recipient"}
UsersOf(its) == {it.user : it \in its}

\* The loop keeps as many rows of known keys as different known keys are listed,
\* and as many rows of unknown keys as there are positions with one.
LEMMA KeptRows ==
    ASSUME NEW n \in Nat, NEW ids, NEW ord \in RowOrders(n), NEW Known,
           NEW key, JoinOf(key, ids, ord, n)
    PROVE  /\ IsFiniteSet(KeptOf(key, Known, n))
           /\ Cardinality(KeptOf(key, Known, n)) = Cardinality(ListedOf(ids, Known, n))
           /\ IsFiniteSet(UnknownOf(key, Known, n))
           /\ Cardinality(UnknownOf(key, Known, n))
                = n - Cardinality(KnownAt(ids, Known, n))
<1> DEFINE G == KeptOf(key, Known, n)
           Q == UnknownOf(key, Known, n)
           P == KnownAt(ids, Known, n)
           L == ListedOf(ids, Known, n)
           K == {k \in 1..n : key[k] \in Known}
<1> USE DEF KeptOf, UnknownOf, KnownAt, ListedOf, JoinOf
<1>1. \A i \in 1..n : ord[i] \in 1..n
    BY DEF RowOrders
<1>2. \A i, j \in 1..n : ord[i] = ord[j] => i = j
    BY DEF RowOrders
<1>3. IsFiniteSet(1..n) /\ Cardinality(1..n) = n
    BY FS_Interval
<1>4. IsFiniteSet(G) /\ IsFiniteSet(Q) /\ IsFiniteSet(P) /\ IsFiniteSet(K)
    <2>1. G \subseteq 1..n /\ Q \subseteq 1..n /\ P \subseteq 1..n /\ K \subseteq 1..n
        OBVIOUS
    <2> QED BY <1>3, <2>1, FS_Subset
<1>5. Cardinality(L) = Cardinality(G)
    <2> DEFINE g == [i \in G |-> key[i]]
    <2>1. \A i \in G : key[i] \in L
        <3> SUFFICES ASSUME NEW i \in G PROVE key[i] \in L
            OBVIOUS
        <3>1. ord[i] \in P /\ key[i] = ids[ord[i]]
            BY <1>1
        <3> QED BY <3>1
    <2>2. ASSUME NEW l \in L PROVE \E i \in G : key[i] = l
        <3>1. PICK p \in P : l = ids[p]
            OBVIOUS
        <3>2. PICK k \in 1..n : ord[k] = p
            BY OrderOnto
        <3>3. key[k] = l /\ l \in Known
            BY <3>1, <3>2
        <3>4. PICK i \in 1..n : key[i] = key[k] /\ NotSeen(key, i)
            BY FirstRow
        <3> QED BY <3>3, <3>4
    <2>3. \A i, j \in G : key[i] = key[j] => i = j
        BY KeptOnce
    <2>4. g \in [G -> L]
        BY <2>1
    <2>5. \A i, j \in G : g[i] = g[j] => i = j
        BY <2>3
    <2>6. \A l \in L : \E i \in G : g[i] = l
        BY <2>2
    <2> HIDE DEF g, L
    <2> QED BY <1>4, <2>4, <2>5, <2>6, OneToOne
<1>6. Cardinality(P) = Cardinality(K)
    <2> DEFINE g == [i \in K |-> ord[i]]
    <2>1. g \in [K -> P]
        BY <1>1
    <2>2. \A i, j \in K : g[i] = g[j] => i = j
        BY <1>2
    <2>3. ASSUME NEW p \in P PROVE \E i \in K : g[i] = p
        <3>1. PICK i \in 1..n : ord[i] = p
            BY OrderOnto
        <3>2. key[i] \in Known
            BY <3>1
        <3> QED BY <3>1, <3>2
    <2> HIDE DEF g, K
    <2> QED BY <1>4, <2>1, <2>2, <2>3, OneToOne
<1>7. Cardinality(Q) = n - Cardinality(K)
    <2>1. (1..n) \ K = Q /\ (1..n) \cap K = K
        OBVIOUS
    <2> HIDE DEF K
    <2> QED BY <1>3, <2>1, FS_Difference
<1> QED BY <1>4, <1>5, <1>6, <1>7

\* The loop over the rows F of a join makes the item f[i] of row i.
LoopOf(f, F, key, ids, ord, Known, n) ==
    /\ n \in Nat /\ ord \in RowOrders(n) /\ JoinOf(key, ids, ord, n)
    /\ F = RowsOf(key, Known, n)
    /\ \A i \in F : f[i].idx = i
    /\ \A i \in F : f[i].code = "unknown_recipient" <=> key[i] \notin Known
    /\ \A i, j \in F : (/\ key[i] \in Known /\ key[j] \in Known
                        /\ f[i].user = f[j].user) => key[i] = key[j]

\* One verdict per listed key, for one user each, and one per unknown position.
CountedOf(its, ids, Known, n) ==
    /\ Cardinality(DecidedOf(its)) = Cardinality(ListedOf(ids, Known, n))
    /\ Cardinality(UsersOf(DecidedOf(its))) = Cardinality(DecidedOf(its))
    /\ IsFiniteSet(its \ DecidedOf(its))
    /\ Cardinality(its \ DecidedOf(its)) = n - Cardinality(KnownAt(ids, Known, n))
    /\ \A a, b \in DecidedOf(its) : a.user = b.user => a = b

\* The items of the loop are counted so.
LEMMA VerdictCounts ==
    ASSUME NEW f, NEW F, NEW key, NEW ids, NEW ord, NEW Known, NEW n,
           LoopOf(f, F, key, ids, ord, Known, n)
    PROVE  CountedOf(ItemsOf(f, F), ids, Known, n)
<1> DEFINE its == ItemsOf(f, F)
           V == DecidedOf(its)
           P == KnownAt(ids, Known, n)
<1>0. /\ n \in Nat /\ ord \in RowOrders(n) /\ JoinOf(key, ids, ord, n)
      /\ F = RowsOf(key, Known, n)
      /\ \A i \in F : f[i].idx = i
      /\ \A i \in F : f[i].code = "unknown_recipient" <=> key[i] \notin Known
      /\ \A i, j \in F : (/\ key[i] \in Known /\ key[j] \in Known
                          /\ f[i].user = f[j].user) => key[i] = key[j]
    BY DEF LoopOf
<1> DEFINE G == KeptOf(key, Known, n)
           Q == UnknownOf(key, Known, n)
<1> USE DEF ItemsOf, DecidedOf, UsersOf
<1>1. /\ IsFiniteSet(G) /\ Cardinality(G) = Cardinality(ListedOf(ids, Known, n))
      /\ IsFiniteSet(Q) /\ Cardinality(Q) = n - Cardinality(P)
    BY <1>0, KeptRows
<1>2. F = G \union Q
    BY <1>0 DEF KeptOf, UnknownOf, RowsOf
<1>3. \A i \in G : i \in F /\ i \in 1..n /\ key[i] \in Known /\ NotSeen(key, i)
    BY <1>0 DEF KeptOf, RowsOf
<1>4. \A i \in Q : i \in F /\ key[i] \notin Known
    BY <1>0 DEF UnknownOf, RowsOf
<1> HIDE DEF G, Q
<1>5. \A i \in G : f[i] \in V
    BY <1>0, <1>3
<1>6. ASSUME NEW it \in V PROVE \E i \in G : it = f[i]
    <2>1. PICK i \in F : it = f[i]
        OBVIOUS
    <2>2. key[i] \in Known
        BY <1>0, <2>1
    <2> QED BY <1>2, <1>4, <2>1, <2>2
<1>7. \A i \in Q : f[i] \in its \ V
    BY <1>0, <1>4
<1>8. ASSUME NEW it \in its \ V PROVE \E i \in Q : it = f[i]
    <2>1. PICK i \in F : it = f[i]
        OBVIOUS
    <2>2. key[i] \notin Known
        BY <1>0, <2>1
    <2> QED BY <1>2, <1>3, <2>1, <2>2
<1>9. Cardinality(V) = Cardinality(G) /\ IsFiniteSet(V)
    <2> DEFINE g == [i \in G |-> f[i]]
    <2>1. g \in [G -> V]
        BY <1>5
    <2>2. \A i, j \in G : g[i] = g[j] => i = j
        BY <1>0, <1>3
    <2>3. \A it \in V : \E i \in G : g[i] = it
        BY <1>6
    <2> HIDE DEF g
    <2> QED BY <1>1, <2>1, <2>2, <2>3, OneToOne
<1>10. Cardinality(its \ V) = Cardinality(Q) /\ IsFiniteSet(its \ V)
    <2> DEFINE g == [i \in Q |-> f[i]]
    <2>1. g \in [Q -> its \ V]
        BY <1>7
    <2>2. \A i, j \in Q : g[i] = g[j] => i = j
        BY <1>0, <1>4
    <2>3. \A it \in its \ V : \E i \in Q : g[i] = it
        BY <1>8
    <2> HIDE DEF g
    <2> QED BY <1>1, <2>1, <2>2, <2>3, OneToOne
<1>11. /\ Cardinality({it.user : it \in V}) = Cardinality(V)
       /\ \A a, b \in V : a.user = b.user => a = b
    <2> DEFINE U == {it.user : it \in V}
               h == [it \in V |-> it.user]
    <2>1. ASSUME NEW a \in V, NEW b \in V, a.user = b.user PROVE a = b
        <3>1. PICK i \in G : a = f[i]
            BY <1>6
        <3>2. PICK j \in G : b = f[j]
            BY <1>6
        <3>3. key[i] = key[j]
            BY <1>0, <1>3, <2>1, <3>1, <3>2
        <3>4. i = j
            BY <1>0, <1>3, <3>3, KeptOnce
        <3> QED BY <3>1, <3>2, <3>4
    <2>2. h \in [V -> U] /\ \A u \in U : \E it \in V : h[it] = u
        OBVIOUS
    <2>3. \A a, b \in V : h[a] = h[b] => a = b
        BY <2>1
    <2> HIDE DEF h, U
    <2>4. Cardinality(U) = Cardinality(V)
        BY <1>9, <2>2, <2>3, OneToOne
    <2> QED BY <2>1, <2>4 DEF U
<1> QED BY <1>1, <1>9, <1>10, <1>11 DEF CountedOf

\* Every row the loop keeps has a listed key, and every listed key has one.
KeysOf(ids) == {ids[p] : p \in DOMAIN ids}
ListsAll(F, key, ids) ==
    /\ \A i \in F : key[i] \in KeysOf(ids)
    /\ \A k \in KeysOf(ids) : \E i \in F : key[i] = k

\* So do the rows of a join.
LEMMA ListedRows ==
    ASSUME NEW f, NEW F, NEW key, NEW ids, NEW ord, NEW Known, NEW n,
           LoopOf(f, F, key, ids, ord, Known, n), DOMAIN ids = 1..n
    PROVE  ListsAll(F, key, ids)
<1>0. /\ n \in Nat /\ ord \in RowOrders(n) /\ JoinOf(key, ids, ord, n)
      /\ F = RowsOf(key, Known, n)
    BY DEF LoopOf
<1>1. \A i \in 1..n : ord[i] \in 1..n
    BY <1>0 DEF RowOrders
<1>2. \A i \in F : i \in 1..n
    BY <1>0 DEF RowsOf
<1>3. ASSUME NEW p \in 1..n PROVE \E i \in F : key[i] = ids[p]
    <2>1. PICK k \in 1..n : ord[k] = p
        BY <1>0, OrderOnto
    <2>2. PICK i \in 1..n : key[i] = key[k] /\ NotSeen(key, i)
        BY <1>0, FirstRow
    <2>3. i \in F
        BY <1>0, <2>2 DEF RowsOf
    <2> QED BY <1>0, <2>1, <2>2, <2>3 DEF JoinOf
<1>4. \A i \in F : key[i] = ids[ord[i]] /\ ord[i] \in DOMAIN ids
    BY <1>0, <1>1, <1>2 DEF JoinOf
<1>5. \A i \in F : key[i] \in KeysOf(ids)
    BY <1>4 DEF KeysOf
<1>6. \A k \in KeysOf(ids) : \E i \in F : key[i] = k
    BY <1>3 DEF KeysOf
<1> QED BY <1>5, <1>6 DEF ListsAll

-----------------------------------------------------------------------------
(* The rows and items of the two resolvers that take a list. *)

DirectItems(users, ids, ord) ==
    [i \in RowsOf(KeyOf(ids, ord), DOMAIN users, Len(ids)) |->
        DirectItem(users, ids, ord, i)]

\* ResolveDirect keeps the first row of every listed user.
LEMMA DirectRows ==
    ASSUME NEW users, DOMAIN users \subseteq Nat,
           NEW ids \in Seq(Nat), NEW ord \in RowOrders(Len(ids)),
           NEW key, key = KeyOf(ids, ord),
           NEW F, F = RowsOf(key, DOMAIN users, Len(ids)),
           NEW f, f = DirectItems(users, ids, ord)
    PROVE  /\ JoinOf(key, ids, ord, Len(ids))
           /\ ResolveDirect(users, ids, ord) = {f[i] : i \in F}
           /\ \A i \in F :
                 /\ f[i].idx = i
                 /\ f[i].code = "unknown_recipient" <=> key[i] \notin DOMAIN users
                 /\ key[i] \in DOMAIN users =>
                       f[i].user = key[i] /\ f[i].code = DirectCode(users[key[i]])
<1> USE DEF KeyOf, RowsOf, DirectItems
<1>1. DOMAIN ids = 1..Len(ids) /\ ord \in [1..Len(ids) -> 1..Len(ids)]
    BY DEF RowOrders
<1>2. \A i \in 1..Len(ids) : key[i] = ids[ord[i]]
    BY <1>1
<1>3. ResolveDirect(users, ids, ord) = {DirectItem(users, ids, ord, i) : i \in F}
    BY <1>1 DEF ResolveDirect
<1>4. ASSUME NEW i \in F
      PROVE  /\ f[i].idx = i
             /\ f[i].code = "unknown_recipient" <=> key[i] \notin DOMAIN users
             /\ key[i] \in DOMAIN users =>
                   f[i].user = key[i] /\ f[i].code = DirectCode(users[key[i]])
    <2>1. f[i] = DirectItem(users, ids, ord, i) /\ key[i] = ids[ord[i]]
        BY <1>2
    <2>2. CASE key[i] \in DOMAIN users
        <3>1. f[i] = [idx |-> i, user |-> key[i], code |-> DirectCode(users[key[i]])]
            BY <2>1, <2>2 DEF DirectItem
        <3> QED BY <2>2, <3>1, DirectCodeIff
    <2>3. CASE key[i] \notin DOMAIN users
        <3>1. f[i] = [idx |-> i, user |-> ids[i], code |-> "unknown_recipient"]
            BY <2>1, <2>3 DEF DirectItem
        <3> QED BY <2>3, <3>1
    <2> QED BY <2>2, <2>3
<1>5. {DirectItem(users, ids, ord, i) : i \in F} = {f[i] : i \in F}
    OBVIOUS
<1> QED BY <1>2, <1>3, <1>4, <1>5 DEF JoinOf

TelegramIds(users) == {users[u].tg : u \in DOMAIN users}

DMItems(users, ids, ord) ==
    [i \in RowsOf(KeyOf(ids, ord), TelegramIds(users), Len(ids)) |->
        DMItem(users, ids, ord, i)]

\* ResolveDirectDM keeps the first row of every listed Telegram id.
LEMMA DMRows ==
    ASSUME NEW users, DOMAIN users \subseteq Nat,
           NEW ids \in Seq(Nat), NEW ord \in RowOrders(Len(ids)),
           NEW key, key = KeyOf(ids, ord),
           NEW F, F = RowsOf(key, TelegramIds(users), Len(ids)),
           NEW f, f = DMItems(users, ids, ord)
    PROVE  /\ JoinOf(key, ids, ord, Len(ids))
           /\ ResolveDirectDM(users, ids, ord) = {f[i] : i \in F}
           /\ \A i \in F :
                 /\ f[i].idx = i
                 /\ f[i].code = "unknown_recipient" <=> key[i] \notin TelegramIds(users)
                 /\ key[i] \in TelegramIds(users) =>
                       /\ f[i].user \in DOMAIN users /\ users[f[i].user].tg = key[i]
                       /\ f[i].code = DMCode(users[f[i].user])
<1> USE DEF KeyOf, RowsOf, DMItems
<1>1. DOMAIN ids = 1..Len(ids) /\ ord \in [1..Len(ids) -> 1..Len(ids)]
    BY DEF RowOrders
<1>2. \A i \in 1..Len(ids) : key[i] = ids[ord[i]]
    BY <1>1
<1>3. ResolveDirectDM(users, ids, ord) = {DMItem(users, ids, ord, i) : i \in F}
    BY <1>1 DEF ResolveDirectDM, TelegramIds
<1>4. ASSUME NEW i \in F
      PROVE  /\ f[i].idx = i
             /\ f[i].code = "unknown_recipient" <=> key[i] \notin TelegramIds(users)
             /\ key[i] \in TelegramIds(users) =>
                   /\ f[i].user \in DOMAIN users /\ users[f[i].user].tg = key[i]
                   /\ f[i].code = DMCode(users[f[i].user])
    <2> DEFINE match == {u \in DOMAIN users : users[u].tg = key[i]}
               chosen == CHOOSE u \in match : TRUE
    <2>1. f[i] = DMItem(users, ids, ord, i) /\ key[i] = ids[ord[i]]
        BY <1>2
    <2>2. key[i] \in TelegramIds(users) <=> match # {}
        BY DEF TelegramIds
    <2>3. CASE match = {}
        <3>1. f[i] = [idx |-> i, user |-> key[i], code |-> "unknown_recipient"]
            BY <2>1, <2>3 DEF DMItem
        <3>2. f[i].idx = i /\ f[i].code = "unknown_recipient"
            BY <3>1
        <3> HIDE DEF match
        <3> QED BY <2>2, <2>3, <3>2
    <2>4. CASE match # {}
        <3>1. chosen \in match
            BY <2>4
        <3>2. f[i] = [idx |-> i, user |-> chosen, code |-> DMCode(users[chosen])]
            BY <2>1, <2>4 DEF DMItem
        <3>3. DMCode(users[chosen]) # "unknown_recipient"
            BY DEF DMCode
        <3>4. chosen \in DOMAIN users /\ users[chosen].tg = key[i]
            BY <3>1
        <3> HIDE DEF match, chosen
        <3>5. /\ f[i].idx = i /\ f[i].user = chosen
              /\ f[i].code = DMCode(users[chosen])
            BY <3>2
        <3> QED BY <2>2, <2>4, <3>3, <3>4, <3>5
    <2> QED BY <2>3, <2>4
<1>5. {DMItem(users, ids, ord, i) : i \in F} = {f[i] : i \in F}
    OBVIOUS
<1> QED BY <1>2, <1>3, <1>4, <1>5 DEF JoinOf

-----------------------------------------------------------------------------
(* What the resolvers return. *)

\* ResolveDirect: one verdict per place, no recipient twice, and each recipient
\* a known user who passes the checks.
LEMMA DirectResolved ==
    ASSUME NEW users, DOMAIN users \subseteq Nat,
           NEW ids \in Seq(Nat), NEW ord \in RowOrders(Len(ids)),
           NEW its, its = ResolveDirect(users, ids, ord)
    PROVE  /\ Verdicts(its)
           /\ \A it \in Recipients(its) :
                 it.user \in DOMAIN users /\ DirectCode(users[it.user]) = "ok"
<1> DEFINE key == [i \in DOMAIN ids |-> ids[ord[i]]]
           known(k) == key[k] \in DOMAIN users
           rows == {k \in DOMAIN ids : known(k) => NotSeen(key, k)}
<1>1. DOMAIN ids = 1..Len(ids) /\ Len(ids) \in Nat /\ ord \in [1..Len(ids) -> 1..Len(ids)]
    BY DEF RowOrders
<1>2. \A i \in DOMAIN ids : ids[i] \in Nat /\ key[i] = ids[ord[i]] /\ key[i] \in Nat
    BY <1>1
<1>3. its = {DirectItem(users, ids, ord, i) : i \in rows}
    BY DEF ResolveDirect
<1>4. ASSUME NEW i \in rows
      PROVE  LET it == DirectItem(users, ids, ord, i) IN
             /\ it.idx = i /\ it.user \in Nat
             /\ it = [idx |-> it.idx, user |-> it.user, code |-> it.code]
             /\ known(i) => it.user = key[i] /\ it.code = DirectCode(users[key[i]])
             /\ it.code = "ok" => known(i)
    BY <1>2 DEF DirectItem
<1>5. \A i, j \in rows : known(i) /\ key[i] = key[j] => i = j
    <2> SUFFICES ASSUME NEW i \in rows, NEW j \in rows, known(i), key[i] = key[j], i # j
                 PROVE  FALSE
        OBVIOUS
    <2>1. i \in Nat /\ j \in Nat /\ i > 0 /\ j > 0
        BY <1>1
    <2>2. NotSeen(key, i) /\ NotSeen(key, j)
        OBVIOUS
    <2>3. i \in 1..(j - 1) \/ j \in 1..(i - 1)
        BY <2>1
    <2> QED BY <2>2, <2>3 DEF NotSeen
<1> HIDE DEF key, rows, known
<1>6. \A it \in its : \E i \in rows : it = DirectItem(users, ids, ord, i)
    BY <1>3
<1>7. \A it \in its : /\ it.idx \in Nat /\ it.user \in Nat
                       /\ it = [idx |-> it.idx, user |-> it.user, code |-> it.code]
    BY <1>1, <1>4, <1>6 DEF rows
<1>8. \A a, b \in its : a.idx = b.idx => a = b
    BY <1>4, <1>6
<1>9. \A a, b \in Recipients(its) : a.user = b.user => a = b
    BY <1>4, <1>5, <1>6 DEF Recipients
<1>10. \A it \in Recipients(its) :
          it.user \in DOMAIN users /\ DirectCode(users[it.user]) = "ok"
    BY <1>4, <1>6 DEF Recipients, known
<1> QED BY <1>7, <1>8, <1>9, <1>10 DEF Verdicts

\* ResolveDirectDM: the same, with a user found by telegram id.
LEMMA DirectDMResolved ==
    ASSUME NEW users, DOMAIN users \subseteq Nat,
           NEW ids \in Seq(Nat), NEW ord \in RowOrders(Len(ids)),
           NEW its, its = ResolveDirectDM(users, ids, ord)
    PROVE  /\ Verdicts(its)
           /\ \A it \in Recipients(its) :
                 it.user \in DOMAIN users /\ DMCode(users[it.user]) = "ok"
<1> DEFINE key == [i \in DOMAIN ids |-> ids[ord[i]]]
           tgs == {users[u].tg : u \in DOMAIN users}
           known(k) == key[k] \in tgs
           rows == {k \in DOMAIN ids : known(k) => NotSeen(key, k)}
<1>1. DOMAIN ids = 1..Len(ids) /\ Len(ids) \in Nat /\ ord \in [1..Len(ids) -> 1..Len(ids)]
    BY DEF RowOrders
<1>2. \A i \in DOMAIN ids : ids[i] \in Nat /\ key[i] = ids[ord[i]] /\ key[i] \in Nat
    BY <1>1
<1>3. its = {DMItem(users, ids, ord, i) : i \in rows}
    BY DEF ResolveDirectDM
<1>4. ASSUME NEW i \in rows
      PROVE  LET it == DMItem(users, ids, ord, i) IN
             /\ it.idx = i /\ it.user \in Nat
             /\ it = [idx |-> it.idx, user |-> it.user, code |-> it.code]
             /\ known(i) => /\ it.user \in DOMAIN users /\ users[it.user].tg = key[i]
                            /\ it.code = DMCode(users[it.user])
             /\ it.code = "ok" => known(i)
    <2> DEFINE match == {u \in DOMAIN users : users[u].tg = key[i]}
               chosen == CHOOSE u \in match : TRUE
    <2>0. key[i] = ids[ord[i]] /\ key[i] \in Nat
        BY <1>2
    <2>1. known(i) <=> match # {}
        OBVIOUS
    <2>2. CASE match = {}
        <3>1. DMItem(users, ids, ord, i) = [idx |-> i, user |-> key[i], code |-> "unknown_recipient"]
            BY <2>0, <2>2 DEF DMItem
        <3> QED BY <2>0, <2>1, <2>2, <3>1
    <2>3. CASE match # {}
        <3>1. chosen \in match
            BY <2>3
        <3>2. DMItem(users, ids, ord, i) = [idx |-> i, user |-> chosen, code |-> DMCode(users[chosen])]
            BY <2>0, <2>3 DEF DMItem
        <3> QED BY <2>0, <2>1, <2>3, <3>1, <3>2
    <2> QED BY <2>2, <2>3
<1>5. \A i, j \in rows : known(i) /\ key[i] = key[j] => i = j
    <2> SUFFICES ASSUME NEW i \in rows, NEW j \in rows, known(i), key[i] = key[j], i # j
                 PROVE  FALSE
        OBVIOUS
    <2>1. i \in Nat /\ j \in Nat /\ i > 0 /\ j > 0
        BY <1>1
    <2>2. NotSeen(key, i) /\ NotSeen(key, j)
        OBVIOUS
    <2>3. i \in 1..(j - 1) \/ j \in 1..(i - 1)
        BY <2>1
    <2> QED BY <2>2, <2>3 DEF NotSeen
<1> HIDE DEF key, rows, known
<1>6. \A it \in its : \E i \in rows : it = DMItem(users, ids, ord, i)
    BY <1>3
<1>7. \A it \in its : /\ it.idx \in Nat /\ it.user \in Nat
                       /\ it = [idx |-> it.idx, user |-> it.user, code |-> it.code]
    BY <1>1, <1>4, <1>6 DEF rows
<1>8. \A a, b \in its : a.idx = b.idx => a = b
    BY <1>4, <1>6
<1>9. \A a, b \in Recipients(its) : a.user = b.user => a = b
    BY <1>4, <1>5, <1>6 DEF Recipients
<1>10. \A it \in Recipients(its) :
          it.user \in DOMAIN users /\ DMCode(users[it.user]) = "ok"
    BY <1>4, <1>6 DEF Recipients
<1> QED BY <1>7, <1>8, <1>9, <1>10 DEF Verdicts

\* What any resolver returns: one verdict per place, no recipient twice, and
\* each recipient qualified, going by the users at the query and by any app row
\* that has the minimum grade of the lookup.
LEMMA ResolvedQualifies ==
    ASSUME NEW m \in Reqs, input[m] \in Inputs, IsRegistry(reg),
           NEW its \in Resolved(m)
    PROVE  /\ Verdicts(its)
           /\ \A it \in Recipients(its) : \A app \in AppRow :
                 (NamesApp(input[m].strat) => app.active /\ app.min = appMin[m])
                     => Qualifies(input[m], app, reg.users[it.user])
<1> DEFINE in == input[m]
           users == reg.users
<1>1. /\ in.strat \in Strategies /\ in.ids \in Seq(Nat) /\ DOMAIN users \subseteq Nat
      /\ \A u \in DOMAIN users : users[u].grade \in StoredGrades
    BY DispatchAssumption DEF IsRegistry, UserRow
<1>2. CASE in.strat = "direct"
    <2>1. PICK ord \in RowOrders(Len(in.ids)) : its = ResolveDirect(users, in.ids, ord)
        BY <1>2 DEF Resolved
    <2>2. /\ Verdicts(its)
          /\ \A it \in Recipients(its) : DirectCode(users[it.user]) = "ok"
        BY <1>1, <2>1, DirectResolved
    <2>3. \A it \in Recipients(its) :
             LET u == users[it.user] IN u.active /\ u.sub /\ u.linked /\ u.admin /\ u.topic
        BY <2>2, DirectCodeOk
    <2> QED BY <1>2, <2>2, <2>3 DEF Qualifies, NamesApp
<1>3. CASE in.strat = "direct_dm"
    <2>1. PICK ord \in RowOrders(Len(in.ids)) : its = ResolveDirectDM(users, in.ids, ord)
        BY <1>3 DEF Resolved
    <2>2. /\ Verdicts(its)
          /\ \A it \in Recipients(its) : DMCode(users[it.user]) = "ok"
        BY <1>1, <2>1, DirectDMResolved
    <2>3. \A it \in Recipients(its) : users[it.user].active
        BY <2>2 DEF DMCode
    <2> QED BY <1>3, <2>2, <2>3 DEF Qualifies, NamesApp
<1>4. CASE in.strat = "topic"
    <2> DEFINE low == maxGrade(appMin[m], normalizeGrade(in.min))
               rows == {v \in DOMAIN users : users[v].sub /\ users[v].active}
    <2>1. its = {[idx |-> u, user |-> u, code |-> TopicCode(users[u], low)] : u \in rows}
        BY <1>4 DEF Resolved, ResolveTopic
    <2> HIDE DEF low
    <2>2. Verdicts(its)
        BY <1>1, <2>1 DEF Verdicts, Recipients
    <2>3. \A it \in Recipients(its) :
             /\ users[it.user].sub /\ users[it.user].active
             /\ users[it.user].grade \in StoredGrades
             /\ TopicCode(users[it.user], low) = "ok"
        BY <1>1, <2>1 DEF Recipients
    <2>4. \A it \in Recipients(its) :
             LET u == users[it.user] IN
             gradeRank(u.grade) >= gradeRank(low) /\ u.linked /\ u.admin /\ u.topic
        BY <2>3, TopicCodeOk
    <2>5. \A it \in Recipients(its) :
             LET rank == gradeRank(users[it.user].grade) IN
             rank >= gradeRank(appMin[m]) /\ rank >= gradeRank(normalizeGrade(in.min))
        BY <2>4, MaxGradeBounds DEF low
    <2>6. \A it \in Recipients(its) :
             /\ users[it.user].grade \in Admits(in.min)
             /\ appMin[m] \in StoredGrades => users[it.user].grade \in Admits(appMin[m])
        BY <2>3, <2>5, RankAdmits
    <2>7. \A app \in AppRow : app.min \in StoredGrades
        BY DEF AppRow
    <2> QED BY <1>4, <2>2, <2>3, <2>4, <2>6, <2>7 DEF Qualifies, NamesApp
<1>5. CASE in.strat = "broadcast"
    <2> DEFINE low == normalizeGrade(in.min)
               rows == {v \in DOMAIN users : users[v].active}
    <2>1. its = {[idx |-> u, user |-> u, code |-> BroadcastCode(users[u], low)] : u \in rows}
        BY <1>5 DEF Resolved, ResolveBroadcast
    <2> HIDE DEF low
    <2>2. Verdicts(its)
        BY <1>1, <2>1 DEF Verdicts, Recipients
    <2>3. \A it \in Recipients(its) :
             /\ users[it.user].active /\ BroadcastCode(users[it.user], low) = "ok"
             /\ users[it.user].grade \in StoredGrades
        BY <1>1, <2>1 DEF Recipients
    <2>4. \A it \in Recipients(its) :
             LET u == users[it.user] IN
             gradeRank(u.grade) >= gradeRank(low) /\ u.linked /\ u.admin
        BY <2>3, BroadcastCodeOk
    <2>5. \A it \in Recipients(its) : users[it.user].grade \in Admits(in.min)
        BY <2>3, <2>4, RankAdmits DEF low
    <2> QED BY <1>5, <2>2, <2>3, <2>4, <2>5 DEF Qualifies, NamesApp
<1> QED BY <1>1, <1>2, <1>3, <1>4, <1>5 DEF Strategies

\* A set of items answers for everyone a request addresses: each of these users
\* has one verdict, nobody else has one, and unknown ids are counted.
Answers(in, users, its) ==
    /\ UsersOf(DecidedOf(its)) = Addressed(in, users)
    /\ \A a, b \in DecidedOf(its) : a.user = b.user => a = b
    /\ IsFiniteSet(its \ DecidedOf(its))
    /\ Cardinality(its \ DecidedOf(its)) = Cardinality(Nobodies(in, users))

\* The positions a list has besides those of known keys.
LEMMA UnknownPositions ==
    ASSUME NEW n \in Nat, NEW ids, NEW Known
    PROVE  Cardinality({i \in 1..n : ids[i] \notin Known})
              = n - Cardinality(KnownAt(ids, Known, n))
<1> DEFINE P == KnownAt(ids, Known, n)
<1>1. IsFiniteSet(1..n) /\ Cardinality(1..n) = n
    BY FS_Interval
<1>2. {i \in 1..n : ids[i] \notin Known} = (1..n) \ P /\ (1..n) \intersect P = P
    BY DEF KnownAt
<1>3. P \subseteq 1..n
    BY DEF KnownAt
<1>4. IsFiniteSet(P)
    BY <1>1, <1>3, FS_Subset
<1> HIDE DEF P
<1>5. Cardinality((1..n) \ P) = Cardinality(1..n) - Cardinality((1..n) \intersect P)
    BY <1>1, FS_Difference
<1> QED BY <1>1, <1>2, <1>5 DEF P

\* ResolveDirect and ResolveDirectDM answer for everyone listed; the same for
\* the rows of the other two.
LEMMA DirectAnswers ==
    ASSUME NEW in, in.strat = "direct", NEW users, DOMAIN users \subseteq Nat,
           in.ids \in Seq(Nat), NEW ord \in RowOrders(Len(in.ids)),
           NEW its, its = ResolveDirect(users, in.ids, ord)
    PROVE  Answers(in, users, its)
<1> DEFINE ids == in.ids
           n == Len(ids)
           key == KeyOf(ids, ord)
           D == DOMAIN users
           F == RowsOf(key, D, n)
           f == DirectItems(users, ids, ord)
           listed == KeysOf(ids)
<1>1. n \in Nat /\ DOMAIN ids = 1..n
    OBVIOUS
<1>2. /\ JoinOf(key, ids, ord, n) /\ its = {f[i] : i \in F}
      /\ \A i \in F :
            /\ f[i].idx = i
            /\ f[i].code = "unknown_recipient" <=> key[i] \notin D
            /\ key[i] \in D => f[i].user = key[i]
    BY DirectRows
<1>3. /\ F = RowsOf(key, D, n) /\ ord \in RowOrders(n)
      /\ Addressed(in, users) = D \intersect listed
      /\ Nobodies(in, users) = {i \in 1..n : ids[i] \notin D}
    BY <1>1 DEF Addressed, Nobodies, ListsRecipients, KeysOf
<1> HIDE DEF key, D, F, f, n, ids, listed
<1>4. LoopOf(f, F, key, ids, ord, D, n)
    <2>1. \A i, j \in F : (/\ key[i] \in D /\ key[j] \in D
                           /\ f[i].user = f[j].user) => key[i] = key[j]
        BY <1>2
    <2> QED BY <1>1, <1>2, <1>3, <2>1 DEF LoopOf
<1>5. /\ \A i \in F : key[i] \in listed
      /\ \A k \in listed : \E i \in F : key[i] = k
    BY <1>1, <1>4, ListedRows DEF ListsAll, listed
<1>6. UsersOf(DecidedOf(its)) = D \intersect listed
    BY <1>2, <1>5 DEF UsersOf, DecidedOf
<1>7. its = ItemsOf(f, F)
    BY <1>2 DEF ItemsOf
<1>8. CountedOf(its, ids, D, n)
    BY <1>4, <1>7, VerdictCounts
<1>9. Cardinality(Nobodies(in, users)) = n - Cardinality(KnownAt(ids, D, n))
    BY <1>1, <1>3, UnknownPositions
<1> QED BY <1>3, <1>6, <1>8, <1>9 DEF Answers, CountedOf

\* ResolveDirectDM answers for everyone whose Telegram id is listed.
LEMMA DMAnswers ==
    ASSUME NEW in, in.strat = "direct_dm", NEW users, DOMAIN users \subseteq Nat,
           \A u, v \in DOMAIN users : users[u].tg = users[v].tg => u = v,
           in.ids \in Seq(Nat), NEW ord \in RowOrders(Len(in.ids)),
           NEW its, its = ResolveDirectDM(users, in.ids, ord)
    PROVE  Answers(in, users, its)
<1> DEFINE ids == in.ids
           n == Len(ids)
           key == KeyOf(ids, ord)
           T == TelegramIds(users)
           F == RowsOf(key, T, n)
           f == DMItems(users, ids, ord)
           listed == KeysOf(ids)
<1>1. n \in Nat /\ DOMAIN ids = 1..n
    OBVIOUS
<1>2. /\ JoinOf(key, ids, ord, n) /\ its = {f[i] : i \in F}
      /\ \A i \in F :
            /\ f[i].idx = i
            /\ f[i].code = "unknown_recipient" <=> key[i] \notin T
            /\ key[i] \in T => f[i].user \in DOMAIN users /\ users[f[i].user].tg = key[i]
    BY DMRows
<1>3. /\ F = RowsOf(key, T, n) /\ ord \in RowOrders(n)
      /\ Addressed(in, users) = {u \in DOMAIN users : users[u].tg \in listed}
      /\ Nobodies(in, users) = {i \in 1..n : ids[i] \notin T}
      /\ \A u \in DOMAIN users : users[u].tg \in T
    BY <1>1 DEF Addressed, Nobodies, ListsRecipients, KeysOf, TelegramIds
<1> HIDE DEF key, T, F, f, n, ids, listed
<1>4. LoopOf(f, F, key, ids, ord, T, n)
    <2>1. \A i, j \in F : (/\ key[i] \in T /\ key[j] \in T
                           /\ f[i].user = f[j].user) => key[i] = key[j]
        BY <1>2
    <2> QED BY <1>1, <1>2, <1>3, <2>1 DEF LoopOf
<1>5. /\ \A i \in F : key[i] \in listed
      /\ \A k \in listed : \E i \in F : key[i] = k
    BY <1>1, <1>4, ListedRows DEF ListsAll, listed
<1>6. UsersOf(DecidedOf(its)) = {u \in DOMAIN users : users[u].tg \in listed}
    <2>1. ASSUME NEW u \in UsersOf(DecidedOf(its))
          PROVE  u \in DOMAIN users /\ users[u].tg \in listed
        <3>1. PICK i \in F : u = f[i].user /\ f[i].code # "unknown_recipient"
            BY <1>2 DEF UsersOf, DecidedOf
        <3> QED BY <1>2, <1>5, <3>1
    <2>2. ASSUME NEW u \in DOMAIN users, users[u].tg \in listed
          PROVE  u \in UsersOf(DecidedOf(its))
        <3>1. PICK i \in F : key[i] = users[u].tg
            BY <1>5, <2>2
        <3>2. f[i].user = u /\ f[i].code # "unknown_recipient" /\ f[i] \in its
            BY <1>2, <1>3, <3>1
        <3> QED BY <3>2 DEF UsersOf, DecidedOf
    <2> QED BY <2>1, <2>2
<1>7. its = ItemsOf(f, F)
    BY <1>2 DEF ItemsOf
<1>8. CountedOf(its, ids, T, n)
    BY <1>4, <1>7, VerdictCounts
<1>9. Cardinality(Nobodies(in, users)) = n - Cardinality(KnownAt(ids, T, n))
    BY <1>1, <1>3, UnknownPositions
<1> QED BY <1>3, <1>6, <1>8, <1>9 DEF Answers, CountedOf

\* A query that lists nobody answers for each of its rows.
LEMMA RowsAnswer ==
    ASSUME NEW in, NEW users, ~ListsRecipients(in.strat), NEW its, NEW item,
           its = {item[u] : u \in Addressed(in, users)},
           \A u \in Addressed(in, users) :
              item[u].user = u /\ item[u].code # "unknown_recipient"
    PROVE  Answers(in, users, its)
<1>1. DecidedOf(its) = its /\ its \ DecidedOf(its) = {} /\ Nobodies(in, users) = {}
    BY DEF DecidedOf, Nobodies
<1>2. UsersOf(its) = Addressed(in, users)
    BY DEF UsersOf
<1>3. \A a, b \in its : a.user = b.user => a = b
    OBVIOUS
<1>4. IsFiniteSet({})
    BY FS_EmptySet
<1> QED BY <1>1, <1>2, <1>3, <1>4 DEF Answers

\* What any resolver returns answers for everyone the request addresses, going
\* by the users at the query.
LEMMA ResolvedAnswers ==
    ASSUME NEW m \in Reqs, input[m] \in Inputs, IsRegistry(reg),
           NEW its \in Resolved(m)
    PROVE  Answers(input[m], reg.users, its)
<1> DEFINE in == input[m]
           users == reg.users
<1>1. /\ in.strat \in Strategies /\ in.ids \in Seq(Nat) /\ DOMAIN users \subseteq Nat
      /\ \A u, v \in DOMAIN users : users[u].tg = users[v].tg => u = v
    BY DispatchAssumption DEF IsRegistry
<1>2. CASE in.strat = "direct"
    <2>1. PICK ord \in RowOrders(Len(in.ids)) : its = ResolveDirect(users, in.ids, ord)
        BY <1>2 DEF Resolved
    <2> QED BY <1>1, <1>2, <2>1, DirectAnswers
<1>3. CASE in.strat = "direct_dm"
    <2>1. PICK ord \in RowOrders(Len(in.ids)) : its = ResolveDirectDM(users, in.ids, ord)
        BY <1>3 DEF Resolved
    <2> QED BY <1>1, <1>3, <2>1, DMAnswers
<1>4. CASE in.strat = "topic"
    <2> DEFINE low == maxGrade(appMin[m], normalizeGrade(in.min))
               A == Addressed(in, users)
               item == [u \in A |-> [idx |-> u, user |-> u, code |-> TopicCode(users[u], low)]]
    <2>1. its = {item[u] : u \in A} /\ ~ListsRecipients(in.strat)
        BY <1>4 DEF Resolved, ResolveTopic, Addressed, ListsRecipients
    <2>2. \A u \in A : item[u].user = u /\ item[u].code # "unknown_recipient"
        BY TopicCodeIff
    <2> HIDE DEF item, low
    <2> QED BY <2>1, <2>2, RowsAnswer
<1>5. CASE in.strat = "broadcast"
    <2> DEFINE low == normalizeGrade(in.min)
               A == Addressed(in, users)
               item == [u \in A |-> [idx |-> u, user |-> u, code |-> BroadcastCode(users[u], low)]]
    <2>1. its = {item[u] : u \in A} /\ ~ListsRecipients(in.strat)
        BY <1>5 DEF Resolved, ResolveBroadcast, Addressed, ListsRecipients
    <2>2. \A u \in A : item[u].user = u /\ item[u].code # "unknown_recipient"
        BY BroadcastCodeIff
    <2> HIDE DEF item, low
    <2> QED BY <2>1, <2>2, RowsAnswer
<1> QED BY <1>1, <1>2, <1>3, <1>4, <1>5 DEF Strategies

-----------------------------------------------------------------------------
(* The inductive invariant. *)

Rows == [stage : Stage, user : Nat]

\* The state's types, as far as the argument needs them.
Types ==
    /\ IsRegistry(reg)
    /\ pc \in [Reqs -> {"idle", "check", "app", "resolve", "validate", "loop",
                        "send", "record", "done", "dead"}]
    /\ input \in [Reqs -> Inputs]
    /\ appMin = [m \in Reqs |-> appMin[m]]
    /\ items = [m \in Reqs |-> items[m]]
    /\ \A m \in Reqs : Verdicts(items[m])
    /\ sending \in [Reqs -> {"none", "delivered", "failed"}]
    /\ report = [m \in Reqs |-> report[m]]
    /\ resp = [m \in Reqs |-> resp[m]]
    /\ expired = [m \in Reqs |-> expired[m]]
    /\ log \in [Reqs -> Seq(Rows)]
    /\ errors = [m \in Reqs |-> errors[m]]
    /\ chat \in [Reqs -> Seq(Nat)]
    /\ seen = [m \in Reqs |-> seen[m]]

Sending == {"loop", "send", "record"}
Working == {"check", "app", "resolve", "validate"} \union Sending

\* Nothing is sent or reported before the loop, and the answer comes last.
InOrder(m) ==
    /\ pc[m] \in {"idle", "check", "app", "resolve", "validate"}
          => chat[m] = <<>> /\ report[m] = {}
    /\ pc[m] # "done" => resp[m] = "none"
    /\ resp[m] = "ok" => items[m] = {}

\* A handler that works has its received row, one that sends its validated row.
Audited(m) ==
    /\ pc[m] \in Working => HasRow(m, "received", 0)
    /\ pc[m] \in Sending \/ chat[m] # <<>> =>
          HasRow(m, "received", 0) /\ HasRow(m, "validated", 0)

Got(m, user) == \E i \in DOMAIN chat[m] : chat[m][i] = user

\* Of the recipients still to be handled only the one whose result is being
\* recorded may have the message, and no user has it twice.
SentOnce(m) ==
    /\ \A i, j \in DOMAIN chat[m] : chat[m][i] = chat[m][j] => i = j
    /\ \A it \in Recipients(items[m]) : Got(m, it.user) =>
          pc[m] \in {"record", "dead"} /\ IsNext(Recipients(items[m]), it)

\* Whoever has the message has a report or is still to be recorded, and each
\* place of the resolver's result has one item or one report.
Reported(m) ==
    /\ \A i \in DOMAIN chat[m] :
          \/ \E r \in report[m] : r.status # "skipped" /\ r.user = chat[m][i]
          \/ \E it \in Recipients(items[m]) : it.user = chat[m][i]
    /\ \A r \in report[m] : r.status # "skipped" => r.code = "ok"
    /\ \A r, s \in report[m] : r.idx = s.idx => r = s
    /\ \A r \in report[m], it \in items[m] : r.idx # it.idx

\* The resolver's result: what is still to be handled, and what was reported.
Unreport(r) == [idx |-> r.idx, user |-> r.user, code |-> r.code]
Result(m) == items[m] \union {Unreport(r) : r \in report[m]}

\* The result answers for everyone the request addressed at the query.
Covered(m) ==
    pc[m] \in {"validate"} \union Sending \/ resp[m] = "ok" =>
        Answers(input[m], AtQuery(m).users, Result(m))

\* A send is announced by its row, a report has its row.
Announced(m) ==
    /\ \A i \in DOMAIN chat[m] : Accounted(m, "dispatched", chat[m][i])
    /\ pc[m] = "send" => \A it \in Recipients(items[m]) :
          IsNext(Recipients(items[m]), it) => Accounted(m, "dispatched", it.user)
    /\ \A r \in report[m] :
          Accounted(m, IF r.status = "skipped" THEN "denied" ELSE StageOf(r.status), r.user)

\* "delivered" is said only of a user who has the message.
Truthful(m) ==
    /\ pc[m] = "record" =>
          /\ sending[m] \in {"delivered", "failed"}
          /\ sending[m] = "delivered" => \A it \in Recipients(items[m]) :
                IsNext(Recipients(items[m]), it) => Got(m, it.user)
    /\ \A r \in report[m] : r.status = "delivered" => Got(m, r.user)
    /\ \A i \in DOMAIN log[m] : log[m][i].stage = "delivered" => Got(m, log[m][i].user)

QualifiedUser(m, user) ==
    \/ \E r \in {AtLookup(m), AtQuery(m)} : Qualifies(input[m], r.app, r.users[user])
    \/ AtLookup(m).app # AtQuery(m).app /\ AtLookup(m).users[user] # AtQuery(m).users[user]

\* The handler decides on what its statements have read.
Fresh(m) ==
    /\ pc[m] \in {"idle", "check", "app"} => seen[m] = <<>>
    /\ pc[m] = "app" => NamesApp(input[m].strat)
    /\ pc[m] = "resolve" /\ ~NamesApp(input[m].strat) => seen[m] = <<>>
    /\ pc[m] = "resolve" /\ NamesApp(input[m].strat) =>
          \E r : /\ seen[m] = <<r>> /\ r.app \in AppRow
                 /\ r.app.active /\ r.app.min = appMin[m]
    /\ pc[m] \in {"validate"} \union Sending =>
          \A it \in Recipients(items[m]) : QualifiedUser(m, it.user)
    /\ \A i \in DOMAIN chat[m] : QualifiedUser(m, chat[m][i])

Local(m) ==
    InOrder(m) /\ Audited(m) /\ SentOnce(m) /\ Reported(m) /\ Covered(m)
    /\ Announced(m) /\ Truthful(m) /\ Fresh(m)

DispatchInv == Types /\ \A m \in Reqs : Local(m)

-----------------------------------------------------------------------------
(* What a step leaves alone. *)

Same(n) ==
    /\ pc'[n] = pc[n] /\ input'[n] = input[n] /\ appMin'[n] = appMin[n]
    /\ items'[n] = items[n] /\ sending'[n] = sending[n] /\ report'[n] = report[n]
    /\ resp'[n] = resp[n] /\ log'[n] = log[n] /\ errors'[n] = errors[n]
    /\ chat'[n] = chat[n] /\ seen'[n] = seen[n]

\* A handler that does nothing keeps its part of the invariant, whatever becomes
\* of the registry.
LEMMA IdleLocal ==
    ASSUME NEW n \in Reqs, Local(n), Same(n)
    PROVE  Local(n)'
<1>1. InOrder(n)' /\ Audited(n)' /\ SentOnce(n)' /\ Reported(n)'
    BY DEF Local, Same, InOrder, Audited, SentOnce, Reported, HasRow, Got
<1>2. Announced(n)' /\ Truthful(n)'
    BY DEF Local, Same, Announced, Truthful, HasRow, Accounted, Got
<1>3. Fresh(n)'
    BY DEF Local, Same, Fresh, QualifiedUser, AtLookup, AtQuery
<1>4. Covered(n)'
    BY DEF Local, Same, Covered, Result, AtQuery
<1> QED BY <1>1, <1>2, <1>3, <1>4 DEF Local

\* One handler's step keeps the others' parts.
Frame(m) == \A n \in Reqs \ {m} : Same(n)

\* The handlers of the other requests keep their part of the invariant.
LEMMA OthersKeep ==
    ASSUME DispatchInv, NEW m \in Reqs, Frame(m), Types', Local(m)'
    PROVE  DispatchInv'
<1>1. ASSUME NEW n \in Reqs \ {m} PROVE Local(n)'
    BY IdleLocal DEF DispatchInv, Frame
<1> QED BY <1>1 DEF DispatchInv

\* writeAuditSafe: rows stay, and the new one is in the log or in the errors.
Wrote(m, row, o) ==
    /\ log' \in [Reqs -> Seq(Rows)] /\ errors' = [n \in Reqs |-> errors'[n]]
    /\ \A n \in Reqs \ {m} : log'[n] = log[n] /\ errors'[n] = errors[n]
    /\ \A stage, user : HasRow(m, stage, user) => HasRow(m, stage, user)'
    /\ \A stage, user : Accounted(m, stage, user) => Accounted(m, stage, user)'
    /\ Accounted(m, row.stage, row.user)'
    /\ o # "failed" => HasRow(m, row.stage, row.user)'
    /\ \A i \in DOMAIN log'[m] :
          log'[m][i] = row \/ \E j \in DOMAIN log[m] : log'[m][i] = log[m][j]

\* An audit write, whatever becomes of it, has that effect.
LEMMA WriteEffect ==
    ASSUME Types, NEW m \in Reqs, NEW row \in Rows, NEW o, AuditWrite(m, row, o)
    PROVE  Wrote(m, row, o)
<1> USE DEF Wrote
<1>0. row = Row(row.stage, row.user)
    BY DEF Rows, Row
<1>1. CASE o = "failed"
    <2>1. log' = log /\ errors' = [errors EXCEPT ![m] = @ \union {row}]
        BY <1>1 DEF AuditWrite
    <2>2. row \in errors'[m] /\ errors[m] \subseteq errors'[m]
        BY <2>1 DEF Types
    <2>3. \A stage, user : HasRow(m, stage, user)' <=> HasRow(m, stage, user)
        BY <2>1 DEF HasRow
    <2>4. /\ \A stage, user : Accounted(m, stage, user) => Accounted(m, stage, user)'
          /\ Accounted(m, row.stage, row.user)'
        BY <1>0, <2>2, <2>3 DEF Accounted
    <2> QED BY <1>1, <2>1, <2>3, <2>4 DEF Types
<1>2. CASE o # "failed"
    <2>1. log' = [log EXCEPT ![m] = Append(@, row)] /\ errors' = errors
        BY <1>2 DEF AuditWrite
    <2>2. log[m] \in Seq(Rows) /\ log'[m] = Append(log[m], row) /\ log' \in [Reqs -> Seq(Rows)]
        BY <2>1 DEF Types
    <2>3. /\ DOMAIN log'[m] = 1..(Len(log[m]) + 1)
          /\ DOMAIN log[m] = 1..Len(log[m]) /\ Len(log[m]) \in Nat
          /\ \A i \in DOMAIN log[m] : log'[m][i] = log[m][i]
          /\ log'[m][Len(log[m]) + 1] = row
        BY <2>2
    <2>4. DOMAIN log[m] \subseteq DOMAIN log'[m] /\ Len(log[m]) + 1 \in DOMAIN log'[m]
        BY <2>3
    <2>5. /\ \A stage, user : HasRow(m, stage, user) => HasRow(m, stage, user)'
          /\ HasRow(m, row.stage, row.user)'
        BY <1>0, <2>3, <2>4 DEF HasRow
    <2>6. \A i \in DOMAIN log'[m] :
             log'[m][i] = row \/ \E j \in DOMAIN log[m] : log'[m][i] = log[m][j]
        BY <2>3
    <2>7. /\ \A stage, user : Accounted(m, stage, user) => Accounted(m, stage, user)'
          /\ Accounted(m, row.stage, row.user)'
        BY <2>1, <2>5 DEF Accounted
    <2>8. \A n \in Reqs \ {m} : log'[n] = log[n] /\ errors'[n] = errors[n]
        BY <2>1 DEF Types
    <2> QED BY <2>1, <2>2, <2>5, <2>6, <2>7, <2>8 DEF Types
<1> QED BY <1>1, <1>2

-----------------------------------------------------------------------------
(* The steps of a handler. *)

Before == {"idle", "check", "app", "resolve", "validate"}

\* A row written before the loop, and an answer that is not "ok": what deny and
\* the two fail-closed writes do.
LEMMA RefusalKeeps ==
    ASSUME DispatchInv, NEW m \in Reqs, pc[m] \in Before,
           NEW row \in Rows, row.stage # "delivered", NEW o, AuditWrite(m, row, o),
           NEW code, code # "ok", Answer(m, code),
           UNCHANGED <<reg, appMin, items, sending, report, expired, chat>>,
           input' \in [Reqs -> Inputs], UNCHANGED seen,
           \A n \in Reqs \ {m} : input'[n] = input[n]
    PROVE  DispatchInv'
<1> USE DEF DispatchInv, Answer, Goto
<1>0. Types /\ Local(m)
    OBVIOUS
<1>1. Wrote(m, row, o)
    BY <1>0, WriteEffect
<1>2. Types'
    BY <1>0, <1>1 DEF Types, IsRegistry, Wrote
<1>3. Frame(m)
    BY <1>0, <1>1 DEF Frame, Same, Types, Wrote
<1>4. pc'[m] = "done" /\ resp'[m] = code /\ chat'[m] = <<>> /\ report'[m] = {}
    BY <1>0 DEF Types, Local, InOrder, Before
<1>5. InOrder(m)' /\ Audited(m)' /\ SentOnce(m)' /\ Reported(m)'
    BY <1>4 DEF InOrder, Audited, SentOnce, Reported, Got, Working, Sending
<1>6. Announced(m)' /\ Fresh(m)' /\ Covered(m)'
    BY <1>4 DEF Announced, Fresh, Covered, Working, Sending
<1>7. Truthful(m)'
    BY <1>0, <1>1, <1>4 DEF Truthful, Local, InOrder, Before, Got, Wrote
<1> QED BY <1>2, <1>3, <1>5, <1>6, <1>7, OthersKeep DEF Local

\* Receive: the received row precedes everything else.
LEMMA ReceiveKeeps ==
    ASSUME DispatchInv, NEW m \in Reqs, NEW in \in Inputs, Receive(m, in)
    PROVE  DispatchInv'
<1> USE DEF DispatchInv
<1> DEFINE row == Row("received", 0)
<1>0. Types /\ Local(m) /\ row \in Rows /\ row.stage = "received" /\ row.user = 0
    BY DEF Row, Rows, Stage
<1> HIDE DEF row
<1>1. PICK o \in WriteOutcomes(m) :
        /\ AuditWrite(m, row, o)
        /\ IF o = "ok" THEN Goto(m, "check") /\ UNCHANGED resp
                       ELSE Answer(m, "audit_unavailable")
    BY DEF Receive, row
<1>2. Wrote(m, row, o)
    BY <1>0, <1>1, WriteEffect
<1>3. /\ input' \in [Reqs -> Inputs] /\ seen' = seen /\ seen[m] = <<>> /\ reg' = reg
      /\ \A n \in Reqs \ {m} : input'[n] = input[n]
    BY <1>0 DEF Receive, Types, Local, Fresh
<1>4. CASE o = "ok"
    <2>1. Types'
        BY <1>0, <1>1, <1>2, <1>3, <1>4 DEF Types, IsRegistry, Wrote, Receive, Goto
    <2>2. Frame(m)
        BY <1>0, <1>1, <1>2, <1>3, <1>4 DEF Frame, Same, Types, Wrote, Receive, Goto
    <2>3. /\ pc'[m] = "check" /\ resp'[m] = "none" /\ chat'[m] = <<>> /\ report'[m] = {}
          /\ chat[m] = <<>> /\ HasRow(m, "received", 0)'
        BY <1>0, <1>1, <1>2, <1>4 DEF Types, Local, InOrder, Receive, Goto, Wrote
    <2>4. InOrder(m)' /\ Audited(m)' /\ SentOnce(m)' /\ Reported(m)'
        BY <2>3 DEF InOrder, Audited, SentOnce, Reported, Got, Working, Sending
    <2>5. Announced(m)' /\ Fresh(m)' /\ Covered(m)'
        BY <1>3, <2>3 DEF Announced, Fresh, Covered, Working, Sending
    <2>6. Truthful(m)'
        <3>1. \A i \in DOMAIN log[m] : log[m][i].stage # "delivered"
            BY <1>0, <2>3 DEF Truthful, Local, Got
        <3>2. \A i \in DOMAIN log'[m] : log'[m][i].stage # "delivered"
            BY <1>0, <1>2, <3>1 DEF Wrote
        <3> QED BY <2>3, <3>2 DEF Truthful
    <2> QED BY <2>1, <2>2, <2>4, <2>5, <2>6, OthersKeep DEF Local
<1>5. CASE o # "ok"
    <2>1. Answer(m, "audit_unavailable") /\ pc[m] \in Before
          /\ UNCHANGED <<reg, appMin, items, sending, report, expired, chat>>
        BY <1>1, <1>5 DEF Receive, Before
    <2> QED BY <1>0, <1>1, <1>3, <2>1, RefusalKeeps
<1> QED BY <1>4, <1>5

\* deny, from the checks and the resolvers.
LEMMA DenyKeeps ==
    ASSUME DispatchInv, NEW m \in Reqs, pc[m] \in Before, NEW code, code # "ok", Deny(m, code),
           UNCHANGED <<reg, input, appMin, items, sending, report, expired, chat, seen>>
    PROVE  DispatchInv'
<1> DEFINE row == Row("denied", 0)
<1>1. row \in Rows /\ row.stage # "delivered"
    BY DEF Row, Rows, Stage
<1> HIDE DEF row
<1>2. PICK o \in WriteOutcomes(m) : AuditWrite(m, row, o)
    BY DEF Deny, row
<1>3. Answer(m, code)
    BY DEF Deny
<1>4. input' \in [Reqs -> Inputs] /\ \A n \in Reqs \ {m} : input'[n] = input[n]
    BY DEF DispatchInv, Types
<1> QED BY <1>1, <1>2, <1>3, <1>4, RefusalKeeps

\* A step before the loop that only reads.
LEMMA ReadKeeps ==
    ASSUME DispatchInv, NEW m \in Reqs, pc[m] \in {"check", "app", "resolve"},
           NEW next \in {"app", "resolve", "validate"}, Goto(m, next),
           UNCHANGED <<reg, input, sending, report, resp, expired, log, errors, chat>>,
           appMin' = [n \in Reqs |-> appMin'[n]], items' = [n \in Reqs |-> items'[n]],
           seen' = [n \in Reqs |-> seen'[n]],
           \A n \in Reqs \ {m} :
              appMin'[n] = appMin[n] /\ items'[n] = items[n] /\ seen'[n] = seen[n],
           Verdicts(items'[m]), Fresh(m)', Covered(m)'
    PROVE  DispatchInv'
<1>0. Types /\ Local(m)
    BY DEF DispatchInv
<1>1. Types'
    BY <1>0 DEF Types, IsRegistry, Goto, Verdicts, Recipients
<1>2. Frame(m)
    BY <1>0 DEF Frame, Same, Types, Goto
<1>3. /\ pc'[m] = next /\ resp'[m] = "none" /\ chat'[m] = <<>> /\ report'[m] = {}
      /\ HasRow(m, "received", 0)
    BY <1>0 DEF Types, Local, InOrder, Audited, Goto, Working
<1>4. InOrder(m)' /\ Audited(m)' /\ SentOnce(m)' /\ Reported(m)'
    BY <1>3 DEF InOrder, Audited, SentOnce, Reported, Got, Working, Sending, HasRow
<1>5. Announced(m)' /\ Truthful(m)'
    BY <1>0, <1>3 DEF Announced, Truthful, Local, Got
<1> QED BY <1>1, <1>2, <1>4, <1>5, OthersKeep DEF Local

\* Check keeps the invariant: a body that fails a check is denied.
LEMMA CheckKeeps ==
    ASSUME DispatchInv, NEW m \in Reqs, Check(m)
    PROVE  DispatchInv'
<1>0. Types /\ Local(m) /\ pc[m] = "check"
    BY DEF DispatchInv, Check
<1>1. CASE input[m].body = "ok"
    <2> DEFINE next == IF NamesApp(input[m].strat) THEN "app" ELSE "resolve"
    <2>1. Goto(m, next)
          /\ UNCHANGED <<reg, input, appMin, items, sending, report, resp, expired,
                         log, errors, chat, seen>>
        BY <1>1 DEF Check
    <2>2. Verdicts(items'[m]) /\ appMin' = [n \in Reqs |-> appMin'[n]]
          /\ items' = [n \in Reqs |-> items'[n]]
        BY <1>0, <2>1 DEF Types
    <2>3. pc'[m] = next
        BY <1>0, <2>1 DEF Types, Goto
    <2>4. Fresh(m)' /\ Covered(m)'
        BY <1>0, <2>1, <2>3 DEF Fresh, Covered, Local, InOrder, Working, Sending
    <2>5. next \in {"app", "resolve", "validate"} /\ seen' = [n \in Reqs |-> seen'[n]]
        BY <1>0, <2>1 DEF Types
    <2> QED BY <1>0, <2>1, <2>2, <2>4, <2>5, ReadKeeps
<1>2. CASE input[m].body # "ok"
    BY <1>0, <1>2, DenyKeeps DEF Check, Before
<1> QED BY <1>1, <1>2

\* LookupApp keeps the invariant: the grade read is that of an active app.
LEMMA LookupAppKeeps ==
    ASSUME DispatchInv, NEW m \in Reqs, LookupApp(m)
    PROVE  DispatchInv'
<1>0. Types /\ Local(m) /\ pc[m] = "app"
    BY DEF DispatchInv, LookupApp
<1>1. CASE /\ reg.app.active /\ appMin' = [appMin EXCEPT ![m] = reg.app.min]
           /\ seen' = [seen EXCEPT ![m] = Append(@, reg)]
           /\ Goto(m, "resolve") /\ UNCHANGED <<log, errors, resp>>
    <2>1. UNCHANGED <<reg, input, items, sending, report, expired, chat>>
        BY DEF LookupApp
    <2>2. /\ appMin' = [n \in Reqs |-> appMin'[n]] /\ items' = [n \in Reqs |-> items'[n]]
          /\ seen' = [n \in Reqs |-> seen'[n]]
          /\ \A n \in Reqs \ {m} :
                appMin'[n] = appMin[n] /\ items'[n] = items[n] /\ seen'[n] = seen[n]
          /\ Verdicts(items'[m]) /\ appMin'[m] = reg.app.min /\ pc'[m] = "resolve"
        BY <1>0, <1>1, <2>1 DEF Types, Goto
    <2>3. /\ seen[m] = <<>> /\ chat[m] = <<>> /\ resp[m] # "ok"
          /\ NamesApp(input[m].strat) /\ reg.app \in AppRow
        BY <1>0 DEF Local, Fresh, InOrder, Types, IsRegistry
    <2>4. seen'[m] = <<reg>>
        BY <1>0, <1>1, <2>3 DEF Types
    <2>5. Fresh(m)' /\ Covered(m)'
        BY <1>1, <2>1, <2>2, <2>3, <2>4 DEF Fresh, Covered, Sending
    <2>6. "resolve" \in {"app", "resolve", "validate"}
        OBVIOUS
    <2> QED BY <1>0, <1>1, <2>1, <2>2, <2>5, <2>6, ReadKeeps
<1>2. CASE (Deny(m, "app_not_found") \/ Deny(m, "resolver_error")) /\ UNCHANGED <<appMin, seen>>
    <2>1. UNCHANGED <<reg, input, appMin, items, sending, report, expired, chat, seen>>
        BY <1>2 DEF LookupApp
    <2> QED BY <1>0, <1>2, <2>1, DenyKeeps DEF Before
<1> QED BY <1>1, <1>2 DEF LookupApp

\* Resolve keeps the invariant: the recipients are distinct and qualified, and
\* the result answers for everyone.
LEMMA ResolveKeeps ==
    ASSUME DispatchInv, NEW m \in Reqs, Resolve(m)
    PROVE  DispatchInv'
<1>0. Types /\ Local(m) /\ pc[m] = "resolve"
    BY DEF DispatchInv, Resolve
<1>1. CASE /\ \E its \in Resolved(m) : items' = [items EXCEPT ![m] = its]
           /\ seen' = [seen EXCEPT ![m] = Append(@, reg)]
           /\ Goto(m, "validate") /\ UNCHANGED <<log, errors, resp>>
    <2>1. UNCHANGED <<reg, input, appMin, sending, report, expired, chat>>
        BY DEF Resolve
    <2>2. PICK its \in Resolved(m) : items' = [items EXCEPT ![m] = its]
        BY <1>1
    <2>3. /\ appMin' = [n \in Reqs |-> appMin'[n]] /\ items' = [n \in Reqs |-> items'[n]]
          /\ seen' = [n \in Reqs |-> seen'[n]]
          /\ \A n \in Reqs \ {m} :
                appMin'[n] = appMin[n] /\ items'[n] = items[n] /\ seen'[n] = seen[n]
          /\ items'[m] = its /\ pc'[m] = "validate"
        BY <1>0, <1>1, <2>1, <2>2 DEF Types, Goto
    <2>a. input[m] \in Inputs /\ IsRegistry(reg) /\ reg.app \in AppRow
        BY <1>0 DEF Types, IsRegistry
    <2>4. /\ Verdicts(its)
          /\ \A it \in Recipients(its) : \A app \in AppRow :
                (NamesApp(input[m].strat) => app.active /\ app.min = appMin[m])
                    => Qualifies(input[m], app, reg.users[it.user])
        BY <2>a, ResolvedQualifies
    <2>5. chat[m] = <<>> /\ report[m] = {}
        BY <1>0 DEF Local, InOrder
    <2>6. \E r : /\ AtLookup(m)' = r /\ AtQuery(m)' = reg /\ r.app \in AppRow
                 /\ NamesApp(input[m].strat) => r.app.active /\ r.app.min = appMin[m]
                 /\ ~NamesApp(input[m].strat) => r = reg
        <3>1. CASE NamesApp(input[m].strat)
            <4>1. PICK r : /\ seen[m] = <<r>> /\ r.app \in AppRow
                           /\ r.app.active /\ r.app.min = appMin[m]
                BY <1>0, <3>1 DEF Local, Fresh
            <4>2. seen'[m] = Append(<<r>>, reg)
                BY <1>0, <1>1, <4>1 DEF Types
            <4>3. LET two == Append(<<r>>, reg) IN
                  Len(two) = 2 /\ two[1] = r /\ two[2] = reg
                <5> DEFINE S == {r, reg}
                <5>1. <<r>> \in Seq(S) /\ reg \in S /\ Len(<<r>>) = 1 /\ <<r>>[1] = r
                    OBVIOUS
                <5> QED BY <5>1
            <4>4. AtLookup(m)' = r /\ AtQuery(m)' = reg
                BY <4>2, <4>3 DEF AtLookup, AtQuery
            <4> QED BY <3>1, <4>1, <4>4
        <3>2. CASE ~NamesApp(input[m].strat)
            <4>1. seen[m] = <<>>
                BY <1>0, <3>2 DEF Local, Fresh
            <4>2. seen'[m] = <<reg>> /\ Len(<<reg>>) = 1
                BY <1>0, <1>1, <4>1 DEF Types
            <4>3. AtLookup(m)' = reg /\ AtQuery(m)' = reg
                BY <4>2 DEF AtLookup, AtQuery
            <4> QED BY <2>a, <3>2, <4>3
        <3> QED BY <3>1, <3>2
    <2>7. \A it \in Recipients(its) : QualifiedUser(m, it.user)'
        BY <2>1, <2>a, <2>4, <2>6 DEF QualifiedUser
    <2>8. Fresh(m)'
        BY <2>1, <2>3, <2>5, <2>7 DEF Fresh, Working, Sending
    <2>9. Covered(m)'
        <3>1. Answers(input[m], reg.users, its)
            BY <2>a, ResolvedAnswers
        <3>2. Result(m)' = its
            BY <2>1, <2>3, <2>5 DEF Result
        <3> QED BY <2>1, <2>6, <3>1, <3>2 DEF Covered
    <2>10. "validate" \in {"app", "resolve", "validate"}
        OBVIOUS
    <2> QED BY <1>0, <1>1, <2>1, <2>3, <2>4, <2>8, <2>9, <2>10, ReadKeeps
<1>2. CASE Deny(m, "resolver_error") /\ UNCHANGED <<items, seen>>
    <2>1. UNCHANGED <<reg, input, appMin, items, sending, report, expired, chat, seen>>
        BY <1>2 DEF Resolve
    <2> QED BY <1>0, <1>2, <2>1, DenyKeeps DEF Before
<1> QED BY <1>1, <1>2 DEF Resolve

\* Validate keeps the invariant: without its row the loop is not entered.
LEMMA ValidateKeeps ==
    ASSUME DispatchInv, NEW m \in Reqs, Validate(m)
    PROVE  DispatchInv'
<1> DEFINE row == Row("validated", 0)
<1>0. /\ Types /\ Local(m) /\ pc[m] = "validate"
      /\ row \in Rows /\ row.stage = "validated" /\ row.user = 0
    BY DEF DispatchInv, Validate, Row, Rows, Stage
<1> HIDE DEF row
<1>1. PICK o \in WriteOutcomes(m) :
        /\ AuditWrite(m, row, o)
        /\ IF o = "ok" THEN Goto(m, "loop") /\ UNCHANGED resp
                       ELSE Answer(m, "audit_unavailable")
    BY DEF Validate, row
<1>2. UNCHANGED <<reg, input, appMin, items, sending, report, expired, chat, seen>>
    BY DEF Validate
<1>3. Wrote(m, row, o)
    BY <1>0, <1>1, WriteEffect
<1>4. CASE o = "ok"
    <2>1. Types'
        BY <1>0, <1>1, <1>2, <1>3, <1>4 DEF Types, IsRegistry, Wrote, Goto, Verdicts, Recipients
    <2>2. Frame(m)
        BY <1>0, <1>1, <1>2, <1>3, <1>4 DEF Frame, Same, Types, Wrote, Goto
    <2>3. /\ pc'[m] = "loop" /\ resp'[m] = "none" /\ chat'[m] = <<>> /\ report'[m] = {}
          /\ chat[m] = <<>>
        BY <1>0, <1>1, <1>2, <1>4 DEF Types, Local, InOrder, Goto
    <2>4. HasRow(m, "received", 0)' /\ HasRow(m, "validated", 0)'
        BY <1>0, <1>3, <1>4 DEF Local, Audited, Working, Wrote
    <2>5. InOrder(m)' /\ Audited(m)' /\ SentOnce(m)' /\ Reported(m)'
        BY <2>3, <2>4 DEF InOrder, Audited, SentOnce, Reported, Got
    <2>6. Announced(m)'
        BY <2>3 DEF Announced
    <2>7. Fresh(m)'
        BY <1>0, <1>2, <2>3 DEF Local, Fresh, Sending, QualifiedUser, AtLookup, AtQuery
    <2>8. Truthful(m)'
        <3>1. \A i \in DOMAIN log[m] : log[m][i].stage # "delivered"
            BY <1>0, <2>3 DEF Truthful, Local, Got
        <3>2. \A i \in DOMAIN log'[m] : log'[m][i].stage # "delivered"
            BY <1>0, <1>3, <3>1 DEF Wrote
        <3> QED BY <2>3, <3>2 DEF Truthful
    <2>9. Covered(m)'
        BY <1>0, <1>2, <2>3 DEF Local, Covered, Result, AtQuery, Sending
    <2> QED BY <2>1, <2>2, <2>5, <2>6, <2>7, <2>8, <2>9, OthersKeep DEF Local
<1>5. CASE o # "ok"
    <2>1. Answer(m, "audit_unavailable") /\ pc[m] \in Before /\ row.stage # "delivered"
        BY <1>0, <1>1, <1>5 DEF Before
    <2>2. input' \in [Reqs -> Inputs] /\ \A n \in Reqs \ {m} : input'[n] = input[n]
        BY <1>0, <1>2 DEF Types
    <2> QED BY <1>0, <1>1, <1>2, <2>1, <2>2, RefusalKeeps
<1> QED BY <1>4, <1>5

\* There is one next recipient in the loop.
LEMMA NextRecipient ==
    ASSUME NEW its, Verdicts(its),
           NEW a \in Recipients(its), NEW b \in Recipients(its),
           IsNext(Recipients(its), a), IsNext(Recipients(its), b)
    PROVE  a = b
    BY DEF IsNext, Verdicts, Recipients

\* Dispatched keeps the invariant: the next recipient is announced.
LEMMA DispatchedKeeps ==
    ASSUME DispatchInv, NEW m \in Reqs, Dispatched(m)
    PROVE  DispatchInv'
<1>0. Types /\ Local(m) /\ pc[m] = "loop" /\ Verdicts(items[m])
    BY DEF DispatchInv, Dispatched, Types
<1>1. PICK it \in Recipients(items[m]), o \in WriteOutcomes(m) :
        /\ IsNext(Recipients(items[m]), it)
        /\ AuditWrite(m, Row("dispatched", it.user), o)
    BY DEF Dispatched
<1>2. /\ UNCHANGED <<reg, input, appMin, items, sending, report, resp, expired, chat, seen>>
      /\ Goto(m, "send")
    BY DEF Dispatched
<1> DEFINE row == Row("dispatched", it.user)
<1>3. row \in Rows /\ row.stage = "dispatched" /\ row.user = it.user
    BY <1>0 DEF Row, Rows, Stage, Verdicts, Recipients
<1>4. AuditWrite(m, row, o)
    BY <1>1
<1> HIDE DEF row
<1>5. Wrote(m, row, o)
    BY <1>0, <1>3, <1>4, WriteEffect
<1>6. Types'
    BY <1>0, <1>2, <1>5 DEF Types, IsRegistry, Wrote, Goto, Verdicts, Recipients
<1>7. Frame(m)
    BY <1>0, <1>2, <1>5 DEF Frame, Same, Types, Wrote, Goto
<1>8. pc'[m] = "send"
    BY <1>0, <1>2 DEF Types, Goto
<1>9. InOrder(m)' /\ SentOnce(m)' /\ Reported(m)'
    BY <1>0, <1>2, <1>8 DEF Local, InOrder, SentOnce, Reported, Got
<1>10. Audited(m)'
    BY <1>0, <1>2, <1>5, <1>8 DEF Local, Audited, Working, Sending, Wrote
<1>11. Announced(m)'
    <2>1. Accounted(m, "dispatched", it.user)'
        BY <1>3, <1>5 DEF Wrote
    <2>2. \A b \in Recipients(items[m]) : IsNext(Recipients(items[m]), b) => b = it
        BY <1>0, <1>1, NextRecipient
    <2>3. \A stage, user : Accounted(m, stage, user) => Accounted(m, stage, user)'
        BY <1>5 DEF Wrote
    <2> QED BY <1>0, <1>2, <2>1, <2>2, <2>3 DEF Local, Announced
<1>12. Truthful(m)'
    <2>1. \A i \in DOMAIN log'[m] : log'[m][i].stage = "delivered" => Got(m, log'[m][i].user)
        BY <1>0, <1>3, <1>5 DEF Local, Truthful, Wrote
    <2> QED BY <1>0, <1>2, <1>8, <2>1 DEF Local, Truthful, Got
<1>13. Fresh(m)'
    BY <1>0, <1>2, <1>8 DEF Local, Fresh, Sending, QualifiedUser, AtLookup, AtQuery
<1>14. Covered(m)'
    BY <1>0, <1>2, <1>8 DEF Local, Covered, Result, AtQuery, Sending
<1> QED BY <1>6, <1>7, <1>9, <1>10, <1>11, <1>12, <1>13, <1>14, OthersKeep DEF Local

\* Send keeps the invariant: the recipient was announced, qualified, and did
\* not have the message.
LEMMA SendKeeps ==
    ASSUME DispatchInv, NEW m \in Reqs, Send(m)
    PROVE  DispatchInv'
<1>0. Types /\ Local(m) /\ pc[m] = "send" /\ Verdicts(items[m]) /\ chat[m] \in Seq(Nat)
    BY DEF DispatchInv, Send, Types
<1>1. PICK it \in Recipients(items[m]), o \in SendOutcomes(m) :
        /\ IsNext(Recipients(items[m]), it)
        /\ chat' = IF o = "refused" THEN chat ELSE [chat EXCEPT ![m] = Append(@, it.user)]
        /\ sending' = [sending EXCEPT ![m] = IF o = "sent" THEN "delivered" ELSE "failed"]
    BY DEF Send
<1>2. /\ UNCHANGED <<reg, input, appMin, items, report, resp, expired, log, errors, seen>>
      /\ Goto(m, "record")
    BY DEF Send
<1>3. /\ it.user \in Nat /\ ~Got(m, it.user) /\ QualifiedUser(m, it.user)
      /\ Accounted(m, "dispatched", it.user)
    BY <1>0, <1>1 DEF Verdicts, Recipients, Local, SentOnce, Fresh, Sending, Announced
<1>4. chat' \in [Reqs -> Seq(Nat)] /\ \A n \in Reqs \ {m} : chat'[n] = chat[n]
    BY <1>0, <1>1, <1>3 DEF Types
<1>5. Types'
    BY <1>0, <1>1, <1>2, <1>4 DEF Types, IsRegistry, Goto, Verdicts, Recipients
<1>6. Frame(m)
    BY <1>0, <1>1, <1>2, <1>4 DEF Frame, Same, Types, Goto
<1>7. pc'[m] = "record" /\ sending'[m] = IF o = "sent" THEN "delivered" ELSE "failed"
    BY <1>0, <1>1, <1>2 DEF Types, Goto
\* The chat has the old messages, and the new one unless the call was refused.
<1>8. /\ \A i \in DOMAIN chat[m] : i \in DOMAIN chat'[m] /\ chat'[m][i] = chat[m][i]
      /\ \A i \in DOMAIN chat'[m] :
            i \in DOMAIN chat[m] \/ (chat'[m][i] = it.user /\ o # "refused")
      /\ \A i, j \in DOMAIN chat'[m] : i \notin DOMAIN chat[m] /\ j \notin DOMAIN chat[m] => i = j
      /\ o # "refused" => \E i \in DOMAIN chat'[m] : chat'[m][i] = it.user
    <2>1. CASE o = "refused"
        BY <1>1, <2>1
    <2>2. CASE o # "refused"
        <3>1. chat'[m] = Append(chat[m], it.user)
            BY <1>0, <1>1, <2>2 DEF Types
        <3>2. /\ DOMAIN chat'[m] = 1..(Len(chat[m]) + 1) /\ DOMAIN chat[m] = 1..Len(chat[m])
              /\ Len(chat[m]) \in Nat /\ chat'[m][Len(chat[m]) + 1] = it.user
              /\ \A i \in 1..Len(chat[m]) : chat'[m][i] = chat[m][i]
            BY <1>0, <1>3, <3>1
        <3> QED BY <2>2, <3>2
    <2> QED BY <2>1, <2>2
<1>9. InOrder(m)' /\ Audited(m)'
    BY <1>0, <1>2, <1>7 DEF Local, InOrder, Audited, Working, Sending, HasRow
<1>10. SentOnce(m)'
    <2>1. \A i, j \in DOMAIN chat'[m] : chat'[m][i] = chat'[m][j] => i = j
        BY <1>0, <1>3, <1>8 DEF Local, SentOnce, Got
    <2>2. \A b \in Recipients(items[m]) : Got(m, b.user)' => b = it
        BY <1>0, <1>1, <1>8 DEF Local, SentOnce, Got, Verdicts
    <2> QED BY <1>1, <1>2, <1>7, <2>1, <2>2 DEF SentOnce
<1>11. Reported(m)'
    BY <1>0, <1>2, <1>8 DEF Local, Reported
<1>12. Announced(m)'
    <2>1. \A i \in DOMAIN chat'[m] : Accounted(m, "dispatched", chat'[m][i])
        BY <1>0, <1>3, <1>8 DEF Local, Announced
    <2> QED BY <1>0, <1>2, <1>7, <2>1 DEF Local, Announced, Accounted, HasRow
<1>13. Truthful(m)'
    <2>1. \A user : Got(m, user) => Got(m, user)'
        BY <1>8 DEF Got
    <2>2. sending'[m] = "delivered" => Got(m, it.user)'
        BY <1>7, <1>8 DEF Got
    <2>3. \A b \in Recipients(items[m]) : IsNext(Recipients(items[m]), b) => b = it
        BY <1>0, <1>1, NextRecipient
    <2> QED BY <1>0, <1>2, <1>7, <2>1, <2>2, <2>3 DEF Local, Truthful
<1>14. Fresh(m)'
    <2>1. \A i \in DOMAIN chat'[m] : QualifiedUser(m, chat'[m][i])
        BY <1>0, <1>3, <1>8 DEF Local, Fresh
    <2> QED BY <1>0, <1>2, <1>7, <2>1 DEF Local, Fresh, Sending, QualifiedUser, AtLookup, AtQuery
<1>15. Covered(m)'
    BY <1>0, <1>2, <1>7 DEF Local, Covered, Result, AtQuery, Sending
<1> QED BY <1>5, <1>6, <1>9, <1>10, <1>11, <1>12, <1>13, <1>14, <1>15,
       OthersKeep DEF Local

\* A handled item leaves the list, and its report takes its place.
Handled(m, it, status) ==
    /\ report' = [report EXCEPT ![m] = @ \union {Verdict(it, status)}]
    /\ items' = [items EXCEPT ![m] = @ \ {it}]

\* Handling an item gives the handler one more report and one item less.
LEMMA HandledEffect ==
    ASSUME Types, NEW m \in Reqs, NEW it \in items[m], NEW status, Handled(m, it, status)
    PROVE  /\ items' = [n \in Reqs |-> items'[n]] /\ report' = [n \in Reqs |-> report'[n]]
           /\ \A n \in Reqs \ {m} : items'[n] = items[n] /\ report'[n] = report[n]
           /\ Recipients(items'[m]) = Recipients(items[m]) \ {it}
           /\ items'[m] = items[m] \ {it} /\ \A n \in Reqs : Verdicts(items'[n])
           /\ \A r \in report'[m] : r \in report[m] \/ r = Verdict(it, status)
           /\ report[m] \subseteq report'[m]
           /\ Verdict(it, status) \in report'[m] /\ Result(m)' = Result(m)
<1>1. /\ items' = [n \in Reqs |-> items'[n]] /\ report' = [n \in Reqs |-> report'[n]]
      /\ \A n \in Reqs \ {m} : items'[n] = items[n] /\ report'[n] = report[n]
      /\ items'[m] = items[m] \ {it}
    BY DEF Types, Handled
<1>2. report'[m] = report[m] \union {Verdict(it, status)}
    BY DEF Types, Handled
<1>3. Recipients(items'[m]) = Recipients(items[m]) \ {it}
    BY <1>1 DEF Recipients
<1>4. \A n \in Reqs : Verdicts(items'[n])
    BY <1>1, <1>3 DEF Types, Verdicts, Recipients
<1>5. Unreport(Verdict(it, status)) = it
    BY DEF Types, Verdicts, Verdict, Unreport
<1>6. Result(m)' = Result(m)
    BY <1>1, <1>2, <1>5 DEF Result
<1> QED BY <1>1, <1>2, <1>3, <1>4, <1>6

\* Record keeps the invariant: what is written and reported of the recipient is
\* what became of the send.
LEMMA RecordKeeps ==
    ASSUME DispatchInv, NEW m \in Reqs, Record(m)
    PROVE  DispatchInv'
<1>0. Types /\ Local(m) /\ pc[m] = "record" /\ Verdicts(items[m])
    BY DEF DispatchInv, Record, Types
<1>a. PICK status \in {"delivered", "failed"} : status = sending[m]
    BY <1>0 DEF Local, Truthful
<1>1. PICK it \in Recipients(items[m]), o \in WriteOutcomes(m) :
        /\ IsNext(Recipients(items[m]), it)
        /\ AuditWrite(m, Row(StageOf(status), it.user), o)
        /\ Handled(m, it, status)
    BY <1>a DEF Record, Handled
<1>2. /\ UNCHANGED <<reg, input, appMin, resp, expired, chat, seen>>
      /\ Goto(m, "loop") /\ sending' = [sending EXCEPT ![m] = "none"]
    BY DEF Record
<1> DEFINE row == Row(StageOf(status), it.user)
           new == Verdict(it, status)
<1>3. /\ row \in Rows /\ row.stage = StageOf(status) /\ row.user = it.user
      /\ it \in items[m] /\ new.idx = it.idx /\ new.user = it.user
      /\ new.status = status /\ new.code = "ok"
    BY <1>0 DEF Row, Rows, Stage, StageOf, Verdicts, Recipients, Verdict
<1>4. AuditWrite(m, row, o)
    BY <1>1
<1> HIDE DEF row
<1>5. Wrote(m, row, o)
    BY <1>0, <1>3, <1>4, WriteEffect
<1>6. /\ items' = [n \in Reqs |-> items'[n]] /\ report' = [n \in Reqs |-> report'[n]]
      /\ \A n \in Reqs \ {m} : items'[n] = items[n] /\ report'[n] = report[n]
      /\ Recipients(items'[m]) = Recipients(items[m]) \ {it}
      /\ items'[m] = items[m] \ {it} /\ \A n \in Reqs : Verdicts(items'[n])
      /\ \A r \in report'[m] : r \in report[m] \/ r = new
      /\ report[m] \subseteq report'[m] /\ new \in report'[m] /\ Result(m)' = Result(m)
    BY <1>0, <1>1, <1>3, HandledEffect
<1> HIDE DEF new
<1>7. Types'
    BY <1>0, <1>2, <1>5, <1>6 DEF Types, IsRegistry, Wrote, Goto
<1>8. Frame(m)
    BY <1>0, <1>2, <1>5, <1>6 DEF Frame, Same, Types, Wrote, Goto
<1>9. pc'[m] = "loop" /\ chat'[m] = chat[m]
    BY <1>0, <1>2 DEF Types, Goto
<1>10. status = "delivered" => Got(m, it.user)
    BY <1>0, <1>a, <1>1 DEF Local, Truthful
<1>11. InOrder(m)'
    BY <1>0, <1>2, <1>9 DEF Local, InOrder
<1>12. Audited(m)'
    BY <1>0, <1>5, <1>9 DEF Local, Audited, Working, Sending, Wrote
<1>13. SentOnce(m)'
    <2>1. ASSUME NEW b \in Recipients(items'[m]), Got(m, b.user) PROVE FALSE
        BY <1>0, <1>1, <1>6, <2>1, NextRecipient DEF Local, SentOnce
    <2> QED BY <1>0, <1>9, <2>1 DEF Local, SentOnce, Got
<1>14. Reported(m)'
    <2>1. \A i \in DOMAIN chat[m] :
            \/ \E r \in report'[m] : r.status # "skipped" /\ r.user = chat[m][i]
            \/ \E b \in Recipients(items'[m]) : b.user = chat[m][i]
        BY <1>0, <1>3, <1>6, <1>9 DEF Local, Reported
    <2>2. \A r, s \in report'[m] : r.idx = s.idx => r = s
        BY <1>0, <1>3, <1>6 DEF Local, Reported
    <2>3. \A r \in report'[m], b \in items'[m] : r.idx # b.idx
        BY <1>0, <1>3, <1>6 DEF Local, Reported, Verdicts
    <2>4. \A r \in report'[m] : r.status # "skipped" => r.code = "ok"
        BY <1>0, <1>3, <1>6 DEF Local, Reported
    <2> QED BY <1>9, <2>1, <2>2, <2>3, <2>4 DEF Reported
<1>15. Announced(m)'
    <2>1. \A stage, user : Accounted(m, stage, user) => Accounted(m, stage, user)'
        BY <1>5 DEF Wrote
    <2>2. Accounted(m, StageOf(new.status), new.user)' /\ new.status # "skipped"
        BY <1>3, <1>5, <1>9 DEF Wrote
    <2>3. \A r \in report'[m] :
            Accounted(m, IF r.status = "skipped" THEN "denied" ELSE StageOf(r.status), r.user)'
        BY <1>0, <1>6, <2>1, <2>2 DEF Local, Announced
    <2> QED BY <1>0, <1>9, <2>1, <2>3 DEF Local, Announced
<1>16. Truthful(m)'
    <2>1. \A i \in DOMAIN log'[m] : log'[m][i].stage = "delivered" => Got(m, log'[m][i].user)
        BY <1>0, <1>3, <1>5, <1>10 DEF Local, Truthful, Wrote, StageOf
    <2>2. \A r \in report'[m] : r.status = "delivered" => Got(m, r.user)
        BY <1>0, <1>3, <1>6, <1>10 DEF Local, Truthful
    <2> QED BY <1>9, <2>1, <2>2 DEF Truthful, Got
<1>17. Fresh(m)'
    BY <1>0, <1>2, <1>6, <1>9 DEF Local, Fresh, Sending, QualifiedUser, AtLookup, AtQuery
<1>18. Covered(m)'
    BY <1>0, <1>2, <1>6, <1>9 DEF Local, Covered, AtQuery, Sending
<1> QED BY <1>7, <1>8, <1>11, <1>12, <1>13, <1>14, <1>15, <1>16, <1>17, <1>18,
       OthersKeep DEF Local

\* Skip keeps the invariant: a skipped recipient is denied and reported.
LEMMA SkipKeeps ==
    ASSUME DispatchInv, NEW m \in Reqs, Skip(m)
    PROVE  DispatchInv'
<1>0. Types /\ Local(m) /\ pc[m] = "loop" /\ Verdicts(items[m]) /\ Recipients(items[m]) = {}
    BY DEF DispatchInv, Skip, Types
<1>1. PICK it \in items[m], o \in WriteOutcomes(m) :
        /\ AuditWrite(m, Row("denied", it.user), o)
        /\ Handled(m, it, "skipped")
    BY DEF Skip, Handled
<1>2. UNCHANGED <<reg, pc, input, appMin, sending, resp, expired, chat, seen>>
    BY DEF Skip
<1> DEFINE row == Row("denied", it.user)
           new == Verdict(it, "skipped")
<1>3. /\ row \in Rows /\ row.stage = "denied" /\ row.user = it.user
      /\ new.idx = it.idx /\ new.user = it.user /\ new.status = "skipped"
    BY <1>0 DEF Row, Rows, Stage, Verdicts, Verdict
<1>4. AuditWrite(m, row, o)
    BY <1>1
<1> HIDE DEF row
<1>5. Wrote(m, row, o)
    BY <1>0, <1>3, <1>4, WriteEffect
<1>6. /\ items' = [n \in Reqs |-> items'[n]] /\ report' = [n \in Reqs |-> report'[n]]
      /\ \A n \in Reqs \ {m} : items'[n] = items[n] /\ report'[n] = report[n]
      /\ Recipients(items'[m]) = {} /\ items'[m] = items[m] \ {it}
      /\ \A n \in Reqs : Verdicts(items'[n])
      /\ \A r \in report'[m] : r \in report[m] \/ r = new
      /\ report[m] \subseteq report'[m] /\ Result(m)' = Result(m)
    BY <1>0, <1>1, HandledEffect
<1> HIDE DEF new
<1>7. Types'
    BY <1>0, <1>2, <1>5, <1>6 DEF Types, IsRegistry, Wrote
<1>8. Frame(m)
    BY <1>0, <1>2, <1>5, <1>6 DEF Frame, Same, Types, Wrote
<1>9. InOrder(m)' /\ Audited(m)'
    BY <1>0, <1>2, <1>5 DEF Local, InOrder, Audited, Working, Sending, Wrote
<1>10. SentOnce(m)'
    BY <1>0, <1>2, <1>3, <1>6 DEF Local, SentOnce, Got
<1>11. Reported(m)'
    <2>1. \A r, s \in report'[m] : r.idx = s.idx => r = s
        BY <1>0, <1>3, <1>6 DEF Local, Reported
    <2>2. \A r \in report'[m], b \in items'[m] : r.idx # b.idx
        BY <1>0, <1>3, <1>6 DEF Local, Reported, Verdicts
    <2>3. \A r \in report'[m] : r.status # "skipped" => r.code = "ok"
        BY <1>0, <1>3, <1>6 DEF Local, Reported
    <2>4. \A i \in DOMAIN chat[m] :
            \E r \in report'[m] : r.status # "skipped" /\ r.user = chat[m][i]
        BY <1>0, <1>6 DEF Local, Reported
    <2> QED BY <1>2, <2>1, <2>2, <2>3, <2>4 DEF Reported
<1>12. Announced(m)'
    <2>1. \A stage, user : Accounted(m, stage, user) => Accounted(m, stage, user)'
        BY <1>5 DEF Wrote
    <2>2. Accounted(m, "denied", new.user)'
        BY <1>3, <1>5 DEF Wrote
    <2>3. \A r \in report'[m] :
            Accounted(m, IF r.status = "skipped" THEN "denied" ELSE StageOf(r.status), r.user)'
        BY <1>0, <1>3, <1>6, <2>1, <2>2 DEF Local, Announced
    <2> QED BY <1>0, <1>2, <2>1, <2>3 DEF Local, Announced
<1>13. Truthful(m)'
    <2>1. \A i \in DOMAIN log'[m] : log'[m][i].stage = "delivered" => Got(m, log'[m][i].user)
        BY <1>0, <1>3, <1>5 DEF Local, Truthful, Wrote
    <2>2. \A r \in report'[m] : r.status = "delivered" => Got(m, r.user)
        BY <1>0, <1>3, <1>6 DEF Local, Truthful
    <2> QED BY <1>0, <1>2, <2>1, <2>2 DEF Truthful, Got
<1>14. Fresh(m)'
    BY <1>0, <1>2, <1>6 DEF Local, Fresh, Sending, QualifiedUser, AtLookup, AtQuery
<1>15. Covered(m)'
    BY <1>0, <1>2, <1>6 DEF Local, Covered, AtQuery, Sending
<1> QED BY <1>7, <1>8, <1>9, <1>10, <1>12, <1>13, <1>14, <1>11, <1>15,
       OthersKeep DEF Local

\* Respond keeps the invariant: "ok" is answered when nothing is left to handle.
LEMMA RespondKeeps ==
    ASSUME DispatchInv, NEW m \in Reqs, Respond(m)
    PROVE  DispatchInv'
<1>0. Types /\ Local(m) /\ pc[m] = "loop" /\ items[m] = {}
    BY DEF DispatchInv, Respond
<1>1. /\ UNCHANGED <<reg, input, appMin, items, sending, report, expired, log, errors, chat, seen>>
      /\ pc' = [pc EXCEPT ![m] = "done"] /\ resp' = [resp EXCEPT ![m] = "ok"]
    BY DEF Respond, Answer, Goto
<1>2. Types'
    BY <1>0, <1>1 DEF Types, IsRegistry, Verdicts, Recipients
<1>3. Frame(m)
    BY <1>0, <1>1 DEF Frame, Same, Types
<1>4. pc'[m] = "done" /\ resp'[m] = "ok"
    BY <1>0, <1>1 DEF Types
<1>5. InOrder(m)' /\ Audited(m)'
    BY <1>0, <1>1, <1>4 DEF Local, InOrder, Audited, Working, Sending, HasRow
<1>6. SentOnce(m)' /\ Reported(m)'
    BY <1>0, <1>1, <1>4 DEF Local, SentOnce, Reported, Got, Recipients
<1>7. Announced(m)' /\ Truthful(m)'
    BY <1>0, <1>1, <1>4 DEF Local, Announced, Truthful, Got, HasRow, Accounted
<1>8. Fresh(m)'
    BY <1>0, <1>1, <1>4 DEF Local, Fresh, Sending, QualifiedUser, AtLookup, AtQuery
<1>9. Covered(m)'
    BY <1>0, <1>1, <1>4 DEF Local, Covered, Result, AtQuery, Sending
<1> QED BY <1>2, <1>3, <1>5, <1>6, <1>7, <1>8, <1>9, OthersKeep DEF Local

-----------------------------------------------------------------------------
(* The environment. *)

\* Expire keeps the invariant, which does not speak of the context.
LEMMA ExpireKeeps ==
    ASSUME DispatchInv, NEW m \in Reqs, Expire(m)
    PROVE  DispatchInv'
<1>1. Types'
    BY DEF DispatchInv, Expire, Types, IsRegistry, Verdicts, Recipients
<1>2. ASSUME NEW n \in Reqs PROVE Local(n)'
    <2>1. Same(n) /\ Local(n)
        BY DEF DispatchInv, Expire, Same
    <2> QED BY <2>1, IdleLocal
<1> QED BY <1>1, <1>2 DEF DispatchInv

\* Crash keeps the invariant: a dead handler claims nothing of itself.
LEMMA CrashKeeps ==
    ASSUME DispatchInv, Crash
    PROVE  DispatchInv'
<1>0. /\ pc' = [m \in Reqs |-> IF Running(m) THEN "dead" ELSE pc[m]]
      /\ UNCHANGED <<reg, changes, input, appMin, items, sending, report, resp,
                     expired, log, errors, chat, seen>>
    BY DEF Crash
<1>1. Types'
    BY <1>0 DEF DispatchInv, Types, IsRegistry, Verdicts, Recipients
<1>2. ASSUME NEW n \in Reqs PROVE Local(n)'
    <2>0. Local(n)
        BY DEF DispatchInv
    <2>1. CASE Running(n)
        <3>1. pc'[n] = "dead" /\ pc[n] # "done"
            BY <1>0, <2>1 DEF Running
        <3>2. InOrder(n)' /\ Audited(n)'
            BY <1>0, <2>0, <3>1 DEF Local, InOrder, Audited, Working, Sending, HasRow
        <3>3. SentOnce(n)'
            <4>1. ASSUME NEW it \in Recipients(items[n]), Got(n, it.user)
                  PROVE  IsNext(Recipients(items[n]), it)
                BY <2>0, <4>1 DEF Local, SentOnce
            <4> QED BY <1>0, <2>0, <3>1, <4>1 DEF Local, SentOnce, Got
        <3>4. Reported(n)' /\ Announced(n)' /\ Truthful(n)'
            BY <1>0, <2>0, <3>1
            DEF Local, Reported, Announced, Truthful, HasRow, Accounted, Got
        <3>5. Fresh(n)'
            BY <1>0, <2>0, <3>1 DEF Local, Fresh, Sending, QualifiedUser, AtLookup, AtQuery
        <3>6. Covered(n)'
            BY <1>0, <2>0, <3>1 DEF Local, Covered, Result, AtQuery, Sending, InOrder
        <3> QED BY <3>2, <3>3, <3>4, <3>5, <3>6 DEF Local
    <2>2. CASE ~Running(n)
        <3>1. Same(n)
            BY <1>0, <2>2 DEF Same
        <3> QED BY <2>0, <3>1, IdleLocal
    <2> QED BY <2>1, <2>2
<1> QED BY <1>1, <1>2 DEF DispatchInv

\* The admin API and the bot leave a well-formed registry well formed.
LEMMA RegistryStays ==
    ASSUME IsRegistry(reg), NEW r \in NextRegistries
    PROVE  IsRegistry(r)
<1> DEFINE rows == reg.users
           D == DOMAIN rows
<1>1. /\ reg = [app |-> reg.app, users |-> rows] /\ reg.app \in AppRow
      /\ D \subseteq Nat /\ rows \in [D -> UserRow]
      /\ \A u, v \in D : rows[u].tg = rows[v].tg => u = v
    BY DEF IsRegistry
<1>2. ASSUME NEW app \in AppRow, NEW users \in [D -> UserRow],
             \A u \in D : users[u].tg = rows[u].tg
      PROVE  IsRegistry([app |-> app, users |-> users])
    <2>1. DOMAIN users = D
        OBVIOUS
    <2> QED BY <1>1, <1>2, <2>1 DEF IsRegistry
<1>3. CASE \E app \in AppRow : r = [reg EXCEPT !.app = app]
    <2>1. PICK app \in AppRow : r = [reg EXCEPT !.app = app]
        BY <1>3
    <2>2. r = [app |-> app, users |-> rows]
        BY <1>1, <2>1
    <2> QED BY <1>1, <1>2, <2>2
<1>4. CASE r = Purged
    <2> DEFINE app == [reg.app EXCEPT !.active = FALSE]
               users == [u \in D |-> [rows[u] EXCEPT !.sub = FALSE, !.topic = FALSE]]
    <2>1. app \in AppRow
        BY <1>1 DEF AppRow
    <2>2. \A row \in UserRow :
             /\ [row EXCEPT !.sub = FALSE, !.topic = FALSE] \in UserRow
             /\ [row EXCEPT !.sub = FALSE, !.topic = FALSE].tg = row.tg
        BY DEF UserRow
    <2>3. \A u \in D : rows[u] \in UserRow
        BY <1>1
    <2>4. users \in [D -> UserRow] /\ \A u \in D : users[u].tg = rows[u].tg
        BY <2>2, <2>3
    <2>5. r = [app |-> app, users |-> users]
        BY <1>4 DEF Purged
    <2> HIDE DEF app, users
    <2> QED BY <1>2, <2>1, <2>4, <2>5
<1>5. CASE \E u \in D : \E row \in NextRows(rows[u]) : r = [reg EXCEPT !.users[u] = row]
    <2>1. PICK u \in D : \E row \in NextRows(rows[u]) : r = [reg EXCEPT !.users[u] = row]
        BY <1>5
    <2>2. PICK row \in NextRows(rows[u]) : r = [reg EXCEPT !.users[u] = row]
        BY <2>1
    <2>3. rows[u] \in UserRow
        BY <1>1
    <2>4. row \in UserRow /\ row.tg = rows[u].tg
        BY <2>3 DEF NextRows, UserRow
    <2>5. r = [app |-> reg.app, users |-> [rows EXCEPT ![u] = row]]
        BY <1>1, <2>2
    <2>6. /\ [rows EXCEPT ![u] = row] \in [D -> UserRow]
          /\ \A v \in D : [rows EXCEPT ![u] = row][v].tg = rows[v].tg
        BY <1>1, <2>4
    <2> QED BY <1>1, <1>2, <2>5, <2>6
<1> QED BY <1>3, <1>4, <1>5 DEF NextRegistries

\* RegistryChange keeps the invariant, which speaks of what was read.
LEMMA RegistryChangeKeeps ==
    ASSUME DispatchInv, RegistryChange
    PROVE  DispatchInv'
<1>0. UNCHANGED <<pc, input, appMin, items, sending, report, resp, expired, log, errors,
                  chat, seen>>
    BY DEF RegistryChange
<1>1. IsRegistry(reg)'
    <2>1. PICK r \in NextRegistries : reg' = r
        BY DEF RegistryChange
    <2>2. IsRegistry(r)
        BY RegistryStays DEF DispatchInv, Types
    <2> QED BY <2>1, <2>2 DEF IsRegistry
<1>2. Types'
    BY <1>0, <1>1 DEF DispatchInv, Types, Verdicts, Recipients
<1>3. ASSUME NEW n \in Reqs PROVE Local(n)'
    <2>1. Local(n) /\ Same(n)
        BY <1>0 DEF DispatchInv, Same
    <2> QED BY <2>1, IdleLocal
<1> QED BY <1>2, <1>3 DEF DispatchInv

-----------------------------------------------------------------------------
(* The theorems. *)

\* A server that has not received anything satisfies the invariant.
LEMMA DispatchInitInv == ASSUME Init PROVE DispatchInv
<1>1. Types
    BY DispatchAssumption DEF Init, Types, Verdicts, Recipients
<1>2. ASSUME NEW m \in Reqs PROVE Local(m)
    <2>1. /\ pc[m] = "idle" /\ chat[m] = <<>> /\ report[m] = {} /\ resp[m] = "none"
          /\ items[m] = {} /\ log[m] = <<>> /\ seen[m] = <<>>
        BY DEF Init
    <2> QED BY <2>1 DEF Local, InOrder, Audited, SentOnce, Reported, Covered, Announced,
                       Truthful, Fresh, Working, Sending, Recipients, Got
<1> QED BY <1>1, <1>2 DEF DispatchInv

\* Every step keeps the invariant.
LEMMA DispatchNextInv == DispatchInv /\ [Next]_vars => DispatchInv'
<1> SUFFICES ASSUME DispatchInv, [Next]_vars PROVE DispatchInv'
    OBVIOUS
<1>1. ASSUME NEW m \in Reqs, NEW in \in Inputs, Receive(m, in) PROVE DispatchInv'
    BY <1>1, ReceiveKeeps
<1>2. ASSUME NEW m \in Reqs, HandlerStep(m) PROVE DispatchInv'
    BY <1>2, CheckKeeps, LookupAppKeeps, ResolveKeeps, ValidateKeeps, DispatchedKeeps,
       SendKeeps, RecordKeeps, SkipKeeps, RespondKeeps DEF HandlerStep
<1>3. ASSUME NEW m \in Reqs, Expire(m) PROVE DispatchInv'
    BY <1>3, ExpireKeeps
<1>4. CASE RegistryChange
    BY <1>4, RegistryChangeKeeps
<1>5. CASE Crash
    BY <1>5, CrashKeeps
<1>6. CASE UNCHANGED vars
    <2>1. Types'
        BY <1>6 DEF DispatchInv, Types, vars, IsRegistry, Verdicts, Recipients
    <2>2. ASSUME NEW n \in Reqs PROVE Local(n)'
        <3>1. Same(n) /\ Local(n)
            BY <1>6 DEF DispatchInv, vars, Same
        <3> QED BY <3>1, IdleLocal
    <2> QED BY <2>1, <2>2 DEF DispatchInv
<1> QED BY <1>1, <1>2, <1>3, <1>4, <1>5, <1>6 DEF Next

\* DispatchInv holds in every reachable state.
THEOREM DispatchInvariant == Spec => []DispatchInv
<1>1. Init => DispatchInv
    BY DispatchInitInv
<1> QED BY <1>1, DispatchNextInv, PTL DEF Spec

\* The two fail-closed writes: nothing reaches Telegram without the received
\* and the validated row.
THEOREM AlwaysFailClosed == Spec => []FailClosed
<1>1. DispatchInv => FailClosed
    BY DEF DispatchInv, Local, Audited, FailClosed
<1> QED BY <1>1, DispatchInvariant, PTL

\* What was sent and what was reported has its row, in the log or in the error
\* log, whenever the process dies.
THEOREM NeverSilent == Spec => []NothingSilent
<1>1. DispatchInv => NothingSilent
    BY DEF DispatchInv, Local, Announced, NothingSilent
<1> QED BY <1>1, DispatchInvariant, PTL

\* No user gets a request's message twice.
THEOREM SentAtMostOnce == Spec => []AtMostOnce
<1>1. DispatchInv => AtMostOnce
    BY DEF DispatchInv, Local, SentOnce, AtMostOnce
<1> QED BY <1>1, DispatchInvariant, PTL

\* "delivered" in a report or in the audit log is true.
THEOREM DeliveredAlwaysTrue == Spec => []DeliveredIsTrue
<1>1. DispatchInv => DeliveredIsTrue
    BY DEF DispatchInv, Local, Truthful, DeliveredIsTrue, Reports, Got
<1> QED BY <1>1, DispatchInvariant, PTL

\* A 200 has one entry for each user the request addressed when the recipients
\* were read, for nobody else, none of them skipped who has the message, and one
\* per listed position that names nobody.
THEOREM ResponseAlwaysComplete == Spec => []ResponseComplete
<1>1. DispatchInv => ResponseComplete
    <2> SUFFICES ASSUME DispatchInv, NEW m \in Reqs, resp[m] = "ok"
                 PROVE  LET users == AtQuery(m).users
                            named == {r \in report[m] : r.code # "unknown_recipient"}
                        IN /\ {r.user : r \in named} = Addressed(input[m], users)
                           /\ \A r, s \in named : r.user = s.user => r = s
                           /\ \A i \in DOMAIN chat[m] :
                                 \E r \in named : r.user = chat[m][i] /\ r.status # "skipped"
                           /\ Cardinality(report[m] \ named)
                                = Cardinality(Nobodies(input[m], users))
        BY DEF ResponseComplete
    <2> DEFINE users == AtQuery(m).users
               named == {r \in report[m] : r.code # "unknown_recipient"}
               res == {Unreport(r) : r \in report[m]}
               S == res \ DecidedOf(res)
               T == report[m] \ named
               g == [x \in S |-> CHOOSE r \in T : Unreport(r) = x]
    <2>1. items[m] = {} /\ Recipients(items[m]) = {} /\ Result(m) = res
        BY DEF DispatchInv, Local, InOrder, Recipients, Result
    <2>2. Answers(input[m], users, res)
        BY <2>1 DEF DispatchInv, Local, Covered
    <2>3. \A r : /\ Unreport(r).idx = r.idx /\ Unreport(r).user = r.user
                 /\ Unreport(r).code = r.code
        BY DEF Unreport
    <2>4. \A r, s \in report[m] : r.idx = s.idx => r = s
        BY DEF DispatchInv, Local, Reported
    <2>5. {r.user : r \in named} = UsersOf(DecidedOf(res))
        BY <2>3 DEF UsersOf, DecidedOf
    <2>6. \A r, s \in named : r.user = s.user => r = s
        <3> SUFFICES ASSUME NEW r \in named, NEW s \in named, r.user = s.user
                     PROVE  r = s
            OBVIOUS
        <3>1. Unreport(r) \in DecidedOf(res) /\ Unreport(s) \in DecidedOf(res)
            BY <2>3 DEF DecidedOf
        <3>2. Unreport(r) = Unreport(s)
            BY <2>2, <2>3, <3>1 DEF Answers
        <3> QED BY <2>3, <2>4, <3>2
    <2>7. \A i \in DOMAIN chat[m] :
             \E r \in named : r.user = chat[m][i] /\ r.status # "skipped"
        <3> SUFFICES ASSUME NEW i \in DOMAIN chat[m]
                     PROVE  \E r \in named : r.user = chat[m][i] /\ r.status # "skipped"
            OBVIOUS
        <3>1. PICK r \in report[m] : r.status # "skipped" /\ r.user = chat[m][i]
            BY <2>1 DEF DispatchInv, Local, Reported
        <3>2. r.code = "ok"
            BY <3>1 DEF DispatchInv, Local, Reported
        <3> QED BY <3>1, <3>2
    <2>8. \A r \in T : Unreport(r) \in S
        BY <2>3 DEF DecidedOf
    <2>9. \A x \in S : \E r \in T : Unreport(r) = x
        BY <2>3 DEF DecidedOf
    <2>10. IsFiniteSet(S) /\ Cardinality(S) = Cardinality(Nobodies(input[m], users))
        BY <2>2 DEF Answers
    <2>11. \A r, s \in T : Unreport(r) = Unreport(s) => r = s
        BY <2>3, <2>4
    <2> HIDE DEF S, T
    <2>12. \A x \in S : g[x] \in T /\ Unreport(g[x]) = x
        BY <2>9
    <2>13. g \in [S -> T]
        BY <2>12
    <2> HIDE DEF g
    <2>14. Cardinality(T) = Cardinality(S)
        BY <2>8, <2>10, <2>11, <2>12, <2>13, OneToOne
    <2> QED BY <2>2, <2>5, <2>6, <2>7, <2>10, <2>14 DEF Answers, T
<1> QED BY <1>1, DispatchInvariant, PTL

\* Whoever is sent a message qualified by the app and the user row of one moment
\* at which the resolver read, unless both rows changed between its statements.
THEOREM AlwaysQualified == Spec => []QualifiedDuringRequest
<1>1. DispatchInv => QualifiedDuringRequest
    BY DEF DispatchInv, Local, Fresh, QualifiedUser, QualifiedDuringRequest
<1> QED BY <1>1, DispatchInvariant, PTL

-----------------------------------------------------------------------------
(* The resolvers against the endpoint table (StrategyCases). *)

CaseInv ==
    /\ registry \in CaseRegistries /\ appGrade \in StoredGrades
    /\ \/ request.strat = "none"
       \/ /\ request.strat = "topic"
          /\ result = ResolveTopic(registry, appGrade, request.min)
       \/ /\ request.strat = "broadcast"
          /\ result = ResolveBroadcast(registry, request.min)
       \/ /\ request.strat = "direct" /\ request.ids \in IdLists
          /\ \E ord \in RowOrders(Len(request.ids)) :
                result = ResolveDirect(registry, request.ids, ord)
       \/ /\ request.strat = "direct_dm" /\ request.ids \in IdLists
          /\ \E ord \in RowOrders(Len(request.ids)) :
                result = ResolveDirectDM(registry, request.ids, ord)

\* The result is what the resolver of the request returned.
LEMMA CaseAlways == CaseSpec => []CaseInv
<1>1. CaseInit => CaseInv
    <2>1. CaseInit => /\ request.strat = "none" /\ registry \in CaseRegistries
                       /\ appGrade \in StoredGrades
        BY DEF CaseInit
    <2> QED BY <2>1 DEF CaseInv
<1>2. CaseInv /\ [CaseNext]_caseVars => CaseInv'
    <2> SUFFICES ASSUME CaseInv, [CaseNext]_caseVars PROVE CaseInv'
        OBVIOUS
    <2>1. CASE Direct
        <3>1. PICK ids \in IdLists :
                  /\ Ask("direct", ids, NoGrade)
                  /\ \E ord \in RowOrders(Len(ids)) : result' = ResolveDirect(registry, ids, ord)
            BY <2>1 DEF Direct
        <3>2. request'.strat = "direct" /\ request'.ids = ids /\ UNCHANGED <<registry, appGrade>>
            BY <3>1 DEF Ask
        <3> QED BY <3>1, <3>2 DEF CaseInv
    <2>2. CASE DirectDM
        <3>1. PICK ids \in IdLists :
                  /\ Ask("direct_dm", ids, NoGrade)
                  /\ \E ord \in RowOrders(Len(ids)) : result' = ResolveDirectDM(registry, ids, ord)
            BY <2>2 DEF DirectDM
        <3>2. request'.strat = "direct_dm" /\ request'.ids = ids /\ UNCHANGED <<registry, appGrade>>
            BY <3>1 DEF Ask
        <3> QED BY <3>1, <3>2 DEF CaseInv
    <2>3. CASE Topic
        BY <2>3 DEF Topic, Ask, CaseInv
    <2>4. CASE Broadcast
        BY <2>4 DEF Broadcast, Ask, CaseInv
    <2>5. CASE UNCHANGED caseVars
        BY <2>5 DEF caseVars, CaseInv
    <2> QED BY <2>1, <2>2, <2>3, <2>4, <2>5 DEF CaseNext
<1> QED BY <1>1, <1>2, PTL DEF CaseSpec

\* Topic: the active subscribers both minima admit who pass the checks.
LEMMA TopicAudience ==
    ASSUME CaseInv, request.strat = "topic"
    PROVE  Reached = {u \in DOMAIN registry :
              /\ Deliverable(u) /\ registry[u].sub /\ registry[u].topic
              /\ registry[u].grade \in Admits(appGrade) \intersect Admits(request.min)}
<1> DEFINE low == maxGrade(appGrade, normalizeGrade(request.min))
           item(u) == [idx |-> u, user |-> u, code |-> TopicCode(registry[u], low)]
           listed == {v \in DOMAIN registry : registry[v].sub /\ registry[v].active}
<1>1. result = {item(u) : u \in listed}
    BY DEF CaseInv, ResolveTopic
<1>2. \A u : item(u).user = u /\ item(u).code = TopicCode(registry[u], low)
    OBVIOUS
<1> HIDE DEF item, low
<1>3. Reached = {u \in listed : TopicCode(registry[u], low) = "ok"}
    BY <1>1, <1>2 DEF Reached, Recipients
<1>4. \A u \in DOMAIN registry : registry[u].grade \in StoredGrades
    BY CaseAssumption DEF CaseInv, UserRow
<1>5. \A u \in DOMAIN registry : gradeRank(registry[u].grade) >= gradeRank(low) <=>
                registry[u].grade \in Admits(appGrade) \intersect Admits(request.min)
    <2> SUFFICES ASSUME NEW u \in DOMAIN registry
                 PROVE  gradeRank(registry[u].grade) >= gradeRank(low) <=>
                           registry[u].grade \in Admits(appGrade) \intersect Admits(request.min)
        OBVIOUS
    <2> DEFINE rank == gradeRank(registry[u].grade)
               asked == normalizeGrade(request.min)
    <2>1. rank >= gradeRank(low) => rank >= gradeRank(appGrade) /\ rank >= gradeRank(asked)
        BY MaxGradeBounds DEF low
    <2>2. low \in {appGrade, asked}
        BY DEF low, maxGrade
    <2>3. /\ rank >= gradeRank(appGrade) <=> registry[u].grade \in Admits(appGrade)
          /\ rank >= gradeRank(asked) <=> registry[u].grade \in Admits(request.min)
        BY <1>4, RankAdmits DEF CaseInv
    <2> QED BY <2>1, <2>2, <2>3
<1> QED BY <1>3, <1>5, TopicCodeIff DEF Deliverable

\* Broadcast: the active users who pass the checks.
LEMMA BroadcastAudience ==
    ASSUME CaseInv, request.strat = "broadcast"
    PROVE  Reached = {u \in DOMAIN registry :
              Deliverable(u) /\ registry[u].grade \in Admits(request.min)}
<1> DEFINE low == normalizeGrade(request.min)
           item(u) == [idx |-> u, user |-> u, code |-> BroadcastCode(registry[u], low)]
           listed == {v \in DOMAIN registry : registry[v].active}
<1>1. result = {item(u) : u \in listed}
    BY DEF CaseInv, ResolveBroadcast
<1>2. \A u : item(u).user = u /\ item(u).code = BroadcastCode(registry[u], low)
    OBVIOUS
<1> HIDE DEF item, low
<1>3. Reached = {u \in listed : BroadcastCode(registry[u], low) = "ok"}
    BY <1>1, <1>2 DEF Reached, Recipients
<1>4. \A u \in DOMAIN registry : registry[u].grade \in StoredGrades
    BY CaseAssumption DEF CaseInv, UserRow
<1>5. \A u \in DOMAIN registry : gradeRank(registry[u].grade) >= gradeRank(low) <=>
                registry[u].grade \in Admits(request.min)
    BY <1>4, RankAdmits DEF low
<1> QED BY <1>3, <1>5, BroadcastCodeIff DEF Deliverable

\* Direct: the listed users who pass the checks.
LEMMA DirectAudience ==
    ASSUME CaseInv, request.strat = "direct"
    PROVE  Reached = {u \in DOMAIN registry \intersect Ids :
              Deliverable(u) /\ registry[u].sub /\ registry[u].topic}
<1>1. PICK ord \in RowOrders(Len(request.ids)) :
          result = ResolveDirect(registry, request.ids, ord)
    BY DEF CaseInv
<1> DEFINE ids == request.ids
           n == Len(ids)
           key == KeyOf(ids, ord)
           F == RowsOf(key, DOMAIN registry, n)
           f == DirectItems(registry, ids, ord)
<1>2. ids \in Seq(Nat) /\ n \in Nat /\ DOMAIN ids = 1..n /\ DOMAIN registry \subseteq Nat
    BY CaseAssumption DEF CaseInv
<1>3. /\ JoinOf(key, ids, ord, n) /\ result = {f[i] : i \in F}
      /\ \A i \in F :
            /\ f[i].idx = i
            /\ f[i].code = "unknown_recipient" <=> key[i] \notin DOMAIN registry
            /\ key[i] \in DOMAIN registry =>
                  f[i].user = key[i] /\ f[i].code = DirectCode(registry[key[i]])
    BY <1>1, <1>2, DirectRows
<1>4. \A i \in F : i \in 1..n
    BY DEF RowsOf
<1>5. \A i \in 1..n : NotSeen(key, i) => i \in F
    BY DEF RowsOf
<1>6. \A i \in 1..n : ord[i] \in 1..n
    BY DEF RowOrders
<1> HIDE DEF key, F, f
<1>7. \A i \in F : key[i] \in Ids
    BY <1>2, <1>3, <1>4, <1>6 DEF JoinOf, Ids
<1>8. ASSUME NEW u \in DOMAIN registry \intersect Ids
      PROVE  \E i \in F : key[i] = u
    <2>1. PICK p \in 1..n : ids[p] = u
        BY <1>2 DEF Ids
    <2>2. PICK k \in 1..n : ord[k] = p
        BY <1>2, OrderOnto
    <2>3. PICK i \in 1..n : key[i] = key[k] /\ NotSeen(key, i)
        BY <1>2, FirstRow
    <2> QED BY <1>3, <1>5, <2>1, <2>2, <2>3 DEF JoinOf
<1>9. Reached = {u \in DOMAIN registry \intersect Ids : DirectCode(registry[u]) = "ok"}
    <2>1. ASSUME NEW u \in Reached
          PROVE  u \in DOMAIN registry \intersect Ids /\ DirectCode(registry[u]) = "ok"
        <3>1. PICK it \in result : it.user = u /\ it.code = "ok"
            BY DEF Reached, Recipients
        <3>2. PICK i \in F : it = f[i]
            BY <1>3, <3>1
        <3>3. key[i] \in DOMAIN registry
            BY <1>3, <3>1, <3>2
        <3> QED BY <1>3, <1>7, <3>1, <3>2, <3>3
    <2>2. ASSUME NEW u \in DOMAIN registry \intersect Ids, DirectCode(registry[u]) = "ok"
          PROVE  u \in Reached
        <3>1. PICK i \in F : key[i] = u
            BY <1>8
        <3>2. f[i] \in result /\ f[i].user = u /\ f[i].code = "ok"
            BY <1>3, <2>2, <3>1
        <3> QED BY <3>2 DEF Reached, Recipients
    <2> QED BY <2>1, <2>2
<1> QED BY <1>9, DirectCodeIff DEF Deliverable

\* Direct message: the listed active users.
LEMMA DMAudience ==
    ASSUME CaseInv, request.strat = "direct_dm"
    PROVE  Reached = {u \in DOMAIN registry : registry[u].active /\ registry[u].tg \in Ids}
<1>1. PICK ord \in RowOrders(Len(request.ids)) :
          result = ResolveDirectDM(registry, request.ids, ord)
    BY DEF CaseInv
<1> DEFINE ids == request.ids
           n == Len(ids)
           key == KeyOf(ids, ord)
           T == TelegramIds(registry)
           F == RowsOf(key, T, n)
           f == DMItems(registry, ids, ord)
<1>2. ids \in Seq(Nat) /\ n \in Nat /\ DOMAIN ids = 1..n /\ DOMAIN registry \subseteq Nat
    BY CaseAssumption DEF CaseInv
<1>3. /\ JoinOf(key, ids, ord, n) /\ result = {f[i] : i \in F}
      /\ \A i \in F :
            /\ f[i].idx = i
            /\ f[i].code = "unknown_recipient" <=> key[i] \notin T
            /\ key[i] \in T =>
                  /\ f[i].user \in DOMAIN registry /\ registry[f[i].user].tg = key[i]
                  /\ f[i].code = DMCode(registry[f[i].user])
    BY <1>1, <1>2, DMRows
<1>4. \A i \in F : i \in 1..n
    BY DEF RowsOf
<1>5. \A i \in 1..n : NotSeen(key, i) => i \in F
    BY DEF RowsOf
<1>6. \A i \in 1..n : ord[i] \in 1..n
    BY DEF RowOrders
<1>7. \A u, v \in DOMAIN registry : registry[u].tg = registry[v].tg => u = v
    BY CaseAssumption DEF CaseInv
<1>8. \A u \in DOMAIN registry : registry[u].tg \in T
    BY DEF TelegramIds
<1> HIDE DEF key, T, F, f
<1>9. \A i \in F : key[i] \in Ids
    BY <1>2, <1>3, <1>4, <1>6 DEF JoinOf, Ids
<1>10. ASSUME NEW t \in Ids PROVE \E i \in F : key[i] = t
    <2>1. PICK p \in 1..n : ids[p] = t
        BY <1>2 DEF Ids
    <2>2. PICK k \in 1..n : ord[k] = p
        BY <1>2, OrderOnto
    <2>3. PICK i \in 1..n : key[i] = key[k] /\ NotSeen(key, i)
        BY <1>2, FirstRow
    <2> QED BY <1>3, <1>5, <2>1, <2>2, <2>3 DEF JoinOf
<1>11. ASSUME NEW u \in Reached
       PROVE  u \in DOMAIN registry /\ registry[u].active /\ registry[u].tg \in Ids
    <2>1. PICK it \in result : it.user = u /\ it.code = "ok"
        BY DEF Reached, Recipients
    <2>2. PICK i \in F : it = f[i]
        BY <1>3, <2>1
    <2>3. key[i] \in T
        BY <1>3, <2>1, <2>2
    <2>4. /\ u \in DOMAIN registry /\ registry[u].tg = key[i]
          /\ DMCode(registry[u]) = "ok"
        BY <1>3, <2>1, <2>2, <2>3
    <2> QED BY <1>9, <2>4 DEF DMCode
<1>12. ASSUME NEW u \in DOMAIN registry, registry[u].active, registry[u].tg \in Ids
       PROVE  u \in Reached
    <2>1. PICK i \in F : key[i] = registry[u].tg
        BY <1>10, <1>12
    <2>2. f[i].user = u /\ f[i].code = DMCode(registry[u])
        BY <1>3, <1>7, <1>8, <2>1
    <2>3. f[i] \in result /\ f[i].code = "ok"
        BY <1>3, <1>12, <2>2 DEF DMCode
    <2> QED BY <2>2, <2>3 DEF Reached, Recipients
<1> QED BY <1>11, <1>12

\* For every registry, list of recipients, minimum grade and join order, each
\* resolver reaches exactly the users named without its ranks and joins: of topic
\* and broadcast when no recipients are listed, of direct by users.id.
THEOREM AudienceAlwaysExact == CaseSpec => []AudienceExact
<1>1. CaseInv => AudienceExact
    BY TopicAudience, BroadcastAudience, DirectAudience, DMAudience DEF AudienceExact
<1> QED BY CaseAlways, <1>1, PTL

-----------------------------------------------------------------------------
(* How many verdicts the two resolvers that take a list return. *)

\* What OneVerdictEach counts when the keys in Known name users.
CountsOf(Known) ==
    /\ Cardinality(DecidedOf(result)) =
          Cardinality(ListedOf(request.ids, Known, Len(request.ids)))
    /\ Cardinality(UsersOf(DecidedOf(result))) = Cardinality(DecidedOf(result))
    /\ Cardinality(result \ DecidedOf(result)) =
          Len(request.ids) - Cardinality(KnownAt(request.ids, Known, Len(request.ids)))

\* Direct: one verdict per listed users.id.
LEMMA DirectCounts ==
    ASSUME CaseInv, request.strat = "direct"
    PROVE  CountsOf(DOMAIN registry)
<1>1. PICK ord \in RowOrders(Len(request.ids)) :
          result = ResolveDirect(registry, request.ids, ord)
    BY DEF CaseInv
<1> DEFINE ids == request.ids
           n == Len(ids)
           key == KeyOf(ids, ord)
           D == DOMAIN registry
           F == RowsOf(key, D, n)
           f == DirectItems(registry, ids, ord)
<1>2. ids \in Seq(Nat) /\ n \in Nat /\ DOMAIN registry \subseteq Nat
    BY CaseAssumption DEF CaseInv
<1>3. /\ JoinOf(key, ids, ord, n) /\ result = {f[i] : i \in F}
      /\ \A i \in F :
            /\ f[i].idx = i
            /\ f[i].code = "unknown_recipient" <=> key[i] \notin D
            /\ key[i] \in D =>
                  f[i].user = key[i] /\ f[i].code = DirectCode(registry[key[i]])
    BY <1>1, <1>2, DirectRows
<1>4. F = RowsOf(key, D, n)
    OBVIOUS
<1> HIDE DEF key, D, F, f, n, ids
<1>5. ord \in RowOrders(n)
    BY DEF n, ids
<1>6. \A i, j \in F : (/\ key[i] \in D /\ key[j] \in D
                       /\ f[i].user = f[j].user) => key[i] = key[j]
    BY <1>3
<1>7. LoopOf(f, F, key, ids, ord, D, n)
    BY <1>2, <1>3, <1>4, <1>5, <1>6 DEF LoopOf
<1>8. result = ItemsOf(f, F)
    BY <1>3 DEF ItemsOf
<1>9. CountedOf(result, ids, D, n)
    BY <1>7, <1>8, VerdictCounts
<1> QED BY <1>9 DEF CountedOf, CountsOf, ids, n, D

\* Direct message: one verdict per listed users.telegram_id.
LEMMA DMCounts ==
    ASSUME CaseInv, request.strat = "direct_dm"
    PROVE  CountsOf(TelegramIds(registry))
<1>1. PICK ord \in RowOrders(Len(request.ids)) :
          result = ResolveDirectDM(registry, request.ids, ord)
    BY DEF CaseInv
<1> DEFINE ids == request.ids
           n == Len(ids)
           key == KeyOf(ids, ord)
           T == TelegramIds(registry)
           F == RowsOf(key, T, n)
           f == DMItems(registry, ids, ord)
<1>2. ids \in Seq(Nat) /\ n \in Nat /\ DOMAIN registry \subseteq Nat
    BY CaseAssumption DEF CaseInv
<1>3. /\ JoinOf(key, ids, ord, n) /\ result = {f[i] : i \in F}
      /\ \A i \in F :
            /\ f[i].idx = i
            /\ f[i].code = "unknown_recipient" <=> key[i] \notin T
            /\ key[i] \in T =>
                  /\ f[i].user \in DOMAIN registry /\ registry[f[i].user].tg = key[i]
                  /\ f[i].code = DMCode(registry[f[i].user])
    BY <1>1, <1>2, DMRows
<1>4. F = RowsOf(key, T, n)
    OBVIOUS
<1> HIDE DEF key, T, F, f, n, ids
<1>5. ord \in RowOrders(n)
    BY DEF n, ids
<1>6. \A i, j \in F : (/\ key[i] \in T /\ key[j] \in T
                       /\ f[i].user = f[j].user) => key[i] = key[j]
    BY <1>3
<1>7. LoopOf(f, F, key, ids, ord, T, n)
    BY <1>2, <1>3, <1>4, <1>5, <1>6 DEF LoopOf
<1>8. result = ItemsOf(f, F)
    BY <1>3 DEF ItemsOf
<1>9. CountedOf(result, ids, T, n)
    BY <1>7, <1>8, VerdictCounts
<1> QED BY <1>9 DEF CountedOf, CountsOf, ids, n, T

\* For every registry, list of recipients and join order, every listed user
\* gets one verdict and every position of an unknown id one (the "seen" maps
\* of the direct resolvers).
THEOREM AlwaysOneVerdictEach == CaseSpec => []OneVerdictEach
<1>1. ASSUME CaseInv PROVE OneVerdictEach
    <2> DEFINE ids == request.ids
               known == {i \in DOMAIN ids :
                           IF request.strat = "direct" THEN ids[i] \in DOMAIN registry
                           ELSE \E u \in DOMAIN registry : registry[u].tg = ids[i]}
               Known == IF request.strat = "direct" THEN DOMAIN registry
                        ELSE TelegramIds(registry)
    <2> SUFFICES ASSUME request.strat \in {"direct", "direct_dm"}
                 PROVE  /\ Cardinality(DecidedOf(result)) = Cardinality({ids[i] : i \in known})
                        /\ Cardinality(UsersOf(DecidedOf(result))) = Cardinality(DecidedOf(result))
                        /\ Cardinality(result \ DecidedOf(result)) = Len(ids) - Cardinality(known)
        BY DEF OneVerdictEach, DecidedOf, UsersOf
    <2>1. CountsOf(Known)
        <3>1. CASE request.strat = "direct"
            BY <1>1, <3>1, DirectCounts
        <3>2. CASE request.strat = "direct_dm"
            BY <1>1, <3>2, DMCounts
        <3> QED BY <3>1, <3>2
    <2>2. DOMAIN ids = 1..Len(ids)
        BY CaseAssumption DEF CaseInv
    <2>3. known = KnownAt(ids, Known, Len(ids))
        BY <2>2 DEF KnownAt, TelegramIds
    <2>4. {ids[i] : i \in known} = ListedOf(ids, Known, Len(ids))
        BY <2>3 DEF ListedOf
    <2> QED BY <2>1, <2>3, <2>4 DEF CountsOf
<1> QED BY CaseAlways, <1>1, PTL
=============================================================================
