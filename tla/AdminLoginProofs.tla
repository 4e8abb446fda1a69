-------------------------- MODULE AdminLoginProofs --------------------------
(***************************************************************************)
(* For any handlers, addresses, limits and bounds: no address gets more    *)
(* attempts than the limit and the rate allow, the guesses past the global *)
(* back-off are bounded per delay, and a session that was logged out stays *)
(* logged out for the lifetime of its cookie.                              *)
(***************************************************************************)
EXTENDS AdminLogin, FiniteSetTheorems, TLAPS

\* The types, and: buckets were filled in the past.
LoginTypes ==
    /\ TypeOK /\ IsFiniteSet(cookies)
    /\ \A ip \in IPs : buckets[ip].fill <= clock

\* What an address has spent and could spend now is what the limiter has given.
RateAccount ==
    \A ip \in IPs : allowed[ip] * Unit + Tokens(ip) <= Limit + Rate * (clock - started)

Comparing == {h \in Handlers : pc[h] = "compare"}

\* Rounds of the back-off between the start of the block and time t.
Rounds(t) == 1 + (t - since) \div Delay

\* Past the threshold, while the block lasts, those who are still comparing are
\* counted with those who have failed; no round has room for more.
GuessAccount ==
    backoff.failures >= Threshold =>
        /\ since \in Nat /\ since <= backoff.last /\ backoff.last <= clock
        /\ backoff.until = backoff.last + Delay
        /\ backoff.failures < Threshold + Cardinality(Handlers) * Rounds(backoff.last)
        /\ clock < backoff.until =>
              backoff.failures + Cardinality(Comparing)
                  < Threshold + Cardinality(Handlers) * Rounds(backoff.last)

\* Nonces are unique and were drawn in the past; only cookies are logged out.
CookiesNumbered ==
    /\ \A c \in cookies : c.nonce <= Cardinality(cookies) /\ c.secret <= secret /\ c.at <= clock
    /\ \A c, d \in cookies : c.nonce = d.nonce => c = d
    /\ out \subseteq 1..Cardinality(cookies)

\* A cookie of this process that was logged out is in revoked while it lives.
RevokedKept ==
    \A c \in cookies : c.nonce \in out /\ c.secret = secret =>
        \/ clock > c.at + TTL
        \/ \E r \in revoked : r.nonce = c.nonce /\ r.sweep >= c.at + TTL

\* A request behind the signature check has a cookie of this process.
SessionsKnown ==
    \A h \in Handlers : pc[h] \in {"verify", "handler"} =>
        /\ \E c \in cookies : c.nonce = job[h].nonce /\ c.secret = secret
        /\ job[h].dead => job[h].nonce \in out

CookiesRevoked == CookiesNumbered /\ RevokedKept /\ SessionsKnown

LoginInv == LoginTypes /\ RateAccount /\ GuessAccount /\ CookiesRevoked

-----------------------------------------------------------------------------
(* Types. *)

\* What a bucket holds never exceeds the limit and is never negative.
LEMMA TokensType ==
    ASSUME LoginTypes, NEW ip \in IPs
    PROVE  Tokens(ip) \in 0..Limit
<1>1. /\ buckets[ip].tokens \in 0..Limit /\ buckets[ip].fill \in Nat /\ buckets[ip].fill <= clock
      /\ clock \in Nat /\ Limit \in Nat /\ Rate \in Nat
    BY LoginAssumption DEF LoginTypes, TypeOK
<1>2. (clock - buckets[ip].fill) * Rate \in Nat
    BY <1>1
<1> QED BY <1>1, <1>2 DEF Tokens, Capped, Least

\* The map after Allow is a map of buckets, filled now or before.
LEMMA ChargedType ==
    ASSUME LoginTypes, NEW ip \in IPs, NEW t \in 0..Limit, t <= Tokens(ip)
    PROVE  /\ Charged(ip, t) \in [IPs -> [known : BOOLEAN, tokens : 0..Limit, fill : Nat]]
           /\ \A k \in IPs : Charged(ip, t)[k].fill <= clock
<1>1. /\ Tokens(ip) \in 0..Limit /\ clock \in Nat /\ Limit \in Nat
      /\ buckets \in [IPs -> [known : BOOLEAN, tokens : 0..Limit, fill : Nat]]
      /\ \A k \in IPs : buckets[k].fill <= clock
    BY TokensType, LoginAssumption DEF LoginTypes, TypeOK
<1>2. PICK b : b = [known |-> TRUE, tokens |-> Tokens(ip) - t, fill |-> clock]
    OBVIOUS
<1>3. b \in [known : BOOLEAN, tokens : 0..Limit, fill : Nat] /\ b.fill <= clock
    BY <1>1, <1>2
<1>4. /\ NoBucket \in [known : BOOLEAN, tokens : 0..Limit, fill : Nat]
      /\ NoBucket.fill <= clock
    BY <1>1 DEF NoBucket
<1>5. \A k \in IPs : Charged(ip, t)[k] \in {b, NoBucket, buckets[k]}
    BY <1>2 DEF Charged
<1>6. Charged(ip, t) = [k \in IPs |-> Charged(ip, t)[k]]
    BY DEF Charged
<1> QED BY <1>1, <1>3, <1>4, <1>5, <1>6

\* A submitted form keeps the types.
LEMMA SubmitTypes ==
    ASSUME LoginTypes, NEW h \in Handlers, NEW ip \in IPs, NEW g, handleLoginSubmit(h, ip, g)
    PROVE  LoginTypes'
<1>1. UNCHANGED <<clock, secret, cookies, revoked, out, backoff, since, job, started>>
    BY DEF handleLoginSubmit, sessionVars, backoffVars
<1>2. Tokens(ip) \in 0..Limit /\ Limit \in Nat /\ Unit \in Nat
    BY TokensType, LoginAssumption
<1>3. PICK t \in 0..Limit : t <= Tokens(ip) /\ buckets' = Charged(ip, t)
    BY <1>2 DEF handleLoginSubmit
<1>4. /\ buckets' \in [IPs -> [known : BOOLEAN, tokens : 0..Limit, fill : Nat]]
      /\ \A k \in IPs : buckets'[k].fill <= clock
    BY <1>3, ChargedType
<1>5. allowed' \in [IPs -> Nat]
    BY DEF handleLoginSubmit, LoginTypes, TypeOK
<1>6. pc' \in [Handlers -> {"idle", "backoff", "compare", "issue", "verify", "handler"}]
    BY DEF handleLoginSubmit, Goto, LoginTypes, TypeOK
<1> QED BY <1>1, <1>4, <1>5, <1>6 DEF LoginTypes, TypeOK

\* So do the steps of the back-off.
LEMMA BackoffTypes ==
    ASSUME LoginTypes, NEW h \in Handlers, Allow(h) \/ RecordFailure(h) \/ RecordSuccess(h)
    PROVE  LoginTypes'
<1>1. UNCHANGED <<clock, secret, cookies, revoked, out, buckets, allowed, job, started>>
    BY DEF Allow, RecordFailure, RecordSuccess, sessionVars, limitVars
<1>2. pc' \in [Handlers -> {"idle", "backoff", "compare", "issue", "verify", "handler"}]
    BY DEF Allow, RecordFailure, RecordSuccess, Goto, LoginTypes, TypeOK
<1>3. /\ clock \in Nat /\ backoff \in [failures : Nat, last : Nat \union {Never}, until : Nat]
      /\ Delay \in Nat /\ since \in Nat \union {Never}
    BY LoginAssumption DEF LoginTypes, TypeOK
<1>4. Streak \in Nat /\ \A n \in Nat : BlockedUntil(n) \in Nat
    BY <1>3 DEF Streak, BlockedUntil
<1>5. CASE Allow(h)
    BY <1>3, <1>5 , <1>1, <1>2 DEF Allow, backoffVars, LoginTypes, TypeOK
<1>6. CASE RecordFailure(h)
    <2>1. backoff' \in [failures : Nat, last : Nat \union {Never}, until : Nat]
        BY <1>3, <1>4, <1>6 DEF RecordFailure
    <2>2. since' \in Nat \union {Never}
        BY <1>3, <1>6 DEF RecordFailure
    <2> QED BY <1>1, <1>2, <2>1, <2>2 DEF LoginTypes, TypeOK
<1>7. CASE RecordSuccess(h)
    <2>1. backoff' \in [failures : Nat, last : Nat \union {Never}, until : Nat]
        BY <1>3, <1>7 DEF RecordSuccess
    <2>2. since' = since
        BY <1>7 DEF RecordSuccess
    <2> QED BY <1>1, <1>2, <2>1, <2>2 DEF LoginTypes, TypeOK
<1> QED BY <1>5, <1>6, <1>7

\* So does issuing a cookie.
LEMMA IssueTypes ==
    ASSUME LoginTypes, NEW h \in Handlers, Issue(h)
    PROVE  LoginTypes'
<1>1. UNCHANGED <<clock, secret, revoked, out, buckets, allowed, backoff, since, job, started>>
    BY DEF Issue, limitVars, backoffVars
<1>2. pc' \in [Handlers -> {"idle", "backoff", "compare", "issue", "verify", "handler"}]
    BY DEF Issue, Goto, LoginTypes, TypeOK
<1>3. IsFiniteSet(cookies') /\ cookies' \subseteq Cookie
    <2>1. Cardinality(cookies) \in Nat /\ secret \in Nat /\ clock \in Nat
        BY FS_CardinalityType, LoginAssumption DEF LoginTypes, TypeOK
    <2>2. PICK c : c = [nonce |-> Cardinality(cookies) + 1, secret |-> secret,
                        expiry |-> Unix(clock + TTL), at |-> clock]
        OBVIOUS
    <2>3. Unix(clock + TTL) \in Nat
        BY <2>1, LoginAssumption DEF Unix
    <2>4. c \in Cookie
        BY <2>1, <2>2, <2>3 DEF Cookie
    <2>5. cookies' = cookies \/ cookies' = cookies \union {c}
        BY <2>2 DEF Issue
    <2>6. IsFiniteSet(cookies \union {c})
        BY FS_AddElement DEF LoginTypes
    <2> QED BY <2>4, <2>5, <2>6 DEF LoginTypes, TypeOK
<1> QED BY <1>1, <1>2, <1>3 DEF LoginTypes, TypeOK

\* So do the steps of a session.
LEMMA SessionTypes ==
    ASSUME LoginTypes, NEW h \in Handlers, SessionStep(h)
    PROVE  LoginTypes'
<1>1. UNCHANGED <<clock, secret, cookies, buckets, allowed, backoff, since, started>>
    BY DEF SessionStep, verify, isRevoked, handleLogout, Page, sessionVars, limitVars, backoffVars
<1>2. pc' \in [Handlers -> {"idle", "backoff", "compare", "issue", "verify", "handler"}]
    BY DEF SessionStep, verify, isRevoked, handleLogout, Page, Goto, LoginTypes, TypeOK
<1>3. NoJob \in [nonce : Nat, dead : BOOLEAN]
    BY DEF NoJob
<1>4. \A c \in cookies : [nonce |-> c.nonce, dead |-> c.nonce \in out] \in [nonce : Nat, dead : BOOLEAN]
    BY DEF LoginTypes, TypeOK, Cookie
<1>5. job' \in [Handlers -> [nonce : Nat, dead : BOOLEAN]]
    <2>1. job \in [Handlers -> [nonce : Nat, dead : BOOLEAN]]
        BY DEF LoginTypes, TypeOK
    <2>2. \/ job' = job \/ job' = [job EXCEPT ![h] = NoJob]
          \/ \E c \in cookies : job' = [job EXCEPT ![h] = [nonce |-> c.nonce, dead |-> c.nonce \in out]]
        BY DEF SessionStep, verify, isRevoked, handleLogout, Page
    <2> QED BY <1>3, <1>4, <2>1, <2>2
<1>6. out' \subseteq Nat /\ revoked' \subseteq [nonce : Nat \ {0}, sweep : Nat]
    <2>1. CASE UNCHANGED <<out, revoked>>
        BY <2>1 DEF LoginTypes, TypeOK
    <2>2. ASSUME NEW c \in cookies, handleLogout(h, <<c.secret, c.nonce>>)
          PROVE  out' \subseteq Nat /\ revoked' \subseteq [nonce : Nat \ {0}, sweep : Nat]
        <3>1. c.nonce = job[h].nonce /\ c.nonce \in Nat \ {0} /\ clock \in Nat
            BY <2>2 DEF handleLogout, CSRFToken, LoginTypes, TypeOK, Cookie
        <3>2. PICK r : r = [nonce |-> job[h].nonce, sweep |-> SweepAfter]
            OBVIOUS
        <3>3. r \in [nonce : Nat \ {0}, sweep : Nat]
            BY <3>1, <3>2, LoginAssumption DEF SweepAfter
        <3>4. revoked' \subseteq revoked \union {r}
            BY <2>2, <3>2 DEF handleLogout, Revoke
        <3> QED BY <2>2, <3>1, <3>3, <3>4 DEF handleLogout, LoginTypes, TypeOK
    <2>3. (\E c \in cookies : verify(h, c)) \/ isRevoked(h) \/ Page(h) => UNCHANGED <<out, revoked>>
        BY DEF verify, isRevoked, Page, sessionVars
    <2> QED BY <2>1, <2>2, <2>3 DEF SessionStep
<1> QED BY <1>1, <1>2, <1>5, <1>6 DEF LoginTypes, TypeOK

\* So do a restart and a tick.
LEMMA RestartTypes ==
    ASSUME LoginTypes, Restart \/ Tick
    PROVE  LoginTypes'
<1>1. CASE Tick
    <2>1. /\ clock' \in 0..MaxTime /\ started \in 0..clock'
          /\ \A ip \in IPs : buckets[ip].fill <= clock'
        BY <1>1, LoginAssumption DEF Tick, LoginTypes, TypeOK
    <2>2. UNCHANGED <<secret, cookies, revoked, out, buckets, allowed, backoff, since, pc, job, started>>
        BY <1>1 DEF Tick, sessionVars, limitVars, backoffVars
    <2> QED BY <2>1, <2>2 DEF LoginTypes, TypeOK
<1>2. CASE Restart
    <2>1. /\ NoBucket \in [known : BOOLEAN, tokens : 0..Limit, fill : Nat] /\ NoBucket.fill = 0
          /\ NoBackoff \in [failures : Nat, last : Nat \union {Never}, until : Nat]
          /\ NoJob \in [nonce : Nat, dead : BOOLEAN]
        BY LoginAssumption DEF NoBucket, NoBackoff, NoJob
    <2>2. secret' \in 0..MaxRestarts /\ started' \in 0..clock /\ clock \in Nat
        BY <1>2, LoginAssumption DEF Restart, LoginTypes, TypeOK
    <2>3. \A ip \in IPs : buckets'[ip].fill <= clock
        BY <1>2, <2>1, <2>2 DEF Restart
    <2> QED BY <1>2, <2>1, <2>2, <2>3 DEF Restart, LoginTypes, TypeOK
<1> QED BY <1>1, <1>2

\* Every step keeps the types.
LEMMA TypesNext ==
    ASSUME LoginTypes, [Next]_vars
    PROVE  LoginTypes'
<1>1. CASE UNCHANGED vars
    BY <1>1 DEF vars, sessionVars, limitVars, backoffVars, LoginTypes, TypeOK
<1>2. CASE Next
    BY <1>2, SubmitTypes, BackoffTypes, IssueTypes, SessionTypes, RestartTypes DEF Next, LoginStep
<1> QED BY <1>1, <1>2

\* A process that has just started has them.
LEMMA TypesInit ==
    ASSUME Init
    PROVE  LoginTypes
<1>1. /\ NoBucket \in [known : BOOLEAN, tokens : 0..Limit, fill : Nat] /\ NoBucket.fill = 0
      /\ NoBackoff \in [failures : Nat, last : Nat \union {Never}, until : Nat]
      /\ NoJob \in [nonce : Nat, dead : BOOLEAN]
    BY LoginAssumption DEF NoBucket, NoBackoff, NoJob
<1>2. IsFiniteSet(cookies)
    BY FS_EmptySet DEF Init
<1>3. clock \in 0..MaxTime /\ started \in 0..clock
    BY LoginAssumption DEF Init
<1>4. \A ip \in IPs : buckets[ip].fill <= clock
    BY <1>1, <1>3 DEF Init
<1> QED BY <1>1, <1>2, <1>3, <1>4, LoginAssumption DEF Init, LoginTypes, TypeOK

-----------------------------------------------------------------------------
(* The limiter. *)

\* What an address may spend after Allow for ip took t credits: a bucket that is
\* dropped was full, so nobody gains by the sweep.
LEMMA ChargedTokens ==
    ASSUME LoginTypes, NEW ip \in IPs, NEW t \in 0..Limit, t <= Tokens(ip),
           buckets' = Charged(ip, t), clock' = clock
    PROVE  \A k \in IPs : Tokens(k)' = IF k = ip THEN Tokens(ip) - t ELSE Tokens(k)
<1>1. Tokens(ip) \in 0..Limit /\ clock \in Nat /\ Limit \in Nat /\ Rate \in Nat
    BY TokensType, LoginAssumption DEF LoginTypes, TypeOK
<1>2. Tokens(ip)' = Tokens(ip) - t
    <2>1. PICK n : n = Tokens(ip)
        OBVIOUS
    <2>2. buckets'[ip] = [known |-> TRUE, tokens |-> n - t, fill |-> clock]
        BY <2>1 DEF Charged
    <2>3. buckets'[ip].known = TRUE /\ buckets'[ip].tokens = n - t /\ buckets'[ip].fill = clock
        BY <2>2
    <2>4. (clock - clock) * Rate = 0
        BY <1>1
    <2>5. n \in 0..Limit /\ n - t + (clock - clock) * Rate = n - t
        BY <1>1, <2>1, <2>4
    <2>6. Tokens(ip)' = Capped(n - t + (clock - clock) * Rate)
        BY <2>3 DEF Tokens, Capped
    <2> QED BY <1>1, <2>1, <2>5, <2>6 DEF Capped, Least
<1>3. ASSUME NEW k \in IPs, k # ip PROVE Tokens(k)' = Tokens(k)
    <2>1. buckets[k].tokens \in Nat /\ buckets[k].fill \in Nat /\ buckets[k].fill <= clock
        BY DEF LoginTypes, TypeOK
    <2>2. CASE buckets[k].known /\ Swept(k)
        <3>1. buckets'[k].known = FALSE
            BY <1>3, <2>2 DEF Charged, NoBucket
        <3>2. Tokens(k)' = Limit
            BY <3>1 DEF Tokens
        <3>3. (clock - buckets[k].fill) * Rate \in Nat
            BY <1>1, <2>1
        <3>4. Tokens(k) = Limit
            BY <1>1, <2>1, <2>2, <3>3 DEF Tokens, Swept, Capped, Least
        <3> QED BY <3>2, <3>4
    <2>3. CASE ~(buckets[k].known /\ Swept(k))
        <3>1. buckets'[k] = buckets[k]
            BY <1>3, <2>3 DEF Charged
        <3> QED BY <3>1 DEF Tokens, Capped
    <2> QED BY <2>2, <2>3
<1> QED BY <1>2, <1>3

\* A tick refills by the rate at most.
LEMMA TickTokens ==
    ASSUME LoginTypes, NEW ip \in IPs, clock' = clock + 1, buckets' = buckets
    PROVE  Tokens(ip)' <= Tokens(ip) + Rate /\ Tokens(ip)' \in Nat
<1>1. /\ buckets[ip].tokens \in Nat /\ buckets[ip].fill \in Nat /\ buckets[ip].fill <= clock
      /\ clock \in Nat /\ Limit \in Nat /\ Rate \in Nat
    BY LoginAssumption DEF LoginTypes, TypeOK
<1>2. PICK w, x : w = clock - buckets[ip].fill /\ x = buckets[ip].tokens + w * Rate
    OBVIOUS
<1>3. w \in Nat /\ x \in Nat /\ buckets[ip].tokens + (w + 1) * Rate = x + Rate
    BY <1>1, <1>2
<1>4. Tokens(ip) = IF buckets[ip].known THEN Capped(x) ELSE Limit
    BY <1>2 DEF Tokens
<1>5. buckets'[ip] = buckets[ip] /\ clock' - buckets[ip].fill = w + 1
    <2>1. PICK f : f = buckets[ip].fill
        OBVIOUS
    <2>2. clock' = clock + 1 /\ w = clock - f /\ f \in Nat /\ clock \in Nat
        BY <1>1, <1>2, <2>1
    <2>3. clock' - f = w + 1
        BY <2>2
    <2> QED BY <2>1, <2>3
<1>6. Tokens(ip)' = IF buckets[ip].known THEN Capped(buckets[ip].tokens + (w + 1) * Rate) ELSE Limit
    BY <1>5 DEF Tokens, Capped
<1> QED BY <1>1, <1>3, <1>4, <1>6 DEF Capped, Least

\* Every step keeps the buckets' account.
LEMMA RateNext ==
    ASSUME LoginTypes, RateAccount, [Next]_vars
    PROVE  RateAccount'
<1>1. /\ \A ip \in IPs : allowed[ip] \in Nat /\ Tokens(ip) \in Nat
      /\ clock \in Nat /\ started \in Nat /\ started <= clock
      /\ Limit \in Nat /\ Rate \in Nat /\ Unit \in Nat
    BY TokensType, LoginAssumption DEF LoginTypes, TypeOK
<1>2. CASE UNCHANGED <<clock, buckets, allowed, started>>
    BY <1>2 DEF RateAccount, Tokens, Capped
<1>3. ASSUME NEW h \in Handlers, NEW ip \in IPs, NEW g, handleLoginSubmit(h, ip, g)
      PROVE  RateAccount'
    <2>1. UNCHANGED <<clock, started>>
        BY <1>3 DEF handleLoginSubmit
    <2>2. CASE Tokens(ip) < Unit
        <3>1. buckets' = Charged(ip, 0) /\ allowed' = allowed
            BY <1>3, <2>2 DEF handleLoginSubmit
        <3>2. \A k \in IPs : Tokens(k)' = Tokens(k)
            BY <1>1, <2>1, <3>1, ChargedTokens
        <3> QED BY <2>1, <3>1, <3>2 DEF RateAccount
    <2>3. CASE ~(Tokens(ip) < Unit)
        <3>1. buckets' = Charged(ip, Unit) /\ allowed' = [allowed EXCEPT ![ip] = @ + 1]
            BY <1>3, <2>3 DEF handleLoginSubmit
        <3>2. Unit \in 0..Limit /\ Unit <= Tokens(ip)
            BY <1>1, <2>3, TokensType
        <3>3. \A k \in IPs : Tokens(k)' = IF k = ip THEN Tokens(ip) - Unit ELSE Tokens(k)
            BY <2>1, <3>1, <3>2, ChargedTokens
        <3>4. allowed'[ip] = allowed[ip] + 1 /\ \A k \in IPs \ {ip} : allowed'[k] = allowed[k]
            BY <3>1 DEF LoginTypes, TypeOK
        <3>5. (allowed[ip] + 1) * Unit = allowed[ip] * Unit + Unit /\ allowed[ip] * Unit \in Nat
            BY <1>1
        <3>6. \A k \in IPs : allowed'[k] * Unit + Tokens(k)' = allowed[k] * Unit + Tokens(k)
            BY <1>1, <3>3, <3>4, <3>5
        <3> QED BY <2>1, <3>6 DEF RateAccount
    <2> QED BY <2>2, <2>3
<1>4. CASE Tick
    <2>1. clock' = clock + 1 /\ UNCHANGED <<buckets, allowed, started>>
        BY <1>4 DEF Tick, limitVars
    <2> SUFFICES ASSUME NEW ip \in IPs
                 PROVE  allowed'[ip] * Unit + Tokens(ip)' <= Limit + Rate * (clock' - started')
        BY DEF RateAccount
    <2>2. Tokens(ip)' <= Tokens(ip) + Rate /\ Tokens(ip)' \in Nat
        BY <2>1, TickTokens
    <2>3. PICK spent, given : spent = allowed[ip] * Unit /\ given = Rate * (clock - started)
        OBVIOUS
    <2>4. spent \in Nat /\ given \in Nat /\ Rate * (clock + 1 - started) = given + Rate
        BY <1>1, <2>3
    <2>5. spent + Tokens(ip) <= Limit + given
        BY <2>3 DEF RateAccount
    <2> QED BY <1>1, <2>1, <2>2, <2>3, <2>4, <2>5
<1>5. CASE Restart
    <2>1. \A ip \in IPs : buckets'[ip] = NoBucket /\ allowed'[ip] = 0
        BY <1>5 DEF Restart
    <2>2. clock' = clock /\ started' = clock
        BY <1>5 DEF Restart
    <2>3. \A ip \in IPs : Tokens(ip)' = Limit
        BY <2>1 DEF Tokens, NoBucket
    <2> QED BY <1>1, <2>1, <2>2, <2>3 DEF RateAccount
<1>6. ASSUME NEW h \in Handlers, Allow(h) \/ RecordFailure(h) \/ RecordSuccess(h) \/ Issue(h)
      PROVE  UNCHANGED <<clock, buckets, allowed, started>>
    BY <1>6 DEF Allow, RecordFailure, RecordSuccess, Issue, limitVars
<1>7. ASSUME NEW h \in Handlers, SessionStep(h)
      PROVE  UNCHANGED <<clock, buckets, allowed, started>>
    BY <1>7 DEF SessionStep, verify, isRevoked, handleLogout, Page, limitVars
<1>8. UNCHANGED vars => UNCHANGED <<clock, buckets, allowed, started>>
    BY DEF vars, limitVars
<1> QED BY <1>2, <1>3, <1>4, <1>5, <1>6, <1>7, <1>8 DEF Next, LoginStep

\* Full buckets have given nothing away.
LEMMA RateInit ==
    ASSUME Init
    PROVE  RateAccount
<1>1. /\ LoginTypes /\ clock = started /\ clock \in Nat /\ Limit \in Nat /\ Rate \in Nat /\ Unit \in Nat
      /\ \A ip \in IPs : allowed[ip] = 0 /\ Tokens(ip) = Limit
    BY TypesInit, LoginAssumption DEF Init, Tokens, NoBucket, LoginTypes, TypeOK
<1> QED BY <1>1 DEF RateAccount

-----------------------------------------------------------------------------
(* The global back-off. *)

\* Rounds grow with time, by one at least in every delay.
LEMMA RoundsGrow ==
    ASSUME since \in Nat, NEW s \in Nat, NEW t \in Nat, since <= s, s <= t
    PROVE  /\ Rounds(s) \in Nat /\ Rounds(t) \in Nat /\ Rounds(s) <= Rounds(t)
           /\ s + Delay <= t => Rounds(s) + 1 <= Rounds(t)
<1>1. Delay \in Nat \ {0}
    BY LoginAssumption
<1>2. PICK a, b : a = s - since /\ b = t - since
    OBVIOUS
<1>3. a \in Nat /\ b \in Nat /\ a <= b
    BY <1>2
<1>4. \A x, y \in Nat : x <= y => x \div Delay \in Nat /\ y \div Delay \in Nat /\ x \div Delay <= y \div Delay
    BY <1>1
<1>5. \A x \in Nat : (x + Delay) \div Delay = x \div Delay + 1
    BY <1>1
<1>6. ASSUME s + Delay <= t PROVE a \div Delay + 1 <= b \div Delay
    <2>1. a + Delay \in Nat /\ a + Delay <= b
        BY <1>1, <1>2, <1>6
    <2> QED BY <1>3, <1>4, <1>5, <2>1
<1>7. Rounds(s) = 1 + a \div Delay /\ Rounds(t) = 1 + b \div Delay
    BY <1>2 DEF Rounds
<1> QED BY <1>3, <1>4, <1>6, <1>7

\* The comparing handlers are some of the handlers; one that leaves makes room.
LEMMA ComparingCount ==
    ASSUME LoginTypes
    PROVE  /\ Cardinality(Handlers) \in Nat /\ Cardinality(Comparing) \in Nat
           /\ \A h \in Comparing : Cardinality(Comparing \ {h}) = Cardinality(Comparing) - 1
           /\ Cardinality(Comparing) <= Cardinality(Handlers)
<1>1. IsFiniteSet(Handlers) /\ Comparing \subseteq Handlers
    BY LoginAssumption DEF Comparing
<1>2. IsFiniteSet(Comparing) /\ Cardinality(Comparing) <= Cardinality(Handlers)
    BY <1>1, FS_Subset
<1> QED BY <1>1, <1>2, FS_CardinalityType, FS_RemoveElement

\* A recorded failure keeps the account of the back-off.
LEMMA FailureGuesses ==
    ASSUME LoginTypes, GuessAccount, NEW h \in Handlers, RecordFailure(h)
    PROVE  GuessAccount'
<1>1. PICK n, k : n = Cardinality(Handlers) /\ k = Cardinality(Comparing)
    OBVIOUS
<1>2. h \in Comparing /\ Comparing' = Comparing \ {h}
    BY DEF RecordFailure, Goto, Comparing, LoginTypes, TypeOK
<1>3. n \in Nat /\ k \in Nat \ {0} /\ k <= n /\ Cardinality(Comparing)' = k - 1
    <2>1. Cardinality(Comparing \ {h}) \in Nat
        BY LoginAssumption, FS_Subset, FS_CardinalityType DEF Comparing
    <2> QED BY <1>1, <1>2, <2>1, ComparingCount
<1>4. PICK f, l, u : f = backoff.failures /\ l = backoff.last /\ u = backoff.until
    OBVIOUS
<1>5. /\ f \in Nat /\ l \in Nat \union {Never} /\ u \in Nat /\ clock \in Nat
      /\ Threshold \in Nat \ {0, 1} /\ Delay \in Nat \ {0} /\ clock' = clock
    BY <1>4, LoginAssumption DEF LoginTypes, TypeOK, RecordFailure
<1>6. PICK z : z = Streak
    OBVIOUS
<1>7. z = 1 \/ z = f + 1
    BY <1>4, <1>6 DEF Streak
<1>8. /\ backoff'.failures = z /\ backoff'.last = clock
      /\ backoff'.until = IF z >= Threshold THEN clock + Delay ELSE u
      /\ since' = IF z = Threshold THEN clock ELSE since
    BY <1>4, <1>6 DEF RecordFailure, BlockedUntil
<1>9. CASE z < Threshold
    BY <1>5, <1>7, <1>8, <1>9 DEF GuessAccount
<1>10. CASE z = Threshold
    <2>1. since' = clock /\ backoff'.until = clock + Delay
        BY <1>5, <1>8, <1>10
    <2>2. Rounds(backoff.last)' = 1 + (clock - clock) \div Delay
        BY <1>8, <2>1 DEF Rounds
    <2>3. Rounds(backoff.last)' = 1
        BY <1>5, <2>2
    <2>4. n * 1 = n /\ z + (k - 1) < Threshold + n /\ z < Threshold + n
        BY <1>3, <1>5, <1>10
    <2> QED BY <1>1, <1>3, <1>5, <1>8, <1>10, <2>1, <2>3, <2>4 DEF GuessAccount
<1>11. CASE z > Threshold
    <2>1. z = f + 1 /\ f >= Threshold /\ since' = since /\ backoff'.until = clock + Delay
        BY <1>5, <1>7, <1>8, <1>11
    <2>2. /\ since \in Nat /\ l \in Nat /\ since <= l /\ l <= clock /\ u = l + Delay
          /\ f < Threshold + n * Rounds(l)
          /\ clock < u => f + k < Threshold + n * Rounds(l)
        <3>1. /\ since \in Nat /\ since <= l /\ l <= clock /\ u = l + Delay
              /\ f < Threshold + n * Rounds(l)
              /\ clock < u => f + k < Threshold + n * Rounds(l)
            BY <1>1, <1>4, <2>1 DEF GuessAccount
        <3>2. l \in Nat
            BY <1>5, <3>1 DEF Never
        <3> QED BY <3>1, <3>2
    <2>3. PICK p, q : p = Rounds(l) /\ q = Rounds(clock)
        OBVIOUS
    <2>4. p \in Nat /\ q \in Nat /\ p <= q /\ (l + Delay <= clock => p + 1 <= q)
        BY <1>5, <2>2, <2>3, RoundsGrow
    <2>5. n * p \in Nat /\ n * q \in Nat /\ n * p <= n * q /\ (p + 1 <= q => n * p + n <= n * q)
        BY <1>3, <2>4
    <2>6. z + (k - 1) < Threshold + n * q
        <3>1. CASE clock < u
            BY <1>3, <1>5, <2>1, <2>2, <2>3, <2>5, <3>1
        <3>2. CASE ~(clock < u)
            BY <1>3, <1>5, <2>1, <2>2, <2>3, <2>4, <2>5, <3>2
        <3> QED BY <3>1, <3>2
    <2>7. Rounds(backoff.last)' = q
        BY <1>8, <2>1, <2>3 DEF Rounds
    <2>8. z < Threshold + n * q /\ since <= clock
        BY <1>3, <1>5, <2>1, <2>2, <2>5, <2>6
    <2> QED BY <1>1, <1>3, <1>5, <1>8, <2>1, <2>2, <2>6, <2>7, <2>8 DEF GuessAccount
<1>12. z \in Nat
    BY <1>5, <1>7
<1> QED BY <1>5, <1>9, <1>10, <1>11, <1>12

\* Every step keeps the account of the back-off.
LEMMA GuessNext ==
    ASSUME LoginTypes, GuessAccount, [Next]_vars
    PROVE  GuessAccount'
<1>1. CASE UNCHANGED <<clock, backoff, since>> /\ Comparing' = Comparing
    BY <1>1 DEF GuessAccount, Rounds
<1>2. ASSUME NEW h \in Handlers, Allow(h)
      PROVE  GuessAccount'
    <2>1. UNCHANGED <<clock, backoff, since>>
        BY <1>2 DEF Allow, backoffVars
    <2>2. CASE clock < backoff.until
        <3>1. Comparing' = Comparing
            BY <1>2, <2>2 DEF Allow, Goto, Comparing, LoginTypes, TypeOK
        <3> QED BY <1>1, <2>1, <3>1
    <2>3. CASE ~(clock < backoff.until)
        BY <2>1, <2>3 DEF GuessAccount, Rounds
    <2> QED BY <2>2, <2>3
<1>3. ASSUME NEW h \in Handlers, RecordSuccess(h)
      PROVE  GuessAccount'
    <2>1. backoff'.failures = 0 /\ ~(0 >= Threshold)
        BY <1>3, LoginAssumption DEF RecordSuccess, LoginTypes, TypeOK
    <2> QED BY <2>1 DEF GuessAccount
<1>4. CASE Restart
    <2>1. backoff'.failures = 0 /\ ~(0 >= Threshold)
        BY <1>4, LoginAssumption DEF Restart, NoBackoff
    <2> QED BY <2>1 DEF GuessAccount
<1>5. CASE Tick
    <2>1. clock' = clock + 1 /\ UNCHANGED <<backoff, since, pc>>
        BY <1>5 DEF Tick, backoffVars
    <2>2. Comparing' = Comparing /\ clock \in Nat
        BY <2>1 DEF Comparing, LoginTypes, TypeOK
    <2>3. backoff.until \in Nat /\ backoff.last \in Nat \union {Never}
        BY DEF LoginTypes, TypeOK
    <2>4. Rounds(backoff.last)' = Rounds(backoff.last)
        BY <2>1 DEF Rounds
    <2>5. ASSUME backoff.failures >= Threshold
          PROVE  /\ since \in Nat /\ since <= backoff.last /\ backoff.last <= clock'
                 /\ clock' < backoff.until => clock < backoff.until
        BY <2>1, <2>2, <2>3, <2>5 DEF GuessAccount, Never
    <2> QED BY <2>1, <2>2, <2>4, <2>5 DEF GuessAccount
<1>6. ASSUME NEW h \in Handlers, NEW ip \in IPs, NEW g, handleLoginSubmit(h, ip, g)
      PROVE  UNCHANGED <<clock, backoff, since>> /\ Comparing' = Comparing
    BY <1>6 DEF handleLoginSubmit, Goto, backoffVars, Comparing, LoginTypes, TypeOK
<1>7. ASSUME NEW h \in Handlers, Issue(h) \/ SessionStep(h)
      PROVE  UNCHANGED <<clock, backoff, since>> /\ Comparing' = Comparing
    <2>1. UNCHANGED <<clock, backoff, since>>
        BY <1>7 DEF Issue, SessionStep, verify, isRevoked, handleLogout, Page, backoffVars
    <2>2. pc[h] # "compare" /\ \E l \in {"idle", "verify", "handler"} : pc' = [pc EXCEPT ![h] = l]
        BY <1>7 DEF Issue, SessionStep, verify, isRevoked, handleLogout, Page, Goto
    <2> QED BY <2>1, <2>2 DEF Comparing, LoginTypes, TypeOK
<1>8. UNCHANGED vars => UNCHANGED <<clock, backoff, since>> /\ Comparing' = Comparing
    BY DEF vars, backoffVars, Comparing
<1> QED BY <1>1, <1>2, <1>3, <1>4, <1>5, <1>6, <1>7, <1>8, FailureGuesses DEF Next, LoginStep

-----------------------------------------------------------------------------
(* Sessions. *)

\* The steps of the login form leave sessions and the requests they carry alone.
LEMMA LoginKeepsSessions ==
    ASSUME LoginTypes, CookiesRevoked, UNCHANGED <<clock, secret, cookies, revoked, out>>,
           \A h \in Handlers : pc'[h] \in {"verify", "handler"} =>
               pc[h] \in {"verify", "handler"} /\ job'[h] = job[h]
    PROVE  CookiesRevoked'
<1>1. CookiesNumbered' /\ RevokedKept'
    BY DEF CookiesRevoked, CookiesNumbered, RevokedKept
<1>2. SessionsKnown'
    BY DEF CookiesRevoked, SessionsKnown
<1> QED BY <1>1, <1>2 DEF CookiesRevoked

\* A new cookie has a new number and was never logged out.
LEMMA IssueSessions ==
    ASSUME LoginTypes, CookiesRevoked, NEW h \in Handlers, Issue(h)
    PROVE  CookiesRevoked'
<1>1. UNCHANGED <<clock, secret, revoked, out, job>>
    BY DEF Issue
<1>2. \A x \in Handlers : pc'[x] \in {"verify", "handler"} => pc[x] \in {"verify", "handler"}
    BY DEF Issue, Goto, LoginTypes, TypeOK
<1>3. CASE cookies' = cookies
    BY <1>1, <1>2, <1>3, LoginKeepsSessions
<1>4. CASE cookies' # cookies
    <2>1. PICK m : m = Cardinality(cookies)
        OBVIOUS
    <2>2. m \in Nat /\ IsFiniteSet(cookies) /\ secret \in Nat /\ clock \in Nat
        BY <2>1, FS_CardinalityType DEF LoginTypes, TypeOK
    <2>3. PICK e : e = [nonce |-> m + 1, secret |-> secret, expiry |-> Unix(clock + TTL), at |-> clock]
        OBVIOUS
    <2>4. e.nonce = m + 1 /\ e.secret = secret /\ e.at = clock
        BY <2>3
    <2>5. cookies' = cookies \union {e}
        BY <1>4, <2>1, <2>3 DEF Issue
    <2>6. \A c \in cookies : c.nonce <= m /\ c.nonce \in Nat /\ c.secret <= secret /\ c.at <= clock
        BY <2>1 DEF CookiesRevoked, CookiesNumbered, LoginTypes, TypeOK, Cookie
    <2>7. e \notin cookies
        BY <2>2, <2>4, <2>6
    <2>8. Cardinality(cookies') = m + 1
        BY <2>1, <2>2, <2>5, <2>7, FS_AddElement
    <2>9. CookiesNumbered'
        <3>1. \A c \in cookies' : c.nonce <= m + 1 /\ c.secret <= secret /\ c.at <= clock
            BY <2>2, <2>4, <2>5, <2>6
        <3>2. \A c, d \in cookies' : c.nonce = d.nonce => c = d
            <4>1. \A c \in cookies : c.nonce # e.nonce
                BY <2>2, <2>4, <2>6
            <4> QED BY <2>5, <4>1 DEF CookiesRevoked, CookiesNumbered
        <3>3. out \subseteq 1..(m + 1)
            BY <2>1, <2>2 DEF CookiesRevoked, CookiesNumbered
        <3> QED BY <1>1, <2>8, <3>1, <3>2, <3>3 DEF CookiesNumbered
    <2>10. RevokedKept'
        <3>1. e.nonce \notin out
            BY <2>1, <2>2, <2>4 DEF CookiesRevoked, CookiesNumbered
        <3> QED BY <1>1, <2>5, <3>1 DEF CookiesRevoked, RevokedKept
    <2>11. SessionsKnown'
        BY <1>1, <1>2, <2>5 DEF CookiesRevoked, SessionsKnown
    <2> QED BY <2>9, <2>10, <2>11 DEF CookiesRevoked
<1> QED BY <1>3, <1>4

\* The sweep of a logout keeps the entry of every cookie that is still alive.
LEMMA LogoutSessions ==
    ASSUME LoginTypes, CookiesRevoked, NEW h \in Handlers, NEW t, handleLogout(h, t)
    PROVE  CookiesRevoked'
<1>1. UNCHANGED <<clock, secret, cookies>> /\ clock \in Nat /\ TTL \in Nat
    BY LoginAssumption DEF handleLogout, LoginTypes, TypeOK
<1>2. PICK n : n = job[h].nonce
    OBVIOUS
<1>3. out' = out \union {n} /\ revoked' = Revoke(n)
    BY <1>2 DEF handleLogout
<1>4. PICK b \in cookies : b.nonce = n
    BY <1>2 DEF handleLogout, CookiesRevoked, SessionsKnown
<1>5. \A c \in cookies : c.at \in Nat /\ c.at <= clock
    BY DEF CookiesRevoked, CookiesNumbered, LoginTypes, TypeOK, Cookie
<1>6. CookiesNumbered'
    <2>1. Cardinality(cookies) \in Nat
        BY FS_CardinalityType DEF LoginTypes
    <2>2. n \in 1..Cardinality(cookies)
        BY <1>4, <2>1 DEF CookiesRevoked, CookiesNumbered, LoginTypes, TypeOK, Cookie
    <2> QED BY <1>1, <1>3, <2>2 DEF CookiesRevoked, CookiesNumbered
<1>7. RevokedKept'
    <2> SUFFICES ASSUME NEW c \in cookies, c.nonce \in out', c.secret = secret,
                        ~(clock > c.at + TTL)
                 PROVE  \E r \in revoked' : r.nonce = c.nonce /\ r.sweep >= c.at + TTL
        BY <1>1 DEF RevokedKept
    <2>1. CASE c.nonce = n
        <3>1. PICK r : r = [nonce |-> n, sweep |-> SweepAfter]
            OBVIOUS
        <3>2. r \in revoked' /\ r.nonce = n /\ r.sweep = clock + TTL
            BY <1>3, <3>1 DEF Revoke, SweepAfter
        <3>3. clock + TTL >= c.at + TTL
            BY <1>1, <1>5
        <3> QED BY <2>1, <3>2, <3>3
    <2>2. CASE c.nonce # n
        <3>1. PICK r \in revoked : r.nonce = c.nonce /\ r.sweep >= c.at + TTL
            BY <1>3, <2>2 DEF CookiesRevoked, RevokedKept
        <3>2. r.sweep \in Nat
            BY DEF LoginTypes, TypeOK
        <3>3. clock <= r.sweep
            BY <1>1, <1>5, <3>1, <3>2
        <3>4. r \in revoked'
            BY <1>3, <2>2, <3>1, <3>3 DEF Revoke
        <3> QED BY <3>1, <3>4
    <2> QED BY <2>1, <2>2
<1>8. SessionsKnown'
    <2>1. \A x \in Handlers : pc'[x] \in {"verify", "handler"} =>
              pc[x] \in {"verify", "handler"} /\ job'[x] = job[x]
        BY DEF handleLogout, Goto, LoginTypes, TypeOK
    <2> QED BY <1>1, <1>3, <2>1 DEF CookiesRevoked, SessionsKnown
<1> QED BY <1>6, <1>7, <1>8 DEF CookiesRevoked

\* A session that is let past the signature has a known cookie.
LEMMA VerifySessions ==
    ASSUME LoginTypes, CookiesRevoked, NEW h \in Handlers, NEW c \in cookies, verify(h, c)
    PROVE  CookiesRevoked'
<1>1. UNCHANGED <<clock, secret, cookies, revoked, out>> /\ c.secret = secret
    BY DEF verify, sessionVars
<1>2. CookiesNumbered' /\ RevokedKept'
    BY <1>1 DEF CookiesRevoked, CookiesNumbered, RevokedKept
<1>3. PICK j : j = [nonce |-> c.nonce, dead |-> c.nonce \in out]
    OBVIOUS
<1>4. j.nonce = c.nonce /\ (j.dead => c.nonce \in out)
    BY <1>3
<1>5. job'[h] = j /\ \A x \in Handlers \ {h} : pc'[x] = pc[x] /\ job'[x] = job[x]
    BY <1>3 DEF verify, Goto, LoginTypes, TypeOK
<1>6. SessionsKnown'
    BY <1>1, <1>4, <1>5 DEF CookiesRevoked, SessionsKnown
<1> QED BY <1>2, <1>6 DEF CookiesRevoked

\* With time cookies expire; a restart makes every one invalid.
LEMMA ProcessSessions ==
    ASSUME LoginTypes, CookiesRevoked, Tick \/ Restart
    PROVE  CookiesRevoked'
<1>1. clock \in Nat /\ secret \in Nat /\ TTL \in Nat /\ \A c \in cookies : c.at \in Nat /\ c.secret \in Nat
    BY LoginAssumption DEF LoginTypes, TypeOK, Cookie
<1>2. CASE Tick
    <2>1. clock' = clock + 1 /\ UNCHANGED <<secret, cookies, revoked, out, pc, job>>
        BY <1>2 DEF Tick, sessionVars
    <2>2. \A c \in cookies : /\ c.at <= clock => c.at <= clock'
                             /\ clock > c.at + TTL => clock' > c.at + TTL
        BY <1>1, <2>1
    <2>3. CookiesNumbered' /\ RevokedKept'
        BY <2>1, <2>2 DEF CookiesRevoked, CookiesNumbered, RevokedKept
    <2>4. SessionsKnown'
        BY <2>1 DEF CookiesRevoked, SessionsKnown
    <2> QED BY <2>3, <2>4 DEF CookiesRevoked
<1>3. CASE Restart
    <2>1. secret' = secret + 1 /\ UNCHANGED <<clock, cookies, out>>
          /\ \A h \in Handlers : pc'[h] = "idle"
        BY <1>3 DEF Restart
    <2>2. \A c \in cookies : c.secret <= secret /\ c.secret <= secret' /\ c.secret # secret'
        BY <1>1, <2>1 DEF CookiesRevoked, CookiesNumbered
    <2>3. CookiesNumbered' /\ RevokedKept'
        BY <2>1, <2>2 DEF CookiesRevoked, CookiesNumbered, RevokedKept
    <2>4. SessionsKnown'
        BY <2>1 DEF SessionsKnown
    <2> QED BY <2>3, <2>4 DEF CookiesRevoked
<1> QED BY <1>2, <1>3

\* Every step keeps the revocations.
LEMMA SessionsNext ==
    ASSUME LoginTypes, CookiesRevoked, [Next]_vars
    PROVE  CookiesRevoked'
<1> DEFINE Quiet ==
        /\ UNCHANGED <<clock, secret, cookies, revoked, out>>
        /\ \A x \in Handlers : pc'[x] \in {"verify", "handler"} =>
               pc[x] \in {"verify", "handler"} /\ job'[x] = job[x]
<1>1. Quiet => CookiesRevoked'
    BY LoginKeepsSessions
<1>2. ASSUME NEW h \in Handlers, NEW ip \in IPs, NEW g, handleLoginSubmit(h, ip, g)
      PROVE  Quiet
    BY <1>2 DEF handleLoginSubmit, Goto, sessionVars, LoginTypes, TypeOK
<1>3. ASSUME NEW h \in Handlers, Allow(h) \/ RecordFailure(h) \/ RecordSuccess(h)
      PROVE  Quiet
    BY <1>3 DEF Allow, RecordFailure, RecordSuccess, Goto, sessionVars, LoginTypes, TypeOK
<1>4. ASSUME NEW h \in Handlers, isRevoked(h) \/ Page(h)
      PROVE  Quiet
    BY <1>4 DEF isRevoked, Page, Goto, sessionVars, LoginTypes, TypeOK
<1>5. UNCHANGED vars => Quiet
    BY DEF vars, sessionVars
<1> HIDE DEF Quiet
<1> QED BY <1>1, <1>2, <1>3, <1>4, <1>5, IssueSessions, LogoutSessions, VerifySessions, ProcessSessions
        DEF Next, LoginStep, SessionStep

\* What the last half of verify lets through was not logged out, or is too old.
LEMMA SticksNext ==
    ASSUME LoginTypes, CookiesRevoked, [Next]_vars,
           NEW h \in Handlers, pc[h] = "verify", pc'[h] = "handler", job[h].dead,
           NEW c \in cookies, c.nonce = job[h].nonce
    PROVE  clock > c.at + TTL
<1>1. isRevoked(h)
    <2>1. pc'[h] # pc[h] /\ pc \in [Handlers -> {"idle", "backoff", "compare", "issue", "verify", "handler"}]
        BY DEF LoginTypes, TypeOK
    <2>2. ~Tick /\ ~Restart /\ ~UNCHANGED vars
        BY <2>1 DEF Tick, Restart, vars
    <2>3. PICK x \in Handlers : LoginStep(x) \/ SessionStep(x)
        BY <2>2 DEF Next
    <2>4. x = h
        BY <2>1, <2>3 DEF LoginStep, SessionStep, handleLoginSubmit, Allow, RecordFailure,
            RecordSuccess, Issue, verify, isRevoked, handleLogout, Page, Goto
    <2> QED BY <2>3, <2>4 DEF LoginStep, SessionStep, handleLoginSubmit, Allow, RecordFailure,
            RecordSuccess, Issue, verify, isRevoked, handleLogout, Page
<1>2. ~\E r \in revoked : r.nonce = job[h].nonce
    BY <1>1 DEF isRevoked, Goto, LoginTypes, TypeOK
<1>3. c.secret = secret /\ c.nonce \in out
    BY DEF CookiesRevoked, SessionsKnown, CookiesNumbered
<1> QED BY <1>2, <1>3 DEF CookiesRevoked, RevokedKept

-----------------------------------------------------------------------------
(* Theorems. *)

\* The invariant of login and sessions: the bucket account of loginLimiter, the
\* back-off account of globalBackoff, and the revocation map of SessionManager.
THEOREM LoginInvariant == Spec => []LoginInv
<1>1. Init => LoginInv
    <2> SUFFICES ASSUME Init PROVE LoginInv
        OBVIOUS
    <2>1. GuessAccount
        BY LoginAssumption DEF Init, NoBackoff, GuessAccount
    <2>2. CookiesRevoked
        BY FS_EmptySet DEF Init, CookiesRevoked, CookiesNumbered, RevokedKept, SessionsKnown
    <2> QED BY <2>1, <2>2, TypesInit, RateInit DEF LoginInv
<1>2. LoginInv /\ [Next]_vars => LoginInv'
    BY TypesNext, RateNext, GuessNext, SessionsNext DEF LoginInv
<1> QED BY <1>1, <1>2, PTL DEF Spec

\* No bucket of loginLimiter is overdrawn or above the limit, and the rest of
\* the state has its type.
THEOREM BucketsNeverOverdrawn == Spec => []TypeOK
<1>1. LoginInv => TypeOK
    BY DEF LoginInv, LoginTypes
<1> QED BY <1>1, LoginInvariant, PTL

\* However requests of any addresses interleave and buckets are swept, no address
\* is let through more often than the limit and the rate give (loginLimiter.Allow).
THEOREM AttemptsAlwaysWithinRate == Spec => []AttemptsWithinRate
<1>1. LoginInv => AttemptsWithinRate
    <2> SUFFICES ASSUME LoginInv, NEW ip \in IPs
                 PROVE  allowed[ip] * Unit <= Limit + Rate * (clock - started)
        BY DEF AttemptsWithinRate
    <2>1. allowed[ip] * Unit + Tokens(ip) <= Limit + Rate * (clock - started)
        BY DEF LoginInv, RateAccount
    <2>2. Tokens(ip) \in Nat /\ allowed[ip] \in Nat /\ Unit \in Nat /\ Limit \in Nat
          /\ Rate \in Nat /\ clock \in Nat /\ started \in Nat
        BY TokensType, LoginAssumption DEF LoginInv, LoginTypes, TypeOK
    <2>3. PICK spent, given : spent = allowed[ip] * Unit /\ given = Rate * (clock - started)
        OBVIOUS
    <2>4. spent \in Int /\ given \in Int
        BY <2>2, <2>3
    <2> QED BY <2>1, <2>2, <2>3, <2>4
<1> QED BY <1>1, LoginInvariant, PTL

\* Any number of handlers that pass globalBackoff.Allow together guess past the
\* threshold no more than once each per delay.
THEOREM GuessesAlwaysBounded == Spec => []GuessesBounded
<1>1. LoginInv => GuessesBounded
    <2> SUFFICES ASSUME LoginInv, backoff.failures >= Threshold
                 PROVE  backoff.failures < Threshold + Cardinality(Handlers) * Rounds(clock)
        BY DEF GuessesBounded, Rounds
    <2>1. PICK f, l, n : f = backoff.failures /\ l = backoff.last /\ n = Cardinality(Handlers)
        OBVIOUS
    <2>2. since \in Nat /\ since <= l /\ l <= clock /\ f < Threshold + n * Rounds(l)
        BY <2>1 DEF LoginInv, GuessAccount
    <2>3. /\ l \in Nat \union {Never} /\ clock \in Nat /\ n \in Nat /\ f \in Nat
          /\ Threshold \in Nat
        BY <2>1, ComparingCount, LoginAssumption DEF LoginInv, LoginTypes, TypeOK
    <2>4. l \in Nat
        BY <2>2, <2>3 DEF Never
    <2>5. PICK p, q : p = Rounds(l) /\ q = Rounds(clock)
        OBVIOUS
    <2>6. p \in Nat /\ q \in Nat /\ p <= q
        BY <2>2, <2>3, <2>4, <2>5, RoundsGrow
    <2>7. n * p \in Nat /\ n * q \in Nat /\ n * p <= n * q
        BY <2>3, <2>6
    <2> QED BY <2>1, <2>2, <2>3, <2>5, <2>7
<1> QED BY <1>1, LoginInvariant, PTL

\* A request that comes after the logout of its session is never let through
\* within the lifetime of its cookie: sweeps and restarts bring no session back
\* (SessionManager.verify, Revoke).
THEOREM LogoutAlwaysSticks == Spec => LogoutSticks
<1>1. LoginInv /\ [Next]_vars =>
        [\A h \in Handlers : pc[h] = "verify" /\ pc'[h] = "handler" /\ job[h].dead =>
            \A c \in cookies : c.nonce = job[h].nonce => clock > c.at + TTL]_vars
    BY SticksNext DEF LoginInv
<1> QED BY <1>1, LoginInvariant, PTL DEF Spec, LogoutSticks
=============================================================================
