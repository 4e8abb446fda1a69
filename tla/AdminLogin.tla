----------------------------- MODULE AdminLogin -----------------------------
(***************************************************************************)
(* Login and sessions of the admin UI (internal/adminui/session.go,        *)
(* csrf.go, handlers.go): concurrent POST /login requests through the      *)
(* per-IP limiter and the global back-off, requests that carry a session   *)
(* cookie, logouts, and restarts, which draw a new signing secret.         *)
(*                                                                         *)
(* Time is counted in ticks, Second of them to a second: expiries are cut  *)
(* off to whole seconds, everything else is not. Tokens of the limiter are *)
(* counted in credits, Unit to an attempt. HMAC is unforgeable: a cookie   *)
(* or a form token verifies under the secret it was made with only.        *)
(***************************************************************************)
EXTENDS Integers, FiniteSets

CONSTANTS
    Handlers,    \* request goroutines
    IPs,         \* client addresses
    Second,      \* ticks per second
    TTL,         \* sessionTTL
    Unit,        \* credits one attempt costs
    Limit,       \* loginRateLimit, in credits
    Rate,        \* credits per tick
    Threshold,   \* globalBackoffThreshold
    Delay,       \* globalBackoffDelay
    Decay,       \* globalBackoffDecay
    MaxCookies,  \* bound: sessions issued
    MaxRestarts, \* bound: restarts
    Start,       \* when the first process is started: seconds do not begin then
    MaxTime      \* bound: time

ASSUME LoginAssumption ==
    /\ IsFiniteSet(Handlers)
    /\ Second \in Nat \ {0} /\ Unit \in Nat \ {0} /\ Rate \in Nat \ {0}
    /\ TTL \in Nat /\ TTL % Second = 0
    /\ Limit \in Nat /\ Threshold \in Nat \ {0, 1}
    /\ Delay \in Nat \ {0} /\ Decay \in Nat \ {0}
    /\ MaxCookies \in Nat /\ MaxRestarts \in Nat /\ MaxTime \in Nat /\ Start \in 0..MaxTime

VARIABLES
    clock,     \* time
    secret,    \* SessionManager.secret: counts the processes
    cookies,   \* cookies ever set, nonces numbered as they are drawn
    revoked,   \* revoked: (nonce, sweep-after time) pairs
    buckets,   \* buckets[ip]: its bucket, known when it is in the map
    backoff,   \* globalBackoff
    pc,        \* pc[h]: where handler h stands
    job,       \* job[h]: the cookie h was sent
    out,       \* history: nonces that were logged out
    started,   \* history: when the process was started
    allowed,   \* history: allowed[ip] counts attempts let through since then
    since      \* history: when the streak of failures reached the threshold

sessionVars == <<secret, cookies, revoked, out>>
limitVars == <<buckets, allowed>>
backoffVars == <<backoff, since>>
vars == <<clock, sessionVars, limitVars, backoffVars, pc, job, started>>

-----------------------------------------------------------------------------
Least(a, b) == IF a <= b THEN a ELSE b
Never == -1
Unix(t) == t \div Second

NoBucket == [known |-> FALSE, tokens |-> 0, fill |-> 0]
NoBackoff == [failures |-> 0, last |-> Never, until |-> 0]
NoJob == [nonce |-> 0, dead |-> FALSE]

Goto(h, l) == pc' = [pc EXCEPT ![h] = l]

-----------------------------------------------------------------------------
(* loginLimiter.Allow and globalBackoff, each under its mutex. *)

Capped(tokens) == Least(Limit, tokens)

\* What ip's bucket holds at this time, full when it is not in the map.
Tokens(ip) ==
    IF buckets[ip].known
    THEN Capped(buckets[ip].tokens + (clock - buckets[ip].fill) * Rate) ELSE Limit

\* Mutant: a bucket is dropped once it has a token again.
SweptEarly(ip) == buckets[ip].tokens + (clock - buckets[ip].fill) * Rate >= Unit

\* The lazy sweep drops a bucket that has refilled to full.
Swept(ip) == buckets[ip].tokens + (clock - buckets[ip].fill) * Rate >= Limit

\* The map after Allow for ip, which takes t credits.
Charged(ip, t) ==
    [k \in IPs |-> CASE k = ip -> [known |-> TRUE, tokens |-> Tokens(ip) - t, fill |-> clock]
                     [] k # ip /\ buckets[k].known /\ Swept(k) -> NoBucket
                     [] OTHER -> buckets[k]]

\* POST /login with a form made under secret g: RequireCSRF, then the limiter.
handleLoginSubmit(h, ip, g) ==
    /\ pc[h] = "idle" /\ g = secret
    /\ IF Tokens(ip) < Unit
       THEN buckets' = Charged(ip, 0) /\ UNCHANGED <<allowed, pc>>
       ELSE /\ buckets' = Charged(ip, Unit)
            /\ allowed' = [allowed EXCEPT ![ip] = @ + 1]
            /\ Goto(h, "backoff")
    /\ UNCHANGED <<clock, sessionVars, backoffVars, job, started>>

\* globalBackoff.Allow; 429 when it refuses.
Allow(h) ==
    /\ pc[h] = "backoff"
    /\ Goto(h, IF clock < backoff.until THEN "idle" ELSE "compare")
    /\ UNCHANGED <<clock, sessionVars, limitVars, backoffVars, job, started>>

\* The streak after one more failure, which decays after a quiet time.
Streak == IF backoff.last # Never /\ clock - backoff.last >= Decay THEN 1
          ELSE backoff.failures + 1

\* Mutant: only the failure that reaches the threshold starts a block.
BlockedUntilOnce(n) == IF n = Threshold THEN clock + Delay ELSE backoff.until

BlockedUntil(n) == IF n >= Threshold THEN clock + Delay ELSE backoff.until

\* The password was wrong.
RecordFailure(h) ==
    /\ pc[h] = "compare"
    /\ backoff' = [failures |-> Streak, last |-> clock, until |-> BlockedUntil(Streak)]
    /\ since' = IF Streak = Threshold THEN clock ELSE since
    /\ Goto(h, "idle")
    /\ UNCHANGED <<clock, sessionVars, limitVars, job, started>>

\* The password was right; lastFailure stays.
RecordSuccess(h) ==
    /\ pc[h] = "compare"
    /\ backoff' = [backoff EXCEPT !.failures = 0, !.until = 0]
    /\ Goto(h, "issue")
    /\ UNCHANGED <<clock, sessionVars, limitVars, since, job, started>>

-----------------------------------------------------------------------------
(* SessionManager. *)

\* A fresh nonce; the expiry is cut off to whole seconds.
Issue(h) ==
    /\ pc[h] = "issue"
    /\ \/ /\ Cardinality(cookies) < MaxCookies
          /\ cookies' = cookies \union
                {[nonce |-> Cardinality(cookies) + 1, secret |-> secret,
                  expiry |-> Unix(clock + TTL), at |-> clock]}
       \/ UNCHANGED cookies  \* no random bytes: internal_error
    /\ Goto(h, "idle")
    /\ UNCHANGED <<clock, secret, revoked, out, limitVars, backoffVars, job, started>>

\* First half of verify: signature and expiry, before revoked is looked at.
verify(h, c) ==
    /\ pc[h] = "idle"
    /\ c.secret = secret /\ Unix(clock) <= c.expiry
    /\ job' = [job EXCEPT ![h] = [nonce |-> c.nonce, dead |-> c.nonce \in out]]
    /\ Goto(h, "verify")
    /\ UNCHANGED <<clock, sessionVars, limitVars, backoffVars, started>>

\* Second half, under the mutex: /login, or the handler behind Middleware.
isRevoked(h) ==
    /\ pc[h] = "verify"
    /\ IF \E r \in revoked : r.nonce = job[h].nonce
       THEN Goto(h, "idle") /\ job' = [job EXCEPT ![h] = NoJob]
       ELSE Goto(h, "handler") /\ UNCHANGED job
    /\ UNCHANGED <<clock, sessionVars, limitVars, backoffVars, started>>

\* Mutant: the entry may be swept at once.
SweepAfterNow == clock

SweepAfter == clock + TTL

\* The map after Revoke: the sweep, then the nonce with its own time.
Revoke(n) ==
    {r \in revoked : r.nonce # n /\ clock <= r.sweep}
        \union {[nonce |-> n, sweep |-> SweepAfter]}

\* A form token is the HMAC of the nonce of the page it was rendered for.
CSRFToken(n) == <<secret, n>>

\* POST /logout with form token t: RequireCSRF, then Revoke.
handleLogout(h, t) ==
    /\ pc[h] = "handler" /\ t = CSRFToken(job[h].nonce)
    /\ revoked' = Revoke(job[h].nonce)
    /\ out' = out \union {job[h].nonce}
    /\ Goto(h, "idle") /\ job' = [job EXCEPT ![h] = NoJob]
    /\ UNCHANGED <<clock, secret, cookies, limitVars, backoffVars, started>>

\* Any other page, or a form token that does not match: nothing here changes.
Page(h) ==
    /\ pc[h] = "handler"
    /\ Goto(h, "idle") /\ job' = [job EXCEPT ![h] = NoJob]
    /\ UNCHANGED <<clock, sessionVars, limitVars, backoffVars, started>>

-----------------------------------------------------------------------------
\* NewServer in a new process; browsers keep their cookies.
Restart ==
    /\ secret < MaxRestarts /\ secret' = secret + 1
    /\ revoked' = {}
    /\ buckets' = [ip \in IPs |-> NoBucket] /\ allowed' = [ip \in IPs |-> 0]
    /\ backoff' = NoBackoff /\ since' = Never
    /\ pc' = [h \in Handlers |-> "idle"] /\ job' = [h \in Handlers |-> NoJob]
    /\ started' = clock
    /\ UNCHANGED <<clock, cookies, out>>

Tick ==
    /\ clock < MaxTime /\ clock' = clock + 1
    /\ UNCHANGED <<sessionVars, limitVars, backoffVars, pc, job, started>>

Init ==
    /\ clock = Start /\ started = Start
    /\ secret = 0 /\ cookies = {} /\ revoked = {} /\ out = {}
    /\ buckets = [ip \in IPs |-> NoBucket] /\ allowed = [ip \in IPs |-> 0]
    /\ backoff = NoBackoff /\ since = Never
    /\ pc = [h \in Handlers |-> "idle"] /\ job = [h \in Handlers |-> NoJob]

LoginStep(h) ==
    \/ \E ip \in IPs, g \in 0..secret : handleLoginSubmit(h, ip, g)
    \/ Allow(h) \/ RecordFailure(h) \/ RecordSuccess(h) \/ Issue(h)

SessionStep(h) ==
    \/ \E c \in cookies : verify(h, c)
    \/ isRevoked(h)
    \/ \E c \in cookies : handleLogout(h, <<c.secret, c.nonce>>)
    \/ Page(h)

Next == Tick \/ Restart \/ \E h \in Handlers : LoginStep(h) \/ SessionStep(h)

Spec == Init /\ [][Next]_vars

-----------------------------------------------------------------------------
(* Properties. *)

Cookie == [nonce : Nat \ {0}, secret : Nat, expiry : Nat, at : Nat]

\* The type of the state; no bucket is overdrawn or above the limit.
TypeOK ==
    /\ clock \in 0..MaxTime /\ started \in 0..clock
    /\ secret \in 0..MaxRestarts
    /\ cookies \subseteq Cookie /\ out \subseteq Nat
    /\ revoked \subseteq [nonce : Nat \ {0}, sweep : Nat]
    /\ buckets \in [IPs -> [known : BOOLEAN, tokens : 0..Limit, fill : Nat]]
    /\ backoff \in [failures : Nat, last : Nat \union {Never}, until : Nat]
    /\ since \in Nat \union {Never}
    /\ pc \in [Handlers -> {"idle", "backoff", "compare", "issue", "verify", "handler"}]
    /\ job \in [Handlers -> [nonce : Nat, dead : BOOLEAN]]
    /\ allowed \in [IPs -> Nat]

\* A request that comes after the logout of its session is never let through
\* within the lifetime of the cookie, though the entries of revoked are swept
\* and a restart forgets them all (verify, Revoke). Afterwards the cookie is
\* dead but for the rest of the second its expiry was cut off to.
LogoutSticks ==
    [][\A h \in Handlers : pc[h] = "verify" /\ pc'[h] = "handler" /\ job[h].dead =>
          \A c \in cookies : c.nonce = job[h].nonce => clock > c.at + TTL]_vars

\* Dropping full buckets gives no address more attempts than the limit and what
\* the rate yielded since the process was started (loginLimiter.Allow).
AttemptsWithinRate ==
    \A ip \in IPs : allowed[ip] * Unit <= Limit + Rate * (clock - started)

\* Attempts that pass the back-off together before the first of them has failed
\* get past the threshold, but no further than one each per delay (Allow,
\* RecordFailure, RecordSuccess as three steps of handleLoginSubmit).
GuessesBounded ==
    backoff.failures >= Threshold =>
        backoff.failures < Threshold + Cardinality(Handlers) * (1 + (clock - since) \div Delay)
=============================================================================
