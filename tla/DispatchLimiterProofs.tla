----------------------- MODULE DispatchLimiterProofs -----------------------
(***************************************************************************)
(* For every number of senders and chats and all rates and bursts, the     *)
(* limiter keeps within them. What a bucket holds and what was taken from  *)
(* it together never exceed the burst and the rate's yield up to the last  *)
(* refill, and no refill lies in the future.                               *)
(***************************************************************************)
EXTENDS DispatchLimiter, TLAPS

\* The account of a bucket: n messages taken, and its state.
Account(n, tokens, refill, rate, burst) == n * Unit + tokens <= burst + rate * refill

\* No clock reading and no refill lies in the future.
Past ==
    /\ gRefill <= clock
    /\ \A c \in Chats : per[c].refill <= clock
    /\ \A s \in Senders : now[s] <= clock

Accounts ==
    /\ Account(taken, gTokens, gRefill, gRate, gBurst)
    /\ \A c \in Chats :
        /\ ~per[c].known => granted[c] = 0
        /\ per[c].known => Account(granted[c], per[c].tokens, per[c].refill, pRate, pBurst)

\* The inductive invariant.
LimiterInv == TypeOK /\ Past /\ Accounts

-----------------------------------------------------------------------------
\* Integer products distribute over sums and differences.
LEMMA Distribute ==
    \A a, b, r \in Int : /\ (a + b) * r = a * r + b * r
                         /\ (a - b) * r = a * r - b * r
                         /\ r * a = a * r
    OBVIOUS

\* A product with a natural number is monotone.
LEMMA Monotone == \A a, b, r \in Nat : a <= b => r * a <= r * b
<1> SUFFICES ASSUME NEW a \in Nat, NEW b \in Nat, NEW r \in Nat, a <= b
             PROVE  r * a <= r * b
    OBVIOUS
<1>1. b - a \in Nat /\ (b - a) * r \in Nat
    OBVIOUS
<1>2. (b - a) * r = b * r - a * r /\ r * a = a * r /\ r * b = b * r
    BY Distribute
<1>3. a * r \in Int /\ b * r \in Int
    OBVIOUS
<1> QED BY <1>1, <1>2, <1>3

\* Filling a bucket keeps it within its burst.
LEMMA FilledType ==
    ASSUME NEW burst \in Nat, NEW tokens \in 0..burst, NEW rate \in Nat, NEW e \in Int
    PROVE  Filled(tokens, e, rate, burst) \in 0..burst
<1>1. e > 0 => e * rate \in Nat
    OBVIOUS
<1> QED BY <1>1 DEF Filled, Least

\* Filling a bucket keeps its account: it gains no more than the rate gave
\* between the two refills. A caller with an old clock gains nothing.
LEMMA FilledAccount ==
    ASSUME NEW burst \in Nat, NEW tokens \in 0..burst, NEW rate \in Nat,
           NEW refill \in Nat, NEW t \in Nat, NEW n \in Nat, Unit \in Nat,
           Account(n, tokens, refill, rate, burst)
    PROVE  Account(n, Filled(tokens, t - refill, rate, burst), Refilled(refill, t), rate, burst)
<1>1. CASE t - refill > 0
    <2>1. /\ (t - refill) * rate = t * rate - refill * rate
          /\ rate * t = t * rate /\ rate * refill = refill * rate
        BY Distribute
    <2>2. /\ n * Unit \in Int /\ t * rate \in Int /\ refill * rate \in Int
          /\ (t - refill) * rate \in Int
        OBVIOUS
    <2>3. Filled(tokens, t - refill, rate, burst) <= tokens + (t - refill) * rate
        BY <1>1, <2>2 DEF Filled, Least
    <2>4. Filled(tokens, t - refill, rate, burst) \in Int
        BY FilledType
    <2>5. Refilled(refill, t) = t
        BY <1>1 DEF Refilled
    <2> QED BY <2>1, <2>2, <2>3, <2>4, <2>5 DEF Account
<1>2. CASE ~(t - refill > 0)
    BY <1>2 DEF Filled, Refilled
<1> QED BY <1>1, <1>2

\* A token taken moves from the bucket to the count.
LEMMA TakeAccount ==
    ASSUME NEW tokens \in Nat, NEW n \in Nat, NEW refill \in Nat, NEW rate \in Nat,
           NEW burst \in Nat, Unit \in Nat, Account(n, tokens, refill, rate, burst)
    PROVE  Account(n + 1, tokens - Unit, refill, rate, burst)
<1>1. (n + 1) * Unit = n * Unit + 1 * Unit /\ 1 * Unit = Unit
    BY Distribute
<1>2. n * Unit \in Int /\ (n + 1) * Unit \in Int /\ rate * refill \in Int
    OBVIOUS
<1> QED BY <1>1, <1>2 DEF Account

\* A refill lies between the last one and the caller's clock.
LEMMA RefilledType ==
    ASSUME NEW refill \in Nat, NEW t \in Nat, NEW c \in Nat, refill <= c, t <= c
    PROVE  Refilled(refill, t) \in Nat /\ Refilled(refill, t) <= c
    BY DEF Refilled

\* The dispatcher's reaction to a refusal keeps the types of pc and due.
LEMMA RefusedType ==
    ASSUME TypeOK, NEW s \in Senders, NEW wait \in Int, Refused(s, wait)
    PROVE  /\ pc' \in [Senders -> {"idle", "global", "chat", "wait", "send"}]
           /\ due' \in [Senders -> Nat]
<1>1. CASE wait > 0
    <2>1. clock + wait \in Nat
        BY <1>1 DEF TypeOK
    <2> QED BY <1>1, <2>1 DEF TypeOK, Refused, Goto
<1>2. CASE ~(wait > 0)
    BY <1>2 DEF TypeOK, Refused, Goto
<1> QED BY <1>1, <1>2

-----------------------------------------------------------------------------
\* Full buckets and a clock at zero satisfy the invariant (NewDispatchLimiter).
LEMMA InitInv == Init => LimiterInv
<1> SUFFICES ASSUME Init PROVE LimiterInv
    OBVIOUS
<1> USE LimiterAssumption
<1>1. TypeOK
    BY DEF Init, TypeOK
<1>2. Past
    BY DEF Init, Past
<1>3. Accounts
    <2>1. 0 * Unit = 0 /\ gRate * 0 = 0
        OBVIOUS
    <2> QED BY <2>1 DEF Init, Accounts, Account
<1> QED BY <1>1, <1>2, <1>3 DEF LimiterInv

\* takeGlobal keeps the invariant: the global account is filled, then charged.
LEMMA GlobalStep ==
    ASSUME LimiterInv, NEW s \in Senders, takeGlobal(s)
    PROVE  LimiterInv'
<1> USE LimiterAssumption
<1> DEFINE tokens == Filled(gTokens, now[s] - gRefill, gRate, gBurst)
           refill == Refilled(gRefill, now[s])
<1>1. /\ gTokens \in 0..gBurst /\ gRefill \in Nat /\ now[s] \in Nat /\ taken \in Nat
      /\ clock \in Nat /\ gRefill <= clock /\ now[s] <= clock
      /\ Account(taken, gTokens, gRefill, gRate, gBurst)
    BY DEF LimiterInv, TypeOK, Past, Accounts
<1>2. tokens \in 0..gBurst
    <2>1. now[s] - gRefill \in Int /\ gRate \in Nat /\ gBurst \in Nat
        BY <1>1
    <2> QED BY <1>1, <2>1, FilledType
<1>3. refill \in Nat /\ refill <= clock
    BY <1>1, RefilledType
<1>4. Account(taken, tokens, refill, gRate, gBurst)
    BY <1>1, FilledAccount
<1>5. gRefill' = refill /\ UNCHANGED <<clock, per, granted, chat, now, sent>>
    BY DEF takeGlobal, pVars
<1>6. CASE tokens >= Unit
    <2>1. /\ gTokens' = tokens - Unit /\ taken' = taken + 1
          /\ pc' = [pc EXCEPT ![s] = "chat"] /\ due' = due
        BY <1>6 DEF takeGlobal, Goto
    <2>2. Account(taken + 1, tokens - Unit, refill, gRate, gBurst)
        BY <1>1, <1>2, <1>3, <1>4, TakeAccount
    <2>3. TypeOK'
        BY <1>1, <1>2, <1>3, <1>5, <1>6, <2>1 DEF LimiterInv, TypeOK
    <2>4. Past' /\ Accounts'
        BY <1>3, <1>5, <2>1, <2>2 DEF LimiterInv, Past, Accounts, Account
    <2> QED BY <2>3, <2>4 DEF LimiterInv
<1>7. CASE ~(tokens >= Unit)
    <2>1. gTokens' = tokens /\ taken' = taken /\ Refused(s, Wait(tokens, gRate))
        BY <1>7 DEF takeGlobal
    <2>2. Wait(tokens, gRate) \in Int
        BY <1>2 DEF Wait
    <2>3. /\ pc' \in [Senders -> {"idle", "global", "chat", "wait", "send"}]
          /\ due' \in [Senders -> Nat]
        BY <2>1, <2>2, RefusedType DEF LimiterInv
    <2>4. TypeOK'
        BY <1>1, <1>2, <1>3, <1>5, <2>1, <2>3 DEF LimiterInv, TypeOK
    <2>5. Past' /\ Accounts'
        BY <1>3, <1>4, <1>5, <2>1 DEF LimiterInv, Past, Accounts, Account
    <2> QED BY <2>4, <2>5 DEF LimiterInv
<1> QED BY <1>6, <1>7

\* takePerChat keeps the invariant, for a chat's first message too.
LEMMA ChatStep ==
    ASSUME LimiterInv, NEW s \in Senders, takePerChat(s)
    PROVE  LimiterInv'
<1> USE LimiterAssumption
<1> DEFINE c == chat[s]
           b == Bucket(c, now[s])
           tokens == Filled(b.tokens, now[s] - b.refill, pRate, pBurst)
           refill == Refilled(b.refill, now[s])
           left == IF tokens >= Unit THEN tokens - Unit ELSE tokens
<1>1. c \in Chats /\ now[s] \in Nat /\ clock \in Nat /\ now[s] <= clock /\ granted[c] \in Nat
    BY DEF LimiterInv, TypeOK, Past
<1>2. /\ b.tokens \in 0..pBurst /\ b.refill \in Nat /\ b.refill <= clock
      /\ Account(granted[c], b.tokens, b.refill, pRate, pBurst)
    <2>1. CASE per[c].known
        BY <1>1, <2>1 DEF LimiterInv, TypeOK, Past, Accounts, Bucket
    <2>2. CASE ~per[c].known
        <3>1. b = [known |-> TRUE, tokens |-> pBurst, refill |-> now[s]]
            BY <2>2 DEF Bucket
        <3>2. granted[c] = 0
            BY <1>1, <2>2 DEF LimiterInv, Accounts
        <3>3. 0 * Unit = 0 /\ pRate * now[s] \in Nat
            BY <1>1
        <3> QED BY <1>1, <3>1, <3>2, <3>3 DEF Account
    <2> QED BY <2>1, <2>2
<1>3. tokens \in 0..pBurst
    <2>1. now[s] - b.refill \in Int /\ pRate \in Nat /\ pBurst \in Nat
        BY <1>1, <1>2
    <2> HIDE DEF b
    <2> QED BY <1>2, <2>1, FilledType
<1>4. refill \in Nat /\ refill <= clock
    BY <1>1, <1>2, RefilledType
<1>5. Account(granted[c], tokens, refill, pRate, pBurst)
    BY <1>1, <1>2, FilledAccount
<1>6. left \in 0..pBurst
    BY <1>3
<1>7. /\ per' = [per EXCEPT ![c] = [known |-> TRUE, tokens |-> left, refill |-> refill]]
      /\ UNCHANGED <<clock, gTokens, gRefill, taken, chat, now, sent>>
    BY DEF takePerChat, gVars
<1>8. \A d \in Chats : per'[d].refill <= clock
    BY <1>4, <1>7 DEF LimiterInv, TypeOK, Past
<1>9. Past'
    BY <1>7, <1>8 DEF LimiterInv, Past
<1>10. per' \in [Chats -> [known : BOOLEAN, tokens : 0..pBurst, refill : Nat]]
    BY <1>4, <1>6, <1>7 DEF LimiterInv, TypeOK
<1>11. CASE tokens >= Unit
    <2>1. /\ granted' = [granted EXCEPT ![c] = @ + 1]
          /\ pc' = [pc EXCEPT ![s] = "send"] /\ due' = due
        BY <1>11 DEF takePerChat, Goto
    <2>2. Account(granted[c] + 1, left, refill, pRate, pBurst)
        <3>1. left = tokens - Unit /\ tokens \in Nat /\ Unit \in Nat /\ pRate \in Nat
            BY <1>3, <1>11
        <3> HIDE DEF tokens, refill, left, c
        <3> QED BY <1>1, <1>4, <1>5, <3>1, TakeAccount
    <2>3. TypeOK'
        BY <1>1, <1>7, <1>10, <2>1 DEF LimiterInv, TypeOK
    <2>4. Accounts'
        BY <1>1, <1>7, <2>1, <2>2 DEF LimiterInv, TypeOK, Accounts, Account
    <2> QED BY <1>9, <2>3, <2>4 DEF LimiterInv
<1>12. CASE ~(tokens >= Unit)
    <2>1. granted' = granted /\ Refused(s, Wait(tokens, pRate))
        BY <1>12 DEF takePerChat
    <2>2. Wait(tokens, pRate) \in Int
        BY <1>3 DEF Wait
    <2>3. /\ pc' \in [Senders -> {"idle", "global", "chat", "wait", "send"}]
          /\ due' \in [Senders -> Nat]
        BY <2>1, <2>2, RefusedType DEF LimiterInv
    <2>4. TypeOK'
        BY <1>7, <1>10, <2>1, <2>3 DEF LimiterInv, TypeOK
    <2>5. Accounts'
        BY <1>1, <1>5, <1>7, <1>12, <2>1 DEF LimiterInv, TypeOK, Accounts, Account
    <2> QED BY <1>9, <2>4, <2>5 DEF LimiterInv
<1> QED BY <1>11, <1>12

\* Every step of the limiter and the dispatcher keeps the invariant.
LEMMA NextInv == LimiterInv /\ [Next]_vars => LimiterInv'
<1> SUFFICES ASSUME LimiterInv, [Next]_vars PROVE LimiterInv'
    OBVIOUS
<1> USE LimiterAssumption
<1>1. CASE Tick
    <2>1. clock' \in 0..MaxTime /\ clock' = clock + 1
        BY <1>1 DEF LimiterInv, TypeOK, Tick
    <2>2. TypeOK'
        BY <1>1, <2>1 DEF LimiterInv, TypeOK, Tick, gVars, pVars
    <2>3. Past' /\ Accounts'
        BY <1>1, <2>1 DEF LimiterInv, TypeOK, Past, Accounts, Account, Tick, gVars, pVars
    <2> QED BY <2>2, <2>3 DEF LimiterInv
<1>2. ASSUME NEW s \in Senders, NEW c \in Chats, Allow(s, c) PROVE LimiterInv'
    <2>1. TypeOK'
        BY <1>2 DEF LimiterInv, TypeOK, Allow, Goto, gVars, pVars
    <2>2. Past'
        BY <1>2 DEF LimiterInv, TypeOK, Past, Allow, gVars, pVars
    <2>3. Accounts'
        BY <1>2 DEF LimiterInv, Accounts, Account, Allow, gVars, pVars
    <2> QED BY <2>1, <2>2, <2>3 DEF LimiterInv
<1>3. ASSUME NEW s \in Senders, takeGlobal(s) PROVE LimiterInv'
    BY <1>3, GlobalStep
<1>4. ASSUME NEW s \in Senders, takePerChat(s) PROVE LimiterInv'
    BY <1>4, ChatStep
<1>5. ASSUME NEW s \in Senders, Timer(s) \/ Cancel(s) \/ SendMessage(s) PROVE LimiterInv'
    <2>1. TypeOK'
        <3>1. CASE Timer(s)
            BY <3>1 DEF LimiterInv, TypeOK, Timer, Goto, gVars, pVars
        <3>2. CASE Cancel(s)
            BY <3>2 DEF LimiterInv, TypeOK, Cancel, Goto, gVars, pVars
        <3>3. CASE SendMessage(s)
            BY <3>3 DEF LimiterInv, TypeOK, SendMessage, Goto, gVars, pVars
        <3> QED BY <1>5, <3>1, <3>2, <3>3
    <2>2. Past' /\ Accounts'
        BY <1>5 DEF LimiterInv, Past, Accounts, Account, Timer, Cancel, SendMessage, gVars, pVars
    <2> QED BY <2>1, <2>2 DEF LimiterInv
<1>6. CASE UNCHANGED vars
    BY <1>6 DEF LimiterInv, TypeOK, Past, Accounts, Account, vars, gVars, pVars
<1> QED BY <1>1, <1>2, <1>3, <1>4, <1>5, <1>6 DEF Next

\* The invariant gives the rate: what a bucket still holds is not negative, and
\* its last refill is not after the clock.
LEMMA InvWithinRate == LimiterInv => WithinRate
<1> SUFFICES ASSUME LimiterInv PROVE WithinRate
    OBVIOUS
<1> USE LimiterAssumption
<1>1. taken * Unit <= gBurst + gRate * clock
    <2>1. gRate * gRefill <= gRate * clock
        BY Monotone DEF LimiterInv, TypeOK, Past
    <2>2. /\ taken * Unit \in Int /\ gRate * gRefill \in Int /\ gRate * clock \in Int
          /\ gTokens \in Nat
        BY DEF LimiterInv, TypeOK
    <2>3. taken * Unit + gTokens <= gBurst + gRate * gRefill
        BY DEF LimiterInv, Accounts, Account
    <2> QED BY <2>1, <2>2, <2>3
<1>2. ASSUME NEW c \in Chats PROVE granted[c] * Unit <= pBurst + pRate * clock
    <2>1. CASE per[c].known
        <3>1. per[c].refill \in Nat /\ per[c].tokens \in Nat /\ granted[c] \in Nat /\ clock \in Nat
            BY DEF LimiterInv, TypeOK
        <3>2. pRate * per[c].refill <= pRate * clock
            BY <3>1, Monotone DEF LimiterInv, Past
        <3>3. granted[c] * Unit + per[c].tokens <= pBurst + pRate * per[c].refill
            BY <2>1 DEF LimiterInv, Accounts, Account
        <3>4. /\ granted[c] * Unit \in Int /\ pRate * per[c].refill \in Int
              /\ pRate * clock \in Int
            BY <3>1
        <3> QED BY <3>1, <3>2, <3>3, <3>4
    <2>2. CASE ~per[c].known
        <3>1. granted[c] = 0
            BY <2>2 DEF LimiterInv, Accounts
        <3>2. 0 * Unit = 0 /\ pRate * clock \in Nat
            BY DEF LimiterInv, TypeOK
        <3> QED BY <3>1, <3>2
    <2> QED BY <2>1, <2>2
<1> QED BY <1>1, <1>2 DEF WithinRate

\* The invariant holds always.
THEOREM LimiterInvariance == Spec => []LimiterInv
    BY InitInv, NextInv, PTL DEF Spec

\* No bucket of the limiter is overdrawn or above its burst (TypeOK).
THEOREM LimiterTypes == Spec => []TypeOK
<1>1. LimiterInv => TypeOK
    BY DEF LimiterInv
<1> QED BY <1>1, LimiterInvariance, PTL

\* The limiter keeps within its rates (WithinRate), whatever the interleaving of
\* takeGlobal and takePerChat.
THEOREM LimiterKeepsRate == Spec => []WithinRate
    BY InvWithinRate, LimiterInvariance, PTL
=============================================================================
