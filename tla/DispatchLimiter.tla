-------------------------- MODULE DispatchLimiter --------------------------
(***************************************************************************)
(* The limiter in front of Telegram (internal/dispatch/telegram/           *)
(* dispatch_limiter.go) and what the Dispatcher does with its decision     *)
(* (dispatcher.go): a bucket for the bot and one per chat, each under a    *)
(* mutex of its own, asked by concurrent requests that read the clock      *)
(* before they take the mutex.                                             *)
(*                                                                         *)
(* Time is counted in ticks and tokens in credits, Unit of them to a       *)
(* message, so that rates are integers. The arithmetic is exact where the  *)
(* code's is float64; the wait is cut off to whole ticks as the code's is  *)
(* to whole nanoseconds.                                                   *)
(***************************************************************************)
EXTENDS Integers

CONSTANTS
    Senders,  \* goroutines calling Dispatcher.Send
    Chats,    \* limiter keys
    Unit,     \* credits one message costs
    gRate,    \* credits per tick of the global bucket
    gBurst,   \* its capacity, in credits
    pRate,    \* credits per tick of a chat's bucket
    pBurst,   \* its capacity
    MaxTime   \* bound: ticks

ASSUME LimiterAssumption ==
    /\ Unit \in Nat \ {0} /\ gRate \in Nat \ {0} /\ pRate \in Nat \ {0}
    /\ gBurst \in Nat /\ pBurst \in Nat /\ MaxTime \in Nat

VARIABLES
    clock,    \* time
    gTokens,  \* the global bucket
    gRefill,  \* and when it was last filled
    per,      \* per[c]: bucket of chat c, known when it is in the map
    pc,       \* pc[s]: where sender s is in Send
    chat,     \* chat[s]: the chat it sends to
    now,      \* now[s]: the clock as Allow read it
    due,      \* due[s]: when its timer fires
    taken,    \* history: global tokens taken
    granted,  \* history: granted[c] counts the sends to c that were allowed
    sent      \* history: calls of SendMessage

gVars == <<gTokens, gRefill, taken>>
pVars == <<per, granted>>
vars == <<clock, gVars, pVars, pc, chat, now, due, sent>>

-----------------------------------------------------------------------------
Least(a, b) == IF a <= b THEN a ELSE b

\* A bucket grows with the time since its last refill, up to its burst.
Filled(tokens, elapsed, rate, burst) ==
    IF elapsed > 0 THEN Least(tokens + elapsed * rate, burst) ELSE tokens

\* Mutant: the time of the refill is not recorded.
RefilledNever(refill, t) == refill

\* A caller whose clock is older than the last refill leaves the time alone.
Refilled(refill, t) == IF t - refill > 0 THEN t ELSE refill

\* How long until one token is there.
Wait(tokens, rate) == (Unit - tokens) \div rate

Goto(s, l) == pc' = [pc EXCEPT ![s] = l]

\* The dispatcher waits for RetryAfter, or gives up when that is zero.
Refused(s, wait) ==
    IF wait > 0 THEN Goto(s, "wait") /\ due' = [due EXCEPT ![s] = clock + wait]
    ELSE Goto(s, "idle") /\ UNCHANGED due

-----------------------------------------------------------------------------
\* Send is called for chat c; Allow reads the clock.
Allow(s, c) ==
    /\ pc[s] = "idle"
    /\ chat' = [chat EXCEPT ![s] = c]
    /\ now' = [now EXCEPT ![s] = clock]
    /\ Goto(s, "global")
    /\ UNCHANGED <<clock, gVars, pVars, due, sent>>

takeGlobal(s) ==
    /\ pc[s] = "global"
    /\ LET tokens == Filled(gTokens, now[s] - gRefill, gRate, gBurst) IN
       /\ gRefill' = Refilled(gRefill, now[s])
       /\ IF tokens >= Unit
          THEN gTokens' = tokens - Unit /\ taken' = taken + 1 /\ Goto(s, "chat") /\ UNCHANGED due
          ELSE gTokens' = tokens /\ Refused(s, Wait(tokens, gRate)) /\ UNCHANGED taken
    /\ UNCHANGED <<clock, pVars, chat, now, sent>>

\* The bucket of c, made full for its first caller.
Bucket(c, t) == IF per[c].known THEN per[c]
                ELSE [known |-> TRUE, tokens |-> pBurst, refill |-> t]

\* The global token is spent whatever the chat's bucket says.
takePerChat(s) ==
    /\ pc[s] = "chat"
    /\ LET c == chat[s]
           b == Bucket(c, now[s])
           tokens == Filled(b.tokens, now[s] - b.refill, pRate, pBurst)
           left == IF tokens >= Unit THEN tokens - Unit ELSE tokens IN
       /\ per' = [per EXCEPT ![c] = [known |-> TRUE, tokens |-> left,
                                     refill |-> Refilled(b.refill, now[s])]]
       /\ IF tokens >= Unit
          THEN granted' = [granted EXCEPT ![c] = @ + 1] /\ Goto(s, "send") /\ UNCHANGED due
          ELSE Refused(s, Wait(tokens, pRate)) /\ UNCHANGED granted
    /\ UNCHANGED <<clock, gVars, chat, now, sent>>

\* The timer has fired; Send goes on without asking again.
Timer(s) ==
    /\ pc[s] = "wait" /\ clock >= due[s]
    /\ Goto(s, "send")
    /\ UNCHANGED <<clock, gVars, pVars, chat, now, due, sent>>

\* ctx.Done() while waiting.
Cancel(s) ==
    /\ pc[s] = "wait"
    /\ Goto(s, "idle")
    /\ UNCHANGED <<clock, gVars, pVars, chat, now, due, sent>>

SendMessage(s) ==
    /\ pc[s] = "send"
    /\ sent' = sent + 1
    /\ Goto(s, "idle")
    /\ UNCHANGED <<clock, gVars, pVars, chat, now, due>>

Tick ==
    /\ clock < MaxTime
    /\ clock' = clock + 1
    /\ UNCHANGED <<gVars, pVars, pc, chat, now, due, sent>>

Init ==
    /\ clock = 0
    /\ gTokens = gBurst /\ gRefill = 0 /\ taken = 0
    /\ per = [c \in Chats |-> [known |-> FALSE, tokens |-> 0, refill |-> 0]]
    /\ granted = [c \in Chats |-> 0]
    /\ pc = [s \in Senders |-> "idle"]
    /\ chat \in [Senders -> Chats]
    /\ now = [s \in Senders |-> 0] /\ due = [s \in Senders |-> 0]
    /\ sent = 0

Next ==
    \/ Tick
    \/ \E s \in Senders :
       \/ \E c \in Chats : Allow(s, c)
       \/ takeGlobal(s) \/ takePerChat(s) \/ Timer(s) \/ Cancel(s) \/ SendMessage(s)

Spec == Init /\ [][Next]_vars

-----------------------------------------------------------------------------
(* Properties. *)

\* The type of the state: no bucket is ever overdrawn or above its burst.
TypeOK ==
    /\ clock \in 0..MaxTime
    /\ gTokens \in 0..gBurst /\ gRefill \in Nat
    /\ per \in [Chats -> [known : BOOLEAN, tokens : 0..pBurst, refill : Nat]]
    /\ pc \in [Senders -> {"idle", "global", "chat", "wait", "send"}]
    /\ chat \in [Senders -> Chats]
    /\ now \in [Senders -> Nat] /\ due \in [Senders -> Nat]
    /\ taken \in Nat /\ granted \in [Chats -> Nat] /\ sent \in Nat

\* However the callers' clock readings and mutexes interleave, stale readings
\* included, the limiter never allows more than the burst and what the rate
\* gave since it was made, for the bot (takeGlobal) and for each chat
\* (takePerChat).
WithinRate ==
    /\ taken * Unit <= gBurst + gRate * clock
    /\ \A c \in Chats : granted[c] * Unit <= pBurst + pRate * clock

\* Telegram is called no more often than the global bucket allows (the rate
\* limit of the design's pre-mortem, Dispatcher.Send).
SentWithinRate == sent * Unit <= gBurst + gRate * clock
=============================================================================
