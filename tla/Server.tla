------------------------------- MODULE Server -------------------------------
(***************************************************************************)
(* The life of the API process (cmd/server/main.go, internal/api/server.go,*)
(* internal/bot/poller.go): HTTP requests and the bot's update loop share  *)
(* one connection pool, wait for each other's row and audit locks, and are *)
(* drained when the process is told to stop.                               *)
(*                                                                         *)
(* Statements are abstracted to the resources they need.  A request is a   *)
(* walk through stages; most stages are an operation that takes one        *)
(* connection and gives it back (for an audit write, with the chain lock   *)
(* held in between), and an admin handler keeps a second connection for    *)
(* its transaction.  The timeouts are actions without a clock.             *)
(***************************************************************************)
EXTENDS Integers, FiniteSets

CONSTANTS
    Requests,   \* requests the HTTP server works on at a time
    Bot,        \* the poller goroutine
    Nobody,     \* a free lock
    Conns       \* MaxConns of the pool

ASSUME ServerAssumption ==
    /\ IsFiniteSet(Requests)
    /\ Bot \notin Requests
    /\ Nobody \notin Requests \union {Bot}
    /\ Conns \in Nat \ {0}

Actors == Requests \union {Bot}

VARIABLES
    main,       \* where run() stands
    pool,       \* the pool takes Acquire calls ("open") or is being closed
    pc,         \* pc[a]: stage of a request, state of the poller
    op,         \* op[a]: what the operation of a's stage has: "none", "conn", "chain"
    tx,         \* requests that hold the connection of a transaction
    rowLock,    \* who holds the row (or the unique key) of the app
    chainLock,  \* who holds the advisory lock of the audit chain
    live        \* actors whose context has not ended

vars == <<main, pool, pc, op, tx, rowLock, chainLock, live>>

-----------------------------------------------------------------------------
(* The pool and the stages. *)

Held == Cardinality({a \in Actors : op[a] # "none"}) + Cardinality(tx)

CanAcquire(a) == pool = "open" /\ a \in live /\ Held < Conns

\* Stages that write an audit row, and those that run another statement.
AuditStages == {"received", "reject", "deny", "validated", "delivered", "report"}
OpStages == AuditStages \union {"ping", "auth", "query", "update"}

\* What may follow the operation of a stage: the checks between two
\* operations, rate limit and capability included, only choose among these.
Then(s) ==
    CASE s = "ping"      -> {"answered"}
      [] s = "auth"      -> {"received", "reject", "answered"}
      [] s = "received"  -> {"query", "begin", "reject", "answered"}
      [] s = "query"     -> {"validated", "reject"}
      [] s = "validated" -> {"delivered", "answered"}
      [] s = "delivered" -> {"answered"}
      [] s = "reject"    -> {"answered"}
      [] s = "deny"      -> {"answered"}
      [] s = "update"    -> {"report", "polling"}
      [] s = "report"    -> {"polling"}

\* The same when the operation fails: an audit error is logged and the
\* handler goes on (or answers audit_unavailable), a failed statement is
\* answered with a denial.
OnError(s) ==
    CASE s \in {"auth", "query"} -> {"reject"}
      [] s = "update"           -> {"polling"}
      [] OTHER                  -> Then(s)

-----------------------------------------------------------------------------
(* One operation: Acquire, the chain lock if it is an audit write, the      *)
(* statement, Release.                                                      *)

Acquire(a) ==
    /\ pc[a] \in OpStages /\ op[a] = "none" /\ CanAcquire(a)
    /\ op' = [op EXCEPT ![a] = "conn"]
    /\ UNCHANGED <<main, pool, pc, tx, rowLock, chainLock, live>>

LockChain(a) ==
    /\ pc[a] \in AuditStages /\ op[a] = "conn" /\ chainLock = Nobody
    /\ a \in live
    /\ op' = [op EXCEPT ![a] = "chain"]
    /\ chainLock' = a
    /\ UNCHANGED <<main, pool, pc, tx, rowLock, live>>

Unlocked(lock, a) == IF lock = a THEN Nobody ELSE lock

\* Mutant: the handler returns without the deferred Rollback.
LeaveWithoutRollback(a, s) ==
    /\ pc' = [pc EXCEPT ![a] = s]
    /\ op' = [op EXCEPT ![a] = "none"]
    /\ chainLock' = Unlocked(chainLock, a)
    /\ UNCHANGED <<main, pool, live, tx, rowLock>>

\* A stage ends in stage s: its operation gives back what it took; when the
\* handler returns, the deferred Rollback ends the transaction.
Leave(a, s) ==
    /\ pc' = [pc EXCEPT ![a] = s]
    /\ op' = [op EXCEPT ![a] = "none"]
    /\ chainLock' = Unlocked(chainLock, a)
    /\ tx' = IF s = "answered" THEN tx \ {a} ELSE tx
    /\ rowLock' = IF s = "answered" THEN Unlocked(rowLock, a) ELSE rowLock
    /\ UNCHANGED <<main, pool, live>>

Finish(a) ==
    /\ pc[a] \in OpStages /\ a \in live
    /\ op[a] = IF pc[a] \in AuditStages THEN "chain" ELSE "conn"
    /\ \E s \in Then(pc[a]) : Leave(a, s)

\* The context has ended, or the pool is closed and a connection is needed.
Fail(a) ==
    /\ pc[a] \in OpStages
    /\ a \notin live \/ (pool = "closed" /\ op[a] = "none")
    /\ \E s \in OnError(pc[a]) : Leave(a, s)

-----------------------------------------------------------------------------
(* Requests. *)

Running(r) == pc[r] \notin {"idle", "answered"}

\* The listener accepts until Shutdown.  /healthz pings the pool under 2 s,
\* every other route runs under HandlerTimeout.
Accept(r) ==
    /\ main \in {"serving", "botDrain"} /\ ~Running(r)
    /\ \E s \in {"ping", "auth"} : pc' = [pc EXCEPT ![r] = s]
    /\ live' = live \union {r}
    /\ UNCHANGED <<main, pool, op, tx, rowLock, chainLock>>

\* Mutant: the group of routes is mounted without chimw.Timeout; only the
\* ping has a deadline.
DeadlineOfPing(r) ==
    /\ pc[r] = "ping" /\ r \in live
    /\ live' = live \ {r}
    /\ UNCHANGED <<main, pool, pc, op, tx, rowLock, chainLock>>

\* The timeout of the route passes, or the client goes away.
Deadline(r) ==
    /\ Running(r) /\ r \in live
    /\ live' = live \ {r}
    /\ UNCHANGED <<main, pool, pc, op, tx, rowLock, chainLock>>

\* h.Pool.Begin of Create, Patch, Delete and Purge.
Begin(r) ==
    /\ pc[r] = "begin" /\ CanAcquire(r)
    /\ tx' = tx \union {r}
    /\ pc' = [pc EXCEPT ![r] = "tx"]
    /\ UNCHANGED <<main, pool, op, rowLock, chainLock, live>>

BeginFails(r) ==
    /\ pc[r] = "begin" /\ (r \notin live \/ pool = "closed")
    /\ pc' = [pc EXCEPT ![r] = "reject"]
    /\ UNCHANGED <<main, pool, op, tx, rowLock, chainLock, live>>

\* SELECT ... FOR UPDATE, or the INSERT that waits for the same new id.
LockRow(r) ==
    /\ pc[r] = "tx" /\ rowLock = Nobody /\ r \in live
    /\ rowLock' = r
    /\ pc' = [pc EXCEPT ![r] = "mutate"]
    /\ UNCHANGED <<main, pool, op, tx, chainLock, live>>

\* app_already_exists, app_not_found or db_error: deny writes its audit row
\* while the transaction is still open.
DenyInTx(r) ==
    /\ pc[r] \in {"tx", "mutate"}
    /\ pc' = [pc EXCEPT ![r] = "deny"]
    /\ UNCHANGED <<main, pool, op, tx, rowLock, chainLock, live>>

\* Mutant: success is audited before the transaction is committed.
CommitAfterAudit(r) ==
    /\ pc[r] = "mutate"
    /\ \E s \in {"validated", "reject"} :
          /\ s = "validated" => r \in live
          /\ pc' = [pc EXCEPT ![r] = s]
    /\ UNCHANGED <<main, pool, op, tx, rowLock, chainLock, live>>

\* Commit gives the connection back whether it succeeds or not.
Commit(r) ==
    /\ pc[r] = "mutate"
    /\ \E s \in {"validated", "reject"} :
          /\ s = "validated" => r \in live
          /\ pc' = [pc EXCEPT ![r] = s]
    /\ tx' = tx \ {r}
    /\ rowLock' = Unlocked(rowLock, r)
    /\ UNCHANGED <<main, pool, op, chainLock, live>>

-----------------------------------------------------------------------------
(* The bot poller. *)

\* UpdatesViaLongPolling fails: Run returns and the server goes on without it.
PollerFails ==
    /\ main # "exited" /\ pc[Bot] = "starting"
    /\ pc' = [pc EXCEPT ![Bot] = "done"]
    /\ UNCHANGED <<main, pool, op, tx, rowLock, chainLock, live>>

PollerStarts ==
    /\ main # "exited" /\ pc[Bot] = "starting"
    /\ pc' = [pc EXCEPT ![Bot] = "polling"]
    /\ UNCHANGED <<main, pool, op, tx, rowLock, chainLock, live>>

Handling == pc[Bot] \in {"update", "report"}

\* An update of the channel; after botCancel those telego fetched ahead are
\* still ranged over, with the cancelled context.
BotUpdate ==
    /\ main # "exited" /\ pc[Bot] = "polling"
    /\ pc' = [pc EXCEPT ![Bot] = "update"]
    /\ UNCHANGED <<main, pool, op, tx, rowLock, chainLock, live>>

\* telego closes the channel once the context is cancelled.
PollerStops ==
    /\ pc[Bot] = "polling" /\ Bot \notin live
    /\ pc' = [pc EXCEPT ![Bot] = "done"]
    /\ UNCHANGED <<main, pool, op, tx, rowLock, chainLock, live>>

-----------------------------------------------------------------------------
(* run(). *)

MainStep(from, to) == main = from /\ main' = to /\ UNCHANGED <<op, tx, rowLock, chainLock>>

\* waitForDB: the ping succeeds, or thirty seconds pass.
PingOk == MainStep("waitDB", "serving") /\ pc' = [pc EXCEPT ![Bot] = "starting"]
          /\ UNCHANGED <<pool, live>>

PingTimeout == MainStep("waitDB", "closing") /\ pool' = "closed"
               /\ UNCHANGED <<pc, live>>

\* SIGTERM: botCancel.
Signal == MainStep("serving", "botDrain") /\ live' = live \ {Bot}
          /\ UNCHANGED <<pool, pc>>

\* ListenAndServe fails: run returns, and the deferred calls run at once.
ListenError == MainStep("serving", "closing") /\ live' = live \ {Bot}
               /\ pool' = "closed" /\ UNCHANGED pc

BotDrained == MainStep("botDrain", "httpDrain") /\ pc[Bot] = "done"
              /\ UNCHANGED <<pool, pc, live>>

BotDrainTimeout == MainStep("botDrain", "httpDrain") /\ pc[Bot] # "done"
                   /\ UNCHANGED <<pool, pc, live>>

\* srv.Shutdown returns when no request is running; then pool.Close begins.
HttpDrained == MainStep("httpDrain", "closing") /\ (\A r \in Requests : ~Running(r))
               /\ pool' = "closed" /\ UNCHANGED <<pc, live>>

HttpDrainTimeout == MainStep("httpDrain", "closing") /\ (\E r \in Requests : Running(r))
                    /\ pool' = "closed" /\ UNCHANGED <<pc, live>>

\* pool.Close returns when every connection is back, and the process ends.
Exit == MainStep("closing", "exited") /\ Held = 0 /\ UNCHANGED <<pool, pc, live>>

-----------------------------------------------------------------------------
Init ==
    /\ main = "waitDB" /\ pool = "open"
    /\ pc = [a \in Actors |-> "idle"]
    /\ op = [a \in Actors |-> "none"]
    /\ tx = {} /\ rowLock = Nobody /\ chainLock = Nobody
    /\ live = {Bot}

OpStep(a) == Acquire(a) \/ LockChain(a) \/ Finish(a) \/ Fail(a)

TxStep(r) == Begin(r) \/ BeginFails(r) \/ LockRow(r) \/ DenyInTx(r) \/ Commit(r)

PollerStep == PollerFails \/ PollerStarts \/ BotUpdate \/ PollerStops

Stopping ==
    \/ Signal \/ ListenError \/ BotDrained \/ BotDrainTimeout
    \/ HttpDrained \/ HttpDrainTimeout \/ Exit

Next ==
    \/ main # "exited" /\ \E a \in Actors : OpStep(a)
    \/ main # "exited" /\ \E r \in Requests : Accept(r) \/ Deadline(r) \/ TxStep(r)
    \/ main # "exited" /\ PollerStep
    \/ PingOk \/ PingTimeout \/ Stopping
    \/ main = "exited" /\ UNCHANGED vars

\* Deadlines pass, an actor whose context has ended gets its error, the
\* database executes what it was sent, and run() goes on when it can.
\* Connections and both locks are handed out in the order they were asked for.
Fairness ==
    /\ \A r \in Requests :
          /\ WF_vars(main # "exited" /\ Deadline(r))
          /\ WF_vars(main # "exited" /\ (BeginFails(r) \/ Commit(r)))
          /\ WF_vars(main # "exited" /\ r \notin live /\ DenyInTx(r))
    /\ \A a \in Actors :
          /\ WF_vars(main # "exited" /\ (Finish(a) \/ Fail(a)))
          /\ SF_vars(main # "exited" /\ (Acquire(a) \/ LockChain(a)))
    /\ WF_vars(main # "exited" /\ PollerStops)
    /\ WF_vars(BotDrained \/ BotDrainTimeout)
    /\ WF_vars(HttpDrained \/ HttpDrainTimeout)
    /\ WF_vars(Exit)

Spec == Init /\ [][Next]_vars /\ Fairness

-----------------------------------------------------------------------------
(* Properties. *)

\* Type invariant.
TypeOK ==
    /\ main \in {"waitDB", "serving", "botDrain", "httpDrain", "closing", "exited"}
    /\ pool \in {"open", "closed"}
    /\ pc \in [Actors -> OpStages \union
                 {"idle", "answered", "begin", "tx", "mutate", "starting", "polling", "done"}]
    /\ op \in [Actors -> {"none", "conn", "chain"}]
    /\ tx \subseteq Requests
    /\ rowLock \in Requests \union {Nobody}
    /\ chainLock \in Actors \union {Nobody}
    /\ live \subseteq Actors
    /\ Held <= Conns

\* What is taken is given back, on every path out of a handler: a request that
\* was answered and a poller between two updates hold no connection, transaction
\* or lock.  And the waits form no circle of locks: a request needs a second
\* connection only while it denies inside its transaction, and whoever has the
\* chain lock waits for nobody, with the row lock held or without (deferred
\* Rollback and Release, deny in admin_apps.go, PgWriter.Write).
LocksReleased ==
    /\ \A r \in Requests : ~Running(r) =>
          op[r] = "none" /\ r \notin tx /\ rowLock # r /\ chainLock # r
    /\ ~Handling => op[Bot] = "none" /\ chainLock # Bot
    /\ \A r \in tx : op[r] # "none" => pc[r] = "deny"
    /\ \A a \in Actors : chainLock = a => op[a] = "chain" /\ pc[a] \in AuditStages
    /\ \A r \in Requests : rowLock = r => pc[r] \in {"mutate", "deny"}

\* Every request is answered and every update the bot has begun is handled to
\* its end, although requests that deny inside a transaction can hold all the
\* connections and each wait for one more, and the bot's context has no
\* deadline of its own: HandlerTimeout ends the requests' contexts
\* (admin_apps.go deny, server.go HandlerTimeout, poller.go dispatch).
WorkEnds ==
    /\ \A r \in Requests : Running(r) ~> (~Running(r) \/ main = "exited")
    /\ Handling ~> (~Handling \/ main = "exited")

\* A process that was told to stop stops: pool.Close, which has no timeout of
\* its own, gets every connection back (main.go, the deferred calls of run).
ServerStops == (main \in {"botDrain", "closing"}) ~> main = "exited"

\* "Tear down bot poller first so in-flight updates can finish their audit
\* writes against the still-open DB pool" (main.go).
InflightUpdatesFinish ==
    [][main = "botDrain" /\ pc[Bot] = "report" /\ pc'[Bot] # "report"
         => op[Bot] = "chain"]_vars

\* SIGTERM drops no request in flight (docs/planning/prd.md, REL-AC-2).
ZeroInflightDrops == main = "exited" => \A r \in Requests : ~Running(r)
=============================================================================
