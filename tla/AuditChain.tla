----------------------------- MODULE AuditChain -----------------------------
(***************************************************************************)
(* The hash-chained audit log: concurrent PgWriter.Write transactions      *)
(* (internal/audit/writer.go), the chain walk of VerifyChain over one      *)
(* statement snapshot (internal/audit/chain.go, internal/adminui/store.go, *)
(* handleAuditVerify) and direct edits of the table.                       *)
(*                                                                         *)
(* SHA-256 is modelled as collision free: a hash is the sequence of the    *)
(* payloads that were hashed into it, so two hashes are equal only when    *)
(* the histories behind them are.                                          *)
(***************************************************************************)
EXTENDS Integers, Sequences, FiniteSets

CONSTANTS
    Writers,    \* concurrent callers of Write (handlers, bot, admin UI)
    NoWriter,   \* the advisory lock is free
    Events,     \* event contents, told apart only by identity
    MaxId,      \* bound: BIGSERIAL values handed out
    MaxClock    \* bound: transactions begun

ASSUME AuditAssumption ==
    /\ NoWriter \notin Writers
    /\ Events # {}
    /\ MaxId \in Nat
    /\ MaxClock \in Nat

VARIABLES
    table,    \* committed rows of audit_log
    nextId,   \* next value of the id sequence; never rolled back
    clock,    \* database clock: now() of the next transaction
    lock,     \* holder of pg_advisory_xact_lock(ChainLockKey)
    pc,       \* pc[w]: where writer w's transaction stands
    job,      \* job[w]: what w is writing; the uncommitted row once inserted
    outcome,  \* outcome[w]: what w's last Write returned
    verify,   \* the verification run
    tamper    \* "none", "inner" (edit, or a row other than the newest), "tail"

writerVars == <<table, nextId, clock, lock, pc, job, outcome>>
vars == <<table, nextId, clock, lock, pc, job, outcome, verify, tamper>>

-----------------------------------------------------------------------------
(* Hashes and rows. *)

GenesisHash == <<>>

\* The canonical payload covers every column but the id and the two hashes.
Payload(r) == <<r.ev, r.at>>

ComputeRowHash(prev, payload) == Append(prev, payload)

Payloads == Events \X Nat
Hashes == Seq(Payloads)
Rows == [id : Nat \ {0}, at : Nat, ev : Events, prev : Hashes, hash : Hashes]

\* h is what "SELECT row_hash ... ORDER BY id DESC LIMIT 1" yields, or genesis.
IsHead(T, h) ==
    \/ T = {} /\ h = GenesisHash
    \/ \E r \in T : h = r.hash /\ \A s \in T : s.id <= r.id

HeadHashes(T) == {h \in {GenesisHash} \union {r.hash : r \in T} : IsHead(T, h)}

-----------------------------------------------------------------------------
(* PgWriter.Write: BEGIN, lock, chained INSERT, COMMIT. *)

\* pool.Begin; now() is fixed here, before the lock is asked for.
Begin(w, e) ==
    /\ pc[w] = "idle" /\ clock <= MaxClock
    /\ job' = [job EXCEPT ![w] = [at |-> clock, ev |-> e, rows |-> {}]]
    /\ clock' = clock + 1
    /\ pc' = [pc EXCEPT ![w] = "begun"]
    /\ outcome' = [outcome EXCEPT ![w] = "pending"]
    /\ UNCHANGED <<table, nextId, lock, verify, tamper>>

\* Mutant: the lock statement does not exclude other writers.
LockShared(w) ==
    /\ pc[w] = "begun"
    /\ lock' = w
    /\ pc' = [pc EXCEPT ![w] = "locked"]
    /\ UNCHANGED <<table, nextId, clock, job, outcome, verify, tamper>>

\* pg_advisory_xact_lock: blocks until no transaction holds the key.
Lock(w) ==
    /\ pc[w] = "begun" /\ lock = NoWriter
    /\ lock' = w
    /\ pc' = [pc EXCEPT ![w] = "locked"]
    /\ UNCHANGED <<table, nextId, clock, job, outcome, verify, tamper>>

\* The row the statement inserts; its payload is hashed onto prev_hash.
NewRow(w, p) ==
    [id |-> nextId, at |-> job[w].at, ev |-> job[w].ev, prev |-> p,
     hash |-> ComputeRowHash(p, <<job[w].ev, job[w].at>>)]

\* insertChainedQuery: READ COMMITTED, so the statement sees every row that
\* was committed when it starts, and none that is not.
Insert(w) ==
    /\ pc[w] = "locked" /\ nextId <= MaxId
    /\ \E p \in HeadHashes(table) :
          job' = [job EXCEPT ![w].rows = {NewRow(w, p)}]
    /\ nextId' = nextId + 1
    /\ pc' = [pc EXCEPT ![w] = "inserted"]
    /\ UNCHANGED <<table, clock, lock, outcome, verify, tamper>>

Release(w) == lock' = IF lock = w THEN NoWriter ELSE lock

\* COMMIT reaches the database; the caller sees nil, or an error when only
\* the answer is lost (cancelled context, broken connection).
Commit(w) ==
    /\ pc[w] = "inserted"
    /\ table' = table \union job[w].rows
    /\ Release(w)
    /\ pc' = [pc EXCEPT ![w] = "idle"]
    /\ \E o \in {"ok", "error"} : outcome' = [outcome EXCEPT ![w] = o]
    /\ UNCHANGED <<nextId, clock, job, verify, tamper>>

\* Mutant: the deferred Rollback runs and nil is returned all the same.
AbortReportsOk(w) ==
    /\ pc[w] # "idle"
    /\ Release(w)
    /\ pc' = [pc EXCEPT ![w] = "idle"]
    /\ outcome' = [outcome EXCEPT ![w] = "ok"]
    /\ UNCHANGED <<table, nextId, clock, job, verify, tamper>>

\* Any statement fails, the context ends or the process dies: the deferred
\* Rollback (or the server) ends the transaction and frees the lock.
Abort(w) ==
    /\ pc[w] # "idle"
    /\ Release(w)
    /\ pc' = [pc EXCEPT ![w] = "idle"]
    /\ outcome' = [outcome EXCEPT ![w] = "error"]
    /\ UNCHANGED <<table, nextId, clock, job, verify, tamper>>

-----------------------------------------------------------------------------
(* handleAuditVerify / VerifyAuditChain / VerifyChain. *)

NoVerify == [state |-> "idle", snap |-> {}, cursor |-> 0, running |-> GenesisHash,
             rows |-> 0, tamper |-> "none"]

\* The query is one statement: the whole walk reads its snapshot.
VerifyStart ==
    /\ verify.state # "walking"
    /\ verify' = [NoVerify EXCEPT !.state = "walking", !.snap = table,
                                  !.tamper = tamper]
    /\ UNCHANGED <<writerVars, tamper>>

\* r is the row rows.Next() yields: ORDER BY id.
IsNextRow(r) ==
    /\ r.id > verify.cursor
    /\ \A s \in verify.snap : s.id > verify.cursor => r.id <= s.id

\* Mutant: only row_hash is compared, against the stored prev_hash.
RowCleanIgnoringPrev(r) == r.hash = ComputeRowHash(r.prev, Payload(r))

RowClean(r) ==
    /\ r.prev = verify.running
    /\ r.hash = ComputeRowHash(verify.running, Payload(r))

\* Mutant: running is not advanced to the row just verified.
VerifyRowStuck ==
    /\ verify.state = "walking"
    /\ \E r \in verify.snap :
          /\ IsNextRow(r)
          /\ verify' =
                IF RowClean(r)
                THEN [verify EXCEPT !.cursor = r.id, !.rows = @ + 1]
                ELSE [verify EXCEPT !.state = "break"]
    /\ UNCHANGED <<writerVars, tamper>>

VerifyRow ==
    /\ verify.state = "walking"
    /\ \E r \in verify.snap :
          /\ IsNextRow(r)
          /\ verify' =
                IF RowClean(r)
                THEN [verify EXCEPT !.running = r.hash, !.cursor = r.id,
                                    !.rows = @ + 1]
                ELSE [verify EXCEPT !.state = "break"]
    /\ UNCHANGED <<writerVars, tamper>>

VerifyEnd ==
    /\ verify.state = "walking"
    /\ \A r \in verify.snap : r.id <= verify.cursor
    /\ verify' = [verify EXCEPT !.state = "ok"]
    /\ UNCHANGED <<writerVars, tamper>>

\* Mutant: rows.Next() = FALSE is taken for the end without asking rows.Err().
VerifyErrorAsEnd ==
    /\ verify.state = "walking"
    /\ verify' = [verify EXCEPT !.state = "ok"]
    /\ UNCHANGED <<writerVars, tamper>>

\* The 30 s deadline (shown as a partial run) or a query error ends the walk.
VerifyError ==
    /\ verify.state = "walking"
    /\ verify' = [verify EXCEPT !.state = "partial"]
    /\ UNCHANGED <<writerVars, tamper>>

-----------------------------------------------------------------------------
(* Direct edits of audit_log, outside the program, without recomputed hashes. *)

HasSuccessor(r) == \E s \in table : s.id > r.id

Edit ==
    /\ tamper = "none"
    /\ \E r \in table, e \in Events :
          /\ e # r.ev
          /\ table' = (table \ {r}) \union {[r EXCEPT !.ev = e]}
    /\ tamper' = "inner"
    /\ UNCHANGED <<nextId, clock, lock, pc, job, outcome, verify>>

Delete ==
    /\ tamper = "none"
    /\ \E r \in table :
          /\ table' = table \ {r}
          /\ tamper' = IF HasSuccessor(r) THEN "inner" ELSE "tail"
    /\ UNCHANGED <<nextId, clock, lock, pc, job, outcome, verify>>

\* A forged row in the gap an aborted transaction left, linked to the row
\* before it.
Forge ==
    /\ tamper = "none"
    /\ \E i \in 1..MaxId, e \in Events :
          /\ \A r \in table : r.id # i
          /\ \E s \in table : s.id > i
          /\ \E p \in HeadHashes({r \in table : r.id < i}) :
                table' = table \union
                  {[id |-> i, at |-> clock, ev |-> e, prev |-> p,
                    hash |-> ComputeRowHash(p, <<e, clock>>)]}
    /\ tamper' = "inner"
    /\ UNCHANGED <<nextId, clock, lock, pc, job, outcome, verify>>

-----------------------------------------------------------------------------
Init ==
    /\ table = {} /\ nextId = 1 /\ clock = 1 /\ lock = NoWriter
    /\ pc = [w \in Writers |-> "idle"]
    /\ job = [w \in Writers |-> [at |-> 0, ev |-> CHOOSE e \in Events : TRUE,
                                 rows |-> {}]]
    /\ outcome = [w \in Writers |-> "none"]
    /\ verify = NoVerify
    /\ tamper = "none"

WriterStep(w) ==
    \/ \E e \in Events : Begin(w, e)
    \/ Lock(w) \/ Insert(w) \/ Commit(w) \/ Abort(w)

VerifierStep == VerifyStart \/ VerifyRow \/ VerifyEnd \/ VerifyError

Next == VerifierStep \/ \E w \in Writers : WriterStep(w)

TamperNext == Next \/ Edit \/ Delete \/ Forge

Spec == Init /\ [][Next]_vars

TamperSpec == Init /\ [][TamperNext]_vars

-----------------------------------------------------------------------------
(* Properties. *)

JobOf == [at : Nat, ev : Events, rows : SUBSET Rows]
VerifyState == [state : {"idle", "walking", "ok", "break", "partial"},
                snap : SUBSET Rows, cursor : Nat, running : Hashes,
                rows : Nat, tamper : {"none", "inner", "tail"}]

\* Type invariant.
TypeOK ==
    /\ table \subseteq Rows
    /\ nextId \in Nat \ {0} /\ clock \in Nat
    /\ lock \in Writers \union {NoWriter}
    /\ pc \in [Writers -> {"idle", "begun", "locked", "inserted"}]
    /\ job \in [Writers -> JobOf]
    /\ outcome \in [Writers -> {"none", "pending", "ok", "error"}]
    /\ verify \in VerifyState
    /\ tamper \in {"none", "inner", "tail"}

First(T, r) == \A s \in T : r.id <= s.id
Consecutive(T, r, s) == r.id < s.id /\ \A t \in T : t.id <= r.id \/ s.id <= t.id
Linked(T) ==
    /\ \A r \in T : First(T, r) => r.prev = GenesisHash
    /\ \A r, s \in T : Consecutive(T, r, s) => s.prev = r.hash
Sealed(T) == \A r \in T : r.hash = ComputeRowHash(r.prev, Payload(r))
UniqueIds(T) == \A r, s \in T : r.id = s.id => r = s

\* However writers interleave, block, fail or lose the answer of their COMMIT,
\* the committed rows read in id order form one unbroken chain from the
\* genesis hash (insertChainedQuery under ChainLockKey).
ChainLinked == UniqueIds(table) /\ Linked(table) /\ Sealed(table)

\* A walk over a log nobody edited never reports a break, also while rows are
\* being appended under it (VerifyChain over the statement snapshot).
NoFalseBreak == tamper = "none" => verify.state # "break"

\* A verdict OK covers the whole snapshot: every row of it was walked, and
\* every one of them is still committed (VerifyResult.Rows, Partial).
OkIsComplete ==
    verify.state = "ok" => /\ verify.rows = Cardinality(verify.snap)
                           /\ tamper = "none" => verify.snap \subseteq table

\* Write returns nil only for an event that is in the log; the callers'
\* fail-closed checks rely on it.
OkIsDurable ==
    \A w \in Writers : outcome[w] = "ok" =>
        \E r \in table : r.ev = job[w].ev /\ r.at = job[w].at

\* The history the newest row seals, read off its hash.
SealedHistory == CHOOSE h \in HeadHashes(table) : TRUE

Log == INSTANCE AuditLog WITH
          Callers <- Writers, Entries <- Payloads, log <- SealedHistory,
          want <- [w \in Writers |-> <<job[w].ev, job[w].at>>], said <- outcome

\* Begin, lock, insert, commit, abort and lost answers together are the simple
\* append-only log the callers of Write count on: the newest hash seals the
\* entries one after another, each call adds its own entry at most once, and
\* exactly once when it returned nil (PgWriter.Write).
ImplementsLog == Log!Spec

\* A walk that starts after an edit, a forged row or the deletion of a row
\* that is not the newest never ends in OK (migrations/0007: inserting,
\* deleting or modifying a row breaks the hashes after it).
TamperDetected == verify.state = "ok" => verify.tamper # "inner"

\* Rows in id order are rows in time order, as GET /v1/admin/audit documents
\* its result (sorted by at, paged by id).
IdOrderIsTimeOrder == \A r, s \in table : r.id < s.id => r.at <= s.at
=============================================================================
