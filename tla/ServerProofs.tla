---------------------------- MODULE ServerProofs ----------------------------
(***************************************************************************)
(* For any number of requests and connections: the pool never hands out    *)
(* more connections than it has, and what an actor holds is what the place *)
(* it has reached in the code says, so nothing stays behind.               *)
(***************************************************************************)
EXTENDS Server, FiniteSetTheorems, TLAPS

Stages ==
    OpStages \union
    {"idle", "answered", "begin", "tx", "mutate", "starting", "polling", "done"}

\* TypeOK without the bound on the connections.
Types ==
    /\ main \in {"waitDB", "serving", "botDrain", "httpDrain", "closing", "exited"}
    /\ pool \in {"open", "closed"}
    /\ pc \in [Actors -> Stages]
    /\ op \in [Actors -> {"none", "conn", "chain"}]
    /\ tx \subseteq Requests
    /\ rowLock \in Requests \union {Nobody}
    /\ chainLock \in Actors \union {Nobody}
    /\ live \subseteq Actors

\* Who holds what: an operation only in a stage that has one, the chain lock
\* in its locked part, the row and the second connection in a transaction.
Holding ==
    /\ \A a \in Actors : op[a] # "none" => pc[a] \in OpStages
    /\ \A a \in Actors : op[a] = "chain" => pc[a] \in AuditStages
    /\ \A a \in Actors : chainLock = a <=> op[a] = "chain"
    /\ \A r \in Requests : r \in tx <=> pc[r] \in {"tx", "mutate", "deny"}
    /\ \A r \in Requests : rowLock = r => pc[r] \in {"mutate", "deny"}
    /\ \A r \in Requests : pc[r] = "mutate" => rowLock = r

\* The poller is started by run() and walks through no stage of a request.
Started ==
    /\ main = "waitDB" => pc[Bot] = "idle"
    /\ pc[Bot] \in {"idle", "starting", "polling", "update", "report", "done"}

ServerInv == Types /\ Held <= Conns /\ Holding /\ Started

-----------------------------------------------------------------------------
(* The pool's account. *)

Holders == {a \in Actors : op[a] # "none"}

\* The holders are finitely many, now and after any step.
LEMMA HeldFinite ==
    ASSUME NEW H, H \subseteq Actors, NEW T, T \subseteq Requests
    PROVE  /\ IsFiniteSet(H) /\ IsFiniteSet(T)
           /\ Cardinality(H) \in Nat /\ Cardinality(T) \in Nat
<1>1. IsFiniteSet(Actors) /\ IsFiniteSet(Requests)
    BY ServerAssumption, FS_AddElement DEF Actors
<1> QED BY <1>1, FS_Subset, FS_CardinalityType

\* Giving back keeps the account.
LEMMA HeldShrinks ==
    ASSUME Types, Held <= Conns, Holders' \subseteq Holders, tx' \subseteq tx
    PROVE  (Held <= Conns)'
<1>1. Holders \subseteq Actors /\ tx \subseteq Requests
    BY DEF Holders, Types
<1>2. /\ IsFiniteSet(Holders) /\ IsFiniteSet(tx)
      /\ Cardinality(Holders) \in Nat /\ Cardinality(tx) \in Nat
    BY <1>1, HeldFinite
<1>3. /\ Cardinality(Holders') <= Cardinality(Holders) /\ Cardinality(tx') <= Cardinality(tx)
    BY <1>2, FS_Subset
<1>4. Cardinality(Holders') \in Nat /\ Cardinality(tx') \in Nat
    BY <1>1, HeldFinite
<1>5. Held = Cardinality(Holders) + Cardinality(tx)
      /\ Held' = Cardinality(Holders') + Cardinality(tx')
    BY DEF Held, Holders
<1> QED BY <1>2, <1>3, <1>4, <1>5, ServerAssumption

\* Acquire takes one connection that was free.
LEMMA HeldGrows ==
    ASSUME Types, Held < Conns,
           \/ tx' = tx /\ \E a \in Actors : Holders' = Holders \union {a}
           \/ Holders' = Holders /\ \E r \in Requests : tx' = tx \union {r}
    PROVE  (Held <= Conns)'
<1>1. Holders \subseteq Actors /\ tx \subseteq Requests
    BY DEF Holders, Types
<1>2. /\ IsFiniteSet(Holders) /\ IsFiniteSet(tx)
      /\ Cardinality(Holders) \in Nat /\ Cardinality(tx) \in Nat
    BY <1>1, HeldFinite
<1>3. Held = Cardinality(Holders) + Cardinality(tx)
      /\ Held' = Cardinality(Holders') + Cardinality(tx')
    BY DEF Held, Holders
<1>4. CASE tx' = tx /\ \E a \in Actors : Holders' = Holders \union {a}
    <2>1. PICK a \in Actors : Holders' = Holders \union {a}
        BY <1>4
    <2>2. Cardinality(Holders') \in {Cardinality(Holders), Cardinality(Holders) + 1}
        BY <1>2, <2>1, FS_AddElement
    <2> QED BY <1>2, <1>3, <1>4, <2>2, ServerAssumption
<1>5. CASE Holders' = Holders /\ \E r \in Requests : tx' = tx \union {r}
    <2>1. PICK r \in Requests : tx' = tx \union {r}
        BY <1>5
    <2>2. Cardinality(tx') \in {Cardinality(tx), Cardinality(tx) + 1}
        BY <1>2, <2>1, FS_AddElement
    <2> QED BY <1>2, <1>3, <1>5, <2>2, ServerAssumption
<1> QED BY <1>4, <1>5

\* A step that touches neither connections nor transactions keeps it too.
LEMMA HeldSame ==
    ASSUME Types, Held <= Conns, UNCHANGED <<op, tx>>
    PROVE  (Held <= Conns)'
    BY DEF Held

-----------------------------------------------------------------------------
(* The steps of an operation. *)

\* Acquire takes a connection only when one is free.
LEMMA AcquireKeeps ==
    ASSUME ServerInv, NEW a \in Actors, Acquire(a)
    PROVE  ServerInv'
<1> USE DEF ServerInv, Acquire
<1>1. Types'
    BY DEF Types
<1>2. Holders' = Holders \union {a}
    BY DEF Types, Holders
<1>3. (Held <= Conns)'
    BY <1>2, HeldGrows DEF CanAcquire
<1>4. Holding'
    BY DEF Types, Holding
<1>5. Started'
    BY DEF Started, Running
<1> QED BY <1>1, <1>3, <1>4, <1>5

\* LockChain: the advisory lock had no holder.
LEMMA LockChainKeeps ==
    ASSUME ServerInv, NEW a \in Actors, LockChain(a)
    PROVE  ServerInv'
<1> USE DEF ServerInv, LockChain
<1>1. Types'
    BY DEF Types
<1>2. Holders' \subseteq Holders /\ tx' \subseteq tx
    BY DEF Types, Holders
<1>3. (Held <= Conns)'
    BY <1>2, HeldShrinks
<1>4. Holding'
    BY ServerAssumption DEF Types, Holding, Actors, OpStages
<1>5. Started'
    BY DEF Started, Running
<1> QED BY <1>1, <1>3, <1>4, <1>5

\* A stage is never followed by one that would be inside a transaction.
LEMMA NextStage ==
    ASSUME NEW st \in OpStages, NEW s \in Then(st) \union OnError(st)
    PROVE  s \in Stages \ {"tx", "mutate", "deny", "idle", "done"}
    BY DEF OpStages, AuditStages, Then, OnError, Stages

\* The end of a stage gives back what its operation took.
LEMMA LeaveKeeps ==
    ASSUME ServerInv, NEW a \in Actors, pc[a] \in OpStages,
           NEW s \in Then(pc[a]) \union OnError(pc[a]), Leave(a, s)
    PROVE  ServerInv'
<1> USE DEF ServerInv, Leave
<1>0. s \in Stages \ {"tx", "mutate", "deny", "idle", "done"}
    BY NextStage
<1>a. pc[a] = "deny" => s = "answered"
    BY DEF Then, OnError
<1>1. Types'
    BY <1>0 DEF Types, Unlocked
<1>2. Holders' \subseteq Holders /\ tx' \subseteq tx
    BY DEF Types, Holders
<1>3. (Held <= Conns)'
    BY <1>2, HeldShrinks
<1>4. Holding'
    <2>1. \A b \in Actors : op'[b] # "none" => pc'[b] \in OpStages
        BY DEF Types, Holding
    <2>2. \A b \in Actors : chainLock' = b <=> op'[b] = "chain"
        BY ServerAssumption DEF Types, Holding, Unlocked, Actors
    <2>3. \A r \in Requests : r \in tx' <=> pc'[r] \in {"tx", "mutate", "deny"}
        BY <1>0, <1>a DEF Types, Holding, Actors, OpStages, AuditStages
    <2>4. \A r \in Requests : rowLock' = r => pc'[r] \in {"mutate", "deny"}
        <3> SUFFICES ASSUME NEW r \in Requests, rowLock' = r
                     PROVE  pc'[r] \in {"mutate", "deny"}
            OBVIOUS
        <3>1. CASE r = a
            <4>1. rowLock = a /\ s # "answered" /\ pc[a] \in {"mutate", "deny"}
                BY <3>1, ServerAssumption DEF Types, Holding, Unlocked
            <4>2. pc[a] = "deny"
                BY <4>1 DEF OpStages, AuditStages
            <4> QED BY <1>a, <4>1, <4>2
        <3>2. CASE r # a
            <4>1. rowLock = r
                BY <3>2, ServerAssumption DEF Types, Unlocked
            <4> QED BY <3>2, <4>1 DEF Types, Holding, Actors
        <3> QED BY <3>1, <3>2
    <2>5. \A r \in Requests : pc'[r] = "mutate" => rowLock' = r
        BY <1>0 DEF Types, Holding, Unlocked, Actors
    <2>6. \A b \in Actors : op'[b] = "chain" => pc'[b] \in AuditStages
        BY DEF Types, Holding
    <2> QED BY <2>1, <2>2, <2>3, <2>4, <2>5, <2>6 DEF Holding
<1>5. Started'
    <2>1. CASE a = Bot
        <3>1. pc[Bot] \in {"update", "report"} /\ main # "waitDB" /\ s \in {"report", "polling"}
            BY <2>1 DEF Started, Then, OnError, OpStages, AuditStages
        <3> QED BY <2>1, <3>1 DEF Types, Started
    <2>2. CASE a # Bot
        BY <2>2 DEF Types, Started, Actors
    <2> QED BY <2>1, <2>2
<1> QED BY <1>1, <1>3, <1>4, <1>5

-----------------------------------------------------------------------------
(* Requests. *)

\* Accept ends when the bot has been drained, and takes nothing yet.
LEMMA AcceptKeeps ==
    ASSUME ServerInv, NEW r \in Requests, Accept(r)
    PROVE  ServerInv'
<1> USE DEF ServerInv, Accept
<1>1. Types'
    BY ServerAssumption DEF Types, Stages, OpStages, AuditStages, Actors
<1>2. (Held <= Conns)'
    BY HeldSame
<1>3. Holding'
    BY ServerAssumption DEF Types, Holding, Actors, OpStages, AuditStages, Running
<1>4. Started'
    BY ServerAssumption DEF Types, Started, Running, Actors
<1> QED BY <1>1, <1>2, <1>3, <1>4

\* An ended context gives nothing back by itself.
LEMMA DeadlineKeeps ==
    ASSUME ServerInv, NEW r \in Requests, Deadline(r)
    PROVE  ServerInv'
<1> USE DEF ServerInv, Deadline
<1>1. Types'
    BY ServerAssumption DEF Types, Stages, OpStages, AuditStages, Actors
<1>2. (Held <= Conns)'
    BY HeldSame
<1>3. Holding'
    BY ServerAssumption DEF Types, Holding, Actors, OpStages, AuditStages, Running
<1>4. Started'
    BY ServerAssumption DEF Types, Started, Running, Actors
<1> QED BY <1>1, <1>2, <1>3, <1>4

\* Begin takes the transaction's connection only when one is free.
LEMMA BeginKeeps ==
    ASSUME ServerInv, NEW r \in Requests, Begin(r)
    PROVE  ServerInv'
<1> USE DEF ServerInv, Begin
<1>1. Types'
    BY DEF Types, Stages, Actors
<1>2. Holders' = Holders
    BY DEF Holders
<1>3. (Held <= Conns)'
    BY <1>2, HeldGrows DEF CanAcquire
<1>4. Holding'
    BY DEF Types, Holding, Actors, OpStages, AuditStages
<1>5. Started'
    BY ServerAssumption DEF Types, Started, Running, Actors
<1> QED BY <1>1, <1>3, <1>4, <1>5

\* A failed Begin holds nothing.
LEMMA BeginFailsKeeps ==
    ASSUME ServerInv, NEW r \in Requests, BeginFails(r)
    PROVE  ServerInv'
<1> USE DEF ServerInv, BeginFails
<1>1. Types'
    BY ServerAssumption DEF Types, Stages, OpStages, AuditStages, Actors
<1>2. (Held <= Conns)'
    BY HeldSame
<1>3. Holding'
    BY ServerAssumption DEF Types, Holding, Actors, OpStages, AuditStages, Running
<1>4. Started'
    BY ServerAssumption DEF Types, Started, Running, Actors
<1> QED BY <1>1, <1>2, <1>3, <1>4

\* LockRow: the row had no holder.
LEMMA LockRowKeeps ==
    ASSUME ServerInv, NEW r \in Requests, LockRow(r)
    PROVE  ServerInv'
<1> USE DEF ServerInv, LockRow
<1>1. Types'
    BY ServerAssumption DEF Types, Stages, OpStages, AuditStages, Actors
<1>2. (Held <= Conns)'
    BY HeldSame
<1>3. Holding'
    BY ServerAssumption DEF Types, Holding, Actors, OpStages, AuditStages, Running
<1>4. Started'
    BY ServerAssumption DEF Types, Started, Running, Actors
<1> QED BY <1>1, <1>2, <1>3, <1>4

\* A denial inside the transaction keeps what the transaction holds.
LEMMA DenyInTxKeeps ==
    ASSUME ServerInv, NEW r \in Requests, DenyInTx(r)
    PROVE  ServerInv'
<1> USE DEF ServerInv, DenyInTx
<1>1. Types'
    BY ServerAssumption DEF Types, Stages, OpStages, AuditStages, Actors
<1>2. (Held <= Conns)'
    BY HeldSame
<1>3. Holding'
    BY ServerAssumption DEF Types, Holding, Actors, OpStages, AuditStages, Running
<1>4. Started'
    BY ServerAssumption DEF Types, Started, Running, Actors
<1> QED BY <1>1, <1>2, <1>3, <1>4

\* Commit ends the transaction, whichever way it goes.
LEMMA CommitKeeps ==
    ASSUME ServerInv, NEW r \in Requests, Commit(r)
    PROVE  ServerInv'
<1> USE DEF ServerInv
<1>0. PICK s \in {"validated", "reject"} : pc' = [pc EXCEPT ![r] = s]
    BY DEF Commit
<1>1. /\ pc[r] = "mutate" /\ tx' = tx \ {r} /\ rowLock' = Unlocked(rowLock, r)
      /\ UNCHANGED <<main, pool, op, chainLock, live>>
    BY DEF Commit
<1>2. Types'
    BY <1>0, <1>1 DEF Types, Unlocked, Stages, OpStages, AuditStages
<1>3. Holders' \subseteq Holders /\ tx' \subseteq tx
    BY <1>1 DEF Holders
<1>4. (Held <= Conns)'
    BY <1>3, HeldShrinks
<1>5. Holding'
    BY <1>0, <1>1, ServerAssumption
    DEF Types, Holding, Unlocked, Actors, OpStages, AuditStages
<1>6. Started'
    BY <1>0, <1>1, ServerAssumption DEF Types, Started, Running, Actors
<1> QED BY <1>2, <1>4, <1>5, <1>6

-----------------------------------------------------------------------------
(* The poller and run(). *)

\* The poller's own steps: none leaves "done", none touches a request.
LEMMA PollerKeeps ==
    ASSUME ServerInv, PollerStep
    PROVE  ServerInv'
<1> USE DEF ServerInv
<1>1. PICK s \in {"done", "polling", "update"} :
        /\ pc' = [pc EXCEPT ![Bot] = s] /\ pc[Bot] \in {"starting", "polling"}
        /\ UNCHANGED <<main, pool, op, tx, rowLock, chainLock, live>>
    BY DEF PollerStep, PollerFails, PollerStarts, BotUpdate, PollerStops
<1>2. Bot \in Actors /\ Bot \notin Requests
    BY ServerAssumption DEF Actors
<1>3. Types'
    BY <1>1 DEF Types, Stages, OpStages
<1>4. (Held <= Conns)'
    BY <1>1, HeldSame
<1>5. Holding'
    BY <1>1, <1>2 DEF Types, Holding, Actors, OpStages, AuditStages
<1>6. Started'
    BY <1>1, <1>2 DEF Types, Started, Running, Actors
<1> QED BY <1>3, <1>4, <1>5, <1>6

\* run(): no step of the shutdown takes or gives anything back itself.
LEMMA RunKeeps ==
    ASSUME ServerInv, PingOk \/ PingTimeout \/ Stopping
    PROVE  ServerInv'
<1> USE DEF ServerInv
<1>0. Bot \in Actors /\ Bot \notin Requests
    BY ServerAssumption DEF Actors
<1>1. CASE PingOk
    <2>1. UNCHANGED <<pool, op, tx, rowLock, chainLock, live>>
          /\ main = "waitDB" /\ main' = "serving" /\ pc' = [pc EXCEPT ![Bot] = "starting"]
        BY <1>1 DEF PingOk, MainStep
    <2>2. Types'
        BY <1>0, <2>1 DEF Types, Stages
    <2>3. (Held <= Conns)'
        BY <2>1, HeldSame
    <2>4. Holding'
        BY <1>0, <2>1 DEF Types, Holding, Started, Actors, OpStages, AuditStages
    <2>5. Started'
        BY <2>1 DEF Started
    <2> QED BY <2>2, <2>3, <2>4, <2>5
<1>2. ASSUME Types', Started', UNCHANGED <<pc, op, tx, rowLock, chainLock>>
      PROVE  ServerInv'
    BY <1>2, HeldSame DEF Holding
<1>3. CASE PingTimeout
    BY <1>2, <1>3 DEF PingTimeout, MainStep, Types, Started, Running
<1>4. CASE Signal
    BY <1>2, <1>4 DEF Signal, MainStep, Types, Started, Running
<1>5. CASE ListenError
    BY <1>2, <1>5 DEF ListenError, MainStep, Types, Started, Running
<1>6. CASE BotDrained
    BY <1>2, <1>6 DEF BotDrained, MainStep, Types, Started, Running
<1>7. CASE BotDrainTimeout
    <2>1. Types' /\ Started'
        BY <1>7 DEF BotDrainTimeout, MainStep, Types, Started
    <2> QED BY <1>2, <1>7, <2>1 DEF BotDrainTimeout, MainStep
<1>8. CASE HttpDrained
    <2>1. Types' /\ Started'
        BY <1>8 DEF HttpDrained, MainStep, Types, Started, Running
    <2> QED BY <1>2, <1>8, <2>1 DEF HttpDrained, MainStep
<1>9. CASE HttpDrainTimeout
    BY <1>2, <1>9 DEF HttpDrainTimeout, MainStep, Types, Started, Running
<1>10. CASE Exit
    BY <1>2, <1>10 DEF Exit, MainStep, Types, Started, Running
<1> QED BY <1>1, <1>3, <1>4, <1>5, <1>6, <1>7, <1>8, <1>9, <1>10 DEF Stopping

-----------------------------------------------------------------------------
(* The theorems. *)

\* A starting process holds nothing.
LEMMA ServerInitInv == Init => ServerInv
<1> SUFFICES ASSUME Init PROVE ServerInv
    OBVIOUS
<1>1. Types
    BY ServerAssumption DEF Init, Types, Stages, Actors
<1>2. Held <= Conns
    <2>1. {a \in Actors : op[a] # "none"} = {} /\ tx = {}
        BY DEF Init
    <2> QED BY <2>1, FS_EmptySet, ServerAssumption DEF Held
<1>3. Holding
    BY ServerAssumption DEF Init, Holding, Actors
<1>4. Started
    BY ServerAssumption DEF Init, Started, Actors
<1> QED BY <1>1, <1>2, <1>3, <1>4 DEF ServerInv

\* Every step keeps the invariant.
LEMMA ServerNextInv == ServerInv /\ [Next]_vars => ServerInv'
<1> SUFFICES ASSUME ServerInv, [Next]_vars PROVE ServerInv'
    OBVIOUS
<1>1. ASSUME NEW a \in Actors, OpStep(a) PROVE ServerInv'
    <2>1. ASSUME Finish(a) \/ Fail(a) PROVE ServerInv'
        BY <2>1, LeaveKeeps DEF Finish, Fail
    <2> QED BY <1>1, <2>1, AcquireKeeps, LockChainKeeps DEF OpStep
<1>2. ASSUME NEW r \in Requests, Accept(r) \/ Deadline(r) \/ TxStep(r) PROVE ServerInv'
    BY <1>2, AcceptKeeps, DeadlineKeeps, BeginKeeps, BeginFailsKeeps, LockRowKeeps,
       DenyInTxKeeps, CommitKeeps DEF TxStep
<1>3. CASE PollerStep
    BY <1>3, PollerKeeps
<1>4. CASE PingOk \/ PingTimeout \/ Stopping
    BY <1>4, RunKeeps
<1>5. CASE UNCHANGED vars
    BY <1>5 DEF ServerInv, vars, Types, Held, Holding, Started, Running
<1> QED BY <1>1, <1>2, <1>3, <1>4, <1>5 DEF Next

\* ServerInv holds in every reachable state.
THEOREM ServerInvariant == Spec => []ServerInv
    BY ServerInitInv, ServerNextInv, PTL DEF Spec

\* Whatever requests, poller and transactions do, the pool never has more
\* connections out than MaxConns (the last part of TypeOK).
THEOREM PoolNeverOverdrawn == Spec => []TypeOK
<1>1. ServerInv => TypeOK
    BY DEF ServerInv, Types, TypeOK, Stages
<1> QED BY <1>1, ServerInvariant, PTL

\* On every path what was taken is given back, and nobody who holds the chain
\* lock waits (the deferred Rollback and Release).
THEOREM LocksAlwaysReleased == Spec => []LocksReleased
<1>1. ServerInv => LocksReleased
    <2> SUFFICES ASSUME ServerInv PROVE LocksReleased
        OBVIOUS
    <2> USE DEF ServerInv, Types, Holding
    <2>1. Bot \in Actors /\ \A r \in Requests : r \in Actors
        BY DEF Actors
    <2>2. \A r \in Requests : ~Running(r) => pc[r] \notin OpStages \union {"tx", "mutate", "deny"}
        BY DEF Running, OpStages, AuditStages
    <2>3. \A r \in Requests : ~Running(r) =>
             op[r] = "none" /\ r \notin tx /\ rowLock # r /\ chainLock # r
        BY <2>1, <2>2
    <2>4. ~Handling => op[Bot] = "none" /\ chainLock # Bot
        BY <2>1 DEF Handling, Started, OpStages, AuditStages
    <2>5. \A r \in tx : op[r] # "none" => pc[r] = "deny"
        BY <2>1 DEF OpStages, AuditStages
    <2>6. \A a \in Actors : chainLock = a => op[a] = "chain" /\ pc[a] \in AuditStages
        OBVIOUS
    <2>7. \A r \in Requests : rowLock = r => pc[r] \in {"mutate", "deny"}
        OBVIOUS
    <2> QED BY <2>3, <2>4, <2>5, <2>6, <2>7 DEF LocksReleased
<1> QED BY <1>1, ServerInvariant, PTL
=============================================================================
