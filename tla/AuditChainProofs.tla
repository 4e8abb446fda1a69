-------------------------- MODULE AuditChainProofs --------------------------
(***************************************************************************)
(* Proofs about AuditChain and AuditSearch for any number of writers,      *)
(* events, rows and page sizes.                                            *)
(***************************************************************************)
EXTENDS AuditSearch, FiniteSetTheorems, SequenceTheorems, TLAPS

(***************************************************************************)
(* Type correctness: every step of a writer and of the verifier keeps the  *)
(* types of AuditChain (PgWriter.Write, VerifyChain).                      *)
(***************************************************************************)
LEMMA GenesisType == GenesisHash \in Hashes
BY DEF GenesisHash, Hashes

\* The head is a hash.
LEMMA HeadType ==
    ASSUME NEW T \in SUBSET Rows, NEW p \in HeadHashes(T)
    PROVE  p \in Hashes
<1>1. \A r \in T : r.hash \in Hashes
  BY DEF Rows
<1>2. p = GenesisHash \/ \E r \in T : p = r.hash
  BY DEF HeadHashes
<1> QED
  BY <1>1, <1>2, GenesisType

\* A new row is a row.
LEMMA NewRowType ==
    ASSUME TypeOK, NEW w \in Writers, NEW p \in HeadHashes(table)
    PROVE  NewRow(w, p) \in Rows
<1>1. p \in Hashes
  BY HeadType DEF TypeOK
<1>2. <<job[w].ev, job[w].at>> \in Payloads
  BY DEF TypeOK, JobOf, Payloads
<1>3. Append(p, <<job[w].ev, job[w].at>>) \in Hashes
  BY <1>1, <1>2 DEF Hashes
<1>4. job[w].ev \in Events /\ job[w].at \in Nat
  BY DEF TypeOK, JobOf
<1> QED
  BY <1>1, <1>3, <1>4 DEF NewRow, Rows, ComputeRowHash, TypeOK

\* The empty log is well typed.
LEMMA InitType == Init => TypeOK
<1> SUFFICES ASSUME Init PROVE TypeOK
  OBVIOUS
<1>1. (CHOOSE e \in Events : TRUE) \in Events
  BY AuditAssumption
<1> QED
  BY <1>1, GenesisType DEF Init, TypeOK, JobOf, VerifyState, NoVerify

\* Every step keeps the types.
LEMMA NextType == TypeOK /\ [Next]_vars => TypeOK'
<1> SUFFICES ASSUME TypeOK, [Next]_vars PROVE TypeOK'
  OBVIOUS
<1>1. ASSUME NEW w \in Writers, NEW e \in Events, Begin(w, e) PROVE TypeOK'
  <2>1. [at |-> clock, ev |-> e, rows |-> {}] \in JobOf
    BY DEF TypeOK, JobOf
  <2> QED
    BY <1>1, <2>1 DEF Begin, TypeOK
<1>2. ASSUME NEW w \in Writers, Lock(w) PROVE TypeOK'
  BY <1>2 DEF Lock, TypeOK
<1>3. ASSUME NEW w \in Writers, Insert(w) PROVE TypeOK'
  <2>1. PICK p \in HeadHashes(table) :
            job' = [job EXCEPT ![w].rows = {NewRow(w, p)}]
    BY <1>3 DEF Insert
  <2>2. NewRow(w, p) \in Rows
    BY NewRowType
  <2>3. job' \in [Writers -> JobOf]
    BY <2>1, <2>2 DEF TypeOK, JobOf
  <2> QED
    BY <1>3, <2>3 DEF Insert, TypeOK
<1>4. ASSUME NEW w \in Writers, Commit(w) PROVE TypeOK'
  <2>1. table' \subseteq Rows
    BY <1>4 DEF Commit, TypeOK, JobOf
  <2> QED
    BY <1>4, <2>1 DEF Commit, Release, TypeOK
<1>5. ASSUME NEW w \in Writers, Abort(w) PROVE TypeOK'
  BY <1>5 DEF Abort, Release, TypeOK
<1>6. CASE VerifyStart
  <2>1. verify' \in VerifyState
    BY <1>6, GenesisType DEF VerifyStart, NoVerify, VerifyState, TypeOK
  <2> QED
    BY <1>6, <2>1 DEF VerifyStart, TypeOK, writerVars
<1>7. CASE VerifyRow
  <2>1. PICK r \in verify.snap :
            verify' = IF RowClean(r)
                      THEN [verify EXCEPT !.running = r.hash, !.cursor = r.id,
                                          !.rows = @ + 1]
                      ELSE [verify EXCEPT !.state = "break"]
    BY <1>7 DEF VerifyRow
  <2>2. r \in Rows
    BY DEF TypeOK, VerifyState
  <2>3. r.hash \in Hashes /\ r.id \in Nat
    BY <2>2 DEF Rows
  <2>4. CASE RowClean(r)
    <3>1. verify' = [verify EXCEPT !.running = r.hash, !.cursor = r.id,
                                   !.rows = @ + 1]
      BY <2>1, <2>4
    <3>2. verify' = [state |-> verify.state, snap |-> verify.snap,
                     cursor |-> r.id, running |-> r.hash,
                     rows |-> verify.rows + 1, tamper |-> verify.tamper]
      BY <3>1 DEF TypeOK, VerifyState
    <3>3. verify' \in VerifyState
      BY <2>3, <3>2 DEF TypeOK, VerifyState
    <3> QED
      BY <1>7, <3>3 DEF VerifyRow, TypeOK, writerVars
  <2>5. CASE ~RowClean(r)
    <3>1. verify' = [verify EXCEPT !.state = "break"]
      BY <2>1, <2>5
    <3>2. verify' \in VerifyState
      BY <3>1 DEF TypeOK, VerifyState
    <3> QED
      BY <1>7, <3>2 DEF VerifyRow, TypeOK, writerVars
  <2> QED
    BY <2>4, <2>5
<1>8. CASE VerifyEnd
  BY <1>8 DEF VerifyEnd, TypeOK, VerifyState, writerVars
<1>9. CASE VerifyError
  BY <1>9 DEF VerifyError, TypeOK, VerifyState, writerVars
<1>10. CASE UNCHANGED vars
  BY <1>10 DEF vars, TypeOK
<1> QED
  BY <1>1, <1>2, <1>3, <1>4, <1>5, <1>6, <1>7, <1>8, <1>9, <1>10
  DEF Next, WriterStep, VerifierStep

\* Every variable of the audit log model keeps its type.
THEOREM TypeCorrect == Spec => []TypeOK
BY InitType, NextType, PTL DEF Spec

-----------------------------------------------------------------------------
(***************************************************************************)
(* The inductive invariant.  ChainLinked alone is not inductive: the row a *)
(* writer has inserted and not yet committed must still be the one that    *)
(* continues the committed head when it is committed, which the advisory   *)
(* lock guarantees.                                                        *)
(***************************************************************************)

\* Only the holder of ChainLockKey is past the lock statement.
LockHeld == \A w \in Writers : pc[w] \in {"locked", "inserted"} => lock = w

\* The id sequence is ahead of every committed row.
IdsBelow == \A r \in table : r.id < nextId

\* r continues the chain of T.
Extends(T, r) ==
    /\ \A s \in T : s.id < r.id
    /\ IsHead(T, r.prev)
    /\ r.hash = ComputeRowHash(r.prev, Payload(r))

\* An inserted row continues the committed chain and carries w's event.
PendingExtends ==
    \A w \in Writers : pc[w] = "inserted" =>
        \E r \in Rows : /\ job[w].rows = {r} /\ r.id < nextId
                        /\ r.ev = job[w].ev /\ r.at = job[w].at
                        /\ Extends(table, r)

ChainInv ==
    TypeOK /\ LockHeld /\ IdsBelow /\ PendingExtends /\ ChainLinked /\ OkIsDurable

\* Appending a row that continues a linked chain leaves a linked chain.
LEMMA AppendLinked ==
    ASSUME NEW T \in SUBSET Rows, NEW n \in Rows,
           UniqueIds(T), Linked(T), Sealed(T), Extends(T, n)
    PROVE  LET U == T \union {n} IN UniqueIds(U) /\ Linked(U) /\ Sealed(U)
<1> DEFINE U == T \union {n}
<1>0. \A r \in U : r.id \in Int
  BY DEF Rows
<1>1. UniqueIds(U)
  BY <1>0 DEF UniqueIds, Extends
<1>2. Sealed(U)
  BY DEF Sealed, Extends
<1>3. ASSUME NEW r \in U, First(U, r) PROVE r.prev = GenesisHash
  <2>1. CASE r \in T
    <3>1. First(T, r)
      BY <1>3 DEF First
    <3> QED
      BY <2>1, <3>1 DEF Linked
  <2>2. CASE r = n
    <3>1. T = {}
      <4>1. ASSUME NEW s \in T PROVE FALSE
        BY <1>0, <1>3, <2>2, <4>1 DEF First, Extends
      <4> QED
        BY <4>1
    <3> QED
      BY <2>2, <3>1 DEF Extends, IsHead
  <2> QED
    BY <2>1, <2>2
<1>4. ASSUME NEW r \in U, NEW s \in U, Consecutive(U, r, s) PROVE s.prev = r.hash
  <2>1. r \in T
    BY <1>0, <1>4 DEF Consecutive, Extends
  <2>2. CASE s \in T
    <3>1. Consecutive(T, r, s)
      BY <1>4 DEF Consecutive
    <3> QED
      BY <2>1, <2>2, <3>1 DEF Linked
  <2>3. CASE s = n
    <3>1. PICK h \in T : n.prev = h.hash /\ \A t \in T : t.id <= h.id
      BY <2>1 DEF Extends, IsHead
    <3>2. h.id = r.id
      <4>1. r.id <= h.id /\ h.id < n.id
        BY <2>1, <3>1 DEF Extends
      <4>2. h.id <= r.id \/ n.id <= h.id
        BY <1>4, <2>3, <3>1 DEF Consecutive
      <4> QED
        BY <1>0, <4>1, <4>2
    <3>3. h = r
      BY <2>1, <3>1, <3>2 DEF UniqueIds
    <3> QED
      BY <2>3, <3>1, <3>3
  <2> QED
    BY <2>2, <2>3
<1>5. Linked(U)
  BY <1>3, <1>4 DEF Linked
<1> QED
  BY <1>1, <1>2, <1>5

\* The empty log is a chain.
LEMMA InitChain == Init => ChainInv
<1> SUFFICES ASSUME Init PROVE ChainInv
  OBVIOUS
<1>1. TypeOK
  BY InitType
<1>2. \A w \in Writers : pc[w] = "idle" /\ outcome[w] = "none"
  BY DEF Init
<1>3. table = {}
  BY DEF Init
<1>4. ChainLinked
  BY <1>3 DEF ChainLinked, UniqueIds, Linked, Sealed
<1>5. LockHeld /\ PendingExtends /\ OkIsDurable
  BY <1>2 DEF LockHeld, PendingExtends, OkIsDurable
<1>6. IdsBelow
  BY <1>3 DEF IdsBelow
<1> QED
  BY <1>1, <1>4, <1>5, <1>6 DEF ChainInv

\* A step that leaves the writers alone keeps the chain invariant.
LEMMA ChainStable ==
    ChainInv /\ TypeOK' /\ UNCHANGED <<table, nextId, lock, pc, job, outcome>>
        => ChainInv'
BY DEF ChainInv, LockHeld, IdsBelow, PendingExtends, ChainLinked, OkIsDurable

\* Every step keeps the chain.
LEMMA NextChain == ChainInv /\ [Next]_vars => ChainInv'
<1> SUFFICES ASSUME ChainInv, [Next]_vars PROVE ChainInv'
  OBVIOUS
<1> USE DEF ChainInv
<1>0. TypeOK'
  BY NextType
<1>1. ASSUME NEW w \in Writers, NEW e \in Events, Begin(w, e) PROVE ChainInv'
  <2>1. pc' = [pc EXCEPT ![w] = "begun"] /\ UNCHANGED <<table, nextId, lock>>
    BY <1>1 DEF Begin
  <2>2. \A v \in Writers : v # w => job'[v] = job[v] /\ outcome'[v] = outcome[v]
    BY <1>1 DEF Begin, TypeOK
  <2>3. outcome'[w] = "pending"
    BY <1>1 DEF Begin, TypeOK
  <2>4. LockHeld' /\ IdsBelow' /\ ChainLinked'
    BY <2>1 DEF LockHeld, IdsBelow, ChainLinked, TypeOK
  <2>5. PendingExtends'
    BY <2>1, <2>2 DEF PendingExtends, TypeOK
  <2>6. OkIsDurable'
    BY <2>1, <2>2, <2>3 DEF OkIsDurable
  <2> QED
    BY <1>0, <2>4, <2>5, <2>6
<1>2. ASSUME NEW w \in Writers, Lock(w) PROVE ChainInv'
  <2>1. /\ pc[w] = "begun" /\ lock = NoWriter /\ lock' = w
        /\ pc' = [pc EXCEPT ![w] = "locked"]
        /\ UNCHANGED <<table, nextId, job, outcome>>
    BY <1>2 DEF Lock
  <2>2. LockHeld'
    BY <2>1, AuditAssumption DEF LockHeld, TypeOK
  <2>3. IdsBelow' /\ ChainLinked' /\ OkIsDurable'
    BY <2>1 DEF IdsBelow, ChainLinked, OkIsDurable
  <2>4. PendingExtends'
    BY <2>1 DEF PendingExtends, TypeOK
  <2> QED
    BY <1>0, <2>2, <2>3, <2>4
<1>3. ASSUME NEW w \in Writers, Insert(w) PROVE ChainInv'
  <2>1. PICK p \in HeadHashes(table) :
            job' = [job EXCEPT ![w].rows = {NewRow(w, p)}]
    BY <1>3 DEF Insert
  <2>2. /\ pc[w] = "locked" /\ nextId' = nextId + 1
        /\ pc' = [pc EXCEPT ![w] = "inserted"]
        /\ UNCHANGED <<table, lock, outcome>>
    BY <1>3 DEF Insert
  <2>3. \A v \in Writers : v # w => pc[v] # "inserted"
    BY <2>2 DEF LockHeld, TypeOK
  <2>4. LockHeld'
    BY <2>2 DEF LockHeld, TypeOK
  <2>5. IdsBelow' /\ ChainLinked'
    BY <2>2 DEF IdsBelow, ChainLinked, TypeOK, Rows
  <2>6. OkIsDurable'
    <3>1. \A v \in Writers : job'[v].ev = job[v].ev /\ job'[v].at = job[v].at
      BY <2>1 DEF TypeOK, JobOf
    <3> QED
      BY <2>2, <3>1 DEF OkIsDurable
  <2>7. PendingExtends'
    <3>1. NewRow(w, p) \in Rows
      BY NewRowType
    <3>2. job'[w].rows = {NewRow(w, p)} /\ job'[w].ev = job[w].ev
            /\ job'[w].at = job[w].at
      BY <2>1 DEF TypeOK, JobOf
    <3>3. NewRow(w, p).id < nextId' /\ NewRow(w, p).ev = job[w].ev
            /\ NewRow(w, p).at = job[w].at
      BY <2>2 DEF NewRow, TypeOK
    <3>4. Extends(table, NewRow(w, p))
      BY DEF Extends, NewRow, HeadHashes, IdsBelow, Payload
    <3>5. \A v \in Writers : pc'[v] = "inserted" => v = w
      BY <2>2, <2>3 DEF TypeOK
    <3> QED
      BY <2>2, <3>1, <3>2, <3>3, <3>4, <3>5 DEF PendingExtends
  <2> QED
    BY <1>0, <2>4, <2>5, <2>6, <2>7
<1>4. ASSUME NEW w \in Writers, Commit(w) PROVE ChainInv'
  <2>1. /\ pc[w] = "inserted" /\ pc' = [pc EXCEPT ![w] = "idle"]
        /\ table' = table \union job[w].rows
        /\ UNCHANGED <<nextId, job>>
    BY <1>4 DEF Commit
  <2>2. PICK r \in Rows : /\ job[w].rows = {r} /\ r.id < nextId
                          /\ r.ev = job[w].ev /\ r.at = job[w].at
                          /\ Extends(table, r)
    BY <2>1 DEF PendingExtends
  <2>3. table' = table \union {r}
    BY <2>1, <2>2
  <2>4. \A v \in Writers : v # w => pc[v] \notin {"locked", "inserted"}
    BY <2>1 DEF LockHeld, TypeOK
  <2>5. LockHeld' /\ PendingExtends'
    BY <2>1, <2>4 DEF LockHeld, PendingExtends, TypeOK
  <2>6. ChainLinked'
    BY <2>2, <2>3, AppendLinked DEF ChainLinked, TypeOK
  <2>7. IdsBelow'
    BY <2>1, <2>2, <2>3 DEF IdsBelow
  <2>8. OkIsDurable'
    <3>1. \A v \in Writers : v # w => outcome'[v] = outcome[v]
      BY <1>4 DEF Commit, TypeOK
    <3> QED
      BY <2>1, <2>2, <2>3, <3>1 DEF OkIsDurable
  <2> QED
    BY <1>0, <2>5, <2>6, <2>7, <2>8
<1>5. ASSUME NEW w \in Writers, Abort(w) PROVE ChainInv'
  <2>1. /\ pc' = [pc EXCEPT ![w] = "idle"]
        /\ outcome' = [outcome EXCEPT ![w] = "error"]
        /\ lock' = IF lock = w THEN NoWriter ELSE lock
        /\ UNCHANGED <<table, nextId, job>>
    BY <1>5 DEF Abort, Release
  <2>2. LockHeld'
    BY <2>1 DEF LockHeld, TypeOK
  <2>3. PendingExtends'
    BY <2>1 DEF PendingExtends, TypeOK
  <2>4. IdsBelow' /\ ChainLinked' /\ OkIsDurable'
    BY <2>1 DEF IdsBelow, ChainLinked, OkIsDurable, TypeOK
  <2> QED
    BY <1>0, <2>2, <2>3, <2>4
<1>6. CASE VerifierStep
  <2>1. UNCHANGED <<table, nextId, lock, pc, job, outcome>>
    BY <1>6 DEF VerifierStep, VerifyStart, VerifyRow, VerifyEnd, VerifyError, writerVars
  <2> QED
    BY <1>0, <2>1, ChainStable
<1>7. CASE UNCHANGED vars
  BY <1>0, <1>7, ChainStable DEF vars
<1> QED
  BY <1>1, <1>2, <1>3, <1>4, <1>5, <1>6, <1>7 DEF Next, WriterStep

\* However many writers interleave, the committed audit rows form one unbroken
\* hash chain in id order (insertChainedQuery under ChainLockKey).
THEOREM ChainAlwaysLinked == Spec => []ChainLinked
<1>1. ChainInv => ChainLinked
  BY DEF ChainInv
<1> QED
  BY InitChain, NextChain, <1>1, PTL DEF Spec

\* A Write that returned nil has its event in the log for good.
THEOREM OkAlwaysDurable == Spec => []OkIsDurable
<1>1. ChainInv => OkIsDurable
  BY DEF ChainInv
<1> QED
  BY InitChain, NextChain, <1>1, PTL DEF Spec

-----------------------------------------------------------------------------
(***************************************************************************)
(* The verifier.  Its snapshot is a linked chain of finitely many rows     *)
(* that stay committed; a running walk stands on a row of the snapshot and *)
(* carries that row's hash, and has counted the rows up to it.             *)
(***************************************************************************)
Walked(S, c) == {r \in S : r.id <= c}

SnapshotLinked ==
    /\ verify.snap \subseteq table
    /\ UniqueIds(verify.snap) /\ Linked(verify.snap) /\ Sealed(verify.snap)

AtRow ==
    \/ verify.cursor = 0 /\ verify.running = GenesisHash
    \/ \E r \in verify.snap : r.id = verify.cursor /\ r.hash = verify.running

Counted ==
    /\ verify.rows = Cardinality(Walked(verify.snap, verify.cursor))
    /\ verify.state = "ok" => \A r \in verify.snap : r.id <= verify.cursor

VerifyInv ==
    /\ tamper = "none"
    /\ verify.state # "break"
    /\ IsFiniteSet(table) /\ IsFiniteSet(verify.snap)
    /\ SnapshotLinked /\ AtRow /\ Counted

\* The next row of a linked snapshot passes both comparisons of VerifyChain.
LEMMA NextRowClean ==
    ASSUME TypeOK, SnapshotLinked, AtRow, NEW r \in verify.snap, IsNextRow(r)
    PROVE  RowClean(r)
<1> DEFINE S == verify.snap
<1>0. verify.cursor \in Nat /\ \A s \in S : s.id \in Nat \ {0}
  BY DEF TypeOK, VerifyState, Rows
<1>1. r.prev = verify.running
  <2>1. CASE verify.cursor = 0 /\ verify.running = GenesisHash
    <3>1. First(S, r)
      BY <1>0, <2>1 DEF First, IsNextRow
    <3> QED
      BY <2>1, <3>1 DEF SnapshotLinked, Linked
  <2>2. CASE \E q \in S : q.id = verify.cursor /\ q.hash = verify.running
    <3>1. PICK q \in S : q.id = verify.cursor /\ q.hash = verify.running
      BY <2>2
    <3>2. Consecutive(S, q, r)
      BY <1>0, <3>1 DEF Consecutive, IsNextRow
    <3> QED
      BY <3>1, <3>2 DEF SnapshotLinked, Linked
  <2> QED
    BY <2>1, <2>2 DEF AtRow
<1>2. r.hash = ComputeRowHash(r.prev, Payload(r))
  BY DEF SnapshotLinked, Sealed
<1> QED
  BY <1>1, <1>2 DEF RowClean

\* Advancing to the next row counts exactly that row.
LEMMA WalkedAdds ==
    ASSUME TypeOK, UniqueIds(verify.snap), IsFiniteSet(verify.snap),
           NEW r \in verify.snap, IsNextRow(r)
    PROVE  Cardinality(Walked(verify.snap, r.id))
             = Cardinality(Walked(verify.snap, verify.cursor)) + 1
<1> DEFINE S == verify.snap
           W == Walked(S, verify.cursor)
<1>0. verify.cursor \in Nat /\ \A s \in S : s.id \in Nat
  BY DEF TypeOK, VerifyState, Rows
<1>1. Walked(S, r.id) = W \union {r}
  BY <1>0 DEF Walked, IsNextRow, UniqueIds
<1>2. r \notin W
  BY <1>0 DEF Walked, IsNextRow
<1>3. IsFiniteSet(W)
  BY FS_Subset DEF Walked
<1> QED
  BY <1>1, <1>2, <1>3, FS_AddElement

\* No walk has begun.
LEMMA InitVerify == Init => VerifyInv
<1> SUFFICES ASSUME Init PROVE VerifyInv
  OBVIOUS
<1>1. Walked({}, 0) = {}
  BY DEF Walked
<1> QED
  BY <1>1, FS_EmptySet
  DEF Init, VerifyInv, NoVerify, SnapshotLinked, AtRow, Counted, UniqueIds,
      Linked, Sealed

\* A writer step leaves the verifier alone and only adds rows.
LEMMA WriterGrows ==
    ASSUME ChainInv, NEW w \in Writers, WriterStep(w), IsFiniteSet(table)
    PROVE  table \subseteq table' /\ IsFiniteSet(table') /\ UNCHANGED <<verify, tamper>>
<1>1. CASE Commit(w)
  <2>1. PICK r : job[w].rows = {r}
    BY <1>1 DEF Commit, ChainInv, PendingExtends
  <2>2. table' = table \union {r}
    BY <1>1, <2>1 DEF Commit
  <2> QED
    BY <1>1, <2>2, FS_AddElement DEF Commit
<1> QED
  BY <1>1 DEF WriterStep, Begin, Lock, Insert, Abort

\* Every step keeps what is known of the walk.
LEMMA NextVerify == ChainInv /\ VerifyInv /\ [Next]_vars => VerifyInv'
<1> SUFFICES ASSUME ChainInv, VerifyInv, [Next]_vars PROVE VerifyInv'
  OBVIOUS
<1> USE DEF VerifyInv
<1>0. TypeOK
  BY DEF ChainInv
<1>1. ASSUME NEW w \in Writers, WriterStep(w) PROVE VerifyInv'
  BY <1>1, WriterGrows DEF SnapshotLinked, AtRow, Counted
<1>2. CASE VerifyStart
  <2>1. /\ verify'.state = "walking" /\ verify'.snap = table
        /\ verify'.cursor = 0 /\ verify'.running = GenesisHash /\ verify'.rows = 0
        /\ table' = table /\ tamper' = tamper
    BY <1>2 DEF VerifyStart, NoVerify, writerVars
  <2>2. Walked(table, 0) = {}
    BY <1>0 DEF Walked, TypeOK, Rows
  <2>3. SnapshotLinked'
    BY <2>1 DEF SnapshotLinked, ChainInv, ChainLinked
  <2>4. AtRow' /\ Counted'
    BY <2>1, <2>2, FS_EmptySet DEF AtRow, Counted
  <2> QED
    BY <2>1, <2>3, <2>4
<1>3. CASE VerifyRow
  <2>1. PICK r \in verify.snap :
            /\ IsNextRow(r)
            /\ verify' = IF RowClean(r)
                         THEN [verify EXCEPT !.running = r.hash, !.cursor = r.id,
                                             !.rows = @ + 1]
                         ELSE [verify EXCEPT !.state = "break"]
    BY <1>3 DEF VerifyRow
  <2>2. RowClean(r)
    BY <1>0, <2>1, NextRowClean
  <2>3. verify' = [verify EXCEPT !.running = r.hash, !.cursor = r.id, !.rows = @ + 1]
    BY <2>1, <2>2
  <2>4. /\ verify'.state = "walking" /\ verify'.snap = verify.snap
        /\ verify'.cursor = r.id /\ verify'.running = r.hash
        /\ verify'.rows = verify.rows + 1
        /\ table' = table /\ tamper' = tamper
    BY <1>0, <1>3, <2>3 DEF VerifyRow, TypeOK, VerifyState, writerVars
  <2>5. Counted'
    BY <1>0, <2>1, <2>4, WalkedAdds DEF Counted, SnapshotLinked
  <2>6. SnapshotLinked' /\ AtRow'
    BY <2>4 DEF SnapshotLinked, AtRow
  <2> QED
    BY <2>4, <2>5, <2>6
<1>4. CASE VerifyEnd
  <2>1. /\ verify'.state = "ok" /\ verify'.snap = verify.snap
        /\ verify'.cursor = verify.cursor /\ verify'.running = verify.running
        /\ verify'.rows = verify.rows /\ table' = table /\ tamper' = tamper
        /\ \A r \in verify.snap : r.id <= verify.cursor
    BY <1>0, <1>4 DEF VerifyEnd, TypeOK, VerifyState, writerVars
  <2> QED
    BY <2>1 DEF SnapshotLinked, AtRow, Counted
<1>5. CASE VerifyError
  <2>1. /\ verify'.state = "partial" /\ verify'.snap = verify.snap
        /\ verify'.cursor = verify.cursor /\ verify'.running = verify.running
        /\ verify'.rows = verify.rows /\ table' = table /\ tamper' = tamper
    BY <1>0, <1>5 DEF VerifyError, TypeOK, VerifyState, writerVars
  <2> QED
    BY <2>1 DEF SnapshotLinked, AtRow, Counted
<1>6. CASE UNCHANGED vars
  BY <1>6 DEF vars, SnapshotLinked, AtRow, Counted
<1> QED
  BY <1>1, <1>2, <1>3, <1>4, <1>5, <1>6 DEF Next, VerifierStep

\* So it is always known.
LEMMA VerifyAlways == Spec => []VerifyInv
BY InitChain, NextChain, InitVerify, NextVerify, PTL DEF Spec

\* The chain walk never reports a break on a log nobody edited, however many
\* rows are appended while it runs (VerifyChain).
THEOREM NeverFalseBreak == Spec => []NoFalseBreak
<1>1. VerifyInv => NoFalseBreak
  BY DEF VerifyInv, NoFalseBreak
<1> QED
  BY VerifyAlways, <1>1, PTL

\* A verdict OK has walked every row of its snapshot, and all of them are
\* still in the log (VerifyResult.Rows).
THEOREM OkAlwaysComplete == Spec => []OkIsComplete
<1>1. VerifyInv => OkIsComplete
  <2> SUFFICES ASSUME VerifyInv, verify.state = "ok"
               PROVE  /\ verify.rows = Cardinality(verify.snap)
                      /\ verify.snap \subseteq table
    BY DEF OkIsComplete
  <2>1. Walked(verify.snap, verify.cursor) = verify.snap
    BY DEF VerifyInv, Counted, Walked
  <2> QED
    BY <2>1 DEF VerifyInv, Counted, SnapshotLinked
<1> QED
  BY VerifyAlways, <1>1, PTL
-----------------------------------------------------------------------------
(***************************************************************************)
(* PgWriter.Write implements the append-only log of AuditLog.  The mapping *)
(* reads the log off the newest hash; Commit is Record because the pending *)
(* row continues the committed head (PendingExtends), every other step is  *)
(* a Call, a Refuse or a stutter.                                          *)
(***************************************************************************)

\* A call is pending exactly while its transaction runs.
PendingIsRunning ==
    \A w \in Writers : outcome[w] = "pending" <=> pc[w] # "idle"

\* The newest hash of a log with unique ids is the only one.
LEMMA OneHead ==
    ASSUME NEW T \in SUBSET Rows, UniqueIds(T), NEW h, IsHead(T, h)
    PROVE  (CHOOSE g \in HeadHashes(T) : TRUE) = h
<1>1. h \in HeadHashes(T)
  BY DEF HeadHashes, IsHead
<1>2. ASSUME NEW g \in HeadHashes(T) PROVE g = h
  <2>1. IsHead(T, g)
    BY DEF HeadHashes
  <2>2. CASE T = {}
    BY <2>1, <2>2 DEF IsHead
  <2>3. CASE T # {}
    <3>1. PICK r \in T : h = r.hash /\ \A s \in T : s.id <= r.id
      BY <2>3 DEF IsHead
    <3>2. PICK q \in T : g = q.hash /\ \A s \in T : s.id <= q.id
      BY <2>1, <2>3 DEF IsHead
    <3>3. r.id \in Nat /\ q.id \in Nat
      BY DEF Rows
    <3>4. r.id = q.id
      BY <3>1, <3>2, <3>3
    <3> QED
      BY <3>1, <3>2, <3>4 DEF UniqueIds
  <2> QED
    BY <2>2, <2>3
<1> QED
  BY <1>1, <1>2

\* No call is pending at the start.
LEMMA InitPending == Init => PendingIsRunning
BY DEF Init, PendingIsRunning

\* Every step keeps pending calls and running transactions the same.
LEMMA NextPending == TypeOK /\ PendingIsRunning /\ [Next]_vars => PendingIsRunning'
<1> SUFFICES ASSUME TypeOK, PendingIsRunning, [Next]_vars PROVE PendingIsRunning'
  OBVIOUS
<1> USE DEF PendingIsRunning, TypeOK
<1>1. ASSUME NEW w \in Writers, NEW e \in Events, Begin(w, e) PROVE PendingIsRunning'
  BY <1>1 DEF Begin
<1>2. ASSUME NEW w \in Writers, Lock(w) \/ Insert(w) PROVE PendingIsRunning'
  BY <1>2 DEF Lock, Insert
<1>3. ASSUME NEW w \in Writers, Commit(w) PROVE PendingIsRunning'
  <2>1. PICK o \in {"ok", "error"} : outcome' = [outcome EXCEPT ![w] = o]
    BY <1>3 DEF Commit
  <2> QED
    BY <1>3, <2>1 DEF Commit
<1>4. ASSUME NEW w \in Writers, Abort(w) PROVE PendingIsRunning'
  BY <1>4 DEF Abort
<1>5. CASE VerifierStep \/ UNCHANGED vars
  BY <1>5 DEF VerifierStep, VerifyStart, VerifyRow, VerifyEnd, VerifyError,
              writerVars, vars
<1> QED
  BY <1>1, <1>2, <1>3, <1>4, <1>5 DEF Next, WriterStep

Wanted == [w \in Writers |-> <<job[w].ev, job[w].at>>]

\* The initial states of the chain are initial states of the log.
LEMMA InitLog == Init => Log!Init
<1> SUFFICES ASSUME Init PROVE Log!Init
  OBVIOUS
<1>1. SealedHistory = <<>>
  <2>1. IsHead(table, <<>>) /\ UniqueIds(table) /\ table \in SUBSET Rows
    BY DEF Init, IsHead, GenesisHash, UniqueIds
  <2> QED
    BY <2>1, OneHead DEF SealedHistory
<1>2. Wanted \in [Writers -> Payloads]
  BY InitType DEF Wanted, TypeOK, JobOf, Payloads
<1>3. outcome = [w \in Writers |-> "none"]
  BY DEF Init
<1> QED
  BY <1>1, <1>2, <1>3 DEF Log!Init, Wanted

\* The transaction steps of one writer, seen as steps of the log.
LEMMA StepLog ==
    ASSUME ChainInv, PendingIsRunning, NEW w \in Writers, WriterStep(w)
    PROVE  [Log!Next]_(Log!vars)
<1> USE DEF Wanted
<1>0. TypeOK
  BY DEF ChainInv
<1>1. ASSUME NEW e \in Events, Begin(w, e) PROVE Log!Call(w)
  <2>1. SealedHistory' = SealedHistory
    BY <1>1 DEF Begin, SealedHistory
  <2>2. outcome[w] # "pending" /\ outcome' = [outcome EXCEPT ![w] = "pending"]
    BY <1>1 DEF Begin, PendingIsRunning
  <2>3. job' = [job EXCEPT ![w] = [at |-> clock, ev |-> e, rows |-> {}]]
    BY <1>1 DEF Begin
  <2>4. Wanted'[w] = <<e, clock>> /\ <<e, clock>> \in Payloads
    BY <1>0, <2>3 DEF TypeOK, Payloads
  <2>5. Wanted' = [Wanted EXCEPT ![w] = Wanted'[w]]
    BY <1>0, <2>3 DEF TypeOK
  <2> QED
    BY <2>1, <2>2, <2>4, <2>5 DEF Log!Call
<1>2. CASE Lock(w)
  BY <1>2 DEF Lock, SealedHistory, Log!vars
<1>3. CASE Insert(w)
  <2>1. PICK p : job' = [job EXCEPT ![w].rows = {NewRow(w, p)}]
    BY <1>3 DEF Insert
  <2>2. Wanted' = Wanted
    BY <1>0, <2>1 DEF TypeOK, JobOf
  <2>3. SealedHistory' = SealedHistory /\ outcome' = outcome
    BY <1>3 DEF Insert, SealedHistory
  <2> QED
    BY <2>2, <2>3 DEF Log!vars
<1>4. CASE Commit(w)
  <2>1. PICK r \in Rows : /\ job[w].rows = {r} /\ r.id < nextId
                          /\ r.ev = job[w].ev /\ r.at = job[w].at
                          /\ Extends(table, r)
    BY <1>4 DEF Commit, ChainInv, PendingExtends
  <2>2. table' = table \union {r} /\ job' = job
    BY <1>4, <2>1 DEF Commit
  <2>3. SealedHistory = r.prev
    BY <1>0, <2>1, OneHead DEF SealedHistory, Extends, ChainInv, ChainLinked, TypeOK
  <2>4. IsHead(table', r.hash)
    <3>1. \A s \in table' : s.id <= r.id
      BY <1>0, <2>1, <2>2 DEF Extends, TypeOK, Rows
    <3> QED
      BY <2>2, <3>1 DEF IsHead
  <2>5. UniqueIds(table') /\ table' \in SUBSET Rows
    BY <1>0, <2>1, <2>2, AppendLinked DEF ChainInv, ChainLinked, TypeOK
  <2>6. SealedHistory' = r.hash
    BY <2>4, <2>5, OneHead DEF SealedHistory
  <2>7. r.hash = Append(r.prev, <<job[w].ev, job[w].at>>)
    BY <2>1 DEF Extends, ComputeRowHash, Payload
  <2>8. SealedHistory' = Append(SealedHistory, Wanted[w])
    BY <2>3, <2>6, <2>7
  <2>9. /\ outcome[w] = "pending"
        /\ \E o \in {"ok", "error"} : outcome' = [outcome EXCEPT ![w] = o]
    BY <1>4 DEF Commit, PendingIsRunning
  <2>10. Log!Record(w)
    BY <2>2, <2>8, <2>9 DEF Log!Record
  <2> QED
    BY <2>10 DEF Log!Next
<1>5. CASE Abort(w)
  <2>1. Log!Refuse(w)
    BY <1>5 DEF Abort, PendingIsRunning, SealedHistory, Log!Refuse
  <2> QED
    BY <2>1 DEF Log!Next
<1> QED
  BY <1>1, <1>2, <1>3, <1>4, <1>5 DEF WriterStep, Log!Next

\* For any number of writers, every behaviour of the transactions is, step by
\* step, a behaviour of the append-only log (PgWriter.Write behind the Writer
\* interface).
THEOREM LogImplemented == Spec => ImplementsLog
<1>1. ChainInv /\ PendingIsRunning /\ [Next]_vars => [Log!Next]_(Log!vars)
  <2> SUFFICES ASSUME ChainInv, PendingIsRunning, [Next]_vars
               PROVE  [Log!Next]_(Log!vars)
    OBVIOUS
  <2>1. CASE VerifierStep \/ UNCHANGED vars
    BY <2>1 DEF VerifierStep, VerifyStart, VerifyRow, VerifyEnd, VerifyError,
                writerVars, vars, Log!vars, SealedHistory
  <2> QED
    BY <2>1, StepLog DEF Next
<1>2. ChainInv => TypeOK
  BY DEF ChainInv
<1> QED
  BY InitChain, NextChain, InitPending, NextPending, InitLog, <1>1, <1>2, PTL
  DEF Spec, ImplementsLog, Log!Spec
-----------------------------------------------------------------------------
(***************************************************************************)
(* A finite set of rows has an oldest and a newest row.  There is no       *)
(* induction here: the rows below a row form a finite set, and strict      *)
(* inclusion is well founded on finite sets.                               *)
(***************************************************************************)
LEMMA OldestRow ==
    ASSUME NEW T, IsFiniteSet(T), T # {}, \A r \in T : r.id \in Int
    PROVE  \E m \in T : \A r \in T : m.id <= r.id
<1> DEFINE Below(m) == {s \in T : s.id < m.id}
           B == {Below(m) : m \in T}
<1>1. IsWellFoundedOn(StrictSubsetOrdering(T), FiniteSubsetsOf(T))
  BY FS_StrictSubsetOrderingWellFounded
<1>2. B \subseteq FiniteSubsetsOf(T)
  BY FS_Subset DEF FiniteSubsetsOf
<1>3. B # {}
  OBVIOUS
<1>4. PICK b \in B : \A c \in B : ~(<<c, b>> \in StrictSubsetOrdering(T))
  <2> HIDE DEF B
  <2> QED
    BY <1>1, <1>2, <1>3, WFMin
<1>5. PICK m \in T : b = Below(m)
  OBVIOUS
<1>6. ASSUME NEW r \in T, ~(m.id <= r.id) PROVE FALSE
  <2>1. r \in Below(m) /\ r \notin Below(r)
    BY <1>6
  <2>2. Below(r) \subseteq Below(m)
    BY <1>6
  <2>3. <<Below(r), Below(m)>> \in (SUBSET T) \X (SUBSET T)
    OBVIOUS
  <2>4. <<Below(r), Below(m)>> \in StrictSubsetOrdering(T)
    <3> HIDE DEF Below
    <3> QED
      BY <2>1, <2>2, <2>3 DEF StrictSubsetOrdering
  <2> QED
    BY <1>4, <1>5, <2>4
<1> QED
  BY <1>6

\* The same the other way round: the rows above a row.
LEMMA NewestRow ==
    ASSUME NEW T, IsFiniteSet(T), T # {}, \A r \in T : r.id \in Int
    PROVE  \E m \in T : \A r \in T : r.id <= m.id
<1> DEFINE Above(m) == {s \in T : s.id > m.id}
           A == {Above(m) : m \in T}
<1>1. IsWellFoundedOn(StrictSubsetOrdering(T), FiniteSubsetsOf(T))
  BY FS_StrictSubsetOrderingWellFounded
<1>2. A \subseteq FiniteSubsetsOf(T)
  BY FS_Subset DEF FiniteSubsetsOf
<1>3. A # {}
  OBVIOUS
<1>4. PICK a \in A : \A c \in A : ~(<<c, a>> \in StrictSubsetOrdering(T))
  <2> HIDE DEF A
  <2> QED
    BY <1>1, <1>2, <1>3, WFMin
<1>5. PICK m \in T : a = Above(m)
  OBVIOUS
<1>6. ASSUME NEW r \in T, ~(r.id <= m.id) PROVE FALSE
  <2>1. r \in Above(m) /\ r \notin Above(r)
    BY <1>6
  <2>2. Above(r) \subseteq Above(m)
    BY <1>6
  <2>3. <<Above(r), Above(m)>> \in (SUBSET T) \X (SUBSET T)
    OBVIOUS
  <2>4. <<Above(r), Above(m)>> \in StrictSubsetOrdering(T)
    <3> HIDE DEF Above
    <3> QED
      BY <2>1, <2>2, <2>3 DEF StrictSubsetOrdering
  <2> QED
    BY <1>4, <1>5, <2>4
<1> QED
  BY <1>6

-----------------------------------------------------------------------------
(***************************************************************************)
(* Direct edits of the table.  An edit, a forged row or the deletion of a  *)
(* row that is not the newest breaks the chain at a row, rows appended     *)
(* later do not mend it, and a walk that has passed a row found its seal   *)
(* and its link intact: so it cannot reach the end of such a snapshot.     *)
(***************************************************************************)
Broken(T) == ~(Linked(T) /\ Sealed(T))

\* An uncommitted row is newer than every committed one, edited or not.
PendingAbove ==
    \A w \in Writers : pc[w] = "inserted" =>
        \E r \in Rows : /\ job[w].rows = {r} /\ r.id < nextId
                        /\ \A s \in table : s.id < r.id

\* The rows up to id c are sealed and linked.
CleanTo(S, c) ==
    /\ \A r \in S : r.id <= c => r.hash = ComputeRowHash(r.prev, Payload(r))
    /\ \A r \in S : r.id <= c /\ First(S, r) => r.prev = GenesisHash
    /\ \A q, r \in S : r.id <= c /\ Consecutive(S, q, r) => r.prev = q.hash

TableInv ==
    /\ TypeOK /\ LockHeld /\ IdsBelow /\ PendingAbove
    /\ IsFiniteSet(table) /\ UniqueIds(table)
    /\ tamper = "none" => ChainInv
    /\ tamper = "inner" => Broken(table)

WalkInv ==
    /\ UniqueIds(verify.snap)
    /\ verify.tamper = "inner" => Broken(verify.snap)
    /\ verify.state \in {"walking", "ok"} =>
          AtRow /\ CleanTo(verify.snap, verify.cursor)
    /\ verify.state = "ok" => \A r \in verify.snap : r.id <= verify.cursor

TamperInv == TableInv /\ WalkInv

\* A hash that seals one more payload is another hash.
LEMMA HashGrows ==
    ASSUME NEW h \in Hashes, NEW x \in Payloads
    PROVE  ComputeRowHash(h, x) # h /\ ComputeRowHash(h, x) # GenesisHash
<1>1. h \in Seq(Payloads)
  BY DEF Hashes
<1>2. Append(h, x) # h
  <2>1. Len(Append(h, x)) = Len(h) + 1 /\ Len(h) \in Nat
    BY <1>1
  <2> QED
    BY <2>1
<1>3. Append(h, x) # <<>>
  BY <1>1, AppendProperties
<1> QED
  BY <1>2, <1>3 DEF ComputeRowHash, GenesisHash

\* Two payloads sealed onto one hash give two hashes.
LEMMA HashTells ==
    ASSUME NEW h \in Hashes, NEW x \in Payloads, NEW y \in Payloads,
           ComputeRowHash(h, x) = ComputeRowHash(h, y)
    PROVE  x = y
<1>1. h \in Seq(Payloads)
  BY DEF Hashes
<1>2. /\ Append(h, x)[Len(h) + 1] = x
      /\ Append(h, y)[Len(h) + 1] = y
  BY <1>1
<1> QED
  BY <1>2 DEF ComputeRowHash

\* The types of a row's parts.
LEMMA RowParts ==
    ASSUME NEW r \in Rows
    PROVE  /\ r.id \in Nat \ {0} /\ r.ev \in Events /\ r.at \in Nat
           /\ r.prev \in Hashes /\ r.hash \in Hashes /\ Payload(r) \in Payloads
BY DEF Rows, Payload, Payloads

\* A row appended to a broken log leaves it broken (Commit after a tampering).
LEMMA AppendKeepsBroken ==
    ASSUME NEW T \in SUBSET Rows, NEW n \in Rows, \A s \in T : s.id < n.id,
           Broken(T)
    PROVE  Broken(T \union {n})
<1> DEFINE U == T \union {n}
<1> SUFFICES ASSUME Linked(U), Sealed(U) PROVE FALSE
  BY DEF Broken
<1>0. \A r \in U : r.id \in Nat
  BY RowParts
<1>1. Sealed(T)
  BY DEF Sealed
<1>2. ASSUME NEW r \in T, First(T, r) PROVE r.prev = GenesisHash
  <2>1. First(U, r)
    BY <1>0, <1>2 DEF First
  <2> QED
    BY <2>1 DEF Linked
<1>3. ASSUME NEW r \in T, NEW s \in T, Consecutive(T, r, s) PROVE s.prev = r.hash
  <2>1. Consecutive(U, r, s)
    BY <1>0, <1>3 DEF Consecutive
  <2> QED
    BY <2>1 DEF Linked
<1> QED
  BY <1>1, <1>2, <1>3 DEF Linked, Broken

\* The row after r, in a log where r is not the newest.
LEMMA NextOlder ==
    ASSUME NEW T \in SUBSET Rows, IsFiniteSet(T), NEW i \in Nat,
           \E s \in T : s.id > i
    PROVE  \E s \in T : s.id > i /\ \A t \in T : t.id > i => s.id <= t.id
<1> DEFINE A == {s \in T : s.id > i}
<1>1. IsFiniteSet(A) /\ A # {}
  BY FS_Subset
<1>2. \A s \in A : s.id \in Int
  BY RowParts
<1>3. PICK s \in A : \A t \in A : s.id <= t.id
  <2> HIDE DEF A
  <2> QED
    BY <1>1, <1>2, OldestRow
<1> QED
  BY <1>3

\* An edited event no longer matches its row hash.
LEMMA EditBreaks ==
    ASSUME NEW T \in SUBSET Rows, Sealed(T), NEW r \in T, NEW e \in Events, e # r.ev
    PROVE  Broken((T \ {r}) \union {[r EXCEPT !.ev = e]})
<1> DEFINE n == [r EXCEPT !.ev = e]
<1>0. n \in Rows /\ n.prev = r.prev /\ n.hash = r.hash
      /\ Payload(n) = <<e, r.at>> /\ Payload(r) = <<r.ev, r.at>>
  BY DEF Rows, Payload
<1>1. r.hash = ComputeRowHash(r.prev, Payload(r))
  BY DEF Sealed
<1>2. n.hash # ComputeRowHash(n.prev, Payload(n))
  <2> SUFFICES ASSUME n.hash = ComputeRowHash(n.prev, Payload(n)) PROVE FALSE
    OBVIOUS
  <2>1. Payload(r) = Payload(n)
    BY <1>0, <1>1, HashTells, RowParts
  <2> QED
    BY <1>0, <2>1
<1> QED
  BY <1>2 DEF Broken, Sealed

\* After the deletion of r the row behind it still seals r.
LEMMA DeleteBreaks ==
    ASSUME NEW T \in SUBSET Rows, IsFiniteSet(T), UniqueIds(T), Linked(T), Sealed(T),
           NEW r \in T, \E s \in T : s.id > r.id
    PROVE  Broken(T \ {r})
<1> DEFINE U == T \ {r}
<1> SUFFICES ASSUME Linked(U) PROVE FALSE
  BY DEF Broken
<1>0. \A t \in T : t.id \in Nat
  BY RowParts
<1>1. PICK s \in T : s.id > r.id /\ \A t \in T : t.id > r.id => s.id <= t.id
  BY <1>0, NextOlder
<1>2. s \in U /\ Consecutive(T, r, s)
  BY <1>0, <1>1 DEF Consecutive
<1>3. s.prev = ComputeRowHash(r.prev, Payload(r))
  BY <1>2 DEF Linked, Sealed
<1>4. s.prev # r.prev /\ s.prev # GenesisHash
  BY <1>3, HashGrows, RowParts
<1>5. CASE \A q \in T : ~(q.id < r.id)
  <2>1. First(T, r)
    BY <1>0, <1>5 DEF First
  <2>2. First(U, s)
    BY <1>0, <1>1, <1>5 DEF First, UniqueIds
  <2> QED
    BY <1>2, <1>4, <2>2 DEF Linked
<1>6. CASE \E q \in T : q.id < r.id
  <2> DEFINE L == {q \in T : q.id < r.id}
  <2>1. IsFiniteSet(L) /\ L # {} /\ \A q \in L : q.id \in Int
    BY <1>0, <1>6, FS_Subset
  <2>2. PICK q \in L : \A t \in L : t.id <= q.id
    <3> HIDE DEF L
    <3> QED
      BY <2>1, NewestRow
  <2>3. Consecutive(T, q, r)
    BY <1>0, <2>2 DEF Consecutive
  <2>4. r.prev = q.hash
    BY <2>2, <2>3 DEF Linked
  <2>5. q \in U /\ Consecutive(U, q, s)
    BY <1>0, <1>1, <2>2 DEF Consecutive, UniqueIds
  <2>6. s.prev = q.hash
    BY <1>2, <2>5 DEF Linked
  <2> QED
    BY <1>4, <2>4, <2>6
<1> QED
  BY <1>5, <1>6

\* The row behind a forged row still seals the row before it.
LEMMA ForgeBreaks ==
    ASSUME NEW T \in SUBSET Rows, IsFiniteSet(T), UniqueIds(T), Linked(T),
           NEW n \in Rows, \A r \in T : r.id # n.id, \E s \in T : s.id > n.id,
           n.prev \in HeadHashes({r \in T : r.id < n.id}),
           n.hash = ComputeRowHash(n.prev, Payload(n))
    PROVE  Broken(T \union {n})
<1> DEFINE U == T \union {n}
           L == {r \in T : r.id < n.id}
<1> SUFFICES ASSUME Linked(U) PROVE FALSE
  BY DEF Broken
<1>0. \A t \in U : t.id \in Nat
  BY RowParts
<1>1. PICK s \in T : s.id > n.id /\ \A t \in T : t.id > n.id => s.id <= t.id
  BY <1>0, NextOlder
<1>2. Consecutive(U, n, s)
  BY <1>0, <1>1 DEF Consecutive
<1>3. s.prev = n.hash
  BY <1>2 DEF Linked
<1>4. s.prev # n.prev
  BY <1>3, HashGrows, RowParts
<1>5. IsHead(L, n.prev)
  BY DEF HeadHashes
<1>6. CASE L = {}
  <2>1. First(T, s)
    BY <1>0, <1>1, <1>6 DEF First
  <2> QED
    BY <1>4, <1>5, <1>6, <2>1 DEF Linked, IsHead
<1>7. CASE L # {}
  <2>1. PICK q \in L : n.prev = q.hash /\ \A t \in L : t.id <= q.id
    BY <1>5, <1>7 DEF IsHead
  <2>2. Consecutive(T, q, s)
    BY <1>0, <1>1, <2>1 DEF Consecutive
  <2> QED
    BY <1>4, <2>1, <2>2 DEF Linked
<1> QED
  BY <1>6, <1>7

\* A new row is newer than the log.
LEMMA NewRowAbove ==
    ASSUME TypeOK, IdsBelow, NEW w \in Writers, NEW p \in HeadHashes(table)
    PROVE  /\ NewRow(w, p) \in Rows /\ NewRow(w, p).id = nextId
           /\ \A s \in table : s.id < NewRow(w, p).id
BY NewRowType DEF NewRow, IdsBelow

\* Writers keep what is known of the table, edited or not.
LEMMA WriterTable ==
    ASSUME TableInv, NEW w \in Writers, WriterStep(w)
    PROVE  TableInv'
<1> USE DEF TableInv
<1>0. TypeOK' /\ tamper' = tamper /\ (tamper = "none" => ChainInv')
  <2>1. [Next]_vars
    BY DEF Next
  <2>2. tamper' = tamper
    BY DEF WriterStep, Begin, Lock, Insert, Commit, Abort
  <2> QED
    BY <2>1, <2>2, NextType, NextChain
<1>1. ASSUME NEW e \in Events, Begin(w, e) PROVE TableInv'
  <2>1. pc' = [pc EXCEPT ![w] = "begun"] /\ UNCHANGED <<table, nextId, lock>>
    BY <1>1 DEF Begin
  <2>2. \A v \in Writers : v # w => job'[v] = job[v]
    BY <1>1 DEF Begin, TypeOK
  <2>3. LockHeld' /\ IdsBelow'
    BY <2>1 DEF LockHeld, IdsBelow, TypeOK
  <2>4. PendingAbove'
    BY <2>1, <2>2 DEF PendingAbove, TypeOK
  <2> QED
    BY <1>0, <2>1, <2>3, <2>4
<1>2. CASE Lock(w)
  <2>1. /\ pc[w] = "begun" /\ lock = NoWriter /\ lock' = w
        /\ pc' = [pc EXCEPT ![w] = "locked"]
        /\ UNCHANGED <<table, nextId, job>>
    BY <1>2 DEF Lock
  <2>2. LockHeld'
    BY <2>1, AuditAssumption DEF LockHeld, TypeOK
  <2>3. IdsBelow' /\ PendingAbove'
    BY <2>1 DEF IdsBelow, PendingAbove, TypeOK
  <2> QED
    BY <1>0, <2>1, <2>2, <2>3
<1>3. CASE Insert(w)
  <2>1. PICK p \in HeadHashes(table) :
            job' = [job EXCEPT ![w].rows = {NewRow(w, p)}]
    BY <1>3 DEF Insert
  <2>2. /\ pc[w] = "locked" /\ nextId' = nextId + 1
        /\ pc' = [pc EXCEPT ![w] = "inserted"]
        /\ UNCHANGED <<table, lock>>
    BY <1>3 DEF Insert
  <2>3. LockHeld'
    BY <2>2 DEF LockHeld, TypeOK
  <2>4. IdsBelow'
    BY <2>2 DEF IdsBelow, TypeOK, Rows
  <2>5. PendingAbove'
    <3>1. job'[w].rows = {NewRow(w, p)}
      BY <2>1 DEF TypeOK, JobOf
    <3>2. /\ NewRow(w, p) \in Rows /\ NewRow(w, p).id < nextId'
          /\ \A s \in table : s.id < NewRow(w, p).id
      BY <2>2, NewRowAbove DEF TypeOK
    <3>3. \A v \in Writers : pc'[v] = "inserted" => v = w
      BY <2>2 DEF TypeOK, LockHeld
    <3> QED
      BY <2>2, <3>1, <3>2, <3>3 DEF PendingAbove
  <2> QED
    BY <1>0, <2>2, <2>3, <2>4, <2>5
<1>4. CASE Commit(w)
  <2>1. /\ pc[w] = "inserted" /\ pc' = [pc EXCEPT ![w] = "idle"]
        /\ table' = table \union job[w].rows
        /\ UNCHANGED <<nextId, job>>
    BY <1>4 DEF Commit
  <2>2. PICK r \in Rows : /\ job[w].rows = {r} /\ r.id < nextId
                          /\ \A s \in table : s.id < r.id
    BY <2>1 DEF PendingAbove
  <2>3. table' = table \union {r}
    BY <2>1, <2>2
  <2>4. \A v \in Writers : v # w => pc[v] \notin {"locked", "inserted"}
    BY <2>1 DEF LockHeld, TypeOK
  <2>5. LockHeld' /\ PendingAbove'
    BY <2>1, <2>4 DEF LockHeld, PendingAbove, TypeOK
  <2>6. IdsBelow'
    BY <2>1, <2>2, <2>3 DEF IdsBelow
  <2>7. UniqueIds(table')
    <3>1. \A s \in table' : s.id \in Nat
      BY <1>0, RowParts DEF TypeOK
    <3> QED
      BY <2>2, <2>3, <3>1 DEF UniqueIds
  <2>8. IsFiniteSet(table')
    BY <2>3, FS_AddElement
  <2>9. tamper = "inner" => Broken(table')
    BY <2>2, <2>3, AppendKeepsBroken DEF TypeOK
  <2> QED
    BY <1>0, <2>5, <2>6, <2>7, <2>8, <2>9
<1>5. CASE Abort(w)
  <2>1. /\ pc' = [pc EXCEPT ![w] = "idle"]
        /\ lock' = IF lock = w THEN NoWriter ELSE lock
        /\ UNCHANGED <<table, nextId, job>>
    BY <1>5 DEF Abort, Release
  <2>2. LockHeld' /\ PendingAbove' /\ IdsBelow'
    BY <2>1 DEF LockHeld, PendingAbove, IdsBelow, TypeOK
  <2> QED
    BY <1>0, <2>1, <2>2
<1> QED
  BY <1>1, <1>2, <1>3, <1>4, <1>5 DEF WriterStep

\* A step that leaves the writers and the mark alone keeps it too.
LEMMA TableStable ==
    TableInv /\ TypeOK' /\ UNCHANGED <<table, nextId, lock, pc, job, outcome, tamper>>
        => TableInv'
BY ChainStable DEF TableInv, LockHeld, IdsBelow, PendingAbove

\* What an edit of the table has to respect for the writers' invariants.
LEMMA EditedTable ==
    ASSUME TableInv, UNCHANGED <<nextId, clock, lock, pc, job, outcome, verify>>,
           table' \in SUBSET Rows, IsFiniteSet(table'), UniqueIds(table'),
           \A r \in table' : \E s \in table : r.id <= s.id,
           tamper' \in {"inner", "tail"}, tamper' = "inner" => Broken(table')
    PROVE  TableInv'
<1> USE DEF TableInv
<1>1. TypeOK'
  BY DEF TypeOK
<1>2. LockHeld'
  BY DEF LockHeld
<1>3. \A r \in table' \union table : r.id \in Nat
  BY RowParts DEF TypeOK
<1>4. IdsBelow'
  BY <1>3 DEF IdsBelow, TypeOK
<1>5. PendingAbove'
  <2> SUFFICES ASSUME NEW w \in Writers, pc[w] = "inserted"
               PROVE  \E r \in Rows : /\ job[w].rows = {r} /\ r.id < nextId
                                      /\ \A s \in table' : s.id < r.id
    BY DEF PendingAbove
  <2>1. PICK r \in Rows : /\ job[w].rows = {r} /\ r.id < nextId
                          /\ \A s \in table : s.id < r.id
    BY DEF PendingAbove
  <2> QED
    BY <1>3, <2>1, RowParts
<1> QED
  BY <1>1, <1>2, <1>4, <1>5

\* The three tamperings leave a log that is broken, or that lost its newest row.
LEMMA TamperTable ==
    ASSUME TableInv, Edit \/ Delete \/ Forge
    PROVE  TableInv'
<1>0. tamper = "none"
  BY DEF Edit, Delete, Forge
<1>1. ChainInv /\ table \in SUBSET Rows /\ IsFiniteSet(table)
  BY <1>0 DEF TableInv, TypeOK
<1>2. UniqueIds(table) /\ Linked(table) /\ Sealed(table)
  BY <1>1 DEF ChainInv, ChainLinked
<1>3. \A r \in table : r.id \in Nat
  BY <1>1, RowParts
<1>4. CASE Edit
  <2>1. PICK r \in table, e \in Events :
            e # r.ev /\ table' = (table \ {r}) \union {[r EXCEPT !.ev = e]}
    BY <1>4 DEF Edit
  <2> DEFINE n == [r EXCEPT !.ev = e]
  <2>2. n \in Rows /\ n.id = r.id
    BY <1>1 DEF Rows
  <2>3. table' \in SUBSET Rows
    BY <1>1, <2>1, <2>2
  <2>4. IsFiniteSet(table')
    BY <1>1, <2>1, FS_RemoveElement, FS_AddElement
  <2>5. UniqueIds(table')
    BY <1>2, <2>1, <2>2 DEF UniqueIds
  <2>6. ASSUME NEW q \in table' PROVE \E s \in table : q.id <= s.id
    <3>1. q \in table \/ q = n
      BY <2>1
    <3>2. q \in table => q.id <= q.id
      BY <1>3
    <3>3. q = n => q.id <= r.id
      BY <1>3, <2>2
    <3> QED
      BY <3>1, <3>2, <3>3
  <2>7. Broken(table')
    BY <1>1, <1>2, <2>1, EditBreaks
  <2> QED
    BY <1>4, <2>3, <2>4, <2>5, <2>6, <2>7, EditedTable DEF Edit
<1>5. CASE Delete
  <2>1. PICK r \in table :
            /\ table' = table \ {r}
            /\ tamper' = IF HasSuccessor(r) THEN "inner" ELSE "tail"
    BY <1>5 DEF Delete
  <2>2. table' \in SUBSET Rows /\ IsFiniteSet(table') /\ UniqueIds(table')
    BY <1>1, <1>2, <2>1, FS_RemoveElement DEF UniqueIds
  <2>3. \A q \in table' : \E s \in table : q.id <= s.id
    BY <1>3, <2>1
  <2>4. tamper' = "inner" => Broken(table')
    BY <1>1, <1>2, <2>1, DeleteBreaks DEF HasSuccessor
  <2> QED
    BY <1>5, <2>1, <2>2, <2>3, <2>4, EditedTable DEF Delete
<1>6. CASE Forge
  <2>1. PICK i \in 1..MaxId, e \in Events :
            /\ \A r \in table : r.id # i
            /\ \E s \in table : s.id > i
            /\ \E p \in HeadHashes({r \in table : r.id < i}) :
                  table' = table \union
                    {[id |-> i, at |-> clock, ev |-> e, prev |-> p,
                      hash |-> ComputeRowHash(p, <<e, clock>>)]}
    BY <1>6 DEF Forge
  <2>2. PICK p \in HeadHashes({r \in table : r.id < i}) :
            table' = table \union
              {[id |-> i, at |-> clock, ev |-> e, prev |-> p,
                hash |-> ComputeRowHash(p, <<e, clock>>)]}
    BY <2>1
  <2> DEFINE n == [id |-> i, at |-> clock, ev |-> e, prev |-> p,
                   hash |-> ComputeRowHash(p, <<e, clock>>)]
  <2>3. p \in Hashes
    BY <1>1, <2>2, HeadType
  <2>4. clock \in Nat /\ <<e, clock>> \in Payloads
    BY DEF TableInv, TypeOK, Payloads
  <2>5. ComputeRowHash(p, <<e, clock>>) \in Hashes
    BY <2>3, <2>4 DEF Hashes, ComputeRowHash
  <2>6. i \in Nat \ {0}
    BY AuditAssumption
  <2>7. n \in Rows
    BY <2>3, <2>4, <2>5, <2>6 DEF Rows
  <2>8. /\ n.id = i /\ n.prev = p /\ n.hash = ComputeRowHash(n.prev, Payload(n))
        /\ table' = table \union {n}
    BY <2>2 DEF Payload
  <2> HIDE DEF n
  <2>9. table' \in SUBSET Rows /\ IsFiniteSet(table')
    BY <1>1, <2>7, <2>8, FS_AddElement
  <2>10. UniqueIds(table')
    BY <1>2, <2>1, <2>8 DEF UniqueIds
  <2>11. \A q \in table' : \E s \in table : q.id <= s.id
    BY <1>3, <2>1, <2>6, <2>8
  <2>12. Broken(table')
    BY <1>1, <1>2, <2>1, <2>2, <2>7, <2>8, ForgeBreaks
  <2> QED
    BY <1>6, <2>9, <2>10, <2>11, <2>12, EditedTable DEF Forge
<1> QED
  BY <1>4, <1>5, <1>6

\* A row that passes both comparisons extends the clean part of the walk.
LEMMA CleanRow ==
    ASSUME TypeOK, UniqueIds(verify.snap), AtRow, CleanTo(verify.snap, verify.cursor),
           NEW r \in verify.snap, IsNextRow(r), RowClean(r)
    PROVE  CleanTo(verify.snap, r.id)
<1> DEFINE S == verify.snap
           c == verify.cursor
<1>0. c \in Nat /\ \A s \in S : s.id \in Nat \ {0}
  BY DEF TypeOK, VerifyState, Rows
<1>1. \A s \in S : s.id <= r.id => s = r \/ s.id <= c
  BY <1>0 DEF IsNextRow, UniqueIds
<1>2. r.prev = verify.running /\ r.hash = ComputeRowHash(r.prev, Payload(r))
  BY DEF RowClean
<1>3. ASSUME First(S, r) PROVE r.prev = GenesisHash
  <2>1. c = 0 /\ verify.running = GenesisHash
    BY <1>0, <1>3 DEF AtRow, First, IsNextRow
  <2> QED
    BY <1>2, <2>1
<1>4. ASSUME NEW q \in S, Consecutive(S, q, r) PROVE r.prev = q.hash
  <2>1. q.id < r.id
    BY <1>4 DEF Consecutive
  <2>2. q.id <= c
    BY <1>0, <1>1, <2>1
  <2>3. PICK p \in S : p.id = c /\ p.hash = verify.running
    BY <1>0, <2>2 DEF AtRow
  <2>4. p.id <= q.id
    BY <1>0, <1>4, <2>3 DEF Consecutive, IsNextRow
  <2>5. p = q
    BY <1>0, <2>2, <2>3, <2>4 DEF UniqueIds
  <2> QED
    BY <1>2, <2>3, <2>5
<1>5. \A s \in S : s.id <= r.id => s.hash = ComputeRowHash(s.prev, Payload(s))
  BY <1>1, <1>2 DEF CleanTo
<1>6. \A s \in S : s.id <= r.id /\ First(S, s) => s.prev = GenesisHash
  BY <1>1, <1>3 DEF CleanTo
<1>7. \A q, s \in S : s.id <= r.id /\ Consecutive(S, q, s) => s.prev = q.hash
  BY <1>1, <1>4 DEF CleanTo
<1> QED
  BY <1>5, <1>6, <1>7 DEF CleanTo

\* Every verifier step keeps what is known of the walk.
LEMMA VerifierWalk ==
    ASSUME TableInv, WalkInv, VerifierStep
    PROVE  WalkInv'
<1>0. TypeOK
  BY DEF TableInv
<1>1. CASE VerifyStart
  <2>1. /\ verify'.state = "walking" /\ verify'.snap = table
        /\ verify'.cursor = 0 /\ verify'.running = GenesisHash
        /\ verify'.tamper = tamper
    BY <1>1 DEF VerifyStart, NoVerify
  <2>2. AtRow'
    BY <2>1 DEF AtRow
  <2>3. CleanTo(table, 0)
    <3>1. \A r \in table : ~(r.id <= 0)
      BY <1>0, RowParts DEF TypeOK
    <3> QED
      BY <3>1 DEF CleanTo
  <2> QED
    BY <2>1, <2>2, <2>3 DEF TableInv, WalkInv
<1>2. CASE VerifyRow
  <2>1. PICK r \in verify.snap :
            /\ IsNextRow(r)
            /\ verify' = IF RowClean(r)
                         THEN [verify EXCEPT !.running = r.hash, !.cursor = r.id,
                                             !.rows = @ + 1]
                         ELSE [verify EXCEPT !.state = "break"]
    BY <1>2 DEF VerifyRow
  <2>2. verify.state = "walking"
    BY <1>2 DEF VerifyRow
  <2>3. CASE RowClean(r)
    <3>1. verify' = [verify EXCEPT !.running = r.hash, !.cursor = r.id,
                                   !.rows = @ + 1]
      BY <2>1, <2>3
    <3>2. /\ verify'.state = "walking" /\ verify'.snap = verify.snap
          /\ verify'.cursor = r.id /\ verify'.running = r.hash
          /\ verify'.tamper = verify.tamper
      BY <1>0, <2>2, <3>1 DEF TypeOK, VerifyState
    <3>3. AtRow'
      BY <3>2 DEF AtRow
    <3>4. CleanTo(verify.snap, r.id)
      BY <1>0, <2>1, <2>2, <2>3, CleanRow DEF WalkInv
    <3> QED
      BY <3>2, <3>3, <3>4 DEF WalkInv
  <2>4. CASE ~RowClean(r)
    <3>1. verify' = [verify EXCEPT !.state = "break"]
      BY <2>1, <2>4
    <3>2. /\ verify'.state = "break" /\ verify'.snap = verify.snap
          /\ verify'.tamper = verify.tamper
      BY <1>0, <3>1 DEF TypeOK, VerifyState
    <3> QED
      BY <3>2 DEF WalkInv
  <2> QED
    BY <2>3, <2>4
<1>3. CASE VerifyEnd
  <2>1. /\ verify.state = "walking" /\ verify'.state = "ok"
        /\ verify'.snap = verify.snap
        /\ verify'.cursor = verify.cursor /\ verify'.running = verify.running
        /\ verify'.tamper = verify.tamper
        /\ \A r \in verify.snap : r.id <= verify.cursor
    BY <1>0, <1>3 DEF VerifyEnd, TypeOK, VerifyState
  <2> QED
    BY <2>1 DEF WalkInv, AtRow
<1>4. CASE VerifyError
  <2>1. /\ verify'.state = "partial" /\ verify'.snap = verify.snap
        /\ verify'.tamper = verify.tamper
    BY <1>0, <1>4 DEF VerifyError, TypeOK, VerifyState
  <2> QED
    BY <2>1 DEF WalkInv
<1> QED
  BY <1>1, <1>2, <1>3, <1>4 DEF VerifierStep

\* Steps of writers, edits and stutters leave the walk alone.
LEMMA WalkStable == WalkInv /\ verify' = verify => WalkInv'
BY DEF WalkInv, AtRow

\* An empty log nobody edited.
LEMMA InitTamper == Init => TamperInv
<1> SUFFICES ASSUME Init PROVE TamperInv
  OBVIOUS
<1>1. ChainInv
  BY InitChain
<1>2. IsFiniteSet(table) /\ tamper = "none"
  BY FS_EmptySet DEF Init
<1>3. PendingAbove
  BY DEF Init, PendingAbove
<1>4. WalkInv
  BY DEF Init, NoVerify, WalkInv, UniqueIds
<1> QED
  BY <1>1, <1>2, <1>3, <1>4 DEF TamperInv, TableInv, ChainInv, ChainLinked

\* Every step, an edit of the table included, keeps the invariant.
LEMMA NextTamper == TamperInv /\ [TamperNext]_vars => TamperInv'
<1> SUFFICES ASSUME TableInv, WalkInv, [TamperNext]_vars PROVE TableInv' /\ WalkInv'
  BY DEF TamperInv
<1>1. ASSUME NEW w \in Writers, WriterStep(w) PROVE TableInv' /\ WalkInv'
  <2>1. verify' = verify
    BY <1>1 DEF WriterStep, Begin, Lock, Insert, Commit, Abort
  <2> QED
    BY <1>1, <2>1, WriterTable, WalkStable
<1>2. CASE VerifierStep
  <2>1. UNCHANGED <<table, nextId, lock, pc, job, outcome, tamper>>
    BY <1>2 DEF VerifierStep, VerifyStart, VerifyRow, VerifyEnd, VerifyError, writerVars
  <2>2. TypeOK'
    BY <1>2, NextType DEF Next, TableInv
  <2> QED
    BY <1>2, <2>1, <2>2, TableStable, VerifierWalk
<1>3. CASE Edit \/ Delete \/ Forge
  <2>1. verify' = verify
    BY <1>3 DEF Edit, Delete, Forge
  <2> QED
    BY <1>3, <2>1, TamperTable, WalkStable
<1>4. CASE UNCHANGED vars
  <2>1. TypeOK'
    BY <1>4, NextType DEF TableInv
  <2> QED
    BY <1>4, <2>1, TableStable, WalkStable DEF vars
<1> QED
  BY <1>1, <1>2, <1>3, <1>4 DEF TamperNext, Next

\* A walk that starts after an edit, a forged row or the deletion of a row that
\* is not the newest never ends in OK, however many rows were appended before
\* and after (VerifyChain, migrations/0007).
THEOREM TamperAlwaysDetected == TamperSpec => []TamperDetected
<1>1. TamperInv => TamperDetected
  <2> SUFFICES ASSUME TamperInv, verify.state = "ok", verify.tamper = "inner"
               PROVE  FALSE
    BY DEF TamperDetected
  <2>1. /\ Broken(verify.snap) /\ CleanTo(verify.snap, verify.cursor)
        /\ \A r \in verify.snap : r.id <= verify.cursor
    BY DEF TamperInv, WalkInv
  <2>2. Linked(verify.snap) /\ Sealed(verify.snap)
    BY <2>1 DEF CleanTo, Linked, Sealed
  <2> QED
    BY <2>1, <2>2 DEF Broken
<1> QED
  BY InitTamper, NextTamper, <1>1, PTL DEF TamperSpec

-----------------------------------------------------------------------------
(***************************************************************************)
(* The operator's walk through the search pages.  The rows committed when  *)
(* the first page was read are older than every row appended since; what   *)
(* he has seen are the newest of them, and the cursor is the oldest row he *)
(* has seen.  So a page fetched with before_id is the newest of what he    *)
(* has not seen yet, whatever was appended in between.                     *)
(***************************************************************************)

\* U holds, with a row, every newer row of T.
UpClosed(U, T) == U \subseteq T /\ \A r \in U, s \in T : s.id > r.id => s \in U

SearchState ==
    [step : {"idle", "received", "validated", "delivered", "denied", "shown", "failed"},
     filter : Filters \union {NoSearch.filter}, size : Nat \ {0}, before : Nat,
     rows : SUBSET Rows, next : Nat, seen : SUBSET Rows, count : Nat,
     start : SUBSET Rows]

\* The matching rows that were committed when the first page was read.
Due == Where(search.start, search.filter, 0)

LogInv == ChainInv /\ IsFiniteSet(table)

\* They are all older than the rows appended since.
StartKept ==
    /\ search.start \subseteq table
    /\ \A r \in search.start, s \in table : s \notin search.start => r.id < s.id

SeenNewest ==
    UpClosed(search.seen, Due) /\ search.count = Cardinality(search.seen)

\* A cursor is the id of the oldest row seen; only a page below the handler's
\* limit has one.
OldestSeen(i) ==
    i # 0 => /\ search.size < MaxLimit
             /\ \E m \in search.seen : m.id = i
             /\ \A s \in search.seen : i <= s.id

PageInv ==
    /\ search.step # "shown" =>
          OldestSeen(search.before) /\ (search.before = 0 => search.seen = {})
    /\ search.step = "shown" =>
          /\ OldestSeen(search.next)
          /\ search.next = 0 =>
                search.seen = IF search.size < MaxLimit THEN Due
                                                        ELSE Newest(Due, MaxLimit)
    /\ search.step \in {"validated", "delivered"} =>
          search.rows = Newest(Due \ search.seen, FetchLimit(search.size))

SearchInv ==
    LogInv /\ search \in SearchState /\ StartKept /\ SeenNewest /\ PageInv

\* ORDER BY id DESC LIMIT n keeps the newer of any two rows.
LEMMA NewestUpClosed ==
    ASSUME NEW T \in SUBSET Rows, IsFiniteSet(T), NEW n \in Nat
    PROVE  UpClosed(Newest(T, n), T)
<1> SUFFICES ASSUME NEW r \in Newest(T, n), NEW s \in T, s.id > r.id
             PROVE  s \in Newest(T, n)
  BY DEF UpClosed, Newest
<1> DEFINE A(q) == {t \in T : t.id > q.id}
<1>1. r \in T /\ Cardinality(A(r)) < n
  BY DEF Newest
<1>2. \A t \in T : t.id \in Nat
  BY RowParts
<1>3. A(s) \subseteq A(r)
  BY <1>1, <1>2
<1>4. IsFiniteSet(A(r)) /\ IsFiniteSet(A(s))
  BY FS_Subset
<1>5. Cardinality(A(s)) <= Cardinality(A(r))
  <2> HIDE DEF A
  <2> QED
    BY <1>3, <1>4, FS_Subset
<1>6. Cardinality(A(s)) \in Nat /\ Cardinality(A(r)) \in Nat
  <2> HIDE DEF A
  <2> QED
    BY <1>4, FS_CardinalityType
<1>7. Cardinality(A(s)) < n
  <2> HIDE DEF A
  <2> QED
    BY <1>1, <1>5, <1>6
<1> QED
  BY <1>7 DEF Newest

\* LIMIT n yields no more than n rows.
LEMMA NewestBound ==
    ASSUME NEW T \in SUBSET Rows, IsFiniteSet(T), UniqueIds(T), NEW n \in Nat
    PROVE  /\ IsFiniteSet(Newest(T, n)) /\ Cardinality(Newest(T, n)) \in Nat
           /\ Cardinality(Newest(T, n)) <= n
<1> DEFINE N == Newest(T, n)
<1>1. N \subseteq T /\ IsFiniteSet(N)
  <2>1. N \subseteq T
    BY DEF Newest
  <2> QED
    BY <2>1, FS_Subset
<1>2. Cardinality(N) \in Nat
  BY <1>1, FS_CardinalityType
<1>3. CASE N = {}
  BY <1>1, <1>2, <1>3, FS_EmptySet
<1>4. CASE N # {}
  <2>1. \A r \in T : r.id \in Int
    BY RowParts
  <2>2. PICK m \in N : \A r \in N : m.id <= r.id
    <3> HIDE DEF N
    <3> QED
      BY <1>1, <1>4, <2>1, OldestRow
  <2> DEFINE A == {t \in T : t.id > m.id}
  <2>3. Cardinality(A) < n
    BY <2>2 DEF Newest
  <2>4. IsFiniteSet(A)
    BY FS_Subset
  <2>5. N \ {m} \subseteq A
    BY <1>1, <2>1, <2>2 DEF UniqueIds
  <2> HIDE DEF A, N
  <2>6. Cardinality(N \ {m}) = Cardinality(N) - 1 /\ IsFiniteSet(N \ {m})
    BY <1>1, <2>2, FS_RemoveElement
  <2>7. Cardinality(N \ {m}) <= Cardinality(A) /\ Cardinality(A) \in Nat
    BY <2>4, <2>5, FS_Subset, FS_CardinalityType
  <2>8. Cardinality(N) <= n
    BY <1>2, <2>3, <2>6, <2>7
  <2> QED
    BY <1>1, <1>2, <2>8 DEF N
<1> QED
  BY <1>3, <1>4

\* Fewer than n rows are all there are.
LEMMA NewestShort ==
    ASSUME NEW T \in SUBSET Rows, IsFiniteSet(T), NEW n \in Nat,
           Cardinality(Newest(T, n)) < n
    PROVE  Newest(T, n) = T
<1> DEFINE N == Newest(T, n)
<1>1. N \subseteq T
  BY DEF Newest
<1> SUFFICES ASSUME T \ N # {} PROVE FALSE
  BY <1>1
<1>2. \A r \in T : r.id \in Int
  BY RowParts
<1>3. PICK m \in T \ N : \A r \in T \ N : r.id <= m.id
  <2>1. IsFiniteSet(T \ N)
    BY FS_Subset
  <2> HIDE DEF N
  <2> QED
    BY <1>2, <2>1, NewestRow
<1> DEFINE A == {t \in T : t.id > m.id}
<1>4. A \subseteq N
  BY <1>2, <1>3
<1>5. IsFiniteSet(N) /\ IsFiniteSet(A)
  BY <1>1, FS_Subset
<1>6. Cardinality(A) < n
  <2>1. Cardinality(A) <= Cardinality(N)
    <3> HIDE DEF A, N
    <3> QED
      BY <1>4, <1>5, FS_Subset
  <2>2. Cardinality(A) \in Nat /\ Cardinality(N) \in Nat
    <3> HIDE DEF A, N
    <3> QED
      BY <1>5, FS_CardinalityType
  <2> HIDE DEF A
  <2> QED
    BY <2>1, <2>2
<1>7. m \in N
  BY <1>3, <1>6 DEF Newest
<1> QED
  BY <1>3, <1>7

\* LIMIT 1 or more of a non-empty result is not empty.
LEMMA NewestSome ==
    ASSUME NEW T \in SUBSET Rows, IsFiniteSet(T), T # {}, NEW n \in Nat \ {0}
    PROVE  Newest(T, n) # {}
<1>1. \A r \in T : r.id \in Int
  BY RowParts
<1>2. PICK m \in T : \A r \in T : r.id <= m.id
  BY <1>1, NewestRow
<1>3. {t \in T : t.id > m.id} = {}
  BY <1>1, <1>2
<1>4. Cardinality({t \in T : t.id > m.id}) < n
  BY <1>3, FS_EmptySet
<1> QED
  BY <1>2, <1>4 DEF Newest

\* A set that holds the newer rows with every row is the newest of its size.
LEMMA UpClosedIsNewest ==
    ASSUME NEW T \in SUBSET Rows, IsFiniteSet(T), UniqueIds(T), NEW U, UpClosed(U, T)
    PROVE  U = Newest(T, Cardinality(U))
<1>0. U \subseteq T /\ \A r \in T : r.id \in Nat
  BY RowParts DEF UpClosed
<1>1. IsFiniteSet(U) /\ Cardinality(U) \in Nat
  BY <1>0, FS_Subset, FS_CardinalityType
<1>2. ASSUME NEW r \in U PROVE Cardinality({t \in T : t.id > r.id}) < Cardinality(U)
  <2> DEFINE A == {t \in T : t.id > r.id}
  <2>1. A \subseteq U \ {r}
    BY <1>0 DEF UpClosed
  <2>2. IsFiniteSet(U \ {r}) /\ Cardinality(U \ {r}) = Cardinality(U) - 1
    BY <1>1, FS_RemoveElement
  <2> HIDE DEF A
  <2>3. Cardinality(A) <= Cardinality(U \ {r}) /\ IsFiniteSet(A)
    BY <2>1, <2>2, FS_Subset
  <2>4. Cardinality(A) \in Nat
    BY <2>3, FS_CardinalityType
  <2>5. Cardinality(A) < Cardinality(U)
    BY <1>1, <2>2, <2>3, <2>4
  <2> QED
    BY <2>5 DEF A
<1>3. ASSUME NEW r \in T, r \notin U
      PROVE  ~(Cardinality({t \in T : t.id > r.id}) < Cardinality(U))
  <2> DEFINE A == {t \in T : t.id > r.id}
  <2>1. U \subseteq A
    BY <1>0, <1>3 DEF UpClosed, UniqueIds
  <2>2. IsFiniteSet(A)
    BY FS_Subset
  <2> HIDE DEF A
  <2>3. Cardinality(U) <= Cardinality(A) /\ Cardinality(A) \in Nat
    BY <2>1, <2>2, FS_Subset, FS_CardinalityType
  <2>4. ~(Cardinality(A) < Cardinality(U))
    BY <1>1, <2>3
  <2> QED
    BY <2>4 DEF A
<1> QED
  BY <1>0, <1>2, <1>3 DEF Newest

\* The newest of the rest continue the newest seen.
LEMMA UpClosedUnion ==
    ASSUME NEW T, NEW U, NEW V, UpClosed(U, T), UpClosed(V, T \ U)
    PROVE  UpClosed(U \union V, T)
BY DEF UpClosed

\* The newest of the newest are the newest.
LEMMA UpClosedChain ==
    ASSUME NEW T, NEW U, NEW V, UpClosed(U, T), UpClosed(V, U)
    PROVE  UpClosed(V, T)
BY DEF UpClosed

\* Every step of the search is a step of the log or leaves it alone.
LEMMA SearchLogs == SearchNext => [Next]_vars
<1> SUFFICES ASSUME SearchNext PROVE [Next]_vars
  OBVIOUS
<1>0. /\ Searcher \in Writers /\ Others \subseteq Events
      /\ "received" \in Events /\ "validated" \in Events
      /\ "delivered" \in Events /\ "denied" \in Events
  BY SearchAssumption
<1>1. ASSUME NEW e \in Events, Begin(Searcher, e) PROVE Next
  BY <1>0, <1>1 DEF Next, WriterStep
<1>2. CASE Open \/ NextPage \/ Reload
  BY <1>0, <1>1, <1>2 DEF Open, NextPage, Reload, Request
<1>3. CASE Query \/ LogDelivered \/ DenySearch
  BY <1>0, <1>1, <1>3 DEF Query, LogDelivered, DenySearch
<1>4. CASE Show \/ ShowError
  BY <1>4 DEF Show, ShowError
<1>5. CASE LogStep
  BY <1>0, <1>5 DEF LogStep, Next, WriterStep
<1> QED
  BY <1>2, <1>3, <1>4, <1>5 DEF SearchNext, SearchStep

\* A step of the log only appends rows newer than every committed one.
LEMMA LogAppends ==
    ASSUME LogInv, [Next]_vars
    PROVE  /\ LogInv' /\ table \subseteq table'
           /\ \A r \in table, s \in table' : s \notin table => r.id < s.id
<1>1. ChainInv'
  BY NextChain DEF LogInv
<1>2. ASSUME NEW w \in Writers, Commit(w)
      PROVE  \E n \in Rows : table' = table \union {n} /\ \A s \in table : s.id < n.id
  BY <1>2 DEF Commit, LogInv, ChainInv, PendingExtends, Extends
<1>3. \/ table' = table
      \/ \E n \in Rows : table' = table \union {n} /\ \A s \in table : s.id < n.id
  BY <1>2 DEF Next, WriterStep, VerifierStep, Begin, Lock, Insert, Abort, VerifyStart,
              VerifyRow, VerifyEnd, VerifyError, writerVars, vars
<1>4. IsFiniteSet(table')
  BY <1>3, FS_AddElement DEF LogInv
<1> QED
  BY <1>1, <1>3, <1>4 DEF LogInv

\* Due, seen rows and the rest of them are finite sets of rows with unique ids.
LEMMA DueFacts ==
    ASSUME LogInv, StartKept
    PROVE  /\ Due \subseteq search.start /\ Due \in SUBSET Rows /\ IsFiniteSet(Due)
           /\ UniqueIds(Due)
           /\ Due \ search.seen \in SUBSET Rows /\ IsFiniteSet(Due \ search.seen)
           /\ UniqueIds(Due \ search.seen)
<1>1. Due \subseteq search.start /\ Due \subseteq table
  BY DEF Due, Where, StartKept
<1>2. IsFiniteSet(Due) /\ IsFiniteSet(Due \ search.seen)
  BY <1>1, FS_Subset DEF LogInv
<1>3. Due \in SUBSET Rows /\ UniqueIds(Due)
  BY <1>1 DEF LogInv, ChainInv, TypeOK, ChainLinked, UniqueIds
<1> QED
  BY <1>1, <1>2, <1>3 DEF UniqueIds

\* Rows that are due and not seen are older than the rows seen.
LEMMA UnseenOlder ==
    ASSUME LogInv, StartKept, UpClosed(search.seen, Due),
           NEW d \in Due \ search.seen, NEW s \in search.seen
    PROVE  d.id < s.id
<1>1. Due \in SUBSET Rows /\ UniqueIds(Due) /\ s \in Due
  BY DueFacts DEF UpClosed
<1>2. d.id \in Nat /\ s.id \in Nat
  BY <1>1, RowParts
<1> QED
  BY <1>1, <1>2 DEF UpClosed, UniqueIds

\* The page read with before_id is the newest of the rows not seen yet.
LEMMA PageOfUnseen ==
    ASSUME LogInv, StartKept, UpClosed(search.seen, Due), search.before # 0,
           OldestSeen(search.before)
    PROVE  Where(table, search.filter, search.before) = Due \ search.seen
<1> DEFINE W == Where(table, search.filter, search.before)
<1>1. PICK m \in search.seen : m.id = search.before
  BY DEF OldestSeen
<1>2. \A r \in table : r.id \in Nat
  BY RowParts DEF LogInv, ChainInv, TypeOK
<1>3. m \in search.start /\ search.start \subseteq table /\ search.seen \subseteq Due
  BY <1>1, DueFacts DEF UpClosed, StartKept
<1>4. ASSUME NEW r \in W PROVE r \in Due \ search.seen
  <2>1. r \in table /\ r.id < m.id
    BY <1>1 DEF Where
  <2>2. r \in search.start
    BY <1>2, <1>3, <2>1 DEF StartKept
  <2>3. r \in Due
    BY <2>2 DEF Due, Where
  <2>4. r \notin search.seen
    BY <1>1, <1>2, <1>3, <2>1 DEF OldestSeen
  <2> QED
    BY <2>3, <2>4
<1>5. ASSUME NEW r \in Due \ search.seen PROVE r \in W
  <2>1. r.id < search.before
    BY <1>1, UnseenOlder
  <2>2. r \in table
    BY <1>3, DueFacts
  <2> QED
    BY <2>1, <2>2 DEF Due, Where
<1> QED
  BY <1>4, <1>5

\* While the rows remembered stay the same, appends keep them the oldest.
LEMMA StartStays ==
    ASSUME LogInv, StartKept, [Next]_vars, search'.start = search.start
    PROVE  StartKept'
<1>1. /\ table \subseteq table'
      /\ \A r \in table, s \in table' : s \notin table => r.id < s.id
  BY LogAppends
<1> QED
  BY <1>1 DEF StartKept

\* A step that changes neither filter, start, seen nor count keeps what is seen.
LEMMA SeenStays ==
    ASSUME SeenNewest, search'.filter = search.filter, search'.start = search.start,
           search'.seen = search.seen, search'.count = search.count
    PROVE  Due' = Due /\ SeenNewest'
BY DEF SeenNewest, Due

\* The first page of a new walk is asked for.
LEMMA OpenInv == ASSUME SearchInv, LogInv', Open PROVE SearchInv'
<1>1. PICK f \in Filters, n \in PageSizes :
          search' = [[NoSearch EXCEPT !.filter = f, !.size = n]
                        EXCEPT !.step = "received", !.rows = {}]
  BY DEF Open, Request
<1>2. search' = [step |-> "received", filter |-> f, size |-> n, before |-> 0,
                 rows |-> {}, next |-> 0, seen |-> {}, count |-> 0, start |-> {}]
  BY <1>1 DEF NoSearch
<1>3. n \in Nat \ {0}
  BY SearchAssumption
<1>4. search' \in SearchState
  BY <1>2, <1>3 DEF SearchState
<1>5. StartKept' /\ PageInv'
  BY <1>2 DEF StartKept, PageInv, OldestSeen
<1>6. SeenNewest'
  BY <1>2, FS_EmptySet DEF SeenNewest, UpClosed
<1> QED
  BY <1>4, <1>5, <1>6 DEF SearchInv

\* The next page is asked for with the cursor of the last one.
LEMMA NextPageInv == ASSUME SearchInv, LogInv', [Next]_vars, NextPage PROVE SearchInv'
<1> USE DEF SearchInv
<1>1. /\ search.step = "shown" /\ search.next # 0
      /\ search' = [[search EXCEPT !.before = search.next]
                       EXCEPT !.step = "received", !.rows = {}]
  BY DEF NextPage, Request
<1>2. /\ search'.step = "received" /\ search'.before = search.next
      /\ search'.filter = search.filter /\ search'.size = search.size
      /\ search'.start = search.start /\ search'.seen = search.seen
      /\ search'.count = search.count
  BY <1>1 DEF SearchState
<1>3. search' \in SearchState
  BY <1>1 DEF SearchState
<1>4. StartKept' /\ SeenNewest'
  BY <1>2, StartStays, SeenStays
<1>5. PageInv'
  BY <1>1, <1>2 DEF PageInv, OldestSeen
<1> QED
  BY <1>3, <1>4, <1>5

\* A failed page is asked for again, and a page that fails stays as it was.
LEMMA ReloadInv ==
    ASSUME SearchInv, LogInv', [Next]_vars, Reload \/ DenySearch \/ ShowError
    PROVE  SearchInv'
<1> USE DEF SearchInv
<1>1. /\ search.step \in {"failed", "received", "denied", "delivered"}
      /\ \/ search' = [search EXCEPT !.step = "received", !.rows = {}]
         \/ search' = [search EXCEPT !.step = "denied"]
         \/ search' = [search EXCEPT !.step = "failed"]
  BY DEF Reload, Request, DenySearch, ShowError, Written
<1>2. /\ search'.step \in {"received", "denied", "failed"}
      /\ search'.before = search.before
      /\ search'.filter = search.filter /\ search'.size = search.size
      /\ search'.start = search.start /\ search'.seen = search.seen
      /\ search'.count = search.count
  BY <1>1 DEF SearchState
<1>3. search' \in SearchState
  BY <1>1 DEF SearchState
<1>4. StartKept' /\ SeenNewest'
  BY <1>2, StartStays, SeenStays
<1>5. PageInv'
  BY <1>1, <1>2 DEF PageInv, OldestSeen
<1> QED
  BY <1>3, <1>4, <1>5

\* The statement reads the newest of the rows not seen yet.
LEMMA QueryInv == ASSUME SearchInv, LogInv', [Next]_vars, Query PROVE SearchInv'
<1> USE DEF SearchInv
<1> DEFINE W == Where(table, search.filter, search.before)
           N == Newest(W, FetchLimit(search.size))
<1>1. /\ search.step = "received"
      /\ search' = [search EXCEPT !.step = "validated", !.rows = N,
                                  !.start = IF search.before = 0 THEN table ELSE @]
  BY DEF Query, Written
<1>2. /\ search'.step = "validated" /\ search'.rows = N
      /\ search'.before = search.before
      /\ search'.filter = search.filter /\ search'.size = search.size
      /\ search'.start = IF search.before = 0 THEN table ELSE search.start
      /\ search'.seen = search.seen /\ search'.count = search.count
  BY <1>1 DEF SearchState
<1>3. N \in SUBSET Rows /\ table \in SUBSET Rows
  BY DEF Newest, Where, LogInv, ChainInv, TypeOK
<1>4. search' \in SearchState
  <2> HIDE DEF N
  <2> QED
    BY <1>1, <1>3 DEF SearchState
<1> HIDE DEF N
<1>5. CASE search.before = 0
  <2>1. search.seen = {} /\ search.count = Cardinality({})
    BY <1>1, <1>5 DEF PageInv, SeenNewest
  <2>2. table' = table
    BY DEF Query, Begin
  <2>3. StartKept' /\ SeenNewest'
    BY <1>2, <1>5, <2>1, <2>2 DEF StartKept, SeenNewest, UpClosed
  <2>4. (Due \ search.seen)' = W
    BY <1>2, <1>5, <2>1 DEF Due
  <2>5. PageInv'
    BY <1>2, <1>5, <2>1, <2>4 DEF PageInv, OldestSeen, N
  <2> QED
    BY <1>4, <2>3, <2>5
<1>6. CASE search.before # 0
  <2>1. StartKept' /\ SeenNewest' /\ Due' = Due
    BY <1>2, <1>6, StartStays, SeenStays
  <2>2. W = Due \ search.seen
    BY <1>1, <1>6, PageOfUnseen DEF PageInv, SeenNewest
  <2>3. PageInv'
    BY <1>1, <1>2, <1>6, <2>1, <2>2 DEF PageInv, OldestSeen, N
  <2> QED
    BY <1>4, <2>1, <2>3
<1> QED
  BY <1>5, <1>6

\* The delivered row is begun.
LEMMA LogDeliveredInv ==
    ASSUME SearchInv, LogInv', [Next]_vars, LogDelivered PROVE SearchInv'
<1> USE DEF SearchInv
<1>1. search.step = "validated" /\ search' = [search EXCEPT !.step = "delivered"]
  BY DEF LogDelivered, Written
<1>2. /\ search'.step = "delivered" /\ search'.rows = search.rows
      /\ search'.before = search.before
      /\ search'.filter = search.filter /\ search'.size = search.size
      /\ search'.start = search.start /\ search'.seen = search.seen
      /\ search'.count = search.count
  BY <1>1 DEF SearchState
<1>3. search' \in SearchState
  BY <1>1 DEF SearchState
<1>4. StartKept' /\ SeenNewest' /\ Due' = Due
  BY <1>2, StartStays, SeenStays
<1>5. PageInv'
  BY <1>1, <1>2, <1>4 DEF PageInv, OldestSeen
<1> QED
  BY <1>3, <1>4, <1>5

\* Other writers move on: the walk only sees the log grow.
LEMMA SearchStays ==
    ASSUME SearchInv, LogInv', [Next]_vars, search' = search PROVE SearchInv'
<1>1. StartKept' /\ SeenNewest' /\ Due' = Due
  BY StartStays, SeenStays DEF SearchInv
<1>2. PageInv'
  BY <1>1 DEF SearchInv, PageInv, OldestSeen
<1> QED
  BY <1>1, <1>2 DEF SearchInv

\* What one page adds to the rows seen: the newest of the rest, all of it once
\* the page has no surplus row.
LEMMA PageAdds ==
    ASSUME SearchInv, search.step = "delivered",
           NEW D, D = IF Cardinality(search.rows) > search.size
                      THEN Newest(search.rows, search.size) ELSE search.rows
    PROVE  /\ UpClosed(D, Due \ search.seen)
           /\ Cardinality(search.rows) > search.size =>
                 D # {} /\ search.size < MaxLimit
           /\ ~(Cardinality(search.rows) > search.size) =>
                 D = IF search.size < MaxLimit THEN Due \ search.seen
                                               ELSE Newest(Due \ search.seen, MaxLimit)
<1> DEFINE R == Due \ search.seen
           P == search.rows
           n == search.size
<1>1. R \in SUBSET Rows /\ IsFiniteSet(R) /\ UniqueIds(R)
  BY DueFacts DEF SearchInv
<1>2. n \in Nat \ {0} /\ MaxLimit \in Nat \ {0} /\ FetchLimit(n) \in Nat
  BY SearchAssumption DEF SearchInv, SearchState, FetchLimit
<1>3. P = Newest(R, FetchLimit(n))
  BY DEF SearchInv, PageInv
<1>4. UpClosed(P, R)
  BY <1>1, <1>2, <1>3, NewestUpClosed
<1>5. /\ IsFiniteSet(P) /\ Cardinality(P) \in Nat
      /\ Cardinality(P) <= FetchLimit(n)
  BY <1>1, <1>2, <1>3, NewestBound
<1>6. P \in SUBSET Rows
  BY <1>1, <1>4 DEF UpClosed
<1>7. CASE Cardinality(P) > n
  <2>1. D = Newest(P, n)
    BY <1>7
  <2>2. P # {}
    BY <1>2, <1>7, FS_EmptySet
  <2>3. UpClosed(D, P) /\ D # {}
    BY <1>2, <1>5, <1>6, <2>1, <2>2, NewestUpClosed, NewestSome
  <2>4. UpClosed(D, R)
    BY <1>4, <2>3, UpClosedChain
  <2>5. n < MaxLimit
    BY <1>2, <1>5, <1>7 DEF FetchLimit
  <2> QED
    BY <1>7, <2>3, <2>4, <2>5
<1>8. CASE ~(Cardinality(P) > n)
  <2>1. D = P
    BY <1>8
  <2>2. CASE n < MaxLimit
    <3>1. Cardinality(P) < FetchLimit(n)
      BY <1>2, <1>5, <1>8, <2>2 DEF FetchLimit
    <3>2. P = R
      BY <1>1, <1>2, <1>3, <3>1, NewestShort
    <3> QED
      BY <1>4, <1>8, <2>1, <2>2, <3>2
  <2>3. CASE ~(n < MaxLimit)
    <3>1. FetchLimit(n) = MaxLimit
      BY <2>3 DEF FetchLimit
    <3> QED
      BY <1>3, <1>4, <1>8, <2>1, <2>3, <3>1
  <2> QED
    BY <2>2, <2>3
<1> QED
  BY <1>7, <1>8

\* The cursor is the id of the oldest row displayed.
LEMMA CursorIsOldest ==
    ASSUME NEW D \in SUBSET Rows, IsFiniteSet(D), D # {},
           D = Newest(search.rows, search.size)
    PROVE  /\ Cursor \in Nat \ {0} /\ \E m \in D : m.id = Cursor
           /\ \A r \in D : Cursor <= r.id
<1>1. \A r \in D : r.id \in Int
  BY RowParts
<1>2. PICK m \in D : \A r \in D : m.id <= r.id
  BY <1>1, OldestRow
<1> DEFINE C == CHOOSE i \in {r.id : r \in D} : \A r \in D : i <= r.id
<1>3. C \in {r.id : r \in D} /\ \A r \in D : C <= r.id
  BY <1>2
<1>4. Cursor = C
  BY DEF Cursor
<1> HIDE DEF C
<1>5. PICK q \in D : q.id = C
  BY <1>3
<1> QED
  BY <1>3, <1>4, <1>5, RowParts

\* A page is shown.
LEMMA ShowInv == ASSUME SearchInv, LogInv', Show PROVE SearchInv'
<1> USE DEF SearchInv
<1> DEFINE R == Due \ search.seen
           more == Cardinality(search.rows) > search.size
           D == IF more THEN Newest(search.rows, search.size) ELSE search.rows
           S == search.seen
<1>1. /\ search.step = "delivered" /\ UNCHANGED vars
      /\ search' = [search EXCEPT !.step = "shown",
                       !.next = IF more THEN Cursor ELSE 0,
                       !.seen = @ \union D, !.count = @ + Cardinality(D)]
  BY DEF Show, Written
<1>2. /\ UpClosed(D, R)
      /\ more => D # {} /\ search.size < MaxLimit
      /\ ~more => D = IF search.size < MaxLimit THEN R ELSE Newest(R, MaxLimit)
  BY <1>1, PageAdds
<1>3. more => D = Newest(search.rows, search.size)
  OBVIOUS
<1> HIDE DEF D, more
<1>4. R \in SUBSET Rows /\ IsFiniteSet(R) /\ IsFiniteSet(Due)
  BY DueFacts
<1>5. D \in SUBSET Rows /\ IsFiniteSet(D) /\ Cardinality(D) \in Nat /\ D \subseteq R
  <2>1. D \subseteq R
    BY <1>2 DEF UpClosed
  <2> QED
    BY <1>4, <2>1, FS_Subset, FS_CardinalityType
<1>6. more => /\ Cursor \in Nat \ {0} /\ \E m \in D : m.id = Cursor
              /\ \A r \in D : Cursor <= r.id
  BY <1>2, <1>3, <1>5, CursorIsOldest
<1> DEFINE nx == IF more THEN Cursor ELSE 0
<1>7. nx \in Nat /\ (nx = 0 <=> ~more)
  BY <1>6
<1>8. search' = [step |-> "shown", filter |-> search.filter, size |-> search.size,
                 before |-> search.before, rows |-> search.rows, next |-> nx,
                 seen |-> S \union D, count |-> search.count + Cardinality(D),
                 start |-> search.start]
  BY <1>1 DEF SearchState
<1>9. search' \in SearchState
  <2> HIDE DEF nx
  <2> QED
    BY <1>5, <1>7, <1>8 DEF SearchState
<1>10. StartKept' /\ Due' = Due
  BY <1>1, <1>8 DEF StartKept, Due, vars
<1>11. UpClosed(S, Due) /\ search.count = Cardinality(S)
  BY DEF SeenNewest
<1>12. SeenNewest'
  <2>1. UpClosed(S \union D, Due)
    BY <1>2, <1>11, UpClosedUnion
  <2>2. IsFiniteSet(S) /\ Cardinality(S) \in Nat
    BY <1>4, <1>11, FS_Subset, FS_CardinalityType DEF UpClosed
  <2>3. S \cap D = {}
    BY <1>5
  <2>4. Cardinality(S \union D) = Cardinality(S) + Cardinality(D)
    BY <1>5, <2>2, <2>3, FS_Union, FS_EmptySet
  <2> QED
    BY <1>8, <1>10, <1>11, <2>1, <2>4 DEF SeenNewest
<1>13. ASSUME more PROVE OldestSeen(search.next)'
  <2>1. PICK m \in D : m.id = Cursor
    BY <1>6, <1>13
  <2>2. ASSUME NEW s \in S \union D PROVE Cursor <= s.id
    <3>1. CASE s \in D
      BY <1>6, <1>13, <3>1
    <3>2. CASE s \in S
      <4>1. m.id < s.id
        BY <1>5, <1>11, <3>2, UnseenOlder
      <4>2. s \in Rows /\ m \in Rows
        BY <1>5, <1>11, <3>2, DueFacts DEF UpClosed
      <4> QED
        BY <2>1, <4>1, <4>2, RowParts
    <3> QED
      BY <3>1, <3>2
  <2>3. nx = Cursor /\ search.size < MaxLimit
    BY <1>2, <1>13
  <2>4. /\ search'.seen = S \union D /\ search'.size = search.size
        /\ search'.next = nx
    BY <1>8
  <2> QED
    BY <2>1, <2>2, <2>3, <2>4 DEF OldestSeen
<1>14. ASSUME ~more
       PROVE  S \union D = IF search.size < MaxLimit THEN Due ELSE Newest(Due, MaxLimit)
  <2>1. CASE search.size < MaxLimit
    BY <1>2, <1>11, <1>14, <2>1 DEF UpClosed
  <2>2. CASE ~(search.size < MaxLimit)
    <3>1. search.before = 0
      BY <1>1, <2>2 DEF PageInv, OldestSeen
    <3>2. S = {}
      BY <1>1, <3>1 DEF PageInv
    <3> QED
      BY <1>2, <1>14, <2>2, <3>2
  <2> QED
    BY <2>1, <2>2
<1>15. PageInv'
  <2>1. /\ search'.step = "shown" /\ search'.size = search.size
        /\ search'.seen = S \union D /\ search'.next = nx
    BY <1>8
  <2>2. OldestSeen(search.next)'
    BY <1>7, <1>13, <2>1 DEF OldestSeen
  <2> QED
    BY <1>7, <1>10, <1>14, <2>1, <2>2 DEF PageInv
<1> QED
  BY <1>9, <1>10, <1>12, <1>15

\* No walk has begun.
LEMMA InitSearch == SearchInit => SearchInv
<1> SUFFICES ASSUME SearchInit PROVE SearchInv
  OBVIOUS
<1>1. LogInv
  BY InitChain, FS_EmptySet DEF SearchInit, LogInv, Init
<1>2. search = [step |-> "idle", filter |-> NoSearch.filter, size |-> 1, before |-> 0,
                rows |-> {}, next |-> 0, seen |-> {}, count |-> 0, start |-> {}]
  BY DEF SearchInit, NoSearch
<1>3. search \in SearchState
  BY <1>2 DEF SearchState
<1>4. StartKept /\ PageInv /\ SeenNewest
  BY <1>2, FS_EmptySet DEF StartKept, PageInv, OldestSeen, SeenNewest, UpClosed
<1> QED
  BY <1>1, <1>3, <1>4 DEF SearchInv

\* Every step of the search and of the log keeps the invariant of the walk.
LEMMA NextSearch == SearchInv /\ [SearchNext]_allVars => SearchInv'
<1> SUFFICES ASSUME SearchInv, [SearchNext]_allVars PROVE SearchInv'
  OBVIOUS
<1>1. [Next]_vars
  BY SearchLogs DEF allVars
<1>2. LogInv'
  BY <1>1, LogAppends DEF SearchInv
<1>3. CASE LogStep \/ UNCHANGED allVars
  BY <1>1, <1>2, <1>3, SearchStays DEF LogStep, allVars
<1> QED
  BY <1>1, <1>2, <1>3, OpenInv, NextPageInv, ReloadInv, QueryInv, LogDeliveredInv,
     ShowInv
  DEF SearchNext, SearchStep

\* However many rows are appended, rolled back or refused while the operator
\* turns the pages, for any page size and limit, he has seen the newest matching
\* rows of the first page's log, each once, and all of them when no further page
\* is offered (AdminAuditHandler.Search, auditPageData).
THEOREM PagesAlwaysComplete == SearchSpec => []PagesComplete
<1>1. SearchInv => PagesComplete
  <2> SUFFICES ASSUME SearchInv, search.step = "shown"
               PROVE  /\ search.seen = Newest(Due, search.count)
                      /\ search.count = Cardinality(search.seen)
                      /\ search.next = 0 =>
                            search.count = IF search.size < MaxLimit
                                           THEN Cardinality(Due)
                                           ELSE Cardinality(Newest(Due, MaxLimit))
    BY DEF PagesComplete, Due
  <2>1. UpClosed(search.seen, Due) /\ search.count = Cardinality(search.seen)
    BY DEF SearchInv, SeenNewest
  <2>2. search.seen = Newest(Due, search.count)
    BY <2>1, DueFacts, UpClosedIsNewest DEF SearchInv
  <2>3. search.next = 0 =>
           search.seen = IF search.size < MaxLimit THEN Due ELSE Newest(Due, MaxLimit)
    BY DEF SearchInv, PageInv
  <2> QED
    BY <2>1, <2>2, <2>3
<1> QED
  BY InitSearch, NextSearch, <1>1, PTL DEF SearchSpec
=============================================================================
