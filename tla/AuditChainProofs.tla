---- MODULE AuditChainProofs ----
(***************************************************************************)
(* Theorems about AuditChain, for any finite set of decisions and any      *)
(* tenants, payloads, verifiers and chunk size:                            *)
(*   - type correctness;                                                   *)
(*   - for any number of worker processes, links point back (no dangling,  *)
(*     forward or cross-tenant link) and stored rows never change;         *)
(*   - with one worker process, the chain is linear, and verify_chain      *)
(*     reports a break only when the log outgrew its last chunk.           *)
(***************************************************************************)
EXTENDS AuditChain, FiniteSetTheorems, TLAPS

\* What TypeOK says of the fields of an entry holds once the task exists.
EntryInv == \A d \in Decisions : phase[d] # "unscheduled" => entry[d] \in Entry

TypeInv == TypeOK /\ EntryInv

Phases == {"unscheduled", "queued", "locked", "selecting", "read",
           "inserted", "committed", "failed", "lost"}

LEMMA DecisionHashType ==
    ASSUME TypeInv, NEW d \in Decisions, phase[d] # "unscheduled"
    PROVE  DecisionHash(d) \in Payloads \X Statuses
  <1>1. entry[d] \in Entry
    BY DEF TypeInv, EntryInv
  <1> QED
    BY <1>1 DEF DecisionHash, Entry

LEMMA RowsFinite ==
    ASSUME NEW t
    PROVE  Cardinality(Rows(t)) \in Nat
  <1>1. Rows(t) \subseteq Decisions
    BY DEF Rows
  <1>2. IsFiniteSet(Rows(t))
    BY <1>1, FiniteAssumption, FS_Subset
  <1> QED
    BY <1>2, FS_CardinalityType

\* VerifyStart and VerifyChunk keep the type of check.
LEMMA CheckType ==
    ASSUME TypeInv, NEW v \in Verifiers,
           VerifyChunk(v) \/ \E t \in Tenants : VerifyStart(v, t)
    PROVE  TypeInv'
  <1> DEFINE C == [tenant : Tenants \cup {Null}, offset : Nat,
                   carried : (Payloads \X Statuses) \cup {Null},
                   result : {"idle", "running", "intact", "broken"}, seen : Nat]
  <1>0. check \in [Verifiers -> C]
    BY DEF TypeInv, TypeOK
  <1>1. UNCHANGED <<entry, phase, chainLock, last, id, nextId>>
    BY DEF VerifyChunk, VerifyStart
  <1>2. check' \in [Verifiers -> C]
    <2>1. CASE \E t \in Tenants : VerifyStart(v, t)
      <3>1. PICK t \in Tenants : VerifyStart(v, t)
        BY <2>1
      <3>2. Cardinality(Rows(t)) \in Nat
        BY RowsFinite
      <3> DEFINE c == [tenant |-> t, offset |-> 0, carried |-> Null, result |-> "running",
                       seen |-> Cardinality(Rows(t))]
      <3>3. c \in C
        BY <3>2
      <3>4. check' = [check EXCEPT ![v] = c]
        BY <3>1 DEF VerifyStart
      <3> HIDE DEF C, c
      <3> QED
        BY <1>0, <3>3, <3>4
    <2>2. CASE VerifyChunk(v)
      <3>1. CASE check' = [check EXCEPT ![v].result = "intact"]
        BY <1>0, <3>1
      <3>2. CASE check' = [check EXCEPT ![v].result = "broken"]
        BY <1>0, <3>2
      <3>3. CASE \E d \in Chunk(check[v].tenant, check[v].offset) :
                   check' = [check EXCEPT ![v].offset = @ + ChunkSize,
                                          ![v].carried = DecisionHash(d)]
        <4>1. PICK d \in Chunk(check[v].tenant, check[v].offset) :
                   check' = [check EXCEPT ![v].offset = @ + ChunkSize,
                                          ![v].carried = DecisionHash(d)]
          BY <3>3
        <4>2. d \in Decisions /\ phase[d] = "committed"
          BY DEF Chunk, Rows, Committed
        <4>3. DecisionHash(d) \in Payloads \X Statuses
          BY <4>2, DecisionHashType
        <4>4. check[v].offset + ChunkSize \in Nat
          BY <1>0, ChunkAssumption
        <4> QED
          BY <1>0, <4>1, <4>3, <4>4
      <3> QED
        BY <2>2, <3>1, <3>2, <3>3 DEF VerifyChunk
    <2> QED
      BY <2>1, <2>2
  <1> QED
    BY <1>1, <1>2 DEF TypeInv, TypeOK, EntryInv

LEMMA TypeStep == TypeInv /\ [Next]_vars => TypeInv'
  <1> SUFFICES ASSUME TypeInv, [Next]_vars PROVE TypeInv'
    OBVIOUS
  <1> USE DEF TypeInv, TypeOK, EntryInv
  <1>1. ASSUME NEW d \in Decisions, NEW w \in Workers, NEW t \in Tenants,
               NEW p \in Payloads, NEW s \in Statuses, Schedule(d, w, t, p, s)
        PROVE  TypeInv'
    <2>1. [worker |-> w, tenant |-> t, payload |-> p, status |-> s] \in Entry
      BY DEF Entry
    <2> QED
      BY <1>1, <2>1 DEF Schedule
  <1>2. ASSUME NEW d \in Decisions, AcquireChainLock(d) PROVE TypeInv'
    BY <1>2 DEF AcquireChainLock, Entry
  <1>3. ASSUME NEW d \in Decisions, SelectLast(d) PROVE TypeInv'
    <2>1. Newest(entry[d].tenant) \subseteq Decisions \cup {Null}
      BY DEF Newest, Rows
    <2> QED
      BY <1>3, <2>1 DEF SelectLast
  <1>4. ASSUME NEW d \in Decisions, LockRow(d) PROVE TypeInv'
    BY <1>4 DEF LockRow
  <1>5. ASSUME NEW d \in Decisions, Insert(d) PROVE TypeInv'
    BY <1>5 DEF Insert
  <1>6. ASSUME NEW d \in Decisions, Commit(d) PROVE TypeInv'
    BY <1>6 DEF Commit, Release
  <1>7. ASSUME NEW d \in Decisions, Fail(d) PROVE TypeInv'
    BY <1>7 DEF Fail, Release, Holding
  <1>8. ASSUME NEW w \in Workers, Crash(w) PROVE TypeInv'
    BY <1>8 DEF Crash, Die, Gone, Pending, Holding
  <1>9. ASSUME NEW v \in Verifiers, NEW t \in Tenants, VerifyStart(v, t) PROVE TypeInv'
    BY <1>9, CheckType
  <1>10. ASSUME NEW v \in Verifiers, VerifyChunk(v) PROVE TypeInv'
    BY <1>10, CheckType
  <1>11. CASE UNCHANGED vars
    BY <1>11 DEF vars
  <1> QED
    BY <1>1, <1>2, <1>3, <1>4, <1>5, <1>6, <1>7, <1>8, <1>9, <1>10, <1>11 DEF Next

LEMMA TypeInit == Init => TypeInv
  BY DEF Init, TypeInv, TypeOK, EntryInv

(***************************************************************************)
(* Every variable keeps its type: in particular a running verification     *)
(* always carries a stored hash or none, and locks are held by decisions.  *)
(***************************************************************************)
THEOREM TypeCorrect == Spec => []TypeOK
  <1>1. TypeInv => TypeOK
    BY DEF TypeInv
  <1> QED
    BY TypeInit, TypeStep, <1>1, PTL DEF Spec

----------------------------------------------------------------------------
(* Any number of processes: links point back *)

\* Phases in which d's transaction has read the newest row, and has a row id.
HasRead == {"selecting", "read", "inserted", "committed"}
HasId == {"inserted", "committed"}

\* Ids are unique and below the sequence's next value, also those of rows that
\* are not committed yet.
IdInv ==
    /\ \A d \in Decisions : phase[d] \in HasId => id[d] < nextId
    /\ \A d, e \in Decisions :
          phase[d] \in HasId /\ phase[e] \in HasId /\ id[d] = id[e] => d = e

\* The row read by d is stored, belongs to d's tenant and precedes d's own row.
LastInv ==
    \A d \in Decisions : phase[d] \in HasRead /\ last[d] # Null =>
        /\ phase[last[d]] = "committed"
        /\ entry[last[d]].tenant = entry[d].tenant
        /\ phase[d] \in HasId => id[last[d]] < id[d]

BackInv == TypeInv /\ IdInv /\ LastInv

LEMMA BackInit == Init => BackInv
  <1>1. Init => IdInv /\ LastInv
    BY DEF Init, IdInv, LastInv, HasId, HasRead
  <1> QED
    BY <1>1, TypeInit DEF BackInv

LEMMA BackStep == BackInv /\ [Next]_vars => BackInv'
  <1> SUFFICES ASSUME BackInv, [Next]_vars PROVE IdInv' /\ LastInv'
    BY TypeStep DEF BackInv
  <1>0. TypeInv /\ IdInv /\ LastInv
    BY DEF BackInv
  <1> USE DEF IdInv, LastInv, HasId, HasRead
  <1>1. ASSUME NEW d \in Decisions, NEW w \in Workers, NEW t \in Tenants,
               NEW p \in Payloads, NEW s \in Statuses, Schedule(d, w, t, p, s)
        PROVE  IdInv' /\ LastInv'
    BY <1>0, <1>1, NullAssumption DEF Schedule, TypeInv, TypeOK
  <1>2. ASSUME NEW d \in Decisions, AcquireChainLock(d) PROVE IdInv' /\ LastInv'
    BY <1>0, <1>2, NullAssumption DEF AcquireChainLock, TypeInv, TypeOK
  <1>3. ASSUME NEW d \in Decisions, SelectLast(d) PROVE IdInv' /\ LastInv'
    <2>1. PICK r \in Newest(entry[d].tenant) : last' = [last EXCEPT ![d] = r]
      BY <1>3 DEF SelectLast
    <2>2. r # Null => /\ r \in Decisions
                      /\ phase[r] = "committed"
                      /\ entry[r].tenant = entry[d].tenant
      BY DEF Newest, Rows, Committed
    <2> QED
      BY <1>0, <1>3, <2>1, <2>2, NullAssumption DEF SelectLast, TypeInv, TypeOK
  <1>4. ASSUME NEW d \in Decisions, LockRow(d) PROVE IdInv' /\ LastInv'
    BY <1>0, <1>4, NullAssumption DEF LockRow, TypeInv, TypeOK
  <1>5. ASSUME NEW d \in Decisions, Insert(d) PROVE IdInv' /\ LastInv'
    BY <1>0, <1>5, NullAssumption DEF Insert, TypeInv, TypeOK
  <1>6. ASSUME NEW d \in Decisions, Commit(d) PROVE IdInv' /\ LastInv'
    BY <1>0, <1>6, NullAssumption DEF Commit, TypeInv, TypeOK
  <1>7. ASSUME NEW d \in Decisions, Fail(d) PROVE IdInv' /\ LastInv'
    BY <1>0, <1>7, NullAssumption DEF Fail, Holding, TypeInv, TypeOK
  <1>8. ASSUME NEW w \in Workers, Crash(w) PROVE IdInv' /\ LastInv'
    BY <1>0, <1>8, NullAssumption DEF Crash, Die, Gone, Pending, Holding, TypeInv, TypeOK
  <1>9. ASSUME NEW v \in Verifiers, NEW t \in Tenants, VerifyStart(v, t)
        PROVE  IdInv' /\ LastInv'
    BY <1>0, <1>9 DEF VerifyStart
  <1>10. ASSUME NEW v \in Verifiers, VerifyChunk(v) PROVE IdInv' /\ LastInv'
    BY <1>0, <1>10 DEF VerifyChunk
  <1>11. CASE UNCHANGED vars
    BY <1>0, <1>11 DEF vars
  <1> QED
    BY <1>1, <1>2, <1>3, <1>4, <1>5, <1>6, <1>7, <1>8, <1>9, <1>10, <1>11 DEF Next

LEMMA BackInvariant == Spec => []BackInv
  BY BackInit, BackStep, PTL DEF Spec

LEMMA BackLinks == BackInv => LinksPointBack
  BY NullAssumption
  DEF BackInv, TypeInv, TypeOK, LastInv, LinksPointBack, Committed, HasRead, HasId

(***************************************************************************)
(* However many processes write, and whatever fails: the previous_hash of  *)
(* a stored row is that of an earlier stored row of the same tenant.       *)
(***************************************************************************)
THEOREM LinksPointBackHolds == Spec => []LinksPointBack
  BY BackLinks, BackInvariant, PTL

LEMMA StoredStep ==
    ASSUME TypeInv, [Next]_vars
    PROVE  KeepsStored
  <1>1. ASSUME TypeInv, [Next]_vars, NEW d \in Decisions, phase[d] = "committed"
        PROVE  phase'[d] = "committed" /\ UNCHANGED <<entry[d], last[d], id[d]>>
    <2>0. TypeOK
      BY <1>1 DEF TypeInv
    <2>1. ASSUME NEW e \in Decisions, NEW w \in Workers, NEW t \in Tenants,
                 NEW p \in Payloads, NEW s \in Statuses, Schedule(e, w, t, p, s)
          PROVE  phase'[d] = "committed" /\ UNCHANGED <<entry[d], last[d], id[d]>>
      BY <1>1, <2>0, <2>1 DEF Schedule, TypeOK
    <2>2. ASSUME NEW e \in Decisions, AcquireChainLock(e) \/ LockRow(e) \/ Commit(e)
          PROVE  phase'[d] = "committed" /\ UNCHANGED <<entry[d], last[d], id[d]>>
      BY <1>1, <2>0, <2>2 DEF AcquireChainLock, LockRow, Commit, TypeOK
    <2>3. ASSUME NEW e \in Decisions, SelectLast(e) \/ Insert(e) \/ Fail(e)
          PROVE  phase'[d] = "committed" /\ UNCHANGED <<entry[d], last[d], id[d]>>
      BY <1>1, <2>0, <2>3 DEF SelectLast, Insert, Fail, Holding, TypeOK
    <2>4. ASSUME NEW w \in Workers, Crash(w)
          PROVE  phase'[d] = "committed" /\ UNCHANGED <<entry[d], last[d], id[d]>>
      BY <1>1, <2>0, <2>4 DEF Crash, Die, Gone, Pending, Holding, TypeOK
    <2>5. ASSUME NEW v \in Verifiers, VerifyChunk(v) \/ \E t \in Tenants : VerifyStart(v, t)
          PROVE  phase'[d] = "committed" /\ UNCHANGED <<entry[d], last[d], id[d]>>
      BY <1>1, <2>5 DEF VerifyChunk, VerifyStart
    <2>6. CASE UNCHANGED vars
      BY <1>1, <2>6 DEF vars
    <2> QED
      BY <1>1, <2>1, <2>2, <2>3, <2>4, <2>5, <2>6 DEF Next
  <1> QED
    BY <1>1 DEF KeepsStored, Committed

(***************************************************************************)
(* A step never changes or removes a stored row: entries are append-only   *)
(* through failures, crashes and races.                                    *)
(***************************************************************************)
THEOREM StoredForeverHolds == Spec => StoredForever
  <1>1. Spec => []TypeInv
    BY TypeInit, TypeStep, PTL DEF Spec
  <1>2. TypeInv /\ [Next]_vars => [KeepsStored]_vars
    BY StoredStep
  <1> QED
    BY <1>1, <1>2, PTL DEF Spec, StoredForever

----------------------------------------------------------------------------
(* Any number of processes: no lock without a holder *)

\* A chain lock that is taken is held by a task of its process and tenant that
\* is inside the critical section.
HolderInv ==
    \A w \in Workers, t \in Tenants : chainLock[w][t] # Null =>
        /\ phase[chainLock[w][t]] \in Holding
        /\ entry[chainLock[w][t]].worker = w
        /\ entry[chainLock[w][t]].tenant = t

LEMMA HolderStep ==
    ASSUME TypeInv, HolderInv, [Next]_vars
    PROVE  HolderInv'
  <1> USE DEF HolderInv, Holding
  <1>0. TypeOK /\ EntryInv
    BY DEF TypeInv
  <1>e. ASSUME NEW d \in Decisions, phase[d] # "unscheduled"
        PROVE  entry[d].worker \in Workers /\ entry[d].tenant \in Tenants
    BY <1>0, <1>e DEF EntryInv, Entry
  <1>1. ASSUME NEW d \in Decisions, NEW w \in Workers, NEW t \in Tenants,
               NEW p \in Payloads, NEW s \in Statuses, Schedule(d, w, t, p, s)
        PROVE  HolderInv'
    BY <1>0, <1>1 DEF Schedule, TypeOK
  <1>2. ASSUME NEW d \in Decisions, AcquireChainLock(d) PROVE HolderInv'
    BY <1>0, <1>2, <1>e DEF AcquireChainLock, TypeOK
  <1>3. ASSUME NEW d \in Decisions, SelectLast(d) \/ LockRow(d) \/ Insert(d) PROVE HolderInv'
    BY <1>0, <1>3 DEF SelectLast, LockRow, Insert, TypeOK
  <1>4. ASSUME NEW d \in Decisions, Commit(d) \/ Fail(d) PROVE HolderInv'
    <2>1. /\ UNCHANGED entry
          /\ \A e \in Decisions \ {d} : phase'[e] = phase[e]
          /\ chainLock' = [chainLock EXCEPT ![entry[d].worker][entry[d].tenant] = Null]
      BY <1>0, <1>4 DEF Commit, Fail, Release, TypeOK
    <2>2. ASSUME NEW w \in Workers, NEW t \in Tenants, chainLock'[w][t] # Null
          PROVE  chainLock'[w][t] = chainLock[w][t] /\ chainLock[w][t] # d
      <3>1. ~(w = entry[d].worker /\ t = entry[d].tenant)
        BY <1>0, <2>1, <2>2 DEF TypeOK
      <3>2. chainLock'[w][t] = chainLock[w][t]
        BY <1>0, <2>1, <3>1 DEF TypeOK
      <3> QED
        BY <2>2, <3>1, <3>2
    <2>3. \A w \in Workers, t \in Tenants : chainLock[w][t] \in Decisions \cup {Null}
      BY <1>0 DEF TypeOK
    <2> QED
      BY <2>1, <2>2, <2>3
  <1>5. ASSUME NEW w \in Workers, Crash(w) PROVE HolderInv'
    BY <1>0, <1>5 DEF Crash, Die, Gone, Pending, TypeOK
  <1>6. ASSUME NEW v \in Verifiers, VerifyChunk(v) \/ \E t \in Tenants : VerifyStart(v, t)
        PROVE  HolderInv'
    BY <1>6 DEF VerifyChunk, VerifyStart
  <1>7. CASE UNCHANGED vars
    BY <1>7 DEF vars
  <1> QED
    BY <1>1, <1>2, <1>3, <1>4, <1>5, <1>6, <1>7 DEF Next

\* So the death of a process without a task here goes unnoticed.
LEMMA DieIsCrash ==
    ASSUME TypeInv, HolderInv, NEW w \in Workers, Die(w)
    PROVE  Crash(w) \/ UNCHANGED vars
  <1> SUFFICES ASSUME Gone(w) = {} PROVE UNCHANGED vars
    BY DEF Crash
  <1>1. /\ phase' = [d \in Decisions |-> phase[d]]
        /\ last' = [d \in Decisions |-> last[d]]
        /\ id' = [d \in Decisions |-> id[d]]
        /\ UNCHANGED <<entry, nextId, check>>
    BY DEF Die
  <1>2. phase' = phase /\ last' = last /\ id' = id
    BY <1>1 DEF TypeInv, TypeOK
  <1>3. chainLock[w] = [t \in Tenants |-> Null]
    <2>1. chainLock[w] \in [Tenants -> Decisions \cup {Null}]
      BY DEF TypeInv, TypeOK
    <2>2. ASSUME NEW t \in Tenants PROVE chainLock[w][t] = Null
      BY <2>1 DEF HolderInv, Gone, Pending
    <2> QED
      BY <2>1, <2>2
  <1>4. chainLock' = chainLock
    BY <1>3 DEF Die, TypeInv, TypeOK
  <1> QED
    BY <1>1, <1>2, <1>4 DEF vars

LEMMA HolderInit == Init => HolderInv
  BY DEF Init, HolderInv

(***************************************************************************)
(* No chain lock outlives the task that took it: whatever fails or dies,   *)
(* a lock that is taken belongs to a task of its process and tenant that   *)
(* is still writing ("async with lock" in _write_entry).                   *)
(***************************************************************************)
THEOREM LocksHaveHolders == Spec => []HolderInv
  <1>1. Spec => []TypeInv
    BY TypeInit, TypeStep, PTL DEF Spec
  <1> QED
    BY <1>1, HolderInit, HolderStep, PTL DEF Spec

----------------------------------------------------------------------------
(* One writing process per tenant: the chain is linear *)

\* d has read its tenant's newest row and has not committed.
Snapshot == {"selecting", "read", "inserted"}

\* Whoever is between SELECT and COMMIT for one tenant is in one process.
OneWriter ==
    \A d, e \in Decisions :
        phase[d] \in Snapshot /\ phase[e] \in Snapshot /\ entry[d].tenant = entry[e].tenant
        => entry[d].worker = entry[e].worker

\* The deployment for which that is so whatever happens
OneProcess == \A v, w \in Workers : v = w

\* Whoever is inside the critical section is the holder the lock records.
LockInv ==
    \A d \in Decisions :
        phase[d] \in Holding => chainLock[entry[d].worker][entry[d].tenant] = d

\* Between SELECT and COMMIT the row that was read stays the tenant's newest.
TailInv ==
    \A d, e \in Decisions :
        /\ phase[d] \in {"selecting", "read", "inserted"}
        /\ phase[e] = "committed"
        /\ entry[d].tenant = entry[e].tenant
        => last[d] # Null /\ id[e] <= id[last[d]]

LinearInv == BackInv /\ LockInv /\ TailInv /\ ChainLinear

LEMMA LinearInit == Init => LinearInv
  <1>1. Init => LockInv /\ TailInv /\ ChainLinear
    BY DEF Init, LockInv, TailInv, ChainLinear, Committed, Holding
  <1> QED
    BY <1>1, BackInit DEF LinearInv

\* The critical section excludes all other writers of the tenant that have read.
LEMMA Alone ==
    ASSUME OneWriter, LockInv, NEW d \in Decisions, NEW e \in Decisions,
           phase[d] \in Snapshot, phase[e] \in Snapshot,
           entry[d].tenant = entry[e].tenant
    PROVE  d = e
  BY DEF OneWriter, LockInv, Snapshot, Holding

LEMMA LockStep == TypeInv /\ LockInv /\ [Next]_vars => LockInv'
  <1> SUFFICES ASSUME TypeInv, LockInv, [Next]_vars PROVE LockInv'
    OBVIOUS
  <1> USE DEF LockInv, Holding
  <1>0. TypeOK /\ EntryInv
    BY DEF TypeInv
  <1>e. ASSUME NEW d \in Decisions, phase[d] # "unscheduled"
        PROVE  entry[d].worker \in Workers /\ entry[d].tenant \in Tenants
    BY <1>0, <1>e DEF EntryInv, Entry
  <1>1. ASSUME NEW d \in Decisions, NEW w \in Workers, NEW t \in Tenants,
               NEW p \in Payloads, NEW s \in Statuses, Schedule(d, w, t, p, s)
        PROVE  LockInv'
    BY <1>0, <1>1 DEF Schedule, TypeOK
  <1>2. ASSUME NEW d \in Decisions, AcquireChainLock(d) PROVE LockInv'
    BY <1>0, <1>2, <1>e, NullAssumption DEF AcquireChainLock, TypeOK
  <1>3. ASSUME NEW d \in Decisions, SelectLast(d) \/ LockRow(d) \/ Insert(d) PROVE LockInv'
    BY <1>0, <1>3 DEF SelectLast, LockRow, Insert, TypeOK
  <1>4. ASSUME NEW d \in Decisions, Commit(d) PROVE LockInv'
    BY <1>0, <1>4, <1>e DEF Commit, Release, TypeOK
  <1>5. ASSUME NEW d \in Decisions, Fail(d) PROVE LockInv'
    BY <1>0, <1>5, <1>e DEF Fail, Release, TypeOK
  <1>6. ASSUME NEW w \in Workers, Crash(w) PROVE LockInv'
    BY <1>0, <1>6, <1>e DEF Crash, Die, Gone, Pending, TypeOK
  <1>7. ASSUME NEW v \in Verifiers, VerifyChunk(v) \/ \E t \in Tenants : VerifyStart(v, t)
        PROVE  LockInv'
    BY <1>7 DEF VerifyChunk, VerifyStart
  <1>8. CASE UNCHANGED vars
    BY <1>8 DEF vars
  <1> QED
    BY <1>1, <1>2, <1>3, <1>4, <1>5, <1>6, <1>7, <1>8 DEF Next

LEMMA TailStep ==
    ASSUME OneWriter, LinearInv, [Next]_vars
    PROVE  TailInv' /\ ChainLinear'
  <1> USE DEF TailInv, ChainLinear, Committed
  <1>0. /\ TypeInv
        /\ TypeOK
        /\ IdInv
        /\ LastInv
        /\ LockInv
        /\ TailInv
        /\ ChainLinear
    BY DEF LinearInv, BackInv, TypeInv
  <1>1. ASSUME NEW d \in Decisions, NEW w \in Workers, NEW t \in Tenants,
               NEW p \in Payloads, NEW s \in Statuses, Schedule(d, w, t, p, s)
        PROVE  TailInv' /\ ChainLinear'
    BY <1>0, <1>1 DEF Schedule, TypeOK, LastInv, HasRead
  <1>2. ASSUME NEW d \in Decisions, AcquireChainLock(d) PROVE TailInv' /\ ChainLinear'
    BY <1>0, <1>2 DEF AcquireChainLock, TypeOK
  <1>3. ASSUME NEW d \in Decisions, SelectLast(d) PROVE TailInv' /\ ChainLinear'
    <2>1. PICK r \in Newest(entry[d].tenant) : last' = [last EXCEPT ![d] = r]
      BY <1>3 DEF SelectLast
    <2>2. \A e \in Decisions : phase[e] = "committed" /\ entry[e].tenant = entry[d].tenant
                                => r # Null /\ id[e] <= id[r]
      BY NullAssumption DEF Newest, Rows
    <2>3. phase' = [phase EXCEPT ![d] = "selecting"] /\ phase[d] = "locked"
          /\ UNCHANGED <<entry, id>>
      BY <1>3 DEF SelectLast
    <2> QED
      BY <1>0, <2>1, <2>2, <2>3 DEF TypeOK
  <1>4. ASSUME NEW d \in Decisions, LockRow(d) PROVE TailInv' /\ ChainLinear'
    BY <1>0, <1>4 DEF LockRow, TypeOK
  <1>5. ASSUME NEW d \in Decisions, Insert(d) PROVE TailInv' /\ ChainLinear'
    <2>1. \A e \in Decisions : phase[e] \in HasRead /\ last[e] # Null => last[e] # d
      BY <1>0, <1>5 DEF Insert, LastInv
    <2> QED
      BY <1>0, <1>5, <2>1 DEF Insert, TypeOK, HasRead
  <1>6. ASSUME NEW d \in Decisions, Commit(d) PROVE TailInv' /\ ChainLinear'
    <2>1. \A e \in Decisions : phase[e] \in Snapshot /\ entry[e].tenant = entry[d].tenant => e = d
      BY <1>0, <1>6, Alone DEF Commit, Snapshot
    <2>2. TailInv'
      BY <1>0, <1>6, <2>1 DEF Commit, TypeOK, Snapshot
    <2>3. \A e \in Decisions : phase[e] = "committed" /\ entry[e].tenant = entry[d].tenant
                                => last[d] # Null /\ id[e] <= id[last[d]] /\ id[e] < id[d]
      BY <1>0, <1>6 DEF Commit, TypeOK, LastInv, HasRead, HasId
    <2>4. ChainLinear'
      BY <1>0, <1>6, <2>3 DEF Commit, TypeOK
    <2> QED
      BY <2>2, <2>4
  <1>7. ASSUME NEW d \in Decisions, Fail(d) PROVE TailInv' /\ ChainLinear'
    BY <1>0, <1>7 DEF Fail, TypeOK, Holding, LastInv, HasRead
  <1>8. ASSUME NEW w \in Workers, Crash(w) PROVE TailInv' /\ ChainLinear'
    BY <1>0, <1>8 DEF Crash, Die, Gone, TypeOK, Pending, Holding, LastInv, HasRead
  <1>9. ASSUME NEW v \in Verifiers, VerifyChunk(v) \/ \E t \in Tenants : VerifyStart(v, t)
        PROVE  TailInv' /\ ChainLinear'
    BY <1>0, <1>9 DEF VerifyChunk, VerifyStart
  <1>10. CASE UNCHANGED vars
    BY <1>0, <1>10 DEF vars
  <1> QED
    BY <1>1, <1>2, <1>3, <1>4, <1>5, <1>6, <1>7, <1>8, <1>9, <1>10 DEF Next

LEMMA LinearStep == LinearInv /\ OneWriter /\ [Next]_vars => LinearInv'
  BY BackStep, LockStep, TailStep DEF LinearInv, BackInv

LEMMA LinearInvariant == Spec /\ []OneWriter => []LinearInv
  BY LinearInit, LinearStep, PTL DEF Spec

\* With one process the condition holds of every behaviour.
LEMMA OneProcessWrites == ASSUME OneProcess PROVE Spec => []OneWriter
  <1>1. TypeInv => OneWriter
    BY DEF OneProcess, OneWriter, TypeInv, EntryInv, Entry, Snapshot
  <1>2. BackInv => TypeInv
    BY DEF BackInv
  <1> QED
    BY <1>1, <1>2, BackInvariant, PTL

(***************************************************************************)
(* The overlap of processes is all there is to a fork: as long as the      *)
(* writers of a tenant that are between SELECT and COMMIT are all in one   *)
(* process, every stored row links to the row stored immediately before    *)
(* it.  Within the process the lock sees to that (audit/service.py:31),    *)
(* and any number of processes may take turns, fail, crash and restart.    *)
(***************************************************************************)
THEOREM LinearWithoutOverlap == Spec /\ []OneWriter => []ChainLinear
  <1>1. LinearInv => ChainLinear
    BY DEF LinearInv
  <1> QED
    BY <1>1, LinearInvariant, PTL

(***************************************************************************)
(* With one process the tenant's lock does prevent race conditions: every  *)
(* stored row links to the row stored immediately before it, whatever      *)
(* transactions fail and whenever the process crashes and restarts.        *)
(***************************************************************************)
THEOREM ChainLinearHolds == ASSUME OneProcess PROVE Spec => []ChainLinear
  BY LinearWithoutOverlap, OneProcessWrites, PTL

----------------------------------------------------------------------------
(* One writing process per tenant: the log implements AuditLedger *)

\* A tenant with rows has a newest one.
NewestInv ==
    \A t \in Tenants : Rows(t) # {} =>
        \E d \in Rows(t) : \A e \in Rows(t) : id[e] <= id[d]

\* Ids are unique, so there is one newest row.
LEMMA NewestUnique ==
    ASSUME NEW f \in [Decisions -> Nat], NEW R \in SUBSET Decisions, NEW d \in R,
           \A x, y \in R : f[x] = f[y] => x = y,
           \A e \in R : f[e] <= f[d]
    PROVE  (CHOOSE r \in R : \A e \in R : f[e] <= f[r]) = d
  <1> DEFINE h == CHOOSE r \in R : \A e \in R : f[e] <= f[r]
  <1>1. h \in R /\ \A e \in R : f[e] <= f[h]
    OBVIOUS
  <1> HIDE DEF h
  <1>2. f[h] \in Nat /\ f[d] \in Nat
    BY <1>1
  <1>3. f[h] <= f[d] /\ f[d] <= f[h]
    BY <1>1
  <1>4. f[h] = f[d]
    BY <1>2, <1>3
  <1>5. h = d
    BY <1>1, <1>4
  <1> QED
    BY <1>5 DEF h

\* The newest row is the ledger's head.
LEMMA HeadIsNewest ==
    ASSUME TypeInv, IdInv, NEW t \in Tenants, NEW d \in Rows(t),
           \A e \in Rows(t) : id[e] <= id[d]
    PROVE  Head(t) = d
  <1>1. id \in [Decisions -> Nat] /\ Rows(t) \in SUBSET Decisions
    BY DEF TypeInv, TypeOK, Rows
  <1>2. \A x, y \in Rows(t) : id[x] = id[y] => x = y
    BY DEF IdInv, HasId, Rows, Committed
  <1>3. (CHOOSE r \in Rows(t) : \A e \in Rows(t) : id[e] <= id[r]) = d
    BY <1>1, <1>2, NewestUnique
  <1> QED
    BY <1>3 DEF Head

\* The same after a step.
LEMMA HeadIsNewestPrime ==
    ASSUME TypeInv', IdInv', NEW t \in Tenants, NEW d \in Rows(t)',
           \A e \in Rows(t)' : id'[e] <= id'[d]
    PROVE  Head(t)' = d
  <1>1. id' \in [Decisions -> Nat] /\ Rows(t)' \in SUBSET Decisions
    BY DEF TypeInv, TypeOK, Rows
  <1>2. \A x, y \in Rows(t)' : id'[x] = id'[y] => x = y
    BY DEF IdInv, HasId, Rows, Committed
  <1>3. (CHOOSE r \in Rows(t)' : \A e \in Rows(t)' : id'[e] <= id'[r]) = d
    BY <1>1, <1>2, NewestUnique
  <1> QED
    BY <1>3 DEF Head

\* A step that leaves the stored rows alone leaves the ledger alone.
LEMMA SameLedger ==
    ASSUME TypeInv, TypeInv', IdInv, IdInv', NewestInv,
           \A d \in Decisions : phase'[d] = "committed" <=> phase[d] = "committed",
           \A d \in Decisions : phase[d] = "committed" =>
               entry'[d] = entry[d] /\ last'[d] = last[d] /\ id'[d] = id[d]
    PROVE  UNCHANGED Ledger!ledgerVars /\ NewestInv'
  <1>1. \A t \in Tenants : Rows(t)' = Rows(t)
    BY DEF Rows, Committed
  <1>2. ASSUME NEW t \in Tenants PROVE Head(t)' = Head(t)
    <2>1. CASE Rows(t) = {}
      BY <1>1, <2>1 DEF Head
    <2>2. CASE Rows(t) # {}
      <3>1. PICK d \in Rows(t) : \A e \in Rows(t) : id[e] <= id[d]
        BY <2>2 DEF NewestInv
      <3>2. Head(t) = d
        BY <3>1, HeadIsNewest
      <3>3. d \in Rows(t)' /\ \A e \in Rows(t)' : id'[e] <= id'[d]
        BY <1>1, <3>1 DEF Rows, Committed
      <3>4. Head(t)' = d
        BY <3>3, HeadIsNewestPrime
      <3> QED
        BY <3>2, <3>4
    <2> QED
      BY <2>1, <2>2
  <1>3. NewestInv'
    BY <1>1 DEF NewestInv, Rows, Committed
  <1>4. UNCHANGED [t \in Tenants |-> Head(t)]
    BY <1>2
  <1>5. UNCHANGED [d \in Decisions |->
            IF Committed(d) THEN [tenant |-> entry[d].tenant, prev |-> last[d]] ELSE Null]
    BY DEF Committed
  <1> QED
    BY <1>3, <1>4, <1>5 DEF Ledger!ledgerVars

LedgerInv == LinearInv /\ NewestInv

\* A commit appends its row to the head it read.
LEMMA CommitAppends ==
    ASSUME LedgerInv, LinearInv', NEW d \in Decisions, Commit(d),
           NEW t \in Tenants, entry[d].tenant = t
    PROVE  Ledger!Append(d, t) /\ NewestInv'
  <1>0. /\ TypeInv /\ TypeInv' /\ TypeOK /\ IdInv /\ IdInv'
        /\ LastInv /\ LockInv /\ TailInv /\ NewestInv
    BY DEF LedgerInv, LinearInv, BackInv, TypeInv
  <1>1. /\ phase[d] = "inserted"
        /\ phase' = [phase EXCEPT ![d] = "committed"]
        /\ UNCHANGED <<entry, last, id>>
    BY DEF Commit
  <1>2. entry[d].tenant = t /\ t \in Tenants
    OBVIOUS
  <1>3. Rows(t)' = Rows(t) \cup {d}
    BY <1>0, <1>1, <1>2 DEF Rows, Committed, TypeOK
  <1>4. \A s \in Tenants \ {t} : Rows(s)' = Rows(s)
    BY <1>0, <1>1, <1>2 DEF Rows, Committed, TypeOK
  <1>5. \A e \in Rows(t) : /\ last[d] # Null
                           /\ last[d] \in Rows(t)
                           /\ id[e] <= id[last[d]]
                           /\ id[last[d]] < id[d]
    BY <1>0, <1>1, <1>2 DEF Rows, Committed, TailInv, LastInv, HasRead, HasId, TypeOK
  <1>6. \A e \in Rows(t)' : id'[e] <= id'[d]
    BY <1>0, <1>1, <1>3, <1>5 DEF TypeOK, Rows
  <1>7. Head(t)' = d
    BY <1>0, <1>2, <1>3, <1>6, HeadIsNewestPrime
  <1>8. Head(t) = last[d]
    <2>1. CASE Rows(t) = {}
      <3>1. last[d] = Null
        BY <1>0, <1>1, <1>2, <2>1 DEF LastInv, HasRead, Rows, Committed, TypeOK
      <3> QED
        BY <2>1, <3>1 DEF Head
    <2>2. CASE Rows(t) # {}
      BY <1>0, <1>2, <1>5, <2>2, HeadIsNewest
    <2> QED
      BY <2>1, <2>2
  <1>9. ASSUME NEW s \in Tenants \ {t}
        PROVE  /\ Head(s)' = Head(s)
               /\ Rows(s)' # {} => \E e \in Rows(s)' : \A f \in Rows(s)' : id'[f] <= id'[e]
    <2>1. Rows(s)' = Rows(s) /\ id' = id
      BY <1>1, <1>4
    <2>2. Head(s)' = Head(s)
      BY <2>1 DEF Head
    <2>3. Rows(s) # {} => \E e \in Rows(s) : \A f \in Rows(s) : id[f] <= id[e]
      BY <1>0 DEF NewestInv
    <2> QED
      BY <2>1, <2>2, <2>3
  <1>10. NewestInv'
    <2>1. d \in Rows(t)'
      BY <1>3
    <2>2. \E e \in Rows(t)' : \A f \in Rows(t)' : id'[f] <= id'[e]
      BY <1>6, <2>1
    <2>3. ASSUME NEW s \in Tenants, Rows(s)' # {}
          PROVE  \E e \in Rows(s)' : \A f \in Rows(s)' : id'[f] <= id'[e]
      <3>1. CASE s = t
        BY <2>2, <3>1
      <3>2. CASE s # t
        BY <1>9, <2>3, <3>2
      <3> QED
        BY <3>1, <3>2
    <2> QED
      BY <2>3 DEF NewestInv
  <1> DEFINE hd == [s \in Tenants |-> Head(s)]
             lnk == [e \in Decisions |->
                IF Committed(e) THEN [tenant |-> entry[e].tenant, prev |-> last[e]] ELSE Null]
  <1>11. hd' = [hd EXCEPT ![t] = d]
    <2>1. entry' = entry
      BY <1>1
    <2>2. \A s \in Tenants : Head(s)' = IF s = t THEN d ELSE Head(s)
      BY <1>7, <1>9
    <2>3. hd' = [s \in Tenants |-> Head(s)']
      OBVIOUS
    <2>4. hd' = [s \in Tenants |-> IF s = t THEN d ELSE hd[s]]
      BY <2>2, <2>3
    <2> QED
      BY <2>4
  <1>12. lnk[d] = Null
    BY <1>1 DEF Committed
  <1>13. lnk' = [lnk EXCEPT ![d] = [tenant |-> t, prev |-> last[d]]]
    BY <1>0, <1>1, <1>2 DEF Committed, TypeOK
  <1>14. hd[t] = last[d]
    BY <1>2, <1>8
  <1> QED
    BY <1>10, <1>11, <1>12, <1>13, <1>14 DEF Ledger!Append

\* Every other step leaves the stored rows alone.
LEMMA OnlyCommitStores ==
    ASSUME TypeInv, [Next]_vars, ~ \E d \in Decisions : Commit(d), NEW d \in Decisions
    PROVE  /\ phase'[d] = "committed" <=> phase[d] = "committed"
           /\ phase[d] = "committed" =>
                 entry'[d] = entry[d] /\ last'[d] = last[d] /\ id'[d] = id[d]
  <1> DEFINE Same == /\ phase'[d] = "committed" <=> phase[d] = "committed"
                     /\ phase[d] = "committed" =>
                           entry'[d] = entry[d] /\ last'[d] = last[d] /\ id'[d] = id[d]
  <1>0. TypeOK
    BY DEF TypeInv
  <1>1. ASSUME NEW e \in Decisions, NEW w \in Workers, NEW t \in Tenants,
               NEW p \in Payloads, NEW s \in Statuses, Schedule(e, w, t, p, s)
        PROVE  Same
    BY <1>0, <1>1 DEF Schedule, TypeOK
  <1>2. ASSUME NEW e \in Decisions, AcquireChainLock(e) \/ LockRow(e) PROVE Same
    BY <1>0, <1>2 DEF AcquireChainLock, LockRow, TypeOK
  <1>3. ASSUME NEW e \in Decisions, SelectLast(e) \/ Insert(e) \/ Fail(e) PROVE Same
    BY <1>0, <1>3 DEF SelectLast, Insert, Fail, Holding, TypeOK
  <1>4. ASSUME NEW w \in Workers, Crash(w) PROVE Same
    BY <1>0, <1>4 DEF Crash, Die, Gone, Pending, Holding, TypeOK
  <1>5. ASSUME NEW v \in Verifiers, VerifyChunk(v) \/ \E t \in Tenants : VerifyStart(v, t)
        PROVE  Same
    BY <1>5 DEF VerifyChunk, VerifyStart
  <1>6. CASE UNCHANGED vars
    BY <1>6 DEF vars
  <1> QED
    BY <1>1, <1>2, <1>3, <1>4, <1>5, <1>6 DEF Next

LEMMA LedgerStep ==
    ASSUME LedgerInv, LinearInv', [Next]_vars
    PROVE  [Ledger!LedgerNext]_(Ledger!ledgerVars) /\ NewestInv'
  <1>1. CASE \E d \in Decisions : Commit(d)
    <2>1. PICK d \in Decisions : Commit(d)
      BY <1>1
    <2>2. PICK t \in Tenants : entry[d].tenant = t
      BY <2>1 DEF Commit, LedgerInv, LinearInv, BackInv, TypeInv, EntryInv, Entry
    <2>3. Ledger!Append(d, t) /\ NewestInv'
      BY <2>1, <2>2, CommitAppends
    <2> QED
      BY <2>3 DEF Ledger!LedgerNext
  <1>2. CASE ~ \E d \in Decisions : Commit(d)
    <2>1. TypeInv /\ TypeInv' /\ IdInv /\ IdInv' /\ NewestInv
      BY DEF LedgerInv, LinearInv, BackInv
    <2>2. UNCHANGED Ledger!ledgerVars /\ NewestInv'
      BY <1>2, <2>1, OnlyCommitStores, SameLedger
    <2> QED
      BY <2>2
  <1> QED
    BY <1>1, <1>2

(***************************************************************************)
(* As long as no two processes overlap in a tenant's log, it implements    *)
(* the ledger: every commit appends to its tenant's head, every other step *)
(* leaves the ledger as it is.                                             *)
(***************************************************************************)
THEOREM LedgerWithoutOverlap == Spec /\ []OneWriter => ImplementsLedger
  <1>1. Init => Ledger!LedgerInit /\ NewestInv
    <2>1. Init => \A t \in Tenants : Rows(t) = {}
      BY DEF Init, Rows, Committed
    <2>2. Init => \A d \in Decisions : ~Committed(d)
      BY DEF Init, Committed
    <2> QED
      BY <2>1, <2>2 DEF Ledger!LedgerInit, Head, NewestInv
  <1>2. LinearInv /\ LinearInv' /\ NewestInv /\ [Next]_vars
        => NewestInv' /\ [Ledger!LedgerNext]_(Ledger!ledgerVars)
    BY LedgerStep DEF LedgerInv
  <1> QED
    BY <1>1, <1>2, LinearInvariant, PTL DEF Spec, ImplementsLedger, Ledger!LedgerSpec

\* With one process the log implements the ledger.
THEOREM ImplementsLedgerHolds == ASSUME OneProcess PROVE Spec => ImplementsLedger
  BY LedgerWithoutOverlap, OneProcessWrites, PTL

(***************************************************************************)
(* With one process the audit trail never forks: two stored entries of a   *)
(* tenant never carry a hash read from the same row.                       *)
(***************************************************************************)
THEOREM NoForkHolds == ASSUME OneProcess PROVE Spec => []Ledger!NoFork
  <1>1. ASSUME LinearInv, NEW d \in Decisions, NEW e \in Decisions,
               Committed(d), Committed(e), entry[d].tenant = entry[e].tenant,
               last[d] = last[e]
        PROVE  ~(id[e] < id[d])
    BY <1>1 DEF LinearInv, BackInv, ChainLinear, LastInv, HasRead, HasId, Committed,
                TypeInv, TypeOK
  <1>2. ASSUME LinearInv, NEW d \in Decisions, NEW e \in Decisions,
               Committed(d), Committed(e), entry[d].tenant = entry[e].tenant,
               last[d] = last[e]
        PROVE  d = e
    <2>1. ~(id[e] < id[d]) /\ ~(id[d] < id[e])
      BY <1>1, <1>2
    <2>2. id[d] \in Nat /\ id[e] \in Nat
      BY <1>2 DEF LinearInv, BackInv, TypeInv, TypeOK
    <2>3. id[d] = id[e]
      BY <2>1, <2>2
    <2> QED
      BY <1>2, <2>3 DEF LinearInv, BackInv, IdInv, HasId, Committed
  <1>3. LinearInv => Ledger!NoFork
    BY <1>2 DEF Ledger!NoFork
  <1> QED
    BY <1>3, LinearInvariant, OneProcessWrites, PTL

----------------------------------------------------------------------------
(* One process: verify_chain *)

\* The place of row d among the rows R, by the ids f.
Place(R, f, d) == Cardinality({e \in R : f[e] < f[d]})

LEMMA PlaceFacts ==
    ASSUME NEW R \in SUBSET Decisions, NEW f \in [Decisions -> Nat], NEW d \in R
    PROVE  /\ Place(R, f, d) \in Nat
           /\ Place(R, f, d) < Cardinality(R)
           /\ \A e \in R : f[e] < f[d] => Place(R, f, e) < Place(R, f, d)
  <1> DEFINE before(x) == {e \in R : f[e] < f[x]}
  <1>1. IsFiniteSet(R) /\ Cardinality(R) \in Nat
    BY FiniteAssumption, FS_Subset, FS_CardinalityType
  <1>2. \A x : /\ IsFiniteSet(before(x)) /\ Cardinality(before(x)) \in Nat
               /\ Cardinality(before(x)) <= Cardinality(R)
    BY <1>1, FS_Subset, FS_CardinalityType
  <1>3. d \notin before(d)
    OBVIOUS
  <1>4. Cardinality(before(d)) # Cardinality(R)
    BY <1>1, <1>3, FS_Subset
  <1>5. ASSUME NEW e \in R, f[e] < f[d]
        PROVE  Cardinality(before(e)) < Cardinality(before(d))
    <2>1. before(e) \subseteq before(d)
      BY <1>5
    <2>2. e \in before(d) /\ e \notin before(e)
      BY <1>5
    <2>3. /\ Cardinality(before(e)) <= Cardinality(before(d))
          /\ Cardinality(before(e)) # Cardinality(before(d))
      BY <1>2, <2>1, <2>2, FS_Subset
    <2> HIDE DEF before
    <2> QED
      BY <1>2, <2>3
  <1>6. \A x : Place(R, f, x) = Cardinality(before(x))
    BY DEF Place
  <1> HIDE DEF before
  <1>7. Cardinality(before(d)) < Cardinality(R)
    BY <1>1, <1>2, <1>4
  <1> QED
    BY <1>2, <1>5, <1>6, <1>7

\* Two rows have different places.
LEMMA PlaceUnique ==
    ASSUME NEW R \in SUBSET Decisions, NEW f \in [Decisions -> Nat], NEW d \in R, NEW e \in R,
           f[d] # f[e]
    PROVE  Place(R, f, d) # Place(R, f, e)
  <1>1. f[d] < f[e] \/ f[e] < f[d]
    OBVIOUS
  <1>2. Place(R, f, d) \in Nat /\ Place(R, f, e) \in Nat
    BY PlaceFacts
  <1> QED
    BY <1>1, <1>2, PlaceFacts

\* Rows that are appended leave the places of the others alone.
LEMMA PlacesStay ==
    ASSUME NEW R, NEW S \in SUBSET Decisions, R \subseteq S,
           NEW f \in [Decisions -> Nat], NEW g \in [Decisions -> Nat],
           \A d \in R : g[d] = f[d],
           \A d \in R, e \in S \ R : g[d] < g[e]
    PROVE  /\ Cardinality(R) <= Cardinality(S)
           /\ \A d \in R : Place(S, g, d) = Place(R, f, d)
           /\ \A e \in S \ R : Cardinality(R) <= Place(S, g, e)
  <1>1. IsFiniteSet(S)
    BY FiniteAssumption, FS_Subset
  <1>2. Cardinality(R) <= Cardinality(S)
    BY <1>1, FS_Subset
  <1>3. ASSUME NEW d \in R PROVE Place(S, g, d) = Place(R, f, d)
    <2>1. \A e \in S : g[e] < g[d] => e \in R
      <3> SUFFICES ASSUME NEW e \in S \ R, g[e] < g[d] PROVE FALSE
        OBVIOUS
      <3>1. g[d] < g[e] /\ g[d] \in Nat /\ g[e] \in Nat
        OBVIOUS
      <3> QED
        BY <3>1
    <2>2. {e \in S : g[e] < g[d]} = {e \in R : f[e] < f[d]}
      BY <2>1
    <2> QED
      BY <2>2 DEF Place
  <1>4. ASSUME NEW e \in S \ R PROVE Cardinality(R) <= Place(S, g, e)
    <2>1. R \subseteq {x \in S : g[x] < g[e]}
      OBVIOUS
    <2>2. IsFiniteSet({x \in S : g[x] < g[e]})
      BY <1>1, FS_Subset
    <2> QED
      BY <2>1, <2>2, FS_Subset DEF Place
  <1> QED
    BY <1>2, <1>3, <1>4

\* The row before d among R is m.
LEMMA PlaceOfPrevious ==
    ASSUME NEW R \in SUBSET Decisions, NEW f \in [Decisions -> Nat], NEW d \in R, NEW m \in R,
           f[m] < f[d], \A e \in R : f[e] < f[d] => f[e] <= f[m],
           \A x, y \in R : f[x] = f[y] => x = y
    PROVE  Place(R, f, d) = Place(R, f, m) + 1
  <1> DEFINE before == {e \in R : f[e] < f[m]}
  <1>1. {e \in R : f[e] < f[d]} = before \cup {m}
    <2>1. ASSUME NEW e \in R, f[e] < f[d], e # m PROVE f[e] < f[m]
      <3>1. f[e] <= f[m] /\ f[e] # f[m] /\ f[e] \in Nat /\ f[m] \in Nat
        BY <2>1
      <3> QED
        BY <3>1
    <2>2. ASSUME NEW e \in R, f[e] < f[m] PROVE f[e] < f[d]
      <3>1. f[e] \in Nat /\ f[m] \in Nat /\ f[d] \in Nat
        OBVIOUS
      <3> QED
        BY <2>2, <3>1
    <2> QED
      BY <2>1, <2>2
  <1>2. m \notin before
    OBVIOUS
  <1>3. IsFiniteSet(before)
    BY FiniteAssumption, FS_Subset
  <1>4. Cardinality(before \cup {m}) = Cardinality(before) + 1
    BY <1>2, <1>3, FS_AddElement
  <1> QED
    BY <1>1, <1>4 DEF Place

LEMMA RankIsPlace ==
    ASSUME NEW t, NEW d \in Rows(t)
    PROVE  Rank(d) = Place(Rows(t), id, d)
  BY DEF Rank, Place, Rows

\* The rows of a tenant, and that their ids differ.
LEMMA RowFacts ==
    ASSUME LinearInv, NEW t
    PROVE  /\ Rows(t) \in SUBSET Decisions /\ id \in [Decisions -> Nat]
           /\ \A x, y \in Rows(t) : id[x] = id[y] => x = y
           /\ \A x \in Rows(t) : last[x] # Null => last[x] \in Rows(t) /\ id[last[x]] < id[x]
           /\ \A x, y \in Rows(t) : id[y] < id[x] => last[x] # Null /\ id[y] <= id[last[x]]
  BY DEF LinearInv, BackInv, TypeInv, TypeOK, IdInv, LastInv, ChainLinear, HasId, HasRead, Rows,
         Committed

\* A step appends to the rows of a tenant, if it touches them at all.
LEMMA LogGrows ==
    ASSUME LinearInv, LinearInv', [Next]_vars, NEW t
    PROVE  /\ Cardinality(Rows(t)) <= Cardinality(Rows(t)')
           /\ \A d \in Rows(t) : d \in Rows(t)' /\ entry'[d] = entry[d] /\ Rank(d)' = Rank(d)
           /\ \A d \in Rows(t)' \ Rows(t) : Cardinality(Rows(t)) <= Rank(d)'
  <1>1. TypeInv /\ TypeOK /\ id \in [Decisions -> Nat] /\ id' \in [Decisions -> Nat]
    BY DEF LinearInv, BackInv, TypeInv, TypeOK
  <1>2. /\ \A d \in Rows(t) : d \in Rows(t)' /\ entry'[d] = entry[d] /\ id'[d] = id[d]
        /\ \A d \in Rows(t), e \in Rows(t)' \ Rows(t) : id'[d] < id'[e]
    <2>1. CASE \E c \in Decisions : Commit(c)
      <3>1. PICK c \in Decisions : Commit(c)
        BY <2>1
      <3>2. /\ phase[c] = "inserted" /\ phase' = [phase EXCEPT ![c] = "committed"]
            /\ UNCHANGED <<entry, last, id>>
        BY <3>1 DEF Commit
      <3>3. \A d \in Rows(t) : d \in Rows(t)'
        BY <1>1, <3>2 DEF Rows, Committed, TypeOK
      <3>4. \A e \in Rows(t)' \ Rows(t) : e = c /\ entry[e].tenant = t
        BY <1>1, <3>2 DEF Rows, Committed, TypeOK
      <3>5. ASSUME NEW d \in Rows(t), entry[c].tenant = t PROVE id[d] < id[c]
        <4>1. last[c] # Null /\ id[d] <= id[last[c]]
          BY <3>2, <3>5 DEF LinearInv, TailInv, Rows, Committed
        <4>2. id[last[c]] < id[c] /\ last[c] \in Decisions
          BY <1>1, <3>2, <4>1 DEF LinearInv, BackInv, LastInv, HasRead, HasId, TypeOK
        <4>3. id[d] \in Nat /\ id[c] \in Nat /\ id[last[c]] \in Nat
          BY <1>1, <4>2 DEF Rows
        <4> QED
          BY <4>1, <4>2, <4>3
      <3> QED
        BY <3>2, <3>3, <3>4, <3>5
    <2>2. CASE ~ \E c \in Decisions : Commit(c)
      <3>1. \A d \in Decisions : /\ phase'[d] = "committed" <=> phase[d] = "committed"
                                 /\ phase[d] = "committed" => entry'[d] = entry[d] /\ id'[d] = id[d]
        BY <1>1, <2>2, OnlyCommitStores
      <3> QED
        BY <3>1 DEF Rows, Committed
    <2> QED
      BY <2>1, <2>2
  <1> DEFINE R == Rows(t)
             S == Rows(t)'
  <1>3. S \in SUBSET Decisions /\ R \subseteq S
    BY <1>2 DEF Rows
  <1>4. \A d \in S : Rank(d)' = Place(S, id', d)
    BY DEF Rank, Place, Rows
  <1>5. \A d \in R : Rank(d) = Place(R, id, d)
    BY RankIsPlace
  <1> HIDE DEF R, S
  <1>6. /\ Cardinality(R) <= Cardinality(S)
        /\ \A d \in R : Place(S, id', d) = Place(R, id, d)
        /\ \A e \in S \ R : Cardinality(R) <= Place(S, id', e)
    <2>1. (\A d \in R : id'[d] = id[d]) /\ \A d \in R, e \in S \ R : id'[d] < id'[e]
      BY <1>2 DEF R, S
    <2> QED
      BY <1>1, <1>3, <2>1, PlacesStay
  <1>7. \A d \in R : Rank(d)' = Rank(d)
    BY <1>3, <1>4, <1>5, <1>6
  <1>8. \A d \in S \ R : Cardinality(R) <= Rank(d)'
    BY <1>4, <1>6
  <1> QED
    BY <1>2, <1>6, <1>7, <1>8 DEF R, S

\* The row before d in the log is the one that d links to.
LEMMA LinkIsPrevious ==
    ASSUME LinearInv, NEW t, NEW d \in Rows(t)
    PROVE  /\ Rank(d) = 0 => last[d] = Null
           /\ Rank(d) # 0 => /\ last[d] \in Rows(t) /\ last[d] # Null
                             /\ Rank(last[d]) = Rank(d) - 1
                             /\ \A e \in Rows(t) : Rank(e) = Rank(d) - 1 => e = last[d]
  <1>1. /\ Rows(t) \in SUBSET Decisions /\ id \in [Decisions -> Nat]
        /\ \A x, y \in Rows(t) : id[x] = id[y] => x = y
        /\ last[d] # Null => last[d] \in Rows(t) /\ id[last[d]] < id[d]
        /\ \A y \in Rows(t) : id[y] < id[d] => last[d] # Null /\ id[y] <= id[last[d]]
    BY RowFacts
  <1>2. \A x \in Rows(t) : Rank(x) = Place(Rows(t), id, x) /\ Rank(x) \in Nat
    BY <1>1, RankIsPlace, PlaceFacts
  <1>3. ASSUME last[d] # Null
        PROVE  /\ Rank(d) = Rank(last[d]) + 1
               /\ \A e \in Rows(t) : Rank(e) = Rank(last[d]) => e = last[d]
    <2>1. Place(Rows(t), id, d) = Place(Rows(t), id, last[d]) + 1
      BY <1>1, <1>3, PlaceOfPrevious
    <2>2. \A e \in Rows(t) : e # last[d] =>
             Place(Rows(t), id, e) # Place(Rows(t), id, last[d])
      BY <1>1, <1>3, PlaceUnique
    <2> QED
      BY <1>1, <1>2, <1>3, <2>1, <2>2
  <1>4. ASSUME last[d] = Null PROVE Rank(d) = 0
    <2>1. {e \in Rows(t) : id[e] < id[d]} = {}
      BY <1>1, <1>4
    <2> QED
      BY <1>2, <2>1, FS_EmptySet DEF Place
  <1> QED
    BY <1>1, <1>2, <1>3, <1>4

\* What a running verifier knows: as long as its offset has not passed what
\* there was at its start, it carries the hash of the row before the offset.
CheckOK(c) ==
    /\ c.result = "running" =>
          /\ c.seen <= Cardinality(Rows(c.tenant))
          /\ 0 < c.offset /\ c.offset <= c.seen =>
                \A d \in Rows(c.tenant) : Rank(d) = c.offset - 1 => c.carried = DecisionHash(d)
    /\ c.result = "broken" => c.seen < c.offset /\ c.offset < Cardinality(Rows(c.tenant))

CheckInv == \A v \in Verifiers : CheckOK(check[v])

\* Whoever appends meanwhile does a verifier no harm.
LEMMA CheckStays ==
    ASSUME LinearInv, LinearInv', [Next]_vars, NEW v \in Verifiers,
           CheckOK(check[v]), check'[v] = check[v]
    PROVE  CheckOK(check[v])'
  <1> DEFINE c == check[v]
  <1>1. c.offset \in Nat /\ c.seen \in Nat
    BY DEF LinearInv, BackInv, TypeInv, TypeOK
  <1>2. /\ Cardinality(Rows(c.tenant)) \in Nat /\ Cardinality(Rows(c.tenant)') \in Nat
        /\ Cardinality(Rows(c.tenant)) <= Cardinality(Rows(c.tenant)')
    <2>1. Cardinality(Rows(c.tenant)') \in Nat
      <3>1. Rows(c.tenant)' \subseteq Decisions
        BY DEF Rows
      <3> QED
        BY <3>1, FiniteAssumption, FS_Subset, FS_CardinalityType
    <2> QED
      BY <2>1, RowsFinite, LogGrows
  <1>3. \A d \in Rows(c.tenant) : entry'[d] = entry[d] /\ Rank(d)' = Rank(d)
    BY LogGrows
  <1>4. \A d \in Rows(c.tenant)' \ Rows(c.tenant) : Cardinality(Rows(c.tenant)) <= Rank(d)'
    BY LogGrows
  <1>5. ASSUME c.result = "running"
        PROVE  /\ c.seen <= Cardinality(Rows(c.tenant)')
               /\ 0 < c.offset /\ c.offset <= c.seen =>
                     \A d \in Rows(c.tenant)' :
                        Rank(d)' = c.offset - 1 => c.carried = DecisionHash(d)'
    <2>1. /\ c.seen <= Cardinality(Rows(c.tenant))
          /\ 0 < c.offset /\ c.offset <= c.seen =>
                \A d \in Rows(c.tenant) : Rank(d) = c.offset - 1 => c.carried = DecisionHash(d)
      BY <1>5 DEF CheckOK
    <2>2. ASSUME 0 < c.offset, c.offset <= c.seen, NEW d \in Rows(c.tenant)',
                 Rank(d)' = c.offset - 1
          PROVE  c.carried = DecisionHash(d)'
      <3>1. d \in Rows(c.tenant)
        BY <1>1, <1>2, <1>4, <2>1, <2>2
      <3>2. c.carried = DecisionHash(d)
        BY <1>3, <2>1, <2>2, <3>1
      <3> QED
        BY <1>3, <3>1, <3>2 DEF DecisionHash
    <2> QED
      BY <1>1, <1>2, <2>1, <2>2
  <1>6. ASSUME c.result = "broken"
        PROVE  c.seen < c.offset /\ c.offset < Cardinality(Rows(c.tenant)')
    <2>1. c.seen < c.offset /\ c.offset < Cardinality(Rows(c.tenant))
      BY <1>6 DEF CheckOK
    <2> QED
      BY <1>1, <1>2, <2>1
  <1>7. \A t : Rows(t)' = Rows(t)'
    OBVIOUS
  <1> QED
    BY <1>5, <1>6 DEF CheckOK

\* A verifier reads and leaves the log as it is.
LEMMA LogUntouched ==
    ASSUME UNCHANGED <<entry, phase, chainLock, last, id, nextId>>
    PROVE  /\ \A t : Rows(t)' = Rows(t)
           /\ \A d : Rank(d)' = Rank(d) /\ DecisionHash(d)' = DecisionHash(d)
  <1>1. \A t : Rows(t)' = Rows(t)
    BY DEF Rows, Committed
  <1>2. \A d : Rank(d)' = Rank(d)
    BY <1>1 DEF Rank
  <1> QED
    BY <1>1, <1>2 DEF DecisionHash

\* A row that does not match is the one at the offset, and the offset is past
\* what there was at the start.
LEMMA BreakIsAtOffset ==
    ASSUME LinearInv, NEW v \in Verifiers, CheckOK(check[v]), check[v].result = "running",
           Broken(check[v].tenant, check[v].offset, check[v].carried)
    PROVE  /\ check[v].seen < check[v].offset
           /\ check[v].offset < Cardinality(Rows(check[v].tenant))
  <1> DEFINE c == check[v]
             R == Rows(c.tenant)
  <1>1. c.offset \in Nat /\ c.seen \in Nat
    BY DEF LinearInv, BackInv, TypeInv, TypeOK
  <1>2. PICK d \in Chunk(c.tenant, c.offset) : PreviousHash(d) # Expected(d, c.offset, c.carried)
    BY DEF Broken
  <1>3. d \in R /\ Rank(d) >= c.offset /\ entry[d].tenant = c.tenant
    BY <1>2 DEF Chunk, Rows
  <1>4. Rank(d) \in Nat /\ Rank(d) < Cardinality(R)
    BY <1>3, RowFacts, RankIsPlace, PlaceFacts
  <1>5. Rank(d) # 0
    <2>1. Rank(d) = 0 => PreviousHash(d) = Null
      BY <1>3, LinkIsPrevious DEF PreviousHash
    <2> QED
      BY <1>2, <2>1 DEF Expected
  <1>6. /\ last[d] \in R /\ last[d] # Null
        /\ Rank(last[d]) = Rank(d) - 1
        /\ \A e \in R : Rank(e) = Rank(d) - 1 => e = last[d]
    BY <1>3, <1>5, LinkIsPrevious
  <1>7. PreviousHash(d) = DecisionHash(last[d])
    BY <1>6 DEF PreviousHash
  <1>8. Rank(d) = c.offset
    <2>1. (CHOOSE e \in R : Rank(e) = Rank(d) - 1) = last[d]
      BY <1>6
    <2>2. Rank(d) # c.offset => Expected(d, c.offset, c.carried) = DecisionHash(last[d])
      BY <1>3, <1>5, <2>1 DEF Expected
    <2> QED
      BY <1>2, <1>7, <2>2
  <1>9. c.carried # DecisionHash(last[d])
    BY <1>2, <1>5, <1>7, <1>8 DEF Expected
  <1>10. ~(0 < c.offset /\ c.offset <= c.seen)
    BY <1>6, <1>8, <1>9 DEF CheckOK
  <1> QED
    BY <1>1, <1>4, <1>5, <1>8, <1>10

\* After a chunk that matches, the hash carried on is that of its last row.
LEMMA CarriedIsLast ==
    ASSUME LinearInv, NEW t, NEW offset \in Nat, NEW d \in Chunk(t, offset),
           \A e \in Chunk(t, offset) : id[e] <= id[d],
           NEW x \in Rows(t), Rank(x) = offset + ChunkSize - 1
    PROVE  x = d
  <1>1. /\ Rows(t) \in SUBSET Decisions /\ id \in [Decisions -> Nat]
        /\ \A y, z \in Rows(t) : id[y] = id[z] => y = z
    BY RowFacts
  <1>2. d \in Rows(t) /\ Rank(d) < offset + ChunkSize
    BY DEF Chunk
  <1>3. x \in Chunk(t, offset)
    BY ChunkAssumption DEF Chunk
  <1>4. id[x] <= id[d] /\ id[x] \in Nat /\ id[d] \in Nat
    BY <1>1, <1>2, <1>3
  <1>5. id[x] < id[d] => Rank(x) < Rank(d)
    BY <1>1, <1>2, RankIsPlace, PlaceFacts
  <1>6. Rank(d) \in Nat
    BY <1>1, <1>2, RankIsPlace, PlaceFacts
  <1>7. ~(id[x] < id[d])
    BY <1>2, <1>5, <1>6, ChunkAssumption
  <1> QED
    BY <1>1, <1>2, <1>4, <1>7

LEMMA ChunkStep ==
    ASSUME LinearInv, NEW v \in Verifiers, CheckOK(check[v]), VerifyChunk(v)
    PROVE  CheckOK(check[v])'
  <1> DEFINE c == check[v]
             R == Rows(c.tenant)
             rows == Chunk(c.tenant, c.offset)
  <1>1. /\ check \in [Verifiers -> [tenant : Tenants \cup {Null}, offset : Nat,
                                    carried : (Payloads \X Statuses) \cup {Null},
                                    result : {"idle", "running", "intact", "broken"},
                                    seen : Nat]]
        /\ c.offset \in Nat /\ c.seen \in Nat
    BY DEF LinearInv, BackInv, TypeInv, TypeOK
  <1>2. /\ \A t : Rows(t)' = Rows(t)
        /\ \A d : Rank(d)' = Rank(d) /\ DecisionHash(d)' = DecisionHash(d)
    BY LogUntouched DEF VerifyChunk
  <1>3. c.result = "running"
    BY DEF VerifyChunk
  <1>4. CASE check' = [check EXCEPT ![v].result = "intact"]
    <2>1. check'[v].result = "intact"
      BY <1>1, <1>4
    <2> QED
      BY <2>1 DEF CheckOK
  <1>5. CASE /\ Broken(c.tenant, c.offset, c.carried)
             /\ check' = [check EXCEPT ![v].result = "broken"]
    <2>1. /\ check'[v].result = "broken" /\ check'[v].tenant = c.tenant
          /\ check'[v].offset = c.offset /\ check'[v].seen = c.seen
      BY <1>1, <1>5
    <2>2. c.seen < c.offset /\ c.offset < Cardinality(R)
      BY <1>3, <1>5, BreakIsAtOffset
    <2> QED
      BY <1>2, <2>1, <2>2 DEF CheckOK
  <1>6. CASE \E d \in rows : /\ \A e \in rows : id[e] <= id[d]
                             /\ check' = [check EXCEPT ![v].offset = @ + ChunkSize,
                                                       ![v].carried = DecisionHash(d)]
    <2>1. PICK d \in rows : /\ \A e \in rows : id[e] <= id[d]
                            /\ check' = [check EXCEPT ![v].offset = @ + ChunkSize,
                                                      ![v].carried = DecisionHash(d)]
      BY <1>6
    <2>2. /\ check'[v].result = "running" /\ check'[v].tenant = c.tenant
          /\ check'[v].offset = c.offset + ChunkSize /\ check'[v].seen = c.seen
          /\ check'[v].carried = DecisionHash(d)
      BY <1>1, <1>3, <2>1
    <2>3. c.seen <= Cardinality(R)
      BY <1>3 DEF CheckOK
    <2>4. \A x \in R : Rank(x) = c.offset + ChunkSize - 1 => x = d
      BY <1>1, <2>1, CarriedIsLast
    <2>5. ASSUME NEW x \in Rows(check[v].tenant)', Rank(x)' = check'[v].offset - 1
          PROVE  check'[v].carried = DecisionHash(x)'
      <3>1. x \in R
        BY <1>2, <2>2
      <3>2. Rank(x) = c.offset + ChunkSize - 1
        BY <1>1, <1>2, <2>2, <2>5, ChunkAssumption
      <3>3. x = d
        BY <2>4, <3>1, <3>2
      <3>4. DecisionHash(x)' = DecisionHash(x)
        BY <1>2
      <3> QED
        BY <2>2, <3>3, <3>4
    <2>6. check'[v].seen <= Cardinality(Rows(check[v].tenant)')
      BY <1>2, <2>2, <2>3
    <2> QED
      BY <2>2, <2>5, <2>6 DEF CheckOK
  <1> QED
    BY <1>4, <1>5, <1>6 DEF VerifyChunk

LEMMA CheckStep ==
    ASSUME LinearInv, LinearInv', CheckInv, [Next]_vars
    PROVE  CheckInv'
  <1> SUFFICES ASSUME NEW v \in Verifiers PROVE CheckOK(check[v])'
    BY DEF CheckInv
  <1>1. CheckOK(check[v])
    BY DEF CheckInv
  <1>2. CASE \E t \in Tenants : VerifyStart(v, t)
    <2>1. PICK t \in Tenants : VerifyStart(v, t)
      BY <1>2
    <2>2. Rows(t)' = Rows(t) /\ Cardinality(Rows(t)) \in Nat
      BY <2>1, LogUntouched, RowsFinite DEF VerifyStart
    <2>3. /\ check'[v].result = "running" /\ check'[v].tenant = t
          /\ check'[v].offset = 0 /\ check'[v].seen = Cardinality(Rows(t))
      BY <2>1 DEF VerifyStart, LinearInv, BackInv, TypeInv, TypeOK
    <2> QED
      BY <2>2, <2>3 DEF CheckOK
  <1>3. CASE VerifyChunk(v)
    BY <1>1, <1>3, ChunkStep
  <1>4. CASE check'[v] = check[v]
    BY <1>1, <1>4, CheckStays
  <1>5. \/ check'[v] = check[v]
        \/ VerifyChunk(v)
        \/ \E t \in Tenants : VerifyStart(v, t)
    <2>0. TypeOK
      BY DEF LinearInv, BackInv, TypeInv
    <2>1. ASSUME NEW u \in Verifiers, VerifyChunk(u) \/ \E t \in Tenants : VerifyStart(u, t),
                 u # v
          PROVE  check'[v] = check[v]
      BY <2>0, <2>1 DEF VerifyChunk, VerifyStart, TypeOK
    <2>2. check' = check \/ \E u \in Verifiers :
             VerifyChunk(u) \/ \E t \in Tenants : VerifyStart(u, t)
      BY DEF Next, vars, Schedule, AcquireChainLock, SelectLast, LockRow, Insert, Commit, Fail,
             Crash, Die
    <2> QED
      BY <2>1, <2>2
  <1> QED
    BY <1>2, <1>3, <1>4, <1>5

(***************************************************************************)
(* As long as no two processes overlap in a tenant's log, a report of a    *)
(* broken chain by verify_chain means one thing: more rows are stored than *)
(* the offset counts, and the offset ran past what there was when the      *)
(* verification began.  For every chunk size and however many              *)
(* verifications and writers run at once.                                  *)
(***************************************************************************)
THEOREM AlarmsWithoutOverlap == Spec /\ []OneWriter => []AlarmOnlyAtBoundary
  <1>1. Init => CheckInv
    BY DEF Init, CheckInv, CheckOK
  <1>2. LinearInv /\ LinearInv' /\ CheckInv /\ [Next]_vars => CheckInv'
    BY CheckStep
  <1>3. CheckInv => AlarmOnlyAtBoundary
    BY DEF CheckInv, CheckOK, AlarmOnlyAtBoundary
  <1> QED
    BY <1>1, <1>2, <1>3, LinearInvariant, PTL DEF Spec

\* With one process verify_chain reports a break for no other reason.
THEOREM AlarmOnlyAtBoundaryHolds == ASSUME OneProcess PROVE Spec => []AlarmOnlyAtBoundary
  BY AlarmsWithoutOverlap, OneProcessWrites, PTL

====
