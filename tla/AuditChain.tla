---- MODULE AuditChain ----
(***************************************************************************)
(* audit/service.py: the writers of the hash-chained audit log and the     *)
(* verifier that re-reads it, over the PostgreSQL table audit_log.         *)
(*                                                                         *)
(* A writer is the asyncio task of one decision                            *)
(* (AuditService.log -> _write_entry).  It takes the tenant's lock of ITS  *)
(* process (_chain_locks is a module-level dict, one per gunicorn worker), *)
(* opens a READ COMMITTED transaction, reads the newest row FOR UPDATE,    *)
(* inserts a row that carries that row's hash, and commits.                *)
(*                                                                         *)
(* A row's previous_hash is represented by the row it was read from        *)
(* (last[d]); PreviousHash turns it into the stored value.  SHA-256 is     *)
(* taken to be injective: the decision hash is the pair it digests.        *)
(***************************************************************************)
EXTENDS Naturals, FiniteSets

CONSTANTS
    Decisions,  \* decision ids (UUIDs; one audit entry each)
    Tenants,    \* tenant ids
    Workers,    \* gunicorn worker processes (Dockerfile: -w 2)
    Payloads,   \* payload hashes that occur
    Statuses,   \* decision statuses that occur
    Verifiers,  \* concurrent calls of verify_chain (route, chain-status, hourly monitor)
    ChunkSize,  \* CHUNK_SIZE of verify_chain (5000 in the code)
    Null        \* SQL NULL / Python None

ASSUME NullAssumption == Null \notin Decisions
ASSUME ChunkAssumption == ChunkSize \in Nat \ {0}
ASSUME FiniteAssumption == IsFiniteSet(Decisions)

VARIABLES
    entry,      \* entry[d]: the AuditEntry handed to log(), Null before that
    phase,      \* phase[d]: how far the write of d has got
    chainLock,  \* chainLock[w][t]: the task that holds _chain_locks[t] in process w
    last,       \* last[d]: the row _get_last_hash returned to d (Null: no row)
    id,         \* id[d]: audit_log.id of d's row, 0 while it has none
    nextId,     \* the BIGSERIAL sequence behind audit_log.id
    check       \* check[v]: the local variables and the result of verify_chain, and
                \* (history, read by properties only) the rows there were at its start

vars == <<entry, phase, chainLock, last, id, nextId, check>>

----------------------------------------------------------------------------
(* The table audit_log *)

Entry == [worker : Workers, tenant : Tenants, payload : Payloads, status : Statuses]

Committed(d) == phase[d] = "committed"

\* The rows of tenant t that a new statement sees.
Rows(t) == {d \in Decisions : Committed(d) /\ entry[d].tenant = t}

\* compute_decision_hash(payload_hash, status): the previous hash is no part of it.
DecisionHash(d) == <<entry[d].payload, entry[d].status>>

\* The previous_hash column of d's row.
PreviousHash(d) == IF last[d] = Null THEN Null ELSE DecisionHash(last[d])

\* Mutant: no row is taken for id 0, not for NULL.
NewestZero(t) ==
    IF Rows(t) = {} THEN {0}
    ELSE {d \in Rows(t) : \A e \in Rows(t) : id[e] <= id[d]}

\* Mutant: the newest row is looked for among uncommitted rows as well.
NewestDirty(t) ==
    LET rows == {d \in Decisions : phase[d] \in {"inserted", "committed"} /\ entry[d].tenant = t}
    IN  IF rows = {} THEN {Null} ELSE {d \in rows : \A e \in rows : id[e] <= id[d]}

\* ORDER BY id DESC LIMIT 1: the newest row of t, Null when there is none.
Newest(t) ==
    IF Rows(t) = {} THEN {Null}
    ELSE {d \in Rows(t) : \A e \in Rows(t) : id[e] <= id[d]}

----------------------------------------------------------------------------
(* Writing an entry *)

\* The task is inside "async with lock".
Holding == {"locked", "selecting", "read", "inserted"}

Pending == {"queued"} \cup Holding

\* The transaction of d holds the row lock of the row it selected FOR UPDATE.
HasRowLock(d) == phase[d] \in {"read", "inserted"}

Release(d) ==
    chainLock' = [chainLock EXCEPT ![entry[d].worker][entry[d].tenant] = Null]

\* schedule_audit_log: process w creates the task of decision d.
Schedule(d, w, t, p, s) ==
    /\ phase[d] = "unscheduled"
    /\ entry' = [entry EXCEPT ![d] = [worker |-> w, tenant |-> t, payload |-> p, status |-> s]]
    /\ phase' = [phase EXCEPT ![d] = "queued"]
    /\ UNCHANGED <<chainLock, last, id, nextId, check>>

\* Mutant: the lock is not waited for.
AcquireChainLockNoWait(d) ==
    /\ phase[d] = "queued"
    /\ chainLock' = [chainLock EXCEPT ![entry[d].worker][entry[d].tenant] = d]
    /\ phase' = [phase EXCEPT ![d] = "locked"]
    /\ UNCHANGED <<entry, last, id, nextId, check>>

\* lock = _chain_locks.setdefault(...); async with lock
AcquireChainLock(d) ==
    /\ phase[d] = "queued"
    /\ chainLock[entry[d].worker][entry[d].tenant] = Null
    /\ chainLock' = [chainLock EXCEPT ![entry[d].worker][entry[d].tenant] = d]
    /\ phase' = [phase EXCEPT ![d] = "locked"]
    /\ UNCHANGED <<entry, last, id, nextId, check>>

\* Mutant: no WHERE tenant_id.
SelectLastAnyTenant(d) ==
    /\ phase[d] = "locked"
    /\ \E r \in UNION {Newest(t) : t \in Tenants} : last' = [last EXCEPT ![d] = r]
    /\ phase' = [phase EXCEPT ![d] = "selecting"]
    /\ UNCHANGED <<entry, chainLock, id, nextId, check>>

\* _get_last_hash: the statement's snapshot picks the row ...
SelectLast(d) ==
    /\ phase[d] = "locked"
    /\ \E r \in Newest(entry[d].tenant) : last' = [last EXCEPT ![d] = r]
    /\ phase' = [phase EXCEPT ![d] = "selecting"]
    /\ UNCHANGED <<entry, chainLock, id, nextId, check>>

\* ... and FOR UPDATE waits for its lock. Rows are never updated, so the row
\* picked before the wait is returned after it, however old it is by then; an
\* empty result locks nothing.
LockRow(d) ==
    /\ phase[d] = "selecting"
    /\ last[d] # Null => \A e \in Decisions : ~(HasRowLock(e) /\ last[e] = last[d])
    /\ phase' = [phase EXCEPT ![d] = "read"]
    /\ UNCHANGED <<entry, chainLock, last, id, nextId, check>>

\* The flush of db.add(log_row): INSERT takes an id from the sequence.
Insert(d) ==
    /\ phase[d] = "read"
    /\ id' = [id EXCEPT ![d] = nextId]
    /\ nextId' = nextId + 1
    /\ phase' = [phase EXCEPT ![d] = "inserted"]
    /\ UNCHANGED <<entry, chainLock, last, check>>

\* End of "async with db.begin()" and of "async with lock".
Commit(d) ==
    /\ phase[d] = "inserted"
    /\ phase' = [phase EXCEPT ![d] = "committed"]
    /\ Release(d)
    /\ UNCHANGED <<entry, last, id, nextId, check>>

\* Mutant: the lock is not released when a statement fails.
FailKeepsLock(d) ==
    /\ phase[d] \in Holding
    /\ phase' = [phase EXCEPT ![d] = "failed"]
    /\ last' = [last EXCEPT ![d] = Null]
    /\ id' = [id EXCEPT ![d] = 0]
    /\ UNCHANGED <<entry, chainLock, nextId, check>>

\* A statement fails: rollback, the lock is released, log() swallows the exception.
Fail(d) ==
    /\ phase[d] \in Holding
    /\ phase' = [phase EXCEPT ![d] = "failed"]
    /\ last' = [last EXCEPT ![d] = Null]
    /\ id' = [id EXCEPT ![d] = 0]
    /\ Release(d)
    /\ UNCHANGED <<entry, nextId, check>>

\* The tasks that die with process w.
Gone(w) == {d \in Decisions : phase[d] \in Pending /\ entry[d].worker = w}

\* Mutant: what was committed is not durable.
DieForgets(w) ==
    LET gone == {d \in Decisions : phase[d] \in Pending \cup {"committed"} /\ entry[d].worker = w}
    IN  /\ phase' = [d \in Decisions |-> IF d \in gone THEN "lost" ELSE phase[d]]
        /\ last' = [d \in Decisions |-> IF d \in gone THEN Null ELSE last[d]]
        /\ id' = [d \in Decisions |-> IF d \in gone THEN 0 ELSE id[d]]
        /\ chainLock' = [chainLock EXCEPT ![w] = [t \in Tenants |-> Null]]
        /\ UNCHANGED <<entry, nextId, check>>

\* Process w dies: its tasks and its locks are gone, its open transactions roll
\* back. gunicorn starts a new process in its place.
Die(w) ==
    /\ phase' = [d \in Decisions |-> IF d \in Gone(w) THEN "lost" ELSE phase[d]]
    /\ last' = [d \in Decisions |-> IF d \in Gone(w) THEN Null ELSE last[d]]
    /\ id' = [d \in Decisions |-> IF d \in Gone(w) THEN 0 ELSE id[d]]
    /\ chainLock' = [chainLock EXCEPT ![w] = [t \in Tenants |-> Null]]
    /\ UNCHANGED <<entry, nextId, check>>

Crash(w) == Gone(w) # {} /\ Die(w)

----------------------------------------------------------------------------
(* verify_chain: re-reads the log of one tenant chunk by chunk, each chunk in
   a statement (and so a snapshot) of its own. Dates are not modelled: no
   caller of the code passes a datetime. *)

\* Position of row d in ORDER BY id ASC.
Rank(d) == Cardinality({e \in Rows(entry[d].tenant) : id[e] < id[d]})

\* .limit(CHUNK_SIZE).offset(offset)
Chunk(t, offset) ==
    {d \in Rows(t) : Rank(d) >= offset /\ Rank(d) < offset + ChunkSize}

\* Mutant: previous_chain_hash does not survive from chunk to chunk.
ExpectedPerChunk(d, offset, carried) ==
    IF Rank(d) = offset THEN Null
    ELSE DecisionHash(CHOOSE e \in Rows(entry[d].tenant) : Rank(e) = Rank(d) - 1)

\* What the loop compares the previous_hash of row d with: previous_chain_hash.
Expected(d, offset, carried) ==
    IF Rank(d) = 0 THEN Null
    ELSE IF Rank(d) = offset THEN carried
    ELSE DecisionHash(CHOOSE e \in Rows(entry[d].tenant) : Rank(e) = Rank(d) - 1)

Broken(t, offset, carried) ==
    \E d \in Chunk(t, offset) : PreviousHash(d) # Expected(d, offset, carried)

VerifyStart(v, t) ==
    /\ check[v].result # "running"
    /\ check' = [check EXCEPT ![v] =
                   [tenant |-> t, offset |-> 0, carried |-> Null, result |-> "running",
                    seen |-> Cardinality(Rows(t))]]
    /\ UNCHANGED <<entry, phase, chainLock, last, id, nextId>>

\* One iteration of "while True".
VerifyChunk(v) ==
    LET c == check[v]
        rows == Chunk(c.tenant, c.offset)
    IN  /\ c.result = "running"
        /\ \/ /\ rows = {}
              /\ check' = [check EXCEPT ![v].result = "intact"]
           \/ /\ rows # {}
              /\ Broken(c.tenant, c.offset, c.carried)
              /\ check' = [check EXCEPT ![v].result = "broken"]
           \/ /\ rows # {}
              /\ ~Broken(c.tenant, c.offset, c.carried)
              /\ \E d \in rows :
                    /\ \A e \in rows : id[e] <= id[d]
                    /\ check' = [check EXCEPT ![v].offset = @ + ChunkSize,
                                              ![v].carried = DecisionHash(d)]
        /\ UNCHANGED <<entry, phase, chainLock, last, id, nextId>>

----------------------------------------------------------------------------
Init ==
    /\ entry = [d \in Decisions |-> Null]
    /\ phase = [d \in Decisions |-> "unscheduled"]
    /\ chainLock = [w \in Workers |-> [t \in Tenants |-> Null]]
    /\ last = [d \in Decisions |-> Null]
    /\ id = [d \in Decisions |-> 0]
    /\ nextId = 1
    /\ check = [v \in Verifiers |->
                  [tenant |-> Null, offset |-> 0, carried |-> Null, result |-> "idle",
                   seen |-> 0]]

WriteStep(d) ==
    \/ AcquireChainLock(d)
    \/ SelectLast(d)
    \/ LockRow(d)
    \/ Insert(d)
    \/ Commit(d)

Next ==
    \/ \E d \in Decisions, w \in Workers, t \in Tenants, p \in Payloads, s \in Statuses :
          Schedule(d, w, t, p, s)
    \/ \E d \in Decisions : AcquireChainLock(d)
    \/ \E d \in Decisions : SelectLast(d)
    \/ \E d \in Decisions : LockRow(d)
    \/ \E d \in Decisions : Insert(d)
    \/ \E d \in Decisions : Commit(d)
    \/ \E d \in Decisions : Fail(d)
    \/ \E w \in Workers : Crash(w)
    \/ \E v \in Verifiers, t \in Tenants : VerifyStart(v, t)
    \/ \E v \in Verifiers : VerifyChunk(v)

Spec == Init /\ [][Next]_vars

\* The event loop keeps running tasks that can run; the database answers.
FairSpec == Spec /\ \A d \in Decisions : WF_vars(WriteStep(d))

----------------------------------------------------------------------------
(* Type invariant *)

TypeOK ==
    /\ entry \in [Decisions -> Entry \cup {Null}]
    /\ phase \in [Decisions -> {"unscheduled", "queued", "locked", "selecting", "read",
                                "inserted", "committed", "failed", "lost"}]
    /\ chainLock \in [Workers -> [Tenants -> Decisions \cup {Null}]]
    /\ last \in [Decisions -> Decisions \cup {Null}]
    /\ id \in [Decisions -> Nat]
    /\ nextId \in Nat
    /\ check \in [Verifiers -> [tenant : Tenants \cup {Null},
                                offset : Nat,
                                carried : (Payloads \X Statuses) \cup {Null},
                                result : {"idle", "running", "intact", "broken"},
                                seen : Nat]]

----------------------------------------------------------------------------
(* Safety, for any number of processes *)

(***************************************************************************)
(* Links point back: the previous_hash of a stored row was read from a     *)
(* stored row of the same tenant with a smaller id. No rollback, crash or  *)
(* race leaves a row chained to an entry that was never stored, to a later *)
(* one or to another tenant's (_get_last_hash inside _write_entry's        *)
(* transaction).                                                           *)
(***************************************************************************)
LinksPointBack ==
    \A d \in Decisions :
        Committed(d) /\ last[d] # Null =>
            /\ Committed(last[d])
            /\ entry[last[d]].tenant = entry[d].tenant
            /\ id[last[d]] < id[d]

(***************************************************************************)
(* A stored row is never changed or removed again, whoever fails later     *)
(* (the table's immutability trigger is never needed by this code).        *)
(***************************************************************************)
KeepsStored ==
    \A d \in Decisions : Committed(d) =>
        /\ Committed(d)'
        /\ UNCHANGED <<entry[d], last[d], id[d]>>

StoredForever == [][KeepsStored]_vars

----------------------------------------------------------------------------
(* Safety, when one process writes the log *)

(***************************************************************************)
(* The chain is linear: each stored row of a tenant links to the row       *)
(* stored immediately before it, and only the first row has no link.       *)
(* This is what "per-tenant locking prevents race conditions on concurrent *)
(* writes" (audit/service.py:31) promises.                                 *)
(***************************************************************************)
ChainLinear ==
    \A d, e \in Decisions :
        /\ Committed(d)
        /\ Committed(e)
        /\ entry[d].tenant = entry[e].tenant
        /\ id[e] < id[d]
        => last[d] # Null /\ id[e] <= id[last[d]]

(***************************************************************************)
(* verify_chain reports a break of an unbroken chain in one case only: the *)
(* log grew past a chunk boundary while it was being read. Below it,       *)
(* reading in several snapshots while writers append does no harm.         *)
(***************************************************************************)
AlarmOnlyAtBoundary ==
    \A v \in Verifiers : check[v].result = "broken" =>
        /\ check[v].seen < check[v].offset
        /\ check[v].offset < Cardinality(Rows(check[v].tenant))

(***************************************************************************)
(* verify_chain never reports a break although one process writes the log, *)
(* as "the chain can be verified by any external party at any time"        *)
(* (audit/service.py:30) says. The code does not keep this: after a short  *)
(* last chunk it advances offset by CHUNK_SIZE all the same, and skips the *)
(* rows appended in between.                                               *)
(***************************************************************************)
NoFalseAlarm == \A v \in Verifiers : check[v].result # "broken"

----------------------------------------------------------------------------
(* Liveness *)

(***************************************************************************)
(* Every scheduled write ends: stored, failed, or lost with its process.   *)
(* No task waits for ever for the chain lock or for a row lock, whatever   *)
(* other writers of the same tenant do, fail or crash.                     *)
(***************************************************************************)
WritesEnd ==
    \A d \in Decisions :
        phase[d] = "queued" ~> phase[d] \in {"committed", "failed", "lost"}

----------------------------------------------------------------------------
(* What the log implements: with one process, the ledger's linear chain *)

Head(t) ==
    IF Rows(t) = {} THEN Null
    ELSE CHOOSE d \in Rows(t) : \A e \in Rows(t) : id[e] <= id[d]

Ledger == INSTANCE AuditLedger WITH
    head <- [t \in Tenants |-> Head(t)],
    link <- [d \in Decisions |->
               IF Committed(d) THEN [tenant |-> entry[d].tenant, prev |-> last[d]] ELSE Null]

(***************************************************************************)
(* Every commit appends to the tenant's head and nothing else touches the  *)
(* ledger: with one process the log refines AuditLedger.                   *)
(***************************************************************************)
ImplementsLedger == Ledger!LedgerSpec

====
