# Axiosky Governor: TLA+ models, model checking and proofs

This directory specifies the governance API under `src/governance-api`: a FastAPI service that
evaluates actions of AI agents against policies, writes every decision to a hash-chained audit
log, and asks humans about the decisions that need one. Paths below are relative to
`src/governance-api`.

## The system

gunicorn runs two worker processes (`Dockerfile:30`, `-w 2`, `--graceful-timeout 10`), each an
asyncio event loop with its own module-level state. They share PostgreSQL (READ COMMITTED, the
default that `database/session.py` leaves in place) and Redis.

| Component | State | Operations | Interacts with |
|---|---|---|---|
| Audit chain, `audit/service.py` | table `audit_log`; per process `_chain_locks` | `log` -> `_write_entry` (lock, SELECT newest FOR UPDATE, INSERT, COMMIT), `verify_chain` | started as a task by the pipeline and by approve/reject; read by chain-status and the hourly monitor |
| Escalations, `escalations/service.py`, `governor/service.py:288-318, 890-977` | table `escalations` | `create`, `resolve` (approve, reject), expiry loop of each process | created by the pipeline; human resolutions are audited |
| Decision pipeline and lifespan, `governor/service.py` | Redis `idempotency:<key>`; per process `_background_tasks` | `evaluate`, `evaluate_batch`, `_make_decision`, `check_/cache_idempotency`, `schedule_audit_log`, start-up and shutdown | everything else |
| Webhook delivery, `escalations/service.py:86-161` | an untracked task, its attempt | up to three posts | started after the escalation row is committed |
| Rate limiter, `governor/service.py:139-180` | Redis `rl:<key>:<window>`; per process `_rate_limit_store` | `check_rate_limit` | first step of every route |
| Policy engine and loader, `policy_engine/` | per process template cache with a 60 s time to live | `evaluate`, `load_all_templates`, `get_rules_for_action` | pipeline, simulate |
| Context resolver, `context/resolver.py` | none | `resolve`: concurrent hooks, per-hook and aggregate timeout, merge | pipeline, simulate; SSRF check |
| Access, `governor/middleware.py`, `auth/service.py`, admin routes, `scripts/provision_tenant.py` | tables `tenants`, `api_keys` | look a key and its tenant up, create tenants and keys, revoke keys, provision | in front of every route |
| Queries, `database/base_repo.py`, `reports/shadow_report.py` | none | pages and counts of audit logs and escalations, shadow report | read what pipeline, reviewers and loops write |
| Migration, `database/migrate.py` | table `schema_migrations` | connect, look, apply, record, retry | before everything else; nothing stops two runs |
| SSRF check, SDK, start-up validator, metrics | none | predicates, calls, one-shot checks | |

What is hard about it, and what therefore has to hold:

- **Audit chain.** Writers interleave inside a process (tasks) and between processes; a writer may
  fail or die at any `await` while others wait; the verifier reads in several snapshots while rows
  are appended. The chain must be linear, stored rows must never change or link to something that
  was not stored, no writer may wait for ever, and an unbroken chain must not be reported broken.
- **Escalations.** Reviewers and one expiry loop per process read first and write later, without
  locks, around a deadline. A row must show one resolution, on the right side of its deadline,
  with an audit entry if a human made it; it must never reopen and must not stay pending for ever;
  what a reviewer was told, and what a repeated request is told from Redis, must hold. Table and
  audit trail are written by different tasks in different transactions and must agree.
- **Pipeline and lifespan.** One decision leaves traces in three stores and two background tasks
  with no common transaction, and the process may drain, exit or be killed between any two.
  The escalation table and the audit trail must agree, nobody may be told (or told again from
  Redis) an unscheduled decision, a graceful exit must lose no audit entry and must happen.
- **Rate limiter.** A limit per key over two stores, one of which fails, with answers that are lost
  and a clock that is read early; a fallback that evicts. Each store must keep its limit, and a
  client must not be locked out for longer than a window.
- **Policy engine, resolver, loader.** Hooks answer in any order or not at all; every process reloads
  the templates on its own clock, file by file, while they may be changing. First match wins and no
  match blocks, whatever fails; no verdict may rest on rules older than the time to live, and
  processes must agree once a change of policy is older than that.
- **Access.** Every request looks its key up in one statement and the tenant in the next, while keys are
  created, deleted and expire and tenants are suspended in other processes; a key is shown once, after
  a commit that may be the last thing its process does. Who is refused must stay refused, an admitted
  request must act for the right tenant, and a key that somebody holds must be stored.
- **Queries.** A page and the count it is continued by, the counts of a report and its entries, are
  different snapshots, offsets move while rows are written and resolved, and rows become visible later
  than, and in another order than, they got the `created_at` they are sorted by.
- **Migration.** Runs retry, crash and overlap; a file and the record that it was executed are two
  transactions, and a lost answer leaves open whether a statement was executed.

The hazards, each at its line and with the properties that would show it going wrong, are listed in
`PROJECT.json`.

## Modules

| Module | What it is |
|---|---|
| `AuditLedger` | abstract specification: per tenant one linear chain that only grows (`head`, `link`, `Append`) |
| `AuditChain` | `audit/service.py` in detail; refines `AuditLedger` when no two processes overlap in a tenant's log |
| `AuditChainProofs` | TLAPS theorems about `AuditChain` |
| `Escalation` | life of the rows of table `escalations`, the resolve requests and their cached answers |
| `EscalationProofs` | TLAPS theorems about `Escalation` |
| `ResolutionTrail` | composition of `Escalation` and `AuditChain`: the same processes write table and trail |
| `ResolutionTrailProofs` | TLAPS theorems about `ResolutionTrail` |
| `Governor` | the decision pipeline, its tasks and the end of a process |
| `GovernorProofs` | TLAPS theorems about `Governor` |
| `RateLimiter` | `check_rate_limit` over Redis and the table of each process |
| `RateLimiterProofs` | TLAPS theorems about `RateLimiter` |
| `PolicyEngine` | operators: conditions, rules, first match, merge of answers |
| `PolicyEvaluation` | hooks, template cache and verdict, for evaluate and simulate |
| `PolicyProofs` | TLAPS theorems about `PolicyEvaluation` |
| `Tenancy` | the constants that `Access` and `Listings` share |
| `Access` | tenants, API keys and the requests that use and manage them |
| `Listings` | what paging clients and reports see of tables that others write |
| `Migration` | overlapping runs of the migration script |
| `ServiceProofs` | TLAPS theorems about `Access` and `Migration` |
| `ListingProofs` | TLAPS theorems about `Listings` |
| `MCAudit`, `MCEscalation`, `MCGovernor`, `MCRateLimiter`, `MCPolicy`, `MCService` | model-checking instances (symmetry sets) with the `.cfg` files |

`map` in `PROJECT.json` gives the lines of every definition. Definitions whose comment begins with
"Mutant:" are no part of the specification: each is a plausible bug of the definition after it, and
the property named with it in `PROJECT.json` fails when it takes that definition's place.

### AuditChain

One writer is one decision `d`. `phase[d]` follows `_write_entry`: `queued` (task created),
`locked` (inside `async with lock`), `selecting` (the SELECT's snapshot has picked a row), `read`
(its row lock is granted), `inserted` (flushed, id taken from the sequence), `committed`, or
`failed`, `lost`. `chainLock[w][t]` is `_chain_locks[t]` of process `w`. Three details of the
database matter and are modelled:

- picking the row and locking it are two steps (`SelectLast`, `LockRow`). Rows are never updated, so
  PostgreSQL returns the picked row after the wait without looking again; no row, no lock;
- an uncommitted row is invisible, and `id` comes from a sequence that does not roll back;
- a crash rolls back what is open (`Crash`), an exception does too, releases the lock and is
  swallowed by `log` (`Fail`).

A row's `previous_hash` is represented by the row it was read from; `PreviousHash` is the stored
value. The decision hash digests payload hash and status only (line 45), so distinct rows may have
equal hashes, which the verifier compares. `verify_chain` (`check[v]`) reads one chunk per step.

### Escalation

`row[e]` is the row; `call[c]` a request to approve or reject: `reading` after `Arrive` (rate limit and
look-up of `esc:<key>` behind it), `read` after the SELECT, `writing` after the clock is read and the
columns set in memory, `committed`, `caching` once its audit entry is scheduled, `answered`. A request
whose key is found in Redis is `replayed` and does nothing else. The UPDATE carries no condition on the
status, so `Commit` and `ExpiryCommit` overwrite whatever the row holds. `pass[w]` is the expiry loop of
process `w`, `audited` the calls whose human entry was handed to `schedule_audit_log`, `cache[k]` the call
whose answer Redis holds, or `Decision`. `Crash` takes every request and the loop of one process at once (`Die`). A call
stands for the reviewer named in its body. Time is `now`, up to `MaxTime`.

The key `esc:<key>` names neither the route nor the escalation nor the tenant
(`governor/service.py:894, 939`), so a replayed answer may be the one to another question. It does not
even name the kind of question: `evaluate` caches under `idempotency:<header>`, approve and reject under
`idempotency:esc:<header>`, so an evaluate call sent with the header `esc:K` shares its Redis key with an
approve call sent with `K`. `StoreDecision(k)` is such an evaluate call as `Escalation` sees it: at any
time, `cache[k]` may become `Decision`, and a reviewer is then answered with a policy decision although
nothing was resolved. `ReplayBacked` says what does hold: what is replayed is such a decision, or the
answer of a resolution that was committed and scheduled for the trail, of an escalation that is closed.

### ResolutionTrail

Extends `Escalation` and takes `AuditChain` as `Log`, whose decisions are here the escalations (the
entry of the decision that asked for one) and the calls (the entry of the human decision). `CreateIn`
and `AuditDecision` are the two halves of `_make_decision` around the await between them (`creator[e]`
is the process that owes the entry; `ActionFails` is the one way, short of its death, not to pay it),
`AnswerIn` is `Answer` together with `Schedule`, and
`ProcessDies` is `Die` of both. Every other step is one of one component. Requests have no idempotency key here: an
answer from Redis changes neither table. Escalations without a row (see `Governor`) do not occur in it. The outcome of an entry
(`EntryStatus`) is what the routes write, and may differ from what the row says once another
reviewer's commit has overwritten it: `TrailMatchesTable` says exactly how far the two agree.

### Governor

`call[c]` walks through `evaluate` or `evaluate_batch`; a decision is `<<call, place in the batch>>`.
`Evaluate` is the synchronous stretch of `_make_decision` after the hooks (with the scheduling of the
audit task when no row is needed), `CreateRow` the commit in `EscalationService.create`,
`FinishEscalation` the stretch after it (webhook task, audit task), `ItemFail` an exception, which ends
a single call and is recorded by a batch (after the commit of the row, too: `_is_valid_webhook_url` may
raise what is no `ValueError`), `Store` and `RedisFail` the two fates of
`cache_idempotency`. `mode[w]` is the shutdown: `Terminate`, `Gather` (uvicorn has finished the
requests and resumes `lifespan`, which takes the snapshot `awaited[w]`), `Exit`, or `Kill` at any time.
A worker is one incarnation of a process; its successor is another element of `Workers`.

`EscKeys` are the headers of the form `esc:<key>`: under these `StoreResolution` puts the answer of an
approve or reject call, at any time, and an evaluate call that finds it is answered with it. Keys name
no tenant either. `AnswerBacked` says that there is no other way to be answered than with a decision made
under the same key and scheduled for the trail.

What is in the code and no property denies: a production ESCALATE whose rule has no `escalation_config`
(`policy_engine/models.py:37` makes it optional, `governor/service.py:535-539` asks for it) is answered and
audited as ESCALATE, but no row is created and nobody is asked; an action that fails after the commit of its
row leaves a pending escalation whose decision is not in the trail, in a process that lives on; the
two routes answer each other's callers. `EscalationMatchesAudit` names the first two as its exceptions.

### RateLimiter

`request[r]` is one `check_rate_limit`: `Arrive` reads the clock, `Count` is the pipeline executed in
Redis (answered or not), `ConnectionError` the fallback, `RedisError` any other exception. `hits[c][i]`
is the key of client `c` and window `i` with its expiry, `store[w][c]` the timestamps in process `w`,
`keys[w]` their insertion order, which decides who is evicted. What the code does and the properties
respect: a refused request stays counted in Redis, but not in the table; a refused client still takes
a key of the table; the windows of Redis are fixed, so up to twice the limit passes around a boundary;
an evicted client starts afresh, and `LocalBound` speaks of workers whose clients fit into the table.

### PolicyEngine and PolicyEvaluation

`PolicyEngine` has no state: `SingleConditionMatches`, `Applies`, `Evaluate` follow `engine.py`.
In `PolicyEvaluation`, `call[c]` waits for its hooks (`HookAnswers`, in any order; a hook that fails
contributes nothing) until `Resolve`, which gives up on all of them if one is still to come. From there
to the verdict the code awaits nothing, so `Resolve` goes on to the merge, the second validation and the
cache. If the cache is too old, the process is blocked while it reads the files it has listed
(`ReadFile`, `FinishLoad`); the files and the other process are not. `seen` records what each file has
held, and only properties read it. `simulate` takes the same way without the second validation and with
the first hooks of too many. A batch is several calls.

What is in the code and no property denies: a load may see some files before and others after a change
(`PolicyIsFresh` speaks of each file on its own), a rule that needs the field of a failed hook does not
apply, whichever way it would have decided, and the verdict's `payload_hash` covers the request only.

### Access

`request[r]` is one HTTP request with a Bearer token: `selecting` the key, `found` it, `admitted` (with
`tenant`, which is `request.state.tenant_id`) or `refused`; on an admin route then `working` (admin check
and rate limit passed), `read` (the first SELECT of the route done), `committed`, `answered`, or `failed`
or `lost`. The row found in the first statement is used after the second, so a key may be deleted under
the request that it has let in. `late` records on arrival whether the key is revoked, expired or its
tenant not fit, and only `AdmissionBacked` reads it. A suspension is an UPDATE by hand: the code
has no route for it, but checks the status on every request.

### Listings

`row[d]` is what order and filters need of a row: `at`, given by the process when it flushes; `stored`,
once its transaction has committed; `fits`, whether it passes the filters (for escalations: is pending).
`reader[v]` is a client that asks for page after page while `has_more` says so, or one report. The page
and the count of a request are two steps. `start` and `closed` record what the list held, and what it
held no longer, when the client began; only properties read them. `ListsMissOnlyShifted` is not what
a reader would wish: with offsets, a pending escalation is skipped when an older one is resolved between
two pages. The property says that nothing else is ever skipped, and nothing at all in the audit log.

### Migration

`runner[r]` is one run of the script: its attempt, its file, and the statement it is about to execute.
The connection is in autocommit mode. `LoseConnection` is `psycopg2.OperationalError`, after or before
the statement took effect; the script then reconnects and starts with the first file. `Raise` is any
other end. The files are the sorted list of the directory, by position; they use IF NOT EXISTS and
OR REPLACE throughout, so that executing one twice changes nothing.

### Where the modules meet

`ResolutionTrail` composes `Escalation` and `AuditChain` as modules. `MCService` checks `Access`,
`Listings` and `Migration` in one run; they share no variable, so a behaviour runs one of them. `Arrive` of
every other module follows an admission in `Access`; `Flush`, `Commit`, `Rollback` and `Resolve` of
`Listings` are the inserts and resolutions of `AuditChain`, `Governor` and `Escalation` with all but
their order forgotten. The other modules meet as follows.

`AuditChain` and `Governor` meet at the audit task: `Schedule` of the one is `Conclude` of the
other (and `Answer` in `Escalation`), and `AuditEnd` in `Governor` stands for a write that is committed or has failed in `AuditChain`, which
`WritesEnd` shows to come. `CreateRow` in `Governor` is `Create` in `Escalation`; the statuses that
`Governor` chooses among are the verdicts of `PolicyEvaluation`, and the requests that enter it are the
ones that `RateLimiter` admits.

## What the runs check

| Run | Instance | Properties | Result |
|---|---|---|---|
| `audit_single` | 4 decisions, 2 tenants, 1 process, 1 verifier, chunks of 2 | `TypeOK`, `ChainLinear`, `AlarmOnlyAtBoundary`, `LinksPointBack`, `StoredForever`, refinement `ImplementsLedger` | hold |
| `audit_fork` | 3 decisions, 1 tenant, 2 processes | `ChainLinear` | violated: the chain forks |
| `audit_false_alarm` | 3 decisions, 1 process, 1 verifier | `NoFalseAlarm` | violated |
| `escalation` | 2 escalations, 2 calls, 2 processes, 1 tenant, 1 key that evaluate calls write too, failing Redis | `TypeOK`, `ColumnsAgree`, `DeadlineRespected`, `HumanAudited`, `ReplayBacked`, `NeverReopened` | hold |
| `trail` | 1 escalation, 1 call, 2 processes, 2 tenants, fair | `TrailMatchesTable`, `LinksPointBack`, `ResolutionRecorded`, `EscalationsEnd`, `WritesEnd` | hold |
| `escalation_race` | 1 escalation, 2 calls, the clock stands still | `AnswerStands` | violated |
| `governor` | 2 calls, 2 processes, one batch of 2, 2 keys, one of them written by approve and reject too | `TypeOK`, `EscalationMatchesAudit`, `WebhookBacked`, `AnswerBacked`, `GracefulExitLosesNothing` | hold |
| `governor_shutdown` | 2 calls, 1 process, 2 attempts, fair | `ShutdownEnds` | holds |
| `rate_limiter` | 3 requests, 2 clients, 2 processes, limit 2, tables of 1 | `TypeOK`, `RedisBound`, `LocalBound`, `RefusedOnlyWhenBusy` | hold |
| `policy` | 2 calls, 2 processes, 2 files, 2 hooks | `TypeOK`, `PolicyIsFresh`, `WorkersAgree`, `FailClosed`, `FirstMatchWins`, `MergedByPosition` | hold |
| `idempotency` | 2 calls, 2 processes, no expiry, Redis up | `NoDuplicateDecision` | violated |
| `service` | 2 tenants, 2 keys, 2 requests; 3 entries, 3 escalations, 1 reader, pages of 1 and 2; 2 migration runs, 3 files | `AccessTypeOK`, `AdmissionBacked`, `ShownKeyStored`; `ListingTypeOK`, `ListsMissOnlyShifted`, `ReportCovers`; `SchemaInOrder` | hold |

The four violations are the findings of `PROJECT.json`:

1. **Two workers fork a tenant's chain.** The lock of line 62 is per process; FOR UPDATE does not help
   (see above). The runs with one process, and the proofs, show that the lock does what it should there.
2. **verify_chain can report an intact chain as broken.** After a short last chunk the offset still
   advances by `CHUNK_SIZE`. `AlarmOnlyAtBoundary` shows that this is the only way with one process, and the
   proofs that it is as long as processes do not overlap.
3. **Two reviewers are both told that they resolved an escalation.** Both read it pending, both commit and
   both go on to their answer; the later commit wins. In the run the clock stands still (`ClockStands`), so
   that no expiry loop takes part; when the clock runs, a loop overwrites a reviewer in the same way.
4. **Concurrent calls with one idempotency key both decide.** Look-up and storing are two steps.

### Bounds

Two writers of one tenant suffice for every race on a chain, a third gives the row after a wait, the
fourth with two tenants gives chunks that end in the middle of a chain (2+2, 3+1) and rows of another
tenant between them; `ChunkSize` 2 instead of 5000 keeps short, full and skipped chunks. Two
escalations make an expiry batch of two with a reviewer at one of them, and two calls with one key a
replay across escalations or routes; which tenant a row has matters to one SELECT only, and `trail` has two;
`MaxTime` 2 with a lifetime of 1 gives a time before, at and after the deadline. `escalation` looks at decisions
under the key `esc:<key>` before the first tick only (`DecisionsAtStart`): by then both calls may have been
answered from them, and nothing about them depends on the clock. In `trail` one escalation
and one call already make two entries that race for a tenant's chain in two processes; a second call
would only repeat what `escalation` does, and the proofs of `TrailMatchesTable` know no bound. A batch of two has a first, a last and a failing
action; two attempts are one retry; of `Verdicts`, ESCALATE alone is enough in `governor`, because with no
escalation config it is treated as any other. At most one of the two calls is a batch (`OneBatch`).
One key is written by evaluate calls only, the other by approve and reject too.
Three requests of sizes 1 and 2 against a limit of 2 fill it exactly, pass it by one, and pass it
together with a request of an older window; a window of 2 ticks and 4 points of time contain a boundary
and requests that reach Redis a whole window late; two clients and tables of one key evict.
Two hooks can contradict each other and a third is one too many; two files, one broken at first, and
one change give every pair of contents, missing and broken files and a change in the middle of a load;
3 points of time and a time to live of 2 give a cache that is new, old enough to differ and expired;
the payload limit of one field makes a merge that evaluate refuses. `Parts` lists which text starts with
which, so that texts need no letters.
In `service` two requests are one that uses or creates a key while another revokes it (or both do), with a
third way in through `Provision`; a life of 1 within 2 days expires. Three rows give a first page, a rest
and one that commits late or is resolved in between; pages of 1 and 2 divide and do not divide them;
`SHADOW_LIMIT` 2 of 3 entries truncates. Three files have a first, a middle and a last; two attempts are one
retry for each of two runs. Deadlock is not checked: every instance has finitely many decisions or calls and stops when they are
used up.

### Fairness

`WritesEnd` (in `trail`) assumes weak fairness of the steps of each write: the event loop runs ready tasks, an
`asyncio.Lock` is handed on, the database answers. `EscalationsEnd` assumes that time passes, that each
loop wakes up again (`asyncio.sleep(60)` inside `while True`, the exception handler inside the loop,
gunicorn replacing dead processes) and, strongly, that its write does not fail for ever. `ShutdownEnds`
assumes weak fairness of each handler, of each audit task and of the shutdown itself; posts of webhooks
and key expiry need none. `ResolutionRecorded` adds that a process that lives gets from the commit of a
row to the scheduling of its entry (`TrailFairSpec`): nothing but the event loop lies between. `AuditChain`'s
and `Escalation`'s assumptions are taken over there as they are; nothing in `service` is about liveness.

### Assumptions

- No two rows of a list have the same `created_at`: ORDER BY has no second column, so between rows of
  one microsecond PostgreSQL might order two pages differently.
- A decision, the answer of an approve or reject call, a key and `None` are different things
  (`NullIsNoAnswer`, `ResolutionIsNoDecision`, `DecisionIsNoCall` and their like).
- API keys and ids are random and never generated twice; no reviewer calls themselves `system_expiry`
  (`SystemIsNoCall`), which the code does not forbid.
- SHA-256 does not collide: hashes are compared as what they digest.
- Columns have the types of the ORM (`database/models.py`), `tenant_id` an integer. The migration
  declares `audit_log.tenant_id` as VARCHAR (`database/migrations/001_audit_log.sql:61`). Date filters of
  the list routes are strings that the driver refuses for a timestamp column, so they are no filters.
- There are finitely many decisions, escalations, calls and requests (`FiniteAssumption`,
  `EntriesFinite`, `RequestsFinite`).
- Template files hold sequences of rules, and requests and answers are dictionaries
  (`ContentsSequences`, `Dictionaries`): `yaml` and `isinstance(result, dict)` see to it.
- A commit that raises has not committed; a killed process's transactions are rolled back before
  others look.
- A pipeline is executed within `Delay <= Window` of the reading of the clock. The code sets no socket
  timeout that would enforce it; later than that, a key may have expired and be counted from nothing.
- Listing and reading the template files takes no time that the time to live would notice.
- Waiters of a row lock and of an `asyncio.Lock` may be served in any order (the code's order, FIFO,
  is one of them).
- `verify_chain` gets no dates: the verify route compares a string with an integer tenant
  (`governor/service.py:749`) and refuses, and its other callers pass none.

## Proofs

`tlapm` checks, for all values of the constants:

- **AuditChain, any number of processes:** `TypeCorrect`, `LinksPointBackHolds`,
  `StoredForeverHolds`. The inductive invariant `BackInv` extends `LinksPointBack` to uncommitted
  rows: the row a writer has read is committed, of its tenant, and every id in use is below `nextId`.
  `LocksHaveHolders`: a lock that is taken belongs to a task of its process that is still writing, so
  neither a failed query nor a death leaks one; without it `WritesEnd` could not hold.
- **AuditChain, no two processes overlapping in a tenant's log** (`OneWriter`: the writers of a tenant
  between SELECT and COMMIT are in one process; any number of processes may take turns):
  `LinearWithoutOverlap`, `LedgerWithoutOverlap`, `AlarmsWithoutOverlap`. With one process that is always
  so (`OneProcess`), which gives the properties that `audit_single` checks: `ChainLinearHolds`,
  `ImplementsLedgerHolds`, `AlarmOnlyAtBoundaryHolds` and, through the refinement, `NoForkHolds`.
  `LinearInv` adds that a writer inside the per-tenant lock is its holder and that the row a holder has
  read is still its tenant's newest.
  This is where `OneWriter` is needed: two processes have two holders. For `AlarmOnlyAtBoundary` a row
  never changes its place in the log (`LogGrows`), the row at the place before it is the one it links to
  (`LinkIsPrevious`), and `CheckInv` says that a verifier carries the hash of the row before its offset
  as long as the offset has not passed what there was when it began.
- **Escalation:** `TypeCorrect`, `ColumnsAgreeHolds`, `DeadlineRespectedHolds`, `HumanAuditedHolds`,
  `NeverReopenedHolds`, `ReplayBackedHolds`. `CallInv` and `PassInv` say what a call and a loop still know between read
  and commit (the row exists, the time they read lies on their side of its deadline, which no step
  changes); `ResolverInv` that a row names only calls that have committed. For `ReplayBacked`, `CacheInv` says
  that what Redis holds, and has given away, is a decision or the answer of a call that was answered under
  this key; such a call is audited and resolved something that is closed, and closed rows stay closed.
- **ResolutionTrail:** `ImplementsEscalation` (each step of the composition is one of `Escalation` or
  leaves it alone; the death of a process is a crash, or nobody notices) and `TrailMatchesTableHolds`,
  which uses it: the row behind an entry exists, keeps its tenant and stays closed because
  `NeverReopened` holds of the composition, and the outcomes agree because `ColumnsAgree` does.
  `ImplementsAuditChain`: the composition is also an `AuditChain`. A reviewer that answers does one
  `Schedule` of the log, so the entry must be idle until then (`WorkersInv`: an entry exists only behind
  a row, resp. a commit of its call), and a death does one `Die`. From it, with the lemmas of
  `AuditChainProofs`: `TrailLinksPointBack`, `TrailStoredForever`, and, as long as
  processes do not overlap, `TrailChainLinear`.
- **Access:** `AccessTypeCorrect`, `AdmissionBackedHolds`, `ShownKeyStoredHolds`, for any tenants, keys and
  requests. `LookupOK` says what a request still knows of the key and the tenant it has looked up when
  they change behind it: a key that was no good on arrival never becomes good again (`DeadKey`), since
  deletion, expiry and suspension are final. `RouteOK` and `KeysInv` tie a missing row to the request
  that found and deleted it.
- **Listings:** `ListingTypeCorrect`, `ListsMissOnlyShiftedHolds`, `ReportCoversHolds`, for any tables, writers and page sizes.
  `Owed` are the rows that a client has still to see; the invariant is that each stands at or behind the
  place the client has come to (`Passed`). Writers can only push a row back (`AheadGrows`) unless they
  resolve an older escalation, which is the exception; and a row behind the end of the pages is within
  the count (`AheadIsShorter`), so `has_more` cannot be false while something is owed. For reports,
  `OldestCount` says that the first n rows of a view are n or all: no two rows have the same place
  (`PlacesDiffer`), so rows and places are in bijection, which needs no induction.
- **Migration:** `SchemaInOrderHolds`, types included, for any runs, files and attempts: a run has all files before its own
  recorded, and the record only grows.
- **Governor:** `TypeCorrect`, `EscalationMatchesAuditHolds`, `WebhookBackedHolds`,
  `AnswerBackedHolds`, `GracefulExitLosesNothingHolds`, for any number of calls, workers, keys,
  batch sizes and attempts. The invariant ties each trace of a decision to the place its call has
  reached (what is scheduled lies behind it, what lies ahead is untouched), and a process past its
  drain to having no running call and no task outside its snapshot. `OneDecisionPerKey` is about
  `SpecExcused`, which is `Spec` with a history variable, `excused`, that collects the keys of which calls
  have overlapped or whose decision Redis was left without. It assumes nothing of Redis, of the time to
  live, of processes or of callers: with every failure allowed, a key with two decisions is in `excused`.

- **RateLimiter:** `TypeCorrect`, `RedisBoundHolds`, `RefusedOnlyWhenBusyHolds`, `LocalBoundHolds`, for any limit, window,
  table and number of processes, and any delay of at most a window. The invariant: a counted request
  lies within its counter, which lives until no request of its window can be counted any more, and
  two requests of a window have different places in it; for `RefusedOnlyWhenBusy`, a counter that is
  not 0 has counted somebody of its window, and a table holds requests that it let in. For `LocalBound`
  no list is longer than the limit, keys are clients the worker has seen, so that an eviction means more
  clients than fit (`EvictedFacts`), and short of that the lists hold everything let in lately.
- **PolicyEvaluation:** all six properties of `policy`, for any number of calls, workers, files, rules
  and hooks, any time to live and any changes. `TypeOKHolds`, `PolicyIsFreshHolds` and, from it,
  `WorkersAgreeHolds`: the invariant says of each cache, load and verdict at which tick its files held
  what it has of them; history only grows. For `FirstMatchWinsHolds` and `FailClosedHolds` it also says
  that a load on behalf of a call is the one that call waits for (`WaitingInv`), so that the verdict is
  the one its rules give, and `MergedByPositionHolds` is about the step that merges.
  What the loops of the code compute is proved without induction over data: a loop is a function on its
  rounds (`GetRulesForAction`, `Enriched`), that function exists and keeps what each round keeps
  (`LoopExists`, `LoopInvariant`) because the first round to fail would be a least number that does
  (`LeastNumber`, from the well-foundedness of `<`). So `RulesFirst` finds the first rule that applies
  at the first place, over all templates, that holds one, and `EnrichedByLast` says that a field has
  the value of the last answer that tells one.

What the refuted claims need is proved as well. The first two of these theorems assume of a behaviour, not
of the constants, that a certain overlap does not happen, and there are behaviours in which it does not;
the third has no hypothesis, and shows that whenever the claim fails one of four things has happened:

| claim | holds as long as | theorem |
| --- | --- | --- |
| per-tenant locking prevents races (`audit_fork`) | `OneWriter`, as above | `LinearWithoutOverlap` |
| an answer stands (`escalation_race`) | `Alone`: nobody reads a row to write it while another call or loop is between read and commit (loops may race each other) | `AnswerStandsAlone`, `ResolvedOnceAlone`, `TrailTellsOutcomeAlone` |
| one decision per key (`idempotency`) | of the key, none of these has happened: two of its calls ran at once (`Overlap`); its decision expired or was overwritten in Redis, a call was not given what Redis holds, or a call ended after deciding with nothing stored (`Loses`) | `OneDecisionPerKey` |

So nothing but what the table names can break these claims, and a remedy has to establish just that (a
lock of the database for the first two, one on the key, kept with the decision itself, for the third). The fourth claim
(`audit_false_alarm`) fails in the way that `AlarmsWithoutOverlap` describes, and in no other. For `AnswerStandsAlone` what a
writer has read stays so until it commits (`FreshInv`); the same invariant shows that an outcome is then
final for everyone (`ResolvedOnceAlone`) and that the audit log tells that outcome and no other
(`TrailTellsOutcomeAlone`, through `ImplementsEscalation`); for `OneDecisionPerKey`, as long as a key is
not excused, a call that decides knows that nobody has decided under it, and what was decided is in the
hands of the call that caches it or in Redis (`OnceInv`).

Only model-checked: liveness (`WritesEnd`, `EscalationsEnd`, `ShutdownEnds`, `ResolutionRecorded`),
which needs ENABLED, and what the runs that expect a violation refute.

## Not modelled

- The SSRF check (`security/ssrf.py`): a predicate on a URL and DNS answers. A URL that fails it is a
  hook that contributes nothing, or a webhook that is not posted.
- The start-up validator and metrics: one-shot checks before anything is served, and instrumentation.
- The SDK beyond its calls: it is a synchronous client that keeps no state between calls.
- Signatures of webhooks, headers, formatting, logging, the breakdowns of a report (functions of the
  entries that `Listings` gives it), the content of the migration files, the connection pool.
- Liveness of `Access`, `Listings` and `Migration`: a request ends with its client, a list may grow
  faster than it is paged, and a migration ends after `Retries` attempts by construction.
- Code that nothing calls: `write_durable`, `invalidate_cache`, `get_expired_pending_escalations`.

## What could come next

1. `Governor` with its audit tasks implemented by `AuditChain`, as `ResolutionTrail` does for
   escalations, so that a graceful exit is shown to leave every decision in the chain and not only
   scheduled.
2. The hourly monitor (`governor/service.py:321-351`): its alarms in terms of `AuditChain`, and that the
   alarm of a failed write (`governor/service.py:76-83`) cannot be raised, because `log` swallows the
   failure first.
3. `tests/test_evaluate.py:73-79` expects APPROVE where no shipped rule approves, and `simulate` promises
   to mirror production where evaluate would answer 422: both as runs of `PolicyEvaluation` with the
   shipped templates.
