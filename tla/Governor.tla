---- MODULE Governor ----
(***************************************************************************)
(* governor/service.py: a call of POST /v1/evaluate or /v1/evaluate/batch  *)
(* from its arrival in a worker process to its answer, what it leaves in   *)
(* Redis (idempotency cache), in PostgreSQL (escalation rows) and in the   *)
(* process (audit and webhook tasks), and how a process ends.              *)
(*                                                                         *)
(* A worker is one incarnation of a gunicorn worker process; the process   *)
(* started in its place is another element of Workers.  The decision of    *)
(* an action is identified by its call and its place in the batch.  How an *)
(* audit task writes its entry is module AuditChain; what happens to an    *)
(* escalation row after its creation is module Escalation.                 *)
(*                                                                         *)
(* The idempotency cache is one namespace of Redis keys: an evaluate call  *)
(* with header esc:<key> meets the answers of the approve and reject       *)
(* routes to calls with header <key>.                                      *)
(***************************************************************************)
EXTENDS Naturals

CONSTANTS
    Calls,      \* evaluate and evaluate_batch requests
    Workers,    \* incarnations of worker processes
    Keys,       \* values of the X-Idempotency-Key header
    EscKeys,    \* those of the form esc:<key>, which approve and reject write too
    Resolution, \* the answer of an approve or reject call
    MaxBatch,   \* most actions in one batch (100 in the code)
    Attempts,   \* most posts of one webhook (3 in the code)
    Verdicts,   \* statuses the policy engine returns
    KeysExpire, \* whether a cached answer may reach its time to live
    RedisFails, \* whether Redis may be unreachable, at start-up or later, or full
    Null        \* None

ASSUME MaxBatchNat == MaxBatch \in Nat \ {0}
ASSUME AttemptsNat == Attempts \in Nat \ {0}
ASSUME NullIsNoKey == Null \notin Keys

ASSUME EscKeysAreKeys == EscKeys \subseteq Keys

Decisions == Calls \X (1..MaxBatch)

ASSUME NullIsNoAnswer == Null \notin Decisions \cup {Resolution}
ASSUME ResolutionIsNoDecision == Resolution \notin Decisions

\* What Redis may hold: the answer of an evaluate call, which is its decision,
\* or that of an approve or reject call.
Answers == Decisions \cup {Resolution}

VARIABLES
    call,       \* call[c]: the local variables of the request handler
    decision,   \* decision[d]: environment, verdict and whether the rule has an
                \* escalation config; Null before d is evaluated
    escalated,  \* the decisions that have a row in table escalations
    audit,      \* audit[d]: the audit task of d (_background_tasks of its process)
    hook,       \* hook[d]: the webhook task of d
    cache,      \* cache[k]: the answer Redis holds under idempotency:k
    mode,       \* mode[w]: how far the shutdown of process w has got
    awaited     \* awaited[w]: the audit tasks the shutdown of w gathers

vars == <<call, decision, escalated, audit, hook, cache, mode, awaited>>

----------------------------------------------------------------------------
(* Calls and the decisions they make *)

\* The action of c that is being decided.
Current(c) == <<c, call[c].left>>

Worker(d) == call[d[1]].worker

Over == {"refused", "answered", "error", "lost"}

Running(c) == call[c].pc \notin {"idle"} \cup Over

\* What comes after an action of a batch: the next one, or the answer.
AfterItem(c) == IF call[c].left > 1 THEN "evaluating" ELSE "answered"

\* evaluate and evaluate_batch, up to their first await after check_rate_limit.
Arrive(c, w, kind, k, n) ==
    /\ call[c].pc = "idle"
    /\ mode[w] = "up"
    /\ kind = "single" => n = 1
    /\ kind = "batch" => k = Null
    /\ \E pc \in {"refused", IF k = Null THEN "evaluating" ELSE "looking"} :
          call' = [call EXCEPT ![c] = [pc |-> pc, kind |-> kind, worker |-> w, key |-> k,
                                       left |-> n, got |-> {}]]
    /\ UNCHANGED <<decision, escalated, audit, hook, cache, mode, awaited>>

\* Mutant: a miss is not told from a hit.
LookupNoCheck(c) ==
    /\ call[c].pc = "looking"
    /\ call' = [call EXCEPT ![c].pc = "answered", ![c].got = {cache[call[c].key]}]
    /\ UNCHANGED <<decision, escalated, audit, hook, cache, mode, awaited>>

\* check_idempotency: the cached answer is the answer, whichever route it was
\* cached by. A lost connection counts as a miss.
Lookup(c) ==
    /\ call[c].pc = "looking"
    /\ \/ /\ cache[call[c].key] # Null
          /\ call' = [call EXCEPT ![c].pc = "answered", ![c].got = {cache[call[c].key]}]
       \/ /\ cache[call[c].key] = Null \/ RedisFails
          /\ call' = [call EXCEPT ![c].pc = "evaluating"]
    /\ UNCHANGED <<decision, escalated, audit, hook, cache, mode, awaited>>

\* Mutant: with a key, the answer is cached before the audit entry is scheduled.
ConcludeUnscheduled(c) ==
    /\ audit' = IF call[c].key = Null THEN [audit EXCEPT ![Current(c)] = "running"] ELSE audit
    /\ call' = [call EXCEPT
                  ![c].got = @ \cup {Current(c)},
                  ![c].left = @ - 1,
                  ![c].pc = IF call[c].key # Null THEN "caching" ELSE AfterItem(c)]

\* schedule_audit_log, and what is left of _make_decision and of the route
\* before the next await.
Conclude(c) ==
    /\ audit' = [audit EXCEPT ![Current(c)] = "running"]
    /\ call' = [call EXCEPT
                  ![c].got = @ \cup {Current(c)},
                  ![c].left = @ - 1,
                  ![c].pc = IF call[c].key # Null THEN "caching" ELSE AfterItem(c)]

\* _make_decision after the context hooks have answered: validation, policy
\* engine, and the decision unless it needs an escalation row first. A rule
\* without an escalation config (config) escalates to nobody.
Evaluate(c, env, v, config) ==
    /\ call[c].pc = "evaluating"
    /\ decision' = [decision EXCEPT ![Current(c)] =
                       [env |-> env, verdict |-> v, config |-> config]]
    /\ IF v = "ESCALATE" /\ env = "production" /\ config
       THEN call' = [call EXCEPT ![c].pc = "creating"] /\ UNCHANGED audit
       ELSE Conclude(c)
    /\ UNCHANGED <<escalated, hook, cache, mode, awaited>>

\* EscalationService.create: the row is committed.
CreateRow(c) ==
    /\ call[c].pc = "creating"
    /\ escalated' = escalated \cup {Current(c)}
    /\ call' = [call EXCEPT ![c].pc = "created"]
    /\ UNCHANGED <<decision, audit, hook, cache, mode, awaited>>

\* Mutant: the commit is not awaited.
FinishEscalationEarly(c) ==
    /\ call[c].pc \in {"creating", "created"}
    /\ \/ hook' = [hook EXCEPT ![Current(c)].pc = "posting"]
       \/ UNCHANGED hook
    /\ Conclude(c)
    /\ UNCHANGED <<decision, escalated, cache, mode, awaited>>

\* The rest of create, a webhook task if there is a valid URL, and of
\* _make_decision.
FinishEscalation(c) ==
    /\ call[c].pc = "created"
    /\ \/ hook' = [hook EXCEPT ![Current(c)].pc = "posting"]
       \/ UNCHANGED hook
    /\ Conclude(c)
    /\ UNCHANGED <<decision, escalated, cache, mode, awaited>>

\* Mutant: a batch tries the action again.
ItemFailAgain(c) ==
    /\ call[c].pc \in {"evaluating", "creating", "created"}
    /\ call' = [call EXCEPT
                  ![c].pc = IF call[c].kind = "batch" THEN "evaluating" ELSE "error"]
    /\ UNCHANGED <<decision, escalated, audit, hook, cache, mode, awaited>>

\* An action fails: a 422, the database (whose transaction rolls back), or what
\* follows the commit of its row (its confirmation, the look-up of the webhook's
\* host), and then the row stays. It ends a single evaluation; a batch records it
\* and goes on.
ItemFail(c) ==
    /\ call[c].pc \in {"evaluating", "creating", "created"}
    /\ call' = [call EXCEPT
                  ![c].left = @ - 1,
                  ![c].pc = IF call[c].kind = "batch" THEN AfterItem(c) ELSE "error"]
    /\ UNCHANGED <<decision, escalated, audit, hook, cache, mode, awaited>>

\* cache_idempotency, then the answer. A lost connection is ignored.
Store(c) ==
    /\ call[c].pc = "caching"
    /\ \/ \E d \in call[c].got : cache' = [cache EXCEPT ![call[c].key] = d]
       \/ RedisFails /\ UNCHANGED cache
    /\ call' = [call EXCEPT ![c].pc = "answered"]
    /\ UNCHANGED <<decision, escalated, audit, hook, mode, awaited>>

\* Redis fails in another way (out of memory, ...): HTTP 500, before or after
\* the decision was made.
RedisFail(c) ==
    /\ RedisFails
    /\ call[c].pc \in {"looking", "caching"}
    /\ call' = [call EXCEPT ![c].pc = "error"]
    /\ UNCHANGED <<decision, escalated, audit, hook, cache, mode, awaited>>

\* An approve or reject call stores its answer under the same Redis key.
StoreResolution(k) ==
    /\ cache' = [cache EXCEPT ![k] = Resolution]
    /\ UNCHANGED <<call, decision, escalated, audit, hook, mode, awaited>>

\* setex(..., ttl=60)
Expire(k) ==
    /\ KeysExpire
    /\ cache[k] # Null
    /\ cache' = [cache EXCEPT ![k] = Null]
    /\ UNCHANGED <<call, decision, escalated, audit, hook, mode, awaited>>

----------------------------------------------------------------------------
(* Background tasks *)

\* audit_service.log returns, having stored the entry or swallowed the
\* exception (here both are "done"), and _audit_error_handler discards the task.
AuditEnd(d) ==
    /\ audit[d] = "running"
    /\ audit' = [audit EXCEPT ![d] = "done"]
    /\ UNCHANGED <<call, decision, escalated, hook, cache, mode, awaited>>

\* One attempt of _fire_webhook_with_retry: a status below 500 ends it, after
\* a 5xx or an exception the next attempt follows, if one is left.
Post(d) ==
    /\ hook[d].pc = "posting"
    /\ \E pc \in {"done", IF hook[d].posts + 1 = Attempts THEN "done" ELSE "posting"} :
          hook' = [hook EXCEPT ![d] = [pc |-> pc, posts |-> @.posts + 1]]
    /\ UNCHANGED <<call, decision, escalated, audit, cache, mode, awaited>>

----------------------------------------------------------------------------
(* The end of a process *)

\* SIGTERM: no new requests.
Terminate(w) ==
    /\ mode[w] = "up"
    /\ mode' = [mode EXCEPT ![w] = "draining"]
    /\ UNCHANGED <<call, decision, escalated, audit, hook, cache, awaited>>

\* Mutant: the audit tasks are not gathered.
GatherNothing(w) ==
    /\ mode[w] = "draining"
    /\ \A c \in Calls : Running(c) => call[c].worker # w
    /\ mode' = [mode EXCEPT ![w] = "gathering"]
    /\ UNCHANGED <<call, decision, escalated, audit, hook, cache, awaited>>

\* The requests of w are over and uvicorn resumes lifespan: it cancels the two
\* loops and gathers the audit tasks there are.
Gather(w) ==
    /\ mode[w] = "draining"
    /\ \A c \in Calls : Running(c) => call[c].worker # w
    /\ mode' = [mode EXCEPT ![w] = "gathering"]
    /\ awaited' = [awaited EXCEPT ![w] =
                     {d \in Decisions : audit[d] = "running" /\ Worker(d) = w}]
    /\ UNCHANGED <<call, decision, escalated, audit, hook, cache>>

\* What dies with process w: tasks that were not awaited.
Stop(w, last) ==
    /\ mode' = [mode EXCEPT ![w] = last]
    /\ audit' = [d \in Decisions |->
                   IF audit[d] = "running" /\ Worker(d) = w THEN "lost" ELSE audit[d]]
    /\ hook' = [d \in Decisions |->
                  IF hook[d].pc = "posting" /\ Worker(d) = w
                  THEN [hook[d] EXCEPT !.pc = "lost"] ELSE hook[d]]

\* The gathered tasks are done: the event loop is closed.
Exit(w) ==
    /\ mode[w] = "gathering"
    /\ \A d \in awaited[w] : audit[d] # "running"
    /\ Stop(w, "exited")
    /\ UNCHANGED <<call, decision, escalated, cache, awaited>>

\* A crash, or SIGKILL when a worker hangs or outlives the graceful timeout.
Kill(w) ==
    /\ mode[w] \in {"up", "draining", "gathering"}
    /\ Stop(w, "killed")
    /\ call' = [c \in Calls |-> IF Running(c) /\ call[c].worker = w
                                THEN [call[c] EXCEPT !.pc = "lost"] ELSE call[c]]
    /\ UNCHANGED <<decision, escalated, cache, awaited>>

----------------------------------------------------------------------------
Init ==
    /\ call = [c \in Calls |-> [pc |-> "idle", kind |-> "single", worker |-> Null,
                                key |-> Null, left |-> 0, got |-> {}]]
    /\ decision = [d \in Decisions |-> Null]
    /\ escalated = {}
    /\ audit = [d \in Decisions |-> "none"]
    /\ hook = [d \in Decisions |-> [pc |-> "none", posts |-> 0]]
    /\ cache = [k \in Keys |-> Null]
    /\ mode = [w \in Workers |-> "up"]
    /\ awaited = [w \in Workers |-> {}]

Environments == {"shadow", "production"}

CallStep(c) ==
    \/ Lookup(c)
    \/ \E env \in Environments, v \in Verdicts, config \in BOOLEAN :
          Evaluate(c, env, v, config)
    \/ CreateRow(c)
    \/ FinishEscalation(c)
    \/ ItemFail(c)
    \/ Store(c)
    \/ RedisFail(c)

Next ==
    \/ \E c \in Calls, w \in Workers, kind \in {"single", "batch"}, k \in Keys \cup {Null},
          n \in 1..MaxBatch : Arrive(c, w, kind, k, n)
    \/ \E c \in Calls : CallStep(c)
    \/ \E k \in EscKeys : StoreResolution(k)
    \/ \E k \in Keys : Expire(k)
    \/ \E d \in Decisions : AuditEnd(d)
    \/ \E d \in Decisions : Post(d)
    \/ \E w \in Workers : Terminate(w)
    \/ \E w \in Workers : Gather(w)
    \/ \E w \in Workers : Exit(w)
    \/ \E w \in Workers : Kill(w)

Spec == Init /\ [][Next]_vars

\* The event loop runs handlers and tasks, the services they call answer or
\* fail, and a process that may go on with its shutdown does.
FairSpec ==
    /\ Spec
    /\ \A c \in Calls : WF_vars(CallStep(c))
    /\ \A d \in Decisions : WF_vars(AuditEnd(d))
    /\ \A w \in Workers : WF_vars(Gather(w)) /\ WF_vars(Exit(w))

----------------------------------------------------------------------------
(* Properties *)

CallState ==
    [pc : {"idle", "looking", "evaluating", "creating", "created", "caching"} \cup Over,
     kind : {"single", "batch"}, worker : Workers \cup {Null}, key : Keys \cup {Null},
     left : 0..MaxBatch, got : SUBSET Answers]

DecisionState == [env : Environments, verdict : Verdicts, config : BOOLEAN]

TypeOK ==
    /\ call \in [Calls -> CallState]
    /\ decision \in [Decisions -> DecisionState \cup {Null}]
    /\ escalated \subseteq Decisions
    /\ audit \in [Decisions -> {"none", "running", "done", "lost"}]
    /\ hook \in [Decisions -> [pc : {"none", "posting", "done", "lost"},
                               posts : 0..Attempts]]
    /\ cache \in [Keys -> Answers \cup {Null}]
    /\ mode \in [Workers -> {"up", "draining", "gathering", "exited", "killed"}]
    /\ awaited \in [Workers -> SUBSET Decisions]

(***************************************************************************)
(* The escalation table and the audit trail agree.  A decision with an     *)
(* escalation row has its audit entry scheduled, unless its call is just   *)
(* between the two, its process was killed there, or the action failed     *)
(* there and its caller was not given the decision; and a production       *)
(* ESCALATE that is scheduled for the trail has its row, so that somebody  *)
(* can resolve it, if its rule says whom to ask.  Failing actions of a     *)
(* batch, Redis errors and shutdowns in between do not change that.        *)
(***************************************************************************)
EscalationMatchesAudit ==
    \A d \in Decisions :
        /\ d \in escalated =>
              \/ audit[d] # "none"
              \/ call[d[1]].pc = "created" /\ d = Current(d[1])
              \/ mode[Worker(d)] = "killed"
              \/ d[2] > call[d[1]].left /\ d \notin call[d[1]].got
        /\ /\ audit[d] # "none"
           /\ decision[d].env = "production"
           /\ decision[d].verdict = "ESCALATE"
           /\ decision[d].config
           => d \in escalated

(***************************************************************************)
(* Shadow mode has no side effects and nobody is asked about what cannot   *)
(* be resolved: a webhook goes out only for a production ESCALATE whose    *)
(* row is already committed (docs/pilot_terms.md:27; the receiver may      *)
(* approve at once).                                                       *)
(***************************************************************************)
WebhookBacked ==
    \A d \in Decisions : hook[d].posts > 0 =>
        /\ d \in escalated
        /\ decision[d].env = "production"

(***************************************************************************)
(* No unaudited decision: whatever was decided for a call that is over,    *)
(* by the call itself or replayed to it from Redis, was decided under its  *)
(* idempotency key and had its audit entry scheduled before: told or not,  *)
(* for Redis may refuse the answer (HTTP 500 for a decision that stands),  *)
(* and the process may die before it.  Redis outlives the processes that   *)
(* filled it, and still never holds a decision of which that is not true.  *)
(* The one other thing it may hold, and a call be told instead of being    *)
(* evaluated, is the answer to an approve or reject call, and that only    *)
(* under a header esc:<key> (governor/service.py:188, 930, 975).           *)
(***************************************************************************)
Backed(a, k) ==
    IF a = Resolution THEN k \in EscKeys
    ELSE audit[a] # "none" /\ call[a[1]].key = k

AnswerBacked ==
    /\ \A c \in Calls : call[c].pc \in Over =>
          \A a \in call[c].got : Backed(a, call[c].key)
    /\ \A k \in Keys : cache[k] # Null => Backed(cache[k], k)

(***************************************************************************)
(* A graceful exit loses no audit entry: the gather of lifespan meets      *)
(* every audit task of the process, because all its requests are over by   *)
(* then, and each of those tasks has ended when the process does.          *)
(***************************************************************************)
GracefulExitLosesNothing ==
    \A d \in Decisions : audit[d] \in {"running", "lost"} => mode[Worker(d)] # "exited"

(***************************************************************************)
(* A shutdown ends: requests, retries of a batch and audit tasks cannot    *)
(* keep a terminated process from exiting.                                 *)
(***************************************************************************)
ShutdownEnds ==
    \A w \in Workers : mode[w] = "draining" ~> mode[w] \in {"exited", "killed"}

(***************************************************************************)
(* One decision per idempotency key, "to prevent duplicate evaluations"    *)
(* (sdk/client.py:111).  The code does not keep this, even while no key    *)
(* expires and Redis works: evaluate looks the key up and stores the       *)
(* answer in two steps, so two concurrent calls with one key both decide.  *)
(***************************************************************************)
NoDuplicateDecision ==
    \A d, e \in Decisions :
        /\ audit[d] # "none"
        /\ audit[e] # "none"
        /\ call[d[1]].key = call[e[1]].key
        /\ call[d[1]].key # Null
        => d = e

====
