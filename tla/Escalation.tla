---- MODULE Escalation ----
(***************************************************************************)
(* escalations/service.py, the approve and reject routes and the expiry    *)
(* loop of governor/service.py: the life of a row of table escalations.    *)
(*                                                                         *)
(* A row is created pending.  Reviewers resolve it through concurrent      *)
(* requests in any worker process; each worker also runs its own expiry    *)
(* loop.  Every writer reads first and commits later, in a READ COMMITTED  *)
(* transaction that takes no lock when it reads, and its UPDATE has no     *)
(* condition on the status.  An UPDATE becomes visible, all columns of all *)
(* its rows at once, when its transaction commits.                         *)
(*                                                                         *)
(* A request with an X-Idempotency-Key is answered from Redis if the key   *)
(* holds the answer of an earlier one: the key esc:<key> names neither the *)
(* route, nor the escalation, nor the tenant, and is also that of an       *)
(* evaluate call whose header is esc:<key> (module Governor).              *)
(***************************************************************************)
EXTENDS Naturals

CONSTANTS
    Escalations,    \* escalation ids (UUIDs)
    Tenants,        \* tenant ids
    Workers,        \* worker processes
    Calls,          \* approve/reject requests; a call stands for its reviewer too
    Lifetimes,      \* values of expires_minutes
    MaxTime,        \* bound of the clock (the model's, not the code's)
    Keys,           \* values of the X-Idempotency-Key header
    RedisFails,     \* whether Redis may be unreachable or full
    Decision,       \* the answer of an evaluate call
    Null            \* SQL NULL / Python None

ASSUME NullOutside == Null \notin Escalations \cup Calls \cup {"system_expiry"}
ASSUME LifetimesNat == Lifetimes \subseteq Nat
ASSUME MaxTimeNat == MaxTime \in Nat
ASSUME NullIsNoKey == Null \notin Keys
ASSUME SystemIsNoCall == "system_expiry" \notin Calls
ASSUME DecisionIsNoCall == Decision \notin Calls \cup {Null}

VARIABLES
    row,        \* row[e]: the row of e, Null before it is created
    now,        \* datetime.now, in minutes
    call,       \* call[c]: the local variables of a resolve request
    pass,       \* pass[w]: the local variables of w's expiry loop
    audited,    \* calls whose human_entry was handed to schedule_audit_log
    cache       \* cache[k]: the call whose answer Redis holds under idempotency:esc:k,
                \* or Decision

vars == <<row, now, call, pass, audited, cache>>

Human == {"approved", "rejected"}
OnExpiry == {"BLOCK", "APPROVE"}

Row == [tenant : Tenants, expiresAt : 0..MaxTime, onExpiry : OnExpiry,
        status : {"pending", "expired"} \cup Human \cup OnExpiry,
        resolvedAt : (0..MaxTime) \cup {Null},
        resolvedBy : Calls \cup {"system_expiry", Null}]

ASSUME NullIsNoRow == Null \notin Row

Pending(e) == row[e] # Null /\ row[e].status = "pending"

\* The UPDATE of the three columns a resolution sets.
Resolved(r, status, at, by) ==
    [r EXCEPT !.status = status, !.resolvedAt = at, !.resolvedBy = by]

----------------------------------------------------------------------------
(* EscalationService.create *)

\* Mutant: an id that exists is overwritten.
CreateOver(e, t, m, x) ==
    /\ now + m <= MaxTime
    /\ row' = [row EXCEPT ![e] = [tenant |-> t, expiresAt |-> now + m, onExpiry |-> x,
                                  status |-> "pending", resolvedAt |-> Null,
                                  resolvedBy |-> Null]]
    /\ UNCHANGED <<now, call, pass, audited, cache>>

Create(e, t, m, x) ==
    /\ row[e] = Null
    /\ now + m <= MaxTime
    /\ row' = [row EXCEPT ![e] = [tenant |-> t, expiresAt |-> now + m, onExpiry |-> x,
                                  status |-> "pending", resolvedAt |-> Null,
                                  resolvedBy |-> Null]]
    /\ UNCHANGED <<now, call, pass, audited, cache>>

----------------------------------------------------------------------------
(* approve_escalation / reject_escalation and EscalationService.resolve *)

\* Nothing is committed yet.
Undecided == {"reading", "read", "writing"}

Idle == [pc |-> "idle", worker |-> Null, key |-> Null, esc |-> Null, tenant |-> Null,
         status |-> Null, at |-> Null, got |-> Null]

\* A request for route h arrives in process w. A cached answer is its answer,
\* whatever it was the answer to; a lost connection to Redis counts as a miss.
Arrive(c, w, e, t, h, k) ==
    /\ call[c].pc = "idle"
    /\ \/ /\ k # Null /\ cache[k] # Null
          /\ call' = [call EXCEPT ![c].pc = "replayed", ![c].key = k, ![c].got = cache[k]]
       \/ /\ k # Null /\ ~RedisFails => cache[k] = Null
          /\ call' = [call EXCEPT ![c] = [Idle EXCEPT
                        !.pc = "reading", !.worker = w, !.key = k, !.esc = e, !.tenant = t,
                        !.status = h]]
    /\ UNCHANGED <<row, now, pass, audited, cache>>

\* HTTP 400, or 500 with nothing written: what the call was about is forgotten.
Without(pc) == [Idle EXCEPT !.pc = pc]

\* resolve reads the row, by escalation id and tenant.
Read(c) ==
    /\ call[c].pc = "reading"
    /\ call' = [call EXCEPT ![c] =
                  IF Pending(@.esc) /\ row[@.esc].tenant = @.tenant
                  THEN [@ EXCEPT !.pc = "read", !.tenant = Null]
                  ELSE Without("refused")]
    /\ UNCHANGED <<row, now, pass, audited, cache>>

\* Back from the SELECT: the clock is read and the columns are set in memory.
Decide(c) ==
    /\ call[c].pc = "read"
    /\ call' = [call EXCEPT ![c] =
                  IF now > row[call[c].esc].expiresAt
                  THEN [@ EXCEPT !.pc = "writing", !.at = now, !.status = "expired"]
                  ELSE [@ EXCEPT !.pc = "writing", !.at = now]]
    /\ UNCHANGED <<row, now, pass, audited, cache>>

\* resolved_by: a late call resolves in the name of the system.
By(c) == IF call[c].status = "expired" THEN "system_expiry" ELSE c

\* A call that is over and has resolved: what is left is what it did. Only an
\* answer can still be cached.
Ended(c, pc) == [call[c] EXCEPT !.pc = pc, !.worker = Null, !.at = Null,
                                !.key = IF pc = "answered" THEN @ ELSE Null]

\* Mutant: resolved_at is the time of the commit, not of the check.
CommitNow(c) ==
    /\ call[c].pc = "writing"
    /\ row' = [row EXCEPT ![call[c].esc] = Resolved(@, call[c].status, now, By(c))]
    /\ call' = [call EXCEPT ![c] = IF @.status = "expired" THEN Without("refused")
                                   ELSE [@ EXCEPT !.pc = "committed"]]
    /\ UNCHANGED <<now, pass, audited, cache>>

\* await db.commit(): UPDATE ... WHERE id = ..., whatever the row holds by now.
Commit(c) ==
    /\ call[c].pc = "writing"
    /\ row' = [row EXCEPT ![call[c].esc] = Resolved(@, call[c].status, call[c].at, By(c))]
    /\ call' = [call EXCEPT ![c] = IF @.status = "expired" THEN Without("refused")
                                   ELSE [@ EXCEPT !.pc = "committed"]]
    /\ UNCHANGED <<now, pass, audited, cache>>

\* Back in the route: what comes after the audit entry of the human decision.
AfterAudit(c) == IF call[c].key = Null THEN Ended(c, "answered")
                 ELSE [call[c] EXCEPT !.pc = "caching"]

\* Mutant: a rejection is not audited.
AnswerApprovedOnly(c) ==
    /\ call[c].pc = "committed"
    /\ call' = [call EXCEPT ![c] = AfterAudit(c)]
    /\ audited' = IF call[c].status = "approved" THEN audited \cup {c} ELSE audited
    /\ UNCHANGED <<row, now, pass, cache>>

\* Mutant: the entry is scheduled before anything is committed.
AnswerEarly(c) ==
    /\ call[c].pc \in {"writing", "committed"}
    /\ call' = [call EXCEPT ![c] = AfterAudit(c)]
    /\ audited' = audited \cup {c}
    /\ UNCHANGED <<row, now, pass, cache>>

\* The human decision's audit entry is scheduled; without a key the caller gets
\* its answer.
Answer(c) ==
    /\ call[c].pc = "committed"
    /\ call' = [call EXCEPT ![c] = AfterAudit(c)]
    /\ audited' = audited \cup {c}
    /\ UNCHANGED <<row, now, pass, cache>>

\* Mutant: the answer is cached before anything is committed.
StoreEarly(c) ==
    /\ call[c].pc \in {"writing", "caching"}
    /\ call[c].key # Null
    /\ \/ cache' = [cache EXCEPT ![call[c].key] = c]
       \/ RedisFails /\ UNCHANGED cache
    /\ call' = [call EXCEPT ![c] = IF @.pc = "writing" THEN @ ELSE Ended(c, "answered")]
    /\ UNCHANGED <<row, now, pass, audited>>

\* cache_idempotency, then the answer. A lost connection is ignored.
Store(c) ==
    /\ call[c].pc = "caching"
    /\ \/ cache' = [cache EXCEPT ![call[c].key] = c]
       \/ RedisFails /\ UNCHANGED cache
    /\ call' = [call EXCEPT ![c] = Ended(c, "answered")]
    /\ UNCHANGED <<row, now, pass, audited>>

\* HTTP 500: the database fails the request and nothing is written, or Redis
\* refuses to store the answer to a resolution that is committed and audited.
CallFail(c) ==
    /\ \/ /\ call[c].pc \in Undecided
          /\ call' = [call EXCEPT ![c] = Without("failed")]
       \/ /\ call[c].pc = "caching" /\ RedisFails
          /\ call' = [call EXCEPT ![c] = Ended(c, "failed")]
    /\ UNCHANGED <<row, now, pass, audited, cache>>

\* An evaluate call with header esc:<k> stores its answer under the same Redis key.
StoreDecision(k) ==
    /\ cache' = [cache EXCEPT ![k] = Decision]
    /\ UNCHANGED <<row, now, call, pass, audited>>

\* setex(..., ttl=60)
Expire(k) ==
    /\ cache[k] # Null
    /\ cache' = [cache EXCEPT ![k] = Null]
    /\ UNCHANGED <<row, now, call, pass, audited>>

----------------------------------------------------------------------------
(* _expire_pending_escalations of process w *)

Sleeping == [pc |-> "sleeping", at |-> Null, batch |-> {}]

\* After sleep(60): the pending rows whose time has come, by the clock read here.
ExpiryScan(w) ==
    LET due == {e \in Escalations : Pending(e) /\ row[e].expiresAt <= now}
    IN  /\ pass[w] = Sleeping
        /\ due # {}
        /\ pass' = [pass EXCEPT ![w] = [pc |-> "writing", at |-> now, batch |-> due]]
        /\ UNCHANGED <<row, now, call, audited, cache>>

\* Mutant: resolved_by is left as it is.
ExpiryCommitStatusOnly(w) ==
    /\ pass[w].pc = "writing"
    /\ row' = [e \in Escalations |->
                 IF e \in pass[w].batch
                 THEN Resolved(row[e], row[e].onExpiry, pass[w].at, row[e].resolvedBy)
                 ELSE row[e]]
    /\ pass' = [pass EXCEPT ![w] = Sleeping]
    /\ UNCHANGED <<now, call, audited, cache>>

\* One transaction for the whole batch; no audit entry.
ExpiryCommit(w) ==
    /\ pass[w].pc = "writing"
    /\ row' = [e \in Escalations |->
                 IF e \in pass[w].batch
                 THEN Resolved(row[e], row[e].onExpiry, pass[w].at, "system_expiry")
                 ELSE row[e]]
    /\ pass' = [pass EXCEPT ![w] = Sleeping]
    /\ UNCHANGED <<now, call, audited, cache>>

\* Mutant: the exception ends the loop.
ExpiryFailDead(w) ==
    /\ pass[w].pc = "writing"
    /\ pass' = [pass EXCEPT ![w] = [Sleeping EXCEPT !.pc = "dead"]]
    /\ UNCHANGED <<row, now, call, audited, cache>>

\* except Exception: logged, the loop goes back to sleep.
ExpiryFail(w) ==
    /\ pass[w].pc = "writing"
    /\ pass' = [pass EXCEPT ![w] = Sleeping]
    /\ UNCHANGED <<row, now, call, audited, cache>>

----------------------------------------------------------------------------
(* Environment *)

\* The requests that die with process w.
Gone(w) == {c \in Calls : /\ call[c].pc \in Undecided \cup {"committed", "caching"}
                          /\ call[c].worker = w}

\* Process w dies: its requests get no answer, its transactions roll back, and
\* a new process starts with a fresh expiry loop.
Die(w) ==
    /\ call' = [c \in Calls |->
                   IF c \notin Gone(w) THEN call[c]
                   ELSE IF call[c].pc \in Undecided THEN Without("lost")
                   ELSE Ended(c, "lost")]
    /\ pass' = [pass EXCEPT ![w] = Sleeping]
    /\ UNCHANGED <<row, now, audited, cache>>

Crash(w) ==
    /\ Gone(w) # {} \/ pass[w] # Sleeping
    /\ Die(w)

Tick ==
    /\ now < MaxTime
    /\ now' = now + 1
    /\ UNCHANGED <<row, call, pass, audited, cache>>

----------------------------------------------------------------------------
Init ==
    /\ row = [e \in Escalations |-> Null]
    /\ now = 0
    /\ call = [c \in Calls |-> Idle]
    /\ pass = [w \in Workers |-> Sleeping]
    /\ audited = {}
    /\ cache = [k \in Keys |-> Null]

Next ==
    \/ \E e \in Escalations, t \in Tenants, m \in Lifetimes, x \in OnExpiry : Create(e, t, m, x)
    \/ \E c \in Calls, w \in Workers, e \in Escalations, t \in Tenants, h \in Human,
          k \in Keys \cup {Null} : Arrive(c, w, e, t, h, k)
    \/ \E c \in Calls : Read(c)
    \/ \E c \in Calls : Decide(c)
    \/ \E c \in Calls : Commit(c)
    \/ \E c \in Calls : Answer(c)
    \/ \E c \in Calls : Store(c)
    \/ \E c \in Calls : CallFail(c)
    \/ \E k \in Keys : StoreDecision(k)
    \/ \E k \in Keys : Expire(k)
    \/ \E w \in Workers : ExpiryScan(w)
    \/ \E w \in Workers : ExpiryCommit(w)
    \/ \E w \in Workers : ExpiryFail(w)
    \/ \E w \in Workers : Crash(w)
    \/ Tick

Spec == Init /\ [][Next]_vars

\* Time passes, each loop wakes up again and again, and a loop that keeps
\* trying to write a batch does not fail or crash for ever.
FairSpec ==
    /\ Spec
    /\ WF_vars(Tick)
    /\ \A w \in Workers : WF_vars(ExpiryScan(w)) /\ SF_vars(ExpiryCommit(w))

----------------------------------------------------------------------------
(* Properties *)

CallState ==
    [pc : {"idle", "replayed", "refused", "committed", "caching", "answered", "failed",
           "lost"} \cup Undecided,
     worker : Workers \cup {Null}, key : Keys \cup {Null}, esc : Escalations \cup {Null},
     tenant : Tenants \cup {Null}, status : Human \cup {"expired", Null},
     at : (0..MaxTime) \cup {Null}, got : Calls \cup {Decision, Null}]

PassState ==
    [pc : {"sleeping", "writing"}, at : (0..MaxTime) \cup {Null}, batch : SUBSET Escalations]

TypeOK ==
    /\ row \in [Escalations -> Row \cup {Null}]
    /\ now \in 0..MaxTime
    /\ call \in [Calls -> CallState]
    /\ pass \in [Workers -> PassState]
    /\ audited \subseteq Calls
    /\ cache \in [Keys -> Calls \cup {Decision, Null}]

(***************************************************************************)
(* The columns of a row always come from one resolution of that row: a     *)
(* human status with the call that asked for it, on this escalation and    *)
(* for this tenant, or a system status with "system_expiry".  Racing       *)
(* reviewers and expiry loops overwrite each other, but never mix.         *)
(***************************************************************************)
ColumnsAgree ==
    \A e \in Escalations : row[e] # Null =>
        LET r == row[e]
        IN  \/ r.status = "pending" /\ r.resolvedBy = Null /\ r.resolvedAt = Null
            \/ r.status \in {"expired", r.onExpiry} /\ r.resolvedBy = "system_expiry"
            \/ /\ r.resolvedBy \in Calls
               /\ call[r.resolvedBy].esc = e
               /\ call[r.resolvedBy].status = r.status
               /\ r.status \in Human

(***************************************************************************)
(* The deadline separates humans from the system: a row says a human       *)
(* resolved it only at or before expires_at (resolve compares with ">"),   *)
(* and that the system did only at or after it (the loop selects with      *)
(* "<="), however late the transactions commit.                            *)
(***************************************************************************)
DeadlineRespected ==
    \A e \in Escalations : row[e] # Null =>
        /\ row[e].resolvedBy \in Calls => row[e].resolvedAt <= row[e].expiresAt
        /\ row[e].resolvedBy = "system_expiry" => row[e].resolvedAt >= row[e].expiresAt

(***************************************************************************)
(* A human resolution that stands in the table has its audit entry         *)
(* scheduled, unless the request that made it is still on its way there or *)
(* died with its process between the two.                                  *)
(***************************************************************************)
HumanAudited ==
    \A e \in Escalations : row[e] # Null /\ row[e].resolvedBy \in Calls =>
        \/ row[e].resolvedBy \in audited
        \/ call[row[e].resolvedBy].pc \in {"committed", "lost"}

(***************************************************************************)
(* A cached answer stays true: an answer of approve or reject that Redis   *)
(* holds under a key, or that a reviewer is told from there instead of     *)
(* being heard, is the answer to a call with that key whose human          *)
(* resolution was committed and handed to the audit trail, and its         *)
(* escalation is closed.  It may be the answer to the other route or about *)
(* another escalation: then the second request has no effect at all        *)
(* (governor/service.py:894-898, 939-943); and nothing but the policy      *)
(* decision of an evaluate call can take its place.  Crashes, refused      *)
(* answers and keys that expire between the steps change none of that.     *)
(***************************************************************************)
Replayable(g, k) ==
    /\ g \in audited
    /\ call[g].key = k
    /\ call[g].status \in Human
    /\ row[call[g].esc] # Null /\ ~Pending(call[g].esc)

ReplayBacked ==
    /\ \A k \in Keys : cache[k] \notin {Decision, Null} => Replayable(cache[k], k)
    /\ \A c \in Calls : call[c].pc = "replayed" =>
          call[c].got = Decision \/ Replayable(call[c].got, call[c].key)

(***************************************************************************)
(* A resolved escalation is never pending again, and a step never moves it *)
(* to another tenant or changes its deadline or its expiry action.         *)
(***************************************************************************)
KeepsResolved ==
    \A e \in Escalations : row[e] # Null =>
        /\ row'[e] # Null
        /\ row'[e].status = "pending" => row[e].status = "pending"
        /\ UNCHANGED <<row[e].tenant, row[e].expiresAt, row[e].onExpiry>>

NeverReopened == [][KeepsResolved]_vars

(***************************************************************************)
(* Every escalation ends: nobody may answer, loops may fail and processes  *)
(* may crash, yet no row stays pending for ever.                           *)
(***************************************************************************)
EscalationsEnd ==
    \A e \in Escalations : Pending(e) ~> (row[e] # Null /\ ~Pending(e))

(***************************************************************************)
(* An answered resolution stands: once a reviewer has been told that the   *)
(* escalation is resolved their way, it is and stays so, because           *)
(* whoever comes later gets "Escalation already resolved"                  *)
(* (escalations/service.py:182).  The code does not keep this: resolve     *)
(* reads without a lock and writes without a condition, so two calls that  *)
(* both read "pending" are both answered and the later commit wins.        *)
(***************************************************************************)
AnswerStands ==
    \A c \in Calls : call[c].pc = "answered" =>
        /\ row[call[c].esc].status = call[c].status
        /\ row[call[c].esc].resolvedBy = c

====
