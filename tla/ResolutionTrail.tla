---- MODULE ResolutionTrail ----
(***************************************************************************)
(* Escalations and the audit trail together: the rows of table             *)
(* escalations, the reviewers and expiry loops that work on them, and the  *)
(* entries of audit_log that the same processes write about them.          *)
(*                                                                         *)
(* An escalation gives rise to an entry about the decision that asked for  *)
(* it (here the entry has the escalation's name), and each resolution to   *)
(* one about the human decision (named like the call).  Every entry is     *)
(* scheduled after the row is committed, in the memory of one process, and *)
(* written by a task of that process: a process that dies takes with it    *)
(* its requests, its expiry loop and its tasks, in both components at      *)
(* once.                                                                   *)
(***************************************************************************)
EXTENDS Escalation, FiniteSets

CONSTANTS
    Payloads,   \* payload hashes that occur, as in AuditChain
    Verifiers,  \* calls of verify_chain, as in AuditChain: no matter here
    ChunkSize   \* likewise

VARIABLES
    entry, phase, chainLock, last, id, nextId, check,   \* as in AuditChain
    creator     \* creator[e]: the process that has committed the row of e and is about
                \* to schedule the entry of its decision

Statuses == {"APPROVE", "BLOCK", "ESCALATE"}

Log == INSTANCE AuditChain WITH Decisions <- Escalations \cup Calls

ASSUME NamesDiffer == Escalations \cap Calls = {}
ASSUME EntriesFinite == IsFiniteSet(Escalations \cup Calls)
ASSUME ChunkNat == ChunkSize \in Nat \ {0}

logVars == <<entry, phase, chainLock, last, id, nextId, check>>

trailVars == <<vars, logVars, creator>>

----------------------------------------------------------------------------
(* Steps that join the two components *)

\* EscalationService.create inside _make_decision, in process w.
CreateIn(w, e, t, m, x) ==
    /\ Create(e, t, m, x)
    /\ creator' = [creator EXCEPT ![e] = w]
    /\ UNCHANGED logVars

\* The rest of _make_decision: the entry of the decision is scheduled.
AuditDecision(e, p) ==
    /\ creator[e] # Null
    /\ Log!Schedule(e, creator[e], row[e].tenant, p, "ESCALATE")
    /\ creator' = [creator EXCEPT ![e] = Null]
    /\ UNCHANGED vars

\* create raises after its commit (the check of the webhook's address does): the
\* row stays, pending, and its decision gets no entry.
ActionFails(e) ==
    /\ creator[e] # Null
    /\ creator' = [creator EXCEPT ![e] = Null]
    /\ UNCHANGED <<vars, logVars>>

\* The status of the entry about a human decision.
EntryStatus(h) == IF h = "approved" THEN "APPROVE" ELSE "BLOCK"

\* Mutant: only the approve route schedules an entry.
AuditApproval(c, p) ==
    IF call[c].status = "approved"
    THEN Log!Schedule(c, call[c].worker, row[call[c].esc].tenant, p, "APPROVE")
    ELSE UNCHANGED logVars

\* schedule_audit_log(human_entry), for the tenant that resolve has checked.
AuditResolution(c, p) ==
    Log!Schedule(c, call[c].worker, row[call[c].esc].tenant, p, EntryStatus(call[c].status))

\* The rest of the approve or reject route.
AnswerIn(c, p) ==
    /\ Answer(c)
    /\ AuditResolution(c, p)
    /\ UNCHANGED creator

\* Process w dies, with all it was doing in both components.
ProcessDies(w) ==
    /\ Die(w)
    /\ Log!Die(w)
    /\ creator' = [e \in Escalations |-> IF creator[e] = w THEN Null ELSE creator[e]]

----------------------------------------------------------------------------
(* Steps of one component *)

\* Requests come without an idempotency key: an answer from Redis changes
\* neither table.
EscalationStep ==
    /\ \/ \E c \in Calls, w \in Workers, e \in Escalations, t \in Tenants, h \in Human :
             Arrive(c, w, e, t, h, Null)
       \/ \E c \in Calls : Read(c) \/ Decide(c) \/ Commit(c) \/ CallFail(c)
       \/ \E w \in Workers : ExpiryScan(w) \/ ExpiryCommit(w) \/ ExpiryFail(w)
       \/ Tick
    /\ UNCHANGED <<logVars, creator>>

WriterStep ==
    /\ \E d \in Escalations \cup Calls : Log!WriteStep(d) \/ Log!Fail(d)
    /\ UNCHANGED <<vars, creator>>

TrailInit ==
    /\ Init
    /\ Log!Init
    /\ creator = [e \in Escalations |-> Null]

TrailNext ==
    \/ \E w \in Workers, e \in Escalations, t \in Tenants, m \in Lifetimes, x \in OnExpiry :
          CreateIn(w, e, t, m, x)
    \/ \E e \in Escalations, p \in Payloads : AuditDecision(e, p)
    \/ \E e \in Escalations : ActionFails(e)
    \/ \E c \in Calls, p \in Payloads : AnswerIn(c, p)
    \/ EscalationStep
    \/ WriterStep
    \/ \E w \in Workers : ProcessDies(w)

TrailSpec == TrailInit /\ [][TrailNext]_trailVars

\* What Escalation and AuditChain assume, and that a process that lives gets
\* from the commit of a row to the scheduling of its entry.
TrailFairSpec ==
    /\ TrailSpec
    /\ \A d \in Escalations \cup Calls : WF_logVars(Log!WriteStep(d))
    /\ \A e \in Escalations : WF_trailVars(\E p \in Payloads : AuditDecision(e, p))
    /\ \A c \in Calls : WF_trailVars(\E p \in Payloads : AnswerIn(c, p))
    /\ WF_vars(Tick)
    /\ \A w \in Workers : WF_vars(ExpiryScan(w)) /\ SF_vars(ExpiryCommit(w))

----------------------------------------------------------------------------
(* Properties *)

(***************************************************************************)
(* The trail says nothing the table does not bear out: an entry that is    *)
(* scheduled or stored is about a committed row of the same tenant; one    *)
(* about a human decision is about a row that is closed, and as long as    *)
(* that decision stands in the row, it has the same outcome, whatever      *)
(* raced, failed or crashed before the entry was stored.                   *)
(***************************************************************************)
TrailMatchesTable ==
    /\ \A e \in Escalations : entry[e] # Null =>
          row[e] # Null /\ row[e].tenant = entry[e].tenant
    /\ \A c \in Calls : entry[c] # Null =>
          LET r == row[call[c].esc]
          IN  /\ r # Null
              /\ r.status # "pending"
              /\ r.tenant = entry[c].tenant
              /\ r.resolvedBy = c => EntryStatus(r.status) = entry[c].status

(***************************************************************************)
(* A human decision reaches the trail: once a row says that a call         *)
(* resolved it, the entry about that is stored in the end, unless the      *)
(* write fails (log() only reports that) or the process that owed it dies. *)
(***************************************************************************)
ResolutionRecorded ==
    \A e \in Escalations, c \in Calls :
        (row[e] # Null /\ row[e].resolvedBy = c) ~>
            (phase[c] \in {"committed", "failed", "lost"} \/ call[c].pc = "lost")

\* AuditChain's properties, of the trail that these processes write.
LinksPointBack == Log!LinksPointBack
WritesEnd == Log!WritesEnd

====
