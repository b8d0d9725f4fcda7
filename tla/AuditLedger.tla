---- MODULE AuditLedger ----
(***************************************************************************)
(* What the audit trail promises: per tenant, one linear chain of entries. *)
(* Appending an entry links it to the tenant's current head and makes it   *)
(* the new head; nothing is ever removed, relinked or shared by tenants.   *)
(*                                                                         *)
(* audit/service.py states the promise (class docstring, lines 25-31) and  *)
(* AuditChain is the program that keeps it, while one process at a time    *)
(* writes the entries of a tenant.                                         *)
(***************************************************************************)
CONSTANTS
    Decisions,  \* decision ids: one audit entry each (audit_log.decision_id is unique)
    Tenants,    \* tenant ids
    Null        \* SQL NULL / Python None

VARIABLES
    head,       \* head[t]: the newest entry of tenant t, Null when it has none
    link        \* link[d]: Null, or the tenant of entry d and the entry before it

ledgerVars == <<head, link>>

Link == [tenant : Tenants, prev : Decisions \cup {Null}]

LedgerTypeOK ==
    /\ head \in [Tenants -> Decisions \cup {Null}]
    /\ link \in [Decisions -> Link \cup {Null}]

LedgerInit ==
    /\ head = [t \in Tenants |-> Null]
    /\ link = [d \in Decisions |-> Null]

\* Entry d is appended to the chain of tenant t.
Append(d, t) ==
    /\ link[d] = Null
    /\ link' = [link EXCEPT ![d] = [tenant |-> t, prev |-> head[t]]]
    /\ head' = [head EXCEPT ![t] = d]

LedgerNext == \E d \in Decisions, t \in Tenants : Append(d, t)

LedgerSpec == LedgerInit /\ [][LedgerNext]_ledgerVars

(***************************************************************************)
(* No fork: two entries of one tenant never share a predecessor, so        *)
(* following the links from the head meets every entry once.               *)
(***************************************************************************)
NoFork ==
    \A d, e \in Decisions :
        /\ link[d] # Null
        /\ link[e] # Null
        /\ link[d].tenant = link[e].tenant
        /\ link[d].prev = link[e].prev
        => d = e

====
