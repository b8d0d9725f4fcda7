---- MODULE Listings ----
(***************************************************************************)
(* What readers see of the tables while others write them: the pages of    *)
(* GET /v1/audit-logs and GET /v1/escalations (TenantScopedRepo) and the   *)
(* shadow report.                                                          *)
(*                                                                         *)
(* Every SELECT is a statement with a snapshot of its own: the page and    *)
(* then the count that has_more is computed from, the counts of a report   *)
(* and then its entries.  A row gets created_at in the process that        *)
(* flushes it and becomes visible later, when its transaction commits; an  *)
(* escalation leaves the list of pending ones when it is resolved.         *)
(***************************************************************************)
EXTENDS Naturals, FiniteSets, Tenancy

CONSTANTS
    Entries,        \* rows of audit_log
    Escalations,    \* rows of escalations
    Readers,        \* clients that list page by page, or fetch a report
    Limits,         \* page sizes (1 to 1000 and 1 to 500 in the code)
    SHADOW_LIMIT,   \* most entries of a report (50000 in the code)
    MaxFlushes      \* bound of the clock (the model's, not the code's)

Rows == Entries \cup Escalations

ASSUME RowsFinite == IsFiniteSet(Rows)
ASSUME TablesApart == Entries \cap Escalations = {}
ASSUME NullIsNoList == Null \notin {"audit logs", "escalations", "report"}
ASSUME LimitsNat == Limits \subseteq Nat \ {0}
ASSUME ShadowLimitNat == SHADOW_LIMIT \in Nat \ {0}

VARIABLES
    row,        \* row[d]: what the properties need of row d, Null before its flush
    flushes,    \* the clock that created_at is read from: no two rows have the same
    reader      \* reader[v]: the request or requests of v, and what it got

listingVars == <<row, flushes, reader>>

\* fits: for an entry, whether it passes the filters of the request (a report's:
\* environment = "shadow"); for an escalation, whether it is pending.
ListedRow == [tenant : Tenants, at : Nat, stored : BOOLEAN, fits : BOOLEAN]

ASSUME NullIsNoRow == Null \notin ListedRow

----------------------------------------------------------------------------
(* The writers: AuditService._write_entry, EscalationService, expiry loop *)

Flush(d, t, fits) ==
    /\ row[d] = Null
    /\ flushes < MaxFlushes
    /\ d \in Escalations => fits
    /\ row' = [row EXCEPT ![d] = [tenant |-> t, at |-> flushes, stored |-> FALSE, fits |-> fits]]
    /\ flushes' = flushes + 1
    /\ UNCHANGED reader

Open(d) == row[d] # Null /\ ~row[d].stored

Commit(d) ==
    /\ Open(d)
    /\ row' = [row EXCEPT ![d].stored = TRUE]
    /\ UNCHANGED <<flushes, reader>>

Rollback(d) ==
    /\ Open(d)
    /\ row' = [row EXCEPT ![d] = Null]
    /\ UNCHANGED <<flushes, reader>>

\* approve, reject, or expiry
Resolve(e) ==
    /\ row[e] # Null /\ row[e].stored /\ row[e].fits
    /\ row' = [row EXCEPT ![e].fits = FALSE]
    /\ UNCHANGED <<flushes, reader>>

----------------------------------------------------------------------------
(* What a statement sees *)

Table(list) == IF list = "escalations" THEN Escalations ELSE Entries

\* WHERE tenant_id = ...
Visible(list, t) ==
    {d \in Table(list) : row[d] # Null /\ row[d].stored /\ row[d].tenant = t}

\* ... AND status = ... (agent_id = ..., environment = "shadow")
Fitting(list, t) == {d \in Visible(list, t) : row[d].fits}

\* What stands before d: ORDER BY created_at, newest first for audit logs.
Before(list, t, d) ==
    {e \in Fitting(list, t) : IF list = "audit logs" THEN row[e].at > row[d].at
                              ELSE row[e].at < row[d].at}

Position(list, t, d) == Cardinality(Before(list, t, d))

\* .limit(limit).offset(offset)
Page(list, t, offset, limit) ==
    {d \in Fitting(list, t) : /\ offset <= Position(list, t, d)
                              /\ Position(list, t, d) < offset + limit}

\* get_audit_log_count knows no filters, get_escalations_count has the list's.
Total(list, t) ==
    Cardinality(IF list = "audit logs" THEN Visible(list, t) ELSE Fitting(list, t))

----------------------------------------------------------------------------
(* get_audit_logs, list_escalations *)

Lists == {"audit logs", "escalations"}

NoReader == [list |-> Null, tenant |-> Null, limit |-> 0, offset |-> 0, pc |-> "idle",
             got |-> {}, start |-> {}, closed |-> {}]

\* A client of tenant t begins a list, with offset 0. What there is to be seen
\* (start) and what is not any more (closed) is history, for properties only.
Ask(v, list, t, n) ==
    /\ reader[v].pc = "idle"
    /\ reader' = [reader EXCEPT ![v] =
                    [NoReader EXCEPT !.list = list, !.tenant = t, !.limit = n, !.pc = "page",
                                     !.start = Fitting(list, t),
                                     !.closed = Visible(list, t) \ Fitting(list, t)]]
    /\ UNCHANGED <<row, flushes>>

\* get_audit_log, get_escalations
ReadPage(v) ==
    LET c == reader[v]
    IN  /\ c.pc = "page"
        /\ reader' = [reader EXCEPT
                        ![v].got = @ \cup Page(c.list, c.tenant, c.offset, c.limit),
                        ![v].pc = "count"]
        /\ UNCHANGED <<row, flushes>>

\* Mutant: off by one.
HasMoreShort(c) == c.offset + c.limit + 1 < Total(c.list, c.tenant)

\* "has_more": (offset + limit) < total
HasMore(c) == c.offset + c.limit < Total(c.list, c.tenant)

\* The count, and the answer: the client asks for the next page while has_more.
ReadCount(v) ==
    LET c == reader[v]
    IN  /\ c.pc = "count"
        /\ reader' = [reader EXCEPT ![v] =
                        IF HasMore(c) THEN [c EXCEPT !.pc = "page", !.offset = c.offset + c.limit]
                        ELSE [c EXCEPT !.pc = "done"]]
        /\ UNCHANGED <<row, flushes>>

----------------------------------------------------------------------------
(* ShadowReport.generate *)

\* Mutant: a report without entries never ends.
ReportCountsEmpty(v, t) ==
    LET counted == Fitting("report", t)
    IN  /\ reader[v].pc = "idle"
        /\ reader' = [reader EXCEPT ![v] =
                        [NoReader EXCEPT !.list = "report", !.tenant = t, !.start = counted,
                                         !.pc = IF counted = {} THEN "empty" ELSE "entries"]]
        /\ UNCHANGED <<row, flushes>>

\* The counts: total is the size of start.
ReportCounts(v, t) ==
    LET counted == Fitting("report", t)
    IN  /\ reader[v].pc = "idle"
        /\ reader' = [reader EXCEPT ![v] =
                        [NoReader EXCEPT !.list = "report", !.tenant = t, !.start = counted,
                                     !.pc = IF counted = {} THEN "done" ELSE "entries"]]
        /\ UNCHANGED <<row, flushes>>

\* Mutant: the limit is applied before the environment.
OldestAnyEnvironment(t) ==
    {d \in Fitting("report", t) :
        Cardinality({e \in Visible("report", t) : row[e].at < row[d].at}) < SHADOW_LIMIT}

\* ORDER BY created_at ASC LIMIT SHADOW_LIMIT
Oldest(t) == Page("report", t, 0, SHADOW_LIMIT)

\* The entries, of which the breakdowns and the violations are made.
ReportEntries(v) ==
    /\ reader[v].pc = "entries"
    /\ reader' = [reader EXCEPT ![v].got = Oldest(reader[v].tenant), ![v].pc = "done"]
    /\ UNCHANGED <<row, flushes>>

\* truncated = total > SHADOW_LIMIT
Truncated(v) == Cardinality(reader[v].start) > SHADOW_LIMIT

----------------------------------------------------------------------------
ListingInit ==
    /\ row = [d \in Rows |-> Null]
    /\ flushes = 0
    /\ reader = [v \in Readers |-> NoReader]

ListingNext ==
    \/ \E d \in Rows, t \in Tenants, fits \in BOOLEAN : Flush(d, t, fits)
    \/ \E d \in Rows : Commit(d)
    \/ \E d \in Rows : Rollback(d)
    \/ \E e \in Escalations : Resolve(e)
    \/ \E v \in Readers, list \in Lists, t \in Tenants, n \in Limits : Ask(v, list, t, n)
    \/ \E v \in Readers : ReadPage(v)
    \/ \E v \in Readers : ReadCount(v)
    \/ \E v \in Readers, t \in Tenants : ReportCounts(v, t)
    \/ \E v \in Readers : ReportEntries(v)

ListingSpec == ListingInit /\ [][ListingNext]_listingVars

----------------------------------------------------------------------------
(* Properties *)

ReaderState ==
    [list : Lists \cup {"report", Null}, tenant : Tenants \cup {Null}, limit : Limits \cup {0},
     offset : Nat, pc : {"idle", "page", "count", "entries", "done"}, got : SUBSET Rows,
     start : SUBSET Rows, closed : SUBSET Rows]

ListingTypeOK ==
    /\ row \in [Rows -> ListedRow \cup {Null}]
    /\ flushes \in Nat
    /\ reader \in [Readers -> ReaderState]

\* A row that stood before d has left the list since the client began it.
Shifted(v, d) ==
    \E e \in Visible(reader[v].list, reader[v].tenant) \ reader[v].closed :
        ~row[e].fits /\ row[e].at < row[d].at

(***************************************************************************)
(* A client that follows has_more to the end has seen every row that was   *)
(* there when it began, whatever is written meanwhile, with one exception: *)
(* an escalation that is still pending may be missed if an older one was   *)
(* resolved in between, which moves the rest of the list up.  An audit log *)
(* has no exception: it is listed newest first and only grows, and the     *)
(* count is read after the page.                                           *)
(***************************************************************************)
ListsMissOnlyShifted ==
    \A v \in Readers : reader[v].pc = "done" /\ reader[v].list \in Lists =>
        \A d \in reader[v].start \ reader[v].got :
            row[d].fits => reader[v].list = "escalations" /\ Shifted(v, d)

(***************************************************************************)
(* The two halves of a shadow report agree, although they are read from    *)
(* two snapshots: a report that says it is truncated has as many entries   *)
(* as it may, one that does not breaks down at least as many decisions as  *)
(* it counts, and leaves a counted one out only if the log has outgrown    *)
(* SHADOW_LIMIT by now.                                                    *)
(***************************************************************************)
ReportCovers ==
    \A v \in Readers : reader[v].pc = "done" /\ reader[v].list = "report" =>
        LET c == reader[v]
            now == Fitting("report", c.tenant)
        IN  /\ c.got \subseteq now
            /\ Truncated(v) => Cardinality(c.got) = SHADOW_LIMIT
            /\ ~Truncated(v) => /\ Cardinality(c.got) >= Cardinality(c.start)
                                /\ c.start \subseteq c.got \/ Cardinality(now) > SHADOW_LIMIT

====
