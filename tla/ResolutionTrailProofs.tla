---- MODULE ResolutionTrailProofs ----
(***************************************************************************)
(* Theorems about ResolutionTrail, for any escalations, calls, tenants and *)
(* processes: seen without the trail it is Escalation, seen without the    *)
(* escalations it is AuditChain, and the trail says nothing that the table *)
(* does not bear out.                                                      *)
(***************************************************************************)
EXTENDS ResolutionTrail, EscalationProofs

\* What is owed to the trail, and what has been handed to it, is about rows that
\* exist; an entry about a human decision is about a call that has resolved.
DecisionsInv ==
    \A e \in Escalations :
        /\ creator[e] # Null => row[e] # Null
        /\ entry[e] # Null => row[e] # Null /\ row[e].tenant = entry[e].tenant

ResolutionsInv ==
    \A c \in Calls : entry[c] # Null =>
        /\ call[c].pc \in Settled
        /\ call[c].esc \in Escalations
        /\ row[call[c].esc] # Null
        /\ row[call[c].esc].status # "pending"
        /\ row[call[c].esc].tenant = entry[c].tenant
        /\ entry[c].status = EntryStatus(call[c].status)

TrailInv ==
    /\ DOMAIN entry = Escalations \cup Calls
    /\ entry = [d \in Escalations \cup Calls |-> entry[d]]
    /\ creator = [e \in Escalations |-> creator[e]]
    /\ DecisionsInv
    /\ ResolutionsInv

\* The death of a process is one for the escalations too, or does not concern them.
LEMMA DieIsCrash ==
    ASSUME IInv, NEW w \in Workers, Die(w)
    PROVE  Crash(w) \/ UNCHANGED vars
  <1>1. CASE Gone(w) # {} \/ pass[w] # Sleeping
    BY <1>1 DEF Crash
  <1>2. CASE Gone(w) = {} /\ pass[w] = Sleeping
    <2>1. call \in [Calls -> CallState] /\ pass \in [Workers -> PassState]
      BY DEF IInv, TypeOK
    <2>2. call' = [c \in Calls |-> call[c]]
      BY <1>2 DEF Die
    <2>3. call' = call /\ pass' = pass
      BY <1>2, <2>1, <2>2 DEF Die
    <2> QED
      BY <2>3 DEF Die, vars
  <1> QED
    BY <1>1, <1>2

\* A step of the composition is a step of Escalation or leaves it alone.
LEMMA StepOfEscalation ==
    ASSUME IInv, [TrailNext]_trailVars
    PROVE  [Next]_vars
  <1>1. CASE EscalationStep
    BY <1>1 DEF EscalationStep, Next
  <1>2. CASE WriterStep \/ UNCHANGED trailVars
    BY <1>2 DEF WriterStep, trailVars
  <1>3. ASSUME NEW w \in Workers, ProcessDies(w)
        PROVE  [Next]_vars
    BY <1>3, DieIsCrash DEF ProcessDies, Next
  <1>4. ASSUME NEW c \in Calls, NEW p \in Payloads, AnswerIn(c, p)
        PROVE  [Next]_vars
    BY <1>4 DEF AnswerIn, Next
  <1>5. ASSUME NEW w \in Workers, NEW e \in Escalations, NEW t \in Tenants,
               NEW m \in Lifetimes, NEW x \in OnExpiry, CreateIn(w, e, t, m, x)
        PROVE  [Next]_vars
    BY <1>5 DEF CreateIn, Next
  <1>6. ASSUME NEW e \in Escalations, NEW p \in Payloads, AuditDecision(e, p)
        PROVE  [Next]_vars
    BY <1>6 DEF AuditDecision
  <1>7. ASSUME NEW e \in Escalations, ActionFails(e)
        PROVE  [Next]_vars
    BY <1>7 DEF ActionFails
  <1> QED
    BY <1>1, <1>2, <1>3, <1>4, <1>5, <1>6, <1>7 DEF TrailNext

\* Entries that are there stay true while only the escalations move on.
LEMMA EntriesStayTrue ==
    ASSUME IInv, [Next]_vars, TrailInv, UNCHANGED entry
    PROVE  /\ \A e \in Escalations : row[e] # Null =>
                 row'[e] # Null /\ row'[e].tenant = row[e].tenant
           /\ ResolutionsInv'
  <1>1. KeepsResolved
    BY RowKept
  <1>2. \A e \in Escalations : row[e] # Null =>
            /\ row'[e] # Null
            /\ row'[e].tenant = row[e].tenant
            /\ row[e].status # "pending" => row'[e].status # "pending"
    BY <1>1 DEF KeepsResolved
  <1>3. ASSUME NEW c \in Calls, entry[c] # Null
        PROVE  /\ call'[c].pc \in Settled
               /\ call'[c].esc = call[c].esc
               /\ call'[c].status = call[c].status
    BY <1>3, SettledKept DEF TrailInv, ResolutionsInv
  <1> QED
    BY <1>2, <1>3 DEF TrailInv, ResolutionsInv

LEMMA TrailInvNext ==
    ASSUME IInv, TrailInv, [TrailNext]_trailVars
    PROVE  TrailInv'
  <1>0. [Next]_vars
    BY StepOfEscalation
  <1> DEFINE Schedules(d, w, t, p, s) ==
               entry' = [entry EXCEPT ![d] = [worker |-> w, tenant |-> t, payload |-> p,
                                              status |-> s]]
  <1>1. ASSUME UNCHANGED entry,
               creator' = [e \in Escalations |-> creator'[e]],
               \A e \in Escalations : creator'[e] # Null => creator[e] # Null \/ row'[e] # Null
        PROVE  TrailInv'
    BY <1>0, <1>1, EntriesStayTrue DEF TrailInv, DecisionsInv
  <1>2. ASSUME NEW e \in Escalations, NEW p \in Payloads, AuditDecision(e, p)
        PROVE  TrailInv'
    <2> DEFINE k == [worker |-> creator[e], tenant |-> row[e].tenant, payload |-> p,
                     status |-> "ESCALATE"]
    <2>1. /\ entry' = [entry EXCEPT ![e] = k]
          /\ creator' = [creator EXCEPT ![e] = Null]
          /\ UNCHANGED <<row, call>>
          /\ creator[e] # Null
      BY <1>2 DEF AuditDecision, Log!Schedule, vars
    <2>2. k.tenant = row[e].tenant
      OBVIOUS
    <2>3. row[e] # Null /\ e \notin Calls
      BY <2>1, NamesDiffer DEF TrailInv, DecisionsInv
    <2> HIDE DEF k
    <2> QED
      BY <2>1, <2>2, <2>3 DEF TrailInv, DecisionsInv, ResolutionsInv
  <1>3. ASSUME NEW c \in Calls, NEW p \in Payloads, AnswerIn(c, p)
        PROVE  TrailInv'
    <2> DEFINE k == [worker |-> call[c].worker, tenant |-> row[call[c].esc].tenant,
                     payload |-> p, status |-> EntryStatus(call[c].status)]
    <2>1. /\ entry' = [entry EXCEPT ![c] = k]
          /\ UNCHANGED <<row, creator>>
          /\ call[c].pc = "committed"
          /\ call' = [call EXCEPT ![c] = AfterAudit(c)]
      BY <1>3 DEF AnswerIn, AuditResolution, Log!Schedule, Answer
    <2>2. k.tenant = row[call[c].esc].tenant /\ k.status = EntryStatus(call[c].status)
      OBVIOUS
    <2>3. call \in [Calls -> CallState]
      BY DEF IInv, TypeOK
    <2>4. /\ AfterAudit(c).pc \in Settled
          /\ AfterAudit(c).esc = call[c].esc
          /\ AfterAudit(c).status = call[c].status
      <3>1. CASE call[c].key = Null
        BY <3>1, EndedState DEF AfterAudit, Settled
      <3>2. CASE call[c].key # Null
        BY <2>3, <3>2 DEF AfterAudit, Settled, CallState
      <3> QED
        BY <3>1, <3>2
    <2>5. /\ call[c].esc \in Escalations
          /\ row[call[c].esc] # Null
          /\ row[call[c].esc].status # "pending"
      BY <2>1 DEF IInv, CallInv, CallOK
    <2>6. c \notin Escalations
      BY NamesDiffer
    <2> HIDE DEF k
    <2>7. DecisionsInv'
      BY <2>1, <2>6 DEF TrailInv, DecisionsInv
    <2>8. ResolutionsInv'
      BY <2>1, <2>2, <2>3, <2>4, <2>5 DEF TrailInv, ResolutionsInv
    <2> QED
      BY <2>1, <2>7, <2>8 DEF TrailInv
  <1>4. ASSUME NEW w \in Workers, NEW e \in Escalations, NEW t \in Tenants,
               NEW m \in Lifetimes, NEW x \in OnExpiry, CreateIn(w, e, t, m, x)
        PROVE  TrailInv'
    <2>1. /\ UNCHANGED entry
          /\ creator' = [creator EXCEPT ![e] = w]
      BY <1>4 DEF CreateIn, logVars
    <2>2. row'[e] # Null
      <3>1. row \in [Escalations -> Row \cup {Null}]
        BY DEF IInv, TypeOK
      <3>2. now + m \in 0..MaxTime
        BY <1>4, LifetimesNat, MaxTimeNat DEF CreateIn, Create, IInv, TypeOK
      <3> DEFINE new == [tenant |-> t, expiresAt |-> now + m, onExpiry |-> x,
                         status |-> "pending", resolvedAt |-> Null, resolvedBy |-> Null]
      <3>3. new \in Row
        BY <3>2 DEF Row
      <3>4. row' = [row EXCEPT ![e] = new]
        BY <1>4 DEF CreateIn, Create
      <3> HIDE DEF new
      <3> QED
        BY <3>1, <3>3, <3>4, NullIsNoRow
    <2>3. creator' = [f \in Escalations |-> creator'[f]]
      BY <2>1 DEF TrailInv
    <2>4. \A f \in Escalations : creator'[f] # Null => creator[f] # Null \/ row'[f] # Null
      BY <2>1, <2>2 DEF TrailInv
    <2> QED
      BY <1>1, <2>1, <2>3, <2>4
  <1>5. ASSUME NEW w \in Workers, ProcessDies(w)
        PROVE  TrailInv'
    BY <1>1, <1>5 DEF ProcessDies, Log!Die
  <1>6. CASE EscalationStep \/ UNCHANGED trailVars
    BY <1>1, <1>6 DEF EscalationStep, trailVars, logVars, TrailInv
  <1>7. CASE WriterStep
    <2>1. UNCHANGED <<entry, creator>>
      BY <1>7
      DEF WriterStep, Log!WriteStep, Log!AcquireChainLock, Log!SelectLast, Log!LockRow,
          Log!Insert, Log!Commit, Log!Fail
    <2> QED
      BY <1>1, <2>1 DEF TrailInv
  <1>8. ASSUME NEW e \in Escalations, ActionFails(e)
        PROVE  TrailInv'
    BY <1>1, <1>8 DEF ActionFails, logVars, TrailInv
  <1> QED
    BY <1>2, <1>3, <1>4, <1>5, <1>6, <1>7, <1>8 DEF TrailNext

LEMMA TrailInvariant == TrailSpec => [](IInv /\ TrailInv)
  <1>1. TrailInit => IInv /\ TrailInv
    BY InitInv DEF TrailInit, Log!Init, TrailInv, DecisionsInv, ResolutionsInv
  <1>2. IInv /\ TrailInv /\ [TrailNext]_trailVars => (IInv /\ TrailInv)'
    BY StepOfEscalation, NextInv, TrailInvNext
  <1> QED
    BY <1>1, <1>2, PTL DEF TrailSpec

----------------------------------------------------------------------------

(***************************************************************************)
(* The trail changes nothing for the escalations: what processes do to     *)
(* them while they also write the audit log, and die in the middle of      *)
(* both, is what Escalation describes; so all that is proved of it holds.  *)
(***************************************************************************)
THEOREM ImplementsEscalation == TrailSpec => Spec
  <1>1. TrailInit => Init
    BY DEF TrailInit
  <1>2. IInv /\ [TrailNext]_trailVars => [Next]_vars
    BY StepOfEscalation
  <1> QED
    BY <1>1, <1>2, TrailInvariant, PTL DEF TrailSpec, Spec

(***************************************************************************)
(* Every entry handed to the trail, stored or not, is about a committed    *)
(* row of its tenant; one about a human decision is about a closed row,    *)
(* and has the outcome of the row for as long as that decision stands.     *)
(***************************************************************************)
THEOREM TrailMatchesTableHolds == TrailSpec => []TrailMatchesTable
  <1>1. ASSUME IInv, TrailInv, NEW c \in Calls, entry[c] # Null,
               row[call[c].esc].resolvedBy = c
        PROVE  EntryStatus(row[call[c].esc].status) = entry[c].status
    <2>1. call[c].esc \in Escalations /\ row[call[c].esc] # Null
      BY <1>1 DEF TrailInv, ResolutionsInv
    <2>2. c # Null /\ c # "system_expiry"
      BY NullOutside, SystemIsNoCall
    <2>3. call[c].status = row[call[c].esc].status
      BY <1>1, <2>1, <2>2 DEF IInv, ColumnsAgree
    <2> QED
      BY <1>1, <2>3 DEF TrailInv, ResolutionsInv
  <1>2. IInv /\ TrailInv => TrailMatchesTable
    BY <1>1 DEF TrailInv, DecisionsInv, ResolutionsInv, TrailMatchesTable
  <1> QED
    BY <1>2, TrailInvariant, PTL

\* The trail and the table tell one story of each escalation: an entry about a
\* human decision tells the outcome in the row, and there is no other such entry.
TrailTellsOutcome ==
    \A c \in Calls : entry[c] # Null =>
        /\ row[call[c].esc].resolvedBy = c
        /\ EntryStatus(row[call[c].esc].status) = entry[c].status
        /\ \A d \in Calls : entry[d] # Null /\ call[d].esc = call[c].esc => d = c

(***************************************************************************)
(* If no call reads an escalation while another call or an expiry loop is  *)
(* between its read and its commit, the audit log never tells another      *)
(* outcome than the table, nor two for one escalation, neither when the    *)
(* entry is scheduled nor later (governor/service.py:910, 955).            *)
(***************************************************************************)
THEOREM TrailTellsOutcomeAlone == TrailSpec /\ []Alone => []TrailTellsOutcome
  <1>1. ASSUME IInv, TrailInv, FreshInv, NEW c \in Calls, entry[c] # Null
        PROVE  /\ row[call[c].esc].resolvedBy = c
               /\ row[call[c].esc].status = call[c].status
               /\ entry[c].status = EntryStatus(call[c].status)
    <2>1. /\ call[c].pc \in Settled /\ call[c].esc \in Escalations
          /\ entry[c].status = EntryStatus(call[c].status)
      BY <1>1 DEF TrailInv, ResolutionsInv
    <2>2. HasResolved(c)
      BY <2>1, NullOutside DEF HasResolved, Settled, Over
    <2> QED
      BY <1>1, <2>1, <2>2 DEF FreshInv, CallFresh
  <1>2. IInv /\ TrailInv /\ FreshInv => TrailTellsOutcome
    BY <1>1 DEF TrailTellsOutcome
  <1> QED
    BY <1>2, TrailInvariant, ImplementsEscalation, FreshInvariant, PTL

----------------------------------------------------------------------------
(* The trail as an audit log *)

LogProofs == INSTANCE AuditChainProofs WITH Decisions <- Escalations \cup Calls

\* A request that is under way, or whose entry is owed, runs in some process.
InProcess == Undecided \cup {"committed", "caching"}

WorkersInv ==
    /\ \A c \in Calls : call[c].pc \in InProcess => call[c].worker \in Workers
    /\ \A e \in Escalations : creator[e] \in Workers \cup {Null}

LogInv == LogProofs!BackInv /\ LogProofs!HolderInv

\* The log of the composition is the one the lemmas are about.
LEMMA SameInit == Log!Init <=> LogProofs!Init
  BY DEF Log!Init, LogProofs!Init

LEMMA SameDie == \A w : Log!Die(w) <=> LogProofs!Die(w)
  BY DEF Log!Die, LogProofs!Die, Log!Gone, LogProofs!Gone, Log!Pending, LogProofs!Pending,
         Log!Holding, LogProofs!Holding

LEMMA SameNext == Log!Next <=> LogProofs!Next
  <1>1. \A d, w, t, p, s : Log!Schedule(d, w, t, p, s) <=> LogProofs!Schedule(d, w, t, p, s)
    BY DEF Log!Schedule, LogProofs!Schedule
  <1>2. \A d : Log!AcquireChainLock(d) <=> LogProofs!AcquireChainLock(d)
    BY DEF Log!AcquireChainLock, LogProofs!AcquireChainLock
  <1>3. \A d : Log!SelectLast(d) <=> LogProofs!SelectLast(d)
    BY DEF Log!SelectLast, LogProofs!SelectLast, Log!Newest, LogProofs!Newest, Log!Rows,
           LogProofs!Rows, Log!Committed, LogProofs!Committed
  <1>4. \A d : Log!LockRow(d) <=> LogProofs!LockRow(d)
    BY DEF Log!LockRow, LogProofs!LockRow, Log!HasRowLock, LogProofs!HasRowLock
  <1>5. \A d : Log!Insert(d) <=> LogProofs!Insert(d)
    BY DEF Log!Insert, LogProofs!Insert
  <1>6. \A d : Log!Commit(d) <=> LogProofs!Commit(d)
    BY DEF Log!Commit, LogProofs!Commit, Log!Release, LogProofs!Release
  <1>7. \A d : Log!Fail(d) <=> LogProofs!Fail(d)
    BY DEF Log!Fail, LogProofs!Fail, Log!Release, LogProofs!Release, Log!Holding,
           LogProofs!Holding
  <1>8. \A w : Log!Crash(w) <=> LogProofs!Crash(w)
    BY SameDie DEF Log!Crash, LogProofs!Crash, Log!Gone, LogProofs!Gone, Log!Pending,
                   LogProofs!Pending, Log!Holding, LogProofs!Holding
  <1>s. \A S : Log!Cardinality(S) = LogProofs!Cardinality(S)
    BY DEF Log!Cardinality, LogProofs!Cardinality
  <1>r. \A t : Log!Rows(t) = LogProofs!Rows(t)
    BY DEF Log!Rows, LogProofs!Rows, Log!Committed, LogProofs!Committed
  <1>9. \A v, t : Log!VerifyStart(v, t) <=> LogProofs!VerifyStart(v, t)
    BY <1>s, <1>r DEF Log!VerifyStart, LogProofs!VerifyStart
  <1>10. \A v : Log!VerifyChunk(v) <=> LogProofs!VerifyChunk(v)
    <2>1. \A d : Log!Rank(d) = LogProofs!Rank(d)
      BY <1>s, <1>r DEF Log!Rank, LogProofs!Rank
    <2>2. \A t, n : Log!Chunk(t, n) = LogProofs!Chunk(t, n)
      BY <1>r, <2>1 DEF Log!Chunk, LogProofs!Chunk
    <2>3. \A d : Log!DecisionHash(d) = LogProofs!DecisionHash(d)
      BY DEF Log!DecisionHash, LogProofs!DecisionHash
    <2>4. \A d : Log!PreviousHash(d) = LogProofs!PreviousHash(d)
      BY <2>3 DEF Log!PreviousHash, LogProofs!PreviousHash
    <2>5. \A d, n, h : Log!Expected(d, n, h) = LogProofs!Expected(d, n, h)
      BY DEF Log!Expected, LogProofs!Expected, Log!Rank, LogProofs!Rank, Log!Rows,
             LogProofs!Rows, Log!Committed, LogProofs!Committed, Log!Cardinality,
             LogProofs!Cardinality, Log!DecisionHash, LogProofs!DecisionHash
    <2>6. \A t, n, h : Log!Broken(t, n, h) <=> LogProofs!Broken(t, n, h)
      BY <2>2, <2>4, <2>5 DEF Log!Broken, LogProofs!Broken
    <2> QED
      BY <2>2, <2>3, <2>6 DEF Log!VerifyChunk, LogProofs!VerifyChunk
  <1> QED
    BY <1>1, <1>2, <1>3, <1>4, <1>5, <1>6, <1>7, <1>8, <1>9, <1>10 DEF Log!Next, LogProofs!Next

\* What AuditChain assumes of its decisions
LEMMA LogAssumptions ==
    /\ LogProofs!IsFiniteSet(Escalations \cup Calls)
    /\ Null \notin Escalations \cup Calls
    /\ ChunkSize \in Nat \ {0}
  BY EntriesFinite, NullOutside, ChunkNat DEF IsFiniteSet, LogProofs!IsFiniteSet

\* A call stays in the process it came to until it is over.
LEMMA CallsStay ==
    ASSUME IInv, WorkersInv, [Next]_vars, NEW c \in Calls, call'[c].pc \in InProcess
    PROVE  call'[c].worker \in Workers
  <1> USE DEF InProcess, Undecided
  <1>0. call \in [Calls -> CallState]
    BY DEF IInv, TypeOK
  <1>1. CASE call'[c] = call[c]
    BY <1>1 DEF WorkersInv
  <1>2. ASSUME NEW pc, call'[c] = Without(pc), pc \in {"refused", "failed", "lost"}
        PROVE  FALSE
    BY <1>2 DEF Without, Idle
  <1>3. ASSUME NEW pc, call'[c] = Ended(c, pc), pc \in {"answered", "failed", "lost"}
        PROVE  FALSE
    BY <1>0, <1>3, EndedState
  <1>4. CASE call'[c].worker = call[c].worker /\ call[c].pc \in InProcess
    BY <1>4 DEF WorkersInv
  <1>5. ASSUME NEW d \in Calls, NEW w \in Workers, NEW e \in Escalations, NEW t \in Tenants,
               NEW h \in Human, NEW k \in Keys \cup {Null}, Arrive(d, w, e, t, h, k)
        PROVE  call'[c] = call[c] \/ call'[c].pc = "replayed" \/ call'[c].worker = w
    <2>1. CASE d # c
      BY <1>0, <1>5, <2>1 DEF Arrive
    <2>2. CASE d = c /\ call' = [call EXCEPT ![c].pc = "replayed", ![c].key = k, ![c].got = cache[k]]
      <3> DEFINE m == [call[c] EXCEPT !.pc = "replayed", !.key = k, !.got = cache[k]]
      <3>1. m.pc = "replayed"
        BY <1>0 DEF CallState
      <3>2. call' = [call EXCEPT ![c] = m]
        BY <2>2
      <3> QED
        BY <1>0, <3>1, <3>2
    <2>3. CASE d = c /\ call' = [call EXCEPT ![c] = [Idle EXCEPT
                                    !.pc = "reading", !.worker = w, !.key = k, !.esc = e,
                                    !.tenant = t, !.status = h]]
      BY <1>0, <2>3 DEF Idle
    <2> QED
      BY <1>5, <2>1, <2>2, <2>3 DEF Arrive
  <1>6. ASSUME NEW d \in Calls, Read(d)
        PROVE  \/ call'[c] = call[c] \/ call'[c] = Without("refused")
               \/ call'[c].worker = call[c].worker /\ call[c].pc \in InProcess
    BY <1>0, <1>6 DEF Read, CallState
  <1>7. ASSUME NEW d \in Calls, Decide(d)
        PROVE  \/ call'[c] = call[c]
               \/ call'[c].worker = call[c].worker /\ call[c].pc \in InProcess
    BY <1>0, <1>7 DEF Decide, CallState
  <1>8. ASSUME NEW d \in Calls, Commit(d)
        PROVE  \/ call'[c] = call[c] \/ call'[c] = Without("refused")
               \/ call'[c].worker = call[c].worker /\ call[c].pc \in InProcess
    BY <1>0, <1>8 DEF Commit, CallState
  <1>9. ASSUME NEW d \in Calls, Answer(d)
        PROVE  \/ call'[c] = call[c] \/ call'[c] = Ended(c, "answered")
               \/ call'[c].worker = call[c].worker /\ call[c].pc \in InProcess
    BY <1>0, <1>9 DEF Answer, AfterAudit, CallState
  <1>10. ASSUME NEW d \in Calls, Store(d) \/ CallFail(d)
         PROVE  \/ call'[c] = call[c] \/ call'[c] = Without("failed")
                \/ \E pc \in {"answered", "failed"} : call'[c] = Ended(c, pc)
    BY <1>0, <1>10 DEF Store, CallFail
  <1>11. ASSUME NEW w \in Workers, Crash(w)
         PROVE  \/ call'[c] = call[c] \/ call'[c] = Without("lost")
                \/ call'[c] = Ended(c, "lost")
    BY <1>0, <1>11 DEF Crash, Die
  <1>12. CASE UNCHANGED call
    BY <1>1, <1>12
  <1> QED
    BY <1>1, <1>2, <1>3, <1>4, <1>5, <1>6, <1>7, <1>8, <1>9, <1>10, <1>11, <1>12
    DEF Next, vars, Create, StoreDecision, Expire, ExpiryScan, ExpiryCommit, ExpiryFail, Tick

LEMMA WorkersStep ==
    ASSUME IInv, TrailInv, WorkersInv, [TrailNext]_trailVars
    PROVE  WorkersInv'
  <1>1. \A c \in Calls : call'[c].pc \in InProcess => call'[c].worker \in Workers
    BY StepOfEscalation, CallsStay
  <1>2. ASSUME NEW e \in Escalations
        PROVE  creator'[e] \in Workers \cup {Null}
    <2>1. creator = [f \in Escalations |-> creator[f]]
      BY DEF TrailInv
    <2>2. creator[e] \in Workers \cup {Null}
      BY DEF WorkersInv
    <2>3. CASE UNCHANGED creator
      BY <2>2, <2>3
    <2>4. ASSUME NEW f \in Escalations, NEW w \in Workers \cup {Null},
                 creator' = [creator EXCEPT ![f] = w]
          PROVE  creator'[e] \in Workers \cup {Null}
      BY <2>1, <2>2, <2>4
    <2>5. ASSUME NEW w \in Workers, ProcessDies(w)
          PROVE  creator'[e] \in Workers \cup {Null}
      BY <2>2, <2>5 DEF ProcessDies
    <2> QED
      BY <2>3, <2>4, <2>5
      DEF TrailNext, CreateIn, AuditDecision, ActionFails, AnswerIn, EscalationStep, WriterStep,
          trailVars
  <1> QED
    BY <1>1, <1>2 DEF WorkersInv

\* A step of the composition is a step of AuditChain or leaves the log alone.
LEMMA StepOfLog ==
    ASSUME IInv, TrailInv, WorkersInv, LogInv, [TrailNext]_trailVars
    PROVE  [Log!Next]_logVars
  <1> USE DEF Log!Next
  <1>1. CASE EscalationStep \/ UNCHANGED trailVars
    BY <1>1 DEF EscalationStep, trailVars
  <1>2. CASE WriterStep
    BY <1>2 DEF WriterStep, Log!WriteStep
  <1>3. ASSUME NEW w \in Workers, ProcessDies(w)
        PROVE  [Log!Next]_logVars
    <2>1. LogProofs!Die(w)
      BY <1>3, SameDie DEF ProcessDies
    <2>2. LogProofs!Crash(w) \/ UNCHANGED logVars
      BY <2>1, LogProofs!DieIsCrash, LogAssumptions
      DEF LogInv, LogProofs!BackInv, LogProofs!vars, logVars
    <2>3. LogProofs!Crash(w) => LogProofs!Next
      BY DEF LogProofs!Next
    <2> QED
      BY <2>2, <2>3, SameNext
  <1>4. ASSUME NEW c \in Calls, NEW p \in Payloads, AnswerIn(c, p)
        PROVE  [Log!Next]_logVars
    <2>1. /\ call[c].worker \in Workers
          /\ row[call[c].esc].tenant \in Tenants
      BY <1>4 DEF AnswerIn, Answer, WorkersInv, InProcess, IInv, TypeOK, CallInv, CallOK, Row
    <2>2. EntryStatus(call[c].status) \in Statuses
      BY DEF EntryStatus, Statuses
    <2> QED
      BY <1>4, <2>1, <2>2 DEF AnswerIn, AuditResolution
  <1>5. ASSUME NEW w \in Workers, NEW e \in Escalations, NEW t \in Tenants,
               NEW m \in Lifetimes, NEW x \in OnExpiry, CreateIn(w, e, t, m, x)
        PROVE  [Log!Next]_logVars
    BY <1>5 DEF CreateIn
  <1>6. ASSUME NEW e \in Escalations, NEW p \in Payloads, AuditDecision(e, p)
        PROVE  [Log!Next]_logVars
    <2>1. creator[e] \in Workers /\ row[e].tenant \in Tenants /\ "ESCALATE" \in Statuses
      BY <1>6 DEF AuditDecision, WorkersInv, TrailInv, DecisionsInv, IInv, TypeOK, Row, Statuses
    <2> QED
      BY <1>6, <2>1 DEF AuditDecision
  <1>7. ASSUME NEW e \in Escalations, ActionFails(e)
        PROVE  [Log!Next]_logVars
    BY <1>7 DEF ActionFails
  <1> QED
    BY <1>1, <1>2, <1>3, <1>4, <1>5, <1>6, <1>7 DEF TrailNext

LEMMA LogInvariant == TrailSpec => [](IInv /\ TrailInv /\ WorkersInv /\ LogInv)
  <1>1. TrailInit => WorkersInv /\ LogInv
    <2>1. TrailInit => WorkersInv
      BY DEF TrailInit, Init, WorkersInv, InProcess, Undecided, Idle
    <2>2. TrailInit => LogInv
      BY LogProofs!BackInit, LogProofs!HolderInit, LogAssumptions, SameInit
      DEF TrailInit, LogInv
    <2> QED
      BY <2>1, <2>2
  <1>2. IInv /\ TrailInv /\ WorkersInv /\ LogInv /\ [TrailNext]_trailVars
          => WorkersInv' /\ LogInv'
    <2> SUFFICES ASSUME IInv, TrailInv, WorkersInv, LogInv, [TrailNext]_trailVars
                 PROVE  WorkersInv' /\ LogInv'
      OBVIOUS
    <2>1. [LogProofs!Next]_logVars
      BY StepOfLog, SameNext
    <2>2. LogProofs!BackInv'
      BY <2>1, LogProofs!BackStep, LogAssumptions
      DEF LogInv, LogProofs!vars, logVars
    <2>3. LogProofs!HolderInv'
      BY <2>1, LogProofs!HolderStep, LogAssumptions
      DEF LogInv, LogProofs!BackInv, LogProofs!vars, logVars
    <2> QED
      BY <2>2, <2>3, WorkersStep DEF LogInv
  <1> QED
    BY <1>1, <1>2, TrailInvariant, PTL DEF TrailSpec

(***************************************************************************)
(* The trail is an audit log: what reviewers, decisions, expiry loops and  *)
(* dying processes do to the entries is what AuditChain describes, so the  *)
(* properties of its stored rows hold of the entries about escalations.    *)
(***************************************************************************)
THEOREM ImplementsAuditChain == TrailSpec => Log!Spec
  <1>1. TrailInit => Log!Init
    BY DEF TrailInit
  <1>2. IInv /\ TrailInv /\ WorkersInv /\ LogInv /\ [TrailNext]_trailVars => [Log!Next]_logVars
    BY StepOfLog
  <1> QED
    BY <1>1, <1>2, LogInvariant, PTL DEF TrailSpec, Log!Spec, Log!vars, logVars

(***************************************************************************)
(* The previous_hash of a stored entry about a decision or a resolution is *)
(* that of an earlier stored entry of the same tenant, whichever process   *)
(* died between the row of the escalation and its entry.                   *)
(***************************************************************************)
THEOREM TrailLinksPointBack == TrailSpec => []LinksPointBack
  <1>1. LogInv => LinksPointBack
    BY LogProofs!BackLinks, LogAssumptions
    DEF LogInv, LinksPointBack, Log!LinksPointBack, LogProofs!LinksPointBack,
        Log!Committed, LogProofs!Committed
  <1> QED
    BY <1>1, LogInvariant, PTL

(***************************************************************************)
(* What the trail has stored about a decision or a resolution is never     *)
(* changed or removed, also when the row it is about is overwritten.       *)
(***************************************************************************)
THEOREM TrailStoredForever == TrailSpec => Log!StoredForever
  <1>1. Log!KeepsStored <=> LogProofs!KeepsStored
    BY DEF Log!KeepsStored, LogProofs!KeepsStored, Log!Committed, LogProofs!Committed
  <1>2. LogInv /\ [LogProofs!Next]_logVars => LogProofs!KeepsStored
    BY LogProofs!StoredStep, LogAssumptions
    DEF LogInv, LogProofs!BackInv, LogProofs!vars, logVars
  <1>3. IInv /\ TrailInv /\ WorkersInv /\ LogInv /\ [TrailNext]_trailVars
          => [Log!KeepsStored]_logVars
    BY <1>1, <1>2, StepOfLog, SameNext
  <1> QED
    BY <1>3, LogInvariant, PTL DEF TrailSpec, Log!StoredForever, Log!vars, logVars

(***************************************************************************)
(* As long as no two processes overlap in a tenant's log, the entries      *)
(* about decisions and about resolutions, written by tasks of different    *)
(* requests, form one linear chain for each tenant (audit/service.py:31).  *)
(***************************************************************************)
THEOREM TrailChainLinear == TrailSpec /\ []LogProofs!OneWriter => []Log!ChainLinear
  <1>1. TrailInit => LogProofs!LinearInv
    BY LogProofs!LinearInit, LogAssumptions, SameInit DEF TrailInit
  <1>2. LogProofs!LinearInv /\ LogProofs!OneWriter /\ [LogProofs!Next]_logVars
          => LogProofs!LinearInv'
    BY LogProofs!LinearStep, LogAssumptions DEF LogProofs!vars, logVars
  <1>3. IInv /\ TrailInv /\ WorkersInv /\ LogInv /\ [TrailNext]_trailVars
          => [LogProofs!Next]_logVars
    BY StepOfLog, SameNext
  <1>4. LogProofs!LinearInv => Log!ChainLinear
    BY DEF LogProofs!LinearInv, LogProofs!ChainLinear, Log!ChainLinear, LogProofs!Committed,
           Log!Committed
  <1> QED
    BY <1>1, <1>2, <1>3, <1>4, LogInvariant, PTL DEF TrailSpec

====
