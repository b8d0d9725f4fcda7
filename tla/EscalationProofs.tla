---- MODULE EscalationProofs ----
(***************************************************************************)
(* Theorems about Escalation, for any escalations, tenants, calls, worker  *)
(* processes, lifetimes and any bound of the clock: type correctness, the  *)
(* columns of a row agree, the deadline is respected, standing human       *)
(* resolutions are audited, cached answers stay true, no row is reopened,  *)
(* and, unless writers race, answered resolutions stand and an outcome is  *)
(* final.                                                                  *)
(***************************************************************************)
EXTENDS Escalation, TLAPS

\* What a call knows of its row between its read and its commit: the row exists,
\* and the time it read lies on the side of the deadline that its verdict says.
\* Once the call has resolved, the row is closed; its audit entry comes before
\* the answer is cached or given.
CallOK(c) ==
    /\ call[c].pc \in Undecided \cup {"committed", "caching", "answered"} =>
         call[c].esc \in Escalations
    /\ call[c].pc \in {"read", "writing", "committed", "caching", "answered"} =>
         row[call[c].esc] # Null
    /\ call[c].pc \in {"reading", "read", "committed", "caching", "answered"} =>
         call[c].status \in Human
    /\ call[c].pc = "writing" =>
         /\ call[c].at \in 0..MaxTime
         /\ \/ call[c].status \in Human /\ call[c].at <= row[call[c].esc].expiresAt
            \/ call[c].status = "expired" /\ call[c].at >= row[call[c].esc].expiresAt
    /\ call[c].pc \in {"committed", "caching", "answered"} =>
         row[call[c].esc].status # "pending"
    /\ call[c].pc \in {"caching", "answered"} => c \in audited
    /\ call[c].pc = "failed" /\ call[c].esc \in Escalations => c \in audited
    /\ call[c].pc = "caching" => call[c].key \in Keys

CallInv == \A c \in Calls : CallOK(c)

\* What an expiry loop knows of its batch between its scan and its commit.
PassInv ==
    \A w \in Workers : pass[w].pc = "writing" =>
        /\ pass[w].at \in 0..MaxTime
        /\ \A e \in pass[w].batch : row[e] # Null /\ row[e].expiresAt <= pass[w].at

Over == {"committed", "caching", "answered", "failed", "lost"}

\* A row that names a call names one that has committed: its fields stay.
ResolverInv ==
    \A e \in Escalations : row[e] # Null /\ row[e].resolvedBy \in Calls =>
        call[row[e].resolvedBy].pc \in Over

\* g stands for the answer of an evaluate call, or for one of the calls f that
\* has been answered, and asked with key k.
Given(f, g, k) ==
    \/ g = Decision
    \/ g \in Calls /\ f[g].pc = "answered" /\ f[g].key = k

\* Redis holds, and has given, answers that were given.
CacheInv ==
    /\ \A k \in Keys : cache[k] # Null => Given(call, cache[k], k)
    /\ \A c \in Calls : call[c].pc = "replayed" => Given(call, call[c].got, call[c].key)

IInv == /\ TypeOK /\ CallInv /\ PassInv /\ ResolverInv /\ CacheInv
        /\ ColumnsAgree /\ DeadlineRespected

LEMMA InitInv == Init => IInv
  BY MaxTimeNat, NullOutside
  DEF Init, IInv, TypeOK, CallInv, CallOK, PassInv, ResolverInv, CacheInv, ColumnsAgree,
      DeadlineRespected, CallState, PassState, Sleeping, Idle, Undecided

LEMMA CreateInv ==
    ASSUME IInv, NEW e \in Escalations, NEW t \in Tenants, NEW m \in Lifetimes,
           NEW x \in OnExpiry, Create(e, t, m, x)
    PROVE  IInv'
  <1> DEFINE new == [tenant |-> t, expiresAt |-> now + m, onExpiry |-> x,
                     status |-> "pending", resolvedAt |-> Null, resolvedBy |-> Null]
  <1>1. now + m \in 0..MaxTime
    BY LifetimesNat, MaxTimeNat DEF IInv, TypeOK, Create
  <1>2. new \in Row /\ new # Null
    BY <1>1, NullIsNoRow DEF Row
  <1>3. /\ row[e] = Null
        /\ row' = [row EXCEPT ![e] = new]
        /\ UNCHANGED <<now, call, pass, audited, cache>>
    BY DEF Create
  <1>4. new.status = "pending" /\ new.resolvedBy = Null /\ new.resolvedAt = Null
    OBVIOUS
  <1> HIDE DEF new
  <1>5. \A f \in Escalations : row'[f] = IF f = e THEN new ELSE row[f]
    BY <1>3 DEF IInv, TypeOK
  <1>6. Null \notin Calls /\ Null # "system_expiry"
    BY NullOutside
  <1>7. TypeOK'
    BY <1>2, <1>3 DEF IInv, TypeOK
  <1>8. CallInv'
    BY <1>2, <1>3, <1>5 DEF IInv, CallInv, CallOK, Undecided
  <1>9. PassInv'
    BY <1>3, <1>5 DEF IInv, PassInv, TypeOK, PassState
  <1>10. ResolverInv'
    BY <1>3, <1>4, <1>5, <1>6 DEF IInv, ResolverInv
  <1>11. ColumnsAgree'
    BY <1>3, <1>4, <1>5 DEF IInv, ColumnsAgree
  <1>12. DeadlineRespected'
    BY <1>4, <1>5, <1>6 DEF IInv, DeadlineRespected
  <1>13. CacheInv'
    BY <1>3 DEF IInv, CacheInv, Given
  <1> QED
    BY <1>7, <1>8, <1>9, <1>10, <1>11, <1>12, <1>13 DEF IInv

\* A step of one call that leaves the rows alone. Once a row may name the call,
\* the step keeps what the row says of it; an answer stays, and only an answer
\* is stored or given from Redis.
LEMMA OneCallMoves ==
    ASSUME IInv, NEW c \in Calls, UNCHANGED <<row, now, pass>>,
           audited \subseteq audited', audited' \subseteq Calls,
           call' = [call EXCEPT ![c] = call'[c]], call'[c] \in CallState, CallOK(c)',
           call[c].pc # "answered",
           call[c].pc \in Over =>
               /\ call'[c].pc \in Over
               /\ call'[c].esc = call[c].esc
               /\ call'[c].status = call[c].status,
           cache' \in [Keys -> Calls \cup {Decision, Null}],
           \A k \in Keys : cache'[k] \in {cache[k], Decision, Null} \/ (cache'[k] = c /\ Given(call', c, k)),
           call'[c].pc = "replayed" => Given(call, call'[c].got, call'[c].key)
    PROVE  IInv'
  <1>1. call \in [Calls -> CallState]
    BY DEF IInv, TypeOK
  <1>2. \A d \in Calls : d # c => call'[d] = call[d]
    BY <1>1
  <1>3. TypeOK'
    BY <1>1 DEF IInv, TypeOK
  <1>4. CallInv'
    BY <1>2 DEF IInv, CallInv, CallOK
  <1>5. PassInv'
    BY DEF IInv, PassInv
  <1>6. ResolverInv' /\ ColumnsAgree'
    BY <1>2 DEF IInv, ResolverInv, ColumnsAgree
  <1>7. DeadlineRespected'
    BY DEF IInv, DeadlineRespected
  <1>8. \A g, k : Given(call, g, k) => Given(call', g, k)
    BY <1>2 DEF Given
  <1>9. CacheInv'
    <2>1. ASSUME NEW k \in Keys, cache'[k] # Null PROVE Given(call', cache'[k], k)
      <3>1. CASE cache'[k] = Decision
        BY <3>1 DEF Given
      <3>2. CASE cache'[k] = cache[k]
        <4>1. Given(call, cache[k], k)
          BY <2>1, <3>2 DEF IInv, CacheInv
        <4>2. Given(call', cache[k], k)
          BY <1>8, <4>1
        <4> QED
          BY <3>2, <4>2 DEF Given
      <3>3. CASE cache'[k] = c /\ Given(call', c, k)
        BY <3>3 DEF Given
      <3> QED
        BY <2>1, <3>1, <3>2, <3>3
    <2>2. ASSUME NEW d \in Calls, call'[d].pc = "replayed"
          PROVE  Given(call', call'[d].got, call'[d].key)
      <3>1. CASE d = c
        BY <1>8, <2>2, <3>1
      <3>2. CASE d # c
        <4>1. Given(call, call[d].got, call[d].key)
          BY <1>2, <2>2, <3>2 DEF IInv, CacheInv
        <4>2. Given(call', call[d].got, call[d].key)
          BY <1>2, <3>2, <4>1 DEF Given
        <4> QED
          BY <1>2, <3>2, <4>2 DEF Given
      <3> QED
        BY <3>1, <3>2
    <2> QED
      BY <2>1, <2>2 DEF CacheInv, Given
  <1> QED
    BY <1>3, <1>4, <1>5, <1>6, <1>7, <1>9 DEF IInv

\* The states a call is put in from nothing.
LEMMA FreshState ==
    /\ Idle \in CallState /\ Idle.pc = "idle" /\ Idle.key = Null
    /\ \A pc \in {"refused", "failed", "lost"} :
          Without(pc) \in CallState /\ Without(pc).pc = pc /\ Without(pc).esc = Null
  BY DEF Idle, Without, CallState, Undecided

LEMMA ArriveInv ==
    ASSUME IInv, NEW c \in Calls, NEW w \in Workers, NEW e \in Escalations,
           NEW t \in Tenants, NEW h \in Human, NEW k \in Keys \cup {Null},
           Arrive(c, w, e, t, h, k)
    PROVE  IInv'
  <1>1. /\ UNCHANGED <<row, now, pass, audited, cache>>
        /\ call[c].pc = "idle"
        /\ audited \subseteq Calls
        /\ call \in [Calls -> CallState]
        /\ cache \in [Keys -> Calls \cup {Decision, Null}]
    BY DEF Arrive, IInv, TypeOK
  <1>2. CASE /\ k # Null /\ cache[k] # Null
             /\ call' = [call EXCEPT ![c].pc = "replayed", ![c].key = k, ![c].got = cache[k]]
    <2> DEFINE m == [call[c] EXCEPT !.pc = "replayed", !.key = k, !.got = cache[k]]
    <2>1. call' = [call EXCEPT ![c] = m] /\ call'[c] = m
      BY <1>1, <1>2
    <2>2. m \in CallState /\ m.pc = "replayed" /\ m.key = k /\ m.got = cache[k]
      BY <1>1, <1>2 DEF CallState
    <2> HIDE DEF m
    <2>3. Given(call, m.got, m.key)
      BY <1>2, <2>2 DEF IInv, CacheInv
    <2>4. CallOK(c)'
      BY <2>1, <2>2 DEF CallOK, Undecided
    <2> QED
      BY <1>1, <2>1, <2>2, <2>3, <2>4, OneCallMoves DEF Over
  <1>3. CASE call' = [call EXCEPT ![c] = [Idle EXCEPT
                        !.pc = "reading", !.worker = w, !.key = k, !.esc = e, !.tenant = t,
                        !.status = h]]
    <2> DEFINE m == [Idle EXCEPT !.pc = "reading", !.worker = w, !.key = k, !.esc = e,
                                 !.tenant = t, !.status = h]
    <2>1. call' = [call EXCEPT ![c] = m] /\ call'[c] = m
      BY <1>1, <1>3
    <2>2. m \in CallState /\ m.pc = "reading" /\ m.esc = e /\ m.status = h
      BY DEF CallState, Undecided, Idle
    <2> HIDE DEF m
    <2>3. CallOK(c)'
      BY <2>1, <2>2 DEF CallOK, Undecided
    <2> QED
      BY <1>1, <2>1, <2>2, <2>3, OneCallMoves DEF Over
  <1> QED
    BY <1>2, <1>3 DEF Arrive

\* A call that has written nothing ends without an effect.
LEMMA UndecidedEnds ==
    ASSUME IInv, NEW c \in Calls, NEW pc \in {"refused", "failed"},
           call[c].pc \in Undecided, call' = [call EXCEPT ![c] = Without(pc)],
           UNCHANGED <<row, now, pass, audited, cache>>
    PROVE  IInv'
  <1>1. call \in [Calls -> CallState] /\ audited \subseteq Calls
        /\ cache \in [Keys -> Calls \cup {Decision, Null}]
    BY DEF IInv, TypeOK
  <1>2. call'[c] = Without(pc)
    BY <1>1
  <1>3. Without(pc) \in CallState /\ Without(pc).pc = pc /\ Without(pc).esc \notin Escalations
    BY FreshState, NullOutside
  <1>4. CallOK(c)'
    BY <1>2, <1>3 DEF CallOK, Undecided
  <1>5. call[c].pc \notin Over
    BY DEF Undecided, Over
  <1>6. call[c].pc # "answered"
    BY DEF Undecided
  <1> QED
    BY <1>1, <1>2, <1>3, <1>4, <1>5, <1>6, OneCallMoves

LEMMA ReadInv ==
    ASSUME IInv, NEW c \in Calls, Read(c)
    PROVE  IInv'
  <1>1. /\ UNCHANGED <<row, now, pass, audited, cache>>
        /\ call[c].pc = "reading"
        /\ audited \subseteq Calls
        /\ call \in [Calls -> CallState]
        /\ cache \in [Keys -> Calls \cup {Decision, Null}]
    BY DEF Read, IInv, TypeOK
  <1>2. CallOK(c)
    BY DEF IInv, CallInv
  <1>3. CASE Pending(call[c].esc) /\ row[call[c].esc].tenant = call[c].tenant
    <2> DEFINE k == [call[c] EXCEPT !.pc = "read", !.tenant = Null]
    <2>1. call' = [call EXCEPT ![c] = k] /\ call'[c] = k
      BY <1>1, <1>3 DEF Read
    <2>2. k \in CallState /\ k.pc = "read" /\ k.esc = call[c].esc /\ k.status = call[c].status
      BY <1>1 DEF CallState, Undecided
    <2>3. row[call[c].esc] # Null
      BY <1>3 DEF Pending
    <2> HIDE DEF k
    <2>4. CallOK(c)'
      BY <1>1, <1>2, <2>1, <2>2, <2>3 DEF CallOK, Undecided
    <2> QED
      BY <1>1, <2>1, <2>2, <2>4, OneCallMoves DEF Over
  <1>4. CASE ~(Pending(call[c].esc) /\ row[call[c].esc].tenant = call[c].tenant)
    <2>1. call' = [call EXCEPT ![c] = Without("refused")]
      BY <1>1, <1>4 DEF Read
    <2> QED
      BY <1>1, <2>1, UndecidedEnds DEF Undecided
  <1> QED
    BY <1>3, <1>4

LEMMA DecideInv ==
    ASSUME IInv, NEW c \in Calls, Decide(c)
    PROVE  IInv'
  <1>1. /\ UNCHANGED <<row, now, pass, audited, cache>>
        /\ call[c].pc = "read"
        /\ audited \subseteq Calls
        /\ cache \in [Keys -> Calls \cup {Decision, Null}]
    BY DEF Decide, IInv, TypeOK
  <1>2. call \in [Calls -> CallState] /\ now \in 0..MaxTime
    BY DEF IInv, TypeOK
  <1>3. /\ call[c].esc \in Escalations
        /\ row[call[c].esc] # Null
        /\ call[c].status \in Human
    BY <1>1 DEF IInv, CallInv, CallOK, Undecided
  <1>4. row[call[c].esc].expiresAt \in 0..MaxTime
    BY <1>3 DEF IInv, TypeOK, Row
  <1>5. CASE now > row[call[c].esc].expiresAt
    <2> DEFINE k == [call[c] EXCEPT !.pc = "writing", !.at = now, !.status = "expired"]
    <2>1. call' = [call EXCEPT ![c] = k] /\ call'[c] = k
      BY <1>2, <1>5 DEF Decide
    <2>2. /\ k \in CallState
          /\ k.pc = "writing" /\ k.at = now /\ k.status = "expired" /\ k.esc = call[c].esc
      BY <1>2 DEF CallState, Undecided
    <2> HIDE DEF k
    <2>3. now >= row[call[c].esc].expiresAt
      BY <1>2, <1>4, <1>5, MaxTimeNat
    <2>4. CallOK(c)'
      BY <1>1, <1>2, <1>3, <2>1, <2>2, <2>3 DEF CallOK, Undecided
    <2> QED
      BY <1>1, <2>1, <2>2, <2>4, OneCallMoves DEF Over
  <1>6. CASE ~(now > row[call[c].esc].expiresAt)
    <2> DEFINE k == [call[c] EXCEPT !.pc = "writing", !.at = now]
    <2>1. call' = [call EXCEPT ![c] = k] /\ call'[c] = k
      BY <1>2, <1>6 DEF Decide
    <2>2. /\ k \in CallState
          /\ k.pc = "writing" /\ k.at = now /\ k.status = call[c].status /\ k.esc = call[c].esc
      BY <1>2 DEF CallState, Undecided
    <2> HIDE DEF k
    <2>3. now <= row[call[c].esc].expiresAt
      BY <1>2, <1>4, <1>6, MaxTimeNat
    <2>4. CallOK(c)'
      BY <1>1, <1>2, <1>3, <2>1, <2>2, <2>3 DEF CallOK, Undecided
    <2> QED
      BY <1>1, <2>1, <2>2, <2>4, OneCallMoves DEF Over
  <1> QED
    BY <1>5, <1>6

\* A call that is over keeps what it did.
LEMMA EndedState ==
    ASSUME IInv, NEW c \in Calls, NEW pc \in {"answered", "failed", "lost"}
    PROVE  /\ Ended(c, pc) \in CallState
           /\ Ended(c, pc).pc = pc
           /\ Ended(c, pc).esc = call[c].esc
           /\ Ended(c, pc).status = call[c].status
           /\ pc = "answered" => Ended(c, pc).key = call[c].key
  <1> DEFINE key == IF pc = "answered" THEN call[c].key ELSE Null
  <1>1. call[c] \in CallState
    BY DEF IInv, TypeOK
  <1>2. key \in Keys \cup {Null}
    BY <1>1 DEF CallState
  <1>3. Ended(c, pc) = [call[c] EXCEPT !.pc = pc, !.worker = Null, !.at = Null, !.key = key]
    BY <1>1 DEF Ended, CallState
  <1> HIDE DEF key
  <1>4. /\ Ended(c, pc) \in CallState
        /\ Ended(c, pc).pc = pc
        /\ Ended(c, pc).esc = call[c].esc
        /\ Ended(c, pc).status = call[c].status
        /\ Ended(c, pc).key = key
    BY <1>1, <1>2, <1>3 DEF CallState
  <1> QED
    BY <1>4 DEF key

LEMMA AnswerInv ==
    ASSUME IInv, NEW c \in Calls, Answer(c)
    PROVE  IInv'
  <1>1. /\ UNCHANGED <<row, now, pass, cache>>
        /\ call[c].pc = "committed"
        /\ audited' = audited \cup {c}
        /\ audited' \subseteq Calls
        /\ call \in [Calls -> CallState]
        /\ cache \in [Keys -> Calls \cup {Decision, Null}]
    BY DEF Answer, IInv, TypeOK
  <1>2. call' = [call EXCEPT ![c] = AfterAudit(c)] /\ call'[c] = AfterAudit(c)
    BY <1>1 DEF Answer
  <1>3. CallOK(c)
    BY DEF IInv, CallInv
  <1>4. /\ AfterAudit(c) \in CallState
        /\ AfterAudit(c).pc \in {"answered", "caching"}
        /\ AfterAudit(c).pc = "caching" => AfterAudit(c).key \in Keys
        /\ AfterAudit(c).esc = call[c].esc
        /\ AfterAudit(c).status = call[c].status
    <2>1. CASE call[c].key = Null
      BY <2>1, EndedState DEF AfterAudit
    <2>2. CASE call[c].key # Null
      BY <1>1, <2>2 DEF AfterAudit, CallState
    <2> QED
      BY <2>1, <2>2
  <1>5. CallOK(c)'
    BY <1>1, <1>2, <1>3, <1>4 DEF CallOK, Undecided
  <1> QED
    BY <1>1, <1>2, <1>4, <1>5, OneCallMoves DEF Over

LEMMA StoreInv ==
    ASSUME IInv, NEW c \in Calls, Store(c)
    PROVE  IInv'
  <1>1. /\ UNCHANGED <<row, now, pass, audited>>
        /\ call[c].pc = "caching"
        /\ audited \subseteq Calls
        /\ call \in [Calls -> CallState]
        /\ cache \in [Keys -> Calls \cup {Decision, Null}]
    BY DEF Store, IInv, TypeOK
  <1>2. call' = [call EXCEPT ![c] = Ended(c, "answered")] /\ call'[c] = Ended(c, "answered")
    BY <1>1 DEF Store
  <1>3. CallOK(c) /\ call[c].key \in Keys
    BY <1>1 DEF IInv, CallInv, CallOK
  <1>4. cache' = [cache EXCEPT ![call[c].key] = c] \/ cache' = cache
    BY DEF Store
  <1>5. cache' \in [Keys -> Calls \cup {Decision, Null}]
    BY <1>1, <1>4
  <1>6. Given(call', c, call[c].key)
    BY <1>2, EndedState DEF Given
  <1>7. ASSUME NEW k \in Keys
        PROVE  cache'[k] \in {cache[k], Decision, Null} \/ (cache'[k] = c /\ Given(call', c, k))
    <2>1. CASE k = call[c].key /\ cache' # cache
      <3>1. cache'[k] = c
        BY <1>1, <1>4, <2>1
      <3>2. Given(call', c, k)
        BY <1>2, <2>1, EndedState DEF Given
      <3> QED
        BY <3>1, <3>2
    <2>2. CASE ~(k = call[c].key /\ cache' # cache)
      BY <1>1, <1>4, <2>2
    <2> QED
      BY <2>1, <2>2
  <1>8. CallOK(c)'
    BY <1>1, <1>2, <1>3, EndedState DEF CallOK, Undecided
  <1> QED
    BY <1>1, <1>2, <1>5, <1>7, <1>8, EndedState, OneCallMoves DEF Over

LEMMA CallFailInv ==
    ASSUME IInv, NEW c \in Calls, CallFail(c)
    PROVE  IInv'
  <1>1. /\ UNCHANGED <<row, now, pass, audited, cache>>
        /\ audited \subseteq Calls
        /\ call \in [Calls -> CallState]
        /\ cache \in [Keys -> Calls \cup {Decision, Null}]
    BY DEF CallFail, IInv, TypeOK
  <1>2. CASE call[c].pc \in Undecided /\ call' = [call EXCEPT ![c] = Without("failed")]
    BY <1>1, <1>2, UndecidedEnds
  <1>3. CASE call[c].pc = "caching" /\ call' = [call EXCEPT ![c] = Ended(c, "failed")]
    <2>1. call'[c] = Ended(c, "failed")
      BY <1>1, <1>3
    <2>2. c \in audited
      BY <1>3 DEF IInv, CallInv, CallOK
    <2>3. CallOK(c)'
      BY <1>1, <2>1, <2>2, EndedState DEF CallOK, Undecided
    <2> QED
      BY <1>1, <1>3, <2>1, <2>3, EndedState, OneCallMoves DEF Over
  <1> QED
    BY <1>2, <1>3 DEF CallFail

LEMMA CacheInvStep ==
    ASSUME IInv, NEW k \in Keys, StoreDecision(k) \/ Expire(k)
    PROVE  IInv'
  <1>1. /\ UNCHANGED <<row, now, call, pass, audited>>
        /\ \E a \in {Decision, Null} : cache' = [cache EXCEPT ![k] = a]
        /\ cache \in [Keys -> Calls \cup {Decision, Null}]
    BY DEF StoreDecision, Expire, IInv, TypeOK
  <1>2. /\ cache' \in [Keys -> Calls \cup {Decision, Null}]
        /\ \A j \in Keys : cache'[j] \in {cache[j], Decision, Null}
    BY <1>1
  <1> QED
    BY <1>1, <1>2 DEF IInv, TypeOK, CallInv, CallOK, PassInv, ResolverInv, CacheInv, Given,
                      ColumnsAgree, DeadlineRespected

\* A new value of a row that keeps its deadline, and its being closed, keeps what
\* calls and loops know.
LEMMA RowsMove ==
    ASSUME IInv, UNCHANGED <<now, audited>>,
           \A e \in Escalations : row[e] # Null =>
               /\ row'[e] # Null /\ row'[e].expiresAt = row[e].expiresAt
               /\ row'[e].status = "pending" => row[e].status = "pending"
    PROVE  /\ PassInv /\ UNCHANGED pass => PassInv'
           /\ \A c \in Calls : call'[c] = call[c] => CallOK(c)'
  <1>1. PassInv /\ UNCHANGED pass => PassInv'
    BY DEF IInv, TypeOK, PassInv, PassState
  <1>2. ASSUME NEW c \in Calls, call'[c] = call[c] PROVE CallOK(c)'
    BY <1>2 DEF IInv, CallInv, CallOK, Undecided
  <1> QED
    BY <1>1, <1>2

LEMMA CommitInv ==
    ASSUME IInv, NEW c \in Calls, Commit(c)
    PROVE  IInv'
  <1> DEFINE f == call[c].esc
             new == Resolved(row[f], call[c].status, call[c].at, By(c))
  <1>1. /\ call[c].pc = "writing"
        /\ UNCHANGED <<now, pass, audited, cache>>
        /\ call \in [Calls -> CallState]
        /\ row \in [Escalations -> Row \cup {Null}]
    BY DEF Commit, IInv, TypeOK
  <1>2. /\ f \in Escalations /\ row[f] # Null /\ row[f] \in Row
        /\ call[c].at \in 0..MaxTime
        /\ \/ call[c].status \in Human /\ call[c].at <= row[f].expiresAt
           \/ call[c].status = "expired" /\ call[c].at >= row[f].expiresAt
    BY <1>1 DEF IInv, CallInv, CallOK, Undecided
  <1>3. By(c) = IF call[c].status = "expired" THEN "system_expiry" ELSE c
    BY DEF By
  <1>4. call[c].status = "expired" => call[c].status \notin Human
    BY DEF Human
  <1>5. /\ new \in Row /\ new # Null
        /\ new.expiresAt = row[f].expiresAt
        /\ new.status = call[c].status /\ new.status # "pending"
        /\ new.resolvedAt = call[c].at
        /\ new.resolvedBy = By(c)
    <2>1. call[c].status \in {"expired"} \cup Human \cup OnExpiry
      BY <1>2
    <2>2. By(c) \in Calls \cup {"system_expiry"}
      BY <1>3
    <2>3. new \in Row
      BY <1>2, <2>1, <2>2 DEF Resolved, Row
    <2> QED
      BY <1>2, <2>1, <2>2, <2>3, NullIsNoRow DEF Resolved, Row, Human
  <1>6. row' = [row EXCEPT ![f] = new] /\ \A e \in Escalations : row'[e] = IF e = f THEN new ELSE row[e]
    BY <1>1 DEF Commit
  <1> DEFINE k == IF call[c].status = "expired" THEN Without("refused")
                  ELSE [call[c] EXCEPT !.pc = "committed"]
  <1>7. call' = [call EXCEPT ![c] = k] /\ call'[c] = k
    BY <1>1 DEF Commit
  <1>8. [call[c] EXCEPT !.pc = "committed"] \in CallState
    BY <1>1 DEF CallState
  <1>9. /\ k \in CallState
        /\ k.pc = IF call[c].status = "expired" THEN "refused" ELSE "committed"
        /\ call[c].status # "expired" => k.esc = f /\ k.status = call[c].status
    <2>1. CASE call[c].status = "expired"
      BY <2>1, FreshState
    <2>2. CASE call[c].status # "expired"
      BY <1>1, <1>8, <2>2 DEF CallState
    <2> QED
      BY <2>1, <2>2
  <1> HIDE DEF k, new
  <1>10. TypeOK'
    BY <1>1, <1>5, <1>6, <1>7, <1>9 DEF IInv, TypeOK
  <1>11. PassInv' /\ \A d \in Calls : d # c => CallOK(d)'
    BY <1>1, <1>5, <1>6, <1>7, RowsMove DEF IInv
  <1>12. CallOK(c)'
    BY <1>2, <1>5, <1>6, <1>7, <1>9 DEF CallOK, Undecided
  <1>13. CallInv'
    BY <1>11, <1>12 DEF CallInv
  <1>14. \A d \in Calls : call[d].pc \in Over => d # c /\ call'[d] = call[d]
    BY <1>1, <1>7 DEF Over
  <1>15. ResolverInv' /\ ColumnsAgree'
    <2>1. ASSUME NEW e \in Escalations, e # f, row'[e] # Null
          PROVE  row'[e] = row[e] /\ (row[e].resolvedBy \in Calls =>
                    call'[row[e].resolvedBy] = call[row[e].resolvedBy])
      BY <1>6, <1>14, <2>1 DEF IInv, ResolverInv
    <2>2. row'[f] = new
      BY <1>2, <1>6
    <2>3. new.resolvedBy \in Calls => new.resolvedBy = c /\ call[c].status \in Human
      BY <1>2, <1>3, <1>5, SystemIsNoCall
    <2>4. ResolverInv'
      BY <1>4, <1>7, <1>9, <2>1, <2>2, <2>3 DEF IInv, ResolverInv, Over
    <2>5. ColumnsAgree'
      BY <1>2, <1>3, <1>4, <1>5, <1>7, <1>9, <2>1, <2>2, <2>3 DEF IInv, ColumnsAgree
    <2> QED
      BY <2>4, <2>5
  <1>16. DeadlineRespected'
    BY <1>2, <1>3, <1>4, <1>5, <1>6, SystemIsNoCall DEF IInv, DeadlineRespected
  <1>17. CacheInv'
    <2>1. \A d \in Calls : call[d].pc \in {"answered", "replayed"} => call'[d] = call[d]
      BY <1>1, <1>7
    <2>2. \A d \in Calls : call'[d].pc = "replayed" => call'[d] = call[d]
      BY <1>1, <1>7, <1>9
    <2>3. \A g, k0 : Given(call, g, k0) => Given(call', g, k0)
      BY <2>1 DEF Given
    <2>4. ASSUME NEW d \in Calls, call'[d].pc = "replayed"
          PROVE  Given(call', call[d].got, call[d].key) /\ call'[d] = call[d]
      <3>1. Given(call, call[d].got, call[d].key) /\ call'[d] = call[d]
        BY <2>2, <2>4 DEF IInv, CacheInv
      <3> QED
        BY <2>1, <3>1 DEF Given
    <2>5. ASSUME NEW k0 \in Keys, cache'[k0] # Null PROVE Given(call', cache'[k0], k0)
      <3>1. cache' = cache /\ Given(call, cache[k0], k0)
        BY <1>1, <2>5 DEF IInv, CacheInv
      <3>2. Given(call', cache[k0], k0)
        BY <2>3, <3>1
      <3> QED
        BY <3>1, <3>2 DEF Given
    <2>6. ASSUME NEW d \in Calls, call'[d].pc = "replayed"
          PROVE  Given(call', call'[d].got, call'[d].key)
      BY <2>4, <2>6 DEF Given
    <2> QED
      BY <2>5, <2>6 DEF CacheInv, Given
  <1> QED
    BY <1>10, <1>11, <1>13, <1>15, <1>16, <1>17 DEF IInv

LEMMA ExpiryInv ==
    ASSUME IInv, NEW w \in Workers, ExpiryScan(w) \/ ExpiryCommit(w) \/ ExpiryFail(w)
    PROVE  IInv'
  <1>0. /\ UNCHANGED <<now, call, audited, cache>>
        /\ row \in [Escalations -> Row \cup {Null}]
        /\ pass \in [Workers -> PassState]
        /\ now \in 0..MaxTime
    BY DEF ExpiryScan, ExpiryCommit, ExpiryFail, IInv, TypeOK
  <1>1. Sleeping \in PassState /\ Sleeping.pc = "sleeping"
    BY DEF Sleeping, PassState
  <1>2. CASE ExpiryScan(w)
    <2> DEFINE due == {e \in Escalations : Pending(e) /\ row[e].expiresAt <= now}
               k == [pc |-> "writing", at |-> now, batch |-> due]
    <2>1. pass' = [pass EXCEPT ![w] = k] /\ UNCHANGED row
      BY <1>2 DEF ExpiryScan
    <2>2. k \in PassState /\ k.at = now /\ k.batch = due
      BY <1>0 DEF PassState
    <2>3. \A e \in due : row[e] # Null /\ row[e].expiresAt <= now
      BY DEF Pending
    <2> HIDE DEF k, due
    <2>4. PassInv'
      BY <1>0, <2>1, <2>2, <2>3 DEF IInv, PassInv
    <2> QED
      BY <1>0, <2>1, <2>2, <2>4
      DEF IInv, TypeOK, CallInv, CallOK, ResolverInv, CacheInv, Given, ColumnsAgree,
          DeadlineRespected
  <1>3. CASE ExpiryFail(w)
    <2>1. pass' = [pass EXCEPT ![w] = Sleeping] /\ UNCHANGED row
      BY <1>3 DEF ExpiryFail
    <2>2. PassInv'
      BY <1>0, <1>1, <2>1 DEF IInv, PassInv
    <2> QED
      BY <1>0, <1>1, <2>1, <2>2
      DEF IInv, TypeOK, CallInv, CallOK, ResolverInv, CacheInv, Given, ColumnsAgree,
          DeadlineRespected
  <1>4. CASE ExpiryCommit(w)
    <2> DEFINE at == pass[w].at
               new(e) == Resolved(row[e], row[e].onExpiry, at, "system_expiry")
    <2>1. /\ pass[w].pc = "writing"
          /\ pass' = [pass EXCEPT ![w] = Sleeping]
          /\ row' = [e \in Escalations |-> IF e \in pass[w].batch THEN new(e) ELSE row[e]]
      BY <1>4 DEF ExpiryCommit
    <2>2. /\ at \in 0..MaxTime
          /\ pass[w].batch \subseteq Escalations
          /\ \A e \in pass[w].batch : row[e] # Null /\ row[e].expiresAt <= at
      BY <1>0, <2>1 DEF IInv, PassInv, PassState
    <2>3. ASSUME NEW e \in pass[w].batch
          PROVE  /\ new(e) \in Row /\ new(e) # Null
                 /\ new(e).expiresAt = row[e].expiresAt
                 /\ new(e).onExpiry = row[e].onExpiry
                 /\ new(e).status = row[e].onExpiry
                 /\ new(e).status # "pending"
                 /\ new(e).resolvedAt = at
                 /\ new(e).resolvedBy = "system_expiry"
      <3>1. row[e] \in Row
        BY <1>0, <2>2
      <3>2. row[e].onExpiry \in {"expired"} \cup Human \cup OnExpiry
        BY <3>1 DEF Row
      <3>3. new(e) \in Row
        BY <2>2, <3>1, <3>2 DEF Resolved, Row
      <3> QED
        BY <2>2, <3>1, <3>2, <3>3, NullIsNoRow DEF Resolved, Row, OnExpiry
    <2> HIDE DEF new, at
    <2>4. \A e \in Escalations : row'[e] = IF e \in pass[w].batch THEN new(e) ELSE row[e]
      BY <2>1
    <2>5. \A e \in Escalations : row[e] # Null =>
              /\ row'[e] # Null /\ row'[e].expiresAt = row[e].expiresAt
              /\ row'[e].status = "pending" => row[e].status = "pending"
      BY <2>2, <2>3, <2>4
    <2>6. TypeOK'
      BY <1>0, <1>1, <2>1, <2>2, <2>3, <2>4 DEF IInv, TypeOK
    <2>7. CallInv'
      BY <1>0, <2>5, RowsMove DEF CallInv
    <2>8. PassInv'
      BY <1>0, <1>1, <2>1, <2>5 DEF IInv, PassInv, PassState
    <2>9. ResolverInv' /\ ColumnsAgree'
      BY <1>0, <2>2, <2>3, <2>4, SystemIsNoCall DEF IInv, ResolverInv, ColumnsAgree
    <2>10. DeadlineRespected'
      BY <2>2, <2>3, <2>4, SystemIsNoCall DEF IInv, DeadlineRespected
    <2>11. CacheInv'
      BY <1>0 DEF IInv, CacheInv, Given
    <2> QED
      BY <2>6, <2>7, <2>8, <2>9, <2>10, <2>11 DEF IInv
  <1> QED
    BY <1>2, <1>3, <1>4

LEMMA DieInv ==
    ASSUME IInv, NEW w \in Workers, Die(w)
    PROVE  IInv'
  <1> DEFINE left(c) == IF call[c].pc \in Undecided THEN Without("lost") ELSE Ended(c, "lost")
  <1>1. /\ UNCHANGED <<row, now, audited, cache>>
        /\ call' = [c \in Calls |-> IF c \notin Gone(w) THEN call[c] ELSE left(c)]
        /\ pass' = [pass EXCEPT ![w] = Sleeping]
    BY DEF Die
  <1>2. call \in [Calls -> CallState] /\ pass \in [Workers -> PassState]
    BY DEF IInv, TypeOK
  <1>3. Sleeping \in PassState /\ Sleeping.pc = "sleeping"
    BY DEF Sleeping, PassState
  <1>4. \A c \in Calls :
            \/ call'[c] = call[c]
            \/ /\ call[c].pc \notin {"answered", "replayed", "failed"}
               /\ call'[c] \in CallState
               /\ call'[c].pc = "lost"
               /\ call[c].pc \in Over =>
                    call'[c].esc = call[c].esc /\ call'[c].status = call[c].status
    <2>1. ASSUME NEW c \in Gone(w)
          PROVE  /\ call[c].pc \notin {"answered", "replayed", "failed"}
                 /\ left(c) \in CallState
                 /\ left(c).pc = "lost"
                 /\ call[c].pc \in Over =>
                      left(c).esc = call[c].esc /\ left(c).status = call[c].status
      <3>1. CASE call[c].pc \in Undecided
        BY <3>1, FreshState DEF Undecided, Over
      <3>2. CASE call[c].pc \notin Undecided
        BY <3>2, EndedState DEF Gone
      <3> QED
        BY <3>1, <3>2
    <2> QED
      BY <1>1, <2>1
  <1>5. call' \in [Calls -> CallState]
    BY <1>1, <1>2, <1>4
  <1>6. TypeOK'
    BY <1>1, <1>2, <1>3, <1>5 DEF IInv, TypeOK
  <1>7. CallInv'
    BY <1>1, <1>4 DEF IInv, CallInv, CallOK, Undecided
  <1>8. PassInv'
    BY <1>1, <1>2, <1>3 DEF IInv, PassInv
  <1>9. ResolverInv' /\ ColumnsAgree'
    BY <1>1, <1>4 DEF IInv, ResolverInv, ColumnsAgree, Over
  <1>10. DeadlineRespected'
    BY <1>1 DEF IInv, DeadlineRespected
  <1>11. CacheInv'
    BY <1>1, <1>4 DEF IInv, CacheInv, Given
  <1> QED
    BY <1>6, <1>7, <1>8, <1>9, <1>10, <1>11 DEF IInv

LEMMA NextInv == IInv /\ [Next]_vars => IInv'
  <1> SUFFICES ASSUME IInv, [Next]_vars PROVE IInv'
    OBVIOUS
  <1>1. CASE Tick
    BY <1>1, MaxTimeNat
    DEF Tick, IInv, TypeOK, CallInv, CallOK, PassInv, ResolverInv, CacheInv, Given,
        ColumnsAgree, DeadlineRespected
  <1>2. CASE UNCHANGED vars
    BY <1>2
    DEF vars, IInv, TypeOK, CallInv, CallOK, PassInv, ResolverInv, CacheInv, Given,
        ColumnsAgree, DeadlineRespected
  <1> QED
    BY <1>1, <1>2, CreateInv, ArriveInv, ReadInv, DecideInv, CommitInv, AnswerInv, StoreInv,
       CallFailInv, CacheInvStep, ExpiryInv, DieInv
    DEF Next, Crash

LEMMA Invariant == Spec => []IInv
  BY InitInv, NextInv, PTL DEF Spec

\* A row that exists keeps what no resolution may change, in every step.
LEMMA RowKept == IInv /\ [Next]_vars => KeepsResolved
  <1> DEFINE Kept(e) == /\ row'[e] # Null
                        /\ row'[e].status = "pending" => row[e].status = "pending"
                        /\ UNCHANGED <<row[e].tenant, row[e].expiresAt, row[e].onExpiry>>
  <1>1. ASSUME IInv, [Next]_vars, NEW e \in Escalations, row[e] # Null
        PROVE  Kept(e)
    <2>0. row \in [Escalations -> Row \cup {Null}] /\ row[e] \in Row
      BY <1>1 DEF IInv, TypeOK
    <2>1. CASE UNCHANGED row
      BY <1>1, <2>1
    <2>2. ASSUME NEW f \in Escalations, NEW t \in Tenants, NEW m \in Lifetimes,
                 NEW x \in OnExpiry, Create(f, t, m, x)
          PROVE  Kept(e)
      <3>1. row'[e] = row[e]
        BY <1>1, <2>0, <2>2 DEF Create
      <3> QED
        BY <1>1, <3>1
    <2>3. ASSUME NEW c \in Calls, Commit(c)
          PROVE  Kept(e)
      <3> DEFINE new == Resolved(row[e], call[c].status, call[c].at, By(c))
      <3>1. row'[e] = IF call[c].esc = e THEN new ELSE row[e]
        BY <2>0, <2>3 DEF Commit
      <3>2. /\ call[c].status \in Human \cup {"expired"}
            /\ call[c].at \in 0..MaxTime
            /\ By(c) \in Calls \cup {"system_expiry"}
        BY <1>1, <2>3 DEF Commit, IInv, CallInv, CallOK, By, Undecided
      <3>3. new \in Row
        BY <2>0, <3>2 DEF Resolved, Row
      <3>4. /\ new # Null
            /\ new.status # "pending"
            /\ new.tenant = row[e].tenant
            /\ new.expiresAt = row[e].expiresAt
            /\ new.onExpiry = row[e].onExpiry
        BY <2>0, <3>2, <3>3, NullIsNoRow DEF Resolved, Row, Human
      <3> HIDE DEF new
      <3> QED
        BY <1>1, <3>1, <3>4
    <2>4. ASSUME NEW w \in Workers, ExpiryCommit(w)
          PROVE  Kept(e)
      <3> DEFINE new == Resolved(row[e], row[e].onExpiry, pass[w].at, "system_expiry")
      <3>1. row'[e] = IF e \in pass[w].batch THEN new ELSE row[e]
        BY <2>4 DEF ExpiryCommit
      <3>2. pass[w].at \in 0..MaxTime
        BY <1>1, <2>4 DEF ExpiryCommit, IInv, PassInv
      <3>3. new \in Row
        BY <2>0, <3>2 DEF Resolved, Row
      <3>4. /\ new # Null
            /\ new.status # "pending"
            /\ new.tenant = row[e].tenant
            /\ new.expiresAt = row[e].expiresAt
            /\ new.onExpiry = row[e].onExpiry
        BY <2>0, <3>2, <3>3, NullIsNoRow DEF Resolved, Row, OnExpiry
      <3> HIDE DEF new
      <3> QED
        BY <1>1, <3>1, <3>4
    <2> QED
      BY <1>1, <2>1, <2>2, <2>3, <2>4
      DEF Next, vars, Arrive, Read, Decide, Answer, Store, CallFail, StoreDecision, Expire, ExpiryScan,
          ExpiryFail, Crash, Die, Tick
  <1> QED
    BY <1>1 DEF KeepsResolved

Settled == {"caching", "answered", "failed", "lost"}

\* Once its audit entry is scheduled, or it is over, a call keeps what it did.
LEMMA SettledKept ==
    ASSUME IInv, [Next]_vars, NEW c \in Calls, call[c].pc \in Settled
    PROVE  /\ call'[c].pc \in Settled
           /\ call'[c].esc = call[c].esc
           /\ call'[c].status = call[c].status
  <1>0. call \in [Calls -> CallState]
    BY DEF IInv, TypeOK
  <1>1. CASE UNCHANGED call
    BY <1>1
  <1>2. ASSUME NEW d \in Calls, call' = [call EXCEPT ![d] = call'[d]], d # c
        PROVE  call'[c] = call[c]
    BY <1>0, <1>2
  <1>3. ASSUME NEW d \in Calls, Read(d) \/ Decide(d) \/ Commit(d) \/ Answer(d)
        PROVE  call'[c] = call[c]
    BY <1>0, <1>3 DEF Read, Decide, Commit, Answer, Settled
  <1>4. ASSUME NEW d \in Calls, NEW w \in Workers, NEW e \in Escalations, NEW t \in Tenants,
               NEW h \in Human, NEW k \in Keys \cup {Null}, Arrive(d, w, e, t, h, k)
        PROVE  call'[c] = call[c]
    BY <1>0, <1>4 DEF Arrive, Settled
  <1>5. ASSUME NEW d \in Calls, Store(d)
        PROVE  call'[c] = call[c] \/ call'[c] = Ended(c, "answered")
    BY <1>0, <1>5 DEF Store
  <1>6. ASSUME NEW d \in Calls, CallFail(d)
        PROVE  call'[c] = call[c] \/ call'[c] = Ended(c, "failed")
    BY <1>0, <1>6 DEF CallFail, Undecided, Settled
  <1>7. ASSUME NEW w \in Workers, Die(w)
        PROVE  call'[c] = call[c] \/ call'[c] = Ended(c, "lost")
    BY <1>0, <1>7 DEF Die, Gone, Undecided, Settled
  <1>8. \/ call'[c] = call[c]
        \/ \E pc \in {"answered", "failed", "lost"} : call'[c] = Ended(c, pc)
    BY <1>1, <1>3, <1>4, <1>5, <1>6, <1>7
    DEF Next, vars, Create, StoreDecision, Expire, ExpiryScan, ExpiryCommit, ExpiryFail, Crash, Tick
  <1> QED
    BY <1>8, EndedState DEF Settled

----------------------------------------------------------------------------
(* When an answered resolution stands *)

\* Call c, or loop w, has read that e is pending and will write.
CallWrites(c, e) == call[c].pc \in {"read", "writing"} /\ call[c].esc = e
LoopWrites(w, e) == pass[w].pc = "writing" /\ e \in pass[w].batch

\* A call that is about to write an escalation is the only one that is, and no
\* loop is. Loops may race each other.
Alone ==
    \A e \in Escalations, c \in Calls : CallWrites(c, e) =>
        /\ \A d \in Calls : CallWrites(d, e) => d = c
        /\ \A w \in Workers : ~LoopWrites(w, e)

\* Call c has committed a human resolution, whether its caller was told or not.
HasResolved(c) == call[c].pc \in Over /\ call[c].esc # Null

\* The row of e holds the outcome that its expiry writes.
ExpiredRow(e) == row[e].resolvedBy = "system_expiry" /\ row[e].status = row[e].onExpiry

\* Then what a writer has read is still so, or another loop has written the same;
\* and so is what a call has written.
CallFresh(c) ==
    /\ call[c].pc \in {"read", "writing"} => Pending(call[c].esc)
    /\ HasResolved(c) =>
          /\ call[c].status \in Human
          /\ row[call[c].esc] # Null
          /\ row[call[c].esc].status = call[c].status
          /\ row[call[c].esc].resolvedBy = c

LoopFresh(w) ==
    pass[w].pc = "writing" => \A e \in pass[w].batch : Pending(e) \/ ExpiredRow(e)

FreshInv == (\A c \in Calls : CallFresh(c)) /\ (\A w \in Workers : LoopFresh(w))

\* One call moves, and leaves the rows alone.
LEMMA FreshCall ==
    ASSUME IInv, FreshInv, UNCHANGED <<row, pass>>, NEW c \in Calls,
           call' = [call EXCEPT ![c] = call'[c]], CallFresh(c)'
    PROVE  FreshInv'
  <1>1. \A d \in Calls : d # c => call'[d] = call[d]
    BY DEF IInv, TypeOK
  <1>2. \A d \in Calls : d # c => CallFresh(d)'
    BY <1>1 DEF FreshInv, CallFresh, HasResolved, Pending
  <1> QED
    BY <1>2 DEF FreshInv, LoopFresh, ExpiredRow, Pending

\* What a call that reads, writes or has resolved is about is an escalation.
LEMMA AboutEscalation ==
    ASSUME IInv, NEW c \in Calls, call[c].pc \in {"read", "writing"} \/ HasResolved(c)
    PROVE  call[c].esc \in Escalations
  BY DEF IInv, TypeOK, CallState, CallInv, CallOK, Undecided, HasResolved

\* A call that has resolved is not about an escalation that is pending.
LEMMA ResolvedIsClosed ==
    ASSUME FreshInv, NEW c \in Calls, HasResolved(c)
    PROVE  ~Pending(call[c].esc)
  BY DEF FreshInv, CallFresh, Pending, Human

\* A call keeps what it knows when it stays as it is and its row does.
LEMMA FreshKept ==
    ASSUME IInv, FreshInv, NEW c \in Calls, call'[c] = call[c],
           call[c].pc \in {"read", "writing"} \/ HasResolved(c) =>
             row'[call[c].esc] = row[call[c].esc]
    PROVE  CallFresh(c)'
  BY DEF FreshInv, CallFresh, HasResolved, Pending

\* A call forgets what it was about, or goes on with what it has done.
LEMMA CallEnds ==
    ASSUME FreshInv, NEW c \in Calls, UNCHANGED row,
           \/ call'[c].pc \notin {"read", "writing"} /\ call'[c].esc = Null
           \/ /\ call[c].pc \in Over /\ call'[c].pc \in Over
              /\ call'[c].esc = call[c].esc /\ call'[c].status = call[c].status
    PROVE  CallFresh(c)'
  BY DEF FreshInv, CallFresh, HasResolved, Over

\* The call that commits is the only writer, so nobody else has relied on the row.
LEMMA FreshCommit ==
    ASSUME IInv, FreshInv, Alone, NEW c \in Calls, Commit(c)
    PROVE  FreshInv'
  <1> DEFINE e == call[c].esc
  <1>1. /\ call[c].pc = "writing" /\ UNCHANGED pass
        /\ call \in [Calls -> CallState] /\ row \in [Escalations -> Row \cup {Null}]
    BY DEF Commit, IInv, TypeOK
  <1>2. e \in Escalations /\ CallWrites(c, e) /\ Pending(e)
    BY <1>1, AboutEscalation DEF CallWrites, FreshInv, CallFresh
  <1>3. \A f \in Escalations : f # e => row'[f] = row[f]
    BY <1>1 DEF Commit
  <1>4. \A d \in Calls : d # c => call'[d] = call[d]
    BY <1>1 DEF Commit
  <1>5. ASSUME NEW d \in Calls, d # c PROVE CallFresh(d)'
    <2>1. ASSUME call[d].pc \in {"read", "writing"} \/ HasResolved(d)
          PROVE  row'[call[d].esc] = row[call[d].esc]
      <3>1. call[d].esc \in Escalations
        BY <2>1, AboutEscalation
      <3>2. call[d].esc # e
        BY <1>2, <1>5, <2>1, <3>1, ResolvedIsClosed DEF Alone, CallWrites
      <3> QED
        BY <1>3, <3>1, <3>2
    <2> QED
      BY <1>4, <1>5, <2>1, FreshKept
  <1>6. CallFresh(c)'
    <2>1. CASE call[c].status = "expired"
      <3>1. call'[c].pc = "refused"
        BY <1>1, <2>1, FreshState DEF Commit
      <3> QED
        BY <3>1 DEF CallFresh, HasResolved, Over
    <2>2. CASE call[c].status # "expired"
      <3>1. call'[c] = [call[c] EXCEPT !.pc = "committed"]
        BY <1>1, <2>2 DEF Commit
      <3>2. call'[c].pc = "committed" /\ call'[c].esc = e /\ call'[c].status = call[c].status
        BY <1>1, <3>1 DEF CallState
      <3>3. row'[e] = Resolved(row[e], call[c].status, call[c].at, c)
        BY <1>1, <1>2, <2>2 DEF Commit, By
      <3>4. row[e] \in Row /\ call[c].status \in Human /\ call[c].at \in 0..MaxTime
        BY <1>1, <1>2, <2>2 DEF Pending, IInv, CallInv, CallOK
      <3>5. /\ row'[e] \in Row
            /\ row'[e].status = call[c].status /\ row'[e].resolvedBy = c
        BY <3>3, <3>4 DEF Resolved, Row
      <3> QED
        BY <3>2, <3>4, <3>5, NullIsNoRow DEF CallFresh
    <2> QED
      BY <2>1, <2>2
  <1>7. ASSUME NEW w \in Workers PROVE LoopFresh(w)'
    <2>1. pass[w].pc = "writing" => e \notin pass[w].batch /\ pass[w].batch \subseteq Escalations
      BY <1>2 DEF Alone, LoopWrites, IInv, TypeOK, PassState
    <2> QED
      BY <1>1, <1>3, <2>1 DEF FreshInv, LoopFresh, ExpiredRow, Pending
  <1> QED
    BY <1>5, <1>6, <1>7 DEF FreshInv

\* A batch holds no row that a call has resolved or is about to.
LEMMA FreshExpiry ==
    ASSUME IInv, FreshInv, Alone, NEW w \in Workers, ExpiryCommit(w)
    PROVE  FreshInv'
  <1>1. /\ pass[w].pc = "writing" /\ UNCHANGED call
        /\ pass' = [pass EXCEPT ![w] = Sleeping]
        /\ pass \in [Workers -> PassState] /\ row \in [Escalations -> Row \cup {Null}]
    BY DEF ExpiryCommit, IInv, TypeOK
  <1> DEFINE batch == pass[w].batch
  <1>2. /\ batch \subseteq Escalations
        /\ \A e \in Escalations : e \notin batch => row'[e] = row[e]
        /\ \A e \in batch : row'[e] = Resolved(row[e], row[e].onExpiry, pass[w].at, "system_expiry")
    BY <1>1 DEF ExpiryCommit, PassState
  <1>3. \A e \in batch : row[e] \in Row
    BY <1>1, <1>2 DEF IInv, PassInv
  <1>4. ASSUME NEW e \in batch PROVE ExpiredRow(e)'
    <2>1. row[e] \in Row
      BY <1>3
    <2>2. /\ row'[e].resolvedBy = "system_expiry"
          /\ row'[e].status = row[e].onExpiry
          /\ row'[e].onExpiry = row[e].onExpiry
      BY <1>2, <2>1 DEF Resolved, Row
    <2> QED
      BY <2>2 DEF ExpiredRow
  <1>5. ASSUME NEW d \in Calls PROVE CallFresh(d)'
    <2>1. ASSUME call[d].pc \in {"read", "writing"} \/ HasResolved(d)
          PROVE  row'[call[d].esc] = row[call[d].esc]
      <3>1. call[d].esc \in Escalations
        BY <2>1, AboutEscalation
      <3>2. CASE call[d].pc \in {"read", "writing"}
        BY <1>1, <1>2, <3>1, <3>2 DEF Alone, CallWrites, LoopWrites
      <3>3. CASE HasResolved(d)
        <4>1. ~Pending(call[d].esc) /\ row[call[d].esc].resolvedBy = d
          BY <3>3, ResolvedIsClosed DEF FreshInv, CallFresh
        <4>2. call[d].esc \notin batch
          BY <1>1, <4>1, SystemIsNoCall DEF FreshInv, LoopFresh, ExpiredRow
        <4> QED
          BY <1>2, <3>1, <4>2
      <3> QED
        BY <2>1, <3>2, <3>3
    <2> QED
      BY <1>1, <2>1, FreshKept
  <1>6. ASSUME NEW v \in Workers PROVE LoopFresh(v)'
    <2>1. CASE v = w
      BY <1>1, <2>1 DEF LoopFresh, Sleeping
    <2>2. CASE v # w
      <3>1. pass'[v] = pass[v] /\ pass[v].batch \subseteq Escalations
        BY <1>1, <2>2 DEF PassState
      <3> HIDE DEF batch
      <3>2. ASSUME NEW e \in pass[v].batch, pass[v].pc = "writing"
            PROVE  Pending(e)' \/ ExpiredRow(e)'
        <4>1. CASE e \in batch
          BY <1>4, <4>1
        <4>2. CASE e \notin batch
          <5>1. row'[e] = row[e] /\ (Pending(e) \/ ExpiredRow(e))
            BY <1>2, <3>1, <3>2, <4>2 DEF FreshInv, LoopFresh
          <5> QED
            BY <5>1 DEF Pending, ExpiredRow
        <4> QED
          BY <4>1, <4>2
      <3> QED
        BY <3>1, <3>2 DEF LoopFresh
    <2> QED
      BY <2>1, <2>2
  <1> QED
    BY <1>5, <1>6 DEF FreshInv

LEMMA FreshStep ==
    ASSUME IInv, FreshInv, Alone, [Next]_vars
    PROVE  FreshInv'
  <1>0. /\ call \in [Calls -> CallState] /\ row \in [Escalations -> Row \cup {Null}]
        /\ pass \in [Workers -> PassState]
    BY DEF IInv, TypeOK
  <1>1. ASSUME NEW e \in Escalations, NEW t \in Tenants, NEW m \in Lifetimes,
               NEW x \in OnExpiry, Create(e, t, m, x)
        PROVE  FreshInv'
    <2>1. /\ row[e] = Null /\ UNCHANGED <<call, pass>>
          /\ \A f \in Escalations : f # e => row'[f] = row[f]
      BY <1>0, <1>1 DEF Create
    <2>2. ASSUME NEW c \in Calls PROVE CallFresh(c)'
      <3>1. call[c].pc \in {"read", "writing"} \/ HasResolved(c) =>
              call[c].esc \in Escalations /\ row[call[c].esc] # Null
        BY AboutEscalation DEF FreshInv, CallFresh, Pending
      <3> QED
        BY <2>1, <3>1, FreshKept
    <2>3. ASSUME NEW w \in Workers PROVE LoopFresh(w)'
      <3>1. pass[w].pc = "writing" => \A f \in pass[w].batch : f \in Escalations /\ row[f] # Null
        BY <1>0 DEF IInv, PassInv, PassState
      <3> QED
        BY <2>1, <3>1 DEF FreshInv, LoopFresh, ExpiredRow, Pending
    <2> QED
      BY <2>2, <2>3 DEF FreshInv
  <1>2. ASSUME NEW c \in Calls, NEW w \in Workers, NEW e \in Escalations, NEW t \in Tenants,
               NEW h \in Human, NEW k \in Keys \cup {Null}, Arrive(c, w, e, t, h, k)
        PROVE  FreshInv'
    <2> DEFINE m == [call[c] EXCEPT !.pc = "replayed", !.key = k, !.got = cache[k]]
               n == [Idle EXCEPT !.pc = "reading", !.worker = w, !.key = k, !.esc = e,
                                 !.tenant = t, !.status = h]
    <2>1. m.pc = "replayed" /\ n.pc = "reading"
      BY <1>0 DEF CallState, Idle
    <2>2. call' = [call EXCEPT ![c] = m] \/ call' = [call EXCEPT ![c] = n]
      BY <1>0, <1>2 DEF Arrive
    <2> HIDE DEF m, n
    <2>3. call' = [call EXCEPT ![c] = call'[c]] /\ call'[c].pc \in {"replayed", "reading"}
      BY <1>0, <2>1, <2>2
    <2>4. CallFresh(c)'
      BY <2>3 DEF CallFresh, HasResolved, Over
    <2> QED
      BY <1>2, <2>3, <2>4, FreshCall DEF Arrive
  <1>3. ASSUME NEW c \in Calls, Read(c) PROVE FreshInv'
    <2>1. /\ call' = [call EXCEPT ![c] = call'[c]]
          /\ \/ call'[c].pc = "read" /\ call'[c].esc = call[c].esc /\ Pending(call[c].esc)
             \/ call'[c].pc = "refused"
      BY <1>0, <1>3 DEF Read, Without, Idle, CallState
    <2>2. CallFresh(c)'
      BY <1>3, <2>1 DEF Read, CallFresh, HasResolved, Over, Pending
    <2> QED
      BY <1>3, <2>1, <2>2, FreshCall DEF Read
  <1>4. ASSUME NEW c \in Calls, Decide(c) PROVE FreshInv'
    <2>1. /\ call' = [call EXCEPT ![c] = call'[c]]
          /\ call'[c].pc = "writing" /\ call'[c].esc = call[c].esc
      BY <1>0, <1>4 DEF Decide, CallState
    <2>2. CallFresh(c)'
      BY <1>4, <2>1 DEF Decide, FreshInv, CallFresh, HasResolved, Over, Pending
    <2> QED
      BY <1>4, <2>1, <2>2, FreshCall DEF Decide
  <1>5. ASSUME NEW c \in Calls, Answer(c) \/ Store(c) PROVE FreshInv'
    <2>1. /\ call' = [call EXCEPT ![c] = call'[c]]
          /\ call[c].pc \in Over /\ UNCHANGED <<row, pass>>
          /\ call'[c] \in {[call[c] EXCEPT !.pc = "caching"], Ended(c, "answered")}
      BY <1>0, <1>5 DEF Answer, Store, AfterAudit, Over
    <2>2. [call[c] EXCEPT !.pc = "caching"].pc = "caching"
          /\ [call[c] EXCEPT !.pc = "caching"].esc = call[c].esc
          /\ [call[c] EXCEPT !.pc = "caching"].status = call[c].status
      BY <1>0 DEF CallState
    <2>3. call'[c].pc \in Over /\ call'[c].esc = call[c].esc /\ call'[c].status = call[c].status
      BY <2>1, <2>2, EndedState DEF Over
    <2>4. CallFresh(c)'
      BY <2>1, <2>3, CallEnds
    <2> QED
      BY <2>1, <2>4, FreshCall
  <1>6. ASSUME NEW c \in Calls, CallFail(c) PROVE FreshInv'
    <2>1. /\ call' = [call EXCEPT ![c] = call'[c]] /\ UNCHANGED <<row, pass>>
          /\ \/ call'[c] = Without("failed")
             \/ call[c].pc \in Over /\ call'[c] = Ended(c, "failed")
      BY <1>0, <1>6 DEF CallFail, Over
    <2>2. CallFresh(c)'
      BY <2>1, CallEnds, FreshState, EndedState DEF Over
    <2> QED
      BY <2>1, <2>2, FreshCall
  <1>7. ASSUME NEW w \in Workers, ExpiryScan(w) \/ ExpiryFail(w) PROVE FreshInv'
    <2>1. /\ UNCHANGED <<row, call>>
          /\ \A v \in Workers : v # w => pass'[v] = pass[v]
          /\ pass'[w].pc = "writing" => \A e \in pass'[w].batch : Pending(e)
      BY <1>0, <1>7 DEF ExpiryScan, ExpiryFail, Sleeping
    <2> QED
      BY <2>1 DEF FreshInv, CallFresh, HasResolved, LoopFresh, ExpiredRow, Pending
  <1>8. ASSUME NEW w \in Workers, Die(w) PROVE FreshInv'
    <2>1. /\ UNCHANGED row
          /\ \A v \in Workers : pass'[v] = pass[v] \/ pass'[v].pc = "sleeping"
      BY <1>0, <1>8 DEF Die, Sleeping
    <2>2. ASSUME NEW c \in Calls PROVE CallFresh(c)'
      <3>1. \/ call'[c] = call[c]
            \/ call'[c] = Without("lost")
            \/ call[c].pc \in Over /\ call'[c] = Ended(c, "lost")
        BY <1>0, <1>8 DEF Die, Gone, Undecided, Over
      <3>2. CASE call'[c] = call[c]
        BY <2>1, <3>2, FreshKept
      <3> QED
        BY <2>1, <3>1, <3>2, CallEnds, FreshState, EndedState DEF Over
    <2> QED
      BY <2>1, <2>2 DEF FreshInv, LoopFresh, ExpiredRow, Pending
  <1>9. CASE UNCHANGED <<row, call, pass>>
    BY <1>9 DEF FreshInv, CallFresh, HasResolved, LoopFresh, ExpiredRow, Pending
  <1> QED
    BY <1>1, <1>2, <1>3, <1>4, <1>5, <1>6, <1>7, <1>8, <1>9, FreshCommit, FreshExpiry
    DEF Next, vars, Crash, Tick, StoreDecision, Expire

LEMMA FreshInvariant == Spec /\ []Alone => []FreshInv
  <1>1. Init => FreshInv
    BY DEF Init, FreshInv, CallFresh, HasResolved, Over, LoopFresh, Idle, Sleeping
  <1>2. IInv /\ FreshInv /\ Alone /\ [Next]_vars => FreshInv'
    BY FreshStep
  <1> QED
    BY <1>1, <1>2, Invariant, PTL DEF Spec

\* The outcome of a closed row, and who decided it.
OutcomeKept ==
    \A e \in Escalations : row[e] # Null /\ ~Pending(e) =>
        row'[e].status = row[e].status /\ row'[e].resolvedBy = row[e].resolvedBy

LEMMA OutcomeStep ==
    ASSUME IInv, FreshInv, [Next]_vars
    PROVE  OutcomeKept
  <1>1. ASSUME NEW e \in Escalations, row[e] # Null, ~Pending(e)
        PROVE  row'[e].status = row[e].status /\ row'[e].resolvedBy = row[e].resolvedBy
    <2>0. row \in [Escalations -> Row \cup {Null}] /\ row[e] \in Row
      BY <1>1 DEF IInv, TypeOK
    <2>1. ASSUME NEW f \in Escalations, NEW t \in Tenants, NEW m \in Lifetimes,
                 NEW x \in OnExpiry, Create(f, t, m, x)
          PROVE  row'[e] = row[e]
      BY <1>1, <2>0, <2>1 DEF Create
    <2>2. ASSUME NEW c \in Calls, Commit(c)
          PROVE  row'[e] = row[e]
      BY <1>1, <2>0, <2>2 DEF Commit, FreshInv, CallFresh
    <2>3. ASSUME NEW w \in Workers, ExpiryCommit(w), e \notin pass[w].batch
          PROVE  row'[e] = row[e]
      BY <2>3 DEF ExpiryCommit
    <2>4. ASSUME NEW w \in Workers, ExpiryCommit(w), e \in pass[w].batch
          PROVE  row'[e].status = row[e].status /\ row'[e].resolvedBy = row[e].resolvedBy
      <3>1. ExpiredRow(e)
        BY <1>1, <2>4 DEF ExpiryCommit, FreshInv, LoopFresh
      <3>2. row'[e] = Resolved(row[e], row[e].onExpiry, pass[w].at, "system_expiry")
        BY <2>4 DEF ExpiryCommit
      <3> QED
        BY <2>0, <3>1, <3>2 DEF ExpiredRow, Resolved, Row
    <2>5. CASE UNCHANGED row
      BY <2>5
    <2> QED
      BY <2>1, <2>2, <2>3, <2>4, <2>5
      DEF Next, vars, Arrive, Read, Decide, Answer, Store, CallFail, StoreDecision, Expire, ExpiryScan,
          ExpiryFail, Crash, Die, Tick
  <1> QED
    BY <1>1 DEF OutcomeKept

----------------------------------------------------------------------------

(***************************************************************************)
(* Rows, calls and loops keep their types, whoever races with whom.        *)
(***************************************************************************)
THEOREM TypeCorrect == Spec => []TypeOK
  <1>1. IInv => TypeOK
    BY DEF IInv
  <1> QED
    BY <1>1, Invariant, PTL

(***************************************************************************)
(* A row's status, resolved_by and resolved_at always come from one        *)
(* resolution of that row, by any number of reviewers, loops and crashes.  *)
(***************************************************************************)
THEOREM ColumnsAgreeHolds == Spec => []ColumnsAgree
  <1>1. IInv => ColumnsAgree
    BY DEF IInv
  <1> QED
    BY <1>1, Invariant, PTL

(***************************************************************************)
(* No row says that a human resolved it after its deadline, nor that the   *)
(* system did before it, however late the transactions commit.             *)
(***************************************************************************)
THEOREM DeadlineRespectedHolds == Spec => []DeadlineRespected
  <1>1. IInv => DeadlineRespected
    BY DEF IInv
  <1> QED
    BY <1>1, Invariant, PTL

(***************************************************************************)
(* A standing human resolution is audited, about to be, or its process     *)
(* died between the commit and the audit entry.                            *)
(***************************************************************************)
THEOREM HumanAuditedHolds == Spec => []HumanAudited
  <1>1. ASSUME IInv, NEW e \in Escalations, row[e] # Null, row[e].resolvedBy \in Calls
        PROVE  \/ row[e].resolvedBy \in audited
               \/ call[row[e].resolvedBy].pc \in {"committed", "lost"}
    <2> DEFINE c == row[e].resolvedBy
    <2>1. call[c].pc \in Over /\ call[c].esc = e
      BY <1>1, NullOutside, SystemIsNoCall DEF IInv, ResolverInv, ColumnsAgree
    <2>2. CallOK(c)
      BY <1>1 DEF IInv, CallInv
    <2> QED
      BY <1>1, <2>1, <2>2 DEF CallOK, Over
  <1>2. IInv => HumanAudited
    BY <1>1 DEF HumanAudited
  <1> QED
    BY <1>2, Invariant, PTL

(***************************************************************************)
(* An answer of approve or reject that Redis holds, or that a reviewer got *)
(* from it, is the answer to a call with the same key whose resolution was *)
(* committed and handed to the audit trail, and its escalation is closed;  *)
(* whatever crashes, expires or fails in between. The one other thing that *)
(* a reviewer can be told is the answer of an evaluate call.               *)
(***************************************************************************)
THEOREM ReplayBackedHolds == Spec => []ReplayBacked
  <1>1. ASSUME IInv, NEW g, NEW k, Given(call, g, k), g # Decision
        PROVE  Replayable(g, k)
    <2>1. CallOK(g) /\ g \in Calls /\ call[g].pc = "answered" /\ call[g].key = k
      BY <1>1 DEF IInv, CallInv, Given
    <2> QED
      BY <2>1 DEF CallOK, Replayable, Pending
  <1>2. IInv => ReplayBacked
    BY <1>1 DEF IInv, CacheInv, ReplayBacked
  <1> QED
    BY <1>2, Invariant, PTL

(***************************************************************************)
(* A step never makes a resolved row pending again, and never changes its  *)
(* tenant, its deadline or its expiry action.                              *)
(***************************************************************************)
THEOREM NeverReopenedHolds == Spec => NeverReopened
  <1>1. IInv /\ [Next]_vars => [KeepsResolved]_vars
    BY RowKept
  <1> QED
    BY <1>1, Invariant, PTL DEF Spec, NeverReopened

(***************************************************************************)
(* The race is all there is to it: if no call reads an escalation while    *)
(* another call or an expiry loop is between its read and its commit, then *)
(* what a reviewer was told stands, whatever fails, crashes or is replayed *)
(* and although loops race each other (escalations/service.py:182).        *)
(***************************************************************************)
THEOREM AnswerStandsAlone == Spec /\ []Alone => []AnswerStands
  <1>1. IInv /\ FreshInv => AnswerStands
    BY NullOutside DEF IInv, CallInv, CallOK, FreshInv, CallFresh, HasResolved, Over, AnswerStands
  <1> QED
    BY <1>1, Invariant, FreshInvariant, PTL

(***************************************************************************)
(* Then an escalation is also resolved only once: the outcome of a closed  *)
(* row and who decided it never change, told or not.  A loop may still     *)
(* write a row that another loop has expired, but it writes the same       *)
(* outcome (escalations/service.py:182, governor/service.py:295).          *)
(***************************************************************************)
THEOREM ResolvedOnceAlone == Spec /\ []Alone => [][OutcomeKept]_vars
  <1>1. IInv /\ FreshInv /\ [Next]_vars => [OutcomeKept]_vars
    BY OutcomeStep
  <1> QED
    BY <1>1, Invariant, FreshInvariant, PTL DEF Spec

====
