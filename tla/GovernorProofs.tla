---- MODULE GovernorProofs ----
(***************************************************************************)
(* Theorems about Governor, for any calls, workers, keys, verdicts, batch  *)
(* sizes and numbers of attempts: type correctness, the escalation table   *)
(* and the audit schedule agree, webhooks and answers are backed by what   *)
(* was committed and scheduled, a graceful exit loses no audit task, and   *)
(* an idempotency key has two decisions only if its calls overlapped or    *)
(* Redis was left without the first.                                       *)
(***************************************************************************)
EXTENDS Governor, TLAPS

\* What the place a call has reached says of its local variables.
CallOK(c) ==
    /\ call[c].pc # "idle" => call[c].worker \in Workers
    /\ call[c].pc \in {"looking", "evaluating", "creating", "created"} => call[c].left >= 1
    /\ call[c].pc \in {"looking", "caching"} => call[c].key \in Keys

CallInv == \A c \in Calls : CallOK(c)

\* What is scheduled lies behind its call: actions are decided from the last to
\* the first, and an untouched call has made no decision.
PlaceInv ==
    \A d \in Decisions :
        /\ audit[d] # "none" => call[d[1]].pc # "idle" /\ d[2] > call[d[1]].left
        /\ d \in escalated => call[d[1]].pc # "idle"

\* A call that is about to create a row, or has, is at a production decision.
CreatingOK(c) ==
    /\ call[c].pc \in {"creating", "created"} => decision[Current(c)].env = "production"
    /\ call[c].pc = "created" => Current(c) \in escalated

CreatingInv == \A c \in Calls : CreatingOK(c)

\* Webhook tasks belong to scheduled production decisions with a row.
HookOK(d) ==
    /\ hook[d].pc # "none" =>
          audit[d] # "none" /\ d \in escalated /\ decision[d].env = "production"
    /\ hook[d].posts > 0 => hook[d].pc # "none"
    /\ hook[d].pc = "posting" => hook[d].posts < Attempts

HookInv == \A d \in Decisions : HookOK(d)

\* What a call may tell its caller.
GotOK(c) == \A a \in call[c].got : Backed(a, call[c].key)

GotInv == \A c \in Calls : GotOK(c)

CacheInv == \A k \in Keys : cache[k] # Null => Backed(cache[k], k)

\* A process past its drain has no running call and no task outside its
\* snapshot, and only a killed one loses tasks.
EndInv ==
    /\ \A c \in Calls : Running(c) => mode[call[c].worker] \in {"up", "draining"}
    /\ \A d \in Decisions : audit[d] = "lost" => mode[Worker(d)] = "killed"
    /\ \A d \in Decisions : audit[d] = "running" =>
          \/ mode[Worker(d)] \in {"up", "draining"}
          \/ mode[Worker(d)] = "gathering" /\ d \in awaited[Worker(d)]

IInv ==
    /\ TypeOK
    /\ CallInv
    /\ PlaceInv
    /\ CreatingInv
    /\ EscalationMatchesAudit
    /\ HookInv
    /\ GotInv
    /\ CacheInv
    /\ EndInv

----------------------------------------------------------------------------
LEMMA DecisionFacts ==
    \A d \in Decisions : d[1] \in Calls /\ d[2] \in 1..MaxBatch /\ d = <<d[1], d[2]>>
  BY DEF Decisions

LEMMA CurrentFacts ==
    ASSUME TypeOK, NEW c \in Calls, call[c].left >= 1
    PROVE  /\ Current(c) \in Decisions
           /\ Current(c)[1] = c
           /\ Current(c)[2] = call[c].left
           /\ Worker(Current(c)) = call[c].worker
  BY MaxBatchNat DEF TypeOK, CallState, Current, Decisions, Worker

\* What a caller is told, or Redis holds, stays backed.
LEMMA BackedStays ==
    ASSUME \A d \in Decisions : audit[d] # "none" =>
               audit'[d] # "none" /\ call'[d[1]].key = call[d[1]].key
    PROVE  \A a \in Answers : \A k : Backed(a, k) => Backed(a, k)'
  BY DEF Backed, Answers

LEMMA InitInv == Init => IInv
  <1> SUFFICES ASSUME Init PROVE IInv
    OBVIOUS
  <1> USE DEF Init
  <1>1. TypeOK
    BY MaxBatchNat, AttemptsNat DEF TypeOK, CallState, Over
  <1>2. CallInv /\ CreatingInv /\ GotInv /\ CacheInv
    BY DEF CallInv, CallOK, CreatingInv, CreatingOK, GotInv, GotOK, CacheInv
  <1>3. PlaceInv /\ EscalationMatchesAudit
    BY DEF PlaceInv, EscalationMatchesAudit
  <1>4. HookInv
    BY AttemptsNat DEF HookInv, HookOK
  <1>5. EndInv
    BY DEF EndInv, Running
  <1> QED
    BY <1>1, <1>2, <1>3, <1>4, <1>5 DEF IInv

----------------------------------------------------------------------------
(* Steps of one call *)

\* Call c goes on: it keeps its process and key and does not go back.
Moves(c) ==
    /\ call[c].pc # "idle"
    /\ call' = [call EXCEPT ![c] = call'[c]]
    /\ call'[c] \in CallState
    /\ call'[c].pc # "idle"
    /\ call'[c].worker = call[c].worker
    /\ call'[c].key = call[c].key
    /\ call'[c].left <= call[c].left
    /\ CallOK(c)'

\* What a step that moves one call leaves as it was.
LEMMA OthersStay ==
    ASSUME TypeOK, NEW c \in Calls, Moves(c)
    PROVE  /\ \A b \in Calls : b # c => call'[b] = call[b]
           /\ \A b \in Calls : call'[b].worker = call[b].worker /\ call'[b].key = call[b].key
           /\ \A b \in Calls : call[b].pc # "idle" => call'[b].pc # "idle"
           /\ \A b \in Calls : call'[b].left <= call[b].left
           /\ call' \in [Calls -> CallState]
           /\ \A d \in Decisions : Worker(d)' = Worker(d)
  <1>1. call \in [Calls -> CallState]
    BY DEF TypeOK
  <1>2. \A b \in Calls : call[b].left \in Nat
    BY <1>1, MaxBatchNat DEF CallState
  <1>3. \A b \in Calls : b # c => call'[b] = call[b]
    BY <1>1 DEF Moves
  <1>4. \A b \in Calls : call'[b].worker = call[b].worker /\ call'[b].key = call[b].key
    BY <1>3 DEF Moves
  <1>5. \A b \in Calls : call[b].pc # "idle" => call'[b].pc # "idle"
    BY <1>3 DEF Moves
  <1>6. \A b \in Calls : call'[b].left <= call[b].left
    BY <1>2, <1>3 DEF Moves
  <1>7. call' \in [Calls -> CallState]
    BY <1>1 DEF Moves
  <1>8. \A d \in Decisions : Worker(d)' = Worker(d)
    BY <1>4, DecisionFacts DEF Worker
  <1> QED
    BY <1>3, <1>4, <1>5, <1>6, <1>7, <1>8

\* The call moves and nothing else changes, but perhaps the cache.
LEMMA MoveInv ==
    ASSUME IInv, NEW c \in Calls, Moves(c),
           Running(c), call[c].pc = "created" => call'[c].left < call[c].left,
           call'[c].pc \notin {"creating", "created"},
           \A a \in call'[c].got : Backed(a, call[c].key),
           UNCHANGED <<decision, escalated, audit, hook, mode, awaited>>,
           cache' \in [Keys -> Answers \cup {Null}],
           \A k \in Keys : cache'[k] = cache[k] \/ (k = call[c].key /\ cache'[k] \in call[c].got)
    PROVE  IInv'
  <1>1. /\ TypeOK
        /\ call' \in [Calls -> CallState]
        /\ \A b \in Calls : b # c => call'[b] = call[b]
        /\ \A b \in Calls : call'[b].worker = call[b].worker /\ call'[b].key = call[b].key
        /\ \A b \in Calls : call[b].pc # "idle" => call'[b].pc # "idle"
        /\ \A d \in Decisions : Worker(d)' = Worker(d)
    BY OthersStay DEF IInv
  <1>2. \A b \in Calls : call'[b].left <= call[b].left
    BY OthersStay DEF IInv
  <1>3. \A b \in Calls : call[b].left \in Nat /\ call'[b].left \in Nat
    BY <1>1, MaxBatchNat DEF TypeOK, CallState
  <1>13. \A a \in Answers : \A k : Backed(a, k) => Backed(a, k)'
    BY <1>1, DecisionFacts, BackedStays
  <1>4. TypeOK'
    BY <1>1 DEF TypeOK
  <1>5. CallInv'
    BY <1>1 DEF IInv, CallInv, CallOK, Moves
  <1>6. PlaceInv'
    <2>1. SUFFICES ASSUME NEW d \in Decisions
                   PROVE  /\ audit[d] # "none" =>
                               call'[d[1]].pc # "idle" /\ d[2] > call'[d[1]].left
                          /\ d \in escalated => call'[d[1]].pc # "idle"
      BY DEF PlaceInv
    <2>2. d[1] \in Calls /\ d[2] \in Nat
      BY DecisionFacts, MaxBatchNat
    <2>3. /\ audit[d] # "none" => call[d[1]].pc # "idle" /\ d[2] > call[d[1]].left
          /\ d \in escalated => call[d[1]].pc # "idle"
      BY DEF IInv, PlaceInv
    <2> QED
      BY <1>1, <1>2, <1>3, <2>2, <2>3
  <1>7. CreatingInv'
    BY <1>1 DEF IInv, CreatingInv, CreatingOK, Current
  <1>8. EscalationMatchesAudit'
    <2>1. SUFFICES ASSUME NEW d \in Decisions, d \in escalated, audit[d] = "none",
                          mode[Worker(d)] # "killed"
                   PROVE  \/ call'[d[1]].pc = "created" /\ d = <<d[1], call'[d[1]].left>>
                          \/ d[2] > call'[d[1]].left /\ d \notin call'[d[1]].got
      BY <1>1 DEF IInv, EscalationMatchesAudit, Current
    <2>2. d[1] \in Calls /\ d[2] \in Nat /\ d = <<d[1], d[2]>>
      BY DecisionFacts, MaxBatchNat
    <2>3. \/ call[d[1]].pc = "created" /\ d = <<d[1], call[d[1]].left>>
          \/ d[2] > call[d[1]].left /\ d \notin call[d[1]].got
      BY <2>1 DEF IInv, EscalationMatchesAudit, Current
    <2>4. d \notin call'[c].got
      BY <2>1, ResolutionIsNoDecision DEF Backed
    <2>5. CASE d[1] = c
      <3>1. d[2] > call'[c].left
        <4>1. CASE call[c].pc = "created" /\ d = <<c, call[c].left>>
          BY <1>3, <2>2, <4>1
        <4>2. CASE d[2] > call[c].left
          BY <1>2, <1>3, <2>2, <4>2
        <4> QED
          BY <2>3, <2>5, <4>1, <4>2
      <3> QED
        BY <2>4, <2>5, <3>1
    <2>6. CASE d[1] # c
      BY <1>1, <2>2, <2>3, <2>6
    <2> QED
      BY <2>5, <2>6
  <1>9. HookInv'
    BY DEF IInv, HookInv, HookOK
  <1>10. GotInv'
    <2>1. \A b \in Calls : call[b].got \subseteq Answers
      BY <1>1 DEF TypeOK, CallState
    <2>2. call'[c].got \subseteq Answers
      BY <1>1 DEF CallState
    <2>3. GotOK(c)'
      BY <1>1, <1>13, <2>2 DEF GotOK, Moves
    <2>4. \A b \in Calls : b # c => GotOK(b)'
      BY <1>1, <1>13, <2>1 DEF IInv, GotInv, GotOK
    <2> QED
      BY <2>3, <2>4 DEF GotInv
  <1>11. CacheInv'
    <2>1. \A k \in Keys : cache[k] # Null => cache[k] \in Answers
      BY <1>1 DEF TypeOK
    <2>2. call[c].got \subseteq Answers
      BY <1>1 DEF TypeOK, CallState
    <2>3. GotOK(c)
      BY DEF IInv, GotInv
    <2>4. ASSUME NEW k \in Keys, cache'[k] # Null
          PROVE  \A a \in Answers : a = cache'[k] => Backed(a, k)'
      <3>1. CASE cache'[k] = cache[k]
        BY <1>13, <2>1, <2>4, <3>1 DEF IInv, CacheInv
      <3>2. CASE k = call[c].key /\ cache'[k] \in call[c].got
        BY <1>13, <2>2, <2>3, <3>2 DEF GotOK
      <3> QED
        BY <3>1, <3>2
    <2> QED
      BY <2>4 DEF CacheInv, Backed
  <1>12. EndInv'
    BY <1>1 DEF IInv, EndInv, Running
  <1> QED
    BY <1>4, <1>5, <1>6, <1>7, <1>8, <1>9, <1>10, <1>11, <1>12 DEF IInv

LEMMA LookupInv ==
    ASSUME IInv, NEW c \in Calls, Lookup(c)
    PROVE  IInv'
  <1>1. /\ call[c].pc = "looking"
        /\ UNCHANGED <<decision, escalated, audit, hook, cache, mode, awaited>>
    BY DEF Lookup
  <1>2. /\ TypeOK
        /\ call \in [Calls -> CallState]
        /\ call[c].key \in Keys
        /\ call[c].left >= 1
        /\ call[c].worker \in Workers
    BY <1>1 DEF IInv, TypeOK, CallInv, CallOK
  <1>3. Running(c)
    BY <1>1 DEF Running, Over
  <1>4. cache' \in [Keys -> Answers \cup {Null}]
    BY <1>1, <1>2 DEF TypeOK
  <1>5. CASE cache[call[c].key] # Null /\ call' = [call EXCEPT ![c].pc = "answered",
                                                        ![c].got = {cache[call[c].key]}]
    <2> DEFINE k == [call[c] EXCEPT !.pc = "answered", !.got = {cache[call[c].key]}]
    <2>1. cache[call[c].key] \in Answers
      BY <1>2, <1>5 DEF TypeOK
    <2>2. k \in CallState /\ k.pc = "answered" /\ k.worker = call[c].worker
          /\ k.key = call[c].key /\ k.left = call[c].left /\ k.got = {cache[call[c].key]}
      BY <1>2, <2>1 DEF CallState, Over
    <2>3. call' = [call EXCEPT ![c] = k] /\ call'[c] = k
      BY <1>2, <1>5
    <2> HIDE DEF k
    <2>4. call[c].left \in Nat
      BY <1>2, MaxBatchNat DEF CallState
    <2>5. Moves(c)
      BY <1>1, <1>2, <2>2, <2>3, <2>4 DEF Moves, CallOK
    <2>6. \A a \in call'[c].got : Backed(a, call[c].key)
      BY <1>2, <1>5, <2>2, <2>3 DEF IInv, CacheInv
    <2> QED
      BY <1>1, <1>3, <1>4, <2>2, <2>3, <2>5, <2>6, MoveInv
  <1>6. CASE call' = [call EXCEPT ![c].pc = "evaluating"]
    <2> DEFINE k == [call[c] EXCEPT !.pc = "evaluating"]
    <2>1. k \in CallState /\ k.pc = "evaluating" /\ k.worker = call[c].worker
          /\ k.key = call[c].key /\ k.left = call[c].left /\ k.got = call[c].got
      BY <1>2 DEF CallState
    <2>2. call' = [call EXCEPT ![c] = k] /\ call'[c] = k
      BY <1>2, <1>6
    <2> HIDE DEF k
    <2>3. call[c].left \in Nat
      BY <1>2, MaxBatchNat DEF CallState
    <2>4. Moves(c)
      BY <1>1, <1>2, <2>1, <2>2, <2>3 DEF Moves, CallOK
    <2>5. \A a \in call'[c].got : Backed(a, call[c].key)
      BY <2>1, <2>2 DEF IInv, GotInv, GotOK
    <2> QED
      BY <1>1, <1>3, <1>4, <2>1, <2>2, <2>4, <2>5, MoveInv
  <1> QED
    BY <1>5, <1>6 DEF Lookup

\* Store and RedisFail: the call ends with what it has.
LEMMA EndsInv ==
    ASSUME IInv, NEW c \in Calls, NEW pc \in {"answered", "error"},
           call[c].pc \in {"looking", "caching"},
           call' = [call EXCEPT ![c].pc = pc],
           UNCHANGED <<decision, escalated, audit, hook, mode, awaited>>,
           cache' \in [Keys -> Answers \cup {Null}],
           \A k \in Keys : cache'[k] = cache[k] \/ (k = call[c].key /\ cache'[k] \in call[c].got)
    PROVE  IInv'
  <1>1. call \in [Calls -> CallState] /\ call[c].worker \in Workers
    BY DEF IInv, TypeOK, CallInv, CallOK
  <1> DEFINE r == [call[c] EXCEPT !.pc = pc]
  <1>2. r \in CallState /\ r.pc = pc /\ r.worker = call[c].worker
        /\ r.key = call[c].key /\ r.left = call[c].left /\ r.got = call[c].got
    BY <1>1 DEF CallState, Over
  <1>3. call' = [call EXCEPT ![c] = r] /\ call'[c] = r
    BY <1>1
  <1> HIDE DEF r
  <1>4. call[c].left \in Nat
    BY <1>1, MaxBatchNat DEF CallState
  <1>5. Moves(c)
    BY <1>1, <1>2, <1>3, <1>4 DEF Moves, CallOK
  <1>6. \A a \in call'[c].got : Backed(a, call[c].key)
    BY <1>2, <1>3 DEF IInv, GotInv, GotOK
  <1>7. Running(c)
    BY DEF Running, Over
  <1> QED
    BY <1>2, <1>3, <1>5, <1>6, <1>7, MoveInv

LEMMA StoreInv ==
    ASSUME IInv, NEW c \in Calls, Store(c)
    PROVE  IInv'
  <1>1. /\ call[c].pc = "caching"
        /\ call' = [call EXCEPT ![c].pc = "answered"]
        /\ UNCHANGED <<decision, escalated, audit, hook, mode, awaited>>
    BY DEF Store
  <1>2. cache \in [Keys -> Answers \cup {Null}] /\ call[c].got \subseteq Answers
    BY DEF IInv, TypeOK, CallState
  <1>3. /\ cache' \in [Keys -> Answers \cup {Null}]
        /\ \A k \in Keys : cache'[k] = cache[k] \/ (k = call[c].key /\ cache'[k] \in call[c].got)
    BY <1>2 DEF Store
  <1> QED
    BY <1>1, <1>3, EndsInv

LEMMA RedisFailInv ==
    ASSUME IInv, NEW c \in Calls, RedisFail(c)
    PROVE  IInv'
  <1>1. cache \in [Keys -> Answers \cup {Null}]
    BY DEF IInv, TypeOK
  <1> QED
    BY <1>1, EndsInv DEF RedisFail

LEMMA ItemFailInv ==
    ASSUME IInv, NEW c \in Calls, ItemFail(c)
    PROVE  IInv'
  <1> DEFINE pc == IF call[c].kind = "batch" THEN AfterItem(c) ELSE "error"
             r == [call[c] EXCEPT !.left = @ - 1, !.pc = pc]
  <1>1. /\ call[c].pc \in {"evaluating", "creating", "created"}
        /\ UNCHANGED <<decision, escalated, audit, hook, cache, mode, awaited>>
    BY DEF ItemFail
  <1>2. /\ call \in [Calls -> CallState]
        /\ call[c].left >= 1
        /\ call[c].left \in 0..MaxBatch
        /\ call[c].worker \in Workers
        /\ cache \in [Keys -> Answers \cup {Null}]
    BY <1>1 DEF IInv, TypeOK, CallInv, CallOK, CallState
  <1>3. pc \in {"evaluating", "answered", "error"} /\ (pc = "evaluating" => call[c].left > 1)
    BY DEF AfterItem
  <1>4. call' = [call EXCEPT ![c] = r] /\ call'[c] = r
    BY <1>2 DEF ItemFail
  <1> HIDE DEF pc
  <1>5. call[c].left - 1 \in 0..MaxBatch /\ call[c].left - 1 < call[c].left
        /\ (call[c].left > 1 => call[c].left - 1 >= 1)
    BY <1>2, MaxBatchNat
  <1>6. r \in CallState /\ r.pc = pc /\ r.worker = call[c].worker
        /\ r.key = call[c].key /\ r.left = call[c].left - 1 /\ r.got = call[c].got
    BY <1>2, <1>3, <1>5 DEF CallState, Over
  <1> HIDE DEF r
  <1>7. Moves(c)
    BY <1>1, <1>2, <1>3, <1>4, <1>5, <1>6 DEF Moves, CallOK
  <1>8. \A a \in call'[c].got : Backed(a, call[c].key)
    BY <1>4, <1>6 DEF IInv, GotInv, GotOK
  <1>9. Running(c)
    BY <1>1 DEF Running, Over
  <1> QED
    BY <1>1, <1>2, <1>3, <1>4, <1>6, <1>7, <1>8, <1>9, MoveInv

\* The end of a decision n: its audit task is scheduled and the call goes on.
LEMMA ConcludeInv ==
    ASSUME IInv, NEW c \in Calls, Conclude(c),
           call[c].pc \in {"evaluating", "created"},
           NEW n, n = Current(c),
           UNCHANGED <<escalated, cache, mode, awaited>>,
           decision' \in [Decisions -> DecisionState \cup {Null}],
           \A d \in Decisions : d # n => decision'[d] = decision[d],
           /\ decision'[n].env = "production"
           /\ decision'[n].verdict = "ESCALATE"
           /\ decision'[n].config
           => n \in escalated,
           hook' \in [Decisions -> [pc : {"none", "posting", "done", "lost"},
                                    posts : 0..Attempts]],
           \A d \in Decisions : d # n => hook'[d] = hook[d],
           \/ hook'[n] = hook[n]
           \/ /\ hook'[n].pc = "posting"
              /\ hook'[n].posts = hook[n].posts
              /\ n \in escalated
              /\ decision'[n].env = "production"
    PROVE  IInv'
  <1> DEFINE pc == IF call[c].key # Null THEN "caching" ELSE AfterItem(c)
             r == [call[c] EXCEPT !.got = @ \cup {n}, !.left = @ - 1, !.pc = pc]
  <1>1. /\ TypeOK
        /\ call \in [Calls -> CallState]
        /\ call[c].left >= 1
        /\ call[c].left \in 0..MaxBatch
        /\ call[c].worker \in Workers
        /\ call[c].key \in Keys \cup {Null}
    BY DEF IInv, TypeOK, CallInv, CallOK, CallState
  <1>2. n \in Decisions /\ n[1] = c /\ n[2] = call[c].left /\ Worker(n) = call[c].worker
    BY <1>1, CurrentFacts
  <1>3. /\ pc \in {"caching", "evaluating", "answered"}
        /\ pc = "evaluating" => call[c].left > 1
        /\ pc = "caching" => call[c].key \in Keys
    BY <1>1 DEF AfterItem
  <1>4. call' = [call EXCEPT ![c] = r] /\ call'[c] = r
    BY <1>1 DEF Conclude
  <1>5. audit' = [audit EXCEPT ![n] = "running"]
    BY DEF Conclude
  <1> HIDE DEF pc
  <1>6. call[c].left - 1 \in 0..MaxBatch /\ call[c].left - 1 < call[c].left
        /\ (call[c].left > 1 => call[c].left - 1 >= 1)
    BY <1>1, MaxBatchNat
  <1>7. r \in CallState /\ r.pc = pc /\ r.worker = call[c].worker
        /\ r.key = call[c].key /\ r.left = call[c].left - 1 /\ r.got = call[c].got \cup {n}
    BY <1>1, <1>2, <1>3, <1>6 DEF CallState, Over, Answers
  <1> HIDE DEF r
  <1>8. Moves(c)
    BY <1>1, <1>3, <1>4, <1>6, <1>7 DEF Moves, CallOK
  <1>9. /\ call' \in [Calls -> CallState]
        /\ \A b \in Calls : b # c => call'[b] = call[b]
        /\ \A b \in Calls : call'[b].worker = call[b].worker /\ call'[b].key = call[b].key
        /\ \A b \in Calls : call[b].pc # "idle" => call'[b].pc # "idle"
        /\ \A d \in Decisions : Worker(d)' = Worker(d)
    BY <1>1, <1>8, OthersStay
  <1>10. /\ \A d \in Decisions : d # n => audit'[d] = audit[d]
         /\ audit'[n] = "running"
         /\ audit' \in [Decisions -> {"none", "running", "done", "lost"}]
    BY <1>1, <1>2, <1>5 DEF TypeOK
  <1>22. \A a \in Answers : \A k : Backed(a, k) => Backed(a, k)'
    BY <1>9, <1>10, DecisionFacts, BackedStays
  <1>11. audit[n] = "none" /\ hook[n].pc = "none" /\ hook[n].posts = 0
    <2>1. audit[n] = "none"
      BY <1>1, <1>2 DEF IInv, PlaceInv
    <2>2. HookOK(n) /\ hook[n].posts \in 0..Attempts
      BY <1>1, <1>2 DEF IInv, HookInv, TypeOK
    <2> QED
      BY <2>1, <2>2, AttemptsNat DEF HookOK
  <1>12. call'[c].pc \notin {"idle", "created", "creating", "looking"}
    BY <1>3, <1>4, <1>7
  <1>13. TypeOK'
    BY <1>1, <1>9, <1>10 DEF TypeOK
  <1>14. CallInv'
    BY <1>8, <1>9 DEF IInv, CallInv, CallOK, Moves
  <1>15. PlaceInv'
    <2>1. SUFFICES ASSUME NEW d \in Decisions
                   PROVE  /\ audit'[d] # "none" =>
                               call'[d[1]].pc # "idle" /\ d[2] > call'[d[1]].left
                          /\ d \in escalated => call'[d[1]].pc # "idle"
      BY DEF PlaceInv
    <2>2. d[1] \in Calls /\ d[2] \in Nat
      BY DecisionFacts, MaxBatchNat
    <2>3. /\ audit[d] # "none" => call[d[1]].pc # "idle" /\ d[2] > call[d[1]].left
          /\ d \in escalated => call[d[1]].pc # "idle"
      BY DEF IInv, PlaceInv
    <2>4. CASE d = n
      BY <1>2, <1>4, <1>6, <1>7, <1>12, <2>4
    <2>5. CASE d # n /\ d[1] = c
      BY <1>1, <1>4, <1>6, <1>7, <1>10, <1>12, <2>2, <2>3, <2>5
    <2>6. CASE d # n /\ d[1] # c
      BY <1>9, <1>10, <2>2, <2>3, <2>6
    <2> QED
      BY <2>4, <2>5, <2>6
  <1>16. CreatingInv'
    <2>1. SUFFICES ASSUME NEW b \in Calls, b # c, call[b].pc \in {"creating", "created"}
                   PROVE  /\ decision'[Current(b)].env = "production"
                          /\ call[b].pc = "created" => Current(b) \in escalated
      BY <1>9, <1>12 DEF CreatingInv, CreatingOK, Current
    <2>2. call[b].left >= 1
      BY <2>1 DEF IInv, CallInv, CallOK
    <2>3. Current(b) \in Decisions /\ Current(b) # n
      BY <1>1, <1>2, <2>1, <2>2, CurrentFacts
    <2> QED
      BY <2>1, <2>3 DEF IInv, CreatingInv, CreatingOK
  <1>17. EscalationMatchesAudit'
    <2>1. SUFFICES ASSUME NEW d \in Decisions
                   PROVE  /\ d \in escalated =>
                               \/ audit'[d] # "none"
                               \/ call'[d[1]].pc = "created" /\ d = <<d[1], call'[d[1]].left>>
                               \/ mode[Worker(d)] = "killed"
                               \/ d[2] > call'[d[1]].left /\ d \notin call'[d[1]].got
                          /\ /\ audit'[d] # "none"
                             /\ decision'[d].env = "production"
                             /\ decision'[d].verdict = "ESCALATE"
                             /\ decision'[d].config
                             => d \in escalated
      BY <1>9 DEF EscalationMatchesAudit, Current
    <2>2. CASE d = n
      BY <1>10, <2>2
    <2>3. CASE d # n
      <3>1. d[1] \in Calls /\ d = <<d[1], d[2]>>
        BY DecisionFacts
      <3>2. d[1] = c => d # Current(c)
        BY <2>3
      <3>3. /\ d \in escalated =>
                 \/ audit[d] # "none"
                 \/ call[d[1]].pc = "created" /\ d = Current(d[1])
                 \/ mode[Worker(d)] = "killed"
                 \/ d[2] > call[d[1]].left /\ d \notin call[d[1]].got
            /\ /\ audit[d] # "none"
               /\ decision[d].env = "production"
               /\ decision[d].verdict = "ESCALATE"
               /\ decision[d].config
               => d \in escalated
        BY DEF IInv, EscalationMatchesAudit
      <3>4. d[2] \in Nat
        BY MaxBatchNat DEF Decisions
      <3>5. d[2] > call[d[1]].left /\ d \notin call[d[1]].got =>
               d[2] > call'[d[1]].left /\ d \notin call'[d[1]].got
        <4>1. CASE d[1] = c
          BY <1>1, <1>4, <1>6, <1>7, <2>3, <3>4, <4>1
        <4>2. CASE d[1] # c
          BY <1>9, <3>1, <4>2
        <4> QED
          BY <4>1, <4>2
      <3> QED
        BY <1>9, <1>10, <2>3, <3>1, <3>2, <3>3, <3>5 DEF Current
    <2> QED
      BY <2>2, <2>3
  <1>18. HookInv'
    <2>1. SUFFICES ASSUME NEW d \in Decisions PROVE HookOK(d)'
      BY DEF HookInv
    <2>2. CASE d = n
      BY <1>10, <1>11, <2>2, AttemptsNat DEF HookOK
    <2>3. CASE d # n
      BY <1>10, <2>3 DEF IInv, HookInv, HookOK
    <2> QED
      BY <2>2, <2>3
  <1>19. GotInv'
    <2>1. \A b \in Calls : call[b].got \subseteq Answers
      BY <1>1 DEF TypeOK, CallState
    <2>2. GotOK(c) /\ call'[c].key = call[c].key
      BY <1>9 DEF IInv, GotInv
    <2>3. GotOK(c)'
      <3>1. SUFFICES ASSUME NEW a \in call[c].got \cup {n}
                     PROVE  Backed(a, call[c].key)'
        BY <1>4, <1>7 DEF GotOK
      <3>2. CASE a = n
        BY <1>2, <1>4, <1>7, <1>10, <3>2, ResolutionIsNoDecision DEF Backed
      <3>3. CASE a \in call[c].got
        BY <1>22, <2>1, <2>2, <3>3 DEF GotOK
      <3> QED
        BY <3>2, <3>3
    <2>4. \A b \in Calls : b # c => GotOK(b)'
      BY <1>9, <1>22, <2>1 DEF IInv, GotInv, GotOK
    <2> QED
      BY <2>3, <2>4 DEF GotInv
  <1>20. CacheInv'
    <2>1. \A k \in Keys : cache[k] # Null => cache[k] \in Answers
      BY <1>1 DEF TypeOK
    <2> QED
      BY <1>22, <2>1 DEF IInv, CacheInv
  <1>21. EndInv'
    <2>1. Running(c) /\ mode[call[c].worker] \in {"up", "draining"}
      BY DEF IInv, EndInv, Running, Over
    <2>2. \A b \in Calls : Running(b)' => Running(b)
      BY <1>9, <2>1 DEF Running
    <2>3. \A b \in Calls : Running(b)' => mode[call'[b].worker] \in {"up", "draining"}
      BY <1>9, <2>2 DEF IInv, EndInv
    <2>4. ASSUME NEW d \in Decisions
          PROVE  /\ audit'[d] = "lost" => mode[Worker(d)] = "killed"
                 /\ audit'[d] = "running" =>
                       \/ mode[Worker(d)] \in {"up", "draining"}
                       \/ mode[Worker(d)] = "gathering" /\ d \in awaited[Worker(d)]
      <3>1. CASE d = n
        BY <1>2, <1>10, <2>1, <3>1
      <3>2. CASE d # n
        BY <1>10, <3>2 DEF IInv, EndInv
      <3> QED
        BY <3>1, <3>2
    <2> QED
      BY <1>9, <2>3, <2>4 DEF EndInv
  <1> QED
    BY <1>13, <1>14, <1>15, <1>16, <1>17, <1>18, <1>19, <1>20, <1>21 DEF IInv

\* The step of a call from one place before its decision to the next, with the
\* tables it changes there.
LEMMA CreatingMoves ==
    ASSUME IInv, NEW c \in Calls, NEW pc \in {"creating", "created"},
           call[c].pc \in {"evaluating", "creating"},
           call' = [call EXCEPT ![c].pc = pc]
    PROVE  /\ Moves(c)
           /\ call'[c].pc = pc /\ call'[c].left = call[c].left /\ call'[c].got = call[c].got
           /\ Current(c) \in Decisions
           /\ Current(c)[1] = c
           /\ Current(c)[2] = call[c].left
           /\ Worker(Current(c)) = call[c].worker
           /\ audit[Current(c)] = "none"
           /\ Running(c)
  <1>1. /\ TypeOK
        /\ call \in [Calls -> CallState]
        /\ call[c].left >= 1
        /\ call[c].worker \in Workers
    BY DEF IInv, TypeOK, CallInv, CallOK
  <1> DEFINE r == [call[c] EXCEPT !.pc = pc]
  <1>2. r \in CallState /\ r.pc = pc /\ r.worker = call[c].worker
        /\ r.key = call[c].key /\ r.left = call[c].left /\ r.got = call[c].got
    BY <1>1 DEF CallState
  <1>3. call' = [call EXCEPT ![c] = r] /\ call'[c] = r
    BY <1>1
  <1> HIDE DEF r
  <1>4. call[c].left \in Nat
    BY <1>1, MaxBatchNat DEF CallState
  <1>5. Moves(c)
    BY <1>1, <1>2, <1>3, <1>4 DEF Moves, CallOK
  <1>6. /\ Current(c) \in Decisions
        /\ Current(c)[1] = c
        /\ Current(c)[2] = call[c].left
        /\ Worker(Current(c)) = call[c].worker
    BY <1>1, CurrentFacts
  <1>7. audit[Current(c)] = "none"
    BY <1>4, <1>6 DEF IInv, PlaceInv
  <1>8. Running(c)
    BY DEF Running, Over
  <1> QED
    BY <1>2, <1>3, <1>5, <1>6, <1>7, <1>8

\* Such a step keeps the invariant if the row it may add and the decision it
\* may set are the current ones.
LEMMA CreatingInvariant ==
    ASSUME IInv, NEW c \in Calls, NEW pc \in {"creating", "created"},
           call[c].pc \in {"evaluating", "creating"},
           call' = [call EXCEPT ![c].pc = pc],
           UNCHANGED <<audit, hook, cache, mode, awaited>>,
           NEW n, n = Current(c),
           escalated' = IF pc = "created" THEN escalated \cup {n} ELSE escalated,
           decision' \in [Decisions -> DecisionState \cup {Null}],
           \A d \in Decisions : d # n => decision'[d] = decision[d],
           decision'[n].env = "production"
    PROVE  IInv'
  <1>1. /\ TypeOK
        /\ Moves(c)
        /\ call'[c].pc = pc /\ call'[c].left = call[c].left /\ call'[c].got = call[c].got
        /\ n \in Decisions /\ n[1] = c /\ n[2] = call[c].left
        /\ Worker(n) = call[c].worker
        /\ audit[n] = "none"
        /\ Running(c)
    BY CreatingMoves DEF IInv
  <1>2. /\ call' \in [Calls -> CallState]
        /\ \A b \in Calls : b # c => call'[b] = call[b]
        /\ \A b \in Calls : call'[b].worker = call[b].worker /\ call'[b].key = call[b].key
        /\ \A b \in Calls : call[b].pc # "idle" => call'[b].pc # "idle"
        /\ \A d \in Decisions : Worker(d)' = Worker(d)
    BY <1>1, OthersStay
  <1>3. \A b \in Calls : call'[b].left = call[b].left /\ call'[b].got = call[b].got
    BY <1>1, <1>2
  <1>4. \A b \in Calls : Current(b)' = Current(b)
    BY <1>3 DEF Current
  <1>14. \A a \in Answers : \A k : Backed(a, k) => Backed(a, k)'
    BY <1>2, DecisionFacts, BackedStays
  <1>5. TypeOK'
    BY <1>1, <1>2 DEF TypeOK
  <1>6. CallInv'
    BY <1>1, <1>2 DEF IInv, CallInv, CallOK, Moves
  <1>7. PlaceInv'
    <2>1. call'[c].pc # "idle"
      BY <1>1
    <2> QED
      BY <1>1, <1>2, <1>3, <2>1, DecisionFacts DEF IInv, PlaceInv
  <1>8. CreatingInv'
    <2>1. SUFFICES ASSUME NEW b \in Calls PROVE CreatingOK(b)'
      BY DEF CreatingInv
    <2>2. CASE b = c
      BY <1>1, <1>4, <2>2 DEF CreatingOK
    <2>3. CASE b # c /\ call[b].pc \in {"creating", "created"}
      <3>1. call[b].left >= 1
        BY <2>3 DEF IInv, CallInv, CallOK
      <3>2. Current(b) \in Decisions /\ Current(b) # n
        BY <1>1, <2>3, <3>1, CurrentFacts
      <3> QED
        BY <1>2, <1>4, <2>3, <3>2 DEF IInv, CreatingInv, CreatingOK
    <2>4. CASE b # c /\ call[b].pc \notin {"creating", "created"}
      BY <1>2, <2>4 DEF CreatingOK
    <2> QED
      BY <2>2, <2>3, <2>4
  <1>9. EscalationMatchesAudit'
    <2>1. SUFFICES ASSUME NEW d \in Decisions
                   PROVE  /\ d \in escalated' =>
                               \/ audit[d] # "none"
                               \/ call'[d[1]].pc = "created" /\ d = Current(d[1])
                               \/ mode[Worker(d)] = "killed"
                               \/ d[2] > call[d[1]].left /\ d \notin call[d[1]].got
                          /\ /\ audit[d] # "none"
                             /\ decision'[d].env = "production"
                             /\ decision'[d].verdict = "ESCALATE"
                             /\ decision'[d].config
                             => d \in escalated'
      BY <1>2, <1>3, <1>4, DecisionFacts DEF EscalationMatchesAudit
    <2>2. d[1] \in Calls
      BY DecisionFacts
    <2>3. CASE d = n
      <3>1. d \in escalated' => call'[c].pc = "created" \/ d \in escalated
        BY <1>1
      <3>2. d \in escalated => mode[Worker(d)] = "killed"
        <4>1. ~(d[2] > call[d[1]].left)
          BY <1>1, <2>3, MaxBatchNat DEF Decisions
        <4> QED
          BY <1>1, <2>3, <4>1 DEF IInv, EscalationMatchesAudit
      <3> QED
        BY <1>1, <2>3, <3>1, <3>2
    <2>4. CASE d # n
      <3>1. d[1] = c => d # Current(d[1])
        BY <2>4
      <3> QED
        BY <1>2, <2>2, <2>4, <3>1 DEF IInv, EscalationMatchesAudit
    <2> QED
      BY <2>3, <2>4
  <1>10. HookInv'
    BY <1>1 DEF IInv, HookInv, HookOK
  <1>11. GotInv'
    <2>1. \A b \in Calls : call[b].got \subseteq Answers
      BY <1>1 DEF TypeOK, CallState
    <2> QED
      BY <1>2, <1>3, <1>14, <2>1 DEF IInv, GotInv, GotOK
  <1>12. CacheInv'
    <2>1. \A k \in Keys : cache[k] # Null => cache[k] \in Answers
      BY <1>1 DEF TypeOK
    <2> QED
      BY <1>14, <2>1 DEF IInv, CacheInv
  <1>13. EndInv'
    <2>1. \A b \in Calls : Running(b)' => Running(b)
      BY <1>1, <1>2 DEF Running
    <2> QED
      BY <1>2, <2>1 DEF IInv, EndInv
  <1> QED
    BY <1>5, <1>6, <1>7, <1>8, <1>9, <1>10, <1>11, <1>12, <1>13 DEF IInv

LEMMA EvaluateInv ==
    ASSUME IInv, NEW c \in Calls, NEW env \in Environments, NEW v \in Verdicts,
           NEW config \in BOOLEAN, Evaluate(c, env, v, config)
    PROVE  IInv'
  <1>1. /\ call[c].pc = "evaluating"
        /\ decision' = [decision EXCEPT ![Current(c)] =
                          [env |-> env, verdict |-> v, config |-> config]]
        /\ UNCHANGED <<escalated, hook, cache, mode, awaited>>
    BY DEF Evaluate
  <1>2. TypeOK /\ call[c].left >= 1
    BY <1>1 DEF IInv, CallInv, CallOK
  <1>3. Current(c) \in Decisions
    BY <1>2, CurrentFacts
  <1>4. /\ decision' \in [Decisions -> DecisionState \cup {Null}]
        /\ \A d \in Decisions : d # Current(c) => decision'[d] = decision[d]
        /\ decision'[Current(c)].env = env
        /\ decision'[Current(c)].verdict = v
        /\ decision'[Current(c)].config = config
    BY <1>1, <1>2, <1>3 DEF TypeOK, DecisionState
  <1>5. CASE v = "ESCALATE" /\ env = "production" /\ config
    <2>1. call' = [call EXCEPT ![c].pc = "creating"] /\ UNCHANGED audit
      BY <1>5 DEF Evaluate
    <2> QED
      BY <1>1, <1>4, <1>5, <2>1, CreatingInvariant
  <1>6. CASE ~(v = "ESCALATE" /\ env = "production" /\ config)
    <2>1. Conclude(c)
      BY <1>6 DEF Evaluate
    <2>2. hook \in [Decisions -> [pc : {"none", "posting", "done", "lost"}, posts : 0..Attempts]]
      BY <1>2 DEF TypeOK
    <2> QED
      BY <1>1, <1>4, <1>6, <2>1, <2>2, ConcludeInv
  <1> QED
    BY <1>5, <1>6

LEMMA CreateRowInv ==
    ASSUME IInv, NEW c \in Calls, CreateRow(c)
    PROVE  IInv'
  <1>1. decision \in [Decisions -> DecisionState \cup {Null}]
    BY DEF IInv, TypeOK
  <1>2. call[c].pc = "creating" /\ decision[Current(c)].env = "production"
    BY DEF CreateRow, IInv, CreatingInv, CreatingOK
  <1> QED
    BY <1>1, <1>2, CreatingInvariant DEF CreateRow

LEMMA FinishEscalationInv ==
    ASSUME IInv, NEW c \in Calls, FinishEscalation(c)
    PROVE  IInv'
  <1>1. /\ call[c].pc = "created"
        /\ Conclude(c)
        /\ UNCHANGED <<decision, escalated, cache, mode, awaited>>
    BY DEF FinishEscalation
  <1>2. TypeOK /\ call[c].left >= 1
    BY <1>1 DEF IInv, CallInv, CallOK
  <1>3. Current(c) \in Decisions
    BY <1>2, CurrentFacts
  <1>4. /\ Current(c) \in escalated
        /\ decision[Current(c)].env = "production"
    BY <1>1 DEF IInv, CreatingInv, CreatingOK
  <1>5. /\ decision \in [Decisions -> DecisionState \cup {Null}]
        /\ hook \in [Decisions -> [pc : {"none", "posting", "done", "lost"}, posts : 0..Attempts]]
    BY <1>2 DEF TypeOK
  <1>6. CASE hook' = [hook EXCEPT ![Current(c)].pc = "posting"]
    <2>1. /\ hook' \in [Decisions -> [pc : {"none", "posting", "done", "lost"},
                                      posts : 0..Attempts]]
          /\ \A d \in Decisions : d # Current(c) => hook'[d] = hook[d]
          /\ hook'[Current(c)].pc = "posting"
          /\ hook'[Current(c)].posts = hook[Current(c)].posts
      BY <1>3, <1>5, <1>6
    <2> QED
      BY <1>1, <1>4, <1>5, <2>1, ConcludeInv
  <1>7. CASE UNCHANGED hook
    BY <1>1, <1>4, <1>5, <1>7, ConcludeInv
  <1> QED
    BY <1>6, <1>7 DEF FinishEscalation

\* A call arrives: it has made no decision before.
LEMMA ArriveInv ==
    ASSUME IInv, NEW c \in Calls, NEW w \in Workers, NEW kind \in {"single", "batch"},
           NEW k \in Keys \cup {Null}, NEW n \in 1..MaxBatch, Arrive(c, w, kind, k, n)
    PROVE  IInv'
  <1>1. /\ call[c].pc = "idle"
        /\ mode[w] = "up"
        /\ UNCHANGED <<decision, escalated, audit, hook, cache, mode, awaited>>
    BY DEF Arrive
  <1>2. PICK pc \in {"refused", IF k = Null THEN "evaluating" ELSE "looking"} :
            call' = [call EXCEPT ![c] = [pc |-> pc, kind |-> kind, worker |-> w, key |-> k,
                                         left |-> n, got |-> {}]]
    BY DEF Arrive
  <1> DEFINE r == [pc |-> pc, kind |-> kind, worker |-> w, key |-> k, left |-> n, got |-> {}]
  <1>3. /\ TypeOK
        /\ call \in [Calls -> CallState]
    BY DEF IInv, TypeOK
  <1>4. n \in Nat /\ n >= 1 /\ n \in 0..MaxBatch
    BY MaxBatchNat
  <1>5. /\ r \in CallState
        /\ r.pc \in {"refused", "evaluating", "looking"}
        /\ r.pc = "looking" => r.key \in Keys
        /\ r.worker = w
        /\ r.left = n
        /\ r.got = {}
    BY <1>4 DEF CallState, Over
  <1>6. call' = [call EXCEPT ![c] = r] /\ call'[c] = r
    BY <1>2, <1>3
  <1> HIDE DEF r
  <1>7. /\ \A b \in Calls : b # c => call'[b] = call[b]
        /\ call' \in [Calls -> CallState]
    BY <1>3, <1>5, <1>6
  <1>8. \A d \in Decisions : audit[d] # "none" \/ d \in escalated => d[1] # c
    BY <1>1 DEF IInv, PlaceInv
  <1>18. \A a \in Answers : \A h : Backed(a, h) => Backed(a, h)'
    BY <1>1, <1>7, <1>8, DecisionFacts, BackedStays
  <1>9. TypeOK'
    BY <1>1, <1>3, <1>7 DEF TypeOK
  <1>10. CallInv'
    BY <1>4, <1>5, <1>6, <1>7 DEF IInv, CallInv, CallOK
  <1>11. PlaceInv'
    BY <1>1, <1>7, <1>8, DecisionFacts DEF IInv, PlaceInv
  <1>12. CreatingInv'
    BY <1>1, <1>5, <1>6, <1>7 DEF IInv, CreatingInv, CreatingOK, Current
  <1>13. EscalationMatchesAudit'
    BY <1>1, <1>7, <1>8, DecisionFacts DEF IInv, EscalationMatchesAudit, Current, Worker
  <1>14. HookInv'
    BY <1>1 DEF IInv, HookInv, HookOK
  <1>15. GotInv'
    <2>1. \A b \in Calls : call[b].got \subseteq Answers
      BY <1>3 DEF CallState
    <2> QED
      BY <1>5, <1>6, <1>7, <1>18, <2>1 DEF IInv, GotInv, GotOK
  <1>16. CacheInv'
    <2>1. \A q \in Keys : cache[q] # Null => cache[q] \in Answers
      BY <1>3 DEF TypeOK
    <2> QED
      BY <1>1, <1>18, <2>1 DEF IInv, CacheInv
  <1>17. EndInv'
    <2>1. \A b \in Calls : Running(b)' => mode[call'[b].worker] \in {"up", "draining"}
      BY <1>1, <1>5, <1>6, <1>7 DEF IInv, EndInv, Running
    <2>2. \A d \in Decisions : audit[d] # "none" => Worker(d)' = Worker(d)
      BY <1>7, <1>8, DecisionFacts DEF Worker
    <2> QED
      BY <1>1, <2>1, <2>2 DEF IInv, EndInv
  <1> QED
    BY <1>9, <1>10, <1>11, <1>12, <1>13, <1>14, <1>15, <1>16, <1>17 DEF IInv

----------------------------------------------------------------------------
(* Steps of Redis, of the background tasks and of the processes *)

\* What no step but those of calls disturbs.
LEMMA CallsStay ==
    ASSUME IInv, UNCHANGED <<call, decision, escalated>>,
           \A d \in Decisions : audit'[d] = "none" <=> audit[d] = "none"
    PROVE  /\ CallInv'
           /\ PlaceInv'
           /\ CreatingInv'
           /\ GotInv'
           /\ \A a \in Answers : \A k : Backed(a, k) => Backed(a, k)'
           /\ \A c \in Calls : Running(c)' = Running(c)
           /\ \A d \in Decisions : Worker(d)' = Worker(d)
  <1>1. \A c \in Calls : call[c].got \subseteq Answers
    BY DEF IInv, TypeOK, CallState
  <1>2. CallInv'
    BY DEF IInv, CallInv, CallOK
  <1>3. PlaceInv'
    BY DEF IInv, PlaceInv
  <1>4. CreatingInv'
    BY DEF IInv, CreatingInv, CreatingOK, Current
  <1>7. \A a \in Answers : \A k : Backed(a, k) => Backed(a, k)'
    BY BackedStays
  <1>5. GotInv'
    BY <1>1, <1>7 DEF IInv, GotInv, GotOK
  <1>6. /\ \A c \in Calls : Running(c)' = Running(c)
        /\ \A d \in Decisions : Worker(d)' = Worker(d)
    BY DEF Running, Worker
  <1> QED
    BY <1>2, <1>3, <1>4, <1>5, <1>6, <1>7

\* Redis changes alone: it holds a backed answer or none.
LEMMA CacheStepInv ==
    ASSUME IInv, NEW k \in Keys, NEW a \in Answers \cup {Null}, a # Null => Backed(a, k),
           cache' = [cache EXCEPT ![k] = a],
           UNCHANGED <<call, decision, escalated, audit, hook, mode, awaited>>
    PROVE  IInv'
  <1>1. TypeOK
    BY DEF IInv
  <1>2. TypeOK'
    BY <1>1 DEF TypeOK
  <1>3. CallInv' /\ PlaceInv' /\ CreatingInv' /\ GotInv'
    BY CallsStay
  <1>4. EscalationMatchesAudit' /\ HookInv'
    BY DEF IInv, EscalationMatchesAudit, HookInv, HookOK, Current, Worker
  <1>5. CacheInv'
    BY <1>1 DEF TypeOK, IInv, CacheInv, Backed
  <1>6. EndInv'
    BY DEF IInv, EndInv, Running, Worker
  <1> QED
    BY <1>2, <1>3, <1>4, <1>5, <1>6 DEF IInv

LEMMA ExpireInv ==
    ASSUME IInv, NEW k \in Keys, Expire(k)
    PROVE  IInv'
  BY CacheStepInv DEF Expire

LEMMA StoreResolutionInv ==
    ASSUME IInv, NEW k \in EscKeys, StoreResolution(k)
    PROVE  IInv'
  BY CacheStepInv, EscKeysAreKeys, NullIsNoAnswer DEF StoreResolution, Answers, Backed

LEMMA AuditEndInv ==
    ASSUME IInv, NEW n \in Decisions, AuditEnd(n)
    PROVE  IInv'
  <1>1. /\ audit[n] = "running"
        /\ audit' = [audit EXCEPT ![n] = "done"]
        /\ UNCHANGED <<call, decision, escalated, hook, cache, mode, awaited>>
    BY DEF AuditEnd
  <1>2. TypeOK
    BY DEF IInv
  <1>3. /\ audit'[n] = "done"
        /\ \A d \in Decisions : d # n => audit'[d] = audit[d]
        /\ \A d \in Decisions : audit'[d] = "none" <=> audit[d] = "none"
    BY <1>1, <1>2 DEF TypeOK
  <1>4. TypeOK'
    BY <1>1, <1>2 DEF TypeOK
  <1>5. CallInv' /\ PlaceInv' /\ CreatingInv' /\ GotInv'
    BY <1>1, <1>3, CallsStay
  <1>6. EscalationMatchesAudit' /\ HookInv'
    BY <1>1, <1>3 DEF IInv, EscalationMatchesAudit, HookInv, HookOK, Current, Worker
  <1>7. CacheInv'
    <2>1. \A k \in Keys : cache[k] # Null => cache[k] \in Answers
      BY <1>2 DEF TypeOK
    <2> QED
      BY <1>1, <1>3, <2>1 DEF IInv, CacheInv, Backed, Answers
  <1>8. EndInv'
    BY <1>1, <1>3 DEF IInv, EndInv, Running, Worker
  <1> QED
    BY <1>4, <1>5, <1>6, <1>7, <1>8 DEF IInv

LEMMA PostInv ==
    ASSUME IInv, NEW n \in Decisions, Post(n)
    PROVE  IInv'
  <1>1. /\ hook[n].pc = "posting"
        /\ UNCHANGED <<call, decision, escalated, audit, cache, mode, awaited>>
    BY DEF Post
  <1>2. PICK pc \in {"done", IF hook[n].posts + 1 = Attempts THEN "done" ELSE "posting"} :
            hook' = [hook EXCEPT ![n] = [pc |-> pc, posts |-> @.posts + 1]]
    BY DEF Post
  <1>3. TypeOK /\ HookOK(n) /\ hook[n].posts \in 0..Attempts
    BY DEF IInv, HookInv, TypeOK
  <1>4. /\ hook[n].posts + 1 \in 0..Attempts
        /\ pc = "posting" => hook[n].posts + 1 < Attempts
    BY <1>1, <1>3, AttemptsNat DEF HookOK
  <1>5. /\ hook'[n].pc = pc
        /\ hook'[n].posts = hook[n].posts + 1
        /\ \A d \in Decisions : d # n => hook'[d] = hook[d]
        /\ hook' \in [Decisions -> [pc : {"none", "posting", "done", "lost"},
                                    posts : 0..Attempts]]
    BY <1>2, <1>3, <1>4 DEF TypeOK
  <1>6. TypeOK'
    BY <1>1, <1>3, <1>5 DEF TypeOK
  <1>7. CallInv' /\ PlaceInv' /\ CreatingInv' /\ GotInv'
    BY <1>1, CallsStay
  <1>8. EscalationMatchesAudit'
    BY <1>1 DEF IInv, EscalationMatchesAudit, Current, Worker
  <1>9. HookInv'
    <2>1. HookOK(n)'
      <3>1. audit[n] # "none" /\ n \in escalated /\ decision[n].env = "production"
        BY <1>1, <1>3 DEF HookOK
      <3>2. hook'[n].pc # "none"
        BY <1>5
      <3>3. hook'[n].pc = "posting" => hook'[n].posts < Attempts
        BY <1>4, <1>5
      <3> QED
        BY <1>1, <3>1, <3>2, <3>3 DEF HookOK
    <2>2. \A d \in Decisions : d # n => HookOK(d)'
      BY <1>1, <1>5 DEF IInv, HookInv, HookOK
    <2> QED
      BY <2>1, <2>2 DEF HookInv
  <1>10. CacheInv' /\ EndInv'
    BY <1>1 DEF IInv, CacheInv, Backed, EndInv, Running, Worker
  <1> QED
    BY <1>6, <1>7, <1>8, <1>9, <1>10 DEF IInv

\* Every call and every scheduled decision has a process.
LEMMA WorkerFacts ==
    ASSUME IInv
    PROVE  /\ \A c \in Calls : Running(c) => call[c].worker \in Workers
           /\ \A d \in Decisions : audit[d] # "none" \/ d \in escalated => Worker(d) \in Workers
  BY DecisionFacts DEF IInv, CallInv, CallOK, PlaceInv, Running, Over, Worker

LEMMA TerminateInv ==
    ASSUME IInv, NEW w \in Workers, Terminate(w)
    PROVE  IInv'
  <1>1. /\ mode[w] = "up"
        /\ mode' = [mode EXCEPT ![w] = "draining"]
        /\ UNCHANGED <<call, decision, escalated, audit, hook, cache, awaited>>
    BY DEF Terminate
  <1>2. TypeOK
    BY DEF IInv
  <1>3. TypeOK'
    BY <1>1, <1>2 DEF TypeOK
  <1>4. CallInv' /\ PlaceInv' /\ CreatingInv' /\ GotInv'
    BY <1>1, CallsStay
  <1>5. /\ mode'[w] = "draining"
        /\ \A x \in Workers : x # w => mode'[x] = mode[x]
    BY <1>1, <1>2 DEF TypeOK
  <1>6. EscalationMatchesAudit'
    BY <1>1, <1>5, WorkerFacts DEF IInv, EscalationMatchesAudit, Current, Worker
  <1>7. HookInv' /\ CacheInv'
    BY <1>1 DEF IInv, HookInv, HookOK, CacheInv, Backed
  <1>8. EndInv'
    BY <1>1, <1>5, WorkerFacts DEF IInv, EndInv, Running, Worker
  <1> QED
    BY <1>3, <1>4, <1>6, <1>7, <1>8 DEF IInv

LEMMA GatherInv ==
    ASSUME IInv, NEW w \in Workers, Gather(w)
    PROVE  IInv'
  <1>1. /\ mode[w] = "draining"
        /\ \A c \in Calls : Running(c) => call[c].worker # w
        /\ mode' = [mode EXCEPT ![w] = "gathering"]
        /\ awaited' = [awaited EXCEPT ![w] =
                         {d \in Decisions : audit[d] = "running" /\ Worker(d) = w}]
        /\ UNCHANGED <<call, decision, escalated, audit, hook, cache>>
    BY DEF Gather
  <1>2. TypeOK
    BY DEF IInv
  <1>3. TypeOK'
    BY <1>1, <1>2 DEF TypeOK
  <1>4. CallInv' /\ PlaceInv' /\ CreatingInv' /\ GotInv'
    BY <1>1, CallsStay
  <1>5. /\ mode'[w] = "gathering"
        /\ awaited'[w] = {d \in Decisions : audit[d] = "running" /\ Worker(d) = w}
        /\ \A x \in Workers : x # w => mode'[x] = mode[x] /\ awaited'[x] = awaited[x]
    BY <1>1, <1>2 DEF TypeOK
  <1>6. EscalationMatchesAudit'
    BY <1>1, <1>5, WorkerFacts DEF IInv, EscalationMatchesAudit, Current, Worker
  <1>7. HookInv' /\ CacheInv'
    BY <1>1 DEF IInv, HookInv, HookOK, CacheInv, Backed
  <1>8. EndInv'
    <2>1. \A c \in Calls : Running(c) => mode'[call[c].worker] \in {"up", "draining"}
      BY <1>1, <1>5, WorkerFacts DEF IInv, EndInv
    <2>2. \A d \in Decisions : audit[d] = "lost" => mode'[Worker(d)] = "killed"
      BY <1>1, <1>5, WorkerFacts DEF IInv, EndInv
    <2>3. ASSUME NEW d \in Decisions, audit[d] = "running"
          PROVE  \/ mode'[Worker(d)] \in {"up", "draining"}
                 \/ mode'[Worker(d)] = "gathering" /\ d \in awaited'[Worker(d)]
      <3>1. Worker(d) \in Workers
        BY <2>3, WorkerFacts
      <3>2. CASE Worker(d) = w
        BY <1>5, <2>3, <3>2
      <3>3. CASE Worker(d) # w
        BY <1>5, <2>3, <3>1, <3>3 DEF IInv, EndInv
      <3> QED
        BY <3>2, <3>3
    <2> QED
      BY <1>1, <2>1, <2>2, <2>3 DEF EndInv, Running, Worker
  <1> QED
    BY <1>3, <1>4, <1>6, <1>7, <1>8 DEF IInv

\* What Stop leaves of the tasks.
LEMMA StopFacts ==
    ASSUME TypeOK, NEW w \in Workers, NEW last \in {"exited", "killed"}, Stop(w, last)
    PROVE  /\ mode'[w] = last
           /\ \A x \in Workers : x # w => mode'[x] = mode[x]
           /\ mode' \in [Workers -> {"up", "draining", "gathering", "exited", "killed"}]
           /\ audit' \in [Decisions -> {"none", "running", "done", "lost"}]
           /\ hook' \in [Decisions -> [pc : {"none", "posting", "done", "lost"},
                                       posts : 0..Attempts]]
           /\ \A d \in Decisions : audit'[d] = "none" <=> audit[d] = "none"
           /\ \A d \in Decisions : audit[d] = "running" /\ Worker(d) = w => audit'[d] = "lost"
           /\ \A d \in Decisions : audit[d] # "running" \/ Worker(d) # w => audit'[d] = audit[d]
           /\ \A d \in Decisions : /\ hook'[d].posts = hook[d].posts
                                   /\ hook'[d].pc = "none" <=> hook[d].pc = "none"
                                   /\ hook'[d].pc = "posting" => hook[d].pc = "posting"
  BY DEF TypeOK, Stop

\* The tables of a process that stops.
LEMMA StopInv ==
    ASSUME IInv, NEW w \in Workers, NEW last \in {"exited", "killed"}, Stop(w, last),
           UNCHANGED <<decision, escalated, cache>>
    PROVE  HookInv'
  <1>1. TypeOK
    BY DEF IInv
  <1>2. SUFFICES ASSUME NEW d \in Decisions PROVE HookOK(d)'
    BY DEF HookInv
  <1>3. HookOK(d)
    BY DEF IInv, HookInv
  <1> QED
    BY <1>1, <1>3, StopFacts DEF HookOK

LEMMA ExitInv ==
    ASSUME IInv, NEW w \in Workers, Exit(w)
    PROVE  IInv'
  <1>1. /\ mode[w] = "gathering"
        /\ \A d \in awaited[w] : audit[d] # "running"
        /\ Stop(w, "exited")
        /\ UNCHANGED <<call, decision, escalated, cache, awaited>>
    BY DEF Exit
  <1>2. TypeOK
    BY DEF IInv
  <1>3. /\ mode'[w] = "exited"
        /\ \A x \in Workers : x # w => mode'[x] = mode[x]
        /\ mode' \in [Workers -> {"up", "draining", "gathering", "exited", "killed"}]
        /\ audit' \in [Decisions -> {"none", "running", "done", "lost"}]
        /\ hook' \in [Decisions -> [pc : {"none", "posting", "done", "lost"},
                                    posts : 0..Attempts]]
        /\ \A d \in Decisions : audit'[d] = "none" <=> audit[d] = "none"
        /\ \A d \in Decisions : audit[d] # "running" \/ Worker(d) # w => audit'[d] = audit[d]
    BY <1>1, <1>2, StopFacts
  <1>4. \A d \in Decisions : Worker(d) = w => audit[d] # "running"
    BY <1>1 DEF IInv, EndInv
  <1>5. \A d \in Decisions : audit'[d] = audit[d]
    BY <1>3, <1>4
  <1>6. TypeOK'
    BY <1>1, <1>2, <1>3 DEF TypeOK
  <1>7. CallInv' /\ PlaceInv' /\ CreatingInv' /\ GotInv'
    BY <1>1, <1>5, CallsStay
  <1>8. EscalationMatchesAudit'
    BY <1>1, <1>3, <1>5, WorkerFacts DEF IInv, EscalationMatchesAudit, Current, Worker
  <1>9. HookInv'
    BY <1>1, StopInv
  <1>10. CacheInv'
    <2>1. \A k \in Keys : cache[k] # Null => cache[k] \in Answers
      BY <1>2 DEF TypeOK
    <2> QED
      BY <1>1, <1>5, <2>1 DEF IInv, CacheInv, Backed, Answers
  <1>11. EndInv'
    <2>1. \A c \in Calls : Running(c) => mode'[call[c].worker] \in {"up", "draining"}
      BY <1>1, <1>3, WorkerFacts DEF IInv, EndInv
    <2>2. \A d \in Decisions : audit[d] = "lost" => mode'[Worker(d)] = "killed"
      BY <1>1, <1>3, WorkerFacts DEF IInv, EndInv
    <2>3. \A d \in Decisions : audit[d] = "running" =>
             \/ mode'[Worker(d)] \in {"up", "draining"}
             \/ mode'[Worker(d)] = "gathering" /\ d \in awaited[Worker(d)]
      BY <1>3, <1>4, WorkerFacts DEF IInv, EndInv
    <2> QED
      BY <1>1, <1>5, <2>1, <2>2, <2>3 DEF EndInv, Running, Worker
  <1> QED
    BY <1>6, <1>7, <1>8, <1>9, <1>10, <1>11 DEF IInv

LEMMA KillInv ==
    ASSUME IInv, NEW w \in Workers, Kill(w)
    PROVE  IInv'
  <1>1. /\ mode[w] \in {"up", "draining", "gathering"}
        /\ Stop(w, "killed")
        /\ call' = [c \in Calls |-> IF Running(c) /\ call[c].worker = w
                                    THEN [call[c] EXCEPT !.pc = "lost"] ELSE call[c]]
        /\ UNCHANGED <<decision, escalated, cache, awaited>>
    BY DEF Kill
  <1>2. TypeOK /\ call \in [Calls -> CallState]
    BY DEF IInv, TypeOK
  <1>3. /\ mode'[w] = "killed"
        /\ \A x \in Workers : x # w => mode'[x] = mode[x]
        /\ mode' \in [Workers -> {"up", "draining", "gathering", "exited", "killed"}]
        /\ audit' \in [Decisions -> {"none", "running", "done", "lost"}]
        /\ hook' \in [Decisions -> [pc : {"none", "posting", "done", "lost"},
                                    posts : 0..Attempts]]
    BY <1>1, <1>2, StopFacts
  <1>4. /\ \A d \in Decisions : audit'[d] = "none" <=> audit[d] = "none"
        /\ \A d \in Decisions : audit[d] = "running" /\ Worker(d) = w => audit'[d] = "lost"
        /\ \A d \in Decisions : audit[d] # "running" \/ Worker(d) # w => audit'[d] = audit[d]
    BY <1>1, <1>2, StopFacts
  <1>5. /\ \A c \in Calls : Running(c) /\ call[c].worker = w =>
              call'[c] = [call[c] EXCEPT !.pc = "lost"]
        /\ \A c \in Calls : ~(Running(c) /\ call[c].worker = w) => call'[c] = call[c]
    BY <1>1
  <1>6. /\ call' \in [Calls -> CallState]
        /\ \A c \in Calls : /\ call'[c].worker = call[c].worker
                            /\ call'[c].key = call[c].key
                            /\ call'[c].left = call[c].left
                            /\ call'[c].got = call[c].got
    <2>1. SUFFICES ASSUME NEW c \in Calls
                   PROVE  /\ call'[c] \in CallState
                          /\ call'[c].worker = call[c].worker
                          /\ call'[c].key = call[c].key
                          /\ call'[c].left = call[c].left
                          /\ call'[c].got = call[c].got
      BY <1>1
    <2>2. CASE Running(c) /\ call[c].worker = w
      <3> DEFINE r == [call[c] EXCEPT !.pc = "lost"]
      <3>1. /\ r \in CallState
            /\ r.worker = call[c].worker /\ r.key = call[c].key
            /\ r.left = call[c].left /\ r.got = call[c].got
        BY <1>2 DEF CallState, Over
      <3>2. call'[c] = r
        BY <1>5, <2>2
      <3> HIDE DEF r
      <3> QED
        BY <3>1, <3>2
    <2>3. CASE ~(Running(c) /\ call[c].worker = w)
      BY <1>2, <1>5, <2>3
    <2> QED
      BY <2>2, <2>3
  <1>7. \A c \in Calls : call'[c].pc = "lost" \/ call'[c] = call[c]
    BY <1>2, <1>5 DEF CallState
  <1>8. \A d \in Decisions : Worker(d)' = Worker(d) /\ Current(d[1])' = Current(d[1])
    BY <1>6, DecisionFacts DEF Worker, Current
  <1>18. \A a \in Answers : \A k : Backed(a, k) => Backed(a, k)'
    BY <1>4, <1>6, DecisionFacts, BackedStays
  <1>9. TypeOK'
    BY <1>1, <1>2, <1>3, <1>6 DEF TypeOK
  <1>10. CallInv'
    <2>1. \A c \in Calls : call'[c].pc = "lost" => Running(c) \/ call'[c] = call[c]
      BY <1>5
    <2> QED
      BY <1>6, <1>7, <2>1, WorkerFacts DEF IInv, CallInv, CallOK
  <1>11. PlaceInv'
    <2>1. \A c \in Calls : call[c].pc # "idle" => call'[c].pc # "idle"
      BY <1>7
    <2> QED
      BY <1>1, <1>4, <1>6, <2>1, DecisionFacts DEF IInv, PlaceInv
  <1>12. CreatingInv'
    BY <1>1, <1>6, <1>7 DEF IInv, CreatingInv, CreatingOK, Current
  <1>13. EscalationMatchesAudit'
    <2>1. SUFFICES ASSUME NEW d \in Decisions
                   PROVE  /\ d \in escalated =>
                               \/ audit'[d] # "none"
                               \/ call'[d[1]].pc = "created" /\ d = Current(d[1])
                               \/ mode'[Worker(d)] = "killed"
                               \/ d[2] > call[d[1]].left /\ d \notin call[d[1]].got
                          /\ /\ audit'[d] # "none"
                             /\ decision[d].env = "production"
                             /\ decision[d].verdict = "ESCALATE"
                             /\ decision[d].config
                             => d \in escalated
      BY <1>1, <1>6, <1>8, DecisionFacts DEF EscalationMatchesAudit
    <2>2. d[1] \in Calls
      BY DecisionFacts
    <2>3. /\ d \in escalated =>
               \/ audit[d] # "none"
               \/ call[d[1]].pc = "created" /\ d = Current(d[1])
               \/ mode[Worker(d)] = "killed"
               \/ d[2] > call[d[1]].left /\ d \notin call[d[1]].got
          /\ /\ audit[d] # "none"
             /\ decision[d].env = "production"
             /\ decision[d].verdict = "ESCALATE"
             /\ decision[d].config
             => d \in escalated
      BY DEF IInv, EscalationMatchesAudit
    <2>4. d \in escalated => Worker(d) \in Workers
      BY WorkerFacts
    <2>5. CASE Worker(d) = w
      BY <1>3, <1>4, <2>3, <2>5
    <2>6. CASE Worker(d) # w
      <3>1. call'[d[1]] = call[d[1]]
        BY <1>5, <2>2, <2>6 DEF Worker
      <3> QED
        BY <1>3, <1>4, <2>3, <2>4, <2>6, <3>1
    <2> QED
      BY <2>5, <2>6
  <1>14. HookInv'
    BY <1>1, StopInv
  <1>15. GotInv'
    <2>1. \A c \in Calls : call[c].got \subseteq Answers
      BY <1>2 DEF CallState
    <2> QED
      BY <1>6, <1>18, <2>1 DEF IInv, GotInv, GotOK
  <1>16. CacheInv'
    <2>1. \A k \in Keys : cache[k] # Null => cache[k] \in Answers
      BY <1>2 DEF TypeOK
    <2> QED
      BY <1>1, <1>18, <2>1 DEF IInv, CacheInv
  <1>17. EndInv'
    <2>1. ASSUME NEW c \in Calls, Running(c)'
          PROVE  mode'[call'[c].worker] \in {"up", "draining"}
      <3>1. call'[c] = call[c] /\ Running(c)
        BY <1>7, <2>1 DEF Running, Over
      <3>2. call[c].worker # w
        BY <1>2, <1>5, <2>1, <3>1 DEF Running, Over, CallState
      <3> QED
        BY <1>3, <3>1, <3>2, WorkerFacts DEF IInv, EndInv
    <2>2. ASSUME NEW d \in Decisions, audit'[d] # "none"
          PROVE  Worker(d) \in Workers
      BY <1>4, <2>2, WorkerFacts
    <2>3. \A d \in Decisions : audit'[d] = "lost" => mode'[Worker(d)] = "killed"
      BY <1>3, <1>4, <2>2 DEF IInv, EndInv
    <2>4. ASSUME NEW d \in Decisions, audit'[d] = "running"
          PROVE  \/ mode'[Worker(d)] \in {"up", "draining"}
                 \/ mode'[Worker(d)] = "gathering" /\ d \in awaited[Worker(d)]
      <3>1. audit[d] = "running" /\ Worker(d) # w
        BY <1>4, <2>4
      <3> QED
        BY <1>3, <2>2, <2>4, <3>1 DEF IInv, EndInv
    <2> QED
      BY <1>1, <1>8, <2>1, <2>3, <2>4 DEF EndInv
  <1> QED
    BY <1>9, <1>10, <1>11, <1>12, <1>13, <1>14, <1>15, <1>16, <1>17 DEF IInv

----------------------------------------------------------------------------
LEMMA StutterInv == IInv /\ UNCHANGED vars => IInv'
  <1> SUFFICES ASSUME IInv, UNCHANGED vars PROVE IInv'
    OBVIOUS
  <1>1. UNCHANGED <<call, decision, escalated, audit, hook, cache, mode, awaited>>
    BY DEF vars
  <1>2. CallInv' /\ PlaceInv' /\ CreatingInv' /\ GotInv'
    BY <1>1, CallsStay
  <1>3. TypeOK' /\ EscalationMatchesAudit' /\ HookInv'
    BY <1>1 DEF IInv, TypeOK, EscalationMatchesAudit, HookInv, HookOK, Current, Worker
  <1>4. CacheInv' /\ EndInv'
    BY <1>1 DEF IInv, CacheInv, Backed, EndInv, Running, Worker
  <1> QED
    BY <1>2, <1>3, <1>4 DEF IInv

LEMMA NextInv == IInv /\ [Next]_vars => IInv'
  <1> SUFFICES ASSUME IInv, [Next]_vars PROVE IInv'
    OBVIOUS
  <1>1. ASSUME NEW c \in Calls, NEW w \in Workers, NEW kind \in {"single", "batch"},
               NEW k \in Keys \cup {Null}, NEW n \in 1..MaxBatch, Arrive(c, w, kind, k, n)
        PROVE  IInv'
    BY <1>1, ArriveInv
  <1>2. ASSUME NEW c \in Calls, CallStep(c)
        PROVE  IInv'
    BY <1>2, LookupInv, EvaluateInv, CreateRowInv, FinishEscalationInv, ItemFailInv,
       StoreInv, RedisFailInv DEF CallStep
  <1>3. ASSUME NEW k \in Keys, Expire(k) \/ (k \in EscKeys /\ StoreResolution(k))
        PROVE  IInv'
    BY <1>3, ExpireInv, StoreResolutionInv
  <1>4. ASSUME NEW d \in Decisions, AuditEnd(d) \/ Post(d)
        PROVE  IInv'
    BY <1>4, AuditEndInv, PostInv
  <1>5. ASSUME NEW w \in Workers, Terminate(w) \/ Gather(w) \/ Exit(w) \/ Kill(w)
        PROVE  IInv'
    BY <1>5, TerminateInv, GatherInv, ExitInv, KillInv
  <1> QED
    BY <1>1, <1>2, <1>3, <1>4, <1>5, StutterInv, EscKeysAreKeys DEF Next

LEMMA Invariance == Spec => []IInv
  BY InitInv, NextInv, PTL DEF Spec

----------------------------------------------------------------------------
(* When one idempotency key has one decision *)

\* The keys of which calls have overlapped, or an answer was lost. It records
\* what happens and changes nothing.
VARIABLE excused

\* A step by which Redis is without the decision made under key k: it expires or
\* is overwritten, a call does not get to read what Redis holds, or the call that
\* decided ends before Redis holds a decision.
Loses(k) ==
    \/ cache[k] \in Decisions /\ cache'[k] # cache[k]
    \/ \E c \in Calls : /\ call[c].key = k
                        /\ call[c].pc = "looking"
                        /\ call'[c].pc = "evaluating"
                        /\ cache[k] # Null
    \/ \E c \in Calls : /\ call[c].key = k
                        /\ call[c].pc = "caching"
                        /\ call'[c].pc # "caching"
                        /\ cache'[k] \notin Decisions

\* Two calls with key k run at the same time.
Overlap(k) ==
    \E b, c \in Calls :
        b # c /\ Running(b) /\ Running(c) /\ call[b].key = k /\ call[c].key = k

NextExcused == Next /\ excused' = excused \cup {k \in Keys : Loses(k) \/ Overlap(k)'}

SpecExcused == Init /\ excused = {} /\ [][NextExcused]_<<vars, excused>>

\* d was decided under key k, and its audit entry scheduled.
Under(d, k) == audit[d] # "none" /\ call[d[1]].key = k

DuplicatesExcused ==
    \A k \in Keys : \A d, e \in Decisions : Under(d, k) /\ Under(e, k) /\ d # e => k \in excused

Deciding == {"evaluating", "creating", "created"}

\* Key k without an excuse: its calls come one after the other, one of them has
\* decided at most, and then it is about to cache its answer or Redis holds it,
\* so that a call that decides knows that nobody else has.
Once(k) ==
    /\ ~Overlap(k)
    /\ \A d \in Decisions : Under(d, k) => call[d[1]].pc = "caching" \/ cache[k] = d
    /\ \A c \in Calls : call[c].pc \in Deciding /\ call[c].key = k =>
          \A d \in Decisions : ~Under(d, k)
    /\ \A d, e \in Decisions : Under(d, k) /\ Under(e, k) => d = e

OnceInv == \A k \in Keys \ excused : Once(k)

\* What a call does while nothing is decided: it may take a key when it arrives,
\* and it begins to decide under k if nobody has.
Goes(c, k) ==
    /\ call[c].pc = "idle" \/ call'[c].key = call[c].key
    /\ call'[c].pc \in Deciding /\ call'[c].key = k => \A d \in Decisions : ~Under(d, k)

LEMMA OnceGoes ==
    ASSUME IInv, IInv', NEW k \in Keys, Once(k), ~Loses(k), ~Overlap(k)',
           \A c \in Calls : Goes(c, k),
           \A d \in Decisions : audit'[d] # "none" => audit[d] # "none"
    PROVE  Once(k)'
  <1>1. ASSUME NEW d \in Decisions, Under(d, k)'
        PROVE  Under(d, k) /\ d[1] \in Calls
    <2>1. d[1] \in Calls /\ audit[d] # "none" /\ call[d[1]].pc # "idle"
      BY <1>1, DecisionFacts DEF Under, IInv, PlaceInv
    <2> QED
      BY <1>1, <2>1 DEF Under, Goes
  <1>2. ASSUME NEW d \in Decisions, Under(d, k)'
        PROVE  call'[d[1]].pc = "caching" \/ cache'[k] = d
    <2>1. Under(d, k) /\ d[1] \in Calls /\ call[d[1]].key = k
      BY <1>1, <1>2 DEF Under
    <2>2. CASE cache[k] = d
      BY <2>2 DEF Loses
    <2>3. CASE call[d[1]].pc = "caching" /\ cache'[k] \in Decisions
      <3>1. cache'[k] # Null /\ cache'[k] # Resolution
        BY <2>3, NullIsNoAnswer, ResolutionIsNoDecision
      <3>2. audit'[cache'[k]] # "none" /\ call'[cache'[k][1]].key = k
        BY <3>1 DEF IInv, CacheInv, Backed
      <3>3. Under(cache'[k], k)
        BY <1>1, <2>3, <3>2 DEF Under
      <3> QED
        BY <2>1, <2>3, <3>3 DEF Once
    <2>4. CASE call[d[1]].pc = "caching" /\ cache'[k] \notin Decisions
      BY <2>1, <2>4 DEF Loses
    <2> QED
      BY <2>1, <2>2, <2>3, <2>4 DEF Once
  <1>3. ASSUME NEW c \in Calls, NEW d \in Decisions, call'[c].pc \in Deciding, call'[c].key = k
        PROVE  ~Under(d, k)'
    BY <1>1, <1>3 DEF Goes
  <1>4. \A d, e \in Decisions : Under(d, k)' /\ Under(e, k)' => d = e
    BY <1>1 DEF Once
  <1> QED
    BY <1>2, <1>3, <1>4 DEF Once

\* One call goes, the others stay.
LEMMA OnceCall ==
    ASSUME IInv, IInv', NEW k \in Keys, Once(k), ~Loses(k), ~Overlap(k)', UNCHANGED audit,
           NEW c \in Calls, call' = [call EXCEPT ![c] = call'[c]], Goes(c, k)
    PROVE  Once(k)'
  <1>1. \A b \in Calls : b # c => call'[b] = call[b]
    BY DEF IInv, TypeOK
  <1>2. \A b \in Calls : b # c => Goes(b, k)
    BY <1>1 DEF Goes, Once
  <1> QED
    BY <1>2, OnceGoes

\* The decision of c is scheduled: it is the only one under its key.
LEMMA OnceConclude ==
    ASSUME IInv, NEW k \in Keys, Once(k), ~Overlap(k)',
           NEW c \in Calls, call[c].pc \in Deciding, Conclude(c), UNCHANGED cache
    PROVE  Once(k)'
  <1> DEFINE new == Current(c)
             last == IF call[c].key # Null THEN "caching" ELSE AfterItem(c)
  <1>1. /\ call \in [Calls -> CallState] /\ call[c] \in CallState
        /\ audit \in [Decisions -> {"none", "running", "done", "lost"}]
        /\ call[c].left >= 1 /\ Running(c)
    BY DEF IInv, TypeOK, CallInv, CallOK, Running, Over, Deciding
  <1>2. new \in Decisions /\ new[1] = c
    BY <1>1, CurrentFacts DEF IInv
  <1>3. /\ \A b \in Calls : b # c => call'[b] = call[b]
        /\ call'[c].key = call[c].key
        /\ call'[c].pc = last
    <2>1. call' = [call EXCEPT ![c] = [call[c] EXCEPT !.got = @ \cup {new}, !.left = @ - 1,
                                                      !.pc = last]]
      BY <1>1 DEF Conclude, CallState
    <2> HIDE DEF new, last
    <2> QED
      BY <1>1, <2>1 DEF CallState
  <1>4. \A d \in Decisions : d # new => audit'[d] = audit[d]
    BY <1>1 DEF Conclude
  <1>5. \A b \in Calls : call'[b].key = call[b].key
    BY <1>3
  <1>6. call[c].key = k => call'[c].pc = "caching"
    BY <1>3, NullIsNoKey
  <1> HIDE DEF new, last
  <1>7. \A d \in Decisions : Under(d, k)' => (d = new /\ call[c].key = k) \/ Under(d, k)
    BY <1>2, <1>4, <1>5, DecisionFacts DEF Under
  <1>8. call[c].key = k => \A d \in Decisions : ~Under(d, k)
    BY DEF Once
  <1>9. ASSUME NEW d \in Decisions, Under(d, k)'
        PROVE  call'[d[1]].pc = "caching" \/ cache'[k] = d
    <2>1. CASE d = new /\ call[c].key = k
      BY <1>2, <1>6, <2>1
    <2>2. CASE Under(d, k)
      <3>1. d[1] \in Calls /\ d[1] # c
        BY <1>8, <2>2, DecisionFacts DEF Under
      <3> QED
        BY <1>3, <2>2, <3>1 DEF Once
    <2> QED
      BY <1>7, <1>9, <2>1, <2>2
  <1>10. ASSUME NEW b \in Calls, NEW d \in Decisions, call'[b].pc \in Deciding, call'[b].key = k
         PROVE  ~Under(d, k)'
    <2>1. b # c
      BY <1>5, <1>6, <1>10 DEF Deciding
    <2>2. call[b].pc \in Deciding /\ Running(b) /\ call[b].key = k
      BY <1>3, <1>10, <2>1 DEF Running, Deciding, Over
    <2>3. call[c].key # k
      BY <1>1, <2>1, <2>2 DEF Once, Overlap
    <2> QED
      BY <1>7, <2>2, <2>3 DEF Once
  <1>11. \A d, e \in Decisions : Under(d, k)' /\ Under(e, k)' => d = e
    BY <1>7, <1>8 DEF Once
  <1> QED
    BY <1>9, <1>10, <1>11 DEF Once

\* A call that finds no answer in Redis: nobody has decided under its key.
LEMMA OnceLookup ==
    ASSUME IInv, IInv', NEW k \in Keys, Once(k), ~Loses(k), ~Overlap(k)',
           NEW c \in Calls, Lookup(c)
    PROVE  Once(k)'
  <1>1. /\ call \in [Calls -> CallState] /\ call[c].pc = "looking" /\ Running(c)
        /\ UNCHANGED <<audit, cache>>
    BY DEF Lookup, IInv, TypeOK, Running, Over
  <1>2. /\ call' = [call EXCEPT ![c] = call'[c]]
        /\ call'[c].key = call[c].key
        /\ call'[c].pc \in {"answered", "evaluating"}
    BY <1>1 DEF Lookup, CallState
  <1>3. ASSUME call'[c].pc \in Deciding, call'[c].key = k, NEW d \in Decisions, Under(d, k)
        PROVE  FALSE
    <2>1. d[1] \in Calls /\ call[d[1]].key = k /\ d # Null
      BY <1>3, NullIsNoAnswer, DecisionFacts DEF Under
    <2>2. call'[c].pc = "evaluating" /\ cache[k] = Null
      BY <1>1, <1>2, <1>3 DEF Deciding, Loses
    <2>3. call[d[1]].pc = "caching" /\ Running(d[1])
      BY <1>3, <2>1, <2>2 DEF Once, Running, Over
    <2> QED
      BY <1>1, <1>2, <1>3, <2>1, <2>3 DEF Once, Overlap
  <1>4. Goes(c, k)
    BY <1>2, <1>3 DEF Goes
  <1> QED
    BY <1>1, <1>2, <1>4, OnceCall

LEMMA OnceStep ==
    ASSUME IInv, IInv', NEW k \in Keys, Once(k), ~Loses(k), ~Overlap(k)', [Next]_vars
    PROVE  Once(k)'
  <1>0. /\ call \in [Calls -> CallState]
        /\ audit \in [Decisions -> {"none", "running", "done", "lost"}]
    BY DEF IInv, TypeOK
  <1>1. ASSUME NEW c \in Calls, NEW w \in Workers, NEW kind \in {"single", "batch"},
               NEW h \in Keys \cup {Null}, NEW n \in 1..MaxBatch, Arrive(c, w, kind, h, n)
        PROVE  Once(k)'
    <2>1. PICK pc \in {"refused", IF h = Null THEN "evaluating" ELSE "looking"} :
            call' = [call EXCEPT ![c] = [pc |-> pc, kind |-> kind, worker |-> w, key |-> h,
                                         left |-> n, got |-> {}]]
      BY <1>1 DEF Arrive
    <2>2. call' = [call EXCEPT ![c] = call'[c]] /\ call'[c].pc = pc /\ call'[c].key = h
      BY <1>0, <2>1
    <2>3. Goes(c, k)
      BY <1>1, <2>2, NullIsNoKey DEF Arrive, Goes, Deciding
    <2> QED
      BY <1>1, <2>2, <2>3, OnceCall DEF Arrive
  <1>2. ASSUME NEW c \in Calls, NEW env \in Environments, NEW v \in Verdicts,
               NEW config \in BOOLEAN, Evaluate(c, env, v, config)
        PROVE  Once(k)'
    <2>1. call[c].pc = "evaluating" /\ UNCHANGED cache
      BY <1>2 DEF Evaluate
    <2>2. CASE Conclude(c)
      BY <2>1, <2>2, OnceConclude DEF Deciding
    <2>3. CASE call' = [call EXCEPT ![c].pc = "creating"] /\ UNCHANGED audit
      <3>1. /\ call' = [call EXCEPT ![c] = call'[c]] /\ call'[c].key = call[c].key
        BY <1>0, <2>3 DEF CallState
      <3>2. Goes(c, k)
        BY <2>1, <3>1 DEF Goes, Once, Deciding
      <3> QED
        BY <2>3, <3>1, <3>2, OnceCall
    <2> QED
      BY <1>2, <2>2, <2>3 DEF Evaluate
  <1>3. ASSUME NEW c \in Calls, CreateRow(c) PROVE Once(k)'
    <2>1. /\ call' = [call EXCEPT ![c] = call'[c]] /\ call'[c].key = call[c].key
          /\ call[c].pc = "creating" /\ UNCHANGED audit
      BY <1>0, <1>3 DEF CreateRow, CallState
    <2>2. Goes(c, k)
      BY <2>1 DEF Goes, Once, Deciding
    <2> QED
      BY <2>1, <2>2, OnceCall
  <1>4. ASSUME NEW c \in Calls, FinishEscalation(c) PROVE Once(k)'
    BY <1>4, OnceConclude DEF FinishEscalation, Deciding
  <1>5. ASSUME NEW c \in Calls, ItemFail(c) PROVE Once(k)'
    <2>1. /\ call' = [call EXCEPT ![c] = call'[c]] /\ call'[c].key = call[c].key
          /\ call[c].pc \in Deciding /\ UNCHANGED audit
      BY <1>0, <1>5 DEF ItemFail, CallState, Deciding
    <2>2. Goes(c, k)
      BY <2>1 DEF Goes, Once
    <2> QED
      BY <2>1, <2>2, OnceCall
  <1>6. ASSUME NEW c \in Calls, Store(c) \/ RedisFail(c) PROVE Once(k)'
    <2>1. /\ call' = [call EXCEPT ![c] = call'[c]] /\ call'[c].key = call[c].key
          /\ call'[c].pc \in {"answered", "error"} /\ UNCHANGED audit
      BY <1>0, <1>6 DEF Store, RedisFail, CallState
    <2>2. Goes(c, k)
      BY <2>1 DEF Goes, Deciding
    <2> QED
      BY <2>1, <2>2, OnceCall
  <1>7. ASSUME NEW w \in Workers, Kill(w) PROVE Once(k)'
    <2>1. ASSUME NEW c \in Calls
          PROVE  call'[c] = call[c] \/ call'[c] = [call[c] EXCEPT !.pc = "lost"]
      BY <1>7 DEF Kill
    <2>2. ASSUME NEW c \in Calls
          PROVE  call'[c] = call[c] \/ (call'[c].pc = "lost" /\ call'[c].key = call[c].key)
      <3> DEFINE dead == [call[c] EXCEPT !.pc = "lost"]
      <3>1. dead.pc = "lost" /\ dead.key = call[c].key
        BY <1>0 DEF CallState
      <3> QED
        BY <2>1, <3>1
    <2>3. \A c \in Calls : Goes(c, k)
      BY <2>2 DEF Goes, Once, Deciding
    <2>4. \A d \in Decisions : audit'[d] # "none" => audit[d] # "none"
      BY <1>0, <1>7 DEF Kill, Stop
    <2> QED
      BY <2>3, <2>4, OnceGoes
  <1>8. CASE UNCHANGED call /\ \A d \in Decisions : audit'[d] # "none" => audit[d] # "none"
    <2>1. \A c \in Calls : Goes(c, k)
      BY <1>8 DEF Goes, Once
    <2> QED
      BY <1>8, <2>1, OnceGoes
  <1>9. ASSUME NEW d \in Decisions, AuditEnd(d) \/ Post(d) PROVE Once(k)'
    BY <1>0, <1>8, <1>9 DEF AuditEnd, Post
  <1>10. ASSUME NEW w \in Workers, Terminate(w) \/ Gather(w) \/ Exit(w) PROVE Once(k)'
    BY <1>0, <1>8, <1>10 DEF Terminate, Gather, Exit, Stop
  <1>11. ASSUME NEW h \in Keys, Expire(h) \/ StoreResolution(h) PROVE Once(k)'
    BY <1>8, <1>11 DEF Expire, StoreResolution
  <1>12. CASE UNCHANGED vars
    BY <1>8, <1>12 DEF vars
  <1> QED
    BY <1>1, <1>2, <1>3, <1>4, <1>5, <1>6, <1>7, <1>9, <1>10, <1>11, <1>12, EscKeysAreKeys,
       OnceLookup DEF Next, CallStep

----------------------------------------------------------------------------
(* Theorems *)

\* The variables of the governor keep their types, whatever fails or stops.
THEOREM TypeCorrect == Spec => []TypeOK
  <1>1. IInv => TypeOK
    BY DEF IInv
  <1> QED
    BY <1>1, Invariance, PTL

\* _make_decision: a row in table escalations has its audit entry scheduled and
\* a scheduled production ESCALATE has its row, but for a process that is, or
\* was killed, between the two.
THEOREM EscalationMatchesAuditHolds == Spec => []EscalationMatchesAudit
  <1>1. IInv => EscalationMatchesAudit
    BY DEF IInv
  <1> QED
    BY <1>1, Invariance, PTL

\* EscalationService.create: a webhook goes out only for a production ESCALATE
\* whose row is committed.
THEOREM WebhookBackedHolds == Spec => []WebhookBacked
  <1>1. IInv => WebhookBacked
    BY DEF IInv, HookInv, HookOK, WebhookBacked
  <1> QED
    BY <1>1, Invariance, PTL

\* evaluate: a decision, told or not, or replayed from Redis, was scheduled for
\* the audit trail and made under the idempotency key of its caller.
THEOREM AnswerBackedHolds == Spec => []AnswerBacked
  <1>1. IInv => AnswerBacked
    BY DEF IInv, GotInv, GotOK, CacheInv, AnswerBacked
  <1> QED
    BY <1>1, Invariance, PTL

\* lifespan: a process that exits gracefully leaves no audit task unfinished.
THEOREM GracefulExitLosesNothingHolds == Spec => []GracefulExitLosesNothing
  <1>1. IInv => GracefulExitLosesNothing
    BY DEF IInv, EndInv, GracefulExitLosesNothing
  <1> QED
    BY <1>1, Invariance, PTL

(***************************************************************************)
(* evaluate, with any failures of Redis and any time to live: a second     *)
(* decision under one idempotency key is made only after calls with that   *)
(* key overlapped, or after Redis was left without the first decision: it  *)
(* expired, was overwritten by the answer of an approve or reject call,    *)
(* was not read, or the call that made it ended before it was stored.      *)
(* There is no other way to break sdk/client.py:111: not by calls that are *)
(* refused, fail or escalate, in other processes or under other keys.      *)
(***************************************************************************)
THEOREM OneDecisionPerKey == SpecExcused => []DuplicatesExcused
  <1>1. Init /\ excused = {} => IInv /\ OnceInv
    <2>1. Init => \A k \in Keys : Once(k)
      BY DEF Init, Once, Under, Deciding, Overlap, Running
    <2> QED
      BY <2>1, InitInv DEF OnceInv
  <1>2. IInv /\ OnceInv /\ [NextExcused]_<<vars, excused>> => IInv' /\ OnceInv'
    <2> SUFFICES ASSUME IInv, OnceInv, [NextExcused]_<<vars, excused>>
                 PROVE  IInv' /\ OnceInv'
      OBVIOUS
    <2>1. [Next]_vars
      BY DEF NextExcused
    <2>2. IInv'
      BY <2>1, NextInv
    <2>3. CASE UNCHANGED <<vars, excused>>
      BY <2>2, <2>3 DEF vars, OnceInv, Once, Overlap, Running, Under
    <2>4. CASE NextExcused
      <3>1. ASSUME NEW k \in Keys, k \notin excused'
            PROVE  Once(k)'
        <4>1. k \notin excused /\ ~Loses(k) /\ ~Overlap(k)'
          BY <2>4, <3>1 DEF NextExcused
        <4> QED
          BY <2>1, <2>2, <4>1, OnceStep DEF OnceInv
      <3> QED
        BY <2>2, <3>1 DEF OnceInv
    <2> QED
      BY <2>2, <2>3, <2>4
  <1>3. OnceInv => DuplicatesExcused
    BY DEF OnceInv, Once, DuplicatesExcused
  <1> QED
    BY <1>1, <1>2, <1>3, PTL DEF SpecExcused

====
