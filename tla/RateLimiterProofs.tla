---- MODULE RateLimiterProofs ----
(***************************************************************************)
(* Theorems about RateLimiter, for any requests, clients, workers, limit,  *)
(* window and table size, and any delay of at most a window.               *)
(***************************************************************************)
EXTENDS RateLimiter, FiniteSetTheorems, TLAPS

\* A request past its arrival has a client; one that may still be counted has
\* not been, and is young enough for its key to be alive.
ArrivedOK(r) ==
    /\ request[r].pc # "idle" => request[r].client \in Clients /\ request[r].worker \in Workers
    /\ request[r].at <= now
    /\ request[r].pc \in {"idle", "counting"} => request[r].slot = 0
    /\ request[r].pc = "counting" => now <= request[r].at + Delay

ArrivedInv == \A r \in Requests : ArrivedOK(r)

\* A counted request lies within the counter of its window, which lives until
\* no request of that window can be counted any more.
CountedOK(r) ==
    LET k == hits[request[r].client][WindowOf(r)]
    IN request[r].slot > 0 =>
          /\ request[r].size <= request[r].slot
          /\ request[r].slot <= k.n
          /\ k.until >= Window * WindowOf(r) + 2 * Window

CountedInv == \A r \in Requests : CountedOK(r)

\* Counted requests of one window have different places.
Apart(r, q) ==
    /\ request[r].slot > 0
    /\ request[q].slot > 0
    /\ request[r].client = request[q].client
    /\ WindowOf(r) = WindowOf(q)
    => \/ request[r].slot <= request[q].slot - request[q].size
       \/ request[q].slot <= request[r].slot - request[r].size

ApartInv == \A r \in Requests : \A q \in Requests \ {r} : Apart(r, q)

\* What an answer of Redis says.
AnswerOK(r) ==
    request[r].by = "redis" => /\ request[r].slot > 0
                               /\ request[r].pc = "admitted" => request[r].slot <= Limit

AnswerInv == \A r \in Requests : AnswerOK(r)

IInv == TypeOK /\ ArrivedInv /\ CountedInv /\ ApartInv /\ AnswerInv

----------------------------------------------------------------------------
\* A tick lies in its window.
LEMMA WindowFacts ==
    ASSUME NEW t \in Nat
    PROVE  /\ t \div Window \in Nat
           /\ Window * (t \div Window) <= t
           /\ t < Window * (t \div Window) + Window
           /\ t \div Window <= t
  <1>1. /\ t \div Window \in Nat
        /\ Window * (t \div Window) <= t
        /\ t < Window * (t \div Window) + Window
    BY WindowNat
  <1>2. t \div Window <= t
    BY WindowNat
  <1> QED
    BY <1>1, <1>2

LEMMA ClockFacts ==
    ASSUME TypeOK, NEW r \in Requests
    PROVE  /\ request[r].at \in Nat
           /\ WindowOf(r) \in 0..MaxTime
           /\ WindowOf(r) \in Nat
           /\ Window * WindowOf(r) <= request[r].at
           /\ request[r].at < Window * WindowOf(r) + Window
  <1>1. request[r].at \in 0..MaxTime
    BY DEF TypeOK, RequestState
  <1> DEFINE i == request[r].at \div Window
  <1>2. /\ i \in Nat
        /\ Window * i <= request[r].at
        /\ request[r].at < Window * i + Window
        /\ i <= request[r].at
    BY <1>1, WindowFacts, MaxTimeNat
  <1>3. WindowOf(r) = i
    BY DEF WindowOf
  <1> HIDE DEF i
  <1>4. i \in 0..MaxTime
    BY <1>1, <1>2, MaxTimeNat
  <1> QED
    BY <1>1, <1>2, <1>3, <1>4, MaxTimeNat

LEMMA InitInv == Init => IInv
  <1> SUFFICES ASSUME Init PROVE IInv
    OBVIOUS
  <1> USE DEF Init
  <1>1. TypeOK
    BY MaxTimeNat, MaxSizeNat, MaxKeysNat DEF TypeOK, RequestState
  <1>2. ArrivedInv
    BY DEF ArrivedInv, ArrivedOK
  <1>3. CountedInv /\ ApartInv /\ AnswerInv
    BY NullIsNoAnswer DEF CountedInv, CountedOK, ApartInv, Apart, AnswerInv, AnswerOK
  <1> QED
    BY <1>1, <1>2, <1>3 DEF IInv

----------------------------------------------------------------------------
(* Steps of one request *)

\* Request r goes on to x, and no counter changes.
LEMMA RequestStep ==
    ASSUME IInv, NEW r \in Requests, NEW x \in RequestState,
           request' = [request EXCEPT ![r] = x],
           UNCHANGED <<now, hits>>,
           TypeOK',
           \/ x.slot = 0
           \/ /\ x.slot = request[r].slot
              /\ x.client = request[r].client
              /\ x.size = request[r].size
              /\ x.at = request[r].at,
           x.pc # "idle", x.client \in Clients, x.worker \in Workers, x.at <= now,
           x.pc = "counting" => x.slot = 0 /\ now <= x.at + Delay,
           x.by = "redis" => /\ x.slot = request[r].slot
                             /\ request[r].by = "redis"
                             /\ x.pc # "admitted"
    PROVE  IInv'
  <1>1. /\ request'[r] = x
        /\ \A q \in Requests : q # r => request'[q] = request[q]
    BY DEF IInv, TypeOK
  <1>2. \A q \in Requests : q # r => WindowOf(q)' = WindowOf(q)
    BY <1>1 DEF WindowOf
  <1>3. ArrivedInv'
    BY <1>1 DEF IInv, ArrivedInv, ArrivedOK
  <1>4. CountedInv'
    <2>1. \A q \in Requests : q # r => CountedOK(q)'
      BY <1>1, <1>2 DEF IInv, CountedInv, CountedOK
    <2>2. CASE x.slot = 0
      BY <1>1, <2>1, <2>2 DEF CountedInv, CountedOK
    <2>3. CASE /\ x.slot = request[r].slot
               /\ x.client = request[r].client
               /\ x.size = request[r].size
               /\ x.at = request[r].at
      <3>1. WindowOf(r)' = WindowOf(r)
        BY <1>1, <2>3 DEF WindowOf
      <3>2. CountedOK(r)'
        BY <1>1, <2>3, <3>1 DEF IInv, CountedInv, CountedOK
      <3> QED
        BY <2>1, <3>2 DEF CountedInv
    <2> QED
      BY <2>2, <2>3
  <1>5. ApartInv'
    <2>1. SUFFICES ASSUME NEW p \in Requests, NEW q \in Requests \ {p}
                   PROVE  Apart(p, q)'
      BY DEF ApartInv
    <2>2. Apart(p, q)
      BY DEF IInv, ApartInv
    <2>3. CASE x.slot = 0
      BY <1>1, <1>2, <2>2, <2>3 DEF Apart
    <2>4. CASE /\ x.slot = request[r].slot
               /\ x.client = request[r].client
               /\ x.size = request[r].size
               /\ x.at = request[r].at
      <3>1. WindowOf(r)' = WindowOf(r)
        BY <1>1, <2>4 DEF WindowOf
      <3> QED
        BY <1>1, <1>2, <2>2, <2>4, <3>1 DEF Apart
    <2> QED
      BY <2>3, <2>4
  <1>6. AnswerInv'
    BY <1>1 DEF IInv, AnswerInv, AnswerOK
  <1> QED
    BY <1>3, <1>4, <1>5, <1>6 DEF IInv

\* What the table of a worker does to a request.
LEMMA LocalCheckFacts ==
    ASSUME TypeOK, NEW r \in Requests, NEW c \in Clients, NEW w \in Workers,
           NEW n \in 1..MaxSize, NEW t \in 0..MaxTime, LocalCheck(r, c, w, n, t),
           UNCHANGED <<now, linked, hits>>
    PROVE  /\ TypeOK'
           /\ \E x \in RequestState :
                 /\ request' = [request EXCEPT ![r] = x]
                 /\ x.pc \in {"admitted", "refused"}
                 /\ x.client = c
                 /\ x.worker = w
                 /\ x.size = n
                 /\ x.at = t
                 /\ x.slot = request[r].slot
                 /\ x.by = "worker"
  <1> DEFINE evicted == Evicted(w)
             table == IF c \in Range(keys[w]) THEN store[w]
                      ELSE [d \in Clients |-> IF d \in evicted THEN {} ELSE store[w][d]]
             young == {q \in table[c] : Young(q, t)}
             refused == Full(young, n)
             x == [pc |-> IF refused THEN "refused" ELSE "admitted", client |-> c,
                   worker |-> w, size |-> n, at |-> t, slot |-> request[r].slot,
                   by |-> "worker"]
  <1>1. /\ keys' = [keys EXCEPT ![w] =
                      IF c \in Range(@) THEN @
                      ELSE Append(IF evicted = {} THEN @ ELSE Tail(@), c)]
        /\ store' = [store EXCEPT ![w] =
                       IF refused THEN table ELSE [table EXCEPT ![c] = young \cup {r}]]
        /\ request' = [request EXCEPT ![r] =
                         [pc |-> IF refused THEN "refused" ELSE "admitted", client |-> c,
                          worker |-> w, size |-> n, at |-> t, slot |-> @.slot,
                          by |-> "worker"]]
    BY DEF LocalCheck
  <1>2. keys[w] \in Seq(Clients) /\ Len(keys[w]) <= MaxKeys
    BY DEF TypeOK
  <1>3. table \in [Clients -> SUBSET Requests]
    <2>1. store[w] \in [Clients -> SUBSET Requests]
      BY DEF TypeOK
    <2> HIDE DEF evicted
    <2> QED
      BY <2>1
  <1>4. x \in RequestState /\ request' = [request EXCEPT ![r] = x]
    BY <1>1 DEF TypeOK, RequestState
  <1>5. request' \in [Requests -> RequestState]
    <2> HIDE DEF x
    <2> QED
      BY <1>4 DEF TypeOK
  <1>6. store' \in [Workers -> [Clients -> SUBSET Requests]]
    <2> HIDE DEF table, refused
    <2>1. young \in SUBSET Requests
      BY <1>3
    <2> HIDE DEF young
    <2> QED
      BY <1>1, <1>3, <2>1 DEF TypeOK
  <1>7. evicted = {} <=> Len(keys[w]) < MaxKeys
    BY <1>2, MaxKeysNat DEF Evicted
  <1> HIDE DEF evicted
  <1>8. keys' \in [Workers -> Seq(Clients)] /\ \A v \in Workers : Len(keys'[v]) <= MaxKeys
    <2> DEFINE k == IF c \in Range(keys[w]) THEN keys[w]
                    ELSE Append(IF evicted = {} THEN keys[w] ELSE Tail(keys[w]), c)
    <2>1. k \in Seq(Clients) /\ Len(k) <= MaxKeys
      <3>1. CASE c \in Range(keys[w])
        BY <1>2, <3>1
      <3>2. CASE c \notin Range(keys[w]) /\ evicted = {}
        BY <1>2, <1>7, <3>2, MaxKeysNat
      <3>3. CASE c \notin Range(keys[w]) /\ evicted # {}
        <4>1. keys[w] # <<>>
          BY <1>2, <1>7, <3>3, MaxKeysNat
        <4>2. Tail(keys[w]) \in Seq(Clients) /\ Len(Tail(keys[w])) = Len(keys[w]) - 1
          BY <1>2, <4>1
        <4> QED
          BY <1>2, <3>3, <4>2, MaxKeysNat
      <3> QED
        BY <3>1, <3>2, <3>3
    <2>2. keys' = [keys EXCEPT ![w] = k]
      BY <1>1
    <2> HIDE DEF k
    <2> QED
      BY <2>1, <2>2 DEF TypeOK
  <1>9. TypeOK'
    BY <1>5, <1>6, <1>8 DEF TypeOK
  <1> QED
    BY <1>4, <1>9

LEMMA ArriveInv ==
    ASSUME IInv, NEW r \in Requests, NEW c \in Clients, NEW w \in Workers,
           NEW n \in 1..MaxSize, Arrive(r, c, w, n)
    PROVE  IInv'
  <1>1. /\ request[r].pc = "idle"
        /\ UNCHANGED <<now, linked, hits>>
    BY DEF Arrive
  <1>2. TypeOK /\ request[r].slot = 0 /\ now \in 0..MaxTime
    BY <1>1 DEF IInv, ArrivedInv, ArrivedOK, TypeOK
  <1>3. CASE request' = [request EXCEPT ![r] =
                           [pc |-> "counting", client |-> c, worker |-> w, size |-> n,
                            at |-> now, slot |-> 0, by |-> Null]]
             /\ UNCHANGED <<keys, store>>
    <2> DEFINE x == [pc |-> "counting", client |-> c, worker |-> w, size |-> n,
                     at |-> now, slot |-> 0, by |-> Null]
    <2>1. /\ x \in RequestState
          /\ x.pc = "counting" /\ x.client = c /\ x.worker = w
          /\ x.at = now /\ x.slot = 0 /\ x.by = Null
      BY <1>2 DEF RequestState
    <2>2. request' = [request EXCEPT ![r] = x]
      BY <1>3
    <2> HIDE DEF x
    <2>3. TypeOK'
      BY <1>1, <1>2, <1>3, <2>1, <2>2 DEF TypeOK
    <2>4. now <= now /\ now <= now + Delay
      BY <1>2, DelayNat, MaxTimeNat
    <2>5. x.at <= now /\ now <= x.at + Delay
      BY <2>1, <2>4
    <2>6. x.by # "redis" /\ x.pc # "idle"
      BY <2>1, NullIsNoAnswer
    <2> QED
      BY <1>1, <2>1, <2>2, <2>3, <2>5, <2>6, RequestStep
  <1>4. CASE LocalCheck(r, c, w, n, now)
    <2>1. PICK x \in RequestState :
             /\ request' = [request EXCEPT ![r] = x]
             /\ x.pc \in {"admitted", "refused"}
             /\ x.client = c
             /\ x.worker = w
             /\ x.at = now
             /\ x.slot = request[r].slot
             /\ x.by = "worker"
      BY <1>1, <1>2, <1>4, LocalCheckFacts
    <2>2. TypeOK'
      BY <1>1, <1>2, <1>4, LocalCheckFacts
    <2>3. x.at <= now
      BY <1>2, <2>1, MaxTimeNat
    <2> QED
      BY <1>1, <1>2, <2>1, <2>2, <2>3, RequestStep
  <1> QED
    BY <1>3, <1>4 DEF Arrive

LEMMA ConnectionErrorInv ==
    ASSUME IInv, NEW r \in Requests, ConnectionError(r)
    PROVE  IInv'
  <1>1. /\ request[r].pc \in {"counting", "unanswered"}
        /\ LocalCheck(r, request[r].client, request[r].worker, request[r].size, request[r].at)
        /\ UNCHANGED <<now, linked, hits>>
    BY DEF ConnectionError
  <1>2. /\ TypeOK
        /\ request[r].client \in Clients
        /\ request[r].worker \in Workers
        /\ request[r].at <= now
    BY <1>1 DEF IInv, ArrivedInv, ArrivedOK
  <1>3. request[r].size \in 1..MaxSize /\ request[r].at \in 0..MaxTime
    BY <1>2 DEF TypeOK, RequestState
  <1>4. PICK x \in RequestState :
           /\ request' = [request EXCEPT ![r] = x]
           /\ x.pc \in {"admitted", "refused"}
           /\ x.client = request[r].client
           /\ x.worker = request[r].worker
           /\ x.size = request[r].size
           /\ x.at = request[r].at
           /\ x.slot = request[r].slot
           /\ x.by = "worker"
    BY <1>1, <1>2, <1>3, LocalCheckFacts
  <1>5. TypeOK'
    BY <1>1, <1>2, <1>3, LocalCheckFacts
  <1> QED
    BY <1>1, <1>2, <1>4, <1>5, RequestStep

LEMMA RedisErrorInv ==
    ASSUME IInv, NEW r \in Requests, RedisError(r)
    PROVE  IInv'
  <1>1. /\ request[r].pc \in {"counting", "unanswered"}
        /\ request' = [request EXCEPT ![r].pc = "error"]
        /\ UNCHANGED <<now, linked, hits, keys, store>>
    BY DEF RedisError
  <1>2. /\ TypeOK
        /\ request[r].client \in Clients
        /\ request[r].worker \in Workers
        /\ request[r].at <= now
    BY <1>1 DEF IInv, ArrivedInv, ArrivedOK
  <1>3. request[r] \in RequestState
    BY <1>2 DEF TypeOK
  <1> DEFINE x == [request[r] EXCEPT !.pc = "error"]
  <1>4. /\ x \in RequestState
        /\ x.pc = "error" /\ x.client = request[r].client /\ x.worker = request[r].worker
        /\ x.size = request[r].size /\ x.at = request[r].at /\ x.slot = request[r].slot
        /\ x.by = request[r].by
    BY <1>3 DEF RequestState
  <1>5. request' = [request EXCEPT ![r] = x]
    BY <1>1, <1>2 DEF TypeOK
  <1> HIDE DEF x
  <1>6. TypeOK'
    BY <1>1, <1>2, <1>4, <1>5 DEF TypeOK
  <1>7. UNCHANGED <<now, hits>>
    BY <1>1
  <1>8. /\ x.pc \notin {"idle", "counting", "admitted"}
        /\ x.client \in Clients /\ x.worker \in Workers /\ x.at <= now
    BY <1>2, <1>4
  <1>9. x.by = "redis" => x.slot = request[r].slot /\ request[r].by = "redis"
    BY <1>4
  <1> QED
    BY <1>4, <1>5, <1>6, <1>7, <1>8, <1>9, RequestStep

----------------------------------------------------------------------------
(* Redis counts a request *)

\* The counter of a window is alive as long as one of its requests is on the
\* way, and is as high as all requests it has counted.
LEMMA KeyAlive ==
    ASSUME IInv, NEW r \in Requests, request[r].pc = "counting",
           NEW q \in Requests, request[q].slot > 0,
           request[q].client = request[r].client, WindowOf(q) = WindowOf(r)
    PROVE  request[q].slot <= Hits(request[r].client, WindowOf(r))
  <1> DEFINE i == WindowOf(r)
             until == hits[request[r].client][i].until
  <1>1. TypeOK /\ now \in Nat
    BY MaxTimeNat DEF IInv, TypeOK
  <1>2. /\ request[r].at \in Nat
        /\ i \in 0..MaxTime
        /\ i \in Nat
        /\ request[r].at < Window * i + Window
    BY <1>1, ClockFacts
  <1>3. now <= request[r].at + Delay
    BY DEF IInv, ArrivedInv, ArrivedOK
  <1>4. /\ request[q].slot <= hits[request[r].client][i].n
        /\ until >= Window * i + 2 * Window
    BY DEF IInv, CountedInv, CountedOK
  <1>5. until \in Nat
    BY <1>1, <1>2 DEF IInv, ArrivedInv, ArrivedOK, TypeOK
  <1>6. now < until
    <2> DEFINE start == Window * i
    <2>1. start \in Nat
      BY <1>2, WindowNat
    <2> HIDE DEF start, until, i
    <2>2. request[r].at < start + Window /\ until >= start + 2 * Window
      BY <1>2, <1>4 DEF start
    <2> QED
      BY <1>1, <1>2, <1>3, <1>5, <2>1, <2>2, WindowNat, DelayNat
  <1> QED
    BY <1>4, <1>6 DEF Hits

LEMMA CountInv ==
    ASSUME IInv, NEW r \in Requests, Count(r)
    PROVE  IInv'
  <1> DEFINE c == request[r].client
             i == WindowOf(r)
             old == Hits(c, i)
             n == old + request[r].size
  <1>1. /\ request[r].pc = "counting"
        /\ hits' = [hits EXCEPT ![c][i] = [n |-> n, until |-> now + KeyLife]]
        /\ UNCHANGED <<now, linked, keys, store>>
    BY DEF Count
  <1>2. /\ TypeOK
        /\ now \in Nat
        /\ request[r] \in RequestState
        /\ c \in Clients
        /\ request[r].worker \in Workers
        /\ request[r].at <= now
        /\ request[r].slot = 0
    BY <1>1, MaxTimeNat DEF IInv, ArrivedInv, ArrivedOK, TypeOK
  <1>3. /\ request[r].at \in Nat
        /\ i \in 0..MaxTime
        /\ i \in Nat
        /\ Window * i <= request[r].at
    BY <1>2, ClockFacts
  <1>4. request[r].size \in Nat /\ request[r].size > 0
    BY <1>2, MaxSizeNat DEF RequestState
  <1>5. old \in Nat
    BY <1>2, <1>3 DEF Hits, TypeOK
  <1>6. \A q \in Requests : /\ request[q].slot > 0
                            /\ request[q].client = c
                            /\ WindowOf(q) = i
                            => request[q].slot <= old
    BY <1>1, KeyAlive
  <1>7. \A q \in Requests : /\ request[q].slot \in Nat
                            /\ request[q].size \in Nat
                            /\ WindowOf(q) \in 0..MaxTime
    <2>1. \A q \in Requests : request[q].slot \in Nat /\ request[q].size \in 1..MaxSize
      BY <1>2 DEF TypeOK, RequestState
    <2> QED
      BY <1>2, <2>1, ClockFacts, MaxSizeNat
  <1> HIDE DEF old
  <1>8. PICK pc \in {"unanswered", "admitted", "refused"}, by \in {request[r].by, "redis"} :
           /\ request' = [request EXCEPT ![r].slot = n, ![r].pc = pc, ![r].by = by]
           /\ pc = "admitted" => n <= Limit
    <2>1. CASE request' = [request EXCEPT ![r].slot = n, ![r].by = "redis",
                             ![r].pc = IF n > Limit THEN "refused" ELSE "admitted"]
      <3> DEFINE pc == IF n > Limit THEN "refused" ELSE "admitted"
      <3>1. pc = "admitted" => n <= Limit
        BY <1>4, <1>5, LimitNat
      <3>2. pc \in {"admitted", "refused"}
        OBVIOUS
      <3> HIDE DEF n
      <3>3. request' = [request EXCEPT ![r].slot = n, ![r].pc = pc, ![r].by = "redis"]
        BY <1>2, <2>1 DEF TypeOK, RequestState
      <3> HIDE DEF pc
      <3> QED
        BY <3>1, <3>2, <3>3
    <2>2. CASE request' = [request EXCEPT ![r].slot = n, ![r].pc = "unanswered"]
      BY <1>2, <2>2 DEF TypeOK, RequestState
    <2> QED
      BY <2>1, <2>2 DEF Count, old
  <1> DEFINE x == [request[r] EXCEPT !.slot = n, !.pc = pc, !.by = by]
  <1>9. n \in Nat /\ n > 0
    BY <1>4, <1>5
  <1>10. /\ x \in RequestState
         /\ x.pc = pc /\ x.client = c /\ x.worker = request[r].worker
         /\ x.size = request[r].size /\ x.at = request[r].at /\ x.slot = n
         /\ x.by = by
    BY <1>2, <1>9 DEF RequestState
  <1>11. request' = [request EXCEPT ![r] = x] /\ request'[r] = x
    BY <1>2, <1>8 DEF TypeOK
  <1> HIDE DEF x
  <1>12. /\ \A q \in Requests : q # r => request'[q] = request[q]
         /\ \A q \in Requests : WindowOf(q)' = WindowOf(q)
    BY <1>2, <1>10, <1>11 DEF TypeOK, WindowOf
  <1>13. /\ hits'[c][i].n = n
         /\ hits'[c][i].until = now + 2 * Window
         /\ \A d \in Clients, j \in 0..MaxTime : d # c \/ j # i => hits'[d][j] = hits[d][j]
         /\ hits' \in [Clients -> [0..MaxTime -> [n : Nat, until : Nat]]]
    <2> DEFINE h == [hits[c] EXCEPT ![i] = [n |-> n, until |-> now + KeyLife]]
    <2>1. now + KeyLife \in Nat /\ KeyLife = 2 * Window
      BY <1>2, WindowNat DEF KeyLife
    <2> HIDE DEF n, i
    <2>2. hits[c] \in [0..MaxTime -> [n : Nat, until : Nat]]
      BY <1>2 DEF TypeOK
    <2>3. /\ h \in [0..MaxTime -> [n : Nat, until : Nat]]
          /\ h[i].n = n /\ h[i].until = now + KeyLife
          /\ \A j \in 0..MaxTime : j # i => h[j] = hits[c][j]
      BY <1>3, <1>9, <2>1, <2>2
    <2>4. hits' = [hits EXCEPT ![c] = h]
      BY <1>1, <1>2 DEF TypeOK
    <2> HIDE DEF h
    <2> QED
      BY <1>2, <2>1, <2>3, <2>4 DEF TypeOK
  <1>14. TypeOK'
    BY <1>1, <1>2, <1>10, <1>11, <1>13 DEF TypeOK
  <1>15. ArrivedInv'
    BY <1>1, <1>2, <1>10, <1>11, <1>12 DEF IInv, ArrivedInv, ArrivedOK
  <1>16. CountedInv'
    <2>1. SUFFICES ASSUME NEW q \in Requests, request'[q].slot > 0
                   PROVE  LET k == hits'[request'[q].client][WindowOf(q)]
                          IN /\ request'[q].size <= request'[q].slot
                             /\ request'[q].slot <= k.n
                             /\ k.until >= Window * WindowOf(q) + 2 * Window
      BY <1>12 DEF CountedInv, CountedOK
    <2>2. Window * i \in Nat /\ now + 2 * Window >= Window * i + 2 * Window
      BY <1>2, <1>3, WindowNat
    <2>3. CASE q = r
      BY <1>4, <1>5, <1>9, <1>10, <1>11, <1>13, <2>2, <2>3
    <2>4. CASE q # r /\ request[q].client = c /\ WindowOf(q) = i
      <3>1. request[q].slot <= n /\ request[q].size <= request[q].slot
        <4>1. request[q].slot <= old
          BY <1>6, <1>12, <2>1, <2>4
        <4>2. request[q].size <= request[q].slot
          BY <1>12, <2>1, <2>4 DEF IInv, CountedInv, CountedOK
        <4> QED
          BY <1>4, <1>5, <1>7, <4>1, <4>2
      <3> QED
        BY <1>12, <1>13, <2>2, <2>4, <3>1
    <2>5. CASE q # r /\ ~(request[q].client = c /\ WindowOf(q) = i)
      <3>1. request[q].client \in Clients
        BY <1>12, <2>1, <2>5 DEF IInv, ArrivedInv, ArrivedOK
      <3>2. hits'[request[q].client][WindowOf(q)] = hits[request[q].client][WindowOf(q)]
        BY <1>7, <1>13, <2>5, <3>1
      <3> QED
        BY <1>12, <2>1, <2>5, <3>2 DEF IInv, CountedInv, CountedOK
    <2> QED
      BY <2>3, <2>4, <2>5
  <1>17. ApartInv'
    <2>1. ASSUME NEW q \in Requests, q # r, request[q].slot > 0,
                 request[q].client = c, WindowOf(q) = i
          PROVE  request[q].slot <= n - request[r].size
      <3>1. request[q].slot <= old
        BY <1>6, <2>1
      <3> QED
        BY <1>4, <1>5, <1>7, <3>1
    <2>2. SUFFICES ASSUME NEW p \in Requests, NEW q \in Requests \ {p}
                   PROVE  Apart(p, q)'
      BY DEF ApartInv
    <2>3. CASE p = r
      <3>1. ASSUME request[q].slot > 0, request[q].client = c, WindowOf(q) = i
            PROVE  request[q].slot <= n - request[r].size
        BY <2>1, <2>3, <3>1
      <3> HIDE DEF n, c, i
      <3>2. i = WindowOf(r)
        BY DEF i
      <3> QED
        BY <1>10, <1>11, <1>12, <2>3, <3>1, <3>2 DEF Apart
    <2>4. CASE q = r
      <3>1. ASSUME request[p].slot > 0, request[p].client = c, WindowOf(p) = i
            PROVE  request[p].slot <= n - request[r].size
        BY <2>1, <2>4, <3>1
      <3> HIDE DEF n, c, i
      <3>2. i = WindowOf(r)
        BY DEF i
      <3> QED
        BY <1>10, <1>11, <1>12, <2>4, <3>1, <3>2 DEF Apart
    <2>5. CASE p # r /\ q # r
      BY <1>12, <2>5 DEF IInv, ApartInv, Apart
    <2> QED
      BY <2>3, <2>4, <2>5
  <1>18. AnswerInv'
    BY <1>8, <1>9, <1>10, <1>11, <1>12 DEF IInv, AnswerInv, AnswerOK
  <1> QED
    BY <1>14, <1>15, <1>16, <1>17, <1>18 DEF IInv

----------------------------------------------------------------------------
LEMMA TickInv ==
    ASSUME IInv, Tick
    PROVE  IInv'
  <1>1. /\ now < MaxTime
        /\ \A r \in Requests : request[r].pc = "counting" => now < request[r].at + Delay
        /\ now' = now + 1
        /\ UNCHANGED <<request, linked, hits, keys, store>>
    BY DEF Tick
  <1>2. TypeOK /\ now \in Nat /\ \A r \in Requests : request[r].at \in Nat
    BY MaxTimeNat, ClockFacts DEF IInv, TypeOK
  <1>3. TypeOK'
    BY <1>1, <1>2, MaxTimeNat DEF TypeOK
  <1>4. ArrivedInv'
    <2>1. SUFFICES ASSUME NEW r \in Requests
                   PROVE  /\ request[r].at <= now + 1
                          /\ request[r].pc = "counting" => now + 1 <= request[r].at + Delay
      BY <1>1 DEF IInv, ArrivedInv, ArrivedOK
    <2>2. request[r].at <= now /\ request[r].at \in Nat
      BY <1>2 DEF IInv, ArrivedInv, ArrivedOK
    <2> QED
      BY <1>1, <1>2, <2>2, DelayNat
  <1>5. CountedInv' /\ ApartInv' /\ AnswerInv'
    BY <1>1 DEF IInv, CountedInv, CountedOK, ApartInv, Apart, AnswerInv, AnswerOK, WindowOf
  <1> QED
    BY <1>3, <1>4, <1>5 DEF IInv

LEMMA NextInv == IInv /\ [Next]_vars => IInv'
  <1> SUFFICES ASSUME IInv, [Next]_vars PROVE IInv'
    OBVIOUS
  <1>1. CASE UNCHANGED vars
    BY <1>1 DEF vars, IInv, TypeOK, ArrivedInv, ArrivedOK, CountedInv, CountedOK, ApartInv,
       Apart, AnswerInv, AnswerOK, WindowOf
  <1> QED
    BY <1>1, ArriveInv, CountInv, RedisErrorInv, ConnectionErrorInv, TickInv DEF Next

LEMMA Invariance == Spec => []IInv
  BY InitInv, NextInv, PTL DEF Spec

----------------------------------------------------------------------------
(* Who is refused *)

LEMMA SizeEmpty == Size({}) = 0
  <1>1. Entries({}) = {}
    BY DEF Entries
  <1> QED
    BY <1>1, FS_EmptySet DEF Size

\* A counter that is not 0 has counted somebody.
UsedInv ==
    \A c \in Clients, i \in 0..MaxTime : hits[c][i].n > 0 =>
        \E q \in Requests : /\ request[q].slot > 0
                            /\ request[q].client = c
                            /\ WindowOf(q) = i

\* The tables hold what they let in.
StoreInv ==
    \A w \in Workers, c \in Clients : \A q \in store[w][c] :
        request[q].pc = "admitted" /\ request[q].client = c

BusyInv == UsedInv /\ StoreInv /\ RefusedOnlyWhenBusy

\* The step of a request leaves what others have done, and what it has done
\* itself, as it was.
Kept ==
    \A q \in Requests :
        /\ request[q].pc # "idle" => /\ request'[q].pc # "idle"
                                     /\ request'[q].client = request[q].client
                                     /\ request'[q].at = request[q].at
                                     /\ WindowOf(q)' = WindowOf(q)
        /\ request[q].slot > 0 => request'[q].slot > 0
        /\ request[q].pc \in {"admitted", "refused"} => request'[q] = request[q]

LEMMA KeptFacts ==
    ASSUME IInv, NEW r \in Requests, request[r].pc \in {"idle", "counting", "unanswered"},
           NEW x, request' = [request EXCEPT ![r] = x],
           x.pc # "idle",
           request[r].slot > 0 => x.slot > 0,
           request[r].pc # "idle" => x.client = request[r].client /\ x.at = request[r].at
    PROVE  Kept
  <1>1. /\ request'[r] = x
        /\ \A q \in Requests : q # r => request'[q] = request[q]
    BY DEF IInv, TypeOK
  <1>2. ASSUME NEW q \in Requests
        PROVE  /\ request[q].pc # "idle" => /\ request'[q].pc # "idle"
                                            /\ request'[q].client = request[q].client
                                            /\ request'[q].at = request[q].at
                                            /\ WindowOf(q)' = WindowOf(q)
               /\ request[q].slot > 0 => request'[q].slot > 0
               /\ request[q].pc \in {"admitted", "refused"} => request'[q] = request[q]
    <2>1. CASE q = r
      BY <1>1, <2>1 DEF WindowOf
    <2>2. CASE q # r
      BY <1>1, <2>2 DEF WindowOf
    <2> QED
      BY <2>1, <2>2
  <1> QED
    BY <1>2 DEF Kept

\* What Kept means for the invariants.
LEMMA KeptInv ==
    ASSUME IInv, BusyInv, Kept,
           NEW r \in Requests,
           \A q \in Requests : q # r => request'[q] = request[q],
           request'[r].pc = "refused" /\ request'[r].size <= Limit =>
             \E q \in Requests \ {r} :
                /\ request[q].pc # "idle"
                /\ request[q].client = request'[r].client
                /\ request[q].at > request'[r].at - Window
    PROVE  /\ RefusedOnlyWhenBusy'
           /\ hits' = hits => UsedInv'
           /\ store' = store => StoreInv'
  <1>1. RefusedOnlyWhenBusy'
    <2>1. SUFFICES ASSUME NEW p \in Requests, request'[p].pc = "refused",
                          request'[p].size <= Limit
                   PROVE  \E q \in Requests \ {p} :
                             /\ request'[q].pc # "idle"
                             /\ request'[q].client = request'[p].client
                             /\ request'[q].at > request'[p].at - Window
      BY DEF RefusedOnlyWhenBusy, Young
    <2>2. PICK q \in Requests \ {p} :
             /\ request[q].pc # "idle"
             /\ request[q].client = request'[p].client
             /\ request[q].at > request'[p].at - Window
      <3>1. CASE p = r
        BY <2>1, <3>1
      <3>2. CASE p # r
        BY <2>1, <3>2 DEF BusyInv, RefusedOnlyWhenBusy, Young
      <3> QED
        BY <3>1, <3>2
    <2> QED
      BY <2>2 DEF Kept
  <1>2. ASSUME hits' = hits PROVE UsedInv'
    <2>1. SUFFICES ASSUME NEW c \in Clients, NEW i \in 0..MaxTime, hits[c][i].n > 0
                   PROVE  \E q \in Requests : /\ request'[q].slot > 0
                                              /\ request'[q].client = c
                                              /\ WindowOf(q)' = i
      BY <1>2 DEF UsedInv
    <2>2. PICK q \in Requests : /\ request[q].slot > 0
                                /\ request[q].client = c
                                /\ WindowOf(q) = i
      BY <2>1 DEF BusyInv, UsedInv
    <2>3. request[q].pc # "idle"
      BY <2>2 DEF IInv, ArrivedInv, ArrivedOK
    <2> QED
      BY <2>2, <2>3 DEF Kept
  <1>3. ASSUME store' = store PROVE StoreInv'
    <2>1. \A w \in Workers, c \in Clients : store[w][c] \subseteq Requests
      BY DEF IInv, TypeOK
    <2> QED
      BY <1>3, <2>1 DEF BusyInv, StoreInv, Kept
  <1> QED
    BY <1>1, <1>2, <1>3

\* A full list has somebody in it.
LEMMA FullFacts ==
    ASSUME NEW young, NEW n \in Nat, n <= Limit, Full(young, n)
    PROVE  young # {}
  <1>1. young = {} => ~Full(young, n)
    <2>1. young = {} => Size(young) = 0
      BY SizeEmpty
    <2>2. ~(0 + n - 1 >= Limit)
      BY LimitNat
    <2> QED
      BY <2>1, <2>2 DEF Full
  <1> QED
    BY <1>1

LEMMA LocalCheckBusy ==
    ASSUME IInv, BusyInv,
           NEW r \in Requests, NEW c \in Clients, NEW w \in Workers,
           NEW n \in 1..MaxSize, NEW t \in 0..MaxTime, LocalCheck(r, c, w, n, t),
           request[r].pc \in {"idle", "counting", "unanswered"},
           request[r].pc # "idle" => c = request[r].client /\ t = request[r].at,
           UNCHANGED <<now, linked, hits>>
    PROVE  BusyInv'
  <1>1. PICK x \in RequestState :
           /\ request' = [request EXCEPT ![r] = x]
           /\ x.pc \in {"admitted", "refused"}
           /\ x.client = c
           /\ x.size = n
           /\ x.at = t
           /\ x.slot = request[r].slot
    BY LocalCheckFacts DEF IInv
  <1>2. Kept
    BY <1>1, KeptFacts
  <1>3. /\ request'[r] = x
        /\ \A q \in Requests : q # r => request'[q] = request[q]
    BY <1>1 DEF IInv, TypeOK
  <1> DEFINE evicted == Evicted(w)
             table == IF c \in Range(keys[w]) THEN store[w]
                      ELSE [d \in Clients |-> IF d \in evicted THEN {} ELSE store[w][d]]
             young == {q \in table[c] : Young(q, t)}
             refused == Full(young, n)
  <1>4. /\ store' = [store EXCEPT ![w] =
                       IF refused THEN table ELSE [table EXCEPT ![c] = young \cup {r}]]
        /\ x.pc = "refused" => refused
        /\ ~refused => x.pc = "admitted"
    <2> HIDE DEF young, refused
    <2>1. x.pc = IF refused THEN "refused" ELSE "admitted"
      BY <1>3 DEF LocalCheck, IInv, TypeOK, young, refused
    <2>2. store' = [store EXCEPT ![w] =
                      IF refused THEN table ELSE [table EXCEPT ![c] = young \cup {r}]]
      BY DEF LocalCheck, young, refused
    <2> QED
      BY <2>1, <2>2
  <1>5. /\ store \in [Workers -> [Clients -> SUBSET Requests]]
        /\ table \in [Clients -> SUBSET Requests]
        /\ \A d \in Clients : table[d] \subseteq store[w][d]
    <2>1. store \in [Workers -> [Clients -> SUBSET Requests]]
      BY DEF IInv, TypeOK
    <2> HIDE DEF evicted
    <2> QED
      BY <2>1
  <1>6. \A q \in table[c] : request[q].pc = "admitted" /\ request[q].client = c /\ q # r
    BY <1>5 DEF BusyInv, StoreInv
  <1> HIDE DEF table, refused
  <1>7. x.pc = "refused" /\ x.size <= Limit =>
          \E q \in Requests \ {r} : /\ request[q].pc # "idle"
                                    /\ request[q].client = x.client
                                    /\ request[q].at > x.at - Window
    <2>1. SUFFICES ASSUME x.pc = "refused", n <= Limit
                   PROVE  \E q \in Requests \ {r} : /\ request[q].pc # "idle"
                                                    /\ request[q].client = c
                                                    /\ request[q].at > t - Window
      BY <1>1
    <2>2. young # {}
      BY <1>4, <2>1, FullFacts, MaxSizeNat DEF refused
    <2>3. PICK q \in table[c] : Young(q, t)
      BY <2>2
    <2> QED
      BY <1>5, <1>6, <2>3 DEF Young
  <1>8. RefusedOnlyWhenBusy' /\ UsedInv'
    BY <1>2, <1>3, <1>7, KeptInv
  <1>9. StoreInv'
    <2>1. SUFFICES ASSUME NEW v \in Workers, NEW d \in Clients, NEW q \in store'[v][d]
                   PROVE  request'[q].pc = "admitted" /\ request'[q].client = d
      BY DEF StoreInv
    <2>2. q \in store[v][d] \/ (q = r /\ d = c /\ ~refused)
      <3>1. young \subseteq table[c]
        OBVIOUS
      <3> HIDE DEF young
      <3> QED
        BY <1>4, <1>5, <2>1, <3>1
    <2>3. CASE q \in store[v][d]
      <3>1. q \in Requests /\ request[q].pc = "admitted" /\ request[q].client = d
        BY <1>5, <2>3 DEF BusyInv, StoreInv
      <3> QED
        BY <1>2, <3>1 DEF Kept
    <2>4. CASE q = r /\ d = c /\ ~refused
      BY <1>1, <1>3, <1>4, <2>4
    <2> QED
      BY <2>2, <2>3, <2>4
  <1> QED
    BY <1>8, <1>9 DEF BusyInv

LEMMA ArriveBusy ==
    ASSUME IInv, BusyInv, NEW r \in Requests, NEW c \in Clients, NEW w \in Workers,
           NEW n \in 1..MaxSize, Arrive(r, c, w, n)
    PROVE  BusyInv'
  <1>1. /\ request[r].pc = "idle"
        /\ request[r].slot = 0
        /\ now \in 0..MaxTime
        /\ UNCHANGED <<now, linked, hits>>
    BY DEF Arrive, IInv, ArrivedInv, ArrivedOK, TypeOK
  <1>2. CASE LocalCheck(r, c, w, n, now)
    BY <1>1, <1>2, LocalCheckBusy
  <1>3. CASE request' = [request EXCEPT ![r] =
                           [pc |-> "counting", client |-> c, worker |-> w, size |-> n,
                            at |-> now, slot |-> 0, by |-> Null]]
             /\ UNCHANGED <<keys, store>>
    <2>1. PICK x : x = [pc |-> "counting", client |-> c, worker |-> w, size |-> n,
                        at |-> now, slot |-> 0, by |-> Null]
      OBVIOUS
    <2>2. request' = [request EXCEPT ![r] = x] /\ x.pc = "counting"
      BY <1>3, <2>1
    <2>3. Kept
      <3>1. ~(request[r].slot > 0)
        BY <1>1
      <3> QED
        BY <1>1, <2>2, <3>1, KeptFacts
    <2>4. /\ request'[r].pc = "counting"
          /\ \A q \in Requests : q # r => request'[q] = request[q]
      BY <2>2 DEF IInv, TypeOK
    <2> QED
      BY <1>1, <1>3, <2>3, <2>4, KeptInv DEF BusyInv
  <1> QED
    BY <1>2, <1>3 DEF Arrive

LEMMA ConnectionErrorBusy ==
    ASSUME IInv, BusyInv, NEW r \in Requests, ConnectionError(r)
    PROVE  BusyInv'
  <1>1. /\ request[r].pc \in {"counting", "unanswered"}
        /\ LocalCheck(r, request[r].client, request[r].worker, request[r].size, request[r].at)
        /\ UNCHANGED <<now, linked, hits>>
    BY DEF ConnectionError
  <1>2. request[r].client \in Clients /\ request[r].worker \in Workers
    BY <1>1 DEF IInv, ArrivedInv, ArrivedOK
  <1>3. request[r].size \in 1..MaxSize /\ request[r].at \in 0..MaxTime
    BY DEF IInv, TypeOK, RequestState
  <1> QED
    BY <1>1, <1>2, <1>3, LocalCheckBusy

LEMMA RedisErrorBusy ==
    ASSUME IInv, BusyInv, NEW r \in Requests, RedisError(r)
    PROVE  BusyInv'
  <1>1. /\ request[r].pc \in {"counting", "unanswered"}
        /\ request' = [request EXCEPT ![r].pc = "error"]
        /\ UNCHANGED <<now, linked, hits, keys, store>>
    BY DEF RedisError
  <1>2. request \in [Requests -> RequestState]
    BY DEF IInv, TypeOK
  <1>3. PICK x : x = [request[r] EXCEPT !.pc = "error"]
    OBVIOUS
  <1>4. /\ x.pc = "error" /\ x.client = request[r].client /\ x.at = request[r].at
        /\ x.slot = request[r].slot
    BY <1>2, <1>3 DEF RequestState
  <1>5. request' = [request EXCEPT ![r] = x]
    BY <1>1, <1>2, <1>3
  <1>6. Kept
    BY <1>1, <1>4, <1>5, KeptFacts
  <1>7. /\ request'[r].pc = "error"
        /\ \A q \in Requests : q # r => request'[q] = request[q]
    BY <1>2, <1>4, <1>5
  <1> QED
    BY <1>1, <1>6, <1>7, KeptInv DEF BusyInv

LEMMA CountBusy ==
    ASSUME IInv, BusyInv, NEW r \in Requests, Count(r)
    PROVE  BusyInv'
  <1> DEFINE c == request[r].client
             i == WindowOf(r)
             old == Hits(c, i)
             n == old + request[r].size
  <1>1. /\ request[r].pc = "counting"
        /\ hits' = [hits EXCEPT ![c][i] = [n |-> n, until |-> now + KeyLife]]
        /\ UNCHANGED <<now, linked, keys, store>>
        /\ \/ request' = [request EXCEPT ![r].slot = n, ![r].by = "redis",
                            ![r].pc = IF n > Limit THEN "refused" ELSE "admitted"]
           \/ request' = [request EXCEPT ![r].slot = n, ![r].pc = "unanswered"]
    BY DEF Count
  <1>2. /\ TypeOK
        /\ request \in [Requests -> RequestState]
        /\ c \in Clients
        /\ request[r].slot = 0
        /\ request[r].at \in Nat
    BY <1>1, ClockFacts DEF IInv, ArrivedInv, ArrivedOK, TypeOK
  <1>3. i \in 0..MaxTime
    BY <1>2, ClockFacts
  <1>4. request[r].size \in Nat /\ request[r].size > 0
    BY <1>2, MaxSizeNat DEF RequestState
  <1>5. old \in Nat /\ (old > 0 => hits[c][i].n > 0)
    <2>1. hits[c][i].n \in Nat
      BY <1>2, <1>3 DEF TypeOK
    <2>2. old = hits[c][i].n \/ old = 0
      BY DEF Hits
    <2> HIDE DEF old
    <2> QED
      BY <2>1, <2>2
  <1>6. n \in Nat /\ n > 0 /\ (n > Limit /\ request[r].size <= Limit => old > 0)
    <2> HIDE DEF old
    <2> QED
      BY <1>4, <1>5, LimitNat
  <1> HIDE DEF n, old
  <1>7. PICK x : x = request'[r]
    OBVIOUS
  <1>8. /\ request' = [request EXCEPT ![r] = x]
        /\ x.pc \in {"admitted", "refused", "unanswered"}
        /\ x.pc = "refused" => n > Limit
        /\ x.slot = n
        /\ x.client = c
        /\ x.at = request[r].at
        /\ x.size = request[r].size
    BY <1>1, <1>2, <1>7 DEF RequestState
  <1>9. Kept
    BY <1>1, <1>2, <1>6, <1>8, KeptFacts
  <1>10. \A q \in Requests : q # r => request'[q] = request[q]
    BY <1>2, <1>8
  <1>11. x.pc = "refused" /\ x.size <= Limit =>
           \E q \in Requests \ {r} : /\ request[q].pc # "idle"
                                     /\ request[q].client = x.client
                                     /\ request[q].at > x.at - Window
    <2>1. SUFFICES ASSUME x.pc = "refused", x.size <= Limit
                   PROVE  \E q \in Requests \ {r} : /\ request[q].pc # "idle"
                                                    /\ request[q].client = c
                                                    /\ request[q].at > request[r].at - Window
      BY <1>8
    <2>2. hits[c][i].n > 0
      BY <1>5, <1>6, <1>8, <2>1
    <2>3. PICK q \in Requests : /\ request[q].slot > 0
                                /\ request[q].client = c
                                /\ WindowOf(q) = WindowOf(r)
      BY <1>2, <1>3, <2>2 DEF BusyInv, UsedInv
    <2>4. q # r /\ request[q].pc # "idle"
      <3>1. 0 > 0 <=> FALSE
        OBVIOUS
      <3> QED
        BY <1>2, <2>3, <3>1 DEF IInv, ArrivedInv, ArrivedOK
    <2>5. request[q].at > request[r].at - Window
      <3> DEFINE start == Window * WindowOf(r)
      <3>1. /\ WindowOf(r) \in Nat
            /\ start <= request[q].at
            /\ request[q].at \in Nat
            /\ request[r].at < start + Window
        BY <1>2, <2>3, ClockFacts
      <3>2. start \in Nat
        BY <3>1, WindowNat
      <3> HIDE DEF start
      <3> QED
        BY <1>2, <3>1, <3>2, WindowNat
    <2> QED
      BY <2>3, <2>4, <2>5
  <1>12. RefusedOnlyWhenBusy' /\ StoreInv'
    BY <1>1, <1>7, <1>9, <1>10, <1>11, KeptInv
  <1>13. UsedInv'
    <2>1. SUFFICES ASSUME NEW d \in Clients, NEW j \in 0..MaxTime, hits'[d][j].n > 0
                   PROVE  \E q \in Requests : /\ request'[q].slot > 0
                                              /\ request'[q].client = d
                                              /\ WindowOf(q)' = j
      BY DEF UsedInv
    <2>2. CASE d = c /\ j = i
      <3>1. WindowOf(r)' = i
        BY <1>1, <1>9 DEF Kept
      <3> QED
        BY <1>6, <1>7, <1>8, <2>2, <3>1
    <2>3. CASE d # c \/ j # i
      <3>1. hits'[d][j] = hits[d][j]
        <4> HIDE DEF c, i
        <4>1. hits \in [Clients -> [0..MaxTime -> [n : Nat, until : Nat]]]
          BY <1>2 DEF TypeOK
        <4> QED
          BY <1>1, <2>3, <4>1
      <3>2. PICK q \in Requests : /\ request[q].slot > 0
                                  /\ request[q].client = d
                                  /\ WindowOf(q) = j
        BY <2>1, <3>1 DEF BusyInv, UsedInv
      <3>3. request[q].pc # "idle"
        BY <3>2 DEF IInv, ArrivedInv, ArrivedOK
      <3> QED
        BY <1>9, <3>2, <3>3 DEF Kept
    <2> QED
      BY <2>2, <2>3
  <1> QED
    BY <1>12, <1>13 DEF BusyInv

LEMMA StillBusy ==
    ASSUME BusyInv, UNCHANGED <<request, hits, store>>
    PROVE  BusyInv'
  BY DEF BusyInv, UsedInv, StoreInv, RefusedOnlyWhenBusy, Young, WindowOf

LEMMA NextBusy == IInv /\ BusyInv /\ [Next]_vars => BusyInv'
  <1> SUFFICES ASSUME IInv, BusyInv, [Next]_vars PROVE BusyInv'
    OBVIOUS
  <1>1. CASE UNCHANGED vars
    BY <1>1, StillBusy DEF vars
  <1>2. CASE Tick
    BY <1>2, StillBusy DEF Tick
  <1> QED
    BY <1>1, <1>2, ArriveBusy, CountBusy, RedisErrorBusy, ConnectionErrorBusy DEF Next

LEMMA BusyInvariance == Spec => []BusyInv
  <1>1. Init => BusyInv
    BY DEF Init, BusyInv, UsedInv, StoreInv, RefusedOnlyWhenBusy
  <1> QED
    BY <1>1, NextBusy, Invariance, PTL DEF Spec

----------------------------------------------------------------------------
(* How many entries a list has *)

\* Entries, for the requests f.
EntriesOf(S, f) == {e \in S \X (1..MaxSize) : e[2] <= f[e[1]].size}

LEMMA SizeIs ==
    ASSUME NEW S
    PROVE  Size(S) = Cardinality(EntriesOf(S, request))
  BY DEF Size, Entries, EntriesOf

LEMMA EntriesFacts ==
    ASSUME NEW S \in SUBSET Requests, NEW f
    PROVE  /\ IsFiniteSet(EntriesOf(S, f))
           /\ Cardinality(EntriesOf(S, f)) \in Nat
           /\ \A T \in SUBSET S : Cardinality(EntriesOf(T, f)) <= Cardinality(EntriesOf(S, f))
  <1>1. IsFiniteSet(S) /\ IsFiniteSet(1..MaxSize)
    BY RequestsFinite, MaxSizeNat, FS_Subset, FS_Interval
  <1>2. IsFiniteSet(S \X (1..MaxSize))
    BY <1>1, FS_Product
  <1>3. EntriesOf(S, f) \in SUBSET (S \X (1..MaxSize))
    BY DEF EntriesOf
  <1>4. IsFiniteSet(EntriesOf(S, f))
    BY <1>2, <1>3, FS_Subset
  <1>5. \A T \in SUBSET S : EntriesOf(T, f) \in SUBSET EntriesOf(S, f)
    BY DEF EntriesOf
  <1> QED
    BY <1>4, <1>5, FS_Subset, FS_CardinalityType

\* A request adds as many entries as its size, at most.
LEMMA EntriesAdd ==
    ASSUME NEW S \in SUBSET Requests, NEW f, NEW r \in Requests, NEW n \in 1..MaxSize,
           f[r].size = n
    PROVE  Cardinality(EntriesOf(S \cup {r}, f)) <= Cardinality(EntriesOf(S, f)) + n
  <1> DEFINE A == EntriesOf(S, f)
             B == EntriesOf({r}, f)
             g == [i \in 1..n |-> <<r, i>>]
  <1>1. EntriesOf(S \cup {r}, f) = A \cup B
    BY DEF EntriesOf
  <1>2. IsFiniteSet(A) /\ IsFiniteSet(B) /\ Cardinality(A) \in Nat /\ Cardinality(B) \in Nat
    BY EntriesFacts
  <1>3. g \in Surjection(1..n, B)
    <2>1. \A e \in B : e[2] \in 1..n /\ e = <<r, e[2]>>
      BY MaxSizeNat DEF EntriesOf
    <2>2. \A i \in 1..n : g[i] \in B
      BY MaxSizeNat DEF EntriesOf
    <2> HIDE DEF B
    <2> QED
      BY <2>1, <2>2 DEF Surjection
  <1>4. IsFiniteSet(1..n) /\ Cardinality(1..n) = n
    BY MaxSizeNat, FS_Interval
  <1>5. Cardinality(B) <= n
    <2> HIDE DEF g, B
    <2> QED
      BY <1>3, <1>4, FS_Surjection
  <1>6. /\ Cardinality(A \cup B) = Cardinality(A) + Cardinality(B) - Cardinality(A \cap B)
        /\ Cardinality(A \cap B) \in Nat
    <2>1. IsFiniteSet(A \cap B)
      BY <1>2, FS_Subset
    <2> HIDE DEF A, B
    <2> QED
      BY <1>2, <2>1, FS_Union, FS_CardinalityType
  <1>7. Cardinality(A \cup B) <= Cardinality(A) + n
    <2> HIDE DEF A, B
    <2> QED
      BY <1>2, <1>5, <1>6, MaxSizeNat
  <1> QED
    BY <1>1, <1>7

LEMMA EntriesSame ==
    ASSUME NEW S, NEW f, NEW g, \A q \in S : f[q] = g[q]
    PROVE  EntriesOf(S, f) = EntriesOf(S, g)
  BY DEF EntriesOf

----------------------------------------------------------------------------
(* What a worker lets in without Redis *)

\* The requests the table of w has decided, and their clients.
Here(w) == {r \in Requests : request[r].by = "worker" /\ request[r].worker = w}
Seen(w) == {request[r].client : r \in Here(w)}

\* The table decides at once.
DecidedInv ==
    \A r \in Requests : request[r].by = "worker" => request[r].pc \in {"admitted", "refused"}

\* The keys of w are clients it has seen, no list is longer than the limit, and
\* while all clients have fitted into the table it holds all it let in lately.
TableOK(w) ==
    /\ \A i, j \in 1..Len(keys[w]) : keys[w][i] = keys[w][j] => i = j
    /\ \A i \in 1..Len(keys[w]) : keys[w][i] \in Seen(w)
    /\ \A c \in Clients : Size(store[w][c]) <= Limit
    /\ Cardinality(Seen(w)) <= MaxKeys =>
          \A q \in Here(w) : request[q].pc = "admitted" /\ Young(q, now) =>
              q \in store[w][request[q].client]

TableInv == DecidedInv /\ \A w \in Workers : TableOK(w)

LEMMA SeenFinite ==
    ASSUME NEW w
    PROVE  IsFiniteSet(Seen(w)) /\ Cardinality(Seen(w)) \in Nat
  <1> DEFINE f == [r \in Here(w) |-> request[r].client]
  <1>1. IsFiniteSet(Here(w))
    BY RequestsFinite, FS_Subset DEF Here
  <1>2. f \in Surjection(Here(w), Seen(w))
    BY DEF Surjection, Seen
  <1> QED
    BY <1>1, <1>2, FS_Surjection, FS_CardinalityType

LEMMA SeenFinitePrime ==
    ASSUME NEW w
    PROVE  IsFiniteSet(Seen(w)') /\ Cardinality(Seen(w)') \in Nat
  <1> DEFINE f == [r \in Here(w)' |-> request'[r].client]
  <1>1. IsFiniteSet(Here(w)')
    BY RequestsFinite, FS_Subset DEF Here
  <1>2. f \in Surjection(Here(w)', Seen(w)')
    BY DEF Surjection, Seen
  <1> QED
    BY <1>1, <1>2, FS_Surjection, FS_CardinalityType

\* A worker that decides nothing in a step.
LEMMA WorkerRests ==
    ASSUME IInv, StoreInv, TableInv, NEW w \in Workers,
           keys'[w] = keys[w], store'[w] = store[w], now \in Nat, now' \in Nat, now <= now',
           \A q \in Requests :
              request[q].pc \in {"admitted", "refused"} => request'[q] = request[q],
           \A q \in Requests :
              request'[q].by = "worker" /\ request'[q].worker = w => request'[q] = request[q]
    PROVE  TableOK(w)'
  <1>1. /\ store[w] \in [Clients -> SUBSET Requests]
        /\ \A q \in Requests : request[q].at \in Nat
    BY ClockFacts DEF IInv, TypeOK
  <1>2. Here(w)' = Here(w)
    BY DEF Here, TableInv, DecidedInv
  <1>3. \A q \in Here(w) : q \in Requests /\ request'[q] = request[q]
    BY DEF Here, TableInv, DecidedInv
  <1>4. Seen(w)' = Seen(w)
    BY <1>2, <1>3 DEF Seen
  <1>5. ASSUME NEW c \in Clients PROVE Size(store[w][c])' = Size(store[w][c])
    <2>1. \A q \in store[w][c] : request'[q] = request[q]
      BY <1>1 DEF StoreInv
    <2>2. EntriesOf(store[w][c], request') = EntriesOf(store[w][c], request)
      BY <2>1, EntriesSame
    <2> QED
      BY <2>2 DEF Size, Entries, EntriesOf
  <1>6. \A q \in Here(w) : Young(q, now)' => Young(q, now)
    BY <1>1, <1>3, WindowNat DEF Young
  <1>7. TableOK(w)
    BY DEF TableInv
  <1> QED
    BY <1>2, <1>3, <1>4, <1>5, <1>6, <1>7 DEF TableOK

\* As many keys as the table holds, and a client that is none of them, are
\* more clients than the table can hold.
LEMMA EvictedFacts ==
    ASSUME IInv, TableInv, NEW w \in Workers, NEW c, c \notin Range(keys[w]), Evicted(w) # {},
           NEW T, IsFiniteSet(T), Seen(w) \cup {c} \subseteq T
    PROVE  Cardinality(T) > MaxKeys
  <1> DEFINE k == keys[w]
  <1>1. /\ k \in Seq(Clients)
        /\ Len(k) \in Nat
        /\ \A i, j \in 1..Len(k) : k[i] = k[j] => i = j
        /\ \A i \in 1..Len(k) : k[i] \in T /\ k[i] # c
    BY DEF IInv, TypeOK, TableInv, TableOK, Range
  <1>2. Len(k) >= MaxKeys
    BY DEF Evicted
  <1>3. k \in Injection(1..Len(k), T \ {c})
    BY <1>1 DEF Injection, IsInjective
  <1>4. IsFiniteSet(T \ {c}) /\ Cardinality(T) = Cardinality(T \ {c}) + 1
    <2>1. c \in T /\ Cardinality(T) \in Nat
      BY FS_CardinalityType
    <2>2. IsFiniteSet(T \ {c}) /\ Cardinality(T \ {c}) = Cardinality(T) - 1
      BY <2>1, FS_RemoveElement
    <2> QED
      BY <2>1, <2>2
  <1>5. IsFiniteSet(1..Len(k)) /\ Cardinality(1..Len(k)) = Len(k)
    <2> HIDE DEF k
    <2>1. IsFiniteSet(1..Len(k)) /\ Cardinality(1..Len(k)) = IF 1 > Len(k) THEN 0 ELSE Len(k) - 1 + 1
      BY <1>1, FS_Interval
    <2> QED
      BY <1>1, <2>1
  <1>6. Len(k) <= Cardinality(T \ {c})
    <2> HIDE DEF k
    <2> QED
      BY <1>3, <1>4, <1>5, FS_Injection
  <1>7. Cardinality(T \ {c}) \in Nat
    BY <1>4, FS_CardinalityType
  <1> QED
    BY <1>1, <1>2, <1>4, <1>6, <1>7, MaxKeysNat

LEMMA LocalCheckBound ==
    ASSUME IInv, BusyInv, TableInv,
           NEW r \in Requests, NEW c \in Clients, NEW w \in Workers,
           NEW n \in 1..MaxSize, NEW t \in 0..MaxTime, LocalCheck(r, c, w, n, t), t <= now,
           request[r].pc \in {"idle", "counting", "unanswered"},
           request[r].pc # "idle" => c = request[r].client /\ t = request[r].at,
           UNCHANGED <<now, linked, hits>>
    PROVE  TableInv'
  <1>1. PICK x \in RequestState :
           /\ request' = [request EXCEPT ![r] = x]
           /\ x.pc \in {"admitted", "refused"}
           /\ x.client = c
           /\ x.worker = w
           /\ x.size = n
           /\ x.at = t
           /\ x.slot = request[r].slot
           /\ x.by = "worker"
    BY LocalCheckFacts DEF IInv
  <1>2. Kept
    BY <1>1, KeptFacts
  <1>3. /\ request'[r] = x
        /\ \A q \in Requests : q # r => request'[q] = request[q]
        /\ now \in Nat
        /\ \A q \in Requests : request[q].at \in Nat
    BY <1>1, MaxTimeNat, ClockFacts DEF IInv, TypeOK
  <1> DEFINE evicted == Evicted(w)
             table == IF c \in Range(keys[w]) THEN store[w]
                      ELSE [d \in Clients |-> IF d \in evicted THEN {} ELSE store[w][d]]
             young == {q \in table[c] : Young(q, t)}
             refused == Full(young, n)
  <1>4. /\ store' = [store EXCEPT ![w] =
                       IF refused THEN table ELSE [table EXCEPT ![c] = young \cup {r}]]
        /\ keys' = [keys EXCEPT ![w] =
                      IF c \in Range(@) THEN @
                      ELSE Append(IF evicted = {} THEN @ ELSE Tail(@), c)]
        /\ x.pc = "admitted" => ~refused
    <2> HIDE DEF evicted, young, refused
    <2>1. x.pc = IF refused THEN "refused" ELSE "admitted"
      BY <1>3 DEF LocalCheck, IInv, TypeOK, evicted, young, refused
    <2>2. store' = [store EXCEPT ![w] =
                      IF refused THEN table ELSE [table EXCEPT ![c] = young \cup {r}]]
      BY DEF LocalCheck, evicted, young, refused
    <2>3. keys' = [keys EXCEPT ![w] =
                     IF c \in Range(@) THEN @
                     ELSE Append(IF evicted = {} THEN @ ELSE Tail(@), c)]
      BY DEF LocalCheck, evicted
    <2> QED
      BY <2>1, <2>2, <2>3
  <1>5. /\ store \in [Workers -> [Clients -> SUBSET Requests]]
        /\ keys \in [Workers -> Seq(Clients)]
        /\ table \in [Clients -> SUBSET Requests]
        /\ \A d \in Clients : table[d] \subseteq store[w][d]
        /\ c \in Range(keys[w]) \/ evicted = {} => \A d \in Clients : table[d] = store[w][d]
    <2>1. store \in [Workers -> [Clients -> SUBSET Requests]] /\ keys \in [Workers -> Seq(Clients)]
      BY DEF IInv, TypeOK
    <2> HIDE DEF evicted
    <2> QED
      BY <2>1
  <1>6. \A d \in Clients : \A q \in table[d] : q \in Requests /\ q # r /\ request'[q] = request[q]
    <2>1. \A d \in Clients : \A q \in table[d] : q \in Requests /\ request[q].pc = "admitted"
      BY <1>5 DEF BusyInv, StoreInv
    <2> HIDE DEF table
    <2> QED
      BY <1>3, <2>1
  <1> HIDE DEF evicted, table
  <1>7. DecidedInv'
    BY <1>1, <1>3 DEF TableInv, DecidedInv
  <1>8. ASSUME NEW v \in Workers, v # w PROVE TableOK(v)'
    <2>1. keys'[v] = keys[v] /\ store'[v] = store[v]
      BY <1>4, <1>5, <1>8
    <2>2. \A q \in Requests :
             request[q].pc \in {"admitted", "refused"} => request'[q] = request[q]
      BY <1>2 DEF Kept
    <2>3. \A q \in Requests :
             request'[q].by = "worker" /\ request'[q].worker = v => request'[q] = request[q]
      BY <1>1, <1>3, <1>8
    <2>4. now' \in Nat /\ now <= now'
      BY <1>3
    <2> QED
      BY <1>3, <2>1, <2>2, <2>3, <2>4, WorkerRests DEF BusyInv
  <1>9. /\ Here(w)' = Here(w) \cup {r}
        /\ \A q \in Here(w) : q \in Requests /\ q # r /\ request'[q] = request[q]
        /\ Seen(w)' = Seen(w) \cup {c}
    <2>1. \A q \in Here(w) : q \in Requests /\ q # r
      BY DEF Here, TableInv, DecidedInv
    <2>2. Here(w)' = Here(w) \cup {r}
      BY <1>1, <1>3, <2>1 DEF Here
    <2>3. Seen(w)' = Seen(w) \cup {c}
      BY <1>1, <1>3, <2>1, <2>2 DEF Seen
    <2> QED
      BY <1>3, <2>1, <2>2, <2>3
  <1>10. TableOK(w)
    BY DEF TableInv
  <1>11. /\ \A i, j \in 1..Len(keys'[w]) : keys'[w][i] = keys'[w][j] => i = j
         /\ \A i \in 1..Len(keys'[w]) : keys'[w][i] \in Seen(w)'
    <2> DEFINE k == keys[w]
    <2>1. /\ k \in Seq(Clients)
          /\ \A i, j \in 1..Len(k) : k[i] = k[j] => i = j
          /\ \A i \in 1..Len(k) : k[i] \in Seen(w) /\ k[i] \in Range(k)
      BY <1>5, <1>10 DEF TableOK, Range
    <2>2. keys'[w] = IF c \in Range(k) THEN k
                     ELSE Append(IF evicted = {} THEN k ELSE Tail(k), c)
      BY <1>4, <1>5
    <2> HIDE DEF k
    <2>3. CASE c \in Range(k)
      BY <1>9, <2>1, <2>2, <2>3
    <2>4. CASE c \notin Range(k)
      <3>1. PICK s : s = IF evicted = {} THEN k ELSE Tail(k)
        OBVIOUS
      <3>2. k # <<>> \/ evicted = {}
        BY <1>5, MaxKeysNat DEF evicted, Evicted, k
      <3>3. /\ s \in Seq(Clients)
            /\ \A i, j \in 1..Len(s) : s[i] = s[j] => i = j
            /\ \A i \in 1..Len(s) : s[i] \in Seen(w) /\ s[i] # c
        <4>1. CASE evicted = {}
          BY <2>1, <2>4, <3>1, <4>1
        <4>2. CASE evicted # {}
          <5>1. /\ Tail(k) \in Seq(Clients)
                /\ Len(Tail(k)) = Len(k) - 1
                /\ \A i \in 1..Len(Tail(k)) : i + 1 \in 1..Len(k) /\ Tail(k)[i] = k[i + 1]
            BY <2>1, <3>2, <4>2
          <5> QED
            BY <2>1, <2>4, <3>1, <4>2, <5>1
        <4> QED
          BY <4>1, <4>2
      <3>4. keys'[w] = Append(s, c)
        BY <2>2, <2>4, <3>1
      <3> QED
        BY <1>9, <3>3, <3>4
    <2> QED
      BY <2>3, <2>4
  <1>12. ASSUME NEW d \in Clients PROVE Size(store[w][d])' <= Limit
    <2>1. Size(table[d]) <= Limit
      <3>1. Size(store[w][d]) <= Limit
        BY <1>10 DEF TableOK
      <3>2. table[d] = store[w][d] \/ table[d] = {}
        BY <1>5 DEF table
      <3> QED
        BY <3>1, <3>2, SizeEmpty, LimitNat
    <2>2. \A S \in SUBSET table[d] : EntriesOf(S, request') = EntriesOf(S, request)
      BY <1>6, EntriesSame
    <2>3. CASE refused \/ d # c
      <3>1. store'[w][d] = table[d]
        BY <1>4, <1>5, <2>3
      <3>2. Cardinality(EntriesOf(store'[w][d], request')) <= Limit
        BY <2>1, <2>2, <3>1, SizeIs
      <3> QED
        BY <3>2 DEF Size, Entries, EntriesOf
    <2>4. CASE ~refused /\ d = c
      <3>1. store'[w][d] = young \cup {r}
        BY <1>4, <1>5, <2>4
      <3>2. young \in SUBSET table[c] /\ young \in SUBSET Requests
        BY <1>5
      <3>3. ~(Size(young) + n - 1 >= Limit)
        BY <2>4 DEF Full
      <3> HIDE DEF young
      <3>4. Cardinality(EntriesOf(young \cup {r}, request'))
              <= Cardinality(EntriesOf(young, request')) + n
        BY <1>1, <1>3, <3>2, EntriesAdd
      <3>5. Cardinality(EntriesOf(young, request')) = Size(young) /\ Size(young) \in Nat
        BY <2>2, <2>4, <3>2, SizeIs, EntriesFacts
      <3>6. Cardinality(EntriesOf(young \cup {r}, request')) \in Nat
        BY <3>2, EntriesFacts
      <3>7. Cardinality(EntriesOf(store'[w][d], request')) <= Limit
        BY <3>1, <3>3, <3>4, <3>5, <3>6, LimitNat, MaxSizeNat
      <3> QED
        BY <3>7 DEF Size, Entries, EntriesOf
    <2> QED
      BY <2>3, <2>4
  <1>13. ASSUME Cardinality(Seen(w)') <= MaxKeys, NEW q \in Here(w)',
                request'[q].pc = "admitted", Young(q, now)'
         PROVE  q \in store'[w][request'[q].client]
    <2>1. c \in Range(keys[w]) \/ evicted = {}
      <3>1. IsFiniteSet(Seen(w)') /\ Cardinality(Seen(w)') \in Nat
        BY SeenFinitePrime
      <3>2. ~(Cardinality(Seen(w)') > MaxKeys)
        BY <1>13, <3>1, MaxKeysNat
      <3> QED
        BY <1>9, <3>1, <3>2, EvictedFacts DEF evicted
    <2>2. \A d \in Clients : table[d] = store[w][d]
      BY <1>5, <2>1
    <2>3. CASE q = r
      BY <1>1, <1>3, <1>4, <1>5, <1>13, <2>3
    <2>4. CASE q # r
      <3>1. q \in Here(w) /\ q \in Requests /\ request'[q] = request[q]
        BY <1>9, <2>4
      <3>2. request[q].at > now - Window
        BY <1>13, <3>1 DEF Young
      <3>3. Cardinality(Seen(w)) <= MaxKeys
        <4>1. Seen(w) \in SUBSET Seen(w)'
          BY <1>9
        <4>2. IsFiniteSet(Seen(w)') /\ Cardinality(Seen(w)') \in Nat
          BY SeenFinitePrime
        <4>3. Cardinality(Seen(w)) \in Nat /\ Cardinality(Seen(w)) <= Cardinality(Seen(w)')
          BY <4>1, <4>2, SeenFinite, FS_Subset
        <4> QED
          BY <1>13, <4>2, <4>3, MaxKeysNat
      <3>4. q \in store[w][request[q].client]
        BY <1>10, <1>13, <3>1, <3>2, <3>3 DEF TableOK, Young
      <3>5. request[q].client \in Clients
        BY <1>13, <3>1 DEF IInv, ArrivedInv, ArrivedOK
      <3>6. q \in table[request[q].client]
        BY <2>2, <3>4, <3>5
      <3>7. request[q].client = c => q \in young
        BY <1>3, <3>1, <3>2, <3>6, WindowNat, MaxTimeNat DEF Young
      <3> HIDE DEF young, refused
      <3> QED
        BY <1>4, <1>5, <3>1, <3>5, <3>6, <3>7
    <2> QED
      BY <2>3, <2>4
  <1>14. TableOK(w)'
    <2>1. \A d \in Clients : Size(store[w][d])' <= Limit
      BY <1>12
    <2> QED
      BY <1>11, <1>13, <2>1 DEF TableOK
  <1> QED
    BY <1>7, <1>8, <1>14 DEF TableInv

\* The step of a request that no table decides.
LEMMA NobodyDecides ==
    ASSUME IInv, BusyInv, TableInv,
           NEW r \in Requests, request[r].pc \in {"idle", "counting", "unanswered"},
           NEW x, request' = [request EXCEPT ![r] = x], x.by # "worker",
           UNCHANGED <<now, keys, store>>
    PROVE  TableInv'
  <1>1. /\ request'[r] = x
        /\ \A q \in Requests : q # r => request'[q] = request[q]
        /\ now \in Nat
    BY MaxTimeNat DEF IInv, TypeOK
  <1>2. DecidedInv'
    BY <1>1 DEF TableInv, DecidedInv
  <1>3. ASSUME NEW w \in Workers PROVE TableOK(w)'
    <2>1. /\ \A q \in Requests :
                request[q].pc \in {"admitted", "refused"} => request'[q] = request[q]
          /\ \A q \in Requests :
                request'[q].by = "worker" /\ request'[q].worker = w => request'[q] = request[q]
      BY <1>1
    <2>2. now' \in Nat /\ now <= now' /\ keys'[w] = keys[w] /\ store'[w] = store[w]
      BY <1>1
    <2> QED
      BY <1>1, <2>1, <2>2, WorkerRests DEF BusyInv
  <1> QED
    BY <1>2, <1>3 DEF TableInv

LEMMA NextBound == IInv /\ BusyInv /\ TableInv /\ [Next]_vars => TableInv'
  <1> SUFFICES ASSUME IInv, BusyInv, TableInv, [Next]_vars PROVE TableInv'
    OBVIOUS
  <1>0. /\ request \in [Requests -> RequestState]
        /\ now \in 0..MaxTime /\ now \in Nat
        /\ \A q \in Requests : request[q].pc # "idle" =>
              /\ request[q].client \in Clients
              /\ request[q].worker \in Workers
              /\ request[q].at <= now
    BY MaxTimeNat DEF IInv, TypeOK, ArrivedInv, ArrivedOK
  <1>1. ASSUME NEW r \in Requests, NEW c \in Clients, NEW w \in Workers, NEW n \in 1..MaxSize,
               Arrive(r, c, w, n)
        PROVE  TableInv'
    <2>1. request[r].pc = "idle" /\ UNCHANGED <<now, linked, hits>> /\ now <= now
      BY <1>0, <1>1 DEF Arrive
    <2>2. CASE LocalCheck(r, c, w, n, now)
      BY <1>0, <2>1, <2>2, LocalCheckBound
    <2>3. CASE request' = [request EXCEPT ![r] =
                             [pc |-> "counting", client |-> c, worker |-> w, size |-> n,
                              at |-> now, slot |-> 0, by |-> Null]]
               /\ UNCHANGED <<keys, store>>
      <3>1. PICK x : x = [pc |-> "counting", client |-> c, worker |-> w, size |-> n,
                          at |-> now, slot |-> 0, by |-> Null]
        OBVIOUS
      <3>2. request' = [request EXCEPT ![r] = x] /\ x.by # "worker"
        BY <2>3, <3>1, NullIsNoAnswer
      <3> QED
        BY <2>1, <2>3, <3>2, NobodyDecides
    <2> QED
      BY <1>1, <2>2, <2>3 DEF Arrive
  <1>2. ASSUME NEW r \in Requests, ConnectionError(r) PROVE TableInv'
    <2>1. /\ request[r].pc \in {"counting", "unanswered"}
          /\ LocalCheck(r, request[r].client, request[r].worker, request[r].size, request[r].at)
          /\ UNCHANGED <<now, linked, hits>>
      BY <1>2 DEF ConnectionError
    <2>2. /\ request[r].client \in Clients /\ request[r].worker \in Workers
          /\ request[r].size \in 1..MaxSize /\ request[r].at \in 0..MaxTime
          /\ request[r].at <= now
      BY <1>0, <2>1 DEF RequestState
    <2> QED
      BY <2>1, <2>2, LocalCheckBound
  <1>3. ASSUME NEW r \in Requests, Count(r) \/ RedisError(r) PROVE TableInv'
    <2>1. /\ request[r].pc \in {"counting", "unanswered"}
          /\ UNCHANGED <<now, keys, store>>
      BY <1>3 DEF Count, RedisError
    <2>2. request[r].by # "worker"
      BY <2>1 DEF TableInv, DecidedInv
    <2>3. /\ request' = [request EXCEPT ![r] = request'[r]]
          /\ request'[r].by \in {request[r].by, "redis"}
      BY <1>0, <1>3 DEF Count, RedisError, RequestState
    <2>4. PICK x : x = request'[r]
      OBVIOUS
    <2> QED
      BY <2>1, <2>2, <2>3, <2>4, NobodyDecides
  <1>4. CASE Tick \/ UNCHANGED vars
    <2>1. UNCHANGED <<request, keys, store>> /\ now' \in Nat /\ now <= now'
      BY <1>0, <1>4 DEF Tick, vars
    <2>2. DecidedInv'
      BY <2>1 DEF TableInv, DecidedInv
    <2> QED
      BY <1>0, <2>1, <2>2, WorkerRests DEF TableInv, BusyInv
  <1> QED
    BY <1>1, <1>2, <1>3, <1>4 DEF Next

LEMMA BoundInvariance == Spec => []TableInv
  <1>1. Init => TableInv
    <2> SUFFICES ASSUME Init PROVE TableInv
      OBVIOUS
    <2>1. DecidedInv /\ \A w \in Workers : Here(w) = {}
      BY NullIsNoAnswer DEF Init, DecidedInv, Here
    <2>2. \A w \in Workers : keys[w] = <<>> /\ \A c \in Clients : store[w][c] = {}
      BY DEF Init
    <2>3. ASSUME NEW w \in Workers PROVE TableOK(w)
      <3>1. \A c \in Clients : Size(store[w][c]) <= Limit
        <4>1. Size({}) <= Limit
          BY SizeEmpty, LimitNat
        <4>2. \A c \in Clients : store[w][c] = {}
          BY <2>2
        <4> QED
          BY <4>1, <4>2, Zenon
      <3>2. 1..Len(keys[w]) = {}
        BY <2>2
      <3> QED
        BY <2>1, <3>1, <3>2 DEF TableOK
    <2> QED
      BY <2>1, <2>3 DEF TableInv
  <1> QED
    BY <1>1, NextBound, Invariance, BusyInvariance, PTL DEF Spec

----------------------------------------------------------------------------
(* Theorems *)

\* The variables of the rate limiter keep their types and a table of a worker
\* its size.
THEOREM TypeCorrect == Spec => []TypeOK
  <1>1. IInv => TypeOK
    BY DEF IInv
  <1> QED
    BY <1>1, Invariance, PTL

\* INCRBY and EXPIRE: the requests Redis lets in have different places among
\* the Limit of their client and window.
THEOREM RedisBoundHolds == Spec => []RedisBound
  <1>1. IInv => RedisBound
    <2>1. SUFFICES ASSUME IInv, NEW r \in Requests, Admitted(r, "redis")
                   PROVE  /\ Slots(r) \subseteq 1..Limit
                          /\ \A q \in Requests \ {r} :
                                /\ Admitted(q, "redis")
                                /\ request[q].client = request[r].client
                                /\ WindowOf(q) = WindowOf(r)
                                => Slots(q) \cap Slots(r) = {}
      BY DEF RedisBound
    <2>2. \A q \in Requests : request[q].slot \in Nat /\ request[q].size \in 1..MaxSize
      BY <2>1 DEF IInv, TypeOK, RequestState
    <2>3. /\ request[r].slot > 0
          /\ request[r].slot <= Limit
          /\ request[r].size <= request[r].slot
      BY <2>1 DEF IInv, AnswerInv, AnswerOK, CountedInv, CountedOK, Admitted
    <2>4. Slots(r) \subseteq 1..Limit
      BY <2>2, <2>3, LimitNat, MaxSizeNat DEF Slots
    <2>5. ASSUME NEW q \in Requests \ {r}, Admitted(q, "redis"),
                 request[q].client = request[r].client, WindowOf(q) = WindowOf(r)
          PROVE  Slots(q) \cap Slots(r) = {}
      <3>1. request[q].slot > 0
        BY <2>1, <2>5 DEF IInv, AnswerInv, AnswerOK, Admitted
      <3>2. \/ request[r].slot <= request[q].slot - request[q].size
            \/ request[q].slot <= request[r].slot - request[r].size
        BY <2>1, <2>3, <2>5, <3>1 DEF IInv, ApartInv, Apart
      <3> QED
        BY <2>2, <3>2, MaxSizeNat DEF Slots
    <2> QED
      BY <2>4, <2>5
  <1> QED
    BY <1>1, Invariance, PTL

\* check_rate_limit: a request within the limit is refused only if another one
\* of its client came less than a window before it.
THEOREM RefusedOnlyWhenBusyHolds == Spec => []RefusedOnlyWhenBusy
  <1>1. BusyInv => RefusedOnlyWhenBusy
    BY DEF BusyInv
  <1> QED
    BY <1>1, BusyInvariance, PTL

\* The fallback of check_rate_limit: as long as the clients of a worker fit into
\* its table, it has let each of them in at most Limit times during the last
\* window, batches counted by their size.
THEOREM LocalBoundHolds == Spec => []LocalBound
  <1>1. IInv /\ TableInv => LocalBound
    <2> SUFFICES ASSUME IInv, TableInv, NEW w \in Workers, NEW c \in Clients,
                        Cardinality(Seen(w)) <= MaxKeys
                 PROVE  Size({r \in Here(w) : /\ request[r].pc = "admitted"
                                              /\ request[r].client = c
                                              /\ Young(r, now)}) <= Limit
      BY DEF LocalBound, Here, Seen
    <2> DEFINE S == {r \in Here(w) : /\ request[r].pc = "admitted"
                                     /\ request[r].client = c
                                     /\ Young(r, now)}
    <2>1. TableOK(w) /\ store[w][c] \in SUBSET Requests
      BY DEF TableInv, IInv, TypeOK
    <2>2. S \in SUBSET store[w][c]
      BY <2>1 DEF TableOK
    <2>3. S \in SUBSET Requests
      BY DEF Here
    <2> HIDE DEF S
    <2>4. Size(S) <= Size(store[w][c]) /\ Size(S) \in Nat /\ Size(store[w][c]) \in Nat
      BY <2>1, <2>2, <2>3, SizeIs, EntriesFacts
    <2>5. Size(store[w][c]) <= Limit
      BY <2>1 DEF TableOK
    <2>6. Size(S) <= Limit
      BY <2>4, <2>5, LimitNat
    <2> QED
      BY <2>6 DEF S
  <1> QED
    BY <1>1, Invariance, BoundInvariance, PTL

====
