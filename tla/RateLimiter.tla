---- MODULE RateLimiter ----
(***************************************************************************)
(* check_rate_limit of governor/service.py: which requests are let in.     *)
(*                                                                         *)
(* While a worker process has Redis, a request adds its size to a counter  *)
(* that all processes share: one counter per client and fixed window of    *)
(* the clock.  A worker that started without Redis, or loses it during a   *)
(* request, falls back on a table of its own: the requests it let in       *)
(* lately, per client, for a bounded number of clients.  The clock is read *)
(* before Redis is asked, so the fallback may work with an old time.       *)
(*                                                                         *)
(* A client is a tenant, or an address for requests without one.  Workers  *)
(* are incarnations of worker processes (they share the host's clock).     *)
(***************************************************************************)
EXTENDS Integers, Sequences, FiniteSets, Functions

CONSTANTS
    Requests,
    Clients,
    Workers,
    Limit,      \* RATE_LIMIT
    Window,     \* RATE_WINDOW, in ticks of the clock
    MaxKeys,    \* MAX_RATE_LIMIT_KEYS
    MaxSize,    \* largest batch
    Delay,      \* longest time from reading the clock to the execution in Redis
    MaxTime,    \* bound of the clock
    Null

ASSUME LimitNat == Limit \in Nat \ {0}
ASSUME WindowNat == Window \in Nat \ {0}
ASSUME MaxKeysNat == MaxKeys \in Nat \ {0}
ASSUME MaxSizeNat == MaxSize \in Nat \ {0}
ASSUME MaxTimeNat == MaxTime \in Nat
ASSUME NullIsNoAnswer == Null \notin {"redis", "worker"}
ASSUME RequestsFinite == IsFiniteSet(Requests)
ASSUME DelayNat == Delay \in Nat /\ Delay <= Window

VARIABLES
    now,        \* time.time()
    request,    \* request[r]: the local variables of its check_rate_limit
    linked,     \* linked[w]: redis_client of w is not None
    hits,       \* hits[c][i]: the Redis key of client c and window i
    keys,       \* keys[w]: the keys of _rate_limit_store in w, oldest first
    store       \* store[w][c]: the requests whose timestamps c has there, each
                \* as many times as its size

vars == <<now, request, linked, hits, keys, store>>

----------------------------------------------------------------------------
\* Mutant: one counter for ever, as long as it is used.
WindowOfNone(r) == 0

\* int(now // RATE_WINDOW)
WindowOf(r) == request[r].at \div Window

\* Mutant: a key lives one window.
KeyLifeOne == Window

\* expire(window_key, RATE_WINDOW * 2)
KeyLife == 2 * Window

\* What GET would answer for the key: an expired key is gone.
Hits(c, i) == IF now < hits[c][i].until THEN hits[c][i].n ELSE 0

\* INCRBY and EXPIRE in one transaction; the answer arrives, or the connection
\* is lost before it does.  A refused request stays counted.
Count(r) ==
    LET c == request[r].client
        n == Hits(c, WindowOf(r)) + request[r].size
    IN /\ request[r].pc = "counting"
       /\ hits' = [hits EXCEPT ![c][WindowOf(r)] = [n |-> n, until |-> now + KeyLife]]
       /\ \/ request' = [request EXCEPT ![r].slot = n, ![r].by = "redis",
                            ![r].pc = IF n > Limit THEN "refused" ELSE "admitted"]
          \/ request' = [request EXCEPT ![r].slot = n, ![r].pc = "unanswered"]
       /\ UNCHANGED <<now, linked, keys, store>>

\* Any other error of Redis (a timeout, out of memory) is an HTTP 500.
RedisError(r) ==
    /\ request[r].pc \in {"counting", "unanswered"}
    /\ request' = [request EXCEPT ![r].pc = "error"]
    /\ UNCHANGED <<now, linked, hits, keys, store>>

----------------------------------------------------------------------------
(* The fallback; nothing is awaited while _rate_limit_lock is held *)

\* The timestamps of q, a request of the table, that are young at time t.
Young(q, t) == request[q].at > t - Window

\* The entries of a list: a request of size n has n of them.
Entries(S) == {e \in S \X (1..MaxSize) : e[2] <= request[e[1]].size}

Size(S) == Cardinality(Entries(S))

\* Mutant: a batch counts as one request.
FullForOne(young, n) == Size(young) >= Limit

Full(young, n) == Size(young) + n - 1 >= Limit

\* Mutant: the table grows one key too far.
EvictedLate(w) == IF Len(keys[w]) > MaxKeys THEN {Head(keys[w])} ELSE {}

\* The client that leaves the table of w if a new one comes.
Evicted(w) == IF Len(keys[w]) >= MaxKeys THEN {Head(keys[w])} ELSE {}

\* Request r of client c and size n is checked by w as of time t: a client new
\* to a full table takes the place of the oldest key, and a refused one still
\* has its key.
LocalCheck(r, c, w, n, t) ==
    LET evicted == Evicted(w)
        table == IF c \in Range(keys[w]) THEN store[w]
                 ELSE [d \in Clients |-> IF d \in evicted THEN {} ELSE store[w][d]]
        young == {q \in table[c] : Young(q, t)}
        refused == Full(young, n)
    IN /\ keys' = [keys EXCEPT ![w] =
                     IF c \in Range(@) THEN @
                     ELSE Append(IF evicted = {} THEN @ ELSE Tail(@), c)]
       /\ store' = [store EXCEPT ![w] =
                      IF refused THEN table ELSE [table EXCEPT ![c] = young \cup {r}]]
       /\ request' = [request EXCEPT ![r] =
                        [pc |-> IF refused THEN "refused" ELSE "admitted", client |-> c,
                         worker |-> w, size |-> n, at |-> t, slot |-> @.slot,
                         by |-> "worker"]]

\* The pipeline raises ConnectionError, before or after Redis executed it.
ConnectionError(r) ==
    /\ request[r].pc \in {"counting", "unanswered"}
    /\ LocalCheck(r, request[r].client, request[r].worker, request[r].size, request[r].at)
    /\ UNCHANGED <<now, linked, hits>>

\* A request arrives and the clock is read.
Arrive(r, c, w, n) ==
    /\ request[r].pc = "idle"
    /\ \/ /\ linked[w]
          /\ request' = [request EXCEPT ![r] =
                           [pc |-> "counting", client |-> c, worker |-> w, size |-> n,
                            at |-> now, slot |-> 0, by |-> Null]]
          /\ UNCHANGED <<keys, store>>
       \/ /\ ~linked[w]
          /\ LocalCheck(r, c, w, n, now)
    /\ UNCHANGED <<now, linked, hits>>

\* Time passes, but no pipeline is executed later than Delay after its request
\* read the clock.
Tick ==
    /\ now < MaxTime
    /\ \A r \in Requests : request[r].pc = "counting" => now < request[r].at + Delay
    /\ now' = now + 1
    /\ UNCHANGED <<request, linked, hits, keys, store>>

----------------------------------------------------------------------------
\* lifespan: a worker that cannot ping Redis does without it.
Init ==
    /\ now = 0
    /\ request = [r \in Requests |->
                    [pc |-> "idle", client |-> Null, worker |-> Null, size |-> 1, at |-> 0,
                     slot |-> 0, by |-> Null]]
    /\ linked \in [Workers -> BOOLEAN]
    /\ hits = [c \in Clients |-> [i \in 0..MaxTime |-> [n |-> 0, until |-> 0]]]
    /\ keys = [w \in Workers |-> <<>>]
    /\ store = [w \in Workers |-> [c \in Clients |-> {}]]

Next ==
    \/ \E r \in Requests, c \in Clients, w \in Workers, n \in 1..MaxSize : Arrive(r, c, w, n)
    \/ \E r \in Requests : Count(r)
    \/ \E r \in Requests : RedisError(r)
    \/ \E r \in Requests : ConnectionError(r)
    \/ Tick

Spec == Init /\ [][Next]_vars

----------------------------------------------------------------------------
(* Properties *)

RequestState ==
    [pc : {"idle", "counting", "unanswered", "admitted", "refused", "error"},
     client : Clients \cup {Null}, worker : Workers \cup {Null}, size : 1..MaxSize,
     at : 0..MaxTime, slot : Nat, by : {"redis", "worker", Null}]

TypeOK ==
    /\ now \in 0..MaxTime
    /\ request \in [Requests -> RequestState]
    /\ linked \in [Workers -> BOOLEAN]
    /\ hits \in [Clients -> [0..MaxTime -> [n : Nat, until : Nat]]]
    /\ keys \in [Workers -> Seq(Clients)]
    /\ \A w \in Workers : Len(keys[w]) <= MaxKeys
    /\ store \in [Workers -> [Clients -> SUBSET Requests]]

Admitted(r, who) == request[r].pc = "admitted" /\ request[r].by = who

\* The places among the Limit of its window that Redis gave to r.
Slots(r) == request[r].slot - request[r].size + 1 .. request[r].slot

(***************************************************************************)
(* All processes together let a client in at most Limit times in a window, *)
(* as long as Redis answers: the requests it let in have different places  *)
(* among 1..Limit, although processes count at the same time, requests     *)
(* reach Redis when their window is already over, and keys expire.         *)
(***************************************************************************)
RedisBound ==
    \A r \in Requests : Admitted(r, "redis") =>
        /\ Slots(r) \subseteq 1..Limit
        /\ \A q \in Requests \ {r} :
              /\ Admitted(q, "redis")
              /\ request[q].client = request[r].client
              /\ WindowOf(q) = WindowOf(r)
              => Slots(q) \cap Slots(r) = {}

(***************************************************************************)
(* Without Redis, a worker has let a client in at most Limit times during  *)
(* the last window, batches counted by their size, at any time and even if *)
(* some requests came to the table late with an old time.  This is only    *)
(* so while the clients of the worker fit into its table: an evicted one   *)
(* starts afresh.                                                          *)
(***************************************************************************)
LocalBound ==
    \A w \in Workers, c \in Clients :
        LET here == {r \in Requests : request[r].by = "worker" /\ request[r].worker = w}
        IN Cardinality({request[r].client : r \in here}) <= MaxKeys =>
              Size({r \in here : /\ request[r].pc = "admitted"
                                 /\ request[r].client = c
                                 /\ Young(r, now)}) <= Limit

(***************************************************************************)
(* "Retry after 60s" (sdk/client.py:151) works: a request within the limit *)
(* is refused only if another one of its client came less than a window    *)
(* before it, or even after it (the clock of that one may be read later,   *)
(* and the request be counted first).  Counting refused requests, lost     *)
(* answers and old times do not lock a client out for longer.              *)
(***************************************************************************)
RefusedOnlyWhenBusy ==
    \A r \in Requests : request[r].pc = "refused" /\ request[r].size <= Limit =>
        \E q \in Requests \ {r} :
            /\ request[q].pc # "idle"
            /\ request[q].client = request[r].client
            /\ Young(q, request[r].at)

====
