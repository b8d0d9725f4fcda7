---- MODULE PolicyEvaluation ----
(***************************************************************************)
(* From a request to the verdict of the policy: context/resolver.py,       *)
(* policy_engine/loader.py and the parts of _make_decision and             *)
(* simulate_policy between them.                                           *)
(*                                                                         *)
(* The hooks of a call run at once and answer in any order, or fail, or    *)
(* are given up together.  The rules come from a cache of each worker      *)
(* process, read from the template files again when it is a minute old,    *)
(* file by file, while somebody may be replacing the files.  Workers are   *)
(* incarnations of worker processes (they share the host's clock).         *)
(***************************************************************************)
EXTENDS PolicyEngine

CONSTANTS
    Calls,
    Workers,
    NumFiles,   \* names of templates/*.json, in the order of their names
    Contents,   \* what a template file may hold: sequences of rules
    Missing,    \* no such file
    Broken,     \* a file that cannot be read, parsed or validated
    Shipped,    \* what the files may hold at the start
    ActionTypes,
    Payloads,
    HookCounts, \* how many hooks a request may name
    Answers,    \* what a hook contributes: the empty function if it fails
    MaxHooks,   \* MAX_CONTEXT_HOOKS
    MaxFields,  \* MAX_PAYLOAD_KEYS, for all the limits of validate_payload
    TTL,        \* CACHE_TTL, in ticks of the clock
    MaxEdits,   \* bound of the changes to template files
    MaxTime,    \* bound of the clock
    Null

Files == 1..NumFiles

ASSUME NumFilesNat == NumFiles \in Nat \ {0}
ASSUME MaxHooksNat == MaxHooks \in Nat
ASSUME HookCountsNat == HookCounts \subseteq Nat
ASSUME TTLNat == TTL \in Nat \ {0}
ASSUME MaxTimeNat == MaxTime \in Nat
ASSUME MaxEditsNat == MaxEdits \in Nat
ASSUME ContentsSequences == \A s \in Contents : s \in Seq({s[i] : i \in DOMAIN s})
ASSUME Dictionaries == \A p \in Payloads \cup Answers : p = [f \in DOMAIN p |-> p[f]]
ASSUME NoContents == {Missing, Broken} \cap Contents = {}
ASSUME ShippedFiles == Shipped \subseteq [Files -> Contents \cup {Missing, Broken}]

VARIABLES
    now,    \* time.monotonic()
    disk,   \* disk[f]: the template file f
    edits,  \* number of changes to the files
    seen,   \* seen[f][t]: what file f held at some moment of tick t (history)
    cache,  \* cache[w]: _cache of w, file by file, <<>> for a skipped one, and
            \* _cache_loaded_at
    load,   \* load[w]: the local variables of load_all_templates in w, on while
            \* it reads
    call    \* call[c]: the request and the local variables of its handler

vars == <<now, disk, edits, seen, cache, load, call>>

NoTemplates == [f \in Files |-> <<>>]

Blocked(w) == load[w].on

----------------------------------------------------------------------------
(* Hooks *)

\* What is left of a call when its handler has ended
Ended(c) == [call[c] EXCEPT !.worker = Null, !.kind = Null, !.payload = Null, !.hooks = <<>>]

\* What validate_payload refuses
TooLarge(payload) == Cardinality(DOMAIN payload) > MaxFields

\* A request with more hooks than allowed is refused by evaluate; simulate
\* hands it to the resolver, which takes the first ones.
Arrive(c, w, kind, type, payload, n) ==
    /\ call[c].pc = "idle"
    /\ cache[w].templates # Null
    /\ ~Blocked(w)
    /\ IF TooLarge(payload) \/ (kind = "evaluate" /\ n > MaxHooks)
       THEN call' = [call EXCEPT ![c].pc = "rejected"]
       ELSE call' = [call EXCEPT ![c] =
                       [@ EXCEPT !.pc = "hooks", !.worker = w, !.kind = kind, !.type = type,
                                 !.payload = payload,
                                 !.hooks = [i \in 1..IF n > MaxHooks THEN MaxHooks ELSE n |-> Null]]]
    /\ UNCHANGED <<now, disk, edits, seen, cache, load>>

\* _call_hook returns: the dictionary of a 200, or nothing that counts for a
\* URL, status, body or exception it does not like.
HookAnswers(c, i, answer) ==
    /\ call[c].pc = "hooks"
    /\ ~Blocked(call[c].worker)
    /\ i \in DOMAIN call[c].hooks
    /\ call[c].hooks[i] = Null
    /\ call' = [call EXCEPT ![c].hooks[i] = answer]
    /\ UNCHANGED <<now, disk, edits, seen, cache, load>>

Answered(c) == \A i \in DOMAIN call[c].hooks : call[c].hooks[i] # Null

\* Mutant: what came in before the timeout is used.
MergedSoFar(c) ==
    Enriched(call[c].payload, SelectSeq(call[c].hooks, LAMBDA answer : answer # Null))

\* What resolve returns: the payload updated by the answers in the order of the
\* hooks, or the bare payload after the aggregate timeout.
Merged(c) ==
    IF Answered(c) THEN Enriched(call[c].payload, call[c].hooks)
    ELSE call[c].payload

----------------------------------------------------------------------------
(* Templates *)

\* Mutant: the cache never expires, as lru_cache (loader.py:21).
FreshForEver(w) == cache[w].templates # Null

\* Mutant: the cache lives one tick too long.
FreshTooLong(w) ==
    /\ cache[w].templates # Null
    /\ now - cache[w].at <= TTL

Fresh(w) ==
    /\ cache[w].templates # Null
    /\ now - cache[w].at < TTL

\* sorted(TEMPLATES_DIR.glob(...)), on behalf of call c or, at the start of w,
\* of lifespan.
BeginLoad(w, c) ==
    load' = [load EXCEPT ![w] = [on |-> TRUE, call |-> c, got |-> NoTemplates,
                                 todo |-> {f \in Files : disk[f] # Missing}]]

\* Mutant: a file that went wrong after it was listed goes into the cache.
ReadAny(w) ==
    /\ Blocked(w)
    /\ load[w].todo # {}
    /\ LET f == Min(load[w].todo)
       IN load' = [load EXCEPT ![w].todo = @ \ {f}, ![w].got[f] = disk[f]]
    /\ UNCHANGED <<now, disk, edits, seen, cache, call>>

\* The worker is blocked meanwhile, but the files are not.
ReadFile(w) ==
    /\ Blocked(w)
    /\ load[w].todo # {}
    /\ LET f == Min(load[w].todo)
       IN load' = [load EXCEPT ![w].todo = @ \ {f},
                               ![w].got[f] = IF disk[f] \in Contents THEN disk[f] ELSE @]
    /\ UNCHANGED <<now, disk, edits, seen, cache, call>>

\* The call of c with the payload m after its hooks is decided by templates.
Concluded(c, m, templates) ==
    [Ended(c) EXCEPT !.pc = "decided", !.merged = m, !.at = now, !.used = templates,
                     !.decision = Decide(call[c].type, m, templates)]

FinishLoad(w) ==
    /\ Blocked(w)
    /\ load[w].todo = {}
    /\ cache' = [cache EXCEPT ![w] = [templates |-> load[w].got, at |-> now]]
    /\ load' = [load EXCEPT ![w] = [on |-> FALSE, call |-> Null, got |-> NoTemplates,
                                    todo |-> {}]]
    /\ LET c == load[w].call
       IN call' = IF c = Null THEN call
                  ELSE [call EXCEPT ![c] = Concluded(c, @.merged, load[w].got)]
    /\ UNCHANGED <<now, disk, edits, seen>>

\* lifespan
Start(w) ==
    /\ cache[w].templates = Null
    /\ ~Blocked(w)
    /\ BeginLoad(w, Null)
    /\ UNCHANGED <<now, disk, edits, seen, cache, call>>

----------------------------------------------------------------------------
(* After the hooks, nothing is awaited until the verdict *)

\* evaluate validates the merged payload, simulate does not.
Refused(c, m) == call[c].kind = "evaluate" /\ TooLarge(m)

\* The hooks have all returned, or are given up together.
Resolve(c) ==
    LET w == call[c].worker
        m == Merged(c)
    IN /\ call[c].pc = "hooks"
       /\ ~Blocked(w)
       /\ \/ /\ Refused(c, m)
             /\ call' = [call EXCEPT ![c] = [Ended(c) EXCEPT !.pc = "rejected"]]
             /\ UNCHANGED load
          \/ /\ ~Refused(c, m)
             /\ Fresh(w)
             /\ call' = [call EXCEPT ![c] = Concluded(c, m, cache[w].templates)]
             /\ UNCHANGED load
          \/ /\ ~Refused(c, m)
             /\ ~Fresh(w)
             /\ call' = [call EXCEPT ![c].pc = "loading", ![c].merged = m]
             /\ BeginLoad(w, c)
       /\ UNCHANGED <<now, disk, edits, seen, cache>>

----------------------------------------------------------------------------
(* Environment *)

\* Somebody writes, replaces or removes a template.
Edit(f, content) ==
    /\ edits < MaxEdits
    /\ content # disk[f]
    /\ disk' = [disk EXCEPT ![f] = content]
    /\ seen' = [seen EXCEPT ![f][now] = @ \cup {content}]
    /\ edits' = edits + 1
    /\ UNCHANGED <<now, cache, load, call>>

\* Reading the files takes no time worth counting.
Tick ==
    /\ now < MaxTime
    /\ \A w \in Workers : ~Blocked(w)
    /\ now' = now + 1
    /\ seen' = [f \in Files |-> [seen[f] EXCEPT ![now + 1] = {disk[f]}]]
    /\ UNCHANGED <<disk, edits, cache, load, call>>

----------------------------------------------------------------------------
FileState == Contents \cup {Missing, Broken}

Init ==
    /\ now = 0
    /\ disk \in Shipped
    /\ edits = 0
    /\ seen = [f \in Files |-> [t \in 0..MaxTime |-> IF t = 0 THEN {disk[f]} ELSE {}]]
    /\ cache = [w \in Workers |-> [templates |-> Null, at |-> 0]]
    /\ load = [w \in Workers |-> [on |-> FALSE, call |-> Null, got |-> NoTemplates, todo |-> {}]]
    /\ call = [c \in Calls |->
                 [pc |-> "idle", worker |-> Null, kind |-> Null, type |-> Null, payload |-> Null,
                  hooks |-> <<>>, merged |-> Null, at |-> 0, used |-> NoTemplates,
                  decision |-> Null]]

Next ==
    \/ \E w \in Workers : Start(w) \/ ReadFile(w) \/ FinishLoad(w)
    \/ \E c \in Calls, w \in Workers, kind \in {"evaluate", "simulate"}, type \in ActionTypes,
          payload \in Payloads, n \in HookCounts : Arrive(c, w, kind, type, payload, n)
    \/ \E c \in Calls, i \in 1..MaxHooks, answer \in Answers : HookAnswers(c, i, answer)
    \/ \E c \in Calls : Resolve(c)
    \/ \E f \in Files, content \in FileState : Edit(f, content)
    \/ Tick

Spec == Init /\ [][Next]_vars

----------------------------------------------------------------------------
(* Properties *)

Field == UNION {DOMAIN p : p \in Payloads \cup Answers}

\* The values of all fields in payloads and answers
Value == UNION {{p[f] : f \in DOMAIN p} : p \in Payloads \cup Answers}

Payload == UNION {[F -> Value] : F \in SUBSET Field}

Rule == UNION {{s[i] : i \in DOMAIN s} : s \in Contents}

Decision ==
    [status : {r.action : r \in Rule} \cup {"BLOCK"},
     by : {r.rule_id : r \in Rule} \cup {"NO_POLICY_DEFINED", "NO_POLICY_MATCHED"}]

Templates == [Files -> Contents \cup {<<>>}]

TypeOK ==
    /\ now \in 0..MaxTime
    /\ disk \in [Files -> FileState]
    /\ edits \in 0..MaxEdits
    /\ seen \in [Files -> [0..MaxTime -> SUBSET FileState]]
    /\ \A w \in Workers :
          /\ cache[w].templates = Null \/ cache[w].templates \in Templates
          /\ cache[w].at \in 0..now
          /\ load[w].on \in BOOLEAN
          /\ load[w].call \in Calls \cup {Null}
          /\ load[w].got \in Templates
          /\ load[w].todo \subseteq Files
    /\ \A c \in Calls :
          /\ call[c].pc \in {"idle", "hooks", "loading", "decided", "rejected"}
          /\ call[c].pc \in {"hooks", "loading"} => /\ call[c].worker \in Workers
                                                    /\ call[c].payload \in Payloads
          /\ Len(call[c].hooks) <= MaxHooks
          /\ \A i \in DOMAIN call[c].hooks : call[c].hooks[i] \in Answers \cup {Null}
          /\ call[c].pc \in {"loading", "decided"} => call[c].merged \in Payload
          /\ call[c].pc = "decided" => /\ call[c].decision \in Decision
                                       /\ call[c].used \in Templates

Decided(c) == call[c].pc = "decided"

\* What file f has held in the ticks from..to
Held(f, from, to) == UNION {seen[f][t] : t \in (0..MaxTime) \cap (from..to)}

\* The rules a loader gets from it
AsRules(content) == IF content \in Contents THEN content ELSE <<>>

(***************************************************************************)
(* "this cache expires every CACHE_TTL seconds, allowing hot-reload"       *)
(* (loader.py:22): every file's part of the rules that decided a call was  *)
(* in that file less than TTL before, in whichever worker, and however the *)
(* files changed while they were read.  (Not all parts at one moment: a    *)
(* load may see some files before and others after a change.)              *)
(***************************************************************************)
PolicyIsFresh ==
    \A c \in Calls : Decided(c) =>
        \A f \in Files :
            call[c].used[f] \in {AsRules(x) : x \in Held(f, call[c].at - TTL + 1, call[c].at)}

(***************************************************************************)
(* Once the files have not changed for TTL, every worker decides a payload *)
(* in the same way, and simulate in the same way as evaluate: two calls    *)
(* can differ only while a change of policy is younger than that.          *)
(***************************************************************************)
WorkersAgree ==
    \A c, d \in Calls :
        /\ Decided(c) /\ Decided(d)
        /\ call[c].type = call[d].type
        /\ call[c].merged = call[d].merged
        /\ call[c].at <= call[d].at
        /\ \A f \in Files : \A x, y \in Held(f, call[c].at - TTL + 1, call[d].at) : x = y
        => call[c].decision = call[d].decision

(***************************************************************************)
(* Fail-closed: whatever hooks and files fail, a verdict other than BLOCK  *)
(* is given by a rule for the action type that its file held less than TTL *)
(* ago, and never because of a field that the call lacks: each of the      *)
(* rule's conditions, and one of its any_of, is about a value that was     *)
(* sent or answered, and that is not null.                                 *)
(***************************************************************************)
FailClosed ==
    \A c \in Calls : Decided(c) /\ call[c].decision.status # "BLOCK" =>
        LET Known(cond) == Get(call[c].merged, cond.field) # NullValue
        IN \E f \in Files : \E x \in Held(f, call[c].at - TTL + 1, call[c].at) :
              \E i \in DOMAIN AsRules(x) :
                 /\ x[i].rule_id = call[c].decision.by
                 /\ x[i].action = call[c].decision.status
                 /\ x[i].action_type = call[c].type
                 /\ \A j \in DOMAIN x[i].conditions : Known(x[i].conditions[j])
                 /\ x[i].any_of # <<>> => \E j \in DOMAIN x[i].any_of : Known(x[i].any_of[j])

(***************************************************************************)
(* "Rules are evaluated in order. First match wins." (models.py:23), over  *)
(* all templates in the order of their names: a call was decided by a rule *)
(* that applies to its payload while none before it does, or blocked       *)
(* because none does.                                                      *)
(***************************************************************************)
FirstMatchWins ==
    \A c \in Calls : Decided(c) =>
        LET used == call[c].used
            places == {p \in Files \X UNION {DOMAIN used[f] : f \in Files} :
                         /\ p[2] \in DOMAIN used[p[1]]
                         /\ used[p[1]][p[2]].action_type = call[c].type
                         /\ Applies(used[p[1]][p[2]], call[c].merged)}
            Before(p, q) == p[1] < q[1] \/ (p[1] = q[1] /\ p[2] < q[2])
        IN IF places = {} THEN call[c].decision.status = "BLOCK"
           ELSE \E p \in places :
                   /\ \A q \in places \ {p} : Before(p, q)
                   /\ call[c].decision = [status |-> used[p[1]][p[2]].action,
                                          by |-> used[p[1]][p[2]].rule_id]

(***************************************************************************)
(* The payload that is decided on does not depend on which hook was faster *)
(* than another: it is the bare one if a hook was still to come, and       *)
(* otherwise has for each field what the last hook in the request's order  *)
(* says of it, or the request itself.                                      *)
(***************************************************************************)
MergedByPosition ==
    [][\A c \in Calls : call[c].pc = "hooks" /\ call'[c].pc \in {"loading", "decided"} =>
          LET hooks == call[c].hooks
              merged == call'[c].merged
          IN IF \E i \in DOMAIN hooks : hooks[i] = Null
             THEN merged = call[c].payload
             ELSE \A f \in Field :
                     LET telling == {i \in DOMAIN hooks : f \in DOMAIN hooks[i]}
                     IN Get(merged, f) =
                          IF telling = {} THEN Get(call[c].payload, f)
                          ELSE LET last == CHOOSE i \in telling : \A j \in telling : j <= i
                               IN hooks[last][f]]_vars

====
