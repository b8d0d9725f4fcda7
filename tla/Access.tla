---- MODULE Access ----
(***************************************************************************)
(* Tenants, API keys and who gets in: TenantMiddleware and AuthService     *)
(* .validate in front of every route, the admin routes that create tenants *)
(* and create and revoke keys, and scripts/provision_tenant.py.            *)
(*                                                                         *)
(* Nothing is cached: each request looks its key up by the hash, and then  *)
(* its tenant in a second statement.  Keys are random: none is generated   *)
(* twice, so a key stands for its row, its id and its hash.                *)
(***************************************************************************)
EXTENDS Naturals, Tenancy

CONSTANTS
    ApiKeys,    \* raw API keys
    Requests,   \* HTTP requests with a Bearer token
    Lives,      \* lives of a key: days, or Null for a key without expires_at
    LastDay,    \* bound of the clock (the model's, not the code's)
    Deleted     \* the row was deleted (Null: not inserted yet)

ASSUME LivesNat == Lives \ {Null} \subseteq Nat
ASSUME NullIsNoDay == Null \notin Nat
ASSUME NullIsNotDeleted == Null # Deleted
ASSUME NullIsNoStatus == Null \notin {"active", "trial", "suspended"}
ASSUME NoTenant == Null \notin Tenants
ASSUME NoKey == {Null, Deleted} \cap ApiKeys = {}

VARIABLES
    tenant,     \* tenant[t]: column status of tenant t, Null before its row
    apiKey,     \* apiKey[k]: the row of k in table api_keys, Null or Deleted
    today,      \* datetime.now
    request,    \* request[r]: the local variables of a request
    shown       \* the raw keys that somebody was shown (they are stored nowhere)

accessVars == <<tenant, apiKey, today, request, shown>>

KeyRow == [tenant : Tenants, expiresAt : Nat \cup {Null}]

ASSUME NoRow == {Null, Deleted} \cap KeyRow = {}

Fit == {"active", "trial"}

InTable(k) == apiKey[k] \notin {Null, Deleted}

\* api_key.expires_at and now > api_key.expires_at
Expired(row) == row.expiresAt # Null /\ today > row.expiresAt

\* A key that an answered request has revoked.
Revoked(k) ==
    \E q \in Requests : /\ request[q].pc = "answered"
                        /\ request[q].route = "revoke key"
                        /\ request[q].about = k

\* A key that is no good any more, and never will be.
Dead(k) ==
    \/ Revoked(k)
    \/ InTable(k) /\ (Expired(apiKey[k]) \/ tenant[apiKey[k].tenant] \notin Fit)

----------------------------------------------------------------------------
(* TenantMiddleware.dispatch and AuthService.validate *)

Routes == {"other", "create tenant", "create key", "revoke key"}

NoRequest == [pc |-> "idle", key |-> Null, route |-> "other", of |-> Null, about |-> Null,
              life |-> Null, row |-> Null, tenant |-> Null, late |-> FALSE]

\* Request r with key k arrives: for tenant t and key g if its route names them.
Arrive(r, k, route, t, g, n) ==
    /\ request[r].pc = "idle"
    /\ route \in {"other", "create tenant"} => t = Null
    /\ route \in {"create key", "revoke key"} => t # Null
    /\ g # Null <=> route = "revoke key"
    /\ route # "create key" => n = Null
    /\ request' = [request EXCEPT ![r] =
                     [NoRequest EXCEPT !.pc = "selecting", !.key = k, !.route = route, !.of = t,
                                  !.about = g, !.life = n, !.late = Dead(k)]]
    /\ UNCHANGED <<tenant, apiKey, today, shown>>

\* HTTP 401; the request ends here.
Refused(r) == [request[r] EXCEPT !.pc = "refused", !.row = Null]

\* The SELECT by key_hash.
FindKey(r) ==
    /\ request[r].pc = "selecting"
    /\ LET k == request[r].key
       IN  request' = [request EXCEPT ![r] =
                         IF InTable(k) THEN [@ EXCEPT !.pc = "found", !.row = apiKey[k]]
                         ELSE Refused(r)]
    /\ UNCHANGED <<tenant, apiKey, today, shown>>

\* Mutant: the status of the tenant is not checked.
FindTenantAnyStatus(r) ==
    /\ request[r].pc = "found"
    /\ LET row == request[r].row
       IN  request' = [request EXCEPT ![r] =
                         IF Expired(row) THEN Refused(r)
                         ELSE [@ EXCEPT !.pc = "admitted", !.tenant = row.tenant, !.row = Null]]
    /\ UNCHANGED <<tenant, apiKey, today, shown>>

\* The SELECT of the relationship, the checks and request.state.tenant_id.
FindTenant(r) ==
    /\ request[r].pc = "found"
    /\ LET row == request[r].row
       IN  request' = [request EXCEPT ![r] =
                         IF Expired(row) \/ tenant[row.tenant] \notin Fit THEN Refused(r)
                         ELSE [@ EXCEPT !.pc = "admitted", !.tenant = row.tenant, !.row = Null]]
    /\ UNCHANGED <<tenant, apiKey, today, shown>>

\* except Exception: a failing database (or one without tables) is a 401 as well.
AuthFail(r) ==
    /\ request[r].pc \in {"selecting", "found"}
    /\ request' = [request EXCEPT ![r] = Refused(r)]
    /\ UNCHANGED <<tenant, apiKey, today, shown>>

----------------------------------------------------------------------------
(* create_tenant, create_api_key, revoke_api_key *)

\* _require_admin and check_rate_limit let the request pass or not; create_api_key
\* then generates the key and reads the clock.
Authorize(r) ==
    /\ request[r].pc = "admitted"
    /\ request[r].route # "other"
    /\ \/ request' = [request EXCEPT ![r].pc = "failed"]
       \/ request' = [request EXCEPT ![r].pc = "working",
                        ![r].life = IF @ = Null THEN Null ELSE today + @]
    /\ UNCHANGED <<tenant, apiKey, today, shown>>

\* Mutant: the plan is stored as the status.
InsertTenantPlan(r, t) ==
    /\ request[r].pc = "working"
    /\ request[r].route = "create tenant"
    /\ tenant[t] = Null
    /\ tenant' = [tenant EXCEPT ![t] = "pilot"]
    /\ request' = [request EXCEPT ![r].pc = "committed", ![r].of = t]
    /\ UNCHANGED <<apiKey, today, shown>>

InsertTenant(r, t) ==
    /\ request[r].pc = "working"
    /\ request[r].route = "create tenant"
    /\ tenant[t] = Null
    /\ tenant' = [tenant EXCEPT ![t] = "trial"]
    /\ request' = [request EXCEPT ![r].pc = "committed", ![r].of = t]
    /\ UNCHANGED <<apiKey, today, shown>>

\* create_api_key looks the tenant up ...
FindOwner(r) ==
    /\ request[r].pc = "working"
    /\ request[r].route = "create key"
    /\ request' = [request EXCEPT
                     ![r].pc = IF tenant[request[r].of] = Null THEN "failed" ELSE "read"]
    /\ UNCHANGED <<tenant, apiKey, today, shown>>

\* ... and commits the row of its key k.
InsertKey(r, k) ==
    /\ request[r].pc = "read"
    /\ request[r].route = "create key"
    /\ apiKey[k] = Null
    /\ apiKey' = [apiKey EXCEPT ![k] = [tenant |-> request[r].of, expiresAt |-> request[r].life]]
    /\ request' = [request EXCEPT ![r].pc = "committed", ![r].about = k]
    /\ UNCHANGED <<tenant, today, shown>>

\* revoke_api_key looks the row up, by id and tenant ...
FindApiKey(r) ==
    /\ request[r].pc = "working"
    /\ request[r].route = "revoke key"
    /\ LET k == request[r].about
       IN  request' = [request EXCEPT ![r].pc =
                         IF InTable(k) /\ apiKey[k].tenant = request[r].of THEN "read" ELSE "failed"]
    /\ UNCHANGED <<tenant, apiKey, today, shown>>

\* ... and commits the DELETE. If another request has deleted the row meanwhile,
\* it deletes nothing, which is a warning only.
DeleteKey(r) ==
    /\ request[r].pc = "read"
    /\ request[r].route = "revoke key"
    /\ apiKey' = [apiKey EXCEPT ![request[r].about] = Deleted]
    /\ request' = [request EXCEPT ![r].pc = "committed"]
    /\ UNCHANGED <<tenant, today, shown>>

\* Mutant: the key is shown before its row is committed.
RespondEarly(r) ==
    /\ request[r].pc \in {"read", "committed"}
    /\ request' = [request EXCEPT ![r].pc = "answered"]
    /\ \E k \in ApiKeys :
          shown' = IF request[r].route = "create key" THEN shown \cup {k} ELSE shown
    /\ UNCHANGED <<tenant, apiKey, today>>

\* The refresh, which raises if the new row is gone already, and the answer,
\* which shows a new key.
Respond(r) ==
    /\ request[r].pc = "committed"
    /\ request[r].route = "create key" => InTable(request[r].about)
    /\ request' = [request EXCEPT ![r].pc = "answered"]
    /\ shown' = IF request[r].route = "create key" THEN shown \cup {request[r].about} ELSE shown
    /\ UNCHANGED <<tenant, apiKey, today>>

\* HTTP 500: a statement fails, or the refresh after what is committed.
RouteFail(r) ==
    /\ \/ request[r].pc \in {"working", "read"}
       \/ request[r].pc = "committed" /\ request[r].route # "revoke key"
    /\ request' = [request EXCEPT ![r].pc = "failed"]
    /\ UNCHANGED <<tenant, apiKey, today, shown>>

----------------------------------------------------------------------------
(* Environment *)

\* scripts/provision_tenant.py: one transaction; the key is printed after it,
\* unless the script dies first.
Provision(t, k) ==
    /\ tenant[t] = Null
    /\ apiKey[k] = Null
    /\ tenant' = [tenant EXCEPT ![t] = "trial"]
    /\ apiKey' = [apiKey EXCEPT ![k] = [tenant |-> t, expiresAt |-> Null]]
    /\ \E print \in BOOLEAN : shown' = IF print THEN shown \cup {k} ELSE shown
    /\ UNCHANGED <<today, request>>

\* An operator suspends a tenant (no route does); nobody takes that back here.
Suspend(t) ==
    /\ tenant[t] \in Fit
    /\ tenant' = [tenant EXCEPT ![t] = "suspended"]
    /\ UNCHANGED <<apiKey, today, request, shown>>

\* The process of request r dies.
LoseRequest(r) ==
    /\ request[r].pc \in {"selecting", "found", "admitted", "working", "read", "committed"}
    /\ request' = [request EXCEPT ![r].pc = "lost", ![r].row = Null]
    /\ UNCHANGED <<tenant, apiKey, today, shown>>

NextDay ==
    /\ today < LastDay
    /\ today' = today + 1
    /\ UNCHANGED <<tenant, apiKey, request, shown>>

----------------------------------------------------------------------------
AccessInit ==
    /\ tenant = [t \in Tenants |-> Null]
    /\ apiKey = [k \in ApiKeys |-> Null]
    /\ today = 0
    /\ request = [r \in Requests |-> NoRequest]
    /\ shown = {}

AccessNext ==
    \/ \E r \in Requests, k \in ApiKeys, route \in Routes, t \in Tenants \cup {Null},
          g \in ApiKeys \cup {Null}, n \in Lives \cup {Null} : Arrive(r, k, route, t, g, n)
    \/ \E r \in Requests : FindKey(r)
    \/ \E r \in Requests : FindTenant(r)
    \/ \E r \in Requests : AuthFail(r)
    \/ \E r \in Requests : Authorize(r)
    \/ \E r \in Requests, t \in Tenants : InsertTenant(r, t)
    \/ \E r \in Requests : FindOwner(r)
    \/ \E r \in Requests, k \in ApiKeys : InsertKey(r, k)
    \/ \E r \in Requests : FindApiKey(r)
    \/ \E r \in Requests : DeleteKey(r)
    \/ \E r \in Requests : Respond(r)
    \/ \E r \in Requests : RouteFail(r)
    \/ \E t \in Tenants, k \in ApiKeys : Provision(t, k)
    \/ \E t \in Tenants : Suspend(t)
    \/ \E r \in Requests : LoseRequest(r)
    \/ NextDay

AccessSpec == AccessInit /\ [][AccessNext]_accessVars

----------------------------------------------------------------------------
(* Properties *)

RequestState ==
    [pc : {"idle", "selecting", "found", "refused", "admitted", "working", "read", "committed",
           "answered", "failed", "lost"},
     key : ApiKeys \cup {Null}, route : Routes, of : Tenants \cup {Null},
     about : ApiKeys \cup {Null}, life : Nat \cup {Null}, row : KeyRow \cup {Null},
     tenant : Tenants \cup {Null}, late : BOOLEAN]

AccessTypeOK ==
    /\ tenant \in [Tenants -> Fit \cup {"suspended", Null}]
    /\ apiKey \in [ApiKeys -> KeyRow \cup {Null, Deleted}]
    /\ today \in Nat
    /\ request \in [Requests -> RequestState]
    /\ shown \subseteq ApiKeys

(***************************************************************************)
(* Revocation, expiry and suspension take effect at once: a request that   *)
(* arrives after a revocation was answered, after the key expired or after *)
(* its tenant was suspended is never admitted, whatever was in flight in   *)
(* any process; and an admitted request acts for the tenant of its key,    *)
(* also while that key is being deleted under it.                          *)
(***************************************************************************)
AdmissionBacked ==
    \A r \in Requests : request[r].tenant # Null =>
        /\ ~request[r].late
        /\ apiKey[request[r].key] # Null
        /\ InTable(request[r].key) => apiKey[request[r].key].tenant = request[r].tenant

(***************************************************************************)
(* A key that somebody was shown works: "this API key will not be shown    *)
(* again" (governor/service.py:1048), so it is stored, or a request for    *)
(* its deletion has found it. A crash may leave a stored key that nobody   *)
(* was shown, never the other way round.                                   *)
(***************************************************************************)
ShownKeyStored ==
    \A k \in shown :
        \/ InTable(k)
        \/ \E q \in Requests : /\ request[q].route = "revoke key"
                               /\ request[q].about = k
                               /\ request[q].pc \in {"committed", "answered", "lost"}

====
