---- MODULE ServiceProofs ----
(***************************************************************************)
(* Theorems about Access, for any tenants, keys, requests and lives of a   *)
(* key: revocation, expiry and suspension take effect at once, and a key   *)
(* that was shown is stored.  Theorem about Migration, for any runs, files *)
(* and attempts: the schema is built in order.                             *)
(***************************************************************************)
EXTENDS Access, Migration, TLAPS

----------------------------------------------------------------------------
(* Access: what a request knows *)

\* The row is of no use any more, and never will be again.
Unfit(row, status, day) ==
    \/ row.expiresAt # Null /\ day > row.expiresAt
    \/ status[row.tenant] = "suspended"

\* What is looked up stays true of the tables, or the key is deleted under it.
\* A request that came late finds nothing, or a row that is unfit already.
LookupOK(r) ==
    /\ request[r].pc # "idle" => request[r].key \in ApiKeys
    /\ request[r].pc = "selecting" /\ request[r].late =>
         \/ apiKey[request[r].key] = Deleted
         \/ apiKey[request[r].key] \in KeyRow /\ Unfit(apiKey[request[r].key], tenant, today)
    /\ request[r].pc = "found" =>
         /\ request[r].row \in KeyRow
         /\ tenant[request[r].row.tenant] # Null
         /\ apiKey[request[r].key] \in {request[r].row, Deleted}
         /\ request[r].late => Unfit(request[r].row, tenant, today)
    /\ request[r].tenant # Null =>
         /\ request[r].pc # "idle"
         /\ ~request[r].late
         /\ \/ apiKey[request[r].key] = Deleted
            \/ /\ apiKey[request[r].key] \in KeyRow
               /\ apiKey[request[r].key].tenant = request[r].tenant

\* The admin routes have their arguments, and what they committed is there.
RouteOK(r) ==
    /\ request[r].route = "create key" => request[r].of \in Tenants
    /\ request[r].route = "revoke key" => request[r].about \in ApiKeys
    /\ request[r].route = "create key" /\ request[r].pc = "read" => tenant[request[r].of] # Null
    /\ request[r].route = "create key" /\ request[r].pc = "committed" =>
         request[r].about \in ApiKeys
    /\ request[r].route = "revoke key" /\ request[r].pc \in {"committed", "answered"} =>
         apiKey[request[r].about] = Deleted

\* A request has deleted k.
Revoker(r, k) ==
    /\ request[r].route = "revoke key"
    /\ request[r].about = k
    /\ request[r].pc \in {"committed", "answered", "lost"}

KeysInv ==
    \A k \in ApiKeys :
        /\ apiKey[k] \in KeyRow => tenant[apiKey[k].tenant] # Null
        /\ apiKey[k] = Deleted => \E r \in Requests : Revoker(r, k)
        /\ k \in shown => apiKey[k] # Null

AccessInv ==
    /\ AccessTypeOK
    /\ \A r \in Requests : LookupOK(r) /\ RouteOK(r)
    /\ KeysInv

\* Rows are inserted once and deleted for good; suspension and time do not turn
\* back.
TablesGrow ==
    /\ \A k \in ApiKeys : apiKey[k] # Null => apiKey'[k] \in {apiKey[k], Deleted}
    /\ \A t \in Tenants : /\ tenant[t] # Null => tenant'[t] # Null
                          /\ tenant[t] = "suspended" => tenant'[t] = "suspended"
    /\ today' \in Nat /\ today <= today'

LEMMA UnfitStays ==
    ASSUME TablesGrow, AccessTypeOK, NEW row \in KeyRow, Unfit(row, tenant, today)
    PROVE  Unfit(row, tenant', today')
  <1>1. row.tenant \in Tenants /\ row.expiresAt \in Nat \cup {Null}
    BY DEF KeyRow
  <1>2. today \in Nat /\ today' \in Nat /\ today <= today'
    BY DEF TablesGrow, AccessTypeOK
  <1>3. row.expiresAt # Null /\ today > row.expiresAt => today' > row.expiresAt
    BY <1>1, <1>2
  <1>4. tenant[row.tenant] = "suspended" => tenant'[row.tenant] = "suspended"
    BY <1>1 DEF TablesGrow
  <1> QED
    BY <1>3, <1>4 DEF Unfit

\* A request that is left alone keeps what it knows.
LEMMA RequestStays ==
    ASSUME AccessInv, TablesGrow, NEW r \in Requests, request'[r] = request[r]
    PROVE  LookupOK(r)' /\ RouteOK(r)'
  <1>1. request[r] \in RequestState /\ LookupOK(r) /\ RouteOK(r) /\ AccessTypeOK
    BY DEF AccessInv, AccessTypeOK
  <1>2. \A x \in KeyRow : Unfit(x, tenant, today) => Unfit(x, tenant', today')
    BY <1>1, UnfitStays
  <1>3. \A k \in ApiKeys : apiKey[k] # Null => apiKey'[k] \in {apiKey[k], Deleted}
    BY DEF TablesGrow
  <1>4. \A t \in Tenants : tenant[t] # Null => tenant'[t] # Null
    BY DEF TablesGrow
  <1>5. \A x \in KeyRow : x.tenant \in Tenants
    BY DEF KeyRow
  <1>6. Null \notin KeyRow /\ Deleted \notin KeyRow /\ Null # Deleted
    BY NoRow, NullIsNotDeleted
  <1>7. request[r].pc # "idle" => request'[r].key \in ApiKeys
    BY <1>1 DEF LookupOK
  <1>8. ASSUME request[r].pc = "selecting", request[r].late
        PROVE  \/ apiKey'[request[r].key] = Deleted
               \/ /\ apiKey'[request[r].key] \in KeyRow
                  /\ Unfit(apiKey'[request[r].key], tenant', today')
    BY <1>1, <1>2, <1>3, <1>6, <1>7, <1>8 DEF LookupOK
  <1>9. ASSUME request[r].pc = "found"
        PROVE  /\ request[r].row \in KeyRow
               /\ tenant'[request[r].row.tenant] # Null
               /\ apiKey'[request[r].key] \in {request[r].row, Deleted}
               /\ request[r].late => Unfit(request[r].row, tenant', today')
    BY <1>1, <1>2, <1>3, <1>4, <1>5, <1>6, <1>7, <1>9 DEF LookupOK
  <1>10. ASSUME request[r].tenant # Null
         PROVE  /\ request[r].pc # "idle"
                /\ ~request[r].late
                /\ \/ apiKey'[request[r].key] = Deleted
                   \/ /\ apiKey'[request[r].key] \in KeyRow
                      /\ apiKey'[request[r].key].tenant = request[r].tenant
    BY <1>1, <1>3, <1>6, <1>7, <1>10 DEF LookupOK
  <1>11. LookupOK(r)'
    BY <1>7, <1>8, <1>9, <1>10 DEF LookupOK
  <1>12. RouteOK(r)'
    BY <1>1, <1>3, <1>4, <1>6 DEF RouteOK
  <1> QED
    BY <1>11, <1>12

\* A step of one request; the tables may grow with it.
LEMMA OneRequestMoves ==
    ASSUME AccessInv, TablesGrow, NEW r \in Requests, NEW new \in RequestState,
           request' = [request EXCEPT ![r] = new],
           tenant' \in [Tenants -> Fit \cup {"suspended", Null}],
           apiKey' \in [ApiKeys -> KeyRow \cup {Null, Deleted}],
           shown' \subseteq ApiKeys,
           LookupOK(r)', RouteOK(r)',
           \A k \in ApiKeys : Revoker(r, k) => Revoker(r, k)',
           \A k \in ApiKeys :
              /\ apiKey'[k] \in KeyRow /\ apiKey'[k] # apiKey[k] => tenant'[apiKey'[k].tenant] # Null
              /\ apiKey'[k] = Deleted /\ apiKey'[k] # apiKey[k] => Revoker(r, k)'
              /\ k \in shown' \ shown => apiKey'[k] # Null
    PROVE  AccessInv'
  <1>1. request \in [Requests -> RequestState] /\ request' \in [Requests -> RequestState]
    BY DEF AccessInv, AccessTypeOK
  <1>2. AccessTypeOK'
    BY <1>1 DEF AccessTypeOK, TablesGrow
  <1>3. \A q \in Requests : q # r => request'[q] = request[q]
    BY <1>1
  <1>4. \A q \in Requests : LookupOK(q)' /\ RouteOK(q)'
    BY <1>3, RequestStays
  <1>5. \A q \in Requests, k \in ApiKeys : Revoker(q, k) => Revoker(q, k)'
    BY <1>3 DEF Revoker
  <1>6. \A x \in KeyRow : x.tenant \in Tenants
    BY DEF KeyRow
  <1>7. KeysInv'
    <2> SUFFICES ASSUME NEW k \in ApiKeys
                 PROVE  /\ apiKey'[k] \in KeyRow => tenant'[apiKey'[k].tenant] # Null
                        /\ apiKey'[k] = Deleted => \E q \in Requests : Revoker(q, k)'
                        /\ k \in shown' => apiKey'[k] # Null
      BY DEF KeysInv
    <2>1. apiKey'[k] \in KeyRow => tenant'[apiKey'[k].tenant] # Null
      BY <1>6 DEF AccessInv, KeysInv, TablesGrow
    <2>2. apiKey'[k] = Deleted => \E q \in Requests : Revoker(q, k)'
      BY <1>5 DEF AccessInv, KeysInv
    <2>3. k \in shown' => apiKey'[k] # Null
      BY NoKey, NoRow, NullIsNotDeleted DEF AccessInv, KeysInv, TablesGrow
    <2> QED
      BY <2>1, <2>2, <2>3
  <1> QED
    BY <1>2, <1>4, <1>7 DEF AccessInv

\* No request moves; the tables may grow.
LEMMA NoRequestMoves ==
    ASSUME AccessInv, TablesGrow, UNCHANGED request,
           tenant' \in [Tenants -> Fit \cup {"suspended", Null}],
           apiKey' \in [ApiKeys -> KeyRow \cup {Null, Deleted}],
           shown' \subseteq ApiKeys,
           \A k \in ApiKeys :
              /\ apiKey'[k] \in KeyRow /\ apiKey'[k] # apiKey[k] => tenant'[apiKey'[k].tenant] # Null
              /\ apiKey'[k] = Deleted => apiKey'[k] = apiKey[k]
              /\ k \in shown' \ shown => apiKey'[k] # Null
    PROVE  AccessInv'
  <1>1. AccessTypeOK'
    BY DEF AccessInv, AccessTypeOK, TablesGrow
  <1>2. \A q \in Requests : LookupOK(q)' /\ RouteOK(q)'
    BY RequestStays
  <1>3. \A x \in KeyRow : x.tenant \in Tenants
    BY DEF KeyRow
  <1>4. \A q \in Requests, k \in ApiKeys : Revoker(q, k) => Revoker(q, k)'
    BY DEF Revoker
  <1>5. KeysInv'
    <2> SUFFICES ASSUME NEW k \in ApiKeys
                 PROVE  /\ apiKey'[k] \in KeyRow => tenant'[apiKey'[k].tenant] # Null
                        /\ apiKey'[k] = Deleted => \E q \in Requests : Revoker(q, k)'
                        /\ k \in shown' => apiKey'[k] # Null
      BY DEF KeysInv
    <2>1. apiKey'[k] \in KeyRow => tenant'[apiKey'[k].tenant] # Null
      BY <1>3 DEF AccessInv, KeysInv, TablesGrow
    <2>2. apiKey'[k] = Deleted => \E q \in Requests : Revoker(q, k)'
      BY <1>4 DEF AccessInv, KeysInv
    <2>3. k \in shown' => apiKey'[k] # Null
      BY NoKey, NoRow, NullIsNotDeleted DEF AccessInv, KeysInv, TablesGrow
    <2> QED
      BY <2>1, <2>2, <2>3
  <1> QED
    BY <1>1, <1>2, <1>5 DEF AccessInv

\* The tables stay as they are.
LEMMA SameTables ==
    ASSUME AccessInv, UNCHANGED <<tenant, apiKey, today>>
    PROVE  TablesGrow
  BY DEF AccessInv, AccessTypeOK, TablesGrow

LEMMA SameDay ==
    ASSUME AccessInv, UNCHANGED today
    PROVE  today' \in Nat /\ today <= today'
  BY DEF AccessInv, AccessTypeOK

LEMMA AccessInitInv == AccessInit => AccessInv
  <1> SUFFICES ASSUME AccessInit PROVE AccessInv
    OBVIOUS
  <1>1. NoRequest \in RequestState
    BY DEF NoRequest, RequestState, Routes
  <1>2. AccessTypeOK
    BY <1>1 DEF AccessInit, AccessTypeOK
  <1>3. \A r \in Requests : LookupOK(r) /\ RouteOK(r)
    BY DEF AccessInit, NoRequest, LookupOK, RouteOK
  <1>4. KeysInv
    BY NoRow, NullIsNotDeleted DEF AccessInit, KeysInv
  <1> QED
    BY <1>2, <1>3, <1>4 DEF AccessInv

----------------------------------------------------------------------------
(* Access: its actions *)

\* A key that is dead when a request arrives is deleted, or its row is unfit.
LEMMA DeadKey ==
    ASSUME AccessInv, NEW k \in ApiKeys, Dead(k)
    PROVE  \/ apiKey[k] = Deleted
           \/ apiKey[k] \in KeyRow /\ Unfit(apiKey[k], tenant, today)
  <1>1. apiKey[k] \in KeyRow \cup {Null, Deleted}
    BY DEF AccessInv, AccessTypeOK
  <1>2. CASE Revoked(k)
    <2>1. PICK q \in Requests : /\ request[q].pc = "answered"
                               /\ request[q].route = "revoke key"
                               /\ request[q].about = k
      BY <1>2 DEF Revoked
    <2>2. RouteOK(q)
      BY DEF AccessInv
    <2> QED
      BY <2>1, <2>2 DEF RouteOK
  <1>3. CASE InTable(k) /\ (Expired(apiKey[k]) \/ tenant[apiKey[k].tenant] \notin Fit)
    <2>1. apiKey[k] \in KeyRow
      BY <1>1, <1>3 DEF InTable
    <2>2. apiKey[k].tenant \in Tenants
      BY <2>1 DEF KeyRow
    <2>3. tenant[apiKey[k].tenant] \in Fit \cup {"suspended", Null}
      BY <2>2 DEF AccessInv, AccessTypeOK
    <2>4. tenant[apiKey[k].tenant] # Null
      BY <2>1 DEF AccessInv, KeysInv
    <2>5. tenant[apiKey[k].tenant] \notin Fit => tenant[apiKey[k].tenant] = "suspended"
      BY <2>3, <2>4
    <2> QED
      BY <1>3, <2>1, <2>5 DEF Unfit, Expired
  <1> QED
    BY <1>2, <1>3 DEF Dead

LEMMA ArriveInv ==
    ASSUME AccessInv, NEW r \in Requests, NEW k \in ApiKeys, NEW route \in Routes,
           NEW t \in Tenants \cup {Null}, NEW g \in ApiKeys \cup {Null},
           NEW n \in Lives \cup {Null}, Arrive(r, k, route, t, g, n)
    PROVE  AccessInv'
  <1> DEFINE new == [NoRequest EXCEPT !.pc = "selecting", !.key = k, !.route = route, !.of = t,
                                      !.about = g, !.life = n, !.late = Dead(k)]
  <1>1. Dead(k) \in BOOLEAN
    BY DEF Dead, Revoked, InTable, Expired
  <1>2. new \in RequestState
    BY <1>1, LivesNat DEF NoRequest, RequestState
  <1>3. /\ new.pc = "selecting" /\ new.key = k /\ new.route = route /\ new.of = t
        /\ new.about = g /\ new.tenant = Null /\ new.late = Dead(k)
    BY DEF NoRequest
  <1>4. /\ request[r].pc = "idle"
        /\ route \in {"create key", "revoke key"} => t # Null
        /\ g # Null <=> route = "revoke key"
        /\ request' = [request EXCEPT ![r] = new]
        /\ UNCHANGED <<tenant, apiKey, today, shown>>
    BY DEF Arrive
  <1> HIDE DEF new
  <1>5. request'[r] = new
    BY <1>2, <1>4 DEF AccessInv, AccessTypeOK
  <1>6. LookupOK(r)'
    BY <1>3, <1>4, <1>5, DeadKey DEF LookupOK
  <1>7. RouteOK(r)'
    BY <1>3, <1>4, <1>5 DEF RouteOK
  <1>8. \A x \in ApiKeys : Revoker(r, x) => Revoker(r, x)'
    BY <1>4 DEF Revoker
  <1>9. TablesGrow
    BY <1>4, SameTables
  <1> QED
    BY <1>2, <1>4, <1>6, <1>7, <1>8, <1>9, OneRequestMoves DEF AccessInv, AccessTypeOK

LEMMA FindKeyInv ==
    ASSUME AccessInv, NEW r \in Requests, FindKey(r)
    PROVE  AccessInv'
  <1> DEFINE k == request[r].key
             new == IF InTable(k) THEN [request[r] EXCEPT !.pc = "found", !.row = apiKey[k]]
                    ELSE Refused(r)
  <1>1. request[r] \in RequestState /\ LookupOK(r) /\ RouteOK(r)
    BY DEF AccessInv, AccessTypeOK
  <1>2. /\ request[r].pc = "selecting"
        /\ request' = [request EXCEPT ![r] = new]
        /\ UNCHANGED <<tenant, apiKey, today, shown>>
    BY DEF FindKey
  <1>3. k \in ApiKeys
    BY <1>1, <1>2 DEF LookupOK
  <1>4. apiKey[k] \in KeyRow \cup {Null, Deleted}
    BY <1>3 DEF AccessInv, AccessTypeOK
  <1>5. InTable(k) => apiKey[k] \in KeyRow
    BY <1>4 DEF InTable
  <1>6. new \in RequestState
    BY <1>1, <1>5 DEF RequestState, Refused
  <1>7. /\ new.pc = IF InTable(k) THEN "found" ELSE "refused"
        /\ InTable(k) => new.row = apiKey[k]
        /\ new.key = k /\ new.route = request[r].route /\ new.of = request[r].of
        /\ new.about = request[r].about /\ new.tenant = request[r].tenant
        /\ new.late = request[r].late
    BY <1>1 DEF RequestState, Refused
  <1> HIDE DEF new
  <1>8. request'[r] = new
    BY <1>2, <1>6 DEF AccessInv, AccessTypeOK
  <1>9. apiKey[k] \in KeyRow => tenant[apiKey[k].tenant] # Null
    BY <1>3 DEF AccessInv, KeysInv
  <1>10. request[r].late /\ InTable(k) => Unfit(apiKey[k], tenant, today)
    BY <1>1, <1>2 DEF LookupOK, InTable
  <1>11. LookupOK(r)'
    BY <1>1, <1>2, <1>3, <1>5, <1>7, <1>8, <1>9, <1>10 DEF LookupOK
  <1>12. RouteOK(r)'
    BY <1>1, <1>2, <1>7, <1>8 DEF RouteOK
  <1>13. \A x \in ApiKeys : Revoker(r, x) => Revoker(r, x)'
    BY <1>2 DEF Revoker
  <1>14. TablesGrow
    BY <1>2, SameTables
  <1> QED
    BY <1>2, <1>6, <1>11, <1>12, <1>13, <1>14, OneRequestMoves DEF AccessInv, AccessTypeOK

LEMMA FindTenantInv ==
    ASSUME AccessInv, NEW r \in Requests, FindTenant(r)
    PROVE  AccessInv'
  <1> DEFINE row == request[r].row
             bad == Expired(row) \/ tenant[row.tenant] \notin Fit
             new == IF bad THEN Refused(r)
                    ELSE [request[r] EXCEPT !.pc = "admitted", !.tenant = row.tenant, !.row = Null]
  <1>1. request[r] \in RequestState /\ LookupOK(r) /\ RouteOK(r)
    BY DEF AccessInv, AccessTypeOK
  <1>2. /\ request[r].pc = "found"
        /\ request' = [request EXCEPT ![r] = new]
        /\ UNCHANGED <<tenant, apiKey, today, shown>>
    BY DEF FindTenant
  <1>3. /\ request[r].key \in ApiKeys
        /\ row \in KeyRow
        /\ apiKey[request[r].key] \in {row, Deleted}
        /\ request[r].late => Unfit(row, tenant, today)
    BY <1>1, <1>2 DEF LookupOK
  <1>4. row.tenant \in Tenants /\ row.tenant # Null
    BY <1>3, NoTenant DEF KeyRow
  <1>5. request[r].late => bad
    BY <1>3 DEF Unfit, Expired, Fit
  <1>6. new \in RequestState
    BY <1>1, <1>4 DEF RequestState, Refused
  <1>7. /\ new.pc = IF bad THEN "refused" ELSE "admitted"
        /\ new.tenant = IF bad THEN request[r].tenant ELSE row.tenant
        /\ new.key = request[r].key /\ new.route = request[r].route /\ new.of = request[r].of
        /\ new.about = request[r].about /\ new.late = request[r].late
    BY <1>1 DEF RequestState, Refused
  <1> HIDE DEF new, bad
  <1>8. request'[r] = new
    BY <1>2, <1>6 DEF AccessInv, AccessTypeOK
  <1>9. LookupOK(r)'
    BY <1>1, <1>2, <1>3, <1>5, <1>7, <1>8 DEF LookupOK
  <1>10. RouteOK(r)'
    BY <1>1, <1>2, <1>7, <1>8 DEF RouteOK
  <1>11. \A x \in ApiKeys : Revoker(r, x) => Revoker(r, x)'
    BY <1>2 DEF Revoker
  <1>12. TablesGrow
    BY <1>2, SameTables
  <1> QED
    BY <1>2, <1>6, <1>9, <1>10, <1>11, <1>12, OneRequestMoves DEF AccessInv, AccessTypeOK

\* A request goes on; what it looked up and what it is about stay.
LEMMA RequestGoesOn ==
    ASSUME AccessInv, NEW r \in Requests, NEW new \in RequestState,
           request' = [request EXCEPT ![r] = new],
           UNCHANGED <<tenant, apiKey, today>>,
           new.key = request[r].key, new.route = request[r].route, new.of = request[r].of,
           new.about = request[r].about, new.tenant = request[r].tenant,
           new.late = request[r].late,
           request[r].pc # "idle", new.pc \notin {"idle", "selecting", "found"},
           request[r].pc \in {"committed", "answered", "lost"} =>
               new.route # "revoke key" \/ new.pc \in {"committed", "answered", "lost"},
           new.route = "create key" /\ new.pc = "read" => tenant[new.of] # Null,
           new.pc # "committed",
           new.route = "revoke key" /\ new.pc = "answered" => apiKey[new.about] = Deleted,
           shown' \subseteq ApiKeys,
           \A k \in shown' \ shown : apiKey[k] # Null
    PROVE  AccessInv'
  <1>1. request[r] \in RequestState /\ LookupOK(r) /\ RouteOK(r)
    BY DEF AccessInv, AccessTypeOK
  <1>2. request'[r] = new
    BY DEF AccessInv, AccessTypeOK
  <1>3. LookupOK(r)'
    BY <1>1, <1>2 DEF LookupOK
  <1>4. RouteOK(r)'
    BY <1>1, <1>2 DEF RouteOK
  <1>5. \A x \in ApiKeys : Revoker(r, x) => Revoker(r, x)'
    BY <1>2 DEF Revoker
  <1>6. TablesGrow
    BY SameTables
  <1> QED
    BY <1>3, <1>4, <1>5, <1>6, OneRequestMoves DEF AccessInv, AccessTypeOK

LEMMA AuthFailInv ==
    ASSUME AccessInv, NEW r \in Requests, AuthFail(r)
    PROVE  AccessInv'
  <1> DEFINE new == Refused(r)
  <1>1. request[r] \in RequestState
    BY DEF AccessInv, AccessTypeOK
  <1>2. new \in RequestState
    BY <1>1 DEF Refused, RequestState
  <1>3. /\ new.key = request[r].key /\ new.route = request[r].route /\ new.of = request[r].of
        /\ new.about = request[r].about /\ new.tenant = request[r].tenant
        /\ new.late = request[r].late /\ new.pc = "refused"
    BY <1>1 DEF Refused, RequestState
  <1>4. /\ request[r].pc \in {"selecting", "found"}
        /\ request' = [request EXCEPT ![r] = new]
        /\ UNCHANGED <<tenant, apiKey, today, shown>>
    BY DEF AuthFail
  <1> HIDE DEF new
  <1> QED
    BY <1>2, <1>3, <1>4, RequestGoesOn DEF AccessInv, AccessTypeOK

LEMMA AuthorizeInv ==
    ASSUME AccessInv, NEW r \in Requests, Authorize(r)
    PROVE  AccessInv'
  <1>1. request[r] \in RequestState
    BY DEF AccessInv, AccessTypeOK
  <1>2. PICK p \in {"failed", "working"}, n \in Nat \cup {Null} :
           request' = [request EXCEPT ![r] = [request[r] EXCEPT !.pc = p, !.life = n]]
    <2>1. request[r].life \in Nat \cup {Null} /\ today \in Nat
      BY <1>1 DEF RequestState, AccessInv, AccessTypeOK
    <2> DEFINE n == IF request[r].life = Null THEN Null ELSE today + request[r].life
    <2>2. n \in Nat \cup {Null}
      BY <2>1
    <2>3. CASE request' = [request EXCEPT ![r].pc = "failed"]
      <3>1. [request[r] EXCEPT !.pc = "failed", !.life = request[r].life]
              = [request[r] EXCEPT !.pc = "failed"]
        BY <1>1 DEF RequestState
      <3> QED
        BY <2>1, <2>3, <3>1
    <2>4. CASE request' = [request EXCEPT ![r].pc = "working",
                             ![r].life = IF @ = Null THEN Null ELSE today + @]
      <3>1. request' = [request EXCEPT ![r] = [request[r] EXCEPT !.pc = "working", !.life = n]]
        BY <1>1, <2>4 DEF RequestState, AccessInv, AccessTypeOK
      <3> QED
        BY <2>2, <3>1
    <2> QED
      BY <2>3, <2>4 DEF Authorize
  <1> DEFINE new == [request[r] EXCEPT !.pc = p, !.life = n]
  <1>3. new \in RequestState
    BY <1>1 DEF RequestState
  <1>4. /\ new.key = request[r].key /\ new.route = request[r].route /\ new.of = request[r].of
        /\ new.about = request[r].about /\ new.tenant = request[r].tenant
        /\ new.late = request[r].late /\ new.pc = p
    BY <1>1 DEF RequestState
  <1>5. /\ request[r].pc = "admitted"
        /\ request' = [request EXCEPT ![r] = new]
        /\ UNCHANGED <<tenant, apiKey, today, shown>>
    BY <1>2 DEF Authorize
  <1> HIDE DEF new
  <1> QED
    BY <1>3, <1>4, <1>5, RequestGoesOn DEF AccessInv, AccessTypeOK

LEMMA FindOwnerInv ==
    ASSUME AccessInv, NEW r \in Requests, FindOwner(r)
    PROVE  AccessInv'
  <1>1. request[r] \in RequestState
    BY DEF AccessInv, AccessTypeOK
  <1> DEFINE new == [request[r] EXCEPT !.pc = IF tenant[request[r].of] = Null THEN "failed"
                                              ELSE "read"]
  <1>2. new \in RequestState
    BY <1>1 DEF RequestState
  <1>3. /\ new.key = request[r].key /\ new.route = request[r].route /\ new.of = request[r].of
        /\ new.about = request[r].about /\ new.tenant = request[r].tenant
        /\ new.late = request[r].late
        /\ new.pc = IF tenant[request[r].of] = Null THEN "failed" ELSE "read"
    BY <1>1 DEF RequestState
  <1>4. /\ request[r].pc = "working"
        /\ request' = [request EXCEPT ![r] = new]
        /\ UNCHANGED <<tenant, apiKey, today, shown>>
    BY DEF FindOwner
  <1> HIDE DEF new
  <1> QED
    BY <1>2, <1>3, <1>4, RequestGoesOn DEF AccessInv, AccessTypeOK

LEMMA FindApiKeyInv ==
    ASSUME AccessInv, NEW r \in Requests, FindApiKey(r)
    PROVE  AccessInv'
  <1>1. request[r] \in RequestState
    BY DEF AccessInv, AccessTypeOK
  <1> DEFINE k == request[r].about
             ours == InTable(k) /\ apiKey[k].tenant = request[r].of
             new == [request[r] EXCEPT !.pc = IF ours THEN "read" ELSE "failed"]
  <1>2. new \in RequestState
    BY <1>1 DEF RequestState
  <1>3. /\ new.key = request[r].key /\ new.route = request[r].route /\ new.of = request[r].of
        /\ new.about = request[r].about /\ new.tenant = request[r].tenant
        /\ new.late = request[r].late
        /\ new.pc \in {"read", "failed"}
    BY <1>1 DEF RequestState
  <1>4. /\ request[r].pc = "working" /\ request[r].route = "revoke key"
        /\ request' = [request EXCEPT ![r] = new]
        /\ UNCHANGED <<tenant, apiKey, today, shown>>
    BY DEF FindApiKey
  <1> HIDE DEF new
  <1> QED
    BY <1>2, <1>3, <1>4, RequestGoesOn DEF AccessInv, AccessTypeOK

LEMMA RespondInv ==
    ASSUME AccessInv, NEW r \in Requests, Respond(r)
    PROVE  AccessInv'
  <1>1. request[r] \in RequestState /\ RouteOK(r)
    BY DEF AccessInv, AccessTypeOK
  <1> DEFINE new == [request[r] EXCEPT !.pc = "answered"]
  <1>2. new \in RequestState
    BY <1>1 DEF RequestState
  <1>3. /\ new.key = request[r].key /\ new.route = request[r].route /\ new.of = request[r].of
        /\ new.about = request[r].about /\ new.tenant = request[r].tenant
        /\ new.late = request[r].late
        /\ new.pc = "answered"
    BY <1>1 DEF RequestState
  <1>4. /\ request[r].pc = "committed"
        /\ request' = [request EXCEPT ![r] = new]
        /\ UNCHANGED <<tenant, apiKey, today>>
    BY DEF Respond
  <1> HIDE DEF new
  <1>5. shown' \subseteq ApiKeys /\ \A k \in shown' \ shown : apiKey[k] # Null
    BY <1>1, <1>4 DEF Respond, RouteOK, InTable, AccessInv, AccessTypeOK
  <1>6. new.route = "revoke key" => apiKey[new.about] = Deleted
    BY <1>1, <1>3, <1>4 DEF RouteOK
  <1> QED
    BY <1>2, <1>3, <1>4, <1>5, <1>6, RequestGoesOn

LEMMA RouteFailInv ==
    ASSUME AccessInv, NEW r \in Requests, RouteFail(r)
    PROVE  AccessInv'
  <1>1. request[r] \in RequestState
    BY DEF AccessInv, AccessTypeOK
  <1> DEFINE new == [request[r] EXCEPT !.pc = "failed"]
  <1>2. new \in RequestState
    BY <1>1 DEF RequestState
  <1>3. /\ new.key = request[r].key /\ new.route = request[r].route /\ new.of = request[r].of
        /\ new.about = request[r].about /\ new.tenant = request[r].tenant
        /\ new.late = request[r].late
        /\ new.pc = "failed"
    BY <1>1 DEF RequestState
  <1>4. /\ \/ request[r].pc \in {"working", "read"}
           \/ request[r].pc = "committed" /\ request[r].route # "revoke key"
        /\ request' = [request EXCEPT ![r] = new]
        /\ UNCHANGED <<tenant, apiKey, today, shown>>
    BY DEF RouteFail
  <1> HIDE DEF new
  <1> QED
    BY <1>2, <1>3, <1>4, RequestGoesOn DEF AccessInv, AccessTypeOK

LEMMA LoseRequestInv ==
    ASSUME AccessInv, NEW r \in Requests, LoseRequest(r)
    PROVE  AccessInv'
  <1>1. request[r] \in RequestState
    BY DEF AccessInv, AccessTypeOK
  <1> DEFINE new == [request[r] EXCEPT !.pc = "lost", !.row = Null]
  <1>2. new \in RequestState
    BY <1>1 DEF RequestState
  <1>3. /\ new.key = request[r].key /\ new.route = request[r].route /\ new.of = request[r].of
        /\ new.about = request[r].about /\ new.tenant = request[r].tenant
        /\ new.late = request[r].late
        /\ new.pc = "lost"
    BY <1>1 DEF RequestState
  <1>4. /\ request[r].pc # "idle"
        /\ request' = [request EXCEPT ![r] = new]
        /\ UNCHANGED <<tenant, apiKey, today, shown>>
    BY DEF LoseRequest
  <1> HIDE DEF new
  <1> QED
    BY <1>2, <1>3, <1>4, RequestGoesOn DEF AccessInv, AccessTypeOK

\* The three routes commit: one row is inserted or deleted.
LEMMA InsertTenantInv ==
    ASSUME AccessInv, NEW r \in Requests, NEW t \in Tenants, InsertTenant(r, t)
    PROVE  AccessInv'
  <1>1. request[r] \in RequestState /\ LookupOK(r) /\ RouteOK(r)
    BY DEF AccessInv, AccessTypeOK
  <1> DEFINE new == [request[r] EXCEPT !.pc = "committed", !.of = t]
  <1>2. new \in RequestState
    BY <1>1 DEF RequestState
  <1>3. /\ new.key = request[r].key /\ new.route = request[r].route /\ new.of = t
        /\ new.about = request[r].about /\ new.tenant = request[r].tenant
        /\ new.late = request[r].late /\ new.pc = "committed"
    BY <1>1 DEF RequestState
  <1>4. /\ request[r].pc = "working" /\ request[r].route = "create tenant"
        /\ request' = [request EXCEPT ![r] = new]
        /\ tenant[t] = Null /\ tenant' = [tenant EXCEPT ![t] = "trial"]
        /\ UNCHANGED <<apiKey, today, shown>>
    BY <1>1 DEF InsertTenant, RequestState, AccessInv, AccessTypeOK
  <1> HIDE DEF new
  <1>5. request'[r] = new
    BY <1>2, <1>4 DEF AccessInv, AccessTypeOK
  <1>6. tenant' \in [Tenants -> Fit \cup {"suspended", Null}]
    BY <1>4 DEF AccessInv, AccessTypeOK, Fit
  <1>7. TablesGrow
    <2>1. \A x \in Tenants : x # t => tenant'[x] = tenant[x]
      BY <1>4 DEF AccessInv, AccessTypeOK
    <2>2. tenant'[t] = "trial"
      BY <1>4 DEF AccessInv, AccessTypeOK
    <2>3. today' \in Nat /\ today <= today'
      BY <1>4, SameDay
    <2> QED
      BY <1>4, <2>1, <2>2, <2>3, NullIsNoStatus DEF TablesGrow
  <1>8. LookupOK(r)'
    BY <1>1, <1>3, <1>4, <1>5 DEF LookupOK
  <1>9. RouteOK(r)'
    BY <1>1, <1>3, <1>4, <1>5 DEF RouteOK
  <1>10. \A x \in ApiKeys : Revoker(r, x) => Revoker(r, x)'
    BY <1>4 DEF Revoker
  <1> QED
    BY <1>2, <1>4, <1>6, <1>7, <1>8, <1>9, <1>10, OneRequestMoves DEF AccessInv, AccessTypeOK

LEMMA InsertKeyInv ==
    ASSUME AccessInv, NEW r \in Requests, NEW k \in ApiKeys, InsertKey(r, k)
    PROVE  AccessInv'
  <1>1. request[r] \in RequestState /\ LookupOK(r) /\ RouteOK(r)
    BY DEF AccessInv, AccessTypeOK
  <1> DEFINE new == [request[r] EXCEPT !.pc = "committed", !.about = k]
             row == [tenant |-> request[r].of, expiresAt |-> request[r].life]
  <1>2. new \in RequestState
    BY <1>1 DEF RequestState
  <1>3. /\ new.key = request[r].key /\ new.route = request[r].route /\ new.of = request[r].of
        /\ new.about = k /\ new.tenant = request[r].tenant
        /\ new.late = request[r].late /\ new.pc = "committed"
    BY <1>1 DEF RequestState
  <1>4. /\ request[r].pc = "read" /\ request[r].route = "create key"
        /\ request' = [request EXCEPT ![r] = new]
        /\ apiKey[k] = Null /\ apiKey' = [apiKey EXCEPT ![k] = row]
        /\ UNCHANGED <<tenant, today, shown>>
    BY <1>1 DEF InsertKey, RequestState, AccessInv, AccessTypeOK
  <1>5. row \in KeyRow /\ tenant[row.tenant] # Null
    BY <1>1, <1>4 DEF RouteOK, KeyRow, RequestState
  <1>6. row # Null /\ row # Deleted
    BY <1>5, NoRow
  <1> HIDE DEF new, row
  <1>7. request'[r] = new
    BY <1>2, <1>4 DEF AccessInv, AccessTypeOK
  <1>8. /\ apiKey' \in [ApiKeys -> KeyRow \cup {Null, Deleted}]
        /\ \A x \in ApiKeys : apiKey'[x] = IF x = k THEN row ELSE apiKey[x]
    BY <1>4, <1>5 DEF AccessInv, AccessTypeOK
  <1>9. \A x \in ApiKeys : apiKey[x] # Null => apiKey'[x] = apiKey[x]
    BY <1>4, <1>8
  <1>10. today' \in Nat /\ today <= today'
    BY <1>4, SameDay
  <1>11. TablesGrow
    BY <1>4, <1>9, <1>10 DEF TablesGrow
  <1>12. request[r].tenant # Null => apiKey[request[r].key] # Null
    BY <1>1, NoRow, NullIsNotDeleted DEF LookupOK
  <1>13. LookupOK(r)'
    BY <1>1, <1>3, <1>4, <1>7, <1>9, <1>12 DEF LookupOK
  <1>14. RouteOK(r)'
    BY <1>1, <1>3, <1>4, <1>7 DEF RouteOK
  <1>15. \A x \in ApiKeys : Revoker(r, x) => Revoker(r, x)'
    BY <1>4 DEF Revoker
  <1>16. \A x \in ApiKeys : apiKey'[x] # apiKey[x] => x = k /\ apiKey'[x] = row
    BY <1>8
  <1> QED
    BY <1>2, <1>4, <1>5, <1>6, <1>8, <1>11, <1>13, <1>14, <1>15, <1>16, OneRequestMoves
    DEF AccessInv, AccessTypeOK

LEMMA DeleteKeyInv ==
    ASSUME AccessInv, NEW r \in Requests, DeleteKey(r)
    PROVE  AccessInv'
  <1>1. request[r] \in RequestState /\ LookupOK(r) /\ RouteOK(r)
    BY DEF AccessInv, AccessTypeOK
  <1> DEFINE new == [request[r] EXCEPT !.pc = "committed"]
             k == request[r].about
  <1>2. new \in RequestState
    BY <1>1 DEF RequestState
  <1>3. /\ new.key = request[r].key /\ new.route = request[r].route /\ new.of = request[r].of
        /\ new.about = request[r].about /\ new.tenant = request[r].tenant
        /\ new.late = request[r].late
        /\ new.pc = "committed"
    BY <1>1 DEF RequestState
  <1>4. /\ request[r].pc = "read" /\ request[r].route = "revoke key"
        /\ request' = [request EXCEPT ![r] = new]
        /\ apiKey' = [apiKey EXCEPT ![k] = Deleted]
        /\ UNCHANGED <<tenant, today, shown>>
    BY DEF DeleteKey
  <1>5. k \in ApiKeys
    BY <1>1, <1>4 DEF RouteOK
  <1> HIDE DEF new
  <1>6. request'[r] = new
    BY <1>2, <1>4 DEF AccessInv, AccessTypeOK
  <1>7. /\ apiKey' \in [ApiKeys -> KeyRow \cup {Null, Deleted}]
        /\ \A x \in ApiKeys : apiKey'[x] = IF x = k THEN Deleted ELSE apiKey[x]
    BY <1>4 DEF AccessInv, AccessTypeOK
  <1>8. TablesGrow
    <2>1. today' \in Nat /\ today <= today'
      BY <1>4, SameDay
    <2> QED
      BY <1>4, <1>7, <2>1 DEF TablesGrow
  <1>9. LookupOK(r)'
    BY <1>1, <1>3, <1>4, <1>6, <1>7 DEF LookupOK
  <1>10. RouteOK(r)'
    BY <1>1, <1>3, <1>4, <1>5, <1>6, <1>7 DEF RouteOK
  <1>11. \A x \in ApiKeys : Revoker(r, x) => Revoker(r, x)'
    BY <1>4 DEF Revoker
  <1>12. \A x \in ApiKeys : apiKey'[x] # apiKey[x] => x = k /\ apiKey'[x] = Deleted
    BY <1>7
  <1>13. /\ tenant' \in [Tenants -> Fit \cup {"suspended", Null}]
         /\ shown' \subseteq ApiKeys /\ shown' = shown
    BY <1>4 DEF AccessInv, AccessTypeOK
  <1>14. \A x \in ApiKeys :
            /\ apiKey'[x] \in KeyRow => apiKey'[x] = apiKey[x]
            /\ apiKey'[x] = Deleted /\ apiKey'[x] # apiKey[x] => Revoker(r, x)'
    BY <1>3, <1>4, <1>6, <1>12, NoRow DEF Revoker
  <1> QED
    BY <1>2, <1>4, <1>7, <1>8, <1>9, <1>10, <1>11, <1>13, <1>14, OneRequestMoves

----------------------------------------------------------------------------
(* Access: its environment *)

LEMMA ProvisionInv ==
    ASSUME AccessInv, NEW t \in Tenants, NEW k \in ApiKeys, Provision(t, k)
    PROVE  AccessInv'
  <1> DEFINE row == [tenant |-> t, expiresAt |-> Null]
  <1>1. /\ tenant[t] = Null /\ apiKey[k] = Null
        /\ tenant' = [tenant EXCEPT ![t] = "trial"]
        /\ apiKey' = [apiKey EXCEPT ![k] = row]
        /\ shown' \subseteq shown \cup {k}
        /\ UNCHANGED <<today, request>>
    BY DEF Provision
  <1>2. row \in KeyRow /\ row.tenant = t
    BY DEF KeyRow
  <1>3. row # Null /\ row # Deleted
    BY <1>2, NoRow
  <1> HIDE DEF row
  <1>4. /\ tenant' \in [Tenants -> Fit \cup {"suspended", Null}]
        /\ \A x \in Tenants : tenant'[x] = IF x = t THEN "trial" ELSE tenant[x]
    BY <1>1 DEF AccessInv, AccessTypeOK, Fit
  <1>5. /\ apiKey' \in [ApiKeys -> KeyRow \cup {Null, Deleted}]
        /\ \A x \in ApiKeys : apiKey'[x] = IF x = k THEN row ELSE apiKey[x]
    BY <1>1, <1>2 DEF AccessInv, AccessTypeOK
  <1>6. TablesGrow
    <2>1. today' \in Nat /\ today <= today'
      BY <1>1, SameDay
    <2> QED
      BY <1>1, <1>4, <1>5, <2>1, NullIsNoStatus DEF TablesGrow
  <1>7. shown' \subseteq ApiKeys
    BY <1>1 DEF AccessInv, AccessTypeOK
  <1>8. \A x \in ApiKeys :
           /\ apiKey'[x] \in KeyRow /\ apiKey'[x] # apiKey[x] => tenant'[apiKey'[x].tenant] # Null
           /\ apiKey'[x] = Deleted => apiKey'[x] = apiKey[x]
           /\ x \in shown' \ shown => apiKey'[x] # Null
    BY <1>1, <1>2, <1>3, <1>4, <1>5, NullIsNoStatus
  <1> QED
    BY <1>1, <1>4, <1>5, <1>6, <1>7, <1>8, NoRequestMoves

LEMMA SuspendInv ==
    ASSUME AccessInv, NEW t \in Tenants, Suspend(t)
    PROVE  AccessInv'
  <1>1. /\ tenant' = [tenant EXCEPT ![t] = "suspended"]
        /\ UNCHANGED <<apiKey, today, request, shown>>
    BY DEF Suspend
  <1>2. /\ tenant' \in [Tenants -> Fit \cup {"suspended", Null}]
        /\ \A x \in Tenants : tenant'[x] = IF x = t THEN "suspended" ELSE tenant[x]
    BY <1>1 DEF AccessInv, AccessTypeOK
  <1>3. TablesGrow
    <2>1. today' \in Nat /\ today <= today'
      BY <1>1, SameDay
    <2> QED
      BY <1>1, <1>2, <2>1, NullIsNoStatus DEF TablesGrow
  <1> QED
    BY <1>1, <1>2, <1>3, NoRequestMoves DEF AccessInv, AccessTypeOK

LEMMA NextDayInv ==
    ASSUME AccessInv, NextDay
    PROVE  AccessInv'
  <1>1. today' = today + 1 /\ UNCHANGED <<tenant, apiKey, request, shown>>
    BY DEF NextDay
  <1>2. today' \in Nat /\ today <= today'
    BY <1>1 DEF AccessInv, AccessTypeOK
  <1>3. TablesGrow
    BY <1>1, <1>2 DEF TablesGrow
  <1> QED
    BY <1>1, <1>3, NoRequestMoves DEF AccessInv, AccessTypeOK

LEMMA AccessStutterInv ==
    ASSUME AccessInv, UNCHANGED accessVars
    PROVE  AccessInv'
  <1>1. UNCHANGED <<tenant, apiKey, today, request, shown>>
    BY DEF accessVars
  <1>2. TablesGrow
    BY <1>1, SameTables
  <1> QED
    BY <1>1, <1>2, NoRequestMoves DEF AccessInv, AccessTypeOK

LEMMA AccessStep == AccessInv /\ [AccessNext]_accessVars => AccessInv'
  <1> SUFFICES ASSUME AccessInv, [AccessNext]_accessVars PROVE AccessInv'
    OBVIOUS
  <1>1. CASE AccessNext
    BY <1>1, ArriveInv, FindKeyInv, FindTenantInv, AuthFailInv, AuthorizeInv, InsertTenantInv,
       FindOwnerInv, InsertKeyInv, FindApiKeyInv, DeleteKeyInv, RespondInv, RouteFailInv,
       ProvisionInv, SuspendInv, LoseRequestInv, NextDayInv DEF AccessNext
  <1>2. CASE UNCHANGED accessVars
    BY <1>2, AccessStutterInv
  <1> QED
    BY <1>1, <1>2

LEMMA AccessInvariant == AccessSpec => []AccessInv
  <1>1. AccessInit => AccessInv
    BY AccessInitInv
  <1>2. AccessInv /\ [AccessNext]_accessVars => AccessInv'
    BY AccessStep
  <1> QED
    BY <1>1, <1>2, PTL DEF AccessSpec

----------------------------------------------------------------------------
(* Access: theorems *)

(***************************************************************************)
(* The tables and the local variables of requests keep their types.        *)
(***************************************************************************)
THEOREM AccessTypeCorrect == AccessSpec => []AccessTypeOK
  <1>1. AccessInv => AccessTypeOK
    BY DEF AccessInv
  <1> QED
    BY <1>1, AccessInvariant, PTL

(***************************************************************************)
(* Nobody gets in with a key that was revoked, had expired or whose tenant *)
(* was suspended when the request arrived, and whoever gets in acts for    *)
(* the tenant of the key (auth/service.py, governor/middleware.py).        *)
(***************************************************************************)
THEOREM AdmissionBackedHolds == AccessSpec => []AdmissionBacked
  <1>1. AccessInv => AdmissionBacked
    <2> SUFFICES ASSUME AccessInv, NEW r \in Requests, request[r].tenant # Null
                 PROVE  /\ ~request[r].late
                        /\ apiKey[request[r].key] # Null
                        /\ InTable(request[r].key) =>
                             apiKey[request[r].key].tenant = request[r].tenant
      BY DEF AdmissionBacked
    <2>1. LookupOK(r)
      BY DEF AccessInv
    <2> QED
      BY <2>1, NoRow, NullIsNotDeleted DEF LookupOK, InTable
  <1> QED
    BY <1>1, AccessInvariant, PTL

(***************************************************************************)
(* A key that somebody was shown is stored, unless a request for its       *)
(* deletion has found it (create_api_key, revoke_api_key, provision).      *)
(***************************************************************************)
THEOREM ShownKeyStoredHolds == AccessSpec => []ShownKeyStored
  <1>1. AccessInv => ShownKeyStored
    <2> SUFFICES ASSUME AccessInv, NEW k \in shown, ~InTable(k)
                 PROVE  \E q \in Requests : /\ request[q].route = "revoke key"
                                            /\ request[q].about = k
                                            /\ request[q].pc \in {"committed", "answered", "lost"}
      BY DEF ShownKeyStored
    <2>1. k \in ApiKeys
      BY DEF AccessInv, AccessTypeOK
    <2>2. apiKey[k] = Deleted
      BY <2>1 DEF AccessInv, KeysInv, InTable
    <2> QED
      BY <2>1, <2>2 DEF AccessInv, KeysInv, Revoker
  <1> QED
    BY <1>1, AccessInvariant, PTL

----------------------------------------------------------------------------
(* Migration *)

\* What state q of a run knows, given what is applied and recorded: every file
\* before its own is recorded, and its own executed before it records it.
RunOK(q, app, rec) ==
    /\ q.pc = "connecting" => q.file = 0
    /\ q.pc \in {"looking", "applying", "recording"} =>
         q.file \in Files /\ 1..(q.file - 1) \subseteq rec
    /\ q.pc = "recording" => q.file \in app
    /\ q.pc = "done" => rec = Files

FilesInOrder(app, rec) ==
    /\ rec \subseteq app /\ app \subseteq Files
    /\ \A f \in app : 1..(f - 1) \subseteq rec

MigrationInv ==
    /\ runner \in [Runners -> RunState]
    /\ FilesInOrder(applied, recorded)
    /\ \A r \in Runners : RunOK(runner[r], applied, recorded)

\* What a run knows stays true when files are applied or recorded.
LEMMA RunStays ==
    ASSUME NEW q, NEW app, NEW rec, NEW app2, NEW rec2, RunOK(q, app, rec),
           app \subseteq app2, rec \subseteq rec2, rec2 \subseteq Files
    PROVE  RunOK(q, app2, rec2)
  BY DEF RunOK

\* A step of run r to state new.
LEMMA OneRunMoves ==
    ASSUME MigrationInv, NEW r \in Runners, NEW new \in RunState,
           runner' = [runner EXCEPT ![r] = new],
           applied \subseteq applied', recorded \subseteq recorded',
           FilesInOrder(applied', recorded'), RunOK(new, applied', recorded')
    PROVE  MigrationInv'
  <1>1. runner' \in [Runners -> RunState]
    BY DEF MigrationInv
  <1>2. recorded' \subseteq Files
    BY DEF FilesInOrder
  <1>3. \A q \in Runners : RunOK(runner'[q], applied', recorded')
    <2> SUFFICES ASSUME NEW q \in Runners PROVE RunOK(runner'[q], applied', recorded')
      OBVIOUS
    <2>1. CASE q = r
      BY <2>1 DEF MigrationInv
    <2>2. CASE q # r
      <3>1. runner'[q] = runner[q] /\ RunOK(runner[q], applied, recorded)
        BY <2>2 DEF MigrationInv
      <3> QED
        BY <1>2, <3>1, RunStays
    <2> QED
      BY <2>1, <2>2
  <1> QED
    BY <1>1, <1>3 DEF MigrationInv

\* The next file is looked up only when all files up to now are recorded.
LEMMA NextFileOK ==
    ASSUME NEW r \in Runners, runner[r] \in RunState, NEW app, NEW rec \in SUBSET Files,
           runner[r].file = 0 \/ (1..runner[r].file \subseteq rec)
    PROVE  NextFile(r) \in RunState /\ RunOK(NextFile(r), app, rec)
  <1>1. /\ runner[r].file \in 0..NumFiles /\ NumFiles \in Nat
        /\ runner[r].attempt \in 1..Retries
    BY NumFilesNat DEF RunState
  <1>2. CASE runner[r].file < NumFiles
    <2> DEFINE new == [runner[r] EXCEPT !.pc = "looking", !.file = @ + 1]
    <2>1. new.pc = "looking" /\ new.file = runner[r].file + 1
      BY DEF RunState
    <2>2. new \in RunState
      <3>1. runner[r].file + 1 \in 0..NumFiles
        BY <1>1, <1>2
      <3> QED
        BY <3>1 DEF RunState, Working
    <2>3. NextFile(r) = new
      BY <1>2 DEF NextFile
    <2> HIDE DEF new
    <2>4. new.file \in Files /\ 1..(new.file - 1) \subseteq rec
      BY <1>1, <1>2, <2>1 DEF Files
    <2> QED
      BY <2>1, <2>2, <2>3, <2>4 DEF RunOK
  <1>3. CASE ~(runner[r].file < NumFiles)
    <2> DEFINE new == [runner[r] EXCEPT !.pc = "done"]
    <2>1. new.pc = "done"
      BY DEF RunState
    <2>2. new \in RunState
      BY <1>1 DEF RunState
    <2>3. NextFile(r) = new
      BY <1>3 DEF NextFile
    <2> HIDE DEF new
    <2>4. runner[r].file = NumFiles
      BY <1>1, <1>3
    <2>5. Files \subseteq rec
      BY <1>1, <2>4 DEF Files
    <2>6. rec = Files
      BY <2>5
    <2> QED
      BY <2>1, <2>2, <2>3, <2>6 DEF RunOK
  <1> QED
    BY <1>2, <1>3

\* A run that is at work executes its file when all before it are recorded ...
LEMMA ApplyInOrder ==
    ASSUME MigrationInv, NEW r \in Runners, runner[r].pc = "applying"
    PROVE  FilesInOrder(applied \cup {runner[r].file}, recorded)
  <1>1. RunOK(runner[r], applied, recorded)
    BY DEF MigrationInv
  <1> QED
    BY <1>1 DEF MigrationInv, RunOK, FilesInOrder

\* ... and records it when it is executed.
LEMMA RecordInOrder ==
    ASSUME MigrationInv, NEW r \in Runners, runner[r].pc = "recording"
    PROVE  /\ FilesInOrder(applied, recorded \cup {runner[r].file})
           /\ 1..runner[r].file \subseteq recorded \cup {runner[r].file}
  <1>1. RunOK(runner[r], applied, recorded)
    BY DEF MigrationInv
  <1>2. /\ runner[r].file \in Files /\ runner[r].file \in applied
        /\ 1..(runner[r].file - 1) \subseteq recorded
    BY <1>1 DEF RunOK
  <1>3. 1..runner[r].file \subseteq recorded \cup {runner[r].file}
    BY <1>2, NumFilesNat DEF Files
  <1> QED
    BY <1>2, <1>3 DEF MigrationInv, FilesInOrder

LEMMA ConnectInv ==
    ASSUME MigrationInv, NEW r \in Runners, Connect(r)
    PROVE  MigrationInv'
  <1>1. runner[r] \in RunState /\ RunOK(runner[r], applied, recorded)
    BY DEF MigrationInv
  <1>2. recorded \in SUBSET Files
    BY DEF MigrationInv, FilesInOrder
  <1>3. NextFile(r) \in RunState /\ RunOK(NextFile(r), applied, recorded)
    BY <1>1, <1>2, NextFileOK DEF Connect, RunOK
  <1> QED
    BY <1>3, OneRunMoves DEF Connect, MigrationInv

LEMMA LookInv ==
    ASSUME MigrationInv, NEW r \in Runners, Look(r)
    PROVE  MigrationInv'
  <1>1. runner[r] \in RunState /\ RunOK(runner[r], applied, recorded)
    BY DEF MigrationInv
  <1>2. recorded \in SUBSET Files
    BY DEF MigrationInv, FilesInOrder
  <1>3. runner[r].file \in Files /\ 1..(runner[r].file - 1) \subseteq recorded
    BY <1>1 DEF Look, RunOK
  <1>4. CASE runner[r].file \in recorded
    <2>1. 1..runner[r].file \subseteq recorded
      BY <1>3, <1>4, NumFilesNat DEF Files
    <2>2. NextFile(r) \in RunState /\ RunOK(NextFile(r), applied, recorded)
      BY <1>1, <1>2, <2>1, NextFileOK
    <2> QED
      BY <1>4, <2>2, OneRunMoves DEF Look, MigrationInv
  <1>5. CASE runner[r].file \notin recorded
    <2> DEFINE new == [runner[r] EXCEPT !.pc = "applying"]
    <2>1. new \in RunState /\ new.pc = "applying" /\ new.file = runner[r].file
      BY <1>1 DEF RunState, Working
    <2>2. runner' = [runner EXCEPT ![r] = new] /\ UNCHANGED <<applied, recorded>>
      BY <1>5 DEF Look
    <2> HIDE DEF new
    <2>3. RunOK(new, applied, recorded)
      BY <1>3, <2>1 DEF RunOK
    <2> QED
      BY <2>1, <2>2, <2>3, OneRunMoves DEF MigrationInv
  <1> QED
    BY <1>4, <1>5

LEMMA ApplyInv ==
    ASSUME MigrationInv, NEW r \in Runners, Apply(r)
    PROVE  MigrationInv'
  <1>1. runner[r] \in RunState /\ RunOK(runner[r], applied, recorded)
    BY DEF MigrationInv
  <1> DEFINE new == [runner[r] EXCEPT !.pc = "recording"]
  <1>2. new \in RunState /\ new.pc = "recording" /\ new.file = runner[r].file
    BY <1>1 DEF RunState, Working
  <1>3. /\ runner[r].pc = "applying"
        /\ runner' = [runner EXCEPT ![r] = new]
        /\ applied' = applied \cup {runner[r].file} /\ recorded' = recorded
    BY DEF Apply
  <1> HIDE DEF new
  <1>4. RunOK(new, applied', recorded')
    BY <1>1, <1>2, <1>3 DEF RunOK
  <1>5. FilesInOrder(applied', recorded')
    BY <1>3, ApplyInOrder
  <1> QED
    BY <1>2, <1>3, <1>4, <1>5, OneRunMoves

LEMMA RecordInv ==
    ASSUME MigrationInv, NEW r \in Runners, Record(r)
    PROVE  MigrationInv'
  <1>1. runner[r] \in RunState
    BY DEF MigrationInv
  <1>2. runner[r].pc = "recording" /\ applied' = applied
        /\ recorded' = recorded \cup {runner[r].file}
    BY DEF Record
  <1>3. FilesInOrder(applied', recorded') /\ 1..runner[r].file \subseteq recorded'
    BY <1>2, RecordInOrder
  <1>4. CASE runner[r].file \in recorded
    <2> DEFINE new == [runner[r] EXCEPT !.pc = "raised"]
    <2>1. new \in RunState /\ new.pc = "raised"
      BY <1>1 DEF RunState
    <2>2. runner' = [runner EXCEPT ![r] = new]
      BY <1>4 DEF Record
    <2> HIDE DEF new
    <2>3. RunOK(new, applied', recorded')
      BY <2>1 DEF RunOK
    <2> QED
      BY <1>2, <1>3, <2>1, <2>2, <2>3, OneRunMoves
  <1>5. CASE runner[r].file \notin recorded
    <2>1. recorded' \in SUBSET Files
      BY <1>3 DEF FilesInOrder
    <2>2. NextFile(r) \in RunState /\ RunOK(NextFile(r), applied', recorded')
      BY <1>1, <1>3, <2>1, NextFileOK
    <2>3. runner' = [runner EXCEPT ![r] = NextFile(r)]
      BY <1>5 DEF Record
    <2> QED
      BY <1>2, <1>3, <2>2, <2>3, OneRunMoves
  <1> QED
    BY <1>4, <1>5

LEMMA LoseConnectionInv ==
    ASSUME MigrationInv, NEW r \in Runners, LoseConnection(r)
    PROVE  MigrationInv'
  <1>1. runner[r] \in RunState
    BY DEF MigrationInv
  <1>2. Restarted(r) \in RunState /\ \A app, rec : RunOK(Restarted(r), app, rec)
    BY <1>1, NumFilesNat, RetriesNat DEF Restarted, RunState, RunOK, Working
  <1>3. runner' = [runner EXCEPT ![r] = Restarted(r)]
    BY DEF LoseConnection
  <1>4. CASE Executed(r)
    <2>1. FilesInOrder(applied', recorded') /\ applied \subseteq applied' /\ recorded \subseteq recorded'
      BY <1>4, ApplyInOrder, RecordInOrder DEF Executed, MigrationInv
    <2> QED
      BY <1>2, <1>3, <2>1, OneRunMoves
  <1>5. CASE UNCHANGED <<applied, recorded>>
    BY <1>2, <1>3, <1>5, OneRunMoves DEF MigrationInv
  <1> QED
    BY <1>4, <1>5 DEF LoseConnection

LEMMA RaiseInv ==
    ASSUME MigrationInv, NEW r \in Runners, Raise(r)
    PROVE  MigrationInv'
  <1>1. runner[r] \in RunState
    BY DEF MigrationInv
  <1> DEFINE new == [runner[r] EXCEPT !.pc = "raised"]
  <1>2. new \in RunState /\ new.pc = "raised"
    BY <1>1 DEF RunState
  <1>3. runner' = [runner EXCEPT ![r] = new] /\ UNCHANGED <<applied, recorded>>
    BY DEF Raise
  <1> HIDE DEF new
  <1>4. RunOK(new, applied, recorded)
    BY <1>2 DEF RunOK
  <1> QED
    BY <1>2, <1>3, <1>4, OneRunMoves DEF MigrationInv

LEMMA MigrationInvariant == MigrationSpec => []MigrationInv
  <1>1. MigrationInit => MigrationInv
    <2> SUFFICES ASSUME MigrationInit PROVE MigrationInv
      OBVIOUS
    <2> DEFINE new == [pc |-> "connecting", file |-> 0, attempt |-> 1]
    <2>1. new \in RunState
      BY NumFilesNat, RetriesNat DEF RunState, Working
    <2>2. RunOK(new, {}, {})
      BY DEF RunOK
    <2> QED
      BY <2>1, <2>2 DEF MigrationInit, MigrationInv, FilesInOrder
  <1>2. MigrationInv /\ [MigrationNext]_migrationVars => MigrationInv'
    <2> SUFFICES ASSUME MigrationInv, [MigrationNext]_migrationVars PROVE MigrationInv'
      OBVIOUS
    <2>1. CASE MigrationNext
      BY <2>1, ConnectInv, LookInv, ApplyInv, RecordInv, LoseConnectionInv, RaiseInv
      DEF MigrationNext
    <2>2. CASE UNCHANGED migrationVars
      BY <2>2 DEF migrationVars, MigrationInv
    <2> QED
      BY <2>1, <2>2
  <1> QED
    BY <1>1, <1>2, PTL DEF MigrationSpec

(***************************************************************************)
(* For any number of overlapping runs, files and attempts: what is         *)
(* recorded was executed, files are executed in order, and a run that ends *)
(* well leaves none out (database/migrate.py); types are kept.             *)
(***************************************************************************)
THEOREM SchemaInOrderHolds == MigrationSpec => [](MigrationTypeOK /\ SchemaInOrder)
  <1>1. MigrationInv => MigrationTypeOK /\ SchemaInOrder
    BY DEF MigrationInv, MigrationTypeOK, FilesInOrder, RunOK, SchemaInOrder
  <1> QED
    BY <1>1, MigrationInvariant, PTL

====
