--------------------------- MODULE EslServicesProofs ---------------------------
(***************************************************************************)
(* The parts of esl-resilience beside its connection, each proved with an  *)
(* inductive invariant of its own, for any constants: the tenant manager   *)
(* (LookupsAgree), the tenants' records (TenantsApart), the health checker *)
(* and its breaker (BreakerAgrees), the figures of the metrics collector   *)
(* (FiguresAgree), the alert manager (AlertsSpaced), the call records      *)
(* (CallsRecorded), the API keys and rate limiters (GateKept), and the     *)
(* event buffer (EventsAccounted and OrderKept; ProcessBatchStores says    *)
(* what the loop of processBatch computes).                                *)
(***************************************************************************)
EXTENDS Tenants, TenantRecords, HealthChecks, CallMetrics, Alerts, CallRecords,
        RequestGate, BufferUse, FiniteSetTheorems, WellFoundedInduction, TLAPS

(***************************************************************************)
(* Tenants.  Names and domains are moved in the same way, so what moving   *)
(* one does to its lookup is proved once, for any lookup, in MoveKeeps.    *)
(***************************************************************************)
(* A lookup f of the keys S that the tenants E have by g: who is found has *)
(* the key, and who has a key outside U is found by it.                    *)
Finds(S, E, f, g, U) ==
  /\ \A n \in S : f[n] # NoTenant => f[n] \in E /\ g[f[n]] = n
  /\ \A s \in E : g[s] \notin U => f[g[s]] = s

(* The tenant t moves from its key to another, which it takes over from    *)
(* whoever had it.                                                         *)
LEMMA MoveKeeps ==
  ASSUME NEW S, NEW E \in SUBSET TenantIds, NEW f \in [S -> TenantIds \cup {NoTenant}],
         NEW g \in [E -> S], NEW t \in E, NEW new \in S, NEW U, NEW W,
         Finds(S, E, f, g, U), U \cup Taken(f, new, t) \subseteq W
  PROVE  /\ Moved(f, g[t], new, t) \in [S -> TenantIds \cup {NoTenant}]
         /\ Finds(S, E, Moved(f, g[t], new, t), [g EXCEPT ![t] = new], W)
<1> DEFINE f2 == Moved(f, g[t], new, t)
           g2 == [g EXCEPT ![t] = new]
<1>1. /\ f2 \in [S -> TenantIds \cup {NoTenant}] /\ f2[new] = t
      /\ g[t] # new => f2[g[t]] = NoTenant
      /\ \A n \in S : n \notin {g[t], new} => f2[n] = f[n]
  BY DEF Moved
<1>2. g2[t] = new /\ \A s \in E : s # t => g2[s] = g[s]
  OBVIOUS
<1> HIDE DEF f2, g2
<1>3. ASSUME NEW n \in S, f2[n] # NoTenant
      PROVE  f2[n] \in E /\ g2[f2[n]] = n
  <2>1. CASE n = new
    BY <1>1, <1>2, <2>1
  <2>2. CASE n # new
    <3>1. n # g[t] /\ f2[n] = f[n]
      BY <1>1, <1>3, <2>2
    <3>2. f[n] \in E /\ g[f[n]] = n
      BY <1>3, <3>1 DEF Finds
    <3> QED BY <1>2, <3>1, <3>2
  <2> QED BY <2>1, <2>2
<1>4. ASSUME NEW s \in E, g2[s] \notin W
      PROVE  f2[g2[s]] = s
  <2>1. CASE s = t
    BY <1>1, <1>2, <2>1
  <2>2. CASE s # t
    <3>1. g2[s] = g[s] /\ f[g[s]] = s /\ g[s] \in S
      BY <1>2, <1>4, <2>2 DEF Finds
    <3>2. g[s] # new
      BY <1>4, <2>2, <3>1, TenantsAssumption DEF Taken
    <3>3. g[s] # g[t]
      BY <1>4, <2>2, <3>1 DEF Finds
    <3> QED BY <1>1, <3>1, <3>2, <3>3
  <2> QED BY <2>1, <2>2
<1> QED BY <1>1, <1>3, <1>4 DEF Finds, f2, g2

-----------------------------------------------------------------------------
Existing == {t \in TenantIds : Exists(t)}
NameOf == [t \in Existing |-> tenants[t].name]
DomainOf == [t \in Existing |-> tenants[t].domain]

(* LookupsAgree in the terms of Finds. *)
LEMMA LookupsAsFinds ==
  ASSUME TenantsTypeOK
  PROVE  /\ NameOf \in [Existing -> Names] /\ DomainOf \in [Existing -> Domains]
         /\ LookupsAgree <=> /\ Finds(Names, Existing, byName, NameOf, usurped)
                             /\ Finds(Domains, Existing, byDomain, DomainOf, usurped)
<1>1. \A t \in Existing : t \in TenantIds /\ Exists(t) /\ tenants[t] \in Tenant
  BY DEF TenantsTypeOK, Existing, Exists
<1>2. NameOf \in [Existing -> Names] /\ DomainOf \in [Existing -> Domains]
  BY <1>1 DEF NameOf, DomainOf, Tenant
<1>3. \A n \in Names : byName[n] \in TenantIds \cup {NoTenant}
  BY DEF TenantsTypeOK
<1>4. \A d \in Domains : byDomain[d] \in TenantIds \cup {NoTenant}
  BY DEF TenantsTypeOK
<1>5. Finds(Names, Existing, byName, NameOf, usurped) <=>
        /\ \A n \in Names : byName[n] # NoTenant => Exists(byName[n]) /\ tenants[byName[n]].name = n
        /\ \A t \in TenantIds : Exists(t) =>
             (tenants[t].name \notin usurped => byName[tenants[t].name] = t)
  BY <1>1, <1>3 DEF Finds, NameOf, Existing
<1>6. Finds(Domains, Existing, byDomain, DomainOf, usurped) <=>
        /\ \A d \in Domains : byDomain[d] # NoTenant => Exists(byDomain[d]) /\ tenants[byDomain[d]].domain = d
        /\ \A t \in TenantIds : Exists(t) =>
             (tenants[t].domain \notin usurped => byDomain[tenants[t].domain] = t)
  BY <1>1, <1>4 DEF Finds, DomainOf, Existing
<1> QED BY <1>2, <1>5, <1>6 DEF LookupsAgree, FoundByOwn, FoundAtAll

(* The same of the next state. *)
LEMMA LookupsAsFindsNext ==
  TenantsTypeOK' => (LookupsAgree <=> /\ Finds(Names, Existing, byName, NameOf, usurped)
                                      /\ Finds(Domains, Existing, byDomain, DomainOf, usurped))'
<1>1. TenantsTypeOK => (LookupsAgree <=> /\ Finds(Names, Existing, byName, NameOf, usurped)
                                         /\ Finds(Domains, Existing, byDomain, DomainOf, usurped))
  BY LookupsAsFinds
<1> QED BY <1>1, PTL

LEMMA TenantsInitAgrees == TenantsInit => LookupsAgree
BY DEF TenantsInit, LookupsAgree, TenantsTypeOK, FoundByOwn, FoundAtAll, Exists

(* Steps that change neither names nor lookups: deletes, accesses, time,   *)
(* the cleanup. *)
LEMMA StatusStep ==
  ASSUME LookupsAgree, UNCHANGED <<byName, byDomain, usurped>>, TenantsTypeOK',
         \A t \in TenantIds : /\ tenants'[t] = NoTenant <=> tenants[t] = NoTenant
                              /\ tenants[t] # NoTenant =>
                                   /\ tenants'[t].name = tenants[t].name
                                   /\ tenants'[t].domain = tenants[t].domain
  PROVE  LookupsAgree'
<1>1. FoundByOwn'
  BY DEF LookupsAgree, FoundByOwn, Exists, TenantsTypeOK
<1>2. FoundAtAll'
  BY DEF LookupsAgree, FoundAtAll, Exists
<1> QED BY <1>1, <1>2 DEF LookupsAgree

(* One tenant's status or idle time is set. *)
LEMMA EditStep ==
  ASSUME LookupsAgree, UNCHANGED <<byName, byDomain, usurped>>,
         NEW t \in TenantIds, tenants[t] # NoTenant, NEW s \in Statuses, NEW i \in BOOLEAN,
         tenants' = [tenants EXCEPT ![t] = [@ EXCEPT !.status = s, !.idle = i]]
  PROVE  LookupsAgree'
<1>1. tenants[t] \in Tenant
  BY DEF LookupsAgree, TenantsTypeOK
<1> DEFINE new == [tenants[t] EXCEPT !.status = s, !.idle = i]
<1>2. new \in Tenant /\ new.name = tenants[t].name /\ new.domain = tenants[t].domain
  BY <1>1 DEF Tenant
<1>3. new # NoTenant
  BY <1>2, TenantsAssumption
<1> HIDE DEF new
<1>4. tenants' = [tenants EXCEPT ![t] = new]
  BY DEF new
<1>5. TenantsTypeOK'
  BY <1>2, <1>4 DEF LookupsAgree, TenantsTypeOK
<1> QED BY <1>2, <1>3, <1>4, <1>5, StatusStep DEF LookupsAgree, TenantsTypeOK

LEMMA CleanupStep ==
  ASSUME LookupsAgree, CleanupInactiveTenants
  PROVE  LookupsAgree'
<1>1. tenants \in [TenantIds -> Tenant \cup {NoTenant}]
  BY DEF LookupsAgree, TenantsTypeOK
<1>2. ASSUME NEW t \in TenantIds, NEW r, tenants[t] # NoTenant,
             r = [tenants[t] EXCEPT !.status = "suspended"]
      PROVE  r \in Tenant /\ r.name = tenants[t].name /\ r.domain = tenants[t].domain
  BY <1>1, <1>2 DEF Tenant, Statuses
<1>3. ASSUME NEW t \in TenantIds
      PROVE  /\ tenants'[t] \in Tenant \cup {NoTenant}
             /\ tenants'[t] = NoTenant <=> tenants[t] = NoTenant
             /\ tenants[t] # NoTenant => /\ tenants'[t].name = tenants[t].name
                                        /\ tenants'[t].domain = tenants[t].domain
  <2>1. tenants'[t] = IF Exists(t) /\ tenants[t].status = "active" /\ tenants[t].idle
                      THEN [tenants[t] EXCEPT !.status = "suspended"] ELSE tenants[t]
    BY DEF CleanupInactiveTenants
  <2>2. CASE tenants'[t] = tenants[t]
    BY <1>1, <2>2
  <2>3. CASE tenants'[t] # tenants[t]
    <3>1. tenants[t] # NoTenant /\ tenants'[t] = [tenants[t] EXCEPT !.status = "suspended"]
      BY <2>1, <2>3 DEF Exists
    <3>2. tenants'[t] \in Tenant /\ tenants'[t].name = tenants[t].name /\ tenants'[t].domain = tenants[t].domain
      BY <1>2, <3>1
    <3>3. tenants'[t] # NoTenant
      BY <3>2, TenantsAssumption
    <3> QED BY <3>1, <3>2, <3>3
  <2> QED BY <2>2, <2>3
<1>4. tenants' = [t \in TenantIds |-> tenants'[t]] /\ UNCHANGED <<byName, byDomain, usurped>>
  BY DEF CleanupInactiveTenants
<1>5. TenantsTypeOK'
  BY <1>3, <1>4 DEF LookupsAgree, TenantsTypeOK
<1> QED BY <1>3, <1>4, <1>5, StatusStep

LEMMA CreateStep ==
  ASSUME LookupsAgree, NEW t \in TenantIds, NEW n \in Names, NEW d \in Domains, CreateTenant(t, n, d)
  PROVE  LookupsAgree'
<1> DEFINE new == [name |-> n, domain |-> d, status |-> "active", idle |-> FALSE]
<1>0. new \in Tenant /\ new.name = n /\ new.domain = d
  BY DEF Tenant, Statuses
<1> HIDE DEF new
<1>1. new \in Tenant /\ new # NoTenant /\ new.name = n /\ new.domain = d
  BY <1>0, TenantsAssumption
<1>2. /\ tenants[t] = NoTenant /\ byName[n] = NoTenant /\ byDomain[d] = NoTenant
      /\ tenants' = [tenants EXCEPT ![t] = new]
      /\ byName' = [byName EXCEPT ![n] = t] /\ byDomain' = [byDomain EXCEPT ![d] = t]
      /\ UNCHANGED usurped
  BY DEF CreateTenant, Exists, new
<1>3. TenantsTypeOK'
  BY <1>1, <1>2 DEF LookupsAgree, TenantsTypeOK
<1>4. tenants'[t] = new /\ \A s \in TenantIds : s # t => tenants'[s] = tenants[s]
  BY <1>2 DEF LookupsAgree, TenantsTypeOK
<1>5. /\ byName'[n] = t /\ \A m \in Names : m # n => byName'[m] = byName[m]
      /\ byDomain'[d] = t /\ \A e \in Domains : e # d => byDomain'[e] = byDomain[e]
  BY <1>2 DEF LookupsAgree, TenantsTypeOK
<1>6. FoundByOwn'
  <2>1. \A m \in Names : byName'[m] # NoTenant =>
          tenants'[byName'[m]] # NoTenant /\ tenants'[byName'[m]].name = m
    BY <1>1, <1>2, <1>4, <1>5 DEF LookupsAgree, FoundByOwn, TenantsTypeOK, Exists
  <2>2. \A e \in Domains : byDomain'[e] # NoTenant =>
          tenants'[byDomain'[e]] # NoTenant /\ tenants'[byDomain'[e]].domain = e
    BY <1>1, <1>2, <1>4, <1>5 DEF LookupsAgree, FoundByOwn, TenantsTypeOK, Exists
  <2> QED BY <2>1, <2>2 DEF FoundByOwn, Exists
<1>7. FoundAtAll'
  <2> SUFFICES ASSUME NEW s \in TenantIds, tenants'[s] # NoTenant
               PROVE  /\ tenants'[s].name \notin usurped' => byName'[tenants'[s].name] = s
                      /\ tenants'[s].domain \notin usurped' => byDomain'[tenants'[s].domain] = s
    BY DEF FoundAtAll, Exists
  <2>1. CASE s = t
    BY <1>1, <1>4, <1>5, <2>1
  <2>2. CASE s # t
    <3>1. tenants'[s] = tenants[s] /\ tenants[s] \in Tenant
      BY <1>4, <2>2 DEF LookupsAgree, TenantsTypeOK
    <3>2. tenants[s].name \notin usurped => byName[tenants[s].name] = s
      BY <3>1 DEF LookupsAgree, FoundAtAll, Exists
    <3>3. tenants[s].domain \notin usurped => byDomain[tenants[s].domain] = s
      BY <3>1 DEF LookupsAgree, FoundAtAll, Exists
    <3>4. tenants[s].name \in Names /\ tenants[s].domain \in Domains
      BY <3>1 DEF Tenant
    <3> QED BY <1>2, <1>5, <3>1, <3>2, <3>3, <3>4, TenantsAssumption
  <2> QED BY <2>1, <2>2
<1> QED BY <1>3, <1>6, <1>7 DEF LookupsAgree

LEMMA UpdateStep ==
  ASSUME LookupsAgree, NEW t \in TenantIds, NEW u \in Update, UpdateTenant(t, u)
  PROVE  LookupsAgree'
<1> DEFINE moveName == "name" \in u.moves
           moveDomain == "domain" \in u.moves
           new == [name |-> IF moveName THEN u.name ELSE tenants[t].name,
                   domain |-> IF moveDomain THEN u.domain ELSE tenants[t].domain,
                   status |-> u.status, idle |-> tenants[t].idle]
<1>1. TenantsTypeOK /\ t \in Existing /\ tenants[t] \in Tenant
  BY DEF UpdateTenant, Live, Existing, Exists, LookupsAgree, TenantsTypeOK
<1>2. u.name \in Names /\ u.domain \in Domains /\ u.status \in Statuses
  BY DEF Update
<1>3. new \in Tenant
  BY <1>1, <1>2 DEF Tenant
<1>4. /\ new.name = IF moveName THEN u.name ELSE tenants[t].name
      /\ new.domain = IF moveDomain THEN u.domain ELSE tenants[t].domain
  BY <1>1 DEF Tenant
<1>5. tenants' = [tenants EXCEPT ![t] = new]
  BY DEF UpdateTenant
<1>6. /\ byName' = IF moveName THEN Moved(byName, tenants[t].name, u.name, t) ELSE byName
      /\ byDomain' = IF moveDomain THEN Moved(byDomain, tenants[t].domain, u.domain, t) ELSE byDomain
      /\ usurped' = usurped
           \cup (IF moveName THEN Taken(byName, u.name, t) ELSE {})
           \cup (IF moveDomain THEN Taken(byDomain, u.domain, t) ELSE {})
  BY DEF UpdateTenant
<1> HIDE DEF moveName, moveDomain, new
<1>7. new # NoTenant
  BY <1>3, TenantsAssumption
<1>8. tenants'[t] = new /\ \A s \in TenantIds : s # t => tenants'[s] = tenants[s]
  BY <1>5 DEF LookupsAgree, TenantsTypeOK
<1>9. Existing' = Existing
  BY <1>1, <1>7, <1>8 DEF Existing, Exists
<1>10. /\ NameOf \in [Existing -> Names] /\ DomainOf \in [Existing -> Domains]
       /\ Finds(Names, Existing, byName, NameOf, usurped)
       /\ Finds(Domains, Existing, byDomain, DomainOf, usurped)
  BY <1>1, LookupsAsFinds
<1>11. /\ byName \in [Names -> TenantIds \cup {NoTenant}]
       /\ byDomain \in [Domains -> TenantIds \cup {NoTenant}]
       /\ Existing \in SUBSET TenantIds
  BY <1>1 DEF TenantsTypeOK, Existing
<1>12. NameOf[t] = tenants[t].name /\ DomainOf[t] = tenants[t].domain
  BY <1>1 DEF NameOf, DomainOf
<1>13. /\ NameOf' = [NameOf EXCEPT ![t] = new.name]
       /\ DomainOf' = [DomainOf EXCEPT ![t] = new.domain]
  BY <1>1, <1>8, <1>9 DEF NameOf, DomainOf, Existing
<1>14. /\ byName' \in [Names -> TenantIds \cup {NoTenant}]
       /\ Finds(Names, Existing, byName', NameOf', usurped')
  <2>1. CASE moveName
    <3>1. usurped \cup Taken(byName, u.name, t) \subseteq usurped'
      BY <1>6, <2>1
    <3>2. /\ Moved(byName, NameOf[t], u.name, t) \in [Names -> TenantIds \cup {NoTenant}]
          /\ Finds(Names, Existing, Moved(byName, NameOf[t], u.name, t), [NameOf EXCEPT ![t] = u.name], usurped')
      BY <1>1, <1>2, <1>10, <1>11, <3>1, MoveKeeps
    <3> QED BY <1>4, <1>6, <1>12, <1>13, <2>1, <3>2
  <2>2. CASE ~moveName
    <3>1. byName' = byName /\ NameOf' = NameOf /\ usurped \subseteq usurped'
      BY <1>4, <1>6, <1>10, <1>12, <1>13, <2>2
    <3> QED BY <1>10, <1>11, <3>1 DEF Finds
  <2> QED BY <2>1, <2>2
<1>15. /\ byDomain' \in [Domains -> TenantIds \cup {NoTenant}]
       /\ Finds(Domains, Existing, byDomain', DomainOf', usurped')
  <2>1. CASE moveDomain
    <3>1. usurped \cup Taken(byDomain, u.domain, t) \subseteq usurped'
      BY <1>6, <2>1
    <3>2. /\ Moved(byDomain, DomainOf[t], u.domain, t) \in [Domains -> TenantIds \cup {NoTenant}]
          /\ Finds(Domains, Existing, Moved(byDomain, DomainOf[t], u.domain, t), [DomainOf EXCEPT ![t] = u.domain], usurped')
      BY <1>1, <1>2, <1>10, <1>11, <3>1, MoveKeeps
    <3> QED BY <1>4, <1>6, <1>12, <1>13, <2>1, <3>2
  <2>2. CASE ~moveDomain
    <3>1. byDomain' = byDomain /\ DomainOf' = DomainOf /\ usurped \subseteq usurped'
      BY <1>4, <1>6, <1>10, <1>12, <1>13, <2>2
    <3> QED BY <1>10, <1>11, <3>1 DEF Finds
  <2> QED BY <2>1, <2>2
<1>16. TenantsTypeOK'
  <2>1. tenants' \in [TenantIds -> Tenant \cup {NoTenant}]
    BY <1>1, <1>3, <1>5 DEF TenantsTypeOK
  <2>2. usurped' \subseteq Names \cup Domains
    BY <1>1, <1>2, <1>6 DEF TenantsTypeOK, Taken
  <2> QED BY <1>14, <1>15, <2>1, <2>2 DEF TenantsTypeOK
<1>17. (LookupsAgree <=> /\ Finds(Names, Existing, byName, NameOf, usurped)
                         /\ Finds(Domains, Existing, byDomain, DomainOf, usurped))'
  BY <1>16, LookupsAsFindsNext
<1> QED BY <1>9, <1>14, <1>15, <1>17

-----------------------------------------------------------------------------
(* Lookups by name and domain agree with the tenants, whatever is renamed, *)
(* deleted or suspended, for any tenants, names and domains.               *)
THEOREM LookupsAlwaysAgree == TenantsSpec => []LookupsAgree
<1>1. TenantsInit => LookupsAgree
  BY TenantsInitAgrees
<1>2. LookupsAgree /\ [TenantsNext]_tenantsVars => LookupsAgree'
  <2> SUFFICES ASSUME LookupsAgree, [TenantsNext]_tenantsVars PROVE LookupsAgree'
    OBVIOUS
  <2>0. tenants \in [TenantIds -> Tenant \cup {NoTenant}]
    BY DEF LookupsAgree, TenantsTypeOK
  <2>1. ASSUME NEW t \in TenantIds, NEW n \in Names, NEW d \in Domains, CreateTenant(t, n, d)
        PROVE  LookupsAgree'
    BY <2>1, CreateStep
  <2>2. ASSUME NEW t \in TenantIds, NEW u \in Update, UpdateTenant(t, u) PROVE LookupsAgree'
    BY <2>2, UpdateStep
  <2>3. ASSUME NEW t \in TenantIds, Access(t) PROVE LookupsAgree'
    <3>1. tenants[t] # NoTenant /\ tenants[t] \in Tenant
      BY <2>0, <2>3 DEF Access, Live, Exists
    <3>2. /\ tenants' = [tenants EXCEPT ![t] = [@ EXCEPT !.status = tenants[t].status, !.idle = FALSE]]
          /\ UNCHANGED <<byName, byDomain, usurped>> /\ tenants[t].status \in Statuses
      BY <2>0, <2>3, <3>1 DEF Access, Tenant
    <3> QED BY <3>1, <3>2, EditStep
  <2>4. ASSUME NEW t \in TenantIds, DeleteTenant(t) PROVE LookupsAgree'
    <3>1. tenants[t] # NoTenant /\ tenants[t] \in Tenant
      BY <2>0, <2>4 DEF DeleteTenant, Exists
    <3>2. /\ tenants' = [tenants EXCEPT ![t] = [@ EXCEPT !.status = "deleted", !.idle = tenants[t].idle]]
          /\ UNCHANGED <<byName, byDomain, usurped>> /\ tenants[t].idle \in BOOLEAN
      BY <2>0, <2>4, <3>1 DEF DeleteTenant, Tenant
    <3> QED BY <3>1, <3>2, EditStep DEF Statuses
  <2>5. ASSUME NEW t \in TenantIds, GrowIdle(t) PROVE LookupsAgree'
    <3>1. tenants[t] # NoTenant /\ tenants[t] \in Tenant
      BY <2>0, <2>5 DEF GrowIdle, Exists
    <3>2. /\ tenants' = [tenants EXCEPT ![t] = [@ EXCEPT !.status = tenants[t].status, !.idle = TRUE]]
          /\ UNCHANGED <<byName, byDomain, usurped>> /\ tenants[t].status \in Statuses
      BY <2>0, <2>5, <3>1 DEF GrowIdle, Tenant
    <3> QED BY <3>1, <3>2, EditStep
  <2>6. CASE CleanupInactiveTenants
    BY <2>6, CleanupStep
  <2>7. CASE UNCHANGED tenantsVars
    BY <2>7 DEF tenantsVars, LookupsAgree, TenantsTypeOK, FoundByOwn, FoundAtAll, Exists
  <2>8. ASSUME NEW t \in TenantIds, SuspendTenant(t) PROVE LookupsAgree'
    BY <2>2, <2>8 DEF SuspendTenant
  <2>9. ASSUME NEW n \in Names, GetTenantByName(n) PROVE LookupsAgree'
    <3>1. byName[n] \in TenantIds
      BY <2>9 DEF GetTenantByName, LookupsAgree, TenantsTypeOK
    <3> QED BY <2>3, <2>9, <3>1 DEF GetTenantByName
  <2>10. ASSUME NEW d \in Domains, GetTenantByDomain(d) PROVE LookupsAgree'
    <3>1. byDomain[d] \in TenantIds
      BY <2>10 DEF GetTenantByDomain, LookupsAgree, TenantsTypeOK
    <3> QED BY <2>3, <2>10, <3>1 DEF GetTenantByDomain
  <2> QED BY <2>1, <2>2, <2>3, <2>4, <2>5, <2>6, <2>7, <2>8, <2>9, <2>10 DEF TenantsNext, GetTenant
<1> QED BY <1>1, <1>2, PTL DEF TenantsSpec

-----------------------------------------------------------------------------
(* What TenantsApart says of one channel. *)
Apart(c) ==
  /\ records[c] # NoCall => records[c].tenant \in creators[c] \cap rows
  /\ writers[c] \subseteq creators[c]
  /\ notes[c] # NoCall => /\ records[c] # NoCall
                         /\ notes[c].tenant \in noters[c] \cap rows
                         /\ notes[c].by \in noters[c]
ShownToNoters == \A s \in shown : {s[2], s[3]} \subseteq noters[s[1]]

(* The histories are of tenants, by channel: with the types this makes     *)
(* TenantsApart inductive.                                                 *)
HistoryTypes ==
  /\ creators \in [RowChannels -> SUBSET RowTenants]
  /\ writers \in [RowChannels -> SUBSET RowTenants]
  /\ noters \in [RowChannels -> SUBSET RowTenants]
ApartInv ==
  TenantRecordsTypeOK /\ HistoryTypes /\ (\A c \in RowChannels : Apart(c)) /\ ShownToNoters

LEMMA ApartInit == TenantRecordsInit => ApartInv
BY DEF TenantRecordsInit, ApartInv, TenantRecordsTypeOK, HistoryTypes, Apart, ShownToNoters

(* Steps that touch no record, note or row of the table tenants.           *)
LEMMA ApartElsewhere ==
  ASSUME ApartInv, UNCHANGED <<tables, shown, creators, writers, noters>>,
         status' \in [RowTenants -> {"none", "active", "suspended", "deleted"}],
         job' \in [Workers -> [op : Ops, tenant : RowTenants, channel : RowChannels] \cup {Free}]
  PROVE  ApartInv'
BY DEF ApartInv, TenantRecordsTypeOK, HistoryTypes, Apart, ShownToNoters, tables

(* A worker that is about to execute o has validated it, for a tenant and  *)
(* a channel.                                                              *)
LEMMA AtWork ==
  ASSUME ApartInv, NEW w \in Workers, NEW o \in Ops, Executes(w, o)
  PROVE  /\ job[w].tenant \in RowTenants /\ job[w].channel \in RowChannels
         /\ job' \in [Workers -> [op : Ops, tenant : RowTenants, channel : RowChannels] \cup {Free}]
<1>1. job[w] \in [op : Ops, tenant : RowTenants, channel : RowChannels] \cup {Free}
  BY DEF ApartInv, TenantRecordsTypeOK
<1>2. Free.op \notin Ops
  BY DEF Free, Ops
<1>3. job[w] # Free
  BY <1>2 DEF Executes
<1> QED BY <1>1, <1>3 DEF Executes, ApartInv, TenantRecordsTypeOK

LEMMA CreateApart ==
  ASSUME ApartInv, NEW w \in Workers, CreateTenantCDR(w) PROVE ApartInv'
<1> DEFINE t == job[w].tenant
           c == job[w].channel
<1>1. Executes(w, "CreateTenantCDR") /\ t \in rows
  BY DEF CreateTenantCDR
<1>2. t \in RowTenants /\ c \in RowChannels
      /\ job' \in [Workers -> [op : Ops, tenant : RowTenants, channel : RowChannels] \cup {Free}]
  BY <1>1, AtWork DEF Ops
<1>3. /\ records' = [records EXCEPT ![c] = NewRecord(t)]
      /\ creators' = [creators EXCEPT ![c] = @ \cup {t}]
      /\ UNCHANGED <<status, rows, notes, shown, writers, noters>>
  BY DEF CreateTenantCDR
<1> HIDE DEF t, c
<1>4. NewRecord(t) \in Record /\ NewRecord(t) # NoCall /\ NewRecord(t).tenant = t
  <2>1. NewRecord(t) \in Record /\ NewRecord(t).tenant = t
    BY <1>2 DEF NewRecord, Record
  <2> QED BY <2>1, NoCallAssumption
<1>5. TenantRecordsTypeOK' /\ HistoryTypes'
  BY <1>2, <1>3, <1>4 DEF ApartInv, TenantRecordsTypeOK, HistoryTypes
<1>6. ASSUME NEW d \in RowChannels PROVE Apart(d)'
  <2>1. CASE d = c
    BY <1>1, <1>2, <1>3, <1>4, <2>1 DEF ApartInv, Apart, TenantRecordsTypeOK, HistoryTypes
  <2>2. CASE d # c
    BY <1>2, <1>3, <2>2 DEF ApartInv, Apart, TenantRecordsTypeOK, HistoryTypes
  <2> QED BY <2>1, <2>2
<1>7. ShownToNoters'
  BY <1>3 DEF ApartInv, ShownToNoters
<1> QED BY <1>5, <1>6, <1>7 DEF ApartInv

LEMMA UpdateApart ==
  ASSUME ApartInv, NEW w \in Workers, UpdateTenantCDR(w) PROVE ApartInv'
<1> DEFINE t == job[w].tenant
           c == job[w].channel
           r == [records[c] EXCEPT !.ended = TRUE]
<1>1. Executes(w, "UpdateTenantCDR") /\ records[c] # NoCall /\ records[c].tenant = t
  BY DEF UpdateTenantCDR
<1>2. t \in RowTenants /\ c \in RowChannels
      /\ job' \in [Workers -> [op : Ops, tenant : RowTenants, channel : RowChannels] \cup {Free}]
  BY <1>1, AtWork DEF Ops
<1>3. /\ records' = [records EXCEPT ![c] = r]
      /\ writers' = [writers EXCEPT ![c] = @ \cup {t}]
      /\ UNCHANGED <<status, rows, notes, shown, creators, noters>>
  BY DEF UpdateTenantCDR
<1>4. records[c] \in Record
  BY <1>1, <1>2 DEF ApartInv, TenantRecordsTypeOK
<1>5. r \in Record /\ r # NoCall /\ r.tenant = t
  BY <1>1, <1>4, NoCallAssumption DEF Record
<1> HIDE DEF t, c, r
<1>6. TenantRecordsTypeOK' /\ HistoryTypes'
  BY <1>2, <1>3, <1>5 DEF ApartInv, TenantRecordsTypeOK, HistoryTypes
<1>7. ASSUME NEW d \in RowChannels PROVE Apart(d)'
  <2>1. CASE d = c
    BY <1>1, <1>2, <1>3, <1>5, <2>1 DEF ApartInv, Apart, TenantRecordsTypeOK, HistoryTypes
  <2>2. CASE d # c
    BY <1>2, <1>3, <2>2 DEF ApartInv, Apart, TenantRecordsTypeOK, HistoryTypes
  <2> QED BY <2>1, <2>2
<1>8. ShownToNoters'
  BY <1>3 DEF ApartInv, ShownToNoters
<1> QED BY <1>6, <1>7, <1>8 DEF ApartInv

(* The note is the tenant's own, or one that was there with a new value.   *)
LEMMA NoteApart ==
  ASSUME ApartInv, NEW w \in Workers, AddTenantMetadata(w) PROVE ApartInv'
<1> DEFINE t == job[w].tenant
           c == job[w].channel
           n == IF notes[c] = NoCall THEN [tenant |-> t, by |-> t] ELSE [notes[c] EXCEPT !.by = t]
<1>1. Executes(w, "AddTenantMetadata") /\ t \in rows /\ records[c] # NoCall
  BY DEF AddTenantMetadata
<1>2. t \in RowTenants /\ c \in RowChannels
      /\ job' \in [Workers -> [op : Ops, tenant : RowTenants, channel : RowChannels] \cup {Free}]
  BY <1>1, AtWork DEF Ops
<1>3. /\ notes' = [notes EXCEPT ![c] = n]
      /\ noters' = [noters EXCEPT ![c] = @ \cup {t}]
      /\ UNCHANGED <<status, rows, records, shown, creators, writers>>
  BY DEF AddTenantMetadata
<1>4. n \in Note /\ n.by = t /\ n.tenant \in (noters[c] \cup {t}) \cap rows
  <2>1. CASE notes[c] = NoCall
    BY <1>1, <1>2, <2>1 DEF Note
  <2>2. CASE notes[c] # NoCall
    <3>1. notes[c] \in Note /\ notes[c].tenant \in noters[c] \cap rows
      BY <1>2, <2>2 DEF ApartInv, TenantRecordsTypeOK, Apart
    <3> QED BY <1>2, <2>2, <3>1 DEF Note
  <2> QED BY <2>1, <2>2
<1>5. n # NoCall
  BY <1>4, NoCallAssumption
<1> HIDE DEF t, c, n
<1>6. TenantRecordsTypeOK' /\ HistoryTypes'
  BY <1>2, <1>3, <1>4 DEF ApartInv, TenantRecordsTypeOK, HistoryTypes
<1>7. ASSUME NEW d \in RowChannels PROVE Apart(d)'
  <2>1. CASE d = c
    BY <1>1, <1>2, <1>3, <1>4, <2>1 DEF ApartInv, Apart, TenantRecordsTypeOK, HistoryTypes
  <2>2. CASE d # c
    BY <1>2, <1>3, <2>2 DEF ApartInv, Apart, TenantRecordsTypeOK, HistoryTypes
  <2> QED BY <2>1, <2>2
<1>8. ShownToNoters'
  <2>1. \A d \in RowChannels : noters[d] \subseteq noters'[d]
    BY <1>2, <1>3 DEF ApartInv, HistoryTypes
  <2>2. \A s \in shown : s[1] \in RowChannels
    BY DEF ApartInv, TenantRecordsTypeOK
  <2> QED BY <1>3, <2>1, <2>2 DEF ApartInv, ShownToNoters
<1> QED BY <1>6, <1>7, <1>8 DEF ApartInv

LEMMA ReadApart ==
  ASSUME ApartInv, NEW w \in Workers, GetMetadata(w) PROVE ApartInv'
<1> DEFINE t == job[w].tenant
           c == job[w].channel
<1>1. Executes(w, "GetMetadata") /\ notes[c] # NoCall /\ notes[c].tenant = t
  BY DEF GetMetadata
<1>2. t \in RowTenants /\ c \in RowChannels
      /\ job' \in [Workers -> [op : Ops, tenant : RowTenants, channel : RowChannels] \cup {Free}]
  BY <1>1, AtWork DEF Ops
<1>3. /\ shown' = shown \cup {<<c, t, notes[c].by>>}
      /\ UNCHANGED <<status, tables, creators, writers, noters>>
  BY DEF GetMetadata
<1> HIDE DEF t, c
<1>4. t \in noters[c] /\ notes[c].by \in noters[c] /\ notes[c].by \in RowTenants
  BY <1>1, <1>2 DEF ApartInv, Apart, HistoryTypes
<1>5. TenantRecordsTypeOK' /\ HistoryTypes'
  BY <1>2, <1>3, <1>4 DEF ApartInv, TenantRecordsTypeOK, HistoryTypes, tables
<1>6. \A d \in RowChannels : Apart(d)'
  BY <1>3 DEF ApartInv, Apart, tables
<1>7. ShownToNoters'
  BY <1>3, <1>4 DEF ApartInv, ShownToNoters
<1> QED BY <1>5, <1>6, <1>7 DEF ApartInv

(* The table tenants: a row that goes is one no record or note refers to.  *)
LEMMA RowsApart ==
  ASSUME ApartInv, NEW t \in RowTenants, StoreTenant(t) \/ RemoveTenant(t) PROVE ApartInv'
<1>1. UNCHANGED <<status, records, notes, job, shown, creators, writers, noters>>
  BY DEF StoreTenant, RemoveTenant
<1>2. rows' \subseteq RowTenants
  BY DEF StoreTenant, RemoveTenant, ApartInv, TenantRecordsTypeOK
<1>3. ASSUME NEW d \in RowChannels PROVE Apart(d)'
  BY <1>1 DEF StoreTenant, RemoveTenant, ApartInv, Apart
<1> QED BY <1>1, <1>2, <1>3 DEF ApartInv, TenantRecordsTypeOK, HistoryTypes, ShownToNoters

(* Tenants are kept apart as far as TenantsApart says, for any tenants,    *)
(* channels and requests under way.                                        *)
THEOREM TenantsStayApart == TenantRecordsSpec => []TenantsApart
<1>1. TenantRecordsInit => ApartInv
  BY ApartInit
<1>2. ApartInv /\ [TenantRecordsNext]_tenantRecordsVars => ApartInv'
  <2> SUFFICES ASSUME ApartInv, [TenantRecordsNext]_tenantRecordsVars PROVE ApartInv'
    OBVIOUS
  <2>1. ASSUME NEW t \in RowTenants, NEW s \in {"active", "suspended", "deleted"}, SetStatus(t, s)
        PROVE  ApartInv'
    BY <2>1, ApartElsewhere DEF SetStatus, ApartInv, TenantRecordsTypeOK
  <2>2. ASSUME NEW t \in RowTenants, StoreTenant(t) \/ RemoveTenant(t) PROVE ApartInv'
    BY <2>2, RowsApart
  <2>3. ASSUME NEW w \in Workers, NEW o \in Ops, NEW t \in RowTenants, NEW c \in RowChannels,
               Validate(w, o, t, c)
        PROVE  ApartInv'
    BY <2>3, ApartElsewhere DEF Validate, ApartInv, TenantRecordsTypeOK
  <2>4. ASSUME NEW w \in Workers, StatementFails(w) PROVE ApartInv'
    BY <2>4, ApartElsewhere DEF StatementFails, ApartInv, TenantRecordsTypeOK
  <2>5. ASSUME NEW w \in Workers, CreateTenantCDR(w) PROVE ApartInv'
    BY <2>5, CreateApart
  <2>6. ASSUME NEW w \in Workers, UpdateTenantCDR(w) PROVE ApartInv'
    BY <2>6, UpdateApart
  <2>7. ASSUME NEW w \in Workers, AddTenantMetadata(w) PROVE ApartInv'
    BY <2>7, NoteApart
  <2>8. ASSUME NEW w \in Workers, GetMetadata(w) PROVE ApartInv'
    BY <2>8, ReadApart
  <2>9. CASE UNCHANGED tenantRecordsVars
    BY <2>9, ApartElsewhere DEF tenantRecordsVars, ApartInv, TenantRecordsTypeOK
  <2> QED BY <2>1, <2>2, <2>3, <2>4, <2>5, <2>6, <2>7, <2>8, <2>9 DEF TenantRecordsNext
<1>3. ApartInv => TenantsApart
  BY DEF ApartInv, TenantsApart, Apart, ShownToNoters
<1> QED BY <1>1, <1>2, <1>3, PTL DEF TenantRecordsSpec

-----------------------------------------------------------------------------
(* HealthChecks.  A getter is between its locks only since the breaker was  *)
(* open, with failures enough, unless the breaker changed meanwhile.        *)
Overdue == ~overtaken => \A p \in Probes : probe[p].at = "setting" => breaker.failures >= Threshold
HealthInv == BreakerAgrees /\ Overdue

LEMMA HealthStep == HealthInv /\ [HealthNext]_healthVars => HealthInv'
<1> SUFFICES ASSUME HealthInv, [HealthNext]_healthVars PROVE HealthInv'
  OBVIOUS
<1> DEFINE BreakerOf == [state : States, failures : 0 .. Threshold + 1]
           ProbeOf == [does : {"nothing", "check", "stats", "add", "remove"},
                       at : {"idle", "reading", "setting", "asked", "waiting to write"}, saw : States]
<1>a. /\ breaker \in BreakerOf /\ probe \in [Probes -> ProbeOf]
      /\ breaker.state \in States /\ breaker.failures \in 0 .. Threshold + 1
      /\ timedOut \in BOOLEAN /\ overtaken \in BOOLEAN /\ odd = FALSE /\ checks \subseteq AllChecks
      /\ ~overtaken => Consistent(breaker.state, breaker.failures)
  BY DEF HealthInv, BreakerAgrees, HealthTypeOK
<1>b. Threshold \in Nat \ {0}
  BY HealthAssumption
<1>c. /\ breaker.failures \in Nat /\ breaker.state \in States /\ Threshold \in Nat
      /\ timedOut \in BOOLEAN
  <2>1. breaker.failures \in 0 .. Threshold + 1 /\ breaker.state \in States /\ timedOut \in BOOLEAN
    BY DEF HealthInv, BreakerAgrees, HealthTypeOK
  <2> QED  BY <2>1, HealthAssumption
(* The breaker changes and no call of the checker moves.                   *)
<1>1. ASSUME RecordCircuitBreakerFailure \/ RecordCircuitBreakerSuccess PROVE HealthInv'
  <2>1. UNCHANGED <<probe, checks, odd>> /\ overtaken' = (overtaken \/ Between # {})
    BY <1>1 DEF RecordCircuitBreakerFailure, RecordCircuitBreakerSuccess
  <2>2. /\ breaker' \in BreakerOf /\ timedOut' \in BOOLEAN
        /\ Consistent(breaker.state, breaker.failures) => Consistent(breaker'.state, breaker'.failures)
    <3>1. CASE RecordCircuitBreakerFailure
      <4> DEFINE n == breaker.failures + 1
                 s == IF n >= Threshold THEN "open" ELSE breaker.state
      <4>1. /\ n <= Threshold + 1 /\ breaker' = [state |-> s, failures |-> n]
            /\ timedOut' = IF n >= Threshold THEN FALSE ELSE timedOut
        BY <3>1 DEF RecordCircuitBreakerFailure
      <4>2. n \in 0 .. Threshold + 1 /\ s \in States /\ timedOut' \in BOOLEAN
        <5>1. n <= Threshold + 1 /\ timedOut' \in {FALSE, timedOut}
          BY <4>1
        <5>2. n \in 0 .. Threshold + 1
          BY <5>1, <1>c
        <5>3. s \in States
          BY <1>c DEF States
        <5> QED  BY <5>1, <5>2, <5>3, <1>c
      <4>3. Consistent(breaker.state, breaker.failures) => Consistent(s, n)
        BY <1>c DEF Consistent
      <4> HIDE DEF n, s
      <4> QED  BY <4>1, <4>2, <4>3
    <3>2. CASE RecordCircuitBreakerSuccess
      <4>1. breaker' = [state |-> "closed", failures |-> 0] /\ timedOut' = timedOut
        BY <3>2 DEF RecordCircuitBreakerSuccess
      <4>2. 0 \in 0 .. Threshold + 1 /\ "closed" \in States /\ Consistent("closed", 0)
        BY <1>b DEF States, Consistent
      <4> QED  BY <4>1, <4>2, <1>a
    <3> QED  BY <1>1, <3>1, <3>2
  <2>3. ~overtaken' => ~overtaken /\ \A p \in Probes : probe[p].at # "setting"
    BY <2>1, <1>a DEF Between
  <2>4. BreakerAgrees'
    BY <2>1, <2>2, <2>3, <1>a DEF BreakerAgrees, HealthTypeOK
  <2> QED  BY <2>1, <2>3, <2>4 DEF HealthInv, Overdue
(* A call moves and leaves the breaker as it is.                           *)
<1>2. ASSUME NEW p \in Probes, NEW v \in ProbeOf, UNCHANGED <<breaker, overtaken, odd>>,
             probe' = [probe EXCEPT ![p] = v], timedOut' \in BOOLEAN, checks' \subseteq AllChecks,
             v.at = "setting" => breaker.state = "open"
      PROVE  HealthInv'
  <2>1. BreakerAgrees'
    BY <1>2, <1>a DEF BreakerAgrees, HealthTypeOK
  <2>2. ~overtaken /\ v.at = "setting" => breaker.failures >= Threshold
    BY <1>2, <1>a DEF Consistent
  <2>3. Overdue'
    BY <1>2, <2>2, <1>a DEF HealthInv, Overdue
  <2> QED  BY <2>1, <2>3 DEF HealthInv
<1>3. ASSUME NEW p \in Probes, SetHalfOpen(p) PROVE HealthInv'
  <2> DEFINE v == [probe[p] EXCEPT !.at = "asked", !.saw = "half-open"]
  <2>1. /\ probe[p].at = "setting" /\ UNCHANGED <<timedOut, checks, overtaken, odd>>
        /\ breaker' = [breaker EXCEPT !.state = "half-open"]
        /\ probe' = [probe EXCEPT ![p] = v]
    BY <1>3, <1>a DEF SetHalfOpen, At
  <2>2. v \in ProbeOf /\ v.at = "asked"
    BY <1>a DEF States
  <2>3. /\ breaker' \in BreakerOf /\ breaker'.state = "half-open"
        /\ breaker'.failures = breaker.failures
    BY <2>1, <1>a DEF States
  <2>4. ~overtaken => breaker.failures >= Threshold
    BY <2>1 DEF HealthInv, Overdue
  <2> HIDE DEF v
  <2>5. BreakerAgrees'
    BY <2>1, <2>2, <2>3, <2>4, <1>a DEF BreakerAgrees, HealthTypeOK, Consistent
  <2> QED  BY <2>1, <2>3, <2>4, <2>5 DEF HealthInv, Overdue
<1>4. ASSUME NEW p \in Probes, GetState(p) PROVE HealthInv'
  <2> DEFINE late == breaker.state = "open" /\ timedOut
             v == [probe[p] EXCEPT !.at = IF late THEN "setting" ELSE "asked", !.saw = breaker.state]
  <2>1. v \in ProbeOf /\ (v.at = "setting" => breaker.state = "open")
    BY <1>a
  <2>2. probe' = [probe EXCEPT ![p] = v] /\ UNCHANGED <<breaker, timedOut, checks, overtaken, odd>>
    BY <1>4, <1>a DEF GetState
  <2> HIDE DEF v
  <2> QED  BY <2>1, <2>2, <1>2, <1>a
<1>5. ASSUME NEW p \in Probes, Report(p) PROVE HealthInv'
  <2> DEFINE v == [probe[p] EXCEPT !.at = "idle"]
  <2>1. v \in ProbeOf /\ v.at = "idle"
    BY <1>a
  <2>2. probe' = [probe EXCEPT ![p] = v] /\ UNCHANGED <<breaker, timedOut, checks, overtaken>>
    BY <1>5, <1>a DEF Report, Go
  <2>3. odd' = odd
    BY <1>5, <1>a DEF Report
  <2> HIDE DEF v
  <2> QED  BY <2>1, <2>2, <2>3, <1>2, <1>a
<1>6. ASSUME NEW p \in Probes, NEW does \in {"check", "stats", "add", "remove"},
             NEW at \in {"reading", "waiting to write"},
             probe' = [probe EXCEPT ![p].does = does, ![p].at = at],
             UNCHANGED <<breaker, timedOut, checks, overtaken, odd>>
      PROVE  HealthInv'
  <2> DEFINE v == [probe[p] EXCEPT !.does = does, !.at = at]
  <2>1. v \in ProbeOf /\ v.at = at
    BY <1>a
  <2>2. probe' = [probe EXCEPT ![p] = v]
    BY <1>6, <1>a
  <2> HIDE DEF v
  <2> QED  BY <2>1, <2>2, <1>2, <1>6, <1>a
<1>7. ASSUME NEW p \in Probes, WriteChecks(p) \/ GetCheckNames(p) PROVE HealthInv'
  <2> DEFINE v == [probe[p] EXCEPT !.at = "idle"]
  <2>1. v \in ProbeOf /\ v.at = "idle"
    BY <1>a
  <2>2. /\ probe' = [probe EXCEPT ![p] = v] /\ UNCHANGED <<breaker, timedOut, overtaken, odd>>
        /\ checks' \subseteq AllChecks
    BY <1>7, <1>a DEF WriteChecks, GetCheckNames, Go, AllChecks
  <2> HIDE DEF v
  <2> QED  BY <2>1, <2>2, <1>2, <1>a
<1>8. CASE UNCHANGED healthVars \/ TimeOut
  <2>1. UNCHANGED <<breaker, probe, checks, overtaken, odd>> /\ timedOut' \in BOOLEAN
    BY <1>8, <1>a DEF healthVars, TimeOut
  <2> QED  BY <2>1, <1>a DEF HealthInv, Overdue, BreakerAgrees, HealthTypeOK
<1>9. ASSUME NEW p \in Probes,
             \/ StartReading(p, "check") \/ StartReading(p, "stats")
             \/ StartWriting(p, "add") \/ StartWriting(p, "remove")
      PROVE  HealthInv'
  BY <1>9, <1>6 DEF StartReading, StartWriting
<1> QED  BY <1>1, <1>3, <1>4, <1>5, <1>7, <1>8, <1>9 DEF HealthNext

(* The breaker's state and count agree, and so do reports of them, for any *)
(* threshold and any number of calls under way, unless the breaker changed *)
(* between a getter's two locks.                                           *)
THEOREM BreakerAlwaysAgrees == HealthSpec => []BreakerAgrees
<1>1. HealthInit => HealthInv
  <2> SUFFICES ASSUME HealthInit PROVE HealthInv
    OBVIOUS
  <2>1. Threshold \in Nat /\ Threshold > 0 /\ 0 \in 0 .. Threshold + 1
    BY HealthAssumption
  <2>2. HealthTypeOK
    BY <2>1 DEF HealthInit, HealthTypeOK, States, AllChecks
  <2>3. Consistent(breaker.state, breaker.failures)
    BY <2>1 DEF HealthInit, Consistent
  <2> QED  BY <2>2, <2>3 DEF HealthInit, HealthInv, Overdue, BreakerAgrees
<1> QED  BY <1>1, HealthStep, PTL DEF HealthSpec, HealthInv

-----------------------------------------------------------------------------
(* CallMetrics.  The gauge is the number of calls from their start to the   *)
(* end of their talk, the counters those that have got past each of them;   *)
(* only finitely many calls have begun, however many there may be.          *)
Phases == {"none", "starting", "active", "ending", "over"}
Begun == Phases \ {"none"}
Calls(x) == Cardinality(In({x}))
CountsInv ==
  /\ \A x \in Begun : IsFiniteSet(In({x}))
  /\ gauge = Calls("starting") + Calls("active")
  /\ internal.total = Calls("active") + Calls("ending") + Calls("over")
  /\ internal.successful + internal.failed = Calls("over")
RatesInv ==
  /\ sla.success.part <= sla.success.whole
  /\ loop.at = "read" => loop.successful <= loop.total /\ loop.total <= internal.total
  /\ sla.error.part <= internal.total
UptimeInv ==
  /\ uptimes.wrong > 0 => internal.total > 0 \/ changes > 1
  /\ lastTime = "call" => internal.total > 0
  /\ lastTime = "connection" => changes > 0
MetricsInv == MonitorTypeOK /\ CountsInv /\ RatesInv /\ UptimeInv

(* A call that goes from one phase to the next.                             *)
LEMMA PhaseMoves ==
  ASSUME phase \in [MonCalls -> Phases], NEW c \in MonCalls, NEW from \in Phases, NEW to \in Begun,
         from # to, Reports(c, from, to), \A x \in Begun : IsFiniteSet(In({x}))
  PROVE  /\ phase' \in [MonCalls -> Phases]
         /\ \A x \in Begun : IsFiniteSet(In({x}))' /\ Calls(x) \in Nat /\ Calls(x)' \in Nat
         /\ Calls(to)' = Calls(to) + 1
         /\ from # "none" => Calls(from)' = Calls(from) - 1
         /\ \A x \in Begun : x # from /\ x # to => Calls(x)' = Calls(x)
<1>1. /\ phase[c] = from /\ phase' = [phase EXCEPT ![c] = to] /\ to \in Phases
  BY DEF Reports, Begun
<1>2. \A x \in Begun : In({x})' = IF x = from THEN In({x}) \ {c}
                                 ELSE IF x = to THEN In({x}) \cup {c} ELSE In({x})
  BY <1>1 DEF In
<1>3. c \notin In({to}) /\ c \in In({from})
  BY <1>1 DEF In
<1>4. \A x \in Begun : /\ IsFiniteSet(In({x}) \ {c}) /\ IsFiniteSet(In({x}) \cup {c})
  BY FS_AddElement, FS_RemoveElement
<1>5. \A x \in Begun : IsFiniteSet(In({x}))'
  BY <1>2, <1>4
<1>6. \A x \in Begun : Calls(x) \in Nat /\ Calls(x)' \in Nat
  BY <1>5, FS_CardinalityType DEF Calls
<1>7. Calls(to)' = Calls(to) + 1
  BY <1>2, <1>3, FS_AddElement DEF Calls
<1>8. from # "none" => Calls(from)' = Calls(from) - 1
  BY <1>2, <1>3, FS_RemoveElement DEF Calls, Begun
<1>9. \A x \in Begun : x # from /\ x # to => Calls(x)' = Calls(x)
  BY <1>2 DEF Calls
<1> QED  BY <1>1, <1>5, <1>6, <1>7, <1>8, <1>9

(* Nothing of the calls changes. *)
LEMMA CallsRest ==
  ASSUME MetricsInv, UNCHANGED <<phase, gauge, internal>> PROVE CountsInv'
BY DEF MetricsInv, CountsInv, Calls, In

LEMMA CallsNat ==
  ASSUME MetricsInv
  PROVE  /\ \A x \in Begun : Calls(x) \in Nat
         /\ internal.total \in Nat /\ internal.successful \in Nat /\ internal.failed \in Nat /\ gauge \in Nat
         /\ internal.successful <= internal.total /\ internal.failed <= internal.total
<1>1. \A x \in Begun : Calls(x) \in Nat
  BY FS_CardinalityType DEF MetricsInv, CountsInv, Calls
<1>2. internal.total \in Nat /\ internal.successful \in Nat /\ internal.failed \in Nat /\ gauge \in Nat
  BY DEF MetricsInv, MonitorTypeOK
<1>3. Calls("active") \in Nat /\ Calls("ending") \in Nat /\ Calls("over") \in Nat
  BY <1>1 DEF Begun, Phases
<1> QED  BY <1>1, <1>2, <1>3 DEF MetricsInv, CountsInv

(* The steps of a call: a gauge or a counter moves with its phase.          *)
LEMMA CallStep ==
  ASSUME MetricsInv, NEW c \in MonCalls,
         \/ StartGauge(c) \/ StartCount(c) \/ EndGauge(c)
         \/ \E normal \in BOOLEAN : EndCount(c, normal)
  PROVE  MetricsInv'
<1>a. /\ phase \in [MonCalls -> Phases] /\ internal \in [total : Nat, successful : Nat, failed : Nat]
      /\ \A x \in Begun : IsFiniteSet(In({x}))
  BY DEF MetricsInv, MonitorTypeOK, Phases, CountsInv
<1>b. /\ \A x \in Begun : Calls(x) \in Nat
      /\ internal.total \in Nat /\ internal.successful \in Nat /\ internal.failed \in Nat /\ gauge \in Nat
  BY CallsNat
<1>c. /\ Calls("starting") \in Nat /\ Calls("active") \in Nat /\ Calls("ending") \in Nat
      /\ Calls("over") \in Nat
      /\ gauge = Calls("starting") + Calls("active")
      /\ internal.total = Calls("active") + Calls("ending") + Calls("over")
      /\ internal.successful + internal.failed = Calls("over")
  BY <1>b DEF Begun, Phases, MetricsInv, CountsInv
<1>d. /\ "none" \in Phases /\ "starting" \in Phases /\ "active" \in Phases /\ "ending" \in Phases
      /\ "starting" \in Begun /\ "active" \in Begun /\ "ending" \in Begun /\ "over" \in Begun
  BY DEF Begun, Phases
<1>1. CASE StartGauge(c)
  <2>1. Reports(c, "none", "starting") /\ gauge' = gauge + 1
        /\ UNCHANGED <<internal, link, lastTime, uptimes, changes, loop, sla>>
    BY <1>1 DEF StartGauge
  <2>2. /\ phase' \in [MonCalls -> Phases] /\ \A x \in Begun : IsFiniteSet(In({x}))'
        /\ Calls("starting")' = Calls("starting") + 1 /\ Calls("active")' = Calls("active")
        /\ Calls("ending")' = Calls("ending") /\ Calls("over")' = Calls("over")
    BY <2>1, <1>a, <1>d, PhaseMoves
  <2>3. MonitorTypeOK'
    BY <2>1, <2>2, <1>b DEF MetricsInv, MonitorTypeOK, Phases
  <2>4. CountsInv'
    BY <2>1, <2>2, <1>c DEF CountsInv
  <2> QED  BY <2>1, <2>3, <2>4 DEF MetricsInv, RatesInv, UptimeInv
<1>2. CASE StartCount(c)
  <2>1. /\ Reports(c, "starting", "active") /\ internal' = [internal EXCEPT !.total = @ + 1]
        /\ lastTime' = "call" /\ UNCHANGED <<gauge, link, uptimes, changes, loop, sla>>
    BY <1>2 DEF StartCount
  <2>2. /\ phase' \in [MonCalls -> Phases] /\ \A x \in Begun : IsFiniteSet(In({x}))'
        /\ Calls("starting")' = Calls("starting") - 1 /\ Calls("active")' = Calls("active") + 1
        /\ Calls("ending")' = Calls("ending") /\ Calls("over")' = Calls("over")
    BY <2>1, <1>a, <1>d, PhaseMoves
  <2>3. /\ internal' \in [total : Nat, successful : Nat, failed : Nat]
        /\ internal'.total = internal.total + 1
        /\ internal'.successful = internal.successful /\ internal'.failed = internal.failed
    BY <2>1, <1>a
  <2>4. MonitorTypeOK'
    BY <2>1, <2>2, <2>3 DEF MetricsInv, MonitorTypeOK, Phases
  <2>5. CountsInv'
    BY <2>1, <2>2, <2>3, <1>c DEF CountsInv
  <2>6. RatesInv'
    BY <2>1, <2>3, <1>b DEF MetricsInv, RatesInv, MonitorTypeOK
  <2>7. UptimeInv'
    BY <2>1, <2>3, <1>b DEF MetricsInv, UptimeInv
  <2> QED  BY <2>4, <2>5, <2>6, <2>7 DEF MetricsInv
<1>3. CASE EndGauge(c)
  <2>1. /\ Reports(c, "active", "ending") /\ gauge' = gauge - 1
        /\ UNCHANGED <<internal, link, lastTime, uptimes, changes, loop, sla>>
    BY <1>3 DEF EndGauge
  <2>2. /\ phase' \in [MonCalls -> Phases] /\ \A x \in Begun : IsFiniteSet(In({x}))'
        /\ Calls("starting")' = Calls("starting") /\ Calls("active")' = Calls("active") - 1
        /\ Calls("ending")' = Calls("ending") + 1 /\ Calls("over")' = Calls("over")
    BY <2>1, <1>a, <1>d, PhaseMoves
  <2>3. gauge' \in Nat
    <3>1. Calls("active")' \in Nat
      BY <2>1, <1>a, <1>d, PhaseMoves
    <3> QED  BY <3>1, <2>1, <2>2, <1>c
  <2>4. MonitorTypeOK'
    BY <2>1, <2>2, <2>3 DEF MetricsInv, MonitorTypeOK, Phases
  <2>5. CountsInv'
    BY <2>1, <2>2, <1>c DEF CountsInv
  <2> QED  BY <2>1, <2>4, <2>5 DEF MetricsInv, RatesInv, UptimeInv
<1>4. ASSUME NEW normal \in BOOLEAN, EndCount(c, normal) PROVE MetricsInv'
  <2>1. /\ Reports(c, "ending", "over")
        /\ UNCHANGED <<gauge, link, lastTime, uptimes, changes, loop, sla>>
        /\ internal' = IF normal THEN [internal EXCEPT !.successful = @ + 1]
                       ELSE [internal EXCEPT !.failed = @ + 1]
    BY <1>4 DEF EndCount
  <2>2. /\ phase' \in [MonCalls -> Phases] /\ \A x \in Begun : IsFiniteSet(In({x}))'
        /\ Calls("starting")' = Calls("starting") /\ Calls("active")' = Calls("active")
        /\ Calls("ending")' = Calls("ending") - 1 /\ Calls("over")' = Calls("over") + 1
    BY <2>1, <1>a, <1>d, PhaseMoves
  <2>3. /\ internal' \in [total : Nat, successful : Nat, failed : Nat]
        /\ internal'.total = internal.total
        /\ internal'.successful + internal'.failed = internal.successful + internal.failed + 1
    BY <2>1, <1>a
  <2>4. MonitorTypeOK'
    BY <2>1, <2>2, <2>3 DEF MetricsInv, MonitorTypeOK, Phases
  <2>5. CountsInv'
    BY <2>1, <2>2, <2>3, <1>c DEF CountsInv
  <2> QED  BY <2>1, <2>3, <2>4, <2>5 DEF MetricsInv, RatesInv, UptimeInv
<1> QED  BY <1>1, <1>2, <1>3, <1>4

LEMMA LinkStep ==
  ASSUME MetricsInv, NEW connected \in BOOLEAN, RecordConnectionEvent(connected)
  PROVE  MetricsInv'
<1>1. /\ changes < MaxChanges /\ changes' = changes + 1 /\ link' = connected
      /\ UNCHANGED <<phase, gauge, internal, loop, sla>>
  BY DEF RecordConnectionEvent
<1>2. /\ changes \in 0 .. MaxChanges /\ uptimes \in [all : Nat, wrong : Nat] /\ link \in BOOLEAN
      /\ changes' \in 0 .. MaxChanges /\ internal.total \in Nat
      /\ lastTime \in {"never", "connection", "call"}
  <2>1. /\ changes \in 0 .. MaxChanges /\ uptimes \in [all : Nat, wrong : Nat] /\ link \in BOOLEAN
        /\ lastTime \in {"never", "connection", "call"}
    BY DEF MetricsInv, MonitorTypeOK
  <2> QED  BY <2>1, <1>1, CallsNat, MonitorAssumption
<1>3. CountsInv' /\ RatesInv'
  BY <1>1, CallsRest DEF MetricsInv, RatesInv
<1>4. CASE connected
  <2>1. lastTime' = "connection" /\ UNCHANGED uptimes
    BY <1>4 DEF RecordConnectionEvent
  <2> QED  BY <2>1, <1>1, <1>2, <1>3 DEF MetricsInv, MonitorTypeOK, UptimeInv
<1>5. CASE ~connected
  <2>1. /\ UNCHANGED lastTime
        /\ uptimes' = IF lastTime = "never" THEN uptimes
                      ELSE [all |-> uptimes.all + 1,
                            wrong |-> IF lastTime = "call" \/ ~link THEN uptimes.wrong + 1
                                      ELSE uptimes.wrong]
    BY <1>5 DEF RecordConnectionEvent
  <2>2. /\ uptimes' \in [all : Nat, wrong : Nat]
        /\ uptimes'.wrong > 0 => uptimes.wrong > 0 \/ lastTime \in {"call", "connection"}
    BY <2>1, <1>2
  <2> QED  BY <2>1, <2>2, <1>1, <1>2, <1>3 DEF MetricsInv, MonitorTypeOK, UptimeInv
<1> QED  BY <1>4, <1>5

LEMMA LoopStep ==
  ASSUME MetricsInv, ReadCalls \/ ReadFailed
  PROVE  MetricsInv'
<1>1. UNCHANGED <<phase, gauge, internal, link, lastTime, uptimes, changes>>
  BY DEF ReadCalls, ReadFailed
<1>2. CountsInv' /\ UptimeInv'
  BY <1>1, CallsRest DEF MetricsInv, UptimeInv
<1>3. /\ internal.total \in Nat /\ internal.successful \in Nat /\ internal.failed \in Nat
      /\ internal.successful <= internal.total /\ internal.failed <= internal.total
  BY CallsNat
<1>4. /\ sla \in [success : [part : Nat, whole : Nat], error : [part : Nat, whole : Nat]]
      /\ loop \in [at : {"waiting", "read"}, total : Nat, successful : Nat]
  BY DEF MetricsInv, MonitorTypeOK
<1>5. CASE ReadCalls
  <2>1. /\ loop' = [at |-> "read", total |-> internal.total, successful |-> internal.successful]
        /\ \/ sla' = sla
           \/ sla' = [sla EXCEPT !.success = [part |-> internal.successful, whole |-> internal.total]]
    BY <1>5 DEF ReadCalls
  <2>2. /\ loop' \in [at : {"waiting", "read"}, total : Nat, successful : Nat]
        /\ sla' \in [success : [part : Nat, whole : Nat], error : [part : Nat, whole : Nat]]
    BY <2>1, <1>3, <1>4
  <2>3. RatesInv'
    BY <2>1, <1>1, <1>3, <1>4 DEF MetricsInv, RatesInv
  <2> QED  BY <1>1, <1>2, <2>2, <2>3 DEF MetricsInv, MonitorTypeOK
<1>6. CASE ReadFailed
  <2>1. /\ loop' = [loop EXCEPT !.at = "waiting"]
        /\ \/ sla' = sla
           \/ sla' = [sla EXCEPT !.error = [part |-> internal.failed, whole |-> loop.total]]
    BY <1>6 DEF ReadFailed
  <2>2. /\ loop' \in [at : {"waiting", "read"}, total : Nat, successful : Nat]
        /\ sla' \in [success : [part : Nat, whole : Nat], error : [part : Nat, whole : Nat]]
    BY <2>1, <1>3, <1>4
  <2>3. RatesInv'
    BY <2>1, <1>1, <1>3, <1>4 DEF MetricsInv, RatesInv
  <2> QED  BY <1>1, <1>2, <2>2, <2>3 DEF MetricsInv, MonitorTypeOK
<1> QED  BY <1>5, <1>6

(* The figures of the monitor agree, for any number of calls and of         *)
(* connection events, at every point of the loop that reads them.           *)
THEOREM FiguresAlwaysAgree == MonitorSpec => []FiguresAgree
<1>1. MonitorInit => MetricsInv
  <2> SUFFICES ASSUME MonitorInit PROVE MetricsInv
    OBVIOUS
  <2>1. \A x \in Begun : In({x}) = {}
    BY DEF MonitorInit, In, Begun, Phases
  <2>2. \A x \in Begun : IsFiniteSet(In({x})) /\ Calls(x) = 0
    BY <2>1, FS_EmptySet DEF Calls
  <2>3. CountsInv
    <3>1. Calls("starting") = 0 /\ Calls("active") = 0 /\ Calls("ending") = 0 /\ Calls("over") = 0
      BY <2>2 DEF Begun, Phases
    <3>2. gauge = 0 /\ internal.total = 0 /\ internal.successful = 0 /\ internal.failed = 0
      BY DEF MonitorInit
    <3> QED  BY <3>1, <3>2, <2>2 DEF CountsInv
  <2>4. MonitorTypeOK
    <3>1. Unset \in [part : Nat, whole : Nat] /\ 0 \in 0 .. MaxChanges
      BY MonitorAssumption DEF Unset
    <3> QED  BY <3>1 DEF MonitorInit, MonitorTypeOK
  <2> QED  BY <2>3, <2>4 DEF MonitorInit, MetricsInv, RatesInv, UptimeInv, Unset
<1>2. MetricsInv /\ [MonitorNext]_monitorVars => MetricsInv'
  <2> SUFFICES ASSUME MetricsInv, [MonitorNext]_monitorVars PROVE MetricsInv'
    OBVIOUS
  <2>1. CASE UNCHANGED monitorVars
    BY <2>1, CallsRest DEF monitorVars, MetricsInv, MonitorTypeOK, RatesInv, UptimeInv
  <2> QED  BY <2>1, CallStep, LinkStep, LoopStep DEF MonitorNext
<1>3. MetricsInv => FiguresAgree
  <2> SUFFICES ASSUME MetricsInv PROVE FiguresAgree
    OBVIOUS
  <2>1. /\ Calls("starting") \in Nat /\ Calls("active") \in Nat /\ Calls("ending") \in Nat
        /\ Calls("over") \in Nat
    BY CallsNat DEF Begun, Phases
  <2>2. internal.total = internal.successful + internal.failed + gauge + Calls("ending") - Calls("starting")
    BY <2>1, CallsNat DEF MetricsInv, CountsInv
  <2> QED  BY <2>2 DEF MetricsInv, RatesInv, UptimeInv, FiguresAgree, Calls
<1> QED  BY <1>1, <1>2, <1>3, PTL DEF MonitorSpec

-----------------------------------------------------------------------------
(* Alerts.  The condition's time starts anew with every firing, so it is    *)
(* never ahead of the time since; and a firing is on its way to its alert   *)
(* in exactly one round.                                                    *)
Raised(r) == {i \in AlertIds : alerts[i].rule = r}
Raising(r) == {e \in Evaluators : round[e].at = "raising" /\ round[e].rule = r}
AlertsOf == [rule : Rules, status : {"firing", "acknowledged", "resolved"}]
RoundsOf == [at : {"idle", "between", "timing", "raising"}, left : SUBSET Rules, rule : Rules]
AlertsInv == AlertsSpaced /\ \A r \in Rules : IsFiniteSet(Raising(r))

LEMMA AlertsTypes ==
  ASSUME AlertsInv
  PROVE  /\ rules \subseteq Rules /\ above \subseteq Rules /\ hasty = {}
         /\ started \in [Rules -> 0 .. Never] /\ sinceFired \in [Rules -> 0 .. Never]
         /\ round \in [Evaluators -> RoundsOf] /\ firings \in [Rules -> Nat]
         /\ alerts \in Seq(AlertsOf)
         /\ \A r \in Rules : started[r] # Never => started[r] <= sinceFired[r]
         /\ \A r \in Rules : firings[r] = Cardinality(Raised(r)) + Cardinality(Raising(r))
         /\ \A r \in Rules : IsFiniteSet(Raised(r)) /\ IsFiniteSet(Raising(r))
<1>1. /\ rules \subseteq Rules /\ above \subseteq Rules /\ hasty = {}
      /\ started \in [Rules -> 0 .. Never] /\ sinceFired \in [Rules -> 0 .. Never]
      /\ firings \in [Rules -> Nat]
  BY DEF AlertsInv, AlertsSpaced, AlertsTypeOK
<1>2. alerts \in Seq(AlertsOf) /\ round \in [Evaluators -> RoundsOf]
  BY DEF AlertsInv, AlertsSpaced, AlertsTypeOK, AlertsOf, RoundsOf
<1>3. \A r \in Rules : firings[r] = Cardinality(Raised(r)) + Cardinality(Raising(r))
  BY DEF AlertsInv, AlertsSpaced, Raised, Raising
<1>4. \A r \in Rules : started[r] # Never => started[r] <= sinceFired[r]
  BY DEF AlertsInv, AlertsSpaced
<1>5. Len(alerts) \in Nat /\ AlertIds = 1 .. Len(alerts)
  BY <1>2 DEF AlertIds
<1>6. \A r \in Rules : Raised(r) \in SUBSET (1 .. Len(alerts))
  BY <1>5 DEF Raised
<1>7. \A r \in Rules : IsFiniteSet(Raised(r))
  <2>1. IsFiniteSet(1 .. Len(alerts))
    BY <1>5, FS_Interval
  <2> QED  BY <2>1, <1>6, FS_Subset
<1> QED  BY <1>1, <1>2, <1>3, <1>4, <1>7 DEF AlertsInv

(* A round goes on, with or without a rule to raise an alert for.           *)
LEMMA RoundMoves ==
  ASSUME AlertsInv, NEW e \in Evaluators, NEW v \in RoundsOf, round' = [round EXCEPT ![e] = v]
  PROVE  /\ round' \in [Evaluators -> RoundsOf]
         /\ \A r \in Rules :
              Raising(r)' = IF v.at = "raising" /\ v.rule = r THEN Raising(r) \cup {e} ELSE Raising(r) \ {e}
         /\ \A r \in Rules : IsFiniteSet(Raising(r))'
<1>1. round \in [Evaluators -> RoundsOf]
  BY AlertsTypes
<1>2. round' \in [Evaluators -> RoundsOf] /\ round'[e] = v /\ \A d \in Evaluators : d # e => round'[d] = round[d]
  BY <1>1
<1>3. \A r \in Rules :
        Raising(r)' = IF v.at = "raising" /\ v.rule = r THEN Raising(r) \cup {e} ELSE Raising(r) \ {e}
  BY <1>2 DEF Raising
<1>4. \A r \in Rules : IsFiniteSet(Raising(r) \cup {e}) /\ IsFiniteSet(Raising(r) \ {e})
  BY AlertsTypes, FS_AddElement, FS_RemoveElement
<1> QED  BY <1>2, <1>3, <1>4

(* A round goes from one state that raises nothing to another.              *)
LEMMA QuietRound ==
  ASSUME AlertsInv, NEW e \in Evaluators, NEW v \in RoundsOf, round' = [round EXCEPT ![e] = v],
         round[e].at # "raising", v.at # "raising",
         UNCHANGED <<rules, above, alerts, sinceFired, firings, hasty>>,
         started' \in [Rules -> 0 .. Never],
         \A r \in Rules : started'[r] # Never => started'[r] = 0 \/ started'[r] = started[r]
  PROVE  AlertsInv'
<1>1. \A r \in Rules : Raising(r)' = Raising(r)
  BY RoundMoves DEF Raising
<1>2. \A r \in Rules : Raised(r)' = Raised(r)
  BY DEF Raised, AlertIds
<1>3. /\ sinceFired \in [Rules -> 0 .. Never] /\ Never \in Nat
      /\ \A r \in Rules : started[r] # Never => started[r] <= sinceFired[r]
  BY AlertsTypes, AlertsAssumption DEF Never
<1>4. \A r \in Rules : started'[r] # Never => started'[r] <= sinceFired[r]
  BY <1>3
<1>5. AlertsTypeOK'
  BY RoundMoves DEF AlertsInv, AlertsSpaced, AlertsTypeOK, RoundsOf
<1>6. \A r \in Rules : firings'[r] = Cardinality(Raised(r)') + Cardinality(Raising(r)')
  BY <1>1, <1>2, AlertsTypes
<1>7. \A r \in Rules : IsFiniteSet(Raising(r))'
  BY RoundMoves
<1>8. hasty' = {}
  BY AlertsTypes
<1> QED  BY <1>4, <1>5, <1>6, <1>7, <1>8 DEF AlertsInv, AlertsSpaced, Raised, Raising

(* Neither rounds nor alerts move.                                          *)
LEMMA QuietStep ==
  ASSUME AlertsInv, UNCHANGED <<round, firings, hasty>>,
         \A i \in AlertIds : alerts'[i].rule = alerts[i].rule, AlertIds' = AlertIds,
         AlertsTypeOK', \A r \in Rules : started'[r] # Never => started'[r] <= sinceFired'[r]
  PROVE  AlertsInv'
<1>1. \A r \in Rules : Raising(r)' = Raising(r) /\ Raised(r)' = Raised(r)
  BY DEF Raising, Raised
<1>2. \A r \in Rules : firings'[r] = Cardinality(Raised(r)') + Cardinality(Raising(r)')
  BY <1>1, AlertsTypes
<1>3. \A r \in Rules : IsFiniteSet(Raising(r)') /\ hasty' = {}
  BY <1>1, AlertsTypes
<1>4. hasty' = {}
  BY AlertsTypes
<1> QED  BY <1>2, <1>3, <1>4 DEF AlertsInv, AlertsSpaced, Raised, Raising

LEMMA AlertsStep == AlertsInv /\ [AlertsNext]_alertsVars => AlertsInv'
<1> SUFFICES ASSUME AlertsInv, [AlertsNext]_alertsVars PROVE AlertsInv'
  OBVIOUS
<1>a. /\ rules \subseteq Rules /\ above \subseteq Rules /\ hasty = {}
      /\ started \in [Rules -> 0 .. Never] /\ sinceFired \in [Rules -> 0 .. Never]
      /\ round \in [Evaluators -> RoundsOf] /\ firings \in [Rules -> Nat]
      /\ alerts \in Seq(AlertsOf)
  BY AlertsTypes
<1>b. /\ \A r \in Rules : started[r] # Never => started[r] <= sinceFired[r]
      /\ \A r \in Rules : firings[r] = Cardinality(Raised(r)) + Cardinality(Raising(r))
      /\ \A r \in Rules : IsFiniteSet(Raised(r)) /\ IsFiniteSet(Raising(r))
  BY AlertsTypes
<1>c. Duration \in Nat /\ Duration > 0 /\ Never \in Nat /\ Never = Duration + 1
  BY AlertsAssumption DEF Never
<1>d. \A e \in Evaluators : /\ round[e] \in RoundsOf /\ round[e].rule \in Rules
                            /\ round[e].left \subseteq Rules
  <2>1. \A v \in RoundsOf : v.rule \in Rules /\ v.left \subseteq Rules
    BY DEF RoundsOf
  <2> QED  BY <2>1, <1>a
<1>1. ASSUME NEW r \in Rules, AddRule(r) \/ RemoveRule(r) \/ Measure(r) PROVE AlertsInv'
  <2>1. UNCHANGED <<started, round, alerts, sinceFired, firings, hasty>>
    BY <1>1 DEF AddRule, RemoveRule, Measure
  <2>2. rules' \subseteq Rules /\ above' \subseteq Rules
    BY <1>1, <1>a DEF AddRule, RemoveRule, Measure
  <2>3. AlertsTypeOK'
    BY <2>1, <2>2 DEF AlertsInv, AlertsSpaced, AlertsTypeOK
  <2> QED  BY <2>1, <2>3, <1>b, QuietStep DEF AlertIds
<1>2. ASSUME TimePasses PROVE AlertsInv'
  <2>1. /\ UNCHANGED <<rules, above, round, alerts, firings, hasty>>
        /\ started' = [r \in Rules |-> Passed(started[r])]
        /\ sinceFired' = [r \in Rules |-> Passed(sinceFired[r])]
    BY <1>2 DEF TimePasses
  <2>2. \A n \in 0 .. Never : Passed(n) \in 0 .. Never
    BY <1>c DEF Passed
  <2>3. \A n, m \in 0 .. Never : /\ n # Never /\ n <= m => Passed(n) <= Passed(m)
                                 /\ Passed(n) # Never => n # Never
    BY <1>c DEF Passed
  <2>4. AlertsTypeOK'
    BY <2>1, <2>2, <1>a DEF AlertsInv, AlertsSpaced, AlertsTypeOK
  <2>5. ASSUME NEW r \in Rules, started'[r] # Never PROVE started'[r] <= sinceFired'[r]
    BY <2>1, <2>3, <2>5, <1>a, <1>b
  <2> QED  BY <2>1, <2>4, <2>5, QuietStep DEF AlertIds
<1>3. ASSUME NEW e \in Evaluators, EvaluateAlerts(e) PROVE AlertsInv'
  <2> DEFINE v == [round[e] EXCEPT !.at = "between", !.left = rules]
  <2>1. /\ round[e].at = "idle" /\ round' = [round EXCEPT ![e] = v]
        /\ UNCHANGED <<rules, above, started, alerts, sinceFired, firings, hasty>>
    BY <1>3, <1>a DEF EvaluateAlerts
  <2>2. v \in RoundsOf /\ v.at = "between"
    BY <1>a, <1>d DEF RoundsOf
  <2> HIDE DEF v
  <2> QED  BY <2>1, <2>2, <1>a, QuietRound
<1>4. ASSUME NEW e \in Evaluators, NEW r \in Rules, ShouldTrigger(e, r) PROVE AlertsInv'
  <2> DEFINE left == round[e].left \ {r}
             v == [at |-> IF r \in above THEN "timing" ELSE IF left = {} THEN "idle" ELSE "between",
                   left |-> left, rule |-> r]
  <2>1. /\ round[e].at = "between" /\ round' = [round EXCEPT ![e] = v]
        /\ UNCHANGED <<rules, above, started, alerts, sinceFired, firings, hasty>>
    BY <1>4 DEF ShouldTrigger
  <2>2. v \in RoundsOf /\ v.at # "raising"
    BY <1>d DEF RoundsOf
  <2> HIDE DEF v
  <2> QED  BY <2>1, <2>2, <1>a, QuietRound
<1>5. ASSUME NEW e \in Evaluators, CheckDuration(e) PROVE AlertsInv'
  <2> DEFINE r == round[e].rule
             v == [round[e] EXCEPT !.at = IF round[e].left = {} THEN "idle" ELSE "between"]
  <2>1. /\ round[e].at = "timing" /\ started' = Noted(r) /\ Proceed(e, "between")
        /\ UNCHANGED <<rules, above, alerts, sinceFired, firings, hasty>>
    BY <1>5 DEF CheckDuration
  <2>2. round' = [round EXCEPT ![e] = v]
    BY <2>1, <1>a DEF Proceed
  <2>3. v \in RoundsOf /\ v.at # "raising"
    BY <1>d DEF RoundsOf
  <2>4. /\ started' \in [Rules -> 0 .. Never]
        /\ \A q \in Rules : started'[q] # Never => started'[q] = 0 \/ started'[q] = started[q]
    <3>1. r \in Rules /\ started[r] \in 0 .. Never /\ 0 \in 0 .. Never
      BY <1>a, <1>c, <1>d
    <3>2. started' = [started EXCEPT ![r] = IF started[r] = Never THEN 0 ELSE started[r]]
      BY <2>1 DEF Noted
    <3> QED  BY <3>1, <3>2, <1>a
  <2> HIDE DEF v
  <2> QED  BY <2>1, <2>2, <2>3, <2>4, QuietRound
<1>6. ASSUME NEW e \in Evaluators, Fire(e) PROVE AlertsInv'
  <2>0. PICK r \in Rules : r = round[e].rule
    BY <1>d
  <2> DEFINE v == [round[e] EXCEPT !.at = "raising"]
  <2>1. /\ round[e].at = "timing" /\ started[r] = Duration /\ Proceed(e, "raising")
        /\ started' = [started EXCEPT ![r] = Never]
        /\ hasty' = IF sinceFired[r] < Duration THEN hasty \cup {r} ELSE hasty
        /\ sinceFired' = [sinceFired EXCEPT ![r] = 0]
        /\ firings' = [firings EXCEPT ![r] = @ + 1] /\ UNCHANGED <<rules, above, alerts>>
    BY <1>6, <2>0 DEF Fire
  <2>2. round' = [round EXCEPT ![e] = v]
    BY <2>1, <1>a DEF Proceed
  <2>3. v \in RoundsOf /\ v.at = "raising" /\ v.rule = r
    BY <1>d, <2>0 DEF RoundsOf
  <2> HIDE DEF v
  <2>4. /\ round' \in [Evaluators -> RoundsOf]
        /\ \A q \in Rules : Raising(q)' = IF q = r THEN Raising(q) \cup {e} ELSE Raising(q) \ {e}
        /\ \A q \in Rules : IsFiniteSet(Raising(q))'
    BY <2>2, <2>3, RoundMoves
  <2>5. \A q \in Rules : e \notin Raising(q)
    BY <2>1 DEF Raising
  <2>6. \A q \in Rules : Cardinality(Raising(q)') = Cardinality(Raising(q)) + (IF q = r THEN 1 ELSE 0)
    <3>1. \A q \in Rules : q # r => Raising(q)' = Raising(q)
      BY <2>4, <2>5
    <3>2. Cardinality(Raising(r)') = Cardinality(Raising(r)) + 1
      <4>1. /\ IsFiniteSet(Raising(r)) /\ Raising(r)' = Raising(r) \cup {e}
            /\ e \notin Raising(r)
        BY <2>3, <2>4, <2>5, <1>b
      <4> QED  BY <4>1, FS_AddElement
    <3>3. \A q \in Rules : Cardinality(Raising(q)) \in Nat
      BY <1>b, FS_CardinalityType
    <3> SUFFICES ASSUME NEW q \in Rules
                 PROVE  Cardinality(Raising(q)') = Cardinality(Raising(q)) + (IF q = r THEN 1 ELSE 0)
      OBVIOUS
    <3>4. Cardinality(Raising(q)) \in Nat
      BY <3>3
    <3> QED  BY <3>1, <3>2, <3>4
  <2>7. hasty' = {}
    <3>1. Duration <= sinceFired[r]
      BY <2>1, <2>3, <1>b, <1>c
    <3>2. sinceFired[r] \in Nat
      BY <2>3, <1>a
    <3> QED  BY <3>1, <3>2, <2>1, <1>a, <1>c
  <2>8. /\ firings' \in [Rules -> Nat] /\ started' \in [Rules -> 0 .. Never]
        /\ sinceFired' \in [Rules -> 0 .. Never]
        /\ \A q \in Rules : firings'[q] = firings[q] + (IF q = r THEN 1 ELSE 0)
        /\ \A q \in Rules : started'[q] # Never => started'[q] <= sinceFired'[q]
    BY <2>1, <2>3, <1>a, <1>b, <1>c
  <2>9. AlertsTypeOK'
    BY <2>1, <2>4, <2>7, <2>8, <1>a DEF AlertsTypeOK, RoundsOf, AlertsOf
  <2>10. \A q \in Rules : Raised(q)' = Raised(q)
    BY <2>1 DEF Raised, AlertIds
  <2>11. ASSUME NEW q \in Rules PROVE firings'[q] = Cardinality(Raised(q)') + Cardinality(Raising(q)')
    <3>1. Cardinality(Raised(q)) \in Nat /\ Cardinality(Raising(q)) \in Nat
      BY <1>b, FS_CardinalityType
    <3> QED  BY <3>1, <2>6, <2>8, <2>10, <1>b
  <2> QED  BY <2>4, <2>7, <2>8, <2>9, <2>11 DEF AlertsInv, AlertsSpaced, Raised, Raising
<1>7. ASSUME NEW e \in Evaluators, TriggerAlert(e) PROVE AlertsInv'
  <2>0. PICK r \in Rules : r = round[e].rule
    BY <1>d
  <2> DEFINE v == [round[e] EXCEPT !.at = IF round[e].left = {} THEN "idle" ELSE "between"]
             n == Len(alerts) + 1
             new == [rule |-> r, status |-> "firing"]
  <2>1. /\ round[e].at = "raising" /\ alerts' = Append(alerts, new) /\ Proceed(e, "between")
        /\ UNCHANGED <<rules, above, started, sinceFired, firings, hasty>>
    BY <1>7, <2>0 DEF TriggerAlert
  <2>2. round' = [round EXCEPT ![e] = v]
    BY <2>1, <1>a DEF Proceed
  <2>3. v \in RoundsOf /\ v.at # "raising"
    BY <1>d DEF RoundsOf
  <2>4. new \in AlertsOf /\ new.rule = r
    BY DEF AlertsOf
  <2> HIDE DEF v, new
  <2>5. /\ round' \in [Evaluators -> RoundsOf]
        /\ \A q \in Rules : Raising(q)' = Raising(q) \ {e}
        /\ \A q \in Rules : IsFiniteSet(Raising(q))'
    BY <2>2, <2>3, RoundMoves
  <2>6. \A q \in Rules : e \in Raising(q) <=> q = r
    BY <2>0, <2>1 DEF Raising
  <2>7. \A q \in Rules : Cardinality(Raising(q)') = Cardinality(Raising(q)) - (IF q = r THEN 1 ELSE 0)
    <3>1. \A q \in Rules : q # r => Raising(q)' = Raising(q)
      BY <2>5, <2>6
    <3>2. Cardinality(Raising(r)') = Cardinality(Raising(r)) - 1
      <4>1. /\ IsFiniteSet(Raising(r)) /\ Raising(r)' = Raising(r) \ {e}
            /\ e \in Raising(r)
        BY <2>3, <2>5, <2>6, <1>b
      <4> QED  BY <4>1, FS_RemoveElement
    <3>3. \A q \in Rules : Cardinality(Raising(q)) \in Nat
      BY <1>b, FS_CardinalityType
    <3> SUFFICES ASSUME NEW q \in Rules
                 PROVE  Cardinality(Raising(q)') = Cardinality(Raising(q)) - (IF q = r THEN 1 ELSE 0)
      OBVIOUS
    <3>4. Cardinality(Raising(q)) \in Nat
      BY <3>3
    <3> QED  BY <3>1, <3>2, <3>4
  <2>8. /\ alerts' \in Seq(AlertsOf)
        /\ AlertIds' = AlertIds \cup {n} /\ n \notin AlertIds /\ alerts'[n] = new
        /\ \A i \in AlertIds : alerts'[i] = alerts[i]
    BY <2>1, <2>4, <1>a DEF AlertIds
  <2>9. \A q \in Rules : Raised(q)' = IF q = r THEN Raised(q) \cup {n} ELSE Raised(q)
    BY <2>4, <2>8 DEF Raised
  <2>10. \A q \in Rules : Cardinality(Raised(q)') = Cardinality(Raised(q)) + (IF q = r THEN 1 ELSE 0)
    <3>1. n \notin Raised(r)
      BY <2>8 DEF Raised
    <3>2. Cardinality(Raised(r)') = Cardinality(Raised(r)) + 1
      <4>1. /\ IsFiniteSet(Raised(r)) /\ Raised(r)' = Raised(r) \cup {n}
            /\ n \notin Raised(r)
        BY <3>1, <2>3, <2>9, <1>b
      <4> QED  BY <4>1, FS_AddElement
    <3>3. \A q \in Rules : Cardinality(Raised(q)) \in Nat
      BY <1>b, FS_CardinalityType
    <3> SUFFICES ASSUME NEW q \in Rules
                 PROVE  Cardinality(Raised(q)') = Cardinality(Raised(q)) + (IF q = r THEN 1 ELSE 0)
      OBVIOUS
    <3>4. Cardinality(Raised(q)) \in Nat
      BY <3>3
    <3> QED  BY <3>2, <3>4, <2>9
  <2>11. AlertsTypeOK'
    BY <2>1, <2>5, <2>8, <1>a DEF AlertsTypeOK, RoundsOf, AlertsOf
  <2>12. ASSUME NEW q \in Rules PROVE firings'[q] = Cardinality(Raised(q)') + Cardinality(Raising(q)')
    <3>1. Cardinality(Raised(q)) \in Nat /\ Cardinality(Raising(q)) \in Nat
      BY <1>b, FS_CardinalityType
    <3> QED  BY <3>1, <2>1, <2>7, <2>10, <1>b
  <2> QED  BY <2>1, <2>5, <2>11, <2>12, <1>a, <1>b DEF AlertsInv, AlertsSpaced, Raised, Raising
<1>8. ASSUME NEW i \in AlertIds, NEW s \in {"acknowledged", "resolved"}, SetAlert(i, s) PROVE AlertsInv'
  <2>1. /\ alerts' = [alerts EXCEPT ![i].status = s]
        /\ UNCHANGED <<rules, above, started, round, sinceFired, firings, hasty>>
    BY <1>8 DEF SetAlert
  <2> DEFINE new == [alerts[i] EXCEPT !.status = s]
  <2>2. AlertIds = 1 .. Len(alerts) /\ Len(alerts) \in Nat /\ alerts[i] \in AlertsOf
    <3>1. AlertIds = 1 .. Len(alerts) /\ Len(alerts) \in Nat
      BY <1>a DEF AlertIds
    <3>2. i \in 1 .. Len(alerts)
      BY <3>1
    <3> QED  BY <3>1, <3>2, <1>a
  <2>3. new \in AlertsOf /\ new.rule = alerts[i].rule
    BY <2>2 DEF AlertsOf
  <2>4. alerts' = [alerts EXCEPT ![i] = new]
    BY <2>1
  <2> HIDE DEF new
  <2>5. /\ alerts' \in Seq(AlertsOf) /\ AlertIds' = AlertIds
        /\ \A j \in AlertIds : alerts'[j].rule = alerts[j].rule
    BY <2>2, <2>3, <2>4, <1>a DEF AlertIds
  <2>6. AlertsTypeOK'
    BY <2>1, <2>5, <1>a DEF AlertsTypeOK, RoundsOf, AlertsOf
  <2> QED  BY <2>1, <2>5, <2>6, <1>b, QuietStep
<1>9. CASE UNCHANGED alertsVars
  <2>1. AlertsTypeOK'
    BY <1>9 DEF alertsVars, AlertsInv, AlertsSpaced, AlertsTypeOK
  <2> QED  BY <1>9, <2>1, <1>b, QuietStep DEF alertsVars, AlertIds
<1> QED  BY <1>1, <1>2, <1>3, <1>4, <1>5, <1>6, <1>7, <1>8, <1>9 DEF AlertsNext

(* A rule fires once in its duration at most and each firing is one alert,  *)
(* for any rules and durations and any number of rounds that overlap.       *)
THEOREM AlertsAlwaysSpaced == AlertsSpec => []AlertsSpaced
<1>1. AlertsInit => AlertsInv
  <2> SUFFICES ASSUME AlertsInit PROVE AlertsInv
    OBVIOUS
  <2>1. Never \in 0 .. Never /\ Ended \in RoundsOf /\ Ended.at = "idle"
    BY AlertsAssumption DEF Never, Ended, RoundsOf
  <2>2. AlertIds = {} /\ \A r \in Rules : Raised(r) = {} /\ Raising(r) = {}
    BY <2>1 DEF AlertsInit, AlertIds, Raised, Raising
  <2>3. IsFiniteSet({}) /\ Cardinality({}) = 0
    BY FS_EmptySet
  <2>4. AlertsTypeOK
    <3>1. round \in [Evaluators -> RoundsOf] /\ alerts \in Seq(AlertsOf)
      BY <2>1 DEF AlertsInit
    <3> QED  BY <3>1, <2>1 DEF AlertsInit, AlertsTypeOK, RoundsOf, AlertsOf
  <2>5. \A r \in Rules : firings[r] = Cardinality(Raised(r)) + Cardinality(Raising(r))
    <3>1. \A r \in Rules : Cardinality(Raised(r)) = 0 /\ Cardinality(Raising(r)) = 0
      BY <2>2, <2>3
    <3> QED  BY <3>1 DEF AlertsInit
  <2>6. hasty = {} /\ \A r \in Rules : started[r] = Never
    BY DEF AlertsInit
  <2> QED  BY <2>2, <2>3, <2>4, <2>5, <2>6 DEF AlertsInv, AlertsSpaced, Raised, Raising
<1>2. AlertsInv => AlertsSpaced
  BY DEF AlertsInv
<1> QED  BY <1>1, <1>2, AlertsStep, PTL DEF AlertsSpec

-----------------------------------------------------------------------------
(* CallRecords.  FreeSWITCH sends each event of a channel once, so none is  *)
(* handled twice: what was handled of a channel is a sequence without       *)
(* repetition, and its record grows with it.                                *)
EventNames == {"CHANNEL_CREATE", "CHANNEL_ANSWER", "CHANNEL_HANGUP_COMPLETE"}
SentOf(c) == {Sequence[n] : n \in 1 .. sent[c]}
Rows == [answered : BOOLEAN, ended : BOOLEAN]
Precedes(h, a, b) == \E i, j \in DOMAIN h : i < j /\ h[i] = a /\ h[j] = b

(* What the record of a channel says of what was handled.                   *)
AgreesAt(c) ==
  /\ cdrs[c] \in Rows \cup {NoRow} /\ handled[c] \in Seq(EventNames) /\ IsInjective(handled[c])
  /\ cdrs[c] # NoRow <=> "CHANNEL_CREATE" \in ToSet(handled[c])
  /\ cdrs[c] # NoRow => /\ cdrs[c].answered = Precedes(handled[c], "CHANNEL_CREATE", "CHANNEL_ANSWER")
                        /\ cdrs[c].ended = Precedes(handled[c], "CHANNEL_CREATE", "CHANNEL_HANGUP_COMPLETE")
OnceAt(c) ==
  /\ ToSet(handled[c]) \subseteq SentOf(c)
  /\ \A e \in EventNames : <<c, e>> \in inFlight => e \in SentOf(c) /\ e \notin ToSet(handled[c])
RecordTypes ==
  /\ complete \in BOOLEAN /\ sent \in [Channels -> 0 .. 3] /\ inFlight \subseteq Channels \X EventNames
  /\ cdrs \in [Channels -> Rows \cup {NoRow}] /\ noted \subseteq InStore
  /\ handled \in [Channels -> Seq(EventNames)]
  /\ stats \in [at : {"idle", "counted", "reported"}, total : Nat, active : Nat, since : Nat]
  /\ ~complete => InStore = {}
StatsInv ==
  /\ IsFiniteSet(InStore)
  /\ stats.at = "counted" => Cardinality(InStore) = stats.total + stats.since
  /\ stats.at = "reported" => stats.active <= stats.total + stats.since
RecordsInv ==
  RecordTypes /\ StatsInv /\ \A c \in Channels : AgreesAt(c) /\ OnceAt(c)

LEMMA SequenceFacts ==
  /\ DOMAIN Sequence = 1 .. 3 /\ ToSet(Sequence) = EventNames
  /\ \A i, j \in 1 .. 3 : Sequence[i] = Sequence[j] => i = j
  /\ \A i \in 1 .. 3 : Sequence[i] \in EventNames
BY DEF Sequence, ToSet, EventNames

(* An event is put at the end of what was handled.                          *)
LEMMA AppendOnce ==
  ASSUME NEW h \in Seq(EventNames), NEW e \in EventNames, e \notin ToSet(h), IsInjective(h)
  PROVE  /\ Append(h, e) \in Seq(EventNames) /\ ToSet(Append(h, e)) = ToSet(h) \cup {e}
         /\ IsInjective(Append(h, e))
         /\ Precedes(Append(h, e), "CHANNEL_CREATE", e) <=> "CHANNEL_CREATE" \in ToSet(h)
         /\ \A f \in EventNames : f # e =>
              (Precedes(Append(h, e), "CHANNEL_CREATE", f) <=> Precedes(h, "CHANNEL_CREATE", f))
<1> DEFINE g == Append(h, e)
           n == Len(h)
<1>1. /\ n \in Nat /\ DOMAIN h = 1 .. n /\ DOMAIN g = 1 .. (n + 1) /\ g[n + 1] = e
      /\ \A i \in 1 .. n : g[i] = h[i]
      /\ \A i \in 1 .. n : h[i] # e
      /\ g \in Seq(EventNames)
  BY DEF ToSet
<1> HIDE DEF g, n
<1>2. ToSet(g) = ToSet(h) \cup {e}
  <2>1. \A i \in 1 .. (n + 1) : i \in 1 .. n \/ i = n + 1
    BY <1>1
  <2>2. \A i \in 1 .. n : i \in 1 .. (n + 1)
    BY <1>1
  <2>3. n + 1 \in 1 .. (n + 1)
    BY <1>1
  <2> QED  BY <1>1, <2>1, <2>2, <2>3 DEF ToSet
<1>3. IsInjective(g)
  <2> SUFFICES ASSUME NEW i \in 1 .. (n + 1), NEW j \in 1 .. (n + 1), g[i] = g[j] PROVE i = j
    BY <1>1 DEF IsInjective
  <2> QED  BY <1>1 DEF IsInjective
<1>4. Precedes(g, "CHANNEL_CREATE", e) <=> "CHANNEL_CREATE" \in ToSet(h)
  BY <1>1 DEF Precedes, ToSet
<1>5. ASSUME NEW f \in EventNames, f # e
      PROVE  Precedes(g, "CHANNEL_CREATE", f) <=> Precedes(h, "CHANNEL_CREATE", f)
  BY <1>1, <1>5 DEF Precedes
<1> QED  BY <1>1, <1>2, <1>3, <1>4, <1>5 DEF g

LEMMA RecordsAgree == RecordsInv => CallsRecorded
<1> SUFFICES ASSUME RecordsInv PROVE CallsRecorded
  OBVIOUS
<1>1. CallRecordsTypeOK
  BY SequenceFacts DEF RecordsInv, RecordTypes, CallRecordsTypeOK, AgreesAt, Rows
<1>2. ASSUME NEW c \in Channels
      PROVE  /\ c \in InStore <=> "CHANNEL_CREATE" \in ToSet(handled[c])
             /\ c \in InStore => /\ cdrs[c].answered = After(c, "CHANNEL_ANSWER")
                                 /\ cdrs[c].ended = After(c, "CHANNEL_HANGUP_COMPLETE")
  BY DEF RecordsInv, AgreesAt, InStore, After, Precedes
<1>3. /\ ~complete => InStore = {} /\ noted = {}
      /\ stats.at = "reported" => stats.active <= stats.total + stats.since
  BY DEF RecordsInv, RecordTypes, StatsInv
<1> QED  BY <1>1, <1>2, <1>3 DEF CallsRecorded

(* One event of a channel is handled, and its row is as its statement left  *)
(* it: the other channels are as they were.                                 *)
LEMMA HandledAt ==
  ASSUME RecordsInv, NEW c \in Channels, NEW e \in EventNames, NEW row \in Rows \cup {NoRow},
         <<c, e>> \in inFlight, inFlight' = inFlight \ {<<c, e>>}, UNCHANGED <<complete, sent, noted>>,
         cdrs' = [cdrs EXCEPT ![c] = row], handled' = [handled EXCEPT ![c] = Append(@, e)],
         row # NoRow <=> e = "CHANNEL_CREATE" \/ cdrs[c] # NoRow,
         e = "CHANNEL_CREATE" => complete /\ row = NewRow,
         row # NoRow /\ e = "CHANNEL_ANSWER" => row.answered = TRUE /\ row.ended = cdrs[c].ended,
         row # NoRow /\ e = "CHANNEL_HANGUP_COMPLETE" => row.ended = TRUE /\ row.answered = cdrs[c].answered
  PROVE  /\ \A d \in Channels : AgreesAt(d)' /\ OnceAt(d)'
         /\ cdrs' \in [Channels -> Rows \cup {NoRow}] /\ handled' \in [Channels -> Seq(EventNames)]
         /\ InStore' = IF e = "CHANNEL_CREATE" THEN InStore \cup {c} ELSE InStore
<1>1. /\ AgreesAt(c) /\ OnceAt(c) /\ cdrs \in [Channels -> Rows \cup {NoRow}]
      /\ handled \in [Channels -> Seq(EventNames)]
  BY DEF RecordsInv, RecordTypes
<1>2. /\ handled[c] \in Seq(EventNames) /\ e \notin ToSet(handled[c]) /\ IsInjective(handled[c])
  BY <1>1 DEF AgreesAt, OnceAt
<1> DEFINE h == Append(handled[c], e)
<1>3. /\ h \in Seq(EventNames) /\ ToSet(h) = ToSet(handled[c]) \cup {e} /\ IsInjective(h)
      /\ Precedes(h, "CHANNEL_CREATE", e) <=> "CHANNEL_CREATE" \in ToSet(handled[c])
      /\ \A f \in EventNames : f # e =>
           (Precedes(h, "CHANNEL_CREATE", f) <=> Precedes(handled[c], "CHANNEL_CREATE", f))
  BY <1>2, AppendOnce
<1>4. /\ handled'[c] = h /\ cdrs'[c] = row
      /\ \A d \in Channels : d # c => handled'[d] = handled[d] /\ cdrs'[d] = cdrs[d]
      /\ cdrs' \in [Channels -> Rows \cup {NoRow}] /\ handled' \in [Channels -> Seq(EventNames)]
  BY <1>1, <1>3
<1> HIDE DEF h
<1>5. AgreesAt(c)'
  <2>1. /\ cdrs[c] # NoRow <=> "CHANNEL_CREATE" \in ToSet(handled[c])
        /\ cdrs[c] # NoRow => /\ cdrs[c].answered = Precedes(handled[c], "CHANNEL_CREATE", "CHANNEL_ANSWER")
                              /\ cdrs[c].ended = Precedes(handled[c], "CHANNEL_CREATE", "CHANNEL_HANGUP_COMPLETE")
    BY <1>1 DEF AgreesAt
  <2>2. row # NoRow <=> "CHANNEL_CREATE" \in ToSet(h)
    BY <2>1, <1>2, <1>3
  <2>3. ASSUME row # NoRow
        PROVE  /\ row.answered = Precedes(h, "CHANNEL_CREATE", "CHANNEL_ANSWER")
               /\ row.ended = Precedes(h, "CHANNEL_CREATE", "CHANNEL_HANGUP_COMPLETE")
    <3>1. CASE e = "CHANNEL_CREATE"
      <4>1. row.answered = FALSE /\ row.ended = FALSE
        BY <3>1 DEF NewRow
      <4>2. \A f \in EventNames : ~Precedes(handled[c], "CHANNEL_CREATE", f)
        BY <3>1, <1>2 DEF Precedes, ToSet
      <4>3. /\ ~Precedes(h, "CHANNEL_CREATE", "CHANNEL_ANSWER")
            /\ ~Precedes(h, "CHANNEL_CREATE", "CHANNEL_HANGUP_COMPLETE")
        BY <3>1, <4>2, <1>3 DEF EventNames
      <4>4. \A f : Precedes(h, "CHANNEL_CREATE", f) \in BOOLEAN
        BY DEF Precedes
      <4> QED  BY <4>1, <4>3, <4>4
    <3>2. CASE e = "CHANNEL_ANSWER"
      <4>1. cdrs[c] # NoRow /\ row.answered = TRUE /\ row.ended = cdrs[c].ended
        BY <3>2, <2>3
      <4>2. Precedes(h, "CHANNEL_CREATE", "CHANNEL_ANSWER")
        BY <3>2, <4>1, <2>1, <1>3
      <4>3. Precedes(h, "CHANNEL_CREATE", "CHANNEL_HANGUP_COMPLETE")
              <=> Precedes(handled[c], "CHANNEL_CREATE", "CHANNEL_HANGUP_COMPLETE")
        BY <3>2, <1>3 DEF EventNames
      <4>4. \A g, f : Precedes(g, "CHANNEL_CREATE", f) \in BOOLEAN
        BY DEF Precedes
      <4> QED  BY <4>1, <4>2, <4>3, <4>4, <2>1
    <3>3. CASE e = "CHANNEL_HANGUP_COMPLETE"
      <4>1. cdrs[c] # NoRow /\ row.ended = TRUE /\ row.answered = cdrs[c].answered
        BY <3>3, <2>3
      <4>2. Precedes(h, "CHANNEL_CREATE", "CHANNEL_HANGUP_COMPLETE")
        BY <3>3, <4>1, <2>1, <1>3
      <4>3. Precedes(h, "CHANNEL_CREATE", "CHANNEL_ANSWER")
              <=> Precedes(handled[c], "CHANNEL_CREATE", "CHANNEL_ANSWER")
        BY <3>3, <1>3 DEF EventNames
      <4>4. \A g, f : Precedes(g, "CHANNEL_CREATE", f) \in BOOLEAN
        BY DEF Precedes
      <4> QED  BY <4>1, <4>2, <4>3, <4>4, <2>1
    <3> QED  BY <3>1, <3>2, <3>3 DEF EventNames
  <2> QED  BY <2>2, <2>3, <1>3, <1>4 DEF AgreesAt
<1>6. OnceAt(c)'
  BY <1>1, <1>3, <1>4 DEF OnceAt, SentOf
<1>7. ASSUME NEW d \in Channels, d # c PROVE AgreesAt(d)' /\ OnceAt(d)'
  <2>1. AgreesAt(d) /\ OnceAt(d) /\ handled'[d] = handled[d] /\ cdrs'[d] = cdrs[d]
    BY <1>4, <1>7 DEF RecordsInv
  <2>2. \A f \in EventNames : <<d, f>> \in inFlight' => <<d, f>> \in inFlight
    OBVIOUS
  <2> QED  BY <2>1, <2>2 DEF AgreesAt, OnceAt, SentOf
<1>8. InStore' = IF e = "CHANNEL_CREATE" THEN InStore \cup {c} ELSE InStore
  BY <1>4 DEF InStore
<1> QED  BY <1>4, <1>5, <1>6, <1>7, <1>8

LEMMA HandleStep ==
  ASSUME RecordsInv, NEW c \in Channels, NEW e \in EventNames, HandleEvent(c, e)
  PROVE  RecordsInv'
<1>0. /\ cdrs \in [Channels -> Rows \cup {NoRow}] /\ cdrs[c] \in Rows \cup {NoRow}
      /\ NewRow \in Rows /\ NewRow # NoRow /\ inFlight \subseteq Channels \X EventNames
  <2>1. /\ cdrs \in [Channels -> Rows \cup {NoRow}] /\ inFlight \subseteq Channels \X EventNames
    BY DEF RecordsInv, RecordTypes
  <2>2. NewRow \in Rows
    BY DEF Rows, NewRow
  <2>3. NewRow # NoRow
    BY <2>2, CallRecordsAssumption DEF Rows
  <2> QED  BY <2>1, <2>2, <2>3
<1>1. /\ <<c, e>> \in inFlight /\ inFlight' = inFlight \ {<<c, e>>} /\ UNCHANGED <<complete, sent, noted>>
  BY DEF HandleEvent
<1> DEFINE Kept(r) == /\ \A d \in Channels : AgreesAt(d)' /\ OnceAt(d)'
                      /\ cdrs' \in [Channels -> Rows \cup {NoRow}]
                      /\ handled' \in [Channels -> Seq(EventNames)]
                      /\ InStore' = IF r THEN InStore \cup {c} ELSE InStore
<1>2. CASE e = "CHANNEL_CREATE" /\ OnCreate(c)
  <2>1. /\ complete /\ cdrs' = [cdrs EXCEPT ![c] = NewRow]
        /\ handled' = [handled EXCEPT ![c] = Append(@, e)]
        /\ stats' = IF stats.at = "counted" /\ cdrs[c] = NoRow
                    THEN [stats EXCEPT !.since = @ + 1] ELSE stats
    BY <1>2 DEF OnCreate, CreateCDR
  <2>2. Kept(TRUE)
    BY <1>0, <1>1, <1>2, <2>1, HandledAt
  <2>3. c \in InStore <=> cdrs[c] # NoRow
    BY DEF InStore
  <2>4. IsFiniteSet(InStore)' /\ Cardinality(InStore)' =
          IF cdrs[c] = NoRow THEN Cardinality(InStore) + 1 ELSE Cardinality(InStore)
    BY <2>2, <2>3, FS_AddElement DEF RecordsInv, StatsInv
  <2>5. /\ stats' \in [at : {"idle", "counted", "reported"}, total : Nat, active : Nat, since : Nat]
        /\ StatsInv'
    <3>1. /\ stats \in [at : {"idle", "counted", "reported"}, total : Nat, active : Nat, since : Nat]
          /\ IsFiniteSet(InStore)
      BY DEF RecordsInv, RecordTypes, StatsInv
    <3>2. /\ stats.at = "counted" => Cardinality(InStore) = stats.total + stats.since
          /\ stats.at = "reported" => stats.active <= stats.total + stats.since
      BY DEF RecordsInv, StatsInv
    <3>3. CASE stats.at = "counted" /\ cdrs[c] = NoRow
      <4>1. stats' = [stats EXCEPT !.since = stats.since + 1]
        BY <3>3, <2>1
      <4>2. /\ stats' \in [at : {"idle", "counted", "reported"}, total : Nat, active : Nat, since : Nat]
            /\ stats'.at = "counted" /\ stats'.total = stats.total /\ stats'.since = stats.since + 1
        BY <3>1, <3>3, <4>1
      <4>3. Cardinality(InStore)' = stats'.total + stats'.since
        BY <3>1, <3>2, <3>3, <4>2, <2>4
      <4> QED  BY <4>2, <4>3, <2>4 DEF StatsInv
    <3>4. CASE ~(stats.at = "counted" /\ cdrs[c] = NoRow)
      <4>1. stats' = stats
        BY <3>4, <2>1
      <4> QED  BY <4>1, <3>1, <3>2, <3>4, <2>4 DEF StatsInv
    <3> QED  BY <3>3, <3>4
  <2> QED  BY <1>0, <1>1, <2>1, <2>2, <2>5 DEF RecordsInv, RecordTypes
<1>3. CASE e \in {"CHANNEL_ANSWER", "CHANNEL_HANGUP_COMPLETE"} /\ UNCHANGED stats /\ Kept(FALSE)
  BY <1>0, <1>1, <1>3 DEF RecordsInv, RecordTypes, StatsInv
<1>4. CASE e = "CHANNEL_ANSWER" /\ OnAnswer(c)
  <2> DEFINE row == IF cdrs[c] = NoRow THEN NoRow ELSE [cdrs[c] EXCEPT !["answered"] = TRUE]
  <2>1. /\ cdrs' = [cdrs EXCEPT ![c] = row] /\ handled' = [handled EXCEPT ![c] = Append(@, e)]
        /\ UNCHANGED stats
    BY <1>4, <1>0 DEF OnAnswer, UpdateCDR
  <2>2. /\ row \in Rows \cup {NoRow}
        /\ row # NoRow <=> cdrs[c] # NoRow
        /\ row # NoRow => row.answered = TRUE /\ row.ended = cdrs[c].ended
    BY <1>0, CallRecordsAssumption DEF Rows
  <2> HIDE DEF row
  <2>3. Kept(FALSE)
    <3>1. PICK r \in Rows \cup {NoRow} : r = row
      BY <2>2
    <3>2. /\ cdrs' = [cdrs EXCEPT ![c] = r] /\ handled' = [handled EXCEPT ![c] = Append(@, e)]
          /\ r # NoRow <=> e = "CHANNEL_CREATE" \/ cdrs[c] # NoRow
      BY <3>1, <2>1, <2>2, <1>4
    <3>3. /\ e = "CHANNEL_CREATE" => complete /\ r = NewRow
          /\ r # NoRow /\ e = "CHANNEL_ANSWER" => r.answered = TRUE /\ r.ended = cdrs[c].ended
          /\ r # NoRow /\ e = "CHANNEL_HANGUP_COMPLETE" => r.ended = TRUE /\ r.answered = cdrs[c].answered
      BY <3>1, <2>2, <1>4
    <3>4. /\ \A d \in Channels : AgreesAt(d)' /\ OnceAt(d)'
          /\ cdrs' \in [Channels -> Rows \cup {NoRow}] /\ handled' \in [Channels -> Seq(EventNames)]
          /\ InStore' = IF e = "CHANNEL_CREATE" THEN InStore \cup {c} ELSE InStore
      BY <1>1, <3>2, <3>3, HandledAt
    <3> QED  BY <3>4, <1>4
  <2> QED  BY <1>3, <1>4, <2>1, <2>3
<1>5. CASE e = "CHANNEL_HANGUP_COMPLETE" /\ OnHangup(c)
  <2> DEFINE row == IF cdrs[c] = NoRow THEN NoRow ELSE [cdrs[c] EXCEPT !["ended"] = TRUE]
  <2>1. /\ cdrs' = [cdrs EXCEPT ![c] = row] /\ handled' = [handled EXCEPT ![c] = Append(@, e)]
        /\ UNCHANGED stats
    BY <1>5, <1>0 DEF OnHangup, UpdateCDR
  <2>2. /\ row \in Rows \cup {NoRow}
        /\ row # NoRow <=> cdrs[c] # NoRow
        /\ row # NoRow => row.ended = TRUE /\ row.answered = cdrs[c].answered
    BY <1>0, CallRecordsAssumption DEF Rows
  <2> HIDE DEF row
  <2>3. Kept(FALSE)
    <3>1. PICK r \in Rows \cup {NoRow} : r = row
      BY <2>2
    <3>2. /\ cdrs' = [cdrs EXCEPT ![c] = r] /\ handled' = [handled EXCEPT ![c] = Append(@, e)]
          /\ r # NoRow <=> e = "CHANNEL_CREATE" \/ cdrs[c] # NoRow
      BY <3>1, <2>1, <2>2, <1>5
    <3>3. /\ e = "CHANNEL_CREATE" => complete /\ r = NewRow
          /\ r # NoRow /\ e = "CHANNEL_ANSWER" => r.answered = TRUE /\ r.ended = cdrs[c].ended
          /\ r # NoRow /\ e = "CHANNEL_HANGUP_COMPLETE" => r.ended = TRUE /\ r.answered = cdrs[c].answered
      BY <3>1, <2>2, <1>5
    <3>4. /\ \A d \in Channels : AgreesAt(d)' /\ OnceAt(d)'
          /\ cdrs' \in [Channels -> Rows \cup {NoRow}] /\ handled' \in [Channels -> Seq(EventNames)]
          /\ InStore' = IF e = "CHANNEL_CREATE" THEN InStore \cup {c} ELSE InStore
      BY <1>1, <3>2, <3>3, HandledAt
    <3> QED  BY <3>4, <1>5
  <2> QED  BY <1>3, <1>5, <2>1, <2>3
<1>6. CASE UNCHANGED <<cdrs, handled, stats>>
  <2>1. InStore' = InStore
    BY <1>6 DEF InStore
  <2>2. \A d \in Channels : AgreesAt(d)' /\ OnceAt(d)'
    BY <1>1, <1>6 DEF RecordsInv, AgreesAt, OnceAt, SentOf
  <2> QED  BY <1>0, <1>1, <1>6, <2>1, <2>2 DEF RecordsInv, RecordTypes, StatsInv
<1> QED  BY <1>2, <1>4, <1>5, <1>6 DEF HandleEvent

(* A call has a record iff its CREATE was stored, which says what came after*)
(* it, and the statistics count no more than there was: for any channels    *)
(* and any events lost, late or failed.                                     *)
THEOREM CallsAlwaysRecorded == CallRecordsSpec => []CallsRecorded
<1>1. CallRecordsInit => RecordsInv
  <2> SUFFICES ASSUME CallRecordsInit PROVE RecordsInv
    OBVIOUS
  <2>1. InStore = {} /\ IsFiniteSet({})
    BY FS_EmptySet DEF CallRecordsInit, InStore
  <2>2. \A c \in Channels : cdrs[c] = NoRow /\ handled[c] = <<>> /\ ToSet(handled[c]) = {}
    BY DEF CallRecordsInit, ToSet
  <2>3. \A c \in Channels : AgreesAt(c) /\ OnceAt(c)
    BY <2>2 DEF AgreesAt, OnceAt, CallRecordsInit, IsInjective
  <2> QED  BY <2>1, <2>2, <2>3 DEF CallRecordsInit, RecordsInv, RecordTypes, StatsInv, NotCounting
<1>2. RecordsInv /\ [CallRecordsNext]_callRecordsVars => RecordsInv'
  <2> SUFFICES ASSUME RecordsInv, [CallRecordsNext]_callRecordsVars PROVE RecordsInv'
    OBVIOUS
  <2>1. ASSUME NEW c \in Channels, Send(c) PROVE RecordsInv'
    <3>1. PICK n \in sent[c] + 1 .. 3 :
            /\ sent' = [sent EXCEPT ![c] = n] /\ inFlight' = inFlight \cup {<<c, Sequence[n]>>}
            /\ UNCHANGED <<complete, cdrs, noted, handled, stats>>
      BY <2>1 DEF Send
    <3>2. sent \in [Channels -> 0 .. 3] /\ inFlight \subseteq Channels \X EventNames
      BY DEF RecordsInv, RecordTypes
    <3>3. /\ n \in 1 .. 3 /\ sent[c] \in 0 .. 3 /\ n > sent[c] /\ Sequence[n] \in EventNames
          /\ sent' \in [Channels -> 0 .. 3] /\ inFlight' \subseteq Channels \X EventNames
      BY <3>1, <3>2, SequenceFacts
    <3>4. Sequence[n] \notin SentOf(c)
      BY <3>3, SequenceFacts DEF SentOf
    <3>5. SentOf(c) \subseteq SentOf(c)' /\ Sequence[n] \in SentOf(c)'
      BY <3>1, <3>2, <3>3 DEF SentOf
    <3>6. ASSUME NEW d \in Channels PROVE AgreesAt(d)' /\ OnceAt(d)'
      <4>1. AgreesAt(d) /\ OnceAt(d)
        BY DEF RecordsInv
      <4>2. AgreesAt(d)'
        BY <4>1, <3>1 DEF AgreesAt
      <4>3. CASE d = c
        <5>1. Sequence[n] \notin ToSet(handled[c])
          BY <4>1, <4>3, <3>4 DEF OnceAt
        <5>2. ASSUME NEW f \in EventNames, <<c, f>> \in inFlight'
              PROVE  f \in SentOf(c)' /\ f \notin ToSet(handled[c])
          <6>1. CASE <<c, f>> \in inFlight
            BY <6>1, <4>1, <4>3, <3>5 DEF OnceAt
          <6>2. CASE <<c, f>> = <<c, Sequence[n]>>
            <7>1. f = Sequence[n]
              BY <6>2
            <7> QED  BY <7>1, <5>1, <3>5
          <6> QED  BY <5>2, <6>1, <6>2, <3>1
        <5>3. ToSet(handled[c]) \subseteq SentOf(c)' /\ handled' = handled
          BY <4>1, <4>3, <3>1, <3>5 DEF OnceAt
        <5> QED  BY <5>2, <5>3, <4>2, <4>3 DEF OnceAt, SentOf
      <4>4. CASE d # c
        <5>1. SentOf(d)' = SentOf(d)
          BY <4>4, <3>1, <3>2 DEF SentOf
        <5>2. ASSUME NEW f \in EventNames, <<d, f>> \in inFlight' PROVE <<d, f>> \in inFlight
          <6>1. <<d, f>> # <<c, Sequence[n]>>
            BY <4>4
          <6> QED  BY <5>2, <6>1, <3>1
        <5> QED  BY <4>1, <4>2, <5>1, <5>2, <3>1 DEF OnceAt, SentOf
      <4> QED  BY <4>2, <4>3, <4>4
    <3>7. InStore' = InStore
      BY <3>1 DEF InStore
    <3> QED  BY <3>1, <3>3, <3>6, <3>7 DEF RecordsInv, RecordTypes, StatsInv
  <2>2. ASSUME NEW c \in Channels, NEW e, Lose(c, e) PROVE RecordsInv'
    <3>1. inFlight' \subseteq inFlight /\ UNCHANGED <<complete, sent, cdrs, noted, handled, stats>>
      BY <2>2 DEF Lose
    <3>2. \A d \in Channels : AgreesAt(d)' /\ OnceAt(d)'
      BY <3>1 DEF RecordsInv, AgreesAt, OnceAt, SentOf
    <3>3. InStore' = InStore
      BY <3>1 DEF InStore
    <3> QED  BY <3>1, <3>2, <3>3 DEF RecordsInv, RecordTypes, StatsInv
  <2>3. ASSUME NEW c \in Channels, NEW i \in DOMAIN Sequence, HandleEvent(c, Sequence[i]) PROVE RecordsInv'
    BY <2>3, SequenceFacts, HandleStep
  <2>4. ASSUME UNCHANGED <<complete, sent, inFlight, cdrs, handled>>, noted' \subseteq InStore,
               stats' \in [at : {"idle", "counted", "reported"}, total : Nat, active : Nat, since : Nat],
               StatsInv'
        PROVE  RecordsInv'
    <3>1. InStore' = InStore
      BY <2>4 DEF InStore
    <3>2. \A d \in Channels : AgreesAt(d)' /\ OnceAt(d)'
      BY <2>4 DEF RecordsInv, AgreesAt, OnceAt, SentOf
    <3> QED  BY <2>4, <3>1, <3>2 DEF RecordsInv, RecordTypes
  <2>5. /\ noted \subseteq InStore
        /\ stats \in [at : {"idle", "counted", "reported"}, total : Nat, active : Nat, since : Nat]
        /\ IsFiniteSet(InStore) /\ Cardinality(InStore) \in Nat
        /\ IsFiniteSet(Open) /\ Cardinality(Open) \in Nat /\ Cardinality(Open) <= Cardinality(InStore)
    <3>1. Open \in SUBSET InStore /\ IsFiniteSet(InStore)
      BY DEF Open, InStore, RecordsInv, StatsInv
    <3>2. IsFiniteSet(Open) /\ Cardinality(Open) <= Cardinality(InStore)
      BY <3>1, FS_Subset
    <3>3. Cardinality(Open) \in Nat /\ Cardinality(InStore) \in Nat
      BY <3>1, <3>2, FS_CardinalityType
    <3> QED  BY <3>1, <3>2, <3>3 DEF RecordsInv, RecordTypes
  <2>6. ASSUME NEW c \in Channels, AddMetadata(c) PROVE RecordsInv'
    <3>1. /\ UNCHANGED <<complete, sent, inFlight, cdrs, handled, stats>> /\ noted' \subseteq InStore
      BY <2>5, <2>6 DEF AddMetadata
    <3>2. StatsInv'
      BY <3>1 DEF RecordsInv, StatsInv, InStore
    <3> QED  BY <3>1, <3>2, <2>4, <2>5
  <2>7. ASSUME CountTotal PROVE RecordsInv'
    <3>1. /\ UNCHANGED <<complete, sent, inFlight, cdrs, noted, handled>>
          /\ stats' = [at |-> "counted", total |-> Cardinality(InStore), active |-> 0, since |-> 0]
      BY <2>7 DEF CountTotal
    <3>2. InStore' = InStore
      BY <3>1 DEF InStore
    <3>3. stats' \in [at : {"idle", "counted", "reported"}, total : Nat, active : Nat, since : Nat]
      BY <3>1, <2>5
    <3>4. StatsInv'
      BY <3>1, <3>2, <2>5 DEF StatsInv
    <3> QED  BY <3>1, <3>3, <3>4, <2>4, <2>5
  <2>8. ASSUME CountActive PROVE RecordsInv'
    <3>1. /\ UNCHANGED <<complete, sent, inFlight, cdrs, noted, handled>>
          /\ stats.at = "counted" /\ Cardinality(InStore) = stats.total + stats.since
          /\ stats' = [stats EXCEPT !.at = "reported", !.active = Cardinality(Open)]
      BY <2>8 DEF CountActive, RecordsInv, StatsInv
    <3>2. InStore' = InStore
      BY <3>1 DEF InStore
    <3>3. stats' \in [at : {"idle", "counted", "reported"}, total : Nat, active : Nat, since : Nat]
      BY <3>1, <2>5
    <3>4. /\ stats'.at = "reported" /\ stats'.active = Cardinality(Open)
          /\ stats'.total = stats.total /\ stats'.since = stats.since
      BY <3>1, <2>5
    <3>5. StatsInv'
      BY <3>1, <3>2, <3>4, <2>5 DEF StatsInv
    <3> QED  BY <3>1, <3>3, <3>5, <2>4, <2>5
  <2>9. CASE UNCHANGED callRecordsVars
    <3>1. StatsInv'
      BY <2>9 DEF callRecordsVars, RecordsInv, StatsInv, InStore
    <3> QED  BY <2>9, <3>1, <2>4, <2>5 DEF callRecordsVars
  <2> QED  BY <2>1, <2>2, <2>3, <2>6, <2>7, <2>8, <2>9 DEF CallRecordsNext
<1> QED  BY <1>1, <1>2, RecordsAgree, PTL DEF CallRecordsSpec

-----------------------------------------------------------------------------
(* RequestGate.  With Redis a counter outlives every request it let        *)
(* through; in memory those of the last window are the present counter's   *)
(* and those of one counter before it.                                     *)
KeyStates == [is : {"none", "active", "expired", "revoked"}, tenant : KeyTenants]
RequestStates == [at : {"none", "checked"}, key : ApiKeys, lapsed : BOOLEAN]
Counts == [count : 0 .. Limit + 1, left : 0 .. Window]
AgeZero(S) == {s \in S : s[1] = 0}
Older(S) == {<<s[1] + 1, s[2]>> : s \in {s \in S : s[1] + 1 \in Age}}
Counted(S, n) == {s \in S : s[1] <= Window - n.left}
Before(S, n) == {s \in S : s[1] > Window - n.left}

Requests(S) ==
  /\ S \subseteq Age \X Nat /\ IsFiniteSet(S)
  /\ \A s \in S : s[1] = 0 => s[2] < Cardinality(AgeZero(S))
RedisKept(S, n) ==
  /\ Cardinality(S) <= n.count /\ Cardinality(S) <= Limit
  /\ \A s \in S : s[1] + n.left >= Window
MemoryKept(S, n) ==
  /\ n.left = 0 => Cardinality(S) <= Limit /\ \A s \in S : s[1] >= 1
  /\ n.left # 0 => /\ n.count >= 1 /\ Cardinality(Before(S, n)) <= Limit
                   /\ Cardinality(Counted(S, n)) = IF n.count <= Limit THEN n.count ELSE Limit
ServedKept(t) ==
  /\ Requests(served[t])
  /\ limiter = "redis" => RedisKept(served[t], counters[t])
  /\ limiter = "memory" => MemoryKept(served[t], counters[t])

PassKept(c) ==
  request[c].at = "checked" => (Good(request[c].key) \/ request[c].lapsed = TRUE)

GateInv ==
  /\ limiter \in {"redis", "memory"} /\ accounts \in [KeyTenants -> BOOLEAN]
  /\ apiKeys \in [ApiKeys -> KeyStates]
  /\ request \in [Clients -> RequestStates]
  /\ counters \in [KeyTenants -> Counts]
  /\ served \in [KeyTenants -> SUBSET (Age \X Nat)] /\ refused \in [KeyTenants -> Nat]
  /\ \A t \in KeyTenants : ServedKept(t) /\ (limiter = "memory" => refused[t] >= Limit)
  /\ \A c \in Clients : PassKept(c)

LEMMA ConstantFacts == Limit \in Nat /\ Limit >= 1 /\ Window \in Nat /\ Window >= 1 /\ 0 \in Age
BY GateAssumption DEF Age

(* A tick later there are no more of them, and as many as stay within the  *)
(* window.                                                                 *)
LEMMA OlderCounted ==
  ASSUME NEW S \in SUBSET (Age \X Nat), IsFiniteSet(S)
  PROVE  /\ Older(S) \subseteq Age \X Nat /\ IsFiniteSet(Older(S))
         /\ Cardinality(Older(S)) <= Cardinality(S)
         /\ (\A s \in S : s[1] + 1 \in Age) => Cardinality(Older(S)) = Cardinality(S)
<1> DEFINE R == {s \in S : s[1] + 1 \in Age}
           f == [s \in R |-> <<s[1] + 1, s[2]>>]
<1>1. R \in SUBSET S /\ IsFiniteSet(R) /\ Cardinality(R) <= Cardinality(S)
  BY FS_Subset
<1>2. Older(S) \subseteq Age \X Nat
  BY DEF Older
<1>3. \A s \in R : s \in Age \X Nat /\ s = <<s[1], s[2]>> /\ s[1] \in Nat
  BY <1>1, ConstantFacts DEF Age
<1>4. f \in [R -> Older(S)] /\ \A o \in Older(S) : \E s \in R : f[s] = o
  BY DEF Older
<1>5. ASSUME NEW r \in R, NEW s \in R, f[r] = f[s] PROVE r = s
  <2>1. r[1] + 1 = s[1] + 1 /\ r[2] = s[2]
    BY <1>5
  <2>2. r[1] = s[1]
    BY <1>3, <2>1
  <2> QED  BY <1>3, <2>1, <2>2
<1>6. f \in Bijection(R, Older(S))
  BY <1>4, <1>5 DEF Bijection, Injection, Surjection, IsInjective
<1>7. IsFiniteSet(Older(S)) /\ Cardinality(Older(S)) = Cardinality(R)
  BY <1>1, <1>6, FS_Bijection DEF ExistsBijection
<1>8. (\A s \in S : s[1] + 1 \in Age) => R = S
  OBVIOUS
<1> QED  BY <1>1, <1>2, <1>7, <1>8

(* A request let through is one more, in this tick.                        *)
LEMMA OneMore ==
  ASSUME NEW S, Requests(S)
  PROVE  LET T == S \cup {<<0, Cardinality(AgeZero(S))>>}
         IN  Requests(T) /\ <<0, Cardinality(AgeZero(S))>> \notin S
             /\ Cardinality(T) = Cardinality(S) + 1
<1> DEFINE k == Cardinality(AgeZero(S))
           x == <<0, k>>
           T == S \cup {x}
<1>1. S \in SUBSET (Age \X Nat) /\ IsFiniteSet(S) /\ IsFiniteSet(AgeZero(S)) /\ k \in Nat
  <2>1. AgeZero(S) \in SUBSET S /\ IsFiniteSet(S) /\ S \in SUBSET (Age \X Nat)
    BY DEF Requests, AgeZero
  <2> QED  BY <2>1, FS_Subset, FS_CardinalityType
<1>2. \A s \in S : s[1] = 0 => s[2] < k
  BY DEF Requests
<1>3. x \notin S
  BY <1>1, <1>2
<1>4. IsFiniteSet(T) /\ Cardinality(T) = Cardinality(S) + 1
  BY <1>1, <1>3, FS_AddElement
<1>5. AgeZero(T) = AgeZero(S) \cup {x} /\ x \notin AgeZero(S)
  BY <1>3 DEF AgeZero
<1>6. Cardinality(AgeZero(T)) = k + 1
  BY <1>1, <1>5, FS_AddElement
<1>7. T \subseteq Age \X Nat
  BY <1>1, ConstantFacts
<1>8. \A s \in T : s[1] = 0 => s[2] < k + 1
  <2>1. \A s \in S : s[1] = 0 => s[2] \in Nat /\ s[2] < k
    BY <1>1, <1>2
  <2> QED  BY <1>1, <2>1
<1> QED  BY <1>3, <1>4, <1>6, <1>7, <1>8 DEF Requests

LEMMA CardinalityFacts ==
  ASSUME NEW S, Requests(S), NEW n \in Counts
  PROVE  /\ S \in SUBSET (Age \X Nat) /\ IsFiniteSet(S) /\ Cardinality(S) \in Nat
         /\ IsFiniteSet(Counted(S, n)) /\ Cardinality(Counted(S, n)) \in Nat
         /\ IsFiniteSet(Before(S, n)) /\ Cardinality(Before(S, n)) \in Nat
         /\ Cardinality(S) = Cardinality(Counted(S, n)) + Cardinality(Before(S, n))
         /\ \A s \in S : s[1] \in Nat /\ s[1] < Window
<1>1. S \in SUBSET (Age \X Nat) /\ IsFiniteSet(S)
  BY DEF Requests
<1>2. \A s \in S : s[1] \in Nat /\ s[1] < Window
  BY <1>1, ConstantFacts DEF Age
<1>3. Counted(S, n) \in SUBSET S /\ Before(S, n) \in SUBSET S
  BY DEF Counted, Before
<1>4. IsFiniteSet(Counted(S, n)) /\ IsFiniteSet(Before(S, n))
  BY <1>1, <1>3, FS_Subset
<1>5. n.left \in Nat
  BY ConstantFacts DEF Counts
<1>6. Counted(S, n) \cup Before(S, n) = S /\ Counted(S, n) \cap Before(S, n) = {}
  BY <1>2, <1>5, ConstantFacts DEF Counted, Before
<1>7. /\ Cardinality(S) \in Nat /\ Cardinality(Counted(S, n)) \in Nat
      /\ Cardinality(Before(S, n)) \in Nat
  BY <1>1, <1>4, FS_CardinalityType
<1>8. Cardinality(Counted(S, n) \cup Before(S, n)) = Cardinality(Counted(S, n)) + Cardinality(Before(S, n))
                                                     - Cardinality(Counted(S, n) \cap Before(S, n))
  BY <1>4, FS_Union
<1>9. Cardinality(S) = Cardinality(Counted(S, n)) + Cardinality(Before(S, n))
  <2>1. Cardinality(S) = Cardinality(Counted(S, n)) + Cardinality(Before(S, n)) - 0
    BY <1>6, <1>8, FS_EmptySet
  <2> QED  BY <1>7, <2>1
<1> QED  BY <1>1, <1>2, <1>4, <1>7, <1>9

LEMMA InvImpliesKept == GateInv => GateKept
<1> SUFFICES ASSUME GateInv PROVE GateKept
  OBVIOUS
<1>1. GateTypeOK
  BY DEF GateInv, GateTypeOK, Counts, KeyStates, RequestStates
<1>2. ASSUME NEW t \in KeyTenants
      PROVE  Cardinality(served[t]) <= (IF limiter = "redis" THEN Limit ELSE 2 * Limit)
  <2>1. ServedKept(t) /\ counters[t] \in Counts /\ limiter \in {"redis", "memory"}
    BY DEF GateInv
  <2>2. CASE limiter = "redis"
    BY <2>1, <2>2 DEF ServedKept, RedisKept
  <2>3. CASE limiter = "memory"
    <3>1. Requests(served[t]) /\ MemoryKept(served[t], counters[t])
      BY <2>1, <2>3 DEF ServedKept
    <3>2. counters[t].count \in Nat /\ counters[t].left \in Nat
      BY <2>1, ConstantFacts DEF Counts
    <3> QED  BY <2>1, <2>3, <3>1, <3>2, CardinalityFacts, ConstantFacts DEF MemoryKept
  <2> QED  BY <2>1, <2>2, <2>3
<1>3. ASSUME NEW c \in Clients, request[c].at = "checked"
      PROVE  Good(request[c].key) \/ request[c].lapsed
  BY <1>3 DEF GateInv, PassKept
<1>4. \A t \in KeyTenants : limiter = "memory" => refused[t] >= Limit
  BY DEF GateInv
<1> QED  BY <1>1, <1>2, <1>3, <1>4 DEF GateKept

(* A request stays good as long as its key does.                           *)
LEMMA PassStays ==
  ASSUME NEW c, PassKept(c), request'[c] = request[c],
         Good(request[c].key) => Good(request[c].key)'
  PROVE  PassKept(c)'
BY DEF PassKept

(* Redis: the counter is one up, and lives as long as what it let through. *)
LEMMA RedisStep ==
  ASSUME NEW S, Requests(S), NEW n \in Counts, RedisKept(S, n), NEW m \in Counts,
         m.left = Window, m.count = IF n.count + 1 > Limit + 1 THEN Limit + 1 ELSE n.count + 1
  PROVE  /\ n.count + 1 <= Limit => RedisKept(S \cup {<<0, Cardinality(AgeZero(S))>>}, m)
         /\ n.count + 1 > Limit => RedisKept(S, m)
<1>1. n.count \in Nat /\ Cardinality(S) \in Nat /\ \A s \in S : s[1] \in Nat
  BY CardinalityFacts, ConstantFacts DEF Counts
<1> DEFINE T == S \cup {<<0, Cardinality(AgeZero(S))>>}
<1>2. Cardinality(T) = Cardinality(S) + 1
  BY OneMore
<1>3. \A s \in T : s[1] + m.left >= Window
  BY <1>1, ConstantFacts
<1> HIDE DEF T
<1>4. ASSUME n.count + 1 <= Limit PROVE RedisKept(T, m)
  BY <1>1, <1>2, <1>3, <1>4, ConstantFacts DEF RedisKept
<1>5. ASSUME n.count + 1 > Limit PROVE RedisKept(S, m)
  BY <1>1, <1>5, ConstantFacts DEF RedisKept
<1> QED  BY <1>4, <1>5 DEF T

(* In memory: a new counter when there was none, with what the one before  *)
(* let through; else one more of the same counter.                         *)
LEMMA MemoryStep ==
  ASSUME NEW S, Requests(S), NEW n \in Counts, MemoryKept(S, n), NEW m \in Counts,
         NEW k \in Nat, k = IF n.left = 0 THEN 1 ELSE n.count + 1,
         m.left = IF n.left = 0 THEN Window ELSE n.left,
         m.count = IF k > Limit + 1 THEN Limit + 1 ELSE k
  PROVE  /\ k <= Limit => MemoryKept(S \cup {<<0, Cardinality(AgeZero(S))>>}, m)
         /\ k > Limit => MemoryKept(S, m) /\ Cardinality(S) >= Limit
<1> DEFINE x == <<0, Cardinality(AgeZero(S))>>
           T == S \cup {x}
<1>1. /\ n.count \in Nat /\ n.left \in Nat /\ n.left <= Window
      /\ Cardinality(S) \in Nat /\ \A s \in S : s[1] \in Nat /\ s[1] < Window
      /\ IsFiniteSet(Counted(S, n)) /\ Cardinality(Counted(S, n)) \in Nat
      /\ IsFiniteSet(Before(S, n)) /\ Cardinality(Before(S, n)) \in Nat
      /\ Cardinality(S) = Cardinality(Counted(S, n)) + Cardinality(Before(S, n))
  BY CardinalityFacts, ConstantFacts DEF Counts
<1>2. x \notin S /\ x[1] = 0
  BY OneMore
<1> HIDE DEF x
<1>3. CASE n.left = 0
  <2>1. k = 1 /\ m.left = Window /\ m.count = 1 /\ Cardinality(S) <= Limit /\ \A s \in S : s[1] >= 1
    BY <1>3, ConstantFacts DEF MemoryKept
  <2>2. Counted(T, m) = {x} /\ Before(T, m) = S
    BY <1>1, <1>2, <2>1, ConstantFacts DEF Counted, Before
  <2>3. Cardinality({x}) = 1
    BY FS_Singleton
  <2>4. MemoryKept(T, m)
    <3>1. m.left # 0 /\ m.count <= Limit
      BY <2>1, ConstantFacts
    <3>2. Cardinality(Counted(T, m)) = 1 /\ Cardinality(Before(T, m)) <= Limit /\ m.count = 1
      BY <2>1, <2>2, <2>3
    <3> HIDE DEF T
    <3> QED  BY <3>1, <3>2 DEF MemoryKept
  <2> QED  BY <2>1, <2>4, ConstantFacts DEF x
<1>4. CASE n.left # 0
  <2>1. /\ k = n.count + 1 /\ m.left = n.left /\ n.count >= 1 /\ Cardinality(Before(S, n)) <= Limit
        /\ Cardinality(Counted(S, n)) = IF n.count <= Limit THEN n.count ELSE Limit
    BY <1>4 DEF MemoryKept
  <2>2. Counted(S, m) = Counted(S, n) /\ Before(S, m) = Before(S, n)
    BY <2>1 DEF Counted, Before
  <2>3. Counted(T, m) = Counted(S, n) \cup {x} /\ Before(T, m) = Before(S, n)
    BY <1>1, <1>2, <2>1, ConstantFacts DEF Counted, Before
  <2>4. x \notin Counted(S, n)
    BY <1>2 DEF Counted
  <2>5. Cardinality(Counted(T, m)) = Cardinality(Counted(S, n)) + 1
    BY <1>1, <2>3, <2>4, FS_AddElement, ZenonT(40)
  <2>6. ASSUME k <= Limit PROVE MemoryKept(T, m)
    <3>1. m.count = k /\ n.count <= Limit /\ Cardinality(Counted(T, m)) = k
      BY <1>1, <2>1, <2>5, <2>6, ConstantFacts
    <3> QED  BY <1>1, <1>4, <2>1, <2>3, <2>6, <3>1 DEF MemoryKept
  <2>7. ASSUME k > Limit PROVE MemoryKept(S, m) /\ Cardinality(S) >= Limit
    <3>1. n.count >= Limit /\ Cardinality(Counted(S, n)) = Limit /\ m.count > Limit
      BY <1>1, <2>1, <2>7, ConstantFacts
    <3>2. Cardinality(S) >= Limit /\ m.count >= 1
      BY <1>1, <3>1, ConstantFacts
    <3>3. m.count \in Nat /\ ~(m.count <= Limit)
      BY <3>1, ConstantFacts DEF Counts
    <3> QED  BY <1>1, <1>4, <2>1, <2>2, <3>1, <3>2, <3>3 DEF MemoryKept
  <2> QED  BY <2>6, <2>7 DEF x
<1> QED  BY <1>3, <1>4

(* A tick later, with either limiter.                                      *)
LEMMA TickKeeps ==
  ASSUME NEW S, Requests(S), NEW n \in Counts, NEW m,
         m = IF n.left <= 1 THEN [count |-> 0, left |-> 0] ELSE [n EXCEPT !.left = n.left - 1]
  PROVE  /\ m \in Counts /\ Requests(Older(S))
         /\ RedisKept(S, n) => RedisKept(Older(S), m)
         /\ MemoryKept(S, n) => MemoryKept(Older(S), m)
<1>1. /\ n.count \in Nat /\ n.count <= Limit + 1 /\ n.left \in Nat /\ n.left <= Window
      /\ S \in SUBSET (Age \X Nat) /\ IsFiniteSet(S)
      /\ Cardinality(S) \in Nat /\ \A s \in S : s[1] \in Nat /\ s[1] < Window
      /\ IsFiniteSet(Counted(S, n)) /\ Cardinality(Counted(S, n)) \in Nat
      /\ IsFiniteSet(Before(S, n)) /\ Cardinality(Before(S, n)) \in Nat
      /\ Cardinality(S) = Cardinality(Counted(S, n)) + Cardinality(Before(S, n))
  BY CardinalityFacts, ConstantFacts DEF Counts
<1>2. /\ m \in Counts
      /\ n.left <= 1 => m.count = 0 /\ m.left = 0
      /\ n.left > 1 => m.count = n.count /\ m.left = n.left - 1
  BY <1>1, ConstantFacts DEF Counts
<1>3. /\ Older(S) \subseteq Age \X Nat /\ IsFiniteSet(Older(S))
      /\ Cardinality(Older(S)) <= Cardinality(S)
  BY <1>1, OlderCounted
<1>4. Cardinality(Older(S)) \in Nat
  BY <1>3, FS_CardinalityType
<1>5. \A o \in Older(S) : \E s \in S : o[1] = s[1] + 1 /\ s[1] + 1 \in Age
  BY DEF Older
<1>6. \A o \in Older(S) : o[1] \in Nat /\ o[1] >= 1 /\ o[1] < Window
  BY <1>1, <1>5, ConstantFacts DEF Age
<1>7. Requests(Older(S))
  BY <1>3, <1>6 DEF Requests
<1>8. ASSUME RedisKept(S, n) PROVE RedisKept(Older(S), m)
  <2>1. CASE n.left <= 1
    <3>1. \A s \in S : s[1] + n.left >= Window
      BY <1>8 DEF RedisKept
    <3>2. Older(S) = {}
      <4> SUFFICES ASSUME NEW o \in Older(S) PROVE FALSE
        OBVIOUS
      <4>1. PICK s \in S : o[1] = s[1] + 1
        BY <1>5
      <4>2. s[1] + n.left >= Window /\ s[1] \in Nat /\ o[1] < Window
        BY <3>1, <1>1, <1>6
      <4> QED  BY <4>1, <4>2, <1>1, <2>1, ConstantFacts
    <3>3. Cardinality(Older(S)) = 0
      BY <3>2, FS_EmptySet
    <3> QED  BY <1>2, <2>1, <3>2, <3>3, ConstantFacts DEF RedisKept
  <2>2. CASE n.left > 1
    <3>1. Cardinality(S) <= n.count /\ Cardinality(S) <= Limit /\ \A s \in S : s[1] + n.left >= Window
      BY <1>8 DEF RedisKept
    <3>2. \A o \in Older(S) : o[1] + (n.left - 1) >= Window
      BY <1>1, <1>5, <3>1, ConstantFacts
    <3>3. Cardinality(Older(S)) <= n.count /\ Cardinality(Older(S)) <= Limit
      BY <1>1, <1>3, <1>4, <3>1, ConstantFacts
    <3> QED  BY <1>2, <2>2, <3>2, <3>3 DEF RedisKept
  <2> QED  BY <1>1, <2>1, <2>2
<1>9. ASSUME MemoryKept(S, n) PROVE MemoryKept(Older(S), m)
  <2>1. CASE n.left = 0
    BY <1>1, <1>2, <1>3, <1>4, <1>6, <1>9, <2>1, ConstantFacts DEF MemoryKept
  <2>2. CASE n.left = 1
    <3>1. Before(S, n) = {}
      BY <1>1, <2>2, ConstantFacts DEF Before
    <3>2. Cardinality(S) = Cardinality(Counted(S, n)) /\ Cardinality(Counted(S, n)) <= Limit
      BY <1>1, <1>9, <2>2, <3>1, FS_EmptySet, ConstantFacts DEF MemoryKept
    <3>3. Cardinality(Older(S)) <= Limit
      BY <1>1, <1>3, <1>4, <3>2, ConstantFacts
    <3> QED  BY <1>2, <1>6, <2>2, <3>3 DEF MemoryKept
  <2>3. CASE n.left > 1
    <3>1. /\ n.count >= 1 /\ Cardinality(Before(S, n)) <= Limit
          /\ Cardinality(Counted(S, n)) = IF n.count <= Limit THEN n.count ELSE Limit
      BY <1>9, <1>1, <2>3 DEF MemoryKept
    <3>2. Counted(Older(S), m) = Older(Counted(S, n)) /\ Before(Older(S), m) = Older(Before(S, n))
      <4>1. ASSUME NEW s \in S
            PROVE  /\ s[1] <= Window - n.left <=> s[1] + 1 <= Window - m.left
                   /\ s[1] > Window - n.left <=> s[1] + 1 > Window - m.left
        BY <1>1, <1>2, <2>3, ConstantFacts
      <4> QED  BY <4>1 DEF Counted, Before, Older
    <3>3. \A s \in Counted(S, n) : s[1] + 1 \in Age
      BY <1>1, <2>3, ConstantFacts DEF Counted, Age
    <3>4. Counted(S, n) \in SUBSET (Age \X Nat) /\ Before(S, n) \in SUBSET (Age \X Nat)
      BY <1>1 DEF Counted, Before
    <3>5. Cardinality(Older(Counted(S, n))) = Cardinality(Counted(S, n))
      BY <1>1, <3>3, <3>4, OlderCounted
    <3>6. /\ Cardinality(Older(Before(S, n))) <= Cardinality(Before(S, n))
          /\ IsFiniteSet(Older(Before(S, n)))
      BY <1>1, <3>4, OlderCounted
    <3>7. Cardinality(Older(Before(S, n))) \in Nat
      BY <3>6, FS_CardinalityType
    <3>8. Cardinality(Older(Before(S, n))) <= Limit
      BY <1>1, <3>1, <3>6, <3>7, ConstantFacts
    <3> QED  BY <1>1, <1>2, <2>3, <3>1, <3>2, <3>5, <3>8 DEF MemoryKept
  <2> QED  BY <1>1, <2>1, <2>2, <2>3
<1> QED  BY <1>2, <1>7, <1>8, <1>9

(* A request that the limiter counts.                                      *)
LEMMA RateLimitStep ==
  ASSUME GateInv, NEW c \in Clients, RateLimit(c)
  PROVE  GateInv'
<1> DEFINE t == apiKeys[request[c].key].tenant
           n == counters[t]
           new == Allow(t)
           m == [new EXCEPT !.count = IF new.count > Limit + 1 THEN Limit + 1 ELSE new.count]
           S == served[t]
           x == <<0, Cardinality(AgeZero(S))>>
<1>1. /\ limiter \in {"redis", "memory"} /\ counters \in [KeyTenants -> Counts]
      /\ request \in [Clients -> RequestStates]
      /\ served \in [KeyTenants -> SUBSET (Age \X Nat)] /\ refused \in [KeyTenants -> Nat]
      /\ t \in KeyTenants /\ n \in Counts
  BY DEF GateInv, KeyStates, RequestStates
<1>2. ServedKept(t) /\ Requests(S)
  BY <1>1 DEF GateInv, ServedKept
<1>3. /\ request[c].at = "checked" /\ counters' = [counters EXCEPT ![t] = m]
      /\ \/ /\ new.count <= Limit /\ served' = [served EXCEPT ![t] = S \cup {x}] /\ refused' = refused
         \/ /\ ~(new.count <= Limit) /\ served' = served
            /\ refused' = [refused EXCEPT ![t] = Cardinality(S)]
      /\ request' = [request EXCEPT ![c] = NoRequest]
      /\ UNCHANGED <<limiter, accounts, apiKeys>>
  BY DEF RateLimit, OfThisTick, AgeZero
<1>4. n.count \in Nat /\ n.left \in Nat /\ n.count <= Limit + 1 /\ n.left <= Window /\ Cardinality(S) \in Nat
  BY <1>1, <1>2, CardinalityFacts, ConstantFacts DEF Counts
<1>5. /\ new.count \in Nat /\ m \in Counts
      /\ m.count = IF new.count > Limit + 1 THEN Limit + 1 ELSE new.count
      /\ limiter = "redis" => new.count = n.count + 1 /\ m.left = Window
      /\ limiter = "memory" => /\ new.count = IF n.left = 0 THEN 1 ELSE n.count + 1
                               /\ m.left = IF n.left = 0 THEN Window ELSE n.left
  <2>1. CASE limiter = "redis"
    <3>1. new = [count |-> n.count + 1, left |-> Window]
      BY <2>1 DEF Allow, RedisAllow
    <3> HIDE DEF new, n
    <3> QED  BY <2>1, <3>1, <1>4, ConstantFacts DEF Counts
  <2>2. CASE limiter = "memory" /\ n.left = 0
    <3>1. new = [count |-> 1, left |-> Window]
      BY <2>2 DEF Allow, MemoryAllow
    <3> HIDE DEF new, n
    <3> QED  BY <2>2, <3>1, <1>4, ConstantFacts DEF Counts
  <2>3. CASE limiter = "memory" /\ n.left # 0
    <3>1. new = [n EXCEPT !.count = n.count + 1]
      BY <2>3 DEF Allow, MemoryAllow
    <3> HIDE DEF new, n
    <3>2. new.count = n.count + 1 /\ new.left = n.left /\ new = [count |-> n.count + 1, left |-> n.left]
      BY <3>1, <1>1 DEF Counts
    <3> QED  BY <2>3, <3>2, <1>4, ConstantFacts DEF Counts
  <2> QED  BY <1>1, <2>1, <2>2, <2>3
<1> HIDE DEF t, n, new, m, S, x
<1>6. /\ Requests(S \cup {x})
      /\ limiter = "redis" => IF new.count <= Limit THEN RedisKept(S \cup {x}, m) ELSE RedisKept(S, m)
      /\ limiter = "memory" => IF new.count <= Limit THEN MemoryKept(S \cup {x}, m)
                               ELSE MemoryKept(S, m) /\ Cardinality(S) >= Limit
  <2>1. Requests(S \cup {x})
    BY <1>2, OneMore DEF x
  <2>2. ASSUME limiter = "redis"
        PROVE  IF new.count <= Limit THEN RedisKept(S \cup {x}, m) ELSE RedisKept(S, m)
    <3>1. RedisKept(S, n) /\ n \in Counts /\ m \in Counts
      BY <1>1, <1>2, <1>5, <2>2 DEF ServedKept, S, n
    <3>2. /\ n.count + 1 <= Limit => RedisKept(S \cup {x}, m)
          /\ n.count + 1 > Limit => RedisKept(S, m)
      BY <1>2, <1>5, <2>2, <3>1, RedisStep DEF x
    <3> QED  BY <3>2, <1>4, <1>5, <2>2, ConstantFacts
  <2>3. ASSUME limiter = "memory"
        PROVE  IF new.count <= Limit THEN MemoryKept(S \cup {x}, m)
               ELSE MemoryKept(S, m) /\ Cardinality(S) >= Limit
    <3>1. MemoryKept(S, n) /\ n \in Counts /\ m \in Counts
      BY <1>1, <1>2, <1>5, <2>3 DEF ServedKept, S, n
    <3>2. /\ new.count <= Limit => MemoryKept(S \cup {x}, m)
          /\ new.count > Limit => MemoryKept(S, m) /\ Cardinality(S) >= Limit
      BY <1>2, <1>5, <2>3, <3>1, MemoryStep DEF x
    <3> QED  BY <3>2, <1>5, ConstantFacts
  <2> QED  BY <2>1, <2>2, <2>3
<1>7. ASSUME NEW u \in KeyTenants PROVE ServedKept(u)' /\ (limiter' = "memory" => refused'[u] >= Limit)
  <2>1. ServedKept(u) /\ (limiter = "memory" => refused[u] >= Limit)
    BY DEF GateInv
  <2>2. CASE u # t
    <3>1. served'[u] = served[u] /\ counters'[u] = counters[u] /\ refused'[u] = refused[u] /\ limiter' = limiter
      BY <1>1, <1>3, <2>2
    <3> QED  BY <2>1, <3>1 DEF ServedKept
  <2>3. CASE u = t
    <3>1. /\ counters'[u] = m /\ limiter' = limiter
          /\ served'[u] = IF new.count <= Limit THEN S \cup {x} ELSE S
          /\ refused'[u] = IF new.count <= Limit THEN refused[u] ELSE Cardinality(S)
      BY <1>1, <1>3, <2>3 DEF S
    <3> QED  BY <1>2, <1>6, <2>1, <3>1 DEF ServedKept
  <2> QED  BY <2>2, <2>3
<1>8. /\ counters' \in [KeyTenants -> Counts] /\ refused' \in [KeyTenants -> Nat]
      /\ served' \in [KeyTenants -> SUBSET (Age \X Nat)]
  <2>1. S \cup {x} \in SUBSET (Age \X Nat)
    BY <1>6 DEF Requests
  <2> QED  BY <1>1, <1>3, <1>4, <1>5, <2>1
<1>9. NoRequest \in RequestStates /\ NoRequest.at = "none"
  BY GateAssumption DEF NoRequest, RequestStates
<1>10. request' \in [Clients -> RequestStates]
  BY <1>1, <1>3, <1>9
<1>11. ASSUME NEW d \in Clients PROVE PassKept(d)'
  <2>1. CASE d = c
    <3>1. request'[d].at = "none"
      BY <1>1, <1>3, <1>9, <2>1
    <3> QED  BY <3>1 DEF PassKept
  <2>2. CASE d # c
    <3>1. request'[d] = request[d] /\ UNCHANGED <<apiKeys, accounts>> /\ PassKept(d)
      BY <1>1, <1>3, <2>2 DEF GateInv
    <3>2. Good(request[d].key) => Good(request[d].key)'
      BY <3>1 DEF Good
    <3> QED  BY <3>1, <3>2, PassStays
  <2> QED  BY <2>1, <2>2
<1>12. UNCHANGED <<limiter, accounts, apiKeys>> /\ accounts' \in [KeyTenants -> BOOLEAN]
       /\ apiKeys' \in [ApiKeys -> KeyStates]
  BY <1>3 DEF GateInv
<1> QED  BY <1>1, <1>12, <1>7, <1>8, <1>10, <1>11 DEF GateInv

(* A key or a tenant changes state: the requests that pass by it lapse.    *)
LEMMA LapseStep ==
  ASSUME GateInv, NEW keys \in SUBSET ApiKeys, request' = Lapse(keys),
         UNCHANGED <<limiter, counters, served, refused>>,
         accounts' \in [KeyTenants -> BOOLEAN],
         apiKeys' \in [ApiKeys -> KeyStates],
         \A k \in ApiKeys \ keys : Good(k) => Good(k)'
  PROVE  GateInv'
<1>1. \A t \in KeyTenants : ServedKept(t)' /\ (limiter' = "memory" => refused'[t] >= Limit)
  BY DEF GateInv, ServedKept
<1>2. request \in [Clients -> RequestStates]
  BY DEF GateInv
<1>3. ASSUME NEW d \in Clients
      PROVE  /\ request'[d] \in RequestStates
             /\ PassKept(d)'
  <2>1. PassKept(d)
    BY DEF GateInv
  <2>2. request'[d] = IF request[d].at = "checked" /\ request[d].key \in keys
                      THEN [request[d] EXCEPT !.lapsed = TRUE] ELSE request[d]
    BY DEF Lapse
  <2>3. request[d] \in RequestStates
    BY <1>2
  <2>4. CASE request[d].at = "checked" /\ request[d].key \in keys
    BY <2>2, <2>3, <2>4 DEF PassKept, RequestStates
  <2>5. CASE ~(request[d].at = "checked" /\ request[d].key \in keys)
    <3>1. request'[d] = request[d]
      BY <2>2, <2>5
    <3>2. CASE request[d].at # "checked"
      BY <2>3, <3>1, <3>2 DEF PassKept
    <3>3. CASE request[d].at = "checked" /\ request[d].key \notin keys
      <4>1. request[d].key \in ApiKeys \ keys
        BY <2>3, <3>3 DEF RequestStates
      <4> QED  BY <2>1, <2>3, <3>1, <4>1, PassStays
    <3> QED  BY <2>5, <3>2, <3>3
  <2> QED  BY <2>4, <2>5
<1>4. request' \in [Clients -> RequestStates]
  <2>1. request' = [d \in Clients |-> request'[d]]
    BY DEF Lapse
  <2> QED  BY <1>3, <2>1
<1>5. /\ limiter' \in {"redis", "memory"} /\ counters' \in [KeyTenants -> Counts]
      /\ served' \in [KeyTenants -> SUBSET (Age \X Nat)] /\ refused' \in [KeyTenants -> Nat]
  BY DEF GateInv
<1> QED  BY <1>1, <1>3, <1>4, <1>5 DEF GateInv

(* For any limit, window, tenants, keys and requests under way: no more    *)
(* than Limit of a tenant pass in a window with Redis, and twice as many   *)
(* in memory, which refuses only when Limit did; and none passes its check *)
(* with a key that had lapsed.                                             *)
THEOREM GateAlwaysKept == GateSpec => []GateKept
<1>1. GateInit => GateInv
  <2> SUFFICES ASSUME GateInit PROVE GateInv
    OBVIOUS
  <2>1. NoKey \in KeyStates
    BY GateAssumption DEF NoKey, KeyStates
  <2>2. NoRequest \in RequestStates /\ NoRequest.at = "none"
    BY GateAssumption DEF NoRequest, RequestStates
  <2>3. counters \in [KeyTenants -> Counts] /\ served \in [KeyTenants -> SUBSET (Age \X Nat)]
    BY ConstantFacts DEF GateInit, Counts
  <2>4. ASSUME NEW t \in KeyTenants PROVE ServedKept(t)
    <3>1. served[t] = {} /\ counters[t].count = 0 /\ counters[t].left = 0
      BY DEF GateInit
    <3>2. Requests({}) /\ Cardinality({}) = 0
      BY FS_EmptySet DEF Requests
    <3> QED  BY <3>1, <3>2, ConstantFacts DEF ServedKept, RedisKept, MemoryKept
  <2>5. \A c \in Clients : PassKept(c)
    BY <2>2 DEF GateInit, PassKept
  <2> QED  BY <2>1, <2>2, <2>3, <2>4, <2>5, ConstantFacts DEF GateInit, GateInv
<1>2. GateInv /\ [GateNext]_gateVars => GateInv'
  <2> SUFFICES ASSUME GateInv, [GateNext]_gateVars PROVE GateInv'
    OBVIOUS
  <2>0. /\ accounts \in [KeyTenants -> BOOLEAN] /\ apiKeys \in [ApiKeys -> KeyStates]
        /\ request \in [Clients -> RequestStates]
    BY DEF GateInv
  <2>1. ASSUME NEW k \in ApiKeys, NEW t \in KeyTenants, GenerateAPIKey(k, t) PROVE GateInv'
    <3>1. /\ apiKeys[k].is = "none" /\ apiKeys' = [apiKeys EXCEPT ![k] = [is |-> "active", tenant |-> t]]
          /\ UNCHANGED <<limiter, accounts, request, counters, served, refused>>
      BY <2>1 DEF GenerateAPIKey
    <3>2. apiKeys' \in [ApiKeys -> KeyStates] /\ \A j \in ApiKeys : j # k => apiKeys'[j] = apiKeys[j]
      BY <3>1, <2>0 DEF KeyStates
    <3>3. \A j \in ApiKeys : Good(j) => Good(j)'
      BY <3>1, <3>2 DEF Good
    <3>4. \A u \in KeyTenants : ServedKept(u)' /\ (limiter' = "memory" => refused'[u] >= Limit)
      BY <3>1 DEF GateInv, ServedKept
    <3>5. \A c \in Clients : PassKept(c)'
      <4>1. \A c \in Clients : PassKept(c) /\ request[c].key \in ApiKeys
        BY <2>0 DEF GateInv, RequestStates
      <4> QED  BY <4>1, <3>1, <3>3, PassStays
    <3>6. /\ limiter' \in {"redis", "memory"} /\ accounts' \in [KeyTenants -> BOOLEAN]
          /\ apiKeys' \in [ApiKeys -> KeyStates] /\ request' \in [Clients -> RequestStates]
          /\ counters' \in [KeyTenants -> Counts] /\ served' \in [KeyTenants -> SUBSET (Age \X Nat)]
          /\ refused' \in [KeyTenants -> Nat]
      BY <2>0, <3>1, <3>2 DEF GateInv
    <3> QED  BY <3>4, <3>5, <3>6 DEF GateInv
  <2>2. ASSUME NEW k \in ApiKeys, RevokeAPIKey(k) \/ Expire(k) PROVE GateInv'
    <3>1. /\ request' = Lapse({k}) /\ UNCHANGED <<limiter, accounts, counters, served, refused>>
          /\ apiKeys' = [apiKeys EXCEPT ![k].is = "revoked"] \/ apiKeys' = [apiKeys EXCEPT ![k].is = "expired"]
      BY <2>2 DEF RevokeAPIKey, Expire
    <3>2. apiKeys' \in [ApiKeys -> KeyStates] /\ \A j \in ApiKeys : j # k => apiKeys'[j] = apiKeys[j]
      BY <3>1, <2>0 DEF KeyStates
    <3>3. \A j \in ApiKeys \ {k} : Good(j) => Good(j)'
      BY <3>1, <3>2 DEF Good
    <3> QED  BY <2>0, <3>1, <3>2, <3>3, LapseStep
  <2>3. ASSUME NEW t \in KeyTenants, SetAccount(t) PROVE GateInv'
    <3> DEFINE keys == {k \in ApiKeys : apiKeys[k].tenant = t}
    <3>1. /\ accounts' = [accounts EXCEPT ![t] = ~@] /\ request' = Lapse(keys)
          /\ UNCHANGED <<limiter, apiKeys, counters, served, refused>>
      BY <2>3 DEF SetAccount
    <3>2. accounts' \in [KeyTenants -> BOOLEAN] /\ \A u \in KeyTenants : u # t => accounts'[u] = accounts[u]
      BY <3>1, <2>0
    <3>3. \A j \in ApiKeys \ keys : Good(j) => Good(j)'
      BY <3>1, <3>2, <2>0 DEF Good
    <3>4. PICK K \in SUBSET ApiKeys : K = keys
      OBVIOUS
    <3> QED  BY <2>0, <3>1, <3>2, <3>3, <3>4, LapseStep
  <2>4. ASSUME NEW c \in Clients, NEW k \in ApiKeys, RequireAuth(c, k) PROVE GateInv'
    <3>1. /\ Good(k) /\ request' = [request EXCEPT ![c] = [at |-> "checked", key |-> k, lapsed |-> FALSE]]
          /\ UNCHANGED <<limiter, accounts, apiKeys, counters, served, refused>>
      BY <2>4 DEF RequireAuth, ValidateAPIKey, Good
    <3>2. /\ request' \in [Clients -> RequestStates] /\ request'[c].key = k
          /\ \A d \in Clients : d # c => request'[d] = request[d]
      BY <3>1, <2>0 DEF RequestStates
    <3>3. \A j : Good(j) => Good(j)'
      BY <3>1 DEF Good
    <3>4. ASSUME NEW d \in Clients PROVE PassKept(d)'
      <4>1. CASE d = c
        BY <3>1, <3>2, <3>3, <4>1 DEF PassKept
      <4>2. CASE d # c
        <5>1. request'[d] = request[d] /\ PassKept(d)
          BY <3>2, <4>2 DEF GateInv
        <5> QED  BY <5>1, <3>3, PassStays
      <4> QED  BY <4>1, <4>2
    <3>5. \A u \in KeyTenants : ServedKept(u)' /\ (limiter' = "memory" => refused'[u] >= Limit)
      BY <3>1 DEF GateInv, ServedKept
    <3>6. /\ limiter' \in {"redis", "memory"} /\ accounts' \in [KeyTenants -> BOOLEAN]
          /\ apiKeys' \in [ApiKeys -> KeyStates] /\ request' \in [Clients -> RequestStates]
          /\ counters' \in [KeyTenants -> Counts] /\ served' \in [KeyTenants -> SUBSET (Age \X Nat)]
          /\ refused' \in [KeyTenants -> Nat]
      BY <2>0, <3>1, <3>2 DEF GateInv
    <3> QED  BY <3>4, <3>5, <3>6 DEF GateInv
  <2>5. ASSUME NEW c \in Clients, LimiterFails(c) PROVE GateInv'
    <3>1. /\ request' = [request EXCEPT ![c] = NoRequest]
          /\ UNCHANGED <<limiter, accounts, apiKeys, counters, served, refused>>
      BY <2>5 DEF LimiterFails
    <3>2. NoRequest \in RequestStates /\ NoRequest.at = "none"
      BY GateAssumption DEF NoRequest, RequestStates
    <3>3. /\ request' \in [Clients -> RequestStates] /\ request'[c].at = "none"
          /\ \A d \in Clients : d # c => request'[d] = request[d]
      BY <3>1, <3>2, <2>0
    <3>4. ASSUME NEW d \in Clients PROVE PassKept(d)'
      <4>1. CASE d = c
        BY <3>3, <4>1 DEF PassKept
      <4>2. CASE d # c
        <5>1. request'[d] = request[d] /\ PassKept(d)
          BY <3>3, <4>2 DEF GateInv
        <5>2. Good(request[d].key) => Good(request[d].key)'
          BY <3>1, <5>1 DEF Good
        <5> QED  BY <5>1, <5>2, PassStays
      <4> QED  BY <4>1, <4>2
    <3>5. \A u \in KeyTenants : ServedKept(u)' /\ (limiter' = "memory" => refused'[u] >= Limit)
      BY <3>1 DEF GateInv, ServedKept
    <3>6. /\ limiter' \in {"redis", "memory"} /\ accounts' \in [KeyTenants -> BOOLEAN]
          /\ apiKeys' \in [ApiKeys -> KeyStates] /\ request' \in [Clients -> RequestStates]
          /\ counters' \in [KeyTenants -> Counts] /\ served' \in [KeyTenants -> SUBSET (Age \X Nat)]
          /\ refused' \in [KeyTenants -> Nat]
      BY <2>0, <3>1, <3>3 DEF GateInv
    <3> QED  BY <3>4, <3>5, <3>6 DEF GateInv
  <2>6. ASSUME Tick PROVE GateInv'
    <3>1. /\ UNCHANGED <<limiter, accounts, apiKeys, request>>
          /\ counters' = [t \in KeyTenants |->
               IF counters[t].left <= 1 THEN [count |-> 0, left |-> 0]
               ELSE [counters[t] EXCEPT !.left = counters[t].left - 1]]
          /\ served' = [t \in KeyTenants |-> Older(served[t])] /\ refused' = [t \in KeyTenants |-> Limit]
      BY <2>6 DEF Tick, Older
    <3>2. ASSUME NEW t \in KeyTenants
          PROVE  counters'[t] \in Counts /\ ServedKept(t)'
      <4>1. /\ counters[t] \in Counts /\ ServedKept(t) /\ served'[t] = Older(served[t])
            /\ counters'[t] = IF counters[t].left <= 1 THEN [count |-> 0, left |-> 0]
                              ELSE [counters[t] EXCEPT !.left = counters[t].left - 1]
        BY <3>1 DEF GateInv
      <4>2. Requests(served[t])
        BY <4>1 DEF ServedKept
      <4>3. /\ counters'[t] \in Counts /\ Requests(Older(served[t]))
            /\ RedisKept(served[t], counters[t]) => RedisKept(Older(served[t]), counters'[t])
            /\ MemoryKept(served[t], counters[t]) => MemoryKept(Older(served[t]), counters'[t])
        BY <4>1, <4>2, TickKeeps
      <4> QED  BY <3>1, <4>1, <4>3 DEF ServedKept
    <3>3. counters' \in [KeyTenants -> Counts] /\ refused' \in [KeyTenants -> Nat]
      BY <3>1, <3>2, ConstantFacts
    <3>4. served' \in [KeyTenants -> SUBSET (Age \X Nat)]
      <4>1. \A t \in KeyTenants : Older(served[t]) \in SUBSET (Age \X Nat)
        <5>1. \A t \in KeyTenants : Requests(served[t]) /\ counters[t] \in Counts
          BY DEF GateInv, ServedKept
        <5>2. \A t \in KeyTenants : Requests(Older(served[t]))
          BY <5>1, TickKeeps
        <5> QED  BY <5>2 DEF Requests
      <4> QED  BY <3>1, <4>1
    <3>5. ASSUME NEW c \in Clients PROVE PassKept(c)'
      <4>1. PassKept(c)
        BY DEF GateInv
      <4> QED  BY <4>1, <3>1 DEF PassKept, Good
    <3>6. \A u \in KeyTenants : refused'[u] >= Limit
      BY <3>1, ConstantFacts
    <3>7. /\ limiter' \in {"redis", "memory"} /\ accounts' \in [KeyTenants -> BOOLEAN]
          /\ apiKeys' \in [ApiKeys -> KeyStates] /\ request' \in [Clients -> RequestStates]
      BY <3>1 DEF GateInv
    <3> QED  BY <3>2, <3>3, <3>4, <3>5, <3>6, <3>7 DEF GateInv
  <2>7. CASE UNCHANGED gateVars
    BY <2>7 DEF gateVars, GateInv, ServedKept, PassKept, Good
  <2> QED  BY <2>1, <2>2, <2>3, <2>4, <2>5, <2>6, <2>7, RateLimitStep DEF GateNext
<1> QED  BY <1>1, <1>2, InvImpliesKept, PTL DEF GateSpec

-----------------------------------------------------------------------------
(* BufferUse.  An event is in one place only: the stored events, the batch *)
(* and the channel repeat nothing and share nothing, so that what a step   *)
(* drops it drops once.  While an Enqueue waits for the lock, the buffer   *)
(* holds all but a batch of its size: nothing else can take events out.    *)
Slot == Event \cup {NilEvent}
NoRepeats(s) == \A i, j \in 1 .. Len(s) : s[i] = s[j] => i = j
Places == Ids(stored) \cup Ids(batch) \cup Ids(chan) \cup ({pending} \ {NilEvent})
PlacesApart ==
  /\ NoRepeats(stored) /\ NoRepeats(batch) /\ NoRepeats(chan)
  /\ Ids(stored) \cap Ids(batch) = {} /\ Ids(stored) \cap Ids(chan) = {} /\ Ids(batch) \cap Ids(chan) = {}
  /\ pending \notin Ids(stored) \cup Ids(batch) \cup Ids(chan)
  /\ NilEvent \notin Ids(stored) \cup Ids(batch)
AllCounted ==
  /\ Places \cup taken \subseteq 1 .. offered /\ Places \cap taken = {}
  /\ dropped = offered - Cardinality(Places \cup taken)
PendingHeld == pending # NilEvent => Len(stored) + Len(batch) + Len(chan) + BatchCap > MaxSize
BufInv ==
  /\ BufTypeOK
  /\ ~closed => PlacesApart /\ AllCounted /\ PendingHeld

LEMMA AppendIds ==
  ASSUME NEW s \in Seq(Slot), NEW e \in Slot
  PROVE  /\ Append(s, e) \in Seq(Slot) /\ Len(Append(s, e)) = Len(s) + 1
         /\ Ids(Append(s, e)) = Ids(s) \cup {e}
         /\ NoRepeats(s) /\ e \notin Ids(s) => NoRepeats(Append(s, e))
<1> DEFINE g == Append(s, e)
           n == Len(s)
<1>1. /\ n \in Nat /\ DOMAIN s = 1 .. n /\ DOMAIN g = 1 .. (n + 1) /\ Len(g) = n + 1
      /\ g[n + 1] = e /\ \A i \in 1 .. n : g[i] = s[i]
      /\ g \in Seq(Slot)
  OBVIOUS
<1> HIDE DEF g, n
<1>2. /\ \A i \in 1 .. (n + 1) : i \in 1 .. n \/ i = n + 1
      /\ \A i \in 1 .. n : i \in 1 .. (n + 1)
      /\ n + 1 \in 1 .. (n + 1)
  BY <1>1
<1>3. Ids(g) = Ids(s) \cup {e}
  BY <1>1, <1>2 DEF Ids
<1>4. ASSUME NoRepeats(s), e \notin Ids(s) PROVE NoRepeats(g)
  <2>1. (\A i \in 1 .. n : s[i] # e) /\ \A i, j \in 1 .. n : s[i] = s[j] => i = j
    BY <1>1, <1>4 DEF Ids, NoRepeats, n
  <2>2. \A i, j \in 1 .. (n + 1) : g[i] = g[j] => i = j
    BY <1>1, <1>2, <2>1
  <2> QED  BY <1>1, <2>2 DEF NoRepeats
<1> QED  BY <1>1, <1>3, <1>4 DEF g, n

LEMMA TailIds ==
  ASSUME NEW s \in Seq(Slot), s # <<>>
  PROVE  /\ Tail(s) \in Seq(Slot) /\ Len(Tail(s)) = Len(s) - 1 /\ Head(s) \in Slot
         /\ Ids(s) = Ids(Tail(s)) \cup {Head(s)}
         /\ NoRepeats(s) => NoRepeats(Tail(s)) /\ Head(s) \notin Ids(Tail(s))
<1> DEFINE g == Tail(s)
           n == Len(s)
<1>1. /\ n \in Nat /\ n >= 1 /\ DOMAIN s = 1 .. n /\ DOMAIN g = 1 .. (n - 1) /\ Len(g) = n - 1
      /\ Head(s) = s[1] /\ Head(s) \in Slot
      /\ g \in Seq(Slot)
  OBVIOUS
<1>2. \A i \in 1 .. (n - 1) : g[i] = s[i + 1]
  OBVIOUS
<1> HIDE DEF g, n
<1>3. /\ \A i \in 1 .. n : i = 1 \/ (i - 1 \in 1 .. (n - 1) /\ (i - 1) + 1 = i)
      /\ \A i \in 1 .. (n - 1) : i + 1 \in 1 .. n
      /\ 1 \in 1 .. n
  BY <1>1
<1>4. Ids(s) = Ids(g) \cup {Head(s)}
  <2>1. \A i \in 1 .. n : s[i] = Head(s) \/ s[i] \in Ids(g)
    BY <1>1, <1>2, <1>3, ZenonT(40) DEF Ids
  <2>2. \A i \in 1 .. (n - 1) : g[i] \in Ids(s)
    BY <1>1, <1>2, <1>3 DEF Ids
  <2>3. Head(s) \in Ids(s)
    BY <1>1, <1>3 DEF Ids
  <2> QED  BY <1>1, <2>1, <2>2, <2>3 DEF Ids
<1>5. ASSUME NoRepeats(s) PROVE NoRepeats(g) /\ Head(s) \notin Ids(g)
  <2>1. \A i, j \in 1 .. n : s[i] = s[j] => i = j
    BY <1>5 DEF NoRepeats, n
  <2>2. \A i, j \in 1 .. (n - 1) : g[i] = g[j] => i = j
    BY <1>1, <1>2, <1>3, <2>1
  <2>3. \A i \in 1 .. (n - 1) : g[i] # s[1]
    BY <1>1, <1>2, <1>3, <2>1
  <2> QED  BY <1>1, <2>2, <2>3 DEF NoRepeats, Ids
<1> QED  BY <1>1, <1>4, <1>5 DEF g, n

(* A sequence without repetition has as many events as places.             *)
LEMMA IdsCounted ==
  ASSUME NEW s \in Seq(Slot), NEW k \in Nat, k <= Len(s), NoRepeats(s)
  PROVE  /\ IsFiniteSet({s[i] : i \in 1 .. k}) /\ Cardinality({s[i] : i \in 1 .. k}) = k
<1> DEFINE S == {s[i] : i \in 1 .. k}
           f == [i \in 1 .. k |-> s[i]]
<1>1. f \in [1 .. k -> S] /\ \A x \in S : \E i \in 1 .. k : f[i] = x
  OBVIOUS
<1>2. \A i, j \in 1 .. k : f[i] = f[j] => i = j
  BY DEF NoRepeats
<1>3. f \in Bijection(1 .. k, S)
  BY <1>1, <1>2 DEF Bijection, Injection, Surjection, IsInjective
<1>4. IsFiniteSet(1 .. k) /\ Cardinality(1 .. k) = k
  BY FS_Interval
<1> QED  BY <1>3, <1>4, FS_Bijection DEF ExistsBijection

(* What is left of a sequence without its first k.                         *)
LEMMA Suffix ==
  ASSUME NEW S, NEW u \in Seq(S), NEW k \in Nat, k <= Len(u)
  PROVE  /\ SubSeq(u, k + 1, Len(u)) \in Seq(S) /\ Len(SubSeq(u, k + 1, Len(u))) = Len(u) - k
         /\ \A i \in 1 .. Len(u) - k : SubSeq(u, k + 1, Len(u))[i] = u[i + k]
<1> DEFINE m == k + 1
           n == Len(u)
           r == SubSeq(u, m, n)
<1>1. m \in Int /\ n \in Int /\ n \in Nat /\ m = k + 1 /\ k <= n /\ m >= 1
  OBVIOUS
<1>2. \A i \in 1 .. n : u[i] \in S
  OBVIOUS
<1> HIDE DEF m, n
<1>3. \A i \in m .. n : u[i] \in S
  <2> SUFFICES ASSUME NEW i \in m .. n PROVE u[i] \in S
    OBVIOUS
  <2>1. i \in 1 .. n
    BY <1>1
  <2> QED  BY <1>2, <2>1
<1>4. /\ r \in Seq(S) /\ Len(r) = IF m <= n THEN n - m + 1 ELSE 0
      /\ \A i \in 1 .. n - m + 1 : r[i] = u[m + i - 1]
  BY <1>1, <1>3, SMT
<1> HIDE DEF r
<1>5. Len(r) = n - k
  BY <1>1, <1>4
<1>6. ASSUME NEW i \in 1 .. n - k PROVE r[i] = u[i + k]
  <2>1. i \in 1 .. n - m + 1 /\ m + i - 1 = i + k
    BY <1>1
  <2> QED  BY <1>4, <2>1
<1> QED  BY <1>4, <1>5, <1>6 DEF r, m, n

(* What processBatch leaves of the stored events and a batch: all, or all  *)
(* but as many of the oldest as the batch has.                             *)
LEMMA StoredLeaves ==
  ASSUME NEW s \in Seq(Slot), NEW b \in Seq(Slot)
  PROVE  /\ s \o b \in Seq(Slot) /\ Len(s \o b) = Len(s) + Len(b)
         /\ Cuts(s, b) \in Nat /\ Cuts(s, b) <= Len(s) + Len(b)
         /\ Stored(s, b) \in Seq(Slot) /\ Len(Stored(s, b)) = (Len(s) + Len(b)) - Cuts(s, b)
         /\ \A i \in 1 .. Len(Stored(s, b)) : Stored(s, b)[i] = (s \o b)[i + Cuts(s, b)]
<1> DEFINE u == s \o b
           k == Cuts(s, b)
<1>1. /\ u \in Seq(Slot) /\ Len(u) = Len(s) + Len(b) /\ Len(s) \in Nat /\ Len(b) \in Nat
  OBVIOUS
<1>2. k \in Nat /\ k <= Len(u)
  BY <1>1 DEF Cuts
<1>3. Stored(s, b) = SubSeq(u, k + 1, Len(u))
  BY <1>1 DEF Stored
<1> HIDE DEF u, k
<1>4. /\ SubSeq(u, k + 1, Len(u)) \in Seq(Slot) /\ Len(SubSeq(u, k + 1, Len(u))) = Len(u) - k
      /\ \A i \in 1 .. Len(u) - k : SubSeq(u, k + 1, Len(u))[i] = u[i + k]
  BY <1>1, <1>2, Suffix
<1>5. /\ Stored(s, b) \in Seq(Slot) /\ Len(Stored(s, b)) = (Len(s) + Len(b)) - k
      /\ \A i \in 1 .. Len(Stored(s, b)) : Stored(s, b)[i] = u[i + k]
  BY <1>1, <1>3, <1>4
<1> QED  BY <1>1, <1>2, <1>5 DEF u, k

LEMMA StoredIds ==
  ASSUME NEW s \in Seq(Slot), NEW b \in Seq(Slot), NoRepeats(s), NoRepeats(b), Ids(s) \cap Ids(b) = {}
  PROVE  \E gone \in SUBSET (Ids(s) \cup Ids(b)) :
           /\ IsFiniteSet(gone) /\ Cardinality(gone) = Cuts(s, b)
           /\ Ids(Stored(s, b)) = (Ids(s) \cup Ids(b)) \ gone
           /\ NoRepeats(Stored(s, b))
<1> DEFINE u == s \o b
           k == Cuts(s, b)
           r == Stored(s, b)
           n == Len(s)
           m == Len(b)
<1>0. n \in Nat /\ m \in Nat /\ DOMAIN s = 1 .. n /\ DOMAIN b = 1 .. m
  OBVIOUS
<1>1. /\ u \in Seq(Slot) /\ Len(u) = n + m /\ k \in Nat /\ k <= n + m
      /\ r \in Seq(Slot) /\ Len(r) = (n + m) - k
      /\ \A i \in 1 .. Len(r) : r[i] = u[i + k]
  BY <1>0, StoredLeaves
<1>2. (\A i \in 1 .. n : u[i] = s[i]) /\ \A i \in (n + 1) .. (n + m) : u[i] = b[i - n]
  OBVIOUS
<1>3. /\ \A i, j \in 1 .. n : s[i] = s[j] => i = j
      /\ \A i, j \in 1 .. m : b[i] = b[j] => i = j
      /\ \A i \in 1 .. n, j \in 1 .. m : s[i] # b[j]
  <2>1. ASSUME NEW i \in 1 .. n, NEW j \in 1 .. m PROVE s[i] # b[j]
    <3>1. s[i] \in Ids(s) /\ b[j] \in Ids(b)
      BY <1>0 DEF Ids
    <3> QED  BY <3>1
  <2> QED  BY <2>1 DEF NoRepeats
<1> HIDE DEF u, k, r, n, m
<1>4. \A i \in 1 .. (n + m) : i \in 1 .. n \/ (i \in (n + 1) .. (n + m) /\ i - n \in 1 .. m)
  BY <1>0, <1>1
<1>5. \A i, j \in 1 .. (n + m) : u[i] = u[j] => i = j
  <2> SUFFICES ASSUME NEW i \in 1 .. (n + m), NEW j \in 1 .. (n + m), u[i] = u[j] PROVE i = j
    OBVIOUS
  <2>1. CASE i \in 1 .. n /\ j \in 1 .. n
    BY <1>2, <1>3, <2>1
  <2>2. CASE i \in (n + 1) .. (n + m) /\ j \in (n + 1) .. (n + m)
    <3>1. i - n \in 1 .. m /\ j - n \in 1 .. m /\ b[i - n] = b[j - n]
      BY <1>0, <1>1, <1>2, <1>4, <2>2
    <3>2. i - n = j - n
      BY <1>3, <3>1
    <3> QED  BY <1>0, <1>1, <3>2
  <2>3. CASE i \in 1 .. n /\ j \in (n + 1) .. (n + m)
    <3>1. j - n \in 1 .. m /\ s[i] = b[j - n]
      BY <1>0, <1>1, <1>2, <1>4, <2>3
    <3> QED  BY <1>3, <2>3, <3>1
  <2>4. CASE j \in 1 .. n /\ i \in (n + 1) .. (n + m)
    <3>1. i - n \in 1 .. m /\ s[j] = b[i - n]
      BY <1>0, <1>1, <1>2, <1>4, <2>4
    <3> QED  BY <1>3, <2>4, <3>1
  <2> QED  BY <1>4, <2>1, <2>2, <2>3, <2>4
<1>6. NoRepeats(u)
  BY <1>1, <1>5 DEF NoRepeats
<1>7. {u[i] : i \in 1 .. (n + m)} = Ids(s) \cup Ids(b)
  <2>1. \A i \in 1 .. n : i \in 1 .. (n + m)
    BY <1>0
  <2>2. \A i \in 1 .. m : i + n \in (n + 1) .. (n + m) /\ i + n \in 1 .. (n + m) /\ (i + n) - n = i
    BY <1>0
  <2>3. DOMAIN s = 1 .. n /\ DOMAIN b = 1 .. m
    BY DEF n, m
  <2>4. \A i \in 1 .. (n + m) : u[i] \in Ids(s) \cup Ids(b)
    BY <1>2, <1>4, <2>3 DEF Ids
  <2>5. \A i \in 1 .. n : s[i] \in {u[j] : j \in 1 .. (n + m)}
    BY <1>2, <2>1
  <2>6. \A i \in 1 .. m : b[i] \in {u[j] : j \in 1 .. (n + m)}
    BY <1>2, <2>2
  <2> QED  BY <2>3, <2>4, <2>5, <2>6 DEF Ids
<1> DEFINE gone == {u[i] : i \in 1 .. k}
<1>8. IsFiniteSet(gone) /\ Cardinality(gone) = k
  BY <1>1, <1>6, IdsCounted, ZenonT(40)
<1>9. \A i \in 1 .. k : i \in 1 .. (n + m)
  BY <1>0, <1>1
<1>10. /\ \A i \in 1 .. Len(r) : i + k \in 1 .. (n + m) /\ i + k \notin 1 .. k
       /\ \A i \in 1 .. (n + m) : i \in 1 .. k \/ (i - k \in 1 .. Len(r) /\ (i - k) + k = i)
  BY <1>0, <1>1
<1>11. gone \in SUBSET (Ids(s) \cup Ids(b))
  BY <1>7, <1>9
<1>12. Ids(r) = (Ids(s) \cup Ids(b)) \ gone
  <2>1. DOMAIN r = 1 .. Len(r)
    BY <1>1
  <2>2. ASSUME NEW i \in 1 .. Len(r) PROVE r[i] \in {u[j] : j \in 1 .. (n + m)} /\ r[i] \notin gone
    <3>1. r[i] = u[i + k] /\ i + k \in 1 .. (n + m) /\ i + k \notin 1 .. k
      BY <1>1, <1>10
    <3> QED  BY <3>1, <1>5, <1>9
  <2>3. ASSUME NEW i \in 1 .. (n + m), u[i] \notin gone PROVE u[i] \in {r[j] : j \in 1 .. Len(r)}
    <3>1. i - k \in 1 .. Len(r) /\ (i - k) + k = i
      BY <1>10, <2>3
    <3>2. r[i - k] = u[i]
      BY <1>1, <3>1
    <3> QED  BY <3>1, <3>2
  <2> HIDE DEF gone
  <2> QED  BY <1>7, <2>1, <2>2, <2>3, ZenonT(40) DEF Ids
<1>13. NoRepeats(r)
  <2> SUFFICES ASSUME NEW i \in 1 .. Len(r), NEW j \in 1 .. Len(r), r[i] = r[j] PROVE i = j
    BY DEF NoRepeats
  <2>1. u[i + k] = u[j + k] /\ i + k \in 1 .. (n + m) /\ j + k \in 1 .. (n + m)
    BY <1>1, <1>10
  <2>2. i + k = j + k
    BY <1>5, <2>1
  <2> QED  BY <1>1, <2>2
<1> QED  BY <1>8, <1>11, <1>12, <1>13 DEF k, r

LEMMA SizeFacts == /\ MaxSize \in Nat /\ MaxSize >= 1 /\ BatchCap \in Nat /\ BatchCap >= 1
                   /\ MaxEvents \in Nat /\ NilEvent \in Slot /\ NilEvent = 0
                   /\ \A e \in Event : e \in Slot /\ e \in Nat /\ e # NilEvent /\ e <= MaxEvents
                   /\ \A e \in Slot : e \in Nat /\ (e # NilEvent => e \in Event)
BY SizeAssumption, BufferUseAssumption DEF NilEvent, Slot, Event

LEMMA TypeFacts ==
  ASSUME BufTypeOK
  PROVE  /\ chan \in Seq(Event) /\ chan \in Seq(Slot) /\ batch \in Seq(Slot) /\ stored \in Seq(Slot)
         /\ Len(chan) \in Nat /\ Len(batch) \in Nat /\ Len(stored) \in Nat
         /\ Len(chan) <= MaxSize /\ Len(batch) <= BatchCap /\ Len(stored) <= MaxSize
         /\ dropped \in Nat /\ offered \in Nat /\ offered <= MaxEvents /\ pending \in Slot /\ taken \subseteq Event
         /\ \A s \in Seq(Slot) : Ids(s) \subseteq Slot
         /\ Ids(chan) \subseteq Event
<1>1. /\ chan \in Seq(Event) /\ batch \in Seq(Slot) /\ stored \in Seq(Slot)
      /\ Len(chan) <= MaxSize /\ Len(batch) <= BatchCap /\ Len(stored) <= MaxSize
      /\ dropped \in Nat /\ offered \in 0 .. MaxEvents /\ pending \in Slot /\ taken \subseteq Event
  BY DEF BufTypeOK, Slot
<1>2. chan \in Seq(Slot)
  BY <1>1 DEF Slot
<1>3. \A s \in Seq(Slot) : Ids(s) \subseteq Slot
  BY DEF Ids
<1>4. Ids(chan) \subseteq Event
  BY <1>1 DEF Ids
<1> QED  BY <1>1, <1>2, <1>3, <1>4, SizeFacts

(* Where the events are is counted by the lengths.                         *)
LEMMA PlacesCounted ==
  ASSUME BufTypeOK, PlacesApart
  PROVE  /\ Held = Places /\ IsFiniteSet(Places) /\ Cardinality(Places) \in Nat
         /\ Line \in Seq(Slot) /\ Len(Line) = Len(stored) + Len(batch) + Len(chan)
         /\ Cardinality(Places) = Len(Line) + (IF pending = NilEvent THEN 0 ELSE 1)
<1>1. /\ chan \in Seq(Slot) /\ batch \in Seq(Slot) /\ stored \in Seq(Slot)
      /\ Len(chan) \in Nat /\ Len(batch) \in Nat /\ Len(stored) \in Nat
  BY TypeFacts
<1>2. \A s, t \in Seq(Slot) : /\ s \o t \in Seq(Slot) /\ Len(s \o t) = Len(s) + Len(t)
                             /\ Ids(s \o t) = Ids(s) \cup Ids(t)
  <2> SUFFICES ASSUME NEW s \in Seq(Slot), NEW t \in Seq(Slot)
               PROVE  /\ s \o t \in Seq(Slot) /\ Len(s \o t) = Len(s) + Len(t)
                      /\ Ids(s \o t) = Ids(s) \cup Ids(t)
    OBVIOUS
  <2> DEFINE u == s \o t
             n == Len(s)
             m == Len(t)
  <2>1. /\ n \in Nat /\ m \in Nat /\ DOMAIN s = 1 .. n /\ DOMAIN t = 1 .. m /\ DOMAIN u = 1 .. (n + m)
        /\ u \in Seq(Slot) /\ Len(u) = n + m
    OBVIOUS
  <2>2. (\A i \in 1 .. n : u[i] = s[i]) /\ \A i \in (n + 1) .. (n + m) : u[i] = t[i - n]
    OBVIOUS
  <2> HIDE DEF u, n, m
  <2>3. \A i \in 1 .. (n + m) : u[i] \in Ids(s) \cup Ids(t)
    <3> SUFFICES ASSUME NEW i \in 1 .. (n + m) PROVE u[i] \in Ids(s) \cup Ids(t)
      OBVIOUS
    <3>1. CASE i \in 1 .. n
      BY <2>1, <2>2, <3>1 DEF Ids
    <3>2. CASE i \in (n + 1) .. (n + m)
      <4>1. i - n \in 1 .. m /\ u[i] = t[i - n]
        BY <2>1, <2>2, <3>2
      <4> QED  BY <4>1, <2>1 DEF Ids
    <3> QED  BY <2>1, <3>1, <3>2
  <2>4. \A i \in 1 .. n : s[i] \in Ids(u)
    <3> SUFFICES ASSUME NEW i \in 1 .. n PROVE s[i] \in Ids(u)
      OBVIOUS
    <3>1. i \in 1 .. (n + m) /\ u[i] = s[i]
      BY <2>1, <2>2
    <3> QED  BY <3>1, <2>1 DEF Ids
  <2>5. \A i \in 1 .. m : t[i] \in Ids(u)
    <3> SUFFICES ASSUME NEW i \in 1 .. m PROVE t[i] \in Ids(u)
      OBVIOUS
    <3>1. i + n \in (n + 1) .. (n + m) /\ i + n \in 1 .. (n + m) /\ (i + n) - n = i
      BY <2>1
    <3>2. u[i + n] = t[i]
      BY <3>1, <2>2
    <3> QED  BY <3>1, <3>2, <2>1 DEF Ids
  <2>6. Ids(u) = Ids(s) \cup Ids(t)
    BY <2>1, <2>3, <2>4, <2>5 DEF Ids
  <2> QED  BY <2>1, <2>6 DEF u, n, m
<1>3. \A s \in Seq(Slot) : NoRepeats(s) => IsFiniteSet(Ids(s)) /\ Cardinality(Ids(s)) = Len(s)
  <2> SUFFICES ASSUME NEW s \in Seq(Slot), NoRepeats(s) PROVE IsFiniteSet(Ids(s)) /\ Cardinality(Ids(s)) = Len(s)
    OBVIOUS
  <2>1. Ids(s) = {s[i] : i \in 1 .. Len(s)} /\ Len(s) \in Nat /\ Len(s) <= Len(s)
    BY DEF Ids
  <2> QED  BY <2>1, IdsCounted
<1> DEFINE A == Ids(stored)
           B == Ids(batch)
           C == Ids(chan)
<1>4. /\ Line \in Seq(Slot) /\ Len(Line) = Len(stored) + Len(batch) + Len(chan)
      /\ Ids(Line) = A \cup B \cup C
  <2> DEFINE u == stored \o batch
             v == u \o chan
  <2>1. u \in Seq(Slot) /\ Len(u) = Len(stored) + Len(batch) /\ Ids(u) = A \cup B
    BY <1>1, <1>2
  <2> HIDE DEF u
  <2>2. v \in Seq(Slot) /\ Len(v) = Len(u) + Len(chan) /\ Ids(v) = Ids(u) \cup C
    BY <1>1, <1>2, <2>1
  <2>3. Line = v
    BY DEF Line, u
  <2> HIDE DEF v
  <2> QED  BY <2>1, <2>2, <2>3
<1>5. Held = Places
  BY <1>4 DEF Held, Places
<1>6. /\ IsFiniteSet(A) /\ Cardinality(A) = Len(stored) /\ IsFiniteSet(B) /\ Cardinality(B) = Len(batch)
      /\ IsFiniteSet(C) /\ Cardinality(C) = Len(chan)
      /\ A \cap B = {} /\ A \cap C = {} /\ B \cap C = {} /\ pending \notin A \cup B \cup C
  BY <1>1, <1>3 DEF PlacesApart
<1> HIDE DEF A, B, C
<1>7. IsFiniteSet(A \cup B) /\ Cardinality(A \cup B) = Len(stored) + Len(batch)
  <2>1. IsFiniteSet(A \cup B) /\ Cardinality(A \cup B) = Cardinality(A) + Cardinality(B) - Cardinality(A \cap B)
    BY <1>6, FS_Union
  <2>2. Cardinality(A \cap B) = 0
    BY <1>6, FS_EmptySet
  <2> QED  BY <2>1, <2>2, <1>1, <1>6
<1>8. IsFiniteSet((A \cup B) \cup C) /\ Cardinality((A \cup B) \cup C) = Len(stored) + Len(batch) + Len(chan)
  <2>1. /\ IsFiniteSet((A \cup B) \cup C)
        /\ Cardinality((A \cup B) \cup C) = Cardinality(A \cup B) + Cardinality(C) - Cardinality((A \cup B) \cap C)
    BY <1>6, <1>7, FS_Union
  <2>2. (A \cup B) \cap C = {}
    BY <1>6
  <2>3. Cardinality((A \cup B) \cap C) = 0
    BY <2>2, FS_EmptySet
  <2> QED  BY <2>1, <2>3, <1>1, <1>6, <1>7
<1>9. /\ IsFiniteSet(Places)
      /\ Cardinality(Places) = Len(Line) + (IF pending = NilEvent THEN 0 ELSE 1)
  <2>1. CASE pending = NilEvent
    <3>1. Places = (A \cup B) \cup C
      BY <2>1 DEF Places, A, B, C
    <3> QED  BY <1>1, <1>4, <1>8, <2>1, <3>1
  <2>2. CASE pending # NilEvent
    <3>1. Places = ((A \cup B) \cup C) \cup {pending} /\ pending \notin (A \cup B) \cup C
      BY <1>6, <2>2 DEF Places, A, B, C
    <3>2. IsFiniteSet(Places) /\ Cardinality(Places) = Len(stored) + Len(batch) + Len(chan) + 1
      BY <1>8, <3>1, FS_AddElement
    <3> QED  BY <1>4, <2>2, <3>2
  <2> QED  BY <2>1, <2>2
<1> QED  BY <1>4, <1>5, <1>9, FS_CardinalityType

LEMMA InvAccounts == BufInv => EventsAccounted
<1> SUFFICES ASSUME BufInv PROVE EventsAccounted
  OBVIOUS
<1>1. ASSUME ~closed
      PROVE  /\ Cardinality(Held) = Len(Line) + (IF Idle THEN 0 ELSE 1)
             /\ Held \cap taken = {}
             /\ dropped = offered - Cardinality(Held \cup taken)
  BY <1>1, PlacesCounted DEF BufInv, AllCounted, Idle
<1> QED  BY <1>1 DEF EventsAccounted, BufInv

(* The size of what an action leaves where it was, or without what it      *)
(* dropped or gave the user.                                               *)
LEMMA AccountsMove ==
  ASSUME BufInv, ~closed, NEW gone \in SUBSET Places
  PROVE  /\ IsFiniteSet(taken) /\ IsFiniteSet(gone) /\ Cardinality(gone) \in Nat
         /\ (Places \ gone) \cup (taken \cup gone) = Places \cup taken
         /\ (Places \ gone) \cap (taken \cup gone) = {}
         /\ Cardinality((Places \ gone) \cup taken) = Cardinality(Places \cup taken) - Cardinality(gone)
         /\ Places \cup taken \subseteq 1 .. offered
<1> DEFINE kept == Places \ gone
           given == taken \cup gone
<1>1. IsFiniteSet(Places) /\ Places \cap taken = {} /\ Places \cup taken \subseteq 1 .. offered
  BY PlacesCounted DEF BufInv, AllCounted
<1>2. offered \in Nat
  BY TypeFacts DEF BufInv
<1>3. IsFiniteSet(1 .. offered)
  BY <1>2, FS_Interval
<1>4. Places \cup taken \in SUBSET (1 .. offered) /\ taken \in SUBSET (1 .. offered)
  BY <1>1
<1>5. IsFiniteSet(Places \cup taken) /\ IsFiniteSet(taken)
  BY <1>3, <1>4, FS_Subset
<1>6. IsFiniteSet(gone)
  BY <1>1, FS_Subset
<1>7. (kept \cup taken) \cup gone = Places \cup taken /\ (kept \cup taken) \cap gone = {}
  BY <1>1
<1>8. kept \cup taken \in SUBSET (Places \cup taken)
  OBVIOUS
<1>9. IsFiniteSet(kept \cup taken)
  BY <1>5, <1>8, FS_Subset
<1>10. Cardinality((kept \cup taken) \cup gone)
         = Cardinality(kept \cup taken) + Cardinality(gone) - Cardinality((kept \cup taken) \cap gone)
  BY <1>6, <1>9, FS_Union
<1>11. Cardinality(kept \cup taken) \in Nat /\ Cardinality(gone) \in Nat /\ Cardinality(Places \cup taken) \in Nat
  BY <1>5, <1>6, <1>9, FS_CardinalityType
<1>12. Cardinality((kept \cup taken) \cap gone) = 0
  BY <1>7, FS_EmptySet
<1>13. Cardinality(kept \cup taken) = Cardinality(Places \cup taken) - Cardinality(gone)
  <2>1. Cardinality((kept \cup taken) \cup gone) = Cardinality(Places \cup taken)
    BY <1>7
  <2> HIDE DEF kept
  <2> QED  BY <2>1, <1>10, <1>11, <1>12
<1> QED  BY <1>1, <1>5, <1>6, <1>11, <1>13

(* Offer: a new number, which goes into the channel or waits.              *)
LEMMA OfferStep ==
  ASSUME BufInv, Offer, BatchCap <= MaxSize
  PROVE  BufInv'
<1> DEFINE e == offered + 1
<1>1. /\ BufTypeOK /\ chan \in Seq(Event) /\ chan \in Seq(Slot) /\ Len(chan) \in Nat /\ Len(chan) <= MaxSize
      /\ offered \in Nat /\ offered <= MaxEvents
  BY TypeFacts DEF BufInv
<1>2. /\ offered < MaxEvents /\ EnqueueSend(e) /\ offered' = e /\ taken' = taken
      /\ pending = NilEvent /\ UNCHANGED <<batch, stored, dropped, flusher, cancelled, closed>>
  BY DEF Offer, EnqueueSend
<1>3. e \in Event /\ e \in Nat /\ e # NilEvent /\ e \in Slot /\ e \in 0 .. MaxEvents /\ e \notin 1 .. offered
  BY <1>1, <1>2, SizeFacts DEF Event
<1> HIDE DEF e
<1>4. CASE closed
  <2>1. crash' = "send on closed channel" /\ UNCHANGED <<chan, pending>>
    BY <1>2, <1>4 DEF EnqueueSend
  <2>2. BufTypeOK'
    BY <1>1, <1>2, <1>3, <2>1 DEF BufTypeOK
  <2> QED  BY <1>2, <1>4, <2>2 DEF BufInv
<1>5. CASE ~closed
  <2>1. /\ PlacesApart /\ AllCounted /\ crash' = crash
        /\ IF Len(chan) < MaxSize THEN chan' = Append(chan, e) /\ UNCHANGED pending
                                  ELSE pending' = e /\ UNCHANGED chan
    BY <1>2, <1>5 DEF BufInv, EnqueueSend
  <2>2. e \notin Places /\ e \notin taken /\ Places \cup taken \subseteq 1 .. offered
    BY <1>3, <2>1 DEF AllCounted
  <2>3. /\ Append(chan, e) \in Seq(Event) /\ Len(Append(chan, e)) = Len(chan) + 1
        /\ Ids(Append(chan, e)) = Ids(chan) \cup {e}
        /\ NoRepeats(Append(chan, e))
    <3>1. e \notin Ids(chan) /\ NoRepeats(chan)
      BY <2>1, <2>2 DEF Places, PlacesApart
    <3>2. Append(chan, e) \in Seq(Event)
      BY <1>1, <1>3
    <3> QED  BY <1>1, <1>3, <3>1, <3>2, AppendIds
  <2>4. BufTypeOK'
    <3>1. chan' \in Seq(Event) /\ Len(chan') <= MaxSize /\ pending' \in Event \cup {NilEvent}
      BY <1>1, <1>2, <1>3, <2>1, <2>3, SizeFacts
    <3> QED  BY <1>1, <1>2, <1>3, <2>1, <3>1 DEF BufTypeOK
  <2>5. Places' = Places \cup {e}
    <3>1. CASE Len(chan) < MaxSize
      <4>1. Ids(chan') = Ids(chan) \cup {e} /\ UNCHANGED <<stored, batch, pending>>
        BY <1>2, <2>1, <2>3, <3>1
      <4> QED  BY <4>1 DEF Places
    <3>2. CASE ~(Len(chan) < MaxSize)
      <4>1. pending' = e /\ UNCHANGED <<stored, batch, chan>>
        BY <1>2, <2>1, <3>2
      <4> QED  BY <1>2, <1>3, <4>1 DEF Places
    <3> QED  BY <3>1, <3>2
  <2>6. PlacesApart'
    <3>1. e \notin Ids(stored) /\ e \notin Ids(batch) /\ e \notin Ids(chan)
      BY <2>2 DEF Places
    <3>2. CASE Len(chan) < MaxSize
      <4>1. Ids(chan') = Ids(chan) \cup {e} /\ NoRepeats(chan') /\ UNCHANGED <<stored, batch, pending>>
        BY <1>2, <2>1, <2>3, <3>2
      <4> QED  BY <1>2, <1>3, <2>1, <3>1, <4>1 DEF PlacesApart
    <3>3. CASE ~(Len(chan) < MaxSize)
      <4>1. pending' = e /\ UNCHANGED <<stored, batch, chan>>
        BY <1>2, <2>1, <3>3
      <4> QED  BY <1>3, <2>1, <3>1, <4>1 DEF PlacesApart
    <3> QED  BY <3>2, <3>3
  <2>7. AllCounted'
    <3>1. IsFiniteSet(Places \cup taken)
      <4>1. IsFiniteSet(Places) /\ IsFiniteSet(taken)
        <5>1. {} \in SUBSET Places
          OBVIOUS
        <5> QED  BY <1>5, <5>1, <2>1, <1>1, AccountsMove, PlacesCounted
      <4> QED  BY <4>1, FS_Union
    <3>2. Cardinality((Places \cup taken) \cup {e}) = Cardinality(Places \cup taken) + 1
      BY <2>2, <3>1, FS_AddElement
    <3>3. Places' \cup taken' = (Places \cup taken) \cup {e}
      BY <1>2, <2>5
    <3>4. Cardinality(Places \cup taken) \in Nat
      BY <3>1, FS_CardinalityType
    <3>5. dropped' = offered' - Cardinality(Places' \cup taken')
      <4>1. Cardinality(Places' \cup taken') = Cardinality(Places \cup taken) + 1
        BY <3>2, <3>3
      <4>2. dropped' = offered - Cardinality(Places \cup taken) /\ offered' = offered + 1
        BY <1>2, <2>1 DEF AllCounted, e
      <4> QED  BY <1>1, <3>4, <4>1, <4>2
    <3>6. Places' \cup taken' \subseteq 1 .. offered' /\ Places' \cap taken' = {}
      <4>1. \A i \in 1 .. offered : i \in 1 .. offered'
        BY <1>1, <1>2 DEF e
      <4>2. e \in 1 .. offered'
        BY <1>1, <1>2 DEF e
      <4>3. Places \cap taken = {}
        BY <2>1 DEF AllCounted
      <4> QED  BY <1>2, <2>2, <2>5, <3>3, <4>1, <4>2, <4>3
    <3> QED  BY <3>5, <3>6 DEF AllCounted
  <2>8. PendingHeld'
    <3>1. CASE Len(chan) < MaxSize
      BY <1>2, <2>1, <3>1 DEF PendingHeld
    <3>2. CASE ~(Len(chan) < MaxSize)
      <4>1. chan' = chan /\ Len(chan) = MaxSize /\ Len(stored') \in Nat /\ Len(batch') \in Nat
        BY <1>1, <1>2, <2>1, <3>2, SizeFacts, TypeFacts
      <4> QED  BY <4>1, SizeFacts DEF PendingHeld
    <3> QED  BY <3>1, <3>2
  <2> QED  BY <2>4, <2>6, <2>7, <2>8 DEF BufInv
<1> QED  BY <1>4, <1>5

(* Events that leave without a drop go to the user.                        *)
LEMMA TakeStep ==
  ASSUME BufInv, TakeAll \/ TakeOne
  PROVE  BufInv'
<1>1. /\ BufTypeOK /\ stored \in Seq(Slot) /\ taken \subseteq Event
      /\ Len(stored) \in Nat /\ Len(stored) <= MaxSize
  BY TypeFacts DEF BufInv
<1>2. /\ pending = NilEvent
      /\ UNCHANGED <<chan, batch, dropped, pending, flusher, cancelled, closed, crash, offered>>
  BY DEF TakeAll, TakeOne, Flush, Dequeue, Idle
<1>3. \E gone \in SUBSET Ids(stored) :
        /\ Ids(stored') = Ids(stored) \ gone \/ NilEvent \in Ids(stored) \/ ~NoRepeats(stored)
        /\ taken' = taken \cup (gone \ {NilEvent})
        /\ stored' \in Seq(Slot) /\ Len(stored') <= MaxSize /\ Ids(stored') \subseteq Ids(stored)
        /\ NoRepeats(stored) => NoRepeats(stored')
  <2>1. CASE TakeAll
    <3>1. stored' = <<>> /\ taken' = taken \cup (Ids(stored) \ {NilEvent})
      BY <2>1 DEF TakeAll, Flush
    <3>2. Ids(<<>>) = {} /\ NoRepeats(<<>>) /\ <<>> \in Seq(Slot) /\ Len(<<>>) <= MaxSize
      BY SizeFacts DEF Ids, NoRepeats
    <3> QED  BY <3>1, <3>2
  <2>2. CASE TakeOne
    <3>1. stored # <<>> /\ stored' = Tail(stored) /\ taken' = taken \cup ({Head(stored)} \ {NilEvent})
      BY <2>2 DEF TakeOne, Dequeue
    <3>2. /\ Tail(stored) \in Seq(Slot) /\ Len(Tail(stored)) = Len(stored) - 1
          /\ Ids(stored) = Ids(Tail(stored)) \cup {Head(stored)}
          /\ NoRepeats(stored) => NoRepeats(Tail(stored)) /\ Head(stored) \notin Ids(Tail(stored))
      BY <1>1, <3>1, TailIds
    <3>3. {Head(stored)} \in SUBSET Ids(stored) /\ Len(stored') <= MaxSize
      BY <1>1, <3>1, <3>2, SizeFacts
    <3>4. NoRepeats(stored) => Ids(stored') = Ids(stored) \ {Head(stored)}
      BY <3>1, <3>2
    <3> QED  BY <3>1, <3>2, <3>3, <3>4
  <2> QED  BY <2>1, <2>2
<1>4. PICK gone \in SUBSET Ids(stored) :
        /\ Ids(stored') = Ids(stored) \ gone \/ NilEvent \in Ids(stored) \/ ~NoRepeats(stored)
        /\ taken' = taken \cup (gone \ {NilEvent})
        /\ stored' \in Seq(Slot) /\ Len(stored') <= MaxSize /\ Ids(stored') \subseteq Ids(stored)
        /\ NoRepeats(stored) => NoRepeats(stored')
  BY <1>3
<1>5. BufTypeOK'
  <2>1. taken' \subseteq Event
    <3>1. Ids(stored) \subseteq Slot
      BY <1>1 DEF Ids
    <3> QED  BY <1>1, <1>4, <3>1 DEF Slot
  <2> QED  BY <1>1, <1>2, <1>4, <2>1 DEF BufTypeOK, Slot
<1>6. ASSUME ~closed PROVE PlacesApart' /\ AllCounted' /\ PendingHeld'
  <2>1. PlacesApart /\ AllCounted
    BY <1>6 DEF BufInv
  <2>2. Ids(stored') = Ids(stored) \ gone /\ taken' = taken \cup gone /\ NoRepeats(stored')
    BY <1>4, <2>1 DEF PlacesApart
  <2>3. PlacesApart'
    BY <1>2, <2>1, <2>2 DEF PlacesApart
  <2>4. gone \in SUBSET Places /\ Places' = Places \ gone
    BY <1>2, <2>1, <2>2 DEF Places, PlacesApart
  <2>5. /\ Places' \cup taken' = Places \cup taken /\ Places' \cap taken' = {}
        /\ Places' \cup taken' \subseteq 1 .. offered
    BY <1>6, <2>2, <2>4, AccountsMove
  <2>6. AllCounted'
    BY <1>2, <2>1, <2>5 DEF AllCounted
  <2>7. PendingHeld'
    BY <1>2 DEF PendingHeld
  <2> QED  BY <2>3, <2>6, <2>7
<1> QED  BY <1>2, <1>5, <1>6 DEF BufInv

(* The goroutine moves an event on, keeps all it fits, or drops as many of *)
(* the oldest as the batch has.                                            *)
LEMMA ReceiveStep ==
  ASSUME BufInv, Receive, UNCHANGED <<offered, taken>>
  PROVE  BufInv'
<1>1. /\ BufTypeOK /\ batch \in Seq(Slot) /\ chan \in Seq(Event) /\ chan \in Seq(Slot)
      /\ Len(batch) \in Nat /\ Len(chan) \in Nat /\ Len(chan) <= MaxSize /\ Len(stored) \in Nat
      /\ Ids(chan) \subseteq Event
  BY TypeFacts DEF BufInv
<1>2. /\ Len(batch) < BatchCap /\ UNCHANGED <<stored, dropped, pending, flusher, cancelled, closed, crash>>
      /\ \/ chan # <<>> /\ batch' = Append(batch, Head(chan)) /\ chan' = Tail(chan)
         \/ closed /\ batch' = Append(batch, NilEvent) /\ chan' = chan
  BY DEF Receive
<1>3. CASE chan # <<>> /\ batch' = Append(batch, Head(chan)) /\ chan' = Tail(chan)
  <2>1. /\ Tail(chan) \in Seq(Event) /\ Len(Tail(chan)) = Len(chan) - 1 /\ Head(chan) \in Event
        /\ Ids(chan) = Ids(Tail(chan)) \cup {Head(chan)}
        /\ NoRepeats(chan) => NoRepeats(Tail(chan)) /\ Head(chan) \notin Ids(Tail(chan))
    <3>1. Tail(chan) \in Seq(Event) /\ Head(chan) \in Event
      BY <1>1, <1>3
    <3> QED  BY <1>1, <1>3, <3>1, TailIds
  <2> DEFINE h == Head(chan)
  <2>2. h \in Slot /\ h # NilEvent
    BY <2>1, SizeFacts
  <2> HIDE DEF h
  <2>3. /\ batch' \in Seq(Slot) /\ Len(batch') = Len(batch) + 1 /\ Ids(batch') = Ids(batch) \cup {h}
        /\ NoRepeats(batch) /\ h \notin Ids(batch) => NoRepeats(batch')
    BY <1>1, <1>3, <2>2, AppendIds DEF h
  <2>8. chan' \in Seq(Event) /\ Len(chan') = Len(chan) - 1
    BY <1>3, <2>1
  <2>9. Len(chan') <= MaxSize /\ Len(batch') <= BatchCap
    BY <1>1, <1>2, <2>3, <2>8, SizeFacts
  <2>4. BufTypeOK'
    <3>1. chan' \in Seq(Event) /\ Len(chan') <= MaxSize /\ batch' \in Seq(Slot) /\ Len(batch') <= BatchCap
      BY <2>3, <2>8, <2>9
    <3> QED  BY <1>1, <1>2, <3>1 DEF BufTypeOK, Slot
  <2>5. ASSUME ~closed PROVE PlacesApart' /\ AllCounted' /\ PendingHeld'
    <3>1. PlacesApart /\ AllCounted /\ PendingHeld
      BY <2>5 DEF BufInv
    <3>2. /\ Ids(chan) = Ids(chan') \cup {h} /\ h \notin Ids(chan') /\ NoRepeats(chan')
          /\ Ids(batch') = Ids(batch) \cup {h} /\ h \notin Ids(batch)
      BY <1>3, <2>1, <2>3, <3>1 DEF PlacesApart, h
    <3>3. NoRepeats(batch')
      BY <2>3, <3>1, <3>2 DEF PlacesApart
    <3>4. PlacesApart'
      BY <1>2, <2>2, <3>1, <3>2, <3>3 DEF PlacesApart
    <3>5. Places' = Places
      BY <1>2, <3>2 DEF Places
    <3>6. AllCounted'
      BY <1>2, <3>1, <3>5 DEF AllCounted
    <3>7. Len(stored') + Len(batch') + Len(chan') = Len(stored) + Len(batch) + Len(chan)
      BY <1>1, <1>2, <2>3, <2>8
    <3> QED  BY <1>2, <3>1, <3>4, <3>6, <3>7 DEF PendingHeld
  <2> QED  BY <1>2, <2>4, <2>5 DEF BufInv
<1>4. CASE closed /\ batch' = Append(batch, NilEvent) /\ chan' = chan
  <2>1. batch' \in Seq(Slot) /\ Len(batch') = Len(batch) + 1
    BY <1>1, <1>4, AppendIds, SizeFacts
  <2>2. Len(batch') <= BatchCap
    BY <1>1, <1>2, <2>1, SizeFacts
  <2>3. BufTypeOK'
    BY <1>1, <1>2, <1>4, <2>1, <2>2 DEF BufTypeOK, Slot
  <2> QED  BY <1>2, <1>4, <2>3 DEF BufInv
<1> QED  BY <1>2, <1>3, <1>4

LEMMA StoreStep ==
  ASSUME BufInv, StoreBatch, UNCHANGED <<offered, taken>>, BatchCap <= MaxSize
  PROVE  BufInv'
<1>1. /\ BufTypeOK /\ batch \in Seq(Slot) /\ stored \in Seq(Slot)
      /\ Len(batch) \in Nat /\ Len(batch) <= BatchCap /\ Len(stored) \in Nat /\ Len(stored) <= MaxSize
      /\ dropped \in Nat /\ offered \in Nat /\ Len(chan) \in Nat
  BY TypeFacts DEF BufInv
<1> DEFINE k == Cuts(stored, batch)
           r == Stored(stored, batch)
<1>2. k \in Nat /\ (k = IF Len(stored) + Len(batch) <= MaxSize THEN 0 ELSE Len(batch))
  BY <1>1 DEF Cuts, Fits
<1>3. ~(k > MaxSize)
  BY <1>1, <1>2, SizeFacts
<1>4. /\ stored' = r /\ dropped' = dropped + k /\ batch' = <<>>
      /\ UNCHANGED <<crash, chan, pending, flusher, cancelled, closed, offered, taken>>
  BY <1>3 DEF StoreBatch
<1>5. r \in Seq(Slot) /\ Len(r) = (Len(stored) + Len(batch)) - k
  BY <1>1, StoredLeaves
<1> HIDE DEF k, r
<1>6. Len(r) <= MaxSize
  BY <1>1, <1>2, <1>5, SizeFacts
<1>7. <<>> \in Seq(Slot) /\ Len(<<>>) = 0 /\ Len(<<>>) <= BatchCap /\ Ids(<<>>) = {} /\ NoRepeats(<<>>)
  BY SizeFacts DEF Ids, NoRepeats
<1>8. BufTypeOK'
  <2>1. dropped' \in Nat
    BY <1>1, <1>2, <1>4
  <2> QED  BY <1>1, <1>4, <1>5, <1>6, <1>7, <2>1 DEF BufTypeOK, Slot
<1>9. ASSUME ~closed PROVE PlacesApart' /\ AllCounted' /\ PendingHeld'
  <2>1. PlacesApart /\ AllCounted /\ PendingHeld
    BY <1>9 DEF BufInv
  <2>2. PICK gone \in SUBSET (Ids(stored) \cup Ids(batch)) :
          /\ IsFiniteSet(gone) /\ Cardinality(gone) = k
          /\ Ids(r) = (Ids(stored) \cup Ids(batch)) \ gone
          /\ NoRepeats(r)
    <3>1. NoRepeats(stored) /\ NoRepeats(batch) /\ Ids(stored) \cap Ids(batch) = {}
      BY <2>1 DEF PlacesApart
    <3> QED  BY <1>1, <3>1, StoredIds DEF k, r
  <2>3. PlacesApart'
    BY <1>4, <1>7, <2>1, <2>2 DEF PlacesApart
  <2>4. gone \in SUBSET Places /\ Places' = Places \ gone
    <3>1. gone \cap Ids(chan) = {} /\ pending \notin gone
      BY <2>1, <2>2 DEF PlacesApart
    <3> QED  BY <1>4, <1>7, <2>2, <3>1 DEF Places
  <2>5. /\ Cardinality((Places \ gone) \cup taken) = Cardinality(Places \cup taken) - k
        /\ Places \cup taken \subseteq 1 .. offered
    BY <1>9, <2>2, <2>4, AccountsMove
  <2>6. AllCounted'
    <3>1. Places' \cup taken' \subseteq 1 .. offered' /\ Places' \cap taken' = {}
      BY <1>4, <2>1, <2>4, <2>5 DEF AllCounted
    <3>2. Cardinality(Places' \cup taken') = Cardinality(Places \cup taken) - k
      BY <1>4, <2>4, <2>5
    <3>3. dropped = offered - Cardinality(Places \cup taken) /\ Cardinality(Places \cup taken) \in Nat
      <4>1. IsFiniteSet(Places) /\ IsFiniteSet(taken)
        BY <1>1, <1>9, <2>1, <2>4, AccountsMove, PlacesCounted
      <4>2. IsFiniteSet(Places \cup taken)
        BY <4>1, FS_Union
      <4> QED  BY <2>1, <4>2, FS_CardinalityType DEF AllCounted
    <3>4. dropped' = offered' - Cardinality(Places' \cup taken')
      BY <1>1, <1>2, <1>4, <3>2, <3>3
    <3> QED  BY <3>1, <3>4 DEF AllCounted
  <2>7. PendingHeld'
    <3> SUFFICES ASSUME pending # NilEvent PROVE Len(stored') + Len(batch') + Len(chan') + BatchCap > MaxSize
      BY <1>4 DEF PendingHeld
    <3>1. Len(stored) + Len(batch) + Len(chan) + BatchCap > MaxSize
      BY <2>1 DEF PendingHeld
    <3>2. Len(stored') = (Len(stored) + Len(batch)) - k /\ Len(batch') = 0 /\ Len(chan') = Len(chan)
      BY <1>4, <1>5, <1>7
    <3>3. CASE Len(stored) + Len(batch) <= MaxSize
      BY <1>1, <1>2, <3>1, <3>2, <3>3, SizeFacts
    <3>4. CASE ~(Len(stored) + Len(batch) <= MaxSize)
      BY <1>1, <1>2, <3>2, <3>4, SizeFacts
    <3> QED  BY <3>3, <3>4
  <2> QED  BY <2>3, <2>6, <2>7
<1> QED  BY <1>4, <1>8, <1>9 DEF BufInv

(* An Enqueue that met a full channel takes the place of the oldest.       *)
LEMMA EnqueueFullStep ==
  ASSUME BufInv, EnqueueFull, UNCHANGED <<offered, taken>>
  PROVE  BufInv'
<1>1. /\ BufTypeOK /\ stored \in Seq(Slot) /\ Len(stored) \in Nat /\ Len(stored) <= MaxSize
      /\ dropped \in Nat /\ offered \in Nat /\ pending \in Slot
  BY TypeFacts DEF BufInv
<1> DEFINE rest == IF stored = <<>> THEN <<>> ELSE Tail(stored)
           gone == IF stored = <<>> THEN {} ELSE {Head(stored)}
           k == IF stored = <<>> THEN 0 ELSE 1
<1>2. /\ pending # NilEvent /\ stored' = Append(rest, pending) /\ dropped' = dropped + k /\ pending' = NilEvent
      /\ UNCHANGED <<chan, batch, flusher, cancelled, closed, crash, offered, taken>>
  BY <1>1 DEF EnqueueFull
<1>3. /\ rest \in Seq(Slot) /\ Len(rest) + 1 <= MaxSize /\ Len(rest) \in Nat
      /\ Ids(stored) = Ids(rest) \cup gone
      /\ NoRepeats(stored) => NoRepeats(rest) /\ Ids(rest) \cap gone = {}
      /\ IsFiniteSet(gone) /\ Cardinality(gone) = k
  <2>1. CASE stored = <<>>
    <3>1. Ids(<<>>) = {} /\ <<>> \in Seq(Slot) /\ Len(<<>>) = 0
      BY DEF Ids
    <3> QED  BY <2>1, <3>1, SizeFacts, FS_EmptySet
  <2>2. CASE stored # <<>>
    <3>1. /\ Tail(stored) \in Seq(Slot) /\ Len(Tail(stored)) = Len(stored) - 1
          /\ Ids(stored) = Ids(Tail(stored)) \cup {Head(stored)}
          /\ NoRepeats(stored) => NoRepeats(Tail(stored)) /\ Head(stored) \notin Ids(Tail(stored))
      BY <1>1, <2>2, TailIds
    <3>2. IsFiniteSet({Head(stored)}) /\ Cardinality({Head(stored)}) = 1
      BY FS_Singleton
    <3>3. Len(Tail(stored)) \in Nat
      BY <3>1
    <3> QED  BY <1>1, <2>2, <3>1, <3>2, <3>3, SizeFacts
  <2> QED  BY <2>1, <2>2
<1>4. k \in Nat
  OBVIOUS
<1> HIDE DEF rest, gone, k
<1>5. /\ stored' \in Seq(Slot) /\ Len(stored') = Len(rest) + 1 /\ Ids(stored') = Ids(rest) \cup {pending}
      /\ NoRepeats(rest) /\ pending \notin Ids(rest) => NoRepeats(stored')
  BY <1>1, <1>2, <1>3, AppendIds
<1>6. BufTypeOK'
  <2>1. dropped' \in Nat /\ Len(stored') <= MaxSize
    BY <1>1, <1>2, <1>3, <1>4, <1>5, SizeFacts
  <2> QED  BY <1>1, <1>2, <1>5, <2>1 DEF BufTypeOK, Slot
<1>7. ASSUME ~closed PROVE PlacesApart' /\ AllCounted' /\ PendingHeld'
  <2>1. PlacesApart /\ AllCounted
    BY <1>7 DEF BufInv
  <2>2. Ids(rest) = Ids(stored) \ gone /\ gone \in SUBSET Ids(stored) /\ NoRepeats(rest)
    BY <1>3, <2>1 DEF PlacesApart
  <2>3. NoRepeats(stored') /\ Ids(stored') = Ids(rest) \cup {pending} /\ pending \notin Ids(batch) \cup Ids(chan)
    BY <1>5, <2>1, <2>2 DEF PlacesApart
  <2>4. NilEvent \notin Ids(stored') /\ NilEvent \notin Ids(chan)
    BY <1>1, <1>2, <2>1, <2>2, <2>3, TypeFacts, SizeFacts DEF PlacesApart
  <2>5. PlacesApart'
    BY <1>2, <2>1, <2>2, <2>3, <2>4 DEF PlacesApart
  <2>6. gone \in SUBSET Places /\ Places' = Places \ gone
    <3>1. gone \cap (Ids(batch) \cup Ids(chan)) = {} /\ pending \notin gone
      BY <2>1, <2>2 DEF PlacesApart
    <3> QED  BY <1>2, <2>2, <2>3, <3>1 DEF Places
  <2>7. /\ Cardinality((Places \ gone) \cup taken) = Cardinality(Places \cup taken) - k
        /\ Places \cup taken \subseteq 1 .. offered /\ IsFiniteSet(taken)
    BY <1>3, <1>7, <2>6, AccountsMove
  <2>8. AllCounted'
    <3>1. Places' \cup taken' \subseteq 1 .. offered' /\ Places' \cap taken' = {}
      BY <1>2, <2>1, <2>6, <2>7 DEF AllCounted
    <3>2. Cardinality(Places' \cup taken') = Cardinality(Places \cup taken) - k
      BY <1>2, <2>6, <2>7
    <3>3. dropped = offered - Cardinality(Places \cup taken) /\ Cardinality(Places \cup taken) \in Nat
      <4>1. IsFiniteSet(Places)
        BY <1>1, <2>1, PlacesCounted
      <4>2. IsFiniteSet(Places \cup taken)
        BY <2>7, <4>1, FS_Union
      <4> QED  BY <2>1, <4>2, FS_CardinalityType DEF AllCounted
    <3>4. dropped' = offered' - Cardinality(Places' \cup taken')
      BY <1>1, <1>2, <1>4, <3>2, <3>3
    <3> QED  BY <3>1, <3>4 DEF AllCounted
  <2>9. PendingHeld'
    BY <1>2 DEF PendingHeld
  <2> QED  BY <2>5, <2>8, <2>9
<1> QED  BY <1>2, <1>6, <1>7 DEF BufInv

LEMMA BufInitially == BufInit => BufInv
<1> SUFFICES ASSUME BufInit PROVE BufInv
  OBVIOUS
<1>1. /\ chan = <<>> /\ batch = <<>> /\ stored = <<>> /\ dropped = 0 /\ pending = NilEvent /\ flusher = "running"
      /\ cancelled = FALSE /\ closed = FALSE /\ crash = "none" /\ offered = 0 /\ taken = {}
  BY DEF BufInit, BufferInit
<1>2. Ids(<<>>) = {} /\ NoRepeats(<<>>) /\ Len(<<>>) = 0 /\ Cardinality({}) = 0
  BY FS_EmptySet DEF Ids, NoRepeats
<1>3. BufTypeOK
  <2>1. <<>> \in Seq(Event) /\ <<>> \in Seq(Event \cup {NilEvent}) /\ 0 \in 0 .. MaxEvents /\ 0 \in Nat
    BY SizeFacts
  <2>2. Len(<<>>) <= MaxSize /\ Len(<<>>) <= BatchCap
    BY <1>2, SizeFacts
  <2> QED  BY <1>1, <2>1, <2>2 DEF BufTypeOK
<1>4. Places = {} /\ PlacesApart /\ PendingHeld
  BY <1>1, <1>2 DEF Places, PlacesApart, PendingHeld
<1>5. AllCounted
  BY <1>1, <1>2, <1>4 DEF AllCounted
<1> QED  BY <1>3, <1>4, <1>5 DEF BufInv

LEMMA BufStep == ASSUME BufInv, [BufNext]_bufVars, BatchCap <= MaxSize PROVE BufInv'
<1>1. CASE Offer
  BY <1>1, OfferStep
<1>2. CASE TakeAll \/ TakeOne
  BY <1>2, TakeStep
<1>3. CASE Flusher
  <2>1. CASE Receive /\ UNCHANGED <<offered, taken>>
    BY <2>1, ReceiveStep
  <2>2. CASE StoreBatch /\ UNCHANGED <<offered, taken>>
    BY <2>2, StoreStep
  <2>3. CASE FlusherExit /\ UNCHANGED <<offered, taken>>
    <3>1. /\ flusher' = "exited"
          /\ UNCHANGED <<chan, batch, stored, dropped, pending, cancelled, closed, crash, offered, taken>>
      BY <2>3 DEF FlusherExit
    <3> QED  BY <3>1 DEF BufInv, BufTypeOK, PlacesApart, AllCounted, Places, PendingHeld
  <2> QED  BY <1>3, <2>1, <2>2, <2>3 DEF Flusher
<1>4. CASE (EnqueueFull \/ StopCancel \/ StopClose) /\ UNCHANGED <<offered, taken>>
  <2>1. CASE EnqueueFull
    BY <1>4, <2>1, EnqueueFullStep
  <2>2. CASE StopCancel
    <3>1. /\ cancelled' = TRUE
          /\ UNCHANGED <<chan, batch, stored, dropped, pending, flusher, closed, crash, offered, taken>>
      BY <1>4, <2>2 DEF StopCancel
    <3> QED  BY <3>1 DEF BufInv, BufTypeOK, PlacesApart, AllCounted, Places, PendingHeld
  <2>3. CASE StopClose
    <3>1. /\ closed' = TRUE
          /\ UNCHANGED <<chan, batch, stored, dropped, pending, flusher, cancelled, crash, offered, taken>>
      BY <1>4, <2>3 DEF StopClose
    <3> QED  BY <3>1 DEF BufInv, BufTypeOK
  <2> QED  BY <1>4, <2>1, <2>2, <2>3
<1>5. CASE UNCHANGED bufVars
  BY <1>5 DEF bufVars, bufferVars, BufInv, BufTypeOK, PlacesApart, AllCounted, Places, PendingHeld
<1> QED  BY <1>1, <1>2, <1>3, <1>4, <1>5 DEF BufNext

-----------------------------------------------------------------------------
(* The loop of processBatch, for any slice and batch that fit the buffer:  *)
(* the first place where it would differ from the closed form follows one  *)
(* where it does not, so there is none.  A set of numbers has a least one. *)
LEMMA NatMin ==
  ASSUME NEW T, T \subseteq Nat, T # {}
  PROVE  \E n \in T : \A m \in T : n <= m
<1>1. IsWellFoundedOn(OpToRel(<,Nat), Nat)
  BY NatLessThanWellFounded
<1>2. PICK x \in T : \A y \in T : ~(<<y, x>> \in OpToRel(<, Nat))
  BY <1>1, WFMin
<1>3. ASSUME NEW y \in T PROVE x <= y
  <2>1. ~(<<y, x>> \in OpToRel(<, Nat))
    BY <1>2
  <2>2. x \in Nat /\ y \in Nat
    OBVIOUS
  <2>3. ~(y < x)
    BY <2>1, <2>2, Zenon DEF OpToRel
  <2> QED BY <2>2, <2>3
<1> QED BY <1>3

(* A piece of a sequence.                                                  *)
LEMMA Piece ==
  ASSUME NEW S, NEW u \in Seq(S), NEW a \in Nat, NEW m \in Nat, 1 <= a, a <= m + 1, m <= Len(u)
  PROVE  /\ SubSeq(u, a, m) \in Seq(S) /\ Len(SubSeq(u, a, m)) = (m - a) + 1
         /\ \A i \in 1 .. (m - a) + 1 : SubSeq(u, a, m)[i] = u[(a + i) - 1]
<1> DEFINE r == SubSeq(u, a, m)      n == Len(u)
<1>1. n \in Nat /\ m <= n /\ \A i \in 1 .. n : u[i] \in S
  OBVIOUS
<1> HIDE DEF n
<1>2. \A i \in a .. m : u[i] \in S
  <2> SUFFICES ASSUME NEW i \in a .. m PROVE u[i] \in S
    OBVIOUS
  <2>1. i \in 1 .. n
    BY <1>1
  <2> QED BY <1>1, <2>1
<1>3. /\ r \in Seq(S) /\ Len(r) = IF a <= m THEN m - a + 1 ELSE 0
      /\ \A i \in 1 .. m - a + 1 : r[i] = u[a + i - 1]
  BY <1>2, SMT
<1> HIDE DEF r
<1>4. Len(r) = (m - a) + 1
  BY <1>3
<1> QED BY <1>3, <1>4 DEF r

(* Sequences with the same elements are the same.                          *)
LEMMA SameSeq ==
  ASSUME NEW S, NEW p \in Seq(S), NEW q \in Seq(S), Len(p) = Len(q), \A i \in 1 .. Len(p) : p[i] = q[i]
  PROVE  p = q
OBVIOUS

(* A piece and the element after it; and a piece of the beginning.         *)
LEMMA PieceLonger ==
  ASSUME NEW S, NEW u \in Seq(S), NEW a \in Nat, NEW m \in Nat, 1 <= a, a <= m + 1, m + 1 <= Len(u)
  PROVE  Append(SubSeq(u, a, m), u[m + 1]) = SubSeq(u, a, m + 1)
<1> DEFINE p == SubSeq(u, a, m)      q == SubSeq(u, a, m + 1)      g == Append(p, u[m + 1])
<1>1. Len(u) \in Nat /\ u[m + 1] \in S
  OBVIOUS
<1>2. p \in Seq(S) /\ Len(p) = (m - a) + 1 /\ \A i \in 1 .. (m - a) + 1 : p[i] = u[(a + i) - 1]
  BY <1>1, Piece
<1>3. q \in Seq(S) /\ Len(q) = ((m + 1) - a) + 1 /\ \A i \in 1 .. ((m + 1) - a) + 1 : q[i] = u[(a + i) - 1]
  <2>1. m + 1 \in Nat /\ a <= (m + 1) + 1
    OBVIOUS
  <2> QED BY <1>1, <2>1, Piece
<1> HIDE DEF p, q
<1>4. g \in Seq(S) /\ Len(g) = Len(p) + 1 /\ g[Len(p) + 1] = u[m + 1] /\ \A i \in 1 .. Len(p) : g[i] = p[i]
  BY <1>1, <1>2
<1> HIDE DEF g
<1>5. Len(g) = Len(q)
  BY <1>2, <1>3, <1>4
<1>6. ASSUME NEW i \in 1 .. Len(g) PROVE g[i] = q[i]
  <2>1. q[i] = u[(a + i) - 1]
    BY <1>3, <1>5
  <2>2. CASE i \in 1 .. Len(p)
    BY <1>2, <1>4, <2>1, <2>2
  <2>3. CASE i = Len(p) + 1
    <3>1. (a + i) - 1 = m + 1
      BY <1>2, <2>3
    <3> QED BY <1>4, <2>1, <2>3, <3>1
  <2> QED BY <1>2, <1>4, <2>2, <2>3
<1>7. g = q
  BY <1>3, <1>4, <1>5, <1>6, SameSeq
<1> QED BY <1>7 DEF g, p, q

LEMMA PieceOfPiece ==
  ASSUME NEW S, NEW u \in Seq(S), NEW a \in Nat, NEW m \in Nat, 1 <= a, a <= m + 1, m <= Len(u)
  PROVE  SubSeq(SubSeq(u, 1, m), a, m) = SubSeq(u, a, m)
<1> DEFINE p == SubSeq(u, 1, m)      q == SubSeq(u, a, m)      r == SubSeq(p, a, m)
<1>1. p \in Seq(S) /\ Len(p) = (m - 1) + 1 /\ \A i \in 1 .. (m - 1) + 1 : p[i] = u[(1 + i) - 1]
  BY Piece
<1>2. q \in Seq(S) /\ Len(q) = (m - a) + 1 /\ \A i \in 1 .. (m - a) + 1 : q[i] = u[(a + i) - 1]
  BY Piece
<1> HIDE DEF p, q
<1>3. r \in Seq(S) /\ Len(r) = (m - a) + 1 /\ \A i \in 1 .. (m - a) + 1 : r[i] = p[(a + i) - 1]
  <2>1. m <= Len(p)
    BY <1>1
  <2> QED BY <1>1, <2>1, Piece
<1> HIDE DEF r
<1>4. ASSUME NEW i \in 1 .. Len(r) PROVE r[i] = q[i]
  <2>1. (a + i) - 1 \in 1 .. (m - 1) + 1 /\ (1 + ((a + i) - 1)) - 1 = (a + i) - 1
    BY <1>3
  <2>2. r[i] = p[(a + i) - 1] /\ q[i] = u[(a + i) - 1]
    BY <1>2, <1>3
  <2> QED BY <1>1, <2>1, <2>2
<1>5. r = q
  BY <1>2, <1>3, <1>4, SameSeq
<1> QED BY <1>5 DEF r, p, q

(* For any slice and batch no longer than the buffer: the loop of          *)
(* processBatch leaves Stored and counts Cuts as dropped.                  *)
THEOREM ProcessBatchStores ==
  ASSUME NEW S, NEW s \in Seq(S), NEW b \in Seq(S), Len(s) <= MaxSize, Len(b) <= MaxSize
  PROVE  processBatch(s, b) = [events |-> Stored(s, b), dropped |-> Cuts(s, b)]
<1> DEFINE u == s \o b      n == Len(s)      k == Len(b)
           c(i) == IF n + i <= MaxSize THEN 0 ELSE k
           g == [i \in 0 .. k |-> [events |-> SubSeq(u, c(i) + 1, n + i), dropped |-> c(i)]]
           base == [events |-> s, dropped |-> 0]
           Is(f) == f = [i \in 0 .. k |-> IF i = 0 THEN base ELSE StoreNext(k, f[i - 1], b[i])]
           f == CHOOSE h : Is(h)
<1>1. /\ n \in Nat /\ k \in Nat /\ MaxSize \in Nat /\ n <= MaxSize /\ k <= MaxSize
      /\ u \in Seq(S) /\ Len(u) = n + k /\ \A i \in 1 .. k : u[n + i] = b[i]
  BY SizeAssumption
<1>2. processBatch(s, b) = f[k]
  BY DEF processBatch
<1>3. SubSeq(u, 1, n) = s
  <2>1. \A i \in 1 .. n : u[i] = s[i]
    OBVIOUS
  <2> HIDE DEF u
  <2>2. SubSeq(u, 1, n) \in Seq(S) /\ Len(SubSeq(u, 1, n)) = (n - 1) + 1
        /\ \A i \in 1 .. (n - 1) + 1 : SubSeq(u, 1, n)[i] = u[(1 + i) - 1]
    BY <1>1, Piece
  <2>3. \A i \in 1 .. n : (1 + i) - 1 = i /\ i \in 1 .. (n - 1) + 1
    BY <1>1
  <2>4. Len(SubSeq(u, 1, n)) = n
    BY <1>1, <2>2
  <2> QED BY <2>1, <2>2, <2>3, <2>4, SameSeq
<1>4. Stored(s, b) = SubSeq(u, c(k) + 1, n + k) /\ Cuts(s, b) = c(k)
  BY <1>1 DEF Stored, Cuts, Fits
<1> HIDE DEF u, n, k
<1>5. ASSUME NEW i \in 1 .. k PROVE StoreNext(k, g[i - 1], b[i]) = g[i]
  <2> DEFINE p == SubSeq(u, c(i - 1) + 1, n + (i - 1))
  <2>1. g[i - 1] = [events |-> p, dropped |-> c(i - 1)]
    BY <1>1
  <2>2. g[i] = [events |-> SubSeq(u, c(i) + 1, n + i), dropped |-> c(i)]
    BY <1>1
  <2>3. /\ i \in Nat /\ i - 1 \in Nat /\ n + (i - 1) \in Nat /\ (n + (i - 1)) + 1 = n + i /\ n + i <= Len(u)
        /\ u[(n + (i - 1)) + 1] = b[i]
    BY <1>1
  <2>4. Len(p) = (n + (i - 1)) - c(i - 1)
    <3>0. c(i - 1) \in Nat /\ c(i - 1) <= n + (i - 1)
      BY <1>1, <2>3
    <3> HIDE DEF c
    <3>1. c(i - 1) + 1 \in Nat /\ 1 <= c(i - 1) + 1 /\ c(i - 1) + 1 <= (n + (i - 1)) + 1 /\ n + (i - 1) <= Len(u)
      BY <1>1, <2>3, <3>0
    <3>2. Len(p) = ((n + (i - 1)) - (c(i - 1) + 1)) + 1
      BY <1>1, <2>3, <3>1, Piece
    <3> QED BY <1>1, <2>3, <3>0, <3>2
  <2>5. CASE n + (i - 1) # MaxSize
    <3>1. c(i) = c(i - 1) /\ Len(p) < MaxSize
      <4> HIDE DEF p
      <4>1. CASE n + (i - 1) < MaxSize
        <5>1. c(i) = 0 /\ c(i - 1) = 0
          BY <1>1, <2>3, <4>1
        <5> QED BY <1>1, <2>4, <4>1, <5>1
      <4>2. CASE n + (i - 1) > MaxSize
        <5>1. c(i) = k /\ c(i - 1) = k
          BY <1>1, <2>3, <4>2
        <5> QED BY <1>1, <2>4, <5>1
      <4> QED BY <1>1, <2>3, <2>5, <4>1, <4>2
    <3>2. StoreNext(k, g[i - 1], b[i]) = [events |-> Append(p, b[i]), dropped |-> c(i - 1)]
      <4> HIDE DEF p, c, g
      <4>1. ~(Len(p) >= MaxSize)
        BY <1>1, <2>3, <2>4, <3>1
      <4> QED BY <2>1, <4>1 DEF StoreNext
    <3>3. Append(p, b[i]) = SubSeq(u, c(i) + 1, n + i)
      <4>1. c(i - 1) + 1 \in Nat /\ 1 <= c(i - 1) + 1 /\ c(i - 1) + 1 <= (n + (i - 1)) + 1
        BY <1>1, <2>3
      <4>2. Append(SubSeq(u, c(i - 1) + 1, n + (i - 1)), u[(n + (i - 1)) + 1]) = SubSeq(u, c(i - 1) + 1, (n + (i - 1)) + 1)
        BY <1>1, <2>3, <4>1, PieceLonger
      <4> QED BY <2>3, <3>1, <4>2
    <3> QED BY <2>2, <3>1, <3>2, <3>3
  <2>6. CASE n + (i - 1) = MaxSize
    <3>1. c(i) = k /\ c(i - 1) = 0 /\ Len(p) = MaxSize /\ k > 0
      <4> HIDE DEF p
      <4>1. c(i) = k /\ c(i - 1) = 0
        BY <1>1, <2>3, <2>6
      <4> HIDE DEF c
      <4> QED BY <1>1, <2>3, <2>4, <2>6, <4>1
    <3>2. p = SubSeq(u, 1, MaxSize)
      <4>1. c(i - 1) + 1 = 1
        BY <3>1
      <4> QED BY <2>6, <4>1
    <3>3. SubSeq(p, k + 1, MaxSize) = SubSeq(u, k + 1, MaxSize)
      <4>1. k + 1 \in Nat /\ 1 <= k + 1 /\ k + 1 <= MaxSize + 1 /\ MaxSize <= Len(u)
        BY <1>1, <2>3, <2>6
      <4> HIDE DEF p, c, g
      <4> QED BY <1>1, <3>2, <4>1, PieceOfPiece
    <3>4. StoreNext(k, g[i - 1], b[i]) = [events |-> Append(SubSeq(p, k + 1, MaxSize), b[i]), dropped |-> k]
      <4> HIDE DEF p, c, g
      <4>1. Len(p) + k - MaxSize = k /\ Len(p) >= MaxSize /\ 0 + k = k
        BY <1>1, <3>1
      <4>2. g[i - 1].events = p /\ g[i - 1].dropped = 0
        BY <2>1, <3>1
      <4>3. StoreNext(k, g[i - 1], b[i]) =
              [events |-> Append(SubSeq(p, k + 1, Len(p)), b[i]), dropped |-> 0 + k]
        BY <3>1, <4>1, <4>2 DEF StoreNext
      <4> QED BY <3>1, <4>1, <4>3
    <3>5. Append(SubSeq(u, k + 1, MaxSize), u[MaxSize + 1]) = SubSeq(u, k + 1, MaxSize + 1)
      <4>1. k + 1 \in Nat /\ 1 <= k + 1 /\ k + 1 <= MaxSize + 1 /\ MaxSize + 1 <= Len(u)
        BY <1>1, <2>3, <2>6
      <4> HIDE DEF p, c, g
      <4> QED BY <1>1, <4>1, PieceLonger
    <3>6. MaxSize + 1 = n + i /\ u[MaxSize + 1] = b[i]
      BY <2>3, <2>6
    <3> QED BY <2>2, <3>1, <3>3, <3>4, <3>5, <3>6
  <2> QED BY <2>5, <2>6
<1>6. g[0] = base
  <2>1. 0 \in 0 .. k /\ c(0) = 0 /\ n + 0 = n /\ 0 + 1 = 1
    BY <1>1
  <2>2. g[0] = [events |-> SubSeq(u, c(0) + 1, n + 0), dropped |-> c(0)]
    BY <2>1
  <2>3. SubSeq(u, c(0) + 1, n + 0) = SubSeq(u, 0 + 1, n)
    BY <2>1
  <2>4. SubSeq(u, 0 + 1, n) = s
    BY <1>3, <2>1
  <2> HIDE DEF g, c
  <2> QED BY <2>1, <2>2, <2>3, <2>4
<1>7. g = [i \in 0 .. k |-> g[i]]
  OBVIOUS
<1> HIDE DEF g, base, c
<1>8. Is(g)
  <2>1. ASSUME NEW i \in 0 .. k PROVE g[i] = IF i = 0 THEN base ELSE StoreNext(k, g[i - 1], b[i])
    BY <1>1, <1>5, <1>6
  <2> QED BY <1>7, <2>1
<1>9. Is(f)
  BY <1>8
<1>10. \A i \in 0 .. k : f[i] = IF i = 0 THEN base ELSE StoreNext(k, f[i - 1], b[i])
  BY <1>9
<1> HIDE DEF f, Is
<1>11. f[k] = g[k]
  <2> DEFINE T == {i \in 0 .. k : f[i] # g[i]}
  <2> SUFFICES ASSUME f[k] # g[k] PROVE FALSE
    OBVIOUS
  <2>0. k \in 0 .. k
    BY <1>1
  <2>1. T \subseteq Nat /\ T # {}
    BY <2>0
  <2>2. PICK i \in T : \A j \in T : i <= j
    BY <2>1, NatMin
  <2>3. CASE i = 0
    BY <1>6, <1>10, <2>2, <2>3
  <2>4. CASE i # 0
    <3>1. i - 1 \in 0 .. k /\ i \in 1 .. k /\ ~(i <= i - 1)
      BY <1>1, <2>4
    <3>2. f[i - 1] = g[i - 1]
      BY <2>2, <3>1
    <3> QED BY <1>5, <1>10, <2>2, <2>4, <3>1, <3>2
  <2> QED BY <2>3, <2>4
<1>12. g[k] = [events |-> SubSeq(u, c(k) + 1, n + k), dropped |-> c(k)]
  BY <1>1 DEF g
<1> QED BY <1>2, <1>4, <1>11, <1>12

-----------------------------------------------------------------------------
(* The order of the line.  A step leaves a suffix of it, or one more event *)
(* at its end.                                                             *)
SuffixOf(r, u) ==
  \E k \in Nat : Len(r) = Len(u) - k /\ \A i \in 1 .. Len(r) : r[i] = u[i + k]

LEMMA SuffixIncreases ==
  ASSUME NEW u \in Seq(Slot), NEW r \in Seq(Slot), SuffixOf(r, u), Increasing(u)
  PROVE  Increasing(r)
<1>1. PICK k \in Nat : Len(r) = Len(u) - k /\ \A i \in 1 .. Len(r) : r[i] = u[i + k]
  BY DEF SuffixOf
<1>2. DOMAIN r = 1 .. Len(r) /\ DOMAIN u = 1 .. Len(u) /\ Len(r) \in Nat /\ Len(u) \in Nat
  OBVIOUS
<1> SUFFICES ASSUME NEW i \in 1 .. Len(r), NEW j \in 1 .. Len(r), i < j PROVE r[i] < r[j]
  BY <1>2 DEF Increasing
<1>3. i + k \in 1 .. Len(u) /\ j + k \in 1 .. Len(u) /\ i + k < j + k
  BY <1>1, <1>2
<1>4. u[i + k] < u[j + k]
  BY <1>2, <1>3 DEF Increasing
<1> QED  BY <1>1, <1>4

(* Where the line has what.                                                *)
LEMMA ConcatAt ==
  ASSUME NEW s \in Seq(Slot), NEW t \in Seq(Slot)
  PROVE  /\ s \o t \in Seq(Slot) /\ Len(s \o t) = Len(s) + Len(t) /\ Len(s) \in Nat /\ Len(t) \in Nat
         /\ \A i \in 1 .. Len(s) : (s \o t)[i] = s[i]
         /\ \A i \in Len(s) + 1 .. Len(s) + Len(t) : (s \o t)[i] = t[i - Len(s)]
OBVIOUS
LEMMA LineAt ==
  ASSUME NEW s \in Seq(Slot), NEW b \in Seq(Slot), NEW c \in Seq(Slot)
  PROVE  /\ s \o b \o c \in Seq(Slot) /\ Len(s \o b \o c) = Len(s) + Len(b) + Len(c)
         /\ \A i \in 1 .. Len(s) : (s \o b \o c)[i] = s[i]
         /\ \A i \in Len(s) + 1 .. Len(s) + Len(b) : (s \o b \o c)[i] = b[i - Len(s)]
         /\ \A i \in 1 .. Len(s) + Len(b) : (s \o b \o c)[i] = (s \o b)[i]
         /\ \A i \in Len(s) + Len(b) + 1 .. Len(s) + Len(b) + Len(c) :
              (s \o b \o c)[i] = c[i - (Len(s) + Len(b))]
<1> DEFINE u == s \o b
           n == Len(s)
           m == Len(b)
<1>1. /\ u \in Seq(Slot) /\ Len(u) = n + m /\ n \in Nat /\ m \in Nat /\ Len(c) \in Nat
      /\ \A i \in 1 .. n : u[i] = s[i]
      /\ \A i \in n + 1 .. n + m : u[i] = b[i - n]
  OBVIOUS
<1> HIDE DEF u
<1>2. /\ u \o c \in Seq(Slot) /\ Len(u \o c) = Len(u) + Len(c)
      /\ \A i \in 1 .. Len(u) : (u \o c)[i] = u[i]
      /\ \A i \in Len(u) + 1 .. Len(u) + Len(c) : (u \o c)[i] = c[i - Len(u)]
  BY <1>1, ConcatAt
<1> HIDE DEF n, m
<1>3. /\ \A i \in 1 .. n : (u \o c)[i] = s[i]
      /\ \A i \in n + 1 .. n + m : (u \o c)[i] = b[i - n]
      /\ \A i \in 1 .. n + m : (u \o c)[i] = u[i]
      /\ \A i \in (n + m) + 1 .. (n + m) + Len(c) : (u \o c)[i] = c[i - (n + m)]
  <2>1. \A i \in 1 .. n : i \in 1 .. Len(u)
    BY <1>1
  <2>2. \A i \in n + 1 .. n + m : i \in 1 .. Len(u)
    BY <1>1
  <2> QED  BY <1>1, <1>2, <2>1, <2>2
<1>4. u \o c \in Seq(Slot) /\ Len(u \o c) = n + m + Len(c)
  BY <1>1, <1>2
<1> QED  BY <1>3, <1>4, Zenon DEF u, n, m

LEMMA LineSuffix ==
  ASSUME BufInv, ~closed, [BufNext]_bufVars, Idle, BatchCap <= MaxSize
  PROVE  \/ SuffixOf(Line', Line)
         \/ offered' = offered + 1 /\ Line' = stored \o batch \o Append(chan, offered')
<1> DEFINE n == Len(stored)
           m == Len(batch)
           l == Len(chan)
<1>1. /\ BufTypeOK /\ stored \in Seq(Slot) /\ batch \in Seq(Slot) /\ chan \in Seq(Slot)
      /\ n \in Nat /\ m \in Nat /\ l \in Nat
  BY TypeFacts DEF BufInv
<1>2. /\ Line \in Seq(Slot) /\ Len(Line) = n + m + l
      /\ \A i \in 1 .. n : Line[i] = stored[i]
      /\ \A i \in n + 1 .. n + m : Line[i] = batch[i - n]
      /\ \A i \in 1 .. n + m : Line[i] = (stored \o batch)[i]
      /\ \A i \in n + m + 1 .. n + m + l : Line[i] = chan[i - (n + m)]
  BY <1>1, LineAt, SMTT(30) DEF Line
<1>3. Len(<<>>) = 0 /\ <<>> \in Seq(Slot)
  BY SMTT(30)
<1>4. CASE UNCHANGED <<stored, batch, chan>>
  <2>1. Line' = Line
    BY <1>4 DEF Line
  <2>2. 0 \in Nat /\ Len(Line) = Len(Line) - 0 /\ \A i \in 1 .. Len(Line) : Line[i] = Line[i + 0]
    BY <1>1, <1>2
  <2> QED  BY <2>1, <2>2 DEF SuffixOf
<1>5. CASE Offer
  <2>1. IF l < MaxSize THEN chan' = Append(chan, offered + 1) ELSE chan' = chan
    BY <1>5 DEF Offer, EnqueueSend
  <2>2. UNCHANGED <<stored, batch>> /\ offered' = offered + 1
    BY <1>5 DEF Offer, EnqueueSend
  <2>3. CASE l < MaxSize
    BY <2>1, <2>2, <2>3 DEF Line
  <2>4. CASE ~(l < MaxSize)
    BY <1>4, <2>1, <2>2, <2>4
  <2> QED  BY <2>3, <2>4
<1>6. CASE TakeAll
  <2>1. stored' = <<>> /\ UNCHANGED <<batch, chan>>
    BY <1>6 DEF TakeAll, Flush
  <2> DEFINE v == <<>> \o batch \o chan
  <2>2. /\ Len(v) = 0 + m + l
        /\ \A i \in 0 + 1 .. 0 + m : v[i] = batch[i - 0]
        /\ \A i \in 0 + m + 1 .. 0 + m + l : v[i] = chan[i - (0 + m)]
    BY <1>1, <1>3, LineAt
  <2>3. Line' = v
    BY <2>1 DEF Line
  <2> HIDE DEF v, n, m, l
  <2>4. ASSUME NEW i \in 1 .. m + l PROVE v[i] = Line[i + n]
    <3>1. CASE i \in 1 .. m
      <4>1. i \in 0 + 1 .. 0 + m /\ i + n \in n + 1 .. n + m /\ (i + n) - n = i /\ i - 0 = i
        BY <1>1, <3>1
      <4> QED  BY <1>2, <2>2, <4>1
    <3>2. CASE i \in m + 1 .. m + l
      <4>1. /\ i \in 0 + m + 1 .. 0 + m + l /\ i + n \in n + m + 1 .. n + m + l
            /\ (i + n) - (n + m) = i - (0 + m)
        BY <1>1, <3>2
      <4> QED  BY <1>2, <2>2, <4>1
    <3> QED  BY <1>1, <3>1, <3>2
  <2>5. Len(v) = m + l /\ Len(v) = Len(Line) - n
    BY <1>1, <1>2, <2>2
  <2>6. n \in Nat /\ Len(Line') = Len(Line) - n /\ \A i \in 1 .. Len(Line') : Line'[i] = Line[i + n]
    BY <1>1, <2>3, <2>4, <2>5
  <2> QED  BY <2>6 DEF SuffixOf
<1>7. CASE TakeOne
  <2>1. stored # <<>> /\ stored' = Tail(stored) /\ UNCHANGED <<batch, chan>>
    BY <1>7 DEF TakeOne, Dequeue
  <2>2. stored' \in Seq(Slot) /\ Len(stored') = n - 1 /\ n >= 1 /\ \A i \in 1 .. n - 1 : stored'[i] = stored[i + 1]
    BY <1>1, <2>1
  <2>3. /\ Len(Line') = (n - 1) + m + l
        /\ \A i \in 1 .. (n - 1) : Line'[i] = stored'[i]
        /\ \A i \in (n - 1) + 1 .. (n - 1) + m : Line'[i] = batch[i - (n - 1)]
        /\ \A i \in (n - 1) + m + 1 .. (n - 1) + m + l : Line'[i] = chan[i - ((n - 1) + m)]
    <3>1. Line' = stored' \o batch \o chan
      BY <2>1 DEF Line
    <3>2. /\ Len(stored' \o batch \o chan) = Len(stored') + Len(batch) + Len(chan)
          /\ \A i \in 1 .. Len(stored') : (stored' \o batch \o chan)[i] = stored'[i]
          /\ \A i \in Len(stored') + 1 .. Len(stored') + Len(batch) : (stored' \o batch \o chan)[i] = batch[i - Len(stored')]
          /\ \A i \in Len(stored') + Len(batch) + 1 .. Len(stored') + Len(batch) + Len(chan) :
               (stored' \o batch \o chan)[i] = chan[i - (Len(stored') + Len(batch))]
      <4>1. stored' \in Seq(Slot) /\ batch \in Seq(Slot) /\ chan \in Seq(Slot)
        BY <1>1, <2>2
      <4> QED  BY <4>1, LineAt, ZenonT(40)
    <3> QED  BY <2>2, <3>1, <3>2
  <2> HIDE DEF n, m, l
  <2>4. ASSUME NEW i \in 1 .. (n - 1) + m + l PROVE Line'[i] = Line[i + 1]
    <3>1. CASE i \in 1 .. n - 1
      <4>1. i + 1 \in 1 .. n
        BY <1>1, <3>1
      <4> QED  BY <1>2, <2>2, <2>3, <3>1, <4>1
    <3>2. CASE i \in (n - 1) + 1 .. (n - 1) + m
      <4>1. i + 1 \in n + 1 .. n + m /\ (i + 1) - n = i - (n - 1)
        BY <1>1, <3>2
      <4> QED  BY <1>2, <2>3, <3>2, <4>1
    <3>3. CASE i \in (n - 1) + m + 1 .. (n - 1) + m + l
      <4>1. i + 1 \in n + m + 1 .. n + m + l /\ (i + 1) - (n + m) = i - ((n - 1) + m)
        BY <1>1, <3>3
      <4> QED  BY <1>2, <2>3, <3>3, <4>1
    <3> QED  BY <1>1, <3>1, <3>2, <3>3
  <2>5. 1 \in Nat /\ Len(Line') = Len(Line) - 1
    BY <1>1, <1>2, <2>2, <2>3
  <2> QED  BY <2>3, <2>4, <2>5 DEF SuffixOf
<1>8. CASE Receive
  <2>1. chan # <<>> /\ batch' = Append(batch, Head(chan)) /\ chan' = Tail(chan) /\ stored' = stored
    BY <1>8 DEF Receive
  <2>2. /\ chan' \in Seq(Slot) /\ Len(chan') = l - 1 /\ l >= 1 /\ Head(chan) = chan[1] /\ chan[1] \in Slot
        /\ \A i \in 1 .. l - 1 : chan'[i] = chan[i + 1]
    BY <1>1, <2>1
  <2>3. /\ batch' \in Seq(Slot) /\ Len(batch') = m + 1 /\ batch'[m + 1] = chan[1]
        /\ \A i \in 1 .. m : batch'[i] = batch[i]
    <3>1. batch' = Append(batch, chan[1])
      BY <2>1, <2>2
    <3> QED  BY <1>1, <2>2, <3>1
  <2>4. /\ Len(Line') = n + (m + 1) + (l - 1)
        /\ \A i \in 1 .. n : Line'[i] = stored[i]
        /\ \A i \in n + 1 .. n + (m + 1) : Line'[i] = batch'[i - n]
        /\ \A i \in n + (m + 1) + 1 .. n + (m + 1) + (l - 1) : Line'[i] = chan'[i - (n + (m + 1))]
    <3>1. Line' = stored \o batch' \o chan'
      BY <2>1 DEF Line
    <3>2. /\ Len(stored \o batch' \o chan') = Len(stored) + Len(batch') + Len(chan')
          /\ \A i \in 1 .. Len(stored) : (stored \o batch' \o chan')[i] = stored[i]
          /\ \A i \in Len(stored) + 1 .. Len(stored) + Len(batch') : (stored \o batch' \o chan')[i] = batch'[i - Len(stored)]
          /\ \A i \in Len(stored) + Len(batch') + 1 .. Len(stored) + Len(batch') + Len(chan') :
               (stored \o batch' \o chan')[i] = chan'[i - (Len(stored) + Len(batch'))]
      <4>1. stored \in Seq(Slot) /\ batch' \in Seq(Slot) /\ chan' \in Seq(Slot)
        BY <1>1, <2>2, <2>3
      <4> QED  BY <4>1, LineAt, ZenonT(40)
    <3> QED  BY <2>2, <2>3, <3>1, <3>2
  <2> HIDE DEF n, m, l
  <2>5. ASSUME NEW i \in 1 .. n + m + l PROVE Line'[i] = Line[i]
    <3>1. CASE i \in 1 .. n
      BY <1>2, <2>4, <3>1
    <3>2. CASE i \in n + 1 .. n + m
      <4>1. i \in n + 1 .. n + (m + 1) /\ i - n \in 1 .. m
        BY <1>1, <3>2
      <4> QED  BY <1>2, <2>3, <2>4, <3>2, <4>1
    <3>3. CASE i = n + m + 1
      <4>1. /\ i \in n + 1 .. n + (m + 1) /\ i - n = m + 1
            /\ i \in n + m + 1 .. n + m + l /\ i - (n + m) = 1
        BY <1>1, <2>2, <3>3
      <4> QED  BY <1>2, <2>3, <2>4, <4>1
    <3>4. CASE i \in n + m + 2 .. n + m + l
      <4>1. /\ i \in n + (m + 1) + 1 .. n + (m + 1) + (l - 1) /\ i - (n + (m + 1)) \in 1 .. l - 1
            /\ (i - (n + (m + 1))) + 1 = i - (n + m) /\ i \in n + m + 1 .. n + m + l
        BY <1>1, <3>4
      <4> QED  BY <1>2, <2>2, <2>4, <4>1
    <3> QED  BY <1>1, <3>1, <3>2, <3>3, <3>4
  <2>6. Len(Line') = Len(Line) - 0 /\ Len(Line') = n + m + l /\ \A i \in 1 .. n + m + l : i + 0 = i
    BY <1>1, <1>2, <2>4
  <2>7. 0 \in Nat /\ \A i \in 1 .. Len(Line') : Line'[i] = Line[i + 0]
    BY <2>5, <2>6
  <2> QED  BY <2>6, <2>7 DEF SuffixOf
<1>9. CASE StoreBatch
  <2> DEFINE k == Cuts(stored, batch)
  <2>1. ~(k > MaxSize)
    <3>1. k = 0 \/ k = m
      BY DEF Cuts
    <3>2. m <= BatchCap
      BY <1>1, TypeFacts
    <3> QED  BY <1>1, <3>1, <3>2, SizeFacts
  <2>2. stored' = Stored(stored, batch) /\ batch' = <<>> /\ chan' = chan
    BY <1>9, <2>1 DEF StoreBatch
  <2>3. /\ k \in Nat /\ k <= n + m /\ stored' \in Seq(Slot) /\ Len(stored') = (n + m) - k
        /\ \A i \in 1 .. Len(stored') : stored'[i] = (stored \o batch)[i + k]
    BY <1>1, <2>2, StoredLeaves
  <2> HIDE DEF k
  <2> DEFINE q == (n + m) - k
  <2>4. q \in Nat /\ q + k = n + m
    BY <1>1, <2>3
  <2>5. /\ Len(Line') = q + 0 + l
        /\ \A i \in 1 .. q : Line'[i] = stored'[i]
        /\ \A i \in q + 0 + 1 .. q + 0 + l : Line'[i] = chan[i - (q + 0)]
    <3>1. Line' = stored' \o batch' \o chan
      BY <2>2 DEF Line
    <3>2. /\ Len(stored' \o batch' \o chan) = Len(stored') + Len(batch') + Len(chan)
          /\ \A i \in 1 .. Len(stored') : (stored' \o batch' \o chan)[i] = stored'[i]
          /\ \A i \in Len(stored') + 1 .. Len(stored') + Len(batch') : (stored' \o batch' \o chan)[i] = batch'[i - Len(stored')]
          /\ \A i \in Len(stored') + Len(batch') + 1 .. Len(stored') + Len(batch') + Len(chan) :
               (stored' \o batch' \o chan)[i] = chan[i - (Len(stored') + Len(batch'))]
      <4>1. stored' \in Seq(Slot) /\ batch' \in Seq(Slot) /\ chan \in Seq(Slot)
        BY <1>1, <1>3, <2>2, <2>3
      <4> QED  BY <4>1, LineAt, ZenonT(40)
    <3> QED  BY <1>3, <2>2, <2>3, <3>1, <3>2
  <2> HIDE DEF q, n, m, l
  <2>6. ASSUME NEW i \in 1 .. q + l PROVE Line'[i] = Line[i + k]
    <3>1. CASE i \in 1 .. q
      <4>1. i + k \in 1 .. n + m /\ i \in 1 .. Len(stored')
        BY <1>1, <2>3, <2>4, <3>1 DEF q
      <4> QED  BY <1>2, <2>3, <2>5, <3>1, <4>1
    <3>2. CASE i \in q + 1 .. q + l
      <4>1. /\ i \in q + 0 + 1 .. q + 0 + l /\ i + k \in n + m + 1 .. n + m + l
            /\ (i + k) - (n + m) = i - (q + 0)
        BY <1>1, <2>3, <2>4, <3>2
      <4> QED  BY <1>2, <2>5, <4>1
    <3> QED  BY <1>1, <2>4, <3>1, <3>2
  <2>7. Len(Line') = q + l /\ Len(Line') = Len(Line) - k
    BY <1>1, <1>2, <2>3, <2>4, <2>5
  <2> QED  BY <2>3, <2>6, <2>7 DEF SuffixOf
<1>10. CASE UNCHANGED bufVars
  BY <1>4, <1>10 DEF bufVars, bufferVars
<1>11. CASE (StopCancel \/ StopClose \/ FlusherExit)
  BY <1>4, <1>11 DEF StopCancel, StopClose, FlusherExit
<1>12. ~EnqueueFull
  BY DEF EnqueueFull, Idle
<1> QED  BY <1>5, <1>6, <1>7, <1>8, <1>9, <1>10, <1>11, <1>12 DEF BufNext, Flusher

LEMMA OrderStep ==
  ASSUME BufInv, ~closed, [BufNext]_bufVars, Idle, BatchCap <= MaxSize, Increasing(Line)
  PROVE  Increasing(Line)'
<1>1. BufTypeOK /\ BufTypeOK' /\ PlacesApart /\ AllCounted
  BY BufStep DEF BufInv
<1>2. /\ Line \in Seq(Slot) /\ stored \in Seq(Slot) /\ batch \in Seq(Slot) /\ chan \in Seq(Slot)
      /\ offered \in Nat /\ Held = Places
  BY <1>1, TypeFacts, PlacesCounted
<1>3. CASE SuffixOf(Line', Line)
  <2>1. Line' \in Seq(Slot)
    <3>1. chan' \in Seq(Slot) /\ batch' \in Seq(Slot) /\ stored' \in Seq(Slot)
      <4>1. chan' \in Seq(Event) /\ batch' \in Seq(Slot) /\ stored' \in Seq(Slot)
        BY <1>1 DEF BufTypeOK, Slot
      <4> QED  BY <4>1 DEF Slot
    <3>2. stored' \o batch' \o chan' \in Seq(Slot)
      BY <3>1, LineAt
    <3> QED  BY <3>2 DEF Line
  <2>2. Increasing(Line')
    BY <1>2, <1>3, <2>1, SuffixIncreases
  <2> QED  BY <2>2 DEF Increasing
<1>4. CASE offered' = offered + 1 /\ Line' = stored \o batch \o Append(chan, offered')
  <2> DEFINE w == Line
             e == offered + 1
             n == Len(w)
  <2>1. DOMAIN w = 1 .. n /\ n \in Nat /\ \A i \in 1 .. n : w[i] \in Nat /\ w[i] < e
    <3>1. DOMAIN w = 1 .. n /\ n \in Nat
      BY <1>2
    <3>2. \A i \in 1 .. n : w[i] \in Ids(Line)
      BY <3>1 DEF Ids
    <3>3. \A i \in 1 .. n : w[i] \in Slot
      BY <1>2
    <3>4. \A x \in Ids(Line) : x = NilEvent \/ x \in 1 .. offered
      BY <1>1, <1>2 DEF Held, AllCounted
    <3> QED  BY <1>2, <3>1, <3>2, <3>3, <3>4, SizeFacts
  <2>2. /\ DOMAIN Line' = 1 .. (n + 1) /\ Line'[n + 1] = e /\ \A i \in 1 .. n : Line'[i] = w[i]
    <3>1. (stored \o batch) \o Append(chan, e) = Append((stored \o batch) \o chan, e)
      BY <1>2
    <3>2. Line' = Append(Line, e)
      BY <1>4, <3>1 DEF Line
    <3>3. Line \in Seq(Slot)
      BY <1>2
    <3> QED  BY <3>2, <3>3
  <2> HIDE DEF w, e, n
  <2>3. \A i, j \in 1 .. (n + 1) : i < j => Line'[i] < Line'[j]
    <3> SUFFICES ASSUME NEW i \in 1 .. (n + 1), NEW j \in 1 .. (n + 1), i < j PROVE Line'[i] < Line'[j]
      OBVIOUS
    <3>1. i \in 1 .. n
      BY <2>1
    <3>2. CASE j = n + 1
      BY <2>1, <2>2, <3>1, <3>2
    <3>3. CASE j \in 1 .. n
      <4>1. w[i] < w[j]
        BY <2>1, <3>1, <3>3 DEF Increasing, w
      <4> QED  BY <2>2, <3>1, <3>3, <4>1
    <3> QED  BY <2>1, <3>2, <3>3
  <2> QED  BY <2>2, <2>3 DEF Increasing
<1> QED  BY <1>3, <1>4, LineSuffix

LEMMA DropStep ==
  ASSUME BufInv, ~closed, [BufNext]_bufVars, BatchCap <= MaxSize, dropped' > dropped
  PROVE  Cardinality(Held) + BatchCap > MaxSize + 1
<1>1. BufTypeOK /\ PlacesApart /\ PendingHeld
  BY DEF BufInv
<1>2. /\ Len(stored) \in Nat /\ Len(batch) \in Nat /\ Len(chan) \in Nat /\ dropped \in Nat
      /\ Cardinality(Held) = Len(stored) + Len(batch) + Len(chan) + (IF pending = NilEvent THEN 0 ELSE 1)
  BY <1>1, TypeFacts, PlacesCounted
<1>3. CASE EnqueueFull
  <2>1. pending # NilEvent
    BY <1>3 DEF EnqueueFull
  <2>2. Len(stored) + Len(batch) + Len(chan) + BatchCap > MaxSize
    BY <1>1, <2>1 DEF PendingHeld
  <2>3. Cardinality(Held) = Len(stored) + Len(batch) + Len(chan) + 1
    BY <1>2, <2>1
  <2> QED  BY <1>2, <2>2, <2>3, SizeFacts
<1>4. CASE StoreBatch
  <2>1. dropped' = dropped \/ dropped' = dropped + Cuts(stored, batch)
    BY <1>4 DEF StoreBatch
  <2>2. Cuts(stored, batch) # 0
    BY <1>2, <2>1
  <2>3. Len(stored) + Len(batch) > MaxSize
    BY <1>2, <2>2, SizeFacts DEF Cuts, Fits
  <2>4. Cardinality(Held) >= Len(stored) + Len(batch) + Len(chan)
    BY <1>2
  <2>5. Cardinality(Held) \in Nat
    BY <1>2
  <2> QED  BY <1>2, <2>3, <2>4, <2>5, SizeFacts
<1>5. ~(dropped' = dropped)
  BY <1>2
<1>6. /\ ~Offer /\ ~TakeAll /\ ~TakeOne /\ ~Receive /\ ~FlusherExit /\ ~StopCancel /\ ~StopClose /\ ~UNCHANGED bufVars
  BY <1>5 DEF Offer, EnqueueSend, TakeAll, TakeOne, Flush, Dequeue, Receive, FlusherExit, StopCancel, StopClose,
              bufVars, bufferVars
<1> QED  BY <1>3, <1>4, <1>6 DEF BufNext, Flusher

(* With a batch no longer than the buffer, for any sizes and any number of *)
(* events: every event offered is in one place, taken or counted.          *)
THEOREM EventsAlwaysAccounted == BatchCap <= MaxSize => (BufSpec => []EventsAccounted)
<1> SUFFICES ASSUME BatchCap <= MaxSize PROVE BufSpec => []EventsAccounted
  OBVIOUS
<1>1. BufInv /\ [BufNext]_bufVars => BufInv'
  BY BufStep
<1> QED  BY <1>1, BufInitially, InvAccounts, PTL DEF BufSpec

(* And they keep their order, but for an Enqueue that met a full channel,  *)
(* and are dropped only by a buffer with as many as its size but a batch.  *)
THEOREM OrderAlwaysKept == BatchCap <= MaxSize => (BufSpec => OrderKept)
<1> SUFFICES ASSUME BatchCap <= MaxSize PROVE BufSpec => OrderKept
  OBVIOUS
<1>1. BufInv /\ [BufNext]_bufVars => BufInv'
  BY BufStep
<1>2. BufInv /\ [BufNext]_bufVars =>
        [~closed => /\ Increasing(Line) /\ Idle => Increasing(Line)'
                    /\ dropped' > dropped => Cardinality(Held) + BatchCap > MaxSize + 1]_bufVars
  BY OrderStep, DropStep
<1> QED  BY <1>1, <1>2, BufInitially, PTL DEF BufSpec, OrderKept
=============================================================================
