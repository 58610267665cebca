-------------------------------- MODULE Tenants --------------------------------
(***************************************************************************)
(* esl-resilience: the tenant manager (tenant/manager.go), in memory.      *)
(*                                                                         *)
(* Every operation holds the manager's lock.  A rename, or a change of     *)
(* domain, does not ask whether the new one is in use: it takes the        *)
(* lookup entry over, and the tenant that had it is found by id only.      *)
(* Deleting marks the tenant and keeps its name and domain taken.          *)
(*                                                                         *)
(* UpdateTenant walks a map of updates in any order; the four kinds it     *)
(* knows touch different fields.  The configuration is left out; of        *)
(* LastActive only whether it is before the cutoff of a cleanup is kept.   *)
(***************************************************************************)
EXTENDS FiniteSets

CONSTANTS
  TenantIds,
  Names, Domains,
  NoTenant

VARIABLES
  tenants,   \* m.tenants: the tenant of each id, or NoTenant
  byName, byDomain,  \* lookup: the id under each name and domain, or NoTenant
  usurped    \* history: names and domains an update took while another tenant had them

tenantsVars == <<tenants, byName, byDomain, usurped>>

Statuses == {"active", "suspended", "deleted"}
Tenant == [name : Names, domain : Domains, status : Statuses, idle : BOOLEAN]

ASSUME TenantsAssumption == NoTenant \notin TenantIds /\ NoTenant \notin Tenant

Exists(t) == tenants[t] # NoTenant
Live(t) == Exists(t) /\ tenants[t].status # "deleted"

TenantsInit ==
  /\ tenants = [t \in TenantIds |-> NoTenant]
  /\ byName = [n \in Names |-> NoTenant] /\ byDomain = [d \in Domains |-> NoTenant]
  /\ usurped = {}

-----------------------------------------------------------------------------
CreateTenantUnchecked(t, n, d) ==
  /\ ~Exists(t)
  /\ byName[n] = NoTenant
  /\ tenants' = [tenants EXCEPT ![t] =
       [name |-> n, domain |-> d, status |-> "active", idle |-> FALSE]]
  /\ byName' = [byName EXCEPT ![n] = t]
  /\ byDomain' = [byDomain EXCEPT ![d] = t]
  /\ UNCHANGED usurped
CreateTenant(t, n, d) ==
  /\ ~Exists(t)
  /\ byName[n] = NoTenant /\ byDomain[d] = NoTenant
  /\ tenants' = [tenants EXCEPT ![t] =
       [name |-> n, domain |-> d, status |-> "active", idle |-> FALSE]]
  /\ byName' = [byName EXCEPT ![n] = t]
  /\ byDomain' = [byDomain EXCEPT ![d] = t]
  /\ UNCHANGED usurped

(* The old entry goes, whoever's it is by now; the new one is set.         *)
Moved(lookup, old, new, t) == [[lookup EXCEPT ![old] = NoTenant] EXCEPT ![new] = t]
Taken(lookup, new, t) == IF lookup[new] \notin {NoTenant, t} THEN {new} ELSE {}

(* u.moves says which of the name and the domain the updates name; the     *)
(* status becomes what u says, its own or another.                         *)
UpdateTenant(t, u) ==
  LET old == tenants[t]
      moveName == "name" \in u.moves
      moveDomain == "domain" \in u.moves
  IN /\ Live(t)
     /\ tenants' = [tenants EXCEPT ![t] =
          [name |-> IF moveName THEN u.name ELSE old.name,
           domain |-> IF moveDomain THEN u.domain ELSE old.domain,
           status |-> u.status, idle |-> old.idle]]
     /\ byName' = IF moveName THEN Moved(byName, old.name, u.name, t) ELSE byName
     /\ byDomain' = IF moveDomain THEN Moved(byDomain, old.domain, u.domain, t) ELSE byDomain
     /\ usurped' = usurped
          \cup (IF moveName THEN Taken(byName, u.name, t) ELSE {})
          \cup (IF moveDomain THEN Taken(byDomain, u.domain, t) ELSE {})
Update == [moves : SUBSET {"name", "domain"}, name : Names, domain : Domains, status : Statuses]
SuspendTenant(t) ==
  \E u \in Update :
    /\ Live(t) /\ u.moves = {} /\ u.status = "suspended"
    /\ UpdateTenant(t, u)

DeleteTenant(t) ==
  /\ Exists(t)
  /\ tenants' = [tenants EXCEPT ![t].status = "deleted"]
  /\ UNCHANGED <<byName, byDomain, usurped>>

(* GetTenant and the two lookups by name and domain refuse a deleted       *)
(* tenant and note the access of another.                                  *)
Access(t) ==
  /\ Live(t)
  /\ tenants' = [tenants EXCEPT ![t].idle = FALSE]
  /\ UNCHANGED <<byName, byDomain, usurped>>
GetTenant(t) == Access(t)
GetTenantByName(n) == byName[n] # NoTenant /\ Access(byName[n])
GetTenantByDomain(d) == byDomain[d] # NoTenant /\ Access(byDomain[d])

(* Time passes: the last access of t is now before the cutoff.             *)
GrowIdle(t) ==
  /\ Exists(t)
  /\ tenants' = [tenants EXCEPT ![t].idle = TRUE]
  /\ UNCHANGED <<byName, byDomain, usurped>>
CleanupInactiveTenants ==
  /\ tenants' = [t \in TenantIds |->
       IF Exists(t) /\ tenants[t].status = "active" /\ tenants[t].idle
       THEN [tenants[t] EXCEPT !.status = "suspended"] ELSE tenants[t]]
  /\ UNCHANGED <<byName, byDomain, usurped>>

TenantsNext ==
  \/ \E t \in TenantIds :
       \/ \E n \in Names, d \in Domains : CreateTenant(t, n, d)
       \/ \E u \in Update : UpdateTenant(t, u)
       \/ SuspendTenant(t) \/ DeleteTenant(t) \/ GetTenant(t) \/ GrowIdle(t)
  \/ \E n \in Names : GetTenantByName(n)
  \/ \E d \in Domains : GetTenantByDomain(d)
  \/ CleanupInactiveTenants

TenantsSpec == TenantsInit /\ [][TenantsNext]_tenantsVars

-----------------------------------------------------------------------------
TenantsTypeOK ==
  /\ tenants \in [TenantIds -> Tenant \cup {NoTenant}]
  /\ byName \in [Names -> TenantIds \cup {NoTenant}]
  /\ byDomain \in [Domains -> TenantIds \cup {NoTenant}]
  /\ usurped \subseteq Names \cup Domains

(* A lookup finds the tenant that has the name, or the domain, now.        *)
FoundByOwn ==
  /\ \A n \in Names : byName[n] # NoTenant => Exists(byName[n]) /\ tenants[byName[n]].name = n
  /\ \A d \in Domains : byDomain[d] # NoTenant => Exists(byDomain[d]) /\ tenants[byDomain[d]].domain = d
(* A tenant is found by its name and its domain, and no other tenant has   *)
(* them, deleted ones included, unless an update once took them over.      *)
FoundAtAll ==
  \A t \in TenantIds : Exists(t) =>
    /\ tenants[t].name \notin usurped => byName[tenants[t].name] = t
    /\ tenants[t].domain \notin usurped => byDomain[tenants[t].domain] = t

LookupsAgree == TenantsTypeOK /\ FoundByOwn /\ FoundAtAll
=============================================================================
