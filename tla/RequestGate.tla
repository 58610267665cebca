------------------------------ MODULE RequestGate ------------------------------
(***************************************************************************)
(* esl-resilience: API keys, the middlewares RequireAuth and RateLimit     *)
(* (auth/middleware.go) and the two rate limiters (auth/rate_limiter.go),  *)
(* of which NewServer takes one.                                           *)
(*                                                                         *)
(* Time is counted in ticks, the window of a limiter is Window ticks.      *)
(* Redis counts every request, refused ones too, and starts the window     *)
(* anew each time; the counter in memory is replaced when its window is    *)
(* over.  A request is checked first and counted later; if the limiter     *)
(* fails, it passes.  Requests with a session end in a panic (the session  *)
(* manager's lock is never set) and are left out, as are scopes.           *)
(***************************************************************************)
EXTENDS Naturals, FiniteSets

CONSTANTS
  KeyTenants, ApiKeys,
  Clients,     \* each has one request at a time
  Limit, Window

ASSUME GateAssumption ==
  Limit \in Nat \ {0} /\ Window \in Nat \ {0} /\ KeyTenants # {} /\ ApiKeys # {}

VARIABLES
  limiter,   \* "redis" or "memory"
  accounts,  \* status of each tenant: "active" or not
  apiKeys,   \* a.apiKeys: the state of each key and its tenant
  request,   \* each client's request: none, or past RequireAuth, with its key
  counters,  \* the limiter's: the count and the ticks left; 0 ticks, no counter
  served,    \* history: the requests of a tenant let through by the limiter in the last
             \* Window ticks: the age of each, and its number among those of its tick
  refused    \* history: how many were let through in the window of this tick's last refusal

gateVars == <<limiter, accounts, apiKeys, request, counters, served, refused>>

Age == 0 .. Window - 1
NoKey == [is |-> "none", tenant |-> CHOOSE t \in KeyTenants : TRUE]
NoRequest == [at |-> "none", key |-> CHOOSE k \in ApiKeys : TRUE, lapsed |-> FALSE]

GateInit ==
  /\ limiter \in {"redis", "memory"}
  /\ accounts = [t \in KeyTenants |-> TRUE]
  /\ apiKeys = [k \in ApiKeys |-> NoKey]
  /\ request = [c \in Clients |-> NoRequest]
  /\ counters = [t \in KeyTenants |-> [count |-> 0, left |-> 0]]
  /\ served = [t \in KeyTenants |-> {}]
  /\ refused = [t \in KeyTenants |-> Limit]

Good(k) == apiKeys[k].is = "active" /\ accounts[apiKeys[k].tenant]
(* Requests past their check whose key was good until now. *)
Lapse(keys) == [c \in Clients |->
  IF request[c].at = "checked" /\ request[c].key \in keys
  THEN [request[c] EXCEPT !.lapsed = TRUE] ELSE request[c]]

-----------------------------------------------------------------------------
GenerateAPIKey(k, t) ==
  /\ apiKeys[k].is = "none" /\ accounts[t]
  /\ apiKeys' = [apiKeys EXCEPT ![k] = [is |-> "active", tenant |-> t]]
  /\ UNCHANGED <<limiter, accounts, request, counters, served, refused>>
(* By its hash: the key its owner was given finds nothing.                 *)
RevokeAPIKey(k) ==
  /\ apiKeys[k].is \in {"active", "expired"}
  /\ apiKeys' = [apiKeys EXCEPT ![k].is = "revoked"]
  /\ request' = Lapse({k})
  /\ UNCHANGED <<limiter, accounts, counters, served, refused>>
Expire(k) ==
  /\ apiKeys[k].is = "active"
  /\ apiKeys' = [apiKeys EXCEPT ![k].is = "expired"]
  /\ request' = Lapse({k})
  /\ UNCHANGED <<limiter, accounts, counters, served, refused>>
SetAccount(t) ==
  /\ accounts' = [accounts EXCEPT ![t] = ~@]
  /\ request' = Lapse({k \in ApiKeys : apiKeys[k].tenant = t})
  /\ UNCHANGED <<limiter, apiKeys, counters, served, refused>>

(* RequireAuth with a key; the other requests are answered 401.            *)
ValidateUnexpired(k) == apiKeys[k].is \in {"active", "expired"} /\ accounts[apiKeys[k].tenant]
ValidateAPIKey(k) == apiKeys[k].is = "active" /\ accounts[apiKeys[k].tenant]
RequireAuth(c, k) ==
  /\ request[c].at = "none" /\ ValidateAPIKey(k)
  /\ request' = [request EXCEPT ![c] = [at |-> "checked", key |-> k, lapsed |-> FALSE]]
  /\ UNCHANGED <<limiter, accounts, apiKeys, counters, served, refused>>

-----------------------------------------------------------------------------
RedisAllow(t) == [count |-> counters[t].count + 1, left |-> Window]
MemoryAllow(t) == IF counters[t].left = 0 THEN [count |-> 1, left |-> Window]
                  ELSE [counters[t] EXCEPT !.count = @ + 1]
Allow(t) == IF limiter = "redis" THEN RedisAllow(t) ELSE MemoryAllow(t)

OfThisTick(t) == {s \in served[t] : s[1] = 0}
(* RateLimit and what it lets through; the count stops at its bound.       *)
RateLimit(c) ==
  LET t == apiKeys[request[c].key].tenant
      new == Allow(t)
  IN /\ request[c].at = "checked"
     /\ counters' = [counters EXCEPT ![t] = [new EXCEPT !.count = IF @ > Limit + 1 THEN Limit + 1 ELSE @]]
     /\ IF new.count <= Limit
        THEN served' = [served EXCEPT ![t] = @ \cup {<<0, Cardinality(OfThisTick(t))>>}] /\ UNCHANGED refused
        ELSE refused' = [refused EXCEPT ![t] = Cardinality(served[t])] /\ UNCHANGED served
     /\ request' = [request EXCEPT ![c] = NoRequest]
     /\ UNCHANGED <<limiter, accounts, apiKeys>>
LimiterFails(c) ==
  /\ request[c].at = "checked" /\ limiter = "redis"
  /\ request' = [request EXCEPT ![c] = NoRequest]
  /\ UNCHANGED <<limiter, accounts, apiKeys, counters, served, refused>>

Tick ==
  /\ counters' = [t \in KeyTenants |->
       IF counters[t].left <= 1 THEN [count |-> 0, left |-> 0] ELSE [counters[t] EXCEPT !.left = @ - 1]]
  /\ served' = [t \in KeyTenants |->
       {<<s[1] + 1, s[2]>> : s \in {s \in served[t] : s[1] + 1 \in Age}}]
  /\ refused' = [t \in KeyTenants |-> Limit]
  /\ UNCHANGED <<limiter, accounts, apiKeys, request>>

GateNext ==
  \/ \E k \in ApiKeys :
       \/ \E t \in KeyTenants : GenerateAPIKey(k, t)
       \/ RevokeAPIKey(k) \/ Expire(k)
       \/ \E c \in Clients : RequireAuth(c, k)
  \/ \E t \in KeyTenants : SetAccount(t)
  \/ \E c \in Clients : RateLimit(c) \/ LimiterFails(c)
  \/ Tick

GateSpec == GateInit /\ [][GateNext]_gateVars
-----------------------------------------------------------------------------
GateTypeOK ==
  /\ limiter \in {"redis", "memory"} /\ accounts \in [KeyTenants -> BOOLEAN]
  /\ apiKeys \in [ApiKeys -> [is : {"none", "active", "expired", "revoked"}, tenant : KeyTenants]]
  /\ request \in [Clients -> [at : {"none", "checked"}, key : ApiKeys, lapsed : BOOLEAN]]
  /\ counters \in [KeyTenants -> [count : 0 .. Limit + 1, left : 0 .. Window]]
  /\ \A t \in KeyTenants : served[t] \subseteq Age \X Nat

(* The limiter lets at most Limit requests of a tenant through in any      *)
(* window with Redis, and twice as many with the counter in memory, whose  *)
(* windows may meet; in memory it refuses one only when it let Limit       *)
(* through in the window, while with Redis a tenant that does not stop     *)
(* asking is refused with none let through.  A request past its check has  *)
(* a good key and tenant unless they lapsed since.                         *)
GateKept ==
  /\ GateTypeOK
  /\ \A t \in KeyTenants :
       /\ Cardinality(served[t]) <= (IF limiter = "redis" THEN Limit ELSE 2 * Limit)
       /\ limiter = "memory" => refused[t] >= Limit
  /\ \A c \in Clients : request[c].at = "checked" => Good(request[c].key) \/ request[c].lapsed
=============================================================================
