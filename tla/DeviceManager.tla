---------------------------- MODULE DeviceManager ----------------------------
(***************************************************************************)
(* The device registry of voip-push (internal/device/manager.go) and the   *)
(* handlers of cmd/main.go that change it.  A registration is an object of *)
(* its own: the table maps a user to the object of the last one, and the   *)
(* goroutines that looked it up keep pointing to it when a newer one takes *)
(* its place.  The token map leads from a push or VoIP token to a user.    *)
(*                                                                         *)
(* Every operation runs under the manager's lock and is one step.  Device  *)
(* ids, models, versions and times are left out: which devices have been   *)
(* inactive for long enough is left to chance.                             *)
(***************************************************************************)
EXTENDS Integers

CONSTANTS
  Users,     \* user ids
  Tokens,    \* push and VoIP tokens
  NoToken,   \* the empty string
  None,      \* no registration, no user
  MaxRegs,   \* bound: how many registrations are made
  MaxUpdates \* bound: how many tokens are refreshed in place

ASSUME RegistryAssumption ==
  /\ NoToken \notin Tokens /\ None \notin Users \cup Nat
  /\ MaxRegs \in Nat \ {0} /\ MaxUpdates \in Nat

VARIABLES
  devices,   \* m.devices: the registration of each user
  tokens,    \* m.tokens: the user of each token
  device,    \* the Device objects
  used,      \* registrations made so far
  updates,   \* tokens refreshed so far
  held       \* history: the users and fields a token has ever been stored for

registry == <<devices, tokens, device, used, updates, held>>

Regs == 1 .. MaxRegs
TokenOrNot == Tokens \cup {NoToken}
Blank == [user |-> None, platform |-> "none", push |-> NoToken, voip |-> NoToken,
          enabled |-> FALSE]

RegistryInit ==
  /\ devices = [u \in Users |-> None] /\ tokens = [t \in TokenOrNot |-> None]
  /\ device = [r \in Regs |-> Blank] /\ used = 0 /\ updates = 0
  /\ held = [t \in Tokens |-> {}]

Registered(u) == devices[u] # None

(* The keys an object has in m.tokens, and the map without the keys ts:    *)
(* the code looks at a VoIP token for being empty, at a push token not.    *)
Keys(r) == {device[r].push} \cup ({device[r].voip} \ {NoToken})
Without(ts) == [t \in TokenOrNot |-> IF t \in ts THEN None ELSE tokens[t]]
Storing(u, push, voip) ==
  [t \in Tokens |-> held[t] \cup (IF t = push THEN {<<u, "push">>} ELSE {})
                           \cup (IF t = voip THEN {<<u, "voip">>} ELSE {})]

(* Register: a new object, once the keys of the one it replaces are gone.  *)
RegisterOver(u, platform, push, voip, gone) ==
  /\ used < MaxRegs /\ push # NoToken
  /\ used' = used + 1
  /\ devices' = [devices EXCEPT ![u] = used + 1]
  /\ device' = [device EXCEPT ![used + 1] =
                  [user |-> u, platform |-> platform, push |-> push, voip |-> voip,
                   enabled |-> TRUE]]
  /\ tokens' = [t \in TokenOrNot |-> IF t \in {push} \cup ({voip} \ {NoToken}) THEN u
                                     ELSE Without(gone)[t]]
  /\ held' = Storing(u, push, voip)
  /\ UNCHANGED updates
RegisterKeeping(u, platform, push, voip) == RegisterOver(u, platform, push, voip, {})
Register(u, platform, push, voip) ==
  RegisterOver(u, platform, push, voip, IF Registered(u) THEN Keys(devices[u]) ELSE {})

Unregister(u) ==
  /\ Registered(u)
  /\ tokens' = Without(Keys(devices[u]))
  /\ devices' = [devices EXCEPT ![u] = None]
  /\ UNCHANGED <<device, used, updates, held>>

(* UpdateToken and UpdateVoIPToken change the object in place. *)
UpdateToken(u, t) ==
  /\ Registered(u) /\ updates < MaxUpdates
  /\ device' = [device EXCEPT ![devices[u]].push = t]
  /\ tokens' = [Without({device[devices[u]].push}) EXCEPT ![t] = u]
  /\ held' = Storing(u, t, NoToken)
  /\ updates' = updates + 1
  /\ UNCHANGED <<devices, used>>

UpdateVoIPToken(u, t) ==
  /\ Registered(u) /\ updates < MaxUpdates
  /\ device' = [device EXCEPT ![devices[u]].voip = t]
  /\ tokens' = [Without({device[devices[u]].voip} \ {NoToken}) EXCEPT ![t] = u]
  /\ held' = Storing(u, NoToken, t)
  /\ updates' = updates + 1
  /\ UNCHANGED <<devices, used>>

CleanupInactive ==
  \E inactive \in SUBSET {u \in Users : Registered(u)} \ {{}} :
    /\ tokens' = Without(UNION {Keys(devices[u]) : u \in inactive})
    /\ devices' = [u \in Users |-> IF u \in inactive THEN None ELSE devices[u]]
    /\ UNCHANGED <<device, used, updates, held>>

(* Apps have VoIP tokens on iOS only, and may give one up. *)
RegistryNext ==
  \/ \E u \in Users :
       \/ \E t \in Tokens : Register(u, "android", t, NoToken)
       \/ \E t \in Tokens, v \in TokenOrNot : Register(u, "ios", t, v)
       \/ Unregister(u)
       \/ \E t \in Tokens : UpdateToken(u, t)
       \/ \E t \in TokenOrNot : UpdateVoIPToken(u, t)
  \/ CleanupInactive

-----------------------------------------------------------------------------
RegistryTypeOK ==
  /\ devices \in [Users -> Regs \cup {None}]
  /\ tokens \in [TokenOrNot -> Users \cup {None}]
  /\ device \in [Regs -> [user : Users \cup {None}, platform : {"none", "ios", "android"},
                          push : TokenOrNot, voip : TokenOrNot, enabled : BOOLEAN]]
  /\ used \in 0 .. MaxRegs /\ updates \in 0 .. MaxUpdates
  /\ held \in [Tokens -> SUBSET (Users \X {"push", "voip"})]

(* TokensExact: the token map leads where it should and nowhere else.      *)
(* GetDeviceByToken never returns a device that does not have the token:   *)
(* a token leads to a registered user whose object holds it, however       *)
(* tokens are refreshed, taken over by other users or cleaned up.  (The    *)
(* empty token is left out: UpdateVoIPToken files it like any other and    *)
(* never takes it back.)                                                   *)
TokensSound ==
  \A t \in Tokens : tokens[t] # None =>
    LET u == tokens[t]
    IN Registered(u) /\ device[devices[u]].user = u /\ t \in Keys(devices[u])

(* A token that was ever stored for one field of one user only leads to    *)
(* that user as long as the user's object holds it.                        *)
StoredOnce(t) == \A p, q \in held[t] : p = q
TokensComplete ==
  \A u \in Users, t \in Tokens :
    Registered(u) /\ t \in Keys(devices[u]) /\ StoredOnce(t) => tokens[t] = u

TokensExact == TokensSound /\ TokensComplete
=============================================================================
