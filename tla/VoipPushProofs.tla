---------------------------- MODULE VoipPushProofs ----------------------------
(***************************************************************************)
(* Theorems about the device registry under pushes, for any users, tokens, *)
(* pushes and bounds.  That tokens are sound is inductive together with    *)
(* the types and with Owned: the object a user is mapped to was made for   *)
(* that user, so that no two users share one, and before now, so that a    *)
(* new registration does not overwrite it.                                 *)
(***************************************************************************)
EXTENDS VoipPush, TLAPS

Owned == \A u \in Users : Registered(u) => devices[u] \in 1 .. used /\ device[devices[u]].user = u
RegistryInv == RegistryTypeOK /\ Owned /\ TokensSound

USE DEF Regs, TokenOrNot, Registered

LEMMA InitRegistry == Init => RegistryInv
BY RegistryAssumption DEF Init, RegistryInit, RegistryInv, RegistryTypeOK, Owned, TokensSound, Blank

(* Register: the keys of the user's former object leave the map with it,   *)
(* and the keys of other users' objects stay or are taken over.            *)
LEMMA RegisterStep ==
  ASSUME RegistryInv, NEW u \in Users, NEW platform \in {"ios", "android"},
         NEW t \in Tokens, NEW v \in TokenOrNot, Register(u, platform, t, v)
  PROVE  RegistryInv'
<1> DEFINE gone == IF devices[u] # None THEN Keys(devices[u]) ELSE {}
           new == used + 1
<1> USE RegistryAssumption DEF RegistryInv
<1>1. /\ used < MaxRegs /\ used' = new /\ updates' = updates
      /\ devices' = [devices EXCEPT ![u] = new]
      /\ device' = [device EXCEPT ![new] = [user |-> u, platform |-> platform, push |-> t,
                                            voip |-> v, enabled |-> TRUE]]
      /\ tokens' = [x \in Tokens \cup {NoToken} |->
                      IF x \in {t} \cup ({v} \ {NoToken}) THEN u ELSE Without(gone)[x]]
      /\ held' = Storing(u, t, v)
  BY DEF Register, RegisterOver
<1>2. RegistryTypeOK'
  BY <1>1 DEF RegistryTypeOK, Without, Storing
<1>3. Owned'
  BY <1>1 DEF RegistryTypeOK, Owned
<1>4. TokensSound'
  <2> SUFFICES ASSUME NEW x \in Tokens, tokens'[x] # None
               PROVE  /\ devices'[tokens'[x]] # None
                      /\ device'[devices'[tokens'[x]]].user = tokens'[x]
                      /\ x \in Keys(devices[tokens[x]])'
    BY DEF TokensSound
  <2>1. CASE x \in {t} \cup ({v} \ {NoToken})
    <3> DEFINE object == [user |-> u, platform |-> platform, push |-> t, voip |-> v,
                          enabled |-> TRUE]
    <3>1. tokens'[x] = u
      BY <2>1, <1>1
    <3>2. new \in Regs /\ devices'[u] = new
      BY <1>1 DEF RegistryTypeOK
    <3>3. device'[new] = object
      BY <3>2, <1>1 DEF RegistryTypeOK
    <3>4. object.user = u /\ object.push = t /\ object.voip = v
      OBVIOUS
    <3>5. new # None
      BY <3>2
    <3> HIDE DEF object, new
    <3> QED  BY <2>1, <3>1, <3>2, <3>3, <3>4, <3>5 DEF Keys
  <2>2. CASE x \notin {t} \cup ({v} \ {NoToken})
    <3>1. x \notin gone /\ tokens'[x] = tokens[x] /\ tokens[x] # None
      BY <2>2, <1>1 DEF Without
    <3>2. tokens[x] \in Users /\ tokens[x] # u
      BY <3>1 DEF TokensSound, RegistryTypeOK
    <3>3. devices'[tokens[x]] = devices[tokens[x]] /\ devices[tokens[x]] \in 1 .. used
      BY <3>1, <3>2, <1>1 DEF RegistryTypeOK, TokensSound, Owned
    <3> QED  BY <3>1, <3>2, <3>3, <1>1 DEF RegistryTypeOK, TokensSound, Keys
  <2> QED  BY <2>1, <2>2
<1> QED  BY <1>2, <1>3, <1>4

(* A user leaves, by Unregister or with the inactive ones, and takes the   *)
(* keys of the object along.                                               *)
LEMMA LeaveStep ==
  ASSUME RegistryInv, NEW gone \in SUBSET {u \in Users : devices[u] # None},
         tokens' = Without(UNION {Keys(devices[u]) : u \in gone}),
         devices' = [u \in Users |-> IF u \in gone THEN None ELSE devices[u]],
         UNCHANGED <<device, used, updates, held>>
  PROVE  RegistryInv'
<1> USE RegistryAssumption DEF RegistryInv
<1>1. RegistryTypeOK'
  BY ZenonT(40) DEF RegistryTypeOK, Without
<1>2. Owned'
  BY ZenonT(40) DEF Owned
<1>3. TokensSound'
  <2> SUFFICES ASSUME NEW x \in Tokens, tokens'[x] # None
               PROVE  /\ devices'[tokens'[x]] # None
                      /\ device'[devices'[tokens'[x]]].user = tokens'[x]
                      /\ x \in Keys(devices[tokens[x]])'
    BY DEF TokensSound
  <2>1. /\ tokens'[x] = tokens[x] /\ tokens[x] # None
        /\ \A u \in gone : x \notin Keys(devices[u])
    BY DEF Without
  <2>2. tokens[x] \in Users /\ tokens[x] \notin gone
    BY <2>1 DEF TokensSound, RegistryTypeOK
  <2> QED  BY <2>1, <2>2 DEF TokensSound, Keys
<1> QED  BY <1>1, <1>2, <1>3

(* A token is refreshed in place, in either field. *)
LEMMA UpdateStep ==
  ASSUME RegistryInv, NEW u \in Users, NEW t \in TokenOrNot,
         UpdateToken(u, t) \/ UpdateVoIPToken(u, t)
  PROVE  RegistryInv'
<1> USE RegistryAssumption DEF RegistryInv
<1>1. devices[u] \in 1 .. MaxRegs /\ updates < MaxUpdates
  BY DEF UpdateToken, UpdateVoIPToken, RegistryTypeOK
<1>2. RegistryTypeOK'
  <2> DEFINE Object == [user : Users \cup {None}, platform : {"none", "ios", "android"},
                        push : TokenOrNot, voip : TokenOrNot, enabled : BOOLEAN]
  <2>1. device' \in [Regs -> Object]
    <3>1. device \in [Regs -> Object]
      BY DEF RegistryTypeOK
    <3>2. [device[devices[u]] EXCEPT !.push = t] \in Object
      BY <1>1, <3>1
    <3>3. [device[devices[u]] EXCEPT !.voip = t] \in Object
      BY <1>1, <3>1
    <3> HIDE DEF Object
    <3> QED  BY <3>1, <3>2, <3>3 DEF UpdateToken, UpdateVoIPToken
  <2>2. tokens' \in [TokenOrNot -> Users \cup {None}]
    BY DEF UpdateToken, UpdateVoIPToken, RegistryTypeOK, Without
  <2>3. \A f, g \in TokenOrNot : Storing(u, f, g) \in [Tokens -> SUBSET (Users \X {"push", "voip"})]
    BY DEF RegistryTypeOK, Storing
  <2>4. held' \in [Tokens -> SUBSET (Users \X {"push", "voip"})]
    BY <2>3 DEF UpdateToken, UpdateVoIPToken
  <2> QED  BY <1>1, <2>1, <2>2, <2>4 DEF UpdateToken, UpdateVoIPToken, RegistryTypeOK
<1>3. /\ devices' = devices /\ used' = used
      /\ \A r \in Regs : device'[r].user = device[r].user
      /\ \A r \in Regs : r # devices[u] => device'[r] = device[r]
  BY <1>1, SMTT(30) DEF UpdateToken, UpdateVoIPToken, RegistryTypeOK
<1>4. Owned'
  BY <1>3 DEF Owned, RegistryTypeOK
<1>5. TokensSound'
  <2> SUFFICES ASSUME NEW x \in Tokens, tokens'[x] # None
               PROVE  /\ devices'[tokens'[x]] # None
                      /\ device'[devices'[tokens'[x]]].user = tokens'[x]
                      /\ x \in Keys(devices[tokens[x]])'
    BY DEF TokensSound
  <2>1. CASE x = t
    <3>1. tokens'[x] = u
      BY <2>1 DEF UpdateToken, UpdateVoIPToken, Without
    <3> QED  BY <2>1, <3>1, <1>1, <1>3 DEF UpdateToken, UpdateVoIPToken, RegistryTypeOK, Owned, Keys
  <2>2. CASE x # t
    <3>1. tokens'[x] = tokens[x] /\ tokens[x] # None
      BY <2>2 DEF UpdateToken, UpdateVoIPToken, Without
    <3>2. /\ tokens[x] \in Users /\ devices[tokens[x]] \in Regs
          /\ device[devices[tokens[x]]].user = tokens[x] /\ x \in Keys(devices[tokens[x]])
      BY <3>1 DEF TokensSound, RegistryTypeOK
    <3>3. CASE tokens[x] # u
      <4>1. devices[tokens[x]] # devices[u]
        BY <3>2, <3>3, <1>1 DEF Owned, RegistryTypeOK
      <4> QED  BY <4>1, <3>1, <3>2, <1>3 DEF Keys
    <3>4. CASE tokens[x] = u
      <4>1. CASE UpdateToken(u, t)
        BY <4>1, <3>1, <3>2, <3>4, <2>2, <1>1, <1>3 DEF UpdateToken, Without, RegistryTypeOK, Keys
      <4>2. CASE UpdateVoIPToken(u, t)
        BY <4>2, <3>1, <3>2, <3>4, <2>2, <1>1, <1>3, SMTT(30) DEF UpdateVoIPToken, Without, RegistryTypeOK, Keys
      <4> QED  BY <4>1, <4>2
    <3> QED  BY <3>3, <3>4
  <2> QED  BY <2>1, <2>2
<1> QED  BY <1>2, <1>4, <1>5

(* A push changes nothing of the registry but whether an object is enabled.*)
LEMMA PushStep ==
  ASSUME RegistryInv, NEW p \in Pushes, Judge(p)
  PROVE  RegistryInv'
<1>1. /\ UNCHANGED <<devices, tokens, used, updates, held>>
      /\ device' \in [Regs -> [user : Users \cup {None}, platform : {"none", "ios", "android"},
                               push : TokenOrNot, voip : TokenOrNot, enabled : BOOLEAN]]
      /\ \A r \in Regs : /\ device'[r].user = device[r].user
                         /\ device'[r].push = device[r].push /\ device'[r].voip = device[r].voip
  BY ZenonT(40) DEF Judge, RegistryInv, RegistryTypeOK
<1> QED  BY <1>1 DEF RegistryInv, RegistryTypeOK, Owned, TokensSound, Keys

THEOREM RegistryInvariance == Spec => []RegistryInv
<1>1. RegistryInv /\ [Next]_vars => RegistryInv'
  <2> SUFFICES ASSUME RegistryInv, [Next]_vars PROVE RegistryInv'
    OBVIOUS
  <2>1. CASE RegistryNext
    <3>1. ASSUME NEW u \in Users, Unregister(u) PROVE RegistryInv'
      <4>1. tokens' = Without(UNION {Keys(devices[w]) : w \in {u}})
        BY <3>1 DEF Unregister
      <4>2. devices' = [w \in Users |-> IF w \in {u} THEN None ELSE devices[w]]
        BY <3>1 DEF Unregister, RegistryInv, RegistryTypeOK
      <4> QED  BY <4>1, <4>2, <3>1, LeaveStep DEF Unregister
    <3>2. ASSUME CleanupInactive PROVE RegistryInv'
      BY <3>2, LeaveStep DEF CleanupInactive
    <3> QED  BY <2>1, <3>1, <3>2, RegisterStep, UpdateStep DEF RegistryNext
  <2>2. ASSUME NEW p \in Pushes, Judge(p) PROVE RegistryInv'
    BY <2>2, PushStep
  <2>3. CASE UNCHANGED registry
    BY <2>3 DEF registry, RegistryInv, RegistryTypeOK, Owned, TokensSound, Keys
  <2> QED  BY <2>1, <2>2, <2>3 DEF Next, vars, StartPush, ReadToken, Answer, TakeAnswer, TimeOut, Retry
<1> QED  BY <1>1, InitRegistry, PTL DEF Spec

(* ------------------------------------------------------------------------ *)
(* Completeness.  Every token an object holds was stored for its user and  *)
(* its field, so when a token was stored once, no key that is taken out of *)
(* the map on behalf of another user or the other field can be that token. *)
WasStored ==
  \A u \in Users, t \in Tokens :
    Registered(u) => /\ device[devices[u]].push = t => <<u, "push">> \in held[t]
                     /\ device[devices[u]].voip = t => <<u, "voip">> \in held[t]
CompleteInv == WasStored /\ TokensComplete

LEMMA InitComplete == Init => CompleteInv
BY DEF Init, RegistryInit, CompleteInv, WasStored, TokensComplete

LEMMA RegisterComplete ==
  ASSUME RegistryInv, CompleteInv, NEW u \in Users, NEW platform \in {"ios", "android"},
         NEW t \in Tokens, NEW v \in TokenOrNot, Register(u, platform, t, v)
  PROVE  CompleteInv'
<1> DEFINE gone == IF devices[u] # None THEN Keys(devices[u]) ELSE {}
           new == used + 1
           obj == [user |-> u, platform |-> platform, push |-> t, voip |-> v, enabled |-> TRUE]
<1> USE RegistryAssumption DEF RegistryInv
<1>1. /\ new \in 1 .. MaxRegs
      /\ devices' = [devices EXCEPT ![u] = new] /\ device' = [device EXCEPT ![new] = obj]
      /\ tokens' = [x \in Tokens \cup {NoToken} |->
                      IF x \in {t} \cup ({v} \ {NoToken}) THEN u ELSE Without(gone)[x]]
      /\ held' = Storing(u, t, v)
  BY DEF Register, RegisterOver, RegistryTypeOK
<1>2. /\ devices'[u] = new /\ device'[new] = obj
      /\ \A w \in Users : w # u /\ devices[w] # None =>
            /\ devices'[w] = devices[w] /\ devices[w] \in 1 .. used
            /\ device'[devices'[w]] = device[devices[w]]
      /\ \A w \in Users : w # u => devices'[w] = devices[w]
  BY <1>1 DEF RegistryTypeOK, Owned
<1>3. /\ \A x \in Tokens : held[x] \subseteq held'[x]
      /\ <<u, "push">> \in held'[t] /\ (v \in Tokens => <<u, "voip">> \in held'[v])
  BY <1>1 DEF Storing
<1>4. WasStored'
  BY <1>2, <1>3 DEF CompleteInv, WasStored
<1>5. TokensComplete'
  <2> SUFFICES ASSUME NEW w \in Users, NEW x \in Tokens, devices'[w] # None,
                      x \in Keys(devices[w])', StoredOnce(x)'
               PROVE  tokens'[x] = w
    BY DEF TokensComplete
  <2>1. StoredOnce(x)
    BY <1>3 DEF StoredOnce
  <2>2. CASE w = u
    BY <2>2, <1>1, <1>2 DEF Keys
  <2>3. CASE w # u
    <3>1. devices[w] # None /\ x \in Keys(devices[w]) /\ tokens[x] = w
      BY <2>1, <2>3, <1>2 DEF Keys, CompleteInv, TokensComplete
    <3>2. \E f \in {"push", "voip"} : <<w, f>> \in held'[x]
      BY <3>1, <1>3 DEF Keys, CompleteInv, WasStored
    <3>3. x # t /\ x # v
      BY <3>2, <2>3, <1>3 DEF StoredOnce
    <3>4. x \notin gone
      <4>1. SUFFICES ASSUME devices[u] # None, x \in Keys(devices[u]) PROVE FALSE
        OBVIOUS
      <4>2. tokens[x] = u
        BY <4>1, <2>1 DEF CompleteInv, TokensComplete
      <4> QED  BY <4>2, <3>1, <2>3
    <3> QED  BY <3>1, <3>3, <3>4, <1>1 DEF Without
  <2> QED  BY <2>2, <2>3
<1> QED  BY <1>4, <1>5 DEF CompleteInv

LEMMA LeaveComplete ==
  ASSUME RegistryInv, CompleteInv, NEW gone \in SUBSET {u \in Users : devices[u] # None},
         tokens' = Without(UNION {Keys(devices[u]) : u \in gone}),
         devices' = [u \in Users |-> IF u \in gone THEN None ELSE devices[u]],
         UNCHANGED <<device, used, updates, held>>
  PROVE  CompleteInv'
<1> USE RegistryAssumption DEF RegistryInv
<1>1. WasStored'
  BY DEF CompleteInv, WasStored
<1>2. TokensComplete'
  <2> SUFFICES ASSUME NEW w \in Users, NEW x \in Tokens, devices'[w] # None,
                      x \in Keys(devices[w])', StoredOnce(x)'
               PROVE  tokens'[x] = w
    BY DEF TokensComplete
  <2>1. w \notin gone /\ devices[w] # None /\ x \in Keys(devices[w]) /\ StoredOnce(x)
    BY DEF Keys, StoredOnce
  <2>2. tokens[x] = w
    BY <2>1 DEF CompleteInv, TokensComplete
  <2>3. \A u \in gone : x \notin Keys(devices[u])
    BY <2>1, <2>2 DEF CompleteInv, TokensComplete
  <2> QED  BY <2>2, <2>3 DEF Without
<1> QED  BY <1>1, <1>2 DEF CompleteInv

LEMMA UpdateComplete ==
  ASSUME RegistryInv, CompleteInv, NEW u \in Users, NEW t \in TokenOrNot,
         UpdateToken(u, t) \/ UpdateVoIPToken(u, t)
  PROVE  CompleteInv'
<1> USE RegistryAssumption DEF RegistryInv
<1> DEFINE r == devices[u]
<1>1. r \in Regs /\ r # None /\ UNCHANGED devices
  BY DEF UpdateToken, UpdateVoIPToken, RegistryTypeOK
<1>2. /\ \A w \in Users : w # u /\ devices[w] # None => /\ devices[w] \in Regs
                                                       /\ device'[devices[w]] = device[devices[w]]
      /\ \A x \in Tokens : held[x] \subseteq held'[x]
  BY <1>1 DEF UpdateToken, UpdateVoIPToken, RegistryTypeOK, Owned, Storing
<1>3. \/ /\ device'[r].push = t /\ device'[r].voip = device[r].voip
         /\ t \in Tokens => <<u, "push">> \in held'[t]
         /\ tokens' = [Without({device[r].push}) EXCEPT ![t] = u]
      \/ /\ device'[r].voip = t /\ device'[r].push = device[r].push
         /\ t \in Tokens => <<u, "voip">> \in held'[t]
         /\ tokens' = [Without({device[r].voip} \ {NoToken}) EXCEPT ![t] = u]
  <2>1. CASE UpdateToken(u, t)
    BY <2>1, <1>1 DEF UpdateToken, RegistryTypeOK, Storing
  <2>2. CASE UpdateVoIPToken(u, t)
    BY <2>2, <1>1 DEF UpdateVoIPToken, RegistryTypeOK, Storing
  <2> QED  BY <2>1, <2>2
<1>4. WasStored'
  <2> SUFFICES ASSUME NEW w \in Users, NEW x \in Tokens, devices[w] # None
               PROVE  /\ device'[devices[w]].push = x => <<w, "push">> \in held'[x]
                      /\ device'[devices[w]].voip = x => <<w, "voip">> \in held'[x]
    BY <1>1 DEF WasStored
  <2>1. CASE w = u
    BY <2>1, <1>1, <1>2, <1>3 DEF CompleteInv, WasStored
  <2>2. CASE w # u
    BY <2>2, <1>2 DEF CompleteInv, WasStored
  <2> QED  BY <2>1, <2>2
<1>5. TokensComplete'
  <2> SUFFICES ASSUME NEW w \in Users, NEW x \in Tokens, devices[w] # None,
                      x \in Keys(devices[w])', StoredOnce(x)'
               PROVE  tokens'[x] = w
    BY <1>1 DEF TokensComplete
  <2>1. StoredOnce(x)
    BY <1>2 DEF StoredOnce
  <2>2. \/ /\ device'[devices[w]].push = x /\ <<w, "push">> \in held'[x]
        \/ /\ device'[devices[w]].voip = x /\ <<w, "voip">> \in held'[x]
    BY <1>1, <1>4 DEF Keys, WasStored
  <2>3. CASE x = t
    <3>1. w = u
      BY <2>2, <2>3, <1>3 DEF StoredOnce
    <3> QED  BY <3>1, <2>3, <1>3 DEF Without
  <2>4. CASE x # t
    <3>1. x \in Keys(devices[w])
      BY <2>4, <2>2, <1>2, <1>3 DEF Keys
    <3>2. tokens[x] = w
      BY <3>1, <2>1 DEF CompleteInv, TokensComplete
    <3>3. /\ device[r].push = x => <<u, "push">> \in held'[x]
          /\ device[r].voip = x => <<u, "voip">> \in held'[x]
      BY <1>1, <1>2 DEF CompleteInv, WasStored
    <3>4. \/ /\ x # device[r].push /\ tokens' = [Without({device[r].push}) EXCEPT ![t] = u]
          \/ /\ x # device[r].voip
             /\ tokens' = [Without({device[r].voip} \ {NoToken}) EXCEPT ![t] = u]
      <4>1. w # u => x # device[r].push /\ x # device[r].voip
        BY <3>3, <2>2 DEF StoredOnce
      <4>2. w = u /\ device'[r].push = t => x # device[r].push
        <5> SUFFICES ASSUME w = u, device'[r].push = t, x = device[r].push PROVE FALSE
          OBVIOUS
        <5>1. <<u, "push">> \in held'[x] /\ <<u, "voip">> \in held'[x]
          BY <3>3, <2>2, <2>4
        <5> QED  BY <5>1 DEF StoredOnce
      <4>3. w = u /\ device'[r].voip = t => x # device[r].voip
        <5> SUFFICES ASSUME w = u, device'[r].voip = t, x = device[r].voip PROVE FALSE
          OBVIOUS
        <5>1. <<u, "push">> \in held'[x] /\ <<u, "voip">> \in held'[x]
          BY <3>3, <2>2, <2>4
        <5> QED  BY <5>1 DEF StoredOnce
      <4> QED  BY <4>1, <4>2, <4>3, <1>3
    <3> QED  BY <3>2, <3>4, <2>4 DEF Without
  <2> QED  BY <2>3, <2>4
<1> QED  BY <1>4, <1>5 DEF CompleteInv

LEMMA PushComplete ==
  ASSUME RegistryInv, CompleteInv, NEW p \in Pushes, Judge(p)
  PROVE  CompleteInv'
<1>1. /\ UNCHANGED <<devices, tokens, held>>
      /\ \A r \in Regs : device'[r].push = device[r].push /\ device'[r].voip = device[r].voip
  BY DEF Judge, RegistryInv, RegistryTypeOK
<1> QED  BY <1>1 DEF RegistryInv, RegistryTypeOK, CompleteInv, WasStored, TokensComplete,
                     StoredOnce, Keys

(* GetDeviceByToken never returns a device that does not have the token    *)
(* and, for a token stored once, never misses the device that has it,      *)
(* whatever registrations, refreshes, pushes and cleanups come.            *)
THEOREM TokensAreExact == Spec => []TokensExact
<1>1. CompleteInv /\ RegistryInv /\ [Next]_vars => CompleteInv'
  <2> SUFFICES ASSUME CompleteInv, RegistryInv, [Next]_vars PROVE CompleteInv'
    OBVIOUS
  <2>1. CASE RegistryNext
    <3>1. ASSUME NEW u \in Users, Unregister(u) PROVE CompleteInv'
      <4>1. tokens' = Without(UNION {Keys(devices[w]) : w \in {u}})
        BY <3>1 DEF Unregister
      <4>2. devices' = [w \in Users |-> IF w \in {u} THEN None ELSE devices[w]]
        BY <3>1 DEF Unregister, RegistryInv, RegistryTypeOK
      <4> QED  BY <4>1, <4>2, <3>1, LeaveComplete DEF Unregister
    <3>2. ASSUME CleanupInactive PROVE CompleteInv'
      BY <3>2, LeaveComplete DEF CleanupInactive
    <3> QED  BY <2>1, <3>1, <3>2, RegisterComplete, UpdateComplete DEF RegistryNext
  <2>2. ASSUME NEW p \in Pushes, Judge(p) PROVE CompleteInv'
    BY <2>2, PushComplete
  <2>3. CASE UNCHANGED registry
    BY <2>3 DEF registry, CompleteInv, WasStored, TokensComplete, StoredOnce, Keys
  <2> QED  BY <2>1, <2>2, <2>3 DEF Next, vars, StartPush, ReadToken, Answer, TakeAnswer, TimeOut, Retry
<1> QED  BY <1>1, InitComplete, RegistryInvariance, PTL DEF Spec, RegistryInv, CompleteInv, TokensExact

(* ------------------------------------------------------------------------ *)
(* Pushes.  A push keeps an object that has been made and whose user and    *)
(* platform nothing changes, every token any object holds was stored for    *)
(* its user and field, and an answer that a token is invalid is known as    *)
(* refused from the moment APNs gives it.                                   *)
ObjectsStored ==
  \A r \in 1 .. used, t \in Tokens :
    /\ device[r].push = t => <<device[r].user, "push">> \in held[t]
    /\ device[r].voip = t => <<device[r].user, "voip">> \in held[t]
TargetsMade ==
  \A p \in Pushes :
    /\ target[p] # None => target[p] \in 1 .. used
    /\ at[p] = "idle" => target[p] = None
    /\ at[p] \in {"waiting", "sleeping", "judging"} => target[p] # None
    /\ at[p] = "sleeping" => attempt[p] < RetryCount
    /\ \A i \in Attempts : send[p][i].token # NoToken => target[p] # None
InvalidWasRefused ==
  \A p \in Pushes :
    /\ lastErr[p] = "invalid token" => target[p] \in refused
    /\ \A i \in Attempts : send[p][i].reply = "invalid token" => target[p] \in refused
PushInv ==
  /\ ObjectsStored /\ TargetsMade /\ InvalidWasRefused
  /\ TypeOK /\ DisabledWasRefused /\ RingsOwnDevice

(* What one goroutine of an attempt keeps, and a write of one of them.      *)
Slots == [state : {"none", "started", "sent", "answered"}, token : TokenOrNot,
          reply : {"none", "ok", "error", "invalid token"}]
LEMMA SlotFields ==
  ASSUME TypeOK
  PROVE  /\ send \in [Pushes -> [Attempts -> Slots]]
         /\ \A p \in Pushes, i \in Attempts :
              /\ send[p][i] \in Slots
              /\ send[p][i].state \in {"none", "started", "sent", "answered"}
              /\ send[p][i].token \in TokenOrNot
              /\ send[p][i].reply \in {"none", "ok", "error", "invalid token"}
<1>1. send \in [Pushes -> [Attempts -> Slots]]
  BY DEF TypeOK, Slots
<1>2. \A p \in Pushes, i \in Attempts : send[p][i] \in Slots
  BY <1>1
<1>3. \A v \in Slots : /\ v.state \in {"none", "started", "sent", "answered"}
                      /\ v.token \in TokenOrNot
                      /\ v.reply \in {"none", "ok", "error", "invalid token"}
  BY DEF Slots
<1> QED  BY <1>1, <1>2, <1>3

LEMMA SlotWritten ==
  ASSUME send \in [Pushes -> [Attempts -> Slots]], NEW p \in Pushes, NEW i \in Attempts,
         NEW v \in Slots, send' = [send EXCEPT ![p] = [send[p] EXCEPT ![i] = v]]
  PROVE  /\ send' \in [Pushes -> [Attempts -> Slots]] /\ send'[p][i] = v
         /\ \A q \in Pushes, j \in Attempts : q # p \/ j # i => send'[q][j] = send[q][j]
<1>1. [send[p] EXCEPT ![i] = v] \in [Attempts -> Slots]
  OBVIOUS
<1>2. [send[p] EXCEPT ![i] = v][i] = v
  OBVIOUS
<1> QED  BY <1>1, <1>2

LEMMA NoneIsNoReg == None \notin Regs
BY RegistryAssumption

LEMMA InitPushes == Init => PushInv
<1> SUFFICES ASSUME Init PROVE PushInv
  OBVIOUS
<1> USE PushAssumption, RegistryAssumption DEF Init
<1>1. /\ \A p \in Pushes, i \in Attempts : send[p][i] = NotSent
      /\ 0 \in Attempts /\ NotSent \in Slots
      /\ send \in [Pushes -> [Attempts -> Slots]]
  BY DEF Attempts, NotSent, Slots
<1>2. TypeOK
  BY <1>1, InitRegistry DEF TypeOK, Slots, NotSent, RegistryInv
<1>3. ObjectsStored /\ DisabledWasRefused
  BY DEF RegistryInit, ObjectsStored, DisabledWasRefused, Blank
<1>4. TargetsMade /\ InvalidWasRefused /\ RingsOwnDevice
  BY <1>1 DEF TargetsMade, InvalidWasRefused, RingsOwnDevice, NotSent
<1> QED  BY <1>2, <1>3, <1>4 DEF PushInv

(* What the registry does to the objects that have been made: their users  *)
(* and platforms stay, a new one is enabled, and what an object is given   *)
(* to hold is noted in held.                                               *)
LEMMA ObjectsKept ==
  ASSUME RegistryInv, ObjectsStored, RegistryNext
  PROVE  /\ used' >= used /\ ObjectsStored'
         /\ \A r \in 1 .. used : /\ device'[r].user = device[r].user
                                 /\ device'[r].platform = device[r].platform
                                 /\ device'[r].enabled = device[r].enabled
         /\ \A r \in 1 .. used' : r > used => device'[r].enabled
         /\ \A x \in Tokens : held[x] \subseteq held'[x]
<1> USE RegistryAssumption DEF RegistryInv
<1> DEFINE Goal == /\ used' >= used /\ ObjectsStored'
                   /\ \A r \in 1 .. used : /\ device'[r].user = device[r].user
                                           /\ device'[r].platform = device[r].platform
                                           /\ device'[r].enabled = device[r].enabled
                   /\ \A r \in 1 .. used' : r > used => device'[r].enabled
                   /\ \A x \in Tokens : held[x] \subseteq held'[x]
<1>1. ASSUME NEW u \in Users, NEW platform \in {"ios", "android"}, NEW t \in Tokens,
             NEW v \in TokenOrNot, Register(u, platform, t, v)
      PROVE  Goal
  <2> DEFINE new == used + 1
             object == [user |-> u, platform |-> platform, push |-> t, voip |-> v, enabled |-> TRUE]
  <2>1. /\ used < MaxRegs /\ used' = new
        /\ device' = [device EXCEPT ![new] = object] /\ held' = Storing(u, t, v)
    BY <1>1 DEF Register, RegisterOver
  <2>2. /\ \A r \in 1 .. used : device'[r] = device[r]
        /\ device'[new] = object /\ used \in Nat
    BY <2>1 DEF RegistryTypeOK
  <2>3. /\ \A x \in Tokens : held[x] \subseteq held'[x]
        /\ <<u, "push">> \in held'[t] /\ (v \in Tokens => <<u, "voip">> \in held'[v])
    BY <2>1 DEF Storing
  <2>4. \A r \in 1 .. used' : r # new => r \in 1 .. used
    BY <2>1, <2>2
  <2>5. ObjectsStored'
    BY <2>2, <2>3, <2>4 DEF ObjectsStored
  <2>6. \A r \in 1 .. used' : r > used => r = new
    BY <2>1, <2>2
  <2>7. device'[new].enabled
    BY <2>2
  <2>8. used' >= used
    BY <2>1, <2>2
  <2> HIDE DEF object, new
  <2> QED  BY <2>2, <2>3, <2>5, <2>6, <2>7, <2>8
<1>2. ASSUME NEW u \in Users, NEW t \in TokenOrNot, UpdateToken(u, t) \/ UpdateVoIPToken(u, t)
      PROVE  Goal
  <2> DEFINE r0 == devices[u]
  <2>1. r0 \in 1 .. used /\ device[r0].user = u /\ 1 .. used \subseteq Regs /\ UNCHANGED used
    BY <1>2 DEF UpdateToken, UpdateVoIPToken, Owned, RegistryTypeOK
  <2>2. /\ \A x \in Tokens : held[x] \subseteq held'[x]
        /\ \A r \in 1 .. used : r # r0 => device'[r] = device[r]
        /\ \/ /\ device'[r0] = [device[r0] EXCEPT !.push = t]
              /\ t \in Tokens => <<u, "push">> \in held'[t]
           \/ /\ device'[r0] = [device[r0] EXCEPT !.voip = t]
              /\ t \in Tokens => <<u, "voip">> \in held'[t]
    <3>1. CASE UpdateToken(u, t)
      BY <3>1, <2>1 DEF UpdateToken, RegistryTypeOK, Storing
    <3>2. CASE UpdateVoIPToken(u, t)
      BY <3>2, <2>1 DEF UpdateVoIPToken, RegistryTypeOK, Storing
    <3> QED  BY <1>2, <3>1, <3>2
  <2>3. /\ device'[r0].user = u /\ device'[r0].platform = device[r0].platform
        /\ device'[r0].enabled = device[r0].enabled
        /\ \/ /\ device'[r0].push = t /\ device'[r0].voip = device[r0].voip
              /\ t \in Tokens => <<u, "push">> \in held'[t]
           \/ /\ device'[r0].voip = t /\ device'[r0].push = device[r0].push
              /\ t \in Tokens => <<u, "voip">> \in held'[t]
    BY <2>1, <2>2 DEF RegistryTypeOK
  <2>4. ObjectsStored'
    <3> SUFFICES ASSUME NEW r \in 1 .. used, NEW x \in Tokens
                 PROVE  /\ device'[r].push = x => <<device'[r].user, "push">> \in held'[x]
                        /\ device'[r].voip = x => <<device'[r].user, "voip">> \in held'[x]
      BY <2>1 DEF ObjectsStored
    <3>1. CASE r = r0
      BY <3>1, <2>1, <2>2, <2>3 DEF ObjectsStored
    <3>2. CASE r # r0
      BY <3>2, <2>2 DEF ObjectsStored
    <3> QED  BY <3>1, <3>2
  <2>5. \A r \in 1 .. used : /\ device'[r].user = device[r].user
                            /\ device'[r].platform = device[r].platform
                            /\ device'[r].enabled = device[r].enabled
    BY <2>1, <2>2, <2>3
  <2>6. used' >= used /\ \A r \in 1 .. used' : ~(r > used)
    BY <2>1 DEF RegistryTypeOK
  <2> QED  BY <2>2, <2>4, <2>5, <2>6
<1>3. ASSUME UNCHANGED <<device, used, updates, held>> PROVE Goal
  BY <1>3 DEF ObjectsStored, RegistryTypeOK
<1> QED  BY <1>1, <1>2, <1>3 DEF RegistryNext, Unregister, CleanupInactive

LEMMA RegistryUnderPushes ==
  ASSUME RegistryInv, RegistryInv', PushInv, RegistryNext, UNCHANGED pushes
  PROVE  PushInv'
<1> USE RegistryAssumption
<1>1. /\ used' >= used /\ ObjectsStored'
      /\ \A r \in 1 .. used : /\ device'[r].user = device[r].user
                              /\ device'[r].platform = device[r].platform
                              /\ device'[r].enabled = device[r].enabled
      /\ \A r \in 1 .. used' : r > used => device'[r].enabled
      /\ \A x \in Tokens : held[x] \subseteq held'[x]
  BY ObjectsKept DEF PushInv
<1>2. used \in Nat /\ used' \in Nat /\ 1 .. used \subseteq 1 .. used'
  BY <1>1 DEF RegistryInv, RegistryTypeOK
<1>6. TargetsMade' /\ InvalidWasRefused'
  BY <1>2 DEF PushInv, TargetsMade, InvalidWasRefused, pushes
<1>3. TypeOK'
  BY DEF PushInv, TypeOK, pushes, RegistryInv
<1>4. DisabledWasRefused'
  <2> SUFFICES ASSUME NEW r \in 1 .. used', ~device'[r].enabled PROVE r \in refused'
    BY DEF DisabledWasRefused
  <2>1. r \in 1 .. used
    BY <1>1 DEF RegistryInv, RegistryTypeOK
  <2> QED  BY <2>1, <1>1 DEF PushInv, DisabledWasRefused, pushes
<1>5. RingsOwnDevice'
  <2> SUFFICES ASSUME NEW p \in Pushes, NEW i \in Attempts, send[p][i].token # NoToken
               PROVE  <<device'[target[p]].user,
                        IF device'[target[p]].platform = "ios" THEN "voip" ELSE "push">>
                          \in held'[send[p][i].token]
    BY DEF RingsOwnDevice, pushes
  <2>1. target[p] \in 1 .. used /\ send[p][i] \in Slots
    BY SlotFields DEF PushInv, TargetsMade
  <2>2. send[p][i].token \in Tokens
    BY <2>1 DEF Slots
  <2> QED  BY <2>1, <2>2, <1>1 DEF PushInv, RingsOwnDevice
<1> QED  BY <1>1, <1>3, <1>4, <1>5, <1>6 DEF PushInv

(* A step of one push that writes the slot of its attempt i, whether it    *)
(* starts the attempt, reads the token or brings the answer.               *)
AtTypes == [Pushes -> {"idle", "waiting", "sleeping", "judging", "done"}]
SlotWrite(p, i, v) ==
  /\ send' = [send EXCEPT ![p] = [send[p] EXCEPT ![i] = v]]
  /\ v.state # "none"
  /\ v.reply = "invalid token" => target'[p] \in refused'
  /\ v.token # NoToken =>
       <<device[target'[p]].user, IF device[target'[p]].platform = "ios" THEN "voip" ELSE "push">>
         \in held[v.token]
AroundSlot(p, i) ==
  /\ UNCHANGED <<registry, lastErr>>
  /\ at' \in AtTypes /\ target' \in [Pushes -> Regs \cup {None}] /\ attempt' \in [Pushes -> Attempts]
  /\ refused \subseteq refused' /\ refused' \subseteq Regs
  /\ \A q \in Pushes : q # p => at'[q] = at[q] /\ target'[q] = target[q] /\ attempt'[q] = attempt[q]
  /\ target'[p] \in 1 .. used /\ target[p] \in {None, target'[p]}
  /\ at'[p] # "idle" /\ (at'[p] = "sleeping" => attempt'[p] < RetryCount)
  /\ i <= attempt'[p]
  /\ \A j \in Attempts : j # i => (j <= attempt'[p] <=> target[p] # None /\ j <= attempt[p])

LEMMA SlotStep ==
  ASSUME RegistryInv, PushInv, NEW p \in Pushes, NEW i \in Attempts, NEW v \in Slots,
         SlotWrite(p, i, v), AroundSlot(p, i)
  PROVE  PushInv'
<1> USE RegistryAssumption, PushAssumption
<1>1. /\ send' \in [Pushes -> [Attempts -> Slots]] /\ send'[p][i] = v
      /\ \A q \in Pushes, j \in Attempts : q # p \/ j # i => send'[q][j] = send[q][j]
  <2>1. send \in [Pushes -> [Attempts -> Slots]]
    BY SlotFields DEF PushInv
  <2>2. send' = [send EXCEPT ![p] = [send[p] EXCEPT ![i] = v]]
    BY DEF SlotWrite
  <2> QED  BY <2>1, <2>2, SlotWritten
<1>2. /\ target'[p] \in 1 .. used /\ target'[p] # None /\ UNCHANGED <<registry, lastErr>>
      /\ used \in Nat /\ at'[p] # "idle" /\ i <= attempt'[p]
      /\ at'[p] = "sleeping" => attempt'[p] < RetryCount
  BY DEF RegistryInv, RegistryTypeOK, AroundSlot
<1>4. \A q \in Pushes : target[q] # None => target'[q] = target[q]
  BY DEF AroundSlot
<1>9. \A q \in Pushes : q # p => at'[q] = at[q] /\ target'[q] = target[q] /\ attempt'[q] = attempt[q]
  BY DEF AroundSlot
<1>3. TypeOK'
  <2>1. ASSUME NEW q \in Pushes, NEW j \in Attempts
        PROVE  send'[q][j].state # "none" <=> target'[q] # None /\ j <= attempt'[q]
    <3>1. send[q][j].state # "none" <=> target[q] # None /\ j <= attempt[q]
      BY DEF PushInv, TypeOK
    <3>2. CASE q = p /\ j = i
      BY <3>2, <1>1, <1>2 DEF SlotWrite
    <3>3. CASE q = p /\ j # i
      BY <3>1, <3>3, <1>1, <1>2 DEF AroundSlot
    <3>4. CASE q # p
      BY <3>1, <3>4, <1>1, <1>9
    <3> QED  BY <3>2, <3>3, <3>4
  <2>2. lastErr' \in [Pushes -> {"none", "error", "invalid token"}] /\ RegistryTypeOK'
    BY <1>2 DEF PushInv, TypeOK, RegistryTypeOK, registry
  <2>3. /\ at' \in AtTypes /\ target' \in [Pushes -> Regs \cup {None}]
        /\ attempt' \in [Pushes -> Attempts] /\ refused' \subseteq Regs
    BY DEF AroundSlot
  <2> QED  BY <1>1, <2>1, <2>2, <2>3 DEF TypeOK, Slots, AtTypes
<1>5. TargetsMade'
  <2> SUFFICES ASSUME NEW q \in Pushes
               PROVE  /\ target'[q] # None => target'[q] \in 1 .. used
                      /\ at'[q] = "idle" => target'[q] = None
                      /\ at'[q] \in {"waiting", "sleeping", "judging"} => target'[q] # None
                      /\ at'[q] = "sleeping" => attempt'[q] < RetryCount
                      /\ \A j \in Attempts : send'[q][j].token # NoToken => target'[q] # None
    BY <1>2 DEF TargetsMade, registry
  <2>1. CASE q = p
    BY <2>1, <1>2
  <2>2. CASE q # p
    <3>1. /\ target'[q] = target[q] /\ at'[q] = at[q] /\ attempt'[q] = attempt[q]
          /\ \A j \in Attempts : send'[q][j] = send[q][j]
      BY <2>2, <1>1, <1>9
    <3> QED  BY <3>1 DEF PushInv, TargetsMade
  <2> QED  BY <2>1, <2>2
<1>6. InvalidWasRefused'
  <2> SUFFICES ASSUME NEW q \in Pushes
               PROVE  /\ lastErr[q] = "invalid token" => target'[q] \in refused'
                      /\ \A j \in Attempts : send'[q][j].reply = "invalid token" => target'[q] \in refused'
    BY <1>2 DEF InvalidWasRefused
  <2>1. target[q] \in refused => target'[q] \in refused'
    <3>1. refused \subseteq Regs /\ None \notin Regs /\ refused \subseteq refused'
      <4>1. refused \subseteq Regs
        BY DEF PushInv, TypeOK
      <4>2. refused \subseteq refused'
        BY DEF AroundSlot
      <4> QED  BY <4>1, <4>2, NoneIsNoReg
    <3> QED  BY <3>1, <1>4
  <2>2. lastErr[q] = "invalid token" => target'[q] \in refused'
    BY <2>1 DEF PushInv, InvalidWasRefused
  <2>3. ASSUME NEW j \in Attempts, send'[q][j].reply = "invalid token" PROVE target'[q] \in refused'
    <3>1. CASE q = p /\ j = i
      BY <2>3, <3>1, <1>1 DEF SlotWrite
    <3>2. CASE q # p \/ j # i
      BY <2>1, <2>3, <3>2, <1>1 DEF PushInv, InvalidWasRefused
    <3> QED  BY <3>1, <3>2
  <2> QED  BY <2>2, <2>3
<1>7. RingsOwnDevice'
  <2> SUFFICES ASSUME NEW q \in Pushes, NEW j \in Attempts, send'[q][j].token # NoToken
               PROVE  <<device[target'[q]].user,
                        IF device[target'[q]].platform = "ios" THEN "voip" ELSE "push">>
                          \in held[send'[q][j].token]
    BY <1>2 DEF RingsOwnDevice, registry
  <2>1. CASE q = p /\ j = i
    BY <2>1, <1>1 DEF SlotWrite
  <2>2. CASE q # p \/ j # i
    <3>1. send'[q][j] = send[q][j]
      BY <2>2, <1>1
    <3>2. target'[q] = target[q]
      <4>1. target[q] # None
        BY <3>1 DEF PushInv, TargetsMade
      <4> QED  BY <4>1, <1>4
    <3> QED  BY <3>1, <3>2 DEF PushInv, RingsOwnDevice
  <2> QED  BY <2>1, <2>2
<1>8. ObjectsStored' /\ DisabledWasRefused'
  <2>1. refused \subseteq refused' /\ UNCHANGED registry
    BY DEF AroundSlot
  <2> QED  BY <2>1 DEF ObjectsStored, DisabledWasRefused, registry, PushInv
<1> QED  BY <1>3, <1>5, <1>6, <1>7, <1>8 DEF PushInv

(* A step of one push, its goroutines included. *)
LEMMA PushesStep ==
  ASSUME RegistryInv, RegistryInv', PushInv, NEW p \in Pushes,
         \/ \E u \in Users : StartPush(p, u)
         \/ \E i \in Attempts : ReadToken(p, i) \/ Answer(p, i)
         \/ TakeAnswer(p) \/ TimeOut(p) \/ Retry(p) \/ Judge(p)
  PROVE  PushInv'
<1> USE RegistryAssumption, PushAssumption
<1>0. /\ at \in [Pushes -> {"idle", "waiting", "sleeping", "judging", "done"}]
      /\ target \in [Pushes -> Regs \cup {None}] /\ attempt \in [Pushes -> Attempts]
      /\ lastErr \in [Pushes -> {"none", "error", "invalid token"}] /\ refused \subseteq Regs
      /\ send \in [Pushes -> [Attempts -> Slots]]
      /\ used \in Nat /\ 1 .. used \subseteq Regs
  <2>1. send \in [Pushes -> [Attempts -> Slots]]
    BY SlotFields DEF PushInv
  <2>2. used \in Nat /\ 1 .. used \subseteq Regs
    BY DEF RegistryInv, RegistryTypeOK
  <2> QED  BY <2>1, <2>2 DEF PushInv, TypeOK
<1>a. /\ target[p] # None => target[p] \in 1 .. used
      /\ at[p] = "idle" => target[p] = None
      /\ at[p] \in {"waiting", "sleeping", "judging"} => target[p] # None
      /\ at[p] = "sleeping" => attempt[p] < RetryCount
      /\ attempt[p] \in Attempts
  BY <1>0 DEF PushInv, TargetsMade
<1>b. \A i \in Attempts : send[p][i] \in Slots
  BY SlotFields DEF PushInv
<1>c. \A i \in Attempts : send[p][i].state # "none" <=> target[p] # None /\ i <= attempt[p]
  BY DEF PushInv, TypeOK
<1>d. \A i \in Attempts : send[p][i].reply = "invalid token" => target[p] \in refused
  BY DEF PushInv, InvalidWasRefused
<1>e. \A i \in Attempts : send[p][i].token # NoToken => target[p] # None
  BY DEF PushInv, TargetsMade
<1>f. \A v \in Slots : v.state \in {"none", "started", "sent", "answered"}
  BY DEF Slots
<1>1. ASSUME NEW u \in Users, StartPush(p, u) PROVE PushInv'
  <2>1. target[p] = None /\ at[p] = "idle" /\ UNCHANGED <<registry, lastErr, refused>>
    BY <1>1, <1>a DEF StartPush
  <2>2. CASE Registered(u) /\ Sendable(devices[u])
    <3>1. /\ devices[u] \in 1 .. used /\ devices[u] # None
          /\ target' = [target EXCEPT ![p] = devices[u]] /\ attempt' = [attempt EXCEPT ![p] = 0]
          /\ send' = [send EXCEPT ![p][0].state = "started"]
          /\ at' = [at EXCEPT ![p] = "waiting"]
      BY <1>1, <2>2 DEF StartPush, Launch, RegistryInv, Owned, RegistryTypeOK
    <3>2. 0 \in Attempts /\ \A i \in Attempts : i <= 0 <=> i = 0
      BY DEF Attempts
    <3> DEFINE v == [send[p][0] EXCEPT !.state = "started"]
    <3>3. send[p][0] \in Slots /\ send[p][0].token = NoToken /\ send[p][0].reply # "invalid token"
      <4>1. target[p] \notin refused
        BY <2>1, <1>0, NoneIsNoReg
      <4> QED  BY <4>1, <3>2, <2>1, <1>b, <1>d, <1>e
    <3>4. v \in Slots /\ v.state = "started" /\ v.token = NoToken /\ v.reply # "invalid token"
      BY <3>3 DEF Slots
    <3>5. send' = [send EXCEPT ![p] = [send[p] EXCEPT ![0] = v]]
      BY <3>1
    <3> HIDE DEF v
    <3>6. /\ at' \in [Pushes -> {"idle", "waiting", "sleeping", "judging", "done"}]
          /\ target' \in [Pushes -> Regs \cup {None}] /\ attempt' \in [Pushes -> Attempts]
      BY <3>1, <3>2, <1>0
    <3>7. /\ \A q \in Pushes : q # p => /\ at'[q] = at[q] /\ target'[q] = target[q]
                                       /\ attempt'[q] = attempt[q]
          /\ target'[p] = devices[u] /\ at'[p] = "waiting" /\ attempt'[p] = 0
      BY <3>1, <1>0
    <3>8. SlotWrite(p, 0, v)
      BY <3>4, <3>5 DEF SlotWrite
    <3>9. AroundSlot(p, 0)
      BY <3>1, <3>2, <3>6, <3>7, <2>1, <1>0 DEF AroundSlot, AtTypes
    <3> QED  BY <3>2, <3>4, <3>8, <3>9, SlotStep
  <2>3. CASE ~(Registered(u) /\ Sendable(devices[u]))
    <3>1. at' = [at EXCEPT ![p] = "done"] /\ UNCHANGED <<target, attempt, send>>
      BY <1>1, <2>3 DEF StartPush
    <3> QED  BY <3>1, <2>1 DEF registry, PushInv, ObjectsStored, TargetsMade, InvalidWasRefused, TypeOK,
                               DisabledWasRefused, RingsOwnDevice, RegistryTypeOK
  <2> QED  BY <2>2, <2>3
<1>2. ASSUME NEW i \in Attempts, ReadToken(p, i) PROVE PushInv'
  <2> DEFINE d == device[target[p]]
             t == IF d.platform = "ios" THEN d.voip ELSE d.push
  <2>1. /\ UNCHANGED <<registry, at, target, attempt, lastErr, refused>>
        /\ send[p][i].state = "started"
        /\ send' = [send EXCEPT ![p][i].state = "sent", ![p][i].token = t]
    BY <1>2 DEF ReadToken
  <2>2. /\ target[p] \in 1 .. used /\ target[p] # None /\ i <= attempt[p]
        /\ at[p] # "idle" /\ send[p][i] \in Slots
    BY <2>1, <1>a, <1>b, <1>c
  <2>3. t \in TokenOrNot
    BY <2>2, <1>0 DEF RegistryInv, RegistryTypeOK
  <2>4. t # NoToken => <<d.user, IF d.platform = "ios" THEN "voip" ELSE "push">> \in held[t]
    BY <2>2, <2>3 DEF ObjectsStored, PushInv
  <2> HIDE DEF t
  <2> DEFINE v == [send[p][i] EXCEPT !.state = "sent", !.token = t]
  <2>5. /\ v \in Slots /\ v.state = "sent" /\ v.token = t /\ v.reply = send[p][i].reply
    BY <2>2, <2>3 DEF Slots
  <2>6. send' = [send EXCEPT ![p] = [send[p] EXCEPT ![i] = v]]
    BY <2>1, <1>0
  <2> HIDE DEF v
  <2>7. v.reply = "invalid token" => target[p] \in refused
    BY <2>5, <1>d
  <2>8. SlotWrite(p, i, v)
    BY <2>1, <2>4, <2>5, <2>6, <2>7 DEF SlotWrite
  <2>9. AroundSlot(p, i)
    BY <2>1, <2>2, <1>0, <1>a DEF AroundSlot, AtTypes
  <2> QED  BY <2>5, <2>8, <2>9, SlotStep
<1>3. ASSUME NEW i \in Attempts, Answer(p, i) PROVE PushInv'
  <2>1. PICK reply \in {"ok", "error", "invalid token"} :
          /\ send' = [send EXCEPT ![p][i] =
                [state |-> "answered", token |-> NoToken,
                 reply |-> IF at[p] = "waiting" /\ attempt[p] = i THEN reply ELSE "none"]]
          /\ refused' = IF reply = "invalid token" THEN refused \cup {target[p]} ELSE refused
    BY <1>3 DEF Answer
  <2>2. UNCHANGED <<registry, at, target, attempt, lastErr>> /\ send[p][i].state = "sent"
    BY <1>3 DEF Answer
  <2>3. /\ target[p] \in 1 .. used /\ target[p] # None /\ i <= attempt[p] /\ at[p] # "idle"
    BY <2>2, <1>a, <1>c
  <2> DEFINE v == [state |-> "answered", token |-> NoToken,
                   reply |-> IF at[p] = "waiting" /\ attempt[p] = i THEN reply ELSE "none"]
  <2>4. /\ v \in Slots /\ v.state = "answered" /\ v.token = NoToken
        /\ v.reply = "invalid token" => reply = "invalid token"
    BY DEF Slots
  <2>5. send' = [send EXCEPT ![p] = [send[p] EXCEPT ![i] = v]]
    BY <2>1, <1>0
  <2> HIDE DEF v
  <2>6. /\ refused \subseteq refused' /\ refused' \subseteq Regs
        /\ v.reply = "invalid token" => target[p] \in refused'
    BY <2>1, <2>3, <2>4, <1>0
  <2>7. SlotWrite(p, i, v)
    BY <2>2, <2>4, <2>5, <2>6 DEF SlotWrite
  <2>8. AroundSlot(p, i)
    BY <2>2, <2>3, <2>6, <1>0, <1>a DEF AroundSlot, AtTypes
  <2> QED  BY <2>4, <2>7, <2>8, SlotStep
<1>4. ASSUME TakeAnswer(p) \/ TimeOut(p) PROVE PushInv'
  <2>1. UNCHANGED <<registry, target, attempt, send, refused>> /\ at[p] = "waiting"
    BY <1>4 DEF TakeAnswer, TimeOut
  <2>2. send[p][attempt[p]].reply \in {"none", "ok", "error", "invalid token"}
    BY <1>a, SlotFields DEF PushInv
  <2>3. /\ at' \in [Pushes -> {"idle", "waiting", "sleeping", "judging", "done"}]
        /\ lastErr' \in [Pushes -> {"none", "error", "invalid token"}]
        /\ \A q \in Pushes : q # p => at'[q] = at[q] /\ lastErr'[q] = lastErr[q]
        /\ at'[p] \in {"done", "sleeping", "judging"}
        /\ at'[p] = "sleeping" => attempt[p] < RetryCount
        /\ lastErr'[p] \in {lastErr[p], "error", send[p][attempt[p]].reply}
    <3>1. CASE TimeOut(p)
      BY <3>1, <1>0 DEF TimeOut, Failed
    <3>2. CASE TakeAnswer(p)
      <4> DEFINE reply == send[p][attempt[p]].reply
      <4>1. CASE reply = "ok"
        BY <4>1, <3>2, <1>0 DEF TakeAnswer
      <4>2. CASE reply # "ok"
        <5>1. Failed(p, reply)
          BY <4>2, <3>2 DEF TakeAnswer
        <5> QED  BY <5>1, <4>2, <2>2, <1>0 DEF Failed
      <4> QED  BY <4>1, <4>2
    <3> QED  BY <1>4, <3>1, <3>2
  <2>4. TypeOK'
    <3>1. RegistryTypeOK'
      BY DEF RegistryInv
    <3> QED  BY <3>1, <2>1, <2>3, ZenonT(40) DEF TypeOK, PushInv
  <2>5. TargetsMade'
    BY <2>1, <2>3, <1>a DEF TargetsMade, PushInv, registry
  <2>6. InvalidWasRefused'
    <3>1. lastErr'[p] = "invalid token" => target[p] \in refused
      BY <2>3, <1>a, <1>d DEF InvalidWasRefused, PushInv
    <3> QED  BY <3>1, <2>1, <2>3 DEF InvalidWasRefused, PushInv
  <2> QED  BY <2>1, <2>4, <2>5, <2>6 DEF PushInv, ObjectsStored, DisabledWasRefused, RingsOwnDevice, registry
<1>5. ASSUME Retry(p) PROVE PushInv'
  <2> DEFINE i == attempt[p] + 1
  <2>1. /\ UNCHANGED <<registry, target, lastErr, refused>> /\ at[p] = "sleeping"
        /\ attempt' = [attempt EXCEPT ![p] = i] /\ send' = [send EXCEPT ![p][i].state = "started"]
        /\ at' = [at EXCEPT ![p] = "waiting"]
    BY <1>5 DEF Retry, Launch
  <2>2. /\ i \in Attempts /\ target[p] # None /\ target[p] \in 1 .. used
        /\ \A j \in Attempts : j # i => (j <= i <=> j <= attempt[p])
    BY <2>1, <1>a DEF Attempts
  <2> HIDE DEF i
  <2> DEFINE v == [send[p][i] EXCEPT !.state = "started"]
  <2>3. send[p][i] \in Slots
    BY <2>2, <1>b
  <2>4. /\ v \in Slots /\ v.state = "started"
        /\ v.token = send[p][i].token /\ v.reply = send[p][i].reply
    BY <2>3 DEF Slots
  <2>5. send' = [send EXCEPT ![p] = [send[p] EXCEPT ![i] = v]]
    BY <2>1
  <2> HIDE DEF v
  <2>6. /\ at' \in [Pushes -> {"idle", "waiting", "sleeping", "judging", "done"}]
        /\ attempt' \in [Pushes -> Attempts]
        /\ \A q \in Pushes : q # p => at'[q] = at[q] /\ attempt'[q] = attempt[q]
        /\ at'[p] = "waiting" /\ attempt'[p] = i
    BY <2>1, <2>2, <1>0
  <2>7. v.reply = "invalid token" => target[p] \in refused
    BY <2>2, <2>4, <1>d
  <2>8. v.token # NoToken =>
          <<device[target[p]].user, IF device[target[p]].platform = "ios" THEN "voip" ELSE "push">>
            \in held[v.token]
    BY <2>2, <2>4 DEF RingsOwnDevice, PushInv
  <2>9. i <= attempt'[p]
    BY <2>2, <2>6 DEF Attempts
  <2>10. SlotWrite(p, i, v)
    BY <2>1, <2>4, <2>5, <2>7, <2>8 DEF SlotWrite
  <2>11. AroundSlot(p, i)
    BY <2>1, <2>2, <2>6, <2>9, <1>0 DEF AroundSlot, AtTypes
  <2> QED  BY <2>2, <2>4, <2>10, <2>11, SlotStep
<1>6. ASSUME Judge(p) PROVE PushInv'
  <2>1. /\ at[p] = "judging" /\ at' = [at EXCEPT ![p] = "done"]
        /\ UNCHANGED <<devices, tokens, used, updates, held, target, attempt, lastErr, send, refused>>
    BY <1>6 DEF Judge
  <2>2. target[p] \in 1 .. used /\ 1 .. used \subseteq Regs
    BY <2>1, <1>a, <1>0
  <2>3. /\ \A r \in Regs : /\ device'[r].user = device[r].user
                           /\ device'[r].platform = device[r].platform
                           /\ device'[r].push = device[r].push /\ device'[r].voip = device[r].voip
        /\ \A r \in Regs : r # target[p] \/ lastErr[p] # "invalid token" =>
                             device'[r].enabled = device[r].enabled
    BY <1>6, <2>2, ZenonT(40) DEF Judge, RegistryInv, RegistryTypeOK
  <2>4. TypeOK' /\ TargetsMade' /\ InvalidWasRefused'
    BY <2>1, <1>0 DEF TypeOK, TargetsMade, InvalidWasRefused, RegistryInv, PushInv
  <2>5. DisabledWasRefused'
    BY <2>1, <2>2, <2>3 DEF DisabledWasRefused, InvalidWasRefused, PushInv
  <2>6. ObjectsStored'
    BY <2>1, <2>2, <2>3 DEF ObjectsStored, PushInv
  <2>7. RingsOwnDevice'
    <3> SUFFICES ASSUME NEW q \in Pushes, NEW i \in Attempts, send[q][i].token # NoToken
                 PROVE  <<device'[target[q]].user,
                          IF device'[target[q]].platform = "ios" THEN "voip" ELSE "push">>
                            \in held[send[q][i].token]
      BY <2>1 DEF RingsOwnDevice
    <3>1. target[q] \in Regs
      BY <1>0 DEF TargetsMade, PushInv
    <3> QED  BY <3>1, <2>3 DEF RingsOwnDevice, PushInv
  <2> QED  BY <2>4, <2>5, <2>6, <2>7 DEF PushInv
<1> QED  BY <1>1, <1>2, <1>3, <1>4, <1>5, <1>6

(* A push is sound, for any number of pushes, users, tokens and retries:   *)
(* it disables only a registration with a token that APNs called invalid,  *)
(* and rings only devices by tokens that were stored for its user.         *)
THEOREM PushesAreSound == Spec => []PushesSound
<1>1. PushInv /\ RegistryInv /\ RegistryInv' /\ [Next]_vars => PushInv'
  <2> SUFFICES ASSUME PushInv, RegistryInv, RegistryInv', [Next]_vars PROVE PushInv'
    OBVIOUS
  <2>1. CASE UNCHANGED vars
    BY <2>1 DEF vars, registry, pushes, PushInv, ObjectsStored, TargetsMade, InvalidWasRefused,
                TypeOK, DisabledWasRefused, RingsOwnDevice, RegistryInv
  <2> QED  BY <2>1, RegistryUnderPushes, PushesStep DEF Next
<1>2. PushInv => PushesSound
  BY DEF PushInv, PushesSound
<1> QED  BY <1>1, <1>2, InitPushes, RegistryInvariance, PTL DEF Spec
=============================================================================
