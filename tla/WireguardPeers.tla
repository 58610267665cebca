---------------------------- MODULE WireguardPeers ----------------------------
(***************************************************************************)
(* wireguard-voip: the peer manager (internal/peer/manager.go), the peers  *)
(* of the interface (internal/wg/service.go) and the metrics collector,    *)
(* under the provision and revoke handlers of cmd/main.go.                 *)
(*                                                                         *)
(* A key pair is the number of the Provision that made it.  Provision and  *)
(* Revoke hold the manager's lock throughout, also while they change the   *)
(* interface under its own; the handler answers after the lock is free.    *)
(* main configures the interface before it serves, so AddPeer and          *)
(* RemovePeer do not fail.  Traffic counters and device info are left out. *)
(***************************************************************************)
EXTENDS Naturals, FiniteSets

CONSTANTS
  WgUsers,
  Addresses,   \* what AllocateIP may hand out: the last byte of each, 2 .. 253
  MaxKeys,     \* bound: key pairs made
  Nobody       \* no peer, no key

ASSUME WgAssumption ==
  /\ Addresses \subseteq Nat /\ MaxKeys \in Nat
  /\ Nobody \notin Nat /\ Nobody \notin [user : WgUsers, ip : Addresses]

VARIABLES
  peers,      \* m.peers: by key, the user and the address, or Nobody
  userPeers,  \* m.userPeers: by user, a key or Nobody
  ipPool,     \* m.ipPool: the addresses in use
  iface,      \* s.config.Peers: pairs of a key and its address
  keys,       \* key pairs made so far: 1 .. keys
  answering,  \* what Provision returned and its handler has not answered yet
  leases,     \* history: what clients were answered
  gathering,  \* the collector's count so far, or Nobody between two rounds
  metrics     \* c.metrics: the count of peers and the peers listed

tables == <<peers, userPeers, ipPool, iface, keys>>
collector == <<gathering, metrics>>
wgVars == <<tables, answering, leases, collector>>

WgKeys == 1 .. MaxKeys
Peer == [user : WgUsers, ip : Addresses]
Lease == [key : WgKeys, peer : Peer]
Nothing == [k \in WgKeys |-> Nobody]
Known == {k \in WgKeys : peers[k] # Nobody}

WgInit ==
  /\ peers = Nothing /\ userPeers = [u \in WgUsers |-> Nobody]
  /\ ipPool = {} /\ iface = {} /\ keys = 0
  /\ answering = {} /\ leases = {}
  /\ gathering = Nobody /\ metrics = [count |-> 0, listed |-> {}]

-----------------------------------------------------------------------------
(* The user has a peer: it is returned.                                    *)
ProvisionAgain(u) ==
  /\ userPeers[u] # Nobody
  /\ answering' = answering \cup {[key |-> userPeers[u], peer |-> peers[userPeers[u]]]}
  /\ UNCHANGED <<tables, leases, collector>>

(* A new peer, at the lowest address that is free; or none is, an error.   *)
Free(a) == a \in Addresses \ ipPool /\ \A b \in Addresses \ ipPool : a <= b
ProvisionUnpooled(u, a) ==
  LET k == keys + 1
      p == [user |-> u, ip |-> a]
  IN /\ userPeers[u] = Nobody /\ k <= MaxKeys /\ Free(a)
     /\ peers' = [peers EXCEPT ![k] = p]
     /\ userPeers' = [userPeers EXCEPT ![u] = k]
     /\ iface' = iface \cup {<<k, a>>}
     /\ keys' = k
     /\ answering' = answering \cup {[key |-> k, peer |-> p]}
     /\ UNCHANGED <<ipPool, leases, collector>>
Provision(u, a) ==
  LET k == keys + 1
      p == [user |-> u, ip |-> a]
  IN /\ userPeers[u] = Nobody /\ k <= MaxKeys /\ Free(a)
     /\ peers' = [peers EXCEPT ![k] = p]
     /\ userPeers' = [userPeers EXCEPT ![u] = k]
     /\ ipPool' = ipPool \cup {a}
     /\ iface' = iface \cup {<<k, a>>}
     /\ keys' = k
     /\ answering' = answering \cup {[key |-> k, peer |-> p]}
     /\ UNCHANGED <<leases, collector>>

(* provisionHandler answers, whatever became of the peer meanwhile.        *)
Respond(l) ==
  /\ l \in answering
  /\ answering' = answering \ {l}
  /\ leases' = leases \cup {l}
  /\ UNCHANGED <<tables, collector>>

Revoke(k) ==
  /\ peers[k] # Nobody
  /\ peers' = [peers EXCEPT ![k] = Nobody]
  /\ userPeers' = [userPeers EXCEPT ![peers[k].user] = Nobody]
  /\ ipPool' = ipPool \ {peers[k].ip}
  /\ iface' = {e \in iface : e[1] # k}
  /\ UNCHANGED <<keys, answering, leases, collector>>

(* collect: the number of peers, then, under the lock again, the peers.    *)
CountPeers ==
  /\ gathering = Nobody
  /\ gathering' = Cardinality(Known)
  /\ UNCHANGED <<tables, answering, leases, metrics>>
CollectPeers ==
  /\ gathering # Nobody
  /\ metrics' = [count |-> gathering, listed |-> Known]
  /\ gathering' = Nobody
  /\ UNCHANGED <<tables, answering, leases>>

WgNext ==
  \/ \E u \in WgUsers : ProvisionAgain(u) \/ \E a \in Addresses : Provision(u, a)
  \/ \E l \in answering : Respond(l)
  \/ \E k \in WgKeys : Revoke(k)
  \/ CountPeers \/ CollectPeers

WgSpec == WgInit /\ [][WgNext]_wgVars

-----------------------------------------------------------------------------
(* Types; and only the keys made so far are in use.                        *)
WgTypeOK ==
  /\ peers \in [WgKeys -> Peer \cup {Nobody}]
  /\ userPeers \in [WgUsers -> WgKeys \cup {Nobody}]
  /\ ipPool \subseteq Addresses
  /\ iface \subseteq WgKeys \X Addresses
  /\ keys \in 0 .. MaxKeys /\ \A k \in WgKeys : k > keys => peers[k] = Nobody
  /\ answering \cup leases \subseteq Lease
  /\ \A l \in answering \cup leases : l.key <= keys
  /\ gathering \in Nat \cup {Nobody}
  /\ metrics \in [count : Nat, listed : SUBSET WgKeys]

(* The tables and the interface say the same: a user and a key name each   *)
(* other, an address is taken iff a peer has it and then one peer has it,  *)
(* and the interface routes exactly those.                                 *)
UsersMatch ==
  /\ \A u \in WgUsers : userPeers[u] # Nobody =>
       userPeers[u] \in Known /\ peers[userPeers[u]].user = u
  /\ \A k \in Known : userPeers[peers[k].user] = k
AddressesMatch ==
  /\ ipPool = {peers[k].ip : k \in Known}
  /\ \A j, k \in Known : peers[j].ip = peers[k].ip => j = k
  /\ iface = {<<k, peers[k].ip>> : k \in Known}
(* What a client was answered holds until its key is revoked: no other     *)
(* change gives its address to a client with another key.                  *)
LeasesHold == \A l \in answering \cup leases : peers[l.key] \in {Nobody, l.peer}

PeersAgree == WgTypeOK /\ UsersMatch /\ AddressesMatch /\ LeasesHold
=============================================================================
