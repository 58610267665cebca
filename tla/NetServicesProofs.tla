--------------------------- MODULE NetServicesProofs ---------------------------
(***************************************************************************)
(* The smaller services, proved for every value of the constants, each     *)
(* with an inductive invariant of its own: wireguard-voip (PeersAgree),    *)
(* amd-system (RoutesMatch), the reports, enrichment and daily figures of  *)
(* multi-tenant-cdr (ReportsTrue, RowsSound, FiguresMatch), the listeners  *)
(* of the CDR services (EventsReachListeners), the SIP translator of       *)
(* webrtc-gateway (AnswersAgree), the RPC service of kamailio-router       *)
(* (TablesAgree), esl-resilience's log (AlertsEarned, LogsAgree) and the   *)
(* SDP parser of rtpengine-media (DescriptionKept).                        *)
(***************************************************************************)
EXTENDS WireguardPeers, AmdCalls, CdrReports, SipTranslator, CdrEnrichment,
        KamailioRpc, DailyFigures, EslListeners, LogPipeline, SdpDescription,
        FiniteSetTheorems, WellFoundedInduction, TLAPS

(***************************************************************************)
(* Wireguard.  PeersAgree is inductive: a key is never made twice, so a    *)
(* lease of an old key is not that of a new peer; and the pool holds the   *)
(* addresses of the peers and no others, so the address taken from it is   *)
(* nobody's.                                                               *)
(***************************************************************************)
(* The collector counts finitely many peers. *)
LEMMA KnownIsFinite == Cardinality(Known) \in Nat
<1>1. IsFiniteSet(WgKeys)
  BY FS_Interval, WgAssumption DEF WgKeys
<1>2. IsFiniteSet(Known)
  BY <1>1, FS_Subset DEF Known
<1> QED BY <1>2, FS_CardinalityType

LEMMA WgInitAgrees == WgInit => PeersAgree
<1> SUFFICES ASSUME WgInit PROVE PeersAgree
  OBVIOUS
<1>1. Known = {}
  BY DEF WgInit, Nothing, Known
<1>2. WgTypeOK
  BY WgAssumption DEF WgInit, Nothing, WgTypeOK, WgKeys
<1>3. UsersMatch
  BY <1>1 DEF WgInit, UsersMatch
<1>4. AddressesMatch
  BY <1>1 DEF WgInit, AddressesMatch
<1>5. LeasesHold
  BY DEF WgInit, LeasesHold
<1> QED BY <1>2, <1>3, <1>4, <1>5 DEF PeersAgree

-----------------------------------------------------------------------------
(* The steps that change no table: a second Provision of a user, the       *)
(* handler's answer, the collector.                                        *)
LEMMA AnswerStep ==
  ASSUME PeersAgree, UNCHANGED tables, 
         answering' \cup leases' \subseteq answering \cup leases
           \cup {[key |-> userPeers[u], peer |-> peers[userPeers[u]]] :
                  u \in {v \in WgUsers : userPeers[v] # Nobody}},
         gathering' \in Nat \cup {Nobody},
         metrics' \in [count : Nat, listed : SUBSET WgKeys]
  PROVE  PeersAgree'
<1> DEFINE again == {[key |-> userPeers[u], peer |-> peers[userPeers[u]]] :
                       u \in {v \in WgUsers : userPeers[v] # Nobody}}
<1>1. Known' = Known
  BY DEF tables, Known
<1>2. \A l \in again : l \in Lease /\ l.key <= keys /\ peers[l.key] = l.peer
  <2> SUFFICES ASSUME NEW u \in WgUsers, userPeers[u] # Nobody
               PROVE  LET l == [key |-> userPeers[u], peer |-> peers[userPeers[u]]]
                      IN l \in Lease /\ l.key <= keys /\ peers[l.key] = l.peer
    OBVIOUS
  <2>1. userPeers[u] \in WgKeys /\ peers[userPeers[u]] # Nobody
    BY DEF PeersAgree, UsersMatch, WgTypeOK, Known
  <2>2. peers[userPeers[u]] \in Peer /\ userPeers[u] <= keys
    BY <2>1, WgAssumption DEF PeersAgree, WgTypeOK, WgKeys
  <2> QED BY <2>1, <2>2 DEF Lease
<1>3. WgTypeOK'
  BY <1>2 DEF tables, PeersAgree, WgTypeOK
<1>4. UsersMatch' /\ AddressesMatch'
  BY <1>1 DEF tables, PeersAgree, UsersMatch, AddressesMatch
<1>5. LeasesHold'
  BY <1>2 DEF tables, PeersAgree, LeasesHold
<1> QED BY <1>3, <1>4, <1>5 DEF PeersAgree

(* A new peer. *)
LEMMA ProvisionStep ==
  ASSUME PeersAgree, NEW u \in WgUsers, NEW a \in Addresses, Provision(u, a)
  PROVE  PeersAgree'
<1> DEFINE k == keys + 1
           p == [user |-> u, ip |-> a]
<1>1. /\ userPeers[u] = Nobody /\ k <= MaxKeys /\ a \notin ipPool
      /\ peers' = [peers EXCEPT ![k] = p] /\ userPeers' = [userPeers EXCEPT ![u] = k]
      /\ ipPool' = ipPool \cup {a} /\ iface' = iface \cup {<<k, a>>} /\ keys' = k
      /\ answering' = answering \cup {[key |-> k, peer |-> p]}
      /\ UNCHANGED <<leases, gathering, metrics>>
  BY DEF Provision, Free, collector
<1>2. k \in WgKeys /\ keys \in Nat /\ k > keys /\ peers[k] = Nobody
  BY <1>1, WgAssumption DEF PeersAgree, WgTypeOK, WgKeys
<1>3. p \in Peer /\ p # Nobody
  BY WgAssumption DEF Peer
<1> HIDE DEF k, p
<1>4. peers' \in [WgKeys -> Peer \cup {Nobody}] /\ peers'[k] = p
      /\ \A j \in WgKeys : j # k => peers'[j] = peers[j]
  BY <1>1, <1>2, <1>3 DEF PeersAgree, WgTypeOK
<1>5. Known' = Known \cup {k}
  BY <1>2, <1>3, <1>4 DEF Known
<1>6. k \notin Known
  BY <1>2 DEF Known
<1>7. p.user = u /\ p.ip = a
  BY DEF p
<1>8. WgTypeOK'
  <2>1. userPeers' \in [WgUsers -> WgKeys \cup {Nobody}]
    BY <1>1, <1>2 DEF PeersAgree, WgTypeOK
  <2>2. ipPool' \subseteq Addresses /\ iface' \subseteq WgKeys \X Addresses
    BY <1>1, <1>2 DEF PeersAgree, WgTypeOK
  <2>3. keys' \in 0 .. MaxKeys /\ \A j \in WgKeys : j > keys' => peers'[j] = Nobody
    BY <1>1, <1>2, <1>4, WgAssumption DEF PeersAgree, WgTypeOK, WgKeys
  <2>4. [key |-> k, peer |-> p] \in Lease
    BY <1>2, <1>3 DEF Lease
  <2>5. answering' \cup leases' \subseteq Lease /\ \A l \in answering' \cup leases' : l.key <= keys'
    BY <1>1, <1>2, <2>4 DEF PeersAgree, WgTypeOK, Lease, WgKeys
  <2> QED BY <1>1, <1>4, <2>1, <2>2, <2>3, <2>5 DEF PeersAgree, WgTypeOK
<1>9. UsersMatch'
  BY <1>1, <1>2, <1>3, <1>4, <1>5, <1>6, <1>7, WgAssumption DEF PeersAgree, UsersMatch, WgTypeOK, Known, WgKeys
<1>10. AddressesMatch'
  <2>1. \A j \in Known : peers'[j] = peers[j] /\ peers[j].ip # a
    BY <1>1, <1>4, <1>6 DEF PeersAgree, AddressesMatch, Known
  <2>2. ipPool' = {peers'[j].ip : j \in Known'} /\ iface' = {<<j, peers'[j].ip>> : j \in Known'}
    BY <1>1, <1>4, <1>5, <1>7, <2>1 DEF PeersAgree, AddressesMatch
  <2>3. \A i, j \in Known' : peers'[i].ip = peers'[j].ip => i = j
    BY <1>4, <1>5, <1>7, <2>1 DEF PeersAgree, AddressesMatch
  <2> QED BY <2>2, <2>3 DEF AddressesMatch
<1>11. LeasesHold'
  <2>1. \A l \in answering \cup leases : l.key # k /\ l.key \in WgKeys
    BY <1>2 DEF PeersAgree, WgTypeOK, Lease, WgKeys
  <2> QED BY <1>1, <1>4, <2>1 DEF PeersAgree, LeasesHold
<1> QED BY <1>8, <1>9, <1>10, <1>11 DEF PeersAgree

(* A peer goes. *)
LEMMA RevokeStep ==
  ASSUME PeersAgree, NEW k \in WgKeys, Revoke(k)
  PROVE  PeersAgree'
<1>1. /\ peers[k] # Nobody
      /\ peers' = [peers EXCEPT ![k] = Nobody]
      /\ userPeers' = [userPeers EXCEPT ![peers[k].user] = Nobody]
      /\ ipPool' = ipPool \ {peers[k].ip}
      /\ iface' = {e \in iface : e[1] # k}
      /\ UNCHANGED <<keys, answering, leases, gathering, metrics>>
  BY DEF Revoke, collector
<1>2. k \in Known /\ peers[k] \in Peer
  BY <1>1 DEF Known, PeersAgree, WgTypeOK
<1>3. peers' \in [WgKeys -> Peer \cup {Nobody}] /\ peers'[k] = Nobody
      /\ \A j \in WgKeys : j # k => peers'[j] = peers[j]
  BY <1>1 DEF PeersAgree, WgTypeOK
<1>4. Known' = Known \ {k}
  BY <1>3 DEF Known
<1>5. WgTypeOK'
  <2>1. userPeers' \in [WgUsers -> WgKeys \cup {Nobody}]
    BY <1>1 DEF PeersAgree, WgTypeOK
  <2>2. \A j \in WgKeys : j > keys' => peers'[j] = Nobody
    BY <1>1, <1>3 DEF PeersAgree, WgTypeOK
  <2> QED BY <1>1, <1>3, <2>1, <2>2 DEF PeersAgree, WgTypeOK
<1>6. UsersMatch'
  BY <1>1, <1>2, <1>3, <1>4 DEF PeersAgree, UsersMatch, WgTypeOK, Known, Peer
<1>7. AddressesMatch'
  <2>1. \A j \in Known' : peers'[j] = peers[j] /\ peers[j].ip # peers[k].ip
    BY <1>2, <1>3, <1>4 DEF PeersAgree, AddressesMatch, Known
  <2>2. ipPool' = {peers'[j].ip : j \in Known'} /\ iface' = {<<j, peers'[j].ip>> : j \in Known'}
    BY <1>1, <1>2, <1>4, <2>1 DEF PeersAgree, AddressesMatch
  <2>3. \A i, j \in Known' : peers'[i].ip = peers'[j].ip => i = j
    BY <1>4, <2>1 DEF PeersAgree, AddressesMatch
  <2> QED BY <2>2, <2>3 DEF AddressesMatch
<1>8. LeasesHold'
  BY <1>1, <1>3 DEF PeersAgree, LeasesHold, WgTypeOK, Lease
<1> QED BY <1>5, <1>6, <1>7, <1>8 DEF PeersAgree

-----------------------------------------------------------------------------
(* The manager's tables, the address pool and the interface agree, and     *)
(* what clients were answered holds until it is revoked, for any users,    *)
(* addresses and number of keys.                                           *)
THEOREM PeersAlwaysAgree == WgSpec => []PeersAgree
<1>1. WgInit => PeersAgree
  BY WgInitAgrees
<1>2. PeersAgree /\ [WgNext]_wgVars => PeersAgree'
  <2> SUFFICES ASSUME PeersAgree, [WgNext]_wgVars PROVE PeersAgree'
    OBVIOUS
  <2>0. gathering \in Nat \cup {Nobody} /\ metrics \in [count : Nat, listed : SUBSET WgKeys]
    BY DEF PeersAgree, WgTypeOK
  <2>1. ASSUME NEW u \in WgUsers, ProvisionAgain(u) PROVE PeersAgree'
    BY <2>0, <2>1, AnswerStep DEF ProvisionAgain, collector
  <2>2. ASSUME NEW u \in WgUsers, NEW a \in Addresses, Provision(u, a) PROVE PeersAgree'
    BY <2>2, ProvisionStep
  <2>3. ASSUME NEW l \in answering, Respond(l) PROVE PeersAgree'
    BY <2>0, <2>3, AnswerStep DEF Respond, collector
  <2>4. ASSUME NEW k \in WgKeys, Revoke(k) PROVE PeersAgree'
    BY <2>4, RevokeStep
  <2>5. CASE CountPeers
    BY <2>0, <2>5, AnswerStep, KnownIsFinite DEF CountPeers
  <2>6. CASE CollectPeers
    <3>1. metrics' \in [count : Nat, listed : SUBSET WgKeys]
      BY <2>0, <2>6 DEF CollectPeers, Known
    <3> QED BY <2>6, <3>1, AnswerStep DEF CollectPeers
  <2>7. CASE UNCHANGED wgVars
    BY <2>0, <2>7, AnswerStep DEF wgVars, collector
  <2> QED BY <2>1, <2>2, <2>3, <2>4, <2>5, <2>6, <2>7 DEF WgNext
<1> QED BY <1>1, <1>2, PTL DEF WgSpec

-----------------------------------------------------------------------------
(***************************************************************************)
(* amd-system.  While a request is between completing its session and      *)
(* routing it, the session holds that request's verdict and no other       *)
(* request is there (RoutePending), unless two of them overlapped.         *)
(***************************************************************************)
Routing(s) == {q \in Requests : request[q].session = s /\ request[q].at = "routing"}

(* A request and, once it has begun, its session. *)
Request ==
  {r \in [at : Places, session : AmdSessions \cup {NoSession}, verdict : Verdicts \cup {"unknown"}] :
     r.at # "new" => r.session \in AmdSessions}
AmdTypes ==
  /\ session \in [AmdSessions -> AmdSession \cup {NoSession}]
  /\ request \in [Requests -> Request]
  /\ overlapped \subseteq AmdSessions
  /\ tally \in [total : Nat, completed : Nat] \cup {NoSession}
  /\ report.total = report.active + report.completed

Pending(s) ==
  session[s] # NoSession /\ s \notin overlapped =>
    /\ \A q \in Routing(s) : /\ session[s].completed
                             /\ session[s].result = request[q].verdict
                             /\ \A p \in Routing(s) : p = q
    /\ session[s].completed /\ Routing(s) = {} =>
         session[s].routedTo = Destination(session[s].result)
    /\ session[s].routedTo # "" => session[s].completed
RoutePending == \A s \in AmdSessions : Pending(s)

AmdInv == AmdTypes /\ RoutePending

LEMMA AmdInitSound == AmdInit => AmdInv
<1> SUFFICES ASSUME AmdInit PROVE AmdInv  OBVIOUS
<1>1. AmdTypes  BY DEF AmdInit, AmdTypes, Request, Places
<1>2. RoutePending  BY DEF AmdInit, RoutePending, Pending
<1> QED  BY <1>1, <1>2 DEF AmdInv

(* A step that leaves a session alone, and the requests that route it.     *)
LEMMA AmdOther ==
  ASSUME NEW s \in AmdSessions, Pending(s), session'[s] = session[s], Routing(s)' = Routing(s),
         \A q \in Routing(s) : request'[q].verdict = request[q].verdict,
         overlapped \subseteq overlapped'
  PROVE  Pending(s)'
BY DEF Pending

(* One field of a session set, and one request moved on.                   *)
LEMMA SetSession ==
  ASSUME NEW r \in AmdSession
  PROVE  /\ \A n \in Nat :
              /\ [r EXCEPT !.chunks = n] \in AmdSession
              /\ [r EXCEPT !.chunks = n].completed = r.completed
              /\ [r EXCEPT !.chunks = n].result = r.result
              /\ [r EXCEPT !.chunks = n].routedTo = r.routedTo
         /\ \A n \in 0 .. MaxRetry :
              /\ [r EXCEPT !.retries = n] \in AmdSession
              /\ [r EXCEPT !.retries = n].completed = r.completed
              /\ [r EXCEPT !.retries = n].result = r.result
              /\ [r EXCEPT !.retries = n].routedTo = r.routedTo
         /\ \A v \in Verdicts \cup {"unknown"} :
              /\ [r EXCEPT !.result = v, !.completed = TRUE] \in AmdSession
              /\ [r EXCEPT !.result = v, !.completed = TRUE].completed
              /\ [r EXCEPT !.result = v, !.completed = TRUE].result = v
              /\ [r EXCEPT !.result = v, !.completed = TRUE].routedTo = r.routedTo
         /\ \A v : /\ [r EXCEPT !.routedTo = Destination(v)] \in AmdSession
                    /\ [r EXCEPT !.routedTo = Destination(v)].completed = r.completed
                    /\ [r EXCEPT !.routedTo = Destination(v)].result = r.result
                    /\ [r EXCEPT !.routedTo = Destination(v)].routedTo = Destination(v)
<1>1. \A v : Destination(v) \in {"", "agent_queue", "voicemail_drop", "fax_handler", "retry_queue"}
  BY DEF Destination
<1> QED  BY <1>1 DEF AmdSession

LEMMA SetRequest ==
  ASSUME AmdTypes, NEW q \in Requests, NEW r \in Request, request' = [request EXCEPT ![q] = r]
  PROVE  /\ request' \in [Requests -> Request]
         /\ request'[q] = r /\ \A p \in Requests : p # q => request'[p] = request[p]
BY DEF AmdTypes

(* A request that neither comes to routing nor leaves it.                  *)
LEMMA RoutingAlone ==
  ASSUME AmdTypes, NEW q \in Requests, NEW r \in Request,
         r.at # "routing", request[q].at # "routing",
         request' = [request EXCEPT ![q] = r]
  PROVE  /\ request' \in [Requests -> Request]
         /\ \A s \in AmdSessions :
              /\ Routing(s)' = Routing(s)
              /\ \A p \in Routing(s) : request'[p].verdict = request[p].verdict
<1>1. /\ request' \in [Requests -> Request]
      /\ request'[q] = r /\ \A p \in Requests : p # q => request'[p] = request[p]
  BY SetRequest
<1>2. ASSUME NEW s \in AmdSessions PROVE Routing(s)' = Routing(s)  BY <1>1 DEF Routing
<1>3. ASSUME NEW s \in AmdSessions, NEW p \in Routing(s) PROVE request'[p].verdict = request[p].verdict
  BY <1>1 DEF Routing
<1> QED  BY <1>1, <1>2, <1>3

(* An edit of a session that leaves alone what its route depends on.       *)
LEMMA EditSound ==
  ASSUME AmdInv, NEW s \in AmdSessions, NEW new \in AmdSession, session[s] \in AmdSession,
         session' = [session EXCEPT ![s] = new],
         new.completed = session[s].completed, new.result = session[s].result,
         new.routedTo = session[s].routedTo,
         request' \in [Requests -> Request], UNCHANGED <<overlapped, tally, report>>,
         \A u \in AmdSessions :
              /\ Routing(u)' = Routing(u)
              /\ \A p \in Routing(u) : request'[p].verdict = request[p].verdict
  PROVE  AmdInv'
<1>1. session' \in [AmdSessions -> AmdSession \cup {NoSession}]  BY DEF AmdInv, AmdTypes
<1>2. AmdTypes'  BY <1>1 DEF AmdInv, AmdTypes
<1>3. session'[s] = new /\ \A u \in AmdSessions : u # s => session'[u] = session[u]
  BY DEF AmdInv, AmdTypes
<1>4. Pending(s)'
  <2>1. Pending(s) /\ session[s] # NoSession  BY NoSessionAssumption DEF AmdInv, RoutePending
  <2> QED  BY <1>3, <2>1 DEF Pending
<1>5. ASSUME NEW u \in AmdSessions, u # s PROVE Pending(u)'
  BY <1>3, <1>5, AmdOther DEF AmdInv, RoutePending
<1> QED  BY <1>2, <1>4, <1>5 DEF AmdInv, RoutePending

LEMMA ChunkSound ==
  ASSUME AmdAssumption, NoSessionAssumption, AmdInv, NEW q \in Requests, NEW s \in AmdSessions,
         RecordAudioChunk(q, s)
  PROVE  AmdInv'
<1>1. AmdTypes /\ session[s] \in AmdSession /\ request[q] \in Request
  BY DEF AmdInv, AmdTypes, RecordAudioChunk, Live
<1>2. PICK r \in Request : r.at = "classifying" /\ request' = [request EXCEPT ![q] = r]
  <2>1. [at |-> "classifying", session |-> s, verdict |-> request[q].verdict] \in Request
    BY <1>1 DEF Request, Places
  <2> QED  BY <2>1 DEF RecordAudioChunk
<1>3. request[q].at # "routing"  BY DEF RecordAudioChunk
<1>4. /\ request' \in [Requests -> Request]
      /\ \A u \in AmdSessions :
              /\ Routing(u)' = Routing(u)
              /\ \A p \in Routing(u) : request'[p].verdict = request[p].verdict
  BY <1>1, <1>2, <1>3, RoutingAlone
<1>5. session' = [session EXCEPT ![s] = [session[s] EXCEPT !.chunks = session[s].chunks + 1]]
      /\ UNCHANGED <<overlapped, tally, report>>
  BY DEF RecordAudioChunk
<1>6. session[s].chunks + 1 \in Nat
  <2>1. session[s].chunks \in Nat  BY <1>1 DEF AmdSession
  <2> QED  BY <2>1
<1>7. PICK new \in AmdSession : /\ session' = [session EXCEPT ![s] = new]
                             /\ new.completed = session[s].completed /\ new.result = session[s].result
                             /\ new.routedTo = session[s].routedTo
  <2> DEFINE new == [session[s] EXCEPT !.chunks = session[s].chunks + 1]
  <2>1. /\ new \in AmdSession /\ new.completed = session[s].completed
        /\ new.result = session[s].result /\ new.routedTo = session[s].routedTo
    BY <1>1, <1>6, SetSession
  <2>2. session' = [session EXCEPT ![s] = new]  BY <1>5
  <2> HIDE DEF new
  <2> QED  BY <2>1, <2>2
<1> QED  BY <1>1, <1>4, <1>5, <1>7, EditSound
LEMMA RetrySound ==
  ASSUME NoSessionAssumption, AmdInv, NEW s \in AmdSessions, RecordRetry(s) PROVE AmdInv'
<1>1. AmdTypes /\ session[s] \in AmdSession  BY DEF AmdInv, AmdTypes, RecordRetry, Live
<1>2. session' = [session EXCEPT ![s] = [session[s] EXCEPT !.retries = session[s].retries + 1]]
      /\ UNCHANGED <<request, overlapped, tally, report>>
  BY DEF RecordRetry
<1>3. session[s].retries + 1 \in 0 .. MaxRetry
  <2>1. session[s].retries \in 0 .. MaxRetry  BY <1>1 DEF AmdSession
  <2> QED  BY <2>1, AmdAssumption DEF RecordRetry, ShouldRetry
<1>4. PICK new \in AmdSession : /\ session' = [session EXCEPT ![s] = new]
                             /\ new.completed = session[s].completed /\ new.result = session[s].result
                             /\ new.routedTo = session[s].routedTo
  <2> DEFINE new == [session[s] EXCEPT !.retries = session[s].retries + 1]
  <2>1. /\ new \in AmdSession /\ new.completed = session[s].completed
        /\ new.result = session[s].result /\ new.routedTo = session[s].routedTo
    BY <1>1, <1>3, SetSession
  <2>2. session' = [session EXCEPT ![s] = new]  BY <1>2
  <2> HIDE DEF new
  <2> QED  BY <2>1, <2>2
<1>5. request' \in [Requests -> Request]  BY <1>1, <1>2 DEF AmdTypes
<1>6. \A u \in AmdSessions :
        /\ Routing(u)' = Routing(u)
        /\ \A p \in Routing(u) : request'[p].verdict = request[p].verdict
  BY <1>2 DEF Routing
<1> QED  BY <1>1, <1>2, <1>4, <1>5, <1>6, EditSound

(* Every session stays as it is, or goes. *)
LEMMA KeepSound ==
  ASSUME AmdInv, AmdTypes', overlapped' = overlapped,
         \A s \in AmdSessions : /\ session'[s] \in {session[s], NoSession}
                                /\ Routing(s)' = Routing(s)
                                /\ \A p \in Routing(s) : request'[p].verdict = request[p].verdict
  PROVE  AmdInv'
<1>1. ASSUME NEW s \in AmdSessions PROVE Pending(s)'
  <2>1. CASE session'[s] = session[s]  BY <2>1, AmdOther DEF AmdInv, RoutePending
  <2>2. CASE session'[s] = NoSession  BY <2>2 DEF Pending
  <2> QED  BY <2>1, <2>2
<1> QED  BY <1>1 DEF AmdInv, RoutePending

LEMMA ClassifySound ==
  ASSUME NoSessionAssumption, AmdInv, NEW q \in Requests, NEW v \in Verdicts, Classify(q, v)
  PROVE AmdInv'
<1>1. AmdTypes /\ request[q] \in Request  BY DEF AmdInv, AmdTypes
<1>2. PICK r \in Request : r.at # "routing" /\ request' = [request EXCEPT ![q] = r]
  <2>1. PICK next \in {"completing", "done"} :
          request' = [request EXCEPT ![q] = [at |-> next, session |-> request[q].session, verdict |-> v]]
    BY DEF Classify
  <2>2. request[q].session \in AmdSessions  BY <1>1 DEF Classify, Request
  <2>3. [at |-> next, session |-> request[q].session, verdict |-> v] \in Request
    BY <2>2 DEF Request, Places
  <2> QED  BY <2>1, <2>3
<1>3. request[q].at # "routing" /\ UNCHANGED <<session, overlapped, tally, report>>
  BY DEF Classify
<1>4. /\ request' \in [Requests -> Request]
      /\ \A u \in AmdSessions :
              /\ Routing(u)' = Routing(u)
              /\ \A p \in Routing(u) : request'[p].verdict = request[p].verdict
  BY <1>1, <1>2, <1>3, RoutingAlone
<1>5. AmdTypes'  BY <1>1, <1>3, <1>4 DEF AmdTypes
<1> QED  BY <1>3, <1>4, <1>5, KeepSound

LEMMA StartSound ==
  ASSUME NoSessionAssumption, AmdAssumption, AmdInv, NEW s \in AmdSessions, StartSession(s)
  PROVE AmdInv'
<1>1. Started \in AmdSession /\ Started.completed = FALSE /\ Started.routedTo = ""
  <2>1. 0 \in 0 .. MaxRetry  BY AmdAssumption
  <2> QED  BY <2>1 DEF Started, AmdSession
<1>2. session' = [session EXCEPT ![s] = Started] /\ UNCHANGED <<request, overlapped, tally, report>>
  BY DEF StartSession
<1>3. AmdTypes'  BY <1>1, <1>2 DEF AmdInv, AmdTypes
<1>4. session'[s] = Started /\ \A u \in AmdSessions : u # s => session'[u] = session[u]
  BY <1>2 DEF AmdInv, AmdTypes
<1>5. Routing(s)' = {}  BY <1>2 DEF StartSession, Routing
<1>6. Pending(s)'  BY <1>1, <1>4, <1>5 DEF Pending
<1>7. ASSUME NEW u \in AmdSessions, u # s PROVE Pending(u)'
  <2>1. Routing(u)' = Routing(u)  BY <1>2 DEF Routing
  <2> QED  BY <1>2, <1>4, <1>7, <2>1, AmdOther DEF AmdInv, RoutePending
<1> QED  BY <1>3, <1>6, <1>7 DEF AmdInv, RoutePending

(* The request of a session that is gone moves on all the same.            *)
LEMMA CompleteSound ==
  ASSUME NoSessionAssumption, AmdInv, NEW q \in Requests, CompleteSession(q)
  PROVE AmdInv'
<1> DEFINE moved == [request[q] EXCEPT !.at = "routing"]
<1>1. AmdTypes /\ request[q] \in Request /\ request[q].at = "completing"
  BY DEF AmdInv, AmdTypes, CompleteSession
<1>0. PICK s \in AmdSessions : s = request[q].session  BY <1>1 DEF Request
<1>2. moved \in Request /\ moved.at = "routing" /\ moved.session = s /\ moved.verdict = request[q].verdict
  BY <1>0, <1>1 DEF Request, Places
<1>3. request' = [request EXCEPT ![q] = moved] /\ UNCHANGED <<tally, report>>
  BY DEF CompleteSession
<1> HIDE DEF moved
<1>4. /\ request' \in [Requests -> Request]
      /\ request'[q] = moved /\ \A p \in Requests : p # q => request'[p] = request[p]
  BY <1>1, <1>2, <1>3, SetRequest
<1>5. request[q].verdict \in Verdicts \cup {"unknown"}
  BY <1>1 DEF Request
<1>6. /\ overlapped \subseteq overlapped' /\ overlapped' \subseteq overlapped \cup {s}
      /\ s \in overlapped' \/ Routing(s) = {}
      /\ overlapped' \subseteq AmdSessions
  BY <1>0, <1>1 DEF CompleteSession, At, Routing, AmdTypes
<1>7. \A u \in AmdSessions : u # s => Routing(u)' = Routing(u)
  BY <1>0, <1>1, <1>2, <1>4 DEF Routing
<1>8. ASSUME NEW u \in AmdSessions, u # s, session'[u] = session[u] PROVE Pending(u)'
  <2>1. \A p \in Routing(u) : request'[p].verdict = request[p].verdict
    BY <1>1, <1>4 DEF Routing
  <2> QED  BY <1>6, <1>7, <1>8, <2>1, AmdOther DEF AmdInv, RoutePending
<1>9. CASE session[s] # NoSession
  <2> DEFINE new == [session[s] EXCEPT !.result = request[q].verdict, !.completed = TRUE]
  <2>1. session[s] \in AmdSession  BY <1>1, <1>5, <1>9 DEF AmdTypes
  <2>2. new \in AmdSession /\ new.completed /\ new.result = request[q].verdict
    BY <1>5, <2>1, SetSession
  <2>3. session' = [session EXCEPT ![s] = new]  BY <1>0, <1>9 DEF CompleteSession, Live
  <2> HIDE DEF new
  <2>4. session'[s] = new /\ \A u \in AmdSessions : u # s => session'[u] = session[u]
    BY <1>1, <1>5, <2>3 DEF AmdTypes
  <2>5. AmdTypes'  BY <1>1, <1>3, <1>4, <1>5, <1>6, <2>2, <2>3 DEF AmdTypes
  <2>6. Routing(s) = {} => Routing(s)' = {q}  BY <1>1, <1>2, <1>4 DEF Routing
  <2>7. Pending(s)'  BY <1>2, <1>4, <1>6, <2>2, <2>4, <2>6 DEF Pending
  <2> QED  BY <1>8, <2>4, <2>5, <2>7 DEF AmdInv, RoutePending
<1>10. CASE session[s] = NoSession
  <2>1. session' = session  BY <1>0, <1>10 DEF CompleteSession, Live
  <2>2. AmdTypes'  BY <1>1, <1>3, <1>4, <1>6, <2>1 DEF AmdTypes
  <2>3. ASSUME NEW u \in AmdSessions PROVE Pending(u)'
    <3>1. CASE u = s
      <4>1. session'[u] = NoSession  BY <1>10, <2>1, <3>1
      <4> QED  BY <4>1 DEF Pending
    <3> QED  BY <1>8, <2>1, <3>1
  <2> QED  BY <2>2, <2>3 DEF AmdInv, RoutePending
<1> QED  BY <1>9, <1>10

(* The one request that routes a session gives it its own verdict's route. *)
LEMMA RouteSound ==
  ASSUME NoSessionAssumption, AmdInv, NEW q \in Requests, Route(q) PROVE AmdInv'
<1> DEFINE moved == [request[q] EXCEPT !.at = "done"]
<1>1. AmdTypes /\ request[q] \in Request /\ request[q].at = "routing"
  BY DEF AmdInv, AmdTypes, Route
<1>2. PICK s \in AmdSessions : s = request[q].session  BY <1>1 DEF Request
<1>3. moved \in Request /\ moved.at = "done"  BY <1>1 DEF Request, Places
<1>4. request' = [request EXCEPT ![q] = moved] /\ UNCHANGED <<overlapped, tally, report>>
  BY DEF Route
<1> HIDE DEF moved
<1>5. /\ request' \in [Requests -> Request]
      /\ request'[q] = moved /\ \A p \in Requests : p # q => request'[p] = request[p]
  BY <1>1, <1>3, <1>4, SetRequest
<1>6. /\ q \in Routing(s) /\ Routing(s)' = Routing(s) \ {q}
      /\ \A u \in AmdSessions : u # s => Routing(u)' = Routing(u)
  BY <1>1, <1>2, <1>3, <1>5 DEF Routing
<1>7. ASSUME NEW u \in AmdSessions, u # s, session'[u] = session[u] PROVE Pending(u)'
  <2>1. \A p \in Routing(u) : request'[p].verdict = request[p].verdict
    BY <1>2, <1>5, <1>7 DEF Routing
  <2> QED  BY <1>4, <1>6, <1>7, <2>1, AmdOther DEF AmdInv, RoutePending
<1>8. CASE session[s] # NoSession
  <2> DEFINE new == [session[s] EXCEPT !.routedTo = Destination(request[q].verdict)]
  <2>1. session[s] \in AmdSession  BY <1>1, <1>8 DEF AmdTypes
  <2>2. /\ new \in AmdSession /\ new.completed = session[s].completed /\ new.result = session[s].result
        /\ new.routedTo = Destination(request[q].verdict)
    BY <2>1, SetSession, ZenonT(40)
  <2>3. session' = [session EXCEPT ![s] = new]  BY <1>2, <1>8 DEF Route, Live
  <2> HIDE DEF new
  <2>4. session'[s] = new /\ \A u \in AmdSessions : u # s => session'[u] = session[u]
    BY <1>1, <2>3 DEF AmdTypes
  <2>5. AmdTypes'  BY <1>1, <1>4, <1>5, <2>2, <2>3 DEF AmdTypes
  <2>6. s \notin overlapped =>
          /\ session[s].completed /\ session[s].result = request[q].verdict
          /\ \A p \in Routing(s) : p = q
    BY <1>6, <1>8 DEF AmdInv, RoutePending, Pending
  <2>7. s \notin overlapped => Routing(s)' = {}  BY <1>6, <2>6
  <2>8. Pending(s)'  BY <1>4, <2>2, <2>4, <2>6, <2>7 DEF Pending
  <2> QED  BY <1>7, <2>4, <2>5, <2>8 DEF AmdInv, RoutePending
<1>9. CASE session[s] = NoSession
  <2>1. session' = session  BY <1>2, <1>9 DEF Route, Live
  <2>2. AmdTypes'  BY <1>1, <1>4, <1>5, <2>1 DEF AmdTypes
  <2>3. ASSUME NEW u \in AmdSessions PROVE Pending(u)'
    <3>1. CASE u = s
      <4>1. session'[u] = NoSession  BY <1>9, <2>1, <3>1
      <4> QED  BY <4>1 DEF Pending
    <3> QED  BY <1>7, <2>1, <3>1
  <2> QED  BY <2>2, <2>3 DEF AmdInv, RoutePending
<1> QED  BY <1>8, <1>9

(* Steps of the cleanup and the collector.                                 *)
LEMMA CleanupSound ==
  ASSUME AmdInv, CleanupOldSessions PROVE AmdInv'
<1>1. AmdTypes /\ UNCHANGED <<request, overlapped, tally, report>>
  BY DEF AmdInv, CleanupOldSessions
<1>2. PICK old : session' = [s \in AmdSessions |-> IF s \in old THEN NoSession ELSE session[s]]
  BY DEF CleanupOldSessions
<1>3. AmdTypes'  BY <1>1, <1>2 DEF AmdTypes
<1>4. ASSUME NEW s \in AmdSessions
      PROVE  /\ session'[s] \in {session[s], NoSession} /\ Routing(s)' = Routing(s)
             /\ \A p \in Routing(s) : request'[p].verdict = request[p].verdict
  BY <1>1, <1>2 DEF Routing
<1> QED  BY <1>1, <1>3, <1>4, KeepSound

LEMMA CountSound ==
  ASSUME AmdAssumption, AmdInv, GetStats \/ CollectCalls \/ UNCHANGED amdVars PROVE AmdInv'
<1>1. AmdTypes /\ UNCHANGED <<session, request, overlapped>>
  BY DEF AmdInv, GetStats, CollectCalls, amdVars
<1>2. AmdTypes'
  <2>1. tally' \in [total : Nat, completed : Nat] \cup {NoSession}
    <3>1. CASE GetStats
      <4>1. IsFiniteSet(Live) /\ IsFiniteSet({s \in Live : session[s].completed})
        BY AmdAssumption, FS_Subset DEF Live
      <4>2. Cardinality(Live) \in Nat /\ Cardinality({s \in Live : session[s].completed}) \in Nat
        BY <4>1, FS_CardinalityType
      <4> QED  BY <3>1, <4>2 DEF GetStats
    <3>2. CASE CollectCalls  BY <3>2 DEF CollectCalls
    <3>3. CASE UNCHANGED amdVars  BY <1>1, <3>3 DEF amdVars, AmdTypes
    <3> QED  BY <3>1, <3>2, <3>3
  <2>2. report'.total = report'.active + report'.completed
    <3>1. CASE CollectCalls
      <4>1. tally \in [total : Nat, completed : Nat]  BY <1>1, <3>1 DEF CollectCalls, AmdTypes
      <4>2. tally.total \in Nat /\ tally.completed \in Nat  BY <4>1
      <4>3. /\ report'.total = tally.total /\ report'.completed = tally.completed
            /\ report'.active = tally.total - tally.completed
        BY <3>1 DEF CollectCalls
      <4> QED  BY <4>2, <4>3
    <3>2. CASE GetStats \/ UNCHANGED amdVars
      <4>1. report' = report  BY <3>2 DEF GetStats, amdVars
      <4> QED  BY <1>1, <4>1 DEF AmdTypes
    <3> QED  BY <3>1, <3>2
  <2> QED  BY <1>1, <2>1, <2>2 DEF AmdTypes
<1>3. ASSUME NEW s \in AmdSessions
      PROVE  /\ session'[s] \in {session[s], NoSession} /\ Routing(s)' = Routing(s)
             /\ \A p \in Routing(s) : request'[p].verdict = request[p].verdict
  BY <1>1 DEF Routing
<1> QED  BY <1>1, <1>2, <1>3, KeepSound

(* A call of amd-system ends up where its result says, for any number of   *)
(* sessions and audio requests, unless two requests complete it at once.   *)
THEOREM RoutesAlwaysMatch == AmdSpec => []RoutesMatch
<1>1. AmdInit => AmdInv  BY AmdInitSound
<1>2. AmdInv /\ [AmdNext]_amdVars => AmdInv'
  BY AmdAssumption, NoSessionAssumption, StartSound, RetrySound, ChunkSound, ClassifySound,
     CompleteSound, RouteSound, CleanupSound, CountSound
     DEF AmdNext
<1>3. AmdInv => RoutesMatch
  <2> SUFFICES ASSUME AmdInv PROVE RoutesMatch  OBVIOUS
  <2>1. request \in [Requests -> [at : Places, session : AmdSessions \cup {NoSession},
                                  verdict : Verdicts \cup {"unknown"}]]
    BY DEF AmdInv, AmdTypes, Request
  <2>2. AmdTypeOK  BY <2>1 DEF AmdInv, AmdTypes, AmdTypeOK
  <2>3. \A s \in AmdSessions : At(s, {"routing"}) = Routing(s)  BY DEF At, Routing
  <2>4. ASSUME NEW s \in Live \ overlapped
        PROVE  /\ session[s].completed /\ At(s, {"routing"}) = {} =>
                     session[s].routedTo = Destination(session[s].result)
               /\ session[s].routedTo # "" => session[s].completed
    <3>1. s \in AmdSessions /\ session[s] # NoSession  BY DEF Live
    <3> QED  BY <2>3, <3>1 DEF AmdInv, RoutePending, Pending
  <2> QED  BY <2>2, <2>4 DEF RoutesMatch
<1> QED  BY <1>1, <1>2, <1>3, PTL DEF AmdSpec

-----------------------------------------------------------------------------
(***************************************************************************)
(* Reports.  What a report's row, its file and its caller say is fixed by  *)
(* how far its GenerateReport has come (RowTrue).                          *)
(***************************************************************************)
(* What GenerateReport has in hand, and has read once it is past its start.*)
Making ==
  {m \in [at : {"idle", "read", "inserted", "made", "not made", "done"},
          tenant : RepTenants \cup {NoTemplate}, template : Templates \cup {NoTemplate},
          type : ReportKinds \cup {"none"}] :
     m.at \in {"read", "inserted", "made", "not made"} =>
       m.tenant \in RepTenants /\ m.template \in Templates}

ReportTypes ==
  /\ templates \in [Templates -> Template \cup {NoTemplate}]
  /\ reportRows \in [Reports -> ReportRow \cup {NoTemplate}]
  /\ making \in [Reports -> Making]
  /\ told \in [Reports -> {"nothing", "completed", "failed", "error"}]
  /\ files \subseteq Reports /\ lost \subseteq Reports

RowTrue(r) ==
  /\ making[r].at \in {"idle", "read"} =>
       reportRows[r] = NoTemplate /\ told[r] = "nothing" /\ r \notin files /\ r \notin lost
  /\ making[r].at \in {"inserted", "made", "not made"} =>
       /\ reportRows[r] # NoTemplate /\ reportRows[r].status = "generating"
       /\ told[r] = "nothing" /\ r \notin lost /\ (making[r].at = "made" <=> r \in files)
  /\ making[r].at = "done" /\ reportRows[r] # NoTemplate =>
       /\ reportRows[r].status = "completed" => r \in files /\ told[r] = "completed"
       /\ reportRows[r].status = "failed" => r \notin files /\ told[r] = "failed"
       /\ reportRows[r].status = "generating" <=> r \in lost
  /\ told[r] = "completed" => r \in files /\ reportRows[r] # NoTemplate
  /\ reportRows[r] # NoTemplate => templates[reportRows[r].template] # NoTemplate

ReportsInv == ReportTypes /\ \A r \in Reports : RowTrue(r)

LEMMA ReportsInitSound == ReportsInit => ReportsInv
<1> SUFFICES ASSUME ReportsInit PROVE ReportsInv  OBVIOUS
<1>1. Unstarted \in Making  BY DEF Unstarted, Making
<1>2. ReportTypes  BY <1>1 DEF ReportsInit, ReportTypes
<1>3. ASSUME NEW r \in Reports PROVE RowTrue(r)  BY DEF ReportsInit, RowTrue, Unstarted
<1> QED  BY <1>2, <1>3 DEF ReportsInv

(* A report of which nothing changes. *)
LEMMA RowKept ==
  ASSUME NEW r \in Reports, RowTrue(r), making'[r] = making[r], reportRows'[r] = reportRows[r],
         told'[r] = told[r], r \in files' <=> r \in files, r \in lost' <=> r \in lost,
         reportRows[r] # NoTemplate => templates'[reportRows[r].template] # NoTemplate
  PROVE  RowTrue(r)'
BY DEF RowTrue

(* The templates change, and none of a report goes. *)
LEMMA TemplatesSound ==
  ASSUME ReportsInv, templates' \in [Templates -> Template \cup {NoTemplate}],
         UNCHANGED <<reportRows, making, told, files, lost>>,
         \A r \in Reports : reportRows[r] # NoTemplate => templates'[reportRows[r].template] # NoTemplate
  PROVE  ReportsInv'
<1>1. ReportTypes'  BY DEF ReportsInv, ReportTypes
<1>2. ASSUME NEW r \in Reports PROVE RowTrue(r)'  BY RowKept DEF ReportsInv
<1> QED  BY <1>1, <1>2 DEF ReportsInv

LEMMA CreateTemplateSound ==
  ASSUME ReportsInv, NEW t \in Templates, NEW n \in RepTenants, NEW k \in ReportKinds,
         CreateTemplate(t, n, k)
  PROVE  ReportsInv'
<1>1. [tenant |-> n, type |-> k] \in Template  BY DEF Template
<1>2. [tenant |-> n, type |-> k] # NoTemplate  BY <1>1, ReportsAssumption
<1>3. ReportTypes  BY DEF ReportsInv
<1>4. templates' = [templates EXCEPT ![t] = [tenant |-> n, type |-> k]]
      /\ UNCHANGED <<reportRows, making, told, files, lost>>
  BY DEF CreateTemplate
<1>5. templates' \in [Templates -> Template \cup {NoTemplate}]  BY <1>1, <1>3, <1>4 DEF ReportTypes
<1>6. \A u \in Templates : templates[u] # NoTemplate => templates'[u] # NoTemplate
  BY <1>2, <1>3, <1>4 DEF ReportTypes
<1>7. ASSUME NEW r \in Reports, reportRows[r] # NoTemplate
      PROVE  templates'[reportRows[r].template] # NoTemplate
  <2>1. reportRows[r].template \in Templates  BY <1>3, <1>7 DEF ReportTypes, ReportRow
  <2> QED  BY <1>6, <1>7, <2>1 DEF ReportsInv, RowTrue
<1> QED  BY <1>4, <1>5, <1>7, TemplatesSound

LEMMA DefaultsSound ==
  ASSUME ReportsInv, NEW n \in RepTenants, NEW of \in [Types -> Templates],
         CreateDefaultTemplates(n, of)
  PROVE  ReportsInv'
<1>1. PICK made \in SUBSET Types :
        templates' = [t \in Templates |->
          IF \E type \in made : of[type] = t
          THEN [tenant |-> n, type |-> CHOOSE type \in made : of[type] = t]
          ELSE templates[t]]
  BY DEF CreateDefaultTemplates
<1>2. ReportTypes /\ UNCHANGED <<reportRows, making, told, files, lost>>
  BY DEF ReportsInv, CreateDefaultTemplates
<1>3. ASSUME NEW t \in Templates
      PROVE  /\ templates'[t] \in Template \cup {NoTemplate}
             /\ templates[t] # NoTemplate => templates'[t] # NoTemplate
  <2>1. CASE \E type \in made : of[type] = t
    <3>1. (CHOOSE type \in made : of[type] = t) \in ReportKinds  BY <2>1 DEF ReportKinds
    <3>2. templates'[t] \in Template  BY <1>1, <2>1, <3>1 DEF Template
    <3> QED  BY <3>2, ReportsAssumption
  <2>2. CASE ~\E type \in made : of[type] = t  BY <1>1, <1>2, <2>2 DEF ReportTypes
  <2> QED  BY <2>1, <2>2
<1>4. templates' \in [Templates -> Template \cup {NoTemplate}]
  <2>1. templates' = [t \in Templates |-> templates'[t]]  BY <1>1
  <2> QED  BY <1>3, <2>1
<1>5. ASSUME NEW r \in Reports, reportRows[r] # NoTemplate
      PROVE  templates'[reportRows[r].template] # NoTemplate
  <2>1. reportRows[r].template \in Templates  BY <1>2, <1>5 DEF ReportTypes, ReportRow
  <2> QED  BY <1>3, <1>5, <2>1 DEF ReportsInv, RowTrue
<1> QED  BY <1>2, <1>4, <1>5, TemplatesSound

LEMMA DeleteTemplateSound ==
  ASSUME ReportsInv, NEW t \in Templates, DeleteTemplate(t) PROVE ReportsInv'
<1>1. ReportTypes  BY DEF ReportsInv
<1>2. /\ templates' = [templates EXCEPT ![t] = NoTemplate] /\ ~Used(t)
      /\ UNCHANGED <<reportRows, making, told, files, lost>>
  BY DEF DeleteTemplate
<1>3. templates' \in [Templates -> Template \cup {NoTemplate}]  BY <1>1, <1>2 DEF ReportTypes
<1>4. ASSUME NEW r \in Reports, reportRows[r] # NoTemplate
      PROVE  templates'[reportRows[r].template] # NoTemplate
  <2>1. reportRows[r].template \in Templates \ {t}
    BY <1>1, <1>2, <1>4 DEF ReportTypes, ReportRow, Used
  <2>2. templates'[reportRows[r].template] = templates[reportRows[r].template]
    BY <1>1, <1>2, <2>1 DEF ReportTypes
  <2> QED  BY <1>4, <2>2 DEF ReportsInv, RowTrue
<1> QED  BY <1>2, <1>3, <1>4, TemplatesSound

(* A step of one report's GenerateReport. *)
LEMMA ReportStep ==
  ASSUME ReportsInv, ReportTypes', NEW r \in Reports, UNCHANGED templates, RowTrue(r)',
         \A p \in Reports : p # r =>
           /\ making'[p] = making[p] /\ reportRows'[p] = reportRows[p] /\ told'[p] = told[p]
           /\ (p \in files' <=> p \in files) /\ (p \in lost' <=> p \in lost)
  PROVE  ReportsInv'
<1>1. ASSUME NEW p \in Reports, p # r PROVE RowTrue(p)'
  <2>1. RowTrue(p) /\ (reportRows[p] # NoTemplate => templates'[reportRows[p].template] # NoTemplate)
    BY DEF ReportsInv, RowTrue
  <2> QED  BY <1>1, <2>1, RowKept
<1> QED  BY <1>1 DEF ReportsInv

LEMMA FinishedMaking == Finished \in Making /\ Finished.at = "done"
BY DEF Finished, Unstarted, Making

LEMMA ReadSound ==
  ASSUME ReportsInv, NEW r \in Reports, NEW n \in RepTenants, NEW t \in Templates,
         getTemplate(r, n, t)
  PROVE  ReportsInv'
<1>1. ReportTypes /\ RowTrue(r) /\ making[r].at = "idle" /\ UNCHANGED <<reportTables, files, lost>>
  BY DEF ReportsInv, getTemplate
<1>2. CASE templates[t] = NoTemplate
  <2>1. making' = [making EXCEPT ![r] = Finished] /\ told' = [told EXCEPT ![r] = "error"]
    BY <1>2 DEF getTemplate, Ends
  <2>2. ReportTypes'  BY <1>1, <2>1, FinishedMaking DEF ReportTypes, reportTables
  <2>3. making'[r] = Finished /\ told'[r] = "error"  BY <1>1, <2>1 DEF ReportTypes
  <2>4. RowTrue(r)'  BY <1>1, <2>3, FinishedMaking DEF RowTrue, reportTables
  <2>5. \A p \in Reports : p # r => making'[p] = making[p] /\ told'[p] = told[p]
    BY <1>1, <2>1 DEF ReportTypes
  <2> QED  BY <1>1, <2>2, <2>4, <2>5, ReportStep DEF reportTables
<1>3. CASE templates[t] # NoTemplate
  <2> DEFINE m == [at |-> "read", tenant |-> n, template |-> t, type |-> templates[t].type]
  <2>1. making' = [making EXCEPT ![r] = m] /\ UNCHANGED told  BY <1>3 DEF getTemplate
  <2>2. templates[t].type \in ReportKinds  BY <1>1, <1>3 DEF ReportTypes, Template
  <2>3. m \in Making /\ m.at = "read"  BY <2>2 DEF Making
  <2> HIDE DEF m
  <2>4. ReportTypes'  BY <1>1, <2>1, <2>3 DEF ReportTypes, reportTables
  <2>5. making'[r] = m  BY <1>1, <2>1 DEF ReportTypes
  <2>6. RowTrue(r)'  BY <1>1, <2>1, <2>3, <2>5 DEF RowTrue, reportTables
  <2>7. \A p \in Reports : p # r => making'[p] = making[p]  BY <1>1, <2>1 DEF ReportTypes
  <2> QED  BY <1>1, <2>1, <2>4, <2>6, <2>7, ReportStep DEF reportTables
<1> QED  BY <1>2, <1>3

(* Only the place of a GenerateReport changes. *)
LEMMA PlaceSet ==
  ASSUME ReportTypes, NEW r \in Reports, NEW at \in {"inserted", "made", "not made"},
         making[r].at \in {"read", "inserted"},
         making' = [making EXCEPT ![r].at = at]
  PROVE  /\ making' \in [Reports -> Making] /\ making'[r].at = at
         /\ \A p \in Reports : p # r => making'[p] = making[p]
<1> DEFINE m == [making[r] EXCEPT !.at = at]
<1>1. making[r] \in Making  BY DEF ReportTypes
<1>2. m \in Making /\ m.at = at  BY <1>1 DEF Making
<1>3. making' = [making EXCEPT ![r] = m]  OBVIOUS
<1> HIDE DEF m
<1> QED  BY <1>2, <1>3 DEF ReportTypes

LEMMA InsertSound ==
  ASSUME ReportsInv, NEW r \in Reports, insertReportRecord(r) PROVE ReportsInv'
<1>1. ReportTypes /\ RowTrue(r) /\ making[r].at = "read" /\ UNCHANGED <<templates, files, lost>>
  BY DEF ReportsInv, insertReportRecord
<1>2. CASE /\ templates[making[r].template] # NoTemplate
           /\ reportRows' = [reportRows EXCEPT ![r] =
                [tenant |-> making[r].tenant, template |-> making[r].template, status |-> "generating"]]
           /\ making' = [making EXCEPT ![r].at = "inserted"]
           /\ UNCHANGED told
  <2> DEFINE row == [tenant |-> making[r].tenant, template |-> making[r].template, status |-> "generating"]
  <2>1. making[r].tenant \in RepTenants /\ making[r].template \in Templates
    BY <1>1 DEF ReportTypes, Making
  <2>2. row \in ReportRow /\ row.status = "generating" /\ row.template = making[r].template
    BY <2>1 DEF ReportRow
  <2>3. reportRows' = [reportRows EXCEPT ![r] = row]  BY <1>2
  <2> HIDE DEF row
  <2>4. row # NoTemplate  BY <2>2, ReportsAssumption
  <2>5. /\ making' \in [Reports -> Making] /\ making'[r].at = "inserted"
        /\ \A p \in Reports : p # r => making'[p] = making[p]
    BY <1>1, <1>2, PlaceSet
  <2>6. ReportTypes'  BY <1>1, <1>2, <2>2, <2>3, <2>5 DEF ReportTypes
  <2>7. reportRows'[r] = row /\ \A p \in Reports : p # r => reportRows'[p] = reportRows[p]
    BY <1>1, <2>3 DEF ReportTypes
  <2>8. RowTrue(r)'  BY <1>1, <1>2, <2>2, <2>4, <2>5, <2>7 DEF RowTrue
  <2> QED  BY <1>1, <1>2, <2>5, <2>6, <2>7, <2>8, ReportStep
<1>3. CASE Ends(r) /\ told' = [told EXCEPT ![r] = "error"] /\ UNCHANGED reportRows
  <2>1. making' = [making EXCEPT ![r] = Finished]  BY <1>3 DEF Ends
  <2>2. ReportTypes'  BY <1>1, <1>3, <2>1, FinishedMaking DEF ReportTypes
  <2>3. making'[r] = Finished /\ told'[r] = "error"  BY <1>1, <1>3, <2>1 DEF ReportTypes
  <2>4. RowTrue(r)'  BY <1>1, <1>3, <2>3, FinishedMaking DEF RowTrue
  <2>5. \A p \in Reports : p # r => making'[p] = making[p] /\ told'[p] = told[p]
    BY <1>1, <1>3, <2>1 DEF ReportTypes
  <2> QED  BY <1>1, <1>3, <2>2, <2>4, <2>5, ReportStep
<1> QED  BY <1>2, <1>3 DEF insertReportRecord

LEMMA MadeSound ==
  ASSUME ReportsInv, NEW r \in Reports,
         Unsupported(r) \/ \E type \in Types : Written(r, type)
  PROVE  ReportsInv'
<1>1. ReportTypes /\ RowTrue(r) /\ making[r].at = "inserted" /\ UNCHANGED <<reportTables, told, lost>>
  BY DEF ReportsInv, Written, Unsupported
<1>2. CASE making' = [making EXCEPT ![r].at = "made"] /\ files' = files \cup {r}
  <2>1. /\ making' \in [Reports -> Making] /\ making'[r].at = "made"
        /\ \A p \in Reports : p # r => making'[p] = making[p]
    BY <1>1, <1>2, PlaceSet
  <2>2. ReportTypes'  BY <1>1, <1>2, <2>1 DEF ReportTypes, reportTables
  <2>3. RowTrue(r)'  BY <1>1, <1>2, <2>1 DEF RowTrue, reportTables
  <2> QED  BY <1>1, <1>2, <2>1, <2>2, <2>3, ReportStep DEF reportTables
<1>3. CASE making' = [making EXCEPT ![r].at = "not made"] /\ UNCHANGED files
  <2>1. /\ making' \in [Reports -> Making] /\ making'[r].at = "not made"
        /\ \A p \in Reports : p # r => making'[p] = making[p]
    BY <1>1, <1>3, PlaceSet
  <2>2. ReportTypes'  BY <1>1, <1>3, <2>1 DEF ReportTypes, reportTables
  <2>3. RowTrue(r)'  BY <1>1, <1>3, <2>1 DEF RowTrue, reportTables
  <2> QED  BY <1>1, <1>3, <2>1, <2>2, <2>3, ReportStep DEF reportTables
<1> QED  BY <1>2, <1>3 DEF Written, Unsupported

(* The last update, which may be lost, of a report that was made or not.   *)
LEMMA UpdateSound ==
  ASSUME ReportsInv, NEW r \in Reports, NEW status \in {"completed", "failed"}, NEW stored \in BOOLEAN,
         Update(r, status, stored), making[r].at = IF status = "completed" THEN "made" ELSE "not made"
  PROVE  ReportsInv'
<1>1. /\ ReportTypes /\ RowTrue(r) /\ UNCHANGED <<templates, files>>
      /\ told' = [told EXCEPT ![r] = status] /\ making' = [making EXCEPT ![r] = Finished]
  BY DEF ReportsInv, Update, Ends
<1>2. /\ reportRows[r] # NoTemplate /\ reportRows[r].status = "generating"
      /\ r \notin lost /\ (status = "completed" <=> r \in files)
      /\ templates[reportRows[r].template] # NoTemplate
  BY <1>1 DEF RowTrue
<1>3. /\ making' \in [Reports -> Making] /\ making'[r].at = "done" /\ told'[r] = status
      /\ told' \in [Reports -> {"nothing", "completed", "failed", "error"}]
      /\ \A p \in Reports : p # r => making'[p] = making[p] /\ told'[p] = told[p]
  BY <1>1, FinishedMaking DEF ReportTypes
<1>4. CASE stored
  <2> DEFINE row == [reportRows[r] EXCEPT !.status = status]
  <2>1. reportRows[r] \in ReportRow  BY <1>1, <1>2 DEF ReportTypes
  <2>2. row \in ReportRow /\ row.status = status /\ row.template = reportRows[r].template
    BY <2>1 DEF ReportRow
  <2>3. reportRows' = [reportRows EXCEPT ![r] = row] /\ UNCHANGED lost  BY <1>4 DEF Update
  <2> HIDE DEF row
  <2>4. row # NoTemplate  BY <2>2, ReportsAssumption
  <2>5. reportRows'[r] = row /\ \A p \in Reports : p # r => reportRows'[p] = reportRows[p]
    BY <1>1, <2>3 DEF ReportTypes
  <2>6. ReportTypes'  BY <1>1, <1>3, <2>2, <2>3 DEF ReportTypes
  <2>7. RowTrue(r)'
    <3>1. /\ making'[r].at = "done" /\ told'[r] = status
          /\ reportRows'[r] # NoTemplate /\ reportRows'[r].status = status
      BY <1>3, <2>2, <2>4, <2>5
    <3>2. templates'[reportRows'[r].template] # NoTemplate  BY <1>1, <1>2, <2>2, <2>5
    <3>3. /\ status = "completed" <=> r \in files'
          /\ status = "failed" => r \notin files'
          /\ r \notin lost'
      BY <1>1, <1>2, <2>3
    <3> HIDE DEF ReportTypes
    <3> QED  BY <3>1, <3>2, <3>3 DEF RowTrue
  <2> QED  BY <1>1, <1>3, <2>3, <2>5, <2>6, <2>7, ReportStep
<1>5. CASE ~stored
  <2>1. lost' = lost \cup {r} /\ UNCHANGED reportRows  BY <1>5 DEF Update
  <2>2. ReportTypes'  BY <1>1, <1>3, <2>1 DEF ReportTypes
  <2>3. RowTrue(r)'  BY <1>1, <1>2, <1>3, <2>1 DEF RowTrue
  <2> QED  BY <1>1, <1>3, <2>1, <2>2, <2>3, ReportStep
<1> QED  BY <1>4, <1>5

LEMMA CrashSound == ASSUME ReportsInv, CrashReports PROVE ReportsInv'
<1>1. /\ ReportTypes /\ UNCHANGED <<reportTables, told, files>>
      /\ lost' = lost \cup {r \in Reports : making[r].at \in {"inserted", "made", "not made"}}
      /\ making' = [r \in Reports |-> IF making[r].at = "idle" THEN Unstarted ELSE Finished]
  BY DEF ReportsInv, CrashReports
<1>2. Unstarted \in Making /\ Unstarted.at = "idle"  BY DEF Unstarted, Making
<1>3. ReportTypes'
  <2>1. making' \in [Reports -> Making]  BY <1>1, <1>2, FinishedMaking
  <2> QED  BY <1>1, <2>1 DEF ReportTypes, reportTables
<1>4. ASSUME NEW r \in Reports PROVE RowTrue(r)'
  <2>1. RowTrue(r) /\ making[r] \in Making  BY <1>1 DEF ReportsInv, ReportTypes
  <2>2. making[r].at \in {"idle", "read", "inserted", "made", "not made", "done"}
    BY <2>1 DEF Making
  <2>3. making'[r].at = IF making[r].at = "idle" THEN "idle" ELSE "done"
    BY <1>1, <1>2, FinishedMaking
  <2>4. r \in lost' <=> r \in lost \/ making[r].at \in {"inserted", "made", "not made"}
    BY <1>1
  <2> QED  BY <1>1, <2>1, <2>2, <2>3, <2>4 DEF RowTrue, reportTables
<1> QED  BY <1>3, <1>4 DEF ReportsInv

(* A report's row tells the truth of its file and of what its caller was   *)
(* told, whatever fails and wherever the process ends, and its template    *)
(* stays, for any templates, reports and tenants.                          *)
THEOREM ReportsAlwaysTrue == ReportsSpec => []ReportsTrue
<1>1. ReportsInit => ReportsInv  BY ReportsInitSound
<1>2. ReportsInv /\ [ReportsNext]_reportVars => ReportsInv'
  <2> SUFFICES ASSUME ReportsInv, [ReportsNext]_reportVars PROVE ReportsInv'  OBVIOUS
  <2>1. CASE UNCHANGED reportVars
    <3>1. ReportTypes'  BY <2>1 DEF reportVars, reportTables, ReportsInv, ReportTypes
    <3>2. ASSUME NEW r \in Reports PROVE RowTrue(r)'
      <4>1. RowTrue(r)  BY DEF ReportsInv
      <4> QED  BY <2>1, <4>1 DEF reportVars, reportTables, RowTrue
    <3> QED  BY <3>1, <3>2 DEF ReportsInv
  <2>2. ASSUME NEW r \in Reports, updateReportRecord(r) \/ updateReportStatus(r) PROVE ReportsInv'
    BY <2>2, UpdateSound DEF updateReportRecord, updateReportStatus
  <2>3. ASSUME NEW r \in Reports,
               generateCDRSummary(r) \/ generateBillingReport(r) \/ generateQualityReport(r) \/ Unsupported(r)
        PROVE ReportsInv'
    BY <2>3, MadeSound DEF generateCDRSummary, generateBillingReport, generateQualityReport, Types
  <2> QED
    BY <2>1, <2>2, <2>3, CreateTemplateSound, DefaultsSound, DeleteTemplateSound, ReadSound, InsertSound,
       CrashSound
       DEF ReportsNext
<1>3. ReportsInv => ReportsTrue
  <2> SUFFICES ASSUME ReportsInv PROVE ReportsTrue  OBVIOUS
  <2>1. ReportsTypeOK
    <3>1. \A r \in Reports : making[r].at \in {"idle", "read", "inserted", "made", "not made", "done"}
      BY DEF ReportsInv, ReportTypes, Making
    <3>2. \A n \in RepTenants, t \in Templates : t \in ListTemplates(n, "") => GetTemplate(t).tenant = n
      BY DEF ListTemplates, GetTemplate
    <3>3. UpdateTemplate({"name"}, {}) = {"updated"} /\ UpdateTemplate({}, Columns) = {"nothing"}
      BY DEF UpdateTemplate
    <3> QED  BY <3>1, <3>2, <3>3 DEF ReportsInv, ReportTypes, ReportsTypeOK
  <2>2. ASSUME NEW r \in Reports
        PROVE  /\ reportRows[r] # NoTemplate =>
                    /\ reportRows[r].status = "completed" => r \in files /\ told[r] = "completed"
                    /\ reportRows[r].status = "failed" => r \notin files /\ told[r] = "failed"
                    /\ making[r].at = "done" => (reportRows[r].status = "generating" <=> r \in lost)
                    /\ templates[reportRows[r].template] # NoTemplate
               /\ told[r] = "completed" => r \in files /\ reportRows[r] # NoTemplate
    <3>1. RowTrue(r)  BY DEF ReportsInv
    <3>2. making[r].at \in {"idle", "read", "inserted", "made", "not made", "done"}
      BY DEF ReportsInv, ReportTypes, Making
    <3> QED  BY <3>1, <3>2 DEF RowTrue
  <2> QED  BY <2>1, <2>2 DEF ReportsTrue
<1> QED  BY <1>1, <1>2, <1>3, PTL DEF ReportsSpec

-----------------------------------------------------------------------------
(***************************************************************************)
(* SIP.  AnswersAgree alone is not inductive: that an acknowledged leg     *)
(* belongs to an answered session needs where a 200 can be (ReplyCauses),  *)
(* and that no goroutine runs for a call that was not made, no leg before  *)
(* its INVITE.                                                             *)
(***************************************************************************)
ReplyCauses ==
  \A c \in Calls :
    /\ invite[c] # "none" => state[c] # "none"
    /\ leg[c] # "none" => invite[c] \notin {"none", "sending"}
    /\ "200" \in replies[c] => leg[c] \in {"answered", "confirmed"}
    /\ invite[c] = "acking" => state[c] \in {"answered", "terminated"}
SipInv == SipTypeOK /\ ReplyCauses /\ AnswersAgree

LEMMA SipInitInv == SipInit => SipInv
BY DEF SipInit, SipInv, SipTypeOK, ReplyCauses, AnswersAgree, Responses

(* A read changes the goroutine's place and takes away one response.       *)
LEMMA ReadFacts ==
  ASSUME SipTypeOK, NEW c \in Calls, NEW r \in Responses, NEW after \in {"waiting", "acking", "done"},
         Read(c, r, after)
  PROVE  /\ r \in replies[c] /\ invite[c] = "waiting"
         /\ invite' = [invite EXCEPT ![c] = after]
         /\ replies' \in [Calls -> SUBSET Responses]
         /\ \A d \in Calls : replies'[d] \subseteq replies[d]
BY DEF Read, SipTypeOK

LEMMA GoroutineStep ==
  ASSUME SipInv, NEW c \in Calls, SendSIPInvite(c)
  PROVE  SipInv'
<1> USE DEF SipInv
<1>1. CASE SendInvite(c)
  BY <1>1 DEF SendInvite, SipTypeOK, ReplyCauses, AnswersAgree
<1>2. CASE Read200(c)
  <2>1. /\ "200" \in replies[c] /\ invite[c] = "waiting"
        /\ invite' = [invite EXCEPT ![c] = "acking"] /\ replies' \in [Calls -> SUBSET Responses]
        /\ \A d \in Calls : replies'[d] \subseteq replies[d]
    BY <1>2, ReadFacts DEF Read200, Responses
  <2>2. /\ state' = IF c \in sessions THEN [state EXCEPT ![c] = "answered"] ELSE state
        /\ UNCHANGED <<sessions, clients, leg, answers>>
    BY <1>2 DEF Read200
  <2>3. leg[c] \in {"answered", "confirmed"} /\ state[c] # "none"
    BY <2>1 DEF ReplyCauses
  <2>4. SipTypeOK'
    BY <2>1, <2>2 DEF SipTypeOK
  <2>5. state'[c] \in {"answered", "terminated"}
    BY <2>2, <2>3 DEF SipTypeOK
  <2> QED  BY <2>1, <2>2, <2>3, <2>4, <2>5 DEF SipTypeOK, ReplyCauses, AnswersAgree
<1>3. CASE SendAck(c)
  BY <1>3 DEF SendAck, SipTypeOK, ReplyCauses, AnswersAgree
<1>4. CASE ReadRefusal(c) \/ ReadOther(c)
  <2>1. PICK after \in {"waiting", "done"} :
          /\ invite[c] = "waiting" /\ invite' = [invite EXCEPT ![c] = after]
          /\ replies' \in [Calls -> SUBSET Responses]
          /\ \A d \in Calls : replies'[d] \subseteq replies[d]
    BY <1>4, ReadFacts DEF ReadRefusal, ReadOther, Responses
  <2>2. UNCHANGED <<sessions, state, clients, leg, answers>>
    BY <1>4 DEF ReadRefusal, ReadOther
  <2> QED  BY <2>1, <2>2 DEF SipTypeOK, ReplyCauses, AnswersAgree
<1>5. CASE ReadTimeout(c)
  BY <1>5 DEF ReadTimeout, SipTypeOK, ReplyCauses, AnswersAgree
<1> QED  BY <1>1, <1>2, <1>3, <1>4, <1>5 DEF SendSIPInvite

LEMMA UserStep ==
  ASSUME SipInv, NEW c \in Calls, Invite(c) \/ Answer(c) \/ Hangup(c)
  PROVE  SipInv'
<1> USE DEF SipInv
<1>1. CASE Invite(c)
  BY <1>1 DEF Invite, SipTypeOK, ReplyCauses, AnswersAgree
<1>2. CASE Answer(c)
  BY <1>2 DEF Answer, SipTypeOK, ReplyCauses, AnswersAgree
<1>3. CASE Hangup(c)
  BY <1>3 DEF Hangup, SipTypeOK, ReplyCauses, AnswersAgree
<1> QED  BY <1>1, <1>2, <1>3

LEMMA FarEndStep ==
  ASSUME SipInv, NEW c \in Calls, FarEnd(c)
  PROVE  SipInv'
<1> USE DEF SipInv
<1>1. UNCHANGED <<sessions, state, clients, invite, answers>>
  BY DEF FarEnd
<1>2. /\ leg' \in [Calls -> {"none", "ringing", "answered", "confirmed", "refused"}]
      /\ \A d \in Calls : d # c => leg'[d] = leg[d]
      /\ leg[c] # "none" /\ leg'[c] # "confirmed" /\ leg[c] # "confirmed"
      /\ leg[c] = "answered" => leg'[c] = "answered"
  BY DEF FarEnd, SipTypeOK
<1>3. PICK r \in Responses : /\ replies' = [replies EXCEPT ![c] = @ \cup {r}]
                             /\ r = "200" => leg'[c] = "answered"
  BY DEF FarEnd, Responses
<1> QED  BY <1>1, <1>2, <1>3 DEF SipTypeOK, ReplyCauses, AnswersAgree, Responses

THEOREM SipInvariance == SipSpec => []SipInv
<1>1. SipInv /\ [SipNext]_sipVars => SipInv'
  <2> SUFFICES ASSUME SipInv, [SipNext]_sipVars PROVE SipInv'
    OBVIOUS
  <2>1. ASSUME NEW u \in Users, NEW cr \in Credentials, Register(u, cr) PROVE SipInv'
    BY <2>1 DEF Register, SipInv, SipTypeOK, ReplyCauses, AnswersAgree
  <2>2. CASE UNCHANGED sipVars
    BY <2>2 DEF sipVars, SipInv, SipTypeOK, ReplyCauses, AnswersAgree
  <2> QED  BY <2>1, <2>2, GoroutineStep, UserStep, FarEndStep DEF SipNext
<1> QED  BY <1>1, SipInitInv, PTL DEF SipSpec

(* A session is answered because its user or the far end answered, and a   *)
(* leg is set up only for an answered session or one hung up meanwhile,    *)
(* however many calls cross and however responses come.                    *)
THEOREM AnswersAlwaysAgree == SipSpec => []AnswersAgree
BY SipInvariance, PTL DEF SipInv

(* No late response or answer brings a call back that was hung up.         *)
THEOREM HungUpForGood == SipSpec => StaysHungUp
<1> DEFINE Stays == \A c \in Calls : state[c] = "terminated" =>
                                       state'[c] = "terminated" /\ c \notin sessions'
<1>1. SipInv /\ [SipNext]_sipVars => [Stays]_sipVars
  <2> SUFFICES ASSUME SipInv, SipNext, NEW c \in Calls, state[c] = "terminated"
               PROVE  state'[c] = "terminated" /\ c \notin sessions'
    BY DEF sipVars
  <2>1. c \notin sessions
    BY DEF SipInv, SipTypeOK
  <2> QED  BY <2>1 DEF SipNext, SendSIPInvite, Invite, SendInvite, Read200, SendAck, ReadRefusal,
                       ReadOther, ReadTimeout, Answer, Hangup, FarEnd, Register, SipInv, SipTypeOK
<1> QED  BY <1>1, SipInvariance, PTL DEF SipSpec, StaysHungUp

-----------------------------------------------------------------------------
(***************************************************************************)
(* Enrichment.  Rows come from readings of one call, whose numbers never   *)
(* change, so an update keeps what a later reading would say of them.      *)
(***************************************************************************)
SameCall(c, b) == c.caller = b.caller /\ c.callee = b.callee /\ c.offHours = b.offHours
OneCall ==
  /\ record # NoCdr => record \in versions
  /\ record = NoCdr => versions = {}
  /\ \A c, b \in versions : SameCall(c, b)
RowOf(row) == \E c, b \in versions : row.now = Replaced(c) /\ row.first = Kept(b)
EnrichmentInv ==
  /\ record \in BaseCDR \cup {NoCdr} /\ versions \subseteq BaseCDR
  /\ enricher \in [Enrichers -> versions \cup {NoCdr}]
  /\ OneCall
  /\ enriched # NoCdr => RowOf(enriched)

(* The score of a call, and what a score of 70 or more takes.              *)
LEMMA TotalBounded ==
  ASSUME NEW c \in BaseCDR
  PROVE  /\ Analyze(c) \in 0 .. 100
         /\ HighRisk(c) => Analyze(c) >= 70 /\ (International(c) \/ Premium(c))
<1> DEFINE A == Score("High Duration", c)      B == Score("International Pattern", c)
           C == Score("Premium Rate", c)       D == Score("Failed Pattern", c)
           E == Score("Off-Hours", c)          F == Score("Short Duration", c)
<1>11. Total(c) = A + B + C + D + E + F
  BY DEF Total
<1>1. c.duration \in Durations
  BY DEF BaseCDR
<1> HIDE DEF A, B, C, D, E, F
<1>2. A \in Nat /\ F \in Nat /\ A <= 30 /\ F <= 20 /\ (A = 0 \/ F = 0)
  BY <1>1 DEF Score, Durations, A, F
<1>3. B \in Nat /\ (~International(c) => B = 0)
  BY DEF Score, B
<1>4. C \in Nat /\ (~Premium(c) => C = 0)
  BY DEF Score, C
<1>5. D \in Nat /\ E \in Nat /\ D <= 15 /\ E <= 10
  BY DEF Score, D, E
<1>12. A \in Nat /\ B \in Nat /\ C \in Nat /\ D \in Nat /\ E \in Nat /\ F \in Nat
  BY <1>2, <1>3, <1>4, <1>5
<1>6. Total(c) \in Nat
  BY <1>11, <1>12
<1>7. ~International(c) /\ ~Premium(c) => Total(c) < 70
  BY <1>11, <1>12, <1>2, <1>3, <1>4, <1>5
<1>8. Analyze(c) \in 0 .. 100
  BY <1>6 DEF Analyze
<1>9. HighRisk(c) => Analyze(c) >= 70
  BY <1>8 DEF HighRisk
<1>10. Analyze(c) >= 70 => Total(c) >= 70
  BY <1>6 DEF Analyze
<1> QED BY <1>6, <1>7, <1>8, <1>9, <1>10

LEMMA RowsSoundOf == EnrichmentInv => RowsSound
<1> SUFFICES ASSUME EnrichmentInv PROVE RowsSound
  OBVIOUS
<1>1. \A e \in Enrichers : enricher[e] \in versions \cup {NoCdr}
  BY DEF EnrichmentInv
<1>2. ASSUME enriched # NoCdr
      PROVE  /\ enriched.now.score \in 0 .. 100
             /\ \E c, b \in versions :
                  /\ enriched.now = Replaced(c) /\ enriched.first = Kept(b)
                  /\ enriched.first.international = International(c)
                  /\ enriched.first.premium = Premium(c)
             /\ enriched.now.highRisk =>
                  /\ enriched.now.score >= 70
                  /\ enriched.first.international \/ enriched.first.premium
             /\ enriched.first.international <=> enriched.now.category = "international"
             /\ enriched.now.score > 70 => enriched.now.highRisk
  <2>1. PICK c \in versions, b \in versions : enriched.now = Replaced(c) /\ enriched.first = Kept(b)
    BY <1>2 DEF EnrichmentInv, RowOf
  <2>2. c \in BaseCDR /\ b \in BaseCDR /\ SameCall(c, b)
    BY DEF EnrichmentInv, OneCall
  <2>3. (International(b) <=> International(c)) /\ (Premium(b) <=> Premium(c))
    BY <2>2 DEF SameCall, International, Premium
  <2>4. International(b) \in BOOLEAN /\ Premium(b) \in BOOLEAN
    BY DEF International, Premium
  <2>5. /\ enriched.now.score = Analyze(c) /\ enriched.now.highRisk = HighRisk(c)
        /\ enriched.now.category = categorizeCall(c)
        /\ enriched.first.international = International(b) /\ enriched.first.premium = Premium(b)
    BY <2>1 DEF Replaced, Kept
  <2>6. /\ Analyze(c) \in 0 .. 100
        /\ HighRisk(c) => Analyze(c) >= 70 /\ (International(c) \/ Premium(c))
    BY <2>2, TotalBounded
  <2>7. International(c) <=> categorizeCall(c) = "international"
    BY DEF categorizeCall
  <2>8. Analyze(c) > 70 => HighRisk(c)
    BY DEF HighRisk
  <2>9. International(b) = International(c) /\ Premium(b) = Premium(c)
    BY <2>3 DEF International, Premium
  <2>10. enriched.first.international = International(c) /\ enriched.first.premium = Premium(c)
    BY <2>5, <2>9
  <2>11. \E x, y \in versions :
           /\ enriched.now = Replaced(x) /\ enriched.first = Kept(y)
           /\ enriched.first.international = International(x)
           /\ enriched.first.premium = Premium(x)
    BY <2>1, <2>10, Zenon
  <2>12. /\ enriched.now.score \in 0 .. 100
         /\ enriched.now.score > 70 => enriched.now.highRisk
    BY <2>5, <2>6, <2>8
  <2>13. enriched.now.highRisk =>
           enriched.now.score >= 70 /\ (enriched.first.international \/ enriched.first.premium)
    BY <2>5, <2>6, <2>10
  <2>14. enriched.first.international <=> enriched.now.category = "international"
    BY <2>5, <2>7, <2>10
  <2> QED BY <2>11, <2>12, <2>13, <2>14
<1> QED BY <1>1, <1>2 DEF EnrichmentInv, RowsSound, EnrichmentTypeOK, RowOfReadings, RiskNamed

LEMMA EnrichmentInitSound == EnrichmentInit => EnrichmentInv
BY DEF EnrichmentInit, EnrichmentInv, OneCall

LEMMA WriteRecordSound ==
  ASSUME EnrichmentInv, NEW c \in BaseCDR, WriteRecord(c)
  PROVE  EnrichmentInv'
<1>1. /\ record # NoCdr => SameCall(c, record)
      /\ record' = c /\ versions' = versions \cup {c}
      /\ enricher' = enricher /\ enriched' = enriched
  BY DEF WriteRecord, SameCall
<1>2. c # NoCdr
  BY NoCdrAssumption
<1>3. \A b \in versions : SameCall(c, b) /\ SameCall(b, c)
  BY <1>1 DEF EnrichmentInv, OneCall, SameCall
<1>4. OneCall'
  BY <1>1, <1>2, <1>3 DEF EnrichmentInv, OneCall, SameCall
<1>5. enricher' \in [Enrichers -> versions' \cup {NoCdr}]
  BY <1>1 DEF EnrichmentInv
<1>6. enriched # NoCdr => RowOf(enriched)'
  <2> SUFFICES ASSUME enriched # NoCdr PROVE RowOf(enriched)'
    OBVIOUS
  <2>1. PICK x \in versions, y \in versions : enriched.now = Replaced(x) /\ enriched.first = Kept(y)
    BY DEF EnrichmentInv, RowOf
  <2> QED BY <1>1, <2>1 DEF RowOf
<1>7. record' \in BaseCDR \cup {NoCdr} /\ versions' \subseteq BaseCDR
  BY <1>1 DEF EnrichmentInv
<1> QED BY <1>1, <1>4, <1>5, <1>6, <1>7 DEF EnrichmentInv

LEMMA GetBaseSound ==
  ASSUME EnrichmentInv, NEW e \in Enrichers, getBaseCDR(e)
  PROVE  EnrichmentInv'
<1>1. enricher' \in [Enrichers -> versions \cup {NoCdr}]
  BY DEF EnrichmentInv, OneCall, getBaseCDR
<1>2. record' = record /\ versions' = versions /\ enriched' = enriched
  BY DEF getBaseCDR
<1> QED BY <1>1, <1>2 DEF EnrichmentInv, OneCall, RowOf

LEMMA StoreRowSound ==
  ASSUME EnrichmentInv, NEW e \in Enrichers, storeEnrichedCDR(e)
  PROVE  EnrichmentInv'
<1>1. enricher' \in [Enrichers -> versions \cup {NoCdr}]
  BY DEF EnrichmentInv, storeEnrichedCDR
<1>2. record' = record /\ versions' = versions
  BY DEF storeEnrichedCDR
<1>3. enricher[e] \in versions
  BY DEF EnrichmentInv, storeEnrichedCDR
<1>4. enriched' # NoCdr => RowOf(enriched)'
  <2>1. CASE enriched' = enriched
    BY <1>2, <2>1 DEF EnrichmentInv, RowOf
  <2>2. CASE enriched' = [now |-> Replaced(enricher[e]),
                     first |-> IF enriched = NoCdr THEN Kept(enricher[e]) ELSE enriched.first]
    <3>1. enriched'.now = Replaced(enricher[e])
      BY <2>2
    <3>2. PICK y \in versions : enriched'.first = Kept(y)
      <4>1. CASE enriched = NoCdr
        BY <1>3, <2>2, <4>1
      <4>2. CASE enriched # NoCdr
        BY <2>2, <4>2 DEF EnrichmentInv, RowOf
      <4> QED BY <4>1, <4>2
    <3> QED BY <1>2, <1>3, <3>1, <3>2 DEF RowOf
  <2> QED BY <2>1, <2>2 DEF storeEnrichedCDR
<1> QED BY <1>1, <1>2, <1>4 DEF EnrichmentInv, OneCall

(* What is stored of a call agrees with the call, and high risk has been   *)
(* named, whatever changes while enrichments are under way.                *)
THEOREM RowsAlwaysSound == EnrichmentSpec => []RowsSound
<1>1. ASSUME EnrichmentInv, [EnrichmentNext]_enrichmentVars
      PROVE  EnrichmentInv'
  <2>1. CASE UNCHANGED enrichmentVars
    BY <1>1, <2>1 DEF enrichmentVars, EnrichmentInv, OneCall, RowOf
  <2> QED BY <1>1, <2>1, WriteRecordSound, GetBaseSound, StoreRowSound DEF EnrichmentNext
<1> QED BY <1>1, EnrichmentInitSound, RowsSoundOf, PTL DEF EnrichmentSpec

-----------------------------------------------------------------------------
(***************************************************************************)
(* Kamailio.  An operation that edits a destination is alone with it, or   *)
(* the destination is crossed.  Once its command is written, Kamailio has  *)
(* done it, or it was lost: then nobody else was under way, so no response *)
(* was left on the connection (Replied), nobody dials another (Dead), and  *)
(* the operation can only fail.                                            *)
(***************************************************************************)
Operation ==
  {r \in [at : OpPlaces, kind : Kinds, dest : Destinations \cup {""}, opener : BOOLEAN, on : 0 .. MaxConn] :
     /\ r.at \notin {"new", "done"} => r.dest \in Destinations
     /\ r.at = "awaiting" => r.on \in Conns}
Line == {l \in [is : {"unused", "open", "broken", "closed"}, replies : Nat] : l.is = "unused" => l.replies = 0}
KamailioTypes ==
  /\ op \in [Operations -> Operation]
  /\ \A o \in Operations : op[o].at \in {"writing", "reading", "awaiting"} => conn # 0
  /\ table \subseteq Destinations /\ dispatcher \subseteq Destinations
  /\ conn \in 0 .. MaxConn /\ (conn # 0 => line[conn].is # "unused")
  /\ line \in [Conns -> Line]
  /\ failed \subseteq Destinations /\ crossed \subseteq Destinations

Sent == {o \in Operations : op[o].at \in {"reading", "awaiting"}}
Waiting == {o \in Sent : op[o].at = "awaiting" => op[o].on = conn}
Replied ==
  /\ IsFiniteSet(Sent)
  /\ conn # 0 /\ line[conn].is # "closed" => line[conn].replies <= Cardinality(Waiting)

Editing(o, d) == Busy(o) /\ Edits(o, d)
Dead ==
  /\ conn # 0 /\ line[conn].is # "open" /\ line[conn].replies = 0
  /\ \A p \in Operations : op[p].at # "dialling"
Stranded(o) == Dead /\ (op[o].at = "awaiting" => op[o].on = conn)
Settled(d) ==
  /\ \A o, p \in Operations : Editing(o, d) /\ Editing(p, d) => o = p
  /\ (\A o \in Operations : ~Editing(o, d)) => (d \in table <=> d \in dispatcher)
  /\ \A o \in Operations : Editing(o, d) => (d \in table <=> op[o].kind = "add")
  /\ \A o \in Operations : Editing(o, d) /\ op[o].at \in {"reading", "awaiting"} =>
       (d \in table <=> d \in dispatcher) \/ Stranded(o)
KamailioInv ==
  /\ KamailioTypes /\ Replied
  /\ \A d \in Destinations \ (failed \cup crossed) : Settled(d)

LEMMA KamailioInitSound == KamailioInit => KamailioInv
<1> SUFFICES ASSUME KamailioInit PROVE KamailioInv
  OBVIOUS
<1>1. KamailioTypes
  <2>0. 0 \in 0 .. MaxConn
    <3>1. MaxConn \in Nat
      BY KamailioAssumption
    <3> QED BY <3>1, SMT
  <2>1. [at |-> "new", kind |-> "check", dest |-> "", opener |-> FALSE, on |-> 0] \in Operation
    BY <2>0 DEF Operation, OpPlaces, Kinds
  <2>2. [is |-> "unused", replies |-> 0] \in Line
    BY DEF Line
  <2>3. table \subseteq Destinations /\ dispatcher \subseteq Destinations
    BY DEF KamailioInit
  <2>4. conn = 0 /\ conn \in 0 .. MaxConn
    BY <2>0 DEF KamailioInit
  <2>5. op \in [Operations -> Operation] /\ \A o \in Operations : op[o].at = "new"
    BY <2>1 DEF KamailioInit
  <2>6. line \in [Conns -> Line]
    BY <2>2 DEF KamailioInit
  <2>7. failed \subseteq Destinations /\ crossed \subseteq Destinations
    BY DEF KamailioInit
  <2> QED BY <2>3, <2>4, <2>5, <2>6, <2>7 DEF KamailioTypes
<1>2. Sent = {}
  BY DEF KamailioInit, Sent
<1>3. Replied
  BY <1>2, FS_EmptySet DEF KamailioInit, Replied
<1>4. \A o \in Operations : \A d : ~Editing(o, d)
  BY DEF KamailioInit, Editing, Busy
<1>5. \A d \in Destinations : Settled(d)
  BY <1>4 DEF KamailioInit, Settled
<1> QED BY <1>1, <1>3, <1>5 DEF KamailioInv

LEMMA TablesAgreeOf == KamailioInv => TablesAgree
<1> SUFFICES ASSUME KamailioInv PROVE TablesAgree
  OBVIOUS
<1>1. \A o \in Operations :
        /\ op[o].at \in OpPlaces /\ op[o].kind \in Kinds /\ op[o].opener \in BOOLEAN
        /\ op[o].at \in {"writing", "reading", "awaiting"} => conn # 0
        /\ op[o].at = "awaiting" => op[o].on \in Conns
  BY DEF KamailioInv, KamailioTypes, Operation
<1>2. line \in [Conns -> [is : {"unused", "open", "broken", "closed"}, replies : Nat]]
  BY DEF KamailioInv, KamailioTypes, Line
<1>3. KamailioTypeOK
  BY <1>1, <1>2 DEF KamailioInv, KamailioTypes, KamailioTypeOK
<1>4. ASSUME NEW d \in Destinations \ (failed \cup crossed),
             \A o \in Operations : Edits(o, d) => ~Busy(o)
      PROVE  d \in table <=> d \in dispatcher
  BY <1>4 DEF KamailioInv, Settled, Editing
<1> QED BY <1>3, <1>4 DEF TablesAgree

-----------------------------------------------------------------------------
(* What a step of the operation o has to do to a destination that is       *)
(* neither failed nor crossed.                                             *)
Carried(o, d) ==
  /\ (d \in dispatcher' <=> d \in dispatcher) \/ (d \in dispatcher' <=> d \in table)
  /\ Edits(o, d) /\ op'[o].at \in {"reading", "awaiting"} =>
       (d \in dispatcher' <=> d \in table) \/ Stranded(o)'
  /\ Edits(o, d) /\ op'[o].at = "done" => (d \in dispatcher' <=> d \in table)

LEMMA OnwardSettles ==
  ASSUME KamailioTypes, NEW o \in Operations, NEW r \in Operation, Busy(o),
         op' = [op EXCEPT ![o] = r], r.kind = op[o].kind, r.dest = op[o].dest, r.at # "new",
         table' = table, Dead => (conn' = conn /\ Dead'),
         NEW d \in Destinations, Settled(d), Carried(o, d)
  PROVE  Settled(d)'
<1>1. op'[o] = r /\ \A p \in Operations : p # o => op'[p] = op[p]
  BY DEF KamailioTypes
<1>2. \A p \in Operations : op'[p].kind = op[p].kind /\ (Edits(p, d)' <=> Edits(p, d))
  BY <1>1 DEF Edits
<1>3. \A p \in Operations : (p # o \/ r.at # "done") => (Editing(p, d)' <=> Editing(p, d))
  BY <1>1, <1>2 DEF Editing, Busy
<1>4. \A p \in Operations : Editing(p, d)' => Editing(p, d)
  BY <1>1, <1>2, <1>3 DEF Editing, Busy
<1>5. \A p \in Operations : p # o /\ Stranded(p) => Stranded(p)'
  BY <1>1 DEF Stranded
<1>6. Editing(o, d) <=> Edits(o, d)
  BY DEF Editing
<1>7. (\A p \in Operations : ~Editing(p, d)') => (d \in table' <=> d \in dispatcher')
  <2> SUFFICES ASSUME \A p \in Operations : ~Editing(p, d)' PROVE d \in table' <=> d \in dispatcher'
    OBVIOUS
  <2>1. CASE Edits(o, d)
    <3>1. op'[o].at = "done"
      BY <1>1, <1>3, <1>6, <2>1
    <3> QED BY <2>1, <3>1 DEF Carried
  <2>2. CASE ~Edits(o, d)
    <3>1. \A p \in Operations : ~Editing(p, d)
      BY <1>3, <1>6, <2>2
    <3> QED BY <3>1 DEF Carried, Settled
  <2> QED BY <2>1, <2>2
<1>8. ASSUME NEW p \in Operations, Editing(p, d)', op'[p].at \in {"reading", "awaiting"}
      PROVE  (d \in table' <=> d \in dispatcher') \/ Stranded(p)'
  <2>1. Editing(p, d)
    BY <1>4, <1>8
  <2>2. CASE p = o
    BY <1>8, <2>1, <2>2 DEF Carried, Editing
  <2>3. CASE p # o
    <3>1. op[p].at \in {"reading", "awaiting"}
      BY <1>1, <1>8, <2>3
    <3>2. (d \in table <=> d \in dispatcher) \/ Stranded(p)
      BY <2>1, <3>1 DEF Settled
    <3> QED BY <1>5, <2>3, <3>2 DEF Carried
  <2> QED BY <2>2, <2>3
<1>9. ASSUME NEW p \in Operations, Editing(p, d)'
      PROVE  d \in table' <=> op'[p].kind = "add"
  BY <1>2, <1>4, <1>9 DEF Settled
<1>10. \A p, q \in Operations : Editing(p, d)' /\ Editing(q, d)' => p = q
  BY <1>4 DEF Settled
<1> QED BY <1>7, <1>8, <1>9, <1>10 DEF Settled

LEMMA OnwardSound ==
  ASSUME KamailioInv, NEW o \in Operations, NEW r \in Operation, Busy(o),
         op' = [op EXCEPT ![o] = r], r.kind = op[o].kind, r.dest = op[o].dest, r.at # "new",
         table' = table, Dead => (conn' = conn /\ Dead'),
         failed \subseteq failed', crossed \subseteq crossed', KamailioTypes', Replied',
         \A d \in Destinations \ (failed' \cup crossed') : Carried(o, d)
  PROVE  KamailioInv'
<1>1. ASSUME NEW d \in Destinations \ (failed' \cup crossed') PROVE Settled(d)'
  <2>1. d \in Destinations \ (failed \cup crossed) /\ d \in Destinations
    OBVIOUS
  <2>2. KamailioTypes /\ Settled(d) /\ Carried(o, d)
    BY <2>1 DEF KamailioInv
  <2> QED BY <2>1, <2>2, OnwardSettles
<1> QED BY <1>1 DEF KamailioInv

-----------------------------------------------------------------------------
(* An operation moved to the place at. *)
MovedTo(o, at, r) ==
  /\ r \in Operation /\ r.at = at /\ r.kind = op[o].kind /\ r.dest = op[o].dest
  /\ op' = [op EXCEPT ![o] = r]
LEMMA GotoMoves ==
  ASSUME KamailioTypes, NEW o \in Operations, Busy(o),
         NEW at \in {"dialling", "writing", "reading", "done"}, Goto(o, at)
  PROVE  \E r \in Operation : MovedTo(o, at, r) /\ r.on = op[o].on
<1> DEFINE r == [op[o] EXCEPT !.at = at]
<1>1. op[o] \in Operation /\ op[o].dest \in Destinations
  BY DEF KamailioTypes, Operation, Busy
<1>3. /\ r \in Operation /\ r.at = at /\ r.on = op[o].on
      /\ r.kind = op[o].kind /\ r.dest = op[o].dest
  BY <1>1 DEF Operation, OpPlaces
<1>4. op' = [op EXCEPT ![o] = r]
  BY DEF Goto
<1> HIDE DEF r
<1> QED BY <1>3, <1>4 DEF MovedTo

(* Lines that stay, or of which some are closed.                           *)
Closing(l) ==
  /\ l \in [Conns -> Line]
  /\ \A c \in Conns : /\ l[c].replies = line[c].replies
                      /\ l[c].is = line[c].is \/ (l[c].is = "closed" /\ line[c].is # "unused")
LEMMA DeferredCloses ==
  ASSUME KamailioTypes, NEW o \in Operations
  PROVE  Closing(line) /\ Closing(Deferred(o))
<1>1. conn # 0 => conn \in Conns
  BY KamailioAssumption DEF KamailioTypes, Conns
<1>2. \A l \in Line : [l EXCEPT !.is = "closed"] \in Line \/ l.is = "unused"
  BY DEF Line
<1>3. Closing(line)
  BY DEF Closing, KamailioTypes
<1>4. ASSUME conn # 0 PROVE Closing([line EXCEPT ![conn].is = "closed"])
  <2> DEFINE l == [line EXCEPT ![conn] = [line[conn] EXCEPT !.is = "closed"]]
  <2>1. line[conn] \in Line /\ line[conn].is # "unused"
    BY <1>1, <1>4 DEF KamailioTypes
  <2>2. [line[conn] EXCEPT !.is = "closed"] \in Line
    BY <2>1 DEF Line
  <2>3. l \in [Conns -> Line]
    BY <1>1, <1>4, <2>2 DEF KamailioTypes
  <2>4. \A c \in Conns : /\ l[c].replies = line[c].replies
                         /\ l[c].is = line[c].is \/ (l[c].is = "closed" /\ line[c].is # "unused")
    BY <1>1, <2>1 DEF KamailioTypes, Line
  <2>5. l = [line EXCEPT ![conn].is = "closed"]
    OBVIOUS
  <2> HIDE DEF l
  <2> QED BY <2>3, <2>4, <2>5 DEF Closing
<1> QED BY <1>3, <1>4 DEF Deferred

(* What is left of the types when the tables do not change.                *)
LEMMA TypesKept ==
  ASSUME KamailioTypes, NEW o \in Operations, NEW at, NEW r \in Operation, MovedTo(o, at, r),
         at \in {"writing", "reading", "awaiting"} => conn' # 0,
         conn' \in 0 .. MaxConn, conn # 0 => conn' # 0, conn' # 0 => line'[conn'].is # "unused",
         line' \in [Conns -> Line], table' = table, dispatcher' \subseteq Destinations,
         failed' \subseteq Destinations, crossed' \subseteq Destinations
  PROVE  KamailioTypes'
BY DEF KamailioTypes, MovedTo

LEMMA WaitingCounted ==
  ASSUME Replied
  PROVE  IsFiniteSet(Waiting) /\ Cardinality(Waiting) \in Nat
<1>1. Waiting \subseteq Sent /\ IsFiniteSet(Sent)
  BY DEF Waiting, Replied
<1> QED BY <1>1, FS_Subset, FS_CardinalityType

(* A step of an operation that neither begins nor ends to wait.            *)
LEMMA RepliedKept ==
  ASSUME KamailioTypes, Replied, NEW o \in Operations, NEW at, NEW r \in Operation, MovedTo(o, at, r),
         op[o].at \notin {"reading", "awaiting"}, at \notin {"reading", "awaiting"},
         conn' = conn, Closing(line')
  PROVE  Replied'
<1>1. Sent' = Sent /\ Waiting' = Waiting
  BY DEF MovedTo, Sent, Waiting, KamailioTypes
<1>2. conn # 0 => conn \in Conns
  BY KamailioAssumption DEF KamailioTypes, Conns
<1> QED BY <1>1, <1>2 DEF Replied, Closing

LEMMA DeadKept ==
  ASSUME KamailioTypes, NEW o \in Operations, NEW at, NEW r \in Operation, MovedTo(o, at, r),
         at # "dialling", conn' = conn, Closing(line')
  PROVE  Dead => (conn' = conn /\ Dead')
<1>1. conn # 0 => conn \in Conns
  BY KamailioAssumption DEF KamailioTypes, Conns
<1> QED BY <1>1 DEF Dead, Closing, MovedTo, KamailioTypes

LEMMA ClosingTypes ==
  ASSUME KamailioTypes, conn' = conn, Closing(line')
  PROVE  /\ line' \in [Conns -> Line] /\ conn' \in 0 .. MaxConn
         /\ conn' # 0 => line'[conn'].is # "unused"
<1>1. conn # 0 => conn \in Conns
  BY KamailioAssumption DEF KamailioTypes, Conns
<1> QED BY <1>1 DEF Closing, KamailioTypes

LEMMA CheckSound ==
  ASSUME KamailioInv, NEW o \in Operations, Check(o)
  PROVE  KamailioInv'
<1>1. /\ KamailioTypes /\ Replied /\ Busy(o) /\ op[o].at = "asking"
      /\ conn' = conn /\ line' = line /\ table' = table /\ dispatcher' = dispatcher
      /\ failed' = failed /\ crossed' = crossed
  BY DEF KamailioInv, Check, Busy
<1>2. PICK at \in {"dialling", "writing"} : Goto(o, at) /\ (conn # 0 <=> at = "writing")
  BY DEF Check
<1>3. PICK r \in Operation : MovedTo(o, at, r)
  BY <1>1, <1>2, GotoMoves
<1>4. Closing(line')
  BY <1>1, DeferredCloses
<1>5. Replied'
  BY <1>1, <1>3, <1>4, RepliedKept
<1>6. Dead => (conn' = conn /\ Dead')
  <2>1. Dead => at # "dialling"
    BY <1>2 DEF Dead
  <2> QED BY <1>1, <1>3, <1>4, <2>1, DeadKept
<1>7. KamailioTypes'
  <2>1. /\ line' \in [Conns -> Line] /\ conn' \in 0 .. MaxConn
        /\ conn' # 0 => line'[conn'].is # "unused"
    BY <1>1, <1>4, ClosingTypes
  <2>2. at \in {"writing", "reading", "awaiting"} => conn' # 0
    BY <1>1, <1>2
  <2> QED BY <1>1, <1>3, <2>1, <2>2, TypesKept DEF KamailioTypes
<1>8. \A d \in Destinations : Carried(o, d)
  BY <1>1, <1>3 DEF Carried, MovedTo, KamailioTypes
<1>9. r.kind = op[o].kind /\ r.dest = op[o].dest /\ r.at # "new" /\ op' = [op EXCEPT ![o] = r]
  BY <1>3 DEF MovedTo
<1> QED BY <1>1, <1>5, <1>6, <1>7, <1>8, <1>9, OnwardSound

LEMMA FailSound ==
  ASSUME KamailioInv, NEW o \in Operations, Busy(o), Fail(o),
         UNCHANGED <<table, dispatcher, conn, crossed>>, Replied'
  PROVE  KamailioInv'
<1>1. /\ KamailioTypes /\ conn' = conn /\ table' = table /\ dispatcher' = dispatcher
      /\ crossed' = crossed /\ failed \subseteq failed'
      /\ \A d : Edits(o, d) => d \in failed'
  BY DEF KamailioInv, Fail, Edits
<1>2. PICK r \in Operation : MovedTo(o, "done", r)
  BY <1>1, GotoMoves DEF Fail
<1>3. Closing(line')
  BY <1>1, DeferredCloses DEF Fail
<1>4. Dead => (conn' = conn /\ Dead')
  BY <1>1, <1>2, <1>3, DeadKept
<1>5. KamailioTypes'
  <2>1. /\ line' \in [Conns -> Line] /\ conn' \in 0 .. MaxConn
        /\ conn' # 0 => line'[conn'].is # "unused"
    BY <1>1, <1>3, ClosingTypes
  <2>2. failed' \subseteq Destinations
    <3>1. op[o].dest \in Destinations
      BY <1>1 DEF KamailioTypes, Operation, Busy
    <3>2. failed' \in {failed, failed \cup {op[o].dest}}
      BY DEF Fail
    <3> QED BY <1>1, <3>1, <3>2 DEF KamailioTypes
  <2> QED BY <1>1, <1>2, <2>1, <2>2, TypesKept DEF KamailioTypes
<1>6. \A d \in Destinations \ (failed' \cup crossed') : Carried(o, d)
  BY <1>1 DEF Carried
<1>7. r.kind = op[o].kind /\ r.dest = op[o].dest /\ r.at # "new" /\ op' = [op EXCEPT ![o] = r]
  BY <1>2 DEF MovedTo
<1> QED BY <1>1, <1>2, <1>4, <1>5, <1>6, <1>7, OnwardSound

LEMMA FailsUnsent ==
  ASSUME KamailioInv, NEW o \in Operations, ConnectFails(o) \/ WriteFails(o)
  PROVE  KamailioInv'
<1>1. /\ KamailioTypes /\ Replied /\ Busy(o) /\ Fail(o) /\ op[o].at \in {"dialling", "writing"}
      /\ UNCHANGED <<table, dispatcher, conn, crossed>>
  BY DEF KamailioInv, ConnectFails, WriteFails, Busy
<1>2. PICK r \in Operation : MovedTo(o, "done", r)
  BY <1>1, GotoMoves DEF Fail
<1>3. Closing(line')
  BY <1>1, DeferredCloses DEF Fail
<1>4. Replied'
  BY <1>1, <1>2, <1>3, RepliedKept
<1> QED BY <1>1, <1>4, FailSound

(* An operation that ends to wait takes its response with it.              *)
LEMMA LeavesWaiting ==
  ASSUME KamailioTypes, Replied, NEW o \in Operations, NEW r \in Operation, MovedTo(o, "done", r),
         op[o].at = "awaiting", conn' = conn, Closing(line'),
         op[o].on = conn => line[conn].is = "closed" \/ line[conn].replies = 0
  PROVE  Replied'
<1>1. conn # 0 => conn \in Conns
  BY KamailioAssumption DEF KamailioTypes, Conns
<1>2. Sent' \subseteq Sent /\ IsFiniteSet(Sent')
  <2>1. Sent' \subseteq Sent
    BY DEF MovedTo, Sent, KamailioTypes
  <2> QED BY <2>1, FS_Subset DEF Replied
<1>3. Waiting' = Waiting \ {o}
  BY DEF MovedTo, Sent, Waiting, KamailioTypes
<1>4. IsFiniteSet(Waiting) /\ Cardinality(Waiting) \in Nat
  BY WaitingCounted
<1>5. Cardinality(Waiting') \in Nat
  BY <1>3, <1>4, FS_RemoveElement, FS_CardinalityType
<1>6. CASE op[o].on = conn
  BY <1>1, <1>2, <1>5, <1>6 DEF Replied, Closing
<1>7. CASE op[o].on # conn
  <2>1. Waiting' = Waiting
    BY <1>3, <1>7 DEF Waiting
  <2> QED BY <1>1, <1>2, <2>1 DEF Replied, Closing
<1> QED BY <1>6, <1>7

LEMMA ReadFailsSound ==
  ASSUME KamailioInv, NEW o \in Operations, ReadFails(o)
  PROVE  KamailioInv'
<1>1. /\ KamailioTypes /\ Replied /\ Busy(o) /\ Fail(o) /\ op[o].at = "awaiting"
      /\ UNCHANGED <<table, dispatcher, conn, crossed>>
      /\ line[op[o].on].is = "closed" \/ line[op[o].on].replies = 0
  BY DEF KamailioInv, ReadFails, Busy
<1>2. PICK r \in Operation : MovedTo(o, "done", r)
  BY <1>1, GotoMoves DEF Fail
<1>3. Closing(line')
  BY <1>1, DeferredCloses DEF Fail
<1>4. Replied'
  BY <1>1, <1>2, <1>3, LeavesWaiting
<1> QED BY <1>1, <1>4, FailSound

LEMMA ConnectSound ==
  ASSUME KamailioInv, NEW o \in Operations, Connect(o)
  PROVE  KamailioInv'
<1>1. /\ KamailioTypes /\ Replied /\ Busy(o) /\ op[o].at = "dialling"
      /\ table' = table /\ dispatcher' = dispatcher /\ failed' = failed /\ crossed' = crossed
      /\ op' = [op EXCEPT ![o] = [op[o] EXCEPT !.at = "writing", !.opener = TRUE]]
  BY DEF KamailioInv, Connect, Busy
<1>2. PICK c \in Conns : /\ line[c].is = "unused" /\ conn' = c
                        /\ line' = [line EXCEPT ![c] = [line[c] EXCEPT !.is = "open"]]
  BY DEF Connect
<1>3. PICK r \in Operation : MovedTo(o, "writing", r)
  <2> DEFINE r == [op[o] EXCEPT !.at = "writing", !.opener = TRUE]
  <2>1. op[o] \in Operation /\ op[o].dest \in Destinations
    BY <1>1 DEF KamailioTypes, Operation
  <2>2. r \in Operation /\ r.at = "writing" /\ r.kind = op[o].kind /\ r.dest = op[o].dest
    BY <2>1 DEF Operation, OpPlaces
  <2>3. op' = [op EXCEPT ![o] = r]
    BY <1>1
  <2> HIDE DEF r
  <2> QED BY <2>2, <2>3 DEF MovedTo
<1>4. line[c] \in Line /\ line[c].replies = 0
  BY <1>1, <1>2 DEF KamailioTypes, Line
<1>5. /\ line' \in [Conns -> Line] /\ line'[c].is = "open" /\ line'[c].replies = 0
      /\ conn' \in 0 .. MaxConn /\ conn' # 0
  <2>1. [line[c] EXCEPT !.is = "open"] \in Line
    BY <1>4 DEF Line
  <2>2. [line[c] EXCEPT !.is = "open"].is = "open" /\ [line[c] EXCEPT !.is = "open"].replies = 0
    BY <1>4 DEF Line
  <2>3. line \in [Conns -> Line]
    BY <1>1 DEF KamailioTypes
  <2>4. line' \in [Conns -> Line] /\ line'[c].is = "open" /\ line'[c].replies = 0
    BY <1>2, <2>1, <2>2, <2>3
  <2>5. conn' \in 0 .. MaxConn /\ conn' # 0
    BY <1>2, KamailioAssumption DEF Conns
  <2> QED BY <2>4, <2>5
<1>6. Replied'
  <2>1. Sent' = Sent
    BY <1>1, <1>3 DEF MovedTo, Sent, KamailioTypes
  <2>2. Waiting' \subseteq Sent'
    BY DEF Waiting
  <2>3. IsFiniteSet(Sent') /\ Cardinality(Waiting') \in Nat
    BY <1>1, <2>1, <2>2, FS_Subset, FS_CardinalityType DEF Replied
  <2> QED BY <1>2, <1>5, <2>3 DEF Replied
<1>7. ~Dead
  BY <1>1 DEF Dead
<1>8. KamailioTypes'
  <2>1. conn' # 0 => line'[conn'].is # "unused"
    BY <1>2, <1>5
  <2> QED BY <1>1, <1>3, <1>5, <2>1, TypesKept DEF KamailioTypes
<1>9. \A d \in Destinations : Carried(o, d)
  BY <1>1, <1>3 DEF Carried, MovedTo, KamailioTypes
<1>10. r.kind = op[o].kind /\ r.dest = op[o].dest /\ r.at # "new" /\ op' = [op EXCEPT ![o] = r]
  BY <1>3 DEF MovedTo
<1> QED BY <1>1, <1>6, <1>7, <1>8, <1>9, <1>10, OnwardSound

(* A response more, or the line breaks; and one more waits.                *)
LEMMA WriteReplied ==
  ASSUME KamailioTypes, Replied, NEW o \in Operations, NEW r \in Operation, MovedTo(o, "reading", r),
         op[o].at = "writing", conn' = conn, conn \in Conns, line[conn].is = "open",
         NEW l \in Line, line' = [line EXCEPT ![conn] = l],
         l.replies = line[conn].replies \/ l.replies = line[conn].replies + 1
  PROVE  Replied'
<1>1. Sent' = Sent \cup {o} /\ Waiting' = Waiting \cup {o} /\ o \notin Waiting
  BY DEF MovedTo, Sent, Waiting, KamailioTypes
<1>2. IsFiniteSet(Waiting) /\ Cardinality(Waiting) \in Nat
  BY WaitingCounted
<1>3. Cardinality(Waiting') = Cardinality(Waiting) + 1
  BY <1>1, <1>2, FS_AddElement
<1>4. IsFiniteSet(Sent')
  BY <1>1, FS_AddElement DEF Replied
<1>5. line'[conn] = l /\ line[conn].replies \in Nat
  BY DEF KamailioTypes, Line
<1>6. conn # 0 /\ line[conn].replies <= Cardinality(Waiting)
  BY KamailioAssumption DEF Replied, Conns
<1>7. l.replies <= Cardinality(Waiting')
  <2> DEFINE n == line[conn].replies
             m == Cardinality(Waiting)
  <2>1. n \in Nat /\ m \in Nat /\ n <= m /\ Cardinality(Waiting') = m + 1
        /\ (l.replies = n \/ l.replies = n + 1)
    BY <1>2, <1>3, <1>5, <1>6
  <2> HIDE DEF n, m
  <2> QED BY <2>1
<1> QED BY <1>4, <1>5, <1>7 DEF Replied

LEMMA WriteSound ==
  ASSUME KamailioInv, NEW o \in Operations, Write(o)
  PROVE  KamailioInv'
<1>1. /\ KamailioTypes /\ Replied /\ Busy(o) /\ op[o].at = "writing" /\ Goto(o, "reading")
      /\ table' = table /\ failed' = failed /\ conn' = conn /\ line[conn].is = "open"
  BY DEF KamailioInv, Write, Busy
<1>2. conn \in Conns /\ conn # 0
  BY <1>1, KamailioAssumption DEF KamailioTypes, Conns
<1>3. PICK r \in Operation : MovedTo(o, "reading", r)
  BY <1>1, GotoMoves
<1>4. /\ op[o] \in Operation /\ op[o].dest \in Destinations
      /\ line[conn] \in Line /\ line[conn].replies \in Nat
      /\ line \in [Conns -> Line] /\ Dead = FALSE
  BY <1>1, <1>2 DEF KamailioTypes, Operation, Line, Dead
<1>5. r.kind = op[o].kind /\ r.dest = op[o].dest /\ r.at # "new" /\ op' = [op EXCEPT ![o] = r]
      /\ op'[o].at = "reading"
  BY <1>1, <1>3 DEF MovedTo, KamailioTypes
<1>6. CASE /\ dispatcher' = Executed(o)
           /\ line' = [line EXCEPT ![conn].replies = @ + 1]
           /\ crossed' = crossed
  <2> DEFINE l == [line[conn] EXCEPT !.replies = line[conn].replies + 1]
  <2>1. l \in Line /\ l.is = "open" /\ l.replies = line[conn].replies + 1
    BY <1>1, <1>4 DEF Line
  <2>2. line' = [line EXCEPT ![conn] = l]
    BY <1>6
  <2> HIDE DEF l
  <2>3. Replied'
    BY <1>1, <1>2, <1>3, <2>1, <2>2, WriteReplied
  <2>4. dispatcher' \subseteq Destinations
    BY <1>1, <1>4, <1>6 DEF Executed, KamailioTypes
  <2>5. line' \in [Conns -> Line] /\ line'[conn'].is # "unused"
    BY <1>1, <1>2, <1>4, <2>1, <2>2
  <2>6. KamailioTypes'
    <3>1. conn' # 0 /\ conn' \in 0 .. MaxConn
      BY <1>1, <1>2 DEF KamailioTypes
    <3>2. failed' \subseteq Destinations /\ crossed' \subseteq Destinations
      BY <1>1, <1>6 DEF KamailioTypes
    <3> QED BY <1>1, <1>3, <2>4, <2>5, <3>1, <3>2, TypesKept
  <2>7. ASSUME NEW d \in Destinations, Settled(d) PROVE Carried(o, d)
    <3>1. CASE Edits(o, d)
      <4>1. d \in table <=> op[o].kind = "add"
        BY <1>1, <2>7, <3>1 DEF Settled, Editing
      <4>2. d \in dispatcher' <=> op[o].kind = "add"
        BY <1>6, <3>1 DEF Executed, Edits
      <4> QED BY <4>1, <4>2 DEF Carried
    <3>2. CASE ~Edits(o, d)
      <4>1. (d \in dispatcher' <=> d \in dispatcher) \/ (d \in dispatcher' <=> d \in table)
        BY <1>6, <3>2 DEF Executed, Edits
      <4> QED BY <3>2, <4>1 DEF Carried
    <3> QED BY <3>1, <3>2
  <2>8. \A d \in Destinations \ (failed' \cup crossed') : Carried(o, d)
    BY <1>1, <1>6, <2>7 DEF KamailioInv
  <2> QED BY <1>1, <1>4, <1>5, <1>6, <2>3, <2>6, <2>8, OnwardSound
<1>7. CASE /\ line' = [line EXCEPT ![conn].is = "broken"]
           /\ crossed' = IF \E p \in Operations \ {o} : Busy(p)
                         THEN crossed \cup {op[o].dest} ELSE crossed
           /\ dispatcher' = dispatcher
  <2> DEFINE l == [line[conn] EXCEPT !.is = "broken"]
  <2>1. l \in Line /\ l.is = "broken" /\ l.replies = line[conn].replies
    BY <1>1, <1>4 DEF Line
  <2>2. line' = [line EXCEPT ![conn] = l]
    BY <1>7
  <2> HIDE DEF l
  <2>3. Replied'
    BY <1>1, <1>2, <1>3, <2>1, <2>2, WriteReplied
  <2>5. line' \in [Conns -> Line] /\ line'[conn'].is = "broken" /\ line'[conn'].replies = line[conn].replies
    BY <1>1, <1>2, <1>4, <2>1, <2>2
  <2>6. KamailioTypes'
    <3>1. conn' # 0 /\ conn' \in 0 .. MaxConn /\ dispatcher' \subseteq Destinations
      BY <1>1, <1>2, <1>7 DEF KamailioTypes
    <3>2. failed' \subseteq Destinations /\ crossed' \subseteq Destinations
      BY <1>1, <1>4, <1>7 DEF KamailioTypes
    <3>3. line'[conn'].is # "unused"
      BY <2>5
    <3> QED BY <1>1, <1>3, <2>5, <3>1, <3>2, <3>3, TypesKept
  <2>7. ASSUME NEW d \in Destinations, Edits(o, d), d \notin crossed' PROVE Stranded(o)'
    <3>1. \A p \in Operations : p # o => ~Busy(p)
      BY <1>7, <2>7 DEF Edits
    <3>2. Waiting = {}
      BY <1>1, <3>1 DEF Waiting, Sent, Busy
    <3>3. line[conn].replies = 0
      <4>1. Cardinality(Waiting) = 0
        BY <3>2, FS_EmptySet
      <4> QED BY <1>1, <1>2, <1>4, <4>1 DEF Replied
    <3>4. \A p \in Operations : op'[p].at # "dialling"
      BY <1>1, <1>5, <3>1 DEF Busy, KamailioTypes
    <3> QED BY <1>1, <1>2, <1>5, <2>5, <3>3, <3>4 DEF Stranded, Dead
  <2>8. \A d \in Destinations \ (failed' \cup crossed') : Carried(o, d)
    BY <1>5, <1>7, <2>7 DEF Carried
  <2>9. crossed \subseteq crossed'
    BY <1>7
  <2> QED BY <1>1, <1>4, <1>5, <2>3, <2>6, <2>8, <2>9, OnwardSound
<1> QED BY <1>1, <1>6, <1>7 DEF Write

LEMMA StartReadingSound ==
  ASSUME KamailioInv, NEW o \in Operations, StartReading(o)
  PROVE  KamailioInv'
<1>1. /\ KamailioTypes /\ Replied /\ Busy(o) /\ op[o].at = "reading"
      /\ table' = table /\ failed' = failed /\ conn' = conn /\ line' = line
      /\ dispatcher' = dispatcher /\ crossed' = crossed
      /\ op' = [op EXCEPT ![o] = [op[o] EXCEPT !.at = "awaiting", !.on = conn]]
  BY DEF KamailioInv, StartReading, Busy
<1>2. conn \in Conns /\ conn # 0 /\ conn \in 0 .. MaxConn
  BY <1>1, KamailioAssumption DEF KamailioTypes, Conns
<1>3. PICK r \in Operation : MovedTo(o, "awaiting", r) /\ r.on = conn
  <2> DEFINE r == [op[o] EXCEPT !.at = "awaiting", !.on = conn]
  <2>1. op[o] \in Operation /\ op[o].dest \in Destinations
    BY <1>1 DEF KamailioTypes, Operation
  <2>2. r \in Operation /\ r.at = "awaiting" /\ r.kind = op[o].kind /\ r.dest = op[o].dest /\ r.on = conn
    BY <1>2, <2>1 DEF Operation, OpPlaces
  <2>3. op' = [op EXCEPT ![o] = r]
    BY <1>1
  <2> HIDE DEF r
  <2> QED BY <2>2, <2>3 DEF MovedTo
<1>4. r.kind = op[o].kind /\ r.dest = op[o].dest /\ r.at = "awaiting" /\ op' = [op EXCEPT ![o] = r]
      /\ op'[o] = r
  BY <1>1, <1>3 DEF MovedTo, KamailioTypes
<1>5. Closing(line')
  BY <1>1, DeferredCloses
<1>6. Sent' = Sent /\ Waiting' = Waiting
  BY <1>1, <1>3, <1>4 DEF Sent, Waiting, KamailioTypes
<1>7. Replied'
  BY <1>1, <1>6 DEF Replied
<1>8. Dead => (conn' = conn /\ Dead')
  BY <1>1, <1>3, <1>5, DeadKept
<1>9. KamailioTypes'
  BY <1>1, <1>2, <1>3, TypesKept DEF KamailioTypes
<1>10. ASSUME NEW d \in Destinations, Settled(d) PROVE Carried(o, d)
  <2>1. Edits(o, d) => (d \in table <=> d \in dispatcher) \/ Stranded(o)
    BY <1>1, <1>10 DEF Settled, Editing
  <2>2. Stranded(o) => Stranded(o)'
    BY <1>1, <1>3, <1>4, <1>8 DEF Stranded
  <2> QED BY <1>1, <1>4, <2>1, <2>2 DEF Carried
<1>11. \A d \in Destinations \ (failed' \cup crossed') : Carried(o, d)
  BY <1>1, <1>10 DEF KamailioInv
<1>12. r.at # "new"
  BY <1>4
<1> QED BY <1>1, <1>4, <1>7, <1>8, <1>9, <1>11, <1>12, OnwardSound

LEMMA ReadResponseSound ==
  ASSUME KamailioInv, NEW o \in Operations, ReadResponse(o)
  PROVE  KamailioInv'
<1> DEFINE c == op[o].on
<1>1. /\ KamailioTypes /\ Replied /\ Busy(o) /\ op[o].at = "awaiting"
      /\ table' = table /\ failed' = failed /\ conn' = conn
      /\ dispatcher' = dispatcher /\ crossed' = crossed
      /\ Goto(o, "done") /\ line[c].replies > 0
  BY DEF KamailioInv, ReadResponse, Busy
<1>2. conn \in Conns /\ conn # 0 /\ c \in Conns /\ line \in [Conns -> Line]
  <2>1. conn # 0 /\ conn \in 0 .. MaxConn /\ line \in [Conns -> Line] /\ op[o] \in Operation
    BY <1>1 DEF KamailioTypes
  <2>2. conn \in Conns
    BY <2>1, KamailioAssumption DEF Conns
  <2>3. op[o].on \in Conns
    BY <1>1, <2>1 DEF Operation
  <2> QED BY <2>1, <2>2, <2>3
<1>3. PICK left \in 0 .. line[c].replies - 1 :
        LET taken == [line EXCEPT ![c].replies = left] IN
        line' = IF op[o].opener THEN [taken EXCEPT ![conn].is = "closed"] ELSE taken
  BY DEF ReadResponse
<1>4. PICK r \in Operation : MovedTo(o, "done", r)
  BY <1>1, GotoMoves
<1> HIDE DEF c
<1>5. /\ line' \in [Conns -> Line]
      /\ line'[conn].is = line[conn].is \/ (line'[conn].is = "closed" /\ line[conn].is # "unused")
      /\ line'[conn].replies = IF conn = c THEN left ELSE line[conn].replies
  <2> DEFINE l == [line[c] EXCEPT !.replies = left]
             taken == [line EXCEPT ![c] = l]
  <2>1. line[c] \in Line /\ line[c].is # "unused" /\ line[c].replies \in Nat /\ left \in Nat
    BY <1>1, <1>2, <1>3 DEF Line
  <2>2. l \in Line /\ l.is = line[c].is /\ l.replies = left
    BY <2>1 DEF Line
  <2>3. line' = IF op[o].opener THEN [taken EXCEPT ![conn].is = "closed"] ELSE taken
    BY <1>3 DEF c
  <2> HIDE DEF l
  <2>4. /\ taken \in [Conns -> Line] /\ taken[conn].is = line[conn].is
        /\ taken[conn].replies = IF conn = c THEN left ELSE line[conn].replies
    BY <1>2, <2>2
  <2> HIDE DEF taken
  <2>5. CASE ~op[o].opener
    BY <2>3, <2>4, <2>5
  <2>6. CASE op[o].opener
    <3> DEFINE k == [taken[conn] EXCEPT !.is = "closed"]
    <3>1. taken[conn] \in Line /\ taken[conn].is # "unused" /\ line[conn].is # "unused"
      BY <1>1, <1>2, <2>4 DEF KamailioTypes
    <3>2. k \in Line /\ k.is = "closed" /\ k.replies = taken[conn].replies
      BY <3>1 DEF Line
    <3>3. line' = [taken EXCEPT ![conn] = k]
      BY <2>3, <2>6
    <3> HIDE DEF k
    <3>4. line' \in [Conns -> Line] /\ line'[conn] = k
      BY <1>2, <2>4, <3>2, <3>3
    <3> QED BY <2>4, <3>1, <3>2, <3>4
  <2> QED BY <2>5, <2>6
<1>6. Waiting' = Waiting \ {o} /\ Sent' \subseteq Sent
  BY <1>1, <1>4 DEF MovedTo, Sent, Waiting, KamailioTypes
<1>7. IsFiniteSet(Waiting) /\ Cardinality(Waiting) \in Nat /\ IsFiniteSet(Sent')
  BY <1>1, <1>6, WaitingCounted, FS_Subset DEF Replied
<1>8. Replied'
  <2>1. CASE conn = c
    <3>1. o \in Waiting
      BY <1>1, <2>1 DEF Waiting, Sent, c
    <3>2. Cardinality(Waiting') = Cardinality(Waiting) - 1
      BY <1>6, <1>7, <3>1, FS_RemoveElement
    <3>3. line[conn].replies \in Nat /\ line'[conn].replies <= line[conn].replies - 1
      BY <1>2, <1>3, <1>5, <2>1 DEF Line, c
    <3>4. line'[conn].is # "closed" => line[conn].is # "closed"
      BY <1>5
    <3>5. line'[conn].replies \in Nat
      BY <1>2, <1>5 DEF Line
    <3>6. line'[conn].is # "closed" => line[conn].replies <= Cardinality(Waiting)
      BY <1>1, <1>2, <3>4 DEF Replied
    <3>7. line'[conn].is # "closed" => line'[conn].replies <= Cardinality(Waiting')
      <4> DEFINE a == line'[conn].replies
                 b == line[conn].replies
                 m == Cardinality(Waiting)
      <4>1. a \in Nat /\ b \in Nat /\ m \in Nat /\ a <= b - 1 /\ Cardinality(Waiting') = m - 1
            /\ (line'[conn].is # "closed" => b <= m)
        BY <1>7, <3>2, <3>3, <3>5, <3>6
      <4> HIDE DEF a, b, m
      <4>2. line'[conn].is # "closed" => a <= m - 1
        BY <4>1
      <4> QED BY <4>1, <4>2 DEF a
    <3> QED BY <1>1, <1>7, <3>7 DEF Replied
  <2>2. CASE conn # c
    <3>1. Waiting' = Waiting
      BY <1>1, <1>6, <2>2 DEF Waiting, c
    <3> QED BY <1>1, <1>5, <1>7, <2>2, <3>1 DEF Replied
  <2> QED BY <2>1, <2>2
<1>9. Dead => (conn' = conn /\ Dead')
  <2>1. Dead => conn # c
    BY <1>1, <1>2 DEF Dead, Line
  <2> QED BY <1>1, <1>2, <1>4, <1>5, <2>1 DEF Dead, MovedTo, KamailioTypes
<1>10. KamailioTypes'
  <2>1. line'[conn'].is # "unused" /\ conn' \in 0 .. MaxConn
    BY <1>1, <1>2, <1>5 DEF KamailioTypes
  <2> QED BY <1>1, <1>2, <1>4, <1>5, <2>1, TypesKept DEF KamailioTypes
<1>11. ASSUME NEW d \in Destinations, Settled(d) PROVE Carried(o, d)
  <2>1. Edits(o, d) => (d \in table <=> d \in dispatcher) \/ Stranded(o)
    BY <1>1, <1>11 DEF Settled, Editing
  <2>2. ~Stranded(o)
    BY <1>1, <1>2 DEF Stranded, Dead, Line, c
  <2> QED BY <1>1, <2>1, <2>2 DEF Carried
<1>12. \A d \in Destinations \ (failed' \cup crossed') : Carried(o, d)
  BY <1>1, <1>11 DEF KamailioInv
<1>13. r.kind = op[o].kind /\ r.dest = op[o].dest /\ r.at # "new" /\ op' = [op EXCEPT ![o] = r]
  BY <1>4 DEF MovedTo
<1> QED BY <1>1, <1>8, <1>9, <1>10, <1>12, <1>13, OnwardSound

(* A new operation, or none if its statement failed.                       *)
LEMMA NewSettles ==
  ASSUME KamailioInv, NEW o \in Operations, op[o].at = "new", NEW r \in Operation,
         op' = [op EXCEPT ![o] = r], r.at \in {"asking", "done"},
         UNCHANGED <<dispatcher, conn, line>>, table' \subseteq Destinations,
         failed \subseteq failed', crossed \subseteq crossed',
         failed' \subseteq Destinations, crossed' \subseteq Destinations,
         \A d \in Destinations \ (failed' \cup crossed') :
           \/ ~Editing(o, d)' /\ (d \in table' <=> d \in table)
           \/ /\ Editing(o, d)' /\ \A p \in Operations : ~Editing(p, d)
              /\ r.at = "asking" /\ (d \in table' <=> r.kind = "add")
  PROVE  KamailioInv'
<1>1. KamailioTypes /\ Replied /\ dispatcher' = dispatcher /\ conn' = conn /\ line' = line
  BY DEF KamailioInv
<1>2. op'[o] = r /\ \A p \in Operations : p # o => op'[p] = op[p]
  BY <1>1 DEF KamailioTypes
<1>3. KamailioTypes'
  BY <1>1, <1>2 DEF KamailioTypes
<1>4. Sent' = Sent /\ Waiting' = Waiting
  BY <1>1, <1>2 DEF Sent, Waiting
<1>5. Replied'
  BY <1>1, <1>4 DEF Replied
<1>6. \A p \in Operations : p # o /\ Stranded(p) => Stranded(p)'
  BY <1>1, <1>2 DEF Stranded, Dead
<1>7. ASSUME NEW d \in Destinations \ (failed' \cup crossed') PROVE Settled(d)'
  <2>1. Settled(d)
    BY <1>7 DEF KamailioInv
  <2>2. \A p \in Operations : p # o => (Editing(p, d)' <=> Editing(p, d))
    BY <1>2 DEF Editing, Edits, Busy
  <2>3. ~Editing(o, d)
    BY DEF Editing, Busy
  <2>4. CASE ~Editing(o, d)' /\ (d \in table' <=> d \in table)
    BY <1>1, <1>2, <1>6, <2>1, <2>2, <2>3, <2>4 DEF Settled
  <2>5. CASE /\ Editing(o, d)' /\ \A p \in Operations : ~Editing(p, d)
             /\ r.at = "asking" /\ (d \in table' <=> r.kind = "add")
    <3>1. \A p \in Operations : Editing(p, d)' => p = o
      BY <2>2, <2>5
    <3> QED BY <1>2, <2>5, <3>1 DEF Settled
  <2> QED BY <1>7, <2>4, <2>5
<1> QED BY <1>3, <1>5, <1>7 DEF KamailioInv

LEMMA ChangesSound ==
  ASSUME KamailioInv, NEW o \in Operations, NEW d \in Destinations, NEW k \in {"add", "remove"},
         NEW changed, changed = IF k = "add" THEN table \cup {d} ELSE table \ {d},
         Changes(o, k, d, changed)
  PROVE  KamailioInv'
<1>1. /\ KamailioTypes /\ op[o].at = "new" /\ op[o] \in Operation
      /\ UNCHANGED <<dispatcher, conn, line>>
      /\ crossed' = crossed \cup Crossing(o, k, d)
  BY DEF KamailioInv, Changes, KamailioTypes
<1>2. crossed' \subseteq Destinations /\ crossed \subseteq crossed'
  BY <1>1 DEF Crossing, KamailioTypes
<1>3. ASSUME d \notin crossed' PROVE \A p \in Operations : ~Editing(p, d)
  BY <1>1, <1>3 DEF Crossing, Editing
<1>4. CASE Asks(o, k, d) /\ table' = changed /\ UNCHANGED failed
  <2> DEFINE r == [at |-> "asking", kind |-> k, dest |-> d, opener |-> FALSE, on |-> 0]
  <2>0. 0 \in 0 .. MaxConn
    <3>1. MaxConn \in Nat
      BY KamailioAssumption
    <3> QED BY <3>1, SMT
  <2>1. r \in Operation /\ r.at = "asking" /\ r.kind = k /\ r.dest = d
    BY <2>0 DEF Operation, OpPlaces, Kinds
  <2>2. op' = [op EXCEPT ![o] = r]
    BY <1>4 DEF Asks
  <2> HIDE DEF r
  <2>3. op'[o] = r
    BY <1>1, <2>2 DEF KamailioTypes
  <2>4. /\ table' \subseteq Destinations
        /\ \A x \in Destinations : x # d => (x \in table' <=> x \in table)
        /\ d \in table' <=> k = "add"
    BY <1>1, <1>4 DEF KamailioTypes
  <2>5. \A x \in Destinations : Editing(o, x)' <=> x = d
    BY <2>1, <2>3 DEF Editing, Edits, Busy
  <2>6. failed' = failed /\ failed' \subseteq Destinations
    BY <1>1, <1>4 DEF KamailioTypes
  <2>7. ASSUME NEW x \in Destinations \ (failed' \cup crossed')
        PROVE  \/ ~Editing(o, x)' /\ (x \in table' <=> x \in table)
               \/ /\ Editing(o, x)' /\ \A p \in Operations : ~Editing(p, x)
                  /\ r.at = "asking" /\ (x \in table' <=> r.kind = "add")
    <3>1. CASE x = d
      BY <1>3, <2>1, <2>4, <2>5, <2>7, <3>1
    <3>2. CASE x # d
      BY <2>4, <2>5, <2>7, <3>2
    <3> QED BY <3>1, <3>2
  <2> QED BY <1>1, <1>2, <2>1, <2>2, <2>4, <2>6, <2>7, NewSettles
<1>5. CASE Goto(o, "done") /\ failed' = failed \cup {d} /\ UNCHANGED table
  <2> DEFINE r == [op[o] EXCEPT !.at = "done"]
  <2>1. r \in Operation /\ r.at = "done"
    BY <1>1 DEF Operation, OpPlaces
  <2>2. op' = [op EXCEPT ![o] = r]
    BY <1>5 DEF Goto
  <2> HIDE DEF r
  <2>3. op'[o] = r
    BY <1>1, <2>2 DEF KamailioTypes
  <2>4. \A x : ~Editing(o, x)'
    BY <2>1, <2>3 DEF Editing, Busy
  <2>5. /\ failed \subseteq failed' /\ failed' \subseteq Destinations
        /\ table' = table /\ table' \subseteq Destinations
    BY <1>1, <1>5 DEF KamailioTypes
  <2>6. \A x \in Destinations \ (failed' \cup crossed') :
          \/ ~Editing(o, x)' /\ (x \in table' <=> x \in table)
          \/ /\ Editing(o, x)' /\ \A p \in Operations : ~Editing(p, x)
             /\ r.at = "asking" /\ (x \in table' <=> r.kind = "add")
    BY <2>4, <2>5
  <2> QED BY <1>1, <1>2, <2>1, <2>2, <2>5, <2>6, NewSettles
<1> QED BY <1>1, <1>4, <1>5 DEF Changes

LEMMA AsksSound ==
  ASSUME KamailioInv, NEW o \in Operations, NEW d \in Destinations, NEW k \in {"reload", "check"},
         op[o].at = "new", Asks(o, k, d),
         UNCHANGED <<table, dispatcher, conn, line, failed, crossed>>
  PROVE  KamailioInv'
<1> DEFINE r == [at |-> "asking", kind |-> k, dest |-> d, opener |-> FALSE, on |-> 0]
<1>0. 0 \in 0 .. MaxConn
  <2>1. MaxConn \in Nat
    BY KamailioAssumption
  <2> QED BY <2>1, SMT
<1>1. r \in Operation /\ r.at = "asking" /\ r.kind = k
  BY <1>0 DEF Operation, OpPlaces, Kinds
<1>2. op' = [op EXCEPT ![o] = r]
  BY DEF Asks
<1> HIDE DEF r
<1>3. op'[o] = r
  BY <1>2 DEF KamailioInv, KamailioTypes
<1>4. \A x : ~Editing(o, x)'
  BY <1>1, <1>3 DEF Editing, Edits
<1>5. table' \subseteq Destinations /\ failed' \subseteq Destinations /\ crossed' \subseteq Destinations
      /\ failed' = failed /\ crossed' = crossed /\ table' = table
  BY DEF KamailioInv, KamailioTypes
<1>6. \A x \in Destinations \ (failed' \cup crossed') :
        \/ ~Editing(o, x)' /\ (x \in table' <=> x \in table)
        \/ /\ Editing(o, x)' /\ \A p \in Operations : ~Editing(p, x)
           /\ r.at = "asking" /\ (x \in table' <=> r.kind = "add")
  BY <1>4, <1>5
<1> QED BY <1>1, <1>2, <1>5, <1>6, NewSettles

LEMMA RestartSound == KamailioInv /\ Restart => KamailioInv'
<1> SUFFICES ASSUME KamailioInv, Restart PROVE KamailioInv'
  OBVIOUS
<1>1. /\ KamailioTypes /\ Replied /\ conn' = 0 /\ UNCHANGED <<table, dispatcher, crossed>>
      /\ failed' = failed \cup {d \in Destinations : \E o \in Operations : Editing(o, d)}
  BY DEF KamailioInv, Restart, Editing
<1>2. op' \in [Operations -> Operation] /\ \A o \in Operations : op'[o].at \in {"new", "done"}
  <2>1. ASSUME NEW o \in Operations
        PROVE  [op[o] EXCEPT !.at = IF op[o].at = "new" THEN "new" ELSE "done"] \in Operation
    <3>1. op[o] \in Operation
      BY <1>1 DEF KamailioTypes
    <3> QED BY <3>1 DEF Operation, OpPlaces
  <2>2. op' = [o \in Operations |-> [op[o] EXCEPT !.at = IF op[o].at = "new" THEN "new" ELSE "done"]]
    BY DEF Restart
  <2>3. \A o \in Operations : op'[o].at \in {"new", "done"}
    BY <1>1, <2>2 DEF KamailioTypes, Operation
  <2> QED BY <2>1, <2>2, <2>3
<1>3. line' \in [Conns -> Line]
  <2>1. \A l \in Line : [l EXCEPT !.is = "closed"] \in Line \/ l.is # "open"
    BY DEF Line
  <2>2. line' = [c \in Conns |-> IF line[c].is = "open" THEN [line[c] EXCEPT !.is = "closed"] ELSE line[c]]
    BY DEF Restart
  <2> QED BY <1>1, <2>1, <2>2 DEF KamailioTypes
<1>4. KamailioTypes'
  <2>1. conn' \in 0 .. MaxConn
    <3>1. MaxConn \in Nat /\ conn' = 0
      BY <1>1, KamailioAssumption
    <3> QED BY <3>1, SMT
  <2> QED BY <1>1, <1>2, <1>3, <2>1 DEF KamailioTypes
<1>5. Sent' = {}
  BY <1>2 DEF Sent
<1>6. Replied'
  BY <1>1, <1>5, FS_EmptySet DEF Replied
<1>7. \A o \in Operations : \A d : ~Editing(o, d)'
  BY <1>2 DEF Editing, Busy
<1>8. ASSUME NEW d \in Destinations \ (failed' \cup crossed') PROVE Settled(d)'
  <2>1. Settled(d) /\ \A o \in Operations : ~Editing(o, d)
    BY <1>1, <1>8 DEF KamailioInv
  <2> QED BY <1>1, <1>7, <2>1 DEF Settled
<1> QED BY <1>4, <1>6, <1>8 DEF KamailioInv

LEMMA KamailioUnchanged == KamailioInv /\ UNCHANGED kamailioVars => KamailioInv'
<1> SUFFICES ASSUME KamailioInv, UNCHANGED kamailioVars PROVE KamailioInv'
  OBVIOUS
<1>1. /\ op' = op /\ table' = table /\ dispatcher' = dispatcher /\ conn' = conn
      /\ line' = line /\ failed' = failed /\ crossed' = crossed
  BY DEF kamailioVars
<1>2. Sent' = Sent /\ Waiting' = Waiting
  BY <1>1 DEF Sent, Waiting
<1>3. \A d : Settled(d) => Settled(d)'
  BY <1>1 DEF Settled, Editing, Edits, Busy, Stranded, Dead
<1> QED BY <1>1, <1>2, <1>3 DEF KamailioInv, KamailioTypes, Replied

(* A 200 means that Kamailio has done what the table says, for any         *)
(* destinations, operations and connections.                               *)
THEOREM TablesAlwaysAgree == KamailioSpec => []TablesAgree
<1>1. ASSUME KamailioInv, [KamailioNext]_kamailioVars
      PROVE  KamailioInv'
  <2>1. CASE UNCHANGED kamailioVars
    BY <1>1, <2>1, KamailioUnchanged
  <2>2. CASE KamailioNext
    <3>1. ASSUME NEW o \in Operations, NEW d \in Destinations,
                 AddDestination(o, d) \/ RemoveDestination(o, d)
          PROVE  KamailioInv'
      BY <1>1, <3>1, ChangesSound DEF AddDestination, RemoveDestination
    <3>2. ASSUME NEW o \in Operations, NEW d \in Destinations, PerformHealthCheck(o, d)
          PROVE  KamailioInv'
      BY <1>1, <3>2, AsksSound DEF PerformHealthCheck
    <3>3. ASSUME NEW o \in Operations, ReloadDispatcher(o)
          PROVE  KamailioInv'
      BY <1>1, <3>3, AsksSound DEF ReloadDispatcher
    <3> QED BY <1>1, <2>2, <3>1, <3>2, <3>3, CheckSound, ConnectSound, FailsUnsent, WriteSound,
               StartReadingSound, ReadResponseSound, ReadFailsSound, RestartSound DEF KamailioNext
  <2> QED BY <1>1, <2>1, <2>2
<1> QED BY <1>1, KamailioInitSound, TablesAgreeOf, PTL DEF KamailioSpec

-----------------------------------------------------------------------------
(***************************************************************************)
(* Daily figures.  What a refresh has counted is no more than there is by  *)
(* the time it stores it, and the records never grow fewer.                *)
(***************************************************************************)
(* Figures that some of the day's records make. *)
Within(f, d) == f.ok + f.bad <= f.total /\ f.total <= Cardinality(Of(d))
DailyTypes ==
  /\ cdrRows \in [CdrIds -> CdrRow \cup {NoFigures}]
  /\ IsFiniteSet(Recorded)
  /\ daily \in [Days -> Figures \cup {NoFigures}]
  /\ refresher \in [Refreshers -> Counted \cup {NoFigures}]
  /\ overwritten \subseteq Days
  /\ reader \in [Readers -> [asks : {"nothing", "summary", "trend"}, first : Nat, since : Nat]]
DayAgrees(d) ==
  /\ d \notin overwritten => IF Of(d) = {} THEN daily[d] = NoFigures ELSE daily[d] = CountOf(d)
  /\ daily[d] # NoFigures => Within(daily[d], d)
RefresherSound(r) ==
  refresher[r] # NoFigures =>
    Of(refresher[r].day) # {} /\ Within(refresher[r].counted, refresher[r].day)
ReaderSound(q) == reader[q].asks = "summary" => Cardinality(Recorded) <= reader[q].first + reader[q].since
DailyInv ==
  /\ DailyTypes
  /\ \A d \in Days : DayAgrees(d)
  /\ \A r \in Refreshers : RefresherSound(r)
  /\ \A q \in Readers : ReaderSound(q)
  /\ SummarySound

LEMMA DailyInitSound == DailyInit => DailyInv
<1> SUFFICES ASSUME DailyInit PROVE DailyInv
  OBVIOUS
<1>1. Recorded = {} /\ \A d : Of(d) = {}
  BY DEF DailyInit, Recorded, Of
<1>2. DailyTypes
  BY <1>1, FS_EmptySet DEF DailyInit, DailyTypes, NotAsking
<1>3. \A d \in Days : DayAgrees(d)
  BY <1>1 DEF DailyInit, DayAgrees
<1>4. \A r \in Refreshers : RefresherSound(r)
  BY DEF DailyInit, RefresherSound
<1>5. \A q \in Readers : ReaderSound(q)
  BY DEF DailyInit, ReaderSound, NotAsking
<1>6. SummarySound
  BY DEF DailyInit, SummarySound
<1> QED BY <1>2, <1>3, <1>4, <1>5, <1>6 DEF DailyInv

LEMMA FiguresMatchOf == DailyInv => FiguresMatch
<1> SUFFICES ASSUME DailyInv PROVE FiguresMatch
  OBVIOUS
<1>1. GetDailyAnalytics = {}
  BY DEF DailyInv, DailyTypes, GetDailyAnalytics, Figures
<1>2. TrendDirection(summary.first, summary.second) \in {"up", "down", "stable"}
  BY DEF TrendDirection
<1>3. DailyTypeOK
  BY <1>1, <1>2 DEF DailyInv, DailyTypes, DailyTypeOK
<1>4. TotalsAgree
  BY DEF DailyInv, DayAgrees, Within, TotalsAgree
<1> QED BY <1>3, <1>4 DEF FiguresMatch, DailyInv

(* The counts of a set of records.                                         *)
LEMMA CountsSound ==
  ASSUME DailyTypes
  PROVE  /\ Cardinality(Recorded) \in Nat
         /\ Cardinality(Ok(Recorded)) \in Nat /\ Cardinality(Ok(Recorded)) <= Cardinality(Recorded)
         /\ \A d : /\ IsFiniteSet(Of(d)) /\ IsFiniteSet(Ok(Of(d))) /\ IsFiniteSet(Bad(Of(d)))
                   /\ CountOf(d) \in Figures /\ Within(CountOf(d), d)
<1>1. IsFiniteSet(Recorded) /\ Cardinality(Recorded) \in Nat
  BY FS_CardinalityType DEF DailyTypes
<1>2. Ok(Recorded) \subseteq Recorded
  BY DEF Ok
<1>3. Cardinality(Ok(Recorded)) \in Nat /\ Cardinality(Ok(Recorded)) <= Cardinality(Recorded)
  BY <1>1, <1>2, FS_Subset, FS_CardinalityType
<1>4. ASSUME NEW d
      PROVE  /\ IsFiniteSet(Of(d)) /\ IsFiniteSet(Ok(Of(d))) /\ IsFiniteSet(Bad(Of(d)))
             /\ CountOf(d) \in Figures /\ Within(CountOf(d), d)
  <2>1. Of(d) \subseteq Recorded /\ Ok(Of(d)) \subseteq Of(d) /\ Bad(Of(d)) \subseteq Of(d)
    BY DEF Of, Ok, Bad
  <2>2. IsFiniteSet(Of(d)) /\ Cardinality(Of(d)) \in Nat
    BY <1>1, <2>1, FS_Subset, FS_CardinalityType
  <2>3. IsFiniteSet(Ok(Of(d))) /\ Cardinality(Ok(Of(d))) \in Nat
    BY <2>1, <2>2, FS_Subset, FS_CardinalityType
  <2>4. IsFiniteSet(Bad(Of(d))) /\ Cardinality(Bad(Of(d))) \in Nat
    BY <2>1, <2>2, FS_Subset, FS_CardinalityType
  <2> DEFINE U == Ok(Of(d)) \cup Bad(Of(d))
  <2>5. U \subseteq Of(d)
    BY <2>1
  <2>6. Ok(Of(d)) \cap Bad(Of(d)) = {}
    BY DEF Ok, Bad
  <2>7. Cardinality(U) = Cardinality(Ok(Of(d))) + Cardinality(Bad(Of(d)))
    <3>1. Cardinality(U) = Cardinality(Ok(Of(d))) + Cardinality(Bad(Of(d))) - Cardinality(Ok(Of(d)) \cap Bad(Of(d)))
      BY <2>3, <2>4, FS_Union
    <3>2. Cardinality(Ok(Of(d)) \cap Bad(Of(d))) = 0
      BY <2>6, FS_EmptySet
    <3> QED BY <2>3, <2>4, <3>1, <3>2
  <2>8. Cardinality(U) <= Cardinality(Of(d))
    BY <2>2, <2>5, FS_Subset
  <2>9. CountOf(d) \in Figures
    BY <2>2, <2>3, <2>4 DEF CountOf, Figures
  <2>10. Within(CountOf(d), d)
    BY <2>2, <2>7, <2>8 DEF CountOf, Within
  <2> QED BY <2>2, <2>3, <2>4, <2>9, <2>10
<1> QED BY <1>1, <1>3, <1>4

-----------------------------------------------------------------------------
LEMMA AddedFields ==
  ASSUME NEW f \in Figures, NEW c
  PROVE  /\ Added(f, c) = [total |-> f.total + 1, ok |-> f.ok + (IF c = "NORMAL_CLEARING" THEN 1 ELSE 0),
                           bad |-> f.bad + (IF c = "USER_BUSY" THEN 1 ELSE 0), peak |-> "NULL"]
         /\ Added(f, c) \in Figures
<1> DEFINE a == IF c = "NORMAL_CLEARING" THEN 1 ELSE 0
           b == IF c = "USER_BUSY" THEN 1 ELSE 0
<1>1. Added(f, c) = [[[f EXCEPT !.total = f.total + 1] EXCEPT !.ok = f.ok + a] EXCEPT !.bad = f.bad + b]
  BY DEF Added, Figures
<1>2. a \in Nat /\ b \in Nat
  OBVIOUS
<1> HIDE DEF a, b
<1>3. Added(f, c) = [total |-> f.total + 1, ok |-> f.ok + a, bad |-> f.bad + b, peak |-> "NULL"]
  BY <1>1 DEF Figures
<1>4. f.total + 1 \in Nat /\ f.ok + a \in Nat /\ f.bad + b \in Nat
  BY <1>2 DEF Figures
<1>5. Added(f, c) \in Figures
  BY <1>3, <1>4 DEF Figures
<1> QED BY <1>3, <1>5 DEF a, b

(* The records stay, or one comes. *)
LEMMA InsertCounts ==
  ASSUME DailyTypes, NEW i \in CdrIds, NEW d \in Partitioned, NEW c \in Causes, cdrRows[i] = NoFigures,
         cdrRows' = [cdrRows EXCEPT ![i] = [day |-> d, cause |-> c]]
  PROVE  /\ cdrRows' \in [CdrIds -> CdrRow \cup {NoFigures}]
         /\ IsFiniteSet(Recorded') /\ Cardinality(Recorded') = Cardinality(Recorded) + 1
         /\ \A x : x # d => CountOf(x)' = CountOf(x) /\ Of(x)' = Of(x)
         /\ Of(d)' # {} /\ CountOf(d)' = Added(CountOf(d), c)
<1> DEFINE row == [day |-> d, cause |-> c]
<1>1. row \in CdrRow /\ row # NoFigures /\ row.day = d /\ row.cause = c
  BY NoFiguresAssumption DEF CdrRow
<1>2. cdrRows' = [cdrRows EXCEPT ![i] = row]
  OBVIOUS
<1> HIDE DEF row
<1>3. /\ cdrRows' \in [CdrIds -> CdrRow \cup {NoFigures}] /\ cdrRows'[i] = row
      /\ \A j \in CdrIds : j # i => cdrRows'[j] = cdrRows[j]
  BY <1>1, <1>2 DEF DailyTypes
<1>4. Recorded' = Recorded \cup {i} /\ i \notin Recorded
  BY <1>1, <1>3 DEF Recorded
<1>5. IsFiniteSet(Recorded') /\ Cardinality(Recorded') = Cardinality(Recorded) + 1
  BY <1>4, FS_AddElement DEF DailyTypes
<1>6. ASSUME NEW x, x # d PROVE CountOf(x)' = CountOf(x) /\ Of(x)' = Of(x)
  <2>1. Of(x)' = Of(x) /\ \A j \in Of(x) : j # i /\ j \in CdrIds
    BY <1>1, <1>3, <1>4, <1>6 DEF Of, Recorded
  <2>2. Ok(Of(x))' = Ok(Of(x)) /\ Bad(Of(x))' = Bad(Of(x))
    BY <1>3, <2>1 DEF Ok, Bad
  <2> QED BY <2>1, <2>2 DEF CountOf
<1>7. Of(d)' = Of(d) \cup {i} /\ i \notin Of(d) /\ Of(d) \subseteq CdrIds
  BY <1>1, <1>3, <1>4 DEF Of, Recorded
<1>8. /\ Ok(Of(d))' = IF c = "NORMAL_CLEARING" THEN Ok(Of(d)) \cup {i} ELSE Ok(Of(d))
      /\ Bad(Of(d))' = IF c = "USER_BUSY" THEN Bad(Of(d)) \cup {i} ELSE Bad(Of(d))
      /\ i \notin Ok(Of(d)) /\ i \notin Bad(Of(d))
  BY <1>1, <1>3, <1>7 DEF Ok, Bad
<1>9. /\ IsFiniteSet(Of(d)) /\ IsFiniteSet(Ok(Of(d))) /\ IsFiniteSet(Bad(Of(d)))
      /\ Cardinality(Ok(Of(d))) \in Nat /\ Cardinality(Bad(Of(d))) \in Nat
  BY CountsSound, FS_CardinalityType
<1>10. /\ Cardinality(Of(d)') = Cardinality(Of(d)) + 1
       /\ Cardinality(Ok(Of(d))') = Cardinality(Ok(Of(d))) + IF c = "NORMAL_CLEARING" THEN 1 ELSE 0
       /\ Cardinality(Bad(Of(d))') = Cardinality(Bad(Of(d))) + IF c = "USER_BUSY" THEN 1 ELSE 0
  <2>1. Cardinality(Of(d)') = Cardinality(Of(d)) + 1
    BY <1>7, <1>9, FS_AddElement
  <2>2. Cardinality(Ok(Of(d))') = Cardinality(Ok(Of(d))) + IF c = "NORMAL_CLEARING" THEN 1 ELSE 0
    <3>1. CASE c = "NORMAL_CLEARING"
      <4>1. Cardinality(Ok(Of(d))') = Cardinality(Ok(Of(d))) + 1
        BY <1>8, <1>9, <3>1, FS_AddElement
      <4> QED BY <3>1, <4>1
    <3>2. CASE c # "NORMAL_CLEARING"
      BY <1>8, <1>9, <3>2
    <3> QED BY <3>1, <3>2
  <2>3. Cardinality(Bad(Of(d))') = Cardinality(Bad(Of(d))) + IF c = "USER_BUSY" THEN 1 ELSE 0
    <3>1. CASE c = "USER_BUSY"
      <4>1. Cardinality(Bad(Of(d))') = Cardinality(Bad(Of(d))) + 1
        BY <1>8, <1>9, <3>1, FS_AddElement
      <4> QED BY <3>1, <4>1
    <3>2. CASE c # "USER_BUSY"
      BY <1>8, <1>9, <3>2
    <3> QED BY <3>1, <3>2
  <2> QED BY <2>1, <2>2, <2>3
<1>11. CountOf(d)' = Added(CountOf(d), c)
  <2>1. CountOf(d) \in Figures
    BY CountsSound
  <2>2. Added(CountOf(d), c) = [total |-> CountOf(d).total + 1,
                                ok |-> CountOf(d).ok + (IF c = "NORMAL_CLEARING" THEN 1 ELSE 0),
                                bad |-> CountOf(d).bad + (IF c = "USER_BUSY" THEN 1 ELSE 0), peak |-> "NULL"]
    BY <2>1, AddedFields
  <2>3. /\ CountOf(d).total = Cardinality(Of(d)) /\ CountOf(d).ok = Cardinality(Ok(Of(d)))
        /\ CountOf(d).bad = Cardinality(Bad(Of(d)))
    BY DEF CountOf
  <2>4. CountOf(d)' = [total |-> Cardinality(Of(d)'), ok |-> Cardinality(Ok(Of(d))'),
                       bad |-> Cardinality(Bad(Of(d))'), peak |-> "NULL"]
    BY DEF CountOf
  <2> QED BY <1>10, <2>2, <2>3, <2>4
<1> QED BY <1>3, <1>5, <1>6, <1>7, <1>11

LEMMA RecordInsertSound ==
  ASSUME DailyInv, NEW i \in CdrIds, NEW d \in Days, NEW c \in Causes, InsertRecord(i, d, c)
  PROVE  DailyInv'
<1> DEFINE none == [total |-> 0, ok |-> 0, bad |-> 0, peak |-> "NULL"]
           f == IF daily[d] = NoFigures THEN none ELSE daily[d]
<1>1. /\ DailyTypes /\ d \in Partitioned /\ cdrRows[i] = NoFigures
      /\ cdrRows' = [cdrRows EXCEPT ![i] = [day |-> d, cause |-> c]]
      /\ daily' = [daily EXCEPT ![d] = Added(f, c)]
      /\ refresher' = refresher /\ overwritten' = overwritten /\ summary' = summary
  BY DEF DailyInv, InsertRecord
<1>2. /\ cdrRows' \in [CdrIds -> CdrRow \cup {NoFigures}]
      /\ IsFiniteSet(Recorded') /\ Cardinality(Recorded') = Cardinality(Recorded) + 1
      /\ \A x : x # d => CountOf(x)' = CountOf(x) /\ Of(x)' = Of(x)
      /\ Of(d)' # {} /\ CountOf(d)' = Added(CountOf(d), c)
  BY <1>1, InsertCounts
<1>3. none \in Figures /\ f \in Figures
  BY <1>1 DEF DailyTypes, Figures
<1>4. Added(f, c) \in Figures
  BY <1>3, AddedFields
<1>5. Cardinality(Recorded) \in Nat /\ \A x : CountOf(x) \in Figures /\ Within(CountOf(x), x)
  BY <1>1, CountsSound
<1>6. /\ daily' \in [Days -> Figures \cup {NoFigures}] /\ daily'[d] = Added(f, c)
      /\ \A x \in Days : x # d => daily'[x] = daily[x]
  BY <1>1, <1>4 DEF DailyTypes
<1>7. \A q \in Readers :
        \/ reader'[q] = reader[q] /\ reader[q] = NotAsking
        \/ reader'[q] = [reader[q] EXCEPT !.since = reader[q].since + 1]
  BY DEF InsertRecord
<1>8. reader' \in [Readers -> [asks : {"nothing", "summary", "trend"}, first : Nat, since : Nat]]
  <2>1. \A q \in Readers : reader'[q] \in [asks : {"nothing", "summary", "trend"}, first : Nat, since : Nat]
    <3>1. ASSUME NEW q \in Readers PROVE reader'[q] \in [asks : {"nothing", "summary", "trend"}, first : Nat, since : Nat]
      <4>1. reader[q] \in [asks : {"nothing", "summary", "trend"}, first : Nat, since : Nat]
        BY <1>1 DEF DailyTypes
      <4>2. reader[q].since + 1 \in Nat
        BY <4>1
      <4>3. [reader[q] EXCEPT !.since = reader[q].since + 1]
              \in [asks : {"nothing", "summary", "trend"}, first : Nat, since : Nat]
        BY <4>1, <4>2
      <4> QED BY <1>7, <4>1, <4>3
    <3> QED BY <3>1
  <2>2. reader' = [q \in Readers |-> reader'[q]]
    BY DEF InsertRecord
  <2> QED BY <2>1, <2>2
<1>9. DailyTypes'
  BY <1>1, <1>2, <1>6, <1>8 DEF DailyTypes
<1>13. Cardinality(Of(d)) \in Nat /\ Cardinality(Of(d)') = Cardinality(Of(d)) + 1
  <2>1. CountOf(d).total = Cardinality(Of(d)) /\ CountOf(d)'.total = Cardinality(Of(d)')
    BY DEF CountOf
  <2>2. CountOf(d)'.total = CountOf(d).total + 1 /\ CountOf(d).total \in Nat
    <3>1. CountOf(d)' = [total |-> CountOf(d).total + 1,
                         ok |-> CountOf(d).ok + (IF c = "NORMAL_CLEARING" THEN 1 ELSE 0),
                         bad |-> CountOf(d).bad + (IF c = "USER_BUSY" THEN 1 ELSE 0), peak |-> "NULL"]
      BY <1>2, <1>5, AddedFields
    <3>2. CountOf(d).total \in Nat
      BY <1>5 DEF Figures
    <3> QED BY <3>1, <3>2
  <2> QED BY <2>1, <2>2
<1>10. ASSUME NEW x \in Days PROVE DayAgrees(x)'
  <2>1. CASE x # d
    BY <1>1, <1>2, <1>6, <2>1 DEF DailyInv, DayAgrees, Within, CountOf
  <2>2. CASE x = d
    <3>1. Within(f, d) \/ f = none
      BY DEF DailyInv, DayAgrees
    <3>2. Cardinality(Of(d)) \in Nat /\ Cardinality(Of(d)') = Cardinality(Of(d)) + 1
      BY <1>13
    <3>3. f.ok + f.bad <= f.total /\ f.total <= Cardinality(Of(d))
      BY <3>1, <3>2 DEF Within
    <3>4. /\ Added(f, c).ok + Added(f, c).bad <= Added(f, c).total
          /\ Added(f, c).total <= Cardinality(Of(d)')
      <4>1. Added(f, c) = [total |-> f.total + 1, ok |-> f.ok + (IF c = "NORMAL_CLEARING" THEN 1 ELSE 0),
                           bad |-> f.bad + (IF c = "USER_BUSY" THEN 1 ELSE 0), peak |-> "NULL"]
        BY <1>3, AddedFields
      <4>2. f.ok \in Nat /\ f.bad \in Nat /\ f.total \in Nat
        BY <1>3 DEF Figures
      <4>3. /\ Added(f, c).total = f.total + 1
            /\ Added(f, c).ok + Added(f, c).bad <= f.ok + f.bad + 1
        <5> HIDE DEF f
        <5>1. Added(f, c).total = f.total + 1
          BY <4>1
        <5>2. \/ Added(f, c).ok = f.ok + 1 /\ Added(f, c).bad = f.bad
              \/ Added(f, c).ok = f.ok /\ Added(f, c).bad = f.bad + 1
              \/ Added(f, c).ok = f.ok /\ Added(f, c).bad = f.bad
          BY <4>1, <4>2
        <5> QED BY <4>2, <5>1, <5>2
      <4>4. Added(f, c).ok + Added(f, c).bad <= f.total + 1 /\ f.total + 1 <= Cardinality(Of(d)')
        <5> HIDE DEF f
        <5>1. Added(f, c).ok \in Nat /\ Added(f, c).bad \in Nat
          BY <1>4 DEF Figures
        <5>2. f.total + 1 <= Cardinality(Of(d)')
          BY <3>2, <3>3, <4>2
        <5>3. Added(f, c).ok + Added(f, c).bad <= f.total + 1
          BY <3>3, <4>2, <4>3, <5>1
        <5> QED BY <5>2, <5>3
      <4> QED BY <4>3, <4>4
    <3>5. d \notin overwritten => daily'[d] = CountOf(d)'
      <4>1. CASE Of(d) = {}
        <5>1. CountOf(d) = none
          <6>1. Ok(Of(d)) = {} /\ Bad(Of(d)) = {}
            BY <4>1 DEF Ok, Bad
          <6> QED BY <4>1, <6>1, FS_EmptySet DEF CountOf
        <5>2. d \notin overwritten => f = none
          BY <4>1 DEF DailyInv, DayAgrees
        <5> QED BY <1>2, <1>6, <5>1, <5>2
      <4>2. CASE Of(d) # {}
        <5>1. d \notin overwritten => daily[d] = CountOf(d)
          BY <4>2 DEF DailyInv, DayAgrees
        <5>2. CountOf(d) # NoFigures
          BY <1>5, NoFiguresAssumption
        <5> QED BY <1>2, <1>6, <5>1, <5>2
      <4> QED BY <4>1, <4>2
    <3>6. daily'[d] = Added(f, c) /\ overwritten' = overwritten /\ Of(d)' # {}
      BY <1>1, <1>2, <1>6
    <3>7. daily'[d].ok + daily'[d].bad <= daily'[d].total /\ daily'[d].total <= Cardinality(Of(d)')
      BY <3>4, <3>6
    <3> QED BY <2>2, <3>5, <3>6, <3>7 DEF DayAgrees, Within
  <2> QED BY <2>1, <2>2
<1>11. ASSUME NEW r \in Refreshers PROVE RefresherSound(r)'
  <2> SUFFICES ASSUME refresher[r] # NoFigures
               PROVE  Of(refresher[r].day)' # {} /\ Within(refresher[r].counted, refresher[r].day)'
    BY <1>1 DEF RefresherSound, Within
  <2>1. Of(refresher[r].day) # {} /\ Within(refresher[r].counted, refresher[r].day)
    BY DEF DailyInv, RefresherSound
  <2>2. CASE refresher[r].day # d
    BY <1>1, <1>2, <2>1, <2>2 DEF Within
  <2>3. CASE refresher[r].day = d
    <3>1. Cardinality(Of(d)) \in Nat /\ Cardinality(Of(d)') = Cardinality(Of(d)) + 1
      BY <1>13
    <3>2. refresher[r].counted.total \in Nat /\ refresher' = refresher
      BY <1>1 DEF DailyTypes, Counted, Figures
    <3> QED BY <1>2, <2>1, <2>3, <3>1, <3>2 DEF Within
  <2> QED BY <2>2, <2>3
<1>12. ASSUME NEW q \in Readers PROVE ReaderSound(q)'
  <2>1. CASE reader'[q] = NotAsking
    BY <2>1 DEF ReaderSound, NotAsking
  <2>2. CASE reader'[q] = [reader[q] EXCEPT !.since = reader[q].since + 1]
    <3>1. reader[q] \in [asks : {"nothing", "summary", "trend"}, first : Nat, since : Nat]
      BY <1>1 DEF DailyTypes
    <3>2. reader'[q].asks = reader[q].asks /\ reader'[q].first = reader[q].first
          /\ reader'[q].since = reader[q].since + 1
      BY <2>2, <3>1
    <3>3. reader[q].first \in Nat /\ reader[q].since \in Nat
      BY <3>1
    <3>4. ReaderSound(q)
      BY DEF DailyInv
    <3> QED BY <1>2, <1>5, <3>2, <3>3, <3>4 DEF ReaderSound
  <2> QED BY <1>7, <2>1, <2>2
<1>14. SummarySound'
  BY <1>1 DEF DailyInv, SummarySound
<1> QED BY <1>9, <1>10, <1>11, <1>12, <1>14 DEF DailyInv

(* A refresh counts, and stores what it counted.                           *)
LEMMA RefreshCountsSound ==
  ASSUME DailyInv, NEW r \in Refreshers, NEW d \in Days, RefreshCounts(r, d)
  PROVE  DailyInv'
<1> DEFINE new == [day |-> d, counted |-> CountOf(d)]
<1>1. /\ DailyTypes /\ Of(d) # {} /\ refresher' = [refresher EXCEPT ![r] = new]
      /\ UNCHANGED <<cdrRows, daily, overwritten, reader, summary>>
  BY DEF DailyInv, RefreshCounts
<1>2. CountOf(d) \in Figures /\ Within(CountOf(d), d)
  BY <1>1, CountsSound
<1>3. new \in Counted /\ new.day = d /\ new.counted = CountOf(d)
  BY <1>2 DEF Counted
<1> HIDE DEF new
<1>4. /\ refresher' \in [Refreshers -> Counted \cup {NoFigures}] /\ refresher'[r] = new
      /\ \A s \in Refreshers : s # r => refresher'[s] = refresher[s]
  BY <1>1, <1>3 DEF DailyTypes
<1>5. Recorded' = Recorded /\ \A x : Of(x)' = Of(x) /\ CountOf(x)' = CountOf(x)
  BY <1>1 DEF Recorded, Of, CountOf, Ok, Bad
<1>6. DailyTypes'
  BY <1>1, <1>4, <1>5 DEF DailyTypes
<1>7. \A x \in Days : DayAgrees(x)'
  BY <1>1, <1>5 DEF DailyInv, DayAgrees, Within
<1>8. ASSUME NEW s \in Refreshers PROVE RefresherSound(s)'
  <2>1. CASE s = r
    BY <1>1, <1>2, <1>3, <1>4, <1>5, <2>1 DEF RefresherSound, Within
  <2>2. CASE s # r
    BY <1>4, <1>5, <2>2 DEF DailyInv, RefresherSound, Within
  <2> QED BY <2>1, <2>2
<1>9. (\A q \in Readers : ReaderSound(q)') /\ SummarySound'
  BY <1>1, <1>5 DEF DailyInv, ReaderSound, SummarySound
<1> QED BY <1>6, <1>7, <1>8, <1>9 DEF DailyInv

LEMMA RefreshStoresSound ==
  ASSUME DailyInv, NEW r \in Refreshers, RefreshStores(r)
  PROVE  DailyInv'
<1> DEFINE d == refresher[r].day
           f == refresher[r].counted
<1>1. /\ DailyTypes /\ refresher[r] # NoFigures
      /\ daily' = [daily EXCEPT ![d] = f]
      /\ overwritten' = IF f = CountOf(d) THEN overwritten \ {d} ELSE overwritten \cup {d}
      /\ refresher' = [refresher EXCEPT ![r] = NoFigures]
      /\ UNCHANGED <<cdrRows, reader, summary>>
  BY DEF DailyInv, RefreshStores
<1>2. d \in Days /\ f \in Figures /\ Of(d) # {} /\ Within(f, d)
  BY <1>1 DEF DailyInv, DailyTypes, Counted, RefresherSound
<1> HIDE DEF d, f
<1>3. /\ daily' \in [Days -> Figures \cup {NoFigures}] /\ daily'[d] = f
      /\ \A x \in Days : x # d => daily'[x] = daily[x]
      /\ refresher' \in [Refreshers -> Counted \cup {NoFigures}] /\ refresher'[r] = NoFigures
      /\ \A s \in Refreshers : s # r => refresher'[s] = refresher[s]
  BY <1>1, <1>2 DEF DailyTypes
<1>4. Recorded' = Recorded /\ \A x : Of(x)' = Of(x) /\ CountOf(x)' = CountOf(x)
  BY <1>1 DEF Recorded, Of, CountOf, Ok, Bad
<1>5. DailyTypes'
  BY <1>1, <1>2, <1>3, <1>4 DEF DailyTypes
<1>6. ASSUME NEW x \in Days PROVE DayAgrees(x)'
  <2>1. x \notin overwritten' => x = d \/ x \notin overwritten
    BY <1>1
  <2>2. x = d /\ x \notin overwritten' => f = CountOf(d)
    BY <1>1
  <2>3. DayAgrees(x)
    BY DEF DailyInv
  <2>4. CASE x = d
    BY <1>2, <1>3, <1>4, <2>2, <2>4 DEF DayAgrees, Within
  <2>5. CASE x # d
    BY <1>3, <1>4, <2>1, <2>3, <2>5 DEF DayAgrees, Within
  <2> QED BY <2>4, <2>5
<1>7. \A s \in Refreshers : RefresherSound(s)'
  BY <1>3, <1>4 DEF DailyInv, RefresherSound, Within
<1>8. (\A q \in Readers : ReaderSound(q)') /\ SummarySound'
  BY <1>1, <1>4 DEF DailyInv, ReaderSound, SummarySound
<1> QED BY <1>5, <1>6, <1>7, <1>8 DEF DailyInv

(* The engine's reads, which change none of the tables.                    *)
LEMMA EngineReadSound ==
  ASSUME DailyInv, UNCHANGED dailyTables,
         reader' \in [Readers -> [asks : {"nothing", "summary", "trend"}, first : Nat, since : Nat]],
         \A q \in Readers : ReaderSound(q)', SummarySound'
  PROVE  DailyInv'
<1>1. cdrRows' = cdrRows /\ daily' = daily /\ refresher' = refresher /\ overwritten' = overwritten
  BY DEF dailyTables
<1>2. Recorded' = Recorded /\ \A x : Of(x)' = Of(x) /\ CountOf(x)' = CountOf(x)
  BY <1>1 DEF Recorded, Of, CountOf, Ok, Bad
<1> QED BY <1>1, <1>2 DEF DailyInv, DailyTypes, DayAgrees, RefresherSound, Within

LEMMA AskSound ==
  ASSUME DailyInv, NEW q \in Readers,
         SummaryTotal(q) \/ TrendCurrent(q) \/ SummarySuccesses(q) \/ TrendPrevious(q)
  PROVE  DailyInv'
<1> DEFINE Asked == [asks : {"nothing", "summary", "trend"}, first : Nat, since : Nat]
<1>1. DailyTypes /\ UNCHANGED dailyTables /\ reader \in [Readers -> Asked]
  BY DEF DailyInv, DailyTypes, SummaryTotal, TrendCurrent, SummarySuccesses, TrendPrevious
<1>2. /\ Cardinality(Recorded) \in Nat /\ Cardinality(Ok(Recorded)) \in Nat
      /\ Cardinality(Ok(Recorded)) <= Cardinality(Recorded) /\ Cardinality(Of(Today)) \in Nat
  BY <1>1, CountsSound, FS_CardinalityType
<1>3. Recorded' = Recorded
  BY <1>1 DEF Recorded, dailyTables
<1>4. PICK a \in Asked : /\ reader' = [reader EXCEPT ![q] = a]
                         /\ a.asks = "summary" => a.first = Cardinality(Recorded) /\ a.since = 0
  <2>1. CASE SummaryTotal(q)
    <3> DEFINE a == [asks |-> "summary", first |-> Cardinality(Recorded), since |-> 0]
    <3>1. a \in Asked /\ a.first = Cardinality(Recorded) /\ a.since = 0 /\ reader' = [reader EXCEPT ![q] = a]
      BY <1>2, <2>1 DEF SummaryTotal
    <3> QED BY <3>1
  <2>2. CASE TrendCurrent(q)
    <3> DEFINE a == [asks |-> "trend", first |-> Cardinality(Of(Today)), since |-> 0]
    <3>1. a \in Asked /\ a.asks # "summary" /\ reader' = [reader EXCEPT ![q] = a]
      BY <1>2, <2>2 DEF TrendCurrent
    <3> QED BY <3>1
  <2>3. CASE SummarySuccesses(q) \/ TrendPrevious(q)
    <3>1. NotAsking \in Asked /\ NotAsking.asks # "summary" /\ reader' = [reader EXCEPT ![q] = NotAsking]
      BY <2>3 DEF SummarySuccesses, TrendPrevious, NotAsking
    <3> QED BY <3>1
  <2> QED BY <2>1, <2>2, <2>3
<1>5. /\ reader' \in [Readers -> Asked] /\ reader'[q] = a
      /\ \A p \in Readers : p # q => reader'[p] = reader[p]
  <2> HIDE DEF Asked
  <2> QED BY <1>1, <1>4
<1>6. ASSUME NEW p \in Readers PROVE ReaderSound(p)'
  <2>1. CASE p = q
    <3>1. a.asks = "summary" => Cardinality(Recorded) <= a.first + a.since
      BY <1>2, <1>4
    <3> QED BY <1>3, <1>5, <2>1, <3>1 DEF ReaderSound
  <2>2. CASE p # q
    BY <1>3, <1>5, <2>2 DEF DailyInv, ReaderSound
  <2> QED BY <2>1, <2>2
<1>7. SummarySound'
  <2>1. CASE SummaryTotal(q) \/ TrendCurrent(q)
    BY <2>1 DEF DailyInv, SummarySound, SummaryTotal, TrendCurrent
  <2>2. CASE TrendPrevious(q)
    BY <2>2 DEF SummarySound, TrendPrevious
  <2>3. CASE SummarySuccesses(q)
    <3>1. reader[q] \in Asked /\ Cardinality(Recorded) <= reader[q].first + reader[q].since
      BY <1>1, <2>3 DEF DailyInv, ReaderSound, SummarySuccesses
    <3>2. summary'.first = reader[q].first /\ summary'.second = Cardinality(Ok(Recorded))
          /\ summary'.since = reader[q].since
      BY <2>3 DEF SummarySuccesses
    <3> QED BY <1>2, <3>1, <3>2 DEF SummarySound
  <2> QED BY <2>1, <2>2, <2>3
<1> QED BY <1>1, <1>5, <1>6, <1>7, EngineReadSound

(* A day's figures are those of its records, or too low for as long as a   *)
(* refresh was overtaken, for any days, records, refreshes and readers.    *)
THEOREM FiguresAlwaysMatch == DailySpec => []FiguresMatch
<1>1. ASSUME DailyInv, [DailyNext]_dailyVars
      PROVE  DailyInv'
  <2>1. CASE UNCHANGED dailyVars
    <3>1. UNCHANGED dailyTables /\ reader' = reader /\ summary' = summary
      BY <2>1 DEF dailyVars
    <3>2. Recorded' = Recorded
      BY <3>1 DEF dailyTables, Recorded
    <3>3. (\A q \in Readers : ReaderSound(q)') /\ SummarySound'
      BY <1>1, <3>1, <3>2 DEF DailyInv, ReaderSound, SummarySound
    <3>4. reader' \in [Readers -> [asks : {"nothing", "summary", "trend"}, first : Nat, since : Nat]]
      BY <1>1, <3>1 DEF DailyInv, DailyTypes
    <3> QED BY <1>1, <3>1, <3>3, <3>4, EngineReadSound
  <2> QED BY <1>1, <2>1, RecordInsertSound, RefreshCountsSound, RefreshStoresSound, AskSound DEF DailyNext
<1> QED BY <1>1, DailyInitSound, FiguresMatchOf, PTL DEF DailySpec

-----------------------------------------------------------------------------
(***************************************************************************)
(* Listeners.  What the table has under a number is the listener that was  *)
(* given it last, still live (TableSound); one that had its key to itself  *)
(* is there.  So an event starts it once, and the service's goroutine is   *)
(* there until the record is, or saving it failed.                         *)
(***************************************************************************)
Holder == [at : {"none", "live", "left"}, key : Keys, number : Number]
HangupEvent == {x \in [came : BOOLEAN, call : Ids \cup {NoId}, app : Ids \cup {NoId}] : x.came = TRUE => x.call \in Ids}
ListenerTypes ==
  /\ held \in [Listeners -> Holder]
  /\ contested \subseteq Keys
  /\ service \in {"new", "enabling", "listening", "failed", "gone"}
  /\ event \in [Events -> HangupEvent]
  /\ due \in [Events -> SUBSET Listeners]
  /\ running \in [Listeners -> [Events -> Nat]] /\ calls \in [Listeners -> [Events -> Nat]]
  /\ cdr \in [Ids -> Events \cup {NoId}] /\ unsaved \subseteq Events
TableTypes ==
  /\ IsFiniteSet(DOMAIN listeners) /\ DOMAIN listeners \subseteq Keys
  /\ \A k \in DOMAIN listeners : DOMAIN listeners[k] \subseteq Number
EntrySound(k, n) == listeners[k][n] \in Listeners
                    /\ held[listeners[k][n]] = [at |-> "live", key |-> k, number |-> n]
HolderSound(l) ==
  held[l].at = "live" /\ held[l].key \notin contested =>
    /\ held[l].key \in DOMAIN listeners /\ held[l].number \in DOMAIN listeners[held[l].key]
    /\ listeners[held[l].key][held[l].number] = l
    /\ \A m \in Listeners : held[m].at = "live" /\ held[m].key = held[l].key => m = l
TableSound ==
  /\ TableTypes
  /\ \A k \in DOMAIN listeners : \A n \in DOMAIN listeners[k] : EntrySound(k, n)
  /\ \A l \in Listeners : HolderSound(l)
  /\ held[Service].key = All
CallSound(l, e) ==
  /\ l \in due[e] => held[l].at # "none" /\ event[e].came = TRUE
  /\ l \in due[e] /\ held[l].key \notin contested /\ event[e].call # event[e].app => calls[l][e] = 1
  /\ calls[l][e] > 0 => l \in due[e]
  /\ running[l][e] <= calls[l][e]
ListenersInv ==
  /\ ListenerTypes /\ TableSound
  /\ \A l \in Listeners, e \in Events : CallSound(l, e)
  /\ HangupsRecorded

LEMMA ListenersInitSound == EslListenersInit => ListenersInv
<1> SUFFICES ASSUME EslListenersInit PROVE ListenersInv
  OBVIOUS
<1>1. 1 \in Number /\ All \in Keys
  BY DEF Number, Keys
<1>2. ListenerTypes
  BY <1>1 DEF EslListenersInit, ListenerTypes, Holder, HangupEvent, Unheld
<1>3. DOMAIN listeners = {}
  BY DEF EslListenersInit
<1>4. TableSound
  BY <1>3, FS_EmptySet, ListenersAssumption DEF EslListenersInit, TableSound, TableTypes, HolderSound, Unheld
<1>5. \A l \in Listeners, e \in Events : CallSound(l, e)
  BY DEF EslListenersInit, CallSound
<1>6. HangupsRecorded
  BY DEF EslListenersInit, HangupsRecorded
<1> QED BY <1>2, <1>4, <1>5, <1>6 DEF ListenersInv

LEMMA EventsReachOf == ListenersInv => EventsReachListeners
<1> SUFFICES ASSUME ListenersInv PROVE EventsReachListeners
  OBVIOUS
<1>1. \A l \in Listeners, e \in Events : running[l][e] \in 0 .. calls[l][e]
  BY DEF ListenersInv, ListenerTypes, CallSound
<1>2. EslListenersTypeOK
  BY <1>1 DEF ListenersInv, ListenerTypes, TableSound, TableTypes, EslListenersTypeOK, Holder
<1>3. ListenersCalled
  BY DEF ListenersInv, CallSound, ListenersCalled
<1> QED BY <1>2, <1>3 DEF EventsReachListeners, ListenersInv

-----------------------------------------------------------------------------
(* What a step may do to the owners of listeners.                          *)
HoldersKept ==
  /\ contested \subseteq contested'
  /\ \A l \in Listeners : held[l].at # "none" => held'[l].at # "none" /\ held'[l].key = held[l].key

LEMMA RegisterSound ==
  ASSUME ListenerTypes, TableSound, NEW l \in Listeners, NEW k \in Keys, l = Service => k = All,
         RegisterEventListener(l, k)
  PROVE  /\ TableSound' /\ HoldersKept
         /\ held' \in [Listeners -> Holder] /\ contested' \subseteq Keys
<1> DEFINE number == Cardinality(DOMAIN listeners) + 1
           under == IF k \in DOMAIN listeners THEN listeners[k] ELSE NoListener
           row == Put(under, number, l)
           h == [at |-> "live", key |-> k, number |-> number]
<1>1. /\ held[l].at = "none" /\ listeners' = Put(listeners, k, row)
      /\ held' = [held EXCEPT ![l] = h]
      /\ contested' = IF Registered(k) = {} THEN contested ELSE contested \cup {k}
  BY DEF RegisterEventListener
<1>2. number \in Number
  <2>1. Cardinality(DOMAIN listeners) \in Nat
    BY FS_CardinalityType DEF TableSound, TableTypes
  <2> QED BY <2>1 DEF Number
<1>3. /\ DOMAIN listeners' = DOMAIN listeners \cup {k} /\ listeners'[k] = row
      /\ \A j \in DOMAIN listeners : j # k => listeners'[j] = listeners[j]
  BY <1>1 DEF Put
<1>4. /\ DOMAIN row = DOMAIN under \cup {number} /\ row[number] = l
      /\ \A n \in DOMAIN under : n # number => row[n] = under[n]
  BY DEF Put
<1>5. \A n \in DOMAIN under : k \in DOMAIN listeners /\ n \in DOMAIN listeners[k] /\ under[n] = listeners[k][n]
  BY DEF NoListener
<1>6. h \in Holder /\ h.at = "live" /\ h.key = k /\ h.number = number
  BY <1>2 DEF Holder
<1> HIDE DEF h, row, under, number
<1>7. /\ held' \in [Listeners -> Holder] /\ held'[l] = h
      /\ \A m \in Listeners : m # l => held'[m] = held[m]
  BY <1>1, <1>6 DEF ListenerTypes
<1>8. contested' \subseteq Keys /\ contested \subseteq contested'
  BY <1>1 DEF ListenerTypes
<1>9. TableTypes'
  <2>1. IsFiniteSet(DOMAIN listeners') /\ DOMAIN listeners' \subseteq Keys
    BY <1>3, FS_AddElement DEF TableSound, TableTypes
  <2>2. DOMAIN row \subseteq Number
    BY <1>2, <1>4, <1>5 DEF TableSound, TableTypes
  <2> QED BY <1>3, <2>1, <2>2 DEF TableSound, TableTypes
<1>10. ASSUME NEW j \in DOMAIN listeners', NEW n \in DOMAIN listeners'[j] PROVE EntrySound(j, n)'
  <2>1. CASE j = k /\ n = number
    <3>1. listeners'[j][n] = l
      BY <1>3, <1>4, <2>1
    <3> QED BY <1>7, <2>1, <3>1 DEF EntrySound, h
  <2>2. CASE ~(j = k /\ n = number)
    <3>1. j \in DOMAIN listeners /\ n \in DOMAIN listeners[j] /\ listeners'[j][n] = listeners[j][n]
      BY <1>3, <1>4, <1>5, <1>10, <2>2
    <3>2. EntrySound(j, n)
      BY <3>1 DEF TableSound
    <3>3. listeners[j][n] # l
      BY <1>1, <3>2 DEF EntrySound
    <3> QED BY <1>7, <3>1, <3>2, <3>3 DEF EntrySound
  <2> QED BY <2>1, <2>2
<1>11. ASSUME NEW m \in Listeners, held'[m].at = "live", held'[m].key \notin contested'
       PROVE  /\ held'[m].key \in DOMAIN listeners' /\ held'[m].number \in DOMAIN listeners'[held'[m].key]
              /\ listeners'[held'[m].key][held'[m].number] = m
              /\ \A p \in Listeners : held'[p].at = "live" /\ held'[p].key = held'[m].key => p = m
  <2>1. CASE m = l
    <3>1. Registered(k) = {}
      BY <1>1, <1>6, <1>7, <1>11, <2>1
    <3>2. \A p \in Listeners : held[p].at = "live" => held[p].key # k
      BY <3>1 DEF Registered
    <3>3. \A p \in Listeners : held'[p].at = "live" /\ held'[p].key = k => p = l
      BY <1>7, <3>2
    <3> QED BY <1>3, <1>4, <1>6, <1>7, <2>1, <3>3
  <2>2. CASE m # l
    <3>1. held'[m] = held[m] /\ held[m].at = "live" /\ held[m].key \notin contested
      BY <1>7, <1>8, <1>11, <2>2
    <3>2. /\ held[m].key \in DOMAIN listeners /\ held[m].number \in DOMAIN listeners[held[m].key]
          /\ listeners[held[m].key][held[m].number] = m
          /\ \A p \in Listeners : held[p].at = "live" /\ held[p].key = held[m].key => p = m
      BY <3>1 DEF TableSound, HolderSound
    <3>3. held[m].key # k
      BY <1>1, <1>11, <3>1 DEF Registered
    <3>4. \A p \in Listeners : held'[p].at = "live" /\ held'[p].key = held[m].key => p = m
      BY <1>6, <1>7, <3>2, <3>3
    <3> QED BY <1>3, <3>1, <3>2, <3>3, <3>4
  <2> QED BY <2>1, <2>2
<1>12. \A m \in Listeners : HolderSound(m)'
  BY <1>11 DEF HolderSound
<1>13. held'[Service].key = All
  BY <1>6, <1>7, ListenersAssumption DEF TableSound
<1>14. HoldersKept
  BY <1>1, <1>7, <1>8 DEF HoldersKept
<1> QED BY <1>7, <1>8, <1>9, <1>10, <1>12, <1>13, <1>14 DEF TableSound

LEMMA RemoveSound ==
  ASSUME ListenerTypes, TableSound, NEW l \in Listeners, RemoveEventListener(l), contested' = contested
  PROVE  TableSound' /\ HoldersKept /\ held' \in [Listeners -> Holder]
<1> DEFINE k == held[l].key
           number == held[l].number
           row == Without(listeners[k], number)
           h == [held[l] EXCEPT !.at = "left"]
<1>1. /\ held[l].at = "live" /\ listeners' = [listeners EXCEPT ![k] = row]
      /\ held' = [held EXCEPT ![l] = h]
  BY DEF RemoveEventListener
<1>2. /\ DOMAIN listeners' = DOMAIN listeners /\ (k \in DOMAIN listeners => listeners'[k] = row)
      /\ \A j \in DOMAIN listeners : j # k => listeners'[j] = listeners[j]
  BY <1>1
<1>3. /\ DOMAIN row = DOMAIN listeners[k] \ {number}
      /\ \A n \in DOMAIN row : row[n] = listeners[k][n]
  BY DEF Without
<1>4. h \in Holder /\ h.at = "left" /\ h.key = k
  BY DEF ListenerTypes, Holder
<1>5. held[l].key = k /\ held[l].number = number /\ k \in Keys
  BY DEF ListenerTypes, Holder
<1> HIDE DEF h, row, k, number
<1>6. /\ held' \in [Listeners -> Holder] /\ held'[l] = h
      /\ \A m \in Listeners : m # l => held'[m] = held[m]
  BY <1>1, <1>4 DEF ListenerTypes
<1>7. TableTypes'
  BY <1>2, <1>3 DEF TableSound, TableTypes
<1>8. ASSUME NEW j \in DOMAIN listeners', NEW n \in DOMAIN listeners'[j] PROVE EntrySound(j, n)'
  <2>1. j \in DOMAIN listeners /\ n \in DOMAIN listeners[j] /\ listeners'[j][n] = listeners[j][n]
        /\ (j = k => n # number)
    BY <1>2, <1>3, <1>8
  <2>2. EntrySound(j, n)
    BY <2>1 DEF TableSound
  <2>3. listeners[j][n] # l
    BY <1>5, <2>1, <2>2 DEF EntrySound
  <2> QED BY <1>6, <2>1, <2>2, <2>3 DEF EntrySound
<1>9. ASSUME NEW m \in Listeners, held'[m].at = "live", held'[m].key \notin contested'
      PROVE  /\ held'[m].key \in DOMAIN listeners' /\ held'[m].number \in DOMAIN listeners'[held'[m].key]
             /\ listeners'[held'[m].key][held'[m].number] = m
             /\ \A p \in Listeners : held'[p].at = "live" /\ held'[p].key = held'[m].key => p = m
  <2>1. m # l /\ held'[m] = held[m] /\ held[m].at = "live" /\ held[m].key \notin contested
    BY <1>4, <1>6, <1>9
  <2>2. /\ held[m].key \in DOMAIN listeners /\ held[m].number \in DOMAIN listeners[held[m].key]
        /\ listeners[held[m].key][held[m].number] = m
        /\ \A p \in Listeners : held[p].at = "live" /\ held[p].key = held[m].key => p = m
    BY <2>1 DEF TableSound, HolderSound
  <2>3. held[m].key # k
    BY <1>1, <1>5, <2>1, <2>2
  <2>4. \A p \in Listeners : held'[p].at = "live" /\ held'[p].key = held[m].key => p = m
    BY <1>4, <1>6, <2>2
  <2> QED BY <1>2, <2>1, <2>2, <2>3, <2>4
<1>10. \A m \in Listeners : HolderSound(m)'
  BY <1>9 DEF HolderSound
<1>11. held'[Service].key = All
  BY <1>4, <1>5, <1>6, ListenersAssumption DEF TableSound
<1>12. HoldersKept
  BY <1>1, <1>4, <1>5, <1>6 DEF HoldersKept
<1> QED BY <1>6, <1>7, <1>8, <1>10, <1>11, <1>12 DEF TableSound

(* A step that only registers, removes or moves the service on.            *)
LEMMA HoldersStep ==
  ASSUME ListenersInv, TableSound', HoldersKept, held' \in [Listeners -> Holder],
         contested' \subseteq Keys, service' \in {"new", "enabling", "listening", "failed", "gone"},
         UNCHANGED <<event, due, running, calls, cdr, unsaved>>
  PROVE  ListenersInv'
<1>1. ListenerTypes'
  BY DEF ListenersInv, ListenerTypes
<1>2. ASSUME NEW l \in Listeners, NEW e \in Events PROVE CallSound(l, e)'
  <2>1. CallSound(l, e)
    BY DEF ListenersInv
  <2>2. held[l].at # "none" => held'[l].at # "none" /\ held'[l].key = held[l].key
    BY DEF HoldersKept
  <2>3. contested \subseteq contested'
    BY DEF HoldersKept
  <2> QED BY <2>1, <2>2, <2>3 DEF CallSound
<1>3. HangupsRecorded'
  <2>1. contested \subseteq contested' /\ HangupsRecorded
    BY DEF HoldersKept, ListenersInv
  <2> QED BY <2>1 DEF HangupsRecorded
<1> QED BY <1>1, <1>2, <1>3 DEF ListenersInv

LEMMA JoinSound ==
  ASSUME ListenersInv, NEW l \in Listeners, NEW k \in Keys, Join(l, k)
  PROVE  ListenersInv'
<1>1. ListenerTypes /\ TableSound /\ l # Service /\ RegisterEventListener(l, k)
  BY DEF ListenersInv, Join
<1>2. TableSound' /\ HoldersKept /\ held' \in [Listeners -> Holder] /\ contested' \subseteq Keys
  BY <1>1, RegisterSound
<1>3. UNCHANGED <<service, event, due, running, calls, cdr, unsaved>>
  BY DEF Join
<1>4. service' \in {"new", "enabling", "listening", "failed", "gone"}
  BY <1>1, <1>3 DEF ListenerTypes
<1> QED BY <1>2, <1>3, <1>4, HoldersStep

LEMMA LeaveSound ==
  ASSUME ListenersInv, NEW l \in Listeners, Leave(l)
  PROVE  ListenersInv'
<1>1. ListenerTypes /\ TableSound /\ RemoveEventListener(l) /\ contested' = contested
  BY DEF ListenersInv, Leave
<1>2. TableSound' /\ HoldersKept /\ held' \in [Listeners -> Holder]
  BY <1>1, RemoveSound
<1>3. UNCHANGED <<service, event, due, running, calls, cdr, unsaved>>
  BY DEF Leave
<1>4. contested' \subseteq Keys /\ service' \in {"new", "enabling", "listening", "failed", "gone"}
  BY <1>1, <1>3 DEF ListenerTypes
<1> QED BY <1>2, <1>3, <1>4, HoldersStep

LEMMA StartServiceSound ==
  ASSUME ListenersInv, StartService PROVE ListenersInv'
<1>1. /\ ListenerTypes /\ TableSound /\ RegisterEventListener(Service, All)
      /\ Service \in Listeners /\ All \in Keys
  BY ListenersAssumption DEF ListenersInv, StartService, Keys
<1>2. TableSound' /\ HoldersKept /\ held' \in [Listeners -> Holder] /\ contested' \subseteq Keys
  BY <1>1, RegisterSound
<1>3. service' = "enabling" /\ UNCHANGED <<event, due, running, calls, cdr, unsaved>>
  BY DEF StartService
<1> QED BY <1>2, <1>3, HoldersStep

LEMMA TableUnchanged ==
  ASSUME ListenersInv, UNCHANGED <<listeners, held, contested>>
  PROVE  /\ TableSound' /\ HoldersKept
         /\ held' \in [Listeners -> Holder] /\ contested' \subseteq Keys
<1>1. listeners' = listeners /\ held' = held /\ contested' = contested
  OBVIOUS
<1>2. TableSound'
  BY <1>1 DEF ListenersInv, TableSound, TableTypes, EntrySound, HolderSound
<1> QED BY <1>1, <1>2 DEF ListenersInv, ListenerTypes, HoldersKept

LEMMA EnableSound ==
  ASSUME ListenersInv, EnableEvents PROVE ListenersInv'
<1>1. /\ ListenerTypes /\ TableSound /\ contested' = contested /\ Service \in Listeners
      /\ service' \in {"listening", "failed"} /\ UNCHANGED <<event, due, running, calls, cdr, unsaved>>
  BY ListenersAssumption DEF ListenersInv, EnableEvents
<1>2. contested' \subseteq Keys
  BY <1>1 DEF ListenerTypes
<1>3. CASE UNCHANGED <<listeners, held>>
  <2>1. TableSound' /\ HoldersKept /\ held' \in [Listeners -> Holder]
    BY <1>1, <1>3, TableUnchanged
  <2> QED BY <1>1, <1>2, <2>1, HoldersStep
<1>4. CASE RemoveEventListener(Service)
  <2>1. TableSound' /\ HoldersKept /\ held' \in [Listeners -> Holder]
    BY <1>1, <1>4, RemoveSound
  <2> QED BY <1>1, <1>2, <2>1, HoldersStep
<1> QED BY <1>3, <1>4 DEF EnableEvents

(* An event starts a listener under its key once, and nobody else.         *)
LEMMA StartsOnce ==
  ASSUME ListenerTypes, TableSound, NEW l \in Listeners, NEW call \in Ids, NEW app \in Ids \cup {NoId}
  PROVE  LET n == Starts(l, [came |-> TRUE, call |-> call, app |-> app])
             called == held[l].at = "live" /\ held[l].key \in {All, call, app}
         IN /\ n \in Nat
            /\ n > 0 => called
            /\ called /\ held[l].key \notin contested /\ (call # app \/ held[l].key = All) => n = 1
<1> DEFINE Found(k) == k \in DOMAIN listeners /\ \E n \in DOMAIN listeners[k] : listeners[k][n] = l
           Under(k) == IF Found(k) THEN 1 ELSE 0
           called == held[l].at = "live" /\ held[l].key \in {All, call, app}
           n == Starts(l, [came |-> TRUE, call |-> call, app |-> app])
<1>1. n = Under(All) + Under(call) + Under(app)
  BY DEF Starts
<1>2. ASSUME NEW k, Found(k) PROVE held[l].at = "live" /\ held[l].key = k
  <2>1. PICK m \in DOMAIN listeners[k] : k \in DOMAIN listeners /\ listeners[k][m] = l
    BY <1>2
  <2>2. held[l] = [at |-> "live", key |-> k, number |-> m]
    BY <2>1 DEF TableSound, EntrySound
  <2> QED BY <2>2
<1>3. held[l].at = "live" /\ held[l].key \notin contested => Found(held[l].key)
  BY DEF TableSound, HolderSound
<1>4. All # call /\ All # app
  BY ListenersAssumption
<1> HIDE DEF Found, n
<1>5. n \in Nat
  BY <1>1
<1>6. n > 0 => called
  <2>1. n > 0 => Found(All) \/ Found(call) \/ Found(app)
    BY <1>1
  <2> QED BY <1>2, <2>1
<1>7. ASSUME called, held[l].key \notin contested, call # app \/ held[l].key = All PROVE n = 1
  <2>1. Found(held[l].key) /\ \A k : k # held[l].key => ~Found(k)
    BY <1>2, <1>3, <1>7
  <2>2. CASE held[l].key = All
    BY <1>1, <1>4, <2>1, <2>2
  <2>3. CASE held[l].key = call /\ call # app
    BY <1>1, <1>4, <2>1, <2>3
  <2>4. CASE held[l].key = app /\ call # app
    BY <1>1, <1>4, <2>1, <2>4
  <2> QED BY <1>7, <2>2, <2>3, <2>4
<1> QED BY <1>5, <1>6, <1>7 DEF n

LEMMA DispatchSound ==
  ASSUME ListenersInv, NEW e \in Events, NEW call \in Ids, NEW app \in Ids \cup {NoId},
         DispatchEvent(e, call, app)
  PROVE  ListenersInv'
<1> DEFINE ids == [came |-> TRUE, call |-> call, app |-> app]
           heard == {l \in Listeners : held[l].at = "live" /\ held[l].key \in {All, call, app}}
<1>1. /\ ListenerTypes /\ TableSound /\ ~event[e].came
      /\ event' = [event EXCEPT ![e] = ids] /\ due' = [due EXCEPT ![e] = heard]
      /\ running' = [l \in Listeners |-> [running[l] EXCEPT ![e] = Starts(l, ids)]]
      /\ calls' = [l \in Listeners |-> [calls[l] EXCEPT ![e] = Starts(l, ids)]]
      /\ UNCHANGED <<listeners, held, contested, service, cdr, unsaved>>
  BY DEF ListenersInv, DispatchEvent
<1>2. \A l \in Listeners :
        /\ Starts(l, ids) \in Nat
        /\ Starts(l, ids) > 0 => l \in heard
        /\ l \in heard /\ held[l].key \notin contested /\ (call # app \/ held[l].key = All) => Starts(l, ids) = 1
  BY <1>1, StartsOnce
<1>3. ids \in HangupEvent /\ ids.came = TRUE /\ ids.call = call /\ ids.app = app
  BY DEF HangupEvent
<1>4. heard \subseteq Listeners /\ \A l \in heard : held[l].at # "none"
  OBVIOUS
<1> HIDE DEF ids, heard
<1>5. /\ event' \in [Events -> HangupEvent] /\ event'[e] = ids
      /\ due' \in [Events -> SUBSET Listeners] /\ due'[e] = heard
      /\ \A d \in Events : d # e => event'[d] = event[d] /\ due'[d] = due[d]
  BY <1>1, <1>3, <1>4 DEF ListenerTypes
<1>6. /\ running' \in [Listeners -> [Events -> Nat]] /\ calls' \in [Listeners -> [Events -> Nat]]
      /\ \A l \in Listeners :
           /\ running'[l][e] = Starts(l, ids) /\ calls'[l][e] = Starts(l, ids)
           /\ \A d \in Events : d # e => running'[l][d] = running[l][d] /\ calls'[l][d] = calls[l][d]
  <2>1. \A l \in Listeners : running[l] \in [Events -> Nat] /\ calls[l] \in [Events -> Nat]
    BY <1>1 DEF ListenerTypes
  <2> QED BY <1>1, <1>2, <2>1
<1>7. ListenerTypes'
  BY <1>1, <1>5, <1>6 DEF ListenerTypes
<1>8. TableSound'
  BY <1>1, TableUnchanged
<1>9. ASSUME NEW l \in Listeners, NEW d \in Events PROVE CallSound(l, d)'
  <2>1. CASE d = e
    <3>1. event'[d].came = TRUE /\ event'[d].call = call /\ event'[d].app = app
      BY <1>3, <1>5, <2>1
    <3> QED BY <1>1, <1>2, <1>4, <1>5, <1>6, <2>1, <3>1 DEF CallSound
  <2>2. CASE d # e
    <3>1. CallSound(l, d)
      BY DEF ListenersInv
    <3> QED BY <1>1, <1>5, <1>6, <2>2, <3>1 DEF CallSound
  <2> QED BY <2>1, <2>2
<1>10. HangupsRecorded'
  <2>1. Service \in Listeners /\ held[Service].key = All /\ HangupsRecorded
    BY ListenersAssumption DEF ListenersInv, TableSound
  <2>2. ASSUME NEW d \in Events, Service \in due'[d], All \notin contested
        PROVE  running'[Service][d] > 0 \/ d \in unsaved \/ cdr[event'[d].call] # NoId
    <3>1. CASE d = e
      <4>1. Starts(Service, ids) = 1
        BY <1>2, <1>5, <2>1, <2>2, <3>1
      <4> QED BY <1>6, <2>1, <3>1, <4>1
    <3>2. CASE d # e
      BY <1>5, <1>6, <2>1, <2>2, <3>2 DEF HangupsRecorded
    <3> QED BY <3>1, <3>2
  <2>3. ASSUME NEW i \in Ids, cdr[i] # NoId
        PROVE  event'[cdr[i]].call = i /\ Service \in due'[cdr[i]]
    <3>1. cdr[i] \in Events /\ event[cdr[i]].call = i /\ Service \in due[cdr[i]]
      BY <1>1, <2>1, <2>3 DEF HangupsRecorded, ListenerTypes
    <3>2. cdr[i] # e
      <4>1. event[cdr[i]].came = TRUE
        BY <2>1, <3>1 DEF ListenersInv, CallSound
      <4> QED BY <1>1, <4>1
    <3> QED BY <1>5, <3>1, <3>2
  <2> QED BY <1>1, <2>2, <2>3 DEF HangupsRecorded
<1> QED BY <1>7, <1>8, <1>9, <1>10 DEF ListenersInv

LEMMA RunSound ==
  ASSUME ListenersInv, NEW l \in Listeners, NEW e \in Events, RunListener(l, e)
  PROVE  ListenersInv'
<1>1. /\ ListenerTypes /\ TableSound /\ running[l][e] > 0
      /\ running' = [running EXCEPT ![l] = [running[l] EXCEPT ![e] = running[l][e] - 1]]
      /\ UNCHANGED <<listeners, held, contested, service, event, due, calls>>
  BY DEF ListenersInv, RunListener
<1>2. running[l] \in [Events -> Nat] /\ running[l][e] \in Nat
  BY <1>1 DEF ListenerTypes
<1>3. running[l][e] - 1 \in Nat
  BY <1>1, <1>2
<1>4. /\ running' \in [Listeners -> [Events -> Nat]] /\ running'[l][e] = running[l][e] - 1
      /\ \A m \in Listeners, d \in Events : (m # l \/ d # e) => running'[m][d] = running[m][d]
  BY <1>1, <1>2, <1>3 DEF ListenerTypes
<1>5. CallSound(l, e) /\ Service \in Listeners /\ HangupsRecorded
  BY ListenersAssumption DEF ListenersInv
<1>6. l \in due[e] /\ event[e].came = TRUE /\ event[e].call \in Ids
  <2>1. calls[l][e] \in Nat
    BY <1>1 DEF ListenerTypes
  <2>2. l \in due[e] /\ event[e].came = TRUE
    BY <1>1, <1>2, <1>5, <2>1 DEF CallSound
  <2> QED BY <1>1, <2>2 DEF ListenerTypes, HangupEvent
<1>7. /\ cdr' \in [Ids -> Events \cup {NoId}] /\ unsaved' \subseteq Events /\ unsaved \subseteq unsaved'
      /\ \A i \in Ids : cdr'[i] = cdr[i] \/ (cdr[i] = NoId /\ cdr'[i] = e /\ l = Service /\ i = event[e].call)
      /\ l = Service => e \in unsaved' \/ cdr'[event[e].call] # NoId
  <2>1. CASE UNCHANGED <<cdr, unsaved>> /\ l # Service
    BY <1>1, <2>1 DEF ListenerTypes
  <2>2. CASE /\ l = Service /\ UNCHANGED unsaved
             /\ cdr' = [cdr EXCEPT ![event[e].call] = IF cdr[event[e].call] = NoId THEN e ELSE cdr[event[e].call]]
    BY <1>1, <1>6, <2>2, ListenersAssumption DEF ListenerTypes
  <2>3. CASE l = Service /\ unsaved' = unsaved \cup {e} /\ UNCHANGED cdr
    BY <1>1, <2>3 DEF ListenerTypes
  <2> QED BY <2>1, <2>2, <2>3 DEF RunListener
<1>8. ListenerTypes'
  BY <1>1, <1>4, <1>7 DEF ListenerTypes
<1>9. TableSound'
  BY <1>1, TableUnchanged
<1>10. ASSUME NEW m \in Listeners, NEW d \in Events PROVE CallSound(m, d)'
  <2>1. CallSound(m, d) /\ calls[m][d] \in Nat /\ running[m][d] \in Nat
    BY <1>1 DEF ListenersInv, ListenerTypes
  <2>2. running'[m][d] <= running[m][d] /\ running'[m][d] \in Nat
    BY <1>1, <1>2, <1>3, <1>4, <2>1
  <2>3. running'[m][d] <= calls[m][d]
    BY <2>1, <2>2 DEF CallSound
  <2> QED BY <1>1, <2>1, <2>3 DEF CallSound
<1>11. HangupsRecorded'
  <2>1. ASSUME NEW d \in Events, Service \in due[d], All \notin contested
        PROVE  running'[Service][d] > 0 \/ d \in unsaved' \/ cdr'[event[d].call] # NoId
    <3>1. event[d].call \in Ids
      BY <1>1, <2>1, <1>5 DEF ListenersInv, CallSound, ListenerTypes, HangupEvent
    <3>2. running[Service][d] > 0 \/ d \in unsaved \/ cdr[event[d].call] # NoId
      BY <1>5, <2>1 DEF HangupsRecorded
    <3>3. cdr[event[d].call] # NoId => cdr'[event[d].call] # NoId
      BY <1>7, <3>1
    <3>4. CASE l = Service /\ d = e
      BY <1>7, <3>4
    <3>5. CASE ~(l = Service /\ d = e)
      BY <1>4, <1>5, <1>7, <3>2, <3>3, <3>5
    <3> QED BY <3>4, <3>5
  <2>2. ASSUME NEW i \in Ids, cdr'[i] # NoId
        PROVE  event[cdr'[i]].call = i /\ Service \in due[cdr'[i]]
    BY <1>5, <1>6, <1>7, <2>2 DEF HangupsRecorded
  <2> QED BY <1>1, <2>1, <2>2 DEF HangupsRecorded
<1> QED BY <1>8, <1>9, <1>10, <1>11 DEF ListenersInv

LEMMA ExitSound ==
  ASSUME ListenersInv, Exit PROVE ListenersInv'
<1>1. /\ service' = "gone" /\ unsaved' = unsaved \cup {e \in Events : running[Service][e] > 0}
      /\ UNCHANGED <<listeners, held, contested, event, due, running, calls, cdr>>
  BY DEF Exit
<1>2. ListenerTypes'
  BY <1>1 DEF ListenersInv, ListenerTypes
<1>3. TableSound'
  BY <1>1, TableUnchanged
<1>4. \A l \in Listeners, e \in Events : CallSound(l, e)'
  BY <1>1 DEF ListenersInv, CallSound
<1>5. HangupsRecorded'
  BY <1>1 DEF ListenersInv, HangupsRecorded
<1> QED BY <1>2, <1>3, <1>4, <1>5 DEF ListenersInv

(* Events reach their listeners and hang-ups are on record, for any ids,   *)
(* listeners and events.                                                   *)
THEOREM EventsAlwaysReach == EslListenersSpec => []EventsReachListeners
<1>1. ASSUME ListenersInv, [EslListenersNext]_eslListenersVars
      PROVE  ListenersInv'
  <2>1. CASE UNCHANGED eslListenersVars
    <3>1. UNCHANGED <<listeners, held, contested>> /\ service' = service
          /\ UNCHANGED <<event, due, running, calls, cdr, unsaved>>
      BY <2>1 DEF eslListenersVars
    <3>2. TableSound' /\ HoldersKept /\ held' \in [Listeners -> Holder] /\ contested' \subseteq Keys
      BY <1>1, <3>1, TableUnchanged
    <3>3. service' \in {"new", "enabling", "listening", "failed", "gone"}
      BY <1>1, <3>1 DEF ListenersInv, ListenerTypes
    <3> QED BY <1>1, <3>1, <3>2, <3>3, HoldersStep
  <2> QED BY <1>1, <2>1, JoinSound, LeaveSound, StartServiceSound, EnableSound, DispatchSound,
             RunSound, ExitSound DEF EslListenersNext
<1> QED BY <1>1, ListenersInitSound, EventsReachOf, PTL DEF EslListenersSpec

(***************************************************************************)
(* Error alerts of the log.  AlertsEarned is inductive with what the       *)
(* windows hold.                                                           *)
(***************************************************************************)
(* A window holds errors that its rule's condition names.                  *)
WindowSound(r, w) ==
  /\ w \in Seq(LogEntry)
  /\ \A i \in DOMAIN w : w[i].level = "error" /\ evaluateCondition(r, w[i])
WindowsInv ==
  /\ windows = [r \in LogRules |-> windows[r]] /\ \A r \in LogRules : WindowSound(r, windows[r])
  /\ AlertsEarned

(* An entry and a window that may have lapsed; and one more entry logged.  *)
LEMMA WindowKept ==
  ASSUME NEW r \in LogRules, WindowSound(r, windows[r]), NEW e \in LogEntry, e.level = "error",
         NEW later \in BOOLEAN
  PROVE  WindowSound(r, AlertWindow(r, e, later))
<1> DEFINE w == IF later THEN <<>> ELSE windows[r]      g == Append(w, e)      n == Len(w)
<1>1. WindowSound(r, w)
  BY DEF WindowSound
<1>2. CASE evaluateCondition(r, e)
  <2>1. w \in Seq(LogEntry)
    BY <1>1 DEF WindowSound
  <2> HIDE DEF w
  <2>2. /\ n \in Nat /\ DOMAIN w = 1 .. n /\ DOMAIN g = 1 .. (n + 1) /\ g \in Seq(LogEntry)
        /\ g[n + 1] = e /\ \A i \in 1 .. n : g[i] = w[i]
    BY <2>1
  <2> HIDE DEF g, n
  <2>3. \A i \in 1 .. (n + 1) : i \in 1 .. n \/ i = n + 1
    BY <2>2
  <2>4. \A i \in 1 .. (n + 1) : g[i].level = "error" /\ evaluateCondition(r, g[i])
    BY <1>1, <1>2, <2>2, <2>3 DEF WindowSound
  <2>5. AlertWindow(r, e, later) = g
    BY <1>2 DEF AlertWindow, g, w
  <2> QED BY <2>2, <2>4, <2>5 DEF WindowSound
<1>3. CASE ~evaluateCondition(r, e)
  BY <1>1, <1>3 DEF AlertWindow
<1> QED BY <1>2, <1>3

LEMMA WindowsKept ==
  ASSUME WindowsInv, NEW e \in LogEntry, NEW later \in BOOLEAN, addEntry(e, later)
  PROVE  WindowsInv'
<1> DEFINE new == [r \in LogRules |-> IF e.level = "error" THEN AlertWindow(r, e, later) ELSE windows[r]]
<1>1. /\ windows' = new
      /\ raised' = {<<r, new[r]>> : r \in {q \in LogRules : e.level = "error" /\ evaluateAggregation(q, new[q])}}
  BY DEF addEntry
<1>2. \A r \in LogRules : WindowSound(r, new[r])
  <2> SUFFICES ASSUME NEW r \in LogRules PROVE WindowSound(r, new[r])
    OBVIOUS
  <2>1. WindowSound(r, windows[r])
    BY DEF WindowsInv
  <2>2. new[r] = IF e.level = "error" THEN AlertWindow(r, e, later) ELSE windows[r]
    OBVIOUS
  <2> HIDE DEF new
  <2> QED BY <2>1, <2>2, WindowKept
<1>3. new = [r \in LogRules |-> new[r]]
  OBVIOUS
<1> HIDE DEF new
<1>4. ASSUME NEW a \in raised'
      PROVE  /\ \A i \in DOMAIN a[2] : a[2][i].level = "error" /\ evaluateCondition(a[1], a[2][i])
             /\ a[1].condition # "tenant_error_rate" => Len(a[2]) >= a[1].threshold
  <2>1. PICK r \in LogRules : a = <<r, new[r]>> /\ evaluateAggregation(r, new[r])
    BY <1>1, <1>4
  <2>2. a[1] = r /\ a[2] = new[r]
    BY <2>1
  <2> QED BY <1>2, <2>1, <2>2 DEF WindowSound, evaluateAggregation
<1> QED BY <1>1, <1>2, <1>3, <1>4 DEF WindowsInv, AlertsEarned, evaluateCondition, WindowSound

(* Every alert was raised over errors that its rule's condition names, and *)
(* over as many as the rule asks for: shouldTriggerAlert keeps other       *)
(* entries out of a rule's window (processor.go).                          *)
THEOREM AlertsAlwaysEarned == LogSpec => []AlertsEarned
<1>1. LogInit => WindowsInv
  <2> SUFFICES ASSUME LogInit PROVE WindowsInv
    OBVIOUS
  <2>1. windows = [r \in LogRules |-> <<>>] /\ raised = {}
    BY DEF LogInit
  <2>2. <<>> \in Seq(LogEntry) /\ DOMAIN <<>> = {}
    OBVIOUS
  <2> QED BY <2>1, <2>2 DEF WindowsInv, WindowSound, AlertsEarned
<1>2. WindowsInv /\ [LogNext]_logVars => WindowsInv'
  <2> SUFFICES ASSUME WindowsInv, [LogNext]_logVars PROVE WindowsInv'
    OBVIOUS
  <2>1. CASE \E e \in LogEntry, later \in BOOLEAN : addEntry(e, later)
    BY <2>1, WindowsKept
  <2>2. CASE UNCHANGED <<windows, raised>>
    BY <2>2 DEF WindowsInv, WindowSound, AlertsEarned, evaluateCondition
  <2> QED BY <2>1, <2>2 DEF LogNext, Clear, GetLogStats, GetHealthStatus, logVars
<1>3. WindowsInv => AlertsEarned
  BY DEF WindowsInv
<1> QED BY <1>1, <1>2, <1>3, PTL DEF LogSpec

(***************************************************************************)
(* Lists.  A recursive function on a beginning of the numbers is shown to  *)
(* exist, and to have a property throughout, by the least number that would*)
(* be a counterexample.                                                    *)
(***************************************************************************)

(* A set of numbers that is not empty has a least one.                     *)
LEMMA NatMin ==
  ASSUME NEW T, T \subseteq Nat, T # {}
  PROVE  \E n \in T : \A m \in T : n <= m
<1>1. IsWellFoundedOn(OpToRel(<,Nat), Nat)
  BY NatLessThanWellFounded
<1>2. PICK x \in T : \A y \in T : ~(<<y, x>> \in OpToRel(<, Nat))
  BY <1>1, WFMin
<1>3. ASSUME NEW y \in T PROVE x <= y
  <2>1. ~(<<y, x>> \in OpToRel(<, Nat))
    BY <1>2
  <2>2. x \in Nat /\ y \in Nat
    OBVIOUS
  <2>3. ~(y < x)
    BY <2>1, <2>2, Zenon DEF OpToRel
  <2> QED BY <2>2, <2>3
<1> QED BY <1>3

(* What holds at 0, and of a number after every number it holds of, holds  *)
(* up to n: otherwise the least number it fails at follows one it holds at.*)
LEMMA Upto ==
  ASSUME NEW n \in Nat, NEW T, 0 \in T, \A i \in 0 .. n : i \in T /\ i < n => i + 1 \in T
  PROVE  \A i \in 0 .. n : i \in T
<1> DEFINE Out == {i \in 0 .. n : i \notin T}
<1> SUFFICES ASSUME Out # {} PROVE FALSE
  OBVIOUS
<1>1. PICK m \in Out : \A k \in Out : m <= k
  <2>1. Out \subseteq Nat
    OBVIOUS
  <2> HIDE DEF Out
  <2> QED BY <2>1, NatMin
<1>2. m \in 0 .. n /\ m \notin T /\ m # 0
  OBVIOUS
<1>3. m - 1 \in 0 .. n /\ m - 1 < n /\ (m - 1) + 1 = m /\ ~(m <= m - 1)
  BY <1>2
<1>4. m - 1 \in T
  BY <1>1, <1>3
<1> QED BY <1>2, <1>3, <1>4

(* A recursive function on 0 .. n is there, whatever its step G.            *)
Recursive(V, n, base, G) ==
  \E f \in [0 .. n -> V] : f[0] = base /\ \A i \in 1 .. n : f[i] = G[i][f[i - 1]]
LEMMA RecursionExists ==
  ASSUME NEW V, NEW n \in Nat, NEW base \in V, NEW G \in [1 .. n -> [V -> V]]
  PROVE  Recursive(V, n, base, G)
<1> DEFINE Good(m, f) == f \in [0 .. m -> V] /\ f[0] = base /\ \A i \in 1 .. m : f[i] = G[i][f[i - 1]]
           T == {m \in 0 .. n : \E f : Good(m, f)}
<1>1. 0 \in T
  <2> DEFINE f == [i \in 0 .. 0 |-> base]
  <2>1. Good(0, f)
    OBVIOUS
  <2>2. 0 \in 0 .. n
    OBVIOUS
  <2> HIDE DEF Good, f
  <2> QED BY <2>1, <2>2
<1>2. ASSUME NEW m \in 0 .. n, m \in T, m < n PROVE m + 1 \in T
  <2>1. PICK f : Good(m, f)
    BY <1>2
  <2> DEFINE g == [i \in 0 .. m + 1 |-> IF i <= m THEN f[i] ELSE G[m + 1][f[m]]]
  <2>2. m \in 0 .. m /\ m \in Nat /\ m + 1 \in 1 .. n /\ m + 1 \in 0 .. n
    <3> HIDE DEF Good, T
    <3> QED BY <1>2
  <2>3. f[m] \in V
    BY <2>1, <2>2
  <2>4. G[m + 1][f[m]] \in V
    BY <2>2, <2>3
  <2>5. g \in [0 .. m + 1 -> V]
    BY <2>1, <2>2, <2>4
  <2>6. g[0] = base
    BY <2>1, <2>2
  <2>7. ASSUME NEW i \in 1 .. m + 1 PROVE g[i] = G[i][g[i - 1]]
    <3>1. CASE i <= m
      <4>1. i \in 1 .. m /\ i \in 0 .. m + 1 /\ i - 1 \in 0 .. m + 1 /\ i - 1 <= m
        BY <2>2, <3>1
      <4>2. g[i] = f[i] /\ g[i - 1] = f[i - 1]
        BY <3>1, <4>1
      <4> QED BY <2>1, <4>1, <4>2
    <3>2. CASE ~(i <= m)
      <4>1. i = m + 1 /\ i - 1 = m /\ m \in 0 .. m + 1 /\ m <= m /\ i \in 0 .. m + 1
        BY <2>2, <3>2
      <4>2. g[i] = G[m + 1][f[m]] /\ g[m] = f[m]
        BY <3>2, <4>1
      <4> QED BY <4>1, <4>2
    <3> QED BY <3>1, <3>2
  <2> HIDE DEF g
  <2>8. Good(m + 1, g)
    BY <2>5, <2>6, <2>7
  <2> HIDE DEF Good
  <2> QED BY <2>2, <2>8
<1>3. n \in T
  <2> HIDE DEF T
  <2>1. n \in 0 .. n
    OBVIOUS
  <2> QED BY <1>1, <1>2, <2>1, Upto
<1> QED BY <1>3 DEF Recursive

(* Sequences with the same length and elements are the same.               *)
LEMMA SameSeq ==
  ASSUME NEW S, NEW p \in Seq(S), NEW q \in Seq(S), Len(p) = Len(q), \A i \in 1 .. Len(p) : p[i] = q[i]
  PROVE  p = q
OBVIOUS

(* Two sequences that increase by a key and have the same elements.         *)
Rising(s, K) == \A i, j \in 1 .. Len(s) : i < j => K[s[i]] < K[s[j]]
Among(u, v) == \A i \in 1 .. Len(u) : \E j \in 1 .. Len(v) : u[i] = v[j]
LEMMA SameIncreasing ==
  ASSUME NEW E, NEW K \in [E -> Int], NEW u \in Seq(E), NEW v \in Seq(E),
         Rising(u, K), Rising(v, K), Among(u, v), Among(v, u)
  PROVE  u = v
<1> DEFINE n == Len(u)      m == Len(v)      T == {k \in 0 .. n : k <= m /\ \A i \in 1 .. k : u[i] = v[i]}
<1>0. n \in Nat /\ m \in Nat /\ (\A i \in 1 .. n : u[i] \in E) /\ (\A i \in 1 .. m : v[i] \in E)
  OBVIOUS
<1>a. /\ \A i, j \in 1 .. n : i < j => K[u[i]] < K[u[j]]
      /\ \A i, j \in 1 .. m : i < j => K[v[i]] < K[v[j]]
      /\ \A i \in 1 .. n : \E j \in 1 .. m : u[i] = v[j]
      /\ \A i \in 1 .. m : \E j \in 1 .. n : v[i] = u[j]
  BY DEF Rising, Among
<1>b. /\ \A i \in 1 .. n : K[u[i]] \in Int
      /\ \A i \in 1 .. m : K[v[i]] \in Int
  BY <1>0
<1> HIDE DEF n, m
<1>1. ASSUME NEW k \in 0 .. n, k \in T, k < n PROVE k + 1 \in T
  <2>0. k <= m /\ \A i \in 1 .. k : u[i] = v[i]
    BY <1>1
  <2>1. k \in Nat /\ k + 1 \in 1 .. n /\ k + 1 \in 0 .. n /\ k <= m /\ \A i \in 1 .. k : u[i] = v[i]
    BY <1>0, <1>1, <2>0
  <2>2. PICK a \in 1 .. m : u[k + 1] = v[a]
    BY <1>a, <2>1
  <2>3. ~(a <= k)
    <3> SUFFICES ASSUME a <= k PROVE FALSE
      OBVIOUS
    <3>1. a \in 1 .. k /\ a \in 1 .. n /\ a < k + 1
      BY <1>0, <2>1
    <3>2. u[a] = u[k + 1] /\ K[u[a]] < K[u[k + 1]]
      BY <1>a, <2>1, <2>2, <3>1
    <3> QED BY <1>b, <2>1, <3>1, <3>2
  <2>4. k + 1 \in 1 .. m
    BY <1>0, <2>1, <2>3
  <2>5. PICK b \in 1 .. n : v[k + 1] = u[b]
    BY <1>a, <2>4
  <2>6. ~(b <= k)
    <3> SUFFICES ASSUME b <= k PROVE FALSE
      OBVIOUS
    <3>1. b \in 1 .. k /\ b \in 1 .. m /\ b < k + 1
      BY <1>0, <2>1
    <3>2. v[b] = v[k + 1] /\ K[v[b]] < K[v[k + 1]]
      BY <1>a, <2>1, <2>4, <2>5, <3>1
    <3> QED BY <1>b, <2>4, <3>1, <3>2
  <2>7. a = k + 1
    <3> SUFFICES ASSUME a # k + 1 PROVE FALSE
      OBVIOUS
    <3>1. k + 1 < a
      BY <2>1, <2>3
    <3>2. K[v[k + 1]] < K[v[a]]
      BY <1>a, <2>4, <3>1
    <3>3. b = k + 1 \/ k + 1 < b
      BY <2>1, <2>6
    <3>4. K[u[k + 1]] <= K[u[b]]
      <4>1. CASE b = k + 1
        BY <1>b, <2>1, <4>1
      <4>2. CASE k + 1 < b
        <5>1. K[u[k + 1]] < K[u[b]]
          BY <1>a, <2>1, <4>2
        <5> QED BY <1>b, <2>1, <5>1
      <4> QED BY <3>3, <4>1, <4>2
    <3>5. K[u[k + 1]] = K[v[a]] /\ K[u[b]] = K[v[k + 1]]
      BY <2>2, <2>5
    <3> QED BY <1>b, <2>1, <2>4, <3>2, <3>4, <3>5
  <2>8. \A i \in 1 .. k + 1 : i \in 1 .. k \/ i = k + 1
    BY <2>1
  <2>9. \A i \in 1 .. k + 1 : u[i] = v[i]
    BY <2>1, <2>2, <2>7, <2>8
  <2>10. k + 1 <= m
    BY <2>4
  <2> QED BY <2>1, <2>9, <2>10
<1>2. 0 \in T
  BY <1>0
<1>3. n \in T
  <2> HIDE DEF T
  <2>1. n \in 0 .. n
    BY <1>0
  <2> QED BY <1>0, <1>1, <1>2, <2>1, Upto
<1>4. n <= m /\ \A i \in 1 .. n : u[i] = v[i]
  BY <1>3
<1>5. ~(n < m)
  <2> SUFFICES ASSUME n < m PROVE FALSE
    OBVIOUS
  <2>1. n + 1 \in 1 .. m
    BY <1>0
  <2>2. PICK b \in 1 .. n : v[n + 1] = u[b]
    BY <1>a, <2>1
  <2>3. b \in 1 .. m /\ b < n + 1
    BY <1>0, <1>4
  <2>4. v[b] = v[n + 1] /\ K[v[b]] < K[v[n + 1]]
    BY <1>a, <1>4, <2>1, <2>2, <2>3
  <2> QED BY <1>b, <2>1, <2>3, <2>4
<1>6. n = m
  BY <1>0, <1>4, <1>5
<1> QED BY <1>4, <1>6, SameSeq DEF n, m

(* Only goes through the sequence, one function of its beginnings.         *)
OnlyUpTo(f, E, s, S) ==
  /\ f \in [0 .. Len(s) -> Seq(E)] /\ Only(s, S) = f[Len(s)] /\ f[0] = <<>>
  /\ \A i \in 1 .. Len(s) : f[i] = IF s[i] \in S THEN Append(f[i - 1], s[i]) ELSE f[i - 1]
LEMMA OnlyRecursion ==
  ASSUME NEW E, NEW s \in Seq(E), NEW S
  PROVE  \E f : OnlyUpTo(f, E, s, S)
<1> DEFINE n == Len(s)
           Next1(i, x) == IF s[i] \in S THEN Append(x, s[i]) ELSE x
           Is(f) == f = [i \in 0 .. n |-> IF i = 0 THEN <<>> ELSE IF s[i] \in S THEN Append(f[i - 1], s[i]) ELSE f[i - 1]]
           G == [i \in 1 .. n |-> [x \in Seq(E) |-> Next1(i, x)]]
<1>1. n \in Nat /\ <<>> \in Seq(E)
  OBVIOUS
<1>2. G \in [1 .. n -> [Seq(E) -> Seq(E)]]
  <2> SUFFICES ASSUME NEW i \in 1 .. n, NEW x \in Seq(E) PROVE Next1(i, x) \in Seq(E)
    OBVIOUS
  <2>1. s[i] \in E
    OBVIOUS
  <2> QED BY <2>1
<1>3. \A i \in 1 .. n : \A x \in Seq(E) : G[i][x] = Next1(i, x)
  OBVIOUS
<1> HIDE DEF G, n
<1>4. PICK h \in [0 .. n -> Seq(E)] : h[0] = <<>> /\ \A i \in 1 .. n : h[i] = G[i][h[i - 1]]
  <2> DEFINE V == Seq(E)      e == <<>>
  <2>1. n \in Nat /\ e \in V /\ G \in [1 .. n -> [V -> V]]
    BY <1>1, <1>2
  <2> HIDE DEF V, e
  <2>2. Recursive(V, n, e, G)
    BY <2>1, RecursionExists
  <2> QED BY <2>2 DEF V, e, Recursive
<1>5. \A i \in 1 .. n : h[i] = Next1(i, h[i - 1])
  <2> SUFFICES ASSUME NEW i \in 1 .. n PROVE h[i] = Next1(i, h[i - 1])
    OBVIOUS
  <2>1. i - 1 \in 0 .. n
    BY <1>1
  <2>2. h[i - 1] \in Seq(E)
    BY <2>1
  <2> HIDE DEF Next1
  <2> QED BY <1>3, <1>4, <2>2
<1>6. Is(h)
  <2>1. h = [i \in 0 .. n |-> h[i]]
    OBVIOUS
  <2>2. \A i \in 0 .. n : i = 0 \/ i \in 1 .. n
    BY <1>1
  <2> QED BY <1>4, <1>5, <2>1, <2>2
<1> DEFINE f == CHOOSE g : Is(g)
<1>7. Is(f)
  <2> HIDE DEF Is
  <2> QED BY <1>6
<1>8. Only(s, S) = f[n]
  BY DEF Only, n
<1> HIDE DEF f
<1>9. \A i \in 0 .. n : f[i] = IF i = 0 THEN <<>> ELSE Next1(i, f[i - 1])
  BY <1>7
<1>10. \A i \in 0 .. n : f[i] = h[i]
  <2> DEFINE T == {i \in 0 .. n : f[i] = h[i]}
  <2>1. 0 \in T
    BY <1>1, <1>4, <1>9
  <2>2. ASSUME NEW i \in 0 .. n, i \in T, i < n PROVE i + 1 \in T
    <3>1. i + 1 \in 1 .. n /\ i + 1 \in 0 .. n /\ i + 1 # 0 /\ (i + 1) - 1 = i
      BY <1>1, <2>2
    <3>2. f[i + 1] = Next1(i + 1, f[(i + 1) - 1]) /\ h[i + 1] = Next1(i + 1, h[(i + 1) - 1])
      <4> HIDE DEF Next1
      <4> QED BY <1>5, <1>9, <3>1
    <3>3. f[i] = h[i]
      BY <2>2
    <3> HIDE DEF Next1
    <3> QED BY <3>1, <3>2, <3>3
  <2> HIDE DEF T
  <2>3. \A i \in 0 .. n : i \in T
    BY <1>1, <2>1, <2>2, Upto
  <2> QED BY <2>3 DEF T
<1>11. Only(s, S) = h[n]
  BY <1>1, <1>8, <1>10
<1> QED BY <1>4, <1>5, <1>11 DEF n, OnlyUpTo

(* p names the positions of r's elements in the first m of s, all of those  *)
(* that are in S, in order.                                                *)
PositionsOf(p, r, s, m, S) ==
  /\ p \in [1 .. Len(r) -> 1 .. m]
  /\ \A j, k \in 1 .. Len(r) : j < k => p[j] < p[k]
  /\ \A j \in 1 .. Len(r) : r[j] = s[p[j]] /\ s[p[j]] \in S
  /\ \A i \in 1 .. m : s[i] \in S => \E j \in 1 .. Len(r) : p[j] = i

(* What Only keeps of a sequence, and from where.                          *)
LEMMA OnlyFacts ==
  ASSUME NEW E, NEW s \in Seq(E), NEW S
  PROVE  /\ Only(s, S) \in Seq(E) /\ Len(Only(s, S)) <= Len(s)
         /\ \E p : PositionsOf(p, Only(s, S), s, Len(s), S)
<1> DEFINE n == Len(s)
<1>1. PICK f \in [0 .. n -> Seq(E)] :
           /\ Only(s, S) = f[n] /\ f[0] = <<>>
           /\ \A i \in 1 .. n : f[i] = IF s[i] \in S THEN Append(f[i - 1], s[i]) ELSE f[i - 1]
  <2>1. PICK f : OnlyUpTo(f, E, s, S)
    BY OnlyRecursion
  <2> QED BY <2>1 DEF OnlyUpTo
<1>2. n \in Nat /\ n \in 0 .. n /\ \A i \in 1 .. n : s[i] \in E
  OBVIOUS
<1> HIDE DEF n
<1> DEFINE T == {i \in 0 .. n : Len(f[i]) <= i /\ \E p : PositionsOf(p, f[i], s, i, S)}
<1>3. 0 \in T
  <2> DEFINE p == [j \in 1 .. 0 |-> 0]
  <2>1. Len(f[0]) = 0 /\ 1 .. 0 = {}
    BY <1>1
  <2>2. PositionsOf(p, f[0], s, 0, S)
    BY <2>1 DEF PositionsOf
  <2> HIDE DEF p
  <2>3. 0 \in 0 .. n /\ 0 <= 0
    BY <1>2
  <2> QED BY <2>1, <2>2, <2>3
<1>4. ASSUME NEW i \in 0 .. n, i \in T, i < n PROVE i + 1 \in T
  <2>1. i + 1 \in 1 .. n /\ i + 1 \in 0 .. n /\ (i + 1) - 1 = i /\ i \in Nat
    BY <1>2, <1>4
  <2> DEFINE r == f[i]      g == f[i + 1]      q == Len(r)
  <2>2. r \in Seq(E) /\ g \in Seq(E) /\ q \in Nat /\ q <= i
    BY <1>4, <2>1
  <2>3. PICK p : PositionsOf(p, r, s, i, S)
    BY <1>4
  <2>4. g = IF s[i + 1] \in S THEN Append(r, s[i + 1]) ELSE r
    BY <1>1, <2>1
  <2> HIDE DEF r, g
  <2>5. CASE s[i + 1] \notin S
    <3>1. g = r
      BY <2>4, <2>5
    <3>2. \A k \in 1 .. i + 1 : k \in 1 .. i \/ k = i + 1
      BY <2>1
    <3>3. \A k \in 1 .. i : k \in 1 .. i + 1
      BY <2>1
    <3>4. p \in [1 .. Len(r) -> 1 .. i + 1]
      BY <2>3, <3>3 DEF PositionsOf
    <3>5. PositionsOf(p, g, s, i + 1, S)
      BY <2>3, <2>5, <3>1, <3>2, <3>4 DEF PositionsOf
    <3>6. Len(g) <= i + 1
      BY <2>1, <2>2, <3>1
    <3> QED BY <2>1, <3>5, <3>6 DEF g
  <2>6. CASE s[i + 1] \in S
    <3> DEFINE pp == [j \in 1 .. q + 1 |-> IF j <= q THEN p[j] ELSE i + 1]
    <3>1. s[i + 1] \in E
      BY <1>2, <2>1
    <3>2. Len(g) = q + 1 /\ g[q + 1] = s[i + 1] /\ \A j \in 1 .. q : g[j] = r[j]
      BY <2>2, <2>4, <2>6, <3>1
    <3>3. \A j \in 1 .. q + 1 : (j \in 1 .. q /\ j <= q /\ pp[j] = p[j]) \/ (j = q + 1 /\ pp[j] = i + 1)
      BY <2>2
    <3>4. pp = [j \in 1 .. q + 1 |-> pp[j]] /\ \A j \in 1 .. q : j \in 1 .. q + 1 /\ pp[j] = p[j]
      BY <2>2
    <3>4a. q + 1 \in 1 .. q + 1 /\ pp[q + 1] = i + 1
      BY <2>2
    <3> HIDE DEF pp, q
    <3>5. /\ p \in [1 .. q -> 1 .. i]
          /\ \A j, k \in 1 .. q : j < k => p[j] < p[k]
          /\ \A j \in 1 .. q : r[j] = s[p[j]] /\ s[p[j]] \in S
          /\ \A k \in 1 .. i : s[k] \in S => \E j \in 1 .. q : p[j] = k
      BY <2>3 DEF PositionsOf, q
    <3>6. \A j \in 1 .. q : p[j] \in Nat /\ p[j] <= i /\ p[j] \in 1 .. i + 1
      BY <2>1, <3>5
    <3>7. pp \in [1 .. q + 1 -> 1 .. i + 1]
      <4>1. i + 1 \in 1 .. i + 1
        BY <2>1
      <4>2. \A j \in 1 .. q + 1 : pp[j] \in 1 .. i + 1
        BY <3>3, <3>6, <4>1
      <4> QED BY <3>4, <4>2
    <3>8. ASSUME NEW j \in 1 .. q + 1, NEW k \in 1 .. q + 1, j < k PROVE pp[j] < pp[k]
      <4>1. j \in 1 .. q /\ pp[j] = p[j]
        BY <2>2, <3>3, <3>8
      <4>2. CASE k \in 1 .. q
        BY <3>4, <3>5, <3>8, <4>1, <4>2
      <4>3. CASE k = q + 1
        BY <2>1, <3>4a, <3>6, <4>1, <4>3
      <4> QED BY <3>3, <4>2, <4>3
    <3>9. ASSUME NEW j \in 1 .. q + 1 PROVE g[j] = s[pp[j]] /\ s[pp[j]] \in S
      BY <2>6, <3>2, <3>3, <3>5
    <3>10. ASSUME NEW k \in 1 .. i + 1, s[k] \in S PROVE \E j \in 1 .. q + 1 : pp[j] = k
      <4>1. CASE k \in 1 .. i
        BY <3>4, <3>5, <3>10, <4>1
      <4>2. CASE k = i + 1
        BY <3>4a, <4>2
      <4> QED BY <2>1, <4>1, <4>2
    <3>11. PositionsOf(pp, g, s, i + 1, S)
      BY <3>2, <3>7, <3>8, <3>9, <3>10 DEF PositionsOf
    <3>12. Len(g) <= i + 1
      BY <2>1, <2>2, <3>2
    <3> QED BY <2>1, <3>11, <3>12 DEF g
  <2> QED BY <2>5, <2>6
<1>5. n \in T
  <2> HIDE DEF T
  <2> QED BY <1>2, <1>3, <1>4, Upto
<1>6. f[n] \in Seq(E)
  BY <1>1, <1>2
<1> QED BY <1>1, <1>5, <1>6 DEF n

(* Its elements, each from its place. *)
LEMMA OnlyElements ==
  ASSUME NEW E, NEW s \in Seq(E), NEW S
  PROVE  /\ \A j \in 1 .. Len(Only(s, S)) : Only(s, S)[j] \in S /\ \E i \in 1 .. Len(s) : Only(s, S)[j] = s[i]
         /\ \A i \in 1 .. Len(s) : s[i] \in S => \E j \in 1 .. Len(Only(s, S)) : Only(s, S)[j] = s[i]
<1>1. PICK p : PositionsOf(p, Only(s, S), s, Len(s), S)
  BY OnlyFacts
<1> DEFINE r == Only(s, S)      n == Len(s)      m == Len(r)
<1>2. PositionsOf(p, r, s, n, S)
  BY <1>1
<1> HIDE DEF r, n
<1> QED BY <1>2 DEF PositionsOf, r, n

(* It increases by a key if the sequence does.                             *)
LEMMA OnlyIncreases ==
  ASSUME NEW E, NEW K \in [E -> Int], NEW s \in Seq(E), NEW S,
         Rising(s, K)
  PROVE  Rising(Only(s, S), K)
<1> DEFINE r == Only(s, S)      n == Len(s)
<1>1. PICK p : PositionsOf(p, r, s, n, S)
  BY OnlyFacts
<1>2. \A i, j \in 1 .. n : i < j => K[s[i]] < K[s[j]]
  BY DEF Rising
<1> HIDE DEF r, n
<1>3. ASSUME NEW i \in 1 .. Len(r), NEW j \in 1 .. Len(r), i < j PROVE K[r[i]] < K[r[j]]
  <2>1. p[i] \in 1 .. n /\ p[j] \in 1 .. n /\ p[i] < p[j] /\ r[i] = s[p[i]] /\ r[j] = s[p[j]]
    BY <1>1, <1>3 DEF PositionsOf
  <2> QED BY <1>2, <2>1
<1> QED BY <1>3 DEF r, Rising

(***************************************************************************)
(* The log pipeline.  An entry is in the slices of its keys exactly as     *)
(* often as it has the key, and the entries are in the order of their ids; *)
(* so a slice, filtered, is the entries, filtered.                         *)
(***************************************************************************)
(* A piece of a sequence.                                                  *)
LEMMA Piece ==
  ASSUME NEW S, NEW u \in Seq(S), NEW a \in Nat, NEW m \in Nat, 1 <= a, a <= m + 1, m <= Len(u)
  PROVE  /\ SubSeq(u, a, m) \in Seq(S) /\ Len(SubSeq(u, a, m)) = (m - a) + 1
         /\ \A i \in 1 .. (m - a) + 1 : SubSeq(u, a, m)[i] = u[(a + i) - 1]
<1> DEFINE r == SubSeq(u, a, m)      n == Len(u)
<1>1. n \in Nat /\ m <= n /\ \A i \in 1 .. n : u[i] \in S
  OBVIOUS
<1> HIDE DEF n
<1>2. \A i \in a .. m : u[i] \in S
  <2> SUFFICES ASSUME NEW i \in a .. m PROVE u[i] \in S
    OBVIOUS
  <2>1. i \in 1 .. n
    BY <1>1
  <2> QED BY <1>1, <2>1
<1>3. /\ r \in Seq(S) /\ Len(r) = IF a <= m THEN m - a + 1 ELSE 0
      /\ \A i \in 1 .. m - a + 1 : r[i] = u[a + i - 1]
  BY <1>2, SMT
<1> HIDE DEF r
<1>4. Len(r) = (m - a) + 1
  BY <1>3
<1> QED BY <1>3, <1>4 DEF r

(* Where an element is in a sequence, and how often.                       *)
Spots(x, s) == {i \in DOMAIN s : s[i] = x}

LEMMA TimesFacts ==
  ASSUME NEW E, NEW s \in Seq(E), NEW x
  PROVE  /\ IsFiniteSet(Spots(x, s)) /\ Times(x, s) \in Nat
         /\ Times(x, s) = 0 <=> \A i \in 1 .. Len(s) : s[i] # x
         /\ Times(x, s) <= 1 => \A i, j \in 1 .. Len(s) : s[i] = x /\ s[j] = x => i = j
<1> DEFINE D == {i \in DOMAIN s : s[i] = x}
<1>1. Len(s) \in Nat /\ DOMAIN s = 1 .. Len(s)
  OBVIOUS
<1>2. IsFiniteSet(D)
  <2>1. IsFiniteSet(1 .. Len(s))
    BY <1>1, FS_Interval
  <2> QED BY <1>1, <2>1, FS_Subset
<1>3. Times(x, s) = Cardinality(D)
  BY DEF Times
<1>4. \A i \in 1 .. Len(s) : i \in D <=> s[i] = x
  BY <1>1
<1>5. D \subseteq 1 .. Len(s)
  BY <1>1
<1> HIDE DEF D
<1>6. Cardinality(D) \in Nat /\ (Cardinality(D) = 0 <=> D = {})
  BY <1>2, FS_CardinalityType, FS_EmptySet
<1>7. ASSUME Cardinality(D) <= 1, NEW i \in 1 .. Len(s), NEW j \in 1 .. Len(s), s[i] = x, s[j] = x
      PROVE  i = j
  <2>1. i \in D /\ j \in D
    BY <1>4, <1>7
  <2>2. Cardinality(D) = 1
    BY <1>6, <1>7, <2>1
  <2>3. PICK y : D = {y}
    BY <1>2, <2>2, FS_Singleton
  <2> QED BY <2>1, <2>3
<1> QED BY <1>2, <1>3, <1>4, <1>5, <1>6, <1>7 DEF D, Spots

(* addToIndex adds as many copies of an entry as its key has occurrences.  *)
LEMMA CopiesFacts ==
  ASSUME NEW E, NEW s \in Seq(E), NEW e \in E, NEW n \in Nat
  PROVE  LET u == s \o [i \in 1 .. n |-> e] IN
         /\ u \in Seq(E) /\ Len(u) = Len(s) + n
         /\ \A i \in 1 .. Len(s) : u[i] = s[i]
         /\ \A i \in Len(s) + 1 .. Len(s) + n : u[i] = e
         /\ \A x : Times(x, u) = IF x = e THEN Times(x, s) + n ELSE Times(x, s)
<1> DEFINE c == [i \in 1 .. n |-> e]      u == s \o c      l == Len(s)
<1>1. c \in Seq(E) /\ Len(c) = n /\ \A i \in 1 .. n : c[i] = e
  OBVIOUS
<1> HIDE DEF c
<1>2. u \in Seq(E) /\ Len(u) = l + n /\ DOMAIN u = 1 .. l + n /\ DOMAIN s = 1 .. l /\ l \in Nat
      /\ \A i \in 1 .. l : u[i] = s[i]
  BY <1>1
<1>3. \A i \in l + 1 .. l + n : u[i] = e
  <2> SUFFICES ASSUME NEW i \in l + 1 .. l + n PROVE u[i] = e
    OBVIOUS
  <2>1. i - l \in 1 .. n /\ i \in 1 .. l + n /\ ~(i <= l)
    BY <1>2
  <2>2. u[i] = c[i - l]
    BY <1>1, <2>1
  <2> QED BY <1>1, <2>1, <2>2
<1> HIDE DEF u, l
<1>4. ASSUME NEW x PROVE Times(x, u) = IF x = e THEN Times(x, s) + n ELSE Times(x, s)
  <2> DEFINE D == {i \in DOMAIN s : s[i] = x}      F == {i \in DOMAIN u : u[i] = x}
  <2>1. \A i \in 1 .. l + n : i \in 1 .. l \/ i \in l + 1 .. l + n
    BY <1>2
  <2>2. \A i \in 1 .. l : i \in 1 .. l + n
    BY <1>2
  <2>3. IsFiniteSet(D) /\ Cardinality(D) \in Nat /\ Times(x, s) = Cardinality(D)
    <3>1. IsFiniteSet(Spots(x, s)) /\ Times(x, s) \in Nat
      BY TimesFacts
    <3> QED BY <3>1 DEF Times, Spots
  <2>4. Times(x, u) = Cardinality(F)
    BY DEF Times
  <2>5. CASE x # e
    <3>1. F = D
      BY <1>2, <1>3, <2>1, <2>2, <2>5
    <3> QED BY <2>3, <2>4, <2>5, <3>1
  <2>6. CASE x = e
    <3> DEFINE I == l + 1 .. l + n
    <3>1. F = D \cup I
      <4>1. \A i \in I : i \in 1 .. l + n
        BY <1>2
      <4> QED BY <1>2, <1>3, <2>1, <2>2, <2>6, <4>1
    <3>2. IsFiniteSet(I) /\ Cardinality(I) = n
      <4>1. IsFiniteSet(I) /\ Cardinality(I) = IF l + 1 > l + n THEN 0 ELSE ((l + n) - (l + 1)) + 1
        <5>1. l + 1 \in Int /\ l + n \in Int
          BY <1>2
        <5> QED BY <5>1, FS_Interval
      <4> QED BY <1>2, <4>1
    <3>3. D \cap I = {}
      BY <1>2
    <3> HIDE DEF D, I, F
    <3>4. Cardinality(D \cup I) = Cardinality(D) + Cardinality(I) - Cardinality(D \cap I)
      BY <2>3, <3>2, FS_Union
    <3>5. Cardinality(D \cup I) = Cardinality(D) + n
      <4>1. Cardinality(D \cap I) = 0
        BY <3>3, FS_EmptySet
      <4> QED BY <2>3, <3>2, <3>4, <4>1
    <3> QED BY <2>3, <2>4, <2>6, <3>1, <3>5
  <2> QED BY <2>5, <2>6
<1> QED BY <1>2, <1>3, <1>4 DEF u, c, l

(* An entry goes out of a slice.                                           *)
LEMMA SliceFacts ==
  ASSUME NEW s \in Seq(LogEntry), NEW e \in LogEntry
  PROVE  LET r == removeEntryFromSlice(s, e) IN
         \/ r = s /\ \A i \in 1 .. Len(s) : s[i].id # e.id
         \/ \E i \in 1 .. Len(s) :
              /\ s[i].id = e.id
              /\ r \in Seq(LogEntry) /\ Len(r) = Len(s) - 1
              /\ \A j \in 1 .. Len(s) - 1 : r[j] = IF j < i THEN s[j] ELSE s[j + 1]
<1> DEFINE n == Len(s)      Has == {i \in 1 .. n : s[i].id = e.id}
<1>1. DOMAIN s = 1 .. n /\ n \in Nat
  OBVIOUS
<1>2. CASE Has = {}
  <2>1. \A i \in 1 .. n : s[i].id # e.id
    BY <1>2
  <2>2. ~\E i \in DOMAIN s : s[i].id = e.id
    BY <1>1, <2>1
  <2>3. removeEntryFromSlice(s, e) = s
    BY <2>2, Zenon DEF removeEntryFromSlice
  <2> QED BY <2>1, <2>3
<1>3. CASE Has # {}
  <2> DEFINE First(i) == s[i].id = e.id /\ \A j \in 1 .. i - 1 : s[j].id # e.id
             f == CHOOSE i \in DOMAIN s : First(i)
             p == SubSeq(s, 1, f - 1)      q == SubSeq(s, f + 1, n)      r == p \o q
  <2>1. Has \subseteq Nat
    BY <1>1
  <2>2. PICK m \in Has : \A k \in Has : m <= k
    <3> HIDE DEF Has
    <3> QED BY <1>3, <2>1, NatMin
  <2>3. First(m)
    <3>1. ASSUME NEW j \in 1 .. m - 1 PROVE j \notin Has /\ j \in 1 .. n
      <4>1. j \in Nat /\ j < m /\ m <= n /\ m \in Nat
        BY <1>1
      <4> QED BY <1>1, <2>2, <4>1
    <3> QED BY <3>1
  <2>4. f \in 1 .. n /\ First(f)
    BY <1>1, <2>2, <2>3
  <2>5. removeEntryFromSlice(s, e) = r
    <3>1. \E i \in DOMAIN s : s[i].id = e.id
      BY <1>1, <1>3
    <3>2. removeEntryFromSlice(s, e) = RemoveAt(s, f)
      BY <3>1, Zenon DEF removeEntryFromSlice
    <3> QED BY <3>2, Zenon DEF RemoveAt
  <2> HIDE DEF f
  <2>6. /\ p \in Seq(LogEntry) /\ Len(p) = f - 1
        /\ \A i \in 1 .. f - 1 : p[i] = s[i]
    <3>1. 1 \in Nat /\ f - 1 \in Nat /\ 1 <= 1 /\ 1 <= (f - 1) + 1 /\ f - 1 <= Len(s)
      BY <1>1, <2>4
    <3>2. /\ p \in Seq(LogEntry) /\ Len(p) = ((f - 1) - 1) + 1
          /\ \A i \in 1 .. ((f - 1) - 1) + 1 : p[i] = s[(1 + i) - 1]
      BY <3>1, Piece
    <3>3. ((f - 1) - 1) + 1 = f - 1 /\ \A i \in 1 .. f - 1 : (1 + i) - 1 = i
      BY <2>4
    <3> HIDE DEF p
    <3> QED BY <3>2, <3>3
  <2>7. /\ q \in Seq(LogEntry) /\ Len(q) = n - f
        /\ \A i \in 1 .. n - f : q[i] = s[f + i]
    <3>1. f + 1 \in Nat /\ n \in Nat /\ 1 <= f + 1 /\ f + 1 <= n + 1 /\ n <= Len(s)
      BY <1>1, <2>4
    <3>2. /\ q \in Seq(LogEntry) /\ Len(q) = (n - (f + 1)) + 1
          /\ \A i \in 1 .. (n - (f + 1)) + 1 : q[i] = s[((f + 1) + i) - 1]
      BY <3>1, Piece
    <3>3. (n - (f + 1)) + 1 = n - f /\ \A i \in 1 .. n - f : ((f + 1) + i) - 1 = f + i
      BY <1>1, <2>4
    <3> HIDE DEF q
    <3> QED BY <3>2, <3>3
  <2> HIDE DEF p, q
  <2>8. r \in Seq(LogEntry) /\ Len(r) = n - 1
    <3>1. r \in Seq(LogEntry) /\ Len(r) = Len(p) + Len(q)
      <4> DEFINE L == LogEntry
      <4>1. p \in Seq(L) /\ q \in Seq(L)
        BY <2>6, <2>7
      <4> HIDE DEF L
      <4>2. r \in Seq(L) /\ Len(r) = Len(p) + Len(q)
        BY <4>1
      <4> QED BY <4>2 DEF L
    <3> HIDE DEF r
    <3> QED BY <1>1, <2>4, <2>6, <2>7, <3>1
  <2>9. ASSUME NEW j \in 1 .. n - 1 PROVE r[j] = IF j < f THEN s[j] ELSE s[j + 1]
    <3>1. CASE j < f
      <4>1. j \in 1 .. f - 1
        BY <2>4, <3>1
      <4>2. r[j] = p[j]
        BY <2>6, <2>7, <4>1
      <4> QED BY <2>6, <3>1, <4>1, <4>2
    <3>2. CASE ~(j < f)
      <4>1. j - (f - 1) \in 1 .. n - f /\ f + (j - (f - 1)) = j + 1 /\ j \in (f - 1) + 1 .. (f - 1) + (n - f)
        BY <1>1, <2>4, <3>2
      <4>2. r[j] = q[j - (f - 1)]
        BY <2>6, <2>7, <4>1
      <4> QED BY <2>7, <3>2, <4>1, <4>2
    <3> QED BY <3>1, <3>2
  <2> HIDE DEF r
  <2> QED BY <2>4, <2>5, <2>8, <2>9
<1> QED BY <1>2, <1>3

(* Of what is taken out there is one less, of the others as many; and the   *)
(* rest keeps its order.                                                   *)
Ordered(s) == \A i, j \in 1 .. Len(s) : i < j => s[i].id <= s[j].id

LEMMA SliceTimes ==
  ASSUME NEW s \in Seq(LogEntry), NEW e \in LogEntry,
         \A i \in 1 .. Len(s) : s[i].id = e.id => s[i] = e
  PROVE  LET r == removeEntryFromSlice(s, e) IN
         /\ r \in Seq(LogEntry)
         /\ \A x : Times(x, r) = IF x = e /\ Times(e, s) > 0 THEN Times(x, s) - 1 ELSE Times(x, s)
         /\ Ordered(s) => Ordered(r)
         /\ \A i \in 1 .. Len(r) : r[i].id = e.id => r[i] = e
<1> DEFINE r == removeEntryFromSlice(s, e)      n == Len(s)
<1>1. n \in Nat /\ DOMAIN s = 1 .. n
  OBVIOUS
<1>2. CASE r = s /\ \A i \in 1 .. n : s[i].id # e.id
  <2>1. Times(e, s) = 0
    <3>1. \A i \in 1 .. n : s[i] # e
      BY <1>2
    <3> QED BY <3>1, TimesFacts
  <2> HIDE DEF r
  <2> QED BY <1>2, <2>1 DEF r
<1>3. CASE \E i \in 1 .. n :
              /\ s[i].id = e.id
              /\ r \in Seq(LogEntry) /\ Len(r) = n - 1
              /\ \A j \in 1 .. n - 1 : r[j] = IF j < i THEN s[j] ELSE s[j + 1]
  <2> HIDE DEF r
  <2>1. PICK f \in 1 .. n :
              /\ s[f].id = e.id
              /\ r \in Seq(LogEntry) /\ Len(r) = n - 1
              /\ \A j \in 1 .. n - 1 : r[j] = IF j < f THEN s[j] ELSE s[j + 1]
    BY <1>3
  <2> HIDE DEF n
  <2> DEFINE Was(j) == IF j < f THEN j ELSE j + 1
  <2>2. \A j \in 1 .. n - 1 : Was(j) \in 1 .. n /\ Was(j) # f /\ r[j] = s[Was(j)]
    BY <1>1, <2>1
  <2>3. \A i \in 1 .. n : i # f => \E j \in 1 .. n - 1 : Was(j) = i
    <3> SUFFICES ASSUME NEW i \in 1 .. n, i # f PROVE \E j \in 1 .. n - 1 : Was(j) = i
      OBVIOUS
    <3>1. CASE i < f
      <4>1. i \in 1 .. n - 1 /\ Was(i) = i
        BY <1>1, <3>1
      <4> QED BY <4>1
    <3>2. CASE i > f
      <4>1. i - 1 \in 1 .. n - 1 /\ Was(i - 1) = i
        BY <1>1, <3>2
      <4> QED BY <4>1
    <3> QED BY <1>1, <3>1, <3>2
  <2>4. \A j, k \in 1 .. n - 1 : j < k => Was(j) < Was(k)
    BY <1>1
  <2>5. s[f] = e
    BY <2>1 DEF n
  <2>6. Times(e, s) > 0
    <3>1. Times(e, s) \in Nat /\ Times(e, s) # 0
      BY <2>5, TimesFacts DEF n
    <3> QED BY <3>1
  <2>7. ASSUME NEW x PROVE Times(x, r) = IF x = e /\ Times(e, s) > 0 THEN Times(x, s) - 1 ELSE Times(x, s)
    <3> DEFINE D == {i \in DOMAIN s : s[i] = x}      F == {i \in DOMAIN r : r[i] = x}
               g == [j \in F |-> Was(j)]
    <3>1. IsFiniteSet(D) /\ IsFiniteSet(F)
      <4>1. r \in Seq(LogEntry)
        BY <2>1
      <4>2. IsFiniteSet(Spots(x, s)) /\ IsFiniteSet(Spots(x, r))
        BY <4>1, TimesFacts
      <4> QED BY <4>2 DEF Spots
    <3>2. Times(x, s) = Cardinality(D) /\ Times(x, r) = Cardinality(F)
      BY DEF Times
    <3>3. F = {j \in 1 .. n - 1 : r[j] = x} /\ D = {i \in 1 .. n : s[i] = x}
      <4>1. DOMAIN r = 1 .. n - 1
        BY <1>1, <2>1
      <4> QED BY <1>1, <4>1
    <3>4. ExistsBijection(F, D \ {f})
      <4> HIDE DEF Was
      <4>1. \A j \in F : Was(j) \in D \ {f}
        BY <2>2, <3>3
      <4>2. \A j, k \in F : Was(j) = Was(k) => j = k
        <5> SUFFICES ASSUME NEW j \in F, NEW k \in F, Was(j) = Was(k) PROVE j = k
          OBVIOUS
        <5>1. j \in 1 .. n - 1 /\ k \in 1 .. n - 1
          BY <3>3
        <5>2. Was(j) \in Int /\ Was(k) \in Int
          BY <2>2, <5>1
        <5>3. ~(j < k) /\ ~(k < j)
          BY <2>4, <5>1, <5>2
        <5> QED BY <5>1, <5>3
      <4>3. \A i \in D \ {f} : \E j \in F : Was(j) = i
        BY <2>2, <2>3, <3>3
      <4> HIDE DEF F, D
      <4>4. g \in Bijection(F, D \ {f})
        BY <4>1, <4>2, <4>3 DEF Bijection, Injection, Surjection, IsInjective
      <4> QED BY <4>4 DEF ExistsBijection
    <3> HIDE DEF F, D, g
    <3>5. Cardinality(D \ {f}) = Cardinality(F)
      BY <3>1, <3>4, FS_Bijection
    <3>6. Cardinality(D \ {f}) = IF f \in D THEN Cardinality(D) - 1 ELSE Cardinality(D)
      BY <3>1, FS_RemoveElement
    <3>7. f \in D <=> x = e
      BY <2>5, <3>3
    <3> QED BY <2>6, <3>2, <3>5, <3>6, <3>7
  <2>8. ASSUME Ordered(s) PROVE Ordered(r)
    <3> SUFFICES ASSUME NEW j \in 1 .. n - 1, NEW k \in 1 .. n - 1, j < k PROVE r[j].id <= r[k].id
      BY <2>1 DEF Ordered
    <3>1. Was(j) \in 1 .. n /\ Was(k) \in 1 .. n /\ Was(j) < Was(k) /\ r[j] = s[Was(j)] /\ r[k] = s[Was(k)]
      BY <2>2, <2>4
    <3> HIDE DEF Was
    <3> QED BY <2>8, <3>1 DEF Ordered, n
  <2>9. ASSUME NEW j \in 1 .. Len(r), r[j].id = e.id PROVE r[j] = e
    <3>1. Was(j) \in 1 .. n /\ r[j] = s[Was(j)]
      BY <2>1, <2>2
    <3> HIDE DEF Was
    <3> QED BY <2>9, <3>1 DEF n
  <2> QED BY <2>1, <2>7, <2>8, <2>9 DEF r
<1>4. (r = s /\ \A i \in 1 .. n : s[i].id # e.id) \/ \E i \in 1 .. n :
              /\ s[i].id = e.id
              /\ r \in Seq(LogEntry) /\ Len(r) = n - 1
              /\ \A j \in 1 .. n - 1 : r[j] = IF j < i THEN s[j] ELSE s[j + 1]
  BY SliceFacts
<1> QED BY <1>2, <1>3, <1>4

(* A slice loses every copy of an entry when as many are taken out.        *)
RemovedUpTo(f, n, s, e) ==
  /\ f \in [0 .. n -> Seq(LogEntry)] /\ RemovedTimes(n, s, e) = f[n] /\ f[0] = s
  /\ \A i \in 1 .. n : f[i] = removeEntryFromSlice(f[i - 1], e)
LEMMA RemovedRecursion ==
  ASSUME NEW s \in Seq(LogEntry), NEW e \in LogEntry, NEW n \in Nat
  PROVE  \E f : RemovedUpTo(f, n, s, e)
<1> DEFINE V == Seq(LogEntry)      Take1(x) == removeEntryFromSlice(x, e)
           Is(f) == f = [i \in 0 .. n |-> IF i = 0 THEN s ELSE Take1(f[i - 1])]
           G == [i \in 1 .. n |-> [x \in V |-> Take1(x)]]
<1>1. \A x \in V : Take1(x) \in V
  <2> SUFFICES ASSUME NEW x \in Seq(LogEntry) PROVE removeEntryFromSlice(x, e) \in Seq(LogEntry)
    OBVIOUS
  <2> DEFINE r == removeEntryFromSlice(x, e)
  <2>1. r = x \/ r \in Seq(LogEntry)
    BY SliceFacts
  <2> QED BY <2>1
<1>2. s \in V
  OBVIOUS
<1> HIDE DEF V, Take1
<1>3. G \in [1 .. n -> [V -> V]] /\ \A i \in 1 .. n : \A x \in V : G[i][x] = Take1(x)
  BY <1>1
<1> HIDE DEF G
<1>4. PICK h \in [0 .. n -> V] : h[0] = s /\ \A i \in 1 .. n : h[i] = G[i][h[i - 1]]
  <2>1. Recursive(V, n, s, G)
    BY <1>2, <1>3, RecursionExists
  <2> QED BY <2>1 DEF Recursive
<1>5. \A i \in 1 .. n : h[i] = Take1(h[i - 1])
  <2> SUFFICES ASSUME NEW i \in 1 .. n PROVE h[i] = Take1(h[i - 1])
    OBVIOUS
  <2>1. i - 1 \in 0 .. n
    OBVIOUS
  <2>2. h[i - 1] \in V
    BY <2>1
  <2> QED BY <1>3, <1>4, <2>2
<1>6. Is(h)
  <2>1. h = [i \in 0 .. n |-> h[i]]
    OBVIOUS
  <2>2. \A i \in 0 .. n : i = 0 \/ i \in 1 .. n
    OBVIOUS
  <2> QED BY <1>4, <1>5, <2>1, <2>2
<1> DEFINE f == CHOOSE g : Is(g)
<1>7. Is(f)
  <2> HIDE DEF Is
  <2> QED BY <1>6
<1>8. RemovedTimes(n, s, e) = f[n]
  BY DEF RemovedTimes, Take1
<1> HIDE DEF f
<1>9. \A i \in 0 .. n : f[i] = IF i = 0 THEN s ELSE Take1(f[i - 1])
  BY <1>7
<1>10. \A i \in 0 .. n : f[i] = h[i]
  <2> DEFINE T == {i \in 0 .. n : f[i] = h[i]}
  <2>1. 0 \in T
    BY <1>4, <1>9
  <2>2. ASSUME NEW i \in 0 .. n, i \in T, i < n PROVE i + 1 \in T
    <3>1. i + 1 \in 1 .. n /\ i + 1 \in 0 .. n /\ i + 1 # 0 /\ (i + 1) - 1 = i
      BY <2>2
    <3>2. f[i + 1] = Take1(f[(i + 1) - 1]) /\ h[i + 1] = Take1(h[(i + 1) - 1])
      BY <1>5, <1>9, <3>1
    <3>3. f[i] = h[i]
      BY <2>2
    <3> QED BY <3>1, <3>2, <3>3
  <2> HIDE DEF T
  <2>3. \A i \in 0 .. n : i \in T
    BY <2>1, <2>2, Upto
  <2> QED BY <2>3 DEF T
<1>11. RemovedTimes(n, s, e) = h[n]
  BY <1>8, <1>10
<1> QED BY <1>4, <1>5, <1>11 DEF RemovedUpTo, V, Take1

(* removeFromIndex takes every copy of the entry out, and nothing else.    *)
LEMMA RemovedFacts ==
  ASSUME NEW s \in Seq(LogEntry), NEW e \in LogEntry, NEW n \in Nat, n = Times(e, s),
         \A i \in 1 .. Len(s) : s[i].id = e.id => s[i] = e
  PROVE  LET r == RemovedTimes(n, s, e) IN
         /\ r \in Seq(LogEntry)
         /\ \A x : Times(x, r) = IF x = e THEN 0 ELSE Times(x, s)
         /\ Ordered(s) => Ordered(r)
<1> PICK f : RemovedUpTo(f, n, s, e)
  BY RemovedRecursion
<1>1. /\ f \in [0 .. n -> Seq(LogEntry)] /\ RemovedTimes(n, s, e) = f[n] /\ f[0] = s
      /\ \A i \in 1 .. n : f[i] = removeEntryFromSlice(f[i - 1], e)
  BY DEF RemovedUpTo
<1> DEFINE Taken(r, i) ==
             /\ \A x : Times(x, r) = IF x = e THEN n - i ELSE Times(x, s)
             /\ Ordered(s) => Ordered(r)
             /\ \A j \in 1 .. Len(r) : r[j].id = e.id => r[j] = e
           T == {i \in 0 .. n : Taken(f[i], i)}
<1>2. 0 \in T
  BY <1>1
<1>3. ASSUME NEW i \in 0 .. n, i \in T, i < n PROVE i + 1 \in T
  <2>1. i + 1 \in 1 .. n /\ i + 1 \in 0 .. n /\ (i + 1) - 1 = i /\ i \in Nat /\ n - i > 0
        /\ (n - i) - 1 = n - (i + 1)
    BY <1>3
  <2> DEFINE u == f[i]      r == removeEntryFromSlice(u, e)
  <2>2. u \in Seq(LogEntry) /\ Taken(u, i) /\ f[i + 1] = r
    BY <1>1, <1>3, <2>1
  <2> HIDE DEF u
  <2>3. /\ \A x : Times(x, r) = IF x = e /\ Times(e, u) > 0 THEN Times(x, u) - 1 ELSE Times(x, u)
        /\ Ordered(u) => Ordered(r)
        /\ \A j \in 1 .. Len(r) : r[j].id = e.id => r[j] = e
    BY <2>2, SliceTimes
  <2> HIDE DEF r
  <2>4. Times(e, u) = n - i
    BY <2>2
  <2>5. ASSUME NEW x PROVE Times(x, r) = IF x = e THEN n - (i + 1) ELSE Times(x, s)
    <3>1. CASE x = e
      BY <2>1, <2>3, <2>4, <3>1
    <3>2. CASE x # e
      BY <2>2, <2>3, <3>2
    <3> QED BY <3>1, <3>2
  <2>6. Taken(r, i + 1)
    BY <2>2, <2>3, <2>5
  <2> HIDE DEF Taken
  <2> QED BY <2>1, <2>2, <2>6
<1>4. n \in T
  <2> HIDE DEF T
  <2>1. n \in 0 .. n
    OBVIOUS
  <2> QED BY <1>2, <1>3, <2>1, Upto
<1>5. n - n = 0 /\ n \in 0 .. n /\ f[n] \in Seq(LogEntry)
  BY <1>1
<1> QED BY <1>1, <1>4, <1>5

(* How often a key occurs in an entry.                                     *)
LEMMA EntryTypes ==
  ASSUME NEW e \in LogEntry
  PROVE  /\ e.id \in Nat /\ e.id \in 1 .. MaxLogs /\ e.tenant \in LogTenants /\ e.level \in Levels /\ e.tags \in Texts
         /\ e.failed \in BOOLEAN
BY LogAssumption DEF LogEntry

(* An entry is under its tenant and its level once, under a tag as often as*)
(* it has it, and under no other key.                                      *)
LEMMA KeysFacts ==
  ASSUME NEW e \in LogEntry, NEW k \in IndexKeys
  PROVE  /\ Times(k, KeysOf(e)) \in Nat
         /\ k \in LogTenants => Times(k, KeysOf(e)) = IF e.tenant = k THEN 1 ELSE 0
         /\ k \in Levels => Times(k, KeysOf(e)) = IF e.level = k THEN 1 ELSE 0
         /\ k \in Tags => (Times(k, KeysOf(e)) > 0 <=> k \in ToSet(e.tags))
<1> DEFINE K == KeysOf(e)      g == e.tags
<1>1. e.tenant \in LogTenants /\ e.level \in Levels /\ (g = <<>> \/ g = <<"slow", "slow">>)
  BY EntryTypes DEF Texts
<1>2. /\ K \in Seq(IndexKeys) /\ K[1] = e.tenant /\ K[2] = e.level /\ Len(K) = 2 + Len(g)
      /\ \A i \in 1 .. Len(g) : K[2 + i] = g[i] /\ g[i] = "slow"
      /\ (Len(g) = 0 \/ Len(g) = 2) /\ (Len(g) > 0 <=> "slow" \in ToSet(g))
  <2>1. e.tenant \in IndexKeys /\ e.level \in IndexKeys /\ "slow" \in IndexKeys
    BY <1>1 DEF IndexKeys, Tags
  <2>2. <<e.tenant, e.level>> \in Seq(IndexKeys) /\ Len(<<e.tenant, e.level>>) = 2
        /\ <<e.tenant, e.level>>[1] = e.tenant /\ <<e.tenant, e.level>>[2] = e.level
    BY <2>1
  <2>3. g \in Seq(IndexKeys)
    <3>1. CASE g = <<>>
      BY <3>1
    <3>2. CASE g = <<"slow", "slow">>
      <4>1. <<"slow", "slow">> \in Seq(IndexKeys)
        BY <2>1
      <4> QED BY <3>2, <4>1
    <3> QED BY <1>1, <3>1, <3>2
  <2> DEFINE u == <<e.tenant, e.level>>
  <2>4. K = u \o g
    BY DEF KeysOf
  <2>5. (Len(g) = 0 \/ Len(g) = 2) /\ (\A i \in 1 .. Len(g) : g[i] = "slow") /\ (Len(g) > 0 <=> "slow" \in ToSet(g))
    <3>1. CASE g = <<>>
      <4>1. Len(g) = 0 /\ DOMAIN g = {}
        BY <3>1
      <4>2. ToSet(g) = {}
        BY <4>1 DEF ToSet
      <4> QED BY <4>1, <4>2
    <3>2. CASE g = <<"slow", "slow">>
      <4>1. Len(g) = 2 /\ (\A i \in 1 .. 2 : g[i] = "slow") /\ 1 \in DOMAIN g /\ g[1] = "slow"
        BY <3>2
      <4>2. "slow" \in ToSet(g)
        BY <4>1 DEF ToSet
      <4> QED BY <4>1, <4>2
    <3> QED BY <1>1, <3>1, <3>2
  <2> HIDE DEF u, g
  <2>6. /\ u \o g \in Seq(IndexKeys) /\ Len(u \o g) = 2 + Len(g)
        /\ (u \o g)[1] = u[1] /\ (u \o g)[2] = u[2] /\ \A i \in 1 .. Len(g) : (u \o g)[2 + i] = g[i]
    BY <2>2, <2>3 DEF u
  <2> HIDE DEF K
  <2> QED BY <2>2, <2>4, <2>5, <2>6 DEF u
<1> HIDE DEF K, g
<1>3. DOMAIN K = 1 .. 2 + Len(g)
  BY <1>2
<1>4. /\ Times(k, K) \in Nat /\ (Times(k, K) = 0 <=> \A i \in 1 .. Len(K) : K[i] # k)
  BY <1>2, TimesFacts
<1>5. /\ "slow" \notin LogTenants /\ e.level \notin LogTenants /\ "slow" \notin Levels /\ e.tenant \notin Levels
      /\ e.tenant # "slow" /\ e.level # "slow"
  BY <1>1, LogAssumption DEF Levels, Tags
<1>6. \A i \in 1 .. 2 + Len(g) : i = 1 \/ i = 2 \/ K[i] = "slow"
  <2> SUFFICES ASSUME NEW i \in 1 .. 2 + Len(g), i # 1, i # 2 PROVE K[i] = "slow"
    OBVIOUS
  <2>1. i - 2 \in 1 .. Len(g) /\ 2 + (i - 2) = i
    BY <1>2
  <2> QED BY <1>2, <2>1
<1>7. 1 \in 1 .. 2 + Len(g) /\ 2 \in 1 .. 2 + Len(g)
  BY <1>2
<1> DEFINE D == {i \in DOMAIN K : K[i] = k}
<1>8. Times(k, K) = Cardinality(D)
  BY DEF Times
<1>9. Cardinality({1}) = 1 /\ Cardinality({2}) = 1 /\ Cardinality({}) = 0
  BY FS_Singleton, FS_EmptySet
<1>10. ASSUME k \in LogTenants PROVE Times(k, K) = IF e.tenant = k THEN 1 ELSE 0
  <2>1. D = IF e.tenant = k THEN {1} ELSE {}
    BY <1>2, <1>3, <1>5, <1>6, <1>7, <1>10
  <2> HIDE DEF D
  <2> QED BY <1>8, <1>9, <2>1
<1>11. ASSUME k \in Levels PROVE Times(k, K) = IF e.level = k THEN 1 ELSE 0
  <2>1. D = IF e.level = k THEN {2} ELSE {}
    BY <1>2, <1>3, <1>5, <1>6, <1>7, <1>11
  <2> HIDE DEF D
  <2> QED BY <1>8, <1>9, <2>1
<1>12. ASSUME k \in Tags PROVE Times(k, K) > 0 <=> k \in ToSet(g)
  <2>1. k = "slow"
    BY <1>12 DEF Tags
  <2>2. CASE Len(g) = 0
    <3>1. \A i \in 1 .. Len(K) : K[i] # k
      <4> SUFFICES ASSUME NEW i \in 1 .. Len(K) PROVE K[i] # k
        OBVIOUS
      <4>1. i = 1 \/ i = 2
        BY <1>2, <2>2
      <4> QED BY <1>2, <1>5, <2>1, <4>1
    <3> QED BY <1>2, <1>4, <2>1, <2>2, <3>1
  <2>3. CASE Len(g) = 2
    <3>1. 3 \in 1 .. Len(K) /\ K[3] = k
      <4>1. 1 \in 1 .. Len(g) /\ 2 + 1 = 3
        BY <2>3
      <4> QED BY <1>2, <2>1, <2>3, <4>1
    <3>2. Times(k, K) # 0
      BY <1>4, <3>1
    <3> QED BY <1>2, <1>4, <2>1, <2>3, <3>2
  <2> QED BY <1>2, <2>2, <2>3
<1> QED BY <1>4, <1>10, <1>11, <1>12 DEF K, g

(* What makes the index exact: each entry is under each of its keys as      *)
(* often as it has it, and under no other; and ids grow.                   *)
EntriesSound ==
  /\ entries \in Seq(LogEntry) /\ Len(entries) <= LogSize /\ logged \in 0 .. MaxLogs
  /\ \A i, j \in 1 .. Len(entries) : i < j => entries[i].id < entries[j].id
  /\ \A i \in 1 .. Len(entries) : entries[i].id <= logged
Logged(e) == \E i \in 1 .. Len(entries) : entries[i] = e
SliceSound(k) ==
  /\ index[k] \in Seq(LogEntry) /\ Ordered(index[k])
  /\ \A e \in LogEntry : Times(e, index[k]) = IF Logged(e) THEN Times(k, KeysOf(e)) ELSE 0
IndexSound == index = [k \in IndexKeys |-> index[k]] /\ \A k \in IndexKeys : SliceSound(k)

(* Entries are told apart by their ids.                                    *)
LEMMA SameId ==
  ASSUME EntriesSound, NEW d \in LogEntry, NEW e \in LogEntry, Logged(d), Logged(e), d.id = e.id
  PROVE  d = e
<1>1. PICK i \in 1 .. Len(entries) : entries[i] = d
  BY DEF Logged
<1>2. PICK j \in 1 .. Len(entries) : entries[j] = e
  BY DEF Logged
<1>3. Len(entries) \in Nat /\ d.id \in Nat
  BY EntryTypes DEF EntriesSound
<1>4. ~(i < j) /\ ~(j < i)
  BY <1>1, <1>2, <1>3 DEF EntriesSound
<1>5. i = j
  BY <1>3, <1>4
<1> QED BY <1>1, <1>2, <1>5

(* What a slice of the index holds.                                        *)
LEMMA SliceHolds ==
  ASSUME EntriesSound, NEW k \in IndexKeys, SliceSound(k)
  PROVE  /\ \A i \in 1 .. Len(index[k]) : /\ index[k][i] \in LogEntry /\ Logged(index[k][i])
                                          /\ Times(k, KeysOf(index[k][i])) > 0
         /\ \A e \in LogEntry : Logged(e) /\ Times(k, KeysOf(e)) > 0 => \E i \in 1 .. Len(index[k]) : index[k][i] = e
<1> DEFINE s == index[k]
<1>1. s \in Seq(LogEntry)
  BY DEF SliceSound
<1>2. \A e \in LogEntry : Times(e, s) = IF Logged(e) THEN Times(k, KeysOf(e)) ELSE 0
  BY DEF SliceSound
<1> HIDE DEF s
<1>3. ASSUME NEW i \in 1 .. Len(s) PROVE s[i] \in LogEntry /\ Logged(s[i]) /\ Times(k, KeysOf(s[i])) > 0
  <2>1. s[i] \in LogEntry
    BY <1>1
  <2>2. Times(s[i], s) \in Nat /\ Times(s[i], s) # 0
    BY <1>1, TimesFacts
  <2>3. Times(k, KeysOf(s[i])) \in Nat
    BY <2>1, KeysFacts
  <2> QED BY <1>2, <2>1, <2>2, <2>3
<1>4. ASSUME NEW e \in LogEntry, Logged(e), Times(k, KeysOf(e)) > 0 PROVE \E i \in 1 .. Len(s) : s[i] = e
  <2>1. Times(e, s) # 0
    BY <1>2, <1>4
  <2> QED BY <1>1, <2>1, TimesFacts
<1> QED BY <1>3, <1>4 DEF s

(* Under a tenant or a level, an entry is there once.                      *)
LEMMA SliceIncreases ==
  ASSUME EntriesSound, NEW k \in LogTenants \cup Levels, SliceSound(k)
  PROVE  \A i, j \in 1 .. Len(index[k]) : i < j => index[k][i].id < index[k][j].id
<1> DEFINE s == index[k]
<1>0. k \in IndexKeys
  BY DEF IndexKeys
<1>1. s \in Seq(LogEntry) /\ Ordered(s) /\ \A e \in LogEntry : Times(e, s) = IF Logged(e) THEN Times(k, KeysOf(e)) ELSE 0
  BY DEF SliceSound
<1>2. \A i \in 1 .. Len(s) : s[i] \in LogEntry /\ Logged(s[i])
  BY <1>0, SliceHolds
<1> HIDE DEF s
<1>3. ASSUME NEW i \in 1 .. Len(s), NEW j \in 1 .. Len(s), i < j PROVE s[i].id < s[j].id
  <2>1. s[i].id <= s[j].id
    BY <1>1, <1>3 DEF Ordered
  <2>2. s[i].id \in Nat /\ s[j].id \in Nat
    BY <1>2, EntryTypes
  <2>3. s[i].id # s[j].id
    <3> SUFFICES ASSUME s[i].id = s[j].id PROVE FALSE
      OBVIOUS
    <3>1. s[i] = s[j]
      BY <1>2, SameId
    <3>2. Times(k, KeysOf(s[i])) \in Nat /\ Times(k, KeysOf(s[i])) <= 1
      <4>1. Times(k, KeysOf(s[i])) \in {0, 1}
        BY <1>0, <1>2, KeysFacts
      <4> QED BY <4>1
    <3>3. Times(s[i], s) <= 1
      BY <1>1, <1>2, <3>2
    <3>4. i = j
      BY <1>1, <3>1, <3>3, TimesFacts
    <3> QED BY <1>3, <3>4
  <2> QED BY <2>1, <2>2, <2>3
<1> QED BY <1>3 DEF s

(* The end of a sequence is a suffix of it.                                *)
LEMMA EndIsSuffix ==
  ASSUME NEW S, NEW u \in Seq(S), NEW p \in Seq(S), Len(p) <= Len(u),
         \A i \in 1 .. Len(p) : p[i] = u[(Len(u) - Len(p)) + i]
  PROVE  IsSuffix(p, u)
<1> DEFINE n == Len(u)      m == Len(p)      a == Reverse(p)      b == Reverse(u)
<1>1. n \in Nat /\ m \in Nat /\ m <= n /\ (\A i \in 1 .. n : u[i] \in S) /\ (\A i \in 1 .. m : p[i] \in S)
      /\ \A i \in 1 .. m : p[i] = u[(n - m) + i]
  OBVIOUS
<1>2. a = [i \in 1 .. m |-> p[(m - i) + 1]] /\ b = [i \in 1 .. n |-> u[(n - i) + 1]]
  BY DEF Reverse
<1> HIDE DEF n, m, a, b
<1>3. (\A i \in 1 .. m : (m - i) + 1 \in 1 .. m) /\ (\A i \in 1 .. n : (n - i) + 1 \in 1 .. n)
  BY <1>1
<1>4. a \in Seq(S) /\ Len(a) = m /\ \A i \in 1 .. m : a[i] = p[(m - i) + 1]
  <2>1. a \in [1 .. m -> S]
    BY <1>1, <1>2, <1>3
  <2> QED BY <1>1, <1>2, <2>1
<1>5. b \in Seq(S) /\ Len(b) = n /\ \A i \in 1 .. n : b[i] = u[(n - i) + 1]
  <2>1. b \in [1 .. n -> S]
    BY <1>1, <1>2, <1>3
  <2> QED BY <1>1, <1>2, <2>1
<1>6. \A i \in 1 .. m : a[i] = b[i]
  <2> SUFFICES ASSUME NEW i \in 1 .. m PROVE a[i] = b[i]
    OBVIOUS
  <2>1. i \in 1 .. n /\ (m - i) + 1 \in 1 .. m /\ (n - m) + ((m - i) + 1) = (n - i) + 1
    BY <1>1, <1>3
  <2>2. p[(m - i) + 1] = u[(n - m) + ((m - i) + 1)]
    BY <1>1, <2>1
  <2>3. a[i] = p[(m - i) + 1] /\ b[i] = u[(n - i) + 1]
    BY <1>4, <1>5, <2>1
  <2> QED BY <2>1, <2>2, <2>3
<1>7. 1 \in Nat /\ 1 <= m + 1 /\ m <= Len(a) /\ m <= Len(b) /\ (m - 1) + 1 = m /\ \A i \in 1 .. m : (1 + i) - 1 = i
  BY <1>1, <1>4, <1>5
<1>8. SubSeq(a, 1, m) \in Seq(S) /\ Len(SubSeq(a, 1, m)) = m /\ \A i \in 1 .. m : SubSeq(a, 1, m)[i] = a[i]
  <2>1. SubSeq(a, 1, m) \in Seq(S) /\ Len(SubSeq(a, 1, m)) = (m - 1) + 1
        /\ \A i \in 1 .. (m - 1) + 1 : SubSeq(a, 1, m)[i] = a[(1 + i) - 1]
    BY <1>1, <1>4, <1>7, Piece
  <2> QED BY <1>7, <2>1
<1>9. SubSeq(b, 1, m) \in Seq(S) /\ Len(SubSeq(b, 1, m)) = m /\ \A i \in 1 .. m : SubSeq(b, 1, m)[i] = b[i]
  <2>1. SubSeq(b, 1, m) \in Seq(S) /\ Len(SubSeq(b, 1, m)) = (m - 1) + 1
        /\ \A i \in 1 .. (m - 1) + 1 : SubSeq(b, 1, m)[i] = b[(1 + i) - 1]
    BY <1>1, <1>5, <1>7, Piece
  <2> QED BY <1>7, <2>1
<1>10. SubSeq(a, 1, m) = SubSeq(b, 1, m)
  BY <1>6, <1>8, <1>9, SameSeq
<1>11. IsPrefix(a, b)
  BY <1>1, <1>4, <1>5, <1>10 DEF IsPrefix
<1> QED BY <1>11 DEF IsSuffix, a, b

(* Two answers with the same entries are the same answer.                  *)
LEMMA SameAnswers ==
  ASSUME EntriesSound, NEW c \in Seq(LogEntry), NEW S, NEW W,
         \A i, j \in 1 .. Len(c) : i < j => c[i].id < c[j].id,
         \A i \in 1 .. Len(c) : c[i] \in S => Logged(c[i]) /\ c[i] \in W,
         \A e \in LogEntry : Logged(e) /\ e \in W => e \in S /\ \E i \in 1 .. Len(c) : c[i] = e
  PROVE  Only(c, S) = Only(entries, W)
<1> DEFINE L == LogEntry      K == [e \in L |-> e.id]      u == Only(c, S)      v == Only(entries, W)
<1>1. c \in Seq(L) /\ entries \in Seq(L) /\ (\A i \in 1 .. Len(c) : c[i] \in L)
      /\ (\A i \in 1 .. Len(entries) : entries[i] \in L)
  BY DEF EntriesSound
<1>2. K \in [L -> Int] /\ \A e \in L : K[e] = e.id
  <2>1. \A e \in L : e.id \in Int
    BY EntryTypes
  <2> QED BY <2>1
<1>3. Rising(c, K) /\ Rising(entries, K)
  <2> HIDE DEF K, L
  <2>1. \A i, j \in 1 .. Len(entries) : i < j => entries[i].id < entries[j].id
    BY DEF EntriesSound
  <2> QED BY <1>1, <1>2, <2>1 DEF Rising
<1> HIDE DEF L, K
<1>4. u \in Seq(L) /\ v \in Seq(L)
  BY <1>1, OnlyFacts
<1>5. Rising(u, K)
  BY <1>1, <1>2, <1>3, OnlyIncreases
<1>6. Rising(v, K)
  BY <1>1, <1>2, <1>3, OnlyIncreases
<1>7. /\ \A j \in 1 .. Len(u) : u[j] \in S /\ \E i \in 1 .. Len(c) : u[j] = c[i]
      /\ \A i \in 1 .. Len(c) : c[i] \in S => \E j \in 1 .. Len(u) : u[j] = c[i]
  BY <1>1, OnlyElements
<1>8. /\ \A j \in 1 .. Len(v) : v[j] \in W /\ \E i \in 1 .. Len(entries) : v[j] = entries[i]
      /\ \A i \in 1 .. Len(entries) : entries[i] \in W => \E j \in 1 .. Len(v) : v[j] = entries[i]
  BY <1>1, OnlyElements
<1> HIDE DEF u, v
<1>9. ASSUME NEW i \in 1 .. Len(u) PROVE \E j \in 1 .. Len(v) : u[i] = v[j]
  <2>1. Logged(u[i]) /\ u[i] \in W
    BY <1>7
  <2>2. PICK k \in 1 .. Len(entries) : entries[k] = u[i]
    BY <2>1 DEF Logged
  <2> QED BY <1>8, <2>1, <2>2
<1>10. ASSUME NEW i \in 1 .. Len(v) PROVE \E j \in 1 .. Len(u) : v[i] = u[j]
  <2>1. PICK k \in 1 .. Len(entries) : v[i] = entries[k]
    BY <1>8
  <2>2. v[i] \in LogEntry /\ Logged(v[i]) /\ v[i] \in W
    BY <1>1, <1>8, <2>1 DEF Logged, L
  <2>3. v[i] \in S /\ \E k1 \in 1 .. Len(c) : c[k1] = v[i]
    BY <2>2
  <2> QED BY <1>7, <2>3
<1>11. Among(u, v) /\ Among(v, u)
  BY <1>9, <1>10 DEF Among
<1>12. K \in [L -> Int] /\ u \in Seq(L) /\ v \in Seq(L)
  BY <1>2, <1>4
<1>13. u = v
  BY <1>5, <1>6, <1>11, <1>12, SameIncreasing
<1> QED BY <1>13 DEF u, v

(* A query through the index gives the last entries that match, the ones a *)
(* walk of all of them gives: the slice of its key is the entries that have*)
(* the key, and the rest of the filter is the same.                        *)
LEMMA QueryIsWalk ==
  ASSUME EntriesSound, IndexSound, NEW f \in Filter
  PROVE  Query(f) = Walk(f)
<1> DEFINE W == {e \in LogEntry : f.tenant \in {Unasked, e.tenant} /\ matchesFilter(e, f)}
           S == Matching(f)
<1>1. Walk(f) = Only(entries, W)
  BY DEF Walk
<1>2. \A e : e \in S <=> e \in LogEntry /\ matchesFilter(e, f)
  BY DEF Matching
<1>3. \A e : e \in W <=> e \in LogEntry /\ f.tenant \in {Unasked, e.tenant} /\ matchesFilter(e, f)
  OBVIOUS
<1>4. f.tenant \in LogTenants \cup {Unasked} /\ f.level \in Levels \cup {Unasked}
  BY DEF Filter
<1>5. Unasked \notin LogTenants /\ Unasked \notin Levels
  BY LogAssumption DEF Levels, Unasked
<1> HIDE DEF S, W
<1>6. ASSUME NEW k \in LogTenants \cup Levels, Query(f) = Only(index[k], S),
             \A e \in LogEntry : matchesFilter(e, f) =>
               (f.tenant \in {Unasked, e.tenant} <=> Times(k, KeysOf(e)) > 0)
      PROVE  Query(f) = Walk(f)
  <2> DEFINE c == index[k]
  <2>1. SliceSound(k) /\ k \in IndexKeys
    BY DEF IndexSound, IndexKeys
  <2>2. c \in Seq(LogEntry)
    BY <2>1 DEF SliceSound
  <2>3. \A i, j \in 1 .. Len(c) : i < j => c[i].id < c[j].id
    BY <2>1, SliceIncreases
  <2>4. /\ \A i \in 1 .. Len(c) : c[i] \in LogEntry /\ Logged(c[i]) /\ Times(k, KeysOf(c[i])) > 0
        /\ \A e \in LogEntry : Logged(e) /\ Times(k, KeysOf(e)) > 0 => \E i \in 1 .. Len(c) : c[i] = e
    BY <2>1, SliceHolds
  <2> HIDE DEF c
  <2>5. \A i \in 1 .. Len(c) : c[i] \in S => Logged(c[i]) /\ c[i] \in W
    BY <1>2, <1>3, <1>6, <2>4
  <2>6. \A e \in LogEntry : Logged(e) /\ e \in W => e \in S /\ \E i \in 1 .. Len(c) : c[i] = e
    BY <1>2, <1>3, <1>6, <2>4
  <2>7. Only(c, S) = Only(entries, W)
    BY <2>2, <2>3, <2>5, <2>6, SameAnswers
  <2> QED BY <1>1, <1>6, <2>7 DEF c
<1>7. CASE f.tenant # Unasked
  <2>1. f.tenant \in LogTenants /\ f.tenant \in IndexKeys
    BY <1>4, <1>7 DEF IndexKeys
  <2>2. Query(f) = Only(index[f.tenant], S)
    BY <1>7 DEF Query, S
  <2>3. \A e \in LogEntry : f.tenant \in {Unasked, e.tenant} <=> Times(f.tenant, KeysOf(e)) > 0
    <3> SUFFICES ASSUME NEW e \in LogEntry PROVE f.tenant \in {Unasked, e.tenant} <=> Times(f.tenant, KeysOf(e)) > 0
      OBVIOUS
    <3>1. Times(f.tenant, KeysOf(e)) = IF e.tenant = f.tenant THEN 1 ELSE 0
      BY <2>1, KeysFacts
    <3> QED BY <1>7, <3>1
  <2> QED BY <1>6, <2>1, <2>2, <2>3
<1>8. CASE f.tenant = Unasked /\ f.level # Unasked
  <2>1. f.level \in Levels /\ f.level \in IndexKeys
    BY <1>4, <1>8 DEF IndexKeys
  <2>2. Query(f) = Only(index[f.level], S)
    BY <1>8 DEF Query, S
  <2>3. \A e \in LogEntry : matchesFilter(e, f) => (f.tenant \in {Unasked, e.tenant} <=> Times(f.level, KeysOf(e)) > 0)
    <3> SUFFICES ASSUME NEW e \in LogEntry, matchesFilter(e, f) PROVE Times(f.level, KeysOf(e)) > 0
      BY <1>8
    <3>1. Times(f.level, KeysOf(e)) = IF e.level = f.level THEN 1 ELSE 0
      BY <2>1, KeysFacts
    <3> QED BY <1>8, <3>1 DEF matchesFilter
  <2> QED BY <1>6, <2>1, <2>2, <2>3
<1>9. CASE f.tenant = Unasked /\ f.level = Unasked
  <2>1. Query(f) = Only(entries, S)
    BY <1>9 DEF Query, S
  <2>2. entries \in Seq(LogEntry) /\ (\A i, j \in 1 .. Len(entries) : i < j => entries[i].id < entries[j].id)
    BY DEF EntriesSound
  <2>3. \A i \in 1 .. Len(entries) : entries[i] \in S => Logged(entries[i]) /\ entries[i] \in W
    BY <1>2, <1>3, <1>9 DEF Logged
  <2>4. \A e \in LogEntry : Logged(e) /\ e \in W => e \in S /\ \E i \in 1 .. Len(entries) : entries[i] = e
    BY <1>2, <1>3 DEF Logged
  <2>5. Only(entries, S) = Only(entries, W)
    BY <2>2, <2>3, <2>4, SameAnswers
  <2> QED BY <1>1, <2>1, <2>5
<1> QED BY <1>7, <1>8, <1>9

(* No more than all the entries.                                           *)
LEMMA AnswersFit ==
  ASSUME EntriesSound, IndexSound, NEW f \in Filter
  PROVE  /\ Query(f) \in Seq(LogEntry) /\ Len(Query(f)) \in Nat /\ Len(Query(f)) <= Len(entries)
         /\ LogFigures(f).errors <= LogFigures(f).total
<1> DEFINE q == Query(f)      W == {e \in LogEntry : f.tenant \in {Unasked, e.tenant} /\ matchesFilter(e, f)}
           E == {e \in LogEntry : e.level = "error"}
<1>1. entries \in Seq(LogEntry)
  BY DEF EntriesSound
<1>2. q = Only(entries, W)
  BY QueryIsWalk DEF Walk
<1> HIDE DEF q, W
<1>3. q \in Seq(LogEntry) /\ Len(q) <= Len(entries)
  BY <1>1, <1>2, OnlyFacts
<1>4. LogFigures(f).total = Len(q) /\ LogFigures(f).errors = Len(Only(q, E))
  BY DEF LogFigures, q
<1> HIDE DEF E
<1>5. Len(Only(q, E)) <= Len(q)
  BY <1>3, OnlyFacts
<1>6. Len(q) \in Nat
  BY <1>3
<1> QED BY <1>3, <1>4, <1>5, <1>6 DEF q

(* Every query answers from the entries, whichever slice it reads.         *)
LEMMA QueriesAreExact ==
  ASSUME EntriesSound, IndexSound
  PROVE  QueriesExact
<1>1. entries \in Seq(LogEntry) /\ Len(entries) \in Nat /\ DOMAIN entries = 1 .. Len(entries)
  BY DEF EntriesSound
<1>2. ASSUME NEW t \in Tags PROVE ToSet(index[t]) = {e \in ToSet(entries) : t \in ToSet(e.tags)}
  <2> DEFINE s == index[t]      n == Len(s)
  <2>1. t \in IndexKeys /\ SliceSound(t)
    BY DEF IndexSound, IndexKeys
  <2>2. s \in Seq(LogEntry) /\ DOMAIN s = 1 .. n
    BY <2>1 DEF SliceSound
  <2>3. /\ \A i \in 1 .. n : s[i] \in LogEntry /\ Logged(s[i]) /\ Times(t, KeysOf(s[i])) > 0
        /\ \A e \in LogEntry : Logged(e) /\ Times(t, KeysOf(e)) > 0 => \E i \in 1 .. n : s[i] = e
    BY <2>1, SliceHolds
  <2> HIDE DEF s, n
  <2>4. \A e \in LogEntry : Times(t, KeysOf(e)) > 0 <=> t \in ToSet(e.tags)
    BY <2>1, KeysFacts
  <2>5. \A e : e \in ToSet(s) <=> \E i \in 1 .. n : s[i] = e
    BY <2>2 DEF ToSet
  <2>6. \A e : e \in ToSet(entries) <=> e \in LogEntry /\ Logged(e)
    BY <1>1 DEF ToSet, Logged
  <2>7. \A e : e \in ToSet(s) <=> e \in ToSet(entries) /\ t \in ToSet(e.tags)
    BY <2>3, <2>4, <2>5, <2>6
  <2> QED BY <2>7 DEF s
<1>3. ASSUME NEW n \in 0 .. LogSize PROVE IsSuffix(GetRecentLogs(n), entries)
  <2> DEFINE l == Len(entries)      p == GetRecentLogs(n)
  <2>1. n \in Nat
    BY LogAssumption
  <2>2. CASE n = 0 \/ n >= l
    <3>1. p = entries
      BY <2>2 DEF GetRecentLogs
    <3> HIDE DEF p
    <3>2. \A i \in 1 .. l : (l - l) + i = i
      BY <1>1
    <3> QED BY <1>1, <3>1, <3>2, EndIsSuffix DEF p
  <2>3. CASE n # 0 /\ n < l
    <3> DEFINE a == (l - n) + 1
    <3>1. p = SubSeq(entries, a, l)
      BY <1>1, <2>1, <2>3 DEF GetRecentLogs
    <3>2. a \in Nat /\ l \in Nat /\ 1 <= a /\ a <= l + 1 /\ l <= Len(entries)
      BY <1>1, <2>1, <2>3
    <3>3. p \in Seq(LogEntry) /\ Len(p) = (l - a) + 1 /\ \A i \in 1 .. (l - a) + 1 : p[i] = entries[(a + i) - 1]
      <4> HIDE DEF p, a
      <4> QED BY <1>1, <3>1, <3>2, Piece
    <3>4. (l - a) + 1 = n /\ \A i \in 1 .. n : (a + i) - 1 = (l - n) + i
      BY <1>1, <2>1
    <3> HIDE DEF p, a
    <3>5. Len(p) = n /\ Len(p) <= Len(entries) /\ \A i \in 1 .. Len(p) : p[i] = entries[(Len(entries) - Len(p)) + i]
      BY <2>3, <3>3, <3>4
    <3> QED BY <1>1, <3>3, <3>5, EndIsSuffix DEF p
  <2> QED BY <1>1, <2>1, <2>2, <2>3
<1> QED BY <1>2, <1>3, QueryIsWalk, AnswersFit DEF QueriesExact

(* A slice of the index is the entries u with the key k, each as often as  *)
(* it has the key, in the order of their ids.                              *)
Has(u, e) == \E i \in 1 .. Len(u) : u[i] = e
SliceExact(s, k, u) ==
  /\ s \in Seq(LogEntry) /\ Ordered(s)
  /\ \A e \in LogEntry : Times(e, s) = IF Has(u, e) THEN Times(k, KeysOf(e)) ELSE 0
IdsRise(u) == \A i, j \in 1 .. Len(u) : i < j => u[i].id < u[j].id

LEMMA SliceIn ==
  ASSUME NEW s, NEW k, NEW u, SliceExact(s, k, u)
  PROVE  \A i \in 1 .. Len(s) : s[i] \in LogEntry /\ Has(u, s[i])
<1> SUFFICES ASSUME NEW i \in 1 .. Len(s) PROVE s[i] \in LogEntry /\ Has(u, s[i])
  OBVIOUS
<1>1. s \in Seq(LogEntry)
  BY DEF SliceExact
<1>2. s[i] \in LogEntry
  BY <1>1
<1>3. Times(s[i], s) # 0
  BY <1>1, TimesFacts
<1> QED BY <1>2, <1>3 DEF SliceExact

(* The oldest entry goes.                                                  *)
LEMMA SliceDrops ==
  ASSUME NEW u \in Seq(LogEntry), u # <<>>, IdsRise(u), NEW k \in IndexKeys, NEW s, SliceExact(s, k, u)
  PROVE  SliceExact(RemovedTimes(Times(k, KeysOf(Head(u))), s, Head(u)), k, Tail(u))
<1> DEFINE o == Head(u)      t == Tail(u)      n == Times(k, KeysOf(o))      r == RemovedTimes(n, s, o)
           l == Len(u)
<1>1. /\ o \in LogEntry /\ o = u[1] /\ t \in Seq(LogEntry) /\ l \in Nat /\ l > 0 /\ Len(t) = l - 1
      /\ (\A i \in 1 .. l - 1 : t[i] = u[i + 1]) /\ \A i \in 1 .. l : u[i] \in LogEntry
  <2> DEFINE L == LogEntry
  <2>1. u \in Seq(L)
    OBVIOUS
  <2> HIDE DEF L
  <2>2. /\ o \in L /\ o = u[1] /\ t \in Seq(L) /\ l \in Nat /\ l > 0 /\ Len(t) = l - 1
        /\ (\A i \in 1 .. l - 1 : t[i] = u[i + 1]) /\ \A i \in 1 .. l : u[i] \in L
    BY <2>1
  <2> QED BY <2>2 DEF L
<1>2. s \in Seq(LogEntry)
  BY DEF SliceExact
<1> HIDE DEF o, t
<1>3. Has(u, o) /\ n \in Nat /\ n = Times(o, s)
  <2>1. 1 \in 1 .. l
    BY <1>1
  <2>2. Has(u, o)
    BY <1>1, <2>1 DEF Has
  <2> QED BY <1>1, <2>2, KeysFacts DEF SliceExact
<1>4. \A i \in 2 .. l : u[i].id > o.id /\ u[i].id \in Nat /\ o.id \in Nat
  <2> SUFFICES ASSUME NEW i \in 2 .. l PROVE u[i].id > o.id /\ u[i].id \in Nat /\ o.id \in Nat
    OBVIOUS
  <2>1. i \in 1 .. l /\ 1 \in 1 .. l /\ 1 < i
    BY <1>1
  <2>2. u[1].id < u[i].id
    BY <2>1 DEF IdsRise
  <2>3. u[i] \in LogEntry
    BY <1>1, <2>1
  <2>4. u[i].id \in Nat /\ o.id \in Nat
    BY <1>1, <2>3, EntryTypes
  <2> QED BY <1>1, <2>2, <2>4
<1>5. \A i \in 1 .. Len(s) : s[i].id = o.id => s[i] = o
  <2> SUFFICES ASSUME NEW i \in 1 .. Len(s), s[i].id = o.id PROVE s[i] = o
    OBVIOUS
  <2>1. PICK j \in 1 .. l : u[j] = s[i]
    BY SliceIn DEF Has
  <2>2. ~(j \in 2 .. l)
    BY <1>4, <2>1
  <2>3. j = 1
    BY <1>1, <2>2
  <2> QED BY <1>1, <2>1, <2>3
<1> HIDE DEF n
<1>6. r \in Seq(LogEntry) /\ (\A x : Times(x, r) = IF x = o THEN 0 ELSE Times(x, s)) /\ (Ordered(s) => Ordered(r))
  BY <1>1, <1>2, <1>3, <1>5, RemovedFacts
<1> HIDE DEF r
<1>7. ASSUME NEW e \in LogEntry PROVE Has(t, e) <=> Has(u, e) /\ e # o
  <2>1. ASSUME Has(t, e) PROVE Has(u, e) /\ e # o
    <3>1. PICK i \in 1 .. Len(t) : t[i] = e
      BY <2>1 DEF Has
    <3>2. i + 1 \in 1 .. l /\ i + 1 \in 2 .. l /\ u[i + 1] = e
      BY <1>1, <3>1
    <3>3. u[i + 1].id # o.id
      BY <1>4, <3>2
    <3> QED BY <3>2, <3>3 DEF Has
  <2>2. ASSUME Has(u, e), e # o PROVE Has(t, e)
    <3>1. PICK i \in 1 .. l : u[i] = e
      BY <2>2 DEF Has
    <3>2. i # 1
      BY <1>1, <2>2, <3>1
    <3>3. i - 1 \in 1 .. l - 1 /\ (i - 1) + 1 = i
      BY <1>1, <3>2
    <3>4. t[i - 1] = e
      BY <1>1, <3>1, <3>3
    <3> QED BY <1>1, <3>3, <3>4 DEF Has
  <2> QED BY <2>1, <2>2
<1>8. \A e \in LogEntry : Times(e, r) = IF Has(t, e) THEN Times(k, KeysOf(e)) ELSE 0
  BY <1>6, <1>7 DEF SliceExact
<1> QED BY <1>6, <1>8 DEF SliceExact, r, n, o, t

(* A new entry comes.                                                      *)
LEMMA SliceAdds ==
  ASSUME NEW u \in Seq(LogEntry), NEW e \in LogEntry, \A i \in 1 .. Len(u) : u[i].id < e.id,
         NEW k \in IndexKeys, NEW s, SliceExact(s, k, u)
  PROVE  SliceExact(s \o [i \in 1 .. Times(k, KeysOf(e)) |-> e], k, Append(u, e))
<1> DEFINE n == Times(k, KeysOf(e))      r == s \o [i \in 1 .. n |-> e]      v == Append(u, e)
           l == Len(u)      m == Len(s)
<1>1. s \in Seq(LogEntry) /\ n \in Nat /\ m \in Nat /\ (\A i \in 1 .. m : s[i] \in LogEntry)
  BY KeysFacts DEF SliceExact
<1>2. /\ v \in Seq(LogEntry) /\ l \in Nat /\ Len(v) = l + 1 /\ v[l + 1] = e
      /\ \A i \in 1 .. l : v[i] = u[i]
  <2> DEFINE L == LogEntry
  <2>1. u \in Seq(L) /\ e \in L
    OBVIOUS
  <2> HIDE DEF L
  <2>2. /\ v \in Seq(L) /\ l \in Nat /\ Len(v) = l + 1 /\ v[l + 1] = e
        /\ \A i \in 1 .. l : v[i] = u[i]
    BY <2>1
  <2> QED BY <2>2 DEF L
<1> HIDE DEF n, v, m
<1>3. /\ r \in Seq(LogEntry) /\ Len(r) = Len(s) + n
      /\ \A i \in 1 .. Len(s) : r[i] = s[i]
      /\ \A i \in Len(s) + 1 .. Len(s) + n : r[i] = e
      /\ \A x : Times(x, r) = IF x = e THEN Times(x, s) + n ELSE Times(x, s)
  BY <1>1, CopiesFacts
<1> HIDE DEF r
<1>4. e.id \in Nat
  BY EntryTypes
<1>5. \A i \in 1 .. m : s[i].id < e.id /\ s[i].id \in Nat
  <2> SUFFICES ASSUME NEW i \in 1 .. m PROVE s[i].id < e.id /\ s[i].id \in Nat
    OBVIOUS
  <2>1. Has(u, s[i])
    BY SliceIn DEF m
  <2>2. s[i].id \in Nat
    BY <1>1, EntryTypes
  <2> QED BY <2>1, <2>2 DEF Has
<1>6. ~Has(u, e)
  BY <1>4 DEF Has
<1>7. Times(e, s) = 0
  BY <1>6 DEF SliceExact
<1>8. \A d \in LogEntry : Has(v, d) <=> Has(u, d) \/ d = e
  <2> SUFFICES ASSUME NEW d \in LogEntry PROVE Has(v, d) <=> Has(u, d) \/ d = e
    OBVIOUS
  <2>1. \A i \in 1 .. l + 1 : i \in 1 .. l \/ i = l + 1
    BY <1>2
  <2>2. l + 1 \in 1 .. l + 1 /\ \A i \in 1 .. l : i \in 1 .. l + 1
    BY <1>2
  <2> QED BY <1>2, <2>1, <2>2 DEF Has
<1>9. \A d \in LogEntry : Times(d, r) = IF Has(v, d) THEN Times(k, KeysOf(d)) ELSE 0
  <2> SUFFICES ASSUME NEW d \in LogEntry PROVE Times(d, r) = IF Has(v, d) THEN Times(k, KeysOf(d)) ELSE 0
    OBVIOUS
  <2>1. CASE d = e
    BY <1>1, <1>3, <1>7, <1>8, <2>1 DEF n
  <2>2. CASE d # e
    BY <1>3, <1>8, <2>2 DEF SliceExact
  <2> QED BY <2>1, <2>2
<1>10. Ordered(r)
  <2> SUFFICES ASSUME NEW i \in 1 .. m + n, NEW j \in 1 .. m + n, i < j PROVE r[i].id <= r[j].id
    BY <1>3 DEF Ordered, m
  <2>1. CASE j \in 1 .. m
    <3>1. i \in 1 .. m
      BY <1>1, <2>1
    <3>2. r[i] = s[i] /\ r[j] = s[j]
      BY <1>3, <2>1, <3>1 DEF m
    <3> QED BY <2>1, <3>1, <3>2 DEF SliceExact, Ordered, m
  <2>2. CASE j \in m + 1 .. m + n
    <3>1. r[j] = e
      BY <1>3, <2>2 DEF m
    <3>2. CASE i \in 1 .. m
      <4>1. r[i] = s[i]
        BY <1>3, <3>2 DEF m
      <4> QED BY <1>4, <1>5, <3>1, <3>2, <4>1
    <3>3. CASE i \in m + 1 .. m + n
      <4>1. r[i] = e
        BY <1>3, <3>3 DEF m
      <4> QED BY <1>4, <3>1, <4>1
    <3> QED BY <1>1, <3>2, <3>3
  <2> QED BY <1>1, <2>1, <2>2
<1> QED BY <1>3, <1>9, <1>10 DEF SliceExact, r, n, v

(* The reports under way and the one that was given last.                  *)
ReportsSound ==
  /\ analyst \in [Analysts -> [at : {"idle", "counted"}, total : Nat, since : Nat]]
  /\ \A a \in Analysts : analyst[a].at = "counted" => Len(entries) <= analyst[a].total + analyst[a].since
  /\ given \in [total : Nat, errors : Nat, since : Nat] /\ given.errors <= given.total + given.since
LogInv == EntriesSound /\ IndexSound /\ ReportsSound /\ WindowsInv

(* The invariant says what a reader of the log may rely on.                *)
LEMMA LogInvAgrees == LogInv => LogsAgree
<1> SUFFICES ASSUME LogInv PROVE LogsAgree
  OBVIOUS
<1>1. DOMAIN index = IndexKeys /\ \A k \in IndexKeys : index[k] \in Seq(LogEntry)
  <2> DEFINE f == [k \in IndexKeys |-> index[k]]
  <2>1. index = f /\ DOMAIN f = IndexKeys
    BY DEF LogInv, IndexSound
  <2> HIDE DEF f
  <2> QED BY <2>1 DEF LogInv, IndexSound, SliceSound
<1>2. DOMAIN windows = LogRules /\ \A r \in LogRules : windows[r] \in Seq(LogEntry)
  <2> DEFINE f == [r \in LogRules |-> windows[r]]
  <2>1. windows = f /\ DOMAIN f = LogRules
    BY DEF LogInv, WindowsInv
  <2> HIDE DEF f
  <2> QED BY <2>1 DEF LogInv, WindowsInv, WindowSound
<1>3. \A a \in Analysts : analyst[a].at \in {"idle", "counted"}
  BY DEF LogInv, ReportsSound
<1>4. LogTypeOK
  BY <1>1, <1>2, <1>3 DEF LogTypeOK, LogInv, EntriesSound
<1>5. QueriesExact
  BY QueriesAreExact DEF LogInv
<1>6. ReportsBounded
  BY DEF LogInv, ReportsSound, ReportsBounded
<1> QED BY <1>4, <1>5, <1>6 DEF LogsAgree, LogInv, WindowsInv

(* addEntry: the oldest entry of a full log goes, from the entries and from*)
(* every slice, and the new one comes, to the entries and to its slices.   *)
LEMMA EntryLogged ==
  ASSUME LogInv, NEW e \in LogEntry, NEW later \in BOOLEAN, addEntry(e, later)
  PROVE  LogInv'
<1> DEFINE l == Len(entries)      full == l >= LogSize
           u == IF full THEN Tail(entries) ELSE entries
           kept == IF full THEN removeFromIndex(index, Head(entries)) ELSE index
<1>1. /\ logged < MaxLogs /\ e.id = logged + 1 /\ logged' = e.id /\ entries' = Append(u, e)
      /\ index' = addToIndex(kept, e) /\ given' = given
      /\ analyst' = [a \in Analysts |-> IF analyst[a].at = "idle" THEN analyst[a]
                                        ELSE [analyst[a] EXCEPT !.since = @ + 1]]
  BY DEF addEntry
<1>2. /\ entries \in Seq(LogEntry) /\ l \in Nat /\ l <= LogSize /\ logged \in 0 .. MaxLogs
      /\ LogSize \in Nat /\ LogSize > 0 /\ MaxLogs \in Nat /\ IdsRise(entries)
      /\ \A i \in 1 .. l : entries[i].id <= logged /\ entries[i] \in LogEntry
  BY LogAssumption DEF LogInv, EntriesSound, IdsRise
<1>3. /\ u \in Seq(LogEntry) /\ Len(u) \in Nat /\ Len(u) <= l /\ Len(u) < LogSize
      /\ IdsRise(u) /\ \A i \in 1 .. Len(u) : u[i].id <= logged /\ u[i] \in LogEntry
  <2>1. CASE ~full
    BY <1>2, <2>1
  <2>2. CASE full
    <3> DEFINE L == LogEntry
    <3>1. entries \in Seq(L) /\ l > 0
      BY <1>2, <2>2
    <3> HIDE DEF L, full
    <3>2. u \in Seq(L) /\ Len(u) = l - 1 /\ \A i \in 1 .. l - 1 : u[i] = entries[i + 1]
      BY <2>2, <3>1
    <3> HIDE DEF u
    <3>3. \A i \in 1 .. Len(u) : i + 1 \in 1 .. l
      BY <1>2, <3>2
    <3>4. IdsRise(u)
      <4> SUFFICES ASSUME NEW i \in 1 .. Len(u), NEW j \in 1 .. Len(u), i < j PROVE u[i].id < u[j].id
        BY DEF IdsRise
      <4>1. i + 1 < j + 1 /\ i + 1 \in 1 .. l /\ j + 1 \in 1 .. l
        BY <1>2, <3>2, <3>3
      <4>2. entries[i + 1].id < entries[j + 1].id
        BY <1>2, <4>1 DEF IdsRise
      <4> QED BY <3>2, <4>2
    <3>5. \A i \in 1 .. Len(u) : u[i].id <= logged /\ u[i] \in LogEntry
      BY <1>2, <3>2, <3>3
    <3> QED BY <1>2, <3>1, <3>2, <3>4, <3>5 DEF L
  <2> QED BY <2>1, <2>2
<1>4. \A k \in IndexKeys : SliceExact(index[k], k, entries)
  BY DEF LogInv, IndexSound, SliceSound, SliceExact, Has, Logged
<1>5. \A k \in IndexKeys : SliceExact(kept[k], k, u)
  <2> SUFFICES ASSUME NEW k \in IndexKeys PROVE SliceExact(kept[k], k, u)
    OBVIOUS
  <2>1. CASE ~full
    BY <1>4, <2>1
  <2>2. CASE full
    <3>1. entries # <<>>
      BY <1>2, <2>2
    <3>2. kept[k] = RemovedTimes(Times(k, KeysOf(Head(entries))), index[k], Head(entries))
      BY <2>2 DEF removeFromIndex
    <3>3. SliceExact(RemovedTimes(Times(k, KeysOf(Head(entries))), index[k], Head(entries)), k, Tail(entries))
      BY <1>2, <1>4, <3>1, SliceDrops
    <3>4. u = Tail(entries)
      BY <2>2
    <3> QED BY <3>2, <3>3, <3>4
  <2> QED BY <2>1, <2>2
<1> HIDE DEF u, kept, full
<1>6. e.id \in Nat /\ \A i \in 1 .. Len(u) : u[i].id < e.id
  <2>1. e.id \in Nat /\ \A i \in 1 .. Len(u) : u[i].id \in Nat
    BY <1>3, EntryTypes
  <2> QED BY <1>1, <1>2, <1>3, <2>1
<1>7. /\ entries' \in Seq(LogEntry) /\ Len(entries') = Len(u) + 1 /\ entries'[Len(u) + 1] = e
      /\ \A i \in 1 .. Len(u) : entries'[i] = u[i]
  <2> DEFINE L == LogEntry
  <2>1. u \in Seq(L) /\ e \in L
    BY <1>3
  <2> HIDE DEF L
  <2>2. /\ Append(u, e) \in Seq(L) /\ Len(Append(u, e)) = Len(u) + 1 /\ Append(u, e)[Len(u) + 1] = e
        /\ \A i \in 1 .. Len(u) : Append(u, e)[i] = u[i]
    BY <2>1
  <2> QED BY <1>1, <2>2 DEF L
<1>8. EntriesSound'
  <2>1. Len(entries') <= LogSize /\ logged' \in 0 .. MaxLogs
    BY <1>1, <1>2, <1>3, <1>6, <1>7
  <2>2. \A i \in 1 .. Len(entries') : i \in 1 .. Len(u) \/ i = Len(u) + 1
    BY <1>3, <1>7
  <2>3. \A i \in 1 .. Len(u) : u[i].id \in Nat
    BY <1>3, EntryTypes
  <2>4. ASSUME NEW i \in 1 .. Len(entries'), NEW j \in 1 .. Len(entries'), i < j
        PROVE  entries'[i].id < entries'[j].id
    <3>1. i \in 1 .. Len(u) /\ entries'[i] = u[i]
      BY <1>3, <1>7, <2>4
    <3>2. CASE j \in 1 .. Len(u)
      BY <1>3, <1>7, <2>4, <3>1, <3>2 DEF IdsRise
    <3>3. CASE j = Len(u) + 1
      BY <1>6, <1>7, <3>1, <3>3
    <3> QED BY <2>2, <3>2, <3>3
  <2>5. ASSUME NEW i \in 1 .. Len(entries') PROVE entries'[i].id <= logged'
    <3>1. CASE i \in 1 .. Len(u)
      BY <1>1, <1>6, <1>7, <2>3, <3>1
    <3>2. CASE i = Len(u) + 1
      BY <1>1, <1>6, <1>7, <3>2
    <3> QED BY <2>2, <3>1, <3>2
  <2> QED BY <1>7, <2>1, <2>4, <2>5 DEF EntriesSound
<1>9. IndexSound'
  <2>1. index' = [k \in IndexKeys |-> kept[k] \o [i \in 1 .. Times(k, KeysOf(e)) |-> e]]
    BY <1>1 DEF addToIndex
  <2>2. ASSUME NEW k \in IndexKeys PROVE SliceExact(index'[k], k, entries')
    <3>1. SliceExact(kept[k] \o [i \in 1 .. Times(k, KeysOf(e)) |-> e], k, Append(u, e))
      BY <1>3, <1>5, <1>6, SliceAdds
    <3>2. index'[k] = kept[k] \o [i \in 1 .. Times(k, KeysOf(e)) |-> e]
      BY <2>1
    <3> QED BY <1>1, <3>1, <3>2
  <2>3. index' = [k \in IndexKeys |-> index'[k]]
    BY <2>1
  <2> QED BY <2>2, <2>3 DEF IndexSound, SliceSound, SliceExact, Has, Logged
<1>10. ReportsSound'
  <2>1. Len(entries') <= l + 1
    BY <1>3, <1>7
  <2>2. analyst \in [Analysts -> [at : {"idle", "counted"}, total : Nat, since : Nat]]
        /\ \A a \in Analysts : analyst[a].at = "counted" => l <= analyst[a].total + analyst[a].since
    BY DEF LogInv, ReportsSound
  <2>3. ASSUME NEW a \in Analysts
        PROVE  /\ analyst'[a] \in [at : {"idle", "counted"}, total : Nat, since : Nat]
               /\ analyst'[a].at = "counted" => Len(entries') <= analyst'[a].total + analyst'[a].since
    <3>1. analyst'[a] = IF analyst[a].at = "idle" THEN analyst[a] ELSE [analyst[a] EXCEPT !.since = @ + 1]
      BY <1>1
    <3>2. analyst[a] \in [at : {"idle", "counted"}, total : Nat, since : Nat]
      BY <2>2
    <3>3. CASE analyst[a].at = "idle"
      BY <3>1, <3>2, <3>3
    <3>4. CASE analyst[a].at # "idle"
      <4>1. analyst'[a] = [analyst[a] EXCEPT !.since = @ + 1]
        BY <3>1, <3>4
      <4>2. analyst[a].at = "counted" /\ l <= analyst[a].total + analyst[a].since
        BY <2>2, <3>2, <3>4
      <4>3. analyst'[a].total = analyst[a].total /\ analyst'[a].since = analyst[a].since + 1
        BY <3>2, <4>1
      <4>4. analyst'[a] \in [at : {"idle", "counted"}, total : Nat, since : Nat]
        BY <3>2, <4>1
      <4>5. analyst[a].total \in Nat /\ analyst[a].since \in Nat /\ Len(entries') \in Nat
        BY <1>7, <3>2
      <4>6. Len(entries') <= analyst[a].total + (analyst[a].since + 1)
        BY <1>2, <2>1, <4>2, <4>5
      <4> QED BY <4>3, <4>4, <4>6
    <3> QED BY <3>3, <3>4
  <2>4. analyst' = [a \in Analysts |-> analyst'[a]]
    BY <1>1
  <2>5. analyst' \in [Analysts -> [at : {"idle", "counted"}, total : Nat, since : Nat]]
    BY <2>3, <2>4
  <2> QED BY <1>1, <2>3, <2>5 DEF ReportsSound, LogInv
<1>11. WindowsInv'
  BY WindowsKept DEF LogInv
<1> QED BY <1>8, <1>9, <1>10, <1>11 DEF LogInv

(* Nothing is in an empty slice.                                           *)
LEMMA EmptySlice == \A x : Times(x, <<>>) = 0
<1> SUFFICES ASSUME NEW x PROVE Times(x, <<>>) = 0
  OBVIOUS
<1>1. DOMAIN <<>> = {}
  OBVIOUS
<1>2. {i \in DOMAIN <<>> : <<>>[i] = x} = {}
  BY <1>1
<1>3. Cardinality({}) = 0
  BY FS_EmptySet
<1> QED BY <1>2, <1>3 DEF Times

(* Clear empties the entries and the index.                                *)
LEMMA LogCleared ==
  ASSUME LogInv, Clear
  PROVE  LogInv'
<1>1. entries' = <<>> /\ index' = [k \in IndexKeys |-> <<>>] /\ UNCHANGED <<logged, windows, raised, analyst, given>>
  BY DEF Clear
<1>2. EntriesSound'
  BY <1>1, LogAssumption DEF EntriesSound, LogInv
<1>3. IndexSound'
  <2>1. ASSUME NEW k \in IndexKeys PROVE SliceSound(k)'
    <3>1. index'[k] = <<>>
      BY <1>1
    <3>2. <<>> \in Seq(LogEntry) /\ Ordered(<<>>) /\ Len(<<>>) = 0
      BY DEF Ordered
    <3>3. \A d \in LogEntry : Times(d, <<>>) = 0
      BY EmptySlice
    <3>4. \A d \in LogEntry : ~Logged(d)'
      BY <1>1, <3>2 DEF Logged
    <3> QED BY <3>1, <3>2, <3>3, <3>4 DEF SliceSound
  <2> QED BY <1>1, <2>1 DEF IndexSound
<1>4. ReportsSound'
  <2>1. Len(entries') = 0
    BY <1>1
  <2>2. \A a \in Analysts : 0 <= analyst[a].total + analyst[a].since
    BY DEF LogInv, ReportsSound
  <2> QED BY <1>1, <2>1, <2>2 DEF LogInv, ReportsSound
<1>5. WindowsInv'
  BY <1>1 DEF LogInv, WindowsInv, WindowSound, AlertsEarned, evaluateCondition
<1> QED BY <1>2, <1>3, <1>4, <1>5 DEF LogInv

(* A report reads the log once, and again.                                 *)
LEMMA LogUnread ==
  ASSUME LogInv, UNCHANGED <<entries, index, logged, windows, raised>>
  PROVE  EntriesSound' /\ IndexSound' /\ WindowsInv'
<1>1. EntriesSound'
  BY DEF LogInv, EntriesSound
<1>2. IndexSound'
  BY DEF LogInv, IndexSound, SliceSound, Logged
<1>3. WindowsInv'
  BY DEF LogInv, WindowsInv, WindowSound, AlertsEarned, evaluateCondition
<1> QED BY <1>1, <1>2, <1>3

(* GetStats counts the entries, then reads them.                           *)
LEMMA StatsRead ==
  ASSUME LogInv, NEW a \in Analysts, GetLogStats(a)
  PROVE  LogInv'
<1>1. analyst' = [analyst EXCEPT ![a] = [at |-> "counted", total |-> Len(entries), since |-> 0]]
      /\ UNCHANGED <<entries, index, logged, windows, raised, given>>
  BY DEF GetLogStats
<1>2. Len(entries) \in Nat /\ Len(entries) <= Len(entries) + 0
  BY DEF LogInv, EntriesSound
<1>3. ReportsSound'
  BY <1>1, <1>2 DEF LogInv, ReportsSound
<1> QED BY <1>1, <1>3, LogUnread DEF LogInv

(* CheckHealth reports what GetStats counted.                              *)
LEMMA HealthRead ==
  ASSUME LogInv, NEW a \in Analysts, GetHealthStatus(a)
  PROVE  LogInv'
<1>1. /\ analyst[a].at = "counted"
      /\ given' = [total |-> analyst[a].total, errors |-> Len(Query(Errors)), since |-> analyst[a].since]
      /\ analyst' = [analyst EXCEPT ![a].at = "idle", ![a].total = 0, ![a].since = 0]
      /\ UNCHANGED <<entries, index, logged, windows, raised>>
  BY DEF GetHealthStatus
<1> DEFINE n == Len(Query(Errors))      m == Len(entries)
<1>2. Errors \in Filter
  BY DEF Errors, Filter, Levels
<1>3. n \in Nat /\ n <= m /\ m \in Nat
  BY <1>2, AnswersFit DEF LogInv, EntriesSound
<1> HIDE DEF n, m
<1>4. /\ analyst \in [Analysts -> [at : {"idle", "counted"}, total : Nat, since : Nat]]
      /\ m <= analyst[a].total + analyst[a].since
  BY <1>1 DEF LogInv, ReportsSound, m
<1>5. analyst[a].total \in Nat /\ analyst[a].since \in Nat
  BY <1>4
<1>6. given' \in [total : Nat, errors : Nat, since : Nat] /\ given'.errors <= given'.total + given'.since
  BY <1>1, <1>3, <1>4, <1>5 DEF n
<1>7. analyst' \in [Analysts -> [at : {"idle", "counted"}, total : Nat, since : Nat]]
  BY <1>1, <1>4
<1>8. ASSUME NEW b \in Analysts, analyst'[b].at = "counted" PROVE m <= analyst'[b].total + analyst'[b].since
  <2>1. b # a
    BY <1>1, <1>4, <1>8
  <2>2. analyst'[b] = analyst[b]
    BY <1>1, <1>4, <2>1
  <2> QED BY <1>8, <2>2 DEF LogInv, ReportsSound, m
<1>9. ReportsSound'
  BY <1>1, <1>6, <1>7, <1>8 DEF ReportsSound, m
<1> QED BY <1>1, <1>9, LogUnread DEF LogInv

(* Whatever is logged, dropped or cleared, a query answers from the index  *)
(* what a walk over all the entries would, and the recent logs are the last*)
(* ones; a health report counts more errors than entries only by entries   *)
(* logged between its two readings; and alerts are raised for errors of one*)
(* window (LogAggregator and LogAnalyzer).                                 *)
THEOREM LogsAlwaysAgree == LogSpec => []LogsAgree
<1>1. LogInit => LogInv
  <2> SUFFICES ASSUME LogInit PROVE LogInv
    OBVIOUS
  <2>1. EntriesSound
    BY LogAssumption DEF EntriesSound, LogInit
  <2>2. IndexSound
    <3>1. ASSUME NEW k \in IndexKeys PROVE SliceSound(k)
      <4>1. index[k] = <<>> /\ entries = <<>>
        BY DEF LogInit
      <4>2. <<>> \in Seq(LogEntry) /\ Ordered(<<>>) /\ Len(<<>>) = 0
        BY DEF Ordered
      <4>3. \A d \in LogEntry : Times(d, <<>>) = 0
        BY EmptySlice
      <4> QED BY <4>1, <4>2, <4>3 DEF SliceSound, Logged
    <3> QED BY <3>1 DEF IndexSound, LogInit
  <2>3. ReportsSound
    BY DEF ReportsSound, LogInit
  <2>4. WindowsInv
    <3>1. windows = [r \in LogRules |-> <<>>] /\ raised = {}
      BY DEF LogInit
    <3>2. <<>> \in Seq(LogEntry) /\ DOMAIN <<>> = {}
      OBVIOUS
    <3> QED BY <3>1, <3>2 DEF WindowsInv, WindowSound, AlertsEarned
  <2> QED BY <2>1, <2>2, <2>3, <2>4 DEF LogInv
<1>2. LogInv /\ [LogNext]_logVars => LogInv'
  <2> SUFFICES ASSUME LogInv, [LogNext]_logVars PROVE LogInv'
    OBVIOUS
  <2>1. CASE UNCHANGED logVars
    BY <2>1, LogUnread DEF logVars, LogInv, ReportsSound
  <2> QED BY <2>1, EntryLogged, LogCleared, StatsRead, HealthRead DEF LogNext
<1>3. LogInv => LogsAgree
  BY LogInvAgrees
<1> QED BY <1>1, <1>2, <1>3, PTL DEF LogSpec

(***************************************************************************)
(* Session descriptions.  The text String writes of a description takes the*)
(* parser, line by line, through the header and the sections to the normal *)
(* form of the description; the edits leave descriptions, and ReplaceCodecs*)
(* leaves the codecs it was given.                                         *)
(***************************************************************************)
(* Reading lines takes the description from d to e.                        *)
Run(d, lines, e) ==
  \E f : /\ f[0] = d /\ f[Len(lines)] = e
         /\ \A i \in 1 .. Len(lines) : f[i] = ReadLine(f[i - 1], lines[i])

(* Reads is the last of the descriptions its lines take it through.        *)
LEMMA RunIsReads ==
  ASSUME NEW E, NEW lines \in Seq(E), NEW d, NEW e, Run(d, lines, e)
  PROVE  Reads(d, lines) = e
<1> DEFINE n == Len(lines)
           Is(f) == f = [i \in 0 .. n |-> IF i = 0 THEN d ELSE ReadLine(f[i - 1], lines[i])]
<1>1. PICK g : g[0] = d /\ g[n] = e /\ \A i \in 1 .. n : g[i] = ReadLine(g[i - 1], lines[i])
  BY DEF Run
<1>2. n \in Nat
  OBVIOUS
<1> DEFINE h == [i \in 0 .. n |-> g[i]]      f == CHOOSE x : Is(x)
<1>3. Reads(d, lines) = f[n]
  BY DEF Reads
<1> HIDE DEF n
<1>4. Is(h)
  <2> SUFFICES ASSUME NEW i \in 0 .. n PROVE h[i] = IF i = 0 THEN d ELSE ReadLine(h[i - 1], lines[i])
    OBVIOUS
  <2>1. CASE i = 0
    BY <1>1, <2>1
  <2>2. CASE i # 0
    <3>1. i \in 1 .. n /\ i - 1 \in 0 .. n
      BY <1>2, <2>2
    <3>2. h[i] = g[i] /\ h[i - 1] = g[i - 1]
      BY <3>1
    <3> HIDE DEF h
    <3> QED BY <1>1, <2>2, <3>1, <3>2
  <2> QED BY <2>1, <2>2
<1>5. Is(f)
  <2> HIDE DEF Is, h
  <2> QED BY <1>4
<1>6. \A i \in 0 .. n : f[i] = IF i = 0 THEN d ELSE ReadLine(f[i - 1], lines[i])
  <2> HIDE DEF f
  <2> QED BY <1>5
<1> HIDE DEF f, Is
<1> DEFINE T == {i \in 0 .. n : f[i] = g[i]}
<1>7. 0 \in T
  <2>1. 0 \in 0 .. n
    BY <1>2
  <2> QED BY <1>1, <1>6, <2>1
<1>8. ASSUME NEW i \in 0 .. n, i \in T, i < n PROVE i + 1 \in T
  <2>1. i + 1 \in 1 .. n /\ i + 1 \in 0 .. n /\ i + 1 # 0 /\ (i + 1) - 1 = i
    BY <1>2, <1>8
  <2>2. f[i + 1] = ReadLine(f[(i + 1) - 1], lines[i + 1]) /\ g[i + 1] = ReadLine(g[(i + 1) - 1], lines[i + 1])
    BY <1>1, <1>6, <2>1
  <2>3. f[i] = g[i]
    BY <1>8
  <2> QED BY <2>1, <2>2, <2>3
<1> HIDE DEF T
<1>9. n \in T
  <2>1. n \in 0 .. n
    BY <1>2
  <2> QED BY <1>2, <1>7, <1>8, <2>1, Upto
<1> QED BY <1>1, <1>3, <1>9 DEF T

(* No line, one line, and lines after lines.                               *)
LEMMA RunNone == \A d : Run(d, <<>>, d)
<1> SUFFICES ASSUME NEW d PROVE Run(d, <<>>, d)
  OBVIOUS
<1> DEFINE f == [i \in 0 .. 0 |-> d]
<1>1. f[0] = d /\ f[Len(<<>>)] = d /\ 1 .. Len(<<>>) = {}
  OBVIOUS
<1> HIDE DEF f
<1> QED BY <1>1 DEF Run

LEMMA RunOne == \A d, l : Run(d, <<l>>, ReadLine(d, l))
<1> SUFFICES ASSUME NEW d, NEW l PROVE Run(d, <<l>>, ReadLine(d, l))
  OBVIOUS
<1> DEFINE e == ReadLine(d, l)      f == [i \in 0 .. 1 |-> IF i = 0 THEN d ELSE e]
<1> HIDE DEF e
<1>1. f[0] = d /\ f[1] = e /\ Len(<<l>>) = 1 /\ <<l>>[1] = l
  OBVIOUS
<1> HIDE DEF f
<1>2. f[1] = ReadLine(f[1 - 1], <<l>>[1])
  <2>1. 1 - 1 = 0
    OBVIOUS
  <2> QED BY <1>1, <2>1 DEF e
<1>3. \A i \in 1 .. Len(<<l>>) : i = 1
  BY <1>1
<1> QED BY <1>1, <1>2, <1>3 DEF Run, e

LEMMA RunBoth ==
  ASSUME NEW E, NEW u \in Seq(E), NEW v \in Seq(E), NEW d, NEW e, NEW g, Run(d, u, e), Run(e, v, g)
  PROVE  Run(d, u \o v, g)
<1> DEFINE m == Len(u)      n == Len(v)      w == u \o v
<1>1. PICK f : f[0] = d /\ f[m] = e /\ \A i \in 1 .. m : f[i] = ReadLine(f[i - 1], u[i])
  BY DEF Run
<1>2. PICK h : h[0] = e /\ h[n] = g /\ \A i \in 1 .. n : h[i] = ReadLine(h[i - 1], v[i])
  BY DEF Run
<1>3. /\ m \in Nat /\ n \in Nat /\ Len(w) = m + n
      /\ (\A i \in 1 .. m : w[i] = u[i]) /\ \A i \in m + 1 .. m + n : w[i] = v[i - m]
  OBVIOUS
<1> HIDE DEF m, n, w
<1> DEFINE k == [i \in 0 .. m + n |-> IF i <= m THEN f[i] ELSE h[i - m]]
<1>4. (\A i \in 0 .. m : k[i] = f[i]) /\ \A i \in 0 .. n : k[m + i] = h[i]
  <2>1. \A i \in 0 .. m : i \in 0 .. m + n /\ i <= m
    BY <1>3
  <2>2. \A i \in 1 .. n : m + i \in 0 .. m + n /\ ~(m + i <= m) /\ (m + i) - m = i
    BY <1>3
  <2>3. m + 0 = m /\ m \in 0 .. m
    BY <1>3
  <2>4. \A i \in 0 .. n : i = 0 \/ i \in 1 .. n
    BY <1>3
  <2>5. \A i \in 0 .. m : k[i] = f[i]
    BY <2>1
  <2>6. \A i \in 1 .. n : k[m + i] = h[i]
    BY <2>2
  <2> HIDE DEF k
  <2> QED BY <1>1, <1>2, <2>3, <2>4, <2>5, <2>6
<1> HIDE DEF k
<1>5. ASSUME NEW i \in 1 .. m + n PROVE k[i] = ReadLine(k[i - 1], w[i])
  <2>1. CASE i <= m
    <3>1. i \in 1 .. m /\ i \in 0 .. m /\ i - 1 \in 0 .. m
      BY <1>3, <2>1
    <3>2. k[i] = f[i] /\ k[i - 1] = f[i - 1] /\ w[i] = u[i]
      BY <1>3, <1>4, <3>1
    <3> QED BY <1>1, <3>1, <3>2
  <2>2. CASE ~(i <= m)
    <3> DEFINE j == i - m
    <3>1. j \in 1 .. n /\ j \in 0 .. n /\ j - 1 \in 0 .. n /\ m + j = i /\ m + (j - 1) = i - 1 /\ i \in m + 1 .. m + n
      BY <1>3, <2>2
    <3>2. w[i] = v[j]
      BY <1>3, <3>1
    <3> HIDE DEF j
    <3>3. k[i] = h[j] /\ k[i - 1] = h[j - 1]
      BY <1>4, <3>1
    <3> QED BY <1>2, <3>1, <3>2, <3>3
  <2> QED BY <2>1, <2>2
<1>6. k[0] = d /\ k[m + n] = g
  <2>1. 0 \in 0 .. m /\ n \in 0 .. n
    BY <1>3
  <2> QED BY <1>1, <1>2, <1>4, <2>1
<1>7. Run(d, w, g)
  BY <1>3, <1>5, <1>6 DEF Run
<1> QED BY <1>7 DEF w

(* A description as it is read, put together from its parts.               *)
DescOf(s, c, r) == [session |-> s, current |-> c, refused |-> r]
MediaOf(f, c, b, ats) == [port |-> 9, formats |-> f, conn |-> c, bandwidth |-> b, attrs |-> ats]
SessionOf(o, c, b, t, ats, ms) ==
  [version |-> 0, origin |-> o, conn |-> c, bandwidth |-> b, timing |-> t, attrs |-> ats, media |-> ms]

(* What is refused stays refused.                                          *)
LEMMA RunRefused ==
  ASSUME NEW E, NEW lines \in Seq(E), NEW s, NEW c
  PROVE  Run(DescOf(s, c, TRUE), lines, DescOf(s, c, TRUE))
<1> DEFINE d == DescOf(s, c, TRUE)      n == Len(lines)      f == [i \in 0 .. n |-> d]
<1>1. \A l : ReadLine(d, l) = d
  <2> SUFFICES ASSUME NEW l PROVE ReadLine(d, l) = d
    OBVIOUS
  <2>1. \A r : [DescOf(s, c, r) EXCEPT !.refused = r] = DescOf(s, c, r)
    BY DEF DescOf
  <2>2. [DescOf(s, c, TRUE) EXCEPT !.refused = TRUE] = DescOf(s, c, TRUE)
    BY <2>1, Zenon
  <2>3. d.refused = TRUE
    BY DEF DescOf
  <2>4. [d EXCEPT !.refused = TRUE] = d
    BY <2>2, Zenon
  <2> HIDE DEF d
  <2> QED BY <2>3, <2>4 DEF ReadLine
<1>2. n \in Nat
  OBVIOUS
<1> HIDE DEF d, n
<1>3. \A i \in 0 .. n : f[i] = d
  OBVIOUS
<1>4. 0 \in 0 .. n /\ n \in 0 .. n /\ \A i \in 1 .. n : i \in 0 .. n /\ i - 1 \in 0 .. n
  BY <1>2
<1> HIDE DEF f
<1>5. \A i \in 1 .. n : f[i] = ReadLine(f[i - 1], lines[i])
  BY <1>1, <1>3, <1>4
<1>6. f[0] = d /\ f[n] = d
  BY <1>3, <1>4
<1> QED BY <1>5, <1>6 DEF Run, d, n

(* One field of a record is set.                                           *)
Set(r, k, x) == [r EXCEPT ![k] = x]
LEMMA FieldSet ==
  ASSUME NEW F, NEW r, NEW v, NEW k, NEW x, r = [i \in F |-> r[i]], v = [i \in F |-> v[i]],
         \A i \in F : v[i] = IF i = k THEN x ELSE r[i]
  PROVE  Set(r, k, x) = v
<1>1. DOMAIN r = F
  OBVIOUS
<1>2. [r EXCEPT ![k] = x] = [i \in F |-> IF i = k THEN x ELSE r[i]]
  BY <1>1
<1> QED BY <1>2 DEF Set

(* Setting one part of a session, of a section and of a description.       *)
LEMMA SessionSet ==
  ASSUME NEW o, NEW c, NEW b, NEW t, NEW ats, NEW ms, NEW x
  PROVE  /\ Set(SessionOf(o, c, b, t, ats, ms), "origin", x) = SessionOf(x, c, b, t, ats, ms)
         /\ Set(SessionOf(o, c, b, t, ats, ms), "conn", x) = SessionOf(o, x, b, t, ats, ms)
         /\ Set(SessionOf(o, c, b, t, ats, ms), "bandwidth", x) = SessionOf(o, c, x, t, ats, ms)
         /\ Set(SessionOf(o, c, b, t, ats, ms), "timing", x) = SessionOf(o, c, b, x, ats, ms)
         /\ Set(SessionOf(o, c, b, t, ats, ms), "attrs", x) = SessionOf(o, c, b, t, x, ms)
         /\ Set(SessionOf(o, c, b, t, ats, ms), "media", x) = SessionOf(o, c, b, t, ats, x)
<1> DEFINE r == SessionOf(o, c, b, t, ats, ms)      F == {"version", "origin", "conn", "bandwidth", "timing", "attrs", "media"}
<1>1. r = [i \in F |-> r[i]]
  BY DEF SessionOf
<1>2. r.version = 0 /\ r.origin = o /\ r.conn = c /\ r.bandwidth = b /\ r.timing = t /\ r.attrs = ats /\ r.media = ms
  BY DEF SessionOf
<1> HIDE DEF r
<1>3. Set(r, "origin", x) = SessionOf(x, c, b, t, ats, ms)
  <2> DEFINE v == SessionOf(x, c, b, t, ats, ms)
  <2>1. v = [i \in F |-> v[i]]
    BY DEF SessionOf
  <2>2. v.version = 0 /\ v.origin = x /\ v.conn = c /\ v.bandwidth = b /\ v.timing = t /\ v.attrs = ats /\ v.media = ms
    BY DEF SessionOf
  <2> HIDE DEF v
  <2>3. \A i \in F : v[i] = IF i = "origin" THEN x ELSE r[i]
    BY <1>2, <2>2
  <2> HIDE DEF F
  <2>4. Set(r, "origin", x) = v
    BY <1>1, <2>1, <2>3, FieldSet
  <2> QED BY <2>4 DEF v
<1>4. Set(r, "conn", x) = SessionOf(o, x, b, t, ats, ms)
  <2> DEFINE v == SessionOf(o, x, b, t, ats, ms)
  <2>1. v = [i \in F |-> v[i]]
    BY DEF SessionOf
  <2>2. v.version = 0 /\ v.origin = o /\ v.conn = x /\ v.bandwidth = b /\ v.timing = t /\ v.attrs = ats /\ v.media = ms
    BY DEF SessionOf
  <2> HIDE DEF v
  <2>3. \A i \in F : v[i] = IF i = "conn" THEN x ELSE r[i]
    BY <1>2, <2>2
  <2> HIDE DEF F
  <2>4. Set(r, "conn", x) = v
    BY <1>1, <2>1, <2>3, FieldSet
  <2> QED BY <2>4 DEF v
<1>5. Set(r, "bandwidth", x) = SessionOf(o, c, x, t, ats, ms)
  <2> DEFINE v == SessionOf(o, c, x, t, ats, ms)
  <2>1. v = [i \in F |-> v[i]]
    BY DEF SessionOf
  <2>2. v.version = 0 /\ v.origin = o /\ v.conn = c /\ v.bandwidth = x /\ v.timing = t /\ v.attrs = ats /\ v.media = ms
    BY DEF SessionOf
  <2> HIDE DEF v
  <2>3. \A i \in F : v[i] = IF i = "bandwidth" THEN x ELSE r[i]
    BY <1>2, <2>2
  <2> HIDE DEF F
  <2>4. Set(r, "bandwidth", x) = v
    BY <1>1, <2>1, <2>3, FieldSet
  <2> QED BY <2>4 DEF v
<1>6. Set(r, "timing", x) = SessionOf(o, c, b, x, ats, ms)
  <2> DEFINE v == SessionOf(o, c, b, x, ats, ms)
  <2>1. v = [i \in F |-> v[i]]
    BY DEF SessionOf
  <2>2. v.version = 0 /\ v.origin = o /\ v.conn = c /\ v.bandwidth = b /\ v.timing = x /\ v.attrs = ats /\ v.media = ms
    BY DEF SessionOf
  <2> HIDE DEF v
  <2>3. \A i \in F : v[i] = IF i = "timing" THEN x ELSE r[i]
    BY <1>2, <2>2
  <2> HIDE DEF F
  <2>4. Set(r, "timing", x) = v
    BY <1>1, <2>1, <2>3, FieldSet
  <2> QED BY <2>4 DEF v
<1>7. Set(r, "attrs", x) = SessionOf(o, c, b, t, x, ms)
  <2> DEFINE v == SessionOf(o, c, b, t, x, ms)
  <2>1. v = [i \in F |-> v[i]]
    BY DEF SessionOf
  <2>2. v.version = 0 /\ v.origin = o /\ v.conn = c /\ v.bandwidth = b /\ v.timing = t /\ v.attrs = x /\ v.media = ms
    BY DEF SessionOf
  <2> HIDE DEF v
  <2>3. \A i \in F : v[i] = IF i = "attrs" THEN x ELSE r[i]
    BY <1>2, <2>2
  <2> HIDE DEF F
  <2>4. Set(r, "attrs", x) = v
    BY <1>1, <2>1, <2>3, FieldSet
  <2> QED BY <2>4 DEF v
<1>8. Set(r, "media", x) = SessionOf(o, c, b, t, ats, x)
  <2> DEFINE v == SessionOf(o, c, b, t, ats, x)
  <2>1. v = [i \in F |-> v[i]]
    BY DEF SessionOf
  <2>2. v.version = 0 /\ v.origin = o /\ v.conn = c /\ v.bandwidth = b /\ v.timing = t /\ v.attrs = ats /\ v.media = x
    BY DEF SessionOf
  <2> HIDE DEF v
  <2>3. \A i \in F : v[i] = IF i = "media" THEN x ELSE r[i]
    BY <1>2, <2>2
  <2> HIDE DEF F
  <2>4. Set(r, "media", x) = v
    BY <1>1, <2>1, <2>3, FieldSet
  <2> QED BY <2>4 DEF v
<1> QED BY <1>3, <1>4, <1>5, <1>6, <1>7, <1>8 DEF r

LEMMA SectionSet ==
  ASSUME NEW f, NEW c, NEW b, NEW ats, NEW x
  PROVE  /\ Set(MediaOf(f, c, b, ats), "conn", x) = MediaOf(f, x, b, ats)
         /\ Set(MediaOf(f, c, b, ats), "bandwidth", x) = MediaOf(f, c, x, ats)
         /\ Set(MediaOf(f, c, b, ats), "attrs", x) = MediaOf(f, c, b, x)
         /\ Set(MediaOf(f, c, b, ats), "formats", x) = MediaOf(x, c, b, ats)
<1> DEFINE r == MediaOf(f, c, b, ats)      F == {"port", "formats", "conn", "bandwidth", "attrs"}
<1>1. r = [i \in F |-> r[i]]
  BY DEF MediaOf
<1>2. r.port = 9 /\ r.formats = f /\ r.conn = c /\ r.bandwidth = b /\ r.attrs = ats
  BY DEF MediaOf
<1> HIDE DEF r
<1>3. Set(r, "conn", x) = MediaOf(f, x, b, ats)
  <2> DEFINE v == MediaOf(f, x, b, ats)
  <2>1. v = [i \in F |-> v[i]]
    BY DEF MediaOf
  <2>2. v.port = 9 /\ v.formats = f /\ v.conn = x /\ v.bandwidth = b /\ v.attrs = ats
    BY DEF MediaOf
  <2> HIDE DEF v
  <2>3. \A i \in F : v[i] = IF i = "conn" THEN x ELSE r[i]
    BY <1>2, <2>2
  <2> HIDE DEF F
  <2>4. Set(r, "conn", x) = v
    BY <1>1, <2>1, <2>3, FieldSet
  <2> QED BY <2>4 DEF v
<1>4. Set(r, "bandwidth", x) = MediaOf(f, c, x, ats)
  <2> DEFINE v == MediaOf(f, c, x, ats)
  <2>1. v = [i \in F |-> v[i]]
    BY DEF MediaOf
  <2>2. v.port = 9 /\ v.formats = f /\ v.conn = c /\ v.bandwidth = x /\ v.attrs = ats
    BY DEF MediaOf
  <2> HIDE DEF v
  <2>3. \A i \in F : v[i] = IF i = "bandwidth" THEN x ELSE r[i]
    BY <1>2, <2>2
  <2> HIDE DEF F
  <2>4. Set(r, "bandwidth", x) = v
    BY <1>1, <2>1, <2>3, FieldSet
  <2> QED BY <2>4 DEF v
<1>5. Set(r, "attrs", x) = MediaOf(f, c, b, x)
  <2> DEFINE v == MediaOf(f, c, b, x)
  <2>1. v = [i \in F |-> v[i]]
    BY DEF MediaOf
  <2>2. v.port = 9 /\ v.formats = f /\ v.conn = c /\ v.bandwidth = b /\ v.attrs = x
    BY DEF MediaOf
  <2> HIDE DEF v
  <2>3. \A i \in F : v[i] = IF i = "attrs" THEN x ELSE r[i]
    BY <1>2, <2>2
  <2> HIDE DEF F
  <2>4. Set(r, "attrs", x) = v
    BY <1>1, <2>1, <2>3, FieldSet
  <2> QED BY <2>4 DEF v
<1>6. Set(r, "formats", x) = MediaOf(x, c, b, ats)
  <2> DEFINE v == MediaOf(x, c, b, ats)
  <2>1. v = [i \in F |-> v[i]]
    BY DEF MediaOf
  <2>2. v.port = 9 /\ v.formats = x /\ v.conn = c /\ v.bandwidth = b /\ v.attrs = ats
    BY DEF MediaOf
  <2> HIDE DEF v
  <2>3. \A i \in F : v[i] = IF i = "formats" THEN x ELSE r[i]
    BY <1>2, <2>2
  <2> HIDE DEF F
  <2>4. Set(r, "formats", x) = v
    BY <1>1, <2>1, <2>3, FieldSet
  <2> QED BY <2>4 DEF v
<1> QED BY <1>3, <1>4, <1>5, <1>6 DEF r

LEMMA DescSet ==
  ASSUME NEW s, NEW c, NEW z, NEW x
  PROVE  /\ Set(DescOf(s, c, z), "session", x) = DescOf(x, c, z)
         /\ Set(DescOf(s, c, z), "current", x) = DescOf(s, x, z)
         /\ Set(DescOf(s, c, z), "refused", x) = DescOf(s, c, x)
<1> DEFINE r == DescOf(s, c, z)      F == {"session", "current", "refused"}
<1>1. r = [i \in F |-> r[i]]
  BY DEF DescOf
<1>2. r.session = s /\ r.current = c /\ r.refused = z
  BY DEF DescOf
<1> HIDE DEF r
<1>3. Set(r, "session", x) = DescOf(x, c, z)
  <2> DEFINE v == DescOf(x, c, z)
  <2>1. v = [i \in F |-> v[i]]
    BY DEF DescOf
  <2>2. v.session = x /\ v.current = c /\ v.refused = z
    BY DEF DescOf
  <2> HIDE DEF v
  <2>3. \A i \in F : v[i] = IF i = "session" THEN x ELSE r[i]
    BY <1>2, <2>2
  <2> HIDE DEF F
  <2>4. Set(r, "session", x) = v
    BY <1>1, <2>1, <2>3, FieldSet
  <2> QED BY <2>4 DEF v
<1>4. Set(r, "current", x) = DescOf(s, x, z)
  <2> DEFINE v == DescOf(s, x, z)
  <2>1. v = [i \in F |-> v[i]]
    BY DEF DescOf
  <2>2. v.session = s /\ v.current = x /\ v.refused = z
    BY DEF DescOf
  <2> HIDE DEF v
  <2>3. \A i \in F : v[i] = IF i = "current" THEN x ELSE r[i]
    BY <1>2, <2>2
  <2> HIDE DEF F
  <2>4. Set(r, "current", x) = v
    BY <1>1, <2>1, <2>3, FieldSet
  <2> QED BY <2>4 DEF v
<1>5. Set(r, "refused", x) = DescOf(s, c, x)
  <2> DEFINE v == DescOf(s, c, x)
  <2>1. v = [i \in F |-> v[i]]
    BY DEF DescOf
  <2>2. v.session = s /\ v.current = c /\ v.refused = x
    BY DEF DescOf
  <2> HIDE DEF v
  <2>3. \A i \in F : v[i] = IF i = "refused" THEN x ELSE r[i]
    BY <1>2, <2>2
  <2> HIDE DEF F
  <2>4. Set(r, "refused", x) = v
    BY <1>1, <2>1, <2>3, FieldSet
  <2> QED BY <2>4 DEF v
<1> QED BY <1>3, <1>4, <1>5 DEF r

(* A line that is not refused, by its field.                               *)
LEMMA LineReads ==
  ASSUME NEW d, NEW l, ~d.refused, l.ok
  PROVE  /\ l.field = "v" => ReadLine(d, l) = d
         /\ l.field = "o" => ReadLine(d, l) = Set(d, "session", Set(d.session, "origin", TRUE))
         /\ l.field = "t" => ReadLine(d, l) = Set(d, "session", Set(d.session, "timing", d.session.timing + 1))
         /\ l.field = "m" => ReadLine(d, l) = Set(Ended(d), "current", parseMedia(l))
<1> DEFINE y == ReadLine(d, l)
<1>1. l.field = "v" => y = d
  BY DEF ReadLine
<1>2. l.field = "o" => y = Set(d, "session", Set(d.session, "origin", TRUE))
  BY DEF ReadLine, Set
<1>5. l.field = "t" => y = Set(d, "session", Set(d.session, "timing", d.session.timing + 1))
  BY DEF ReadLine, Set
<1>6. l.field = "m" => y = Set(Ended(d), "current", parseMedia(l))
  BY DEF ReadLine, Set
<1> HIDE DEF y
<1> QED BY <1>1, <1>2, <1>5, <1>6 DEF y

(* A line before the first section sets one part of the session; a line in *)
(* a section, one of the section.                                          *)
LEMMA HeaderLineReads ==
  ASSUME NEW d, NEW l, ~d.refused, l.ok, ~InMedia(d)
  PROVE  /\ l.field = "c" => ReadLine(d, l) = Set(d, "session", Set(d.session, "conn", parseConnection(l.parts)))
         /\ l.field = "b" => ReadLine(d, l) = Set(d, "session", Set(d.session, "bandwidth", d.session.bandwidth + 1))
         /\ l.field = "a" => ReadLine(d, l) = Set(d, "session", Set(d.session, "attrs", Append(d.session.attrs, l.attr)))
<1> DEFINE y == ReadLine(d, l)
<1>1. l.field = "c" => y = Set(d, "session", Set(d.session, "conn", parseConnection(l.parts)))
  BY DEF ReadLine, Set
<1>2. l.field = "b" => y = Set(d, "session", Set(d.session, "bandwidth", d.session.bandwidth + 1))
  BY DEF ReadLine, Set
<1>3. l.field = "a" => y = Set(d, "session", Set(d.session, "attrs", Append(d.session.attrs, l.attr)))
  BY DEF ReadLine, Set
<1> HIDE DEF y
<1> QED BY <1>1, <1>2, <1>3 DEF y

LEMMA SectionLineReads ==
  ASSUME NEW d, NEW l, ~d.refused, l.ok, InMedia(d)
  PROVE  /\ l.field = "c" => ReadLine(d, l) = Set(d, "current", Set(d.current, "conn", parseConnection(l.parts)))
         /\ l.field = "b" => ReadLine(d, l) = Set(d, "current", Set(d.current, "bandwidth", d.current.bandwidth + 1))
         /\ l.field = "a" => ReadLine(d, l) = Set(d, "current", Set(d.current, "attrs", Append(d.current.attrs, l.attr)))
<1> DEFINE y == ReadLine(d, l)
<1>1. l.field = "c" => y = Set(d, "current", Set(d.current, "conn", parseConnection(l.parts)))
  BY DEF ReadLine, Set
<1>2. l.field = "b" => y = Set(d, "current", Set(d.current, "bandwidth", d.current.bandwidth + 1))
  BY DEF ReadLine, Set
<1>3. l.field = "a" => y = Set(d, "current", Set(d.current, "attrs", Append(d.current.attrs, l.attr)))
  BY DEF ReadLine, Set
<1> HIDE DEF y
<1> QED BY <1>1, <1>2, <1>3 DEF y

(* Before the first section, and in one.                                   *)
Open(s, c) == DescOf(s, c, FALSE)
Header(o, c, b, t, ats) == Open(SessionOf(o, c, b, t, ats, <<>>), NoMedia)
Section(s, f, c, b, ats) == Open(s, MediaOf(f, c, b, ats))
At1(a) == [address |-> a, ttl |-> 0, count |-> 0]
CLine(a) == [field |-> "c", ok |-> TRUE, parts |-> <<a>>]
ALine(a) == [field |-> "a", ok |-> TRUE, attr |-> a]
Plain(x) == [field |-> x, ok |-> TRUE]

(* What the parser makes of a line that String wrote.                      *)
LEMMA LineParts ==
  /\ \A a : /\ CLine(a).ok /\ CLine(a).field = "c" /\ parseConnection(CLine(a).parts) = At1(a)
            /\ ALine(a).ok /\ ALine(a).field = "a" /\ ALine(a).attr = a
  /\ \A x : Plain(x).ok /\ Plain(x).field = x
<1>1. \A a : parseConnection(CLine(a).parts) = At1(a)
  <2> SUFFICES ASSUME NEW a PROVE parseConnection(CLine(a).parts) = At1(a)
    OBVIOUS
  <2>1. CLine(a).parts = <<a>> /\ <<a>>[1] = a /\ Len(<<a>>) = 1
    BY DEF CLine
  <2> QED BY <2>1 DEF parseConnection, At1
<1>2. \A x : Plain(x).ok /\ Plain(x).field = x
  BY DEF Plain
<1>3. \A a : CLine(a).ok /\ CLine(a).field = "c" /\ ALine(a).ok /\ ALine(a).field = "a" /\ ALine(a).attr = a
  BY DEF CLine, ALine
<1> QED BY <1>1, <1>2, <1>3

LEMMA OpenParts ==
  ASSUME NEW s, NEW c
  PROVE  /\ Open(s, c).session = s /\ Open(s, c).current = c /\ ~Open(s, c).refused
         /\ \A x : Set(Open(s, c), "session", x) = Open(x, c) /\ Set(Open(s, c), "current", x) = Open(s, x)
<1>1. Open(s, c).session = s /\ Open(s, c).current = c /\ ~Open(s, c).refused
  BY DEF Open, DescOf
<1> DEFINE z == FALSE
<1> HIDE DEF z
<1>2. \A x : Set(DescOf(s, c, z), "session", x) = DescOf(x, c, z)
  BY DescSet
<1>3. \A x : Set(DescOf(s, c, z), "current", x) = DescOf(s, x, z)
  BY DescSet
<1>4. \A u, v : Open(u, v) = DescOf(u, v, z)
  BY DEF z, Open
<1>5. \A x : Set(Open(s, c), "session", x) = Open(x, c) /\ Set(Open(s, c), "current", x) = Open(s, x)
  BY <1>2, <1>3, <1>4
<1> QED BY <1>1, <1>5

(* Lines read before the first section.                                    *)
LEMMA HeaderReads ==
  ASSUME NEW o, NEW c, NEW b, NEW t, NEW ats
  PROVE  /\ \A a : ReadLine(Header(o, c, b, t, ats), CLine(a)) = Header(o, At1(a), b, t, ats)
         /\ ReadLine(Header(o, c, b, t, ats), Plain("b")) = Header(o, c, b + 1, t, ats)
         /\ ReadLine(Header(o, c, b, t, ats), Plain("t")) = Header(o, c, b, t + 1, ats)
         /\ \A a : ReadLine(Header(o, c, b, t, ats), ALine(a)) = Header(o, c, b, t, Append(ats, a))
<1> DEFINE d == Header(o, c, b, t, ats)      p == SessionOf(o, c, b, t, ats, <<>>)
<1>1. d = Open(p, NoMedia)
  BY DEF Header
<1>2. p.bandwidth = b /\ p.timing = t /\ p.attrs = ats
  BY DEF SessionOf
<1> HIDE DEF d
<1>4. \A x : /\ Set(p, "origin", x) = SessionOf(x, c, b, t, ats, <<>>) /\ Set(p, "conn", x) = SessionOf(o, x, b, t, ats, <<>>)
             /\ Set(p, "bandwidth", x) = SessionOf(o, c, x, t, ats, <<>>) /\ Set(p, "timing", x) = SessionOf(o, c, b, x, ats, <<>>)
             /\ Set(p, "attrs", x) = SessionOf(o, c, b, t, x, <<>>)
  BY SessionSet
<1> HIDE DEF d, p
<1>3. d.session = p /\ ~d.refused /\ ~InMedia(d)
  BY <1>1, OpenParts DEF InMedia
<1>5. \A x : Set(d, "session", x) = Open(x, NoMedia)
  BY <1>1, OpenParts
<1>11. ASSUME NEW a PROVE ReadLine(d, CLine(a)) = Header(o, At1(a), b, t, ats)
  <2>0. CLine(a).ok /\ CLine(a).field = "c" /\ parseConnection(CLine(a).parts) = At1(a)
    BY LineParts
  <2>1a. ReadLine(d, CLine(a)) = Set(d, "session", Set(d.session, "conn", parseConnection(CLine(a).parts)))
    BY <1>3, <2>0, HeaderLineReads
  <2>1. ReadLine(d, CLine(a)) = Set(d, "session", Set(d.session, "conn", At1(a)))
    BY <2>0, <2>1a
  <2> QED BY <1>3, <1>4, <1>5, <2>1 DEF Header
<1>12. ReadLine(d, Plain("b")) = Header(o, c, b + 1, t, ats)
  <2>1. ReadLine(d, Plain("b")) = Set(d, "session", Set(d.session, "bandwidth", d.session.bandwidth + 1))
    BY <1>3, LineParts, HeaderLineReads
  <2> QED BY <1>2, <1>3, <1>4, <1>5, <2>1 DEF Header
<1>13. ReadLine(d, Plain("t")) = Header(o, c, b, t + 1, ats)
  <2>1. ReadLine(d, Plain("t")) = Set(d, "session", Set(d.session, "timing", d.session.timing + 1))
    BY <1>3, LineParts, LineReads
  <2> QED BY <1>2, <1>3, <1>4, <1>5, <2>1 DEF Header
<1>14. ASSUME NEW a PROVE ReadLine(d, ALine(a)) = Header(o, c, b, t, Append(ats, a))
  <2>0. ALine(a).ok /\ ALine(a).field = "a" /\ ALine(a).attr = a
    BY LineParts
  <2>1a. ReadLine(d, ALine(a)) = Set(d, "session", Set(d.session, "attrs", Append(d.session.attrs, ALine(a).attr)))
    BY <1>3, <2>0, HeaderLineReads
  <2>1. ReadLine(d, ALine(a)) = Set(d, "session", Set(d.session, "attrs", Append(d.session.attrs, a)))
    BY <2>0, <2>1a
  <2> QED BY <1>2, <1>3, <1>4, <1>5, <2>1 DEF Header
<1> QED BY <1>11, <1>12, <1>13, <1>14 DEF d

LEMMA VersionRead ==
  \A o, c, b, t, ats : ReadLine(Header(o, c, b, t, ats), Plain("v")) = Header(o, c, b, t, ats)
<1> SUFFICES ASSUME NEW o, NEW c, NEW b, NEW t, NEW ats
             PROVE  ReadLine(Header(o, c, b, t, ats), Plain("v")) = Header(o, c, b, t, ats)
  OBVIOUS
<1>1. ~Header(o, c, b, t, ats).refused
  BY OpenParts DEF Header
<1> QED BY <1>1, LineParts, LineReads

Yes == TRUE
LEMMA OriginRead ==
  \A o, c, b, t, ats : ReadLine(Header(o, c, b, t, ats), Plain("o")) = Header(Yes, c, b, t, ats)
<1> SUFFICES ASSUME NEW o, NEW c, NEW b, NEW t, NEW ats
             PROVE  ReadLine(Header(o, c, b, t, ats), Plain("o")) = Header(Yes, c, b, t, ats)
  OBVIOUS
<1> DEFINE d == Header(o, c, b, t, ats)      p == SessionOf(o, c, b, t, ats, <<>>)
<1>1. d = Open(p, NoMedia)
  BY DEF Header
<1> HIDE DEF d
<1>2. \A x : Set(p, "origin", x) = SessionOf(x, c, b, t, ats, <<>>)
  BY SessionSet
<1> HIDE DEF p
<1>3. d.session = p /\ ~d.refused
  BY <1>1, OpenParts
<1>4. \A x : Set(d, "session", x) = Open(x, NoMedia)
  BY <1>1, OpenParts
<1>5. ReadLine(d, Plain("o")) = Set(d, "session", Set(d.session, "origin", TRUE))
  BY <1>3, LineParts, LineReads
<1>6. ReadLine(d, Plain("o")) = Set(d, "session", Set(d.session, "origin", Yes))
  BY <1>5, Zenon DEF Yes
<1>7. ReadLine(d, Plain("o")) = Header(Yes, c, b, t, ats)
  BY <1>2, <1>3, <1>4, <1>6 DEF Header
<1> QED BY <1>7 DEF d

(* Lines read in a section.                                                *)
LEMMA SectionThere == \A f, c, b, ats : MediaOf(f, c, b, ats) # NoMedia
<1> SUFFICES ASSUME NEW f, NEW c, NEW b, NEW ats PROVE MediaOf(f, c, b, ats) # NoMedia
  OBVIOUS
<1>1. MediaOf(f, c, b, ats).port = 9 /\ NoMedia.port = 0
  BY DEF MediaOf, NoMedia
<1> QED BY <1>1

LEMMA SectionLines ==
  ASSUME NEW s, NEW f, NEW c, NEW b, NEW ats
  PROVE  /\ \A a : ReadLine(Section(s, f, c, b, ats), CLine(a)) = Section(s, f, At1(a), b, ats)
         /\ ReadLine(Section(s, f, c, b, ats), Plain("b")) = Section(s, f, c, b + 1, ats)
         /\ \A a : ReadLine(Section(s, f, c, b, ats), ALine(a)) = Section(s, f, c, b, Append(ats, a))
<1> DEFINE d == Section(s, f, c, b, ats)      p == MediaOf(f, c, b, ats)
<1>1. d = Open(s, p)
  BY DEF Section
<1>2. p.bandwidth = b /\ p.attrs = ats
  BY DEF MediaOf
<1> HIDE DEF d
<1>4. \A x : /\ Set(p, "conn", x) = MediaOf(f, x, b, ats) /\ Set(p, "bandwidth", x) = MediaOf(f, c, x, ats)
             /\ Set(p, "attrs", x) = MediaOf(f, c, b, x)
  BY SectionSet
<1>2a. p # NoMedia
  BY SectionThere
<1> HIDE DEF d, p
<1>3. d.current = p /\ ~d.refused /\ InMedia(d)
  BY <1>1, <1>2a, OpenParts DEF InMedia
<1>5. \A x : Set(d, "current", x) = Open(s, x)
  BY <1>1, OpenParts
<1>6. ASSUME NEW a PROVE ReadLine(d, CLine(a)) = Section(s, f, At1(a), b, ats)
  <2>0. CLine(a).ok /\ CLine(a).field = "c" /\ parseConnection(CLine(a).parts) = At1(a)
    BY LineParts
  <2>1a. ReadLine(d, CLine(a)) = Set(d, "current", Set(d.current, "conn", parseConnection(CLine(a).parts)))
    BY <1>3, <2>0, SectionLineReads
  <2>1. ReadLine(d, CLine(a)) = Set(d, "current", Set(d.current, "conn", At1(a)))
    BY <2>0, <2>1a
  <2> QED BY <1>3, <1>4, <1>5, <2>1 DEF Section
<1>7. ReadLine(d, Plain("b")) = Section(s, f, c, b + 1, ats)
  <2>1. ReadLine(d, Plain("b")) = Set(d, "current", Set(d.current, "bandwidth", d.current.bandwidth + 1))
    BY <1>3, LineParts, SectionLineReads
  <2> QED BY <1>2, <1>3, <1>4, <1>5, <2>1 DEF Section
<1>8. ASSUME NEW a PROVE ReadLine(d, ALine(a)) = Section(s, f, c, b, Append(ats, a))
  <2>0. ALine(a).ok /\ ALine(a).field = "a" /\ ALine(a).attr = a
    BY LineParts
  <2>1a. ReadLine(d, ALine(a)) = Set(d, "current", Set(d.current, "attrs", Append(d.current.attrs, ALine(a).attr)))
    BY <1>3, <2>0, SectionLineReads
  <2>1. ReadLine(d, ALine(a)) = Set(d, "current", Set(d.current, "attrs", Append(d.current.attrs, a)))
    BY <2>0, <2>1a
  <2> QED BY <1>2, <1>3, <1>4, <1>5, <2>1 DEF Section
<1> QED BY <1>6, <1>7, <1>8 DEF d

(* The beginnings of a sequence.                                           *)
LEMMA Beginnings ==
  ASSUME NEW S, NEW u \in Seq(S)
  PROVE  /\ SubSeq(u, 1, 0) = <<>> /\ SubSeq(u, 1, Len(u)) = u
         /\ \A i \in 0 .. Len(u) : SubSeq(u, 1, i) \in Seq(S) /\ Len(SubSeq(u, 1, i)) = i
         /\ \A i \in 1 .. Len(u) : Append(SubSeq(u, 1, i - 1), u[i]) = SubSeq(u, 1, i)
<1> DEFINE n == Len(u)      B(i) == SubSeq(u, 1, i)
<1>1. n \in Nat /\ \A i \in 1 .. n : u[i] \in S
  OBVIOUS
<1>2. ASSUME NEW i \in 0 .. n
      PROVE  B(i) \in Seq(S) /\ Len(B(i)) = i /\ \A j \in 1 .. i : B(i)[j] = u[j]
  <2>1. i \in Nat /\ 1 \in Nat /\ 1 <= 1 /\ 1 <= i + 1 /\ i <= Len(u) /\ (i - 1) + 1 = i
    BY <1>1
  <2>2. B(i) \in Seq(S) /\ Len(B(i)) = (i - 1) + 1 /\ \A j \in 1 .. (i - 1) + 1 : B(i)[j] = u[(1 + j) - 1]
    BY <2>1, Piece
  <2>3. \A j \in 1 .. i : (1 + j) - 1 = j
    BY <2>1
  <2> HIDE DEF B
  <2> QED BY <2>1, <2>2, <2>3
<1>3. 0 \in 0 .. n /\ n \in 0 .. n
  BY <1>1
<1>4. B(0) = <<>>
  <2>1. B(0) \in Seq(S) /\ Len(B(0)) = 0
    BY <1>2, <1>3
  <2> HIDE DEF B
  <2> QED BY <2>1
<1>5. B(n) = u
  <2>1. B(n) \in Seq(S) /\ Len(B(n)) = n /\ \A j \in 1 .. n : B(n)[j] = u[j]
    BY <1>2, <1>3
  <2> HIDE DEF B
  <2> QED BY <2>1, SameSeq
<1>6. ASSUME NEW i \in 1 .. n PROVE Append(B(i - 1), u[i]) = B(i)
  <2>1. i - 1 \in 0 .. n /\ i \in 0 .. n /\ (i - 1) + 1 = i /\ u[i] \in S
    BY <1>1
  <2> DEFINE p == B(i - 1)      q == B(i)      g == Append(p, u[i])
  <2>2. p \in Seq(S) /\ Len(p) = i - 1 /\ \A j \in 1 .. i - 1 : p[j] = u[j]
    BY <1>2, <2>1
  <2>3. q \in Seq(S) /\ Len(q) = i /\ \A j \in 1 .. i : q[j] = u[j]
    BY <1>2, <2>1
  <2> HIDE DEF p, q
  <2>4. g \in Seq(S) /\ Len(g) = i /\ g[i] = u[i] /\ \A j \in 1 .. i - 1 : g[j] = p[j]
    BY <2>1, <2>2
  <2> HIDE DEF g
  <2>5. \A j \in 1 .. i : j \in 1 .. i - 1 \/ j = i
    OBVIOUS
  <2>6. \A j \in 1 .. Len(g) : g[j] = q[j]
    BY <2>2, <2>3, <2>4, <2>5
  <2>7. g = q
    BY <2>3, <2>4, <2>6, SameSeq
  <2> QED BY <2>7 DEF g, p, q
<1> QED BY <1>2, <1>4, <1>5, <1>6

(* Lines that are alike, each taking a description one on.                 *)
LEMMA RunRepeated ==
  ASSUME NEW n \in Nat, NEW x, NEW f, \A i \in 1 .. n : f[i] = ReadLine(f[i - 1], Plain(x))
  PROVE  Run(f[0], Repeated(x, n), f[n])
<1> DEFINE w == Repeated(x, n)
<1>1. Len(w) = n /\ \A i \in 1 .. n : w[i] = Plain(x)
  BY DEF Repeated, Plain
<1> HIDE DEF w
<1>2. \A i \in 1 .. Len(w) : f[i] = ReadLine(f[i - 1], w[i])
  BY <1>1
<1>3. Run(f[0], w, f[n])
  BY <1>1, <1>2 DEF Run
<1> QED BY <1>3 DEF w

(* The lines of attributes, read one by one.                               *)
LEMMA RunAttributes ==
  ASSUME NEW E, NEW ats \in Seq(E), NEW f, \A i \in 1 .. Len(ats) : f[i] = ReadLine(f[i - 1], ALine(ats[i]))
  PROVE  Run(f[0], AttributeLines(ats), f[Len(ats)])
<1> DEFINE w == AttributeLines(ats)      n == Len(ats)
<1>0. DOMAIN ats = 1 .. n /\ n \in Nat
  OBVIOUS
<1>1. Len(w) = n /\ \A i \in 1 .. n : w[i] = ALine(ats[i])
  BY <1>0 DEF AttributeLines, ALine
<1> HIDE DEF w
<1>2. \A i \in 1 .. Len(w) : f[i] = ReadLine(f[i - 1], w[i])
  BY <1>1
<1>3. Run(f[0], w, f[n])
  BY <1>1, <1>2 DEF Run
<1> QED BY <1>3 DEF w

(* The bandwidth, timing and attribute lines of a header and of a section. *)
LEMMA HeaderRuns ==
  ASSUME NEW o, NEW c, NEW n \in Nat, NEW b, NEW t
  PROVE  /\ Run(Header(o, c, 0, t, <<>>), Repeated("b", n), Header(o, c, n, t, <<>>))
         /\ Run(Header(o, c, b, 0, <<>>), Repeated("t", n), Header(o, c, b, n, <<>>))
<1>1. Run(Header(o, c, 0, t, <<>>), Repeated("b", n), Header(o, c, n, t, <<>>))
  <2> DEFINE H(i) == Header(o, c, i, t, <<>>)      f == [i \in 0 .. n |-> H(i)]
  <2>1. \A i : ReadLine(H(i), Plain("b")) = H(i + 1)
    BY HeaderReads
  <2> HIDE DEF H
  <2>2. \A i \in 0 .. n : f[i] = H(i)
    OBVIOUS
  <2>3. 0 \in 0 .. n /\ n \in 0 .. n /\ \A i \in 1 .. n : i \in 0 .. n /\ i - 1 \in 0 .. n /\ (i - 1) + 1 = i
    OBVIOUS
  <2> HIDE DEF f
  <2>4. \A i \in 1 .. n : f[i] = ReadLine(f[i - 1], Plain("b"))
    BY <2>1, <2>2, <2>3
  <2>5. Run(f[0], Repeated("b", n), f[n])
    BY <2>4, RunRepeated
  <2> QED BY <2>2, <2>3, <2>5 DEF H
<1>2. Run(Header(o, c, b, 0, <<>>), Repeated("t", n), Header(o, c, b, n, <<>>))
  <2> DEFINE H(i) == Header(o, c, b, i, <<>>)      f == [i \in 0 .. n |-> H(i)]
  <2>1. \A i : ReadLine(H(i), Plain("t")) = H(i + 1)
    BY HeaderReads
  <2> HIDE DEF H
  <2>2. \A i \in 0 .. n : f[i] = H(i)
    OBVIOUS
  <2>3. 0 \in 0 .. n /\ n \in 0 .. n /\ \A i \in 1 .. n : i \in 0 .. n /\ i - 1 \in 0 .. n /\ (i - 1) + 1 = i
    OBVIOUS
  <2> HIDE DEF f
  <2>4. \A i \in 1 .. n : f[i] = ReadLine(f[i - 1], Plain("t"))
    BY <2>1, <2>2, <2>3
  <2>5. Run(f[0], Repeated("t", n), f[n])
    BY <2>4, RunRepeated
  <2> QED BY <2>2, <2>3, <2>5 DEF H
<1> QED BY <1>1, <1>2

LEMMA HeaderAttributes ==
  ASSUME NEW o, NEW c, NEW b, NEW t, NEW E, NEW ats \in Seq(E)
  PROVE  Run(Header(o, c, b, t, <<>>), AttributeLines(ats), Header(o, c, b, t, ats))
<1> DEFINE n == Len(ats)      H(x) == Header(o, c, b, t, x)      f == [i \in 0 .. n |-> H(SubSeq(ats, 1, i))]
<1>1. \A x, a : ReadLine(H(x), ALine(a)) = H(Append(x, a))
  BY HeaderReads
<1> HIDE DEF H
<1>2. \A i \in 0 .. n : f[i] = H(SubSeq(ats, 1, i))
  OBVIOUS
<1>3. n \in Nat
  OBVIOUS
<1>4. 0 \in 0 .. n /\ n \in 0 .. n /\ \A i \in 1 .. n : i \in 0 .. n /\ i - 1 \in 0 .. n
  BY <1>3
<1>5. SubSeq(ats, 1, 0) = <<>> /\ SubSeq(ats, 1, n) = ats
      /\ \A i \in 1 .. n : Append(SubSeq(ats, 1, i - 1), ats[i]) = SubSeq(ats, 1, i)
  BY Beginnings
<1> HIDE DEF f
<1>6. \A i \in 1 .. n : f[i] = ReadLine(f[i - 1], ALine(ats[i]))
  <2> SUFFICES ASSUME NEW i \in 1 .. n PROVE f[i] = ReadLine(f[i - 1], ALine(ats[i]))
    OBVIOUS
  <2> DEFINE x == SubSeq(ats, 1, i - 1)      a == ats[i]
  <2>1. f[i - 1] = H(x) /\ f[i] = H(SubSeq(ats, 1, i)) /\ Append(x, a) = SubSeq(ats, 1, i)
    BY <1>2, <1>4, <1>5
  <2>2. ReadLine(H(x), ALine(a)) = H(Append(x, a))
    BY <1>1
  <2> QED BY <2>1, <2>2
<1>7. Run(f[0], AttributeLines(ats), f[n])
  BY <1>6, RunAttributes
<1>8. f[0] = H(<<>>) /\ f[n] = H(ats)
  BY <1>2, <1>4, <1>5
<1> QED BY <1>7, <1>8 DEF H

LEMMA SectionRuns ==
  ASSUME NEW s, NEW f, NEW c, NEW n \in Nat
  PROVE  Run(Section(s, f, c, 0, <<>>), Repeated("b", n), Section(s, f, c, n, <<>>))
<1> DEFINE H(i) == Section(s, f, c, i, <<>>)      h == [i \in 0 .. n |-> H(i)]
<1>1. \A i : ReadLine(H(i), Plain("b")) = H(i + 1)
  BY SectionLines
<1> HIDE DEF H
<1>2. \A i \in 0 .. n : h[i] = H(i)
  OBVIOUS
<1>3. 0 \in 0 .. n /\ n \in 0 .. n /\ \A i \in 1 .. n : i \in 0 .. n /\ i - 1 \in 0 .. n /\ (i - 1) + 1 = i
  OBVIOUS
<1> HIDE DEF h
<1>4. \A i \in 1 .. n : h[i] = ReadLine(h[i - 1], Plain("b"))
  BY <1>1, <1>2, <1>3
<1>5. Run(h[0], Repeated("b", n), h[n])
  BY <1>4, RunRepeated
<1> QED BY <1>2, <1>3, <1>5 DEF H

LEMMA SectionAttributes ==
  ASSUME NEW s, NEW f, NEW c, NEW b, NEW E, NEW ats \in Seq(E)
  PROVE  Run(Section(s, f, c, b, <<>>), AttributeLines(ats), Section(s, f, c, b, ats))
<1> DEFINE n == Len(ats)      H(x) == Section(s, f, c, b, x)      h == [i \in 0 .. n |-> H(SubSeq(ats, 1, i))]
<1>1. \A x, a : ReadLine(H(x), ALine(a)) = H(Append(x, a))
  BY SectionLines
<1> HIDE DEF H
<1>2. \A i \in 0 .. n : h[i] = H(SubSeq(ats, 1, i))
  OBVIOUS
<1>3. n \in Nat
  OBVIOUS
<1>4. 0 \in 0 .. n /\ n \in 0 .. n /\ \A i \in 1 .. n : i \in 0 .. n /\ i - 1 \in 0 .. n
  BY <1>3
<1>5. SubSeq(ats, 1, 0) = <<>> /\ SubSeq(ats, 1, n) = ats
      /\ \A i \in 1 .. n : Append(SubSeq(ats, 1, i - 1), ats[i]) = SubSeq(ats, 1, i)
  BY Beginnings
<1> HIDE DEF h
<1>6. \A i \in 1 .. n : h[i] = ReadLine(h[i - 1], ALine(ats[i]))
  <2> SUFFICES ASSUME NEW i \in 1 .. n PROVE h[i] = ReadLine(h[i - 1], ALine(ats[i]))
    OBVIOUS
  <2> DEFINE x == SubSeq(ats, 1, i - 1)      a == ats[i]
  <2>1. h[i - 1] = H(x) /\ h[i] = H(SubSeq(ats, 1, i)) /\ Append(x, a) = SubSeq(ats, 1, i)
    BY <1>2, <1>4, <1>5
  <2>2. ReadLine(H(x), ALine(a)) = H(Append(x, a))
    BY <1>1
  <2> QED BY <2>1, <2>2
<1>7. Run(h[0], AttributeLines(ats), h[n])
  BY <1>6, RunAttributes
<1>8. h[0] = H(<<>>) /\ h[n] = H(ats)
  BY <1>2, <1>4, <1>5
<1> QED BY <1>7, <1>8 DEF H

(* A connection, written and read.                                         *)
Joined(c) == c.address \o (IF c.ttl = 0 THEN <<>> ELSE IF c.count = 0 THEN <<c.ttl>> ELSE <<c.ttl, c.count>>)
LEMMA ConnectionWritten ==
  ASSUME NEW c
  PROVE  /\ c = Nowhere => ConnectionLines(c) = <<>> /\ Slashed(c) = Nowhere
         /\ c # Nowhere => ConnectionLines(c) = <<CLine(Joined(c))>> /\ Slashed(c) = At1(Joined(c))
<1>1. c = Nowhere => ConnectionLines(c) = <<>> /\ Slashed(c) = Nowhere
  BY DEF ConnectionLines, Slashed
<1>2. ASSUME c # Nowhere PROVE ConnectionLines(c) = <<CLine(Joined(c))>> /\ Slashed(c) = At1(Joined(c))
  <2>1. ConnectionLines(c) = <<CLine(Joined(c))>>
    BY <1>2 DEF ConnectionLines, CLine, Joined
  <2>2. \A l : <<l>>[1] = l
    OBVIOUS
  <2>3. Slashed(c) = parseConnection(CLine(Joined(c)).parts)
    BY <1>2, <2>1, <2>2 DEF Slashed
  <2> QED BY <2>1, <2>3, LineParts
<1> QED BY <1>1, <1>2

(* A connection is read as one whose address carries the slashes.          *)
LEMMA ConnectionRuns ==
  /\ \A o, c, b, t, ats : Run(Header(o, Nowhere, b, t, ats), ConnectionLines(c), Header(o, Slashed(c), b, t, ats))
  /\ \A s, f, c, b, ats : Run(Section(s, f, Nowhere, b, ats), ConnectionLines(c), Section(s, f, Slashed(c), b, ats))
<1>1. ASSUME NEW o, NEW c, NEW b, NEW t, NEW ats
      PROVE  Run(Header(o, Nowhere, b, t, ats), ConnectionLines(c), Header(o, Slashed(c), b, t, ats))
  <2> DEFINE d == Header(o, Nowhere, b, t, ats)
  <2>1. \A a : ReadLine(d, CLine(a)) = Header(o, At1(a), b, t, ats)
    BY HeaderReads
  <2>2. Run(d, <<>>, d) /\ \A l : Run(d, <<l>>, ReadLine(d, l))
    BY RunNone, RunOne
  <2>3. CASE c = Nowhere
    BY <2>2, <2>3, ConnectionWritten
  <2>4. CASE c # Nowhere
    <3>1. Run(d, <<CLine(Joined(c))>>, Header(o, At1(Joined(c)), b, t, ats))
      BY <2>1, <2>2
    <3>2. ConnectionLines(c) = <<CLine(Joined(c))>> /\ Slashed(c) = At1(Joined(c))
      BY <2>4, ConnectionWritten
    <3> QED BY <3>1, <3>2
  <2> QED BY <2>3, <2>4
<1>2. ASSUME NEW s, NEW f, NEW c, NEW b, NEW ats
      PROVE  Run(Section(s, f, Nowhere, b, ats), ConnectionLines(c), Section(s, f, Slashed(c), b, ats))
  <2> DEFINE d == Section(s, f, Nowhere, b, ats)
  <2>1. \A a : ReadLine(d, CLine(a)) = Section(s, f, At1(a), b, ats)
    BY SectionLines
  <2>2. Run(d, <<>>, d) /\ \A l : Run(d, <<l>>, ReadLine(d, l))
    BY RunNone, RunOne
  <2>3. CASE c = Nowhere
    BY <2>2, <2>3, ConnectionWritten
  <2>4. CASE c # Nowhere
    <3>1. Run(d, <<CLine(Joined(c))>>, Section(s, f, At1(Joined(c)), b, ats))
      BY <2>1, <2>2
    <3>2. ConnectionLines(c) = <<CLine(Joined(c))>> /\ Slashed(c) = At1(Joined(c))
      BY <2>4, ConnectionWritten
    <3> QED BY <3>1, <3>2
  <2> QED BY <2>3, <2>4
<1> QED BY <1>1, <1>2

(* Sequences one after another.                                            *)
Flattened(g, E, q) ==
  /\ g \in [0 .. Len(q) -> Seq(E)] /\ g[0] = <<>> /\ g[Len(q)] = FlattenSeq(q)
  /\ \A i \in 1 .. Len(q) : g[i] = g[i - 1] \o q[i]
LEMMA FlattenFacts ==
  ASSUME NEW E, NEW q \in Seq(Seq(E))
  PROVE  \E g : Flattened(g, E, q)
<1> DEFINE n == Len(q)
           Next1(i, x) == x \o q[i]
           Is(f) == f = [i \in 1 .. n |-> IF i = 1 THEN q[i] ELSE f[i - 1] \o q[i]]
           G == [i \in 1 .. n |-> [x \in Seq(E) |-> Next1(i, x)]]
<1>1. n \in Nat /\ <<>> \in Seq(E) /\ \A i \in 1 .. n : q[i] \in Seq(E)
  OBVIOUS
<1>2. G \in [1 .. n -> [Seq(E) -> Seq(E)]]
  <2> SUFFICES ASSUME NEW i \in 1 .. n, NEW x \in Seq(E) PROVE Next1(i, x) \in Seq(E)
    OBVIOUS
  <2>1. q[i] \in Seq(E)
    BY <1>1
  <2> QED BY <2>1
<1>3. \A i \in 1 .. n : \A x \in Seq(E) : G[i][x] = Next1(i, x)
  OBVIOUS
<1> HIDE DEF G, n
<1>4. PICK h \in [0 .. n -> Seq(E)] : h[0] = <<>> /\ \A i \in 1 .. n : h[i] = G[i][h[i - 1]]
  <2> DEFINE V == Seq(E)      e == <<>>
  <2>1. n \in Nat /\ e \in V /\ G \in [1 .. n -> [V -> V]]
    BY <1>1, <1>2
  <2> HIDE DEF V, e
  <2>2. Recursive(V, n, e, G)
    BY <2>1, RecursionExists
  <2> QED BY <2>2 DEF V, e, Recursive
<1>5. \A i \in 1 .. n : h[i] = Next1(i, h[i - 1])
  <2> SUFFICES ASSUME NEW i \in 1 .. n PROVE h[i] = Next1(i, h[i - 1])
    OBVIOUS
  <2>1. i - 1 \in 0 .. n
    BY <1>1
  <2>2. h[i - 1] \in Seq(E)
    BY <2>1
  <2> HIDE DEF Next1
  <2> QED BY <1>3, <1>4, <2>2
<1>6. CASE n = 0
  <2>1. FlattenSeq(q) = q
    BY <1>6 DEF FlattenSeq, n
  <2>2. q = <<>>
    BY <1>6 DEF n
  <2> QED BY <1>4, <1>6, <2>1, <2>2 DEF n, Flattened
<1>7. CASE n # 0
  <2> DEFINE f == CHOOSE g : Is(g)      k == [i \in 1 .. n |-> h[i]]
  <2>1. FlattenSeq(q) = f[n]
    BY <1>7 DEF FlattenSeq, n
  <2>2. \A i \in 1 .. n : k[i] = h[i]
    OBVIOUS
  <2>3. ASSUME NEW i \in 1 .. n PROVE h[i] = IF i = 1 THEN q[i] ELSE k[i - 1] \o q[i]
    <3>1. CASE i = 1
      <4>1. h[1] = <<>> \o q[1] /\ q[1] \in Seq(E)
        <5>1. 1 - 1 = 0 /\ 1 \in 1 .. n
          BY <3>1
        <5>2. h[1] = Next1(1, h[1 - 1])
          <6> HIDE DEF Next1
          <6> QED BY <1>5, <5>1
        <5> QED BY <1>1, <1>4, <5>1, <5>2
      <4>2. <<>> \o q[1] = q[1]
        BY <4>1
      <4> QED BY <3>1, <4>1, <4>2
    <3>2. CASE i # 1
      <4>1. i - 1 \in 1 .. n
        BY <1>1, <3>2
      <4>2. k[i - 1] = h[i - 1]
        BY <2>2, <4>1
      <4> QED BY <1>5, <3>2, <4>2
    <3> QED BY <3>1, <3>2
  <2>4. Is(k)
    BY <2>3
  <2>5. Is(f)
    <3> HIDE DEF Is, k
    <3> QED BY <2>4
  <2> HIDE DEF f
  <2>6. \A i \in 1 .. n : f[i] = IF i = 1 THEN q[i] ELSE f[i - 1] \o q[i]
    BY <2>5
  <2> HIDE DEF Is, k
  <2> DEFINE T == {i \in 0 .. n : i = 0 \/ f[i] = h[i]}
  <2>7. 0 \in T
    BY <1>1
  <2>8. ASSUME NEW i \in 0 .. n, i \in T, i < n PROVE i + 1 \in T
    <3>1. i + 1 \in 1 .. n /\ i + 1 \in 0 .. n /\ (i + 1) - 1 = i
      BY <1>1, <2>8
    <3>2. CASE i = 0
      <4>1. f[1] = q[1] /\ h[1] = q[1]
        BY <2>3, <2>6, <3>1, <3>2
      <4> QED BY <3>1, <3>2, <4>1
    <3>3. CASE i # 0
      <4>1. f[i] = h[i] /\ i + 1 # 1
        BY <2>8, <3>3
      <4>2. f[i + 1] = f[i] \o q[i + 1]
        BY <2>6, <3>1, <4>1
      <4>3. h[i + 1] = h[i] \o q[i + 1]
        BY <1>5, <3>1
      <4> QED BY <3>1, <4>1, <4>2, <4>3
    <3> QED BY <3>2, <3>3
  <2>9. n \in T
    <3> HIDE DEF T
    <3>1. n \in 0 .. n
      BY <1>1
    <3> QED BY <1>1, <2>7, <2>8, <3>1, Upto
  <2>10. f[n] = h[n]
    BY <1>7, <2>9
  <2> QED BY <1>4, <1>5, <2>1, <2>10 DEF n, Flattened
<1> QED BY <1>6, <1>7

(* Each part taking a description one on, all of them take it to the last.  *)
LEMMA RunFlattened ==
  ASSUME NEW E, NEW q \in Seq(Seq(E)), NEW D, \A i \in 1 .. Len(q) : Run(D[i - 1], q[i], D[i])
  PROVE  Run(D[0], FlattenSeq(q), D[Len(q)]) /\ FlattenSeq(q) \in Seq(E)
<1> DEFINE n == Len(q)
<1>1. PICK g : Flattened(g, E, q)
  BY FlattenFacts
<1>2. /\ g \in [0 .. n -> Seq(E)] /\ g[0] = <<>> /\ g[n] = FlattenSeq(q)
      /\ \A i \in 1 .. n : g[i] = g[i - 1] \o q[i]
  BY <1>1 DEF Flattened
<1>3. n \in Nat /\ \A i \in 1 .. n : q[i] \in Seq(E)
  OBVIOUS
<1>4. \A i \in 1 .. n : Run(D[i - 1], q[i], D[i])
  OBVIOUS
<1> HIDE DEF n
<1> DEFINE T == {i \in 0 .. n : Run(D[0], g[i], D[i])}
<1>5. 0 \in T
  BY <1>2, <1>3, RunNone
<1>6. ASSUME NEW i \in 0 .. n, i \in T, i < n PROVE i + 1 \in T
  <2>1. i + 1 \in 1 .. n /\ i + 1 \in 0 .. n /\ (i + 1) - 1 = i
    BY <1>3, <1>6
  <2> DEFINE u == g[i]      v == q[i + 1]      d == D[0]      e == D[i]      z == D[i + 1]
  <2>2. u \in Seq(E) /\ v \in Seq(E) /\ Run(d, u, e) /\ Run(e, v, z)
    <3>1. Run(D[(i + 1) - 1], q[i + 1], D[i + 1])
      BY <1>4, <2>1
    <3> QED BY <1>2, <1>3, <1>6, <2>1, <3>1
  <2>3. g[i + 1] = u \o v
    BY <1>2, <2>1
  <2> HIDE DEF u, v, d, e, z
  <2>4. Run(d, u \o v, z)
    BY <2>2, RunBoth
  <2> QED BY <2>1, <2>3, <2>4 DEF d, z
<1>7. n \in T
  <2> HIDE DEF T
  <2>1. n \in 0 .. n
    BY <1>3
  <2> QED BY <1>3, <1>5, <1>6, <2>1, Upto
<1>8. n \in 0 .. n
  BY <1>3
<1> QED BY <1>2, <1>7, <1>8 DEF n

(* What the parts of a description are, and the lines of its text.         *)
Attrs == {Attribute(k, v) : k \in {"setup", "sendrecv", "rtpmap"}, v \in Seq(Nat)}
Connections == {[address |-> a, ttl |-> x, count |-> y] : a \in Seq(Nat), x \in Nat, y \in Nat}
Medias == {MediaOf(f, c, b, ats) : f \in Seq(Nat), c \in Connections, b \in Nat, ats \in Seq(Attrs)}
Sessions == {SessionOf(o, c, b, t, ats, ms) :
               o \in BOOLEAN, c \in Connections, b \in Nat, t \in Nat, ats \in Seq(Attrs), ms \in Seq(Medias)}
OLine(b) == [field |-> "o", ok |-> b]
MLine(f) == [field |-> "m", ok |-> f # <<>>, formats |-> f]
TextLines ==
  {Plain(x) : x \in {"v", "b", "t"}} \cup {OLine(b) : b \in BOOLEAN}
  \cup {CLine(a) : a \in Seq(Nat)} \cup {MLine(f) : f \in Seq(Nat)} \cup {ALine(a) : a \in Attrs}

(* What String writes are such lines.                                      *)
LEMMA JoinedType == \A c \in Connections : Joined(c) \in Seq(Nat)
<1> SUFFICES ASSUME NEW c \in Connections PROVE Joined(c) \in Seq(Nat)
  OBVIOUS
<1>1. c.address \in Seq(Nat) /\ c.ttl \in Nat /\ c.count \in Nat
  BY DEF Connections
<1>2. <<>> \in Seq(Nat) /\ <<c.ttl>> \in Seq(Nat) /\ <<c.ttl, c.count>> \in Seq(Nat)
  BY <1>1
<1> QED BY <1>1, <1>2 DEF Joined

LEMMA TextTypes ==
  /\ \A c \in Connections : ConnectionLines(c) \in Seq(TextLines)
  /\ \A x \in {"b", "t"}, n \in Nat : Repeated(x, n) \in Seq(TextLines)
  /\ \A ats \in Seq(Attrs) : AttributeLines(ats) \in Seq(TextLines)
<1>1. ASSUME NEW c \in Connections PROVE ConnectionLines(c) \in Seq(TextLines)
  <2>1. CLine(Joined(c)) \in TextLines
    BY JoinedType DEF TextLines
  <2>2. <<>> \in Seq(TextLines) /\ <<CLine(Joined(c))>> \in Seq(TextLines)
    BY <2>1
  <2> QED BY <2>2, ConnectionWritten
<1>2. ASSUME NEW x \in {"b", "t"}, NEW n \in Nat PROVE Repeated(x, n) \in Seq(TextLines)
  <2>1. Plain(x) \in TextLines
    BY DEF TextLines
  <2>2. Repeated(x, n) = [i \in 1 .. n |-> Plain(x)]
    BY DEF Repeated, Plain
  <2> HIDE DEF TextLines
  <2> QED BY <2>1, <2>2
<1>3. ASSUME NEW ats \in Seq(Attrs) PROVE AttributeLines(ats) \in Seq(TextLines)
  <2>1. DOMAIN ats = 1 .. Len(ats) /\ Len(ats) \in Nat /\ \A i \in 1 .. Len(ats) : ats[i] \in Attrs
    OBVIOUS
  <2>2. \A a \in Attrs : ALine(a) \in TextLines
    BY DEF TextLines
  <2>3. AttributeLines(ats) = [i \in 1 .. Len(ats) |-> ALine(ats[i])]
    BY <2>1 DEF AttributeLines, ALine
  <2> QED BY <2>1, <2>2, <2>3
<1> QED BY <1>1, <1>2, <1>3

(* A line in error.                                                        *)
LEMMA NowRefused == \A s, c : [Open(s, c) EXCEPT !.refused = TRUE] = DescOf(s, c, TRUE)
<1> SUFFICES ASSUME NEW s, NEW c PROVE [Open(s, c) EXCEPT !.refused = TRUE] = DescOf(s, c, TRUE)
  OBVIOUS
<1> DEFINE z == FALSE      x == TRUE
<1> HIDE DEF z, x
<1>1. Set(DescOf(s, c, z), "refused", x) = DescOf(s, c, x)
  BY DescSet
<1>2. [DescOf(s, c, z) EXCEPT !.refused = x] = DescOf(s, c, x)
  BY <1>1, Zenon DEF Set
<1> QED BY <1>2, Zenon DEF Open, z, x

(* The lines of a description before its first section.                    *)
Text(o, c, b, t, ats) ==
  <<Plain("v"), OLine(o)>> \o ConnectionLines(c) \o Repeated("b", b) \o Repeated("t", t) \o AttributeLines(ats)
Begins(o, d) == Run(Start, <<Plain("v"), OLine(o)>>, d)

(* The version and origin lines; without an origin the text is refused.    *)
LEMMA StartBlank == Start = Header(FALSE, Nowhere, 0, 0, <<>>)
BY DEF Start, Blank, Header, Open, DescOf, SessionOf
LEMMA StartReads ==
  /\ ReadLine(Start, Plain("v")) = Start
  /\ ReadLine(Start, Plain("o")) = Header(Yes, Nowhere, 0, 0, <<>>)
<1>1. \E z : Start = Header(z, Nowhere, 0, 0, <<>>)
  BY StartBlank, Zenon
<1>2. PICK z : Start = Header(z, Nowhere, 0, 0, <<>>)
  BY <1>1
<1>3. ReadLine(Start, Plain("v")) = Start
  BY <1>2, VersionRead
<1>4. ReadLine(Start, Plain("o")) = Header(Yes, Nowhere, 0, 0, <<>>)
  BY <1>2, OriginRead
<1> QED BY <1>3, <1>4

LEMMA FirstLines ==
  ASSUME NEW o
  PROVE  /\ o = TRUE => Begins(o, Header(Yes, Nowhere, 0, 0, <<>>))
         /\ o = FALSE => Begins(o, DescOf(Blank, NoMedia, TRUE))
<1> DEFINE l == OLine(o)      u == <<Plain("v")>>      v == <<l>>
<1>1. <<Plain("v"), OLine(o)>> = u \o v /\ u \in Seq({Plain("v"), l}) /\ v \in Seq({Plain("v"), l})
  OBVIOUS
<1>2. Run(Start, u, Start)
  <2>1. ReadLine(Start, Plain("v")) = Start
    BY StartReads
  <2>2. Run(Start, u, ReadLine(Start, Plain("v")))
    BY RunOne
  <2> QED BY <2>1, <2>2
<1> DEFINE e == ReadLine(Start, l)
<1>3. Run(Start, v, e)
  BY RunOne
<1>4. Begins(o, e)
  <2> DEFINE T == {Plain("v"), l}
  <2>1. u \in Seq(T) /\ v \in Seq(T)
    BY <1>1
  <2> HIDE DEF u, v, T, e
  <2>2. Run(Start, u \o v, e)
    BY <1>2, <1>3, <2>1, RunBoth
  <2> QED BY <1>1, <2>2 DEF Begins
<1>5. ASSUME o = TRUE PROVE e = Header(Yes, Nowhere, 0, 0, <<>>)
  <2>1. l = Plain("o")
    BY <1>5 DEF OLine, Plain
  <2> HIDE DEF l
  <2> QED BY <2>1, StartReads
<1>6. ASSUME o = FALSE PROVE e = DescOf(Blank, NoMedia, TRUE)
  <2>1. ~l.ok
    BY <1>6 DEF OLine
  <2> HIDE DEF l
  <2>2. e = [Start EXCEPT !.refused = TRUE]
    BY <2>1 DEF ReadLine
  <2>3. Start = Open(Blank, NoMedia)
    BY DEF Start, Open, DescOf
  <2> QED BY <2>2, <2>3, NowRefused
<1> HIDE DEF e
<1> QED BY <1>4, <1>5, <1>6

LEMMA TextType ==
  ASSUME NEW o \in BOOLEAN, NEW c \in Connections, NEW b \in Nat, NEW t \in Nat, NEW ats \in Seq(Attrs)
  PROVE  Text(o, c, b, t, ats) \in Seq(TextLines)
<1>1. <<Plain("v"), OLine(o)>> \in Seq(TextLines)
  <2>1. Plain("v") \in TextLines /\ OLine(o) \in TextLines
    BY DEF TextLines
  <2> QED BY <2>1
<1>2. ConnectionLines(c) \in Seq(TextLines) /\ Repeated("b", b) \in Seq(TextLines)
      /\ Repeated("t", t) \in Seq(TextLines) /\ AttributeLines(ats) \in Seq(TextLines)
  BY TextTypes
<1> DEFINE p == <<Plain("v"), OLine(o)>>      q == ConnectionLines(c)      r == Repeated("b", b)
           x == Repeated("t", t)      y == AttributeLines(ats)
<1> HIDE DEF p, q, r, x, y
<1>3. p \in Seq(TextLines) /\ q \in Seq(TextLines) /\ r \in Seq(TextLines) /\ x \in Seq(TextLines) /\ y \in Seq(TextLines)
  BY <1>1, <1>2 DEF p, q, r, x, y
<1>4. p \o q \o r \o x \o y \in Seq(TextLines)
  BY <1>3
<1> QED BY <1>4 DEF Text, p, q, r, x, y

(* The lines of a header take the blank description to that header.        *)
LEMMA TextRuns ==
  ASSUME NEW o \in BOOLEAN, NEW c \in Connections, NEW b \in Nat, NEW t \in Nat, NEW ats \in Seq(Attrs)
  PROVE  /\ o = TRUE => Run(Start, Text(o, c, b, t, ats), Header(Yes, Slashed(c), b, t, ats))
         /\ o = FALSE => Run(Start, Text(o, c, b, t, ats), DescOf(Blank, NoMedia, TRUE))
<1> DEFINE L == TextLines
           p == <<Plain("v"), OLine(o)>>      q == ConnectionLines(c)      r == Repeated("b", b)
           x == Repeated("t", t)      y == AttributeLines(ats)
<1>1. p \in Seq(L) /\ q \in Seq(L) /\ r \in Seq(L) /\ x \in Seq(L) /\ y \in Seq(L)
  <2>1. Plain("v") \in L /\ OLine(o) \in L
    BY DEF TextLines
  <2>2. p \in Seq(L)
    BY <2>1
  <2> QED BY <2>2, TextTypes
<1>2. Text(o, c, b, t, ats) = p \o q \o r \o x \o y
  BY DEF Text
<1>3. ASSUME o = TRUE PROVE Run(Start, Text(o, c, b, t, ats), Header(Yes, Slashed(c), b, t, ats))
  <2> DEFINE h == Start      e == Yes      s == Slashed(c)
             d0 == Header(e, Nowhere, 0, 0, <<>>)      d1 == Header(e, s, 0, 0, <<>>)
             d2 == Header(e, s, b, 0, <<>>)      d3 == Header(e, s, b, t, <<>>)      d4 == Header(e, s, b, t, ats)
  <2>1. Run(h, p, d0)
    BY <1>3, FirstLines DEF Begins
  <2> HIDE DEF e, s
  <2>2. Run(d0, q, d1)
    BY ConnectionRuns DEF s
  <2>3. Run(d1, r, d2)
    BY HeaderRuns
  <2>4. Run(d2, x, d3)
    BY HeaderRuns
  <2>5. Run(d3, y, d4)
    BY HeaderAttributes
  <2> HIDE DEF h, d0, d1, d2, d3, d4, p, q, r, x, y, L
  <2>6. p \o q \in Seq(L) /\ Run(h, p \o q, d1)
    BY <1>1, <2>1, <2>2, RunBoth
  <2> DEFINE pq == p \o q
  <2>7. pq \in Seq(L) /\ Run(h, pq, d1)
    BY <2>6
  <2> HIDE DEF pq
  <2>8. pq \o r \in Seq(L) /\ Run(h, pq \o r, d2)
    BY <1>1, <2>3, <2>7, RunBoth
  <2> DEFINE pqr == pq \o r
  <2>9. pqr \in Seq(L) /\ Run(h, pqr, d2)
    BY <2>8
  <2> HIDE DEF pqr
  <2>10. pqr \o x \in Seq(L) /\ Run(h, pqr \o x, d3)
    BY <1>1, <2>4, <2>9, RunBoth
  <2> DEFINE pqrx == pqr \o x
  <2>11. pqrx \in Seq(L) /\ Run(h, pqrx, d3)
    BY <2>10
  <2> HIDE DEF pqrx
  <2>12. Run(h, pqrx \o y, d4)
    BY <1>1, <2>5, <2>11, RunBoth
  <2>13. Run(h, p \o q \o r \o x \o y, d4)
    BY <2>12 DEF pq, pqr, pqrx
  <2> QED BY <1>2, <2>13 DEF h, d4, e, s
<1>4. ASSUME o = FALSE PROVE Run(Start, Text(o, c, b, t, ats), DescOf(Blank, NoMedia, TRUE))
  <2> DEFINE h == Start      d == DescOf(Blank, NoMedia, TRUE)
  <2>1. Run(h, p, d)
    BY <1>4, FirstLines DEF Begins
  <2>2. \A w \in Seq(L) : Run(d, w, d)
    BY RunRefused
  <2> HIDE DEF h, d, p, q, r, x, y, L
  <2>3. \A u, w \in Seq(L) : Run(h, u, d) => u \o w \in Seq(L) /\ Run(h, u \o w, d)
    <3> SUFFICES ASSUME NEW u \in Seq(L), NEW w \in Seq(L), Run(h, u, d)
                 PROVE  u \o w \in Seq(L) /\ Run(h, u \o w, d)
      OBVIOUS
    <3>1. Run(d, w, d)
      BY <2>2
    <3>2. Run(h, u \o w, d)
      BY <3>1, RunBoth
    <3> QED BY <3>2
  <2>4. p \o q \in Seq(L) /\ Run(h, p \o q, d)
    BY <1>1, <2>1, <2>3
  <2>5. p \o q \o r \in Seq(L) /\ Run(h, p \o q \o r, d)
    BY <1>1, <2>3, <2>4
  <2>6. p \o q \o r \o x \in Seq(L) /\ Run(h, p \o q \o r \o x, d)
    BY <1>1, <2>3, <2>5
  <2>7. Run(h, p \o q \o r \o x \o y, d)
    BY <1>1, <2>3, <2>6
  <2> QED BY <1>2, <2>7 DEF h, d
<1> QED BY <1>3, <1>4

(* The lines of a section, and what they add to a description.             *)
Joining(s, c) == IF c = NoMedia THEN s ELSE Set(s, "media", Append(s.media, c))
Normed(m) == MediaOf(m.formats, Slashed(m.conn), m.bandwidth, m.attrs)

(* The section that was being read is added when the next begins or the    *)
(* text ends.                                                              *)
LEMMA EndedParts ==
  ASSUME NEW s, NEW c, NEW z
  PROVE  Ended(DescOf(s, c, z)) = DescOf(Joining(s, c), c, z)
<1> DEFINE d == DescOf(s, c, z)
<1>1. d.session = s /\ d.current = c
  BY DEF DescOf
<1>2. Ended(d) = IF c = NoMedia THEN d ELSE Set(d, "session", Set(d.session, "media", Append(d.session.media, d.current)))
  BY <1>1 DEF Ended, InMedia, Set
<1>3. \A x : Set(d, "session", x) = DescOf(x, c, z)
  BY DescSet
<1> HIDE DEF d
<1>4. Ended(d) = IF c = NoMedia THEN d ELSE DescOf(Set(s, "media", Append(s.media, c)), c, z)
  BY <1>1, <1>2, <1>3
<1> QED BY <1>4 DEF d, Joining

(* A media line without formats is refused.                                *)
LEMMA MediaLineReads ==
  ASSUME NEW s, NEW c, NEW f
  PROVE  /\ f # <<>> => ReadLine(Open(s, c), MLine(f)) = Section(Joining(s, c), f, Nowhere, 0, <<>>)
         /\ f = <<>> => ReadLine(Open(s, c), MLine(f)) = DescOf(s, c, TRUE)
<1> DEFINE l == MLine(f)      d == Open(s, c)
<1>1. l.field = "m" /\ l.formats = f /\ (l.ok <=> f # <<>>)
  BY DEF MLine
<1>2. parseMedia(l) = MediaOf(f, Nowhere, 0, <<>>)
  BY <1>1 DEF parseMedia, MediaOf
<1>3. ~d.refused /\ d.session = s /\ d.current = c
  BY OpenParts
<1>4. Ended(d) = Open(Joining(s, c), c)
  <2> DEFINE z == FALSE
  <2> HIDE DEF z
  <2>1. Ended(DescOf(s, c, z)) = DescOf(Joining(s, c), c, z)
    BY EndedParts
  <2> QED BY <2>1 DEF z, Open
<1>5. \A x : Set(Open(Joining(s, c), c), "current", x) = Open(Joining(s, c), x)
  BY OpenParts
<1>6. ASSUME f # <<>> PROVE ReadLine(d, l) = Section(Joining(s, c), f, Nowhere, 0, <<>>)
  <2>1. l.ok
    BY <1>1, <1>6
  <2> HIDE DEF l, d
  <2>2. ReadLine(d, l) = Set(Ended(d), "current", parseMedia(l))
    BY <1>1, <1>3, <2>1, LineReads
  <2> QED BY <1>2, <1>4, <1>5, <2>2 DEF Section
<1>7. ASSUME f = <<>> PROVE ReadLine(d, l) = DescOf(s, c, TRUE)
  <2>1. ~l.ok
    BY <1>1, <1>7
  <2> HIDE DEF l
  <2>2. ReadLine(d, l) = [d EXCEPT !.refused = TRUE]
    BY <2>1 DEF ReadLine
  <2> QED BY <2>2, NowRefused
<1> QED BY <1>6, <1>7

(* The lines of one section.                                               *)
LEMMA MediaRuns ==
  ASSUME NEW s, NEW x, NEW m \in Medias
  PROVE  /\ MediaLines(m) \in Seq(TextLines)
         /\ m.formats # <<>> => Run(Open(s, x), MediaLines(m), Open(Joining(s, x), Normed(m)))
         /\ m.formats = <<>> => Run(Open(s, x), MediaLines(m), DescOf(s, x, TRUE))
<1>1. PICK f \in Seq(Nat), c \in Connections, b \in Nat, ats \in Seq(Attrs) : m = MediaOf(f, c, b, ats)
  BY DEF Medias
<1>2. m.formats = f /\ m.conn = c /\ m.bandwidth = b /\ m.attrs = ats
  BY <1>1 DEF MediaOf
<1> DEFINE L == TextLines
           p == <<MLine(f)>>      q == ConnectionLines(c)      r == Repeated("b", b)      y == AttributeLines(ats)
<1>3. p \in Seq(L) /\ q \in Seq(L) /\ r \in Seq(L) /\ y \in Seq(L)
  <2>1. MLine(f) \in L
    BY DEF TextLines
  <2>2. p \in Seq(L)
    BY <2>1
  <2> QED BY <2>2, TextTypes
<1>4. MediaLines(m) = p \o q \o r \o y
  BY <1>2 DEF MediaLines, MLine
<1> DEFINE d == Open(s, x)
<1>5. Run(d, p, ReadLine(d, MLine(f)))
  BY RunOne
<1>6. p \o q \in Seq(L) /\ p \o q \o r \in Seq(L) /\ p \o q \o r \o y \in Seq(L)
  <2> HIDE DEF p, q, r, y, L
  <2> QED BY <1>3
<1>7. ASSUME f # <<>> PROVE Run(d, MediaLines(m), Open(Joining(s, x), Normed(m)))
  <2> DEFINE n == Slashed(c)      a == Joining(s, x)      d0 == Section(a, f, Nowhere, 0, <<>>)
             d1 == Section(a, f, n, 0, <<>>)      d2 == Section(a, f, n, b, <<>>)      d3 == Section(a, f, n, b, ats)
  <2>1. Run(d, p, d0)
    BY <1>5, <1>7, MediaLineReads
  <2> HIDE DEF n, a
  <2>2. Run(d0, q, d1)
    BY ConnectionRuns DEF n
  <2>3. Run(d1, r, d2)
    BY SectionRuns
  <2>4. Run(d2, y, d3)
    BY SectionAttributes
  <2> HIDE DEF d, d0, d1, d2, d3, p, q, r, y, L
  <2> DEFINE pq == p \o q
  <2>5. pq \in Seq(L) /\ Run(d, pq, d1)
    BY <1>3, <1>6, <2>1, <2>2, RunBoth
  <2> HIDE DEF pq
  <2> DEFINE pqr == pq \o r
  <2>6. pqr \in Seq(L) /\ Run(d, pqr, d2)
    BY <1>3, <2>3, <2>5, RunBoth
  <2> HIDE DEF pqr
  <2>7. Run(d, pqr \o y, d3)
    BY <1>3, <2>4, <2>6, RunBoth
  <2>8. Run(d, MediaLines(m), d3)
    BY <1>4, <2>7 DEF pq, pqr
  <2> QED BY <1>2, <2>8 DEF d3, a, n, Section, Normed
<1>8. ASSUME f = <<>> PROVE Run(d, MediaLines(m), DescOf(s, x, TRUE))
  <2> DEFINE e == DescOf(s, x, TRUE)
  <2>1. Run(d, p, e)
    BY <1>5, <1>8, MediaLineReads
  <2>2. Run(e, q, e) /\ Run(e, r, e) /\ Run(e, y, e)
    BY <1>3, RunRefused
  <2> HIDE DEF d, e, p, q, r, y, L
  <2> DEFINE pq == p \o q
  <2>3. pq \in Seq(L) /\ Run(d, pq, e)
    BY <1>3, <1>6, <2>1, <2>2, RunBoth
  <2> HIDE DEF pq
  <2> DEFINE pqr == pq \o r
  <2>4. pqr \in Seq(L) /\ Run(d, pqr, e)
    BY <1>3, <2>2, <2>3, RunBoth
  <2> HIDE DEF pqr
  <2>5. Run(d, pqr \o y, e)
    BY <1>3, <2>2, <2>4, RunBoth
  <2> QED BY <1>4, <2>5 DEF pq, pqr, d, e
<1> QED BY <1>2, <1>4, <1>6, <1>7, <1>8

(* The text of a description.                                              *)
MediaTexts(ms) == [i \in DOMAIN ms |-> MediaLines(ms[i])]
Normeds(ms) == [i \in DOMAIN ms |-> Normed(ms[i])]

(* String writes the header, then the sections.                            *)
LEMMA StringParts ==
  ASSUME NEW o, NEW c, NEW b, NEW t, NEW ats, NEW ms
  PROVE  String(SessionOf(o, c, b, t, ats, ms)) = Text(o, c, b, t, ats) \o FlattenSeq(MediaTexts(ms))
<1> DEFINE s == SessionOf(o, c, b, t, ats, ms)
<1>1. s.origin = o /\ s.conn = c /\ s.bandwidth = b /\ s.timing = t /\ s.attrs = ats /\ s.media = ms
  BY DEF SessionOf
<1> HIDE DEF s
<1>2. String(s) = Text(o, c, b, t, ats) \o FlattenSeq(MediaTexts(ms))
  BY <1>1 DEF String, Text, MediaTexts, Plain, OLine
<1> QED BY <1>2 DEF s

(* A section as it is read again.                                          *)
LEMMA NormedMedia ==
  /\ \A c \in Connections : Slashed(c) \in Connections
  /\ \A m \in Medias : Normed(m) \in Medias /\ Normed(m) # NoMedia
  /\ \A ms \in Seq(Medias) :
       /\ Normeds(ms) \in Seq(Medias) /\ Len(Normeds(ms)) = Len(ms)
       /\ \A i \in 1 .. Len(ms) : Normeds(ms)[i] = Normed(ms[i])
  /\ Nowhere \in Connections
<1>a. \A a \in Seq(Nat), k, l \in Nat : [address |-> a, ttl |-> k, count |-> l] \in Connections
  BY DEF Connections
<1>b. <<>> \in Seq(Nat) /\ 0 \in Nat
  OBVIOUS
<1>0. Nowhere \in Connections
  BY <1>a, <1>b DEF Nowhere
<1>1. ASSUME NEW c \in Connections PROVE Slashed(c) \in Connections
  <2>1. Joined(c) \in Seq(Nat)
    BY JoinedType
  <2>2. At1(Joined(c)) \in Connections
    BY <1>a, <1>b, <2>1 DEF At1
  <2> QED BY <1>0, <2>2, ConnectionWritten
<1>2. ASSUME NEW m \in Medias PROVE Normed(m) \in Medias /\ Normed(m) # NoMedia
  <2>1. PICK f \in Seq(Nat), c \in Connections, b \in Nat, ats \in Seq(Attrs) : m = MediaOf(f, c, b, ats)
    BY DEF Medias
  <2>2. Normed(m) = MediaOf(f, Slashed(c), b, ats)
    BY <2>1 DEF MediaOf, Normed
  <2>3. Slashed(c) \in Connections
    BY <1>1
  <2> QED BY <2>2, <2>3, SectionThere DEF Medias
<1>3. ASSUME NEW ms \in Seq(Medias)
      PROVE  /\ Normeds(ms) \in Seq(Medias) /\ Len(Normeds(ms)) = Len(ms)
             /\ \A i \in 1 .. Len(ms) : Normeds(ms)[i] = Normed(ms[i])
  <2>1. DOMAIN ms = 1 .. Len(ms) /\ Len(ms) \in Nat /\ \A i \in 1 .. Len(ms) : ms[i] \in Medias
    OBVIOUS
  <2>2. \A i \in 1 .. Len(ms) : Normed(ms[i]) \in Medias
    BY <1>2, <2>1
  <2>3. Normeds(ms) = [i \in 1 .. Len(ms) |-> Normed(ms[i])]
    BY <2>1 DEF Normeds
  <2> QED BY <2>1, <2>2, <2>3
<1> QED BY <1>0, <1>1, <1>2, <1>3

(* The state after i of the sections.                                      *)
Before(o, c, b, t, ats, ms, i) == SessionOf(o, c, b, t, ats, SubSeq(Normeds(ms), 1, i))
AddedTo(o, c, b, t, ats, ms, i) ==
  IF i = 0 THEN Open(Before(o, c, b, t, ats, ms, 0), NoMedia)
  ELSE Open(Before(o, c, b, t, ats, ms, i - 1), Normeds(ms)[i])

LEMMA SectionsAdd ==
  ASSUME NEW o, NEW c, NEW b, NEW t, NEW ats, NEW ms \in Seq(Medias), NEW i \in 0 .. Len(ms)
  PROVE  \E s, x : /\ AddedTo(o, c, b, t, ats, ms, i) = Open(s, x)
                   /\ Joining(s, x) = Before(o, c, b, t, ats, ms, i)
<1> DEFINE N == Normeds(ms)      S(k) == SessionOf(o, c, b, t, ats, SubSeq(N, 1, k))
<1>1. /\ N \in Seq(Medias) /\ Len(N) = Len(ms) /\ Len(ms) \in Nat
      /\ \A k \in 1 .. Len(ms) : N[k] = Normed(ms[k]) /\ N[k] # NoMedia
  <2>1. \A k \in 1 .. Len(ms) : ms[k] \in Medias
    OBVIOUS
  <2> QED BY <2>1, NormedMedia
<1>2. \A k : Before(o, c, b, t, ats, ms, k) = S(k)
  BY DEF Before
<1> HIDE DEF N
<1>3. CASE i = 0
  <2>1. AddedTo(o, c, b, t, ats, ms, i) = Open(S(0), NoMedia)
    BY <1>2, <1>3 DEF AddedTo
  <2>2. Joining(S(0), NoMedia) = S(0)
    BY DEF Joining
  <2> HIDE DEF S
  <2> QED BY <1>2, <1>3, <2>1, <2>2
<1>4. CASE i # 0
  <2>1. i \in 1 .. Len(ms)
    BY <1>1, <1>4
  <2> DEFINE x == N[i]      s == S(i - 1)      q == SubSeq(N, 1, i - 1)
  <2>2. AddedTo(o, c, b, t, ats, ms, i) = Open(s, x)
    BY <1>2, <1>4 DEF AddedTo, N
  <2>3. Append(q, x) = SubSeq(N, 1, i)
    BY <1>1, <2>1, Beginnings
  <2>4. s.media = q
    BY DEF SessionOf
  <2>5. \A y : Set(s, "media", y) = SessionOf(o, c, b, t, ats, y)
    <3> HIDE DEF q
    <3> QED BY SessionSet
  <2>6. x # NoMedia
    BY <1>1, <2>1
  <2> HIDE DEF x, s, q
  <2>7. Joining(s, x) = Set(s, "media", Append(q, x))
    BY <2>4, <2>6 DEF Joining
  <2>8. Joining(s, x) = S(i)
    BY <2>3, <2>5, <2>7
  <2> HIDE DEF S
  <2> QED BY <1>2, <2>2, <2>8
<1> QED BY <1>3, <1>4

(* After sections that all have formats the description is the normal one.  *)
HaveFormats(ms, n) ==
  (\A i \in 1 .. n : ms[i].formats # <<>>) /\ (n < Len(ms) => ms[n + 1].formats = <<>>)
AddedBy(D, o, c, b, t, ats, ms, n) == \A i \in 0 .. n : D[i] = AddedTo(o, c, b, t, ats, ms, i)
LEMMA SectionsRun ==
  ASSUME NEW o, NEW c, NEW b, NEW t, NEW ats, NEW ms \in Seq(Medias), NEW n \in 0 .. Len(ms),
         NEW D, HaveFormats(ms, n), AddedBy(D, o, c, b, t, ats, ms, n)
  PROVE  /\ MediaTexts(ms) \in Seq(Seq(TextLines)) /\ Len(MediaTexts(ms)) = Len(ms)
         /\ \A i \in 1 .. n : Run(D[i - 1], MediaTexts(ms)[i], D[i])
         /\ n < Len(ms) => \E s, y : Run(D[n], MediaTexts(ms)[n + 1], DescOf(s, y, TRUE))
<1>0. /\ \A i \in 1 .. n : ms[i].formats # <<>>
      /\ n < Len(ms) => ms[n + 1].formats = <<>>
      /\ \A i \in 0 .. n : D[i] = AddedTo(o, c, b, t, ats, ms, i)
  BY DEF HaveFormats, AddedBy
<1>1. Len(ms) \in Nat /\ DOMAIN ms = 1 .. Len(ms) /\ \A i \in 1 .. Len(ms) : ms[i] \in Medias
  OBVIOUS
<1>2. \A i \in 1 .. Len(ms) : MediaTexts(ms)[i] = MediaLines(ms[i]) /\ MediaLines(ms[i]) \in Seq(TextLines)
  <2> SUFFICES ASSUME NEW i \in 1 .. Len(ms)
               PROVE  MediaTexts(ms)[i] = MediaLines(ms[i]) /\ MediaLines(ms[i]) \in Seq(TextLines)
    OBVIOUS
  <2>1. ms[i] \in Medias
    BY <1>1
  <2>2. MediaLines(ms[i]) \in Seq(TextLines)
    BY <2>1, MediaRuns
  <2> QED BY <1>1, <2>2 DEF MediaTexts
<1>3. MediaTexts(ms) = [i \in 1 .. Len(ms) |-> MediaLines(ms[i])]
  BY <1>1 DEF MediaTexts
<1>4. MediaTexts(ms) \in Seq(Seq(TextLines)) /\ Len(MediaTexts(ms)) = Len(ms)
  BY <1>1, <1>2, <1>3
<1>5. ASSUME NEW i \in 1 .. n PROVE Run(D[i - 1], MediaTexts(ms)[i], D[i])
  <2>1. i \in 1 .. Len(ms) /\ i - 1 \in 0 .. Len(ms) /\ i - 1 \in 0 .. n /\ i \in 0 .. n /\ i # 0
    BY <1>1
  <2>2. PICK s, y : D[i - 1] = Open(s, y) /\ Joining(s, y) = Before(o, c, b, t, ats, ms, i - 1)
    BY <1>0, <2>1, SectionsAdd
  <2>3. D[i] = Open(Before(o, c, b, t, ats, ms, i - 1), Normed(ms[i]))
    BY <1>0, <2>1, NormedMedia DEF AddedTo
  <2>4. ms[i] \in Medias /\ ms[i].formats # <<>>
    BY <1>0, <1>1, <2>1
  <2>5. Run(Open(s, y), MediaLines(ms[i]), Open(Joining(s, y), Normed(ms[i])))
    BY <2>4, MediaRuns
  <2> QED BY <1>2, <2>1, <2>2, <2>3, <2>5
<1>6. ASSUME n < Len(ms) PROVE \E s, y : Run(D[n], MediaTexts(ms)[n + 1], DescOf(s, y, TRUE))
  <2>1. n + 1 \in 1 .. Len(ms) /\ n \in 0 .. n
    BY <1>1, <1>6
  <2>2. PICK s, y : D[n] = Open(s, y)
    BY <1>0, <2>1, SectionsAdd
  <2>3. ms[n + 1] \in Medias /\ ms[n + 1].formats = <<>>
    BY <1>0, <1>1, <1>6, <2>1
  <2>4. Run(Open(s, y), MediaLines(ms[n + 1]), DescOf(s, y, TRUE))
    BY <2>3, MediaRuns
  <2> QED BY <1>2, <2>1, <2>2, <2>4
<1> QED BY <1>4, <1>5, <1>6

(* A description that was read from its own text is normal: it is written  *)
(* the same way again.                                                     *)
LEMMA SlashedTwice == \A c \in Connections : Slashed(Slashed(c)) = Slashed(c)
<1> SUFFICES ASSUME NEW c \in Connections PROVE Slashed(Slashed(c)) = Slashed(c)
  OBVIOUS
<1>1. CASE c = Nowhere
  BY <1>1, ConnectionWritten
<1>2. CASE c # Nowhere
  <2> DEFINE J == Joined(c)      d == At1(J)
  <2>1. Slashed(c) = d /\ J \in Seq(Nat)
    BY <1>2, JoinedType, ConnectionWritten
  <2> HIDE DEF J
  <2>2. Joined(d) = J
    <3>1. d.address = J /\ d.ttl = 0
      BY DEF At1
    <3>2. J \o <<>> = J
      BY <2>1
    <3> HIDE DEF d
    <3> QED BY <3>1, <3>2 DEF Joined
  <2>3. CASE d = Nowhere
    BY <2>1, <2>3, ConnectionWritten
  <2>4. CASE d # Nowhere
    <3>1. Slashed(d) = At1(Joined(d))
      BY <2>4, ConnectionWritten
    <3> QED BY <2>1, <2>2, <3>1
  <2> QED BY <2>3, <2>4
<1> QED BY <1>1, <1>2

LEMMA NormalIs ==
  ASSUME NEW o, NEW c, NEW b, NEW t, NEW ats, NEW ms \in Seq(Medias)
  PROVE  Normal(SessionOf(o, c, b, t, ats, ms)) = SessionOf(o, Slashed(c), b, t, ats, Normeds(ms))
<1> DEFINE s == SessionOf(o, c, b, t, ats, ms)      p == Slashed(c)
           X == [i \in DOMAIN s.media |-> NormalMedia(s.media[i])]
<1>1. s.conn = c /\ s.media = ms
  BY DEF SessionOf
<1>2. ASSUME NEW m \in Medias PROVE NormalMedia(m) = Normed(m)
  <2>1. PICK f \in Seq(Nat), d \in Connections, k \in Nat, y \in Seq(Attrs) : m = MediaOf(f, d, k, y)
    BY DEF Medias
  <2>2. m.formats = f /\ m.conn = d /\ m.bandwidth = k /\ m.attrs = y
    BY <2>1 DEF MediaOf
  <2>3. Set(m, "conn", Slashed(m.conn)) = MediaOf(f, Slashed(d), k, y)
    BY <2>1, <2>2, SectionSet
  <2> QED BY <2>2, <2>3 DEF Set, Normed, NormalMedia
<1>3. X = Normeds(ms)
  <2>1. DOMAIN ms = 1 .. Len(ms) /\ \A i \in 1 .. Len(ms) : ms[i] \in Medias
    OBVIOUS
  <2> HIDE DEF s
  <2>2. X = [i \in DOMAIN ms |-> NormalMedia(ms[i])]
    BY <1>1
  <2>3. \A i \in DOMAIN ms : NormalMedia(ms[i]) = Normed(ms[i])
    BY <1>2, <2>1
  <2> QED BY <2>2, <2>3 DEF Normeds
<1>4. Normal(s) = Set(Set(s, "conn", p), "media", X)
  <2> DEFINE r == [s EXCEPT !.conn = p]
  <2>1. r.media = s.media
    BY DEF SessionOf
  <2> HIDE DEF s
  <2>2. Normal(s) = [s EXCEPT !.conn = Slashed(s.conn), !.media = [i \in DOMAIN r.media |-> NormalMedia(r.media[i])]]
    BY <1>1 DEF Normal
  <2>3. \A x, y : [s EXCEPT !.conn = x, !.media = y] = [[s EXCEPT !.conn = x] EXCEPT !.media = y]
    OBVIOUS
  <2> HIDE DEF X
  <2> QED BY <1>1, <2>1, <2>2, <2>3 DEF Set, X
<1>5. Set(s, "conn", p) = SessionOf(o, p, b, t, ats, ms)
  BY SessionSet
<1> HIDE DEF p, s, X
<1>6. Set(SessionOf(o, p, b, t, ats, ms), "media", X) = SessionOf(o, p, b, t, ats, X)
  BY SessionSet
<1> QED BY <1>3, <1>4, <1>5, <1>6 DEF p, s

LEMMA NormalTwice ==
  ASSUME NEW o, NEW c \in Connections, NEW b, NEW t, NEW ats, NEW ms \in Seq(Medias)
  PROVE  Normal(Normal(SessionOf(o, c, b, t, ats, ms))) = Normal(SessionOf(o, c, b, t, ats, ms))
<1> DEFINE N == Normeds(ms)
<1>1. N \in Seq(Medias) /\ Len(N) = Len(ms) /\ \A i \in 1 .. Len(ms) : N[i] = Normed(ms[i])
  BY NormedMedia
<1>2. ASSUME NEW m \in Medias PROVE Normed(Normed(m)) = Normed(m)
  <2>1. PICK f \in Seq(Nat), d \in Connections, k \in Nat, y \in Seq(Attrs) : m = MediaOf(f, d, k, y)
    BY DEF Medias
  <2>2. m.formats = f /\ m.conn = d /\ m.bandwidth = k /\ m.attrs = y
    BY <2>1 DEF MediaOf
  <2> DEFINE v == MediaOf(f, Slashed(d), k, y)
  <2>3. v.formats = f /\ v.conn = Slashed(d) /\ v.bandwidth = k /\ v.attrs = y
    BY DEF MediaOf
  <2>4. Normed(m) = v
    BY <2>2 DEF Normed
  <2> HIDE DEF v
  <2>5. Normed(v) = MediaOf(f, Slashed(Slashed(d)), k, y)
    BY <2>3 DEF Normed
  <2> QED BY <2>4, <2>5, SlashedTwice DEF v
<1>3. Normeds(N) = N
  <2>1. Normeds(N) \in Seq(Medias) /\ Len(Normeds(N)) = Len(N) /\ \A i \in 1 .. Len(N) : Normeds(N)[i] = Normed(N[i])
    BY <1>1, NormedMedia
  <2>2. \A i \in 1 .. Len(ms) : ms[i] \in Medias
    OBVIOUS
  <2> DEFINE R == Normeds(N)
  <2>3. \A i \in 1 .. Len(R) : R[i] = N[i]
    BY <1>1, <1>2, <2>1, <2>2
  <2>4. R \in Seq(Medias) /\ Len(R) = Len(N)
    BY <2>1
  <2> HIDE DEF R, N
  <2>5. R = N
    BY <1>1, <2>3, <2>4, SameSeq
  <2> QED BY <2>5 DEF R
<1> DEFINE p == Slashed(c)
<1>4. Normal(SessionOf(o, c, b, t, ats, ms)) = SessionOf(o, p, b, t, ats, N)
  BY NormalIs
<1> HIDE DEF N
<1>5. Normal(SessionOf(o, p, b, t, ats, N)) = SessionOf(o, Slashed(p), b, t, ats, Normeds(N))
  BY <1>1, NormalIs
<1>6. Slashed(p) = p
  BY SlashedTwice
<1> QED BY <1>3, <1>4, <1>5, <1>6

(* A text that takes Parse to a refused description, or to another one.     *)
LEMMA ParseRefused ==
  ASSUME NEW w \in Seq(TextLines), NEW s, NEW x, Run(Start, w, DescOf(s, x, TRUE))
  PROVE  Parse(w).refused = TRUE
<1>1. Reads(Start, w) = DescOf(s, x, TRUE)
  BY RunIsReads
<1>2. DescOf(s, x, TRUE) = DescOf(s, x, Yes)
  BY Zenon DEF Yes
<1>3. Parse(w) = DescOf(Joining(s, x), x, Yes)
  <2>1. Ended(DescOf(s, x, Yes)) = DescOf(Joining(s, x), x, Yes)
    BY EndedParts
  <2> QED BY <1>1, <1>2, <2>1, Zenon DEF Parse
<1>4. \A u, v, z : DescOf(u, v, z).refused = z
  BY DEF DescOf
<1> QED BY <1>3, <1>4, Zenon DEF Yes

LEMMA ParseAccepts ==
  ASSUME NEW w \in Seq(TextLines), NEW s, NEW x, Run(Start, w, Open(s, x))
  PROVE  Parse(w).refused = FALSE /\ Parse(w).session = Joining(s, x)
<1>1. Reads(Start, w) = Open(s, x)
  BY RunIsReads
<1> DEFINE z == FALSE
<1> HIDE DEF z
<1>2. Open(s, x) = DescOf(s, x, z)
  BY DEF Open, z
<1>3. Parse(w) = DescOf(Joining(s, x), x, z)
  BY <1>1, <1>2, EndedParts DEF Parse
<1>4. \A u, v, y : DescOf(u, v, y).refused = y /\ DescOf(u, v, y).session = u
  BY DEF DescOf
<1>5. Parse(w).refused = z /\ Parse(w).session = Joining(s, x)
  BY <1>3, <1>4
<1> QED BY <1>5 DEF z

(* The sections' text takes the header on, or is refused.                  *)
LEMMA SectionsAccepted ==
  ASSUME NEW o, NEW c, NEW b, NEW t, NEW ats, NEW ms \in Seq(Medias),
         \A i \in 1 .. Len(ms) : ms[i].formats # <<>>
  PROVE  \E s, x : /\ Run(Header(o, c, b, t, ats), FlattenSeq(MediaTexts(ms)), Open(s, x))
                   /\ Joining(s, x) = SessionOf(o, c, b, t, ats, Normeds(ms))
<1> DEFINE n == Len(ms)      D == [i \in 0 .. n |-> AddedTo(o, c, b, t, ats, ms, i)]      q == MediaTexts(ms)
<1>1. n \in Nat /\ n \in 0 .. n /\ 0 \in 0 .. n /\ n \in 0 .. Len(ms) /\ ~(n < Len(ms))
  OBVIOUS
<1>2. \A i \in 0 .. n : D[i] = AddedTo(o, c, b, t, ats, ms, i)
  OBVIOUS
<1> HIDE DEF D
<1>3. q \in Seq(Seq(TextLines)) /\ Len(q) = n /\ \A i \in 1 .. n : Run(D[i - 1], q[i], D[i])
  <2>1. AddedBy(D, o, c, b, t, ats, ms, n) /\ HaveFormats(ms, n)
    BY <1>1, <1>2 DEF AddedBy, HaveFormats
  <2> QED BY <1>1, <2>1, SectionsRun
<1>4. Run(D[0], FlattenSeq(q), D[n])
  <2> HIDE DEF q, n
  <2> QED BY <1>3, RunFlattened
<1>5. Normeds(ms) \in Seq(Medias) /\ Len(Normeds(ms)) = n
  BY NormedMedia
<1>6. D[0] = Header(o, c, b, t, ats)
  <2>1. SubSeq(Normeds(ms), 1, 0) = <<>>
    BY <1>5, Beginnings
  <2> QED BY <1>1, <1>2, <2>1 DEF AddedTo, Before, Header
<1>7. PICK s, x : D[n] = Open(s, x) /\ Joining(s, x) = Before(o, c, b, t, ats, ms, n)
  BY <1>1, <1>2, SectionsAdd
<1>8. Before(o, c, b, t, ats, ms, n) = SessionOf(o, c, b, t, ats, Normeds(ms))
  <2>1. SubSeq(Normeds(ms), 1, n) = Normeds(ms)
    BY <1>5, Beginnings
  <2> QED BY <2>1 DEF Before
<1> QED BY <1>4, <1>6, <1>7, <1>8

(* With a section that has no formats the text is refused.                 *)
LEMMA SectionsRefused ==
  ASSUME NEW o, NEW c, NEW b, NEW t, NEW ats, NEW ms \in Seq(Medias),
         NEW k \in 1 .. Len(ms), ms[k].formats = <<>>
  PROVE  \E s, x : Run(Header(o, c, b, t, ats), FlattenSeq(MediaTexts(ms)), DescOf(s, x, TRUE))
<1> DEFINE n == Len(ms)      q == MediaTexts(ms)      A(i) == AddedTo(o, c, b, t, ats, ms, i)
           Out == {i \in 1 .. n : ms[i].formats = <<>>}
<1>1. n \in Nat /\ Out \subseteq Nat /\ Out # {}
  OBVIOUS
<1>2. PICK j \in Out : \A i \in Out : j <= i
  <2> HIDE DEF Out
  <2> QED BY <1>1, NatMin
<1> DEFINE m == j - 1      E == [i \in 0 .. m |-> A(i)]
<1>3. m \in 0 .. n /\ m < n /\ ms[m + 1].formats = <<>> /\ m \in Nat /\ m + 1 = j /\ j \in 1 .. n
  BY <1>1, <1>2
<1>4. ASSUME NEW i \in 1 .. m PROVE ms[i].formats # <<>>
  <2>1. i \in 1 .. n /\ ~(j <= i)
    BY <1>1, <1>3
  <2> QED BY <1>2, <2>1
<1>5. \A i \in 0 .. m : E[i] = A(i)
  OBVIOUS
<1> HIDE DEF E, m
<1>6. /\ q \in Seq(Seq(TextLines)) /\ Len(q) = n /\ \A i \in 1 .. m : Run(E[i - 1], q[i], E[i])
      /\ \E s, y : Run(E[m], q[m + 1], DescOf(s, y, TRUE))
  <2>1. AddedBy(E, o, c, b, t, ats, ms, m) /\ HaveFormats(ms, m)
    BY <1>3, <1>4, <1>5 DEF AddedBy, HaveFormats
  <2> QED BY <1>3, <2>1, SectionsRun
<1>7. PICK s, y : Run(E[m], q[m + 1], DescOf(s, y, TRUE))
  BY <1>6
<1> DEFINE z == DescOf(s, y, TRUE)      D == [i \in 0 .. n |-> IF i <= m THEN E[i] ELSE z]
<1>8. \A w \in Seq(TextLines) : Run(z, w, z)
  BY RunRefused
<1>9. Run(E[m], q[m + 1], z)
  BY <1>7
<1> HIDE DEF z, n, q, A
<1>10. /\ \A i \in 0 .. m : D[i] = E[i]
       /\ \A i \in m + 1 .. n : D[i] = z
  <2>1. (\A i \in 0 .. m : i \in 0 .. n /\ i <= m) /\ \A i \in m + 1 .. n : i \in 0 .. n /\ ~(i <= m)
    BY <1>1, <1>3
  <2> QED BY <2>1
<1> HIDE DEF D
<1>11. ASSUME NEW i \in 1 .. n PROVE Run(D[i - 1], q[i], D[i])
  <2>1. CASE i <= m
    <3>1. i \in 1 .. m /\ i \in 0 .. m /\ i - 1 \in 0 .. m
      BY <1>3, <2>1
    <3> QED BY <1>6, <1>10, <3>1
  <2>2. CASE i = m + 1
    <3>1. i - 1 = m /\ m \in 0 .. m /\ i \in m + 1 .. n
      BY <1>3, <2>2
    <3> QED BY <1>9, <1>10, <2>2, <3>1
  <2>3. CASE m + 1 < i
    <3>1. i - 1 \in m + 1 .. n /\ i \in m + 1 .. n
      BY <1>1, <1>3, <2>3
    <3>2. q[i] \in Seq(TextLines)
      BY <1>6
    <3> QED BY <1>8, <1>10, <3>1, <3>2
  <2>4. i <= m \/ i = m + 1 \/ m + 1 < i
    BY <1>3
  <2> QED BY <2>1, <2>2, <2>3, <2>4
<1>12. Run(D[0], FlattenSeq(q), D[n])
  BY <1>6, <1>11, RunFlattened
<1>13. n \in m + 1 .. n /\ 0 \in 0 .. m
  BY <1>1, <1>3
<1>14. D[n] = z /\ D[0] = A(0)
  BY <1>5, <1>10, <1>13
<1>15. A(0) = Header(o, c, b, t, ats)
  <2>1. SubSeq(Normeds(ms), 1, 0) = <<>>
    BY NormedMedia, Beginnings
  <2> QED BY <2>1 DEF A, AddedTo, Before, Header
<1> QED BY <1>12, <1>14, <1>15 DEF z, q

(* Parse of String: the normal form of the session, or an error when it has*)
(* no origin or a section without formats.                                 *)
LEMMA ReadsAgain ==
  ASSUME NEW s \in Sessions
  PROVE  /\ Parse(String(s)).refused <=> ~Writable(s)
         /\ Writable(s) => Parse(String(s)).session = Normal(s) /\ Normal(Normal(s)) = Normal(s)
<1>1. PICK o \in BOOLEAN, c \in Connections, b \in Nat, t \in Nat, ats \in Seq(Attrs), ms \in Seq(Medias) :
           s = SessionOf(o, c, b, t, ats, ms)
  BY DEF Sessions
<1>2. s.origin = o /\ s.media = ms /\ DOMAIN ms = 1 .. Len(ms)
  BY <1>1 DEF SessionOf
<1>3. Writable(s) <=> o = TRUE /\ \A i \in 1 .. Len(ms) : ms[i].formats # <<>>
  BY <1>2 DEF Writable
<1> DEFINE u == Text(o, c, b, t, ats)      v == FlattenSeq(MediaTexts(ms))      p == Slashed(c)
<1>4. String(s) = u \o v
  BY <1>1, StringParts
<1>5. u \in Seq(TextLines)
  BY TextType
<1>6. v \in Seq(TextLines)
  <2> DEFINE q == MediaTexts(ms)
  <2>1. \A i \in 1 .. Len(ms) : ms[i] \in Medias
    OBVIOUS
  <2>2. \A i \in 1 .. Len(ms) : MediaLines(ms[i]) \in Seq(TextLines)
    <3> SUFFICES ASSUME NEW i \in 1 .. Len(ms) PROVE MediaLines(ms[i]) \in Seq(TextLines)
      OBVIOUS
    <3>1. ms[i] \in Medias
      BY <2>1
    <3> QED BY <3>1, MediaRuns
  <2>3. q = [i \in 1 .. Len(ms) |-> MediaLines(ms[i])] /\ Len(ms) \in Nat
    BY <1>2 DEF MediaTexts
  <2>4. q \in Seq(Seq(TextLines))
    BY <2>2, <2>3
  <2> HIDE DEF q
  <2>5. PICK g : Flattened(g, TextLines, q)
    BY <2>4, FlattenFacts
  <2>6. g \in [0 .. Len(q) -> Seq(TextLines)] /\ g[Len(q)] = FlattenSeq(q) /\ Len(q) \in 0 .. Len(q)
    BY <2>4, <2>5 DEF Flattened
  <2>7. FlattenSeq(q) \in Seq(TextLines)
    BY <2>6
  <2> QED BY <2>7 DEF q
<1>7. u \o v \in Seq(TextLines)
  <2> HIDE DEF u, v
  <2> QED BY <1>5, <1>6
<1>8. CASE o = FALSE
  <2> DEFINE e == DescOf(Blank, NoMedia, TRUE)      h == Start
  <2>1. Run(h, u, e)
    BY <1>8, TextRuns
  <2>2. Run(e, v, e)
    BY <1>6, RunRefused
  <2>3. Run(h, u \o v, e)
    <3> HIDE DEF u, v, e, h
    <3> QED BY <1>5, <1>6, <2>1, <2>2, RunBoth
  <2>4. Parse(u \o v).refused = TRUE
    <3> HIDE DEF u, v
    <3> QED BY <1>7, <2>3, ParseRefused
  <2> HIDE DEF u, v
  <2> QED BY <1>3, <1>4, <1>8, <2>4
<1>9. CASE o = TRUE
  <2>0. o = Yes
    BY <1>9, Zenon DEF Yes
  <2> DEFINE d == Header(Yes, p, b, t, ats)      h == Start
  <2>1. Run(h, u, d)
    BY <1>9, TextRuns
  <2>2. CASE \A i \in 1 .. Len(ms) : ms[i].formats # <<>>
    <3>1. PICK y, x : Run(d, v, Open(y, x)) /\ Joining(y, x) = SessionOf(Yes, p, b, t, ats, Normeds(ms))
      BY <2>2, SectionsAccepted
    <3>2. Run(h, u \o v, Open(y, x))
      <4> DEFINE e == Open(y, x)
      <4>1. Run(d, v, e)
        BY <3>1
      <4>2. Run(h, u \o v, e)
        <5> HIDE DEF u, v, e, h, d
        <5> QED BY <1>5, <1>6, <2>1, <4>1, RunBoth
      <4> QED BY <4>2
    <3>3. Parse(u \o v).refused = FALSE /\ Parse(u \o v).session = Joining(y, x)
      <4> HIDE DEF u, v
      <4> QED BY <1>7, <3>2, ParseAccepts
    <3>4. Normal(s) = SessionOf(o, p, b, t, ats, Normeds(ms)) /\ Normal(Normal(s)) = Normal(s)
      BY <1>1, NormalIs, NormalTwice
    <3>5. Parse(u \o v).session = Normal(s)
      <4> HIDE DEF u, v, p
      <4> QED BY <2>0, <3>1, <3>3, <3>4, Zenon
    <3> HIDE DEF u, v, p
    <3> QED BY <1>3, <1>4, <1>9, <2>2, <3>3, <3>4, <3>5
  <2>3. CASE ~\A i \in 1 .. Len(ms) : ms[i].formats # <<>>
    <3>1. PICK k \in 1 .. Len(ms) : ms[k].formats = <<>>
      BY <2>3
    <3>2. PICK y, x : Run(d, v, DescOf(y, x, TRUE))
      BY <3>1, SectionsRefused
    <3> DEFINE e == DescOf(y, x, TRUE)
    <3>3. Run(d, v, e)
      BY <3>2
    <3>4. Run(h, u \o v, e)
      <4> HIDE DEF u, v, e, h, d
      <4> QED BY <1>5, <1>6, <2>1, <3>3, RunBoth
    <3>5. Parse(u \o v).refused = TRUE
      <4> HIDE DEF u, v
      <4> QED BY <1>7, <3>4, ParseRefused
    <3> HIDE DEF u, v
    <3> QED BY <1>3, <1>4, <2>3, <3>5
  <2> QED BY <2>2, <2>3
<1> QED BY <1>8, <1>9

(* Of a sequence followed by another only the first is kept.               *)
LEMMA OnlyFirst ==
  ASSUME NEW E, NEW u \in Seq(E), NEW v \in Seq(E), NEW S,
         \A i \in 1 .. Len(u) : u[i] \in S, \A i \in 1 .. Len(v) : v[i] \notin S
  PROVE  Only(u \o v, S) = u
<1> DEFINE w == u \o v      m == Len(u)      n == Len(v)
<1>1. /\ m \in Nat /\ n \in Nat /\ Len(w) = m + n /\ w \in Seq(E)
      /\ (\A i \in 1 .. m : w[i] = u[i]) /\ \A i \in m + 1 .. m + n : w[i] = v[i - m]
  OBVIOUS
<1>2. PICK f : OnlyUpTo(f, E, w, S)
  <2> HIDE DEF w
  <2> QED BY <1>1, OnlyRecursion
<1>3. (\A i \in 1 .. m : u[i] \in S) /\ \A i \in 1 .. n : v[i] \notin S
  OBVIOUS
<1>4. /\ SubSeq(u, 1, 0) = <<>> /\ SubSeq(u, 1, m) = u
      /\ \A i \in 1 .. m : Append(SubSeq(u, 1, i - 1), u[i]) = SubSeq(u, 1, i)
  BY Beginnings
<1> HIDE DEF w, m, n
<1>5. /\ Only(w, S) = f[m + n] /\ f[0] = <<>>
      /\ \A i \in 1 .. m + n : f[i] = IF w[i] \in S THEN Append(f[i - 1], w[i]) ELSE f[i - 1]
  BY <1>1, <1>2 DEF OnlyUpTo
<1> DEFINE B(i) == SubSeq(u, 1, i)      T == {i \in 0 .. m + n : f[i] = IF i <= m THEN B(i) ELSE u}
<1>6. 0 \in T
  <2>1. 0 \in 0 .. m + n /\ 0 <= m /\ B(0) = <<>> /\ f[0] = <<>>
    BY <1>1, <1>4, <1>5
  <2> HIDE DEF B
  <2> QED BY <2>1
<1>7. ASSUME NEW i \in 0 .. m + n, i \in T, i < m + n PROVE i + 1 \in T
  <2>1. i + 1 \in 1 .. m + n /\ i + 1 \in 0 .. m + n /\ (i + 1) - 1 = i /\ f[i] = IF i <= m THEN B(i) ELSE u
    BY <1>1, <1>7
  <2>2. f[i + 1] = IF w[i + 1] \in S THEN Append(f[i], w[i + 1]) ELSE f[i]
    BY <1>5, <2>1
  <2>3. CASE i + 1 <= m
    <3>1. i + 1 \in 1 .. m /\ i <= m
      BY <1>1, <2>3
    <3>2. w[i + 1] = u[i + 1] /\ u[i + 1] \in S
      BY <1>1, <1>3, <3>1
    <3>3. Append(SubSeq(u, 1, (i + 1) - 1), u[i + 1]) = SubSeq(u, 1, i + 1)
      BY <1>4, <3>1
    <3>4. f[i + 1] = B(i + 1)
      BY <2>1, <2>2, <3>1, <3>2, <3>3
    <3> QED BY <2>1, <2>3, <3>4
  <2>4. CASE ~(i + 1 <= m)
    <3>1. i + 1 \in m + 1 .. m + n /\ (i + 1) - m \in 1 .. n
      <4> HIDE DEF T, B
      <4> QED BY <1>1, <1>7, <2>4
    <3>2. w[i + 1] \notin S
      BY <1>1, <1>3, <3>1
    <3>3. f[i] = u
      <4>1. CASE i <= m
        <5>1. i = m
          BY <1>1, <2>4, <4>1
        <5> QED BY <1>4, <2>1, <4>1, <5>1
      <4> QED BY <2>1, <4>1
    <3> QED BY <2>1, <2>2, <2>4, <3>2, <3>3
  <2> QED BY <2>3, <2>4
<1>8. m + n \in T
  <2>1. m + n \in Nat /\ m + n \in 0 .. m + n
    BY <1>1
  <2> DEFINE k == m + n
  <2> HIDE DEF T, k
  <2>2. k \in Nat /\ k \in 0 .. k /\ \A i \in 0 .. k : i \in T /\ i < k => i + 1 \in T
    BY <1>7, <2>1 DEF k
  <2>3. k \in T
    BY <1>6, <2>2, Upto
  <2> QED BY <2>3 DEF k
<1>9. f[m + n] = u
  <2>1. f[m + n] = IF m + n <= m THEN B(m + n) ELSE u
    BY <1>8
  <2>2. m + n <= m => m + n = m
    BY <1>1
  <2>3. B(m) = u
    BY <1>4
  <2> HIDE DEF B, T
  <2> QED BY <2>1, <2>2, <2>3
<1> QED BY <1>5, <1>9 DEF w

(* What a session description is made of, and what replacing a part gives. *)
LEMMA SessionParts ==
  ASSUME NEW s \in Sessions
  PROVE  /\ s.origin \in BOOLEAN /\ s.conn \in Connections /\ s.bandwidth \in Nat /\ s.timing \in Nat
         /\ s.attrs \in Seq(Attrs) /\ s.media \in Seq(Medias)
         /\ \A x \in BOOLEAN : Set(s, "origin", x) \in Sessions
         /\ \A x \in Connections : Set(s, "conn", x) \in Sessions
         /\ \A x \in Nat : Set(s, "bandwidth", x) \in Sessions /\ Set(s, "timing", x) \in Sessions
         /\ \A x \in Seq(Attrs) : Set(s, "attrs", x) \in Sessions
         /\ \A x \in Seq(Medias) : Set(s, "media", x) \in Sessions /\ Set(s, "media", x).media = x
<1>1. PICK o \in BOOLEAN, c \in Connections, b \in Nat, t \in Nat, ats \in Seq(Attrs), ms \in Seq(Medias) :
           s = SessionOf(o, c, b, t, ats, ms)
  BY DEF Sessions
<1>2. /\ s.origin = o /\ s.conn = c /\ s.bandwidth = b /\ s.timing = t /\ s.attrs = ats /\ s.media = ms
  BY <1>1 DEF SessionOf
<1>3. \A o1 \in BOOLEAN, c1 \in Connections, b1 \in Nat, t1 \in Nat, a1 \in Seq(Attrs), m1 \in Seq(Medias) :
           SessionOf(o1, c1, b1, t1, a1, m1) \in Sessions
  BY DEF Sessions
<1>4. \A x : /\ Set(s, "origin", x) = SessionOf(x, c, b, t, ats, ms) /\ Set(s, "conn", x) = SessionOf(o, x, b, t, ats, ms)
             /\ Set(s, "bandwidth", x) = SessionOf(o, c, x, t, ats, ms) /\ Set(s, "timing", x) = SessionOf(o, c, b, x, ats, ms)
             /\ Set(s, "attrs", x) = SessionOf(o, c, b, t, x, ms) /\ Set(s, "media", x) = SessionOf(o, c, b, t, ats, x)
  BY <1>1, SessionSet
<1>5. \A x : SessionOf(o, c, b, t, ats, x).media = x
  BY DEF SessionOf
<1> QED BY <1>2, <1>3, <1>4, <1>5

LEMMA MediaParts ==
  ASSUME NEW m \in Medias
  PROVE  /\ m.port = 9 /\ m.formats \in Seq(Nat) /\ m.conn \in Connections /\ m.bandwidth \in Nat /\ m.attrs \in Seq(Attrs)
         /\ \A x \in Connections : Set(m, "conn", x) \in Medias
         /\ \A x \in Nat : Set(m, "bandwidth", x) \in Medias
         /\ \A x \in Seq(Nat) : Set(m, "formats", x) \in Medias
         /\ \A x \in Seq(Attrs) : Set(m, "attrs", x) \in Medias /\ Set(m, "attrs", x).attrs = x
         /\ m # NoMedia
<1>1. PICK f \in Seq(Nat), c \in Connections, b \in Nat, ats \in Seq(Attrs) : m = MediaOf(f, c, b, ats)
  BY DEF Medias
<1>2. m.port = 9 /\ m.formats = f /\ m.conn = c /\ m.bandwidth = b /\ m.attrs = ats
  BY <1>1 DEF MediaOf
<1>3. \A f1 \in Seq(Nat), c1 \in Connections, b1 \in Nat, a1 \in Seq(Attrs) : MediaOf(f1, c1, b1, a1) \in Medias
  BY DEF Medias
<1>4. \A x : /\ Set(m, "conn", x) = MediaOf(f, x, b, ats) /\ Set(m, "bandwidth", x) = MediaOf(f, c, x, ats)
             /\ Set(m, "attrs", x) = MediaOf(f, c, b, x) /\ Set(m, "formats", x) = MediaOf(x, c, b, ats)
  BY <1>1, SectionSet
<1>5. \A x : MediaOf(f, c, b, x).attrs = x
  BY DEF MediaOf
<1>6. m # NoMedia
  BY <1>1, SectionThere
<1> QED BY <1>2, <1>3, <1>4, <1>5, <1>6

(* The descriptions.                                                       *)
Descs == {DescOf(s, c, r) : s \in Sessions, c \in Medias \cup {NoMedia}, r \in BOOLEAN}
LEMMA DescParts ==
  ASSUME NEW d \in Descs
  PROVE  /\ d.session \in Sessions /\ d.current \in Medias \cup {NoMedia} /\ d.refused \in BOOLEAN
         /\ \A x \in Sessions : Set(d, "session", x) \in Descs
         /\ \A x \in Medias \cup {NoMedia} : Set(d, "current", x) \in Descs
         /\ \A x \in BOOLEAN : Set(d, "refused", x) \in Descs
<1>1. PICK s \in Sessions, c \in Medias \cup {NoMedia}, z \in BOOLEAN : d = DescOf(s, c, z)
  BY DEF Descs
<1>2. d.session = s /\ d.current = c /\ d.refused = z
  BY <1>1 DEF DescOf
<1>3. \A s1 \in Sessions, c1 \in Medias \cup {NoMedia}, z1 \in BOOLEAN : DescOf(s1, c1, z1) \in Descs
  BY DEF Descs
<1>4. \A x : /\ Set(d, "session", x) = DescOf(x, c, z) /\ Set(d, "current", x) = DescOf(s, x, z)
             /\ Set(d, "refused", x) = DescOf(s, c, x)
  BY <1>1, DescSet
<1> QED BY <1>2, <1>3, <1>4

(* What is filtered is still a list of its elements.                       *)
LEMMA OnlyType ==
  ASSUME NEW E, NEW s \in Seq(E), NEW S
  PROVE  Only(s, S) \in Seq(E)
BY OnlyFacts

(* Codecs, and the attributes ReplaceCodecs writes for them.               *)
Codecs == {[pt |-> p, rate |-> r, channels |-> c] : p \in Nat, r \in Nat, c \in Nat}
LEMMA CodecListTypes == \A cs \in CodecLists : cs \in Seq(Codecs)
<1>1. Opus \in Codecs
  <2>1. \A p, r, c \in Nat : [pt |-> p, rate |-> r, channels |-> c] \in Codecs
    BY DEF Codecs
  <2>2. 111 \in Nat /\ 48000 \in Nat /\ 2 \in Nat
    OBVIOUS
  <2> HIDE DEF Codecs
  <2> QED BY <2>1, <2>2 DEF Opus
<1>2. <<>> \in Seq(Codecs) /\ <<Opus>> \in Seq(Codecs)
  BY <1>1
<1> QED BY <1>2 DEF CodecLists

LEMMA RtpMapsFacts ==
  ASSUME NEW cs \in Seq(Codecs)
  PROVE  /\ RtpMaps(cs) \in Seq(Attrs) /\ Len(RtpMaps(cs)) = Len(cs) /\ Formats(cs) \in Seq(Nat)
         /\ \A i \in 1 .. Len(cs) : /\ RtpMaps(cs)[i].name = "rtpmap"
                                    /\ RtpMaps(cs)[i].value = <<cs[i].pt, cs[i].rate>>
         /\ \A i \in 1 .. Len(cs) : parseCodec(<<cs[i].pt, cs[i].rate>>) = [cs[i] EXCEPT !.channels = 1]
<1>1. DOMAIN cs = 1 .. Len(cs) /\ Len(cs) \in Nat
  OBVIOUS
<1>2. \A i \in 1 .. Len(cs) : cs[i] \in Codecs
  OBVIOUS
<1>3. \A c \in Codecs : c.pt \in Nat /\ c.rate \in Nat
  BY DEF Codecs
<1>4. ASSUME NEW c \in Codecs PROVE parseCodec(<<c.pt, c.rate>>) = [c EXCEPT !.channels = 1]
  <2>1. PICK p \in Nat, r \in Nat, k \in Nat : c = [pt |-> p, rate |-> r, channels |-> k]
    BY DEF Codecs
  <2>2. c.pt = p /\ c.rate = r
    BY <2>1
  <2>3. [c EXCEPT !.channels = 1] = [pt |-> p, rate |-> r, channels |-> 1]
    BY <2>1
  <2>4. Len(<<p, r>>) = 2 /\ <<p, r>>[1] = p /\ <<p, r>>[2] = r
    OBVIOUS
  <2>5. parseCodec(<<p, r>>) = [pt |-> p, rate |-> r, channels |-> 1]
    BY <2>4 DEF parseCodec
  <2> QED BY <2>2, <2>3, <2>5
<1> DEFINE M == RtpMaps(cs)
<1>5. M = [i \in 1 .. Len(cs) |-> Attribute("rtpmap", <<cs[i].pt, cs[i].rate>>)]
  BY <1>1 DEF RtpMaps
<1>6. \A i \in 1 .. Len(cs) : M[i] = Attribute("rtpmap", <<cs[i].pt, cs[i].rate>>)
  BY <1>5
<1>7. \A i \in 1 .. Len(cs) : <<cs[i].pt, cs[i].rate>> \in Seq(Nat)
  <2> SUFFICES ASSUME NEW i \in 1 .. Len(cs) PROVE <<cs[i].pt, cs[i].rate>> \in Seq(Nat)
    OBVIOUS
  <2>1. cs[i].pt \in Nat /\ cs[i].rate \in Nat
    BY <1>2, <1>3
  <2> QED BY <2>1
<1>8. \A v \in Seq(Nat) : Attribute("rtpmap", v) \in Attrs
  BY DEF Attrs
<1>9. M \in Seq(Attrs) /\ Len(M) = Len(cs)
  <2>1. \A i \in 1 .. Len(cs) : Attribute("rtpmap", <<cs[i].pt, cs[i].rate>>) \in Attrs
    BY <1>7, <1>8
  <2> QED BY <1>1, <1>5, <2>1
<1>10. Formats(cs) \in Seq(Nat)
  <2>1. Formats(cs) = [i \in 1 .. Len(cs) |-> cs[i].pt]
    BY <1>1 DEF Formats
  <2>2. \A i \in 1 .. Len(cs) : cs[i].pt \in Nat
    BY <1>2, <1>3
  <2> QED BY <1>1, <2>1, <2>2
<1>11. \A v : Attribute("rtpmap", v).name = "rtpmap" /\ Attribute("rtpmap", v).value = v
  BY DEF Attribute
<1>12. \A i \in 1 .. Len(cs) : M[i].name = "rtpmap" /\ M[i].value = <<cs[i].pt, cs[i].rate>>
  BY <1>6, <1>11
<1>13. \A i \in 1 .. Len(cs) : parseCodec(<<cs[i].pt, cs[i].rate>>) = [cs[i] EXCEPT !.channels = 1]
  <2> SUFFICES ASSUME NEW i \in 1 .. Len(cs)
               PROVE  parseCodec(<<cs[i].pt, cs[i].rate>>) = [cs[i] EXCEPT !.channels = 1]
    OBVIOUS
  <2>1. cs[i] \in Codecs
    BY <1>2
  <2> QED BY <1>4, <2>1
<1> QED BY <1>9, <1>10, <1>12, <1>13

(* A section's attributes after its codecs are replaced.                   *)
Others(m) == Only(m.attrs, {a \in ToSet(m.attrs) : ~IsRtpmap(a)})
LEMMA OthersFacts ==
  ASSUME NEW m \in Medias
  PROVE  /\ Others(m) \in Seq(Attrs) /\ \A i \in 1 .. Len(Others(m)) : Others(m)[i].name # "rtpmap"
         /\ \A x : x # "rtpmap" => ((\E i \in 1 .. Len(Others(m)) : Others(m)[i].name = x)
                                    <=> \E i \in 1 .. Len(m.attrs) : m.attrs[i].name = x)
<1> DEFINE s == m.attrs      S == {a \in ToSet(s) : ~IsRtpmap(a)}      r == Only(s, S)
<1>1. s \in Seq(Attrs)
  BY MediaParts
<1>2. \A i \in 1 .. Len(s) : s[i] \in S <=> s[i].name # "rtpmap"
  <2>1. DOMAIN s = 1 .. Len(s)
    BY <1>1
  <2>2. \A i \in 1 .. Len(s) : s[i] \in ToSet(s)
    BY <2>1 DEF ToSet
  <2> HIDE DEF s
  <2> QED BY <2>2 DEF IsRtpmap
<1>3. \A a \in S : a.name # "rtpmap"
  BY DEF IsRtpmap
<1> HIDE DEF s, S
<1>4. r \in Seq(Attrs)
  BY <1>1, OnlyType
<1>5. /\ \A j \in 1 .. Len(Only(s, S)) : Only(s, S)[j] \in S /\ \E i \in 1 .. Len(s) : Only(s, S)[j] = s[i]
      /\ \A i \in 1 .. Len(s) : s[i] \in S => \E j \in 1 .. Len(Only(s, S)) : Only(s, S)[j] = s[i]
  BY <1>1, OnlyElements
<1> HIDE DEF r
<1>6. /\ \A j \in 1 .. Len(r) : r[j] \in S /\ \E i \in 1 .. Len(s) : r[j] = s[i]
      /\ \A i \in 1 .. Len(s) : s[i] \in S => \E j \in 1 .. Len(r) : r[j] = s[i]
  BY <1>5 DEF r
<1>7. \A j \in 1 .. Len(r) : r[j].name # "rtpmap"
  BY <1>3, <1>6
<1>8. ASSUME NEW x, x # "rtpmap"
      PROVE  (\E i \in 1 .. Len(r) : r[i].name = x) <=> \E i \in 1 .. Len(s) : s[i].name = x
  <2>1. ASSUME NEW i \in 1 .. Len(r), r[i].name = x PROVE \E k \in 1 .. Len(s) : s[k].name = x
    <3>1. PICK k \in 1 .. Len(s) : r[i] = s[k]
      BY <1>6
    <3> QED BY <2>1, <3>1
  <2>2. ASSUME NEW k \in 1 .. Len(s), s[k].name = x PROVE \E i \in 1 .. Len(r) : r[i].name = x
    <3>1. s[k] \in S
      BY <1>2, <1>8, <2>2
    <3>2. PICK i \in 1 .. Len(r) : r[i] = s[k]
      BY <1>6, <3>1
    <3> QED BY <2>2, <3>2
  <2> QED BY <2>1, <2>2
<1> QED BY <1>4, <1>7, <1>8 DEF Others, r, s, S

(* ReplaceCodecs puts the codecs' attributes before the others.            *)
NewAttrs(m, cs) == RtpMaps(cs) \o Others(m)
LEMMA ReplacedFacts ==
  ASSUME NEW m \in Medias, NEW cs \in Seq(Codecs)
  PROVE  /\ WithCodecs(m, cs) \in Medias /\ WithCodecs(m, cs).attrs = NewAttrs(m, cs)
         /\ NewAttrs(m, cs) \in Seq(Attrs)
<1>1. WithCodecs(m, cs) = Set(Set(m, "formats", Formats(cs)), "attrs", NewAttrs(m, cs))
  <2> DEFINE x == [m EXCEPT !.formats = Formats(cs)]
  <2>1. x.attrs = m.attrs
    <3>1. PICK f \in Seq(Nat), c \in Connections, b \in Nat, ats \in Seq(Attrs) : m = MediaOf(f, c, b, ats)
      BY DEF Medias
    <3> QED BY <3>1 DEF MediaOf
  <2>2. WithCodecs(m, cs) = [m EXCEPT !.formats = Formats(cs), !.attrs = RtpMaps(cs) \o Only(x.attrs, {a \in ToSet(x.attrs) : ~IsRtpmap(a)})]
    BY <2>1 DEF WithCodecs
  <2>3. \A u, v : [m EXCEPT !.formats = u, !.attrs = v] = [[m EXCEPT !.formats = u] EXCEPT !.attrs = v]
    OBVIOUS
  <2> QED BY <2>1, <2>2, <2>3 DEF Set, NewAttrs, Others
<1>2. RtpMaps(cs) \in Seq(Attrs) /\ Formats(cs) \in Seq(Nat) /\ Others(m) \in Seq(Attrs)
  BY RtpMapsFacts, OthersFacts
<1>3. NewAttrs(m, cs) \in Seq(Attrs)
  BY <1>2 DEF NewAttrs
<1>4. Set(m, "formats", Formats(cs)) \in Medias
  BY <1>2, MediaParts
<1> DEFINE y == Set(m, "formats", Formats(cs))
<1> HIDE DEF y
<1>5. Set(y, "attrs", NewAttrs(m, cs)) \in Medias /\ Set(y, "attrs", NewAttrs(m, cs)).attrs = NewAttrs(m, cs)
  BY <1>3, <1>4, MediaParts DEF y
<1> QED BY <1>1, <1>3, <1>5 DEF y

(* GetCodecs finds exactly the codecs that were written, and the other     *)
(* attributes are there as before.                                         *)
LEMMA CodecsFound ==
  ASSUME NEW m \in Medias, NEW cs \in Seq(Codecs)
  PROVE  /\ GetCodecs(WithCodecs(m, cs)) = [j \in DOMAIN cs |-> [cs[j] EXCEPT !.channels = 1]]
         /\ IsWebRTC(WithCodecs(m, cs)) <=> IsWebRTC(m)
         /\ GetAttribute(WithCodecs(m, cs), "rtpmap") <=> cs # <<>>
<1> DEFINE n == WithCodecs(m, cs)      u == RtpMaps(cs)      v == Others(m)      w == u \o v      k == Len(cs)
<1>1. n.attrs = w /\ w \in Seq(Attrs)
  BY ReplacedFacts DEF NewAttrs
<1>2. /\ u \in Seq(Attrs) /\ Len(u) = k
      /\ \A i \in 1 .. k : u[i].name = "rtpmap" /\ u[i].value = <<cs[i].pt, cs[i].rate>>
      /\ \A i \in 1 .. k : parseCodec(<<cs[i].pt, cs[i].rate>>) = [cs[i] EXCEPT !.channels = 1]
  BY RtpMapsFacts
<1>3. /\ v \in Seq(Attrs) /\ \A i \in 1 .. Len(v) : v[i].name # "rtpmap"
      /\ \A x : x # "rtpmap" => ((\E i \in 1 .. Len(v) : v[i].name = x) <=> \E i \in 1 .. Len(m.attrs) : m.attrs[i].name = x)
  BY OthersFacts
<1>4. m.attrs \in Seq(Attrs)
  BY MediaParts
<1>5. k \in Nat /\ DOMAIN cs = 1 .. k /\ (cs # <<>> <=> k # 0)
  OBVIOUS
<1> HIDE DEF n, u, v, k
<1>6. /\ Len(w) = k + Len(v) /\ Len(v) \in Nat /\ DOMAIN w = 1 .. Len(w)
      /\ (\A i \in 1 .. k : w[i] = u[i]) /\ \A i \in 1 .. Len(v) : w[k + i] = v[i]
  <2>1. u \in Seq(Attrs) /\ v \in Seq(Attrs)
    BY <1>2, <1>3
  <2>2. /\ Len(w) = Len(u) + Len(v) /\ Len(u) \in Nat /\ Len(v) \in Nat /\ DOMAIN w = 1 .. Len(w)
        /\ (\A i \in 1 .. Len(u) : w[i] = u[i]) /\ \A i \in Len(u) + 1 .. Len(u) + Len(v) : w[i] = v[i - Len(u)]
    BY <2>1
  <2> HIDE DEF w
  <2>3. Len(u) = k
    BY <1>2
  <2>4. \A i \in 1 .. Len(v) : k + i \in k + 1 .. k + Len(v) /\ (k + i) - k = i
    BY <2>2, <2>3
  <2>5. \A i \in k + 1 .. k + Len(v) : w[i] = v[i - k]
    BY <2>2, <2>3
  <2>6. \A i \in 1 .. Len(v) : w[k + i] = v[i]
    BY <2>4, <2>5
  <2> QED BY <2>2, <2>3, <2>6
<1>7. \A i \in 1 .. Len(w) : i \in 1 .. k \/ \E j \in 1 .. Len(v) : i = k + j
  <2> SUFFICES ASSUME NEW i \in 1 .. Len(w), i \notin 1 .. k PROVE \E j \in 1 .. Len(v) : i = k + j
    OBVIOUS
  <2>1. i - k \in 1 .. Len(v) /\ i = k + (i - k)
    BY <1>5, <1>6
  <2> QED BY <2>1
<1>8. \A i \in 1 .. k : i \in 1 .. Len(w)
  BY <1>5, <1>6
<1>9. \A j \in 1 .. Len(v) : k + j \in 1 .. Len(w)
  BY <1>5, <1>6
<1>10. GetCodecs(n) = [j \in DOMAIN cs |-> [cs[j] EXCEPT !.channels = 1]]
  <2> DEFINE G == {a \in ToSet(w) : IsRtpmap(a) /\ Len(a.value) >= 2}
  <2>1. \A i \in 1 .. Len(u) : u[i] \in G
    <3> SUFFICES ASSUME NEW i \in 1 .. k PROVE u[i] \in G
      BY <1>2
    <3>1. u[i] \in ToSet(w)
      BY <1>6, <1>8 DEF ToSet
    <3> DEFINE y == <<cs[i].pt, cs[i].rate>>
    <3>2. Len(y) = 2
      OBVIOUS
    <3> HIDE DEF w
    <3>3. u[i].name = "rtpmap" /\ u[i].value = y
      BY <1>2
    <3> HIDE DEF y
    <3>4. Len(u[i].value) >= 2
      <4>1. Len(u[i].value) = 2
        BY <3>2, <3>3, Zenon
      <4>2. \A x : x = 2 => x >= 2
        OBVIOUS
      <4> QED BY <4>1, <4>2, Zenon
    <3> QED BY <3>1, <3>3, <3>4 DEF IsRtpmap
  <2>2. \A i \in 1 .. Len(v) : v[i] \notin G
    BY <1>3 DEF IsRtpmap
  <2> DEFINE good == Only(w, G)
  <2>3. good = u
    <3> HIDE DEF G
    <3> QED BY <1>2, <1>3, <2>1, <2>2, OnlyFirst
  <2>4. GetCodecs(n) = [i \in DOMAIN good |-> parseCodec(good[i].value)]
    BY <1>1 DEF GetCodecs
  <2> HIDE DEF good
  <2>5. DOMAIN u = DOMAIN cs
    BY <1>2, <1>5
  <2>6. \A i \in DOMAIN cs : parseCodec(u[i].value) = [cs[i] EXCEPT !.channels = 1]
    BY <1>2, <1>5
  <2> QED BY <2>3, <2>4, <2>5, <2>6
<1>11. ASSUME NEW x, x # "rtpmap"
       PROVE  (\E i \in 1 .. Len(w) : w[i].name = x) <=> \E i \in 1 .. Len(m.attrs) : m.attrs[i].name = x
  <2>1. ASSUME NEW i \in 1 .. Len(w), w[i].name = x PROVE \E j \in 1 .. Len(v) : v[j].name = x
    BY <1>2, <1>6, <1>7, <1>11, <2>1
  <2>2. ASSUME NEW j \in 1 .. Len(v), v[j].name = x PROVE \E i \in 1 .. Len(w) : w[i].name = x
    BY <1>6, <1>9, <2>2
  <2>3. (\E i \in 1 .. Len(w) : w[i].name = x) <=> \E j \in 1 .. Len(v) : v[j].name = x
    <3> HIDE DEF w
    <3> QED BY <2>1, <2>2
  <2> QED BY <1>3, <1>11, <2>3
<1>12. IsWebRTC(n) <=> IsWebRTC(m)
  <2>1. DOMAIN m.attrs = 1 .. Len(m.attrs)
    BY <1>4
  <2>2. IsWebRTC(n) <=> (\E i \in 1 .. Len(w) : w[i].name = "setup") \/ \E i \in 1 .. Len(w) : w[i].name = "fingerprint"
    <3> HIDE DEF w
    <3> QED BY <1>1, <1>6 DEF IsWebRTC
  <2>3. IsWebRTC(m) <=> (\E i \in 1 .. Len(m.attrs) : m.attrs[i].name = "setup")
                        \/ \E i \in 1 .. Len(m.attrs) : m.attrs[i].name = "fingerprint"
    BY <2>1 DEF IsWebRTC
  <2>4. "setup" # "rtpmap" /\ "fingerprint" # "rtpmap"
    OBVIOUS
  <2> HIDE DEF w
  <2> QED BY <1>11, <2>2, <2>3, <2>4
<1>13. GetAttribute(n, "rtpmap") <=> cs # <<>>
  <2>1. ASSUME NEW i \in 1 .. Len(w), w[i].name = "rtpmap" PROVE k # 0
    BY <1>3, <1>6, <1>7, <2>1
  <2>2. ASSUME k # 0 PROVE 1 \in 1 .. Len(w) /\ w[1].name = "rtpmap"
    <3>1. 1 \in 1 .. k
      BY <1>5, <2>2
    <3> QED BY <1>2, <1>6, <1>8, <3>1
  <2> HIDE DEF w
  <2> QED BY <1>1, <1>5, <1>6, <2>1, <2>2 DEF GetAttribute
<1> QED BY <1>10, <1>12, <1>13 DEF n

(* Every line leaves a description.                                        *)
ConnOf(a, x, y) == [address |-> a, ttl |-> x, count |-> y]
LEMMA LinesTyped ==
  \A l \in Lines :
    /\ l.field \in {"v", "o", "c", "b", "t", "m", "a"}
    /\ l.field = "c" /\ l.ok => parseConnection(l.parts) \in Connections
    /\ l.field = "m" => parseMedia(l) \in Medias
    /\ l.field = "a" => l.attr \in Attrs
<1>a. \A a \in Seq(Nat), x, y \in Nat : ConnOf(a, x, y) \in Connections
  BY DEF Connections, ConnOf
<1>b. << 4 >> \in Seq(Nat) /\ <<0, 111>> \in Seq(Nat) /\ << 1 >> \in Seq(Nat) /\ <<>> \in Seq(Nat)
      /\ <<111, 48000, 2>> \in Seq(Nat) /\ << 0 >> \in Seq(Nat) /\ 0 \in Nat /\ 127 \in Nat /\ 2 \in Nat
  OBVIOUS
<1> DEFINE q == << 4 >>
<1>c. q \in Seq(Nat) /\ 0 \in Nat /\ 127 \in Nat /\ 2 \in Nat
  OBVIOUS
<1>1. ASSUME NEW p \in {<< << 4 >> >>, << << 4 >>, 127>>, << << 4 >>, 127, 2>>}
      PROVE  parseConnection(p) \in Connections
  <2>1. CASE p = << << 4 >> >>
    <3>1. p[1] = << 4 >> /\ Len(p) = 1
      BY <2>1
    <3>2. parseConnection(p) = ConnOf(q, 0, 0)
      BY <3>1 DEF parseConnection, ConnOf
    <3> HIDE DEF q
    <3> QED BY <1>a, <1>c, <3>2
  <2>2. CASE p = << << 4 >>, 127>>
    <3>1. p[1] = << 4 >> /\ p[2] = 127 /\ Len(p) = 2
      BY <2>2
    <3>2. parseConnection(p) = ConnOf(q, 127, 0)
      BY <3>1 DEF parseConnection, ConnOf
    <3> HIDE DEF q
    <3> QED BY <1>a, <1>c, <3>2
  <2>3. CASE p = << << 4 >>, 127, 2>>
    <3>1. p[1] = << 4 >> /\ p[2] = 127 /\ p[3] = 2 /\ Len(p) = 3
      BY <2>3
    <3>2. parseConnection(p) = ConnOf(q, 127, 2)
      BY <3>1 DEF parseConnection, ConnOf
    <3> HIDE DEF q
    <3> QED BY <1>a, <1>c, <3>2
  <2> QED BY <2>1, <2>2, <2>3
<1>2. ASSUME NEW l, l.formats = <<0, 111>> PROVE parseMedia(l) \in Medias
  <2>1. parseMedia(l) = MediaOf(<<0, 111>>, Nowhere, 0, <<>>)
    BY <1>2 DEF parseMedia, MediaOf
  <2>2. <<0, 111>> \in Seq(Nat) /\ Nowhere \in Connections /\ 0 \in Nat /\ <<>> \in Seq(Attrs)
    BY <1>b, NormedMedia
  <2> DEFINE f == <<0, 111>>      e == <<>>
  <2> HIDE DEF f, e
  <2>3. MediaOf(f, Nowhere, 0, e) \in Medias
    <3>1. f \in Seq(Nat) /\ Nowhere \in Connections /\ 0 \in Nat /\ e \in Seq(Attrs)
      BY <2>2, Zenon DEF f, e
    <3>2. \A f1 \in Seq(Nat), c1 \in Connections, b1 \in Nat, a1 \in Seq(Attrs) : MediaOf(f1, c1, b1, a1) \in Medias
      BY DEF Medias
    <3> QED BY <3>1, <3>2
  <2> QED BY <2>1, <2>3 DEF f, e
<1>3. \A a \in {Attribute("setup", << 1 >>), Attribute("sendrecv", <<>>),
                Attribute("rtpmap", <<111, 48000, 2>>), Attribute("rtpmap", << 0 >>)} : a \in Attrs
  <2>1. \A k \in {"setup", "sendrecv", "rtpmap"}, v \in Seq(Nat) : Attribute(k, v) \in Attrs
    BY DEF Attrs
  <2>2. "setup" \in {"setup", "sendrecv", "rtpmap"} /\ "sendrecv" \in {"setup", "sendrecv", "rtpmap"}
        /\ "rtpmap" \in {"setup", "sendrecv", "rtpmap"}
    OBVIOUS
  <2> DEFINE a1 == << 1 >>      a2 == <<>>      a3 == <<111, 48000, 2>>      a4 == << 0 >>
  <2>3. a1 \in Seq(Nat) /\ a2 \in Seq(Nat) /\ a3 \in Seq(Nat) /\ a4 \in Seq(Nat)
    OBVIOUS
  <2> HIDE DEF a1, a2, a3, a4
  <2>4. Attribute("setup", a1) \in Attrs /\ Attribute("sendrecv", a2) \in Attrs
        /\ Attribute("rtpmap", a3) \in Attrs /\ Attribute("rtpmap", a4) \in Attrs
    BY <2>1, <2>3
  <2> QED BY <2>4 DEF a1, a2, a3, a4
<1> SUFFICES ASSUME NEW l \in Lines
             PROVE  /\ l.field \in {"v", "o", "c", "b", "t", "m", "a"}
                    /\ l.field = "c" /\ l.ok => parseConnection(l.parts) \in Connections
                    /\ l.field = "m" => parseMedia(l) \in Medias
                    /\ l.field = "a" => l.attr \in Attrs
  OBVIOUS
<1>4. CASE l.field \in {"v", "o", "b", "t"}
  BY <1>4
<1>5. CASE \E p \in {<< << 4 >> >>, << << 4 >>, 127>>, << << 4 >>, 127, 2>>} : l = [field |-> "c", ok |-> TRUE, parts |-> p]
  <2>1. PICK p \in {<< << 4 >> >>, << << 4 >>, 127>>, << << 4 >>, 127, 2>>} : l = [field |-> "c", ok |-> TRUE, parts |-> p]
    BY <1>5
  <2>2. l.field = "c" /\ l.parts = p
    BY <2>1
  <2>3. parseConnection(p) \in Connections
    BY <1>1
  <2> QED BY <2>2, <2>3
<1>6. CASE l = [field |-> "c", ok |-> FALSE, parts |-> <<>>]
  <2>1. l.field = "c" /\ ~l.ok
    BY <1>6
  <2> QED BY <2>1
<1>7. CASE \E b \in BOOLEAN : l = [field |-> "m", ok |-> b, formats |-> <<0, 111>>]
  <2>1. l.field = "m" /\ l.formats = <<0, 111>>
    BY <1>7
  <2>2. parseMedia(l) \in Medias
    BY <1>2, <2>1
  <2> QED BY <2>1, <2>2
<1>8. CASE \E a \in {Attribute("setup", << 1 >>), Attribute("sendrecv", <<>>),
                     Attribute("rtpmap", <<111, 48000, 2>>), Attribute("rtpmap", << 0 >>)} :
             l = [field |-> "a", ok |-> TRUE, attr |-> a]
  <2>1. l.field = "a" /\ l.attr \in {Attribute("setup", << 1 >>), Attribute("sendrecv", <<>>),
                                     Attribute("rtpmap", <<111, 48000, 2>>), Attribute("rtpmap", << 0 >>)}
    BY <1>8
  <2> QED BY <1>3, <2>1
<1>9. \/ \E b \in BOOLEAN : l = [field |-> "v", ok |-> b]
      \/ \E b \in BOOLEAN : l = [field |-> "o", ok |-> b]
      \/ l = [field |-> "b", ok |-> TRUE] \/ l = [field |-> "t", ok |-> TRUE]
      \/ \E p \in {<< << 4 >> >>, << << 4 >>, 127>>, << << 4 >>, 127, 2>>} : l = [field |-> "c", ok |-> TRUE, parts |-> p]
      \/ l = [field |-> "c", ok |-> FALSE, parts |-> <<>>]
      \/ \E b \in BOOLEAN : l = [field |-> "m", ok |-> b, formats |-> <<0, 111>>]
      \/ \E a \in {Attribute("setup", << 1 >>), Attribute("sendrecv", <<>>),
                   Attribute("rtpmap", <<111, 48000, 2>>), Attribute("rtpmap", << 0 >>)} :
           l = [field |-> "a", ok |-> TRUE, attr |-> a]
  BY DEF Lines
<1>10. (\E b \in BOOLEAN : l = [field |-> "v", ok |-> b]) => l.field = "v"
  OBVIOUS
<1>11. (\E b \in BOOLEAN : l = [field |-> "o", ok |-> b]) => l.field = "o"
  OBVIOUS
<1>12. l = [field |-> "b", ok |-> TRUE] \/ l = [field |-> "t", ok |-> TRUE] => l.field \in {"b", "t"}
  OBVIOUS
<1> DEFINE V == \E b \in BOOLEAN : l = [field |-> "v", ok |-> b]
           O == \E b \in BOOLEAN : l = [field |-> "o", ok |-> b]
           X == l = [field |-> "b", ok |-> TRUE] \/ l = [field |-> "t", ok |-> TRUE]
<1>13. CASE V
  BY <1>4, <1>10, <1>13
<1>14. CASE O
  BY <1>4, <1>11, <1>14
<1>15. CASE X
  BY <1>4, <1>12, <1>15
<1> QED BY <1>5, <1>6, <1>7, <1>8, <1>9, <1>13, <1>14, <1>15

(* The end of the text, and a line, leave a description.                   *)
LEMMA EndedType == \A d \in Descs : Ended(d) \in Descs
<1> SUFFICES ASSUME NEW d \in Descs PROVE Ended(d) \in Descs
  OBVIOUS
<1> DEFINE s == d.session      c == d.current
<1>1. s \in Sessions /\ c \in Medias \cup {NoMedia}
  BY DescParts
<1>2. Ended(d) = IF c = NoMedia THEN d ELSE Set(d, "session", Set(s, "media", Append(s.media, c)))
  BY DEF Ended, InMedia, Set
<1>3. CASE c = NoMedia
  BY <1>2, <1>3
<1>4. CASE c # NoMedia
  <2> HIDE DEF s, c
  <2>1. s.media \in Seq(Medias) /\ c \in Medias
    BY <1>1, <1>4, SessionParts
  <2>2. Append(s.media, c) \in Seq(Medias)
    BY <2>1
  <2>3. Set(s, "media", Append(s.media, c)) \in Sessions
    BY <1>1, <2>2, SessionParts
  <2> QED BY <1>2, <1>4, <2>3, DescParts
<1> QED BY <1>3, <1>4

LEMMA ReadLineType ==
  ASSUME NEW d \in Descs, NEW l \in Lines
  PROVE  ReadLine(d, l) \in Descs
<1> DEFINE s == d.session      c == d.current
<1>1. s \in Sessions /\ c \in Medias \cup {NoMedia} /\ d.refused \in BOOLEAN
  BY DescParts
<1>2. /\ l.field \in {"v", "o", "c", "b", "t", "m", "a"}
      /\ l.field = "c" /\ l.ok => parseConnection(l.parts) \in Connections
      /\ l.field = "m" => parseMedia(l) \in Medias
      /\ l.field = "a" => l.attr \in Attrs
  BY LinesTyped
<1>3. CASE d.refused \/ ~l.ok
  <2>1. ReadLine(d, l) = Set(d, "refused", TRUE)
    BY <1>3 DEF ReadLine, Set
  <2>2. \A x \in BOOLEAN : Set(d, "refused", x) \in Descs
    BY DescParts
  <2>3. Set(d, "refused", TRUE) \in Descs
    BY <2>2, Zenon
  <2> QED BY <2>1, <2>3
<1>4. CASE ~(d.refused \/ ~l.ok)
  <2>0. ~d.refused /\ l.ok
    BY <1>4
  <2>1. CASE l.field = "v"
    BY <2>0, <2>1, LineReads
  <2>2. CASE l.field = "o"
    <3>1. ReadLine(d, l) = Set(d, "session", Set(s, "origin", TRUE))
      BY <2>0, <2>2, LineReads
    <3>2. \A x \in BOOLEAN : Set(s, "origin", x) \in Sessions
      BY <1>1, SessionParts
    <3>3. Set(s, "origin", TRUE) \in Sessions
      BY <3>2, Zenon
    <3> QED BY <3>1, <3>3, DescParts
  <2>3. CASE l.field = "t"
    <3>1. ReadLine(d, l) = Set(d, "session", Set(s, "timing", s.timing + 1))
      BY <2>0, <2>3, LineReads
    <3> HIDE DEF s
    <3>2. s.timing \in Nat
      BY <1>1, SessionParts
    <3>3. s.timing + 1 \in Nat
      BY <3>2
    <3>4. Set(s, "timing", s.timing + 1) \in Sessions
      BY <1>1, <3>3, SessionParts
    <3> QED BY <3>1, <3>4, DescParts
  <2>4. CASE l.field = "m"
    <3>1. ReadLine(d, l) = Set(Ended(d), "current", parseMedia(l))
      BY <2>0, <2>4, LineReads
    <3>2. Ended(d) \in Descs /\ parseMedia(l) \in Medias
      BY <1>2, <2>4, EndedType
    <3> DEFINE e == Ended(d)
    <3> HIDE DEF e
    <3>3. \A x \in Medias \cup {NoMedia} : Set(e, "current", x) \in Descs
      BY <3>2, DescParts DEF e
    <3> QED BY <3>1, <3>2, <3>3 DEF e
  <2>5. CASE l.field \in {"c", "b", "a"} /\ ~InMedia(d)
    <3>1. CASE l.field = "c"
      <4>1. ReadLine(d, l) = Set(d, "session", Set(s, "conn", parseConnection(l.parts)))
        BY <2>0, <2>5, <3>1, HeaderLineReads
      <4> HIDE DEF s
      <4>2. Set(s, "conn", parseConnection(l.parts)) \in Sessions
        BY <1>1, <1>2, <2>0, <3>1, SessionParts
      <4> QED BY <4>1, <4>2, DescParts
    <3>2. CASE l.field = "b"
      <4>1. ReadLine(d, l) = Set(d, "session", Set(s, "bandwidth", s.bandwidth + 1))
        BY <2>0, <2>5, <3>2, HeaderLineReads
      <4> HIDE DEF s
      <4>2. s.bandwidth \in Nat
        BY <1>1, SessionParts
      <4>3. s.bandwidth + 1 \in Nat
        BY <4>2
      <4>4. Set(s, "bandwidth", s.bandwidth + 1) \in Sessions
        BY <1>1, <4>3, SessionParts
      <4> QED BY <4>1, <4>4, DescParts
    <3>3. CASE l.field = "a"
      <4>1. ReadLine(d, l) = Set(d, "session", Set(s, "attrs", Append(s.attrs, l.attr)))
        BY <2>0, <2>5, <3>3, HeaderLineReads
      <4> HIDE DEF s
      <4>2. s.attrs \in Seq(Attrs) /\ l.attr \in Attrs
        BY <1>1, <1>2, <3>3, SessionParts
      <4>3. Append(s.attrs, l.attr) \in Seq(Attrs)
        BY <4>2
      <4>4. Set(s, "attrs", Append(s.attrs, l.attr)) \in Sessions
        BY <1>1, <4>3, SessionParts
      <4> QED BY <4>1, <4>4, DescParts
    <3> QED BY <2>5, <3>1, <3>2, <3>3
  <2>6. CASE l.field \in {"c", "b", "a"} /\ InMedia(d)
    <3>0. c \in Medias
      BY <1>1, <2>6 DEF InMedia
    <3>1. CASE l.field = "c"
      <4>1. ReadLine(d, l) = Set(d, "current", Set(c, "conn", parseConnection(l.parts)))
        BY <2>0, <2>6, <3>1, SectionLineReads
      <4> HIDE DEF c
      <4>2. Set(c, "conn", parseConnection(l.parts)) \in Medias
        BY <1>2, <2>0, <3>0, <3>1, MediaParts
      <4> QED BY <4>1, <4>2, DescParts
    <3>2. CASE l.field = "b"
      <4>1. ReadLine(d, l) = Set(d, "current", Set(c, "bandwidth", c.bandwidth + 1))
        BY <2>0, <2>6, <3>2, SectionLineReads
      <4> HIDE DEF c
      <4>2. c.bandwidth \in Nat
        BY <3>0, MediaParts
      <4>3. c.bandwidth + 1 \in Nat
        BY <4>2
      <4>4. Set(c, "bandwidth", c.bandwidth + 1) \in Medias
        BY <3>0, <4>3, MediaParts
      <4> QED BY <4>1, <4>4, DescParts
    <3>3. CASE l.field = "a"
      <4>1. ReadLine(d, l) = Set(d, "current", Set(c, "attrs", Append(c.attrs, l.attr)))
        BY <2>0, <2>6, <3>3, SectionLineReads
      <4> HIDE DEF c
      <4>2. c.attrs \in Seq(Attrs) /\ l.attr \in Attrs
        BY <1>2, <3>0, <3>3, MediaParts
      <4>3. Append(c.attrs, l.attr) \in Seq(Attrs)
        BY <4>2
      <4>4. Set(c, "attrs", Append(c.attrs, l.attr)) \in Medias
        BY <3>0, <4>3, MediaParts
      <4> QED BY <4>1, <4>4, DescParts
    <3> QED BY <2>6, <3>1, <3>2, <3>3
  <2> QED BY <1>2, <2>1, <2>2, <2>3, <2>4, <2>5, <2>6
<1> QED BY <1>3, <1>4

(* The edits leave descriptions.                                           *)
LEMMA ReplaceCodecsIs ==
  ASSUME NEW s \in Sessions, NEW cs \in Seq(Codecs)
  PROVE  /\ ReplaceCodecs(s, cs) \in Sessions
         /\ ReplaceCodecs(s, cs).media = [i \in DOMAIN s.media |-> WithCodecs(s.media[i], cs)]
<1> DEFINE ms == s.media      f == [i \in DOMAIN ms |-> WithCodecs(ms[i], cs)]
<1>1. ReplaceCodecs(s, cs) = Set(s, "media", f)
  BY DEF ReplaceCodecs, Set
<1>2. s.media \in Seq(Medias)
  BY SessionParts
<1>3. \A i \in DOMAIN ms : ms[i] \in Medias
  BY <1>2
<1>4. \A i \in DOMAIN ms : WithCodecs(ms[i], cs) \in Medias
  BY <1>3, ReplacedFacts
<1>5. f \in Seq(Medias)
  <2>1. DOMAIN ms = 1 .. Len(ms) /\ Len(ms) \in Nat
    BY <1>2
  <2>2. f = [i \in 1 .. Len(ms) |-> WithCodecs(ms[i], cs)]
    BY <2>1
  <2> QED BY <1>4, <2>1, <2>2
<1> HIDE DEF f
<1>6. Set(s, "media", f) \in Sessions /\ Set(s, "media", f).media = f
  BY <1>5, SessionParts
<1> QED BY <1>1, <1>6 DEF f

LEMMA SetMediaAddressType ==
  ASSUME NEW s \in Sessions
  PROVE  SetMediaAddress(s, << 5 >>) \in Sessions
<1> DEFINE ms == s.media      a == [Nowhere EXCEPT !.address = << 5 >>]      f == [i \in DOMAIN ms |-> [ms[i] EXCEPT !.conn = a]]
<1>1. a \in Connections
  <2>1. a = ConnOf(<< 5 >>, 0, 0)
    BY DEF Nowhere, ConnOf
  <2> DEFINE q == << 5 >>
  <2>2. q \in Seq(Nat) /\ 0 \in Nat
    OBVIOUS
  <2>3. a = ConnOf(q, 0, 0)
    BY <2>1
  <2> HIDE DEF a, q
  <2>4. \A p \in Seq(Nat), x, y \in Nat : ConnOf(p, x, y) \in Connections
    BY DEF Connections, ConnOf
  <2> QED BY <2>2, <2>3, <2>4
<1> HIDE DEF a
<1>2. SetMediaAddress(s, << 5 >>) = Set(s, "media", f)
  BY DEF SetMediaAddress, Set, a
<1>3. s.media \in Seq(Medias)
  BY SessionParts
<1>4. \A i \in DOMAIN ms : ms[i] \in Medias
  BY <1>3
<1>5. \A m \in Medias : [m EXCEPT !.conn = a] \in Medias
  <2> SUFFICES ASSUME NEW m \in Medias PROVE Set(m, "conn", a) \in Medias
    BY DEF Set
  <2> QED BY <1>1, MediaParts
<1>6. f \in Seq(Medias)
  <2>1. DOMAIN ms = 1 .. Len(ms) /\ Len(ms) \in Nat
    BY <1>3
  <2>2. f = [i \in 1 .. Len(ms) |-> [ms[i] EXCEPT !.conn = a]]
    BY <2>1
  <2>3. \A i \in 1 .. Len(ms) : [ms[i] EXCEPT !.conn = a] \in Medias
    BY <1>4, <1>5, <2>1
  <2> QED BY <2>1, <2>2, <2>3
<1> HIDE DEF f
<1> QED BY <1>2, <1>6, SessionParts

(* One section's attributes are others.                                    *)
LEMMA SectionEdited ==
  ASSUME NEW s \in Sessions, NEW i \in DOMAIN s.media, NEW x \in Seq(Attrs)
  PROVE  /\ s.media[i].attrs \in Seq(Attrs)
         /\ [s EXCEPT !.media[i].attrs = x] \in Sessions
<1> DEFINE ms == s.media      m == ms[i]      n == Set(m, "attrs", x)
<1>0. s.media \in Seq(Medias)
  BY SessionParts
<1>1. ms \in Seq(Medias) /\ i \in 1 .. Len(ms)
  BY <1>0
<1>2. m \in Medias
  BY <1>1
<1>3. m.attrs \in Seq(Attrs) /\ n \in Medias
  BY <1>2, MediaParts
<1>4. [s EXCEPT !.media[i].attrs = x] = Set(s, "media", Set(ms, i, n))
  BY DEF Set
<1> HIDE DEF n
<1>5. Set(ms, i, n) \in Seq(Medias)
  BY <1>1, <1>3 DEF Set
<1> DEFINE y == Set(ms, i, n)
<1> HIDE DEF y
<1>6. Set(s, "media", y) \in Sessions
  BY <1>5, SessionParts DEF y
<1> QED BY <1>3, <1>4, <1>6 DEF y

(* AddAttribute and RemoveAttribute.                                       *)
LEMMA AttributeEdits ==
  ASSUME NEW s \in Sessions, NEW i \in DOMAIN s.media
  PROVE  /\ AddAttribute(s, i, Attribute("setup", << 1 >>)) \in Sessions
         /\ RemoveAttribute(s, i, "setup") \in Sessions
<1> DEFINE old == s.media[i].attrs      a == Attribute("setup", << 1 >>)
           x == Append(old, a)      y == Only(old, {b \in ToSet(old) : b.name # "setup"})
<1>1. old \in Seq(Attrs)
  <2>1. <<>> \in Seq(Attrs)
    OBVIOUS
  <2> QED BY <2>1, SectionEdited
<1>2. a \in Attrs
  <2>1. \A k \in {"setup", "sendrecv", "rtpmap"}, v \in Seq(Nat) : Attribute(k, v) \in Attrs
    BY DEF Attrs
  <2> DEFINE q == << 1 >>
  <2>2. q \in Seq(Nat)
    OBVIOUS
  <2> HIDE DEF q
  <2>3. Attribute("setup", q) \in Attrs
    BY <2>1, <2>2
  <2> QED BY <2>3 DEF q
<1>3. AddAttribute(s, i, a) = [s EXCEPT !.media[i].attrs = x]
  BY DEF AddAttribute
<1>4. RemoveAttribute(s, i, "setup") = [s EXCEPT !.media[i].attrs = y]
  BY DEF RemoveAttribute
<1>5. x \in Seq(Attrs) /\ y \in Seq(Attrs)
  <2> HIDE DEF old, a
  <2> QED BY <1>1, <1>2, OnlyType
<1> HIDE DEF x, y, a
<1>6. [s EXCEPT !.media[i].attrs = x] \in Sessions /\ [s EXCEPT !.media[i].attrs = y] \in Sessions
  BY <1>5, SectionEdited
<1> QED BY <1>3, <1>4, <1>6 DEF a

(* What is always true of a description: it is one.                        *)
SdpInv ==
  /\ desc \in Descs
  /\ reading \in [lines : 0 .. MaxLines, over : BOOLEAN]
  /\ edits \in 0 .. MaxEdits

LEMMA StartType == Start \in Descs
<1>1. Nowhere \in Connections /\ <<>> \in Seq(Attrs) /\ <<>> \in Seq(Medias) /\ 0 \in Nat
  BY NormedMedia
<1>2. \A o \in BOOLEAN, c \in Connections, b \in Nat, t \in Nat, ats \in Seq(Attrs), ms \in Seq(Medias) :
           SessionOf(o, c, b, t, ats, ms) \in Sessions
  BY DEF Sessions
<1>3. \A o \in BOOLEAN : SessionOf(o, Nowhere, 0, 0, <<>>, <<>>) \in Sessions
  BY <1>1, <1>2
<1>4. Blank = SessionOf(FALSE, Nowhere, 0, 0, <<>>, <<>>)
  BY DEF Blank, SessionOf
<1>5. Blank \in Sessions
  BY <1>3, <1>4, Zenon
<1>6. \A s1 \in Sessions, c1 \in Medias \cup {NoMedia}, z1 \in BOOLEAN : DescOf(s1, c1, z1) \in Descs
  BY DEF Descs
<1>7. \A z \in BOOLEAN : DescOf(Blank, NoMedia, z) \in Descs
  BY <1>5, <1>6
<1>8. Start = DescOf(Blank, NoMedia, FALSE)
  BY DEF Start, DescOf
<1> QED BY <1>7, <1>8, Zenon

(* Every edit leaves a description.                                        *)
LEMMA EditsTyped ==
  ASSUME desc \in Descs,
         \/ Edit(SetMediaAddress(desc.session, << 5 >>))
         \/ \E cs \in CodecLists : Edit(ReplaceCodecs(desc.session, cs))
         \/ \E i \in DOMAIN desc.session.media :
              \/ Edit(AddAttribute(desc.session, i, Attribute("setup", << 1 >>)))
              \/ Edit(RemoveAttribute(desc.session, i, "setup"))
  PROVE  \E s \in Sessions : Edit(s)
<1>1. desc.session \in Sessions
  BY DescParts
<1>2. CASE Edit(SetMediaAddress(desc.session, << 5 >>))
  BY <1>1, <1>2, SetMediaAddressType
<1>3. CASE \E cs \in CodecLists : Edit(ReplaceCodecs(desc.session, cs))
  <2>1. PICK cs \in CodecLists : Edit(ReplaceCodecs(desc.session, cs))
    BY <1>3
  <2>2. ReplaceCodecs(desc.session, cs) \in Sessions
    BY <1>1, CodecListTypes, ReplaceCodecsIs
  <2> QED BY <2>1, <2>2
<1>4. ASSUME NEW i \in DOMAIN desc.session.media,
             \/ Edit(AddAttribute(desc.session, i, Attribute("setup", << 1 >>)))
             \/ Edit(RemoveAttribute(desc.session, i, "setup"))
      PROVE  \E s \in Sessions : Edit(s)
  <2>1. /\ AddAttribute(desc.session, i, Attribute("setup", << 1 >>)) \in Sessions
        /\ RemoveAttribute(desc.session, i, "setup") \in Sessions
    BY <1>1, AttributeEdits
  <2> QED BY <1>4, <2>1
<1> QED BY <1>2, <1>3, <1>4

(* A description is one after any lines and edits.                         *)
LEMMA SdpInvHolds == SdpSpec => []SdpInv
<1> USE SdpAssumption
<1>1. SdpInit => SdpInv
  <2>1. 0 \in 0 .. MaxLines /\ 0 \in 0 .. MaxEdits
    OBVIOUS
  <2>2. [lines |-> 0, over |-> FALSE] \in [lines : 0 .. MaxLines, over : BOOLEAN]
    BY <2>1
  <2> QED BY <2>1, <2>2, StartType DEF SdpInit, SdpInv
<1>2. SdpInv /\ [SdpNext]_sdpVars => SdpInv'
  <2> SUFFICES ASSUME SdpInv, [SdpNext]_sdpVars PROVE SdpInv'
    OBVIOUS
  <2>1. ASSUME NEW l \in Lines, NextLine(l) PROVE SdpInv'
    <3>1. desc' \in Descs
      BY <2>1, ReadLineType DEF NextLine, SdpInv
    <3>2. reading.lines + 1 \in 0 .. MaxLines
      BY <2>1 DEF NextLine, SdpInv
    <3>3. reading' \in [lines : 0 .. MaxLines, over : BOOLEAN] /\ edits' = edits
      BY <2>1, <3>2 DEF NextLine, SdpInv
    <3> QED BY <3>1, <3>3 DEF SdpInv
  <2>2. CASE EndOfText
    <3> DEFINE e == Ended(desc)
    <3>1. e \in Descs
      BY EndedType DEF SdpInv
    <3>2. desc' = Set(e, "current", NoMedia)
      BY <2>2 DEF EndOfText, Set
    <3> HIDE DEF e
    <3>3. desc' \in Descs
      BY <3>1, <3>2, DescParts
    <3>4. reading' \in [lines : 0 .. MaxLines, over : BOOLEAN] /\ edits' = edits
      BY <2>2 DEF EndOfText, SdpInv
    <3> QED BY <3>3, <3>4 DEF SdpInv
  <2>3. ASSUME NEW s \in Sessions, Edit(s) PROVE SdpInv'
    <3>1. desc' = Set(desc, "session", s)
      BY <2>3 DEF Edit, Set
    <3>2. desc' \in Descs
      BY <3>1, DescParts DEF SdpInv
    <3>3. edits' \in 0 .. MaxEdits /\ reading' = reading
      BY <2>3 DEF Edit, SdpInv
    <3> QED BY <3>2, <3>3 DEF SdpInv
  <2>4. CASE UNCHANGED sdpVars
    BY <2>4 DEF sdpVars, SdpInv
  <2>5. desc \in Descs
    BY DEF SdpInv
  <2> QED BY <2>1, <2>2, <2>3, <2>4, <2>5, EditsTyped DEF SdpNext
<1> QED BY <1>1, <1>2, PTL DEF SdpSpec

(* Of any description, DescriptionKept holds.                              *)
LEMMA SdpInvKeeps == SdpInv => DescriptionKept
<1> SUFFICES ASSUME SdpInv PROVE DescriptionKept
  OBVIOUS
<1> DEFINE s == desc.session
<1>1. s \in Sessions /\ desc.refused \in BOOLEAN
  BY DescParts DEF SdpInv
<1>2. s.origin \in BOOLEAN /\ s.media \in Seq(Medias)
  BY <1>1, SessionParts
<1>3. \A i \in DOMAIN s.media : s.media[i] \in Medias
  BY <1>2
<1>4. SdpTypeOK
  <2>1. \A i \in DOMAIN s.media : s.media[i].port = 9 /\ s.media[i].formats \in Seq(Nat) /\ s.media[i].bandwidth \in Nat
    BY <1>3, MediaParts
  <2> HIDE DEF s
  <2>2. s.origin \in BOOLEAN /\ desc.refused \in BOOLEAN
    BY <1>1, <1>2
  <2> QED BY <2>1, <2>2 DEF SdpTypeOK, SdpInv, s
<1>5. ReadBack
  <2> HIDE DEF s
  <2>1. /\ Parse(String(s)).refused <=> ~Writable(s)
        /\ Writable(s) => Parse(String(s)).session = Normal(s) /\ Normal(Normal(s)) = Normal(s)
    BY <1>1, ReadsAgain
  <2> QED BY <2>1 DEF ReadBack, s
<1>6. CodecsReplaced
  <2> SUFFICES ASSUME NEW cs \in CodecLists, NEW i \in DOMAIN ReplaceCodecs(s, cs).media
               PROVE  LET new == ReplaceCodecs(s, cs) IN
                      /\ GetCodecs(new.media[i]) = [j \in DOMAIN cs |-> [cs[j] EXCEPT !.channels = 1]]
                      /\ IsWebRTC(new.media[i]) = IsWebRTC(s.media[i])
                      /\ GetAttribute(new.media[i], "rtpmap") <=> cs # <<>>
    BY DEF CodecsReplaced
  <2> HIDE DEF s
  <2>1. cs \in Seq(Codecs)
    BY CodecListTypes
  <2>2. ReplaceCodecs(s, cs).media = [k \in DOMAIN s.media |-> WithCodecs(s.media[k], cs)]
    BY <1>1, <2>1, ReplaceCodecsIs
  <2> DEFINE m == s.media[i]      n == WithCodecs(m, cs)
  <2>3. i \in DOMAIN s.media
    BY <2>2
  <2>4. ReplaceCodecs(s, cs).media[i] = n /\ m \in Medias
    BY <1>3, <2>2, <2>3
  <2> HIDE DEF m
  <2>5. /\ GetCodecs(n) = [j \in DOMAIN cs |-> [cs[j] EXCEPT !.channels = 1]]
        /\ IsWebRTC(n) <=> IsWebRTC(m)
        /\ GetAttribute(n, "rtpmap") <=> cs # <<>>
    BY <2>1, <2>4, CodecsFound
  <2> HIDE DEF n
  <2>6. IsWebRTC(n) = IsWebRTC(m)
    BY <2>5 DEF IsWebRTC
  <2> QED BY <2>4, <2>5, <2>6 DEF m
<1> QED BY <1>4, <1>5, <1>6 DEF DescriptionKept

(* A description that was parsed, and edited in whatever way and order, is *)
(* read again from the text String writes of it as its normal form, and is *)
(* refused only without an origin or with a section that has no formats;   *)
(* the codecs ReplaceCodecs is given are the ones GetCodecs finds in each  *)
(* section.                                                                *)
THEOREM DescriptionAlwaysKept == SdpSpec => []DescriptionKept
BY SdpInvHolds, SdpInvKeeps, PTL
================================================================================
