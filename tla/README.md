# Verification of into-the-networks

TLA+ modules, TLC configurations and TLAPS proofs for the services of this
repository.  Paths are relative to the repository's `src/`.  Everything is read
off the Go code; where the code and a document or test disagree, the code is what
is modelled and the disagreement is listed under *Divergences*.

1. [Inventory](#1-inventory)
2. [Modules](#2-modules)
3. [How the modules correspond to the code](#3-how-the-modules-correspond-to-the-code)
4. [Runs, bounds and fairness](#4-runs-bounds-and-fairness)
5. [Proofs](#5-proofs)
6. [Divergences between code and documents](#6-divergences-between-code-and-documents)
7. [Plan, and what is not modelled](#7-plan-and-what-is-not-modelled)

## 1. Inventory

The repository holds nine independent Go services (and one Python classifier)
around a VoIP network.  They meet only over protocols: FreeSWITCH's event socket
(ESL), RTPengine's NG protocol over UDP, SIP, Kamailio's RPC, WebSockets, HTTP and
PostgreSQL.  Inside a service the parts share memory between goroutines, and that
is where most of what is hard to test lies.

| Part | State it keeps | Operations | Talks to | What is hard |
| --- | --- | --- | --- | --- |
| esl-resilience: call state machine (`internal/state`) | table of calls: state, answer time, talk time; a sleeping cleanup goroutine per ended call | `HandleEvent`, `cleanupCall`, queries | fed by the server's event loop | events repeated, late or out of place; fields written before the transition is validated; timers that find a call by UUID minutes later |
| esl-resilience: event buffer (`internal/esl/buffer.go`) | channel, goroutine-local batch, stored slice, drop count | `Enqueue`, `Dequeue`, `Flush`, `Stop`, background flush | the ESL client | three places an event can be in; overflow arithmetic; closing the channel under its users |
| esl-resilience: ESL client (`client.go`, `circuit_breaker.go`, `event_reader.go`) | connection, attempts, back-off, breaker, event channel | connect, authenticate, replay, read, handle, `SendCommand`, `Stop` | FreeSWITCH, the buffer, the server | reconnects with back-off and breaker, replay, stop at any point, two readers of one socket |
| esl-resilience: call records (`internal/cdr`, `server.go`) | tables `cdr`, `tenant_cdr` and their notes | one statement per event or request | PostgreSQL, the client's events | events that come late or never; updates of rows not there yet; tenants taking each other's records over |
| esl-resilience: tenants (`internal/tenant`) | tenants by id, by name, by domain | create, update, suspend, delete, clean up | records, authentication | two lookup maps kept by hand through renames and deletes |
| esl-resilience: authentication (`internal/auth`) | API keys, request counters | generate, revoke, validate, limit | Redis, tenants | a key that lapses between check and count; windows that are renewed or meet |
| esl-resilience: monitoring (`internal/monitoring`) | rules, start times, alerts, call counters, breaker, checks | evaluate, fire, count, report | Prometheus | rounds that overlap; figures read in several goes; a read lock taken twice |
| esl-resilience: logging (`internal/logging`) | entries, three indexes, alert windows | log, query, clear, report | processors | four copies of one list kept in step |
| freeswitch-cdr and multi-tenant-cdr: ESL library (`internal/esl`) | socket, response channel, listener table, context | `SendCommand*`, `EnableEvents`, `Close`, `ExitAndClose`, receive loop, outbound server | FreeSWITCH | responses carry no id and are matched by order; cancellation; a receive loop that can end or be held up |
| freeswitch-cdr: CDR service | listener numbers, rows of `cdr` | one insert per hang-up | ESL library | listeners run in goroutines of their own, numbers are given out again |
| multi-tenant-cdr: analytics, reports, enrichment, API | daily figures, templates, reports, enriched rows | trigger, refresh, generate, enrich, query | PostgreSQL | a refresh that overwrites what a trigger counts; reports made in several statements; rows updated in part |
| rtpengine-media: NG client (`internal/ng`) | cookie map, response channels | `Send`, reader, `Close` | RTPengine | lost, late, duplicated datagrams; timeouts; `Close` under waiting Sends |
| rtpengine-media: SDP parser (`internal/sdp`) | a description | parse, edit, write | | codecs kept twice; texts that must read back as they were |
| rtpengine-media: session manager, collector, server | session table, expiry, session gauge | offer, answer, delete, cleanup, `Close` | NG client | asks RTPengine first and changes the table after; deletes that run later in goroutines |
| webrtc-gateway: signaling (`internal/signaling`) | clients, Send channels, sessions | register, call, offer, answer, ICE, hangup, disconnect, `Close` | browsers, SIP translator | blocking channel sends under a read lock; closing a channel others send to |
| webrtc-gateway: SIP translator, peers, RTPengine client | SIP sessions; pion peers | invite, answer, hang up, register | SIP server, RTPengine | answers that come after the hang-up |
| voip-push: registry, orchestrator, senders | devices by user, users by token; pushes under way | register, unregister, refresh, clean up, push with retries | APNs, FCM | a device pointer held through retries while it is changed or replaced; answers after timeouts |
| kamailio-router: RPC | destinations in PostgreSQL, one TCP connection | add, remove, reload, health check | Kamailio | a connection shared by handlers; database and Kamailio changed in two steps |
| wireguard-voip | peers, users, IP pool | provision, revoke, stats loop | the WireGuard interface | table and interface changed in two steps |
| amd-system | call sessions, routes, metrics | start, chunk, complete, route, retry | classifier over HTTP | a call completed, routed and cleaned up by different requests |

What makes each part correct:

* **Call state machine**: calls only move forward, end once, are kept five minutes
  after their end and then forgotten; the record agrees with the state.
* **Buffer**: every accepted event is held, taken or counted as dropped; drops only
  happen when it is full, or all but full; events reach the stored slice.
* **ESL client**: no event is handled twice, none is lost without being counted; the
  back-off and the attempts agree; the manager settles or ends; a stop ends it.
* **ESL library**: a call gets the response to its own command; calls return; the
  receive loop returns to its socket.
* **NG client**: a Send ends once, with the reply to its own executed request or an
  error; no cookie is left behind; the reader is never held up.
* **Session manager**: what the table, RTPengine and the collector say of a call
  agrees once nothing about it is under way.
* **Signaling**: no send on a closed channel, a session is hung up once, handlers end.
* **SIP translator**: a call that was hung up stays so whatever comes late; both sides of
  an answered call agree that it is.
* **Call records**: a record says of the call what was handled after its creation; only
  its creators change it, and notes are read by who made them.
* **Tenants, authentication**: a lookup finds who has the name now; a limiter lets no more
  through than it says, and only good keys.
* **Monitoring, logging**: a rule fires once in its duration and each firing is one alert;
  figures add up; queries answer from the indexes what a walk over the log would.
* **CDR services**: a listener is called once per event; every hang-up is recorded; figures,
  report rows and enriched rows say what they were made of.
* **SDP**: what was parsed and edited is read back from its own text.
* **kamailio-router**: what a 200 says of the table is true of Kamailio.
* **wireguard-voip**: tables, address pool and interface agree; a lease holds until revoked.
* **amd-system**: a call is routed by the result it holds.
* **Push**: a token leads to who holds it; only a device whose token was refused is
  disabled; a push rings only its user's devices, and ends.

## 2. Modules

| Module | Models | Built on |
| --- | --- | --- |
| `CallLifecycle` | abstract: the life of a call | |
| `CallMachine` | `esl-resilience/internal/state` | implements `CallLifecycle` |
| `CallMachineProofs` | theorems | `CallMachine` |
| `EventBuffer` | `esl-resilience/internal/esl/buffer.go` as a component: one action per operation, no Init of its own user | |
| `BufferUse` | the buffer between a user that offers and takes and a stop | `EventBuffer` |
| `EslClient` | the resilient client, its breaker, its buffer and `Server.Stop` | `EventBuffer` |
| `EslClientProofs` | theorems | `EslClient` |
| `CallRecords` | the event handlers of `esl-resilience/internal/server.go` and `cdr/repository.go` | |
| `Tenants` | `esl-resilience/internal/tenant/manager.go` | |
| `TenantRecords` | `cdr/tenant_repository.go` under `tenant/repository.go` and the manager's verdicts | |
| `RequestGate` | `auth/middleware.go`, `auth/rate_limiter.go` | |
| `Alerts`, `CallMetrics`, `HealthChecks` | `monitoring`: alert manager; call and connection figures; health checker and breaker | |
| `Lists` | filtering a list, as the loops of the log store and the SDP parser do | |
| `LogPipeline` | `logging`: aggregator, error alerts, analytics | `Lists` |
| `EslServicesProofs` | theorems | `Tenants`, `TenantRecords`, `HealthChecks`, `CallMetrics`, `Alerts`, `CallRecords`, `RequestGate`, `BufferUse` |
| `EslConn` | calls over `freeswitch-cdr/internal/esl/connection.go` (the same file is in `multi-tenant-cdr`) | |
| `EslConnProofs` | theorems | `EslConn` |
| `EslListeners` | the listeners of that file and the CDR service over them | |
| `DailyFigures`, `CdrReports`, `CdrEnrichment` | `multi-tenant-cdr`: daily analytics with the trigger of `sql/schema.sql`; templates and reports; enrichment | |
| `RequestReply` | abstract: what a request/reply client promises | |
| `NgClient` | `rtpengine-media/internal/ng/client.go` | implements `RequestReply` |
| `MediaSession` | session manager, collector and handlers of `rtpengine-media` | `RequestReply` in the place of the NG client |
| `RtpMediaProofs` | theorems | `NgClient`, `MediaSession` |
| `SdpDescription` | `rtpengine-media/internal/sdp/parser.go` | `Lists` |
| `Signaling` | `webrtc-gateway/internal/signaling/server.go` | |
| `SignalingProofs` | theorems | `Signaling` |
| `SipTranslator` | `webrtc-gateway/internal/sip/translator.go` | |
| `KamailioRpc` | `kamailio-router/rpc` | |
| `DeviceManager` | `voip-push/internal/device/manager.go` as a component | |
| `VoipPush` | `voip-push/internal/push/orchestrator.go` over the registry | `DeviceManager` |
| `VoipPushProofs` | theorems | `VoipPush` |
| `WireguardPeers` | `wireguard-voip`: peer manager, interface, handlers, collector | |
| `AmdCalls` | `amd-system`: sessions, audio handler, router, collector | |
| `NetServicesProofs` | theorems | `WireguardPeers`, `AmdCalls`, `CdrReports`, `SipTranslator`, `CdrEnrichment`, `KamailioRpc`, `DailyFigures`, `EslListeners`, `LogPipeline`, `SdpDescription` |

Each `MC` module extends the modules it checks and gives their constants small values
(`EslClient`, whose values are all numbers, needs none); the `.cfg` of a run names them.

Two compositions carry the design.  `EventBuffer` is checked by itself in `BufferUse`,
where its user may do anything, and again inside `EslClient`, where its user is the code
that really calls it.  `RequestReply` stands between `NgClient`, which is shown (and
proved) to implement it, and `MediaSession`, which uses it: the session manager is checked
against the promise, not against the client's datagrams, so its state space does not
contain them.

`MCEslServices` and `MCNetServices` put side by side parts that share nothing.  Their
variable `active` names, for a whole behaviour, the one part that takes steps, and the
others stay at their initial states; so the state spaces add up and do not multiply, and
each property is checked over all behaviours of its own part.

In most modules an operator is followed or preceded by a variant of itself whose name
says how it differs (`ReplyUnbounded`, `RegisterKeeping`...).  Those are slips a change
of the code could make; with one in the place of the operator the property named in
`PROJECT.json` fails, which shows that the property says something about the code.

## 3. How the modules correspond to the code

`PROJECT.json` maps every definition to the lines it translates.  What follows is
what a reader needs before opening both.

**CallMachine.**  `calls` is `Machine.calls` with the fields that decide something;
`cleaners[u]` is the set of instants at which a `cleanupCall` goroutine of call `u`
wakes.  `HandleEvent` runs under the lock, so `Create`, `Accept`, `Refuse` and
`Drop`, its four outcomes, are one step each.  `Marked` is the part of
`processTransition` before the check: it applies to refused events too, and it is
why `RecordMatchesState`, a part of `TableSound`, is not obvious.  `Init_` is `CALL_INIT`.

**EventBuffer.**  `chan`, `batch` and `stored` are the channel, the background
goroutine's local batch and the slice.  `Enqueue` is split where it fails to send
(`EnqueueSend`, `EnqueueFull`).  `processBatch` is there twice: as its loop, event by
event, and as the closed forms `Cuts` and `Stored` that the actions use.  TLC compares
them on small inputs (`StoredIsLoop`), `ProcessBatchStores` proves them equal on all that
fit the buffer.  `crash` records a panic.

**EslClient.**  `manager` is the program counter of `connectionManager` through
`connect`, `authenticate`, `replayBufferedEvents` and `processEvents`; a step is what
runs between two points where another goroutine can matter.  `c.mu` is the predicate
`Locked`.  The health checker is one action: it takes what it reads off the socket
away from the reader (`stolen`).

**EslConn.**  `call[c]` is one call of `SendCommandWithContext`; `wire` is what
FreeSWITCH has still to answer, `inbox` what is in the socket, `responseChan` the
channel.  `Patient` calls wait on the connection's own context, as `EnableEvents`
does.  `written` and `consumed` are histories that `ResponsesInOrder`, a part of `ResponsesMatch`, needs;
`overlapped` says whether two calls were ever waiting at once.

**NgClient.**  A request is its cookie.  Datagrams are two sets, so they are
reordered and lost freely, and a response may be duplicated `MaxCopies` times.
The reader is three steps (read, look the channel up under the lock, send to it
outside the lock), which is exactly what `Close` can interleave with.

**MediaSession.**  `outcome` and `carriedOut` are `outcome` and `executed` of `RequestReply`; each
operation is a request, then a change of the table under the manager's lock, then
the collector's count under its own.  A session is named by the offer that stored
it.  `raced` is a history: calls two operations of which were under way together.
The server shuts HTTP down for up to 10 s before `Close`, and a Send ends within 5 s,
so no handler is left when `Close` begins; the goroutines of `cleanup` may be.

**Signaling.**  `reader[c]` is the program counter of a client's reader goroutine,
which runs the handlers; `queue[c]` is the number of messages in its `Send` channel.
The write lock is taken, used and released in one step; the read lock is held over
`"scan"` and `"send"`, as the forwarding loops hold it while they block, and a
waiting writer keeps new readers out as `sync.RWMutex` does.  The calls into the SIP
translator are left out: its sessions have ids of its own, which signaling never
passes, so they return "session not found" and change nothing.

**SipTranslator.**  A call is one `Invite`.  `state[c]` is the session object, which the
INVITE's goroutine keeps a pointer to; `sessions` is the table, which may have lost it.
`invite[c]` is that goroutine's program counter and `leg[c]` the call at the far end.
A response may be read more than once, late or never.  `Answer`, `Hangup` and `Register`
each start a goroutine that sends one datagram and changes nothing here; it is left out.

**DeviceManager, VoipPush.**  A registration is an object `device[r]`; the table
`devices` points to the last one of each user.  Pushes keep the object they looked
up, in `target`.  Each attempt's goroutine is a record of `send`, which outlives the
attempt.  `held` and `refused` are histories.  Go strings are read and written
here without a lock; a torn read is left out, since nothing in the service refreshes
a token in place except through the manager's API, which no handler calls yet.

**CallRecords.**  The client handles one event at a time, so a handler with its
statement is one step; what varies is the order in which a channel's events arrive
(`inFlight`), which ones never do, and which statements fail.  `complete` says whether
the table has the columns that `CreateCDR` and `AddMetadata` need.  `handled` is a
history.

**Tenants, TenantRecords.**  Each operation of the manager holds its lock and is one
step.  `usurped` is a history: names and domains an update once took over.
In `TenantRecords` a request is two steps, the manager's verdict and the statement;
`creators`, `writers`, `noters` are histories of who did what to a record.

**RequestGate.**  Time is counted in ticks; `counters` is what Redis or the map holds and
how long it stays.  `served[t][a]` is how many requests were let through `a` ticks ago, and
`refused` how many the counter had let through at a refusal.

**Alerts.**  A round of `EvaluateAlerts` is four places: idle, between two rules, timing the
condition, raising the alert; the manager's lock is free in between.  `started` and
`sinceFired` are ages in ticks.  **CallMetrics** keeps rates as the two numbers that are
divided.  In **HealthChecks** a probe is one call; `"waiting to write"` is a writer that
waits and so keeps new readers out.

**LogPipeline.**  `entries` and `index` are the aggregator's list and its three maps in one.
Logging an entry, with dropping the oldest and running the processors, is one step under
its lock.  `addToIndex` appends an entry to the slice of a key once for each time the key
occurs in it (a tag may be repeated); `removeFromIndex` takes as many out again, each call of
`removeEntryFromSlice` the first that is there.  `Query` and `LogFigures` are operators,
compared with a walk over the entries in every state; both filter with `Only`.

**EslListeners.**  `listeners[k]` is the table under a key; `held[l]` what a registrant
remembers of its number; `running[l, e]` counts the goroutines dispatch has started.
`due` and `contested` are histories.

**DailyFigures.**  The insertion of a record and its trigger are one step, as they are one
transaction; a refresh is two, its count and its overwriting.  **CdrReports** has one step
for every statement of `GenerateReport`, each of which may fail, and `CrashReports`
between any two.  **CdrEnrichment** works out a row from one reading (`Replaced`, `Kept`)
and stores it later; scores are integers, in hundredths, with the sums that are above 0.7
only in floating point listed in `RoundedUp`.

**SdpDescription.**  A text is read line by line (`NextLine`), as the parser does; `Parse`
does the same for a whole text (`Reads`, a recursive function over its lines), so that in
every state what was read and edited can be written (`String`) and read again.

**KamailioRpc.**  `conn` is `k.conn` as the number of a dialled connection, `line` what has
become of each.  An operation is one handler; each of its reads and writes of
`k.conn` is a step.

**WireguardPeers.**  `peers`, `userPeers`, `ipPool` and `iface` are the manager's two maps, the
pool and the interface.  `answering` is a handler that has its peer and has not answered;
`leases` what clients were told.

**AmdCalls.**  `request[q].at` is the place of an audio request between the four calls it
makes, each under the manager's lock.  `overlapped` is a history: sessions that a second
request completed while a first had still to route them.

## 4. Runs, bounds and fairness

Passing runs (distinct states as TLC reports them):

| Run | Instance | States | What it shows |
| --- | --- | --- | --- |
| `CallMachine` | 2 UUIDs, retention 2, horizon 3 | 84 000 | `TableSound`: exact cleanups, records that match states; `KeptForRetention`; `FollowsLifecycle`, with its liveness |
| `EslClient` | channels and buffer of 1, 3 events, 3 attempts, threshold 1, 1 loss | 229 000 | `DeliveredOrCounted`: once-only handling, nothing lost uncounted; `ConnectionSound`: no nil connection, back-off and retries; `ManagerSettles` |
| `Signaling` | 2 connections of a user, 1 session, channel of 1, 1 loss, `Close` | 385 000 | `SharedSound`: no send on a closed channel, one hang-up; `HandlersFinish` |
| `NgClient` | 2 Sends, 1 duplicate, `Close` | 18 000 | `ImplementsRequestReply`; `CookiesSound`; `NothingHangs`: Sends and reader return |
| `EslConn` | 3 calls, one patient, channel of 2, 1 event, exit, loss | 833 000 | `ResponsesMatch`: order of responses, matching of serial calls; `NothingHangs`: calls and loop return |
| `MediaSession` | 1 call, 3 operations, cleanup, `Close` | 116 000 | `SessionsAgree`: table, RTPengine and collector; `CloseDeletesAll`: what `Close` leaves |
| `VoipPush` | 2 users, 2 tokens, 2 registrations, 1 refresh, a push of 2 attempts | 1 581 000 | `TokensExact`: token map sound and complete; `PushesSound`: who is disabled and who rings; `PushesEnd` |
| `EslServices` | eight parts of esl-resilience, see below | 350 000 | see below |
| `NetServices` | ten parts of the other services, see below | 1 141 000 | see below |

`EslServices`:

| Part | Instance | Properties |
| --- | --- | --- |
| `CallRecords` | 2 channels of 3 events | `CallsRecorded`: a record says what was handled after its creation |
| `Tenants` | 2 tenants, names, domains | `LookupsAgree` |
| `TenantRecords` | 2 tenants, 1 channel, 1 request under way | `TenantsApart`: records and notes of two tenants |
| `RequestGate` | 2 tenants, 2 keys, 1 client, limit 2, window 2 | `GateKept`: what either limiter lets through; keys |
| `Alerts` | 1 rule, 2 rounds, duration 2, 2 alerts | `AlertsSpaced` |
| `CallMetrics` | 3 calls, 2 changes of the connection | `FiguresAgree` |
| `HealthChecks` | 2 probes, threshold 2 | `BreakerAgrees`; `HealthCallsEnd` |
| `BufferUse` | buffer 3, batch 2, 6 events | `EventsAccounted`; `OrderKept`: order, and drops only when full or as good as full; `EventuallyStored` |

`NetServices`:

| Part | Instance | Properties |
| --- | --- | --- |
| `WireguardPeers` | 2 users, 2 addresses, 3 keys | `PeersAgree` |
| `AmdCalls` | 1 session, 3 audio requests, 3 verdicts, 1 retry | `RoutesMatch` |
| `KamailioRpc` | 1 destination, 3 operations, 2 connections | `TablesAgree` |
| `EslListeners` | 1 listener and the service's, 2 events, 2 ids | `EventsReachListeners` |
| `DailyFigures` | 2 days, one in a listed month, 2 records, 2 refreshes, 1 reader | `FiguresMatch` |
| `CdrReports` | 3 templates, 1 report | `ReportsTrue` |
| `CdrEnrichment` | 4 pairs of numbers, 2 enrichments, 2 versions of a record | `RowsSound` |
| `SdpDescription` | texts of up to 4 lines, 2 edits | `DescriptionKept` |
| `LogPipeline` | log of 2, 3 entries, 2 tenants, 2 rules, 1 reader | `LogsAgree` |
| `SipTranslator` | 2 calls, 1 user, 2 passwords | `StaysHungUp`, `AnswersAgree` |

Violation runs, each a documented claim that the code does not keep:

| Run | Claim | What TLC finds |
| --- | --- | --- |
| `EslShutdown` | "graceful shutdown" | a nil event read off the closed buffer channel is replayed and dereferenced, or `Enqueue` sends on it |
| `SignalingStuck` | "both parties received hangup" | a hang-up blocks for good on a dead client's channel with the read lock held |
| `EslCancel` | "cancel requests using Go context" | the call after a cancelled one gets its response |

**Why the bounds are enough.**

* Capacities are 1 to 3, so that every channel and buffer is full in many reachable
  states; a larger one only delays that.  `BufferUse` has twice as many events as the
  buffer holds, so that the overflow path runs when the channel, the batch and the
  slice are each empty, partly filled and full.  `BatchCap` is smaller than `MaxSize`
  as in the defaults (100 and 10 000); with the opposite order `processBatch` panics,
  see section 6.
* `CallMachine`: `Horizon` 3 and `Retain` 2 let a call end, be cleaned up and its UUID
  be used again while another is active; `Horizon` bounds events, not cleanups.
* `EslClient`: three attempts include the first delay, a doubled one and the cap, and
  giving up; threshold 1 lets one lost connection open the breaker, so that it half-opens
  and closes again inside the run; three events meet every full queue; both invariants are
  proved for any capacities, limits and numbers.
* `EslConn`: three calls are the least in which a call that gave up shifts two others;
  a channel of two is filled by two unclaimed responses; `ResponsesMatch` is proved for any
  number.
* `NgClient`: two Sends suffice for crossing responses, and the proofs cover any number.
* `MediaSession`: the operations on one call interact; calls do not, as everything is keyed
  by call id.  Three operations give an offer, its expiry's delete and a third that races
  them; proved for any number of calls and operations.
* `Signaling`: one of two connections can be the sender and the other the blocked
  receiver, each can be both; both belong to one user or to none, so a hang-up goes to
  two, one or no clients; the proof covers any number.
* `SipTranslator`: calls share the table only, so two suffice for one to be hung up or
  answered while the other is under way, and the proofs cover any number.
* `VoipPush`: two registrations are one user registering anew or two users claiming one
  token; two attempts are a first and a last; proved for any number.
* `CallRecords`: channels share the statistics only; a channel's three events arrive in
  every order and with every loss; proved for any number of channels and events.
* `Tenants`: two of each let a tenant take a name over, lose it, and take it back; the
  proof covers any number.  `TenantRecords`: what two tenants do to one another's record
  needs one record, and a request that waits for its turn is overtaken by all the manager does;
  the proof covers any number.
* `RequestGate`: limit 2 and window 2 are the least with a request let through inside,
  at the edge of, and outside a window; proved for any limit and window.
* `Alerts`: two rounds overlap at every place; duration 2 tells too early, on time, late.
  `CallMetrics`: three calls are one starting, one ending and one counted.
  `HealthChecks`: a reader and a writer make the deadlock; threshold 2 has a failure that
  does not open the breaker and one that does.  All three are proved for any number.
* `WireguardPeers`: two addresses run out, and three keys revoke and provision again; proved
  for any number.  `AmdCalls`: sessions do not interact, and three requests are two that
  overlap and one after them; proved for any number.  `CdrReports`: reports share templates
  only; proved for any number.
* `KamailioRpc`: three operations are one that owns the connection, one that uses it and one
  that finds it broken, and a destination is one of many that never meet; proved for any
  number.
* `EslListeners`: two listeners collide in a number; two events are dispatched at once; proved
  for any number.
* `DailyFigures`: days do not interact; two refreshes overlap each other and an insertion;
  proved for any number of days, records and refreshes.
* `CdrEnrichment`: two enrichments of two versions are all that a row of two readings needs, and
  the proof covers any number of them;
  the four pairs of numbers reach every category and every rule.
* `SdpDescription`: four lines are an origin, a media section, its connection and one more
  of any kind; two edits undo or repeat each other.  Proved for any number of either.
* `LogPipeline`: three entries drop one from a log of two with every mix of tenants, levels
  and tags; proved for any number of entries and any size of the log.

**Deadlock** is not checked in runs of programs that really stop (after `Close`, after all
bounded calls, or after a crash), which includes the two runs of many parts;
`CallMachine`, which can always drop an event, is checked for it.

**Fairness.**  Goroutines of the program are scheduled (weak fairness on the step each
can take) and timers fire.  Strong fairness is assumed only of readers in `Signaling`,
which wait for an `RWMutex` that comes free again and again and that Go hands over to
waiters in turn.  Nothing is assumed of the network or of other systems: no
response, no event, no dial that succeeds, and in `VoipPush` no answer from APNs or
FCM.  Two exceptions, both stated at `Spec`: in `EslConn` FreeSWITCH answers what it
was sent while the connection is up, since a call on the connection's own
context has no timeout; in `Signaling` a peer with a good connection reads it.  In
`EslServices` only the buffer's goroutine and the calls of the health checker are scheduled
fairly; the other parts of the two large runs have safety properties alone.

## 5. Proofs

All proofs hold for every value of the constants under the named assumptions
(`RetainAssumption`, `NgAssumption`, `RegistryAssumption`, `ConnAssumption`, ...), which say no more
than that capacities and bounds are numbers and that placeholders are distinct from
real values; TLC evaluates them in every run.  One theorem pair has a hypothesis of its own,
`BatchCap <= MaxSize`, see `BufferUse` below.

* **CallMachineProofs.**  The inductive invariant is
  `TypeOK /\ AnsweredInPast /\ CleanupExact /\ RecordMatchesState`.
  `CleanupExact` alone is not inductive: that a call which ends has no cleanup yet
  needs that only active calls can enter an ended state (`AcceptedTransition`), and
  `RecordMatchesState` needs to know of *refused* events which states they can be refused
  in (`RefusedTransition`), as they edit the record too.  From it follow
  `TypeCorrect`, `CleanupIsExact`, `RecordAgrees`, together `TableIsSound`, the action property
  `RetentionKept` and `RefinesLifecycle`, the safety part of the refinement, for any set
  of UUIDs, retention and horizon.
* **EslConnProofs.**  `ResponsesAlwaysMatch`.  Responses carry no id, so the proof is about one
  line of frames: those taken, then the channel, then what the receive loop holds, the
  socket, and what FreeSWITCH has still to answer.  Every step moves the frame at one place's
  head to the next place's end, puts a written command at the end of the line, or puts an
  event or the notice of the exit in between; so the commands in it are those written, each
  once and in order (`Tracks`, of which `Joined`, `Shifted`, `OthersPass` and `LastInLine` say what
  each such step does to it).  `LineSound` is inductive with the counts of events and with what
  is known of calls that have not written yet (`WrittenSound`).  The second half,
  `OwnReply`, needs `SerialSound`: as long as calls come one at a time and none gives up, the only
  response that is still to come is that of the call that waits.  The attempt showed that
  `ConnAssumption` was too weak: it let the exit command be named as the outcomes of calls are.
* **EslClientProofs.**  `ConnectionAlwaysSound` and `AlwaysDeliveredOrCounted`.
  `ConnectionSound` needs the places of `connectionManager` at which a nil connection can only be
  met with the context done (`LinkInv`), and that the attempts that failed are fewer than
  `MaxRetries` until the manager gives up (`RetryInv`).  Its delay is stated with a power of two,
  about which the provers know nothing; that `2^(n+1)` is twice `2^n` is proved from the number
  of subsets of a set of `n` numbers (`Doubles`).
  `DeliveredOrCounted` is about where events are: in one of seven places each (the
  processor's channel, the replay, the slice, the batch, the buffer's channel, a waiting
  `Enqueue`, the manager's hands), once there, and not among those handled or stolen (`Apart`,
  `OnceEach`, `CountsSound`).  A step is a transfer between two places of which some events may be
  gone; `Transfer` says what every such step keeps and `GoneAreCounted` what it does to the
  counts, so that the lemma of each action has only to name its two places.  The nil events
  read off the closed channel come only after the property has stopped counting (`NilAtEnd`).
  No hypothesis on `BatchCap` is needed: a batch too long ends the process before it moves an
  event.
* **RtpMediaProofs**, one section per part:
  * `NgClient`: the invariant adds to the types where the response to a request
    can be (`OwnReplies`: in a datagram of an executed request, and in the channel of that
    request only), when a result is there (`ResultsAtEnd`) and that only what was sent is
    executed (`SentByCalls`).  From it `CookiesAreOfSends` (the property `CookiesSound`) and
    `RefinesRequestReply`: every step of the client is a step of `RequestReply` or a stutter, for
    any number of Sends and duplicates.
  * `MediaSession`: `SessionsAlwaysAgree`, `CloseAlwaysDeletes`.  `SessionsAgree` speaks of calls
    nothing is under way about; the invariant says of each call what is true while something
    is: one operation at most has begun or is in progress (`OneAtATime`), and how far it is
    fixes what the table, RTPengine and the collector say (`Progress`).  Calls that were raced, or
    whose delete failed, are excused as in the property.  `ClosingSound` follows `Close` through
    its list: while it deletes, whatever is in the table failed, is on the list, or is being
    deleted.
* **SignalingProofs.**  `SharedAlwaysSound`: that no handler sends on a closed channel is not
  inductive; it needs to know that the clients a handler has still to look at, and the one
  it sends to, are in the map (`Looked`), as it has held the lock since it looked, and that the
  channels of those in the map are open (`Open`).  That a session is hung up once needs to
  know that one whose hang-up is being forwarded has ended (`Ended`), so that no second
  handler finds it live.  One lemma per action, for any number of connections, users and
  sessions and any capacity.
* **VoipPushProofs.**  `TokensSound` is inductive with `Owned`: the object a user is
  mapped to was made for that user, so no two users share one, and before now, so that
  a new registration overwrites nobody's.  `TokensComplete` is inductive on top of it with
  `WasStored`: every token an object holds was stored for its user and its field, so a key
  taken out of the map on another's behalf is never the token that was stored once.  One
  lemma per way the registry changes (register, leave, refresh, a push's verdict), for each
  of the two; together they are `TokensAreExact`.  `PushesAreSound`: that only a device whose token
  was refused is disabled, and that a push rings its user's devices only, need to know that
  an "invalid token" in an answer or in a push's last error is of its own target
  (`InvalidWasRefused`), and that what an object holds was stored for its user
  (`ObjectsStored`), also when it was refreshed or replaced while the push was under way.
* **EslServicesProofs**, one section per part:
  * `Tenants`: `LookupsAgree` is inductive by itself.  A lookup map and the fields it indexes are
    the relation `Finds`, of names and of domains alike, and `MoveKeeps` says what a rename
    does to it; the step of `UpdateTenant` uses it twice.
  * `TenantRecords`: `TenantsApart` becomes inductive with the types of its histories, for a
    request between its verdict and its statement has read nothing from the tables yet; the
    constants are assumed only to tell a missing row from a row (`NoCallAssumption`).
  * `HealthChecks`: `BreakerAgrees` needs that a getter between its two locks got there with
    failures enough, unless the breaker changed meanwhile (`Overdue`).
  * `CallMetrics`: the figures are numbers of calls by how far they have come (`CountsInv`), of
    which only finitely many have begun; a rate's two numbers, read one after the other,
    keep their order as totals only grow (`RatesInv`).
  * `Alerts`: a firing becomes an alert in exactly one round, so the alerts of a rule and the
    rounds that are raising one add up to its firings (`AlertsInv`); finite, as the sets are
    for any number of rounds.
  * `CallRecords`: what was handled of a channel is a sequence without repetitions
    (`OnceAt`), so that an event before its creation stays before it; the record's fields are
    read off that order (`AgreesAt`).
  * `RequestGate`: the property counts the requests of any window, the code keeps one number.
    `RedisKept`: the counter outlives every request it let through; `MemoryKept`: a window holds
    what this counter and the one before let through, each no more than the limit.
  * `BufferUse`: every accepted event is in one of four places (the channel, the batch, the slice,
    an `Enqueue` that waits) and in one only, so what a step drops it drops once
    (`PlacesApart`, `AllCounted`).  Both theorems suppose `BatchCap <= MaxSize`, as the defaults
    have it (100 and 10 000): without it a batch longer than the buffer makes the code
    panic (section 6), after which nothing is claimed.  The proof of `OrderKept` found its first
    form false: an `Enqueue` that waits for the lock may meet a slice that has
    just had its oldest cut off for a batch, and drops from less than a full buffer
    (`PendingHeld`).  `ProcessBatchStores` is an induction over the batch, by the least
    place where the loop would differ from the closed form (`NatMin`).
* **NetServicesProofs**, one section per part:
  * `WireguardPeers`: `PeersAgree` is inductive by itself, since the manager's lock makes every
    change of its four tables one step; what needs care is that a lease that is being
    answered survives the steps in between.
  * `AmdCalls`: `RoutesMatch` speaks of sessions nobody is about to route, and becomes inductive
    with what is true while somebody is: the session holds that request's verdict, and
    no other request is there (`RoutePending`).
  * `CdrReports`: what a report's row, its file and its caller say is fixed by how far its
    making has come (`RowTrue`), failures and crashes included.
  * `SipTranslator`: `AnswersAgree` is not inductive: that an acknowledged leg belongs to an
    answered session needs to know that a 200 is on its way only for a leg that was picked up
    and that there is no leg before its INVITE (`ReplyCauses`).  The invariant also gives the
    action property `StaysHungUp`: the table has no session that was hung up, so `Read200` and
    `Answer`, which go through the table, cannot reach it.
  * `CdrEnrichment`: a row was made from two readings of one call (`RowOf`), whose numbers no later
    version changes (`OneCall`).
  * `KamailioRpc`: a destination nothing failed or crossed is as one operation left it
    (`Settled`).  An operation that waits reads its own response, as no more responses are
    left on the connection than there are operations waiting on it (`Replied`); one whose command
    was lost on a broken connection can only fail, since nobody dials another while it waits
    (`Dead`).
  * `DailyFigures`: what a refresh has counted is no more than there is when it stores it
    (`RefresherSound`), as records are never taken back; a day whose figures no refresh has
    overwritten has those of its records (`DayAgrees`).
  * `EslListeners`: what a registrant remembers of its number and what the table says of that
    number agree, for keys that nobody else has contested (`TableSound`); an event's calls are
    counted once for each listener it is due to (`CallSound`).
  * `LogPipeline`: `AlertsAlwaysEarned`, the part of `LogsAgree` about alerts, needs that a rule's
    window holds only errors that its condition names (`WindowSound`).  `LogsAlwaysAgree` is the
    whole: the entries are in the order of their ids (`EntriesSound`), and a slice of the index has
    each of them as often as it has the key, in that order (`IndexSound`); so a query through a
    tenant's or a level's slice and a walk over the entries filter two sequences with the
    same entries in the same order, and are equal (`SameAnswers`).  A report under way knows how
    many entries came since it counted (`ReportsSound`).  `LogAssumption` says that a tenant's key
    (a UUID) is not one of a level or a tag (which have a prefix).
  * `SdpDescription`: `DescriptionAlwaysKept`.  Its invariant `SdpInv` only says that the
    description is one (`Descs`); what has to be proved is about the operators, and holds of every
    description.  `ReadsAgain`: the text `String` writes takes the parser, line by line, from the
    blank description through the header (`TextRuns`) and each of the sections (`SectionsRun`) to
    the normal form, or to an error at the first section without formats (`SectionsRefused`).
    `Run(d, lines, e)` says that lines take the description `d` to `e`; runs are put together as
    texts are (`RunBoth`, `RunFlattened`).  `CodecsFound` is the same for `ReplaceCodecs` and
    `GetCodecs`.
  * Lists.  `Only`, `Reads`, `RemovedTimes` and the community modules' `FlattenSeq` are recursive
    functions.  The induction theorems of the library cannot be used here, so
    `RecursionExists` shows that such a function is there, and `Upto` that what its steps keep
    holds of all its values: both by the least number that would be a counterexample (`NatMin`).
    `OnlyFacts` says what a filter keeps, and from which places.

Three statements were corrected after a proof of them failed: `OrderKept`, `ConnAssumption`
and, in `EslConn`, `ResponsesInOrder`, which is now about positions in the line.  A fourth
proof found the model unlike the code: it took all occurrences of an entry out of a slice of the
log's index at once, where `removeEntryFromSlice` takes out the first.

Every invariant that a passing run checks is proved.  Only model-checked: what the provers cannot
reach.  Liveness under fairness and `ENABLED` are outside of what they do, so the liveness halves
of the two refinements, `ManagerSettles`, `PushesEnd`, `HealthCallsEnd` and the other temporal
properties that promise something will happen are TLC's; and so are the violation runs.

## 6. Divergences between code and documents

With a run: see the violation runs above; `PROJECT.json` quotes the lines.  Without
one, found while modelling and left as notes:

* `esl-resilience/internal/esl/buffer.go:154`: a batch longer than the buffer makes
  `processBatch` slice past the end; the batch is always 100 (`BatchSize` is ignored,
  line 121), so buffers smaller than that panic, as in `buffer_test.go:69`.
  `EventsAlwaysAccounted` proves the converse: with a batch no longer than the buffer the
  panic cannot happen.
* `buffer.go:58`: an `Enqueue` that found the channel full and waits for the lock while the
  background goroutine empties everything into the slice drops an event of a slice that could
  by then take its own; `OrderKept` allows for it.
* `buffer.go:60`: "drop oldest event" drops the head of the stored slice, which need
  not be the oldest event held.
* `esl/client.go:113`: failed connects never count towards the breaker ("Opens after 5
  consecutive failures", README:207).
* `esl/client.go:364`: `IsConnected` is true for a connection that died; line 228
  subscribes to `CHANNEL_CREATE` only.
* `esl/event_reader.go:49`: `textproto` canonicalises `Unique-ID` to `Unique-Id`, so
  `HandleEvent` finds no UUID in an event off the wire.  The model of the call machine
  starts from events that have one, as the tests do.
* `state/machine.go:98`: `CHANNEL_CREATE` on an ended call does nothing, though the table has
  an entry for it (`state_machine_init.go:71`); `machine.go:82`: a repeated, refused
  `CHANNEL_ANSWER` still moves the answer time.
* `rtpengine-media/internal/session/manager.go:367`: cleanup deletes at RTPengine by call
  id, later, and so may delete the session of a new offer; `SessionsAgree` speaks only of
  calls whose operations did not overlap.  `metrics/collector.go:114`: the active gauge
  counts calls, not sessions, and can go below zero.
* `rtpengine-media/internal/ng/client.go:99`: the goroutine of `Close` closes the channels of
  waiting Sends while the reader may be between its lookup and its send to one of them, and
  a send on a closed channel panics.  The model keeps this (`crash`); `NothingHangs` says
  what holds up to it.
* `freeswitch-cdr/main.go:47` and `internal/service/service.go:41`: the service blocks on
  `select {}` for ever, also after its connection is gone.
* `voip-push/internal/push/orchestrator.go:169`: a token refreshed in place while a push
  is under way is disabled for what its predecessor was refused for, and nothing but a new
  registration enables the device again; an invalid token is retried like any error, and
  only the last attempt's error counts; Android devices are never disabled, though the
  README promises it of "Invalid tokens"; pushes and retries go on after `Close`.
* `voip-push/internal/device/manager.go:179`: an empty VoIP token is filed in the token
  map and never taken back, so `TokensExact` speaks of real tokens only.
* `webrtc-gateway`: `Server.Close` is never called by `cmd/main.go`; translator sessions are
  never the ones signaling names.
* `webrtc-gateway/internal/sip/translator.go:280`: "Send SIP BYE to terminate the call" goes out
  under a Call-ID and tags of its own (line 389), as does the 200 of `Answer`, so no dialog at
  the far end matches; a leg that was set up just after the hang-up stays up.  A 486, a 480 or
  a timeout ends the goroutine and leaves the session "inviting" for good (lines 195, 233, 236),
  other refusals are waited out, and refusals are not acknowledged.  `Register` keeps the
  credentials of a user's first registration.
* `esl-resilience/internal/cdr/repository.go:53`: `CreateCDR` and `AddMetadata` need columns and a
  key that the shipped table does not have, so both fail on it; the model has both tables
  (`complete`).  An answer or a hang-up handled before its CREATE changes no row, and the
  call stays listed as active.
* `cdr/tenant_repository.go:120`: creating a record that exists hands it to the caller's tenant;
  its notes stay with the tenant that made them.
* `tenant/repository.go:29`: `Initialize` fails when it is run twice, as its trigger exists; line 351:
  the percentages of an empty table are not numbers.  The table and the manager in memory are
  not kept in step by anything.
* `tenant/manager.go:188`: names and domains are unique at creation, and an update may take one
  over.
* `auth/rate_limiter.go:77`: the "sliding window" is renewed by refused requests too.
  `auth/session_manager.go`: the lock is a nil pointer, so every operation of a session panics.
  `auth/middleware.go:32`: the key map has no lock, and revoking needs the key's hash.  `server.go` makes
  an authenticator and serves no route with it.
* `monitoring/alert_manager.go:246`: the time a condition became true is not forgotten when it
  becomes false or its rule is removed, so a blip may fire at once.  The default rules name
  metrics that do not exist and never fire.
* `monitoring/health_checker.go:95`: a writer between the two read locks of `GetStats` stops the
  health checker for good (`Jammed` in `HealthCallsEnd`).  `health_checks.go`: the database check
  panics, as it takes an `int` for an `int64`.  `call_tracking.go:10`: a new call overwrites the time of
  the last connection, from which uptimes are taken.
* `logging/analytics.go:246`: a health report reads the log twice and may count more errors than
  entries.  An alert window ends at the instant it begins.
* `freeswitch-cdr/internal/esl/connection.go:153`: two listeners of one key may get one number, and
  the first is replaced; `EventsReachListeners` speaks of listeners that had their key to
  themselves.
* `multi-tenant-cdr/sql/schema.sql`: the trigger that should create a month's partition fails, so only
  days of the listed months get records; the peak hour stays NULL, so `GetDailyAnalytics` skips every
  row; nothing fills the hourly table.  `internal/cdr/repository.go` names columns that are not there.
  `analytics/engine.go:406`: records committed while a refresh runs vanish from the figures until
  the next one.
* `multi-tenant-cdr/internal/reports/generator.go:100`: the error of the last update is ignored, and a
  row whose update was lost stays "generating".
* `multi-tenant-cdr/internal/enrichment/pipeline.go:227`: storing a row again keeps the indicators
  and flags of the first reading.
* `rtpengine-media/internal/sdp/parser.go`: a description without an origin, or whose codecs were
  replaced by none, is written as a text that `Parse` refuses; channels are dropped, and a time to
  live moves into the address.
* `kamailio-router/rpc/kamailio.go:46`: the first command leaves a closed connection behind, and every
  later one fails after the table was changed; reads have no deadline; `database.go:169` names a
  conflict on a column without a unique key, so the row of a health check is never stored.
* `wireguard-voip`: nothing brings the tunnel up or calls `UpdateStats`; `wg/service.go:225` counts in
  the last byte of the subnet whatever its size, so a subnet smaller than a /24 gives out addresses
  that are not in it.
* `amd-system/cmd/main.go:236`: two requests may complete a session one after the other and route it
  in the other order.

## 7. Plan, and what is not modelled

Done: the modules above.  Left:

1. **`esl-resilience/internal/tenant/repository.go`** and the listings of the two record repositories,
   as operators over the tables of `TenantRecords`.
2. **`webrtc-gateway/internal/media/rtpengine.go`** as a second implementation of `RequestReply`.

Invariants are written as conjunctions of named parts, so that they can be strengthened into
inductive ones.  No module uses a RECURSIVE operator.

Not modelled, with reasons:

* The API of `multi-tenant-cdr`: handlers without state that check a token and make one call of
  a modelled part; listings and call patterns: single queries, with nothing to interleave.
* The session manager of `auth`: every operation panics on its nil lock.
* Prometheus collectors and health endpoints: no decision depends on them.
* Wire syntax (ESL frames, bencode, SIP headers): abstracted to what it carries; of SDP, the
  fields the parser takes apart are modelled.
* The ESL outbound servers: nothing in the repository starts one.
* The carrier and route handlers of `kamailio-router`: one statement each on tables that
  Kamailio reads by itself.
* APNs and FCM senders, and the call of the classifier: one HTTP request each, whose answers
  the models choose freely.
* The Python classifier: training and inference of a statistical model.
* `webrtc-gateway/internal/webrtc`: a wrapper of the pion library.
* `webrtc-gateway/internal/media`: a second NG client with the structure of the modelled one; `main`
  creates and closes it, and no request uses it.
