----------------------------- MODULE EslListeners -----------------------------
(***************************************************************************)
(* The listeners of the ESL library (internal/esl of multi-tenant-cdr and  *)
(* of freeswitch-cdr, the same files) and the CDR service on top of them.  *)
(*                                                                         *)
(* A listener is registered under a key: ALL, the id of a call or of a     *)
(* job.  dispatchEvent starts a goroutine for every listener under a key   *)
(* of the event, so listeners run late, at once and in any order, also     *)
(* after their removal.  The service's own listener is registered under    *)
(* ALL when it starts, and stays; it stores one record per hang-up event.  *)
(* What an event says beyond its ids is left out.                          *)
(***************************************************************************)
EXTENDS Naturals, FiniteSets

CONSTANTS
  Ids,        \* ids of calls and jobs
  All,        \* the key that stands for every event
  Listeners,  \* listeners: each is registered once
  Service,    \* the listener of the CDR service
  Events,     \* hang-up events
  NoId        \* a header the event does not have; no record

ASSUME ListenersAssumption ==
  Service \in Listeners /\ All \notin Ids \cup {NoId} /\ NoId \notin Ids \cup Events

VARIABLES
  listeners,  \* c.eventListeners: by key, the listener of each number in use; the keys never go
  held,       \* what each listener's owner has: nothing, its key and number, or that it left
  contested,  \* history: keys that two listeners were registered under at once
  service,    \* Start: "new", "enabling", "listening", "failed"; "gone" when the process exits
  event,      \* the ids each event came with, once it came
  due,        \* history: listeners registered when the event was dispatched
  running,    \* goroutines that run a listener: how many for a listener and an event
  calls,      \* history: how often a listener was started for an event
  cdr,        \* the table cdr: for each call the event its record was made from
  unsaved     \* history: events whose record could not be saved

eslListenersVars == <<listeners, held, contested, service, event, due, running, calls, cdr, unsaved>>

Keys == Ids \cup {All}
Number == Nat \ {0}
Unheld == [at |-> "none", key |-> All, number |-> 1]
NoListener == [n \in {} |-> Service]
Registered(k) == {l \in Listeners : held[l].at = "live" /\ held[l].key = k}

EslListenersInit ==
  /\ listeners = [k \in {} |-> NoListener]
  /\ held = [l \in Listeners |-> Unheld] /\ contested = {}
  /\ service = "new"
  /\ event = [e \in Events |-> [came |-> FALSE, call |-> NoId, app |-> NoId]]
  /\ due = [e \in Events |-> {}]
  /\ running = [l \in Listeners |-> [e \in Events |-> 0]] /\ calls = running
  /\ cdr = [i \in Ids |-> NoId] /\ unsaved = {}

Put(f, x, y) == [z \in DOMAIN f \cup {x} |-> IF z = x THEN y ELSE f[z]]
Without(f, x) == [z \in DOMAIN f \ {x} |-> f[z]]

-----------------------------------------------------------------------------
(* RegisterEventListener: the number counts the keys, not the listeners,   *)
(* before a new key is added.                                              *)
RegisterEventListener(l, k) ==
  LET number == Cardinality(DOMAIN listeners) + 1
      under == IF k \in DOMAIN listeners THEN listeners[k] ELSE NoListener
  IN /\ held[l].at = "none"
     /\ listeners' = Put(listeners, k, Put(under, number, l))
     /\ held' = [held EXCEPT ![l] = [at |-> "live", key |-> k, number |-> number]]
     /\ contested' = IF Registered(k) = {} THEN contested ELSE contested \cup {k}

(* RemoveEventListener, by the key and the number that were returned.      *)
RemoveEventListener(l) ==
  LET h == held[l] IN
  /\ h.at = "live"
  /\ listeners' = [listeners EXCEPT ![h.key] = Without(@, h.number)]
  /\ held' = [held EXCEPT ![l].at = "left"]

Join(l, k) ==
  /\ l # Service /\ RegisterEventListener(l, k)
  /\ UNCHANGED <<service, event, due, running, calls, cdr, unsaved>>
Leave(l) ==
  /\ l # Service /\ RemoveEventListener(l)
  /\ UNCHANGED <<contested, service, event, due, running, calls, cdr, unsaved>>

(* Service.Start: the listener first, then the subscription; if FreeSWITCH *)
(* refuses it, the deferred removal runs.  It never returns after that.    *)
StartService ==
  /\ service = "new"
  /\ RegisterEventListener(Service, All)
  /\ service' = "enabling"
  /\ UNCHANGED <<event, due, running, calls, cdr, unsaved>>
EnableEvents ==
  /\ service = "enabling"
  /\ \/ service' = "listening" /\ UNCHANGED <<listeners, held>>
     \/ service' = "failed" /\ RemoveEventListener(Service)
  /\ UNCHANGED <<contested, event, due, running, calls, cdr, unsaved>>

-----------------------------------------------------------------------------
(* The goroutines an event starts: for ALL, for its call and for its       *)
(* application or job, which app stands for, each only if it has the id.   *)
StartsNearest(l, ids) ==
  LET Under(k) == IF k \in DOMAIN listeners /\ \E n \in DOMAIN listeners[k] : listeners[k][n] = l
                  THEN 1 ELSE 0
  IN IF ids.call \in DOMAIN listeners THEN Under(ids.call) + Under(ids.app) ELSE Under(All)
Starts(l, ids) ==
  LET Under(k) == IF k \in DOMAIN listeners /\ \E n \in DOMAIN listeners[k] : listeners[k][n] = l
                  THEN 1 ELSE 0
  IN Under(All) + Under(ids.call) + Under(ids.app)
DispatchEvent(e, call, app) ==
  LET ids == [came |-> TRUE, call |-> call, app |-> app]
  IN /\ ~event[e].came /\ service # "gone"
     /\ event' = [event EXCEPT ![e] = ids]
     /\ due' = [due EXCEPT ![e] = {l \in Listeners : held[l].at = "live"
                                                     /\ held[l].key \in {All, call, app}}]
     /\ running' = [l \in Listeners |-> [running[l] EXCEPT ![e] = Starts(l, ids)]]
     /\ calls' = [l \in Listeners |-> [calls[l] EXCEPT ![e] = Starts(l, ids)]]
     /\ UNCHANGED <<listeners, held, contested, service, cdr, unsaved>>

(* A listener runs and returns.  The service's stores the record, which    *)
(* does nothing if the call has one, or fails.                             *)
RunListener(l, e) ==
  /\ running[l][e] > 0 /\ service # "gone"
  /\ running' = [running EXCEPT ![l][e] = @ - 1]
  /\ \/ l # Service /\ UNCHANGED <<cdr, unsaved>>
     \/ /\ l = Service
        /\ cdr' = [cdr EXCEPT ![event[e].call] = IF @ = NoId THEN e ELSE @]
        /\ UNCHANGED unsaved
     \/ l = Service /\ unsaved' = unsaved \cup {e} /\ UNCHANGED cdr
  /\ UNCHANGED <<listeners, held, contested, service, event, due, calls>>

(* main returns on a signal; the goroutines end where they are.            *)
Exit ==
  /\ service # "gone"
  /\ service' = "gone"
  /\ unsaved' = unsaved \cup {e \in Events : running[Service][e] > 0}
  /\ UNCHANGED <<listeners, held, contested, event, due, running, calls, cdr>>

EslListenersNext ==
  \/ \E l \in Listeners : Leave(l) \/ \E k \in Keys : Join(l, k)
  \/ StartService \/ EnableEvents
  \/ \E e \in Events, call \in Ids, app \in Ids \cup {NoId} : DispatchEvent(e, call, app)
  \/ \E l \in Listeners, e \in Events : RunListener(l, e)
  \/ Exit

EslListenersSpec == EslListenersInit /\ [][EslListenersNext]_eslListenersVars

-----------------------------------------------------------------------------
EslListenersTypeOK ==
  /\ DOMAIN listeners \subseteq Keys
  /\ \A k \in DOMAIN listeners : DOMAIN listeners[k] \subseteq Number
  /\ held \in [Listeners -> [at : {"none", "live", "left"}, key : Keys, number : Number]]
  /\ contested \subseteq Keys
  /\ service \in {"new", "enabling", "listening", "failed", "gone"}
  /\ \A l \in Listeners, e \in Events : running[l][e] \in 0 .. calls[l][e]
  /\ cdr \in [Ids -> Events \cup {NoId}] /\ unsaved \subseteq Events

(* A listener that has had its key to itself is called once for every      *)
(* event of that key dispatched while it is registered, though numbers are *)
(* given out again and listeners of other keys come and go.  (One under    *)
(* the key an event has as both its ids is called twice.)                  *)
ListenersCalled ==
  \A e \in Events, l \in Listeners :
    /\ l \in due[e] /\ held[l].key \notin contested /\ event[e].call # event[e].app => calls[l][e] = 1
    /\ calls[l][e] > 0 => l \in due[e]
(* Every hang-up the service was registered for is on record when its      *)
(* goroutine is done, unless saving failed or the process ended first; a   *)
(* record is of its own call.                                              *)
HangupsRecorded ==
  /\ \A e \in Events : Service \in due[e] /\ All \notin contested =>
       running[Service][e] > 0 \/ e \in unsaved \/ cdr[event[e].call] # NoId
  /\ \A i \in Ids : cdr[i] # NoId => event[cdr[i]].call = i /\ Service \in due[cdr[i]]

EventsReachListeners == EslListenersTypeOK /\ ListenersCalled /\ HangupsRecorded
=============================================================================
