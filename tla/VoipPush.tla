------------------------------- MODULE VoipPush -------------------------------
(***************************************************************************)
(* Incoming call pushes of voip-push (internal/push/orchestrator.go) over  *)
(* the device registry.  SendIncomingCallPush looks the device up once and *)
(* keeps the pointer through all its attempts.  Every attempt starts a     *)
(* goroutine that reads the token off the object and asks APNs or FCM; the *)
(* attempt waits for its answer or for a timeout, which leaves the         *)
(* goroutine running; a Close only makes the timeouts come at once.  After *)
(* the last attempt an answer that says the token is invalid disables an   *)
(* iOS device.                                                             *)
(*                                                                         *)
(* The object is read and written by these goroutines without the lock of  *)
(* the manager.  Both services are configured, as SendIncomingCallPush     *)
(* returns an error at once without the one it needs.                      *)
(***************************************************************************)
EXTENDS DeviceManager

CONSTANTS
  Pushes,      \* calls of SendIncomingCallPush
  RetryCount   \* retries after the first attempt (3)

ASSUME PushAssumption == RetryCount \in Nat /\ Pushes \cap Nat = {}

VARIABLES
  at,        \* where the push is: "idle", "waiting", "sleeping", "judging", "done"
  target,    \* dev: the registration it looked up
  attempt,   \* i: its current attempt
  lastErr,   \* "none", "error" (a timeout too) or "invalid token"
  send,      \* the goroutines: [state, token, reply] of each attempt
  refused    \* history: registrations with a token that APNs called invalid

pushes == <<at, target, attempt, lastErr, send, refused>>
vars == <<registry, pushes>>

Attempts == 0 .. RetryCount
NotSent == [state |-> "none", token |-> NoToken, reply |-> "none"]

Init ==
  /\ RegistryInit
  /\ at = [p \in Pushes |-> "idle"] /\ target = [p \in Pushes |-> None]
  /\ attempt = [p \in Pushes |-> 0] /\ lastErr = [p \in Pushes |-> "none"]
  /\ send = [p \in Pushes |-> [i \in Attempts |-> NotSent]]
  /\ refused = {}

(* Attempt i: its goroutine is started and its timer runs. *)
Launch(p, i) ==
  /\ attempt' = [attempt EXCEPT ![p] = i]
  /\ send' = [send EXCEPT ![p][i].state = "started"]
  /\ at' = [at EXCEPT ![p] = "waiting"]

(* SendIncomingCallPush: an error at once for a user without a device, a   *)
(* disabled device, or an iOS device without a VoIP token.                 *)
Sendable(r) ==
  device[r].enabled /\ (device[r].platform = "ios" => device[r].voip # NoToken)

StartPush(p, u) ==
  /\ at[p] = "idle"
  /\ IF Registered(u) /\ Sendable(devices[u])
       THEN Launch(p, 0) /\ target' = [target EXCEPT ![p] = devices[u]]
       ELSE at' = [at EXCEPT ![p] = "done"] /\ UNCHANGED <<target, attempt, send>>
  /\ UNCHANGED <<registry, lastErr, refused>>

(* The goroutine reads the token when it gets to run, and sends. *)
ReadTokenPush(p, i) ==
  /\ send[p][i].state = "started"
  /\ send' = [send EXCEPT ![p][i].state = "sent", ![p][i].token = device[target[p]].push]
  /\ UNCHANGED <<registry, at, target, attempt, lastErr, refused>>
ReadToken(p, i) ==
  /\ send[p][i].state = "started"
  /\ LET d == device[target[p]]
     IN send' = [send EXCEPT ![p][i].state = "sent",
                             ![p][i].token = IF d.platform = "ios" THEN d.voip ELSE d.push]
  /\ UNCHANGED <<registry, at, target, attempt, lastErr, refused>>

(* APNs or FCM answers, or the request fails; an answer that its attempt   *)
(* no longer waits for stays in the channel.  Only APNs says which tokens  *)
(* are invalid: sendAndroidPush does not ask for the reason.               *)
Answer(p, i) ==
  /\ send[p][i].state = "sent"
  /\ \E reply \in {"ok", "error", "invalid token"} :
       /\ reply = "invalid token" =>
            device[target[p]].platform = "ios" /\ send[p][i].token # NoToken
       /\ send' = [send EXCEPT ![p][i] =
                      [state |-> "answered", token |-> NoToken,
                       reply |-> IF at[p] = "waiting" /\ attempt[p] = i THEN reply ELSE "none"]]
       /\ refused' = IF reply = "invalid token" THEN refused \cup {target[p]} ELSE refused
  /\ UNCHANGED <<registry, at, target, attempt, lastErr>>

(* The select of an attempt.  A failed one is followed by the retry delay, *)
(* the last one by the look at the error.                                  *)
Failed(p, err) ==
  /\ lastErr' = [lastErr EXCEPT ![p] = err]
  /\ at' = [at EXCEPT ![p] = IF attempt[p] < RetryCount THEN "sleeping" ELSE "judging"]

TakeAnswer(p) ==
  /\ at[p] = "waiting" /\ send[p][attempt[p]].state = "answered"
  /\ LET reply == send[p][attempt[p]].reply
     IN IF reply = "ok"
          THEN at' = [at EXCEPT ![p] = "done"] /\ UNCHANGED lastErr
          ELSE Failed(p, reply)
  /\ UNCHANGED <<registry, target, attempt, send, refused>>

TimeOutAnswered(p) ==
  /\ at[p] = "waiting" /\ send[p][attempt[p]].state = "answered"
  /\ Failed(p, "error")
  /\ UNCHANGED <<registry, target, attempt, send, refused>>
TimeOut(p) ==
  /\ at[p] = "waiting"
  /\ Failed(p, "error")
  /\ UNCHANGED <<registry, target, attempt, send, refused>>

Retry(p) ==
  /\ at[p] = "sleeping"
  /\ Launch(p, attempt[p] + 1)
  /\ UNCHANGED <<registry, target, lastErr, refused>>

(* The end of sendIOSPush and sendAndroidPush: dev.Enabled is written on   *)
(* the object that was looked up when the push began.                      *)
Judge(p) ==
  /\ at[p] = "judging"
  /\ at' = [at EXCEPT ![p] = "done"]
  /\ device' = IF device[target[p]].platform = "ios" /\ lastErr[p] = "invalid token"
                 THEN [device EXCEPT ![target[p]].enabled = FALSE]
                 ELSE device
  /\ UNCHANGED <<devices, tokens, used, updates, held, target, attempt, lastErr, send, refused>>

Next ==
  \/ RegistryNext /\ UNCHANGED pushes
  \/ \E p \in Pushes :
       \/ \E u \in Users : StartPush(p, u)
       \/ \E i \in Attempts : ReadToken(p, i) \/ Answer(p, i)
       \/ TakeAnswer(p) \/ TimeOut(p) \/ Retry(p) \/ Judge(p)

(* The caller of a push runs and its timers fire; APNs and FCM owe nothing.*)
Spec ==
  /\ Init /\ [][Next]_vars
  /\ \A p \in Pushes : WF_vars(TakeAnswer(p) \/ TimeOut(p) \/ Retry(p) \/ Judge(p))

-----------------------------------------------------------------------------
(* Types, and where the goroutines of an attempt can be. *)
TypeOK ==
  /\ RegistryTypeOK
  /\ at \in [Pushes -> {"idle", "waiting", "sleeping", "judging", "done"}]
  /\ target \in [Pushes -> Regs \cup {None}] /\ attempt \in [Pushes -> Attempts]
  /\ lastErr \in [Pushes -> {"none", "error", "invalid token"}]
  /\ send \in [Pushes -> [Attempts -> [state : {"none", "started", "sent", "answered"},
                                       token : TokenOrNot,
                                       reply : {"none", "ok", "error", "invalid token"}]]]
  /\ refused \subseteq Regs
  /\ \A p \in Pushes, i \in Attempts :
       send[p][i].state # "none" <=> target[p] # None /\ i <= attempt[p]

(* Only a registration one of whose own tokens APNs called invalid is      *)
(* disabled: a push that began before the user registered anew does not    *)
(* reach the new registration, whenever its answers come.                  *)
DisabledWasRefused ==
  \A r \in 1 .. used : ~device[r].enabled => r \in refused

(* A push for a user only rings devices by tokens that were stored for     *)
(* that user, and for that kind of push, although the tokens of its target *)
(* may change under it and other users may take them over.                 *)
RingsOwnDevice ==
  \A p \in Pushes, i \in Attempts :
    send[p][i].token # NoToken =>
      LET d == device[target[p]]
      IN <<d.user, IF d.platform = "ios" THEN "voip" ELSE "push">> \in held[send[p][i].token]

(* Every push ends, whether or not APNs and FCM ever answer. *)
PushesEnd == \A p \in Pushes : at[p] # "idle" ~> at[p] = "done"

(* A push is sound, however long its attempts outlive the registration it  *)
(* began with: it disables only what was refused, and rings only devices   *)
(* by tokens of its user.                                                  *)
PushesSound == TypeOK /\ DisabledWasRefused /\ RingsOwnDevice
=============================================================================
