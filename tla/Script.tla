------------------------------- MODULE Script -------------------------------
(***************************************************************************)
(* internal/lua on top of internal/mqtt (module MqttClient).  There is one *)
(* interpreter, under the lock mu: the goroutines of miio take it for the  *)
(* hooks miio_request and miio_response, and the MQTT worker for           *)
(* mosquitto_sub, which is given every message.  A script that calls       *)
(* mosquitto_pub waits for room in the MQTT queue with the lock in hand;   *)
(* the worker that waits for the lock does not empty Incoming, and a       *)
(* reader that waits for room in Incoming does not notice that the broker  *)
(* is gone.                                                                *)
(*                                                                         *)
(* Here the handler that MqttClient calls replies is mosquitto_sub.  What  *)
(* the script makes of a message is left to module Router.                 *)
(***************************************************************************)
EXTENDS MqttClient

CONSTANT
    LossWithSub \* the broker may go away though there is a mosquitto_sub

ASSUME ScriptAssumption == LossWithSub \in BOOLEAN

VARIABLES
    mu,         \* who holds the lock: a member of Publishers, Sub, or Nobody
    hook        \* each publisher, here a goroutine with a message for a hook:
                \* idle, waits, runs, or published in this run

Nobody == "nobody"
Sub == "mosquitto_sub"

scriptVars == <<vars, mu, hook>>

ScriptInit ==
    /\ Init
    /\ mu = Nobody
    /\ hook = [h \in Publishers |-> "idle"]
-----------------------------------------------------------------------------
(***************************************************************************)
(* A hook: mu.Lock, L.Call, mu.Unlock.                                     *)
(***************************************************************************)
Goes(h, at) == hook' = [hook EXCEPT ![h] = at]

\* A message for the hook.
HookWaits(h) ==
    /\ hook[h] = "idle"
    /\ Goes(h, "waits")
    /\ UNCHANGED <<vars, mu>>

HookEnters(h) ==
    /\ hook[h] = "waits" /\ mu = Nobody
    /\ mu' = h
    /\ Goes(h, "runs")
    /\ UNCHANGED vars

\* The script runs and is not in mosquitto_pub.
Runs(h) == hook[h] \in {"runs", "published"} /\ pub[h].at = "idle"

\* mosquitto_pub: one message in a run of the script.
HookPublishes(h) ==
    \/ hook[h] = "runs" /\ Check(h) /\ Goes(h, "published") /\ UNCHANGED mu
    \/ (Grab(h) \/ Publish(h)) /\ UNCHANGED <<mu, hook>>

\* L.Call and not PCall: an error in the script ends the process.
HookFails(h) ==
    /\ Runs(h)
    /\ panicked' = TRUE
    /\ UNCHANGED <<cc, conn, online, pc, receipt, pub, modes, mu, hook>>

\* Fault: a hook that returns nothing returns without mu.Unlock.
HookLeavesLocked(h) ==
    /\ Runs(h)
    /\ mu' = IF hook[h] = "published" THEN Nobody ELSE mu
    /\ Goes(h, "idle")
    /\ UNCHANGED vars

\* What the script returned is taken off the stack; both ways out unlock.
HookLeaves(h) ==
    /\ Runs(h)
    /\ mu' = Nobody
    /\ Goes(h, "idle")
    /\ UNCHANGED vars

Hook(h) == ~panicked /\ (HookWaits(h) \/ HookEnters(h) \/ HookPublishes(h) \/ HookFails(h) \/ HookLeaves(h))
-----------------------------------------------------------------------------
(***************************************************************************)
(* mosquitto_sub, which the worker calls for every message.                *)
(***************************************************************************)
SubEnters ==
    /\ pc = "handler" /\ mu = Nobody
    /\ mu' = Sub
    /\ UNCHANGED <<vars, hook>>

SubRuns ==
    /\ mu = Sub /\ pc = "handler"
    /\ \/ WorkerPublish("handler", "range")
       \/ /\ pc' = "range"
          /\ UNCHANGED <<cc, conn, online, receipt, pub, panicked, modes>>
    /\ UNCHANGED <<mu, hook>>

SubLeaves ==
    /\ mu = Sub /\ pc = "range"
    /\ mu' = Nobody
    /\ UNCHANGED <<vars, hook>>

\* The rest of the worker, which comes by no message without the script.
WorkerOutside ==
    /\ mu # Sub /\ pc # "handler"
    /\ Worker
    /\ replies /\ pc = "range" => pc' # "range"
    /\ UNCHANGED <<mu, hook>>

ScriptNext ==
    \/ ~panicked /\ (WorkerOutside \/ SubEnters \/ SubRuns \/ SubLeaves)
    \/ \E h \in Publishers : Hook(h)
    \/ \E g \in DOMAIN cc :
          /\ \/ Reader(g) \/ Writer(g) \/ Broker(g)
             \/ ~panicked /\ Traffic(g)
             \/ ~panicked /\ (replies => LossWithSub) /\ Loss(g)
          /\ UNCHANGED <<mu, hook>>

\* As in MqttClient; a goroutine that waits for the lock gets it in the end (a
\* sync.Mutex is handed over to who waited a millisecond).
ScriptFairness ==
    /\ WF_scriptVars(~panicked /\ WorkerOutside) /\ SF_scriptVars(~panicked /\ SubEnters)
    /\ WF_scriptVars(~panicked /\ SubRuns) /\ WF_scriptVars(~panicked /\ SubLeaves)
    /\ \A g \in Dials :
          /\ WF_scriptVars(Reader(g) /\ UNCHANGED <<mu, hook>>)
          /\ WF_scriptVars(Writer(g) /\ UNCHANGED <<mu, hook>>)
          /\ WF_scriptVars(Broker(g) /\ UNCHANGED <<mu, hook>>)
    /\ \A h \in Publishers :
          /\ WF_scriptVars(~panicked /\ Grab(h) /\ UNCHANGED <<mu, hook>>)
          /\ SF_scriptVars(~panicked /\ Publish(h) /\ UNCHANGED <<mu, hook>>)
          /\ SF_scriptVars(~panicked /\ HookEnters(h))
          /\ WF_scriptVars(~panicked /\ HookLeaves(h))

ScriptSpec == ScriptInit /\ [][ScriptNext]_scriptVars /\ ScriptFairness
-----------------------------------------------------------------------------
\* A message that a miio goroutine takes to the script comes back from it, or the
\* process is gone: waiting for room in the MQTT queue with the script's lock
\* held, while the worker waits for that lock, closes no circle as long as the
\* broker stays (lua.go:53-62, 68-82, mqtt.go:155-180, pkg/mqtt/mqtt.go:766-775).
HooksReturn == \A h \in Publishers : hook[h] = "waits" ~> (hook[h] = "idle" \/ panicked)
=============================================================================
