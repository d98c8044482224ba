------------------------- MODULE KafkaProducerClient -------------------------
(***************************************************************************)
(* KafkaProducerClient: the connection of the one producer.  At startup it *)
(* probes the broker and connects; after a failure a watchdog probes it    *)
(* every 30 seconds and reconnects on the third success in a row.  A       *)
(* failed publish asks for a health check, which may drop the connection.  *)
(*                                                                         *)
(* An action is the code from one await to the next.  A tick of the        *)
(* watchdog is over before the next is due (the probe times out after a    *)
(* second, connect() after a few), so one tick is under way at most.       *)
(***************************************************************************)
EXTENDS Naturals

VARIABLES
  isConnected,
  producerDog,   \* watchdogTimer is set
  streak,        \* consecutiveSuccessCount
  tick,          \* where the watchdog's tick stands
  initial,       \* where initialConnect stands
  healthChecks,  \* calls of triggerHealthCheck awaiting their probe
  brokerUp       \* the broker accepts connections

connection == <<isConnected, producerDog, streak, tick, initial, healthChecks>>

Threshold == 3

TypeOK ==
  /\ isConnected \in BOOLEAN
  /\ producerDog \in BOOLEAN
  /\ streak \in 0..(Threshold - 1)
  /\ tick \in {"idle", "probing", "connecting"}
  /\ initial \in {"new", "probing", "connecting", "done"}
  /\ healthChecks \in Nat

Init ==
  /\ isConnected = FALSE
  /\ producerDog = FALSE
  /\ streak = 0
  /\ tick = "idle"
  /\ initial = "new"
  /\ healthChecks = 0

-----------------------------------------------------------------------------

StartWatchdog ==
  /\ producerDog' = TRUE
  /\ streak' = IF producerDog THEN streak ELSE 0

OnModuleInit ==
  /\ initial = "new"
  /\ initial' = "probing"
  /\ UNCHANGED <<isConnected, producerDog, streak, tick, healthChecks>>

\* initialConnect(): a broker that does not answer, now or to connect(),
\* leaves the reconnection to the watchdog.
InitialFails ==
  /\ initial \in {"probing", "connecting"}
  /\ ~ brokerUp
  /\ initial' = "done"
  /\ isConnected' = FALSE
  /\ StartWatchdog
  /\ UNCHANGED <<tick, healthChecks>>

InitialProbeSucceeds ==
  /\ initial = "probing"
  /\ brokerUp
  /\ initial' = "connecting"
  /\ UNCHANGED <<isConnected, producerDog, streak, tick, healthChecks>>

InitialConnects ==
  /\ initial = "connecting"
  /\ brokerUp
  /\ initial' = "done"
  /\ isConnected' = TRUE
  /\ UNCHANGED <<producerDog, streak, tick, healthChecks>>

DogFires ==
  /\ producerDog /\ tick = "idle"
  /\ tick' = "probing"
  /\ UNCHANGED <<isConnected, producerDog, streak, initial, healthChecks>>

\* On the third success connect() is called, and returns at once when the
\* producer is connected already; the watchdog stops when it has returned.
\* (Bug: it stops before connect() instead of after.)
DogProbeStopsFirst ==
  /\ tick = "probing"
  /\ brokerUp
  /\ streak' = (streak + 1) % Threshold
  /\ producerDog' = (producerDog /\ streak + 1 < Threshold)
  /\ tick' = IF streak + 1 < Threshold \/ isConnected THEN "idle" ELSE "connecting"
  /\ UNCHANGED <<isConnected, initial, healthChecks>>

DogProbeSucceeds ==
  /\ tick = "probing"
  /\ brokerUp
  /\ \/ /\ streak + 1 < Threshold
        /\ streak' = streak + 1
        /\ tick' = "idle"
        /\ UNCHANGED producerDog
     \/ /\ streak + 1 >= Threshold
        /\ streak' = 0
        /\ tick' = IF isConnected THEN "idle" ELSE "connecting"
        /\ producerDog' = (producerDog /\ ~ isConnected)
  /\ UNCHANGED <<isConnected, initial, healthChecks>>

DogConnects ==
  /\ tick = "connecting"
  /\ brokerUp
  /\ tick' = "idle"
  /\ isConnected' = TRUE
  /\ producerDog' = FALSE
  /\ UNCHANGED <<streak, initial, healthChecks>>

\* The probe fails or connect() rejects: the count starts again.
DogFails ==
  /\ tick # "idle"
  /\ ~ brokerUp
  /\ tick' = "idle"
  /\ streak' = 0
  /\ UNCHANGED <<isConnected, producerDog, initial, healthChecks>>

\* triggerHealthCheck(), not awaited by the publish that failed.
TriggerHealthCheck ==
  /\ healthChecks' = healthChecks + 1
  /\ UNCHANGED <<isConnected, producerDog, streak, tick, initial>>

\* (Bug: a lost connection is noted and the watchdog not armed.)
HealthCheckOnlyNotes ==
  /\ healthChecks > 0
  /\ healthChecks' = healthChecks - 1
  /\ isConnected' = (isConnected /\ brokerUp)
  /\ UNCHANGED <<producerDog, streak, tick, initial>>

HealthCheckAnswers ==
  /\ healthChecks > 0
  /\ healthChecks' = healthChecks - 1
  /\ \/ /\ ~ brokerUp /\ isConnected
        /\ isConnected' = FALSE
        /\ StartWatchdog
     \/ /\ brokerUp \/ ~ isConnected
        /\ UNCHANGED <<isConnected, producerDog, streak>>
  /\ UNCHANGED <<tick, initial>>

\* KafkaJS reports DISCONNECT: its handler in the constructor.
Disconnected ==
  /\ isConnected
  /\ isConnected' = FALSE
  /\ StartWatchdog
  /\ UNCHANGED <<tick, initial, healthChecks>>

InitialStep == InitialFails \/ InitialProbeSucceeds \/ InitialConnects
DogAnswers  == DogProbeSucceeds \/ DogConnects \/ DogFails

ClientStep ==
  \/ InitialStep
  \/ DogFires
  \/ DogAnswers
  \/ HealthCheckAnswers
  \/ Disconnected

-----------------------------------------------------------------------------

\* A producer that is not connected is never forgotten: its first connection
\* is still being made, or the watchdog is armed.
ReconnectPending == ~ isConnected => producerDog \/ initial # "done"
=============================================================================
