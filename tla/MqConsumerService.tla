-------------------------- MODULE MqConsumerService --------------------------
(***************************************************************************)
(* MqConsumerService, with the KafkaConsumerClient it drives and the       *)
(* LoggingModeService whose mode creates and destroys its consumer.        *)
(*                                                                         *)
(* startConsumer() and destroyConsumer() are async and nobody waits for    *)
(* them, so several of each can be under way: each slot of starts and of   *)
(* destroys is one call, standing at one of its awaits.  An action is the  *)
(* code from one await to the next; a rejected promise reaches its catch   *)
(* in a step of its own.  The watchdog's probe answers within a second and *)
(* its timer fires every minute, so one probe is in flight at most.        *)
(*                                                                         *)
(* Messages are left out: whether destroyConsumer() finds a batch to flush *)
(* is a choice.  isRunning is written and never read, so it is left out.   *)
(***************************************************************************)
EXTENDS Naturals

CONSTANTS
  Consumers,   \* instances of the KafkaJS Consumer; a dropped one is reused
  None,        \* null
  Slots        \* calls of startConsumer, and of destroyConsumer, under way

ASSUME ConsumersAssumption == None \notin Consumers

VARIABLES
  mode,        \* LoggingModeService.mode
  startup,     \* the application: new, starting (onModuleInit), up
  consumer,    \* MqConsumerService.consumer
  held,        \* KafkaConsumerClient.consumer
  starts, destroys,
  reading,     \* consumers whose fetch loop runs
  watchdog,    \* watchdogTimer is set
  probing,     \* a checkBrokerAvailability of the watchdog is in flight
  successes,   \* consecutiveSuccessCount
  brokerUp     \* the broker accepts connections

instances == <<consumer, held, reading>>
dog       == <<watchdog, successes>>
vars == <<mode, startup, instances, starts, destroys, dog, probing, brokerUp>>

StabilityThreshold == 3

Idle == [at |-> "idle", on |-> None]
Call(point, c) == [at |-> point, on |-> c]

StartPoints   == {"idle", "rejected", "connecting", "subscribing", "running"}
DestroyPoints == {"idle", "flushing", "stopping", "disconnecting"}

TypeOK ==
  /\ mode \in {"KAFKA", "DIRECT"}
  /\ startup \in {"new", "starting", "up"}
  /\ consumer \in Consumers \cup {None}
  /\ held \in Consumers \cup {None}
  /\ starts \in [Slots -> [at : StartPoints, on : Consumers \cup {None}]]
  /\ destroys \in [Slots -> [at : DestroyPoints, on : Consumers \cup {None}]]
  /\ reading \in SUBSET Consumers
  /\ watchdog \in BOOLEAN
  /\ probing \in BOOLEAN
  /\ successes \in 0..(StabilityThreshold - 1)
  /\ brokerUp \in BOOLEAN

Init ==
  /\ mode = "KAFKA"
  /\ startup = "new"
  /\ consumer = None
  /\ held = None
  /\ starts = [s \in Slots |-> Idle]
  /\ destroys = [d \in Slots |-> Idle]
  /\ reading = {}
  /\ watchdog = FALSE
  /\ probing = FALSE
  /\ successes = 0
  /\ brokerUp \in BOOLEAN

-----------------------------------------------------------------------------

\* The consumers that something still refers to.
InUse == {consumer, held} \cup {starts[s].on : s \in Slots}
                          \cup {destroys[d].on : d \in Slots}

\* startConsumer() up to its first await.  createAndConnect() stores the new
\* instance before it awaits connect(), and throws if it still has one.
\* (Bug: neither looks for an instance that exists.)
StartConsumerUnguarded ==
  \E s \in Slots, c \in Consumers \ InUse :
    /\ starts[s] = Idle
    /\ held' = c
    /\ starts' = [starts EXCEPT ![s] = Call("connecting", c)]

StartConsumer ==
  \/ consumer # None /\ UNCHANGED <<held, starts>>
  \/ /\ consumer = None /\ held # None
     /\ \E s \in Slots :
          /\ starts[s] = Idle
          /\ starts' = [starts EXCEPT ![s] = Call("rejected", None)]
     /\ UNCHANGED held
  \/ /\ consumer = None /\ held = None
     /\ \E s \in Slots, c \in Consumers \ InUse :
          /\ starts[s] = Idle
          /\ held' = c
          /\ starts' = [starts EXCEPT ![s] = Call("connecting", c)]

\* destroyConsumer() up to its first await, when the service holds c: it
\* flushes a batch, if there is one, and stops the consumer.
DestroyConsumer(c) ==
  \/ c = None /\ UNCHANGED destroys
  \/ /\ c # None
     /\ \E d \in Slots, point \in {"flushing", "stopping"} :
          /\ destroys[d] = Idle
          /\ destroys' = [destroys EXCEPT ![d] = Call(point, c)]

\* LoggingModeService.setMode with the callback of the service's constructor.
SetModeDirect(c) ==
  \/ mode = "DIRECT" /\ UNCHANGED <<mode, destroys>>
  \/ mode = "KAFKA" /\ mode' = "DIRECT" /\ DestroyConsumer(c)

\* (Bugs: the watchdog stops and leaves the mode as it is; the mode changes and
\* the callback is not run.)
SetModeKafkaMissing == UNCHANGED <<mode, held, starts>>

SetModeKafkaQuietly ==
  /\ mode' = "KAFKA"
  /\ UNCHANGED <<held, starts>>

SetModeKafka ==
  \/ mode = "KAFKA" /\ UNCHANGED <<mode, held, starts>>
  \/ mode = "DIRECT" /\ mode' = "KAFKA" /\ StartConsumer

StartWatchdog ==
  /\ watchdog' = TRUE
  /\ successes' = IF watchdog THEN successes ELSE 0

\* (Bug: the interval is not cleared.)
KeepWatchdog == UNCHANGED watchdog

StopWatchdog == watchdog' = FALSE

\* One more success makes the broker stable.  (Bug: off by one.)
StableLate(n) == n + 1 > StabilityThreshold

Stable(n) == n + 1 >= StabilityThreshold

\* handleConsumerFailure(), when the service holds c.
HandleConsumerFailure(c) == SetModeDirect(c) /\ StartWatchdog

-----------------------------------------------------------------------------
(* startConsumer, from await to await.                                     *)

OnModuleInit ==
  /\ startup = "new"
  /\ startup' = "starting"
  /\ \/ mode = "KAFKA" /\ StartConsumer
     \/ mode # "KAFKA" /\ UNCHANGED <<held, starts>>
  /\ UNCHANGED <<mode, consumer, reading, destroys, dog, probing, brokerUp>>

\* onModuleInit awaits its startConsumer(), up to the point where it leaves
\* consume() running; then the application serves requests.
Listen ==
  /\ startup = "starting"
  /\ \A s \in Slots : starts[s].at \in {"idle", "running"}
  /\ startup' = "up"
  /\ UNCHANGED <<mode, instances, starts, destroys, dog, probing, brokerUp>>

\* The catch of startConsumer(), and of the promise consume() returned.
Fails(s) ==
  /\ starts' = [starts EXCEPT ![s] = Idle]
  /\ HandleConsumerFailure(consumer)
  /\ UNCHANGED <<startup, instances, probing, brokerUp>>

AlreadyExists(s) == starts[s].at = "rejected" /\ Fails(s)

ConnectRejects(s) ==
  /\ starts[s].at = "connecting"
  /\ ~ brokerUp \/ held # starts[s].on
  /\ Fails(s)

\* createAndConnect() returns the client's consumer as it is now: when it has
\* been destroyed in the meantime, subscribe() is called on null.
ConnectResolves(s) ==
  /\ starts[s].at = "connecting"
  /\ brokerUp
  /\ consumer' = held
  /\ \/ /\ held # None
        /\ starts' = [starts EXCEPT ![s] = Call("subscribing", held)]
        /\ UNCHANGED <<mode, destroys, dog>>
     \/ /\ held = None
        /\ starts' = [starts EXCEPT ![s] = Idle]
        /\ HandleConsumerFailure(None)
  /\ UNCHANGED <<startup, held, reading, probing, brokerUp>>

SubscribeRejects(s) ==
  /\ starts[s].at = "subscribing"
  /\ ~ brokerUp \/ held # starts[s].on
  /\ Fails(s)

\* The watchdog stops and consume() runs the consumer; it throws when the
\* service has lost it in the meantime.
SubscribeResolves(s) ==
  /\ starts[s].at = "subscribing"
  /\ brokerUp
  /\ \/ /\ consumer # None
        /\ starts' = [starts EXCEPT ![s] = Call("running", consumer)]
        /\ StopWatchdog
        /\ UNCHANGED <<mode, destroys, successes>>
     \/ /\ consumer = None
        /\ starts' = [starts EXCEPT ![s] = Idle]
        /\ SetModeDirect(None)
        /\ watchdog' = TRUE
        /\ successes' = 0
  /\ UNCHANGED <<startup, instances, probing, brokerUp>>

RunRejects(s) ==
  /\ starts[s].at = "running"
  /\ ~ brokerUp \/ held # starts[s].on
  /\ Fails(s)

RunResolves(s) ==
  /\ starts[s].at = "running"
  /\ brokerUp
  /\ starts' = [starts EXCEPT ![s] = Idle]
  /\ reading' = IF held = starts[s].on THEN reading \cup {held} ELSE reading
  /\ UNCHANGED <<mode, startup, consumer, held, destroys, dog, probing, brokerUp>>

\* The fetch loop ends on an error: restartOnFailure answers false, so that
\* KafkaJS does not restart it, and tells nobody.
ConsumerCrashes(c) ==
  /\ c \in reading
  /\ ~ brokerUp
  /\ reading' = reading \ {c}
  /\ UNCHANGED <<mode, startup, consumer, held, starts, destroys, dog,
                 probing, brokerUp>>

-----------------------------------------------------------------------------
(* destroyConsumer, from await to await.                                   *)

\* KafkaConsumerClient.destroy() disconnects the instance the client has by
\* now; the service then drops its own.
ClientDestroy(d) ==
  \/ /\ held = None
     /\ consumer' = None
     /\ destroys' = [destroys EXCEPT ![d] = Idle]
  \/ /\ held # None
     /\ destroys' = [destroys EXCEPT ![d] = Call("disconnecting", held)]
     /\ UNCHANGED consumer

\* The final flush is over.  stop() is left out when the service has no consumer
\* any more, and when the flush rejected.
FlushSettles(d) ==
  /\ destroys[d].at = "flushing"
  /\ \/ /\ consumer # None
        /\ destroys' = [destroys EXCEPT ![d] = Call("stopping", consumer)]
        /\ UNCHANGED consumer
     \/ ClientDestroy(d)
  /\ UNCHANGED <<mode, startup, held, reading, starts, dog, probing, brokerUp>>

\* stop() resolves or rejects: the code goes on either way.
StopSettles(d) ==
  /\ destroys[d].at = "stopping"
  /\ reading' = reading \ {destroys[d].on}
  /\ ClientDestroy(d)
  /\ UNCHANGED <<mode, startup, held, starts, dog, probing, brokerUp>>

\* (Bugs: the service keeps its reference; the client drops the instance and
\* does not disconnect it.)
DisconnectKeepsConsumer(d) ==
  /\ destroys[d].at = "disconnecting"
  /\ held' = None
  /\ reading' = reading \ {destroys[d].on}
  /\ destroys' = [destroys EXCEPT ![d] = Idle]
  /\ UNCHANGED <<mode, startup, consumer, starts, dog, probing, brokerUp>>

DisconnectOnlyDrops(d) ==
  /\ destroys[d].at = "disconnecting"
  /\ held' = None
  /\ consumer' = None
  /\ destroys' = [destroys EXCEPT ![d] = Idle]
  /\ UNCHANGED <<mode, startup, reading, starts, dog, probing, brokerUp>>

DisconnectSettles(d) ==
  /\ destroys[d].at = "disconnecting"
  /\ held' = None
  /\ consumer' = None
  /\ reading' = reading \ {destroys[d].on}
  /\ destroys' = [destroys EXCEPT ![d] = Idle]
  /\ UNCHANGED <<mode, startup, starts, dog, probing, brokerUp>>

-----------------------------------------------------------------------------
(* The watchdog, the logger and the broker.                                *)

\* (Bug: an interval that was replaced and never cleared goes on probing.)
WatchdogFiresOn ==
  /\ mode = "DIRECT" /\ ~ probing
  /\ probing' = TRUE
  /\ UNCHANGED <<mode, startup, instances, starts, destroys, dog, brokerUp>>

WatchdogFires ==
  /\ watchdog /\ ~ probing
  /\ probing' = TRUE
  /\ UNCHANGED <<mode, startup, instances, starts, destroys, dog, brokerUp>>

\* A probe in flight when the watchdog stops still answers and still counts.
ProbeAnswers ==
  /\ probing
  /\ probing' = FALSE
  /\ \/ /\ brokerUp
        /\ ~ Stable(successes)
        /\ successes' = successes + 1
        /\ UNCHANGED <<mode, held, starts, watchdog>>
     \/ /\ brokerUp
        /\ Stable(successes)
        /\ successes' = 0
        /\ StopWatchdog
        /\ SetModeKafka
     \/ /\ ~ brokerUp
        /\ successes' = 0
        /\ UNCHANGED <<mode, held, starts, watchdog>>
  /\ UNCHANGED <<startup, consumer, reading, destroys, brokerUp>>

\* KafkaLogger.log() found the producer disconnected, or its publish failed.
LoggerFailsOver ==
  /\ startup = "up"
  /\ mode = "KAFKA"
  /\ SetModeDirect(consumer)
  /\ UNCHANGED <<startup, instances, starts, dog, probing, brokerUp>>

BrokerChanges ==
  /\ brokerUp' = ~ brokerUp
  /\ UNCHANGED <<mode, startup, instances, starts, destroys, dog, probing>>

StartStep(s) ==
  \/ AlreadyExists(s)
  \/ ConnectRejects(s)   \/ ConnectResolves(s)
  \/ SubscribeRejects(s) \/ SubscribeResolves(s)
  \/ RunRejects(s)       \/ RunResolves(s)

DestroyStep(d) == FlushSettles(d) \/ StopSettles(d) \/ DisconnectSettles(d)

WorkerStep ==
  \/ Listen
  \/ \E s \in Slots : StartStep(s)
  \/ \E d \in Slots : DestroyStep(d)
  \/ \E c \in Consumers : ConsumerCrashes(c)
  \/ WatchdogFires
  \/ ProbeAnswers
  \/ BrokerChanges

Next == OnModuleInit \/ WorkerStep \/ LoggerFailsOver

\* Nest calls onModuleInit, KafkaJS and the TCP probe answer every call (both
\* have timeouts), and the interval timer fires.
Fairness ==
  /\ WF_vars(OnModuleInit) /\ WF_vars(Listen)
  /\ \A s \in Slots : WF_vars(StartStep(s)) /\ WF_vars(DestroyStep(s))
  /\ WF_vars(WatchdogFires)
  /\ WF_vars(ProbeAnswers)

SafeSpec == Init /\ [][Next]_vars
Spec     == SafeSpec /\ Fairness

-----------------------------------------------------------------------------

InFlight(calls) == {s \in Slots : calls[s] # Idle}

NoStart   == \A s \in Slots : starts[s] = Idle
NoDestroy == \A d \in Slots : destroys[d] = Idle

\* The service never keeps a consumer its client has let go of: whatever the
\* overlap of starts and destroys, the two references are dropped together.
ServiceConsumerIsHeld == consumer # None => held = consumer

\* startConsumer() tests this.consumer before it awaits createAndConnect()
\* and sets it afterwards; the window is safe because no two calls are ever
\* under way at once.
OneStart == \A s, t \in InFlight(starts) : s = t

\* No instance is created while an older one is still being destroyed, so a
\* slow destroyConsumer() never disconnects its successor.
CreateNeverRacesDestroy ==
  (\E s \in Slots : starts[s].at = "connecting") => InFlight(destroys) = {}

\* Only the instance that the client holds fetches messages: none is left
\* behind reading the topic.
NoStrayReader == reading \subseteq {held}

\* The watchdog polls in DIRECT mode only, and no recovery leaves it running.
WatchdogOnlyInDirect == watchdog => mode = "DIRECT"

\* Nothing reads the topic while a consumer is being started or the watchdog
\* polls, in whatever mode: the recovery never starts a consumer beside one
\* that still reads, not even one that connected after the mode had turned
\* DIRECT.
RecoveryFindsNoReader == watchdog \/ ~ NoStart => reading = {}

\* From onModuleInit on, KAFKA mode has a consumer, or one that is being
\* started.  It loses it only to a destroy that was under way when the mode
\* came back: a start that fails leaves the mode, and the switch to KAFKA
\* starts a consumer if there is none.
Served == consumer # None \/ ~ NoStart

KafkaIsServed ==
  [][mode' = "KAFKA" /\ startup' # "new" /\ ~ Served'
     => /\ mode = "KAFKA" /\ startup # "new"
        /\ ~ Served \/ ~ NoDestroy]_vars

\* DIRECT mode without a watchdog and with nothing being started is for good:
\* no late probe, no call that ends, no failure of the logger and no broker
\* leads out of it, so that only a restart brings KAFKA mode back.
Parked == mode = "DIRECT" /\ ~ watchdog /\ NoStart

ParkedForGood == [][Parked => Parked']_vars

\* When the broker stays up, an armed watchdog switches the mode back.
WatchdogRecovers == <>[]brokerUp => (watchdog ~> mode = "KAFKA")

\* kafka-consumer.client.ts:17 "Completely destroys Consumer instances when
\* Kafka fails (set to null)": in DIRECT mode, with no call under way, the
\* client holds no consumer.
DestroyedWhenKafkaFails ==
  mode = "DIRECT" /\ InFlight(starts) \cup InFlight(destroys) = {}
    => held = None

\* mq-consumer.service.ts:278 "the state machine manages destruction and
\* recovery of the Consumer" instead of KafkaJS: with a broker that stays up, a
\* consumer that reads nothing does not stay in place for ever.
Stalled == /\ consumer # None /\ reading = {}
           /\ InFlight(starts) \cup InFlight(destroys) = {}

CrashedConsumerIsReplaced == <>[]brokerUp => (Stalled ~> ~ Stalled)
=============================================================================
