---------------------------- MODULE KafkaPipeline ----------------------------
(***************************************************************************)
(* STORAGE_TYPE=kafka: KafkaLogger over the producer and the fallback      *)
(* logger, sharing the logging mode and the broker with MqConsumerService. *)
(* The fallback is MongoLogger, whose log() takes every event.             *)
(***************************************************************************)
EXTENDS MqConsumerService

CONSTANT Events   \* the calls of KafkaLogger.log, one event each

VARIABLES
  isConnected, producerDog, streak, tick, initial, healthChecks,
  publishing,   \* events whose publish is awaited
  failedOver,   \* events whose publish failed
  inTopic,      \* events the broker has written to the topic
  inFallback    \* events handed to the fallback logger

Producer == INSTANCE KafkaProducerClient

worker == <<mode, startup, instances, starts, destroys, dog, probing>>
connection == <<isConnected, producerDog, streak, tick, initial, healthChecks>>
events == <<publishing, failedOver, inTopic, inFallback>>
pipelineVars == <<worker, connection, brokerUp, events>>

PipelineTypeOK ==
  /\ TypeOK
  /\ Producer!TypeOK
  /\ publishing \in SUBSET Events
  /\ failedOver \in SUBSET Events
  /\ inTopic \in SUBSET Events
  /\ inFallback \in SUBSET Events

PipelineInit ==
  /\ Init
  /\ Producer!Init
  /\ publishing = {}
  /\ failedOver = {}
  /\ inTopic = {}
  /\ inFallback = {}

-----------------------------------------------------------------------------

Logged == publishing \cup failedOver \cup inTopic \cup inFallback

\* setMode(DIRECT) by the logger, with the worker's callback.
SwitchToDirect ==
  \/ mode = "DIRECT" /\ UNCHANGED <<worker, brokerUp>>
  \/ LoggerFailsOver

\* fallbackLogger.log(), which takes every event.
Fallback(e) == inFallback' = inFallback \cup {e}

\* KafkaLogger.log() in DIRECT mode, or with the producer not connected: the
\* mode is DIRECT from now on, and the event goes to the fallback.  (Bug: the
\* return is missing, and the event is published as well.)
LogDirectlyAndPublish(e) ==
  /\ mode = "DIRECT" \/ ~ isConnected
  /\ Fallback(e)
  /\ SwitchToDirect
  /\ publishing' = publishing \cup {e}
  /\ UNCHANGED <<failedOver, inTopic>>

LogDirectly(e) ==
  /\ mode = "DIRECT" \/ ~ isConnected
  /\ Fallback(e)
  /\ SwitchToDirect
  /\ UNCHANGED <<publishing, failedOver, inTopic>>

\* In KAFKA mode: KafkaProducer.publish() up to the send it awaits.
Publish(e) ==
  /\ mode = "KAFKA" /\ isConnected
  /\ publishing' = publishing \cup {e}
  /\ UNCHANGED <<worker, brokerUp, failedOver, inTopic, inFallback>>

Log(e) ==
  /\ startup = "up"
  /\ e \in Events \ Logged
  /\ LogDirectly(e) \/ Publish(e)
  /\ UNCHANGED connection

PublishResolves(e) ==
  /\ e \in publishing
  /\ brokerUp
  /\ publishing' = publishing \ {e}
  /\ inTopic' = inTopic \cup {e}
  /\ UNCHANGED <<worker, connection, brokerUp, failedOver, inFallback>>

\* send() rejects, perhaps after the broker wrote the event: publish() asks
\* for a health check, and the logger falls back for this event too.
PublishRejects(e, written) ==
  /\ e \in publishing
  /\ written => brokerUp
  /\ publishing' = publishing \ {e}
  /\ failedOver' = failedOver \cup {e}
  /\ inTopic' = IF written THEN inTopic \cup {e} ELSE inTopic
  /\ Fallback(e)
  /\ Producer!TriggerHealthCheck
  /\ SwitchToDirect

Runs(A)     == A /\ UNCHANGED <<connection, events>>
Connects(A) == A /\ UNCHANGED <<worker, brokerUp, events>>

\* Nest calls the onModuleInit of both clients in one go.
Startup == OnModuleInit /\ Producer!OnModuleInit /\ UNCHANGED events

PipelineNext ==
  \/ Startup
  \/ Runs(WorkerStep)
  \/ Connects(Producer!ClientStep)
  \/ \E e \in Events : Log(e)
  \/ \E e \in Events : PublishResolves(e)
  \/ \E e \in Events, written \in BOOLEAN : PublishRejects(e, written)

PipelineSafeSpec == PipelineInit /\ [][PipelineNext]_pipelineVars

\* As in MqConsumerService: the hooks are called, every call of KafkaJS and
\* every probe is answered, the timers fire.
PipelineFairness ==
  /\ WF_pipelineVars(Startup)
  /\ WF_pipelineVars(Runs(Listen))
  /\ \A s \in Slots : /\ WF_pipelineVars(Runs(StartStep(s)))
                      /\ WF_pipelineVars(Runs(DestroyStep(s)))
  /\ WF_pipelineVars(Runs(WatchdogFires))
  /\ WF_pipelineVars(Runs(ProbeAnswers))
  /\ WF_pipelineVars(Connects(Producer!InitialStep))
  /\ WF_pipelineVars(Connects(Producer!DogFires))
  /\ WF_pipelineVars(Connects(Producer!DogAnswers))
  /\ WF_pipelineVars(Connects(Producer!HealthCheckAnswers))
  /\ \A e \in Events :
       WF_pipelineVars(PublishResolves(e) \/ PublishRejects(e, FALSE))

PipelineSpec == PipelineSafeSpec /\ PipelineFairness

-----------------------------------------------------------------------------

\* A producer that is not connected is never forgotten.
ReconnectPending == Producer!ReconnectPending

\* While the broker stays up, the producer gets connected (again and again,
\* should KafkaJS report disconnections): no order of startup, health checks,
\* disconnections and watchdog ticks leaves it waiting for nobody.
ProducerReconnects == <>[]brokerUp => []<>isConnected

\* The event of every log() call that is over is in the topic or with the
\* fallback, and in both only if its publish failed after the broker had
\* written it.
EveryEventIsRouted ==
  /\ \A e \in Logged : e \in publishing \cup inTopic \cup inFallback
  /\ inTopic \cap inFallback \subseteq failedOver
  /\ publishing \cap (inTopic \cup inFallback) = {}

\* How far log() has come with each event.
Route == [e \in Events |->
            IF e \in publishing THEN "publishing"
            ELSE IF e \in failedOver THEN "failedOver"
            ELSE IF e \in inTopic THEN "sent"
            ELSE IF e \in inFallback THEN "direct" ELSE "new"]

Routing == INSTANCE EventRouting WITH Requests <- Events, route <- Route,
                                      handed <- inFallback, written <- inTopic

\* Whatever the mode, the connection and the broker do, log() goes one of the
\* ways that EventRouting describes: no event turns round, is published after
\* it went to the fallback, or ends in neither.
ImplementsRouting == Routing!Spec

\* logging-mode.service.ts:7 "When Kafka fails, automatically switch to DIRECT
\* mode and when Kafka recovers, switch back to KAFKA mode".
SwitchesBack == <>[]brokerUp => []<>(mode = "KAFKA")
=============================================================================
