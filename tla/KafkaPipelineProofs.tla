------------------------- MODULE KafkaPipelineProofs -------------------------
(***************************************************************************)
(* First the worker alone: the calls of startConsumer and destroyConsumer  *)
(* never get in each other's way, for every number of consumers and of     *)
(* calls under way.  Then the pipeline: it implements the worker it        *)
(* contains, so that what is proved of it holds there too; its producer is *)
(* never forgotten, and every event it is given is routed.                 *)
(***************************************************************************)
EXTENDS KafkaPipeline, TLAPS

\* At most one call of startConsumer is under way.
StartAlone ==
  \A s, t \in Slots : starts[s] # Idle /\ starts[t] # Idle => s = t

\* Before onModuleInit nothing has happened.
NothingYet ==
  startup = "new" =>
    /\ NoStart /\ NoDestroy
    /\ ~ watchdog /\ ~ probing
    /\ consumer = None /\ held = None

\* While the watchdog runs no consumer is being started, and a probe in
\* flight is the probe of a watchdog that still runs.
WatchdogAlone ==
  /\ watchdog => mode = "DIRECT" /\ NoStart
  /\ probing => watchdog

\* While an instance connects, the service has none and none is destroyed.
ConnectingAlone ==
  (\E s \in Slots : starts[s].at = "connecting") => NoDestroy /\ consumer = None

\* Unless the mode is parked, one call of destroyConsumer at most is under
\* way, and the service keeps its consumer until it has ended.
DestroyAlone ==
  ~ NoDestroy /\ ~ Parked =>
    /\ consumer # None
    /\ \A d, e \in Slots : destroys[d] # Idle /\ destroys[e] # Idle => d = e

\* In KAFKA mode no consumer is started beside one that is being destroyed.
DestroyInKafka == mode = "KAFKA" /\ ~ NoDestroy => NoStart

\* A consumer being disconnected is the one the client holds, if it holds any.
DisconnectsHeld ==
  \A d \in Slots : destroys[d].at = "disconnecting" /\ held # None
                     => destroys[d].on = held

\* consume() runs a consumer, never null.
RunsAConsumer ==
  \A s \in Slots : starts[s].at = "running" => starts[s].on # None

IInv ==
  /\ TypeOK
  /\ ServiceConsumerIsHeld
  /\ StartAlone
  /\ NothingYet
  /\ WatchdogAlone
  /\ ConnectingAlone
  /\ DestroyAlone
  /\ DestroyInKafka
  /\ DisconnectsHeld
  /\ NoStrayReader
  /\ RunsAConsumer

-----------------------------------------------------------------------------

\* handleConsumerFailure() at the end of the one call of startConsumer.
LEMMA FailsKeepsIInv ==
  ASSUME IInv, NEW s \in Slots, starts[s] # Idle, Fails(s)
  PROVE  IInv'
<1> USE ConsumersAssumption DEF IInv, Idle, Call
<1>1. /\ watchdog' /\ mode' = "DIRECT"
      /\ starts' = [starts EXCEPT ![s] = Idle]
      /\ UNCHANGED <<startup, consumer, held, reading, probing, brokerUp>>
  BY DEF Fails, HandleConsumerFailure, SetModeDirect, StartWatchdog, instances, TypeOK
<1>2. NoStart'
  BY <1>1 DEF NoStart, StartAlone, TypeOK
<1>3. startup # "new"
  BY DEF NothingYet, NoStart
<1>4. \/ UNCHANGED destroys
      \/ /\ NoDestroy
         /\ consumer # None
         /\ \E d \in Slots, point \in {"flushing", "stopping"} :
              destroys' = [destroys EXCEPT ![d] = Call(point, consumer)]
  BY DEF Fails, HandleConsumerFailure, SetModeDirect, DestroyConsumer, DestroyInKafka, NoStart
<1>5. successes' \in 0..(StabilityThreshold - 1)
  BY DEF Fails, HandleConsumerFailure, StartWatchdog, TypeOK, StabilityThreshold
<1>6. TypeOK'
  BY <1>1, <1>4, <1>5 DEF TypeOK, StartPoints, DestroyPoints
<1>7. ServiceConsumerIsHeld'
  BY <1>1, <1>4 DEF ServiceConsumerIsHeld
<1>8. StartAlone'
  BY <1>2 DEF StartAlone, NoStart
<1>9. NothingYet'
  BY <1>1, <1>3 DEF NothingYet
<1>10. WatchdogAlone'
  BY <1>1, <1>2 DEF WatchdogAlone, NoStart
<1>11. ConnectingAlone'
  BY <1>2 DEF ConnectingAlone, NoStart
<1>12. DestroyAlone'
  BY <1>1, <1>4 DEF DestroyAlone, NoDestroy, Parked, NoStart, TypeOK
<1>13. DestroyInKafka'
  BY <1>1 DEF DestroyInKafka
<1>14. DisconnectsHeld'
  BY <1>1, <1>4 DEF DisconnectsHeld, TypeOK, NoDestroy
<1>15. NoStrayReader'
  BY <1>1 DEF NoStrayReader
<1>16. RunsAConsumer'
  BY <1>2 DEF RunsAConsumer, NoStart
<1> QED
  BY <1>6, <1>7, <1>8, <1>9, <1>10, <1>11, <1>12, <1>13, <1>14, <1>15, <1>16

\* onModuleInit() starts the first consumer, if any.
LEMMA OnModuleInitKeepsIInv ==
  ASSUME IInv, OnModuleInit
  PROVE  IInv'
<1> USE ConsumersAssumption DEF IInv, Idle, Call
<1>1. /\ startup' = "starting"
      /\ NoStart /\ NoDestroy /\ ~ watchdog /\ ~ probing
      /\ consumer = None /\ held = None
      /\ UNCHANGED <<mode, consumer, reading, destroys, watchdog, successes, probing, brokerUp>>
  BY DEF OnModuleInit, NothingYet, dog
<1>2. \/ UNCHANGED <<held, starts>>
      \/ \E s \in Slots, c \in Consumers :
           /\ held' = c
           /\ starts' = [starts EXCEPT ![s] = Call("connecting", c)]
  BY <1>1 DEF OnModuleInit, StartConsumer
<1>3. TypeOK'
  BY <1>1, <1>2 DEF TypeOK, StartPoints, DestroyPoints
<1>4. ServiceConsumerIsHeld'
  BY <1>1, <1>2 DEF ServiceConsumerIsHeld
<1>5. StartAlone'
  BY <1>1, <1>2 DEF StartAlone, NoStart, TypeOK
<1>6. NothingYet'
  BY <1>1, <1>2 DEF NothingYet, NoStart, NoDestroy
<1>7. WatchdogAlone'
  BY <1>1, <1>2 DEF WatchdogAlone, NoStart, TypeOK
<1>8. ConnectingAlone'
  BY <1>1, <1>2 DEF ConnectingAlone, NoDestroy, StartAlone, TypeOK
<1>9. DestroyAlone'
  BY <1>1, <1>2 DEF DestroyAlone, NoDestroy, Parked, NoStart, TypeOK
<1>10. DestroyInKafka'
  BY <1>1, <1>2 DEF DestroyInKafka, NoStart, NoDestroy, TypeOK
<1>11. DisconnectsHeld'
  BY <1>1, <1>2 DEF DisconnectsHeld, NoDestroy, TypeOK
<1>12. NoStrayReader'
  BY <1>1, <1>2 DEF NoStrayReader, TypeOK
<1>13. RunsAConsumer'
  BY <1>1, <1>2 DEF RunsAConsumer, NoStart, TypeOK
<1> QED
  BY <1>3, <1>4, <1>5, <1>6, <1>7, <1>8, <1>9, <1>10, <1>11, <1>12, <1>13

\* connect() has resolved, and the client still holds its consumer.
LEMMA ConnectedKeepsIInv ==
  ASSUME IInv, NEW s \in Slots, ConnectResolves(s), held # None
  PROVE  IInv'
<1> USE ConsumersAssumption DEF IInv, Idle, Call
<1>1. /\ starts[s].at = "connecting"
      /\ consumer' = held
      /\ starts' = [starts EXCEPT ![s] = Call("subscribing", held)]
      /\ UNCHANGED <<mode, startup, held, reading, destroys, watchdog, successes, probing, brokerUp>>
  BY DEF ConnectResolves, dog
<1>2. /\ starts[s] # Idle
      /\ NoDestroy
  BY <1>1 DEF ConnectingAlone
<1>3. TypeOK'
  BY <1>1, <1>2 DEF TypeOK, StartPoints, DestroyPoints
<1>4. ServiceConsumerIsHeld'
  BY <1>1, <1>2 DEF ServiceConsumerIsHeld
<1>5. StartAlone'
  BY <1>1, <1>2 DEF StartAlone, NoStart, TypeOK
<1>6. NothingYet'
  BY <1>1, <1>2 DEF NothingYet, NoStart, NoDestroy
<1>7. WatchdogAlone'
  BY <1>1, <1>2 DEF WatchdogAlone, NoStart, TypeOK
<1>8. ConnectingAlone'
  BY <1>1, <1>2 DEF ConnectingAlone, NoDestroy, StartAlone, TypeOK
<1>9. DestroyAlone'
  BY <1>1, <1>2 DEF DestroyAlone, NoDestroy, Parked, NoStart, TypeOK
<1>10. DestroyInKafka'
  BY <1>1, <1>2 DEF DestroyInKafka, NoStart, NoDestroy, TypeOK
<1>11. DisconnectsHeld'
  BY <1>1, <1>2 DEF DisconnectsHeld, NoDestroy, TypeOK
<1>12. NoStrayReader'
  BY <1>1, <1>2 DEF NoStrayReader, TypeOK
<1>13. RunsAConsumer'
  BY <1>1, <1>2 DEF RunsAConsumer, NoStart, TypeOK
<1> QED
  BY <1>3, <1>4, <1>5, <1>6, <1>7, <1>8, <1>9, <1>10, <1>11, <1>12, <1>13

\* subscribe() has resolved, and the service still has its consumer.
LEMMA SubscribedKeepsIInv ==
  ASSUME IInv, NEW s \in Slots, SubscribeResolves(s), consumer # None
  PROVE  IInv'
<1> USE ConsumersAssumption DEF IInv, Idle, Call
<1>1. /\ starts[s].at = "subscribing"
      /\ starts' = [starts EXCEPT ![s] = Call("running", consumer)]
      /\ watchdog' = FALSE
      /\ UNCHANGED <<mode, startup, consumer, held, reading, destroys, successes, probing, brokerUp>>
  BY DEF SubscribeResolves, StopWatchdog, instances
<1>2. /\ starts[s] # Idle
      /\ ~ watchdog /\ ~ probing
  BY <1>1 DEF WatchdogAlone, NoStart
<1>3. TypeOK'
  BY <1>1, <1>2 DEF TypeOK, StartPoints, DestroyPoints
<1>4. ServiceConsumerIsHeld'
  BY <1>1, <1>2 DEF ServiceConsumerIsHeld
<1>5. StartAlone'
  BY <1>1, <1>2 DEF StartAlone, NoStart, TypeOK
<1>6. NothingYet'
  BY <1>1, <1>2 DEF NothingYet, NoStart, NoDestroy
<1>7. WatchdogAlone'
  BY <1>1, <1>2 DEF WatchdogAlone, NoStart, TypeOK
<1>8. ConnectingAlone'
  BY <1>1, <1>2 DEF ConnectingAlone, NoDestroy, StartAlone, TypeOK
<1>9. DestroyAlone'
  BY <1>1, <1>2 DEF DestroyAlone, NoDestroy, Parked, NoStart, TypeOK
<1>10. DestroyInKafka'
  BY <1>1, <1>2 DEF DestroyInKafka, NoStart, NoDestroy, TypeOK
<1>11. DisconnectsHeld'
  BY <1>1, <1>2 DEF DisconnectsHeld, NoDestroy, TypeOK
<1>12. NoStrayReader'
  BY <1>1, <1>2 DEF NoStrayReader, TypeOK
<1>13. RunsAConsumer'
  BY <1>1, <1>2 DEF RunsAConsumer, NoStart, TypeOK
<1> QED
  BY <1>3, <1>4, <1>5, <1>6, <1>7, <1>8, <1>9, <1>10, <1>11, <1>12, <1>13

\* consumer.run() has resolved: the last step of startConsumer().
LEMMA RunResolvesKeepsIInv ==
  ASSUME IInv, NEW s \in Slots, RunResolves(s)
  PROVE  IInv'
<1> USE ConsumersAssumption DEF IInv, Idle, Call
<1>1. /\ starts[s].at = "running"
      /\ starts' = [starts EXCEPT ![s] = Idle]
      /\ reading' = IF held = starts[s].on THEN reading \cup {held} ELSE reading
      /\ UNCHANGED <<mode, startup, consumer, held, destroys, watchdog, successes, probing, brokerUp>>
  BY DEF RunResolves, dog
<1>2. /\ starts[s] # Idle
      /\ NoStart'
  BY <1>1 DEF NoStart, StartAlone, TypeOK
<1>3. reading' \subseteq Consumers /\ reading' \subseteq {held}
  BY <1>1 DEF TypeOK, NoStrayReader, RunsAConsumer
<1>4. TypeOK'
  BY <1>1, <1>2, <1>3 DEF TypeOK, StartPoints, DestroyPoints
<1>5. ServiceConsumerIsHeld'
  BY <1>1, <1>2, <1>3 DEF ServiceConsumerIsHeld
<1>6. StartAlone'
  BY <1>1, <1>2, <1>3 DEF StartAlone, NoStart, TypeOK
<1>7. NothingYet'
  BY <1>1, <1>2, <1>3 DEF NothingYet, NoStart, NoDestroy
<1>8. WatchdogAlone'
  BY <1>1, <1>2, <1>3 DEF WatchdogAlone, NoStart, TypeOK
<1>9. ConnectingAlone'
  BY <1>1, <1>2, <1>3 DEF ConnectingAlone, NoDestroy, TypeOK
<1>10. DestroyAlone'
  BY <1>1, <1>2, <1>3 DEF DestroyAlone, NoDestroy, Parked, NoStart, TypeOK
<1>11. DestroyInKafka'
  BY <1>1, <1>2, <1>3 DEF DestroyInKafka, NoStart, NoDestroy, TypeOK
<1>12. DisconnectsHeld'
  BY <1>1, <1>2, <1>3 DEF DisconnectsHeld, NoDestroy, TypeOK
<1>13. NoStrayReader'
  BY <1>1, <1>2, <1>3 DEF NoStrayReader, TypeOK
<1>14. RunsAConsumer'
  BY <1>1, <1>2, <1>3 DEF RunsAConsumer, NoStart, TypeOK
<1> QED
  BY <1>4, <1>5, <1>6, <1>7, <1>8, <1>9, <1>10, <1>11, <1>12, <1>13, <1>14

\* The end of stop(), or of a flush that no stop() follows.
LEMMA ClientDestroyKeepsIInv ==
  ASSUME IInv,
         NEW d \in Slots, destroys[d] # Idle, ClientDestroy(d),
         NEW c, c = destroys[d].on, reading' = reading \ {c} \/ reading' = reading,
         UNCHANGED <<mode, startup, held, starts, watchdog, successes, probing, brokerUp>>
  PROVE  IInv'
<1> USE ConsumersAssumption DEF IInv, Idle, Call
<1>1. /\ ~ NoDestroy /\ startup # "new"
      /\ \A s \in Slots : starts[s].at # "connecting"
  BY DEF NoDestroy, NothingYet, ConnectingAlone
<1>2. \/ /\ held = None
         /\ consumer' = None
         /\ destroys' = [destroys EXCEPT ![d] = Idle]
      \/ /\ held # None
         /\ destroys' = [destroys EXCEPT ![d] = Call("disconnecting", held)]
         /\ consumer' = consumer
  BY DEF ClientDestroy
<1>3. TypeOK'
  BY <1>1, <1>2 DEF TypeOK, StartPoints, DestroyPoints
<1>4. ServiceConsumerIsHeld'
  BY <1>1, <1>2 DEF ServiceConsumerIsHeld
<1>5. StartAlone'
  BY <1>1, <1>2 DEF StartAlone, NoStart, TypeOK
<1>6. NothingYet'
  BY <1>1, <1>2 DEF NothingYet, NoStart, NoDestroy
<1>7. WatchdogAlone'
  BY <1>1, <1>2 DEF WatchdogAlone, NoStart, TypeOK
<1>8. ConnectingAlone'
  BY <1>1, <1>2 DEF ConnectingAlone, NoDestroy, StartAlone, TypeOK
<1>9. DestroyAlone'
  BY <1>1, <1>2 DEF DestroyAlone, NoDestroy, Parked, NoStart, TypeOK
<1>10. DestroyInKafka'
  BY <1>1, <1>2 DEF DestroyInKafka, NoStart, NoDestroy, TypeOK
<1>11. DisconnectsHeld'
  BY <1>1, <1>2 DEF DisconnectsHeld, NoDestroy, TypeOK
<1>12. NoStrayReader'
  BY <1>1, <1>2 DEF NoStrayReader, TypeOK
<1>13. RunsAConsumer'
  BY <1>1, <1>2 DEF RunsAConsumer, NoStart, TypeOK
<1> QED
  BY <1>3, <1>4, <1>5, <1>6, <1>7, <1>8, <1>9, <1>10, <1>11, <1>12, <1>13

\* disconnect() has settled: the last step of destroyConsumer().
LEMMA DisconnectKeepsIInv ==
  ASSUME IInv, NEW d \in Slots, DisconnectSettles(d)
  PROVE  IInv'
<1> USE ConsumersAssumption DEF IInv, Idle, Call
<1>1. /\ destroys[d].at = "disconnecting"
      /\ held' = None /\ consumer' = None
      /\ reading' = reading \ {destroys[d].on}
      /\ destroys' = [destroys EXCEPT ![d] = Idle]
      /\ UNCHANGED <<mode, startup, starts, watchdog, successes, probing, brokerUp>>
  BY DEF DisconnectSettles, dog
<1>2. /\ destroys[d] # Idle /\ ~ NoDestroy /\ startup # "new"
      /\ \A s \in Slots : starts[s].at # "connecting"
  BY <1>1 DEF NoDestroy, NothingYet, ConnectingAlone
<1>3. reading' = {}
  BY <1>1, <1>2 DEF NoStrayReader, DisconnectsHeld, TypeOK
<1>4. TypeOK'
  BY <1>1, <1>2, <1>3 DEF TypeOK, StartPoints, DestroyPoints
<1>5. ServiceConsumerIsHeld'
  BY <1>1, <1>2, <1>3 DEF ServiceConsumerIsHeld
<1>6. StartAlone'
  BY <1>1, <1>2, <1>3 DEF StartAlone, NoStart, TypeOK
<1>7. NothingYet'
  BY <1>1, <1>2, <1>3 DEF NothingYet, NoStart, NoDestroy
<1>8. WatchdogAlone'
  BY <1>1, <1>2, <1>3 DEF WatchdogAlone, NoStart, TypeOK
<1>9. ConnectingAlone'
  BY <1>1, <1>2, <1>3 DEF ConnectingAlone, NoDestroy, TypeOK
<1>10. DestroyAlone'
  BY <1>1, <1>2, <1>3 DEF DestroyAlone, NoDestroy, Parked, NoStart, TypeOK
<1>11. DestroyInKafka'
  BY <1>1, <1>2, <1>3 DEF DestroyInKafka, NoStart, NoDestroy, TypeOK
<1>12. DisconnectsHeld'
  BY <1>1, <1>2, <1>3 DEF DisconnectsHeld, NoDestroy, TypeOK
<1>13. NoStrayReader'
  BY <1>1, <1>2, <1>3 DEF NoStrayReader, TypeOK
<1>14. RunsAConsumer'
  BY <1>1, <1>2, <1>3 DEF RunsAConsumer, NoStart, TypeOK
<1> QED
  BY <1>4, <1>5, <1>6, <1>7, <1>8, <1>9, <1>10, <1>11, <1>12, <1>13, <1>14

\* The logger switches the mode to DIRECT.
LEMMA FailsOverKeepsIInv ==
  ASSUME IInv, LoggerFailsOver
  PROVE  IInv'
<1> USE ConsumersAssumption DEF IInv, Idle, Call
<1>1. /\ startup = "up" /\ mode = "KAFKA" /\ mode' = "DIRECT"
      /\ ~ watchdog /\ ~ probing
      /\ UNCHANGED <<startup, consumer, held, reading, starts, watchdog, successes, probing, brokerUp>>
  BY DEF LoggerFailsOver, SetModeDirect, instances, dog, WatchdogAlone
<1>2. \/ UNCHANGED destroys
      \/ /\ consumer # None
         /\ \E d \in Slots, point \in {"flushing", "stopping"} :
              /\ destroys[d] = Idle
              /\ destroys' = [destroys EXCEPT ![d] = Call(point, consumer)]
  BY <1>1 DEF LoggerFailsOver, SetModeDirect, DestroyConsumer
<1>3. NoDestroy \/ NoStart
  BY <1>1 DEF DestroyInKafka
<1>4. TypeOK'
  BY <1>1, <1>2, <1>3 DEF TypeOK, StartPoints, DestroyPoints
<1>5. ServiceConsumerIsHeld'
  BY <1>1, <1>2, <1>3 DEF ServiceConsumerIsHeld
<1>6. StartAlone'
  BY <1>1, <1>2, <1>3 DEF StartAlone, NoStart, TypeOK
<1>7. NothingYet'
  BY <1>1, <1>2, <1>3 DEF NothingYet, NoStart, NoDestroy
<1>8. WatchdogAlone'
  BY <1>1, <1>2, <1>3 DEF WatchdogAlone, NoStart, TypeOK
<1>9. ConnectingAlone'
  BY <1>1, <1>2, <1>3 DEF ConnectingAlone, NoDestroy, TypeOK
<1>10. DestroyAlone'
  BY <1>1, <1>2, <1>3 DEF DestroyAlone, NoDestroy, Parked, NoStart, TypeOK
<1>11. DestroyInKafka'
  BY <1>1, <1>2, <1>3 DEF DestroyInKafka, NoStart, NoDestroy, TypeOK
<1>12. DisconnectsHeld'
  BY <1>1, <1>2, <1>3 DEF DisconnectsHeld, NoDestroy, TypeOK
<1>13. NoStrayReader'
  BY <1>1, <1>2, <1>3 DEF NoStrayReader, TypeOK
<1>14. RunsAConsumer'
  BY <1>1, <1>2, <1>3 DEF RunsAConsumer, NoStart, TypeOK
<1> QED
  BY <1>4, <1>5, <1>6, <1>7, <1>8, <1>9, <1>10, <1>11, <1>12, <1>13, <1>14

\* The probe that makes the broker stable: the mode returns to KAFKA, and the
\* service starts a consumer unless it still has one.
LEMMA StableKeepsIInv ==
  ASSUME IInv, ProbeAnswers, Stable(successes), brokerUp
  PROVE  IInv'
<1> USE ConsumersAssumption DEF IInv, Idle, Call
<1>1. /\ watchdog /\ mode = "DIRECT" /\ NoStart /\ startup # "new"
      /\ watchdog' = FALSE /\ probing' = FALSE /\ successes' = 0
      /\ mode' = "KAFKA"
      /\ UNCHANGED <<startup, consumer, reading, destroys, brokerUp>>
  BY DEF ProbeAnswers, StopWatchdog, SetModeKafka, WatchdogAlone, NothingYet
<1>2. \/ /\ consumer # None
         /\ UNCHANGED <<held, starts>>
      \/ /\ consumer = None
         /\ UNCHANGED held
         /\ \E s \in Slots : starts' = [starts EXCEPT ![s] = Call("rejected", None)]
      \/ /\ consumer = None /\ held = None
         /\ \E s \in Slots, c \in Consumers :
              /\ held' = c
              /\ starts' = [starts EXCEPT ![s] = Call("connecting", c)]
  BY <1>1 DEF ProbeAnswers, SetModeKafka, StartConsumer
<1>3. consumer = None => NoDestroy
  BY <1>1 DEF DestroyAlone, Parked
<1>4. 0 \in 0..(StabilityThreshold - 1)
  BY DEF StabilityThreshold
<1>5. TypeOK'
  <2>1. /\ held' \in Consumers \cup {None}
        /\ starts' \in [Slots -> [at : StartPoints, on : Consumers \cup {None}]]
    BY <1>2 DEF TypeOK, StartPoints
  <2> QED
    BY <1>1, <1>4, <2>1 DEF TypeOK
<1>6. ServiceConsumerIsHeld'
  BY <1>1, <1>2, <1>3, <1>4 DEF ServiceConsumerIsHeld
<1>7. StartAlone'
  BY <1>1, <1>2, <1>3, <1>4 DEF StartAlone, NoStart, TypeOK
<1>8. NothingYet'
  BY <1>1, <1>2, <1>3, <1>4 DEF NothingYet, NoStart, NoDestroy
<1>9. WatchdogAlone'
  BY <1>1, <1>2, <1>3, <1>4 DEF WatchdogAlone, NoStart, TypeOK
<1>10. ConnectingAlone'
  BY <1>1, <1>2, <1>3, <1>4 DEF ConnectingAlone, NoDestroy, StartAlone, TypeOK
<1>11. DestroyAlone'
  BY <1>1, <1>2, <1>3, <1>4 DEF DestroyAlone, NoDestroy, Parked, NoStart, TypeOK
<1>12. DestroyInKafka'
  BY <1>1, <1>2, <1>3, <1>4 DEF DestroyInKafka, NoStart, NoDestroy, TypeOK
<1>13. DisconnectsHeld'
  BY <1>1, <1>2, <1>3, <1>4 DEF DisconnectsHeld, NoDestroy, TypeOK
<1>14. NoStrayReader'
  BY <1>1, <1>2, <1>3, <1>4 DEF NoStrayReader, TypeOK
<1>15. RunsAConsumer'
  BY <1>1, <1>2, <1>3, <1>4 DEF RunsAConsumer, NoStart, TypeOK
<1> QED
  BY <1>5, <1>6, <1>7, <1>8, <1>9, <1>10, <1>11, <1>12, <1>13, <1>14, <1>15

\* A probe that decides nothing, like the steps that change only what IInv
\* does not relate.
LEMMA OthersKeepIInv ==
  ASSUME IInv,
         UNCHANGED <<mode, consumer, held, starts, destroys, watchdog>>,
         \/ UNCHANGED startup
         \/ startup # "new" /\ startup' = "up",
         \/ UNCHANGED reading
         \/ \E c \in Consumers : reading' = reading \ {c},
         \/ UNCHANGED probing
         \/ watchdog /\ probing' = TRUE
         \/ probing' = FALSE,
         successes' \in 0..(StabilityThreshold - 1),
         brokerUp' \in BOOLEAN
  PROVE  IInv'
<1> USE DEF IInv
<1>1. TypeOK'
  BY DEF TypeOK
<1>2. NothingYet' /\ WatchdogAlone'
  BY DEF NothingYet, WatchdogAlone, NoStart, NoDestroy, TypeOK
<1>3. NoStrayReader'
  BY DEF NoStrayReader
<1>4. /\ ServiceConsumerIsHeld' /\ StartAlone' /\ ConnectingAlone'
      /\ DestroyAlone' /\ DestroyInKafka' /\ DisconnectsHeld' /\ RunsAConsumer'
  BY DEF ServiceConsumerIsHeld, StartAlone, ConnectingAlone, DestroyAlone,
         DestroyInKafka, DisconnectsHeld, RunsAConsumer, Parked, NoStart, NoDestroy
<1> QED
  BY <1>1, <1>2, <1>3, <1>4

-----------------------------------------------------------------------------

LEMMA InitImpliesIInv == Init => IInv
<1> SUFFICES ASSUME Init PROVE IInv
  OBVIOUS
<1> USE ConsumersAssumption DEF Init, Idle
<1>1. TypeOK
  <2>1. Idle \in [at : StartPoints, on : Consumers \cup {None}]
    BY DEF StartPoints
  <2>2. Idle \in [at : DestroyPoints, on : Consumers \cup {None}]
    BY DEF DestroyPoints
  <2>3. successes \in 0..(StabilityThreshold - 1)
    BY DEF StabilityThreshold
  <2> QED
    BY <2>1, <2>2, <2>3 DEF TypeOK
<1>2. NothingYet /\ ServiceConsumerIsHeld /\ NoStrayReader /\ WatchdogAlone
  BY DEF NothingYet, NoStart, NoDestroy, ServiceConsumerIsHeld, NoStrayReader,
         WatchdogAlone
<1>3. StartAlone /\ ConnectingAlone /\ DisconnectsHeld /\ RunsAConsumer
  BY DEF StartAlone, ConnectingAlone, DisconnectsHeld, RunsAConsumer
<1>4. DestroyAlone /\ DestroyInKafka
  BY DEF DestroyAlone, DestroyInKafka, NoDestroy
<1> QED
  BY <1>1, <1>2, <1>3, <1>4 DEF IInv

LEMMA StartStepKeepsIInv ==
  ASSUME IInv, NEW s \in Slots, StartStep(s)
  PROVE  IInv'
<1>1. CASE AlreadyExists(s)
  BY <1>1, FailsKeepsIInv DEF AlreadyExists, Idle
<1>2. CASE ConnectRejects(s)
  BY <1>2, FailsKeepsIInv DEF ConnectRejects, Idle
<1>3. CASE SubscribeRejects(s)
  BY <1>3, FailsKeepsIInv DEF SubscribeRejects, Idle
<1>4. CASE RunRejects(s)
  BY <1>4, FailsKeepsIInv DEF RunRejects, Idle
<1>5. CASE ConnectResolves(s)
  <2>1. CASE held # None
    BY <1>5, <2>1, ConnectedKeepsIInv
  <2>2. CASE held = None
    <3>1. starts[s] # Idle /\ consumer = None
      BY <1>5 DEF ConnectResolves, IInv, ConnectingAlone, Idle
    <3>2. Fails(s)
      BY <1>5, <2>2, <3>1 DEF ConnectResolves, Fails, instances
    <3> QED
      BY <3>1, <3>2, FailsKeepsIInv
  <2> QED
    BY <2>1, <2>2
<1>6. CASE SubscribeResolves(s)
  <2>1. CASE consumer # None
    BY <1>6, <2>1, SubscribedKeepsIInv
  <2>2. CASE consumer = None
    <3>1. starts[s] # Idle /\ watchdog = FALSE
      BY <1>6 DEF SubscribeResolves, IInv, WatchdogAlone, NoStart, TypeOK, Idle
    <3>2. Fails(s)
      BY <1>6, <2>2, <3>1
         DEF SubscribeResolves, Fails, HandleConsumerFailure, StartWatchdog
    <3> QED
      BY <3>1, <3>2, FailsKeepsIInv
  <2> QED
    BY <2>1, <2>2
<1>7. CASE RunResolves(s)
  BY <1>7, RunResolvesKeepsIInv
<1> QED
  BY <1>1, <1>2, <1>3, <1>4, <1>5, <1>6, <1>7 DEF StartStep

LEMMA DestroyStepKeepsIInv ==
  ASSUME IInv, NEW d \in Slots, DestroyStep(d)
  PROVE  IInv'
<1>1. CASE FlushSettles(d) /\ ~ ClientDestroy(d)
  <2>1. /\ destroys[d].at = "flushing" /\ consumer # None
        /\ destroys' = [destroys EXCEPT ![d] = Call("stopping", consumer)]
        /\ UNCHANGED <<mode, startup, consumer, held, reading, starts,
                       watchdog, successes, probing, brokerUp>>
    BY <1>1 DEF FlushSettles, dog
  <2>2. destroys[d] # Idle
    BY <2>1 DEF Idle
  <2> USE ConsumersAssumption DEF IInv, Idle, Call
  <2>3. TypeOK'
    BY <2>1 DEF TypeOK, DestroyPoints
  <2>4. /\ ServiceConsumerIsHeld' /\ StartAlone' /\ WatchdogAlone'
        /\ NoStrayReader' /\ RunsAConsumer'
    BY <2>1 DEF ServiceConsumerIsHeld, StartAlone, WatchdogAlone,
                NoStrayReader, RunsAConsumer, NoStart
  <2>5. NothingYet' /\ ConnectingAlone'
    BY <2>1, <2>2 DEF NothingYet, ConnectingAlone, NoDestroy
  <2>6. DestroyAlone' /\ DestroyInKafka'
    BY <1>1, <2>1, <2>2
       DEF DestroyAlone, DestroyInKafka, Parked, NoStart, NoDestroy, TypeOK
  <2>7. DisconnectsHeld'
    BY <2>1 DEF DisconnectsHeld, TypeOK
  <2> QED
    BY <2>3, <2>4, <2>5, <2>6, <2>7
<1>2. CASE FlushSettles(d) /\ ClientDestroy(d)
  <2>1. destroys[d] # Idle
    BY <1>2 DEF FlushSettles, Idle
  <2> QED
    BY <1>2, <2>1, ClientDestroyKeepsIInv DEF FlushSettles, dog
<1>3. CASE StopSettles(d)
  <2>1. destroys[d] # Idle
    BY <1>3 DEF StopSettles, Idle
  <2> QED
    BY <1>3, <2>1, ClientDestroyKeepsIInv DEF StopSettles, dog
<1>4. CASE DisconnectSettles(d)
  BY <1>4, DisconnectKeepsIInv
<1> QED
  BY <1>1, <1>2, <1>3, <1>4 DEF DestroyStep

LEMMA NextKeepsIInv ==
  ASSUME IInv, [Next]_vars
  PROVE  IInv'
<1> USE DEF instances, dog
<1>1. CASE OnModuleInit
  BY <1>1, OnModuleInitKeepsIInv
<1>2. CASE Listen
  BY <1>2, OthersKeepIInv DEF Listen, IInv, TypeOK
<1>3. ASSUME NEW s \in Slots, StartStep(s)
      PROVE  IInv'
  BY <1>3, StartStepKeepsIInv
<1>4. ASSUME NEW d \in Slots, DestroyStep(d)
      PROVE  IInv'
  BY <1>4, DestroyStepKeepsIInv
<1>5. ASSUME NEW c \in Consumers, ConsumerCrashes(c)
      PROVE  IInv'
  BY <1>5, OthersKeepIInv DEF ConsumerCrashes, IInv, TypeOK
<1>6. CASE WatchdogFires
  BY <1>6, OthersKeepIInv DEF WatchdogFires, IInv, TypeOK
<1>7. CASE ProbeAnswers
  <2>1. CASE brokerUp /\ Stable(successes)
    BY <1>7, <2>1, StableKeepsIInv
  <2>2. CASE ~ (brokerUp /\ Stable(successes))
    <3>1. /\ probing' = FALSE
          /\ UNCHANGED <<mode, startup, consumer, held, starts, destroys,
                         reading, watchdog, brokerUp>>
      BY <1>7, <2>2 DEF ProbeAnswers
    <3>2. successes' \in 0..(StabilityThreshold - 1)
      BY <1>7, <2>2
         DEF ProbeAnswers, Stable, StabilityThreshold, IInv, TypeOK
    <3> QED
      BY <3>1, <3>2, OthersKeepIInv DEF IInv, TypeOK
  <2> QED
    BY <2>1, <2>2
<1>8. CASE LoggerFailsOver
  BY <1>8, FailsOverKeepsIInv
<1>9. CASE BrokerChanges
  BY <1>9, OthersKeepIInv DEF BrokerChanges, IInv, TypeOK
<1>10. CASE UNCHANGED vars
  BY <1>10, OthersKeepIInv DEF vars, IInv, TypeOK
<1> QED
  BY <1>1, <1>2, <1>3, <1>4, <1>5, <1>6, <1>7, <1>8, <1>9, <1>10
     DEF Next, WorkerStep

-----------------------------------------------------------------------------

\* Every reachable state satisfies the inductive invariant.
THEOREM Invariance == SafeSpec => []IInv
<1>1. IInv /\ [Next]_vars => IInv'
  BY NextKeepsIInv
<1> QED
  BY InitImpliesIInv, <1>1, PTL DEF SafeSpec

\* Type correctness, for any number of consumers and of calls under way.
THEOREM TypeCorrect == SafeSpec => []TypeOK
<1>1. IInv => TypeOK
  BY DEF IInv
<1> QED
  BY Invariance, <1>1, PTL

\* The service never keeps a consumer that its client has let go of.
THEOREM ServiceConsumerIsHeldHolds == SafeSpec => []ServiceConsumerIsHeld
<1>1. IInv => ServiceConsumerIsHeld
  BY DEF IInv
<1> QED
  BY Invariance, <1>1, PTL

\* The check of startConsumer() and the assignment it guards are separated by
\* an await, and still no two calls of it ever overlap.
THEOREM OneStartHolds == SafeSpec => []OneStart
<1>1. IInv => OneStart
  BY DEF IInv, StartAlone, OneStart, InFlight
<1> QED
  BY Invariance, <1>1, PTL

\* No instance is created while an older one is still being destroyed.
THEOREM CreateNeverRacesDestroyHolds == SafeSpec => []CreateNeverRacesDestroy
<1>1. IInv => CreateNeverRacesDestroy
  BY DEF IInv, ConnectingAlone, NoDestroy, CreateNeverRacesDestroy, InFlight
<1> QED
  BY Invariance, <1>1, PTL

\* Only the instance that the client holds fetches messages.
THEOREM NoStrayReaderHolds == SafeSpec => []NoStrayReader
<1>1. IInv => NoStrayReader
  BY DEF IInv
<1> QED
  BY Invariance, <1>1, PTL

\* The watchdog polls in DIRECT mode only.
THEOREM WatchdogOnlyInDirectHolds == SafeSpec => []WatchdogOnlyInDirect
<1>1. IInv => WatchdogOnlyInDirect
  BY DEF IInv, WatchdogAlone, WatchdogOnlyInDirect
<1> QED
  BY Invariance, <1>1, PTL

-----------------------------------------------------------------------------
(* Readers, and the ways in and out of KAFKA mode.                         *)

Started(s) == starts[s].at \in {"subscribing", "running"}

\* A call past connect() works for an instance, which is the service's while
\* it is the client's.
StartedIsServed ==
  \A s \in Slots :
    Started(s) => /\ starts[s].on # None
                  /\ held = starts[s].on => consumer = held

\* In KAFKA mode it is the service's in any case.
StartedInKafka == mode = "KAFKA" => \A s \in Slots : Started(s) => consumer # None

\* The strengthening of RecoveryFindsNoReader: a consumer that reads is the
\* service's, so that no start begins beside it.
Readers ==
  /\ RecoveryFindsNoReader
  /\ reading # {} => consumer # None
  /\ StartedIsServed
  /\ StartedInKafka

\* A call that ends, or goes on with an instance that is the service's, while
\* nothing reads.
LEMMA StartStepKeepsReaders ==
  ASSUME IInv, Readers, NEW s \in Slots, StartStep(s)
  PROVE  Readers'
<1> USE ConsumersAssumption DEF IInv, Idle, Call
<1>1. starts[s] # Idle
  BY DEF StartStep, AlreadyExists, ConnectRejects, ConnectResolves, SubscribeRejects,
         SubscribeResolves, RunRejects, RunResolves
<1>2. reading = {} /\ ~ watchdog
  BY <1>1 DEF Readers, RecoveryFindsNoReader, NoStart, WatchdogAlone
<1>3. ASSUME starts' = [starts EXCEPT ![s] = Idle], UNCHANGED reading
      PROVE  Readers'
  <2>1. NoStart'
    BY <1>1, <1>3 DEF NoStart, StartAlone, TypeOK
  <2>2. \A t \in Slots : ~ Started(t)'
    BY <2>1 DEF NoStart, Started
  <2> QED
    BY <1>2, <1>3, <2>2
       DEF Readers, RecoveryFindsNoReader, StartedIsServed, StartedInKafka
<1>4. CASE AlreadyExists(s) \/ ConnectRejects(s) \/ SubscribeRejects(s) \/ RunRejects(s)
  <2>1. Fails(s)
    BY <1>4 DEF AlreadyExists, ConnectRejects, SubscribeRejects, RunRejects
  <2> QED
    BY <2>1, <1>3 DEF Fails, instances
<1>5. CASE ConnectResolves(s)
  <2>1. CASE held = None
    BY <1>5, <2>1, <1>3 DEF ConnectResolves
  <2>2. CASE held # None
    <3>1. /\ consumer' = held /\ held' = held /\ reading' = reading
          /\ starts' = [starts EXCEPT ![s] = Call("subscribing", held)]
      BY <1>5, <2>2 DEF ConnectResolves
    <3>2. \A t \in Slots : Started(t)' => starts'[t].on = held
      BY <1>1, <3>1 DEF Started, StartAlone, TypeOK
    <3> QED
      BY <1>2, <2>2, <3>1, <3>2
         DEF Readers, RecoveryFindsNoReader, StartedIsServed, StartedInKafka
  <2> QED
    BY <2>1, <2>2
<1>6. CASE SubscribeResolves(s)
  <2>1. CASE consumer = None
    BY <1>6, <2>1, <1>3 DEF SubscribeResolves, instances
  <2>2. CASE consumer # None
    <3>1. /\ UNCHANGED <<consumer, held, reading>>
          /\ starts' = [starts EXCEPT ![s] = Call("running", consumer)]
      BY <1>6, <2>2 DEF SubscribeResolves, instances
    <3>2. \A t \in Slots : Started(t)' => starts'[t].on = consumer
      BY <1>1, <3>1 DEF Started, StartAlone, TypeOK
    <3> QED
      BY <1>2, <2>2, <3>1, <3>2
         DEF Readers, RecoveryFindsNoReader, StartedIsServed, StartedInKafka
  <2> QED
    BY <2>1, <2>2
<1>7. CASE RunResolves(s)
  <2>1. /\ starts[s].at = "running"
        /\ starts' = [starts EXCEPT ![s] = Idle]
        /\ reading' = IF held = starts[s].on THEN reading \cup {held} ELSE reading
        /\ UNCHANGED <<mode, consumer, held, watchdog>>
    BY <1>7 DEF RunResolves, dog
  <2>2. NoStart'
    BY <1>1, <2>1 DEF NoStart, StartAlone, TypeOK
  <2>3. \A t \in Slots : ~ Started(t)'
    BY <2>2 DEF NoStart, Started
  <2>4. held = starts[s].on => consumer # None
    <3>1. Started(s)
      BY <2>1 DEF Started
    <3> QED
      BY <3>1 DEF Readers, StartedIsServed
  <2> QED
    BY <1>2, <2>1, <2>2, <2>3, <2>4
       DEF Readers, RecoveryFindsNoReader, StartedIsServed, StartedInKafka
<1> QED
  BY <1>4, <1>5, <1>6, <1>7 DEF StartStep

\* The service loses its consumer when the client has none, and then nothing
\* reads; in KAFKA mode nothing is being started beside it.
LEMMA DestroyStepKeepsReaders ==
  ASSUME IInv, Readers, NEW d \in Slots, DestroyStep(d)
  PROVE  Readers'
<1> USE ConsumersAssumption DEF Idle, Call
<1>1. /\ destroys[d] # Idle /\ reading' \subseteq reading
      /\ UNCHANGED <<mode, starts, watchdog>>
      /\ \/ UNCHANGED <<consumer, held>>
         \/ consumer' = None /\ held' = None
  <2>1. CASE FlushSettles(d)
    BY <2>1 DEF FlushSettles, ClientDestroy, dog
  <2>2. CASE StopSettles(d)
    BY <2>2 DEF StopSettles, ClientDestroy, dog
  <2>3. CASE DisconnectSettles(d)
    BY <2>3 DEF DisconnectSettles, dog
  <2> QED
    BY <2>1, <2>2, <2>3 DEF DestroyStep
<1>2. CASE UNCHANGED <<consumer, held>>
  BY <1>1, <1>2 DEF Readers, RecoveryFindsNoReader, NoStart, StartedIsServed,
                    StartedInKafka, Started
<1>3. CASE consumer' = None /\ held' = None
  <2>1. reading' = {}
    BY <1>3, DestroyStepKeepsIInv DEF IInv, NoStrayReader, TypeOK
  <2>2. mode' # "KAFKA" \/ NoStart
    BY <1>1 DEF IInv, DestroyInKafka, NoDestroy
  <2>3. StartedInKafka'
    BY <1>1, <2>2 DEF StartedInKafka, Started, NoStart
  <2>4. StartedIsServed'
    BY <1>1, <1>3 DEF Readers, StartedIsServed, Started
  <2> QED
    BY <2>1, <2>3, <2>4 DEF Readers, RecoveryFindsNoReader
<1> QED
  BY <1>1, <1>2, <1>3

\* A new call has not connected yet, and nothing reads when it begins.
LEMMA NewStartKeepsReaders ==
  ASSUME IInv, Readers, NoStart, consumer = None => reading = {},
         StartConsumer, watchdog' => watchdog, UNCHANGED <<consumer, reading>>
  PROVE  Readers'
<1> USE DEF Idle, Call
<1>1. consumer # None => UNCHANGED starts
  BY DEF StartConsumer
<1>2. \A s \in Slots : starts'[s] = Idle \/ starts'[s].at \in {"rejected", "connecting"}
  BY DEF StartConsumer, NoStart, IInv, TypeOK
<1>3. \A s \in Slots : ~ Started(s)'
  BY <1>2 DEF Started
<1> QED
  BY <1>1, <1>3 DEF Readers, RecoveryFindsNoReader, StartedIsServed,
                    StartedInKafka, NoStart

LEMMA NextKeepsReaders ==
  ASSUME IInv, Readers, [Next]_vars
  PROVE  Readers'
<1> USE DEF instances, dog
<1>1. ASSUME UNCHANGED <<consumer, held, starts, watchdog>>,
             mode' = mode \/ mode' = "DIRECT", reading' \subseteq reading
      PROVE  Readers'
  BY <1>1 DEF Readers, RecoveryFindsNoReader, NoStart, StartedIsServed,
              StartedInKafka, Started
<1>2. CASE OnModuleInit
  <2>1. NoStart /\ ~ watchdog /\ consumer = None /\ reading = {}
    BY <1>2 DEF OnModuleInit, IInv, NothingYet, Readers
  <2>2. CASE StartConsumer
    BY <1>2, <2>1, <2>2, NewStartKeepsReaders DEF OnModuleInit
  <2>3. CASE UNCHANGED <<held, starts>>
    BY <1>2, <2>3, <1>1 DEF OnModuleInit
  <2> QED
    BY <1>2, <2>2, <2>3 DEF OnModuleInit
<1>3. ASSUME NEW s \in Slots, StartStep(s)
      PROVE  Readers'
  BY <1>3, StartStepKeepsReaders
<1>4. ASSUME NEW d \in Slots, DestroyStep(d)
      PROVE  Readers'
  BY <1>4, DestroyStepKeepsReaders
<1>5. CASE ProbeAnswers
  <2>1. CASE Stable(successes) /\ brokerUp
    <3>1. /\ NoStart /\ reading = {}
          /\ watchdog' = FALSE
          /\ UNCHANGED <<consumer, reading>>
          /\ SetModeKafka
      BY <1>5, <2>1 DEF ProbeAnswers, StopWatchdog, IInv, WatchdogAlone, Readers,
                        RecoveryFindsNoReader
    <3>2. StartConsumer
      BY <1>5, <3>1 DEF SetModeKafka, ProbeAnswers, IInv, WatchdogAlone
    <3> QED
      BY <3>1, <3>2, NewStartKeepsReaders
  <2>2. CASE UNCHANGED <<mode, held, starts, watchdog>>
    BY <1>5, <2>2, <1>1 DEF ProbeAnswers
  <2> QED
    BY <1>5, <2>1, <2>2 DEF ProbeAnswers
<1>6. CASE LoggerFailsOver
  BY <1>6, <1>1 DEF LoggerFailsOver, SetModeDirect
<1>7. ASSUME NEW c \in Consumers, ConsumerCrashes(c)
      PROVE  Readers'
  BY <1>7, <1>1 DEF ConsumerCrashes
<1>8. CASE Listen \/ WatchdogFires \/ BrokerChanges
  BY <1>8, <1>1 DEF Listen, WatchdogFires, BrokerChanges
<1>9. CASE UNCHANGED vars
  BY <1>9, <1>1 DEF vars
<1> QED
  BY <1>2, <1>3, <1>4, <1>5, <1>6, <1>7, <1>8, <1>9 DEF Next, WorkerStep

LEMMA ReadersInvariant == SafeSpec => []Readers
<1>1. Init => Readers
  BY DEF Init, Readers, RecoveryFindsNoReader, StartedIsServed, StartedInKafka,
         Started, Idle
<1>2. IInv /\ Readers /\ [Next]_vars => Readers'
  BY NextKeepsReaders
<1> QED
  BY <1>1, <1>2, Invariance, PTL DEF SafeSpec

\* No start and no watchdog ever finds a consumer reading.
THEOREM RecoveryFindsNoReaderHolds == SafeSpec => []RecoveryFindsNoReader
<1>1. Readers => RecoveryFindsNoReader
  BY DEF Readers
<1> QED
  BY ReadersInvariant, <1>1, PTL

\* What a step into KAFKA mode, or within it, does to the consumer.
LEMMA StepServesKafka ==
  ASSUME IInv, Readers, [Next]_vars,
         mode' = "KAFKA", startup' # "new", ~ Served'
  PROVE  /\ mode = "KAFKA" /\ startup # "new"
         /\ ~ Served \/ ~ NoDestroy
<1> USE ConsumersAssumption DEF instances, dog, Idle, Call
<1>1. ASSUME UNCHANGED <<mode, consumer, starts>>, startup # "new"
      PROVE  mode = "KAFKA" /\ startup # "new" /\ ~ Served
  BY <1>1 DEF Served, NoStart
<1>2. ASSUME StartConsumer, UNCHANGED consumer
      PROVE  FALSE
  <2>1. consumer = None
    BY <1>2 DEF Served
  <2>2. \E s \in Slots : starts'[s] # Idle
    BY <1>2, <2>1 DEF StartConsumer, IInv, TypeOK
  <2> QED
    BY <2>2 DEF Served, NoStart
<1>3. CASE OnModuleInit
  <2>1. mode = "KAFKA" /\ StartConsumer
    BY <1>3 DEF OnModuleInit
  <2> QED
    BY <1>2, <1>3, <2>1 DEF OnModuleInit
<1>4. ASSUME NEW s \in Slots, StartStep(s)
      PROVE  FALSE
  <2>1. ~ Fails(s)
    BY DEF Fails, HandleConsumerFailure, SetModeDirect
  <2>2. ~ (AlreadyExists(s) \/ ConnectRejects(s) \/ SubscribeRejects(s) \/ RunRejects(s))
    BY <2>1 DEF AlreadyExists, ConnectRejects, SubscribeRejects, RunRejects
  <2>3. ~ ConnectResolves(s)
    BY DEF ConnectResolves, HandleConsumerFailure, SetModeDirect, Served
  <2>4. ~ SubscribeResolves(s)
    BY DEF SubscribeResolves, SetModeDirect, Served
  <2>5. ~ RunResolves(s)
    <3>1. SUFFICES ASSUME RunResolves(s) PROVE FALSE
      OBVIOUS
    <3>2. mode = "KAFKA" /\ Started(s) /\ consumer' = consumer
      BY <3>1 DEF RunResolves, Started
    <3> QED
      BY <3>2 DEF Readers, StartedInKafka, Served
  <2> QED
    BY <1>4, <2>2, <2>3, <2>4, <2>5 DEF StartStep
<1>5. ASSUME NEW d \in Slots, DestroyStep(d)
      PROVE  mode = "KAFKA" /\ startup # "new" /\ ~ NoDestroy
  <2>1. destroys[d] # Idle /\ mode' = mode /\ startup' = startup
    BY <1>5 DEF DestroyStep, FlushSettles, StopSettles, DisconnectSettles
  <2> QED
    BY <2>1 DEF NoDestroy
<1>6. CASE ProbeAnswers
  <2>1. watchdog /\ startup # "new" /\ mode = "DIRECT" /\ consumer' = consumer
    BY <1>6 DEF ProbeAnswers, IInv, WatchdogAlone, NothingYet
  <2>2. StartConsumer
    BY <1>6, <2>1 DEF ProbeAnswers, SetModeKafka
  <2> QED
    BY <1>2, <2>1, <2>2
<1>7. CASE LoggerFailsOver
  BY <1>7 DEF LoggerFailsOver, SetModeDirect
<1>8. ASSUME NEW c \in Consumers, ConsumerCrashes(c)
      PROVE  mode = "KAFKA" /\ startup # "new" /\ ~ Served
  BY <1>8, <1>1 DEF ConsumerCrashes
<1>9. CASE Listen \/ WatchdogFires \/ BrokerChanges
  BY <1>9, <1>1 DEF Listen, WatchdogFires, BrokerChanges
<1>10. CASE UNCHANGED vars
  BY <1>10, <1>1 DEF vars
<1> QED
  BY <1>3, <1>4, <1>5, <1>6, <1>7, <1>8, <1>9, <1>10 DEF Next, WorkerStep

\* KAFKA mode loses its consumer only to a destroy that began in DIRECT mode.
THEOREM KafkaIsServedHolds == SafeSpec => KafkaIsServed
<1>1. IInv /\ Readers /\ [Next]_vars
        => [mode' = "KAFKA" /\ startup' # "new" /\ ~ Served'
            => /\ mode = "KAFKA" /\ startup # "new"
               /\ ~ Served \/ ~ NoDestroy]_vars
  BY StepServesKafka
<1> QED
  BY <1>1, Invariance, ReadersInvariant, PTL DEF SafeSpec, KafkaIsServed

LEMMA StepStaysParked ==
  ASSUME IInv, Parked, [Next]_vars
  PROVE  Parked'
<1> USE DEF Parked, instances, dog
<1>1. ~ probing
  BY DEF IInv, WatchdogAlone
<1>2. CASE OnModuleInit
  BY <1>2 DEF OnModuleInit, NoStart
<1>3. ASSUME NEW s \in Slots, StartStep(s)
      PROVE  FALSE
  BY <1>3 DEF StartStep, AlreadyExists, ConnectRejects, ConnectResolves,
     SubscribeRejects, SubscribeResolves, RunRejects, RunResolves, NoStart, Idle
<1>4. ASSUME NEW d \in Slots, DestroyStep(d)
      PROVE  Parked'
  BY <1>4 DEF DestroyStep, FlushSettles, StopSettles, DisconnectSettles, NoStart
<1>5. ASSUME NEW c \in Consumers, ConsumerCrashes(c)
      PROVE  Parked'
  BY <1>5 DEF ConsumerCrashes, NoStart
<1>6. CASE Listen \/ BrokerChanges
  BY <1>6 DEF Listen, BrokerChanges, NoStart
<1>7. CASE WatchdogFires \/ ProbeAnswers \/ LoggerFailsOver
  BY <1>1, <1>7 DEF WatchdogFires, ProbeAnswers, LoggerFailsOver
<1>8. CASE UNCHANGED vars
  BY <1>8 DEF vars, NoStart
<1> QED
  BY <1>2, <1>3, <1>4, <1>5, <1>6, <1>7, <1>8 DEF Next, WorkerStep

\* Nothing leads out of DIRECT mode once no watchdog runs and nothing starts.
THEOREM ParkedForGoodHolds == SafeSpec => ParkedForGood
<1>1. IInv /\ [Next]_vars => [Parked => Parked']_vars
  BY StepStaysParked
<1> QED
  BY <1>1, Invariance, PTL DEF SafeSpec, ParkedForGood

-----------------------------------------------------------------------------
(* The pipeline.                                                           *)

\* Every step of the pipeline is a step of the worker or leaves it alone.
LEMMA StepIsWorkerStep ==
  ASSUME [PipelineNext]_pipelineVars
  PROVE  [Next]_vars
<1> USE DEF vars, worker, instances, dog
<1>1. CASE Startup
  BY <1>1 DEF Startup, Next
<1>2. CASE Runs(WorkerStep)
  BY <1>2 DEF Runs, Next
<1>3. CASE Connects(Producer!ClientStep)
  BY <1>3 DEF Connects
<1>4. ASSUME NEW e \in Events, Log(e)
      PROVE  [Next]_vars
  <2>1. CASE LogDirectly(e)
    BY <2>1 DEF LogDirectly, SwitchToDirect, Next
  <2>2. CASE Publish(e)
    BY <2>2 DEF Publish
  <2> QED
    BY <1>4, <2>1, <2>2 DEF Log
<1>5. ASSUME NEW e \in Events, PublishResolves(e)
      PROVE  [Next]_vars
  BY <1>5 DEF PublishResolves
<1>6. ASSUME NEW e \in Events, NEW written \in BOOLEAN, PublishRejects(e, written)
      PROVE  [Next]_vars
  BY <1>6 DEF PublishRejects, SwitchToDirect, Next
<1>7. CASE UNCHANGED pipelineVars
  BY <1>7 DEF pipelineVars
<1> QED
  BY <1>1, <1>2, <1>3, <1>4, <1>5, <1>6, <1>7 DEF PipelineNext

\* The logger, the producer and the events added to the worker give it no
\* behaviour it does not have alone: the pipeline refines MqConsumerService.
THEOREM PipelineImplementsWorker == PipelineSafeSpec => SafeSpec
<1>1. PipelineInit => Init
  BY DEF PipelineInit
<1> QED
  BY <1>1, StepIsWorkerStep, PTL DEF PipelineSafeSpec, SafeSpec

\* The calls of startConsumer and destroyConsumer never get in each other's
\* way when it is KafkaLogger that switches the mode.
THEOREM WorkerIsSafe ==
  PipelineSafeSpec => [](/\ ServiceConsumerIsHeld
                         /\ OneStart
                         /\ CreateNeverRacesDestroy
                         /\ NoStrayReader
                         /\ WatchdogOnlyInDirect
                         /\ RecoveryFindsNoReader)
BY PipelineImplementsWorker, ServiceConsumerIsHeldHolds, OneStartHolds,
   CreateNeverRacesDestroyHolds, NoStrayReaderHolds, WatchdogOnlyInDirectHolds,
   RecoveryFindsNoReaderHolds, PTL

\* KafkaLogger, which switches to DIRECT and arms nothing, can leave a mode that
\* only a restart changes, and no other way out of KAFKA mode loses a consumer.
THEOREM WorkerNeverLeavesParking ==
  PipelineSafeSpec => KafkaIsServed /\ ParkedForGood
BY PipelineImplementsWorker, KafkaIsServedHolds, ParkedForGoodHolds, PTL

-----------------------------------------------------------------------------
(* Types.                                                                  *)

ProducerTypeOK == Producer!TypeOK
EventsTypeOK == /\ publishing \in SUBSET Events /\ failedOver \in SUBSET Events
                /\ inTopic \in SUBSET Events /\ inFallback \in SUBSET Events

LEMMA StartWatchdogKeepsType ==
  ASSUME Producer!TypeOK, Producer!StartWatchdog
  PROVE  producerDog' \in BOOLEAN /\ streak' \in 0..(Producer!Threshold - 1)
<1> USE DEF Producer!TypeOK, Producer!StartWatchdog, Producer!Threshold
<1>1. producerDog' \in BOOLEAN
  BY Zenon
<1>2. streak' = streak \/ streak' = 0
  BY Zenon
<1> QED
  BY <1>1, <1>2

LEMMA ClientStepKeepsType ==
  ASSUME Producer!TypeOK, Producer!ClientStep
  PROVE  Producer!TypeOK'
<1> USE DEF Producer!TypeOK, Producer!Threshold
<1>1. CASE Producer!InitialFails
  BY <1>1, StartWatchdogKeepsType DEF Producer!InitialFails
<1>2. CASE Producer!InitialProbeSucceeds
  BY <1>2 DEF Producer!InitialProbeSucceeds
<1>3. CASE Producer!InitialConnects
  BY <1>3 DEF Producer!InitialConnects
<1>4. CASE Producer!DogFires
  BY <1>4 DEF Producer!DogFires
<1>5. CASE Producer!DogProbeSucceeds
  <2>1. producerDog' \in BOOLEAN
    BY <1>5, Zenon DEF Producer!DogProbeSucceeds
  <2>2. /\ streak' \in 0..(Producer!Threshold - 1)
        /\ tick' \in {"idle", "connecting"}
        /\ UNCHANGED <<isConnected, initial, healthChecks>>
    BY <1>5 DEF Producer!DogProbeSucceeds
  <2> QED
    BY <2>1, <2>2
<1>6. CASE Producer!DogConnects
  BY <1>6 DEF Producer!DogConnects
<1>7. CASE Producer!DogFails
  BY <1>7 DEF Producer!DogFails
<1>8. CASE Producer!HealthCheckAnswers
  <2>1. /\ healthChecks' \in Nat
        /\ UNCHANGED <<tick, initial>>
    BY <1>8 DEF Producer!HealthCheckAnswers
  <2>2. CASE isConnected' = FALSE /\ Producer!StartWatchdog
    BY <2>1, <2>2, StartWatchdogKeepsType
  <2>3. CASE UNCHANGED <<isConnected, producerDog, streak>>
    BY <2>1, <2>3
  <2> QED
    BY <1>8, <2>2, <2>3, Zenon DEF Producer!HealthCheckAnswers
<1>9. CASE Producer!Disconnected
  BY <1>9, StartWatchdogKeepsType DEF Producer!Disconnected
<1> QED
  BY <1>1, <1>2, <1>3, <1>4, <1>5, <1>6, <1>7, <1>8, <1>9
     DEF Producer!ClientStep, Producer!InitialStep, Producer!DogAnswers

LEMMA StepKeepsProducerType ==
  ASSUME ProducerTypeOK, [PipelineNext]_pipelineVars
  PROVE  ProducerTypeOK'
<1> USE DEF ProducerTypeOK, connection, Producer!TypeOK
<1>1. CASE Startup
  BY <1>1 DEF Startup, Producer!OnModuleInit
<1>2. CASE Runs(WorkerStep)
  BY <1>2 DEF Runs
<1>3. CASE Connects(Producer!ClientStep)
  BY <1>3, ClientStepKeepsType DEF Connects
<1>4. ASSUME NEW e \in Events, Log(e) \/ PublishResolves(e)
      PROVE  ProducerTypeOK'
  BY <1>4 DEF Log, PublishResolves
<1>5. ASSUME NEW e \in Events, NEW written \in BOOLEAN, PublishRejects(e, written)
      PROVE  ProducerTypeOK'
  BY <1>5 DEF PublishRejects, Producer!TriggerHealthCheck
<1>6. CASE UNCHANGED pipelineVars
  BY <1>6 DEF pipelineVars
<1> QED
  BY <1>1, <1>2, <1>3, <1>4, <1>5, <1>6 DEF PipelineNext

LEMMA StepKeepsEventsType ==
  ASSUME EventsTypeOK, [PipelineNext]_pipelineVars
  PROVE  EventsTypeOK'
<1> USE DEF EventsTypeOK, events, Fallback
<1>1. CASE Startup \/ Runs(WorkerStep) \/ Connects(Producer!ClientStep)
  BY <1>1 DEF Startup, Runs, Connects
<1>2. ASSUME NEW e \in Events, Log(e)
      PROVE  EventsTypeOK'
  BY <1>2 DEF Log, LogDirectly, Publish
<1>3. ASSUME NEW e \in Events, PublishResolves(e)
      PROVE  EventsTypeOK'
  BY <1>3 DEF PublishResolves
<1>4. ASSUME NEW e \in Events, NEW written \in BOOLEAN, PublishRejects(e, written)
      PROVE  EventsTypeOK'
  BY <1>4 DEF PublishRejects
<1>5. CASE UNCHANGED pipelineVars
  BY <1>5 DEF pipelineVars
<1> QED
  BY <1>1, <1>2, <1>3, <1>4, <1>5 DEF PipelineNext

\* Every variable of the pipeline keeps its type: the worker's by the
\* refinement, the producer's and the events' by their own steps.
THEOREM PipelineTypeCorrect == PipelineSafeSpec => []PipelineTypeOK
<1>1. PipelineInit => ProducerTypeOK /\ EventsTypeOK
  <2>1. PipelineInit => EventsTypeOK
    BY DEF PipelineInit, EventsTypeOK
  <2>2. Producer!Init => ProducerTypeOK
    <3>1. 0 \in 0..(Producer!Threshold - 1) /\ 0 \in Nat
      BY DEF Producer!Threshold
    <3> QED
      BY <3>1, Zenon DEF Producer!Init, ProducerTypeOK, Producer!TypeOK
  <2> QED
    BY <2>1, <2>2 DEF PipelineInit
<1>2. /\ ProducerTypeOK /\ [PipelineNext]_pipelineVars => ProducerTypeOK'
      /\ EventsTypeOK /\ [PipelineNext]_pipelineVars => EventsTypeOK'
  BY StepKeepsProducerType, StepKeepsEventsType
<1>3. TypeOK /\ ProducerTypeOK /\ EventsTypeOK => PipelineTypeOK
  BY DEF PipelineTypeOK, ProducerTypeOK, EventsTypeOK, events
<1> QED
  BY <1>1, <1>2, <1>3, PipelineImplementsWorker, TypeCorrect, PTL
     DEF PipelineSafeSpec

-----------------------------------------------------------------------------

LEMMA ClientStepKeepsReconnectPending ==
  ASSUME Producer!ReconnectPending, Producer!ClientStep
  PROVE  Producer!ReconnectPending'
<1> USE DEF Producer!ReconnectPending, Producer!StartWatchdog
<1>1. CASE Producer!InitialFails
  BY <1>1 DEF Producer!InitialFails
<1>2. CASE Producer!InitialProbeSucceeds
  BY <1>2 DEF Producer!InitialProbeSucceeds
<1>3. CASE Producer!InitialConnects
  BY <1>3 DEF Producer!InitialConnects
<1>4. CASE Producer!DogFires
  BY <1>4 DEF Producer!DogFires
<1>5. CASE Producer!DogProbeSucceeds
  <2>1. /\ isConnected' = isConnected /\ initial' = initial
        /\ producerDog' = producerDog \/ producerDog' = (producerDog /\ ~ isConnected)
    BY <1>5 DEF Producer!DogProbeSucceeds
  <2>2. CASE isConnected
    BY <2>1, <2>2, Zenon
  <2>3. CASE ~ isConnected
    BY <2>1, <2>3, Zenon
  <2> QED
    BY <2>2, <2>3
<1>6. CASE Producer!DogConnects
  BY <1>6 DEF Producer!DogConnects
<1>7. CASE Producer!DogFails
  BY <1>7 DEF Producer!DogFails
<1>8. CASE Producer!HealthCheckAnswers
  BY <1>8 DEF Producer!HealthCheckAnswers
<1>9. CASE Producer!Disconnected
  BY <1>9 DEF Producer!Disconnected
<1> QED
  BY <1>1, <1>2, <1>3, <1>4, <1>5, <1>6, <1>7, <1>8, <1>9
     DEF Producer!ClientStep, Producer!InitialStep, Producer!DogAnswers

LEMMA StepKeepsReconnectPending ==
  ASSUME Producer!ReconnectPending, [PipelineNext]_pipelineVars
  PROVE  Producer!ReconnectPending'
<1> USE DEF connection, Producer!ReconnectPending
<1>1. CASE Startup
  <2>1. /\ initial' = "probing"
        /\ isConnected' = isConnected /\ producerDog' = producerDog
    BY <1>1 DEF Startup, Producer!OnModuleInit
  <2>2. initial' # "done"
    BY <2>1
  <2> QED
    BY <2>2
<1>2. CASE Runs(WorkerStep)
  BY <1>2 DEF Runs
<1>3. CASE Connects(Producer!ClientStep)
  BY <1>3, ClientStepKeepsReconnectPending DEF Connects
<1>4. ASSUME NEW e \in Events, Log(e)
      PROVE  Producer!ReconnectPending'
  BY <1>4 DEF Log
<1>5. ASSUME NEW e \in Events, PublishResolves(e)
      PROVE  Producer!ReconnectPending'
  BY <1>5 DEF PublishResolves
<1>6. ASSUME NEW e \in Events, NEW written \in BOOLEAN, PublishRejects(e, written)
      PROVE  Producer!ReconnectPending'
  BY <1>6 DEF PublishRejects, Producer!TriggerHealthCheck
<1>7. CASE UNCHANGED pipelineVars
  BY <1>7 DEF pipelineVars
<1> QED
  BY <1>1, <1>2, <1>3, <1>4, <1>5, <1>6, <1>7 DEF PipelineNext

\* However startup, health checks, disconnections and watchdog ticks overlap,
\* a producer that is not connected has its first connection under way or its
\* watchdog armed.
THEOREM ReconnectPendingHolds == PipelineSafeSpec => []ReconnectPending
<1>1. PipelineInit => Producer!ReconnectPending
  BY DEF PipelineInit, Producer!Init, Producer!ReconnectPending
<1>2. Producer!ReconnectPending /\ [PipelineNext]_pipelineVars
        => Producer!ReconnectPending'
  BY StepKeepsReconnectPending
<1> QED
  BY <1>1, <1>2, PTL DEF PipelineSafeSpec, ReconnectPending

-----------------------------------------------------------------------------

LEMMA StepKeepsRouting ==
  ASSUME EveryEventIsRouted, [PipelineNext]_pipelineVars
  PROVE  EveryEventIsRouted'
<1> USE DEF events, EveryEventIsRouted, Logged
<1>1. CASE Startup
  BY <1>1 DEF Startup
<1>2. CASE Runs(WorkerStep)
  BY <1>2 DEF Runs
<1>3. CASE Connects(Producer!ClientStep)
  BY <1>3 DEF Connects
<1>4. ASSUME NEW e \in Events, Log(e)
      PROVE  EveryEventIsRouted'
  <2>1. CASE LogDirectly(e)
    BY <1>4, <2>1 DEF Log, LogDirectly, Fallback
  <2>2. CASE Publish(e)
    BY <1>4, <2>2 DEF Log, Publish
  <2> QED
    BY <1>4, <2>1, <2>2 DEF Log
<1>5. ASSUME NEW e \in Events, PublishResolves(e)
      PROVE  EveryEventIsRouted'
  BY <1>5 DEF PublishResolves
<1>6. ASSUME NEW e \in Events, NEW written \in BOOLEAN, PublishRejects(e, written)
      PROVE  EveryEventIsRouted'
  BY <1>6 DEF PublishRejects, Fallback
<1>7. CASE UNCHANGED pipelineVars
  BY <1>7 DEF pipelineVars
<1> QED
  BY <1>1, <1>2, <1>3, <1>4, <1>5, <1>6, <1>7 DEF PipelineNext

\* Every event that log() was given and has answered for is in the topic or
\* with the fallback, and in both only after a publish that failed late.
THEOREM EveryEventIsRoutedHolds == PipelineSafeSpec => []EveryEventIsRouted
<1>1. PipelineInit => EveryEventIsRouted
  BY DEF PipelineInit, EveryEventIsRouted, Logged
<1>2. EveryEventIsRouted /\ [PipelineNext]_pipelineVars => EveryEventIsRouted'
  BY StepKeepsRouting
<1> QED
  BY <1>1, <1>2, PTL DEF PipelineSafeSpec

-----------------------------------------------------------------------------
(* What log() promises.                                                    *)

\* Nothing is published and in the topic or with the fallback, and an event
\* whose publish failed is with the fallback.
RoutedApart ==
  /\ publishing \cap (inTopic \cup inFallback) = {}
  /\ failedOver \subseteq inFallback

LEMMA StepKeepsRoutedApart ==
  ASSUME RoutedApart, [PipelineNext]_pipelineVars
  PROVE  RoutedApart'
<1> USE DEF RoutedApart, Fallback, Logged
<1>1. CASE Startup \/ Runs(WorkerStep) \/ Connects(Producer!ClientStep)
  BY <1>1 DEF Startup, Runs, Connects, events
<1>2. ASSUME NEW e \in Events, Log(e)
      PROVE  RoutedApart'
  BY <1>2 DEF Log, LogDirectly, Publish
<1>3. ASSUME NEW e \in Events, PublishResolves(e)
      PROVE  RoutedApart'
  BY <1>3 DEF PublishResolves
<1>4. ASSUME NEW e \in Events, NEW written \in BOOLEAN, PublishRejects(e, written)
      PROVE  RoutedApart'
  BY <1>4 DEF PublishRejects
<1>5. CASE UNCHANGED pipelineVars
  BY <1>5 DEF pipelineVars, events
<1> QED
  BY <1>1, <1>2, <1>3, <1>4, <1>5 DEF PipelineNext

\* A step that concerns e alone moves no other event.
LEMMA RouteMoves ==
  ASSUME NEW e \in Events,
         \A x \in Events \ {e} : /\ x \in publishing' <=> x \in publishing
                                 /\ x \in failedOver' <=> x \in failedOver
                                 /\ x \in inTopic' <=> x \in inTopic
                                 /\ x \in inFallback' <=> x \in inFallback
  PROVE  Route' = [Route EXCEPT ![e] = Route'[e]]
<1>1. \A x \in Events \ {e} : Route'[x] = Route[x]
  BY Zenon DEF Route
<1>2. /\ Route' = [x \in Events |-> Route'[x]]
      /\ [Route EXCEPT ![e] = Route'[e]]
           = [x \in Events |-> IF x = e THEN Route'[e] ELSE Route[x]]
  BY DEF Route
<1> HIDE DEF Route
<1>3. \A x \in Events : Route'[x] = IF x = e THEN Route'[e] ELSE Route[x]
  BY <1>1
<1> QED
  BY <1>2, <1>3

LEMMA StepIsRoutingStep ==
  ASSUME RoutedApart, EventsTypeOK, [PipelineNext]_pipelineVars
  PROVE  [Routing!Next]_<<Route, inFallback, inTopic>>
<1> USE DEF RoutedApart, Fallback, Logged
<1>1. CASE UNCHANGED events
  BY <1>1 DEF events, Route
<1>2. CASE Startup \/ Runs(WorkerStep) \/ Connects(Producer!ClientStep)
  BY <1>1, <1>2 DEF Startup, Runs, Connects
<1>3. ASSUME NEW e \in Events, Log(e), LogDirectly(e)
      PROVE  Routing!Divert(e)
  <2>1. Route[e] = "new" /\ Route'[e] = "direct"
    BY <1>3 DEF Route, Log, LogDirectly
  <2>2. Route' = [Route EXCEPT ![e] = Route'[e]]
    BY <1>3, RouteMoves DEF LogDirectly
  <2> QED
    BY <1>3, <2>1, <2>2 DEF Routing!Divert, Routing!Moves, LogDirectly
<1>4. ASSUME NEW e \in Events, Log(e), Publish(e)
      PROVE  Routing!Send(e)
  <2>1. Route[e] = "new" /\ Route'[e] = "publishing"
    BY <1>4 DEF Route, Log, Publish
  <2>2. Route' = [Route EXCEPT ![e] = Route'[e]]
    BY <1>4, RouteMoves DEF Publish
  <2> QED
    BY <1>4, <2>1, <2>2 DEF Routing!Send, Routing!Moves, Publish
<1>5. ASSUME NEW e \in Events, PublishResolves(e)
      PROVE  Routing!Resolve(e)
  <2>1. Route[e] = "publishing" /\ Route'[e] = "sent"
    BY <1>5 DEF Route, PublishResolves
  <2>2. Route' = [Route EXCEPT ![e] = Route'[e]]
    BY <1>5, RouteMoves DEF PublishResolves
  <2> QED
    BY <1>5, <2>1, <2>2 DEF Routing!Resolve, Routing!Moves, PublishResolves
<1>6. ASSUME NEW e \in Events, NEW w \in BOOLEAN, PublishRejects(e, w)
      PROVE  Routing!Reject(e)
  <2>1. Route[e] = "publishing" /\ Route'[e] = "failedOver"
    BY <1>6 DEF Route, PublishRejects
  <2>2. Route' = [Route EXCEPT ![e] = Route'[e]]
    BY <1>6, RouteMoves DEF PublishRejects
  <2> QED
    BY <1>6, <2>1, <2>2 DEF Routing!Reject, Routing!Moves, PublishRejects
<1>7. CASE UNCHANGED pipelineVars
  BY <1>1, <1>7 DEF pipelineVars
<1>8. CASE PipelineNext
  BY <1>2, <1>3, <1>4, <1>5, <1>6, <1>8 DEF PipelineNext, Log, Routing!Next
<1> QED
  BY <1>7, <1>8

\* Mode, connection and broker change nothing in what log() promises.
THEOREM PipelineImplementsRouting == PipelineSafeSpec => ImplementsRouting
<1>1. PipelineInit => RoutedApart /\ EventsTypeOK /\ Routing!Init
  BY DEF PipelineInit, RoutedApart, EventsTypeOK, Routing!Init, Route
<1>2. /\ RoutedApart /\ [PipelineNext]_pipelineVars => RoutedApart'
      /\ EventsTypeOK /\ [PipelineNext]_pipelineVars => EventsTypeOK'
  BY StepKeepsRoutedApart, StepKeepsEventsType
<1>3. RoutedApart /\ EventsTypeOK /\ [PipelineNext]_pipelineVars
        => [Routing!Next]_<<Route, inFallback, inTopic>>
  BY StepIsRoutingStep
<1> QED
  BY <1>1, <1>2, <1>3, PTL DEF PipelineSafeSpec, ImplementsRouting, Routing!Spec
=============================================================================
