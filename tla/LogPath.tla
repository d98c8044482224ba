------------------------------ MODULE LogPath ------------------------------
(***************************************************************************)
(* The way of an event with STORAGE_TYPE=kafka, from KafkaLogger.log() to  *)
(* the collection: to MongoLogger at once, or over the topic, the batch of *)
(* MqConsumerService and the same MongoLogger.                             *)
(*                                                                         *)
(* When the mode changes and the producer is connected is the business of  *)
(* KafkaPipeline; here log() may take either way.  The events handed to    *)
(* log() are those of ConsumerBatch that are no deliveries; topic[p] is    *)
(* the message at offset p - 1.  The producer writes every message with a  *)
(* value that is JSON and holds an event; one that does not comes from     *)
(* elsewhere.                                                              *)
(*                                                                         *)
(* skipped and refetched are history: the places of the topic a consumer   *)
(* passed by beginning at its end, and those a start went back over.       *)
(***************************************************************************)
EXTENDS ConsumerBatch

CONSTANTS
  NoJson,     \* a message without a value, or with one that is no JSON
  NoEvent     \* one whose value is JSON, and has no event

ASSUME PathAssumption == NoJson \notin Events /\ NoEvent \notin Events /\ NoJson # NoEvent

VARIABLES
  route,       \* how far the call of log() for each event has come
  topic,       \* what the broker has written, in order
  source,      \* source[d]: the place in the topic of the delivery d
  skipped, refetched

Requests == Events \ Deliveries
Foreign  == {NoJson, NoEvent}

places   == <<skipped, refetched>>
pathVars == <<batchVars, route, topic, source, places>>

Routes == {"new", "direct", "publishing", "sent", "failedOver", "cut"}

PathTypeOK ==
  /\ route \in [Requests -> Routes]
  /\ topic \in Seq(Requests \cup Foreign)
  /\ source \in Seq(1..Len(topic)) /\ Len(source) = deliveries
  /\ position \in 0..Len(topic)
  /\ handled \in 0..position /\ committed \in 0..position
  /\ known \in BOOLEAN
  /\ skipped \cup refetched \subseteq 1..Len(topic)

PathInit ==
  /\ BatchInit
  /\ route = [r \in Requests |-> "new"]
  /\ topic = <<>> /\ source = <<>>
  /\ skipped = {} /\ refetched = {}

-----------------------------------------------------------------------------
(* KafkaLogger and KafkaProducer.                                          *)

Moves(r, from, to) ==
  /\ phase # "exited"
  /\ route[r] = from
  /\ route' = [route EXCEPT ![r] = to]

\* DIRECT mode, or a producer that is not connected.
LogDirectly(r) ==
  /\ Moves(r, "new", "direct")
  /\ FallbackLog(r)
  /\ UNCHANGED <<topic, source, places>>

\* KAFKA mode: publish() up to the send() it awaits.
Publish(r) ==
  /\ Moves(r, "new", "publishing")
  /\ UNCHANGED <<batchVars, topic, source, places>>

\* The broker writes what it was sent, perhaps when nobody waits for it any
\* more; the producer is idempotent.  (Bug: it is not, and retries.)
BrokerWritesAgain(r) ==
  /\ route[r] \in {"publishing", "failedOver", "cut"}
  /\ Len(topic) < Messages
  /\ topic' = Append(topic, r)
  /\ UNCHANGED <<batchVars, route, source, places>>

BrokerWrites(r) ==
  /\ route[r] \in {"publishing", "failedOver", "cut"}
  /\ r \notin Elems(topic)
  /\ Len(topic) < Messages
  /\ topic' = Append(topic, r)
  /\ UNCHANGED <<batchVars, route, source, places>>

PublishResolves(r) ==
  /\ Moves(r, "publishing", "sent")
  /\ r \in Elems(topic)
  /\ UNCHANGED <<batchVars, topic, source, places>>

\* The event of a failed publish goes to the fallback.
PublishRejects(r) ==
  /\ Moves(r, "publishing", "failedOver")
  /\ FallbackLog(r)
  /\ UNCHANGED <<topic, source, places>>

\* Somebody else writes to the topic.
OthersWrite ==
  /\ Len(topic) < Messages
  /\ \E m \in Foreign : topic' = Append(topic, m)
  /\ UNCHANGED <<batchVars, route, source, places>>

-----------------------------------------------------------------------------
(* The consumer and the process.                                           *)

\* The message after the position joins the batch, or is passed by.
Deliver ==
  /\ position < Len(topic) /\ topic[position + 1] # NoJson
  /\ EachMessage
  /\ deliveries' \in broken' <=> topic[position + 1] = NoEvent
  /\ source' = Append(source, position')
  /\ UNCHANGED <<route, topic, places>>

PassBy ==
  /\ position < Len(topic) /\ topic[position + 1] = NoJson
  /\ UnusableMessage
  /\ UNCHANGED <<route, topic, source, places>>

\* What a start leaves out, and what it reads a second time.
Begin ==
  /\ StartReading(Len(topic))
  /\ skipped' = IF known THEN skipped ELSE skipped \cup (position + 1)..position'
  /\ refetched' = IF known THEN refetched \cup (position' + 1)..position
                  ELSE refetched
  /\ UNCHANGED <<route, topic, source>>

\* The process ends; the calls of log() under way end with it.
Die(A) ==
  /\ A
  /\ route' = [r \in Requests |->
                 IF route[r] = "publishing" THEN "cut" ELSE route[r]]
  /\ UNCHANGED <<topic, source, places>>

Beside(A) == A /\ UNCHANGED <<route, topic, source, places>>

PathNext ==
  \/ \E r \in Requests : \/ LogDirectly(r) \/ Publish(r) \/ BrokerWrites(r)
                         \/ PublishResolves(r) \/ PublishRejects(r)
  \/ OthersWrite \/ Deliver \/ PassBy \/ Begin
  \/ Beside(BatchTimerFires)
  \/ \E f \in flushes : Beside(LogNext(f)) \/ Beside(BatchRejects(f))
  \/ \E persists \in SUBSET Elems(toWrite) : Beside(WriteSettles(persists))
  \/ Beside(Commit) \/ Beside(DestroyConsumer) \/ Beside(Stopped)
  \/ Beside(Elsewhere(TimerFires))
  \/ Beside(Elsewhere(OnModuleDestroy))
  \/ Beside(Elsewhere(Start))
  \/ \E persists \in SUBSET Elems(toWrite) :
       \/ Die(ProcessExits(persists))
       \/ \E f \in flushes : Die(TimerRejects(f, persists))

PathSpec == PathInit /\ [][PathNext]_pathVars

-----------------------------------------------------------------------------

Places(r) == {p \in DOMAIN topic : topic[p] = r}

\* The log() calls of MongoLogger for the event of r: the fallback's and those
\* of its deliveries.
Copies(r) == {r} \cup {d \in DOMAIN source : topic[source[d]] = r}

\* Stored, or on its way: with MongoLogger, in the batch, or to be read.
Kept(r) ==
  \/ \E c \in Copies(r) : Fate[c] \in {"pending", "stored"} \/ c \in Waiting
  \/ \E p \in Places(r) : position < p

\* The delivery c was given up with its batch, in which the message of somebody
\* else came before it.
TakenAlong(c) ==
  /\ c \in dropped
  /\ \E b \in dropped : /\ topic[source[b]] = NoEvent
                        /\ b < c /\ c < b + MqBatchSize

\* An event log() has answered for is stored or on its way, unless one of five
\* things happened to it: a write it was in failed, the process ended with it
\* in memory, a message without an event broke its batch ahead of it, a
\* consumer without an offset began behind it, or the process ended before its
\* publish did and the broker never got it.  No order of fallback, restarts,
\* commits, flushes and late writes of the broker loses it in any other way.
LossesHaveACause ==
  \A r \in Requests :
    route[r] \notin {"new", "publishing"} /\ ~ Kept(r) =>
      \/ \E c \in Copies(r) : Fate[c] = "lost" \/ c \in crashed \/ TakenAlong(c)
      \/ Places(r) \cap skipped # {}
      \/ route[r] = "cut" /\ Places(r) = {}

\* An event is in the collection twice only if its publish failed and the
\* broker had it all the same, or a consumer was started before its message
\* was committed.
RepeatsHaveACause ==
  \A r \in Requests : \A c, d \in Copies(r) \cap persisted :
    c # d => route[r] = "failedOver" \/ Places(r) \cap refetched # {}

\* KafkaLogger keeps its promise when processes end and the broker writes late.
Routing == INSTANCE EventRouting WITH handed  <- Elems(accepted) \cap Requests,
                                      written <- Elems(topic) \cap Requests

ImplementsRouting == Routing!Spec
=============================================================================
