---------------------------- MODULE ConsumerBatch ----------------------------
(***************************************************************************)
(* The messages of MqConsumerService: the batch that eachMessage() fills   *)
(* and a timer, a full batch or destroyConsumer() hands to MongoLogger,    *)
(* one log() call after the other, over the log sink itself.  The k-th     *)
(* delivery of a message is the log() call k of MongoLogger.               *)
(*                                                                         *)
(* When the consumer is created and destroyed is not of interest here: a   *)
(* start and a destroy may come at any time, one at a time.  The calls of  *)
(* log() in the loop of processBatch() are steps of their own; in the code *)
(* only promises, and no timers, come between them unless one awaits a     *)
(* write.  KafkaJS delivers a message when the one before has been handled *)
(* and commits what has been handled at moments of its own.  KafkaLogger's *)
(* fallback is the same MongoLogger: its calls are the other Events.       *)
(*                                                                         *)
(* A message of a foreign producer can be JSON and have no event.  It      *)
(* joins the batch like any other; log() rejects it, the catch around the  *)
(* call reads the same event for its error text, and processBatch()        *)
(* rejects with the rest of the batch.                                     *)
(*                                                                         *)
(* late, broken, crashed and dropped are history: the deliveries made      *)
(* while a destroy was under way, those of messages without an event,      *)
(* those that were in memory when a process ended, and those given up with *)
(* a batch.                                                                *)
(***************************************************************************)
EXTENDS MongoLogger

CONSTANTS
  Messages,        \* how many messages the topic gets
  MaxDeliveries,   \* bound on their deliveries
  MqBatchSize      \* MQ_BATCH_SIZE

Deliveries == 1..MaxDeliveries

ASSUME BatchAssumption ==
  /\ Messages \in Nat /\ MaxDeliveries \in Nat
  /\ MqBatchSize \in Nat \ {0}
  /\ Deliveries \subseteq Events

VARIABLES
  reader,       \* the consumer: none, reading, handling (awaits a flush)
  destroying,   \* destroyConsumer(): no, flushing, stopping
  position,     \* the offset to be fetched next
  handled,      \* the offset after the last message that was handled
  committed,    \* where the group stands for KafkaJS
  known,        \* the broker has an offset of the group
  batch,        \* this.batch
  batchTimer,   \* this.batchTimeout is set
  flushes,      \* calls of processBatch(): by whom, and what is left to log
  deliveries,   \* how many messages eachMessage() was given
  late, broken, crashed, dropped

link  == <<reader, destroying>>
offset == <<committed, known>>
group == <<position, handled, offset>>
queue == <<batch, batchTimer, flushes>>
past  == <<deliveries, late, broken, crashed, dropped>>
batchVars == <<vars, link, group, queue, past>>

BatchInit ==
  /\ Init
  /\ reader = "none" /\ destroying = "no"
  /\ position = 0 /\ handled = 0 /\ committed = 0 /\ known = FALSE
  /\ batch = <<>> /\ batchTimer = FALSE /\ flushes = {}
  /\ deliveries = 0 /\ late = {} /\ broken = {} /\ crashed = {} /\ dropped = {}

-----------------------------------------------------------------------------

\* flushBatch() with b in the batch, up to the loop of processBatch().  (Bug:
\* the batch is emptied when the loop is over.)
FlushBatchKeeps(b, by) ==
  /\ batch' = b
  /\ batchTimer' = FALSE
  /\ flushes' = flushes \cup {[by |-> by, rest |-> b, writing |-> FALSE]}

FlushBatch(b, by) ==
  /\ batch' = <<>>
  /\ batchTimer' = FALSE
  /\ flushes' = flushes \cup {[by |-> by, rest |-> b, writing |-> FALSE]}

\* eachMessage(): the next message joins the batch, with an event or without.
EachMessage ==
  /\ phase # "exited"
  /\ reader = "reading"
  /\ position < Messages /\ deliveries < MaxDeliveries
  /\ deliveries' = deliveries + 1
  /\ position' = position + 1
  /\ late' = IF destroying = "no" THEN late ELSE late \cup {deliveries'}
  /\ broken' \in {broken, broken \cup {deliveries'}}
  /\ LET b == Append(batch, deliveries') IN
       \/ /\ Len(b) >= MqBatchSize
          /\ FlushBatch(b, "message")
          /\ reader' = "handling"
          /\ UNCHANGED handled
       \/ /\ Len(b) < MqBatchSize
          /\ batch' = b
          /\ batchTimer' = TRUE
          /\ handled' = position'
          /\ UNCHANGED <<flushes, reader>>
  /\ UNCHANGED <<vars, destroying, offset, crashed, dropped>>

\* A message without a value, or with one that is no JSON, is skipped.  (Bug:
\* what it holds instead of an event joins the batch.)
NullMessage ==
  /\ phase # "exited"
  /\ reader = "reading" /\ position < Messages
  /\ position' = position + 1 /\ handled' = position'
  /\ batch' = Append(batch, 0) /\ batchTimer' = TRUE
  /\ UNCHANGED <<vars, link, offset, flushes, past>>

UnusableMessage ==
  /\ phase # "exited"
  /\ reader = "reading" /\ position < Messages
  /\ position' = position + 1 /\ handled' = position'
  /\ UNCHANGED <<vars, link, offset, queue, past>>

BatchTimerFires ==
  /\ phase # "exited"
  /\ batchTimer
  /\ IF batch # <<>> THEN FlushBatch(batch, "timer")
     ELSE batchTimer' = FALSE /\ UNCHANGED <<batch, flushes>>
  /\ UNCHANGED <<vars, link, group, past>>

\* The call f of processBatch() has rest left to log.  With nothing left its
\* caller goes on.
Continue(f, rest) ==
  /\ flushes' = (flushes \ {f}) \cup
       IF rest = <<>> THEN {} ELSE {[f EXCEPT !.rest = rest, !.writing = FALSE]}
  /\ IF rest = <<>> /\ f.by = "message"
     THEN reader' = "reading" /\ handled' = position
     ELSE UNCHANGED <<reader, handled>>
  /\ destroying' = IF rest = <<>> /\ f.by = "destroy" THEN "stopping" ELSE destroying

\* mongoLogger.log(), which awaits the write it starts and no other.
LogNext(f) ==
  /\ f \in flushes /\ ~ f.writing
  /\ Head(f.rest) \notin broken
  /\ Log(Head(f.rest))
  /\ IF flusher # "log" /\ flusher' = "log"
     THEN /\ flushes' = (flushes \ {f}) \cup {[f EXCEPT !.writing = TRUE]}
          /\ UNCHANGED <<link, handled>>
     ELSE Continue(f, Tail(f.rest))
  /\ UNCHANGED <<position, offset, batch, batchTimer, past>>

WriteSettles(written) ==
  /\ InsertManySettles(written)
  /\ \/ \E f \in flushes : f.writing /\ Continue(f, Tail(f.rest))
     \/ /\ \A f \in flushes : ~ f.writing
        /\ UNCHANGED <<link, handled, flushes>>
  /\ UNCHANGED <<position, offset, batch, batchTimer, past>>

\* The loop of f has come to a message without an event, and processBatch()
\* rejects.
Breaks(f) == f \in flushes /\ ~ f.writing /\ Head(f.rest) \in broken

\* eachMessage() and destroyConsumer() catch the rejection and go on as after
\* the loop (disconnect() stops the consumer that destroyConsumer() then does
\* not); flushBatch() has emptied the batch, so that what was left of it is
\* forgotten.  (Bug: the messages of the batch are tested before the first is
\* logged.)
BatchRejectsWhole(f) ==
  /\ phase # "exited"
  /\ f \in flushes /\ ~ f.writing /\ Elems(f.rest) \cap broken # {}
  /\ f.by # "timer"
  /\ Continue(f, <<>>)
  /\ dropped' = dropped \cup Elems(f.rest)
  /\ UNCHANGED <<vars, position, offset, batch, batchTimer, deliveries, late,
                 broken, crashed>>

BatchRejects(f) ==
  /\ phase # "exited"
  /\ Breaks(f) /\ f.by # "timer"
  /\ Continue(f, <<>>)
  /\ dropped' = dropped \cup Elems(f.rest)
  /\ UNCHANGED <<vars, position, offset, batch, batchTimer, deliveries, late,
                 broken, crashed>>

-----------------------------------------------------------------------------
(* The consumer and the process.                                           *)

\* startConsumer() has a consumer of the group running, on a topic of end
\* messages.  fromBeginning is false: a group without an offset begins at the
\* end.  (Bug: every start does.)
StartReadingAtEnd(end) ==
  /\ phase # "exited"
  /\ reader = "none" /\ destroying = "no"
  /\ end >= position
  /\ reader' = "reading"
  /\ position' = end
  /\ handled' = position' /\ committed' = position'
  /\ UNCHANGED <<vars, destroying, known, queue, past>>

StartReading(end) ==
  /\ phase # "exited"
  /\ reader = "none" /\ destroying = "no"
  /\ end >= position
  /\ reader' = "reading"
  /\ position' = IF known THEN committed ELSE end
  /\ handled' = position' /\ committed' = position'
  /\ UNCHANGED <<vars, destroying, known, queue, past>>

\* KafkaJS commits, at moments of its own.
Commit ==
  /\ phase # "exited"
  /\ reader # "none" /\ committed # handled
  /\ committed' = handled
  /\ known' = TRUE
  /\ UNCHANGED <<vars, link, position, handled, queue, past>>

\* destroyConsumer() up to its first await.  (Bug: it does not flush.)
DestroyNoFlush ==
  /\ phase # "exited"
  /\ reader # "none" /\ destroying = "no"
  /\ destroying' = "stopping"
  /\ UNCHANGED <<vars, reader, group, queue, past>>

DestroyConsumer ==
  /\ phase # "exited"
  /\ reader # "none" /\ destroying = "no"
  /\ \/ /\ batch # <<>>
        /\ FlushBatch(batch, "destroy")
        /\ destroying' = "flushing"
     \/ /\ batch = <<>>
        /\ destroying' = "stopping"
        /\ UNCHANGED queue
  /\ UNCHANGED <<vars, reader, group, past>>

\* stop() waits for the message that is being handled; with the consumer gone
\* the service clears the batch timer.
Stopped ==
  /\ phase # "exited"
  /\ destroying = "stopping" /\ reader = "reading"
  /\ reader' = "none"
  /\ destroying' = "no"
  /\ batchTimer' = FALSE
  /\ UNCHANGED <<vars, group, batch, flushes, past>>

Held == Elems(batch) \cup UNION {Elems(f.rest) : f \in flushes}

\* The first event of a call that awaits a write has been accepted.
Waiting == Held \ Elems(accepted)

\* The process ends: its messages are gone, the committed offset stays.
ProcessExits(written) ==
  /\ Exit(written)
  /\ reader' = "none" /\ destroying' = "no"
  /\ batch' = <<>> /\ batchTimer' = FALSE /\ flushes' = {}
  /\ crashed' = crashed \cup Waiting
  /\ UNCHANGED <<group, deliveries, late, broken, dropped>>

\* Nobody catches what the timer's callback rejects with, and Node ends the
\* process.
TimerRejects(f, written) ==
  /\ Breaks(f) /\ f.by = "timer"
  /\ ProcessExits(written)

Elsewhere(A) == A /\ UNCHANGED <<link, group, queue, past>>

\* KafkaLogger hands an event to its fallback.
FallbackLog(e) == e \notin Deliveries /\ Elsewhere(Log(e))

BatchNext ==
  \/ EachMessage \/ UnusableMessage \/ BatchTimerFires
  \/ \E f \in flushes : LogNext(f) \/ BatchRejects(f)
  \/ \E written \in SUBSET Elems(toWrite) : WriteSettles(written)
  \/ \E end \in 0..Messages : StartReading(end)
  \/ Commit \/ DestroyConsumer \/ Stopped
  \/ \E e \in Events : FallbackLog(e)
  \/ Elsewhere(TimerFires) \/ Elsewhere(OnModuleDestroy) \/ Elsewhere(Start)
  \/ \E written \in SUBSET Elems(toWrite) :
       ProcessExits(written) \/ \E f \in flushes : TimerRejects(f, written)

BatchSafeSpec == BatchInit /\ [][BatchNext]_batchVars

\* As in MongoLogger.
BatchFairness ==
  /\ WF_batchVars(Elsewhere(TimerFires))
  /\ WF_batchVars(\E written \in SUBSET Elems(toWrite) : WriteSettles(written))
  /\ WF_batchVars(/\ phase = "destroyed"
                  /\ \E written \in SUBSET Elems(toWrite) : ProcessExits(written))

BatchSpec == BatchSafeSpec /\ BatchFairness

-----------------------------------------------------------------------------

\* Every delivery is in one place, once: in the batch, with one call of
\* processBatch(), with MongoLogger, lost with a process, or given up with a
\* batch that a message without an event broke.  Overlapping flushes of timer,
\* full batch and destroy neither log a message twice nor forget one, so that
\* what is committed is lost by an exit, a failed write or such a message and
\* by nothing else; and a message without an event never reaches MongoLogger.
DeliveriesAreAccountedFor ==
  /\ 1..deliveries =
       Waiting \cup crashed \cup dropped \cup (Elems(accepted) \cap Deliveries)
  /\ crashed \cap (Waiting \cup Elems(accepted)) = {}
  /\ dropped \cap (Waiting \cup Elems(accepted) \cup crashed) = {}
  /\ broken \cap Elems(accepted) = {}
  /\ \A f, g \in flushes : f # g => Elems(f.rest) \cap Elems(g.rest) = {}
  /\ \A f \in flushes : Elems(f.rest) \cap Elems(batch) = {}

\* A message without an event takes no more with it than its own batch, and of
\* that only what comes after it: before every delivery that was given up there
\* is one without an event, less than a batch away and with nothing between
\* them that was not given up too.
DropsFollowABrokenMessage ==
  \A d \in dropped : \E b \in broken :
    /\ b <= d /\ d < b + MqBatchSize
    /\ b..d \subseteq dropped

\* A message waits in the batch without a timer only if it came while the
\* consumer was being destroyed: the final flush takes all that were there.
BatchIsTimed ==
  batch # <<>> /\ ~ batchTimer => Elems(batch) \subseteq late
=============================================================================
