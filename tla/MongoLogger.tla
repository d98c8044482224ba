---------------------------- MODULE MongoLogger ----------------------------
(***************************************************************************)
(* MongoLogger: the buffered writer behind LoggerPort.log().               *)
(*                                                                         *)
(* log() pushes the document and, when the buffer holds batchSize          *)
(* documents, starts a flush; a timer starts one every flushIntervalMs.    *)
(* A flush splices the whole buffer out and awaits one insertMany; while   *)
(* it is in flight isFlushing makes every other flush return at once.  The *)
(* JavaScript event loop runs each handler to its next await, so an action *)
(* below is the code between two awaits.                                   *)
(*                                                                         *)
(* accepted, settled and persisted are history: the log() calls in order,  *)
(* those whose fate is decided, and those that are in the collection.      *)
(***************************************************************************)
EXTENDS Naturals, Sequences

CONSTANTS Events,      \* the calls of log(), one event each
          BatchSize    \* LOG_BATCH_SIZE

ASSUME BatchSizeAssumption == BatchSize \in Nat \ {0}

VARIABLES
  buffer,       \* documents waiting for a flush
  isFlushing,   \* the single-flight flag
  toWrite,      \* the documents of the insertMany in flight
  flusher,      \* who awaits that insertMany
  flushTimer,   \* the interval timer is armed
  phase,        \* life of the process: up, destroying, destroyed, exited
  destroyMark,  \* how many events were accepted when onModuleDestroy ran
  accepted, settled, persisted

memory  == <<buffer, isFlushing, toWrite, flusher>>
history == <<accepted, settled, persisted>>
vars    == <<memory, flushTimer, phase, destroyMark, history>>

Flushers == {"none", "log", "timer", "destroy"}
Phases   == {"up", "destroying", "destroyed", "exited"}

Elems(s) == {s[i] : i \in DOMAIN s}

TypeOK ==
  /\ buffer \in Seq(Events)
  /\ isFlushing \in BOOLEAN
  /\ toWrite \in Seq(Events)
  /\ flusher \in Flushers
  /\ flushTimer \in BOOLEAN
  /\ phase \in Phases
  /\ destroyMark \in Nat
  /\ accepted \in Seq(Events)
  /\ settled \in Seq(Events)
  /\ persisted \in SUBSET Events

Init ==
  /\ buffer = <<>>
  /\ isFlushing = FALSE
  /\ toWrite = <<>>
  /\ flusher = "none"
  /\ flushTimer = TRUE
  /\ phase = "up"
  /\ destroyMark = 0
  /\ accepted = <<>>
  /\ settled = <<>>
  /\ persisted = {}

-----------------------------------------------------------------------------

\* flush() skips when there is nothing to write or a write is in flight.
\* (Bugs: the flag is not tested; a batch that is not full waits for more.)
SkipsOnlyEmpty(buf) == buf = <<>>
SkipsUnlessFull(buf) == Len(buf) < BatchSize \/ isFlushing

Skips(buf) == buf = <<>> \/ isFlushing

\* log() flushes at once when the buffer reaches batchSize.  (Bug: off by one.)
ReachedLate(buf) == Len(buf) > BatchSize

ReachedBatchSize(buf) == Len(buf) >= BatchSize

\* flush() up to its await, called by who when the buffer holds buf.  (Bug:
\* the buffer is copied and not spliced.)
StartFlushCopies(buf, who) ==
  /\ buffer' = buf
  /\ \/ Skips(buf) /\ UNCHANGED <<isFlushing, toWrite, flusher>>
     \/ ~ Skips(buf) /\ isFlushing' = TRUE /\ toWrite' = buf /\ flusher' = who

StartFlush(buf, who) ==
  \/ /\ Skips(buf)
     /\ buffer' = buf
     /\ UNCHANGED <<isFlushing, toWrite, flusher>>
  \/ /\ ~ Skips(buf)
     /\ isFlushing' = TRUE
     /\ toWrite' = buf
     /\ buffer' = <<>>
     /\ flusher' = who

\* log(event): requests still arrive while the shutdown hooks run.
Log(e) ==
  /\ phase # "exited"
  /\ e \notin Elems(accepted)
  /\ accepted' = Append(accepted, e)
  /\ LET buf == Append(buffer, e) IN
       \/ ReachedBatchSize(buf) /\ StartFlush(buf, "log")
       \/ /\ ~ ReachedBatchSize(buf)
          /\ buffer' = buf
          /\ UNCHANGED <<isFlushing, toWrite, flusher>>
  /\ UNCHANGED <<flushTimer, phase, destroyMark, settled, persisted>>

TimerFires ==
  /\ phase # "exited" /\ flushTimer
  /\ ~ Skips(buffer)
  /\ StartFlush(buffer, "timer")
  /\ UNCHANGED <<flushTimer, phase, destroyMark, history>>

\* The awaited insertMany settles.  It is unordered, so any subset of the
\* batch may have been written; an error is logged and the documents that
\* were not written are not kept.  onModuleDestroy ends if it was waiting.
InsertManySettles(written) ==
  /\ phase # "exited" /\ isFlushing
  /\ written \subseteq Elems(toWrite)
  /\ isFlushing' = FALSE
  /\ toWrite' = <<>>
  /\ flusher' = "none"
  /\ settled' = settled \o toWrite
  /\ persisted' = persisted \cup written
  /\ phase' = IF flusher = "destroy" THEN "destroyed" ELSE phase
  /\ UNCHANGED <<buffer, flushTimer, destroyMark, accepted>>

\* onModuleDestroy: it awaits the flush it starts, and returns at once when
\* the buffer is empty or flush() skips.  (Bug: the await is missing.)
OnModuleDestroyNoAwait ==
  /\ phase = "up"
  /\ flushTimer' = FALSE
  /\ destroyMark' = Len(accepted)
  /\ StartFlush(buffer, "destroy")
  /\ phase' = "destroyed"
  /\ UNCHANGED history

OnModuleDestroy ==
  /\ phase = "up"
  /\ flushTimer' = FALSE
  /\ destroyMark' = Len(accepted)
  /\ StartFlush(buffer, "destroy")
  /\ phase' = IF Skips(buffer) THEN "destroyed" ELSE "destroying"
  /\ UNCHANGED history

\* The process ends, after the hooks or by a crash.  What was in memory is
\* gone, except what the insertMany in flight had already written.
Exit(written) ==
  /\ phase # "exited"
  /\ written \subseteq Elems(toWrite)
  /\ settled' = settled \o (toWrite \o buffer)
  /\ persisted' = persisted \cup written
  /\ buffer' = <<>>
  /\ isFlushing' = FALSE
  /\ toWrite' = <<>>
  /\ flusher' = "none"
  /\ flushTimer' = FALSE
  /\ phase' = "exited"
  /\ UNCHANGED <<destroyMark, accepted>>

\* A new process: the constructor arms the timer over an empty buffer.
Start ==
  /\ phase = "exited"
  /\ phase' = "up"
  /\ flushTimer' = TRUE
  /\ destroyMark' = 0
  /\ UNCHANGED <<memory, history>>

Next ==
  \/ \E e \in Events : Log(e)
  \/ TimerFires
  \/ \E written \in SUBSET Elems(toWrite) : InsertManySettles(written)
  \/ OnModuleDestroy
  \/ \E written \in SUBSET Elems(toWrite) : Exit(written)
  \/ Start

\* The interval timer keeps firing and the driver's timeouts make every
\* insertMany settle; once the hooks are done the process is killed.
Fairness ==
  /\ WF_vars(TimerFires)
  /\ WF_vars(\E written \in SUBSET Elems(toWrite) : InsertManySettles(written))
  /\ WF_vars(/\ phase = "destroyed"
             /\ \E written \in SUBSET Elems(toWrite) : Exit(written))

SafeSpec == Init /\ [][Next]_vars
Spec     == SafeSpec /\ Fairness

-----------------------------------------------------------------------------

\* Every accepted event is in one place, once, and in order: its fate is
\* decided, or it is in the insertMany in flight, or in the buffer.  flush()
\* neither writes a document twice, nor forgets one, nor lets a later batch
\* overtake an earlier one.
Conservation == accepted = settled \o (toWrite \o buffer)

\* isFlushing is set exactly while an insertMany is in flight: it never stays
\* set after a failed write (which would stop all flushing), and no second
\* insertMany starts beside the first.
SingleFlight ==
  /\ isFlushing <=> toWrite # <<>>
  /\ isFlushing <=> flusher # "none"

\* The shutdown hook keeps its promise unless a flush started by log() or
\* the timer is in flight: at the step it returns, the fate of every event
\* accepted before it was called is decided.
DestroyDrains ==
  [][/\ phase # "destroyed" /\ phase' = "destroyed"
     /\ isFlushing => flusher = "destroy"
     => Len(settled') >= destroyMark']_vars

\* mongo.logger.ts:16 "Automatic flush on module destroy to prevent data
\* loss": when onModuleDestroy has returned, no event accepted before the
\* call is still in the buffer, handed to no write.
FlushedOnDestroy ==
  phase = "destroyed" => Len(settled) + Len(toWrite) >= destroyMark

\* mongo.logger.ts:65 "Flush immediately if buffer reaches batch size": the
\* buffer grows to batchSize only behind a write in flight.
GrowsPastBatchOnlyDuringFlush ==
  [][Len(buffer') > Len(buffer) /\ Len(buffer') >= BatchSize => isFlushing]_vars

\* MongoLogger is a log sink: where it stands with each event.
Fate == [e \in Events |->
           IF e \notin Elems(accepted) THEN "unseen"
           ELSE IF e \notin Elems(settled) THEN "pending"
           ELSE IF e \in persisted THEN "stored" ELSE "lost"]

Sink == INSTANCE EventLog WITH fate <- Fate

\* Every step of MongoLogger accepts one event, settles pending ones, or
\* changes no event's fate: none is settled twice or changes sides later.
\* (A log() call never settles what it hands over.)
ImplementsEventLog == Sink!Spec

\* No accepted event stays in memory for ever: a failed write, a flush skipped
\* because of another, or a shutdown does not strand it.
EventuallySettled == Sink!EventuallySettled
=============================================================================
