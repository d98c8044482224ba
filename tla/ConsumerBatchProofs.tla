------------------------- MODULE ConsumerBatchProofs -------------------------
(***************************************************************************)
(* The consumer's batch leaves the log sink it writes to as it is, so that *)
(* what is proved of MongoLogger holds under it; no delivery is forgotten  *)
(* or logged twice, and a message without an event takes only what follows *)
(* it in its batch along, for any number of messages, deliveries and any   *)
(* sizes of the two batches.                                               *)
(***************************************************************************)
EXTENDS ConsumerBatch, MongoLoggerProofs

-----------------------------------------------------------------------------
(* What is waiting are deliveries.                                         *)

Callers == {"message", "timer", "destroy"}

Flush == [by : Callers, rest : Seq(Deliveries) \ {<<>>}, writing : BOOLEAN]

BatchTypeOK ==
  /\ batch \in Seq(Deliveries)
  /\ flushes \subseteq Flush
  /\ deliveries \in 0..MaxDeliveries

\* A new flush, of a batch that is not empty, is well typed.
LEMMA FlushBatchType ==
  ASSUME BatchTypeOK, NEW b \in Seq(Deliveries) \ {<<>>}, NEW by \in Callers,
         FlushBatch(b, by)
  PROVE  batch' \in Seq(Deliveries) /\ flushes' \subseteq Flush
<1>1. batch' = <<>>
  BY DEF FlushBatch
<1>2. [by |-> by, rest |-> b, writing |-> FALSE] \in Flush
  BY DEF Flush
<1>3. flushes' \subseteq Flush
  BY <1>2, Zenon DEF FlushBatch, BatchTypeOK
<1> QED
  BY <1>1, <1>3

\* So is one that has gone on.
LEMMA ContinueType ==
  ASSUME BatchTypeOK, NEW f \in flushes, NEW rest \in Seq(Deliveries),
         Continue(f, rest)
  PROVE  flushes' \subseteq Flush
<1>1. f \in Flush /\ flushes \subseteq Flush
  BY DEF BatchTypeOK
<1>2. CASE rest = <<>>
  BY <1>1, <1>2 DEF Continue
<1>3. CASE rest # <<>>
  <2>1. [f EXCEPT !.rest = rest, !.writing = FALSE] \in Flush
    BY <1>1, <1>3 DEF Flush
  <2> QED
    BY <1>1, <1>3, <2>1 DEF Continue
<1> QED
  BY <1>2, <1>3

\* What is left of a call without its first event.
LEMMA RestOf ==
  ASSUME BatchTypeOK, NEW f \in flushes
  PROVE  /\ f \in Flush
         /\ f.rest \in Seq(Deliveries) \ {<<>>}
         /\ Tail(f.rest) \in Seq(Deliveries)
         /\ Head(f.rest) \in Deliveries
BY DEF BatchTypeOK, Flush

LEMMA StepKeepsBatchType ==
  ASSUME BatchTypeOK, [BatchNext]_batchVars
  PROVE  BatchTypeOK'
<1> USE BatchAssumption
<1>1. CASE EachMessage
  <2>1. /\ deliveries' = deliveries + 1
        /\ deliveries' \in Deliveries
    BY <1>1 DEF EachMessage, BatchTypeOK, Deliveries
  <2> DEFINE b == Append(batch, deliveries')
  <2>2. b \in Seq(Deliveries) \ {<<>>}
    <3>1. b \in Seq(Deliveries) /\ Len(b) = Len(batch) + 1
      BY <2>1 DEF BatchTypeOK
    <3> QED
      BY <3>1 DEF BatchTypeOK
  <2>3. CASE FlushBatch(b, "message")
    <3>1. batch' \in Seq(Deliveries) /\ flushes' \subseteq Flush
      <4>1. "message" \in Callers
        BY DEF Callers
      <4> HIDE DEF b
      <4> QED
        BY <4>1, <2>2, <2>3, FlushBatchType
    <3> QED
      BY <2>1, <3>1 DEF BatchTypeOK, Deliveries
  <2>4. CASE batch' = b /\ UNCHANGED flushes
    BY <2>1, <2>2, <2>4 DEF BatchTypeOK, Deliveries
  <2> HIDE DEF b
  <2> QED
    BY <1>1, <2>3, <2>4 DEF EachMessage, b
<1>2. CASE BatchTimerFires
  <2>1. CASE batch # <<>> /\ FlushBatch(batch, "timer")
    <3>1. batch \in Seq(Deliveries) \ {<<>>}
      BY <2>1 DEF BatchTypeOK
    <3> QED
      BY <1>2, <2>1, <3>1, FlushBatchType DEF BatchTimerFires, BatchTypeOK, Callers, past
  <2> QED
    BY <1>2, <2>1 DEF BatchTimerFires, BatchTypeOK, past
<1>3. ASSUME NEW f \in flushes, LogNext(f)
      PROVE  BatchTypeOK'
  <2>1. f \in Flush
    BY DEF BatchTypeOK
  <2>2. CASE Continue(f, Tail(f.rest))
    BY <1>3, <2>2, ContinueType, RestOf DEF LogNext, BatchTypeOK, past
  <2>3. CASE flushes' = (flushes \ {f}) \cup {[f EXCEPT !.writing = TRUE]}
    BY <1>3, <2>1, <2>3 DEF LogNext, BatchTypeOK, past, Flush
  <2> QED
    BY <1>3, <2>2, <2>3 DEF LogNext
<1>4. ASSUME NEW written, WriteSettles(written)
      PROVE  BatchTypeOK'
  BY <1>4, ContinueType, RestOf DEF WriteSettles, BatchTypeOK, past
<1>5. CASE DestroyConsumer
  <2>1. CASE batch # <<>> /\ FlushBatch(batch, "destroy")
    <3>1. batch \in Seq(Deliveries) \ {<<>>}
      BY <2>1 DEF BatchTypeOK
    <3> QED
      BY <1>5, <2>1, <3>1, FlushBatchType DEF DestroyConsumer, BatchTypeOK, Callers, past
  <2> QED
    BY <1>5, <2>1 DEF DestroyConsumer, BatchTypeOK, queue, past
<1>6. ASSUME NEW written, ProcessExits(written)
      PROVE  BatchTypeOK'
  BY <1>6 DEF ProcessExits, BatchTypeOK
<1>12. ASSUME NEW f \in flushes, BatchRejects(f)
       PROVE  BatchTypeOK'
  BY <1>12, ContinueType, EmptySeq DEF BatchRejects, BatchTypeOK
<1>7. CASE UNCHANGED <<batch, flushes, deliveries>>
  BY <1>7 DEF BatchTypeOK
<1>8. CASE \/ UnusableMessage \/ Commit \/ Stopped
           \/ \E end \in 0..Messages : StartReading(end)
  BY <1>7, <1>8 DEF UnusableMessage, StartReading, Commit, Stopped, queue, past
<1>9. CASE Elsewhere(TimerFires) \/ Elsewhere(OnModuleDestroy) \/ Elsewhere(Start)
  BY <1>7, <1>9 DEF Elsewhere, queue, past
<1>10. ASSUME NEW e \in Events, FallbackLog(e)
       PROVE  BatchTypeOK'
  BY <1>7, <1>10 DEF FallbackLog, Elsewhere, queue, past
<1>11. CASE UNCHANGED batchVars
  BY <1>7, <1>11 DEF batchVars, queue, past
<1> QED
  BY <1>1, <1>2, <1>3, <1>4, <1>5, <1>6, <1>8, <1>9, <1>10, <1>11, <1>12
     DEF BatchNext, TimerRejects

\* The batch and the calls of processBatch() hold deliveries only.
THEOREM BatchTypeCorrect == BatchSafeSpec => []BatchTypeOK
<1>1. BatchInit => BatchTypeOK
  BY BatchAssumption DEF BatchInit, BatchTypeOK
<1> QED
  BY <1>1, StepKeepsBatchType, PTL DEF BatchSafeSpec

-----------------------------------------------------------------------------
(* The sink under the batch is MongoLogger.                                *)

LEMMA StepIsSinkStep ==
  ASSUME BatchTypeOK, [BatchNext]_batchVars
  PROVE  [Next]_vars
<1>1. ASSUME NEW f \in flushes, LogNext(f)
      PROVE  Next
  <2>1. f.rest \in Seq(Deliveries) \ {<<>>}
    BY DEF BatchTypeOK, Flush
  <2>2. Head(f.rest) \in Events
    BY <2>1, BatchAssumption
  <2> QED
    BY <1>1, <2>2 DEF LogNext, Next
<1>2. ASSUME NEW written \in SUBSET Elems(toWrite), WriteSettles(written)
      PROVE  Next
  BY <1>2 DEF WriteSettles, Next
<1>3. ASSUME NEW written \in SUBSET Elems(toWrite), ProcessExits(written)
      PROVE  Next
  BY <1>3 DEF ProcessExits, Next
<1>10. ASSUME NEW f \in flushes, BatchRejects(f)
       PROVE  UNCHANGED vars
  BY <1>10 DEF BatchRejects
<1>4. CASE Elsewhere(TimerFires) \/ Elsewhere(OnModuleDestroy) \/ Elsewhere(Start)
  BY <1>4 DEF Elsewhere, Next
<1>5. CASE EachMessage
  BY <1>5 DEF EachMessage
<1>6. CASE UnusableMessage \/ BatchTimerFires
  BY <1>6 DEF UnusableMessage, BatchTimerFires
<1>7. CASE \/ Commit \/ DestroyConsumer \/ Stopped
           \/ \E end \in 0..Messages : StartReading(end)
  BY <1>7 DEF StartReading, Commit, DestroyConsumer, Stopped
<1>8. ASSUME NEW e \in Events, FallbackLog(e)
      PROVE  Next
  BY <1>8 DEF FallbackLog, Elsewhere, Next
<1>9. CASE UNCHANGED batchVars
  BY <1>9 DEF batchVars
<1> QED
  BY <1>1, <1>2, <1>3, <1>4, <1>5, <1>6, <1>7, <1>8, <1>9, <1>10
     DEF BatchNext, TimerRejects

\* Whatever the consumer does with its batch, MongoLogger sees log() calls of
\* events it has not seen, its own timer and hook, and the process's end.
THEOREM BatchImplementsLogger == BatchSafeSpec => SafeSpec
<1>1. BatchInit => Init
  BY DEF BatchInit
<1> QED
  BY <1>1, StepIsSinkStep, BatchTypeCorrect, PTL DEF BatchSafeSpec, SafeSpec

\* So every event the consumer logs is settled, in flight or buffered, once and
\* in order, and the sink is the one that EventLog describes.
THEOREM SinkIsSafe ==
  BatchSafeSpec => [](TypeOK /\ Conservation /\ SingleFlight) /\ ImplementsEventLog
BY BatchImplementsLogger, TypeCorrect, ConservationHolds, SingleFlightHolds,
   Refinement, PTL

-----------------------------------------------------------------------------
(* Sequences without repetition.                                           *)

Distinct(s) == \A i, j \in 1..Len(s) : s[i] = s[j] => i = j

\* Without its head, such a sequence has all its other elements.
LEMMA TailOfDistinct ==
  ASSUME NEW S, NEW s \in Seq(S) \ {<<>>}, Distinct(s)
  PROVE  /\ Distinct(Tail(s))
         /\ Head(s) \notin Elems(Tail(s))
         /\ Elems(s) = {Head(s)} \cup Elems(Tail(s))
<1> DEFINE t == Tail(s)
<1>1. /\ Len(s) \in Nat /\ Len(s) > 0
      /\ t \in Seq(S) /\ Len(t) = Len(s) - 1 /\ Head(s) = s[1]
      /\ \A i \in 1..Len(t) : t[i] = s[i + 1]
  BY HeadTailProperties, LenProperties
<1>2. Distinct(t)
  BY <1>1 DEF Distinct
<1>3. Head(s) \notin Elems(t)
  <2>1. SUFFICES ASSUME NEW i \in 1..Len(t), Head(s) = t[i] PROVE FALSE
    <3>1. \A x \in Elems(t) : \E i \in 1..Len(t) : x = t[i]
      BY <1>1, ElemsOfSeq
    <3> HIDE DEF t
    <3> QED
      BY <3>1
  <2>2. s[1] = s[i + 1] /\ i + 1 \in 1..Len(s) /\ 1 \in 1..Len(s)
    BY <1>1, <2>1
  <2> QED
    BY <2>2 DEF Distinct
<1>4. Elems(s) \subseteq {Head(s)} \cup Elems(t)
  <2>1. SUFFICES ASSUME NEW i \in 1..Len(s), i # 1 PROVE s[i] \in Elems(t)
    <3>1. \A x \in Elems(s) : \E i \in 1..Len(s) : x = s[i]
      BY ElemsOfSeq
    <3> HIDE DEF t
    <3> QED
      BY <1>1, <3>1
  <2>2. i - 1 \in 1..Len(t) /\ t[i - 1] = s[i]
    BY <1>1, <2>1
  <2> HIDE DEF t
  <2> QED
    BY <1>1, <2>2, ElemsOfSeq
<1>5. {Head(s)} \cup Elems(t) \subseteq Elems(s)
  <2>1. ASSUME NEW i \in 1..Len(t) PROVE t[i] \in Elems(s)
    <3>1. i + 1 \in 1..Len(s) /\ t[i] = s[i + 1]
      BY <1>1
    <3> QED
      BY <3>1, ElemsOfSeq
  <2>2. Head(s) \in Elems(s)
    <3>1. 1 \in 1..Len(s)
      BY <1>1
    <3> QED
      BY <1>1, <3>1, ElemsOfSeq
  <2> HIDE DEF t
  <2> QED
    BY <1>1, <2>1, <2>2, ElemsOfSeq
<1> QED
  BY <1>2, <1>3, <1>4, <1>5

\* A new element keeps a sequence without repetition.
LEMMA AppendToDistinct ==
  ASSUME NEW S, NEW s \in Seq(S), Distinct(s), NEW e \in S, e \notin Elems(s)
  PROVE  Distinct(Append(s, e))
<1> DEFINE t == Append(s, e)
<1>1. /\ Len(s) \in Nat /\ Len(t) = Len(s) + 1 /\ t[Len(s) + 1] = e
      /\ \A i \in 1..Len(s) : t[i] = s[i]
  BY AppendProperties, LenProperties
<1>2. \A i \in 1..Len(s) : s[i] # e
  BY ElemsOfSeq
<1>3. SUFFICES ASSUME NEW i \in 1..Len(t), NEW j \in 1..Len(t), t[i] = t[j]
               PROVE  i = j
  BY DEF Distinct
<1>4. CASE i \in 1..Len(s) /\ j \in 1..Len(s)
  BY <1>1, <1>3, <1>4 DEF Distinct
<1>5. CASE i = Len(s) + 1 \/ j = Len(s) + 1
  BY <1>1, <1>2, <1>3, <1>5
<1> QED
  BY <1>1, <1>4, <1>5

-----------------------------------------------------------------------------
(* Where every delivery is.                                                *)

\* What a call of processBatch() has still to give to log(): without its first
\* event while it awaits the write that log() started with it.
Left(f) == Elems(IF f.writing THEN Tail(f.rest) ELSE f.rest)

Begun(f) == f.writing => Head(f.rest) \in Elems(accepted)

\* What is lost before MongoLogger has it.
Gone == crashed \cup dropped

Placed(d) == \/ d \in Elems(batch)
             \/ \E f \in flushes : d \in Left(f)
             \/ d \in Gone
             \/ d \in Elems(accepted) \cap Deliveries

\* The strengthening of DeliveriesAreAccountedFor: nothing repeats within the
\* batch or a call, and only the event a write is awaited for is both with its
\* call and with MongoLogger.
Accounted ==
  /\ \A d : d \in 1..deliveries <=> Placed(d)
  /\ Distinct(batch)
  /\ \A f \in flushes : Distinct(f.rest) /\ Begun(f)
  /\ Elems(batch) \cap Elems(accepted) = {}
  /\ \A f \in flushes : Left(f) \cap Elems(accepted) = {}
  /\ \A f \in flushes : Elems(f.rest) \cap Elems(batch) = {}
  /\ \A f, g \in flushes : f # g => Elems(f.rest) \cap Elems(g.rest) = {}
  /\ Gone \cap Elems(accepted) = {}
  /\ Gone \cap Elems(batch) = {}
  /\ \A f \in flushes : Gone \cap Left(f) = {}
  /\ crashed \cap dropped = {}

\* The events of a call are its first and those that are left.
LEMMA LeftOf ==
  ASSUME NEW f \in Flush, Distinct(f.rest)
  PROVE  /\ Left(f) \subseteq Elems(f.rest)
         /\ f.writing => Elems(f.rest) = {Head(f.rest)} \cup Left(f)
         /\ ~ f.writing => Elems(f.rest) = Left(f)
         /\ Elems(Tail(f.rest)) = Left(f) \ {Head(f.rest)}
         /\ Elems(f.rest) \subseteq {Head(f.rest)} \cup Left(f)
<1>1. f.rest \in Seq(Deliveries) \ {<<>>}
  BY DEF Flush
<1>2. /\ Head(f.rest) \notin Elems(Tail(f.rest))
      /\ Elems(f.rest) = {Head(f.rest)} \cup Elems(Tail(f.rest))
  BY <1>1, TailOfDistinct
<1> QED
  BY <1>2 DEF Left

\* The batch becomes a call of processBatch(), with nothing lost or repeated.
LEMMA FlushBatchKeepsAccounted ==
  ASSUME Accounted, BatchTypeOK, NEW by, FlushBatch(batch, by),
         UNCHANGED <<deliveries, crashed, dropped, accepted>>
  PROVE  Accounted'
<1> DEFINE n == [by |-> by, rest |-> batch, writing |-> FALSE]
<1>1. /\ batch' = <<>> /\ flushes' = flushes \cup {n}
      /\ Elems(batch') = {} /\ Distinct(batch')
  BY DEF FlushBatch, Elems, Distinct
<1>2. n.rest = batch /\ n.writing = FALSE /\ Left(n) = Elems(batch)
  BY DEF Left
<1>3. \A d : Placed(d)' <=> Placed(d)
  BY <1>1, <1>2 DEF Placed, Gone
<1> HIDE DEF n
<1>4. \A f \in flushes' : f \in flushes \/ f = n
  BY <1>1
<1> QED
  BY <1>1, <1>2, <1>3, <1>4 DEF Accounted, Begun, Gone

\* A call of processBatch() gives its first event to log(), or its write has
\* settled: G is what is left of it.
LEMMA CallKeepsAccounted ==
  ASSUME Accounted, BatchTypeOK, NEW f \in flushes, NEW G,
         flushes' = (flushes \ {f}) \cup G,
         \A g \in G : /\ Distinct(g.rest) /\ Elems(g.rest) \subseteq Elems(f.rest)
                      /\ Left(g) = Elems(Tail(f.rest))
                      /\ Begun(g)',
         \A g, h \in G : g = h,
         G = {} => Elems(Tail(f.rest)) = {},
         Elems(accepted)' = Elems(accepted) \cup {Head(f.rest)},
         Head(f.rest) \in Left(f) \cup Elems(accepted),
         UNCHANGED <<batch, deliveries, crashed, dropped>>
  PROVE  Accounted'
<1>1. f \in Flush /\ Distinct(f.rest)
  BY DEF BatchTypeOK, Accounted
<1>2. /\ Left(f) \subseteq Elems(f.rest)
      /\ Elems(Tail(f.rest)) = Left(f) \ {Head(f.rest)}
      /\ Elems(f.rest) \subseteq {Head(f.rest)} \cup Left(f)
      /\ Head(f.rest) \in Elems(f.rest) /\ Head(f.rest) \in Deliveries
  <2>1. Head(f.rest) \in Elems(f.rest) /\ Head(f.rest) \in Deliveries
    <3>1. f.rest \in Seq(Deliveries) \ {<<>>}
      BY <1>1 DEF Flush
    <3> QED
      BY <1>1, <3>1, TailOfDistinct
  <2> QED
    BY <1>1, <2>1, LeftOf
<1>3. \A d : Placed(d)' <=> Placed(d)
  <2>1. \A d : (\E g \in G : d \in Left(g)) <=> d \in Left(f) \ {Head(f.rest)}
    BY <1>2
  <2>2. \A d : (\E g \in flushes' : d \in Left(g))
               <=> \/ \E g \in flushes \ {f} : d \in Left(g)
                   \/ d \in Left(f) \ {Head(f.rest)}
    BY <2>1
  <2> QED
    BY <1>2, <2>2 DEF Placed, Gone
<1>4. \A g \in flushes \ {f} : Head(f.rest) \notin Elems(g.rest)
  BY <1>2 DEF Accounted
<1>5. \A g \in flushes \ {f} : Left(g) \subseteq Elems(g.rest)
  BY LeftOf DEF Accounted, BatchTypeOK
<1>6. Head(f.rest) \notin Elems(batch)
  BY <1>2 DEF Accounted
<1>7. Head(f.rest) \notin Gone
  BY DEF Accounted
<1>8. \A g \in flushes' :
        /\ Distinct(g.rest) /\ Begun(g)'
        /\ Left(g) \cap Elems(accepted)' = {}
        /\ Elems(g.rest) \cap Elems(batch) = {}
        /\ Gone \cap Left(g) = {}
  <2>1. ASSUME NEW g \in flushes \ {f}
        PROVE  /\ Distinct(g.rest) /\ Begun(g)'
               /\ Left(g) \cap Elems(accepted)' = {}
               /\ Elems(g.rest) \cap Elems(batch) = {}
               /\ Gone \cap Left(g) = {}
    BY <1>4, <1>5 DEF Accounted, Begun
  <2>2. ASSUME NEW g \in G
        PROVE  /\ Distinct(g.rest) /\ Begun(g)'
               /\ Left(g) \cap Elems(accepted)' = {}
               /\ Elems(g.rest) \cap Elems(batch) = {}
               /\ Gone \cap Left(g) = {}
    BY <1>2 DEF Accounted
  <2> QED
    BY <2>1, <2>2
<1>9. \A g, h \in flushes' : g # h => Elems(g.rest) \cap Elems(h.rest) = {}
  <2>1. \A g \in G : \A h \in flushes \ {f} : Elems(g.rest) \cap Elems(h.rest) = {}
    BY DEF Accounted
  <2>2. \A g, h \in flushes \ {f} : g # h => Elems(g.rest) \cap Elems(h.rest) = {}
    BY DEF Accounted
  <2> QED
    BY <2>1, <2>2
<1> QED
  BY <1>3, <1>6, <1>7, <1>8, <1>9 DEF Accounted, Gone

\* Going on leaves f without its first event, or not at all.
LEMMA LoggedKeepsAccounted ==
  ASSUME Accounted, BatchTypeOK, NEW f \in flushes, Continue(f, Tail(f.rest)),
         Elems(accepted)' = Elems(accepted) \cup {Head(f.rest)},
         Head(f.rest) \in Left(f) \cup Elems(accepted),
         UNCHANGED <<batch, deliveries, crashed, dropped>>
  PROVE  Accounted'
<1> DEFINE rest == Tail(f.rest)
           g == [f EXCEPT !.rest = rest, !.writing = FALSE]
           G == IF rest = <<>> THEN {} ELSE {g}
<1>1. f \in Flush /\ Distinct(f.rest)
  BY DEF BatchTypeOK, Accounted
<1>2. /\ Distinct(rest) /\ Elems(rest) \subseteq Elems(f.rest)
  <2>1. f.rest \in Seq(Deliveries) \ {<<>>}
    BY <1>1 DEF Flush
  <2> QED
    BY <1>1, <2>1, TailOfDistinct
<1>3. g.rest = rest /\ g.writing = FALSE
  BY <1>1 DEF Flush
<1>4. Left(g) = Elems(rest) /\ Begun(g)'
  BY <1>3 DEF Left, Begun
<1>5. flushes' = (flushes \ {f}) \cup G
  BY DEF Continue
<1>6. G = {} => Elems(rest) = {}
  BY DEF Elems
<1>7. \A h \in G : h = g
  BY Zenon
<1> HIDE DEF G, g, rest
<1>8. \A h \in G : /\ Distinct(h.rest) /\ Elems(h.rest) \subseteq Elems(f.rest)
                   /\ Left(h) = Elems(rest)
                   /\ Begun(h)'
  BY <1>2, <1>3, <1>4, <1>7
<1>9. \A h, k \in G : h = k
  BY <1>7
<1> QED
  BY <1>5, <1>6, <1>8, <1>9, CallKeepsAccounted DEF rest

LEMMA LogKeepsAccounted ==
  ASSUME Accounted, BatchTypeOK, TypeOK, NEW f \in flushes, LogNext(f)
  PROVE  Accounted'
<1>1. f \in Flush /\ Distinct(f.rest) /\ ~ f.writing
  BY DEF BatchTypeOK, Accounted, LogNext
<1>2. f.rest \in Seq(Deliveries) \ {<<>>}
  BY <1>1 DEF Flush
<1>3. Head(f.rest) \in Events /\ accepted \in Seq(Events)
  BY <1>2, BatchAssumption DEF TypeOK
<1>4. Elems(accepted)' = Elems(accepted) \cup {Head(f.rest)}
  BY <1>3, ElemsAppend DEF LogNext, Log
<1>5. Head(f.rest) \in Left(f)
  BY <1>1, <1>2, LeftOf, TailOfDistinct
<1>6. UNCHANGED <<batch, deliveries, crashed, dropped>>
  BY DEF LogNext, past
<1>7. CASE Continue(f, Tail(f.rest))
  BY <1>4, <1>5, <1>6, <1>7, LoggedKeepsAccounted
<1>8. CASE flushes' = (flushes \ {f}) \cup {[f EXCEPT !.writing = TRUE]}
  <2> DEFINE g == [f EXCEPT !.writing = TRUE]
  <2>1. g.rest = f.rest /\ g.writing = TRUE
    BY <1>1 DEF Flush
  <2>2. Left(g) = Elems(Tail(f.rest)) /\ Begun(g)'
    BY <1>4, <2>1 DEF Left, Begun
  <2> DEFINE G == {g}
  <2>3. flushes' = (flushes \ {f}) \cup G
    BY <1>8
  <2> HIDE DEF g
  <2>4. \A h \in G : h = g
    OBVIOUS
  <2>5. G # {}
    OBVIOUS
  <2> HIDE DEF G
  <2>6. \A h \in G : /\ Distinct(h.rest) /\ Elems(h.rest) \subseteq Elems(f.rest)
                     /\ Left(h) = Elems(Tail(f.rest))
                     /\ Begun(h)'
    BY <1>1, <2>1, <2>2, <2>4
  <2> QED
    BY <1>4, <1>5, <1>6, <2>3, <2>4, <2>5, <2>6, CallKeepsAccounted
<1> QED
  BY <1>7, <1>8 DEF LogNext

LEMMA WriteKeepsAccounted ==
  ASSUME Accounted, BatchTypeOK, NEW written, WriteSettles(written)
  PROVE  Accounted'
<1>1. UNCHANGED <<batch, deliveries, crashed, dropped, accepted>>
  BY DEF WriteSettles, InsertManySettles, past
<1>2. CASE UNCHANGED flushes
  BY <1>1, <1>2 DEF Accounted, Placed, Begun, Gone
<1>3. ASSUME NEW f \in flushes, f.writing, Continue(f, Tail(f.rest))
      PROVE  Accounted'
  <2>1. Head(f.rest) \in Elems(accepted)
    BY <1>3 DEF Accounted, Begun
  <2> QED
    BY <1>1, <1>3, <2>1, LoggedKeepsAccounted
<1> QED
  BY <1>2, <1>3 DEF WriteSettles

\* A delivery is new, and joins the batch or the call the batch becomes.
LEMMA MessageKeepsAccounted ==
  ASSUME Accounted, BatchTypeOK, EachMessage
  PROVE  Accounted'
<1> DEFINE d == deliveries + 1
           b == Append(batch, d)
<1>1. /\ deliveries' = d /\ d \in Deliveries
      /\ d \notin 1..deliveries /\ 1..d = 1..deliveries \cup {d}
      /\ UNCHANGED <<crashed, dropped, accepted>>
  BY BatchAssumption DEF EachMessage, BatchTypeOK, Deliveries, vars, history
<1>2. /\ Elems(b) = Elems(batch) \cup {d}
      /\ d \notin Elems(batch)
      /\ Distinct(b)
  <2>1. d \notin Elems(batch)
    BY <1>1 DEF Accounted, Placed
  <2>2. batch \in Seq(Deliveries) /\ Distinct(batch)
    BY DEF BatchTypeOK, Accounted
  <2> HIDE DEF d
  <2> QED
    BY <1>1, <2>1, <2>2, ElemsAppend, AppendToDistinct
<1>3. /\ d \notin Gone /\ d \notin Elems(accepted)
      /\ \A f \in flushes : d \notin Left(f)
  BY <1>1 DEF Accounted, Placed
<1>4. \A f \in flushes : d \notin Elems(f.rest)
  <2>1. ASSUME NEW f \in flushes PROVE d \notin Elems(f.rest)
    <3>1. Elems(f.rest) \subseteq Elems(accepted) \cup Left(f)
      BY LeftOf DEF Accounted, BatchTypeOK, Begun
    <3> QED
      BY <1>3, <3>1
  <2> QED
    BY <2>1
<1>5. CASE batch' = b /\ UNCHANGED flushes
  <2>1. \A x : Placed(x)' <=> Placed(x) \/ x = d
    BY <1>1, <1>2, <1>5 DEF Placed, Gone
  <2> HIDE DEF b, d
  <2> QED
    BY <1>1, <1>2, <1>3, <1>4, <1>5, <2>1 DEF Accounted, Begun, Gone
<1>6. CASE FlushBatch(b, "message")
  <2> DEFINE n == [by |-> "message", rest |-> b, writing |-> FALSE]
  <2>1. /\ batch' = <<>> /\ flushes' = flushes \cup {n}
        /\ Elems(batch') = {} /\ Distinct(batch')
    BY <1>6 DEF FlushBatch, Elems, Distinct
  <2>2. n.rest = b /\ n.writing = FALSE /\ Left(n) = Elems(b)
    BY DEF Left
  <2> HIDE DEF n, b, d
  <2>3. \A x : Placed(x)' <=> Placed(x) \/ x = d
    BY <1>1, <1>2, <2>1, <2>2 DEF Placed, Gone
  <2>4. \A f \in flushes' : f \in flushes \/ f = n
    BY <2>1
  <2> QED
    BY <1>1, <1>2, <1>3, <1>4, <2>1, <2>2, <2>3, <2>4 DEF Accounted, Begun, Gone
<1> QED
  BY <1>5, <1>6 DEF EachMessage

\* What the calls hold and MongoLogger has not, is what is left of them.
LEMMA WaitingIsLeft ==
  ASSUME Accounted, BatchTypeOK
  PROVE  \A d : d \in Waiting <=> d \in Elems(batch) \/ \E f \in flushes : d \in Left(f)
<1>1. ASSUME NEW f \in flushes
      PROVE  Elems(f.rest) \ Elems(accepted) = Left(f)
  BY LeftOf DEF Accounted, BatchTypeOK, Begun
<1>2. Elems(batch) \ Elems(accepted) = Elems(batch)
  BY DEF Accounted
<1> QED
  BY <1>1, <1>2 DEF Waiting, Held

LEMMA ExitKeepsAccounted ==
  ASSUME Accounted, BatchTypeOK, NEW written, ProcessExits(written)
  PROVE  Accounted'
<1>1. /\ Elems(batch') = {} /\ Distinct(batch') /\ flushes' = {}
      /\ UNCHANGED <<deliveries, accepted, dropped>>
      /\ crashed' = crashed \cup Waiting
  BY DEF ProcessExits, Exit, Elems, Distinct
<1>2. \A d : Placed(d)' <=> Placed(d)
  BY <1>1, WaitingIsLeft DEF Placed, Gone
<1>3. Waiting \cap Elems(accepted) = {}
  BY DEF Waiting
<1>4. Waiting \cap dropped = {}
  BY WaitingIsLeft DEF Accounted, Gone
<1> QED
  BY <1>1, <1>2, <1>3, <1>4 DEF Accounted, Gone

\* An event of the fallback is no delivery, and what waits are deliveries.
LEMMA FallbackKeepsAccounted ==
  ASSUME Accounted, BatchTypeOK, TypeOK, NEW e \in Events, FallbackLog(e)
  PROVE  Accounted'
<1>1. /\ e \notin Deliveries
      /\ UNCHANGED <<batch, flushes, deliveries, crashed, dropped>>
  BY DEF FallbackLog, Elsewhere, queue, past
<1>2. Elems(accepted)' = Elems(accepted) \cup {e}
  BY ElemsAppend DEF FallbackLog, Elsewhere, Log, TypeOK
<1>3. \A d : Placed(d)' <=> Placed(d)
  BY <1>1, <1>2 DEF Placed, Gone
<1>4. \A d : Placed(d) => d # e
  <2>1. \A d \in 1..deliveries : d \in Deliveries
    BY BatchAssumption DEF BatchTypeOK, Deliveries
  <2> QED
    BY <1>1, <2>1 DEF Accounted
<1>5. e \notin Elems(batch) /\ e \notin Gone /\ \A f \in flushes : e \notin Left(f)
  BY <1>4 DEF Placed
<1> QED
  BY <1>1, <1>2, <1>3, <1>5 DEF Accounted, Begun, Gone

\* A call that a message without an event breaks: what it had left is given up.
LEMMA RejectKeepsAccounted ==
  ASSUME Accounted, BatchTypeOK, NEW f \in flushes, BatchRejects(f)
  PROVE  Accounted'
<1>1. /\ flushes' = flushes \ {f} /\ dropped' = dropped \cup Elems(f.rest)
      /\ UNCHANGED <<batch, deliveries, crashed, accepted>>
  BY DEF BatchRejects, Continue, vars, history
<1>2. Elems(f.rest) = Left(f)
  BY DEF BatchRejects, Breaks, Left
<1>3. \A d : Placed(d)' <=> Placed(d)
  BY <1>1, <1>2 DEF Placed, Gone
<1>4. /\ Left(f) \cap Elems(accepted) = {} /\ Left(f) \cap Elems(batch) = {}
      /\ Left(f) \cap crashed = {}
      /\ \A g \in flushes \ {f} : Left(f) \cap Left(g) = {}
  <2>1. \A g \in flushes : Left(g) \subseteq Elems(g.rest)
    BY LeftOf DEF Accounted, BatchTypeOK
  <2> QED
    BY <1>2, <2>1 DEF Accounted, Gone
<1> QED
  BY <1>1, <1>2, <1>3, <1>4 DEF Accounted, Begun, Gone

LEMMA StepKeepsAccounted ==
  ASSUME Accounted, BatchTypeOK, TypeOK, [BatchNext]_batchVars
  PROVE  Accounted'
<1>1. CASE EachMessage
  BY <1>1, MessageKeepsAccounted
<1>2. CASE BatchTimerFires
  <2>1. UNCHANGED <<deliveries, crashed, dropped, accepted>>
    BY <1>2 DEF BatchTimerFires, past, vars, history
  <2>2. CASE UNCHANGED <<batch, flushes>>
    BY <2>1, <2>2 DEF Accounted, Placed, Begun, Gone
  <2> QED
    BY <1>2, <2>1, <2>2, FlushBatchKeepsAccounted DEF BatchTimerFires
<1>3. CASE DestroyConsumer
  <2>1. UNCHANGED <<deliveries, crashed, dropped, accepted>>
    BY <1>3 DEF DestroyConsumer, past, vars, history
  <2>2. CASE UNCHANGED <<batch, flushes>>
    BY <2>1, <2>2 DEF Accounted, Placed, Begun, Gone
  <2> QED
    BY <1>3, <2>1, <2>2, FlushBatchKeepsAccounted DEF DestroyConsumer, queue
<1>4. ASSUME NEW f \in flushes, LogNext(f)
      PROVE  Accounted'
  BY <1>4, LogKeepsAccounted
<1>5. ASSUME NEW written, WriteSettles(written)
      PROVE  Accounted'
  BY <1>5, WriteKeepsAccounted
<1>6. ASSUME NEW written, ProcessExits(written)
      PROVE  Accounted'
  BY <1>6, ExitKeepsAccounted
<1>7. CASE UNCHANGED <<batch, flushes, deliveries, crashed, dropped, accepted>>
  BY <1>7 DEF Accounted, Placed, Begun, Gone
<1>8. CASE \/ UnusableMessage \/ Commit \/ Stopped
           \/ \E end \in 0..Messages : StartReading(end)
  BY <1>7, <1>8
     DEF UnusableMessage, StartReading, Commit, Stopped, queue, past, vars, history
<1>9. CASE Elsewhere(TimerFires) \/ Elsewhere(OnModuleDestroy) \/ Elsewhere(Start)
  BY <1>7, <1>9
     DEF Elsewhere, TimerFires, OnModuleDestroy, Start, queue, past, history
<1>10. ASSUME NEW e \in Events, FallbackLog(e)
       PROVE  Accounted'
  BY <1>10, FallbackKeepsAccounted
<1>11. CASE UNCHANGED batchVars
  BY <1>7, <1>11 DEF batchVars, queue, past, vars, history
<1>12. ASSUME NEW f \in flushes, BatchRejects(f)
       PROVE  Accounted'
  BY <1>12, RejectKeepsAccounted
<1> QED
  BY <1>1, <1>2, <1>3, <1>4, <1>5, <1>6, <1>8, <1>9, <1>10, <1>11, <1>12
     DEF BatchNext, TimerRejects

\* A message without an event never becomes one of MongoLogger's.
Unlogged == broken \subseteq 1..deliveries /\ broken \cap Elems(accepted) = {}

LEMMA StepKeepsUnlogged ==
  ASSUME Unlogged, Accounted, BatchTypeOK, TypeOK, [BatchNext]_batchVars
  PROVE  Unlogged'
<1>1. CASE EachMessage
  <2>1. /\ deliveries' = deliveries + 1 /\ deliveries \in Nat
        /\ broken' \subseteq broken \cup {deliveries'} /\ accepted' = accepted
    BY <1>1, BatchAssumption DEF EachMessage, BatchTypeOK, vars, history
  <2>2. 1..deliveries' = 1..deliveries \cup {deliveries'} /\ deliveries' \notin 1..deliveries
    BY <2>1
  <2>3. deliveries' \in Deliveries
    BY <1>1, <2>1, BatchAssumption DEF EachMessage, Deliveries
  <2>4. deliveries' \notin Elems(accepted)
    BY <2>2, <2>3 DEF Accounted, Placed
  <2> QED
    BY <2>1, <2>2, <2>4 DEF Unlogged
<1>2. ASSUME NEW f \in flushes, LogNext(f)
      PROVE  Unlogged'
  <2>1. Elems(accepted)' = Elems(accepted) \cup {Head(f.rest)}
    BY <1>2, RestOf, ElemsAppend, BatchAssumption DEF LogNext, Log, TypeOK
  <2> QED
    BY <1>2, <2>1 DEF LogNext, Unlogged, past
<1>3. ASSUME NEW e \in Events, FallbackLog(e)
      PROVE  Unlogged'
  <2>1. Elems(accepted)' = Elems(accepted) \cup {e} /\ e \notin Deliveries
        /\ UNCHANGED <<broken, deliveries>>
    BY <1>3, ElemsAppend DEF FallbackLog, Elsewhere, Log, TypeOK, past
  <2>2. 1..deliveries \subseteq Deliveries
    BY BatchAssumption DEF BatchTypeOK, Deliveries
  <2> QED
    BY <2>1, <2>2 DEF Unlogged
<1>4. CASE UNCHANGED <<broken, deliveries, accepted>>
  BY <1>4 DEF Unlogged
<1>5. CASE BatchTimerFires \/ DestroyConsumer \/ UnusableMessage \/ Commit \/ Stopped
  BY <1>4, <1>5
     DEF BatchTimerFires, DestroyConsumer, UnusableMessage, Commit, Stopped, past, vars,
         history
<1>6. ASSUME NEW end, StartReading(end)
      PROVE  Unlogged'
  BY <1>4, <1>6 DEF StartReading, past, vars, history
<1>7. ASSUME NEW written, WriteSettles(written) \/ ProcessExits(written)
      PROVE  Unlogged'
  BY <1>4, <1>7 DEF WriteSettles, InsertManySettles, ProcessExits, Exit, past
<1>8. ASSUME NEW f, BatchRejects(f)
      PROVE  Unlogged'
  BY <1>4, <1>8 DEF BatchRejects, vars, history
<1>9. CASE Elsewhere(TimerFires) \/ Elsewhere(OnModuleDestroy) \/ Elsewhere(Start)
  BY <1>4, <1>9 DEF Elsewhere, TimerFires, OnModuleDestroy, Start, past, history
<1>10. CASE UNCHANGED batchVars
  BY <1>4, <1>10 DEF batchVars, past, vars, history
<1> QED
  BY <1>1, <1>2, <1>3, <1>5, <1>6, <1>7, <1>8, <1>9, <1>10 DEF BatchNext, TimerRejects

LEMMA AccountedAndUnlogged == BatchSafeSpec => [](Accounted /\ Unlogged)
<1>1. BatchInit => Accounted /\ Unlogged
  BY DEF BatchInit, Init, Accounted, Placed, Gone, Distinct, Elems, Unlogged
<1>2. Accounted /\ Unlogged /\ BatchTypeOK /\ TypeOK /\ [BatchNext]_batchVars
        => Accounted' /\ Unlogged'
  BY StepKeepsAccounted, StepKeepsUnlogged
<1> QED
  BY <1>1, <1>2, BatchTypeCorrect, SinkIsSafe, PTL DEF BatchSafeSpec

\* However the flushes of timer, full batch and destroy overlap with each
\* other, with slow writes, with messages without an event and with the
\* process's end, every delivery is in exactly one place.
THEOREM DeliveriesAreAccountedForHolds == BatchSafeSpec => []DeliveriesAreAccountedFor
<1>1. Accounted /\ Unlogged /\ BatchTypeOK => DeliveriesAreAccountedFor
  <2> SUFFICES ASSUME Accounted, Unlogged, BatchTypeOK PROVE DeliveriesAreAccountedFor
    OBVIOUS
  <2>1. 1..deliveries =
          Waiting \cup crashed \cup dropped \cup (Elems(accepted) \cap Deliveries)
    BY WaitingIsLeft DEF Accounted, Placed, Gone
  <2>2. /\ crashed \cap (Waiting \cup Elems(accepted)) = {}
        /\ dropped \cap (Waiting \cup Elems(accepted) \cup crashed) = {}
    BY WaitingIsLeft DEF Accounted, Gone
  <2> QED
    BY <2>1, <2>2 DEF DeliveriesAreAccountedFor, Accounted, Unlogged
<1> QED
  BY <1>1, AccountedAndUnlogged, BatchTypeCorrect, PTL

-----------------------------------------------------------------------------
(* What a message without an event takes along.                            *)

\* The deliveries of a batch follow one another.
Consecutive(s) == \A i \in 1..Len(s) : s[i] = s[1] + (i - 1)

\* The batch is a run of deliveries that ends with the last one, and shorter
\* than MqBatchSize between two messages; a call has a run of at most that.
Runs ==
  /\ Consecutive(batch)
  /\ Len(batch) < MqBatchSize
  /\ batch # <<>> => batch[1] + Len(batch) = deliveries + 1
  /\ \A f \in flushes : Consecutive(f.rest) /\ Len(f.rest) <= MqBatchSize

LEMMA DeliveriesAreNumbers ==
  ASSUME NEW s \in Seq(Deliveries), NEW i \in 1..Len(s)
  PROVE  s[i] \in Nat
<1>1. s[i] \in Deliveries
  BY ElementOfSeq
<1> QED
  BY <1>1 DEF Deliveries

LEMMA TailIsConsecutive ==
  ASSUME NEW s \in Seq(Deliveries) \ {<<>>}, Consecutive(s)
  PROVE  Consecutive(Tail(s)) /\ Len(Tail(s)) < Len(s)
<1>1. /\ Len(s) \in Nat /\ Len(Tail(s)) = Len(s) - 1
      /\ \A i \in 1..Len(Tail(s)) : Tail(s)[i] = s[i + 1]
  BY HeadTailProperties, LenProperties
<1>2. \A i \in 1..Len(s) : s[i] \in Nat
  BY DeliveriesAreNumbers
<1>3. \A i \in 1..Len(Tail(s)) : /\ i + 1 \in 1..Len(s) /\ 1 \in 1..Len(s)
                                   /\ 1 \in 1..Len(Tail(s)) /\ 2 \in 1..Len(s)
  BY <1>1
<1>4. ASSUME NEW i \in 1..Len(Tail(s))
      PROVE  Tail(s)[i] = Tail(s)[1] + (i - 1)
  <2>1. Tail(s)[i] = s[i + 1] /\ Tail(s)[1] = s[2]
    BY <1>1, <1>3
  <2>2. s[i + 1] = s[1] + i /\ s[2] = s[1] + 1 /\ s[1] \in Nat
    BY <1>2, <1>3 DEF Consecutive
  <2> QED
    BY <2>1, <2>2
<1> QED
  BY <1>1, <1>4 DEF Consecutive

LEMMA AppendIsConsecutive ==
  ASSUME NEW s \in Seq(Deliveries), Consecutive(s), NEW d \in Deliveries,
         s # <<>> => s[1] + Len(s) = d
  PROVE  Consecutive(Append(s, d)) /\ Append(s, d)[1] + Len(Append(s, d)) = d + 1
<1> DEFINE t == Append(s, d)
<1>1. /\ Len(s) \in Nat /\ Len(t) = Len(s) + 1 /\ t[Len(s) + 1] = d
      /\ \A i \in 1..Len(s) : t[i] = s[i]
  BY AppendProperties, LenProperties
<1>2. d \in Nat
  BY DEF Deliveries
<1>3. CASE s = <<>>
  <2>1. Len(s) = 0
    BY <1>3
  <2> QED
    BY <1>1, <1>2, <2>1 DEF Consecutive
<1>4. CASE s # <<>>
  <2>1. Len(s) > 0 /\ 1 \in 1..Len(s)
    BY <1>1, <1>4, EmptySeq
  <2>2. t[1] = s[1] /\ s[1] \in Nat
    BY <1>1, <2>1, DeliveriesAreNumbers
  <2>3. \A i \in 1..Len(t) : i \in 1..Len(s) \/ i = Len(s) + 1
    BY <1>1
  <2>4. \A i \in 1..Len(s) : t[i] = t[1] + (i - 1)
    BY <1>1, <2>2 DEF Consecutive
  <2>5. t[Len(s) + 1] = t[1] + (Len(s) + 1 - 1)
    BY <1>1, <1>2, <1>4, <2>2
  <2>6. t[1] + Len(t) = d + 1
    BY <1>1, <1>2, <1>4, <2>2
  <2> HIDE DEF t
  <2>7. Consecutive(t)
    BY <2>3, <2>4, <2>5 DEF Consecutive
  <2> QED
    BY <2>6, <2>7 DEF t
<1> QED
  BY <1>3, <1>4

LEMMA FlushBatchKeepsRuns ==
  ASSUME Runs, BatchTypeOK, NEW b, NEW by, FlushBatch(b, by),
         Consecutive(b), Len(b) <= MqBatchSize
  PROVE  Runs'
<1> DEFINE n == [by |-> by, rest |-> b, writing |-> FALSE]
<1>1. batch' = <<>> /\ flushes' = flushes \cup {n} /\ n.rest = b
  BY DEF FlushBatch
<1>2. Consecutive(batch') /\ Len(batch') < MqBatchSize
  BY <1>1, BatchAssumption DEF Consecutive
<1> HIDE DEF n
<1> QED
  BY <1>1, <1>2 DEF Runs

LEMMA ContinueKeepsRuns ==
  ASSUME Runs, BatchTypeOK, NEW f \in flushes, NEW rest,
         Continue(f, rest), rest = Tail(f.rest) \/ rest = <<>>,
         UNCHANGED <<batch, deliveries>>
  PROVE  Runs'
<1> DEFINE g == [f EXCEPT !.rest = rest, !.writing = FALSE]
<1>1. flushes' \subseteq (flushes \ {f}) \cup IF rest = <<>> THEN {} ELSE {g}
  BY DEF Continue
<1>2. g.rest = rest
  BY RestOf DEF Flush
<1>3. rest # <<>> => Consecutive(rest) /\ Len(rest) <= MqBatchSize
  <2>1. Consecutive(Tail(f.rest)) /\ Len(Tail(f.rest)) < Len(f.rest)
    BY RestOf, TailIsConsecutive DEF Runs
  <2>2. Len(f.rest) <= MqBatchSize /\ Len(f.rest) \in Nat /\ Len(Tail(f.rest)) \in Nat
    BY RestOf, LenProperties DEF Runs
  <2>3. Len(Tail(f.rest)) <= MqBatchSize
    BY <2>1, <2>2, BatchAssumption
  <2> QED
    BY <2>1, <2>3
<1> HIDE DEF g
<1> QED
  BY <1>1, <1>2, <1>3 DEF Runs

LEMMA StepKeepsRuns ==
  ASSUME Runs, BatchTypeOK, [BatchNext]_batchVars
  PROVE  Runs'
<1>1. CASE EachMessage
  <2> DEFINE b == Append(batch, deliveries')
  <2>1. deliveries' = deliveries + 1 /\ deliveries' \in Deliveries /\ deliveries \in Nat
    BY <1>1, BatchAssumption DEF EachMessage, BatchTypeOK, Deliveries
  <2>2. Consecutive(b) /\ b[1] + Len(b) = deliveries' + 1
    BY <2>1, AppendIsConsecutive DEF Runs, BatchTypeOK
  <2>3. Len(b) = Len(batch) + 1 /\ Len(b) <= MqBatchSize
    BY <2>1, AppendProperties, LenProperties, BatchAssumption DEF Runs, BatchTypeOK
  <2> HIDE DEF b
  <2>4. CASE FlushBatch(b, "message")
    BY <2>2, <2>3, <2>4, FlushBatchKeepsRuns
  <2>5. CASE Len(b) < MqBatchSize /\ batch' = b /\ UNCHANGED flushes
    BY <2>2, <2>5 DEF Runs
  <2> QED
    BY <1>1, <2>4, <2>5 DEF EachMessage, b
<1>2. CASE UNCHANGED <<batch, flushes, deliveries>>
  BY <1>2 DEF Runs
<1>3. CASE FlushBatch(batch, "timer") \/ FlushBatch(batch, "destroy")
  <2>1. Len(batch) <= MqBatchSize
    BY LenProperties, BatchAssumption DEF Runs, BatchTypeOK
  <2> QED
    BY <1>3, <2>1, FlushBatchKeepsRuns DEF Runs
<1>4. CASE BatchTimerFires \/ DestroyConsumer
  BY <1>2, <1>3, <1>4 DEF BatchTimerFires, DestroyConsumer, queue, past
<1>5. ASSUME NEW f \in flushes, LogNext(f)
      PROVE  Runs'
  <2>1. UNCHANGED <<batch, deliveries>>
    BY <1>5 DEF LogNext, past
  <2>2. CASE Continue(f, Tail(f.rest))
    BY <2>1, <2>2, ContinueKeepsRuns
  <2>3. CASE flushes' = (flushes \ {f}) \cup {[f EXCEPT !.writing = TRUE]}
    <3> DEFINE g == [f EXCEPT !.writing = TRUE]
    <3>1. g.rest = f.rest
      BY RestOf DEF Flush
    <3> HIDE DEF g
    <3> QED
      BY <2>1, <2>3, <3>1 DEF Runs, g
  <2> QED
    BY <1>5, <2>2, <2>3 DEF LogNext
<1>6. ASSUME NEW written, WriteSettles(written)
      PROVE  Runs'
  BY <1>2, <1>6, ContinueKeepsRuns DEF WriteSettles, past
<1>7. ASSUME NEW f \in flushes, BatchRejects(f)
      PROVE  Runs'
  BY <1>7, ContinueKeepsRuns DEF BatchRejects
<1>8. ASSUME NEW written, ProcessExits(written)
      PROVE  Runs'
  BY <1>8, BatchAssumption DEF ProcessExits, Runs, Consecutive
<1>9. CASE \/ UnusableMessage \/ Commit \/ Stopped
           \/ \E end \in 0..Messages : StartReading(end)
  BY <1>2, <1>9 DEF UnusableMessage, StartReading, Commit, Stopped, queue, past
<1>10. CASE Elsewhere(TimerFires) \/ Elsewhere(OnModuleDestroy) \/ Elsewhere(Start)
  BY <1>2, <1>10 DEF Elsewhere, queue, past
<1>11. ASSUME NEW e \in Events, FallbackLog(e)
       PROVE  Runs'
  BY <1>2, <1>11 DEF FallbackLog, Elsewhere, queue, past
<1>12. CASE UNCHANGED batchVars
  BY <1>2, <1>12 DEF batchVars, queue, past
<1> QED
  BY <1>1, <1>4, <1>5, <1>6, <1>7, <1>8, <1>9, <1>10, <1>11, <1>12
     DEF BatchNext, TimerRejects

\* What a call that breaks gives up begins with the message that broke it.
LEMMA RejectKeepsDrops ==
  ASSUME DropsFollowABrokenMessage, Runs, BatchTypeOK,
         NEW f \in flushes, BatchRejects(f)
  PROVE  DropsFollowABrokenMessage'
<1> DEFINE s == f.rest
<1>1. /\ s \in Seq(Deliveries) \ {<<>>} /\ Consecutive(s) /\ Len(s) <= MqBatchSize
      /\ Head(s) \in broken /\ broken' = broken /\ dropped' = dropped \cup Elems(s)
  BY RestOf DEF BatchRejects, Breaks, Runs
<1> HIDE DEF s
<1>2. /\ Len(s) \in Nat /\ Len(s) > 0 /\ Head(s) = s[1] /\ s[1] \in Nat
      /\ \A i \in 1..Len(s) : s[i] = s[1] + (i - 1) /\ s[i] \in Elems(s)
      /\ \A x \in Elems(s) : \E i \in 1..Len(s) : x = s[i]
  <2>1. Len(s) \in Nat /\ Len(s) > 0 /\ Head(s) = s[1]
    BY <1>1, LenProperties, EmptySeq, HeadTailProperties
  <2>2. s[1] \in Nat
    BY <1>1, <2>1, DeliveriesAreNumbers
  <2> QED
    BY <1>1, <2>1, <2>2, ElemsOfSeq DEF Consecutive
<1>3. ASSUME NEW d \in Elems(s)
      PROVE  /\ s[1] <= d /\ d < s[1] + MqBatchSize
             /\ s[1]..d \subseteq Elems(s)
  <2>1. PICK i \in 1..Len(s) : d = s[1] + (i - 1)
    BY <1>2
  <2>2. ASSUME NEW x \in s[1]..d PROVE x \in Elems(s)
    <3>1. (x - s[1]) + 1 \in 1..Len(s) /\ x = s[1] + (((x - s[1]) + 1) - 1)
      BY <1>2, <2>1
    <3> QED
      BY <1>2, <3>1
  <2> QED
    BY <1>1, <1>2, <2>1, <2>2, BatchAssumption
<1>4. \A d \in Elems(s) : \E b \in broken' :
        b <= d /\ d < b + MqBatchSize /\ b..d \subseteq dropped'
  BY <1>1, <1>2, <1>3
<1>5. \A d \in dropped : \E b \in broken' :
        b <= d /\ d < b + MqBatchSize /\ b..d \subseteq dropped'
  BY <1>1 DEF DropsFollowABrokenMessage
<1> QED
  BY <1>1, <1>4, <1>5 DEF DropsFollowABrokenMessage

LEMMA StepKeepsDrops ==
  ASSUME DropsFollowABrokenMessage, Runs, BatchTypeOK, [BatchNext]_batchVars
  PROVE  DropsFollowABrokenMessage'
<1>1. CASE dropped' = dropped /\ broken \subseteq broken'
  BY <1>1 DEF DropsFollowABrokenMessage
<1>2. ASSUME NEW f \in flushes, BatchRejects(f)
      PROVE  DropsFollowABrokenMessage'
  BY <1>2, RejectKeepsDrops
<1>3. CASE EachMessage
  BY <1>1, <1>3 DEF EachMessage
<1>4. CASE UNCHANGED past
  BY <1>1, <1>4 DEF past
<1>5. ASSUME NEW written, ProcessExits(written)
      PROVE  DropsFollowABrokenMessage'
  BY <1>1, <1>5 DEF ProcessExits
<1>6. ASSUME NEW f, LogNext(f)
      PROVE  UNCHANGED past
  BY <1>6 DEF LogNext
<1>7. ASSUME NEW written, WriteSettles(written)
      PROVE  UNCHANGED past
  BY <1>7 DEF WriteSettles
<1>8. ASSUME NEW end, StartReading(end)
      PROVE  UNCHANGED past
  BY <1>8 DEF StartReading
<1>9. CASE \/ UnusableMessage \/ BatchTimerFires \/ Commit \/ DestroyConsumer
           \/ Stopped
  BY <1>4, <1>9 DEF UnusableMessage, BatchTimerFires, Commit, DestroyConsumer, Stopped
<1>10. CASE \/ Elsewhere(TimerFires) \/ Elsewhere(OnModuleDestroy) \/ Elsewhere(Start)
            \/ \E e \in Events : FallbackLog(e)
  BY <1>4, <1>10 DEF FallbackLog, Elsewhere
<1>11. CASE UNCHANGED batchVars
  BY <1>4, <1>11 DEF batchVars
<1> QED
  BY <1>2, <1>3, <1>4, <1>5, <1>6, <1>7, <1>8, <1>9, <1>10, <1>11
     DEF BatchNext, TimerRejects

\* For any batch size: what is given up with a batch follows a message without
\* an event, nearer than a batch, with nothing logged between them.
THEOREM DropsFollowABrokenMessageHolds == BatchSafeSpec => []DropsFollowABrokenMessage
<1>1. BatchInit => Runs /\ DropsFollowABrokenMessage
  BY BatchAssumption DEF BatchInit, Runs, Consecutive, DropsFollowABrokenMessage
<1>2. /\ Runs /\ DropsFollowABrokenMessage /\ BatchTypeOK
      /\ [BatchNext]_batchVars
      => Runs' /\ DropsFollowABrokenMessage'
  BY StepKeepsRuns, StepKeepsDrops
<1> QED
  BY <1>1, <1>2, BatchTypeCorrect, PTL DEF BatchSafeSpec

-----------------------------------------------------------------------------
(* The batch and its timer.                                                *)

\* The strengthening of BatchIsTimed: a destroy has one flush of its own, and
\* what is in the batch from then on came late.
Timed ==
  /\ BatchIsTimed
  /\ destroying # "no" => Elems(batch) \subseteq late
  /\ \A f \in flushes : f.by = "destroy" => destroying = "flushing"
  /\ \A f, g \in flushes : f.by = "destroy" /\ g.by = "destroy" => f = g

LEMMA ContinueKeepsTimed ==
  ASSUME Timed, BatchTypeOK, NEW f \in flushes, NEW rest, Continue(f, rest),
         UNCHANGED <<batch, batchTimer, late>>
  PROVE  Timed'
<1> DEFINE g == [f EXCEPT !.rest = rest, !.writing = FALSE]
<1>1. g.by = f.by
  BY DEF BatchTypeOK, Flush
<1>2. CASE rest # <<>>
  <2>1. flushes' = (flushes \ {f}) \cup {g} /\ destroying' = destroying
    BY <1>2 DEF Continue
  <2> HIDE DEF g
  <2> QED
    BY <1>1, <2>1 DEF Timed, BatchIsTimed
<1>3. CASE rest = <<>>
  <2>1. /\ flushes' = flushes \ {f}
        /\ destroying' = IF f.by = "destroy" THEN "stopping" ELSE destroying
    BY <1>3 DEF Continue
  <2> QED
    BY <2>1 DEF Timed, BatchIsTimed
<1> QED
  BY <1>2, <1>3

LEMMA StepKeepsTimed ==
  ASSUME Timed, BatchTypeOK, [BatchNext]_batchVars
  PROVE  Timed'
<1> USE DEF Timed, BatchIsTimed
<1>1. CASE EachMessage
  <2> DEFINE b == Append(batch, deliveries')
  <2>1. /\ destroying' = destroying
        /\ late' = IF destroying = "no" THEN late ELSE late \cup {deliveries'}
    BY <1>1 DEF EachMessage
  <2>2. Elems(b) \subseteq Elems(batch) \cup {deliveries'}
    <3>1. deliveries' \in Deliveries /\ batch \in Seq(Deliveries)
      BY <1>1, BatchAssumption DEF EachMessage, BatchTypeOK, Deliveries
    <3> QED
      BY <3>1, ElemsAppend
  <2>3. CASE FlushBatch(b, "message")
    <3>1. /\ batch' = <<>>
          /\ flushes' = flushes \cup {[by |-> "message", rest |-> b, writing |-> FALSE]}
      BY <2>3 DEF FlushBatch
    <3> HIDE DEF b
    <3> QED
      BY <2>1, <3>1 DEF Elems
  <2>4. CASE batch' = b /\ batchTimer' /\ UNCHANGED flushes
    <3> HIDE DEF b
    <3> QED
      BY <2>1, <2>2, <2>4
  <2> HIDE DEF b
  <2> QED
    BY <1>1, <2>3, <2>4 DEF EachMessage, b
<1>2. CASE BatchTimerFires
  <2>1. CASE FlushBatch(batch, "timer")
    BY <1>2, <2>1 DEF BatchTimerFires, FlushBatch, link, past, Elems
  <2>2. CASE batch = <<>> /\ UNCHANGED <<batch, flushes>>
    BY <1>2, <2>2 DEF BatchTimerFires, link, past
  <2> QED
    BY <1>2, <2>1, <2>2 DEF BatchTimerFires
<1>3. ASSUME NEW f \in flushes, LogNext(f)
      PROVE  Timed'
  <2>1. UNCHANGED <<batch, batchTimer, late>>
    BY <1>3 DEF LogNext, past
  <2>2. CASE Continue(f, Tail(f.rest))
    BY <2>1, <2>2, ContinueKeepsTimed
  <2>3. CASE /\ flushes' = (flushes \ {f}) \cup {[f EXCEPT !.writing = TRUE]}
             /\ UNCHANGED link
    <3> DEFINE g == [f EXCEPT !.writing = TRUE]
    <3>1. g.by = f.by
      BY DEF BatchTypeOK, Flush
    <3> HIDE DEF g
    <3> QED
      BY <2>1, <2>3, <3>1 DEF link, g
  <2> QED
    BY <1>3, <2>2, <2>3 DEF LogNext
<1>4. ASSUME NEW written, WriteSettles(written)
      PROVE  Timed'
  BY <1>4, ContinueKeepsTimed DEF WriteSettles, link, past
<1>5. CASE DestroyConsumer
  <2>1. CASE /\ FlushBatch(batch, "destroy")
             /\ destroying' = "flushing" /\ destroying = "no"
    <3> DEFINE n == [by |-> "destroy", rest |-> batch, writing |-> FALSE]
    <3>1. /\ batch' = <<>> /\ Elems(batch') = {} /\ flushes' = flushes \cup {n}
          /\ late' = late
      BY <1>5, <2>1 DEF DestroyConsumer, FlushBatch, Elems, past
    <3>2. \A f \in flushes : f.by # "destroy"
      BY <2>1
    <3> HIDE DEF n
    <3> QED
      BY <2>1, <3>1, <3>2
  <2>2. CASE batch = <<>> /\ destroying = "no" /\ UNCHANGED queue
    BY <1>5, <2>2 DEF DestroyConsumer, queue, past, Elems
  <2> QED
    BY <1>5, <2>1, <2>2 DEF DestroyConsumer
<1>6. CASE Stopped
  BY <1>6 DEF Stopped, past
<1>7. ASSUME NEW written, ProcessExits(written)
      PROVE  Timed'
  BY <1>7 DEF ProcessExits, Elems
<1>8. CASE UnusableMessage \/ Commit \/ \E end \in 0..Messages : StartReading(end)
  BY <1>8 DEF UnusableMessage, StartReading, Commit, link, queue, past
<1>9. CASE Elsewhere(TimerFires) \/ Elsewhere(OnModuleDestroy) \/ Elsewhere(Start)
  BY <1>9 DEF Elsewhere, link, queue, past
<1>10. ASSUME NEW e \in Events, FallbackLog(e)
       PROVE  Timed'
  BY <1>10 DEF FallbackLog, Elsewhere, link, queue, past
<1>11. CASE UNCHANGED batchVars
  BY <1>11 DEF batchVars, link, queue, past
<1>12. ASSUME NEW f \in flushes, BatchRejects(f)
       PROVE  Timed'
  BY <1>12, ContinueKeepsTimed DEF BatchRejects
<1> QED
  BY <1>1, <1>2, <1>3, <1>4, <1>5, <1>6, <1>7, <1>8, <1>9, <1>10, <1>11, <1>12
     DEF BatchNext, TimerRejects

\* Only a message that came while its consumer was being destroyed can be left
\* in the batch with no timer to flush it.
THEOREM BatchIsTimedHolds == BatchSafeSpec => []BatchIsTimed
<1>1. BatchInit => Timed
  BY DEF BatchInit, Timed, BatchIsTimed
<1>2. Timed /\ BatchTypeOK /\ [BatchNext]_batchVars => Timed'
  BY StepKeepsTimed
<1>3. Timed => BatchIsTimed
  BY DEF Timed
<1> QED
  BY <1>1, <1>2, <1>3, BatchTypeCorrect, PTL DEF BatchSafeSpec
=============================================================================
