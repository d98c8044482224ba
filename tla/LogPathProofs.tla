--------------------------- MODULE LogPathProofs ---------------------------
(***************************************************************************)
(* What holds of an event on its way from KafkaLogger to the collection,   *)
(* for any number of events, messages and deliveries and any sizes of the  *)
(* two batches: the path is KafkaLogger's promise over the consumer's      *)
(* batch, it loses an event for five causes only, and stores it twice for  *)
(* two.                                                                    *)
(***************************************************************************)
EXTENDS LogPath, ConsumerBatchProofs

-----------------------------------------------------------------------------
(* The steps, by what they do to the path.                                 *)

\* The calls of log() and the broker.
CallStep ==
  \/ \E r \in Requests : \/ LogDirectly(r) \/ Publish(r) \/ BrokerWrites(r)
                         \/ PublishResolves(r) \/ PublishRejects(r)
  \/ OthersWrite

\* The steps of the consumer and the sink that leave the path as it is.
BesideStep ==
  \/ Beside(BatchTimerFires)
  \/ \E f \in flushes : Beside(LogNext(f)) \/ Beside(BatchRejects(f))
  \/ \E persists \in SUBSET Elems(toWrite) : Beside(WriteSettles(persists))
  \/ Beside(Commit) \/ Beside(DestroyConsumer) \/ Beside(Stopped)
  \/ Beside(Elsewhere(TimerFires))
  \/ Beside(Elsewhere(OnModuleDestroy))
  \/ Beside(Elsewhere(Start))

LEMMA PathSteps ==
  ASSUME [PathNext]_pathVars
  PROVE  \/ CallStep \/ BesideStep \/ Deliver \/ PassBy \/ Begin
         \/ \E persists \in SUBSET Elems(toWrite) : Die(ProcessExits(persists))
         \/ UNCHANGED pathVars
<1>1. ASSUME NEW f, NEW persists, Die(TimerRejects(f, persists))
      PROVE  Die(ProcessExits(persists))
  BY <1>1 DEF Die, TimerRejects
<1> QED
  BY <1>1 DEF PathNext, CallStep, BesideStep

\* A step of a call leaves the consumer alone; the sink may get its event.
LEMMA CallLeavesConsumer ==
  ASSUME CallStep
  PROVE  /\ UNCHANGED <<link, group, queue, past, source, places>>
         /\ UNCHANGED <<position, handled, committed, known, deliveries, broken,
                        skipped, refetched>>
  BY DEF CallStep, LogDirectly, Publish, BrokerWrites, PublishResolves,
         PublishRejects, OthersWrite, FallbackLog, Elsewhere, batchVars, group,
         offset, past, places

\* The consumer gives the sink deliveries only, and reads no further.
LEMMA BesideLeavesPath ==
  ASSUME BatchTypeOK, TypeOK, BesideStep
  PROVE  /\ UNCHANGED <<route, topic, source, places>>
         /\ UNCHANGED <<skipped, refetched, position, deliveries, broken>>
         /\ handled' \in {handled, position}
         /\ committed' \in {committed, handled}
         /\ known' = known \/ known' = TRUE
         /\ Elems(accepted)' \cap Requests = Elems(accepted) \cap Requests
<1> USE DEF Beside, places
<1>1. CASE Beside(BatchTimerFires)
  BY <1>1 DEF BatchTimerFires, vars, history, group, offset, past
<1>2. ASSUME NEW f \in flushes, Beside(LogNext(f))
      PROVE  /\ UNCHANGED <<route, topic, source, places, position, deliveries, broken>>
             /\ handled' \in {handled, position} /\ UNCHANGED <<committed, known>>
             /\ Elems(accepted)' \cap Requests = Elems(accepted) \cap Requests
  <2>1. f.rest \in Seq(Deliveries) \ {<<>>}
    BY DEF BatchTypeOK, Flush
  <2>2. Head(f.rest) \in Deliveries /\ Head(f.rest) \in Events
    BY <2>1, BatchAssumption
  <2>3. Elems(accepted)' = Elems(accepted) \cup {Head(f.rest)}
    BY <1>2, <2>2, ElemsAppend DEF LogNext, Log, TypeOK
  <2>4. Elems(accepted)' \cap Requests = Elems(accepted) \cap Requests
    BY <2>2, <2>3 DEF Requests
  <2> QED
    BY <1>2, <2>4 DEF LogNext, Continue, offset, past
<1>3. ASSUME NEW w, Beside(WriteSettles(w))
      PROVE  /\ UNCHANGED <<route, topic, source, places, position, deliveries, broken>>
             /\ handled' \in {handled, position} /\ UNCHANGED <<committed, known>>
             /\ accepted' = accepted
  BY <1>3 DEF WriteSettles, Continue, InsertManySettles, offset, past
<1>4. CASE Beside(Commit)
  BY <1>4 DEF Commit, vars, history, past
<1>5. CASE Beside(DestroyConsumer) \/ Beside(Stopped)
  BY <1>5 DEF DestroyConsumer, Stopped, vars, history, group, offset, past
<1>6. CASE \/ Beside(Elsewhere(TimerFires)) \/ Beside(Elsewhere(OnModuleDestroy))
           \/ Beside(Elsewhere(Start))
  BY <1>6 DEF Elsewhere, TimerFires, OnModuleDestroy, Start, history, group,
              offset, past
<1>7. ASSUME NEW f \in flushes, Beside(BatchRejects(f))
      PROVE  /\ UNCHANGED <<route, topic, source, places, position, deliveries, broken>>
             /\ handled' \in {handled, position} /\ UNCHANGED <<committed, known>>
             /\ accepted' = accepted
  BY <1>7 DEF BatchRejects, Continue, offset, vars, history
<1> QED
  BY <1>1, <1>2, <1>3, <1>4, <1>5, <1>6, <1>7 DEF BesideStep

-----------------------------------------------------------------------------
(* Types.                                                                  *)

\* A sequence over a set is one over any larger set.
LEMMA SeqOfLarger ==
  ASSUME NEW S, NEW T, S \subseteq T, NEW s \in Seq(S)
  PROVE  s \in Seq(T)
<1>1. Len(s) \in Nat /\ s \in [1..Len(s) -> S]
  BY LenProperties
<1>2. s \in [1..Len(s) -> T]
  BY <1>1
<1> QED
  BY <1>1, <1>2, SeqDef

\* What is handled and committed stays behind the position.
LEMMA StaysBehind ==
  ASSUME NEW n \in Nat, NEW p \in 0..n, NEW h \in 0..p, NEW c \in 0..p,
         NEW x \in {h, p}, NEW y \in {c, h}
  PROVE  x \in 0..p /\ y \in 0..p
OBVIOUS

\* The places between two positions are places of the topic.
LEMMA PlacesBetween ==
  ASSUME NEW n \in Nat, NEW p \in 0..n, NEW q \in 0..n
  PROVE  (p + 1)..q \subseteq 1..n
OBVIOUS

\* The topic outgrows the bound no more than a delivery's place outgrows it.
TypeInv == PathTypeOK /\ Len(topic) <= Messages

LEMMA StepKeepsTypeInv ==
  ASSUME TypeInv, BatchTypeOK, TypeOK, [PathNext]_pathVars
  PROVE  TypeInv'
<1> USE DEF TypeInv, PathTypeOK
<1>1. CASE CallStep
  <2>1. route' \in [Requests -> Routes]
    BY <1>1 DEF CallStep, LogDirectly, Publish, BrokerWrites, PublishResolves,
                PublishRejects, OthersWrite, Moves, Routes
  <2>2. CASE topic' = topic
    BY <1>1, <2>1, <2>2, CallLeavesConsumer
  <2>3. ASSUME NEW m \in Requests \cup Foreign,
               Len(topic) < Messages, topic' = Append(topic, m)
        PROVE  TypeInv'
    <3>1. /\ topic' \in Seq(Requests \cup Foreign)
          /\ Len(topic') = Len(topic) + 1 /\ Len(topic) \in Nat
      BY <2>3, AppendProperties, LenProperties
    <3>2. 1..Len(topic) \subseteq 1..Len(topic') /\ 0..Len(topic) \subseteq 0..Len(topic')
      BY <3>1
    <3>3. source \in Seq(1..Len(topic'))
      BY <3>2, SeqOfLarger
    <3>4. Len(topic') <= Messages
      BY <2>3, <3>1, BatchAssumption
    <3> QED
      BY <1>1, <2>1, <3>1, <3>2, <3>3, <3>4, CallLeavesConsumer
  <2> QED
    BY <1>1, <2>2, <2>3 DEF CallStep, LogDirectly, Publish, BrokerWrites,
                            PublishResolves, PublishRejects, OthersWrite
<1>2. CASE BesideStep
  <2>1. /\ handled' \in {handled, position} /\ committed' \in {committed, handled}
        /\ position' = position /\ (known' = known \/ known' = TRUE)
    BY <1>2, BesideLeavesPath
  <2>2. handled' \in 0..position' /\ committed' \in 0..position' /\ known' \in BOOLEAN
    <3>1. Len(topic) \in Nat
      BY LenProperties
    <3> QED
      BY <2>1, <3>1, StaysBehind
  <2> QED
    BY <1>2, <2>2, BesideLeavesPath
<1>3. CASE Deliver
  <2>1. /\ position' = position + 1 /\ position' \in 1..Len(topic)
        /\ deliveries' = deliveries + 1
        /\ handled' \in {handled, position'} /\ UNCHANGED <<committed, known>>
        /\ UNCHANGED <<route, topic, skipped, refetched>>
        /\ source' = Append(source, position')
    BY <1>3, LenProperties DEF Deliver, EachMessage, offset, places
  <2>2. source' \in Seq(1..Len(topic)) /\ Len(source') = deliveries'
    BY <2>1, AppendProperties
  <2>3. handled' \in 0..position' /\ committed' \in 0..position'
    BY <2>1
  <2> QED
    BY <2>1, <2>2, <2>3
<1>4. CASE Begin
  <2>1. /\ position' = IF known THEN committed ELSE Len(topic)
        /\ handled' = position' /\ committed' = position'
        /\ Len(topic) >= position
        /\ skipped' \subseteq skipped \cup (position + 1)..position'
        /\ refetched' \subseteq refetched \cup (position' + 1)..position
        /\ UNCHANGED <<known, route, topic, source, deliveries>>
    BY <1>4 DEF Begin, StartReading, past
  <2>2. position' \in 0..Len(topic)
    BY <2>1, LenProperties
  <2>3. /\ (position + 1)..position' \subseteq 1..Len(topic)
        /\ (position' + 1)..position \subseteq 1..Len(topic)
    <3>1. Len(topic) \in Nat /\ position \in 0..Len(topic)
      BY LenProperties
    <3> QED
      BY <2>2, <3>1, PlacesBetween
  <2> QED
    BY <2>1, <2>2, <2>3
<1>5. ASSUME NEW p, Die(ProcessExits(p))
      PROVE  TypeInv'
  <2>1. route' \in [Requests -> Routes]
    BY <1>5 DEF Die, Routes
  <2> QED
    BY <1>5, <2>1 DEF Die, ProcessExits, group, offset, places
<1>6. CASE PassBy
  <2>1. /\ position' = position + 1 /\ handled' = position' /\ position < Len(topic)
        /\ UNCHANGED <<committed, known, deliveries, route, topic, source,
                       skipped, refetched>>
    BY <1>6 DEF PassBy, UnusableMessage, offset, past, places
  <2>2. /\ position' \in 0..Len(topic)
        /\ handled' \in 0..position' /\ committed' \in 0..position'
    BY <2>1, LenProperties
  <2> QED
    BY <2>1, <2>2
<1>7. CASE UNCHANGED pathVars
  BY <1>7 DEF pathVars, batchVars, group, offset, past, places
<1> QED
  BY <1>1, <1>2, <1>3, <1>4, <1>5, <1>6, <1>7, PathSteps

LEMMA InitTypeInv ==
  ASSUME PathInit
  PROVE  TypeInv
<1>1. /\ topic = <<>> /\ source = <<>> /\ position = 0 /\ handled = 0
      /\ committed = 0 /\ known = FALSE /\ deliveries = 0
      /\ skipped = {} /\ refetched = {}
      /\ route = [r \in Requests |-> "new"]
  BY DEF PathInit, BatchInit
<1>2. /\ Len(topic) = 0 /\ Len(source) = 0
      /\ topic \in Seq(Requests \cup Foreign) /\ source \in Seq(1..Len(topic))
  BY <1>1, EmptySeq
<1>3. /\ position \in 0..Len(topic) /\ Len(topic) <= Messages
      /\ handled \in 0..position /\ committed \in 0..position
  BY <1>1, <1>2, BatchAssumption
<1>4. route \in [Requests -> Routes]
  BY <1>1 DEF Routes
<1> QED
  BY <1>1, <1>2, <1>3, <1>4 DEF TypeInv, PathTypeOK

-----------------------------------------------------------------------------
(* The consumer on the path is the consumer of ConsumerBatch.              *)

\* A start finds a topic that is no longer than it may be.
LEMMA StepIsBatchStep ==
  ASSUME TypeInv, [PathNext]_pathVars
  PROVE  [BatchNext]_batchVars
<1>1. CASE CallStep
  <2>1. ASSUME NEW r \in Requests, FallbackLog(r)
        PROVE  BatchNext
    BY <2>1 DEF BatchNext, Requests
  <2> QED
    BY <1>1, <2>1 DEF CallStep, LogDirectly, Publish, BrokerWrites, PublishResolves,
                      PublishRejects, OthersWrite
<1>2. CASE BesideStep
  BY <1>2 DEF BesideStep, Beside, BatchNext
<1>3. CASE Deliver \/ PassBy
  BY <1>3 DEF Deliver, PassBy, BatchNext
<1>4. CASE Begin
  <2>1. Len(topic) \in 0..Messages
    BY LenProperties, BatchAssumption DEF TypeInv, PathTypeOK
  <2> QED
    BY <1>4, <2>1 DEF Begin, BatchNext
<1>5. ASSUME NEW p \in SUBSET Elems(toWrite), Die(ProcessExits(p))
      PROVE  BatchNext
  BY <1>5 DEF Die, BatchNext
<1>6. CASE UNCHANGED pathVars
  BY <1>6 DEF pathVars
<1> QED
  BY <1>1, <1>2, <1>3, <1>4, <1>5, <1>6, PathSteps

\* What is on the path and in memory has its type, and the log path never asks
\* more of the consumer than ConsumerBatch allows.
LEMMA PathIsTyped ==
  PathSpec => []TypeInv /\ BatchSafeSpec
<1>1. PathInit => TypeInv /\ BatchInit /\ BatchTypeOK /\ TypeOK
  <2>1. BatchInit => BatchTypeOK /\ TypeOK
    BY InitType, EmptySeq, BatchAssumption DEF BatchInit, BatchTypeOK
  <2> QED
    BY <2>1, InitTypeInv DEF PathInit
<1>2. TypeInv /\ BatchTypeOK /\ TypeOK /\ [PathNext]_pathVars
        => TypeInv' /\ BatchTypeOK' /\ TypeOK' /\ [BatchNext]_batchVars
  BY StepKeepsTypeInv, StepIsBatchStep, StepKeepsBatchType, StepIsSinkStep,
     StepKeepsType
<1> QED
  BY <1>1, <1>2, PTL DEF PathSpec, BatchSafeSpec

\* The route of every event, the topic and the places of the consumer in it
\* have their types.
THEOREM PathTypeCorrect == PathSpec => []PathTypeOK
<1>1. TypeInv => PathTypeOK
  BY DEF TypeInv
<1> QED
  BY <1>1, PathIsTyped, PTL

\* With KafkaLogger, the broker and its fallback around it, the consumer and
\* MongoLogger do what ConsumerBatch says.
THEOREM PathImplementsBatch == PathSpec => BatchSafeSpec
  BY PathIsTyped, PTL

\* What the deliveries satisfy.
Delivered == DeliveriesAreAccountedFor /\ DropsFollowABrokenMessage /\ Unlogged

\* So what was proved of them holds on the path: a delivery is in one place,
\* and MongoLogger has no event twice and settles none that it was not given.
LEMMA ConsumerOnPath ==
  PathSpec => [](TypeInv /\ BatchTypeOK /\ IInv /\ Delivered)
  BY PathIsTyped, BatchTypeCorrect, BatchImplementsLogger, Invariance,
     DeliveriesAreAccountedForHolds, DropsFollowABrokenMessageHolds,
     AccountedAndUnlogged, PTL DEF Delivered

-----------------------------------------------------------------------------
(* Every step of the path is one of KafkaLogger's promise.                 *)

Handed == Elems(accepted) \cap Requests
Written == Elems(topic) \cap Requests

\* What the broker writes is written; what comes from elsewhere is no event.
LEMMA WritingWrites ==
  ASSUME TypeInv, NEW m \in Requests \cup Foreign, topic' = Append(topic, m)
  PROVE  Written' = IF m \in Requests THEN Written \cup {m} ELSE Written
<1>1. Elems(topic)' = Elems(topic) \cup {m}
  BY ElemsAppend DEF TypeInv, PathTypeOK
<1> QED
  BY <1>1 DEF Written

LEMMA ForeignIsNoRequest ==
  /\ \A m \in Foreign : m \notin Requests
  /\ NoJson \in Foreign /\ NoEvent \in Foreign /\ NoJson # NoEvent
  BY PathAssumption DEF Requests, Foreign

LEMMA FallbackHands ==
  ASSUME TypeOK, NEW r \in Requests, FallbackLog(r)
  PROVE  Handed' = Handed \cup {r}
<1>1. Elems(accepted)' = Elems(accepted) \cup {r}
  BY ElemsAppend DEF FallbackLog, Elsewhere, Log, TypeOK, Requests
<1> QED
  BY <1>1 DEF Handed

\* When nothing of it moves, the promise stutters.
LEMMA PathStutters ==
  ASSUME UNCHANGED <<route, topic>>, Handed' = Handed
  PROVE  UNCHANGED <<route, Elems(accepted) \cap Requests,
                     Elems(topic) \cap Requests>>
  BY DEF Handed

LEMMA StepIsRoutingStep ==
  ASSUME TypeInv, BatchTypeOK, TypeOK, [PathNext]_pathVars
  PROVE  [Routing!Next]_<<route, Elems(accepted) \cap Requests,
                          Elems(topic) \cap Requests>>
<1> USE DEF Routing!Moves, Moves, Handed, Written
<1>1. ASSUME NEW r \in Requests, LogDirectly(r)
      PROVE  Routing!Divert(r)
  BY <1>1, FallbackHands DEF LogDirectly, Routing!Divert
<1>2. ASSUME NEW r \in Requests, Publish(r)
      PROVE  Routing!Send(r)
  BY <1>2 DEF Publish, Routing!Send, batchVars, vars, history
<1>3. ASSUME NEW r \in Requests, BrokerWrites(r)
      PROVE  Routing!Write(r)
  <2>1. Written' = Written \cup {r}
    BY <1>3, WritingWrites DEF BrokerWrites
  <2> QED
    BY <1>3, <2>1 DEF BrokerWrites, Routing!Write, batchVars, vars, history
<1>4. ASSUME NEW r \in Requests, PublishResolves(r)
      PROVE  Routing!Resolve(r)
  BY <1>4 DEF PublishResolves, Routing!Resolve, batchVars, vars, history
<1>5. ASSUME NEW r \in Requests, PublishRejects(r)
      PROVE  Routing!Reject(r)
  BY <1>5, FallbackHands DEF PublishRejects, Routing!Reject
<1>6. CASE CallStep
  <2>1. CASE OthersWrite
    <3>1. Written' = Written
      BY <2>1, WritingWrites, ForeignIsNoRequest DEF OthersWrite
    <3> QED
      BY <2>1, <3>1 DEF OthersWrite, batchVars, vars, history
  <2> QED
    BY <1>1, <1>2, <1>3, <1>4, <1>5, <1>6, <2>1 DEF CallStep, Routing!Next
<1>7. ASSUME NEW p, Die(ProcessExits(p))
      PROVE  Routing!Cut
  BY <1>7 DEF Die, ProcessExits, Exit, Routing!Cut
<1>8. CASE BesideStep
  BY <1>8, BesideLeavesPath, PathStutters
<1>9. CASE Deliver \/ PassBy \/ Begin
  BY <1>9, PathStutters
     DEF Deliver, PassBy, Begin, EachMessage, UnusableMessage, StartReading, vars,
         history
<1>10. CASE UNCHANGED pathVars
  BY <1>10, PathStutters DEF pathVars, batchVars, vars, history
<1> QED
  BY <1>6, <1>7, <1>8, <1>9, <1>10, PathSteps DEF Routing!Next

\* No exit, restart or late write of the broker breaks what log() promises:
\* an event is published or with MongoLogger, and with both only if its publish
\* failed.
THEOREM PathImplementsRouting == PathSpec => ImplementsRouting
<1>1. PathInit => Routing!Init
  BY DEF PathInit, BatchInit, Init, Routing!Init, Elems
<1>2. TypeInv /\ BatchTypeOK /\ IInv /\ [PathNext]_pathVars
        => [Routing!Next]_<<route, Elems(accepted) \cap Requests,
                            Elems(topic) \cap Requests>>
  BY StepIsRoutingStep DEF IInv
<1> QED
  BY <1>1, <1>2, ConsumerOnPath, PTL DEF PathSpec, ImplementsRouting, Routing!Spec

-----------------------------------------------------------------------------
(* What the promise says of the events handed and written, and the topic.  *)

\* The messages of a topic that carry events are all different.
OncePerEvent(t) ==
  \A p, q \in 1..Len(t) : t[p] = t[q] /\ t[p] \notin Foreign => p = q

LEMMA AppendOncePerEvent ==
  ASSUME NEW S, NEW t \in Seq(S), OncePerEvent(t), NEW m \in S,
         m \notin Elems(t) \/ m \in Foreign
  PROVE  OncePerEvent(Append(t, m))
<1> DEFINE u == Append(t, m)
<1>1. /\ Len(t) \in Nat /\ Len(u) = Len(t) + 1 /\ u[Len(t) + 1] = m
      /\ \A p \in 1..Len(t) : u[p] = t[p] /\ t[p] \in Elems(t)
  BY AppendProperties, LenProperties, ElemsOfSeq
<1>2. SUFFICES ASSUME NEW p \in 1..Len(u), NEW q \in 1..Len(u),
                      u[p] = u[q], u[p] \notin Foreign
               PROVE  p = q
  BY DEF OncePerEvent
<1>3. /\ p \in 1..Len(t) \/ p = Len(t) + 1
      /\ q \in 1..Len(t) \/ q = Len(t) + 1
  BY <1>1, <1>2
<1> QED
  BY <1>1, <1>2, <1>3 DEF OncePerEvent

Sent == {"publishing", "sent", "failedOver", "cut"}

Routed ==
  /\ \A r \in Requests : r \in Written => route[r] \in Sent
  /\ \A r \in Requests : route[r] = "sent" => r \in Written
  /\ \A r \in Requests : r \in Handed <=> route[r] \in {"direct", "failedOver"}
  /\ OncePerEvent(topic)

LEMMA StepKeepsRouted ==
  ASSUME Routed, TypeInv, BatchTypeOK, TypeOK, [PathNext]_pathVars
  PROVE  Routed'
<1> USE DEF Routing!Moves
<1>1. DOMAIN route = Requests
  BY DEF TypeInv, PathTypeOK
<1>2. /\ \A r \in Requests : r \in Written' => route'[r] \in Sent
      /\ \A r \in Requests : route'[r] = "sent" => r \in Written'
      /\ \A r \in Requests : r \in Handed' <=> route'[r] \in {"direct", "failedOver"}
  <2> USE DEF Handed, Written, Sent, Routed
  <2>1. CASE UNCHANGED <<route, Elems(accepted) \cap Requests,
                         Elems(topic) \cap Requests>>
    BY <2>1
  <2>2. ASSUME NEW r \in Requests, Routing!Divert(r) \/ Routing!Send(r)
        PROVE  <1>2!:
    BY <1>1, <2>2 DEF Routing!Divert, Routing!Send
  <2>3. ASSUME NEW r \in Requests, Routing!Write(r)
        PROVE  <1>2!:
    BY <1>1, <2>3 DEF Routing!Write
  <2>4. ASSUME NEW r \in Requests, Routing!Resolve(r)
        PROVE  <1>2!:
    BY <1>1, <2>4 DEF Routing!Resolve
  <2>5. ASSUME NEW r \in Requests, Routing!Reject(r)
        PROVE  <1>2!:
    BY <1>1, <2>5 DEF Routing!Reject
  <2>6. CASE Routing!Cut
    BY <1>1, <2>6 DEF Routing!Cut
  <2> QED
    BY <2>1, <2>2, <2>3, <2>4, <2>5, <2>6, StepIsRoutingStep DEF Routing!Next
<1>3. OncePerEvent(topic)'
  <2>1. ASSUME NEW m \in Requests \cup Foreign, m \notin Elems(topic) \/ m \in Foreign,
               topic' = Append(topic, m)
        PROVE  OncePerEvent(topic')
    BY <2>1, AppendOncePerEvent DEF TypeInv, PathTypeOK, Routed
  <2>2. CASE topic' = topic
    BY <2>2 DEF Routed, OncePerEvent
  <2>3. CASE CallStep
    BY <2>1, <2>2, <2>3 DEF CallStep, LogDirectly, Publish, BrokerWrites,
                            PublishResolves, PublishRejects, OthersWrite
  <2>4. topic' = topic \/ CallStep
    BY PathSteps, BesideLeavesPath DEF Deliver, PassBy, Begin, Die, pathVars
  <2> QED
    BY <2>1, <2>2, <2>3, <2>4
<1> QED
  BY <1>2, <1>3 DEF Routed

-----------------------------------------------------------------------------
(* What the consumer has read.                                             *)

\* The places before the position were delivered, skipped or hold no JSON; those
\* after it are delivered already, and any is delivered twice, only if a start
\* went back.  The deliveries without an event are those of such messages.
ReadOn ==
  /\ \A p \in 1..position : \/ p \in skipped \/ topic[p] = NoJson
                            \/ \E d \in 1..deliveries : source[d] = p
  /\ \A d \in 1..deliveries : source[d] <= position \/ source[d] \in refetched
  /\ \A c, d \in 1..deliveries :
       c # d /\ source[c] = source[d] => source[d] \in refetched
  /\ \A d \in 1..deliveries : d \in broken <=> topic[source[d]] = NoEvent

\* What the sequence of sources holds.
LEMMA SourceOf ==
  ASSUME TypeInv
  PROVE  /\ deliveries \in Nat /\ Len(topic) \in Nat /\ position \in 0..Len(topic)
         /\ \A d \in 1..deliveries : source[d] \in 1..Len(topic)
  BY LenProperties DEF TypeInv, PathTypeOK

LEMMA DeliverKeepsReadOn ==
  ASSUME ReadOn, TypeInv, Deliver
  PROVE  ReadOn'
<1> DEFINE n == deliveries + 1
<1>1. /\ deliveries' = n /\ position' = position + 1
      /\ UNCHANGED <<topic, skipped, refetched>>
  BY DEF Deliver, EachMessage, places
<1>2. /\ source'[n] = position'
      /\ \A d \in 1..deliveries : source'[d] = source[d]
  <2>1. /\ Len(source) = deliveries /\ source \in Seq(1..Len(topic))
        /\ source' = Append(source, position')
        /\ position' \in 1..Len(topic)
    BY <1>1, SourceOf DEF TypeInv, PathTypeOK, Deliver
  <2> QED
    BY <2>1, AppendProperties
<1>3. \A d \in 1..n : d \in 1..deliveries \/ d = n
  BY SourceOf
<1>4. n \in 1..n /\ 1..deliveries \subseteq 1..n
  BY SourceOf
<1>5. \A p \in 1..position' : p \in 1..position \/ p = position'
  BY <1>1, SourceOf
<1>6. \A d \in 1..deliveries :
        /\ source[d] <= position => source[d] <= position' /\ source[d] # position'
        /\ source[d] = position' => source[d] \in refetched
  BY <1>1, SourceOf DEF ReadOn
<1>7. position' <= position'
  BY <1>1, SourceOf
<1>11. \A d \in 1..n : d \in broken' <=> topic[source'[d]] = NoEvent
  <2>1. /\ broken' \in {broken, broken \cup {n}}
        /\ n \in broken' <=> topic[position'] = NoEvent
        /\ n \notin 1..deliveries
    BY <1>1, SourceOf DEF Deliver, EachMessage
  <2> QED
    BY <1>2, <1>3, <2>1 DEF ReadOn
<1> HIDE DEF n
<1>8. \A p \in 1..position' : \/ p \in skipped \/ topic[p] = NoJson
                               \/ \E d \in 1..n : source'[d] = p
  BY <1>2, <1>4, <1>5 DEF ReadOn
<1>9. \A d \in 1..n : source'[d] <= position' \/ source'[d] \in refetched
  BY <1>2, <1>3, <1>6, <1>7 DEF ReadOn
<1>10. \A c, d \in 1..n : c # d /\ source'[c] = source'[d] => source'[d] \in refetched
  BY <1>2, <1>3, <1>6 DEF ReadOn
<1> QED
  BY <1>1, <1>8, <1>9, <1>10, <1>11 DEF ReadOn

LEMMA PassByKeepsReadOn ==
  ASSUME ReadOn, TypeInv, PassBy
  PROVE  ReadOn'
<1>1. /\ position' = position + 1 /\ topic[position'] = NoJson
      /\ UNCHANGED <<topic, deliveries, broken, source, skipped, refetched>>
  BY DEF PassBy, UnusableMessage, past, places
<1>2. /\ \A p \in 1..position' : p \in 1..position \/ p = position'
      /\ \A d \in 1..deliveries : source[d] <= position => source[d] <= position'
  BY <1>1, SourceOf
<1> QED
  BY <1>1, <1>2 DEF ReadOn

LEMMA BeginKeepsReadOn ==
  ASSUME ReadOn, TypeInv, Begin
  PROVE  ReadOn'
<1>1. /\ UNCHANGED <<topic, deliveries, broken, source>>
      /\ position' = IF known THEN committed ELSE Len(topic)
      /\ skipped' = IF known THEN skipped ELSE skipped \cup (position + 1)..position'
      /\ refetched' = IF known THEN refetched \cup (position' + 1)..position
                      ELSE refetched
  BY DEF Begin, StartReading, past
<1>2. CASE known
  <2>1. position' \in 0..position
    BY <1>1, <1>2 DEF TypeInv, PathTypeOK
  <2>2. \A p \in 1..position' : p \in 1..position
    BY <2>1, SourceOf
  <2>3. \A d \in 1..deliveries : source[d] <= position
          => source[d] <= position' \/ source[d] \in (position' + 1)..position
    BY <2>1, SourceOf
  <2> QED
    BY <1>1, <1>2, <2>2, <2>3 DEF ReadOn
<1>3. CASE ~ known
  <2>1. \A p \in 1..position' : p \in 1..position \/ p \in (position + 1)..position'
    BY <1>1, <1>3, SourceOf
  <2>2. \A d \in 1..deliveries : source[d] <= position'
    BY <1>1, <1>3, SourceOf
  <2> QED
    BY <1>1, <1>3, <2>1, <2>2 DEF ReadOn
<1> QED
  BY <1>2, <1>3

LEMMA StepKeepsReadOn ==
  ASSUME ReadOn, TypeInv, BatchTypeOK, TypeOK, [PathNext]_pathVars
  PROVE  ReadOn'
<1>1. CASE UNCHANGED <<topic, position, deliveries, broken, source, skipped, refetched>>
  BY <1>1 DEF ReadOn
<1>2. CASE CallStep
  <2>1. topic' = topic \/ \E m \in Requests \cup Foreign : topic' = Append(topic, m)
    BY <1>2 DEF CallStep, LogDirectly, Publish, BrokerWrites, PublishResolves,
                PublishRejects, OthersWrite
  <2>2. \A p \in 1..Len(topic) : topic'[p] = topic[p]
    BY <2>1, AppendProperties DEF TypeInv, PathTypeOK
  <2>3. /\ \A p \in 1..position : p \in 1..Len(topic)
        /\ \A d \in 1..deliveries : source[d] \in 1..Len(topic)
    BY SourceOf
  <2> QED
    BY <1>2, <2>2, <2>3, CallLeavesConsumer DEF ReadOn
<1>3. CASE BesideStep
  BY <1>1, <1>3, BesideLeavesPath
<1>4. ASSUME NEW p, Die(ProcessExits(p))
      PROVE  ReadOn'
  BY <1>1, <1>4 DEF Die, ProcessExits, group, places
<1>5. CASE UNCHANGED pathVars
  BY <1>1, <1>5 DEF pathVars, batchVars, group, past, places
<1> QED
  BY <1>2, <1>3, <1>4, <1>5, DeliverKeepsReadOn, PassByKeepsReadOn,
     BeginKeepsReadOn, PathSteps

\* The inductive invariant of the path.
PathInv == TypeInv /\ Routed /\ ReadOn

LEMMA PathInvariance ==
  PathSpec => [](PathInv /\ BatchTypeOK /\ IInv /\ Delivered)
<1>1. PathInit => Routed /\ ReadOn
  <2> SUFFICES ASSUME PathInit PROVE Routed /\ ReadOn
    OBVIOUS
  <2>1. /\ topic = <<>> /\ position = 0 /\ deliveries = 0 /\ Elems(accepted) = {}
        /\ route = [r \in Requests |-> "new"]
    BY DEF PathInit, BatchInit, Init, Elems
  <2>2. Elems(topic) = {} /\ OncePerEvent(topic)
    BY <2>1 DEF Elems, OncePerEvent
  <2> QED
    BY <2>1, <2>2 DEF Routed, ReadOn, Handed, Written, Sent
<1>2. Routed /\ ReadOn /\ TypeInv /\ BatchTypeOK /\ IInv /\ [PathNext]_pathVars
        => Routed' /\ ReadOn'
  BY StepKeepsRouted, StepKeepsReadOn DEF IInv
<1>3. TypeInv /\ Routed /\ ReadOn => PathInv
  BY DEF PathInv
<1> QED
  BY <1>1, <1>2, <1>3, ConsumerOnPath, PTL DEF PathSpec

-----------------------------------------------------------------------------
(* Losses and repeats.                                                     *)

\* The copies of an event are its own and those of deliveries that were made.
LEMMA CopiesOf ==
  ASSUME PathInv, NEW r \in Requests
  PROVE  /\ r \in Copies(r) /\ r \in Events
         /\ \A c \in Copies(r) :
              c # r => /\ c \in 1..deliveries /\ topic[source[c]] = r
                       /\ source[c] \in Places(r) /\ r \in Written
<1>1. DOMAIN source = 1..deliveries /\ DOMAIN topic = 1..Len(topic)
      /\ topic \in Seq(Requests \cup Foreign)
  BY LenProperties DEF PathInv, TypeInv, PathTypeOK
<1>2. \A d \in 1..deliveries : source[d] \in 1..Len(topic)
  BY SourceOf DEF PathInv
<1>3. \A p \in 1..Len(topic) : topic[p] \in Elems(topic)
  BY <1>1, ElemsOfSeq
<1> QED
  BY <1>1, <1>2, <1>3 DEF Copies, Places, Written, Requests

\* An event MongoLogger has is buffered, stored or lost by a write.
LEMMA AcceptedFate ==
  ASSUME NEW c \in Events, c \in Elems(accepted)
  PROVE  Fate[c] \in {"pending", "stored", "lost"}
  BY DEF Fate

\* What a batch gave up and has an event was taken along by a message that has
\* none.
LEMMA BrokenBefore ==
  ASSUME PathInv, Delivered, NEW d \in dropped, topic[source[d]] # NoEvent
  PROVE  TakenAlong(d)
<1>1. PICK b \in broken : b <= d /\ d < b + MqBatchSize /\ b..d \subseteq dropped
  BY DEF Delivered, DropsFollowABrokenMessage
<1>2. b \in 1..deliveries /\ topic[source[b]] = NoEvent
  BY DEF Delivered, Unlogged, PathInv, ReadOn
<1>3. d \in 1..deliveries /\ deliveries \in Nat
  BY SourceOf DEF Delivered, DeliveriesAreAccountedFor, PathInv
<1>4. b \in b..d /\ b < d
  BY <1>1, <1>2, <1>3
<1> QED
  BY <1>1, <1>2, <1>4 DEF TakenAlong

LEMMA LossesFollow ==
  ASSUME PathInv, BatchTypeOK, Delivered
  PROVE  LossesHaveACause
<1> SUFFICES ASSUME NEW r \in Requests, route[r] \notin {"new", "publishing"},
                    ~ Kept(r)
             PROVE  \/ \E c \in Copies(r) : Fate[c] = "lost" \/ c \in crashed \/ TakenAlong(c)
                    \/ Places(r) \cap skipped # {}
                    \/ route[r] = "cut" /\ Places(r) = {}
  BY DEF LossesHaveACause
<1>1. route[r] \in {"direct", "sent", "failedOver", "cut"}
  BY DEF PathInv, TypeInv, PathTypeOK, Routes
<1>2. CASE route[r] \in {"direct", "failedOver"}
  <2>1. r \in Elems(accepted)
    BY <1>2 DEF PathInv, Routed, Handed
  <2>2. Fate[r] = "lost"
    BY <2>1, CopiesOf, AcceptedFate DEF Kept
  <2> QED
    BY <2>2, CopiesOf
<1>3. ASSUME NEW p \in Places(r)
      PROVE  \/ \E c \in Copies(r) : Fate[c] = "lost" \/ c \in crashed \/ TakenAlong(c)
             \/ p \in skipped
  <2>1. p \in 1..position
    <3>1. p \in 1..Len(topic)
      BY LenProperties DEF Places, PathInv, TypeInv, PathTypeOK
    <3>2. ~ (position < p)
      BY DEF Kept
    <3> QED
      BY <3>1, <3>2, SourceOf DEF PathInv
  <2>2. ASSUME NEW d \in 1..deliveries, source[d] = p
        PROVE  Fate[d] = "lost" \/ d \in crashed \/ TakenAlong(d)
    <3>1. d \in Copies(r)
      BY <2>2 DEF Copies, Places, PathInv, TypeInv, PathTypeOK
    <3>2. d \notin Waiting /\ Fate[d] \notin {"pending", "stored"}
      BY <3>1 DEF Kept
    <3>3. \/ d \in Waiting \/ d \in crashed \/ d \in dropped
          \/ d \in Elems(accepted) \cap Deliveries
      BY DEF Delivered, DeliveriesAreAccountedFor
    <3>4. topic[source[d]] # NoEvent
      BY <2>2, ForeignIsNoRequest DEF Places
    <3>5. d \in dropped => TakenAlong(d)
      BY <3>4, BrokenBefore
    <3> QED
      BY <3>2, <3>3, <3>5, AcceptedFate, BatchAssumption
  <2>3. \A d \in 1..deliveries : source[d] = p => d \in Copies(r)
    BY DEF Copies, Places, PathInv, TypeInv, PathTypeOK
  <2>4. topic[p] # NoJson
    BY ForeignIsNoRequest DEF Places
  <2> QED
    BY <2>1, <2>2, <2>3, <2>4 DEF PathInv, ReadOn
<1>4. CASE route[r] = "sent"
  <2>1. r \in Elems(topic)
    BY <1>4 DEF PathInv, Routed, Written
  <2>2. Places(r) # {}
    BY <2>1, ElemsOfSeq DEF PathInv, TypeInv, PathTypeOK, Places, Elems
  <2> QED
    BY <2>2, <1>3
<1> QED
  BY <1>1, <1>2, <1>3, <1>4

\* For any number of events, messages and deliveries and any batch sizes, an
\* event that log() has answered for is in memory, in the topic ahead of the
\* consumer or stored, or one of the five causes struck it.
THEOREM LossesHaveACauseHolds == PathSpec => []LossesHaveACause
  BY LossesFollow, PathInvariance, PTL

LEMMA RepeatsFollow ==
  ASSUME PathInv, IInv
  PROVE  RepeatsHaveACause
<1>1. persisted \subseteq Elems(accepted)
  BY MemoryIsPending DEF IInv, PersistedWasSettled
<1> SUFFICES ASSUME NEW r \in Requests, NEW c \in Copies(r) \cap persisted,
                    NEW d \in Copies(r) \cap persisted, c # d
             PROVE  route[r] = "failedOver" \/ Places(r) \cap refetched # {}
  BY DEF RepeatsHaveACause
<1>2. CASE c = r \/ d = r
  <2>1. r \in Written
    BY <1>2, CopiesOf
  <2>2. r \in Handed
    BY <1>1, <1>2 DEF Handed
  <2> QED
    BY <2>1, <2>2 DEF PathInv, Routed, Sent
<1>3. CASE c # r /\ d # r
  <2>1. /\ c \in 1..deliveries /\ d \in 1..deliveries
        /\ topic[source[c]] = r /\ topic[source[d]] = r /\ source[d] \in Places(r)
    BY <1>3, CopiesOf
  <2>2. source[c] \in 1..Len(topic) /\ source[d] \in 1..Len(topic)
    BY <2>1, SourceOf DEF PathInv
  <2>3. source[c] = source[d]
    BY <2>1, <2>2, ForeignIsNoRequest DEF PathInv, Routed, OncePerEvent
  <2> QED
    BY <2>1, <2>3 DEF PathInv, ReadOn
<1> QED
  BY <1>2, <1>3

\* And it is stored twice only when its publish failed although the broker had
\* it, or when a consumer read its message again.
THEOREM RepeatsHaveACauseHolds == PathSpec => []RepeatsHaveACause
  BY RepeatsFollow, PathInvariance, PTL
=============================================================================
