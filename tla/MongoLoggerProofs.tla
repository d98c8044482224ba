-------------------------- MODULE MongoLoggerProofs --------------------------
(***************************************************************************)
(* What holds of MongoLogger for every set of events and every batch size: *)
(* its inductive invariant, and that it implements EventLog.               *)
(***************************************************************************)
EXTENDS MongoLogger, SequenceTheorems, TLAPS

-----------------------------------------------------------------------------
(* The elements of sequences.                                              *)

\* The elements of a sequence are those at its positions.
LEMMA ElemsOfSeq ==
  ASSUME NEW S, NEW s \in Seq(S)
  PROVE  /\ Elems(s) \subseteq S
         /\ \A i \in 1..Len(s) : s[i] \in Elems(s)
         /\ \A x \in Elems(s) : \E i \in 1..Len(s) : x = s[i]
  BY DEF Elems

\* The elements of a concatenation are those of its two parts.
LEMMA ElemsConcat ==
  ASSUME NEW S, NEW s \in Seq(S), NEW t \in Seq(S)
  PROVE  Elems(s \o t) = Elems(s) \cup Elems(t)
<1>1. /\ s \o t \in Seq(S)
      /\ Len(s \o t) = Len(s) + Len(t)
      /\ \A i \in 1..Len(s) + Len(t) :
            (s \o t)[i] = IF i <= Len(s) THEN s[i] ELSE t[i - Len(s)]
  BY ConcatProperties
<1>2. Elems(s \o t) \subseteq Elems(s) \cup Elems(t)
  BY <1>1, ElemsOfSeq DEF Elems
<1>3. ASSUME NEW i \in 1..Len(s) PROVE s[i] \in Elems(s \o t)
  BY <1>1 DEF Elems
<1>4. ASSUME NEW i \in 1..Len(t) PROVE t[i] \in Elems(s \o t)
  <2>1. Len(s) + i \in 1..Len(s \o t) /\ (s \o t)[Len(s) + i] = t[i]
    BY <1>1
  <2>2. QED
    BY <1>1, <2>1, ElemsOfSeq
<1>5. QED
  BY <1>2, <1>3, <1>4, ElemsOfSeq

\* Appending an element adds it to the elements.
LEMMA ElemsAppend ==
  ASSUME NEW S, NEW s \in Seq(S), NEW e \in S
  PROVE  Elems(Append(s, e)) = Elems(s) \cup {e}
<1>1. Append(s, e) = s \o <<e>> /\ <<e>> \in Seq(S)
  BY AppendIsConcat
<1>2. Elems(s \o <<e>>) = Elems(s) \cup Elems(<<e>>)
  BY <1>1, ElemsConcat
<1>3. Elems(<<e>>) = {e}
  BY DEF Elems
<1>4. QED
  BY <1>1, <1>2, <1>3

-----------------------------------------------------------------------------
(* Type correctness.                                                       *)

\* flush() leaves sequences of events and a known flusher behind.
LEMMA StartFlushType ==
  ASSUME NEW buf \in Seq(Events), NEW who \in Flushers,
         TypeOK, StartFlush(buf, who)
  PROVE  /\ buffer' \in Seq(Events) /\ toWrite' \in Seq(Events)
         /\ isFlushing' \in BOOLEAN /\ flusher' \in Flushers
<1>1. CASE Skips(buf)
  BY <1>1 DEF StartFlush, TypeOK
<1>2. CASE ~ Skips(buf)
  BY <1>2, EmptySeq DEF StartFlush, TypeOK
<1>3. QED
  BY <1>1, <1>2

\* A logger that was just made is well typed.
LEMMA InitType ==
  ASSUME Init
  PROVE  TypeOK
<1>1. <<>> \in Seq(Events)
  BY EmptySeq
<1>2. QED
  BY <1>1 DEF Init, TypeOK, Flushers, Phases

LEMMA StepKeepsType ==
  ASSUME TypeOK, [Next]_vars
  PROVE  TypeOK'
<1>1. ASSUME NEW e \in Events, Log(e)
      PROVE  TypeOK'
  <2> DEFINE buf == Append(buffer, e)
  <2>1. buf \in Seq(Events) /\ accepted' \in Seq(Events)
    BY <1>1 DEF TypeOK, Log
  <2>2. \/ StartFlush(buf, "log")
        \/ buffer' = buf /\ UNCHANGED <<isFlushing, toWrite, flusher>>
    BY <1>1 DEF Log
  <2>3. /\ buffer' \in Seq(Events) /\ toWrite' \in Seq(Events)
        /\ isFlushing' \in BOOLEAN /\ flusher' \in Flushers
    <3>1. CASE StartFlush(buf, "log")
      BY <2>1, <3>1, StartFlushType DEF Flushers
    <3>2. CASE buffer' = buf /\ UNCHANGED <<isFlushing, toWrite, flusher>>
      BY <2>1, <3>2 DEF TypeOK
    <3>3. QED
      BY <2>2, <3>1, <3>2
  <2>4. QED
    BY <1>1, <2>1, <2>3 DEF Log, TypeOK
<1>2. CASE TimerFires
  <2>1. /\ buffer' \in Seq(Events) /\ toWrite' \in Seq(Events)
        /\ isFlushing' \in BOOLEAN /\ flusher' \in Flushers
    BY <1>2, StartFlushType DEF TimerFires, TypeOK, Flushers
  <2>2. QED
    BY <1>2, <2>1 DEF TimerFires, TypeOK, history
<1>3. ASSUME NEW written \in SUBSET Elems(toWrite),
             InsertManySettles(written)
      PROVE  TypeOK'
  <2>1. written \subseteq Events /\ settled \o toWrite \in Seq(Events)
    BY <1>3, ElemsOfSeq, ConcatProperties DEF TypeOK
  <2>2. QED
    BY <1>3, <2>1, EmptySeq DEF InsertManySettles, TypeOK, Flushers, Phases
<1>4. CASE OnModuleDestroy
  <2>1. /\ buffer' \in Seq(Events) /\ toWrite' \in Seq(Events)
        /\ isFlushing' \in BOOLEAN /\ flusher' \in Flushers
    BY <1>4, StartFlushType DEF OnModuleDestroy, TypeOK, Flushers
  <2>2. QED
    BY <1>4, <2>1, LenProperties DEF OnModuleDestroy, TypeOK, Phases, history
<1>5. ASSUME NEW written \in SUBSET Elems(toWrite), Exit(written)
      PROVE  TypeOK'
  <2>1. written \subseteq Events
    BY <1>5, ElemsOfSeq DEF TypeOK
  <2>2. settled \o (toWrite \o buffer) \in Seq(Events)
    BY ConcatProperties DEF TypeOK
  <2>3. QED
    BY <1>5, <2>1, <2>2, EmptySeq DEF Exit, TypeOK, Flushers, Phases
<1>6. CASE Start
  BY <1>6 DEF Start, TypeOK, Phases, memory, history
<1>7. CASE UNCHANGED vars
  BY <1>7 DEF vars, memory, history, TypeOK
<1>8. QED
  BY <1>1, <1>2, <1>3, <1>4, <1>5, <1>6, <1>7 DEF Next

\* Every variable keeps its type, whatever the events and the batch size.
THEOREM TypeCorrect == SafeSpec => []TypeOK
  BY InitType, StepKeepsType, PTL DEF SafeSpec

-----------------------------------------------------------------------------
(* The inductive invariant.                                                *)

\* Nothing reaches the collection except by a write that has settled.
PersistedWasSettled == persisted \subseteq Elems(settled)

\* No call of log() is accepted twice; needed to tell where an event stands.
AcceptedOnce ==
  \A i, j \in 1..Len(accepted) : accepted[i] = accepted[j] => i = j

IInv == /\ TypeOK
        /\ Conservation
        /\ SingleFlight
        /\ PersistedWasSettled
        /\ AcceptedOnce

\* flush() moves documents from the buffer to the write in flight, in order.
LEMMA StartFlushMoves ==
  ASSUME NEW buf \in Seq(Events), NEW who \in Flushers \ {"none"},
         TypeOK, SingleFlight, StartFlush(buf, who)
  PROVE  /\ toWrite' \o buffer' = toWrite \o buf
         /\ SingleFlight'
<1>1. CASE Skips(buf)
  BY <1>1 DEF StartFlush, SingleFlight, Skips
<1>2. CASE ~ Skips(buf)
  <2>1. toWrite = <<>> /\ buf # <<>>
    BY <1>2 DEF Skips, SingleFlight
  <2>2. toWrite' = buf /\ buffer' = <<>> /\ isFlushing' = TRUE /\ flusher' = who
    BY <1>2 DEF StartFlush
  <2>3. toWrite' \o buffer' = toWrite \o buf
    BY <2>1, <2>2, ConcatEmptySeq
  <2>4. SingleFlight'
    BY <2>1, <2>2 DEF SingleFlight
  <2>5. QED
    BY <2>3, <2>4
<1>3. QED
  BY <1>1, <1>2

\* A log() call keeps the invariant.
LEMMA LogKeeps ==
  ASSUME IInv, TypeOK', NEW e \in Events, Log(e)
  PROVE  IInv'
<1> DEFINE buf == Append(buffer, e)
<1>1. /\ buffer \in Seq(Events) /\ toWrite \in Seq(Events)
      /\ settled \in Seq(Events) /\ accepted \in Seq(Events)
      /\ buf \in Seq(Events)
  BY AppendProperties DEF IInv, TypeOK
<1>2. toWrite' \o buffer' = toWrite \o buf /\ SingleFlight'
  <2>1. CASE StartFlush(buf, "log")
    BY <1>1, <2>1, StartFlushMoves DEF IInv, Flushers
  <2>2. CASE buffer' = buf /\ UNCHANGED <<isFlushing, toWrite, flusher>>
    BY <2>2 DEF IInv, SingleFlight
  <2>3. QED
    BY <2>1, <2>2 DEF Log
<1>3. Conservation'
  <2>1. accepted' = Append(settled \o (toWrite \o buffer), e) /\ settled' = settled
    BY DEF Log, IInv, Conservation
  <2>2. /\ toWrite \o buffer \in Seq(Events)
        /\ settled \o (toWrite \o buffer) \in Seq(Events)
        /\ <<e>> \in Seq(Events)
    BY <1>1, ConcatProperties
  <2>3. accepted' = (settled \o (toWrite \o buffer)) \o <<e>>
    BY <2>1, <2>2, AppendIsConcat
  <2>4. accepted' = settled \o ((toWrite \o buffer) \o <<e>>)
    BY <1>1, <2>2, <2>3, ConcatAssociative
  <2>5. (toWrite \o buffer) \o <<e>> = toWrite \o (buffer \o <<e>>)
    BY <1>1, <2>2, ConcatAssociative
  <2>6. buffer \o <<e>> = buf
    BY <1>1, AppendIsConcat
  <2>7. QED
    BY <1>2, <2>1, <2>4, <2>5, <2>6 DEF Conservation
<1>4. AcceptedOnce'
  <2>1. accepted' = Append(accepted, e) /\ e \notin Elems(accepted)
    BY DEF Log
  <2>2. \A i \in 1..Len(accepted) : accepted[i] # e
    BY <1>1, <2>1, ElemsOfSeq
  <2>3. /\ Len(accepted') = Len(accepted) + 1
        /\ \A i \in 1..Len(accepted) : accepted'[i] = accepted[i]
        /\ accepted'[Len(accepted) + 1] = e
    BY <1>1, <2>1, AppendProperties
  <2>4. QED
    BY <1>1, <2>2, <2>3, LenProperties DEF IInv, AcceptedOnce
<1>5. PersistedWasSettled'
  BY DEF Log, IInv, PersistedWasSettled, Elems
<1>6. QED
  BY <1>2, <1>3, <1>4, <1>5 DEF IInv

\* So does a flush that the timer or the shutdown hook starts.
LEMMA FlushKeeps ==
  ASSUME IInv, TypeOK', NEW who \in Flushers \ {"none"},
         StartFlush(buffer, who), UNCHANGED history
  PROVE  IInv'
<1>1. toWrite' \o buffer' = toWrite \o buffer /\ SingleFlight'
  BY StartFlushMoves DEF IInv, TypeOK
<1>2. QED
  BY <1>1 DEF IInv, Conservation, PersistedWasSettled, AcceptedOnce, history, Elems

\* So does the end of a write, whatever part of the batch it stored.
LEMMA WriteKeeps ==
  ASSUME IInv, TypeOK', NEW written \in SUBSET Elems(toWrite),
         InsertManySettles(written)
  PROVE  IInv'
<1>1. /\ settled \in Seq(Events) /\ toWrite \in Seq(Events)
      /\ buffer \in Seq(Events)
  BY DEF IInv, TypeOK
<1>2. /\ settled' = settled \o toWrite /\ toWrite' = <<>> /\ buffer' = buffer
      /\ accepted' = accepted /\ persisted' = persisted \cup written
      /\ isFlushing' = FALSE /\ flusher' = "none"
  BY DEF InsertManySettles
<1>3. Conservation'
  <2>1. toWrite' \o buffer' = buffer
    BY <1>1, <1>2, ConcatEmptySeq
  <2>2. (settled \o toWrite) \o buffer = settled \o (toWrite \o buffer)
    BY <1>1, ConcatAssociative
  <2>3. QED
    BY <1>2, <2>1, <2>2 DEF IInv, Conservation
<1>4. PersistedWasSettled'
  <2>1. Elems(settled') = Elems(settled) \cup Elems(toWrite)
    BY <1>1, <1>2, ElemsConcat
  <2>2. QED
    BY <1>2, <2>1 DEF IInv, PersistedWasSettled
<1>5. SingleFlight' /\ AcceptedOnce'
  BY <1>2 DEF SingleFlight, AcceptedOnce, IInv
<1>6. QED
  BY <1>3, <1>4, <1>5 DEF IInv

\* So does the end of the process.
LEMMA ExitKeeps ==
  ASSUME IInv, TypeOK', NEW written \in SUBSET Elems(toWrite), Exit(written)
  PROVE  IInv'
<1>1. /\ settled \in Seq(Events) /\ toWrite \in Seq(Events)
      /\ buffer \in Seq(Events) /\ toWrite \o buffer \in Seq(Events)
      /\ settled' \in Seq(Events)
  BY ConcatProperties DEF IInv, TypeOK
<1>2. /\ settled' = settled \o (toWrite \o buffer)
      /\ toWrite' = <<>> /\ buffer' = <<>>
      /\ accepted' = accepted /\ persisted' = persisted \cup written
      /\ isFlushing' = FALSE /\ flusher' = "none"
  BY DEF Exit
<1>3. Conservation'
  <2>1. toWrite' \o buffer' = <<>>
    BY <1>2, EmptySeq, ConcatEmptySeq
  <2>2. settled' \o <<>> = settled'
    BY <1>1, ConcatEmptySeq
  <2>3. QED
    BY <1>2, <2>1, <2>2 DEF IInv, Conservation
<1>4. PersistedWasSettled'
  <2>1. Elems(settled \o (toWrite \o buffer))
        = Elems(settled) \cup Elems(toWrite \o buffer)
    <3>1. PICK t \in Seq(Events) : t = toWrite \o buffer
      BY <1>1
    <3>2. Elems(settled \o t) = Elems(settled) \cup Elems(t)
      BY <1>1, ElemsConcat
    <3>3. QED
      BY <3>1, <3>2
  <2>2. Elems(toWrite \o buffer) = Elems(toWrite) \cup Elems(buffer)
    BY <1>1, ElemsConcat
  <2>3. Elems(settled') = Elems(settled) \cup Elems(toWrite \o buffer)
    BY <1>2, <2>1, Zenon
  <2>4. QED
    BY <1>2, <2>2, <2>3 DEF IInv, PersistedWasSettled
<1>5. SingleFlight' /\ AcceptedOnce'
  BY <1>2 DEF SingleFlight, AcceptedOnce, IInv
<1>6. QED
  BY <1>3, <1>4, <1>5 DEF IInv

\* Every step keeps the invariant, provided it keeps the types.
LEMMA NextKeeps ==
  ASSUME IInv, TypeOK', [Next]_vars
  PROVE  IInv'
<1>1. ASSUME NEW e \in Events, Log(e) PROVE IInv'
  BY <1>1, LogKeeps
<1>2. CASE TimerFires
  BY <1>2, FlushKeeps DEF TimerFires, Flushers
<1>3. ASSUME NEW written \in SUBSET Elems(toWrite), InsertManySettles(written)
      PROVE  IInv'
  BY <1>3, WriteKeeps
<1>4. CASE OnModuleDestroy
  BY <1>4, FlushKeeps DEF OnModuleDestroy, Flushers
<1>5. ASSUME NEW written \in SUBSET Elems(toWrite), Exit(written) PROVE IInv'
  BY <1>5, ExitKeeps
<1>6. CASE Start
  BY <1>6 DEF Start, memory, history, IInv, Conservation, SingleFlight,
              PersistedWasSettled, AcceptedOnce, Elems
<1>7. CASE UNCHANGED vars
  BY <1>7 DEF vars, memory, history, IInv, Conservation, SingleFlight,
              PersistedWasSettled, AcceptedOnce, Elems
<1>8. QED
  BY <1>1, <1>2, <1>3, <1>4, <1>5, <1>6, <1>7 DEF Next

\* The invariant holds in every reachable state.
THEOREM Invariance == SafeSpec => []IInv
<1>1. Init => IInv
  <2> SUFFICES ASSUME Init PROVE IInv
    OBVIOUS
  <2>1. <<>> \in Seq(Events)
    BY EmptySeq
  <2>2. TypeOK
    BY InitType
  <2>3. Conservation
    BY <2>1, ConcatEmptySeq DEF Init, Conservation
  <2>4. SingleFlight /\ PersistedWasSettled /\ AcceptedOnce
    BY DEF Init, SingleFlight, PersistedWasSettled, AcceptedOnce
  <2>5. QED
    BY <2>2, <2>3, <2>4 DEF IInv
<1>2. IInv /\ TypeOK' /\ [Next]_vars => IInv'
  BY NextKeeps
<1>3. QED
  BY <1>1, <1>2, TypeCorrect, PTL DEF SafeSpec

\* Every accepted event is once and in order in one of: settled, being
\* written, buffered.
THEOREM ConservationHolds == SafeSpec => []Conservation
<1>1. IInv => Conservation
  BY DEF IInv
<1>2. QED
  BY <1>1, Invariance, PTL

\* isFlushing is set exactly while one insertMany is in flight.
THEOREM SingleFlightHolds == SafeSpec => []SingleFlight
<1>1. IInv => SingleFlight
  BY DEF IInv
<1>2. QED
  BY <1>1, Invariance, PTL

\* The buffer reaches the batch size only behind a write in flight.
THEOREM GrowsPastBatchHolds == SafeSpec => GrowsPastBatchOnlyDuringFlush
<1>1. ASSUME TypeOK, Next, Len(buffer') > Len(buffer), Len(buffer') >= BatchSize
      PROVE  isFlushing
  <2>1. Len(buffer) \in Nat /\ buffer \in Seq(Events) /\ Len(<<>>) = 0
    BY <1>1, LenProperties DEF TypeOK
  <2>2. ~ (Len(buffer) > Len(buffer)) /\ ~ (0 > Len(buffer))
    BY <2>1
  <2>3. PICK e \in Events : Log(e)
    BY <1>1, <2>1, <2>2
       DEF Next, TimerFires, InsertManySettles, OnModuleDestroy, Exit, Start,
           StartFlush, memory
  <2>4. Append(buffer, e) # <<>>
    BY <2>1
  <2>5. CASE ReachedBatchSize(Append(buffer, e))
    BY <1>1, <2>1, <2>2, <2>3, <2>4, <2>5 DEF Log, StartFlush, Skips
  <2>6. CASE ~ ReachedBatchSize(Append(buffer, e))
    BY <1>1, <2>3, <2>6 DEF Log, ReachedBatchSize
  <2>7. QED
    BY <2>5, <2>6
<1>2. TypeOK /\ [Next]_vars
        => [Len(buffer') > Len(buffer) /\ Len(buffer') >= BatchSize
              => isFlushing]_vars
  BY <1>1
<1>3. QED
  BY <1>2, TypeCorrect, PTL DEF SafeSpec, GrowsPastBatchOnlyDuringFlush

-----------------------------------------------------------------------------
(* Shutdown.                                                               *)

\* While onModuleDestroy awaits its flush, that flush carries every event
\* accepted before it and not settled yet.
Draining ==
  /\ flusher = "destroy" <=> phase = "destroying"
  /\ phase = "destroying" => destroyMark <= Len(settled) + Len(toWrite)

\* How many events are where.
LEMMA Lengths ==
  ASSUME TypeOK, Conservation
  PROVE  /\ Len(settled) \in Nat /\ Len(toWrite) \in Nat /\ Len(buffer) \in Nat
         /\ Len(accepted) = Len(settled) + Len(toWrite) + Len(buffer)
         /\ Len(settled \o toWrite) = Len(settled) + Len(toWrite)
         /\ toWrite = <<>> => Len(toWrite) = 0
         /\ buffer = <<>> => Len(buffer) = 0
<1>1. /\ settled \in Seq(Events) /\ toWrite \in Seq(Events)
      /\ buffer \in Seq(Events)
  BY DEF TypeOK
<1>2. /\ toWrite \o buffer \in Seq(Events)
      /\ Len(toWrite \o buffer) = Len(toWrite) + Len(buffer)
      /\ Len(settled \o toWrite) = Len(settled) + Len(toWrite)
  BY <1>1, ConcatProperties
<1>3. Len(accepted) = Len(settled) + Len(toWrite \o buffer)
  BY <1>1, <1>2, ConcatProperties DEF Conservation
<1>4. Len(settled) \in Nat /\ Len(toWrite) \in Nat /\ Len(buffer) \in Nat
  BY <1>1, LenProperties
<1>5. QED
  BY <1>2, <1>3, <1>4

LEMMA NextKeepsDraining ==
  ASSUME IInv, Draining, [Next]_vars
  PROVE  Draining'
<1>1. TypeOK /\ Conservation /\ SingleFlight
  BY DEF IInv
<1>2. CASE UNCHANGED <<phase, destroyMark, settled>> /\ UNCHANGED <<toWrite, flusher>>
  BY <1>2 DEF Draining
<1>3. CASE /\ UNCHANGED <<phase, destroyMark, settled>>
           /\ ~ isFlushing /\ flusher' \in {"log", "timer"}
  BY <1>1, <1>3 DEF Draining, SingleFlight
<1>4. ASSUME NEW e \in Events, Log(e) PROVE Draining'
  BY <1>2, <1>3, <1>4 DEF Log, StartFlush, Skips
<1>5. CASE TimerFires
  BY <1>2, <1>3, <1>5 DEF TimerFires, StartFlush, Skips, history
<1>6. ASSUME NEW written \in SUBSET Elems(toWrite), InsertManySettles(written)
      PROVE  Draining'
  BY <1>6 DEF InsertManySettles, Draining
<1>7. CASE OnModuleDestroy
  <2>1. CASE Skips(buffer)
    BY <1>7, <2>1 DEF OnModuleDestroy, StartFlush, Draining
  <2>2. CASE ~ Skips(buffer)
    <3>1. /\ flusher' = "destroy" /\ phase' = "destroying"
          /\ toWrite' = buffer /\ settled' = settled
          /\ destroyMark' = Len(accepted)
      BY <1>7, <2>2 DEF OnModuleDestroy, StartFlush, history
    <3>2. toWrite = <<>>
      BY <1>1, <2>2 DEF Skips, SingleFlight
    <3>3. Len(accepted) <= Len(settled) + Len(buffer)
      BY <1>1, <3>2, Lengths
    <3>4. QED
      BY <3>1, <3>3 DEF Draining
  <2>3. QED
    BY <2>1, <2>2
<1>8. ASSUME NEW written \in SUBSET Elems(toWrite), Exit(written) PROVE Draining'
  BY <1>8 DEF Exit, Draining
<1>9. CASE Start
  BY <1>9 DEF Start, memory, Draining
<1>10. CASE UNCHANGED vars
  BY <1>2, <1>10 DEF vars, memory, history
<1>11. QED
  BY <1>4, <1>5, <1>6, <1>7, <1>8, <1>9, <1>10 DEF Next

\* When onModuleDestroy returns and no flush of somebody else was in its way,
\* everything accepted before it was called is settled.
THEOREM DestroyDrainsHolds == SafeSpec => DestroyDrains
<1>1. Init => Draining
  BY DEF Init, Draining
<1>2. IInv /\ Draining /\ [Next]_vars => Draining'
  BY NextKeepsDraining
<1>3. ASSUME IInv, Draining, Next,
             phase # "destroyed", phase' = "destroyed",
             isFlushing => flusher = "destroy"
      PROVE  Len(settled') >= destroyMark'
  <2>1. TypeOK /\ Conservation /\ SingleFlight
    BY <1>3 DEF IInv
  <2>2. CASE OnModuleDestroy
    <3>1. Skips(buffer) /\ flusher # "destroy"
      BY <1>3, <2>2 DEF OnModuleDestroy, Draining
    <3>2. buffer = <<>> /\ toWrite = <<>>
      BY <1>3, <2>1, <3>1 DEF Skips, SingleFlight
    <3>3. settled' = settled /\ destroyMark' = Len(accepted)
      BY <2>2 DEF OnModuleDestroy, history
    <3>4. QED
      BY <2>1, <3>2, <3>3, Lengths
  <2>3. CASE \E written \in SUBSET Elems(toWrite) : InsertManySettles(written)
    <3>1. /\ settled' = settled \o toWrite /\ destroyMark' = destroyMark
          /\ phase = "destroying"
      BY <1>3, <2>3 DEF InsertManySettles, Draining
    <3>2. destroyMark <= Len(settled) + Len(toWrite) /\ destroyMark \in Nat
      BY <1>3, <2>1, <3>1 DEF Draining, TypeOK
    <3>3. QED
      BY <2>1, <3>1, <3>2, Lengths
  <2>4. QED
    BY <1>3, <2>2, <2>3 DEF Next, Log, TimerFires, Exit, Start
<1>4. IInv /\ Draining /\ [Next]_vars
        => [/\ phase # "destroyed" /\ phase' = "destroyed"
            /\ isFlushing => flusher = "destroy"
            => Len(settled') >= destroyMark']_vars
  BY <1>3
<1>5. QED
  BY <1>1, <1>2, <1>4, Invariance, PTL DEF SafeSpec, DestroyDrains

-----------------------------------------------------------------------------
(* MongoLogger implements EventLog.                                        *)

\* What is still in memory was accepted, and its fate is open.
LEMMA MemoryIsPending ==
  ASSUME IInv
  PROVE  /\ Elems(toWrite \o buffer) \subseteq Elems(accepted)
         /\ Elems(toWrite) \subseteq Elems(toWrite \o buffer)
         /\ Elems(settled) \subseteq Elems(accepted)
         /\ Elems(toWrite \o buffer) \cap Elems(settled) = {}
<1>1. PICK t \in Seq(Events) : t = toWrite \o buffer
  BY ConcatProperties DEF IInv, TypeOK
<1>2. /\ settled \in Seq(Events) /\ accepted \in Seq(Events)
      /\ toWrite \in Seq(Events) /\ buffer \in Seq(Events)
  BY DEF IInv, TypeOK
<1>3. accepted = settled \o t
  BY <1>1 DEF IInv, Conservation
<1>4. /\ Len(accepted) = Len(settled) + Len(t)
      /\ \A i \in 1..Len(settled) + Len(t) :
           accepted[i] = IF i <= Len(settled) THEN settled[i]
                         ELSE t[i - Len(settled)]
  BY <1>2, <1>3, ConcatProperties
<1>5. Elems(accepted) = Elems(settled) \cup Elems(t)
  BY <1>2, <1>3, ElemsConcat
<1>6. Elems(t) = Elems(toWrite) \cup Elems(buffer)
  BY <1>1, <1>2, ElemsConcat
<1>7. Elems(t) \cap Elems(settled) = {}
  <2> SUFFICES ASSUME NEW i \in 1..Len(t), NEW j \in 1..Len(settled),
                      t[i] = settled[j]
               PROVE  FALSE
    BY <1>2, ElemsOfSeq
  <2>1. Len(settled) \in Nat /\ Len(t) \in Nat
    BY <1>2, LenProperties
  <2>2. Len(settled) + i \in 1..Len(accepted) /\ j \in 1..Len(accepted)
    BY <1>4, <2>1
  <2>3. accepted[Len(settled) + i] = t[i] /\ accepted[j] = settled[j]
    BY <1>4, <2>1
  <2>4. QED
    BY <2>1, <2>2, <2>3 DEF IInv, AcceptedOnce
<1>8. QED
  BY <1>1, <1>5, <1>6, <1>7

\* Settling a part of what is in memory is a settling of the sink.
LEMMA SettlingIsSettle ==
  ASSUME IInv, NEW t \in Seq(Events), NEW written \in SUBSET Elems(t),
         Elems(t) \subseteq Elems(toWrite \o buffer),
         settled' = settled \o t, persisted' = persisted \cup written,
         accepted' = accepted
  PROVE  Sink!Settle(Elems(t), written)
<1>1. /\ Elems(t) \subseteq Elems(accepted)
      /\ Elems(t) \cap Elems(settled) = {}
  BY MemoryIsPending
<1>2. Elems(t) \subseteq Events
  BY ElemsOfSeq
<1>3. Elems(settled') = Elems(settled) \cup Elems(t)
  BY ElemsConcat DEF IInv, TypeOK
<1>4. persisted \subseteq Elems(settled)
  BY DEF IInv, PersistedWasSettled
<1>5. Elems(t) \subseteq Sink!Pending
  BY <1>1, <1>2 DEF Sink!Pending, Fate
<1>6. Fate' = [e \in Events |-> IF e \in written THEN "stored"
                                ELSE IF e \in Elems(t) THEN "lost"
                                ELSE Fate[e]]
  <2> SUFFICES ASSUME NEW e \in Events
               PROVE  Fate'[e] = IF e \in written THEN "stored"
                                 ELSE IF e \in Elems(t) THEN "lost"
                                 ELSE Fate[e]
    BY DEF Fate
  <2>1. Fate'[e] = IF e \notin Elems(accepted) THEN "unseen"
                   ELSE IF e \notin Elems(settled) \cup Elems(t) THEN "pending"
                   ELSE IF e \in persisted \cup written THEN "stored" ELSE "lost"
    BY <1>3 DEF Fate
  <2>2. CASE e \in Elems(t)
    BY <1>1, <1>4, <2>1, <2>2
  <2>3. CASE e \notin Elems(t)
    BY <2>1, <2>3 DEF Fate
  <2>4. QED
    BY <2>2, <2>3
<1>7. QED
  BY <1>5, <1>6 DEF Sink!Settle

\* A step that leaves the history alone changes no event's fate.
LEMMA SameHistorySameFate ==
  ASSUME UNCHANGED history
  PROVE  Fate' = Fate
  BY DEF history, Fate, Elems

\* A log() call is an acceptance.
LEMMA LogIsAccept ==
  ASSUME IInv, NEW e \in Events, Log(e)
  PROVE  Sink!Accept(e)
<1>1. /\ accepted' = Append(accepted, e) /\ e \notin Elems(accepted)
      /\ settled' = settled /\ persisted' = persisted
  BY DEF Log
<1>2. Elems(accepted') = Elems(accepted) \cup {e}
  BY <1>1, ElemsAppend DEF IInv, TypeOK
<1>3. e \notin Elems(settled)
  BY <1>1, MemoryIsPending
<1>4. Fate[e] = "unseen"
  BY <1>1 DEF Fate
<1>5. Fate' = [Fate EXCEPT ![e] = "pending"]
  <2> SUFFICES ASSUME NEW x \in Events
               PROVE  Fate'[x] = IF x = e THEN "pending" ELSE Fate[x]
    BY DEF Fate
  <2>1. Fate'[x] = IF x \notin Elems(accepted) \cup {e} THEN "unseen"
                   ELSE IF x \notin Elems(settled) THEN "pending"
                   ELSE IF x \in persisted THEN "stored" ELSE "lost"
    BY <1>1, <1>2 DEF Fate, Elems
  <2>2. QED
    BY <1>3, <2>1 DEF Fate
<1>6. QED
  BY <1>4, <1>5 DEF Sink!Accept

\* MongoLogger implements the log sink: an event is accepted once, and its
\* fate is decided once and never changes after.
THEOREM Refinement == SafeSpec => ImplementsEventLog
<1>1. Init => Sink!Init
  <2> SUFFICES ASSUME Init PROVE Sink!Init
    OBVIOUS
  <2>1. Elems(accepted) = {}
    BY DEF Init, Elems
  <2>2. QED
    BY <2>1 DEF Sink!Init, Fate
<1>2. IInv /\ [Next]_vars => [Sink!Next]_Fate
  <2> SUFFICES ASSUME IInv, [Next]_vars
               PROVE  Sink!Next \/ Fate' = Fate
    OBVIOUS
  <2>1. ASSUME NEW e \in Events, Log(e)
        PROVE  Sink!Next
    BY <2>1, LogIsAccept DEF Sink!Next
  <2>2. ASSUME NEW written \in SUBSET Elems(toWrite),
               InsertManySettles(written)
        PROVE  Sink!Next
    <3>1. Sink!Settle(Elems(toWrite), written)
      BY <2>2, SettlingIsSettle, MemoryIsPending
         DEF InsertManySettles, IInv, TypeOK
    <3>2. Elems(toWrite) \subseteq Events
      BY ElemsOfSeq DEF IInv, TypeOK
    <3>3. QED
      BY <3>1, <3>2 DEF Sink!Next
  <2>3. ASSUME NEW written \in SUBSET Elems(toWrite), Exit(written)
        PROVE  Sink!Next
    <3>1. PICK t \in Seq(Events) : t = toWrite \o buffer
      BY ConcatProperties DEF IInv, TypeOK
    <3>2. written \subseteq Elems(t) /\ Elems(t) \subseteq Events
      BY <3>1, MemoryIsPending, ElemsOfSeq
    <3>3. Sink!Settle(Elems(t), written)
      BY <2>3, <3>1, <3>2, SettlingIsSettle DEF Exit
    <3>4. QED
      BY <3>2, <3>3 DEF Sink!Next
  <2>4. CASE TimerFires \/ OnModuleDestroy \/ Start \/ UNCHANGED vars
    BY <2>4, SameHistorySameFate DEF TimerFires, OnModuleDestroy, Start, vars,
       history
  <2>5. QED
    BY <2>1, <2>2, <2>3, <2>4 DEF Next
<1>3. QED
  BY <1>1, <1>2, Invariance, PTL DEF SafeSpec, ImplementsEventLog, Sink!Spec
=============================================================================
