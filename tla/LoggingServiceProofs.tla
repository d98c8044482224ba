------------------------ MODULE LoggingServiceProofs ------------------------
(***************************************************************************)
(* What holds of LoggingService for every finite set of requests, any ids  *)
(* and every configuration: the counters are exact, and the map of request *)
(* ids keeps repeats of an id more than CacheSize finalizations apart.     *)
(***************************************************************************)
EXTENDS LoggingService, FiniteSetTheorems, SequenceTheorems, TLAPS

-----------------------------------------------------------------------------
(* Type correctness.                                                       *)

\* A removal and a head eviction leave a sequence of ids.
LEMMA CacheSetFresh ==
  ASSUME NEW cache \in Seq(Ids), NEW id \in Ids, id \notin Elems(cache)
  PROVE  /\ CacheSet(cache, id) \in Seq(Ids)
         /\ CacheSet(cache, id) =
              IF Len(cache) + 1 > CacheSize THEN Tail(Append(cache, id))
              ELSE Append(cache, id)
<1>1. Without(cache, id) = cache
  BY DEF Without
<1>2. /\ Append(cache, id) \in Seq(Ids)
      /\ Append(cache, id) # <<>>
      /\ Len(Append(cache, id)) = Len(cache) + 1
  BY AppendProperties
<1>3. Tail(Append(cache, id)) \in Seq(Ids)
  BY <1>2, HeadTailProperties
<1>4. QED
  BY <1>1, <1>2, <1>3 DEF CacheSet

\* Whichever gate stops the call, it keeps the types.
LEMMA FinalizeType ==
  ASSUME TypeOK, NEW r \in Requests, NEW id \in Ids,
         NEW traits \in SUBSET Traits, Finalize(r, id, traits)
  PROVE  TypeOK'
<1>1. /\ finalized' \in Seq(Ids) /\ finalizeOrder' \in Seq(Ids)
  <2>1. CASE id \in Elems(finalized)
    BY <2>1 DEF Finalize, Duplicate, Drop, Skip, CallLogger, Remember, TypeOK
  <2>2. CASE Remember(id)
    BY <2>2, CacheSetFresh, AppendProperties DEF Remember, TypeOK
  <2>3. QED
    BY <2>1, <2>2 DEF Finalize, Duplicate, Drop, Skip, CallLogger
<1>2. /\ pending' \in Nat /\ droppedCount' \in Nat
      /\ successCount' \in Nat /\ failureCount' \in Nat
      /\ stage' \in [Requests -> Stages]
  <2>1. CASE Duplicate(r, id)
    BY <2>1 DEF Duplicate, Resolve, TypeOK, Stages
  <2>2. CASE Drop(r, id)
    BY <2>2 DEF Drop, Resolve, TypeOK, Stages
  <2>3. CASE Skip(r, id, traits)
    BY <2>3 DEF Skip, Resolve, TypeOK, Stages
  <2>4. CASE CallLogger(r, id, traits)
    BY <2>4 DEF CallLogger, TypeOK, Stages
  <2>5. QED
    BY <2>1, <2>2, <2>3, <2>4 DEF Finalize
<1>3. QED
  BY <1>1, <1>2 DEF TypeOK

-----------------------------------------------------------------------------
(* Counting the calls at a stage.                                          *)

\* How the number of calls at some stages changes when one call moves.
LEMMA CountMoves ==
  ASSUME NEW st \in [Requests -> Stages], NEW after \in [Requests -> Stages],
         NEW r \in Requests, NEW which \in SUBSET Stages,
         \A x \in Requests : x # r => after[x] = st[x]
  PROVE  /\ Count(st, which) \in Nat
         /\ (after[r] \in which <=> st[r] \in which)
              => Count(after, which) = Count(st, which)
         /\ after[r] \in which /\ st[r] \notin which
              => Count(after, which) = Count(st, which) + 1
         /\ after[r] \notin which /\ st[r] \in which
              => /\ Count(after, which) = Count(st, which) - 1
                 /\ Count(st, which) > 0
<1> DEFINE B == {x \in Requests : st[x] \in which}
           A == {x \in Requests : after[x] \in which}
<1>1. IsFiniteSet(B) /\ Cardinality(B) \in Nat
  <2>1. B \in SUBSET Requests
    OBVIOUS
  <2>2. IsFiniteSet(B)
    BY <2>1, RequestsAssumption, FS_Subset, Zenon
  <2>3. QED
    BY <2>2, FS_CardinalityType
<1>2. /\ Cardinality(B \cup {r}) = IF r \in B THEN Cardinality(B)
                                  ELSE Cardinality(B) + 1
      /\ Cardinality(B \ {r}) = IF r \in B THEN Cardinality(B) - 1
                               ELSE Cardinality(B)
      /\ Cardinality(B \ {r}) \in Nat
  <2>1. IsFiniteSet(B \ {r})
    BY <1>1, FS_RemoveElement
  <2>2. QED
    BY <1>1, <2>1, FS_AddElement, FS_RemoveElement, FS_CardinalityType
<1>3. r \in B <=> st[r] \in which
  OBVIOUS
<1>4. /\ (after[r] \in which <=> st[r] \in which) => A = B
      /\ after[r] \in which => A = B \cup {r}
      /\ after[r] \notin which => A = B \ {r}
  OBVIOUS
<1>5. /\ (after[r] \in which <=> st[r] \in which)
            => Cardinality(A) = Cardinality(B)
      /\ after[r] \in which /\ st[r] \notin which
            => Cardinality(A) = Cardinality(B) + 1
      /\ after[r] \notin which /\ st[r] \in which
            => Cardinality(A) = Cardinality(B) - 1 /\ Cardinality(B) > 0
  <2> HIDE DEF A, B
  <2>1. CASE after[r] \in which /\ st[r] \in which
    BY <1>4, <2>1, Zenon
  <2>2. CASE after[r] \notin which /\ st[r] \notin which
    BY <1>4, <2>2, Zenon
  <2>3. CASE after[r] \in which /\ st[r] \notin which
    <3>1. Cardinality(A) = Cardinality(B) + 1
      BY <1>2, <1>3, <1>4, <2>3
    <3>2. QED
      BY <2>3, <3>1, Zenon
  <2>4. CASE after[r] \notin which /\ st[r] \in which
    <3>1. /\ Cardinality(A) = Cardinality(B) - 1
          /\ Cardinality(A) \in Nat
      BY <1>2, <1>3, <1>4, <2>4
    <3>2. Cardinality(B) > 0
      BY <1>1, <3>1
    <3>3. QED
      BY <2>4, <3>1, <3>2, Zenon
  <2>5. QED
    BY <2>1, <2>2, <2>3, <2>4, Zenon
<1>6. QED
  BY <1>1, <1>5 DEF Count

\* The same for a step of the service that moves call r.
LEMMA StepMoves ==
  ASSUME TypeOK, NEW r \in Requests, NEW how \in Stages,
         stage' = [stage EXCEPT ![r] = how], NEW which \in SUBSET Stages
  PROVE  /\ (how \in which <=> stage[r] \in which)
              => Count(stage', which) = Count(stage, which)
         /\ how \in which /\ stage[r] \notin which
              => Count(stage', which) = Count(stage, which) + 1
         /\ how \notin which /\ stage[r] \in which
              => /\ Count(stage', which) = Count(stage, which) - 1
                 /\ Count(stage, which) > 0
<1>1. stage \in [Requests -> Stages]
  BY DEF TypeOK
<1>2. /\ stage' \in [Requests -> Stages] /\ stage'[r] = how
      /\ \A x \in Requests : x # r => stage'[x] = stage[x]
  BY <1>1
<1>3. PICK st \in [Requests -> Stages] : st = stage
  BY <1>1
<1>4. PICK after \in [Requests -> Stages] : after = stage'
  BY <1>2
<1>5. \A x \in Requests : x # r => after[x] = st[x]
  BY <1>2, <1>3, <1>4
<1>6. /\ (after[r] \in which <=> st[r] \in which)
            => Count(after, which) = Count(st, which)
      /\ after[r] \in which /\ st[r] \notin which
            => Count(after, which) = Count(st, which) + 1
      /\ after[r] \notin which /\ st[r] \in which
            => /\ Count(after, which) = Count(st, which) - 1
               /\ Count(st, which) > 0
  BY <1>5, CountMoves
<1>7. QED
  BY <1>2, <1>3, <1>4, <1>6, Zenon

\* The stage sets the counters of the service mirror.
LEMMA MirroredSets ==
  /\ {"logging"} \in SUBSET Stages /\ {"failed"} \in SUBSET Stages
  /\ {"dropped"} \in SUBSET Stages /\ Successes \in SUBSET Stages
BY DEF Successes, Stages

-----------------------------------------------------------------------------
(* The counters are exact.                                                 *)

Counted == PendingExact /\ MetricsAddUp

\* A call that resolves at once is counted once.
LEMMA ResolveCounts ==
  ASSUME TypeOK, Counted, NEW r \in Requests, stage[r] = "open",
         NEW how \in {"duplicate", "dropped", "unsampled"}, Resolve(r, how),
         droppedCount' = droppedCount + (IF how = "dropped" THEN 1 ELSE 0)
  PROVE  Counted'
<1>1. /\ stage' = [stage EXCEPT ![r] = how] /\ how \in Stages
      /\ successCount' = successCount + 1
      /\ failureCount' = failureCount /\ pending' = pending
  BY DEF Resolve, Stages
<1>2. /\ how \in Successes /\ stage[r] \notin Successes
      /\ how \notin {"logging"} /\ how \notin {"failed"}
      /\ stage[r] \notin {"logging"} /\ stage[r] \notin {"failed"}
      /\ stage[r] \notin {"dropped"}
  BY DEF Successes
<1>3. Count(stage', {"logging"}) = Count(stage, {"logging"})
  BY <1>1, <1>2, StepMoves, MirroredSets
<1>4. Count(stage', {"failed"}) = Count(stage, {"failed"})
  BY <1>1, <1>2, StepMoves, MirroredSets
<1>5. Count(stage', Successes) = Count(stage, Successes) + 1
  BY <1>1, <1>2, StepMoves, MirroredSets
<1>6. droppedCount' = Count(stage', {"dropped"})
  <2>1. droppedCount = Count(stage, {"dropped"}) /\ droppedCount \in Nat
    BY DEF Counted, MetricsAddUp, TypeOK
  <2>2. CASE how = "dropped"
    <3>1. Count(stage', {"dropped"}) = Count(stage, {"dropped"}) + 1
      BY <1>1, <1>2, <2>2, StepMoves, MirroredSets
    <3>2. QED
      BY <2>1, <2>2, <3>1
  <2>3. CASE how # "dropped"
    <3>1. Count(stage', {"dropped"}) = Count(stage, {"dropped"})
      BY <1>1, <1>2, <2>3, StepMoves, MirroredSets
    <3>2. QED
      BY <2>1, <2>3, <3>1
  <2>4. QED
    BY <2>2, <2>3
<1>7. QED
  BY <1>1, <1>3, <1>4, <1>5, <1>6 DEF Counted, PendingExact, MetricsAddUp

\* A call that passes the gates takes one slot, which was free.
LEMMA CallCounts ==
  ASSUME TypeOK, Counted, NEW r \in Requests, stage[r] = "open",
         NEW id, NEW traits, CallLogger(r, id, traits)
  PROVE  Counted'
<1>1. /\ stage' = [stage EXCEPT ![r] = "logging"] /\ "logging" \in Stages
      /\ pending' = pending + 1 /\ pending < MaxPending
      /\ UNCHANGED <<droppedCount, successCount, failureCount>>
  BY DEF CallLogger, Stages
<1>2. /\ "logging" \notin Successes /\ stage[r] \notin Successes
      /\ "logging" \notin {"failed"} /\ "logging" \notin {"dropped"}
      /\ stage[r] \notin {"logging"} /\ stage[r] \notin {"failed"}
      /\ stage[r] \notin {"dropped"}
  BY DEF Successes
<1>3. Count(stage', {"logging"}) = Count(stage, {"logging"}) + 1
  BY <1>1, <1>2, StepMoves, MirroredSets
<1>4. Count(stage', {"failed"}) = Count(stage, {"failed"})
  BY <1>1, <1>2, StepMoves, MirroredSets
<1>5. Count(stage', {"dropped"}) = Count(stage, {"dropped"})
  BY <1>1, <1>2, StepMoves, MirroredSets
<1>6. Count(stage', Successes) = Count(stage, Successes)
  BY <1>1, <1>2, StepMoves, MirroredSets
<1>7. pending' <= MaxPending
  BY <1>1, ConfigAssumption DEF TypeOK
<1>8. QED
  BY <1>1, <1>3, <1>4, <1>5, <1>6, <1>7 DEF Counted, PendingExact, MetricsAddUp

\* The answer of the logger gives the slot back, and there was one to give.
LEMMA AnswerCounts ==
  ASSUME TypeOK, Counted, NEW r \in Requests, LogResolves(r) \/ LogRejects(r)
  PROVE  Counted' /\ pending' \in Nat
<1>1. /\ stage[r] = "logging" /\ pending' = pending - 1
      /\ droppedCount' = droppedCount
  BY DEF LogResolves, LogRejects
<1>2. PICK how \in {"recorded", "failed"} :
        /\ stage' = [stage EXCEPT ![r] = how]
        /\ how = "recorded" => /\ successCount' = successCount + 1
                               /\ failureCount' = failureCount
        /\ how = "failed" => /\ failureCount' = failureCount + 1
                             /\ successCount' = successCount
  <2>1. CASE LogResolves(r)
    <3>1. /\ stage' = [stage EXCEPT ![r] = "recorded"]
          /\ successCount' = successCount + 1 /\ failureCount' = failureCount
      BY <2>1 DEF LogResolves
    <3>2. QED
      BY <3>1
  <2>2. CASE LogRejects(r)
    <3>1. /\ stage' = [stage EXCEPT ![r] = "failed"]
          /\ failureCount' = failureCount + 1 /\ successCount' = successCount
      BY <2>2 DEF LogRejects
    <3>2. QED
      BY <3>1
  <2>3. QED
    BY <2>1, <2>2
<1>3. /\ how \in Stages /\ how \notin {"logging"} /\ how \notin {"dropped"}
      /\ how = "recorded" => how \in Successes /\ how \notin {"failed"}
      /\ how = "failed" => how \notin Successes /\ how \in {"failed"}
      /\ stage[r] \in {"logging"} /\ stage[r] \notin {"failed"}
      /\ stage[r] \notin {"dropped"} /\ stage[r] \notin Successes
  BY <1>1 DEF Stages, Successes
<1>4. /\ Count(stage', {"logging"}) = Count(stage, {"logging"}) - 1
      /\ Count(stage, {"logging"}) > 0
  BY <1>2, <1>3, StepMoves, MirroredSets
<1>5. pending \in Nat /\ pending > 0
  BY <1>4 DEF Counted, PendingExact, TypeOK
<1>6. Count(stage', {"dropped"}) = Count(stage, {"dropped"})
  BY <1>2, <1>3, StepMoves, MirroredSets
<1>7. /\ successCount' = Count(stage', Successes)
      /\ failureCount' = Count(stage', {"failed"})
  <2>1. CASE how = "recorded"
    <3>1. Count(stage', Successes) = Count(stage, Successes) + 1
      BY <1>2, <1>3, <2>1, StepMoves, MirroredSets
    <3>2. Count(stage', {"failed"}) = Count(stage, {"failed"})
      BY <1>2, <1>3, <2>1, StepMoves, MirroredSets
    <3>3. QED
      BY <1>2, <2>1, <3>1, <3>2 DEF Counted, MetricsAddUp
  <2>2. CASE how = "failed"
    <3>1. Count(stage', Successes) = Count(stage, Successes)
      BY <1>2, <1>3, <2>2, StepMoves, MirroredSets
    <3>2. Count(stage', {"failed"}) = Count(stage, {"failed"}) + 1
      BY <1>2, <1>3, <2>2, StepMoves, MirroredSets
    <3>3. QED
      BY <1>2, <2>2, <3>1, <3>2 DEF Counted, MetricsAddUp
  <2>3. QED
    BY <2>1, <2>2
<1>8. pending = Count(stage, {"logging"}) /\ pending <= MaxPending
  BY DEF Counted, PendingExact
<1>9. pending' <= MaxPending /\ pending' \in Nat
  BY <1>1, <1>5, <1>8, ConfigAssumption
<1>10. QED
  BY <1>1, <1>4, <1>6, <1>7, <1>8, <1>9 DEF Counted, PendingExact, MetricsAddUp

-----------------------------------------------------------------------------
(* The map of request ids.                                                 *)

\* A new id enters the map at the end and, when the map is full, the oldest
\* one leaves: the map is again the tail of the finalization order.
LEMMA RememberIsRecent ==
  ASSUME TypeOK, CacheIsRecent, NEW id \in Ids, Remember(id)
  PROVE  CacheIsRecent'
<1> DEFINE n == Len(finalized)
           m == Len(finalizeOrder)
           longer == Append(finalized, id)
<1>1. /\ finalized \in Seq(Ids) /\ n \in Nat
      /\ finalizeOrder \in Seq(Ids) /\ m \in Nat
      /\ n <= CacheSize /\ n <= m /\ (n < CacheSize => n = m)
      /\ \A i \in 1..n : finalized[i] = finalizeOrder[m - n + i]
  BY LenProperties DEF TypeOK, CacheIsRecent
<1>2. /\ Len(finalizeOrder') = m + 1
      /\ finalizeOrder'[m + 1] = id
      /\ \A i \in 1..m : finalizeOrder'[i] = finalizeOrder[i]
  BY <1>1, AppendProperties DEF Remember
<1>3. /\ longer \in Seq(Ids) /\ longer # <<>>
      /\ Len(longer) = n + 1 /\ longer[n + 1] = id
      /\ \A i \in 1..n : longer[i] = finalized[i]
  BY <1>1, AppendProperties
<1>4. finalized' = IF n + 1 > CacheSize THEN Tail(longer) ELSE longer
  BY <1>1, CacheSetFresh DEF Remember
<1> HIDE DEF n, m, longer
<1>5. \A i \in 1..(n + 1) : longer[i] = finalizeOrder'[m - n + i]
  <2> TAKE i \in 1..(n + 1)
  <2>1. CASE i = n + 1
    BY <1>1, <1>2, <1>3, <2>1
  <2>2. CASE i # n + 1
    <3>1. i \in 1..n /\ m - n + i \in 1..m
      BY <1>1, <2>2
    <3>2. QED
      BY <1>1, <1>2, <1>3, <3>1
  <2>3. QED
    BY <2>1, <2>2
<1>6. CASE n + 1 > CacheSize
  <2>1. finalized' = Tail(longer) /\ n = CacheSize
    BY <1>1, <1>4, <1>6, ConfigAssumption
  <2>2. /\ Len(finalized') = n
        /\ \A i \in 1..n : finalized'[i] = longer[i + 1]
    <3>1. /\ Len(Tail(longer)) = Len(longer) - 1
          /\ \A i \in 1..Len(Tail(longer)) : Tail(longer)[i] = longer[i + 1]
      BY <1>3, HeadTailProperties
    <3>2. Len(longer) - 1 = n
      BY <1>1, <1>3
    <3>3. QED
      BY <2>1, <3>1, <3>2
  <2>3. \A i \in 1..n : finalized'[i] = finalizeOrder'[(m + 1) - n + i]
    <3> TAKE i \in 1..n
    <3>1. i + 1 \in 1..(n + 1) /\ m - n + (i + 1) = (m + 1) - n + i
      BY <1>1
    <3>2. QED
      BY <1>5, <2>2, <3>1
  <2>4. \A i \in 1..Len(finalized') :
          finalized'[i] = finalizeOrder'[Len(finalizeOrder') - Len(finalized') + i]
    BY <1>2, <2>2, <2>3, Zenon
  <2>5. Len(finalized') <= CacheSize /\ Len(finalized') <= Len(finalizeOrder')
        /\ ~ (Len(finalized') < CacheSize)
    BY <1>1, <1>2, <2>1, <2>2, ConfigAssumption
  <2>6. QED
    BY <2>4, <2>5 DEF CacheIsRecent
<1>7. CASE ~ (n + 1 > CacheSize)
  <2>1. finalized' = longer /\ n = m
    BY <1>1, <1>4, <1>7, ConfigAssumption
  <2>2. \A i \in 1..(n + 1) : finalized'[i] = finalizeOrder'[(m + 1) - (n + 1) + i]
    BY <1>1, <1>5, <2>1
  <2>3. QED
    BY <1>1, <1>2, <1>3, <1>7, <2>1, <2>2, ConfigAssumption DEF CacheIsRecent
<1>8. QED
  BY <1>6, <1>7

\* An id that is not in the map was last finalized before everything in it.
LEMMA RememberIsApart ==
  ASSUME TypeOK, CacheIsRecent, RepeatsAreApart, NEW id \in Ids, Remember(id)
  PROVE  RepeatsAreApart'
<1> DEFINE n == Len(finalized)
           m == Len(finalizeOrder)
<1>1. /\ finalized \in Seq(Ids) /\ n \in Nat /\ DOMAIN finalized = 1..n
      /\ finalizeOrder \in Seq(Ids) /\ m \in Nat
      /\ n <= CacheSize /\ n <= m /\ (n < CacheSize => n = m)
      /\ \A i \in 1..n : finalized[i] = finalizeOrder[m - n + i]
  BY LenProperties DEF TypeOK, CacheIsRecent
<1>2. /\ Len(finalizeOrder') = m + 1
      /\ finalizeOrder'[m + 1] = id
      /\ \A i \in 1..m : finalizeOrder'[i] = finalizeOrder[i]
  BY <1>1, AppendProperties DEF Remember
<1>3. \A i \in 1..n : finalized[i] # id
  BY <1>1 DEF Remember, Elems
<1>4. \A i, j \in 1..m :
        i < j /\ finalizeOrder[i] = finalizeOrder[j] => j - i > CacheSize
  BY DEF RepeatsAreApart
<1> HIDE DEF n, m
<1>5. ASSUME NEW i \in 1..(m + 1), NEW j \in 1..(m + 1), i < j,
             finalizeOrder'[i] = finalizeOrder'[j]
      PROVE  j - i > CacheSize
  <2>1. CASE j # m + 1
    <3>1. i \in 1..m /\ j \in 1..m
      BY <1>1, <1>5, <2>1
    <3>2. QED
      BY <1>2, <1>4, <1>5, <3>1
  <2>2. CASE j = m + 1
    <3>1. i \in 1..m /\ finalizeOrder[i] = id
      BY <1>1, <1>2, <1>5, <2>2
    <3>2. ~ (i > m - n)
      <4> SUFFICES ASSUME i > m - n PROVE FALSE
        OBVIOUS
      <4>1. i - (m - n) \in 1..n /\ m - n + (i - (m - n)) = i
        BY <1>1, <3>1
      <4>2. QED
        BY <1>1, <1>3, <3>1, <4>1
    <3>3. n = CacheSize
      BY <1>1, <3>1, <3>2, ConfigAssumption
    <3>4. QED
      BY <1>1, <2>2, <3>1, <3>2, <3>3
  <2>3. QED
    BY <2>1, <2>2
<1>6. QED
  BY <1>2, <1>5 DEF RepeatsAreApart

-----------------------------------------------------------------------------
(* The inductive invariant.  PendingExact is part of it because without it *)
(* the decrement of pending could leave the natural numbers.               *)

IInv == /\ TypeOK
        /\ Counted
        /\ CacheIsRecent
        /\ RepeatsAreApart

LEMMA InitIInv == Init => IInv
<1> SUFFICES ASSUME Init PROVE IInv
  OBVIOUS
<1>1. <<>> \in Seq(Ids) /\ Len(finalized) = 0 /\ Len(finalizeOrder) = 0
  BY EmptySeq DEF Init
<1>2. TypeOK
  BY <1>1 DEF Init, TypeOK, Stages
<1>3. \A which \in {{"logging"}, {"failed"}, {"dropped"}, Successes} :
        Count(stage, which) = 0
  <2> TAKE which \in {{"logging"}, {"failed"}, {"dropped"}, Successes}
  <2>1. "open" \notin which
    BY DEF Successes
  <2>2. {r \in Requests : stage[r] \in which} = {}
    BY <2>1 DEF Init
  <2>3. Cardinality({}) = 0
    BY FS_EmptySet
  <2>4. QED
    BY <2>2, <2>3, Zenon DEF Count
<1>4. Counted
  BY <1>3, ConfigAssumption DEF Init, Counted, PendingExact, MetricsAddUp
<1>5. CacheIsRecent /\ RepeatsAreApart
  BY <1>1, ConfigAssumption DEF CacheIsRecent, RepeatsAreApart
<1>6. QED
  BY <1>2, <1>4, <1>5 DEF IInv

LEMMA StepIInv == IInv /\ [Next]_vars => IInv'
<1> SUFFICES ASSUME IInv, [Next]_vars PROVE IInv'
  OBVIOUS
<1>1. TypeOK /\ Counted /\ CacheIsRecent /\ RepeatsAreApart
  BY DEF IInv
<1>2. ASSUME NEW r \in Requests, NEW id \in Ids, NEW traits \in SUBSET Traits,
             Finalize(r, id, traits)
      PROVE  IInv'
  <2>1. TypeOK' /\ stage[r] = "open"
    BY <1>1, <1>2, FinalizeType DEF Finalize
  <2>2. CacheIsRecent' /\ RepeatsAreApart'
    <3>1. CASE Remember(id)
      BY <1>1, <3>1, RememberIsRecent, RememberIsApart
    <3>2. CASE UNCHANGED <<finalized, finalizeOrder>>
      BY <1>1, <3>2 DEF CacheIsRecent, RepeatsAreApart
    <3>3. QED
      BY <1>2, <3>1, <3>2 DEF Finalize, Duplicate, Drop, Skip, CallLogger
  <2>3. Counted'
    <3>1. CASE Duplicate(r, id)
      <4>1. Resolve(r, "duplicate") /\ droppedCount' = droppedCount + 0
        BY <1>1, <3>1 DEF Duplicate, TypeOK
      <4>2. QED
        BY <1>1, <2>1, <4>1, ResolveCounts
    <3>2. CASE Drop(r, id)
      <4>1. Resolve(r, "dropped") /\ droppedCount' = droppedCount + 1
        BY <3>2 DEF Drop
      <4>2. QED
        BY <1>1, <2>1, <4>1, ResolveCounts
    <3>3. CASE Skip(r, id, traits)
      <4>1. Resolve(r, "unsampled") /\ droppedCount' = droppedCount + 0
        BY <1>1, <3>3 DEF Skip, TypeOK
      <4>2. QED
        BY <1>1, <2>1, <4>1, ResolveCounts
    <3>4. CASE CallLogger(r, id, traits)
      BY <1>1, <2>1, <3>4, CallCounts
    <3>5. QED
      BY <1>2, <3>1, <3>2, <3>3, <3>4 DEF Finalize
  <2>4. QED
    BY <2>1, <2>2, <2>3 DEF IInv
<1>3. ASSUME NEW r \in Requests, LogResolves(r) \/ LogRejects(r)
      PROVE  IInv'
  <2>1. Counted' /\ pending' \in Nat
    BY <1>1, <1>3, AnswerCounts
  <2>2. TypeOK'
    BY <1>1, <1>3, <2>1 DEF LogResolves, LogRejects, TypeOK, Stages
  <2>3. CacheIsRecent' /\ RepeatsAreApart'
    BY <1>1, <1>3 DEF LogResolves, LogRejects, CacheIsRecent, RepeatsAreApart
  <2>4. QED
    BY <2>1, <2>2, <2>3 DEF IInv
<1>4. CASE UNCHANGED vars
  BY <1>1, <1>4 DEF vars, counters, IInv, TypeOK, Counted, PendingExact,
     MetricsAddUp, CacheIsRecent, RepeatsAreApart, Count
<1>5. QED
  BY <1>2, <1>3, <1>4 DEF Next

\* IInv holds in every state of every behaviour.
THEOREM Invariance == Spec => []IInv
<1>1. QED
  BY InitIInv, StepIInv, PTL DEF Spec

\* Every variable keeps its type: above all, pendingFinalizeCount never goes
\* below zero.
THEOREM TypeCorrect == Spec => []TypeOK
<1>1. IInv => TypeOK
  BY DEF IInv
<1>2. QED
  BY <1>1, Invariance, PTL

\* The backpressure counter is exactly the number of logger calls in flight
\* and stays within its limit, whatever the requests and the limit.
THEOREM PendingExactHolds == Spec => []PendingExact
<1>1. IInv => PendingExact
  BY DEF IInv, Counted
<1>2. QED
  BY <1>1, Invariance, PTL

\* The metrics count every finished call once.
THEOREM MetricsAddUpHolds == Spec => []MetricsAddUp
<1>1. IInv => MetricsAddUp
  BY DEF IInv, Counted
<1>2. QED
  BY <1>1, Invariance, PTL

\* Two finalizations of one id that both pass the duplicate gate have at
\* least CacheSize others between them.
THEOREM RepeatsAreApartHolds == Spec => []RepeatsAreApart
<1>1. IInv => RepeatsAreApart
  BY DEF IInv
<1>2. QED
  BY <1>1, Invariance, PTL

\* The map holds the most recently finalized ids, as many as fit.
THEOREM CacheIsRecentHolds == Spec => []CacheIsRecent
<1>1. IInv => CacheIsRecent
  BY DEF IInv
<1>2. QED
  BY <1>1, Invariance, PTL

\* A step that drops a call finds MaxPending logger calls really in flight.
THEOREM DropsOnlyWhenFullHolds == Spec => DropsOnlyWhenFull
<1>1. ASSUME IInv, Next, droppedCount' > droppedCount
      PROVE  Count(stage, {"logging"}) = MaxPending
  <2>1. droppedCount \in Nat /\ ~ (droppedCount > droppedCount)
    BY <1>1 DEF IInv, TypeOK
  <2>2. PICK r \in Requests : \E id \in Ids, traits \in SUBSET Traits :
          Finalize(r, id, traits)
    BY <1>1, <2>1 DEF Next, LogResolves, LogRejects
  <2>3. PICK id \in Ids : Drop(r, id)
    BY <1>1, <2>1, <2>2 DEF Finalize, Duplicate, Skip, CallLogger
  <2>4. pending >= MaxPending
    BY <2>3 DEF Drop
  <2>5. /\ pending \in Nat /\ pending <= MaxPending
        /\ pending = Count(stage, {"logging"})
    BY <1>1 DEF IInv, TypeOK, Counted, PendingExact
  <2>6. QED
    BY <2>4, <2>5, ConfigAssumption
<1>2. IInv /\ [Next]_vars
        => [droppedCount' > droppedCount
              => Count(stage, {"logging"}) = MaxPending]_vars
  BY <1>1
<1>3. QED
  BY <1>2, Invariance, PTL DEF Spec, DropsOnlyWhenFull
=============================================================================
