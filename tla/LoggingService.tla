--------------------------- MODULE LoggingService ---------------------------
(***************************************************************************)
(* LoggingService.finalize(): the end of every request, called by the      *)
(* interceptor.  Three gates stand before the logger: the map of request   *)
(* ids already finalized, the limit on calls in flight, and the sampling   *)
(* policy.  All of them run before the first await, so they are one step;  *)
(* the logger answers later.                                               *)
(*                                                                         *)
(* finalizeOrder and stage are history: the ids in the order they entered  *)
(* the map, and what became of each call.                                  *)
(***************************************************************************)
EXTENDS Naturals, Sequences, FiniteSets

CONSTANTS
  Requests,     \* the calls of finalize(), one per request
  Ids,          \* request ids: x-request-id is the client's, so they repeat
  CacheSize,    \* LOG_FINALIZED_CACHE_SIZE
  MaxPending,   \* LOG_MAX_PENDING_FINALIZES
  NormalRate    \* LOG_SAMPLING_NORMAL_RATE: "zero", "some" or "all"

ASSUME ConfigAssumption ==
  /\ CacheSize \in Nat \ {0}
  /\ MaxPending \in Nat
  /\ NormalRate \in {"zero", "some", "all"}

ASSUME RequestsAssumption == IsFiniteSet(Requests)

VARIABLES
  finalized,        \* the LRUCache: a Map, so its keys in insertion order
  pending,          \* pendingFinalizeCount
  droppedCount,
  successCount, failureCount,    \* FinalizeMetrics
  stage, finalizeOrder

counters == <<pending, droppedCount, successCount, failureCount>>
vars == <<finalized, counters, stage, finalizeOrder>>

Stages == {"open", "duplicate", "dropped", "unsampled", "logging",
           "recorded", "failed"}
Successes == {"duplicate", "dropped", "unsampled", "recorded"}
Traits == {"error", "slow", "critical"}

Elems(s) == {s[i] : i \in DOMAIN s}

\* The number of calls that st has at one of the stages of which.
Count(st, which) == Cardinality({r \in Requests : st[r] \in which})

TypeOK ==
  /\ finalized \in Seq(Ids)
  /\ pending \in Nat
  /\ droppedCount \in Nat
  /\ successCount \in Nat
  /\ failureCount \in Nat
  /\ stage \in [Requests -> Stages]
  /\ finalizeOrder \in Seq(Ids)

Init ==
  /\ finalized = <<>>
  /\ pending = 0
  /\ droppedCount = 0
  /\ successCount = 0
  /\ failureCount = 0
  /\ stage = [r \in Requests |-> "open"]
  /\ finalizeOrder = <<>>

-----------------------------------------------------------------------------

\* LRUCache.set: an existing key moves to the end, and the oldest key goes
\* when the map exceeds its size.  (has() moves nothing: a looked-up key is
\* not refreshed.)
Without(cache, id) ==
  IF id \in Elems(cache) THEN SelectSeq(cache, LAMBDA k : k # id) ELSE cache

\* (Bug: a full map does not take the new key.)
CacheSetKeepsOld(cache, id) ==
  IF Len(cache) = CacheSize THEN cache ELSE Append(Without(cache, id), id)

CacheSet(cache, id) ==
  LET longer == Append(Without(cache, id), id) IN
  IF Len(longer) > CacheSize THEN Tail(longer) ELSE longer

\* SamplingPolicy: errors, slow requests and critical routes are recorded;
\* the others by a draw of Math.random(), unless the rate settles it.
MustRecord(traits) == traits # {}

Draws == IF NormalRate = "all" THEN {TRUE}
         ELSE IF NormalRate = "zero" THEN {FALSE} ELSE BOOLEAN

ShouldRecord(traits) == IF MustRecord(traits) THEN {TRUE} ELSE Draws

\* finalize() resolves without having called the logger; the interceptor
\* counts that as a success.  (Bug: it does not.)
ResolveUncounted(r, how) ==
  /\ stage' = [stage EXCEPT ![r] = how]
  /\ UNCHANGED <<pending, successCount, failureCount>>

Resolve(r, how) ==
  /\ stage' = [stage EXCEPT ![r] = how]
  /\ successCount' = successCount + 1
  /\ UNCHANGED <<pending, failureCount>>

Duplicate(r, id) ==
  /\ id \in Elems(finalized)
  /\ Resolve(r, "duplicate")
  /\ UNCHANGED <<finalized, finalizeOrder, droppedCount>>

Remember(id) ==
  /\ id \notin Elems(finalized)
  /\ finalized' = CacheSet(finalized, id)
  /\ finalizeOrder' = Append(finalizeOrder, id)

Drop(r, id) ==
  /\ Remember(id)
  /\ pending >= MaxPending
  /\ droppedCount' = droppedCount + 1
  /\ Resolve(r, "dropped")

Skip(r, id, traits) ==
  /\ Remember(id)
  /\ pending < MaxPending
  /\ FALSE \in ShouldRecord(traits)
  /\ Resolve(r, "unsampled")
  /\ UNCHANGED droppedCount

CallLogger(r, id, traits) ==
  /\ Remember(id)
  /\ pending < MaxPending
  /\ TRUE \in ShouldRecord(traits)
  /\ pending' = pending + 1
  /\ stage' = [stage EXCEPT ![r] = "logging"]
  /\ UNCHANGED <<droppedCount, successCount, failureCount>>

\* A request with this id and these traits ends.
Finalize(r, id, traits) ==
  /\ stage[r] = "open"
  /\ \/ Duplicate(r, id)
     \/ Drop(r, id)
     \/ Skip(r, id, traits)
     \/ CallLogger(r, id, traits)

\* logger.log() answers, and the finally block gives the slot back.  (Bug:
\* without finally, an error keeps the slot.)
LogResolves(r) ==
  /\ stage[r] = "logging"
  /\ pending' = pending - 1
  /\ stage' = [stage EXCEPT ![r] = "recorded"]
  /\ successCount' = successCount + 1
  /\ UNCHANGED <<finalized, droppedCount, failureCount, finalizeOrder>>

LogRejectsLeaks(r) ==
  /\ stage[r] = "logging"
  /\ stage' = [stage EXCEPT ![r] = "failed"]
  /\ failureCount' = failureCount + 1
  /\ UNCHANGED <<finalized, pending, droppedCount, successCount, finalizeOrder>>

LogRejects(r) ==
  /\ stage[r] = "logging"
  /\ pending' = pending - 1
  /\ stage' = [stage EXCEPT ![r] = "failed"]
  /\ failureCount' = failureCount + 1
  /\ UNCHANGED <<finalized, droppedCount, successCount, finalizeOrder>>

Next == \E r \in Requests :
  \/ \E id \in Ids, traits \in SUBSET Traits : Finalize(r, id, traits)
  \/ LogResolves(r)
  \/ LogRejects(r)

Spec == Init /\ [][Next]_vars

-----------------------------------------------------------------------------

\* The backpressure counter is the number of logger calls in flight, within
\* its limit: no path of finalize(), failing ones included, leaks a slot.
PendingExact ==
  /\ pending = Count(stage, {"logging"})
  /\ pending <= MaxPending

\* The map holds the most recently finalized ids, as many as fit: eviction is
\* by age of the finalization and a duplicate does not refresh it.
CacheIsRecent ==
  /\ Len(finalized) <= CacheSize
  /\ Len(finalized) <= Len(finalizeOrder)
  /\ Len(finalized) < CacheSize => Len(finalized) = Len(finalizeOrder)
  /\ \A i \in 1..Len(finalized) :
       finalized[i] = finalizeOrder[Len(finalizeOrder) - Len(finalized) + i]

\* An id passes the duplicate gate a second time only after CacheSize other
\* finalizations: within that window a request is recorded at most once.
RepeatsAreApart ==
  \A i, j \in 1..Len(finalizeOrder) :
    i < j /\ finalizeOrder[i] = finalizeOrder[j] => j - i > CacheSize

\* The metrics count every finished call once.  A call that was dropped,
\* sampled out or taken for a duplicate counts as a success.
MetricsAddUp ==
  /\ successCount = Count(stage, Successes)
  /\ failureCount = Count(stage, {"failed"})
  /\ droppedCount = Count(stage, {"dropped"})

\* A call is dropped only while MaxPending logger calls are really in flight:
\* earlier failures or duplicates never use up the room.
DropsOnlyWhenFull ==
  [][droppedCount' > droppedCount =>
       Count(stage, {"logging"}) = MaxPending]_vars
=============================================================================
