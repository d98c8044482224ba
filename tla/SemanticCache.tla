--------------------------- MODULE SemanticCache ---------------------------
(***************************************************************************)
(* SemanticCacheService: the results of vector searches, one entry per     *)
(* metadata key, returned to a later query of the same key whose embedding *)
(* is similar to the one the entry was stored with.                        *)
(*                                                                         *)
(* A metadata record has service, route, errorCode ("null" when missing),  *)
(* hasError, and from and to in minutes (0 when missing).  An embedding is *)
(* named by the topic of the text it was made from.                        *)
(***************************************************************************)
EXTENDS Naturals

CONSTANTS
  Metas,     \* the metadata the language model may extract
  Topics,    \* the topics of embeddings
  Similar    \* the pairs of topics with a cosine similarity of 0.95 or more

NoMetadata == [service |-> "null", route |-> "null", errorCode |-> "null",
               hasError |-> FALSE, from |-> 0, to |-> 0]

ASSUME MetasAssumption == NoMetadata \in Metas

VARIABLE semantic   \* the entry of each key

\* The hour of a time, and 0 for no time.
Hour(t) == IF t = 0 THEN 0 ELSE 1 + t \div 60

\* (Bug: the key without the time range.)
KeyNoTime(m) ==
  <<m.service, m.route, m.errorCode, m.hasError>>

CacheKey(m) ==
  <<m.service, m.route, m.errorCode, m.hasError, Hour(m.from), Hour(m.to)>>

NoResults == [topic |-> "none", found |-> {}]

SemanticInit == semantic = [k \in {CacheKey(m) : m \in Metas} |-> NoResults]

\* findCandidateKeys() and cosineSimilarity(): the entries of the key, and
\* whether one was stored with a similar embedding.
Candidates(m) == {semantic[k] : k \in {CacheKey(m)}}
IsSimilar(t, u) == t = u \/ <<t, u>> \in Similar

\* getCachedResults(): empty unless there is an entry, alive and similar.
CachedResults(topic, m) ==
  UNION {e.found : e \in {c \in Candidates(m) : IsSimilar(topic, c.topic)}}

SetCachedResults(topic, m, found) ==
  semantic' = [semantic EXCEPT ![CacheKey(m)] =
                 [topic |-> topic, found |-> found]]

\* The ttl of an entry passes, a quarter of an hour when its metadata has a
\* time range and an hour otherwise: look-ups skip the entry, and the clean-up
\* removes it.
Expire(k) ==
  /\ semantic[k].found # {}
  /\ semantic' = [semantic EXCEPT ![k] = NoResults]
=============================================================================
