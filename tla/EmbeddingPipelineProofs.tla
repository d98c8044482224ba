---------------------- MODULE EmbeddingPipelineProofs ----------------------
(***************************************************************************)
(* Theorems about EmbeddingPipeline for any finite set of logs, any number *)
(* of batches, any chunk size and any limits.                              *)
(***************************************************************************)
EXTENDS EmbeddingPipeline, FiniteSetTheorems, TLAPS

\* Places are positive numbers.
LEMMA LogsArePlaces == \A l \in Logs : l \in Nat /\ l > 0
<1>1. \A l \in Logs : l \in Nat \ {0}
  BY LogsAssumption
<1>2. QED
  BY <1>1

\* The first logs of a set are in it, and nothing before one of them is left
\* out.
LEMMA FirstIsAPrefix ==
  ASSUME NEW S \in SUBSET Logs, NEW n \in Nat
  PROVE  /\ First(n, S) \subseteq S
         /\ \A l \in First(n, S), k \in S : k <= l => k \in First(n, S)
<1>1. First(n, S) \subseteq S
  BY DEF First
<1>2. ASSUME NEW l \in First(n, S), NEW k \in S, k <= l
      PROVE  k \in First(n, S)
  <2>1. l \in S /\ Cardinality({j \in S : j < l}) < n
    BY <1>2 DEF First
  <2>2. IsFiniteSet({j \in S : j < l})
    BY LogsAssumption, FS_Subset
  <2>3. {j \in S : j < k} \subseteq {j \in S : j < l}
    <3>1. \A j \in S : j \in Nat
      BY LogsArePlaces
    <3>2. \A j \in S : j < k => j < l
      BY <1>2, <2>1, <3>1
    <3>3. QED
      BY <3>2
  <2>4. /\ Cardinality({j \in S : j < k}) \in Nat
        /\ Cardinality({j \in S : j < l}) \in Nat
        /\ Cardinality({j \in S : j < k}) <= Cardinality({j \in S : j < l})
    BY <2>2, <2>3, FS_Subset, FS_CardinalityType
  <2>5. QED
    BY <2>1, <2>4 DEF First
<1>3. QED
  BY <1>1, <1>2

\* A page holds logs after the mark, and none before its last is left out.
LEMMA PageIsAPrefix ==
  ASSUME TypeOK, NEW m \in Nat, NEW limit \in Limits
  PROVE  /\ Page(m, limit) \subseteq stored
         /\ \A k \in Page(m, limit) : k > m
         /\ \A k \in Page(m, limit), l \in stored :
              l <= k => l \in Page(m, limit) \/ l <= m
<1>1. After(m) \in SUBSET Logs /\ limit \in Nat
  BY SizesAssumption DEF After, TypeOK
<1>2. /\ Page(m, limit) \subseteq After(m)
      /\ \A k \in Page(m, limit), l \in After(m) : l <= k => l \in Page(m, limit)
  BY <1>1, FirstIsAPrefix DEF Page
<1>3. \A l \in stored : l \in Nat
  BY LogsArePlaces DEF TypeOK
<1>4. QED
  BY <1>2, <1>3 DEF After

\* The chunk at the loop index is a prefix of what is left of the page.
LEMMA ChunkIsAPrefix ==
  ASSUME TypeOK, NEW b \in Batches
  PROVE  /\ Chunk(b) \subseteq todo[b]
         /\ todo[b] \subseteq Logs
         /\ \A l \in Chunk(b), k \in todo[b] : k <= l => k \in Chunk(b)
<1>1. todo[b] \in SUBSET Logs
  BY DEF TypeOK
<1>2. QED
  BY <1>1, SizesAssumption, FirstIsAPrefix DEF Chunk

\* What AddCopies does to one log.
LEMMA AddCopiesType ==
  ASSUME copies \in [Logs -> 0..Many], NEW S, AddCopies(S)
  PROVE  /\ copies' \in [Logs -> 0..Many]
         /\ \A l \in Logs : copies[l] > 0 => copies'[l] > 0
         /\ \A l \in Logs : l \in S => copies'[l] > 0
         /\ \A l \in Logs : l \notin S => copies'[l] = copies[l]
         /\ \A l \in Logs : copies[l] = 0 => copies'[l] <= 1
  BY DEF AddCopies, Many

-----------------------------------------------------------------------------
(* Types.                                                                  *)

LEMMA NextKeepsTypes ==
  ASSUME TypeOK, [Next]_vars
  PROVE  TypeOK'
<1> USE DEF TypeOK, Goto, Steps, Loop
<1>1. ASSUME NEW l \in Logs, StoreLog(l) PROVE TypeOK'
  BY <1>1 DEF StoreLog, batchVars
<1>2. ASSUME NEW b \in Batches, BatchStep(b) PROVE TypeOK'
  <2>1. CASE ProcessPendingLogs(b)
    BY <2>1 DEF ProcessPendingLogs
  <2>2. CASE GetWatermark(b)
    BY <2>2 DEF GetWatermark, history
  <2>3. CASE GetWatermarkFails(b)
    BY <2>3 DEF GetWatermarkFails
  <2>4. ASSUME NEW limit \in Limits, FindLogsAfterWatermark(b, limit) PROVE TypeOK'
    <3>1. Page(mark[b], limit) \subseteq stored
      <4>1. mark[b] \in Logs \cup {0}
        OBVIOUS
      <4>2. QED
        BY <4>1, LogsArePlaces, PageIsAPrefix
    <3>2. QED
      BY <2>4, <3>1 DEF FindLogsAfterWatermark, history
  <2>5. CASE FindLogsFails(b)
    BY <2>5 DEF FindLogsFails, Return, history
  <2>6. CASE CreateBatchEmbeddings(b)
    BY <2>6 DEF CreateBatchEmbeddings, history
  <2>7. CASE CreateBatchEmbeddingsFails(b)
    BY <2>7 DEF CreateBatchEmbeddingsFails, Return, history
  <2>8. CASE InsertMany(b)
    <3>1. copies' \in [Logs -> 0..Many]
      BY <2>8, AddCopiesType DEF InsertMany
    <3>2. QED
      BY <2>8, <3>1 DEF InsertMany, history
  <2>9. ASSUME NEW n \in 0..ChunkSize, InsertManyFails(b, n) PROVE TypeOK'
    <3>1. copies' \in [Logs -> 0..Many]
      BY <2>9, AddCopiesType DEF InsertManyFails
    <3>2. QED
      BY <2>9, <3>1 DEF InsertManyFails, Return
  <2>10. CASE UpdateWatermark(b)
    <3>1. watermark' \in stored
      BY <2>10, ChunkIsAPrefix DEF UpdateWatermark, SetWatermark
    <3>2. QED
      BY <2>10, <3>1 DEF UpdateWatermark, NextOrReturn, history
  <2>11. CASE UpdateWatermarkFails(b)
    <3>1. watermark' \in stored \cup {0}
      BY <2>11, ChunkIsAPrefix DEF UpdateWatermarkFails, SetWatermark
    <3>2. QED
      BY <2>11, <3>1 DEF UpdateWatermarkFails, Return
  <2>12. CASE NextChunk(b)
    BY <2>12 DEF NextChunk, history
  <2>13. QED
    BY <1>2, <2>1, <2>2, <2>3, <2>4, <2>5, <2>6, <2>7, <2>8, <2>9, <2>10, <2>11,
       <2>12 DEF BatchStep
<1>3. CASE Crash
  BY <1>3 DEF Crash
<1>4. CASE UNCHANGED vars
  BY <1>4 DEF vars, batchVars, history
<1>5. QED
  BY <1>1, <1>2, <1>3, <1>4 DEF Next

\* Type correctness: pages and watermarks name stored logs, and a batch has
\* logs left exactly while it is in the loop.
THEOREM TypeCorrect == Spec => []TypeOK
<1>1. Init => TypeOK
  <2> HAVE Init
  <2>1. copies \in [Logs -> 0..Many]
    BY DEF Init, Many
  <2>2. \A b \in Batches : at[b] \in Loop <=> todo[b] # {}
    BY DEF Init, Loop
  <2>3. QED
    BY <2>1, <2>2 DEF Init, TypeOK, Steps
<1>2. QED
  BY <1>1, NextKeepsTypes, PTL DEF Spec

-----------------------------------------------------------------------------
(* Nothing is skipped.                                                     *)

\* What NothingSkipped says of the watermark, for every watermark a batch has
\* read; every page lacks only what is embedded; and the chunk whose watermark
\* is about to be written is embedded.
MarksSkipNothing ==
  \A b \in Batches : \A l \in stored \ late : l <= mark[b] => copies[l] > 0

PagesSkipNothing ==
  \A b \in Batches : \A k \in todo[b], l \in stored \ late :
    l <= k => l \in todo[b] \/ copies[l] > 0

ChunkEmbedded ==
  \A b \in Batches : at[b] = "update" =>
    \A l \in Chunk(b) : copies[l] > 0

NoSkip == /\ NothingSkipped
          /\ MarksSkipNothing
          /\ PagesSkipNothing
          /\ ChunkEmbedded

\* A step that reads nothing, writes no watermark and takes no embedding away
\* keeps all this; a batch may forget its mark or its page in it.
LEMMA QuietStep ==
  ASSUME TypeOK, NoSkip,
         stored' = stored, late' = late, watermark' = watermark,
         \A l \in Logs : copies[l] > 0 => copies'[l] > 0,
         \A b \in Batches : /\ mark'[b] \in {mark[b], 0}
                            /\ todo'[b] \in {todo[b], {}}
                            /\ at'[b] = "update" =>
                                 at[b] = "update" /\ todo'[b] = todo[b]
  PROVE  NoSkip'
<1>1. stored \subseteq Logs
  BY DEF TypeOK
<1>2. NothingSkipped'
  BY <1>1 DEF NoSkip, NothingSkipped
<1>3. MarksSkipNothing'
  <2> SUFFICES ASSUME NEW b \in Batches, NEW l \in stored \ late, l <= mark'[b]
               PROVE  copies'[l] > 0
    BY DEF MarksSkipNothing
  <2>1. l \in Logs /\ ~ (l <= 0)
    BY <1>1, LogsArePlaces
  <2>2. l <= mark[b]
    BY <2>1
  <2>3. QED
    BY <2>1, <2>2 DEF NoSkip, MarksSkipNothing
<1>4. PagesSkipNothing'
  BY <1>1 DEF NoSkip, PagesSkipNothing
<1>5. ChunkEmbedded'
  <2> SUFFICES ASSUME NEW b \in Batches, at'[b] = "update",
                      NEW l \in First(ChunkSize, todo'[b])
               PROVE  copies'[l] > 0
    BY DEF ChunkEmbedded, Chunk, First
  <2>1. at[b] = "update" /\ l \in Chunk(b)
    BY DEF Chunk
  <2>2. l \in Logs
    BY <2>1, ChunkIsAPrefix
  <2>3. QED
    BY <2>1, <2>2 DEF NoSkip, ChunkEmbedded
<1>6. QED
  BY <1>2, <1>3, <1>4, <1>5 DEF NoSkip

\* A log stored where no watermark or page has passed is after all of them.
LEMMA StoreLogKeepsNoSkip ==
  ASSUME TypeOK, NoSkip, NEW l \in Logs, StoreLog(l)
  PROVE  NoSkip'
<1>1. /\ l \notin stored /\ stored' = stored \cup {l}
      /\ late' = IF Passed(l) THEN late \cup {l} ELSE late
      /\ UNCHANGED <<copies, watermark, at, mark, todo>>
  BY DEF StoreLog, batchVars
<1>2. stored \subseteq Logs /\ l \in Nat /\ l > 0
  BY LogsArePlaces DEF TypeOK
<1>3. CASE Passed(l)
  <2>1. stored' \ late' \subseteq stored \ late
    BY <1>1, <1>3
  <2>2. QED
    BY <1>1, <2>1 DEF NoSkip, NothingSkipped, MarksSkipNothing,
       PagesSkipNothing, ChunkEmbedded, Chunk, First
<1>4. CASE ~ Passed(l)
  <2>1. ~ (l <= watermark)
    BY <1>1, <1>2, <1>4, LogsArePlaces DEF TypeOK, Passed
  <2>2. ASSUME NEW b \in Batches PROVE ~ (l <= mark[b])
    <3>1. mark[b] \in stored \cup {0} /\ ~ (l < mark[b])
      BY <1>4 DEF TypeOK, Passed
    <3>2. mark[b] # l /\ mark[b] \in Nat
      <4>1. CASE mark[b] \in stored
        BY <1>1, <1>2, <4>1, LogsArePlaces
      <4>2. CASE mark[b] = 0
        BY <1>2, <4>2
      <4>3. QED
        BY <3>1, <4>1, <4>2
    <3>3. QED
      BY <1>2, <3>1, <3>2
  <2>3. ASSUME NEW b \in Batches, NEW k \in todo[b] PROVE ~ (l <= k)
    <3>1. k \in stored /\ ~ (l < k)
      BY <1>4 DEF TypeOK, Passed
    <3>2. k # l /\ k \in Nat
      BY <1>1, <1>2, <3>1, LogsArePlaces
    <3>3. QED
      BY <1>2, <3>1, <3>2
  <2>4. stored' \ late' \subseteq (stored \ late) \cup {l}
    BY <1>1, <1>4
  <2>5. ChunkEmbedded'
    BY <1>1 DEF NoSkip, ChunkEmbedded, Chunk, First
  <2>6. QED
    BY <1>1, <2>1, <2>2, <2>3, <2>4, <2>5 DEF NoSkip, NothingSkipped,
       MarksSkipNothing, PagesSkipNothing
<1>5. QED
  BY <1>3, <1>4

\* The page holds all that is stored between the mark and its last log.
LEMMA FindKeepsNoSkip ==
  ASSUME TypeOK, NoSkip, NEW b \in Batches, NEW limit \in Limits,
         FindLogsAfterWatermark(b, limit)
  PROVE  NoSkip'
<1> DEFINE page == Page(mark[b], limit)
<1>1. /\ UNCHANGED <<stored, copies, watermark, late>>
      /\ todo' = [todo EXCEPT ![b] = page]
      /\ mark' = [mark EXCEPT ![b] = 0]
      /\ at' = [at EXCEPT ![b] = IF page = {} THEN "idle" ELSE "embed"]
  BY DEF FindLogsAfterWatermark, Goto, history
<1>2. /\ page \subseteq stored
      /\ \A k \in page, l \in stored : l <= k => l \in page \/ l <= mark[b]
  <2>1. mark[b] \in Logs \cup {0}
    BY DEF TypeOK
  <2>2. QED
    BY <2>1, LogsArePlaces, PageIsAPrefix
<1> HIDE DEF page
<1>3. stored \subseteq Logs /\ at \in [Batches -> Steps]
      /\ mark \in [Batches -> stored \cup {0}] /\ todo \in [Batches -> SUBSET stored]
  BY DEF TypeOK
<1>4. NothingSkipped'
  BY <1>1 DEF NoSkip, NothingSkipped
<1>5. MarksSkipNothing'
  <2> SUFFICES ASSUME NEW c \in Batches, NEW l \in stored \ late, l <= mark'[c]
               PROVE  copies[l] > 0
    BY <1>1 DEF MarksSkipNothing
  <2>1. l \in Logs /\ ~ (l <= 0)
    BY <1>3, LogsArePlaces
  <2>2. c # b
    BY <1>1, <1>3, <2>1
  <2>3. QED
    BY <1>1, <1>3, <2>2 DEF NoSkip, MarksSkipNothing
<1>6. PagesSkipNothing'
  <2> SUFFICES ASSUME NEW c \in Batches, NEW k \in todo'[c],
                      NEW l \in stored \ late, l <= k
               PROVE  l \in todo'[c] \/ copies[l] > 0
    BY <1>1 DEF PagesSkipNothing
  <2>1. CASE c = b
    <3>1. k \in page /\ todo'[c] = page
      BY <1>1, <1>3, <2>1
    <3>2. l \in page \/ l <= mark[b]
      BY <1>2, <3>1
    <3>3. QED
      BY <3>1, <3>2 DEF NoSkip, MarksSkipNothing
  <2>2. CASE c # b
    BY <1>1, <1>3, <2>2 DEF NoSkip, PagesSkipNothing
  <2>3. QED
    BY <2>1, <2>2
<1>7. ChunkEmbedded'
  <2> SUFFICES ASSUME NEW c \in Batches, at'[c] = "update",
                      NEW l \in First(ChunkSize, todo'[c])
               PROVE  copies[l] > 0
    BY <1>1 DEF ChunkEmbedded, Chunk, First
  <2>1. c # b
    BY <1>1, <1>3
  <2>2. at[c] = "update" /\ l \in Chunk(c)
    BY <1>1, <1>3, <2>1 DEF Chunk
  <2>3. QED
    BY <2>2 DEF NoSkip, ChunkEmbedded
<1>8. QED
  BY <1>4, <1>5, <1>6, <1>7 DEF NoSkip

\* When a chunk is done, all that is kept up to its last log is embedded.
LEMMA WatermarkSkipsNothing ==
  ASSUME TypeOK, NoSkip, NEW b \in Batches, at[b] = "update", SetWatermark(b)
  PROVE  \A l \in stored \ late : l <= watermark' => copies[l] > 0
<1> SUFFICES ASSUME NEW l \in stored \ late, l <= watermark'
             PROVE  copies[l] > 0
  OBVIOUS
<1>1. watermark' \in Chunk(b)
  BY DEF SetWatermark
<1>2. watermark' \in todo[b]
  BY <1>1, ChunkIsAPrefix
<1>3. CASE l \in todo[b]
  <2>1. l \in Chunk(b)
    BY <1>1, <1>3, ChunkIsAPrefix
  <2>2. QED
    BY <2>1 DEF NoSkip, ChunkEmbedded
<1>4. CASE l \notin todo[b]
  BY <1>2, <1>4 DEF NoSkip, PagesSkipNothing
<1>5. QED
  BY <1>3, <1>4

LEMMA UpdateKeepsNoSkip ==
  ASSUME TypeOK, NoSkip, NEW b \in Batches, UpdateWatermark(b)
  PROVE  NoSkip'
<1>1. /\ at[b] = "update" /\ SetWatermark(b)
      /\ UNCHANGED <<stored, copies, mark, late>>
      /\ todo' = [todo EXCEPT ![b] = todo[b] \ Chunk(b)]
      /\ at' = [at EXCEPT ![b] = IF todo[b] \ Chunk(b) = {} THEN "idle" ELSE "pause"]
  BY DEF UpdateWatermark, NextOrReturn, Goto, history
<1>2. at \in [Batches -> Steps] /\ todo \in [Batches -> SUBSET stored]
  BY DEF TypeOK
<1>3. NothingSkipped'
  BY <1>1, WatermarkSkipsNothing DEF NothingSkipped
<1>4. MarksSkipNothing'
  BY <1>1 DEF NoSkip, MarksSkipNothing
<1>5. PagesSkipNothing'
  <2> SUFFICES ASSUME NEW c \in Batches, NEW k \in todo'[c],
                      NEW l \in stored \ late, l <= k
               PROVE  l \in todo'[c] \/ copies[l] > 0
    BY <1>1 DEF PagesSkipNothing
  <2>1. k \in todo[c]
    BY <1>1, <1>2
  <2>2. l \in todo[c] \/ copies[l] > 0
    BY <2>1 DEF NoSkip, PagesSkipNothing
  <2>3. c = b => \A j \in Chunk(b) : copies[j] > 0
    BY <1>1 DEF NoSkip, ChunkEmbedded
  <2>4. QED
    BY <1>1, <1>2, <2>2, <2>3
<1>6. ChunkEmbedded'
  <2> SUFFICES ASSUME NEW c \in Batches, at'[c] = "update",
                      NEW l \in First(ChunkSize, todo'[c])
               PROVE  copies[l] > 0
    BY <1>1 DEF ChunkEmbedded, Chunk, First
  <2>1. c # b
    BY <1>1, <1>2
  <2>2. at[c] = "update" /\ l \in Chunk(c)
    BY <1>1, <1>2, <2>1 DEF Chunk
  <2>3. QED
    BY <2>2 DEF NoSkip, ChunkEmbedded
<1>7. QED
  BY <1>3, <1>4, <1>5, <1>6 DEF NoSkip

LEMMA GetWatermarkKeepsNoSkip ==
  ASSUME TypeOK, NoSkip, NEW b \in Batches, GetWatermark(b)
  PROVE  NoSkip'
<1>1. /\ UNCHANGED <<stored, copies, watermark, todo, late>>
      /\ mark' = [mark EXCEPT ![b] = watermark]
      /\ at' = [at EXCEPT ![b] = "find"]
  BY DEF GetWatermark, Goto, history
<1>2. at \in [Batches -> Steps] /\ mark \in [Batches -> stored \cup {0}]
  BY DEF TypeOK
<1>3. MarksSkipNothing'
  BY <1>1, <1>2 DEF NoSkip, MarksSkipNothing, NothingSkipped
<1>4. ChunkEmbedded'
  BY <1>1, <1>2 DEF NoSkip, ChunkEmbedded, Chunk, First
<1>5. QED
  BY <1>1, <1>3, <1>4 DEF NoSkip, NothingSkipped, PagesSkipNothing

\* The insert makes ChunkEmbedded true of its batch; for the rest it is quiet.
LEMMA InsertKeepsNoSkip ==
  ASSUME TypeOK, NoSkip, NEW b \in Batches, InsertMany(b)
  PROVE  NoSkip'
<1>1. /\ UNCHANGED <<stored, watermark, mark, todo, late>>
      /\ AddCopies(Chunk(b))
      /\ at' = [at EXCEPT ![b] = "update"]
  BY DEF InsertMany, Goto, history
<1>2. stored \subseteq Logs /\ at \in [Batches -> Steps]
  BY DEF TypeOK
<1>3. /\ \A l \in Logs : copies[l] > 0 => copies'[l] > 0
      /\ \A l \in Logs : l \in Chunk(b) => copies'[l] > 0
  BY <1>1, AddCopiesType DEF TypeOK
<1>4. ChunkEmbedded'
  <2> SUFFICES ASSUME NEW c \in Batches, at'[c] = "update",
                      NEW l \in First(ChunkSize, todo'[c])
               PROVE  copies'[l] > 0
    BY <1>1 DEF ChunkEmbedded, Chunk, First
  <2>1. l \in Chunk(c) /\ l \in Logs
    BY <1>1, ChunkIsAPrefix DEF Chunk
  <2>2. CASE c = b
    BY <1>3, <2>1, <2>2
  <2>3. CASE c # b
    BY <1>1, <1>2, <1>3, <2>1, <2>3 DEF NoSkip, ChunkEmbedded
  <2>4. QED
    BY <2>2, <2>3
<1>5. QED
  BY <1>1, <1>2, <1>3, <1>4 DEF NoSkip, NothingSkipped, MarksSkipNothing,
     PagesSkipNothing

LEMMA NextKeepsNoSkip ==
  ASSUME TypeOK, NoSkip, [Next]_vars
  PROVE  NoSkip'
<1>1. ASSUME NEW l \in Logs, StoreLog(l) PROVE NoSkip'
  BY <1>1, StoreLogKeepsNoSkip
<1>2. ASSUME NEW b \in Batches, BatchStep(b) PROVE NoSkip'
  <2> USE DEF TypeOK, Goto
  <2>1. CASE ProcessPendingLogs(b)
    BY <2>1, QuietStep DEF ProcessPendingLogs
  <2>2. CASE GetWatermark(b)
    BY <2>2, GetWatermarkKeepsNoSkip
  <2>3. CASE GetWatermarkFails(b)
    BY <2>3, QuietStep DEF GetWatermarkFails
  <2>4. ASSUME NEW limit \in Limits, FindLogsAfterWatermark(b, limit) PROVE NoSkip'
    BY <2>4, FindKeepsNoSkip
  <2>5. CASE FindLogsFails(b)
    BY <2>5, QuietStep DEF FindLogsFails, Return, history
  <2>6. CASE CreateBatchEmbeddings(b)
    BY <2>6, QuietStep DEF CreateBatchEmbeddings, history
  <2>7. CASE CreateBatchEmbeddingsFails(b)
    BY <2>7, QuietStep DEF CreateBatchEmbeddingsFails, Return, history
  <2>8. CASE InsertMany(b)
    BY <2>8, InsertKeepsNoSkip
  <2>9. ASSUME NEW n \in 0..ChunkSize, InsertManyFails(b, n) PROVE NoSkip'
    <3>1. \A l \in Logs : copies[l] > 0 => copies'[l] > 0
      BY <2>9, AddCopiesType DEF InsertManyFails
    <3>2. QED
      BY <2>9, <3>1, QuietStep DEF InsertManyFails, Return
  <2>10. CASE UpdateWatermark(b)
    BY <2>10, UpdateKeepsNoSkip
  <2>11. CASE UpdateWatermarkFails(b)
    <3>1. \A l \in stored \ late : l <= watermark' => copies[l] > 0
      <4>1. CASE SetWatermark(b)
        BY <2>11, <4>1, WatermarkSkipsNothing DEF UpdateWatermarkFails
      <4>2. CASE UNCHANGED watermark
        BY <4>2 DEF NoSkip, NothingSkipped
      <4>3. QED
        BY <2>11, <4>1, <4>2 DEF UpdateWatermarkFails
    <3>2. /\ UNCHANGED <<stored, copies, late>>
          /\ at' = [at EXCEPT ![b] = "idle"]
          /\ mark' = [mark EXCEPT ![b] = 0]
          /\ todo' = [todo EXCEPT ![b] = {}]
      BY <2>11 DEF UpdateWatermarkFails, Return
    <3>3. NothingSkipped'
      BY <3>1, <3>2 DEF NothingSkipped
    <3>4. MarksSkipNothing'
      <4>1. \A l \in stored : ~ (l <= 0)
        BY LogsArePlaces
      <4>2. QED
        BY <3>2, <4>1 DEF NoSkip, MarksSkipNothing
    <3>5. PagesSkipNothing' /\ ChunkEmbedded'
      BY <3>2 DEF NoSkip, PagesSkipNothing, ChunkEmbedded, Chunk, First
    <3>6. QED
      BY <3>3, <3>4, <3>5 DEF NoSkip
  <2>12. CASE NextChunk(b)
    BY <2>12, QuietStep DEF NextChunk, history
  <2>13. QED
    BY <1>2, <2>1, <2>2, <2>3, <2>4, <2>5, <2>6, <2>7, <2>8, <2>9, <2>10, <2>11,
       <2>12 DEF BatchStep
<1>3. CASE Crash
  BY <1>3, QuietStep DEF Crash, TypeOK
<1>4. CASE UNCHANGED vars
  BY <1>4, QuietStep DEF vars, batchVars, history, TypeOK
<1>5. QED
  BY <1>1, <1>2, <1>3, <1>4 DEF Next

\* Whatever overlaps or fails, no log is skipped except one that was stored
\* behind a place the batches had already passed.
THEOREM NothingSkippedHolds == Spec => []NothingSkipped
<1>1. Init => NoSkip
  BY DEF Init, NoSkip, NothingSkipped, MarksSkipNothing, PagesSkipNothing,
     ChunkEmbedded
<1>2. NoSkip => NothingSkipped
  BY DEF NoSkip
<1>3. QED
  BY <1>1, <1>2, NextKeepsNoSkip, TypeCorrect, PTL DEF Spec

-----------------------------------------------------------------------------
(* Without a disturbance, each log is embedded once.                       *)

OneBatch == \A b, c \in Batches : at[b] # "idle" /\ at[c] # "idle" => b = c

\* What a batch has read is still true, and what it has to do lies ahead.
MarkIsWatermark == \A b \in Batches : at[b] = "find" => mark[b] = watermark
TodoIsAhead     == \A b \in Batches : \A l \in todo[b] : l > watermark

\* Past the watermark, only a chunk whose watermark is about to be written is
\* embedded.
CopiesAreBehind ==
  \A l \in Logs : copies[l] > 0 /\ l > watermark =>
    \E b \in Batches : at[b] = "update" /\ l \in Chunk(b)

NoRepeats == \A l \in Logs : copies[l] < Many

Orderly == /\ OneBatch
           /\ MarkIsWatermark
           /\ TodoIsAhead
           /\ CopiesAreBehind
           /\ NoRepeats

Undisturbed == ~ disturbed => Orderly

\* With one batch under way, it alone has a page.
LEMMA TheOthersAreIdle ==
  ASSUME TypeOK, OneBatch, NEW b \in Batches, at[b] # "idle"
  PROVE  \A c \in Batches : c # b => at[c] = "idle" /\ todo[c] = {}
BY DEF TypeOK, OneBatch, Loop

\* A step that only moves a batch on, or ends it, when nothing awaits the
\* update of the watermark.
LEMMA QuietIsOrderly ==
  ASSUME TypeOK, Orderly, UNCHANGED <<copies, watermark>>,
         \A b \in Batches : at[b] # "update" /\ at'[b] # "update",
         \A b \in Batches : at'[b] # "idle" => at[b] # "idle",
         \A b \in Batches : at'[b] = "find" => mark'[b] = watermark,
         \A b \in Batches : \A l \in todo'[b] : l > watermark
  PROVE  Orderly'
<1>1. OneBatch'
  BY DEF Orderly, OneBatch
<1>2. MarkIsWatermark' /\ TodoIsAhead' /\ NoRepeats'
  BY DEF Orderly, MarkIsWatermark, TodoIsAhead, NoRepeats
<1>3. CopiesAreBehind'
  BY DEF Orderly, CopiesAreBehind
<1>4. QED
  BY <1>1, <1>2, <1>3 DEF Orderly

LEMMA InsertIsOrderly ==
  ASSUME TypeOK, Orderly, NEW b \in Batches, InsertMany(b)
  PROVE  Orderly'
<1>1. /\ at[b] = "insert"
      /\ UNCHANGED <<watermark, mark, todo>>
      /\ AddCopies(Chunk(b))
      /\ at' = [at EXCEPT ![b] = "update"]
  BY DEF InsertMany, Goto
<1>2. at \in [Batches -> Steps]
  BY DEF TypeOK
<1>3. \A c \in Batches : c # b => at[c] = "idle"
  BY <1>1, TheOthersAreIdle DEF Orderly
<1>4. /\ copies' \in [Logs -> 0..Many]
      /\ \A l \in Logs : l \notin Chunk(b) => copies'[l] = copies[l]
      /\ \A l \in Logs : copies[l] = 0 => copies'[l] <= 1
  BY <1>1, AddCopiesType DEF TypeOK
<1>5. \A l \in Logs : copies[l] \in 0..Many
  BY DEF TypeOK
<1>6. \A l \in Logs : copies[l] > 0 => ~ (l > watermark)
  BY <1>1, <1>3 DEF Orderly, CopiesAreBehind
<1>7. OneBatch'
  BY <1>1, <1>2, <1>3 DEF OneBatch
<1>8. MarkIsWatermark' /\ TodoIsAhead'
  BY <1>1, <1>2 DEF Orderly, MarkIsWatermark, TodoIsAhead
<1>9. CopiesAreBehind'
  <2> SUFFICES ASSUME NEW l \in Logs, copies'[l] > 0, l > watermark'
               PROVE  \E c \in Batches : at'[c] = "update" /\ l \in Chunk(c)'
    BY DEF CopiesAreBehind
  <2>1. l \in Chunk(b)
    BY <1>1, <1>4, <1>6
  <2>2. at'[b] = "update" /\ l \in Chunk(b)'
    BY <1>1, <1>2, <2>1 DEF Chunk, First
  <2>3. QED
    BY <2>2
<1>10. NoRepeats'
  <2> SUFFICES ASSUME NEW l \in Logs PROVE copies'[l] < Many
    BY DEF NoRepeats
  <2>1. CASE l \in Chunk(b)
    <3>1. l > watermark
      BY <2>1, ChunkIsAPrefix DEF Orderly, TodoIsAhead
    <3>2. copies[l] = 0
      BY <1>5, <1>6, <3>1 DEF Many
    <3>3. QED
      BY <1>4, <3>2 DEF Many
  <2>2. CASE l \notin Chunk(b)
    BY <1>4, <2>2 DEF Orderly, NoRepeats
  <2>3. QED
    BY <2>1, <2>2
<1>11. QED
  BY <1>7, <1>8, <1>9, <1>10 DEF Orderly

\* The new watermark is the end of the chunk: beyond the old one, and before
\* what is left of the page.
LEMMA WatermarkMovesOn ==
  ASSUME TypeOK, Orderly, NEW b \in Batches, at[b] = "update", SetWatermark(b)
  PROVE  /\ watermark' > watermark
         /\ \A l \in Chunk(b) : l <= watermark'
         /\ \A l \in todo[b] \ Chunk(b) : l > watermark'
         /\ \A l \in Logs : copies[l] > 0 => ~ (l > watermark')
<1>1. /\ watermark' \in Chunk(b)
      /\ \A l \in Chunk(b) : l <= watermark'
  BY DEF SetWatermark
<1>2. /\ watermark' \in todo[b] /\ todo[b] \subseteq Logs
      /\ \A l \in todo[b] : l <= watermark' => l \in Chunk(b)
  BY <1>1, ChunkIsAPrefix
<1>3. watermark' > watermark
  BY <1>2 DEF Orderly, TodoIsAhead
<1>4. watermark \in Nat /\ watermark' \in Nat /\ \A l \in Logs : l \in Nat
  BY <1>2, LogsArePlaces DEF TypeOK
<1>5. \A l \in todo[b] \ Chunk(b) : l > watermark'
  BY <1>2, <1>4
<1>6. ASSUME NEW l \in Logs, copies[l] > 0, l > watermark' PROVE FALSE
  <2>1. l > watermark
    BY <1>3, <1>4, <1>6
  <2>2. l \in Chunk(b)
    BY <1>6, <2>1, TheOthersAreIdle DEF Orderly, CopiesAreBehind
  <2>3. QED
    BY <1>1, <1>4, <1>6, <2>2
<1>7. QED
  BY <1>1, <1>3, <1>5, <1>6

\* Both ends of an update that was made: the loop goes on, or the answer is lost.
LEMMA UpdateIsOrderly ==
  ASSUME TypeOK, Orderly, NEW b \in Batches, at[b] = "update", SetWatermark(b),
         UNCHANGED copies,
         at' = [at EXCEPT ![b] = "idle"] \/ at' = [at EXCEPT ![b] = "pause"],
         \A l \in todo'[b] : l \in todo[b] \ Chunk(b),
         \A c \in Batches : c # b => todo'[c] = todo[c]
  PROVE  Orderly'
<1>1. at \in [Batches -> Steps]
  BY DEF TypeOK
<1>2. \A c \in Batches : c # b => at[c] = "idle" /\ todo[c] = {}
  BY TheOthersAreIdle DEF Orderly
<1>3. \A c \in Batches : at'[c] \notin {"find", "update"} /\ (c # b => at'[c] = "idle")
  BY <1>1, <1>2
<1>4. OneBatch' /\ MarkIsWatermark'
  BY <1>3 DEF OneBatch, MarkIsWatermark
<1>5. TodoIsAhead'
  BY <1>2, WatermarkMovesOn DEF TodoIsAhead
<1>6. CopiesAreBehind'
  BY WatermarkMovesOn DEF CopiesAreBehind
<1>7. NoRepeats'
  BY DEF Orderly, NoRepeats
<1>8. QED
  BY <1>4, <1>5, <1>6, <1>7 DEF Orderly

LEMMA SameIsOrderly ==
  ASSUME Orderly, UNCHANGED <<copies, watermark, at, mark, todo>>
  PROVE  Orderly'
BY DEF Orderly, OneBatch, MarkIsWatermark, TodoIsAhead, CopiesAreBehind,
   NoRepeats, Chunk, First

LEMMA BatchIsOrderly ==
  ASSUME TypeOK, Orderly, NEW b \in Batches, BatchStep(b), ~ disturbed'
  PROVE  Orderly'
<1> USE DEF Goto
<1>1. at \in [Batches -> Steps] /\ mark \in [Batches -> stored \cup {0}]
      /\ todo \in [Batches -> SUBSET stored] /\ stored \subseteq Logs
  BY DEF TypeOK
<1>2. at[b] # "idle" => \A c \in Batches : c # b => at[c] = "idle" /\ todo[c] = {}
  BY TheOthersAreIdle DEF Orderly
<1>3. \A c \in Batches : \A l \in todo[c] : l > watermark
  BY DEF Orderly, TodoIsAhead
<1>4. CASE ProcessPendingLogs(b)
  <2>1. \A c \in Batches : at[c] = "idle"
    BY <1>4 DEF ProcessPendingLogs
  <2>2. QED
    <3>1. at' = [at EXCEPT ![b] = "getWatermark"]
          /\ UNCHANGED <<copies, watermark, mark, todo>>
      BY <1>4 DEF ProcessPendingLogs
    <3>2. OneBatch' /\ MarkIsWatermark' /\ TodoIsAhead'
      BY <1>1, <1>3, <2>1, <3>1 DEF OneBatch, MarkIsWatermark, TodoIsAhead
    <3>3. CopiesAreBehind' /\ NoRepeats'
      BY <2>1, <3>1 DEF Orderly, CopiesAreBehind, NoRepeats
    <3>4. QED
      BY <3>2, <3>3 DEF Orderly
<1>5. CASE GetWatermark(b)
  BY <1>1, <1>2, <1>3, <1>5, QuietIsOrderly DEF GetWatermark
<1>6. CASE GetWatermarkFails(b)
  BY <1>1, <1>2, <1>3, <1>6, QuietIsOrderly DEF GetWatermarkFails
<1>7. ASSUME NEW limit \in Limits, FindLogsAfterWatermark(b, limit)
      PROVE  Orderly'
  <2> DEFINE page == Page(mark[b], limit)
  <2>1. /\ at[b] = "find" /\ UNCHANGED <<copies, watermark>>
        /\ at' = [at EXCEPT ![b] = IF page = {} THEN "idle" ELSE "embed"]
        /\ todo' = [todo EXCEPT ![b] = page]
    BY <1>7 DEF FindLogsAfterWatermark
  <2>2. mark[b] = watermark /\ watermark \in Nat
    BY <1>1, <2>1, LogsArePlaces DEF Orderly, MarkIsWatermark, TypeOK
  <2>3. \A l \in page : l > watermark
    BY <2>2, PageIsAPrefix
  <2> HIDE DEF page
  <2>4. QED
    BY <1>1, <1>2, <1>3, <2>1, <2>3, QuietIsOrderly
<1>8. CASE FindLogsFails(b)
  BY <1>1, <1>2, <1>3, <1>8, QuietIsOrderly DEF FindLogsFails, Return
<1>9. CASE CreateBatchEmbeddings(b)
  BY <1>1, <1>2, <1>3, <1>9, QuietIsOrderly DEF CreateBatchEmbeddings
<1>10. CASE CreateBatchEmbeddingsFails(b)
  BY <1>1, <1>2, <1>3, <1>10, QuietIsOrderly DEF CreateBatchEmbeddingsFails, Return
<1>11. CASE InsertMany(b)
  BY <1>11, InsertIsOrderly
<1>12. ASSUME NEW n \in 0..ChunkSize, InsertManyFails(b, n) PROVE Orderly'
  <2>1. n = 0
    BY <1>12 DEF InsertManyFails
  <2>2. First(n, Chunk(b)) = {}
    <3>1. \A S \in SUBSET Logs : First(0, S) = {}
      <4> SUFFICES ASSUME NEW S \in SUBSET Logs, NEW l \in First(0, S) PROVE FALSE
        OBVIOUS
      <4>1. IsFiniteSet({k \in S : k < l})
        BY LogsAssumption, FS_Subset
      <4>2. Cardinality({k \in S : k < l}) \in Nat
        BY <4>1, FS_CardinalityType
      <4>3. QED
        BY <4>2 DEF First
    <3>2. QED
      BY <2>1, <3>1, ChunkIsAPrefix
  <2>3. copies' = copies
    BY <1>12, <2>2 DEF InsertManyFails, AddCopies, TypeOK
  <2>4. QED
    BY <1>1, <1>2, <1>3, <1>12, <2>3, QuietIsOrderly DEF InsertManyFails, Return
<1>13. CASE UpdateWatermark(b)
  BY <1>1, <1>13, UpdateIsOrderly DEF UpdateWatermark, NextOrReturn
<1>14. CASE UpdateWatermarkFails(b)
  <2>1. SetWatermark(b)
    BY <1>14 DEF UpdateWatermarkFails
  <2>2. QED
    BY <1>1, <1>14, <2>1, UpdateIsOrderly DEF UpdateWatermarkFails, Return
<1>15. CASE NextChunk(b)
  BY <1>1, <1>2, <1>3, <1>15, QuietIsOrderly DEF NextChunk
<1>16. QED
  BY <1>4, <1>5, <1>6, <1>7, <1>8, <1>9, <1>10, <1>11, <1>12, <1>13, <1>14, <1>15
  DEF BatchStep

\* A disturbance is not forgotten.
LEMMA DisturbedStays ==
  ASSUME TypeOK, [Next]_vars, ~ disturbed'
  PROVE  ~ disturbed
BY DEF Next, BatchStep, vars, history, StoreLog, ProcessPendingLogs, GetWatermark,
   GetWatermarkFails, FindLogsAfterWatermark, FindLogsFails, CreateBatchEmbeddings,
   CreateBatchEmbeddingsFails, InsertMany, InsertManyFails, UpdateWatermark,
   UpdateWatermarkFails, NextChunk, Crash, TypeOK

LEMMA NextKeepsUndisturbed ==
  ASSUME TypeOK, Undisturbed, [Next]_vars
  PROVE  Undisturbed'
<1> SUFFICES ASSUME ~ disturbed' PROVE Orderly'
  BY DEF Undisturbed
<1>1. Orderly
  BY DisturbedStays DEF Undisturbed
<1>2. ASSUME NEW l \in Logs, StoreLog(l) PROVE Orderly'
  BY <1>1, <1>2, SameIsOrderly DEF StoreLog, batchVars
<1>3. ASSUME NEW b \in Batches, BatchStep(b) PROVE Orderly'
  BY <1>1, <1>3, BatchIsOrderly
<1>4. CASE Crash
  BY <1>1, <1>4, QuietIsOrderly DEF Crash
<1>5. CASE UNCHANGED vars
  BY <1>1, <1>5, SameIsOrderly DEF vars, batchVars
<1>6. QED
  BY <1>2, <1>3, <1>4, <1>5 DEF Next

LEMMA InitIsUndisturbed == Init => Undisturbed
BY DEF Init, Undisturbed, Orderly, OneBatch, MarkIsWatermark, TodoIsAhead,
   CopiesAreBehind, NoRepeats, Many

\* One batch after another, with failures that leave nothing half done, embeds
\* no log twice.
THEOREM RepeatsHaveACauseHolds == Spec => []RepeatsHaveACause
<1>1. TypeOK /\ Undisturbed => RepeatsHaveACause
  BY DEF TypeOK, Undisturbed, Orderly, NoRepeats, RepeatsHaveACause, Many
<1>2. QED
  BY <1>1, InitIsUndisturbed, NextKeepsUndisturbed, TypeCorrect, PTL DEF Spec

\* Only a disturbance sets the watermark back.
THEOREM WatermarkAdvancesHolds == Spec => WatermarkAdvances
<1>1. ASSUME TypeOK, Undisturbed, [Next]_vars
      PROVE  [disturbed' \/ watermark' >= watermark]_vars
  <2> SUFFICES ASSUME ~ disturbed' PROVE watermark' >= watermark
    OBVIOUS
  <2>1. Orderly
    BY <1>1, DisturbedStays DEF Undisturbed
  <2>2. watermark \in Nat
    BY <1>1, LogsArePlaces DEF TypeOK
  <2>3. CASE UNCHANGED watermark
    BY <2>2, <2>3
  <2>4. ASSUME NEW b \in Batches, at[b] = "update", SetWatermark(b)
        PROVE  watermark' >= watermark
    <3>1. watermark' > watermark
      BY <1>1, <2>1, <2>4, WatermarkMovesOn
    <3>2. watermark' \in Logs
      BY <1>1, <2>4, ChunkIsAPrefix DEF SetWatermark
    <3>3. QED
      BY <2>2, <3>1, <3>2, LogsArePlaces
  <2>5. UNCHANGED watermark \/ \E b \in Batches : at[b] = "update" /\ SetWatermark(b)
    BY <1>1 DEF Next, BatchStep, vars, StoreLog, ProcessPendingLogs, GetWatermark,
       GetWatermarkFails, FindLogsAfterWatermark, FindLogsFails,
       CreateBatchEmbeddings, CreateBatchEmbeddingsFails, InsertMany,
       InsertManyFails, UpdateWatermark, UpdateWatermarkFails, NextChunk, Crash
  <2>6. QED
    BY <2>3, <2>4, <2>5
<1>2. QED
  BY <1>1, InitIsUndisturbed, NextKeepsUndisturbed, TypeCorrect, PTL
  DEF Spec, WatermarkAdvances
=============================================================================
