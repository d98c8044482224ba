------------------------- MODULE EmbeddingPipeline -------------------------
(***************************************************************************)
(* EmbeddingService.processPendingLogs over MongoLogStorageAdapter.        *)
(*                                                                         *)
(* A batch reads the watermark, reads a page of the logs after it, and     *)
(* works through the page in chunks: one call of the embedding model, one  *)
(* insertMany into wide_events_embedded, one update of the watermark.      *)
(* Each POST /embeddings/batch runs one; nothing keeps two of them apart.  *)
(* An action is one remote call and the code up to the next one.           *)
(*                                                                         *)
(* A log is its place in the order (timestamp, _id) in which pages are     *)
(* sorted.  A log enters the collection when its request has ended and its *)
(* write buffer was flushed, so not in the order of its timestamp.         *)
(*                                                                         *)
(* late and disturbed are history: the logs stored behind a place that a   *)
(* watermark or a page had already reached, and whether batches overlapped *)
(* or a write or a read of the watermark failed in a way that can repeat   *)
(* work.                                                                   *)
(***************************************************************************)
EXTENDS Naturals, FiniteSets

CONSTANTS Logs,        \* the logs with a summary, by their place in the order
          Batches,     \* calls of processPendingLogs that may be under way
          ChunkSize,   \* EMBEDDING_BATCH_CHUNK_SIZE
          Limits       \* the limits callers ask for; 0 is "no limit" to MongoDB

ASSUME LogsAssumption  == Logs \in SUBSET (Nat \ {0}) /\ IsFiniteSet(Logs)
ASSUME SizesAssumption == ChunkSize \in Nat \ {0} /\ Limits \in SUBSET Nat

VARIABLES
  stored,      \* the logs in wide_events
  copies,      \* how many documents wide_events_embedded has of each log
  watermark,   \* embedding_progress; 0 when there is no document
  at,          \* the remote call each batch awaits
  mark,        \* the watermark it has read
  todo,        \* the logs of its page from the loop index on
  late, disturbed

batchVars == <<at, mark, todo>>
history   == <<late, disturbed>>
vars      == <<stored, copies, watermark, batchVars, history>>

\* Two copies are as bad as three: the count stops at Many.
Many  == 2
Steps == {"idle", "getWatermark", "find", "embed", "insert", "update", "pause"}
Loop  == {"embed", "insert", "update", "pause"}

\* (Bug: the page is sorted from the newest log.)
FirstFromTheEnd(n, S) == {l \in S : Cardinality({k \in S : k > l}) < n}

\* The n first logs of S: sort() and limit(n), or slice(i, i + n).
First(n, S) == {l \in S : Cardinality({k \in S : k < l}) < n}

\* (Bug: $gte for $gt.)
AfterOrAt(m) == {l \in stored : l >= m}

After(m) == {l \in stored : l > m}

Page(m, limit) == IF limit = 0 THEN After(m) ELSE First(limit, After(m))
Chunk(b)       == First(ChunkSize, todo[b])

TypeOK ==
  /\ stored \in SUBSET Logs
  /\ copies \in [Logs -> 0..Many]
  /\ watermark \in stored \cup {0}
  /\ at \in [Batches -> Steps]
  /\ mark \in [Batches -> stored \cup {0}]
  /\ todo \in [Batches -> SUBSET stored]
  /\ \A b \in Batches : at[b] \in Loop <=> todo[b] # {}
  /\ late \in SUBSET stored
  /\ disturbed \in BOOLEAN

Init ==
  /\ stored = {}
  /\ copies = [l \in Logs |-> 0]
  /\ watermark = 0
  /\ at = [b \in Batches |-> "idle"]
  /\ mark = [b \in Batches |-> 0]
  /\ todo = [b \in Batches |-> {}]
  /\ late = {}
  /\ disturbed = FALSE

Goto(b, step) == at' = [at EXCEPT ![b] = step]

\* The call returns, or the catch of the loop has ended it.
Return(b) ==
  /\ Goto(b, "idle")
  /\ mark' = [mark EXCEPT ![b] = 0]
  /\ todo' = [todo EXCEPT ![b] = {}]

-----------------------------------------------------------------------------
(* The log store.                                                          *)

\* A page or the watermark has already gone past the place of l.
Passed(l) ==
  \/ l < watermark
  \/ \E b \in Batches : l < mark[b] \/ \E k \in todo[b] : l < k

\* The write of a log into wide_events.
StoreLog(l) ==
  /\ l \notin stored
  /\ stored' = stored \cup {l}
  /\ late' = IF Passed(l) THEN late \cup {l} ELSE late
  /\ UNCHANGED <<copies, watermark, batchVars, disturbed>>

-----------------------------------------------------------------------------
(* One batch.                                                              *)

ProcessPendingLogs(b) ==
  /\ at[b] = "idle"
  /\ Goto(b, "getWatermark")
  /\ disturbed' = (disturbed \/ \E c \in Batches : at[c] # "idle")
  /\ UNCHANGED <<stored, copies, watermark, mark, todo, late>>

GetWatermark(b) ==
  /\ at[b] = "getWatermark"
  /\ Goto(b, "find")
  /\ mark' = [mark EXCEPT ![b] = watermark]
  /\ UNCHANGED <<stored, copies, watermark, todo, history>>

\* The adapter answers a failed read with null, as if nothing was embedded yet.
GetWatermarkFails(b) ==
  /\ at[b] = "getWatermark"
  /\ Goto(b, "find")
  /\ mark' = [mark EXCEPT ![b] = 0]
  /\ disturbed' = (disturbed \/ watermark # 0)
  /\ UNCHANGED <<stored, copies, watermark, todo, late>>

\* An empty page ends the call.  The mark is not used after this.
FindLogsAfterWatermark(b, limit) ==
  LET page == Page(mark[b], limit) IN
  /\ at[b] = "find"
  /\ Goto(b, IF page = {} THEN "idle" ELSE "embed")
  /\ mark' = [mark EXCEPT ![b] = 0]
  /\ todo' = [todo EXCEPT ![b] = page]
  /\ UNCHANGED <<stored, copies, watermark, history>>

\* The adapter answers a failed find with an empty page.
FindLogsFails(b) ==
  /\ at[b] = "find"
  /\ Return(b)
  /\ UNCHANGED <<stored, copies, watermark, history>>

\* createBatchEmbeddings for the chunk at the loop index.
CreateBatchEmbeddings(b) ==
  /\ at[b] = "embed"
  /\ Goto(b, "insert")
  /\ UNCHANGED <<stored, copies, watermark, mark, todo, history>>

\* (Bug: the catch goes on with the next chunk.)
CreateBatchEmbeddingsContinues(b) ==
  /\ at[b] = "embed"
  /\ todo' = [todo EXCEPT ![b] = @ \ Chunk(b)]
  /\ Goto(b, IF todo[b] \ Chunk(b) = {} THEN "idle" ELSE "pause")
  /\ UNCHANGED <<stored, copies, watermark, mark, history>>

\* The summaries or the model's answer were no good: the loop breaks.
CreateBatchEmbeddingsFails(b) ==
  /\ at[b] = "embed"
  /\ Return(b)
  /\ UNCHANGED <<stored, copies, watermark, history>>

AddCopies(S) ==
  copies' = [l \in Logs |-> IF l \in S /\ copies[l] < Many
                            THEN copies[l] + 1 ELSE copies[l]]

InsertMany(b) ==
  /\ at[b] = "insert"
  /\ AddCopies(Chunk(b))
  /\ Goto(b, "update")
  /\ UNCHANGED <<stored, watermark, mark, todo, history>>

\* insertMany is ordered: when it fails, the first n documents are written.
InsertManyFails(b, n) ==
  /\ at[b] = "insert"
  /\ AddCopies(First(n, Chunk(b)))
  /\ disturbed' = (disturbed \/ n # 0)
  /\ Return(b)
  /\ UNCHANGED <<stored, watermark, late>>

\* updateOne sets the watermark to the last log of the chunk.
SetWatermark(b) ==
  \E last \in Chunk(b) : /\ \A l \in Chunk(b) : l <= last
                         /\ watermark' = last

\* The pause before the next chunk, or the end of the loop.
NextOrReturn(b) ==
  /\ todo' = [todo EXCEPT ![b] = @ \ Chunk(b)]
  /\ Goto(b, IF todo[b] \ Chunk(b) = {} THEN "idle" ELSE "pause")

UpdateWatermark(b) ==
  /\ at[b] = "update"
  /\ SetWatermark(b)
  /\ NextOrReturn(b)
  /\ UNCHANGED <<stored, copies, mark, history>>

\* updateOne rejects: the update was not made, or it was and the answer is lost.
UpdateWatermarkFails(b) ==
  /\ at[b] = "update"
  /\ \/ SetWatermark(b) /\ UNCHANGED disturbed
     \/ UNCHANGED watermark /\ disturbed' = TRUE
  /\ Return(b)
  /\ UNCHANGED <<stored, copies, late>>

NextChunk(b) ==
  /\ at[b] = "pause"
  /\ Goto(b, "embed")
  /\ UNCHANGED <<stored, copies, watermark, mark, todo, history>>

\* The process ends.  A write under way fails or is made before that; a chunk
\* whose watermark was not yet written has been embedded for nothing.
Crash ==
  /\ \E b \in Batches : at[b] # "idle"
  /\ disturbed' = (disturbed \/ \E b \in Batches : at[b] = "update")
  /\ at' = [b \in Batches |-> "idle"]
  /\ mark' = [b \in Batches |-> 0]
  /\ todo' = [b \in Batches |-> {}]
  /\ UNCHANGED <<stored, copies, watermark, late>>

BatchStep(b) ==
  \/ ProcessPendingLogs(b)
  \/ GetWatermark(b)
  \/ GetWatermarkFails(b)
  \/ \E limit \in Limits : FindLogsAfterWatermark(b, limit)
  \/ FindLogsFails(b)
  \/ CreateBatchEmbeddings(b)
  \/ CreateBatchEmbeddingsFails(b)
  \/ InsertMany(b)
  \/ \E n \in 0..ChunkSize : InsertManyFails(b, n)
  \/ UpdateWatermark(b)
  \/ UpdateWatermarkFails(b)
  \/ NextChunk(b)

Next ==
  \/ \E l \in Logs : StoreLog(l)
  \/ \E b \in Batches : BatchStep(b)
  \/ Crash

Spec == Init /\ [][Next]_vars

-----------------------------------------------------------------------------
(* Properties.                                                             *)

\* Batches overlapping, failures and crashes never skip a log: what was stored
\* before any page or watermark went past its place has a copy once the
\* watermark is past it.
NothingSkipped ==
  \A l \in stored \ late : l <= watermark => copies[l] > 0

\* A log is embedded twice only after batches overlapped, a write was torn or
\* the watermark could not be read: batches one after the other, with failures
\* that leave nothing half done, embed each log once.
RepeatsHaveACause ==
  (\E l \in Logs : copies[l] = Many) => disturbed

\* The same for the watermark: undisturbed, it only moves forward.
WatermarkAdvances ==
  [][disturbed' \/ watermark' >= watermark]_vars

\* journals/en/phase3-journal.md:31 "Batch processing without omissions": every
\* log behind the watermark has a copy.
NoOmissions ==
  \A l \in stored : l <= watermark => copies[l] > 0
=============================================================================
