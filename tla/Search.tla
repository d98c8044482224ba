------------------------------- MODULE Search -------------------------------
(***************************************************************************)
(* SearchService.ask() and its three strategies, over the session cache    *)
(* and the semantic cache.  A question loads its history, is prepared      *)
(* (strategy, reformulation, metadata, embedding), searches, is answered   *)
(* from what was found, and updates the session.                           *)
(*                                                                         *)
(* What the language model returns is a choice.  Calls with no shared      *)
(* state between them are one step: Prepare ends with the look-up in the   *)
(* semantic cache, or with the answer when that is a hit; VectorSearch ends *)
(* with the answer.  GET /search/history is an operation on the session    *)
(* that stops after the load.                                              *)
(***************************************************************************)
EXTENDS SessionCache, SemanticCache, Integers, FiniteSets

CONSTANTS
  Logs,          \* wide_events: records of service, route, time and error code
  Questions,     \* the strategies a question has keywords of; does it refer back
  SearchLimit, ContextLimit, RerankLimit,   \* 10, 5 and 5 results
  MaxTurns,      \* 10: the turns kept as they are
  Extractions,   \* what the model may make of a question: its metadata, its
                 \* topic, and the topic of the log it is retold as
  EmbeddedFirst, \* the logs embedded at the start
  Confidences,   \* what the model may state, in tenths (5 for nothing)
  Adjustments,   \* the factor the check of the grounding may state, in tenths
  MaxTroubles    \* bound: the disturbances of the session

ASSUME SearchAssumption ==
  /\ EmbeddedFirst \subseteq Logs
  /\ \A l \in Logs : l.time \in Nat
  /\ \A m \in Metas : m.from \in Nat /\ m.to \in Nat
  /\ \A x \in Extractions : x.meta \in Metas
  /\ Confidences \subseteq Nat /\ Adjustments \subseteq Int
  /\ MaxTurns \in Nat

VARIABLES
  embedded,      \* the logs in wide_events_embedded
  work,          \* how far each question is, with what it knows by then
  before         \* history: the turns that were answered when each was asked

searchVars == <<semantic, embedded, work, before>>
askVars == <<sessionVars, searchVars>>

NotBegun == [stage |-> "begin"]

SearchInit ==
  /\ SessionInit
  /\ SemanticInit
  /\ embedded = EmbeddedFirst
  /\ work = [a \in Asks |-> NotBegun]
  /\ before = [a \in Asks |-> {}]

-----------------------------------------------------------------------------

\* selectStrategy(): the first in the order of priority that finds one of its
\* keywords in the question; the semantic strategy when none does.
Priority == [conversational |-> 100, statistical |-> 20, semantic |-> 10]

SelectStrategy(q) ==
  IF q.keywords = {} THEN {"semantic"}
  ELSE {s \in q.keywords : \A t \in q.keywords : Priority[s] >= Priority[t]}

\* The text the question goes on with.  Only a question that refers back is
\* given to the model, which may write a longer one, one of about its length,
\* one around it, or a translation; when the call fails or answers nothing, the
\* question stays as it was asked.
ReformulateQuery == {"asked", "longer", "reworded", "extended", "translated"}

Reformulations(q, history) ==
  IF history = <<>> \/ ~q.refers THEN {"asked"} ELSE ReformulateQuery

\* A translation is discarded.
SafeText(t) == IF t = "translated" THEN "asked" ELSE t

\* A text that still contains the question, or is not much longer, counts as
\* standing alone.
IsStandalone(t) == t \in {"asked", "extended", "reworded"}

\* What a summary tells of: the model's, of the turns it was given; the one made
\* when the model fails or answers nothing, of none (it counts them).
SummarizeHistory(h) == {Elems(h), {}}

\* The turns a synthesis is given, and those it is told of.  A history that is
\* not compressed is read when the answer is synthesized.
NoContext == [compressed |-> FALSE, summary |-> {}, turns |-> <<>>]
Context(h) == [NoContext EXCEPT !.turns = h]

Latest(h) == IF Len(h) <= MaxTurns THEN h ELSE SubSeq(h, Len(h) - MaxTurns + 1, Len(h))

\* (Bug: the first turns are kept and the later ones summarised.)
CompressFirst(h) ==
  IF Len(h) <= MaxTurns THEN {NoContext}
  ELSE {[compressed |-> TRUE, summary |-> s, turns |-> SubSeq(h, 1, MaxTurns)] :
          s \in SummarizeHistory(SubSeq(h, MaxTurns + 1, Len(h)))}

CompressHistory(h) ==
  IF Len(h) <= MaxTurns THEN {NoContext}
  ELSE {[compressed |-> TRUE, summary |-> s, turns |-> Latest(h)] :
          s \in SummarizeHistory(SubSeq(h, 1, Len(h) - MaxTurns))}

\* What the model finds in the text: nothing, when the call fails.
ExtractMetadata(x) == {x.meta, NoMetadata}

\* The text to be embedded: the question retold as a log, or as it is when the
\* model fails or answers nothing.
TransformQueryToLogStyle(x) == {x.log, x.topic}

InRange(l, m) == (m.from # 0 => l.time >= m.from) /\ (m.to # 0 => l.time <= m.to)
OfService(l, m) == m.service # "null" => l.service = m.service
OfRoute(l, m) == m.route # "null" => l.route = m.route

\* The filter of the aggregation templates.  hasError is always set, and its
\* test of error.code replaces the template's own and that of errorCode.
MatchStage(m) ==
  {l \in Logs : /\ InRange(l, m) /\ OfService(l, m) /\ OfRoute(l, m)
                /\ m.hasError <=> l.code # "null"}

ErrorRate(logs) ==
  [errors |-> Cardinality({l \in logs : l.code # "null"}), total |-> Cardinality(logs)]

\* The templates: those that count by route or by service, and the percentiles,
\* give numbers only, and are one here.
Templates == {"TOP_ERROR_CODES", "NUMBERS", "ERROR_RATE"}

AtMost(n, limit) == IF n < limit THEN n ELSE limit

\* The logs the codes are illustrated with, three of each.  (Codes past the
\* fifth have none; the instances have fewer.)
TopErrorCodes(logs) ==
  {s \in SUBSET logs : \A l \in logs :
     LET alike(t) == Cardinality({o \in t : o.code = l.code})
     IN alike(s) = AtMost(alike(logs), 3)}

ExecuteTemplate(template, m) ==
  IF template = "TOP_ERROR_CODES" THEN TopErrorCodes(MatchStage(m)) ELSE {{}}

\* The template the model chooses, with the metadata of the question.  When the
\* call fails it is TOP_ERROR_CODES, and the times become text.
AnalyzeStatisticalQuery ==
  {[template |-> t, text |-> FALSE] : t \in Templates}
    \cup {[template |-> "TOP_ERROR_CODES", text |-> TRUE]}

\* vectorSearch(): at most limit of the embedded logs of the time range and
\* the service; when there are none of the service, of any service.  Times
\* that are text match nothing.
Nearest(logs, limit) ==
  {s \in SUBSET logs : Cardinality(s) = AtMost(Cardinality(logs), limit)}

VectorResults(w) ==
  LET ranged == {l \in embedded : InRange(l, w.meta)
                                  /\ (w.meta.from # 0 \/ w.meta.to # 0 => ~w.text)}
      ofService == {l \in ranged : OfService(l, w.meta)} IN
  Nearest(IF ofService = {} THEN ranged ELSE ofService, w.limit)

\* The order of the reranking is a choice.
Rerank(found) == Nearest(found, RerankLimit)

\* The logs a semantic answer keeps of those it fetched.
PostFilter(logs, m) ==
  {l \in logs : (m.hasError => l.code # "null")
                /\ (m.errorCode # "null" => l.code = m.errorCode)}

\* An answer with the confidence the model states, or a text that tells of the
\* error.
Synthesize ==
  {[says |-> "answer", confidence |-> c] : c \in Confidences}
    \cup {[says |-> "error", confidence |-> 0]}

\* The verdict on the grounding of a text.  The factor is cut to what a factor
\* may be; a check that fails adjusts by three tenths.
Clamped(x) == IF x < 0 THEN 0 ELSE AtMost(x, 10)

VerifyGrounding ==
  [action : {"KEEP_ANSWER", "REJECT_ANSWER"}, adjustment : {10}]
    \cup [action : {"ADJUST_CONFIDENCE"},
          adjustment : {Clamped(x) : x \in Adjustments} \cup {3}]

\* What becomes of the text: kept, on any other action and when the check throws.
\* (Bug: the factor replaces the confidence.)
VerifiedByFactor(said, v) ==
  IF v.action = "ADJUST_CONFIDENCE" THEN [said EXCEPT !.confidence = v.adjustment]
  ELSE IF v.action = "REJECT_ANSWER" THEN [says |-> "rejected", confidence |-> 0]
  ELSE said

Verified(said, v) ==
  IF v.action = "REJECT_ANSWER" THEN [says |-> "rejected", confidence |-> 0]
  ELSE IF v.action = "ADJUST_CONFIDENCE"
  THEN [said EXCEPT !.confidence =
          AtMost(said.confidence, (said.confidence * v.adjustment) \div 10)]
  ELSE said

-----------------------------------------------------------------------------

\* The question leaves the strategy; only one with a session id is saved.
\* (Bug: every answer is saved.)
FinishSaves(a) == Moves(a, "save", held[a], {})

Finish(a) ==
  Moves(a, IF op[a] = "alone" THEN "done" ELSE "save", held[a], {})

\* Any call of a strategy that throws, and a template the model made up: the
\* controller answers with an error and nothing is saved.
Throws(a) == Moves(a, "failed", held[a], {}) /\ UNCHANGED work

Begins(a) == op[a] \in {"work", "alone"} /\ work[a] = NotBegun
InStrategy == UNCHANGED <<cacheVars, unsaved, embedded, before>>

ReturnHistory(a) ==
  /\ op[a] = "work" /\ work[a] = NotBegun
  /\ Moves(a, "done", held[a], {})
  /\ InStrategy
  /\ UNCHANGED <<semantic, work>>

\* An answer, and what it was made from.
Result(w, said, context, sources) ==
  [stage |-> "answered", intent |-> w.intent, meta |-> w.meta,
   standalone |-> w.standalone, template |-> w.template, context |-> context,
   says |-> said.says, confidence |-> said.confidence, sources |-> sources]

\* No history for a question that stands alone.
SynthesisHistory(a, w) ==
  IF w.standalone THEN NoContext
  ELSE IF w.context.compressed THEN w.context ELSE Context(held[a])

\* Synthesize and verify, with the logs that the answer will name.
Concludes(a, w, sources) ==
  /\ \E said \in Synthesize, v \in VerifyGrounding :
       work' = [work EXCEPT ![a] =
                  Result(w, Verified(said, v), SynthesisHistory(a, w), sources)]
  /\ Finish(a)

\* The best of what was found is fetched and filtered.
AnswersSemantic(a, w, found) ==
  \E top \in Rerank(found) : Concludes(a, w, PostFilter(top, w.meta))

\* The numbers, of which what was found is an illustration only: the answer
\* names the examples of the template.
AnswersStatistical(a, w) ==
  \E examples \in ExecuteTemplate(w.template, w.meta) : Concludes(a, w, examples)

Answers(a, w, found) ==
  \/ Throws(a)
  \/ w.intent = "semantic" /\ AnswersSemantic(a, w, found)
  \/ w.intent = "statistical" /\ AnswersStatistical(a, w)

\* An answer without a model, which is not saved.
EmptyResult(a) == Moves(a, "done", held[a], {}) /\ UNCHANGED work

\* No reformulation and no metadata for the conversational strategy.
BuildConversationalContext ==
  [intent |-> "conversational", meta |-> NoMetadata, standalone |-> TRUE,
   template |-> "none"]

\* Without history it has a fixed answer.  Its other answers come from the last
\* turns of the history, and are not checked.
Conversational(a) ==
  /\ Begins(a)
  /\ \E q \in Questions : "conversational" \in SelectStrategy(q)
  /\ IF held[a] = <<>> THEN EmptyResult(a)
     ELSE /\ \E said \in Synthesize :
               work' = [work EXCEPT ![a] =
                 Result(BuildConversationalContext, said, Context(Latest(held[a])), {})]
          /\ Finish(a)
  /\ InStrategy
  /\ UNCHANGED semantic

\* The look-up that ends the preparation: on a hit there is no search.
LookUp(a, w) ==
  LET hit == CachedResults(w.topic, w.meta) IN
  IF hit = {} THEN work' = [work EXCEPT ![a] = w] /\ UNCHANGED <<op, held, trouble>>
  ELSE Answers(a, w, hit)

\* The context of the question, for its strategy, and the topic of its text.
\* (What became of the history of a question that stands alone is not used.)
Texts(a, q) ==
  UNION {UNION {{[meta |-> m, topic |-> t, standalone |-> IsStandalone(SafeText(r)),
                  context |-> c] :
            m \in ExtractMetadata(x), t \in TransformQueryToLogStyle(x),
            c \in IF IsStandalone(SafeText(r)) THEN {NoContext}
                  ELSE CompressHistory(held[a])} :
         r \in Reformulations(q, held[a])} : x \in Extractions}

BuildQueryContext(a, intent) ==
  {[stage |-> "search", intent |-> intent, meta |-> t.meta, topic |-> t.topic,
    standalone |-> t.standalone, context |-> t.context, template |-> "none",
    text |-> FALSE, limit |-> SearchLimit] :
   t \in UNION {Texts(a, q) : q \in {q \in Questions : intent \in SelectStrategy(q)}}}

PrepareSemantic(a) ==
  /\ Begins(a)
  /\ Throws(a) \/ \E w \in BuildQueryContext(a, "semantic") : LookUp(a, w)
  /\ InStrategy
  /\ UNCHANGED semantic

\* A template that matches something is illustrated with logs, of which few
\* are wanted.
FetchContextLogs(a, w) == LookUp(a, [w EXCEPT !.limit = ContextLimit])

PrepareStatistical(a) ==
  /\ Begins(a)
  /\ \E context \in BuildQueryContext(a, "statistical"), q \in AnalyzeStatisticalQuery :
       LET w == [context EXCEPT !.template = q.template, !.text = q.text] IN
       IF MatchStage(w.meta) = {} THEN Answers(a, w, {}) ELSE FetchContextLogs(a, w)
  /\ InStrategy
  /\ UNCHANGED semantic

\* The search answers, and what it found is cached unless it found nothing.
\* An empty result ends a semantic question.
VectorSearch(a) ==
  LET w == work[a] IN
  /\ w.stage = "search" /\ op[a] \in {"work", "alone"}
  /\ \/ Throws(a) /\ UNCHANGED semantic
     \/ \E found \in VectorResults(w) :
          IF found = {}
          THEN /\ UNCHANGED semantic
               /\ IF w.intent = "semantic" THEN EmptyResult(a)
                  ELSE Answers(a, w, {})
          ELSE SetCachedResults(w.topic, w.meta, found) /\ Answers(a, w, found)
  /\ InStrategy

\* The embedding batch adds a log.
Embed(l) ==
  /\ l \notin embedded
  /\ embedded' = embedded \cup {l}
  /\ UNCHANGED <<sessionVars, semantic, work, before>>

\* With the turn saved, the rest of the question is of the session only.
Forgets(a) ==
  /\ work' = [work EXCEPT ![a] = NotBegun]
  /\ UNCHANGED <<semantic, embedded, before>>

\* A question of the session that comes in notes which of the stored turns were
\* answered by then.
Notes(a) ==
  /\ before' = IF op[a] = "idle" /\ op'[a] # "alone"
               THEN [before EXCEPT ![a] =
                       {t \in Elems(db) : t \in Asks => op[t] = "done"}]
               ELSE before
  /\ UNCHANGED <<semantic, embedded, work>>

Bounded == Cardinality(trouble' \cup unsaved') <= MaxTroubles

AskStep(a) ==
  \/ LoadStep(a) /\ Bounded /\ Notes(a)
  \/ UpdateStep(a) /\ Bounded /\ Forgets(a)
  \/ ReturnHistory(a) \/ Conversational(a)
  \/ PrepareSemantic(a) \/ PrepareStatistical(a) \/ VectorSearch(a)

SearchNext ==
  \/ \E a \in Asks : AskStep(a)
  \/ CacheStep /\ Bounded /\ UNCHANGED searchVars
  \/ \E k \in DOMAIN semantic : Expire(k) /\ UNCHANGED <<sessionVars, embedded, work, before>>
  \/ \E l \in Logs : Embed(l)

SearchSpec == SearchInit /\ [][SearchNext]_askVars
-----------------------------------------------------------------------------

IsAnswered(a) == work[a].stage = "answered"

\* Whatever way the logs came, by a search or from the cache of another
\* question, the sources of an answer pass the question's test of errors and
\* lie in its time range, to the hour for a semantic answer (the cache's key
\* cuts the times to hours) and to the minute for a statistical one.
SourcesFit ==
  \A a \in Asks : IsAnswered(a) =>
    LET m == work[a].meta IN
    \A l \in work[a].sources :
      /\ m.hasError => l.code # "null"
      /\ IF work[a].intent = "statistical" THEN InRange(l, m)
         ELSE /\ m.from # 0 => Hour(l.time) >= Hour(m.from)
              /\ m.to # 0 => Hour(l.time) <= Hour(m.to)

\* A semantic or statistical answer uses the conversation unless its question
\* stands alone.
UsesHistory(a) ==
  IsAnswered(a) /\ (work[a].intent = "conversational" \/ ~work[a].standalone)

\* Nothing has disturbed the session.
Quiet == trouble = {} /\ unsaved = {}

\* What was stored at some moment.
Beginnings(t) == {SubSeq(t, 1, n) : n \in 0..Len(t)}

\* The context is of conversation t: all but its first k turns as they are, and
\* nothing but those in the summary.
IsContext(c, t) ==
  \E k \in 0..Len(t) :
    /\ c.turns = SubSeq(t, k + 1, Len(t))
    /\ c.summary \subseteq Elems(SubSeq(t, 1, k))
    /\ k = 0 \/ Len(t) - k >= MaxTurns

\* Undisturbed, an answer that uses the conversation is made from the
\* conversation as it was stored at one moment since the question came in, which
\* has every turn that had been answered by then, cut to no less than its latest
\* MaxTurns; and a summary tells of older turns only.  So it is although the
\* history may come from the database, the cached entry or an array that others
\* extend, and is cut at another step than it is read.
ContextIsStored ==
  Quiet => \A a \in Asks : UsesHistory(a) =>
    \E t \in Beginnings(db) :
      before[a] \subseteq Elems(t) /\ IsContext(work[a].context, t)

\* No failure is taken for an answer.  A text that tells of a failed synthesis,
\* or that replaces a rejected answer, is saved like an answer, and has no
\* confidence whatever the check of its grounding made of it; and a question
\* that ended in an error has left no turn unless its answer was there and only
\* the session cache failed to take it.
FailuresAreNoAnswers ==
  \A a \in Asks :
    /\ IsAnswered(a) /\ work[a].says # "answer" => work[a].confidence = 0
    /\ op[a] = "failed" /\ a \in Elems(db) => "set" \in trouble

\* Questions and their strategies use the session cache as it is specified:
\* what is proved of SessionCache holds of the search.
ImplementsSession == SessionSpec

\* metric-templates-constants.ts:153 "Calculates the ratio of errors to total
\* requests": the requests of the time range, the service and the route.
ErrorRateIsRatio ==
  \A a \in Asks : IsAnswered(a) /\ work[a].template = "ERROR_RATE" =>
    LET m == work[a].meta IN
    ErrorRate(MatchStage(m)) =
      ErrorRate({l \in Logs : InRange(l, m) /\ OfService(l, m) /\ OfRoute(l, m)})
=============================================================================
