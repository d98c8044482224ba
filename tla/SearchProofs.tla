---------------------------- MODULE SearchProofs ----------------------------
(***************************************************************************)
(* What holds of the session cache for any number of concurrent questions, *)
(* with either adapter and any failures; and that the search uses the      *)
(* cache as SessionCache says, so that all of it holds under ask().  Then   *)
(* of the answers: their sources, what a failure leaves behind, and the    *)
(* conversation they are made from.                                        *)
(***************************************************************************)
EXTENDS Search, SequenceTheorems, TLAPS

-----------------------------------------------------------------------------
(* Types, and the elements of sequences.                                   *)

\* Appending an element adds it to the elements.
LEMMA ElemsOfAppend ==
  ASSUME NEW S, NEW s \in Seq(S), NEW e \in S
  PROVE  Elems(Append(s, e)) = Elems(s) \cup {e}
<1> DEFINE t == Append(s, e)
<1>1. /\ Len(s) \in Nat /\ DOMAIN s = 1..Len(s)
      /\ t \in Seq(S) /\ Len(t) = Len(s) + 1 /\ t[Len(s) + 1] = e
      /\ \A i \in 1..Len(s) : t[i] = s[i]
  BY AppendProperties, LenProperties
<1>2. DOMAIN t = 1..Len(s) + 1
  BY <1>1, LenProperties
<1> HIDE DEF t
<1>3. Elems(t) \subseteq Elems(s) \cup {e}
  BY <1>1, <1>2 DEF Elems
<1>4. Elems(s) \subseteq Elems(t)
  BY <1>1, <1>2 DEF Elems
<1>5. e \in Elems(t)
  BY <1>1, <1>2 DEF Elems
<1> QED
  BY <1>3, <1>4, <1>5 DEF t

LEMMA ElemsOfOne == \A a : Elems(<<a>>) = {a} /\ Elems(<<>>) = {}
BY DEF Elems

\* A move of an operation changes its own place and history only.
LEMMA MovesIsLocal ==
  ASSUME TypeOK, NEW a \in Asks, NEW s, NEW h, NEW new, Moves(a, s, h, new)
  PROVE  /\ op'[a] = s
         /\ held'[a] = IF s \in {"done", "failed"} THEN <<>> ELSE h
         /\ \A b \in Asks : b # a => op'[b] = op[b] /\ held'[b] = held[b]
         /\ trouble \subseteq trouble' /\ new \subseteq trouble'
         /\ Overlap(op') \subseteq trouble'
BY DEF Moves, TypeOK

\* So does the last step in memory, but for those whose array it extends.
LEMMA UpdateIsLocal ==
  ASSUME TypeOK, NEW a \in Asks, Update(a)
  PROVE  /\ op'[a] = "done" /\ held'[a] = <<>>
         /\ \A b \in Asks : b # a =>
              /\ op'[b] = op[b]
              /\ held'[b] \in {held[b], Pushed(a)}
              /\ op[b] \notin {"work", "save"} => held'[b] = held[b]
         /\ trouble \subseteq trouble' /\ Overlap(op') \subseteq trouble'
BY DEF Update, Sharers, TypeOK

LEMMA MovesType ==
  ASSUME TypeOK, NEW a \in Asks, NEW s \in Steps, NEW h \in Seq(Turns),
         NEW new \in SUBSET Troubles, Moves(a, s, h, new)
  PROVE  op' \in [Asks -> Steps] /\ held' \in [Asks -> Seq(Turns)]
         /\ trouble' \subseteq Troubles
<1>1. Overlap(op') \subseteq Troubles
  BY DEF Overlap, Troubles
<1>2. <<>> \in Seq(Turns)
  OBVIOUS
<1> QED
  BY <1>1, <1>2 DEF Moves, TypeOK

\* The new turn goes behind what is cached.
LEMMA PushedType ==
  ASSUME TypeOK, NEW a \in Asks
  PROVE  /\ Pushed(a) \in Seq(Turns) /\ <<a>> \in Seq(Turns)
         /\ Append(db, a) \in Seq(Turns)
<1>1. a \in Turns /\ entry.history \in Seq(Turns) /\ db \in Seq(Turns)
  BY DEF TypeOK, Turns
<1> QED
  BY <1>1 DEF Pushed

LEMMA LoadKeepsType ==
  ASSUME TypeOK, NEW a \in Asks, LoadStep(a)
  PROVE  TypeOK'
<1> USE DEF TypeOK, cacheVars, Steps, Troubles
<1>0. <<>> \in Seq(Turns)
  OBVIOUS
<1>1. CASE GetHits(a)
  BY <1>1, MovesType DEF GetHits
<1>2. CASE GetMisses(a)
  BY <1>0, <1>2, MovesType DEF GetMisses
<1>3. CASE NoSession(a)
  BY <1>0, <1>3, MovesType DEF NoSession
<1>4. CASE Find(a)
  BY <1>4, MovesType DEF Find
<1>5. CASE FindFails(a)
  BY <1>0, <1>5, MovesType DEF FindFails
<1>6. CASE LoadSet(a)
  BY <1>6, MovesType DEF LoadSet, Fresh
<1>7. CASE LoadSetFails(a)
  BY <1>7, MovesType DEF LoadSetFails
<1> QED
  BY <1>1, <1>2, <1>3, <1>4, <1>5, <1>6, <1>7 DEF LoadStep

LEMMA UpdateKeepsType ==
  ASSUME TypeOK, NEW a \in Asks, UpdateStep(a)
  PROVE  TypeOK'
<1> USE DEF TypeOK, cacheVars, Steps, Troubles
<1>0. held[a] \in Seq(Turns)
  OBVIOUS
<1>1. CASE Save(a)
  BY <1>0, <1>1, MovesType, PushedType DEF Save
<1>2. CASE SaveFails(a)
  BY <1>0, <1>2, MovesType DEF SaveFails
<1>3. CASE Update(a)
  <2>1. Pushed(a) \in Seq(Turns) /\ <<>> \in Seq(Turns)
    BY PushedType
  <2>2. entry' \in [history : Seq(Turns), state : {"absent", "fresh", "expired"}]
    BY <1>3, <2>1 DEF Update, Fresh
  <2>3. op' \in [Asks -> Steps] /\ held' \in [Asks -> Seq(Turns)]
    BY <1>3, <2>1 DEF Update
  <2>4. trouble' \subseteq Troubles
    BY <1>3 DEF Update, Overlap
  <2> QED
    BY <1>3, <2>2, <2>3, <2>4 DEF Update
<1>4. CASE UpdateGet(a)
  BY <1>4, MovesType, PushedType DEF UpdateGet
<1>5. CASE UpdateGetFails(a)
  BY <1>5, MovesType, PushedType DEF UpdateGetFails
<1>6. CASE UpdateSet(a)
  BY <1>0, <1>6, MovesType DEF UpdateSet, Fresh
<1>7. CASE UpdateSetFails(a)
  BY <1>0, <1>7, MovesType DEF UpdateSetFails
<1> QED
  BY <1>1, <1>2, <1>3, <1>4, <1>5, <1>6, <1>7 DEF UpdateStep

LEMMA StepKeepsType == TypeOK /\ [SessionNext]_sessionVars => TypeOK'
<1> SUFFICES ASSUME TypeOK, [SessionNext]_sessionVars PROVE TypeOK'
  OBVIOUS
<1>1. ASSUME NEW a \in Asks, LoadStep(a) PROVE TypeOK'
  BY <1>1, LoadKeepsType
<1>2. ASSUME NEW a \in Asks, NEW s \in {"save", "done", "failed"}, Answered(a, s)
      PROVE  TypeOK'
  BY <1>2, MovesType DEF Answered, TypeOK, cacheVars, Steps, Troubles
<1>3. ASSUME NEW a \in Asks, UpdateStep(a) PROVE TypeOK'
  BY <1>3, UpdateKeepsType
<1>4. CASE EntryGoes
  BY <1>4 DEF EntryGoes, Absent, TypeOK, Troubles
<1>5. CASE CacheStep
  BY <1>4, <1>5 DEF CacheStep, TtlPasses, CleanupExpiredSessions, TypeOK
<1>6. CASE UNCHANGED sessionVars
  BY <1>6 DEF sessionVars, cacheVars, TypeOK
<1> QED
  BY <1>1, <1>2, <1>3, <1>5, <1>6 DEF SessionNext

\* Every variable of the session keeps its type.
THEOREM SessionTypeCorrect == SessionSpec => []TypeOK
<1>1. SessionInit => TypeOK
  <2>1. <<>> \in Seq(Turns) /\ <<OldTurn>> \in Seq(Turns)
    BY DEF Turns
  <2>2. Absent \in [history : Seq(Turns), state : {"absent", "fresh", "expired"}]
    BY <2>1 DEF Absent
  <2>3. "idle" \in Steps
    BY DEF Steps
  <2> QED
    BY <2>1, <2>2, <2>3, Zenon DEF SessionInit, TypeOK
<1> QED
  BY <1>1, StepKeepsType, PTL DEF SessionSpec

-----------------------------------------------------------------------------
(* What is cached was saved.                                               *)

Kept == Elems(db) \cup unsaved

\* The strengthening of CachedTurnsWereSaved: an operation holds kept turns
\* only, and its own is kept before it goes to the cache.
TurnsAreKept ==
  /\ CachedTurnsWereSaved
  /\ \A a \in Asks : Elems(held[a]) \subseteq Kept
  /\ \A a \in Asks : op[a] \in {"update", "push"} => a \in Kept

\* A step that forgets no kept turn and takes histories from where they are
\* kept.
LEMMA KeptGrows ==
  ASSUME TypeOK, TurnsAreKept, NEW a \in Asks, NEW s, NEW h, NEW new,
         Moves(a, s, h, new), Kept \subseteq Kept',
         Elems(h) \subseteq Kept', Elems(entry'.history) \subseteq Kept',
         s \in {"update", "push"} => a \in Kept'
  PROVE  TurnsAreKept'
<1>1. \A b \in Asks : Elems(held'[b]) \subseteq Kept'
  BY MovesIsLocal, ElemsOfOne DEF TurnsAreKept
<1>2. \A b \in Asks : op'[b] \in {"update", "push"} => b \in Kept'
  BY MovesIsLocal DEF TurnsAreKept
<1> QED
  BY <1>1, <1>2 DEF TurnsAreKept, CachedTurnsWereSaved, Kept

LEMMA StepKeepsTurns ==
  ASSUME TypeOK, TurnsAreKept, [SessionNext]_sessionVars
  PROVE  TurnsAreKept'
<1>1. /\ Elems(entry.history) \subseteq Kept
      /\ Elems(db) \subseteq Kept /\ Elems(<<>>) \subseteq Kept
      /\ \A a \in Asks : Elems(held[a]) \subseteq Kept
      /\ \A a \in Asks : op[a] \in {"update", "push"} => a \in Kept
  BY ElemsOfOne DEF TurnsAreKept, CachedTurnsWereSaved, Kept
<1>2. \A a \in Asks : Elems(Pushed(a)) \subseteq Elems(entry.history) \cup {a}
  <2>1. entry.history \in Seq(Turns) /\ \A a \in Asks : a \in Turns
    BY DEF TypeOK, Turns
  <2> QED
    BY <2>1, ElemsOfAppend, ElemsOfOne DEF Pushed
<1>3. \A a \in Asks : Elems(Append(db, a)) = Elems(db) \cup {a}
  <2>1. db \in Seq(Turns) /\ \A a \in Asks : a \in Turns
    BY DEF TypeOK, Turns
  <2> QED
    BY <2>1, ElemsOfAppend
<1>4. ASSUME NEW a \in Asks, LoadStep(a)
      PROVE  TurnsAreKept'
  <2> USE <1>1 DEF cacheVars
  <2>1. CASE GetHits(a)
    BY <2>1, KeptGrows DEF GetHits, Kept
  <2>2. CASE GetMisses(a) \/ NoSession(a)
    BY <2>2, KeptGrows DEF GetMisses, NoSession, Kept
  <2>3. CASE Find(a)
    BY <2>3, KeptGrows DEF Find, Kept
  <2>4. CASE FindFails(a)
    BY <2>4, KeptGrows DEF FindFails, Kept
  <2>5. CASE LoadSet(a)
    BY <2>5, KeptGrows DEF LoadSet, Fresh, Kept
  <2>6. CASE LoadSetFails(a)
    BY <2>6, KeptGrows DEF LoadSetFails, Kept
  <2> QED
    BY <1>4, <2>1, <2>2, <2>3, <2>4, <2>5, <2>6 DEF LoadStep
<1>5. ASSUME NEW a \in Asks, UpdateStep(a)
      PROVE  TurnsAreKept'
  <2> USE <1>1 DEF cacheVars
  <2>1. CASE Save(a)
    <3>1. Kept' = Kept \cup {a}
      BY <1>3, <2>1 DEF Save, Kept
    <3> QED
      BY <2>1, <3>1, KeptGrows DEF Save
  <2>2. CASE SaveFails(a)
    BY <2>2, KeptGrows DEF SaveFails, Kept
  <2>3. CASE Update(a)
    <3>1. Kept' = Kept /\ Elems(Pushed(a)) \subseteq Kept /\ entry'.history = Pushed(a)
      BY <1>2, <2>3 DEF Update, Fresh, Kept
    <3>2. \A b \in Asks : Elems(held'[b]) \subseteq Kept
      BY <2>3, <3>1, UpdateIsLocal
    <3>3. \A b \in Asks : op'[b] \in {"update", "push"} => b \in Kept
      BY <2>3, UpdateIsLocal
    <3> QED
      BY <3>1, <3>2, <3>3 DEF TurnsAreKept, CachedTurnsWereSaved, Kept
  <2>4. CASE UpdateGet(a)
    BY <1>2, <2>4, KeptGrows DEF UpdateGet, Kept
  <2>5. CASE UpdateGetFails(a)
    BY <2>5, ElemsOfOne, KeptGrows DEF UpdateGetFails, Kept
  <2>6. CASE UpdateSet(a)
    BY <2>6, KeptGrows DEF UpdateSet, Fresh, Kept
  <2>7. CASE UpdateSetFails(a)
    BY <2>7, KeptGrows DEF UpdateSetFails, Kept
  <2> QED
    BY <1>5, <2>1, <2>2, <2>3, <2>4, <2>5, <2>6, <2>7 DEF UpdateStep
<1>6. ASSUME NEW a \in Asks, NEW s \in {"save", "done", "failed"}, Answered(a, s)
      PROVE  TurnsAreKept'
  BY <1>1, <1>6, KeptGrows DEF Answered, cacheVars, Kept
<1>7. CASE CacheStep
  <2>1. Elems(entry'.history) \subseteq Kept
    <3>1. entry'.history \in {entry.history, <<>>}
      BY <1>7
         DEF CacheStep, TtlPasses, CleanupExpiredSessions, EntryGoes, Absent, TypeOK
    <3> QED
      BY <1>1, <3>1
  <2>2. UNCHANGED <<db, unsaved, held, op>>
    BY <1>7 DEF CacheStep, TtlPasses, CleanupExpiredSessions, EntryGoes
  <2> QED
    BY <1>1, <2>1, <2>2 DEF TurnsAreKept, CachedTurnsWereSaved, Kept
<1>8. CASE UNCHANGED sessionVars
  BY <1>8 DEF sessionVars, cacheVars, TurnsAreKept, CachedTurnsWereSaved, Kept
<1> QED
  BY <1>4, <1>5, <1>6, <1>7, <1>8 DEF SessionNext

\* Whatever fails, expires or overlaps, the cache shows no turn that was not
\* given to save() before.
THEOREM CachedTurnsWereSavedHolds == SessionSpec => []CachedTurnsWereSaved
<1>1. SessionInit => TurnsAreKept
  BY ElemsOfOne DEF SessionInit, TurnsAreKept, CachedTurnsWereSaved, Absent
<1>2. TypeOK /\ TurnsAreKept /\ [SessionNext]_sessionVars => TurnsAreKept'
  BY StepKeepsTurns
<1>3. TurnsAreKept => CachedTurnsWereSaved
  BY DEF TurnsAreKept
<1> QED
  BY <1>1, <1>2, <1>3, SessionTypeCorrect, PTL DEF SessionSpec

-----------------------------------------------------------------------------
(* When nothing disturbs it, the cache is the database.                    *)

Updating(a) == op[a] \in {"update", "push"}
Holding(a)  == op[a] \in {"touch", "fill", "update", "push"}

\* Nobody else is about to write a history while an update is under way.
Apart == \A a, b \in Asks : Updating(a) /\ Holding(b) => a = b

\* The strengthening of CacheIsDatabase.  Between updates the cache, and every
\* history about to be cached, is the database's; a question that has loaded
\* leaves an entry, or nothing was saved yet.  During an update the database
\* is one turn ahead of the cache, and then what is about to be cached.
Synced ==
  /\ Apart
  /\ (\A a \in Asks : ~ Updating(a)) =>
       /\ entry.state # "absent" => entry.history = db
       /\ \A b \in Asks : op[b] \in {"touch", "fill"} => held[b] = db
       /\ \A b \in Asks : op[b] \in {"work", "save"} =>
            entry.state # "absent" \/ db = <<>>
  /\ \A a \in Asks : op[a] = "update" => db = Pushed(a)
  /\ \A a \in Asks : op[a] = "push" => held[a] = db

\* Overlaps are noticed.
LEMMA QuietMoves ==
  ASSUME TypeOK, NEW a \in Asks, NEW s, NEW h, NEW new, Moves(a, s, h, new)
  PROVE  /\ "overlap" \notin trouble' => Apart'
         /\ trouble' = {} => trouble = {} /\ new = {}
<1>1. Overlap(op') # {"overlap"} => \A b \in Updaters(op'), c \in Holders(op') : b = c
  BY DEF Overlap
<1>2. "overlap" \notin trouble' => Overlap(op') # {"overlap"}
  BY MovesIsLocal
<1>3. (\A b \in Updaters(op'), c \in Holders(op') : b = c) => Apart'
  BY DEF Updaters, Holders, Apart, Updating, Holding
<1> QED
  BY <1>1, <1>2, <1>3, MovesIsLocal

\* Overlaps are noticed.
LEMMA QuietUpdates ==
  ASSUME TypeOK, NEW a \in Asks, Update(a), "overlap" \notin trouble'
  PROVE  Apart'
<1>1. Overlap(op') # {"overlap"}
  BY UpdateIsLocal
<1>2. \A b \in Updaters(op'), c \in Holders(op') : b = c
  BY <1>1 DEF Overlap
<1> QED
  BY <1>2 DEF Updaters, Holders, Apart, Updating, Holding

LEMMA LoadKeepsSync ==
  ASSUME TypeOK, Quiet => Synced, NEW a \in Asks, LoadStep(a), Quiet'
  PROVE  Synced'
<1> USE DEF cacheVars
<1>1. PICK s, h, new : s \in Steps /\ Moves(a, s, h, new)
  BY DEF LoadStep, GetHits, GetMisses, NoSession, Find, FindFails, LoadSet,
         LoadSetFails, Steps
<1>2. /\ Apart' /\ trouble = {} /\ new = {}
      /\ UNCHANGED <<db, unsaved>>
  BY <1>1, QuietMoves DEF Quiet, LoadStep, GetHits, GetMisses, NoSession, Find,
     FindFails, LoadSet, LoadSetFails
<1>3. Synced
  BY <1>2 DEF Quiet
<1>4. \A b \in Asks : Pushed(b) = IF entry.state = "absent" THEN <<b>>
                                  ELSE Append(entry.history, b)
  BY DEF Pushed
<1>5. CASE GetHits(a)
  BY <1>2, <1>3, <1>5, MovesIsLocal
     DEF GetHits, Synced, Updating, Pushed
<1>6. CASE GetMisses(a) \/ NoSession(a)
  BY <1>2, <1>3, <1>6, MovesIsLocal
     DEF GetMisses, NoSession, Synced, Updating, Pushed
<1>7. CASE Find(a)
  BY <1>2, <1>3, <1>7, MovesIsLocal DEF Find, Synced, Updating, Pushed
<1>8. CASE FindFails(a)
  <2>1. "find" \in trouble'
    BY <1>8, MovesIsLocal DEF FindFails
  <2> QED
    BY <2>1 DEF Quiet
<1>9. CASE LoadSet(a)
  <2>1. /\ op[a] \in {"touch", "fill"} /\ op'[a] = "work"
        /\ entry' = Fresh(held[a])
        /\ \A b \in Asks : b # a => op'[b] = op[b] /\ held'[b] = held[b]
    BY <1>9, MovesIsLocal DEF LoadSet
  <2>2. \A b \in Asks : ~ Updating(b)
    BY <1>3, <2>1 DEF Synced, Apart, Updating, Holding
  <2>3. held[a] = db
    BY <1>3, <2>1, <2>2 DEF Synced
  <2> QED
    BY <1>2, <1>3, <2>1, <2>2, <2>3 DEF Synced, Updating, Fresh
<1>10. CASE LoadSetFails(a)
  BY <1>2, <1>3, <1>10, MovesIsLocal DEF LoadSetFails, Synced, Updating, Pushed
<1> QED
  BY <1>5, <1>6, <1>7, <1>8, <1>9, <1>10 DEF LoadStep

LEMMA UpdateKeepsSync ==
  ASSUME TypeOK, Quiet => Synced, NEW a \in Asks, UpdateStep(a), Quiet'
  PROVE  Synced'
<1> USE DEF cacheVars
<1>1. CASE Save(a)
  <2>1. /\ op[a] = "save" /\ op'[a] = "update" /\ db' = Append(db, a)
        /\ \A b \in Asks : b # a => op'[b] = op[b] /\ held'[b] = held[b]
        /\ Apart' /\ trouble = {} /\ UNCHANGED <<entry, unsaved>>
    BY <1>1, MovesIsLocal, QuietMoves DEF Save, Quiet
  <2>2. Synced
    BY <2>1 DEF Quiet
  <2>3. \A b \in Asks : b # a => op[b] \notin {"touch", "fill", "update", "push"}
    BY <2>1 DEF Apart, Updating, Holding
  <2>4. entry.state # "absent" => entry.history = db
    BY <2>1, <2>2, <2>3 DEF Synced, Updating
  <2>5. entry.state = "absent" => db = <<>>
    BY <2>1, <2>2, <2>3 DEF Synced, Updating
  <2>6. db' = Pushed(a)'
    <3>1. Append(<<>>, a) = <<a>>
      OBVIOUS
    <3> QED
      BY <2>1, <2>4, <2>5, <3>1 DEF Pushed
  <2> QED
    BY <2>1, <2>3, <2>6 DEF Synced, Updating
<1>2. CASE SaveFails(a)
  BY <1>2 DEF SaveFails, Quiet
<1>3. CASE Update(a)
  <2>1. /\ op[a] = "update" /\ op'[a] = "done" /\ entry' = Fresh(Pushed(a))
        /\ \A b \in Asks : b # a =>
             /\ op'[b] = op[b]
             /\ op[b] \notin {"work", "save"} => held'[b] = held[b]
        /\ Apart' /\ trouble = {} /\ UNCHANGED <<db, unsaved>>
    BY <1>3, UpdateIsLocal, QuietUpdates DEF Update, Quiet
  <2>2. Synced
    BY <2>1 DEF Quiet
  <2>3. \A b \in Asks : b # a => op[b] \notin {"touch", "fill", "update", "push"}
    BY <2>1, <2>2 DEF Synced, Apart, Updating, Holding
  <2>4. db = Pushed(a)
    BY <2>1, <2>2 DEF Synced
  <2> QED
    BY <2>1, <2>3, <2>4 DEF Synced, Updating, Fresh
<1>4. CASE UpdateGet(a)
  <2>1. /\ op[a] = "update" /\ op'[a] = "push" /\ held'[a] = Pushed(a)
        /\ \A b \in Asks : b # a => op'[b] = op[b] /\ held'[b] = held[b]
        /\ Apart' /\ trouble = {} /\ UNCHANGED <<db, entry, unsaved>>
    BY <1>4, MovesIsLocal, QuietMoves DEF UpdateGet, Quiet
  <2>2. Synced
    BY <2>1 DEF Quiet
  <2>3. \A b \in Asks : b # a => op[b] \notin {"update", "push"}
    BY <2>1, <2>2 DEF Synced, Apart, Updating, Holding
  <2>4. db = Pushed(a)
    BY <2>1, <2>2 DEF Synced
  <2> QED
    BY <2>1, <2>3, <2>4 DEF Synced, Updating
<1>5. CASE UpdateGetFails(a)
  BY <1>5, MovesIsLocal DEF UpdateGetFails, Quiet
<1>6. CASE UpdateSet(a)
  <2>1. /\ op[a] = "push" /\ op'[a] = "done" /\ entry' = Fresh(held[a])
        /\ \A b \in Asks : b # a => op'[b] = op[b] /\ held'[b] = held[b]
        /\ Apart' /\ trouble = {} /\ UNCHANGED <<db, unsaved>>
    BY <1>6, MovesIsLocal, QuietMoves DEF UpdateSet, Quiet
  <2>2. Synced
    BY <2>1 DEF Quiet
  <2>3. \A b \in Asks : b # a => op[b] \notin {"touch", "fill", "update", "push"}
    BY <2>1, <2>2 DEF Synced, Apart, Updating, Holding
  <2>4. held[a] = db
    BY <2>1, <2>2 DEF Synced
  <2> QED
    BY <2>1, <2>3, <2>4 DEF Synced, Updating, Fresh
<1>7. CASE UpdateSetFails(a)
  BY <1>7, MovesIsLocal DEF UpdateSetFails, Quiet
<1> QED
  BY <1>1, <1>2, <1>3, <1>4, <1>5, <1>6, <1>7 DEF UpdateStep

LEMMA StepKeepsSync ==
  ASSUME TypeOK, Quiet => Synced, [SessionNext]_sessionVars
  PROVE  (Quiet => Synced)'
<1>1. ASSUME NEW a \in Asks, LoadStep(a) PROVE (Quiet => Synced)'
  BY <1>1, LoadKeepsSync
<1>2. ASSUME NEW a \in Asks, UpdateStep(a) PROVE (Quiet => Synced)'
  BY <1>2, UpdateKeepsSync
<1>3. ASSUME NEW a \in Asks, NEW s \in {"save", "done", "failed"}, Answered(a, s)
      PROVE  (Quiet => Synced)'
  <2> SUFFICES ASSUME Quiet' PROVE Synced'
    OBVIOUS
  <2>1. /\ op[a] \in {"work", "alone"} /\ op'[a] \in {"save", "done", "failed"}
        /\ op'[a] = "save" => op[a] = "work"
        /\ \A b \in Asks : b # a => op'[b] = op[b] /\ held'[b] = held[b]
        /\ Apart' /\ trouble = {} /\ UNCHANGED <<db, entry, unsaved>>
    BY <1>3, MovesIsLocal, QuietMoves DEF Answered, Quiet, cacheVars
  <2>2. Synced
    BY <2>1 DEF Quiet
  <2> QED
    BY <2>1, <2>2 DEF Synced, Updating, Pushed
<1>4. CASE EntryGoes
  <2> SUFFICES ASSUME Quiet' PROVE Synced'
    OBVIOUS
  <2>1. /\ trouble = {} /\ entry' = Absent
        /\ \A a \in Asks : op[a] \notin {"work", "save", "update"}
        /\ UNCHANGED <<db, op, held, unsaved>>
    BY <1>4 DEF EntryGoes, Quiet
  <2>2. Synced
    BY <2>1 DEF Quiet
  <2> QED
    BY <2>1, <2>2 DEF Synced, Apart, Updating, Holding, Absent
<1>5. CASE /\ entry.state = "fresh" /\ entry' = [entry EXCEPT !.state = "expired"]
           /\ UNCHANGED <<adapter, db, op, held, unsaved, trouble>>
  <2>1. /\ entry'.history = entry.history
        /\ entry'.state # "absent" /\ entry.state # "absent"
    BY <1>5 DEF TypeOK
  <2> QED
    BY <1>5, <2>1 DEF Quiet, Synced, Apart, Updating, Holding, Pushed
<1>6. CASE UNCHANGED sessionVars
  BY <1>6 DEF sessionVars, cacheVars, Quiet, Synced, Apart, Updating, Holding, Pushed
<1> QED
  BY <1>1, <1>2, <1>3, <1>4, <1>5, <1>6
     DEF SessionNext, CacheStep, TtlPasses, CleanupExpiredSessions

\* Undisturbed, any number of questions and reads of one session leave the
\* cache equal to the database, with either adapter.
THEOREM CacheIsDatabaseHolds == SessionSpec => []CacheIsDatabase
<1>1. SessionInit => (Quiet => Synced)
  BY DEF SessionInit, Synced, Apart, Updating, Holding, Absent
<1>2. TypeOK /\ (Quiet => Synced) /\ [SessionNext]_sessionVars => (Quiet => Synced)'
  BY StepKeepsSync
<1>3. (Quiet => Synced) => CacheIsDatabase
  BY DEF Quiet, Synced, CacheIsDatabase, Updaters, Updating
<1> QED
  BY <1>1, <1>2, <1>3, SessionTypeCorrect, PTL DEF SessionSpec

-----------------------------------------------------------------------------
(* Without an overlap no turn is cached twice.                             *)

Unrepeated(s) == \A i, j \in 1..Len(s) : s[i] = s[j] => i = j

\* A new element repeats nothing.
LEMMA AppendUnrepeated ==
  ASSUME NEW S, NEW s \in Seq(S), NEW e \in S, Unrepeated(s), e \notin Elems(s)
  PROVE  Unrepeated(Append(s, e))
<1> DEFINE t == Append(s, e)
<1>1. /\ Len(s) \in Nat /\ DOMAIN s = 1..Len(s)
      /\ Len(t) = Len(s) + 1 /\ t[Len(s) + 1] = e
      /\ \A i \in 1..Len(s) : t[i] = s[i]
  BY AppendProperties, LenProperties
<1>2. \A i \in 1..Len(s) : s[i] # e
  BY <1>1 DEF Elems
<1> HIDE DEF t
<1>3. SUFFICES ASSUME NEW i \in 1..Len(t), NEW j \in 1..Len(t), t[i] = t[j]
               PROVE  i = j
  BY DEF Unrepeated, t
<1>4. CASE i \in 1..Len(s) /\ j \in 1..Len(s)
  BY <1>1, <1>3, <1>4 DEF Unrepeated
<1>5. CASE i = Len(s) + 1 \/ j = Len(s) + 1
  BY <1>1, <1>2, <1>3, <1>5
<1> QED
  BY <1>1, <1>4, <1>5

\* The operation has not saved its turn; it has not cached it.
Unfinished(a) == op[a] \in {"idle", "find", "touch", "fill", "alone", "work", "save"}
Uncached(a)   == Unfinished(a) \/ op[a] = "update"

\* A history that is cached, or will be, and does not have the turns to come.
Ready(h) == Unrepeated(h) /\ \A a \in Asks : Uncached(a) => a \notin Elems(h)

\* The strengthening of RepeatsNeedOverlap.
Once ==
  /\ Apart
  /\ Unrepeated(db)
  /\ \A a \in Asks : Unfinished(a) => a \notin Elems(db)
  /\ Ready(entry.history)
  /\ \A b \in Asks : op[b] \in {"touch", "fill", "push"} => Ready(held[b])

Disjoint == "overlap" \notin trouble

\* The same after a step.
ReadyNext(h) == Unrepeated(h) /\ \A a \in Asks : Uncached(a)' => a \notin Elems(h)

LEMMA OnceAfter ==
  ASSUME Apart', Unrepeated(db'),
         \A a \in Asks : Unfinished(a)' => a \notin Elems(db'),
         ReadyNext(entry'.history),
         \A b \in Asks : op'[b] \in {"touch", "fill", "push"} => ReadyNext(held'[b])
  PROVE  Once'
<1>1. /\ Unrepeated(entry'.history)
      /\ \A a \in Asks : Uncached(a)' => a \notin Elems(entry'.history)
  BY DEF ReadyNext
<1>2. \A b \in Asks : op'[b] \in {"touch", "fill", "push"} =>
        /\ Unrepeated(held'[b])
        /\ \A a \in Asks : Uncached(a)' => a \notin Elems(held'[b])
  BY DEF ReadyNext
<1>3. Ready(entry.history)'
  BY <1>1 DEF Ready, Unrepeated, Elems
<1>4. \A b \in Asks : (op[b] \in {"touch", "fill", "push"} => Ready(held[b]))'
  BY <1>2 DEF Ready, Unrepeated, Elems
<1>5. Unrepeated(db)' /\ \A a \in Asks : (Unfinished(a) => a \notin Elems(db))'
  BY DEF Unrepeated, Elems
<1> QED
  BY <1>3, <1>4, <1>5 DEF Once

\* A step of operation a that saves nothing, caches a history that is ready or
\* leaves the cache alone, and gives a what is ready.
LEMMA OnceGoesOn ==
  ASSUME TypeOK, Once, NEW a \in Asks, NEW s, NEW h, NEW new,
         Moves(a, s, h, new), Disjoint', db' = db,
         Unfinished(a)' => Unfinished(a), Uncached(a)' => Uncached(a),
         ReadyNext(entry'.history),
         s \in {"touch", "fill", "push"} => ReadyNext(h)
  PROVE  Once'
<1>1. /\ Apart'
      /\ \A b \in Asks : b # a => op'[b] = op[b] /\ held'[b] = held[b]
      /\ op'[a] = s /\ (s \in {"touch", "fill", "push"} => held'[a] = h)
  BY MovesIsLocal, QuietMoves DEF Disjoint
<1>2. \A b \in Asks : /\ Unfinished(b)' => Unfinished(b)
                      /\ Uncached(b)' => Uncached(b)
  BY <1>1 DEF Unfinished, Uncached
<1>3. \A b \in Asks : Unfinished(b)' => b \notin Elems(db')
  BY <1>2 DEF Once
<1>4. ASSUME NEW b \in Asks, op'[b] \in {"touch", "fill", "push"}
      PROVE  ReadyNext(held'[b])
  <2>1. CASE b = a
    BY <1>1, <1>4, <2>1
  <2>2. CASE b # a
    <3>1. Ready(held[b]) /\ held'[b] = held[b]
      BY <1>1, <1>4, <2>2 DEF Once
    <3> QED
      BY <1>2, <3>1 DEF Ready, ReadyNext
  <2> QED
    BY <2>1, <2>2
<1>5. Unrepeated(db')
  BY DEF Once
<1> QED
  BY <1>1, <1>3, <1>4, <1>5, OnceAfter

\* Nothing is less ready by a step of an operation.
LEMMA ReadyGoesOn ==
  ASSUME NEW h, Ready(h), \A a \in Asks : Uncached(a)' => Uncached(a)
  PROVE  ReadyNext(h)
BY DEF Ready, ReadyNext

\* What a caches is ready when it has not cached its turn before.
LEMMA PushedIsReady ==
  ASSUME TypeOK, Once, NEW a \in Asks, Uncached(a), ~ Uncached(a)',
         \A b \in Asks : Uncached(b)' => Uncached(b)
  PROVE  ReadyNext(Pushed(a)) /\ ReadyNext(<<a>>)
<1>1. /\ entry.history \in Seq(Turns) /\ a \in Turns
      /\ Unrepeated(entry.history) /\ a \notin Elems(entry.history)
      /\ \A b \in Asks : Uncached(b) => b \notin Elems(entry.history)
  BY DEF TypeOK, Turns, Once, Ready
<1>2. Unrepeated(<<a>>) /\ Elems(<<a>>) = {a}
  BY ElemsOfOne DEF Unrepeated
<1>3. /\ Unrepeated(Append(entry.history, a))
      /\ Elems(Append(entry.history, a)) = Elems(entry.history) \cup {a}
  BY <1>1, AppendUnrepeated, ElemsOfAppend
<1>4. ReadyNext(<<a>>)
  BY <1>2 DEF ReadyNext
<1>5. ReadyNext(Append(entry.history, a))
  BY <1>1, <1>3 DEF ReadyNext
<1> QED
  BY <1>4, <1>5 DEF Pushed

LEMMA LoadKeepsOnce ==
  ASSUME TypeOK, Once, NEW a \in Asks, LoadStep(a), Disjoint'
  PROVE  Once'
<1> USE DEF cacheVars
<1>1. /\ op[a] \in {"idle", "find", "touch", "fill"}
      /\ \A b \in Asks : b # a => op'[b] = op[b]
      /\ db' = db
  BY MovesIsLocal DEF LoadStep, GetHits, GetMisses, NoSession, Find, FindFails,
     LoadSet, LoadSetFails
<1>2. Uncached(a) /\ Unfinished(a)
  BY <1>1 DEF Uncached, Unfinished
<1>3. \A b \in Asks : Uncached(b)' => Uncached(b)
  BY <1>1, <1>2 DEF Uncached, Unfinished
<1>4. ReadyNext(entry.history)
  BY <1>3, ReadyGoesOn DEF Once
<1>5. CASE GetHits(a)
  BY <1>1, <1>2, <1>4, <1>5, OnceGoesOn DEF GetHits
<1>6. CASE GetMisses(a) \/ NoSession(a) \/ FindFails(a)
  BY <1>1, <1>2, <1>4, <1>6, OnceGoesOn DEF GetMisses, NoSession, FindFails
<1>7. CASE Find(a)
  <2>1. ASSUME op'[a] = "fill" PROVE ReadyNext(db)
    <3>1. Apart'
      BY <1>7, QuietMoves DEF Find, Disjoint
    <3>2. \A b \in Asks : op'[b] # "update"
      BY <2>1, <3>1 DEF Apart, Updating, Holding
    <3>3. \A b \in Asks : Uncached(b)' => Unfinished(b)
      BY <1>1, <1>2, <3>2 DEF Uncached, Unfinished
    <3> QED
      BY <3>3 DEF ReadyNext, Once
  <2>2. op'[a] \in {"work", "fill"}
    BY <1>7, MovesIsLocal DEF Find
  <2> QED
    BY <1>1, <1>2, <1>4, <1>7, <2>1, <2>2, OnceGoesOn, MovesIsLocal DEF Find
<1>8. CASE LoadSet(a)
  <2>1. ReadyNext(held[a])
    BY <1>3, <1>8, ReadyGoesOn DEF LoadSet, Once
  <2>2. entry'.history = held[a]
    BY <1>8 DEF LoadSet, Fresh
  <2> QED
    BY <1>1, <1>2, <1>8, <2>1, <2>2, OnceGoesOn DEF LoadSet
<1>9. CASE LoadSetFails(a)
  BY <1>1, <1>2, <1>4, <1>9, OnceGoesOn DEF LoadSetFails
<1> QED
  BY <1>5, <1>6, <1>7, <1>8, <1>9 DEF LoadStep

LEMMA SaveKeepsOnce ==
  ASSUME TypeOK, Once, NEW a \in Asks, Save(a), Disjoint'
  PROVE  Once'
<1>1. /\ Apart' /\ op[a] = "save" /\ op'[a] = "update"
      /\ \A b \in Asks : b # a => op'[b] = op[b] /\ held'[b] = held[b]
      /\ db' = Append(db, a) /\ entry' = entry
  BY MovesIsLocal, QuietMoves DEF Save, Disjoint
<1>2. /\ db \in Seq(Turns) /\ a \in Turns
      /\ Unrepeated(db) /\ a \notin Elems(db)
  BY <1>1 DEF TypeOK, Turns, Once, Unfinished
<1>3. Unrepeated(db') /\ Elems(db') = Elems(db) \cup {a}
  BY <1>1, <1>2, AppendUnrepeated, ElemsOfAppend
<1>4. \A b \in Asks : /\ Unfinished(b)' => Unfinished(b) /\ b # a
                      /\ Uncached(b)' => Uncached(b)
  BY <1>1 DEF Unfinished, Uncached
<1>5. \A b \in Asks : Unfinished(b)' => b \notin Elems(db')
  BY <1>3, <1>4 DEF Once
<1>6. ReadyNext(entry'.history)
  BY <1>1, <1>4, ReadyGoesOn DEF Once
<1>7. \A b \in Asks : op'[b] \in {"touch", "fill", "push"} => ReadyNext(held'[b])
  BY <1>1, <1>4, ReadyGoesOn DEF Once
<1> QED
  BY <1>1, <1>3, <1>5, <1>6, <1>7, OnceAfter

LEMMA UpdateKeepsOnce ==
  ASSUME TypeOK, Once, NEW a \in Asks, UpdateStep(a), ~ Save(a), Disjoint'
  PROVE  Once'
<1> USE DEF cacheVars
<1>1. /\ op[a] \in {"save", "update", "push"}
      /\ op[a] # "save" => op'[a] \in {"push", "done", "failed"}
      /\ op[a] = "save" => op'[a] = "update"
      /\ \A b \in Asks : b # a => op'[b] = op[b]
      /\ db' = db
  BY MovesIsLocal, UpdateIsLocal DEF UpdateStep, SaveFails, Update, UpdateGet,
     UpdateGetFails, UpdateSet, UpdateSetFails
<1>2. /\ ~ Unfinished(a)'
      /\ Uncached(a)' => Uncached(a)
      /\ op[a] = "update" => Uncached(a) /\ ~ Uncached(a)'
  BY <1>1 DEF Uncached, Unfinished
<1>3. \A b \in Asks : Uncached(b)' => Uncached(b)
  BY <1>1, <1>2 DEF Uncached, Unfinished
<1>4. ReadyNext(entry.history)
  BY <1>3, ReadyGoesOn DEF Once
<1>5. CASE SaveFails(a) \/ UpdateSetFails(a)
  BY <1>1, <1>2, <1>4, <1>5, OnceGoesOn DEF SaveFails, UpdateSetFails
<1>6. CASE Update(a)
  <2>1. op[a] = "update" /\ entry'.history = Pushed(a)
    BY <1>6 DEF Update, Fresh
  <2>2. ReadyNext(entry'.history)
    BY <1>2, <1>3, <2>1, PushedIsReady
  <2>3. Apart' /\ Unrepeated(db')
    BY <1>1, <1>6, QuietUpdates DEF Disjoint, Once
  <2>4. \A b \in Asks : Unfinished(b)' => b \notin Elems(db')
    BY <1>1, <1>2 DEF Once, Unfinished
  <2>5. \A b \in Asks : op'[b] \in {"touch", "fill", "push"} => ReadyNext(held'[b])
    <3>1. ASSUME NEW b \in Asks, op'[b] \in {"touch", "fill", "push"}
          PROVE  ReadyNext(held'[b])
      <4>1. b # a /\ op[b] = op'[b] /\ held'[b] = held[b]
        BY <1>6, <3>1, UpdateIsLocal
      <4> QED
        BY <1>3, <3>1, <4>1, ReadyGoesOn DEF Once
    <3> QED
      BY <3>1
  <2> QED
    BY <2>2, <2>3, <2>4, <2>5, OnceAfter
<1>7. CASE UpdateGet(a) \/ UpdateGetFails(a)
  <2>1. ReadyNext(Pushed(a)) /\ ReadyNext(<<a>>)
    BY <1>2, <1>3, <1>7, PushedIsReady DEF UpdateGet, UpdateGetFails
  <2> QED
    BY <1>1, <1>2, <1>4, <1>7, <2>1, OnceGoesOn DEF UpdateGet, UpdateGetFails
<1>8. CASE UpdateSet(a)
  <2>1. op[a] = "push" /\ entry'.history = held[a]
    BY <1>8 DEF UpdateSet, Fresh
  <2>2. ReadyNext(entry'.history)
    BY <1>3, <2>1, ReadyGoesOn DEF Once
  <2> QED
    BY <1>1, <1>2, <1>8, <2>2, OnceGoesOn DEF UpdateSet
<1> QED
  BY <1>5, <1>6, <1>7, <1>8 DEF UpdateStep

LEMMA StepKeepsOnce ==
  ASSUME TypeOK, Disjoint => Once, [SessionNext]_sessionVars
  PROVE  (Disjoint => Once)'
<1> SUFFICES ASSUME Disjoint' PROVE Once'
  OBVIOUS
<1> USE DEF cacheVars
<1>1. Once
  <2>1. ASSUME NEW a \in Asks, NEW s, NEW h, NEW new, Moves(a, s, h, new)
        PROVE  trouble \subseteq trouble'
    BY <2>1, MovesIsLocal
  <2>2. trouble \subseteq trouble'
    BY <2>1
       DEF SessionNext, LoadStep, GetHits, GetMisses, NoSession, Find, FindFails,
           LoadSet, LoadSetFails, Answered, UpdateStep, Save, SaveFails, Update,
           UpdateGet, UpdateGetFails, UpdateSet, UpdateSetFails, CacheStep,
           TtlPasses, CleanupExpiredSessions, EntryGoes, sessionVars
  <2> QED
    BY <2>2 DEF Disjoint
<1>2. ASSUME NEW a \in Asks, LoadStep(a) PROVE Once'
  BY <1>1, <1>2, LoadKeepsOnce
<1>3. ASSUME NEW a \in Asks, UpdateStep(a) PROVE Once'
  BY <1>1, <1>3, SaveKeepsOnce, UpdateKeepsOnce
<1>4. ASSUME NEW a \in Asks, NEW s \in {"save", "done", "failed"}, Answered(a, s)
      PROVE  Once'
  <2>1. /\ op[a] \in {"work", "alone"} /\ op'[a] \in {"save", "done", "failed"}
        /\ \A b \in Asks : b # a => op'[b] = op[b]
        /\ UNCHANGED <<db, entry>>
    BY <1>4, MovesIsLocal DEF Answered
  <2>2. /\ Unfinished(a)
        /\ \A b \in Asks : Uncached(b)' => Uncached(b)
    BY <2>1 DEF Unfinished, Uncached
  <2>3. ReadyNext(entry'.history)
    BY <1>1, <2>1, <2>2, ReadyGoesOn DEF Once
  <2> QED
    BY <1>1, <1>4, <2>1, <2>2, <2>3, OnceGoesOn DEF Answered
<1>5. CASE CacheStep
  <2>1. /\ UNCHANGED <<db, op, held>>
        /\ entry'.history \in {entry.history, <<>>}
    BY <1>5
       DEF CacheStep, TtlPasses, CleanupExpiredSessions, EntryGoes, Absent, TypeOK
  <2>2. Apart' /\ \A a \in Asks : Uncached(a)' <=> Uncached(a)
    BY <1>1, <2>1 DEF Once, Apart, Updating, Holding, Uncached, Unfinished
  <2>3. ReadyNext(entry.history) /\ ReadyNext(<<>>)
    BY <1>1, <2>2, ElemsOfOne DEF Once, Ready, ReadyNext, Unrepeated
  <2>4. \A a \in Asks : op'[a] \in {"touch", "fill", "push"} => ReadyNext(held'[a])
    BY <1>1, <2>1, <2>2, ReadyGoesOn DEF Once
  <2>5. Unrepeated(db') /\ \A a \in Asks : Unfinished(a)' => a \notin Elems(db')
    BY <1>1, <2>1 DEF Once, Unfinished
  <2> QED
    BY <2>1, <2>2, <2>3, <2>4, <2>5, OnceAfter
<1>6. CASE UNCHANGED sessionVars
  BY <1>1, <1>6 DEF sessionVars, Once, Apart, Updating, Holding, Uncached, Unfinished,
     Ready, Unrepeated, Elems
<1> QED
  BY <1>2, <1>3, <1>4, <1>5, <1>6 DEF SessionNext

\* Failures and expiry may cost the cache turns; only an update that overlapped
\* with another access can make it repeat one.
THEOREM RepeatsNeedOverlapHolds == SessionSpec => []RepeatsNeedOverlap
<1>1. SessionInit => (Disjoint => Once)
  <2> SUFFICES ASSUME SessionInit PROVE Once
    OBVIOUS
  <2>1. /\ \A a \in Asks : op[a] = "idle"
        /\ entry.history = <<>>
        /\ db = <<>> \/ db = <<OldTurn>>
    BY DEF SessionInit, Absent
  <2>2. Apart
    BY <2>1 DEF Apart, Updating, Holding
  <2>3. Ready(<<>>)
    BY ElemsOfOne DEF Ready, Unrepeated
  <2>4. Unrepeated(db) /\ \A a \in Asks : a \notin Elems(db)
    BY <2>1, ElemsOfOne, TurnsAssumption DEF Unrepeated
  <2> QED
    BY <2>1, <2>2, <2>3, <2>4 DEF Once
<1>2. TypeOK /\ (Disjoint => Once) /\ [SessionNext]_sessionVars => (Disjoint => Once)'
  BY StepKeepsOnce
<1>3. (Disjoint => Once) => RepeatsNeedOverlap
  BY DEF Disjoint, Once, Ready, Unrepeated, RepeatsNeedOverlap
<1> QED
  BY <1>1, <1>2, <1>3, SessionTypeCorrect, PTL DEF SessionSpec

-----------------------------------------------------------------------------
(* The search and the session cache.                                       *)

\* What a strategy does is an answer of the operation, or nothing to it.
LEMMA AnswersIsAnswered ==
  ASSUME NEW a \in Asks, Begins(a) \/ op[a] \in {"work", "alone"},
         UNCHANGED <<cacheVars, unsaved>>,
         \/ Finish(a) \/ Moves(a, "failed", held[a], {}) \/ Moves(a, "done", held[a], {})
         \/ UNCHANGED <<op, held, trouble>>
  PROVE  [SessionNext]_sessionVars
<1>1. CASE Finish(a)
  <2>1. Answered(a, "save")
    BY <1>1 DEF Finish, Answered, Begins
  <2> QED
    BY <2>1 DEF SessionNext
<1>2. CASE Moves(a, "failed", held[a], {})
  <2>1. Answered(a, "failed")
    BY <1>2 DEF Answered, Begins
  <2> QED
    BY <2>1 DEF SessionNext
<1>3. CASE Moves(a, "done", held[a], {})
  <2>1. Answered(a, "done")
    BY <1>3 DEF Answered, Begins
  <2> QED
    BY <2>1 DEF SessionNext
<1>4. CASE UNCHANGED <<op, held, trouble>>
  BY <1>4 DEF sessionVars
<1> QED
  BY <1>1, <1>2, <1>3, <1>4

LEMMA AnswersMoves ==
  ASSUME NEW a \in Asks, NEW w, NEW found, Answers(a, w, found)
  PROVE  Finish(a) \/ Moves(a, "failed", held[a], {})
BY DEF Answers, Throws, AnswersSemantic, AnswersStatistical, Concludes

LEMMA StepIsSessionStep ==
  ASSUME [SearchNext]_askVars
  PROVE  [SessionNext]_sessionVars
<1> USE DEF InStrategy
<1>1. ASSUME NEW a \in Asks, LoadStep(a) \/ UpdateStep(a)
      PROVE  SessionNext
  BY <1>1 DEF SessionNext
<1>2. ASSUME NEW a \in Asks, ReturnHistory(a)
      PROVE  [SessionNext]_sessionVars
  BY <1>2, AnswersIsAnswered DEF ReturnHistory
<1>3. ASSUME NEW a \in Asks, Conversational(a)
      PROVE  [SessionNext]_sessionVars
  BY <1>3, AnswersIsAnswered DEF Conversational, EmptyResult
<1>4. ASSUME NEW a \in Asks, PrepareSemantic(a)
      PROVE  [SessionNext]_sessionVars
  BY <1>4, AnswersIsAnswered, AnswersMoves DEF PrepareSemantic, Throws, LookUp
<1>5. ASSUME NEW a \in Asks, PrepareStatistical(a)
      PROVE  [SessionNext]_sessionVars
  BY <1>5, AnswersIsAnswered, AnswersMoves
     DEF PrepareStatistical, FetchContextLogs, LookUp
<1>6. ASSUME NEW a \in Asks, VectorSearch(a)
      PROVE  [SessionNext]_sessionVars
  BY <1>6, AnswersIsAnswered, AnswersMoves DEF VectorSearch, Throws, EmptyResult
<1>7. CASE CacheStep
  BY <1>7 DEF SessionNext
<1>8. CASE UNCHANGED sessionVars
  BY <1>8
<1>9. CASE UNCHANGED askVars
  BY <1>9 DEF askVars
<1> QED
  BY <1>1, <1>2, <1>3, <1>4, <1>5, <1>6, <1>7, <1>8, <1>9
     DEF SearchNext, AskStep, Embed

\* ask() and getChatHistory() use the session cache as SessionCache describes,
\* whatever the strategies do in between.
THEOREM SearchImplementsSession == SearchSpec => ImplementsSession
<1>1. SearchInit => SessionInit
  BY DEF SearchInit
<1> QED
  BY <1>1, StepIsSessionStep, PTL DEF SearchSpec, SessionSpec, ImplementsSession

\* So the three properties of the cache hold under the search.
THEOREM SessionIsSafe ==
  SearchSpec => [](TypeOK /\ CachedTurnsWereSaved /\ CacheIsDatabase /\ RepeatsNeedOverlap)
BY SearchImplementsSession, SessionTypeCorrect, CachedTurnsWereSavedHolds,
   CacheIsDatabaseHolds, RepeatsNeedOverlapHolds, PTL DEF ImplementsSession

-----------------------------------------------------------------------------
(* Answers.                                                                *)

\* The log lies in the time range, to the hour.
HourFits(l, m) ==
  /\ m.from # 0 => Hour(l.time) >= Hour(m.from)
  /\ m.to # 0 => Hour(l.time) <= Hour(m.to)

SourceFits(l, r) ==
  /\ r.meta.hasError => l.code # "null"
  /\ IF r.intent = "statistical" THEN InRange(l, r.meta) ELSE HourFits(l, r.meta)

\* Only what the model answered has confidence.
Marked(r) == r.says # "answer" => r.confidence = 0

GoodAnswer(r) ==
  /\ r.stage = "answered"
  /\ \A l \in r.sources : SourceFits(l, r)
  /\ Marked(r)

\* What is in range is in range to the hour.
LEMMA RangeFitsHour ==
  ASSUME NEW l \in Logs, NEW m \in Metas, InRange(l, m)
  PROVE  HourFits(l, m)
<1>1. l.time \in Nat /\ m.from \in Nat /\ m.to \in Nat
  BY SearchAssumption
<1>2. \A x, y \in Nat : x <= y => x \div 60 <= y \div 60
  OBVIOUS
<1>3. \A x \in Nat : x \div 60 \in Nat
  OBVIOUS
<1>4. m.from # 0 => Hour(l.time) >= Hour(m.from)
  <2>1. SUFFICES ASSUME m.from # 0 PROVE Hour(l.time) >= Hour(m.from)
    OBVIOUS
  <2>2. l.time >= m.from /\ l.time # 0
    BY <1>1, <2>1 DEF InRange
  <2>3. m.from \div 60 <= l.time \div 60
    BY <1>1, <1>2, <2>2
  <2> QED
    BY <1>1, <1>3, <2>1, <2>2, <2>3 DEF Hour
<1>5. m.to # 0 => Hour(l.time) <= Hour(m.to)
  <2>1. SUFFICES ASSUME m.to # 0 PROVE Hour(l.time) <= Hour(m.to)
    OBVIOUS
  <2>2. l.time <= m.to
    BY <2>1 DEF InRange
  <2>3. l.time \div 60 <= m.to \div 60
    BY <1>1, <1>2, <2>2
  <2> QED
    BY <1>1, <1>3, <2>1, <2>2, <2>3 DEF Hour
<1> QED
  BY <1>4, <1>5 DEF HourFits

\* Metadata with the same key have the same hours.
LEMMA KeyHasHours ==
  ASSUME NEW m \in Metas, NEW n \in Metas, CacheKey(m) = CacheKey(n),
         NEW l, HourFits(l, m)
  PROVE  HourFits(l, n)
<1>1. Hour(m.from) = Hour(n.from) /\ Hour(m.to) = Hour(n.to)
  BY DEF CacheKey
<1>2. \A t \in Nat : t = 0 <=> Hour(t) = 0
  <2>1. \A x \in Nat : x \div 60 \in Nat
    OBVIOUS
  <2> QED
    BY <2>1 DEF Hour
<1>3. m.from \in Nat /\ m.to \in Nat /\ n.from \in Nat /\ n.to \in Nat
  BY SearchAssumption
<1> QED
  BY <1>1, <1>2, <1>3 DEF HourFits

\* No verdict gives confidence to what has none.
LEMMA VerifiedIsMarked ==
  ASSUME NEW said \in Synthesize, NEW v \in VerifyGrounding
  PROVE  Marked(said) /\ Marked(Verified(said, v))
<1>1. Marked(said) /\ said.confidence \in Nat /\ said.says \in {"answer", "error"}
  BY SearchAssumption DEF Synthesize, Marked
<1>2. v.adjustment \in 0..10
  BY SearchAssumption DEF VerifyGrounding, Clamped, AtMost
<1>3. DOMAIN said = {"says", "confidence"}
  BY DEF Synthesize
<1>4. CASE v.action = "REJECT_ANSWER"
  BY <1>1, <1>4 DEF Verified, Marked
<1>5. CASE v.action = "ADJUST_CONFIDENCE"
  <2> DEFINE c == AtMost(said.confidence, (said.confidence * v.adjustment) \div 10)
  <2>1. said.confidence = 0 => c = 0
    <3>1. \A x \in 0..10 : 0 * x = 0
      OBVIOUS
    <3>2. 0 \div 10 = 0
      OBVIOUS
    <3> QED
      BY <1>2, <3>1, <3>2 DEF AtMost
  <2> HIDE DEF c
  <2>2. Verified(said, v) = [said EXCEPT !.confidence = c]
    BY <1>5 DEF Verified, c
  <2>3. Verified(said, v).says = said.says /\ Verified(said, v).confidence = c
    BY <1>3, <2>2
  <2> QED
    BY <1>1, <2>1, <2>3 DEF Marked
<1>6. CASE v.action \notin {"REJECT_ANSWER", "ADJUST_CONFIDENCE"}
  BY <1>1, <1>6 DEF Verified
<1> QED
  BY <1>1, <1>4, <1>5, <1>6

\* The record of an answer is good when its sources are.
LEMMA ResultIsGood ==
  ASSUME NEW w, NEW said, Marked(said), NEW context, NEW sources,
         \A l \in sources : SourceFits(l, w)
  PROVE  GoodAnswer(Result(w, said, context, sources))
BY DEF Result, GoodAnswer, Marked, SourceFits

\* The records that work may hold.
GoodWork(r) ==
  /\ r.stage = "search" => r.meta \in Metas
  /\ r.stage = "answered" => GoodAnswer(r)

\* A question is answered, or its work stays; the work of others does.
Works(a) ==
  /\ DOMAIN work' = DOMAIN work
  /\ \A b \in Asks : b # a => work'[b] = work[b]
  /\ GoodWork(work'[a])
  /\ op'[a] = "save" => work'[a].stage = "answered"

LEMMA ConcludesWorks ==
  ASSUME DOMAIN work = Asks, TypeOK, NEW a \in Asks, NEW w, NEW sources,
         Concludes(a, w, sources), \A l \in sources : SourceFits(l, w)
  PROVE  Works(a)
<1>1. PICK said \in Synthesize, v \in VerifyGrounding :
        work' = [work EXCEPT ![a] =
                   Result(w, Verified(said, v), SynthesisHistory(a, w), sources)]
  BY DEF Concludes
<1>2. GoodAnswer(work'[a])
  BY <1>1, VerifiedIsMarked, ResultIsGood
<1>3. work'[a].stage = "answered"
  BY <1>2 DEF GoodAnswer
<1> QED
  BY <1>1, <1>2, <1>3 DEF Works, GoodWork

LEMMA StaysWorks ==
  ASSUME NEW a \in Asks, UNCHANGED work, GoodWork(work[a]), op'[a] # "save"
  PROVE  Works(a)
BY DEF Works, GoodWork

\* An entry of the cache, or what a search found for m, is of the hours of m.
Fits(found, m) == \A l \in found : l \in Logs /\ HourFits(l, m)

LEMMA AnswersWorks ==
  ASSUME DOMAIN work = Asks, TypeOK, NEW a \in Asks, GoodWork(work[a]),
         NEW w, w.meta \in Metas, NEW found, Fits(found, w.meta),
         Answers(a, w, found)
  PROVE  Works(a)
<1>1. CASE Throws(a)
  BY <1>1, StaysWorks, MovesIsLocal DEF Throws
<1>2. CASE w.intent = "semantic" /\ AnswersSemantic(a, w, found)
  <2>1. PICK top \in Rerank(found) : Concludes(a, w, PostFilter(top, w.meta))
    BY <1>2 DEF AnswersSemantic
  <2>2. top \subseteq found
    BY DEF Rerank, Nearest
  <2>3. \A l \in PostFilter(top, w.meta) : SourceFits(l, w)
    BY <1>2, <2>2 DEF PostFilter, SourceFits, Fits
  <2> QED
    BY <2>1, <2>3, ConcludesWorks
<1>3. CASE w.intent = "statistical" /\ AnswersStatistical(a, w)
  <2>1. PICK examples \in ExecuteTemplate(w.template, w.meta) :
          Concludes(a, w, examples)
    BY <1>3 DEF AnswersStatistical
  <2>2. examples \subseteq MatchStage(w.meta)
    BY DEF ExecuteTemplate, TopErrorCodes
  <2>3. \A l \in examples : SourceFits(l, w)
    BY <1>3, <2>2 DEF MatchStage, SourceFits
  <2> QED
    BY <2>1, <2>3, ConcludesWorks
<1> QED
  BY <1>1, <1>2, <1>3 DEF Answers

\* The strengthening: the cache holds for each key logs of its hours.
CacheFits ==
  /\ embedded \subseteq Logs
  /\ DOMAIN semantic = {CacheKey(m) : m \in Metas}
  /\ \A m \in Metas : Fits(semantic[CacheKey(m)].found, m)

SearchInv ==
  /\ CacheFits
  /\ DOMAIN work = Asks
  /\ \A a \in Asks : GoodWork(work[a])
  /\ \A a \in Asks : op[a] = "save" => work[a].stage = "answered"

LEMMA CachedFit ==
  ASSUME CacheFits, NEW m \in Metas, NEW topic
  PROVE  Fits(CachedResults(topic, m), m)
BY DEF CacheFits, Fits, CachedResults, Candidates

LEMMA LookUpWorks ==
  ASSUME CacheFits, DOMAIN work = Asks, TypeOK, NEW a \in Asks, GoodWork(work[a]),
         op[a] # "save", NEW w, w.meta \in Metas, w.stage = "search", LookUp(a, w)
  PROVE  Works(a)
<1>1. CASE CachedResults(w.topic, w.meta) = {}
  BY <1>1 DEF LookUp, Works, GoodWork
<1>2. CASE CachedResults(w.topic, w.meta) # {}
  BY <1>2, CachedFit, AnswersWorks DEF LookUp
<1> QED
  BY <1>1, <1>2

\* What the model found, or nothing, is the metadata of a question.
LEMMA ContextHasMetadata ==
  ASSUME NEW a, NEW intent, NEW w \in BuildQueryContext(a, intent)
  PROVE  w.meta \in Metas /\ w.stage = "search"
<1>1. \A q : \A t \in Texts(a, q) : t.meta \in Metas
  BY SearchAssumption, MetasAssumption DEF Texts, ExtractMetadata
<1> QED
  BY <1>1 DEF BuildQueryContext

\* A search finds logs of the range, whatever the service.
LEMMA ResultsFit ==
  ASSUME embedded \subseteq Logs, NEW w, w.meta \in Metas,
         NEW found \in VectorResults(w)
  PROVE  Fits(found, w.meta)
<1>1. \A l \in found : l \in Logs /\ InRange(l, w.meta)
  BY DEF VectorResults, Nearest
<1> QED
  BY <1>1, RangeFitsHour DEF Fits

\* Caching it keeps the entries fit, for all metadata of the key.
LEMMA CachingKeepsFit ==
  ASSUME CacheFits, NEW m \in Metas, NEW topic, NEW found, Fits(found, m),
         SetCachedResults(topic, m, found), embedded' = embedded
  PROVE  CacheFits'
<1>1. ASSUME NEW n \in Metas
      PROVE  Fits(semantic'[CacheKey(n)].found, n)
  <2>1. CASE CacheKey(n) = CacheKey(m)
    BY <2>1, KeyHasHours DEF SetCachedResults, CacheFits, Fits
  <2>2. CASE CacheKey(n) # CacheKey(m)
    BY <2>2 DEF SetCachedResults, CacheFits
  <2> QED
    BY <2>1, <2>2
<1>2. DOMAIN semantic' = DOMAIN semantic
  BY DEF SetCachedResults
<1> QED
  BY <1>1, <1>2 DEF CacheFits, Fits

LEMMA ExpiryKeepsFit ==
  ASSUME CacheFits, NEW k \in DOMAIN semantic, Expire(k), embedded' = embedded
  PROVE  CacheFits'
BY DEF CacheFits, Expire, NoResults, Fits

\* A step of a question that leaves its work good keeps the invariant.
LEMMA WorksKeepsInv ==
  ASSUME SearchInv, NEW a \in Asks, Works(a), CacheFits',
         \A b \in Asks : b # a => op'[b] = op[b]
  PROVE  SearchInv'
BY DEF SearchInv, Works, GoodWork, GoodAnswer, Marked

LEMMA StepKeepsSearch ==
  ASSUME TypeOK, SearchInv, [SearchNext]_askVars
  PROVE  SearchInv'
<1>1. ASSUME semantic' = semantic, embedded' = embedded
      PROVE  CacheFits'
  BY <1>1 DEF SearchInv, CacheFits, Fits
<1>2. ASSUME NEW a \in Asks, LoadStep(a), Notes(a)
      PROVE  SearchInv'
  <2>1. op'[a] # "save" /\ \A b \in Asks : b # a => op'[b] = op[b]
    BY <1>2, MovesIsLocal DEF LoadStep, GetHits, GetMisses, NoSession, Find,
       FindFails, LoadSet, LoadSetFails
  <2> QED
    BY <1>1, <1>2, <2>1, StaysWorks, WorksKeepsInv DEF SearchInv, Notes
<1>3. ASSUME NEW a \in Asks, UpdateStep(a), Forgets(a)
      PROVE  SearchInv'
  <2>1. op'[a] # "save" /\ \A b \in Asks : b # a => op'[b] = op[b]
    BY <1>3, MovesIsLocal, UpdateIsLocal DEF UpdateStep, Save, SaveFails,
       UpdateGet, UpdateGetFails, UpdateSet, UpdateSetFails
  <2>2. Works(a)
    BY <1>3, <2>1 DEF Forgets, NotBegun, Works, GoodWork, SearchInv
  <2> QED
    BY <1>1, <1>3, <2>1, <2>2, WorksKeepsInv DEF Forgets
<1>4. ASSUME NEW a \in Asks,
             ReturnHistory(a) \/ Conversational(a) \/ PrepareSemantic(a)
               \/ PrepareStatistical(a) \/ VectorSearch(a)
      PROVE  \A b \in Asks : b # a => op'[b] = op[b]
  BY <1>4, MovesIsLocal, AnswersMoves
     DEF ReturnHistory, Conversational, PrepareSemantic, PrepareStatistical,
         VectorSearch, LookUp, FetchContextLogs, Throws, EmptyResult, Finish
<1>5. ASSUME NEW a \in Asks, ReturnHistory(a)
      PROVE  SearchInv'
  <2>1. Works(a)
    BY <1>5, StaysWorks, MovesIsLocal DEF ReturnHistory, SearchInv
  <2> QED
    BY <1>1, <1>4, <1>5, <2>1, WorksKeepsInv DEF ReturnHistory, InStrategy
<1>6. ASSUME NEW a \in Asks, Conversational(a)
      PROVE  SearchInv'
  <2>1. Works(a)
    <3>1. CASE EmptyResult(a)
      BY <3>1, StaysWorks, MovesIsLocal DEF EmptyResult, SearchInv
    <3>2. ASSUME NEW said \in Synthesize,
                 work' = [work EXCEPT ![a] = Result(BuildConversationalContext, said,
                                                    Context(Latest(held[a])), {})]
          PROVE  Works(a)
      <4>1. Marked(said)
        BY SearchAssumption DEF Synthesize, Marked
      <4>2. GoodAnswer(work'[a])
        BY <3>2, <4>1, ResultIsGood DEF SearchInv
      <4>3. work'[a].stage = "answered"
        BY <4>2 DEF GoodAnswer
      <4> QED
        BY <3>2, <4>2, <4>3 DEF Works, GoodWork, SearchInv
    <3> QED
      BY <1>6, <3>1, <3>2 DEF Conversational
  <2> QED
    BY <1>1, <1>4, <1>6, <2>1, WorksKeepsInv DEF Conversational, InStrategy
<1>7. ASSUME NEW a \in Asks, PrepareSemantic(a)
      PROVE  SearchInv'
  <2>1. Works(a)
    <3>1. CASE Throws(a)
      BY <3>1, StaysWorks, MovesIsLocal DEF Throws, SearchInv
    <3>2. CASE \E w \in BuildQueryContext(a, "semantic") : LookUp(a, w)
      BY <1>7, <3>2, ContextHasMetadata, LookUpWorks
         DEF PrepareSemantic, Begins, SearchInv
    <3> QED
      BY <1>7, <3>1, <3>2 DEF PrepareSemantic
  <2> QED
    BY <1>1, <1>4, <1>7, <2>1, WorksKeepsInv DEF PrepareSemantic, InStrategy
<1>8. ASSUME NEW a \in Asks, PrepareStatistical(a)
      PROVE  SearchInv'
  <2>1. Works(a)
    <3>1. PICK context \in BuildQueryContext(a, "statistical"),
               q \in AnalyzeStatisticalQuery :
            LET w == [context EXCEPT !.template = q.template, !.text = q.text] IN
            IF MatchStage(w.meta) = {} THEN Answers(a, w, {}) ELSE FetchContextLogs(a, w)
      BY <1>8 DEF PrepareStatistical
    <3> DEFINE w == [context EXCEPT !.template = q.template, !.text = q.text]
               v == [w EXCEPT !.limit = ContextLimit]
    <3>2. /\ w.meta \in Metas
          /\ v.meta \in Metas /\ v.stage = "search"
      BY ContextHasMetadata DEF BuildQueryContext
    <3>3. Answers(a, w, {}) \/ LookUp(a, v)
      BY <3>1 DEF FetchContextLogs
    <3>4. Fits({}, w.meta)
      BY DEF Fits
    <3>5. op[a] # "save"
      BY <1>8 DEF PrepareStatistical, Begins
    <3> HIDE DEF w, v
    <3> QED
      BY <3>2, <3>3, <3>4, <3>5, AnswersWorks, LookUpWorks DEF SearchInv
  <2> QED
    BY <1>1, <1>4, <1>8, <2>1, WorksKeepsInv DEF PrepareStatistical, InStrategy
<1>9. ASSUME NEW a \in Asks, VectorSearch(a)
      PROVE  SearchInv'
  <2>1. work[a].meta \in Metas /\ GoodWork(work[a]) /\ embedded' = embedded
    BY <1>9 DEF VectorSearch, SearchInv, GoodWork, InStrategy
  <2>2. CASE Throws(a) /\ UNCHANGED semantic
    <3>1. Works(a)
      BY <2>1, <2>2, StaysWorks, MovesIsLocal DEF Throws
    <3> QED
      BY <1>1, <1>4, <1>9, <2>1, <2>2, <3>1, WorksKeepsInv
  <2>3. ASSUME NEW found \in VectorResults(work[a]), found = {}, UNCHANGED semantic,
               EmptyResult(a) \/ Answers(a, work[a], {})
        PROVE  SearchInv'
    <3>1. Fits({}, work[a].meta)
      BY DEF Fits
    <3>2. CASE EmptyResult(a)
      <4>1. Works(a)
        BY <2>1, <3>2, StaysWorks, MovesIsLocal DEF EmptyResult
      <4> QED
        BY <1>1, <1>4, <1>9, <2>1, <2>3, <4>1, WorksKeepsInv
    <3>3. CASE Answers(a, work[a], {})
      <4>1. Works(a)
        BY <2>1, <3>1, <3>3, AnswersWorks DEF SearchInv
      <4> QED
        BY <1>1, <1>4, <1>9, <2>1, <2>3, <4>1, WorksKeepsInv
    <3> QED
      BY <2>3, <3>2, <3>3
  <2>4. ASSUME NEW found \in VectorResults(work[a]),
               SetCachedResults(work[a].topic, work[a].meta, found),
               Answers(a, work[a], found)
        PROVE  SearchInv'
    <3>1. Fits(found, work[a].meta)
      BY <2>1, ResultsFit DEF SearchInv, CacheFits
    <3>2. Works(a)
      BY <2>1, <2>4, <3>1, AnswersWorks DEF SearchInv
    <3>3. CacheFits'
      BY <2>1, <2>4, <3>1, CachingKeepsFit DEF SearchInv
    <3> QED
      BY <1>4, <1>9, <3>2, <3>3, WorksKeepsInv
  <2> QED
    BY <1>9, <2>2, <2>3, <2>4 DEF VectorSearch
<1>10. CASE CacheStep /\ UNCHANGED searchVars
  <2>1. op' = op
    BY <1>10 DEF CacheStep, TtlPasses, CleanupExpiredSessions, EntryGoes
  <2> QED
    BY <1>1, <1>10, <2>1 DEF SearchInv, searchVars
<1>11. ASSUME NEW k \in DOMAIN semantic, Expire(k),
              UNCHANGED <<sessionVars, embedded, work, before>>
       PROVE  SearchInv'
  BY <1>11, ExpiryKeepsFit DEF SearchInv, sessionVars
<1>12. ASSUME NEW l \in Logs, Embed(l)
       PROVE  SearchInv'
  BY <1>12 DEF Embed, SearchInv, CacheFits, Fits, sessionVars
<1>13. CASE UNCHANGED askVars
  BY <1>1, <1>13 DEF SearchInv, askVars, searchVars, sessionVars
<1> QED
  BY <1>2, <1>3, <1>5, <1>6, <1>7, <1>8, <1>9, <1>10, <1>11, <1>12, <1>13
     DEF SearchNext, AskStep

LEMMA SearchInvHolds == SearchSpec => []SearchInv
<1>1. SearchInit => SearchInv
  BY SearchAssumption
     DEF SearchInit, SessionInit, SemanticInit, SearchInv, CacheFits, Fits,
         NoResults, NotBegun, GoodWork
<1>2. TypeOK /\ SearchInv /\ [SearchNext]_askVars => SearchInv'
  BY StepKeepsSearch
<1> QED
  BY <1>1, <1>2, SessionIsSafe, PTL DEF SearchSpec

\* By a search or from the cache of another question, whatever the model made
\* of either, an answer names logs of its own time range only.
THEOREM SourcesFitHolds == SearchSpec => []SourcesFit
<1>1. SearchInv => SourcesFit
  BY DEF SearchInv, GoodWork, GoodAnswer, SourceFits, HourFits, SourcesFit, IsAnswered
<1> QED
  BY <1>1, SearchInvHolds, PTL

-----------------------------------------------------------------------------
(* Failed questions.                                                       *)

\* No turn is in the database before its operation saved it, nor after its
\* operation failed except in the last set.
SavedInOrder ==
  /\ \A a \in Asks : Unfinished(a) => a \notin Elems(db)
  /\ \A a \in Asks : op[a] = "failed" /\ a \in Elems(db) => "set" \in trouble

LEMMA StepKeepsOrder ==
  ASSUME TypeOK, SavedInOrder, [SessionNext]_sessionVars
  PROVE  SavedInOrder'
<1>1. ASSUME NEW a \in Asks, db' = db, trouble \subseteq trouble',
             \A b \in Asks : b # a => op'[b] = op[b],
             Unfinished(a)' => Unfinished(a),
             op'[a] = "failed" => Unfinished(a) \/ "set" \in trouble'
      PROVE  SavedInOrder'
  BY <1>1 DEF SavedInOrder, Unfinished
<1>2. ASSUME NEW a \in Asks, LoadStep(a) PROVE SavedInOrder'
  BY <1>1, <1>2, MovesIsLocal
     DEF LoadStep, GetHits, GetMisses, NoSession, Find, FindFails, LoadSet,
         LoadSetFails, Unfinished, cacheVars
<1>3. ASSUME NEW a \in Asks, NEW s \in {"save", "done", "failed"}, Answered(a, s)
      PROVE  SavedInOrder'
  BY <1>1, <1>3, MovesIsLocal DEF Answered, Unfinished, cacheVars
<1>4. ASSUME NEW a \in Asks, Save(a) PROVE SavedInOrder'
  <2>1. Elems(db') = Elems(db) \cup {a}
    BY <1>4, ElemsOfAppend DEF Save, TypeOK, Turns
  <2> QED
    BY <1>4, <2>1, MovesIsLocal DEF Save, SavedInOrder, Unfinished
<1>5. ASSUME NEW a \in Asks, UpdateStep(a), ~ Save(a) PROVE SavedInOrder'
  BY <1>1, <1>5, MovesIsLocal, UpdateIsLocal
     DEF UpdateStep, SaveFails, Update, UpdateGet, UpdateGetFails, UpdateSet,
         UpdateSetFails, Unfinished, cacheVars
<1>6. CASE CacheStep
  BY <1>6 DEF CacheStep, TtlPasses, CleanupExpiredSessions, EntryGoes,
     SavedInOrder, Unfinished
<1>7. CASE UNCHANGED sessionVars
  BY <1>7 DEF sessionVars, cacheVars, SavedInOrder, Unfinished
<1> QED
  BY <1>2, <1>3, <1>4, <1>5, <1>6, <1>7 DEF SessionNext

\* What a failure leaves in the session is nothing, or a text without confidence,
\* unless only the set behind the save of an answer failed.
THEOREM FailuresAreNoAnswersHolds == SearchSpec => []FailuresAreNoAnswers
<1>1. SessionInit => SavedInOrder
  BY ElemsOfOne, TurnsAssumption DEF SessionInit, SavedInOrder, Unfinished
<1>2. TypeOK /\ SavedInOrder /\ [SessionNext]_sessionVars => SavedInOrder'
  BY StepKeepsOrder
<1>3. SessionSpec => []SavedInOrder
  BY <1>1, <1>2, SessionTypeCorrect, PTL DEF SessionSpec
<1>4. SearchInv /\ SavedInOrder => FailuresAreNoAnswers
  BY DEF SearchInv, GoodWork, GoodAnswer, Marked, SavedInOrder, FailuresAreNoAnswers,
     IsAnswered
<1> QED
  BY <1>3, <1>4, SearchInvHolds, SearchImplementsSession, PTL DEF ImplementsSession

-----------------------------------------------------------------------------
(* The conversation an answer is made from.                                *)

\* A sequence begins with nothing and with itself, and has what its beginnings
\* have.
LEMMA BeginningsOf ==
  ASSUME NEW S, NEW t \in Seq(S)
  PROVE  /\ <<>> \in Beginnings(t) /\ t \in Beginnings(t)
         /\ \A s \in Beginnings(t) : s \in Seq(S) /\ Elems(s) \subseteq Elems(t)
<1>1. Len(t) \in Nat /\ SubSeq(t, 1, 0) = <<>> /\ SubSeq(t, 1, Len(t)) = t
  BY LenProperties
<1>2. ASSUME NEW n \in 0..Len(t)
      PROVE  /\ SubSeq(t, 1, n) \in Seq(S)
             /\ Elems(SubSeq(t, 1, n)) \subseteq Elems(t)
  <2>1. /\ SubSeq(t, 1, n) \in Seq(S) /\ Len(SubSeq(t, 1, n)) = n
        /\ \A i \in 1..n : SubSeq(t, 1, n)[i] = t[i]
        /\ DOMAIN SubSeq(t, 1, n) = 1..n /\ DOMAIN t = 1..Len(t)
    BY <1>1
  <2> QED
    BY <2>1 DEF Elems
<1>3. <<>> \in Beginnings(t)
  <2>1. 0 \in 0..Len(t)
    BY <1>1
  <2> QED
    BY <1>1, <2>1 DEF Beginnings
<1>4. t \in Beginnings(t)
  <2>1. Len(t) \in 0..Len(t)
    BY <1>1
  <2> QED
    BY <1>1, <2>1 DEF Beginnings
<1>5. ASSUME NEW s \in Beginnings(t)
      PROVE  s \in Seq(S) /\ Elems(s) \subseteq Elems(t)
  <2>1. PICK n \in 0..Len(t) : s = SubSeq(t, 1, n)
    BY DEF Beginnings
  <2> QED
    BY <1>2, <2>1
<1> QED
  BY <1>3, <1>4, <1>5

\* A sequence that grows begins as it did.
LEMMA BeginningsGrow ==
  ASSUME NEW S, NEW t \in Seq(S), NEW e \in S
  PROVE  Beginnings(t) \subseteq Beginnings(Append(t, e))
<1>1. Len(t) \in Nat /\ Len(Append(t, e)) = Len(t) + 1
  BY LenProperties
<1>2. \A n \in 0..Len(t) : SubSeq(Append(t, e), 1, n) = SubSeq(t, 1, n)
  OBVIOUS
<1> QED
  BY <1>1, <1>2 DEF Beginnings

\* What a synthesis may be given of a history: all, the latest turns, or those
\* and a summary.
LEMMA ContextsOf ==
  ASSUME NEW S, NEW h \in Seq(S)
  PROVE  /\ IsContext(Context(h), h) /\ IsContext(Context(Latest(h)), h)
         /\ \A c \in CompressHistory(h) : c.compressed => IsContext(c, h)
<1>1. Len(h) \in Nat /\ MaxTurns \in Nat /\ SubSeq(h, 1, Len(h)) = h
  BY SearchAssumption, LenProperties
<1>2. IsContext(Context(h), h)
  <2>1. Context(h).turns = SubSeq(h, 0 + 1, Len(h)) /\ Context(h).summary = {}
    BY <1>1 DEF Context, NoContext
  <2> QED
    BY <1>1, <2>1 DEF IsContext
<1>3. CASE Len(h) <= MaxTurns
  BY <1>2, <1>3 DEF Latest, CompressHistory, NoContext
<1>4. CASE ~ (Len(h) <= MaxTurns)
  <2> DEFINE k == Len(h) - MaxTurns
  <2>1. k \in 0..Len(h) /\ Len(h) - k >= MaxTurns
    BY <1>1, <1>4
  <2>2. Latest(h) = SubSeq(h, k + 1, Len(h))
    BY <1>4 DEF Latest
  <2>3. IsContext(Context(Latest(h)), h)
    <3>1. Context(Latest(h)).turns = Latest(h) /\ Context(Latest(h)).summary = {}
      BY DEF Context, NoContext
    <3> HIDE DEF k
    <3> QED
      BY <2>1, <2>2, <3>1 DEF IsContext
  <2>4. ASSUME NEW c \in CompressHistory(h) PROVE IsContext(c, h)
    <3>1. /\ c.turns = Latest(h)
          /\ c.summary \in {Elems(SubSeq(h, 1, k)), {}}
      BY <1>4 DEF CompressHistory, SummarizeHistory
    <3> HIDE DEF k
    <3> QED
      BY <2>1, <2>2, <3>1 DEF IsContext
  <2> QED
    BY <1>2, <2>3, <2>4
<1> QED
  BY <1>3, <1>4

\* Context c is of the conversation as it was stored once the turns of B were.
IsStored(c, B) == \E t \in Beginnings(db) : B \subseteq Elems(t) /\ IsContext(c, t)

\* The context of a record, where it is settled already.
Settled(r) ==
  \/ r.stage = "answered" /\ (r.intent = "conversational" \/ ~r.standalone)
  \/ r.stage = "search" /\ ~r.standalone /\ r.context.compressed

\* A question has its history.
Loaded(a) == op[a] \in {"touch", "fill", "alone", "work", "save"}

\* The strengthening of ContextIsStored: the cached history, and the history of
\* each question, is the beginning of the stored one and has what had been
\* answered.
Told ==
  /\ entry.history \in Beginnings(db)
  /\ \A a \in Asks : Loaded(a) =>
       held[a] \in Beginnings(db) /\ before[a] \subseteq Elems(held[a])
  /\ \A a \in Asks : op[a] = "find" => before[a] \subseteq Elems(db)
  /\ \A a \in Asks : op[a] = "push" => adapter = "redis"
  /\ \A a \in Asks : op[a] = "idle" => work[a] = NotBegun /\ before[a] = {}
  /\ \A a \in Asks : Settled(work[a]) => IsStored(work[a].context, before[a])
  /\ \A a \in Asks : work[a].stage = "search" => work[a].intent # "conversational"
  /\ DOMAIN work = Asks /\ DOMAIN before = Asks

\* The same after a step.
StoredNext(c, B) ==
  \E t \in Beginnings(db') : B \subseteq Elems(t) /\ IsContext(c, t)

\* What was stored remains.
LEMMA StoredRemains ==
  ASSUME TypeOK, NEW a \in Asks, db' = db \/ db' = Append(db, a)
  PROVE  /\ Beginnings(db) \subseteq Beginnings(db') /\ Elems(db) \subseteq Elems(db')
         /\ db' \in Beginnings(db')
         /\ \A c, B : IsStored(c, B) => StoredNext(c, B)
<1>1. db \in Seq(Turns) /\ a \in Turns
  BY DEF TypeOK, Turns
<1>2. db' \in Seq(Turns)
  BY <1>1
<1>3. Beginnings(db) \subseteq Beginnings(db')
  BY <1>1, BeginningsGrow
<1>4. Elems(db) \subseteq Elems(db')
  <2>1. Elems(Append(db, a)) = Elems(db) \cup {a}
    BY <1>1, ElemsOfAppend
  <2> QED
    BY <2>1
<1>5. db' \in Beginnings(db')
  BY <1>2, BeginningsOf
<1> QED
  BY <1>3, <1>4, <1>5 DEF IsStored, StoredNext

\* A step of operation a that extends the histories of others at most to what
\* is stored.
LEMMA ToldAfter ==
  ASSUME TypeOK, Told, NEW a \in Asks, db' = db \/ db' = Append(db, a),
         entry'.history \in Beginnings(db'), adapter' = adapter,
         \A b \in Asks : b # a =>
           /\ op'[b] = op[b] /\ held'[b] \in {held[b], db'}
           /\ before'[b] = before[b] /\ work'[b] = work[b],
         Loaded(a)' => held'[a] \in Beginnings(db') /\ before'[a] \subseteq Elems(held'[a]),
         op'[a] = "find" => before'[a] \subseteq Elems(db'),
         op'[a] = "push" => adapter = "redis",
         op'[a] # "idle",
         Settled(work'[a]) => StoredNext(work'[a].context, before'[a]),
         work'[a].stage = "search" => work'[a].intent # "conversational",
         DOMAIN work' = Asks, DOMAIN before' = Asks
  PROVE  Told'
<1>1. /\ Beginnings(db) \subseteq Beginnings(db') /\ Elems(db) \subseteq Elems(db')
      /\ db' \in Beginnings(db')
      /\ \A c, B : IsStored(c, B) => StoredNext(c, B)
  BY StoredRemains
<1>2. \A s \in Beginnings(db) : Elems(s) \subseteq Elems(db)
  BY BeginningsOf DEF TypeOK
<1>3. ASSUME NEW b \in Asks, Loaded(b)'
      PROVE  held'[b] \in Beginnings(db') /\ before'[b] \subseteq Elems(held'[b])
  <2>1. CASE b = a
    BY <1>3, <2>1
  <2>2. CASE b # a
    <3>1. Loaded(b)
      BY <1>3, <2>2 DEF Loaded
    <3>2. held[b] \in Beginnings(db) /\ before[b] \subseteq Elems(held[b])
      BY <3>1 DEF Told
    <3>3. before[b] \subseteq Elems(db')
      BY <1>1, <1>2, <3>2
    <3> QED
      BY <1>1, <2>2, <3>2, <3>3
  <2> QED
    BY <2>1, <2>2
<1>4. \A b \in Asks : op'[b] = "find" => before'[b] \subseteq Elems(db')
  BY <1>1 DEF Told
<1>5. \A b \in Asks : /\ op'[b] = "push" => adapter' = "redis"
                      /\ op'[b] = "idle" => work'[b] = NotBegun /\ before'[b] = {}
                      /\ work'[b].stage = "search" => work'[b].intent # "conversational"
  BY DEF Told
<1>6. \A b \in Asks : Settled(work'[b]) => StoredNext(work'[b].context, before'[b])
  BY <1>1 DEF Told
<1>7. \A b \in Asks : (Settled(work[b]) => IsStored(work[b].context, before[b]))'
  BY <1>6 DEF Settled, IsStored, StoredNext, Beginnings, IsContext, Elems
<1>8. \A b \in Asks :
        (Loaded(b) => held[b] \in Beginnings(db) /\ before[b] \subseteq Elems(held[b]))'
  BY <1>3 DEF Loaded, Beginnings, Elems
<1>9. \A b \in Asks : (op[b] = "find" => before[b] \subseteq Elems(db))'
  BY <1>4 DEF Elems
<1>10. (entry.history \in Beginnings(db))'
  BY DEF Beginnings
<1>11. \A b \in Asks : (op[b] = "idle" => work[b] = NotBegun /\ before[b] = {})'
  BY <1>5 DEF NotBegun
<1> QED
  BY <1>5, <1>7, <1>8, <1>9, <1>10, <1>11 DEF Told

\* A question that comes in while nothing disturbs the session is handed a
\* history with every turn that was answered.
LEMMA LoadKeepsTold ==
  ASSUME TypeOK, Quiet, Synced, Told, NEW a \in Asks, LoadStep(a), Notes(a), Quiet'
  PROVE  Told'
<1> DEFINE answered == {t \in Elems(db) : t \in Asks => op[t] = "done"}
<1>1. /\ db' = db /\ adapter' = adapter /\ work' = work
      /\ \A b \in Asks : b # a => op'[b] = op[b] /\ held'[b] = held[b]
      /\ op'[a] \in {"touch", "fill", "alone", "work", "find", "failed"}
      /\ op[a] \in {"idle", "find", "touch", "fill"}
  BY MovesIsLocal
     DEF LoadStep, GetHits, GetMisses, NoSession, Find, FindFails, LoadSet,
         LoadSetFails, Notes, cacheVars
<1>2. /\ DOMAIN before' = Asks
      /\ \A b \in Asks : b # a => before'[b] = before[b]
      /\ before'[a] = IF op[a] = "idle" /\ op'[a] # "alone" THEN answered ELSE before[a]
  BY DEF Notes, Told
<1>3. Settled(work[a]) => StoredNext(work[a].context, before'[a])
  <2>1. CASE op[a] = "idle"
    BY <2>1 DEF Told, NotBegun, Settled
  <2>2. CASE op[a] # "idle"
    BY <1>1, <1>2, <2>2, StoredRemains DEF Told
  <2> QED
    BY <2>1, <2>2
<1>4. Apart'
  <2>1. PICK s, h, new : Moves(a, s, h, new)
    BY DEF LoadStep, GetHits, GetMisses, NoSession, Find, FindFails, LoadSet,
           LoadSetFails
  <2> QED
    BY <2>1, QuietMoves DEF Quiet
<1>5. db \in Beginnings(db) /\ <<>> \in Beginnings(db) /\ entry.history \in Beginnings(db)
  BY BeginningsOf DEF TypeOK, Told
<1> HIDE DEF answered
<1>6. ASSUME entry'.history \in Beginnings(db),
             Loaded(a)' => held'[a] \in Beginnings(db) /\ before'[a] \subseteq Elems(held'[a]),
             op'[a] = "find" => before'[a] \subseteq Elems(db)
      PROVE  Told'
  BY <1>1, <1>2, <1>3, <1>6, ToldAfter DEF Told
<1>7. CASE GetHits(a)
  <2>1. /\ op[a] = "idle" /\ entry.state = "fresh" /\ entry' = entry
        /\ held'[a] = entry.history /\ before'[a] = answered
        /\ op'[a] = IF adapter = "memory" THEN "work" ELSE "touch"
    BY <1>2, <1>7, MovesIsLocal DEF GetHits
  <2>2. answered \subseteq Elems(entry.history)
    <3>1. CASE \A c \in Asks : ~ Updating(c)
      BY <2>1, <3>1 DEF Synced, answered
    <3>2. ASSUME NEW c \in Asks, op[c] = "update"
          PROVE  answered \subseteq Elems(entry.history)
      <4>1. db = Append(entry.history, c) /\ entry.history \in Seq(Turns) /\ c \in Turns
        BY <2>1, <3>2 DEF Synced, Pushed, TypeOK, Turns
      <4>2. Elems(db) = Elems(entry.history) \cup {c}
        BY <4>1, ElemsOfAppend
      <4> QED
        BY <3>2, <4>2 DEF answered
    <3>3. ASSUME NEW c \in Asks, op[c] = "push"
          PROVE  FALSE
      <4>1. op'[a] = "touch" /\ op'[c] = "push" /\ a # c
        BY <1>1, <2>1, <3>3 DEF Told
      <4> QED
        BY <1>4, <4>1 DEF Apart, Updating, Holding
    <3> QED
      BY <3>1, <3>2, <3>3 DEF Updating
  <2> QED
    BY <1>5, <1>6, <2>1, <2>2 DEF Loaded
<1>8. CASE GetMisses(a)
  <2>1. entry' = entry /\ op'[a] = "find" /\ before'[a] \subseteq Elems(db)
    BY <1>2, <1>8, MovesIsLocal DEF GetMisses, cacheVars, answered
  <2> QED
    BY <1>5, <1>6, <2>1 DEF Loaded
<1>9. CASE NoSession(a)
  <2>1. entry' = entry /\ op'[a] = "alone" /\ held'[a] = <<>> /\ before'[a] = {}
    BY <1>2, <1>9, MovesIsLocal DEF NoSession, cacheVars, Told
  <2> QED
    BY <1>5, <1>6, <2>1
<1>10. CASE Find(a)
  <2>1. entry' = entry /\ held'[a] = db /\ op[a] = "find" /\ op'[a] # "find"
    BY <1>10, MovesIsLocal DEF Find, cacheVars
  <2>2. before'[a] \subseteq Elems(db)
    BY <1>2, <2>1 DEF Told
  <2> QED
    BY <1>5, <1>6, <2>1, <2>2
<1>11. CASE FindFails(a)
  BY <1>11, MovesIsLocal DEF FindFails, Quiet
<1>12. CASE LoadSet(a)
  <2>1. /\ op[a] \in {"touch", "fill"} /\ op'[a] = "work"
        /\ entry'.history = held[a] /\ held'[a] = held[a]
    BY <1>12, MovesIsLocal DEF LoadSet, Fresh
  <2>2. held[a] \in Beginnings(db) /\ before'[a] \subseteq Elems(held[a])
    BY <1>2, <2>1 DEF Told, Loaded
  <2> QED
    BY <1>6, <2>1, <2>2
<1>13. CASE LoadSetFails(a)
  <2>1. entry' = entry /\ op'[a] = "failed"
    BY <1>13, MovesIsLocal DEF LoadSetFails, cacheVars
  <2> QED
    BY <1>5, <1>6, <2>1 DEF Loaded
<1> QED
  BY <1>7, <1>8, <1>9, <1>10, <1>11, <1>12, <1>13 DEF LoadStep

\* An update caches what is stored.
LEMMA UpdateKeepsTold ==
  ASSUME TypeOK, Quiet, Synced, Told, NEW a \in Asks, UpdateStep(a), Forgets(a), Quiet'
  PROVE  Told'
<1>1. /\ op'[a] \in {"update", "push", "done", "failed"}
      /\ \A b \in Asks : b # a => op'[b] = op[b]
      /\ db' = db \/ db' = Append(db, a)
      /\ adapter' = adapter
  BY MovesIsLocal, UpdateIsLocal
     DEF UpdateStep, Save, SaveFails, Update, UpdateGet, UpdateGetFails, UpdateSet,
         UpdateSetFails, cacheVars
<1>2. /\ before' = before /\ DOMAIN work' = Asks /\ work'[a] = NotBegun
      /\ \A b \in Asks : b # a => work'[b] = work[b]
  BY DEF Forgets, Told
<1>3. /\ db \in Beginnings(db) /\ entry.history \in Beginnings(db)
      /\ Beginnings(db) \subseteq Beginnings(db')
  BY BeginningsOf, <1>1, StoredRemains DEF TypeOK, Told
<1>4. ASSUME entry'.history \in Beginnings(db'),
             \A b \in Asks : b # a => held'[b] \in {held[b], db'},
             op'[a] = "push" => adapter = "redis"
      PROVE  Told'
  <2>1. ~ Settled(work'[a]) /\ work'[a].stage # "search"
    BY <1>2 DEF NotBegun, Settled
  <2>2. ~ Loaded(a)' /\ op'[a] \notin {"find", "idle"}
    BY <1>1 DEF Loaded
  <2> QED
    BY <1>1, <1>2, <1>4, <2>1, <2>2, ToldAfter DEF Told
<1>5. CASE Save(a)
  BY <1>3, <1>4, <1>5, MovesIsLocal DEF Save
<1>6. CASE SaveFails(a)
  BY <1>6 DEF SaveFails, Quiet
<1>7. CASE Update(a)
  <2>1. Pushed(a) = db /\ db' = db /\ entry'.history = Pushed(a) /\ op'[a] = "done"
    BY <1>7, UpdateIsLocal DEF Update, Fresh, Synced
  <2> QED
    BY <1>3, <1>4, <1>7, <2>1, UpdateIsLocal
<1>8. CASE UpdateGet(a)
  BY <1>3, <1>4, <1>8, MovesIsLocal DEF UpdateGet, cacheVars
<1>9. CASE UpdateGetFails(a)
  BY <1>9, MovesIsLocal DEF UpdateGetFails, Quiet
<1>10. CASE UpdateSet(a)
  <2>1. held[a] = db /\ db' = db /\ entry'.history = held[a] /\ op'[a] = "done"
    BY <1>10, MovesIsLocal DEF UpdateSet, Fresh, Synced
  <2> QED
    BY <1>3, <1>4, <1>10, <2>1, MovesIsLocal DEF UpdateSet
<1>11. CASE UpdateSetFails(a)
  BY <1>11, MovesIsLocal DEF UpdateSetFails, Quiet
<1> QED
  BY <1>5, <1>6, <1>7, <1>8, <1>9, <1>10, <1>11 DEF UpdateStep

\* What a strategy may note of a question.
Noted(r, B) ==
  /\ Settled(r) => IsStored(r.context, B)
  /\ r.stage = "search" => r.intent # "conversational"

Records(a) ==
  /\ DOMAIN work' = Asks
  /\ \A b \in Asks : b # a => work'[b] = work[b]
  /\ Noted(work'[a], before[a])

\* What a question was handed, whole or cut, is stored.
LEMMA HeldIsStored ==
  ASSUME TypeOK, Told, NEW a \in Asks, Loaded(a)
  PROVE  /\ IsStored(Context(held[a]), before[a])
         /\ IsStored(Context(Latest(held[a])), before[a])
         /\ \A c \in CompressHistory(held[a]) :
              c.compressed => IsStored(c, before[a])
<1>1. held[a] \in Beginnings(db) /\ before[a] \subseteq Elems(held[a])
  BY DEF Told
<1>2. held[a] \in Seq(Turns)
  BY DEF TypeOK
<1> QED
  BY <1>1, <1>2, ContextsOf DEF IsStored

LEMMA KeepsRecord ==
  ASSUME Told, NEW a \in Asks, UNCHANGED work
  PROVE  Records(a)
BY DEF Told, Records, Noted

LEMMA ConcludesRecords ==
  ASSUME TypeOK, Told, NEW a \in Asks, Loaded(a), NEW w, NEW sources,
         w.stage = "search", Noted(w, before[a]), Concludes(a, w, sources)
  PROVE  Records(a)
<1>1. PICK said \in Synthesize, v \in VerifyGrounding :
        work' = [work EXCEPT ![a] =
                   Result(w, Verified(said, v), SynthesisHistory(a, w), sources)]
  BY DEF Concludes
<1> DEFINE said1 == Verified(said, v)
           context == SynthesisHistory(a, w)
           r == Result(w, said1, context, sources)
<1>2. ~ w.standalone => IsStored(context, before[a])
  BY HeldIsStored DEF SynthesisHistory, Noted, Settled
<1> HIDE DEF said1, context
<1>3. /\ r.stage = "answered" /\ r.intent # "conversational"
      /\ r.standalone = w.standalone /\ r.context = context
  BY DEF Result, Noted
<1>4. work' = [work EXCEPT ![a] = r]
  BY <1>1 DEF said1, context
<1> HIDE DEF r
<1>5. Noted(r, before[a])
  BY <1>2, <1>3 DEF Noted, Settled
<1> QED
  BY <1>4, <1>5 DEF Records, Told

LEMMA AnswersRecords ==
  ASSUME TypeOK, Told, NEW a \in Asks, Loaded(a), NEW w, NEW found,
         w.stage = "search", Noted(w, before[a]), Answers(a, w, found)
  PROVE  Records(a)
<1>1. CASE Throws(a)
  BY <1>1, KeepsRecord DEF Throws
<1>2. CASE AnswersSemantic(a, w, found) \/ AnswersStatistical(a, w)
  BY <1>2, ConcludesRecords DEF AnswersSemantic, AnswersStatistical
<1> QED
  BY <1>1, <1>2 DEF Answers

LEMMA LookUpRecords ==
  ASSUME TypeOK, Told, NEW a \in Asks, Loaded(a), NEW w,
         w.stage = "search", Noted(w, before[a]), LookUp(a, w)
  PROVE  Records(a)
<1>1. CASE work' = [work EXCEPT ![a] = w]
  BY <1>1 DEF Records, Told
<1>2. CASE Answers(a, w, CachedResults(w.topic, w.meta))
  BY <1>2, AnswersRecords
<1> QED
  BY <1>1, <1>2 DEF LookUp

\* The context of a question notes its history cut, or not at all.
LEMMA ContextIsNoted ==
  ASSUME TypeOK, Told, NEW a \in Asks, Loaded(a),
         NEW intent \in {"semantic", "statistical"},
         NEW w \in BuildQueryContext(a, intent)
  PROVE  w.stage = "search" /\ Noted(w, before[a])
<1>1. \A q : \A t \in Texts(a, q) :
        t.context = NoContext \/ t.context \in CompressHistory(held[a])
  BY DEF Texts
<1>2. /\ w.stage = "search" /\ w.intent = intent
      /\ w.context = NoContext \/ w.context \in CompressHistory(held[a])
  BY <1>1 DEF BuildQueryContext
<1>3. ~ NoContext.compressed
  BY DEF NoContext
<1> QED
  BY <1>2, <1>3, HeldIsStored DEF Noted, Settled

LEMMA StrategyRecords ==
  ASSUME TypeOK, Told, NEW a \in Asks,
         ReturnHistory(a) \/ Conversational(a) \/ PrepareSemantic(a)
           \/ PrepareStatistical(a) \/ VectorSearch(a)
  PROVE  Records(a)
<1>1. Loaded(a)
  BY DEF ReturnHistory, Conversational, PrepareSemantic, PrepareStatistical,
         VectorSearch, Begins, Loaded
<1>2. CASE ReturnHistory(a)
  BY <1>2, KeepsRecord DEF ReturnHistory
<1>3. CASE Conversational(a)
  <2>1. CASE EmptyResult(a)
    BY <2>1, KeepsRecord DEF EmptyResult
  <2>2. ASSUME NEW said \in Synthesize,
               work' = [work EXCEPT ![a] = Result(BuildConversationalContext, said,
                                                  Context(Latest(held[a])), {})]
        PROVE  Records(a)
    <3>1. /\ work'[a].stage = "answered" /\ work'[a].context = Context(Latest(held[a]))
          /\ DOMAIN work' = Asks /\ \A b \in Asks : b # a => work'[b] = work[b]
      BY <2>2 DEF Result, Told
    <3> QED
      BY <1>1, <3>1, HeldIsStored DEF Records, Noted
  <2> QED
    BY <1>3, <2>1, <2>2 DEF Conversational
<1>4. CASE PrepareSemantic(a)
  <2>1. CASE Throws(a)
    BY <2>1, KeepsRecord DEF Throws
  <2>2. ASSUME NEW w \in BuildQueryContext(a, "semantic"), LookUp(a, w)
        PROVE  Records(a)
    BY <1>1, <2>2, ContextIsNoted, LookUpRecords
  <2> QED
    BY <1>4, <2>1, <2>2 DEF PrepareSemantic
<1>5. CASE PrepareStatistical(a)
  <2>1. PICK context \in BuildQueryContext(a, "statistical"),
             q \in AnalyzeStatisticalQuery :
          LET w == [context EXCEPT !.template = q.template, !.text = q.text] IN
          IF MatchStage(w.meta) = {} THEN Answers(a, w, {}) ELSE FetchContextLogs(a, w)
    BY <1>5 DEF PrepareStatistical
  <2> DEFINE w == [context EXCEPT !.template = q.template, !.text = q.text]
             v == [w EXCEPT !.limit = ContextLimit]
  <2>2. context.stage = "search" /\ Noted(context, before[a])
    BY <1>1, ContextIsNoted
  <2>3. /\ w.stage = context.stage /\ w.intent = context.intent
        /\ w.standalone = context.standalone /\ w.context = context.context
        /\ v.stage = context.stage /\ v.intent = context.intent
        /\ v.standalone = context.standalone /\ v.context = context.context
    BY DEF BuildQueryContext
  <2>4. Answers(a, w, {}) \/ LookUp(a, v)
    BY <2>1 DEF FetchContextLogs
  <2> HIDE DEF w, v
  <2>5. /\ w.stage = "search" /\ Noted(w, before[a])
        /\ v.stage = "search" /\ Noted(v, before[a])
    BY <2>2, <2>3 DEF Noted, Settled
  <2> QED
    BY <1>1, <2>4, <2>5, AnswersRecords, LookUpRecords
<1>6. CASE VectorSearch(a)
  <2>1. work[a].stage = "search" /\ Noted(work[a], before[a])
    BY <1>6 DEF VectorSearch, Told, Noted
  <2>2. CASE Throws(a) \/ EmptyResult(a)
    BY <2>2, KeepsRecord DEF Throws, EmptyResult
  <2>3. ASSUME NEW found, Answers(a, work[a], found)
        PROVE  Records(a)
    BY <1>1, <2>1, <2>3, AnswersRecords
  <2> QED
    BY <1>6, <2>2, <2>3 DEF VectorSearch
<1> QED
  BY <1>2, <1>3, <1>4, <1>5, <1>6

LEMMA StrategyKeepsTold ==
  ASSUME TypeOK, Told, NEW a \in Asks,
         ReturnHistory(a) \/ Conversational(a) \/ PrepareSemantic(a)
           \/ PrepareStatistical(a) \/ VectorSearch(a)
  PROVE  Told'
<1>1. /\ UNCHANGED <<adapter, db, entry, before>>
      /\ op[a] \in {"work", "alone"}
  BY DEF ReturnHistory, Conversational, PrepareSemantic, PrepareStatistical,
         VectorSearch, Begins, InStrategy, cacheVars
<1>2. \/ Moves(a, "save", held[a], {}) \/ Moves(a, "done", held[a], {})
      \/ Moves(a, "failed", held[a], {}) \/ UNCHANGED <<op, held, trouble>>
  BY AnswersMoves
     DEF ReturnHistory, Conversational, PrepareSemantic, PrepareStatistical,
         VectorSearch, LookUp, FetchContextLogs, Throws, EmptyResult, Finish
<1>3. /\ \A b \in Asks : b # a => op'[b] = op[b] /\ held'[b] = held[b]
      /\ op'[a] \in {"save", "done", "failed", "work", "alone"}
      /\ op'[a] \in {"save", "work", "alone"} => held'[a] = held[a]
  BY <1>1, <1>2, MovesIsLocal
<1>4. Records(a)
  BY StrategyRecords
<1>5. \A c, B : IsStored(c, B) => StoredNext(c, B)
  BY <1>1, StoredRemains
<1>6. Loaded(a) /\ (Loaded(a)' => held'[a] = held[a])
  BY <1>1, <1>3 DEF Loaded
<1>7. Settled(work'[a]) => StoredNext(work'[a].context, before'[a])
  BY <1>1, <1>4, <1>5 DEF Records, Noted
<1>8. entry'.history \in Beginnings(db')
  BY <1>1 DEF Told
<1>9. held[a] \in Beginnings(db') /\ before'[a] \subseteq Elems(held[a])
  BY <1>1, <1>6 DEF Told
<1> QED
  BY <1>1, <1>3, <1>4, <1>6, <1>7, <1>8, <1>9, ToldAfter DEF Records, Noted, Told

\* The cache alone.
LEMMA ToldStays ==
  ASSUME Told, UNCHANGED <<adapter, db, op, held, work, before>>,
         entry'.history \in Beginnings(db)
  PROVE  Told'
<1>1. /\ adapter' = adapter /\ db' = db /\ op' = op /\ held' = held
      /\ work' = work /\ before' = before
  OBVIOUS
<1>2. (entry.history \in Beginnings(db))'
  BY <1>1 DEF Beginnings
<1>3. \A a \in Asks :
        (Loaded(a) => held[a] \in Beginnings(db) /\ before[a] \subseteq Elems(held[a]))'
  BY <1>1 DEF Told, Loaded, Beginnings, Elems
<1>4. \A a \in Asks : /\ (op[a] = "find" => before[a] \subseteq Elems(db))'
                      /\ (op[a] = "push" => adapter = "redis")'
                      /\ (op[a] = "idle" => work[a] = NotBegun /\ before[a] = {})'
  BY <1>1 DEF Told, Elems, NotBegun
<1>5. \A a \in Asks : (Settled(work[a]) => IsStored(work[a].context, before[a]))'
  <2>1. \A c, B : IsStored(c, B) => StoredNext(c, B)
    BY <1>1 DEF IsStored, StoredNext
  <2>2. \A a \in Asks : Settled(work'[a]) => StoredNext(work'[a].context, before'[a])
    BY <1>1, <2>1 DEF Told
  <2> QED
    BY <2>2 DEF Settled, IsStored, StoredNext, Beginnings, IsContext, Elems
<1>6. /\ \A a \in Asks : work'[a].stage = "search" => work'[a].intent # "conversational"
      /\ DOMAIN work' = Asks /\ DOMAIN before' = Asks
  BY <1>1 DEF Told
<1> QED
  BY <1>2, <1>3, <1>4, <1>5, <1>6 DEF Told

LEMMA StepKeepsTold ==
  ASSUME TypeOK, Quiet => Synced, Quiet => Told, [SearchNext]_askVars
  PROVE  (Quiet => Told)'
<1> SUFFICES ASSUME Quiet' PROVE Told'
  OBVIOUS
<1>1. ASSUME NEW a \in Asks, AskStep(a)
      PROVE  Told'
  <2>1. Quiet
    <3>1. trouble \subseteq trouble'
      <4>1. ASSUME NEW s, NEW h, NEW new, Moves(a, s, h, new)
            PROVE  trouble \subseteq trouble'
        BY <4>1, MovesIsLocal
      <4>2. CASE LoadStep(a) \/ UpdateStep(a)
        BY <4>1, <4>2, UpdateIsLocal
           DEF LoadStep, GetHits, GetMisses, NoSession, Find, FindFails, LoadSet,
               LoadSetFails, UpdateStep, Save, SaveFails, UpdateGet, UpdateGetFails,
               UpdateSet, UpdateSetFails
      <4>3. CASE ReturnHistory(a) \/ Conversational(a) \/ PrepareSemantic(a)
                   \/ PrepareStatistical(a) \/ VectorSearch(a)
        BY <4>1, <4>3, AnswersMoves
           DEF ReturnHistory, Conversational, PrepareSemantic, PrepareStatistical,
               VectorSearch, LookUp, FetchContextLogs, Throws, EmptyResult, Finish
      <4> QED
        BY <1>1, <4>2, <4>3 DEF AskStep
    <3>2. unsaved \subseteq unsaved'
      BY <1>1 DEF AskStep, LoadStep, GetHits, GetMisses, NoSession, Find, FindFails,
         LoadSet, LoadSetFails, UpdateStep, Save, SaveFails, Update, UpdateGet,
         UpdateGetFails, UpdateSet, UpdateSetFails, ReturnHistory, Conversational,
         PrepareSemantic, PrepareStatistical, VectorSearch, InStrategy
    <3> QED
      BY <3>1, <3>2 DEF Quiet
  <2> QED
    BY <1>1, <2>1, LoadKeepsTold, UpdateKeepsTold, StrategyKeepsTold DEF AskStep
<1>2. CASE CacheStep /\ UNCHANGED searchVars
  <2>1. /\ UNCHANGED <<adapter, db, op, held, unsaved>> /\ trouble \subseteq trouble'
        /\ entry'.history \in {entry.history, <<>>}
    BY <1>2
       DEF CacheStep, TtlPasses, CleanupExpiredSessions, EntryGoes, Absent, TypeOK
  <2>2. Told /\ <<>> \in Beginnings(db)
    BY <2>1, BeginningsOf DEF Quiet, TypeOK
  <2>3. entry'.history \in Beginnings(db)
    BY <2>1, <2>2 DEF Told
  <2> QED
    BY <1>2, <2>1, <2>2, <2>3, ToldStays DEF searchVars
<1>3. CASE UNCHANGED <<sessionVars, work, before>>
  <2>1. /\ UNCHANGED <<adapter, db, op, held, work, before>> /\ entry' = entry
        /\ Quiet
    BY <1>3 DEF sessionVars, cacheVars, Quiet
  <2> QED
    BY <2>1, ToldStays DEF Told
<1> QED
  BY <1>1, <1>2, <1>3 DEF SearchNext, Embed, askVars, searchVars

\* Whatever the interleaving of questions and of accesses to either cache, an
\* answer made from the conversation is made from all that had been answered.
THEOREM ContextIsStoredHolds == SearchSpec => []ContextIsStored
<1>1. SessionInit => (Quiet => Synced)
  BY DEF SessionInit, Synced, Apart, Updating, Holding, Absent
<1>2. TypeOK /\ (Quiet => Synced) /\ [SessionNext]_sessionVars => (Quiet => Synced)'
  BY StepKeepsSync
<1>3. SessionSpec => [](Quiet => Synced)
  BY <1>1, <1>2, SessionTypeCorrect, PTL DEF SessionSpec
<1>4. SearchInit => Told
  <2> SUFFICES ASSUME SearchInit PROVE Told
    OBVIOUS
  <2>1. /\ \A a \in Asks : op[a] = "idle" /\ work[a] = NotBegun /\ before[a] = {}
        /\ DOMAIN work = Asks /\ DOMAIN before = Asks
        /\ entry.history = <<>>
    BY DEF SearchInit, SessionInit, Absent
  <2>2. db \in Seq(Turns)
    <3>1. <<>> \in Seq(Turns) /\ <<OldTurn>> \in Seq(Turns)
      BY DEF Turns
    <3> QED
      BY <3>1, Zenon DEF SearchInit, SessionInit
  <2>3. <<>> \in Beginnings(db)
    BY <2>2, BeginningsOf
  <2> QED
    BY <2>1, <2>3 DEF Told, Loaded, Settled, NotBegun
<1>5. TypeOK /\ (Quiet => Synced) /\ (Quiet => Told) /\ [SearchNext]_askVars
        => (Quiet => Told)'
  BY StepKeepsTold
<1>6. (Quiet => Told) => ContextIsStored
  BY DEF Told, ContextIsStored, UsesHistory, IsAnswered, Settled, IsStored
<1> QED
  BY <1>3, <1>4, <1>5, <1>6, SessionIsSafe, SearchImplementsSession, PTL
     DEF SearchSpec, ImplementsSession
=============================================================================
