---------------------------- MODULE SessionCache ----------------------------
(***************************************************************************)
(* One chat session: its turns in the chat_history collection and the      *)
(* history cached under its id, by the in-memory adapter or by the Redis   *)
(* adapter (SESSION_CACHE_TYPE).  An operation on the session is a         *)
(* question, which loads the history, is answered, and then saves and      *)
(* caches its turn; or a read of the history.  A turn is named by its      *)
(* question.                                                               *)
(*                                                                         *)
(* A step ends where the code awaits a remote call.  The in-memory adapter *)
(* answers without leaving the microtask queue, so nothing comes between   *)
(* its get and its set.  It hands out the entry's own array, which a later *)
(* push then extends for everyone who still works with it.  With Redis     *)
(* every call is a step, and what get returned is the caller's own copy.   *)
(*                                                                         *)
(* unsaved and trouble are history: the turns whose save failed (the error *)
(* is only logged), and what has disturbed the session so far.             *)
(***************************************************************************)
EXTENDS Naturals, Sequences

CONSTANTS
  Asks,      \* the operations
  OldTurn    \* a turn of an earlier day

ASSUME TurnsAssumption == OldTurn \notin Asks

VARIABLES
  adapter,   \* "memory" or "redis"
  db,        \* the session's turns in the order of createdAt
  entry,     \* the cached entry: its history and its state
  shared,    \* in memory, the operations that were handed the entry's array
  op,        \* where each operation is
  held,      \* the history each operation has
  unsaved, trouble

cacheVars == <<adapter, db, entry, shared>>
sessionVars == <<cacheVars, op, held, unsaved, trouble>>

Turns == Asks \cup {OldTurn}
Steps == {"idle", "find", "touch", "fill", "alone", "work", "save", "update",
          "push", "done", "failed"}
Troubles == {"overlap", "expiry", "find", "get", "set"}

Absent == [history |-> <<>>, state |-> "absent"]
Fresh(h) == [history |-> h, state |-> "fresh"]

Elems(s) == {s[i] : i \in DOMAIN s}

TypeOK ==
  /\ adapter \in {"memory", "redis"}
  /\ db \in Seq(Turns)
  /\ entry \in [history : Seq(Turns), state : {"absent", "fresh", "expired"}]
  /\ shared \subseteq Asks
  /\ op \in [Asks -> Steps]
  /\ held \in [Asks -> Seq(Turns)]
  /\ unsaved \subseteq Asks
  /\ trouble \subseteq Troubles

SessionInit ==
  /\ adapter \in {"memory", "redis"}
  /\ db \in {<<>>, <<OldTurn>>}
  /\ entry = Absent
  /\ shared = {}
  /\ op = [a \in Asks |-> "idle"]
  /\ held = [a \in Asks |-> <<>>]
  /\ unsaved = {}
  /\ trouble = {}

-----------------------------------------------------------------------------

\* Between its save and its set, an operation's turn is in the database and
\* not in the cache; a holder will write back a history it read before.
Updaters(o) == {a \in Asks : o[a] \in {"update", "push"}}
Holders(o)  == {a \in Asks : o[a] \in {"touch", "fill", "update", "push"}}
Overlap(o) == IF \E a \in Updaters(o) : \E b \in Holders(o) : a # b
              THEN {"overlap"} ELSE {}

\* Operation a goes on to step s, with history h unless it ends.
Moves(a, s, h, new) ==
  /\ op' = [op EXCEPT ![a] = s]
  /\ held' = [held EXCEPT ![a] = IF s \in {"done", "failed"} THEN <<>> ELSE h]
  /\ trouble' = trouble \cup new \cup Overlap(op')

\* getHistory(): an entry that is there and not expired is written back with
\* a new lastAccessed; a Redis get that fails is taken for no entry.
GetHits(a) ==
  /\ op[a] = "idle"
  /\ entry.state = "fresh"
  /\ Moves(a, IF adapter = "memory" THEN "work" ELSE "touch", entry.history, {})
  /\ shared' = IF adapter = "memory" THEN shared \cup {a} ELSE shared
  /\ UNCHANGED <<adapter, db, entry, unsaved>>

GetMisses(a) ==
  /\ op[a] = "idle"
  /\ entry.state # "fresh" \/ adapter = "redis"
  /\ Moves(a, "find", <<>>, {})
  /\ UNCHANGED <<cacheVars, unsaved>>

\* A question without a session id loads and caches nothing.
NoSession(a) ==
  /\ op[a] = "idle"
  /\ Moves(a, "alone", <<>>, {})
  /\ UNCHANGED <<cacheVars, unsaved>>

\* findBySessionId(); an error counts as an empty history, and an empty
\* history is not cached.
Find(a) ==
  /\ op[a] = "find"
  /\ Moves(a, IF db = <<>> THEN "work" ELSE "fill", db, {})
  /\ UNCHANGED <<cacheVars, unsaved>>

FindFails(a) ==
  /\ op[a] = "find"
  /\ Moves(a, "work", <<>>, {"find"})
  /\ UNCHANGED <<cacheVars, unsaved>>

\* The set of getHistory(), after a hit ("touch") or a database read ("fill").
\* In memory the array read from the database becomes the entry's.
LoadSet(a) ==
  /\ op[a] \in {"touch", "fill"}
  /\ entry' = Fresh(held[a])
  /\ shared' = IF adapter = "memory" THEN {a} ELSE {}
  /\ Moves(a, "work", held[a], {})
  /\ UNCHANGED <<adapter, db, unsaved>>

\* A Redis set that fails is thrown on, up to the controller.
LoadSetFails(a) ==
  /\ adapter = "redis"
  /\ op[a] \in {"touch", "fill"}
  /\ Moves(a, "failed", held[a], {})
  /\ UNCHANGED <<cacheVars, unsaved>>

\* The answer: with a turn to save, without one, or an error.
Answered(a, s) ==
  /\ op[a] \in {"work", "alone"}
  /\ Moves(a, IF op[a] = "alone" /\ s = "save" THEN "done" ELSE s, held[a], {})
  /\ UNCHANGED <<cacheVars, unsaved>>

\* updateSession() saves first; an error of the insert is swallowed.  (Bug:
\* the turn goes to the cache only, to be saved later.)
SaveLater(a) ==
  /\ op[a] = "save"
  /\ Moves(a, "update", held[a], {})
  /\ UNCHANGED <<cacheVars, unsaved>>

Save(a) ==
  /\ op[a] = "save"
  /\ db' = Append(db, a)
  /\ Moves(a, "update", held[a], {})
  /\ UNCHANGED <<adapter, entry, shared, unsaved>>

SaveFails(a) ==
  /\ op[a] = "save"
  /\ unsaved' = unsaved \cup {a}
  /\ Moves(a, "update", held[a], {})
  /\ UNCHANGED cacheVars

\* The cached history with the new turn.  Here nobody asks whether the entry
\* has expired.  (Bugs: an expired entry is replaced, as if by getHistory; a
\* missing one is read from the database, which has the turn already.)
PushedIfFresh(a) ==
  IF entry.state = "fresh" THEN Append(entry.history, a) ELSE <<a>>

PushedOnDatabase(a) ==
  Append(IF entry.state = "absent" THEN db ELSE entry.history, a)

Pushed(a) ==
  IF entry.state = "absent" THEN <<a>> ELSE Append(entry.history, a)

\* The operations whose own history the push extends.
Sharers(a) == {b \in shared \ {a} : op[b] \in {"work", "save"}}

Update(a) ==
  /\ adapter = "memory"
  /\ op[a] = "update"
  /\ entry' = Fresh(Pushed(a))
  /\ op' = [op EXCEPT ![a] = "done"]
  /\ held' = [b \in Asks |-> IF b = a THEN <<>>
                             ELSE IF b \in Sharers(a) THEN Pushed(a) ELSE held[b]]
  /\ trouble' = trouble \cup Overlap(op')
  /\ UNCHANGED <<adapter, db, shared, unsaved>>

UpdateGet(a) ==
  /\ adapter = "redis"
  /\ op[a] = "update"
  /\ Moves(a, "push", Pushed(a), {})
  /\ UNCHANGED <<cacheVars, unsaved>>

UpdateGetFails(a) ==
  /\ adapter = "redis"
  /\ op[a] = "update"
  /\ Moves(a, "push", <<a>>, {"get"})
  /\ UNCHANGED <<cacheVars, unsaved>>

UpdateSet(a) ==
  /\ op[a] = "push"
  /\ entry' = Fresh(held[a])
  /\ Moves(a, "done", held[a], {})
  /\ UNCHANGED <<adapter, db, shared, unsaved>>

UpdateSetFails(a) ==
  /\ op[a] = "push"
  /\ Moves(a, "failed", held[a], {"set"})
  /\ UNCHANGED <<cacheVars, unsaved>>

\* The entry goes: trouble, when an operation has loaded and not yet updated.
EntryGoes ==
  /\ entry' = Absent
  /\ shared' = {}
  /\ trouble' = trouble \cup
       (IF \E a \in Asks : op[a] \in {"work", "save", "update"}
        THEN {"expiry"} ELSE {})
  /\ UNCHANGED <<adapter, db, op, held, unsaved>>

\* Half an hour without an access.  In memory the entry stays, expired, until
\* the next clean-up; Redis drops the key.
TtlPasses ==
  /\ entry.state = "fresh"
  /\ \/ adapter = "redis" /\ EntryGoes
     \/ /\ adapter = "memory"
        /\ entry' = [entry EXCEPT !.state = "expired"]
        /\ UNCHANGED <<adapter, db, shared, op, held, unsaved, trouble>>

CleanupExpiredSessions == entry.state = "expired" /\ EntryGoes

LoadStep(a) ==
  \/ GetHits(a) \/ GetMisses(a) \/ NoSession(a)
  \/ Find(a) \/ FindFails(a) \/ LoadSet(a) \/ LoadSetFails(a)

UpdateStep(a) ==
  \/ Save(a) \/ SaveFails(a) \/ Update(a)
  \/ UpdateGet(a) \/ UpdateGetFails(a) \/ UpdateSet(a) \/ UpdateSetFails(a)

CacheStep == TtlPasses \/ CleanupExpiredSessions

SessionNext ==
  \/ \E a \in Asks : \/ LoadStep(a)
                     \/ \E s \in {"save", "done", "failed"} : Answered(a, s)
                     \/ UpdateStep(a)
  \/ CacheStep

SessionSpec == SessionInit /\ [][SessionNext]_sessionVars

-----------------------------------------------------------------------------

\* Every cached turn was given to save() before, and is in the database unless
\* that save failed: the cache never shows a conversation that was not kept.
CachedTurnsWereSaved ==
  Elems(entry.history) \subseteq Elems(db) \cup unsaved

\* When no update overlapped with another access, no call failed where the
\* code goes on without its result, and no entry expired under a question,
\* the cached history is the database's, turn by turn.
CacheIsDatabase ==
  trouble = {} /\ unsaved = {} /\ Updaters(op) = {} /\ entry.state # "absent"
    => entry.history = db

\* A turn is cached twice only after an update overlapped with another access
\* (a history read after the save already holds the turn that is then pushed):
\* failures and expiry may lose turns, never repeat one.
RepeatsNeedOverlap ==
  "overlap" \notin trouble =>
    \A i, j \in 1..Len(entry.history) :
      entry.history[i] = entry.history[j] => i = j
=============================================================================
