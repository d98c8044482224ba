---------------------------- MODULE EventRouting ----------------------------
(***************************************************************************)
(* What KafkaLogger.log() promises of an event, whatever the mode, the     *)
(* producer and the broker do: it is handed to the fallback, or published, *)
(* and handed to the fallback as well if its publish fails.  The broker    *)
(* has written what was published with success, may have written what was  *)
(* not, and writes nothing else.                                           *)
(***************************************************************************)
CONSTANT Requests    \* the calls of log(), one event each

VARIABLES
  route,     \* route[r]: how far the call r has come
  handed,    \* events handed to the fallback
  written    \* events that are in the topic

Init ==
  /\ route = [r \in Requests |-> "new"]
  /\ handed = {}
  /\ written = {}

Moves(r, from, to) ==
  /\ route[r] = from
  /\ route' = [route EXCEPT ![r] = to]

\* The call goes to the fallback at once.
Divert(r) ==
  /\ Moves(r, "new", "direct")
  /\ handed' = handed \cup {r}
  /\ UNCHANGED written

Send(r) == Moves(r, "new", "publishing") /\ UNCHANGED <<handed, written>>

\* The broker writes what was sent, perhaps when nobody waits for it any more.
Write(r) ==
  /\ route[r] \in {"publishing", "failedOver", "cut"}
  /\ written' = written \cup {r}
  /\ UNCHANGED <<route, handed>>

Resolve(r) ==
  /\ Moves(r, "publishing", "sent")
  /\ written' = written \cup {r}
  /\ UNCHANGED handed

Reject(r) ==
  /\ Moves(r, "publishing", "failedOver")
  /\ handed' = handed \cup {r}
  /\ written' \in {written, written \cup {r}}

\* The process ends: nobody falls back for the calls under way.
Cut ==
  /\ route' = [r \in Requests |->
                 IF route[r] = "publishing" THEN "cut" ELSE route[r]]
  /\ UNCHANGED <<handed, written>>

Next ==
  \/ \E r \in Requests : Divert(r) \/ Send(r) \/ Write(r) \/ Resolve(r) \/ Reject(r)
  \/ Cut

Spec == Init /\ [][Next]_<<route, handed, written>>
=============================================================================
