------------------------------ MODULE EventLog ------------------------------
(***************************************************************************)
(* What a log sink promises about the events handed to it.                 *)
(*                                                                         *)
(* An event is unseen until it is handed over, pending while the sink is   *)
(* responsible for it, and then stored or lost.  A batch of pending events *)
(* settles at once.  A settled event never moves again: a sink that wrote  *)
(* an event twice, or that kept an event it had given up, would not be a   *)
(* log sink.                                                               *)
(***************************************************************************)
CONSTANT Events

VARIABLE fate    \* fate[e]: where event e stands

Fates == {"unseen", "pending", "stored", "lost"}

TypeOK == fate \in [Events -> Fates]

Init == fate = [e \in Events |-> "unseen"]

Pending == {e \in Events : fate[e] = "pending"}

\* Event e is handed to the sink.
Accept(e) ==
  /\ fate[e] = "unseen"
  /\ fate' = [fate EXCEPT ![e] = "pending"]

\* The pending events of batch settle: those of written are stored, the others
\* are lost.
Settle(batch, written) ==
  /\ batch \subseteq Pending
  /\ written \subseteq batch
  /\ fate' = [e \in Events |-> IF e \in written THEN "stored"
                               ELSE IF e \in batch THEN "lost"
                               ELSE fate[e]]

Next ==
  \/ \E e \in Events : Accept(e)
  \/ \E batch \in SUBSET Events : \E written \in SUBSET batch :
       Settle(batch, written)

Spec == Init /\ [][Next]_fate

\* The sink does not sit on an event for ever.
EventuallySettled ==
  \A e \in Events : fate[e] = "pending" ~> fate[e] \in {"stored", "lost"}
=============================================================================
