----------------------------- MODULE MCLogPath -----------------------------
(***************************************************************************)
(* Instances of LogPath for TLC: two events, and as many messages in the   *)
(* topic.                                                                  *)
(***************************************************************************)
EXTENDS LogPath, TLC

CONSTANTS r1, r2

TwoRequests == Deliveries \cup {r1, r2}
Symmetry    == Permutations({r1, r2})
=============================================================================
