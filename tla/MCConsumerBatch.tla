-------------------------- MODULE MCConsumerBatch --------------------------
(***************************************************************************)
(* Instances of ConsumerBatch for TLC: two messages and three log() calls, *)
(* either three deliveries, so that a message can be delivered again after *)
(* a restart, or two and one event of the fallback; both batches hold two  *)
(* events.                                                                 *)
(***************************************************************************)
EXTENDS ConsumerBatch

ThreeEvents == 1..3
=============================================================================
