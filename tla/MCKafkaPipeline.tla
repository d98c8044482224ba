-------------------------- MODULE MCKafkaPipeline --------------------------
(***************************************************************************)
(* Instances of KafkaPipeline for TLC: two log() calls, so that one may be *)
(* in flight while the other switches the mode.  Two calls of destroy-     *)
(* Consumer are under way at once at most, and of startConsumer one.       *)
(***************************************************************************)
EXTENDS KafkaPipeline

CONSTANTS c1, c2, s1, s2, e1, e2

TwoConsumers == {c1, c2}
TwoSlots     == {s1, s2}
TwoEvents    == {e1, e2}
=============================================================================
