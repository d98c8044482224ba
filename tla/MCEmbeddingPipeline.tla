------------------------ MODULE MCEmbeddingPipeline ------------------------
(***************************************************************************)
(* Instances of EmbeddingPipeline for TLC: pages of more than one chunk,   *)
(* chunks of more than one log, and two batches side by side.              *)
(***************************************************************************)
EXTENDS EmbeddingPipeline, TLC

CONSTANTS b1, b2

FourLogs   == 1..4
TwoBatches == {b1, b2}
SomeLimits == {0, 3}

BatchSymmetry == Permutations(Batches)
=============================================================================
