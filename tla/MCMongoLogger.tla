--------------------------- MODULE MCMongoLogger ---------------------------
(***************************************************************************)
(* Instances of MongoLogger for TLC: three log() calls over a batch of     *)
(* two, so that a flush by size, a flush of what is left and a buffer that *)
(* fills up behind a write all happen.                                     *)
(***************************************************************************)
EXTENDS MongoLogger

CONSTANTS e1, e2, e3

ThreeEvents == {e1, e2, e3}
=============================================================================
