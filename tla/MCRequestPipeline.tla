-------------------------- MODULE MCRequestPipeline --------------------------
(***************************************************************************)
(* Instances of RequestPipeline for TLC.  More requests than ids, so that  *)
(* ids repeat, and more ids than the cache holds, so that they are evicted *)
(* in between.  The critical route is configured as README.md:276 does.    *)
(***************************************************************************)
EXTENDS RequestPipeline, TLC

CONSTANTS r1, r2, r3, r4, r5, a, b, c

FiveRequests == {r1, r2, r3, r4, r5}
ThreeIds     == {a, b, c}

RequestAndIdSymmetry == Permutations(Requests) \cup Permutations(Ids)

TwoErrors == {"GATEWAY_TIMEOUT", "GATEWAY_REJECTED"}
TheDelays == {0, 1990}
ConfiguredRoutes == {<<"", "/payments">>}
=============================================================================
