------------------------------ MODULE MCSearch ------------------------------
(***************************************************************************)
(* Instances of Search for TLC.  Two logs, one an error of payments, in    *)
(* two hours; metadata that selects one of them, both, or a service of     *)
(* which nothing is stored in the range.                                   *)
(***************************************************************************)
EXTENDS Search, TLC

CONSTANTS a1, a2, t0, near, far

TwoAsks == {a1, a2}
AskSymmetry == Permutations(Asks)

Failed    == [id |-> 1, service |-> "payments", route |-> "pay", time |-> 10, code |-> "E"]
Succeeded == [id |-> 2, service |-> "orders", route |-> "order", time |-> 70, code |-> "null"]
TwoLogs   == {Failed, Succeeded}
OneLog    == {Failed}

FirstHour  == [NoMetadata EXCEPT !.from = 5, !.to = 20]
Errors     == [NoMetadata EXCEPT !.hasError = TRUE, !.service = "orders"]
TheMetas   == {NoMetadata, FirstHour, Errors}

TheExtractions ==
  {[meta |-> FirstHour, topic |-> near, log |-> far],
   [meta |-> Errors, topic |-> far, log |-> far]}

TheQuestions ==
  {[keywords |-> {"conversational", "statistical"}, refers |-> FALSE],
   [keywords |-> {"statistical"}, refers |-> FALSE],
   [keywords |-> {}, refers |-> TRUE]}
=============================================================================
