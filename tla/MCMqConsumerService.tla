------------------------ MODULE MCMqConsumerService ------------------------
(***************************************************************************)
(* Instances of MqConsumerService alone for TLC: the logger may switch the *)
(* mode to DIRECT at any moment.                                           *)
(***************************************************************************)
EXTENDS MqConsumerService

CONSTANTS c1, c2, s1, s2

TwoConsumers == {c1, c2}
TwoSlots     == {s1, s2}
=============================================================================
