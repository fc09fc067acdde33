------------------------- MODULE MCSmartSubscription -------------------------
(* Instances of SmartSubscription for TLC: a client with two streams to come,
   one after the other, and a second client that may be constructed. *)
EXTENDS SmartSubscription

CONSTANTS c1, c2, s1, s2

MCClient  == {c1, c2}
MCStreams == {s1, s2}
MCHome    == [s \in MCStreams |-> c1]
=============================================================================
