-------------------------- MODULE MCPlateEventStream --------------------------
(* The instance of PlateEventStream for TLC.  One callback brings three events,
   one brings two.  With a budget of 4 an eviction may be due to the number of
   events alone (e1 and e2, then e3), to the bytes alone (e3, then e4) or to
   both, e4 may have to evict twice, and e5 can never fit. *)
EXTENDS PlateEventStream

CONSTANTS e1, e2, e3, e4, e5, c1, c2, r1, r2

MCEvent    == {e1, e2, e3, e4, e5}
MCCallback == {c1, c2}
MCReader   == {r1, r2}
MCPoller   == {r2}
MCEventsOf == [c \in MCCallback |-> IF c = c1 THEN <<e1, e2, e3>> ELSE <<e4, e5>>]
MCBytes    == [e \in MCEvent |-> CASE e = e1 -> 1
                                   [] e = e2 -> 1
                                   [] e = e3 -> 2
                                   [] e = e4 -> 3
                                   [] e = e5 -> 5]
=============================================================================
