------------------------- MODULE MCAtomicEventQueue -------------------------
(* Two producers racing for the two entries of an AtomicEventQueue. *)
EXTENDS AtomicEventQueue

CONSTANTS p1, p2, e1, e2, e3

MCProducers == {p1, p2}
MCEvents == {e1, e2, e3}
=============================================================================
