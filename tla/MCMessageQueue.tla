--------------------------- MODULE MCMessageQueue ---------------------------
(* Two getters and two kinds of samples on a queue of two places.          *)
EXTENDS MessageQueue

CONSTANTS a, b, g1, g2
MCItems == {a, b}
MCGetters == {g1, g2}
=============================================================================
