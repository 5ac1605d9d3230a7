--------------------------- MODULE MCNeighborTree ---------------------------
(* Trees over a handful of media. *)
EXTENDS NeighborTree

CONSTANTS m1, m2, m3, m4, m5

MCValues == {m1, m2, m3, m4, m5}
=============================================================================
