--------------------------- MODULE MCMediaBrowser ---------------------------
(* A few media, told apart but for the first. *)
EXTENDS MediaBrowser, TLC

CONSTANTS m1, m2, m3, m4

MCMedia == {zero, m1, m2, m3, m4}

Symmetry == Permutations(MCMedia \ {zero})
=============================================================================
