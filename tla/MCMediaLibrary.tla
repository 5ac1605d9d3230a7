--------------------------- MODULE MCMediaLibrary ---------------------------
(* A small instance of MediaLibrary. *)
EXTENDS MediaLibrary, TLC

CONSTANTS a, b, txt

MCFiles == {a, b, txt}
MCUnsupported == {txt}
FileSymmetry == Permutations({a, b})
=============================================================================
