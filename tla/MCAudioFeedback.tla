--------------------------- MODULE MCAudioFeedback ---------------------------
(* Small instances of AudioFeedback. *)
EXTENDS AudioFeedback

CONSTANTS osc

MCRemotes == {osc}
NoRemotes == {}
=============================================================================
