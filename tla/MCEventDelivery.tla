-------------------------- MODULE MCEventDelivery ---------------------------
(* An importer and the GUI thread against two listeners. *)
EXTENDS EventDelivery

CONSTANTS gui, i1, l1, l2

MCImporters == {i1}
MCListeners == {l1, l2}
=============================================================================
