--------------------------- MODULE MCOfflineSync ---------------------------
(* Sales and overlapping calls for OfflineSync. *)
EXTENDS OfflineSync

CONSTANTS c1, c2

MCVentas == {1, 2}
MCAntiguas == {1}
MCNinguna == {}
MCLlamadas == {c1, c2}
MCUna == {c1}
=============================================================================
