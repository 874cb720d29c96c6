---------------------------- MODULE MCCellRelay ----------------------------
(***************************************************************************)
(* Cells and relays for TLC.                                               *)
(***************************************************************************)
EXTENDS CellRelay

ASSUME DistinctValuesAssumption == None \notin Message

=============================================================================
