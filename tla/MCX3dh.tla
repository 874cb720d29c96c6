------------------------------- MODULE MCX3dh -------------------------------
(***************************************************************************)
(* Session establishment for TLC: two parties that start sessions with     *)
(* each other in both directions.                                          *)
(***************************************************************************)
EXTENDS X3dh

ASSUME DistinctValuesAssumption == Cardinality({Foreign, LowOrder, None} \cup Party) = Cardinality(Party) + 3

=============================================================================
