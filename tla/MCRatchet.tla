------------------------------ MODULE MCRatchet ------------------------------
(***************************************************************************)
(* The ratchet sessions for TLC.  The .cfg files give the limits values in *)
(* the code's proportions: a chain holds twice the keys one frame may skip *)
(* (CHAIN_LIMIT = 2 * MAX_SKIP_PER_CHAIN), or, where a run asks what holds *)
(* while no limit binds, skip limits that a whole conversation fits in.    *)
(***************************************************************************)
EXTENDS RatchetFuzz

ASSUME DistinctValuesAssumption ==
  Cardinality({LowOrder, Foreign, None}) = 3

=============================================================================
