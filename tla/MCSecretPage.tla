---------------------------- MODULE MCSecretPage ----------------------------
(***************************************************************************)
(* Keys and their pages for TLC.                                           *)
(***************************************************************************)
EXTENDS SecretPage

ASSUME DistinctValuesAssumption == Key \cap {Zeroed, Partial} = {}

=============================================================================
