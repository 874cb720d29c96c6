--------------------------- MODULE MCKeyHierarchy ---------------------------
(***************************************************************************)
(* The key hierarchy for TLC.  Passwords and salts are only compared.      *)
(***************************************************************************)
EXTENDS KeyHierarchy, TLC

Secrets == Permutations(Password) \cup Permutations(Salt)

=============================================================================
