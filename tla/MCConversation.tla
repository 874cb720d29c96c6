---------------------------- MODULE MCConversation ----------------------------
(***************************************************************************)
(* All sessions of two parties for TLC.  The parties are interchangeable:  *)
(* each may start and answer, and only safety is checked.                  *)
(***************************************************************************)
EXTENDS Conversation, TLC

Parties == Permutations(Party)

ASSUME DistinctValuesAssumption == Cardinality({Foreign, LowOrder, None} \cup Party) = Cardinality(Party) + 3

=============================================================================
