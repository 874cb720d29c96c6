----------------------------- MODULE RatchetFuzz -----------------------------
(***************************************************************************)
(* The fuzz target tools/fuzz/fuzz_targets/ratchet_session.rs: what it     *)
(* asserts of two sessions after any MAX_ACTIONS sends, deliveries and     *)
(* tamperings.  A frame's inbox is `sent` of the peer, and the flag that   *)
(* marks it as read is `opened`.                                           *)
(*                                                                         *)
(* The target knows nothing of the ratchet's limits: it is right because   *)
(* an input is too short to reach them.                                    *)
(***************************************************************************)
EXTENDS RatchetOnce

CONSTANT MAX_ACTIONS  \* actions of one input that are applied (256)

ASSUME HarnessAssumption == MAX_ACTIONS \in Nat

bob_has_received == opened["Bob"] # {}

\* `tampered`: one byte of the header or of the rest.
Tampered(f) ==
  (UNION {DamagedIn(f, part) : part \in {"ratchet", "previous_chain_len", "message_number", "body"}})
    \ {f}

\* send: Bob is blocked until he has received, and nobody else ever is.
SendPanics(from) == CanSend(session[from]) = (from = "Bob" /\ ~bob_has_received)

\* deliver: a duplicate is an authentication error, any other frame opens.
DeliverPanics(to, f) ==
  Answer(to, f) # IF f \in opened[to] THEN "Authentication" ELSE "Ok"

\* tamper: an altered frame opens nothing.
TamperPanics(to, f) == \E g \in Tampered(f) : Answer(to, g) = "Ok"

\* An input has an action left: each frame that was sealed has cost one.
ActionsLeft == sealed["Alice"] + sealed["Bob"] < MAX_ACTIONS

\* QW-F-E2E-082: no input makes an assertion of the fuzz target fail.
HarnessNeverPanics ==
  ActionsLeft =>
    \A p \in Party :
      /\ ~SendPanics(p)
      /\ \A f \in sent[Peer(p)] : ~DeliverPanics(p, f) /\ ~TamperPanics(p, f)

=============================================================================
