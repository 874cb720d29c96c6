----------------------------- MODULE RatchetOnce -----------------------------
(***************************************************************************)
(* Two ratchet sessions implement the channel of OnceChannel.  A message   *)
(* is a plaintext with the key that sealed it; the header is the ratchet's *)
(* own business.                                                           *)
(***************************************************************************)
EXTENDS Ratchet

Messages(frames) == {[key |-> f.key, plaintext |-> f.plaintext] : f \in frames}

Once == INSTANCE OnceChannel WITH
  sent <- [p \in Party |-> Messages(sent[p])],
  opened <- [p \in Party |-> Messages(opened[p])]

\* Every behaviour of the two sessions, whatever the carrier does, is one of the
\* abstract channel: no key seals two frames (ADR-0020), and each decrypt that
\* succeeds returns a message of the peer's that was never returned before
\* (QW-P-E2E-060, 062, 063).
ImplementsOnceChannel == Once!Spec

-----------------------------------------------------------------------------
(* Why: the inductive invariant of the proof.  A chain is told from another *)
(* by the length of its root key: Alice's own chains have odd lengths and   *)
(* Bob's even ones, and each ratchet step makes the root key two longer.    *)

Turn(p) == IF p = "Alice" THEN 1 ELSE 0

\* Sending uses the newest root key, and only numbers below `next` were sealed.
SealedKeysUsed(p, s, frames) ==
  /\ Len(s.root_key) % 2 = Turn(p)
  /\ s.sending = None => frames = {}
  /\ s.sending # None => s.sending.key = s.root_key
  /\ \A f \in frames :
       /\ f.key \in MessageKey
       /\ f.aad = f.header
       /\ Len(f.key.chain) <= Len(s.root_key)
       /\ Len(f.key.chain) % 2 = Turn(p)
       /\ f.key.chain = s.root_key => f.key.number < s.sending.next

\* A key the receiving side has passed: its chain is no longer than the root
\* key, and the receiving chain itself has moved beyond its number.
Passed(p, s, key) ==
  /\ Len(key.chain) <= Len(s.root_key)
  /\ Len(key.chain) % 2 = 1 - Turn(p)
  /\ s.receiving # None /\ key.chain = s.receiving.key => key.number < s.receiving.next

\* Opened frames and stored keys are behind the receiving chain, every stored
\* key is stored once, and none of them is the key of an opened frame.
OpenedKeysSpent(p, s, frames) ==
  /\ s.receiving # None => /\ Len(s.receiving.key) <= Len(s.root_key)
                           /\ Len(s.receiving.key) % 2 = 1 - Turn(p)
  /\ \A f \in frames : /\ f.key \in MessageKey
                       /\ Passed(p, s, f.key)
                       /\ f.key \notin Keys(s.skipped)
  /\ \A i \in DOMAIN s.skipped : Passed(p, s, s.skipped[i].key)
  /\ \A i, j \in DOMAIN s.skipped : s.skipped[i].key = s.skipped[j].key => i = j

\* Each message key is in one place only: yet to be derived, stored, or used.
OnceInv ==
  \A p \in Party : /\ SealedKeysUsed(p, session[p], sent[p])
                   /\ OpenedKeysSpent(p, session[p], opened[p])
                   /\ opened[p] \subseteq sent[Peer(p)]

=============================================================================
