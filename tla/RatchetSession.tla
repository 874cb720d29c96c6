---------------------------- MODULE RatchetSession ----------------------------
(***************************************************************************)
(* One Double Ratchet session as a value: what encrypt and decrypt answer, *)
(* and the session they leave (crates/quietwire-e2e/src/ratchet.rs).       *)
(*                                                                         *)
(* Keys are symbolic.  A DH secret is the set of the two public keys it    *)
(* joins, and a root key is the sequence of the secrets fed to kdf_root,   *)
(* from the shared key on.  kdf_root returns a root key and a chain key    *)
(* from one input, so that sequence names both.  A chain key advanced n    *)
(* times is named by the chain and n, and so is the message key that       *)
(* kdf_chain derives there.                                                *)
(***************************************************************************)
EXTENDS Integers, Sequences, FiniteSets, FiniteSetsExt, Functions

CONSTANTS
  CHAIN_LIMIT,          \* message keys a chain has (2 000)
  MAX_SKIP_PER_CHAIN,   \* keys one frame may skip, and a chain may keep (1 000)
  MAX_SKIPPED_TOTAL,    \* skipped keys a session may keep (10 000)
  LowOrder,             \* a public key of low order
  None

ASSUME LimitsAssumption ==
  /\ CHAIN_LIMIT \in Nat \ {0}
  /\ MAX_SKIP_PER_CHAIN \in Nat
  /\ MAX_SKIPPED_TOTAL \in Nat

-----------------------------------------------------------------------------
(* Key derivation *)

\* Mutant: the HKDF is not salted with the root key.
KdfRootUnsalted(root_key, own, remote) == <<{own, remote}>>

KdfRoot(root_key, own, remote) == Append(root_key, {own, remote})

ChainStart(key) == [key |-> key, next |-> 0]

KeyOf(chain, number) == [chain |-> chain, number |-> number]

\* Mutant: the header is not authenticated.
OpensWithoutHeader(key, f) == f.key = key

\* `open`: the AEAD accepts the ciphertext under its own key and header only.
Opens(key, f) == f.key = key /\ f.aad = f.header

-----------------------------------------------------------------------------
(* Cursor: how a frame's number and header move a chain *)

\* Mutant: the subtraction wraps.
SkipToWrapping(next, until) ==
  IF until > CHAIN_LIMIT \/ until < next \/ until - next > MAX_SKIP_PER_CHAIN
  THEN "TooFarAhead" ELSE "Ok"

\* saturating_sub: `until` behind `next` skips nothing.
SkipTo(next, until) ==
  IF until > CHAIN_LIMIT \/ until - next > MAX_SKIP_PER_CHAIN
  THEN "TooFarAhead" ELSE "Ok"

\* Mutant: the number the chain expects next counts as already used.
NumberResultRefusingNext(next, number) ==
  CASE number >= CHAIN_LIMIT -> "TooFarAhead"
    [] number < CHAIN_LIMIT /\ number <= next -> "Authentication"
    [] OTHER -> SkipTo(next, number)

\* Mutant: the last number of a chain is out of its range.
NumberResultShortChain(next, number) ==
  CASE number >= CHAIN_LIMIT - 1 -> "TooFarAhead"
    [] number < CHAIN_LIMIT - 1 /\ number < next -> "Authentication"
    [] OTHER -> SkipTo(next, number)

NumberResult(next, number) ==
  CASE number >= CHAIN_LIMIT -> "TooFarAhead"
    [] number < CHAIN_LIMIT /\ number < next -> "Authentication"
    [] OTHER -> SkipTo(next, number)

-----------------------------------------------------------------------------
(* SkippedKeys: the VecDeque is a function from a finite set of positions, *)
(* front to back in their order.                                           *)

\* Mutant: eviction starts from the back.
NewestFirst(positions, count) ==
  {i \in positions : Cardinality({j \in positions : j > i}) < count}

Oldest(positions, count) ==
  {i \in positions : Cardinality({j \in positions : j < i}) < count}

Without(deque, positions) == Restrict(deque, DOMAIN deque \ positions)

PushBack(deque, ratchet, chain, from, until) ==
  LET back == Max({0} \cup DOMAIN deque)
      Pushed(i) == from + (i - back - 1)
  IN  [i \in DOMAIN deque \cup (back + 1)..(back + until - from) |->
         IF i \in DOMAIN deque THEN deque[i]
         ELSE [ratchet |-> ratchet, number |-> Pushed(i), key |-> KeyOf(chain, Pushed(i))]]

EvictOldestOfChain(deque, ratchet) ==
  LET in_chain == {i \in DOMAIN deque : deque[i].ratchet = ratchet}
  IN  Without(deque, Oldest(in_chain, Cardinality(in_chain) - MAX_SKIP_PER_CHAIN))

\* Mutant: one key too many is kept.
PopFrontPastLimit(deque) ==
  Without(deque, Oldest(DOMAIN deque, Cardinality(DOMAIN deque) - MAX_SKIPPED_TOTAL - 1))

PopFrontToLimit(deque) ==
  Without(deque, Oldest(DOMAIN deque, Cardinality(DOMAIN deque) - MAX_SKIPPED_TOTAL))

\* The keys numbered from..until - 1 of `chain`, then both limits.
Extend(deque, ratchet, chain, from, until) ==
  PopFrontToLimit(EvictOldestOfChain(PushBack(deque, ratchet, chain, from, until), ratchet))

Keys(deque) == {deque[i].key : i \in DOMAIN deque}

EvictedBy(deque, ratchet, chain, from, until) ==
  Keys(PushBack(deque, ratchet, chain, from, until)) \ Keys(Extend(deque, ratchet, chain, from, until))

Matches(deque, header) ==
  {i \in DOMAIN deque : /\ deque[i].ratchet = header.ratchet
                        /\ deque[i].number = header.message_number}

\* The first match: the code opens and removes no other.
Position(deque, header) == Min(Matches(deque, header))

-----------------------------------------------------------------------------
(* Session::decrypt: what it answers, in the order the code finds it out *)

OpenResult(key, f) == IF Opens(key, f) THEN "Ok" ELSE "Authentication"

SkippedResult(s, f) == OpenResult(s.skipped[Position(s.skipped, f.header)].key, f)

ReceivingResult(s, f) ==
  CASE s.receiving = None -> "Authentication"
    [] s.receiving # None /\ NumberResult(s.receiving.next, f.header.message_number) # "Ok"
         -> NumberResult(s.receiving.next, f.header.message_number)
    [] OTHER -> OpenResult(KeyOf(s.receiving.key, f.header.message_number), f)

\* The first skip_to of a ratchet step, in the chain the peer has left.
PreviousResult(s, f) ==
  IF s.receiving = None THEN "Ok"
  ELSE SkipTo(s.receiving.next, f.header.previous_chain_len)

\* `fresh` is what next_ratchet() returns, None when the RNG fails.
StepResult(s, f, fresh) ==
  LET chain == KdfRoot(s.root_key, s.own_ratchet, f.header.ratchet)
  IN  CASE PreviousResult(s, f) # "Ok" -> PreviousResult(s, f)
        [] PreviousResult(s, f) = "Ok" /\ f.header.ratchet = LowOrder -> "InvalidPublicKey"
        [] PreviousResult(s, f) = "Ok" /\ f.header.ratchet # LowOrder /\ fresh = None -> "Rng"
        [] OTHER -> IF NumberResult(0, f.header.message_number) # "Ok"
                    THEN NumberResult(0, f.header.message_number)
                    ELSE OpenResult(KeyOf(chain, f.header.message_number), f)

IsSkipped(s, f) == Matches(s.skipped, f.header) # {}
InReceivingChain(s, f) == ~IsSkipped(s, f) /\ s.remote_ratchet = f.header.ratchet
AfterRatchetStep(s, f) == ~IsSkipped(s, f) /\ s.remote_ratchet # f.header.ratchet

DecryptResult(s, f, fresh) ==
  CASE IsSkipped(s, f) -> SkippedResult(s, f)
    [] InReceivingChain(s, f) -> ReceivingResult(s, f)
    [] AfterRatchetStep(s, f) -> StepResult(s, f, fresh)

-----------------------------------------------------------------------------
(* Sessions: how they start, and what a call leaves *)

\* Session::initiator: the first ratchet step is against the signed prekey.
InitiatorSession(shared_key, own_ratchet, signed_prekey) ==
  LET root_key == KdfRoot(shared_key, own_ratchet, signed_prekey)
  IN  [root_key |-> root_key,
       own_ratchet |-> own_ratchet,
       remote_ratchet |-> signed_prekey,
       sending |-> ChainStart(root_key),
       receiving |-> None,
       previous_sending_len |-> 0,
       skipped |-> << >>]

\* Session::responder: it cannot send before it has received.
ResponderSession(shared_key, signed_prekey) ==
  [root_key |-> shared_key,
   own_ratchet |-> signed_prekey,
   remote_ratchet |-> None,
   sending |-> None,
   receiving |-> None,
   previous_sending_len |-> 0,
   skipped |-> << >>]

\* Mutant: a chain never ends.
CanSendForever(s) == s.sending # None

CanSend(s) == s.sending # None /\ s.sending.next < CHAIN_LIMIT

NextHeader(s) ==
  [ratchet |-> s.own_ratchet,
   previous_chain_len |-> s.previous_sending_len,
   message_number |-> s.sending.next]

SealedFrame(s, plaintext) ==
  [header |-> NextHeader(s), aad |-> NextHeader(s),
   key |-> KeyOf(s.sending.key, s.sending.next), plaintext |-> plaintext]

\* Mutant: the advanced chain is not stored back.
AfterSealingUnmoved(s) == s

\* The session that encrypt leaves.
AfterSealing(s) == [s EXCEPT !.sending.next = s.sending.next + 1]

\* Mutant: a skipped key stays in the store after it has opened its frame.
AfterStoredKeyKept(s, h) == s

\* The session after a frame whose key was in the store.
AfterStoredKey(s, h) == [s EXCEPT !.skipped = Without(s.skipped, {Position(s.skipped, h)})]

\* Mutant: the receiving chain stops before the key it has just used.
AfterReceivingShort(s, h) ==
  [s EXCEPT !.skipped = Extend(s.skipped, h.ratchet, s.receiving.key, s.receiving.next,
                               h.message_number),
            !.receiving.next = h.message_number]

\* The session after a frame of its receiving chain.
AfterReceiving(s, h) ==
  [s EXCEPT !.skipped = Extend(s.skipped, h.ratchet, s.receiving.key, s.receiving.next,
                               h.message_number),
            !.receiving.next = h.message_number + 1]

\* Mutant: the keys left in the peer's previous chain are not kept.
SkippedOfPreviousForgotten(s, h) == s.skipped

\* What is kept of the chain the peer has left.
SkippedOfPrevious(s, h) ==
  IF s.receiving = None \/ s.remote_ratchet = None THEN s.skipped
  ELSE Extend(s.skipped, s.remote_ratchet, s.receiving.key, s.receiving.next, h.previous_chain_len)

EvictedOfPrevious(s, h) ==
  IF s.receiving = None \/ s.remote_ratchet = None THEN {}
  ELSE EvictedBy(s.skipped, s.remote_ratchet, s.receiving.key, s.receiving.next, h.previous_chain_len)

\* Mutant: the length is taken from the chain that has just started.
PreviousSendingLenOfNewChain(s) == 0

PreviousSendingLen(s) == IF s.sending = None THEN 0 ELSE s.sending.next

\* Mutant: the root key of the sending half of the step is dropped.
RatchetStepHalfRooted(s, h, fresh) ==
  LET received == KdfRoot(s.root_key, s.own_ratchet, h.ratchet)
  IN  [root_key |-> received,
       own_ratchet |-> fresh,
       remote_ratchet |-> h.ratchet,
       sending |-> ChainStart(KdfRoot(received, fresh, h.ratchet)),
       receiving |-> [key |-> received, next |-> h.message_number + 1],
       previous_sending_len |-> PreviousSendingLen(s),
       skipped |-> Extend(SkippedOfPrevious(s, h), h.ratchet, received, 0, h.message_number)]

\* Mutant: a session that already has a sending chain keeps it.
RatchetStepKeepingSending(s, h, fresh) ==
  LET received == KdfRoot(s.root_key, s.own_ratchet, h.ratchet)
      replied == KdfRoot(received, fresh, h.ratchet)
  IN  [root_key |-> replied,
       own_ratchet |-> fresh,
       remote_ratchet |-> h.ratchet,
       sending |-> IF s.sending = None THEN ChainStart(replied) ELSE s.sending,
       receiving |-> [key |-> received, next |-> h.message_number + 1],
       previous_sending_len |-> PreviousSendingLen(s),
       skipped |-> Extend(SkippedOfPrevious(s, h), h.ratchet, received, 0, h.message_number)]

\* Mutant: the own ratchet key stays in use.
RatchetStepReusingKey(s, h, fresh) ==
  LET received == KdfRoot(s.root_key, s.own_ratchet, h.ratchet)
      replied == KdfRoot(received, s.own_ratchet, h.ratchet)
  IN  [s EXCEPT !.root_key = replied,
                !.remote_ratchet = h.ratchet,
                !.sending = ChainStart(replied),
                !.receiving = [key |-> received, next |-> h.message_number + 1],
                !.previous_sending_len = PreviousSendingLen(s),
                !.skipped = Extend(SkippedOfPrevious(s, h), h.ratchet, received, 0, h.message_number)]

\* The DH ratchet step: a receiving chain against the own key in use, then a
\* new own key and the sending chain it opens.
RatchetStep(s, h, fresh) ==
  LET received == KdfRoot(s.root_key, s.own_ratchet, h.ratchet)
      replied == KdfRoot(received, fresh, h.ratchet)
  IN  [root_key |-> replied,
       own_ratchet |-> fresh,
       remote_ratchet |-> h.ratchet,
       sending |-> ChainStart(replied),
       receiving |-> [key |-> received, next |-> h.message_number + 1],
       previous_sending_len |-> PreviousSendingLen(s),
       skipped |-> Extend(SkippedOfPrevious(s, h), h.ratchet, received, 0, h.message_number)]

-----------------------------------------------------------------------------
\* The message keys a session's secrets give away, to one who also knows every
\* public key: kept keys, the rest of both chains, and every chain that the
\* root key and the own ratchet key lead to.
Derivable(s, key) ==
  \/ key \in Keys(s.skipped)
  \/ \E chain \in {s.sending, s.receiving} \ {None} :
       key.chain = chain.key /\ key.number >= chain.next
  \/ /\ Len(key.chain) > Len(s.root_key)
     /\ SubSeq(key.chain, 1, Len(s.root_key)) = s.root_key
     /\ \A i \in Len(s.root_key) + 1..Len(key.chain) : s.own_ratchet \in key.chain[i]

=============================================================================
