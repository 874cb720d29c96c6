------------------------------- MODULE Ratchet -------------------------------
(***************************************************************************)
(* The Double Ratchet sessions of crates/quietwire-e2e/src/ratchet.rs: the *)
(* X3DH initiator (Alice) and the responder (Bob), joined by a carrier     *)
(* that may lose, delay, reorder, duplicate, reflect and damage frames.    *)
(*                                                                         *)
(* What a call does to one session is in RatchetSession.  A ratchet key    *)
(* pair is <<party, index>>.                                               *)
(***************************************************************************)
EXTENDS RatchetSession

CONSTANTS
  MaxChains,            \* bound: only the first MaxChains sending chains carry frames
  Damage,               \* the parts of a frame the carrier may alter
  Foreign               \* a valid public key that neither party owns

ASSUME BoundAssumption == MaxChains \in Nat

ASSUME DamageAssumption ==
  Damage \subseteq {"ratchet", "previous_chain_len", "message_number", "body"}

VARIABLES
  session,  \* session[p]: the Session of party p
  sent,     \* sent[p]: the frames p has sealed; each may arrive any number of times
  opened,   \* opened[p]: the frames that yielded p their plaintext (history)
  evicted,  \* evicted[p]: the message keys that p's limits dropped (history)
  sealed,   \* sealed[p]: how many frames encrypt has returned to p (history)
  returned  \* returned[p]: how many plaintexts decrypt has returned to p (history)

vars == <<session, sent, opened, evicted, sealed, returned>>

Party == {"Alice", "Bob"}
Peer(p) == IF p = "Alice" THEN "Bob" ELSE "Alice"

RatchetKey == Party \X Nat
PublicKey == RatchetKey \cup {LowOrder, Foreign}
RootKey == Seq(SUBSET PublicKey)
MessageKey == [chain : RootKey, number : Nat]
Chain == [key : RootKey, next : Nat]
Header == [ratchet : PublicKey, previous_chain_len : Nat, message_number : Nat]

\* A sealed frame: the header as it arrives, and of the ciphertext the key that
\* sealed it (None: the ciphertext is damaged), the header it was sealed with and
\* the plaintext, named by the encrypt call it was passed to.
Frame == [header : Header, key : MessageKey \cup {None}, aad : Header, plaintext : Nat]

SkippedKey == [ratchet : PublicKey, number : Nat, key : MessageKey]

ASSUME NoneAssumption == None \notin MessageKey /\ None \notin Chain

\* No key pair that generate returns is one of low order.
ASSUME KeysAssumption == LowOrder \notin RatchetKey /\ None \notin RatchetKey

-----------------------------------------------------------------------------
(* The two sessions *)

\* PrivateKey::generate: a key pair no party has used before.
Generate(own) == <<own[1], own[2] + 1>>

SharedKey == << >>

Init ==
  /\ session = [p \in Party |->
                  IF p = "Alice"
                  THEN InitiatorSession(SharedKey, <<"Alice", 0>>, <<"Bob", 0>>)
                  ELSE ResponderSession(SharedKey, <<"Bob", 0>>)]
  /\ sent = [p \in Party |-> {}]
  /\ opened = [p \in Party |-> {}]
  /\ evicted = [p \in Party |-> {}]
  /\ sealed = [p \in Party |-> 0]
  /\ returned = [p \in Party |-> 0]

NextFrame(p) == SealedFrame(session[p], sealed[p])

\* encrypt returns a frame to p.
Seals(p) ==
  /\ CanSend(session[p])
  /\ Len(session[p].root_key) <= MaxChains
  /\ sent' = [sent EXCEPT ![p] = @ \cup {NextFrame(p)}]
  /\ sealed' = [sealed EXCEPT ![p] = @ + 1]
  /\ UNCHANGED <<opened, evicted, returned>>

Encrypt(p) ==
  /\ Seals(p)
  /\ session' = [session EXCEPT ![p] = AfterSealing(session[p])]

\* SendingBlocked.  A nonce the RNG cannot draw leaves the session alone as well.
EncryptRefused(p) == ~CanSend(session[p]) /\ UNCHANGED vars

\* decrypt returns the plaintext of f to p.
Returns(p, f) ==
  /\ opened' = [opened EXCEPT ![p] = @ \cup {f}]
  /\ returned' = [returned EXCEPT ![p] = @ + 1]
  /\ UNCHANGED <<sent, sealed>>

\* The frame's key was skipped earlier and is still kept.
DecryptSkipped(p, f) ==
  LET s == session[p]
  IN  /\ IsSkipped(s, f)
      /\ SkippedResult(s, f) = "Ok"
      /\ session' = [session EXCEPT ![p] = AfterStoredKey(s, f.header)]
      /\ Returns(p, f)
      /\ UNCHANGED evicted

DecryptInReceivingChain(p, f) ==
  LET s == session[p]
      h == f.header
  IN  /\ InReceivingChain(s, f)
      /\ ReceivingResult(s, f) = "Ok"
      /\ session' = [session EXCEPT ![p] = AfterReceiving(s, h)]
      /\ Returns(p, f)
      /\ evicted' = [evicted EXCEPT ![p] = @ \cup
           EvictedBy(s.skipped, h.ratchet, s.receiving.key, s.receiving.next, h.message_number)]

DecryptAfterRatchetStep(p, f) ==
  LET s == session[p]
      h == f.header
      fresh == Generate(s.own_ratchet)
  IN  /\ AfterRatchetStep(s, f)
      /\ StepResult(s, f, fresh) = "Ok"
      /\ session' = [session EXCEPT ![p] = RatchetStep(s, h, fresh)]
      /\ Returns(p, f)
      /\ evicted' = [evicted EXCEPT ![p] = @ \cup EvictedOfPrevious(s, h) \cup
           EvictedBy(SkippedOfPrevious(s, h), h.ratchet,
                     KdfRoot(s.root_key, s.own_ratchet, h.ratchet), 0, h.message_number)]

\* Mutant: the receiving chain is moved before the frame is opened.
DecryptRefusedAfterSkipping(p, f) ==
  LET s == session[p]
  IN  /\ DecryptResult(s, f, Generate(s.own_ratchet)) # "Ok"
      /\ InReceivingChain(s, f) /\ s.receiving # None
      /\ NumberResult(s.receiving.next, f.header.message_number) = "Ok"
      /\ session' = [session EXCEPT ![p].receiving.next = f.header.message_number + 1]
      /\ UNCHANGED <<sent, opened, evicted, sealed, returned>>

\* Every error returns before the session is written.
DecryptRefused(p, f) ==
  /\ \E fresh \in {Generate(session[p].own_ratchet), None} :
        DecryptResult(session[p], f, fresh) # "Ok"
  /\ UNCHANGED vars

Decrypt(p, f) ==
  \/ DecryptSkipped(p, f)
  \/ DecryptInReceivingChain(p, f)
  \/ DecryptAfterRatchetStep(p, f)
  \/ DecryptRefused(p, f)

-----------------------------------------------------------------------------
(* The carrier: any frame ever sealed, by either party, whole or damaged *)

Carried == sent["Alice"] \cup sent["Bob"]

DamagedIn(f, part) ==
  CASE part = "ratchet" ->
         {[f EXCEPT !.header.ratchet = r] :
            r \in {LowOrder, Foreign} \cup {g.header.ratchet : g \in Carried}}
    [] part = "previous_chain_len" ->
         {[f EXCEPT !.header.previous_chain_len = n] : n \in 0..CHAIN_LIMIT + 1}
    [] part = "message_number" ->
         {[f EXCEPT !.header.message_number = n] : n \in 0..CHAIN_LIMIT + 1}
    [] part = "body" -> {[f EXCEPT !.key = None]}

Damaged(f) == UNION {DamagedIn(f, part) : part \in Damage}

Next ==
  \E p \in Party :
    \/ Encrypt(p) \/ EncryptRefused(p)
    \/ \E g \in Carried : \E f \in {g} \cup Damaged(g) : Decrypt(p, f)

Spec == Init /\ [][Next]_vars

\* A genuine frame reaches the peer and opens.
Deliver(p) ==
  \E f \in sent[Peer(p)] :
    DecryptSkipped(p, f) \/ DecryptInReceivingChain(p, f) \/ DecryptAfterRatchetStep(p, f)

\* Each party goes on sending while it can, and a carrier that always has an
\* openable frame for a party eventually hands one over.
Fairness == \A p \in Party : WF_vars(Encrypt(p)) /\ WF_vars(Deliver(p))

FairSpec == Spec /\ Fairness

-----------------------------------------------------------------------------
(* Types *)

IsDeque(deque) ==
  /\ DOMAIN deque \in SUBSET (Nat \ {0})
  /\ IsFiniteSet(DOMAIN deque)
  /\ \A i \in DOMAIN deque : deque[i] \in SkippedKey

IsSession(s) ==
  /\ s = [root_key |-> s.root_key, own_ratchet |-> s.own_ratchet,
          remote_ratchet |-> s.remote_ratchet, sending |-> s.sending,
          receiving |-> s.receiving, previous_sending_len |-> s.previous_sending_len,
          skipped |-> s.skipped]
  /\ s.root_key \in RootKey
  /\ s.own_ratchet \in RatchetKey
  /\ s.remote_ratchet \in PublicKey \cup {None}
  /\ s.sending \in Chain \cup {None}
  /\ s.receiving \in Chain \cup {None}
  /\ s.previous_sending_len \in Nat
  /\ IsDeque(s.skipped)

\* Every variable keeps its type, and every key a session names is well formed.
TypeOK ==
  /\ DOMAIN session = Party /\ \A p \in Party : IsSession(session[p])
  /\ sent \in [Party -> SUBSET Frame]
  /\ opened \in [Party -> SUBSET Frame]
  /\ evicted \in [Party -> SUBSET MessageKey]
  /\ sealed \in [Party -> Nat]
  /\ returned \in [Party -> Nat]

-----------------------------------------------------------------------------
(* Safety *)

\* What decrypt answers when the RNG works.
Answer(p, f) == DecryptResult(session[p], f, Generate(session[p].own_ratchet))

\* QW-P-E2E-062: whatever arrived since, in whatever order, a frame that has
\* opened once is refused from then on.
OpensAtMostOnce == \A p \in Party : \A f \in opened[p] : Answer(p, f) # "Ok"

\* QW-P-E2E-060, 061: while the peer's frame is unopened the session never
\* mistakes it for a forgery.  It opens, or is too far ahead for now, or one of
\* the two limits has dropped its key.
OpensUnlessEvicted ==
  \A p \in Party : \A f \in sent[Peer(p)] \ opened[p] :
    f.key \in evicted[p] \/ Answer(p, f) \in {"Ok", "TooFarAhead"}

\* QW-P-E2E-060, 061 where the limits never bind: any unopened frame of the
\* peer opens next, no matter which others arrived before it or were lost.
EveryFrameOpens ==
  \A p \in Party : \A f \in sent[Peer(p)] \ opened[p] : Answer(p, f) = "Ok"

\* QW-P-E2E-063: only what the peer sealed opens: no damaged frame, and no
\* frame of one's own that the carrier turns back.
OpensOnlyThePeers == \A p \in Party : opened[p] \subseteq sent[Peer(p)]

\* The module comment of ratchet.rs: a session only changes when it seals a
\* frame or when a frame authenticates.
OnlyAuthenticFramesChangeASession ==
  [][\A p \in Party : session'[p] # session[p] =>
        \/ sent'[p] # sent[p]
        \/ \E f \in opened'[p] \ opened[p] : f.aad = f.header /\ f.key # None]_vars

\* QW-P-E2E-067: the store never outgrows the limit of a chain nor its own.
SkippedKeysBounded ==
  \A p \in Party :
    LET deque == session[p].skipped
    IN  /\ Cardinality(DOMAIN deque) <= MAX_SKIPPED_TOTAL
        /\ \A i \in DOMAIN deque :
             Cardinality({j \in DOMAIN deque : deque[j].ratchet = deque[i].ratchet})
               <= MAX_SKIP_PER_CHAIN

\* QW-P-E2E-067: eviction is oldest first: within a chain every key dropped is
\* older than every key kept.
EvictsOldestFirst ==
  \A p \in Party : \A key \in evicted[p] : \A i \in DOMAIN session[p].skipped :
    LET kept == session[p].skipped[i].key
    IN  kept.chain = key.chain => key.number < kept.number

\* QW-P-E2E-064: neither what a party has sealed nor what it has opened can be
\* opened with the state it holds now.
ForwardSecrecy ==
  \A p \in Party : \A f \in sent[p] \cup opened[p] : ~Derivable(session[p], f.key)

\* The two sessions take turns: their root keys agree up to one DH secret, that
\* of the chain one has opened and the other has not seen yet.
RootKeysInStep ==
  \E p \in Party :
    LET ahead == session[p].root_key
        behind == session[Peer(p)].root_key
    IN  Len(ahead) = Len(behind) + 1 /\ SubSeq(ahead, 1, Len(behind)) = behind

\* A receiving chain is the peer's sending chain, or the one the peer has left,
\* and is never advanced past what the peer has sealed on it.
ReceivesOnlySealedNumbers ==
  \A p \in Party : session[p].receiving # None =>
    LET receiving == session[p].receiving
        peer == session[Peer(p)]
    IN  receiving.next <= IF peer.sending.key = receiving.key
                          THEN peer.sending.next ELSE peer.previous_sending_len

-----------------------------------------------------------------------------
(* Liveness, under FairSpec *)

SealedAt(p, chain, number) ==
  {f \in sent[p] : Len(f.key.chain) = chain /\ f.key.number = number}

\* QW-P-E2E-060: a carrier that keeps handing over frames gets every one of
\* them opened, except those whose keys the limits drop: being too far ahead
\* is never final while the frames in between are still coming.
EverySealedFrameSettles ==
  \A p \in Party, chain \in 1..MaxChains, number \in 0..CHAIN_LIMIT - 1 :
    SealedAt(Peer(p), chain, number) # {} ~>
      \E f \in SealedAt(Peer(p), chain, number) : f \in opened[p] \/ f.key \in evicted[p]

\* The chain limit and the responder's wait are temporary: a party that cannot
\* send can send again, as long as its peer may still answer (MaxChains).
SendingResumes ==
  \A p \in Party :
    ~CanSend(session[p]) /\ Len(session[p].root_key) < MaxChains ~> CanSend(session[p])

-----------------------------------------------------------------------------
(* What the documentation says and the code does not do *)

\* ratchet.rs, Error::Crypto: a replay is answered with Authentication.
ReplayIsAnAuthenticationError ==
  \A p \in Party : \A f \in opened[p] : Answer(p, f) = "Authentication"

\* ratchet.rs, Error::SendingBlocked: sending resumes once a frame from the
\* peer is received.
PeerFrameResumesSending ==
  [][\A p \in Party : opened'[p] # opened[p] => CanSend(session'[p])]_vars

=============================================================================
