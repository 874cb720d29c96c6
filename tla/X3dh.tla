--------------------------------- MODULE X3dh ---------------------------------
(***************************************************************************)
(* Session establishment, crates/quietwire-e2e/src/x3dh.rs: parties start  *)
(* sessions from each other's prekey bundles and answer initial messages,  *)
(* which a carrier may repeat, misdirect and alter.  Neither call keeps    *)
(* state; what the two sides hold, and whether it agrees, is the history   *)
(* of the calls.                                                           *)
(*                                                                         *)
(* Keys are symbolic.  An X25519 key pair is <<owner, use, index>>, a DH   *)
(* secret the set of the two public keys, and a KEM secret the key that    *)
(* decapsulates with the ciphertext.  The HKDF and the transcript hash are *)
(* injective: a shared key is what went into it.                           *)
(***************************************************************************)
EXTENDS Integers, Sequences, FiniteSets

CONSTANTS
  Party,         \* each has an identity, a signed prekey and one-time prekeys
  OneTime,       \* the indices of the one-time prekeys a party has
  Altered,       \* what may differ between the two sides' views
  Foreign,       \* whoever made a substituted ephemeral key or ciphertext
  LowOrder,      \* a public key of low order
  None,
  MaxStarts,     \* bound: calls of initiate
  MaxAnswers     \* bound: calls of respond that succeed

ASSUME AlteredAssumption ==
  Altered \subseteq {"bundle", "identity", "ephemeral", "kem_ciphertext"}

ASSUME BoundsAssumption == MaxStarts \in Nat /\ MaxAnswers \in Nat

ASSUME NamesAssumption ==
  /\ Foreign \notin Party
  /\ OneTime \subseteq Nat

VARIABLES
  starts,   \* the sessions started: what the initiator used, sent and derived
  answers,  \* the initial messages answered: what the responder used and derived
  drawn     \* how many ephemeral keys, and KEM seeds, have been generated

vars == <<starts, answers, drawn>>

-----------------------------------------------------------------------------
(* Keys and messages *)

IdentityDh(p) == <<p, "identity", 0>>
SignedPrekey(p) == <<p, "signed", 0>>
OneTimePrekey(p, i) == <<p, "one_time", i>>
Ephemeral(p, n) == <<p, "ephemeral", n>>

OneTimePrekeys(p) == {OneTimePrekey(p, i) : i \in OneTime}

KemKey(p) == <<p, "kem", 0>>

Owner(key) == key[1]

\* The signing key and the KEM key of an identity are named by their owner.
Identity(p) == [sign |-> p, dh |-> IdentityDh(p), kem |-> p]

IdentityPublic ==
  [sign : Party, dh : {IdentityDh(p) : p \in Party} \cup {LowOrder}, kem : Party]

Ciphertext(kem, seed) == [kem |-> kem, seed |-> seed]

\* The bundle of p's keys; one_time_prekey is one of p's, or None.
Bundle(p, one_time_prekey) ==
  [identity |-> Identity(p), signed_prekey |-> SignedPrekey(p),
   one_time_prekey |-> one_time_prekey]

-----------------------------------------------------------------------------
(* The secrets and the key they give *)

Dh(own, peer) == [dh |-> {own, peer}]

\* A ciphertext made for another key decapsulates too, to a secret that only
\* this key and this ciphertext give (implicit rejection).
Decapsulated(kem, ciphertext) == [kem |-> kem, ciphertext |-> ciphertext]

Encapsulated(ciphertext) == Decapsulated(ciphertext.kem, ciphertext)

\* Mutant: the secrets end with the last Diffie-Hellman.
ClassicalSecrets(dh1, dh2, dh3, dh4, kem) == <<dh1, dh2, dh3>> \o dh4

Secrets(dh1, dh2, dh3, dh4, kem) == <<dh1, dh2, dh3>> \o dh4 \o <<kem>>

InitiatorSecrets(p, bundle, message) ==
  LET ek == message.ephemeral
  IN  Secrets(Dh(IdentityDh(p), bundle.signed_prekey), Dh(ek, bundle.identity.dh),
              Dh(ek, bundle.signed_prekey),
              IF bundle.one_time_prekey = None THEN <<>>
              ELSE <<Dh(ek, bundle.one_time_prekey)>>,
              Encapsulated(message.kem_ciphertext))

\* Mutant: the responder takes DH1 with the ephemeral key.
ResponderSecretsWithoutIdentity(p, one_time_prekey, initiator, message) ==
  LET ek == message.ephemeral
  IN  Secrets(Dh(SignedPrekey(p), ek), Dh(IdentityDh(p), ek), Dh(SignedPrekey(p), ek),
              IF one_time_prekey = None THEN <<>> ELSE <<Dh(one_time_prekey, ek)>>,
              Decapsulated(p, message.kem_ciphertext))

ResponderSecrets(p, one_time_prekey, initiator, message) ==
  LET ek == message.ephemeral
  IN  Secrets(Dh(SignedPrekey(p), initiator.dh), Dh(IdentityDh(p), ek),
              Dh(SignedPrekey(p), ek),
              IF one_time_prekey = None THEN <<>> ELSE <<Dh(one_time_prekey, ek)>>,
              Decapsulated(p, message.kem_ciphertext))

\* Mutant: the transcript names the initiator by its DH key alone.
TranscriptOfDhKeys(initiator, bundle, message) == <<initiator.dh, bundle, message>>

Transcript(initiator, bundle, message) == <<initiator, bundle, message>>

SharedKey(secrets, transcript) == [secrets |-> secrets, transcript |-> transcript]

-----------------------------------------------------------------------------
(* The calls *)

\* diffie_hellman refuses a low-order key before anything is derived from it.
UsableBundle(bundle) ==
  LowOrder \notin {bundle.identity.dh, bundle.signed_prekey, bundle.one_time_prekey}

UsableMessage(initiator, message) == LowOrder \notin {initiator.dh, message.ephemeral}

NextMessage(p, bundle) ==
  [ephemeral |-> Ephemeral(p, drawn),
   kem_ciphertext |-> Ciphertext(bundle.identity.kem, <<p, drawn>>)]

\* Mutant: the ephemeral key and the encapsulation are kept for the next bundle.
InitiateKeepingEphemeral(p, bundle) ==
  LET message == NextMessage(p, bundle)
  IN  /\ UsableBundle(bundle)
      /\ starts' = Append(starts,
           [initiator |-> p, bundle |-> bundle, message |-> message,
            key |-> SharedKey(InitiatorSecrets(p, bundle, message),
                              Transcript(Identity(p), bundle, message))])
      /\ UNCHANGED <<drawn, answers>>

\* `initiate` returns Ok.
Initiate(p, bundle) ==
  LET message == NextMessage(p, bundle)
  IN  /\ UsableBundle(bundle)
      /\ drawn' = drawn + 1
      /\ starts' = Append(starts,
           [initiator |-> p, bundle |-> bundle, message |-> message,
            key |-> SharedKey(InitiatorSecrets(p, bundle, message),
                              Transcript(Identity(p), bundle, message))])
      /\ UNCHANGED answers

\* `initiate` returns InvalidPublicKey, after it has drawn both.
InitiateRefused(p, bundle) ==
  /\ ~UsableBundle(bundle)
  /\ drawn' = drawn + 1
  /\ UNCHANGED <<starts, answers>>

\* The key that `respond` returns.
ResponderKey(p, one_time_prekey, initiator, message) ==
  SharedKey(ResponderSecrets(p, one_time_prekey, initiator, message),
            Transcript(initiator, Bundle(p, one_time_prekey), message))

\* `respond` returns Ok.
Respond(p, one_time_prekey, initiator, message) ==
  /\ UsableMessage(initiator, message)
  /\ answers' = Append(answers,
       [responder |-> p, one_time_prekey |-> one_time_prekey,
        initiator |-> initiator, message |-> message,
        key |-> ResponderKey(p, one_time_prekey, initiator, message)])
  /\ UNCHANGED <<starts, drawn>>

\* `respond` returns InvalidPublicKey.
RespondRefused(p, one_time_prekey, initiator, message) ==
  /\ ~UsableMessage(initiator, message)
  /\ UNCHANGED vars

-----------------------------------------------------------------------------
(* The callers and the carrier *)

Bundles(p) ==
  LET genuine == {Bundle(p, k) : k \in OneTimePrekeys(p) \cup {None}}
  IN  genuine \cup
        (IF "bundle" \notin Altered THEN {}
         ELSE UNION {{[b EXCEPT !.identity.dh = LowOrder],
                      [b EXCEPT !.signed_prekey = LowOrder],
                      [b EXCEPT !.one_time_prekey = LowOrder]} : b \in genuine})

SentMessages == {starts[i].message : i \in DOMAIN starts}

\* The values a field of an initial message may arrive with, other than its own.
OtherEphemerals ==
  IF "ephemeral" \notin Altered THEN {}
  ELSE {m.ephemeral : m \in SentMessages} \cup {<<Foreign, "ephemeral", 0>>, LowOrder}

OtherCiphertexts ==
  IF "kem_ciphertext" \notin Altered THEN {}
  ELSE {m.kem_ciphertext : m \in SentMessages}
         \cup {Ciphertext(k, <<Foreign, 0>>) : k \in Party \cup {Foreign}}

Arriving ==
  UNION {[ephemeral : {m.ephemeral} \cup OtherEphemerals,
          kem_ciphertext : {m.kem_ciphertext} \cup OtherCiphertexts] : m \in SentMessages}

Claimed == IF "identity" \in Altered THEN IdentityPublic ELSE {Identity(p) : p \in Party}

Init ==
  /\ starts = <<>>
  /\ answers = <<>>
  /\ drawn = 0

Start ==
  /\ drawn < MaxStarts
  /\ Len(starts) < MaxStarts
  /\ \E p \in Party : \E q \in Party \ {p} : \E bundle \in Bundles(q) :
       Initiate(p, bundle) \/ InitiateRefused(p, bundle)

Answer ==
  /\ Len(answers) < MaxAnswers
  /\ \E p \in Party, initiator \in Claimed, message \in Arriving :
       \E one_time_prekey \in OneTimePrekeys(p) \cup {None} :
         \/ Respond(p, one_time_prekey, initiator, message)
         \/ RespondRefused(p, one_time_prekey, initiator, message)

Next == Start \/ Answer

Spec == Init /\ [][Next]_vars

-----------------------------------------------------------------------------
(* Properties *)

DhPublic == (Party \cup {Foreign}) \X {"identity", "signed", "one_time", "ephemeral"} \X Nat

Message ==
  [ephemeral : DhPublic,
   kem_ciphertext : [kem : Party \cup {Foreign}, seed : (Party \cup {Foreign}) \X Nat]]

PrekeyBundle ==
  [identity : IdentityPublic, signed_prekey : DhPublic, one_time_prekey : DhPublic \cup {None}]

KeyFields(record) == [record EXCEPT !.key = None]

\* Types: every session is made of keys of the parties, of the carrier's, or none.
TypeOK ==
  /\ drawn \in Nat
  /\ \A i \in DOMAIN starts :
       KeyFields(starts[i]) \in
         [initiator : Party, bundle : PrekeyBundle, message : Message, key : {None}]
  /\ \A i \in DOMAIN answers :
       KeyFields(answers[i]) \in
         [responder : Party, one_time_prekey : DhPublic \cup {None},
          initiator : IdentityPublic, message : Message, key : {None}]

SameView(start, answer) ==
  /\ answer.message = start.message
  /\ answer.initiator = Identity(start.initiator)
  /\ Bundle(answer.responder, answer.one_time_prekey) = start.bundle

\* Both sides hold the same key exactly if they agree on both identities, on the
\* prekeys used, on the absence of a one-time prekey too, and on the message
\* (PROTOCOL.md 5.3: the transcript binds them into the derived key).
KeysAgreeExactlyOnOneView ==
  \A i \in DOMAIN starts, j \in DOMAIN answers :
    starts[i].key = answers[j].key <=> SameView(starts[i], answers[j])

\* No two calls of initiate derive the same key, whatever bundles they are given,
\* and a key once answered is derived again only by the same call: repeating an
\* initial message revives its session and no other, and with another one-time
\* prekey or another claimed identity not even that.
NoKeyInTwoSessions ==
  /\ \A i, j \in DOMAIN starts : starts[i].key = starts[j].key => i = j
  /\ \A i \in DOMAIN answers : \A p \in Party, initiator \in Claimed, message \in Arriving :
       \A one_time_prekey \in OneTimePrekeys(p) \cup {None} :
         ResponderKey(p, one_time_prekey, initiator, message) = answers[i].key =>
           <<p, one_time_prekey, initiator, message>> =
             <<answers[i].responder, answers[i].one_time_prekey,
               answers[i].initiator, answers[i].message>>

LongLived ==
  UNION {{IdentityDh(p), SignedPrekey(p), KemKey(p)} \cup OneTimePrekeys(p) : p \in Party}

SecretDerivable(secret, known) ==
  IF "dh" \in DOMAIN secret
  THEN \E key \in secret.dh : key \in known \/ Owner(key) = Foreign
  ELSE \/ KemKey(secret.kem) \in known
       \/ secret.ciphertext.kem = secret.kem /\ secret.ciphertext.seed[1] = Foreign

\* What the private keys `known` and those of the carrier lead to.
Derivable(key, known) ==
  \A i \in DOMAIN key.secrets : SecretDerivable(key.secrets[i], known)

\* Breaking a session requires breaking both halves (PROTOCOL.md 5.3): no set of
\* long-lived keys leads to the key of a started session without the KEM key and
\* each Diffie-Hellman key of the bundle, the one-time prekey included.
KeyNeedsBothHalves ==
  \A i \in DOMAIN starts : \A known \in SUBSET LongLived :
    Derivable(starts[i].key, known) =>
      {KemKey(starts[i].bundle.identity.kem), starts[i].bundle.identity.dh,
       starts[i].bundle.signed_prekey} \cup ({starts[i].bundle.one_time_prekey} \ {None})
        \subseteq known

\* A key the responder derives for a party can be held only with that party's
\* identity key or with the responder's own signed prekey, even if the ephemeral
\* key and the ciphertext were made by somebody else.
AnswerNeedsTheClaimedIdentity ==
  \A i \in DOMAIN answers : \A known \in SUBSET LongLived :
    Derivable(answers[i].key, known) =>
      {answers[i].initiator.dh, SignedPrekey(answers[i].responder)} \cap known # {}

=============================================================================
