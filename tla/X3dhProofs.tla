------------------------------ MODULE X3dhProofs ------------------------------
(***************************************************************************)
(* The promises of X3dh, for any parties, any one-time prekeys, anything   *)
(* that the carrier alters and any number of sessions.                     *)
(*                                                                         *)
(* The transcript alone tells two views apart.  That equal views give      *)
(* equal secrets takes the rest: the two sides join the same pairs of keys *)
(* and a started message encapsulates to the key that will decapsulate it. *)
(***************************************************************************)
EXTENDS X3dh, SequenceTheorems, TLAPS

StartKey(p, bundle, message) ==
  SharedKey(InitiatorSecrets(p, bundle, message), Transcript(Identity(p), bundle, message))

\* What initiate and respond return.
Started ==
  {[initiator |-> p, bundle |-> bundle, message |-> message, key |-> StartKey(p, bundle, message)] :
     p \in Party, bundle \in PrekeyBundle, message \in Message}

Answered ==
  {[responder |-> p, one_time_prekey |-> k, initiator |-> initiator, message |-> message,
    key |-> ResponderKey(p, k, initiator, message)] :
     p \in Party, k \in DhPublic \cup {None}, initiator \in IdentityPublic, message \in Message}

\* A session is started with a key pair of its own, and with a secret for the one
\* it is started with.
Fresh(start, drawn_by_now) ==
  /\ start.message.ephemeral = Ephemeral(start.initiator, start.message.ephemeral[3])
  /\ start.message.ephemeral[3] \in 0..drawn_by_now - 1
  /\ start.message.kem_ciphertext.kem = start.bundle.identity.kem

\* It is started from a bundle as its owner published it, and the secret for its
\* KEM key is the initiator's own.
FromPublishedBundle(start) ==
  /\ \E q \in Party : \E k \in OneTimePrekeys(q) \cup {None} : start.bundle = Bundle(q, k)
  /\ start.message.kem_ciphertext.seed[1] = start.initiator

SessionsInv ==
  /\ drawn \in Nat
  /\ starts \in Seq(Started)
  /\ answers \in Seq(Answered)
  /\ \A i \in DOMAIN starts : Fresh(starts[i], drawn)
  /\ \A i, j \in DOMAIN starts :
       starts[i].message.ephemeral[3] = starts[j].message.ephemeral[3] => i = j
  /\ \A i \in DOMAIN starts : FromPublishedBundle(starts[i])
  /\ \A i \in DOMAIN answers : answers[i].initiator.dh # LowOrder

-----------------------------------------------------------------------------
(* What the calls are given *)

LEMMA StartedFields ==
  ASSUME NEW s \in Started
  PROVE  /\ s = [initiator |-> s.initiator, bundle |-> s.bundle, message |-> s.message, key |-> s.key]
         /\ s.initiator \in Party /\ s.bundle \in PrekeyBundle /\ s.message \in Message
         /\ s.key = StartKey(s.initiator, s.bundle, s.message)
<1>1. PICK p \in Party, bundle \in PrekeyBundle, message \in Message :
        s = [initiator |-> p, bundle |-> bundle, message |-> message, key |-> StartKey(p, bundle, message)]
  BY DEF Started
<1>2. QED
  BY <1>1

LEMMA AnsweredFields ==
  ASSUME NEW a \in Answered
  PROVE  /\ a = [responder |-> a.responder, one_time_prekey |-> a.one_time_prekey,
                 initiator |-> a.initiator, message |-> a.message, key |-> a.key]
         /\ a.responder \in Party /\ a.one_time_prekey \in DhPublic \cup {None}
         /\ a.initiator \in IdentityPublic /\ a.message \in Message
         /\ a.key = ResponderKey(a.responder, a.one_time_prekey, a.initiator, a.message)
<1>1. PICK p \in Party, k \in DhPublic \cup {None}, initiator \in IdentityPublic, message \in Message :
        a = [responder |-> p, one_time_prekey |-> k, initiator |-> initiator, message |-> message,
             key |-> ResponderKey(p, k, initiator, message)]
  BY DEF Answered
<1>2. QED
  BY <1>1

LEMMA OneTimeKeys ==
  ASSUME NEW p \in Party, NEW k \in OneTimePrekeys(p) \cup {None}
  PROVE  k \in DhPublic \cup {None}
BY NamesAssumption DEF OneTimePrekeys, OneTimePrekey, DhPublic

\* A bundle that is not refused is one its owner made.
LEMMA UsableBundles ==
  ASSUME NEW q \in Party, NEW bundle \in Bundles(q), UsableBundle(bundle)
  PROVE  /\ bundle \in PrekeyBundle
         /\ \E k \in OneTimePrekeys(q) \cup {None} : bundle = Bundle(q, k)
<1> DEFINE genuine == {Bundle(q, k) : k \in OneTimePrekeys(q) \cup {None}}
<1>1. ASSUME NEW b \in genuine
      PROVE  /\ b \in PrekeyBundle
             /\ [b EXCEPT !.identity.dh = LowOrder].identity.dh = LowOrder
             /\ [b EXCEPT !.signed_prekey = LowOrder].signed_prekey = LowOrder
             /\ [b EXCEPT !.one_time_prekey = LowOrder].one_time_prekey = LowOrder
  <2>1. PICK k \in OneTimePrekeys(q) \cup {None} : b = Bundle(q, k)
    BY <1>1
  <2>2. k \in DhPublic \cup {None}
    BY OneTimeKeys
  <2>3. Identity(q) \in IdentityPublic
    BY DEF Identity, IdentityPublic
  <2>4. SignedPrekey(q) \in DhPublic
    BY DEF SignedPrekey, DhPublic
  <2>5. QED
    BY <2>1, <2>2, <2>3, <2>4 DEF Bundle, PrekeyBundle, IdentityPublic
<1>2. bundle \in genuine \/ \E b \in genuine :
        \/ bundle = [b EXCEPT !.identity.dh = LowOrder]
        \/ bundle = [b EXCEPT !.signed_prekey = LowOrder]
        \/ bundle = [b EXCEPT !.one_time_prekey = LowOrder]
  BY DEF Bundles
<1> HIDE DEF genuine
<1>3. bundle \in genuine
  BY <1>1, <1>2 DEF UsableBundle
<1>4. QED
  BY <1>1, <1>3 DEF genuine

\* So is, in its fields, a message that is not refused.
LEMMA UsableMessages ==
  ASSUME SessionsInv, NEW message \in Arriving, NEW initiator \in Claimed,
         UsableMessage(initiator, message)
  PROVE  message \in Message /\ initiator \in IdentityPublic
<1>1. \A m \in SentMessages : m \in Message
  <2> SUFFICES ASSUME NEW i \in DOMAIN starts PROVE starts[i].message \in Message
    BY DEF SentMessages
  <2>1. starts[i] \in Started
    BY DEF SessionsInv
  <2>2. QED
    BY <2>1, StartedFields
<1>2. PICK m \in SentMessages :
        message \in [ephemeral : {m.ephemeral} \cup OtherEphemerals,
                     kem_ciphertext : {m.kem_ciphertext} \cup OtherCiphertexts]
  BY DEF Arriving
<1>3. \A n \in SentMessages :
        /\ n.ephemeral \in DhPublic
        /\ n.kem_ciphertext \in [kem : Party \cup {Foreign}, seed : (Party \cup {Foreign}) \X Nat]
  BY <1>1 DEF Message
<1>4. message.ephemeral \in DhPublic
  <2>1. <<Foreign, "ephemeral", 0>> \in DhPublic
    BY DEF DhPublic
  <2>2. QED
    BY <1>2, <1>3, <2>1 DEF OtherEphemerals, UsableMessage
<1>5. message.kem_ciphertext \in [kem : Party \cup {Foreign}, seed : (Party \cup {Foreign}) \X Nat]
  BY <1>2, <1>3 DEF OtherCiphertexts, Ciphertext
<1>6. message \in Message
  BY <1>2, <1>4, <1>5 DEF Message
<1>7. initiator \in IdentityPublic
  BY DEF Claimed, IdentityPublic, Identity
<1>8. QED
  BY <1>6, <1>7

-----------------------------------------------------------------------------
(* Steps *)

LEMMA InitSessionsInv == Init => SessionsInv
BY DEF Init, SessionsInv

LEMMA InitiateStep ==
  ASSUME SessionsInv, NEW p \in Party, NEW q \in Party, NEW bundle \in Bundles(q),
         Initiate(p, bundle)
  PROVE  SessionsInv'
<1> DEFINE message == NextMessage(p, bundle)
           start == [initiator |-> p, bundle |-> bundle, message |-> message,
                     key |-> StartKey(p, bundle, message)]
<1>1. /\ UsableBundle(bundle) /\ drawn' = drawn + 1 /\ answers' = answers
      /\ starts' = Append(starts, start)
  BY DEF Initiate, StartKey
<1>2. /\ bundle \in PrekeyBundle
      /\ \E k \in OneTimePrekeys(q) \cup {None} : bundle = Bundle(q, k)
  BY <1>1, UsableBundles
<1>3. bundle.identity.kem \in Party
  BY <1>2 DEF PrekeyBundle, IdentityPublic
<1>4. /\ message.ephemeral = Ephemeral(p, drawn)
      /\ message.ephemeral[3] = drawn
      /\ message.kem_ciphertext.kem = bundle.identity.kem
      /\ message.kem_ciphertext.seed[1] = p
  BY DEF NextMessage, Ephemeral, Ciphertext
<1>5. message \in Message
  BY <1>3 DEF NextMessage, Message, Ephemeral, Ciphertext, DhPublic, SessionsInv
<1> HIDE DEF message
<1>6. start \in Started
  BY <1>2, <1>5 DEF Started
<1>7. start.message = message /\ start.initiator = p /\ start.bundle = bundle
  OBVIOUS
<1> HIDE DEF start
<1>8. /\ starts' \in Seq(Started)
      /\ DOMAIN starts' = DOMAIN starts \cup {Len(starts) + 1}
      /\ Len(starts) + 1 \notin DOMAIN starts
      /\ starts'[Len(starts) + 1] = start
      /\ \A i \in DOMAIN starts : starts'[i] = starts[i]
  BY <1>1, <1>6 DEF SessionsInv
<1>9. \A i \in DOMAIN starts : starts[i].message.ephemeral[3] \in 0..drawn - 1
  BY DEF SessionsInv, Fresh
<1>10. ASSUME NEW i \in DOMAIN starts' PROVE Fresh(starts'[i], drawn')
  <2>1. CASE i = Len(starts) + 1
    <3>1. drawn \in 0..drawn' - 1
      BY <1>1 DEF SessionsInv
    <3>2. start.message.ephemeral = Ephemeral(start.initiator, start.message.ephemeral[3])
      BY <1>4, <1>7
    <3>3. /\ start.message.ephemeral[3] \in 0..drawn' - 1
          /\ start.message.kem_ciphertext.kem = start.bundle.identity.kem
      BY <3>1, <1>4, <1>7
    <3>4. QED
      BY <2>1, <3>2, <3>3, <1>8, Zenon DEF Fresh
  <2>2. CASE i \in DOMAIN starts
    <3>1. Fresh(starts[i], drawn) /\ starts'[i] = starts[i]
      BY <2>2, <1>8 DEF SessionsInv
    <3>2. starts[i].message.ephemeral[3] \in 0..drawn' - 1
      BY <2>2, <1>1, <1>9 DEF SessionsInv
    <3>3. QED
      BY <3>1, <3>2, Zenon DEF Fresh
  <2>3. QED
    BY <2>1, <2>2, <1>8
<1>11. ASSUME NEW i \in DOMAIN starts', NEW j \in DOMAIN starts',
              starts'[i].message.ephemeral[3] = starts'[j].message.ephemeral[3]
       PROVE  i = j
  <2>1. drawn \notin 0..drawn - 1
    BY DEF SessionsInv
  <2>2. CASE i \in DOMAIN starts /\ j \in DOMAIN starts
    BY <2>2, <1>8, <1>11 DEF SessionsInv
  <2>3. CASE i \notin DOMAIN starts \/ j \notin DOMAIN starts
    BY <2>1, <2>3, <1>4, <1>7, <1>8, <1>9, <1>11
  <2>4. QED
    BY <2>2, <2>3
<1>12. drawn' \in Nat /\ answers' \in Seq(Answered)
  BY <1>1 DEF SessionsInv
<1>13. FromPublishedBundle(start)
  BY <1>2, <1>4, <1>7 DEF FromPublishedBundle
<1>14. \A i \in DOMAIN starts' : FromPublishedBundle(starts'[i])
  BY <1>8, <1>13, Zenon DEF SessionsInv
<1>15. \A i \in DOMAIN answers' : answers'[i].initiator.dh # LowOrder
  BY <1>1, Zenon DEF SessionsInv
<1>16. QED
  BY <1>8, <1>10, <1>11, <1>12, <1>14, <1>15, Zenon DEF SessionsInv, FromPublishedBundle

LEMMA RespondStep ==
  ASSUME SessionsInv, NEW p \in Party, NEW initiator \in Claimed, NEW message \in Arriving,
         NEW k \in OneTimePrekeys(p) \cup {None}, Respond(p, k, initiator, message)
  PROVE  SessionsInv'
<1> DEFINE answer == [responder |-> p, one_time_prekey |-> k, initiator |-> initiator,
                      message |-> message, key |-> ResponderKey(p, k, initiator, message)]
<1>1. /\ UsableMessage(initiator, message) /\ drawn' = drawn /\ starts' = starts
      /\ answers' = Append(answers, answer)
  BY DEF Respond
<1>2. message \in Message /\ initiator \in IdentityPublic
  BY <1>1, UsableMessages
<1>3. k \in DhPublic \cup {None}
  BY OneTimeKeys
<1>4. answer \in Answered
  BY <1>2, <1>3 DEF Answered
<1>5. answer.initiator.dh # LowOrder
  BY <1>1 DEF UsableMessage
<1> HIDE DEF answer
<1>6. answers' \in Seq(Answered)
  BY <1>1, <1>4 DEF SessionsInv
<1>7. \A i \in DOMAIN answers' : answers'[i].initiator.dh # LowOrder
  <2>1. \A i \in DOMAIN answers' :
          answers'[i] = answer \/ (i \in DOMAIN answers /\ answers'[i] = answers[i])
    BY <1>1, <1>4 DEF SessionsInv
  <2>2. QED
    BY <1>5, <2>1 DEF SessionsInv
<1>8. QED
  BY <1>1, <1>6, <1>7 DEF SessionsInv, Fresh, FromPublishedBundle

LEMMA StepSessionsInv == SessionsInv /\ [Next]_vars => SessionsInv'
<1> SUFFICES ASSUME SessionsInv, [Next]_vars PROVE SessionsInv'
  OBVIOUS
<1>1. ASSUME starts' = starts, answers' = answers, drawn' \in {drawn, drawn + 1}
      PROVE  SessionsInv'
  <2>1. drawn' \in Nat /\ 0..drawn - 1 \subseteq 0..drawn' - 1
    <3>1. drawn \in Nat
      BY DEF SessionsInv
    <3>2. drawn' = drawn \/ drawn' = drawn + 1
      BY <1>1
    <3>3. QED
      BY <3>1, <3>2
  <2>2. QED
    BY <1>1, <2>1 DEF SessionsInv, Fresh, FromPublishedBundle
<1>2. ASSUME NEW p \in Party, NEW bundle, InitiateRefused(p, bundle) PROVE SessionsInv'
  BY <1>1, <1>2 DEF InitiateRefused
<1>3. ASSUME NEW p, NEW k, NEW initiator, NEW message, RespondRefused(p, k, initiator, message)
      PROVE  SessionsInv'
  BY <1>1, <1>3 DEF RespondRefused, vars
<1>4. CASE Start
  BY <1>2, <1>4, InitiateStep DEF Start
<1>5. CASE Answer
  BY <1>3, <1>5, RespondStep DEF Answer
<1>6. CASE UNCHANGED vars
  BY <1>1, <1>6 DEF vars
<1>7. QED
  BY <1>4, <1>5, <1>6 DEF Next

THEOREM SessionsInvariant == Spec => []SessionsInv
BY InitSessionsInv, StepSessionsInv, PTL DEF Spec

-----------------------------------------------------------------------------
(* What follows *)

LEMMA TypesFromInv == SessionsInv => TypeOK
<1> SUFFICES ASSUME SessionsInv PROVE TypeOK
  OBVIOUS
<1>1. ASSUME NEW i \in DOMAIN starts
      PROVE  KeyFields(starts[i]) \in
               [initiator : Party, bundle : PrekeyBundle, message : Message, key : {None}]
  <2>1. starts[i] \in Started
    BY DEF SessionsInv
  <2>2. QED
    BY <2>1, StartedFields DEF KeyFields
<1>2. ASSUME NEW i \in DOMAIN answers
      PROVE  KeyFields(answers[i]) \in
               [responder : Party, one_time_prekey : DhPublic \cup {None},
                initiator : IdentityPublic, message : Message, key : {None}]
  <2>1. answers[i] \in Answered
    BY DEF SessionsInv
  <2>2. QED
    BY <2>1, AnsweredFields DEF KeyFields
<1>3. QED
  BY <1>1, <1>2 DEF TypeOK, SessionsInv

\* A session is made of valid keys, whatever the carrier puts into a message.
THEOREM TypeCorrect == Spec => []TypeOK
BY TypesFromInv, SessionsInvariant, PTL

\* Two sides with one view join the same keys.
LEMMA SameSecrets ==
  ASSUME NEW p, NEW q, NEW k, NEW message, message.kem_ciphertext.kem = q
  PROVE  InitiatorSecrets(p, Bundle(q, k), message) = ResponderSecrets(q, k, Identity(p), message)
<1> DEFINE ek == message.ephemeral
<1>1. /\ Dh(IdentityDh(p), SignedPrekey(q)) = Dh(SignedPrekey(q), IdentityDh(p))
      /\ Dh(ek, IdentityDh(q)) = Dh(IdentityDh(q), ek)
      /\ Dh(ek, SignedPrekey(q)) = Dh(SignedPrekey(q), ek)
      /\ Dh(ek, k) = Dh(k, ek)
  BY DEF Dh
<1>2. Encapsulated(message.kem_ciphertext) = Decapsulated(q, message.kem_ciphertext)
  BY DEF Encapsulated
<1>3. /\ Bundle(q, k).signed_prekey = SignedPrekey(q)
      /\ Bundle(q, k).identity.dh = IdentityDh(q)
      /\ Bundle(q, k).one_time_prekey = k
      /\ Identity(p).dh = IdentityDh(p)
  BY DEF Bundle, Identity
<1>4. QED
  BY <1>1, <1>2, <1>3, Zenon DEF InitiatorSecrets, ResponderSecrets

\* A key tells who derived it, with which prekeys and from which message.
LEMMA KeyTellsTheView ==
  ASSUME NEW s, NEW t, NEW i, NEW j, NEW b, NEW c, NEW m, NEW n,
         SharedKey(s, Transcript(i, b, m)) = SharedKey(t, Transcript(j, c, n))
  PROVE  s = t /\ i = j /\ b = c /\ m = n
BY DEF SharedKey, Transcript

LEMMA AgreeFromInv == SessionsInv => KeysAgreeExactlyOnOneView
<1> SUFFICES ASSUME SessionsInv, NEW i \in DOMAIN starts, NEW j \in DOMAIN answers
             PROVE  starts[i].key = answers[j].key <=> SameView(starts[i], answers[j])
  BY DEF KeysAgreeExactlyOnOneView
<1> DEFINE s == starts[i]
           a == answers[j]
<1>1. s \in Started /\ a \in Answered /\ Fresh(s, drawn)
  BY DEF SessionsInv
<1> HIDE DEF s, a
<1>2. /\ s.key = SharedKey(InitiatorSecrets(s.initiator, s.bundle, s.message),
                           Transcript(Identity(s.initiator), s.bundle, s.message))
      /\ a.key = SharedKey(ResponderSecrets(a.responder, a.one_time_prekey, a.initiator, a.message),
                           Transcript(a.initiator, Bundle(a.responder, a.one_time_prekey), a.message))
  BY <1>1, StartedFields, AnsweredFields, Zenon DEF StartKey, ResponderKey
<1>3. ASSUME s.key = a.key PROVE SameView(s, a)
  <2>1. SharedKey(InitiatorSecrets(s.initiator, s.bundle, s.message),
                  Transcript(Identity(s.initiator), s.bundle, s.message))
          = SharedKey(ResponderSecrets(a.responder, a.one_time_prekey, a.initiator, a.message),
                      Transcript(a.initiator, Bundle(a.responder, a.one_time_prekey), a.message))
    BY <1>2, <1>3, Zenon
  <2>2. /\ Identity(s.initiator) = a.initiator /\ s.message = a.message
        /\ s.bundle = Bundle(a.responder, a.one_time_prekey)
    <3> DEFINE t == InitiatorSecrets(s.initiator, s.bundle, s.message)
               u == ResponderSecrets(a.responder, a.one_time_prekey, a.initiator, a.message)
               own == Identity(s.initiator)
               used == Bundle(a.responder, a.one_time_prekey)
    <3>1. SharedKey(t, Transcript(own, s.bundle, s.message))
            = SharedKey(u, Transcript(a.initiator, used, a.message))
      BY <2>1
    <3> HIDE DEF t, u, own, used
    <3>2. own = a.initiator /\ s.bundle = used /\ s.message = a.message
      BY <3>1 DEF SharedKey, Transcript
    <3>3. QED
      BY <3>2 DEF own, used
  <2>3. QED
    BY <2>2 DEF SameView
<1>4. ASSUME SameView(s, a) PROVE s.key = a.key
  <2>1. /\ s.message = a.message /\ a.initiator = Identity(s.initiator)
        /\ s.bundle = Bundle(a.responder, a.one_time_prekey)
    BY <1>4 DEF SameView
  <2>2. s.message.kem_ciphertext.kem = a.responder
    BY <1>1, <2>1 DEF Fresh, Bundle, Identity
  <2>3. InitiatorSecrets(s.initiator, Bundle(a.responder, a.one_time_prekey), s.message)
          = ResponderSecrets(a.responder, a.one_time_prekey, Identity(s.initiator), s.message)
    BY <2>2, SameSecrets
  <2>4. QED
    BY <1>2, <2>1, <2>3
<1>5. QED
  BY <1>3, <1>4 DEF s, a

\* Both sides hold one key exactly if they agree on identities, prekeys and message.
THEOREM KeysAgree == Spec => []KeysAgreeExactlyOnOneView
BY AgreeFromInv, SessionsInvariant, PTL

LEMMA OnceFromInv == SessionsInv => NoKeyInTwoSessions
<1> SUFFICES ASSUME SessionsInv PROVE NoKeyInTwoSessions
  OBVIOUS
<1>1. ASSUME NEW i \in DOMAIN starts, NEW j \in DOMAIN starts, starts[i].key = starts[j].key
      PROVE  i = j
  <2>1. starts[i] \in Started /\ starts[j] \in Started
    BY DEF SessionsInv
  <2>2. starts[i].message = starts[j].message
    BY <2>1, <1>1, StartedFields, KeyTellsTheView DEF StartKey
  <2>3. QED
    BY <2>2 DEF SessionsInv
<1>2. ASSUME NEW i \in DOMAIN answers, NEW p \in Party, NEW initiator \in Claimed,
             NEW message \in Arriving, NEW k \in OneTimePrekeys(p) \cup {None},
             ResponderKey(p, k, initiator, message) = answers[i].key
      PROVE  <<p, k, initiator, message>> =
               <<answers[i].responder, answers[i].one_time_prekey,
                 answers[i].initiator, answers[i].message>>
  <2> DEFINE a == answers[i]
  <2>1. a \in Answered
    BY DEF SessionsInv
  <2> HIDE DEF a
  <2>2. ResponderKey(p, k, initiator, message) =
          ResponderKey(a.responder, a.one_time_prekey, a.initiator, a.message)
    BY <1>2, <2>1, AnsweredFields DEF a
  <2>3. /\ initiator = a.initiator /\ message = a.message
        /\ Bundle(p, k) = Bundle(a.responder, a.one_time_prekey)
    BY <2>2, KeyTellsTheView DEF ResponderKey
  <2>4. p = a.responder /\ k = a.one_time_prekey
    BY <2>3 DEF Bundle, Identity
  <2>5. QED
    BY <2>3, <2>4 DEF a
<1>3. QED
  BY <1>1, <1>2 DEF NoKeyInTwoSessions

\* A key belongs to one call of initiate, and to the answers of one view.
THEOREM OneSessionPerKey == Spec => []NoKeyInTwoSessions
BY OnceFromInv, SessionsInvariant, PTL

-----------------------------------------------------------------------------
(* What it takes to derive a key *)

\* A Diffie-Hellman secret takes one of the two private keys it joins.
LEMMA DhDerivable ==
  ASSUME NEW own, NEW peer, NEW known, SecretDerivable(Dh(own, peer), known),
         Owner(own) # Foreign, Owner(peer) # Foreign
  PROVE  own \in known \/ peer \in known
<1>1. "dh" \in DOMAIN Dh(own, peer) /\ Dh(own, peer).dh = {own, peer}
  BY DEF Dh
<1>2. QED
  BY <1>1 DEF SecretDerivable

\* A KEM secret takes the KEM key, or to have drawn it.
LEMMA KemDerivable ==
  ASSUME NEW ciphertext, NEW known, SecretDerivable(Encapsulated(ciphertext), known),
         ciphertext.seed[1] # Foreign
  PROVE  KemKey(ciphertext.kem) \in known
<1>1. /\ "dh" \notin DOMAIN Encapsulated(ciphertext)
      /\ Encapsulated(ciphertext).kem = ciphertext.kem
      /\ Encapsulated(ciphertext).ciphertext = ciphertext
  BY DEF Encapsulated, Decapsulated
<1>2. QED
  BY <1>1 DEF SecretDerivable

ListedIn(x, list) == \E i \in DOMAIN list : list[i] = x

\* Joined lists list what each of them does.
LEMMA ConcatListed ==
  ASSUME NEW S, NEW s \in Seq(S), NEW t \in Seq(S), NEW x, ListedIn(x, s) \/ ListedIn(x, t)
  PROVE  ListedIn(x, s \o t)
<1>1. /\ Len(s) \in Nat /\ Len(t) \in Nat
      /\ DOMAIN s = 1..Len(s) /\ DOMAIN t = 1..Len(t)
  OBVIOUS
<1>2. /\ DOMAIN (s \o t) = 1..Len(s) + Len(t)
      /\ \A i \in 1..Len(s) + Len(t) : (s \o t)[i] = IF i <= Len(s) THEN s[i] ELSE t[i - Len(s)]
  <2>1. /\ s \o t \in Seq(S)
        /\ Len(s \o t) = Len(s) + Len(t)
        /\ \A i \in 1..Len(s) + Len(t) : (s \o t)[i] = IF i <= Len(s) THEN s[i] ELSE t[i - Len(s)]
    BY ConcatProperties
  <2>2. DOMAIN (s \o t) = 1..Len(s \o t)
    BY <2>1
  <2>3. QED
    BY <2>1, <2>2
<1> DEFINE u == s \o t
<1> HIDE DEF u
<1>3. CASE ListedIn(x, s)
  <2>1. PICK i \in 1..Len(s) : s[i] = x
    BY <1>1, <1>3 DEF ListedIn
  <2>2. i \in 1..Len(s) + Len(t) /\ i <= Len(s)
    BY <1>1
  <2>3. i \in DOMAIN u /\ u[i] = x
    BY <1>2, <2>1, <2>2 DEF u
  <2>4. QED
    BY <2>3 DEF ListedIn, u
<1>4. CASE ListedIn(x, t)
  <2>1. PICK i \in 1..Len(t) : t[i] = x
    BY <1>1, <1>4 DEF ListedIn
  <2> DEFINE j == Len(s) + i
  <2>2. j \in 1..Len(s) + Len(t) /\ ~(j <= Len(s)) /\ j - Len(s) = i
    BY <1>1
  <2> HIDE DEF j
  <2>3. j \in DOMAIN u /\ u[j] = x
    BY <1>2, <2>1, <2>2 DEF u
  <2>4. QED
    BY <2>3 DEF ListedIn, u
<1>5. QED
  BY <1>3, <1>4

\* The secrets of a session are all in its key.
LEMMA SecretsListed ==
  ASSUME NEW S, NEW dh1 \in S, NEW dh2 \in S, NEW dh3 \in S, NEW dh4 \in Seq(S), NEW kem \in S,
         NEW x, x \in {dh1, dh2, dh3, kem} \/ ListedIn(x, dh4)
  PROVE  ListedIn(x, Secrets(dh1, dh2, dh3, dh4, kem))
<1>1. /\ <<dh1, dh2, dh3>> \in Seq(S) /\ <<kem>> \in Seq(S)
      /\ <<dh1, dh2, dh3>> \o dh4 \in Seq(S)
  OBVIOUS
<1>2. /\ x \in {dh1, dh2, dh3} => ListedIn(x, <<dh1, dh2, dh3>>)
      /\ x = kem => ListedIn(x, <<kem>>)
  <2>1. /\ DOMAIN <<dh1, dh2, dh3>> = 1..3 /\ DOMAIN <<kem>> = 1..1
        /\ 1 \in 1..3 /\ 2 \in 1..3 /\ 3 \in 1..3 /\ 1 \in 1..1
        /\ <<dh1, dh2, dh3>>[1] = dh1 /\ <<dh1, dh2, dh3>>[2] = dh2 /\ <<dh1, dh2, dh3>>[3] = dh3
        /\ <<kem>>[1] = kem
    OBVIOUS
  <2>2. QED
    BY <2>1, Zenon DEF ListedIn
<1>3. x \in {dh1, dh2, dh3} \/ ListedIn(x, dh4) => ListedIn(x, <<dh1, dh2, dh3>> \o dh4)
  BY <1>1, <1>2, ConcatListed
<1>4. QED
  BY <1>1, <1>2, <1>3, ConcatListed DEF Secrets

\* The list of the one secret that a one-time prekey adds.
LEMMA DhOptional ==
  ASSUME NEW S, NEW dh \in S, NEW absent \in BOOLEAN
  PROVE  (IF absent THEN <<>> ELSE <<dh>>) \in Seq(S)
OBVIOUS

\* What leads to a key leads to each of its secrets.
LEMMA DerivableListed ==
  ASSUME NEW key, NEW known, Derivable(key, known), NEW secret, ListedIn(secret, key.secrets)
  PROVE  SecretDerivable(secret, known)
BY DEF Derivable, ListedIn

\* Only the ephemeral key and the seed are drawn for a session, and neither is a
\* long-lived key nor the carrier's: each of the secrets left takes its own key.
LEMMA BothHalvesFromInv == SessionsInv => KeyNeedsBothHalves
<1> SUFFICES ASSUME SessionsInv, NEW i \in DOMAIN starts, NEW known \in SUBSET LongLived,
                    Derivable(starts[i].key, known)
             PROVE  {KemKey(starts[i].bundle.identity.kem), starts[i].bundle.identity.dh,
                     starts[i].bundle.signed_prekey} \cup ({starts[i].bundle.one_time_prekey} \ {None})
                       \subseteq known
  BY DEF KeyNeedsBothHalves
<1> DEFINE s == starts[i]
<1>1. s \in Started /\ Fresh(s, drawn) /\ FromPublishedBundle(s) /\ Derivable(s.key, known)
  BY DEF SessionsInv
<1> HIDE DEF s
<1> DEFINE b == s.bundle
           ek == s.message.ephemeral
           ct == s.message.kem_ciphertext
           dh1 == Dh(IdentityDh(s.initiator), b.signed_prekey)
           dh2 == Dh(ek, b.identity.dh)
           dh3 == Dh(ek, b.signed_prekey)
           dh4 == IF b.one_time_prekey = None THEN <<>> ELSE <<Dh(ek, b.one_time_prekey)>>
           kem == Encapsulated(ct)
<1>2. /\ s.key.secrets = Secrets(dh1, dh2, dh3, dh4, kem)
      /\ s.initiator \in Party
  <2>1. InitiatorSecrets(s.initiator, b, s.message) = Secrets(dh1, dh2, dh3, dh4, kem)
    BY Zenon DEF InitiatorSecrets
  <2>2. s.initiator \in Party /\ s.key = StartKey(s.initiator, b, s.message)
    BY <1>1, StartedFields
  <2> HIDE DEF dh1, dh2, dh3, dh4, kem, b
  <2>3. QED
    BY <2>1, <2>2 DEF StartKey, SharedKey
<1>3. PICK q \in Party : \E key \in OneTimePrekeys(q) \cup {None} : b = Bundle(q, key)
  BY <1>1 DEF FromPublishedBundle
<1>3a. PICK k \in OneTimePrekeys(q) \cup {None} : b = Bundle(q, k)
  BY <1>3
<1>4. /\ b.identity.dh = IdentityDh(q) /\ b.identity.kem = q
      /\ b.signed_prekey = SignedPrekey(q) /\ b.one_time_prekey = k
  BY <1>3a DEF Bundle, Identity
<1>5. /\ Owner(IdentityDh(q)) # Foreign /\ Owner(SignedPrekey(q)) # Foreign
      /\ k # None => Owner(k) # Foreign
  BY <1>3, NamesAssumption DEF Owner, IdentityDh, SignedPrekey, OneTimePrekeys, OneTimePrekey
<1>6. Owner(ek) # Foreign /\ ek \notin known
  <2>1. ek = <<s.initiator, "ephemeral", ek[3]>>
    BY <1>1 DEF Fresh, Ephemeral
  <2>2. \A key \in LongLived : key[2] # "ephemeral"
    BY DEF LongLived, IdentityDh, SignedPrekey, KemKey, OneTimePrekeys, OneTimePrekey
  <2> HIDE DEF ek
  <2>3. Owner(ek) = s.initiator /\ ek[2] = "ephemeral"
    BY <2>1 DEF Owner
  <2>4. QED
    BY <1>2, <2>2, <2>3, NamesAssumption
<1>7. ct.seed[1] # Foreign /\ ct.kem = q
  BY <1>1, <1>2, <1>4, NamesAssumption DEF FromPublishedBundle, Fresh
<1> HIDE DEF b, ek, ct
<1>8. \A secret \in {dh1, dh2, dh3, kem} : SecretDerivable(secret, known)
  <2> DEFINE S == {dh1, dh2, dh3, kem, Dh(ek, b.one_time_prekey)}
  <2>1. dh1 \in S /\ dh2 \in S /\ dh3 \in S /\ kem \in S /\ dh4 \in Seq(S)
    BY DhOptional DEF S
  <2> HIDE DEF S, dh1, dh2, dh3, dh4, kem
  <2>2. \A secret \in {dh1, dh2, dh3, kem} : ListedIn(secret, Secrets(dh1, dh2, dh3, dh4, kem))
    BY <2>1, SecretsListed
  <2>3. QED
    BY <1>1, <1>2, <2>2, DerivableListed
<1>9. b.one_time_prekey # None => SecretDerivable(Dh(ek, b.one_time_prekey), known)
  <2> SUFFICES ASSUME b.one_time_prekey # None PROVE SecretDerivable(Dh(ek, b.one_time_prekey), known)
    OBVIOUS
  <2> DEFINE x == Dh(ek, b.one_time_prekey)
             S == {dh1, dh2, dh3, kem, x}
  <2>1. dh1 \in S /\ dh2 \in S /\ dh3 \in S /\ kem \in S /\ x \in S /\ dh4 = <<x>>
    OBVIOUS
  <2> HIDE DEF S, dh1, dh2, dh3, dh4, kem, x
  <2>2. dh4 \in Seq(S) /\ DOMAIN dh4 = 1..1 /\ dh4[1] = x
    BY <2>1
  <2>3. ListedIn(x, dh4)
    BY <2>2 DEF ListedIn
  <2>4. ListedIn(x, Secrets(dh1, dh2, dh3, dh4, kem))
    BY <2>1, <2>2, <2>3, SecretsListed
  <2>5. SecretDerivable(x, known)
    BY <1>1, <1>2, <2>4, DerivableListed
  <2>6. QED
    BY <2>5 DEF x
<1>10. b.identity.dh \in known
  <2>1. SecretDerivable(Dh(ek, b.identity.dh), known)
    BY <1>8
  <2>2. QED
    BY <1>4, <1>5, <1>6, <2>1, DhDerivable
<1>11. b.signed_prekey \in known
  <2>1. SecretDerivable(Dh(ek, b.signed_prekey), known)
    BY <1>8
  <2>2. QED
    BY <1>4, <1>5, <1>6, <2>1, DhDerivable
<1>12. b.one_time_prekey # None => b.one_time_prekey \in known
  BY <1>4, <1>5, <1>6, <1>9, DhDerivable
<1>13. KemKey(b.identity.kem) \in known
  <2>1. SecretDerivable(Encapsulated(ct), known)
    BY <1>8
  <2>2. QED
    BY <1>4, <1>7, <2>1, KemDerivable
<1>14. QED
  BY <1>10, <1>11, <1>12, <1>13 DEF b, s

\* PROTOCOL.md 5.3: no set of long-lived keys leads to the key of a session without
\* the KEM key and every Diffie-Hellman key of the bundle it was started with.
THEOREM BothHalves == Spec => []KeyNeedsBothHalves
BY BothHalvesFromInv, SessionsInvariant, PTL

\* The first secret joins the claimed identity key with the signed prekey, and a
\* key of low order is refused: somebody has to own the other half.
LEMMA ClaimedIdentityFromInv == SessionsInv => AnswerNeedsTheClaimedIdentity
<1> SUFFICES ASSUME SessionsInv, NEW i \in DOMAIN answers, NEW known \in SUBSET LongLived,
                    Derivable(answers[i].key, known)
             PROVE  {answers[i].initiator.dh, SignedPrekey(answers[i].responder)} \cap known # {}
  BY DEF AnswerNeedsTheClaimedIdentity
<1> DEFINE a == answers[i]
<1>1. a \in Answered /\ a.initiator.dh # LowOrder /\ Derivable(a.key, known)
  BY DEF SessionsInv
<1> HIDE DEF a
<1> DEFINE ek == a.message.ephemeral
           own == SignedPrekey(a.responder)
           dh1 == Dh(own, a.initiator.dh)
           dh2 == Dh(IdentityDh(a.responder), ek)
           dh3 == Dh(own, ek)
           dh4 == IF a.one_time_prekey = None THEN <<>> ELSE <<Dh(a.one_time_prekey, ek)>>
           kem == Decapsulated(a.responder, a.message.kem_ciphertext)
<1>2. /\ a.key.secrets = Secrets(dh1, dh2, dh3, dh4, kem)
      /\ a.responder \in Party /\ a.initiator \in IdentityPublic
  <2>1. ResponderSecrets(a.responder, a.one_time_prekey, a.initiator, a.message)
          = Secrets(dh1, dh2, dh3, dh4, kem)
    BY Zenon DEF ResponderSecrets
  <2>2. /\ a.responder \in Party /\ a.initiator \in IdentityPublic
        /\ a.key = ResponderKey(a.responder, a.one_time_prekey, a.initiator, a.message)
    BY <1>1, AnsweredFields
  <2> HIDE DEF dh1, dh2, dh3, dh4, kem
  <2>3. QED
    BY <2>1, <2>2 DEF ResponderKey, SharedKey
<1>3. Owner(own) # Foreign /\ Owner(a.initiator.dh) # Foreign
  BY <1>1, <1>2, NamesAssumption DEF Owner, SignedPrekey, IdentityPublic, IdentityDh
<1>4. SecretDerivable(dh1, known)
  <2> DEFINE S == {dh1, dh2, dh3, kem, Dh(a.one_time_prekey, ek)}
  <2>1. dh1 \in S /\ dh2 \in S /\ dh3 \in S /\ kem \in S /\ dh4 \in Seq(S)
    BY DhOptional DEF S
  <2> HIDE DEF S, dh1, dh2, dh3, dh4, kem
  <2>2. ListedIn(dh1, Secrets(dh1, dh2, dh3, dh4, kem))
    BY <2>1, SecretsListed
  <2>3. QED
    BY <1>1, <1>2, <2>2, DerivableListed
<1> HIDE DEF own
<1>5. own \in known \/ a.initiator.dh \in known
  BY <1>3, <1>4, DhDerivable
<1>6. QED
  BY <1>5 DEF own, a

\* Nobody without one of the two long-lived keys can be who the responder takes
\* them for, even with an ephemeral key and a ciphertext of their own.
THEOREM ClaimedIdentity == Spec => []AnswerNeedsTheClaimedIdentity
BY ClaimedIdentityFromInv, SessionsInvariant, PTL

=============================================================================
