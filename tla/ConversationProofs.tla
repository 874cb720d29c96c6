-------------------------- MODULE ConversationProofs --------------------------
(***************************************************************************)
(* The sessions of a pair of devices, for any number of them, whatever the *)
(* carrier does to initial messages and in whatever order frames arrive.   *)
(***************************************************************************)
EXTENDS Conversation, FiniteSetTheorems, SequenceTheorems, WellFoundedInduction, TLAPS

XP == INSTANCE X3dhProofs

-----------------------------------------------------------------------------
(* The calls of Conversation are those that the theorems of X3dh are about *)

LEMMA SameInit == X!Init => XP!Init
BY DEF X!Init, XP!Init

LEMMA SameView3 ==
  ASSUME NEW s, NEW a
  PROVE  X!SameView(s, a) <=> XP!SameView(s, a)
BY DEF X!SameView, XP!SameView, X!Identity, XP!Identity, X!IdentityDh, XP!IdentityDh,
       X!Bundle, XP!Bundle, X!SignedPrekey, XP!SignedPrekey

LEMMA SameAgreement == XP!KeysAgreeExactlyOnOneView => X!KeysAgreeExactlyOnOneView
BY SameView3 DEF XP!KeysAgreeExactlyOnOneView, X!KeysAgreeExactlyOnOneView

LEMMA SameBundles ==
  ASSUME NEW p
  PROVE  X!Bundles(p) = XP!Bundles(p)
BY DEF X!Bundles, XP!Bundles, X!Bundle, XP!Bundle, X!Identity, XP!Identity, X!IdentityDh, XP!IdentityDh,
       X!SignedPrekey, XP!SignedPrekey, X!OneTimePrekeys, XP!OneTimePrekeys,
       X!OneTimePrekey, XP!OneTimePrekey

LEMMA SameArriving == X!Arriving = XP!Arriving /\ X!Claimed = XP!Claimed
BY DEF X!Arriving, XP!Arriving, X!Claimed, XP!Claimed, X!SentMessages, XP!SentMessages,
       X!OtherEphemerals, XP!OtherEphemerals, X!OtherCiphertexts, XP!OtherCiphertexts,
       X!Ciphertext, XP!Ciphertext, X!IdentityPublic, XP!IdentityPublic,
       X!Identity, XP!Identity, X!IdentityDh, XP!IdentityDh

LEMMA SameTypes == XP!TypeOK => X!TypeOK
BY DEF XP!TypeOK, X!TypeOK, XP!KeyFields, X!KeyFields, XP!PrekeyBundle, X!PrekeyBundle,
       XP!Message, X!Message, XP!IdentityPublic, X!IdentityPublic, XP!DhPublic, X!DhPublic,
       XP!IdentityDh, X!IdentityDh

LEMMA SameInitiate ==
  ASSUME NEW p, NEW bundle
  PROVE  /\ X!Initiate(p, bundle) => XP!Initiate(p, bundle)
         /\ X!InitiateRefused(p, bundle) => XP!InitiateRefused(p, bundle)
<1>1. X!NextMessage(p, bundle) = XP!NextMessage(p, bundle)
  BY DEF X!NextMessage, XP!NextMessage, X!Ephemeral, XP!Ephemeral, X!Ciphertext, XP!Ciphertext
<1>2. X!UsableBundle(bundle) = XP!UsableBundle(bundle)
  BY DEF X!UsableBundle, XP!UsableBundle
<1>3. ASSUME NEW message
      PROVE  /\ X!InitiatorSecrets(p, bundle, message) = XP!InitiatorSecrets(p, bundle, message)
             /\ X!Transcript(X!Identity(p), bundle, message) = XP!Transcript(XP!Identity(p), bundle, message)
  BY DEF X!InitiatorSecrets, XP!InitiatorSecrets, X!Secrets, XP!Secrets, X!Dh, XP!Dh,
         X!IdentityDh, XP!IdentityDh, X!Encapsulated, XP!Encapsulated,
         X!Decapsulated, XP!Decapsulated, X!Transcript, XP!Transcript, X!Identity, XP!Identity
<1>4. ASSUME NEW s, NEW t PROVE X!SharedKey(s, t) = XP!SharedKey(s, t)
  BY DEF X!SharedKey, XP!SharedKey
<1> QED BY <1>1, <1>2, <1>3, <1>4, Zenon DEF X!Initiate, XP!Initiate, X!InitiateRefused, XP!InitiateRefused

LEMMA SameRespond ==
  ASSUME NEW p, NEW k, NEW initiator, NEW message
  PROVE  /\ X!Respond(p, k, initiator, message) => XP!Respond(p, k, initiator, message)
         /\ X!RespondRefused(p, k, initiator, message) => XP!RespondRefused(p, k, initiator, message)
<1>1. X!ResponderKey(p, k, initiator, message) = XP!ResponderKey(p, k, initiator, message)
  BY DEF X!ResponderKey, XP!ResponderKey, X!ResponderSecrets, XP!ResponderSecrets,
         X!Secrets, XP!Secrets, X!Dh, XP!Dh, X!IdentityDh, XP!IdentityDh,
         X!SignedPrekey, XP!SignedPrekey, X!Decapsulated, XP!Decapsulated,
         X!Transcript, XP!Transcript, X!Bundle, XP!Bundle, X!Identity, XP!Identity,
         X!SharedKey, XP!SharedKey
<1>2. X!UsableMessage(initiator, message) = XP!UsableMessage(initiator, message)
  BY DEF X!UsableMessage, XP!UsableMessage
<1> QED BY <1>1, <1>2 DEF X!Respond, XP!Respond, X!RespondRefused, XP!RespondRefused, X!vars, XP!vars

LEMMA SameNext == X!Start \/ X!Answer => XP!Next
<1>1. ASSUME NEW p PROVE X!OneTimePrekeys(p) = XP!OneTimePrekeys(p)
  BY DEF X!OneTimePrekeys, XP!OneTimePrekeys, X!OneTimePrekey, XP!OneTimePrekey
<1>2. X!Start => XP!Start
  BY SameBundles, SameInitiate, Zenon DEF X!Start, XP!Start
<1>3. ASSUME X!Answer PROVE XP!Answer
  <2>1. PICK p \in Party, initiator \in X!Claimed, message \in X!Arriving :
          \E k \in X!OneTimePrekeys(p) \cup {None} :
            X!Respond(p, k, initiator, message) \/ X!RespondRefused(p, k, initiator, message)
    BY <1>3 DEF X!Answer
  <2> PICK k \in X!OneTimePrekeys(p) \cup {None} :
        X!Respond(p, k, initiator, message) \/ X!RespondRefused(p, k, initiator, message)
    BY <2>1
  <2>2. XP!Respond(p, k, initiator, message) \/ XP!RespondRefused(p, k, initiator, message)
    BY SameRespond
  <2>3. initiator \in XP!Claimed /\ message \in XP!Arriving /\ k \in XP!OneTimePrekeys(p) \cup {None}
    BY SameArriving, <1>1
  <2>4. Len(answers) < MaxAnswers
    BY <1>3 DEF X!Answer
  <2> QED BY <2>2, <2>3, <2>4 DEF XP!Answer
<1> QED BY <1>2, <1>3 DEF XP!Next

-----------------------------------------------------------------------------
(* The calls that have succeeded *)

\* An answered message carries the ephemeral key of a start, or the carrier's own.
AnswersSent ==
  \A j \in DOMAIN answers :
    \/ answers[j].message.ephemeral[1] = Foreign
    \/ \E i \in DOMAIN starts : answers[j].message.ephemeral = starts[i].message.ephemeral

EstablishedInv == XP!SessionsInv /\ AnswersSent

LEMMA InitEstablishedInv == Init => EstablishedInv
<1> SUFFICES ASSUME Init PROVE EstablishedInv
  OBVIOUS
<1>1. XP!SessionsInv
  BY SameInit, XP!InitSessionsInv, AlteredAssumption, BoundsAssumption, NamesAssumption DEF Init
<1>2. AnswersSent
  BY DEF AnswersSent, Init, X!Init
<1> QED BY <1>1, <1>2 DEF EstablishedInv

\* A call adds one start, or one answer, or nothing.
LEMMA Calls ==
  ASSUME XP!Next
  PROVE  \/ starts' = starts /\ answers' = answers
         \/ \E s : starts' = Append(starts, s) /\ answers' = answers
         \/ /\ starts' = starts
            /\ \E a : /\ answers' = Append(answers, a)
                      /\ \/ a.message.ephemeral[1] = Foreign
                         \/ \E i \in DOMAIN starts : a.message.ephemeral = starts[i].message.ephemeral
<1>1. ASSUME NEW p, NEW bundle, XP!Initiate(p, bundle)
      PROVE  \E s : starts' = Append(starts, s) /\ answers' = answers
  BY <1>1 DEF XP!Initiate
<1>2. ASSUME NEW p, NEW bundle, XP!InitiateRefused(p, bundle)
      PROVE  starts' = starts /\ answers' = answers
  BY <1>2 DEF XP!InitiateRefused
<1>3. ASSUME NEW p, NEW k, NEW initiator, NEW message \in XP!Arriving,
             XP!Respond(p, k, initiator, message)
      PROVE  /\ starts' = starts
             /\ \E a : /\ answers' = Append(answers, a)
                       /\ \/ a.message.ephemeral[1] = Foreign
                          \/ \E i \in DOMAIN starts : a.message.ephemeral = starts[i].message.ephemeral
  <2> DEFINE a == [responder |-> p, one_time_prekey |-> k, initiator |-> initiator, message |-> message,
                   key |-> XP!ResponderKey(p, k, initiator, message)]
  <2>1. starts' = starts /\ answers' = Append(answers, a) /\ message.ephemeral # LowOrder
    BY <1>3 DEF XP!Respond, XP!UsableMessage
  <2>2. a.message = message
    OBVIOUS
  <2>3. PICK m \in XP!SentMessages : message.ephemeral \in {m.ephemeral} \cup XP!OtherEphemerals
    BY DEF XP!Arriving
  <2>4. \/ message.ephemeral \in {n.ephemeral : n \in XP!SentMessages}
        \/ message.ephemeral = <<Foreign, "ephemeral", 0>>
    BY <2>1, <2>3 DEF XP!OtherEphemerals
  <2>5. \/ message.ephemeral[1] = Foreign
        \/ \E i \in DOMAIN starts : message.ephemeral = starts[i].message.ephemeral
    BY <2>4 DEF XP!SentMessages
  <2> HIDE DEF a
  <2> QED BY <2>1, <2>2, <2>5
<1>4. ASSUME NEW p, NEW k, NEW initiator, NEW message, XP!RespondRefused(p, k, initiator, message)
      PROVE  starts' = starts /\ answers' = answers
  BY <1>4 DEF XP!RespondRefused, XP!vars
<1>5. CASE XP!Start
  BY <1>1, <1>2, <1>5, Zenon DEF XP!Start
<1>6. CASE XP!Answer
  BY <1>3, <1>4, <1>6, Zenon DEF XP!Answer
<1> QED BY <1>5, <1>6 DEF XP!Next

LEMMA StepEstablishedInv == EstablishedInv /\ XP!Next => EstablishedInv'
<1> SUFFICES ASSUME EstablishedInv, XP!Next PROVE EstablishedInv'
  OBVIOUS
<1>1. XP!SessionsInv /\ AnswersSent
  BY DEF EstablishedInv
<1>2. XP!SessionsInv'
  BY <1>1, XP!StepSessionsInv, AlteredAssumption, BoundsAssumption, NamesAssumption
<1>3. starts \in Seq(XP!Started) /\ answers \in Seq(XP!Answered)
  BY <1>1 DEF XP!SessionsInv
<1>4. starts' \in Seq(XP!Started) /\ answers' \in Seq(XP!Answered)
  BY <1>2 DEF XP!SessionsInv
<1>5. CASE starts' = starts /\ answers' = answers
  BY <1>1, <1>2, <1>5 DEF EstablishedInv, AnswersSent
<1>6. ASSUME NEW s, starts' = Append(starts, s), answers' = answers PROVE AnswersSent'
  <2>1. /\ DOMAIN starts \subseteq DOMAIN starts'
        /\ \A i \in DOMAIN starts : starts'[i] = starts[i]
    BY <1>3, <1>4, <1>6
  <2> QED BY <1>1, <1>6, <2>1 DEF AnswersSent
<1>7. ASSUME NEW a, answers' = Append(answers, a), starts' = starts,
             \/ a.message.ephemeral[1] = Foreign
             \/ \E i \in DOMAIN starts : a.message.ephemeral = starts[i].message.ephemeral
      PROVE  AnswersSent'
  <2>1. \A j \in DOMAIN answers' :
          answers'[j] = a \/ (j \in DOMAIN answers /\ answers'[j] = answers[j])
    BY <1>3, <1>7
  <2> QED BY <1>1, <1>7, <2>1 DEF AnswersSent
<1> QED BY <1>2, <1>5, <1>6, <1>7, Calls, Zenon DEF EstablishedInv

-----------------------------------------------------------------------------
(* First and last *)

\* The least number principle.
LEMMA LeastNat ==
  ASSUME NEW T \in SUBSET Nat, T # {}
  PROVE  \E x \in T : \A y \in T : x <= y
<1> DEFINE R == {pair \in Nat \X Nat : pair[1] < pair[2]}
<1>1. IsWellFoundedOn(R, Nat)
  BY NatLessThanWellFounded DEF OpToRel
<1>2. \A x, y \in Nat : <<y, x>> \in R <=> y < x
  OBVIOUS
<1> HIDE DEF R
<1>3. PICK x \in T : \A y \in T : ~(<<y, x>> \in R)
  BY <1>1, WFMin, Zenon
<1>4. \A y \in T : ~(y < x)
  BY <1>2, <1>3
<1> QED BY <1>4

\* Min picks the first of a non-empty set of positions.
LEMMA MinFirst ==
  ASSUME NEW S \in SUBSET Nat, S # {}
  PROVE  Min(S) \in S /\ \A x \in S : Min(S) <= x
<1>1. PICK m \in S : \A x \in S : m <= x
  BY LeastNat
<1> QED BY <1>1 DEF Min

\* A finite non-empty set of naturals has a maximum, and Max picks it.
LEMMA MaxLast ==
  ASSUME NEW S \in SUBSET Nat, IsFiniteSet(S), S # {}
  PROVE  Max(S) \in S /\ \A x \in S : x <= Max(S)
<1> DEFINE HasMax(T) == \E m \in T : \A x \in T : x <= m
           Sizes == {n \in Nat : \E T \in SUBSET Nat :
                       IsFiniteSet(T) /\ T # {} /\ Cardinality(T) = n /\ ~HasMax(T)}
<1>1. Sizes = {}
  <2> SUFFICES ASSUME Sizes # {} PROVE FALSE
    OBVIOUS
  <2>1. PICK n \in Sizes : \A k \in Sizes : n <= k
    <3>1. Sizes \in SUBSET Nat
      OBVIOUS
    <3> HIDE DEF Sizes
    <3> QED BY <3>1, LeastNat
  <2>2. PICK T \in SUBSET Nat : IsFiniteSet(T) /\ T # {} /\ Cardinality(T) = n /\ ~HasMax(T)
    BY <2>1
  <2>3. PICK x \in T : TRUE
    BY <2>2
  <2> DEFINE U == T \ {x}
  <2>4. IsFiniteSet(U) /\ Cardinality(U) = n - 1 /\ n \in Nat
    BY <2>1, <2>2, <2>3, FS_RemoveElement
  <2>5. U # {}
    <3> SUFFICES ASSUME U = {} PROVE FALSE
      OBVIOUS
    <3>1. T = {x}
      BY <2>3
    <3> QED BY <3>1, <2>2
  <2>6. n - 1 \in Nat
    BY <2>4, FS_CardinalityType
  <2>7. HasMax(U)
    <3>1. n - 1 \notin Sizes
      BY <2>1, <2>4
    <3> QED BY <3>1, <2>4, <2>5, <2>6
  <2>8. PICK m \in U : \A y \in U : y <= m
    BY <2>7
  <2>9. CASE m <= x
    <3>1. \A y \in T : y <= x
      BY <2>8, <2>9, <2>3
    <3> QED BY <3>1, <2>2, <2>3
  <2>10. CASE ~(m <= x)
    <3>1. \A y \in T : y <= m
      BY <2>8, <2>10, <2>3
    <3> QED BY <3>1, <2>2, <2>8
  <2> QED BY <2>9, <2>10
<1>2. HasMax(S)
  <2>1. Cardinality(S) \in Nat
    BY FS_CardinalityType
  <2>2. Cardinality(S) \notin Sizes
    BY <1>1
  <2> QED BY <2>1, <2>2
<1> QED BY <1>2 DEF Max

-----------------------------------------------------------------------------
(* Sessions and their keys *)

LEMMA HandleFacts ==
  ASSUME EstablishedInv, NEW h \in Handles
  PROVE  /\ h = <<h[1], h[2]>> /\ h[2] \in Nat
         /\ \/ h[1] = "start" /\ h[2] \in DOMAIN starts /\ Established(h) = starts[h[2]]
            \/ h[1] = "answer" /\ h[2] \in DOMAIN answers /\ Established(h) = answers[h[2]]
<1>1. starts \in Seq(XP!Started) /\ answers \in Seq(XP!Answered)
  BY DEF EstablishedInv, XP!SessionsInv
<1>2. DOMAIN starts \subseteq Nat /\ DOMAIN answers \subseteq Nat
  BY <1>1
<1> QED BY <1>2 DEF Handles, Established

\* Equal keys come from the same message.
LEMMA KeyTellsTheMessage ==
  ASSUME EstablishedInv, NEW g \in Handles, NEW h \in Handles,
         Established(g).key = Established(h).key
  PROVE  Established(g).message = Established(h).message
<1>1. \A k \in Handles : \E secrets, identity, bundle :
        Established(k).key = XP!SharedKey(secrets, XP!Transcript(identity, bundle, Established(k).message))
  <2> SUFFICES ASSUME NEW k \in Handles
               PROVE  \E secrets, identity, bundle :
                        Established(k).key =
                          XP!SharedKey(secrets, XP!Transcript(identity, bundle, Established(k).message))
    OBVIOUS
  <2>1. CASE k[1] = "start"
    <3>1. k[2] \in DOMAIN starts /\ Established(k) = starts[k[2]]
      BY <2>1, HandleFacts
    <3>2. Established(k) \in XP!Started
      BY <3>1 DEF EstablishedInv, XP!SessionsInv
    <3> DEFINE s == Established(k)
    <3> HIDE DEF s
    <3>3. s.key = XP!StartKey(s.initiator, s.bundle, s.message)
      BY <3>2, XP!StartedFields, AlteredAssumption, BoundsAssumption, NamesAssumption DEF s
    <3> QED BY <3>3 DEF XP!StartKey, s
  <2>2. CASE k[1] = "answer"
    <3>1. k[2] \in DOMAIN answers /\ Established(k) = answers[k[2]]
      BY <2>2, HandleFacts
    <3>2. Established(k) \in XP!Answered
      BY <3>1 DEF EstablishedInv, XP!SessionsInv
    <3> DEFINE a == Established(k)
    <3> HIDE DEF a
    <3>3. a.key = XP!ResponderKey(a.responder, a.one_time_prekey, a.initiator, a.message)
      BY <3>2, XP!AnsweredFields, AlteredAssumption, BoundsAssumption, NamesAssumption DEF a
    <3> QED BY <3>3 DEF XP!ResponderKey, a
  <2> QED BY <2>1, <2>2, HandleFacts
<1> DEFINE m == Established(g).message
           n == Established(h).message
<1>2. PICK s, i, b : Established(g).key = XP!SharedKey(s, XP!Transcript(i, b, m))
  BY <1>1
<1>3. PICK t, j, c : Established(h).key = XP!SharedKey(t, XP!Transcript(j, c, n))
  BY <1>1
<1> HIDE DEF m, n
<1>4. XP!SharedKey(s, XP!Transcript(i, b, m)) = XP!SharedKey(t, XP!Transcript(j, c, n))
  BY <1>2, <1>3
<1>5. m = n
  BY <1>4 DEF XP!SharedKey, XP!Transcript
<1> QED BY <1>5 DEF m, n

\* No two starts have sent the same message.
LEMMA MessageTellsTheStart ==
  ASSUME EstablishedInv, NEW i \in DOMAIN starts, NEW j \in DOMAIN starts,
         starts[i].message = starts[j].message
  PROVE  i = j
BY DEF EstablishedInv, XP!SessionsInv

\* The sessions with the key of h, and those of them that it may be named by.
Bearers(h) == {g \in Handles : Established(g).key = Established(h).key}

Candidates(h) == {g \in Bearers(h) : \A k \in Bearers(h) : k[1] = "start" => g[1] = "start"}

Names(g, h) == g \in Candidates(h) /\ \A k \in Candidates(h) : g[2] <= k[2]

LEMMA SharedKeyNames ==
  ASSUME EstablishedInv, NEW h \in Handles
  PROVE  Names(SharedKey(h), h) /\ \A g : Names(g, h) => g = SharedKey(h)
<1>1. Candidates(h) # {}
  <2>1. h \in Bearers(h)
    BY DEF Bearers
  <2>2. CASE \E k \in Bearers(h) : k[1] = "start"
    BY <2>2 DEF Candidates
  <2>3. CASE \A k \in Bearers(h) : k[1] # "start"
    BY <2>1, <2>3 DEF Candidates
  <2> QED BY <2>2, <2>3
<1>2. Candidates(h) \subseteq Handles
  BY DEF Candidates, Bearers
<1> DEFINE indices == {k[2] : k \in Candidates(h)}
<1>3. indices \in SUBSET Nat /\ indices # {}
  BY <1>1, <1>2, HandleFacts
<1>4. PICK x \in indices : \A y \in indices : x <= y
  BY <1>3, LeastNat
<1>5. \E g \in Candidates(h) : \A k \in Candidates(h) : g[2] <= k[2]
  BY <1>4
<1>6. SharedKey(h) = CHOOSE g \in Candidates(h) : \A k \in Candidates(h) : g[2] <= k[2]
  BY DEF SharedKey, Candidates, Bearers
<1>7. Names(SharedKey(h), h)
  BY <1>5, <1>6 DEF Names
<1>8. ASSUME NEW g, NEW k, Names(g, h), Names(k, h) PROVE g = k
  <2>1. g \in Handles /\ k \in Handles /\ g[2] <= k[2] /\ k[2] <= g[2]
    BY <1>2, <1>8 DEF Names
  <2>2. g[2] = k[2] /\ g = <<g[1], g[2]>> /\ k = <<k[1], k[2]>>
    BY <2>1, HandleFacts
  <2>3. g[1] \in {"start", "answer"} /\ k[1] \in {"start", "answer"}
    BY <2>1, HandleFacts
  <2>4. g[1] = "start" <=> k[1] = "start"
    BY <1>8 DEF Names, Candidates
  <2> QED BY <2>2, <2>3, <2>4
<1> QED BY <1>7, <1>8

\* A session is named by one that has its key, a start by itself.
LEMMA SharedKeyFacts ==
  ASSUME EstablishedInv, NEW h \in Handles
  PROVE  /\ SharedKey(h) \in Handles
         /\ Established(SharedKey(h)).key = Established(h).key
         /\ h[1] = "start" => SharedKey(h) = h
<1>1. SharedKey(h) \in Candidates(h)
  BY SharedKeyNames DEF Names
<1>2. SharedKey(h) \in Handles /\ Established(SharedKey(h)).key = Established(h).key
  BY <1>1 DEF Candidates, Bearers
<1>3. ASSUME h[1] = "start" PROVE SharedKey(h) = h
  <2> DEFINE g == SharedKey(h)
  <2>1. h \in Bearers(h)
    BY DEF Bearers
  <2>2. g[1] = "start"
    BY <1>1, <1>3, <2>1 DEF Candidates
  <2>3. /\ g = <<"start", g[2]>> /\ g[2] \in DOMAIN starts /\ Established(g) = starts[g[2]]
        /\ h = <<"start", h[2]>> /\ h[2] \in DOMAIN starts /\ Established(h) = starts[h[2]]
    BY <1>2, <1>3, <2>2, HandleFacts
  <2>4. Established(g).message = Established(h).message
    BY <1>2, KeyTellsTheMessage
  <2>5. g[2] = h[2]
    BY <2>3, <2>4, MessageTellsTheStart
  <2> QED BY <2>3, <2>5
<1> QED BY <1>2, <1>3

LEMMA SharedKeyTells ==
  ASSUME EstablishedInv, NEW g \in Handles, NEW h \in Handles
  PROVE  SharedKey(g) = SharedKey(h) <=> Established(g).key = Established(h).key
<1>1. ASSUME SharedKey(g) = SharedKey(h) PROVE Established(g).key = Established(h).key
  BY <1>1, SharedKeyFacts
<1>2. ASSUME Established(g).key = Established(h).key PROVE SharedKey(g) = SharedKey(h)
  <2>1. Bearers(g) = Bearers(h)
    BY <1>2 DEF Bearers
  <2>2. Candidates(g) = Candidates(h)
    BY <2>1 DEF Candidates
  <2>3. Names(SharedKey(g), h)
    BY <2>2, SharedKeyNames DEF Names
  <2> QED BY <2>3, SharedKeyNames
<1> QED BY <1>1, <1>2

\* The same, of all sessions at once.
NamesAreUnique ==
  \A h \in Handles : Names(SharedKey(h), h) /\ \A g : Names(g, h) => g = SharedKey(h)

KeysTellMessages ==
  \A g, h \in Handles :
    Established(g).key = Established(h).key => Established(g).message = Established(h).message

HandlesAreCalls ==
  \A h \in Handles :
    /\ h = <<h[1], h[2]>> /\ h[2] \in Nat
    /\ \/ h[1] = "start" /\ h[2] \in DOMAIN starts /\ Established(h) = starts[h[2]]
       \/ h[1] = "answer" /\ h[2] \in DOMAIN answers /\ Established(h) = answers[h[2]]

LEMMA AllSessions == EstablishedInv => NamesAreUnique /\ KeysTellMessages /\ HandlesAreCalls
BY SharedKeyNames, KeyTellsTheMessage, HandleFacts DEF NamesAreUnique, KeysTellMessages, HandlesAreCalls

\* One end of a talk: the owner, the session, and the responder's signed prekey as
\* that end knows it.
End(h) ==
  <<OwnerOf(h), h, IF h[1] = "start" THEN Established(h).bundle.signed_prekey
                   ELSE X!SignedPrekey(OwnerOf(h))>>

\* What succeeded stays as it was, and a later call succeeds at a later place.
LEMMA CallsAdd ==
  ASSUME EstablishedInv, XP!Next
  PROVE  /\ DOMAIN starts \subseteq DOMAIN starts' /\ DOMAIN answers \subseteq DOMAIN answers'
         /\ \A i \in DOMAIN starts : starts'[i] = starts[i]
         /\ \A i \in DOMAIN answers : answers'[i] = answers[i]
         /\ \A i \in DOMAIN answers, j \in DOMAIN answers' \ DOMAIN answers : i <= j
         /\ starts' = starts \/ answers' = answers
<1>1. starts \in Seq(XP!Started) /\ answers \in Seq(XP!Answered)
  BY DEF EstablishedInv, XP!SessionsInv
<1>2. EstablishedInv'
  BY StepEstablishedInv
<1>3. starts' \in Seq(XP!Started) /\ answers' \in Seq(XP!Answered)
  BY <1>2 DEF EstablishedInv, XP!SessionsInv
<1>4. CASE starts' = starts /\ answers' = answers
  BY <1>4
<1>5. ASSUME NEW s, starts' = Append(starts, s), answers' = answers
      PROVE  /\ DOMAIN starts \subseteq DOMAIN starts'
             /\ \A i \in DOMAIN starts : starts'[i] = starts[i]
  BY <1>1, <1>3, <1>5
<1>6. ASSUME NEW a, answers' = Append(answers, a), starts' = starts
      PROVE  /\ DOMAIN answers \subseteq DOMAIN answers'
             /\ \A i \in DOMAIN answers : answers'[i] = answers[i]
             /\ \A i \in DOMAIN answers, j \in DOMAIN answers' \ DOMAIN answers : i <= j
  BY <1>1, <1>3, <1>6
<1> QED BY <1>4, <1>5, <1>6, Calls

LEMMA EstablishKeeps ==
  ASSUME EstablishedInv, XP!Next, NEW h \in Handles
  PROVE  /\ h \in Handles' /\ Established(h)' = Established(h)
         /\ SharedKey(h)' = SharedKey(h) /\ End(h)' = End(h)
<1>1. EstablishedInv'
  BY StepEstablishedInv
<1>2. /\ DOMAIN starts \subseteq DOMAIN starts' /\ DOMAIN answers \subseteq DOMAIN answers'
      /\ \A i \in DOMAIN starts : starts'[i] = starts[i]
      /\ \A i \in DOMAIN answers : answers'[i] = answers[i]
      /\ \A i \in DOMAIN answers, j \in DOMAIN answers' \ DOMAIN answers : i <= j
      /\ starts' = starts \/ answers' = answers
  BY CallsAdd
<1>3. \A k \in Handles : k \in Handles' /\ Established(k)' = Established(k)
  BY <1>2 DEF Handles, Established
<1>3a. NamesAreUnique' /\ KeysTellMessages' /\ HandlesAreCalls'
  BY <1>1, AllSessions, PTL
<1>4. \A k \in Handles' :
        /\ k = <<k[1], k[2]>> /\ k[2] \in Nat
        /\ \/ k[1] = "start" /\ k[2] \in DOMAIN starts' /\ Established(k)' = starts'[k[2]]
           \/ k[1] = "answer" /\ k[2] \in DOMAIN answers' /\ Established(k)' = answers'[k[2]]
  BY <1>3a DEF HandlesAreCalls
<1>5. ASSUME NEW k \in Handles', k \notin Handles, k[1] = "start"
      PROVE  k \notin Bearers(h)'
  <2>1. SUFFICES ASSUME k \in Bearers(h)' PROVE FALSE
    OBVIOUS
  <2>2. Established(k)'.message = Established(h)'.message
    <3>2. Established(k)'.key = Established(h)'.key
      BY <2>1 DEF Bearers
    <3> QED BY <1>3, <1>3a, <3>2 DEF KeysTellMessages
  <2>3. k[2] \in DOMAIN starts' /\ Established(k)' = starts'[k[2]] /\ k = <<"start", k[2]>>
    BY <1>4, <1>5
  <2>4. k[2] \notin DOMAIN starts
    BY <1>5, <2>3 DEF Handles
  <2>5. starts'[k[2]].message.ephemeral[1] # Foreign
    <3> DEFINE s == starts'[k[2]]
    <3>1. s \in XP!Started' /\ XP!Fresh(s, drawn')
      BY <1>1, <2>3 DEF EstablishedInv, XP!SessionsInv, XP!Fresh
    <3>2. XP!Started' = XP!Started
      BY DEF XP!Started, XP!StartKey, XP!PrekeyBundle, XP!Message
    <3> HIDE DEF s
    <3>3. s.initiator \in Party
      BY <3>1, <3>2, XP!StartedFields, AlteredAssumption, BoundsAssumption, NamesAssumption
    <3>4. s.message.ephemeral[1] = s.initiator
      <4>1. s.message.ephemeral = XP!Ephemeral(s.initiator, s.message.ephemeral[3])
        BY <3>1 DEF XP!Fresh
      <4> QED BY <4>1 DEF XP!Ephemeral
    <3> QED BY <3>3, <3>4, NamesAssumption DEF s
  <2>6. \A i \in DOMAIN starts : starts[i].message.ephemeral # starts'[k[2]].message.ephemeral
    BY <1>1, <1>2, <2>3, <2>4, SMTT(30) DEF EstablishedInv, XP!SessionsInv
  <2>7. CASE h[1] = "start"
    <3>1. h[2] \in DOMAIN starts /\ Established(h) = starts[h[2]]
      BY <2>7, HandleFacts
    <3> QED BY <1>3, <2>2, <2>3, <2>6, <3>1
  <2>8. CASE h[1] = "answer"
    <3>1. h[2] \in DOMAIN answers /\ Established(h) = answers[h[2]]
      BY <2>8, HandleFacts
    <3>2. \/ Established(h).message.ephemeral[1] = Foreign
          \/ \E i \in DOMAIN starts : Established(h).message.ephemeral = starts[i].message.ephemeral
      BY <3>1 DEF EstablishedInv, AnswersSent
    <3> QED BY <1>3, <2>2, <2>3, <2>5, <2>6, <3>2
  <2> QED BY <2>7, <2>8, HandleFacts
<1>5a. PICK g : g = SharedKey(h)
  OBVIOUS
<1>6. Names(g, h)
  BY <1>5a, SharedKeyNames
<1>7. g \in Handles
  BY <1>5a, SharedKeyFacts
<1>8. Bearers(h) = Bearers(h)' \cap Handles
  BY <1>3 DEF Bearers
<1>9. g \in Candidates(h)'
  BY <1>5, <1>6, <1>8 DEF Names, Candidates, Bearers
<1>10. ASSUME NEW k \in Candidates(h)' PROVE g[2] <= k[2]
  <2>1. k \in Bearers(h)' /\ k \in Handles'
    BY DEF Candidates, Bearers
  <2>2. CASE k \in Handles
    <3>1. k \in Candidates(h)
      BY <1>8, <2>1, <2>2 DEF Candidates
    <3> QED BY <1>6, <3>1 DEF Names
  <2>3. CASE k \notin Handles
    <3>1. k[1] = "answer" /\ k[2] \in DOMAIN answers' \ DOMAIN answers
      BY <1>4, <1>5, <2>1, <2>3 DEF Handles
    <3>2. g[1] = "answer"
      <4>1. g \in Bearers(h)'
        BY <1>6, <1>8 DEF Names, Candidates
      <4>2. g[1] # "start"
        BY <3>1, <4>1 DEF Candidates
      <4> QED BY <1>7, <4>2, HandleFacts
    <3>3. g[2] \in DOMAIN answers
      BY <1>7, <3>2, HandleFacts
    <3> QED BY <1>2, <3>1, <3>3
  <2> QED BY <2>2, <2>3
<1>11. SharedKey(h)' = g
  <2>2. Names(g, h)'
    BY <1>9, <1>10 DEF Names
  <2> QED BY <1>3, <1>3a, <2>2 DEF NamesAreUnique
<1>12. End(h)' = End(h)
  BY <1>3 DEF End, OwnerOf, X!SignedPrekey
<1> QED BY <1>3, <1>5a, <1>11, <1>12

-----------------------------------------------------------------------------
(* Talks.  The chains of a session are the successive root keys of one talk, *)
(* of which the two ends take turns to draw the next ratchet key.            *)

IsSeq(seq) == \E S : seq \in Seq(S)

\* The n-th ratchet key of an end.
KeyAt(end, n) == <<end[1], "ratchet", end[2], n>>

\* The secrets of a talk between a, who started it, and b: the shared key, and from
\* then on in turn one that a's next key joins and one that b's next key joins.
InTalk(chain, a, b) ==
  /\ Len(chain) >= 1 => chain[1] = a[2]
  /\ Len(chain) >= 2 => chain[2] = {KeyAt(a, 0), a[3]}
  /\ \A m \in Nat : 2 * m + 3 <= Len(chain) => chain[2 * m + 3] = {KeyAt(b, m), KeyAt(a, m)}
  /\ \A m \in Nat : 2 * m + 4 <= Len(chain) => chain[2 * m + 4] = {KeyAt(a, m + 1), KeyAt(b, m)}

\* The length of the m-th chain that session h seals with, or opens with.
SealsAt(h, m) == IF h[1] = "start" THEN 2 * m + 2 ELSE 2 * m + 3
OpensAt(h, m) == IF h[1] = "start" THEN 2 * m + 3 ELSE 2 * m + 2

\* A chain that session h, having drawn g ratchet keys, may open with.
Incoming(chain, h, a, b, g) ==
  /\ IsSeq(chain) /\ InTalk(chain, a, b)
  /\ Len(chain) < SealsAt(h, g - 1)
  /\ \E m \in Nat : Len(chain) = OpensAt(h, m)

OwnEnd(h, a, b) == IF h[1] = "start" THEN a ELSE b

IsStore(deque, h, a, b, g) ==
  /\ DOMAIN deque \subseteq Nat /\ IsFiniteSet(DOMAIN deque)
  /\ \A i \in DOMAIN deque : Incoming(deque[i].key.chain, h, a, b, g)

IsReceiving(chain, h, a, b, g) ==
  chain # None =>
    /\ chain = [key |-> chain.key, next |-> chain.next] /\ chain.next \in Nat
    /\ Incoming(chain.key, h, a, b, g)

\* All that session h of the talk between a and b holds when it has drawn g keys.
Held(s, h, a, b, g) ==
  /\ s = [root_key |-> s.root_key, own_ratchet |-> s.own_ratchet,
          remote_ratchet |-> s.remote_ratchet, sending |-> s.sending,
          receiving |-> s.receiving, previous_sending_len |-> s.previous_sending_len,
          skipped |-> s.skipped]
  /\ g \in Nat /\ (h[1] = "start" => g >= 1)
  /\ IsSeq(s.root_key) /\ InTalk(s.root_key, a, b) /\ Len(s.root_key) = SealsAt(h, g - 1)
  /\ s.own_ratchet = IF g = 0 THEN b[3] ELSE KeyAt(OwnEnd(h, a, b), g - 1)
  /\ s.sending # None =>
       /\ g # 0 /\ s.sending = [key |-> s.root_key, next |-> s.sending.next]
       /\ s.sending.next \in 0..CHAIN_LIMIT
  /\ IsReceiving(s.receiving, h, a, b, g)
  /\ s.previous_sending_len \in Nat
  /\ IsStore(s.skipped, h, a, b, g)

-----------------------------------------------------------------------------
(* Chains *)

LEMMA SeqAppend ==
  ASSUME NEW c, IsSeq(c), NEW x
  PROVE  /\ Len(c) \in Nat /\ DOMAIN c = 1..Len(c)
         /\ IsSeq(Append(c, x)) /\ Len(Append(c, x)) = Len(c) + 1
         /\ \A i \in 1..Len(c) : Append(c, x)[i] = c[i]
         /\ Append(c, x)[Len(c) + 1] = x
<1>1. PICK S : c \in Seq(S)
  BY DEF IsSeq
<1> DEFINE T == S \cup {x}
<1>2. c \in Seq(T) /\ x \in T
  BY <1>1
<1> HIDE DEF T
<1>3. Append(c, x) \in Seq(T)
  BY <1>2
<1>4. IsSeq(Append(c, x))
  BY <1>3 DEF IsSeq
<1> QED BY <1>2, <1>4

\* The talk goes on with the first secret, with one that a's key joins, or b's.
LEMMA TalkGoesOn ==
  ASSUME NEW c, IsSeq(c), NEW a, NEW b, InTalk(c, a, b), NEW x,
         \/ Len(c) = 1 /\ x = {KeyAt(a, 0), a[3]}
         \/ \E m \in Nat : Len(c) = 2 * m + 2 /\ x = {KeyAt(b, m), KeyAt(a, m)}
         \/ \E m \in Nat : Len(c) = 2 * m + 3 /\ x = {KeyAt(a, m + 1), KeyAt(b, m)}
  PROVE  InTalk(Append(c, x), a, b)
<1> DEFINE d == Append(c, x)
<1>1. /\ Len(c) \in Nat /\ Len(d) = Len(c) + 1
      /\ \A i \in 1..Len(c) : d[i] = c[i]
      /\ d[Len(c) + 1] = x
  BY SeqAppend
<1>2. Len(c) >= 1
  BY <1>1
<1> HIDE DEF d
<1>3. d[1] = a[2]
  BY <1>1, <1>2 DEF InTalk
<1>4. d[2] = {KeyAt(a, 0), a[3]}
  <2>1. CASE Len(c) >= 2
    <3>1. 2 \in 1..Len(c)
      BY <1>1, <2>1
    <3> QED BY <1>1, <2>1, <3>1 DEF InTalk
  <2>2. CASE Len(c) = 1
    <3>1. x = {KeyAt(a, 0), a[3]}
      BY <2>2
    <3> QED BY <1>1, <2>2, <3>1
  <2> QED BY <1>1, <1>2, <2>1, <2>2
<1>5. ASSUME NEW m \in Nat, 2 * m + 3 <= Len(d)
      PROVE  d[2 * m + 3] = {KeyAt(b, m), KeyAt(a, m)}
  <2>1. CASE 2 * m + 3 <= Len(c)
    <3>1. 2 * m + 3 \in 1..Len(c)
      BY <1>1, <2>1
    <3> QED BY <1>1, <2>1, <3>1 DEF InTalk
  <2>2. CASE 2 * m + 3 = Len(c) + 1
    <3>1. x = {KeyAt(b, m), KeyAt(a, m)}
      <4>1. Len(c) = 2 * m + 2
        BY <1>1, <2>2
      <4>2. \A k \in Nat : Len(c) # 2 * k + 3 /\ (Len(c) = 2 * k + 2 => k = m)
        BY <4>1
      <4>3. Len(c) # 1
        BY <4>1
      <4> QED BY <4>2, <4>3
    <3> QED BY <1>1, <2>2, <3>1
  <2> QED BY <1>1, <1>5, <2>1, <2>2
<1>6. ASSUME NEW m \in Nat, 2 * m + 4 <= Len(d)
      PROVE  d[2 * m + 4] = {KeyAt(a, m + 1), KeyAt(b, m)}
  <2>1. CASE 2 * m + 4 <= Len(c)
    <3>1. 2 * m + 4 \in 1..Len(c)
      BY <1>1, <2>1
    <3> QED BY <1>1, <2>1, <3>1 DEF InTalk
  <2>2. CASE 2 * m + 4 = Len(c) + 1
    <3>1. x = {KeyAt(a, m + 1), KeyAt(b, m)}
      <4>1. Len(c) = 2 * m + 3
        BY <1>1, <2>2
      <4>2. \A k \in Nat : Len(c) # 2 * k + 2 /\ (Len(c) = 2 * k + 3 => k = m)
        BY <4>1
      <4>3. Len(c) # 1
        BY <4>1
      <4> QED BY <4>2, <4>3
    <3> QED BY <1>1, <2>2, <3>1
  <2> QED BY <1>1, <1>6, <2>1, <2>2
<1> QED BY <1>3, <1>4, <1>5, <1>6 DEF InTalk, d

\* What a chain goes on from is a chain of the same talk.
LEMMA TalkBefore ==
  ASSUME NEW c, IsSeq(c), NEW a, NEW b, NEW x, InTalk(Append(c, x), a, b)
  PROVE  InTalk(c, a, b)
<1> DEFINE d == Append(c, x)
<1>1. /\ Len(c) \in Nat /\ Len(d) = Len(c) + 1
      /\ \A i \in 1..Len(c) : d[i] = c[i]
  BY SeqAppend
<1> HIDE DEF d
<1>2. InTalk(d, a, b)
  BY DEF d
<1>3. Len(c) >= 1 => c[1] = a[2]
  BY <1>1, <1>2 DEF InTalk
<1>4. Len(c) >= 2 => c[2] = {KeyAt(a, 0), a[3]}
  <2>1. Len(c) >= 2 => 2 \in 1..Len(c) /\ Len(d) >= 2
    BY <1>1
  <2> QED BY <1>1, <1>2, <2>1 DEF InTalk
<1>5. ASSUME NEW m \in Nat, 2 * m + 3 <= Len(c) PROVE c[2 * m + 3] = {KeyAt(b, m), KeyAt(a, m)}
  <2>1. 2 * m + 3 \in 1..Len(c) /\ 2 * m + 3 <= Len(d)
    BY <1>1, <1>5
  <2> QED BY <1>1, <1>2, <2>1 DEF InTalk
<1>6. ASSUME NEW m \in Nat, 2 * m + 4 <= Len(c) PROVE c[2 * m + 4] = {KeyAt(a, m + 1), KeyAt(b, m)}
  <2>1. 2 * m + 4 \in 1..Len(c) /\ 2 * m + 4 <= Len(d)
    BY <1>1, <1>6
  <2> QED BY <1>1, <1>2, <2>1 DEF InTalk
<1> QED BY <1>3, <1>4, <1>5, <1>6 DEF InTalk

\* Until b's first key is joined, nothing in a talk is b's.
LEMMA TalkWithAnyone ==
  ASSUME NEW c, IsSeq(c), NEW a, NEW b, NEW other, InTalk(c, a, b), Len(c) <= 2
  PROVE  InTalk(c, a, other)
<1>1. Len(c) \in Nat
  BY SeqAppend
<1>2. \A m \in Nat : ~(2 * m + 3 <= Len(c)) /\ ~(2 * m + 4 <= Len(c))
  BY <1>1
<1> QED BY <1>2 DEF InTalk

\* A chain tells between whom it is.
LEMMA TalkTellsTheEnds ==
  ASSUME NEW c, NEW a, NEW b, NEW x, NEW y, InTalk(c, a, b), InTalk(c, x, y), Len(c) \in Nat
  PROVE  /\ Len(c) >= 1 => a[2] = x[2]
         /\ Len(c) >= 3 => b[2] = y[2]
<1>1. Len(c) >= 1 => a[2] = x[2]
  BY DEF InTalk
<1>2. ASSUME Len(c) >= 3 PROVE b[2] = y[2]
  <2>1. c[2 * 0 + 3] = {KeyAt(b, 0), KeyAt(a, 0)} /\ c[2 * 0 + 3] = {KeyAt(y, 0), KeyAt(x, 0)}
    BY <1>2 DEF InTalk
  <2>2. {KeyAt(b, 0), KeyAt(a, 0)} = {KeyAt(y, 0), KeyAt(x, 0)}
    BY <2>1
  <2>3. ASSUME NEW u, NEW v, KeyAt(u, 0) = KeyAt(v, 0) PROVE u[2] = v[2]
    BY <2>3 DEF KeyAt
  <2>4. /\ b[2] = y[2] \/ b[2] = x[2]
        /\ y[2] = b[2] \/ y[2] = a[2]
    BY <2>2, <2>3
  <2> QED BY <1>1, <1>2, <2>4
<1> QED BY <1>1, <1>2

-----------------------------------------------------------------------------
(* What the calls leave of a session *)

\* The store after a skip has old entries, and new ones of the chain skipped in.
LEMMA ExtendFacts ==
  ASSUME NEW deque, DOMAIN deque \subseteq Nat, IsFiniteSet(DOMAIN deque),
         NEW ratchet, NEW chain, NEW from \in Nat, NEW until \in Nat
  PROVE  LET E == Extend(deque, ratchet, chain, from, until)
         IN  /\ DOMAIN E \subseteq Nat /\ IsFiniteSet(DOMAIN E)
             /\ \A i \in DOMAIN E : \/ i \in DOMAIN deque /\ E[i] = deque[i]
                                    \/ E[i].key.chain = chain
<1> DEFINE D == PushBack(deque, ratchet, chain, from, until)
           back == Max({0} \cup DOMAIN deque)
           C == EvictOldestOfChain(D, ratchet)
           E == PopFrontToLimit(C)
<1>1. back \in Nat
  <2> DEFINE T == DOMAIN deque \cup {0}
  <2>1. T \in SUBSET Nat /\ T # {} /\ IsFiniteSet(T)
    BY FS_AddElement
  <2>2. T = {0} \cup DOMAIN deque
    OBVIOUS
  <2> HIDE DEF T
  <2>3. Max(T) \in T
    BY <2>1, MaxLast
  <2> QED BY <2>1, <2>2, <2>3
<1>2. /\ DOMAIN D = DOMAIN deque \cup (back + 1)..(back + until - from)
      /\ \A i \in DOMAIN D :
           \/ i \in DOMAIN deque /\ D[i] = deque[i]
           \/ \E n : D[i] = [ratchet |-> ratchet, number |-> n, key |-> KeyOf(chain, n)]
  BY DEF PushBack
<1> HIDE DEF D, back
<1>3. DOMAIN D \subseteq Nat
  BY <1>1, <1>2
<1>4. IsFiniteSet(DOMAIN D)
  <2>1. IsFiniteSet((back + 1)..(back + until - from))
    BY <1>1, FS_Interval
  <2> QED BY <1>2, <2>1, FS_Union
<1>5. \A i \in DOMAIN D : (i \in DOMAIN deque /\ D[i] = deque[i]) \/ D[i].key.chain = chain
  <2>1. ASSUME NEW x, NEW n, x = [ratchet |-> ratchet, number |-> n, key |-> KeyOf(chain, n)]
        PROVE  x.key.chain = chain
    BY <2>1 DEF KeyOf
  <2> QED BY <1>2, <2>1
<1>6. DOMAIN C \subseteq DOMAIN D /\ \A i \in DOMAIN C : C[i] = D[i]
  BY DEF EvictOldestOfChain, Without, Restrict
<1> HIDE DEF C
<1>7. DOMAIN E \subseteq DOMAIN C /\ \A i \in DOMAIN E : E[i] = C[i]
  BY DEF PopFrontToLimit, Without, Restrict
<1>8. Extend(deque, ratchet, chain, from, until) = E
  BY DEF Extend, C, D
<1> HIDE DEF E
<1>9. IsFiniteSet(DOMAIN E)
  <2>1. DOMAIN E \in SUBSET DOMAIN D
    BY <1>6, <1>7
  <2> QED BY <1>4, <2>1, FS_Subset
<1>10. \A i \in DOMAIN E : (i \in DOMAIN deque /\ E[i] = deque[i]) \/ E[i].key.chain = chain
  BY <1>5, <1>6, <1>7
<1>11. DOMAIN E \subseteq Nat
  BY <1>3, <1>6, <1>7
<1> QED BY <1>8, <1>9, <1>10, <1>11

LEMMA StoreExtended ==
  ASSUME NEW h, NEW a, NEW b, NEW g, NEW deque, IsStore(deque, h, a, b, g),
         NEW ratchet, NEW chain, Incoming(chain, h, a, b, g), NEW from \in Nat, NEW until \in Nat
  PROVE  IsStore(Extend(deque, ratchet, chain, from, until), h, a, b, g)
<1> DEFINE E == Extend(deque, ratchet, chain, from, until)
<1>1. /\ DOMAIN E \subseteq Nat /\ IsFiniteSet(DOMAIN E)
      /\ \A i \in DOMAIN E : \/ i \in DOMAIN deque /\ E[i] = deque[i]
                             \/ E[i].key.chain = chain
  BY ExtendFacts DEF IsStore
<1> HIDE DEF E
<1>2. \A i \in DOMAIN E : Incoming(E[i].key.chain, h, a, b, g)
  BY <1>1 DEF IsStore
<1> QED BY <1>1, <1>2 DEF IsStore, E

LEMMA IncomingLater ==
  ASSUME NEW h, NEW a, NEW b, NEW g \in Nat, NEW chain, Incoming(chain, h, a, b, g)
  PROVE  Incoming(chain, h, a, b, g + 1)
<1>1. Len(chain) \in Nat
  BY SeqAppend DEF Incoming
<1> QED BY <1>1 DEF Incoming, SealsAt

LEMMA StoreLater ==
  ASSUME NEW h, NEW a, NEW b, NEW g \in Nat, NEW deque, IsStore(deque, h, a, b, g)
  PROVE  IsStore(deque, h, a, b, g + 1)
BY IncomingLater DEF IsStore

LEMMA HeldSealing ==
  ASSUME NEW s, NEW h, NEW a, NEW b, NEW g, Held(s, h, a, b, g), CanSend(s)
  PROVE  /\ Held(AfterSealing(s), h, a, b, g)
         /\ AfterSealing(s).sending = [key |-> s.root_key, next |-> s.sending.next + 1]
         /\ AfterSealing(s).root_key = s.root_key
         /\ s.sending = [key |-> s.root_key, next |-> s.sending.next]
         /\ s.sending.next \in Nat /\ g # 0
<1> DEFINE t == AfterSealing(s)
<1>1. s.sending = [key |-> s.root_key, next |-> s.sending.next] /\ s.sending.next \in 0..CHAIN_LIMIT /\ g # 0
  BY DEF Held, CanSend
<1>2. s.sending.next \in Nat /\ s.sending.next + 1 \in 0..CHAIN_LIMIT
  BY <1>1, LimitsAssumption DEF CanSend
<1>3. /\ t.root_key = s.root_key /\ t.own_ratchet = s.own_ratchet
      /\ t.receiving = s.receiving /\ t.previous_sending_len = s.previous_sending_len
      /\ t.skipped = s.skipped
      /\ t = [root_key |-> t.root_key, own_ratchet |-> t.own_ratchet,
              remote_ratchet |-> t.remote_ratchet, sending |-> t.sending,
              receiving |-> t.receiving, previous_sending_len |-> t.previous_sending_len,
              skipped |-> t.skipped]
  BY DEF AfterSealing, Held
<1>4. t.sending = [key |-> s.root_key, next |-> s.sending.next + 1]
  <2>1. t.sending = [s.sending EXCEPT !.next = s.sending.next + 1]
    BY DEF AfterSealing, Held
  <2> QED BY <1>1, <2>1
<1> HIDE DEF t
<1>5. t.sending = [key |-> t.root_key, next |-> t.sending.next] /\ t.sending.next \in 0..CHAIN_LIMIT
  BY <1>2, <1>3, <1>4
<1>6. Held(t, h, a, b, g)
  BY <1>1, <1>3, <1>5 DEF Held
<1> QED BY <1>1, <1>2, <1>3, <1>4, <1>6 DEF t

\* The key that opens a frame from the store is one of those it holds.
LEMMA StoredKeyFacts ==
  ASSUME NEW s, NEW h, NEW a, NEW b, NEW g, Held(s, h, a, b, g), NEW f, IsSkipped(s, f)
  PROVE  /\ Incoming(s.skipped[Position(s.skipped, f.header)].key.chain, h, a, b, g)
         /\ Held(AfterStoredKey(s, f.header), h, a, b, g)
         /\ AfterStoredKey(s, f.header).root_key = s.root_key
         /\ AfterStoredKey(s, f.header).sending = s.sending
<1> DEFINE i == Position(s.skipped, f.header)
<1>1. IsStore(s.skipped, h, a, b, g)
  BY DEF Held
<1>2. i \in DOMAIN s.skipped
  <2> DEFINE T == Matches(s.skipped, f.header)
  <2>1. T \in SUBSET Nat /\ T # {} /\ T \subseteq DOMAIN s.skipped
    BY <1>1 DEF Matches, IsStore, IsSkipped
  <2> HIDE DEF T
  <2>2. Min(T) \in T
    BY <2>1, MinFirst
  <2> QED BY <2>1, <2>2 DEF Position, T
<1> HIDE DEF i
<1> DEFINE W == Without(s.skipped, {i})
           t == AfterStoredKey(s, f.header)
<1>3. DOMAIN W = DOMAIN s.skipped \ {i} /\ \A j \in DOMAIN W : W[j] = s.skipped[j]
  BY DEF Without, Restrict
<1>4. /\ t.root_key = s.root_key /\ t.own_ratchet = s.own_ratchet /\ t.sending = s.sending
      /\ t.receiving = s.receiving /\ t.previous_sending_len = s.previous_sending_len
      /\ t.skipped = W
      /\ t = [root_key |-> t.root_key, own_ratchet |-> t.own_ratchet,
              remote_ratchet |-> t.remote_ratchet, sending |-> t.sending,
              receiving |-> t.receiving, previous_sending_len |-> t.previous_sending_len,
              skipped |-> t.skipped]
  BY DEF AfterStoredKey, Held, i
<1> HIDE DEF W
<1>5. IsStore(W, h, a, b, g)
  <2>1. IsFiniteSet(DOMAIN W)
    BY <1>1, <1>3, FS_Subset DEF IsStore
  <2> QED BY <1>1, <1>3, <2>1 DEF IsStore
<1> HIDE DEF t
<1>6. Held(t, h, a, b, g)
  BY <1>4, <1>5 DEF Held
<1>7. Incoming(s.skipped[i].key.chain, h, a, b, g)
  BY <1>1, <1>2 DEF IsStore
<1> QED BY <1>4, <1>6, <1>7 DEF t, i

LEMMA HeldReceiving ==
  ASSUME NEW s, NEW h, NEW a, NEW b, NEW g, Held(s, h, a, b, g), s.receiving # None,
         NEW header, header.message_number \in Nat
  PROVE  /\ Held(AfterReceiving(s, header), h, a, b, g)
         /\ AfterReceiving(s, header).root_key = s.root_key
         /\ AfterReceiving(s, header).sending = s.sending
<1> DEFINE t == AfterReceiving(s, header)
           E == Extend(s.skipped, header.ratchet, s.receiving.key, s.receiving.next, header.message_number)
<1>1. /\ s.receiving = [key |-> s.receiving.key, next |-> s.receiving.next]
      /\ s.receiving.next \in Nat /\ Incoming(s.receiving.key, h, a, b, g)
  BY DEF Held, IsReceiving
<1>2. IsStore(E, h, a, b, g)
  BY <1>1, StoreExtended DEF Held
<1>2a. t = [s EXCEPT !.skipped = E, !.receiving.next = header.message_number + 1]
  BY DEF AfterReceiving
<1>2b. s = [root_key |-> s.root_key, own_ratchet |-> s.own_ratchet,
            remote_ratchet |-> s.remote_ratchet, sending |-> s.sending,
            receiving |-> s.receiving, previous_sending_len |-> s.previous_sending_len,
            skipped |-> s.skipped]
  BY DEF Held
<1> HIDE DEF t, E
<1>3. /\ t.root_key = s.root_key /\ t.own_ratchet = s.own_ratchet /\ t.sending = s.sending
      /\ t.previous_sending_len = s.previous_sending_len /\ t.skipped = E
      /\ t.receiving = [s.receiving EXCEPT !.next = header.message_number + 1]
      /\ t = [root_key |-> t.root_key, own_ratchet |-> t.own_ratchet,
              remote_ratchet |-> t.remote_ratchet, sending |-> t.sending,
              receiving |-> t.receiving, previous_sending_len |-> t.previous_sending_len,
              skipped |-> t.skipped]
  BY <1>2a, <1>2b
<1>4. t.receiving = [key |-> s.receiving.key, next |-> header.message_number + 1]
  BY <1>1, <1>3
<1>5. IsReceiving(t.receiving, h, a, b, g)
  BY <1>1, <1>4 DEF IsReceiving
<1>6. Held(t, h, a, b, g)
  BY <1>2, <1>3, <1>5 DEF Held
<1> QED BY <1>3, <1>6 DEF t

\* A ratchet step goes on with the talk: the peer's key in the header is its latest.
LEMMA HeldStepping ==
  ASSUME NEW s, NEW h, NEW a, NEW b, NEW g, Held(s, h, a, b, g), NEW header, NEW fresh,
         h[1] \in {"start", "answer"},
         header.message_number \in Nat, header.previous_chain_len \in Nat,
         InTalk(KdfRoot(s.root_key, s.own_ratchet, header.ratchet), a, b),
         fresh = KeyAt(OwnEnd(h, a, b), g),
         header.ratchet = IF h[1] = "start" THEN KeyAt(b, g - 1) ELSE KeyAt(a, g)
  PROVE  Held(RatchetStep(s, header, fresh), h, a, b, g + 1)
<1> DEFINE t == RatchetStep(s, header, fresh)
           received == KdfRoot(s.root_key, s.own_ratchet, header.ratchet)
           secret == {fresh, header.ratchet}
           replied == Append(received, secret)
           before == SkippedOfPrevious(s, header)
           store == Extend(before, header.ratchet, received, 0, header.message_number)
<1>1. g \in Nat /\ IsSeq(s.root_key) /\ Len(s.root_key) = SealsAt(h, g - 1) /\ IsStore(s.skipped, h, a, b, g)
  BY DEF Held
<1>2. IsSeq(received) /\ Len(received) = SealsAt(h, g - 1) + 1 /\ InTalk(received, a, b)
  BY <1>1, SeqAppend DEF KdfRoot
<1> HIDE DEF received
<1>3. IsSeq(replied) /\ Len(replied) = Len(received) + 1
  BY <1>2, SeqAppend
<1>4. InTalk(replied, a, b)
  <2>1. CASE h[1] = "start"
    <3>1. g >= 1
      BY <2>1 DEF Held
    <3>2. g - 1 \in Nat /\ Len(received) = 2 * (g - 1) + 3 /\ g = (g - 1) + 1
      BY <1>1, <1>2, <2>1, <3>1 DEF SealsAt
    <3>3. secret = {KeyAt(a, (g - 1) + 1), KeyAt(b, g - 1)}
      BY <2>1, <3>2 DEF OwnEnd
    <3> HIDE DEF secret
    <3> QED BY <1>2, <3>2, <3>3, TalkGoesOn
  <2>2. CASE h[1] = "answer"
    <3>1. Len(received) = 2 * g + 2
      BY <1>1, <1>2, <2>2 DEF SealsAt
    <3>2. secret = {KeyAt(b, g), KeyAt(a, g)}
      BY <2>2 DEF OwnEnd
    <3> HIDE DEF secret
    <3> QED BY <1>1, <1>2, <3>1, <3>2, TalkGoesOn
  <2> QED BY <2>1, <2>2
<1>5. Incoming(received, h, a, b, g + 1)
  <2>1. Len(received) < SealsAt(h, (g + 1) - 1)
    BY <1>1, <1>2 DEF SealsAt
  <2>2. \E m \in Nat : Len(received) = OpensAt(h, m)
    <3>1. CASE h[1] = "start"
      <4>1. g - 1 \in Nat /\ Len(received) = 2 * (g - 1) + 3
        BY <1>1, <1>2, <3>1 DEF SealsAt, Held
      <4> QED BY <3>1, <4>1 DEF OpensAt
    <3>2. CASE h[1] = "answer"
      <4>1. Len(received) = 2 * g + 2
        BY <1>1, <1>2, <3>2 DEF SealsAt
      <4> QED BY <1>1, <3>2, <4>1 DEF OpensAt
    <3> QED BY <3>1, <3>2
  <2> QED BY <1>2, <2>1, <2>2 DEF Incoming
<1>6. IsStore(before, h, a, b, g + 1)
  <2>1. CASE s.receiving = None \/ s.remote_ratchet = None
    BY <1>1, <2>1, StoreLater DEF SkippedOfPrevious
  <2>2. CASE ~(s.receiving = None \/ s.remote_ratchet = None)
    <3>1. s.receiving.next \in Nat /\ Incoming(s.receiving.key, h, a, b, g)
      BY <2>2 DEF Held, IsReceiving
    <3>2. before = Extend(s.skipped, s.remote_ratchet, s.receiving.key, s.receiving.next,
                          header.previous_chain_len)
      BY <2>2 DEF SkippedOfPrevious
    <3>3. IsStore(before, h, a, b, g)
      BY <1>1, <3>1, <3>2, StoreExtended
    <3> QED BY <1>1, <3>3, StoreLater
  <2> QED BY <2>1, <2>2
<1> HIDE DEF before
<1>7. IsStore(store, h, a, b, g + 1)
  BY <1>5, <1>6, StoreExtended
<1> HIDE DEF store
<1>8. PreviousSendingLen(s) \in Nat
  BY DEF PreviousSendingLen, Held
<1>9. t = [root_key |-> replied, own_ratchet |-> fresh, remote_ratchet |-> header.ratchet,
           sending |-> [key |-> replied, next |-> 0],
           receiving |-> [key |-> received, next |-> header.message_number + 1],
           previous_sending_len |-> PreviousSendingLen(s), skipped |-> store]
  BY DEF RatchetStep, KdfRoot, ChainStart, received, store, before
<1> HIDE DEF t, replied
<1>10. /\ t = [root_key |-> t.root_key, own_ratchet |-> t.own_ratchet,
               remote_ratchet |-> t.remote_ratchet, sending |-> t.sending,
               receiving |-> t.receiving, previous_sending_len |-> t.previous_sending_len,
               skipped |-> t.skipped]
       /\ t.root_key = replied /\ t.own_ratchet = fresh
       /\ t.sending = [key |-> replied, next |-> 0]
       /\ t.receiving = [key |-> received, next |-> header.message_number + 1]
       /\ t.previous_sending_len = PreviousSendingLen(s) /\ t.skipped = store
  BY <1>9
<1>11. IsReceiving(t.receiving, h, a, b, g + 1)
  <2>1. t.receiving.key = received /\ t.receiving.next = header.message_number + 1
    BY <1>10
  <2> QED BY <1>5, <1>10, <2>1 DEF IsReceiving
<1>12. /\ t.sending = [key |-> t.root_key, next |-> t.sending.next]
       /\ t.sending.next \in 0..CHAIN_LIMIT
  BY <1>10, LimitsAssumption
<1>13. /\ g + 1 \in Nat /\ g + 1 # 0 /\ (h[1] = "start" => g + 1 >= 1)
       /\ Len(t.root_key) = SealsAt(h, (g + 1) - 1)
       /\ t.own_ratchet = KeyAt(OwnEnd(h, a, b), (g + 1) - 1)
  <2>1. (g + 1) - 1 = g /\ g + 1 \in Nat /\ g + 1 # 0 /\ g + 1 >= 1
    BY <1>1
  <2>2. Len(t.root_key) = SealsAt(h, g)
    BY <1>1, <1>2, <1>3, <1>10, SMTT(30) DEF SealsAt
  <2> QED BY <1>10, <2>1, <2>2
<1>14. IsSeq(t.root_key) /\ InTalk(t.root_key, a, b)
  BY <1>3, <1>4, <1>10
<1>15. t.previous_sending_len \in Nat /\ IsStore(t.skipped, h, a, b, g + 1)
  BY <1>7, <1>8, <1>10
<1> QED BY <1>10, <1>11, <1>12, <1>13, <1>14, <1>15 DEF Held, t

\* A session that has drawn one key knows nothing of whom it talks to.
LEMMA HeldWithAnyone ==
  ASSUME NEW s, NEW h, h[1] = "start", NEW a, NEW b, NEW other, Held(s, h, a, b, 1)
  PROVE  Held(s, h, a, other, 1)
<1>1. ASSUME NEW chain, Incoming(chain, h, a, b, 1) PROVE FALSE
  <2>1. PICK m \in Nat : Len(chain) = 2 * m + 3
    BY <1>1 DEF Incoming, OpensAt
  <2>2. Len(chain) < 2
    BY <1>1 DEF Incoming, SealsAt
  <2> QED BY <2>1, <2>2
<1>2. IsReceiving(s.receiving, h, a, other, 1)
  BY <1>1 DEF Held, IsReceiving
<1>3. IsStore(s.skipped, h, a, other, 1)
  BY <1>1 DEF Held, IsStore
<1>4. InTalk(s.root_key, a, other)
  <2>1. IsSeq(s.root_key) /\ InTalk(s.root_key, a, b) /\ Len(s.root_key) <= 2
    BY DEF Held, SealsAt
  <2> DEFINE c == s.root_key
  <2> HIDE DEF c
  <2>2. IsSeq(c) /\ InTalk(c, a, b) /\ Len(c) <= 2
    BY <2>1 DEF c
  <2>3. InTalk(c, a, other)
    BY <2>2, TalkWithAnyone
  <2> QED BY <2>3 DEF c
<1>5. OwnEnd(h, a, other) = OwnEnd(h, a, b)
  BY DEF OwnEnd
<1> QED BY <1>2, <1>3, <1>4, <1>5 DEF Held

-----------------------------------------------------------------------------
(* The inductive invariant *)

\* A frame that session h has sealed, with one of its g keys.
SealedBy(f, h, a, b, g) ==
  /\ f.aad = f.header /\ f.header.previous_chain_len \in Nat
  /\ f.key = [chain |-> f.key.chain, number |-> f.key.number]
  /\ f.key.number \in Nat /\ f.header.message_number = f.key.number
  /\ IsSeq(f.key.chain) /\ InTalk(f.key.chain, a, b)
  /\ \E m \in 0..g - 1 : /\ Len(f.key.chain) = SealsAt(h, m)
                         /\ f.header.ratchet = KeyAt(OwnEnd(h, a, b), m)

\* All its frames: each has a key of its own, and those of its latest chain are
\* behind what it seals next.
Sealed(frames, s, h, a, b, g) ==
  /\ IsSeq(frames)
  /\ \A n \in DOMAIN frames :
       /\ frames[n].plaintext = <<h, n>>
       /\ SealedBy(frames[n], h, a, b, g)
       /\ Len(frames[n].key.chain) = SealsAt(h, g - 1) =>
            frames[n].key.number < s.sending.next
  /\ \A i, j \in DOMAIN frames : frames[i].key = frames[j].key => i = j

\* Plaintexts of the peer's frames, from chains shorter than one's own root key.
OpenedFrom(plaintexts, peer, frames, length) ==
  \A p \in plaintexts :
    /\ p[1] = peer /\ p[2] \in DOMAIN frames /\ frames[p[2]].plaintext = p
    /\ Len(frames[p[2]].key.chain) < length

\* The copy is of an earlier session, and once it has stepped the chains are longer.
Copied(c, h, a, b, g, frames) ==
  \E then \in 0..g :
    /\ Held(c.state, h, a, b, then)
    /\ c.stepped # None =>
         /\ c.stepped \in Nat /\ then < g
         /\ \A n \in DOMAIN frames :
              n > c.stepped => Len(frames[n].key.chain) >= SealsAt(h, then)

Peer(h, k) == IF h[1] = "start" THEN k ELSE SharedKey(h)

\* The end that the chains of session h start from.
StartEnd(h) == End(SharedKey(h))

\* The peer took the other role and has the same key.
Paired(h, k) ==
  \E q \in Handles : q = Peer(h, k) /\ q[1] # h[1] /\ SharedKey(q) = SharedKey(h)

\* Session h, which talks to k if k is an answer to its start.  A start that has
\* opened nothing may be said to talk to anyone.
Talking(h, k) ==
  LET a == StartEnd(h)
      b == End(k)
      g == generated[h]
      peer == Peer(h, k)
  IN  /\ k \in Handles /\ (h[1] = "answer" => k = h)
      /\ Held(session[h], h, a, b, g)
      /\ Sealed(sent[h], session[h], h, a, b, g)
      /\ SealsAt(h, g - 1) > 2 => Paired(h, k)
      /\ opened[h] # {} => SealsAt(h, g - 1) > 2
      /\ OpenedFrom(opened[h], peer, sent[peer], SealsAt(h, g - 1))
      /\ copy # None /\ copy.of = h => Copied(copy, h, a, b, g, sent[h])

Histories ==
  /\ DOMAIN session = Handles /\ DOMAIN generated = Handles
  /\ DOMAIN sent = Handles /\ DOMAIN opened = Handles

CopyShape ==
  copy # None =>
    /\ copy.of \in Handles
    /\ copy = [of |-> copy.of, state |-> copy.state, stepped |-> copy.stepped]

TalkInv ==
  /\ EstablishedInv /\ Histories /\ CopyShape
  /\ \A h \in Handles : \E k \in Handles : Talking(h, k)

-----------------------------------------------------------------------------
(* Who has sealed what opens *)

LEMMA CarriedFacts ==
  ASSUME TalkInv, NEW f \in Carried
  PROVE  \E k \in Handles, j \in Handles : \E n \in DOMAIN sent[k] :
           /\ f = sent[k][n] /\ f.plaintext = <<k, n>> /\ Talking(k, j)
           /\ SealedBy(f, k, StartEnd(k), End(j), generated[k])
<1>1. PICK k \in Handles : f \in {sent[k][n] : n \in DOMAIN sent[k]}
  BY DEF Carried
<1>2. PICK n \in DOMAIN sent[k] : f = sent[k][n]
  BY <1>1
<1>3. PICK j \in Handles : Talking(k, j)
  BY DEF TalkInv
<1>4. Sealed(sent[k], session[k], k, StartEnd(k), End(j), generated[k])
  BY <1>3 DEF Talking
<1>5. sent[k][n].plaintext = <<k, n>> /\ SealedBy(sent[k][n], k, StartEnd(k), End(j), generated[k])
  BY <1>4 DEF Sealed
<1> QED BY <1>2, <1>3, <1>5

LEMMA EndOf ==
  ASSUME NEW h
  PROVE  /\ End(h)[2] = h /\ StartEnd(h)[2] = SharedKey(h)
         /\ \A n : KeyAt(End(h), n) = RatchetKey(h, n)
BY DEF End, StartEnd, KeyAt, RatchetKey

LEMMA Roles ==
  ASSUME TalkInv, NEW h \in Handles
  PROVE  /\ h[1] \in {"start", "answer"}
         /\ SharedKey(h) \in Handles /\ (h[1] = "start" => SharedKey(h) = h)
BY HandleFacts, SharedKeyFacts DEF TalkInv

\* A frame of a chain that h opens with is its peer's.
LEMMA SealedByThePeer ==
  ASSUME TalkInv, NEW h \in Handles, NEW k \in Handles, Talking(h, k), NEW f \in Carried,
         Incoming(f.key.chain, h, StartEnd(h), End(k), generated[h])
  PROVE  /\ \E n \in DOMAIN sent[Peer(h, k)] :
              f = sent[Peer(h, k)][n] /\ f.plaintext = <<Peer(h, k), n>>
         /\ Len(f.key.chain) < SealsAt(h, generated[h] - 1)
         /\ SealsAt(h, generated[h] - 1) > 2
<1>1. PICK q \in Handles, j \in Handles : \E n \in DOMAIN sent[q] :
           /\ f = sent[q][n] /\ f.plaintext = <<q, n>> /\ Talking(q, j)
           /\ SealedBy(f, q, StartEnd(q), End(j), generated[q])
  BY CarriedFacts
<1>2. PICK n \in DOMAIN sent[q] :
           /\ f = sent[q][n] /\ f.plaintext = <<q, n>> /\ Talking(q, j)
           /\ SealedBy(f, q, StartEnd(q), End(j), generated[q])
  BY <1>1
<1> DEFINE c == f.key.chain
<1>3. /\ IsSeq(c) /\ InTalk(c, StartEnd(h), End(k))
      /\ Len(c) < SealsAt(h, generated[h] - 1)
  BY DEF Incoming
<1>4. PICK m \in Nat : Len(c) = OpensAt(h, m)
  BY DEF Incoming
<1>5. /\ InTalk(c, StartEnd(q), End(j))
      /\ \E i \in 0..generated[q] - 1 : Len(c) = SealsAt(q, i)
  BY <1>2 DEF SealedBy
<1>6. PICK i \in 0..generated[q] - 1 : Len(c) = SealsAt(q, i)
  BY <1>5
<1> HIDE DEF c
<1>7. h[1] \in {"start", "answer"} /\ q[1] \in {"start", "answer"}
  BY Roles
<1>8. i \in Int /\ m \in Int
  OBVIOUS
<1>9. q[1] # h[1]
  <2>1. OpensAt(h, m) = SealsAt(q, i)
    BY <1>4, <1>6
  <2> QED BY <1>7, <1>8, <2>1 DEF OpensAt, SealsAt
<1>10. Len(c) \in Nat /\ Len(c) >= 2 /\ (h[1] = "start" => Len(c) >= 3)
  BY <1>4, <1>7 DEF OpensAt
<1>11. SharedKey(q) = SharedKey(h)
  BY <1>3, <1>5, <1>10, TalkTellsTheEnds, EndOf
<1>12. q = Peer(h, k)
  <2>1. CASE h[1] = "start"
    <3>1. j = q
      BY <1>2, <1>7, <1>9, <2>1 DEF Talking
    <3>2. End(j)[2] = End(k)[2]
      BY <1>3, <1>5, <1>10, <2>1, TalkTellsTheEnds
    <3> QED BY <2>1, <3>1, <3>2, EndOf DEF Peer
  <2>2. CASE h[1] = "answer"
    <3>1. q[1] = "start"
      BY <1>7, <1>9, <2>2
    <3>2. SharedKey(q) = q
      BY <3>1, Roles
    <3> QED BY <1>11, <2>2, <3>2 DEF Peer
  <2> QED BY <1>7, <2>1, <2>2
<1>13. SealsAt(h, generated[h] - 1) > 2
  <2>1. generated[h] \in Nat
    BY DEF Talking, Held
  <2>2. SealsAt(h, generated[h] - 1) \in Int
    BY <2>1 DEF SealsAt
  <2> QED BY <1>3, <1>10, <2>2
<1> QED BY <1>2, <1>3, <1>12, <1>13 DEF c

LEMMA TalkingWithAnyone ==
  ASSUME TalkInv, NEW h \in Handles, h[1] = "start", generated[h] = 1,
         NEW k \in Handles, NEW other \in Handles, Talking(h, k)
  PROVE  Talking(h, other)
<1> DEFINE a == StartEnd(h)
           b == End(k)
           c == End(other)
<1>1. /\ Held(session[h], h, a, b, 1)
      /\ Sealed(sent[h], session[h], h, a, b, 1)
      /\ opened[h] # {} => SealsAt(h, 1 - 1) > 2
      /\ copy # None /\ copy.of = h => Copied(copy, h, a, b, 1, sent[h])
  BY DEF Talking
<1> HIDE DEF a, b, c
<1>2. SealsAt(h, 1 - 1) = 2
  BY DEF SealsAt
<1>3. opened[h] = {}
  BY <1>1, <1>2
<1>4. Held(session[h], h, a, c, 1)
  BY <1>1, HeldWithAnyone
<1>5. ASSUME NEW f, SealedBy(f, h, a, b, 1) PROVE SealedBy(f, h, a, c, 1)
  <2> DEFINE chain == f.key.chain
  <2>1. /\ IsSeq(chain) /\ InTalk(chain, a, b)
        /\ \E m \in 0..1 - 1 : Len(chain) = SealsAt(h, m)
    BY <1>5 DEF SealedBy
  <2> HIDE DEF chain
  <2>2. Len(chain) <= 2
    BY <2>1 DEF SealsAt
  <2>3. InTalk(chain, a, c)
    BY <2>1, <2>2, TalkWithAnyone
  <2>4. OwnEnd(h, a, c) = OwnEnd(h, a, b)
    BY DEF OwnEnd
  <2> QED BY <1>5, <2>3, <2>4 DEF SealedBy, chain
<1>6. Sealed(sent[h], session[h], h, a, c, 1)
  BY <1>1, <1>5 DEF Sealed
<1>7. copy # None /\ copy.of = h => Copied(copy, h, a, c, 1, sent[h])
  <2> SUFFICES ASSUME copy # None, copy.of = h PROVE Copied(copy, h, a, c, 1, sent[h])
    OBVIOUS
  <2>1. PICK then \in 0..1 :
          /\ Held(copy.state, h, a, b, then)
          /\ copy.stepped # None =>
               /\ copy.stepped \in Nat /\ then < 1
               /\ \A n \in DOMAIN sent[h] :
                    n > copy.stepped => Len(sent[h][n].key.chain) >= SealsAt(h, then)
    BY <1>1 DEF Copied
  <2>2. then = 1
    BY <2>1 DEF Held
  <2>3. Held(copy.state, h, a, c, then)
    BY <2>1, <2>2, HeldWithAnyone
  <2> QED BY <2>1, <2>3 DEF Copied
<1>8. ~(SealsAt(h, generated[h] - 1) > 2)
  BY <1>2
<1> QED BY <1>3, <1>4, <1>6, <1>7, <1>8 DEF Talking, OpenedFrom, a, c

\* The frame that makes a session step is of the next chain, and its peer's.
LEMMA StepFacts ==
  ASSUME TalkInv, NEW h \in Handles, NEW f \in Carried,
         f.key.chain = KdfRoot(session[h].root_key, session[h].own_ratchet, f.header.ratchet)
  PROVE  \E k \in Handles :
           /\ Talking(h, k)
           /\ Paired(h, k)
           /\ InTalk(f.key.chain, StartEnd(h), End(k))
           /\ f.header.ratchet = IF h[1] = "start" THEN KeyAt(End(k), generated[h] - 1)
                                 ELSE KeyAt(StartEnd(h), generated[h])
           /\ f.header.message_number \in Nat /\ f.header.previous_chain_len \in Nat
           /\ \E n \in DOMAIN sent[Peer(h, k)] :
                f = sent[Peer(h, k)][n] /\ f.plaintext = <<Peer(h, k), n>>
           /\ Len(f.key.chain) < SealsAt(h, generated[h])
<1>1. PICK q \in Handles, j \in Handles : \E n \in DOMAIN sent[q] :
           /\ f = sent[q][n] /\ f.plaintext = <<q, n>> /\ Talking(q, j)
           /\ SealedBy(f, q, StartEnd(q), End(j), generated[q])
  BY CarriedFacts
<1>2. PICK n \in DOMAIN sent[q] :
           /\ f = sent[q][n] /\ f.plaintext = <<q, n>> /\ Talking(q, j)
           /\ SealedBy(f, q, StartEnd(q), End(j), generated[q])
  BY <1>1
<1>3. PICK k \in Handles : Talking(h, k)
  BY DEF TalkInv
<1> DEFINE c == f.key.chain
           g == generated[h]
           r == session[h].root_key
           x == {session[h].own_ratchet, f.header.ratchet}
           a == StartEnd(h)
           b == End(k)
<1>4. /\ g \in Nat /\ (h[1] = "start" => g >= 1)
      /\ IsSeq(r) /\ InTalk(r, a, b) /\ Len(r) = SealsAt(h, g - 1)
  BY <1>3 DEF Talking, Held
<1>5. c = Append(r, x)
  BY DEF KdfRoot
<1>6. IsSeq(c) /\ InTalk(c, StartEnd(q), End(j))
  BY <1>2 DEF SealedBy
<1>7. PICK m \in 0..generated[q] - 1 :
        /\ Len(c) = SealsAt(q, m)
        /\ f.header.ratchet = KeyAt(OwnEnd(q, StartEnd(q), End(j)), m)
  BY <1>2 DEF SealedBy
<1>8. f.header.message_number \in Nat /\ f.header.previous_chain_len \in Nat
  BY <1>2 DEF SealedBy
<1> HIDE DEF c, r, x
<1>9. Len(c) = SealsAt(h, g - 1) + 1
  BY <1>4, <1>5, SeqAppend
<1>10. h[1] \in {"start", "answer"} /\ q[1] \in {"start", "answer"} /\ m \in Nat
  BY Roles
<1> HIDE DEF g, a
<1>11. /\ q[1] # h[1] /\ Len(c) \in Nat
       /\ h[1] = "start" => m = g - 1 /\ Len(c) >= 3
       /\ h[1] = "answer" => m = g /\ Len(c) >= 2
  <2>1. Len(c) = SealsAt(q, m) /\ g \in Nat
    BY <1>4, <1>7
  <2>2. CASE h[1] = "start"
    <3>1. g >= 1 /\ Len(c) = 2 * g + 1
      BY <1>4, <1>9, <2>2 DEF SealsAt
    <3>2. q[1] # "start"
      BY <1>10, <2>1, <3>1 DEF SealsAt
    <3> QED BY <1>10, <2>1, <2>2, <3>1, <3>2 DEF SealsAt
  <2>3. CASE h[1] = "answer"
    <3>1. Len(c) = 2 * g + 2
      BY <1>4, <1>9, <2>1, <2>3 DEF SealsAt
    <3>2. q[1] # "answer"
      BY <1>10, <2>1, <3>1 DEF SealsAt
    <3> QED BY <1>10, <2>1, <2>3, <3>1, <3>2 DEF SealsAt
  <2> QED BY <1>10, <2>2, <2>3
<1>12. InTalk(r, StartEnd(q), End(j))
  BY <1>4, <1>5, <1>6, TalkBefore
<1>13. Len(r) \in Nat /\ Len(r) >= 1
  BY <1>4, <1>10 DEF SealsAt
<1>14. SharedKey(q) = SharedKey(h) /\ StartEnd(q) = a
  <2>1. SharedKey(q) = SharedKey(h)
    BY <1>4, <1>12, <1>13, TalkTellsTheEnds, EndOf DEF a
  <2> QED BY <2>1 DEF StartEnd, a
<1>15. Len(c) < SealsAt(h, g)
  BY <1>4, <1>9, <1>10 DEF SealsAt
<1>16. CASE h[1] = "start"
  <2>1. q[1] = "answer" /\ j = q
    BY <1>2, <1>10, <1>11, <1>16 DEF Talking
  <2>2. Talking(h, q)
    <3>1. CASE g = 1
      BY <1>3, <1>16, <3>1, TalkingWithAnyone DEF g
    <3>2. CASE g # 1
      <4>1. Len(r) >= 3
        BY <1>4, <1>16, <3>2 DEF SealsAt
      <4>2. b[2] = End(j)[2]
        BY <1>4, <1>12, <1>13, <4>1, TalkTellsTheEnds
      <4>3. k = q
        BY <2>1, <4>2, EndOf
      <4> QED BY <1>3, <4>3
    <3> QED BY <3>1, <3>2
  <2>3. Peer(h, q) = q
    BY <1>16 DEF Peer
  <2>4. f.header.ratchet = KeyAt(End(q), g - 1)
    <3>1. OwnEnd(q, StartEnd(q), End(j)) = End(q)
      BY <2>1 DEF OwnEnd
    <3> QED BY <1>7, <1>11, <1>16, <3>1
  <2>5. InTalk(c, a, End(q))
    BY <1>6, <1>14, <2>1
  <2>6. Paired(h, q)
    BY <1>11, <1>14, <2>3 DEF Paired
  <2> QED BY <1>2, <1>8, <1>15, <2>2, <2>3, <2>4, <2>5, <2>6, <1>16 DEF a, c, g
<1>17. CASE h[1] = "answer"
  <2>1. q[1] = "start" /\ k = h /\ SharedKey(q) = q
    BY <1>3, <1>10, <1>11, <1>17, Roles DEF Talking
  <2>2. Peer(h, k) = q
    BY <1>14, <1>17, <2>1 DEF Peer
  <2>3. f.header.ratchet = KeyAt(a, g)
    <3>1. OwnEnd(q, StartEnd(q), End(j)) = a
      BY <1>14, <2>1 DEF OwnEnd
    <3> QED BY <1>7, <1>11, <1>17, <3>1
  <2>4. InTalk(c, a, b)
    <3>1. InTalk(c, a, End(j))
      BY <1>6, <1>14
    <3>2. CASE g = 0
      <4>1. Len(c) <= 2
        BY <1>9, <1>17, <3>2 DEF SealsAt
      <4> QED BY <1>6, <3>1, <4>1, TalkWithAnyone
    <3>3. CASE g # 0
      <4>1. Len(r) >= 3
        BY <1>4, <1>17, <3>3 DEF SealsAt
      <4>2. b[2] = End(j)[2]
        BY <1>4, <1>12, <1>13, <4>1, TalkTellsTheEnds
      <4>3. k = j
        BY <4>2, EndOf
      <4> QED BY <3>1, <4>3
    <3> QED BY <3>2, <3>3
  <2>5. Paired(h, k)
    BY <1>11, <1>14, <2>2 DEF Paired
  <2> QED BY <1>2, <1>3, <1>8, <1>15, <1>17, <2>2, <2>3, <2>4, <2>5 DEF a, c, g
<1> QED BY <1>10, <1>16, <1>17

-----------------------------------------------------------------------------
(* What has opened a frame *)

LEMMA StepOpens ==
  ASSUME NEW s, NEW f, NEW fresh, StepResult(s, f, fresh) = "Ok"
  PROVE  f.key = KeyOf(KdfRoot(s.root_key, s.own_ratchet, f.header.ratchet), f.header.message_number)
<1> DEFINE key == KeyOf(KdfRoot(s.root_key, s.own_ratchet, f.header.ratchet), f.header.message_number)
<1>1. StepResult(s, f, fresh) = "Ok" => OpenResult(key, f) = "Ok"
  BY DEF StepResult
<1> HIDE DEF key
<1> QED BY <1>1 DEF OpenResult, Opens, key

LEMMA KeyOnHandOpens ==
  ASSUME NEW s, NEW f, DecryptResult(s, f, None) = "Ok"
  PROVE  \/ IsSkipped(s, f) /\ f.key = s.skipped[Position(s.skipped, f.header)].key
         \/ /\ ~IsSkipped(s, f) /\ s.receiving # None
            /\ f.key = KeyOf(s.receiving.key, f.header.message_number)
<1>1. StepResult(s, f, None) # "Ok"
  BY DEF StepResult
<1>2. CASE IsSkipped(s, f)
  <2>1. SkippedResult(s, f) = "Ok"
    BY <1>2 DEF DecryptResult, InReceivingChain, AfterRatchetStep
  <2> QED BY <1>2, <2>1 DEF SkippedResult, OpenResult, Opens
<1>3. CASE ~IsSkipped(s, f)
  <2>1. ReceivingResult(s, f) = "Ok"
    BY <1>1, <1>3 DEF DecryptResult, InReceivingChain, AfterRatchetStep
  <2>2. s.receiving # None /\ OpenResult(KeyOf(s.receiving.key, f.header.message_number), f) = "Ok"
    BY <2>1 DEF ReceivingResult
  <2> QED BY <1>3, <2>2 DEF OpenResult, Opens
<1> QED BY <1>2, <1>3

-----------------------------------------------------------------------------
(* What a step leaves alone *)

LEMMA Steady ==
  ASSUME UNCHANGED established
  PROVE  /\ Handles' = Handles
         /\ \A h : SharedKey(h)' = SharedKey(h) /\ End(h)' = End(h)
<1>1. starts' = starts /\ answers' = answers
  BY DEF established
<1>2. Handles' = Handles
  BY <1>1 DEF Handles
<1>3. \A h : Established(h)' = Established(h)
  BY <1>1 DEF Established
<1>4. \A h : SharedKey(h)' = SharedKey(h)
  BY <1>1 DEF SharedKey, Handles, Established
<1>5. \A h : End(h)' = End(h)
  BY <1>1 DEF End, OwnerOf, Established, X!SignedPrekey
<1> QED BY <1>2, <1>4, <1>5

\* Both kinds of step keep what names a session and its peer.
LEMMA NamesKept ==
  ASSUME EstablishedInv, XP!Next \/ UNCHANGED established, NEW h \in Handles, NEW k \in Handles
  PROVE  /\ EstablishedInv'
         /\ h \in Handles' /\ SharedKey(h)' = SharedKey(h) /\ End(h)' = End(h)
         /\ StartEnd(h)' = StartEnd(h) /\ Peer(h, k)' = Peer(h, k)
         /\ Paired(h, k)' = Paired(h, k)
<1>1. \A x \in Handles : x \in Handles' /\ SharedKey(x)' = SharedKey(x) /\ End(x)' = End(x)
  <2>1. CASE XP!Next
    BY <2>1, EstablishKeeps
  <2>2. CASE UNCHANGED established
    BY <2>2, Steady
  <2> QED BY <2>1, <2>2
<1>2. PICK y : y = SharedKey(h)
  OBVIOUS
<1>3. y \in Handles
  BY <1>2, SharedKeyFacts
<1>4. SharedKey(h)' = y /\ End(y)' = End(y)
  BY <1>1, <1>2, <1>3
<1>5. StartEnd(h)' = StartEnd(h)
  <2>1. StartEnd(h)' = End(y)'
    BY <1>4 DEF StartEnd, End, OwnerOf, Established, X!SignedPrekey
  <2> QED BY <1>2, <1>4, <2>1 DEF StartEnd
<1>6. Peer(h, k)' = Peer(h, k)
  BY <1>1 DEF Peer
<1>7. PICK q : q = Peer(h, k)
  OBVIOUS
<1>8. q \in Handles
  BY <1>2, <1>3, <1>7 DEF Peer
<1>9. Peer(h, k)' = q /\ SharedKey(q)' = SharedKey(q) /\ SharedKey(h)' = SharedKey(h)
  BY <1>1, <1>6, <1>7, <1>8
<1>10. Paired(h, k)' = Paired(h, k)
  <2>1. Paired(h, k) <=> (q[1] # h[1] /\ SharedKey(q) = SharedKey(h))
    BY <1>7, <1>8 DEF Paired
  <2>2. q \in Handles'
    BY <1>1, <1>8
  <2>3. Paired(h, k)' <=> (q[1] # h[1] /\ SharedKey(q)' = SharedKey(h)')
    BY <1>9, <2>2 DEF Paired
  <2>4. Paired(h, k) \in BOOLEAN /\ Paired(h, k)' \in BOOLEAN
    BY DEF Paired
  <2> QED BY <1>9, <2>1, <2>3, <2>4
<1>11. EstablishedInv'
  <2>1. CASE XP!Next
    BY <2>1, StepEstablishedInv
  <2>2. CASE UNCHANGED established
    <3>1. XP!SessionsInv'
      BY <2>2, XP!StepSessionsInv, AlteredAssumption, BoundsAssumption, NamesAssumption
         DEF EstablishedInv, established, XP!vars
    <3>2. AnswersSent'
      BY <2>2 DEF EstablishedInv, AnswersSent, established
    <3> QED BY <3>1, <3>2 DEF EstablishedInv
  <2> QED BY <2>1, <2>2
<1> QED BY <1>1, <1>5, <1>6, <1>10, <1>11

LEMMA TalkingKept ==
  ASSUME EstablishedInv, XP!Next \/ UNCHANGED established,
         NEW h \in Handles, NEW k \in Handles, Talking(h, k), NEW q, q = Peer(h, k),
         session'[h] = session[h], generated'[h] = generated[h],
         sent'[h] = sent[h], opened'[h] = opened[h],
         \A n \in DOMAIN sent[q] : n \in DOMAIN sent'[q] /\ sent'[q][n] = sent[q][n],
         copy' # None /\ copy'.of = h => copy' = copy
  PROVE  Talking(h, k)'
<1>1. /\ StartEnd(h)' = StartEnd(h) /\ End(k)' = End(k) /\ Peer(h, k)' = q
      /\ Paired(h, k)' = Paired(h, k) /\ k \in Handles'
  BY NamesKept
<1> DEFINE a == StartEnd(h)
           b == End(k)
           g == generated[h]
<1>2. /\ h[1] = "answer" => k = h
      /\ Held(session[h], h, a, b, g)
      /\ Sealed(sent[h], session[h], h, a, b, g)
      /\ SealsAt(h, g - 1) > 2 => Paired(h, k)
      /\ opened[h] # {} => SealsAt(h, g - 1) > 2
      /\ OpenedFrom(opened[h], q, sent[q], SealsAt(h, g - 1))
      /\ copy # None /\ copy.of = h => Copied(copy, h, a, b, g, sent[h])
  BY DEF Talking
<1>3. OpenedFrom(opened[h], q, sent'[q], SealsAt(h, g - 1))
  BY <1>2 DEF OpenedFrom
<1>4. ASSUME copy' # None, copy'.of = h PROVE Copied(copy', h, a, b, g, sent[h])
  BY <1>2, <1>4
<1>5. PICK u : u = a
  OBVIOUS
<1>6. PICK v : v = b
  OBVIOUS
<1>7. StartEnd(h)' = u /\ End(k)' = v
  BY <1>1, <1>5, <1>6
<1> QED BY <1>1, <1>2, <1>3, <1>4, <1>5, <1>6, <1>7 DEF Talking

\* It is enough to look at the session that acts.
LEMMA OneActs ==
  ASSUME TalkInv, UNCHANGED established, NEW h \in Handles, Histories', CopyShape',
         \A x \in Handles \ {h} : /\ session'[x] = session[x] /\ generated'[x] = generated[x]
                                  /\ sent'[x] = sent[x] /\ opened'[x] = opened[x],
         \A n \in DOMAIN sent[h] : n \in DOMAIN sent'[h] /\ sent'[h][n] = sent[h][n],
         copy' # None /\ copy'.of # h => copy' = copy,
         \E k \in Handles : Talking(h, k)'
  PROVE  TalkInv'
<1>1. EstablishedInv /\ EstablishedInv' /\ Handles' = Handles
  BY NamesKept, Steady DEF TalkInv
<1>2. ASSUME NEW x \in Handles PROVE \E k \in Handles' : Talking(x, k)'
  <2>1. CASE x = h
    BY <1>1, <2>1
  <2>2. CASE x # h
    <3>1. PICK k \in Handles : Talking(x, k)
      BY DEF TalkInv
    <3>2. PICK q : q = Peer(x, k)
      OBVIOUS
    <3>3. q \in Handles
      BY <1>1, <3>2, SharedKeyFacts DEF Peer
    <3>4. \A n \in DOMAIN sent[q] : n \in DOMAIN sent'[q] /\ sent'[q][n] = sent[q][n]
      BY <3>3
    <3>5. Talking(x, k)'
      BY <1>1, <2>2, <3>1, <3>2, <3>4, TalkingKept
    <3> QED BY <1>1, <3>5
  <2> QED BY <2>1, <2>2
<1> QED BY <1>1, <1>2 DEF TalkInv

-----------------------------------------------------------------------------
(* encrypt *)

LEMMA SealedMore ==
  ASSUME NEW s, NEW h, NEW a, NEW b, NEW g, Held(s, h, a, b, g), CanSend(s),
         NEW frames, Sealed(frames, s, h, a, b, g),
         NEW f, f = SealedFrame(s, <<h, Len(frames) + 1>>)
  PROVE  /\ Sealed(Append(frames, f), AfterSealing(s), h, a, b, g)
         /\ Len(f.key.chain) = SealsAt(h, g - 1)
<1> DEFINE t == AfterSealing(s)
           N == s.sending.next
           more == Append(frames, f)
<1>1. /\ t.sending = [key |-> s.root_key, next |-> N + 1]
      /\ s.sending.key = s.root_key /\ N \in Nat /\ g # 0
  <2>1. /\ t.sending = [key |-> s.root_key, next |-> s.sending.next + 1]
        /\ s.sending = [key |-> s.root_key, next |-> s.sending.next]
        /\ s.sending.next \in Nat /\ g # 0
    BY HeldSealing
  <2>2. s.sending.key = s.root_key
    BY <2>1
  <2> QED BY <2>1, <2>2
<1>2. /\ g \in Nat /\ IsSeq(s.root_key) /\ InTalk(s.root_key, a, b)
      /\ Len(s.root_key) = SealsAt(h, g - 1)
      /\ s.own_ratchet = KeyAt(OwnEnd(h, a, b), g - 1)
      /\ s.previous_sending_len \in Nat
  BY <1>1 DEF Held
<1>3. /\ f.aad = f.header /\ f.header.ratchet = s.own_ratchet
      /\ f.header.previous_chain_len = s.previous_sending_len
      /\ f.header.message_number = N
      /\ f.key = [chain |-> s.root_key, number |-> N]
      /\ f.plaintext = <<h, Len(frames) + 1>>
  BY <1>1 DEF SealedFrame, NextHeader, KeyOf
<1>4. f.key.chain = s.root_key /\ f.key.number = N
  BY <1>3
<1> HIDE DEF t
<1>5. t.sending.next = N + 1
  BY <1>1
<1> HIDE DEF N
<1>6. SealedBy(f, h, a, b, g)
  <2>1. g - 1 \in 0..g - 1
    BY <1>1, <1>2
  <2>2. \E m \in 0..g - 1 : /\ Len(f.key.chain) = SealsAt(h, m)
                            /\ f.header.ratchet = KeyAt(OwnEnd(h, a, b), m)
    BY <1>2, <1>3, <1>4, <2>1
  <2>3. f.key = [chain |-> f.key.chain, number |-> f.key.number]
    BY <1>3, <1>4
  <2> QED BY <1>1, <1>2, <1>3, <1>4, <2>2, <2>3 DEF SealedBy
<1>7. /\ IsSeq(frames) /\ Len(frames) \in Nat /\ DOMAIN frames = 1..Len(frames)
      /\ IsSeq(more) /\ Len(more) = Len(frames) + 1 /\ DOMAIN more = 1..Len(more)
      /\ \A i \in 1..Len(frames) : more[i] = frames[i]
      /\ more[Len(frames) + 1] = f
  <2>1. IsSeq(frames)
    BY DEF Sealed
  <2>2. IsSeq(more)
    BY <2>1, SeqAppend
  <2> HIDE DEF more
  <2>3. DOMAIN more = 1..Len(more)
    BY <2>2, SeqAppend
  <2> QED BY <2>1, <2>2, <2>3, SeqAppend DEF more
<1> HIDE DEF more
<1>8. \A n \in DOMAIN more : n \in DOMAIN frames \/ n = Len(frames) + 1
  BY <1>7
<1>9. /\ \A n \in DOMAIN frames :
           /\ frames[n].plaintext = <<h, n>>
           /\ SealedBy(frames[n], h, a, b, g)
           /\ Len(frames[n].key.chain) = SealsAt(h, g - 1) => frames[n].key.number < N
      /\ \A i, j \in DOMAIN frames : frames[i].key = frames[j].key => i = j
  BY DEF Sealed, N
<1>10. ASSUME NEW n \in DOMAIN more
       PROVE  /\ more[n].plaintext = <<h, n>>
              /\ SealedBy(more[n], h, a, b, g)
              /\ Len(more[n].key.chain) = SealsAt(h, g - 1) => more[n].key.number < t.sending.next
  <2>1. CASE n = Len(frames) + 1
    <3>1. N < N + 1
      BY <1>1
    <3> QED BY <1>3, <1>4, <1>5, <1>6, <1>7, <2>1, <3>1
  <2>2. CASE n \in DOMAIN frames
    <3>1. more[n] = frames[n]
      BY <1>7, <2>2
    <3>2. frames[n].key.number \in Nat
      BY <1>9, <2>2 DEF SealedBy
    <3> QED BY <1>1, <1>5, <1>9, <2>2, <3>1, <3>2
  <2> QED BY <1>8, <2>1, <2>2
<1>11. ASSUME NEW i \in DOMAIN frames PROVE frames[i].key # f.key
  <2>1. SUFFICES ASSUME frames[i].key = f.key PROVE FALSE
    OBVIOUS
  <2>2. Len(frames[i].key.chain) = SealsAt(h, g - 1) /\ frames[i].key.number = N
    BY <1>2, <1>4, <2>1
  <2>3. N < N
    BY <1>9, <2>2
  <2> QED BY <1>1, <2>3
<1>12. ASSUME NEW i \in DOMAIN more, NEW j \in DOMAIN more, more[i].key = more[j].key
       PROVE  i = j
  BY <1>7, <1>8, <1>9, <1>11, <1>12
<1>13. Sealed(more, t, h, a, b, g)
  BY <1>7, <1>10, <1>12 DEF Sealed
<1> QED BY <1>2, <1>4, <1>13 DEF more, t

LEMMA CopiedMore ==
  ASSUME NEW c, NEW h, NEW a, NEW b, NEW g \in Nat, NEW frames, Copied(c, h, a, b, g, frames),
         IsSeq(frames), NEW f, Len(f.key.chain) = SealsAt(h, g - 1)
  PROVE  Copied(c, h, a, b, g, Append(frames, f))
<1>1. PICK then \in 0..g :
        /\ Held(c.state, h, a, b, then)
        /\ c.stepped # None =>
             /\ c.stepped \in Nat /\ then < g
             /\ \A n \in DOMAIN frames :
                  n > c.stepped => Len(frames[n].key.chain) >= SealsAt(h, then)
  BY DEF Copied
<1> DEFINE more == Append(frames, f)
<1>2. /\ DOMAIN frames = 1..Len(frames) /\ Len(frames) \in Nat
      /\ IsSeq(more) /\ Len(more) = Len(frames) + 1
      /\ \A i \in 1..Len(frames) : more[i] = frames[i]
      /\ more[Len(frames) + 1] = f
  BY SeqAppend
<1> HIDE DEF more
<1>3. DOMAIN more = 1..Len(more)
  BY <1>2, SeqAppend
<1>4. then < g => SealsAt(h, g - 1) >= SealsAt(h, then)
  BY DEF SealsAt
<1>5. ASSUME c.stepped # None, NEW n \in DOMAIN more, n > c.stepped
      PROVE  Len(more[n].key.chain) >= SealsAt(h, then)
  <2>1. CASE n \in DOMAIN frames
    BY <1>1, <1>2, <1>5, <2>1
  <2>2. CASE n = Len(frames) + 1
    BY <1>1, <1>2, <1>4, <1>5, <2>2
  <2> QED BY <1>2, <1>3, <2>1, <2>2
<1> QED BY <1>1, <1>5 DEF Copied, more

LEMMA EncryptStep ==
  ASSUME TalkInv, NEW h \in Handles, Encrypt(h)
  PROVE  TalkInv'
<1>1. Histories /\ CopyShape /\ EstablishedInv
  BY DEF TalkInv
<1>2. PICK k \in Handles : Talking(h, k)
  BY DEF TalkInv
<1> DEFINE f == SealedFrame(session[h], <<h, Len(sent[h]) + 1>>)
<1>3. /\ CanSend(session[h]) /\ UNCHANGED established
      /\ session' = [session EXCEPT ![h] = AfterSealing(session[h])]
      /\ sent' = [sent EXCEPT ![h] = Append(sent[h], f)]
      /\ generated' = generated /\ opened' = opened /\ copy' = copy
  BY DEF Encrypt
<1> HIDE DEF f
<1>4. Handles' = Handles
  BY <1>3, Steady
<1>5. Histories'
  BY <1>1, <1>3, <1>4 DEF Histories
<1>6. CopyShape'
  BY <1>1, <1>3, <1>4 DEF CopyShape
<1>7. /\ session'[h] = AfterSealing(session[h]) /\ sent'[h] = Append(sent[h], f)
      /\ \A x \in Handles \ {h} : session'[x] = session[x] /\ sent'[x] = sent[x]
  BY <1>1, <1>3 DEF Histories
<1>8. PICK q : q = Peer(h, k)
  OBVIOUS
<1>9. PICK a : a = StartEnd(h)
  OBVIOUS
<1>10. PICK b : b = End(k)
  OBVIOUS
<1>11. /\ StartEnd(h)' = a /\ End(k)' = b /\ Peer(h, k)' = q
       /\ Paired(h, k)' = Paired(h, k)
  BY <1>1, <1>3, <1>8, <1>9, <1>10, NamesKept
<1> DEFINE g == generated[h]
<1>12. /\ h[1] = "answer" => k = h
       /\ Held(session[h], h, a, b, g)
       /\ Sealed(sent[h], session[h], h, a, b, g)
       /\ SealsAt(h, g - 1) > 2 => Paired(h, k)
       /\ opened[h] # {} => SealsAt(h, g - 1) > 2
       /\ OpenedFrom(opened[h], q, sent[q], SealsAt(h, g - 1))
       /\ copy # None /\ copy.of = h => Copied(copy, h, a, b, g, sent[h])
  BY <1>2, <1>8, <1>9, <1>10 DEF Talking
<1>13. Held(session'[h], h, a, b, g)
  <2>1. Held(session[h], h, a, b, g) /\ CanSend(session[h])
    BY <1>3, <1>12
  <2>2. Held(AfterSealing(session[h]), h, a, b, g)
    BY <2>1, HeldSealing
  <2> QED BY <1>7, <2>2
<1>14. /\ Sealed(sent'[h], session'[h], h, a, b, g)
       /\ Len(f.key.chain) = SealsAt(h, g - 1)
  BY <1>3, <1>7, <1>12, SealedMore DEF f
<1>15. g \in Nat /\ IsSeq(sent[h])
  BY <1>12 DEF Held, Sealed
<1>16. ASSUME copy # None, copy.of = h PROVE Copied(copy, h, a, b, g, sent'[h])
  BY <1>7, <1>12, <1>14, <1>15, <1>16, CopiedMore
<1>17. \A n \in DOMAIN sent[h] : n \in DOMAIN sent'[h] /\ sent'[h][n] = sent[h][n]
  <2> DEFINE c == sent[h]
             d == Append(c, f)
  <2>1. IsSeq(c)
    BY <1>15
  <2> HIDE DEF c, d
  <2>2. /\ DOMAIN c = 1..Len(c) /\ Len(c) \in Nat /\ IsSeq(d) /\ Len(d) = Len(c) + 1
        /\ \A i \in 1..Len(c) : d[i] = c[i]
    BY <2>1, SeqAppend DEF d
  <2>3. DOMAIN d = 1..Len(d)
    BY <2>2, SeqAppend
  <2>4. \A n \in DOMAIN c : n \in DOMAIN d /\ d[n] = c[n]
    BY <2>2, <2>3
  <2> QED BY <1>7, <2>4 DEF c, d
<1>18. OpenedFrom(opened[h], q, sent'[q], SealsAt(h, g - 1))
  <2>1. q \in Handles
    BY <1>1, <1>8, SharedKeyFacts DEF Peer
  <2>2. \A n \in DOMAIN sent[q] : n \in DOMAIN sent'[q] /\ sent'[q][n] = sent[q][n]
    BY <1>7, <1>17, <2>1
  <2> QED BY <1>12, <2>2 DEF OpenedFrom
<1>19. Talking(h, k)'
  BY <1>2, <1>3, <1>4, <1>11, <1>12, <1>13, <1>14, <1>16, <1>18 DEF Talking
<1> QED BY <1>2, <1>3, <1>5, <1>6, <1>7, <1>17, <1>19, OneActs

-----------------------------------------------------------------------------
(* decrypt *)

LEMMA KeyOnHandStep ==
  ASSUME TalkInv, NEW h \in Handles, NEW f \in Carried, DecryptWithKeyOnHand(h, f)
  PROVE  TalkInv'
<1>1. Histories /\ CopyShape /\ EstablishedInv
  BY DEF TalkInv
<1>2. PICK k \in Handles : Talking(h, k)
  BY DEF TalkInv
<1> DEFINE s == session[h]
           t == IF IsSkipped(s, f) THEN AfterStoredKey(s, f.header) ELSE AfterReceiving(s, f.header)
           g == generated[h]
<1>3. /\ DecryptResult(s, f, None) = "Ok" /\ UNCHANGED established
      /\ session' = [session EXCEPT ![h] = t]
      /\ opened' = [opened EXCEPT ![h] = opened[h] \cup {f.plaintext}]
      /\ generated' = generated /\ sent' = sent /\ copy' = copy
  BY DEF DecryptWithKeyOnHand, Returns
<1> HIDE DEF s, t
<1>4. Handles' = Handles
  BY <1>3, Steady
<1>5. Histories'
  BY <1>1, <1>3, <1>4 DEF Histories
<1>6. CopyShape'
  BY <1>1, <1>3, <1>4 DEF CopyShape
<1>7. /\ session'[h] = t /\ opened'[h] = opened[h] \cup {f.plaintext}
      /\ \A x \in Handles \ {h} : session'[x] = session[x] /\ opened'[x] = opened[x]
  BY <1>1, <1>3 DEF Histories
<1>8. PICK q : q = Peer(h, k)
  OBVIOUS
<1>9. PICK a : a = StartEnd(h)
  OBVIOUS
<1>10. PICK b : b = End(k)
  OBVIOUS
<1>11. /\ StartEnd(h)' = a /\ End(k)' = b /\ Peer(h, k)' = q
       /\ Paired(h, k)' = Paired(h, k)
  BY <1>1, <1>3, <1>8, <1>9, <1>10, NamesKept
<1>12. /\ h[1] = "answer" => k = h
       /\ Held(s, h, a, b, g)
       /\ Sealed(sent[h], s, h, a, b, g)
       /\ SealsAt(h, g - 1) > 2 => Paired(h, k)
       /\ OpenedFrom(opened[h], q, sent[q], SealsAt(h, g - 1))
       /\ copy # None /\ copy.of = h => Copied(copy, h, a, b, g, sent[h])
  BY <1>2, <1>8, <1>9, <1>10 DEF Talking, s
<1>13. f.header.message_number \in Nat
  BY CarriedFacts DEF SealedBy
<1>14. /\ Incoming(f.key.chain, h, a, b, g)
       /\ Held(t, h, a, b, g) /\ t.root_key = s.root_key /\ t.sending = s.sending
  <2>1. CASE IsSkipped(s, f)
    <3>1. f.key = s.skipped[Position(s.skipped, f.header)].key
      BY <1>3, <2>1, KeyOnHandOpens
    <3>2. t = AfterStoredKey(s, f.header)
      BY <2>1 DEF t
    <3> QED BY <1>12, <2>1, <3>1, <3>2, StoredKeyFacts
  <2>2. CASE ~IsSkipped(s, f)
    <3>1. s.receiving # None /\ f.key = KeyOf(s.receiving.key, f.header.message_number)
      BY <1>3, <2>2, KeyOnHandOpens
    <3>2. t = AfterReceiving(s, f.header)
      BY <2>2 DEF t
    <3>3. f.key.chain = s.receiving.key
      BY <3>1 DEF KeyOf
    <3>4. Incoming(f.key.chain, h, a, b, g)
      BY <1>12, <3>1, <3>3 DEF Held, IsReceiving
    <3> QED BY <1>12, <1>13, <3>1, <3>2, <3>4, HeldReceiving
  <2> QED BY <2>1, <2>2
<1>15. /\ \E n \in DOMAIN sent[q] : f = sent[q][n] /\ f.plaintext = <<q, n>>
       /\ Len(f.key.chain) < SealsAt(h, g - 1)
       /\ SealsAt(h, g - 1) > 2
  BY <1>2, <1>8, <1>9, <1>10, <1>14, SealedByThePeer
<1>16. OpenedFrom(opened[h] \cup {f.plaintext}, q, sent[q], SealsAt(h, g - 1))
  BY <1>12, <1>15 DEF OpenedFrom
<1>17. Sealed(sent[h], t, h, a, b, g)
  BY <1>12, <1>14 DEF Sealed
<1>18. Talking(h, k)'
  BY <1>2, <1>3, <1>4, <1>7, <1>11, <1>12, <1>14, <1>15, <1>16, <1>17 DEF Talking
<1> QED BY <1>2, <1>3, <1>5, <1>6, <1>7, <1>18, OneActs

\* After a ratchet step nothing has been sealed with the latest key.
LEMMA SealedLater ==
  ASSUME NEW frames, NEW s, NEW t, NEW h, NEW a, NEW b, NEW g \in Nat, Sealed(frames, s, h, a, b, g)
  PROVE  Sealed(frames, t, h, a, b, g + 1)
<1>1. ASSUME NEW n \in DOMAIN frames
      PROVE  /\ SealedBy(frames[n], h, a, b, g + 1)
             /\ Len(frames[n].key.chain) # SealsAt(h, (g + 1) - 1)
  <2>1. SealedBy(frames[n], h, a, b, g)
    BY DEF Sealed
  <2>2. PICK m \in 0..g - 1 : /\ Len(frames[n].key.chain) = SealsAt(h, m)
                              /\ frames[n].header.ratchet = KeyAt(OwnEnd(h, a, b), m)
    BY <2>1 DEF SealedBy
  <2>3. m \in 0..(g + 1) - 1 /\ SealsAt(h, m) # SealsAt(h, (g + 1) - 1)
    BY DEF SealsAt
  <2>4. \E i \in 0..(g + 1) - 1 : /\ Len(frames[n].key.chain) = SealsAt(h, i)
                                  /\ frames[n].header.ratchet = KeyAt(OwnEnd(h, a, b), i)
    BY <2>2, <2>3
  <2> QED BY <2>1, <2>2, <2>3, <2>4 DEF SealedBy
<1> QED BY <1>1 DEF Sealed

LEMMA CopiedLater ==
  ASSUME TalkInv, NEW h \in Handles, copy # None, copy.of = h,
         NEW a, NEW b, NEW g \in Nat, Copied(copy, h, a, b, g, sent[h]), IsSeq(sent[h])
  PROVE  Copied(Noted(h), h, a, b, g + 1, sent[h])
<1> DEFINE frames == sent[h]
<1>1. PICK then \in 0..g :
        /\ Held(copy.state, h, a, b, then)
        /\ copy.stepped # None =>
             /\ copy.stepped \in Nat /\ then < g
             /\ \A n \in DOMAIN frames :
                  n > copy.stepped => Len(frames[n].key.chain) >= SealsAt(h, then)
  BY DEF Copied
<1>2. then \in 0..g + 1 /\ then < g + 1
  OBVIOUS
<1>3. CASE copy.stepped = None
  <2>1. copy = [of |-> copy.of, state |-> copy.state, stepped |-> copy.stepped]
    BY DEF TalkInv, CopyShape
  <2>2. Noted(h) = [copy EXCEPT !.stepped = Len(frames)]
    BY <1>3 DEF Noted
  <2>3. Noted(h).state = copy.state /\ Noted(h).stepped = Len(frames)
    BY <2>1, <2>2
  <2> HIDE DEF frames
  <2>4. Len(frames) \in Nat /\ DOMAIN frames = 1..Len(frames)
    BY SeqAppend DEF frames
  <2>5. \A n \in DOMAIN frames : ~(n > Len(frames))
    BY <2>4
  <2> QED BY <1>1, <1>2, <2>3, <2>4, <2>5 DEF Copied, frames
<1>4. CASE copy.stepped # None
  <2>1. Noted(h) = copy
    BY <1>4 DEF Noted
  <2> QED BY <1>1, <1>2, <1>4, <2>1 DEF Copied
<1> QED BY <1>3, <1>4

LEMMA RatchetStepStep ==
  ASSUME TalkInv, NEW h \in Handles, NEW f \in Carried, DecryptAfterRatchetStep(h, f)
  PROVE  TalkInv'
<1>1. Histories /\ CopyShape /\ EstablishedInv
  BY DEF TalkInv
<1> DEFINE s == session[h]
           g == generated[h]
           fresh == RatchetKey(h, g)
           t == RatchetStep(s, f.header, fresh)
           received == KdfRoot(s.root_key, s.own_ratchet, f.header.ratchet)
<1>2. /\ StepResult(s, f, fresh) = "Ok" /\ UNCHANGED established
      /\ session' = [session EXCEPT ![h] = t]
      /\ opened' = [opened EXCEPT ![h] = opened[h] \cup {f.plaintext}]
      /\ generated' = [generated EXCEPT ![h] = g + 1]
      /\ sent' = sent /\ copy' = Noted(h)
  BY DEF DecryptAfterRatchetStep, Returns
<1> HIDE DEF t
<1>3. Handles' = Handles
  BY <1>2, Steady
<1>4. Histories'
  BY <1>1, <1>2, <1>3 DEF Histories
<1>5. CopyShape' /\ (copy' # None => copy # None /\ copy'.of = copy.of)
  <2>1. CASE Noted(h) = copy
    BY <1>1, <1>2, <1>3, <2>1 DEF CopyShape
  <2>2. CASE Noted(h) # copy
    <3>1. copy # None /\ Noted(h) = [copy EXCEPT !.stepped = Len(sent[h])]
      BY <2>2 DEF Noted
    <3>2. copy = [of |-> copy.of, state |-> copy.state, stepped |-> copy.stepped] /\ copy.of \in Handles
      BY <1>1, <3>1 DEF CopyShape
    <3>3. Noted(h) = [of |-> copy.of, state |-> copy.state, stepped |-> Len(sent[h])]
      BY <3>1, <3>2
    <3> QED BY <1>2, <1>3, <3>1, <3>2, <3>3 DEF CopyShape
  <2> QED BY <2>1, <2>2
<1>6. copy' # None /\ copy'.of # h => copy' = copy
  BY <1>2, <1>5 DEF Noted
<1>7. /\ session'[h] = t /\ opened'[h] = opened[h] \cup {f.plaintext} /\ generated'[h] = g + 1
      /\ \A x \in Handles \ {h} : /\ session'[x] = session[x] /\ opened'[x] = opened[x]
                                  /\ generated'[x] = generated[x]
  BY <1>1, <1>2 DEF Histories
<1>8. f.key.chain = received
  <2>1. f.key = KeyOf(received, f.header.message_number)
    BY <1>2, StepOpens
  <2> QED BY <2>1 DEF KeyOf
<1>9. PICK k \in Handles :
        /\ Talking(h, k)
        /\ Paired(h, k)
        /\ InTalk(f.key.chain, StartEnd(h), End(k))
        /\ f.header.ratchet = IF h[1] = "start" THEN KeyAt(End(k), generated[h] - 1)
                              ELSE KeyAt(StartEnd(h), generated[h])
        /\ f.header.message_number \in Nat /\ f.header.previous_chain_len \in Nat
        /\ \E n \in DOMAIN sent[Peer(h, k)] :
             f = sent[Peer(h, k)][n] /\ f.plaintext = <<Peer(h, k), n>>
        /\ Len(f.key.chain) < SealsAt(h, generated[h])
  BY <1>8, StepFacts
<1>10. PICK q : q = Peer(h, k)
  OBVIOUS
<1>11. PICK a : a = StartEnd(h)
  OBVIOUS
<1>12. PICK b : b = End(k)
  OBVIOUS
<1>13. /\ StartEnd(h)' = a /\ End(k)' = b /\ Peer(h, k)' = q
       /\ Paired(h, k)' = Paired(h, k)
  BY <1>1, <1>2, <1>10, <1>11, <1>12, NamesKept
<1>14. /\ h[1] = "answer" => k = h
       /\ Held(s, h, a, b, g)
       /\ Sealed(sent[h], s, h, a, b, g)
       /\ OpenedFrom(opened[h], q, sent[q], SealsAt(h, g - 1))
       /\ copy # None /\ copy.of = h => Copied(copy, h, a, b, g, sent[h])
  BY <1>9, <1>10, <1>11, <1>12 DEF Talking
<1>15. h[1] \in {"start", "answer"} /\ g \in Nat /\ (h[1] = "start" => g >= 1)
  BY <1>14, Roles DEF Held
<1>16. fresh = KeyAt(OwnEnd(h, a, b), g)
  <2>1. OwnEnd(h, a, b) = End(h)
    <3>1. CASE h[1] = "start"
      BY <1>11, <3>1, Roles DEF OwnEnd, StartEnd
    <3>2. CASE h[1] = "answer"
      BY <1>12, <1>14, <3>2 DEF OwnEnd
    <3> QED BY <1>15, <3>1, <3>2
  <2> QED BY <2>1, EndOf
<1> HIDE DEF s, fresh
<1>17. Held(t, h, a, b, g + 1)
  <2>1. f.header.ratchet = IF h[1] = "start" THEN KeyAt(b, g - 1) ELSE KeyAt(a, g)
    BY <1>9, <1>11, <1>12
  <2>2. InTalk(received, a, b)
    BY <1>8, <1>9, <1>11, <1>12
  <2>3. f.header.message_number \in Nat /\ f.header.previous_chain_len \in Nat
    BY <1>9
  <2> QED BY <1>14, <1>15, <1>16, <2>1, <2>2, <2>3, HeldStepping DEF t
<1> HIDE DEF g, received
<1>18. SealsAt(h, (g + 1) - 1) = SealsAt(h, g) /\ SealsAt(h, g) > 2 /\ SealsAt(h, g - 1) < SealsAt(h, g)
       /\ SealsAt(h, g - 1) \in Int /\ SealsAt(h, g) \in Int
  BY <1>15 DEF SealsAt
<1>19. Sealed(sent[h], t, h, a, b, g + 1)
  BY <1>14, <1>15, SealedLater
<1>20. OpenedFrom(opened[h] \cup {f.plaintext}, q, sent[q], SealsAt(h, g))
  <2>1. ASSUME NEW p \in opened[h]
        PROVE  /\ p[1] = q /\ p[2] \in DOMAIN sent[q] /\ sent[q][p[2]].plaintext = p
               /\ Len(sent[q][p[2]].key.chain) < SealsAt(h, g)
    <3>1. /\ p[1] = q /\ p[2] \in DOMAIN sent[q] /\ sent[q][p[2]].plaintext = p
          /\ Len(sent[q][p[2]].key.chain) < SealsAt(h, g - 1)
      BY <1>14 DEF OpenedFrom
    <3>2. Len(sent[q][p[2]].key.chain) \in Int
      <4>1. PICK x \in Carried : x = sent[q][p[2]]
        <5>1. q \in Handles
          BY <1>1, <1>10, SharedKeyFacts DEF Peer
        <5>2. sent[q][p[2]] \in {sent[q][n] : n \in DOMAIN sent[q]}
          BY <3>1
        <5> QED BY <5>1, <5>2 DEF Carried
      <4>2. IsSeq(x.key.chain)
        BY CarriedFacts DEF SealedBy
      <4>3. Len(x.key.chain) \in Nat
        BY <4>2, SeqAppend
      <4> QED BY <4>1, <4>3
    <3> QED BY <1>18, <3>1, <3>2
  <2>2. PICK n \in DOMAIN sent[q] : f = sent[q][n] /\ f.plaintext = <<q, n>>
    BY <1>9, <1>10
  <2>3. Len(f.key.chain) < SealsAt(h, g)
    BY <1>9 DEF g
  <2> QED BY <2>1, <2>2, <2>3 DEF OpenedFrom
<1>21. ASSUME copy' # None, copy'.of = h PROVE Copied(Noted(h), h, a, b, g + 1, sent[h])
  <2>1. copy # None /\ copy.of = h
    BY <1>5, <1>21
  <2>2. IsSeq(sent[h])
    BY <1>14 DEF Sealed
  <2> QED BY <1>14, <1>15, <2>1, <2>2, CopiedLater
<1>22. Talking(h, k)'
  BY <1>2, <1>3, <1>7, <1>9, <1>13, <1>14, <1>17, <1>18, <1>19, <1>20, <1>21 DEF Talking
<1>23. \A n \in DOMAIN sent[h] : n \in DOMAIN sent'[h] /\ sent'[h][n] = sent[h][n]
  BY <1>2
<1>24. \A x \in Handles \ {h} : sent'[x] = sent[x]
  BY <1>2
<1> QED BY <1>2, <1>4, <1>5, <1>6, <1>7, <1>22, <1>23, <1>24, OneActs

-----------------------------------------------------------------------------
(* The session that a call gives *)

Drawn(h) == IF h[1] = "start" THEN 1 ELSE 0

\* Each session was opened with the first root keys of its talk.
OpeningsTalk ==
  \A h \in Handles : /\ h[1] \in {"start", "answer"}
                     /\ Held(Opening(h), h, StartEnd(h), End(h), Drawn(h))

LEMMA EmptyStore ==
  ASSUME NEW h, NEW a, NEW b, NEW g
  PROVE  IsStore(<< >>, h, a, b, g)
BY FS_EmptySet DEF IsStore

LEMMA OpeningHeld == EstablishedInv => OpeningsTalk
<1> SUFFICES ASSUME EstablishedInv, NEW h \in Handles
             PROVE  /\ h[1] \in {"start", "answer"}
                    /\ Held(Opening(h), h, StartEnd(h), End(h), Drawn(h))
  BY DEF OpeningsTalk
<1>1. h[1] \in {"start", "answer"}
  BY HandleFacts
<1> DEFINE a == StartEnd(h)
           b == End(h)
           key == SharedKey(h)
           s == Opening(h)
<1>2. a[2] = key /\ b[2] = h
  BY EndOf
<1>3. IsSeq(<<key>>) /\ Len(<<key>>) = 1 /\ InTalk(<<key>>, a, b)
  <2> DEFINE c == <<key>>
  <2>1. c \in Seq({key}) /\ Len(c) = 1 /\ c[1] = key
    OBVIOUS
  <2>2. \A m \in Nat : ~(2 * m + 3 <= 1) /\ ~(2 * m + 4 <= 1)
    OBVIOUS
  <2> HIDE DEF a, b, c, key
  <2>3. IsSeq(c)
    BY <2>1 DEF IsSeq
  <2>4. InTalk(c, a, b)
    BY <1>2, <2>1, <2>2 DEF InTalk
  <2> QED BY <2>1, <2>3, <2>4 DEF c
<1>4. CASE h[1] = "start"
  <2>1. a = End(h) /\ key = h
    BY <1>4, SharedKeyFacts DEF StartEnd
  <2> DEFINE spk == Established(h).bundle.signed_prekey
             own == RatchetKey(h, 0)
             root == KdfRoot(<<key>>, own, spk)
  <2>2. own = KeyAt(a, 0) /\ spk = a[3]
    BY <1>4, <2>1, EndOf DEF End
  <2>3. root = Append(<<key>>, {KeyAt(a, 0), a[3]})
    BY <2>2 DEF KdfRoot
  <2> HIDE DEF a, b, key, own, spk
  <2>4. IsSeq(root) /\ Len(root) = 2 /\ InTalk(root, a, b)
    <3> DEFINE c == <<key>>
               x == {KeyAt(a, 0), a[3]}
    <3>1. IsSeq(c) /\ Len(c) = 1 /\ InTalk(c, a, b) /\ root = Append(c, x) /\ x = {KeyAt(a, 0), a[3]}
      BY <1>3, <2>3
    <3> HIDE DEF c, x, root
    <3>2. InTalk(Append(c, x), a, b)
      BY <3>1, TalkGoesOn
    <3>3. IsSeq(Append(c, x)) /\ Len(Append(c, x)) = Len(c) + 1
      BY <3>1, SeqAppend
    <3> QED BY <3>1, <3>2, <3>3
  <2>5. s = [root_key |-> root, own_ratchet |-> own, remote_ratchet |-> spk,
             sending |-> [key |-> root, next |-> 0], receiving |-> None,
             previous_sending_len |-> 0, skipped |-> << >>]
    BY <1>4 DEF Opening, InitiatorSession, ChainStart, key, own, spk
  <2> HIDE DEF s, root
  <2>6. s.sending = [key |-> s.root_key, next |-> s.sending.next] /\ s.sending.next = 0
    BY <2>5
  <2>7. 0 \in 0..CHAIN_LIMIT /\ SealsAt(h, 1 - 1) = 2 /\ OwnEnd(h, a, b) = a
    BY <1>4, LimitsAssumption DEF SealsAt, OwnEnd
  <2>8. IsReceiving(s.receiving, h, a, b, 1)
    BY <2>5 DEF IsReceiving
  <2>9. IsStore(s.skipped, h, a, b, 1)
    BY <2>5, EmptyStore
  <2>10. Held(s, h, a, b, 1)
    BY <2>2, <2>4, <2>5, <2>6, <2>7, <2>8, <2>9 DEF Held
  <2>11. Drawn(h) = 1
    BY <1>4 DEF Drawn
  <2> QED BY <1>1, <2>10, <2>11 DEF a, b, s
<1>5. CASE h[1] = "answer"
  <2> DEFINE root == <<key>>
  <2>1. s = [root_key |-> root, own_ratchet |-> b[3], remote_ratchet |-> None,
             sending |-> None, receiving |-> None,
             previous_sending_len |-> 0, skipped |-> << >>]
    BY <1>5 DEF Opening, ResponderSession, End
  <2> HIDE DEF a, b, key, s, root
  <2>2. SealsAt(h, 0 - 1) = 1
    BY <1>5 DEF SealsAt
  <2>3. IsReceiving(s.receiving, h, a, b, 0)
    BY <2>1 DEF IsReceiving
  <2>4. IsStore(s.skipped, h, a, b, 0)
    BY <2>1, EmptyStore
  <2>5. IsSeq(root) /\ Len(root) = SealsAt(h, 0 - 1) /\ InTalk(root, a, b)
    BY <1>3, <2>2 DEF root
  <2>6. Held(s, h, a, b, 0)
    BY <1>5, <2>1, <2>3, <2>4, <2>5 DEF Held
  <2>7. Drawn(h) = 0
    BY <1>5 DEF Drawn
  <2> QED BY <1>1, <2>6, <2>7 DEF a, b, s
<1> QED BY <1>1, <1>4, <1>5

LEMMA EstablishStep ==
  ASSUME TalkInv, Establish
  PROVE  TalkInv'
<1>1. Histories /\ CopyShape /\ EstablishedInv
  BY DEF TalkInv
<1>2. XP!Next
  BY SameNext DEF Establish
<1>3. EstablishedInv' /\ \A h \in Handles : h \in Handles'
  BY <1>1, <1>2, StepEstablishedInv, EstablishKeeps
<1>4. /\ session' = [h \in Handles' |-> IF h \in Handles THEN session[h] ELSE Opening(h)']
      /\ generated' = [h \in Handles' |-> IF h \in Handles THEN generated[h]
                                          ELSE IF h[1] = "start" THEN 1 ELSE 0]
      /\ sent' = [h \in Handles' |-> IF h \in Handles THEN sent[h] ELSE << >>]
      /\ opened' = [h \in Handles' |-> IF h \in Handles THEN opened[h] ELSE {}]
      /\ copy' = copy
  BY DEF Establish
<1>5. Histories'
  BY <1>4 DEF Histories
<1>6. CopyShape'
  BY <1>1, <1>3, <1>4 DEF CopyShape
<1>7. ASSUME NEW h \in Handles PROVE \E k \in Handles' : Talking(h, k)'
  <2>1. PICK k \in Handles : Talking(h, k)
    BY DEF TalkInv
  <2>2. PICK q : q = Peer(h, k)
    OBVIOUS
  <2>3. q \in Handles
    BY <1>1, <2>2, SharedKeyFacts DEF Peer
  <2>4. /\ session'[h] = session[h] /\ generated'[h] = generated[h]
        /\ sent'[h] = sent[h] /\ opened'[h] = opened[h] /\ sent'[q] = sent[q]
    BY <1>3, <1>4, <2>3
  <2>5. Talking(h, k)'
    BY <1>1, <1>2, <1>4, <2>1, <2>2, <2>4, TalkingKept
  <2> QED BY <1>3, <2>1, <2>5
<1>8. ASSUME NEW h \in Handles', h \notin Handles PROVE Talking(h, h)'
  <2>1. OpeningsTalk'
    BY <1>3, OpeningHeld, PTL
  <2>2. /\ session'[h] = Opening(h)' /\ generated'[h] = Drawn(h)
        /\ sent'[h] = << >> /\ opened'[h] = {}
    BY <1>4, <1>8 DEF Drawn
  <2>3. h[1] \in {"start", "answer"} /\ Held(Opening(h), h, StartEnd(h), End(h), Drawn(h))'
    BY <2>1 DEF OpeningsTalk
  <2>4. PICK a : a = StartEnd(h)'
    OBVIOUS
  <2>5. PICK b : b = End(h)'
    OBVIOUS
  <2>6. Held(session'[h], h, a, b, generated'[h])
    BY <2>2, <2>3, <2>4, <2>5
  <2>7. Sealed(<< >>, session'[h], h, a, b, generated'[h])
    <3>1. << >> \in Seq({})
      OBVIOUS
    <3> QED BY <3>1 DEF Sealed, IsSeq
  <2>8. ~(SealsAt(h, generated'[h] - 1) > 2)
    BY <2>2, <2>3 DEF SealsAt, Drawn
  <2>9. ~(copy' # None /\ copy'.of = h)
    BY <1>1, <1>4, <1>8 DEF CopyShape
  <2> QED BY <1>8, <2>2, <2>4, <2>5, <2>6, <2>7, <2>8, <2>9 DEF Talking, OpenedFrom
<1> QED BY <1>3, <1>5, <1>6, <1>7, <1>8 DEF TalkInv

LEMMA CopyStep ==
  ASSUME TalkInv, NEW h \in Handles, Copy(h)
  PROVE  TalkInv'
<1>1. Histories /\ EstablishedInv
  BY DEF TalkInv
<1>2. /\ UNCHANGED established /\ session' = session /\ generated' = generated
      /\ sent' = sent /\ opened' = opened
      /\ copy = None /\ copy' = [of |-> h, state |-> session[h], stepped |-> None]
  BY DEF Copy, ratchets
<1>3. Handles' = Handles
  BY <1>2, Steady
<1>4. Histories'
  BY <1>1, <1>2, <1>3 DEF Histories
<1>5. CopyShape' /\ copy'.of = h /\ copy'.state = session[h] /\ copy'.stepped = None
  BY <1>2, <1>3 DEF CopyShape
<1>6. PICK k \in Handles : Talking(h, k)
  BY DEF TalkInv
<1>7. PICK q : q = Peer(h, k)
  OBVIOUS
<1>8. PICK a : a = StartEnd(h)
  OBVIOUS
<1>9. PICK b : b = End(k)
  OBVIOUS
<1>10. /\ StartEnd(h)' = a /\ End(k)' = b /\ Peer(h, k)' = q
       /\ Paired(h, k)' = Paired(h, k)
  BY <1>1, <1>2, <1>7, <1>8, <1>9, NamesKept
<1> DEFINE g == generated[h]
<1>11. /\ h[1] = "answer" => k = h
       /\ Held(session[h], h, a, b, g)
       /\ Sealed(sent[h], session[h], h, a, b, g)
       /\ SealsAt(h, g - 1) > 2 => Paired(h, k)
       /\ opened[h] # {} => SealsAt(h, g - 1) > 2
       /\ OpenedFrom(opened[h], q, sent[q], SealsAt(h, g - 1))
  BY <1>6, <1>7, <1>8, <1>9 DEF Talking
<1>12. Copied(copy', h, a, b, g, sent[h])
  <2>1. g \in 0..g
    BY <1>11 DEF Held
  <2> QED BY <1>5, <1>11, <2>1 DEF Copied
<1>13. Talking(h, k)'
  BY <1>2, <1>3, <1>6, <1>10, <1>11, <1>12 DEF Talking
<1> QED BY <1>2, <1>4, <1>5, <1>6, <1>13, OneActs

-----------------------------------------------------------------------------
(* The invariant *)

LEMMA InitTalkInv == Init => TalkInv
<1> SUFFICES ASSUME Init PROVE TalkInv
  OBVIOUS
<1>1. EstablishedInv
  BY InitEstablishedInv
<1>2. starts = << >> /\ answers = << >>
  BY DEF Init, X!Init
<1>3. Handles = {}
  BY <1>2 DEF Handles
<1> QED BY <1>1, <1>3 DEF Init, TalkInv, Histories, CopyShape

LEMMA StepTalkInv == TalkInv /\ [Next]_vars => TalkInv'
<1> SUFFICES ASSUME TalkInv, [Next]_vars PROVE TalkInv'
  OBVIOUS
<1>1. CASE Establish
  BY <1>1, EstablishStep
<1>2. ASSUME NEW h \in Handles, Encrypt(h) PROVE TalkInv'
  BY <1>2, EncryptStep
<1>3. ASSUME NEW h \in Handles, Copy(h) PROVE TalkInv'
  BY <1>3, CopyStep
<1>4. ASSUME NEW h \in Handles, NEW f \in Carried, DecryptWithKeyOnHand(h, f) PROVE TalkInv'
  BY <1>4, KeyOnHandStep
<1>5. ASSUME NEW h \in Handles, NEW f \in Carried, DecryptAfterRatchetStep(h, f) PROVE TalkInv'
  BY <1>5, RatchetStepStep
<1>6. CASE UNCHANGED vars
  <2>1. UNCHANGED established /\ UNCHANGED ratchets /\ copy' = copy
    BY <1>6 DEF vars, established, ratchets
  <2>2. EstablishedInv /\ Histories /\ CopyShape
    BY DEF TalkInv
  <2>3. Handles' = Handles
    BY <2>1, Steady
  <2>4. Histories' /\ CopyShape'
    BY <2>1, <2>2, <2>3 DEF Histories, CopyShape, ratchets
  <2>5. ASSUME NEW h \in Handles PROVE \E k \in Handles' : Talking(h, k)'
    <3>1. PICK k \in Handles : Talking(h, k)
      BY DEF TalkInv
    <3>2. PICK q : q = Peer(h, k)
      OBVIOUS
    <3>3. Talking(h, k)'
      BY <2>1, <2>2, <3>1, <3>2, TalkingKept DEF ratchets
    <3> QED BY <2>3, <3>1, <3>3
  <2>6. EstablishedInv'
    <3>1. XP!SessionsInv'
      BY <2>1, <2>2, XP!StepSessionsInv, AlteredAssumption, BoundsAssumption, NamesAssumption
         DEF EstablishedInv, established, XP!vars
    <3>2. AnswersSent'
      BY <2>1, <2>2 DEF EstablishedInv, AnswersSent, established
    <3> QED BY <3>1, <3>2 DEF EstablishedInv
  <2> QED BY <2>3, <2>4, <2>5, <2>6 DEF TalkInv
<1> QED BY <1>1, <1>2, <1>3, <1>4, <1>5, <1>6, Zenon DEF Next

\* What each session holds is of one talk, between the session that its shared key
\* is named by and one answer; what it has opened is that peer's.
THEOREM TalkInvariant == Spec => []TalkInv
BY InitTalkInv, StepTalkInv, PTL DEF Spec

-----------------------------------------------------------------------------
(* What follows *)

LEMMA ConversationTypesFromInv == TalkInv => TypeOK
<1> SUFFICES ASSUME TalkInv PROVE TypeOK
  OBVIOUS
<1>1. EstablishedInv /\ Histories /\ CopyShape
  BY DEF TalkInv
<1>2. X!TypeOK
  BY <1>1, SameTypes, XP!TypesFromInv, AlteredAssumption, BoundsAssumption, NamesAssumption
     DEF EstablishedInv
<1>3. ASSUME NEW h \in Handles
      PROVE  /\ generated[h] \in Nat
             /\ session[h].sending # None => session[h].sending.next \in 0..CHAIN_LIMIT
             /\ opened[h] \subseteq {f.plaintext : f \in Carried}
  <2>1. PICK k \in Handles : Talking(h, k)
    BY DEF TalkInv
  <2>2. Held(session[h], h, StartEnd(h), End(k), generated[h])
    BY <2>1 DEF Talking
  <2>3. PICK q : q = Peer(h, k)
    OBVIOUS
  <2>4. q \in Handles
    BY <1>1, <2>3, SharedKeyFacts DEF Peer
  <2>5. \A p \in opened[h] : p[2] \in DOMAIN sent[q] /\ sent[q][p[2]].plaintext = p
    BY <2>1, <2>3 DEF Talking, OpenedFrom
  <2>6. \A n \in DOMAIN sent[q] : sent[q][n] \in Carried
    BY <2>4 DEF Carried
  <2>7. opened[h] \subseteq {f.plaintext : f \in Carried}
    BY <2>5, <2>6
  <2>8. generated[h] \in Nat /\ (session[h].sending # None => session[h].sending.next \in 0..CHAIN_LIMIT)
    BY <2>2 DEF Held
  <2> QED BY <2>7, <2>8
<1>4. ASSUME copy # None PROVE copy.of \in Handles /\ copy.stepped \in Nat \cup {None}
  <2>1. copy.of \in Handles
    BY <1>1, <1>4 DEF CopyShape
  <2>2. PICK k \in Handles : Talking(copy.of, k)
    BY <2>1 DEF TalkInv
  <2> QED BY <1>4, <2>1, <2>2 DEF Talking, Copied
<1> QED BY <1>1, <1>2, <1>3, <1>4 DEF TypeOK, Histories

\* Conversation.tla: TypeOK.  What a session returns was sealed by some session, and
\* no chain outgrows CHAIN_LIMIT.
THEOREM ConversationTypeCorrect == Spec => []TypeOK
BY ConversationTypesFromInv, TalkInvariant, PTL

LEMMA NoKeySealsTwoFramesFromInv == TalkInv => NoKeySealsTwoFrames
<1> SUFFICES ASSUME TalkInv, NEW f \in Carried, NEW g \in Carried, f.key = g.key
             PROVE  f.plaintext = g.plaintext
  BY DEF NoKeySealsTwoFrames
<1>1. PICK k \in Handles, i \in Handles : \E n \in DOMAIN sent[k] :
        /\ f = sent[k][n] /\ f.plaintext = <<k, n>> /\ Talking(k, i)
        /\ SealedBy(f, k, StartEnd(k), End(i), generated[k])
  BY CarriedFacts
<1>2. PICK l \in Handles, j \in Handles : \E n \in DOMAIN sent[l] :
        /\ g = sent[l][n] /\ g.plaintext = <<l, n>> /\ Talking(l, j)
        /\ SealedBy(g, l, StartEnd(l), End(j), generated[l])
  BY CarriedFacts
<1>3. PICK c : c = f.key.chain
  OBVIOUS
<1>4. /\ IsSeq(c) /\ InTalk(c, StartEnd(k), End(i)) /\ InTalk(c, StartEnd(l), End(j))
      /\ \E m \in 0..generated[k] - 1 : Len(c) = SealsAt(k, m)
      /\ \E m \in 0..generated[l] - 1 : Len(c) = SealsAt(l, m)
  BY <1>1, <1>2, <1>3 DEF SealedBy
<1>5. PICK m \in 0..generated[k] - 1 : Len(c) = SealsAt(k, m)
  BY <1>4
<1>6. PICK n \in 0..generated[l] - 1 : Len(c) = SealsAt(l, n)
  BY <1>4
<1>7. m \in Nat /\ n \in Nat /\ k[1] \in {"start", "answer"} /\ l[1] \in {"start", "answer"}
  BY Roles
<1>8. k[1] = l[1] /\ Len(c) \in Nat /\ Len(c) >= 2 /\ (k[1] = "answer" => Len(c) >= 3)
  BY <1>5, <1>6, <1>7 DEF SealsAt
<1>9. /\ SharedKey(k) = SharedKey(l)
      /\ k[1] = "answer" => i = j
  BY <1>4, <1>8, TalkTellsTheEnds, EndOf
<1>10. k = l
  <2>1. CASE k[1] = "start"
    BY <1>8, <1>9, <2>1, Roles
  <2>2. CASE k[1] = "answer"
    <3>1. i = k /\ j = l
      BY <1>1, <1>2, <1>8, <2>2 DEF Talking
    <3> QED BY <1>9, <2>2, <3>1
  <2> QED BY <1>7, <2>1, <2>2
<1>11. \A x, y \in DOMAIN sent[k] : sent[k][x].key = sent[k][y].key => x = y
  BY <1>1 DEF Talking, Sealed
<1> QED BY <1>1, <1>2, <1>10, <1>11

\* Conversation.tla: NoKeySealsTwoFrames.  A message key seals one frame, of all
\* that all sessions of a pair seal, however often a message was answered.
THEOREM ConversationNoKeySealsTwoFrames == Spec => []NoKeySealsTwoFrames
BY NoKeySealsTwoFramesFromInv, TalkInvariant, PTL

LEMMA OpensOnlyItsPartnerFromInv == TalkInv => OpensOnlyItsPartner
<1> SUFFICES ASSUME TalkInv, NEW h \in Handles
             PROVE  /\ \A plaintext \in opened[h] : SameView(plaintext[1], h)
                    /\ Cardinality({plaintext[1] : plaintext \in opened[h]}) <= 1
  BY DEF OpensOnlyItsPartner
<1>1. EstablishedInv
  BY DEF TalkInv
<1>2. PICK k \in Handles : Talking(h, k)
  BY DEF TalkInv
<1>3. PICK q : q = Peer(h, k)
  OBVIOUS
<1>4. \A p \in opened[h] : p[1] = q
  BY <1>2, <1>3 DEF Talking, OpenedFrom
<1>5. ASSUME opened[h] # {} PROVE SameView(q, h)
  <2>1. Paired(h, k)
    BY <1>2, <1>5 DEF Talking
  <2>2. q \in Handles /\ q[1] # h[1] /\ SharedKey(q) = SharedKey(h)
    BY <1>3, <2>1 DEF Paired
  <2>3. Established(q).key = Established(h).key
    BY <1>1, <2>2, SharedKeyTells
  <2>4. X!KeysAgreeExactlyOnOneView
    BY <1>1, SameAgreement, XP!AgreeFromInv, AlteredAssumption, BoundsAssumption, NamesAssumption
       DEF EstablishedInv
  <2>5. CASE h[1] = "start"
    <3>1. h[2] \in DOMAIN starts /\ Established(h) = starts[h[2]]
      BY <1>1, <2>5, HandleFacts
    <3>2. q[1] = "answer" /\ q[2] \in DOMAIN answers /\ Established(q) = answers[q[2]]
      BY <1>1, <2>2, <2>5, HandleFacts
    <3>3. X!SameView(starts[h[2]], answers[q[2]])
      BY <2>3, <2>4, <3>1, <3>2 DEF X!KeysAgreeExactlyOnOneView
    <3> QED BY <2>5, <3>2, <3>3 DEF SameView
  <2>6. CASE h[1] # "start"
    <3>1. h[1] = "answer" /\ h[2] \in DOMAIN answers /\ Established(h) = answers[h[2]]
      BY <1>1, <2>6, HandleFacts
    <3>2. q[1] = "start" /\ q[2] \in DOMAIN starts /\ Established(q) = starts[q[2]]
      BY <1>1, <2>2, <3>1, HandleFacts
    <3>3. X!SameView(starts[q[2]], answers[h[2]])
      BY <2>3, <2>4, <3>1, <3>2 DEF X!KeysAgreeExactlyOnOneView
    <3> QED BY <3>1, <3>2, <3>3 DEF SameView
  <2> QED BY <2>5, <2>6
<1>6. Cardinality({p[1] : p \in opened[h]}) <= 1
  <2>1. CASE opened[h] = {}
    <3>1. {p[1] : p \in opened[h]} = {}
      BY <2>1
    <3> QED BY <3>1, FS_EmptySet
  <2>2. CASE opened[h] # {}
    <3>1. {p[1] : p \in opened[h]} = {q}
      BY <1>4, <2>2
    <3> QED BY <3>1, FS_Singleton
  <2> QED BY <2>1, <2>2
<1>7. ASSUME NEW p \in opened[h] PROVE SameView(p[1], h)
  BY <1>4, <1>5, <1>7
<1> QED BY <1>6, <1>7

\* Conversation.tla: OpensOnlyItsPartner.  A session opens the frames of one session,
\* of the other role and with the same view of the initial message and all keys.
THEOREM ConversationOpensOnlyItsPartner == Spec => []OpensOnlyItsPartner
BY OpensOnlyItsPartnerFromInv, TalkInvariant, PTL

\* Sessions with the same shared key go back to the same start.
LEMMA SameOrigin ==
  ASSUME EstablishedInv, NEW g \in Handles, NEW h \in Handles, SharedKey(g) = SharedKey(h)
  PROVE  Origin(g) = Origin(h)
<1>1. Established(g).message = Established(h).message
  BY SharedKeyTells, KeyTellsTheMessage
<1>2. ASSUME NEW x \in Handles, x[1] = "start"
      PROVE  (CHOOSE i \in DOMAIN starts : starts[i].message = Established(x).message) = x[2]
  <2>1. x[2] \in DOMAIN starts /\ Established(x) = starts[x[2]]
    BY <1>2, HandleFacts
  <2>2. \A i \in DOMAIN starts : starts[i].message = Established(x).message => i = x[2]
    BY <2>1, MessageTellsTheStart
  <2> QED BY <2>1, <2>2
<1>3. ASSUME NEW x \in Handles
      PROVE  Origin(x) = CHOOSE i \in DOMAIN starts : starts[i].message = Established(x).message
  BY <1>2 DEF Origin
<1> QED BY <1>1, <1>3

\* All chains of a session begin with its shared key, the shortest being its root.
LEMMA HeldChains ==
  ASSUME NEW s, NEW h, h[1] \in {"start", "answer"}, NEW a, NEW b, NEW g, Held(s, h, a, b, g),
         NEW key, Derivable(s, key), IsSeq(key.chain)
  PROVE  /\ key.chain[1] = a[2]
         /\ Len(key.chain) > SealsAt(h, g - 1) =>
              \A i \in SealsAt(h, g - 1) + 1..Len(key.chain) : s.own_ratchet \in key.chain[i]
<1> DEFINE r == s.root_key
           c == key.chain
<1>1. /\ g \in Nat /\ (h[1] = "start" => g >= 1)
      /\ IsSeq(r) /\ InTalk(r, a, b) /\ Len(r) = SealsAt(h, g - 1)
  BY DEF Held
<1>2. Len(r) >= 1 /\ Len(r) \in Nat /\ r[1] = a[2]
  BY <1>1 DEF SealsAt, InTalk
<1>3. ASSUME NEW x, Incoming(x, h, a, b, g) PROVE x[1] = a[2] /\ Len(x) < Len(r)
  <2>1. IsSeq(x) /\ InTalk(x, a, b) /\ Len(x) < SealsAt(h, g - 1)
    BY <1>3 DEF Incoming
  <2>2. PICK m \in Nat : Len(x) = OpensAt(h, m)
    BY <1>3 DEF Incoming
  <2>3. Len(x) >= 1
    BY <2>2 DEF OpensAt
  <2> QED BY <1>1, <2>1, <2>3 DEF InTalk
<1>4. CASE key \in Keys(s.skipped)
  <2>1. PICK i \in DOMAIN s.skipped : key = s.skipped[i].key
    BY <1>4 DEF Keys
  <2>2. Incoming(c, h, a, b, g)
    BY <2>1 DEF Held, IsStore
  <2>3. c[1] = a[2] /\ Len(c) < Len(r)
    BY <1>3, <2>2
  <2>4. Len(c) \in Nat
    BY SeqAppend
  <2> QED BY <1>1, <1>2, <2>3, <2>4
<1>5. CASE \E x \in {s.sending, s.receiving} \ {None} : key.chain = x.key /\ key.number >= x.next
  <2>1. PICK x \in {s.sending, s.receiving} \ {None} : key.chain = x.key
    BY <1>5
  <2>2. Len(c) \in Nat
    BY SeqAppend
  <2>3. CASE x = s.sending
    <3>1. s.sending = [key |-> r, next |-> s.sending.next]
      BY <2>1, <2>3 DEF Held
    <3>2. c = r
      BY <2>1, <2>3, <3>1
    <3> QED BY <1>1, <1>2, <2>2, <3>2
  <2>4. CASE x = s.receiving
    <3>1. Incoming(c, h, a, b, g)
      BY <2>1, <2>4 DEF Held, IsReceiving
    <3>2. c[1] = a[2] /\ Len(c) < Len(r)
      BY <1>3, <3>1
    <3> QED BY <1>1, <1>2, <2>2, <3>2
  <2> QED BY <2>1, <2>3, <2>4
<1>6. CASE /\ Len(key.chain) > Len(s.root_key)
           /\ SubSeq(key.chain, 1, Len(s.root_key)) = s.root_key
           /\ \A i \in Len(s.root_key) + 1..Len(key.chain) : s.own_ratchet \in key.chain[i]
  <2>1. PICK S : c \in Seq(S)
    BY DEF IsSeq
  <2>2. Len(c) \in Nat /\ Len(c) > Len(r) /\ SubSeq(c, 1, Len(r)) = r
    BY <1>6, <2>1
  <2> HIDE DEF c, r
  <2>3. SubSeq(c, 1, Len(r))[1] = c[1]
    BY <1>2, <2>1, <2>2
  <2>4. c[1] = a[2]
    BY <1>2, <2>2, <2>3
  <2> QED BY <1>1, <1>6, <2>4 DEF c, r
<1> QED BY <1>4, <1>5, <1>6 DEF Derivable

LEMMA CopyStaysFromInv == TalkInv => CopyStaysInItsSession
<1> SUFFICES ASSUME TalkInv, copy # None, NEW h \in Handles, Origin(h) # Origin(copy.of),
                    NEW n \in DOMAIN sent[h], Derivable(copy.state, sent[h][n].key)
             PROVE  FALSE
  BY DEF CopyStaysInItsSession
<1>1. EstablishedInv /\ copy.of \in Handles
  BY DEF TalkInv, CopyShape
<1>2. PICK of \in Handles : of = copy.of
  BY <1>1
<1>3. PICK j \in Handles : Talking(of, j)
  BY DEF TalkInv
<1>4. \E then : Held(copy.state, of, StartEnd(of), End(j), then)
  BY <1>2, <1>3 DEF Talking, Copied
<1>5. PICK then : Held(copy.state, of, StartEnd(of), End(j), then)
  BY <1>4
<1>6. PICK k \in Handles : Talking(h, k)
  BY DEF TalkInv
<1>7. SealedBy(sent[h][n], h, StartEnd(h), End(k), generated[h])
  BY <1>6 DEF Talking, Sealed
<1>8. PICK key : key = sent[h][n].key
  OBVIOUS
<1>9. /\ IsSeq(key.chain) /\ InTalk(key.chain, StartEnd(h), End(k))
      /\ \E m \in 0..generated[h] - 1 : Len(key.chain) = SealsAt(h, m)
  BY <1>7, <1>8 DEF SealedBy
<1>10. key.chain[1] = StartEnd(of)[2]
  <2>1. PICK s, a, b : s = copy.state /\ a = StartEnd(of) /\ b = End(j)
    OBVIOUS
  <2>2. Held(s, of, a, b, then) /\ Derivable(s, key) /\ of[1] \in {"start", "answer"} /\ IsSeq(key.chain)
    BY <1>5, <1>8, <1>9, <2>1, Roles
  <2>3. then \in Nat
    BY <2>2 DEF Held
  <2>4. /\ key.chain[1] = a[2]
        /\ Len(key.chain) > SealsAt(of, then - 1) =>
             \A i \in SealsAt(of, then - 1) + 1..Len(key.chain) : s.own_ratchet \in key.chain[i]
    BY <2>2, <2>3, HeldChains, SMTT(30)
  <2> QED BY <2>1, <2>4
<1>11. key.chain[1] = StartEnd(h)[2]
  <2>1. Len(key.chain) >= 1
    BY <1>9, Roles DEF SealsAt
  <2> QED BY <1>9, <2>1 DEF InTalk
<1>12. SharedKey(of) = SharedKey(h)
  BY <1>10, <1>11, EndOf
<1> QED BY <1>1, <1>2, <1>12, SameOrigin

\* Conversation.tla: CopyStaysInItsSession (QW-P-E2E-066).  A copy of one session leads
\* to no message key of a session that goes back to another start.
THEOREM ConversationCopyStays == Spec => []CopyStaysInItsSession
BY CopyStaysFromInv, TalkInvariant, PTL

\* The secret that the peer's next key joins is not of the key a session has in use.
LEMMA NextSecretIsAnothers ==
  ASSUME NEW h, h[1] \in {"start", "answer"}, NEW a, NEW b, NEW g, NEW s, Held(s, h, a, b, g),
         NEW chain, NEW u, NEW v, InTalk(chain, u, v), Len(chain) \in Nat,
         Len(chain) >= SealsAt(h, g),
         h[1] = "start" => a[2] # v[2],
         h[1] = "answer" => \E p : b[3] = <<p, "signed", 0>>
  PROVE  s.own_ratchet \notin chain[SealsAt(h, g)]
<1>1. /\ g \in Nat /\ (h[1] = "start" => g >= 1)
      /\ s.own_ratchet = IF g = 0 THEN b[3] ELSE KeyAt(OwnEnd(h, a, b), g - 1)
  BY DEF Held
<1>2. ASSUME NEW x, NEW y, NEW i, NEW j, x[2] # y[2] \/ i # j PROVE KeyAt(x, i) # KeyAt(y, j)
  BY <1>2 DEF KeyAt
<1>3. CASE h[1] = "start"
  <2>1. g - 1 \in Nat /\ SealsAt(h, g) = 2 * (g - 1) + 4 /\ (g - 1) + 1 = g /\ g - 1 # g
    BY <1>1, <1>3 DEF SealsAt
  <2>2. chain[2 * (g - 1) + 4] = {KeyAt(u, (g - 1) + 1), KeyAt(v, g - 1)}
    BY <2>1 DEF InTalk
  <2>3. s.own_ratchet = KeyAt(a, g - 1)
    BY <1>1, <1>3 DEF OwnEnd
  <2>4. KeyAt(a, g - 1) # KeyAt(u, g) /\ KeyAt(a, g - 1) # KeyAt(v, g - 1)
    BY <1>2, <1>3, <2>1
  <2> QED BY <2>1, <2>2, <2>3, <2>4
<1>4. CASE h[1] = "answer"
  <2>1. SealsAt(h, g) = 2 * g + 3 /\ g - 1 # g
    BY <1>1, <1>4 DEF SealsAt
  <2>2. chain[2 * g + 3] = {KeyAt(v, g), KeyAt(u, g)}
    BY <1>1, <2>1 DEF InTalk
  <2>3. CASE g = 0
    <3>1. PICK p : b[3] = <<p, "signed", 0>>
      BY <1>4
    <3>2. s.own_ratchet = <<p, "signed", 0>>
      BY <1>1, <2>3, <3>1
    <3>3. KeyAt(v, g) # <<p, "signed", 0>> /\ KeyAt(u, g) # <<p, "signed", 0>>
      BY DEF KeyAt
    <3> QED BY <2>1, <2>2, <3>2, <3>3
  <2>4. CASE g # 0
    <3>1. s.own_ratchet = KeyAt(b, g - 1)
      BY <1>1, <1>4, <2>4 DEF OwnEnd
    <3>2. KeyAt(b, g - 1) # KeyAt(v, g) /\ KeyAt(b, g - 1) # KeyAt(u, g)
      BY <1>2, <2>1
    <3> QED BY <2>1, <2>2, <3>1, <3>2
  <2> QED BY <2>3, <2>4
<1> QED BY <1>3, <1>4

LEMMA CopyHealsFromInv == TalkInv => CopyHeals
<1> SUFFICES ASSUME TalkInv, copy # None, copy.stepped # None, NEW h \in Handles,
                    CanSend(session[h]),
                    h = copy.of \/ \E p \in opened[h] : p[1] = copy.of /\ p[2] > copy.stepped,
                    Derivable(copy.state, KeyOf(session[h].sending.key, session[h].sending.next))
             PROVE  FALSE
  BY DEF CopyHeals
<1>1. EstablishedInv
  BY DEF TalkInv
<1>2. PICK of \in Handles : of = copy.of
  BY DEF TalkInv, CopyShape
<1>3. PICK j \in Handles : Talking(of, j)
  BY DEF TalkInv
<1>4. PICK a, b, s, g : a = StartEnd(of) /\ b = End(j) /\ s = copy.state /\ g = generated[of]
  OBVIOUS
<1>5. Copied(copy, of, a, b, g, sent[of])
  BY <1>2, <1>3, <1>4 DEF Talking
<1>6. PICK then \in 0..g :
        /\ Held(s, of, a, b, then) /\ then < g
        /\ \A n \in DOMAIN sent[of] :
             n > copy.stepped => Len(sent[of][n].key.chain) >= SealsAt(of, then)
  BY <1>4, <1>5 DEF Copied
<1>7. PICK k \in Handles : Talking(h, k)
  BY DEF TalkInv
<1>8. PICK u, v, r, d : u = StartEnd(h) /\ v = End(k) /\ r = session[h].root_key /\ d = generated[h]
  OBVIOUS
<1>9. /\ IsSeq(r) /\ InTalk(r, u, v) /\ Len(r) = SealsAt(h, d - 1) /\ d \in Nat
      /\ session[h].sending = [key |-> r, next |-> session[h].sending.next]
  BY <1>7, <1>8 DEF Talking, Held, CanSend
<1>10. Len(r) \in Nat
  BY <1>9, SeqAppend
<1>11. PICK key : key = KeyOf(session[h].sending.key, session[h].sending.next)
  OBVIOUS
<1>12. key.chain = r
  <2>1. session[h].sending.key = r
    BY <1>9
  <2> QED BY <1>11, <2>1 DEF KeyOf
<1>13. /\ of[1] \in {"start", "answer"} /\ h[1] \in {"start", "answer"} /\ then \in Nat /\ g \in Nat
       /\ of[1] = "start" => then >= 1 /\ SharedKey(of) = of
  <2>1. g \in Nat
    BY <1>3, <1>4 DEF Talking, Held
  <2>2. of[1] = "start" => then >= 1
    BY <1>6 DEF Held
  <2> QED BY <2>1, <2>2, Roles
<1>14. Len(r) >= SealsAt(of, then)
  <2>1. CASE h = of
    <3>1. d = g
      BY <1>4, <1>8, <2>1
    <3>2. SealsAt(of, g - 1) >= SealsAt(of, then)
      BY <1>6, <1>13 DEF SealsAt
    <3> QED BY <1>9, <2>1, <3>1, <3>2
  <2>2. CASE h # of
    <3>1. PICK p \in opened[h] : p[1] = of /\ p[2] > copy.stepped
      BY <1>2, <2>2
    <3>2. /\ p[1] = Peer(h, k) /\ p[2] \in DOMAIN sent[Peer(h, k)]
          /\ Len(sent[Peer(h, k)][p[2]].key.chain) < SealsAt(h, d - 1)
      BY <1>7, <1>8 DEF Talking, OpenedFrom
    <3>3. PICK l : l = Len(sent[of][p[2]].key.chain)
      OBVIOUS
    <3>4. l < Len(r) /\ l >= SealsAt(of, then)
      BY <1>6, <1>9, <3>1, <3>2, <3>3
    <3>5. l \in Nat
      <4>1. sent[of][p[2]] \in Carried
        BY <3>1, <3>2 DEF Carried
      <4>2. IsSeq(sent[of][p[2]].key.chain)
        BY <4>1, CarriedFacts DEF SealedBy
      <4> QED BY <3>3, <4>2, SeqAppend
    <3> QED BY <1>10, <1>13, <3>4, <3>5 DEF SealsAt
  <2> QED BY <2>1, <2>2
\* Whoever seals now is not an answer that the copied start may be said to talk to.
<1>15. of[1] = "start" => a[2] # v[2]
  <2> SUFFICES ASSUME of[1] = "start" PROVE k # of
    BY <1>4, <1>8, <1>13, EndOf
  <2>1. CASE h = of
    <3>1. SealsAt(h, generated[h] - 1) > 2
      BY <1>4, <1>6, <1>13, <2>1 DEF SealsAt
    <3>2. Paired(h, k) /\ Peer(h, k) = k
      BY <1>7, <2>1, <3>1 DEF Talking, Peer
    <3> QED BY <2>1, <3>2 DEF Paired
  <2>2. CASE h # of
    <3>1. PICK p \in opened[h] : p[1] = of
      BY <1>2, <2>2
    <3>2. Peer(h, k) = of /\ Paired(h, k)
      BY <1>7, <3>1 DEF Talking, OpenedFrom
    <3>3. h[1] = "answer"
      BY <1>13, <3>2 DEF Paired
    <3>4. k = h
      BY <1>7, <3>3 DEF Talking
    <3> QED BY <2>2, <3>4
  <2> QED BY <2>1, <2>2
<1>16. of[1] = "answer" => \E p : b[3] = <<p, "signed", 0>>
  <2> SUFFICES ASSUME of[1] = "answer" PROVE \E p : b[3] = <<p, "signed", 0>>
    OBVIOUS
  <2>1. j = of
    BY <1>3 DEF Talking
  <2>2. b[3] = <<OwnerOf(of), "signed", 0>>
    BY <1>4, <2>1 DEF End, X!SignedPrekey
  <2> QED BY <2>2
<1>17. s.own_ratchet \notin r[SealsAt(of, then)]
  BY <1>6, <1>9, <1>10, <1>13, <1>14, <1>15, <1>16, NextSecretIsAnothers
<1>18. /\ SealsAt(of, then) \in SealsAt(of, then - 1) + 1..Len(r)
       /\ Len(r) > SealsAt(of, then - 1)
  BY <1>10, <1>13, <1>14 DEF SealsAt
<1>19. \A i \in SealsAt(of, then - 1) + 1..Len(r) : s.own_ratchet \in r[i]
  <2>1. Held(s, of, a, b, then) /\ Derivable(s, key) /\ IsSeq(key.chain)
    BY <1>4, <1>6, <1>9, <1>11, <1>12
  <2>2. Len(key.chain) > SealsAt(of, then - 1) =>
          \A i \in SealsAt(of, then - 1) + 1..Len(key.chain) : s.own_ratchet \in key.chain[i]
    BY <1>13, <2>1, HeldChains
  <2> QED BY <1>12, <1>18, <2>2
<1> QED BY <1>17, <1>18, <1>19

\* Conversation.tla: CopyHeals (QW-P-E2E-065).  Once the copied session has stepped
\* and the other has opened a later frame, the copy leads to neither's next key.
THEOREM ConversationCopyHeals == Spec => []CopyHeals
BY CopyHealsFromInv, TalkInvariant, PTL

-----------------------------------------------------------------------------
(* Where the limits never bind: two partners understand each other *)

\* All frames fit in the store, and those of one chain are within reach of a skip.
FewFrames ==
  /\ MaxFrames <= MAX_SKIPPED_TOTAL
  /\ MaxFrames <= MAX_SKIP_PER_CHAIN \/ CHAIN_LIMIT <= MAX_SKIP_PER_CHAIN

\* Session q has sealed number n of its chain of that length.
SealedAt(q, length, n) ==
  \E f \in Carried : f.plaintext[1] = q /\ Len(f.key.chain) = length /\ f.key.number = n

\* No more frames than the bound allows.
Bounded == IsFiniteSet(Carried) /\ Cardinality(Carried) <= MaxFrames

\* What session q seals next goes on from what it has sealed.
SealsInOrder(s, g, q) ==
  /\ g # 0 => s.sending # None
  /\ s.sending # None =>
       \A n \in Nat :
         /\ n < s.sending.next <=> SealedAt(q, Len(s.root_key), n)
         /\ n < s.previous_sending_len <=> SealedAt(q, Len(s.root_key) - 2, n)

\* A frame follows those of its chain with lower numbers, and tells how many there
\* are of the chain before.
InOrder(f) ==
  LET q == f.plaintext[1]
      length == Len(f.key.chain)
  IN  /\ f.key.number < CHAIN_LIMIT
      /\ \A n \in Nat :
           /\ n < f.key.number => SealedAt(q, length, n)
           /\ n < f.header.previous_chain_len <=> SealedAt(q, length - 2, n)

\* What a store keeps for a frame.
Entry(f) == [ratchet |-> f.header.ratchet, number |-> f.key.number, key |-> f.key]

\* A frame of a chain that session s has left, or has gone past in the one it is in.
Behind(s, f) ==
  \/ Len(f.key.chain) < Len(s.root_key) - 1
  \/ Len(f.key.chain) = Len(s.root_key) - 1 /\ f.key.number < s.receiving.next

\* The store has different keys, each of a frame of q's, and where.
Stores(deque, q) ==
  /\ DOMAIN deque \subseteq Nat /\ IsFiniteSet(DOMAIN deque)
  /\ \A i \in DOMAIN deque : \E f \in Carried : f.plaintext[1] = q /\ deque[i] = Entry(f)
  /\ \A i, j \in DOMAIN deque : deque[i].key = deque[j].key => i = j

\* A session that has returned `done` has come as far as the frame `last` of its peer,
\* and keeps the keys of those before it that it has not opened.
Follows(s, done, last) ==
  LET q == last.plaintext[1]
  IN  /\ last.key = KeyOf(s.receiving.key, s.receiving.next - 1)
      /\ last.header.ratchet = s.remote_ratchet
      /\ Len(last.key.chain) = Len(s.root_key) - 1
      /\ Stores(s.skipped, q)
      /\ \A i \in DOMAIN s.skipped :
           Len(s.skipped[i].key.chain) = Len(s.root_key) - 1 => s.skipped[i].number < s.receiving.next
      /\ \A f \in Carried :
           f.plaintext[1] = q /\ f.plaintext \notin done /\ Behind(s, f) =>
             f.key \in Keys(s.skipped)

\* Session h has opened nothing.
Untouched(s, g, h) ==
  /\ g = Drawn(h)
  /\ s.skipped = << >>
  /\ s.remote_ratchet = IF h[1] = "start" THEN End(h)[3] ELSE None

\* Session h, which has drawn g ratchet keys and returned `done`.
InStep(s, g, done, h) ==
  /\ SealsInOrder(s, g, h)
  /\ s.receiving = None => Untouched(s, g, h)
  /\ s.receiving # None => \E last \in Carried : Follows(s, done, last)

\* Every session is in step with its own frames, and with its peer's.
UnderstandInv ==
  /\ Bounded
  /\ \A f \in Carried : InOrder(f)
  /\ \A h \in Handles : InStep(session[h], generated[h], opened[h], h)

-----------------------------------------------------------------------------
(* Frames and their sealers *)

\* A talk has one chain of each length.
LEMMA TalkDetermined ==
  ASSUME NEW c, NEW d, IsSeq(c), IsSeq(d), NEW a, NEW b, InTalk(c, a, b), InTalk(d, a, b),
         Len(c) = Len(d)
  PROVE  c = d
<1>1. /\ Len(c) \in Nat /\ DOMAIN c = 1..Len(c) /\ DOMAIN d = 1..Len(c)
  BY SeqAppend
<1>2. ASSUME NEW i \in 1..Len(c) PROVE c[i] = d[i]
  <2>1. CASE i = 1
    BY <1>1, <2>1 DEF InTalk
  <2>2. CASE i = 2
    <3>1. Len(c) >= 2 /\ Len(d) >= 2
      BY <1>1, <2>2
    <3> QED BY <2>2, <3>1 DEF InTalk
  <2>3. CASE i > 2
    <3>1. i \in Nat /\ i <= Len(c)
      BY <1>1
    <3>2. (\E m \in Nat : i = 2 * m + 3) \/ (\E m \in Nat : i = 2 * m + 4)
      <4>1. PICK r \in Nat : i = r + 3
        BY <2>3, <3>1
      <4>2. \E m \in Nat : r = 2 * m \/ r = 2 * m + 1
        <5>1. r \div 2 \in Nat /\ (r = 2 * (r \div 2) \/ r = 2 * (r \div 2) + 1)
          OBVIOUS
        <5> QED BY <5>1
      <4>3. PICK m \in Nat : r = 2 * m \/ r = 2 * m + 1
        BY <4>2
      <4>4. i = 2 * m + 3 \/ i = 2 * m + 4
        BY <4>1, <4>3
      <4> QED BY <4>4
    <3>3. ASSUME NEW m \in Nat, i = 2 * m + 3 PROVE c[i] = d[i]
      BY <3>1, <3>3 DEF InTalk
    <3>4. ASSUME NEW m \in Nat, i = 2 * m + 4 PROVE c[i] = d[i]
      BY <3>1, <3>4 DEF InTalk
    <3> QED BY <3>2, <3>3, <3>4
  <2> QED BY <1>1, <2>1, <2>2, <2>3
<1>3. PICK S : c \in Seq(S)
  BY DEF IsSeq
<1>4. PICK T : d \in Seq(T)
  BY DEF IsSeq
<1>5. c = [i \in 1..Len(c) |-> c[i]] /\ d = [i \in 1..Len(c) |-> d[i]]
  BY <1>1, <1>3, <1>4
<1> QED BY <1>2, <1>5

\* A frame tells which session has sealed it, and is marked with the key that this
\* session had drawn for its chain.
LEMMA FrameFacts ==
  ASSUME TalkInv, NEW f \in Carried
  PROVE  LET q == f.plaintext[1]
         IN  /\ q \in Handles /\ \E n \in DOMAIN sent[q] : f = sent[q][n] /\ f.plaintext = <<q, n>>
             /\ f.aad = f.header /\ f.header.previous_chain_len \in Nat
             /\ f.key = KeyOf(f.key.chain, f.key.number)
             /\ f.key.number \in Nat /\ f.header.message_number = f.key.number
             /\ IsSeq(f.key.chain) /\ Len(f.key.chain) \in Nat
             /\ \E m \in Nat : /\ m < generated[q] /\ generated[q] \in Nat
                               /\ Len(f.key.chain) = SealsAt(q, m)
                               /\ f.header.ratchet = RatchetKey(q, m)
<1>1. PICK q \in Handles, j \in Handles : \E n \in DOMAIN sent[q] :
           /\ f = sent[q][n] /\ f.plaintext = <<q, n>> /\ Talking(q, j)
           /\ SealedBy(f, q, StartEnd(q), End(j), generated[q])
  BY CarriedFacts
<1>2. PICK n \in DOMAIN sent[q] :
           /\ f = sent[q][n] /\ f.plaintext = <<q, n>> /\ Talking(q, j)
           /\ SealedBy(f, q, StartEnd(q), End(j), generated[q])
  BY <1>1
<1>3. f.plaintext[1] = q
  BY <1>2
<1>4. PICK m \in 0..generated[q] - 1 :
        /\ Len(f.key.chain) = SealsAt(q, m)
        /\ f.header.ratchet = KeyAt(OwnEnd(q, StartEnd(q), End(j)), m)
  BY <1>2 DEF SealedBy
<1>5. OwnEnd(q, StartEnd(q), End(j)) = End(q)
  <2>1. CASE q[1] = "start"
    BY <2>1, Roles DEF OwnEnd, StartEnd
  <2>2. CASE q[1] = "answer"
    BY <1>2, <2>2 DEF OwnEnd, Talking
  <2> QED BY <2>1, <2>2, Roles
<1>6. f.header.ratchet = RatchetKey(q, m)
  BY <1>4, <1>5, EndOf
<1>7. generated[q] \in Nat
  BY <1>2 DEF Talking, Held
<1>8. m \in Nat /\ m < generated[q]
  BY <1>7
<1>9. Len(f.key.chain) \in Nat
  BY <1>2, SeqAppend DEF SealedBy
<1>10. f.key = KeyOf(f.key.chain, f.key.number)
  BY <1>2 DEF SealedBy, KeyOf
<1> HIDE DEF SealsAt
<1>11. \E i \in Nat : /\ i < generated[q] /\ generated[q] \in Nat
                      /\ Len(f.key.chain) = SealsAt(q, i)
                      /\ f.header.ratchet = RatchetKey(q, i)
  BY <1>4, <1>6, <1>7, <1>8
<1> QED BY <1>2, <1>3, <1>9, <1>10, <1>11 DEF SealedBy

\* The frames of one session on chains of one length are on one chain.
LEMMA OneChain ==
  ASSUME TalkInv, NEW f \in Carried, NEW x \in Carried, f.plaintext[1] = x.plaintext[1],
         Len(f.key.chain) = Len(x.key.chain)
  PROVE  f.key.chain = x.key.chain /\ f.header.ratchet = x.header.ratchet
<1>1. PICK q : q = f.plaintext[1]
  OBVIOUS
<1>2. /\ q \in Handles
      /\ \E n \in DOMAIN sent[q] : f = sent[q][n]
      /\ \E n \in DOMAIN sent[q] : x = sent[q][n]
      /\ \E m \in Nat : Len(f.key.chain) = SealsAt(q, m) /\ f.header.ratchet = RatchetKey(q, m)
      /\ \E m \in Nat : Len(f.key.chain) = SealsAt(q, m) /\ x.header.ratchet = RatchetKey(q, m)
  BY <1>1, FrameFacts
<1>3. PICK j \in Handles : Talking(q, j)
  BY <1>2 DEF TalkInv
<1>4. \A n \in DOMAIN sent[q] : SealedBy(sent[q][n], q, StartEnd(q), End(j), generated[q])
  BY <1>3 DEF Talking, Sealed
<1>5. /\ IsSeq(f.key.chain) /\ InTalk(f.key.chain, StartEnd(q), End(j))
      /\ IsSeq(x.key.chain) /\ InTalk(x.key.chain, StartEnd(q), End(j))
  BY <1>2, <1>4 DEF SealedBy
<1>6. f.key.chain = x.key.chain
  BY <1>5, TalkDetermined
<1>7. \A m, n \in Nat : SealsAt(q, m) = SealsAt(q, n) => m = n
  BY DEF SealsAt
<1> QED BY <1>2, <1>6, <1>7

\* Frames marked with one key are of one session and one chain.
LEMMA OneRatchet ==
  ASSUME TalkInv, NEW f \in Carried, NEW x \in Carried, f.header.ratchet = x.header.ratchet
  PROVE  /\ f.plaintext[1] = x.plaintext[1] /\ f.key.chain = x.key.chain
         /\ f.key.number = x.key.number => f.key = x.key
<1>1. PICK q : q = f.plaintext[1]
  OBVIOUS
<1>2. PICK r : r = x.plaintext[1]
  OBVIOUS
<1>3. PICK m \in Nat : Len(f.key.chain) = SealsAt(q, m) /\ f.header.ratchet = RatchetKey(q, m)
  BY <1>1, FrameFacts
<1>4. PICK n \in Nat : Len(x.key.chain) = SealsAt(r, n) /\ x.header.ratchet = RatchetKey(r, n)
  BY <1>2, FrameFacts
<1>5. q = r /\ m = n
  <2>1. \A h, k : RatchetKey(h, k)[3] = h /\ RatchetKey(h, k)[4] = k
    BY DEF RatchetKey
  <2>2. RatchetKey(q, m) = RatchetKey(r, n)
    BY <1>3, <1>4
  <2> QED BY <2>1, <2>2
<1>6. f.key.chain = x.key.chain
  BY <1>1, <1>2, <1>3, <1>4, <1>5, OneChain
<1>7. f.key = KeyOf(f.key.chain, f.key.number) /\ x.key = KeyOf(x.key.chain, x.key.number)
  BY FrameFacts
<1> QED BY <1>1, <1>2, <1>5, <1>6, <1>7

\* Frames with one key are one frame.
LEMMA OneKey ==
  ASSUME TalkInv, NEW f \in Carried, NEW x \in Carried, f.key = x.key
  PROVE  f = x
<1>1. f.plaintext = x.plaintext
  BY NoKeySealsTwoFramesFromInv DEF NoKeySealsTwoFrames
<1>2. PICK q : q = f.plaintext[1]
  OBVIOUS
<1>3. PICK n \in DOMAIN sent[q] : f = sent[q][n] /\ f.plaintext = <<q, n>>
  BY <1>2, FrameFacts
<1>4. PICK m \in DOMAIN sent[q] : x = sent[q][m] /\ x.plaintext = <<q, m>>
  BY <1>1, <1>2, FrameFacts
<1> QED BY <1>1, <1>3, <1>4

-----------------------------------------------------------------------------
(* The store.  Its keys are of frames that were sealed, so it is never full. *)

\* What is said of the frames alone.
CarriedInv == TalkInv /\ Bounded /\ \A f \in Carried : InOrder(f)

\* A function that tells its arguments apart has no more of them than values.
LEMMA NoMoreThan ==
  ASSUME NEW S, NEW T, IsFiniteSet(T), NEW map \in [S -> T],
         \A x, y \in S : map[x] = map[y] => x = y
  PROVE  /\ IsFiniteSet(S) /\ Cardinality(S) <= Cardinality(T)
         /\ Cardinality(S) \in Nat /\ Cardinality(T) \in Nat
<1>1. map \in Injection(S, T)
  BY DEF Injection, IsInjective
<1> QED BY <1>1, FS_Injection, FS_CardinalityType

\* Nothing is too old while there is room.
LEMMA NoneOldest ==
  ASSUME NEW S \in SUBSET Nat, IsFiniteSet(S), NEW limit \in Nat, Cardinality(S) <= limit
  PROVE  Oldest(S, Cardinality(S) - limit) = {}
<1> SUFFICES ASSUME NEW i \in S, Cardinality({j \in S : j < i}) < Cardinality(S) - limit
             PROVE  FALSE
  BY DEF Oldest
<1>1. {j \in S : j < i} \in SUBSET S
  OBVIOUS
<1>2. Cardinality({j \in S : j < i}) \in Nat /\ Cardinality(S) \in Nat
  BY <1>1, FS_Subset, FS_CardinalityType
<1> QED BY <1>2

LEMMA StoreFits ==
  ASSUME CarriedInv, FewFrames, NEW deque, NEW q, Stores(deque, q)
  PROVE  /\ Cardinality(DOMAIN deque) <= MAX_SKIPPED_TOTAL
         /\ \A ratchet :
              Cardinality({i \in DOMAIN deque : deque[i].ratchet = ratchet}) <= MAX_SKIP_PER_CHAIN
<1>0. /\ MAX_SKIP_PER_CHAIN \in Nat /\ MAX_SKIPPED_TOTAL \in Nat /\ CHAIN_LIMIT \in Nat /\ MaxFrames \in Nat
      /\ MaxFrames <= MAX_SKIPPED_TOTAL
      /\ MaxFrames <= MAX_SKIP_PER_CHAIN \/ CHAIN_LIMIT <= MAX_SKIP_PER_CHAIN
  BY LimitsAssumption, FramesAssumption DEF FewFrames
<1>1. /\ IsFiniteSet(Carried) /\ Cardinality(Carried) <= MaxFrames
      /\ IsFiniteSet(DOMAIN deque)
  BY DEF CarriedInv, Bounded, Stores
<1> DEFINE frameOf == [i \in DOMAIN deque |-> CHOOSE f \in Carried : deque[i] = Entry(f)]
<1>2. \A i \in DOMAIN deque : \E f \in Carried : deque[i] = Entry(f)
  BY DEF Stores
<1>3. \A i \in DOMAIN deque : frameOf[i] \in Carried /\ deque[i] = Entry(frameOf[i])
  BY <1>2
<1>4. frameOf \in [DOMAIN deque -> Carried]
  BY <1>2
<1> HIDE DEF frameOf
<1>5. \A i, j \in DOMAIN deque : frameOf[i] = frameOf[j] => i = j
  BY <1>3 DEF Stores
<1>6. /\ Cardinality(DOMAIN deque) <= Cardinality(Carried)
      /\ Cardinality(DOMAIN deque) \in Nat /\ Cardinality(Carried) \in Nat
  BY <1>1, <1>4, <1>5, NoMoreThan
<1>7. Cardinality(DOMAIN deque) <= MAX_SKIPPED_TOTAL
  BY <1>0, <1>1, <1>6
<1>8. ASSUME NEW ratchet
      PROVE  Cardinality({i \in DOMAIN deque : deque[i].ratchet = ratchet}) <= MAX_SKIP_PER_CHAIN
  <2> DEFINE P == {i \in DOMAIN deque : deque[i].ratchet = ratchet}
  <2>1. P \in SUBSET DOMAIN deque /\ \A i \in P : i \in DOMAIN deque /\ deque[i].ratchet = ratchet
    OBVIOUS
  <2> HIDE DEF P
  <2>2. IsFiniteSet(P) /\ Cardinality(P) <= Cardinality(DOMAIN deque) /\ Cardinality(P) \in Nat
    BY <1>1, <2>1, FS_Subset, FS_CardinalityType
  <2>3. CASE MaxFrames <= MAX_SKIP_PER_CHAIN
    <3>1. Cardinality(P) <= MAX_SKIP_PER_CHAIN
      BY <1>0, <1>1, <1>6, <2>2, <2>3
    <3> QED BY <3>1 DEF P
  <2>4. CASE CHAIN_LIMIT <= MAX_SKIP_PER_CHAIN
    <3> DEFINE numbers == 0..CHAIN_LIMIT - 1
               numberOf == [i \in P |-> frameOf[i].key.number]
    <3>1. IsFiniteSet(numbers) /\ Cardinality(numbers) = CHAIN_LIMIT
      <4>1. IsFiniteSet(numbers) /\ Cardinality(numbers) = IF 0 > CHAIN_LIMIT - 1 THEN 0 ELSE CHAIN_LIMIT - 1 - 0 + 1
        BY <1>0, FS_Interval
      <4> QED BY <1>0, <4>1
    <3>2. ASSUME NEW i \in P PROVE frameOf[i].key.number \in numbers
      <4>1. PICK f \in Carried : f = frameOf[i]
        BY <1>3, <2>1
      <4>2. f.key.number \in Nat /\ f.key.number < CHAIN_LIMIT
        BY FrameFacts DEF CarriedInv, InOrder
      <4> QED BY <1>0, <4>1, <4>2
    <3>3. numberOf \in [P -> numbers] /\ \A i \in P : numberOf[i] = frameOf[i].key.number
      BY <3>2
    <3> HIDE DEF numbers, numberOf
    <3>4. ASSUME NEW i \in P, NEW j \in P, numberOf[i] = numberOf[j] PROVE i = j
      <4>1. PICK f \in Carried : f = frameOf[i]
        BY <1>3, <2>1
      <4>2. PICK x \in Carried : x = frameOf[j]
        BY <1>3, <2>1
      <4>3. deque[i] = Entry(f) /\ deque[j] = Entry(x)
        BY <1>3, <2>1, <4>1, <4>2
      <4>4. f.header.ratchet = x.header.ratchet
        BY <2>1, <4>3 DEF Entry
      <4>5. f.key.number = x.key.number
        BY <3>3, <3>4, <4>1, <4>2
      <4>6. f.key = x.key
        BY <4>4, <4>5, OneRatchet DEF CarriedInv
      <4>7. deque[i].key = deque[j].key
        BY <4>3, <4>6 DEF Entry
      <4> QED BY <2>1, <4>7 DEF Stores
    <3>5. Cardinality(P) <= Cardinality(numbers)
      BY <3>1, <3>3, <3>4, NoMoreThan
    <3>6. Cardinality(P) <= MAX_SKIP_PER_CHAIN
      BY <1>0, <2>2, <2>4, <3>1, <3>5
    <3> QED BY <3>6 DEF P
  <2> QED BY <1>0, <2>3, <2>4
<1> QED BY <1>7, <1>8

\* Number n of that chain is a frame of q's with that ratchet key in its header.
SealedKey(q, ratchet, chain, n) ==
  \E f \in Carried :
    f.plaintext[1] = q /\ f.header.ratchet = ratchet /\ f.key = KeyOf(chain, n) /\ f.key.number = n

LEMMA PushBackStores ==
  ASSUME NEW deque, NEW q, Stores(deque, q), NEW ratchet, NEW chain,
         NEW from \in Nat, NEW until \in Nat,
         \A n \in from..until - 1 : SealedKey(q, ratchet, chain, n),
         \A i \in DOMAIN deque : deque[i].key.chain = chain => deque[i].number < from
  PROVE  LET D == PushBack(deque, ratchet, chain, from, until)
         IN  /\ Stores(D, q)
             /\ \A i \in DOMAIN deque : i \in DOMAIN D /\ D[i] = deque[i]
             /\ \A i \in DOMAIN D :
                  \/ i \in DOMAIN deque /\ D[i] = deque[i]
                  \/ \E n \in from..until - 1 : D[i].number = n /\ D[i].key = KeyOf(chain, n)
             /\ \A n \in from..until - 1 : KeyOf(chain, n) \in Keys(D)
<1> DEFINE D == PushBack(deque, ratchet, chain, from, until)
           back == Max({0} \cup DOMAIN deque)
           Pushed(i) == from + (i - back - 1)
<1>1. back \in Nat /\ \A i \in DOMAIN deque : i <= back
  <2> DEFINE T == DOMAIN deque \cup {0}
  <2>1. T \in SUBSET Nat /\ T # {} /\ IsFiniteSet(T)
    BY FS_AddElement DEF Stores
  <2>2. T = {0} \cup DOMAIN deque
    OBVIOUS
  <2> HIDE DEF T
  <2>3. Max(T) \in T /\ \A i \in T : i <= Max(T)
    BY <2>1, MaxLast
  <2> QED BY <2>1, <2>2, <2>3
<1>2. /\ DOMAIN D = DOMAIN deque \cup (back + 1)..(back + until - from)
      /\ \A i \in DOMAIN deque : D[i] = deque[i]
      /\ \A i \in (back + 1)..(back + until - from) :
           i \notin DOMAIN deque =>
             D[i] = [ratchet |-> ratchet, number |-> Pushed(i), key |-> KeyOf(chain, Pushed(i))]
  BY DEF PushBack
<1> HIDE DEF D, back
<1>3. \A i \in (back + 1)..(back + until - from) :
        /\ i \in Nat /\ i \notin DOMAIN deque /\ Pushed(i) \in from..until - 1 /\ Pushed(i) \in Nat
  <2> SUFFICES ASSUME NEW i \in (back + 1)..(back + until - from)
               PROVE  i \in Nat /\ i \notin DOMAIN deque /\ Pushed(i) \in from..until - 1 /\ Pushed(i) \in Nat
    OBVIOUS
  <2>1. i \in Nat /\ ~(i <= back) /\ Pushed(i) \in from..until - 1 /\ Pushed(i) \in Nat
    BY <1>1
  <2> QED BY <1>1, <2>1
<1>4. ASSUME NEW i \in DOMAIN D, i \notin DOMAIN deque
      PROVE  \E f \in Carried :
               /\ f.plaintext[1] = q /\ D[i] = Entry(f)
               /\ f.key = KeyOf(chain, Pushed(i)) /\ f.key.number = Pushed(i)
               /\ Pushed(i) \in from..until - 1 /\ Pushed(i) \in Nat
  <2>1. i \in (back + 1)..(back + until - from)
    BY <1>2, <1>4
  <2>2. Pushed(i) \in from..until - 1 /\ Pushed(i) \in Nat
    BY <1>3, <2>1
  <2>3. D[i] = [ratchet |-> ratchet, number |-> Pushed(i), key |-> KeyOf(chain, Pushed(i))]
    BY <1>2, <1>4, <2>1
  <2> HIDE DEF Pushed
  <2>4. PICK f \in Carried :
          /\ f.plaintext[1] = q /\ f.header.ratchet = ratchet
          /\ f.key = KeyOf(chain, Pushed(i)) /\ f.key.number = Pushed(i)
    BY <2>2 DEF SealedKey
  <2> QED BY <2>2, <2>3, <2>4 DEF Entry
<1>5. ASSUME NEW i \in DOMAIN D, i \notin DOMAIN deque
      PROVE  \E n \in from..until - 1 : n = Pushed(i) /\ D[i].number = n /\ D[i].key = KeyOf(chain, n)
  BY <1>4, <1>5 DEF Entry
<1>6. DOMAIN D \subseteq Nat /\ IsFiniteSet(DOMAIN D)
  <2>1. IsFiniteSet((back + 1)..(back + until - from))
    BY <1>1, FS_Interval
  <2>2. DOMAIN deque \subseteq Nat /\ IsFiniteSet(DOMAIN deque)
    BY DEF Stores
  <2>3. IsFiniteSet(DOMAIN D)
    BY <1>2, <2>1, <2>2, FS_Union
  <2> QED BY <1>2, <1>3, <2>2, <2>3
<1>7. \A i \in DOMAIN D : \E f \in Carried : f.plaintext[1] = q /\ D[i] = Entry(f)
  BY <1>2, <1>4 DEF Stores
<1>8. \A m, n : KeyOf(chain, m) = KeyOf(chain, n) => m = n
  <2>1. \A n : KeyOf(chain, n).number = n
    BY DEF KeyOf
  <2> QED BY <2>1
<1>9. ASSUME NEW i \in DOMAIN deque, NEW j \in DOMAIN D, j \notin DOMAIN deque
      PROVE  D[i].key # D[j].key
  <2>1. PICK n \in from..until - 1 : D[j].number = n /\ D[j].key = KeyOf(chain, n)
    BY <1>5, <1>9
  <2>2. SUFFICES ASSUME D[i].key = D[j].key PROVE FALSE
    OBVIOUS
  <2>3. deque[i].key = KeyOf(chain, n)
    BY <1>2, <2>1, <2>2
  <2>4. PICK f \in Carried : deque[i] = Entry(f)
    BY DEF Stores
  <2>5. deque[i].number = deque[i].key.number
    BY <2>4 DEF Entry
  <2>6. deque[i].key.chain = chain /\ deque[i].number = n
    BY <2>3, <2>5 DEF KeyOf
  <2> QED BY <2>6
<1>10. ASSUME NEW i \in DOMAIN D, NEW j \in DOMAIN D, D[i].key = D[j].key
       PROVE  i = j
  <2>1. CASE i \in DOMAIN deque /\ j \in DOMAIN deque
    BY <1>2, <1>10, <2>1 DEF Stores
  <2>2. CASE i \notin DOMAIN deque /\ j \notin DOMAIN deque
    <3>1. Pushed(i) = Pushed(j)
      BY <1>5, <1>8, <1>10, <2>2
    <3>2. i \in Nat /\ j \in Nat
      BY <1>6
    <3> QED BY <1>1, <3>1, <3>2
  <2> QED BY <1>9, <1>10, <2>1, <2>2
<1>11. Stores(D, q)
  BY <1>6, <1>7, <1>10 DEF Stores
<1>12. ASSUME NEW n \in from..until - 1 PROVE KeyOf(chain, n) \in Keys(D)
  <2> DEFINE i == back + 1 + (n - from)
  <2>1. i \in (back + 1)..(back + until - from) /\ Pushed(i) = n
    BY <1>1
  <2>2. i \in DOMAIN D /\ i \notin DOMAIN deque
    BY <1>2, <1>3, <2>1
  <2> HIDE DEF i
  <2>3. D[i].key = KeyOf(chain, n)
    BY <1>5, <2>1, <2>2
  <2> QED BY <2>2, <2>3 DEF Keys
<1> QED BY <1>2, <1>5, <1>11, <1>12 DEF D

\* The keys to be skipped are of frames, and the store has none of them.
Skips(deque, q, ratchet, chain, from, until) ==
  /\ Stores(deque, q) /\ from \in Nat /\ until \in Nat
  /\ \A n \in from..until - 1 : SealedKey(q, ratchet, chain, n)
  /\ \A i \in DOMAIN deque : deque[i].key.chain = chain => deque[i].number < from

\* The store E has all that `deque` has, and the keys skipped.
Grown(E, deque, q, chain, from, until) ==
  /\ Stores(E, q)
  /\ Keys(deque) \subseteq Keys(E)
  /\ \A n \in from..until - 1 : KeyOf(chain, n) \in Keys(E)
  /\ \A i \in DOMAIN E :
       \/ i \in DOMAIN deque /\ E[i] = deque[i]
       \/ \E n \in from..until - 1 : E[i].number = n /\ E[i].key = KeyOf(chain, n)

\* A skip loses no key.
LEMMA ExtendStores ==
  ASSUME CarriedInv, FewFrames, NEW deque, NEW q, NEW ratchet, NEW chain, NEW from, NEW until,
         Skips(deque, q, ratchet, chain, from, until)
  PROVE  Grown(Extend(deque, ratchet, chain, from, until), deque, q, chain, from, until)
<1> DEFINE D == PushBack(deque, ratchet, chain, from, until)
           in_chain == {i \in DOMAIN D : D[i].ratchet = ratchet}
           old == Oldest(in_chain, Cardinality(in_chain) - MAX_SKIP_PER_CHAIN)
           C == Without(D, old)
           front == Oldest(DOMAIN C, Cardinality(DOMAIN C) - MAX_SKIPPED_TOTAL)
           E == Without(C, front)
<1>0. /\ Stores(deque, q) /\ from \in Nat /\ until \in Nat
      /\ \A n \in from..until - 1 : SealedKey(q, ratchet, chain, n)
      /\ \A i \in DOMAIN deque : deque[i].key.chain = chain => deque[i].number < from
  BY DEF Skips
<1>1. /\ Stores(D, q)
      /\ \A i \in DOMAIN deque : i \in DOMAIN D /\ D[i] = deque[i]
      /\ \A i \in DOMAIN D :
           \/ i \in DOMAIN deque /\ D[i] = deque[i]
           \/ \E n \in from..until - 1 : D[i].number = n /\ D[i].key = KeyOf(chain, n)
      /\ \A n \in from..until - 1 : KeyOf(chain, n) \in Keys(D)
  BY <1>0, PushBackStores
<1>2. Extend(deque, ratchet, chain, from, until) = E
  BY DEF Extend, EvictOldestOfChain, PopFrontToLimit
<1> HIDE DEF D
<1>3. /\ Cardinality(DOMAIN D) <= MAX_SKIPPED_TOTAL
      /\ Cardinality(in_chain) <= MAX_SKIP_PER_CHAIN
  BY <1>1, StoreFits
<1>4. DOMAIN D \in SUBSET Nat /\ IsFiniteSet(DOMAIN D)
  BY <1>1 DEF Stores
<1>5. old = {}
  <2>1. in_chain \in SUBSET DOMAIN D
    OBVIOUS
  <2> HIDE DEF in_chain
  <2>2. in_chain \in SUBSET Nat /\ IsFiniteSet(in_chain)
    BY <1>4, <2>1, FS_Subset
  <2> QED BY <1>3, <2>2, LimitsAssumption, NoneOldest
<1> HIDE DEF old
<1>6. DOMAIN C = DOMAIN D /\ \A i \in DOMAIN C : C[i] = D[i]
  BY <1>5 DEF Without, Restrict
<1> HIDE DEF C
<1>7. front = {}
  BY <1>3, <1>4, <1>6, LimitsAssumption, NoneOldest
<1> HIDE DEF front
<1>8. DOMAIN E = DOMAIN D /\ \A i \in DOMAIN E : E[i] = D[i]
  BY <1>6, <1>7 DEF Without, Restrict
<1> HIDE DEF E
<1>9. Stores(E, q)
  BY <1>1, <1>8 DEF Stores
<1>10. Keys(E) = Keys(D)
  BY <1>8 DEF Keys
<1>11. Keys(deque) \subseteq Keys(D)
  BY <1>1 DEF Keys
<1>12. \A i \in DOMAIN E :
         \/ i \in DOMAIN deque /\ E[i] = deque[i]
         \/ \E n \in from..until - 1 : E[i].number = n /\ E[i].key = KeyOf(chain, n)
  BY <1>1, <1>8
<1>13. Grown(E, deque, q, chain, from, until)
  BY <1>1, <1>9, <1>10, <1>11, <1>12 DEF Grown
<1> QED BY <1>2, <1>13

-----------------------------------------------------------------------------
(* None is none of the keys *)

LEMMA DrawnKeyType ==
  ASSUME EstablishedInv, NEW h \in Handles, NEW n \in Nat
  PROVE  /\ OwnerOf(h) \in Party /\ h \in {"start", "answer"} \X Nat
         /\ RatchetKey(h, n) \in AnyRatchetKey
         /\ RatchetKey(h, n) # None /\ RatchetKey(h, n) # LowOrder
         /\ End(h)[3] \in X!DhPublic
<1>1. h = <<h[1], h[2]>> /\ h[1] \in {"start", "answer"} /\ h[2] \in Nat
  BY HandleFacts
<1>2. h \in {"start", "answer"} \X Nat
  BY <1>1
<1>3. ASSUME NEW p \in Party PROVE X!SignedPrekey(p) \in X!DhPublic
  BY DEF X!SignedPrekey, X!DhPublic
<1>4. OwnerOf(h) \in Party /\ End(h)[3] \in X!DhPublic
  <2>1. CASE h[1] = "start"
    <3>1. h[2] \in DOMAIN starts /\ Established(h) = starts[h[2]]
      BY <2>1, HandleFacts
    <3>2. Established(h) \in XP!Started
      BY <3>1 DEF EstablishedInv, XP!SessionsInv
    <3> DEFINE s == Established(h)
    <3> HIDE DEF s
    <3>3. s.initiator \in Party /\ s.bundle \in XP!PrekeyBundle
      BY <3>2, XP!StartedFields, AlteredAssumption, BoundsAssumption, NamesAssumption DEF s
    <3>4. s.bundle.signed_prekey \in XP!DhPublic
      BY <3>3 DEF XP!PrekeyBundle
    <3>5. XP!DhPublic = X!DhPublic
      BY DEF XP!DhPublic, X!DhPublic
    <3> QED BY <2>1, <3>3, <3>4, <3>5 DEF OwnerOf, End, s
  <2>2. CASE h[1] = "answer"
    <3>1. h[2] \in DOMAIN answers /\ Established(h) = answers[h[2]]
      BY <2>2, HandleFacts
    <3>2. Established(h) \in XP!Answered
      BY <3>1 DEF EstablishedInv, XP!SessionsInv
    <3> DEFINE s == Established(h)
    <3> HIDE DEF s
    <3>3. s.responder \in Party
      BY <3>2, XP!AnsweredFields, AlteredAssumption, BoundsAssumption, NamesAssumption DEF s
    <3>4. OwnerOf(h) \in Party
      BY <2>2, <3>3 DEF OwnerOf, s
    <3> QED BY <1>3, <2>2, <3>4 DEF End
  <2> QED BY <1>1, <2>1, <2>2
<1>5. RatchetKey(h, n) \in AnyRatchetKey
  BY <1>2, <1>4 DEF RatchetKey, AnyRatchetKey
<1> QED BY <1>2, <1>4, <1>5, KeysAssumption

LEMMA ChainIsThere ==
  ASSUME EstablishedInv, NEW h \in Handles, NEW k \in Handles, NEW c, IsSeq(c),
         InTalk(c, StartEnd(h), End(k)), NEW n \in Nat
  PROVE  [key |-> c, next |-> n] # None
<1> DEFINE g == SharedKey(h)
           a == End(g)
           b == End(k)
           Secret == ({"start", "answer"} \X Nat) \cup SUBSET (AnyRatchetKey \cup X!DhPublic)
<1>1. g \in Handles
  BY SharedKeyFacts
<1> HIDE DEF g
<1>2. a[2] \in {"start", "answer"} \X Nat /\ a[3] \in X!DhPublic
  BY <1>1, DrawnKeyType, EndOf
<1>3. \A m \in Nat : KeyAt(a, m) \in AnyRatchetKey /\ KeyAt(b, m) \in AnyRatchetKey
  BY <1>1, DrawnKeyType, EndOf
<1>4. InTalk(c, a, b)
  BY DEF StartEnd, g
<1> HIDE DEF a, b
<1>5. Len(c) \in Nat /\ DOMAIN c = 1..Len(c)
  BY SeqAppend
<1>6. ASSUME NEW i \in 1..Len(c) PROVE c[i] \in Secret
  <2>1. CASE i = 1
    BY <1>2, <1>4, <1>5, <2>1 DEF InTalk
  <2>2. CASE i = 2
    <3>1. Len(c) >= 2
      BY <1>5, <2>2
    <3>2. c[i] = {KeyAt(a, 0), a[3]}
      BY <1>4, <2>2, <3>1 DEF InTalk
    <3>3. KeyAt(a, 0) \in AnyRatchetKey
      BY <1>3
    <3> QED BY <1>2, <3>2, <3>3
  <2>3. CASE i > 2
    <3>1. i \in Nat /\ i <= Len(c)
      BY <1>5
    <3>2. PICK r \in Nat : i = r + 3
      BY <2>3, <3>1
    <3>3. r \div 2 \in Nat /\ (r = 2 * (r \div 2) \/ r = 2 * (r \div 2) + 1)
      OBVIOUS
    <3>4. PICK m \in Nat : r = 2 * m \/ r = 2 * m + 1
      BY <3>3
    <3>5. CASE r = 2 * m
      <4>1. i = 2 * m + 3
        BY <3>2, <3>5
      <4>2. c[i] = {KeyAt(b, m), KeyAt(a, m)}
        BY <1>4, <3>1, <4>1 DEF InTalk
      <4> QED BY <1>3, <4>2
    <3>6. CASE r = 2 * m + 1
      <4>1. i = 2 * m + 4
        BY <3>2, <3>6
      <4>2. c[i] = {KeyAt(a, m + 1), KeyAt(b, m)}
        BY <1>4, <3>1, <4>1 DEF InTalk
      <4>3. m + 1 \in Nat
        OBVIOUS
      <4> QED BY <1>3, <4>2, <4>3
    <3> QED BY <3>4, <3>5, <3>6
  <2> QED BY <1>5, <2>1, <2>2, <2>3
<1> HIDE DEF Secret
<1>7. c \in Seq(Secret)
  <2>1. PICK S : c \in Seq(S)
    BY DEF IsSeq
  <2>2. c = [i \in 1..Len(c) |-> c[i]]
    BY <2>1
  <2>3. c \in [1..Len(c) -> Secret]
    BY <1>6, <2>2
  <2> QED BY <1>5, <2>3
<1>8. [key |-> c, next |-> n] \in AnyChain
  BY <1>7 DEF AnyChain, Secret
<1> QED BY <1>8, NoneAssumption

-----------------------------------------------------------------------------
(* What a step leaves in order *)

LEMMA InStepKept ==
  ASSUME NEW h, End(h)' = End(h), Carried' = Carried, NEW s, NEW g, NEW done, InStep(s, g, done, h)
  PROVE  InStep(s, g, done, h)'
<1>1. \A q, length, n : SealedAt(q, length, n)' <=> SealedAt(q, length, n)
  BY DEF SealedAt
<1>2. SealsInOrder(s, g, h)'
  BY <1>1 DEF InStep, SealsInOrder
<1>3. s.receiving = None => Untouched(s, g, h)'
  BY DEF InStep, Untouched, Drawn
<1>4. ASSUME NEW last \in Carried, Follows(s, done, last) PROVE Follows(s, done, last)'
  BY <1>4 DEF Follows, Stores, Behind
<1> QED BY <1>2, <1>3, <1>4 DEF InStep

LEMMA InOrderKept ==
  ASSUME Carried' = Carried, NEW f, InOrder(f)
  PROVE  InOrder(f)'
<1>1. \A q, length, n : SealedAt(q, length, n)' <=> SealedAt(q, length, n)
  BY DEF SealedAt
<1> QED BY <1>1 DEF InOrder

\* It is enough to look at the session that opens a frame.
LEMMA OneOpens ==
  ASSUME UnderstandInv, UNCHANGED established, sent' = sent, NEW h \in Handles,
         \A x \in Handles \ {h} : /\ session'[x] = session[x] /\ generated'[x] = generated[x]
                                  /\ opened'[x] = opened[x],
         NEW t, NEW g, NEW done, session'[h] = t, generated'[h] = g, opened'[h] = done,
         InStep(t, g, done, h)
  PROVE  UnderstandInv'
<1>1. Handles' = Handles /\ \A x : End(x)' = End(x)
  BY Steady
<1>2. Carried' = Carried
  BY <1>1 DEF Carried
<1>3. Bounded'
  BY <1>2 DEF UnderstandInv, Bounded
<1>4. ASSUME NEW f \in Carried PROVE InOrder(f)'
  BY <1>2, InOrderKept DEF UnderstandInv
<1>5. ASSUME NEW x \in Handles, NEW u, NEW d, NEW o,
             session'[x] = u, generated'[x] = d, opened'[x] = o, InStep(u, d, o, x)
      PROVE  InStep(session[x], generated[x], opened[x], x)'
  <2>1. InStep(u, d, o, x)'
    BY <1>1, <1>2, <1>5, InStepKept
  <2> QED BY <1>5, <2>1
<1>6. ASSUME NEW x \in Handles PROVE InStep(session[x], generated[x], opened[x], x)'
  <2>1. CASE x = h
    BY <1>5, <2>1
  <2>2. CASE x # h
    <3>1. PICK u : u = session[x]
      OBVIOUS
    <3>2. PICK d : d = generated[x]
      OBVIOUS
    <3>3. PICK o : o = opened[x]
      OBVIOUS
    <3>4. session'[x] = u /\ generated'[x] = d /\ opened'[x] = o
      BY <2>2, <3>1, <3>2, <3>3
    <3>5. InStep(u, d, o, x)
      BY <3>1, <3>2, <3>3 DEF UnderstandInv
    <3> QED BY <1>5, <3>4, <3>5
  <2> QED BY <2>1, <2>2
<1> QED BY <1>1, <1>2, <1>3, <1>4, <1>6 DEF UnderstandInv

-----------------------------------------------------------------------------
(* A frame opened with a key on hand *)

\* One frame goes, and its key.
LEMMA StoredKeyFollows ==
  ASSUME CarriedInv, NEW s, NEW done, NEW last \in Carried, Follows(s, done, last), NEW f \in Carried,
         s = [root_key |-> s.root_key, own_ratchet |-> s.own_ratchet,
              remote_ratchet |-> s.remote_ratchet, sending |-> s.sending,
              receiving |-> s.receiving, previous_sending_len |-> s.previous_sending_len,
              skipped |-> s.skipped],
         f.key = s.skipped[Position(s.skipped, f.header)].key
  PROVE  Follows(AfterStoredKey(s, f.header), done \cup {f.plaintext}, last)
<1> DEFINE p == Position(s.skipped, f.header)
           D == Without(s.skipped, {p})
           t == AfterStoredKey(s, f.header)
<1>1. DOMAIN D = DOMAIN s.skipped \ {p} /\ \A i \in DOMAIN D : D[i] = s.skipped[i]
  BY DEF Without, Restrict
<1>2. t = [s EXCEPT !.skipped = D]
  BY DEF AfterStoredKey
<1>3. f.key = s.skipped[p].key
  OBVIOUS
<1> HIDE DEF p, D, t
<1>4. /\ t.root_key = s.root_key /\ t.remote_ratchet = s.remote_ratchet
      /\ t.receiving = s.receiving /\ t.skipped = D
  BY <1>2
<1> DEFINE q == last.plaintext[1]
<1>5. /\ last.key = KeyOf(s.receiving.key, s.receiving.next - 1)
      /\ last.header.ratchet = s.remote_ratchet
      /\ Len(last.key.chain) = Len(s.root_key) - 1
      /\ Stores(s.skipped, q)
      /\ \A i \in DOMAIN s.skipped :
           Len(s.skipped[i].key.chain) = Len(s.root_key) - 1 => s.skipped[i].number < s.receiving.next
      /\ \A x \in Carried :
           x.plaintext[1] = q /\ x.plaintext \notin done /\ Behind(s, x) => x.key \in Keys(s.skipped)
  BY DEF Follows
<1> HIDE DEF q
<1>6. Stores(D, q)
  <2>1. IsFiniteSet(DOMAIN s.skipped)
    BY <1>5 DEF Stores
  <2>2. IsFiniteSet(DOMAIN D)
    BY <1>1, <2>1, FS_Subset
  <2> QED BY <1>1, <1>5, <2>2 DEF Stores
<1>7. ASSUME NEW x \in Carried, x.plaintext[1] = q, x.plaintext \notin done \cup {f.plaintext}, Behind(t, x)
      PROVE  x.key \in Keys(D)
  <2>1. x.key \in Keys(s.skipped)
    BY <1>4, <1>5, <1>7 DEF Behind
  <2>2. PICK i \in DOMAIN s.skipped : s.skipped[i].key = x.key
    BY <2>1 DEF Keys
  <2>3. i # p
    BY <1>3, <1>7, <2>2, OneKey DEF CarriedInv
  <2> QED BY <1>1, <2>2, <2>3 DEF Keys
<1>8. \A i \in DOMAIN D : Len(D[i].key.chain) = Len(s.root_key) - 1 => D[i].number < s.receiving.next
  BY <1>1, <1>5
<1> QED BY <1>4, <1>5, <1>6, <1>7, <1>8 DEF Follows, t, q

\* What a frame follows on its chain, and what its header tells of the chain before.
LEMMA FollowsOn ==
  ASSUME CarriedInv, NEW f \in Carried, NEW n \in Nat
  PROVE  /\ n < f.key.number => SealedKey(f.plaintext[1], f.header.ratchet, f.key.chain, n)
         /\ \A last \in Carried :
              (/\ last.plaintext[1] = f.plaintext[1] /\ n < f.header.previous_chain_len
               /\ Len(last.key.chain) = Len(f.key.chain) - 2) =>
                 SealedKey(f.plaintext[1], last.header.ratchet, last.key.chain, n)
<1>1. ASSUME NEW g \in Carried, SealedAt(g.plaintext[1], Len(g.key.chain), n)
      PROVE  SealedKey(g.plaintext[1], g.header.ratchet, g.key.chain, n)
  <2>1. PICK x \in Carried :
          x.plaintext[1] = g.plaintext[1] /\ Len(x.key.chain) = Len(g.key.chain) /\ x.key.number = n
    BY <1>1 DEF SealedAt
  <2>2. x.key.chain = g.key.chain /\ x.header.ratchet = g.header.ratchet
    BY <2>1, OneChain DEF CarriedInv
  <2>3. x.key = KeyOf(x.key.chain, x.key.number)
    BY FrameFacts DEF CarriedInv
  <2> QED BY <2>1, <2>2, <2>3 DEF SealedKey
<1>2. n < f.key.number => SealedAt(f.plaintext[1], Len(f.key.chain), n)
  BY DEF CarriedInv, InOrder
<1>3. n < f.header.previous_chain_len => SealedAt(f.plaintext[1], Len(f.key.chain) - 2, n)
  BY DEF CarriedInv, InOrder
<1> QED BY <1>1, <1>2, <1>3

\* The receiving chain goes on to the frame, and keeps the keys it goes past.
LEMMA ReceivingFollows ==
  ASSUME CarriedInv, FewFrames, NEW s, NEW done, NEW last \in Carried, Follows(s, done, last),
         NEW f \in Carried,
         s = [root_key |-> s.root_key, own_ratchet |-> s.own_ratchet,
              remote_ratchet |-> s.remote_ratchet, sending |-> s.sending,
              receiving |-> s.receiving, previous_sending_len |-> s.previous_sending_len,
              skipped |-> s.skipped],
         s.receiving = [key |-> s.receiving.key, next |-> s.receiving.next],
         s.receiving.next \in Nat, Len(s.root_key) \in Nat,
         s.remote_ratchet = f.header.ratchet, f.key.number >= s.receiving.next
  PROVE  Follows(AfterReceiving(s, f.header), done \cup {f.plaintext}, f)
<1> DEFINE key == s.receiving.key
           next == s.receiving.next
           N == f.key.number
           E == Extend(s.skipped, f.header.ratchet, key, next, N)
           t == AfterReceiving(s, f.header)
           q == last.plaintext[1]
           L == Len(s.root_key) - 1
<1>0. TalkInv
  BY DEF CarriedInv
<1>1. N \in Nat /\ f.header.message_number = N /\ f.key = KeyOf(f.key.chain, N)
  BY <1>0, FrameFacts
<1>2. t = [s EXCEPT !.skipped = E, !.receiving.next = N + 1]
  BY <1>1 DEF AfterReceiving
<1>3. /\ last.key = KeyOf(key, next - 1)
      /\ last.header.ratchet = s.remote_ratchet
      /\ Len(last.key.chain) = L
      /\ Stores(s.skipped, q)
      /\ \A i \in DOMAIN s.skipped : Len(s.skipped[i].key.chain) = L => s.skipped[i].number < next
      /\ \A x \in Carried :
           x.plaintext[1] = q /\ x.plaintext \notin done /\ Behind(s, x) => x.key \in Keys(s.skipped)
  BY DEF Follows
<1> HIDE DEF t, E
<1>4. /\ t.root_key = s.root_key /\ t.remote_ratchet = f.header.ratchet /\ t.skipped = E
      /\ t.receiving = [s.receiving EXCEPT !.next = N + 1]
  BY <1>2
<1>5. t.receiving.key = key /\ t.receiving.next = N + 1
  BY <1>4
<1>6. f.plaintext[1] = q /\ f.key.chain = last.key.chain
  BY <1>0, <1>3, OneRatchet
<1>7. last.key.chain = key
  BY <1>3 DEF KeyOf
<1>8. \A n \in next..N - 1 : SealedKey(q, f.header.ratchet, key, n)
  <2> SUFFICES ASSUME NEW n \in next..N - 1 PROVE SealedKey(q, f.header.ratchet, key, n)
    OBVIOUS
  <2>1. n \in Nat /\ n < f.key.number
    BY <1>1
  <2> QED BY <1>6, <1>7, <2>1, FollowsOn
<1>9. \A i \in DOMAIN s.skipped : s.skipped[i].key.chain = key => s.skipped[i].number < next
  BY <1>3, <1>7
<1>10. /\ Stores(E, q) /\ Keys(s.skipped) \subseteq Keys(E)
       /\ \A n \in next..N - 1 : KeyOf(key, n) \in Keys(E)
       /\ \A i \in DOMAIN E :
            \/ i \in DOMAIN s.skipped /\ E[i] = s.skipped[i]
            \/ \E n \in next..N - 1 : E[i].number = n /\ E[i].key = KeyOf(key, n)
  <2>1. Skips(s.skipped, q, f.header.ratchet, key, next, N)
    BY <1>1, <1>3, <1>8, <1>9 DEF Skips
  <2>2. Grown(E, s.skipped, q, key, next, N)
    BY <2>1, ExtendStores DEF E
  <2> QED BY <2>2 DEF Grown
<1>11. \A i \in DOMAIN E : Len(E[i].key.chain) = L => E[i].number < N + 1
  <2> SUFFICES ASSUME NEW i \in DOMAIN E, Len(E[i].key.chain) = L PROVE E[i].number < N + 1
    OBVIOUS
  <2>1. CASE i \in DOMAIN s.skipped /\ E[i] = s.skipped[i]
    <3>1. E[i].number < next
      BY <1>3, <2>1
    <3>2. PICK x \in Carried : E[i] = Entry(x)
      BY <2>1, <1>3 DEF Stores
    <3>3. E[i].number \in Nat
      BY <1>0, <3>2, FrameFacts DEF Entry
    <3> QED BY <1>1, <3>1, <3>3
  <2>2. ASSUME NEW n \in next..N - 1, E[i].number = n PROVE E[i].number < N + 1
    BY <1>1, <2>2
  <2> QED BY <1>10, <2>1, <2>2
<1>12. ASSUME NEW x \in Carried, x.plaintext[1] = q, x.plaintext \notin done \cup {f.plaintext}, Behind(t, x)
       PROVE  x.key \in Keys(E)
  <2>1. x.key.number \in Nat /\ x.key = KeyOf(x.key.chain, x.key.number) /\ Len(x.key.chain) \in Nat
    BY <1>0, FrameFacts
  <2>2. CASE Behind(s, x)
    BY <1>3, <1>10, <1>12, <2>2
  <2>3. CASE ~Behind(s, x)
    <3>1. Len(x.key.chain) = L /\ x.key.number < N + 1 /\ ~(x.key.number < next)
      BY <1>4, <1>5, <1>12, <2>3 DEF Behind
    <3>2. x.key.chain = key
      BY <1>0, <1>3, <1>7, <1>12, <3>1, OneChain
    <3>3. x.key.number # N
      <4> SUFFICES ASSUME x.key.number = N PROVE FALSE
        OBVIOUS
      <4>1. x.key = f.key
        BY <1>1, <1>6, <1>7, <2>1, <3>2
      <4> QED BY <1>0, <1>12, <4>1, OneKey
    <3>4. x.key.number \in next..N - 1
      BY <1>1, <2>1, <3>1, <3>3
    <3> QED BY <1>10, <2>1, <3>2, <3>4
  <2> QED BY <2>2, <2>3
<1>13. f.key = KeyOf(t.receiving.key, t.receiving.next - 1)
  <2>1. (N + 1) - 1 = N
    BY <1>1
  <2> QED BY <1>1, <1>5, <1>6, <1>7, <2>1
<1>14. /\ f.key = KeyOf(t.receiving.key, t.receiving.next - 1)
       /\ f.header.ratchet = t.remote_ratchet
       /\ Len(f.key.chain) = Len(t.root_key) - 1
       /\ Stores(t.skipped, f.plaintext[1])
       /\ \A i \in DOMAIN t.skipped :
            Len(t.skipped[i].key.chain) = Len(t.root_key) - 1 => t.skipped[i].number < t.receiving.next
       /\ \A x \in Carried :
            x.plaintext[1] = f.plaintext[1] /\ x.plaintext \notin done \cup {f.plaintext} /\ Behind(t, x) =>
              x.key \in Keys(t.skipped)
  BY <1>3, <1>4, <1>5, <1>6, <1>10, <1>11, <1>12, <1>13
<1>15. Follows(t, done \cup {f.plaintext}, f)
  BY <1>14 DEF Follows
<1> QED BY <1>15 DEF t

-----------------------------------------------------------------------------
(* A frame opened after a ratchet step *)

\* Session s has opened nothing, or has come as far as a frame of q's, and q has
\* sealed nothing on a chain of the length of its root key.
ReadyFor(s, done, q) ==
  LET length == Len(s.root_key)
  IN  /\ IsSeq(s.root_key)
      /\ \A i \in DOMAIN s.skipped : Len(s.skipped[i].key.chain) < length
      /\ \A x \in Carried : x.plaintext[1] = q => Len(x.key.chain) # length
      /\ s.receiving = None =>
           /\ s.skipped = << >>
           /\ \A x \in Carried : x.plaintext[1] = q => Len(x.key.chain) >= length
      /\ s.receiving # None =>
           /\ s.receiving.next \in Nat /\ s.remote_ratchet # None
           /\ \E last \in Carried : last.plaintext[1] = q /\ Follows(s, done, last)

\* What the chain that the peer has left still has is kept.
LEMMA PreviousFollows ==
  ASSUME CarriedInv, FewFrames, NEW s, NEW done, NEW f \in Carried, ReadyFor(s, done, f.plaintext[1]),
         f.key.chain = KdfRoot(s.root_key, s.own_ratchet, f.header.ratchet)
  PROVE  /\ Stores(SkippedOfPrevious(s, f.header), f.plaintext[1])
         /\ \A i \in DOMAIN SkippedOfPrevious(s, f.header) :
              Len(SkippedOfPrevious(s, f.header)[i].key.chain) < Len(s.root_key)
         /\ \A x \in Carried :
              (/\ x.plaintext[1] = f.plaintext[1] /\ x.plaintext \notin done
               /\ Len(x.key.chain) < Len(s.root_key)) =>
                x.key \in Keys(SkippedOfPrevious(s, f.header))
<1> DEFINE q == f.plaintext[1]
           P == f.header.previous_chain_len
           before == SkippedOfPrevious(s, f.header)
           length == Len(s.root_key)
           G == /\ Stores(before, q)
                /\ \A i \in DOMAIN before : Len(before[i].key.chain) < length
                /\ \A x \in Carried :
                     x.plaintext[1] = q /\ x.plaintext \notin done /\ Len(x.key.chain) < length =>
                       x.key \in Keys(before)
<1>0. TalkInv
  BY DEF CarriedInv
<1>1. length \in Nat /\ Len(f.key.chain) = length + 1 /\ P \in Nat
  BY <1>0, FrameFacts, SeqAppend DEF ReadyFor, KdfRoot
<1>2. CASE s.receiving = None
  <2>1. before = << >> /\ DOMAIN before = {}
    BY <1>2 DEF ReadyFor, SkippedOfPrevious
  <2>2. Stores(before, q)
    <3>1. IsFiniteSet({})
      BY FS_EmptySet
    <3> QED BY <2>1, <3>1 DEF Stores
  <2>3. ASSUME NEW x \in Carried, x.plaintext[1] = q PROVE ~(Len(x.key.chain) < length)
    <3>1. Len(x.key.chain) >= length
      BY <1>2, <2>3 DEF ReadyFor
    <3>2. Len(x.key.chain) \in Nat
      BY <1>0, FrameFacts
    <3> QED BY <1>1, <3>1, <3>2
  <2>4. G
    BY <2>1, <2>2, <2>3
  <2> QED BY <2>4
<1>3. CASE s.receiving # None
  <2>1. PICK last \in Carried : last.plaintext[1] = q /\ Follows(s, done, last)
    BY <1>3 DEF ReadyFor
  <2> DEFINE key == s.receiving.key
             next == s.receiving.next
  <2>2. /\ next \in Nat /\ s.remote_ratchet # None
        /\ \A i \in DOMAIN s.skipped : Len(s.skipped[i].key.chain) < length
    BY <1>3 DEF ReadyFor
  <2>3. /\ last.key = KeyOf(key, next - 1)
        /\ last.header.ratchet = s.remote_ratchet
        /\ Len(last.key.chain) = length - 1
        /\ Stores(s.skipped, q)
        /\ \A i \in DOMAIN s.skipped :
             Len(s.skipped[i].key.chain) = length - 1 => s.skipped[i].number < next
        /\ \A x \in Carried :
             x.plaintext[1] = q /\ x.plaintext \notin done /\ Behind(s, x) => x.key \in Keys(s.skipped)
    BY <2>1 DEF Follows
  <2>4. last.key.chain = key
    BY <2>3 DEF KeyOf
  <2>5. before = Extend(s.skipped, s.remote_ratchet, key, next, P)
    BY <1>3, <2>2 DEF SkippedOfPrevious
  <2>6. ASSUME NEW n \in next..P - 1 PROVE SealedKey(q, s.remote_ratchet, key, n)
    <3>1. n \in Nat /\ n < P
      BY <1>1, <2>2
    <3>2. Len(last.key.chain) = Len(f.key.chain) - 2
      BY <1>1, <2>3
    <3> QED BY <2>1, <2>3, <2>4, <3>1, <3>2, FollowsOn
  <2>7. Skips(s.skipped, q, s.remote_ratchet, key, next, P)
    BY <1>1, <2>2, <2>3, <2>4, <2>6 DEF Skips
  <2>8. Grown(before, s.skipped, q, key, next, P)
    BY <2>5, <2>7, ExtendStores
  <2> HIDE DEF before
  <2>9. /\ Stores(before, q) /\ Keys(s.skipped) \subseteq Keys(before)
        /\ \A n \in next..P - 1 : KeyOf(key, n) \in Keys(before)
        /\ \A i \in DOMAIN before :
             \/ i \in DOMAIN s.skipped /\ before[i] = s.skipped[i]
             \/ \E n \in next..P - 1 : before[i].number = n /\ before[i].key = KeyOf(key, n)
    BY <2>8 DEF Grown
  <2>10. ASSUME NEW i \in DOMAIN before PROVE Len(before[i].key.chain) < length
    <3>1. CASE i \in DOMAIN s.skipped /\ before[i] = s.skipped[i]
      BY <2>2, <3>1
    <3>2. CASE \E n \in next..P - 1 : before[i].number = n /\ before[i].key = KeyOf(key, n)
      <4>1. before[i].key.chain = key
        BY <3>2 DEF KeyOf
      <4>2. Len(before[i].key.chain) = length - 1
        BY <2>3, <2>4, <4>1
      <4> QED BY <1>1, <4>2
    <3> QED BY <2>9, <3>1, <3>2
  <2>11. ASSUME NEW x \in Carried, x.plaintext[1] = q, x.plaintext \notin done, Len(x.key.chain) < length
         PROVE  x.key \in Keys(before)
    <3>1. x.key.number \in Nat /\ x.key = KeyOf(x.key.chain, x.key.number) /\ Len(x.key.chain) \in Nat
      BY <1>0, FrameFacts
    <3>2. CASE Behind(s, x)
      BY <2>3, <2>9, <2>11, <3>2
    <3>3. CASE ~Behind(s, x)
      <4>1. Len(x.key.chain) = length - 1 /\ ~(x.key.number < next)
        BY <1>1, <2>11, <3>1, <3>3 DEF Behind
      <4>2. x.key.chain = key
        BY <1>0, <2>1, <2>3, <2>4, <2>11, <4>1, OneChain
      <4>3. SealedAt(q, Len(f.key.chain) - 2, x.key.number)
        <5>1. Len(f.key.chain) - 2 = length - 1
          BY <1>1
        <5> QED BY <2>11, <4>1, <5>1 DEF SealedAt
      <4>4. x.key.number < P
        BY <3>1, <4>3 DEF CarriedInv, InOrder
      <4>5. x.key.number \in next..P - 1
        BY <1>1, <2>2, <3>1, <4>1, <4>4
      <4> QED BY <2>9, <3>1, <4>2, <4>5
    <3> QED BY <3>2, <3>3
  <2>12. G
    BY <2>9, <2>10, <2>11
  <2> QED BY <2>12 DEF before
<1> QED BY <1>2, <1>3

\* The chain of the frame is gone along to the frame.
LEMMA SteppingFollows ==
  ASSUME CarriedInv, FewFrames, NEW s, NEW done, NEW f \in Carried, ReadyFor(s, done, f.plaintext[1]),
         f.key.chain = KdfRoot(s.root_key, s.own_ratchet, f.header.ratchet), NEW fresh
  PROVE  Follows(RatchetStep(s, f.header, fresh), done \cup {f.plaintext}, f)
<1> DEFINE q == f.plaintext[1]
           N == f.key.number
           before == SkippedOfPrevious(s, f.header)
           received == f.key.chain
           replied == KdfRoot(received, fresh, f.header.ratchet)
           E == Extend(before, f.header.ratchet, received, 0, N)
           t == RatchetStep(s, f.header, fresh)
           length == Len(s.root_key)
<1>0. TalkInv
  BY DEF CarriedInv
<1>1. /\ length \in Nat /\ Len(received) = length + 1 /\ IsSeq(received)
      /\ Len(replied) = length + 2
  <2>1. IsSeq(s.root_key)
    BY DEF ReadyFor
  <2>2. length \in Nat /\ Len(received) = length + 1 /\ IsSeq(received)
    BY <2>1, SeqAppend DEF KdfRoot
  <2>3. Len(replied) = Len(received) + 1
    BY <2>2, SeqAppend DEF KdfRoot
  <2> QED BY <2>2, <2>3
<1>2. N \in Nat /\ f.header.message_number = N /\ f.key = KeyOf(received, N)
  BY <1>0, FrameFacts
<1>3. /\ Stores(before, q)
      /\ \A i \in DOMAIN before : Len(before[i].key.chain) < length
      /\ \A x \in Carried :
           x.plaintext[1] = q /\ x.plaintext \notin done /\ Len(x.key.chain) < length =>
             x.key \in Keys(before)
  BY PreviousFollows
<1>4. \A x \in Carried : x.plaintext[1] = q => Len(x.key.chain) # length
  BY DEF ReadyFor
<1>5. t = [root_key |-> replied, own_ratchet |-> fresh, remote_ratchet |-> f.header.ratchet,
           sending |-> ChainStart(replied), receiving |-> [key |-> received, next |-> N + 1],
           previous_sending_len |-> PreviousSendingLen(s), skipped |-> E]
  BY <1>2 DEF RatchetStep
<1> HIDE DEF t, before
<1>6. ASSUME NEW n \in 0..N - 1 PROVE SealedKey(q, f.header.ratchet, received, n)
  <2>1. n \in Nat /\ n < f.key.number
    BY <1>2
  <2> QED BY <2>1, FollowsOn
<1>7. Skips(before, q, f.header.ratchet, received, 0, N)
  <2>1. ASSUME NEW i \in DOMAIN before PROVE before[i].key.chain # received
    <3>1. Len(before[i].key.chain) < length
      BY <1>3
    <3> QED BY <1>1, <3>1
  <2> QED BY <1>2, <1>3, <1>6, <2>1 DEF Skips
<1>8. Grown(E, before, q, received, 0, N)
  BY <1>7, ExtendStores
<1> HIDE DEF E, replied
<1>9. /\ t.root_key = replied /\ t.remote_ratchet = f.header.ratchet /\ t.skipped = E
      /\ t.receiving = [key |-> received, next |-> N + 1]
  BY <1>5
<1>10. t.receiving.key = received /\ t.receiving.next = N + 1
  BY <1>9
<1>11. /\ Stores(E, q) /\ Keys(before) \subseteq Keys(E)
       /\ \A n \in 0..N - 1 : KeyOf(received, n) \in Keys(E)
       /\ \A i \in DOMAIN E :
            \/ i \in DOMAIN before /\ E[i] = before[i]
            \/ \E n \in 0..N - 1 : E[i].number = n /\ E[i].key = KeyOf(received, n)
  BY <1>8 DEF Grown
<1>12. ASSUME NEW i \in DOMAIN E, Len(E[i].key.chain) = Len(replied) - 1
       PROVE  E[i].number < N + 1
  <2>1. CASE i \in DOMAIN before /\ E[i] = before[i]
    <3>1. Len(E[i].key.chain) < length
      BY <1>3, <2>1
    <3> QED BY <1>1, <1>12, <3>1
  <2>2. ASSUME NEW n \in 0..N - 1, E[i].number = n PROVE E[i].number < N + 1
    BY <1>2, <2>2
  <2> QED BY <1>11, <2>1, <2>2
<1>13. ASSUME NEW x \in Carried, x.plaintext[1] = q, x.plaintext \notin done \cup {f.plaintext}, Behind(t, x)
       PROVE  x.key \in Keys(E)
  <2>1. x.key.number \in Nat /\ x.key = KeyOf(x.key.chain, x.key.number) /\ Len(x.key.chain) \in Nat
    BY <1>0, FrameFacts
  <2>2. \/ Len(x.key.chain) < Len(replied) - 1
        \/ Len(x.key.chain) = Len(replied) - 1 /\ x.key.number < N + 1
    BY <1>9, <1>10, <1>13 DEF Behind
  <2>3. CASE Len(x.key.chain) < length
    BY <1>3, <1>11, <1>13, <2>3
  <2>4. CASE ~(Len(x.key.chain) < length)
    <3>1. Len(x.key.chain) = length + 1 /\ x.key.number < N + 1
      BY <1>1, <1>4, <1>13, <2>1, <2>2, <2>4
    <3>2. x.key.chain = received
      BY <1>0, <1>1, <1>13, <3>1, OneChain
    <3>3. x.key.number # N
      <4> SUFFICES ASSUME x.key.number = N PROVE FALSE
        OBVIOUS
      <4>1. x.key = f.key
        BY <1>2, <2>1, <3>2
      <4> QED BY <1>0, <1>13, <4>1, OneKey
    <3>4. x.key.number \in 0..N - 1
      BY <1>2, <2>1, <3>1, <3>3
    <3> QED BY <1>11, <2>1, <3>2, <3>4
  <2> QED BY <2>3, <2>4
<1>14. /\ f.key = KeyOf(t.receiving.key, t.receiving.next - 1)
       /\ Len(f.key.chain) = Len(t.root_key) - 1
  <2>1. (N + 1) - 1 = N
    BY <1>2
  <2> QED BY <1>1, <1>2, <1>9, <1>10, <2>1
<1>15. Follows(t, done \cup {f.plaintext}, f)
  BY <1>9, <1>10, <1>11, <1>12, <1>13, <1>14 DEF Follows
<1> QED BY <1>15 DEF t

-----------------------------------------------------------------------------
(* Both ways of decrypt keep the sessions in step *)

LEMMA CarriedInOrder == TalkInv /\ UnderstandInv => CarriedInv
BY DEF UnderstandInv, CarriedInv

LEMMA ReceivingOpens ==
  ASSUME NEW s, NEW f, DecryptResult(s, f, None) = "Ok", ~IsSkipped(s, f)
  PROVE  /\ s.remote_ratchet = f.header.ratchet
         /\ NumberResult(s.receiving.next, f.header.message_number) = "Ok"
<1>1. StepResult(s, f, None) # "Ok"
  BY DEF StepResult
<1>2. InReceivingChain(s, f) /\ ReceivingResult(s, f) = "Ok"
  BY <1>1 DEF DecryptResult, InReceivingChain, AfterRatchetStep
<1> QED BY <1>2 DEF InReceivingChain, ReceivingResult

LEMMA KeyOnHandInStep ==
  ASSUME TalkInv, UnderstandInv, FewFrames, NEW h \in Handles, NEW f \in Carried,
         DecryptWithKeyOnHand(h, f)
  PROVE  UnderstandInv'
<1>1. Histories /\ EstablishedInv /\ CarriedInv
  BY CarriedInOrder DEF TalkInv
<1>2. PICK k \in Handles : Talking(h, k)
  BY DEF TalkInv
<1> DEFINE s == session[h]
           t == IF IsSkipped(s, f) THEN AfterStoredKey(s, f.header) ELSE AfterReceiving(s, f.header)
           g == generated[h]
           done == opened[h]
<1>3. /\ DecryptResult(s, f, None) = "Ok" /\ UNCHANGED established
      /\ session' = [session EXCEPT ![h] = t]
      /\ opened' = [opened EXCEPT ![h] = done \cup {f.plaintext}]
      /\ generated' = generated /\ sent' = sent
  BY DEF DecryptWithKeyOnHand, Returns
<1>4. InStep(s, g, done, h) /\ Held(s, h, StartEnd(h), End(k), g)
  BY <1>2 DEF UnderstandInv, Talking
<1> HIDE DEF s, t, g, done
<1>5. /\ session'[h] = t /\ generated'[h] = g /\ opened'[h] = done \cup {f.plaintext}
      /\ \A x \in Handles \ {h} : /\ session'[x] = session[x] /\ generated'[x] = generated[x]
                                  /\ opened'[x] = opened[x]
  BY <1>1, <1>3 DEF Histories, g
<1>6. s = [root_key |-> s.root_key, own_ratchet |-> s.own_ratchet,
           remote_ratchet |-> s.remote_ratchet, sending |-> s.sending,
           receiving |-> s.receiving, previous_sending_len |-> s.previous_sending_len,
           skipped |-> s.skipped]
  BY <1>4 DEF Held
<1>7. ASSUME s.receiving # None
      PROVE  /\ s.receiving = [key |-> s.receiving.key, next |-> s.receiving.next]
             /\ s.receiving.next \in Nat
  BY <1>4, <1>7 DEF Held, IsReceiving
<1>8. Len(s.root_key) \in Nat
  BY <1>4, SeqAppend DEF Held
<1>9. /\ s.receiving # None /\ t.receiving # None
      /\ \E last \in Carried : Follows(t, done \cup {f.plaintext}, last)
      /\ t.root_key = s.root_key /\ t.sending = s.sending
      /\ t.previous_sending_len = s.previous_sending_len
  <2>1. CASE IsSkipped(s, f)
    <3>1. f.key = s.skipped[Position(s.skipped, f.header)].key
      BY <1>3, <2>1, KeyOnHandOpens
    <3>2. t = AfterStoredKey(s, f.header)
      BY <2>1 DEF t
    <3>3. s.receiving # None
      <4> SUFFICES ASSUME s.receiving = None PROVE FALSE
        OBVIOUS
      <4>1. s.skipped = << >> /\ DOMAIN s.skipped = {}
        BY <1>4 DEF InStep, Untouched
      <4> QED BY <2>1, <4>1 DEF IsSkipped, Matches
    <3>4. PICK last \in Carried : Follows(s, done, last)
      BY <1>4, <3>3 DEF InStep
    <3>5. Follows(t, done \cup {f.plaintext}, last)
      BY <1>1, <1>6, <3>1, <3>2, <3>4, StoredKeyFollows
    <3>6. /\ t.root_key = s.root_key /\ t.sending = s.sending /\ t.receiving = s.receiving
          /\ t.previous_sending_len = s.previous_sending_len
      BY <1>6, <3>2 DEF AfterStoredKey
    <3> QED BY <3>3, <3>5, <3>6
  <2>2. CASE ~IsSkipped(s, f)
    <3>1. s.receiving # None /\ f.key = KeyOf(s.receiving.key, f.header.message_number)
      BY <1>3, <2>2, KeyOnHandOpens
    <3>2. t = AfterReceiving(s, f.header)
      BY <2>2 DEF t
    <3>3. /\ s.remote_ratchet = f.header.ratchet
          /\ NumberResult(s.receiving.next, f.header.message_number) = "Ok"
      BY <1>3, <2>2, ReceivingOpens
    <3>4. f.key.number \in Nat /\ f.header.message_number = f.key.number
      BY FrameFacts
    <3>5. f.key.number >= s.receiving.next
      <4> SUFFICES ASSUME f.key.number < s.receiving.next PROVE FALSE
        BY <1>7, <3>1, <3>4
      <4> QED BY <3>3, <3>4, LimitsAssumption DEF NumberResult
    <3>6. PICK last \in Carried : Follows(s, done, last)
      BY <1>4, <3>1 DEF InStep
    <3>7. Follows(t, done \cup {f.plaintext}, f)
      BY <1>1, <1>6, <1>7, <1>8, <3>1, <3>2, <3>3, <3>5, <3>6, ReceivingFollows
    <3>8. /\ t.root_key = s.root_key /\ t.sending = s.sending
          /\ t.receiving = [s.receiving EXCEPT !.next = f.header.message_number + 1]
          /\ t.previous_sending_len = s.previous_sending_len
      BY <1>6, <3>2 DEF AfterReceiving
    <3>9. t.receiving # None
      <4>1. PICK a : a = StartEnd(h)
        OBVIOUS
      <4>2. t.receiving = [key |-> s.receiving.key, next |-> f.key.number + 1] /\ f.key.number + 1 \in Nat
        BY <1>7, <3>1, <3>4, <3>8
      <4>3. IsSeq(s.receiving.key) /\ InTalk(s.receiving.key, StartEnd(h), End(k))
        BY <1>4, <3>1 DEF Held, IsReceiving, Incoming
      <4> QED BY <1>1, <4>2, <4>3, ChainIsThere
    <3> QED BY <3>1, <3>7, <3>8, <3>9
  <2> QED BY <2>1, <2>2
<1>10. SealsInOrder(t, g, h)
  <2>1. SealsInOrder(s, g, h)
    BY <1>4 DEF InStep
  <2> QED BY <1>9, <2>1 DEF SealsInOrder
<1>11. InStep(t, g, done \cup {f.plaintext}, h)
  BY <1>9, <1>10 DEF InStep
<1>12. PICK u : u = t
  OBVIOUS
<1>13. PICK d : d = g
  OBVIOUS
<1>14. PICK o : o = done \cup {f.plaintext}
  OBVIOUS
<1> QED BY <1>3, <1>5, <1>11, <1>12, <1>13, <1>14, OneOpens

\* No chain of the peer's is as long as one's root key, and the shortest is longer
\* than the first of them.
LEMMA PeersChains ==
  ASSUME NEW h, h[1] \in {"start", "answer"}, NEW q, q[1] \in {"start", "answer"}, q[1] # h[1],
         NEW m \in Nat, NEW g \in Nat
  PROVE  /\ SealsAt(q, m) # SealsAt(h, g - 1)
         /\ SealsAt(q, m) >= SealsAt(h, Drawn(h) - 1)
         /\ SealsAt(q, m) \in Nat
<1>1. CASE h[1] = "start"
  <2>1. SealsAt(q, m) = 2 * m + 3 /\ SealsAt(h, g - 1) = 2 * (g - 1) + 2 /\ SealsAt(h, Drawn(h) - 1) = 2
    BY <1>1 DEF SealsAt, Drawn
  <2> QED BY <2>1
<1>2. CASE h[1] = "answer"
  <2>1. SealsAt(q, m) = 2 * m + 2 /\ SealsAt(h, g - 1) = 2 * (g - 1) + 3 /\ SealsAt(h, Drawn(h) - 1) = 1
    BY <1>2 DEF SealsAt, Drawn
  <2> QED BY <2>1
<1> QED BY <1>1, <1>2

LEMMA TalkIsReady ==
  ASSUME TalkInv, UnderstandInv, NEW h \in Handles, NEW k \in Handles, Talking(h, k), Paired(h, k),
         NEW q, q = Peer(h, k)
  PROVE  ReadyFor(session[h], opened[h], q)
<1>1. EstablishedInv
  BY DEF TalkInv
<1> DEFINE s == session[h]
           g == generated[h]
           done == opened[h]
<1>2. InStep(s, g, done, h) /\ Held(s, h, StartEnd(h), End(k), g)
  BY DEF UnderstandInv, Talking
<1> HIDE DEF s, g, done
<1>3. /\ IsSeq(s.root_key) /\ Len(s.root_key) = SealsAt(h, g - 1) /\ g \in Nat
      /\ IsReceiving(s.receiving, h, StartEnd(h), End(k), g)
      /\ IsStore(s.skipped, h, StartEnd(h), End(k), g)
  BY <1>2 DEF Held
<1>4. q \in Handles /\ q[1] # h[1] /\ h[1] \in {"start", "answer"} /\ q[1] \in {"start", "answer"}
  BY Roles DEF Paired
<1>5. ASSUME NEW x \in Carried, x.plaintext[1] = q
      PROVE  \E m \in Nat : Len(x.key.chain) = SealsAt(q, m)
  BY <1>5, FrameFacts
<1>6. \A i \in DOMAIN s.skipped : Len(s.skipped[i].key.chain) < Len(s.root_key)
  BY <1>3 DEF IsStore, Incoming
<1>7. \A x \in Carried : x.plaintext[1] = q => Len(x.key.chain) # Len(s.root_key)
  BY <1>3, <1>4, <1>5, PeersChains
<1>8. ASSUME s.receiving = None
      PROVE  /\ s.skipped = << >>
             /\ \A x \in Carried : x.plaintext[1] = q => Len(x.key.chain) >= Len(s.root_key)
  <2>1. s.skipped = << >> /\ g = Drawn(h)
    BY <1>2, <1>8 DEF InStep, Untouched
  <2> QED BY <1>3, <1>4, <1>5, <2>1, PeersChains
<1>9. ASSUME s.receiving # None
      PROVE  /\ s.receiving.next \in Nat /\ s.remote_ratchet # None
             /\ \E last \in Carried : last.plaintext[1] = q /\ Follows(s, done, last)
  <2>1. PICK last \in Carried : Follows(s, done, last)
    BY <1>2, <1>9 DEF InStep
  <2>2. s.receiving.next \in Nat /\ Incoming(s.receiving.key, h, StartEnd(h), End(k), g)
    BY <1>3, <1>9 DEF IsReceiving
  <2>3. last.key.chain = s.receiving.key /\ last.header.ratchet = s.remote_ratchet
    BY <2>1 DEF Follows, KeyOf
  <2>4. Incoming(last.key.chain, h, StartEnd(h), End(k), generated[h])
    BY <2>2, <2>3 DEF g
  <2>5. \E n \in DOMAIN sent[q] : last.plaintext = <<q, n>>
    BY <2>4, SealedByThePeer
  <2>6. last.plaintext[1] = q
    BY <2>5
  <2>7. \E m \in Nat : last.header.ratchet = RatchetKey(q, m)
    BY <2>6, FrameFacts
  <2>8. s.remote_ratchet # None
    BY <1>1, <1>4, <2>3, <2>7, DrawnKeyType
  <2> QED BY <2>1, <2>2, <2>6, <2>8
<1>10. ReadyFor(s, done, q)
  BY <1>3, <1>6, <1>7, <1>8, <1>9 DEF ReadyFor
<1> QED BY <1>10 DEF s, done

\* Nobody has sealed on a chain that the session has not come to.
LEMMA NoneSealedAt ==
  ASSUME TalkInv, NEW h \in Handles, NEW length,
         \A m \in Nat : m < generated[h] => SealsAt(h, m) # length
  PROVE  \A n : ~SealedAt(h, length, n)
<1> SUFFICES ASSUME NEW f \in Carried, f.plaintext[1] = h, Len(f.key.chain) = length PROVE FALSE
  BY DEF SealedAt
<1> QED BY FrameFacts

LEMMA SealsInOrderAfterStep ==
  ASSUME TalkInv, NEW h \in Handles, NEW s, NEW t, NEW g, g = generated[h], g \in Nat,
         SealsInOrder(s, g, h), s.sending # None => g # 0 /\ s.sending.next \in Nat,
         Len(s.root_key) = SealsAt(h, g - 1), Len(t.root_key) = SealsAt(h, g),
         t.sending # None, t.sending.next = 0, t.previous_sending_len = PreviousSendingLen(s)
  PROVE  SealsInOrder(t, g + 1, h)
<1>1. h[1] \in {"start", "answer"}
  BY Roles
<1>2. \A n : ~SealedAt(h, Len(t.root_key), n)
  <2>1. \A m \in Nat : m < generated[h] => SealsAt(h, m) # Len(t.root_key)
    BY <1>1 DEF SealsAt
  <2> QED BY <2>1, NoneSealedAt
<1>3. Len(t.root_key) - 2 = Len(s.root_key)
  BY <1>1 DEF SealsAt
<1>4. ASSUME NEW n \in Nat PROVE n < PreviousSendingLen(s) <=> SealedAt(h, Len(s.root_key), n)
  <2>1. CASE s.sending = None
    <3>1. g = 0
      BY <2>1 DEF SealsInOrder
    <3>2. \A m \in Nat : m < generated[h] => SealsAt(h, m) # Len(s.root_key)
      BY <3>1
    <3>3. ~SealedAt(h, Len(s.root_key), n)
      BY <3>2, NoneSealedAt
    <3> QED BY <2>1, <3>3 DEF PreviousSendingLen
  <2>2. CASE s.sending # None
    BY <2>2 DEF PreviousSendingLen, SealsInOrder
  <2> QED BY <2>1, <2>2
<1>5. ASSUME NEW n \in Nat
      PROVE  /\ n < t.sending.next <=> SealedAt(h, Len(t.root_key), n)
             /\ n < t.previous_sending_len <=> SealedAt(h, Len(t.root_key) - 2, n)
  BY <1>2, <1>3, <1>4
<1> QED BY <1>5 DEF SealsInOrder

LEMMA RatchetStepInStep ==
  ASSUME TalkInv, UnderstandInv, FewFrames, NEW h \in Handles, NEW f \in Carried,
         DecryptAfterRatchetStep(h, f)
  PROVE  UnderstandInv'
<1>1. Histories /\ EstablishedInv /\ CarriedInv
  BY CarriedInOrder DEF TalkInv
<1> DEFINE s == session[h]
           g == generated[h]
           done == opened[h]
           fresh == RatchetKey(h, g)
           t == RatchetStep(s, f.header, fresh)
           received == KdfRoot(s.root_key, s.own_ratchet, f.header.ratchet)
           replied == KdfRoot(received, fresh, f.header.ratchet)
<1>2. /\ StepResult(s, f, fresh) = "Ok" /\ UNCHANGED established
      /\ session' = [session EXCEPT ![h] = t]
      /\ opened' = [opened EXCEPT ![h] = done \cup {f.plaintext}]
      /\ generated' = [generated EXCEPT ![h] = g + 1]
      /\ sent' = sent
  BY DEF DecryptAfterRatchetStep, Returns
<1> HIDE DEF t
<1>3. /\ session'[h] = t /\ generated'[h] = g + 1 /\ opened'[h] = done \cup {f.plaintext}
      /\ \A x \in Handles \ {h} : /\ session'[x] = session[x] /\ generated'[x] = generated[x]
                                  /\ opened'[x] = opened[x]
  BY <1>1, <1>2 DEF Histories
<1>4. f.key.chain = received
  <2>1. f.key = KeyOf(received, f.header.message_number)
    BY <1>2, StepOpens
  <2> QED BY <2>1 DEF KeyOf
<1>5. PICK k \in Handles :
        /\ Talking(h, k)
        /\ Paired(h, k)
        /\ InTalk(f.key.chain, StartEnd(h), End(k))
        /\ f.header.ratchet = IF h[1] = "start" THEN KeyAt(End(k), generated[h] - 1)
                              ELSE KeyAt(StartEnd(h), generated[h])
        /\ f.header.message_number \in Nat /\ f.header.previous_chain_len \in Nat
        /\ \E n \in DOMAIN sent[Peer(h, k)] :
             f = sent[Peer(h, k)][n] /\ f.plaintext = <<Peer(h, k), n>>
        /\ Len(f.key.chain) < SealsAt(h, generated[h])
  BY <1>4, StepFacts
<1>6. PICK q : q = Peer(h, k)
  OBVIOUS
<1>7. f.plaintext[1] = q
  BY <1>5, <1>6
<1>8. ReadyFor(s, done, q)
  BY <1>5, <1>6, TalkIsReady
<1>9. InStep(s, g, done, h) /\ Held(s, h, StartEnd(h), End(k), g)
  BY <1>5 DEF UnderstandInv, Talking
<1>10. PICK a : a = StartEnd(h)
  OBVIOUS
<1>11. PICK b : b = End(k)
  OBVIOUS
<1>12. h[1] \in {"start", "answer"} /\ g \in Nat /\ (h[1] = "answer" => k = h)
  BY <1>5, <1>9, Roles DEF Held, Talking
<1>13. fresh = KeyAt(OwnEnd(h, a, b), g)
  <2>1. OwnEnd(h, a, b) = End(h)
    <3>1. CASE h[1] = "start"
      BY <1>10, <3>1, Roles DEF OwnEnd, StartEnd
    <3>2. CASE h[1] = "answer"
      BY <1>11, <1>12, <3>2 DEF OwnEnd
    <3> QED BY <1>12, <3>1, <3>2
  <2> QED BY <2>1, EndOf
<1>14. g = generated[h]
  OBVIOUS
<1> HIDE DEF s, g, done, fresh, received, replied
<1>15. Held(t, h, a, b, g + 1)
  <2>1. f.header.ratchet = IF h[1] = "start" THEN KeyAt(b, g - 1) ELSE KeyAt(a, g)
    BY <1>5, <1>10, <1>11, <1>14
  <2>2. InTalk(received, a, b)
    BY <1>4, <1>5, <1>10, <1>11
  <2>3. Held(s, h, a, b, g)
    BY <1>9, <1>10, <1>11
  <2>4. f.header.message_number \in Nat /\ f.header.previous_chain_len \in Nat
    BY <1>5
  <2> QED BY <1>12, <1>13, <2>1, <2>2, <2>3, <2>4, HeldStepping DEF t, received
<1>16. t = [root_key |-> replied, own_ratchet |-> fresh, remote_ratchet |-> f.header.ratchet,
            sending |-> ChainStart(replied),
            receiving |-> [key |-> received, next |-> f.header.message_number + 1],
            previous_sending_len |-> PreviousSendingLen(s), skipped |-> t.skipped]
  BY DEF t, RatchetStep, replied, received
<1>17. /\ t.root_key = replied /\ t.sending = [key |-> replied, next |-> 0]
       /\ t.receiving = [key |-> received, next |-> f.header.message_number + 1]
       /\ t.previous_sending_len = PreviousSendingLen(s)
  BY <1>16 DEF ChainStart
<1>18. IsSeq(replied) /\ InTalk(replied, a, b) /\ Len(replied) = SealsAt(h, (g + 1) - 1)
  BY <1>15, <1>17 DEF Held
<1>19. t.sending # None
  BY <1>1, <1>10, <1>11, <1>17, <1>18, ChainIsThere
<1>20. t.receiving # None
  <2>1. IsSeq(received) /\ InTalk(received, a, b)
    BY <1>4, <1>5, <1>10, <1>11, FrameFacts
  <2>2. f.header.message_number + 1 \in Nat
    BY <1>5
  <2> QED BY <1>1, <1>10, <1>11, <1>17, <2>1, <2>2, ChainIsThere
<1>21. SealsInOrder(t, g + 1, h)
  <2>1. SealsInOrder(s, g, h)
    BY <1>9 DEF InStep
  <2>2. s.sending # None => g # 0 /\ s.sending.next \in Nat
    BY <1>9, LimitsAssumption DEF Held
  <2>3. Len(s.root_key) = SealsAt(h, g - 1)
    BY <1>9 DEF Held
  <2>4. Len(t.root_key) = SealsAt(h, g)
    <3>1. (g + 1) - 1 = g
      BY <1>12
    <3> QED BY <1>17, <1>18, <3>1
  <2>5. t.sending.next = 0
    BY <1>17
  <2> QED BY <1>12, <1>14, <1>17, <1>19, <2>1, <2>2, <2>3, <2>4, <2>5, SealsInOrderAfterStep
<1>22. Follows(t, done \cup {f.plaintext}, f)
  BY <1>1, <1>4, <1>7, <1>8, SteppingFollows DEF t, received
<1>23. InStep(t, g + 1, done \cup {f.plaintext}, h)
  BY <1>20, <1>21, <1>22 DEF InStep
<1>24. PICK u : u = t
  OBVIOUS
<1>25. PICK d : d = g + 1
  OBVIOUS
<1>26. PICK o : o = done \cup {f.plaintext}
  OBVIOUS
<1> QED BY <1>2, <1>3, <1>23, <1>24, <1>25, <1>26, OneOpens

-----------------------------------------------------------------------------
(* encrypt keeps the sessions in step *)

LEMMA InStepOnSealing ==
  ASSUME NEW f, Carried' = Carried \cup {f}, NEW x, End(x)' = End(x), NEW u, NEW g, NEW done,
         SealsInOrder(u, g, x)', u.receiving = None => Untouched(u, g, x),
         u.receiving # None =>
           \E last \in Carried : /\ Follows(u, done, last)
                                 /\ last.plaintext[1] = f.plaintext[1] => ~Behind(u, f)
  PROVE  InStep(u, g, done, x)'
<1>1. u.receiving = None => Untouched(u, g, x)'
  BY DEF Untouched, Drawn
<1>2. ASSUME NEW last \in Carried, Follows(u, done, last),
             last.plaintext[1] = f.plaintext[1] => ~Behind(u, f)
      PROVE  Follows(u, done, last)'
  <2>1. Stores(u.skipped, last.plaintext[1])'
    BY <1>2 DEF Follows, Stores
  <2>2. ASSUME NEW y \in Carried', y.plaintext[1] = last.plaintext[1], y.plaintext \notin done, Behind(u, y)
        PROVE  y.key \in Keys(u.skipped)
    BY <1>2, <2>2 DEF Follows
  <2>3. \A y : Behind(u, y)' <=> Behind(u, y)
    BY DEF Behind
  <2> QED BY <1>2, <2>1, <2>2, <2>3 DEF Follows
<1> QED BY <1>1, <1>2 DEF InStep

\* What has been sealed by the session that seals next is on no longer chain, and on
\* that chain has lower numbers.
LEMMA LastSealed ==
  ASSUME TalkInv, NEW h \in Handles, NEW k \in Handles, Talking(h, k),
         SealsInOrder(session[h], generated[h], h), session[h].sending # None,
         NEW x \in Carried, x.plaintext[1] = h
  PROVE  /\ Len(x.key.chain) <= Len(session[h].root_key)
         /\ Len(x.key.chain) = Len(session[h].root_key) => x.key.number < session[h].sending.next
<1>1. Len(session[h].root_key) = SealsAt(h, generated[h] - 1) /\ generated[h] \in Nat
  BY DEF Talking, Held
<1>2. x.key.number \in Nat
  BY FrameFacts
<1>3. PICK m \in Nat : m < generated[h] /\ Len(x.key.chain) = SealsAt(h, m)
  BY FrameFacts
<1>4. h[1] \in {"start", "answer"}
  BY Roles
<1>5. SealsAt(h, m) <= SealsAt(h, generated[h] - 1)
  BY <1>1, <1>3, <1>4 DEF SealsAt
<1>6. Len(x.key.chain) = Len(session[h].root_key) => SealedAt(h, Len(session[h].root_key), x.key.number)
  BY DEF SealedAt
<1> QED BY <1>1, <1>2, <1>3, <1>5, <1>6 DEF SealsInOrder

LEMMA EncryptInStep ==
  ASSUME TalkInv, UnderstandInv, NEW h \in Handles, Encrypt(h)
  PROVE  UnderstandInv'
<1>1. Histories /\ EstablishedInv /\ CarriedInv
  BY CarriedInOrder DEF TalkInv
<1>2. PICK k \in Handles : Talking(h, k)
  BY DEF TalkInv
<1> DEFINE s == session[h]
           g == generated[h]
           t == AfterSealing(s)
           f == SealedFrame(s, <<h, Len(sent[h]) + 1>>)
           N == s.sending.next
           length == Len(s.root_key)
<1>3. /\ FramesSealed < MaxFrames /\ CanSend(s) /\ UNCHANGED established
      /\ session' = [session EXCEPT ![h] = t]
      /\ sent' = [sent EXCEPT ![h] = Append(sent[h], f)]
      /\ generated' = generated /\ opened' = opened
  BY DEF Encrypt
<1>4. Held(s, h, StartEnd(h), End(k), g) /\ IsSeq(sent[h])
  BY <1>2 DEF Talking, Sealed
<1>5. SealsInOrder(s, g, h) /\ InStep(s, g, opened[h], h)
  BY DEF UnderstandInv, InStep
<1>6. ASSUME NEW x \in Carried, x.plaintext[1] = h
      PROVE  /\ Len(x.key.chain) <= length
             /\ Len(x.key.chain) = length => x.key.number < N
  BY <1>2, <1>3, <1>5, <1>6, LastSealed DEF CanSend
<1>7. /\ f.header.previous_chain_len = s.previous_sending_len
      /\ f.key = KeyOf(s.sending.key, N) /\ f.plaintext[1] = h
  BY DEF SealedFrame, NextHeader
<1> HIDE DEF s, g, t, f
<1>8. Handles' = Handles /\ \A x : End(x)' = End(x)
  BY <1>3, Steady
<1>9. /\ session'[h] = t /\ sent'[h] = Append(sent[h], f)
      /\ \A x \in Handles \ {h} : session'[x] = session[x] /\ sent'[x] = sent[x]
  BY <1>1, <1>3 DEF Histories
<1>10. Carried' = Carried \cup {f}
  <2> DEFINE c == sent[h]
             d == Append(c, f)
  <2>1. IsSeq(c) /\ d = Append(c, f)
    BY <1>4
  <2> HIDE DEF c, d
  <2>2. /\ DOMAIN c = 1..Len(c) /\ Len(c) \in Nat /\ IsSeq(d) /\ Len(d) = Len(c) + 1
        /\ \A i \in 1..Len(c) : d[i] = c[i]
        /\ d[Len(c) + 1] = f
    BY <2>1, SeqAppend
  <2>3. DOMAIN d = 1..Len(c) + 1
    BY <2>2, SeqAppend
  <2>4. {d[n] : n \in DOMAIN d} = {c[n] : n \in DOMAIN c} \cup {f}
    <3>1. DOMAIN d = DOMAIN c \cup {Len(c) + 1}
      BY <2>2, <2>3
    <3>2. \A n \in DOMAIN c : d[n] = c[n]
      BY <2>2
    <3> QED BY <2>2, <3>1, <3>2
  <2>5. {sent'[h][n] : n \in DOMAIN sent'[h]} = {sent[h][n] : n \in DOMAIN sent[h]} \cup {f}
    BY <1>9, <2>4 DEF c, d
  <2>6. \A x \in Handles \ {h} :
          {sent'[x][n] : n \in DOMAIN sent'[x]} = {sent[x][n] : n \in DOMAIN sent[x]}
    BY <1>9
  <2> DEFINE A(x) == {sent[x][n] : n \in DOMAIN sent[x]}
             B(x) == {sent'[x][n] : n \in DOMAIN sent'[x]}
  <2>7. Carried = UNION {A(x) : x \in Handles} /\ Carried' = UNION {B(x) : x \in Handles}
    BY <1>8 DEF Carried
  <2>8. B(h) = A(h) \cup {f} /\ \A x \in Handles \ {h} : B(x) = A(x)
    BY <2>5, <2>6
  <2> HIDE DEF A, B
  <2> QED BY <2>7, <2>8
<1>11. /\ s.sending = [key |-> s.root_key, next |-> N] /\ N \in Nat /\ N < CHAIN_LIMIT
       /\ length \in Nat /\ s.sending # None /\ s.previous_sending_len \in Nat
       /\ s = [root_key |-> s.root_key, own_ratchet |-> s.own_ratchet,
               remote_ratchet |-> s.remote_ratchet, sending |-> s.sending,
               receiving |-> s.receiving, previous_sending_len |-> s.previous_sending_len,
               skipped |-> s.skipped]
  BY <1>3, <1>4, LimitsAssumption, SeqAppend DEF Held, CanSend
<1>12. /\ t.sending = [key |-> s.root_key, next |-> N + 1]
       /\ t.root_key = s.root_key /\ t.previous_sending_len = s.previous_sending_len
       /\ t.remote_ratchet = s.remote_ratchet /\ t.receiving = s.receiving /\ t.skipped = s.skipped
  <2>1. t = [s EXCEPT !.sending.next = N + 1]
    BY DEF AfterSealing, t
  <2>2. t.sending = [s.sending EXCEPT !.next = N + 1]
    BY <1>11, <2>1
  <2>3. t.sending = [key |-> s.root_key, next |-> N + 1]
    BY <1>11, <2>2
  <2> QED BY <1>11, <2>1, <2>3
<1>13. f.key.chain = s.root_key /\ f.key.number = N
  <2>1. s.sending.key = s.root_key
    BY <1>11
  <2> QED BY <1>7, <2>1 DEF KeyOf
<1>13a. PICK l : l = length
  OBVIOUS
<1>13b. PICK number : number = N
  OBVIOUS
<1>13c. PICK y : y = f
  OBVIOUS
<1>14. \A q, m, n : SealedAt(q, m, n)' <=> (SealedAt(q, m, n) \/ (q = h /\ m = l /\ n = number))
  BY <1>7, <1>10, <1>13, <1>13a, <1>13b DEF SealedAt
<1>15. Bounded'
  <2>1. /\ IsFiniteSet(Carried) /\ Cardinality(Carried) < MaxFrames
    BY <1>1, <1>3 DEF CarriedInv, Bounded, FramesSealed
  <2>2. /\ IsFiniteSet(Carried \cup {f})
        /\ Cardinality(Carried \cup {f}) = Cardinality(Carried)
             \/ Cardinality(Carried \cup {f}) = Cardinality(Carried) + 1
        /\ Cardinality(Carried) \in Nat
    BY <2>1, FS_AddElement, FS_CardinalityType
  <2>3. Cardinality(Carried \cup {f}) <= MaxFrames
    BY <2>1, <2>2, FramesAssumption
  <2> QED BY <1>10, <2>2, <2>3 DEF Bounded
<1>16. ASSUME NEW x \in Carried PROVE InOrder(x)'
  <2>1. InOrder(x)
    BY <1>1 DEF CarriedInv
  <2>2. ~(x.plaintext[1] = h /\ Len(x.key.chain) - 2 = l)
    <3> SUFFICES ASSUME x.plaintext[1] = h PROVE Len(x.key.chain) - 2 # l
      OBVIOUS
    <3>1. Len(x.key.chain) <= length /\ Len(x.key.chain) \in Nat
      BY <1>6, FrameFacts
    <3> QED BY <1>11, <1>13a, <3>1
  <2>3. PICK z : z = x
    OBVIOUS
  <2>4. InOrder(z)'
    BY <1>14, <2>1, <2>2, <2>3 DEF InOrder
  <2> QED BY <2>3, <2>4
<1>17. InOrder(y)'
  <2>1. /\ y.header.previous_chain_len = s.previous_sending_len
        /\ y.key.number = number /\ Len(y.key.chain) = l /\ y.plaintext[1] = h
        /\ number < CHAIN_LIMIT /\ l - 2 # l
    BY <1>7, <1>11, <1>13, <1>13a, <1>13b, <1>13c
  <2>2. ASSUME NEW n \in Nat
        PROVE  /\ n < number => SealedAt(h, l, n)
               /\ n < y.header.previous_chain_len <=> SealedAt(h, l - 2, n)
    BY <1>5, <1>11, <1>13a, <1>13b, <2>1 DEF SealsInOrder
  <2>3. ASSUME NEW n \in Nat
        PROVE  /\ n < y.key.number => SealedAt(h, l, n)'
               /\ n < y.header.previous_chain_len <=> SealedAt(h, l - 2, n)'
    BY <1>14, <2>1, <2>2
  <2> QED BY <2>1, <2>3 DEF InOrder
<1>18. ASSUME NEW x \in Handles \ {h}, NEW u, NEW d, SealsInOrder(u, d, x) PROVE SealsInOrder(u, d, x)'
  BY <1>14, <1>18 DEF SealsInOrder
<1>19. ASSUME NEW u, u = t, NEW d PROVE SealsInOrder(u, d, h)'
  <2>1. u.sending # None
    <3>1. N + 1 \in Nat /\ IsSeq(s.root_key) /\ InTalk(s.root_key, StartEnd(h), End(k))
      BY <1>4, <1>11 DEF Held
    <3> QED BY <1>1, <1>12, <1>19, <3>1, ChainIsThere
  <2>2. u.sending.next = number + 1 /\ Len(u.root_key) = l /\ u.previous_sending_len = s.previous_sending_len
    BY <1>12, <1>13a, <1>13b, <1>19
  <2>3. ASSUME NEW n \in Nat
        PROVE  /\ n < u.sending.next <=> SealedAt(h, l, n)'
               /\ n < u.previous_sending_len <=> SealedAt(h, l - 2, n)'
    <3>1. /\ n < number <=> SealedAt(h, l, n)
          /\ n < u.previous_sending_len <=> SealedAt(h, l - 2, n)
      BY <1>5, <1>11, <1>13a, <1>13b, <2>2 DEF SealsInOrder
    <3>2. l - 2 # l /\ (n < number + 1 <=> n < number \/ n = number)
      BY <1>11, <1>13a, <1>13b
    <3> QED BY <1>14, <2>2, <3>1, <3>2
  <2> QED BY <2>1, <2>2, <2>3 DEF SealsInOrder
<1>20. ASSUME NEW x \in Handles, NEW u, NEW o,
              u.root_key = session[x].root_key, u.receiving = session[x].receiving,
              u.receiving # None, NEW last \in Carried, Follows(u, o, last), last.plaintext[1] = h
       PROVE  ~Behind(u, f)
  <2>1. PICK j \in Handles : Talking(x, j)
    BY DEF TalkInv
  <2>2. Len(u.root_key) \in Nat /\ u.receiving.next \in Nat
    BY <1>20, <2>1, SeqAppend DEF Talking, Held, IsReceiving
  <2>3. Len(last.key.chain) = Len(u.root_key) - 1 /\ last.key.number = u.receiving.next - 1
    BY <1>20 DEF Follows, KeyOf
  <2>4. /\ Len(last.key.chain) <= length
        /\ Len(last.key.chain) = length => last.key.number < N
    BY <1>6, <1>20
  <2>5. Len(f.key.chain) = length
    BY <1>13
  <2> QED BY <1>11, <1>13, <2>2, <2>3, <2>4, <2>5 DEF Behind
<1>21. ASSUME NEW x \in Handles PROVE InStep(session[x], generated[x], opened[x], x)'
  <2>1. PICK u : u = session'[x]
    OBVIOUS
  <2>2. PICK d : d = generated[x]
    OBVIOUS
  <2>3. PICK o : o = opened[x]
    OBVIOUS
  <2>5. InStep(session[x], d, o, x)
    BY <2>2, <2>3 DEF UnderstandInv
  <2>6. /\ u.root_key = session[x].root_key /\ u.receiving = session[x].receiving
        /\ u.remote_ratchet = session[x].remote_ratchet /\ u.skipped = session[x].skipped
    BY <1>9, <1>12, <2>1 DEF s
  <2>7. SealsInOrder(u, d, x)'
    <3>1. CASE x = h
      BY <1>9, <1>19, <2>1, <3>1
    <3>2. CASE x # h
      <4>1. u = session[x]
        BY <1>9, <2>1, <3>2
      <4> QED BY <1>18, <2>5, <3>2, <4>1 DEF InStep
    <3> QED BY <3>1, <3>2
  <2>8. u.receiving = None => Untouched(u, d, x)
    BY <2>5, <2>6 DEF InStep, Untouched
  <2>9. u.receiving # None =>
          \E last \in Carried : /\ Follows(u, o, last)
                                /\ last.plaintext[1] = y.plaintext[1] => ~Behind(u, y)
    <3> SUFFICES ASSUME u.receiving # None
                 PROVE  \E last \in Carried : /\ Follows(u, o, last)
                                              /\ last.plaintext[1] = y.plaintext[1] => ~Behind(u, y)
      OBVIOUS
    <3>1. PICK last \in Carried : Follows(session[x], o, last)
      BY <2>5, <2>6 DEF InStep
    <3>2. Follows(u, o, last)
      BY <2>6, <3>1 DEF Follows, Behind
    <3>3. last.plaintext[1] = y.plaintext[1] => ~Behind(u, y)
      BY <1>7, <1>13c, <1>20, <2>6, <3>2
    <3> QED BY <3>2, <3>3
  <2>10. InStep(u, d, o, x)'
    BY <1>8, <1>10, <1>13c, <2>7, <2>8, <2>9, InStepOnSealing
  <2> QED BY <1>3, <2>1, <2>2, <2>3, <2>10
<1>22. ASSUME NEW x \in Carried' PROVE InOrder(x)'
  <2>1. CASE x \in Carried
    BY <1>16, <2>1
  <2>2. CASE x = y
    BY <1>17, <2>2
  <2> QED BY <1>10, <1>13c, <2>1, <2>2
<1> QED BY <1>8, <1>15, <1>21, <1>22 DEF UnderstandInv

-----------------------------------------------------------------------------
(* A session that a call gives is in step *)

\* A session has nothing to open with at first, and only a start has what to seal with.
OpeningsReady ==
  \A h \in Handles :
    LET s == Opening(h)
    IN  /\ s.receiving = None /\ s.skipped = << >> /\ s.previous_sending_len = 0
        /\ s.remote_ratchet = IF h[1] = "start" THEN End(h)[3] ELSE None
        /\ IF h[1] = "start" THEN s.sending # None /\ s.sending.next = 0 ELSE s.sending = None

LEMMA OpeningReady == EstablishedInv => OpeningsReady
<1> SUFFICES ASSUME EstablishedInv, NEW h \in Handles, NEW s, s = Opening(h)
             PROVE  /\ s.receiving = None /\ s.skipped = << >> /\ s.previous_sending_len = 0
                    /\ s.remote_ratchet = IF h[1] = "start" THEN End(h)[3] ELSE None
                    /\ IF h[1] = "start" THEN s.sending # None /\ s.sending.next = 0 ELSE s.sending = None
  BY DEF OpeningsReady
<1>1. h[1] \in {"start", "answer"} /\ Held(Opening(h), h, StartEnd(h), End(h), Drawn(h))
  BY OpeningHeld DEF OpeningsTalk
<1>2. CASE h[1] = "start"
  <2> DEFINE spk == Established(h).bundle.signed_prekey
             own == RatchetKey(h, 0)
             root == KdfRoot(<<SharedKey(h)>>, own, spk)
  <2>1. s = [root_key |-> root, own_ratchet |-> own, remote_ratchet |-> spk,
             sending |-> [key |-> root, next |-> 0], receiving |-> None,
             previous_sending_len |-> 0, skipped |-> << >>]
    BY <1>2 DEF Opening, InitiatorSession, ChainStart
  <2>2. spk = End(h)[3]
    BY <1>2 DEF End
  <2> HIDE DEF spk, own, root
  <2>3. s.root_key = root /\ s.sending = [key |-> root, next |-> 0] /\ s.sending.next = 0
    BY <2>1
  <2>4. IsSeq(root) /\ InTalk(root, StartEnd(h), End(h))
    BY <1>1, <2>3 DEF Held
  <2>5. s.sending # None
    BY <2>3, <2>4, ChainIsThere
  <2> QED BY <1>2, <2>1, <2>2, <2>3, <2>5
<1>3. CASE h[1] = "answer"
  BY <1>3 DEF Opening, ResponderSession
<1> QED BY <1>1, <1>2, <1>3

LEMMA EstablishInStep ==
  ASSUME TalkInv, UnderstandInv, Establish
  PROVE  UnderstandInv'
<1>1. Histories /\ EstablishedInv
  BY DEF TalkInv
<1>2. XP!Next
  BY SameNext DEF Establish
<1>3. EstablishedInv' /\ \A h \in Handles : h \in Handles' /\ End(h)' = End(h)
  BY <1>1, <1>2, StepEstablishedInv, EstablishKeeps
<1>4. /\ session' = [h \in Handles' |-> IF h \in Handles THEN session[h] ELSE Opening(h)']
      /\ generated' = [h \in Handles' |-> IF h \in Handles THEN generated[h]
                                          ELSE IF h[1] = "start" THEN 1 ELSE 0]
      /\ sent' = [h \in Handles' |-> IF h \in Handles THEN sent[h] ELSE << >>]
      /\ opened' = [h \in Handles' |-> IF h \in Handles THEN opened[h] ELSE {}]
  BY DEF Establish
<1>5. Carried' = Carried
  <2> DEFINE A(x) == {sent[x][n] : n \in DOMAIN sent[x]}
             B(x) == {sent'[x][n] : n \in DOMAIN sent'[x]}
  <2>1. ASSUME NEW x \in Handles PROVE B(x) = A(x)
    BY <1>3, <1>4
  <2>2. ASSUME NEW x \in Handles', x \notin Handles PROVE B(x) = {}
    <3>1. sent'[x] = << >>
      BY <1>4, <2>2
    <3> QED BY <3>1
  <2>3. Carried = UNION {A(x) : x \in Handles} /\ Carried' = UNION {B(x) : x \in Handles'}
    BY DEF Carried
  <2> HIDE DEF A, B
  <2> QED BY <1>3, <2>1, <2>2, <2>3
<1>6. Bounded'
  BY <1>5 DEF UnderstandInv, Bounded
<1>7. \A f \in Carried' : InOrder(f)'
  BY <1>5, InOrderKept DEF UnderstandInv
<1>8. ASSUME NEW h \in Handles PROVE InStep(session[h], generated[h], opened[h], h)'
  <2>1. PICK u : u = session[h]
    OBVIOUS
  <2>2. PICK d : d = generated[h]
    OBVIOUS
  <2>3. PICK o : o = opened[h]
    OBVIOUS
  <2>4. session'[h] = u /\ generated'[h] = d /\ opened'[h] = o
    BY <1>3, <1>4, <2>1, <2>2, <2>3
  <2>5. InStep(u, d, o, h)
    BY <2>1, <2>2, <2>3 DEF UnderstandInv
  <2>6. InStep(u, d, o, h)'
    BY <1>3, <1>5, <2>5, InStepKept
  <2> QED BY <2>4, <2>6
<1>9. ASSUME NEW h \in Handles', h \notin Handles PROVE InStep(session[h], generated[h], opened[h], h)'
  <2>1. OpeningsReady'
    BY <1>3, OpeningReady, PTL
  <2>2. session'[h] = Opening(h)' /\ generated'[h] = Drawn(h)
    BY <1>4, <1>9 DEF Drawn
  <2>3. PICK u : u = session'[h]
    OBVIOUS
  <2>4. PICK o : o = opened'[h]
    OBVIOUS
  <2>5. PICK b : b = End(h)'
    OBVIOUS
  <2>6. /\ u.receiving = None /\ u.skipped = << >> /\ u.previous_sending_len = 0
        /\ u.remote_ratchet = IF h[1] = "start" THEN b[3] ELSE None
        /\ IF h[1] = "start" THEN u.sending # None /\ u.sending.next = 0 ELSE u.sending = None
    BY <2>1, <2>2, <2>3, <2>5 DEF OpeningsReady
  <2>7. ASSUME NEW length, NEW n PROVE ~SealedAt(h, length, n)
    <3> SUFFICES ASSUME NEW f \in Carried, f.plaintext[1] = h PROVE FALSE
      BY DEF SealedAt
    <3> QED BY <1>9, FrameFacts
  <2>8. \A length, n : ~SealedAt(h, length, n)'
    BY <1>5, <2>7 DEF SealedAt
  <2>9. PICK d : d = Drawn(h)
    OBVIOUS
  <2>10. SealsInOrder(u, d, h)'
    <3>1. d # 0 => u.sending # None
      BY <2>6, <2>9 DEF Drawn
    <3>2. u.sending # None => u.sending.next = 0
      BY <2>6
    <3> QED BY <2>6, <2>8, <3>1, <3>2 DEF SealsInOrder
  <2>11. Untouched(u, d, h)'
    BY <2>5, <2>6, <2>9 DEF Untouched, Drawn
  <2>12. InStep(u, d, o, h)'
    BY <2>6, <2>10, <2>11 DEF InStep
  <2> QED BY <2>2, <2>3, <2>4, <2>9, <2>12
<1> QED BY <1>6, <1>7, <1>8, <1>9 DEF UnderstandInv

-----------------------------------------------------------------------------
(* Partners stay in step *)

LEMMA InitUnderstandInv == Init => UnderstandInv
<1> SUFFICES ASSUME Init PROVE UnderstandInv
  OBVIOUS
<1>1. Handles = {}
  BY DEF Init, X!Init, Handles
<1>2. Carried = {}
  BY <1>1 DEF Carried
<1>3. IsFiniteSet({}) /\ Cardinality({}) = 0
  BY FS_EmptySet
<1> QED BY <1>1, <1>2, <1>3, FramesAssumption DEF UnderstandInv, Bounded

LEMMA StepUnderstandInv ==
  ASSUME FewFrames, TalkInv, UnderstandInv, [Next]_vars
  PROVE  UnderstandInv'
<1>1. CASE Establish
  BY <1>1, EstablishInStep
<1>2. ASSUME NEW h \in Handles, Encrypt(h) PROVE UnderstandInv'
  BY <1>2, EncryptInStep
<1>3. CASE UNCHANGED <<established, ratchets>>
  <2>1. UNCHANGED established /\ sent' = sent /\ session' = session
        /\ generated' = generated /\ opened' = opened
    BY <1>3 DEF ratchets
  <2>2. Handles' = Handles /\ \A x : End(x)' = End(x)
    BY <2>1, Steady
  <2>3. Carried' = Carried
    BY <2>1, <2>2 DEF Carried
  <2>4. \A f \in Carried' : InOrder(f)'
    BY <2>3, InOrderKept DEF UnderstandInv
  <2>5. ASSUME NEW h \in Handles PROVE InStep(session[h], generated[h], opened[h], h)'
    <3>1. PICK u : u = session[h]
      OBVIOUS
    <3>2. PICK d : d = generated[h]
      OBVIOUS
    <3>3. PICK o : o = opened[h]
      OBVIOUS
    <3>4. InStep(u, d, o, h)
      BY <3>1, <3>2, <3>3 DEF UnderstandInv
    <3>5. InStep(u, d, o, h)'
      BY <2>2, <2>3, <3>4, InStepKept
    <3> QED BY <2>1, <3>1, <3>2, <3>3, <3>5
  <2>6. Bounded'
    BY <2>3 DEF UnderstandInv, Bounded
  <2> QED BY <2>2, <2>4, <2>5, <2>6 DEF UnderstandInv
<1>4. ASSUME NEW h \in Handles, Copy(h) PROVE UnderstandInv'
  BY <1>3, <1>4 DEF Copy
<1>5. ASSUME NEW h \in Handles, NEW f \in Carried, DecryptWithKeyOnHand(h, f) PROVE UnderstandInv'
  BY <1>5, KeyOnHandInStep
<1>6. ASSUME NEW h \in Handles, NEW f \in Carried, DecryptAfterRatchetStep(h, f) PROVE UnderstandInv'
  BY <1>6, RatchetStepInStep
<1>7. CASE UNCHANGED vars
  BY <1>3, <1>7 DEF vars, established, ratchets
<1> QED BY <1>1, <1>2, <1>4, <1>5, <1>6, <1>7, Zenon DEF Next

\* As long as no limit binds, each session has the keys of all that its peer has
\* sealed and that it has not opened, or is on the way to them.
THEOREM UnderstandInvariant ==
  ASSUME FewFrames
  PROVE  Spec => [](TalkInv /\ UnderstandInv)
<1>1. Init => TalkInv /\ UnderstandInv
  BY InitTalkInv, InitUnderstandInv
<1>2. TalkInv /\ UnderstandInv /\ [Next]_vars => (TalkInv /\ UnderstandInv)'
  BY StepTalkInv, StepUnderstandInv
<1> QED BY <1>1, <1>2, PTL DEF Spec

-----------------------------------------------------------------------------
(* What partners seal opens *)

\* A skip over numbers that were all sealed is within the limits.
LEMMA SkipIsShort ==
  ASSUME CarriedInv, FewFrames, NEW q, NEW length, NEW N \in Nat,
         \A n \in Nat : n < N => SealedAt(q, length, n)
  PROVE  N <= CHAIN_LIMIT /\ N <= MAX_SKIP_PER_CHAIN
<1>1. /\ MAX_SKIP_PER_CHAIN \in Nat /\ CHAIN_LIMIT \in Nat /\ MaxFrames \in Nat
      /\ MaxFrames <= MAX_SKIP_PER_CHAIN \/ CHAIN_LIMIT <= MAX_SKIP_PER_CHAIN
      /\ IsFiniteSet(Carried) /\ Cardinality(Carried) <= MaxFrames
  BY LimitsAssumption, FramesAssumption DEF FewFrames, CarriedInv, Bounded
<1>2. N <= CHAIN_LIMIT
  <2> SUFFICES ASSUME CHAIN_LIMIT < N PROVE FALSE
    BY <1>1
  <2>1. PICK x \in Carried : x.key.number = CHAIN_LIMIT
    BY <1>1 DEF SealedAt
  <2>2. x.key.number < CHAIN_LIMIT
    BY DEF CarriedInv, InOrder
  <2> QED BY <1>1, <2>1, <2>2
<1>3. N <= Cardinality(Carried) /\ Cardinality(Carried) \in Nat
  <2> DEFINE numbers == 0..N - 1
             frameOf == [n \in numbers |-> CHOOSE x \in Carried : x.key.number = n]
  <2>1. ASSUME NEW n \in numbers PROVE \E x \in Carried : x.key.number = n
    <3>1. n \in Nat /\ n < N
      OBVIOUS
    <3>2. SealedAt(q, length, n)
      BY <3>1
    <3> QED BY <3>2 DEF SealedAt
  <2>2. \A n \in numbers : frameOf[n] \in Carried /\ frameOf[n].key.number = n
    BY <2>1
  <2>3. frameOf \in [numbers -> Carried]
    BY <2>1
  <2>4. IsFiniteSet(numbers) /\ Cardinality(numbers) = N
    <3>1. IsFiniteSet(numbers) /\ Cardinality(numbers) = IF 0 > N - 1 THEN 0 ELSE N - 1 - 0 + 1
      BY FS_Interval
    <3> QED BY <3>1
  <2> HIDE DEF frameOf, numbers
  <2>5. \A m, n \in numbers : frameOf[m] = frameOf[n] => m = n
    BY <2>2
  <2>6. /\ Cardinality(numbers) <= Cardinality(Carried)
        /\ Cardinality(Carried) \in Nat
    BY <1>1, <2>3, <2>5, NoMoreThan
  <2> QED BY <2>4, <2>6
<1>4. N <= MAX_SKIP_PER_CHAIN
  BY <1>1, <1>2, <1>3
<1> QED BY <1>2, <1>4

LEMMA NumberIsOk ==
  ASSUME CarriedInv, FewFrames, NEW f \in Carried, NEW next \in Nat, ~(f.key.number < next)
  PROVE  NumberResult(next, f.header.message_number) = "Ok"
<1>1. f.key.number \in Nat /\ f.header.message_number = f.key.number
  BY FrameFacts DEF CarriedInv
<1>2. /\ f.key.number < CHAIN_LIMIT
      /\ \A n \in Nat : n < f.key.number => SealedAt(f.plaintext[1], Len(f.key.chain), n)
  BY DEF CarriedInv, InOrder
<1>3. f.key.number <= CHAIN_LIMIT /\ f.key.number <= MAX_SKIP_PER_CHAIN
  BY <1>1, <1>2, SkipIsShort
<1>4. SkipTo(next, f.key.number) = "Ok"
  BY <1>1, <1>3, LimitsAssumption DEF SkipTo
<1> QED BY <1>1, <1>2, <1>4, LimitsAssumption DEF NumberResult

LEMMA PreviousIsOk ==
  ASSUME CarriedInv, FewFrames, NEW f \in Carried, NEW s, s.receiving # None => s.receiving.next \in Nat
  PROVE  PreviousResult(s, f) = "Ok"
<1>1. f.header.previous_chain_len \in Nat
  BY FrameFacts DEF CarriedInv
<1>2. \A n \in Nat : n < f.header.previous_chain_len => SealedAt(f.plaintext[1], Len(f.key.chain) - 2, n)
  BY DEF CarriedInv, InOrder
<1> DEFINE N == f.header.previous_chain_len
<1> HIDE DEF N
<1>3. N \in Nat /\ \A n \in Nat : n < N => SealedAt(f.plaintext[1], Len(f.key.chain) - 2, n)
  BY <1>1, <1>2 DEF N
<1>4. N <= CHAIN_LIMIT /\ N <= MAX_SKIP_PER_CHAIN
  <2>1. PICK q : q = f.plaintext[1]
    OBVIOUS
  <2>2. PICK l : l = Len(f.key.chain) - 2
    OBVIOUS
  <2>3. \A n \in Nat : n < N => SealedAt(q, l, n)
    BY <1>3, <2>1, <2>2
  <2> QED BY <1>3, <2>3, SkipIsShort
<1>5. s.receiving # None => SkipTo(s.receiving.next, N) = "Ok"
  BY <1>3, <1>4, LimitsAssumption DEF SkipTo
<1> QED BY <1>5 DEF PreviousResult, N

\* Frames whose key is in the store open with it.
LEMMA StoredOpens ==
  ASSUME CarriedInv, NEW s, NEW q, Stores(s.skipped, q), NEW f \in Carried, f.key \in Keys(s.skipped),
         NEW fresh
  PROVE  DecryptResult(s, f, fresh) = "Ok"
<1>0. TalkInv
  BY DEF CarriedInv
<1>1. PICK i \in DOMAIN s.skipped : s.skipped[i].key = f.key
  BY DEF Keys
<1>2. PICK x \in Carried : s.skipped[i] = Entry(x)
  BY DEF Stores
<1>3. x = f
  BY <1>0, <1>1, <1>2, OneKey DEF Entry
<1>4. f.header.message_number = f.key.number /\ f.aad = f.header
  BY <1>0, FrameFacts
<1> DEFINE M == Matches(s.skipped, f.header)
           p == Position(s.skipped, f.header)
<1>5. i \in M /\ M \in SUBSET Nat
  BY <1>2, <1>3, <1>4 DEF Matches, Entry, Stores
<1>6. p \in M
  <2>1. p = Min(M)
    BY DEF Position
  <2> HIDE DEF M, p
  <2> QED BY <1>5, <2>1, MinFirst
<1>7. p \in DOMAIN s.skipped /\ s.skipped[p].ratchet = f.header.ratchet /\ s.skipped[p].number = f.key.number
  BY <1>4, <1>6 DEF Matches
<1> HIDE DEF p
<1>8. PICK y \in Carried : s.skipped[p] = Entry(y)
  BY <1>7 DEF Stores
<1>9. y.key = f.key
  BY <1>0, <1>7, <1>8, OneRatchet DEF Entry
<1>10. s.skipped[p].key = f.key
  BY <1>8, <1>9 DEF Entry
<1>11. SkippedResult(s, f) = "Ok"
  BY <1>4, <1>10 DEF SkippedResult, OpenResult, Opens, p
<1>12. IsSkipped(s, f)
  BY <1>5 DEF IsSkipped
<1> QED BY <1>11, <1>12 DEF DecryptResult, InReceivingChain, AfterRatchetStep

\* On the chain that a session is in, whatever it has not gone past opens.
LEMMA OnChainOpens ==
  ASSUME CarriedInv, FewFrames, NEW s, NEW done, NEW last \in Carried, Follows(s, done, last),
         s.receiving # None, s.receiving.next \in Nat,
         NEW f \in Carried, f.plaintext[1] = last.plaintext[1], Len(f.key.chain) = Len(s.root_key) - 1,
         ~(f.key.number < s.receiving.next), NEW fresh
  PROVE  DecryptResult(s, f, fresh) = "Ok"
<1>0. TalkInv
  BY DEF CarriedInv
<1>1. /\ last.key = KeyOf(s.receiving.key, s.receiving.next - 1)
      /\ last.header.ratchet = s.remote_ratchet
      /\ Len(last.key.chain) = Len(s.root_key) - 1
      /\ Stores(s.skipped, last.plaintext[1])
      /\ \A i \in DOMAIN s.skipped :
           Len(s.skipped[i].key.chain) = Len(s.root_key) - 1 => s.skipped[i].number < s.receiving.next
  BY DEF Follows
<1>2. f.key.chain = s.receiving.key /\ f.header.ratchet = s.remote_ratchet
  <2>1. f.key.chain = last.key.chain /\ f.header.ratchet = last.header.ratchet
    BY <1>0, <1>1, OneChain
  <2> QED BY <1>1, <2>1 DEF KeyOf
<1>3. f.header.message_number = f.key.number /\ f.aad = f.header /\ f.key = KeyOf(f.key.chain, f.key.number)
  BY <1>0, FrameFacts
<1>4. ~IsSkipped(s, f)
  <2> SUFFICES ASSUME NEW i \in DOMAIN s.skipped, s.skipped[i].ratchet = f.header.ratchet,
                      s.skipped[i].number = f.key.number
               PROVE  FALSE
    BY <1>3 DEF IsSkipped, Matches
  <2>1. PICK x \in Carried : s.skipped[i] = Entry(x)
    BY <1>1 DEF Stores
  <2>2. x.key.chain = f.key.chain
    BY <1>0, <2>1, OneRatchet DEF Entry
  <2>3. Len(s.skipped[i].key.chain) = Len(s.root_key) - 1
    BY <2>1, <2>2 DEF Entry
  <2> QED BY <1>1, <2>3
<1>5. NumberResult(s.receiving.next, f.header.message_number) = "Ok"
  BY NumberIsOk
<1>6. OpenResult(KeyOf(s.receiving.key, f.header.message_number), f) = "Ok"
  BY <1>2, <1>3 DEF OpenResult, Opens
<1>7. ReceivingResult(s, f) = "Ok"
  BY <1>5, <1>6 DEF ReceivingResult
<1> QED BY <1>2, <1>4, <1>7 DEF DecryptResult, InReceivingChain, AfterRatchetStep

\* So does whatever is on the chain after it.
LEMMA AfterStepOpens ==
  ASSUME CarriedInv, FewFrames, NEW s, NEW done, NEW f \in Carried, ReadyFor(s, done, f.plaintext[1]),
         s.receiving = None => s.remote_ratchet # f.header.ratchet,
         f.key.chain = KdfRoot(s.root_key, s.own_ratchet, f.header.ratchet),
         f.header.ratchet # LowOrder, NEW fresh, fresh # None
  PROVE  DecryptResult(s, f, fresh) = "Ok"
<1>0. TalkInv
  BY DEF CarriedInv
<1>1. Len(s.root_key) \in Nat /\ Len(f.key.chain) = Len(s.root_key) + 1
  BY SeqAppend DEF ReadyFor, KdfRoot
<1>2. f.header.message_number = f.key.number /\ f.aad = f.header /\ f.key = KeyOf(f.key.chain, f.key.number)
  BY <1>0, FrameFacts
<1>3. ASSUME s.receiving # None
      PROVE  s.receiving.next \in Nat /\ s.remote_ratchet # f.header.ratchet /\ ~IsSkipped(s, f)
  <2>1. PICK last \in Carried : Follows(s, done, last)
    BY <1>3 DEF ReadyFor
  <2>2. /\ last.header.ratchet = s.remote_ratchet /\ Len(last.key.chain) = Len(s.root_key) - 1
        /\ Stores(s.skipped, last.plaintext[1])
    BY <2>1 DEF Follows
  <2>3. s.remote_ratchet # f.header.ratchet
    <3> SUFFICES ASSUME s.remote_ratchet = f.header.ratchet PROVE FALSE
      OBVIOUS
    <3>1. last.key.chain = f.key.chain
      BY <1>0, <2>2, OneRatchet
    <3> QED BY <1>1, <2>2, <3>1
  <2>4. ~IsSkipped(s, f)
    <3> SUFFICES ASSUME NEW i \in DOMAIN s.skipped, s.skipped[i].ratchet = f.header.ratchet
                 PROVE  FALSE
      BY DEF IsSkipped, Matches
    <3>1. PICK x \in Carried : s.skipped[i] = Entry(x)
      BY <2>2 DEF Stores
    <3>2. x.key.chain = f.key.chain
      BY <1>0, <3>1, OneRatchet DEF Entry
    <3>3. Len(s.skipped[i].key.chain) = Len(s.root_key) + 1
      BY <1>1, <3>1, <3>2 DEF Entry
    <3>4. Len(s.skipped[i].key.chain) < Len(s.root_key)
      BY DEF ReadyFor
    <3> QED BY <1>1, <3>3, <3>4
  <2> QED BY <1>3, <2>3, <2>4 DEF ReadyFor
<1>4. ASSUME s.receiving = None
      PROVE  s.remote_ratchet # f.header.ratchet /\ ~IsSkipped(s, f)
  <2>1. DOMAIN s.skipped = {}
    BY <1>4 DEF ReadyFor
  <2> QED BY <1>4, <2>1 DEF IsSkipped, Matches
<1>5. AfterRatchetStep(s, f)
  BY <1>3, <1>4 DEF AfterRatchetStep
<1>6. PreviousResult(s, f) = "Ok"
  BY <1>3, PreviousIsOk
<1>7. NumberResult(0, f.header.message_number) = "Ok"
  <2>1. f.key.number \in Nat
    BY <1>0, FrameFacts
  <2>2. ~(f.key.number < 0)
    BY <2>1
  <2> QED BY <2>2, NumberIsOk
<1>8. OpenResult(KeyOf(KdfRoot(s.root_key, s.own_ratchet, f.header.ratchet), f.header.message_number), f) = "Ok"
  BY <1>2 DEF OpenResult, Opens
<1>9. StepResult(s, f, fresh) = "Ok"
  BY <1>6, <1>7, <1>8 DEF StepResult
<1> QED BY <1>5, <1>9 DEF DecryptResult, InReceivingChain, AfterRatchetStep

\* Two sessions g and h, with the same view, that nobody else talks to, are the ends
\* of one talk: a is the end that started it, and b the other.
Partners(g, h, a, b) ==
  /\ g \in Handles /\ h \in Handles /\ g[1] # h[1]
  /\ g[1] \in {"start", "answer"} /\ h[1] \in {"start", "answer"}
  /\ \E k \in Handles :
       /\ Talking(g, k) /\ Talking(h, k) /\ Paired(h, k) /\ Peer(g, k) = h /\ Peer(h, k) = g
       /\ End(k) = b
  /\ StartEnd(g) = a /\ StartEnd(h) = a /\ a[3] = b[3]
  /\ a = (IF g[1] = "start" THEN End(g) ELSE End(h))
  /\ b = (IF g[1] = "start" THEN End(h) ELSE End(g))

LEMMA PartnersTalk ==
  ASSUME TalkInv, NEW x \in Handles, NEW y \in Handles, x[1] = "start", y[1] = "answer",
         X!SameView(starts[x[2]], answers[y[2]]),
         \A k \in Handles \ {x, y} : Established(k).message # Established(y).message
  PROVE  /\ Partners(x, y, End(x), End(y)) /\ Partners(y, x, End(x), End(y))
         /\ End(x)[3] = X!SignedPrekey(OwnerOf(y))
<1>1. EstablishedInv
  BY DEF TalkInv
<1>2. /\ x[2] \in DOMAIN starts /\ Established(x) = starts[x[2]]
      /\ y[2] \in DOMAIN answers /\ Established(y) = answers[y[2]]
  BY <1>1, HandleFacts
<1>3. X!KeysAgreeExactlyOnOneView
  BY <1>1, SameAgreement, XP!AgreeFromInv, AlteredAssumption, BoundsAssumption, NamesAssumption
     DEF EstablishedInv
<1>4. Established(x).key = Established(y).key
  BY <1>2, <1>3 DEF X!KeysAgreeExactlyOnOneView
<1>5. SharedKey(x) = x /\ SharedKey(y) = x
  BY <1>1, <1>4, SharedKeyTells, Roles
<1>6. StartEnd(x) = End(x) /\ StartEnd(y) = End(x)
  BY <1>5 DEF StartEnd
<1>7. End(x)[3] = X!SignedPrekey(OwnerOf(y)) /\ End(y)[3] = X!SignedPrekey(OwnerOf(y))
  <2>1. starts[x[2]].bundle = X!Bundle(answers[y[2]].responder, answers[y[2]].one_time_prekey)
    BY DEF X!SameView
  <2>2. starts[x[2]].bundle.signed_prekey = X!SignedPrekey(answers[y[2]].responder)
    BY <2>1 DEF X!Bundle
  <2>3. OwnerOf(y) = answers[y[2]].responder
    BY <1>2 DEF OwnerOf
  <2> QED BY <1>2, <2>2, <2>3 DEF End
<1>8. Talking(y, y) /\ Peer(y, y) = x /\ Paired(y, y)
  <2>1. PICK k \in Handles : Talking(y, k)
    BY DEF TalkInv
  <2>2. k = y
    BY <2>1 DEF Talking
  <2>3. Peer(y, y) = x
    BY <1>5 DEF Peer
  <2> QED BY <1>5, <2>1, <2>2, <2>3 DEF Paired
<1>9. Talking(x, y) /\ Peer(x, y) = y /\ Paired(x, y)
  <2>1. PICK k \in Handles : Talking(x, k)
    BY DEF TalkInv
  <2>2. Talking(x, y)
    <3>1. CASE SealsAt(x, generated[x] - 1) > 2
      <4>1. k \in Handles /\ k[1] # x[1] /\ SharedKey(k) = SharedKey(x)
        BY <2>1, <3>1 DEF Talking, Paired, Peer
      <4>2. Established(k).key = Established(y).key
        BY <1>1, <1>4, <4>1, SharedKeyTells
      <4>3. Established(k).message = Established(y).message
        BY <1>1, <4>1, <4>2, KeyTellsTheMessage
      <4>4. k = y
        BY <4>1, <4>3
      <4> QED BY <2>1, <4>4
    <3>2. CASE ~(SealsAt(x, generated[x] - 1) > 2)
      <4>1. generated[x] \in Nat /\ generated[x] >= 1
        BY <2>1 DEF Talking, Held
      <4>2. generated[x] = 1
        BY <3>2, <4>1 DEF SealsAt
      <4> QED BY <2>1, <4>2, TalkingWithAnyone
    <3> QED BY <3>1, <3>2
  <2>3. Peer(x, y) = y
    BY DEF Peer
  <2> QED BY <1>5, <2>2, <2>3 DEF Paired
<1>10. Partners(x, y, End(x), End(y))
  BY <1>6, <1>7, <1>8, <1>9 DEF Partners
<1>11. Partners(y, x, End(x), End(y))
  BY <1>6, <1>7, <1>8, <1>9 DEF Partners
<1> QED BY <1>7, <1>10, <1>11

\* A session's root key is at most one step ahead of its partner's.
LEMMA AtMostOneAhead ==
  ASSUME TalkInv, UnderstandInv, NEW g, NEW h, NEW a, NEW b, Partners(g, h, a, b), generated[g] # 0
  PROVE  Len(session[g].root_key) <= Len(session[h].root_key) + 1
<1>1. PICK k \in Handles : /\ Talking(g, k) /\ Talking(h, k) /\ Paired(h, k) /\ Peer(g, k) = h
                           /\ g \in Handles /\ h \in Handles
                           /\ g[1] \in {"start", "answer"} /\ h[1] \in {"start", "answer"}
  BY DEF Partners
<1>2. /\ generated[g] \in Nat /\ Len(session[g].root_key) = SealsAt(g, generated[g] - 1)
      /\ generated[h] \in Nat /\ Len(session[h].root_key) = SealsAt(h, generated[h] - 1)
      /\ h[1] = "start" => generated[h] >= 1
      /\ IsReceiving(session[g].receiving, g, StartEnd(g), End(k), generated[g])
  BY <1>1 DEF Talking, Held
<1>3. CASE session[g].receiving = None
  <2>1. generated[g] = Drawn(g)
    BY <1>1, <1>3 DEF UnderstandInv, InStep, Untouched
  <2>2. g[1] = "start" /\ generated[g] = 1
    BY <1>1, <2>1 DEF Drawn
  <2>3. Len(session[g].root_key) = 2
    BY <1>2, <2>2 DEF SealsAt
  <2>4. Len(session[h].root_key) \in Nat /\ Len(session[h].root_key) >= 1
    BY <1>1, <1>2, SMTT(30) DEF SealsAt
  <2> QED BY <2>3, <2>4
<1>4. CASE session[g].receiving # None
  <2>1. PICK last \in Carried : Follows(session[g], opened[g], last)
    BY <1>1, <1>4 DEF UnderstandInv, InStep
  <2>2. last.key.chain = session[g].receiving.key /\ Len(last.key.chain) = Len(session[g].root_key) - 1
    BY <2>1 DEF Follows, KeyOf
  <2>3. Incoming(last.key.chain, g, StartEnd(g), End(k), generated[g])
    BY <1>2, <1>4, <2>2 DEF IsReceiving
  <2>4. PICK n \in DOMAIN sent[h] : last = sent[h][n] /\ last.plaintext = <<h, n>>
    BY <1>1, <2>3, SealedByThePeer
  <2>5. last.plaintext[1] = h
    BY <2>4
  <2>6. PICK m \in Nat : m < generated[h] /\ Len(last.key.chain) = SealsAt(h, m)
    BY <2>5, FrameFacts
  <2>7. SealsAt(h, m) <= SealsAt(h, generated[h] - 1)
    BY <1>1, <1>2, <2>6 DEF SealsAt
  <2>8. SealsAt(g, generated[g] - 1) \in Int /\ SealsAt(h, generated[h] - 1) \in Int /\ SealsAt(h, m) \in Int
    <3>1. \A x : \A j \in Int : SealsAt(x, j) \in Int
      BY DEF SealsAt
    <3>2. generated[g] - 1 \in Int /\ generated[h] - 1 \in Int
      BY <1>2
    <3> QED BY <3>1, <3>2
  <2> QED BY <1>2, <2>2, <2>6, <2>7, <2>8
<1> QED BY <1>3, <1>4

\* The chain that the frame is on is the one that a step goes to.
LEMMA SameStep ==
  ASSUME TalkInv, NEW g, NEW h, NEW a, NEW b, Partners(g, h, a, b),
         NEW f \in Carried, f.plaintext[1] = g, Len(f.key.chain) = Len(session[h].root_key) + 1
  PROVE  f.key.chain = KdfRoot(session[h].root_key, session[h].own_ratchet, f.header.ratchet)
<1> DEFINE s == session[h]
           c == s.root_key
           e == generated[h]
           r == f.header.ratchet
           x == {s.own_ratchet, r}
<1>1. PICK k \in Handles : /\ Talking(g, k) /\ Talking(h, k) /\ End(k) = b
                           /\ g \in Handles /\ h \in Handles /\ g[1] # h[1]
                           /\ g[1] \in {"start", "answer"} /\ h[1] \in {"start", "answer"}
                           /\ StartEnd(g) = a /\ StartEnd(h) = a /\ a[3] = b[3]
                           /\ a = (IF g[1] = "start" THEN End(g) ELSE End(h))
                           /\ b = (IF g[1] = "start" THEN End(h) ELSE End(g))
  BY DEF Partners
<1>2. /\ IsSeq(c) /\ InTalk(c, a, b) /\ Len(c) = SealsAt(h, e - 1) /\ e \in Nat
      /\ h[1] = "start" => e >= 1
      /\ s.own_ratchet = IF e = 0 THEN b[3] ELSE KeyAt(OwnEnd(h, a, b), e - 1)
  BY <1>1 DEF Talking, Held
<1>3. PICK m \in Nat : Len(f.key.chain) = SealsAt(g, m) /\ r = RatchetKey(g, m)
  BY FrameFacts
<1>4. IsSeq(f.key.chain) /\ InTalk(f.key.chain, a, b)
  <2>1. PICK n \in DOMAIN sent[g] : f = sent[g][n]
    BY FrameFacts
  <2>2. SealedBy(sent[g][n], g, StartEnd(g), End(k), generated[g])
    BY <1>1 DEF Talking, Sealed
  <2> QED BY <1>1, <2>1, <2>2 DEF SealedBy
<1>5. Len(f.key.chain) = Len(c) + 1
  OBVIOUS
<1> HIDE DEF s, c, e, r
<1>6. InTalk(Append(c, x), a, b)
  <2>1. CASE h[1] = "start"
    <3>1. g[1] = "answer" /\ Len(c) = 2 * (e - 1) + 2 /\ e - 1 \in Nat /\ Len(f.key.chain) = 2 * m + 3
      BY <1>1, <1>2, <1>3, <2>1 DEF SealsAt
    <3>2. m = e - 1
      BY <1>5, <3>1
    <3>3. r = KeyAt(b, m)
      BY <1>1, <1>3, <3>1, EndOf
    <3>4. s.own_ratchet = KeyAt(a, m)
      BY <1>2, <2>1, <3>1, <3>2 DEF OwnEnd
    <3>5. Len(c) = 2 * m + 2 /\ x = {KeyAt(b, m), KeyAt(a, m)}
      BY <3>1, <3>2, <3>3, <3>4
    <3> HIDE DEF x
    <3> QED BY <1>2, <3>5, TalkGoesOn
  <2>2. CASE h[1] = "answer"
    <3>1. g[1] = "start" /\ Len(c) = 2 * e + 1 /\ Len(f.key.chain) = 2 * m + 2
      BY <1>1, <1>2, <1>3, <2>2 DEF SealsAt
    <3>2. m = e
      BY <1>2, <1>5, <3>1
    <3>3. r = KeyAt(a, m)
      BY <1>1, <1>3, <3>1, EndOf
    <3>4. CASE e = 0
      <4>1. Len(c) = 1 /\ x = {KeyAt(a, 0), a[3]}
        <5>1. s.own_ratchet = a[3]
          BY <1>1, <1>2, <3>4
        <5>2. r = KeyAt(a, 0)
          BY <3>2, <3>3, <3>4
        <5>3. Len(c) = 1
          BY <3>1, <3>4
        <5> QED BY <5>1, <5>2, <5>3
      <4> HIDE DEF x
      <4> QED BY <1>2, <4>1, TalkGoesOn
    <3>5. CASE e # 0
      <4>1. PICK j \in Nat : e = j + 1
        BY <1>2, <3>5
      <4>2. e - 1 = j /\ Len(c) = 2 * j + 3
        BY <3>1, <4>1
      <4>3. s.own_ratchet = KeyAt(b, j)
        BY <1>2, <2>2, <3>5, <4>2 DEF OwnEnd
      <4>4. x = {KeyAt(a, j + 1), KeyAt(b, j)}
        BY <3>2, <3>3, <4>1, <4>3
      <4> HIDE DEF x
      <4> QED BY <1>2, <4>2, <4>4, TalkGoesOn
    <3> QED BY <3>4, <3>5
  <2> QED BY <1>1, <2>1, <2>2
<1> HIDE DEF x
<1>7. IsSeq(Append(c, x)) /\ Len(Append(c, x)) = Len(c) + 1
  BY <1>2, SeqAppend
<1>8. f.key.chain = Append(c, x)
  BY <1>4, <1>5, <1>6, <1>7, TalkDetermined
<1> QED BY <1>8 DEF KdfRoot, c, s, r, x

LEMMA PartnersOpen ==
  ASSUME TalkInv, UnderstandInv, FewFrames, NEW g, NEW h, NEW a, NEW b, Partners(g, h, a, b),
         \E p : a[3] = X!SignedPrekey(p),
         NEW f \in Carried, f.plaintext[1] = g, f.plaintext \notin opened[h]
  PROVE  DecryptResult(session[h], f, RatchetKey(h, generated[h])) = "Ok"
<1>1. EstablishedInv /\ CarriedInv
  BY CarriedInOrder DEF TalkInv
<1>2. PICK k \in Handles : /\ Talking(g, k) /\ Talking(h, k) /\ Paired(h, k) /\ Peer(h, k) = g
                           /\ g \in Handles /\ h \in Handles /\ g[1] # h[1]
                           /\ g[1] \in {"start", "answer"} /\ h[1] \in {"start", "answer"}
                           /\ StartEnd(h) = a /\ (h[1] = "start" => a = End(h))
  BY DEF Partners
<1>3. /\ generated[g] \in Nat /\ Len(session[g].root_key) = SealsAt(g, generated[g] - 1)
      /\ generated[h] \in Nat /\ Len(session[h].root_key) = SealsAt(h, generated[h] - 1)
  BY <1>2 DEF Talking, Held
<1>4. PICK m \in Nat : /\ m < generated[g] /\ Len(f.key.chain) = SealsAt(g, m)
                       /\ f.header.ratchet = RatchetKey(g, m)
  BY FrameFacts
<1>5. Len(session[g].root_key) <= Len(session[h].root_key) + 1
  BY <1>3, <1>4, AtMostOneAhead
<1>6. /\ Len(f.key.chain) \in Nat /\ Len(session[h].root_key) \in Int
      /\ Len(f.key.chain) <= Len(session[h].root_key) + 1
      /\ Len(f.key.chain) # Len(session[h].root_key)
  <2>1. SealsAt(g, m) <= SealsAt(g, generated[g] - 1)
    BY <1>2, <1>3, <1>4 DEF SealsAt
  <2>2. SealsAt(g, m) # SealsAt(h, generated[h] - 1) /\ SealsAt(g, m) \in Nat
    BY <1>2, <1>3, PeersChains
  <2>3. SealsAt(g, generated[g] - 1) \in Int /\ SealsAt(h, generated[h] - 1) \in Int
    BY <1>2, <1>3, SMTT(30) DEF SealsAt
  <2> QED BY <1>3, <1>4, <1>5, <2>1, <2>2, <2>3
<1>7. ReadyFor(session[h], opened[h], g)
  BY <1>2, TalkIsReady
<1> DEFINE s == session[h]
           done == opened[h]
           fresh == RatchetKey(h, generated[h])
<1>8. fresh # None /\ f.header.ratchet # LowOrder /\ f.header.ratchet # None
  BY <1>1, <1>2, <1>3, <1>4, DrawnKeyType
<1>9. s.receiving = None => Untouched(s, generated[h], h)
  BY <1>2 DEF UnderstandInv, InStep
<1>10. Len(f.key.chain) = Len(s.root_key) + 1 =>
         f.key.chain = KdfRoot(s.root_key, s.own_ratchet, f.header.ratchet)
  BY SameStep
<1> HIDE DEF s, done, fresh
<1>10a. PICK length : length = Len(s.root_key)
  OBVIOUS
<1>10b. PICK l : l = Len(f.key.chain)
  OBVIOUS
<1>10c. l \in Nat /\ length \in Int /\ l <= length + 1 /\ l # length
  BY <1>6, <1>10a, <1>10b DEF s
<1>11. CASE Len(f.key.chain) = Len(s.root_key) + 1
  <2>1. ASSUME s.receiving = None PROVE s.remote_ratchet # f.header.ratchet
    <3>1. s.remote_ratchet = IF h[1] = "start" THEN End(h)[3] ELSE None
      BY <1>9, <2>1 DEF Untouched
    <3>2. CASE h[1] = "start"
      <4>1. PICK p : s.remote_ratchet = X!SignedPrekey(p)
        BY <1>2, <3>1, <3>2
      <4>2. \A x : X!SignedPrekey(x)[2] = "signed"
        BY DEF X!SignedPrekey
      <4>3. RatchetKey(g, m)[2] = "ratchet"
        BY DEF RatchetKey
      <4>4. s.remote_ratchet[2] = "signed" /\ f.header.ratchet[2] = "ratchet"
        BY <1>4, <4>1, <4>2, <4>3
      <4> QED BY <4>4
    <3>3. CASE h[1] = "answer"
      BY <1>8, <3>1, <3>3
    <3> QED BY <1>2, <3>2, <3>3
  <2>2. ReadyFor(s, done, f.plaintext[1])
    BY <1>7 DEF s, done
  <2>3. DecryptResult(s, f, fresh) = "Ok"
    BY <1>1, <1>8, <1>10, <1>11, <2>1, <2>2, AfterStepOpens
  <2> QED BY <2>3 DEF s, fresh
<1>12. CASE Len(f.key.chain) # Len(s.root_key) + 1
  <2>1. Len(f.key.chain) < Len(s.root_key)
    <3>1. l # length + 1
      BY <1>10a, <1>10b, <1>12
    <3>2. l < length
      BY <1>10c, <3>1
    <3> QED BY <1>10a, <1>10b, <3>2
  <2>2. s.receiving # None
    <3> SUFFICES ASSUME s.receiving = None PROVE FALSE
      OBVIOUS
    <3>1. Len(f.key.chain) >= Len(s.root_key)
      BY <1>7 DEF ReadyFor, s
    <3>2. l >= length /\ l < length
      BY <1>10a, <1>10b, <2>1, <3>1
    <3> QED BY <1>10c, <3>2
  <2>3. PICK last \in Carried : last.plaintext[1] = g /\ Follows(s, done, last)
    BY <1>7, <2>2 DEF ReadyFor, s, done
  <2>4. s.receiving.next \in Nat
    BY <1>7, <2>2 DEF ReadyFor, s
  <2>5. CASE Behind(s, f)
    <3>1. f.key \in Keys(s.skipped) /\ Stores(s.skipped, g)
      BY <2>3, <2>5 DEF Follows, done
    <3>2. DecryptResult(s, f, fresh) = "Ok"
      BY <1>1, <3>1, StoredOpens
    <3> QED BY <3>2 DEF s, fresh
  <2>6. CASE ~Behind(s, f)
    <3>1. Len(f.key.chain) = Len(s.root_key) - 1 /\ ~(f.key.number < s.receiving.next)
      <4>1. ~(l < length - 1) /\ l < length
        BY <1>10a, <1>10b, <2>1, <2>6 DEF Behind
      <4>2. l = length - 1
        BY <1>10c, <4>1
      <4> QED BY <1>10a, <1>10b, <2>6, <4>2 DEF Behind
    <3>2. DecryptResult(s, f, fresh) = "Ok"
      BY <1>1, <2>2, <2>3, <2>4, <3>1, OnChainOpens
    <3> QED BY <3>2 DEF s, fresh
  <2> QED BY <2>5, <2>6
<1> QED BY <1>11, <1>12

LEMMA PartnersUnderstandFromInv ==
  ASSUME FewFrames, TalkInv, UnderstandInv
  PROVE  PartnersUnderstandEachOther
<1> SUFFICES ASSUME NEW g \in Handles, NEW h \in Handles, SameView(g, h),
                    \A k \in Handles \ {g, h} : Established(k).message # Established(h).message,
                    NEW n \in DOMAIN sent[g], sent[g][n].plaintext \notin opened[h]
             PROVE  DecryptResult(session[h], sent[g][n], RatchetKey(h, generated[h])) = "Ok"
  BY DEF PartnersUnderstandEachOther
<1>1. EstablishedInv
  BY DEF TalkInv
<1>2. sent[g][n] \in Carried /\ sent[g][n].plaintext[1] = g
  <2>1. sent[g][n] \in {sent[g][i] : i \in DOMAIN sent[g]}
    OBVIOUS
  <2>2. sent[g][n] \in Carried
    BY <2>1 DEF Carried
  <2>3. PICK j \in Handles : Talking(g, j)
    BY DEF TalkInv
  <2>4. sent[g][n].plaintext = <<g, n>>
    BY <2>3 DEF Talking, Sealed
  <2> QED BY <2>2, <2>4
<1>3. \E a, b : Partners(g, h, a, b) /\ \E p : a[3] = X!SignedPrekey(p)
  <2>1. CASE g[1] = "start"
    <3>1. h[1] = "answer" /\ X!SameView(starts[g[2]], answers[h[2]])
      BY <2>1 DEF SameView
    <3> QED BY <2>1, <3>1, PartnersTalk
  <2>2. CASE g[1] # "start"
    <3>1. g[1] = "answer" /\ h[1] = "start" /\ X!SameView(starts[h[2]], answers[g[2]])
      BY <2>2 DEF SameView
    <3>2. Established(g).message = Established(h).message
      BY <1>1, <3>1, HandleFacts DEF X!SameView
    <3>3. \A k \in Handles \ {h, g} : Established(k).message # Established(g).message
      BY <3>2
    <3> QED BY <3>1, <3>3, PartnersTalk
  <2> QED BY <2>1, <2>2
<1>4. PICK a, b : Partners(g, h, a, b) /\ \E p : a[3] = X!SignedPrekey(p)
  BY <1>3
<1>5. PICK f \in Carried : f = sent[g][n]
  BY <1>2
<1> QED BY <1>2, <1>4, <1>5, PartnersOpen

\* Conversation.tla: PartnersUnderstandEachOther.  Whatever else the two parties do
\* and in whatever order their frames arrive, each frame between two sessions with
\* one view that no third shares has been opened or opens, provided that no limit
\* binds.
THEOREM ConversationPartnersUnderstand ==
  ASSUME FewFrames
  PROVE  Spec => []PartnersUnderstandEachOther
<1>1. TalkInv /\ UnderstandInv => PartnersUnderstandEachOther
  BY PartnersUnderstandFromInv
<1> QED BY <1>1, UnderstandInvariant, PTL

-----------------------------------------------------------------------------
(* The calls of initiate and respond go on as in X3dh *)

LEMMA StepImplementsX3dh == [Next]_vars => [X!Next]_X!vars
<1> SUFFICES ASSUME [Next]_vars PROVE X!Next \/ UNCHANGED X!vars
  OBVIOUS
<1>1. CASE Establish
  BY <1>1 DEF Establish, X!Next
<1>2. ASSUME NEW h \in Handles,
             \/ Encrypt(h) \/ Copy(h)
             \/ \E f \in Carried : DecryptWithKeyOnHand(h, f) \/ DecryptAfterRatchetStep(h, f)
      PROVE  UNCHANGED established
  BY <1>2 DEF Encrypt, Copy, DecryptWithKeyOnHand, DecryptAfterRatchetStep, Returns
<1>3. CASE UNCHANGED vars
  BY <1>3 DEF vars, X!vars
<1>4. CASE UNCHANGED established
  BY <1>4 DEF established, X!vars
<1> QED BY <1>1, <1>2, <1>3, <1>4 DEF Next

\* The sessions opened leave the calls of initiate and respond as they were: each
\* step is one of X3dh or leaves its variables alone, so its theorems hold here.
THEOREM ConversationImplementsX3dh == Spec => X!Spec
<1>1. Init => X!Init
  BY DEF Init
<1> QED BY <1>1, StepImplementsX3dh, PTL DEF Spec, X!Spec

=============================================================================
