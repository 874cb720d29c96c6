----------------------------- MODULE Conversation -----------------------------
(***************************************************************************)
(* All the sessions a pair of devices has open: X3dh composed with ratchet *)
(* sessions.  Each call of initiate or respond that succeeds gives its     *)
(* caller a session, so there may be several between the same two parties, *)
(* in both directions, and an initial message that arrives twice is        *)
(* answered twice.  Frames name no session: any session may be handed any  *)
(* frame, any number of times.                                             *)
(*                                                                         *)
(* One session may be copied, keys and all.  The copy is only looked at.   *)
(***************************************************************************)
EXTENDS RatchetSession

CONSTANTS
  Party, OneTime, Altered, Foreign, MaxStarts, MaxAnswers,  \* as in X3dh
  MaxFrames      \* bound: frames sealed by all sessions together

ASSUME FramesAssumption == MaxFrames \in Nat

\* What X3dh assumes of its constants.
ASSUME AlteredAssumption ==
  Altered \subseteq {"bundle", "identity", "ephemeral", "kem_ciphertext"}

ASSUME BoundsAssumption == MaxStarts \in Nat /\ MaxAnswers \in Nat

ASSUME NamesAssumption == Foreign \notin Party /\ OneTime \subseteq Nat

VARIABLES
  starts, answers, drawn,  \* as in X3dh
  session,    \* session[h]: the Session made after start or answer h
  generated,  \* generated[h]: how many ratchet keys it has drawn
  sent,       \* sent[h]: the frames it has sealed, in order
  opened,     \* opened[h]: the plaintexts it has returned (history)
  copy        \* the copied session and what it did since (history), or None

established == <<starts, answers, drawn>>
ratchets == <<session, generated, sent, opened>>
vars == <<starts, answers, drawn, session, generated, sent, opened, copy>>

X == INSTANCE X3dh

-----------------------------------------------------------------------------
(* Sessions and their keys *)

Handles == ({"start"} \X DOMAIN starts) \cup ({"answer"} \X DOMAIN answers)

Established(h) == IF h[1] = "start" THEN starts[h[2]] ELSE answers[h[2]]

OwnerOf(h) ==
  IF h[1] = "start" THEN Established(h).initiator ELSE Established(h).responder

\* The n-th key that session h draws with PrivateKey::generate.
RatchetKey(h, n) == <<OwnerOf(h), "ratchet", h, n>>

AnyRatchetKey == Party \X {"ratchet"} \X ({"start", "answer"} \X Nat) \X Nat

\* No key pair that generate returns is one of low order.
ASSUME KeysAssumption == LowOrder \notin AnyRatchetKey /\ None \notin AnyRatchetKey

\* A chain key is a shared key and the secrets joined to it.
AnyChain ==
  [key : Seq(({"start", "answer"} \X Nat) \cup SUBSET (AnyRatchetKey \cup X!DhPublic)),
   next : Nat]

ASSUME NoneAssumption == None \notin AnyChain

\* Only the equality of shared keys matters from here on: a key is named by the
\* first call that returned it.
SharedKey(h) ==
  LET same == {g \in Handles : Established(g).key = Established(h).key}
      first == {g \in same : \A k \in same : k[1] = "start" => g[1] = "start"}
  IN  CHOOSE g \in first : \A k \in first : g[2] <= k[2]

\* Session::initiator or Session::responder, with the key the call returned.
Opening(h) ==
  IF h[1] = "start"
  THEN InitiatorSession(<<SharedKey(h)>>, RatchetKey(h, 0), Established(h).bundle.signed_prekey)
  ELSE ResponderSession(<<SharedKey(h)>>, X!SignedPrekey(OwnerOf(h)))

Carried == UNION {{sent[h][n] : n \in DOMAIN sent[h]} : h \in Handles}

FramesSealed == Cardinality(Carried)

-----------------------------------------------------------------------------
(* Steps *)

Init ==
  /\ X!Init
  /\ session = << >> /\ generated = << >> /\ sent = << >> /\ opened = << >>
  /\ copy = None

\* A call of initiate or respond, and the session it gives if it succeeds.
Establish ==
  /\ X!Start \/ X!Answer
  /\ session' = [h \in Handles' |-> IF h \in Handles THEN session[h] ELSE Opening(h)']
  /\ generated' = [h \in Handles' |-> IF h \in Handles THEN generated[h]
                                      ELSE IF h[1] = "start" THEN 1 ELSE 0]
  /\ sent' = [h \in Handles' |-> IF h \in Handles THEN sent[h] ELSE << >>]
  /\ opened' = [h \in Handles' |-> IF h \in Handles THEN opened[h] ELSE {}]
  /\ UNCHANGED copy

\* encrypt: the plaintext is named by the session and the call.
Encrypt(h) ==
  /\ FramesSealed < MaxFrames
  /\ CanSend(session[h])
  /\ sent' = [sent EXCEPT ![h] = Append(@, SealedFrame(session[h], <<h, Len(@) + 1>>))]
  /\ session' = [session EXCEPT ![h] = AfterSealing(session[h])]
  /\ UNCHANGED <<established, generated, opened, copy>>

Returns(h, f) ==
  /\ opened' = [opened EXCEPT ![h] = @ \cup {f.plaintext}]
  /\ UNCHANGED <<established, sent>>

DecryptWithKeyOnHand(h, f) ==
  LET s == session[h]
  IN  /\ DecryptResult(s, f, None) = "Ok"
      /\ session' = [session EXCEPT ![h] = IF IsSkipped(s, f) THEN AfterStoredKey(s, f.header)
                                           ELSE AfterReceiving(s, f.header)]
      /\ Returns(h, f)
      /\ UNCHANGED <<generated, copy>>

\* The copied session has made a ratchet step.
Noted(h) == IF copy # None /\ copy.of = h /\ copy.stepped = None
            THEN [copy EXCEPT !.stepped = Len(sent[h])] ELSE copy

DecryptAfterRatchetStep(h, f) ==
  LET s == session[h]
      fresh == RatchetKey(h, generated[h])
  IN  /\ AfterRatchetStep(s, f)
      /\ StepResult(s, f, fresh) = "Ok"
      /\ session' = [session EXCEPT ![h] = RatchetStep(s, f.header, fresh)]
      /\ generated' = [generated EXCEPT ![h] = @ + 1]
      /\ copy' = Noted(h)
      /\ Returns(h, f)

\* Somebody comes to know all that session h holds now.
Copy(h) ==
  /\ copy = None
  /\ copy' = [of |-> h, state |-> session[h], stepped |-> None]
  /\ UNCHANGED <<established, ratchets>>

\* A call that fails leaves everything as it was, which is a stuttering step.
Next ==
  \/ Establish
  \/ \E h \in Handles :
       \/ Encrypt(h)
       \/ Copy(h)
       \/ \E f \in Carried :
            DecryptWithKeyOnHand(h, f) \/ DecryptAfterRatchetStep(h, f)

Spec == Init /\ [][Next]_vars

-----------------------------------------------------------------------------
(* Properties *)

\* Types: every session has its histories, no plaintext comes out of nowhere, and
\* no chain outgrows its limit (QW-P-E2E-068).
TypeOK ==
  /\ X!TypeOK
  /\ DOMAIN session = Handles /\ DOMAIN generated = Handles
  /\ DOMAIN sent = Handles /\ DOMAIN opened = Handles
  /\ \A h \in Handles :
       /\ generated[h] \in Nat
       /\ session[h].sending # None => session[h].sending.next \in 0..CHAIN_LIMIT
       /\ opened[h] \subseteq {f.plaintext : f \in Carried}
  /\ copy # None => copy.of \in Handles /\ copy.stepped \in Nat \cup {None}

\* The start that session h goes back to: its own, or that of its initial message.
Origin(h) ==
  IF h[1] = "start" THEN h[2]
  ELSE CHOOSE i \in DOMAIN starts : starts[i].message = Established(h).message

SameView(g, h) ==
  \/ g[1] = "start" /\ h[1] = "answer" /\ X!SameView(starts[g[2]], answers[h[2]])
  \/ g[1] = "answer" /\ h[1] = "start" /\ X!SameView(starts[h[2]], answers[g[2]])

\* A session opens frames of one other session only, whoever else is talking to
\* its owner: one whose owner took the other role and has the same view of both
\* identities, the prekeys and the initial message.  If a repeated initial message
\* was answered twice, the initiator goes on with one of the answers.
OpensOnlyItsPartner ==
  \A h \in Handles :
    /\ \A plaintext \in opened[h] : SameView(plaintext[1], h)
    /\ Cardinality({plaintext[1] : plaintext \in opened[h]}) <= 1

\* ADR-0020 needs a message key to seal one frame: no two frames of any sessions,
\* not even of those that answer the same initial message, have the same key.
NoKeySealsTwoFrames ==
  \A f, g \in Carried : f.key = g.key => f.plaintext = g.plaintext

\* Two parties with the same view can talk: as long as an initial message has been
\* answered once, each frame between its two sessions opens, in any order and
\* whatever the other sessions of the pair do.
PartnersUnderstandEachOther ==
  \A g, h \in Handles :
    (SameView(g, h) /\ \A k \in Handles \ {g, h} : Established(k).message # Established(h).message) =>
      \A n \in DOMAIN sent[g] :
        sent[g][n].plaintext \in opened[h] \/
          DecryptResult(session[h], sent[g][n], RatchetKey(h, generated[h])) = "Ok"

\* QW-P-E2E-066, for copies too: all that a session holds leads to no message key
\* of a session that goes back to another start.
CopyStaysInItsSession ==
  copy # None =>
    \A h \in Handles : Origin(h) # Origin(copy.of) =>
      \A n \in DOMAIN sent[h] : ~Derivable(copy.state, sent[h][n].key)

\* QW-P-E2E-065: once the copied session has made a ratchet step, and the other
\* side has opened a frame sealed after it, the copy leads to nothing that either
\* seals from then on.
CopyHeals ==
  copy # None /\ copy.stepped # None =>
    \A h \in Handles :
      (/\ CanSend(session[h])
       /\ h = copy.of \/ \E p \in opened[h] : p[1] = copy.of /\ p[2] > copy.stepped) =>
        ~Derivable(copy.state, KeyOf(session[h].sending.key, session[h].sending.next))

=============================================================================
