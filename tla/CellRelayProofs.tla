---------------------------- MODULE CellRelayProofs ----------------------------
(***************************************************************************)
(* The promises of CellRelay, for any nodes, messages, flags and limits,   *)
(* and any number of alterations.                                          *)
(*                                                                         *)
(* Wherever a cell is, its body is the one that was sealed or damaged, and *)
(* its hop count, if no link touched it, is what its links have left.      *)
(***************************************************************************)
EXTENDS CellRelay, TLAPS

\* The bytes of a cell, read by somebody or not.
Bytes ==
  [length : Nat, version : Nat, flags : Flag, ttl : Nat, copies : Nat, tag : Message,
   nonce : Message, body : {None} \cup Body]

\* `links`, `ttl` and `body` are those of a cell of m on its way.
OnItsWay(m, links, ttl, intact, body) ==
  /\ m \in Message /\ sent[m] \in Cell /\ links \in Nat /\ ttl \in Nat
  /\ body = None \/ body = sent[m].body
  /\ intact => links + ttl = sent[m].ttl + 1

ParcelInv(p) ==
  /\ p \in [to : Node, bytes : Bytes, of : Message, links : Nat, intact : BOOLEAN]
  /\ OnItsWay(p.of, p.links, p.bytes.ttl, p.intact, p.bytes.body)

HeldInv(h) ==
  /\ h \in [cell : Cell, of : Message, links : Nat, intact : BOOLEAN]
  /\ OnItsWay(h.of, h.links, h.cell.ttl, h.intact, h.cell.body)

SentSealed == \A m \in Message : sent[m] # None => sent[m].body = Aad(sent[m])

RelayInv ==
  /\ sent \in [Message -> Cell \cup {None}]
  /\ SentSealed
  /\ \A p \in air : ParcelInv(p)
  /\ held \in [Node -> SUBSET [cell : Cell, of : Message, links : Nat, intact : BOOLEAN]]
  /\ \A n \in Node : \A h \in held[n] : HeldInv(h)

-----------------------------------------------------------------------------
(* Bytes and cells *)

LEMMA ReadCell ==
  ASSUME NEW bytes \in Bytes, Readable(bytes)
  PROVE  CellOf(bytes) \in Cell /\ CellOf(bytes).ttl = bytes.ttl /\ CellOf(bytes).body = bytes.body
BY BudgetAssumption DEF Bytes, Readable, InRange, CellOf, Cell

LEMMA WrittenBytes ==
  ASSUME NEW cell \in Cell
  PROVE  /\ ToBytes(cell) \in Bytes
         /\ ToBytes(cell).ttl = cell.ttl /\ ToBytes(cell).body = cell.body
BY BudgetAssumption DEF Bytes, ToBytes, Cell, VERSION

\* forwarded spends one hop of a cell and touches nothing else.
LEMMA OneHopSpent ==
  ASSUME NEW cell \in Cell, NEW next \in Forwarded(cell)
  PROVE  next \in Cell /\ next.ttl + 1 = cell.ttl /\ next.body = cell.body
<1>1. cell.ttl \in 0..MAX_TTL /\ cell.ttl # 0 /\ next = [cell EXCEPT !.ttl = cell.ttl - 1]
  BY DEF Forwarded, Spent, Cell
<1>2. cell.ttl - 1 \in 0..MAX_TTL
  BY <1>1, BudgetAssumption
<1>3. next.ttl = cell.ttl - 1 /\ next.body = cell.body /\ next \in Cell
  BY <1>1, <1>2 DEF Cell
<1>4. QED
  BY <1>1, <1>3, BudgetAssumption

\* A link can make any bytes of a cell, except that it cannot seal a body.
LEMMA AlteredAreBytes ==
  ASSUME NEW bytes \in Bytes, NEW b \in AlteredBytes(bytes)
  PROVE  b \in Bytes /\ (b.body = None \/ b.body = bytes.body)
<1> DEFINE values == [length |-> {511}, version |-> {VERSION + 1}, flags |-> Flag,
                      ttl |-> 0 .. MAX_TTL + 1, copies |-> 0 .. MAX_COPIES + 1, tag |-> Message,
                      nonce |-> Message, body |-> {None}]
<1> DEFINE made == {{[bytes EXCEPT ![field] = v] : v \in values[field] \ {bytes[field]}} :
                       field \in Altered}
<1>0. b \in UNION made
  BY Zenon DEF AlteredBytes
<1> HIDE DEF values
<1>1. PICK field \in Altered : \E v \in values[field] \ {bytes[field]} : b = [bytes EXCEPT ![field] = v]
  BY <1>0, Zenon
<1> USE DEF values
<1>2. PICK v \in values[field] \ {bytes[field]} : b = [bytes EXCEPT ![field] = v]
  BY <1>1
<1>3. field \in {"length", "version", "flags", "ttl", "copies", "tag", "nonce", "body"}
  BY AlteredAssumption
<1>4. CASE field = "length"
  BY <1>2, <1>4 DEF Bytes
<1>5. CASE field = "version"
  BY <1>2, <1>5 DEF Bytes, VERSION
<1>6. CASE field = "flags"
  BY <1>2, <1>6 DEF Bytes
<1>7. CASE field = "ttl"
  BY <1>2, <1>7, BudgetAssumption DEF Bytes
<1>8. CASE field = "copies"
  BY <1>2, <1>8, BudgetAssumption DEF Bytes
<1>9. CASE field = "tag"
  BY <1>2, <1>9 DEF Bytes
<1>10. CASE field = "nonce"
  BY <1>2, <1>10 DEF Bytes
<1>11. CASE field = "body"
  BY <1>2, <1>11 DEF Bytes
<1>12. QED
  BY <1>3, <1>4, <1>5, <1>6, <1>7, <1>8, <1>9, <1>10, <1>11

-----------------------------------------------------------------------------
(* Steps *)

LEMMA InitRelayInv == Init => RelayInv
BY DEF Init, RelayInv, SentSealed

\* A cell that has just been built.
LEMMA BuiltCell ==
  ASSUME NEW m \in Message, NEW flags \in Flag, NEW ttl \in 0 .. MAX_TTL + 1,
         NEW copies \in 0 .. MAX_COPIES + 1, InRange(ttl, copies),
         NEW cell, cell = [flags |-> flags, ttl |-> ttl, copies |-> copies, tag |-> m, nonce |-> m,
                           body |-> <<VERSION, flags, m, m>>]
  PROVE  cell \in Cell /\ cell.body = Aad(cell) /\ cell.ttl = ttl
BY BudgetAssumption DEF InRange, Cell, Body, Aad

LEMMA SendStep ==
  ASSUME RelayInv, NEW m \in Message, NEW flags \in Flag, NEW ttl \in 0 .. MAX_TTL + 1,
         NEW copies \in 0 .. MAX_COPIES + 1, NEW to \in SUBSET Node, Send(m, flags, ttl, copies, to)
  PROVE  RelayInv'
<1> DEFINE unsealed == [flags |-> flags, ttl |-> ttl, copies |-> copies,
                        tag |-> m, nonce |-> m, body |-> None]
           cell == [unsealed EXCEPT !.body = Aad(unsealed)]
<1>1. /\ sent[m] = None /\ InRange(ttl, copies)
      /\ sent' = [sent EXCEPT ![m] = cell]
      /\ air' = air \cup {Parcel(n, ToBytes(cell), m, 1, TRUE) : n \in to}
      /\ held' = held
  BY DEF Send, Unsent
<1>2. cell = [flags |-> flags, ttl |-> ttl, copies |-> copies, tag |-> m, nonce |-> m,
              body |-> <<VERSION, flags, m, m>>]
  BY DEF Aad
<1> HIDE DEF cell
<1>3. cell \in Cell /\ cell.body = Aad(cell) /\ cell.ttl = ttl /\ ttl \in Nat
  BY <1>1, <1>2, BuiltCell, BudgetAssumption
<1>4. sent' \in [Message -> Cell \cup {None}] /\ sent'[m] = cell
  BY <1>1, <1>3 DEF RelayInv
<1>5. \A k \in Message : sent[k] # None => sent'[k] = sent[k]
  BY <1>1 DEF RelayInv
<1>6. SentSealed'
  <2> SUFFICES ASSUME NEW k \in Message, sent'[k] # None PROVE sent'[k].body = Aad(sent'[k])
    BY DEF SentSealed, Aad
  <2>1. CASE k = m
    BY <2>1, <1>3, <1>4
  <2>2. CASE k # m
    BY <2>2, <1>1 DEF RelayInv, SentSealed
  <2>3. QED
    BY <2>1, <2>2
<1>7. \A k, links, t, intact, body : OnItsWay(k, links, t, intact, body) =>
                                       OnItsWay(k, links, t, intact, body)'
  BY <1>5, NoneAssumption DEF OnItsWay
<1>8. ASSUME NEW n \in to PROVE ParcelInv(Parcel(n, ToBytes(cell), m, 1, TRUE))'
  <2> DEFINE p == Parcel(n, ToBytes(cell), m, 1, TRUE)
  <2>1. /\ p \in [to : Node, bytes : Bytes, of : Message, links : Nat, intact : BOOLEAN]
        /\ p.of = m /\ p.links = 1 /\ p.intact = TRUE /\ p.bytes = ToBytes(cell)
    BY <1>3, WrittenBytes DEF Parcel
  <2>2. p.bytes.ttl = ttl /\ p.bytes.body = cell.body
    BY <1>3, <2>1, WrittenBytes
  <2> HIDE DEF p
  <2>3. OnItsWay(p.of, p.links, p.bytes.ttl, p.intact, p.bytes.body)'
    BY <1>3, <1>4, <2>1, <2>2 DEF OnItsWay
  <2>4. QED
    BY <2>1, <2>3 DEF ParcelInv, p
<1>9. \A p \in air' : ParcelInv(p)'
  BY <1>1, <1>7, <1>8 DEF RelayInv, ParcelInv
<1>10. \A n \in Node : \A h \in held'[n] : HeldInv(h)'
  BY <1>1, <1>7 DEF RelayInv, HeldInv
<1>11. QED
  BY <1>1, <1>4, <1>6, <1>9, <1>10 DEF RelayInv

\* Sent cells, once sent, stay; so a step that sends none keeps what it leaves alone.
LEMMA OthersKeep ==
  ASSUME RelayInv, sent' = sent,
         \A p \in air' : p \in air \/ ParcelInv(p),
         held' \in [Node -> SUBSET [cell : Cell, of : Message, links : Nat, intact : BOOLEAN]],
         \A n \in Node : \A h \in held'[n] : h \in held[n] \/ HeldInv(h)
  PROVE  RelayInv'
<1>1. \A k, links, t, intact, body : OnItsWay(k, links, t, intact, body) =>
                                       OnItsWay(k, links, t, intact, body)'
  BY DEF OnItsWay
<1>2. \A p : ParcelInv(p) => ParcelInv(p)'
  BY <1>1 DEF ParcelInv
<1>3. \A h : HeldInv(h) => HeldInv(h)'
  BY <1>1 DEF HeldInv
<1>4. SentSealed'
  BY DEF RelayInv, SentSealed, Aad
<1>5. QED
  BY <1>2, <1>3, <1>4 DEF RelayInv

LEMMA ReceiveStep ==
  ASSUME RelayInv, NEW p \in air, Receive(p)
  PROVE  RelayInv'
<1> DEFINE h == [cell |-> CellOf(p.bytes), of |-> p.of, links |-> p.links, intact |-> p.intact]
<1>1. Readable(p.bytes) /\ air' = air \ {p} /\ sent' = sent
      /\ held' = [held EXCEPT ![p.to] = @ \cup {h}]
  BY DEF Receive
<1>2. ParcelInv(p)
  BY DEF RelayInv
<1>3. /\ p.bytes \in Bytes /\ p.of \in Message /\ p.links \in Nat /\ p.intact \in BOOLEAN
      /\ p.to \in Node
  BY <1>2 DEF ParcelInv
<1>4. CellOf(p.bytes) \in Cell /\ CellOf(p.bytes).ttl = p.bytes.ttl
      /\ CellOf(p.bytes).body = p.bytes.body
  BY <1>1, <1>3, ReadCell
<1>5. /\ h \in [cell : Cell, of : Message, links : Nat, intact : BOOLEAN]
      /\ h.of = p.of /\ h.links = p.links /\ h.intact = p.intact /\ h.cell = CellOf(p.bytes)
  BY <1>3, <1>4
<1> HIDE DEF h
<1>6. HeldInv(h)
  BY <1>2, <1>4, <1>5 DEF HeldInv, ParcelInv
<1>7. held' \in [Node -> SUBSET [cell : Cell, of : Message, links : Nat, intact : BOOLEAN]]
  BY <1>1, <1>3, <1>5 DEF RelayInv
<1>8. \A n \in Node : \A g \in held'[n] : g \in held[n] \/ g = h
  BY <1>1 DEF RelayInv
<1>9. QED
  BY <1>1, <1>6, <1>7, <1>8, OthersKeep

LEMMA PassOnStep ==
  ASSUME RelayInv, NEW n \in Node, NEW h \in held[n], NEW to \in SUBSET Node, PassOn(n, h, to)
  PROVE  RelayInv'
<1>1. PICK cell \in Forwarded(h.cell) :
        /\ held' = [held EXCEPT ![n] = @ \ {h}]
        /\ air' = air \cup {Parcel(r, ToBytes(cell), h.of, Longer(h.links), h.intact) : r \in to}
        /\ sent' = sent
  BY DEF PassOn
<1>2. HeldInv(h)
  BY DEF RelayInv
<1>3. h.cell \in Cell /\ h.of \in Message /\ h.links \in Nat /\ h.intact \in BOOLEAN
  BY <1>2 DEF HeldInv
<1>4. cell \in Cell /\ cell.ttl + 1 = h.cell.ttl /\ cell.body = h.cell.body
  BY <1>1, <1>3, OneHopSpent
<1>5. cell.ttl \in Nat /\ h.cell.ttl \in Nat /\ MAX_TTL \in Nat
  BY <1>3, <1>4, BudgetAssumption DEF Cell
<1>6. sent[h.of] \in Cell /\ sent[h.of].ttl \in Nat /\ sent[h.of].ttl <= MAX_TTL
  BY <1>2, BudgetAssumption DEF HeldInv, OnItsWay, Cell
<1>7. Longer(h.links) \in Nat /\ (h.intact => Longer(h.links) = h.links + 1)
  <2>1. h.intact => h.links + h.cell.ttl = sent[h.of].ttl + 1
    BY <1>2 DEF HeldInv, OnItsWay
  <2>2. h.intact => h.links <= MAX_TTL + 1
    BY <1>3, <1>5, <1>6, <2>1
  <2>3. QED
    BY <1>3, <1>5, <2>2 DEF Longer
<1>8. OnItsWay(h.of, Longer(h.links), cell.ttl, h.intact, cell.body)
  <2>1. OnItsWay(h.of, h.links, h.cell.ttl, h.intact, h.cell.body)
    BY <1>2 DEF HeldInv
  <2>2. h.intact => Longer(h.links) + cell.ttl = sent[h.of].ttl + 1
    <3>1. h.intact => h.links + h.cell.ttl = sent[h.of].ttl + 1
      BY <2>1 DEF OnItsWay
    <3>2. QED
      BY <1>3, <1>4, <1>5, <1>6, <1>7, <3>1
  <2>3. QED
    BY <1>4, <1>5, <1>7, <2>1, <2>2 DEF OnItsWay
<1>9. ASSUME NEW r \in to
      PROVE  ParcelInv(Parcel(r, ToBytes(cell), h.of, Longer(h.links), h.intact))
  <2> DEFINE p == Parcel(r, ToBytes(cell), h.of, Longer(h.links), h.intact)
  <2>1. /\ p \in [to : Node, bytes : Bytes, of : Message, links : Nat, intact : BOOLEAN]
        /\ p.of = h.of /\ p.links = Longer(h.links) /\ p.intact = h.intact
        /\ p.bytes = ToBytes(cell)
    BY <1>3, <1>4, <1>7, WrittenBytes DEF Parcel
  <2>2. p.bytes.ttl = cell.ttl /\ p.bytes.body = cell.body
    BY <1>4, <2>1, WrittenBytes
  <2> HIDE DEF p
  <2>3. ParcelInv(p)
    BY <1>8, <2>1, <2>2 DEF ParcelInv
  <2>4. QED
    BY <2>3 DEF p
<1>10. held' \in [Node -> SUBSET [cell : Cell, of : Message, links : Nat, intact : BOOLEAN]]
  BY <1>1 DEF RelayInv
<1>11. \A k \in Node : held'[k] \subseteq held[k]
  BY <1>1 DEF RelayInv
<1>12. \A p \in air' : p \in air \/ ParcelInv(p)
  BY <1>1, <1>9
<1>13. QED
  BY <1>1, <1>10, <1>11, <1>12, OthersKeep

LEMMA AlterStep ==
  ASSUME RelayInv, NEW p \in air, Alter(p)
  PROVE  RelayInv'
<1>1. PICK b \in AlteredBytes(p.bytes) : air' = (air \ {p}) \cup {[p EXCEPT !.bytes = b, !.intact = FALSE]}
  BY DEF Alter
<1>2. sent' = sent /\ held' = held
  BY DEF Alter
<1>3. ParcelInv(p)
  BY DEF RelayInv
<1>4. p \in [to : Node, bytes : Bytes, of : Message, links : Nat, intact : BOOLEAN]
  BY <1>3 DEF ParcelInv
<1>5. b \in Bytes /\ (b.body = None \/ b.body = p.bytes.body) /\ b.ttl \in Nat
  <2>1. b \in Bytes /\ (b.body = None \/ b.body = p.bytes.body)
    BY <1>4, AlteredAreBytes
  <2>2. QED
    BY <2>1 DEF Bytes
<1> DEFINE q == [p EXCEPT !.bytes = b, !.intact = FALSE]
<1>6. /\ q \in [to : Node, bytes : Bytes, of : Message, links : Nat, intact : BOOLEAN]
      /\ q.of = p.of /\ q.links = p.links /\ q.bytes = b /\ q.intact = FALSE
  BY <1>4, <1>5
<1> HIDE DEF q
<1>7. ParcelInv(q)
  BY <1>3, <1>5, <1>6 DEF ParcelInv, OnItsWay
<1>8. \A r \in air' : r \in air \/ ParcelInv(r)
  BY <1>1, <1>7 DEF q
<1>9. QED
  BY <1>2, <1>8, OthersKeep DEF RelayInv

LEMMA StepRelayInv == RelayInv /\ [Next]_vars => RelayInv'
<1> SUFFICES ASSUME RelayInv, [Next]_vars PROVE RelayInv'
  OBVIOUS
<1>1. ASSUME sent' = sent, air' \subseteq air, held' = held PROVE RelayInv'
  BY <1>1, OthersKeep DEF RelayInv
<1>2. ASSUME NEW ttl \in 0 .. MAX_TTL + 1, NEW copies \in 0 .. MAX_COPIES + 1,
             SendRefused(ttl, copies)
      PROVE  RelayInv'
  BY <1>1, <1>2 DEF SendRefused, vars
<1>3. ASSUME NEW p \in air, Refuse(p) \/ Lose(p) PROVE RelayInv'
  BY <1>1, <1>3 DEF Refuse, Lose
<1>4. ASSUME NEW n \in Node, NEW h \in held[n], Drop(n, h) PROVE RelayInv'
  <2>1. sent' = sent /\ air' = air /\ held' = [held EXCEPT ![n] = @ \ {h}]
    BY <1>4 DEF Drop
  <2>2. held' \in [Node -> SUBSET [cell : Cell, of : Message, links : Nat, intact : BOOLEAN]]
        /\ \A k \in Node : held'[k] \subseteq held[k]
    BY <2>1 DEF RelayInv
  <2>3. QED
    BY <2>1, <2>2, OthersKeep
<1>5. CASE Handle
  BY <1>4, <1>5, PassOnStep DEF Handle
<1>6. CASE Arrive
  BY <1>3, <1>6, ReceiveStep DEF Arrive
<1>7. CASE UNCHANGED vars
  BY <1>1, <1>7 DEF vars
<1>8. QED
  BY <1>2, <1>5, <1>6, <1>7, SendStep, AlterStep DEF Next

THEOREM RelayInvariant == Spec => []RelayInv
BY InitRelayInv, StepRelayInv, PTL DEF Spec

-----------------------------------------------------------------------------
(* What follows *)

\* Cells stay within the limits of Hops, whatever bytes arrive.
THEOREM TypeCorrect == Spec => []TypeOK
<1>1. RelayInv => TypeOK
  BY NoneAssumption DEF RelayInv, HeldInv, ParcelInv, OnItsWay, TypeOK
<1>2. QED
  BY <1>1, RelayInvariant, PTL

\* On every branch of a flood, the links travelled and the hops left make up the
\* sender's budget.
THEOREM BudgetExact == Spec => []BudgetIsExact
<1>1. RelayInv => BudgetIsExact
  BY DEF RelayInv, ParcelInv, OnItsWay, BudgetIsExact
<1>2. QED
  BY <1>1, RelayInvariant, PTL

LEMMA SealFromInv == RelayInv => SealSurvivesRelays
<1> SUFFICES ASSUME RelayInv, NEW n \in Node, NEW h \in held[n]
             PROVE  Opens(h.cell) <=>
                      \A field \in {"flags", "tag", "nonce", "body"} :
                        h.cell[field] = sent[h.of][field]
  BY DEF SealSurvivesRelays
<1> DEFINE c == h.cell
           s == sent[h.of]
<1>1. c \in Cell /\ s \in Cell /\ (c.body = None \/ c.body = s.body)
  BY DEF RelayInv, HeldInv, OnItsWay
<1>2. s.body = Aad(s)
  <2>1. h.of \in Message /\ s # None
    BY <1>1, NoneAssumption DEF RelayInv, HeldInv
  <2>2. QED
    BY <2>1 DEF RelayInv, SentSealed
<1>3. Aad(c) \in Body /\ Aad(s) \in Body
  BY <1>1 DEF Cell, Aad, Body
<1>4. Aad(c) = Aad(s) <=> c.flags = s.flags /\ c.tag = s.tag /\ c.nonce = s.nonce
  BY DEF Aad
<1>5. Opens(c) <=> c.body = s.body /\ Aad(c) = Aad(s)
  BY <1>1, <1>2, <1>3, NoneAssumption DEF Opens
<1>6. QED
  BY <1>4, <1>5

\* The seal opens wherever the cell is, unless a sealed field was altered.
THEOREM SealSurvives == Spec => []SealSurvivesRelays
BY SealFromInv, RelayInvariant, PTL

\* A cell with hops left is never dropped by a relay, nor held back.
LEMMA HopUsed ==
  ASSUME RelayInv, [Next]_vars, NEW n \in Node, NEW h \in held[n] \ held'[n],
         h.intact, h.links <= sent[h.of].ttl
  PROVE  \E p \in air' : p.of = h.of /\ p.intact /\ p.links = h.links + 1
<1>0. HeldInv(h) /\ held \in [Node -> SUBSET [cell : Cell, of : Message, links : Nat, intact : BOOLEAN]]
  BY DEF RelayInv
<1>1. /\ h.cell.ttl \in Nat /\ h.links \in Nat /\ sent[h.of].ttl \in 0..MAX_TTL
      /\ h.links + h.cell.ttl = sent[h.of].ttl + 1
  BY <1>0 DEF HeldInv, OnItsWay, Cell
<1>2. h.cell.ttl # 0 /\ h.links <= MAX_TTL
  BY <1>1, BudgetAssumption
<1>3. ASSUME NEW m \in Node, NEW g \in held[m], Drop(m, g) PROVE FALSE
  <2>1. held' = [held EXCEPT ![m] = @ \ {g}]
    BY <1>3 DEF Drop
  <2>2. g = h
    BY <1>0, <2>1
  <2>3. QED
    BY <1>2, <1>3, <2>2 DEF Drop, Forwarded, Spent
<1>4. ASSUME NEW m \in Node, NEW g \in held[m], NEW to \in (SUBSET Node) \ {{}}, PassOn(m, g, to)
      PROVE  \E p \in air' : p.of = h.of /\ p.intact /\ p.links = h.links + 1
  <2>1. PICK cell \in Forwarded(g.cell) :
          /\ held' = [held EXCEPT ![m] = @ \ {g}]
          /\ air' = air \cup {Parcel(r, ToBytes(cell), g.of, Longer(g.links), g.intact) : r \in to}
    BY <1>4 DEF PassOn
  <2>2. g = h
    BY <1>0, <2>1
  <2>3. PICK r \in to : TRUE
    OBVIOUS
  <2>4. Parcel(r, ToBytes(cell), h.of, Longer(h.links), h.intact) \in air'
    BY <2>1, <2>2, <2>3
  <2>5. Longer(h.links) = h.links + 1
    BY <1>1, <1>2, BudgetAssumption DEF Longer
  <2>6. QED
    BY <2>4, <2>5 DEF Parcel
<1>5. ASSUME held' = held PROVE FALSE
  BY <1>5
<1>6. ASSUME NEW p \in air, Receive(p) PROVE FALSE
  BY <1>0, <1>6 DEF Receive
<1>7. CASE Handle
  BY <1>3, <1>4, <1>7 DEF Handle
<1>8. CASE Arrive
  BY <1>5, <1>6, <1>8 DEF Arrive, Refuse, Lose
<1>9. ASSUME NEW m, NEW flags, NEW ttl, NEW copies, NEW to, Send(m, flags, ttl, copies, to)
      PROVE  FALSE
  BY <1>5, <1>9 DEF Send
<1>10. ASSUME NEW ttl, NEW copies, SendRefused(ttl, copies) PROVE FALSE
  BY <1>5, <1>10 DEF SendRefused, vars
<1>11. ASSUME NEW p \in air, Alter(p) PROVE FALSE
  BY <1>5, <1>11 DEF Alter
<1>12. CASE UNCHANGED vars
  BY <1>5, <1>12 DEF vars
<1>13. QED
  BY <1>7, <1>8, <1>9, <1>10, <1>11, <1>12 DEF Next

\* Forwarding stops when the budget is spent and not before.
THEOREM EveryHopUsed == Spec => EveryHopIsUsed
<1> DEFINE A == \A n \in Node : \A h \in held[n] \ held'[n] :
                  h.intact /\ h.links <= sent[h.of].ttl =>
                    \E p \in air' : p.of = h.of /\ p.intact /\ p.links = h.links + 1
<1>1. RelayInv /\ [Next]_vars => [A]_vars
  BY HopUsed
<1>2. QED
  BY <1>1, RelayInvariant, PTL DEF EveryHopIsUsed, Spec

=============================================================================
