------------------------------- MODULE CellRelay -------------------------------
(***************************************************************************)
(* The 512-byte cell of crates/quietwire-packet/src/cell.rs on its way     *)
(* through relays: the sender fixes the head and the body, each relay      *)
(* reads the cell, spends a hop and passes it on, and links lose and alter *)
(* what they carry.  Which neighbours a relay chooses has no code yet: any *)
(* of them, and any number, which is the only way a cell multiplies.       *)
(***************************************************************************)
EXTENDS Integers, FiniteSets

CONSTANTS
  Node,
  Message,      \* names the tag, the nonce and the payload of a cell
  Flag,         \* the values of the random flags byte
  MAX_TTL,      \* largest hop count (64)
  MAX_COPIES,   \* largest copy budget (15)
  Altered,      \* the fields of a cell a link may alter
  MaxSent,        \* bound: cells sent
  MaxAlterations, \* bound: fields altered in all
  None

ASSUME BudgetAssumption ==
  MAX_TTL \in Nat /\ MAX_COPIES \in Nat /\ MaxSent \in Nat /\ MaxAlterations \in Nat

ASSUME AlteredAssumption ==
  Altered \subseteq {"length", "version", "flags", "ttl", "copies", "tag", "nonce", "body"}

VARIABLES
  sent,   \* sent[m]: the cell that was built for m, or None (history)
  air,    \* the cells on links, as bytes; `links` counts their links so far, and
          \* `intact` says that no link has altered them (history)
  held,   \* held[n]: the cells node n has read and not yet passed on
  altered \* how many fields the links have altered (history)

vars == <<sent, air, held, altered>>

-----------------------------------------------------------------------------
(* The cell *)

VERSION == 1

\* A body is named by the associated data it was sealed with; None: it is damaged.
Body == {VERSION} \X Flag \X Message \X Message

Cell ==
  [flags : Flag, ttl : 0 .. MAX_TTL, copies : 0 .. MAX_COPIES, tag : Message, nonce : Message,
   body : {None} \cup Body]

ASSUME NoneAssumption == None \notin Body /\ None \notin Cell

\* Mutant: the hop count is covered too.
AadWithTtl(cell) == <<VERSION, cell.flags, cell.tag, cell.nonce, cell.ttl>>

\* The bytes an end-to-end seal covers; the hop fields are not among them.
Aad(cell) == <<VERSION, cell.flags, cell.tag, cell.nonce>>

\* The seal opens for the associated data it was made over.
Opens(cell) == cell.body = Aad(cell)

\* Hops::new
InRange(ttl, copies) == ttl <= MAX_TTL /\ copies <= MAX_COPIES

\* Mutant: a spent budget stays at zero instead of ending the cell.
SpentSaturating(ttl) == IF ttl = 0 THEN {0} ELSE {ttl - 1}

\* Mutant: the last hop is never spent.
SpentEarly(ttl) == IF ttl <= 1 THEN {} ELSE {ttl - 1}

\* Hops::spent: the budget of the next hop, if there is one.
Spent(ttl) == IF ttl = 0 THEN {} ELSE {ttl - 1}

ToBytes(cell) ==
  [length |-> 512, version |-> VERSION, flags |-> cell.flags, ttl |-> cell.ttl,
   copies |-> cell.copies, tag |-> cell.tag, nonce |-> cell.nonce, body |-> cell.body]

Readable(bytes) ==
  /\ bytes.length = 512
  /\ bytes.version = VERSION
  /\ InRange(bytes.ttl, bytes.copies)

CellOf(bytes) ==
  [flags |-> bytes.flags, ttl |-> bytes.ttl, copies |-> bytes.copies,
   tag |-> bytes.tag, nonce |-> bytes.nonce, body |-> bytes.body]

\* Cell512::forwarded: the cell of the next hop, if there is one.
Forwarded(cell) == {[cell EXCEPT !.ttl = t] : t \in Spent(cell.ttl)}

-----------------------------------------------------------------------------
(* Sender, relays and links *)

Parcel(n, bytes, m, links, intact) ==
  [to |-> n, bytes |-> bytes, of |-> m, links |-> links, intact |-> intact]

Unsent == {m \in Message : sent[m] = None}

\* The links history stops counting one above what any budget allows.
Longer(links) == IF links > MAX_TTL + 1 THEN links ELSE links + 1

Init ==
  /\ sent = [m \in Message |-> None]
  /\ air = {}
  /\ held = [n \in Node |-> {}]
  /\ altered = 0

\* CellHeader::new, Hops::new and Cell512::new, then the first link.
Send(m, flags, ttl, copies, to) ==
  LET unsealed == [flags |-> flags, ttl |-> ttl, copies |-> copies,
                   tag |-> m, nonce |-> m, body |-> None]
      cell == [unsealed EXCEPT !.body = Aad(unsealed)]
  IN  /\ m \in Unsent
      /\ Cardinality(Message \ Unsent) < MaxSent
      /\ InRange(ttl, copies)
      /\ sent' = [sent EXCEPT ![m] = cell]
      /\ air' = air \cup {Parcel(n, ToBytes(cell), m, 1, TRUE) : n \in to}
      /\ UNCHANGED <<held, altered>>

\* Hops::new refuses the budget: there is no cell to send.
SendRefused(ttl, copies) ==
  /\ ~InRange(ttl, copies)
  /\ UNCHANGED vars

\* Cell512::from_bytes returns Ok.
Receive(p) ==
  /\ Readable(p.bytes)
  /\ air' = air \ {p}
  /\ held' = [held EXCEPT ![p.to] =
                @ \cup {[cell |-> CellOf(p.bytes), of |-> p.of, links |-> p.links,
                         intact |-> p.intact]}]
  /\ UNCHANGED <<sent, altered>>

\* Cell512::from_bytes returns an error.
Refuse(p) ==
  /\ ~Readable(p.bytes)
  /\ air' = air \ {p}
  /\ UNCHANGED <<sent, held, altered>>

\* Mutant: the relay passes on the cell it read.
PassOnUnspent(n, h, to) ==
  /\ Forwarded(h.cell) # {}
  /\ held' = [held EXCEPT ![n] = @ \ {h}]
  /\ air' = air \cup {Parcel(r, ToBytes(h.cell), h.of, Longer(h.links), h.intact) : r \in to}
  /\ UNCHANGED <<sent, altered>>

PassOn(n, h, to) ==
  \E cell \in Forwarded(h.cell) :
    /\ held' = [held EXCEPT ![n] = @ \ {h}]
    /\ air' = air \cup {Parcel(r, ToBytes(cell), h.of, Longer(h.links), h.intact) : r \in to}
    /\ UNCHANGED <<sent, altered>>

\* `forwarded` returns None: the budget is spent.
Drop(n, h) ==
  /\ Forwarded(h.cell) = {}
  /\ held' = [held EXCEPT ![n] = @ \ {h}]
  /\ UNCHANGED <<sent, air, altered>>

Lose(p) ==
  /\ air' = air \ {p}
  /\ UNCHANGED <<sent, held, altered>>

\* The bytes a link may make of `bytes`.
AlteredBytes(bytes) ==
  LET values == [length |-> {511}, version |-> {VERSION + 1}, flags |-> Flag,
                 ttl |-> 0 .. MAX_TTL + 1, copies |-> 0 .. MAX_COPIES + 1, tag |-> Message,
                 nonce |-> Message, body |-> {None}]
  IN  UNION {{[bytes EXCEPT ![field] = v] : v \in values[field] \ {bytes[field]}} :
               field \in Altered}

Alter(p) ==
  /\ altered < MaxAlterations
  /\ altered' = altered + 1
  /\ \E b \in AlteredBytes(p.bytes) : air' = (air \ {p}) \cup {[p EXCEPT !.bytes = b, !.intact = FALSE]}
  /\ UNCHANGED <<sent, held>>

Handle == \E n \in Node : \E h \in held[n] :
            Drop(n, h) \/ \E to \in (SUBSET Node) \ {{}} : PassOn(n, h, to)

Arrive == \E p \in air : Receive(p) \/ Refuse(p) \/ Lose(p)

Next ==
  \/ \E ttl \in 0 .. MAX_TTL + 1, copies \in 0 .. MAX_COPIES + 1 :
       \/ SendRefused(ttl, copies)
       \/ \E m \in Message, flags \in Flag, to \in (SUBSET Node) \ {{}} :
            Send(m, flags, ttl, copies, to)
  \/ Handle
  \/ Arrive
  \/ \E p \in air : Alter(p)

Spec == Init /\ [][Next]_vars

\* Relays handle what they hold, and links deliver or lose what they carry.
FairSpec == Spec /\ WF_vars(Handle) /\ WF_vars(Arrive)

-----------------------------------------------------------------------------
(* Properties *)

\* Types: a node holds only cells within both limits, whatever the links alter.
TypeOK ==
  /\ sent \in [Message -> Cell \cup {None}]
  /\ \A n \in Node : \A h \in held[n] : h.cell \in Cell /\ h.of \in Message
  /\ \A p \in air : p.to \in Node /\ p.of \in Message /\ sent[p.of] # None

\* Wherever a cell is, after any number of hops and of altered hop fields, its seal
\* opens exactly if flags, tag, nonce and body are those the sender fixed
\* (QW-U-PKT-106: the associated data leaves out what relays spend).
SealSurvivesRelays ==
  \A n \in Node : \A h \in held[n] :
    Opens(h.cell) <=>
      \A field \in {"flags", "tag", "nonce", "body"} : h.cell[field] = sent[h.of][field]

\* The hop count of a cell that no link altered is what is left of the sender's
\* budget: links travelled and hops remaining add up, on every branch of the flood.
BudgetIsExact ==
  \A p \in air : p.intact => p.links + p.bytes.ttl = sent[p.of].ttl + 1

\* A cell that leaves a relay goes on, one link longer, until it has used all the
\* hops it was sent with (QW-U-PKT-105: forwarding stops at zero, and not before).
EveryHopIsUsed ==
  [][\A n \in Node : \A h \in held[n] \ held'[n] :
       h.intact /\ h.links <= sent[h.of].ttl =>
         \E p \in air' : p.of = h.of /\ p.intact /\ p.links = h.links + 1]_vars

\* A flood ends: with relays that remember nothing and pass on all they read, in
\* circles if they like, every cell comes to rest (ttl: "prevents infinite
\* circulation").
EveryCellComesToRest == <>[](air = {} /\ \A n \in Node : held[n] = {})

=============================================================================
