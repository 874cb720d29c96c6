----------------------------- MODULE OnceChannel -----------------------------
(***************************************************************************)
(* What a pair of sessions promises its users: a message a party sends is  *)
(* sealed under a key that sealed no other message, of either party, and   *)
(* is returned to the peer at most once, in any order.                     *)
(***************************************************************************)
EXTENDS Naturals

CONSTANTS Party, Peer(_)

VARIABLES
  sent,     \* sent[p]: the messages p has sent, records with a field `key`
  opened,   \* opened[p]: the messages p has been returned
  returned  \* returned[p]: how many times p has been returned one

vars == <<sent, opened, returned>>

Init ==
  /\ sent = [p \in Party |-> {}]
  /\ opened = [p \in Party |-> {}]
  /\ returned = [p \in Party |-> 0]

\* The message is bound over the new value of `sent`, so it is any record.
Send(p) ==
  /\ \E m \in sent'[p] :
       /\ \A q \in Party : \A n \in sent[q] : n.key # m.key
       /\ sent' = [sent EXCEPT ![p] = @ \cup {m}]
  /\ UNCHANGED <<opened, returned>>

Open(p) ==
  /\ \E m \in sent[Peer(p)] \ opened[p] : opened' = [opened EXCEPT ![p] = @ \cup {m}]
  /\ returned' = [returned EXCEPT ![p] = @ + 1]
  /\ UNCHANGED sent

Next == \E p \in Party : Send(p) \/ Open(p)

Spec == Init /\ [][Next]_vars

=============================================================================
