----------------------------- MODULE KeyHierarchy -----------------------------
(***************************************************************************)
(* The at-rest keys of crates/quietwire-crypto/src/hierarchy.rs and        *)
(* password.rs: a DEK drawn once, wrapped under KEKs that passwords give,  *)
(* unwrapped, rewrapped under the KEK of a new password, and asked for the *)
(* subkey of each purpose.  The caller keeps the wrappings, and may read   *)
(* back damaged ones.  The code stores nothing itself.                     *)
(*                                                                         *)
(* Keys are symbolic: a KEK is what Argon2 was called with, random values  *)
(* are numbered as they are drawn, and a subkey is the DEK and the label.  *)
(* The AEAD opens under its own key, nonce and label.                      *)
(***************************************************************************)
EXTENDS Integers, FiniteSets

CONSTANTS
  Password,
  Salt,
  MaxDraws,    \* bound: values drawn from the RNG
  None

ASSUME BoundsAssumption == MaxDraws \in Nat

VARIABLES
  drawn,    \* how many values the RNG has given
  memory,   \* the DEKs unwrapped in memory; `of` is the DEK first generated (history)
  wrapped   \* the wrappings made, with the inputs of their KEK and their DEK (history)

vars == <<drawn, memory, wrapped>>

-----------------------------------------------------------------------------
(* Derivations *)

\* The cost profiles.
KdfParams ==
  [MOBILE |-> [memory_kib |-> 262144, iterations |-> 4, parallelism |-> 2],
   DESKTOP |-> [memory_kib |-> 1048576, iterations |-> 4, parallelism |-> 2]]

\* What a caller derives a KEK from.
Input == [password : Password, salt : Salt, params : DOMAIN KdfParams]

\* A KEK is what Argon2 was called with: the costs themselves, not the profile's name.
Kek == [password : Password, salt : Salt, memory_kib : Nat, iterations : Nat, parallelism : Nat]

\* What a KEK and a nonce seal.
Sealed == [kek : Kek, nonce : Nat, plaintext : Nat]

ASSUME NoneAssumption == None \notin Sealed

Argon2id(password, salt, memory_kib, iterations, parallelism) ==
  [password |-> password, salt |-> salt, memory_kib |-> memory_kib,
   iterations |-> iterations, parallelism |-> parallelism]

\* Mutant: the passes are given in place of the memory, as every profile has 4.
DeriveKekWithoutMemory(input) ==
  LET cost == KdfParams[input.params]
  IN  Argon2id(input.password, input.salt, cost.iterations, cost.iterations, cost.parallelism)

DeriveKek(input) ==
  LET cost == KdfParams[input.params]
  IN  Argon2id(input.password, input.salt, cost.memory_kib, cost.iterations, cost.parallelism)

Purpose == {"db", "field", "identity", "sessions", "meta"}

Label(purpose) == purpose

Subkey(dek, purpose) == [dek |-> dek, label |-> Label(purpose)]

\* aead::seal, under the label of a wrapping.
Seal(kek, nonce, plaintext) == [kek |-> kek, nonce |-> nonce, plaintext |-> plaintext]

\* aead::open; Authentication, unless nothing differs from what was sealed.
Opens(kek, nonce, sealed) == sealed # None /\ sealed.kek = kek /\ sealed.nonce = nonce

Unwraps(w, input) == Opens(DeriveKek(input), w.nonce, w.sealed)

-----------------------------------------------------------------------------
(* The calls, in any order *)

Init ==
  /\ drawn = 0
  /\ memory = {}
  /\ wrapped = {}

\* Dek::generate
Generate ==
  /\ drawn < MaxDraws
  /\ drawn' = drawn + 1
  /\ memory' = memory \cup {[dek |-> drawn, of |-> drawn]}
  /\ UNCHANGED wrapped

Wrapping(nonce, dek, input, of) ==
  [nonce |-> nonce, sealed |-> Seal(DeriveKek(input), nonce, dek), by |-> input, of |-> of]

\* Mutant: a new password gets a new DEK.
WrapFreshDek(d, input) ==
  /\ drawn < MaxDraws
  /\ drawn' = drawn + 1
  /\ wrapped' = wrapped \cup {Wrapping(drawn, drawn, input, d.of)}
  /\ UNCHANGED memory

\* derive_kek and Dek::wrap_with: for the first password and for any later one.
WrapWith(d, input) ==
  /\ drawn < MaxDraws
  /\ drawn' = drawn + 1
  /\ wrapped' = wrapped \cup {Wrapping(drawn, d.dek, input, d.of)}
  /\ UNCHANGED memory

\* derive_kek and WrappedDek::unwrap_with return Ok.
UnwrapWith(w, input) ==
  /\ Unwraps(w, input)
  /\ memory' = memory \cup {[dek |-> w.sealed.plaintext, of |-> w.of]}
  /\ UNCHANGED <<drawn, wrapped>>

\* unwrap_with returns Authentication.
UnwrapRefused(w, input) ==
  /\ ~Unwraps(w, input)
  /\ UNCHANGED vars

\* A DEK is dropped.
Forget(d) ==
  /\ memory' = memory \ {d}
  /\ UNCHANGED <<drawn, wrapped>>

\* A wrapping as the caller may read it back damaged: altered bytes, or the nonce of
\* another one, which a write torn between the two parts leaves.
Damaged(w) ==
  {[w EXCEPT !.sealed = None]} \cup {[w EXCEPT !.nonce = n] : n \in 0 .. drawn \ {w.nonce}}

Next ==
  \/ Generate
  \/ \E d \in memory : Forget(d) \/ \E input \in Input : WrapWith(d, input)
  \/ \E w \in wrapped, input \in Input :
       \E read \in {w} \cup Damaged(w) : UnwrapWith(read, input) \/ UnwrapRefused(read, input)

Spec == Init /\ [][Next]_vars

-----------------------------------------------------------------------------
(* Properties *)

\* Types.
TypeOK ==
  /\ drawn \in 0 .. MaxDraws
  /\ memory \subseteq [dek : 0 .. drawn - 1, of : 0 .. drawn - 1]
  /\ wrapped \subseteq [nonce : 0 .. drawn - 1,
                        sealed : [kek : Kek, nonce : 0 .. drawn - 1, plaintext : 0 .. drawn - 1],
                        by : Input, of : 0 .. drawn - 1]

\* unwrap_with inverts wrap_with, through any chain of changed passwords: a wrapping
\* opens for the password, salt and cost it was made for and gives the DEK that was
\* first generated; for any other password, salt or cost, and damaged, it gives
\* nothing (QW-P-CRY-069).
UnwrapInvertsWrap ==
  \A w \in wrapped, input \in Input :
    /\ Unwraps(w, input) <=> input = w.by
    /\ Unwraps(w, input) => w.sealed.plaintext = w.of
    /\ \A read \in Damaged(w) : ~Unwraps(read, input)

\* Changing the password leaves the protected data readable: whatever chain of
\* wrappings a DEK came through, its subkeys are those of the DEK first generated,
\* and no two purposes or DEKs share one (the comment on Dek).
SubkeysSurviveRewrapping ==
  \A c, d \in memory : \A p, q \in Purpose :
    Subkey(c.dek, p) = Subkey(d.dek, q) <=> c.of = d.of /\ p = q

=============================================================================
