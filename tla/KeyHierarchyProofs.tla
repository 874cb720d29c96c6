-------------------------- MODULE KeyHierarchyProofs --------------------------
(***************************************************************************)
(* The promises of KeyHierarchy, for any passwords and salts and any       *)
(* number of wrappings.                                                    *)
(*                                                                         *)
(* No two inputs give one KEK.  A wrapping is sealed under that of its     *)
(* input and its own nonce, and holds the DEK first generated: so does     *)
(* what it unwraps to, from which the next wrapping is made.               *)
(***************************************************************************)
EXTENDS KeyHierarchy, TLAPS

SealedAsWritten ==
  \A w \in wrapped : w.sealed = Seal(DeriveKek(w.by), w.nonce, w.of)

HoldsTheFirstDek == \A d \in memory : d.dek = d.of

HierarchyInv == TypeOK /\ SealedAsWritten /\ HoldsTheFirstDek

-----------------------------------------------------------------------------

LEMMA InitHierarchyInv == Init => HierarchyInv
BY BoundsAssumption DEF Init, HierarchyInv, TypeOK, SealedAsWritten, HoldsTheFirstDek

\* Different passwords, salts or profiles give different KEKs: no two profiles have
\* the same cost.
LEMMA DeriveKekInjective ==
  ASSUME NEW i \in Input, NEW j \in Input
  PROVE  DeriveKek(i) \in Kek /\ (DeriveKek(i) = DeriveKek(j) <=> i = j)
<1>1. ASSUME NEW input \in Input
      PROVE  /\ input = [password |-> input.password, salt |-> input.salt, params |-> input.params]
             /\ input.password \in Password /\ input.salt \in Salt
             /\ input.params \in {"MOBILE", "DESKTOP"}
  <2>1. DOMAIN KdfParams = {"MOBILE", "DESKTOP"}
    BY DEF KdfParams
  <2>2. QED
    BY <2>1 DEF Input
<1>2. ASSUME NEW input \in Input
      PROVE  /\ DeriveKek(input) \in Kek
             /\ DeriveKek(input).password = input.password /\ DeriveKek(input).salt = input.salt
             /\ DeriveKek(input).memory_kib = IF input.params = "MOBILE" THEN 262144 ELSE 1048576
  BY <1>1 DEF DeriveKek, Argon2id, Kek, KdfParams
<1>3. ASSUME DeriveKek(i) = DeriveKek(j) PROVE i = j
  <2>1. i.password = j.password /\ i.salt = j.salt /\ i.params = j.params
    BY <1>1, <1>2, <1>3
  <2>2. QED
    BY <1>1, <2>1
<1>4. QED
  BY <1>2, <1>3

\* A wrapping read back, whole or damaged, opens only as it was sealed.
LEMMA OnlyAsSealed ==
  ASSUME HierarchyInv, NEW w \in wrapped, NEW read \in {w} \cup Damaged(w), NEW input \in Input
  PROVE  Unwraps(read, input) <=> read = w /\ input = w.by
<1>1. /\ w \in [nonce : 0..drawn - 1,
                sealed : [kek : Kek, nonce : 0..drawn - 1, plaintext : 0..drawn - 1],
                by : Input, of : 0..drawn - 1]
      /\ w.sealed = [kek |-> DeriveKek(w.by), nonce |-> w.nonce, plaintext |-> w.of]
      /\ drawn \in Nat
  BY BoundsAssumption DEF HierarchyInv, TypeOK, SealedAsWritten, Seal
<1>2. w.sealed \in Sealed
  BY <1>1 DEF Sealed
<1>3. w.sealed # None /\ w.sealed.kek = DeriveKek(w.by) /\ w.sealed.nonce = w.nonce
  BY <1>1, <1>2, NoneAssumption
<1>4. CASE read = w
  <2>1. DeriveKek(w.by) = DeriveKek(input) <=> input = w.by
    BY <1>1, DeriveKekInjective
  <2>2. QED
    BY <1>3, <1>4, <2>1 DEF Unwraps, Opens
<1>5. CASE read = [w EXCEPT !.sealed = None]
  <2>1. read.sealed = None
    BY <1>1, <1>5
  <2>2. read # w
    BY <2>1, <1>3
  <2>3. QED
    BY <2>1, <2>2 DEF Unwraps, Opens
<1>6. ASSUME NEW n \in 0..drawn \ {w.nonce}, read = [w EXCEPT !.nonce = n]
      PROVE  Unwraps(read, input) <=> read = w /\ input = w.by
  <2>1. read.nonce = n /\ read.sealed = w.sealed
    BY <1>1, <1>6
  <2>2. QED
    BY <2>1, <1>3 DEF Unwraps, Opens
<1>7. QED
  BY <1>4, <1>5, <1>6 DEF Damaged

LEMMA StepHierarchyInv == HierarchyInv /\ [Next]_vars => HierarchyInv'
<1> SUFFICES ASSUME HierarchyInv, [Next]_vars PROVE HierarchyInv'
  OBVIOUS
<1> DEFINE Wrappings(n) ==
      [nonce : 0..n - 1,
       sealed : [kek : Kek, nonce : 0..n - 1, plaintext : 0..n - 1],
       by : Input, of : 0..n - 1]
    Deks(n) == [dek : 0..n - 1, of : 0..n - 1]
<1>0. /\ drawn \in 0..MaxDraws /\ MaxDraws \in Nat
      /\ memory \subseteq Deks(drawn) /\ wrapped \subseteq Wrappings(drawn)
      /\ SealedAsWritten /\ HoldsTheFirstDek
  BY BoundsAssumption DEF HierarchyInv, TypeOK
<1>m. Deks(drawn) \subseteq Deks(drawn + 1) /\ Wrappings(drawn) \subseteq Wrappings(drawn + 1)
  <2>1. 0..drawn - 1 \subseteq 0..(drawn + 1) - 1
    BY <1>0
  <2>2. QED
    BY <2>1
<1>1. CASE Generate
  <2>1. drawn' = drawn + 1 /\ drawn' \in 0..MaxDraws
        /\ memory' = memory \cup {[dek |-> drawn, of |-> drawn]} /\ wrapped' = wrapped
    BY <1>0, <1>1 DEF Generate
  <2>2. [dek |-> drawn, of |-> drawn] \in Deks(drawn + 1)
    BY <1>0
  <2>3. TypeOK'
    BY <1>0, <1>m, <2>1, <2>2 DEF TypeOK
  <2>4. QED
    BY <1>0, <2>1, <2>3 DEF HierarchyInv, SealedAsWritten, HoldsTheFirstDek
<1>2. ASSUME NEW d \in memory, NEW input \in Input, WrapWith(d, input)
      PROVE  HierarchyInv'
  <2> DEFINE w == Wrapping(drawn, d.dek, input, d.of)
  <2>1. drawn' = drawn + 1 /\ drawn' \in 0..MaxDraws /\ wrapped' = wrapped \cup {w}
        /\ memory' = memory
    BY <1>0, <1>2 DEF WrapWith
  <2>2. d.dek = d.of /\ d.dek \in 0..drawn - 1
    BY <1>0 DEF HoldsTheFirstDek
  <2>3. w = [nonce |-> drawn,
             sealed |-> [kek |-> DeriveKek(input), nonce |-> drawn, plaintext |-> d.dek],
             by |-> input, of |-> d.of]
    BY DEF Wrapping, Seal
  <2>4. /\ w.by = input /\ w.nonce = drawn /\ w.of = d.of
        /\ w.sealed = Seal(DeriveKek(input), drawn, d.dek)
    BY <2>3 DEF Seal
  <2>5. w \in Wrappings(drawn + 1)
    <3>1. drawn \in 0..(drawn + 1) - 1 /\ d.dek \in 0..(drawn + 1) - 1
      BY <1>0, <2>2
    <3>2. DeriveKek(input) \in Kek
      BY DeriveKekInjective
    <3>3. QED
      BY <2>2, <2>3, <3>1, <3>2
  <2> HIDE DEF w
  <2>6. TypeOK'
    BY <1>0, <1>m, <2>1, <2>5 DEF TypeOK
  <2>7. SealedAsWritten'
    BY <1>0, <2>1, <2>2, <2>4 DEF SealedAsWritten
  <2>8. QED
    BY <1>0, <2>1, <2>6, <2>7 DEF HierarchyInv, HoldsTheFirstDek
<1>3. ASSUME NEW w \in wrapped, NEW input \in Input, NEW read \in {w} \cup Damaged(w),
             UnwrapWith(read, input)
      PROVE  HierarchyInv'
  <2>1. read = w
    BY <1>3, OnlyAsSealed DEF UnwrapWith
  <2>2. w.sealed.plaintext = w.of /\ w.of \in 0..drawn - 1
    <3>1. w \in Wrappings(drawn) /\ w.sealed = Seal(DeriveKek(w.by), w.nonce, w.of)
      BY <1>0 DEF SealedAsWritten
    <3>2. w.of \in 0..drawn - 1
      BY <3>1
    <3>3. w.sealed.plaintext = w.of
      BY <3>1 DEF Seal
    <3>4. QED
      BY <3>2, <3>3
  <2>3. memory' = memory \cup {[dek |-> w.of, of |-> w.of]} /\ drawn' = drawn /\ wrapped' = wrapped
    BY <1>3, <2>1, <2>2 DEF UnwrapWith
  <2>4. [dek |-> w.of, of |-> w.of] \in Deks(drawn)
    BY <2>2
  <2>5. TypeOK'
    BY <1>0, <2>3, <2>4 DEF TypeOK
  <2>6. QED
    BY <1>0, <2>3, <2>5 DEF HierarchyInv, SealedAsWritten, HoldsTheFirstDek
<1>4. ASSUME NEW d \in memory, Forget(d)
      PROVE  HierarchyInv'
  BY <1>4 DEF Forget, HierarchyInv, TypeOK, SealedAsWritten, HoldsTheFirstDek
<1>5. CASE UNCHANGED vars
  BY <1>5 DEF vars, HierarchyInv, TypeOK, SealedAsWritten, HoldsTheFirstDek
<1>6. QED
  BY <1>1, <1>2, <1>3, <1>4, <1>5 DEF Next, UnwrapRefused

THEOREM HierarchyInvariant == Spec => []HierarchyInv
BY InitHierarchyInv, StepHierarchyInv, PTL DEF Spec

-----------------------------------------------------------------------------

\* Values drawn, DEKs and wrappings are well formed.
THEOREM TypeCorrect == Spec => []TypeOK
<1>1. HierarchyInv => TypeOK
  BY DEF HierarchyInv
<1>2. QED
  BY <1>1, HierarchyInvariant, PTL

LEMMA UnwrapFromInv == HierarchyInv => UnwrapInvertsWrap
<1> SUFFICES ASSUME HierarchyInv, NEW w \in wrapped, NEW input \in Input
             PROVE  /\ Unwraps(w, input) <=> input = w.by
                    /\ w.sealed.plaintext = w.of
                    /\ \A read \in Damaged(w) : ~Unwraps(read, input)
  BY DEF UnwrapInvertsWrap
<1>1. Unwraps(w, input) <=> input = w.by
  BY OnlyAsSealed
<1>2. w.sealed.plaintext = w.of
  <2>1. w.sealed = Seal(DeriveKek(w.by), w.nonce, w.of)
    BY DEF HierarchyInv, SealedAsWritten
  <2>2. QED
    BY <2>1 DEF Seal
<1>3. ASSUME NEW read \in Damaged(w)
      PROVE  ~Unwraps(read, input)
  <2>1. w \in [nonce : 0..drawn - 1,
               sealed : [kek : Kek, nonce : 0..drawn - 1, plaintext : 0..drawn - 1],
               by : Input, of : 0..drawn - 1]
    BY DEF HierarchyInv, TypeOK
  <2>2. CASE read = [w EXCEPT !.sealed = None]
    BY <2>1, <2>2 DEF Unwraps, Opens
  <2>3. ASSUME NEW n \in 0..drawn \ {w.nonce}, read = [w EXCEPT !.nonce = n]
        PROVE  ~Unwraps(read, input)
    <3>1. read.nonce = n /\ w.nonce # n
      BY <2>1, <2>3
    <3>2. QED
      BY <3>1, OnlyAsSealed
  <2>4. QED
    BY <2>2, <2>3 DEF Damaged
<1>4. QED
  BY <1>1, <1>2, <1>3

\* KeyHierarchy.tla: UnwrapInvertsWrap.  A wrapping opens for what it was made with
\* and for nothing else, and gives the DEK first generated, however often that was
\* rewrapped before.
THEOREM UnwrapsAsWrapped == Spec => []UnwrapInvertsWrap
BY UnwrapFromInv, HierarchyInvariant, PTL

LEMMA SubkeysFromInv == HierarchyInv => SubkeysSurviveRewrapping
<1> SUFFICES ASSUME HierarchyInv, NEW c \in memory, NEW d \in memory,
                    NEW p \in Purpose, NEW q \in Purpose
             PROVE  Subkey(c.dek, p) = Subkey(d.dek, q) <=> c.of = d.of /\ p = q
  BY DEF SubkeysSurviveRewrapping
<1>1. c.dek = c.of /\ d.dek = d.of
  BY DEF HierarchyInv, HoldsTheFirstDek
<1>2. QED
  BY <1>1 DEF Subkey, Label

\* However often a DEK was rewrapped, its subkeys are those of the first.
THEOREM SubkeysSurvive == Spec => []SubkeysSurviveRewrapping
BY SubkeysFromInv, HierarchyInvariant, PTL

=============================================================================
