---------------------------- MODULE RatchetProofs ----------------------------
(***************************************************************************)
(* Theorems about the two ratchet sessions, for every value of the limits: *)
(* types, the bounds of the store of skipped keys, and OnceInv, hence that *)
(* no frame opens twice, that past frames stay secret and that the         *)
(* sessions implement OnceChannel.                                         *)
(*                                                                         *)
(* Then: the two sessions stay in step, eviction is oldest first, and a    *)
(* frame of the peer's that has not opened opens, is too far ahead for     *)
(* now, or has lost its key to a limit.  While what the peer has sealed    *)
(* fits the store it simply opens, which is why no input of the fuzz       *)
(* target makes one of its assertions fail.                                *)
(***************************************************************************)
EXTENDS RatchetFuzz, FiniteSetTheorems, SequenceTheorems, WellFoundedInduction, TLAPS

-----------------------------------------------------------------------------
(* Facts about the operators on the store of skipped keys *)

\* The least number principle.
LEMMA LeastNat ==
  ASSUME NEW T \in SUBSET Nat, T # {}
  PROVE  \E x \in T : \A y \in T : x <= y
<1> DEFINE R == {pair \in Nat \X Nat : pair[1] < pair[2]}
<1>1. IsWellFoundedOn(R, Nat)
  BY NatLessThanWellFounded DEF OpToRel
<1>2. \A x, y \in Nat : <<y, x>> \in R <=> y < x
  OBVIOUS
<1> HIDE DEF R
<1>3. PICK x \in T : \A y \in T : ~(<<y, x>> \in R)
  BY <1>1, WFMin, Zenon
<1>4. \A y \in T : ~(y < x)
  BY <1>2, <1>3
<1> QED BY <1>4

\* Min picks the first of a non-empty set of positions.
LEMMA MinFirst ==
  ASSUME NEW S \in SUBSET Nat, S # {}
  PROVE  Min(S) \in S /\ \A x \in S : Min(S) <= x
<1>1. PICK m \in S : \A x \in S : m <= x
  BY LeastNat
<1> QED BY <1>1 DEF Min

\* A finite non-empty set of naturals has a maximum, and Max picks it.
LEMMA MaxLast ==
  ASSUME NEW S \in SUBSET Nat, IsFiniteSet(S), S # {}
  PROVE  Max(S) \in S /\ \A x \in S : x <= Max(S)
<1> DEFINE HasMax(T) == \E m \in T : \A x \in T : x <= m
           Sizes == {n \in Nat : \E T \in SUBSET Nat :
                       IsFiniteSet(T) /\ T # {} /\ Cardinality(T) = n /\ ~HasMax(T)}
<1>1. Sizes = {}
  <2> SUFFICES ASSUME Sizes # {} PROVE FALSE
    OBVIOUS
  <2>1. PICK n \in Sizes : \A k \in Sizes : n <= k
    <3>1. Sizes \in SUBSET Nat
      OBVIOUS
    <3> HIDE DEF Sizes
    <3> QED BY <3>1, LeastNat
  <2>2. PICK T \in SUBSET Nat : IsFiniteSet(T) /\ T # {} /\ Cardinality(T) = n /\ ~HasMax(T)
    BY <2>1
  <2>3. PICK x \in T : TRUE
    BY <2>2
  <2> DEFINE U == T \ {x}
  <2>4. IsFiniteSet(U) /\ Cardinality(U) = n - 1 /\ n \in Nat
    BY <2>1, <2>2, <2>3, FS_RemoveElement
  <2>5. U # {}
    <3> SUFFICES ASSUME U = {} PROVE FALSE
      OBVIOUS
    <3>1. T = {x}
      BY <2>3
    <3> QED BY <3>1, <2>2
  <2>6. n - 1 \in Nat
    BY <2>4, FS_CardinalityType
  <2>7. HasMax(U)
    <3>1. n - 1 \notin Sizes
      BY <2>1, <2>4
    <3> QED BY <3>1, <2>4, <2>5, <2>6
  <2>8. PICK m \in U : \A y \in U : y <= m
    BY <2>7
  <2>9. CASE m <= x
    <3>1. \A y \in T : y <= x
      BY <2>8, <2>9, <2>3
    <3> QED BY <3>1, <2>2, <2>3
  <2>10. CASE ~(m <= x)
    <3>1. \A y \in T : y <= m
      BY <2>8, <2>10, <2>3
    <3> QED BY <3>1, <2>2, <2>8
  <2> QED BY <2>9, <2>10
<1>2. HasMax(S)
  <2>1. Cardinality(S) \in Nat
    BY FS_CardinalityType
  <2>2. Cardinality(S) \notin Sizes
    BY <1>1
  <2> QED BY <2>1, <2>2
<1> QED BY <1>2 DEF Max

-----------------------------------------------------------------------------
(* The deque *)

\* Without keeps the entries it does not drop, at their positions.
LEMMA WithoutFacts ==
  ASSUME NEW deque, IsDeque(deque), NEW P
  PROVE  /\ IsDeque(Without(deque, P))
         /\ DOMAIN Without(deque, P) = DOMAIN deque \ P
         /\ \A i \in DOMAIN Without(deque, P) : Without(deque, P)[i] = deque[i]
<1>1. /\ DOMAIN Without(deque, P) = DOMAIN deque \ P
      /\ \A i \in DOMAIN Without(deque, P) : Without(deque, P)[i] = deque[i]
  BY DEF Without, Restrict
<1>2. IsFiniteSet(DOMAIN deque \ P)
  BY FS_Subset DEF IsDeque
<1> QED BY <1>1, <1>2 DEF IsDeque

\* PushBack keeps every entry and appends one for each number skipped.
LEMMA PushBackFacts ==
  ASSUME NEW deque, IsDeque(deque), NEW ratchet \in PublicKey, NEW chain \in RootKey,
         NEW from \in Nat, NEW until \in Nat
  PROVE  LET D == PushBack(deque, ratchet, chain, from, until)
         IN  /\ IsDeque(D)
             /\ DOMAIN deque \subseteq DOMAIN D
             /\ \A i \in DOMAIN deque : D[i] = deque[i]
             /\ \A i \in DOMAIN D \ DOMAIN deque :
                  \E n \in from..until - 1 :
                    D[i] = [ratchet |-> ratchet, number |-> n, key |-> KeyOf(chain, n)]
             /\ \A i, j \in DOMAIN D \ DOMAIN deque : D[i].key = D[j].key => i = j
<1> DEFINE D == PushBack(deque, ratchet, chain, from, until)
           back == Max({0} \cup DOMAIN deque)
           Pushed(i) == from + (i - back - 1)
<1>1. back \in Nat
  <2>1. {0} \cup DOMAIN deque \in SUBSET Nat
    BY DEF IsDeque
  <2>2. IsFiniteSet({0} \cup DOMAIN deque)
    <3>1. IsFiniteSet(DOMAIN deque \cup {0})
      BY FS_AddElement DEF IsDeque
    <3>2. DOMAIN deque \cup {0} = {0} \cup DOMAIN deque
      OBVIOUS
    <3> QED BY <3>1, <3>2
  <2>3. {0} \cup DOMAIN deque # {}
    OBVIOUS
  <2>4. back \in {0} \cup DOMAIN deque
    BY <2>1, <2>2, <2>3, MaxLast
  <2> QED BY <2>1, <2>4
<1>2. DOMAIN D = DOMAIN deque \cup (back + 1)..(back + until - from)
  BY DEF PushBack
<1>3. \A i \in DOMAIN deque : D[i] = deque[i]
  BY DEF PushBack
<1>4. \A i \in DOMAIN D \ DOMAIN deque :
        D[i] = [ratchet |-> ratchet, number |-> Pushed(i), key |-> KeyOf(chain, Pushed(i))]
  BY DEF PushBack
<1> HIDE DEF D, back
<1>5. \A i \in DOMAIN D \ DOMAIN deque : Pushed(i) \in from..until - 1 /\ i \in Nat \ {0}
  BY <1>1, <1>2
<1>6. \A i \in DOMAIN D \ DOMAIN deque : D[i] \in SkippedKey
  BY <1>4, <1>5 DEF SkippedKey, KeyOf, MessageKey
<1>7. IsDeque(D)
  <2>1. IsFiniteSet((back + 1)..(back + until - from))
    BY <1>1, FS_Interval
  <2>2. IsFiniteSet(DOMAIN D)
    BY <1>2, <2>1, FS_Union DEF IsDeque
  <2>3. DOMAIN D \in SUBSET (Nat \ {0})
    BY <1>5 DEF IsDeque
  <2> QED BY <1>3, <1>6, <2>2, <2>3 DEF IsDeque
<1>8. ASSUME NEW i \in DOMAIN D \ DOMAIN deque, NEW j \in DOMAIN D \ DOMAIN deque,
             D[i].key = D[j].key
      PROVE  i = j
  <2>1. KeyOf(chain, Pushed(i)).number = KeyOf(chain, Pushed(j)).number
    BY <1>4, <1>8
  <2>2. Pushed(i) = Pushed(j)
    BY <2>1 DEF KeyOf
  <2> QED BY <2>2, <1>1, <1>5
<1>9. \A i \in DOMAIN D \ DOMAIN deque :
        \E n \in from..until - 1 :
          D[i] = [ratchet |-> ratchet, number |-> n, key |-> KeyOf(chain, n)]
  BY <1>4, <1>5
<1>10. DOMAIN deque \subseteq DOMAIN D
  BY <1>2
<1> QED BY <1>3, <1>7, <1>8, <1>9, <1>10 DEF D

\* Extend only drops entries from what PushBack returns.
LEMMA ExtendFacts ==
  ASSUME NEW deque, IsDeque(deque), NEW ratchet \in PublicKey, NEW chain \in RootKey,
         NEW from \in Nat, NEW until \in Nat
  PROVE  LET D == PushBack(deque, ratchet, chain, from, until)
             E == Extend(deque, ratchet, chain, from, until)
         IN  /\ IsDeque(E)
             /\ DOMAIN E \subseteq DOMAIN D
             /\ \A i \in DOMAIN E : E[i] = D[i]
<1> DEFINE D == PushBack(deque, ratchet, chain, from, until)
           C == EvictOldestOfChain(D, ratchet)
<1>1. IsDeque(D)
  BY PushBackFacts
<1> HIDE DEF D
<1>2. IsDeque(C) /\ DOMAIN C \subseteq DOMAIN D /\ \A i \in DOMAIN C : C[i] = D[i]
  <2>1. PICK P : C = Without(D, P)
    BY DEF EvictOldestOfChain
  <2>2. /\ IsDeque(Without(D, P))
        /\ DOMAIN Without(D, P) = DOMAIN D \ P
        /\ \A i \in DOMAIN Without(D, P) : Without(D, P)[i] = D[i]
    BY <1>1, WithoutFacts
  <2> HIDE DEF C
  <2>3. IsDeque(C) /\ DOMAIN C = DOMAIN D \ P /\ \A i \in DOMAIN C : C[i] = D[i]
    BY <2>1, <2>2, Zenon
  <2> QED BY <2>3
<1> HIDE DEF C
<1> DEFINE E == PopFrontToLimit(C)
<1>3. IsDeque(E) /\ DOMAIN E \subseteq DOMAIN C /\ \A i \in DOMAIN E : E[i] = C[i]
  <2>1. PICK P : E = Without(C, P)
    BY DEF PopFrontToLimit
  <2>2. /\ IsDeque(Without(C, P))
        /\ DOMAIN Without(C, P) = DOMAIN C \ P
        /\ \A i \in DOMAIN Without(C, P) : Without(C, P)[i] = C[i]
    BY <1>2, WithoutFacts
  <2> HIDE DEF E
  <2>3. IsDeque(E) /\ DOMAIN E = DOMAIN C \ P /\ \A i \in DOMAIN E : E[i] = C[i]
    BY <2>1, <2>2, Zenon
  <2> QED BY <2>3
<1>4. E = Extend(deque, ratchet, chain, from, until)
  BY DEF Extend, C, D
<1> HIDE DEF E
<1>5. DOMAIN E \subseteq DOMAIN D /\ \A i \in DOMAIN E : E[i] = D[i]
  BY <1>2, <1>3
<1> QED BY <1>3, <1>4, <1>5 DEF D

\* Extend leaves old entries where they were, and new ones for distinct skipped
\* numbers of the chain.
LEMMA ExtendEntries ==
  ASSUME NEW deque, IsDeque(deque), NEW ratchet \in PublicKey, NEW chain \in RootKey,
         NEW from \in Nat, NEW until \in Nat
  PROVE  LET E == Extend(deque, ratchet, chain, from, until)
         IN  /\ IsDeque(E)
             /\ \A i \in DOMAIN E \cap DOMAIN deque : E[i] = deque[i]
             /\ \A i \in DOMAIN E \ DOMAIN deque :
                  \E n \in from..until - 1 :
                    E[i] = [ratchet |-> ratchet, number |-> n, key |-> KeyOf(chain, n)]
             /\ \A i, j \in DOMAIN E \ DOMAIN deque : E[i].key = E[j].key => i = j
             /\ EvictedBy(deque, ratchet, chain, from, until) \subseteq MessageKey
<1> DEFINE D == PushBack(deque, ratchet, chain, from, until)
           E == Extend(deque, ratchet, chain, from, until)
<1>1. /\ IsDeque(D)
      /\ DOMAIN deque \subseteq DOMAIN D
      /\ \A i \in DOMAIN deque : D[i] = deque[i]
      /\ \A i \in DOMAIN D \ DOMAIN deque :
           \E n \in from..until - 1 :
             D[i] = [ratchet |-> ratchet, number |-> n, key |-> KeyOf(chain, n)]
      /\ \A i, j \in DOMAIN D \ DOMAIN deque : D[i].key = D[j].key => i = j
  BY PushBackFacts
<1>2. IsDeque(E) /\ DOMAIN E \subseteq DOMAIN D /\ \A i \in DOMAIN E : E[i] = D[i]
  BY ExtendFacts
<1>3. EvictedBy(deque, ratchet, chain, from, until) \subseteq Keys(D)
  BY DEF EvictedBy
<1>4. Keys(D) \subseteq MessageKey
  BY <1>1 DEF Keys, IsDeque, SkippedKey
<1> HIDE DEF D, E
<1>5. /\ \A i \in DOMAIN E \cap DOMAIN deque : E[i] = deque[i]
      /\ \A i \in DOMAIN E \ DOMAIN deque :
           \E n \in from..until - 1 :
             E[i] = [ratchet |-> ratchet, number |-> n, key |-> KeyOf(chain, n)]
      /\ \A i, j \in DOMAIN E \ DOMAIN deque : E[i].key = E[j].key => i = j
  BY <1>1, <1>2
<1> QED BY <1>2, <1>3, <1>4, <1>5 DEF E

-----------------------------------------------------------------------------
(* The limits *)

\* A set less its oldest elements is as small as the limit that they exceeded.
LEMMA OldestLeft ==
  ASSUME NEW S \in SUBSET Nat, IsFiniteSet(S), NEW limit \in Nat
  PROVE  Cardinality(S \ Oldest(S, Cardinality(S) - limit)) <= limit
<1> DEFINE kept == S \ Oldest(S, Cardinality(S) - limit)
<1>1. CASE kept = {}
  BY <1>1, FS_EmptySet
<1>2. CASE kept # {}
  <2>1. PICK m \in kept : \A i \in kept : m <= i
    BY <1>2, LeastNat
  <2> DEFINE older == {j \in S : j < m}
  <2>2. ~(Cardinality(older) < Cardinality(S) - limit)
    BY DEF Oldest
  <2>3. kept \subseteq S \ older
    <3>1. kept \subseteq S
      OBVIOUS
    <3> HIDE DEF kept
    <3>2. \A i \in kept : i \in Nat /\ m \in Nat /\ ~(i < m)
      BY <2>1, <3>1
    <3> QED BY <3>1, <3>2
  <2>4. older = S \cap older
    OBVIOUS
  <2> HIDE DEF kept, older
  <2>5. /\ IsFiniteSet(S \ older)
        /\ Cardinality(S \ older) = Cardinality(S) - Cardinality(older)
    BY <2>4, FS_Difference
  <2>6. IsFiniteSet(older) /\ Cardinality(older) \in Nat /\ Cardinality(S) \in Nat
    <3>1. older \in SUBSET S
      BY <2>4
    <3> QED BY <3>1, FS_Subset, FS_CardinalityType
  <2>7. Cardinality(kept) <= Cardinality(S \ older)
    BY <2>3, <2>5, FS_Subset
  <2>8. Cardinality(kept) \in Nat
    BY <2>3, <2>5, FS_Subset, FS_CardinalityType
  <2> QED BY <2>2, <2>5, <2>6, <2>7, <2>8 DEF kept
<1> QED BY <1>1, <1>2

OfChain(deque, ratchet) == {i \in DOMAIN deque : deque[i].ratchet = ratchet}

\* The inductive form of SkippedKeysBounded: the limit of a chain holds for every
\* ratchet key, those without a stored key included.
WithinLimits(deque) ==
  /\ Cardinality(DOMAIN deque) <= MAX_SKIPPED_TOTAL
  /\ \A ratchet \in PublicKey : Cardinality(OfChain(deque, ratchet)) <= MAX_SKIP_PER_CHAIN

\* Fewer entries at the same positions: each chain shrinks, and so does the whole.
LEMMA FewerEntries ==
  ASSUME NEW deque, IsDeque(deque), NEW rest, IsDeque(rest),
         DOMAIN rest \subseteq DOMAIN deque, \A i \in DOMAIN rest : rest[i] = deque[i]
  PROVE  /\ Cardinality(DOMAIN rest) <= Cardinality(DOMAIN deque)
         /\ Cardinality(DOMAIN rest) \in Nat /\ Cardinality(DOMAIN deque) \in Nat
         /\ \A ratchet : /\ Cardinality(OfChain(rest, ratchet)) <= Cardinality(OfChain(deque, ratchet))
                         /\ Cardinality(OfChain(rest, ratchet)) \in Nat
                         /\ Cardinality(OfChain(deque, ratchet)) \in Nat
<1>1. /\ Cardinality(DOMAIN rest) <= Cardinality(DOMAIN deque)
      /\ Cardinality(DOMAIN rest) \in Nat /\ Cardinality(DOMAIN deque) \in Nat
  BY FS_Subset, FS_CardinalityType DEF IsDeque
<1>2. ASSUME NEW ratchet
      PROVE  /\ Cardinality(OfChain(rest, ratchet)) <= Cardinality(OfChain(deque, ratchet))
             /\ Cardinality(OfChain(rest, ratchet)) \in Nat
             /\ Cardinality(OfChain(deque, ratchet)) \in Nat
  <2>1. OfChain(rest, ratchet) \subseteq OfChain(deque, ratchet)
    BY DEF OfChain
  <2>2. IsFiniteSet(OfChain(deque, ratchet))
    <3>1. OfChain(deque, ratchet) \in SUBSET DOMAIN deque
      BY DEF OfChain
    <3> QED BY <3>1, FS_Subset DEF IsDeque
  <2>3. IsFiniteSet(OfChain(rest, ratchet))
    BY <2>1, <2>2, FS_Subset
  <2> QED BY <2>1, <2>2, <2>3, FS_Subset, FS_CardinalityType
<1> QED BY <1>1, <1>2

\* Dropping entries keeps both limits.
LEMMA WithoutWithinLimits ==
  ASSUME NEW deque, IsDeque(deque), WithinLimits(deque), NEW P
  PROVE  WithinLimits(Without(deque, P))
<1> DEFINE rest == Without(deque, P)
<1>1. IsDeque(rest) /\ DOMAIN rest = DOMAIN deque \ P /\ \A i \in DOMAIN rest : rest[i] = deque[i]
  BY WithoutFacts
<1>2. DOMAIN rest \subseteq DOMAIN deque
  BY <1>1
<1> HIDE DEF rest
<1>3. /\ Cardinality(DOMAIN rest) <= Cardinality(DOMAIN deque)
      /\ Cardinality(DOMAIN rest) \in Nat /\ Cardinality(DOMAIN deque) \in Nat
      /\ \A ratchet : /\ Cardinality(OfChain(rest, ratchet)) <= Cardinality(OfChain(deque, ratchet))
                      /\ Cardinality(OfChain(rest, ratchet)) \in Nat
                      /\ Cardinality(OfChain(deque, ratchet)) \in Nat
  BY <1>1, <1>2, FewerEntries
<1>4. WithinLimits(rest)
  BY <1>3, LimitsAssumption DEF WithinLimits
<1> QED BY <1>4 DEF rest

\* Extend restores both limits: the chain it pushed to and the whole store are cut
\* down to theirs, and no other chain has grown.
LEMMA ExtendWithinLimits ==
  ASSUME NEW deque, IsDeque(deque), WithinLimits(deque),
         NEW ratchet \in PublicKey, NEW chain \in RootKey, NEW from \in Nat, NEW until \in Nat
  PROVE  WithinLimits(Extend(deque, ratchet, chain, from, until))
<1> DEFINE D == PushBack(deque, ratchet, chain, from, until)
           excess == Oldest(OfChain(D, ratchet), Cardinality(OfChain(D, ratchet)) - MAX_SKIP_PER_CHAIN)
           C == Without(D, excess)
           front == Oldest(DOMAIN C, Cardinality(DOMAIN C) - MAX_SKIPPED_TOTAL)
           E == Without(C, front)
<1>1. /\ IsDeque(D)
      /\ DOMAIN deque \subseteq DOMAIN D
      /\ \A i \in DOMAIN deque : D[i] = deque[i]
      /\ \A i \in DOMAIN D \ DOMAIN deque :
           \E n \in from..until - 1 :
             D[i] = [ratchet |-> ratchet, number |-> n, key |-> KeyOf(chain, n)]
  BY PushBackFacts
<1>2. E = Extend(deque, ratchet, chain, from, until)
  BY DEF Extend, PopFrontToLimit, EvictOldestOfChain, OfChain
<1> HIDE DEF D
<1>3. \A i \in DOMAIN D \ DOMAIN deque : D[i].ratchet = ratchet
  BY <1>1
<1>4. /\ OfChain(D, ratchet) \in SUBSET Nat
      /\ IsFiniteSet(OfChain(D, ratchet))
  <2>1. OfChain(D, ratchet) \in SUBSET DOMAIN D
    BY DEF OfChain
  <2> QED BY <1>1, <2>1, FS_Subset DEF IsDeque
<1>5. Cardinality(OfChain(D, ratchet) \ excess) <= MAX_SKIP_PER_CHAIN
  BY <1>4, LimitsAssumption, OldestLeft
<1> HIDE DEF excess
<1>6. IsDeque(C) /\ DOMAIN C = DOMAIN D \ excess /\ \A i \in DOMAIN C : C[i] = D[i]
  BY <1>1, WithoutFacts
<1> HIDE DEF C
<1>7. OfChain(C, ratchet) = OfChain(D, ratchet) \ excess
  BY <1>6 DEF OfChain
<1>8. ASSUME NEW other \in PublicKey
      PROVE  Cardinality(OfChain(C, other)) <= MAX_SKIP_PER_CHAIN
  <2>1. CASE other = ratchet
    BY <1>5, <1>7, <2>1
  <2>2. CASE other # ratchet
    <3>1. OfChain(C, other) \subseteq OfChain(deque, other)
      BY <1>1, <1>3, <1>6, <2>2 DEF OfChain
    <3>2. IsFiniteSet(OfChain(deque, other))
      <4>1. OfChain(deque, other) \in SUBSET DOMAIN deque
        BY DEF OfChain
      <4> QED BY <4>1, FS_Subset DEF IsDeque
    <3>3. /\ Cardinality(OfChain(C, other)) <= Cardinality(OfChain(deque, other))
          /\ Cardinality(OfChain(C, other)) \in Nat /\ Cardinality(OfChain(deque, other)) \in Nat
      BY <3>1, <3>2, FS_Subset, FS_CardinalityType
    <3>4. Cardinality(OfChain(deque, other)) <= MAX_SKIP_PER_CHAIN
      BY DEF WithinLimits
    <3> QED BY <3>3, <3>4, LimitsAssumption
  <2> QED BY <2>1, <2>2
<1>9. Cardinality(DOMAIN C \ front) <= MAX_SKIPPED_TOTAL
  <2>1. DOMAIN C \in SUBSET Nat /\ IsFiniteSet(DOMAIN C)
    BY <1>6 DEF IsDeque
  <2> QED BY <2>1, LimitsAssumption, OldestLeft
<1> HIDE DEF front
<1>10. IsDeque(E) /\ DOMAIN E = DOMAIN C \ front /\ \A i \in DOMAIN E : E[i] = C[i]
  BY <1>6, WithoutFacts
<1>11. DOMAIN E \subseteq DOMAIN C
  BY <1>10
<1> HIDE DEF E
<1>12. \A other : /\ Cardinality(OfChain(E, other)) <= Cardinality(OfChain(C, other))
                  /\ Cardinality(OfChain(E, other)) \in Nat
                  /\ Cardinality(OfChain(C, other)) \in Nat
  BY <1>6, <1>10, <1>11, FewerEntries
<1>13. \A other \in PublicKey : Cardinality(OfChain(E, other)) <= MAX_SKIP_PER_CHAIN
  BY <1>8, <1>12, LimitsAssumption
<1>14. Cardinality(DOMAIN E) <= MAX_SKIPPED_TOTAL
  BY <1>9, <1>10
<1>15. WithinLimits(E)
  BY <1>13, <1>14 DEF WithinLimits
<1> QED BY <1>2, <1>15

-----------------------------------------------------------------------------
(* Type correctness *)

Parts == {"ratchet", "previous_chain_len", "message_number", "body"}

\* A damaged frame is still a frame.
LEMMA DamagedFrame ==
  ASSUME TypeOK, NEW g \in Carried, NEW part \in Parts, NEW f \in DamagedIn(g, part)
  PROVE  f \in Frame
<1>1. Carried \subseteq Frame
  BY DEF TypeOK, Carried, Party
<1>2. CHAIN_LIMIT \in Nat
  BY LimitsAssumption
<1>3. \A n \in 0..CHAIN_LIMIT + 1 : n \in Nat
  BY <1>2
<1>4. CASE part = "ratchet"
  <2>1. PICK r \in {LowOrder, Foreign} \cup {h.header.ratchet : h \in Carried} :
          f = [g EXCEPT !.header.ratchet = r]
    BY <1>4 DEF DamagedIn
  <2>2. r \in PublicKey
    BY <1>1, <2>1 DEF Frame, Header, PublicKey
  <2> QED BY <1>1, <2>1, <2>2 DEF Frame, Header
<1>5. CASE part = "previous_chain_len"
  <2>1. PICK n \in 0..CHAIN_LIMIT + 1 : f = [g EXCEPT !.header.previous_chain_len = n]
    BY <1>5 DEF DamagedIn
  <2> QED BY <1>1, <1>3, <2>1 DEF Frame, Header
<1>6. CASE part = "message_number"
  <2>1. PICK n \in 0..CHAIN_LIMIT + 1 : f = [g EXCEPT !.header.message_number = n]
    BY <1>6 DEF DamagedIn
  <2> QED BY <1>1, <1>3, <2>1 DEF Frame, Header
<1>7. CASE part = "body"
  <2>1. f = [g EXCEPT !.key = None]
    BY <1>7 DEF DamagedIn
  <2> QED BY <1>1, <2>1 DEF Frame
<1> QED BY <1>4, <1>5, <1>6, <1>7 DEF Parts

\* So is every frame that arrives.
LEMMA ArrivingFrames ==
  ASSUME TypeOK, NEW g \in Carried, NEW f \in {g} \cup Damaged(g)
  PROVE  f \in Frame
<1>1. Carried \subseteq Frame
  BY DEF TypeOK, Carried, Party
<1> QED BY <1>1, DamagedFrame, DamageAssumption DEF Damaged, Parts

\* One kdf_root lengthens the root key by one DH secret.
LEMMA KdfRootType ==
  ASSUME NEW root \in RootKey, NEW own \in PublicKey, NEW remote \in PublicKey
  PROVE  /\ KdfRoot(root, own, remote) \in RootKey
         /\ Len(KdfRoot(root, own, remote)) = Len(root) + 1
BY DEF KdfRoot, RootKey

\* The sessions that initiator and responder build are well formed.
LEMMA InitTypeOK == Init => TypeOK
<1> SUFFICES ASSUME Init PROVE TypeOK
  OBVIOUS
<1>1. << >> \in RootKey /\ SharedKey = << >>
  BY DEF RootKey, SharedKey
<1>2. <<"Alice", 0>> \in RatchetKey /\ <<"Bob", 0>> \in RatchetKey /\ RatchetKey \subseteq PublicKey
  BY DEF RatchetKey, PublicKey, Party
<1>3. IsDeque(<< >>)
  BY FS_EmptySet DEF IsDeque
<1>4. IsSession(session["Alice"])
  BY <1>1, <1>2, <1>3, KdfRootType
     DEF Init, Party, InitiatorSession, IsSession, ChainStart, Chain
<1>5. IsSession(session["Bob"])
  BY <1>1, <1>2, <1>3 DEF Init, Party, ResponderSession, IsSession
<1> QED BY <1>4, <1>5 DEF Init, TypeOK, Party

\* What a step of party p must keep for the state to stay well typed.
LEMMA SessionStep ==
  ASSUME TypeOK, NEW p \in Party, NEW s, IsSession(s),
         session' = [session EXCEPT ![p] = s]
  PROVE  DOMAIN session' = Party /\ \A q \in Party : IsSession(session[q]')
BY DEF TypeOK

\* encrypt keeps every type.
LEMMA EncryptTypeOK ==
  ASSUME TypeOK, NEW p \in Party, Encrypt(p)
  PROVE  TypeOK'
<1> DEFINE s == session[p]
<1>1. IsSession(s) /\ s.sending \in Chain
  BY DEF TypeOK, Encrypt, Seals, CanSend, IsSession
<1> DEFINE t == [s EXCEPT !.sending.next = s.sending.next + 1]
<1>2. session' = [session EXCEPT ![p] = t]
  BY DEF Encrypt, AfterSealing
<1>3. IsSession(t)
  BY <1>1 DEF IsSession, Chain
<1>4. NextFrame(p) \in Frame
  BY <1>1 DEF NextFrame, SealedFrame, NextHeader, KeyOf, Frame, Header, MessageKey, Chain, IsSession, TypeOK, PublicKey
<1> HIDE DEF t
<1> QED BY <1>2, <1>3, <1>4, SessionStep DEF Encrypt, Seals, TypeOK

-----------------------------------------------------------------------------
(* What a successful answer means *)

\* A number the cursor accepts is not behind its chain, nor past the chain's end.
LEMMA NumberOk ==
  ASSUME NEW next \in Nat, NEW number \in Nat, NumberResult(next, number) = "Ok"
  PROVE  next <= number /\ number < CHAIN_LIMIT
BY LimitsAssumption DEF NumberResult

\* What `open` accepts is whole, under the header it was sealed with.
LEMMA OpenOk ==
  ASSUME NEW key, NEW f, OpenResult(key, f) = "Ok"
  PROVE  f.key = key /\ f.aad = f.header
BY DEF OpenResult, Opens

\* A frame opened with a skipped key was matched by its ratchet key and number.
LEMMA SkippedOk ==
  ASSUME NEW s, IsSession(s), NEW f \in Frame,
         IsSkipped(s, f), SkippedResult(s, f) = "Ok"
  PROVE  LET i == Position(s.skipped, f.header)
         IN  /\ i \in DOMAIN s.skipped
             /\ s.skipped[i].number = f.header.message_number
             /\ f.key = s.skipped[i].key
             /\ f.aad = f.header
<1> DEFINE M == Matches(s.skipped, f.header)
<1>1. M \in SUBSET Nat /\ M # {}
  BY DEF Matches, IsSkipped, IsSession, IsDeque
<1>2. Min(M) \in M
  BY <1>1, MinFirst
<1>3. Position(s.skipped, f.header) \in M
  BY <1>2 DEF Position
<1>4. /\ f.key = s.skipped[Position(s.skipped, f.header)].key
      /\ f.aad = f.header
  BY OpenOk DEF SkippedResult
<1> QED BY <1>3, <1>4 DEF Matches

\* A frame opened in the receiving chain has a key the chain has not passed.
LEMMA ReceivingOk ==
  ASSUME NEW s, IsSession(s), NEW f \in Frame, ReceivingResult(s, f) = "Ok"
  PROVE  /\ s.receiving # None
         /\ s.receiving \in Chain
         /\ s.receiving.next <= f.header.message_number
         /\ f.key = KeyOf(s.receiving.key, f.header.message_number)
         /\ f.aad = f.header
<1>1. s.receiving # None
  BY DEF ReceivingResult
<1>2. s.receiving \in Chain
  BY <1>1 DEF IsSession
<1>3. NumberResult(s.receiving.next, f.header.message_number) = "Ok"
  BY <1>1 DEF ReceivingResult
<1>4. OpenResult(KeyOf(s.receiving.key, f.header.message_number), f) = "Ok"
  BY <1>1, <1>3 DEF ReceivingResult
<1>5. s.receiving.next <= f.header.message_number
  BY <1>2, <1>3, NumberOk DEF Chain, Frame, Header
<1> QED BY <1>1, <1>2, <1>4, <1>5, OpenOk

\* A frame opened after a ratchet step has a key of the chain the step derives.
LEMMA StepOk ==
  ASSUME NEW s, NEW f \in Frame, NEW fresh, StepResult(s, f, fresh) = "Ok"
  PROVE  /\ f.key = KeyOf(KdfRoot(s.root_key, s.own_ratchet, f.header.ratchet),
                          f.header.message_number)
         /\ f.aad = f.header
<1>1. NumberResult(0, f.header.message_number) = "Ok"
  BY DEF StepResult
<1>2. OpenResult(KeyOf(KdfRoot(s.root_key, s.own_ratchet, f.header.ratchet),
                       f.header.message_number), f) = "Ok"
  BY <1>1 DEF StepResult
<1> QED BY <1>2, OpenOk

-----------------------------------------------------------------------------

\* A session with a new store and an advanced receiving chain, field by field.
LEMMA AdvanceReceiving ==
  ASSUME NEW s, IsSession(s), NEW E, NEW n
  PROVE  [s EXCEPT !.skipped = E, !.receiving.next = n] =
           [root_key |-> s.root_key, own_ratchet |-> s.own_ratchet,
            remote_ratchet |-> s.remote_ratchet, sending |-> s.sending,
            receiving |-> [s.receiving EXCEPT !.next = n],
            previous_sending_len |-> s.previous_sending_len, skipped |-> E]
<1> DEFINE u == [s EXCEPT !.skipped = E]
<1>1. u = [root_key |-> s.root_key, own_ratchet |-> s.own_ratchet,
           remote_ratchet |-> s.remote_ratchet, sending |-> s.sending,
           receiving |-> s.receiving,
           previous_sending_len |-> s.previous_sending_len, skipped |-> E]
  BY DEF IsSession
<1>2. [s EXCEPT !.skipped = E, !.receiving.next = n] = [u EXCEPT !.receiving.next = n]
  OBVIOUS
<1> HIDE DEF u
<1>3. [u EXCEPT !.receiving.next = n] =
        [root_key |-> u.root_key, own_ratchet |-> u.own_ratchet,
         remote_ratchet |-> u.remote_ratchet, sending |-> u.sending,
         receiving |-> [u.receiving EXCEPT !.next = n],
         previous_sending_len |-> u.previous_sending_len, skipped |-> u.skipped]
  BY <1>1
<1> QED BY <1>1, <1>2, <1>3

\* Opening a stored frame keeps every type.
LEMMA DecryptSkippedTypeOK ==
  ASSUME TypeOK, NEW p \in Party, NEW f \in Frame, DecryptSkipped(p, f)
  PROVE  TypeOK'
<1> DEFINE s == session[p]
           t == [s EXCEPT !.skipped = Without(s.skipped, {Position(s.skipped, f.header)})]
<1>1. IsSession(s)
  BY DEF TypeOK
<1>2. session' = [session EXCEPT ![p] = t]
  BY DEF DecryptSkipped, AfterStoredKey
<1>3. IsDeque(Without(s.skipped, {Position(s.skipped, f.header)}))
  BY <1>1, WithoutFacts DEF IsSession
<1>4. IsSession(t)
  BY <1>1, <1>3 DEF IsSession
<1> HIDE DEF t
<1> QED BY <1>2, <1>4, SessionStep DEF DecryptSkipped, Returns, TypeOK

\* Opening in the receiving chain keeps every type.
LEMMA DecryptInReceivingChainTypeOK ==
  ASSUME TypeOK, NEW p \in Party, NEW f \in Frame, DecryptInReceivingChain(p, f)
  PROVE  TypeOK'
<1> DEFINE s == session[p]
           h == f.header
           E == Extend(s.skipped, h.ratchet, s.receiving.key, s.receiving.next, h.message_number)
           V == EvictedBy(s.skipped, h.ratchet, s.receiving.key, s.receiving.next, h.message_number)
           t == [s EXCEPT !.skipped = E, !.receiving.next = h.message_number + 1]
<1>1. IsSession(s) /\ s.receiving \in Chain
  BY ReceivingOk DEF TypeOK, DecryptInReceivingChain
<1>2. session' = [session EXCEPT ![p] = t]
  BY DEF DecryptInReceivingChain, AfterReceiving
<1>3. /\ IsDeque(s.skipped) /\ s.receiving.key \in RootKey /\ s.receiving.next \in Nat
      /\ h.ratchet \in PublicKey /\ h.message_number \in Nat
  BY <1>1 DEF IsSession, Chain, Frame, Header
<1>4. IsDeque(E) /\ V \subseteq MessageKey
  BY <1>3, ExtendEntries
<1> HIDE DEF E, V
<1>5. IsSession(t)
  <2>1. [s.receiving EXCEPT !.next = h.message_number + 1] \in Chain
    BY <1>1, <1>3 DEF Chain
  <2>2. t = [root_key |-> s.root_key, own_ratchet |-> s.own_ratchet,
             remote_ratchet |-> s.remote_ratchet, sending |-> s.sending,
             receiving |-> [s.receiving EXCEPT !.next = h.message_number + 1],
             previous_sending_len |-> s.previous_sending_len, skipped |-> E]
    BY <1>1, AdvanceReceiving
  <2> HIDE DEF t
  <2> QED BY <1>1, <1>4, <2>1, <2>2 DEF IsSession
<1>6. evicted' = [evicted EXCEPT ![p] = @ \cup V]
  BY DEF DecryptInReceivingChain, V
<1> HIDE DEF t
<1> QED BY <1>2, <1>4, <1>5, <1>6, SessionStep DEF DecryptInReceivingChain, Returns, TypeOK

\* The store between the two calls to extend of a ratchet step.
LEMMA SkippedOfPreviousType ==
  ASSUME NEW s, IsSession(s), NEW h \in Header
  PROVE  IsDeque(SkippedOfPrevious(s, h)) /\ EvictedOfPrevious(s, h) \subseteq MessageKey
<1>1. CASE s.receiving = None \/ s.remote_ratchet = None
  BY <1>1 DEF SkippedOfPrevious, EvictedOfPrevious, IsSession
<1>2. CASE ~(s.receiving = None \/ s.remote_ratchet = None)
  <2>1. /\ IsDeque(s.skipped) /\ s.receiving.key \in RootKey /\ s.receiving.next \in Nat
        /\ s.remote_ratchet \in PublicKey /\ h.previous_chain_len \in Nat
    BY <1>2 DEF IsSession, Chain, Header
  <2> QED BY <1>2, <2>1, ExtendEntries DEF SkippedOfPrevious, EvictedOfPrevious
<1> QED BY <1>1, <1>2

\* What a ratchet step derives: two root keys, a new own key and a new store.
LEMMA RatchetStepType ==
  ASSUME NEW s, IsSession(s), NEW h \in Header
  PROVE  LET fresh == Generate(s.own_ratchet)
             received == KdfRoot(s.root_key, s.own_ratchet, h.ratchet)
             replied == KdfRoot(received, fresh, h.ratchet)
         IN  /\ fresh \in RatchetKey
             /\ received \in RootKey /\ Len(received) = Len(s.root_key) + 1
             /\ replied \in RootKey /\ Len(replied) = Len(s.root_key) + 2
             /\ EvictedBy(SkippedOfPrevious(s, h), h.ratchet, received, 0, h.message_number)
                  \subseteq MessageKey
             /\ IsSession(RatchetStep(s, h, fresh))
<1> DEFINE fresh == Generate(s.own_ratchet)
           received == KdfRoot(s.root_key, s.own_ratchet, h.ratchet)
           replied == KdfRoot(received, fresh, h.ratchet)
           E == Extend(SkippedOfPrevious(s, h), h.ratchet, received, 0, h.message_number)
<1>1. fresh \in RatchetKey
  BY DEF Generate, IsSession, RatchetKey
<1>2. /\ h.ratchet \in PublicKey /\ h.message_number \in Nat /\ s.root_key \in RootKey
      /\ s.own_ratchet \in PublicKey /\ fresh \in PublicKey /\ Len(s.root_key) \in Nat
  BY <1>1 DEF Header, IsSession, PublicKey, RootKey
<1> HIDE DEF fresh
<1>3. received \in RootKey /\ Len(received) = Len(s.root_key) + 1
  BY <1>2, KdfRootType
<1> HIDE DEF received
<1>4. replied \in RootKey /\ Len(replied) = Len(s.root_key) + 2
  <2>1. replied \in RootKey /\ Len(replied) = Len(received) + 1
    BY <1>2, <1>3, KdfRootType
  <2> HIDE DEF replied
  <2> QED BY <1>2, <1>3, <2>1
<1>5. /\ IsDeque(E)
      /\ EvictedBy(SkippedOfPrevious(s, h), h.ratchet, received, 0, h.message_number)
           \subseteq MessageKey
  BY <1>2, <1>3, SkippedOfPreviousType, ExtendEntries
<1> HIDE DEF replied, E
<1>6. PreviousSendingLen(s) \in Nat
  BY DEF PreviousSendingLen, IsSession, Chain
<1>7. RatchetStep(s, h, fresh) =
        [root_key |-> replied, own_ratchet |-> fresh, remote_ratchet |-> h.ratchet,
         sending |-> ChainStart(replied),
         receiving |-> [key |-> received, next |-> h.message_number + 1],
         previous_sending_len |-> PreviousSendingLen(s), skipped |-> E]
  BY DEF RatchetStep, received, replied, E
<1>8. ChainStart(replied) \in Chain /\ [key |-> received, next |-> h.message_number + 1] \in Chain
  BY <1>2, <1>3, <1>4 DEF ChainStart, Chain
<1>9. IsSession(RatchetStep(s, h, fresh))
  BY <1>1, <1>2, <1>4, <1>5, <1>6, <1>7, <1>8 DEF IsSession
<1> QED BY <1>1, <1>3, <1>4, <1>5, <1>9 DEF fresh, received, replied

\* A ratchet step keeps every type.
LEMMA DecryptAfterRatchetStepTypeOK ==
  ASSUME TypeOK, NEW p \in Party, NEW f \in Frame, DecryptAfterRatchetStep(p, f)
  PROVE  TypeOK'
<1> DEFINE s == session[p]
           h == f.header
           fresh == Generate(s.own_ratchet)
           V == EvictedBy(SkippedOfPrevious(s, h), h.ratchet,
                          KdfRoot(s.root_key, s.own_ratchet, h.ratchet), 0, h.message_number)
<1>1. IsSession(s) /\ h \in Header
  BY DEF TypeOK, Frame
<1>2. /\ IsSession(RatchetStep(s, h, fresh))
      /\ V \subseteq MessageKey
      /\ EvictedOfPrevious(s, h) \subseteq MessageKey
  BY <1>1, RatchetStepType, SkippedOfPreviousType
<1>3. /\ session' = [session EXCEPT ![p] = RatchetStep(s, h, fresh)]
      /\ evicted' = [evicted EXCEPT ![p] = @ \cup EvictedOfPrevious(s, h) \cup V]
  BY DEF DecryptAfterRatchetStep
<1> HIDE DEF V, fresh
<1> QED BY <1>2, <1>3, SessionStep DEF DecryptAfterRatchetStep, Returns, TypeOK

\* Every step keeps every type.
LEMMA NextTypeOK == TypeOK /\ [Next]_vars => TypeOK'
<1> SUFFICES ASSUME TypeOK, [Next]_vars PROVE TypeOK'
  OBVIOUS
<1>1. CASE UNCHANGED vars
  BY <1>1 DEF vars, TypeOK, IsSession, IsDeque
<1>2. ASSUME NEW p \in Party, Encrypt(p) PROVE TypeOK'
  BY <1>2, EncryptTypeOK
<1>3. ASSUME NEW p \in Party, EncryptRefused(p) PROVE TypeOK'
  BY <1>1, <1>3 DEF EncryptRefused
<1>4. ASSUME NEW p \in Party, NEW g \in Carried, NEW f \in {g} \cup Damaged(g), Decrypt(p, f)
      PROVE  TypeOK'
  <2>1. f \in Frame
    BY ArrivingFrames
  <2>2. CASE DecryptSkipped(p, f)
    BY <2>1, <2>2, DecryptSkippedTypeOK
  <2>3. CASE DecryptInReceivingChain(p, f)
    BY <2>1, <2>3, DecryptInReceivingChainTypeOK
  <2>4. CASE DecryptAfterRatchetStep(p, f)
    BY <2>1, <2>4, DecryptAfterRatchetStepTypeOK
  <2>5. CASE DecryptRefused(p, f)
    BY <1>1, <2>5 DEF DecryptRefused
  <2> QED BY <1>4, <2>2, <2>3, <2>4, <2>5 DEF Decrypt
<1> QED BY <1>1, <1>2, <1>3, <1>4 DEF Next

\* Whatever the carrier does, sessions and histories stay well formed: no session
\* ever holds a key, a chain or a store entry of another shape.
THEOREM TypeCorrect == Spec => []TypeOK
<1>1. Init => TypeOK
  BY InitTypeOK
<1>2. TypeOK /\ [Next]_vars => TypeOK'
  BY NextTypeOK
<1> QED BY <1>1, <1>2, PTL DEF Spec

-----------------------------------------------------------------------------
(* The limits of the store *)

StoresWithinLimits == \A p \in Party : WithinLimits(session[p].skipped)

\* A step of party p keeps the limits when the session it leaves p is within them.
LEMMA StoreStep ==
  ASSUME TypeOK, StoresWithinLimits, NEW p \in Party, NEW s, WithinLimits(s.skipped),
         session' = [session EXCEPT ![p] = s]
  PROVE  StoresWithinLimits'
<1>1. \A q \in Party : session'[q] = IF q = p THEN s ELSE session[q]
  BY DEF TypeOK
<1>2. \A q \in Party : WithinLimits(session'[q].skipped)
  BY <1>1 DEF StoresWithinLimits
<1> QED BY <1>2 DEF StoresWithinLimits, WithinLimits, OfChain

\* What both calls to extend of a ratchet step leave is within the limits.
LEMMA StepWithinLimits ==
  ASSUME NEW s, IsSession(s), WithinLimits(s.skipped), NEW h \in Header
  PROVE  WithinLimits(RatchetStep(s, h, Generate(s.own_ratchet)).skipped)
<1> DEFINE previous == SkippedOfPrevious(s, h)
           received == KdfRoot(s.root_key, s.own_ratchet, h.ratchet)
<1>1. IsDeque(previous)
  BY SkippedOfPreviousType
<1>2. WithinLimits(previous)
  <2>1. CASE s.receiving = None \/ s.remote_ratchet = None
    BY <2>1 DEF SkippedOfPrevious
  <2>2. CASE ~(s.receiving = None \/ s.remote_ratchet = None)
    <3>1. /\ IsDeque(s.skipped) /\ s.receiving.key \in RootKey /\ s.receiving.next \in Nat
          /\ s.remote_ratchet \in PublicKey /\ h.previous_chain_len \in Nat
      BY <2>2 DEF IsSession, Chain, Header
    <3>2. WithinLimits(Extend(s.skipped, s.remote_ratchet, s.receiving.key, s.receiving.next,
                              h.previous_chain_len))
      BY <3>1, ExtendWithinLimits
    <3> QED BY <2>2, <3>2 DEF SkippedOfPrevious
  <2> QED BY <2>1, <2>2
<1>3. received \in RootKey /\ h.ratchet \in PublicKey /\ h.message_number \in Nat
  BY KdfRootType DEF IsSession, PublicKey, Header
<1>4. RatchetStep(s, h, Generate(s.own_ratchet)).skipped =
        Extend(previous, h.ratchet, received, 0, h.message_number)
  BY DEF RatchetStep
<1> HIDE DEF previous, received
<1>5. WithinLimits(Extend(previous, h.ratchet, received, 0, h.message_number))
  BY <1>1, <1>2, <1>3, ExtendWithinLimits
<1> QED BY <1>4, <1>5

\* Every step keeps the limits.
LEMMA NextWithinLimits ==
  ASSUME TypeOK, StoresWithinLimits, [Next]_vars
  PROVE  StoresWithinLimits'
<1>1. CASE UNCHANGED vars
  BY <1>1 DEF vars, StoresWithinLimits, WithinLimits, OfChain
<1>2. ASSUME NEW p \in Party, Encrypt(p) PROVE StoresWithinLimits'
  <2> DEFINE t == AfterSealing(session[p])
  <2>1. t.skipped = session[p].skipped
    BY DEF AfterSealing, TypeOK, IsSession
  <2>2. session' = [session EXCEPT ![p] = t]
    BY <1>2 DEF Encrypt
  <2> HIDE DEF t
  <2>3. WithinLimits(t.skipped)
    BY <2>1 DEF StoresWithinLimits
  <2> QED BY <2>2, <2>3, StoreStep
<1>3. ASSUME NEW p \in Party, EncryptRefused(p) PROVE StoresWithinLimits'
  BY <1>1, <1>3 DEF EncryptRefused
<1>4. ASSUME NEW p \in Party, NEW g \in Carried, NEW f \in {g} \cup Damaged(g), Decrypt(p, f)
      PROVE  StoresWithinLimits'
  <2> DEFINE s == session[p]
             h == f.header
  <2>1. /\ f \in Frame /\ h \in Header /\ h.ratchet \in PublicKey /\ h.message_number \in Nat
        /\ IsSession(s) /\ IsDeque(s.skipped) /\ WithinLimits(s.skipped)
    BY ArrivingFrames DEF Frame, Header, TypeOK, IsSession, StoresWithinLimits
  <2>2. CASE DecryptSkipped(p, f)
    <3> DEFINE t == AfterStoredKey(s, h)
    <3>1. t.skipped = Without(s.skipped, {Position(s.skipped, h)})
      BY <2>1 DEF AfterStoredKey, IsSession
    <3>2. session' = [session EXCEPT ![p] = t]
      BY <2>2 DEF DecryptSkipped
    <3> HIDE DEF t
    <3>3. WithinLimits(t.skipped)
      BY <2>1, <3>1, WithoutWithinLimits
    <3> QED BY <3>2, <3>3, StoreStep
  <2>3. CASE DecryptInReceivingChain(p, f)
    <3> DEFINE E == Extend(s.skipped, h.ratchet, s.receiving.key, s.receiving.next, h.message_number)
               t == AfterReceiving(s, h)
    <3>1. s.receiving.key \in RootKey /\ s.receiving.next \in Nat
      BY <2>1, <2>3, ReceivingOk DEF DecryptInReceivingChain, Chain
    <3>2. WithinLimits(E)
      BY <2>1, <3>1, ExtendWithinLimits
    <3>3. session' = [session EXCEPT ![p] = t]
      BY <2>3 DEF DecryptInReceivingChain
    <3>4. t.skipped = E
      <4>1. t = [s EXCEPT !.skipped = E, !.receiving.next = h.message_number + 1]
        BY DEF AfterReceiving
      <4> HIDE DEF t, E
      <4> QED BY <2>1, <4>1, AdvanceReceiving
    <3> HIDE DEF t, E
    <3>5. WithinLimits(t.skipped)
      BY <3>2, <3>4
    <3> QED BY <3>3, <3>5, StoreStep
  <2>4. CASE DecryptAfterRatchetStep(p, f)
    <3> DEFINE t == RatchetStep(s, h, Generate(s.own_ratchet))
    <3>1. WithinLimits(t.skipped)
      BY <2>1, StepWithinLimits
    <3>2. session' = [session EXCEPT ![p] = t]
      BY <2>4 DEF DecryptAfterRatchetStep
    <3> HIDE DEF t
    <3> QED BY <3>1, <3>2, StoreStep
  <2>5. CASE DecryptRefused(p, f)
    BY <1>1, <2>5 DEF DecryptRefused
  <2> QED BY <1>4, <2>2, <2>3, <2>4, <2>5 DEF Decrypt
<1> QED BY <1>1, <1>2, <1>3, <1>4 DEF Next

\* QW-P-E2E-067: whatever the peer or the carrier sends, no session keeps more
\* skipped keys than the limit of a chain and the limit of the store allow.
THEOREM KeysBounded == Spec => []SkippedKeysBounded
<1>1. Init => StoresWithinLimits
  <2>1. \A ratchet : OfChain(<< >>, ratchet) = {}
    BY DEF OfChain
  <2>2. WithinLimits(<< >>)
    BY <2>1, FS_EmptySet, LimitsAssumption DEF WithinLimits
  <2> QED BY <2>2 DEF Init, Party, InitiatorSession, ResponderSession, StoresWithinLimits
<1>2. TypeOK /\ StoresWithinLimits /\ [Next]_vars => StoresWithinLimits'
  BY NextWithinLimits
<1>3. TypeOK /\ StoresWithinLimits => SkippedKeysBounded
  <2> SUFFICES ASSUME TypeOK, StoresWithinLimits, NEW p \in Party,
                      NEW i \in DOMAIN session[p].skipped
               PROVE  Cardinality(OfChain(session[p].skipped, session[p].skipped[i].ratchet))
                        <= MAX_SKIP_PER_CHAIN
    BY DEF SkippedKeysBounded, StoresWithinLimits, WithinLimits, OfChain
  <2>1. session[p].skipped[i].ratchet \in PublicKey
    BY DEF TypeOK, IsSession, IsDeque, SkippedKey
  <2> QED BY <2>1 DEF StoresWithinLimits, WithinLimits
<1> QED BY <1>1, <1>2, <1>3, TypeCorrect, PTL DEF Spec

-----------------------------------------------------------------------------
(* Each message key is used once *)

\* The key of a frame that a session is about to open was never opened before.
NewKey(f, frames) == \A g \in frames : g.key # f.key

\* The two parties seal on chains of different parity.
LEMMA TurnFacts ==
  ASSUME NEW p \in Party, NEW q \in Party
  PROVE  /\ Turn(p) \in {0, 1}
         /\ Turn(p) # 1 - Turn(p)
         /\ q # p => Turn(q) # Turn(p)
         /\ Peer(p) \in Party /\ Turn(Peer(p)) = 1 - Turn(p)
BY DEF Turn, Party, Peer

\* One kdf_root changes the parity of a root key, two restore it.
LEMMA NextTurn ==
  ASSUME NEW p \in Party, NEW n \in Nat, n % 2 = Turn(p)
  PROVE  (n + 1) % 2 = 1 - Turn(p) /\ (n + 2) % 2 = Turn(p) /\ Turn(p) \in {0, 1}
<1>1. CASE p = "Alice"
  <2>1. n % 2 = 1 /\ Turn(p) = 1
    BY <1>1 DEF Turn
  <2> QED BY <2>1
<1>2. CASE p # "Alice"
  <2>1. n % 2 = 0 /\ Turn(p) = 0
    BY <1>2 DEF Turn
  <2> QED BY <2>1
<1> QED BY <1>1, <1>2

-----------------------------------------------------------------------------
(* The receiving side, one session at a time *)

\* Extend stores each key once, if the store held none of the keys it adds.
LEMMA ExtendKeys ==
  ASSUME NEW deque, IsDeque(deque), NEW ratchet \in PublicKey, NEW chain \in RootKey,
         NEW from \in Nat, NEW until \in Nat,
         \A i, j \in DOMAIN deque : deque[i].key = deque[j].key => i = j,
         \A i \in DOMAIN deque : deque[i].key.chain = chain => deque[i].key.number < from
  PROVE  LET E == Extend(deque, ratchet, chain, from, until)
         IN  /\ IsDeque(E)
             /\ \A i \in DOMAIN E :
                  \/ E[i].key \in Keys(deque)
                  \/ \E n \in from..until - 1 : E[i].key = KeyOf(chain, n)
             /\ \A i, j \in DOMAIN E : E[i].key = E[j].key => i = j
<1> DEFINE E == Extend(deque, ratchet, chain, from, until)
           Added == DOMAIN E \ DOMAIN deque
<1>1. /\ IsDeque(E)
      /\ \A i \in DOMAIN E \cap DOMAIN deque : E[i] = deque[i]
      /\ \A i \in Added :
           \E n \in from..until - 1 :
             E[i] = [ratchet |-> ratchet, number |-> n, key |-> KeyOf(chain, n)]
      /\ \A i, j \in Added : E[i].key = E[j].key => i = j
  BY ExtendEntries
<1> HIDE DEF E
<1>2. \A i \in Added : \E n \in from..until - 1 : E[i].key = KeyOf(chain, n)
  BY <1>1
<1>3. \A i \in DOMAIN E \cap DOMAIN deque : E[i].key \in Keys(deque)
  BY <1>1 DEF Keys
<1>4. ASSUME NEW i \in Added, NEW j \in DOMAIN E \cap DOMAIN deque, E[i].key = E[j].key
      PROVE  FALSE
  <2>1. PICK n \in from..until - 1 : E[i].key = KeyOf(chain, n)
    BY <1>2
  <2>2. E[j].key.chain = chain /\ E[j].key.number = n
    BY <1>4, <2>1 DEF KeyOf
  <2>3. n < from
    BY <1>1, <2>2
  <2> QED BY <2>1, <2>3
<1>5. \A i, j \in DOMAIN E : E[i].key = E[j].key => i = j
  BY <1>1, <1>4
<1> QED BY <1>1, <1>2, <1>3, <1>5 DEF E

\* A stored key is used once: Without takes it out of the store.
LEMMA OpenSkippedSpent ==
  ASSUME NEW p \in Party, NEW s, IsSession(s), NEW frames, NEW f \in Frame,
         OpenedKeysSpent(p, s, frames), IsSkipped(s, f), SkippedResult(s, f) = "Ok"
  PROVE  LET t == [s EXCEPT !.skipped = Without(s.skipped, {Position(s.skipped, f.header)})]
         IN  /\ f.key \in MessageKey
             /\ f.aad = f.header
             /\ Len(f.key.chain) % 2 = 1 - Turn(p)
             /\ NewKey(f, frames)
             /\ OpenedKeysSpent(p, t, frames \cup {f})
<1> DEFINE k == Position(s.skipped, f.header)
           W == Without(s.skipped, {k})
           t == [s EXCEPT !.skipped = W]
<1>1. k \in DOMAIN s.skipped /\ f.key = s.skipped[k].key /\ f.aad = f.header
  BY SkippedOk
<1> HIDE DEF k
<1>2. IsDeque(s.skipped)
  BY DEF IsSession
<1>3. DOMAIN W = DOMAIN s.skipped \ {k} /\ \A i \in DOMAIN W : W[i] = s.skipped[i]
  BY <1>2, WithoutFacts
<1> HIDE DEF W
<1>4. t.skipped = W /\ t.root_key = s.root_key /\ t.receiving = s.receiving
  BY DEF IsSession
<1> HIDE DEF t
<1>5. f.key \in MessageKey /\ Passed(p, s, f.key) /\ f.key \in Keys(s.skipped)
  BY <1>1, <1>2 DEF OpenedKeysSpent, IsDeque, SkippedKey, Keys
<1>6. \A key : Passed(p, t, key) <=> Passed(p, s, key)
  BY <1>4 DEF Passed
<1>7. NewKey(f, frames)
  BY <1>5 DEF NewKey, OpenedKeysSpent
<1>8. Keys(W) \subseteq Keys(s.skipped) /\ f.key \notin Keys(W)
  BY <1>1, <1>3 DEF Keys, OpenedKeysSpent
<1>9. OpenedKeysSpent(p, t, frames \cup {f})
  <2>1. \A g \in frames \cup {f} : g.key \in MessageKey /\ Passed(p, t, g.key) /\ g.key \notin Keys(t.skipped)
    BY <1>4, <1>5, <1>6, <1>8 DEF OpenedKeysSpent
  <2>2. \A i \in DOMAIN t.skipped : Passed(p, t, t.skipped[i].key)
    BY <1>3, <1>4, <1>6 DEF OpenedKeysSpent
  <2>3. \A i, j \in DOMAIN t.skipped : t.skipped[i].key = t.skipped[j].key => i = j
    BY <1>3, <1>4 DEF OpenedKeysSpent
  <2>4. t.receiving # None => /\ Len(t.receiving.key) <= Len(t.root_key)
                              /\ Len(t.receiving.key) % 2 = 1 - Turn(p)
    BY <1>4 DEF OpenedKeysSpent
  <2> QED BY <2>1, <2>2, <2>3, <2>4 DEF OpenedKeysSpent
<1>10. Len(f.key.chain) % 2 = 1 - Turn(p)
  BY <1>5 DEF Passed
<1> QED BY <1>1, <1>5, <1>7, <1>9, <1>10 DEF t, W, k

\* The receiving chain moves past the key it opens with, so that key was unused.
LEMMA OpenInReceivingSpent ==
  ASSUME NEW p \in Party, NEW s, IsSession(s), NEW frames, NEW f \in Frame,
         OpenedKeysSpent(p, s, frames), InReceivingChain(s, f), ReceivingResult(s, f) = "Ok"
  PROVE  LET h == f.header
             t == [s EXCEPT
                    !.skipped = Extend(s.skipped, h.ratchet, s.receiving.key,
                                       s.receiving.next, h.message_number),
                    !.receiving.next = h.message_number + 1]
         IN  /\ f.key \in MessageKey
             /\ f.aad = f.header
             /\ Len(f.key.chain) % 2 = 1 - Turn(p)
             /\ NewKey(f, frames)
             /\ OpenedKeysSpent(p, t, frames \cup {f})
<1> DEFINE h == f.header
           number == h.message_number
           chain == s.receiving.key
           next == s.receiving.next
           E == Extend(s.skipped, h.ratchet, chain, next, number)
           t == [s EXCEPT !.skipped = E, !.receiving.next = number + 1]
<1>1. /\ s.receiving # None
      /\ s.receiving \in Chain
      /\ next <= number
      /\ f.key = KeyOf(chain, number)
      /\ f.aad = f.header
  BY ReceivingOk
<1>2. /\ IsDeque(s.skipped) /\ chain \in RootKey /\ next \in Nat
      /\ h.ratchet \in PublicKey /\ number \in Nat
  BY <1>1 DEF IsSession, Chain, Frame, Header
<1>3. /\ Len(chain) <= Len(s.root_key)
      /\ Len(chain) % 2 = 1 - Turn(p)
      /\ \A g \in frames : /\ g.key \in MessageKey
                           /\ Passed(p, s, g.key)
                           /\ g.key \notin Keys(s.skipped)
      /\ \A i \in DOMAIN s.skipped : Passed(p, s, s.skipped[i].key)
      /\ \A i, j \in DOMAIN s.skipped : s.skipped[i].key = s.skipped[j].key => i = j
  BY <1>1 DEF OpenedKeysSpent
<1>4. \A key : Passed(p, s, key) /\ key.chain = chain => key.number < next
  BY <1>1 DEF Passed
<1>5. /\ IsDeque(E)
      /\ \A i \in DOMAIN E :
           \/ E[i].key \in Keys(s.skipped)
           \/ \E n \in next..number - 1 : E[i].key = KeyOf(chain, n)
      /\ \A i, j \in DOMAIN E : E[i].key = E[j].key => i = j
  BY <1>2, <1>3, <1>4, ExtendKeys
<1> HIDE DEF E
<1>6. t = [root_key |-> s.root_key, own_ratchet |-> s.own_ratchet,
           remote_ratchet |-> s.remote_ratchet, sending |-> s.sending,
           receiving |-> [s.receiving EXCEPT !.next = number + 1],
           previous_sending_len |-> s.previous_sending_len, skipped |-> E]
  BY AdvanceReceiving
<1> HIDE DEF t
<1>7. /\ t.skipped = E /\ t.root_key = s.root_key
      /\ t.receiving # None => t.receiving.key = chain /\ t.receiving.next = number + 1
  BY <1>1, <1>6 DEF Chain
<1>8. f.key \in MessageKey /\ f.key.chain = chain /\ f.key.number = number
  BY <1>1, <1>2 DEF KeyOf, MessageKey
<1>9. \A key \in MessageKey : Passed(p, s, key) => Passed(p, t, key)
  <2> SUFFICES ASSUME NEW key \in MessageKey, Passed(p, s, key) PROVE Passed(p, t, key)
    OBVIOUS
  <2>1. key.chain = chain => key.number < number + 1
    BY <1>1, <1>2, <1>4 DEF MessageKey
  <2> QED BY <1>7, <2>1 DEF Passed
<1>10. \A n \in 0..number : KeyOf(chain, n) \in MessageKey /\ Passed(p, t, KeyOf(chain, n))
  <2> SUFFICES ASSUME NEW n \in 0..number
               PROVE  KeyOf(chain, n) \in MessageKey /\ Passed(p, t, KeyOf(chain, n))
    OBVIOUS
  <2>1. KeyOf(chain, n).chain = chain /\ KeyOf(chain, n).number = n /\ n < number + 1
    BY <1>2 DEF KeyOf
  <2>2. KeyOf(chain, n) \in MessageKey
    BY <1>2 DEF KeyOf, MessageKey
  <2>3. Passed(p, t, KeyOf(chain, n))
    BY <1>3, <1>7, <2>1 DEF Passed
  <2> QED BY <2>2, <2>3
<1>11. NewKey(f, frames) /\ f.key \notin Keys(s.skipped)
  <2>1. \A key : Passed(p, s, key) => key # f.key
    BY <1>1, <1>2, <1>4, <1>8
  <2> QED BY <1>3, <2>1 DEF NewKey, Keys
<1>12. \A g \in frames \cup {f} : g.key \notin Keys(E)
  <2> SUFFICES ASSUME NEW g \in frames \cup {f}, NEW i \in DOMAIN E, g.key = E[i].key
               PROVE  FALSE
    BY DEF Keys
  <2>1. g.key \notin Keys(s.skipped)
    BY <1>3, <1>11
  <2>2. PICK n \in next..number - 1 : g.key = KeyOf(chain, n)
    BY <1>5, <2>1
  <2>3. g.key.chain = chain /\ g.key.number = n
    BY <2>2 DEF KeyOf
  <2>4. CASE g \in frames
    BY <1>2, <1>3, <1>4, <2>3, <2>4
  <2>5. CASE g = f
    BY <1>2, <1>8, <2>3, <2>5
  <2> QED BY <2>4, <2>5
<1>13. \A i \in DOMAIN E : Passed(p, t, E[i].key)
  <2> SUFFICES ASSUME NEW i \in DOMAIN E PROVE Passed(p, t, E[i].key)
    OBVIOUS
  <2>1. CASE E[i].key \in Keys(s.skipped)
    <3>1. PICK j \in DOMAIN s.skipped : E[i].key = s.skipped[j].key
      BY <2>1 DEF Keys
    <3>2. s.skipped[j].key \in MessageKey
      BY <1>2 DEF IsDeque, SkippedKey
    <3> QED BY <1>3, <1>9, <3>1, <3>2
  <2>2. CASE \E n \in next..number - 1 : E[i].key = KeyOf(chain, n)
    <3>1. PICK n \in next..number - 1 : E[i].key = KeyOf(chain, n)
      BY <2>2
    <3>2. n \in 0..number
      BY <1>2
    <3> QED BY <1>10, <3>1, <3>2
  <2> QED BY <1>5, <2>1, <2>2
<1>14. \A g \in frames \cup {f} : g.key \in MessageKey /\ Passed(p, t, g.key)
  <2>1. Passed(p, t, f.key)
    BY <1>1, <1>2, <1>10
  <2> QED BY <1>3, <1>8, <1>9, <2>1
<1>15. OpenedKeysSpent(p, t, frames \cup {f})
  BY <1>3, <1>5, <1>7, <1>12, <1>13, <1>14 DEF OpenedKeysSpent
<1> QED BY <1>1, <1>3, <1>8, <1>11, <1>15 DEF t, E

\* What a ratchet step keeps of the old chain: its keys are still only once in
\* the store, and none of them was opened.
LEMMA SkippedOfPreviousSpent ==
  ASSUME NEW p \in Party, NEW s, IsSession(s), NEW frames, NEW h \in Header,
         OpenedKeysSpent(p, s, frames)
  PROVE  LET M == SkippedOfPrevious(s, h)
         IN  /\ IsDeque(M)
             /\ \A i, j \in DOMAIN M : M[i].key = M[j].key => i = j
             /\ \A i \in DOMAIN M : /\ M[i].key \in MessageKey
                                   /\ Len(M[i].key.chain) <= Len(s.root_key)
                                   /\ Len(M[i].key.chain) % 2 = 1 - Turn(p)
             /\ \A g \in frames : g.key \notin Keys(M)
<1> DEFINE M == SkippedOfPrevious(s, h)
<1>1. /\ IsDeque(s.skipped)
      /\ \A i \in DOMAIN s.skipped : s.skipped[i].key \in MessageKey
      /\ \A i \in DOMAIN s.skipped : Passed(p, s, s.skipped[i].key)
      /\ \A i, j \in DOMAIN s.skipped : s.skipped[i].key = s.skipped[j].key => i = j
      /\ \A g \in frames : Passed(p, s, g.key) /\ g.key \notin Keys(s.skipped)
  BY DEF OpenedKeysSpent, IsSession, IsDeque, SkippedKey
<1>2. CASE s.receiving = None \/ s.remote_ratchet = None
  <2>1. M = s.skipped
    BY <1>2 DEF SkippedOfPrevious
  <2> QED BY <1>1, <2>1 DEF Passed
<1>3. CASE ~(s.receiving = None \/ s.remote_ratchet = None)
  <2> DEFINE chain == s.receiving.key
             next == s.receiving.next
             until == h.previous_chain_len
  <2>1. /\ chain \in RootKey /\ next \in Nat
        /\ s.remote_ratchet \in PublicKey /\ until \in Nat
        /\ Len(chain) <= Len(s.root_key) /\ Len(chain) % 2 = 1 - Turn(p)
    BY <1>3 DEF IsSession, Chain, Header, OpenedKeysSpent
  <2>2. \A key : Passed(p, s, key) /\ key.chain = chain => key.number < next
    BY <1>3 DEF Passed
  <2>3. M = Extend(s.skipped, s.remote_ratchet, chain, next, until)
    BY <1>3 DEF SkippedOfPrevious
  <2>4. /\ IsDeque(M)
        /\ \A i \in DOMAIN M :
             \/ M[i].key \in Keys(s.skipped)
             \/ \E n \in next..until - 1 : M[i].key = KeyOf(chain, n)
        /\ \A i, j \in DOMAIN M : M[i].key = M[j].key => i = j
    BY <1>1, <2>1, <2>2, <2>3, ExtendKeys
  <2> HIDE DEF M
  <2>5. \A n \in next..until - 1 : /\ KeyOf(chain, n) \in MessageKey
                                  /\ KeyOf(chain, n).chain = chain
                                  /\ KeyOf(chain, n).number = n
    BY <2>1 DEF KeyOf, MessageKey
  <2>6. \A i \in DOMAIN M : /\ M[i].key \in MessageKey
                           /\ Len(M[i].key.chain) <= Len(s.root_key)
                           /\ Len(M[i].key.chain) % 2 = 1 - Turn(p)
    <3>1. \A key \in Keys(s.skipped) : /\ key \in MessageKey
                                      /\ Len(key.chain) <= Len(s.root_key)
                                      /\ Len(key.chain) % 2 = 1 - Turn(p)
      BY <1>1 DEF Keys, Passed
    <3>2. \A n \in next..until - 1 :
            /\ KeyOf(chain, n) \in MessageKey
            /\ Len(KeyOf(chain, n).chain) <= Len(s.root_key)
            /\ Len(KeyOf(chain, n).chain) % 2 = 1 - Turn(p)
      BY <2>1, <2>5
    <3> HIDE DEF chain, next, until
    <3> QED BY <2>4, <3>1, <3>2
  <2>7. ASSUME NEW g \in frames, NEW i \in DOMAIN M, g.key = M[i].key
        PROVE  FALSE
    <3>1. PICK n \in next..until - 1 : g.key = KeyOf(chain, n)
      BY <1>1, <2>4, <2>7
    <3>2. g.key.number < next /\ g.key.number = n
      BY <1>1, <2>2, <2>5, <3>1
    <3> QED BY <2>1, <3>1, <3>2
  <2>8. \A g \in frames : g.key \notin Keys(M)
    BY <2>7 DEF Keys
  <2> QED BY <2>4, <2>6, <2>8 DEF M
<1> QED BY <1>2, <1>3

\* A ratchet step opens with a chain longer than every chain used before.
LEMMA OpenAfterStepSpent ==
  ASSUME NEW p \in Party, NEW s, IsSession(s), NEW frames, NEW f \in Frame,
         Len(s.root_key) % 2 = Turn(p), OpenedKeysSpent(p, s, frames),
         StepResult(s, f, Generate(s.own_ratchet)) = "Ok"
  PROVE  LET t == RatchetStep(s, f.header, Generate(s.own_ratchet))
         IN  /\ f.key \in MessageKey
             /\ f.aad = f.header
             /\ Len(f.key.chain) % 2 = 1 - Turn(p)
             /\ NewKey(f, frames)
             /\ OpenedKeysSpent(p, t, frames \cup {f})
<1> DEFINE h == f.header
           number == h.message_number
           fresh == Generate(s.own_ratchet)
           chain == KdfRoot(s.root_key, s.own_ratchet, h.ratchet)
           M == SkippedOfPrevious(s, h)
           E == Extend(M, h.ratchet, chain, 0, number)
           t == RatchetStep(s, h, fresh)
<1>1. h \in Header /\ h.ratchet \in PublicKey /\ number \in Nat
  BY DEF Frame, Header
<1>2. chain \in RootKey /\ Len(chain) = Len(s.root_key) + 1
  BY <1>1, RatchetStepType
<1>3. /\ t.receiving.key = chain /\ t.receiving.next = number + 1
      /\ t.skipped = E
      /\ Len(t.root_key) = Len(s.root_key) + 2
  <2>1. Len(KdfRoot(chain, fresh, h.ratchet)) = Len(s.root_key) + 2
    BY <1>1, RatchetStepType
  <2> QED BY <2>1 DEF RatchetStep
<1>4. f.key = KeyOf(chain, number) /\ f.aad = f.header
  BY StepOk
<1> HIDE DEF chain, fresh, t
<1>5. Len(s.root_key) \in Nat
  BY DEF IsSession, RootKey
<1>6. Len(chain) % 2 = 1 - Turn(p)
  BY <1>2, <1>5, NextTurn
<1>7. /\ IsDeque(M)
      /\ \A i, j \in DOMAIN M : M[i].key = M[j].key => i = j
      /\ \A i \in DOMAIN M : /\ M[i].key \in MessageKey
                            /\ Len(M[i].key.chain) <= Len(s.root_key)
                            /\ Len(M[i].key.chain) % 2 = 1 - Turn(p)
      /\ \A g \in frames : g.key \notin Keys(M)
  BY <1>1, SkippedOfPreviousSpent
<1> HIDE DEF M, E
<1>8. \A i \in DOMAIN M : M[i].key.chain # chain
  <2> SUFFICES ASSUME NEW i \in DOMAIN M, M[i].key.chain = chain PROVE FALSE
    OBVIOUS
  <2>1. Len(chain) <= Len(s.root_key)
    BY <1>7
  <2> QED BY <1>2, <1>5, <2>1
<1>9. /\ IsDeque(E)
      /\ \A i \in DOMAIN E :
           \/ E[i].key \in Keys(M)
           \/ \E n \in 0..number - 1 : E[i].key = KeyOf(chain, n)
      /\ \A i, j \in DOMAIN E : E[i].key = E[j].key => i = j
  BY <1>1, <1>2, <1>7, <1>8, ExtendKeys DEF E
<1>10. \A n \in Nat : /\ KeyOf(chain, n) \in MessageKey
                      /\ KeyOf(chain, n).chain = chain
                      /\ KeyOf(chain, n).number = n
  BY <1>2 DEF KeyOf, MessageKey
<1>11. \A key \in MessageKey :
         Len(key.chain) <= Len(s.root_key) /\ Len(key.chain) % 2 = 1 - Turn(p)
           => Passed(p, t, key) /\ key.chain # chain
  <2> SUFFICES ASSUME NEW key \in MessageKey, Len(key.chain) <= Len(s.root_key),
                      Len(key.chain) % 2 = 1 - Turn(p)
               PROVE  Passed(p, t, key) /\ key.chain # chain
    OBVIOUS
  <2>1. key.chain # chain
    BY <1>2, <1>5
  <2>2. Len(key.chain) \in Nat
    BY DEF MessageKey, RootKey
  <2>3. Len(key.chain) <= Len(t.root_key)
    BY <1>3, <1>5, <2>2
  <2> QED BY <1>3, <2>1, <2>3 DEF Passed
<1>12. \A n \in 0..number : Passed(p, t, KeyOf(chain, n))
  <2> SUFFICES ASSUME NEW n \in 0..number PROVE Passed(p, t, KeyOf(chain, n))
    OBVIOUS
  <2>1. KeyOf(chain, n).chain = chain /\ KeyOf(chain, n).number < number + 1
    BY <1>1, <1>10
  <2>2. Len(chain) <= Len(t.root_key)
    BY <1>2, <1>3, <1>5
  <2> QED BY <1>3, <1>6, <2>1, <2>2 DEF Passed
<1>13. \A g \in frames : /\ g.key \in MessageKey /\ Len(g.key.chain) <= Len(s.root_key)
                         /\ Len(g.key.chain) % 2 = 1 - Turn(p)
  BY DEF OpenedKeysSpent, Passed
<1>14. f.key \in MessageKey /\ f.key.chain = chain /\ f.key.number = number
  BY <1>1, <1>4, <1>10
<1>15. NewKey(f, frames)
  BY <1>11, <1>13, <1>14 DEF NewKey
<1>16. \A g \in frames \cup {f} : g.key \notin Keys(E)
  <2> SUFFICES ASSUME NEW g \in frames \cup {f}, NEW i \in DOMAIN E, g.key = E[i].key
               PROVE  FALSE
    BY DEF Keys
  <2>1. \A key \in Keys(M) : key.chain # chain
    BY <1>8 DEF Keys
  <2>2. CASE g \in frames
    <3>1. PICK n \in 0..number - 1 : g.key = KeyOf(chain, n)
      BY <1>7, <1>9, <2>2
    <3>2. g.key.chain = chain
      BY <1>1, <1>10, <3>1
    <3> QED BY <1>11, <1>13, <2>2, <3>2
  <2>3. CASE g = f
    <3>1. PICK n \in 0..number - 1 : g.key = KeyOf(chain, n)
      BY <1>9, <1>14, <2>1, <2>3
    <3>2. g.key.number = n
      BY <1>1, <1>10, <3>1
    <3> QED BY <1>1, <1>14, <2>3, <3>1, <3>2
  <2> QED BY <2>2, <2>3
<1>17. \A i \in DOMAIN E : Passed(p, t, E[i].key)
  <2>1. \A key \in Keys(M) : Passed(p, t, key)
    BY <1>7, <1>11 DEF Keys
  <2>2. \A n \in 0..number - 1 : n \in 0..number
    BY <1>1
  <2> QED BY <1>9, <1>12, <2>1, <2>2
<1>18. \A g \in frames \cup {f} : g.key \in MessageKey /\ Passed(p, t, g.key)
  <2>1. \A g \in frames : g.key \in MessageKey /\ Passed(p, t, g.key)
    BY <1>11, <1>13
  <2>2. number \in 0..number
    BY <1>1
  <2>3. Passed(p, t, f.key)
    BY <1>4, <1>12, <2>2
  <2> QED BY <1>14, <2>1, <2>3
<1>19. OpenedKeysSpent(p, t, frames \cup {f})
  <2>1. /\ Len(t.receiving.key) <= Len(t.root_key)
        /\ Len(t.receiving.key) % 2 = 1 - Turn(p)
    <3>1. t.receiving.key = chain
      BY <1>3
    <3>2. Len(chain) <= Len(t.root_key)
      BY <1>2, <1>3, <1>5
    <3> QED BY <1>6, <3>1, <3>2
  <2> QED BY <1>3, <1>9, <1>16, <1>17, <1>18, <2>1 DEF OpenedKeysSpent
<1> QED BY <1>4, <1>6, <1>14, <1>15, <1>19 DEF t, fresh

-----------------------------------------------------------------------------
(* The carrier *)

\* A frame whose ciphertext is whole and whose header is the one it was sealed with
\* has not been altered.
LEMMA WholeFrame ==
  ASSUME NEW g \in Frame, g.aad = g.header, NEW part \in Parts, NEW f \in DamagedIn(g, part),
         f.key \in MessageKey, f.aad = f.header
  PROVE  f = g
<1>1. g \in Frame /\ g.aad = g.header
  OBVIOUS
<1>2. CASE part = "ratchet"
  <2>1. PICK r : f = [g EXCEPT !.header.ratchet = r]
    BY <1>2 DEF DamagedIn
  <2>2. f = [g EXCEPT !.header = f.header] /\ f.aad = g.aad
    BY <1>1, <2>1 DEF Frame, Header
  <2> QED BY <1>1, <2>2 DEF Frame
<1>3. CASE part = "previous_chain_len"
  <2>1. PICK n : f = [g EXCEPT !.header.previous_chain_len = n]
    BY <1>3 DEF DamagedIn
  <2>2. f = [g EXCEPT !.header = f.header] /\ f.aad = g.aad
    BY <1>1, <2>1 DEF Frame, Header
  <2> QED BY <1>1, <2>2 DEF Frame
<1>4. CASE part = "message_number"
  <2>1. PICK n : f = [g EXCEPT !.header.message_number = n]
    BY <1>4 DEF DamagedIn
  <2>2. f = [g EXCEPT !.header = f.header] /\ f.aad = g.aad
    BY <1>1, <2>1 DEF Frame, Header
  <2> QED BY <1>1, <2>2 DEF Frame
<1>5. CASE part = "body"
  <2>1. f = [g EXCEPT !.key = None]
    BY <1>5 DEF DamagedIn
  <2>2. f.key = None
    BY <1>1, <2>1 DEF Frame
  <2> QED BY <2>2, NoneAssumption
<1> QED BY <1>2, <1>3, <1>4, <1>5 DEF Parts

\* A frame whose header is the one it was sealed with, and whose ciphertext is
\* whole, is a frame as it was sealed.
LEMMA GenuineArrival ==
  ASSUME TypeOK, OnceInv, NEW p \in Party, NEW g \in Carried, NEW f \in {g} \cup Damaged(g),
         f.key \in MessageKey, f.aad = f.header, Len(f.key.chain) % 2 = 1 - Turn(p)
  PROVE  f \in sent[Peer(p)]
<1>1. g \in Frame /\ g.aad = g.header
  <2>1. \A q \in Party : \A h \in sent[q] : h \in Frame /\ h.aad = h.header
    BY DEF TypeOK, OnceInv, SealedKeysUsed
  <2> QED BY <2>1 DEF Carried, Party
<1>2. ASSUME NEW part \in Damage, f \in DamagedIn(g, part)
      PROVE  f = g
  <2>1. part \in Parts
    BY DamageAssumption DEF Parts
  <2> QED BY <1>1, <1>2, <2>1, WholeFrame
<1>3. f = g
  BY <1>2 DEF Damaged
<1>4. \A h \in sent[p] : Len(h.key.chain) % 2 = Turn(p)
  BY DEF OnceInv, SealedKeysUsed
<1>5. f \notin sent[p]
  BY <1>4, TurnFacts
<1> QED BY <1>3, <1>5 DEF Carried, Party, Peer

-----------------------------------------------------------------------------
(* The steps *)

\* Neither session has used a key, and only Alice, whose turn is odd, can seal.
LEMMA InitOnceInv == Init => OnceInv
<1> SUFFICES ASSUME Init PROVE OnceInv
  OBVIOUS
<1>1. TypeOK
  BY InitTypeOK
<1>2. \A p \in Party : /\ sent[p] = {} /\ opened[p] = {}
                       /\ session[p].receiving = None
                       /\ DOMAIN session[p].skipped = {}
  BY DEF Init, Party, InitiatorSession, ResponderSession
<1>3. \A p \in Party : OpenedKeysSpent(p, session[p], opened[p])
  BY <1>2 DEF OpenedKeysSpent
<1> DEFINE root == KdfRoot(SharedKey, <<"Alice", 0>>, <<"Bob", 0>>)
<1>4. /\ session["Alice"].root_key = root
      /\ session["Alice"].sending = [key |-> root, next |-> 0]
      /\ session["Bob"].root_key = << >>
      /\ session["Bob"].sending = None
  BY DEF Init, Party, InitiatorSession, ResponderSession, ChainStart, SharedKey
<1>5. Len(root) = 1
  BY DEF KdfRoot, SharedKey
<1> HIDE DEF root
<1>6. [key |-> root, next |-> 0] # None
  <2>1. session["Alice"].sending \in Chain \cup {None}
    BY <1>1 DEF TypeOK, IsSession, Party
  <2>2. session["Alice"].root_key \in RootKey
    BY <1>1 DEF TypeOK, IsSession, Party
  <2> QED BY <1>4, <2>2, NoneAssumption DEF Chain
<1>7. SealedKeysUsed("Alice", session["Alice"], sent["Alice"])
  <2>1. 1 % 2 = 1 /\ Turn("Alice") = 1
    BY DEF Turn
  <2>2. sent["Alice"] = {}
    BY <1>2 DEF Party
  <2>3. session["Alice"].sending # None /\ session["Alice"].sending.key = session["Alice"].root_key
    BY <1>4, <1>6
  <2>4. Len(session["Alice"].root_key) % 2 = Turn("Alice")
    BY <1>4, <1>5, <2>1
  <2> QED BY <2>2, <2>3, <2>4 DEF SealedKeysUsed
<1>8. SealedKeysUsed("Bob", session["Bob"], sent["Bob"])
  <2>1. Len(<< >>) % 2 = 0 /\ Turn("Bob") = 0
    BY DEF Turn
  <2> QED BY <1>2, <1>4, <2>1 DEF SealedKeysUsed, Party
<1>9. \A p \in Party : SealedKeysUsed(p, session[p], sent[p])
  BY <1>7, <1>8 DEF Party
<1> QED BY <1>2, <1>3, <1>9 DEF OnceInv

\* What encrypt seals with is fresh, for both parties.
LEMMA EncryptFresh ==
  ASSUME TypeOK, OnceInv, NEW p \in Party, Encrypt(p)
  PROVE  /\ session[p].sending \in Chain
         /\ session[p].sending.key = session[p].root_key
         /\ NextFrame(p).key \in MessageKey
         /\ \A q \in Party : \A f \in sent[q] : f.key # NextFrame(p).key
<1> DEFINE s == session[p]
           key == NextFrame(p).key
<1>1. s.sending # None /\ s.sending \in Chain /\ s.sending.key = s.root_key
  BY DEF Encrypt, Seals, CanSend, OnceInv, SealedKeysUsed, TypeOK, IsSession
<1>2. key.chain = s.root_key /\ key.number = s.sending.next /\ key \in MessageKey
  BY <1>1 DEF NextFrame, SealedFrame, KeyOf, Chain, MessageKey
<1> HIDE DEF key
<1>3. ASSUME NEW f \in sent[p], f.key = key
      PROVE  FALSE
  <2>1. f.key.chain = s.root_key => f.key.number < s.sending.next
    BY DEF OnceInv, SealedKeysUsed
  <2> QED BY <1>1, <1>2, <1>3, <2>1 DEF Chain
<1>4. ASSUME NEW q \in Party, q # p, NEW f \in sent[q], f.key = key
      PROVE  FALSE
  <2>1. Len(s.root_key) % 2 = Turn(p)
    BY DEF OnceInv, SealedKeysUsed
  <2>2. Len(f.key.chain) % 2 = Turn(q)
    BY DEF OnceInv, SealedKeysUsed
  <2>3. f.key.chain = s.root_key
    BY <1>2, <1>4
  <2>4. Turn(p) = Turn(q)
    BY <2>1, <2>2, <2>3, Zenon
  <2> QED BY <1>4, <2>4, TurnFacts
<1> QED BY <1>1, <1>2, <1>3, <1>4 DEF key

\* encrypt moves the sending chain past the key it seals with.
LEMMA EncryptOnce ==
  ASSUME TypeOK, OnceInv, NEW p \in Party, Encrypt(p)
  PROVE  OnceInv'
<1> DEFINE s == session[p]
           t == [s EXCEPT !.sending.next = s.sending.next + 1]
           F == NextFrame(p)
<1>1. /\ s.sending \in Chain /\ s.sending.key = s.root_key
      /\ F.key \in MessageKey
      /\ \A q \in Party : \A f \in sent[q] : f.key # F.key
  BY EncryptFresh
<1>2. IsSession(s)
  BY DEF TypeOK
<1>3. /\ t.root_key = s.root_key /\ t.receiving = s.receiving /\ t.skipped = s.skipped
      /\ t.sending = [key |-> s.sending.key, next |-> s.sending.next + 1]
  BY <1>1, <1>2 DEF IsSession, Chain
<1>4. F.key.chain = s.root_key /\ F.key.number = s.sending.next /\ F.aad = F.header
  BY <1>1 DEF NextFrame, SealedFrame, KeyOf
<1>5. session' = [session EXCEPT ![p] = t] /\ sent' = [sent EXCEPT ![p] = @ \cup {F}]
  BY DEF Encrypt, Seals, AfterSealing
<1> HIDE DEF t, F
<1>6. SealedKeysUsed(p, t, sent[p] \cup {F})
  <2>1. SealedKeysUsed(p, s, sent[p])
    BY DEF OnceInv
  <2>2. s.sending # None
    BY DEF Encrypt, Seals, CanSend
  <2>3. t.sending.key = s.root_key /\ t.sending.next = s.sending.next + 1 /\ s.sending.next \in Nat
    BY <1>1, <1>3 DEF Chain
  <2>4. t.sending # None
    BY <1>1, <1>3, NoneAssumption DEF Chain
  <2>5. Len(s.root_key) \in Nat
    BY <1>2 DEF IsSession, RootKey
  <2>6. ASSUME NEW f \in sent[p] \cup {F}, f.key.chain = s.root_key
        PROVE  f.key.number < s.sending.next + 1
    <3>1. CASE f \in sent[p]
      <4>1. f.key.number < s.sending.next /\ f.key.number \in Nat
        BY <2>1, <2>6, <3>1 DEF SealedKeysUsed, MessageKey
      <4> QED BY <2>3, <4>1
    <3>2. CASE f = F
      BY <1>4, <2>3, <3>2
    <3> QED BY <3>1, <3>2
  <2>7. ASSUME NEW f \in sent[p] \cup {F}
        PROVE  /\ f.key \in MessageKey
               /\ f.aad = f.header
               /\ Len(f.key.chain) <= Len(s.root_key)
               /\ Len(f.key.chain) % 2 = Turn(p)
    <3>1. Len(s.root_key) % 2 = Turn(p)
      BY <2>1 DEF SealedKeysUsed
    <3>2. CASE f \in sent[p]
      BY <2>1, <3>2 DEF SealedKeysUsed
    <3>3. CASE f = F
      <4>1. f.key.chain = s.root_key /\ f.key \in MessageKey /\ f.aad = f.header
        BY <1>1, <1>4, <3>3
      <4>2. Len(f.key.chain) % 2 = Turn(p)
        BY <3>1, <4>1, Zenon
      <4>3. Len(f.key.chain) <= Len(s.root_key)
        BY <2>5, <4>1
      <4> QED BY <4>1, <4>2, <4>3
    <3> QED BY <3>2, <3>3
  <2>8. Len(t.root_key) % 2 = Turn(p)
    BY <1>3, <2>1 DEF SealedKeysUsed
  <2> QED BY <1>3, <2>3, <2>4, <2>6, <2>7, <2>8 DEF SealedKeysUsed
<1>7. OpenedKeysSpent(p, t, opened[p])
  BY <1>3 DEF OnceInv, OpenedKeysSpent, Passed
<1>8. opened' = opened
  BY DEF Encrypt, Seals
<1>9. Peer(p) \in Party
  BY DEF Party, Peer
<1> QED BY <1>5, <1>6, <1>7, <1>8 DEF OnceInv, TypeOK

\* What the three ways to open a frame have in common.
LEMMA OpenOnce ==
  ASSUME TypeOK, OnceInv, NEW p \in Party, NEW g \in Carried, NEW f \in {g} \cup Damaged(g),
         NEW t, session' = [session EXCEPT ![p] = t], Returns(p, f),
         f.key \in MessageKey, f.aad = f.header, Len(f.key.chain) % 2 = 1 - Turn(p),
         SealedKeysUsed(p, t, sent[p]), OpenedKeysSpent(p, t, opened[p] \cup {f})
  PROVE  OnceInv'
<1>1. f \in sent[Peer(p)]
  BY GenuineArrival
<1>2. sent' = sent /\ opened' = [opened EXCEPT ![p] = @ \cup {f}]
  BY DEF Returns
<1> QED BY <1>1, <1>2 DEF OnceInv, TypeOK

\* A session that has not made a ratchet step seals as before.
LEMMA SealedUnchanged ==
  ASSUME OnceInv, NEW p \in Party, NEW t,
         t.root_key = session[p].root_key, t.sending = session[p].sending
  PROVE  SealedKeysUsed(p, t, sent[p])
<1>1. SealedKeysUsed(p, session[p], sent[p])
  BY DEF OnceInv
<1> DEFINE s == session[p]
<1> HIDE DEF s
<1>2. t.root_key = s.root_key /\ t.sending = s.sending /\ SealedKeysUsed(p, s, sent[p])
  BY <1>1 DEF s
<1> QED BY <1>2 DEF SealedKeysUsed

\* A frame opened with a stored key uses up that key.
LEMMA DecryptSkippedOnce ==
  ASSUME TypeOK, OnceInv, NEW p \in Party, NEW g \in Carried, NEW f \in {g} \cup Damaged(g),
         DecryptSkipped(p, f)
  PROVE  /\ OnceInv'
         /\ NewKey(f, opened[p])
         /\ f.key \in MessageKey /\ f.aad = f.header /\ Len(f.key.chain) % 2 = 1 - Turn(p)
<1> DEFINE s == session[p]
           t == [s EXCEPT !.skipped = Without(s.skipped, {Position(s.skipped, f.header)})]
<1>1. f \in Frame /\ IsSession(s) /\ OpenedKeysSpent(p, s, opened[p])
  BY ArrivingFrames DEF TypeOK, OnceInv
<1>2. /\ IsSkipped(s, f) /\ SkippedResult(s, f) = "Ok"
      /\ session' = [session EXCEPT ![p] = t]
      /\ Returns(p, f)
  BY DEF DecryptSkipped, AfterStoredKey
<1>3. /\ f.key \in MessageKey
      /\ f.aad = f.header
      /\ Len(f.key.chain) % 2 = 1 - Turn(p)
      /\ NewKey(f, opened[p])
      /\ OpenedKeysSpent(p, t, opened[p] \cup {f})
  BY <1>1, <1>2, OpenSkippedSpent
<1>4. t.root_key = s.root_key /\ t.sending = s.sending
  BY <1>1 DEF IsSession
<1> HIDE DEF t
<1>5. SealedKeysUsed(p, t, sent[p])
  BY <1>4, SealedUnchanged
<1> QED BY <1>2, <1>3, <1>5, OpenOnce

\* A frame opened in the receiving chain uses up the key the chain had next, or one
\* beyond it, and stores those in between.
LEMMA DecryptInReceivingChainOnce ==
  ASSUME TypeOK, OnceInv, NEW p \in Party, NEW g \in Carried, NEW f \in {g} \cup Damaged(g),
         DecryptInReceivingChain(p, f)
  PROVE  /\ OnceInv'
         /\ NewKey(f, opened[p])
         /\ f.key \in MessageKey /\ f.aad = f.header /\ Len(f.key.chain) % 2 = 1 - Turn(p)
<1> DEFINE s == session[p]
           h == f.header
           E == Extend(s.skipped, h.ratchet, s.receiving.key, s.receiving.next, h.message_number)
           t == [s EXCEPT !.skipped = E, !.receiving.next = h.message_number + 1]
<1>1. f \in Frame /\ IsSession(s) /\ OpenedKeysSpent(p, s, opened[p])
  BY ArrivingFrames DEF TypeOK, OnceInv
<1>2. /\ InReceivingChain(s, f) /\ ReceivingResult(s, f) = "Ok"
      /\ session' = [session EXCEPT ![p] = t]
      /\ Returns(p, f)
  BY DEF DecryptInReceivingChain, AfterReceiving
<1>3. /\ f.key \in MessageKey
      /\ f.aad = f.header
      /\ Len(f.key.chain) % 2 = 1 - Turn(p)
      /\ NewKey(f, opened[p])
      /\ OpenedKeysSpent(p, t, opened[p] \cup {f})
  BY <1>1, <1>2, OpenInReceivingSpent
<1>4. t.root_key = s.root_key /\ t.sending = s.sending
  <2> HIDE DEF E
  <2>1. t = [root_key |-> s.root_key, own_ratchet |-> s.own_ratchet,
             remote_ratchet |-> s.remote_ratchet, sending |-> s.sending,
             receiving |-> [s.receiving EXCEPT !.next = h.message_number + 1],
             previous_sending_len |-> s.previous_sending_len, skipped |-> E]
    BY <1>1, AdvanceReceiving
  <2> HIDE DEF t
  <2> QED BY <2>1
<1> HIDE DEF t
<1>5. SealedKeysUsed(p, t, sent[p])
  BY <1>4, SealedUnchanged
<1> QED BY <1>2, <1>3, <1>5, OpenOnce

\* A frame opened after a ratchet step uses up a key of the new chain, and the step
\* starts a sending chain no frame was sealed on.
LEMMA DecryptAfterRatchetStepOnce ==
  ASSUME TypeOK, OnceInv, NEW p \in Party, NEW g \in Carried, NEW f \in {g} \cup Damaged(g),
         DecryptAfterRatchetStep(p, f)
  PROVE  /\ OnceInv'
         /\ NewKey(f, opened[p])
         /\ f.key \in MessageKey /\ f.aad = f.header /\ Len(f.key.chain) % 2 = 1 - Turn(p)
<1> DEFINE s == session[p]
           fresh == Generate(s.own_ratchet)
           t == RatchetStep(s, f.header, fresh)
<1>1. /\ f \in Frame /\ IsSession(s) /\ OpenedKeysSpent(p, s, opened[p])
      /\ SealedKeysUsed(p, s, sent[p]) /\ Len(s.root_key) % 2 = Turn(p)
  BY ArrivingFrames DEF TypeOK, OnceInv, SealedKeysUsed
<1>2. /\ StepResult(s, f, fresh) = "Ok"
      /\ session' = [session EXCEPT ![p] = t]
      /\ Returns(p, f)
  BY DEF DecryptAfterRatchetStep
<1>3. /\ f.key \in MessageKey
      /\ f.aad = f.header
      /\ Len(f.key.chain) % 2 = 1 - Turn(p)
      /\ NewKey(f, opened[p])
      /\ OpenedKeysSpent(p, t, opened[p] \cup {f})
  BY <1>1, <1>2, OpenAfterStepSpent
<1>4. SealedKeysUsed(p, t, sent[p])
  <2>1. f.header \in Header
    BY <1>1 DEF Frame
  <2>2. t.root_key \in RootKey /\ Len(t.root_key) = Len(s.root_key) + 2
    BY <1>1, <2>1, RatchetStepType DEF RatchetStep
  <2>3. t.sending = [key |-> t.root_key, next |-> 0]
    BY DEF RatchetStep, ChainStart
  <2> HIDE DEF t
  <2>4. t.sending # None /\ t.sending.key = t.root_key
    BY <2>2, <2>3, NoneAssumption DEF Chain
  <2>5. Len(s.root_key) \in Nat
    BY <1>1 DEF IsSession, RootKey
  <2>6. Len(t.root_key) % 2 = Turn(p)
    BY <1>1, <2>2, <2>5, NextTurn
  <2>7. ASSUME NEW m \in sent[p]
        PROVE  /\ m.key \in MessageKey
               /\ m.aad = m.header
               /\ Len(m.key.chain) <= Len(t.root_key)
               /\ Len(m.key.chain) % 2 = Turn(p)
               /\ m.key.chain # t.root_key
    <3>1. /\ m.key \in MessageKey
          /\ m.aad = m.header
          /\ Len(m.key.chain) <= Len(s.root_key)
          /\ Len(m.key.chain) % 2 = Turn(p)
      BY <1>1 DEF SealedKeysUsed
    <3>2. Len(m.key.chain) \in Nat
      BY <3>1 DEF MessageKey, RootKey
    <3>3. Len(m.key.chain) <= Len(t.root_key) /\ m.key.chain # t.root_key
      BY <2>2, <2>5, <3>1, <3>2
    <3> QED BY <3>1, <3>3
  <2> QED BY <2>4, <2>6, <2>7 DEF SealedKeysUsed
<1> HIDE DEF t
<1> QED BY <1>2, <1>3, <1>4, OpenOnce

\* No step spends a key twice.
LEMMA NextOnceInv == TypeOK /\ OnceInv /\ [Next]_vars => OnceInv'
<1> SUFFICES ASSUME TypeOK, OnceInv, [Next]_vars PROVE OnceInv'
  OBVIOUS
<1>1. CASE UNCHANGED vars
  BY <1>1 DEF vars, OnceInv
<1>2. ASSUME NEW p \in Party, Encrypt(p) PROVE OnceInv'
  BY <1>2, EncryptOnce
<1>3. ASSUME NEW p \in Party, EncryptRefused(p) PROVE OnceInv'
  BY <1>1, <1>3 DEF EncryptRefused
<1>4. ASSUME NEW p \in Party, NEW g \in Carried, NEW f \in {g} \cup Damaged(g), Decrypt(p, f)
      PROVE  OnceInv'
  <2>1. CASE DecryptSkipped(p, f)
    BY <2>1, DecryptSkippedOnce
  <2>2. CASE DecryptInReceivingChain(p, f)
    BY <2>2, DecryptInReceivingChainOnce
  <2>3. CASE DecryptAfterRatchetStep(p, f)
    BY <2>3, DecryptAfterRatchetStepOnce
  <2>4. CASE DecryptRefused(p, f)
    BY <1>1, <2>4 DEF DecryptRefused
  <2> QED BY <1>4, <2>1, <2>2, <2>3, <2>4 DEF Decrypt
<1> QED BY <1>1, <1>2, <1>3, <1>4 DEF Next

\* Each message key is yet to be derived, stored, or used, and never two of
\* these: the invariant that the theorems below rest on.
THEOREM OnceInvariant == Spec => [](TypeOK /\ OnceInv)
<1>1. Init => TypeOK /\ OnceInv
  BY InitTypeOK, InitOnceInv
<1>2. TypeOK /\ OnceInv /\ [Next]_vars => (TypeOK /\ OnceInv)'
  BY NextTypeOK, NextOnceInv
<1> QED BY <1>1, <1>2, PTL DEF Spec

\* QW-P-E2E-063: whatever the carrier damages, reflects or repeats, decrypt only
\* ever returns plaintexts of frames the peer sealed.
THEOREM OnlyThePeers == Spec => []OpensOnlyThePeers
<1>1. OnceInv => OpensOnlyThePeers
  BY DEF OnceInv, OpensOnlyThePeers
<1> QED BY <1>1, OnceInvariant, PTL

\* QW-P-E2E-062: a frame that has opened is refused ever after, with any limits
\* and after any number of ratchet steps.
THEOREM AtMostOnce == Spec => []OpensAtMostOnce
<1>1. TypeOK /\ OnceInv => OpensAtMostOnce
  <2> SUFFICES ASSUME TypeOK, OnceInv, NEW p \in Party, NEW f \in opened[p], Answer(p, f) = "Ok"
               PROVE  FALSE
    BY DEF OpensAtMostOnce
  <2> DEFINE s == session[p]
  <2>1. /\ f \in Frame /\ IsSession(s) /\ OpenedKeysSpent(p, s, opened[p])
        /\ Len(s.root_key) % 2 = Turn(p)
    BY DEF TypeOK, OnceInv, SealedKeysUsed
  <2>2. CASE IsSkipped(s, f)
    <3>1. SkippedResult(s, f) = "Ok"
      BY <2>2 DEF Answer, DecryptResult, InReceivingChain, AfterRatchetStep
    <3>2. NewKey(f, opened[p])
      BY <2>1, <2>2, <3>1, OpenSkippedSpent
    <3> QED BY <3>2 DEF NewKey
  <2>3. CASE InReceivingChain(s, f)
    <3>1. ReceivingResult(s, f) = "Ok"
      BY <2>3 DEF Answer, DecryptResult, InReceivingChain, AfterRatchetStep
    <3>2. NewKey(f, opened[p])
      BY <2>1, <2>3, <3>1, OpenInReceivingSpent
    <3> QED BY <3>2 DEF NewKey
  <2>4. CASE AfterRatchetStep(s, f)
    <3>1. StepResult(s, f, Generate(s.own_ratchet)) = "Ok"
      BY <2>4 DEF Answer, DecryptResult, InReceivingChain, AfterRatchetStep
    <3>2. NewKey(f, opened[p])
      BY <2>1, <3>1, OpenAfterStepSpent
    <3> QED BY <3>2 DEF NewKey
  <2> QED BY <2>2, <2>3, <2>4 DEF InReceivingChain, AfterRatchetStep
<1> QED BY <1>1, OnceInvariant, PTL

-----------------------------------------------------------------------------
(* The two sessions implement OnceChannel, and nothing but an authentic     *)
(* frame, or a new one of its own, moves a session.                         *)

\* Sealing maps to sending a message whose key no earlier message has.
LEMMA EncryptSends ==
  ASSUME TypeOK, OnceInv, NEW p \in Party, Encrypt(p)
  PROVE  Once!Send(p)
<1> DEFINE F == NextFrame(p)
           m == [key |-> F.key, plaintext |-> F.plaintext]
           abs == [q \in Party |-> Messages(sent[q])]
<1>1. /\ sent' = [sent EXCEPT ![p] = @ \cup {F}]
      /\ opened' = opened /\ returned' = returned
      /\ sent \in [Party -> SUBSET Frame]
  BY DEF Encrypt, Seals, TypeOK
<1>2. \A q \in Party : \A f \in sent[q] : f.key # F.key
  BY EncryptFresh
<1> HIDE DEF F
<1>3. Messages(sent[p] \cup {F}) = Messages(sent[p]) \cup {m}
  BY DEF Messages
<1>4. \A q \in Party : \A n \in abs[q] : n.key # m.key
  BY <1>2 DEF Messages
<1>5. [q \in Party |-> Messages(sent'[q])] = [abs EXCEPT ![p] = abs[p] \cup {m}]
  BY <1>1, <1>3
<1>6. m \in [q \in Party |-> Messages(sent'[q])][p]
  BY <1>5
<1>7. [q \in Party |-> Messages(opened'[q])] = [q \in Party |-> Messages(opened[q])]
  BY <1>1
<1> HIDE DEF m
<1> QED BY <1>1, <1>4, <1>5, <1>6, <1>7 DEF Once!Send

\* Opening maps to returning a message of the peer's that was not returned.
LEMMA DecryptOpens ==
  ASSUME TypeOK, OnceInv, NEW p \in Party, NEW f, Returns(p, f),
         f \in sent[Peer(p)], NewKey(f, opened[p])
  PROVE  Once!Open(p)
<1> DEFINE m == [key |-> f.key, plaintext |-> f.plaintext]
           abs == [q \in Party |-> Messages(opened[q])]
<1>1. /\ opened' = [opened EXCEPT ![p] = @ \cup {f}]
      /\ returned' = [returned EXCEPT ![p] = @ + 1]
      /\ sent' = sent
      /\ opened \in [Party -> SUBSET Frame]
  BY DEF Returns, TypeOK
<1>2. Messages(opened[p] \cup {f}) = Messages(opened[p]) \cup {m}
  BY DEF Messages
<1>3. m \in Messages(sent[Peer(p)]) \ Messages(opened[p])
  BY DEF Messages, NewKey
<1>4. [q \in Party |-> Messages(opened'[q])] = [abs EXCEPT ![p] = abs[p] \cup {m}]
  BY <1>1, <1>2
<1>5. [q \in Party |-> Messages(sent'[q])] = [q \in Party |-> Messages(sent[q])]
  BY <1>1
<1>6. Peer(p) \in Party
  BY TurnFacts
<1>7. m \in [q \in Party |-> Messages(sent[q])][Peer(p)] \ abs[p]
  BY <1>3, <1>6
<1> HIDE DEF m
<1> QED BY <1>1, <1>4, <1>5, <1>7 DEF Once!Open

\* A decrypt that succeeds returns a frame of the peer's, of a key unused so far.
LEMMA DecryptReturns ==
  ASSUME TypeOK, OnceInv, NEW p \in Party, NEW g \in Carried, NEW f \in {g} \cup Damaged(g),
         DecryptSkipped(p, f) \/ DecryptInReceivingChain(p, f) \/ DecryptAfterRatchetStep(p, f)
  PROVE  /\ Returns(p, f)
         /\ f \in sent[Peer(p)]
         /\ NewKey(f, opened[p])
         /\ f.key \in MessageKey
         /\ f.aad = f.header
<1>1. /\ NewKey(f, opened[p])
      /\ f.key \in MessageKey /\ f.aad = f.header /\ Len(f.key.chain) % 2 = 1 - Turn(p)
  BY DecryptSkippedOnce, DecryptInReceivingChainOnce, DecryptAfterRatchetStepOnce
<1>2. Returns(p, f)
  BY DEF DecryptSkipped, DecryptInReceivingChain, DecryptAfterRatchetStep
<1> QED BY <1>1, <1>2, GenuineArrival

\* ADR-0020, QW-P-E2E-060, 062, 063: with any limits and any carrier, no key seals
\* two messages, and each message of the peer's is returned at most once.
THEOREM Implements == Spec => ImplementsOnceChannel
<1>1. Init => Once!Init
  BY DEF Init, Once!Init, Messages, Party
<1>2. TypeOK /\ OnceInv /\ [Next]_vars => [Once!Next]_(Once!vars)
  <2> SUFFICES ASSUME TypeOK, OnceInv, [Next]_vars PROVE [Once!Next]_(Once!vars)
    OBVIOUS
  <2>1. CASE UNCHANGED vars
    BY <2>1 DEF vars, Once!vars
  <2>2. ASSUME NEW p \in Party, Encrypt(p) PROVE Once!Next
    BY <2>2, EncryptSends DEF Once!Next
  <2>3. ASSUME NEW p \in Party, EncryptRefused(p) PROVE UNCHANGED Once!vars
    BY <2>3 DEF EncryptRefused, vars, Once!vars
  <2>4. ASSUME NEW p \in Party, NEW g \in Carried, NEW f \in {g} \cup Damaged(g), Decrypt(p, f)
        PROVE  [Once!Next]_(Once!vars)
    <3>1. CASE DecryptRefused(p, f)
      BY <2>1, <3>1 DEF DecryptRefused
    <3>2. CASE DecryptSkipped(p, f) \/ DecryptInReceivingChain(p, f) \/ DecryptAfterRatchetStep(p, f)
      BY <3>2, DecryptReturns, DecryptOpens DEF Once!Next
    <3> QED BY <2>4, <3>1, <3>2 DEF Decrypt
  <2> QED BY <2>1, <2>2, <2>3, <2>4 DEF Next
<1> QED BY <1>1, <1>2, OnceInvariant, PTL DEF Spec, ImplementsOnceChannel, Once!Spec

\* The module comment of ratchet.rs: nothing the carrier does moves a session,
\* except handing over an authentic frame it has not opened yet.
THEOREM OnlyAuthenticFrames == Spec => OnlyAuthenticFramesChangeASession
<1> DEFINE A == \A p \in Party : session'[p] # session[p] =>
                  \/ sent'[p] # sent[p]
                  \/ \E f \in opened'[p] \ opened[p] : f.aad = f.header /\ f.key # None
<1>1. TypeOK /\ OnceInv /\ [Next]_vars => [A]_vars
  <2> SUFFICES ASSUME TypeOK, OnceInv, Next PROVE A
    OBVIOUS
  <2>1. ASSUME NEW p \in Party, Encrypt(p) PROVE A
    <3>1. /\ NextFrame(p) \in sent'[p] \ sent[p]
          /\ \A q \in Party : q # p => session'[q] = session[q]
      BY <2>1, EncryptFresh DEF Encrypt, Seals, TypeOK
    <3> QED BY <3>1
  <2>2. ASSUME NEW p \in Party, EncryptRefused(p) PROVE A
    BY <2>2 DEF EncryptRefused, vars
  <2>3. ASSUME NEW p \in Party, NEW g \in Carried, NEW f \in {g} \cup Damaged(g), Decrypt(p, f)
        PROVE  A
    <3>1. CASE DecryptRefused(p, f)
      BY <3>1 DEF DecryptRefused, vars
    <3>2. CASE DecryptSkipped(p, f) \/ DecryptInReceivingChain(p, f) \/ DecryptAfterRatchetStep(p, f)
      <4>1. Returns(p, f) /\ NewKey(f, opened[p]) /\ f.aad = f.header /\ f.key # None
        BY <3>2, DecryptReturns, NoneAssumption
      <4>2. f \in opened'[p] \ opened[p]
        BY <4>1 DEF Returns, NewKey, TypeOK
      <4>3. \A q \in Party : q # p => session'[q] = session[q]
        BY <3>2 DEF DecryptSkipped, DecryptInReceivingChain, DecryptAfterRatchetStep, TypeOK
      <4> QED BY <4>1, <4>2, <4>3
    <3> QED BY <2>3, <3>1, <3>2 DEF Decrypt
  <2> QED BY <2>1, <2>2, <2>3 DEF Next
<1> QED BY <1>1, OnceInvariant, PTL DEF Spec, OnlyAuthenticFramesChangeASession

-----------------------------------------------------------------------------
(* Forward secrecy *)

\* What a session still leads to is ahead of all it has sealed and opened: a key
\* is stored, or not behind its chain, or of a chain longer than the root key.
LEMMA PastKeysGone ==
  ASSUME TypeOK, OnceInv, NEW p \in Party, NEW f \in sent[p] \cup opened[p]
  PROVE  ~Derivable(session[p], f.key)
<1> DEFINE s == session[p]
           key == f.key
<1>1. /\ IsSession(s) /\ SealedKeysUsed(p, s, sent[p]) /\ OpenedKeysSpent(p, s, opened[p])
      /\ key \in MessageKey
  BY DEF TypeOK, OnceInv, SealedKeysUsed, OpenedKeysSpent
<1>2. \/ Len(key.chain) % 2 = Turn(p) /\ f \in sent[p]
      \/ Len(key.chain) % 2 = 1 - Turn(p) /\ f \in opened[p]
  BY <1>1 DEF SealedKeysUsed, OpenedKeysSpent, Passed
<1>3. Len(key.chain) <= Len(s.root_key)
  BY <1>1 DEF SealedKeysUsed, OpenedKeysSpent, Passed
<1>4. key \notin Keys(s.skipped)
  <2>1. CASE f \in opened[p]
    BY <1>1, <2>1 DEF OpenedKeysSpent
  <2>2. CASE Len(key.chain) % 2 = Turn(p)
    <3>1. \A k \in Keys(s.skipped) : Len(k.chain) % 2 = 1 - Turn(p)
      BY <1>1 DEF OpenedKeysSpent, Passed, Keys
    <3> QED BY <2>2, <3>1, TurnFacts
  <2> QED BY <1>2, <2>1, <2>2
<1>5. ASSUME s.sending # None, key.chain = s.sending.key
      PROVE  ~(key.number >= s.sending.next)
  <2>1. s.sending \in Chain /\ s.sending.key = s.root_key /\ Len(s.root_key) % 2 = Turn(p)
    BY <1>1, <1>5 DEF SealedKeysUsed, IsSession
  <2>2. Len(key.chain) % 2 = Turn(p)
    BY <1>5, <2>1, Zenon
  <2>3. f \in sent[p]
    BY <1>2, <2>2, TurnFacts
  <2>4. key.number < s.sending.next
    BY <1>1, <1>5, <2>1, <2>3 DEF SealedKeysUsed
  <2> QED BY <1>1, <2>1, <2>4 DEF MessageKey, Chain
<1>6. ASSUME s.receiving # None, key.chain = s.receiving.key
      PROVE  ~(key.number >= s.receiving.next)
  <2>1. s.receiving \in Chain /\ Len(s.receiving.key) % 2 = 1 - Turn(p)
    BY <1>1, <1>6 DEF OpenedKeysSpent, IsSession
  <2>2. Len(key.chain) % 2 = 1 - Turn(p)
    BY <1>6, <2>1, Zenon
  <2>3. f \in opened[p]
    BY <1>2, <2>2, TurnFacts
  <2>4. key.number < s.receiving.next
    BY <1>1, <1>6, <2>3 DEF OpenedKeysSpent, Passed
  <2> QED BY <1>1, <2>1, <2>4 DEF MessageKey, Chain
<1>7. ~(Len(key.chain) > Len(s.root_key))
  BY <1>1, <1>3 DEF MessageKey, IsSession, RootKey
<1> QED BY <1>4, <1>5, <1>6, <1>7 DEF Derivable

\* QW-P-E2E-064: whoever takes over a device learns no message key of a frame that
\* it has sealed or opened, with any limits and after any number of ratchet steps.
THEOREM PastFramesStaySecret == Spec => []ForwardSecrecy
<1>1. TypeOK /\ OnceInv => ForwardSecrecy
  BY PastKeysGone DEF ForwardSecrecy
<1> QED BY <1>1, OnceInvariant, PTL


-----------------------------------------------------------------------------
(* The inductive invariant.  All chains start from root keys of the same    *)
(* succession: each root key is a prefix of the next, so its length tells   *)
(* it, and the ratchet key that came with it, from the others.              *)

IsPrefixOf(chain, root) == Len(chain) <= Len(root) /\ \A i \in 1..Len(chain) : chain[i] = root[i]

\* The ratchet key that p generated for the root key of that length.
RatchetOf(p, length) == <<p, length \div 2>>

\* A session's frames carry the ratchet key, the number and the length of the
\* previous chain that belong to the chain they are sealed on.
SealedInOrder(p, s, frames) ==
  /\ s.own_ratchet = RatchetOf(p, Len(s.root_key))
  /\ \A f \in frames :
       /\ f.header.ratchet = RatchetOf(p, Len(f.key.chain))
       /\ f.header.message_number = f.key.number
       /\ IsPrefixOf(f.key.chain, s.root_key)
       /\ Len(f.key.chain) = Len(s.root_key) => f.header.previous_chain_len = s.previous_sending_len
       /\ Len(f.key.chain) = Len(s.root_key) - 2 => f.key.number < s.previous_sending_len
  /\ \A f, g \in frames : f.key = g.key => f = g

\* The receiving chain is the one before the sending chain, and remote_ratchet is
\* the peer's key for it.
ReceivingInOrder(p, s) ==
  /\ s.remote_ratchet # None => s.remote_ratchet = RatchetOf(Peer(p), Len(s.root_key) - 1)
  /\ s.receiving # None => /\ s.remote_ratchet # None
                           /\ Len(s.root_key) = Len(s.receiving.key) + 1
                           /\ IsPrefixOf(s.receiving.key, s.root_key)

\* The session s has made one ratchet step more than its peer r: it knows r's
\* ratchet key, r does not know its own, and neither has received on a chain more
\* than the other has sealed.
Ahead(s, r) ==
  /\ s.root_key = KdfRoot(r.root_key, r.own_ratchet, s.own_ratchet)
  /\ s.remote_ratchet = r.own_ratchet
  /\ s.sending # None
  /\ s.receiving = None <=> r.sending = None
  /\ s.receiving # None => s.receiving.key = r.root_key /\ s.receiving.next <= r.sending.next
  /\ r.receiving # None => r.receiving.next <= s.previous_sending_len

InStepInv ==
  /\ \E p \in Party : Ahead(session[p], session[Peer(p)])
  /\ \A p \in Party : /\ SealedInOrder(p, session[p], sent[p])
                      /\ ReceivingInOrder(p, session[p])

-----------------------------------------------------------------------------
(* Root keys and ratchet keys *)

\* Prefixes of one root key are told apart by their lengths.
LEMMA SamePrefix ==
  ASSUME NEW c \in RootKey, NEW d \in RootKey, NEW root \in RootKey,
         IsPrefixOf(c, root), IsPrefixOf(d, root), Len(c) = Len(d)
  PROVE  c = d
<1>1. \A i \in 1..Len(c) : c[i] = d[i]
  BY DEF IsPrefixOf
<1> QED BY <1>1, SeqEqual DEF RootKey

\* A root key is a prefix of the one that kdf_root derives from it.
LEMMA PrefixOfNext ==
  ASSUME NEW root \in RootKey, NEW own \in PublicKey, NEW remote \in PublicKey
  PROVE  LET next == KdfRoot(root, own, remote)
         IN  /\ next \in RootKey /\ Len(next) = Len(root) + 1 /\ Len(root) \in Nat
             /\ IsPrefixOf(root, next)
             /\ \A c \in RootKey : IsPrefixOf(c, root) => IsPrefixOf(c, next)
<1> DEFINE next == KdfRoot(root, own, remote)
<1>1. {own, remote} \in SUBSET PublicKey /\ root \in Seq(SUBSET PublicKey)
  BY DEF RootKey
<1>2. /\ next \in RootKey /\ Len(next) = Len(root) + 1
      /\ \A i \in 1..Len(root) : next[i] = root[i]
  BY <1>1, AppendProperties DEF KdfRoot, RootKey
<1>3. Len(root) \in Nat
  BY <1>1, LenProperties
<1> HIDE DEF next
<1>4. IsPrefixOf(root, next)
  BY <1>2, <1>3 DEF IsPrefixOf
<1>5. ASSUME NEW c \in RootKey, IsPrefixOf(c, root) PROVE IsPrefixOf(c, next)
  <2>1. Len(c) \in Nat
    BY LenProperties DEF RootKey
  <2> QED BY <1>2, <1>3, <1>5, <2>1 DEF IsPrefixOf
<1> QED BY <1>2, <1>3, <1>4, <1>5 DEF next

\* Both sides of a ratchet step derive the same root key.
LEMMA KdfRootAgrees ==
  ASSUME NEW root, NEW own, NEW remote
  PROVE  KdfRoot(root, own, remote) = KdfRoot(root, remote, own)
<1>1. {own, remote} = {remote, own}
  OBVIOUS
<1> QED BY <1>1 DEF KdfRoot

\* Each ratchet step generates the next of the party's keys.
LEMMA RatchetOfNext ==
  ASSUME NEW p \in Party, NEW length \in Nat
  PROVE  /\ RatchetOf(p, length) \in RatchetKey
         /\ Generate(RatchetOf(p, length)) = RatchetOf(p, length + 2)
<1>1. length \div 2 \in Nat /\ (length + 2) \div 2 = length \div 2 + 1
  OBVIOUS
<1> QED BY <1>1 DEF RatchetOf, Generate, RatchetKey

\* The ratchet key of a chain tells its length.
LEMMA RatchetOfLength ==
  ASSUME NEW p \in Party, NEW m \in Nat, NEW n \in Nat, m % 2 = n % 2,
         RatchetOf(p, m) = RatchetOf(p, n)
  PROVE  m = n
<1>1. m \div 2 = n \div 2
  BY DEF RatchetOf
<1> QED BY <1>1

LEMMA PeerOfPeer ==
  ASSUME NEW p \in Party
  PROVE  Peer(p) \in Party /\ Peer(p) # p /\ Peer(Peer(p)) = p /\ Party = {p, Peer(p)}
BY DEF Peer, Party

-----------------------------------------------------------------------------
(* The sessions stay in step *)

\* One of the two is ahead, and it has the longer root key.
LEMMA EitherAhead ==
  ASSUME InStepInv, NEW p \in Party
  PROVE  Ahead(session[p], session[Peer(p)]) \/ Ahead(session[Peer(p)], session[p])
BY PeerOfPeer DEF InStepInv

LEMMA AheadLength ==
  ASSUME TypeOK, NEW p \in Party, Ahead(session[p], session[Peer(p)])
  PROVE  LET s == session[p]
             r == session[Peer(p)]
         IN  /\ Len(s.root_key) = Len(r.root_key) + 1
             /\ Len(r.root_key) \in Nat /\ Len(s.root_key) \in Nat
             /\ IsPrefixOf(r.root_key, s.root_key)
             /\ \A c \in RootKey : IsPrefixOf(c, r.root_key) => IsPrefixOf(c, s.root_key)
<1> DEFINE s == session[p]
           r == session[Peer(p)]
<1>1. /\ r.root_key \in RootKey /\ r.own_ratchet \in PublicKey /\ s.own_ratchet \in PublicKey
  BY PeerOfPeer DEF TypeOK, IsSession, PublicKey
<1>2. s.root_key = KdfRoot(r.root_key, r.own_ratchet, s.own_ratchet)
  BY DEF Ahead
<1> HIDE DEF s, r
<1>3. /\ Len(s.root_key) = Len(r.root_key) + 1 /\ Len(r.root_key) \in Nat
      /\ IsPrefixOf(r.root_key, s.root_key)
      /\ \A c \in RootKey : IsPrefixOf(c, r.root_key) => IsPrefixOf(c, s.root_key)
  BY <1>1, <1>2, PrefixOfNext
<1> QED BY <1>3 DEF s, r

\* What a step of party p must leave for the sessions to be in step.
LEMMA InStepStep ==
  ASSUME TypeOK, InStepInv, NEW p \in Party, NEW t, session' = [session EXCEPT ![p] = t],
         sent'[Peer(p)] = sent[Peer(p)],
         SealedInOrder(p, t, sent'[p]), ReceivingInOrder(p, t),
         Ahead(t, session[Peer(p)]) \/ Ahead(session[Peer(p)], t)
  PROVE  InStepInv'
<1>1. /\ Peer(p) \in Party /\ Peer(p) # p /\ Peer(Peer(p)) = p /\ Party = {p, Peer(p)}
      /\ Party' = Party
  BY PeerOfPeer DEF Party
<1>2. session'[p] = t /\ session'[Peer(p)] = session[Peer(p)]
  BY <1>1 DEF TypeOK
<1>3. \A q \in Party : /\ SealedInOrder(q, session'[q], sent'[q])
                       /\ ReceivingInOrder(q, session'[q])
  <2>1. /\ SealedInOrder(Peer(p), session[Peer(p)], sent[Peer(p)])
        /\ ReceivingInOrder(Peer(p), session[Peer(p)])
    BY <1>1 DEF InStepInv
  <2> QED BY <1>1, <1>2, <2>1
<1>4. \E q \in Party : Ahead(session'[q], session'[Peer(q)])
  <2>1. CASE Ahead(t, session[Peer(p)])
    BY <1>1, <1>2, <2>1
  <2>2. CASE Ahead(session[Peer(p)], t)
    BY <1>1, <1>2, <2>2
  <2> QED BY <2>1, <2>2
<1> QED BY <1>3, <1>4 DEF InStepInv, SealedInOrder, ReceivingInOrder, Ahead, IsPrefixOf, RatchetOf, Peer

\* The initiator starts one step ahead of the responder.
LEMMA InitInStep == Init => InStepInv
<1> SUFFICES ASSUME Init PROVE InStepInv
  OBVIOUS
<1> DEFINE A == session["Alice"]
           B == session["Bob"]
           a == <<"Alice", 0>>
           b == <<"Bob", 0>>
           root == KdfRoot(<< >>, a, b)
<1>1. /\ A = [root_key |-> root, own_ratchet |-> a, remote_ratchet |-> b,
              sending |-> [key |-> root, next |-> 0], receiving |-> None,
              previous_sending_len |-> 0, skipped |-> << >>]
      /\ B = [root_key |-> << >>, own_ratchet |-> b, remote_ratchet |-> None,
              sending |-> None, receiving |-> None,
              previous_sending_len |-> 0, skipped |-> << >>]
      /\ \A p \in Party : sent[p] = {}
  BY DEF Init, Party, InitiatorSession, ResponderSession, ChainStart, SharedKey
<1>2. /\ Peer("Alice") = "Bob" /\ Peer("Bob") = "Alice"
      /\ "Alice" \in Party /\ "Bob" \in Party /\ Party = {"Alice", "Bob"}
  BY DEF Peer, Party
<1>3. << >> \in RootKey /\ a \in RatchetKey /\ b \in RatchetKey /\ a \in PublicKey /\ b \in PublicKey
  BY DEF RootKey, RatchetKey, PublicKey, Party
<1>4. root \in RootKey /\ Len(root) = 1
  <2>1. root \in RootKey /\ Len(root) = Len(<< >>) + 1
    BY <1>3, PrefixOfNext
  <2> HIDE DEF root
  <2> QED BY <2>1
<1>5. root = KdfRoot(<< >>, b, a)
  BY KdfRootAgrees
<1> HIDE DEF root
<1>6. [key |-> root, next |-> 0] # None
  BY <1>4, NoneAssumption DEF Chain
<1>7. RatchetOf("Alice", 1) = a /\ RatchetOf("Bob", 0) = b /\ Len(<< >>) = 0
  <2>1. 1 \div 2 = 0 /\ 0 \div 2 = 0
    OBVIOUS
  <2> QED BY <2>1 DEF RatchetOf
<1> HIDE DEF a, b
<1> HIDE DEF A, B
<1>8. Ahead(A, B)
  BY <1>1, <1>5, <1>6 DEF Ahead
<1>9. SealedInOrder("Alice", A, {}) /\ SealedInOrder("Bob", B, {})
  BY <1>1, <1>4, <1>7 DEF SealedInOrder
<1>10. ReceivingInOrder("Alice", A)
  <2>1. Len(A.root_key) - 1 = 0
    BY <1>1, <1>4
  <2> QED BY <1>1, <1>2, <1>7, <2>1 DEF ReceivingInOrder
<1>11. ReceivingInOrder("Bob", B)
  BY <1>1 DEF ReceivingInOrder
<1> QED BY <1>1, <1>2, <1>8, <1>9, <1>10, <1>11 DEF InStepInv, A, B

\* encrypt adds one frame of the newest chain.
LEMMA EncryptInStep ==
  ASSUME TypeOK, OnceInv, InStepInv, NEW p \in Party, Encrypt(p)
  PROVE  InStepInv'
<1> DEFINE s == session[p]
           r == session[Peer(p)]
           t == AfterSealing(s)
           F == NextFrame(p)
<1>1. /\ s.sending \in Chain /\ s.sending.key = s.root_key
      /\ F.key \in MessageKey
      /\ \A q \in Party : \A f \in sent[q] : f.key # F.key
  BY EncryptFresh
<1>2. IsSession(s) /\ s.sending # None /\ Peer(p) \in Party /\ Peer(p) # p
  BY PeerOfPeer DEF TypeOK, Encrypt, Seals, CanSend
<1>3. /\ t.root_key = s.root_key /\ t.own_ratchet = s.own_ratchet
      /\ t.remote_ratchet = s.remote_ratchet /\ t.receiving = s.receiving
      /\ t.previous_sending_len = s.previous_sending_len
      /\ t.sending = [key |-> s.sending.key, next |-> s.sending.next + 1]
  BY <1>1, <1>2 DEF IsSession, Chain, AfterSealing
<1>4. /\ F.key.chain = s.root_key /\ F.key.number = s.sending.next
      /\ F.header = [ratchet |-> s.own_ratchet, previous_chain_len |-> s.previous_sending_len,
                     message_number |-> s.sending.next]
  BY <1>1 DEF NextFrame, SealedFrame, KeyOf, NextHeader
<1>5. /\ session' = [session EXCEPT ![p] = t] /\ sent' = [sent EXCEPT ![p] = @ \cup {F}]
  BY DEF Encrypt, Seals
<1>6. /\ SealedInOrder(p, s, sent[p]) /\ ReceivingInOrder(p, s)
  BY DEF InStepInv
<1>7. Ahead(s, r) \/ Ahead(r, s)
  BY EitherAhead
<1>8. sent'[p] = sent[p] \cup {F} /\ sent'[Peer(p)] = sent[Peer(p)]
  BY <1>2, <1>5 DEF TypeOK
<1> HIDE DEF t, F, s, r
<1>9. Len(s.root_key) \in Nat /\ s.sending.next \in Nat /\ s.root_key \in RootKey
  BY <1>1, <1>2 DEF IsSession, RootKey, Chain
<1>10. t.sending \in Chain /\ t.sending # None /\ t.sending.next = s.sending.next + 1
  BY <1>1, <1>3, <1>9, NoneAssumption DEF Chain
<1>11. SealedInOrder(p, t, sent[p] \cup {F})
  <2>1. /\ F.header.ratchet = RatchetOf(p, Len(F.key.chain))
        /\ F.header.message_number = F.key.number
        /\ F.header.previous_chain_len = s.previous_sending_len
    BY <1>4, <1>6 DEF SealedInOrder
  <2>2. IsPrefixOf(F.key.chain, s.root_key) /\ Len(F.key.chain) # Len(s.root_key) - 2
    BY <1>4, <1>9 DEF IsPrefixOf
  <2>3. \A f, g \in sent[p] \cup {F} : f.key = g.key => f = g
    BY <1>1, <1>6 DEF SealedInOrder
  <2> QED BY <1>3, <1>6, <2>1, <2>2, <2>3 DEF SealedInOrder
<1>12. ReceivingInOrder(p, t)
  BY <1>3, <1>6 DEF ReceivingInOrder
<1>13. Ahead(t, r) \/ Ahead(r, t)
  <2>1. ASSUME Ahead(s, r) PROVE Ahead(t, r)
    BY <1>3, <1>10, <2>1 DEF Ahead
  <2>2. ASSUME Ahead(r, s) PROVE Ahead(r, t)
    <3>1. r.receiving # None => r.receiving.next <= t.sending.next /\ r.receiving.key = t.root_key
      <4>1. IsSession(r)
        BY <1>2 DEF TypeOK, r
      <4>2. r.receiving # None => r.receiving.next \in Nat
        BY <4>1 DEF IsSession, Chain
      <4> QED BY <1>3, <1>9, <1>10, <2>2, <4>2 DEF Ahead
    <3> QED BY <1>2, <1>3, <1>10, <2>2, <3>1 DEF Ahead
  <2> QED BY <1>7, <2>1, <2>2
<1> QED BY <1>5, <1>8, <1>11, <1>12, <1>13, InStepStep DEF r

\* Using a stored key moves neither chain.
LEMMA DecryptSkippedInStep ==
  ASSUME TypeOK, InStepInv, NEW p \in Party, NEW f, DecryptSkipped(p, f)
  PROVE  InStepInv'
<1> DEFINE s == session[p]
           r == session[Peer(p)]
           t == AfterStoredKey(s, f.header)
<1>1. IsSession(s) /\ Peer(p) \in Party
  BY PeerOfPeer DEF TypeOK
<1>2. /\ t.root_key = s.root_key /\ t.own_ratchet = s.own_ratchet
      /\ t.remote_ratchet = s.remote_ratchet /\ t.receiving = s.receiving
      /\ t.previous_sending_len = s.previous_sending_len /\ t.sending = s.sending
  BY <1>1 DEF IsSession, AfterStoredKey
<1>3. session' = [session EXCEPT ![p] = t] /\ sent' = sent
  BY DEF DecryptSkipped, Returns
<1>4. Ahead(s, r) \/ Ahead(r, s)
  BY EitherAhead
<1>5. SealedInOrder(p, s, sent[p]) /\ ReceivingInOrder(p, s)
  BY DEF InStepInv
<1> HIDE DEF s, r, t
<1>6. SealedInOrder(p, t, sent[p]) /\ ReceivingInOrder(p, t)
  BY <1>2, <1>5 DEF SealedInOrder, ReceivingInOrder
<1>7. Ahead(t, r) \/ Ahead(r, t)
  BY <1>2, <1>4 DEF Ahead
<1> QED BY <1>3, <1>6, <1>7, InStepStep DEF r

\* What the peer has sealed on the receiving chain: the chain it seals on, or the
\* one before.
LEMMA SealedOnReceivingChain ==
  ASSUME TypeOK, OnceInv, InStepInv, NEW p \in Party, session[p].receiving # None,
         NEW f \in sent[Peer(p)], f.key.chain = session[p].receiving.key
  PROVE  LET s == session[p]
             r == session[Peer(p)]
         IN  /\ Ahead(s, r) => f.key.number < r.sending.next
             /\ Ahead(r, s) => f.key.number < r.previous_sending_len
<1> DEFINE s == session[p]
           r == session[Peer(p)]
<1>1. /\ Peer(p) \in Party /\ Peer(Peer(p)) = p
      /\ SealedKeysUsed(Peer(p), r, sent[Peer(p)]) /\ SealedInOrder(Peer(p), r, sent[Peer(p)])
      /\ ReceivingInOrder(p, s) /\ s.receiving # None
  BY PeerOfPeer DEF OnceInv, InStepInv
<1>2. ASSUME Ahead(r, s) PROVE Len(r.root_key) = Len(s.root_key) + 1 /\ Len(s.root_key) \in Nat
  BY <1>1, <1>2, AheadLength
<1> HIDE DEF s, r
<1>3. f.key.chain = s.receiving.key
  BY DEF s
<1>4. ASSUME Ahead(s, r) PROVE f.key.number < r.sending.next
  <2>1. s.receiving.key = r.root_key
    BY <1>1, <1>4 DEF Ahead
  <2> QED BY <1>1, <1>3, <2>1 DEF SealedKeysUsed
<1>5. ASSUME Ahead(r, s) PROVE f.key.number < r.previous_sending_len
  <2>1. Len(s.root_key) = Len(s.receiving.key) + 1
    BY <1>1 DEF ReceivingInOrder
  <2>2. Len(s.receiving.key) \in Nat
    <3>1. f.key \in MessageKey
      BY <1>1 DEF SealedKeysUsed
    <3> QED BY <1>3, <3>1, LenProperties DEF MessageKey, RootKey
  <2>3. Len(f.key.chain) = Len(r.root_key) - 2
    BY <1>2, <1>3, <1>5, <2>1, <2>2
  <2> QED BY <1>1, <2>3 DEF SealedInOrder
<1> QED BY <1>4, <1>5 DEF s, r

\* The receiving chain never passes what the peer has sealed on it.
LEMMA DecryptInReceivingChainInStep ==
  ASSUME TypeOK, OnceInv, InStepInv, NEW p \in Party, NEW f \in sent[Peer(p)],
         DecryptInReceivingChain(p, f)
  PROVE  InStepInv'
<1> DEFINE s == session[p]
           r == session[Peer(p)]
           t == AfterReceiving(s, f.header)
           number == f.header.message_number
<1>1. IsSession(s) /\ IsSession(r) /\ Peer(p) \in Party /\ f \in Frame
  BY PeerOfPeer DEF TypeOK
<1>2. /\ s.receiving # None /\ s.receiving \in Chain
      /\ f.key = KeyOf(s.receiving.key, number)
  BY <1>1, ReceivingOk DEF DecryptInReceivingChain
<1>3. /\ t.root_key = s.root_key /\ t.own_ratchet = s.own_ratchet
      /\ t.remote_ratchet = s.remote_ratchet
      /\ t.receiving = [s.receiving EXCEPT !.next = number + 1]
      /\ t.previous_sending_len = s.previous_sending_len /\ t.sending = s.sending
  <2> DEFINE E == Extend(s.skipped, f.header.ratchet, s.receiving.key, s.receiving.next, number)
  <2>1. t = [s EXCEPT !.skipped = E, !.receiving.next = number + 1]
    BY DEF AfterReceiving
  <2> HIDE DEF E, t
  <2>2. t = [root_key |-> s.root_key, own_ratchet |-> s.own_ratchet,
             remote_ratchet |-> s.remote_ratchet, sending |-> s.sending,
             receiving |-> [s.receiving EXCEPT !.next = number + 1],
             previous_sending_len |-> s.previous_sending_len, skipped |-> E]
    BY <1>1, <2>1, AdvanceReceiving
  <2> QED BY <2>2
<1>4. session' = [session EXCEPT ![p] = t] /\ sent' = sent
  BY DEF DecryptInReceivingChain, Returns
<1>5. Ahead(s, r) \/ Ahead(r, s)
  BY EitherAhead
<1>6. SealedInOrder(p, s, sent[p]) /\ ReceivingInOrder(p, s)
  BY DEF InStepInv
<1>7. f.key.chain = s.receiving.key /\ f.key.number = number /\ number \in Nat
  BY <1>1, <1>2 DEF KeyOf, Frame, Header
<1>8. /\ Ahead(s, r) => number < r.sending.next
      /\ Ahead(r, s) => number < r.previous_sending_len
  BY <1>2, <1>7, SealedOnReceivingChain
<1> HIDE DEF s, r, t, number
<1>9. t.receiving.key = s.receiving.key /\ t.receiving.next = number + 1
      /\ t.receiving # None
  <2>1. t.receiving \in Chain
    BY <1>2, <1>3, <1>7 DEF Chain
  <2> QED BY <1>2, <1>3, <2>1, NoneAssumption DEF Chain
<1>10. SealedInOrder(p, t, sent[p]) /\ ReceivingInOrder(p, t)
  BY <1>2, <1>3, <1>6, <1>9 DEF SealedInOrder, ReceivingInOrder
<1>11. r.previous_sending_len \in Nat /\ (r.sending # None => r.sending.next \in Nat)
  BY <1>1 DEF IsSession, Chain
<1>12. ASSUME Ahead(s, r) PROVE Ahead(t, r)
  <2>1. t.receiving.next <= r.sending.next
    BY <1>2, <1>7, <1>8, <1>9, <1>11, <1>12 DEF Ahead
  <2> QED BY <1>2, <1>3, <1>9, <1>12, <2>1 DEF Ahead
<1>13. ASSUME Ahead(r, s) PROVE Ahead(r, t)
  <2>1. t.receiving.next <= r.previous_sending_len
    BY <1>7, <1>8, <1>9, <1>11, <1>13
  <2> QED BY <1>3, <1>13, <2>1 DEF Ahead
<1> QED BY <1>4, <1>5, <1>10, <1>12, <1>13, InStepStep DEF r

\* A frame that opens after a ratchet step is on the peer's newest chain: only the
\* session behind can make the step.
LEMMA StepFollowsPeer ==
  ASSUME TypeOK, OnceInv, InStepInv, NEW p \in Party, NEW f \in sent[Peer(p)],
         StepResult(session[p], f, Generate(session[p].own_ratchet)) = "Ok"
  PROVE  LET s == session[p]
             r == session[Peer(p)]
         IN  /\ Ahead(r, s)
             /\ KdfRoot(s.root_key, s.own_ratchet, f.header.ratchet) = r.root_key
             /\ f.key.chain = r.root_key
             /\ f.header.ratchet = r.own_ratchet
             /\ f.header.previous_chain_len = r.previous_sending_len
             /\ f.header.message_number = f.key.number
             /\ f.key.number < r.sending.next
<1> DEFINE s == session[p]
           r == session[Peer(p)]
           chain == KdfRoot(s.root_key, s.own_ratchet, f.header.ratchet)
<1>1. /\ Peer(p) \in Party /\ Peer(Peer(p)) = p /\ IsSession(s) /\ IsSession(r) /\ f \in Frame
      /\ SealedKeysUsed(Peer(p), r, sent[Peer(p)]) /\ SealedInOrder(Peer(p), r, sent[Peer(p)])
  BY PeerOfPeer DEF OnceInv, InStepInv, TypeOK
<1>2. f.key = KeyOf(chain, f.header.message_number)
  BY <1>1, StepOk
<1>3. f.key.chain = chain
  BY <1>2 DEF KeyOf
<1>4. chain \in RootKey /\ Len(chain) = Len(s.root_key) + 1 /\ Len(s.root_key) \in Nat
  <2>1. s.root_key \in RootKey /\ s.own_ratchet \in PublicKey /\ f.header.ratchet \in PublicKey
    BY <1>1 DEF IsSession, PublicKey, Frame, Header
  <2> QED BY <2>1, PrefixOfNext
<1>5. /\ Ahead(s, r) => Len(s.root_key) = Len(r.root_key) + 1
      /\ Ahead(r, s) => Len(r.root_key) = Len(s.root_key) + 1
      /\ Len(r.root_key) \in Nat
  BY <1>1, AheadLength, LenProperties DEF IsSession, RootKey
<1>6. Ahead(s, r) \/ Ahead(r, s)
  BY EitherAhead
<1> HIDE DEF chain, s, r
<1>7. Len(chain) <= Len(r.root_key) /\ IsPrefixOf(chain, r.root_key)
  BY <1>1, <1>3 DEF SealedKeysUsed, SealedInOrder
<1>8. Ahead(r, s) /\ Len(chain) = Len(r.root_key)
  BY <1>4, <1>5, <1>6, <1>7
<1>9. chain = r.root_key
  <2>1. IsPrefixOf(r.root_key, r.root_key)
    BY <1>5 DEF IsPrefixOf
  <2> QED BY <1>1, <1>4, <1>7, <1>8, <2>1, SamePrefix DEF IsSession
<1>10. /\ f.header.ratchet = RatchetOf(Peer(p), Len(r.root_key))
       /\ r.own_ratchet = RatchetOf(Peer(p), Len(r.root_key))
       /\ f.header.previous_chain_len = r.previous_sending_len
       /\ f.header.message_number = f.key.number
  BY <1>1, <1>3, <1>9 DEF SealedInOrder
<1>11. f.key.number < r.sending.next
  BY <1>1, <1>3, <1>9 DEF SealedKeysUsed
<1> QED BY <1>3, <1>8, <1>9, <1>10, <1>11 DEF s, r, chain

\* A ratchet step puts the session that was behind ahead.
LEMMA DecryptAfterRatchetStepInStep ==
  ASSUME TypeOK, OnceInv, InStepInv, NEW p \in Party, NEW f \in sent[Peer(p)],
         DecryptAfterRatchetStep(p, f)
  PROVE  InStepInv'
<1> DEFINE s == session[p]
           r == session[Peer(p)]
           h == f.header
           fresh == Generate(s.own_ratchet)
           t == RatchetStep(s, h, fresh)
           number == h.message_number
<1>1. /\ IsSession(s) /\ IsSession(r) /\ Peer(p) \in Party /\ Peer(Peer(p)) = p
      /\ h \in Header /\ number \in Nat
  BY PeerOfPeer DEF TypeOK, Frame, Header
<1>2. /\ Ahead(r, s)
      /\ KdfRoot(s.root_key, s.own_ratchet, h.ratchet) = r.root_key
      /\ f.key.chain = r.root_key
      /\ h.ratchet = r.own_ratchet
      /\ number = f.key.number /\ f.key.number < r.sending.next
  BY StepFollowsPeer DEF DecryptAfterRatchetStep
<1>3. session' = [session EXCEPT ![p] = t] /\ sent' = sent
  BY DEF DecryptAfterRatchetStep, Returns
<1>4. /\ t.root_key = KdfRoot(r.root_key, fresh, r.own_ratchet)
      /\ t.own_ratchet = fresh /\ t.remote_ratchet = r.own_ratchet
      /\ t.sending = [key |-> t.root_key, next |-> 0]
      /\ t.receiving = [key |-> r.root_key, next |-> number + 1]
      /\ t.previous_sending_len = PreviousSendingLen(s)
  BY <1>2 DEF RatchetStep, ChainStart
<1>5. /\ SealedInOrder(p, s, sent[p]) /\ SealedInOrder(Peer(p), r, sent[Peer(p)])
      /\ ReceivingInOrder(p, s) /\ SealedKeysUsed(p, s, sent[p])
  BY <1>1 DEF InStepInv, OnceInv
<1>6. /\ Len(r.root_key) = Len(s.root_key) + 1
      /\ Len(s.root_key) \in Nat /\ Len(r.root_key) \in Nat
      /\ \A c \in RootKey : IsPrefixOf(c, s.root_key) => IsPrefixOf(c, r.root_key)
  BY <1>1, <1>2, AheadLength
<1>7. fresh = RatchetOf(p, Len(s.root_key) + 2) /\ fresh \in RatchetKey /\ fresh \in PublicKey
      /\ r.own_ratchet \in PublicKey
  <2>1. s.own_ratchet = RatchetOf(p, Len(s.root_key))
    BY <1>5 DEF SealedInOrder
  <2>2. fresh = RatchetOf(p, Len(s.root_key) + 2)
    BY <1>6, <2>1, RatchetOfNext
  <2>3. RatchetOf(p, Len(s.root_key) + 2) \in RatchetKey
    BY <1>6, RatchetOfNext
  <2> QED BY <1>1, <2>2, <2>3 DEF IsSession, PublicKey
<1> HIDE DEF t, fresh, s, r, h, number
<1>8. /\ t.root_key \in RootKey /\ Len(t.root_key) = Len(r.root_key) + 1
      /\ IsPrefixOf(r.root_key, t.root_key)
      /\ \A c \in RootKey : IsPrefixOf(c, r.root_key) => IsPrefixOf(c, t.root_key)
  BY <1>1, <1>4, <1>7, PrefixOfNext DEF IsSession
<1>9. t.sending # None /\ t.receiving # None
  <2>1. t.sending \in Chain /\ t.receiving \in Chain
    BY <1>1, <1>4, <1>8 DEF Chain, IsSession
  <2> QED BY <2>1, NoneAssumption
<1>10. SealedInOrder(p, t, sent[p])
  <2>1. t.own_ratchet = RatchetOf(p, Len(t.root_key))
    BY <1>4, <1>6, <1>7, <1>8
  <2>2. ASSUME NEW g \in sent[p]
        PROVE  /\ IsPrefixOf(g.key.chain, t.root_key)
               /\ Len(g.key.chain) # Len(t.root_key)
               /\ Len(g.key.chain) = Len(t.root_key) - 2 => g.key.number < t.previous_sending_len
    <3>1. /\ g.key \in MessageKey /\ Len(g.key.chain) <= Len(s.root_key)
          /\ g.key.chain \in RootKey /\ Len(g.key.chain) \in Nat
          /\ IsPrefixOf(g.key.chain, s.root_key)
      BY <1>5, LenProperties DEF SealedKeysUsed, SealedInOrder, MessageKey, RootKey
    <3>2. Len(g.key.chain) = Len(t.root_key) - 2 => g.key.number < t.previous_sending_len
      <4> SUFFICES ASSUME Len(g.key.chain) = Len(t.root_key) - 2
                   PROVE  g.key.number < t.previous_sending_len
        OBVIOUS
      <4>1. IsPrefixOf(s.root_key, s.root_key) /\ s.root_key \in RootKey
        BY <1>1, <1>6 DEF IsPrefixOf, IsSession
      <4>2. g.key.chain = s.root_key
        BY <1>6, <1>8, <3>1, <4>1, SamePrefix
      <4>3. g.key.number < s.sending.next /\ s.sending # None
        BY <1>5, <4>2 DEF SealedKeysUsed
      <4> QED BY <1>4, <4>3 DEF PreviousSendingLen
    <3>3. Len(g.key.chain) # Len(t.root_key)
      BY <1>6, <1>8, <3>1
    <3> QED BY <1>6, <1>8, <3>1, <3>2, <3>3
  <2> QED BY <1>5, <2>1, <2>2 DEF SealedInOrder
<1>11. ReceivingInOrder(p, t)
  <2>1. r.own_ratchet = RatchetOf(Peer(p), Len(t.root_key) - 1)
    BY <1>5, <1>6, <1>8 DEF SealedInOrder
  <2>2. t.remote_ratchet # None
    <3>1. r.own_ratchet \in RatchetKey
      BY <1>1 DEF IsSession
    <3> QED BY <1>4, <3>1, KeysAssumption
  <2> QED BY <1>4, <1>8, <2>1, <2>2 DEF ReceivingInOrder
<1>12. Ahead(t, r)
  <2>1. t.root_key = KdfRoot(r.root_key, r.own_ratchet, t.own_ratchet)
    BY <1>4, KdfRootAgrees
  <2>2. r.sending # None /\ r.sending \in Chain
    BY <1>1, <1>2 DEF Ahead, IsSession
  <2>3. t.receiving.next <= r.sending.next
    BY <1>1, <1>2, <1>4, <2>2 DEF Chain
  <2>4. r.receiving # None => r.receiving.next <= t.previous_sending_len
    BY <1>2, <1>4 DEF Ahead, PreviousSendingLen
  <2> QED BY <1>4, <1>9, <2>1, <2>2, <2>3, <2>4 DEF Ahead
<1> QED BY <1>3, <1>10, <1>11, <1>12, InStepStep DEF r

\* Every step keeps the sessions in step.
LEMMA NextInStep == TypeOK /\ OnceInv /\ InStepInv /\ [Next]_vars => InStepInv'
<1> SUFFICES ASSUME TypeOK, OnceInv, InStepInv, [Next]_vars PROVE InStepInv'
  OBVIOUS
<1>1. CASE UNCHANGED vars
  BY <1>1 DEF vars, InStepInv
<1>2. ASSUME NEW p \in Party, Encrypt(p) PROVE InStepInv'
  BY <1>2, EncryptInStep
<1>3. ASSUME NEW p \in Party, EncryptRefused(p) PROVE InStepInv'
  BY <1>1, <1>3 DEF EncryptRefused
<1>4. ASSUME NEW p \in Party, NEW g \in Carried, NEW f \in {g} \cup Damaged(g), Decrypt(p, f)
      PROVE  InStepInv'
  <2>1. CASE DecryptSkipped(p, f)
    BY <2>1, DecryptSkippedInStep
  <2>2. CASE DecryptInReceivingChain(p, f)
    BY <2>2, DecryptReturns, DecryptInReceivingChainInStep
  <2>3. CASE DecryptAfterRatchetStep(p, f)
    BY <2>3, DecryptReturns, DecryptAfterRatchetStepInStep
  <2>4. CASE DecryptRefused(p, f)
    BY <1>1, <2>4 DEF DecryptRefused
  <2> QED BY <1>4, <2>1, <2>2, <2>3, <2>4 DEF Decrypt
<1> QED BY <1>1, <1>2, <1>3, <1>4 DEF Next

\* The sessions are in step after every run.
THEOREM InStepInvariant == Spec => [](TypeOK /\ OnceInv /\ InStepInv)
<1>1. Init => InStepInv
  BY InitInStep
<1>2. TypeOK /\ OnceInv /\ InStepInv /\ [Next]_vars => InStepInv'
  BY NextInStep
<1> QED BY <1>1, <1>2, OnceInvariant, PTL DEF Spec

\* Whatever the carrier does, the two root keys differ by exactly one DH secret: the
\* sessions cannot diverge, nor can one run two ratchet steps ahead.
THEOREM InStep == Spec => []RootKeysInStep
<1>1. TypeOK /\ InStepInv => RootKeysInStep
  <2> SUFFICES ASSUME TypeOK, InStepInv PROVE RootKeysInStep
    OBVIOUS
  <2>1. PICK p \in Party : Ahead(session[p], session[Peer(p)])
    BY DEF InStepInv
  <2> DEFINE ahead == session[p].root_key
             behind == session[Peer(p)].root_key
  <2>2. behind \in Seq(SUBSET PublicKey) /\ ahead \in Seq(SUBSET PublicKey)
    BY PeerOfPeer DEF TypeOK, IsSession, RootKey
  <2>3. Len(ahead) = Len(behind) + 1 /\ Len(behind) \in Nat /\ IsPrefixOf(behind, ahead)
    BY <2>1, AheadLength
  <2> HIDE DEF ahead, behind
  <2>4. SubSeq(ahead, 1, Len(behind)) = behind
    BY <2>2, <2>3 DEF IsPrefixOf
  <2>5. Len(ahead) = Len(behind) + 1
    BY <2>3
  <2> QED BY <2>4, <2>5 DEF RootKeysInStep, ahead, behind
<1> QED BY <1>1, InStepInvariant, PTL

\* No session is ever made to skip or open numbers that its peer has not sealed.
THEOREM OnlySealedNumbers == Spec => []ReceivesOnlySealedNumbers
<1>1. TypeOK /\ OnceInv /\ InStepInv => ReceivesOnlySealedNumbers
  <2> SUFFICES ASSUME TypeOK, OnceInv, InStepInv, NEW p \in Party, session[p].receiving # None
               PROVE  session[p].receiving.next <=
                        IF session[Peer(p)].sending.key = session[p].receiving.key
                        THEN session[Peer(p)].sending.next ELSE session[Peer(p)].previous_sending_len
    BY DEF ReceivesOnlySealedNumbers
  <2> DEFINE s == session[p]
             r == session[Peer(p)]
  <2>1. /\ Peer(p) \in Party /\ Peer(Peer(p)) = p
        /\ SealedKeysUsed(Peer(p), r, sent[Peer(p)]) /\ ReceivingInOrder(p, s)
        /\ Ahead(s, r) \/ Ahead(r, s)
    BY PeerOfPeer, EitherAhead DEF OnceInv, InStepInv
  <2>2. Ahead(r, s) => Len(r.root_key) = Len(s.root_key) + 1 /\ Len(s.root_key) \in Nat
    BY <2>1, AheadLength
  <2>3. s.receiving # None
    OBVIOUS
  <2> HIDE DEF s, r
  <2>4. CASE Ahead(s, r)
    BY <2>1, <2>3, <2>4 DEF Ahead, SealedKeysUsed, s, r
  <2>5. CASE Ahead(r, s)
    <3>1. r.sending.key = r.root_key
      BY <2>1, <2>5 DEF Ahead, SealedKeysUsed
    <3>2. Len(s.root_key) = Len(s.receiving.key) + 1
      BY <2>1, <2>3 DEF ReceivingInOrder
    <3>3. r.sending.key # s.receiving.key
      BY <2>2, <2>5, <3>1, <3>2
    <3> QED BY <2>3, <2>5, <3>3 DEF Ahead, s, r
  <2> QED BY <2>1, <2>4, <2>5
<1> QED BY <1>1, InStepInvariant, PTL

-----------------------------------------------------------------------------
(* The store of skipped keys, in order.  Each entry is filed under the       *)
(* ratchet key of its chain; within a chain the entries are ordered by their *)
(* numbers, and every key that a limit has dropped comes before them.        *)

StoreInOrder(p, root, deque, lost) ==
  /\ \A i \in DOMAIN deque :
       /\ deque[i].number = deque[i].key.number
       /\ deque[i].ratchet = RatchetOf(Peer(p), Len(deque[i].key.chain))
       /\ IsPrefixOf(deque[i].key.chain, root)
  /\ \A i, j \in DOMAIN deque :
       i < j /\ deque[i].key.chain = deque[j].key.chain
         => deque[i].key.number < deque[j].key.number
  /\ \A key \in lost : \A i \in DOMAIN deque :
       deque[i].key.chain = key.chain => key.number < deque[i].key.number

\* D is deque with the numbers from..until - 1 of chain behind its last position.
PushedBehind(D, deque, back, ratchet, chain, from, until) ==
  /\ \A i \in DOMAIN deque : i \in Nat /\ i <= back
  /\ DOMAIN D = DOMAIN deque \cup (back + 1)..(back + until - from)
  /\ \A i \in (back + 1)..(back + until - from) :
       D[i] = [ratchet |-> ratchet, number |-> from + (i - back - 1),
               key |-> KeyOf(chain, from + (i - back - 1))]

\* PushBack appends the skipped numbers in their order, behind every old entry.
LEMMA PushBackOrder ==
  ASSUME NEW deque, IsDeque(deque), NEW ratchet \in PublicKey, NEW chain \in RootKey,
         NEW from \in Nat, NEW until \in Nat
  PROVE  \E back \in Nat : PushedBehind(PushBack(deque, ratchet, chain, from, until),
                                       deque, back, ratchet, chain, from, until)
<1> DEFINE D == PushBack(deque, ratchet, chain, from, until)
           back == Max({0} \cup DOMAIN deque)
<1>1. /\ back \in Nat
      /\ \A i \in DOMAIN deque : i \in Nat /\ i <= back
  <2>1. {0} \cup DOMAIN deque \in SUBSET Nat
    BY DEF IsDeque
  <2>2. IsFiniteSet({0} \cup DOMAIN deque)
    <3>1. IsFiniteSet(DOMAIN deque \cup {0})
      BY FS_AddElement DEF IsDeque
    <3>2. DOMAIN deque \cup {0} = {0} \cup DOMAIN deque
      OBVIOUS
    <3> QED BY <3>1, <3>2
  <2>3. {0} \cup DOMAIN deque # {}
    OBVIOUS
  <2>4. back \in {0} \cup DOMAIN deque /\ \A i \in {0} \cup DOMAIN deque : i <= back
    BY <2>1, <2>2, <2>3, MaxLast
  <2> HIDE DEF back
  <2> QED BY <2>1, <2>4
<1>2. DOMAIN D = DOMAIN deque \cup (back + 1)..(back + until - from)
  BY DEF PushBack
<1>3. \A i \in DOMAIN D \ DOMAIN deque :
        D[i] = [ratchet |-> ratchet, number |-> from + (i - back - 1),
                key |-> KeyOf(chain, from + (i - back - 1))]
  BY DEF PushBack
<1> HIDE DEF D, back
<1>4. \A i \in (back + 1)..(back + until - from) : i \in DOMAIN D \ DOMAIN deque
  <2>1. \A i \in (back + 1)..(back + until - from) : i \notin DOMAIN deque
    BY <1>1
  <2> QED BY <1>2, <2>1
<1>5. \A i \in (back + 1)..(back + until - from) :
        D[i] = [ratchet |-> ratchet, number |-> from + (i - back - 1),
                key |-> KeyOf(chain, from + (i - back - 1))]
  BY <1>3, <1>4
<1>6. PushedBehind(D, deque, back, ratchet, chain, from, until)
  BY <1>1, <1>2, <1>5 DEF PushedBehind
<1> QED BY <1>1, <1>6 DEF D

\* Oldest takes a first part of the positions: what it leaves comes later.
LEMMA OldestFirst ==
  ASSUME NEW S \in SUBSET Nat, IsFiniteSet(S), NEW count \in Int,
         NEW k \in Oldest(S, count), NEW i \in S \ Oldest(S, count)
  PROVE  k \in S /\ k < i
<1> DEFINE Before(m) == {j \in S : j < m}
<1>1. /\ k \in S /\ i \in S /\ k \in Nat /\ i \in Nat
      /\ Cardinality(Before(k)) < count /\ ~(Cardinality(Before(i)) < count)
  BY DEF Oldest
<1> SUFFICES ASSUME ~(k < i) PROVE FALSE
  BY <1>1
<1>2. Before(i) \subseteq Before(k) /\ Before(k) \in SUBSET S
  <2>1. i <= k
    BY <1>1
  <2>2. \A j \in S : j \in Nat /\ (j < i => j < k)
    BY <1>1, <2>1
  <2> QED BY <2>2
<1>3. /\ Cardinality(Before(i)) <= Cardinality(Before(k))
      /\ Cardinality(Before(i)) \in Nat /\ Cardinality(Before(k)) \in Nat
  BY <1>2, FS_Subset, FS_CardinalityType
<1> HIDE DEF Before
<1> QED BY <1>1, <1>3

\* Dropping the first entries of a chain, or of the whole store, keeps the order.
LEMMA WithoutInOrder ==
  ASSUME NEW p \in Party, NEW root, NEW deque, IsDeque(deque), NEW lost,
         StoreInOrder(p, root, deque, lost), NEW P,
         \A k \in DOMAIN deque \cap P : \A i \in DOMAIN deque \ P :
           deque[k].key.chain = deque[i].key.chain => k < i
  PROVE  LET rest == Without(deque, P)
         IN  StoreInOrder(p, root, rest, lost \cup (Keys(deque) \ Keys(rest)))
<1> DEFINE rest == Without(deque, P)
<1>1. DOMAIN rest = DOMAIN deque \ P /\ \A i \in DOMAIN rest : rest[i] = deque[i]
  BY WithoutFacts
<1> HIDE DEF rest
<1>2. ASSUME NEW key \in Keys(deque) \ Keys(rest), NEW i \in DOMAIN rest,
             rest[i].key.chain = key.chain
      PROVE  key.number < rest[i].key.number
  <2>1. PICK k \in DOMAIN deque : key = deque[k].key
    BY DEF Keys
  <2>2. k \notin DOMAIN rest
    BY <1>1, <2>1 DEF Keys
  <2>3. k < i
    BY <1>1, <1>2, <2>1, <2>2
  <2> QED BY <1>1, <1>2, <2>1, <2>3 DEF StoreInOrder
<1>3. StoreInOrder(p, root, rest, lost \cup (Keys(deque) \ Keys(rest)))
  BY <1>1, <1>2 DEF StoreInOrder
<1> QED BY <1>3 DEF rest

\* What Extend keeps and what it drops are the old keys and the skipped ones.
LEMMA ExtendAccounts ==
  ASSUME NEW deque, IsDeque(deque), NEW ratchet \in PublicKey, NEW chain \in RootKey,
         NEW from \in Nat, NEW until \in Nat, NEW key
  PROVE  key \in Keys(Extend(deque, ratchet, chain, from, until))
                   \cup EvictedBy(deque, ratchet, chain, from, until)
           <=> key \in Keys(deque) \/ \E n \in from..until - 1 : key = KeyOf(chain, n)
<1> DEFINE D == PushBack(deque, ratchet, chain, from, until)
           E == Extend(deque, ratchet, chain, from, until)
<1>1. /\ IsDeque(D)
      /\ DOMAIN deque \subseteq DOMAIN D
      /\ \A i \in DOMAIN deque : D[i] = deque[i]
      /\ \A i \in DOMAIN D \ DOMAIN deque :
           \E n \in from..until - 1 :
             D[i] = [ratchet |-> ratchet, number |-> n, key |-> KeyOf(chain, n)]
      /\ \A i, j \in DOMAIN D \ DOMAIN deque : D[i].key = D[j].key => i = j
  BY PushBackFacts
<1>2. PICK back \in Nat : PushedBehind(D, deque, back, ratchet, chain, from, until)
  BY PushBackOrder
<1>3. DOMAIN E \subseteq DOMAIN D /\ \A i \in DOMAIN E : E[i] = D[i]
  BY ExtendFacts
<1>4. EvictedBy(deque, ratchet, chain, from, until) = Keys(D) \ Keys(E)
  BY DEF EvictedBy
<1> HIDE DEF D, E
<1>5. Keys(E) \subseteq Keys(D)
  BY <1>3 DEF Keys
<1>6. ASSUME NEW n \in from..until - 1 PROVE KeyOf(chain, n) \in Keys(D)
  <2> DEFINE i == back + 1 + (n - from)
  <2>1. i \in (back + 1)..(back + until - from) /\ from + (i - back - 1) = n
    OBVIOUS
  <2> HIDE DEF i
  <2>2. D[i] = [ratchet |-> ratchet, number |-> n, key |-> KeyOf(chain, n)] /\ i \in DOMAIN D
    BY <1>2, <2>1 DEF PushedBehind
  <2>3. D[i].key = KeyOf(chain, n)
    BY <2>2
  <2> QED BY <2>2, <2>3 DEF Keys
<1>7. ASSUME NEW i \in DOMAIN D
      PROVE  D[i].key \in Keys(deque) \/ \E n \in from..until - 1 : D[i].key = KeyOf(chain, n)
  BY <1>1 DEF Keys
<1>8. Keys(deque) \subseteq Keys(D)
  BY <1>1 DEF Keys
<1>9. key \in Keys(D)
        <=> key \in Keys(deque) \/ \E n \in from..until - 1 : key = KeyOf(chain, n)
  BY <1>6, <1>7, <1>8 DEF Keys
<1> QED BY <1>4, <1>5, <1>9 DEF E

\* The skipped numbers that PushBack appends are newer than those of the chain so far.
LEMMA PushBackInOrder ==
  ASSUME NEW p \in Party, NEW root, NEW deque, IsDeque(deque), NEW lost \in SUBSET MessageKey,
         StoreInOrder(p, root, deque, lost),
         NEW chain \in RootKey, IsPrefixOf(chain, root), NEW from \in Nat, NEW until \in Nat,
         NEW ratchet \in PublicKey, ratchet = RatchetOf(Peer(p), Len(chain)),
         \A i \in DOMAIN deque : deque[i].key.chain = chain => deque[i].key.number < from,
         \A key \in lost : key.chain = chain => key.number < from
  PROVE  StoreInOrder(p, root, PushBack(deque, ratchet, chain, from, until), lost)
<1> DEFINE D == PushBack(deque, ratchet, chain, from, until)
<1>1. /\ IsDeque(D)
      /\ DOMAIN deque \subseteq DOMAIN D
      /\ \A i \in DOMAIN deque : D[i] = deque[i]
      /\ \A i \in DOMAIN D \ DOMAIN deque :
           \E n \in from..until - 1 :
             D[i] = [ratchet |-> ratchet, number |-> n, key |-> KeyOf(chain, n)]
  BY PushBackFacts
<1>2. PICK back \in Nat : PushedBehind(D, deque, back, ratchet, chain, from, until)
  BY PushBackOrder
<1> HIDE DEF D
<1>3. \A i \in DOMAIN D : i \in DOMAIN deque \/ i \in (back + 1)..(back + until - from)
  BY <1>2 DEF PushedBehind
<1>4. ASSUME NEW i \in (back + 1)..(back + until - from)
      PROVE  /\ D[i].number = from + (i - back - 1) /\ D[i].ratchet = ratchet
             /\ D[i].key.chain = chain /\ D[i].key.number = from + (i - back - 1)
  <2> DEFINE n == from + (i - back - 1)
  <2>1. D[i] = [ratchet |-> ratchet, number |-> n, key |-> KeyOf(chain, n)]
    BY <1>2 DEF PushedBehind
  <2> HIDE DEF n
  <2>2. D[i].number = n /\ D[i].ratchet = ratchet /\ D[i].key = KeyOf(chain, n)
    BY <2>1
  <2> QED BY <2>2 DEF KeyOf, n
<1>5. \A i \in DOMAIN deque : i \in Nat /\ i <= back
  BY <1>2 DEF PushedBehind
<1>6. \A i \in DOMAIN D :
        /\ D[i].number = D[i].key.number
        /\ D[i].ratchet = RatchetOf(Peer(p), Len(D[i].key.chain))
        /\ IsPrefixOf(D[i].key.chain, root)
  BY <1>1, <1>3, <1>4 DEF StoreInOrder
<1>7. ASSUME NEW i \in DOMAIN D, NEW j \in DOMAIN D, i < j, D[i].key.chain = D[j].key.chain
      PROVE  D[i].key.number < D[j].key.number
  <2>1. CASE i \in DOMAIN deque /\ j \in DOMAIN deque
    BY <1>1, <1>7, <2>1 DEF StoreInOrder
  <2>2. CASE i \in DOMAIN deque /\ j \in (back + 1)..(back + until - from)
    <3>1. D[i] = deque[i] /\ deque[i] \in SkippedKey
      BY <1>1, <2>2 DEF IsDeque
    <3>2. D[i].key.number < from /\ D[i].key.number \in Nat
      BY <1>4, <1>7, <2>2, <3>1 DEF SkippedKey, MessageKey
    <3> QED BY <1>4, <2>2, <3>2
  <2>3. CASE i \in (back + 1)..(back + until - from) /\ j \in DOMAIN deque
    BY <1>5, <1>7, <2>3
  <2>4. CASE i \in (back + 1)..(back + until - from) /\ j \in (back + 1)..(back + until - from)
    BY <1>4, <1>7, <2>4
  <2> QED BY <1>3, <2>1, <2>2, <2>3, <2>4
<1>8. ASSUME NEW key \in lost, NEW i \in DOMAIN D, D[i].key.chain = key.chain
      PROVE  key.number < D[i].key.number
  <2>1. CASE i \in DOMAIN deque
    BY <1>1, <1>8, <2>1 DEF StoreInOrder
  <2>2. CASE i \in (back + 1)..(back + until - from)
    <3>1. key.number < from /\ key.number \in Nat
      BY <1>4, <1>8, <2>2 DEF MessageKey
    <3> QED BY <1>4, <2>2, <3>1
  <2> QED BY <1>3, <2>1, <2>2
<1> QED BY <1>6, <1>7, <1>8 DEF StoreInOrder, D

\* Extend keeps the order: the numbers it adds are newer than those of the chain
\* so far, and both limits drop the oldest entries.
LEMMA ExtendInOrder ==
  ASSUME NEW p \in Party, NEW root, NEW deque, IsDeque(deque), NEW lost \in SUBSET MessageKey,
         StoreInOrder(p, root, deque, lost),
         NEW chain \in RootKey, IsPrefixOf(chain, root), NEW from \in Nat, NEW until \in Nat,
         NEW ratchet \in PublicKey, ratchet = RatchetOf(Peer(p), Len(chain)),
         \A i \in DOMAIN deque : deque[i].key.chain = chain => deque[i].key.number < from,
         \A key \in lost : key.chain = chain => key.number < from
  PROVE  StoreInOrder(p, root, Extend(deque, ratchet, chain, from, until),
                      lost \cup EvictedBy(deque, ratchet, chain, from, until))
<1> DEFINE D == PushBack(deque, ratchet, chain, from, until)
           excess == Oldest(OfChain(D, ratchet), Cardinality(OfChain(D, ratchet)) - MAX_SKIP_PER_CHAIN)
           C == Without(D, excess)
           front == Oldest(DOMAIN C, Cardinality(DOMAIN C) - MAX_SKIPPED_TOTAL)
           E == Without(C, front)
<1>1. IsDeque(D)
  BY PushBackFacts
<1>2. StoreInOrder(p, root, D, lost)
  BY PushBackInOrder
<1>3. E = Extend(deque, ratchet, chain, from, until)
  BY DEF Extend, PopFrontToLimit, EvictOldestOfChain, OfChain
<1>4. EvictedBy(deque, ratchet, chain, from, until) = Keys(D) \ Keys(E)
  BY <1>3 DEF EvictedBy
<1> HIDE DEF D
<1>5. ASSUME NEW k \in DOMAIN D \cap excess, NEW i \in DOMAIN D \ excess,
             D[k].key.chain = D[i].key.chain
      PROVE  k < i
  <2>1. /\ OfChain(D, ratchet) \in SUBSET Nat
        /\ IsFiniteSet(OfChain(D, ratchet))
        /\ Cardinality(OfChain(D, ratchet)) - MAX_SKIP_PER_CHAIN \in Int
    <3>1. OfChain(D, ratchet) \in SUBSET DOMAIN D
      BY DEF OfChain
    <3>2. IsFiniteSet(OfChain(D, ratchet))
      BY <1>1, <3>1, FS_Subset DEF IsDeque
    <3>3. Cardinality(OfChain(D, ratchet)) \in Nat
      BY <3>2, FS_CardinalityType
    <3> QED BY <1>1, <3>1, <3>2, <3>3, LimitsAssumption DEF IsDeque
  <2>2. k \in OfChain(D, ratchet)
    BY DEF Oldest
  <2>3. i \in OfChain(D, ratchet)
    BY <1>2, <1>5, <2>2 DEF OfChain, StoreInOrder
  <2> QED BY <2>1, <2>3, OldestFirst
<1>6. IsDeque(C)
  BY <1>1, WithoutFacts
<1> HIDE DEF excess
<1>7. StoreInOrder(p, root, C, lost \cup (Keys(D) \ Keys(C)))
  BY <1>1, <1>2, <1>5, WithoutInOrder
<1> HIDE DEF C
<1>8. ASSUME NEW k \in DOMAIN C \cap front, NEW i \in DOMAIN C \ front PROVE k < i
  <2>1. Cardinality(DOMAIN C) - MAX_SKIPPED_TOTAL \in Int
    BY <1>6, FS_CardinalityType, LimitsAssumption DEF IsDeque
  <2> QED BY <1>6, <2>1, OldestFirst DEF IsDeque
<1> HIDE DEF front
<1> DEFINE all == (lost \cup (Keys(D) \ Keys(C))) \cup (Keys(C) \ Keys(E))
<1>9. StoreInOrder(p, root, E, all)
  BY <1>6, <1>7, <1>8, WithoutInOrder
<1>10. lost \cup (Keys(D) \ Keys(E)) \subseteq all
  OBVIOUS
<1> HIDE DEF E, all
<1>11. StoreInOrder(p, root, E, lost \cup (Keys(D) \ Keys(E)))
  BY <1>9, <1>10 DEF StoreInOrder
<1> QED BY <1>3, <1>4, <1>11

-----------------------------------------------------------------------------
(* What becomes of the peer's frames.  One that the receiving side has passed *)
(* was opened, or its key is stored, or a limit has dropped its key.          *)

Accounted(p, s, frames, read, lost) ==
  \A f \in frames :
    Passed(p, s, f.key) => f \in read \/ f.key \in lost \/ f.key \in Keys(s.skipped)

Delivered(p, s, frames, read, lost) ==
  /\ StoreInOrder(p, s.root_key, s.skipped, lost)
  /\ \A key \in lost : Passed(p, s, key)
  /\ Accounted(p, s, frames, read, lost)

DeliveryInv ==
  \A p \in Party : Delivered(p, session[p], sent[Peer(p)], opened[p], evicted[p])

\* What a frame opened by party p must leave.
LEMMA DeliveryStep ==
  ASSUME TypeOK, DeliveryInv, NEW p \in Party, NEW t, session' = [session EXCEPT ![p] = t],
         sent' = sent, NEW read, opened' = [opened EXCEPT ![p] = read],
         NEW lost, evicted' = [evicted EXCEPT ![p] = lost],
         Delivered(p, t, sent[Peer(p)], read, lost)
  PROVE  DeliveryInv'
<1>1. /\ Peer(p) \in Party /\ Peer(p) # p /\ Party = {p, Peer(p)} /\ Party' = Party
  BY PeerOfPeer DEF Party
<1>2. /\ session'[p] = t /\ session'[Peer(p)] = session[Peer(p)]
      /\ opened'[p] = read /\ opened'[Peer(p)] = opened[Peer(p)]
      /\ evicted'[p] = lost /\ evicted'[Peer(p)] = evicted[Peer(p)]
  BY <1>1 DEF TypeOK
<1>3. Delivered(Peer(p), session[Peer(p)], sent[Peer(Peer(p))], opened[Peer(p)], evicted[Peer(p)])
  BY <1>1 DEF DeliveryInv
<1>4. \A q \in Party : Delivered(q, session'[q], sent'[Peer(q)], opened'[q], evicted'[q])
  BY <1>1, <1>2, <1>3
<1> QED BY <1>1, <1>4 DEF DeliveryInv, Delivered, Accounted, StoreInOrder, Passed, Keys,
                          IsPrefixOf, RatchetOf, Peer, Turn

\* Nothing has been sealed at first.
LEMMA InitDelivered == Init => DeliveryInv
<1> SUFFICES ASSUME Init, NEW p \in Party
             PROVE  Delivered(p, session[p], sent[Peer(p)], opened[p], evicted[p])
  BY DEF DeliveryInv
<1>1. sent[Peer(p)] = {} /\ evicted[p] = {}
  BY PeerOfPeer DEF Init
<1>2. session[p].skipped = << >>
  BY DEF Init, InitiatorSession, ResponderSession
<1> QED BY <1>1, <1>2 DEF Delivered, StoreInOrder, Accounted

\* What encrypt seals has not been passed by the peer.
LEMMA EncryptDelivered ==
  ASSUME TypeOK, OnceInv, InStepInv, DeliveryInv, NEW p \in Party, Encrypt(p)
  PROVE  DeliveryInv'
<1> DEFINE s == session[p]
           q == Peer(p)
           r == session[q]
           t == AfterSealing(s)
           F == NextFrame(p)
<1>1. /\ s.sending \in Chain /\ s.sending.key = s.root_key /\ F.key \in MessageKey
  BY EncryptFresh
<1>2. /\ IsSession(s) /\ IsSession(r) /\ s.sending # None
      /\ q \in Party /\ q # p /\ Peer(q) = p /\ Party = {p, q} /\ Party' = Party
  BY PeerOfPeer DEF TypeOK, Encrypt, Seals, CanSend, Party
<1>3. /\ t.root_key = s.root_key /\ t.receiving = s.receiving /\ t.skipped = s.skipped
  BY <1>2 DEF IsSession, AfterSealing
<1>4. F.key.chain = s.root_key /\ F.key.number = s.sending.next
  BY <1>1 DEF NextFrame, SealedFrame, KeyOf
<1>5. /\ session' = [session EXCEPT ![p] = t] /\ sent' = [sent EXCEPT ![p] = @ \cup {F}]
      /\ opened' = opened /\ evicted' = evicted
  BY DEF Encrypt, Seals
<1>6. /\ session'[p] = t /\ session'[q] = r /\ sent'[p] = sent[p] \cup {F} /\ sent'[q] = sent[q]
  BY <1>2, <1>5 DEF TypeOK
<1>7. Ahead(s, r) \/ Ahead(r, s)
  BY EitherAhead
<1>8. Ahead(s, r) => Len(s.root_key) = Len(r.root_key) + 1 /\ Len(r.root_key) \in Nat
  BY AheadLength
<1>9. /\ Delivered(p, s, sent[q], opened[p], evicted[p])
      /\ Delivered(q, r, sent[p], opened[q], evicted[q])
  BY <1>2 DEF DeliveryInv
<1> HIDE DEF t, F, s, r, q
<1>10. ~Passed(q, r, F.key)
  <2> SUFFICES ASSUME Passed(q, r, F.key) PROVE FALSE
    OBVIOUS
  <2>1. /\ Len(s.root_key) <= Len(r.root_key)
        /\ r.receiving # None /\ s.root_key = r.receiving.key => s.sending.next < r.receiving.next
    BY <1>4 DEF Passed
  <2>2. CASE Ahead(s, r)
    BY <1>8, <2>2, <2>1
  <2>3. CASE Ahead(r, s)
    <3>1. r.receiving # None /\ r.receiving.key = s.root_key /\ r.receiving.next <= s.sending.next
      BY <1>2, <2>3 DEF Ahead
    <3>2. r.receiving.next \in Nat /\ s.sending.next \in Nat
      BY <1>1, <1>2, <3>1 DEF IsSession, Chain
    <3> QED BY <2>1, <3>1, <3>2
  <2> QED BY <1>7, <2>2, <2>3
<1>11. Delivered(p, t, sent[q], opened[p], evicted[p])
  BY <1>3, <1>9 DEF Delivered, Accounted, Passed
<1>12. Delivered(q, r, sent[p] \cup {F}, opened[q], evicted[q])
  BY <1>9, <1>10 DEF Delivered, Accounted
<1>13. \A x \in Party : Delivered(x, session'[x], sent'[Peer(x)], opened'[x], evicted'[x])
  BY <1>2, <1>5, <1>6, <1>11, <1>12 DEF q
<1> QED BY <1>2, <1>13 DEF DeliveryInv, Delivered, Accounted, StoreInOrder, Passed, Keys,
                           IsPrefixOf, RatchetOf, Peer, Turn

\* A stored key leaves the store with the frame it opens.
LEMMA DecryptSkippedDelivered ==
  ASSUME TypeOK, OnceInv, InStepInv, DeliveryInv, NEW p \in Party, NEW f \in sent[Peer(p)],
         DecryptSkipped(p, f)
  PROVE  DeliveryInv'
<1> DEFINE s == session[p]
           k == Position(s.skipped, f.header)
           W == Without(s.skipped, {k})
           t == [s EXCEPT !.skipped = W]
<1>1. /\ Peer(p) \in Party /\ IsSession(s) /\ IsDeque(s.skipped) /\ f \in Frame
      /\ SealedInOrder(Peer(p), session[Peer(p)], sent[Peer(p)])
      /\ Delivered(p, s, sent[Peer(p)], opened[p], evicted[p])
  BY PeerOfPeer DEF TypeOK, IsSession, InStepInv, DeliveryInv
<1>2. k \in DOMAIN s.skipped /\ f.key = s.skipped[k].key
  BY <1>1, SkippedOk DEF DecryptSkipped
<1>3. DOMAIN W = DOMAIN s.skipped \ {k} /\ \A i \in DOMAIN W : W[i] = s.skipped[i]
  BY <1>1, WithoutFacts
<1>4. t.skipped = W /\ t.root_key = s.root_key /\ t.receiving = s.receiving
  BY <1>1 DEF IsSession
<1>5. /\ session' = [session EXCEPT ![p] = t] /\ sent' = sent
      /\ opened' = [opened EXCEPT ![p] = opened[p] \cup {f}]
      /\ evicted' = [evicted EXCEPT ![p] = evicted[p]]
  BY DEF DecryptSkipped, Returns, AfterStoredKey, TypeOK
<1> HIDE DEF s, t, W, k
<1>6. StoreInOrder(p, t.root_key, t.skipped, evicted[p])
  BY <1>1, <1>3, <1>4 DEF Delivered, StoreInOrder
<1>7. \A key \in evicted[p] : Passed(p, t, key)
  BY <1>1, <1>4 DEF Delivered, Passed
<1>8. ASSUME NEW g \in sent[Peer(p)], Passed(p, t, g.key)
      PROVE  g \in opened[p] \cup {f} \/ g.key \in evicted[p] \/ g.key \in Keys(W)
  <2>1. g \in opened[p] \/ g.key \in evicted[p] \/ g.key \in Keys(s.skipped)
    BY <1>1, <1>4, <1>8 DEF Delivered, Accounted, Passed
  <2>2. CASE g.key \in Keys(s.skipped)
    <3>1. PICK i \in DOMAIN s.skipped : g.key = s.skipped[i].key
      BY <2>2 DEF Keys
    <3>2. CASE i = k
      BY <1>1, <1>2, <3>1, <3>2 DEF SealedInOrder
    <3>3. CASE i # k
      BY <1>3, <3>1, <3>3 DEF Keys
    <3> QED BY <3>2, <3>3
  <2> QED BY <2>1, <2>2
<1>9. Delivered(p, t, sent[Peer(p)], opened[p] \cup {f}, evicted[p])
  BY <1>4, <1>6, <1>7, <1>8 DEF Delivered, Accounted
<1> QED BY <1>5, <1>9, DeliveryStep

\* The receiving chain passes no number without opening it, storing its key or
\* dropping it.
LEMMA DecryptInReceivingChainDelivered ==
  ASSUME TypeOK, OnceInv, InStepInv, DeliveryInv, NEW p \in Party, NEW f \in sent[Peer(p)],
         DecryptInReceivingChain(p, f)
  PROVE  DeliveryInv'
<1> DEFINE s == session[p]
           frames == sent[Peer(p)]
           chain == s.receiving.key
           from == s.receiving.next
           number == f.header.message_number
           ratchet == f.header.ratchet
           E == Extend(s.skipped, ratchet, chain, from, number)
           V == EvictedBy(s.skipped, ratchet, chain, from, number)
           t == AfterReceiving(s, f.header)
           lost == evicted[p] \cup V
<1>1. /\ Peer(p) \in Party /\ Peer(Peer(p)) = p /\ IsSession(s) /\ IsDeque(s.skipped)
      /\ f \in Frame /\ evicted[p] \in SUBSET MessageKey
      /\ SealedInOrder(Peer(p), session[Peer(p)], frames) /\ ReceivingInOrder(p, s)
      /\ SealedKeysUsed(Peer(p), session[Peer(p)], frames)
      /\ OpenedKeysSpent(p, s, opened[p])
      /\ Delivered(p, s, frames, opened[p], evicted[p])
  BY PeerOfPeer DEF TypeOK, IsSession, InStepInv, OnceInv, DeliveryInv
<1>2. /\ s.receiving # None /\ s.receiving \in Chain /\ from <= number
      /\ f.key = KeyOf(chain, number)
  BY <1>1, ReceivingOk DEF DecryptInReceivingChain
<1>3. /\ chain \in RootKey /\ from \in Nat /\ number \in Nat /\ ratchet \in PublicKey
      /\ Len(s.root_key) \in Nat /\ Len(chain) \in Nat
  BY <1>1, <1>2, LenProperties DEF Chain, Frame, Header, IsSession, RootKey
<1>4. /\ t.root_key = s.root_key /\ t.skipped = E
      /\ t.receiving = [s.receiving EXCEPT !.next = number + 1]
  <2>1. t = [s EXCEPT !.skipped = E, !.receiving.next = number + 1]
    BY DEF AfterReceiving
  <2> HIDE DEF E, t
  <2>2. t = [root_key |-> s.root_key, own_ratchet |-> s.own_ratchet,
             remote_ratchet |-> s.remote_ratchet, sending |-> s.sending,
             receiving |-> [s.receiving EXCEPT !.next = number + 1],
             previous_sending_len |-> s.previous_sending_len, skipped |-> E]
    BY <1>1, <2>1, AdvanceReceiving
  <2> QED BY <2>2
<1>5. /\ session' = [session EXCEPT ![p] = t] /\ sent' = sent
      /\ opened' = [opened EXCEPT ![p] = opened[p] \cup {f}]
      /\ evicted' = [evicted EXCEPT ![p] = lost]
  BY DEF DecryptInReceivingChain, Returns, TypeOK
<1>6. s.remote_ratchet = ratchet
  BY DEF DecryptInReceivingChain, InReceivingChain
<1>7. \A key : key \in Keys(E) \cup V
                 <=> key \in Keys(s.skipped) \/ \E n \in from..number - 1 : key = KeyOf(chain, n)
  BY <1>1, <1>3, ExtendAccounts
<1>8. ratchet = RatchetOf(Peer(p), Len(chain)) /\ IsPrefixOf(chain, s.root_key)
  BY <1>1, <1>2, <1>3, <1>6 DEF ReceivingInOrder
<1>9. /\ \A i \in DOMAIN s.skipped : s.skipped[i].key.chain = chain => s.skipped[i].key.number < from
      /\ \A key \in evicted[p] : key.chain = chain => key.number < from
  BY <1>1, <1>2 DEF OpenedKeysSpent, Delivered, Passed
<1>10. StoreInOrder(p, s.root_key, E, lost)
  <2>1. StoreInOrder(p, s.root_key, s.skipped, evicted[p])
    BY <1>1 DEF Delivered
  <2> HIDE DEF s, chain, from, number, ratchet
  <2> QED BY <1>1, <1>3, <1>8, <1>9, <2>1, ExtendInOrder
<1>11. /\ Len(chain) <= Len(s.root_key) /\ Len(chain) % 2 = 1 - Turn(p)
  BY <1>1, <1>2 DEF OpenedKeysSpent
<1>12. t.receiving # None /\ t.receiving.key = chain /\ t.receiving.next = number + 1
  <2>1. t.receiving \in Chain
    BY <1>2, <1>3, <1>4 DEF Chain
  <2> QED BY <1>2, <1>4, <2>1, NoneAssumption DEF Chain
<1> HIDE DEF t, E, V
<1>13. ASSUME NEW key \in lost PROVE Passed(p, t, key)
  <2>1. CASE key \in evicted[p]
    <3>1. Passed(p, s, key) /\ key.number \in Nat
      BY <1>1, <2>1 DEF Delivered, MessageKey
    <3> HIDE DEF s, chain, from, number
    <3>2. key.chain = chain => key.number < number + 1
      BY <1>2, <1>3, <1>9, <2>1, <3>1
    <3> QED BY <1>4, <1>12, <3>1, <3>2 DEF Passed
  <2>2. CASE key \in V
    <3>1. CASE key \in Keys(s.skipped)
      <4>1. PICK i \in DOMAIN s.skipped : key = s.skipped[i].key
        BY <3>1 DEF Keys
      <4>2. Passed(p, s, key) /\ key.number \in Nat /\ (key.chain = chain => key.number < from)
        BY <1>1, <1>9, <4>1 DEF OpenedKeysSpent, IsDeque, SkippedKey, MessageKey
      <4> HIDE DEF s, chain, from, number
      <4>3. key.chain = chain => key.number < number + 1
        BY <1>2, <1>3, <4>2
      <4> QED BY <1>4, <1>12, <4>2, <4>3 DEF Passed
    <3>2. ASSUME NEW n \in from..number - 1, key = KeyOf(chain, n) PROVE Passed(p, t, key)
      <4>1. key.chain = chain /\ key.number = n
        BY <3>2 DEF KeyOf
      <4>2. n < number + 1
        BY <1>3
      <4> HIDE DEF s, chain, from, number
      <4> QED BY <1>4, <1>11, <1>12, <4>1, <4>2 DEF Passed
    <3> QED BY <1>7, <2>2, <3>1, <3>2
  <2> QED BY <2>1, <2>2
<1>14. ASSUME NEW g \in frames, Passed(p, t, g.key)
       PROVE  g \in opened[p] \cup {f} \/ g.key \in lost \/ g.key \in Keys(E)
  <2>1. g.key \in MessageKey
    BY <1>1 DEF SealedKeysUsed
  <2>2. g.key = KeyOf(g.key.chain, g.key.number) /\ g.key.number \in Nat
    BY <2>1 DEF MessageKey, KeyOf
  <2>3. CASE Passed(p, s, g.key)
    <3>1. g \in opened[p] \/ g.key \in evicted[p] \/ g.key \in Keys(s.skipped)
      BY <1>1, <2>3 DEF Delivered, Accounted
    <3> QED BY <1>7, <3>1
  <2>4. CASE ~Passed(p, s, g.key)
    <3>1. g.key.chain = chain /\ ~(g.key.number < from)
      BY <1>4, <1>14, <2>4 DEF Passed
    <3>2. g.key.number < number + 1
      BY <1>12, <1>14, <3>1 DEF Passed
    <3>3. CASE g.key.number = number
      <4>1. g.key = f.key
        BY <1>2, <2>2, <3>1, <3>3
      <4> QED BY <1>1, <4>1 DEF SealedInOrder
    <3>4. CASE g.key.number # number
      <4>1. g.key.number \in from..number - 1
        BY <1>3, <2>2, <3>1, <3>2, <3>4
      <4> QED BY <1>7, <2>2, <3>1, <4>1
    <3> QED BY <3>3, <3>4
  <2> QED BY <2>3, <2>4
<1>15. Delivered(p, t, frames, opened[p] \cup {f}, lost)
  BY <1>4, <1>10, <1>13, <1>14 DEF Delivered, Accounted
<1> HIDE DEF lost
<1> QED BY <1>5, <1>15, DeliveryStep

\* A ratchet step first passes all that is left of the chain the peer has left: each
\* of its numbers is opened, stored or dropped.
LEMMA PreviousDelivered ==
  ASSUME TypeOK, OnceInv, InStepInv, DeliveryInv, NEW p \in Party,
         Ahead(session[Peer(p)], session[p]),
         NEW h \in Header, h.previous_chain_len = session[Peer(p)].previous_sending_len
  PROVE  LET s == session[p]
             stored == SkippedOfPrevious(s, h)
             lost == evicted[p] \cup EvictedOfPrevious(s, h)
             Behind(key) == Len(key.chain) <= Len(s.root_key) /\ Len(key.chain) % 2 = 1 - Turn(p)
         IN  /\ IsDeque(stored) /\ lost \in SUBSET MessageKey
             /\ StoreInOrder(p, s.root_key, stored, lost)
             /\ \A key \in Keys(stored) \cup lost : Behind(key)
             /\ \A g \in sent[Peer(p)] :
                  Behind(g.key) => g \in opened[p] \/ g.key \in lost \/ g.key \in Keys(stored)
<1> DEFINE s == session[p]
           frames == sent[Peer(p)]
           stored == SkippedOfPrevious(s, h)
           new == EvictedOfPrevious(s, h)
           lost == evicted[p] \cup new
           Behind(key) == Len(key.chain) <= Len(s.root_key) /\ Len(key.chain) % 2 = 1 - Turn(p)
           until == h.previous_chain_len
<1>1. /\ Peer(p) \in Party /\ IsSession(s) /\ IsDeque(s.skipped) /\ evicted[p] \in SUBSET MessageKey
      /\ ReceivingInOrder(p, s) /\ SealedKeysUsed(Peer(p), session[Peer(p)], frames)
      /\ OpenedKeysSpent(p, s, opened[p])
      /\ Delivered(p, s, frames, opened[p], evicted[p])
  BY PeerOfPeer DEF TypeOK, IsSession, InStepInv, OnceInv, DeliveryInv
<1>2. IsDeque(stored) /\ lost \in SUBSET MessageKey
  BY <1>1, SkippedOfPreviousType
<1>3. \A key \in Keys(s.skipped) \cup evicted[p] : Passed(p, s, key)
  BY <1>1 DEF OpenedKeysSpent, Delivered, Keys
<1>4. \A key : Passed(p, s, key) => Behind(key)
  BY DEF Passed
<1>5. StoreInOrder(p, s.root_key, s.skipped, evicted[p])
  BY <1>1 DEF Delivered
<1>6. CASE s.receiving = None
  <2>1. stored = s.skipped /\ lost = evicted[p]
    BY <1>6 DEF SkippedOfPrevious, EvictedOfPrevious
  <2>2. \A g \in frames :
          Behind(g.key) => g \in opened[p] \/ g.key \in evicted[p] \/ g.key \in Keys(s.skipped)
    BY <1>1, <1>6 DEF Delivered, Accounted, Passed
  <2> HIDE DEF stored, lost
  <2>3. /\ IsDeque(stored) /\ lost \in SUBSET MessageKey
        /\ StoreInOrder(p, s.root_key, stored, lost)
        /\ \A key \in Keys(stored) \cup lost : Behind(key)
        /\ \A g \in frames : Behind(g.key) => g \in opened[p] \/ g.key \in lost \/ g.key \in Keys(stored)
    BY <1>2, <1>3, <1>4, <1>5, <2>1, <2>2
  <2> QED BY <2>3 DEF stored, lost
<1>7. CASE s.receiving # None
  <2> DEFINE chain == s.receiving.key
             from == s.receiving.next
             ratchet == s.remote_ratchet
  <2>1. ratchet # None /\ s.receiving \in Chain
    BY <1>1, <1>7 DEF ReceivingInOrder, IsSession
  <2>2. /\ stored = Extend(s.skipped, ratchet, chain, from, until)
        /\ new = EvictedBy(s.skipped, ratchet, chain, from, until)
    BY <1>7, <2>1 DEF SkippedOfPrevious, EvictedOfPrevious
  <2>3. /\ chain \in RootKey /\ from \in Nat /\ until \in Nat /\ ratchet \in PublicKey
        /\ Len(s.root_key) \in Nat /\ Len(chain) \in Nat
    BY <1>1, <2>1, LenProperties DEF Chain, Header, IsSession, RootKey
  <2>4. ratchet = RatchetOf(Peer(p), Len(chain)) /\ IsPrefixOf(chain, s.root_key)
    BY <1>1, <1>7, <2>3 DEF ReceivingInOrder
  <2>5. /\ \A i \in DOMAIN s.skipped : s.skipped[i].key.chain = chain => s.skipped[i].key.number < from
        /\ \A key \in evicted[p] : key.chain = chain => key.number < from
    BY <1>1, <1>7 DEF OpenedKeysSpent, Delivered, Passed
  <2>6. \A key : key \in Keys(stored) \cup new
                   <=> key \in Keys(s.skipped) \/ \E n \in from..until - 1 : key = KeyOf(chain, n)
    BY <1>1, <2>2, <2>3, ExtendAccounts
  <2>7. \A n : Behind(KeyOf(chain, n))
    BY <1>1, <1>7 DEF OpenedKeysSpent, KeyOf
  <2>8. \A g \in frames : g.key.chain = chain => g.key.number < until
    BY <1>1, <1>7, SealedOnReceivingChain
  <2> HIDE DEF s, chain, from, ratchet, until, stored, new
  <2>9. StoreInOrder(p, s.root_key, stored, lost)
    BY <1>1, <1>5, <2>2, <2>3, <2>4, <2>5, ExtendInOrder
  <2>10. \A key \in Keys(stored) \cup lost : Behind(key)
    <3> HIDE DEF Behind
    <3> QED BY <1>3, <1>4, <2>6, <2>7
  <2>11. ASSUME NEW g \in frames, Behind(g.key)
         PROVE  g \in opened[p] \/ g.key \in lost \/ g.key \in Keys(stored)
    <3>1. CASE Passed(p, s, g.key)
      <4>1. g \in opened[p] \/ g.key \in evicted[p] \/ g.key \in Keys(s.skipped)
        BY <1>1, <3>1 DEF Delivered, Accounted
      <4> QED BY <2>6, <4>1
    <3>2. CASE ~Passed(p, s, g.key)
      <4>1. g.key.chain = chain /\ ~(g.key.number < from)
        BY <2>11, <3>2 DEF Passed, chain, from
      <4>2. g.key = KeyOf(g.key.chain, g.key.number) /\ g.key.number \in Nat
        <5>1. g.key \in MessageKey
          BY <1>1 DEF SealedKeysUsed
        <5> QED BY <5>1 DEF MessageKey, KeyOf
      <4>3. g.key.number \in from..until - 1
        BY <2>3, <2>8, <4>1, <4>2
      <4> QED BY <2>6, <4>1, <4>2, <4>3
    <3> QED BY <3>1, <3>2
  <2> HIDE DEF lost
  <2>12. /\ IsDeque(stored) /\ lost \in SUBSET MessageKey
         /\ StoreInOrder(p, s.root_key, stored, lost)
         /\ \A key \in Keys(stored) \cup lost : Behind(key)
         /\ \A g \in frames : Behind(g.key) => g \in opened[p] \/ g.key \in lost \/ g.key \in Keys(stored)
    BY <1>2, <2>9, <2>10, <2>11
  <2> QED BY <2>12 DEF stored, lost, new, s
<1> QED BY <1>6, <1>7

\* A ratchet step passes the rest of the old chain and the first numbers of the new
\* one; no frame of the peer's lies anywhere else.
LEMMA DecryptAfterRatchetStepDelivered ==
  ASSUME TypeOK, OnceInv, InStepInv, DeliveryInv, NEW p \in Party, NEW f \in sent[Peer(p)],
         DecryptAfterRatchetStep(p, f)
  PROVE  DeliveryInv'
<1> DEFINE s == session[p]
           r == session[Peer(p)]
           frames == sent[Peer(p)]
           h == f.header
           fresh == Generate(s.own_ratchet)
           chain == KdfRoot(s.root_key, s.own_ratchet, h.ratchet)
           number == h.message_number
           stored == SkippedOfPrevious(s, h)
           dropped == evicted[p] \cup EvictedOfPrevious(s, h)
           E == Extend(stored, h.ratchet, chain, 0, number)
           V == EvictedBy(stored, h.ratchet, chain, 0, number)
           lost == dropped \cup V
           t == RatchetStep(s, h, fresh)
           Behind(key) == Len(key.chain) <= Len(s.root_key) /\ Len(key.chain) % 2 = 1 - Turn(p)
<1>1. /\ Peer(p) \in Party /\ Peer(Peer(p)) = p /\ IsSession(s) /\ IsSession(r)
      /\ f \in Frame /\ h \in Header
      /\ SealedInOrder(Peer(p), r, frames) /\ SealedKeysUsed(Peer(p), r, frames)
      /\ SealedKeysUsed(p, s, sent[p])
  BY PeerOfPeer DEF TypeOK, Frame, InStepInv, OnceInv
<1>2. /\ Ahead(r, s)
      /\ chain = r.root_key
      /\ f.key.chain = r.root_key
      /\ h.ratchet = r.own_ratchet
      /\ h.previous_chain_len = r.previous_sending_len
      /\ number = f.key.number
  BY StepFollowsPeer DEF DecryptAfterRatchetStep
<1>3. /\ IsDeque(stored) /\ dropped \in SUBSET MessageKey
      /\ StoreInOrder(p, s.root_key, stored, dropped)
      /\ \A key \in Keys(stored) \cup dropped : Behind(key)
      /\ \A g \in frames :
           Behind(g.key) => g \in opened[p] \/ g.key \in dropped \/ g.key \in Keys(stored)
  BY <1>1, <1>2, PreviousDelivered
<1>4. /\ number \in Nat /\ h.ratchet \in PublicKey /\ r.own_ratchet \in PublicKey
      /\ chain \in RootKey /\ s.root_key \in RootKey
  BY <1>1, <1>2 DEF Header, IsSession, PublicKey
<1>5. /\ Len(chain) = Len(s.root_key) + 1 /\ Len(s.root_key) \in Nat /\ Len(chain) \in Nat
      /\ \A c \in RootKey : IsPrefixOf(c, s.root_key) => IsPrefixOf(c, chain)
  BY <1>1, <1>2, AheadLength
<1>6. fresh \in PublicKey
  BY <1>1, RatchetStepType DEF PublicKey
<1>7. /\ t.root_key = KdfRoot(chain, fresh, h.ratchet) /\ t.skipped = E
      /\ t.receiving = [key |-> chain, next |-> number + 1]
  BY DEF RatchetStep
<1>8. /\ session' = [session EXCEPT ![p] = t] /\ sent' = sent
      /\ opened' = [opened EXCEPT ![p] = opened[p] \cup {f}]
      /\ evicted' = [evicted EXCEPT ![p] = lost]
  BY DEF DecryptAfterRatchetStep, Returns, TypeOK
<1>9. h.ratchet = RatchetOf(Peer(p), Len(chain))
  BY <1>1, <1>2 DEF SealedInOrder
<1>10. /\ Len(s.root_key) % 2 = Turn(p)
       /\ (Len(s.root_key) + 1) % 2 = 1 - Turn(p)
       /\ (Len(s.root_key) + 2) % 2 # 1 - Turn(p)
  <2>1. Len(s.root_key) % 2 = Turn(p)
    BY <1>1 DEF SealedKeysUsed
  <2> HIDE DEF s
  <2> QED BY <1>5, <2>1, NextTurn, TurnFacts
<1>11. \A key : key \in Keys(E) \cup V
                  <=> key \in Keys(stored) \/ \E n \in 0..number - 1 : key = KeyOf(chain, n)
  <2> HIDE DEF stored, chain, number
  <2> QED BY <1>3, <1>4, ExtendAccounts
<1> HIDE DEF t, E, V, fresh, chain, stored, dropped, number, s, r, h
<1>12. /\ t.root_key \in RootKey /\ Len(t.root_key) = Len(chain) + 1
       /\ IsPrefixOf(chain, t.root_key)
       /\ \A c \in RootKey : IsPrefixOf(c, chain) => IsPrefixOf(c, t.root_key)
  BY <1>4, <1>6, <1>7, PrefixOfNext
<1>13. /\ t.receiving # None /\ t.receiving.key = chain /\ t.receiving.next = number + 1
  <2>1. t.receiving \in Chain
    BY <1>4, <1>7 DEF Chain
  <2> QED BY <1>7, <2>1, NoneAssumption
<1>14. StoreInOrder(p, t.root_key, E, lost)
  <2>1. StoreInOrder(p, t.root_key, stored, dropped)
    <3>1. \A i \in DOMAIN stored : stored[i].key.chain \in RootKey
      BY <1>3 DEF IsDeque, SkippedKey, MessageKey
    <3> QED BY <1>3, <1>5, <1>12, <3>1 DEF StoreInOrder
  <2>2. /\ \A i \in DOMAIN stored : stored[i].key.chain # chain
        /\ \A key \in dropped : key.chain # chain
    <3>1. ASSUME NEW key \in Keys(stored) \cup dropped PROVE key.chain # chain
      <4>1. Len(key.chain) <= Len(s.root_key)
        BY <1>3, Zenon
      <4> QED BY <1>5, <4>1
    <3> QED BY <3>1 DEF Keys
  <2> HIDE DEF Behind
  <2>3. StoreInOrder(p, t.root_key, Extend(stored, h.ratchet, chain, 0, number),
                     dropped \cup EvictedBy(stored, h.ratchet, chain, 0, number))
    BY <1>3, <1>4, <1>9, <1>12, <2>1, <2>2, ExtendInOrder
  <2> QED BY <2>3 DEF E, V
<1>15. \A n \in 0..number - 1 : Passed(p, t, KeyOf(chain, n))
  <2>1. \A n \in 0..number - 1 : n < number + 1
    BY <1>4
  <2>2. Len(chain) <= Len(t.root_key) /\ Len(chain) % 2 = 1 - Turn(p)
    <3>1. Len(chain) <= Len(t.root_key)
      BY <1>5, <1>12
    <3>2. Len(chain) % 2 = 1 - Turn(p)
      BY <1>5, <1>10, Zenon
    <3> QED BY <3>1, <3>2
  <2> QED BY <1>13, <2>1, <2>2 DEF Passed, KeyOf
<1>16. \A key : Behind(key) /\ key \in MessageKey => Passed(p, t, key)
  <2> SUFFICES ASSUME NEW key \in MessageKey, Behind(key) PROVE Passed(p, t, key)
    OBVIOUS
  <2>1. Len(key.chain) \in Nat
    BY LenProperties DEF MessageKey, RootKey
  <2>2. key.chain # chain /\ Len(key.chain) <= Len(t.root_key)
    BY <1>5, <1>12, <2>1
  <2> QED BY <1>13, <2>2 DEF Passed
<1>17. \A key \in lost : Passed(p, t, key)
  <2>1. Keys(stored) \subseteq MessageKey
    BY <1>3 DEF Keys, IsDeque, SkippedKey
  <2>2. \A key \in dropped \cup Keys(stored) : Passed(p, t, key)
    <3> HIDE DEF Behind
    <3> QED BY <1>3, <1>16, <2>1
  <2> QED BY <1>11, <1>15, <2>2
<1>18. ASSUME NEW g \in frames, Passed(p, t, g.key)
       PROVE  g \in opened[p] \cup {f} \/ g.key \in lost \/ g.key \in Keys(E)
  <2>1. /\ g.key \in MessageKey /\ Len(g.key.chain) <= Len(t.root_key)
        /\ Len(g.key.chain) % 2 = 1 - Turn(p) /\ IsPrefixOf(g.key.chain, r.root_key)
    BY <1>1, <1>18 DEF SealedKeysUsed, SealedInOrder, Passed
  <2>2. /\ g.key = KeyOf(g.key.chain, g.key.number) /\ g.key.number \in Nat
        /\ g.key.chain \in RootKey /\ Len(g.key.chain) \in Nat
    BY <2>1, LenProperties DEF MessageKey, KeyOf, RootKey
  <2>3. CASE Behind(g.key)
    <3>1. g \in opened[p] \/ g.key \in dropped \/ g.key \in Keys(stored)
      BY <1>3, <2>3
    <3> QED BY <1>11, <3>1
  <2>4. CASE ~Behind(g.key)
    <3>1. Len(g.key.chain) = Len(chain)
      <4>1. ~(Len(g.key.chain) <= Len(s.root_key))
        BY <2>1, <2>4, Zenon
      <4>2. Len(g.key.chain) # Len(s.root_key) + 2
        BY <1>10, <2>1
      <4> QED BY <1>5, <1>12, <2>1, <2>2, <4>1, <4>2
    <3>2. g.key.chain = chain
      <4>1. IsPrefixOf(chain, chain)
        BY <1>5 DEF IsPrefixOf
      <4> QED BY <1>2, <1>4, <2>1, <2>2, <3>1, <4>1, SamePrefix
    <3>3. g.key.number < number + 1
      BY <1>13, <1>18, <3>2 DEF Passed
    <3>4. CASE g.key.number = number
      <4>1. f.key \in MessageKey
        BY <1>1 DEF SealedKeysUsed
      <4>2. g.key = f.key
        BY <1>2, <2>2, <3>2, <3>4, <4>1 DEF MessageKey, KeyOf
      <4> QED BY <1>1, <4>2 DEF SealedInOrder
    <3>5. CASE g.key.number # number
      <4>1. g.key.number \in 0..number - 1
        BY <1>4, <2>2, <3>3, <3>5
      <4> QED BY <1>11, <2>2, <3>2, <4>1
    <3> QED BY <3>4, <3>5
  <2> QED BY <2>3, <2>4
<1>19. Delivered(p, t, frames, opened[p] \cup {f}, lost)
  BY <1>7, <1>14, <1>17, <1>18 DEF Delivered, Accounted
<1> HIDE DEF lost
<1> QED BY <1>8, <1>19, DeliveryStep

\* Every step accounts for what it passes.
LEMMA NextDelivered ==
  TypeOK /\ OnceInv /\ InStepInv /\ DeliveryInv /\ [Next]_vars => DeliveryInv'
<1> SUFFICES ASSUME TypeOK, OnceInv, InStepInv, DeliveryInv, [Next]_vars PROVE DeliveryInv'
  OBVIOUS
<1>1. CASE UNCHANGED vars
  BY <1>1 DEF vars, DeliveryInv
<1>2. ASSUME NEW p \in Party, Encrypt(p) PROVE DeliveryInv'
  BY <1>2, EncryptDelivered
<1>3. ASSUME NEW p \in Party, EncryptRefused(p) PROVE DeliveryInv'
  BY <1>1, <1>3 DEF EncryptRefused
<1>4. ASSUME NEW p \in Party, NEW g \in Carried, NEW f \in {g} \cup Damaged(g), Decrypt(p, f)
      PROVE  DeliveryInv'
  <2>1. CASE DecryptSkipped(p, f)
    BY <2>1, DecryptReturns, DecryptSkippedDelivered
  <2>2. CASE DecryptInReceivingChain(p, f)
    BY <2>2, DecryptReturns, DecryptInReceivingChainDelivered
  <2>3. CASE DecryptAfterRatchetStep(p, f)
    BY <2>3, DecryptReturns, DecryptAfterRatchetStepDelivered
  <2>4. CASE DecryptRefused(p, f)
    BY <1>1, <2>4 DEF DecryptRefused
  <2> QED BY <1>4, <2>1, <2>2, <2>3, <2>4 DEF Decrypt
<1> QED BY <1>1, <1>2, <1>3, <1>4 DEF Next

\* No frame of the peer's is ever passed without a trace.
THEOREM DeliveryInvariant == Spec => [](TypeOK /\ OnceInv /\ InStepInv /\ DeliveryInv)
<1>1. Init => DeliveryInv
  BY InitDelivered
<1>2. TypeOK /\ OnceInv /\ InStepInv /\ DeliveryInv /\ [Next]_vars => DeliveryInv'
  BY NextDelivered
<1> QED BY <1>1, <1>2, InStepInvariant, PTL DEF Spec

\* Whatever order frames arrive in, both limits drop the oldest keys of a chain and
\* keep the newest.
THEOREM OldestGoFirst == Spec => []EvictsOldestFirst
<1>1. DeliveryInv => EvictsOldestFirst
  <2> SUFFICES ASSUME DeliveryInv, NEW p \in Party, NEW key \in evicted[p],
                      NEW i \in DOMAIN session[p].skipped,
                      session[p].skipped[i].key.chain = key.chain
               PROVE  key.number < session[p].skipped[i].key.number
    BY DEF EvictsOldestFirst
  <2> QED BY DEF DeliveryInv, Delivered, StoreInOrder
<1> QED BY <1>1, DeliveryInvariant, PTL

-----------------------------------------------------------------------------
(* A frame of the peer's that has neither opened nor lost its key *)

\* Chains of the peer's with the same ratchet key are the same chain.
LEMMA SameChain ==
  ASSUME TypeOK, InStepInv, NEW p \in Party, NEW c \in RootKey, NEW d \in RootKey,
         IsPrefixOf(c, session[p].root_key), IsPrefixOf(d, session[Peer(p)].root_key),
         Len(c) % 2 = Len(d) % 2, RatchetOf(Peer(p), Len(c)) = RatchetOf(Peer(p), Len(d))
  PROVE  c = d
<1> DEFINE s == session[p]
           r == session[Peer(p)]
<1>1. /\ Peer(p) \in Party /\ Peer(Peer(p)) = p
      /\ s.root_key \in RootKey /\ r.root_key \in RootKey
  BY PeerOfPeer DEF TypeOK, IsSession
<1>2. Len(c) = Len(d)
  <2>1. Len(c) \in Nat /\ Len(d) \in Nat
    BY LenProperties DEF RootKey
  <2> QED BY <1>1, <2>1, RatchetOfLength
<1>3. CASE Ahead(s, r)
  <2>1. IsPrefixOf(d, s.root_key)
    BY <1>3, AheadLength
  <2> QED BY <1>1, <1>2, <2>1, SamePrefix
<1>4. CASE Ahead(r, s)
  <2>1. IsPrefixOf(c, r.root_key)
    BY <1>1, <1>4, AheadLength
  <2> QED BY <1>1, <1>2, <2>1, SamePrefix
<1> QED BY <1>3, <1>4, EitherAhead

\* A stored key that matches a frame of the peer's by ratchet key and number is the
\* key of that frame.
LEMMA StoredKeyOpens ==
  ASSUME TypeOK, OnceInv, InStepInv, DeliveryInv, NEW p \in Party, NEW f \in sent[Peer(p)],
         IsSkipped(session[p], f)
  PROVE  SkippedResult(session[p], f) = "Ok"
<1> DEFINE s == session[p]
           k == Position(s.skipped, f.header)
<1>1. /\ IsSession(s) /\ Peer(p) \in Party
      /\ SealedKeysUsed(Peer(p), session[Peer(p)], sent[Peer(p)])
      /\ SealedInOrder(Peer(p), session[Peer(p)], sent[Peer(p)])
      /\ OpenedKeysSpent(p, s, opened[p])
      /\ StoreInOrder(p, s.root_key, s.skipped, evicted[p])
      /\ Turn(Peer(p)) = 1 - Turn(p)
  BY PeerOfPeer, TurnFacts DEF TypeOK, OnceInv, InStepInv, DeliveryInv, Delivered
<1>2. k \in Matches(s.skipped, f.header)
  <2>1. Matches(s.skipped, f.header) \in SUBSET Nat /\ Matches(s.skipped, f.header) # {}
    BY <1>1 DEF Matches, IsSkipped, IsSession, IsDeque
  <2> QED BY <2>1, MinFirst DEF Position
<1> DEFINE key == s.skipped[k].key
<1>3. /\ k \in DOMAIN s.skipped /\ s.skipped[k] \in SkippedKey
      /\ s.skipped[k].ratchet = f.header.ratchet /\ s.skipped[k].number = f.header.message_number
  BY <1>1, <1>2 DEF Matches, IsSession, IsDeque
<1> HIDE DEF k
<1>4. /\ key \in MessageKey /\ f.key \in MessageKey
      /\ key.chain \in RootKey /\ f.key.chain \in RootKey
  BY <1>1, <1>3 DEF SkippedKey, SealedKeysUsed, MessageKey
<1>5. /\ IsPrefixOf(key.chain, s.root_key) /\ IsPrefixOf(f.key.chain, session[Peer(p)].root_key)
      /\ RatchetOf(Peer(p), Len(key.chain)) = RatchetOf(Peer(p), Len(f.key.chain))
      /\ key.number = f.key.number
  BY <1>1, <1>3 DEF StoreInOrder, SealedInOrder
<1>6. Len(key.chain) % 2 = Len(f.key.chain) % 2
  <2>1. Len(key.chain) % 2 = 1 - Turn(p)
    BY <1>1, <1>3 DEF OpenedKeysSpent, Passed
  <2>2. Len(f.key.chain) % 2 = Turn(Peer(p))
    BY <1>1 DEF SealedKeysUsed
  <2> QED BY <1>1, <2>1, <2>2, Zenon
<1> HIDE DEF key, s
<1>7. key.chain = f.key.chain
  BY <1>4, <1>5, <1>6, SameChain DEF s
<1>8. key = f.key
  BY <1>4, <1>5, <1>7 DEF MessageKey
<1>9. f.aad = f.header
  BY <1>1 DEF SealedKeysUsed
<1> QED BY <1>8, <1>9 DEF SkippedResult, OpenResult, Opens, key, k, s

\* decrypt answers by the first of its three ways that applies.
LEMMA AnswerFrom ==
  ASSUME NEW s, NEW f, NEW fresh
  PROVE  /\ IsSkipped(s, f) => DecryptResult(s, f, fresh) = SkippedResult(s, f)
         /\ InReceivingChain(s, f) => DecryptResult(s, f, fresh) = ReceivingResult(s, f)
         /\ AfterRatchetStep(s, f) => DecryptResult(s, f, fresh) = StepResult(s, f, fresh)
<1>1. CASE IsSkipped(s, f)
  <2>1. ~InReceivingChain(s, f) /\ ~AfterRatchetStep(s, f)
    BY <1>1 DEF InReceivingChain, AfterRatchetStep
  <2> QED BY <1>1, <2>1 DEF DecryptResult
<1>2. CASE InReceivingChain(s, f)
  <2>1. ~IsSkipped(s, f) /\ ~AfterRatchetStep(s, f)
    BY <1>2 DEF InReceivingChain, AfterRatchetStep
  <2> QED BY <1>2, <2>1 DEF DecryptResult
<1>3. CASE AfterRatchetStep(s, f)
  <2>1. ~IsSkipped(s, f) /\ ~InReceivingChain(s, f)
    BY <1>3 DEF InReceivingChain, AfterRatchetStep
  <2> QED BY <1>3, <2>1 DEF DecryptResult
<1> QED BY <1>1, <1>2, <1>3

\* The cursor refuses a number that is not behind its chain only as too far ahead.
LEMMA AheadOrOk ==
  ASSUME NEW next \in Nat, NEW number \in Nat, next <= number
  PROVE  NumberResult(next, number) \in {"Ok", "TooFarAhead"}
BY LimitsAssumption DEF NumberResult, SkipTo

\* A frame whose key the receiving chain has yet to derive opens in that chain.
LEMMA AnswersInReceivingChain ==
  ASSUME TypeOK, OnceInv, InStepInv, NEW p \in Party, NEW f \in sent[Peer(p)],
         session[p].receiving # None, f.key.chain = session[p].receiving.key,
         ~(f.key.number < session[p].receiving.next), ~IsSkipped(session[p], f)
  PROVE  Answer(p, f) \in {"Ok", "TooFarAhead"}
<1> DEFINE s == session[p]
           next == s.receiving.next
           number == f.header.message_number
<1>1. /\ IsSession(s) /\ Peer(p) \in Party /\ f \in Frame
      /\ SealedKeysUsed(Peer(p), session[Peer(p)], sent[Peer(p)])
      /\ SealedInOrder(Peer(p), session[Peer(p)], sent[Peer(p)])
      /\ ReceivingInOrder(p, s)
  BY PeerOfPeer DEF TypeOK, OnceInv, InStepInv
<1>2. /\ f.key \in MessageKey /\ f.aad = f.header /\ number = f.key.number
      /\ f.header.ratchet = RatchetOf(Peer(p), Len(f.key.chain))
  BY <1>1 DEF SealedKeysUsed, SealedInOrder
<1>3. s.receiving \in Chain /\ next \in Nat /\ number \in Nat
  BY <1>1 DEF IsSession, Chain, Frame, Header
<1>4. s.remote_ratchet = f.header.ratchet
  <2>1. /\ s.remote_ratchet = RatchetOf(Peer(p), Len(s.root_key) - 1)
        /\ Len(s.root_key) = Len(s.receiving.key) + 1
    BY <1>1 DEF ReceivingInOrder
  <2>2. Len(s.receiving.key) \in Nat
    BY <1>3, LenProperties DEF Chain, RootKey
  <2> QED BY <1>2, <2>1, <2>2
<1>5. InReceivingChain(s, f)
  BY <1>4 DEF InReceivingChain
<1>6. NumberResult(next, number) \in {"Ok", "TooFarAhead"}
  <2>1. next <= number
    BY <1>2, <1>3
  <2> HIDE DEF next, number
  <2> QED BY <1>3, <2>1, AheadOrOk
<1>7. OpenResult(KeyOf(s.receiving.key, number), f) = "Ok"
  <2>1. f.key = KeyOf(s.receiving.key, number)
    BY <1>2 DEF MessageKey, KeyOf
  <2> QED BY <1>2, <2>1 DEF OpenResult, Opens
<1>8. ReceivingResult(s, f) \in {"Ok", "TooFarAhead"}
  BY <1>6, <1>7 DEF ReceivingResult
<1> HIDE DEF s
<1>9. Answer(p, f) = ReceivingResult(s, f)
  BY <1>5, AnswerFrom DEF Answer, s
<1> QED BY <1>8, <1>9

\* A frame on a chain that the session has not stepped to opens after one step.
LEMMA AnswersAfterRatchetStep ==
  ASSUME TypeOK, OnceInv, InStepInv, NEW p \in Party, NEW f \in sent[Peer(p)],
         ~(Len(f.key.chain) <= Len(session[p].root_key)), ~IsSkipped(session[p], f)
  PROVE  Answer(p, f) \in {"Ok", "TooFarAhead"}
<1> DEFINE s == session[p]
           r == session[Peer(p)]
           fresh == Generate(s.own_ratchet)
           number == f.header.message_number
           chain == KdfRoot(s.root_key, s.own_ratchet, f.header.ratchet)
<1>1. /\ IsSession(s) /\ IsSession(r) /\ Peer(p) \in Party /\ Peer(Peer(p)) = p /\ f \in Frame
      /\ SealedKeysUsed(Peer(p), r, sent[Peer(p)])
      /\ SealedInOrder(Peer(p), r, sent[Peer(p)])
      /\ ReceivingInOrder(p, s)
  BY PeerOfPeer DEF TypeOK, OnceInv, InStepInv
<1>2. /\ f.key \in MessageKey /\ f.aad = f.header /\ number = f.key.number
      /\ f.header.ratchet = RatchetOf(Peer(p), Len(f.key.chain))
      /\ f.key.chain \in RootKey /\ IsPrefixOf(f.key.chain, r.root_key)
      /\ Len(f.key.chain) <= Len(r.root_key)
      /\ r.own_ratchet = RatchetOf(Peer(p), Len(r.root_key))
  BY <1>1 DEF SealedKeysUsed, SealedInOrder, MessageKey
<1>3. /\ s.root_key \in RootKey /\ r.root_key \in RootKey
      /\ Len(s.root_key) \in Nat /\ Len(r.root_key) \in Nat /\ Len(f.key.chain) \in Nat
      /\ number \in Nat /\ fresh \in RatchetKey
  <2>1. fresh \in RatchetKey
    BY <1>1, RatchetStepType DEF Frame
  <2> QED BY <1>1, <1>2, <2>1, LenProperties DEF IsSession, RootKey, Frame, Header
<1>4. Ahead(r, s) /\ Len(r.root_key) = Len(s.root_key) + 1
  <2>1. ASSUME Ahead(s, r) PROVE FALSE
    <3>1. Len(s.root_key) = Len(r.root_key) + 1
      BY <2>1, AheadLength
    <3> HIDE DEF s, r
    <3> QED BY <1>2, <1>3, <3>1 DEF s
  <2>2. Ahead(r, s)
    BY <2>1, EitherAhead
  <2> QED BY <1>1, <2>2, AheadLength
<1> HIDE DEF fresh, number
<1>5. Len(f.key.chain) = Len(r.root_key)
  BY <1>2, <1>3, <1>4
<1>6. f.key.chain = r.root_key
  <2>1. IsPrefixOf(r.root_key, r.root_key)
    BY <1>3 DEF IsPrefixOf
  <2> QED BY <1>2, <1>3, <1>5, <2>1, SamePrefix
<1>7. f.header.ratchet = r.own_ratchet /\ f.header.ratchet \in RatchetKey
  BY <1>1, <1>2, <1>5 DEF IsSession
<1>8. s.remote_ratchet # f.header.ratchet
  <2>1. CASE s.remote_ratchet = None
    BY <1>7, <2>1, KeysAssumption
  <2>2. CASE s.remote_ratchet # None
    <3> DEFINE n == Len(s.root_key)
    <3>1. s.remote_ratchet = <<Peer(p), (n - 1) \div 2>>
      BY <1>1, <2>2 DEF ReceivingInOrder, RatchetOf
    <3>2. f.header.ratchet = <<Peer(p), (n + 1) \div 2>>
      BY <1>2, <1>4, <1>5 DEF RatchetOf
    <3>3. n \in Nat
      BY <1>3
    <3> HIDE DEF n
    <3>4. (n - 1) \div 2 # (n + 1) \div 2
      BY <3>3
    <3> QED BY <3>1, <3>2, <3>4
  <2> QED BY <2>1, <2>2
<1>9. chain = r.root_key
  <2>1. r.root_key = KdfRoot(s.root_key, s.own_ratchet, r.own_ratchet)
    BY <1>4 DEF Ahead
  <2> QED BY <1>7, <2>1
<1>10. AfterRatchetStep(s, f)
  BY <1>8 DEF AfterRatchetStep
<1>11. PreviousResult(s, f) \in {"Ok", "TooFarAhead"}
  BY DEF PreviousResult, SkipTo
<1>12. NumberResult(0, number) \in {"Ok", "TooFarAhead"}
  <2>1. 0 <= number /\ 0 \in Nat
    BY <1>3
  <2> QED BY <1>3, <2>1, AheadOrOk
<1>13. OpenResult(KeyOf(chain, number), f) = "Ok"
  <2>1. f.key = KeyOf(chain, number)
    BY <1>2, <1>6, <1>9 DEF MessageKey, KeyOf
  <2> QED BY <1>2, <2>1 DEF OpenResult, Opens
<1>14. f.header.ratchet # LowOrder /\ fresh # None
  BY <1>3, <1>7, KeysAssumption
<1>15. StepResult(s, f, fresh) \in {"Ok", "TooFarAhead"}
  BY <1>11, <1>12, <1>13, <1>14 DEF StepResult, number
<1> HIDE DEF s
<1>16. Answer(p, f) = StepResult(s, f, fresh)
  BY <1>10, AnswerFrom DEF Answer, s, fresh
<1> QED BY <1>15, <1>16

\* Whatever the carrier lost, delayed, reordered or damaged: as long as no limit has
\* dropped its key, a frame of the peer's that has not opened yet is never refused
\* as a forgery or a replay.  It opens, or skips too many keys for now.
THEOREM OpensUntilEvicted == Spec => []OpensUnlessEvicted
<1>1. TypeOK /\ OnceInv /\ InStepInv /\ DeliveryInv => OpensUnlessEvicted
  <2> SUFFICES ASSUME TypeOK, OnceInv, InStepInv, DeliveryInv, NEW p \in Party,
                      NEW f \in sent[Peer(p)] \ opened[p], f.key \notin evicted[p]
               PROVE  Answer(p, f) \in {"Ok", "TooFarAhead"}
    BY DEF OpensUnlessEvicted
  <2> DEFINE s == session[p]
  <2>1. /\ f \in sent[Peer(p)] /\ Peer(p) \in Party
        /\ SealedKeysUsed(Peer(p), session[Peer(p)], sent[Peer(p)])
        /\ SealedInOrder(Peer(p), session[Peer(p)], sent[Peer(p)])
        /\ Delivered(p, s, sent[Peer(p)], opened[p], evicted[p])
        /\ Turn(Peer(p)) = 1 - Turn(p)
    BY PeerOfPeer, TurnFacts DEF OnceInv, InStepInv, DeliveryInv
  <2>2. CASE IsSkipped(s, f)
    <3>1. SkippedResult(s, f) = "Ok"
      BY <2>1, <2>2, StoredKeyOpens
    <3> HIDE DEF s
    <3>2. Answer(p, f) = SkippedResult(s, f)
      BY <2>2, AnswerFrom DEF Answer, s
    <3> QED BY <3>1, <3>2
  <2>3. CASE ~IsSkipped(s, f)
    <3>1. f.key \notin Keys(s.skipped)
      <4> SUFFICES ASSUME NEW i \in DOMAIN s.skipped, f.key = s.skipped[i].key
                   PROVE  i \in Matches(s.skipped, f.header)
        BY <2>3 DEF Keys, IsSkipped
      <4> QED BY <2>1 DEF Delivered, StoreInOrder, SealedInOrder, Matches
    <3>2. ~Passed(p, s, f.key)
      BY <2>1, <3>1 DEF Delivered, Accounted
    <3>3. Len(f.key.chain) % 2 = 1 - Turn(p)
      <4>1. Len(f.key.chain) % 2 = Turn(Peer(p))
        BY <2>1 DEF SealedKeysUsed
      <4> QED BY <2>1, <4>1, Zenon
    <3>4. \/ ~(Len(f.key.chain) <= Len(s.root_key))
          \/ /\ s.receiving # None /\ f.key.chain = s.receiving.key
             /\ ~(f.key.number < s.receiving.next)
      BY <3>2, <3>3, Zenon DEF Passed
    <3>5. CASE ~(Len(f.key.chain) <= Len(s.root_key))
      BY <2>1, <2>3, <3>5, AnswersAfterRatchetStep
    <3>6. CASE /\ s.receiving # None /\ f.key.chain = s.receiving.key
               /\ ~(f.key.number < s.receiving.next)
      BY <2>1, <2>3, <3>6, AnswersInReceivingChain
    <3> QED BY <3>4, <3>5, <3>6
  <2> QED BY <2>2, <2>3
<1> QED BY <1>1, DeliveryInvariant, PTL

-----------------------------------------------------------------------------
(* Where the limits never bind.  What a frame may skip, and what the store has *)
(* to hold, are keys of other frames of the peer's: no key is ever skipped     *)
(* that was not sealed.                                                        *)

SealedKeys(frames) == {g.key : g \in frames}

OnChain(frames, length) == {g \in frames : Len(g.key.chain) = length}

\* The frames on one chain, or all, fit in the store once one of them has opened.
LimitsSuffice(frames) ==
  \A f \in frames :
    /\ Cardinality(frames \ {f}) <= MAX_SKIPPED_TOTAL
    /\ \A length \in Nat : Cardinality(OnChain(frames \ {f}, length)) <= MAX_SKIP_PER_CHAIN

\* A function that tells its arguments apart has no more of them than values.
LEMMA NoMoreThan ==
  ASSUME NEW S, NEW T, IsFiniteSet(T), NEW map \in [S -> T],
         \A x, y \in S : map[x] = map[y] => x = y
  PROVE  /\ IsFiniteSet(S) /\ Cardinality(S) <= Cardinality(T)
         /\ Cardinality(S) \in Nat /\ Cardinality(T) \in Nat
<1>1. map \in Injection(S, T)
  BY DEF Injection, IsInjective
<1> QED BY <1>1, FS_Injection, FS_CardinalityType

\* Entries with different keys are no more than the frames these keys have sealed.
LEMMA EntriesFewer ==
  ASSUME NEW deque, NEW P \in SUBSET DOMAIN deque, NEW frames, IsFiniteSet(frames),
         \A i \in P : deque[i].key \in SealedKeys(frames),
         \A i, j \in P : deque[i].key = deque[j].key => i = j
  PROVE  Cardinality(P) <= Cardinality(frames) /\ Cardinality(P) \in Nat
<1> DEFINE frameOf == [i \in P |-> CHOOSE g \in frames : g.key = deque[i].key]
<1>1. \A i \in P : \E g \in frames : g.key = deque[i].key
  BY DEF SealedKeys
<1>2. \A i \in P : frameOf[i] \in frames /\ frameOf[i].key = deque[i].key
  BY <1>1
<1>3. frameOf \in [P -> frames]
  BY <1>1
<1> HIDE DEF frameOf
<1>4. \A i, j \in P : frameOf[i] = frameOf[j] => i = j
  BY <1>2
<1> QED BY <1>3, <1>4, NoMoreThan

\* Numbers each of which was sealed on a chain are no more than its frames.
LEMMA NumbersFewer ==
  ASSUME NEW frames, IsFiniteSet(frames), NEW length, NEW from \in Nat, NEW until \in Nat,
         \A n \in from..until - 1 : \E g \in OnChain(frames, length) : g.key.number = n
  PROVE  until - from <= Cardinality(OnChain(frames, length))
<1> DEFINE T == OnChain(frames, length)
           numbers == from..until - 1
           frameOf == [n \in numbers |-> CHOOSE g \in T : g.key.number = n]
<1>1. IsFiniteSet(T)
  <2>1. T \in SUBSET frames
    BY DEF OnChain
  <2> QED BY <2>1, FS_Subset
<1>2. Cardinality(numbers) = IF from > until - 1 THEN 0 ELSE until - from
  <2>1. from \in Int /\ until - 1 \in Int /\ until - 1 - from + 1 = until - from
    OBVIOUS
  <2> QED BY <2>1, FS_Interval
<1>3. \A n \in numbers : \E g \in T : g.key.number = n
  OBVIOUS
<1> HIDE DEF numbers, T
<1>4. \A n \in numbers : frameOf[n] \in T /\ frameOf[n].key.number = n
  BY <1>3
<1>5. frameOf \in [numbers -> T]
  BY <1>3
<1> HIDE DEF frameOf
<1>6. \A m, n \in numbers : frameOf[m] = frameOf[n] => m = n
  BY <1>4
<1>7. Cardinality(numbers) <= Cardinality(T) /\ Cardinality(T) \in Nat
  BY <1>1, <1>5, <1>6, NoMoreThan
<1> QED BY <1>2, <1>7 DEF T

\* Nothing is too old while there is room.
LEMMA NoneOldest ==
  ASSUME NEW S \in SUBSET Nat, IsFiniteSet(S), NEW limit \in Nat, Cardinality(S) <= limit
  PROVE  Oldest(S, Cardinality(S) - limit) = {}
<1> SUFFICES ASSUME NEW i \in S, Cardinality({j \in S : j < i}) < Cardinality(S) - limit
             PROVE  FALSE
  BY DEF Oldest
<1>1. {j \in S : j < i} \in SUBSET S
  OBVIOUS
<1>2. Cardinality({j \in S : j < i}) \in Nat /\ Cardinality(S) \in Nat
  BY <1>1, FS_Subset, FS_CardinalityType
<1> QED BY <1>2

\* Too few entries for the limits: nothing is evicted.
LEMMA ExtendFits ==
  ASSUME NEW p \in Party, NEW root, NEW deque, IsDeque(deque), NEW lost \in SUBSET MessageKey,
         StoreInOrder(p, root, deque, lost),
         NEW chain \in RootKey, IsPrefixOf(chain, root), NEW from \in Nat, NEW until \in Nat,
         NEW ratchet \in PublicKey, ratchet = RatchetOf(Peer(p), Len(chain)),
         \A i \in DOMAIN deque : deque[i].key.chain = chain => deque[i].key.number < from,
         \A key \in lost : key.chain = chain => key.number < from,
         \A i \in DOMAIN deque : Len(deque[i].key.chain) % 2 = Len(chain) % 2,
         NEW frames, IsFiniteSet(frames), LimitsSuffice(frames), NEW f \in frames,
         Keys(deque) \subseteq SealedKeys(frames \ {f}),
         \A n \in from..until - 1 : KeyOf(chain, n) \in SealedKeys(frames \ {f})
  PROVE  EvictedBy(deque, ratchet, chain, from, until) = {}
<1> DEFINE D == PushBack(deque, ratchet, chain, from, until)
           excess == Oldest(OfChain(D, ratchet), Cardinality(OfChain(D, ratchet)) - MAX_SKIP_PER_CHAIN)
           C == Without(D, excess)
           front == Oldest(DOMAIN C, Cardinality(DOMAIN C) - MAX_SKIPPED_TOTAL)
           E == Without(C, front)
           others == frames \ {f}
<1>1. /\ IsDeque(D)
      /\ DOMAIN deque \subseteq DOMAIN D
      /\ \A i \in DOMAIN deque : D[i] = deque[i]
      /\ \A i \in DOMAIN D \ DOMAIN deque :
           \E n \in from..until - 1 :
             D[i] = [ratchet |-> ratchet, number |-> n, key |-> KeyOf(chain, n)]
  BY PushBackFacts
<1>2. StoreInOrder(p, root, D, lost)
  BY PushBackInOrder
<1>3. E = Extend(deque, ratchet, chain, from, until)
  BY DEF Extend, PopFrontToLimit, EvictOldestOfChain, OfChain
<1>4. EvictedBy(deque, ratchet, chain, from, until) = Keys(D) \ Keys(E)
  BY <1>3 DEF EvictedBy
<1> HIDE DEF D
<1>5. /\ IsFiniteSet(others) /\ Cardinality(others) <= MAX_SKIPPED_TOTAL
      /\ \A length \in Nat : Cardinality(OnChain(others, length)) <= MAX_SKIP_PER_CHAIN
  BY FS_RemoveElement DEF LimitsSuffice
<1>6. ASSUME NEW i \in DOMAIN D
      PROVE  /\ D[i].key \in SealedKeys(others)
             /\ Len(D[i].key.chain) % 2 = Len(chain) % 2
  <2>1. CASE i \in DOMAIN deque
    <3>1. D[i] = deque[i]
      BY <1>1, <2>1
    <3>2. D[i].key \in Keys(deque)
      BY <2>1, <3>1 DEF Keys
    <3>3. Len(deque[i].key.chain) % 2 = Len(chain) % 2
      BY <2>1, Zenon
    <3>4. Len(D[i].key.chain) % 2 = Len(chain) % 2
      BY <3>1, <3>3
    <3> QED BY <3>2, <3>4
  <2>2. CASE i \notin DOMAIN deque
    <3>1. PICK n \in from..until - 1 : D[i].key = KeyOf(chain, n)
      BY <1>1, <2>2
    <3>2. D[i].key.chain = chain
      BY <3>1 DEF KeyOf
    <3> QED BY <3>1, <3>2
  <2> QED BY <2>1, <2>2
<1> HIDE DEF others
<1>7. ASSUME NEW i \in DOMAIN D, NEW j \in DOMAIN D, D[i].key = D[j].key
      PROVE  i = j
  <2>1. i \in Nat /\ j \in Nat /\ D[i].key.number \in Nat
    BY <1>1 DEF IsDeque, SkippedKey, MessageKey
  <2>2. ~(i < j) /\ ~(j < i)
    BY <1>2, <1>7, <2>1 DEF StoreInOrder
  <2> QED BY <2>1, <2>2
<1>8. Cardinality(OfChain(D, ratchet)) <= MAX_SKIP_PER_CHAIN /\ Cardinality(OfChain(D, ratchet)) \in Nat
  <2>1. Len(chain) \in Nat
    BY LenProperties DEF RootKey
  <2>2. ASSUME NEW i \in OfChain(D, ratchet) PROVE D[i].key \in SealedKeys(OnChain(others, Len(chain)))
    <3>1. i \in DOMAIN D /\ D[i].ratchet = ratchet
      BY DEF OfChain
    <3>2. Len(D[i].key.chain) \in Nat
      BY <1>1, <3>1, LenProperties DEF IsDeque, SkippedKey, MessageKey, RootKey
    <3>3. RatchetOf(Peer(p), Len(D[i].key.chain)) = RatchetOf(Peer(p), Len(chain))
      BY <1>2, <3>1 DEF StoreInOrder
    <3>4. Len(D[i].key.chain) = Len(chain)
      BY <1>6, <2>1, <3>1, <3>2, <3>3, PeerOfPeer, RatchetOfLength
    <3> QED BY <1>6, <3>1, <3>4 DEF SealedKeys, OnChain
  <2>3. OfChain(D, ratchet) \in SUBSET DOMAIN D
    BY DEF OfChain
  <2>4. IsFiniteSet(OnChain(others, Len(chain)))
    <3>1. OnChain(others, Len(chain)) \in SUBSET others
      BY DEF OnChain
    <3> QED BY <1>5, <3>1, FS_Subset
  <2>5. /\ Cardinality(OfChain(D, ratchet)) <= Cardinality(OnChain(others, Len(chain)))
        /\ Cardinality(OfChain(D, ratchet)) \in Nat
    BY <1>7, <2>2, <2>3, <2>4, EntriesFewer
  <2>6. Cardinality(OnChain(others, Len(chain))) \in Nat
    BY <2>4, FS_CardinalityType
  <2> QED BY <1>5, <2>1, <2>5, <2>6, LimitsAssumption
<1>9. excess = {}
  <2>1. OfChain(D, ratchet) \in SUBSET DOMAIN D
    BY DEF OfChain
  <2>2. OfChain(D, ratchet) \in SUBSET Nat /\ IsFiniteSet(OfChain(D, ratchet))
    BY <1>1, <2>1, FS_Subset DEF IsDeque
  <2> QED BY <1>8, <2>2, LimitsAssumption, NoneOldest
<1> HIDE DEF excess
<1>10. DOMAIN C = DOMAIN D /\ \A i \in DOMAIN C : C[i] = D[i]
  <2>1. DOMAIN C = DOMAIN D \ excess /\ \A i \in DOMAIN C : C[i] = D[i]
    BY <1>1, WithoutFacts
  <2> HIDE DEF C
  <2> QED BY <1>9, <2>1
<1>11. IsDeque(C)
  BY <1>1, WithoutFacts
<1> HIDE DEF C
<1>12. Cardinality(DOMAIN C) <= MAX_SKIPPED_TOTAL /\ Cardinality(DOMAIN C) \in Nat
  <2>1. Cardinality(DOMAIN D) <= Cardinality(others) /\ Cardinality(DOMAIN D) \in Nat
    BY <1>5, <1>6, <1>7, EntriesFewer
  <2>2. Cardinality(others) \in Nat
    BY <1>5, FS_CardinalityType
  <2> QED BY <1>5, <1>10, <2>1, <2>2, LimitsAssumption
<1>13. front = {}
  BY <1>11, <1>12, LimitsAssumption, NoneOldest DEF IsDeque
<1> HIDE DEF front
<1>14. DOMAIN E = DOMAIN C /\ \A i \in DOMAIN E : E[i] = C[i]
  <2>1. DOMAIN E = DOMAIN C \ front /\ \A i \in DOMAIN E : E[i] = C[i]
    BY <1>11, WithoutFacts
  <2> HIDE DEF E
  <2> QED BY <1>13, <2>1
<1> HIDE DEF E
<1>15. Keys(E) = Keys(D)
  BY <1>10, <1>14 DEF Keys
<1> QED BY <1>4, <1>15

\* A session seals the numbers of its chains one after the other, up to the limit of
\* a chain, and announces the length of a chain that it has sealed.
NoGaps(s, frames) ==
  /\ IsFiniteSet(frames)
  /\ s.sending # None =>
       /\ Len(s.root_key) >= 1 /\ s.sending.next <= CHAIN_LIMIT
       /\ \A n \in 0..s.sending.next - 1 : KeyOf(s.root_key, n) \in SealedKeys(frames)
  /\ s.previous_sending_len <= CHAIN_LIMIT
  /\ \A n \in 0..s.previous_sending_len - 1 :
       \E g \in OnChain(frames, Len(s.root_key) - 2) : g.key.number = n
  /\ \A f \in frames :
       /\ f.key.number < CHAIN_LIMIT /\ f.header.previous_chain_len <= CHAIN_LIMIT
       /\ Len(f.key.chain) \in 1..MaxChains
       /\ \A n \in 0..f.key.number - 1 : KeyOf(f.key.chain, n) \in SealedKeys(frames)
       /\ \A n \in 0..f.header.previous_chain_len - 1 :
            \E g \in OnChain(frames, Len(f.key.chain) - 2) : g.key.number = n

\* What the receiving side stores was sealed, and it drops nothing it has room for.
Kept(s, frames, lost) ==
  /\ Keys(s.skipped) \subseteq SealedKeys(frames)
  /\ LimitsSuffice(frames) => lost = {}

\* Bob cannot seal before he has opened a frame, and nobody else ever waits.
Waits(p, s, read) ==
  /\ s.sending = None <=> p = "Bob" /\ read = {}
  /\ s.sending = None => s.receiving = None /\ DOMAIN s.skipped = {}

LimitsInv ==
  \A p \in Party : /\ NoGaps(session[p], sent[p])
                   /\ Cardinality(sent[p]) = sealed[p]
                   /\ Kept(session[p], sent[Peer(p)], evicted[p])
                   /\ Waits(p, session[p], opened[p])

\* What a step of party p must leave.
LEMMA LimitsStep ==
  ASSUME TypeOK, LimitsInv, NEW p \in Party, NEW t, session' = [session EXCEPT ![p] = t],
         NEW frames, sent' = [sent EXCEPT ![p] = frames],
         NEW count, sealed' = [sealed EXCEPT ![p] = count],
         NEW read, opened' = [opened EXCEPT ![p] = read],
         NEW lost, evicted' = [evicted EXCEPT ![p] = lost],
         NoGaps(t, frames), Cardinality(frames) = count, Waits(p, t, read),
         Kept(t, sent[Peer(p)], lost), Kept(session[Peer(p)], frames, evicted[Peer(p)])
  PROVE  LimitsInv'
<1>1. /\ Peer(p) \in Party /\ Peer(p) # p /\ Peer(Peer(p)) = p /\ Party = {p, Peer(p)}
  BY PeerOfPeer
<1>2. /\ session'[p] = t /\ session'[Peer(p)] = session[Peer(p)]
      /\ sent'[p] = frames /\ sent'[Peer(p)] = sent[Peer(p)]
      /\ sealed'[p] = count /\ sealed'[Peer(p)] = sealed[Peer(p)]
      /\ opened'[p] = read /\ opened'[Peer(p)] = opened[Peer(p)]
      /\ evicted'[p] = lost /\ evicted'[Peer(p)] = evicted[Peer(p)]
  BY <1>1 DEF TypeOK
<1>3. \A q \in Party : /\ NoGaps(session'[q], sent'[q])
                       /\ Cardinality(sent'[q]) = sealed'[q]
                       /\ Kept(session'[q], sent'[Peer(q)], evicted'[q])
                       /\ Waits(q, session'[q], opened'[q])
  <2>1. /\ NoGaps(session[Peer(p)], sent[Peer(p)])
        /\ Cardinality(sent[Peer(p)]) = sealed[Peer(p)]
        /\ Waits(Peer(p), session[Peer(p)], opened[Peer(p)])
    BY <1>1 DEF LimitsInv
  <2> QED BY <1>1, <1>2, <2>1
<1> QED BY <1>3 DEF LimitsInv, NoGaps, Kept, Waits, LimitsSuffice, SealedKeys, OnChain, Keys, KeyOf, Peer, Party

\* Nothing has been sealed, nothing stored.
LEMMA InitLimits == Init => LimitsInv
<1> SUFFICES ASSUME Init, NEW p \in Party
             PROVE  /\ NoGaps(session[p], sent[p])
                    /\ Cardinality(sent[p]) = sealed[p]
                    /\ Kept(session[p], sent[Peer(p)], evicted[p])
                    /\ Waits(p, session[p], opened[p])
  BY DEF LimitsInv
<1>1. sent[p] = {} /\ sealed[p] = 0 /\ evicted[p] = {} /\ opened[p] = {}
  BY DEF Init
<1>2. IsFiniteSet({}) /\ Cardinality({}) = 0
  BY FS_EmptySet
<1>3. session[p].skipped = << >> /\ session[p].previous_sending_len = 0 /\ session[p].receiving = None
  BY DEF Init, InitiatorSession, ResponderSession
<1>4. CASE p = "Alice"
  <2> DEFINE a == <<"Alice", 0>>
             b == <<"Bob", 0>>
             root == KdfRoot(<< >>, a, b)
  <2>1. << >> \in RootKey /\ a \in PublicKey /\ b \in PublicKey
    BY DEF RootKey, RatchetKey, PublicKey, Party
  <2>2. root \in RootKey /\ Len(root) = Len(<< >>) + 1
    BY <2>1, PrefixOfNext
  <2>3. session[p].root_key = root /\ session[p].sending = [key |-> root, next |-> 0]
    BY <1>4 DEF Init, InitiatorSession, ChainStart, SharedKey
  <2> HIDE DEF root, a, b
  <2>4. Len(root) = 1
    BY <2>2
  <2>5. session[p].sending \in Chain /\ session[p].sending # None
    BY <2>2, <2>3, NoneAssumption DEF Chain
  <2>6. session[p].sending.next = 0
    BY <2>3
  <2>7. NoGaps(session[p], {})
    BY <1>2, <1>3, <2>3, <2>4, <2>6, LimitsAssumption DEF NoGaps
  <2>8. Waits(p, session[p], {})
    BY <1>4, <2>5 DEF Waits
  <2> QED BY <1>1, <1>2, <1>3, <2>7, <2>8 DEF Kept, Keys
<1>5. CASE p = "Bob"
  <2>1. session[p].sending = None
    BY <1>5 DEF Init, ResponderSession
  <2>2. NoGaps(session[p], {})
    BY <1>2, <1>3, <2>1, LimitsAssumption DEF NoGaps
  <2>3. Waits(p, session[p], {})
    BY <1>3, <1>5, <2>1 DEF Waits
  <2> QED BY <1>1, <1>2, <1>3, <2>2, <2>3 DEF Kept, Keys
<1> QED BY <1>4, <1>5 DEF Party

\* Fewer frames need less room.
LEMMA FewerFit ==
  ASSUME NEW all, IsFiniteSet(all), LimitsSuffice(all), NEW some \in SUBSET all
  PROVE  LimitsSuffice(some)
<1> SUFFICES ASSUME NEW f \in some
             PROVE  /\ Cardinality(some \ {f}) <= MAX_SKIPPED_TOTAL
                    /\ \A length \in Nat :
                         Cardinality(OnChain(some \ {f}, length)) <= MAX_SKIP_PER_CHAIN
  BY DEF LimitsSuffice
<1>1. /\ Cardinality(all \ {f}) <= MAX_SKIPPED_TOTAL
      /\ \A length \in Nat : Cardinality(OnChain(all \ {f}, length)) <= MAX_SKIP_PER_CHAIN
  BY DEF LimitsSuffice
<1>2. IsFiniteSet(all \ {f}) /\ some \ {f} \in SUBSET (all \ {f})
  BY FS_RemoveElement
<1>3. Cardinality(some \ {f}) <= MAX_SKIPPED_TOTAL
  <2>1. /\ Cardinality(some \ {f}) <= Cardinality(all \ {f})
        /\ Cardinality(some \ {f}) \in Nat /\ Cardinality(all \ {f}) \in Nat
    BY <1>2, FS_Subset, FS_CardinalityType
  <2> QED BY <1>1, <2>1, LimitsAssumption
<1>4. ASSUME NEW length \in Nat
      PROVE  Cardinality(OnChain(some \ {f}, length)) <= MAX_SKIP_PER_CHAIN
  <2>1. /\ OnChain(some \ {f}, length) \in SUBSET OnChain(all \ {f}, length)
        /\ OnChain(all \ {f}, length) \in SUBSET (all \ {f})
    BY <1>2 DEF OnChain
  <2>2. /\ Cardinality(OnChain(some \ {f}, length)) <= Cardinality(OnChain(all \ {f}, length))
        /\ Cardinality(OnChain(some \ {f}, length)) \in Nat
        /\ Cardinality(OnChain(all \ {f}, length)) \in Nat
    BY <1>2, <2>1, FS_Subset, FS_CardinalityType
  <2> QED BY <1>1, <2>2, LimitsAssumption
<1> QED BY <1>3, <1>4

\* encrypt seals the next number.
LEMMA EncryptLimits ==
  ASSUME TypeOK, OnceInv, InStepInv, LimitsInv, NEW p \in Party, Encrypt(p)
  PROVE  LimitsInv'
<1> DEFINE s == session[p]
           q == Peer(p)
           r == session[q]
           t == AfterSealing(s)
           F == NextFrame(p)
           old == sent[p]
           frames == old \cup {F}
<1>1. /\ s.sending \in Chain /\ s.sending.key = s.root_key /\ F.key \in MessageKey
      /\ \A f \in old : f.key # F.key
  BY EncryptFresh
<1>2. /\ IsSession(s) /\ s.sending # None /\ s.sending.next < CHAIN_LIMIT
      /\ Len(s.root_key) <= MaxChains
      /\ q \in Party /\ q # p /\ Peer(q) = p
  BY PeerOfPeer DEF TypeOK, Encrypt, Seals, CanSend
<1>3. /\ t.root_key = s.root_key /\ t.receiving = s.receiving /\ t.skipped = s.skipped
      /\ t.previous_sending_len = s.previous_sending_len
      /\ t.sending = [key |-> s.sending.key, next |-> s.sending.next + 1]
  BY <1>1, <1>2 DEF IsSession, Chain, AfterSealing
<1>4. /\ F.key = KeyOf(s.root_key, s.sending.next)
      /\ F.key.chain = s.root_key /\ F.key.number = s.sending.next
      /\ F.header.previous_chain_len = s.previous_sending_len
  BY <1>1 DEF NextFrame, SealedFrame, KeyOf, NextHeader
<1>5. /\ session' = [session EXCEPT ![p] = t] /\ sent' = [sent EXCEPT ![p] = frames]
      /\ sealed' = [sealed EXCEPT ![p] = sealed[p] + 1]
      /\ opened' = [opened EXCEPT ![p] = opened[p]]
      /\ evicted' = [evicted EXCEPT ![p] = evicted[p]]
  BY DEF Encrypt, Seals, TypeOK
<1>6. /\ NoGaps(s, old) /\ Cardinality(old) = sealed[p] /\ sealed[p] \in Nat
      /\ Kept(s, sent[q], evicted[p]) /\ Kept(r, old, evicted[q]) /\ Waits(p, s, opened[p])
  BY <1>2 DEF LimitsInv, TypeOK
<1> HIDE DEF t, F, s, r, q
<1>7. Len(s.root_key) \in Nat /\ s.sending.next \in Nat /\ s.root_key \in RootKey
  BY <1>1, <1>2 DEF IsSession, RootKey, Chain
<1>8. t.sending # None /\ t.sending.next = s.sending.next + 1
  <2>1. t.sending \in Chain
    BY <1>1, <1>3, <1>7 DEF Chain
  <2> QED BY <1>3, <2>1, NoneAssumption
<1>9. F \notin old /\ old \subseteq frames /\ F \in frames
  BY <1>1
<1>10. IsFiniteSet(frames) /\ Cardinality(frames) = sealed[p] + 1
  BY <1>6, <1>9, FS_AddElement DEF NoGaps
<1> HIDE DEF old, frames
<1>11. /\ SealedKeys(old) \subseteq SealedKeys(frames)
       /\ KeyOf(s.root_key, s.sending.next) \in SealedKeys(frames)
       /\ \A length : OnChain(old, length) \subseteq OnChain(frames, length)
  BY <1>4, <1>9 DEF SealedKeys, OnChain
<1>12. \A n \in 0..s.previous_sending_len - 1 :
         \E g \in OnChain(frames, Len(s.root_key) - 2) : g.key.number = n
  BY <1>6, <1>11 DEF NoGaps
<1>13. \A n \in 0..s.sending.next - 1 : KeyOf(s.root_key, n) \in SealedKeys(frames)
  BY <1>2, <1>6, <1>11 DEF NoGaps
<1>14. NoGaps(t, frames)
  <2>1. /\ Len(t.root_key) >= 1 /\ t.sending.next <= CHAIN_LIMIT
        /\ \A n \in 0..t.sending.next - 1 : KeyOf(t.root_key, n) \in SealedKeys(frames)
    <3>1. Len(t.root_key) >= 1
      BY <1>2, <1>3, <1>6 DEF NoGaps
    <3>2. t.sending.next <= CHAIN_LIMIT
      BY <1>2, <1>7, <1>8, LimitsAssumption
    <3>3. \A n \in 0..t.sending.next - 1 : n = s.sending.next \/ n \in 0..s.sending.next - 1
      BY <1>7, <1>8
    <3> QED BY <1>3, <1>11, <1>13, <3>1, <3>2, <3>3
  <2>2. t.previous_sending_len <= CHAIN_LIMIT
    BY <1>3, <1>6 DEF NoGaps
  <2>3. ASSUME NEW f \in frames
        PROVE  /\ f.key.number < CHAIN_LIMIT /\ f.header.previous_chain_len <= CHAIN_LIMIT
               /\ Len(f.key.chain) \in 1..MaxChains
               /\ \A n \in 0..f.key.number - 1 : KeyOf(f.key.chain, n) \in SealedKeys(frames)
               /\ \A n \in 0..f.header.previous_chain_len - 1 :
                    \E g \in OnChain(frames, Len(f.key.chain) - 2) : g.key.number = n
    <3>1. CASE f \in old
      BY <1>6, <1>11, <3>1 DEF NoGaps
    <3>2. CASE f = F
      <4>1. Len(s.root_key) \in 1..MaxChains
        BY <1>2, <1>3, <1>7, <2>1, BoundAssumption
      <4> QED BY <1>2, <1>3, <1>4, <1>12, <1>13, <2>2, <3>2, <4>1
    <3> QED BY <3>1, <3>2 DEF frames
  <2> QED BY <1>3, <1>10, <1>12, <2>1, <2>2, <2>3 DEF NoGaps
<1>15. Kept(t, sent[q], evicted[p]) /\ Waits(p, t, opened[p])
  BY <1>2, <1>3, <1>6, <1>8 DEF Kept, Waits
<1>16. Kept(r, frames, evicted[q])
  <2>1. LimitsSuffice(frames) => LimitsSuffice(old)
    BY <1>9, <1>10, FewerFit
  <2> QED BY <1>6, <1>11, <2>1 DEF Kept
<1> QED BY <1>5, <1>10, <1>14, <1>15, <1>16, LimitsStep DEF q, r

\* A frame whose key is stored is found by its header.
LEMMA NotStored ==
  ASSUME InStepInv, DeliveryInv, NEW p \in Party, NEW f \in sent[Peer(p)],
         ~IsSkipped(session[p], f)
  PROVE  f.key \notin Keys(session[p].skipped)
<1> DEFINE s == session[p]
<1>1. SealedInOrder(Peer(p), session[Peer(p)], sent[Peer(p)])
  BY PeerOfPeer DEF InStepInv
<1>2. StoreInOrder(p, s.root_key, s.skipped, evicted[p])
  BY DEF DeliveryInv, Delivered
<1> SUFFICES ASSUME NEW i \in DOMAIN s.skipped, f.key = s.skipped[i].key
             PROVE  i \in Matches(s.skipped, f.header)
  BY DEF Keys, IsSkipped
<1> QED BY <1>1, <1>2 DEF StoreInOrder, SealedInOrder, Matches

\* What a frame opened by party p must leave.
LEMMA OpenLimits ==
  ASSUME TypeOK, LimitsInv, NEW p \in Party, NEW t, session' = [session EXCEPT ![p] = t],
         NEW f, Returns(p, f), NEW lost, evicted' = [evicted EXCEPT ![p] = lost],
         t.sending # None, NoGaps(t, sent[p]), Kept(t, sent[Peer(p)], lost)
  PROVE  LimitsInv'
<1>1. /\ sent' = [sent EXCEPT ![p] = sent[p]] /\ sealed' = [sealed EXCEPT ![p] = sealed[p]]
      /\ opened' = [opened EXCEPT ![p] = opened[p] \cup {f}]
  BY DEF Returns, TypeOK
<1>2. Waits(p, t, opened[p] \cup {f})
  BY DEF Waits
<1>3. Kept(session[Peer(p)], sent[p], evicted[Peer(p)]) /\ Cardinality(sent[p]) = sealed[p]
  BY PeerOfPeer DEF LimitsInv
<1> QED BY <1>1, <1>2, <1>3, LimitsStep

\* A stored key leaves the store.
LEMMA DecryptSkippedLimits ==
  ASSUME TypeOK, LimitsInv, NEW p \in Party, NEW f, DecryptSkipped(p, f)
  PROVE  LimitsInv'
<1> DEFINE s == session[p]
           W == Without(s.skipped, {Position(s.skipped, f.header)})
           t == AfterStoredKey(s, f.header)
<1>1. /\ IsSession(s) /\ IsDeque(s.skipped) /\ NoGaps(s, sent[p])
      /\ Kept(s, sent[Peer(p)], evicted[p]) /\ Waits(p, s, opened[p])
  BY DEF TypeOK, IsSession, LimitsInv
<1>2. /\ session' = [session EXCEPT ![p] = t] /\ Returns(p, f)
      /\ evicted' = [evicted EXCEPT ![p] = evicted[p]]
  BY DEF DecryptSkipped, TypeOK
<1>3. /\ DOMAIN W = DOMAIN s.skipped \ {Position(s.skipped, f.header)}
      /\ \A i \in DOMAIN W : W[i] = s.skipped[i]
  BY <1>1, WithoutFacts
<1>4. /\ t.root_key = s.root_key /\ t.sending = s.sending /\ t.skipped = W
      /\ t.previous_sending_len = s.previous_sending_len
  BY <1>1 DEF IsSession, AfterStoredKey
<1>5. s.sending # None
  BY <1>1 DEF DecryptSkipped, IsSkipped, Matches, Waits
<1> HIDE DEF t, W, s
<1>6. NoGaps(t, sent[p])
  BY <1>1, <1>4 DEF NoGaps
<1>7. Kept(t, sent[Peer(p)], evicted[p])
  <2>1. Keys(W) \subseteq Keys(s.skipped)
    BY <1>3 DEF Keys
  <2> QED BY <1>1, <1>4, <2>1 DEF Kept
<1> QED BY <1>2, <1>4, <1>5, <1>6, <1>7, OpenLimits

\* What the receiving chain skips was sealed before the frame that opens.
LEMMA DecryptInReceivingChainLimits ==
  ASSUME TypeOK, OnceInv, InStepInv, DeliveryInv, LimitsInv, NEW p \in Party,
         NEW f \in sent[Peer(p)], DecryptInReceivingChain(p, f)
  PROVE  LimitsInv'
<1> DEFINE s == session[p]
           frames == sent[Peer(p)]
           chain == s.receiving.key
           from == s.receiving.next
           number == f.header.message_number
           ratchet == f.header.ratchet
           E == Extend(s.skipped, ratchet, chain, from, number)
           V == EvictedBy(s.skipped, ratchet, chain, from, number)
           t == AfterReceiving(s, f.header)
           lost == evicted[p] \cup V
<1>1. /\ Peer(p) \in Party /\ Peer(Peer(p)) = p /\ IsSession(s) /\ IsDeque(s.skipped)
      /\ f \in Frame /\ evicted[p] \in SUBSET MessageKey
      /\ ReceivingInOrder(p, s) /\ OpenedKeysSpent(p, s, opened[p])
      /\ Delivered(p, s, frames, opened[p], evicted[p])
      /\ NoGaps(s, sent[p]) /\ NoGaps(session[Peer(p)], frames)
      /\ Kept(s, frames, evicted[p]) /\ Waits(p, s, opened[p])
  BY PeerOfPeer DEF TypeOK, IsSession, InStepInv, OnceInv, DeliveryInv, LimitsInv
<1>2. /\ s.receiving # None /\ s.receiving \in Chain /\ from <= number
      /\ f.key = KeyOf(chain, number)
  BY <1>1, ReceivingOk DEF DecryptInReceivingChain
<1>3. /\ chain \in RootKey /\ from \in Nat /\ number \in Nat /\ ratchet \in PublicKey
      /\ Len(s.root_key) \in Nat /\ Len(chain) \in Nat
  BY <1>1, <1>2, LenProperties DEF Chain, Frame, Header, IsSession, RootKey
<1>4. /\ t.root_key = s.root_key /\ t.skipped = E /\ t.sending = s.sending
      /\ t.previous_sending_len = s.previous_sending_len
  <2>1. t = [s EXCEPT !.skipped = E, !.receiving.next = number + 1]
    BY DEF AfterReceiving
  <2> HIDE DEF E, t
  <2>2. t = [root_key |-> s.root_key, own_ratchet |-> s.own_ratchet,
             remote_ratchet |-> s.remote_ratchet, sending |-> s.sending,
             receiving |-> [s.receiving EXCEPT !.next = number + 1],
             previous_sending_len |-> s.previous_sending_len, skipped |-> E]
    BY <1>1, <2>1, AdvanceReceiving
  <2> QED BY <2>2
<1>5. /\ session' = [session EXCEPT ![p] = t] /\ Returns(p, f)
      /\ evicted' = [evicted EXCEPT ![p] = lost]
  BY DEF DecryptInReceivingChain, TypeOK
<1>6. s.remote_ratchet = ratchet /\ f.key \notin Keys(s.skipped)
  BY NotStored DEF DecryptInReceivingChain, InReceivingChain
<1>7. \A key : key \in Keys(E) \cup V
                 <=> key \in Keys(s.skipped) \/ \E n \in from..number - 1 : key = KeyOf(chain, n)
  BY <1>1, <1>3, ExtendAccounts
<1>8. ratchet = RatchetOf(Peer(p), Len(chain)) /\ IsPrefixOf(chain, s.root_key)
  BY <1>1, <1>2, <1>3, <1>6 DEF ReceivingInOrder
<1>9. /\ \A i \in DOMAIN s.skipped : s.skipped[i].key.chain = chain => s.skipped[i].key.number < from
      /\ \A key \in evicted[p] : key.chain = chain => key.number < from
  BY <1>1, <1>2 DEF OpenedKeysSpent, Delivered, Passed
<1>10. \A i \in DOMAIN s.skipped : Len(s.skipped[i].key.chain) % 2 = Len(chain) % 2
  <2>1. Len(chain) % 2 = 1 - Turn(p)
    BY <1>1, <1>2 DEF OpenedKeysSpent
  <2>2. \A i \in DOMAIN s.skipped : Len(s.skipped[i].key.chain) % 2 = 1 - Turn(p)
    BY <1>1 DEF OpenedKeysSpent, Passed
  <2> QED BY <2>1, <2>2, Zenon
<1>11. \A n \in from..number - 1 : KeyOf(chain, n) \in SealedKeys(frames \ {f})
  <2> SUFFICES ASSUME NEW n \in from..number - 1 PROVE KeyOf(chain, n) \in SealedKeys(frames \ {f})
    OBVIOUS
  <2>1. f.key.chain = chain /\ f.key.number = number
    BY <1>2 DEF KeyOf
  <2>2. n \in 0..number - 1 /\ n # number
    BY <1>3
  <2>3. KeyOf(chain, n) \in SealedKeys(frames)
    BY <1>1, <2>1, <2>2 DEF NoGaps
  <2>4. KeyOf(chain, n) # f.key
    BY <2>1, <2>2 DEF KeyOf
  <2> QED BY <2>3, <2>4 DEF SealedKeys
<1>12. Keys(s.skipped) \subseteq SealedKeys(frames \ {f})
  BY <1>1, <1>6 DEF Kept, SealedKeys
<1> HIDE DEF t, E
<1>13. LimitsSuffice(frames) => V = {}
  <2>1. StoreInOrder(p, s.root_key, s.skipped, evicted[p]) /\ IsFiniteSet(frames)
    BY <1>1 DEF Delivered, NoGaps
  <2> HIDE DEF s, chain, from, number, ratchet, frames
  <2> QED BY <1>1, <1>3, <1>8, <1>9, <1>10, <1>11, <1>12, <2>1, ExtendFits DEF frames
<1> HIDE DEF V
<1>14. Kept(t, frames, lost)
  <2>1. Keys(E) \subseteq SealedKeys(frames)
    BY <1>7, <1>11, <1>12 DEF SealedKeys
  <2> QED BY <1>1, <1>4, <1>13, <2>1 DEF Kept
<1>15. NoGaps(t, sent[p])
  <2> HIDE DEF s
  <2> QED BY <1>1, <1>4 DEF NoGaps
<1>16. t.sending # None
  BY <1>1, <1>2, <1>4 DEF Waits
<1> QED BY <1>5, <1>14, <1>15, <1>16, OpenLimits

\* What a ratchet step skips in the chain the peer has left was sealed there.
LEMMA PreviousKept ==
  ASSUME TypeOK, OnceInv, InStepInv, DeliveryInv, LimitsInv, NEW p \in Party,
         Ahead(session[Peer(p)], session[p]),
         NEW f \in sent[Peer(p)], ~IsSkipped(session[p], f), f.key.chain = session[Peer(p)].root_key,
         NEW h \in Header, h.previous_chain_len = session[Peer(p)].previous_sending_len
  PROVE  /\ Keys(SkippedOfPrevious(session[p], h)) \subseteq SealedKeys(sent[Peer(p)] \ {f})
         /\ LimitsSuffice(sent[Peer(p)]) => EvictedOfPrevious(session[p], h) = {}
<1> DEFINE s == session[p]
           r == session[Peer(p)]
           frames == sent[Peer(p)]
           stored == SkippedOfPrevious(s, h)
           new == EvictedOfPrevious(s, h)
           until == h.previous_chain_len
<1>1. /\ Peer(p) \in Party /\ Peer(Peer(p)) = p
      /\ IsSession(s) /\ IsSession(r) /\ IsDeque(s.skipped)
      /\ evicted[p] \in SUBSET MessageKey
      /\ ReceivingInOrder(p, s) /\ OpenedKeysSpent(p, s, opened[p])
      /\ SealedKeysUsed(Peer(p), r, frames) /\ SealedInOrder(Peer(p), r, frames)
      /\ Delivered(p, s, frames, opened[p], evicted[p])
      /\ NoGaps(r, frames) /\ Kept(s, frames, evicted[p])
  BY PeerOfPeer DEF TypeOK, IsSession, InStepInv, OnceInv, DeliveryInv, LimitsInv
<1>2. Keys(s.skipped) \subseteq SealedKeys(frames \ {f})
  <2>1. f.key \notin Keys(s.skipped)
    BY NotStored
  <2> QED BY <1>1, <2>1 DEF Kept, SealedKeys
<1>3. CASE s.receiving = None
  <2>1. stored = s.skipped /\ new = {}
    BY <1>3 DEF SkippedOfPrevious, EvictedOfPrevious
  <2> QED BY <1>2, <2>1
<1>4. CASE s.receiving # None
  <2> DEFINE chain == s.receiving.key
             from == s.receiving.next
             ratchet == s.remote_ratchet
  <2>1. ratchet # None /\ s.receiving \in Chain
    BY <1>1, <1>4 DEF ReceivingInOrder, IsSession
  <2>2. /\ stored = Extend(s.skipped, ratchet, chain, from, until)
        /\ new = EvictedBy(s.skipped, ratchet, chain, from, until)
    BY <1>4, <2>1 DEF SkippedOfPrevious, EvictedOfPrevious
  <2>3. /\ chain \in RootKey /\ from \in Nat /\ until \in Nat /\ ratchet \in PublicKey
        /\ Len(s.root_key) \in Nat /\ Len(chain) \in Nat /\ r.root_key \in RootKey
    BY <1>1, <2>1, LenProperties DEF Chain, Header, IsSession, RootKey
  <2>4. /\ ratchet = RatchetOf(Peer(p), Len(chain)) /\ IsPrefixOf(chain, s.root_key)
        /\ Len(s.root_key) = Len(chain) + 1
    BY <1>1, <1>4, <2>3 DEF ReceivingInOrder
  <2>5. /\ \A i \in DOMAIN s.skipped : s.skipped[i].key.chain = chain => s.skipped[i].key.number < from
        /\ \A key \in evicted[p] : key.chain = chain => key.number < from
    BY <1>1, <1>4 DEF OpenedKeysSpent, Delivered, Passed
  <2>6. \A key : key \in Keys(stored) \cup new
                   <=> key \in Keys(s.skipped) \/ \E n \in from..until - 1 : key = KeyOf(chain, n)
    <3> HIDE DEF s, chain, from, ratchet, until, stored, new
    <3> QED BY <1>1, <2>2, <2>3, ExtendAccounts
  <2>7. \A i \in DOMAIN s.skipped : Len(s.skipped[i].key.chain) % 2 = Len(chain) % 2
    <3>1. Len(chain) % 2 = 1 - Turn(p)
      BY <1>1, <1>4 DEF OpenedKeysSpent
    <3>2. \A i \in DOMAIN s.skipped : Len(s.skipped[i].key.chain) % 2 = 1 - Turn(p)
      BY <1>1 DEF OpenedKeysSpent, Passed
    <3> QED BY <3>1, <3>2, Zenon
  <2>8. /\ Len(r.root_key) = Len(s.root_key) + 1 /\ IsPrefixOf(chain, r.root_key)
    BY <1>1, <2>3, <2>4, AheadLength
  <2> HIDE DEF s, r, chain, from, ratchet, until, stored, new, frames
  <2>9. \A n \in from..until - 1 : KeyOf(chain, n) \in SealedKeys(frames \ {f})
    <3> SUFFICES ASSUME NEW n \in from..until - 1 PROVE KeyOf(chain, n) \in SealedKeys(frames \ {f})
      OBVIOUS
    <3>1. n \in 0..until - 1 /\ Len(r.root_key) - 2 = Len(chain)
      BY <2>3, <2>4, <2>8
    <3>2. until = r.previous_sending_len
      BY DEF until, r
    <3>3. PICK g \in OnChain(frames, Len(chain)) : g.key.number = n
      BY <1>1, <3>1, <3>2 DEF NoGaps
    <3>4. g \in frames /\ Len(g.key.chain) = Len(chain)
      BY <3>3 DEF OnChain
    <3>5. g.key \in MessageKey /\ IsPrefixOf(g.key.chain, r.root_key)
      BY <1>1, <3>4 DEF SealedKeysUsed, SealedInOrder
    <3>6. g.key.chain = chain
      BY <2>3, <2>8, <3>4, <3>5, SamePrefix DEF MessageKey
    <3>7. g.key = KeyOf(chain, n)
      BY <3>3, <3>5, <3>6 DEF MessageKey, KeyOf
    <3>8. g # f
      <4>1. Len(f.key.chain) = Len(r.root_key)
        BY DEF r
      <4> QED BY <2>3, <2>4, <2>8, <3>4, <4>1
    <3> QED BY <3>4, <3>7, <3>8 DEF SealedKeys
  <2>10. LimitsSuffice(frames) => new = {}
    <3>1. StoreInOrder(p, s.root_key, s.skipped, evicted[p]) /\ IsFiniteSet(frames)
      BY <1>1 DEF Delivered, NoGaps
    <3> QED BY <1>1, <1>2, <2>2, <2>3, <2>4, <2>5, <2>7, <2>9, <3>1, ExtendFits DEF frames
  <2>11. Keys(stored) \subseteq SealedKeys(frames \ {f})
    BY <1>2, <2>6, <2>9
  <2> QED BY <2>10, <2>11 DEF frames, stored, new, s
<1> QED BY <1>3, <1>4

\* What a ratchet step skips was sealed, in the chain the peer has left or before the
\* frame that opens.
LEMMA DecryptAfterRatchetStepLimits ==
  ASSUME TypeOK, OnceInv, InStepInv, DeliveryInv, LimitsInv, NEW p \in Party,
         NEW f \in sent[Peer(p)], DecryptAfterRatchetStep(p, f)
  PROVE  LimitsInv'
<1> DEFINE s == session[p]
           r == session[Peer(p)]
           frames == sent[Peer(p)]
           h == f.header
           fresh == Generate(s.own_ratchet)
           chain == KdfRoot(s.root_key, s.own_ratchet, h.ratchet)
           number == h.message_number
           stored == SkippedOfPrevious(s, h)
           dropped == evicted[p] \cup EvictedOfPrevious(s, h)
           E == Extend(stored, h.ratchet, chain, 0, number)
           V == EvictedBy(stored, h.ratchet, chain, 0, number)
           lost == dropped \cup V
           t == RatchetStep(s, h, fresh)
<1>1. /\ Peer(p) \in Party /\ Peer(Peer(p)) = p /\ IsSession(s) /\ IsSession(r)
      /\ f \in Frame /\ h \in Header
      /\ SealedInOrder(Peer(p), r, frames) /\ SealedKeysUsed(Peer(p), r, frames)
      /\ SealedKeysUsed(p, s, sent[p])
      /\ NoGaps(s, sent[p]) /\ NoGaps(r, frames) /\ Kept(s, frames, evicted[p])
  BY PeerOfPeer DEF TypeOK, Frame, InStepInv, OnceInv, LimitsInv
<1>2. /\ Ahead(r, s)
      /\ chain = r.root_key
      /\ f.key.chain = r.root_key
      /\ h.ratchet = r.own_ratchet
      /\ h.previous_chain_len = r.previous_sending_len
      /\ number = f.key.number
  BY StepFollowsPeer DEF DecryptAfterRatchetStep
<1>3. /\ IsDeque(stored) /\ dropped \in SUBSET MessageKey
      /\ StoreInOrder(p, s.root_key, stored, dropped)
      /\ \A key \in Keys(stored) \cup dropped :
           Len(key.chain) <= Len(s.root_key) /\ Len(key.chain) % 2 = 1 - Turn(p)
  BY <1>1, <1>2, PreviousDelivered
<1>4. /\ Keys(stored) \subseteq SealedKeys(frames \ {f})
      /\ LimitsSuffice(frames) => EvictedOfPrevious(s, h) = {}
  BY <1>1, <1>2, PreviousKept DEF DecryptAfterRatchetStep, AfterRatchetStep
<1>5. /\ number \in Nat /\ h.ratchet \in PublicKey /\ chain \in RootKey /\ s.root_key \in RootKey
  BY <1>1, <1>2 DEF Header, IsSession
<1>6. /\ Len(chain) = Len(s.root_key) + 1 /\ Len(s.root_key) \in Nat /\ Len(chain) \in Nat
      /\ \A c \in RootKey : IsPrefixOf(c, s.root_key) => IsPrefixOf(c, chain)
  BY <1>1, <1>2, AheadLength
<1>7. fresh \in PublicKey
  BY <1>1, RatchetStepType DEF PublicKey
<1>8. /\ t.root_key = KdfRoot(chain, fresh, h.ratchet) /\ t.skipped = E
      /\ t.sending = [key |-> t.root_key, next |-> 0]
      /\ t.previous_sending_len = PreviousSendingLen(s)
  BY DEF RatchetStep, ChainStart
<1>9. /\ session' = [session EXCEPT ![p] = t] /\ Returns(p, f)
      /\ evicted' = [evicted EXCEPT ![p] = lost]
  BY DEF DecryptAfterRatchetStep, TypeOK
<1>10. h.ratchet = RatchetOf(Peer(p), Len(chain))
  BY <1>1, <1>2 DEF SealedInOrder
<1>11. Len(chain) % 2 = 1 - Turn(p)
  <2>1. Len(s.root_key) % 2 = Turn(p)
    BY <1>1 DEF SealedKeysUsed
  <2>2. (Len(s.root_key) + 1) % 2 = 1 - Turn(p)
    <3> HIDE DEF s
    <3> QED BY <1>6, <2>1, NextTurn
  <2> QED BY <1>6, <2>2, Zenon
<1>12. \A key : key \in Keys(E) \cup V
                  <=> key \in Keys(stored) \/ \E n \in 0..number - 1 : key = KeyOf(chain, n)
  <2> HIDE DEF stored, chain, number
  <2> QED BY <1>3, <1>5, ExtendAccounts
<1> HIDE DEF t, E, V, fresh, chain, stored, dropped, number, s, r, h
<1>13. \A n \in 0..number - 1 : KeyOf(chain, n) \in SealedKeys(frames \ {f})
  <2> SUFFICES ASSUME NEW n \in 0..number - 1 PROVE KeyOf(chain, n) \in SealedKeys(frames \ {f})
    OBVIOUS
  <2>1. KeyOf(chain, n) \in SealedKeys(frames)
    BY <1>1, <1>2 DEF NoGaps
  <2>2. KeyOf(chain, n) # f.key
    BY <1>2, <1>5 DEF KeyOf
  <2> QED BY <2>1, <2>2 DEF SealedKeys
<1>14. t.root_key \in RootKey /\ Len(t.root_key) = Len(chain) + 1
       /\ IsPrefixOf(chain, t.root_key)
       /\ \A c \in RootKey : IsPrefixOf(c, chain) => IsPrefixOf(c, t.root_key)
  BY <1>5, <1>7, <1>8, PrefixOfNext
<1>15. LimitsSuffice(frames) => V = {}
  <2>1. StoreInOrder(p, t.root_key, stored, dropped)
    <3>1. \A i \in DOMAIN stored : stored[i].key.chain \in RootKey
      BY <1>3 DEF IsDeque, SkippedKey, MessageKey
    <3> QED BY <1>3, <1>6, <1>14, <3>1 DEF StoreInOrder
  <2>2. ASSUME NEW key \in Keys(stored) \cup dropped PROVE key.chain # chain
    <3>1. Len(key.chain) <= Len(s.root_key)
      BY <1>3, Zenon
    <3> QED BY <1>6, <3>1
  <2>3. /\ \A i \in DOMAIN stored : stored[i].key.chain = chain => stored[i].key.number < 0
        /\ \A key \in dropped : key.chain = chain => key.number < 0
    BY <2>2 DEF Keys
  <2>4. \A i \in DOMAIN stored : Len(stored[i].key.chain) % 2 = Len(chain) % 2
    <3>1. \A i \in DOMAIN stored : stored[i].key \in Keys(stored)
      BY DEF Keys
    <3>2. \A i \in DOMAIN stored : Len(stored[i].key.chain) % 2 = 1 - Turn(p)
      BY <1>3, <3>1
    <3> QED BY <1>11, <3>2, Zenon
  <2>5. IsFiniteSet(frames)
    BY <1>1 DEF NoGaps
  <2> QED BY <1>3, <1>4, <1>5, <1>10, <1>13, <1>14, <2>1, <2>3, <2>4, <2>5, ExtendFits DEF V
<1>16. Kept(t, frames, lost)
  <2>1. Keys(E) \subseteq SealedKeys(frames)
    BY <1>4, <1>12, <1>13 DEF SealedKeys
  <2>2. LimitsSuffice(frames) => lost = {}
    BY <1>1, <1>4, <1>15 DEF Kept, dropped
  <2> QED BY <1>8, <2>1, <2>2 DEF Kept
<1>17. t.sending # None /\ t.sending.next = 0
  <2>1. t.sending \in Chain
    BY <1>8, <1>14 DEF Chain
  <2> QED BY <1>8, <2>1, NoneAssumption
<1>18. NoGaps(t, sent[p])
  <2>1. Len(t.root_key) >= 1 /\ Len(t.root_key) - 2 = Len(s.root_key)
    BY <1>6, <1>14
  <2>2. /\ t.previous_sending_len <= CHAIN_LIMIT
        /\ \A n \in 0..t.previous_sending_len - 1 :
             \E g \in OnChain(sent[p], Len(s.root_key)) : g.key.number = n
    <3>1. CASE s.sending = None
      BY <1>8, <3>1, LimitsAssumption DEF PreviousSendingLen
    <3>2. CASE s.sending # None
      <4>1. t.previous_sending_len = s.sending.next /\ s.sending.next <= CHAIN_LIMIT
        BY <1>1, <1>8, <3>2 DEF PreviousSendingLen, NoGaps
      <4>2. ASSUME NEW n \in 0..s.sending.next - 1
            PROVE  \E g \in OnChain(sent[p], Len(s.root_key)) : g.key.number = n
        <5>1. PICK g \in sent[p] : g.key = KeyOf(s.root_key, n)
          BY <1>1, <3>2 DEF NoGaps, SealedKeys
        <5>2. g.key.chain = s.root_key /\ g.key.number = n
          BY <5>1 DEF KeyOf
        <5> QED BY <5>2 DEF OnChain
      <4> QED BY <4>1, <4>2
    <3> QED BY <3>1, <3>2
  <2>3. t.sending.next <= CHAIN_LIMIT /\ \A n \in 0..t.sending.next - 1 : FALSE
    BY <1>17, LimitsAssumption
  <2>4. \A n \in 0..t.previous_sending_len - 1 :
          \E g \in OnChain(sent[p], Len(t.root_key) - 2) : g.key.number = n
    BY <2>1, <2>2
  <2> QED BY <1>1, <2>1, <2>2, <2>3, <2>4 DEF NoGaps
<1> QED BY <1>9, <1>16, <1>17, <1>18, OpenLimits DEF frames

\* No step skips what was not sealed, or drops what there is room for.
LEMMA NextLimits ==
  TypeOK /\ OnceInv /\ InStepInv /\ DeliveryInv /\ LimitsInv /\ [Next]_vars => LimitsInv'
<1> SUFFICES ASSUME TypeOK, OnceInv, InStepInv, DeliveryInv, LimitsInv, [Next]_vars
             PROVE  LimitsInv'
  OBVIOUS
<1>1. CASE UNCHANGED vars
  BY <1>1 DEF vars, LimitsInv
<1>2. ASSUME NEW p \in Party, Encrypt(p) PROVE LimitsInv'
  BY <1>2, EncryptLimits
<1>3. ASSUME NEW p \in Party, EncryptRefused(p) PROVE LimitsInv'
  BY <1>1, <1>3 DEF EncryptRefused
<1>4. ASSUME NEW p \in Party, NEW g \in Carried, NEW f \in {g} \cup Damaged(g), Decrypt(p, f)
      PROVE  LimitsInv'
  <2>1. CASE DecryptSkipped(p, f)
    BY <2>1, DecryptSkippedLimits
  <2>2. CASE DecryptInReceivingChain(p, f)
    BY <2>2, DecryptReturns, DecryptInReceivingChainLimits
  <2>3. CASE DecryptAfterRatchetStep(p, f)
    BY <2>3, DecryptReturns, DecryptAfterRatchetStepLimits
  <2>4. CASE DecryptRefused(p, f)
    BY <1>1, <2>4 DEF DecryptRefused
  <2> QED BY <1>4, <2>1, <2>2, <2>3, <2>4 DEF Decrypt
<1> QED BY <1>1, <1>2, <1>3, <1>4 DEF Next

\* A session stores keys of frames that were sealed and no others, whatever numbers
\* damaged frames name, and drops none while there is room for all of them.
THEOREM LimitsInvariant ==
  Spec => [](TypeOK /\ OnceInv /\ InStepInv /\ DeliveryInv /\ LimitsInv)
<1>1. Init => LimitsInv
  BY InitLimits
<1>2. TypeOK /\ OnceInv /\ InStepInv /\ DeliveryInv /\ LimitsInv /\ [Next]_vars => LimitsInv'
  BY NextLimits
<1> QED BY <1>1, <1>2, DeliveryInvariant, PTL DEF Spec

\* A genuine frame is never refused for its ratchet key.
LEMMA GenuineAnswers ==
  ASSUME TypeOK, OnceInv, InStepInv, NEW p \in Party, NEW f \in sent[Peer(p)]
  PROVE  Answer(p, f) \in {"Ok", "Authentication", "TooFarAhead"}
<1> DEFINE s == session[p]
           fresh == Generate(s.own_ratchet)
<1>1. /\ Peer(p) \in Party /\ IsSession(s) /\ f \in Frame
      /\ SealedKeysUsed(Peer(p), session[Peer(p)], sent[Peer(p)])
      /\ SealedInOrder(Peer(p), session[Peer(p)], sent[Peer(p)])
  BY PeerOfPeer DEF TypeOK, OnceInv, InStepInv
<1>2. fresh # None
  <2>1. fresh \in RatchetKey
    BY <1>1, RatchetStepType DEF Frame
  <2> QED BY <2>1, KeysAssumption
<1>3. f.header.ratchet # LowOrder
  <2>1. f.key \in MessageKey /\ f.header.ratchet = RatchetOf(Peer(p), Len(f.key.chain))
    BY <1>1 DEF SealedKeysUsed, SealedInOrder
  <2>2. Len(f.key.chain) \in Nat
    BY <2>1, LenProperties DEF MessageKey, RootKey
  <2> QED BY <1>1, <2>1, <2>2, RatchetOfNext, KeysAssumption
<1>4. \A key : OpenResult(key, f) \in {"Ok", "Authentication"}
  BY DEF OpenResult
<1>5. \A next, number : NumberResult(next, number) \in {"Ok", "Authentication", "TooFarAhead"}
  BY DEF NumberResult, SkipTo
<1>6. SkippedResult(s, f) \in {"Ok", "Authentication"}
  BY <1>4 DEF SkippedResult
<1>7. ReceivingResult(s, f) \in {"Ok", "Authentication", "TooFarAhead"}
  BY <1>4, <1>5 DEF ReceivingResult
<1>8. StepResult(s, f, fresh) \in {"Ok", "Authentication", "TooFarAhead"}
  <2>1. PreviousResult(s, f) \in {"Ok", "TooFarAhead"}
    BY DEF PreviousResult, SkipTo
  <2> HIDE DEF fresh
  <2> QED BY <1>2, <1>3, <1>4, <1>5, <2>1 DEF StepResult
<1>9. IsSkipped(s, f) \/ InReceivingChain(s, f) \/ AfterRatchetStep(s, f)
  BY DEF InReceivingChain, AfterRatchetStep
<1> HIDE DEF s
<1> QED BY <1>6, <1>7, <1>8, <1>9, AnswerFrom DEF Answer, s, fresh

\* Where the limits suffice no genuine frame is out of reach: it skips only numbers
\* that were sealed on its own chain or on the one before.
LEMMA NeverTooFar ==
  ASSUME TypeOK, OnceInv, InStepInv, LimitsInv, NEW p \in Party, NEW f \in sent[Peer(p)],
         LimitsSuffice(sent[Peer(p)])
  PROVE  Answer(p, f) # "TooFarAhead"
<1> DEFINE s == session[p]
           fresh == Generate(s.own_ratchet)
           frames == sent[Peer(p)]
           number == f.header.message_number
           until == f.header.previous_chain_len
           length == Len(f.key.chain)
<1>1. /\ Peer(p) \in Party /\ IsSession(s) /\ f \in Frame /\ f \in frames
      /\ SealedKeysUsed(Peer(p), session[Peer(p)], frames)
      /\ SealedInOrder(Peer(p), session[Peer(p)], frames)
      /\ NoGaps(session[Peer(p)], frames)
  BY PeerOfPeer DEF TypeOK, OnceInv, InStepInv, LimitsInv
<1>2. /\ f.key \in MessageKey /\ number = f.key.number /\ number < CHAIN_LIMIT
      /\ until <= CHAIN_LIMIT /\ number \in Nat /\ until \in Nat
  BY <1>1 DEF SealedKeysUsed, SealedInOrder, NoGaps, Frame, Header
<1>3. length \in Nat
  BY <1>2, LenProperties DEF MessageKey, RootKey
<1>4. /\ IsFiniteSet(frames \ {f})
      /\ \A n \in Nat : Cardinality(OnChain(frames \ {f}, n)) <= MAX_SKIP_PER_CHAIN
      /\ \A n : Cardinality(OnChain(frames \ {f}, n)) \in Nat
  <2>1. IsFiniteSet(frames \ {f})
    BY <1>1, FS_RemoveElement DEF NoGaps
  <2>2. \A n : OnChain(frames \ {f}, n) \in SUBSET (frames \ {f})
    BY DEF OnChain
  <2>3. \A n : Cardinality(OnChain(frames \ {f}, n)) \in Nat
    BY <2>1, <2>2, FS_Subset, FS_CardinalityType
  <2> QED BY <1>1, <2>1, <2>3 DEF LimitsSuffice
<1>5. number <= MAX_SKIP_PER_CHAIN
  <2>1. ASSUME NEW n \in 0..number - 1
        PROVE  \E g \in OnChain(frames \ {f}, length) : g.key.number = n
    <3>1. PICK g \in frames : g.key = KeyOf(f.key.chain, n)
      BY <1>1, <1>2 DEF NoGaps, SealedKeys
    <3>2. g.key.chain = f.key.chain /\ g.key.number = n
      BY <3>1 DEF KeyOf
    <3>3. g # f
      BY <1>2, <3>2
    <3> QED BY <3>2, <3>3 DEF OnChain
  <2> HIDE DEF frames, number, length
  <2>2. number - 0 <= Cardinality(OnChain(frames \ {f}, length))
    BY <1>2, <1>4, <2>1, NumbersFewer
  <2> QED BY <1>2, <1>3, <1>4, <2>2, LimitsAssumption
<1>6. until <= MAX_SKIP_PER_CHAIN
  <2>1. ASSUME NEW n \in 0..until - 1
        PROVE  \E g \in OnChain(frames \ {f}, length - 2) : g.key.number = n
    <3>1. PICK g \in OnChain(frames, length - 2) : g.key.number = n
      BY <1>1 DEF NoGaps
    <3>2. g \in frames /\ Len(g.key.chain) = length - 2
      BY <3>1 DEF OnChain
    <3>3. g # f
      BY <1>3, <3>2
    <3> QED BY <3>1, <3>2, <3>3 DEF OnChain
  <2>2. until = 0 \/ length - 2 \in Nat
    <3> SUFFICES ASSUME until # 0 PROVE length - 2 \in Nat
      OBVIOUS
    <3>1. 0 \in 0..until - 1
      BY <1>2
    <3>2. PICK g \in OnChain(frames \ {f}, length - 2) : g.key.number = 0
      BY <2>1, <3>1
    <3>3. g \in frames /\ Len(g.key.chain) = length - 2
      BY <3>2 DEF OnChain
    <3>4. Len(g.key.chain) \in Nat
      BY <1>1, <3>3, LenProperties DEF SealedKeysUsed, MessageKey, RootKey
    <3> QED BY <3>3, <3>4
  <2> HIDE DEF frames, until, length
  <2>3. until - 0 <= Cardinality(OnChain(frames \ {f}, length - 2))
    BY <1>2, <1>4, <2>1, NumbersFewer
  <2> QED BY <1>2, <1>4, <2>2, <2>3, LimitsAssumption
<1>7. \A next \in Nat : /\ NumberResult(next, number) \in {"Ok", "Authentication"}
                        /\ SkipTo(next, until) = "Ok"
  <2> HIDE DEF number, until
  <2> SUFFICES ASSUME NEW next \in Nat
               PROVE  NumberResult(next, number) \in {"Ok", "Authentication"} /\ SkipTo(next, until) = "Ok"
    OBVIOUS
  <2>1. /\ ~(number >= CHAIN_LIMIT) /\ ~(number > CHAIN_LIMIT) /\ ~(until > CHAIN_LIMIT)
        /\ ~(number - next > MAX_SKIP_PER_CHAIN) /\ ~(until - next > MAX_SKIP_PER_CHAIN)
    BY <1>2, <1>5, <1>6, LimitsAssumption
  <2> QED BY <2>1 DEF NumberResult, SkipTo
<1>8. s.receiving # None => s.receiving.next \in Nat
  BY <1>1 DEF IsSession, Chain
<1>9. \A key : OpenResult(key, f) \in {"Ok", "Authentication"}
  BY DEF OpenResult
<1>10. SkippedResult(s, f) # "TooFarAhead"
  BY <1>9 DEF SkippedResult
<1>11. ReceivingResult(s, f) # "TooFarAhead"
  BY <1>7, <1>8, <1>9 DEF ReceivingResult
<1>12. StepResult(s, f, fresh) # "TooFarAhead"
  <2>1. PreviousResult(s, f) = "Ok"
    BY <1>7, <1>8 DEF PreviousResult
  <2>2. NumberResult(0, number) \in {"Ok", "Authentication"}
    BY <1>7
  <2> HIDE DEF fresh
  <2> QED BY <1>9, <2>1, <2>2 DEF StepResult
<1>13. IsSkipped(s, f) \/ InReceivingChain(s, f) \/ AfterRatchetStep(s, f)
  BY DEF InReceivingChain, AfterRatchetStep
<1> HIDE DEF s
<1> QED BY <1>10, <1>11, <1>12, <1>13, AnswerFrom DEF Answer, s, fresh

\* Where the limits suffice, a genuine frame opens the first time and is refused as a
\* replay from then on.
LEMMA AnswersWithinLimits ==
  ASSUME TypeOK, OnceInv, InStepInv, LimitsInv, OpensUnlessEvicted, OpensAtMostOnce,
         NEW p \in Party, LimitsSuffice(sent[Peer(p)]), NEW f \in sent[Peer(p)]
  PROVE  Answer(p, f) = IF f \in opened[p] THEN "Authentication" ELSE "Ok"
<1>1. Answer(p, f) \in {"Ok", "Authentication"}
  BY GenuineAnswers, NeverTooFar
<1>2. CASE f \in opened[p]
  BY <1>1, <1>2 DEF OpensAtMostOnce
<1>3. CASE f \notin opened[p]
  <2>1. evicted[p] = {}
    BY DEF LimitsInv, Kept
  <2>2. Answer(p, f) \in {"Ok", "TooFarAhead"}
    BY <1>3, <2>1 DEF OpensUnlessEvicted
  <2> QED BY <1>1, <1>3, <2>2
<1> QED BY <1>2, <1>3

\* A frame of one's own chains is known by its chain's length and its number.
LEMMA KnownByNumber ==
  ASSUME TypeOK, OnceInv, InStepInv, NEW q \in Party, NEW f \in sent[q], NEW g \in sent[q],
         Len(f.key.chain) = Len(g.key.chain), f.key.number = g.key.number
  PROVE  f = g
<1>1. /\ f.key \in MessageKey /\ g.key \in MessageKey /\ session[q].root_key \in RootKey
      /\ IsPrefixOf(f.key.chain, session[q].root_key)
      /\ IsPrefixOf(g.key.chain, session[q].root_key)
      /\ f.key = g.key => f = g
  <2>1. /\ IsSession(session[q]) /\ SealedKeysUsed(q, session[q], sent[q])
        /\ SealedInOrder(q, session[q], sent[q])
    BY DEF TypeOK, OnceInv, InStepInv
  <2>2. session[q].root_key \in RootKey
    BY <2>1 DEF IsSession
  <2>3. f.key \in MessageKey /\ g.key \in MessageKey
    BY <2>1 DEF SealedKeysUsed
  <2> QED BY <2>1, <2>2, <2>3 DEF SealedInOrder
<1>2. f.key.chain = g.key.chain
  BY <1>1, SamePrefix DEF MessageKey
<1> QED BY <1>1, <1>2 DEF MessageKey

\* Skip limits that a whole conversation fits in suffice.
LEMMA WholeConversationFits ==
  ASSUME TypeOK, OnceInv, InStepInv, LimitsInv, NEW q \in Party,
         CHAIN_LIMIT <= MAX_SKIP_PER_CHAIN, MaxChains * CHAIN_LIMIT <= MAX_SKIPPED_TOTAL
  PROVE  LimitsSuffice(sent[q])
<1> DEFINE frames == sent[q]
           numbers == 0..CHAIN_LIMIT - 1
           chains == 1..MaxChains
<1>1. IsFiniteSet(frames)
  BY DEF LimitsInv, NoGaps
<1>2. /\ CHAIN_LIMIT \in Nat /\ MAX_SKIP_PER_CHAIN \in Nat /\ MAX_SKIPPED_TOTAL \in Nat
      /\ MaxChains \in Nat
  BY LimitsAssumption, BoundAssumption
<1>3. IsFiniteSet(numbers) /\ Cardinality(numbers) = CHAIN_LIMIT
  BY <1>2, FS_Interval
<1>4. IsFiniteSet(chains) /\ Cardinality(chains) = MaxChains
  BY <1>2, FS_Interval
<1>5. \A f \in frames : f.key.number \in numbers /\ Len(f.key.chain) \in chains
  <2>1. \A f \in frames : f.key \in MessageKey
    BY DEF OnceInv, SealedKeysUsed
  <2>2. \A f \in frames : f.key.number \in Nat /\ f.key.number < CHAIN_LIMIT
    BY <2>1 DEF LimitsInv, NoGaps, MessageKey
  <2>3. \A f \in frames : Len(f.key.chain) \in chains
    BY DEF LimitsInv, NoGaps
  <2> HIDE DEF frames, chains
  <2> QED BY <1>2, <2>2, <2>3
<1>6. \A f, g \in frames :
        Len(f.key.chain) = Len(g.key.chain) /\ f.key.number = g.key.number => f = g
  BY KnownByNumber
<1> HIDE DEF frames, numbers, chains
<1>7. ASSUME NEW T \in SUBSET frames
      PROVE  Cardinality(T) <= MAX_SKIPPED_TOTAL
  <2> DEFINE place == [f \in T |-> <<Len(f.key.chain), f.key.number>>]
  <2>1. IsFiniteSet(chains \X numbers) /\ Cardinality(chains \X numbers) = MaxChains * CHAIN_LIMIT
    BY <1>3, <1>4, FS_Product
  <2>2. place \in [T -> chains \X numbers]
    BY <1>5
  <2>3. \A f, g \in T : place[f] = place[g] => f = g
    BY <1>6
  <2> HIDE DEF place
  <2>4. Cardinality(T) <= Cardinality(chains \X numbers) /\ Cardinality(T) \in Nat
    BY <2>1, <2>2, <2>3, NoMoreThan
  <2>5. MaxChains * CHAIN_LIMIT \in Nat
    BY <1>2
  <2> QED BY <1>2, <2>1, <2>4, <2>5
<1>8. ASSUME NEW T \in SUBSET frames, NEW length \in Nat
      PROVE  Cardinality(OnChain(T, length)) <= MAX_SKIP_PER_CHAIN
  <2> DEFINE S == OnChain(T, length)
             place == [f \in S |-> f.key.number]
  <2>1. \A f \in S : f \in frames /\ Len(f.key.chain) = length
    BY DEF OnChain
  <2> HIDE DEF S
  <2>2. place \in [S -> numbers]
    BY <1>5, <2>1
  <2>3. \A f, g \in S : place[f] = place[g] => f = g
    BY <1>6, <2>1
  <2> HIDE DEF place
  <2>4. Cardinality(S) <= Cardinality(numbers) /\ Cardinality(S) \in Nat
    BY <1>3, <2>2, <2>3, NoMoreThan
  <2> QED BY <1>2, <1>3, <2>4 DEF S
<1> QED BY <1>7, <1>8 DEF LimitsSuffice, frames

\* So do the limits of which a party has sealed fewer frames.
LEMMA FewFramesFit ==
  ASSUME TypeOK, LimitsInv, NEW q \in Party,
         sealed[q] <= MAX_SKIP_PER_CHAIN + 1, sealed[q] <= MAX_SKIPPED_TOTAL + 1
  PROVE  LimitsSuffice(sent[q])
<1> SUFFICES ASSUME NEW f \in sent[q]
             PROVE  /\ Cardinality(sent[q] \ {f}) <= MAX_SKIPPED_TOTAL
                    /\ \A length \in Nat :
                         Cardinality(OnChain(sent[q] \ {f}, length)) <= MAX_SKIP_PER_CHAIN
  BY DEF LimitsSuffice
<1> DEFINE others == sent[q] \ {f}
<1>1. IsFiniteSet(sent[q]) /\ Cardinality(sent[q]) = sealed[q] /\ sealed[q] \in Nat
  BY DEF LimitsInv, NoGaps, TypeOK
<1>2. IsFiniteSet(others) /\ Cardinality(others) = sealed[q] - 1
  BY <1>1, FS_RemoveElement
<1>3. MAX_SKIP_PER_CHAIN \in Nat /\ MAX_SKIPPED_TOTAL \in Nat
  BY LimitsAssumption
<1> HIDE DEF others
<1>4. ASSUME NEW length \in Nat
      PROVE  Cardinality(OnChain(others, length)) <= MAX_SKIP_PER_CHAIN
  <2>1. OnChain(others, length) \in SUBSET others
    BY DEF OnChain
  <2>2. /\ Cardinality(OnChain(others, length)) <= Cardinality(others)
        /\ Cardinality(OnChain(others, length)) \in Nat
    BY <1>2, <2>1, FS_Subset, FS_CardinalityType
  <2> QED BY <1>1, <1>2, <1>3, <2>2
<1>5. Cardinality(others) <= MAX_SKIPPED_TOTAL
  BY <1>1, <1>2, <1>3
<1> QED BY <1>4, <1>5 DEF others

\* decrypt's answers as long as the limits suffice for what the peer has sealed.
WithinLimitsAnswers ==
  \A p \in Party : LimitsSuffice(sent[Peer(p)]) =>
    \A f \in sent[Peer(p)] : Answer(p, f) = IF f \in opened[p] THEN "Authentication" ELSE "Ok"

\* QW-P-E2E-060, 061, 062 as the tests and the fuzz target state them: whatever
\* arrived since and in whatever order, a genuine frame opens the first time and is
\* an authentication error from then on, as long as what the peer has sealed fits
\* the store.
THEOREM AnswersAreFinal == Spec => []WithinLimitsAnswers
<1>1. /\ TypeOK /\ OnceInv /\ InStepInv /\ DeliveryInv /\ LimitsInv
      /\ OpensUnlessEvicted /\ OpensAtMostOnce
      => WithinLimitsAnswers
  BY AnswersWithinLimits DEF WithinLimitsAnswers
<1> QED BY <1>1, LimitsInvariant, OpensUntilEvicted, AtMostOnce, PTL

\* QW-P-E2E-060, 061: with skip limits that a whole conversation fits in, any frame of
\* the peer's opens next, whatever else has arrived before it, damaged or not.
THEOREM UnopenedFramesOpen ==
  ASSUME CHAIN_LIMIT <= MAX_SKIP_PER_CHAIN, MaxChains * CHAIN_LIMIT <= MAX_SKIPPED_TOTAL
  PROVE  Spec => []EveryFrameOpens
<1>1. /\ TypeOK /\ OnceInv /\ InStepInv /\ DeliveryInv /\ LimitsInv
      /\ WithinLimitsAnswers
      => EveryFrameOpens
  <2> SUFFICES ASSUME TypeOK, OnceInv, InStepInv, LimitsInv, WithinLimitsAnswers,
                      NEW p \in Party, NEW f \in sent[Peer(p)] \ opened[p]
               PROVE  Answer(p, f) = "Ok"
    BY DEF EveryFrameOpens
  <2>1. Peer(p) \in Party
    BY PeerOfPeer
  <2>2. LimitsSuffice(sent[Peer(p)])
    BY <2>1, WholeConversationFits
  <2> QED BY <2>2 DEF WithinLimitsAnswers
<1> QED BY <1>1, LimitsInvariant, AnswersAreFinal, PTL

-----------------------------------------------------------------------------
(* The fuzz target: its inputs are too short for the limits to bind *)

\* What decrypt opens is a whole frame under the header it was sealed with.
LEMMA OpensWhole ==
  ASSUME TypeOK, NEW p \in Party, NEW g \in Frame, Answer(p, g) = "Ok"
  PROVE  g.key \in MessageKey /\ g.aad = g.header
<1> DEFINE s == session[p]
           fresh == Generate(s.own_ratchet)
           number == g.header.message_number
<1>1. /\ IsSession(s) /\ s.own_ratchet \in PublicKey /\ s.root_key \in RootKey
      /\ g.header.ratchet \in PublicKey /\ number \in Nat
  BY DEF TypeOK, IsSession, PublicKey, Frame, Header
<1> HIDE DEF s
<1>2. CASE IsSkipped(s, g)
  <2>1. SkippedResult(s, g) = "Ok"
    BY <1>2, AnswerFrom DEF Answer, s
  <2>2. \E i \in DOMAIN s.skipped : g.key = s.skipped[i].key /\ g.aad = g.header
    BY <1>1, <1>2, <2>1, SkippedOk
  <2>3. \A i \in DOMAIN s.skipped : s.skipped[i].key \in MessageKey
    BY <1>1 DEF IsSession, IsDeque, SkippedKey
  <2> QED BY <2>2, <2>3
<1>3. CASE InReceivingChain(s, g)
  <2>1. ReceivingResult(s, g) = "Ok"
    BY <1>3, AnswerFrom DEF Answer, s
  <2>2. /\ s.receiving \in Chain /\ g.key = KeyOf(s.receiving.key, number)
        /\ g.aad = g.header
    BY <1>1, <2>1, ReceivingOk
  <2> QED BY <1>1, <2>2 DEF Chain, KeyOf, MessageKey
<1>4. CASE AfterRatchetStep(s, g)
  <2> DEFINE chain == KdfRoot(s.root_key, s.own_ratchet, g.header.ratchet)
  <2>1. StepResult(s, g, fresh) = "Ok"
    BY <1>4, AnswerFrom DEF Answer, s
  <2>2. g.key = KeyOf(chain, number) /\ g.aad = g.header
    BY <2>1, StepOk
  <2>3. chain \in RootKey
    BY <1>1, KdfRootType
  <2> HIDE DEF chain
  <2> QED BY <1>1, <2>2, <2>3 DEF KeyOf, MessageKey
<1> QED BY <1>2, <1>3, <1>4 DEF InReceivingChain, AfterRatchetStep

\* QW-P-E2E-063: an altered frame opens nothing.
LEMMA TamperedRefused ==
  ASSUME TypeOK, OnceInv, NEW p \in Party, NEW f \in sent[Peer(p)]
  PROVE  ~TamperPanics(p, f)
<1> SUFFICES ASSUME NEW g \in Tampered(f), Answer(p, g) = "Ok" PROVE FALSE
  BY DEF TamperPanics
<1>1. PICK part \in Parts : g \in DamagedIn(f, part)
  BY DEF Tampered, Parts
<1>2. g # f
  BY DEF Tampered
<1>3. Peer(p) \in Party
  BY PeerOfPeer
<1>4. f \in Carried
  BY <1>3 DEF Carried, Party
<1>5. f \in Frame /\ f.aad = f.header
  BY <1>3 DEF TypeOK, OnceInv, SealedKeysUsed
<1>6. g \in Frame
  BY <1>1, <1>4, DamagedFrame
<1>7. g.key \in MessageKey /\ g.aad = g.header
  BY <1>6, OpensWhole
<1> QED BY <1>1, <1>2, <1>5, <1>7, WholeFrame

\* encrypt waits for nothing but Bob's first frame while a chain has room for all that
\* a party may seal.
LEMMA SendsUnlessBlocked ==
  ASSUME TypeOK, LimitsInv, NEW p \in Party, sealed[p] < CHAIN_LIMIT
  PROVE  ~SendPanics(p)
<1> DEFINE s == session[p]
           chain == OnChain(sent[p], Len(s.root_key))
<1>1. /\ IsSession(s) /\ Waits(p, s, opened[p]) /\ NoGaps(s, sent[p])
      /\ Cardinality(sent[p]) = sealed[p] /\ sealed[p] \in Nat
  BY DEF TypeOK, LimitsInv
<1>2. s.sending = None <=> p = "Bob" /\ ~bob_has_received
  BY <1>1 DEF Waits, bob_has_received
<1>3. s.sending # None => s.sending.next < CHAIN_LIMIT
  <2> SUFFICES ASSUME s.sending # None PROVE s.sending.next < CHAIN_LIMIT
    OBVIOUS
  <2>1. s.sending.next \in Nat /\ IsFiniteSet(sent[p])
    BY <1>1 DEF IsSession, Chain, NoGaps
  <2>2. ASSUME NEW n \in 0..s.sending.next - 1
        PROVE  \E g \in chain : g.key.number = n
    <3>1. PICK g \in sent[p] : g.key = KeyOf(s.root_key, n)
      BY <1>1 DEF NoGaps, SealedKeys
    <3>2. g.key.chain = s.root_key /\ g.key.number = n
      BY <3>1 DEF KeyOf
    <3> QED BY <3>2 DEF OnChain
  <2>3. /\ Cardinality(chain) <= Cardinality(sent[p]) /\ Cardinality(chain) \in Nat
    <3>1. chain \in SUBSET sent[p]
      BY DEF OnChain
    <3> HIDE DEF chain
    <3> QED BY <2>1, <3>1, FS_Subset, FS_CardinalityType
  <2> HIDE DEF s
  <2>4. s.sending.next - 0 <= Cardinality(chain)
    BY <2>1, <2>2, NumbersFewer
  <2> HIDE DEF chain
  <2> QED BY <1>1, <2>1, <2>3, <2>4, LimitsAssumption
<1>4. CanSend(s) <=> ~(p = "Bob" /\ ~bob_has_received)
  BY <1>2, <1>3 DEF CanSend
<1> QED BY <1>4 DEF SendPanics, CanSend

\* QW-F-E2E-082: no input makes an assertion of the fuzz target fail, because one of
\* MAX_ACTIONS actions reaches neither the end of a chain nor, with two actions spent
\* on the frame that skips the others and on its arrival, a skip limit.
THEOREM NoInputPanics ==
  ASSUME MAX_ACTIONS <= CHAIN_LIMIT,
         MAX_ACTIONS - 2 <= MAX_SKIP_PER_CHAIN, MAX_ACTIONS - 2 <= MAX_SKIPPED_TOTAL
  PROVE  Spec => []HarnessNeverPanics
<1>1. /\ TypeOK /\ OnceInv /\ InStepInv /\ DeliveryInv /\ LimitsInv
      /\ WithinLimitsAnswers
      => HarnessNeverPanics
  <2> SUFFICES ASSUME TypeOK, OnceInv, LimitsInv, WithinLimitsAnswers, ActionsLeft,
                      NEW p \in Party
               PROVE  /\ ~SendPanics(p)
                      /\ \A f \in sent[Peer(p)] : ~DeliverPanics(p, f) /\ ~TamperPanics(p, f)
    BY DEF HarnessNeverPanics
  <2>1. /\ Peer(p) \in Party
        /\ \A q \in Party : sealed[q] \in Nat /\ sealed[q] < MAX_ACTIONS
    BY PeerOfPeer, HarnessAssumption DEF TypeOK, ActionsLeft, Party
  <2>2. \A q \in Party : /\ sealed[q] < CHAIN_LIMIT
                         /\ sealed[q] <= MAX_SKIP_PER_CHAIN + 1
                         /\ sealed[q] <= MAX_SKIPPED_TOTAL + 1
    BY <2>1, HarnessAssumption, LimitsAssumption
  <2>3. ~SendPanics(p)
    BY <2>2, SendsUnlessBlocked
  <2>4. LimitsSuffice(sent[Peer(p)])
    BY <2>1, <2>2, FewFramesFit
  <2>5. \A f \in sent[Peer(p)] : ~DeliverPanics(p, f)
    BY <2>4 DEF WithinLimitsAnswers, DeliverPanics
  <2>6. \A f \in sent[Peer(p)] : ~TamperPanics(p, f)
    BY TamperedRefused
  <2> QED BY <2>3, <2>5, <2>6
<1> QED BY <1>1, LimitsInvariant, AnswersAreFinal, PTL

=============================================================================
