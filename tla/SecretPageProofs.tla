--------------------------- MODULE SecretPageProofs ---------------------------
(***************************************************************************)
(* The promises of SecretPage, for any number of blocks, keys and pages.   *)
(***************************************************************************)
EXTENDS SecretPage, TLAPS

\* The bytes of a key are there only between its write and its wipe, and its lock
\* spans all of that: from before the write to after the wipe.
LifeOfAKey ==
  \A b \in Block :
    /\ block[b].state \in {"free", "new", "wiped", "unlocked"} => block[b].bytes = Zeroed
    /\ block[b].state \in {"free", "unlocked"} => ~block[b].ram_lock
    /\ block[b].ram_lock => page_size = "small"

\* A key that was locked is locked still, or its bytes are gone.
PromiseKept == \A b \in promised : block[b].bytes # Zeroed => block[b].ram_lock

PageInv ==
  TypeOK /\ LifeOfAKey /\ PromiseKept /\ LockedKeysNeverSwap /\ NoLockOutlivesItsKey

-----------------------------------------------------------------------------

\* The pages of two blocks are apart where blocks have pages of their own.
LEMMA PagesApart ==
  ASSUME page_size = "small", NEW b \in Block, NEW c \in Block, b # c
  PROVE  PagesOf(b) \cap PagesOf(c) = {}
BY DEF PagesOf

\* A lock that ends takes the pages of its own key and of no other.
LEMMA UnlockedPages ==
  ASSUME page_size = "small", NEW S \in SUBSET Block, NEW b \in S
  PROVE  (UNION {PagesOf(c) : c \in S}) \ PagesOf(b) = UNION {PagesOf(c) : c \in S \ {b}}
<1>1. \A c \in S \ {b} : PagesOf(b) \cap PagesOf(c) = {}
  BY PagesApart
<1>2. QED
  BY <1>1

LEMMA PagesArePages == ASSUME NEW b \in Block, page_size = "small" PROVE PagesOf(b) \subseteq Page
BY DEF PagesOf, Page

LEMMA InitPageInv == Init => PageInv
BY DEF Init, PageInv, TypeOK, LifeOfAKey, PromiseKept, LockedKeysNeverSwap,
       NoLockOutlivesItsKey

\* Who holds a lock, as NoLockOutlivesItsKey counts them.
Holders == {c \in Block : block[c].ram_lock}

LEMMA StepPageInv == PageInv /\ [Next]_vars => PageInv'
<1> SUFFICES ASSUME PageInv, [Next]_vars
             PROVE  PageInv'
  OBVIOUS
<1> USE DEF PageInv
<1>types. block \in [Block -> [state : {"free", "new", "live", "dropping", "wiped", "unlocked"},
                               bytes : Key \cup {Zeroed, Partial}, ram_lock : BOOLEAN]]
  BY DEF TypeOK
<1>locked. locked = UNION {PagesOf(c) : c \in Holders}
  BY DEF NoLockOutlivesItsKey, Holders
<1>1. ASSUME NEW b \in Block, New(b)
      PROVE  PageInv'
  <2>1. PICK granted \in BOOLEAN :
          LET lock == CoversWholePages /\ granted
          IN  /\ block' = [block EXCEPT ![b] =
                             [state |-> "new", bytes |-> Zeroed, ram_lock |-> lock]]
              /\ locked' = IF lock THEN locked \cup PagesOf(b) ELSE locked
              /\ promised' = IF lock THEN promised \cup {b} ELSE promised \ {b}
    BY <1>1 DEF New
  <2> DEFINE lock == CoversWholePages /\ granted
  <2>2. lock \in BOOLEAN /\ (lock => page_size = "small")
    BY DEF CoversWholePages
  <2>3. /\ block' = [block EXCEPT ![b] = [state |-> "new", bytes |-> Zeroed, ram_lock |-> lock]]
        /\ locked' = IF lock THEN locked \cup PagesOf(b) ELSE locked
        /\ promised' = IF lock THEN promised \cup {b} ELSE promised \ {b}
    BY <2>1
  <2> HIDE DEF lock
  <2>4. block[b].state = "free" /\ page_size' = page_size /\ swapped' = [swapped EXCEPT ![b] = {}]
    BY <1>1 DEF New
  <2>5. ~block[b].ram_lock
    BY <2>4 DEF LifeOfAKey
  <2>6. Holders' = IF lock THEN Holders \cup {b} ELSE Holders
    BY <1>types, <2>2, <2>3, <2>5 DEF Holders
  <2>7. \A c \in Block : PagesOf(c)' = PagesOf(c)
    BY <2>4 DEF PagesOf
  <2>8. NoLockOutlivesItsKey'
    <3>1. locked' = UNION {PagesOf(c) : c \in Holders'}
      BY <1>locked, <2>3, <2>6
    <3>2. Holders' \subseteq Block
      BY DEF Holders
    <3>3. locked' = UNION {PagesOf(c)' : c \in Holders'}
      BY <3>1, <3>2, <2>7
    <3>4. QED
      BY <3>3 DEF NoLockOutlivesItsKey, Holders
  <2>9. TypeOK'
    <3>1. locked' \subseteq Page /\ (page_size' = "large" => locked' = {})
      BY <2>2, <2>3, <2>4, PagesArePages DEF TypeOK
    <3>2. QED
      BY <1>types, <2>2, <2>3, <2>4, <3>1 DEF TypeOK
  <2>10. LifeOfAKey' /\ PromiseKept'
    BY <1>types, <2>2, <2>3, <2>4 DEF LifeOfAKey, PromiseKept, TypeOK
  <2>11. LockedKeysNeverSwap'
    BY <2>3, <2>4 DEF LockedKeysNeverSwap, TypeOK
  <2>12. QED
    BY <2>8, <2>9, <2>10, <2>11
<1>2. ASSUME NEW b \in Block,
             \/ \E key \in Key : Write(b, key)
             \/ WriteFails(b) \/ BeginDrop(b) \/ Wipe(b) \/ Release(b)
      PROVE  PageInv'
  <2>1. /\ UNCHANGED <<page_size, locked, promised, swapped>>
        /\ block[b].state # "free"
    BY <1>2 DEF Write, WriteFails, BeginDrop, Wipe, Release
  <2>2. block' \in [Block -> [state : {"free", "new", "live", "dropping", "wiped", "unlocked"},
                              bytes : Key \cup {Zeroed, Partial}, ram_lock : BOOLEAN]]
    BY <1>2, <1>types DEF Write, WriteFails, BeginDrop, Wipe, Release
  <2>3. /\ \A c \in Block : block'[c].ram_lock = block[c].ram_lock
        /\ \A c \in Block \ {b} : block'[c] = block[c]
    BY <1>2, <1>types DEF Write, WriteFails, BeginDrop, Wipe, Release
  <2>4. TypeOK'
    BY <2>1, <2>2 DEF TypeOK
  <2>5. NoLockOutlivesItsKey' /\ LockedKeysNeverSwap'
    <3>1. Holders' = Holders /\ \A c \in Block : PagesOf(c)' = PagesOf(c)
      BY <2>1, <2>3 DEF Holders, PagesOf
    <3>2. locked' = UNION {PagesOf(c)' : c \in Holders'}
      BY <1>locked, <2>1, <3>1 DEF Holders
    <3>3. QED
      BY <2>1, <3>2 DEF NoLockOutlivesItsKey, LockedKeysNeverSwap, Holders
  <2>6. /\ block'[b].state \in {"free", "new", "wiped", "unlocked"} => block'[b].bytes = Zeroed
        /\ block'[b].state \in {"free", "unlocked"} => ~block'[b].ram_lock
        /\ b \in promised /\ block'[b].bytes # Zeroed => block'[b].ram_lock
    <3>1. /\ block[b].state \in {"free", "new", "wiped", "unlocked"} => block[b].bytes = Zeroed
          /\ block[b].state \in {"free", "unlocked"} => ~block[b].ram_lock
          /\ b \in promised /\ block[b].bytes # Zeroed => block[b].ram_lock
      BY DEF LifeOfAKey, PromiseKept
    <3>2. QED
      BY <1>2, <1>types, <3>1 DEF Write, WriteFails, BeginDrop, Wipe, Release
  <2>7. LifeOfAKey' /\ PromiseKept'
    BY <2>1, <2>3, <2>6 DEF LifeOfAKey, PromiseKept, TypeOK
  <2>8. QED
    BY <2>4, <2>5, <2>7
<1>3. ASSUME NEW b \in Block, Unlock(b)
      PROVE  PageInv'
  <2>1. /\ block[b].state = "wiped"
        /\ block' = [block EXCEPT ![b].state = "unlocked", ![b].ram_lock = FALSE]
        /\ locked' = IF block[b].ram_lock THEN locked \ PagesOf(b) ELSE locked
        /\ UNCHANGED <<page_size, promised, swapped>>
    BY <1>3 DEF Unlock
  <2>2. Holders' = Holders \ {b} /\ \A c \in Block : PagesOf(c)' = PagesOf(c)
    BY <1>types, <2>1 DEF Holders, PagesOf
  <2>3. locked' = UNION {PagesOf(c) : c \in Holders \ {b}}
    <3>1. CASE block[b].ram_lock
      <4>1. page_size = "small" /\ Holders \in SUBSET Block /\ b \in Holders
        BY <3>1 DEF LifeOfAKey, Holders
      <4>2. QED
        BY <1>locked, <2>1, <3>1, <4>1, UnlockedPages
    <3>2. CASE ~block[b].ram_lock
      <4>1. Holders \ {b} = Holders
        BY <3>2 DEF Holders
      <4>2. QED
        BY <1>locked, <2>1, <3>2, <4>1
    <3>3. QED
      BY <3>1, <3>2
  <2>4. NoLockOutlivesItsKey'
    <3>1. Holders' \subseteq Block
      BY DEF Holders
    <3>2. locked' = UNION {PagesOf(c)' : c \in Holders'}
      BY <2>2, <2>3, <3>1
    <3>3. QED
      BY <3>2 DEF NoLockOutlivesItsKey, Holders
  <2>5. TypeOK'
    BY <1>types, <2>1 DEF TypeOK
  <2>6. LifeOfAKey' /\ PromiseKept'
    BY <1>types, <2>1 DEF LifeOfAKey, PromiseKept, TypeOK
  <2>7. QED
    BY <2>1, <2>4, <2>5, <2>6 DEF LockedKeysNeverSwap
<1>4. ASSUME NEW p \in Page, SwapOut(p)
      PROVE  PageInv'
  <2>1. /\ p \notin locked
        /\ swapped' = [b \in Block |->
             IF p \in PagesOf(b) THEN swapped[b] \cup ({block[b].bytes} \ {Zeroed})
             ELSE swapped[b]]
        /\ UNCHANGED <<page_size, block, locked, promised>>
    BY <1>4 DEF SwapOut
  <2>2. TypeOK'
    <3>1. swapped' \in [Block -> SUBSET (Key \cup {Partial})]
      BY <1>types, <2>1 DEF TypeOK
    <3>2. QED
      BY <2>1, <3>1 DEF TypeOK
  <2>3. ASSUME NEW b \in promised
        PROVE  swapped'[b] = {}
    <3>1. b \in Block /\ swapped[b] = {}
      BY DEF TypeOK, LockedKeysNeverSwap
    <3>2. p \in PagesOf(b) => block[b].bytes = Zeroed
      <4>1. block[b].ram_lock => PagesOf(b) \subseteq locked
        BY <1>locked, <3>1 DEF Holders
      <4>2. QED
        BY <2>1, <4>1 DEF PromiseKept
    <3>3. QED
      BY <2>1, <3>1, <3>2
  <2>4. NoLockOutlivesItsKey'
    BY <2>1 DEF NoLockOutlivesItsKey, PagesOf
  <2>5. QED
    BY <2>1, <2>2, <2>3, <2>4 DEF LifeOfAKey, PromiseKept, LockedKeysNeverSwap
<1>5. CASE UNCHANGED vars
  BY <1>5 DEF vars, TypeOK, LifeOfAKey, PromiseKept, LockedKeysNeverSwap,
              NoLockOutlivesItsKey, PagesOf
<1>6. QED
  BY <1>1, <1>2, <1>3, <1>4, <1>5 DEF Next

\* The facts above hold in every reachable state.
THEOREM PageInvariant == Spec => []PageInv
BY InitPageInv, StepPageInv, PTL DEF Spec

\* Blocks, locks and swap are well formed, for any number of keys.
THEOREM TypeCorrect == Spec => []TypeOK
<1>1. PageInv => TypeOK
  BY DEF PageInv
<1>2. QED
  BY <1>1, PageInvariant, PTL

\* A block that no key owns holds nothing of the key that was there.
THEOREM FreedAreWiped == Spec => []FreedBlocksAreWiped
<1>1. PageInv => FreedBlocksAreWiped
  BY DEF PageInv, LifeOfAKey, FreedBlocksAreWiped
<1>2. QED
  BY <1>1, PageInvariant, PTL

\* Dropping one key never unlocks another.
THEOREM LockedStay == Spec => []LockedKeysStayInRam
<1>1. PageInv => LockedKeysStayInRam
  BY DEF PageInv, NoLockOutlivesItsKey, LockedKeysStayInRam
<1>2. QED
  BY <1>1, PageInvariant, PTL

\* No bytes of a key that was reported as locked reach the swap.
THEOREM LockedNeverSwap == Spec => []LockedKeysNeverSwap
<1>1. PageInv => LockedKeysNeverSwap
  BY DEF PageInv
<1>2. QED
  BY <1>1, PageInvariant, PTL

\* The system gets every page back.
THEOREM LocksEnd == Spec => []NoLockOutlivesItsKey
<1>1. PageInv => NoLockOutlivesItsKey
  BY DEF PageInv
<1>2. QED
  BY <1>1, PageInvariant, PTL

=============================================================================
