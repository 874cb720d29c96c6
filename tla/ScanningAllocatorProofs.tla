----------------------- MODULE ScanningAllocatorProofs -----------------------
(***************************************************************************)
(* What the tests take from a count, for any threads, blocks, sizes,       *)
(* secrets, slots and numbers of watches and frees.                        *)
(***************************************************************************)
EXTENDS ScanningAllocator, FiniteSetTheorems, WellFoundedInduction, TLAPS

\* TypeOK, but for the bound of a count, and the types of the counters.
Types ==
  /\ slots \in [Slot -> [target : Target, unwiped_frees : Nat] \cup {None}]
  /\ Alive \subseteq 1 .. started /\ \A w \in Alive : watches[w] \in Slot
  /\ blocks \in [Block -> [state : {"free", "live", "freeing"}, size : Size,
                           holds : SUBSET Secret, since : SUBSET (1 .. started)]]
  /\ freeing \in [Thread -> [block : Block, inspected : BOOLEAN] \cup {None}]
  /\ started \in 0 .. MaxWatches
  /\ frees \in 0 .. MaxFrees
  /\ found \in [1 .. MaxWatches -> Nat]

Freeing == {t \in Thread : freeing[t] # None}
ToInspect == {t \in Freeing : ~freeing[t].inspected}

\* A block is freed by one thread at a time, and used by nobody until that ends.
FreeingInv ==
  /\ IsFiniteSet(Freeing)
  /\ \A t \in Freeing : blocks[freeing[t].block].state = "freeing"
  /\ \A t, u \in Freeing : freeing[t].block = freeing[u].block => t = u
  /\ \A b \in Block : blocks[b].state = "live" => blocks[b].since = {}

\* A watch has counted no more frees than have been inspected.
CountsInv ==
  /\ Cardinality(ToInspect) <= frees
  /\ \A i \in Slot \ Free : /\ Recognisable(slots[i].target)
                            /\ slots[i].unwiped_frees + Cardinality(ToInspect) <= frees

AllocatorInv ==
  /\ Types
  /\ FreeingInv
  /\ CountsInv
  /\ SlotsMatchWatches
  /\ NothingFreedUnseen
  /\ CountsOnlyItsOwnFrees

-----------------------------------------------------------------------------

\* Min picks an element of a non-empty set of naturals.
LEMMA MinOf ==
  ASSUME NEW T \in SUBSET Nat, T # {}
  PROVE  Min(T) \in T
<1> DEFINE R == {pair \in Nat \X Nat : pair[1] < pair[2]}
<1>1. IsWellFoundedOn(R, Nat)
  BY NatLessThanWellFounded DEF OpToRel
<1>2. \A x, y \in Nat : <<y, x>> \in R <=> y < x
  OBVIOUS
<1> HIDE DEF R
<1>3. PICK x \in T : \A y \in T : ~(<<y, x>> \in R)
  BY <1>1, WFMin, Zenon
<1>4. \A y \in T : ~(y < x)
  BY <1>2, <1>3
<1>5. \A y \in T : x <= y
  BY <1>4
<1> QED BY <1>3, <1>5 DEF Min

\* An inspection counts a block exactly if it is not wiped.
LEMMA LeftInIsUnwiped ==
  ASSUME NEW target \in Target, Recognisable(target), NEW block, block.holds \in SUBSET Secret
  PROVE  IsLeftIn(target, block) <=> Unwiped(target, block)
BY DEF Target, Recognisable, IsLeftIn, Contains, AllZero, Unwiped

\* The sets of threads that an invariant counts are finite.
LEMMA SomeThreads ==
  ASSUME FreeingInv, NEW T \in SUBSET Freeing
  PROVE  IsFiniteSet(T) /\ Cardinality(T) \in Nat
BY FS_Subset, FS_CardinalityType DEF FreeingInv

\* No watch is alive, no block in use, and nothing has been counted.
LEMMA InitAllocatorInv == Init => AllocatorInv
<1> SUFFICES ASSUME Init PROVE AllocatorInv
  OBVIOUS
<1>1. Min(Size) \in Size
  BY SizeAssumption, MinOf
<1>2. Types
  BY <1>1, BoundsAssumption DEF Init, Types, Alive, Slot
<1>3. Freeing = {} /\ ToInspect = {} /\ Free = Slot /\ Alive = {}
  BY DEF Init, Freeing, ToInspect, Free, Alive
<1>4. FreeingInv
  BY <1>3, FS_EmptySet DEF FreeingInv, Init
<1>5. CountsInv
  BY <1>3, FS_EmptySet DEF CountsInv, Init
<1>6. SlotsMatchWatches
  BY <1>3 DEF SlotsMatchWatches
<1>7. NothingFreedUnseen /\ CountsOnlyItsOwnFrees
  BY <1>3 DEF NothingFreedUnseen, CountsOnlyItsOwnFrees
<1> QED BY <1>2, <1>4, <1>5, <1>6, <1>7 DEF AllocatorInv

-----------------------------------------------------------------------------
(* Watches *)

\* A new watch takes a slot that no watch has, and has counted nothing.
LEMMA StartWatchStep ==
  ASSUME AllocatorInv, NEW target \in Target, StartWatch(target)
  PROVE  AllocatorInv'
<1> USE DEF AllocatorInv
<1> DEFINE index == Min(Free)
           new == started + 1
           slot == [target |-> target, unwiped_frees |-> 0]
<1>1. index \in Slot /\ slots[index] = None
  <2>1. Free \in SUBSET Nat /\ Free # {}
    BY DEF Free, Slot, StartWatch
  <2> QED BY <2>1, MinOf DEF Free
<1>2. /\ slots' = [slots EXCEPT ![index] = slot]
      /\ Alive' = Alive \cup {new}
      /\ \A w \in Alive' : watches'[w] = IF w = new THEN index ELSE watches[w]
      /\ started' = started + 1
      /\ found' = [found EXCEPT ![new] = 0]
      /\ UNCHANGED <<blocks, freeing, frees>>
  BY DEF StartWatch, Alive
<1> HIDE DEF index
<1>3. new \notin Alive /\ new \in 1..MaxWatches /\ 1..started \subseteq 1..started'
      /\ started' \in 0..MaxWatches
  BY <1>2, BoundsAssumption DEF StartWatch, Types
<1>4. slot \in [target : Target, unwiped_frees : Nat] /\ slot # None
  BY NoneAssumption
<1> HIDE DEF slot, new
<1>5. Types'
  <2>1. slots' \in [Slot -> [target : Target, unwiped_frees : Nat] \cup {None}]
    BY <1>1, <1>2, <1>4 DEF Types
  <2>2. Alive' \subseteq 1..started' /\ \A w \in Alive' : watches'[w] \in Slot
    <3>1. new \in 1..started' /\ Alive \subseteq 1..started
      BY <1>2, <1>3 DEF Types, new
    <3>2. Alive' \subseteq 1..started'
      BY <1>2, <1>3, <3>1
    <3>3. \A w \in Alive' : watches'[w] \in Slot
      BY <1>1, <1>2 DEF Types
    <3> QED BY <3>2, <3>3
  <2>3. blocks' \in [Block -> [state : {"free", "live", "freeing"}, size : Size,
                               holds : SUBSET Secret, since : SUBSET (1 .. started')]]
    BY <1>2, <1>3 DEF Types
  <2>4. found' \in [1 .. MaxWatches -> Nat]
    BY <1>2 DEF Types
  <2> QED BY <1>2, <1>3, <2>1, <2>2, <2>3, <2>4 DEF Types
<1>6. FreeingInv'
  BY <1>2 DEF FreeingInv, Freeing
<1>7. Slot \ Free' = (Slot \ Free) \cup {index}
  BY <1>1, <1>2, <1>4 DEF Free, Types
<1>8. CountsInv'
  <2>1. ToInspect' = ToInspect
    BY <1>2 DEF ToInspect, Freeing
  <2>2. Cardinality(ToInspect) \in Nat
    BY SomeThreads DEF ToInspect
  <2>3. Recognisable(slot.target) /\ slot.unwiped_frees = 0
    BY DEF StartWatch, slot
  <2>4. \A i \in Slot \ Free' : slots'[i] = slot \/ (i \in Slot \ Free /\ slots'[i] = slots[i])
    BY <1>2, <1>7 DEF Types
  <2>5. \A i \in Slot \ Free' : /\ Recognisable(slots'[i].target)
                               /\ slots'[i].unwiped_frees + Cardinality(ToInspect) <= frees
    BY <2>2, <2>3, <2>4 DEF CountsInv
  <2> QED BY <1>2, <2>1, <2>5 DEF CountsInv, Recognisable
<1>9. \A w \in Alive : watches[w] # index /\ slots[watches[w]] # None
  BY <1>1 DEF SlotsMatchWatches
<1>10. SlotsMatchWatches'
  <2>1. \A w \in Alive' : slots'[watches'[w]] # None
    BY <1>1, <1>2, <1>4, <1>9 DEF Types
  <2>2. \A v, w \in Alive' : watches'[v] = watches'[w] => v = w
    BY <1>2, <1>9 DEF SlotsMatchWatches
  <2>3. {watches'[w] : w \in Alive'} = {watches[w] : w \in Alive} \cup {index}
    BY <1>2, <1>3
  <2>4. Slot \ Free' = {watches'[w] : w \in Alive'}
    BY <1>7, <2>3 DEF SlotsMatchWatches
  <2> QED BY <2>1, <2>2, <2>4 DEF SlotsMatchWatches
<1>11. \A w \in Alive : watches'[w] = watches[w] /\ slots'[watches'[w]] = slots[watches[w]]
  BY <1>2, <1>3, <1>9 DEF Types
<1>12. NothingFreedUnseen'
  <2> SUFFICES ASSUME NEW b \in Block, NEW w \in blocks'[b].since \cap Alive',
                      Unwiped(slots'[watches'[w]].target, blocks'[b]),
                      ~ \E t \in Thread : /\ freeing'[t] # None
                                          /\ freeing'[t].block = b
                                          /\ ~freeing'[t].inspected
               PROVE  UnwipedFrees(w)' > 0
    BY DEF NothingFreedUnseen, Unwiped, UnwipedFrees
  <2>1. w \in Alive /\ w \in blocks[b].since
    <3>1. blocks[b].since \subseteq 1..started /\ new \notin 1..started
      BY DEF Types, new
    <3> QED BY <1>2, <3>1
  <2>2. UnwipedFrees(w) > 0
    BY <1>2, <1>11, <2>1 DEF NothingFreedUnseen
  <2> QED BY <1>11, <2>1, <2>2 DEF UnwipedFrees
<1>13. CountsOnlyItsOwnFrees'
  <2> DEFINE Own(w) == {t \in Thread : /\ freeing[t] # None
                                       /\ freeing[t].inspected
                                       /\ Unwiped(slots'[watches'[w]].target, blocks[freeing[t].block])}
  <2> SUFFICES ASSUME NEW w \in Alive' PROVE UnwipedFrees(w)' <= found'[w] + Cardinality(Own(w))
    BY <1>2 DEF CountsOnlyItsOwnFrees, Unwiped, UnwipedFrees
  <2>1. CASE w = new
    <3>1. Cardinality(Own(w)) \in Nat
      <4>1. Own(w) \in SUBSET Freeing
        BY DEF Freeing
      <4> QED BY <4>1, SomeThreads
    <3>2. UnwipedFrees(w)' = 0 /\ found'[w] = 0
      <4>1. slots'[watches'[w]] = slot
        BY <1>1, <1>2, <2>1 DEF Types
      <4>2. found'[w] = 0
        BY <1>2, <1>3, <2>1 DEF Types
      <4> QED BY <4>1, <4>2 DEF UnwipedFrees, slot
    <3> HIDE DEF Own
    <3> QED BY <3>1, <3>2
  <2>2. CASE w # new
    <3>1. w \in Alive
      BY <1>2, <2>2
    <3>2. Own(w) = {t \in Thread : /\ freeing[t] # None
                                   /\ freeing[t].inspected
                                   /\ Unwiped(slots[watches[w]].target, blocks[freeing[t].block])}
      BY <1>11, <3>1
    <3>3. UnwipedFrees(w)' = UnwipedFrees(w)
      BY <1>11, <3>1 DEF UnwipedFrees
    <3>4. found'[w] = found[w]
      BY <1>2, <2>2 DEF Types
    <3> HIDE DEF Own
    <3> QED BY <3>1, <3>2, <3>3, <3>4 DEF CountsOnlyItsOwnFrees
  <2> QED BY <2>1, <2>2
<1> QED BY <1>5, <1>6, <1>8, <1>10, <1>12, <1>13

\* A dropped watch frees its slot and no other.
LEMMA DropWatchStep ==
  ASSUME AllocatorInv, NEW dropped \in Alive, DropWatch(dropped)
  PROVE  AllocatorInv'
<1> USE DEF AllocatorInv
<1> DEFINE index == watches[dropped]
<1>1. /\ slots' = [slots EXCEPT ![index] = None]
      /\ watches' = Restrict(watches, Alive \ {dropped})
      /\ UNCHANGED <<started, blocks, freeing, frees, found>>
  BY DEF DropWatch
<1>2. Alive' = Alive \ {dropped} /\ \A w \in Alive' : watches'[w] = watches[w]
  BY <1>1 DEF Restrict, Alive
<1>3. index \in Slot /\ slots[index] # None
  BY DEF Types, SlotsMatchWatches
<1> HIDE DEF index
<1>4. Types'
  <2>1. slots' \in [Slot -> [target : Target, unwiped_frees : Nat] \cup {None}]
    BY <1>1 DEF Types
  <2> QED BY <1>1, <1>2, <2>1 DEF Types
<1>5. \A w \in Alive' : w \in Alive /\ watches[w] # index
  BY <1>2 DEF SlotsMatchWatches, index
<1>6. \A w \in Alive' : watches'[w] = watches[w] /\ slots'[watches'[w]] = slots[watches[w]]
  BY <1>1, <1>2, <1>5 DEF Types
<1>7. Slot \ Free' = (Slot \ Free) \ {index}
  BY <1>1, <1>3 DEF Free, Types
<1>8. FreeingInv'
  BY <1>1 DEF FreeingInv, Freeing
<1>9. CountsInv'
  <2>1. ToInspect' = ToInspect
    BY <1>1 DEF ToInspect, Freeing
  <2>2. \A i \in Slot \ Free' : i \in Slot \ Free /\ slots'[i] = slots[i]
    BY <1>1, <1>7 DEF Types
  <2> QED BY <1>1, <2>1, <2>2 DEF CountsInv, Recognisable
<1>10. SlotsMatchWatches'
  <2>1. \A w \in Alive' : slots'[watches'[w]] # None
    BY <1>5, <1>6 DEF SlotsMatchWatches
  <2>2. \A v, w \in Alive' : watches'[v] = watches'[w] => v = w
    BY <1>5, <1>6 DEF SlotsMatchWatches
  <2>3. {watches'[w] : w \in Alive'} = {watches[w] : w \in Alive} \ {index}
    <3>1. \A i : i \in {watches'[w] : w \in Alive'} => i \in {watches[w] : w \in Alive} \ {index}
      BY <1>5, <1>6
    <3>2. \A i : i \in {watches[w] : w \in Alive} \ {index} => i \in {watches'[w] : w \in Alive'}
      BY <1>2, <1>6 DEF index
    <3> QED BY <3>1, <3>2
  <2>4. Slot \ Free' = {watches'[w] : w \in Alive'}
    BY <1>7, <2>3 DEF SlotsMatchWatches
  <2> QED BY <2>1, <2>2, <2>4 DEF SlotsMatchWatches
<1>11. \A w \in Alive' : UnwipedFrees(w)' = UnwipedFrees(w)
  BY <1>6 DEF UnwipedFrees
<1>12. NothingFreedUnseen'
  <2> SUFFICES ASSUME NEW b \in Block, NEW w \in blocks'[b].since \cap Alive',
                      Unwiped(slots'[watches'[w]].target, blocks'[b]),
                      ~ \E t \in Thread : /\ freeing'[t] # None
                                          /\ freeing'[t].block = b
                                          /\ ~freeing'[t].inspected
               PROVE  UnwipedFrees(w)' > 0
    BY DEF NothingFreedUnseen, Unwiped, UnwipedFrees
  <2>1. UnwipedFrees(w) > 0
    BY <1>1, <1>5, <1>6 DEF NothingFreedUnseen
  <2> QED BY <1>11, <2>1
<1>13. CountsOnlyItsOwnFrees'
  <2> SUFFICES ASSUME NEW w \in Alive'
               PROVE  UnwipedFrees(w)' <= found'[w] +
                        Cardinality({t \in Thread : /\ freeing'[t] # None
                                                    /\ freeing'[t].inspected
                                                    /\ Unwiped(slots'[watches'[w]].target,
                                                               blocks'[freeing'[t].block])})
    BY DEF CountsOnlyItsOwnFrees, Unwiped, UnwipedFrees
  <2>1. UnwipedFrees(w) <= found[w] +
          Cardinality({t \in Thread : /\ freeing[t] # None
                                      /\ freeing[t].inspected
                                      /\ Unwiped(slots[watches[w]].target, blocks[freeing[t].block])})
    BY <1>5 DEF CountsOnlyItsOwnFrees
  <2>2. slots'[watches'[w]] = slots[watches[w]] /\ UnwipedFrees(w)' = UnwipedFrees(w)
    BY <1>6, <1>11
  <2> QED BY <1>1, <2>1, <2>2
<1> QED BY <1>4, <1>8, <1>9, <1>10, <1>12, <1>13

-----------------------------------------------------------------------------
(* Blocks *)

BlockRecord == [state : {"free", "live", "freeing"}, size : Size,
                holds : SUBSET Secret, since : SUBSET (1 .. started)]

\* Nothing is counted, and no watch is looking, while blocks are used.
LEMMA SlotsKept ==
  ASSUME Types, SlotsMatchWatches, UNCHANGED <<slots, watches, started>>
  PROVE  /\ SlotsMatchWatches'
         /\ Alive' = Alive /\ Free' = Free
         /\ \A w \in Alive : UnwipedFrees(w)' = UnwipedFrees(w)
<1>1. Alive' = Alive /\ Free' = Free
  BY DEF Alive, Free
<1> QED BY <1>1 DEF SlotsMatchWatches, UnwipedFrees

\* A block that nobody is freeing is handed out or written.
LEMMA UseStep ==
  ASSUME AllocatorInv, NEW b \in Block, blocks[b].state # "freeing",
         NEW used \in [state : {"live"}, size : Size, holds : SUBSET Secret, since : {{}}],
         blocks' = [blocks EXCEPT ![b] = used],
         UNCHANGED <<slots, watches, started, freeing, frees, found>>
  PROVE  AllocatorInv'
<1> USE DEF AllocatorInv
<1>1. /\ SlotsMatchWatches'
      /\ Alive' = Alive /\ Free' = Free
      /\ \A w \in Alive : UnwipedFrees(w)' = UnwipedFrees(w)
  BY SlotsKept
<1>2. Freeing' = Freeing /\ ToInspect' = ToInspect
  BY DEF Freeing, ToInspect
<1>3. blocks'[b] = used /\ \A c \in Block \ {b} : blocks'[c] = blocks[c]
  BY DEF Types
<1>4. used.state = "live" /\ used.since = {} /\ used \in BlockRecord
  BY DEF BlockRecord
<1>5. \A t \in Freeing : freeing[t].block \in Block \ {b}
  BY DEF FreeingInv, Freeing, Types
<1>6. Types'
  <2>1. blocks' \in [Block -> BlockRecord]
    BY <1>4 DEF Types, BlockRecord
  <2>2. BlockRecord' = BlockRecord
    BY DEF BlockRecord
  <2> QED BY <1>1, <2>1, <2>2 DEF Types, BlockRecord
<1>7. FreeingInv'
  <2>1. \A c \in Block : blocks'[c].state = "live" => blocks'[c].since = {}
    BY <1>3, <1>4 DEF FreeingInv
  <2>2. \A t \in Freeing : blocks'[freeing[t].block].state = "freeing"
    BY <1>3, <1>5 DEF FreeingInv
  <2> QED BY <1>2, <2>1, <2>2 DEF FreeingInv
<1>8. CountsInv'
  BY <1>1, <1>2 DEF CountsInv, Recognisable
<1>9. NothingFreedUnseen'
  <2> SUFFICES ASSUME NEW c \in Block, NEW w \in blocks'[c].since \cap Alive,
                      Unwiped(slots[watches[w]].target, blocks'[c]),
                      ~ \E t \in Thread : /\ freeing[t] # None
                                          /\ freeing[t].block = c
                                          /\ ~freeing[t].inspected
               PROVE  UnwipedFrees(w) > 0
    BY <1>1 DEF NothingFreedUnseen, Unwiped, UnwipedFrees
  <2>1. blocks'[c] = blocks[c]
    BY <1>3, <1>4
  <2> QED BY <2>1 DEF NothingFreedUnseen
<1>10. CountsOnlyItsOwnFrees'
  <2> DEFINE Own(w) == {t \in Thread : /\ freeing[t] # None
                                       /\ freeing[t].inspected
                                       /\ Unwiped(slots[watches[w]].target, blocks[freeing[t].block])}
             Later(w) == {t \in Thread : /\ freeing[t] # None
                                        /\ freeing[t].inspected
                                        /\ Unwiped(slots[watches[w]].target, blocks'[freeing[t].block])}
  <2>1. \A w \in Alive : Own(w) = Later(w)
    BY <1>3, <1>5 DEF Freeing
  <2>2. \A w \in Alive : UnwipedFrees(w) <= found[w] + Cardinality(Own(w))
    BY DEF CountsOnlyItsOwnFrees
  <2>3. \A w \in Alive : UnwipedFrees(w)' <= found'[w] + Cardinality(Later(w))
    BY <1>1, <2>1, <2>2
  <2> QED BY <1>1, <2>3 DEF CountsOnlyItsOwnFrees, Unwiped
<1> QED BY <1>1, <1>6, <1>7, <1>8, <1>9, <1>10

LEMMA AllocStep ==
  ASSUME AllocatorInv, NEW b \in Block, NEW size \in Size, Alloc(b, size)
  PROVE  AllocatorInv'
<1>1. PICK left \in SUBSET blocks[b].holds :
        blocks' = [blocks EXCEPT ![b] = [state |-> "live", size |-> size,
                                         holds |-> left, since |-> {}]]
  BY DEF Alloc
<1>2. left \in SUBSET Secret
  BY DEF AllocatorInv, Types
<1>3. [state |-> "live", size |-> size, holds |-> left, since |-> {}]
        \in [state : {"live"}, size : Size, holds : SUBSET Secret, since : {{}}]
  BY <1>2
<1>4. blocks[b].state # "freeing"
  BY DEF Alloc
<1>5. UNCHANGED <<slots, watches, started, freeing, frees, found>>
  BY DEF Alloc
<1> QED BY <1>1, <1>3, <1>4, <1>5, UseStep

LEMMA WriteStep ==
  ASSUME AllocatorInv, NEW b \in Block, Write(b)
  PROVE  AllocatorInv'
<1>1. PICK holds \in {{}} \cup {{s} : s \in Secret} : blocks' = [blocks EXCEPT ![b].holds = holds]
  BY DEF Write
<1> DEFINE used == [blocks[b] EXCEPT !.holds = holds]
<1>2. blocks' = [blocks EXCEPT ![b] = used]
  BY <1>1
<1>3. blocks[b].state = "live" /\ blocks[b].since = {}
  BY DEF AllocatorInv, FreeingInv, Write
<1>4. used \in [state : {"live"}, size : Size, holds : SUBSET Secret, since : {{}}]
  BY <1>3 DEF AllocatorInv, Types
<1>5. UNCHANGED <<slots, watches, started, freeing, frees, found>>
  BY DEF Write
<1> HIDE DEF used
<1> QED BY <1>2, <1>3, <1>4, <1>5, UseStep

\* A free is under way from now on, and is still to inspect its block.
LEMMA BeginFreeStep ==
  ASSUME AllocatorInv, NEW t \in Thread, NEW b \in Block,
         NEW others \in [Block -> BlockRecord],
         \A c \in Block : \/ others[c] = blocks[c]
                          \/ /\ blocks[c].state = "free"
                             /\ others[c].state = "live" /\ others[c].since = {},
         BeginFree(t, b, others)
  PROVE  AllocatorInv'
<1> USE DEF AllocatorInv
<1> DEFINE entry == [block |-> b, inspected |-> FALSE]
<1>1. /\ frees < MaxFrees /\ frees' = frees + 1
      /\ freeing[t] = None /\ freeing' = [freeing EXCEPT ![t] = entry]
      /\ blocks[b].state = "live"
      /\ blocks' = [others EXCEPT ![b].state = "freeing", ![b].since = Alive]
      /\ UNCHANGED <<slots, watches, started, found>>
  BY DEF BeginFree
<1>2. /\ SlotsMatchWatches'
      /\ Alive' = Alive /\ Free' = Free
      /\ \A w \in Alive : UnwipedFrees(w)' = UnwipedFrees(w)
  BY <1>1, SlotsKept
<1>3. entry # None /\ entry \in [block : Block, inspected : BOOLEAN]
      /\ entry.block = b /\ ~entry.inspected
  <2>1. entry \in [block : Block, inspected : BOOLEAN]
    OBVIOUS
  <2>2. entry.block = b /\ ~entry.inspected
    OBVIOUS
  <2> QED BY <2>1, <2>2, NoneAssumption
<1> HIDE DEF entry
<1>4. freeing'[t] = entry /\ \A u \in Thread \ {t} : freeing'[u] = freeing[u]
  BY <1>1 DEF Types
<1>5. Freeing' = Freeing \cup {t} /\ t \notin Freeing
  BY <1>1, <1>3, <1>4 DEF Freeing
<1>6. ToInspect' = ToInspect \cup {t} /\ t \notin ToInspect
  BY <1>3, <1>4, <1>5 DEF ToInspect, Freeing
<1>7. /\ others[b] = blocks[b]
      /\ blocks'[b].state = "freeing"
      /\ \A c \in Block \ {b} : blocks'[c] = others[c]
  BY <1>1
<1>8. \A u \in Freeing : freeing[u].block \in Block \ {b}
                         /\ blocks'[freeing[u].block] = blocks[freeing[u].block]
  <2>1. \A u \in Freeing : freeing[u].block \in Block /\ blocks[freeing[u].block].state = "freeing"
    BY DEF FreeingInv, Freeing, Types
  <2>2. "freeing" # "live" /\ "freeing" # "free"
    OBVIOUS
  <2>3. \A u \in Freeing : freeing[u].block # b
    BY <1>1, <2>1, <2>2
  <2> QED BY <1>7, <2>1, <2>2, <2>3
<1>9. Types'
  <2>1. frees' \in 0 .. MaxFrees
    BY <1>1, BoundsAssumption DEF Types
  <2>2. freeing' \in [Thread -> [block : Block, inspected : BOOLEAN] \cup {None}]
    BY <1>1, <1>3 DEF Types
  <2>3. Alive \in SUBSET (1..started)
    BY DEF Types
  <2>4. blocks' \in [Block -> BlockRecord]
    BY <1>1, <2>3 DEF BlockRecord
  <2>5. BlockRecord' = BlockRecord
    BY <1>1 DEF BlockRecord
  <2> QED BY <1>1, <1>2, <2>1, <2>2, <2>4, <2>5 DEF Types, BlockRecord
<1>10. FreeingInv'
  <2>1. IsFiniteSet(Freeing')
    BY <1>5, FS_AddElement DEF FreeingInv
  <2>2. \A u \in Freeing' : blocks'[freeing'[u].block].state = "freeing"
    <3>1. \A u \in Freeing : blocks'[freeing'[u].block].state = "freeing"
      <4>1. \A u \in Freeing : freeing'[u] = freeing[u]
        BY <1>4, <1>5 DEF Freeing
      <4> QED BY <1>8, <4>1 DEF FreeingInv
    <3> QED BY <1>3, <1>4, <1>5, <1>7, <3>1
  <2>3. \A u, v \in Freeing' : freeing'[u].block = freeing'[v].block => u = v
    <3>1. \A u \in Freeing : freeing'[u] = freeing[u]
      BY <1>4, <1>5 DEF Freeing
    <3> QED BY <1>3, <1>4, <1>5, <1>8, <3>1 DEF FreeingInv
  <2>4. \A c \in Block : blocks'[c].state = "live" => blocks'[c].since = {}
    BY <1>7 DEF FreeingInv
  <2> QED BY <2>1, <2>2, <2>3, <2>4 DEF FreeingInv
<1>11. CountsInv'
  <2>1. Cardinality(ToInspect') = Cardinality(ToInspect) + 1 /\ Cardinality(ToInspect) \in Nat
    BY <1>6, SomeThreads, FS_AddElement DEF ToInspect
  <2>2. \A i \in Slot \ Free : slots[i].unwiped_frees \in Nat
    BY DEF Types, Free
  <2>3. frees \in Nat
    BY DEF Types
  <2>4. \A i \in Slot \ Free : Recognisable(slots[i].target)
    BY DEF CountsInv
  <2>5. \A i \in Slot \ Free : slots[i].unwiped_frees + Cardinality(ToInspect') <= frees'
    BY <1>1, <2>1, <2>2, <2>3 DEF CountsInv
  <2>6. Cardinality(ToInspect') <= frees'
    BY <1>1, <2>1, <2>3 DEF CountsInv
  <2> QED BY <1>1, <1>2, <2>4, <2>5, <2>6 DEF CountsInv, Recognisable
<1>12. NothingFreedUnseen'
  <2> SUFFICES ASSUME NEW c \in Block, NEW w \in blocks'[c].since \cap Alive,
                      Unwiped(slots[watches[w]].target, blocks'[c]),
                      ~ \E u \in Thread : /\ freeing'[u] # None
                                          /\ freeing'[u].block = c
                                          /\ ~freeing'[u].inspected
               PROVE  UnwipedFrees(w) > 0
    BY <1>1, <1>2 DEF NothingFreedUnseen, Unwiped, UnwipedFrees
  <2>1. c # b
    BY <1>3, <1>4
  <2>2. blocks'[c] = blocks[c]
    BY <1>7, <2>1
  <2>3. ~ \E u \in Thread : /\ freeing[u] # None
                            /\ freeing[u].block = c
                            /\ ~freeing[u].inspected
    BY <1>1, <1>4
  <2> QED BY <2>2, <2>3 DEF NothingFreedUnseen
<1>13. CountsOnlyItsOwnFrees'
  <2> DEFINE Own(w) == {u \in Thread : /\ freeing[u] # None
                                       /\ freeing[u].inspected
                                       /\ Unwiped(slots[watches[w]].target, blocks[freeing[u].block])}
             Later(w) == {u \in Thread : /\ freeing'[u] # None
                                         /\ freeing'[u].inspected
                                         /\ Unwiped(slots[watches[w]].target, blocks'[freeing'[u].block])}
  <2>1. \A w \in Alive : Own(w) = Later(w)
    <3>1. \A w \in Alive : t \notin Own(w) /\ t \notin Later(w)
      BY <1>1, <1>3, <1>4
    <3>2. \A w \in Alive : \A u \in Thread \ {t} : u \in Own(w) <=> u \in Later(w)
      BY <1>4, <1>8 DEF Freeing
    <3> QED BY <3>1, <3>2
  <2>2. \A w \in Alive : UnwipedFrees(w) <= found[w] + Cardinality(Own(w))
    BY DEF CountsOnlyItsOwnFrees
  <2>3. \A w \in Alive : UnwipedFrees(w)' <= found'[w] + Cardinality(Later(w))
    BY <1>1, <1>2, <2>1, <2>2
  <2> QED BY <1>1, <1>2, <2>3 DEF CountsOnlyItsOwnFrees, Unwiped
<1> QED BY <1>2, <1>9, <1>10, <1>11, <1>12, <1>13

LEMMA DeallocStep ==
  ASSUME AllocatorInv, NEW t \in Thread, NEW b \in Block, Dealloc(t, b)
  PROVE  AllocatorInv'
<1>1. blocks \in [Block -> BlockRecord]
  BY DEF AllocatorInv, Types, BlockRecord
<1>2. BeginFree(t, b, blocks)
  BY DEF Dealloc
<1> QED BY <1>1, <1>2, BeginFreeStep

LEMMA ReallocStep ==
  ASSUME AllocatorInv, NEW t \in Thread, NEW b \in Block, NEW new \in Block, NEW size \in Size,
         Realloc(t, b, new, size)
  PROVE  AllocatorInv'
<1>1. PICK holds \in SUBSET (blocks[b].holds \cup blocks[new].holds) :
        BeginFree(t, b, [blocks EXCEPT ![new] =
          [state |-> "live", size |-> size, holds |-> holds, since |-> {}]])
  BY DEF Realloc
<1> DEFINE moved == [state |-> "live", size |-> size, holds |-> holds, since |-> {}]
           others == [blocks EXCEPT ![new] = moved]
<1>2. blocks \in [Block -> BlockRecord]
  BY DEF AllocatorInv, Types, BlockRecord
<1>3. blocks[b].holds \in SUBSET Secret /\ blocks[new].holds \in SUBSET Secret
  BY <1>2 DEF BlockRecord
<1>4. moved \in BlockRecord /\ moved.state = "live" /\ moved.since = {}
  BY <1>3 DEF BlockRecord
<1> HIDE DEF moved
<1>5. others \in [Block -> BlockRecord] /\ others[new] = moved
      /\ \A c \in Block \ {new} : others[c] = blocks[c]
  BY <1>2, <1>4
<1>6. blocks[new].state = "free"
  BY DEF Realloc
<1>7. \A c \in Block : \/ others[c] = blocks[c]
                       \/ /\ blocks[c].state = "free"
                          /\ others[c].state = "live" /\ others[c].since = {}
  BY <1>4, <1>5, <1>6
<1>8. BeginFree(t, b, others)
  BY <1>1 DEF moved
<1> HIDE DEF others
<1> QED BY <1>5, <1>7, <1>8, BeginFreeStep

-----------------------------------------------------------------------------
(* Frees *)

\* Every watch whose secret the block holds counts it, and no other does.
LEMMA InspectStep ==
  ASSUME AllocatorInv, NEW t \in Thread, Inspect(t)
  PROVE  AllocatorInv'
<1> USE DEF AllocatorInv
<1> DEFINE block == blocks[freeing[t].block]
           Counts(i) == slots[i] # None /\ IsLeftIn(slots[i].target, block)
           entry == [freeing[t] EXCEPT !.inspected = TRUE]
<1>1. /\ freeing[t] # None /\ ~freeing[t].inspected
      /\ slots' = [i \in Slot |-> IF Counts(i) THEN [slots[i] EXCEPT !.unwiped_frees = @ + 1]
                                  ELSE slots[i]]
      /\ freeing' = [freeing EXCEPT ![t] = entry]
      /\ UNCHANGED <<watches, started, blocks, frees, found>>
  BY DEF Inspect
<1>2. freeing[t].block \in Block /\ block \in BlockRecord
  BY <1>1 DEF Types, BlockRecord
<1>3. \A i \in Slot \ Free : /\ slots[i].target \in Target /\ slots[i].unwiped_frees \in Nat
                             /\ slots[i] \in [target : Target, unwiped_frees : Nat]
                             /\ Recognisable(slots[i].target)
  BY DEF Types, Free, CountsInv
<1>4. \A i \in Slot \ Free : Counts(i) <=> Unwiped(slots[i].target, block)
  <2>1. block.holds \in SUBSET Secret
    BY <1>2 DEF BlockRecord
  <2>2. \A i \in Slot \ Free : slots[i] # None
    BY DEF Free
  <2> HIDE DEF block
  <2> QED BY <1>3, <2>1, <2>2, LeftInIsUnwiped
<1> HIDE DEF Counts, block
<1>5. \A i \in Slot \ Free :
        /\ slots'[i] \in [target : Target, unwiped_frees : Nat] /\ slots'[i] # None
        /\ slots'[i].target = slots[i].target
        /\ slots'[i].unwiped_frees = IF Unwiped(slots[i].target, block)
                                     THEN slots[i].unwiped_frees + 1 ELSE slots[i].unwiped_frees
  <2> SUFFICES ASSUME NEW i \in Slot \ Free
               PROVE  /\ slots'[i] \in [target : Target, unwiped_frees : Nat]
                      /\ slots'[i].target = slots[i].target
                      /\ slots'[i].unwiped_frees = IF Unwiped(slots[i].target, block)
                                     THEN slots[i].unwiped_frees + 1 ELSE slots[i].unwiped_frees
    BY NoneAssumption
  <2>1. CASE Counts(i)
    <3>1. slots'[i] = [slots[i] EXCEPT !.unwiped_frees = slots[i].unwiped_frees + 1]
      BY <1>1, <2>1
    <3>2. Unwiped(slots[i].target, block)
      BY <1>4, <2>1
    <3> QED BY <1>3, <3>1, <3>2
  <2>2. CASE ~Counts(i)
    <3>1. slots'[i] = slots[i]
      BY <1>1, <2>2
    <3>2. ~Unwiped(slots[i].target, block)
      BY <1>4, <2>2
    <3> QED BY <1>3, <3>1, <3>2
  <2> QED BY <2>1, <2>2
<1>6. \A i \in Free : i \in Slot /\ slots'[i] = None
  BY <1>1 DEF Free, Counts
<1>7. Free' = Free /\ Alive' = Alive
  BY <1>1, <1>5, <1>6 DEF Free, Alive
<1>8. \A w \in Alive : watches[w] \in Slot \ Free
  BY DEF SlotsMatchWatches
<1>9. \A w \in Alive :
        /\ UnwipedFrees(w) = slots[watches[w]].unwiped_frees
        /\ slots'[watches[w]].target = slots[watches[w]].target
        /\ UnwipedFrees(w)' = slots'[watches[w]].unwiped_frees
        /\ UnwipedFrees(w)' = IF Unwiped(slots[watches[w]].target, block)
                              THEN UnwipedFrees(w) + 1 ELSE UnwipedFrees(w)
        /\ UnwipedFrees(w) \in Nat
  BY <1>1, <1>3, <1>5, <1>8 DEF UnwipedFrees, Free
<1>10. entry \in [block : Block, inspected : BOOLEAN] /\ entry # None
       /\ entry.block = freeing[t].block /\ entry.inspected
  <2>1. freeing[t] \in [block : Block, inspected : BOOLEAN]
    BY <1>1 DEF Types
  <2>2. entry \in [block : Block, inspected : BOOLEAN]
    BY <2>1
  <2>3. entry.block = freeing[t].block /\ entry.inspected
    BY <2>1
  <2> QED BY <2>2, <2>3, NoneAssumption
<1> HIDE DEF entry
<1>11. freeing'[t] = entry /\ \A u \in Thread \ {t} : freeing'[u] = freeing[u]
  BY <1>1 DEF Types
<1>12. /\ Freeing' = Freeing
       /\ \A u \in Freeing : freeing'[u].block = freeing[u].block
       /\ ToInspect' = ToInspect \ {t} /\ t \in ToInspect
  BY <1>1, <1>10, <1>11 DEF Freeing, ToInspect
<1>13. Types'
  <2>1. slots' \in [Slot -> [target : Target, unwiped_frees : Nat] \cup {None}]
    <3>1. \A i \in Slot : slots'[i] \in [target : Target, unwiped_frees : Nat] \cup {None}
      BY <1>5, <1>6
    <3> QED BY <1>1, <3>1
  <2>2. freeing' \in [Thread -> [block : Block, inspected : BOOLEAN] \cup {None}]
    BY <1>1, <1>10 DEF Types
  <2> QED BY <1>1, <1>7, <2>1, <2>2 DEF Types
<1>14. FreeingInv'
  BY <1>1, <1>12 DEF FreeingInv
<1>15. CountsInv'
  <2>1. Cardinality(ToInspect') = Cardinality(ToInspect) - 1 /\ Cardinality(ToInspect) \in Nat
    BY <1>12, SomeThreads, FS_RemoveElement DEF ToInspect
  <2>2. frees \in Nat
    BY DEF Types
  <2>3. Cardinality(ToInspect') <= frees'
    BY <1>1, <2>1, <2>2 DEF CountsInv
  <2>4. \A i \in Slot \ Free : slots'[i].unwiped_frees + Cardinality(ToInspect') <= frees
    <3> SUFFICES ASSUME NEW i \in Slot \ Free
                 PROVE  slots'[i].unwiped_frees + Cardinality(ToInspect') <= frees
      OBVIOUS
    <3>1. slots[i].unwiped_frees + Cardinality(ToInspect) <= frees
      BY DEF CountsInv
    <3>2. slots'[i].unwiped_frees \in {slots[i].unwiped_frees, slots[i].unwiped_frees + 1}
      BY <1>5
    <3>3. slots[i].unwiped_frees \in Nat
      BY <1>3
    <3> QED BY <2>1, <2>2, <3>1, <3>2, <3>3
  <2>5. \A i \in Slot \ Free : Recognisable(slots'[i].target)
    BY <1>3, <1>5
  <2> QED BY <1>1, <1>7, <2>3, <2>4, <2>5 DEF CountsInv, Recognisable
<1>16. SlotsMatchWatches'
  <2>1. \A w \in Alive : slots'[watches[w]] # None
    BY <1>5, <1>8
  <2> QED BY <1>1, <1>7, <2>1 DEF SlotsMatchWatches
<1>17. NothingFreedUnseen'
  <2> SUFFICES ASSUME NEW c \in Block, NEW w \in blocks[c].since \cap Alive,
                      Unwiped(slots'[watches[w]].target, blocks[c]),
                      ~ \E u \in Thread : /\ freeing'[u] # None
                                          /\ freeing'[u].block = c
                                          /\ ~freeing'[u].inspected
               PROVE  UnwipedFrees(w)' > 0
    BY <1>1, <1>7 DEF NothingFreedUnseen, Unwiped, UnwipedFrees
  <2>1. Unwiped(slots[watches[w]].target, blocks[c])
    BY <1>9
  <2>2. CASE c = freeing[t].block
    <3>1. Unwiped(slots[watches[w]].target, block)
      BY <2>1, <2>2 DEF block
    <3> QED BY <1>9, <3>1
  <2>3. CASE c # freeing[t].block
    <3>1. ~ \E u \in Thread : /\ freeing[u] # None
                              /\ freeing[u].block = c
                              /\ ~freeing[u].inspected
      BY <1>11, <2>3
    <3>2. UnwipedFrees(w) > 0
      BY <2>1, <3>1 DEF NothingFreedUnseen
    <3> QED BY <1>9, <3>2
  <2> QED BY <2>2, <2>3
<1>18. CountsOnlyItsOwnFrees'
  <2> DEFINE Own(w) == {u \in Thread : /\ freeing[u] # None
                                       /\ freeing[u].inspected
                                       /\ Unwiped(slots[watches[w]].target, blocks[freeing[u].block])}
             Later(w) == {u \in Thread : /\ freeing'[u] # None
                                         /\ freeing'[u].inspected
                                         /\ Unwiped(slots'[watches[w]].target, blocks[freeing'[u].block])}
  <2> SUFFICES \A w \in Alive : UnwipedFrees(w)' <= found[w] + Cardinality(Later(w))
    BY <1>1, <1>7, Zenon DEF CountsOnlyItsOwnFrees, Unwiped
  <2> TAKE w \in Alive
  <2>1. UnwipedFrees(w) <= found[w] + Cardinality(Own(w))
    BY DEF CountsOnlyItsOwnFrees
  <2>2. found[w] \in Nat
    <3>1. w \in 1..MaxWatches
      BY BoundsAssumption DEF Types
    <3> QED BY <3>1 DEF Types
  <2>3. t \notin Own(w)
    BY <1>1
  <2>4. IsFiniteSet(Own(w)) /\ Cardinality(Own(w)) \in Nat
    <3>1. Own(w) \in SUBSET Freeing
      BY DEF Freeing
    <3> QED BY <3>1, SomeThreads
  <2>5. t \in Later(w) <=> Unwiped(slots[watches[w]].target, block)
    BY <1>9, <1>10, <1>11 DEF block
  <2>6. Later(w) \ {t} = Own(w)
    BY <1>9, <1>11, <2>3
  <2>7. CASE Unwiped(slots[watches[w]].target, block)
    <3>1. Later(w) = Own(w) \cup {t}
      BY <2>5, <2>6, <2>7
    <3>2. Cardinality(Later(w)) = Cardinality(Own(w)) + 1
      BY <2>3, <2>4, <3>1, FS_AddElement
    <3>3. UnwipedFrees(w)' = UnwipedFrees(w) + 1 /\ UnwipedFrees(w) \in Nat
      BY <1>9, <2>7
    <3> HIDE DEF Own, Later
    <3> QED BY <2>1, <2>2, <2>4, <3>2, <3>3
  <2>8. CASE ~Unwiped(slots[watches[w]].target, block)
    <3>1. Later(w) = Own(w)
      BY <2>5, <2>6, <2>8
    <3>2. UnwipedFrees(w)' = UnwipedFrees(w)
      BY <1>9, <2>8
    <3> HIDE DEF Own, Later
    <3> QED BY <2>1, <3>1, <3>2
  <2> QED BY <2>7, <2>8
<1> QED BY <1>13, <1>14, <1>15, <1>16, <1>17, <1>18

\* What a thread counted as unwiped before it handed the block over, it found.
LEMMA EndFreeStep ==
  ASSUME AllocatorInv, NEW t \in Thread, EndFree(t)
  PROVE  AllocatorInv'
<1> USE DEF AllocatorInv
<1> DEFINE b == freeing[t].block
<1>1. /\ freeing[t] # None /\ freeing[t].inspected
      /\ blocks' = [blocks EXCEPT ![b].state = "free"]
      /\ found' = [w \in DOMAIN found |->
           IF w \in Alive /\ Unwiped(slots[watches[w]].target, blocks[b])
           THEN found[w] + 1 ELSE found[w]]
      /\ freeing' = [freeing EXCEPT ![t] = None]
      /\ UNCHANGED <<slots, watches, started, frees>>
  BY DEF EndFree
<1>2. /\ SlotsMatchWatches'
      /\ Alive' = Alive /\ Free' = Free
      /\ \A w \in Alive : UnwipedFrees(w)' = UnwipedFrees(w)
  BY <1>1, SlotsKept
<1>3. b \in Block /\ blocks \in [Block -> BlockRecord] /\ BlockRecord' = BlockRecord
  BY <1>1 DEF Types, BlockRecord
<1> HIDE DEF b
<1>4. /\ blocks'[b].state = "free"
      /\ \A c \in Block \ {b} : blocks'[c] = blocks[c]
      /\ \A c \in Block : /\ blocks'[c].holds = blocks[c].holds /\ blocks'[c].size = blocks[c].size
                          /\ blocks'[c].since = blocks[c].since
  BY <1>1, <1>3 DEF BlockRecord
<1>5. /\ freeing'[t] = None /\ \A u \in Thread \ {t} : freeing'[u] = freeing[u]
      /\ Freeing' = Freeing \ {t} /\ t \in Freeing
  BY <1>1 DEF Types, Freeing
<1>6. ToInspect' = ToInspect
  <2>1. t \notin ToInspect
    BY <1>1 DEF ToInspect
  <2> QED BY <1>5, <2>1 DEF ToInspect, Freeing
<1>7. \A target : \A c \in Block : Unwiped(target, blocks'[c]) <=> Unwiped(target, blocks[c])
  BY <1>4 DEF Unwiped
<1>8. Types'
  <2>1. blocks' \in [Block -> BlockRecord']
    BY <1>1, <1>3 DEF BlockRecord
  <2>2. freeing' \in [Thread -> [block : Block, inspected : BOOLEAN] \cup {None}]
    BY <1>1 DEF Types
  <2>3. found' \in [1..MaxWatches -> Nat]
    <3>1. found \in [1..MaxWatches -> Nat]
      BY DEF Types
    <3> QED BY <1>1, <3>1
  <2> QED BY <1>1, <1>2, <2>1, <2>2, <2>3 DEF Types, BlockRecord
<1>9. FreeingInv'
  <2>1. IsFiniteSet(Freeing')
    BY <1>5, FS_RemoveElement DEF FreeingInv
  <2>2. \A u \in Freeing' : u \in Freeing /\ u # t /\ freeing'[u] = freeing[u]
    BY <1>5 DEF Freeing
  <2>3. \A u \in Freeing' : blocks'[freeing'[u].block].state = "freeing"
    <3>1. \A u \in Freeing' : freeing[u].block \in Block \ {b}
      BY <1>5, <2>2 DEF FreeingInv, Types, Freeing, b
    <3> QED BY <1>4, <2>2, <3>1 DEF FreeingInv
  <2>4. \A u, v \in Freeing' : freeing'[u].block = freeing'[v].block => u = v
    BY <2>2 DEF FreeingInv
  <2>5. \A c \in Block : blocks'[c].state = "live" => blocks'[c].since = {}
    BY <1>4 DEF FreeingInv
  <2> QED BY <2>1, <2>3, <2>4, <2>5 DEF FreeingInv
<1>10. CountsInv'
  BY <1>1, <1>2, <1>6 DEF CountsInv, Recognisable
<1>11. NothingFreedUnseen'
  <2> SUFFICES ASSUME NEW c \in Block, NEW w \in blocks'[c].since \cap Alive,
                      Unwiped(slots[watches[w]].target, blocks'[c]),
                      ~ \E u \in Thread : /\ freeing'[u] # None
                                          /\ freeing'[u].block = c
                                          /\ ~freeing'[u].inspected
               PROVE  UnwipedFrees(w) > 0
    BY <1>1, <1>2 DEF NothingFreedUnseen, Unwiped, UnwipedFrees
  <2>1. Unwiped(slots[watches[w]].target, blocks[c]) /\ w \in blocks[c].since
    BY <1>4, <1>7
  <2>2. ~ \E u \in Thread : /\ freeing[u] # None
                            /\ freeing[u].block = c
                            /\ ~freeing[u].inspected
    BY <1>1, <1>5
  <2> QED BY <2>1, <2>2 DEF NothingFreedUnseen
<1>12. CountsOnlyItsOwnFrees'
  <2> DEFINE Own(w) == {u \in Thread : /\ freeing[u] # None
                                       /\ freeing[u].inspected
                                       /\ Unwiped(slots[watches[w]].target, blocks[freeing[u].block])}
             Later(w) == {u \in Thread : /\ freeing'[u] # None
                                         /\ freeing'[u].inspected
                                         /\ Unwiped(slots[watches[w]].target, blocks'[freeing'[u].block])}
  <2> SUFFICES \A w \in Alive : UnwipedFrees(w)' <= found'[w] + Cardinality(Later(w))
    BY <1>1, <1>2 DEF CountsOnlyItsOwnFrees, Unwiped
  <2> TAKE w \in Alive
  <2>1. UnwipedFrees(w) <= found[w] + Cardinality(Own(w))
    BY DEF CountsOnlyItsOwnFrees
  <2>2. w \in 1..MaxWatches /\ found[w] \in Nat /\ UnwipedFrees(w) \in Nat
    <3>1. w \in 1..MaxWatches
      BY BoundsAssumption DEF Types
    <3> QED BY <3>1 DEF Types, UnwipedFrees
  <2>3. found'[w] = IF Unwiped(slots[watches[w]].target, blocks[b]) THEN found[w] + 1 ELSE found[w]
    BY <1>1, <2>2 DEF Types
  <2>4. IsFiniteSet(Own(w)) /\ Cardinality(Own(w)) \in Nat
    <3>1. Own(w) \in SUBSET Freeing
      BY DEF Freeing
    <3> QED BY <3>1, SomeThreads
  <2>5. Later(w) = Own(w) \ {t}
    <3>1. t \notin Later(w)
      BY <1>5
    <3>2. \A u \in Thread \ {t} : freeing[u] # None => freeing[u].block \in Block
      BY DEF Types
    <3>3. \A u \in Thread \ {t} : u \in Later(w) <=> u \in Own(w)
      BY <1>5, <1>7, <3>2
    <3> QED BY <3>1, <3>3
  <2>6. t \in Own(w) <=> Unwiped(slots[watches[w]].target, blocks[b])
    BY <1>1 DEF b
  <2>7. CASE t \in Own(w)
    <3>1. Cardinality(Later(w)) = Cardinality(Own(w)) - 1
      BY <2>4, <2>5, <2>7, FS_RemoveElement
    <3>2. found'[w] = found[w] + 1
      BY <2>3, <2>6, <2>7
    <3> HIDE DEF Own, Later
    <3> QED BY <1>2, <2>1, <2>2, <2>4, <3>1, <3>2
  <2>8. CASE t \notin Own(w)
    <3>1. Later(w) = Own(w)
      BY <2>5, <2>8
    <3>2. found'[w] = found[w]
      BY <2>3, <2>6, <2>8
    <3> HIDE DEF Own, Later
    <3> QED BY <1>2, <2>1, <3>1, <3>2
  <2> QED BY <2>7, <2>8
<1> QED BY <1>2, <1>8, <1>9, <1>10, <1>11, <1>12

LEMMA UnchangedAllocator ==
  ASSUME AllocatorInv, UNCHANGED vars
  PROVE  AllocatorInv'
<1> USE DEF AllocatorInv, vars
<1>1. Alive' = Alive /\ Free' = Free /\ Freeing' = Freeing /\ ToInspect' = ToInspect
  BY DEF Alive, Free, Freeing, ToInspect
<1>2. Types' /\ FreeingInv' /\ CountsInv' /\ SlotsMatchWatches'
  BY <1>1 DEF Types, FreeingInv, CountsInv, Recognisable, SlotsMatchWatches
<1>3. NothingFreedUnseen'
  BY <1>1 DEF NothingFreedUnseen, Unwiped, UnwipedFrees
<1>4. CountsOnlyItsOwnFrees'
  BY <1>1 DEF CountsOnlyItsOwnFrees, Unwiped, UnwipedFrees
<1> QED BY <1>2, <1>3, <1>4

-----------------------------------------------------------------------------
(* Theorems *)

\* The inductive invariant holds of every run of the allocator.
THEOREM AllocatorInvariant == Spec => []AllocatorInv
<1>1. Init => AllocatorInv
  BY InitAllocatorInv
<1>2. AllocatorInv /\ [Next]_vars => AllocatorInv'
  <2> SUFFICES ASSUME AllocatorInv, [Next]_vars PROVE AllocatorInv'
    OBVIOUS
  <2>1. ASSUME NEW target \in Target, StartWatch(target) PROVE AllocatorInv'
    BY <2>1, StartWatchStep
  <2>2. ASSUME NEW target \in Target, StartWatchRefused(target) PROVE AllocatorInv'
    BY <2>2, UnchangedAllocator DEF StartWatchRefused
  <2>3. ASSUME NEW w \in Alive, DropWatch(w) PROVE AllocatorInv'
    BY <2>3, DropWatchStep
  <2>4. ASSUME NEW b \in Block, Write(b) PROVE AllocatorInv'
    BY <2>4, WriteStep
  <2>5. ASSUME NEW b \in Block, NEW size \in Size, Alloc(b, size) PROVE AllocatorInv'
    BY <2>5, AllocStep
  <2>6. ASSUME NEW t \in Thread, Inspect(t) PROVE AllocatorInv'
    BY <2>6, InspectStep
  <2>7. ASSUME NEW t \in Thread, EndFree(t) PROVE AllocatorInv'
    BY <2>7, EndFreeStep
  <2>8. ASSUME NEW t \in Thread, NEW b \in Block, Dealloc(t, b) PROVE AllocatorInv'
    BY <2>8, DeallocStep
  <2>9. ASSUME NEW t \in Thread, NEW b \in Block, NEW new \in Block, NEW size \in Size,
               Realloc(t, b, new, size)
        PROVE  AllocatorInv'
    BY <2>9, ReallocStep
  <2>10. CASE UNCHANGED vars
    BY <2>10, UnchangedAllocator
  <2> QED BY <2>1, <2>2, <2>3, <2>4, <2>5, <2>6, <2>7, <2>8, <2>9, <2>10 DEF Next
<1> QED BY <1>1, <1>2, PTL DEF Spec

\* Slots, watches, blocks and frees keep their types, and no watch ever counts more
\* than the blocks handed to dealloc: Watch::unwiped_frees cannot run past them.
THEOREM AllocatorTypes == Spec => []TypeOK
<1>1. AllocatorInv => TypeOK
  <2> SUFFICES ASSUME AllocatorInv PROVE TypeOK
    OBVIOUS
  <2> USE DEF AllocatorInv
  <2>1. \A i \in Slot : slots[i] \in [target : Target, unwiped_frees : 0 .. MaxFrees] \cup {None}
    <3> SUFFICES ASSUME NEW i \in Slot \ Free
                 PROVE  slots[i] \in [target : Target, unwiped_frees : 0 .. MaxFrees]
      BY DEF Free
    <3>1. slots[i] \in [target : Target, unwiped_frees : Nat]
      BY DEF Types, Free
    <3>2. Cardinality(ToInspect) \in Nat
      BY SomeThreads DEF ToInspect
    <3>3. slots[i].unwiped_frees + Cardinality(ToInspect) <= frees /\ frees \in 0 .. MaxFrees
      BY DEF CountsInv, Types
    <3>4. slots[i].unwiped_frees \in Nat
      BY <3>1
    <3>5. slots[i].unwiped_frees \in 0 .. MaxFrees
      BY <3>2, <3>3, <3>4, BoundsAssumption
    <3> QED BY <3>1, <3>5
  <2>2. slots \in [Slot -> [target : Target, unwiped_frees : 0 .. MaxFrees] \cup {None}]
    BY <2>1 DEF Types
  <2> QED BY <2>2 DEF Types, TypeOK
<1> QED BY <1>1, AllocatorInvariant, PTL

\* Full is returned only for MAX_WATCHES watches alive, and no two watches share a
\* slot, however watch_bytes, watch_blocks_of_size, drops and frees interleave.
THEOREM SlotsMatch == Spec => []SlotsMatchWatches
<1>1. AllocatorInv => SlotsMatchWatches
  BY DEF AllocatorInv
<1> QED BY <1>1, AllocatorInvariant, PTL

\* A watch that has counted nothing vouches for every block handed to dealloc in its
\* life and inspected: the memory no longer holds its secret.
THEOREM FreesAreSeen == Spec => []NothingFreedUnseen
<1>1. AllocatorInv => NothingFreedUnseen
  BY DEF AllocatorInv
<1> QED BY <1>1, AllocatorInvariant, PTL

\* A watch counts no free that was not one of its own life, of an unwiped block.
THEOREM CountsAreOwn == Spec => []CountsOnlyItsOwnFrees
<1>1. AllocatorInv => CountsOnlyItsOwnFrees
  BY DEF AllocatorInv
<1> QED BY <1>1, AllocatorInvariant, PTL

=============================================================================
