--------------------------- MODULE ScanningAllocator ---------------------------
(***************************************************************************)
(* The test allocator of crates/quietwire-crypto-memtest: threads allocate,*)
(* write, wipe and free blocks while others start and drop watches.  The   *)
(* slots are behind a mutex, held for the whole of each access, so that an *)
(* access is one step; a free inspects the block first and hands it to the *)
(* system later, and other threads run before, between and after.          *)
(***************************************************************************)
EXTENDS Integers, FiniteSets, FiniteSetsExt, Functions

CONSTANTS
  Thread,
  Block,         \* addresses the system may hand out
  Size,          \* the sizes blocks may have
  Secret,        \* byte strings that some block may hold
  Zero,          \* a byte string that wiped memory holds: all zero, or empty
  MAX_WATCHES,   \* slots (16)
  MaxWatches,    \* bound: watches started
  MaxFrees,      \* bound: blocks freed
  None

ASSUME BoundsAssumption ==
  MAX_WATCHES \in Nat \ {0} /\ MaxWatches \in Nat /\ MaxFrees \in Nat

ASSUME ZeroAssumption == Zero \notin Secret

ASSUME SizeAssumption == Size \subseteq Nat /\ Size # {}

VARIABLES
  slots,    \* slots[i]: the target and the count of the watch there, or None
  watches,  \* the watches alive, numbered as they started: the index each holds
  started,  \* how many watches have started
  blocks,   \* blocks[b]: its state, its size, the secrets its bytes hold, and
            \* `since`: the watches alive when it was last handed to dealloc
  freeing,  \* freeing[t]: the block t is freeing, and whether it has inspected it
  frees,    \* how many blocks have been handed to dealloc
  found     \* found[w]: frees that ended in the life of w with its secret in them

vars == <<slots, watches, started, blocks, freeing, frees, found>>

Slot == 0 .. MAX_WATCHES - 1
Target == [kind : {"bytes"}, secret : Secret \cup {Zero}] \cup [kind : {"size"}, size : Size]

ASSUME NoneAssumption ==
  None \notin [target : Target, unwiped_frees : Nat] /\ None \notin [block : Block, inspected : BOOLEAN]

Alive == DOMAIN watches

-----------------------------------------------------------------------------
(* What a watch looks for *)

AllZero(block) == block.holds = {}

\* FreedBlock::contains
Contains(block, secret) ==
  IF secret = Zero THEN AllZero(block) ELSE secret \in block.holds

\* Target::is_left_in
IsLeftIn(target, block) ==
  IF target.kind = "bytes" THEN Contains(block, target.secret)
  ELSE block.size = target.size /\ ~AllZero(block)

\* Mutant: any secret that fits is accepted.
AnyPattern(target) == TRUE

\* Pattern::new: wiped memory would match an empty or all-zero secret.  (Secrets
\* longer than MAX_PATTERN_LEN are refused alike and are not enumerated.)
Recognisable(target) == target.kind = "bytes" => target.secret # Zero

-----------------------------------------------------------------------------
(* Watches *)

\* Mutant: one slot too many is offered.
FreeWithEnd == {i \in 0 .. MAX_WATCHES : i \in Slot => slots[i] = None}

Free == {i \in Slot : slots[i] = None}

\* watch_bytes and watch_blocks_of_size return Ok, with the first free slot.
StartWatch(target) ==
  /\ started < MaxWatches
  /\ Recognisable(target)
  /\ Free # {}
  /\ LET index == Min(Free)
     IN  /\ slots' = [slots EXCEPT ![index] = [target |-> target, unwiped_frees |-> 0]]
         /\ watches' = [w \in Alive \cup {started + 1} |->
                          IF w = started + 1 THEN index ELSE watches[w]]
  /\ started' = started + 1
  /\ found' = [found EXCEPT ![started + 1] = 0]
  /\ UNCHANGED <<blocks, freeing, frees>>

\* They return InvalidPattern or Full.
StartWatchRefused(target) ==
  /\ ~Recognisable(target) \/ Free = {}
  /\ UNCHANGED vars

\* Mutant: the slot stays taken.
DropWatchKeepingSlot(w) ==
  /\ watches' = Restrict(watches, Alive \ {w})
  /\ UNCHANGED <<slots, started, blocks, freeing, frees, found>>

DropWatch(w) ==
  /\ slots' = [slots EXCEPT ![watches[w]] = None]
  /\ watches' = Restrict(watches, Alive \ {w})
  /\ UNCHANGED <<started, blocks, freeing, frees, found>>

UnwipedFrees(w) == IF slots[watches[w]] = None THEN 0 ELSE slots[watches[w]].unwiped_frees

-----------------------------------------------------------------------------
(* Blocks *)

\* alloc: the system hands out memory that still holds what earlier users left,
\* as far as the new block covers it.
Alloc(b, size) ==
  /\ blocks[b].state = "free"
  /\ \E left \in SUBSET blocks[b].holds :
       blocks' = [blocks EXCEPT ![b] = [state |-> "live", size |-> size,
                                        holds |-> left, since |-> {}]]
  /\ UNCHANGED <<slots, watches, started, freeing, frees, found>>

\* The user of a block writes a secret, or wipes the block.
Write(b) ==
  /\ blocks[b].state = "live"
  /\ \E holds \in {{}} \cup {{s} : s \in Secret} :
       blocks' = [blocks EXCEPT ![b].holds = holds]
  /\ UNCHANGED <<slots, watches, started, freeing, frees, found>>

\* dealloc is called, and has not locked the slots yet.
BeginFree(t, b, others) ==
  /\ frees < MaxFrees
  /\ freeing[t] = None
  /\ blocks[b].state = "live"
  /\ frees' = frees + 1
  /\ freeing' = [freeing EXCEPT ![t] = [block |-> b, inspected |-> FALSE]]
  /\ blocks' = [others EXCEPT ![b].state = "freeing", ![b].since = Alive]
  /\ UNCHANGED <<slots, watches, started, found>>

Dealloc(t, b) == BeginFree(t, b, blocks)

\* Mutant: a block that grows is moved by the system, past the inspection.
ReallocBySystem(t, b, new, size) ==
  /\ blocks[b].state = "live" /\ blocks[new].state = "free"
  /\ blocks' = [blocks EXCEPT
       ![new] = [state |-> "live", size |-> size, holds |-> blocks[b].holds, since |-> {}],
       ![b].state = "free", ![b].since = Alive]
  /\ UNCHANGED <<slots, watches, started, freeing, frees, found>>

\* The default realloc: a new block, a copy of what fits, and the old block freed
\* as it is.
Realloc(t, b, new, size) ==
  /\ blocks[new].state = "free"
  /\ \E holds \in SUBSET (blocks[b].holds \cup blocks[new].holds) :
       /\ size >= blocks[b].size => blocks[b].holds \subseteq holds
       /\ BeginFree(t, b, [blocks EXCEPT ![new] =
            [state |-> "live", size |-> size, holds |-> holds, since |-> {}]])

\* ScanningAllocator::inspect: every slot taken looks at the block.
Inspect(t) ==
  /\ freeing[t] # None
  /\ ~freeing[t].inspected
  /\ LET block == blocks[freeing[t].block]
     IN  slots' = [i \in Slot |->
                     IF slots[i] # None /\ IsLeftIn(slots[i].target, block)
                     THEN [slots[i] EXCEPT !.unwiped_frees = @ + 1] ELSE slots[i]]
  /\ freeing' = [freeing EXCEPT ![t].inspected = TRUE]
  /\ UNCHANGED <<watches, started, blocks, frees, found>>

Unwiped(target, block) ==
  IF target.kind = "bytes" THEN target.secret \in block.holds
  ELSE block.size = target.size /\ block.holds # {}

\* System.dealloc
EndFree(t) ==
  /\ freeing[t] # None
  /\ freeing[t].inspected
  /\ LET b == freeing[t].block
     IN  /\ blocks' = [blocks EXCEPT ![b].state = "free"]
         /\ found' = [w \in DOMAIN found |->
              IF w \in Alive /\ Unwiped(slots[watches[w]].target, blocks[b])
              THEN found[w] + 1 ELSE found[w]]
  /\ freeing' = [freeing EXCEPT ![t] = None]
  /\ UNCHANGED <<slots, watches, started, frees>>

Init ==
  /\ slots = [i \in Slot |-> None]
  /\ watches = [w \in {} |-> 0]
  /\ started = 0
  /\ blocks = [b \in Block |->
                 [state |-> "free", size |-> Min(Size), holds |-> {}, since |-> {}]]
  /\ freeing = [t \in Thread |-> None]
  /\ frees = 0
  /\ found = [w \in 1 .. MaxWatches |-> 0]

Next ==
  \/ \E target \in Target : StartWatch(target) \/ StartWatchRefused(target)
  \/ \E w \in Alive : DropWatch(w)
  \/ \E b \in Block : Write(b) \/ \E size \in Size : Alloc(b, size)
  \/ \E t \in Thread :
       \/ Inspect(t)
       \/ EndFree(t)
       \/ \E b \in Block : Dealloc(t, b)
       \/ \E b, new \in Block, size \in Size : Realloc(t, b, new, size)

Spec == Init /\ [][Next]_vars

-----------------------------------------------------------------------------
(* Properties *)

\* Types.
TypeOK ==
  /\ slots \in [Slot -> [target : Target, unwiped_frees : 0 .. MaxFrees] \cup {None}]
  /\ Alive \subseteq 1 .. started /\ \A w \in Alive : watches[w] \in Slot
  /\ blocks \in [Block -> [state : {"free", "live", "freeing"}, size : Size,
                           holds : SUBSET Secret, since : SUBSET (1 .. started)]]
  /\ freeing \in [Thread -> [block : Block, inspected : BOOLEAN] \cup {None}]

\* Each watch alive has a slot of its own and every other slot is free, however
\* starts, drops and frees interleave: Full is returned only for MAX_WATCHES
\* watches alive, and no watch reads another's count.
SlotsMatchWatches ==
  /\ \A w \in Alive : slots[watches[w]] # None
  /\ \A v, w \in Alive : watches[v] = watches[w] => v = w
  /\ Slot \ Free = {watches[w] : w \in Alive}

\* What a test relies on (QW-U-CRY-050): if a watch has counted nothing, no memory
\* freed by a dealloc called since it started still holds its secret, until the
\* address is allocated again, unless its dealloc is still to look at it.
NothingFreedUnseen ==
  \A b \in Block : \A w \in blocks[b].since \cap Alive :
    LET target == slots[watches[w]].target
        to_inspect == \E t \in Thread : /\ freeing[t] # None
                                        /\ freeing[t].block = b
                                        /\ ~freeing[t].inspected
    IN  Unwiped(target, blocks[b]) /\ ~to_inspect => UnwipedFrees(w) > 0

\* A watch counts frees of its own lifetime only, and only of unwiped blocks: its
\* count is at most the unwiped frees that ended since it started and those that
\* are under way.
CountsOnlyItsOwnFrees ==
  \A w \in Alive :
    UnwipedFrees(w) <= found[w] +
      Cardinality({t \in Thread : /\ freeing[t] # None
                                  /\ freeing[t].inspected
                                  /\ Unwiped(slots[watches[w]].target, blocks[freeing[t].block])})

=============================================================================
