------------------------------ MODULE SecretPage ------------------------------
(***************************************************************************)
(* The life of a SecretKey, crates/quietwire-crypto/src/secret.rs: a block *)
(* of its own, locked in RAM if the system agrees, written in place, and   *)
(* on drop wiped, unlocked and freed, in that order.  Keys live and die    *)
(* concurrently in blocks that may share a page of the system, and the     *)
(* system swaps out what is not locked.                                    *)
(***************************************************************************)
EXTENDS Integers, FiniteSets

CONSTANTS
  Block,            \* the 16 KiB-aligned blocks a key may be given
  PagesPerBlock,    \* system pages in a block, where those are the smaller
  Key               \* key values; a new key may have any

ASSUME PagesAssumption == PagesPerBlock \in Nat \ {0}

VARIABLES
  page_size,  \* of the system: "small" divides a block, of a "large" page blocks share one
  block,      \* block[b]: where its key is in its life, its bytes, and its RAM lock
  locked,     \* the pages the system keeps in RAM; unlocking once undoes every lock
  promised,   \* the blocks whose last key was locked (history)
  swapped     \* swapped[b]: the bytes of its last key that reached the swap (history)

vars == <<page_size, block, locked, promised, swapped>>

Zeroed == "zeroed"
Partial == "partial"   \* what a failed write may leave

Page == Block \X (1 .. PagesPerBlock) \cup {<<"shared", 0>>}

PagesOf(b) == IF page_size = "small" THEN {b} \X (1 .. PagesPerBlock) ELSE {<<"shared", 0>>}

\* DEDICATED_PAGE_SIZE is a multiple of the page size.
CoversWholePages == page_size = "small"

Init ==
  /\ page_size \in {"small", "large"}
  /\ block = [b \in Block |-> [state |-> "free", bytes |-> Zeroed, ram_lock |-> FALSE]]
  /\ locked = {}
  /\ promised = {}
  /\ swapped = [b \in Block |-> {}]

-----------------------------------------------------------------------------
(* Building a key *)

\* `zeroed`: a zeroed block, then its RAM lock, which the system may refuse.
New(b) ==
  /\ block[b].state = "free"
  /\ \E granted \in BOOLEAN :
       LET lock == CoversWholePages /\ granted
       IN  /\ block' = [block EXCEPT ![b] =
                          [state |-> "new", bytes |-> Zeroed, ram_lock |-> lock]]
           /\ locked' = IF lock THEN locked \cup PagesOf(b) ELSE locked
           /\ promised' = IF lock THEN promised \cup {b} ELSE promised \ {b}
  /\ swapped' = [swapped EXCEPT ![b] = {}]
  /\ UNCHANGED page_size

\* `build_in_place`: the write succeeds, and the key goes to the caller.
Write(b, key) ==
  /\ block[b].state = "new"
  /\ block' = [block EXCEPT ![b].state = "live", ![b].bytes = key]
  /\ UNCHANGED <<page_size, locked, promised, swapped>>

\* Mutant: a key whose write failed is freed without being wiped.
WriteFailsAndFrees(b) ==
  /\ block[b].state = "new"
  /\ block' = [block EXCEPT ![b].state = "free", ![b].bytes = Partial, ![b].ram_lock = FALSE]
  /\ locked' = IF block[b].ram_lock THEN locked \ PagesOf(b) ELSE locked
  /\ UNCHANGED <<page_size, promised, swapped>>

\* The write fails, perhaps halfway, and `?` drops the key that was being built.
WriteFails(b) ==
  /\ block[b].state = "new"
  /\ \E bytes \in {Zeroed, Partial} :
       block' = [block EXCEPT ![b].state = "dropping", ![b].bytes = bytes]
  /\ UNCHANGED <<page_size, locked, promised, swapped>>

-----------------------------------------------------------------------------
(* Dropping it *)

BeginDrop(b) ==
  /\ block[b].state = "live"
  /\ block' = [block EXCEPT ![b].state = "dropping"]
  /\ UNCHANGED <<page_size, locked, promised, swapped>>

\* Mutant: the lock goes before the bytes.
UnlockFirst(b) ==
  /\ block[b].state = "dropping"
  /\ block' = [block EXCEPT ![b].state = "wiped", ![b].ram_lock = FALSE]
  /\ locked' = IF block[b].ram_lock THEN locked \ PagesOf(b) ELSE locked
  /\ UNCHANGED <<page_size, promised, swapped>>

\* SecretKey::drop
Wipe(b) ==
  /\ block[b].state = "dropping"
  /\ block' = [block EXCEPT ![b].state = "wiped", ![b].bytes = Zeroed]
  /\ UNCHANGED <<page_size, locked, promised, swapped>>

\* Mutant: the guard goes without unlocking.
UnlockForgotten(b) ==
  /\ block[b].state = "wiped"
  /\ block' = [block EXCEPT ![b].state = "unlocked", ![b].ram_lock = FALSE]
  /\ UNCHANGED <<page_size, locked, promised, swapped>>

\* Then the fields in their order: ram_lock, whose guard unlocks the pages...
Unlock(b) ==
  /\ block[b].state = "wiped"
  /\ block' = [block EXCEPT ![b].state = "unlocked", ![b].ram_lock = FALSE]
  /\ locked' = IF block[b].ram_lock THEN locked \ PagesOf(b) ELSE locked
  /\ UNCHANGED <<page_size, promised, swapped>>

\* ... and page, which frees the block.
Release(b) ==
  /\ block[b].state = "unlocked"
  /\ block' = [block EXCEPT ![b].state = "free"]
  /\ UNCHANGED <<page_size, locked, promised, swapped>>

\* The system writes a page that is not locked to the swap.
SwapOut(p) ==
  /\ p \notin locked
  /\ swapped' = [b \in Block |->
       IF p \in PagesOf(b) THEN swapped[b] \cup ({block[b].bytes} \ {Zeroed}) ELSE swapped[b]]
  /\ UNCHANGED <<page_size, block, locked, promised>>

Next ==
  \/ \E b \in Block :
       \/ New(b) \/ WriteFails(b) \/ BeginDrop(b) \/ Wipe(b) \/ Unlock(b) \/ Release(b)
       \/ \E key \in Key : Write(b, key)
  \/ \E p \in Page : SwapOut(p)

Spec == Init /\ [][Next]_vars

-----------------------------------------------------------------------------
(* Properties *)

\* Types; and a lock is held on whole pages only.
TypeOK ==
  /\ block \in [Block -> [state : {"free", "new", "live", "dropping", "wiped", "unlocked"},
                          bytes : Key \cup {Zeroed, Partial}, ram_lock : BOOLEAN]]
  /\ locked \subseteq Page
  /\ promised \subseteq Block
  /\ swapped \in [Block -> SUBSET (Key \cup {Partial})]
  /\ page_size = "large" => locked = {}

\* A block that no key owns holds nothing of the key that was there, also after a
\* write that failed halfway (QW-U-CRY-050).
FreedBlocksAreWiped == \A b \in Block : block[b].state = "free" => block[b].bytes = Zeroed

\* While is_memory_locked says so, every page of the key is locked, whatever other
\* keys are built and dropped meanwhile: dropping one never unlocks another
\* (the comment on lock_in_ram).
LockedKeysStayInRam ==
  \A b \in Block : block[b].ram_lock => PagesOf(b) \subseteq locked

\* No bytes of a key that was ever reported as locked reach the swap, before its
\* lock, while it lives, or between the end of the lock and the end of the block.
LockedKeysNeverSwap == \A b \in promised : swapped[b] = {}

\* The system gets every page back: no lock outlives its key, failed keys included.
NoLockOutlivesItsKey ==
  locked = UNION {PagesOf(b) : b \in {c \in Block : block[c].ram_lock}}

=============================================================================
