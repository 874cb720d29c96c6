# Quietwire: models and proofs

TLA+ models of the parts of Quietwire that keep state, the TLC configurations
that check them on small instances, and theorems that TLAPS proves for every
value of the limits.

## 1. The system

The repository holds a long design (`README.md`, `docs/PROTOCOL.md`, the ADRs)
and the code of its first milestones. What has code:

| Part | Source | State | Operations | Talks to |
|---|---|---|---|---|
| Double Ratchet session | `crates/quietwire-e2e/src/ratchet.rs` | `Session`: root key, own and remote ratchet keys, sending and receiving chain, previous chain length, skipped keys | `initiator`, `responder`, `encrypt`, `decrypt` | the peer's session, by frames that some carrier takes |
| Hybrid X3DH | `crates/quietwire-e2e/src/x3dh.rs` | none (keys are the caller's) | `initiate`, `respond` | gives both sessions their shared key |
| Cell | `crates/quietwire-packet/src/cell.rs` | a value: head, hop budget, body | `from_bytes`, `to_bytes`, `forwarded` | carries one frame; relays spend `ttl` |
| Key hierarchy | `crates/quietwire-crypto/src/{hierarchy,password}.rs` | values: KEK, DEK, wrapped DEK | `wrap_with`, `unwrap_with`, `subkey` | storage, which has no code yet |
| `SecretKey` | `crates/quietwire-crypto/src/secret.rs` | a page of its own, an optional RAM lock | `random`, `from_slice`, `drop` | every part that holds a key |
| Scanning allocator | `crates/quietwire-crypto-memtest` | 16 watch slots behind a mutex | `watch_*`, `unwiped_frees`, `dealloc`, dropping a `Watch` | all threads of a test binary |
| Primitives | the other files of `crates/quietwire-crypto/src` | none | seal, open, DH, KDFs, ML-KEM | |
| Timing gate | `tools/ci/constant-time.sh`, `tools/timing` | a log of t statistics, and what its `awk` program counts in it | a run of the benches, a verdict | CI; the code under test, which the benches measure |
| Ratchet fuzz target | `tools/fuzz/fuzz_targets/ratchet_session.rs` | two sessions, two inboxes, `bob_has_received` | `send`, `deliver`, `tamper` | the ratchet, which it makes assertions about |

`quietwire-core`, `-store`, `-route`, `-transport`, `-ffi` and the apps are
placeholders. `tools/fuzz/fuzz_targets/ratchet_header.rs` is straight-line code
around three calls of `decrypt`; its assertions are instances of the ratchet's
properties. The rest of `tools/` are scripts around external services.

### What is hard

* **Order, loss and repetition.** A delay-tolerant carrier may hand over any
  frame at any time, or never, or twice. What `decrypt` does with a frame
  depends on whether its key is in the store, in the receiving chain, behind
  it, or in a chain that a ratchet step has to open first.
* **Failure halfway.** `decrypt` derives keys and skips numbers before it knows
  that the frame is genuine, and can fail at six places.
* **Limits.** 2 000 keys in a chain, 1 000 skipped by one frame or kept of one
  chain, 10 000 kept in all: eviction, refusal and blocking interact.
* **Two sides in step.** Root keys alternate; a wrong DH order or a stale
  `previous_sending_len` shows only several frames later.
* **Secrets over time.** No state may lead back to a key that has been used.
* **Many sessions.** Nothing in a frame or an initial message names a session.
  A pair may have several, an initial message may be answered twice, and a copy
  of one session must not lead to another.
* **Evidence.** The timing gate decides from runs of which some count and some
  do not, and stops at the first clean verdict; the fuzz target takes the
  ratchet to have no limits.
* Elsewhere: keys of the two X3DH sides that differ without an error, cells at
  their last hop, the order of wiping, unlocking and freeing a page, slots
  reused by another watch.

`PROJECT.json` lists these hazards at their lines.

### What makes each part correct

* Ratchet: every message is returned at most once, and once unless a limit
  drops its key; only the peer's frames open; only authentic frames change a
  session; used keys are out of reach; the store stays within its limits and
  evicts the oldest; sending resumes.
* X3DH: both sides hold the same key exactly if they agree on the whole
  transcript, and no key belongs to two sessions.
* The two together: a session opens its partner's frames and no others,
  partners understand each other, a copy stays in its session and heals.
* Cell: a cell is forwarded at most `ttl` times, and no relay changes what the
  seal covers.
* Key hierarchy: a wrapped DEK opens under its own KEK only, before and after
  a change of password.
* `SecretKey`: a page is never freed with a key in it, nor locked twice.
* Scanning allocator: a watch counts the frees of its own lifetime only.
* Timing gate: a leak is declared exactly if every usable run crossed the
  threshold with one sign; a pass rests on evidence for every bench.
* Fuzz target: its assertions hold for every input it can get.

## 2. Modules

| Module | Contents |
|---|---|
| `RatchetSession` | one session as a value: what `encrypt` and `decrypt` answer, and the session they leave; no variables |
| `Ratchet` | extends it with two sessions and the carrier; the properties of the ratchet |
| `OnceChannel` | the abstract promise: fresh key per message, each message returned at most once, in any order |
| `RatchetOnce` | the refinement mapping from `Ratchet` to `OnceChannel`, and the inductive invariant `OnceInv` |
| `RatchetFuzz` | extends `RatchetOnce` with the assertions of the fuzz target |
| `MCRatchet` | the module of the ratchet's runs |
| `Conversation` | composes `X3dh` (an instance) with sessions of `RatchetSession`: all sessions of a pair, and a copy of one |
| `RatchetProofs` | facts about the store's operators, type correctness, `OnceInv` and the safety theorems that follow from it, the refinement, and that only authentic frames change a session; then the two sessions in step, the order of the store, which frames open, and the fuzz target |
| `ConversationProofs` | the talk that each session takes part in, who has sealed what it opens, what a copy leads to, and which frames a session has the keys of |
| `X3dh` | sessions started and initial messages answered, with the keys both sides derive |
| `CellRelay` | cells, relays and links |
| `KeyHierarchy` | DEKs, their wrappings and subkeys |
| `SecretPage` | the blocks of secret keys and the RAM locks on them |
| `ScanningAllocator` | threads, blocks, watches and slots |
| `TimingGate` | the CI script that judges the timing benches |
| `X3dhProofs`, `CellRelayProofs`, `KeyHierarchyProofs`, `SecretPageProofs`, `ScanningAllocatorProofs`, `TimingGateProofs` | the theorems of these modules |
| `MCConversation`, `MCX3dh`, `MCCellRelay`, `MCKeyHierarchy`, `MCSecretPage`, `MCScanningAllocator`, `MCTimingGate` | the modules of their runs |

The parts below the ratchet do not call each other in the code, apart from the
primitives, so each has a module of its own. `Ratchet` starts where one run of
`X3dh` ends, with two sessions whose keys agree; `Conversation` starts from
nothing and has every session that calls of `X3dh` lead to. Both use the same
`RatchetSession`, so that a rule of the code is written once.

### How `Ratchet` stands for the code

**State.** `session[p]` has the fields of `Session`. `sent[p]` is what `p` has
sealed; since a carrier may repeat and delay, this is also what may arrive, and
a frame that is lost is one that is never picked. `opened`, `evicted`, `sealed`
and `returned` are histories that no guard of the code's actions reads
(`sealed` only names the plaintexts).

**Keys** are symbolic. A ratchet key pair is `<<party, index>>`; a
Diffie-Hellman secret is the set of the two public keys, the same from both
sides; a root key is the sequence of the secrets that `kdf_root` was given.
The chain key that comes with it has the same name, and a message key is a
chain and a number. So two keys are equal only if they were derived alike: the
HKDF and HMAC are taken to be injective, and the AEAD opens only under the key
and the header it was sealed with. The 24-byte nonce is left out: it is random,
and a frame with an altered nonce is a frame that does not open (`body`).

**The store** is a function from a finite set of positions, front to back, to
entries. `Without` removes positions, `PushBack` appends after the last, and
`Oldest(S, n)` is the first `n` of `S`, so that both evictions are one operator
and no recursion is needed. `Extend` is the whole of `SkippedKeys::extend`:
append, evict the oldest of the chain, pop from the front.

**Actions.**

| Action | Code |
|---|---|
| `Encrypt`, `EncryptRefused` | `Session::encrypt` with its result `Ok`, or `SendingBlocked` |
| `DecryptSkipped` | `decrypt_with`, the key is in the store |
| `DecryptInReceivingChain` | `decrypt_in_receiving_chain` |
| `DecryptAfterRatchetStep` | `decrypt_after_ratchet_step`: both `kdf_root`, both `extend`, all seven fields |
| `DecryptRefused` | every error of `decrypt`, the RNG's among them |

`DecryptResult` gives the answer of `decrypt` in the order in which the code
finds it out, and the properties ask it what a frame would be answered now.

**The carrier** hands over any frame that either party has sealed, to either
party, whole or with one part altered: another ratchet key (of low order, a
stranger's, or of any frame), any number in `0..CHAIN_LIMIT + 1` in the two
counters, or a broken body.

**Assumptions and limits of the model.** The X3DH keys agree and the signed
prekey is not of low order. An RNG failure refuses the call. One session pair
(`Conversation` has several); no copy of a session is ever restored. Timing and
memory are out of scope.

### `RatchetFuzz`

The target's conversation is `Ratchet`: an inbox is `sent` of the peer, the flag
that a frame was opened is `opened`, a tampering changes a byte in one of four
parts of a frame. The three assertions become operators that say when each
would fail, for any frame that could be picked in a state (`SendPanics`,
`DeliverPanics`, `TamperPanics`). The target expects every genuine frame to open,
although the ratchet refuses some that are too far ahead and evicts keys. It is
right because every frame costs one of the input's `MAX_ACTIONS`. In the run
frames may skip 2 keys, and `HarnessNeverPanics` holds with 4 actions and not
with 5; the code's numbers are 1 000 and 256.

### `Conversation`

A handle is a call of `initiate` or `respond` that succeeded, and `session[h]`
the session its caller made from the key (as `tests/ratchet.rs:77` does).
`Encrypt`, `DecryptWithKeyOnHand` and `DecryptAfterRatchetStep` are the calls on
any of them with any frame of any other; a call that is refused changes nothing
and is a stuttering step. A root key starts with the name of the first call that
returned the shared key, since only equality of keys matters after X3DH.
`Copy` records all that one session holds, once, at any time; `copy.stepped`
notes when the original has made its next ratchet step, and `CopyHeals` says
that after the peer has answered a frame sealed since then, neither seals under
a key that the copy leads to (QW-P-E2E-065). `Derivable`, what a session leads
to, is the operator that `ForwardSecrecy` uses as well.

`PartnersUnderstandEachOther` speaks of initial messages that were answered
once. Answering a copy of one again is something `respond` cannot notice; the
caller has to, by retiring the one-time prekey. What happens if it does not is
in `OpensOnlyItsPartner`: both answers open the initiator's first frames, and
the initiator goes on with the one whose frame it opens first.

### `TimingGate`

`Measure` is a turn of the loop: a run of the benches, each with any t statistic
and with enough samples or not, and the verdict on the log. The script reads the
whole log with a new `awk` process each time; the counters are what that process
arrives at, and a run can add to them since `awk` reads in order. `Crash` is a
bench that fails under `set -e`; `FinalVerdict` is the last line. The properties
are stated about the log, not the counters.

### `X3dh`

`initiate` and `respond` keep nothing, so the state is a history of their calls:
`starts` and `answers` with the keys derived, and `drawn`, which numbers the
ephemeral keys and KEM seeds. A shared key is the sequence of its secrets and
the transcript, since both go through a hash. `Initiate` and `InitiateRefused`
are the results of `initiate`, `Respond` and `RespondRefused` those of
`respond`. Who an initial message comes from and which one-time prekey it was
made for is not in it (the responder's caller says so), and the model lets the
caller say anything. The carrier may replace the ephemeral key and the
ciphertext, by those of other messages too; bundles may have a low-order key.
A ciphertext for another key decapsulates to a secret of its own, without an
error, as ML-KEM's implicit rejection does.

### `CellRelay`

`air` and `held` are the cells on links and in relays. `Send` is the chain of
constructors, `Receive` and `Refuse` are `from_bytes`, `PassOn` and `Drop` are
`forwarded` with its results. The code has no router: a relay may pass a cell
on to any neighbours, itself and the last one included, and remembers nothing.
`forwarded` leaves the copy budget as it is, and so does the model. A body is
what its seal covers, so it opens exactly if `Aad` of the cell that carries it
is the same. `links` and `intact` are histories.

### `KeyHierarchy`

A KEK is what Argon2 was called with: the password, the salt and the three cost
figures of a profile, not the profile's name. `memory` are
the DEKs in use, `wrapped` the wrappings that were ever made; the caller may
read any of them back, whole or damaged, and try any password on it. `of` names
the DEK first generated, through all rewrappings. A failing
RNG or Argon2 refuses the call and leaves nothing.

### `SecretPage`

`block[b]` is a block with its key, its bytes and its `RamLock`; the steps of
`zeroed`, `build_in_place` and `drop` are actions of their own, so that keys of
several threads interleave and the system can swap between any two steps.
Dropping the fields in their order is `Unlock`, then `Release`. `page_size` is
`"small"` when a block covers whole system pages and `"large"` when it does not,
in which case the code takes no lock. Locks are not counted by the system, so
unlocking removes a page whoever else locked it.

### `ScanningAllocator`

The slots' mutex is held for the whole of an access, and nothing is freed under
it, so an access is one step. `dealloc` takes three: the call, the inspection
under the lock, and the system's free. The allocator does not override
`realloc`, whose default is an allocation, a copy and a `dealloc`. Fresh memory
may hold what earlier owners left. `since` and `found` are histories. A byte
string is a member of `Secret`, or `Zero` for what wiped memory would match.

## 3. Runs

The runs of the ratchet have Alice and Bob and start where X3DH ends.

| Run | CHAIN / SKIP / TOTAL | Checks | Shows |
|---|---|---|---|
| `ratchet_damage` | 3 / 3 / 9, all damage | `EveryFrameOpens`, `OpensOnlyThePeers`, `OnlyAuthenticFramesChangeASession`, `ImplementsOnceChannel` | what holds while no skip limit binds, against the worst carrier |
| `ratchet_limits` | 4 / 2 / 3 | `OpensAtMostOnce`, `OpensUnlessEvicted`, `SkippedKeysBounded`, `EvictsOldestFirst`, `ForwardSecrecy`, `RootKeysInStep`, `ReceivesOnlySealedNumbers`, `HarnessNeverPanics` | what holds when every limit binds |
| `ratchet_liveness` | 3 / 1 / 2 | `EverySealedFrameSettles`, `SendingResumes` | progress under fairness |
| `ratchet_replay`, `ratchet_resume` | | one property each, violated | section 6 |

| Run | Bounds | Checks | Shows |
|---|---|---|---|
| `conversation` | 2 parties, 2 starts, 2 answers, 4 frames, 3 / 3 / 9 | `TypeOK`, `OpensOnlyItsPartner`, `NoKeySealsTwoFrames`, `PartnersUnderstandEachOther`, `CopyStaysInItsSession`, `CopyHeals` | that sessions of a pair do not mix, and that a copied one heals |
| `x3dh` | 2 parties, 2 starts, 1 answer, one-time prekeys 1 or none, everything altered | `KeysAgreeExactlyOnOneView`, `NoKeyInTwoSessions`, `KeyNeedsBothHalves`, `AnswerNeedsTheClaimedIdentity` | when keys agree, and which private keys they take |
| `cell_relay` | 2 nodes, 1 cell sent, budget up to 2, 1 altered field | `SealSurvivesRelays`, `BudgetIsExact`, `EveryHopIsUsed`, `EveryCellComesToRest` | what the hop budget and the seal promise in circles and floods |
| `key_hierarchy` | 2 passwords, 2 salts, both cost profiles, 5 values drawn | `UnwrapInvertsWrap`, `SubkeysSurviveRewrapping` | wrapping and changes of password in any order |
| `secret_page` | 3 blocks, small and large pages | `FreedBlocksAreWiped`, `LockedKeysNeverSwap`, `NoLockOutlivesItsKey` | the order of wiping, unlocking and freeing |
| `allocator` | 2 threads, 2 blocks, 2 slots, 3 watches, 2 frees | `TypeOK`, `SlotsMatchWatches`, `NothingFreedUnseen`, `CountsOnlyItsOwnFrees` | that a count of zero means what the tests take it to mean |
| `timing_gate` | 1 operation, 1 planted leak, 3 runs, t on both sides of the threshold and of 0 | `LeakMeansEveryRunCrossed`, `PassRestsOnEvidence`, `ClearedOperationsStayCleared` | that the counters give the verdict the script promises |

The type invariants of the other modules are theorems (section 4) and are not
checked again.

**Why these bounds are enough.** Two starts are needed for a field of one
message to arrive in another; `NoKeyInTwoSessions` compares the one answer
recorded with every answer that could be given instead. Two nodes make a
circle and a fork, and a budget of 2 has a first, a middle and a last link; the
second message is never sent and stands for another tag and nonce. Five draws
allow two DEKs with three wrappings, or a DEK wrapped four times; passwords,
salts and profiles differ one at a time and together. The profiles have the
code's own figures, since what tells their KEKs apart is a figure. Three keys
are one more than a wrong unlock needs. Three watches on two slots make the
slots run out and be reused, and two threads free two blocks at once. In a
conversation, two starts are two sessions of a pair, in one direction or both;
two answers are one message answered twice, or each start answered; four frames
are a round trip and a frame in each direction after it, which healing needs.
Nothing is altered there and no one-time prekey is used: what altered messages
lead to is the question of `x3dh`.
Three runs are the script's own number, and one operation and one planted leak
are enough since benches do not share counters. The MC modules say which
symmetry is used (`ScanningAllocator`: threads and addresses; `KeyHierarchy`:
passwords and salts; `Conversation`: the two parties; only safety is checked
there).

**Fairness of cells.** `CellRelay!FairSpec` has weak fairness of `Handle`
(relays do not keep a cell for ever: `forwarded` never waits) and of `Arrive`
(a link delivers or loses what it carries). `EveryCellComesToRest` needs both,
and nothing about which neighbours are chosen.

**Bounds of the ratchet.** `MaxChains = 3`: only the first three sending chains (Alice, Bob,
Alice) carry frames. Three chains are the fewest with which a party's receiving
chain is replaced while frames of the old one are on their way, with both kinds
of `extend` in one step, and a frame can belong to the chain before the last.
The limits keep the code's proportion `CHAIN_LIMIT = 2 * MAX_SKIP_PER_CHAIN`
where they are to bind (4 / 2), and the total of 3 is smaller than what two
chains may keep, so that both evictions happen, also in the same call. Chains
of 4 frames are enough for a frame to be too far ahead first and in reach
later. The state space is finite without a constraint: `Encrypt` stops at
`CHAIN_LIMIT` and `MaxChains`, and receiving follows sending.

**Fairness of the ratchet.** `Ratchet!FairSpec` asks for weak fairness of each party's `Encrypt` and
of `Deliver`, the arrival of some genuine frame that opens. Both are
assumptions about the surroundings, not about the code: `encrypt` and `decrypt`
never wait, so the only things that can stop progress are a user who never
writes again and a carrier that never delivers anything that could be opened.
`Deliver` does not say which frame arrives, nor that each one does: the carrier
may hold a particular frame back for as long as there is another one to open.
`EverySealedFrameSettles` is stronger than that looks: since keys are finite
and each opens once, the others run out.

**Properties that need a word.**
`EveryFrameOpens` (QW-P-E2E-060, 061) is about any state: the peer's frames
that have not opened yet would all open next, in whatever order the others
came. `OpensUnlessEvicted` is what remains of it under the limits: never
`Authentication` unless the key was dropped, at worst `TooFarAhead`.
`ForwardSecrecy` (QW-P-E2E-064) is about what the whole state gives away:
`Derivable` closes it under both KDFs and under the own DH key with any public
key. `RootKeysInStep` and `ReceivesOnlySealedNumbers` relate the two sessions.

## 4. Proofs

### The ratchet

For all values of `CHAIN_LIMIT`, `MAX_SKIP_PER_CHAIN`, `MAX_SKIPPED_TOTAL` and
`MaxChains`, and any subset of the kinds of damage:

| Theorem | Statement |
|---|---|
| `TypeCorrect` | `Spec => []TypeOK` |
| `KeysBounded` | `Spec => []SkippedKeysBounded` |
| `OnceInvariant` | `Spec => [](TypeOK /\ OnceInv)` |
| `AtMostOnce` | `Spec => []OpensAtMostOnce` |
| `OnlyThePeers` | `Spec => []OpensOnlyThePeers` |
| `Implements` | `Spec => ImplementsOnceChannel` |
| `OnlyAuthenticFrames` | `Spec => OnlyAuthenticFramesChangeASession` |
| `PastFramesStaySecret` | `Spec => []ForwardSecrecy` |
| `InStepInvariant` | `Spec => [](TypeOK /\ OnceInv /\ InStepInv)` |
| `InStep` | `Spec => []RootKeysInStep` |
| `OnlySealedNumbers` | `Spec => []ReceivesOnlySealedNumbers` |
| `DeliveryInvariant` | `Spec => [](TypeOK /\ OnceInv /\ InStepInv /\ DeliveryInv)` |
| `OldestGoFirst` | `Spec => []EvictsOldestFirst` |
| `OpensUntilEvicted` | `Spec => []OpensUnlessEvicted` |
| `LimitsInvariant` | `Spec => [](TypeOK /\ OnceInv /\ InStepInv /\ DeliveryInv /\ LimitsInv)` |
| `AnswersAreFinal` | `Spec => []WithinLimitsAnswers` |
| `UnopenedFramesOpen` | `Spec => []EveryFrameOpens`, if a conversation fits the skip limits |
| `NoInputPanics` | `Spec => []HarnessNeverPanics`, if an input is too short for the limits |

They assume that the limits are naturals and a chain has a number
(`LimitsAssumption`, `BoundAssumption`, `HarnessAssumption`), that the carrier
damages known parts only (`DamageAssumption`), that `None` is neither a key nor
a chain (`NoneAssumption`), and that no key pair of a party is of low order or
`None` (`KeysAssumption`; X25519 clamps its scalars, so none that is generated
is). TLC evaluates the assumptions of every module. Only the last two theorems
assume anything of the limits' values:

* `UnopenedFramesOpen`: `CHAIN_LIMIT <= MAX_SKIP_PER_CHAIN` and
  `MaxChains * CHAIN_LIMIT <= MAX_SKIPPED_TOTAL`. The code's numbers are not
  like that (2 000 and 1 000); `EveryFrameOpens` is about what holds while no
  skip limit binds, and `ratchet_damage` has such limits.
* `NoInputPanics`: `MAX_ACTIONS <= CHAIN_LIMIT`, and `MAX_ACTIONS - 2` is at
  most `MAX_SKIP_PER_CHAIN` and `MAX_SKIPPED_TOTAL`. The code has 256 actions
  and limits of 2 000, 1 000 and 10 000, so no input of the target can fail for
  the reason its author left out. The bound is tight: with 5 actions and a
  limit of 2, TLC finds a frame that is refused.

`AnswersAreFinal` says the same without such a condition, state by state:
wherever the frames a peer has sealed fit the store, the code's answers to all
of them are the ones its tests expect.

**The argument.** That a frame opens at most once is not inductive: one has to
know where its key may still come from. `OnceInv` says that a message key is in
one of three places. Ahead: in a chain longer than the root key, or in the
receiving chain at `next` or beyond. Stored: in one entry of the store, behind
the receiving chain. Used: the key of an opened frame, behind the receiving
chain and not in the store. The three ways of opening move one key from ahead
or stored to used, and the skipped keys from ahead to stored; eviction only
removes. A ratchet step opens a chain that is longer than every chain used
before, so its keys are new. For sending, the same: every sealed number of the
current chain is below `next`, and a ratchet step starts a longer chain.
Alice's chains have odd lengths and Bob's even ones, so the two never seal
under the same key, and a frame turned back to its sender has no key there.
A frame whose key is whole and whose header is the one it was sealed with is
the frame that was sealed (`GenuineArrival`), whatever the carrier altered.

`RatchetProofs` begins with facts about the store: `PushBack` keeps entries
and positions and adds one entry per number, `Extend` only removes from that.
They rest on the least number principle, from which the existence of a maximum
follows by a minimal counterexample. `OldestLeft` counts what eviction leaves:
the first position kept has at least as many before it as there were too many.
So `Extend` cuts the chain it pushed to and the whole store down to their
limits, and `WithinLimits`, which bounds the chain of every ratchet key whether
it has an entry or not, is inductive. `ForwardSecrecy` follows from `OnceInv`
and the lengths of chains: a used key is behind both chains, not stored, and on
a chain no longer than the root key.

**In step.** `InStepInv` relates the two sessions and the frames between them.
One party is ahead: its root key is `kdf_root` of the other's and one more
secret, it knows the other's ratchet key, and the other does not know its own.
All chains start from prefixes of the longer root key, so the length of a chain
tells it from the others (`SamePrefix`), and its ratchet key and numbers with
it. A frame whose key would make the receiver step is therefore of the chain
that the step derives (`StepFollowsPeer`), and the step makes the other party
the one that is ahead.

**Delivery.** `DeliveryInv` follows each frame of the peer's. The store is in
order, per chain by number, with every evicted key before every stored one
(`StoreInOrder`); a frame whose key lies behind the receiving chain has opened,
is stored, or has been evicted (`Accounted`). That the store is in order after
`extend` takes both kinds of eviction in one call (`ExtendInOrder`). What has
neither opened nor been evicted is then stored, in the receiving chain, or on a
later one, and in each place `decrypt` answers `Ok` or `TooFarAhead`.

**Limits.** `OpensUntilEvicted` allows two failures, and `LimitsInv` says when
neither happens. A session seals its numbers without gaps and announces the
length of a chain it has sealed (`NoGaps`), so what a frame skips has been
sealed, and so has every key in the store, whatever damaged frames claimed
(`Kept`). Skipping and storing are then bounded by counting the peer's frames:
distinct keys belong to distinct frames (`EntriesFewer`, `NumbersFewer`). While
the frames other than the one just opened fit (`LimitsSuffice`), nothing is
evicted and nothing is too far ahead; the fuzz target's two assertions about
genuine frames follow, the third is authentication (`OpensWhole`), and `Waits`
says that nobody but Bob before his first frame is ever blocked.

### Pages of secret keys

For any sets of blocks and keys and any number of pages in a block
(`PagesAssumption`: at least one):

| Theorem | Statement |
|---|---|
| `FreedAreWiped` | `Spec => []FreedBlocksAreWiped` |
| `LockedStay` | `Spec => []LockedKeysStayInRam` |
| `LockedNeverSwap` | `Spec => []LockedKeysNeverSwap` |
| `LocksEnd` | `Spec => []NoLockOutlivesItsKey` |

None of the first three is inductive. `PageInv` adds what connects them:
`LifeOfAKey` (bytes are zero in every state but the two in which a key may be
there, a lock is gone before the block is, and there is one only where blocks
have pages of their own) and `PromiseKept` (a key that was locked is locked
still, or wiped). The set of locked pages is then exactly the pages of the
holders, and since pages of two blocks are apart (`PagesApart`), unlocking one
takes nothing from another (`UnlockedPages`).

### X3DH

For any parties, any one-time prekeys, anything the carrier alters and any
number of sessions (`NamesAssumption`: whoever made a substituted key is none of
the parties, and one-time prekeys are numbered):

| Theorem | Statement |
|---|---|
| `TypeCorrect` | `Spec => []TypeOK` |
| `KeysAgree` | `Spec => []KeysAgreeExactlyOnOneView` |
| `OneSessionPerKey` | `Spec => []NoKeyInTwoSessions` |
| `BothHalves` | `Spec => []KeyNeedsBothHalves` |
| `ClaimedIdentity` | `Spec => []AnswerNeedsTheClaimedIdentity` |

That different views give different keys is the transcript's doing. The other
direction takes the secrets: equal views join the same pairs of keys
(`SameSecrets`), provided that the ciphertext was made for the key which
decapsulates it. `SessionsInv` says so of every started session, and that its
ephemeral key was drawn for it alone. For the two theorems about who can hold a
key it says that a session was started from a bundle which its owner published
(`FromPublishedBundle`: a key that was replaced by one of low order is refused),
and that no answered message claims an identity of low order.

### Cells

For any nodes, messages, flags, limits and alterations (`None` is neither a cell
nor a body):

| Theorem | Statement |
|---|---|
| `TypeCorrect` | `Spec => []TypeOK` |
| `BudgetExact` | `Spec => []BudgetIsExact` |
| `SealSurvives` | `Spec => []SealSurvivesRelays` |
| `EveryHopUsed` | `Spec => EveryHopIsUsed` |

`RelayInv` adds to the types that a cell's body, on a link or in a relay, is the
sealed one or damaged, and that a cell no link has altered has its links and
hops adding up to the sender's budget.

### Key hierarchy

For any passwords and salts, the two cost profiles and any number of wrappings
(`NoneAssumption`: `None` is no sealed DEK):

| Theorem | Statement |
|---|---|
| `TypeCorrect` | `Spec => []TypeOK` |
| `UnwrapsAsWrapped` | `Spec => []UnwrapInvertsWrap` |
| `SubkeysSurvive` | `Spec => []SubkeysSurviveRewrapping` |

`HierarchyInv`: a wrapping seals the DEK first generated under the KEK of its
own input, and a DEK in memory is the one first generated. That no two inputs
give one KEK (`DeriveKekInjective`) rests on the profiles' figures, which differ
in the memory only.

### Timing gate

For any benches (no bench is both an operation and planted), any threshold,
attempts and values of t:

| Theorem | Statement |
|---|---|
| `TypeCorrect` | `Spec => []TypeOK` |
| `LeaksAreConsistent` | `Spec => []LeakMeansEveryRunCrossed` |
| `PassesRest` | `Spec => []PassRestsOnEvidence` |
| `ClearedForGood` | `Spec => ClearedOperationsStayCleared` |

`Evidence` says what two counters and a sign tell of the runs in the log: all
have crossed the threshold exactly if the counters are equal, and the sign is
that of all of them, or 0 if two disagree.

### Scanning allocator

For any threads, blocks, sizes, secrets, slots and numbers of watches and frees
(`BoundsAssumption`: these numbers are naturals; `ZeroAssumption`: wiped memory
holds no secret; `SizeAssumption`: there is a size; `NoneAssumption`: `None` is
none of the records it stands beside):

| Theorem | Statement |
|---|---|
| `AllocatorInvariant` | `Spec => []AllocatorInv` |
| `AllocatorTypes` | `Spec => []TypeOK` |
| `SlotsMatch` | `Spec => []SlotsMatchWatches` |
| `FreesAreSeen` | `Spec => []NothingFreedUnseen` |
| `CountsAreOwn` | `Spec => []CountsOnlyItsOwnFrees` |

`AllocatorInv` adds to the three properties what they need of each other.
`FreeingInv`: a block is freed by one thread at a time, and a live block carries
no record of earlier frees, so that a reused address does not count for its
former owner. `CountsInv`: a count and the frees still to be inspected are at
most the calls of `dealloc`, which bounds the count. That a dropped watch frees
a slot which no other live watch reads is `SlotsMatchWatches` itself.

### Conversations

For any parties, any number of calls and frames, anything the carrier alters and
any limits, under the assumptions of `RatchetSession` and `X3dh`, which
`Conversation` states of its own constants, and two more about its keys: none
that a session draws is of low order or `None` (`KeysAssumption`, as in
`Ratchet`), and `None` is no chain (`NoneAssumption`):

| Theorem | Statement |
|---|---|
| `TalkInvariant` | `Spec => []TalkInv` |
| `ConversationTypeCorrect` | `Spec => []TypeOK` |
| `ConversationNoKeySealsTwoFrames` | `Spec => []NoKeySealsTwoFrames` |
| `ConversationOpensOnlyItsPartner` | `Spec => []OpensOnlyItsPartner` |
| `ConversationCopyStays` | `Spec => []CopyStaysInItsSession` |
| `ConversationCopyHeals` | `Spec => []CopyHeals` |
| `UnderstandInvariant` | `Spec => [](TalkInv /\ UnderstandInv)`, if no limit binds |
| `ConversationPartnersUnderstand` | `Spec => []PartnersUnderstandEachOther`, if no limit binds |
| `ConversationImplementsX3dh` | `Spec => X!Spec` |

**The argument.** The invariant of `X3dh` is used as it is
(`XP == INSTANCE X3dhProofs`; `StepEstablishedInv`). From it: sessions with equal
keys go back to one message, and a message to one start (`KeyTellsTheMessage`,
`MessageTellsTheStart`), so the name that `SharedKey` picks is the same for all
sessions with a key, for ever (`SharedKeyTells`, `EstablishKeeps`).

`InTalk` says what the chains of a conversation look like: the shared key, then
secrets that the ratchet keys of its two ends join in turn. The length of a
chain and the two ends determine it, and a chain of three secrets tells both
ends, a shorter one only the first (`TalkTellsTheEnds`). `TalkInv` gives every
session such a talk: `Held` for all that it holds, by the number of keys it has
drawn; `Sealed` and `OpenedFrom` for its histories; and `Copied` for the copy,
which is what the session held when it had drawn fewer keys. A start does not
know to which answer it talks before it has made a step, which is why `Talking`
has the answer as an argument and why it is free until then
(`TalkingWithAnyone`).

A frame that opens is of a chain that the receiver holds or is about to derive.
Its length says that its sender took the other role (starts seal with chains of
even length, answers with odd ones), and its ends say which session that is
(`SealedByThePeer`, `StepFacts`). The theorems read this off: two sessions that
seal under one key are one session, and their frames one frame; the one session
whose frames open has the same key and so, by the theorem `KeysAgree` of `X3dh`,
the same view; all chains of a copy begin with its shared key (`HeldChains`); and
the chains that are sealed with after a copied session has stepped contain a
secret of two keys which are not the copy's (`NextSecretIsAnothers`).

**That partners understand each other** (`UnderstandInvariant`,
`ConversationPartnersUnderstand`) depends on the limits: a session that
is out of reach of a frame refuses it. These two theorems assume `FewFrames`:
all frames of the model fit in the store (`MaxFrames <= MAX_SKIPPED_TOTAL`), and
no skip is too long, because there are at most `MAX_SKIP_PER_CHAIN` frames or a
chain has no more. The run's constants satisfy it, and with those of the code
it covers up to 1000 frames, of all sessions together. A peer that misses more
from one chain refuses the next (section 6).

`UnderstandInv` says how two histories and a session fit together:

* `SealsInOrder`: the numbers that a session has sealed in its last two chains
  are those below `sending.next` and below `previous_sending_len`; and
  `InOrder`: each frame was sealed after those of its chain with lower numbers,
  and its header tells how many its sender had sealed before that chain.
* `InStep`: a session that has received nothing is as it began (`Untouched`).
  Any other one `Follows` some frame of its peer, the last that it derived a key
  for: it holds that frame's chain, and its store has the key of each earlier
  frame of the peer that it has not opened (`Behind`), all different. Since
  stored keys are keys of frames that exist, `Bounded` and `FewFrames` leave room
  for them, and `extend` evicts nothing (`StoreFits`, `ExtendStores`).

The invariant needs no assumption that a session has one partner: two answers
to one message are both in step with the start, each with what it opened
itself, until the start has made a step. Only the last lemmas use that no third
session has the message. Then both ends have the same talk (`PartnersTalk`),
neither is more than one chain ahead (`AtMostOneAhead`), and a frame that was
not opened is behind the receiver, in its receiving chain, or in the chain that
it is about to derive; in each case it opens (`StoredOpens`, `OnChainOpens`,
`AfterStepOpens`).

### Model-checked only

Liveness: `EverySealedFrameSettles`, `SendingResumes` and
`EveryCellComesToRest`, which the prover does not handle. Every invariant and
action property that a run checks is a theorem.

## 5. Plan

Done: the modules of section 2 and the proofs of section 4. Left are the
liveness properties, for all values of the constants.

## 6. Where the documentation says something else

* `ratchet_replay`: the comment on `Error::Crypto` says a replay is answered
  with `Authentication`. A replayed frame of a chain that was left is taken for
  a ratchet step, and its numbers, or its `previous_chain_len`, can be refused
  as `TooFarAhead` before it is opened. The frame is refused either way.
* `ratchet_resume`: the comment on `Error::SendingBlocked` says that sending
  resumes once a frame from the peer is received. A frame of a chain that is
  already open is received, and sending stays blocked; only a new chain of the
  peer's, which it starts after receiving one of ours, resumes it.

Two sentences hold within limits which they do not state:

* QW-P-E2E-061 says that for any subset of dropped messages the subsequent ones
  decrypt. If more than `MAX_SKIP_PER_CHAIN` frames in a row are dropped from
  one chain, its later frames are `TooFarAhead`. `EveryFrameOpens` is the
  sentence where no limit binds, `OpensUnlessEvicted` where limits do.
* The loop of `constant-time.sh` (lines 83 and 84) says that more runs can only
  clear a bench and never condemn one. `ClearedOperationsStayCleared` proves it
  of operations. A planted leak is condemned by the first usable run that fails
  to see it, whatever came before: a second run, made for the sake of another
  bench, can then fail the gate.

## 7. Not modelled

* The primitives themselves, taken as ideal: signatures, hashing and the
  scrubbing of the stack have no state, and the rest is used symbolically.
* The byte layout of frames and cells, which `tests/cell_layout.rs` and the
  ratchet's vectors pin, and what the X3DH fuzz targets do with it: they parse
  arbitrary bytes and assert that nothing panics.
* The measurement inside a timing bench: `TimingGate` takes any statistic.
* `settings_drift.py`, which compares the settings of a forge with a file;
  `soak.sh`, which runs the fuzz targets one after the other; the simulator,
  which is empty; and the test vectors.
* The placeholder crates and apps.

`PROJECT.json` lists every part with its status.
