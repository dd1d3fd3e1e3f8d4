# TLA+ model of rem-poc

rem-poc joins a simulated Malachite consensus network to a reth execution node in
one process. This directory holds TLA+ modules that model both halves, the launch
that brings them up and the whole node they make, TLC configurations that check
them on small instances, and TLAPS proofs, for every value of the constants, of every
safety property that the runs check. Paths below are relative to the root of the
repository's Rust crate, `src/src/`.

## The system

```
 pool --> block builder --proposals(1)--> simulator --decisionSteps--> consumer
                                         (all peers)                      |
                                                                       toTask
                                                                          v
 pool <------------------------- execution task <---fork choice---> engine (reth)
                                        |                              |
                                        +------- storage <--client-----+
```

| Part | Source | Module | Status |
|---|---|---|---|
| Threads, channels, panics | `chain.rs`, `chain/simulator.rs`, `chain/decision.rs` | `Channels` | modelled |
| Block builder | `chain.rs` (`MalachiteChain::poll`) | `BlockBuilder` | modelled |
| Application, effect handlers | `chain/application.rs` | `Application` | modelled |
| Simulator | `chain/simulator.rs` | `Simulator` | modelled |
| Consensus context | `chain/context.rs`, `chain/context/*` | `Malachite` | partly |
| Consensus library | external | `Malachite` | round 0, from its use |
| Chain consumer | `chain.rs` (`MalachiteChainConsumer`) | `Consumer` | modelled |
| Consensus layer | composition of the above | `Chain`, `FinalizedLog` | modelled |
| Storage | `chain/storage.rs` | `Storage` | modelled |
| Download client | `chain/client.rs` | `Client` | modelled |
| Execution task | `chain/task.rs` | `Task` | modelled |
| Execution engine | external | `Engine` | from its use |
| Execution layer | composition of the above | `Execution` | modelled |
| Consensus validation | `mac.rs` | `Engine` (`ValidateBlock`) | modelled |
| Launcher | `launcher.rs` (development mode) | `Launcher` | modelled |
| Main program | `main.rs` | `Launcher` | modelled |
| Node | launcher, execution layer, `FinalizedLog` | `Node` | modelled |
| Signing | `chain/context/signing_*.rs` | - | not modelled |

`MCChain`, `MCExecution` and `MCNode` are the modules TLC runs. The lemmas and
theorems of the consensus layer start from `ChainInvariants`, the invariants they share,
and `MalachiteProofs`, which says what one input does to one peer. `OrderProofs` has the
types and the order of the decisions, and `RelayProofs`, on top of it, the announcements
and the relay; `LockstepProofs` follows the clocks of the peers, and `DeliveryProofs`
joins the two. Those of the execution layer are in
`ExecutionProofs` and, where the engine and its downloads matter, in `EngineProofs`;
those of the node in `NodeProofs`. Operators with an underscore in their name
(`SendValue_Unbounded`) are mutants: what the definition below them would be
after a plausible slip. No specification uses them.

## How the modules correspond to the code

**Channels.** A channel is a sequence, a thread is an entry of `status`. A panic
is a status named after the call that panics (`"no value"`, `"no proposal"`,
`"no task"`...); the ends of the channels that the thread held go with it, so
that the neighbours' sends and receives fail as they do in `std`, `crossbeam`
and `tokio`.

**BlockBuilder.** One turn of the loop is two actions, because the pool may
change and the channel may be full in between: `CollectTransactions` reads the
pool, `SendValue` is the blocking send on the channel of capacity one and the
increment of `value_counter`, `SendFails` its `expect`.

**Malachite.** The library's source is not in the repository. One call of
`process!` is `Outcomes` (the states a peer may be left in) and `EffectsOf` (the
effects yielded). Only round 0 is followed, a peer that leaves it goes to
`"newround"`, and `RoundZero` shows that none does. Where the library may behave
in two ways that the code cannot tell apart beforehand (whether a proposer applies
its own proposal at once or when the envelope to itself arrives) both are allowed.

**Application** and **Simulator.** `Step` is `step_with_envelope` up to the first
effect; each handler is one action. All peers live on one thread, so one input is
processed at a time (`current`, `effects`), while the builder and the consumer run
between any two effects. The effects of one input are handled in every order. The
200 ms delay per step is left out: no interleaving is excluded by time.

**Consumer.** One action per arm of the match in `run`, both panics included, and
`StopConsuming` for the closed channel. `relayed` is a history of what was sent.

**FinalizedLog** is what the consensus layer does as seen from outside: blocks are built
from the pool, decided in the order in which they were built, and relayed in that order
once they are decided, none left out, repeated or altered; and the builder, the simulator
and the consumer end for the reasons it names and for no other (a failed send, a missing
value, a closed channel), while the other threads do what they like (`Environment`).
`Chain` implements it (`Ledger`, with `status`, `built`, the decisions of the proposer and
`relayed`), and the consensus actions of `Node` are its actions, by `INSTANCE`.

**Storage, Client.** The fields of `StorageInner` with `insert_new_block`,
`build_and_execute` and the two fetches. A hash is the sequence of transaction
sets of the chain it stands for, so that a wrong parent gives a wrong hash; a
state (and a state root) is the set of transactions executed. A transaction that
has been executed is rejected a second time (its nonce is too low). Of gas there is only
the limit of a block: `Oversized` is the constant set of those sets of transactions that
need more than the header allows (`storage.rs:148`), and a block with one of them is
rejected. Fees, blooms, timestamps and fork-dependent fields are abstracted away.

**Task.** `poll` is cut where other threads can interfere: receive, take from the
queue, lock, execute, remove from the pool and unlock, send the fork choice update, wait
for the answer. Execution (`ExecuteOk`) and removal (`ClearPool`) are two steps because
the pool has a lock of its own: the builder may read it in between. An execution may also
fail for a reason that the model does not have (`ExecuteErr` has no further guard).
`wakers` and `woken` model the wakers registered with the channel, the lock and the
oneshot, because a poll that returns `Pending` is only repeated when one fires.

**Engine** (external). It answers VALID, INVALID or SYNCING depending on what it
has executed, or with an error; when it lacks a block it downloads through the
client and executes what it gets. A download is two requests, each under the storage's
read lock (`StartDownload` and `ReceiveHeaders`, then `StartDownload` and
`FinishDownload`); the task may insert a block between them. Every block it executes
has passed `MalachiteConsensus`, which accepts everything (`ValidateBlock`).

**Launcher.** `launch_node` builds all threads and channels, then hands them to the
executor one after the other with steps in between that may fail; `stage` is how far
it has got, `spawned` what runs. `Fails` is a `?` that returns from `launch_node` and
from `main`: what has not been spawned is dropped, with the channels' ends it holds,
and the executor shuts down. It wraps the critical tasks in a select on shutdown, so
that a future that waits is dropped (`CancelConsumer`, `CancelTask`, `CancelEngine`);
the chain and the builder never yield and cannot be. `Subscribe`, `SubmitMainTx` and
`Notify` are `main`. `Workers` is the number of worker threads of the runtime: the
builder, spawned with `tokio::spawn`, blocks in a synchronous send and holds one.

**Node** composes the launcher and the execution layer in full with the actions of
`FinalizedLog` for the consensus layer. The pool that the builder reads is the one from
which the task removes what it has executed, which neither layer has by itself. `Chain`
may stand behind these actions for three reasons. It implements `FinalizedLog`, the ends
of its threads included, so that every behaviour of it is one that `Node` looks at. What
`Node` does around it is what the environment of `Chain` may do: the pool changes, the
task ends, the consumer is cancelled. And what `Node` adds to the guards only delays a
thread, until it is spawned (`Up`) or because of a bound (`MaxLag`, `MaxBlocks`); a launch
that fails before the chain is spawned drops threads that have not taken a step, and one
that fails later, but before the consumer is spawned, does not exist (no `?` in between).

## Runs

| Run | Config | States | What it asks |
|---|---|---|---|
| `chain_safety` | `MCChain.cfg` | 1,461,480 | agreement and order of decisions, relay of each exactly once, announcements before decisions, round 0, no dry network, nobody ahead or behind, no library error, back-pressure, refinement of `FinalizedLog`, the ends of the threads included |
| `chain_liveness` | `MCChainLive.cfg` | 24,872 | every decision relayed, every height reached, the end of one thread ends the others, downstream and upstream |
| `execution_safety` | `MCExecution.cfg` | 1,516,644 | linked storage, blocks executed once and in order, no transaction lost, execution on the parent's state, canonical head, exact downloads, no lost wakeup |
| `execution_liveness` | `MCExecutionLive.cfg` | 27,465 | every relayed block executed, every stored block canonical, the task ends after the consumer |
| `node_safety` | `MCNode.cfg` | 1,665,212 | what is executed is what was built and decided, a block is rejected for a stale snapshot or a failed execution only, `main` is notified of its transaction |
| `node_liveness` | `MCNodeLive.cfg` | 290,921 | a submitted transaction becomes canonical; with a block that exceeds the gas limit, what is rejected is stale or too large |
| `node_shutdown` | `MCNodeShutdown.cfg` | 150,789 | wherever the launch fails, every thread ends |
| `chain_no_value` | `MCChainWait.cfg` | violation | a comment says the application waits for a value |
| `execution_initial_hash` | `MCExecutionHash.cfg` | violation | the doc comments of the two lookups, for the initial block |
| `execution_bad_block` | `MCExecutionBad.cfg` | violation | "we should never produce bad blocks" |

The three violations are disagreements between the code and its own comments:

* `handle_get_value` calls `try_recv`, and an empty channel ends the simulator,
  although the comment above it says that the application blocks
  (`chain/application.rs:208-210`). The builder usually wins the race; nothing
  makes it.
* `Storage::new` gives the initial block no entry in `hash_to_number`, so that it
  cannot be found by hash, nor its hash by number (`chain/storage.rs:37`).
* After a fork choice update that is answered with an error, the task goes on with
  a storage that is ahead of the provider's latest state; the next block is built
  on the one and executed on the other, and is invalid (`chain/storage.rs:240`,
  `chain/client.rs:129`).

**Bounds.** `N = 4` is the number of peers the program uses (`Simulator::new(4, ..)`);
with it a quorum is three, so that a quorum can exclude any one peer. Three heights
(`MaxHeight = 2`) let a peer enter the next height while others have only decided this
one, at the first height, which all start alike, and at later ones; and they let the
builder fill its channel, be held back and go on. One
transaction is enough in `Chain`, where values differ by identifier and a
transaction set only has to be empty or not; the liveness run needs none. In
`Execution` two transactions and three blocks give blocks that repeat
transactions, share some, and follow a failed one; one engine error suffices
because a second one meets the same state. `StartNumber` is 0 in one run and 1 in
the other: the node starts from genesis or from a block on disk. The height bound
only disables the step that would start the height above it. In `Node`, `MaxLag = 2`
blocks built and not yet executed are what it takes for a block to be built from a
snapshot that an earlier one makes stale; `MaxBlocks = 3` leaves a block to be built
after both. `Faults` chooses the failures of a run: all of the launch, of executions
and of the engine in `node_safety`, these and a late builder in `node_shutdown`, none in
`node_liveness`, whose property holds up to the end of a thread or a failed execution in
any case. There `Oversized` is `{{t1, t2}}`: each transaction fits into a block, both
together do not. Refused
updates are left to the runs of `Execution` (`MaxErrors = 0` in `Node`).
`Workers = 2` is the smallest number for which `SubmittedBecomesCanonical` holds: with
`Workers = 1`, a machine with one core, TLC finds the behaviour in which the builder
holds the only worker (`chain.rs:150`), the task is never polled and nothing is ever
executed.

**What the builder owes a transaction.** `SubmittedBecomesCanonical` has one exception
that is not a failure. The builder packs the whole pool into each block, and a block that
exceeds the gas limit is rejected as a whole and leaves the pool as it is: a pool that
needs more gas than a block has is packed again for ever (`Overfull`). Without the
exception TLC finds that behaviour.

**Deadlock** checking says nothing here: in `Chain` the pool can always change, and in the
other runs, which switch it off, the system may really stop (all threads ended, or the
task parked with nothing to do and the bound on blocks reached). That threads do not wait
for each other for ever is the subject of `NetworkNeverDry`, `NoLostWakeup` and the
liveness properties.

**Fairness.** Each thread is scheduled by the operating system (weak fairness of
`Builder`, `Simulate`, `Consuming`), the executor polls a woken task (`Tasking`),
and reth answers and downloads. Answering and downloading have a condition each, in
`Execution` and in `Node`: the task repeats an update that is answered with SYNCING, and
one condition for the engine as a whole would let it answer for ever and never download;
reth polls its messages and its sync in turn. In `Node` the launch
goes on, the task is polled when it is woken and a worker is free, and at shutdown the
executor drops what waits (`Cancels`); the threads of the consensus layer are scheduled
as above. Nothing is assumed of the environment: transactions, relayed blocks, a
failure of the launch, the end of the task or of the engine may come or not.

## Proofs

The theorems about the consensus layer hold for every `N` in 4..24 (the asserts of
`Simulator::new`), every `Txs` and every `MaxHeight` in Nat; those about the execution
layer for every `Txs`, every `StartNumber` and `StartDifficulty` in Nat and every bound
on blocks and errors; those about the node moreover for every number of `Workers`, every
`MaxLag` and every choice of `Faults`. No other assumption is made. Each is proved from
an inductive invariant, which TLC checked on a small instance first.

Most leaves need no arithmetic, and Zenon, which each proof module makes its default
(`USE Zenon`), proves them much faster than the SMT solver; the others name `SMT`.

### The consensus layer

* `ChainTypes`: `ChainSpec => []ChainTypeOK`. `ChainTypeOK` is not inductive: a peer
  that reports a decision does so under the identifier of its proposal, which
  exists only because a peer in step `commit` has one. The invariant is `TypeInv`,
  the types with `CommitHasProposal`.
* `AnnouncementsComeFirst`, `ProposalPrecedesDecision`, `LookupNeverFails`: the
  consumer unwraps the lookup of a decided height, and never panics there. That
  the announcement is ahead of the decision in the channel
  (`ProposedBeforeFinalized`) follows from the simulator's side only:
  `AnnouncedFirst` says that whatever depends on a proposal, in the network, in the
  peers' states or among the effects to be handled, is preceded by its
  announcement. The one exception is the proposer while it handles the effects of
  its own proposal: it may have prevoted before the announcement has been sent. The
  exception is harmless because a decision needs a quorum and a quorum has a member
  other than that peer (`QuorumHasOther`), whose vote cannot have arrived. The
  invariant is claimed only while the simulator runs: when it panics half way the
  announcement may be missing for good, and so is every decision that would need it.
* `DecidesInOrder`, `StaysInRoundZero`, `BuilderIsHeldBack`, `LibraryNeverFails`: height
  `h` decides the `h`-th value everywhere, round 0 is never left, the builder is at most
  two values ahead, and no input is an error of the library. None is inductive. The
  invariant `OrderInv` adds `Flow`, which holds while the simulator runs and counts two
  things. A *token* is a `StartHeight` or commit timeout: each peer has at most one in
  the network or among its effects, and it fits the step the peer is in; so no peer is
  started twice or committed twice. `Supply` accounts for the values: `valueCounter` is
  the number of values in the channel, plus those decided by the proposer, plus the one
  in flight, so that the next value handed out has the identifier of the next height.
  The commit timeout being the only one that elapses, no peer leaves round 0.
* `RelaysFinalized`: the consumer relays heights 0, 1, 2, ... with the values decided
  there. It looks values up by height, and peer 0 reports identifiers. `RelayInv` says
  that every value anywhere is the one the builder made under its identifier
  (`Sources`), and that the reports of peer 0 in the channel are exactly the heights
  decided and not yet relayed, in order (`Due`, while the consumer runs).
* `NeverWaitsForItself`, `NobodyIsOvertaken`, `NobodyIsLeftBehind`: the simulator, which
  is the only sender on the channel it receives from, never finds that channel empty; no
  peer is handed a proposal, a value or a vote of a height it has not started; and no peer
  enters a height before every other has decided the one before. All rest on the order of
  one FIFO channel, and none is close to inductive. `LockstepProofs` gives each peer a
  *clock*, `5 * height + step`, and each envelope the time it is *due*, the clock of the
  peers it is meant for. The invariant `Lockstep` says that envelopes are in the order in
  which they are due (`InOrder`) and were sent by someone whose clock had come that far
  (`Timely`), that no clock is more than one ahead of another (`Level`), and that whatever
  a peer waits for is at the peer, in the network or among the effects that will send it:
  votes (`VotesOwed`), a token (`TokensOwed`), the proposal and its value (`Asking`,
  `Offered`). The peer that is furthest behind therefore finds something in the network
  that is due (`LastIsServed`); since the first envelope is due no later, the network is
  not empty and its first envelope is early for nobody (`FirstIsDue`). One envelope is out
  of order, the prevote of a proposer that applies its proposal before it has sent it.
  It does not matter because two votes are never a quorum (`TwoAreNoQuorum`), and the
  quorum of the others is complete without it (`AllButOneAreQuorum`); that is where the
  assert on the number of peers is used. Level clocks also mean level heights
  (`LevelHeights`), since a peer that is a height behind and has not decided would be at
  least two behind by the clock.
* `Refinement`: `ChainSpec => ImplementsFinalizedLog`. The initial states agree, and
  every step of `Chain` builds, decides or relays as `FinalizedLog` does, or leaves its
  variables unchanged, given `OrderInv` and `RelayInv`.

`MalachiteProofs` contains the lemmas about one call of the library on which all rest:
what an input may change (`OutcomeFacts`), where a recorded vote comes from
(`VoteOrigin`), what effects are possible (`EffectKinds`), and by how much an input moves
the clock (`InputAdvances`). `OrderProofs` has one lemma per group of actions for the
types, combined in `TypeNext`, and one per handler and thread for the order, combined in
`OrderNext`. `RelayProofs` shows that the consumer (`ConsumeKeeps`), the handlers of
effects (`SafeHandler`) and a peer that processes a message (`SafeStep`, from lemmas on
its new proposal, votes, commit and effects) preserve the safety invariant `SafeInv`, and
goes on to the relay. The step of a peer preserves `Lockstep` by `LockstepProofs`, the
handlers and everything else by `DeliveryProofs`.

What is needed of finite sets and sequences is little, and is proved where it is used:
`SmallSets` says that two votes count as at most two; `OrderProofs` and `ExecutionProofs`
start with what appending and concatenating do. The library's theorems on finite sets
serve only for the quorum of all peers but one, and for the sets of the engine. The
lemmas before that take the quorum as a hypothesis (`MostAreQuorum`), which
`AllButOneAreQuorum` discharges; the library's instance has a `Cardinality` of its own,
and `Count` shows it to be the one that `Quorum` uses.

### The execution layer

`ExecutionProofs` starts with the types on which the others rest (`ExecTypes`: storage,
task and what the engine hands to the task) and has the theorems that hold whatever the
engine executes:

* `StorageIsLinked`: the storage is one chain, whatever is executed, refused or
  downloaded. `Linked` adds that the hash of block `n` stands for as many blocks as its
  number says, so that blocks of different numbers have different hashes and an
  insertion overwrites no body and no index entry.
* `CanonicalGrows`: the canonical head only moves to a descendant. `HeadIsBest` says
  that it is an ancestor of the best block and that the head being announced is the
  best block: nothing is stored between the execution and the answer.
* `BlocksStayInOrder`: executed, in insertion, queued and in the channel are together
  what the consumer sent.
* `WakeupsArrive`: a parked task has its waker where the next event comes from. The
  task may find the channel empty and park later, so `Promised` holds the channel to
  its promise from the empty receive on.

`EngineProofs` opens up the engine and the client:

* `DownloadsAreExact`: what the client returns is the stretch of the chain that was asked
  for, for every limit. `fetch_headers` walks along the headers; `Indexed` says that the
  index has the hashes of the stored blocks and no other, and `Stretch` what the turns of
  the loop find. The step from `k` to `k + 1` is closed by induction over the set of
  those `k` for which it holds (`SetInduction`, from the well-foundedness of `<`).
* `ExecTypesComplete`: all types, those of the engine's variables included, which depend
  on what it downloads.
* `BlocksRunOnParent`: although `build_and_execute` takes the provider's latest state, a
  block is executed on the state of its parent, unless the engine has refused an update.
  `EngineInv` says that the engine holds stored blocks only and that an update or its
  answer is under way only while the task waits; `Faultless`, that without a refusal
  the provider's latest block is the best one whenever the task may execute. Headers
  received stay headers of stored blocks while the bodies are asked for
  (`FetchedStored`), since the storage only grows.
* `NoTransactionIsLost`: a submitted transaction is in the pool or in the chain of the
  best block (`NothingLost`); and unless an update has been refused, in the pool, in the
  canonical chain or in the block being inserted. After a refusal the first half is all
  there is: the block stays stored, and nothing in the code makes it canonical.
* `CanonicalStays`: the canonical head is a stored block that the engine has executed.

### The node

`NodeProofs` shows that every step of `Node` is a step of the execution layer, or a step
that ends threads, which at most takes an update out of flight and a waker out of the
list (`Halts`), or one of the launcher, of `main` or of the consensus threads. So
`ExecInv`, the invariant of `EngineProofs`, holds inside the node, and `NodeInv` adds the
types of the launcher, the order of the blocks, `Clearing` (the pool is cleared of the
block executed last), and `Lineage`: what the consumer has sent to the task are the first
of the blocks built, no further than decided.

* `LayersCompose`: what is proved of the execution layer with a consensus layer that
  relays anything, holds in the node.
* `NodeTypesCorrect`, and `ExecutesAsBuilt`: what is executed are the first of the blocks
  built, in order, each after it was decided.
* `StaleOnlyIsRejected`: while no update has been refused, a block that was not executed
  shares a transaction with an earlier block that had not left the pool when this one was
  built, or exceeds the gas limit, or is one whose execution failed for another reason
  (`gaveUp`). `OnlyStaleIsRejected` speaks of the whole history and is inductive together
  with `Snapshots`, which says of each block how many had left the pool when the builder
  read it (`seen`) and that it holds no transaction of those. A block whose transactions
  are being removed counts as not having left (`Done`).
* `MainIsNotified`: `main` is notified of the block with its transaction, unless the
  engine has refused an update. `Watched` says that the transaction is submitted only
  after `main` has subscribed; and the latest block never skips one (`LatestStep`).

### Only model-checked

Liveness: the properties of `chain_liveness`, `execution_liveness`, `node_liveness` and
`node_shutdown`. They rest on fairness, which is out of the prover's reach. The three
violations are counterexamples that TLC finds.

## Not modelled

* Signing: the application answers every signature check with `true`, so that no
  behaviour depends on it. What is left is wrapping of keys and bytes.
* Rounds above 0 and the panicking arms of `handle_effect` (vote sets, value
  restreaming, sync): `RoundZero` shows that the former are not reached, and the
  latter are only asked for there or by peers that have missed a height, of which
  `NobodyFallsBehind` shows that there are none.
* The branch of `launch_node` outside the development mode: `main` always sets the
  mode. Configuration, database, genesis, metrics, ETL and the RPC servers are steps
  of the launch that succeed or fail.
* Formatting, conversion and ordering of addresses, heights and values; gas beyond the
  limit of a block, fees, timestamps; printing.
* Growth of the decisions map and of the unbounded channels.
* What `main` does when a thread panics: it keeps waiting for notifications, since it
  drops `node_exit_future`. Nothing in the repository says what it should do.
