# zkasper: a formal model

zkasper proves Ethereum finality from outside the consensus client. A daemon,
`zkasperd`, follows a beacon node; epoch by epoch it moves a committed validator
set (the *accumulator*) forward, collects the attestations for the epoch's
checkpoint, has recursive zero-knowledge proofs made of them, and publishes the
result. This directory models the daemon's pipelines, its link to the machine that
proves, its mirror to the public API, and every witness on its way through the
guests to the contract. TLC checks the models on small instances, and TLAPS proves
the safety of the cross-epoch part, of a streaming epoch and of the prover link for
every instance.

Paths below are relative to `src/`; `orchestrator/` stands for
`crates/witness-gen/src/orchestrator/` and unqualified `.rs` files are under
`crates/witness-gen/src/`.

## 1. Inventory

Each component with the state it keeps, its operations, and what makes it correct.

| component | state | operations | correct when |
|---|---|---|---|
| **Orchestrator** (`orchestrator/mod.rs`, `accumulator.rs`, `store.rs`) | `StoreState`: cursor, accumulator, digests, last diff, last justification (batch and stream), attempted and finalized epoch; one snapshot in memory, one on disk | `open`, `tick_once` (drive the epoch at the cursor, else advance), `save` | the cursor moves by one, only past decided epochs; a crash at any point costs one epoch; nothing published is ever off the history of record |
| **Speculation** (`orchestrator/speculation.rs`, `engine.rs`) | a diff task in flight, a committee proof it left | `speculate`, `take_diff`, `take_committee`, `forget` | what is adopted belongs to the accumulator it is adopted on |
| **Boundary states** (`boundary_cache.rs`, `boundary.rs`, `witness_epoch_diff.rs`) | one file per epoch boundary, read once | `get`, `put`, `hold_boundaries`, `forget_before`, `build_held`, `boundary::build` | a stale file is noticed before anything is proved on it, and does not stop the daemon |
| **Streaming pipeline** (`orchestrator/stream.rs`) | the `StreamAggregator` of one epoch, one proof in flight | absorb gossip, repair from blocks, collect a proof, close slots, start a group or a fold, fire, publish, give up, reopen | every closed slot is under exactly one child of the final proof; the epoch always ends |
| **Batch pipeline** (`orchestrator/batch.rs`) | the `EpochAggregator` of one epoch | scan blocks, prove slot groups, fold, close, finalize | the same, and it only finalizes across a diff that links |
| **Chain view** (`orchestrator/chain_view.rs`) | head, node's finalized checkpoint | `refresh`, `checkpoint_root` | the root used is the canonical one at the time of use |
| **Gossip source** (`gossip.rs`) | an inbox, a gap flag, a reorg flag; a reader task | `drain`, `took_gap`, `took_reorg`, reconnect | what an outage swallowed is repaired |
| **Attestation collector** (`attestation_collector.rs`) | per slot: aggregates, sums of singles; slots forgotten | `ingest`, `peek`, `close`, `forget` | a slot is counted once; a cover takes nobody twice and weighs exactly whom it covers |
| **Plan and policy** (`streaming.rs`) | none | `plan`, `schedule`, `worth_waiting` | ends at the crossing; waits a bounded time |
| **Prover link** (`remote_prover.rs`, `committee_cache.rs`, `split_prover.rs`, `bin/prover_server.rs`) | a connection under a mutex, backoff, the belief about the far end's member tables, a spool of witnesses; the server's tables | ask, retry, ask again, spool, backfill, declare gone; serve, evict, restart | a reply is read as the answer to its own request; an outage costs epochs, not the process; what is stored is a real proof |
| **Publisher** (`publish.rs`) | a bounded queue, the batch being built, a disk spool | announce, batch, post, spool, replay, drain on exit | what was announced arrives, once and in order, or is accounted for |
| **Index** (`api/src/index-do.ts`, `index.ts`, `status.ts`) | events, epochs, proofs, the live ring | ingest, reap, store and evict bytes, stream to viewers | the daemon's last word on each epoch; `proven` means bytes |
| **Accumulator and committees** (`witness_epoch_diff.rs`, `state_diff.rs`, `acc_tree.rs`, `committee.rs`, `epoch-diff-guest`, `crates/common`) | the accumulator tree and its total | find mutations, build the diff, build and verify committee sums | the commitment is the chain's registry at that epoch |
| **Guests** (`slot-`, `justification-`, `finalization-`, `aggregation-`, `stream-final-guest`) | none | one verification function each | honest witnesses pass; nothing is attested that nobody voted |
| **Fast confirmation** (`fcr-*-guest`, `fcr-verifier`, `bin/gen_fcr_rule_witness.rs`) | the rule's state, replayed | batch, committee, join, verdict; fetch a node, replay the rule, prove a slot | the verdict does not depend on how the window was cut; the guest's rule is shown what the node's is |
| **Init point** (`init_point.rs`) | one tuple | `take`, `check`, `open`, and the anchoring where it is pruned | what the daemon starts on is the chain's registry at that epoch |
| **Shuffle** (`shuffle-bench-guest`, `fcr-committee-guest`, `fcr-rule-guest`) | none | six forms of one permutation | they agree |
| **On-chain verifier** (`onchain-verifier/src/ZkasperVerifier.sol`) | commitment, state root, latest finality | `bootstrap`, `submitEpochDiff`, `submitFinality` | what it holds is on the chain, in any order of submission |

How they interact. One task runs `tick` in a loop. Beside it run the gossip reader,
which fills the inbox and raises flags, the proofs, each handed out and collected at
a later tick, the prover link's backfill and the publisher's posting task; no
decision of a tick waits for the last two. A tick awaits the node, so the
chain and the reader move under it. The store file is written by the tick alone.
Any error returned by a tick ends the process (`bin/zkasperd.rs:526-565`) and the
supervisor starts it again on the store and the boundary files.

The hard behaviours are therefore: crashes between publishing, committing in
memory and saving; speculation for an accumulator that may not be the one it is
used on; boundary states read before a reorg and used after it; votes, proofs,
outages and reorgs arriving between any two awaits of a tick; and the four-way
state of a streaming epoch (aggregate, group held, units closed, slots open). Off
the tick: two proofs asked for over one connection that drops, times out and comes
back; a queue that overflows, posts whose answers are lost, and a spool replayed by
the next process. In the witnesses: aggregates that overlap, votes for other heads,
missed boundary slots, an orphaned boundary, and sums that must come out the same
on both sides of a proof.

## 2. Modules

| module | models | proofs |
|---|---|---|
| `FinalityLedger` | what a consumer relies on: one cursor, one verdict per epoch, finalized only what was justified just before | |
| `Orchestrator` | the daemon across epochs, with crashes and reorgs; implements `FinalityLedger` | `OrchestratorProofs` |
| `StreamEpoch` | one streaming epoch against gossip, blocks and the prover | `StreamEpochProofs` |
| `RemoteProver` | the jobs, the backfill, the connection and the server | `RemoteProverProofs` |
| `Sorting` | the order a set of indices is walked in, filters and stable sorts | `SortingTheorems` |
| `EpochIndex` | the index's handlers, as operators from tables to tables | `PublisherProofs` |
| `Publisher` | the daemon's announcements, the posting task, the spool, the requests and a viewer, over `EpochIndex` | `PublisherProofs` |
| `Shuffle` | the attestation slot of every active validator, in each form computed | |
| `Complements` | collector, committee sums on both sides, the attestation guest | `WeightProofs` |
| `StreamPlan` | cost model, lanes, cuts, folds: the schedule of a streamed epoch | `StreamPlanProofs` |
| `ProofGuests` | the diff, group, justification, finalization, aggregate and final guests with the builders of their witnesses | |
| `FastConfirmation` | batches, their join and the verdict | `WeightProofs` |
| `FcrRule` | one transition of the whole rule in a guest, and the generator of its witness | |
| `ProofPath` | the epochs of it from the init point on, slot by slot, and the contract | `ProofPathProofs`, `WeightProofs` |
| `MC...` | the constants TLC runs each of them with | |

`Shuffle`, `Complements`, `StreamPlan`, `ProofGuests`, `FastConfirmation`, `FcrRule`
and `ProofPath` extend each other in this order. The first six have no state: they
are what the guests assert and what the host builds, and `ProofPath` drives them
along a chain.

### Orchestrator

`mem` and `disk` are the two copies of `StoreState`; `held` is the directory of
boundary files, `published` the closings ever handed to the publisher, `work` the
part-built epoch of either pipeline, `ahead` the speculation. On the chain side,
`canon[e]` is the branch the boundary of epoch `e` is canonical on, and
`quorum[e]` the branch two thirds of the stake voted for, if any. A root, a block,
a state and a checkpoint are all named by their branch. The registry of a branch
is `Registry[branch]`, since a reorg may or may not change it: `SameRegistry` and
`OwnRegistry` in `MCOrchestrator` are the two extremes. A commitment is the
function from epochs to the registries it went through.

Each action is a tick, or the part of one that an await, a publication or a save
separates from the next:

* `OpenEpoch` is the whole of `open_epoch` and of the pipeline's own `open`: the
  committees are taken from the speculation or proved, the next boundaries are
  held, the next epoch's diff is started, and a streaming epoch opens the boundary
  it will finalize. `OpenFails` are its error paths, with the files they leave.
* `Fire`, `PublishFinal`, `DiscardFinal` are the streaming close, whose checkpoint
  is resolved again; `PublishBatch`, `FinalizeFails` the batch one, whose
  checkpoint is not. `CommitClosing` is the change to the store in memory and
  `Save` the save.
* `AdoptDiff`, `ProveDiff`, `DiffFails` are `advance_accumulator`.
* `SpeculationPanics` is the tick that builds the next epoch's diff ahead and dies of
  it. `GiveUp`, `ReopenAfterReorg`, `SpeculateAgain`, `Crash`, `Restart` are what they
  say.

Whether a diff can be built (`DiffBuilds`) depends on three things: something of the
registry changed (`Changes`; in the epochs of `Still` nothing does, unless the branches
of the two boundaries differ), the states are those the accumulator and the node have
(`StatesMatch`), and every changed leaf has its place in the tree. In the epochs of
`Overgrown` a deposit has not, and that is no error but a panic (`DiffPanics`): a
speculation that fails is only warned of, one that panics ends the process.

Between publishing and `Save` the process may crash at any point.

### StreamEpoch

The chain side has one vote per slot and member, each cast for the root its caster
sees, delivered to the inbox if the stream is up, and carried by the next block.
The daemon side is the `StreamAggregator`: votes heard, units closed, how many the
aggregate and the group held count for (`proved`, `unfolded`), and what those two
proofs are really over (`aggregate`, `group`, the `slots_mask` of their outputs),
so that the counters and the proofs can disagree if the code lets them. `pending`
is the proof in flight with the children it was started over.

A tick awaits, so it is up to three steps, and everything else interleaves with
them: `Collect` (drain, then repair from blocks), then settling the proof in flight
(`SettleWaits`, `CollectGroup`, `CollectFold`, `CollectFinal`, `ProverRefuses`) and
`CheckReorg`, then the decision on a second drain (`Wait`, `GiveUp`, `Fire`).
Whether it is worth waiting for a slot that is still filling is left free, up to
`MaxWaits` times. A guest refuses slots out of order or counted twice, and a
refusal ends the process as in the code.

### RemoteProver

A job is one call of a `Prover` method on a thread of its own: `pc`, `request`,
`phase` and `outcome` are its, and `holder` has the connection's mutex. `link` is
the connection with the attempt in progress (`Dial`, `Send`, `Read`, `TimesOut`,
`LinkFails`, `BackoffEnds`), `belief` the client's idea of the server's tables, and
`tables` what the server really holds. A timeout gives the connection up while the
server goes on with the request (`orphans`), so that its work on the tables still
happens. `AskRefusedAgain` and `SendKeys` are the second ask, `Refuse`,
`RefusedTwice`, `TableTwice` and `Unanswered` the ways out, `Peek`, `TryLock`,
`Unreadable`, `Recover`, `Reject`, `Keep` the backfill. The server may drop the link, be
sick, restart without its tables or serve other clients in between.

`Push` makes room in the spool and then writes, and the write may fail (`DiskFails`), as
may the read of an entry the backfill peeked and the write of a proof it got. The
backfill deals with the entry it peeked and pops the one at the front, as the code does,
and these need not be the same. What becomes of each witness handed to the spool is kept
as history: `recovered`, `rejected`, `dropped` for room, `damaged` by the disk. `Lost` are
those in none of these, nor in the spool; `undercut` are the entries dropped while the
backfill was at them.

### Publisher and EpochIndex

`daemon` walks the epochs and announces what the orchestrator announces; `chan`,
`held` and `task` are the posting task's loop, with its four `select!` arms
(`ReceiveEvent`, `ReceiveStatus`, `ReceiveProof`, `ReceiveFlush`), `Flush`, `Drain`
and the exit. A request has one of the fates a client can see, among them that it
was taken and the answer lost. `spool` outlives a crash, `api` is the index. Its
requests run one after the other in the Durable Object, so each handler is one
operator. `viewer` is one client of the live stream, which may drop at any frame
and resumes from the last id it saw.

The `events` table is the set `log` of its rows, each with the id SQLite gave it.
`Trim` cuts it after a batch; a sweep by hand adds rows and does not. `Replay` is the
query of `serveLive`, with its `LIMIT RING_EVENTS`, so that a ring which such a sweep
has overfilled is replayed without its newest rows. Those are the strandings of the
sweep, and `ViewerMissesNothing` excepts them: no event of the daemon is ever missed
that way, a notice that an epoch was stranded can be.

### ProofPath and what it extends

A digest is what was hashed, a point or a signature how often it holds each
validator's, and a Miller accumulator what is left of keys less signatures, so that
a product is one exactly when each message's keys are its signers'. A proof is the
program it comes from and what it commits to, and only an accepted witness has one.

Each guest is two operators: `...Accepts`, its assertions, and `...Output`, its
public values. `build_held`, `build`, `AttestationWitness`, `aggregate_witness`,
`final_witness` and `FcrBatchWitness` are the host's side. `Refused` records a
witness its guest would not take; the code would end there.

`ProofPath` takes a `world` (registries, seeds, missed and orphaned boundaries, the
pipeline of each epoch, the first epoch the node still serves), starts on an init
point (`Start`: a configured one, sound or not, or one anchored on the epoch the node
has), moves the accumulator (`Advance`, `AdvanceOrphaned`), opens
the epoch, and hears it slot by slot: every committee votes, and its votes reach the
daemon whole, in two aggregates, overlapping, as singles, for another head, for
another target, short of a member, or a slot late. A batch epoch proves groups and folds as `drive`
does, and `Close` and `try_finalize` end it; a streamed one is collected, planned
and run along its plan (`ProveGroup`, `Fold`, `Final`). `Confirm` cuts a window into
batches, `FetchNode` and `ReplaySlot` take a node's fork choice at a slot and replay
the rule up to it, `Bench` compares the shuffles, and the contract takes any published
proof at any time.

## 3. What the runs check

| run | instance | shows |
|---|---|---|
| `orchestrator_safety` | 4 epochs, streaming with batch fallback, 1 reorg anywhere (even of a voted checkpoint), 1 crash anywhere | type, `SpeculationIsCurrent`, `WorkOnItsAccumulator`, `StreamsOnTheLinkingDiff`, `PublishedOnTheRecord`, `FinalizesWhatWasPublished`, `RestartCostsOneEpoch`, `AccumulatorMovesByOne`, `LedgerSpec` (the store implements `FinalityLedger`) and `SettlesUnlessStuck` |
| `orchestrator_batch` | 4 epochs, batch, 2 reorgs of unvoted boundaries, 2 crashes; the third epoch changes nothing of the registry, the fourth outgrows the tree | `RepublishedAlike`, `SettlesUnlessStuck` |
| `orchestrator_publishes_reorged` | 2 epochs, batch | **violation** of `PublishesCanonical` |
| `orchestrator_reorg_strands` | 4 epochs, streaming | **violation** of `ReorgCostsOnlyLatency` |
| `stream_epoch_safety` | 3 slots of 2 members, 1 reorg, 1 wait | type, `EachSlotOnce`, `WeightIsCast`, `FinalCoversEveryUnitOnce`, `TailCarriesTheCrossing`, `CountersMatchTheProofs`, `NeverGivesUpOnEnough` |
| `stream_epoch_liveness` | 2 slots, 1 outage, 1 reorg, 1 crash | `EpochEnds` |
| `stream_epoch_outage` | 2 slots, 1 outage | **violation** of `OutageIsRepaired` |
| `stream_epoch_order` | 2 slots | **violation** of `UnitsAscend` |
| `remote_prover` | 4 jobs of which 2 with member tables and 2 persisted, one of these oversized and over the other, a spool and a table cache of one, 2 faults and 1 of the disk | type, `RepliesAreToTheRequest`, `OutageSparesTheStore`, `RefusalIsOfTheWitness`, `UndercutCostsOne`, `EveryAskEnds`, `SpoolDrains` |
| `remote_prover_oversized` | the same without faults of the disk | **violation** of `StoreKeepsRealProofs` |
| `publish_index` | five scenarios of one or two epochs: an outage with an exit, a crash, a full queue, a viewer that drops, catching up with speculation | type, `EventsInOrder`, `NothingLostSilently`, `ProvenHasBytes`, `MirrorAgrees`, `ViewerMissesNothing`, `NamedIsNotStranded`, `EverythingIsSent` |
| `proof_path` | twelve worlds of 3 epochs of 3 slots over 8 validators | `WitnessesAreAccepted`, `WeightIsTheChains`, `WindowIsItsBatches`, `OnChainAnchored`, `ScheduleIsRunnable` |

The five violations are disagreements between the code and what its documents
say; each is described with its line in `PROJECT.json` under `findings`.

1. *A reorged checkpoint can be published.* `docs/finality/assumptions.md:443-446`
   relies on the daemon resolving the root again before it publishes. The batch
   pipeline does not.
2. *A boundary that reorgs after it was read stops the daemon for good.* The same
   paragraph says a reorg costs latency. The store and the boundary file outlive
   the reorg, every restart fails on them in the same way, and no later epoch is
   decided.
3. *An outage is reported before it is over.* The gap flag is consumed by the tick
   that runs while the stream is still down; what is gossiped until it is back, and
   what later blocks carry, is not repaired.
4. *Units can be out of order* when a slot is first heard of after a later one was
   closed. The guests refuse such a proof, the process restarts, and
   `EpochEnds` shows that the restart recovers it.
5. *An oversized witness leaves an empty proof in the store.* `prover.rs:107-113` says
   why the store must never have one, and an outage does not put one there
   (`OutageSparesTheStore`). `deliver` hands one back for a witness over the frame's cap
   without asking what stage it is of.

Two more things stop the daemon for good besides the moved boundary. `build_held` refuses
to build a diff between two boundaries with no change between them
(`witness_epoch_diff.rs:94-97`), so the epoch after them is neither held ahead nor advanced
to inline, in any restart. And a registry that outgrew the tree the accumulator was built
with is an index out of bounds in `AccTree::get_siblings`: the panic ends the process even
while it only speculates and the epoch before is still collecting its votes, where
`engine.rs:255-258` has it that the worst outcome is an epoch that proves its own opening
on the critical path. `SettlesUnlessStuck` names the three and shows that the model has no
fourth; `orchestrator_safety` has neither of the last two, `orchestrator_batch` has both.

The spool loses witnesses in one more way than the drop of the oldest. The entry the
backfill is at may be dropped for room by a push; the backfill then pops the one that has
taken the place at the front, which was neither asked for nor counted. A write that fails,
and an entry that cannot be read back, lose one each. `UndercutCostsOne` says how far it
goes, one at most for each entry dropped that way, and the run reaches it.

### Bounds, and why they are enough

Four epochs are the fewest with a batch epoch to start from, a streaming epoch, a
streaming epoch that finalizes a streaming one, and one given up with a batch
epoch after it (the run reaches all of them). `Lookahead = 2` and
`HoldAhead = 2` are the code's values (`config.rs`, `HOLD_AHEAD`). One reorg per
run suffices for the stale-state hazards, because each compares one reading with
one later use; `orchestrator_batch` uses two so that a checkpoint can move away and
to a third branch. One crash suffices to separate any publish from its save; two
let the repetition crash as well. In `orchestrator_batch` the epoch without a change is left only
if its boundary reorgs, and that leads on to the one that outgrows the tree.

Three slots are the fewest with an aggregate, a group held and a tail in one final
proof; two members the fewest whose slot can be closed while one is missing. The
target is two thirds rounded up, reached by four votes of six in every combination
of slots. `ScanEnd` is the slot whose head ends the wait (two epochs in the code);
only its order with the epoch's slots matters. `MaxWaits` bounds the trigger's
patience, which the code bounds by time. The members are symmetric.

`remote_prover` has room for one witness in the spool and one table at the server,
so that the second of anything evicts the first; two faults are the fewest that
tell one refusal from two and a retry that fails again. The children of a job are
what makes an empty proof matter: the oversized final proof is over one that is not.
Two witnesses that fail are enough to drop the one the backfill is at and to lose the
other; `MaxDiskFaults = 1` is one write or read that fails, at any of its places.
`LinkRetries = 1` is one retry where the code has its own constant: the retried and the
given-up ask both occur.

`publish_index` bounds each kind of mishap per scenario (`Budgets`): all of them
together are out of reach, and each scenario is the interaction its comment names.
A queue, a batch and a spool of two are the smallest that overflow with something
left in them; a ring of five is shorter than what two epochs announce.

`proof_path` has three epochs because a finalization joins two and a streamed
epoch may follow a batch or a streamed one; three slots because a group of two
leaves one; and registries in which a validator activates, is topped up, exits, is
deposited and changes its credentials. Two rounds of the shuffle and words of two
bits make runs shorter than a word, equal to one, and unaligned. The last epoch
hears every combination of the bodies its world lists; earlier epochs hear each
slot whole. The rule is replayed up to every slot of the last epoch, from a finalized
epoch one or two before it; one world finalizes so late that the generator panics. `GroupWidth` and `FoldWidth` are the world's.

The bounds `MaxReorgs`, `MaxCrashes`, `MaxOutages`, `MaxDiskFaults` appear as guards of the actions
they bound and nowhere else.

### Fairness

`FairSpec` of both modules assumes weak fairness of the daemon's tick as a whole
(`run` is a loop, and the supervisor restarts the process), of the chain's growth,
and, in `StreamEpoch`, of a proof landing. Nobody has to attest, to reorg, to
report a reorg or to reconnect. No fairness is assumed of single kinds of tick: the
code chooses which, and the model must make progress whichever it is.

`RemoteProver` assumes weak fairness of each job's thread, of the backfill thread,
of the attempt in progress (it ends, if by its timeout), of the server answering a
client it has and of a backoff ending. Nothing obliges the server to be well, or a
mutex to be granted to a particular thread before the others. `Publisher` assumes
only that the posting task runs while it has something to do and the process lives;
`TaskReady` spells out when that is. `ProofPath` has no liveness property.

## 4. What is proved

By TLAPS, for every value of the constants that the modules' `ASSUME`s allow (TLC
evaluates those on every run), and without further hypotheses unless one is named.

### Across epochs: `OrchestratorProofs`

For every `First < Last`, lookahead, registry, pipeline and bound, and whichever epochs
change nothing of the registry or outgrow the tree:

* `TypeCorrect`: `Spec => []TypeOK`;
* `SpeculationCorrect`, `WorkCorrect`, `StreamLinks`, `PublishedCorrect`,
  `FinalizesCorrect`, `RestartCorrect`: the safety invariants of
  `orchestrator_safety`, and `AccumulatorCorrect`, its action property.

None of them is inductive by itself. They follow from `Inv` (`Invariant` in the
module), which adds to the types:

* *coherence of a store state*: its accumulator has a registry for exactly the
  epochs up to the cursor, its diff is the last step of that accumulator, and each
  record is for a decided epoch and carries the prefix of it up to that epoch;
* *the two copies*: `mem` and `disk` are both coherent and `mem` is `disk` or one
  save ahead of it, by one advance or one closing; the process being down makes
  them equal;
* *backing*: every record in either copy is among what was published, which is why
  a record may be finalized later, in another process, after a crash;
* *the process*: work and speculation belong to `mem`, nothing is in flight while
  the process is down, and a closing that was published but not committed has its
  record in `published` already.

The proof has one step per action. The argument that carries the published
properties is that a closing is published before it is committed, and committed
before it is saved, so a record found in any store was published; and that an
advance needs the previous one saved (`Ready`), so nothing is published on an
accumulator a crash could take back.

### The ledger and the votes, in `OrchestratorProofs`

* `Refinement`: `Spec => LedgerSpec`. Every save of the store is a step of
  `FinalityLedger` or none, under the mapping `Orchestrator` instantiates it with.
  `LedgerInv` is what the mapping needs beyond `Inv`: memory, when it is ahead of
  the store, is ahead by exactly one ledger step, so that a save cannot skip one.
* `RepublishedCorrect`: two closings of one epoch, by a process that died before
  its save and by the next, have one checkpoint. `Voted` carries it: a root is
  published only with two thirds of the stake behind it, and votes are not taken
  back. It needs no assumption on reorgs, and that a run checks it only with
  `LateReorgs = FALSE` is a matter of size.
* `CanonicalWhileVotesHold`: assuming `~LateReorgs`, which says that no checkpoint
  reorgs once two thirds voted for it, what either pipeline publishes is canonical
  at that moment. The run `orchestrator_publishes_reorged` shows the assumption is
  needed, and the theorem that nothing else is.

### One streaming epoch: `StreamEpochProofs`

For every number of slots, committee, scan window and bound, `EpochInvariant`
proves `Spec => []Inv`, from which all safety properties of `stream_epoch_safety`
follow (`TypeCorrect`, `SlotsClosedOnce`, `WeightIsHonest`, `CountersCorrect`,
`FinalCovers`, `TailCrosses`, `GivesUpBelowTheTarget`). The conjuncts of `Inv`:

* `Heard`: a slot is heard of or closed, never both, and everything held was cast
  for the root the epoch was opened on. Weights are bounded by what was cast, and a
  vote cast stays cast, so that this survives reorgs.
* `Counters`: what the aggregate and the group held are over, as ranges of units
  cut at `proved` and `unfolded`, *and* that the units up to either counter stay
  below the target. The second half is what the cut of the tail needs:
  `InlineTail` takes the smaller of its start and the crossing, and only because
  nothing proved reaches the target is that always the start
  (`CrossingIsReached`); otherwise a unit would be under two children or a tail
  would not carry the crossing.
* `InFlight`: the same of the group, the fold or the final proof being made, over
  units that may since have grown at the end (`FirstStay`).
* `Ticking`: a tick decides only when the prover is free.

`GivesUpBelowTheTarget` also uses that once the scan window is behind the head no
slot is filling, so that what reaches the target fires. `UnitsAscend` and
`OutageIsRepaired` are violated and have no theorem.

### The prover link: `RemoteProverProofs`

For every set of jobs and their children, committees, retries, capacity of spool
and tables, and number of faults:

* `WireInvariant`: types, and `Wire`: whoever attempts has the mutex, and while a
  request of its is out, what the connection carries is that request, its answer,
  or nothing any more. It is why `RepliesCorrect` holds through timeouts and
  retries: an attempt that is given up takes its connection with it.
* `StoreCorrect` and `NoMismatch`, from `Store`: a job starts when its children are
  back, a proof is over children that were proved, and of the stages the store keeps
  only a witness over the cap comes back empty. That exception is the code's and not a
  hypothesis: `StoreKeepsRealProofs` is the property without it, and is violated.
* `GoneCorrect`, from `Silent`: `GoneOnlyAfterSilence`, an action property that is proved and
  in no run.
* `SpoolCorrect`: `Spec => []UndercutCostsOne`, over every interleaving of pushes and
  pops, every failed write or read, and with no assumption on what was dropped. It
  follows from `Spooled`: no witness is in the spool twice, the entry the backfill is at
  is the front of the spool or was dropped under it (`FrontIsPeeked`), and what was lost is
  paid for (`Paid`): those lost are no more than those undercut, and one fewer while
  the backfill is at an entry that was, since its pop is still to come. The sets of
  witnesses are finite, which is what lets them be counted (`SpoolIsFinite`).
* `RefusalCorrect`, from `Inv2`: `Keys` (the belief marks no key its table does not
  have, and a request names or carries every member's key), `Phases` (which of its
  asks a job is at, and what that ask carries), and `Counted` (every answer that
  refuses a good witness is a fault, a second one is a second fault, and a table
  that is asked for twice cost two events).

`RefusalIsOfTheWitness` is about committee witnesses that are asked for one at a
time. The attempt to prove it for any pair of asks that do not overlap failed for a
reason: two asks that overlap, if the one answered first is adopted last, leave a
belief whose marks are of one table and whose digest is of another, and a third ask, on
its own, is refused twice with nothing sick. It takes more committee jobs than the run
has, and the property says `overlapped = {}`. That is an assumption. The daemon asks for
one committee after another except when a reorg reopens an epoch: `ahead.forget()`
drops a speculation whose proof runs on a blocking thread, which `abort` does not stop
(`speculation.rs:211-220`), and the committees asked for next overlap it. What the
theorem says of the daemon, it says of runs without that.

### The mirror: `PublisherProofs`

For every set of epochs, capacity, batch size, ring and budget, with any number of
faults, crashes and restarts. The module begins with the lemmas on the handlers:
what a batch of any length, heard for the first time or again, makes of the log, of
the ids and of each row (`HeardFacts`, `HeardFresh`, `HeardTwice`), and the same of
the manifest, the reaper, the trim and the bytes.

* `TypeCorrect`, from `Types`. Of an index it says (`IndexOK`) that each row has an id
  that was given out and that none of the last `Ring` ids is missing.
* `NothingIsLostSilently`, from `SeqsAccounted`: every number up to the daemon's next
  is that of an event recorded, on its way, counted, or excused.
* `ProvenMeansBytes`, from `Claims`: an event that speaks of bytes, on its way or
  recorded, has an upload handed over before it; so has a daemon about to announce
  one, and so has a row that reads proven.
* `NamedNeverStranded`, from the order of `Ingest` alone: the manifest is stored before
  the reaper runs.
* `ViewerMissesNothingEver`, from `ViewerOK`: the frames on their way follow what the
  viewer has, without a gap but for what left the ring, and end at the head of the
  log. `Spans` is why a replay cut at `Ring` rows leaves out strandings only: but for
  those, the log spans no more than `Ring` ids.
* `EventsStayInOrder`, from `Orderly`: log, spool, batch in the making, channel and what
  the daemon has still to say are in the order it happened, one after the other. The
  hard case is a batch that was taken with its answer lost. It stays at the head of
  the spool, and is ignored when it comes again only if the ring still has its rows:
  `Repeated` says they are as near the head as the batch's own length, its manifest
  and the strandings since allow.
* `TheMirrorAgrees`, from `Orderly`, `LastWord` (the daemon's last word on an epoch is in
  its latest event that decides one) and `Follows` (the row follows the latest of
  those the index recorded).

The last two have the hypothesis `RingHoldsBatch`: the ring holds a batch, its manifest
and one stranding of every epoch. The code has 5000 rows and batches of 256
(`index-do.ts:7`, `publish.rs:84`), so it covers 4743 epochs, three weeks. Only those
stranded by hand between a lost answer and the retry would matter; counting all is
what makes the hypothesis one on constants. Some such hypothesis is needed: with a ring
of three and batches of three, a batch with a manifest that is sent again has its
first event recorded again, behind its last (TLC finds it).

### The witnesses and the contract: `ProofPathProofs`

For every number of validators, slots and epochs, any registries, shuffles, votes and
pipelines, an orphaned boundary and an init point that may be of another chain, epoch or
total:

* `AnchoredOnChain`: `Spec => []OnChainAnchored`. Published proofs may be submitted in
  any order and any number of times: the contract's accumulator is the chain's at the
  epoch of its latest state, and what it holds as finalized is an epoch's checkpoint
  and boundary.
* `AnchorInvariant`: `Spec => []AnchorInv`, the inductive invariant it follows from.

The contract checks only that proofs join, so the argument is about what is published.
`AnchorInv` says that the ledger's tree and total are `AccTree` and `TotalActive` of a
boundary at or before the epoch (`LedgerHeld`); that a published bootstrap or diff names
an accumulator with the state it is of, and a finalization an epoch's checkpoint with
its boundary (`PublishedIsAnchored`); and that what was justified before is there from
the second epoch on (`RecordIsEarlier`), because the header that opens a finality
records the boundary before it.

* *The diff* (`DiffAnchors`) is the hard part. It looks at the validators that changed,
  in index order; each has the siblings the ones before it leave, and the guest adds up
  what they gained and lost. The tree is right because whoever is not among the
  mutations weighs in the new epoch what they weighed in the old one
  (`UnchangedWeigh`: `find_mutations` also takes those that only crossed their
  activation or exit). The guest's total is right because a sum over the mutations of
  the differences is the difference of two sums over everyone registered.
* *The sums.* The guest folds over a sequence, and `TotalActive` is a fold over a set,
  by the community modules. Both are functions on subsets that take out one chosen
  element at a time. `SumExists` shows there is such a function, `SumIsAdditive` that
  the choice does not matter; `AdditiveSplits`, `AdditiveSkipsZero` and `SumAlong` are
  what sums are rearranged by. Each is a least counterexample by size (`BySize`).
* *The start.* An init point that opens may claim an epoch it is not of, if no weight
  changes between the two: its state root is then of one epoch and the registry it was
  opened with of another. The contract holds the first, and its accumulator is of both
  (`OpenedIs`). The run has a world for it.
* *The orphan.* A diff to an orphaned boundary is published and may be submitted. Its
  registry is that of the same slot on the chain, so it is anchored as well, and a
  second diff starts from the old accumulator again or from the new one.

It assumes of a world that validators stay registered and that balances are naturals
(`ProofPathAssumption`): a registry only grows (`witness_epoch_diff.rs` reads `is_new`
off the length of the old one), and a balance is a `u64`.

### The plan: `StreamPlanProofs`

For any units in the order of their slots, any total and any policy:

* `SimulateIsRunnable`: what `simulate` places of a split of a prefix of the units can
  be run as it is (`Runnable`).
* `ScheduleCanBeRun`: so can what `schedule` returns, over every number of lanes, prefix,
  tail and cut it tries.

`simulate` is a run of placements: groups, then folds in the order the groups end,
then the final proof with what is absorbed, the wrap, and the committee's proofs in the
gaps. Each is a step over lanes and proofs, and `IsHeld` is kept by all of them: a lane's
windows are those of its proofs, they ascend and do not overlap (`earliest` walks past
every window it would cut, which needs them in order), and no proof already placed moves.
On top of it, a fold starts after the groups it takes and the fold before it, because it
is released at the later of the two; what no fold took before the deadline is absorbed,
and the final proof is released after all of it. `cuts` and `search` only ever split a
prefix: every unit of it is in exactly one group or in the tail (`Splits`). Sorting
the proofs by start at the end changes nothing of this, because `Runnable` finds a proof
by its stage and what it covers.

### The weight: `WeightProofs`

For every number of validators, slots and epochs, any registries and shuffles, any votes,
bodies and blocks, both pipelines and any policy:

* `WeightIsTheChainsWhileAccepted`:
  `Spec => [](WitnessesAreAccepted => WeightIsTheChains)`. No proof attests more than
  the chain's registry gives the validators that voted its source and target in the slots
  it covers, and an epoch is justified only on two thirds.
* `PlanIsRunnable`: `Spec => []ScheduleIsRunnable`.
* `WindowIsProvenInParts`: `Spec => []WindowIsItsBatches`. A window drawn over units
  whose slots follow one another, cut anywhere, is the window its two batches join to;
  joined they confirm nothing the one batch does not, and are credited with no more than
  the chain's balance of the votes for each slot's head.
* `WeighInvariant`: `Spec => []WeighInv`, the inductive invariant of the three.

The hypothesis is what makes the first statement one about proofs. `Refused` records a
witness the guest does not take and goes on, so after a refusal the model holds outputs
no proof exists of. That nothing is ever refused is `WitnessesAreAccepted`, which TLC
checks; the theorem does not rest on it. The window needs no such hypothesis: it is of
batches computed, whether or not a guest takes their witnesses.

`WeighInv` adds to `AnchorInv` that the aggregation *fits* the votes cast and that it is
*staged*:

* `IsAgg`: the context has the chain's checkpoints of one epoch and committees that are
  the shuffle's over the active list (`IsCommittees`); every pending or summed aggregate
  holds validators of its slot that cast the data it is for (`Streams`, `Aggregates`);
  every closed slot's complement supports no more than its own voters weigh,
  and, for the head of its primary message, counts no more than that message's voters
  weigh (`IsComplement`, `IsCounted`); the plan is of the units (`IsPlan`); and while
  nothing is refused, no proof attests more than was voted in the slots of its mask
  (`ProofsHold`).
* `CastIs`: everyone votes once, in the slot of their committee.
* `Staged`: what each phase may rely on. While slots are heard, the slots still to come
  have no votes; a plan is there once proofs are made along it, and a context is left
  when the epoch is decided.

The steps that carry it:

* *A slot is closed* (`PeekIs` and what it cites). A cover takes disjoint aggregates, and
  cuts single votes to what is left; so the committee less the absentees, less those
  that voted otherwise, is at most the voters of this source and target. A vote cast
  later only adds voters (`VotedGrows`).
* *A guest attests* (`AttestedIs`). It takes slots that ascend, so no slot's voters are
  counted twice.
* *A proof is folded* (`FoldedIs`, `FinalCounts`). The guests assert that masks are
  disjoint; balances and voters then add up alike (`ClaimsAdd`). Where that assertion
  fails nothing is claimed, and this is where the hypothesis is used.
* *The epoch is heard* (`HearWeighs`). Votes of a new slot extend those cast, and leave
  what earlier slots weigh alone.

The window is drawn in one step, on which `WindowInv` rests: there is a window only once
`Confirm` was taken, and nothing happens to the epoch after. Of that step:

* *The head a slot's votes count against* (`HeadsAre`). A batch carries the last header
  it read, which along a run of slots is the chain's head at each.
* *What a batch is credited with* (`SupportIs`, `OutputIs`). It sums over its own
  positions; moved to the units' (`SumMoved`), this is `Credit` of the run.
* *The join* (`CreditIsCut`, `PartsJoin`). The two parts partition the run, so their
  credits add up to the whole's (`SumOfTwo`); the second begins where the first ends, at
  the head it ends with; every other field is of the same context.
* *The verdict* (`DiscountEases`). The one batch also sees the votes of empty slots and
  may discount them, which only lowers its threshold: what the verifier's undiscounted
  one lets through, it does too.
* *The votes* (`CreditIsVoted`). A unit counts no more than the voters of its primary
  message; units of a run are of different slots, so no voter is counted twice.

`SlotCount > 1`, pivots that are naturals and a policy of the policies' type are assumed
of a world as well (`ProofPathAssumption`): an epoch has 32 slots, a pivot is a `u64` and
a policy is a `StreamPolicy` of unsigned numbers with a denominator.

### Operators: `SortingTheorems`

`InOrderSorts`: `InOrder(S)` lists a finite set of integers once each, lowest
first. `RemoteProver`, `StreamEpoch` and `ProofGuests` use it where the code walks a `BTreeMap` or
sorts, in place of the community modules' `SetToSortSeq`, of which nothing can be
proved. For the same reason `Weight` counts the units' votes one by one and is not
a fold. `LeastNatural` is the least-number principle, which stands in for induction
in these modules, and `Along` of `PublisherProofs` along a run of steps. A fold is
reasoned about as such a run: its states are named one by one, and what the first has
and each step keeps, the last has.

### Only model-checked

* The liveness properties `SettlesUnlessStuck`, `EpochEnds`,
  `EveryAskEnds`, `SpoolDrains` and `EverythingIsSent`: temporal reasoning under
  fairness and ENABLED are out of the prover's reach.
* `WitnessesAreAccepted` of `ProofPath`. It speaks of every guest's assertions at once:
  that keys cancel over any committee and any grouping, that the shuffle's forms agree,
  that a multi-proof opens what it was built for. These are inductions over the data of
  the formal sums and the shuffles.

## 5. Abstractions worth knowing

* A read of the node either answers for the branch canonical at that moment or
  the tick fails, which is `Crash`.
* The head a tick refreshed is the head; `refresh` is not a step of its own.
* Publication is a step that succeeds in `Orchestrator`. What the queue and the
  spool then do is `Publisher`.
* `Orchestrator` has of the host's builders the checks that relate two readings or that
  a restart repeats. Left out are those a node answering for one chain satisfies: the
  state and header endpoints agreeing on a root, SSZ that parses and has the
  validators' list where the fork puts it (`witness_epoch_diff.rs:113-200`); committees
  with members that are registered and named once (`committee.rs:113-153`); the epochs
  a diff spans, which are the cursor's; and that a circuit computes what the host did,
  which `ProofPath` checks. A node that does not serve something is `Crash`. A diff that
  is built from an older registry than the accumulator's is an error in the model also
  where a deposit outgrew the tree.
* A boundary's registry and committees are read as one. The code asks the node twice
  by slot (`boundary_cache.rs:67-77`), and a reorg between the two would pair a
  registry with another branch's committees.
* In `StreamEpoch` a vote weighs one, a slot's complement is exactly the votes heard
  for it, a repair reads all canonical blocks at once and none of the reads fails,
  and `Pending::Late` has no action: `tail()` never starts after `proved`.
* `RemoteProver`: frames and clocks are steps and not bytes and seconds; a job is
  asked once, and `SplitProver` would be several links; a witness that cannot be
  encoded and a run without a prover at all are not modelled. A spool entry whose file
  cannot be removed is popped (`remove_file`'s result is dropped); that the file is
  there again at the next start is not modelled.
* `Publisher`: progress and threshold events are one kind, since the index treats
  them alike; read endpoints, `reset`, keep-alive and the limit on streams are left
  out; a write to the spool succeeds; spool file names sort in the order they were
  written, and a restarted daemon's numbers are higher than the last one's, both of
  which follow the wall clock; an R2 upload is its bytes and its row in one step;
  a manifest is identified by the epoch it names.
* `ProofPath`: hashes and pairings are injective names and formal sums, so nothing
  here speaks of their security. A validator votes once an epoch. A state's ring
  buffers answer for the one boundary they are asked for. Registries grow within
  the accumulator's capacity. A head's root is its slot.
* `FcrRule`: the rule is the `fast_confirmation` crate, which is not in the
  repository. A simplified one stands for it: it moves heads, checkpoints and
  balances where the guest says the crate does, and confirms the last block all of
  whose chain has its support. What is checked is that a witness shows it the same
  head, checkpoints and votes, and leaves the same state, as the node's own data do.
  The node's fork choice has one branch, its votes name others; the byte layout of
  the witness is not modelled.
* The init point: a node's registry, state and claimed root are three answers, any of
  which may be of an orphaned branch; a configured tuple may be wrong in its chain,
  epoch, total or commitment.
* `StreamPlan`: integer ticks; scattered leaves touch as many nodes as they can; a
  chunk's share is rounded up; `prune`'s cap on the frontier is not modelled, being
  above what the instance reaches; an epoch without units has no plan.

## 6. Plan

What is left, in this order:

1. Lemmas about `Complements`: `Plus`, `Minus` and `fp12_mul` as a commutative
   group, so that a cover's key is its committee's less its absentees'. They are what
   the attestation guest's part of `WitnessesAreAccepted` needs.
2. A repair that reads block by block, with reads that fail, in `StreamEpoch`; and
   boundary reads as two requests in `Orchestrator`.

## 7. Not modelled, and why

* SSZ decoding (`ssz_state.rs`), the hashes, the curve and the field arithmetic are
  deterministic computations whose result is a constant or a name of the models.
* The local provers and proof verification are cryptography; the models rely on a
  proof existing exactly for an accepted witness.
* The `fast_confirmation` crate is not in the repository: what stands for it is marked
  external, and nothing is claimed of when it confirms.
* The beacon API client is HTTP and JSON: its answers are the chain's variables and
  its failures are `Crash`. Frame parsing, artifacts, metrics, posting lists and
  latency figures are read by no decision.
* `SplitProver`, the trigger's wait budget (`worth_waiting` answers either way), the
  boundary file format, flags and wiring.
* Scripts, monitoring and the timing benchmarks are outside the protocol.

`PROJECT.json` lists every component with its status, and every hazard with the
properties that cover it or the reason none does.
