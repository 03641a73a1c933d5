---------------------------- MODULE Orchestrator ----------------------------
(***************************************************************************)
(* The daemon across epochs: the persisted accumulator and its cursor, the *)
(* epoch being justified, the epoch diff proved ahead of time, the         *)
(* boundary files kept beside the store, and the chain that moves under    *)
(* all of them (crates/witness-gen/src/orchestrator, store.rs,             *)
(* boundary.rs, boundary_cache.rs).                                        *)
(*                                                                         *)
(* How one epoch collects its two thirds is StreamEpoch's subject; here it *)
(* is the environment's Attested.  Chain data is a branch number: an epoch *)
(* boundary (its block, its state and the checkpoint it names) is known by *)
(* the branch it was produced on, and the validator registry of a branch   *)
(* by Registry[branch], because two branches may well agree on it.         *)
(*                                                                         *)
(* A tick that returns an error ends the process and the supervisor starts *)
(* it again, so every failing tick here is Down followed by Restart.       *)
(***************************************************************************)
EXTENDS Integers, FiniteSets

CONSTANTS
    First,          \* the init epoch: the node's finalized checkpoint
    Last,           \* the last epoch the model follows
    Pipeline,       \* "streaming" or "batch", the --pipeline flag
    Lookahead,      \* attestation_lookahead_epochs
    HoldAhead,      \* HOLD_AHEAD, boundaries taken ahead in one call
    MaxReorgs,      \* bound: reorgs of the chain
    MaxCrashes,     \* bound: crashes that are not the program's own errors
    Registry,       \* the validator registry each branch computed
    Still,          \* the epochs in which a branch changes nothing of it
    Overgrown,      \* the epochs a deposit took it past the accumulator's tree in
    LateReorgs      \* whether a checkpoint 2/3 voted for may still reorg out

Branches == 0 .. MaxReorgs
Epochs == First .. Last
None == -1
MaybeEpoch == Epochs \cup {None}
MaybeBranch == Branches \cup {None}

ASSUME EpochBounds == First \in Nat /\ Last \in Nat /\ First < Last
ASSUME Windows ==
    /\ Lookahead \in Nat \ {0}
    /\ HoldAhead \in Nat \ {0}
ASSUME Bounds == MaxReorgs \in Nat /\ MaxCrashes \in Nat
ASSUME PipelineChoice == Pipeline \in {"streaming", "batch"}
ASSUME RegistryType == Registry \in [Branches -> Nat]
ASSUME Deposits ==
    Still \subseteq Epochs /\ Overgrown \subseteq Epochs /\ Still \cap Overgrown = {}
ASSUME LateReorgsType == LateReorgs \in BOOLEAN

VARIABLES
    \* the chain, as the node serves it
    head,       \* the epoch of the head
    canon,      \* the branch each epoch's boundary is canonical on
    reorgs,     \* reorgs so far
    quorum,     \* the branch two thirds of an epoch's stake voted for
    \* what survives the process
    disk,       \* the StoreState in the store file
    held,       \* the branch each boundary file beside the store was read on
    published,  \* the closings handed to the publisher, ever
    \* the process
    up,         \* whether it is running
    crashes,
    mem,        \* its StoreState; the one on disk while it is down
    work,       \* the epoch part-built, or NoWork
    ahead       \* the next epoch proved early: a diff running, a committee held

chainVars == <<head, canon, reorgs, quorum>>
vars == <<head, canon, reorgs, quorum, disk, held, published,
          up, crashes, mem, work, ahead>>

-----------------------------------------------------------------------------
(* Records.  A commitment is what it commits to: the registry the          *)
(* accumulator took at each epoch from First to the cursor.                *)

Commitments == [Epochs -> Nat \cup {None}]

NoCheckpoint == [epoch |-> None, root |-> None]
Checkpoints == [epoch : MaybeEpoch, root : MaybeBranch]

NoRecord == [epoch |-> None, root |-> None, acc |-> [e \in Epochs |-> None]]
Records == [epoch : MaybeEpoch, root : MaybeBranch, acc : Commitments]

\* EpochDiffOutput: the two commitments it links, and the state it started from
NoDiff == [to |-> None, from |-> [e \in Epochs |-> None],
           acc |-> [e \in Epochs |-> None], state1 |-> None]
Diffs == [to : MaybeEpoch, from : Commitments, acc : Commitments,
          state1 : MaybeBranch]

StoreStates ==
    [cursor : Epochs, acc : Commitments, state : Branches,
     attempted : MaybeEpoch, justified : MaybeEpoch,
     stream : Records, batch : Records, diff : Diffs, finalized : Checkpoints]

\* StoreState::started
Started ==
    [cursor |-> First,
     acc |-> [e \in Epochs |-> IF e = First THEN Registry[0] ELSE None],
     state |-> 0, attempted |-> None, justified |-> None,
     stream |-> NoRecord, batch |-> NoRecord, diff |-> NoDiff,
     finalized |-> NoCheckpoint]

NeedsJustification(s) == s.attempted # s.cursor

\* Mutant: any justification on record will do.
PreviousOfAnyEpoch(s, e) == IF s.stream.epoch # None THEN s.stream ELSE s.batch

\* StoreState::previous_justification: the stream record, then the batch one
PreviousJustification(s, e) ==
    IF s.stream.epoch # None /\ s.stream.epoch + 1 = e THEN s.stream
    ELSE IF s.batch.epoch # None /\ s.batch.epoch + 1 = e THEN s.batch
    ELSE NoRecord

CanStream(s) ==
    /\ s.diff # NoDiff
    /\ PreviousJustification(s, s.cursor) # NoRecord

\* Mutant: the accumulator is begun anew instead of extended.
AdvanceAnew(s, registry, state) ==
    LET next == s.cursor + 1
        acc == [e \in Epochs |-> IF e = next THEN registry ELSE None]
    IN [s EXCEPT !.cursor = next, !.acc = acc, !.state = state,
                 !.diff = [to |-> next, from |-> s.acc, acc |-> acc,
                           state1 |-> s.state]]

\* StoreState::advance, to the epoch after the cursor: the only one it takes
AdvanceState(s, registry, state) ==
    LET next == s.cursor + 1
        acc == [s.acc EXCEPT ![next] = registry]
    IN [s EXCEPT !.cursor = next, !.acc = acc, !.state = state,
                 !.diff = [to |-> next, from |-> s.acc, acc |-> acc,
                           state1 |-> s.state]]

NoWork == [kind |-> "none", epoch |-> None, root |-> None,
           acc |-> [e \in Epochs |-> None], prev |-> NoRecord,
           phase |-> "none"]
Works == [kind : {"stream", "batch"}, epoch : Epochs, root : Branches,
          acc : Commitments, prev : Records,
          phase : {"collecting", "proving", "published"}]

\* The diff task in flight and the committee proof a finished one left.
NoRun == [epoch |-> None, from |-> [e \in Epochs |-> None],
          registry |-> None, state |-> None]
NoCommittee == [epoch |-> None, acc |-> [e \in Epochs |-> None]]
Runs == [epoch : Epochs, from : Commitments, registry : Nat, state : Branches]
Committees == [epoch : Epochs, acc : Commitments]
NothingAhead == [running |-> NoRun, committee |-> NoCommittee]

-----------------------------------------------------------------------------
(* Boundary files.  A read takes the branch canonical at that moment, and  *)
(* a file once taken answers for its slot until the cursor has passed it.  *)

BoundaryAt(files, e) ==
    IF files[e] # None THEN files ELSE [files EXCEPT ![e] = canon[e]]

\* hold_boundaries: the lowest HoldAhead epochs not held yet, up to the head,
\* each of which the node may refuse
Wanted(files, from) ==
    LET missing == {e \in Epochs : from <= e /\ e <= head /\ files[e] = None}
    IN {e \in missing : Cardinality({m \in missing : m < e}) < HoldAhead}

Hold(files, taken) ==
    [e \in Epochs |-> IF e \in taken THEN canon[e] ELSE files[e]]

ForgetBefore(files, e) ==
    [f \in Epochs |-> IF f < e THEN None ELSE files[f]]

\* witness_epoch_diff::build_held: something has changed, the older registry is
\* the one the accumulator sits on, and the newer one the one the state at its
\* slot hashes to; and every leaf that changed has its place in the tree, which
\* is as large as the registry of the init point needed.
Changes(files, s) ==
    s.cursor + 1 \in Still => Registry[files[s.cursor]] # Registry[files[s.cursor + 1]]

StatesMatch(files, s) ==
    /\ Registry[files[s.cursor]] = s.acc[s.cursor]
    /\ Registry[files[s.cursor + 1]] = Registry[canon[s.cursor + 1]]

DiffBuilds(files, s) ==
    Changes(files, s) /\ StatesMatch(files, s) /\ s.cursor + 1 \notin Overgrown

\* A leaf past the tree is an index out of bounds, and no error.
DiffPanics(files, s) == StatesMatch(files, s) /\ s.cursor + 1 \in Overgrown

\* boundary::build for the epoch before the cursor: the canonical chain has
\* the checkpoint that was justified, and the state the diff started from.
BoundaryOpens(s, previous) ==
    /\ canon[previous.epoch] = previous.root
    /\ canon[previous.epoch] = s.diff.state1

-----------------------------------------------------------------------------
(* Speculation.                                                            *)

Covers(a, e) == a.running.epoch = e \/ a.committee.epoch = e

Speculable(a) ==
    LET next == mem.cursor + 1
    IN next <= Last /\ next <= head /\ ~Covers(a, next)

\* start_speculation: both boundaries are taken and kept, whether or not the
\* witness then builds; a new run replaces everything held from an older one.
SpeculateFiles(files) ==
    BoundaryAt(BoundaryAt(files, mem.cursor), mem.cursor + 1)

SpeculateAhead(files, a) ==
    LET next == mem.cursor + 1
        taken == SpeculateFiles(files)
    IN IF DiffBuilds(taken, mem)
       THEN [running |-> [epoch |-> next, from |-> mem.acc,
                          registry |-> Registry[taken[next]],
                          state |-> canon[next]],
             committee |-> NoCommittee]
       ELSE a

\* The rate limit of may_attempt lets a call through or does not.
Speculation(files, a) ==
    \/ /\ held' = files
       /\ ahead' = a
    \/ /\ Speculable(a)
       /\ ~DiffPanics(SpeculateFiles(files), mem)
       /\ held' = SpeculateFiles(files)
       /\ ahead' = SpeculateAhead(files, a)

-----------------------------------------------------------------------------
(* The end of the process.                                                 *)

Down ==
    /\ up' = FALSE
    /\ mem' = disk
    /\ work' = NoWork
    /\ ahead' = NothingAhead

\* Mutant: the next tick does not wait for the save.
ReadyUnsaved == up

\* A tick runs on a snapshot that is on disk; one that changes the snapshot
\* changes it in memory, and the save that ends it is the step Save.
Ready == up /\ mem = disk

Init ==
    /\ head = First
    /\ canon = [e \in Epochs |-> 0]
    /\ reorgs = 0
    /\ quorum = [e \in Epochs |-> None]
    /\ disk = Started
    /\ held = [e \in Epochs |-> IF e = First THEN 0 ELSE None]
    /\ published = {}
    /\ up = TRUE
    /\ crashes = 0
    /\ mem = Started
    /\ work = NoWork
    /\ ahead = NothingAhead

-----------------------------------------------------------------------------
(* The chain.                                                              *)

ChainGrows ==
    /\ head < Last + Lookahead
    /\ head' = head + 1
    /\ UNCHANGED <<canon, reorgs, quorum, disk, held, published,
                   up, crashes, mem, work, ahead>>

\* Two thirds of the stake is on the wire and in blocks for the checkpoint
\* that is canonical now.  A validator votes once, so it happens once.
Attested(e) ==
    /\ e <= head
    /\ quorum[e] = None
    /\ quorum' = [quorum EXCEPT ![e] = canon[e]]
    /\ UNCHANGED <<head, canon, reorgs, disk, held, published,
                   up, crashes, mem, work, ahead>>

\* Every boundary from k on moves to a new branch.
Reorg(k) ==
    /\ reorgs < MaxReorgs
    /\ First < k /\ k <= head
    /\ LateReorgs \/ \A e \in Epochs : e >= k => quorum[e] = None
    /\ reorgs' = reorgs + 1
    /\ canon' = [e \in Epochs |-> IF e >= k THEN reorgs + 1 ELSE canon[e]]
    /\ UNCHANGED <<head, quorum, disk, held, published,
                   up, crashes, mem, work, ahead>>

-----------------------------------------------------------------------------
(* The daemon.                                                             *)

Busy == Ready /\ work # NoWork

\* Mutant: attestations count whatever checkpoint they name.
ReachedByAnyRoot == quorum[work.epoch] # None

\* The attestations for the checkpoint the epoch was opened with reach the
\* target.
Reached == quorum[work.epoch] = work.root

\* open_epoch and the pipeline's own open.  kind is the pipeline tick_once
\* chooses; the committees come from the speculation or are proved against
\* the boundary held; the next boundaries are taken and the next epoch's diff
\* is started; and a streaming epoch opens the boundary it will finalize.
OpenEpoch ==
    /\ Ready
    /\ work = NoWork
    /\ NeedsJustification(mem)
    /\ LET e == mem.cursor
           kind == IF Pipeline = "streaming" /\ CanStream(mem)
                   THEN "stream" ELSE "batch"
           previous == PreviousJustification(mem, e)
           proved == ahead.committee.epoch = e /\ ahead.committee.acc = mem.acc
           committees == [ahead EXCEPT !.committee = NoCommittee]
           files == BoundaryAt(held, e)
       IN \E taken \in SUBSET Wanted(files, e + 1) :
            /\ Speculation(Hold(files, taken), committees)
            /\ proved \/ Registry[files[e]] = mem.acc[e]
            /\ kind = "stream" => BoundaryOpens(mem, previous)
            /\ work' = [kind |-> kind, epoch |-> e, root |-> canon[e],
                        acc |-> mem.acc, phase |-> "collecting",
                        prev |-> IF kind = "stream" THEN previous ELSE NoRecord]
    /\ UNCHANGED <<head, canon, reorgs, quorum, disk, published,
                   up, crashes, mem>>

\* The same tick when the committees do not build on the accumulator, or the
\* boundary does not open.  What it read is already on disk.
OpenFails ==
    /\ Ready
    /\ work = NoWork
    /\ NeedsJustification(mem)
    /\ LET e == mem.cursor
           proved == ahead.committee.epoch = e /\ ahead.committee.acc = mem.acc
           files == BoundaryAt(held, e)
           counted == proved \/ Registry[files[e]] = mem.acc[e]
       IN \/ /\ ~counted
             /\ held' = files
          \/ /\ counted
             /\ Pipeline = "streaming" /\ CanStream(mem)
             /\ ~BoundaryOpens(mem, PreviousJustification(mem, e))
             /\ \E taken \in SUBSET Wanted(files, e + 1) :
                  held' \in {Hold(files, taken)} \cup
                            IF Speculable([ahead EXCEPT !.committee = NoCommittee])
                            THEN {SpeculateFiles(Hold(files, taken))} ELSE {}
    /\ Down
    /\ UNCHANGED <<head, canon, reorgs, quorum, disk, published, crashes>>

\* A tick of a streaming epoch that only waits: it asks again for the next
\* epoch's proofs.
SpeculateAgain ==
    /\ Busy
    /\ work.kind = "stream"
    /\ work.phase # "published"
    /\ Speculable(ahead)
    /\ ~DiffPanics(SpeculateFiles(held), mem)
    /\ held' = SpeculateFiles(held)
    /\ ahead' = SpeculateAhead(held, ahead)
    /\ UNCHANGED <<head, canon, reorgs, quorum, disk, published,
                   up, crashes, mem, work>>

\* The tick that asks for them, at the opening or while a streaming epoch waits,
\* when building the witness panics: that is past every ?, and ends the process.
SpeculationPanics ==
    /\ Ready
    /\ \/ /\ work = NoWork
          /\ NeedsJustification(mem)
          /\ Speculable([ahead EXCEPT !.committee = NoCommittee])
          /\ LET e == mem.cursor
                 proved == ahead.committee.epoch = e /\ ahead.committee.acc = mem.acc
                 files == BoundaryAt(held, e)
             IN /\ proved \/ Registry[files[e]] = mem.acc[e]
                /\ \E taken \in SUBSET Wanted(files, e + 1) :
                     held' = SpeculateFiles(Hold(files, taken))
       \/ /\ work.kind = "stream"
          /\ work.phase # "published"
          /\ Speculable(ahead)
          /\ held' = SpeculateFiles(held)
    /\ DiffPanics(held', mem)
    /\ Down
    /\ UNCHANGED <<head, canon, reorgs, quorum, disk, published, crashes>>

\* The node reported a reorg and the checkpoint really moved: start over.
ReopenAfterReorg ==
    /\ Busy
    /\ work.kind = "stream"
    /\ work.phase = "collecting"
    /\ canon[work.epoch] # work.root
    /\ work' = NoWork
    /\ ahead' = NothingAhead
    /\ UNCHANGED <<head, canon, reorgs, quorum, disk, held, published,
                   up, crashes, mem>>

\* The trigger: the attestations held reach the target, the final proof starts.
Fire ==
    /\ Busy
    /\ work.kind = "stream"
    /\ work.phase = "collecting"
    /\ Reached
    /\ work' = [work EXCEPT !.phase = "proving"]
    /\ UNCHANGED <<head, canon, reorgs, quorum, disk, held, published,
                   up, crashes, mem, ahead>>

\* The scan window is behind the head and two thirds never came.
GiveUp ==
    /\ Busy
    /\ work.phase = "collecting"
    /\ head >= work.epoch + Lookahead
    /\ ~Reached
    /\ work' = NoWork
    /\ mem' = [mem EXCEPT !.attempted = work.epoch]
    /\ IF work.kind = "stream" THEN Speculation(held, ahead)
                               ELSE UNCHANGED <<held, ahead>>
    /\ UNCHANGED <<head, canon, reorgs, quorum, disk, published, up, crashes>>

Closing(finalizes) ==
    [kind |-> work.kind, epoch |-> work.epoch, root |-> work.root,
     acc |-> work.acc, finalizes |-> finalizes]

Checkpoint(record) == [epoch |-> record.epoch, root |-> record.root]

\* finish_final, up to the store: the checkpoint is resolved again, and only
\* if it still stands is the epoch published.
PublishFinal ==
    /\ Busy
    /\ work.kind = "stream"
    /\ work.phase = "proving"
    /\ canon[work.epoch] = work.root
    /\ published' = published \cup {Closing(Checkpoint(work.prev))}
    /\ work' = [work EXCEPT !.phase = "published"]
    /\ UNCHANGED <<head, canon, reorgs, quorum, disk, held,
                   up, crashes, mem, ahead>>

\* ... and if it does not, the proof is discarded and the epoch stays open.
\* What was proved ahead is kept.
DiscardFinal ==
    /\ Busy
    /\ work.kind = "stream"
    /\ work.phase = "proving"
    /\ canon[work.epoch] # work.root
    /\ work' = NoWork
    /\ UNCHANGED <<head, canon, reorgs, quorum, disk, held, published,
                   up, crashes, mem, ahead>>

\* Mutant: the epochs are not compared.
BatchLinksAnyRecord == mem.batch.epoch # None

\* try_finalize: the batch record of the epoch before, linked by the diff.
BatchLinks ==
    LET previous == mem.batch
    IN /\ previous.epoch # None
       /\ previous.epoch + 1 = work.epoch
       /\ mem.diff.to = work.epoch
       /\ mem.diff.from = previous.acc
       /\ mem.diff.acc = work.acc

\* BatchPipeline::close, up to the store.  The root is the one the epoch was
\* opened with.
PublishBatch ==
    /\ Busy
    /\ work.kind = "batch"
    /\ work.phase = "collecting"
    /\ Reached
    /\ BatchLinks => BoundaryOpens(mem, mem.batch)
    /\ published' = published \cup
         {Closing(IF BatchLinks THEN Checkpoint(mem.batch) ELSE NoCheckpoint)}
    /\ work' = [work EXCEPT !.phase = "published",
                            !.prev = IF BatchLinks THEN mem.batch ELSE NoRecord]
    /\ UNCHANGED <<head, canon, reorgs, quorum, disk, held,
                   up, crashes, mem, ahead>>

\* ... and when the boundary does not open the tick fails.
FinalizeFails ==
    /\ Busy
    /\ work.kind = "batch"
    /\ work.phase = "collecting"
    /\ Reached
    /\ BatchLinks
    /\ ~BoundaryOpens(mem, mem.batch)
    /\ Down
    /\ UNCHANGED <<head, canon, reorgs, quorum, disk, held, published, crashes>>

\* Mutants: the whole record is put down for the checkpoint it finalizes, the
\* attempt is not put down, or the epoch closed is taken for the one finalized.
ClosedWithRecord(s, w) ==
    [s EXCEPT !.justified = w.epoch, !.attempted = w.epoch, !.finalized = w.prev]
ClosedUnattempted(s, w) == [s EXCEPT !.justified = w.epoch]
ClosedAsFinalized(s, w) ==
    [s EXCEPT !.justified = w.epoch, !.attempted = w.epoch,
              !.finalized = [epoch |-> w.epoch, root |-> w.root],
              !.batch = [epoch |-> w.epoch, root |-> w.root, acc |-> w.acc]]

\* What a closing puts on record.
ClosedState(s, w) ==
    LET record == [epoch |-> w.epoch, root |-> w.root, acc |-> w.acc]
        closed == [s EXCEPT !.justified = w.epoch, !.attempted = w.epoch,
                            !.finalized = IF w.prev = NoRecord THEN s.finalized
                                          ELSE Checkpoint(w.prev)]
    IN IF w.kind = "stream" THEN [closed EXCEPT !.stream = record]
                            ELSE [closed EXCEPT !.batch = record]

\* The rest of finish_final and of close; the save follows.
CommitClosing ==
    /\ Busy
    /\ work.phase = "published"
    /\ mem' = ClosedState(mem, work)
    /\ work' = NoWork
    /\ UNCHANGED <<head, canon, reorgs, quorum, disk, held, published,
                   up, crashes, ahead>>

\* Mutant: the accumulator does not wait for the verdict.
MayAdvanceUnsettled == Ready /\ mem.cursor < Last /\ mem.cursor + 1 <= head

\* The precondition tick_once gives advance_accumulator.
MayAdvance ==
    /\ Ready
    /\ work = NoWork
    /\ ~NeedsJustification(mem)
    /\ mem.cursor < Last
    /\ mem.cursor + 1 <= head

Matches(running) ==
    running.epoch = mem.cursor + 1 /\ running.from = mem.acc

\* take_diff finds the diff it wants and adopt_diff commits it.
AdoptDiff ==
    /\ MayAdvance
    /\ Matches(ahead.running)
    /\ LET next == AdvanceState(mem, ahead.running.registry, ahead.running.state)
       IN /\ mem' = next
          /\ ahead' = [running |-> NoRun,
                       committee |-> [epoch |-> next.cursor, acc |-> next.acc]]
    /\ UNCHANGED <<head, canon, reorgs, quorum, disk, held, published,
                   up, crashes, work>>

\* The diff is proved on the critical path: nothing was running, or it was for
\* something else, or it failed.
\* Mutant: a task that is not the one wanted is left running.
AheadKept == ahead

\* take_diff has taken whatever was running, and the committee with a stale one.
AheadOfInline ==
    [running |-> NoRun,
     committee |-> IF ahead.running = NoRun \/ Matches(ahead.running)
                   THEN ahead.committee ELSE NoCommittee]

InlineFiles == BoundaryAt(BoundaryAt(held, mem.cursor), mem.cursor + 1)

ProveDiff ==
    /\ MayAdvance
    /\ DiffBuilds(InlineFiles, mem)
    /\ LET next == AdvanceState(mem, Registry[InlineFiles[mem.cursor + 1]],
                                canon[mem.cursor + 1])
       IN /\ mem' = next
          /\ ahead' = AheadOfInline
    /\ held' = InlineFiles
    /\ UNCHANGED <<head, canon, reorgs, quorum, disk, published,
                   up, crashes, work>>

DiffFails ==
    /\ MayAdvance
    /\ ~DiffBuilds(InlineFiles, mem)
    /\ held' = InlineFiles
    /\ Down
    /\ UNCHANGED <<head, canon, reorgs, quorum, disk, published, crashes>>

\* Store::save, atomic, and what an advance does once it is down: the boundary
\* files behind the cursor go.
Save ==
    /\ up
    /\ mem # disk
    /\ disk' = mem
    /\ held' = ForgetBefore(held, mem.cursor)
    /\ UNCHANGED <<head, canon, reorgs, quorum, published,
                   up, crashes, mem, work, ahead>>

\* Anything else that ends the process, at any step.
Crash ==
    /\ up
    /\ crashes < MaxCrashes
    /\ crashes' = crashes + 1
    /\ Down
    /\ UNCHANGED <<head, canon, reorgs, quorum, disk, held, published>>

\* The supervisor starts it again: the store is loaded and the boundaries from
\* the cursor on are taken.
Restart ==
    /\ ~up
    /\ up' = TRUE
    /\ mem' = disk
    /\ \E taken \in SUBSET Wanted(held, disk.cursor) : held' = Hold(held, taken)
    /\ UNCHANGED <<head, canon, reorgs, quorum, disk, published,
                   crashes, work, ahead>>

Chain ==
    \/ ChainGrows
    \/ \E e \in Epochs : Attested(e)
    \/ \E k \in Epochs : Reorg(k)

\* A tick that makes progress or fails; the supervisor's restart.
Tick ==
    \/ OpenEpoch
    \/ OpenFails
    \/ SpeculationPanics
    \/ Fire
    \/ GiveUp
    \/ PublishFinal
    \/ DiscardFinal
    \/ PublishBatch
    \/ FinalizeFails
    \/ CommitClosing
    \/ AdoptDiff
    \/ ProveDiff
    \/ DiffFails
    \/ Save
    \/ Restart

Next ==
    \/ Chain
    \/ Tick
    \/ SpeculateAgain
    \/ ReopenAfterReorg
    \/ Crash

Spec == Init /\ [][Next]_vars

\* The loop of run() and the supervisor always take the next tick, and the
\* chain always grows; nobody has to attest, to reorg or to report one.
FairSpec ==
    /\ Spec
    /\ WF_vars(Tick)
    /\ WF_vars(ChainGrows)

-----------------------------------------------------------------------------
(* Properties.                                                             *)

TypeOK ==
    /\ head \in First .. Last + Lookahead
    /\ canon \in [Epochs -> Branches]
    /\ reorgs \in Branches
    /\ quorum \in [Epochs -> MaybeBranch]
    /\ disk \in StoreStates
    /\ held \in [Epochs -> MaybeBranch]
    /\ published \subseteq
         [kind : {"stream", "batch"}, epoch : Epochs, root : Branches,
          acc : Commitments, finalizes : Checkpoints]
    /\ up \in BOOLEAN
    /\ crashes \in 0 .. MaxCrashes
    /\ mem \in StoreStates
    /\ work \in Works \cup {NoWork}
    /\ ahead \in [running : Runs \cup {NoRun},
                 committee : Committees \cup {NoCommittee}]

\* speculation.rs:157-170 and accumulator.rs:182 guard against a diff proved
\* from another accumulator.  Whatever reorgs, crashes, failures and reopened
\* epochs come between, a diff in flight is always the next one from exactly
\* the accumulator in memory, and a committee proof held is always the
\* cursor's: a speculation that is adopted is never another epoch's.
SpeculationIsCurrent ==
    /\ ahead.running # NoRun =>
         /\ ahead.running.epoch = mem.cursor + 1
         /\ ahead.running.from = mem.acc
    /\ ahead.committee # NoCommittee =>
         /\ ahead.committee.epoch = mem.cursor
         /\ ahead.committee.acc = mem.acc

\* mod.rs:380-383: every proof inside a part-built epoch is bound to the
\* accumulator the epoch opened on, so the accumulator never moves under one.
WorkOnItsAccumulator ==
    work # NoWork =>
        /\ work.epoch = mem.cursor
        /\ work.acc = mem.acc
        /\ NeedsJustification(mem)

\* stream.rs:969-979 opens a streaming epoch on whatever diff is on record
\* without comparing it with anything (batch.rs:570-583 does).  It is always
\* the diff from the accumulator of the epoch being finalized to this one's.
StreamsOnTheLinkingDiff ==
    work.kind = "stream" =>
        /\ mem.diff.to = work.epoch
        /\ mem.diff.from = work.prev.acc
        /\ mem.diff.acc = work.acc
        /\ work.prev.epoch + 1 = work.epoch

\* No closing that was ever published is bound to an accumulator the chain of
\* record does not go through: a crash between publishing and saving, or
\* between an advance and its first closing, never forks the history that
\* consumers were given (RUNBOOK.md:700, "never regresses or double-applies").
Prefix(acc, e) == [f \in Epochs |-> IF f <= e THEN acc[f] ELSE None]

PublishedOnTheRecord ==
    \A p \in published :
        /\ p.epoch <= disk.cursor
        /\ p.acc = Prefix(disk.acc, p.epoch)

\* What a closing finalizes was itself published as justified, for the epoch
\* just before, with the same root and on the accumulator this one extends.
FinalizesWhatWasPublished ==
    \A p \in published : p.finalizes # NoCheckpoint =>
        \E q \in published :
            /\ q.epoch + 1 = p.epoch
            /\ Checkpoint(q) = p.finalizes
            /\ q.acc = Prefix(p.acc, q.epoch)

\* A closing published twice, because the process died between publishing and
\* saving (stream.rs:1582), names the same checkpoint both times: the second
\* attempt resolves the checkpoint anew, and needs two thirds behind it again.
RepublishedAlike ==
    \A p, q \in published : p.epoch = q.epoch => p.root = q.root

\* RUNBOOK.md:698-702: the verdict on record is the cursor's or that of the
\* epoch before it, and memory is at most one save ahead of the store, so what
\* a crash takes at any point is at most the epoch in flight.
RestartCostsOneEpoch ==
    /\ disk.justified <= disk.attempted
    /\ disk.attempted <= disk.cursor
    /\ disk.cursor = First \/ disk.cursor <= disk.attempted + 1
    /\ mem.cursor - disk.cursor \in 0 .. 1
    /\ mem.cursor # disk.cursor => disk.attempted = disk.cursor
    /\ mem.attempted = disk.attempted \/ mem.attempted = disk.cursor

\* assumptions.md:444-446: "the daemon re-resolves the checkpoint root before
\* it publishes".  Said of the daemon, so of both pipelines.
PublishesCanonical ==
    [][\A p \in published' \ published : p.root = canon[p.epoch]]_vars

\* RUNBOOK.md:700-702: the accumulator moves one epoch at a time, keeps all it
\* had, and only leaves an epoch that has its verdict.
AccumulatorMovesByOne ==
    [][disk'.cursor # disk.cursor =>
         /\ disk'.cursor = disk.cursor + 1
         /\ disk.attempted = disk.cursor
         /\ Prefix(disk'.acc, disk.cursor) = disk.acc]_disk

Settled == disk.cursor = Last /\ disk.attempted = Last

\* The boundary the store's accumulator was read from, or the checkpoint it
\* last justified, is not on the canonical chain any more.
BoundaryMoved ==
    \/ disk.state # canon[disk.cursor]
    \/ disk.diff # NoDiff /\ disk.diff.state1 # canon[disk.cursor - 1]
    \/ \E r \in {disk.stream, disk.batch} :
         r # NoRecord /\ r.root # canon[r.epoch]
    \/ \E e \in Epochs : held[e] # None /\ held[e] # canon[e]

\* The diff to the next epoch never will be built: nothing changed in it
\* (witness_epoch_diff.rs:94-97), which stops an epoch that has its verdict, or
\* the registry outgrew the tree (acc_tree.rs:161-180), which may stop it before.
DiffImpossible ==
    \/ /\ disk.cursor + 1 \in Still /\ ~NeedsJustification(disk)
       /\ Registry[canon[disk.cursor + 1]] = disk.acc[disk.cursor]
    \/ disk.cursor + 1 \in Overgrown

\* mod.rs:380-415, RUNBOOK.md:698-702: every epoch gets its verdict, across
\* crashes and failed ticks, unless the daemon is stopped for good, and of what is
\* modelled that takes a boundary it had already read that reorged afterwards or
\* a diff no restart can build.
SettlesUnlessStuck == <>Settled \/ <>[](BoundaryMoved \/ DiffImpossible)

\* assumptions.md:446-447, "a checkpoint that reorgs out is a retry ... and
\* that costs publication latency": an epoch two thirds voted for is decided
\* in the end, whatever boundary reorged before the vote.
ReorgCostsOnlyLatency ==
    \A e \in Epochs : quorum[e] # None ~> disk.attempted >= e

\* The consumer's view of the store.
Newest == IF disk.stream.epoch >= disk.batch.epoch THEN disk.stream ELSE disk.batch

Ledger == INSTANCE FinalityLedger WITH
    Roots <- Branches,
    cursor <- disk.cursor,
    settled <- ~NeedsJustification(disk),
    justified <- Checkpoint(Newest),
    finalized <- disk.finalized

LedgerSpec == Ledger!Spec
=============================================================================
