------------------------- MODULE OrchestratorProofs -------------------------
(***************************************************************************)
(* Proofs about Orchestrator, for every number of epochs, reorgs and       *)
(* crashes, every registry and both pipelines.                             *)
(***************************************************************************)
EXTENDS Orchestrator, TLAPS

-----------------------------------------------------------------------------
(* Types.                                                                  *)

USE DEF None

\* An epoch and a branch are naturals, so neither is None.
LEMMA ConstantTypes ==
    /\ Epochs \subseteq Nat
    /\ Branches \subseteq Nat
    /\ First \in Epochs
    /\ None \notin Epochs
    /\ None \notin Branches
  BY EpochBounds, Bounds DEF Epochs, Branches

\* StoreState::started is a store state.
LEMMA StartedType == Started \in StoreStates
<1>1. Registry[0] \in Nat
  BY RegistryType, Bounds DEF Branches
<1>2. Started.acc \in Commitments
  BY <1>1 DEF Started, Commitments
<1>3. NoRecord \in Records
  BY DEF NoRecord, Records, MaybeEpoch, MaybeBranch, Commitments
<1>4. NoDiff \in Diffs
  BY DEF NoDiff, Diffs, MaybeEpoch, MaybeBranch, Commitments
<1>5. NoCheckpoint \in Checkpoints
  BY DEF NoCheckpoint, Checkpoints, MaybeEpoch, MaybeBranch
<1>6. 0 \in Branches
  BY Bounds DEF Branches
<1> QED
  BY <1>2, <1>3, <1>4, <1>5, <1>6, ConstantTypes DEF Started, StoreStates, MaybeEpoch

\* StoreState::advance yields a store state from one below the last epoch.
LEMMA AdvanceType ==
    ASSUME NEW s \in StoreStates, s.cursor < Last,
           NEW registry \in Nat, NEW state \in Branches
    PROVE  AdvanceState(s, registry, state) \in StoreStates
<1> DEFINE next == s.cursor + 1
           acc == [s.acc EXCEPT ![next] = registry]
           diff == [to |-> next, from |-> s.acc, acc |-> acc, state1 |-> s.state]
<1>1. s.cursor \in Epochs /\ s.acc \in Commitments /\ s.state \in Branches
  BY DEF StoreStates
<1>2. next \in Epochs
  BY <1>1, EpochBounds DEF Epochs
<1>3. acc \in Commitments
  BY <1>1 DEF Commitments
<1>4. diff \in Diffs
  BY <1>1, <1>2, <1>3 DEF Diffs, MaybeEpoch, MaybeBranch
<1> HIDE DEF next, acc, diff
<1>5. AdvanceState(s, registry, state) =
        [s EXCEPT !.cursor = next, !.acc = acc, !.state = state, !.diff = diff]
  BY DEF AdvanceState, next, acc, diff
<1> QED
  BY <1>2, <1>3, <1>4, <1>5 DEF StoreStates

\* ... and so does a closing.
LEMMA ClosedType ==
    ASSUME NEW s \in StoreStates, NEW w \in Works
    PROVE  ClosedState(s, w) \in StoreStates
<1>1. Checkpoint(w.prev) \in Checkpoints
  BY DEF Works, Records, Checkpoints, Checkpoint
<1>2. [epoch |-> w.epoch, root |-> w.root, acc |-> w.acc] \in Records
  BY DEF Works, Records, MaybeEpoch, MaybeBranch
<1>3. w.epoch \in MaybeEpoch
  BY DEF Works, MaybeEpoch
<1> QED
  BY <1>1, <1>2, <1>3 DEF ClosedState, StoreStates

\* A boundary read from the files or from the node is on some branch.
LEMMA BoundaryAtType ==
    ASSUME NEW files \in [Epochs -> MaybeBranch], NEW e \in Epochs,
           canon \in [Epochs -> Branches]
    PROVE  /\ BoundaryAt(files, e) \in [Epochs -> MaybeBranch]
           /\ BoundaryAt(files, e)[e] \in Branches
           /\ \A f \in Epochs : files[f] \in Branches => BoundaryAt(files, e)[f] = files[f]
  BY ConstantTypes DEF BoundaryAt, MaybeBranch

LEMMA HoldType ==
    ASSUME NEW files \in [Epochs -> MaybeBranch], NEW taken,
           canon \in [Epochs -> Branches]
    PROVE  Hold(files, taken) \in [Epochs -> MaybeBranch]
  BY DEF Hold, MaybeBranch

LEMMA ForgetType ==
    ASSUME NEW files \in [Epochs -> MaybeBranch], NEW e
    PROVE  ForgetBefore(files, e) \in [Epochs -> MaybeBranch]
  BY DEF ForgetBefore, MaybeBranch

LEMMA SpeculateFilesType ==
    ASSUME NEW files \in [Epochs -> MaybeBranch],
           canon \in [Epochs -> Branches],
           mem \in StoreStates,
           mem.cursor + 1 <= Last
    PROVE  /\ mem.cursor + 1 \in Epochs
           /\ SpeculateFiles(files) \in [Epochs -> MaybeBranch]
           /\ SpeculateFiles(files)[mem.cursor + 1] \in Branches
<1>1. mem.cursor \in Epochs
  BY DEF StoreStates
<1>2. mem.cursor + 1 \in Epochs
  BY <1>1, EpochBounds DEF Epochs
<1>3. BoundaryAt(files, mem.cursor) \in [Epochs -> MaybeBranch]
  BY <1>1, BoundaryAtType
<1> QED
  BY <1>2, <1>3, BoundaryAtType DEF SpeculateFiles

\* Starting a speculation keeps the boundary files and what is proved ahead
\* well typed, and a run it starts is the next epoch's.
LEMMA SpeculationType ==
    ASSUME NEW files \in [Epochs -> MaybeBranch],
           NEW a \in [running : Runs \cup {NoRun},
                      committee : Committees \cup {NoCommittee}],
           canon \in [Epochs -> Branches],
           mem \in StoreStates,
           mem.cursor + 1 <= Last
    PROVE  /\ SpeculateFiles(files) \in [Epochs -> MaybeBranch]
           /\ SpeculateAhead(files, a) \in
                [running : Runs \cup {NoRun}, committee : Committees \cup {NoCommittee}]
<1> DEFINE next == mem.cursor + 1
           taken == SpeculateFiles(files)
<1>1. mem.acc \in Commitments
  BY DEF StoreStates
<1>2. next \in Epochs
  BY SpeculateFilesType
<1>3. taken \in [Epochs -> MaybeBranch] /\ taken[next] \in Branches
  BY SpeculateFilesType
<1>4. Registry[taken[next]] \in Nat
  BY <1>3, RegistryType
<1>5. [epoch |-> next, from |-> mem.acc,
       registry |-> Registry[taken[next]], state |-> canon[next]] \in Runs
  BY <1>1, <1>2, <1>4 DEF Runs
<1> QED
  BY <1>3, <1>5 DEF SpeculateAhead

LEMMA SpeculationStepType ==
    ASSUME NEW files \in [Epochs -> MaybeBranch],
           NEW a \in [running : Runs \cup {NoRun},
                      committee : Committees \cup {NoCommittee}],
           canon \in [Epochs -> Branches],
           mem \in StoreStates,
           Speculation(files, a)
    PROVE  /\ held' \in [Epochs -> MaybeBranch]
           /\ ahead' \in
                [running : Runs \cup {NoRun}, committee : Committees \cup {NoCommittee}]
  BY SpeculationType DEF Speculation, Speculable

LEMMA NothingAheadType ==
    NothingAhead \in [running : Runs \cup {NoRun},
                      committee : Committees \cup {NoCommittee}]
  BY DEF NothingAhead

LEMMA InlineType ==
    ASSUME TypeOK, mem.cursor < Last
    PROVE  /\ InlineFiles \in [Epochs -> MaybeBranch]
           /\ mem.cursor + 1 \in Epochs
           /\ InlineFiles[mem.cursor + 1] \in Branches
<1>1. mem.cursor \in Epochs
  BY DEF TypeOK, StoreStates
<1>2. mem.cursor + 1 \in Epochs
  BY <1>1, EpochBounds DEF Epochs
<1>3. BoundaryAt(held, mem.cursor) \in [Epochs -> MaybeBranch]
  BY <1>1, BoundaryAtType DEF TypeOK
<1> QED
  BY <1>2, <1>3, BoundaryAtType DEF TypeOK, InlineFiles

\* What an epoch is opened on.
LEMMA PreviousType ==
    ASSUME NEW s \in StoreStates, NEW e
    PROVE  PreviousJustification(s, e) \in Records
<1>1. NoRecord \in Records
  BY DEF NoRecord, Records, MaybeEpoch, MaybeBranch, Commitments
<1> QED
  BY <1>1 DEF PreviousJustification, StoreStates

LEMMA CommitteeSpent ==
    ASSUME TypeOK
    PROVE  [ahead EXCEPT !.committee = NoCommittee] \in
             [running : Runs \cup {NoRun}, committee : Committees \cup {NoCommittee}]
  BY DEF TypeOK

\* The files an open leaves behind, before it speculates.
LEMMA OpenFilesType ==
    ASSUME TypeOK, NEW taken
    PROVE  /\ BoundaryAt(held, mem.cursor) \in [Epochs -> MaybeBranch]
           /\ Hold(BoundaryAt(held, mem.cursor), taken) \in [Epochs -> MaybeBranch]
<1>1. mem.cursor \in Epochs
  BY DEF TypeOK, StoreStates
<1>2. BoundaryAt(held, mem.cursor) \in [Epochs -> MaybeBranch]
  BY <1>1, BoundaryAtType DEF TypeOK
<1> QED
  BY <1>2, HoldType DEF TypeOK

LEMMA InitType == Init => TypeOK
<1> SUFFICES ASSUME Init PROVE TypeOK
  OBVIOUS
<1>1. head \in First .. Last + Lookahead
  BY EpochBounds, Windows DEF Init
<1>2. canon \in [Epochs -> Branches] /\ reorgs \in Branches /\ crashes \in 0 .. MaxCrashes
  BY Bounds DEF Init, Branches
<1>3. quorum \in [Epochs -> MaybeBranch] /\ held \in [Epochs -> MaybeBranch]
  BY Bounds DEF Init, MaybeBranch, Branches
<1> QED
  BY <1>1, <1>2, <1>3, StartedType, NothingAheadType DEF Init, TypeOK

\* One case per action: what it assigns is well typed.
LEMMA NextType == TypeOK /\ [Next]_vars => TypeOK'
<1> SUFFICES ASSUME TypeOK, [Next]_vars PROVE TypeOK'
  OBVIOUS
<1> USE ConstantTypes
<1>1. CASE ChainGrows
  BY <1>1, EpochBounds, Windows DEF TypeOK, ChainGrows
<1>2. ASSUME NEW e \in Epochs, Attested(e) PROVE TypeOK'
  BY <1>2 DEF TypeOK, Attested, MaybeBranch
<1>3. ASSUME NEW k \in Epochs, Reorg(k) PROVE TypeOK'
  <2>1. reorgs + 1 \in Branches
    BY <1>3, Bounds DEF TypeOK, Reorg, Branches
  <2> QED
    BY <1>3, <2>1 DEF TypeOK, Reorg
<1>4. CASE OpenEpoch
  <2> DEFINE e == mem.cursor
             kind == IF Pipeline = "streaming" /\ CanStream(mem)
                     THEN "stream" ELSE "batch"
             previous == PreviousJustification(mem, e)
             spent == [ahead EXCEPT !.committee = NoCommittee]
             files == BoundaryAt(held, e)
             opened == [kind |-> kind, epoch |-> e, root |-> canon[e],
                        acc |-> mem.acc, phase |-> "collecting",
                        prev |-> IF kind = "stream" THEN previous ELSE NoRecord]
  <2>1. e \in Epochs /\ mem.acc \in Commitments /\ canon[e] \in Branches
    BY DEF TypeOK, StoreStates
  <2>2. previous \in Records /\ NoRecord \in Records
    BY PreviousType DEF TypeOK, NoRecord, Records, MaybeEpoch, MaybeBranch, Commitments
  <2>3. kind \in {"stream", "batch"}
    OBVIOUS
  <2>4. opened \in Works
    <3> HIDE DEF e, kind, previous
    <3> QED
      BY <2>1, <2>2, <2>3 DEF Works
  <2>5. work' = opened
    BY <1>4 DEF OpenEpoch
  <2>6. PICK taken \in SUBSET Wanted(files, e + 1) :
             Speculation(Hold(files, taken), spent)
    BY <1>4 DEF OpenEpoch
  <2>7. /\ held' \in [Epochs -> MaybeBranch]
        /\ ahead' \in [running : Runs \cup {NoRun},
                       committee : Committees \cup {NoCommittee}]
    <3>1. Hold(files, taken) \in [Epochs -> MaybeBranch]
      BY OpenFilesType
    <3> HIDE DEF files, spent
    <3>2. spent \in [running : Runs \cup {NoRun},
                     committee : Committees \cup {NoCommittee}]
      BY CommitteeSpent DEF spent
    <3> QED
      BY <2>6, <3>1, <3>2, SpeculationStepType DEF TypeOK
  <2> HIDE DEF opened
  <2> QED
    BY <1>4, <2>4, <2>5, <2>7 DEF TypeOK, OpenEpoch
<1>5. CASE OpenFails
  <2>1. held' \in [Epochs -> MaybeBranch]
    <3> DEFINE files == BoundaryAt(held, mem.cursor)
    <3>1. CASE held' = files
      BY <3>1, OpenFilesType
    <3>2. ASSUME NEW taken, held' = Hold(files, taken)
          PROVE  held' \in [Epochs -> MaybeBranch]
      BY <3>2, OpenFilesType
    <3>3. ASSUME NEW taken, mem.cursor + 1 <= Last,
                 held' = SpeculateFiles(Hold(files, taken))
          PROVE  held' \in [Epochs -> MaybeBranch]
      <4>1. Hold(files, taken) \in [Epochs -> MaybeBranch]
        BY OpenFilesType
      <4>2. canon \in [Epochs -> Branches] /\ mem \in StoreStates
        BY DEF TypeOK
      <4> HIDE DEF files
      <4>3. SpeculateFiles(Hold(files, taken)) \in [Epochs -> MaybeBranch]
        BY <3>3, <4>1, <4>2, SpeculateFilesType
      <4> QED
        BY <3>3, <4>3
    <3> QED
      BY <1>5, <3>1, <3>2, <3>3 DEF OpenFails, Speculable
  <2> QED
    BY <1>5, <2>1, NothingAheadType DEF TypeOK, OpenFails, Down
<1>6. CASE SpeculateAgain
  BY <1>6, SpeculationType DEF TypeOK, SpeculateAgain, Speculable
<1>7. CASE ReopenAfterReorg
  BY <1>7, NothingAheadType DEF TypeOK, ReopenAfterReorg
<1>8. CASE Fire
  <2>1. work' \in Works
    BY <1>8 DEF TypeOK, Fire, Busy, Works
  <2> QED
    BY <1>8, <2>1 DEF TypeOK, Fire
<1>9. CASE GiveUp
  <2>1. mem' \in StoreStates
    <3>1. work.epoch \in MaybeEpoch
      BY <1>9 DEF TypeOK, GiveUp, Busy, Works, MaybeEpoch
    <3> QED
      BY <1>9, <3>1 DEF TypeOK, GiveUp, StoreStates
  <2>2. /\ held' \in [Epochs -> MaybeBranch]
        /\ ahead' \in [running : Runs \cup {NoRun},
                       committee : Committees \cup {NoCommittee}]
    BY <1>9, SpeculationStepType DEF TypeOK, GiveUp
  <2> QED
    BY <1>9, <2>1, <2>2 DEF TypeOK, GiveUp
<1>10. CASE PublishFinal
  <2>1. work' \in Works
    BY <1>10 DEF TypeOK, PublishFinal, Busy, Works
  <2>2. Closing(Checkpoint(work.prev)) \in
          [kind : {"stream", "batch"}, epoch : Epochs, root : Branches,
           acc : Commitments, finalizes : Checkpoints]
    BY <1>10 DEF TypeOK, PublishFinal, Busy, Works, Closing, Checkpoint,
                 Records, Checkpoints
  <2> QED
    BY <1>10, <2>1, <2>2 DEF TypeOK, PublishFinal
<1>11. CASE DiscardFinal
  BY <1>11 DEF TypeOK, DiscardFinal
<1>12. CASE PublishBatch
  <2>1. mem.batch \in Records /\ NoRecord \in Records /\ NoCheckpoint \in Checkpoints
    BY DEF TypeOK, StoreStates, NoRecord, NoCheckpoint, Checkpoints, Records,
           MaybeEpoch, MaybeBranch, Commitments
  <2>2. work' \in Works
    BY <1>12, <2>1 DEF TypeOK, PublishBatch, Busy, Works
  <2>3. ASSUME NEW c \in Checkpoints
        PROVE  Closing(c) \in
          [kind : {"stream", "batch"}, epoch : Epochs, root : Branches,
           acc : Commitments, finalizes : Checkpoints]
    BY <1>12 DEF TypeOK, PublishBatch, Busy, Works, Closing
  <2>4. Checkpoint(mem.batch) \in Checkpoints
    BY <2>1 DEF Checkpoint, Records, Checkpoints
  <2> QED
    BY <1>12, <2>1, <2>2, <2>3, <2>4 DEF TypeOK, PublishBatch
<1>13. CASE FinalizeFails
  BY <1>13, NothingAheadType DEF TypeOK, FinalizeFails, Down
<1>14. CASE CommitClosing
  <2>1. mem' \in StoreStates
    BY <1>14, ClosedType DEF TypeOK, CommitClosing, Busy
  <2> QED
    BY <1>14, <2>1 DEF TypeOK, CommitClosing
<1>15. CASE AdoptDiff
  <2>1. ahead.running \in Runs
    <3>1. ahead.running.epoch # None
      <4>1. mem.cursor \in Epochs
        BY DEF TypeOK, StoreStates
      <4>2. ahead.running.epoch = mem.cursor + 1
        BY <1>15 DEF AdoptDiff, Matches
      <4> QED
        BY <4>1, <4>2, EpochBounds DEF Epochs
    <3> QED
      BY <3>1 DEF TypeOK, NoRun
  <2> DEFINE next == AdvanceState(mem, ahead.running.registry, ahead.running.state)
  <2>2. next \in StoreStates
    BY <1>15, <2>1, AdvanceType DEF TypeOK, AdoptDiff, MayAdvance, Runs
  <2>3. mem' = next
    BY <1>15 DEF AdoptDiff
  <2>4. ahead' = [running |-> NoRun,
                  committee |-> [epoch |-> next.cursor, acc |-> next.acc]]
    BY <1>15 DEF AdoptDiff
  <2> HIDE DEF next
  <2>5. [epoch |-> next.cursor, acc |-> next.acc] \in Committees
    BY <2>2 DEF StoreStates, Committees
  <2> QED
    BY <1>15, <2>2, <2>3, <2>4, <2>5 DEF TypeOK, AdoptDiff
<1>16. CASE ProveDiff
  <2>1. mem.cursor < Last
    BY <1>16 DEF ProveDiff, AheadOfInline, MayAdvance
  <2>2. Registry[InlineFiles[mem.cursor + 1]] \in Nat /\ canon[mem.cursor + 1] \in Branches
    BY <2>1, InlineType, RegistryType DEF TypeOK
  <2>3. mem' \in StoreStates
    BY <1>16, <2>1, <2>2, AdvanceType DEF TypeOK, ProveDiff, AheadOfInline
  <2>4. ahead' \in [running : Runs \cup {NoRun},
                   committee : Committees \cup {NoCommittee}]
    BY <1>16 DEF TypeOK, ProveDiff, AheadOfInline
  <2>5. held' \in [Epochs -> MaybeBranch]
    BY <1>16, <2>1, InlineType DEF ProveDiff, AheadOfInline
  <2> QED
    BY <1>16, <2>3, <2>4, <2>5 DEF TypeOK, ProveDiff, AheadOfInline
<1>17. CASE DiffFails
  BY <1>17, NothingAheadType, InlineType DEF TypeOK, DiffFails, Down, MayAdvance
<1>18. CASE Save
  BY <1>18, ForgetType DEF TypeOK, Save
<1>19. CASE Crash
  <2>1. crashes' \in 0 .. MaxCrashes
    BY <1>19, Bounds DEF TypeOK, Crash
  <2> QED
    BY <1>19, <2>1, NothingAheadType DEF TypeOK, Crash, Down
<1>20. CASE Restart
  BY <1>20, HoldType DEF TypeOK, Restart
<1>21. CASE SpeculationPanics
  <2>1. canon \in [Epochs -> Branches] /\ mem \in StoreStates
        /\ held \in [Epochs -> MaybeBranch] /\ mem.cursor + 1 <= Last
    BY <1>21 DEF TypeOK, SpeculationPanics, Speculable
  <2>2. PICK files \in [Epochs -> MaybeBranch] : held' = SpeculateFiles(files)
    <3> DEFINE opened == BoundaryAt(held, mem.cursor)
    <3>1. \A taken : Hold(opened, taken) \in [Epochs -> MaybeBranch]
      BY OpenFilesType
    <3> HIDE DEF opened
    <3>2. \/ held' = SpeculateFiles(held)
          \/ \E taken : held' = SpeculateFiles(Hold(opened, taken))
      BY <1>21 DEF SpeculationPanics, opened
    <3> QED
      BY <2>1, <3>1, <3>2
  <2>3. held' \in [Epochs -> MaybeBranch]
    BY <2>1, <2>2, SpeculateFilesType
  <2> QED
    BY <1>21, <2>3, NothingAheadType DEF TypeOK, SpeculationPanics, Down
<1>22. CASE UNCHANGED vars
  BY <1>22 DEF TypeOK, vars
<1> QED
  BY <1>1, <1>2, <1>3, <1>4, <1>5, <1>6, <1>7, <1>8, <1>9, <1>10, <1>11,
     <1>12, <1>13, <1>14, <1>15, <1>16, <1>17, <1>18, <1>19, <1>20, <1>21, <1>22
     DEF Next, Chain, Tick

\* Every state of every behaviour is well typed: in particular the cursor
\* never leaves the epochs, and no read of a boundary file or of a record
\* that was never written (its None) reaches the store.
THEOREM TypeCorrect == Spec => []TypeOK
  BY InitType, NextType, PTL DEF Spec

-----------------------------------------------------------------------------
(* The inductive invariant.  The properties of Orchestrator are not        *)
(* inductive by themselves: that a save cannot break the history needs to  *)
(* know what memory may hold that the store does not, and that a streaming *)
(* epoch opens on the linking diff needs to know what every record and the *)
(* diff in a store commit to.                                              *)

\* A store state on its own: the verdicts trail the cursor by at most one
\* epoch, nothing is committed beyond the cursor, and the diff and both
\* records lie on the accumulator's own history.
Coherent(s) ==
    /\ s.justified <= s.attempted
    /\ s.attempted <= s.cursor
    /\ s.cursor = First \/ s.cursor <= s.attempted + 1
    /\ \A e \in Epochs : s.cursor < e => s.acc[e] = None
    /\ s.diff # NoDiff => /\ s.diff.to = s.cursor
                          /\ s.diff.from = Prefix(s.acc, s.cursor - 1)
                          /\ s.diff.acc = s.acc
    /\ \A r \in {s.stream, s.batch} : r.epoch # None =>
         /\ r.epoch <= s.cursor
         /\ r.acc = Prefix(s.acc, r.epoch)

\* A record was published.
Backed(r) ==
    r.epoch # None =>
        \E q \in published : q.epoch = r.epoch /\ q.root = r.root /\ q.acc = r.acc

\* Memory is the store's, or one verdict, or one advance, ahead of it.
OneSaveAhead ==
    \/ mem = disk
    \/ /\ disk.attempted # disk.cursor
       /\ mem.cursor = disk.cursor
       /\ mem.acc = disk.acc
       /\ mem.attempted = mem.cursor
    \/ /\ disk.attempted = disk.cursor
       /\ mem.cursor = disk.cursor + 1
       /\ mem.attempted = disk.attempted
       /\ Prefix(mem.acc, disk.cursor) = disk.acc

\* A record an epoch may finalize: of the epoch before, on the accumulator the
\* epoch at work extends, and published.
LinksTo(r) ==
    /\ r.epoch # None
    /\ r.epoch + 1 = work.epoch
    /\ r.acc = Prefix(work.acc, r.epoch)
    /\ Backed(r)

\* An epoch part-built is the one memory and the store agree is open; the
\* record it finalizes was published, and so was it once it says so.
WorkInv ==
    work # NoWork =>
        /\ mem = disk
        /\ ahead.committee = NoCommittee
        /\ work.kind = "stream" => work.prev # NoRecord
        /\ work.prev # NoRecord => LinksTo(work.prev)
        /\ work.phase = "published" => Backed(work)

\* A committee proof waits for its epoch to open and is spent on it.
CommitteeInv == ahead.committee # NoCommittee => NeedsJustification(mem)

DownInv == ~up => mem = disk /\ work = NoWork /\ ahead = NothingAhead

\* The part of the invariant that is about the process and its snapshot.
ProcessInv ==
    /\ DownInv
    /\ WorkOnItsAccumulator
    /\ WorkInv
    /\ StreamsOnTheLinkingDiff
    /\ SpeculationIsCurrent
    /\ CommitteeInv

\* The part that is about the store and what was published.
StoreInv ==
    /\ Coherent(mem)
    /\ Coherent(disk)
    /\ OneSaveAhead
    /\ \A s \in {mem, disk} : Backed(s.stream) /\ Backed(s.batch)
    /\ PublishedOnTheRecord
    /\ FinalizesWhatWasPublished

Inv == TypeOK /\ ProcessInv /\ StoreInv

\* The three ways the daemon changes a store state keep it coherent.
LEMMA AdvanceCoherent ==
    ASSUME NEW s \in StoreStates, s.cursor < Last, s.attempted = s.cursor,
           Coherent(s), NEW registry \in Nat, NEW state \in Branches
    PROVE  /\ Coherent(AdvanceState(s, registry, state))
           /\ AdvanceState(s, registry, state).cursor = s.cursor + 1
           /\ AdvanceState(s, registry, state).attempted = s.attempted
           /\ AdvanceState(s, registry, state).stream = s.stream
           /\ AdvanceState(s, registry, state).batch = s.batch
           /\ Prefix(AdvanceState(s, registry, state).acc, s.cursor) = s.acc
<1> DEFINE t == AdvanceState(s, registry, state)
<1>1. s.cursor \in Epochs /\ s.cursor + 1 \in Epochs /\ s.acc \in Commitments
  BY EpochBounds DEF StoreStates, Epochs
<1>2. /\ t.cursor = s.cursor + 1
      /\ t.attempted = s.attempted
      /\ t.justified = s.justified
      /\ t.stream = s.stream
      /\ t.batch = s.batch
      /\ t.acc = [s.acc EXCEPT ![s.cursor + 1] = registry]
      /\ t.diff.to = t.cursor /\ t.diff.from = s.acc /\ t.diff.acc = t.acc
  BY DEF AdvanceState, StoreStates
<1> HIDE DEF t
<1>3. t.acc \in Commitments
  BY <1>1, <1>2 DEF Commitments
<1>4. \A e \in Epochs : e <= s.cursor => t.acc[e] = s.acc[e]
  BY <1>1, <1>2, EpochBounds DEF Commitments, Epochs
<1>5. \A e \in Epochs : s.cursor < e => s.acc[e] = None
  BY DEF Coherent
<1>6. \A k \in Epochs : k <= s.cursor => Prefix(t.acc, k) = Prefix(s.acc, k)
  BY <1>1, <1>4, EpochBounds DEF Prefix, Epochs
<1>7. Prefix(s.acc, s.cursor) = s.acc
  BY <1>1, <1>5, EpochBounds DEF Prefix, Commitments, Epochs
<1>8. \A e \in Epochs : t.cursor < e => t.acc[e] = None
  BY <1>1, <1>2, <1>5, EpochBounds DEF Commitments, Epochs
<1>9. t.diff.from = Prefix(t.acc, t.cursor - 1)
  <2>1. t.cursor - 1 = s.cursor
    BY <1>1, <1>2, EpochBounds DEF Epochs
  <2> QED
    BY <1>1, <1>2, <1>6, <1>7, <2>1, EpochBounds DEF Epochs
<1>10. ASSUME NEW r \in {t.stream, t.batch}, r.epoch # None
       PROVE  r.epoch <= t.cursor /\ r.acc = Prefix(t.acc, r.epoch)
  <2>1. r.epoch <= s.cursor /\ r.acc = Prefix(s.acc, r.epoch)
    BY <1>2, <1>10 DEF Coherent
  <2>2. r.epoch \in Epochs
    BY <1>2, <1>10 DEF StoreStates, Records, MaybeEpoch
  <2> QED
    BY <1>1, <1>2, <1>6, <2>1, <2>2, EpochBounds DEF Epochs
<1>11. t.justified <= t.attempted /\ t.attempted <= t.cursor /\ t.cursor <= t.attempted + 1
  BY <1>1, <1>2, EpochBounds DEF Coherent, Epochs
<1>12. Coherent(t)
  BY <1>2, <1>8, <1>9, <1>10, <1>11 DEF Coherent
<1> QED
  BY <1>1, <1>2, <1>6, <1>7, <1>12, EpochBounds DEF t, Epochs

LEMMA ClosedCoherent ==
    ASSUME NEW s \in StoreStates, Coherent(s), NEW w \in Works,
           w.epoch = s.cursor, w.acc = s.acc
    PROVE  /\ Coherent(ClosedState(s, w))
           /\ ClosedState(s, w).cursor = s.cursor
           /\ ClosedState(s, w).acc = s.acc
           /\ ClosedState(s, w).attempted = s.cursor
           /\ \A r \in {ClosedState(s, w).stream, ClosedState(s, w).batch} :
                r \in {s.stream, s.batch,
                       [epoch |-> w.epoch, root |-> w.root, acc |-> w.acc]}
<1> DEFINE t == ClosedState(s, w)
           record == [epoch |-> w.epoch, root |-> w.root, acc |-> w.acc]
<1>1. s.cursor \in Epochs /\ s.acc \in Commitments
  BY DEF StoreStates
<1>2. /\ t.cursor = s.cursor
      /\ t.acc = s.acc
      /\ t.attempted = s.cursor
      /\ t.justified = s.cursor
      /\ t.diff = s.diff
  BY DEF ClosedState, StoreStates
<1>3. t.stream \in {s.stream, record} /\ t.batch \in {s.batch, record}
  BY DEF ClosedState, StoreStates
<1>4. record.epoch = s.cursor /\ record.acc = Prefix(s.acc, s.cursor)
  BY <1>1, EpochBounds DEF Prefix, Coherent, Commitments, Epochs
<1> HIDE DEF t, record
<1>5. \A r \in {t.stream, t.batch} : r.epoch # None =>
         r.epoch <= t.cursor /\ r.acc = Prefix(t.acc, r.epoch)
  BY <1>1, <1>2, <1>3, <1>4, EpochBounds DEF Coherent, Epochs
<1>6. t.justified <= t.attempted /\ t.attempted <= t.cursor /\ t.cursor <= t.attempted + 1
  BY <1>1, <1>2, EpochBounds DEF Epochs
<1>7. Coherent(t)
  BY <1>2, <1>5, <1>6 DEF Coherent
<1> QED
  BY <1>2, <1>3, <1>7 DEF t, record

LEMMA GivenUpCoherent ==
    ASSUME NEW s \in StoreStates, Coherent(s)
    PROVE  Coherent([s EXCEPT !.attempted = s.cursor])
<1>1. s.cursor \in Epochs /\ s.justified \in MaybeEpoch /\ s.attempted \in MaybeEpoch
  BY DEF StoreStates
<1>2. s.justified <= s.cursor /\ s.cursor <= s.cursor /\ s.cursor <= s.cursor + 1
  BY <1>1, EpochBounds DEF Coherent, MaybeEpoch, Epochs
<1> DEFINE t == [s EXCEPT !.attempted = s.cursor]
<1>3. /\ t.cursor = s.cursor /\ t.acc = s.acc /\ t.justified = s.justified
      /\ t.attempted = s.cursor /\ t.diff = s.diff
      /\ t.stream = s.stream /\ t.batch = s.batch
  BY DEF StoreStates
<1> HIDE DEF t
<1>4. Coherent(t)
  BY <1>2, <1>3 DEF Coherent
<1> QED
  BY <1>4 DEF t

\* A speculation is made from the snapshot in memory.
LEMMA SpeculationCurrent ==
    ASSUME NEW files, NEW a
    PROVE  \/ SpeculateAhead(files, a) = a
           \/ /\ SpeculateAhead(files, a).running.epoch = mem.cursor + 1
              /\ SpeculateAhead(files, a).running.from = mem.acc
              /\ SpeculateAhead(files, a).committee = NoCommittee
  BY DEF SpeculateAhead

LEMMA SpeculationStepCurrent ==
    ASSUME NEW files, NEW a, Speculation(files, a)
    PROVE  \/ ahead' = a
           \/ /\ ahead'.running.epoch = mem.cursor + 1
              /\ ahead'.running.from = mem.acc
              /\ ahead'.committee = NoCommittee
  BY SpeculationCurrent DEF Speculation

\* The record an epoch finalizes is one of the store's, of the epoch before.
LEMMA PreviousRecord ==
    ASSUME NEW s, NEW e, PreviousJustification(s, e) # NoRecord
    PROVE  /\ PreviousJustification(s, e) \in {s.stream, s.batch}
           /\ PreviousJustification(s, e).epoch # None
           /\ PreviousJustification(s, e).epoch + 1 = e
  BY DEF PreviousJustification

LEMMA InitInv == Init => Inv
<1> SUFFICES ASSUME Init PROVE Inv
  OBVIOUS
<1>1. TypeOK
  BY InitType
<1>2. ProcessInv
  BY <1>1 DEF Init, ProcessInv, DownInv, WorkOnItsAccumulator, WorkInv, SpeculationIsCurrent,
         StreamsOnTheLinkingDiff, CommitteeInv, NothingAhead, NoWork
<1>3. Coherent(Started)
  BY EpochBounds DEF Coherent, Started, NoRecord, NoDiff, Epochs
<1>4. Backed(Started.stream) /\ Backed(Started.batch)
  BY DEF Backed, Started, NoRecord
<1>5. PublishedOnTheRecord /\ FinalizesWhatWasPublished
  BY DEF Init, PublishedOnTheRecord, FinalizesWhatWasPublished
<1> QED
  BY <1>1, <1>2, <1>3, <1>4, <1>5 DEF Init, StoreInv, OneSaveAhead, Inv

\* Steps that leave the store, its snapshot and what was published alone.
LEMMA StoreFrame ==
    ASSUME StoreInv, UNCHANGED <<mem, disk, published>>
    PROVE  StoreInv'
<1>1. Coherent(mem)' /\ Coherent(disk)'
  BY DEF StoreInv, Coherent
<1>2. OneSaveAhead'
  BY DEF StoreInv, OneSaveAhead
<1>3. \A s \in {mem', disk'} : Backed(s.stream)' /\ Backed(s.batch)'
  BY DEF StoreInv, Backed
<1>4. PublishedOnTheRecord' /\ FinalizesWhatWasPublished'
  BY DEF StoreInv, PublishedOnTheRecord, FinalizesWhatWasPublished
<1> QED
  BY <1>1, <1>2, <1>3, <1>4 DEF StoreInv

\* Steps of the chain, and of the daemon between its own steps.
LEMMA FrameInv ==
    ASSUME ProcessInv, StoreInv, UNCHANGED <<up, mem, disk, work, ahead, published>>
    PROVE  ProcessInv' /\ StoreInv'
<1>1. ProcessInv'
  BY DEF ProcessInv, DownInv, WorkOnItsAccumulator, WorkInv, LinksTo, Backed, StreamsOnTheLinkingDiff,
         SpeculationIsCurrent, CommitteeInv, NeedsJustification
<1> QED
  BY <1>1, StoreFrame

\* The end of the process, wherever it happens: what was not saved is gone.
LEMMA DownStepInv ==
    ASSUME ProcessInv, StoreInv, Down, UNCHANGED <<disk, published>>
    PROVE  ProcessInv' /\ StoreInv'
<1>1. ProcessInv'
  BY DEF Down, ProcessInv, DownInv, WorkOnItsAccumulator, WorkInv, StreamsOnTheLinkingDiff,
         SpeculationIsCurrent, CommitteeInv, NothingAhead, NoWork
<1>2. Coherent(mem)' /\ Coherent(disk)' /\ OneSaveAhead'
  BY DEF Down, StoreInv, Coherent, OneSaveAhead
<1>3. \A s \in {mem', disk'} : Backed(s.stream)' /\ Backed(s.batch)'
  BY DEF Down, StoreInv, Backed
<1>4. PublishedOnTheRecord' /\ FinalizesWhatWasPublished'
  BY DEF StoreInv, PublishedOnTheRecord, FinalizesWhatWasPublished
<1> QED
  BY <1>1, <1>2, <1>3, <1>4 DEF StoreInv

\* Publishing a closing that finalizes a record linked to the epoch at work, or
\* nothing, keeps the published history one history.
LEMMA PublishStepInv ==
    ASSUME TypeOK, ProcessInv, StoreInv, work # NoWork,
           NEW prev, NEW c,
           prev # NoRecord => LinksTo(prev),
           \/ prev = NoRecord /\ c = NoCheckpoint
           \/ prev # NoRecord /\ c = Checkpoint(prev),
           work.kind = "stream" => prev = work.prev,
           published' = published \cup {Closing(c)},
           work'.kind = work.kind, work'.epoch = work.epoch, work'.root = work.root,
           work'.acc = work.acc, work'.prev = prev,
           UNCHANGED <<up, mem, disk, ahead>>
    PROVE  ProcessInv' /\ StoreInv'
<1> DEFINE p == Closing(c)
<1>1. /\ p.epoch = work.epoch /\ p.root = work.root /\ p.acc = work.acc
      /\ p.finalizes = c
  BY DEF Closing
<1>2. /\ work.epoch = mem.cursor /\ work.acc = mem.acc /\ mem = disk
      /\ NeedsJustification(mem) /\ ahead.committee = NoCommittee
  BY DEF ProcessInv, WorkOnItsAccumulator, WorkInv
<1> HIDE DEF p
<1>3. published' = published \cup {p}
  BY DEF p
<1>4. \A r : Backed(r) => Backed(r)'
  BY <1>3 DEF Backed
<1>5. p.acc = Prefix(disk.acc, p.epoch) /\ p.epoch <= disk.cursor
  <2>1. mem.cursor \in Epochs /\ mem.acc \in Commitments
    BY DEF TypeOK, StoreStates
  <2>2. \A e \in Epochs : mem.cursor < e => mem.acc[e] = None
    BY DEF StoreInv, Coherent
  <2>3. Prefix(mem.acc, mem.cursor) = mem.acc
    BY <2>1, <2>2, EpochBounds DEF Prefix, Commitments, Epochs
  <2> QED
    BY <1>1, <1>2, <2>1, <2>3, EpochBounds DEF Epochs
<1>6. PublishedOnTheRecord'
  BY <1>3, <1>5 DEF StoreInv, PublishedOnTheRecord
<1>7. p.finalizes # NoCheckpoint =>
        \E q \in published : /\ q.epoch + 1 = p.epoch
                             /\ Checkpoint(q) = p.finalizes
                             /\ q.acc = Prefix(p.acc, q.epoch)
  BY <1>1, <1>2 DEF LinksTo, Backed, Checkpoint
<1>8. FinalizesWhatWasPublished'
  BY <1>3, <1>7 DEF StoreInv, FinalizesWhatWasPublished
<1>9. StoreInv'
  <2>1. Coherent(mem)' /\ Coherent(disk)' /\ OneSaveAhead'
    BY DEF StoreInv, Coherent, OneSaveAhead
  <2>2. \A s \in {mem', disk'} : Backed(s.stream)' /\ Backed(s.batch)'
    <3>1. /\ Backed(mem.stream) /\ Backed(mem.batch)
          /\ Backed(disk.stream) /\ Backed(disk.batch)
      BY DEF StoreInv
    <3> QED
      BY <1>4, <3>1
  <2> QED
    BY <1>6, <1>8, <2>1, <2>2 DEF StoreInv
<1>10. DownInv' /\ WorkOnItsAccumulator' /\ SpeculationIsCurrent' /\ CommitteeInv'
  BY <1>2 DEF ProcessInv, DownInv, WorkOnItsAccumulator, SpeculationIsCurrent, CommitteeInv,
         NeedsJustification
<1>11. StreamsOnTheLinkingDiff'
  BY <1>2 DEF ProcessInv, StreamsOnTheLinkingDiff
<1>12. WorkInv'
  <2>1. Backed(work)'
    BY <1>1, <1>3 DEF Backed
  <2>2. prev # NoRecord => LinksTo(prev)'
    BY <1>4 DEF LinksTo
  <2>3. work.kind = "stream" => prev # NoRecord
    BY DEF ProcessInv, WorkInv
  <2> QED
    BY <1>2, <2>1, <2>2, <2>3 DEF WorkInv, LinksTo
<1> QED
  BY <1>9, <1>10, <1>11, <1>12 DEF ProcessInv

\* Moving the accumulator on, with a diff adopted or proved in line.
LEMMA AdvanceStepInv ==
    ASSUME TypeOK, ProcessInv, StoreInv, MayAdvance,
           NEW registry \in Nat, NEW state \in Branches,
           mem' = AdvanceState(mem, registry, state),
           ahead'.running = NoRun,
           ahead'.committee \in {NoCommittee, [epoch |-> mem'.cursor, acc |-> mem'.acc]},
           UNCHANGED <<up, disk, published, work>>
    PROVE  ProcessInv' /\ StoreInv'
<1>1. /\ mem \in StoreStates /\ mem = disk /\ up /\ work = NoWork
      /\ mem.cursor < Last /\ mem.attempted = mem.cursor
  BY DEF TypeOK, MayAdvance, Ready, NeedsJustification
<1>2. /\ Coherent(mem')
      /\ mem'.cursor = mem.cursor + 1
      /\ mem'.attempted = mem.attempted
      /\ mem'.stream = mem.stream /\ mem'.batch = mem.batch
      /\ Prefix(mem'.acc, mem.cursor) = mem.acc
  BY <1>1, AdvanceCoherent DEF StoreInv
<1>3. mem.cursor + 1 # mem.cursor
  BY <1>1, EpochBounds DEF StoreStates, Epochs
<1>4. SpeculationIsCurrent' /\ CommitteeInv'
  BY <1>1, <1>2, <1>3 DEF SpeculationIsCurrent, CommitteeInv, NeedsJustification
<1>5. DownInv' /\ WorkOnItsAccumulator' /\ WorkInv' /\ StreamsOnTheLinkingDiff'
  BY <1>1 DEF DownInv, WorkOnItsAccumulator, WorkInv, StreamsOnTheLinkingDiff, NoWork
<1>6. OneSaveAhead'
  BY <1>1, <1>2 DEF OneSaveAhead
<1>7. \A s \in {mem', disk'} : Backed(s.stream)' /\ Backed(s.batch)'
  <2>1. /\ Backed(mem.stream) /\ Backed(mem.batch)
        /\ Backed(disk.stream) /\ Backed(disk.batch)
    BY DEF StoreInv
  <2>2. \A r : Backed(r) => Backed(r)'
    BY DEF Backed
  <2> QED
    BY <1>2, <2>1, <2>2
<1>8. Coherent(disk)' /\ PublishedOnTheRecord' /\ FinalizesWhatWasPublished'
  BY DEF StoreInv, Coherent, PublishedOnTheRecord, FinalizesWhatWasPublished
<1> QED
  BY <1>2, <1>4, <1>5, <1>6, <1>7, <1>8 DEF ProcessInv, StoreInv, Coherent

\* One case per action, one step per part of the invariant it can disturb.
LEMMA NextInv == Inv /\ [Next]_vars => Inv'
<1> SUFFICES ASSUME Inv, [Next]_vars PROVE ProcessInv' /\ StoreInv'
  BY NextType DEF Inv
<1>0. TypeOK /\ TypeOK' /\ ProcessInv /\ StoreInv
  BY NextType DEF Inv
<1>1. CASE Chain
  BY <1>0, <1>1, FrameInv DEF Chain, ChainGrows, Attested, Reorg
<1>2. CASE OpenFails \/ SpeculationPanics \/ FinalizeFails \/ DiffFails \/ Crash
  BY <1>0, <1>2, DownStepInv DEF OpenFails, SpeculationPanics, FinalizeFails, DiffFails, Crash
<1>3. CASE OpenEpoch
  <2> DEFINE e == mem.cursor
             kind == IF Pipeline = "streaming" /\ CanStream(mem)
                     THEN "stream" ELSE "batch"
             previous == PreviousJustification(mem, e)
             spent == [ahead EXCEPT !.committee = NoCommittee]
             files == BoundaryAt(held, e)
             prev == IF kind = "stream" THEN previous ELSE NoRecord
  <2>1. /\ work' = [kind |-> kind, epoch |-> e, root |-> canon[e], acc |-> mem.acc,
                    phase |-> "collecting", prev |-> prev]
        /\ up' = up /\ up /\ mem = disk /\ UNCHANGED <<mem, disk, published>>
        /\ NeedsJustification(mem)
    BY <1>3 DEF OpenEpoch, Ready
  <2>2. PICK taken \in SUBSET Wanted(files, e + 1) :
             Speculation(Hold(files, taken), spent)
    BY <1>3 DEF OpenEpoch
  <2>3. spent.running = ahead.running /\ spent.committee = NoCommittee
    BY <1>0 DEF TypeOK
  <2>4. /\ ahead'.committee = NoCommittee
        /\ \/ ahead'.running = ahead.running
           \/ ahead'.running.epoch = mem.cursor + 1 /\ ahead'.running.from = mem.acc
    <3> HIDE DEF spent, files, e
    <3> QED
      BY <2>2, <2>3, SpeculationStepCurrent
  <2>5. prev # NoRecord =>
          /\ prev \in {mem.stream, mem.batch}
          /\ prev.epoch # None
          /\ prev.epoch + 1 = e
    BY PreviousRecord
  <2>6. kind = "stream" => prev # NoRecord /\ mem.diff # NoDiff
    BY DEF CanStream
  <2> HIDE DEF prev, kind
  <2>7. prev # NoRecord => prev.acc = Prefix(mem.acc, prev.epoch) /\ Backed(prev)
    BY <1>0, <2>5 DEF StoreInv, Coherent
  <2>8. kind = "stream" => mem.diff.to = e /\ mem.diff.from = prev.acc /\ mem.diff.acc = mem.acc
    <3>1. mem.cursor \in Epochs /\ mem.stream \in Records /\ mem.batch \in Records
      BY <1>0 DEF TypeOK, StoreStates
    <3>2. kind = "stream" => prev.epoch = mem.cursor - 1
      BY <2>5, <2>6, <3>1, EpochBounds DEF Records, MaybeEpoch, Epochs
    <3> QED
      BY <1>0, <2>6, <2>7, <3>2 DEF StoreInv, Coherent
  <2>9. DownInv' /\ WorkOnItsAccumulator'
    BY <2>1 DEF DownInv, WorkOnItsAccumulator, NeedsJustification
  <2>10. WorkInv'
    BY <2>1, <2>4, <2>5, <2>6, <2>7 DEF WorkInv, LinksTo, Backed
  <2>11. StreamsOnTheLinkingDiff'
    BY <2>1, <2>5, <2>6, <2>8 DEF StreamsOnTheLinkingDiff
  <2>12. SpeculationIsCurrent' /\ CommitteeInv'
    BY <1>0, <2>1, <2>4 DEF ProcessInv, SpeculationIsCurrent, CommitteeInv
  <2> QED
    BY <1>0, <2>1, <2>9, <2>10, <2>11, <2>12, StoreFrame DEF ProcessInv
<1>4. CASE SpeculateAgain
  <2>1. /\ UNCHANGED <<up, mem, disk, work, published>>
        /\ up /\ work # NoWork
        /\ ahead' = SpeculateAhead(held, ahead)
    BY <1>4 DEF SpeculateAgain, Busy, Ready
  <2>2. /\ ahead'.committee = NoCommittee
        /\ \/ ahead'.running = ahead.running
           \/ ahead'.running.epoch = mem.cursor + 1 /\ ahead'.running.from = mem.acc
    BY <1>0, <2>1, SpeculationCurrent DEF ProcessInv, WorkInv
  <2>3. DownInv' /\ WorkOnItsAccumulator' /\ WorkInv' /\ StreamsOnTheLinkingDiff'
    BY <1>0, <2>1, <2>2 DEF ProcessInv, DownInv, WorkOnItsAccumulator, WorkInv, LinksTo, Backed,
                            StreamsOnTheLinkingDiff, NeedsJustification
  <2>4. SpeculationIsCurrent' /\ CommitteeInv'
    BY <1>0, <2>1, <2>2 DEF ProcessInv, SpeculationIsCurrent, CommitteeInv
  <2> QED
    BY <1>0, <2>1, <2>3, <2>4, StoreFrame DEF ProcessInv
<1>5. CASE ReopenAfterReorg \/ DiscardFinal
  <2>1. /\ UNCHANGED <<up, mem, disk, published>>
        /\ up
        /\ work' = NoWork
        /\ ahead' \in {ahead, NothingAhead}
    BY <1>5 DEF ReopenAfterReorg, DiscardFinal, Busy, Ready
  <2>2. ProcessInv'
    BY <1>0, <2>1 DEF ProcessInv, DownInv, WorkOnItsAccumulator, WorkInv, NoWork, NothingAhead,
         StreamsOnTheLinkingDiff, SpeculationIsCurrent, CommitteeInv, NeedsJustification
  <2> QED
    BY <1>0, <2>1, <2>2, StoreFrame
<1>6. CASE Fire
  <2>1. /\ UNCHANGED <<up, mem, disk, published, ahead>>
        /\ up /\ work # NoWork
        /\ work' = [work EXCEPT !.phase = "proving"]
    BY <1>6 DEF Fire, Busy, Ready
  <2>2. work \in Works
    BY <1>0, <2>1 DEF TypeOK
  <2>3. /\ work'.kind = work.kind /\ work'.epoch = work.epoch /\ work'.acc = work.acc
        /\ work'.prev = work.prev /\ work'.phase = "proving"
    BY <2>1, <2>2 DEF Works
  <2>4. DownInv' /\ WorkOnItsAccumulator' /\ WorkInv' /\ StreamsOnTheLinkingDiff'
    BY <1>0, <2>1, <2>3 DEF ProcessInv, DownInv, WorkOnItsAccumulator, WorkInv, LinksTo, Backed,
                            StreamsOnTheLinkingDiff, NeedsJustification
  <2>5. SpeculationIsCurrent' /\ CommitteeInv'
    BY <1>0, <2>1 DEF ProcessInv, SpeculationIsCurrent, CommitteeInv, NeedsJustification
  <2> QED
    BY <1>0, <2>1, <2>4, <2>5, StoreFrame DEF ProcessInv
<1>7. CASE GiveUp
  <2>1. /\ UNCHANGED <<up, disk, published>>
        /\ up /\ work # NoWork /\ mem = disk
        /\ work' = NoWork
        /\ mem' = [mem EXCEPT !.attempted = work.epoch]
        /\ Speculation(held, ahead) \/ ahead' = ahead
    BY <1>7 DEF GiveUp, Busy, Ready
  <2>2. work.epoch = mem.cursor /\ NeedsJustification(mem) /\ ahead.committee = NoCommittee
    BY <1>0, <2>1 DEF ProcessInv, WorkOnItsAccumulator, WorkInv
  <2>3. Coherent(mem')
    BY <1>0, <2>1, <2>2, GivenUpCoherent DEF StoreInv, TypeOK
  <2>4. /\ mem'.cursor = mem.cursor /\ mem'.acc = mem.acc /\ mem'.attempted = mem.cursor
        /\ mem'.stream = mem.stream /\ mem'.batch = mem.batch
    BY <1>0, <2>1, <2>2 DEF TypeOK, StoreStates
  <2>5. ahead'.committee = NoCommittee /\ SpeculationIsCurrent'
    BY <1>0, <2>1, <2>2, <2>4, SpeculationStepCurrent DEF ProcessInv, SpeculationIsCurrent
  <2>6. ProcessInv'
    BY <2>1, <2>5 DEF ProcessInv, DownInv, WorkOnItsAccumulator, WorkInv, NoWork,
                      StreamsOnTheLinkingDiff, CommitteeInv
  <2>7. OneSaveAhead'
    BY <2>1, <2>2, <2>4 DEF OneSaveAhead, NeedsJustification
  <2>8. \A s \in {mem', disk'} : Backed(s.stream)' /\ Backed(s.batch)'
    <3>1. /\ Backed(mem.stream) /\ Backed(mem.batch)
          /\ Backed(disk.stream) /\ Backed(disk.batch)
      BY <1>0 DEF StoreInv
    <3>2. \A r : Backed(r) => Backed(r)'
      BY <2>1 DEF Backed
    <3> QED
      BY <2>1, <2>4, <3>1, <3>2
  <2>9. Coherent(disk)' /\ PublishedOnTheRecord' /\ FinalizesWhatWasPublished'
    BY <1>0, <2>1 DEF StoreInv, Coherent, PublishedOnTheRecord, FinalizesWhatWasPublished
  <2> QED
    BY <2>3, <2>6, <2>7, <2>8, <2>9 DEF StoreInv, Coherent
<1>8. CASE PublishFinal
  <2>1. /\ UNCHANGED <<up, mem, disk, ahead>>
        /\ work # NoWork /\ work.kind = "stream"
        /\ published' = published \cup {Closing(Checkpoint(work.prev))}
        /\ work' = [work EXCEPT !.phase = "published"]
    BY <1>8 DEF PublishFinal, Busy
  <2>2. /\ work'.kind = work.kind /\ work'.epoch = work.epoch /\ work'.root = work.root
        /\ work'.acc = work.acc /\ work'.prev = work.prev
    BY <1>0, <2>1 DEF TypeOK, Works
  <2>3. LinksTo(work.prev) /\ work.prev # NoRecord
    BY <1>0, <2>1 DEF ProcessInv, WorkInv, LinksTo
  <2> QED
    BY <1>0, <2>1, <2>2, <2>3, PublishStepInv
<1>9. CASE PublishBatch
  <2> DEFINE prev == IF BatchLinks THEN mem.batch ELSE NoRecord
             c == IF BatchLinks THEN Checkpoint(mem.batch) ELSE NoCheckpoint
  <2>1. /\ UNCHANGED <<up, mem, disk, ahead>>
        /\ work # NoWork /\ work.kind = "batch"
        /\ published' = published \cup {Closing(c)}
        /\ work' = [work EXCEPT !.phase = "published", !.prev = prev]
    BY <1>9 DEF PublishBatch, Busy
  <2>2. /\ work'.kind = work.kind /\ work'.epoch = work.epoch /\ work'.root = work.root
        /\ work'.acc = work.acc /\ work'.prev = prev
    BY <1>0, <2>1 DEF TypeOK, Works
  <2>3. prev # NoRecord => LinksTo(prev)
    <3>1. BatchLinks => mem.batch.epoch # None /\ mem.batch.epoch + 1 = work.epoch
      BY DEF BatchLinks
    <3>2. BatchLinks => mem.batch.acc = Prefix(mem.acc, mem.batch.epoch)
      BY <1>0, <3>1 DEF StoreInv, Coherent
    <3>3. Backed(mem.batch)
      BY <1>0 DEF StoreInv
    <3>4. work.acc = mem.acc
      BY <1>0, <2>1 DEF ProcessInv, WorkOnItsAccumulator
    <3> QED
      BY <3>1, <3>2, <3>3, <3>4 DEF LinksTo
  <2>4. \/ prev = NoRecord /\ c = NoCheckpoint
        \/ prev # NoRecord /\ c = Checkpoint(prev)
    BY DEF BatchLinks, NoRecord
  <2> HIDE DEF prev, c
  <2> QED
    BY <1>0, <2>1, <2>2, <2>3, <2>4, PublishStepInv
<1>10. CASE CommitClosing
  <2> DEFINE record == [epoch |-> work.epoch, root |-> work.root, acc |-> work.acc]
  <2>1. /\ UNCHANGED <<up, disk, published, ahead>>
        /\ up /\ work # NoWork /\ mem = disk /\ work.phase = "published"
        /\ mem' = ClosedState(mem, work)
        /\ work' = NoWork
    BY <1>10 DEF CommitClosing, Busy, Ready
  <2>2. /\ work \in Works /\ mem \in StoreStates
        /\ work.epoch = mem.cursor /\ work.acc = mem.acc
        /\ NeedsJustification(mem) /\ ahead.committee = NoCommittee
    BY <1>0, <2>1 DEF TypeOK, ProcessInv, WorkOnItsAccumulator, WorkInv
  <2>3. /\ Coherent(mem')
        /\ mem'.cursor = mem.cursor /\ mem'.acc = mem.acc /\ mem'.attempted = mem.cursor
        /\ \A r \in {mem'.stream, mem'.batch} : r \in {mem.stream, mem.batch, record}
    BY <1>0, <2>1, <2>2, ClosedCoherent DEF StoreInv
  <2>4. Backed(record)
    BY <1>0, <2>1 DEF ProcessInv, WorkInv, Backed
  <2> HIDE DEF record
  <2>5. ProcessInv'
    BY <1>0, <2>1, <2>2, <2>3 DEF ProcessInv, DownInv, WorkOnItsAccumulator, WorkInv, NoWork,
         StreamsOnTheLinkingDiff, SpeculationIsCurrent, CommitteeInv
  <2>6. OneSaveAhead'
    BY <2>1, <2>2, <2>3 DEF OneSaveAhead, NeedsJustification
  <2>7. \A s \in {mem', disk'} : Backed(s.stream)' /\ Backed(s.batch)'
    <3>1. /\ Backed(mem.stream) /\ Backed(mem.batch)
          /\ Backed(disk.stream) /\ Backed(disk.batch)
      BY <1>0 DEF StoreInv
    <3>2. \A r : Backed(r) => Backed(r)'
      BY <2>1 DEF Backed
    <3>3. Backed(mem'.stream) /\ Backed(mem'.batch)
      BY <2>3, <2>4, <3>1
    <3> QED
      BY <2>1, <3>1, <3>2, <3>3
  <2>8. Coherent(disk)' /\ PublishedOnTheRecord' /\ FinalizesWhatWasPublished'
    BY <1>0, <2>1 DEF StoreInv, Coherent, PublishedOnTheRecord, FinalizesWhatWasPublished
  <2> QED
    BY <2>3, <2>5, <2>6, <2>7, <2>8 DEF StoreInv, Coherent
<1>11. CASE AdoptDiff
  <2>1. ahead.running.epoch = mem.cursor + 1
    BY <1>11 DEF AdoptDiff, Matches
  <2>2. ahead.running \in Runs
    <3>1. mem.cursor + 1 # None
      BY <1>0, EpochBounds DEF TypeOK, StoreStates, Epochs
    <3> QED
      BY <1>0, <2>1, <3>1 DEF TypeOK, NoRun
  <2> DEFINE next == AdvanceState(mem, ahead.running.registry, ahead.running.state)
  <2>3. /\ MayAdvance /\ mem' = next /\ UNCHANGED <<up, disk, published, work>>
        /\ ahead' = [running |-> NoRun,
                     committee |-> [epoch |-> next.cursor, acc |-> next.acc]]
    BY <1>11 DEF AdoptDiff
  <2>4. ahead'.running = NoRun /\ ahead'.committee = [epoch |-> mem'.cursor, acc |-> mem'.acc]
    BY <2>3
  <2>5. ahead.running.registry \in Nat /\ ahead.running.state \in Branches
    BY <2>2 DEF Runs
  <2> QED
    BY <1>0, <2>3, <2>4, <2>5, AdvanceStepInv
<1>12. CASE ProveDiff
  <2>1. /\ MayAdvance /\ UNCHANGED <<up, disk, published, work>>
        /\ mem' = AdvanceState(mem, Registry[InlineFiles[mem.cursor + 1]],
                               canon[mem.cursor + 1])
        /\ ahead' = [running |-> NoRun,
                     committee |-> IF ahead.running = NoRun \/ Matches(ahead.running)
                                   THEN ahead.committee ELSE NoCommittee]
    BY <1>12 DEF ProveDiff, AheadOfInline
  <2>2. ahead.committee = NoCommittee
    BY <1>0, <2>1 DEF MayAdvance, ProcessInv, CommitteeInv
  <2>3. ahead'.running = NoRun /\ ahead'.committee = NoCommittee
    BY <2>1, <2>2
  <2>4. Registry[InlineFiles[mem.cursor + 1]] \in Nat /\ canon[mem.cursor + 1] \in Branches
    BY <1>0, <2>1, InlineType, RegistryType DEF TypeOK, MayAdvance
  <2> QED
    BY <1>0, <2>1, <2>3, <2>4, AdvanceStepInv
<1>13. CASE Save
  <2>1. /\ UNCHANGED <<up, mem, work, ahead, published>>
        /\ up /\ mem # disk /\ disk' = mem
    BY <1>13 DEF Save
  <2>2. work = NoWork
    BY <1>0, <2>1 DEF ProcessInv, WorkInv
  <2>3. ProcessInv'
    BY <1>0, <2>1, <2>2 DEF ProcessInv, DownInv, WorkOnItsAccumulator, WorkInv, NoWork,
         StreamsOnTheLinkingDiff, SpeculationIsCurrent, CommitteeInv, NeedsJustification
  <2>4. Coherent(mem)' /\ Coherent(disk)' /\ OneSaveAhead' /\ FinalizesWhatWasPublished'
    BY <1>0, <2>1 DEF StoreInv, Coherent, OneSaveAhead, FinalizesWhatWasPublished
  <2>5. \A s \in {mem', disk'} : Backed(s.stream)' /\ Backed(s.batch)'
    BY <1>0, <2>1 DEF StoreInv, Backed
  <2>6. PublishedOnTheRecord'
    <3>1. disk.cursor \in Epochs /\ mem.cursor \in Epochs
      BY <1>0 DEF TypeOK, StoreStates
    <3>2. CASE mem.acc = disk.acc /\ mem.cursor = disk.cursor
      BY <1>0, <2>1, <3>2 DEF StoreInv, PublishedOnTheRecord
    <3>3. CASE mem.cursor = disk.cursor + 1 /\ Prefix(mem.acc, disk.cursor) = disk.acc
      <4>1. SUFFICES ASSUME NEW p \in published
                     PROVE  p.epoch <= mem.cursor /\ p.acc = Prefix(mem.acc, p.epoch)
        BY <2>1 DEF PublishedOnTheRecord
      <4>2. p.epoch <= disk.cursor /\ p.acc = Prefix(disk.acc, p.epoch) /\ p.epoch \in Epochs
        BY <1>0 DEF StoreInv, PublishedOnTheRecord, TypeOK
      <4>3. Prefix(Prefix(mem.acc, disk.cursor), p.epoch) = Prefix(mem.acc, p.epoch)
        BY <3>1, <4>2, EpochBounds DEF Prefix, Epochs
      <4> QED
        BY <3>1, <3>3, <4>2, <4>3, EpochBounds DEF Epochs
    <3> QED
      BY <1>0, <2>1, <3>2, <3>3 DEF StoreInv, OneSaveAhead
  <2> QED
    BY <2>3, <2>4, <2>5, <2>6 DEF StoreInv
<1>14. CASE Restart
  <2>1. UNCHANGED <<mem, disk, work, ahead, published>>
    BY <1>0, <1>14 DEF Restart, ProcessInv, DownInv
  <2>2. ProcessInv'
    BY <1>0, <1>14, <2>1 DEF Restart, ProcessInv, DownInv, WorkOnItsAccumulator, WorkInv, LinksTo,
         Backed, StreamsOnTheLinkingDiff, SpeculationIsCurrent, CommitteeInv, NeedsJustification
  <2> QED
    BY <1>0, <2>1, <2>2, StoreFrame
<1>15. CASE UNCHANGED vars
  BY <1>0, <1>15, FrameInv DEF vars
<1> QED
  BY <1>1, <1>2, <1>3, <1>4, <1>5, <1>6, <1>7, <1>8, <1>9, <1>10, <1>11, <1>12,
     <1>13, <1>14, <1>15 DEF Next, Tick

THEOREM Invariant == Spec => []Inv
  BY InitInv, NextInv, PTL DEF Spec

-----------------------------------------------------------------------------
(* What the invariant gives.                                               *)

\* A speculation that take_diff hands over is always the next epoch's, from
\* the accumulator in memory, whatever crashed or reorged since it started.
THEOREM SpeculationCorrect == Spec => []SpeculationIsCurrent
<1>1. Inv => SpeculationIsCurrent
  BY DEF Inv, ProcessInv
<1> QED
  BY <1>1, Invariant, PTL

\* The accumulator never moves under a part-built epoch.
THEOREM WorkCorrect == Spec => []WorkOnItsAccumulator
<1>1. Inv => WorkOnItsAccumulator
  BY DEF Inv, ProcessInv
<1> QED
  BY <1>1, Invariant, PTL

\* The diff a streaming epoch opens on, unchecked, is the one that links the
\* record it finalizes to its own accumulator.
THEOREM StreamLinks == Spec => []StreamsOnTheLinkingDiff
<1>1. Inv => StreamsOnTheLinkingDiff
  BY DEF Inv, ProcessInv
<1> QED
  BY <1>1, Invariant, PTL

\* Crashes between publishing and saving never fork the history that was
\* published from the accumulator on record.
THEOREM PublishedCorrect == Spec => []PublishedOnTheRecord
<1>1. Inv => PublishedOnTheRecord
  BY DEF Inv, StoreInv
<1> QED
  BY <1>1, Invariant, PTL

\* Nothing is finalized that was not published as justified just before.
THEOREM FinalizesCorrect == Spec => []FinalizesWhatWasPublished
<1>1. Inv => FinalizesWhatWasPublished
  BY DEF Inv, StoreInv
<1> QED
  BY <1>1, Invariant, PTL

\* A crash costs at most the epoch in flight.
THEOREM RestartCorrect == Spec => []RestartCostsOneEpoch
<1>1. Inv => RestartCostsOneEpoch
  <2> SUFFICES ASSUME Inv PROVE RestartCostsOneEpoch
    OBVIOUS
  <2>1. disk.cursor \in Epochs /\ mem.cursor \in Epochs
    BY DEF Inv, TypeOK, StoreStates
  <2>2. /\ disk.justified <= disk.attempted
        /\ disk.attempted <= disk.cursor
        /\ disk.cursor = First \/ disk.cursor <= disk.attempted + 1
    BY DEF Inv, StoreInv, Coherent
  <2>3. /\ mem.cursor - disk.cursor \in 0 .. 1
        /\ mem.cursor # disk.cursor => disk.attempted = disk.cursor
        /\ mem.attempted = disk.attempted \/ mem.attempted = disk.cursor
    BY <2>1, EpochBounds DEF Inv, StoreInv, OneSaveAhead, Epochs
  <2> QED
    BY <2>2, <2>3 DEF RestartCostsOneEpoch
<1> QED
  BY <1>1, Invariant, PTL

\* The accumulator of record moves by one epoch, off a decided one, and keeps
\* every commitment it had.
THEOREM AccumulatorCorrect == Spec => AccumulatorMovesByOne
<1>1. Inv /\ [Next]_vars =>
        [disk'.cursor # disk.cursor =>
           /\ disk'.cursor = disk.cursor + 1
           /\ disk.attempted = disk.cursor
           /\ Prefix(disk'.acc, disk.cursor) = disk.acc]_disk
  <2> SUFFICES ASSUME Inv, [Next]_vars, disk'.cursor # disk.cursor
               PROVE  /\ disk'.cursor = disk.cursor + 1
                      /\ disk.attempted = disk.cursor
                      /\ Prefix(disk'.acc, disk.cursor) = disk.acc
    OBVIOUS
  <2>1. CASE Save
    BY <2>1 DEF Save, Inv, StoreInv, OneSaveAhead
  <2>2. CASE UNCHANGED disk
    BY <2>2
  <2> QED
    BY <2>1, <2>2 DEF Next, Chain, Tick, vars, ChainGrows, Attested, Reorg, OpenEpoch, OpenFails,
         SpeculateAgain, ReopenAfterReorg, Fire, GiveUp, PublishFinal, DiscardFinal, PublishBatch,
         FinalizeFails, CommitClosing, AdoptDiff, ProveDiff, AheadOfInline,
         DiffFails, SpeculationPanics, Crash, Restart
<1> QED
  BY <1>1, Invariant, PTL DEF Spec, AccumulatorMovesByOne

-----------------------------------------------------------------------------
(* The store implements FinalityLedger, and what the votes add to what is  *)
(* published.                                                              *)

-----------------------------------------------------------------------------
(* The votes.                                                              *)

\* Two thirds of the stake voted for whatever is published, and for whatever a
\* pipeline is about to publish.
Voted ==
    /\ \A p \in published : quorum[p.epoch] = p.root
    /\ work # NoWork /\ work.phase # "collecting" => quorum[work.epoch] = work.root

\* A checkpoint that cannot reorg once it is voted for is on the chain.
VotesHold == \A e \in Epochs : quorum[e] # None => quorum[e] = canon[e]

\* Votes are cast once: no step takes back a two-thirds vote.
LEMMA VotesStay ==
    ASSUME TypeOK, [Next]_vars, NEW e \in Epochs, quorum[e] # None
    PROVE  quorum'[e] = quorum[e]
<1>1. ASSUME NEW f \in Epochs, Attested(f) PROVE quorum'[e] = quorum[e]
  BY <1>1 DEF TypeOK, Attested
<1>2. CASE UNCHANGED quorum
  BY <1>2
<1> QED
  BY <1>1, <1>2 DEF Next, Chain, Tick, vars, ChainGrows, Reorg, OpenEpoch, OpenFails,
     SpeculateAgain, ReopenAfterReorg, Fire, GiveUp, PublishFinal, DiscardFinal, PublishBatch,
     FinalizeFails, CommitClosing, AdoptDiff, ProveDiff,
     DiffFails, SpeculationPanics, Save, Crash, Restart

LEMMA VotedNext == TypeOK /\ Voted /\ [Next]_vars => Voted'
<1> SUFFICES ASSUME TypeOK, Voted, [Next]_vars PROVE Voted'
  OBVIOUS
<1>1. ASSUME NEW p \in published PROVE quorum'[p.epoch] = p.root
  <2>1. p.epoch \in Epochs /\ p.root \in Branches /\ quorum[p.epoch] = p.root
    BY DEF TypeOK, Voted
  <2> QED
    BY <2>1, VotesStay, ConstantTypes
<1>2. work # NoWork => /\ work.epoch \in Epochs /\ work.root \in Branches
                       /\ quorum[work.epoch] = work.root => quorum'[work.epoch] = work.root
  <2>1. work # NoWork => work.epoch \in Epochs /\ work.root \in Branches
    BY DEF TypeOK, Works
  <2> QED
    BY <2>1, VotesStay, ConstantTypes
<1>3. CASE PublishFinal \/ PublishBatch
  <2>1. PICK c : published' = published \cup {Closing(c)}
    BY <1>3 DEF PublishFinal, PublishBatch
  <2>2. work # NoWork /\ quorum[work.epoch] = work.root
    BY <1>3 DEF PublishFinal, PublishBatch, Busy, Reached, Voted
  <2>3. Closing(c).epoch = work.epoch /\ Closing(c).root = work.root
    BY DEF Closing
  <2>4. work'.epoch = work.epoch /\ work'.root = work.root
    BY <1>3, <2>2 DEF PublishFinal, PublishBatch, TypeOK, Works
  <2> QED
    BY <1>1, <1>2, <2>1, <2>2, <2>3, <2>4 DEF Voted
<1>4. CASE Fire
  <2>1. work # NoWork /\ quorum[work.epoch] = work.root /\ published' = published
    BY <1>4 DEF Fire, Busy, Reached
  <2>2. work'.epoch = work.epoch /\ work'.root = work.root
    BY <1>4, <2>1 DEF Fire, TypeOK, Works
  <2> QED
    BY <1>1, <1>2, <2>1, <2>2 DEF Voted
<1>5. CASE UNCHANGED <<published, work>>
  BY <1>1, <1>2, <1>5 DEF Voted
<1>6. CASE OpenEpoch
  <2>1. published' = published /\ work'.phase = "collecting"
    BY <1>6 DEF OpenEpoch
  <2> QED
    BY <1>1, <2>1 DEF Voted
<1>7. CASE published' = published /\ work' = NoWork
  BY <1>1, <1>7 DEF Voted
<1> QED
  BY <1>3, <1>4, <1>5, <1>6, <1>7
     DEF Next, Chain, Tick, vars, ChainGrows, Attested, Reorg, OpenFails, SpeculateAgain,
     ReopenAfterReorg, GiveUp, DiscardFinal, FinalizeFails, CommitClosing, AdoptDiff, ProveDiff,
     DiffFails, SpeculationPanics, Save, Crash, Restart, Down

LEMMA VotedInvariant == Spec => []Voted
<1>1. Init => Voted
  BY DEF Init, Voted
<1> QED
  BY <1>1, VotedNext, TypeCorrect, PTL DEF Spec

\* A closing published twice, because the process died before the save, names
\* the same checkpoint both times, whatever reorged in between: the second
\* attempt has to find two thirds of the stake behind its root again.
THEOREM RepublishedCorrect == Spec => []RepublishedAlike
<1>1. Voted => RepublishedAlike
  BY DEF Voted, RepublishedAlike
<1> QED
  BY <1>1, VotedInvariant, PTL

LEMMA VotesHoldNext ==
    ASSUME ~LateReorgs
    PROVE  TypeOK /\ VotesHold /\ [Next]_vars => VotesHold'
<1> SUFFICES ASSUME TypeOK, VotesHold, [Next]_vars PROVE VotesHold'
  OBVIOUS
<1>1. ASSUME NEW f \in Epochs, Attested(f) PROVE VotesHold'
  BY <1>1 DEF TypeOK, Attested, VotesHold
<1>2. ASSUME NEW k \in Epochs, Reorg(k) PROVE VotesHold'
  <2>1. \A e \in Epochs : e >= k => quorum[e] = None
    BY <1>2 DEF Reorg
  <2> QED
    BY <1>2, <2>1 DEF TypeOK, Reorg, VotesHold
<1>3. CASE UNCHANGED <<quorum, canon>>
  BY <1>3 DEF VotesHold
<1> QED
  BY <1>1, <1>2, <1>3 DEF Next, Chain, Tick, vars, ChainGrows, OpenEpoch, OpenFails,
     SpeculateAgain, ReopenAfterReorg, Fire, GiveUp, PublishFinal, DiscardFinal, PublishBatch,
     FinalizeFails, CommitClosing, AdoptDiff, ProveDiff,
     DiffFails, SpeculationPanics, Save, Crash, Restart

\* assumptions.md:444-446 says that the checkpoint published is resolved anew.
\* Only the streaming pipeline does it, and yet, as long as a checkpoint that
\* two thirds of the stake voted for stays on the chain, whatever either
\* pipeline publishes is canonical when it does.
THEOREM CanonicalWhileVotesHold ==
    ASSUME ~LateReorgs
    PROVE  Spec => PublishesCanonical
<1>1. Init => VotesHold
  BY DEF Init, VotesHold
<1>2. TypeOK /\ Voted /\ VotesHold /\ [Next]_vars =>
        [\A p \in published' \ published : p.root = canon[p.epoch]]_vars
  <2> SUFFICES ASSUME TypeOK, Voted, VotesHold, Next,
                      NEW p \in published' \ published
               PROVE  p.root = canon[p.epoch]
    BY DEF vars
  <2>1. PublishFinal \/ PublishBatch
    BY DEF Next, Chain, Tick, ChainGrows, Attested, Reorg, OpenEpoch, OpenFails, SpeculateAgain,
       ReopenAfterReorg, Fire, GiveUp, DiscardFinal, FinalizeFails, CommitClosing, AdoptDiff,
       ProveDiff, DiffFails, SpeculationPanics, Save, Crash, Restart
  <2>2. p.epoch = work.epoch /\ p.root = work.root
    BY <2>1 DEF PublishFinal, PublishBatch, Closing
  <2>3. work # NoWork /\ quorum[work.epoch] = work.root
    BY <2>1 DEF PublishFinal, PublishBatch, Busy, Reached, Voted
  <2>4. work.epoch \in Epochs /\ work.root \in Branches
    BY <2>3 DEF TypeOK, Works
  <2> QED
    BY <2>2, <2>3, <2>4, ConstantTypes DEF VotesHold
<1> QED
  BY <1>1, <1>2, VotesHoldNext, VotedInvariant, TypeCorrect, PTL DEF Spec, PublishesCanonical

-----------------------------------------------------------------------------
(* The ledger.  The store moves by one save, and the save writes down what *)
(* several steps did in memory; so the invariant says of the memory ahead  *)
(* of the store which step of the ledger its save will be.                 *)

NewestOf(s) == IF s.stream.epoch >= s.batch.epoch THEN s.stream ELSE s.batch

\* No record outlives its verdict, and no epoch is on record twice: the newest
\* record is well defined, and older than an epoch that is still open.
RecordsApart(s) ==
    /\ s.stream.epoch <= s.attempted
    /\ s.batch.epoch <= s.attempted
    /\ s.stream.epoch = s.batch.epoch => s.stream.epoch = None

\* What a save may put in the store in one go.
GivesUp(s, t) ==
    /\ NeedsJustification(s)
    /\ t.cursor = s.cursor
    /\ t.attempted = s.cursor
    /\ t.finalized = s.finalized
    /\ t.stream = s.stream /\ t.batch = s.batch

Finalizes(s) ==
    {s.finalized} \cup
    {c \in {Checkpoint(NewestOf(s))} : c.epoch # None /\ c.epoch + 1 = s.cursor}

Closes(s, t) ==
    /\ NeedsJustification(s)
    /\ t.cursor = s.cursor
    /\ t.attempted = s.cursor
    /\ \E root \in Branches :
         Checkpoint(NewestOf(t)) = [epoch |-> s.cursor, root |-> root]
    /\ t.finalized \in Finalizes(s)

Advances(s, t) ==
    /\ ~NeedsJustification(s)
    /\ t.cursor = s.cursor + 1
    /\ t.attempted = s.cursor
    /\ t.finalized = s.finalized
    /\ t.stream = s.stream /\ t.batch = s.batch

\* Memory is one step of the ledger ahead of the store, or none.
OneLedgerStepAhead ==
    mem = disk \/ GivesUp(disk, mem) \/ Closes(disk, mem) \/ Advances(disk, mem)

\* The record an epoch at work finalizes is still on record.
PrevOnRecord ==
    work # NoWork /\ work.prev # NoRecord => work.prev \in {mem.stream, mem.batch}

LedgerInv ==
    /\ RecordsApart(mem)
    /\ RecordsApart(disk)
    /\ PrevOnRecord
    /\ OneLedgerStepAhead

\* A verdict given up, an advance and a closing are each one step of the ledger,
\* and keep the records apart.
LEMMA GivenUpLedger ==
    ASSUME NEW s \in StoreStates, Coherent(s), RecordsApart(s), NeedsJustification(s)
    PROVE  LET t == [s EXCEPT !.attempted = s.cursor]
           IN  RecordsApart(t) /\ GivesUp(s, t)
<1> DEFINE t == [s EXCEPT !.attempted = s.cursor]
<1>1. /\ s.cursor \in Epochs /\ s.attempted \in MaybeEpoch
      /\ s.stream.epoch \in MaybeEpoch /\ s.batch.epoch \in MaybeEpoch
  BY DEF StoreStates, Records
<1>2. /\ t.cursor = s.cursor /\ t.attempted = s.cursor /\ t.finalized = s.finalized
      /\ t.stream = s.stream /\ t.batch = s.batch
  BY DEF StoreStates
<1> HIDE DEF t
<1>3. RecordsApart(t)
  BY <1>1, <1>2, EpochBounds DEF RecordsApart, Coherent, MaybeEpoch, Epochs
<1> QED
  BY <1>2, <1>3 DEF GivesUp, t

LEMMA AdvanceLedger ==
    ASSUME NEW s \in StoreStates, RecordsApart(s), ~NeedsJustification(s),
           NEW registry, NEW state
    PROVE  /\ RecordsApart(AdvanceState(s, registry, state))
           /\ Advances(s, AdvanceState(s, registry, state))
<1> DEFINE t == AdvanceState(s, registry, state)
<1>1. /\ t.cursor = s.cursor + 1 /\ t.attempted = s.attempted
      /\ t.finalized = s.finalized
      /\ t.stream = s.stream /\ t.batch = s.batch
  BY DEF AdvanceState, StoreStates
<1> HIDE DEF t
<1>2. RecordsApart(t)
  BY <1>1 DEF RecordsApart
<1> QED
  BY <1>1, <1>2 DEF Advances, NeedsJustification, t

LEMMA ClosedLedger ==
    ASSUME NEW s \in StoreStates, Coherent(s), RecordsApart(s), NeedsJustification(s),
           NEW w \in Works, w.epoch = s.cursor,
           w.prev # NoRecord => /\ w.prev \in {s.stream, s.batch}
                                /\ w.prev.epoch # None
                                /\ w.prev.epoch + 1 = s.cursor
    PROVE  RecordsApart(ClosedState(s, w)) /\ Closes(s, ClosedState(s, w))
<1> DEFINE t == ClosedState(s, w)
           record == [epoch |-> w.epoch, root |-> w.root, acc |-> w.acc]
           finalized == IF w.prev = NoRecord THEN s.finalized ELSE Checkpoint(w.prev)
<1>1. /\ s.cursor \in Epochs /\ s.attempted \in MaybeEpoch
      /\ s.stream.epoch \in MaybeEpoch /\ s.batch.epoch \in MaybeEpoch
      /\ w.root \in Branches
  BY DEF StoreStates, Records, Works
<1>2. /\ t.cursor = s.cursor /\ t.attempted = s.cursor /\ t.finalized = finalized
      /\ \/ t.stream = record /\ t.batch = s.batch
         \/ t.stream = s.stream /\ t.batch = record
  BY DEF ClosedState, StoreStates
<1>3. record.epoch = s.cursor /\ Checkpoint(record) = [epoch |-> s.cursor, root |-> w.root]
  BY DEF Checkpoint
<1>4. s.attempted < s.cursor /\ s.stream.epoch < s.cursor /\ s.batch.epoch < s.cursor
  BY <1>1, EpochBounds DEF RecordsApart, Coherent, NeedsJustification, MaybeEpoch, Epochs
<1> HIDE DEF t, record
<1>5. RecordsApart(t)
  BY <1>1, <1>2, <1>3, <1>4, EpochBounds DEF RecordsApart, MaybeEpoch, Epochs
<1>6. Checkpoint(NewestOf(t)) = [epoch |-> s.cursor, root |-> w.root]
  <2>1. CASE t.stream = record /\ t.batch = s.batch
    BY <1>1, <1>3, <1>4, <2>1, EpochBounds DEF NewestOf, MaybeEpoch, Epochs
  <2>2. CASE t.stream = s.stream /\ t.batch = record
    BY <1>1, <1>3, <1>4, <2>2, EpochBounds DEF NewestOf, MaybeEpoch, Epochs
  <2> QED
    BY <1>2, <2>1, <2>2
<1>7. finalized \in Finalizes(s)
  <2>1. CASE w.prev = NoRecord
    BY <2>1 DEF Finalizes
  <2>2. CASE w.prev # NoRecord
    <3>1. NewestOf(s) = w.prev
      BY <1>1, <1>4, <2>2, EpochBounds DEF NewestOf, RecordsApart, MaybeEpoch, Epochs
    <3> QED
      BY <2>2, <3>1 DEF Finalizes, Checkpoint
  <2> QED
    BY <2>1, <2>2
<1> HIDE DEF finalized
<1>8. Closes(s, t)
  BY <1>1, <1>2, <1>6, <1>7 DEF Closes
<1> QED
  BY <1>5, <1>8 DEF t

LEMMA LedgerInvInit == Init => LedgerInv
  BY EpochBounds DEF Init, LedgerInv, RecordsApart, PrevOnRecord, OneLedgerStepAhead,
     Started, NoRecord, NoWork

\* One case per way a step may move the memory, the store or the epoch at work.
LEMMA LedgerInvNext == Inv /\ LedgerInv /\ [Next]_vars => LedgerInv'
<1> SUFFICES ASSUME Inv, LedgerInv, [Next]_vars PROVE LedgerInv'
  OBVIOUS
<1>0. TypeOK /\ ProcessInv /\ StoreInv
  BY DEF Inv
<1>1. CASE UNCHANGED <<mem, disk>> /\ work' \in {work, NoWork}
  BY <1>1 DEF LedgerInv, RecordsApart, PrevOnRecord, OneLedgerStepAhead
<1>2. ASSUME UNCHANGED <<mem, disk>>, work' # NoWork,
             work'.prev # NoRecord => work'.prev \in {mem.stream, mem.batch}
      PROVE  LedgerInv'
  BY <1>2 DEF LedgerInv, RecordsApart, PrevOnRecord, OneLedgerStepAhead
<1>3. CASE mem' = disk /\ disk' = disk /\ work' = NoWork
  BY <1>3 DEF LedgerInv, RecordsApart, PrevOnRecord, OneLedgerStepAhead
<1>4. CASE OpenEpoch
  <2>1. UNCHANGED <<mem, disk>>
    BY <1>4 DEF OpenEpoch
  <2>2. work'.prev # NoRecord => work'.prev = PreviousJustification(mem, mem.cursor)
    BY <1>4 DEF OpenEpoch
  <2>3. work' # NoWork
    BY <1>4 DEF OpenEpoch, NoWork
  <2> QED
    BY <1>2, <2>1, <2>2, <2>3, PreviousRecord
<1>5. CASE Fire \/ PublishFinal \/ PublishBatch
  <2>1. UNCHANGED <<mem, disk>> /\ work # NoWork
    BY <1>5 DEF Fire, PublishFinal, PublishBatch, Busy
  <2>2. work'.prev \in {work.prev, mem.batch, NoRecord} /\ work'.phase # "none"
    BY <1>0, <1>5, <2>1 DEF Fire, PublishFinal, PublishBatch, TypeOK, Works
  <2> QED
    BY <1>2, <2>1, <2>2 DEF LedgerInv, PrevOnRecord, NoWork
<1>6. CASE GiveUp
  <2>1. /\ mem = disk /\ disk' = disk /\ work # NoWork /\ work' = NoWork
        /\ mem' = [mem EXCEPT !.attempted = work.epoch]
    BY <1>6 DEF GiveUp, Busy, Ready
  <2>2. work.epoch = mem.cursor /\ NeedsJustification(mem)
    BY <1>0, <2>1 DEF ProcessInv, WorkOnItsAccumulator
  <2>3. RecordsApart(mem') /\ GivesUp(mem, mem')
    BY <1>0, <2>1, <2>2, GivenUpLedger DEF TypeOK, StoreInv, LedgerInv
  <2> QED
    BY <2>1, <2>3 DEF LedgerInv, PrevOnRecord, OneLedgerStepAhead, GivesUp, RecordsApart,
       NeedsJustification
<1>7. CASE CommitClosing
  <2>1. /\ mem = disk /\ disk' = disk /\ work # NoWork /\ work' = NoWork
        /\ mem' = ClosedState(mem, work)
    BY <1>7 DEF CommitClosing, Busy, Ready
  <2>2. /\ work \in Works /\ mem \in StoreStates
        /\ work.epoch = mem.cursor /\ NeedsJustification(mem)
    BY <1>0, <2>1 DEF TypeOK, ProcessInv, WorkOnItsAccumulator
  <2>3. work.prev # NoRecord => /\ work.prev \in {mem.stream, mem.batch}
                                /\ work.prev.epoch # None
                                /\ work.prev.epoch + 1 = mem.cursor
    BY <1>0, <2>1, <2>2 DEF ProcessInv, WorkInv, LinksTo, LedgerInv, PrevOnRecord
  <2>4. RecordsApart(mem') /\ Closes(mem, mem')
    BY <1>0, <2>1, <2>2, <2>3, ClosedLedger DEF StoreInv, LedgerInv
  <2> QED
    BY <2>1, <2>4 DEF LedgerInv, PrevOnRecord, OneLedgerStepAhead, Closes, RecordsApart,
       NeedsJustification, Finalizes, NewestOf
<1>8. CASE AdoptDiff \/ ProveDiff
  <2>1. PICK registry, state : mem' = AdvanceState(mem, registry, state)
    BY <1>8 DEF AdoptDiff, ProveDiff
  <2>2. /\ mem = disk /\ disk' = disk /\ work = NoWork /\ work' = NoWork
        /\ ~NeedsJustification(mem) /\ mem \in StoreStates
    BY <1>0, <1>8 DEF AdoptDiff, ProveDiff, MayAdvance, Ready, TypeOK
  <2>3. RecordsApart(mem') /\ Advances(mem, mem')
    BY <2>1, <2>2, AdvanceLedger DEF LedgerInv
  <2> QED
    BY <2>2, <2>3 DEF LedgerInv, PrevOnRecord, OneLedgerStepAhead, Advances, RecordsApart,
       NeedsJustification
<1>9. CASE Save
  <2>1. mem' = mem /\ disk' = mem /\ work' = work
    BY <1>9 DEF Save
  <2> QED
    BY <2>1 DEF LedgerInv, RecordsApart, PrevOnRecord, OneLedgerStepAhead
<1>10. CASE Restart
  <2>1. UNCHANGED <<mem, disk, work>>
    BY <1>0, <1>10 DEF Restart, ProcessInv, DownInv
  <2> QED
    BY <1>1, <2>1
<1>11. CASE UNCHANGED vars
  BY <1>1, <1>11 DEF vars
<1> QED
  BY <1>1, <1>3, <1>4, <1>5, <1>6, <1>7, <1>8, <1>9, <1>10, <1>11
     DEF Next, Chain, Tick, ChainGrows, Attested, Reorg, OpenFails, SpeculateAgain,
     ReopenAfterReorg, DiscardFinal, FinalizeFails,
     DiffFails, SpeculationPanics, Crash, Down

LEMMA LedgerInvariant == Spec => []LedgerInv
  BY LedgerInvInit, LedgerInvNext, Invariant, PTL DEF Spec

-----------------------------------------------------------------------------
(* Step by step: the save is the one step that moves the store.            *)

LEMMA LedgerInit == Init => Ledger!Init
<1> SUFFICES ASSUME Init PROVE Ledger!Init
  OBVIOUS
<1>1. /\ disk.cursor = First /\ disk.attempted = None
      /\ disk.stream = NoRecord /\ disk.batch = NoRecord
      /\ disk.finalized = NoCheckpoint
  BY DEF Init, Started
<1>2. NeedsJustification(disk)
  BY <1>1, ConstantTypes DEF NeedsJustification
<1>3. Checkpoint(Newest) = NoCheckpoint
  BY <1>1 DEF Newest, Checkpoint, NoRecord, NoCheckpoint
<1>4. (~NeedsJustification(disk)) = FALSE
  BY <1>2
<1> QED
  BY <1>1, <1>3, <1>4 DEF Ledger!Init, Ledger!NoCheckpoint, NoCheckpoint

LEMMA LedgerStep ==
    ASSUME TypeOK, OneLedgerStepAhead, Save
    PROVE  Ledger!Next
<1>1. disk' = mem /\ mem # disk /\ mem \in StoreStates /\ disk \in StoreStates
  BY DEF Save, TypeOK
<1>2. Newest = NewestOf(disk) /\ Newest' = NewestOf(mem)
  BY <1>1 DEF Newest, NewestOf
<1>3. CASE GivesUp(disk, mem)
  <2>1. Ledger!Abandon
    BY <1>1, <1>2, <1>3 DEF Ledger!Abandon, GivesUp, NeedsJustification, NewestOf
  <2> QED
    BY <2>1 DEF Ledger!Next
<1>4. CASE Closes(disk, mem)
  <2>1. PICK root \in Branches :
          Checkpoint(NewestOf(mem)) = [epoch |-> disk.cursor, root |-> root]
    BY <1>4 DEF Closes
  <2>2. NeedsJustification(disk) /\ ~NeedsJustification(mem)
    BY <1>4 DEF Closes, NeedsJustification
  <2>3. /\ mem.cursor = disk.cursor
        /\ mem.finalized \in Finalizes(disk)
    BY <1>4 DEF Closes
  <2>4. Checkpoint(Newest)' = [epoch |-> disk.cursor, root |-> root]
    BY <1>2, <2>1 DEF Checkpoint
  <2>5. (~NeedsJustification(disk))' = TRUE
    BY <1>1, <2>2 DEF NeedsJustification
  <2>6. Ledger!Justify(root)
    BY <1>1, <1>2, <2>2, <2>3, <2>4, <2>5 DEF Ledger!Justify, Finalizes
  <2> QED
    BY <2>6 DEF Ledger!Next
<1>5. CASE Advances(disk, mem)
  <2>1. disk.cursor < Last
    BY <1>1, <1>5, EpochBounds DEF Advances, StoreStates, Epochs
  <2>2. disk.cursor # disk.cursor + 1
    BY <1>1, EpochBounds DEF StoreStates, Epochs
  <2>3. Ledger!Advance
    BY <1>1, <1>2, <1>5, <2>1, <2>2 DEF Ledger!Advance, Advances, NeedsJustification, NewestOf
  <2> QED
    BY <2>3 DEF Ledger!Next
<1> QED
  BY <1>1, <1>3, <1>4, <1>5 DEF OneLedgerStepAhead

\* The daemon implements the ledger its consumers rely on: one verdict per
\* epoch, in order, and a finalized checkpoint that was the last justified one,
\* across crashes, reorgs, speculation and both pipelines.
THEOREM Refinement == Spec => LedgerSpec
<1>1. Init => Ledger!Init
  BY LedgerInit
<1>2. TypeOK /\ LedgerInv /\ [Next]_vars => [Ledger!Next]_(Ledger!vars)
  <2> SUFFICES ASSUME TypeOK, LedgerInv, [Next]_vars
               PROVE  Ledger!Next \/ UNCHANGED Ledger!vars
    OBVIOUS
  <2>1. CASE Save
    BY <2>1, LedgerStep DEF LedgerInv
  <2>2. CASE UNCHANGED disk
    BY <2>2 DEF Ledger!vars, Newest, NeedsJustification
  <2> QED
    BY <2>1, <2>2 DEF Next, Chain, Tick, vars, ChainGrows, Attested, Reorg, OpenEpoch, OpenFails,
       SpeculateAgain, ReopenAfterReorg, Fire, GiveUp, PublishFinal, DiscardFinal, PublishBatch,
       FinalizeFails, CommitClosing, AdoptDiff, ProveDiff,
       DiffFails, SpeculationPanics, Crash, Restart
<1> QED
  BY <1>1, <1>2, LedgerInvariant, TypeCorrect, PTL DEF Spec, LedgerSpec, Ledger!Spec
=============================================================================
