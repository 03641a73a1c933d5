----------------------------- MODULE ProofPath -----------------------------
(***************************************************************************)
(* Every witness of three epochs, built by the host and handed to its      *)
(* guest: the accumulator's diffs, the committees, the batch pipeline slot *)
(* by slot (orchestrator/batch.rs) or the streamed epoch along its plan    *)
(* (streaming.rs), the fast confirmation batches over the same slots, and  *)
(* the contract that takes what was published (ZkasperVerifier.sol).       *)
(*                                                                         *)
(* The chain is one of Worlds: registries, shuffling seeds, boundary slots *)
(* without a block and a boundary that was orphaned after it was seen.     *)
(* What its committees vote and how blocks carry it is chosen slot by      *)
(* slot.  A validator votes once in an epoch.                              *)
(***************************************************************************)
EXTENDS FcrRule

CONSTANTS
    LastEpoch,    \* epochs 1 .. LastEpoch are proven
    Lookahead,    \* attestation_lookahead_epochs
    Worlds,       \* what the chain may be
    BenchSizes,   \* active set sizes the shuffle's forms are compared at
    BenchSeeds    \* and the seeds

ASSUME ProofPathAssumption ==
    /\ LastEpoch \in Nat \ {0} /\ Lookahead \in Nat \ {0}
    /\ SlotCount > 1
    /\ BenchSizes \subseteq Nat \ {0}
    /\ \A w \in Worlds :
          /\ \A e \in 1 .. LastEpoch :
                /\ DOMAIN w.registry[e] \subseteq Validators
                /\ \A v \in DOMAIN w.registry[e] : w.registry[e][v].balance \in Nat
                /\ \A r \in Indices(Rounds) : w.seed[e].pivot[r] \in Nat
          \* A validator stays registered.
          /\ \A d, e \in 1 .. LastEpoch :
                d <= e => DOMAIN w.registry[d] \subseteq DOMAIN w.registry[e]
          /\ w.policy \in Policies
          /\ w.serves \in 1 .. LastEpoch
          /\ 0 \notin w.missed
          /\ w.bodies \subseteq {"whole", "split", "stale", "wrong", "absent", "late",
                                 "overlap", "singles"}

VARIABLES
    world,     \* the chain's choice
    chain,     \* each epoch's boundary state, checkpoint block and committees
    epoch,     \* the epoch being proven
    phase,     \* what the daemon does next
    ledger,    \* the accumulator and what the store holds
    agg,       \* the epoch's aggregation
    cast,      \* each validator's vote this epoch
    fcr,       \* the confirmation drawn over a window
    rule,      \* the rule's replay along a node
    contract   \* ZkasperVerifier's storage

vars == <<world, chain, epoch, phase, ledger, agg, cast, fcr, rule, contract>>

-----------------------------------------------------------------------------
(* The chain.                                                              *)

Boundary(e) == e * SlotCount

NoBlock == -1   \* the contract's roots before a finality

HasBlock(slot) == ~(slot % SlotCount = 0 /\ EpochOf(slot) \in world.missed)

\* The last block at or before a slot.
CanonicalHead(slot) == IF HasBlock(slot) THEN slot ELSE slot - 1

OtherHead == 1000   \* a block of another branch

ActiveList(registry, e) ==
    InOrder({v \in DOMAIN registry : active_effective_balance(registry[v], e) > 0})

\* A checkpoint is the boundary's block, or the last one before it.  The
\* committees are what a node answers with.
ChainOf(w) ==
    LET of(e) == IF e < 1 THEN 1 ELSE e
        checkpoint(e) == IF e \in w.missed THEN Boundary(e) - 1 ELSE Boundary(e)
        boundary(e) == [slot |-> Boundary(e), fork |-> 0, registry |-> w.registry[of(e)]]
    IN [e \in 0 .. LastEpoch |->
          [state |-> boundary(e),
           root |-> checkpoint(e),
           header |-> [slot |-> checkpoint(e),
                       recorded |-> [slot |-> Boundary(e - 1), block |-> checkpoint(e - 1),
                                     state |-> hash_tree_root(boundary(e - 1))]],
           committees |-> get_committees(ActiveList(w.registry[of(e)], e), w.seed[of(e)])]]

OrphanState(e) == [chain[e].state EXCEPT !.fork = 1]

Checkpoint(e) == [epoch |-> e, root |-> chain[e].root]

Right(slot) == [slot |-> slot, head |-> CanonicalHead(slot),
                source |-> Checkpoint(epoch - 1), target |-> Checkpoint(epoch)]

\* How a slot's committee may vote and be heard: all as they should, one for
\* another head, an older head or another target, one not at all; a slot late,
\* in two aggregates that overlap, or in singles and an aggregate over them.
\* The order of two aggregates is the order they are included in.
VotesOf(body, slot) ==
    LET members == MembersAt(agg.context.committees, slot % SlotCount)
        first == CHOOSE v \in members : \A u \in members : v <= u
        right == Right(slot)
        ofFirst == CASE body = "split" -> [right EXCEPT !.head = OtherHead]
                     [] body = "stale" -> [right EXCEPT !.head = CanonicalHead(slot - 1)]
                     [] body = "wrong" -> [right EXCEPT !.target.root = chain[epoch - 1].root]
                     [] OTHER -> right
    IN [v \in IF body = "absent" THEN members \ {first} ELSE members |->
          IF v = first THEN ofFirst ELSE right]

Attestation(data, voters, single) ==
    LET table == agg.context.committees.table[data.slot % SlotCount]
    IN [data |-> data, bits |-> voters, single |-> single,
        committees |-> {c \in DOMAIN table : table[c] \cap voters # {}}]

\* The attestations the votes are heard in.
HeardIn(body, votes) ==
    LET voters == DOMAIN votes
        first == CHOOSE v \in voters : \A u \in voters : v <= u
        last == CHOOSE v \in voters : \A u \in voters : u <= v
        single(v) == Attestation(votes[v], {v}, TRUE)
        over(data) == Attestation(data, {v \in voters : votes[v] = data}, FALSE)
        singles == [i \in DOMAIN InOrder(voters) |-> single(InOrder(voters)[i])]
    IN IF voters = {} THEN <<>>
       ELSE CASE body = "overlap" ->
                 <<Attestation(votes[last], voters \ {first}, FALSE),
                   Attestation(votes[last], voters \ {last}, FALSE)>>
              [] body = "singles" ->
                 singles \o <<single(first), Attestation(votes[last], voters \ {first}, FALSE)>>
              [] OTHER ->
                 <<over(votes[last])>> \o
                    (IF votes[first] = votes[last] THEN <<>> ELSE <<over(votes[first])>>)

-----------------------------------------------------------------------------
(* One epoch's aggregation.                                                *)

NoAggregation == [refused |-> {}]

\* What a guest does not accept is kept, with the stage it is of.
Refused(a, stage, accepted) == IF accepted THEN a ELSE [a EXCEPT !.refused = @ \cup {stage}]

ScanEnd(e) == Boundary(e + Lookahead)

threshold_reached(a) == Justifies(a.balance, a.context.total)

prove_slot_group(a) ==
    LET w == AttestationWitness(a.context, a.slots)
    IN Refused([a EXCEPT !.slots = <<>>, !.unfolded = Append(@, Proof("slot", SlotOutput(w)))],
               "slot_proof", SlotProofAccepts(w))

fold_justification(a) ==
    LET w == JustificationWitness(a.context, a.unfolded, a.justification,
                IF a.justification = NoProof THEN a.context.committee ELSE NoProof)
    IN Refused([a EXCEPT !.unfolded = <<>>,
                         !.justification = Proof("justification", JustificationOutput(w))],
               "justification", JustificationAccepts(w))

close_slot(a, slot, complement) ==
    [a EXCEPT !.stream = forget(@, slot), !.balance = @ + complement.marginal_balance,
              !.slots = Append(@, complement), !.units = Append(@, complement)]

prove_if_due(a) ==
    IF Len(a.slots) >= world.group_width /\ ~threshold_reached(a)
    THEN prove_slot_group(a) ELSE a

fold_if_due(a) ==
    IF Len(a.unfolded) >= world.fold_width /\ ~threshold_reached(a)
    THEN fold_justification(a) ELSE a

\* A slot's attestations, and in the batch pipeline the close of the slot before
\* it, if anything is heard of that one.
read(a, slot, block) ==
    [a EXCEPT !.next_slot = slot + 1, !.stream = ingest(@, block), !.blocks = Append(@, block)]

scan(a, slot, block) ==
    LET scanned == read(a, slot, block)
        closing == slot - 1
    IN IF EpochOf(closing) # a.context.target.epoch \/ closing \notin open_slots(scanned.stream)
       THEN scanned
       ELSE fold_if_due(prove_if_due(close_slot(scanned, closing,
                                                peek(scanned.stream, closing))))

-----------------------------------------------------------------------------
(* The start: an init point, taken from a node and opened against one.     *)

\* walk: the accumulator and the registry's own tree.
walk(validators, e) ==
    [acc_root |-> AccTree(validators, e), data_root |-> SszTree(validators),
     count |-> Cardinality(DOMAIN validators), total |-> TotalActive(validators, e)]

NoInitPoint == [chain |-> "none"]

\* The branch from a state's root down to its validators, and what a
\* validators' root opens it to.
ValidatorsBranch(state) == [root |-> hash_tree_root(state), leaf |-> SszTree(state.registry)]

compute_ssz_merkle_root(leaf, branch) == IF leaf = branch.leaf THEN branch.root ELSE NoRoot

\* take_held: the registry, the state and the root claimed of it are three
\* answers of the node.
take_held(validators, state, claimed) ==
    LET walked == walk(validators, EpochOf(state.slot))
        branch == ValidatorsBranch(state)
    IN IF compute_ssz_merkle_root(walked.data_root, branch) # claimed THEN NoInitPoint
       ELSE [chain |-> "chain", epoch |-> EpochOf(state.slot), state_root |-> claimed,
             num_validators |-> walked.count, total_active_balance |-> walked.total,
             acc_root |-> walked.acc_root,
             accumulator_commitment |-> commitment(walked.acc_root, walked.total),
             siblings |-> branch]

\* InitPoint::check
BindsItself(init) ==
    /\ init.num_validators > 0
    /\ commitment(init.acc_root, init.total_active_balance) = init.accumulator_commitment

\* open_held: everything again, from the registry the daemon is given.
open_held(init, validators) ==
    LET walked == walk(validators, init.epoch)
    IN /\ BindsItself(init)
       /\ init.chain = "chain"
       /\ walked.count = init.num_validators
       /\ walked.total = init.total_active_balance
       /\ walked.acc_root = init.acc_root
       /\ compute_ssz_merkle_root(walked.data_root, init.siblings) = init.state_root

\* A node's answers about a boundary are of the branch it is on.
Branches(e) == {chain[e].state} \cup (IF world.orphaned = e THEN {OrphanState(e)} ELSE {})

TakenAt(e) ==
    {take_held(listed.registry, state, hash_tree_root(claimed)) :
        listed \in Branches(e), state \in Branches(e), claimed \in Branches(e)} \ {NoInitPoint}

\* An init point as it was taken, or of another chain, epoch or balance.
Configured ==
    UNION {{[init EXCEPT !.epoch = e] : e \in 1 .. LastEpoch}
           \cup {[init EXCEPT !.chain = "other"], [init EXCEPT !.total_active_balance = @ + 1],
                 [init EXCEPT !.total_active_balance = @ + 1,
                              !.accumulator_commitment = commitment(init.acc_root,
                                                             init.total_active_balance + 1)]} :
           init \in TakenAt(1)}

\* StoreState::started, over the boundary the registry was read at and the root
\* the init point names, and what stands for the init point on the contract.
StartedOn(init) ==
    /\ ledger' = [tree |-> init.acc_root, total |-> init.total_active_balance,
                  state |-> chain[init.epoch].state, root |-> init.state_root,
                  last |-> NoProof, diff |-> NoProof,
                  published |-> {Proof("bootstrap",
                      [accumulator_commitment |-> init.accumulator_commitment,
                       state_root |-> init.state_root])}]
    /\ epoch' = init.epoch
    /\ phase' = "open"

\* anchor: on the init point, or on the node's own finalized epoch where the
\* one it names is served no more.
Start ==
    /\ phase = "start"
    /\ \/ /\ world.serves = 1
          /\ \E init \in Configured :
                IF open_held(init, chain[init.epoch].state.registry) THEN StartedOn(init)
                ELSE phase' = "refused" /\ UNCHANGED <<ledger, epoch>>
       \/ /\ world.serves > 1
          /\ \E init \in TakenAt(world.serves) : StartedOn(init)
    /\ UNCHANGED <<world, chain, agg, cast, fcr, rule, contract>>

-----------------------------------------------------------------------------
Init ==
    /\ world \in Worlds
    /\ chain = ChainOf(world)
    /\ epoch = 1
    /\ phase = "start"
    /\ ledger = [published |-> {}]
    /\ agg = NoAggregation
    /\ cast = <<>>
    /\ fcr = <<>>
    /\ rule = <<>>
    /\ contract = [initialized |-> FALSE]

\* Prove the diff to a boundary state, and take it as the accumulator's.
DiffTo(state, keep) ==
    LET built == build_held(ledger.tree, ledger.total, ledger.state, ledger.root, state)
        proof == Proof("epoch_diff", EpochDiffOutput(built.witness))
    IN /\ built.witness.mutations # <<>>
       /\ agg' = Refused(agg, "epoch_diff", EpochDiffAccepts(built.witness))
       /\ ledger' = [ledger EXCEPT !.tree = IF keep THEN built.tree ELSE @,
                                   !.total = IF keep THEN built.total ELSE @,
                                   !.state = IF keep THEN state ELSE @,
                                   !.root = IF keep THEN hash_tree_root(state) ELSE @,
                                   !.diff = IF keep THEN proof ELSE @,
                                   !.published = @ \cup {proof}]

Advance ==
    /\ phase \in {"advance", "reorged"}
    /\ DiffTo(chain[epoch].state, TRUE)
    /\ phase' = "open"
    /\ UNCHANGED <<world, chain, epoch, cast, fcr, rule, contract>>

\* The boundary seen is orphaned: before the accumulator was moved for good,
\* and the diff is proved again, or after.
AdvanceOrphaned ==
    /\ phase = "advance" /\ epoch = world.orphaned
    /\ \E kept \in BOOLEAN :
          /\ DiffTo(OrphanState(epoch), kept)
          /\ phase' = IF kept THEN "open" ELSE "reorged"
    /\ UNCHANGED <<world, chain, epoch, cast, fcr, rule, contract>>

\* The block at an epoch's first slot, or the last one of the epoch before.
checkpoint_root(e) ==
    Max({s \in Saturating(Boundary(e), SlotCount) .. Boundary(e) : HasBlock(s)})

\* The committees the node has, summed out of the accumulator.
build_committees(e) == build(chain[e].committees, ledger.tree, e, ledger.total)

\* The circuit agrees with the host's sums.
prove_committee(committees) ==
    /\ CommitteeAccepts(committees.witness)
    /\ CommitteeOutput(committees.witness) = committees.output

\* open_epoch, and the aggregation opened on it.
Open ==
    /\ phase = "open"
    /\ LET committees == build_committees(epoch)
           context == [tree |-> ledger.tree, total |-> ledger.total,
                       source |-> [epoch |-> epoch - 1, root |-> checkpoint_root(epoch - 1)],
                       target |-> [epoch |-> epoch, root |-> checkpoint_root(epoch)],
                       committees |-> committees, diff |-> ledger.diff,
                       committee |-> Proof("committee", CommitteeOutput(committees.witness))]
           opened == [refused |-> agg.refused, context |-> context,
                      stream |-> SlotStream(committees, context.source, context.target),
                      next_slot |-> Boundary(epoch), leftover |-> <<>>, blocks |-> <<>>,
                      balance |-> 0, slots |-> <<>>, units |-> <<>>, unfolded |-> <<>>,
                      justification |-> NoProof, plan |-> <<>>, groups |-> <<>>,
                      folded |-> 0, aggregate |-> NoProof, final |-> NoProof]
       IN agg' = Refused(opened, "committee", prove_committee(committees))
    /\ cast' = <<>>
    /\ phase' = "hear"
    /\ UNCHANGED <<world, chain, epoch, ledger, fcr, rule, contract>>

\* A slot's block, carrying votes of the slot before it and late ones.
Included(slot, body, heard) ==
    IF ~HasBlock(slot) THEN <<>>
    ELSE IF body = "late" THEN agg.leftover ELSE agg.leftover \o heard

LeftOver(slot, body, heard) ==
    IF ~HasBlock(slot) THEN agg.leftover \o heard
    ELSE IF body = "late" THEN heard ELSE <<>>

Scanned(slot, block, left) ==
    LET after == IF world.pipeline[epoch] = "stream" THEN read(agg, slot, block)
                 ELSE scan(agg, slot, block)
    IN /\ agg' = [after EXCEPT !.leftover = left]
       /\ phase' = IF world.pipeline[epoch] = "batch" /\ threshold_reached(agg') THEN "close"
                   ELSE IF slot + 1 < ScanEnd(epoch) THEN "hear"
                   ELSE IF world.pipeline[epoch] = "stream" THEN "collect" ELSE "decided"

Hear ==
    /\ phase = "hear"
    /\ LET slot == agg.next_slot
       IN \/ /\ EpochOf(slot - 1) # epoch
             /\ Scanned(slot, Included(slot, "whole", <<>>), LeftOver(slot, "whole", <<>>))
             /\ UNCHANGED cast
          \/ /\ EpochOf(slot - 1) = epoch
             /\ \E body \in IF epoch < LastEpoch THEN {"whole"} ELSE world.bodies :
                   LET votes == VotesOf(body, slot - 1)
                       heard == HeardIn(body, votes)
                   IN /\ cast' = [v \in DOMAIN votes \cup DOMAIN cast |->
                                    IF v \in DOMAIN votes THEN votes[v] ELSE cast[v]]
                      /\ Scanned(slot, Included(slot, body, heard), LeftOver(slot, body, heard))
    /\ UNCHANGED <<world, chain, epoch, ledger, fcr, rule, contract>>

\* The host's check of what finalizes the epoch before; nothing is finalized
\* where the records do not join.
Joins(last, current) ==
    /\ last.program = "justification"
    /\ last.output.target.epoch + 1 = current.target.epoch
    /\ ledger.diff # NoProof
    /\ ledger.diff.output.epoch_1 = last.output.target.epoch
    /\ ledger.diff.output.epoch_2 = current.target.epoch
    /\ ledger.diff.output.prev_accumulator_commitment = last.output.accumulator_commitment
    /\ ledger.diff.output.accumulator_commitment = current.accumulator_commitment

\* The checkpoint before, finalized where it joins the record; the daemon ends
\* where its boundary does not build.
try_finalize(checked, record) ==
    LET joins == Joins(ledger.last, record.output)
        w == [justifications |-> <<ledger.last, record>>, epoch_diff |-> ledger.diff,
              boundary |-> BoundaryAnchor(chain[epoch].header)]
        recorded == [ledger EXCEPT !.last = record]
    IN IF ~joins
       THEN /\ agg' = checked
            /\ ledger' = recorded
            /\ phase' = "decided"
       ELSE IF BoundaryBuilds(chain[epoch].header, ledger.last.output.target,
                              ledger.diff.output.state_root_1)
       THEN /\ agg' = Refused(checked, "finalization", FinalizationAccepts(w))
            /\ ledger' = [recorded EXCEPT
                  !.published = @ \cup {Proof("finalization", FinalizationOutput(w))}]
            /\ phase' = "decided"
       ELSE /\ agg' = checked
            /\ phase' = "ended"
            /\ UNCHANGED ledger

Close ==
    /\ phase = "close"
    /\ LET proved == IF agg.slots = <<>> THEN agg ELSE prove_slot_group(agg)
           folded == fold_justification(proved)
           record == folded.justification
       IN try_finalize(Refused(folded, "close", record.output.justified), record)
    /\ UNCHANGED <<world, chain, epoch, cast, fcr, rule, contract>>

\* The streamed epoch's units, then its plan if they carry the epoch.
Collect ==
    /\ phase = "collect"
    /\ agg' = [agg EXCEPT !.units = collect_per_slot_for_checkpoint(agg.stream, <<>>, epoch)]
    /\ phase' = IF open_slots(agg.stream) = {} THEN "decided" ELSE "plan"
    /\ UNCHANGED <<world, chain, epoch, ledger, cast, fcr, rule, contract>>

PlanEpoch ==
    /\ phase = "plan"
    /\ agg' = [agg EXCEPT !.plan = schedule(agg.units, agg.context.total, world.policy)]
    /\ phase' = IF agg'.plan.threshold_reached THEN "stream" ELSE "decided"
    /\ UNCHANGED <<world, chain, epoch, ledger, cast, fcr, rule, contract>>

\* run_native, a proof a step.
ProveGroup ==
    /\ phase = "stream"
    /\ Len(agg.groups) < Len(agg.plan.groups)
    /\ LET w == StreamGroups(agg.context, agg.units, agg.plan)[Len(agg.groups) + 1]
       IN agg' = Refused([agg EXCEPT !.groups = Append(@, Proof("group", GroupOutput(w)))],
                         "group", AttestAccepts(w))
    /\ UNCHANGED <<world, chain, epoch, phase, ledger, cast, fcr, rule, contract>>

Fold ==
    /\ phase = "stream"
    /\ Len(agg.groups) = Len(agg.plan.groups)
    /\ agg.folded < Len(agg.plan.folds)
    /\ LET w == FoldWitness(agg.context, agg.groups, agg.plan.folds[agg.folded + 1],
                            agg.aggregate)
       IN agg' = Refused([agg EXCEPT !.folded = @ + 1,
                                     !.aggregate = Proof("aggregate", AggregateOutput(w))],
                         "aggregate", AggregateAccepts(w))
    /\ UNCHANGED <<world, chain, epoch, phase, ledger, cast, fcr, rule, contract>>

Final ==
    /\ phase = "stream"
    /\ Len(agg.groups) = Len(agg.plan.groups)
    /\ agg.folded = Len(agg.plan.folds)
    /\ LET absorbed == InOrder(agg.plan.absorbed)
           tail == InOrder(agg.plan.tail)
           w == final_witness(agg.context, agg.aggregate,
                              [i \in DOMAIN absorbed |-> agg.groups[absorbed[i]]],
                              [i \in DOMAIN tail |-> agg.units[tail[i]]],
                              ledger.last, BoundaryAnchor(chain[epoch].header))
           proof == Proof("stream_final", StreamFinalOutput(w))
       IN IF BoundaryBuilds(chain[epoch].header, agg.context.source,
                            agg.context.diff.output.state_root_1)
          THEN /\ agg' = Refused([agg EXCEPT !.final = proof], "stream_final",
                                 StreamFinalAccepts(w))
               /\ ledger' = [ledger EXCEPT !.last = proof, !.published = @ \cup {proof}]
               /\ phase' = "decided"
          ELSE /\ phase' = "ended"
               /\ UNCHANGED <<agg, ledger>>
    /\ UNCHANGED <<world, chain, epoch, cast, fcr, rule, contract>>

NextEpoch ==
    /\ phase = "decided" /\ epoch < LastEpoch
    /\ epoch' = epoch + 1
    /\ phase' = "advance"
    /\ UNCHANGED <<world, chain, ledger, agg, cast, fcr, rule, contract>>

\* The last epoch is over, or the daemon is: what was published is left.
Settle ==
    /\ phase = "ended" \/ (phase = "decided" /\ epoch = LastEpoch)
    /\ phase' = "published"
    /\ ledger' = [published |-> ledger.published]
    /\ agg' = [refused |-> agg.refused]
    /\ cast' = <<>>
    /\ UNCHANGED <<world, chain, epoch, fcr, rule, contract>>

-----------------------------------------------------------------------------
(* Fast confirmation over the last epoch's slots.                          *)

Header(slot) ==
    IF HasBlock(slot) THEN [slot |-> slot, parent_root |-> CanonicalHead(slot - 1)]
    ELSE NoHeader

batch_witness(from, to) ==
    FcrBatchWitness(agg.context, SubSeq(agg.units, from, to),
                    [slot \in {agg.units[i].slot : i \in from .. to} |-> Header(slot)],
                    CanonicalHead(agg.units[from].slot - 1))

\* The committees the window's votes were counted by, to be proven from the
\* seed and the tree they were opened from.
committee_witness ==
    LET active == ActiveList(world.registry[epoch], epoch)
        tree == agg.context.tree
    IN [acc_root |-> tree, total |-> agg.context.total,
        accumulator_commitment |-> commitment(tree, agg.context.total),
        seed |-> world.seed[epoch], epoch |-> epoch, active |-> active,
        balances |-> [v \in ToSet(active) |-> tree[v]],
        acc_multi_proof |-> build_multi_proof(tree, ToSet(active))]

\* What the batch's guest and the committee's assert of a window's witnesses.
judged(a, witnesses, assigned) ==
    Refused(Refused(a, "fcr_batch", \A i \in DOMAIN witnesses : FcrBatchAccepts(witnesses[i])),
            "fcr_committee",
            /\ FcrCommitteeAccepts(assigned)
            /\ FcrCommitteeOutput(assigned).committee_root = a.context.committees.root)

\* A window in one batch, and the same window in two.
Confirm ==
    /\ phase = "decided" /\ epoch = LastEpoch /\ world.confirms
    /\ \E first, cut, last \in DOMAIN agg.units :
          /\ first <= cut /\ cut < last
          /\ \A i \in first .. last - 1 : agg.units[i + 1].slot = agg.units[i].slot + 1
          /\ LET witnesses == <<batch_witness(first, last), batch_witness(first, cut),
                                batch_witness(cut + 1, last)>>
                 assigned == committee_witness
             IN /\ fcr' = [one |-> FcrBatchOutput(witnesses[1]),
                           parts |-> <<FcrBatchOutput(witnesses[2]),
                                       FcrBatchOutput(witnesses[3])>>,
                           parent_slot |-> CanonicalHead(agg.units[first].slot - 1),
                           assignment |-> from_committee_proof(FcrCommitteeOutput(assigned))]
                /\ agg' = judged(agg, witnesses, assigned)
    /\ phase' = "confirmed"
    /\ UNCHANGED <<world, chain, epoch, ledger, cast, rule, contract>>

-----------------------------------------------------------------------------
(* The rule's witness, out of a node at a slot of the last epoch.           *)

RightAttestation(slot) ==
    LET e == EpochOf(slot)
        table == chain[e].committees[slot % SlotCount]
    IN [data |-> [slot |-> slot, head |-> CanonicalHead(slot),
                  source |-> Checkpoint(Saturating(e, 1)), target |-> Checkpoint(e)],
        bits |-> UNION {table[c] : c \in DOMAIN table}, single |-> FALSE,
        committees |-> DOMAIN table]

\* A block carries the right votes of earlier epochs' slots since the last one.
BlockAttestations(slot) ==
    LET since == {s \in 0 .. slot - 1 : /\ HasBlock(slot) /\ EpochOf(s) < LastEpoch
                                        /\ \A x \in s + 1 .. slot - 1 : ~HasBlock(x)}
        earlier == [i \in DOMAIN InOrder(since) |-> RightAttestation(InOrder(since)[i])]
    IN IF EpochOf(slot) < LastEpoch THEN earlier
       ELSE earlier \o agg.blocks[(slot - Boundary(LastEpoch)) + 1]

\* The votes for an epoch's checkpoint in blocks up to a slot, and the
\* checkpoints justified and finalized by them.
VotersBy(e, slot) ==
    IF e < LastEpoch
    THEN UNION {RightAttestation(s).bits :
                s \in Boundary(e) .. Min({Boundary(e + 1), CanonicalHead(slot)}) - 1}
    ELSE UNION {att.bits : att \in {a \in UNION {ToSet(agg.blocks[(s - Boundary(e)) + 1]) :
                                                s \in Boundary(e) .. slot} :
                                    a.data.target = Checkpoint(e)}}

JustifiedBy(slot) ==
    LET weight(e) == SumOf([v \in VotersBy(e, slot) |->
                              active_effective_balance(world.registry[e][v], e)])
    IN {0} \cup {e \in 1 .. EpochOf(slot) :
                   Justifies(weight(e), TotalActive(world.registry[e], e))}

FinalizedBy(slot) == {0} \cup {e \in JustifiedBy(slot) : e + 1 \in JustifiedBy(slot)}

\* Genesis has no root.
StateCheckpoint(e) == IF e = 0 THEN NoCheckpoint ELSE Checkpoint(e)

\* A node's fork choice holds the blocks since the one finalized.
ForkChoiceNode(slot) ==
    LET before == Saturating(Boundary(EpochOf(slot)), 1)
    IN [root |-> slot, slot |-> slot, parent |-> CanonicalHead(slot - 1),
        finalized |-> StateCheckpoint(Max(FinalizedBy(before))),
        unrealized_finalized |-> StateCheckpoint(Max(FinalizedBy(slot))),
        unrealized_justified |-> StateCheckpoint(Max(JustifiedBy(slot)))]

NodeFinalized(target) == Max(FinalizedBy(CanonicalHead(Boundary(EpochOf(target)) - 1)))

NodeAt(target) ==
    LET held == {s \in chain[NodeFinalized(target)].root .. target : HasBlock(s)}
    IN [nodes |-> [i \in DOMAIN InOrder(held) |-> ForkChoiceNode(InOrder(held)[i])],
        heard |-> [slot \in 0 .. target |-> BlockAttestations(slot)],
        registry |-> world.registry, seed |-> world.seed,
        sees |-> [slot \in 0 .. target |->
                    [head |-> CanonicalHead(slot),
                     finalized |-> StateCheckpoint(NodeFinalized(slot)),
                     unrealized |-> StateCheckpoint(Max(JustifiedBy(slot)))]],
        committees |-> [e \in 0 .. EpochOf(target) |-> chain[e].committees]]

\* gen_fcr_rule_witness: what it fetches, the replay, then the slot proven.
FetchNode ==
    /\ phase = "decided" /\ epoch = LastEpoch /\ world.confirms
    /\ \E target \in Boundary(epoch) .. Boundary(epoch + 1) - 1 :
          /\ NodeFinalized(target) > 0
          /\ LET has == Fetched(NodeAt(target), target)
             IN rule' = [has |-> has, slot |-> has.first_slot, votes |-> VotesBefore(has),
                         state |-> StartState(has),
                         nodes |-> RuleAt(has.finalized, has.registries[1])]
    /\ phase' = "replay"
    /\ agg' = [refused |-> agg.refused]
    /\ ledger' = [published |-> {}]
    /\ cast' = <<>>
    /\ UNCHANGED <<world, chain, epoch, fcr, contract>>

\* Nothing comes of a replay that panics.
ReplaySlot ==
    /\ phase = "replay"
    /\ LET has == rule.has
           votes == ingest_votes(rule.votes, has.node.heard[rule.slot], has.blocks,
                                 has.node.committees)
           w == header_for(has, rule.slot, rule.state, votes)
           view == NodeView(has, rule.slot, rule.nodes)
           after == on_fast_confirmation(rule.nodes, view)
           proven == rule.slot = has.target
       IN IF ~Served(has, rule.state, rule.slot)
          THEN phase' = "confirmed" /\ rule' = <<>> /\ UNCHANGED agg
          ELSE /\ agg' = Refused(agg, "fcr_rule",
                                 /\ RuleAccepts(w, view, after)
                                 /\ proven => AssignmentsMatch(has, w))
               /\ IF proven THEN phase' = "confirmed" /\ rule' = <<>>
                  ELSE /\ rule' = [rule EXCEPT !.slot = @ + 1, !.votes = votes,
                                               !.state = run(w), !.nodes = after]
                       /\ UNCHANGED phase
    /\ UNCHANGED <<world, chain, epoch, ledger, cast, fcr, contract>>

-----------------------------------------------------------------------------
\* The shuffle benchmark's selftest over an active set.
Bench ==
    /\ phase = "open" /\ epoch = 1 /\ world.confirms
    /\ \E n \in BenchSizes, seed \in BenchSeeds :
          agg' = Refused(agg, "selftest", Assignments(n, seed) = {selftest_reference(n, seed)})
    /\ phase' = "benched"
    /\ UNCHANGED <<world, chain, epoch, ledger, cast, fcr, rule, contract>>

-----------------------------------------------------------------------------
(* The contract.  Anyone submits anything published, in any order.         *)

Published(program) == {p \in ledger.published : p.program = program}

Bootstrap ==
    /\ phase = "published" /\ ~contract.initialized
    /\ \E p \in Published("bootstrap") :
          contract' = [initialized |-> TRUE,
                       accumulatorCommitment |-> p.output.accumulator_commitment,
                       latestStateRoot |-> p.output.state_root,
                       latestFinalizedBlockRoot |-> NoBlock,
                       latestFinalizedStateRoot |-> NoBlock]
    /\ UNCHANGED <<world, chain, epoch, phase, ledger, agg, cast, fcr, rule>>

\* Mutant: the state root stays behind.
DiffTakenStateStays(c, diff) ==
    [c EXCEPT !.accumulatorCommitment = diff.accumulator_commitment]

DiffTaken(c, diff) == [c EXCEPT !.accumulatorCommitment = diff.accumulator_commitment,
                                !.latestStateRoot = diff.state_root_2]

SubmitEpochDiff ==
    /\ phase = "published" /\ contract.initialized
    /\ \E p \in Published("epoch_diff") :
          /\ p.output.prev_accumulator_commitment = contract.accumulatorCommitment
          /\ p.output.state_root_1 = contract.latestStateRoot
          /\ contract' = DiffTaken(contract, p.output)
    /\ UNCHANGED <<world, chain, epoch, phase, ledger, agg, cast, fcr, rule>>

SubmitFinality ==
    /\ phase = "published" /\ contract.initialized
    /\ \E p \in Published("finalization") :
          /\ contract.accumulatorCommitment \in
                {p.output.accumulator_commitment, p.output.next_accumulator_commitment}
          /\ contract' = [contract EXCEPT
                            !.latestFinalizedBlockRoot = p.output.finalized.root,
                            !.latestFinalizedStateRoot = p.output.finalized_state_root]
    /\ UNCHANGED <<world, chain, epoch, phase, ledger, agg, cast, fcr, rule>>

-----------------------------------------------------------------------------
Next ==
    \/ Start \/ Advance \/ AdvanceOrphaned \/ Open \/ Hear \/ Close
    \/ Collect \/ PlanEpoch \/ ProveGroup \/ Fold \/ Final
    \/ NextEpoch \/ Settle \/ Confirm \/ FetchNode \/ ReplaySlot \/ Bench
    \/ Bootstrap \/ SubmitEpochDiff \/ SubmitFinality

Spec == Init /\ [][Next]_vars

-----------------------------------------------------------------------------
(* Properties.                                                             *)

(***************************************************************************)
(* Every witness the host builds is accepted by the guest it is built for: *)
(* whatever was heard, however slots were grouped and folded, however the  *)
(* registry moved and wherever blocks are missing, no guest's assertion    *)
(* fails.  A close that does not justify and a selftest whose forms of the *)
(* shuffle differ are refusals too.                                        *)
(***************************************************************************)
WitnessesAreAccepted == agg.refused = {}

\* What the chain's own registry weighs an epoch's voters.
WeightOf(voters) ==
    LET e == agg.context.target.epoch
    IN SumOf([v \in voters |-> active_effective_balance(world.registry[e][v], e)])

VotersIn(slots) == {v \in DOMAIN cast : cast[v].slot % SlotCount \in slots}

VotedWeight(slots) ==
    LET e == agg.context.target.epoch
    IN WeightOf({v \in VotersIn(slots) : /\ cast[v].source = Checkpoint(e - 1)
                                         /\ cast[v].target = Checkpoint(e)})

(***************************************************************************)
(* A slot, group, justification or aggregate proof never attests more than *)
(* the chain's registry gives the validators that voted this source and    *)
(* target in its slots, and an epoch is justified, by the batch pipeline   *)
(* or by a streamed final proof, only when two thirds of the chain's       *)
(* active balance did.  The guests see an accumulator carried from diff to *)
(* diff, committees and absentees; the votes they never see.               *)
(***************************************************************************)
WeightIsTheChains ==
    "context" \in DOMAIN agg =>
        LET e == agg.context.target.epoch
            all == Indices(SlotCount)
            twoThirds(slots) == VotedWeight(slots) * 3
                                   >= TotalActive(world.registry[e], e) * 2
            proofs == ToSet(agg.unfolded) \cup ToSet(agg.groups)
                      \cup ({agg.justification, agg.aggregate} \ {NoProof})
        IN /\ \A p \in proofs :
                 p.output.attesting_balance <= VotedWeight(p.output.slots_mask)
           /\ (agg.justification # NoProof /\ agg.justification.output.justified) =>
                 twoThirds(agg.justification.output.slots_mask)
           /\ agg.final # NoProof => twoThirds(all)

(***************************************************************************)
(* A window proven in two batches is the window proven in one: the batches *)
(* join at whatever slot they are cut, with the same support and head, and *)
(* the verifier that joins them confirms nothing the one batch, which sees *)
(* the votes of empty slots too, does not.  Its support is no more than    *)
(* the chain's balance of the votes for each slot's canonical head.        *)
(***************************************************************************)
WindowIsItsBatches ==
    fcr # <<>> =>
        LET window == accumulate(fcr.parts)
            slots == {s % SlotCount : s \in {x \in window.first_slot .. window.last_slot :
                                               HasBlock(x)}}
        IN /\ window # NoWindow
           /\ window = FirstWindow(fcr.one)
           /\ is_confirmed(window, fcr.assignment, fcr.parent_slot, window.last_slot + 1)
                 => fcr.one.confirmed
           /\ window.support
                 <= WeightOf({v \in VotersIn(slots) : cast[v].head = CanonicalHead(cast[v].slot)})

(***************************************************************************)
(* Whatever order published proofs reach the contract in, its accumulator  *)
(* is the one of its latest state at that state's epoch, and a finalized   *)
(* block and state are an epoch's checkpoint and boundary on the chain,    *)
(* even where the boundary the daemon first moved to was orphaned.         *)
(***************************************************************************)
OnChainAnchored ==
    contract.initialized =>
        LET e == EpochOf(contract.latestStateRoot.slot)
        IN /\ contract.accumulatorCommitment
                 = commitment(AccTree(world.registry[e], e), TotalActive(world.registry[e], e))
           /\ \/ contract.latestFinalizedBlockRoot = NoBlock
              \/ \E f \in 1 .. LastEpoch :
                    /\ contract.latestFinalizedBlockRoot = chain[f].root
                    /\ contract.latestFinalizedStateRoot = hash_tree_root(chain[f].state)

(***************************************************************************)
(* The plan of a streamed epoch can be run as it is: every unit up to the  *)
(* one that crosses is in exactly one group or in the tail, every group in *)
(* exactly one fold or absorbed by the final proof; no lane has two proofs *)
(* at once; a group starts once its last slot is there, a fold once its    *)
(* groups and the fold before it are, and the final proof once all of them *)
(* and the last slot are.                                                  *)
(***************************************************************************)
ScheduleIsRunnable ==
    ("plan" \in DOMAIN agg /\ agg.plan # <<>>) =>
        Runnable(agg.units, agg.plan)
=============================================================================
