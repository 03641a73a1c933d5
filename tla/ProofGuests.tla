---------------------------- MODULE ProofGuests ----------------------------
(***************************************************************************)
(* The proofs of an epoch past its slots: the diff that moves the          *)
(* accumulator to the next registry, the fold of slot proofs into a        *)
(* justification, the finalization of two of them, and the streamed        *)
(* epoch's aggregate and final proof; each guest's assertions beside the   *)
(* builder of its witness.                                                 *)
(*                                                                         *)
(* A proof is the program it comes from and what it commits.  A root names *)
(* what it is of: a state root its slot and branch, a block root the       *)
(* block's slot, the chain having one block a slot at most.  A header      *)
(* opens to the one boundary its state's ring buffers are asked for.       *)
(***************************************************************************)
EXTENDS StreamPlan

NoProof == [program |-> "none"]
NoValidator == [balance |-> Zero]  \* an empty leaf of the registry tree

\* What a guest that accepts its witness leaves behind.
Proof(program, output) == [program |-> program, output |-> output]

\* A child comes from the program its parent expects.
verify_child(proof, program) == proof.program = program

hash_tree_root(state) == [slot |-> state.slot, fork |-> state.fork]

block_header_root(header) == header.slot

checkpoint_digest(source, target) == <<source, target>>

Justifies(balance, total) == balance * 3 >= total * 2

-----------------------------------------------------------------------------
(* The registry and its diff.  A validator is its effective balance, the   *)
(* epochs it activates and exits at, and the fields no weight depends on.  *)

is_active(v, epoch) == v.activation <= epoch /\ epoch < v.exit

active_effective_balance(v, epoch) == IF is_active(v, epoch) THEN v.balance ELSE 0

\* AccTree::build: a leaf for each registered index, zero for the rest.
AccTree(registry, epoch) ==
    [v \in Validators |->
        IF v \in DOMAIN registry THEN active_effective_balance(registry[v], epoch) ELSE Zero]

TotalActive(registry, epoch) ==
    SumOf([v \in DOMAIN registry |-> active_effective_balance(registry[v], epoch)])

\* The root a leaf has among its siblings.
compute_root(leaf, index, siblings) == [siblings EXCEPT ![index] = leaf]

\* build_validators_ssz_tree
SszTree(registry) ==
    [v \in Validators |-> IF v \in DOMAIN registry THEN registry[v] ELSE NoValidator]

find_mutations(old, new, epoch_1, epoch_2) ==
    {v \in DOMAIN new :
        \/ v \notin DOMAIN old
        \/ old[v] # new[v]
        \/ is_active(new[v], epoch_1) # is_active(new[v], epoch_2)}

EpochOf(slot) == slot \div SlotCount

\* The accumulator once these of the validators have their balance at an epoch.
Moved(tree, registry, epoch, indices) ==
    [v \in Validators |->
        IF v \in indices THEN active_effective_balance(registry[v], epoch) ELSE tree[v]]

\* build_held: the witness between two states, the root held of the first, and
\* the tree after it.  A mutation has the siblings the ones before it leave.
build_held(tree, total, state_1, root_1, state_2) ==
    LET old == state_1.registry
        new == state_2.registry
        epoch_2 == EpochOf(state_2.slot)
        indices == find_mutations(old, new, EpochOf(state_1.slot), epoch_2)
        order == InOrder(indices)
        before(i) == {order[j] : j \in 1 .. i - 1}
    IN [witness |->
            [state_1 |-> state_1, state_2 |-> state_2,
             state_root_1 |-> root_1, state_root_2 |-> hash_tree_root(state_2),
             acc_root_1 |-> tree, total_active_balance_1 |-> total,
             epoch_1 |-> EpochOf(state_1.slot), epoch_2 |-> epoch_2,
             mutations |-> [i \in DOMAIN order |->
                [validator_index |-> order[i], is_new |-> order[i] \notin DOMAIN old,
                 old_data |-> IF order[i] \in DOMAIN old THEN old[order[i]] ELSE NoValidator,
                 new_data |-> new[order[i]],
                 acc_siblings |-> Moved(tree, new, epoch_2, before(i))]],
             ssz_multi_proof_1 |-> build_multi_proof(SszTree(old), indices),
             ssz_multi_proof_2 |-> build_multi_proof(SszTree(new), indices)],
        tree |-> Moved(tree, new, epoch_2, indices),
        total |-> TotalActive(new, epoch_2)]

OldBalance(m, epoch) == IF m.is_new THEN 0 ELSE active_effective_balance(m.old_data, epoch)

OldLeaf(m, epoch) == IF m.is_new THEN Zero ELSE OldBalance(m, epoch)

NewLeaf(m, epoch) == active_effective_balance(m.new_data, epoch)

\* Each mutation replays on the root the one before it left.
EpochDiffAccepts(w) ==
    LET after(m) == compute_root(NewLeaf(m, w.epoch_2), m.validator_index, m.acc_siblings)
        root(i) == IF i = 1 THEN w.acc_root_1 ELSE after(w.mutations[i - 1])
        leaves(Data(_)) ==
            [v \in {m.validator_index : m \in ToSet(w.mutations)} |->
                Data(CHOOSE m \in ToSet(w.mutations) : m.validator_index = v)]
    IN /\ \A i \in DOMAIN w.mutations :
             LET m == w.mutations[i]
             IN compute_root(OldLeaf(m, w.epoch_1), m.validator_index, m.acc_siblings) = root(i)
       /\ batch_root(leaves(LAMBDA m : m.old_data), w.ssz_multi_proof_1)
             = SszTree(w.state_1.registry)
       /\ batch_root(leaves(LAMBDA m : m.new_data), w.ssz_multi_proof_2)
             = SszTree(w.state_2.registry)

EpochDiffOutput(w) ==
    LET last == Last(w.mutations)
        total == FoldLeft(LAMBDA sum, m :
                             (NewLeaf(m, w.epoch_2) - OldBalance(m, w.epoch_1)) + sum,
                          w.total_active_balance_1, w.mutations)
    IN [prev_accumulator_commitment |-> commitment(w.acc_root_1, w.total_active_balance_1),
        state_root_1 |-> w.state_root_1, epoch_1 |-> w.epoch_1,
        accumulator_commitment |->
            commitment(compute_root(NewLeaf(last, w.epoch_2), last.validator_index,
                                    last.acc_siblings), total),
        state_root_2 |-> w.state_root_2, epoch_2 |-> w.epoch_2]

-----------------------------------------------------------------------------
(* The boundary, opened out of the justified checkpoint's state.           *)

SLOTS_PER_HISTORICAL_ROOT == 8192

\* boundary::build: the header of the justified block, if what its state
\* records is what the circuit will be told.
BoundaryBuilds(header, finalized, boundary_state_root) ==
    /\ header.recorded.block = finalized.root
    /\ header.recorded.state = boundary_state_root

BoundaryAnchor(header) == [justified_header |-> header]

open_boundary(anchor, finalized, justified_root, boundary_state_root) ==
    LET h == anchor.justified_header
        boundary_slot == finalized.epoch * SlotCount
    IN /\ block_header_root(h) = justified_root
       /\ h.slot > boundary_slot /\ h.slot - boundary_slot <= SLOTS_PER_HISTORICAL_ROOT
       /\ h.recorded = [slot |-> boundary_slot, block |-> finalized.root,
                        state |-> boundary_state_root]

-----------------------------------------------------------------------------
(* Slot proofs and group proofs.                                           *)

SlotOutput(w) ==
    [accumulator_commitment |-> w.accumulator_commitment, committee_root |-> w.committee_root,
     source |-> w.source, target |-> w.target,
     attesting_balance |-> Attested(w).balance, slots_mask |-> Attested(w).mask]

\* A slot proof ends the pairing that a group proof hands on.
SlotProofAccepts(w) == AttestAccepts(w) /\ final_exp_is_one(Attested(w).miller)

GroupOutput(w) ==
    [accumulator_commitment |-> w.accumulator_commitment, committee_root |-> w.committee_root,
     source |-> w.source, target |-> w.target,
     attesting_balance |-> Attested(w).balance, slots_mask |-> Attested(w).mask,
     miller |-> Attested(w).miller]

\* build_per_slot, and StreamContext's group witness
AttestationWitness(context, slots) ==
    [acc_root |-> context.tree, total |-> context.total,
     accumulator_commitment |-> commitment(context.tree, context.total),
     source |-> context.source, target |-> context.target, slots |-> slots,
     acc_multi_proof |->
        build_multi_proof(context.tree, UNION {c.named : c \in ToSet(slots)}),
     committee_root |-> context.committees.root,
     committee_multi_proof |->
        build_multi_proof(context.committees.root, {c.slot_in_epoch : c \in ToSet(slots)})]

\* What a fold requires of each proof it takes, and the balance and slots.
ProofsAgree(proofs, program, accumulator_commitment, committee_root, source, target) ==
    \A p \in ToSet(proofs) :
        /\ verify_child(p, program)
        /\ p.output.accumulator_commitment = accumulator_commitment
        /\ p.output.committee_root = committee_root
        /\ p.output.source = source /\ p.output.target = target

MasksDisjoint(mask, proofs) ==
    \A i \in DOMAIN proofs :
        proofs[i].output.slots_mask
            \cap (mask \cup UNION {proofs[j].output.slots_mask : j \in 1 .. i - 1}) = {}

MaskOf(mask, proofs) == mask \cup UNION {p.output.slots_mask : p \in ToSet(proofs)}

BalanceOf(balance, proofs) ==
    balance + SumOf([i \in DOMAIN proofs |-> proofs[i].output.attesting_balance])

MillerOf(miller, proofs) ==
    FoldLeft(LAMBDA product, p : fp12_mul(product, p.output.miller), miller, proofs)

\* What an epoch's first proof proves of its committees and its accumulator.
committee_link(committee, accumulator_commitment, target) ==
    /\ verify_child(committee, "committee")
    /\ committee.output.accumulator_commitment = accumulator_commitment
    /\ committee.output.target_epoch = target.epoch

epoch_link(diff, accumulator_commitment, target) ==
    /\ verify_child(diff, "epoch_diff")
    /\ diff.output.accumulator_commitment = accumulator_commitment
    /\ diff.output.epoch_2 = target.epoch
    /\ diff.output.epoch_1 + 1 = target.epoch

-----------------------------------------------------------------------------
(* The batch pipeline's folds.                                             *)

\* witness_justification::build
JustificationWitness(context, proofs, previous, committee) ==
    [acc_root |-> context.tree, total |-> context.total,
     accumulator_commitment |-> commitment(context.tree, context.total),
     source |-> context.source, target |-> context.target,
     slot_proofs |-> proofs, previous |-> previous, committee |-> committee]

JustificationRoot(w) ==
    IF w.previous = NoProof THEN w.committee.output.committee_root
    ELSE w.previous.output.committee_root

PreviousMask(w) == IF w.previous = NoProof THEN {} ELSE w.previous.output.slots_mask
PreviousBalance(w) == IF w.previous = NoProof THEN 0 ELSE w.previous.output.attesting_balance

JustificationAccepts(w) ==
    /\ w.slot_proofs # <<>>
    /\ commitment(w.acc_root, w.total) = w.accumulator_commitment
    /\ IF w.previous = NoProof
       THEN committee_link(w.committee, w.accumulator_commitment, w.target)
       ELSE /\ verify_child(w.previous, "justification")
            /\ w.previous.output.accumulator_commitment = w.accumulator_commitment
            /\ w.previous.output.source = w.source /\ w.previous.output.target = w.target
    /\ ProofsAgree(w.slot_proofs, "slot", w.accumulator_commitment, JustificationRoot(w),
                   w.source, w.target)
    /\ MasksDisjoint(PreviousMask(w), w.slot_proofs)

JustificationOutput(w) ==
    LET balance == BalanceOf(PreviousBalance(w), w.slot_proofs)
    IN [accumulator_commitment |-> w.accumulator_commitment,
        committee_root |-> JustificationRoot(w), source |-> w.source, target |-> w.target,
        attesting_balance |-> balance, slots_mask |-> MaskOf(PreviousMask(w), w.slot_proofs),
        justified |-> Justifies(balance, w.total)]

FinalizationAccepts(w) ==
    LET just_e == w.justifications[1].output
        just_e1 == w.justifications[2].output
        diff == w.epoch_diff.output
    IN /\ Len(w.justifications) = 2
       /\ \A i \in 1 .. 2 : /\ verify_child(w.justifications[i], "justification")
                            /\ w.justifications[i].output.justified
       /\ just_e1.target.epoch = just_e.target.epoch + 1
       /\ just_e1.source = just_e.target
       /\ verify_child(w.epoch_diff, "epoch_diff")
       /\ diff.prev_accumulator_commitment = just_e.accumulator_commitment
       /\ diff.accumulator_commitment = just_e1.accumulator_commitment
       /\ diff.epoch_1 = just_e.target.epoch /\ diff.epoch_2 = just_e1.target.epoch
       /\ open_boundary(w.boundary, just_e.target, just_e1.target.root, diff.state_root_1)

FinalizationOutput(w) ==
    LET just_e == w.justifications[1].output
    IN [accumulator_commitment |-> just_e.accumulator_commitment,
        next_accumulator_commitment |-> w.justifications[2].output.accumulator_commitment,
        finalized |-> just_e.target,
        finalized_state_root |-> w.epoch_diff.output.state_root_1]

-----------------------------------------------------------------------------
(* The streamed epoch.                                                     *)

\* The first aggregate opens the epoch with the diff and the committees.
aggregate_witness(context, groups, previous) ==
    [accumulator_commitment |-> commitment(context.tree, context.total),
     source |-> context.source, target |-> context.target,
     groups |-> groups, previous |-> previous,
     epoch_diff |-> IF previous = NoProof THEN context.diff ELSE NoProof,
     committee |-> IF previous = NoProof THEN context.committee ELSE NoProof]

\* What the epoch's chain of folds started from.
AggregateLinks(w) ==
    IF w.previous = NoProof
    THEN [previous_accumulator_commitment |-> w.epoch_diff.output.prev_accumulator_commitment,
          anchor_state_root |-> w.epoch_diff.output.state_root_1,
          committee_root |-> w.committee.output.committee_root]
    ELSE Restrict(w.previous.output, {"previous_accumulator_commitment",
                                      "anchor_state_root", "committee_root"})

AggregateAccepts(w) ==
    /\ w.groups # <<>>
    /\ IF w.previous = NoProof
       THEN /\ epoch_link(w.epoch_diff, w.accumulator_commitment, w.target)
            /\ committee_link(w.committee, w.accumulator_commitment, w.target)
       ELSE /\ verify_child(w.previous, "aggregate")
            /\ w.previous.output.accumulator_commitment = w.accumulator_commitment
            /\ w.previous.output.target_epoch = w.target.epoch
            /\ w.previous.output.checkpoint_digest = checkpoint_digest(w.source, w.target)
    /\ ProofsAgree(w.groups, "group", w.accumulator_commitment,
                   AggregateLinks(w).committee_root, w.source, w.target)
    /\ MasksDisjoint(PreviousMask(w), w.groups)

AggregateOutput(w) ==
    LET links == AggregateLinks(w)
    IN [previous_accumulator_commitment |-> links.previous_accumulator_commitment,
        anchor_state_root |-> links.anchor_state_root,
        committee_root |-> links.committee_root,
        accumulator_commitment |-> w.accumulator_commitment, target_epoch |-> w.target.epoch,
        checkpoint_digest |-> checkpoint_digest(w.source, w.target),
        attesting_balance |-> BalanceOf(PreviousBalance(w), w.groups),
        slots_mask |-> MaskOf(PreviousMask(w), w.groups),
        miller |-> MillerOf(IF w.previous = NoProof THEN One ELSE w.previous.output.miller,
                            w.groups)]

\* PreviousJustification: a batch epoch's justification or a streamed final.
PreviousTarget(proof) ==
    IF proof.program = "justification" THEN proof.output.target
    ELSE proof.output.justified
PreviousCommitment(proof) ==
    IF proof.program = "justification" THEN proof.output.accumulator_commitment
    ELSE proof.output.next_accumulator_commitment
PreviousIsJustified(proof) ==
    IF proof.program = "justification" THEN proof.output.justified ELSE TRUE

\* The final witness opens the epoch itself where nothing was folded.
final_witness(context, aggregate, groups, tail, previous, boundary) ==
    [acc_root |-> context.tree, total |-> context.total,
     accumulator_commitment |-> commitment(context.tree, context.total),
     target |-> context.target, aggregate |-> aggregate, groups |-> groups,
     epoch_diff |-> IF aggregate = NoProof THEN context.diff ELSE NoProof,
     committee |-> IF aggregate = NoProof THEN context.committee ELSE NoProof,
     tail |-> AttestationWitness(context, tail),
     previous_justification |-> previous, boundary |-> boundary]

FinalLinks(w) ==
    AggregateLinks([previous |-> w.aggregate, epoch_diff |-> w.epoch_diff,
                    committee |-> w.committee])

\* The tail is verified against the committees the epoch's links proved.
TailOf(w, source) ==
    [w.tail EXCEPT !.source = source, !.target = w.target,
                   !.committee_root = FinalLinks(w).committee_root]

TailAttested(w, source) ==
    IF w.tail.slots = <<>> THEN [balance |-> 0, mask |-> {}, miller |-> One]
    ELSE Attested(TailOf(w, source))

FinalBalance(w, source) ==
    BalanceOf(IF w.aggregate = NoProof THEN 0 ELSE w.aggregate.output.attesting_balance,
              w.groups)
    + TailAttested(w, source).balance

\* The previous epoch's justification turns this supermajority into a
\* finalization.
FinalizesPrevious(w) ==
    LET previous == w.previous_justification
        finalized == PreviousTarget(previous)
    IN /\ verify_child(previous, "justification") \/ verify_child(previous, "stream_final")
       /\ PreviousIsJustified(previous)
       /\ finalized.epoch + 1 = w.target.epoch
       /\ PreviousCommitment(previous) = FinalLinks(w).previous_accumulator_commitment
       /\ open_boundary(w.boundary, finalized, w.target.root, FinalLinks(w).anchor_state_root)

StreamFinalAccepts(w) ==
    LET source == PreviousTarget(w.previous_justification)
        counted == IF w.aggregate = NoProof THEN {} ELSE w.aggregate.output.slots_mask
        folded == IF w.aggregate = NoProof THEN One ELSE w.aggregate.output.miller
        tail == TailAttested(w, source)
    IN /\ commitment(w.acc_root, w.total) = w.accumulator_commitment
       /\ IF w.aggregate = NoProof
          THEN /\ epoch_link(w.epoch_diff, w.accumulator_commitment, w.target)
               /\ committee_link(w.committee, w.accumulator_commitment, w.target)
          ELSE /\ verify_child(w.aggregate, "aggregate")
               /\ w.aggregate.output.accumulator_commitment = w.accumulator_commitment
               /\ w.aggregate.output.target_epoch = w.target.epoch
               /\ w.aggregate.output.checkpoint_digest = checkpoint_digest(source, w.target)
       /\ ProofsAgree(w.groups, "group", w.accumulator_commitment,
                      FinalLinks(w).committee_root, source, w.target)
       /\ MasksDisjoint(counted, w.groups)
       /\ w.tail.slots # <<>> => AttestAccepts(TailOf(w, source))
       /\ MaskOf(counted, w.groups) \cap tail.mask = {}
       /\ final_exp_is_one(fp12_mul(MillerOf(folded, w.groups), tail.miller))
       /\ Justifies(FinalBalance(w, source), w.total)
       /\ FinalizesPrevious(w)

StreamFinalOutput(w) ==
    [accumulator_commitment |-> FinalLinks(w).previous_accumulator_commitment,
     next_accumulator_commitment |-> w.accumulator_commitment,
     finalized |-> PreviousTarget(w.previous_justification),
     finalized_state_root |-> FinalLinks(w).anchor_state_root,
     justified |-> w.target]

\* run_native: the groups, the folds in order, then the final proof's witness.
StreamGroups(context, units, plan) ==
    [g \in DOMAIN plan.groups |->
        AttestationWitness(context, [i \in DOMAIN InOrder(plan.groups[g]) |->
                                        units[InOrder(plan.groups[g])[i]]])]

FoldWitness(context, groups, members, previous) ==
    aggregate_witness(context, [i \in 1 .. Cardinality(members) |->
                                   groups[InOrder(members)[i]]], previous)
=============================================================================
