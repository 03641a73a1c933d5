-------------------------- MODULE FastConfirmation --------------------------
(***************************************************************************)
(* Confirming a block from its votes: the batch proof over a run of slots  *)
(* (fcr-proof-guest), the join of batches and the verdict a verifier draws *)
(* from them (fcr-verifier).                                               *)
(*                                                                         *)
(* A head is named by its slot, which is its block's root; the chain has   *)
(* one block a slot at most.  Percentages and halves round down.           *)
(***************************************************************************)
EXTENDS ProofGuests

CONSTANTS
    ByzantineThreshold,  \* Params::byzantine_threshold, in percent
    ProposerScoreBoost   \* Params::proposer_score_boost, in percent

ASSUME FcrAssumption == {ByzantineThreshold, ProposerScoreBoost} \subseteq 0 .. 100

NoHeader == [slot |-> -1]

Saturating(a, b) == IF a > b THEN a - b ELSE 0

-----------------------------------------------------------------------------
(* The rule's arithmetic, between slots of one epoch.                      *)

estimate_committee_weight_between_slots(total, start, end) ==
    (total \div SlotCount) * Saturating(end + 1, start)

compute_proposer_score(total) == ((total \div SlotCount) * ProposerScoreBoost) \div 100

max_adversarial_weight(maximum_support) == (maximum_support * ByzantineThreshold) \div 100

safety_threshold(maximum_support, proposer_score, adversarial, discount) ==
    ((maximum_support + proposer_score + (2 * adversarial)) - discount) \div 2

is_one_confirmed(support, threshold) == support > threshold

-----------------------------------------------------------------------------
(* The batch.                                                              *)

\* The witness over a run of complements; headers[slot] is what the node has.
FcrBatchWitness(context, complements, headers, parent_head) ==
    LET tree == AttestationWitness(context, complements)
    IN [acc_root |-> tree.acc_root, total |-> tree.total,
        accumulator_commitment |-> tree.accumulator_commitment,
        committee_root |-> tree.committee_root,
        acc_multi_proof |-> tree.acc_multi_proof,
        committee_multi_proof |-> tree.committee_multi_proof,
        parent_head_root |-> parent_head, parent_head_slot |-> parent_head,
        current_slot |-> Last(complements).slot + 1,
        slots |-> [i \in DOMAIN complements |->
                     [complement |-> complements[i],
                      head_header |-> headers[complements[i].slot]]]]

\* The head each slot's votes are counted against.
Heads(w) ==
    LET head[i \in 0 .. Len(w.slots)] ==
            IF i = 0 THEN [root |-> w.parent_head_root, slot |-> w.parent_head_slot]
            ELSE LET header == w.slots[i].head_header
                 IN IF header = NoHeader THEN head[i - 1]
                    ELSE [root |-> block_header_root(header), slot |-> header.slot]
    IN head

\* Mutant: a minority's balance stays, as it does for finality.
CountMinority(complement) == Support(complement)

\* Unlike finality, a vote for another head is no support for this one.
Counted(complement) ==
    Support(complement)
    - SumOf([m \in complement.secondary |-> SumOf(m.attesting_validators)])

\* Votes for the canonical head, of the slots with a block or of those without.
SupportWhere(w, proposed) ==
    SumOf([i \in {k \in DOMAIN w.slots :
                    /\ w.slots[k].complement.primary.data.head = Heads(w)[k].root
                    /\ proposed <=> w.slots[k].head_header # NoHeader} |->
             Counted(w.slots[i].complement)])

FcrBatchAccepts(w) ==
    LET slots == w.slots
        complements == [i \in DOMAIN slots |-> slots[i].complement]
        opened == UNION {OpenedIn(complements[i]) : i \in DOMAIN slots}
        leaves == Leaves(opened)
        committees == [s \in {complements[i].slot_in_epoch : i \in DOMAIN slots} |->
                         (CHOOSE c \in ToSet(complements) : c.slot_in_epoch = s).committee]
        miller == FoldLeft(LAMBDA product, c : fp12_mul(product, SlotMiller(c)), One, complements)
    IN /\ commitment(w.acc_root, w.total) = w.accumulator_commitment
       /\ slots # <<>>
       /\ \A i \in DOMAIN slots :
             LET c == complements[i]
                 header == slots[i].head_header
             IN /\ i > 1 => c.slot_in_epoch = complements[i - 1].slot_in_epoch + 1
                /\ header # NoHeader =>
                      /\ header.parent_root = Heads(w)[i - 1].root
                      /\ header.slot > Heads(w)[i - 1].slot
                      /\ header.slot = c.primary.data.slot
                /\ c.primary.data.slot % SlotCount = c.slot_in_epoch
                /\ \A m \in c.secondary : m.attesting_validators # <<>>
                /\ PrimaryKey(c) # Identity
                /\ Counted(c) >= 0
       /\ FoldLeft(LAMBDA sum, c : sum + NamedTimes(c), 0, complements)
             = Cardinality(DOMAIN leaves)
       /\ IF opened = {} THEN w.acc_multi_proof.indices = {}
          ELSE batch_root(leaves, w.acc_multi_proof) = w.acc_root
       /\ batch_root(committees, w.committee_multi_proof) = w.committee_root
       /\ final_exp_is_one(miller)

FcrBatchOutput(w) ==
    LET maximum == estimate_committee_weight_between_slots(
                       w.total, w.parent_head_slot + 1, w.current_slot - 1)
        adversarial == max_adversarial_weight(maximum)
        support == SupportWhere(w, TRUE)
        empty_slot_support == SupportWhere(w, FALSE)
        threshold == safety_threshold(maximum, compute_proposer_score(w.total), adversarial,
                                      Saturating(empty_slot_support, adversarial))
        head == Heads(w)[Len(w.slots)]
    IN [accumulator_commitment |-> w.accumulator_commitment,
        committee_root |-> w.committee_root, total_active_balance |-> w.total,
        parent_head_root |-> w.parent_head_root,
        head_root |-> head.root, head_slot |-> head.slot, support |-> support,
        first_slot |-> w.slots[1].complement.primary.data.slot,
        slot_count |-> Len(w.slots), threshold |-> threshold,
        empty_slot_support |-> empty_slot_support,
        confirmed |-> is_one_confirmed(support, threshold)]

-----------------------------------------------------------------------------
(* The verifier.                                                           *)

NoWindow == [first_slot |-> -1]

FirstWindow(batch) ==
    [accumulator_commitment |-> batch.accumulator_commitment,
     committee_root |-> batch.committee_root,
     total_active_balance |-> batch.total_active_balance,
     first_slot |-> batch.first_slot,
     last_slot |-> (batch.first_slot + batch.slot_count) - 1,
     parent_head_root |-> batch.parent_head_root,
     head_root |-> batch.head_root, head_slot |-> batch.head_slot,
     support |-> batch.support]

\* The run of batches joined, or NoWindow where one does not join the last.
accumulate(batches) ==
    FoldLeft(LAMBDA window, batch :
               IF \/ window = NoWindow
                  \/ batch.accumulator_commitment # window.accumulator_commitment
                  \/ batch.committee_root # window.committee_root
                  \/ batch.total_active_balance # window.total_active_balance
                  \/ batch.parent_head_root # window.head_root
                  \/ batch.first_slot # window.last_slot + 1
               THEN NoWindow
               ELSE [window EXCEPT !.support = @ + batch.support,
                                   !.last_slot = (batch.first_slot + batch.slot_count) - 1,
                                   !.head_root = batch.head_root,
                                   !.head_slot = batch.head_slot],
             FirstWindow(batches[1]), Tail(batches))

WindowThreshold(window, parent_slot, current_slot) ==
    LET maximum == estimate_committee_weight_between_slots(
                       window.total_active_balance, parent_slot + 1, current_slot - 1)
    IN safety_threshold(maximum, compute_proposer_score(window.total_active_balance),
                        max_adversarial_weight(maximum), 0)

\* An assignment is the root of a committee proof that proved the shuffle.
is_confirmed(window, assignment, parent_slot, current_slot) ==
    /\ assignment.root = window.committee_root
    /\ assignment.shuffle_proven
    /\ is_one_confirmed(window.support, WindowThreshold(window, parent_slot, current_slot))

from_committee_proof(output) == [root |-> output.committee_root, shuffle_proven |-> TRUE]
=============================================================================
