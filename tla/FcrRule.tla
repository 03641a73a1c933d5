------------------------------ MODULE FcrRule ------------------------------
(***************************************************************************)
(* One transition of the fast confirmation rule, proven: the witness that  *)
(* gen_fcr_rule_witness takes out of a node, replaying the rule up to the  *)
(* slot before, and the guest that runs the rule over it (fcr-rule-guest). *)
(* The rule is a crate of the node's own and is external here.             *)
(*                                                                         *)
(* A node is what it answers: nodes (its fork choice, by ascending slot),  *)
(* heard[slot] (the attestations of the block there), registry[epoch],     *)
(* seed[epoch] and committees[epoch].  sees[slot] is what its own rule is  *)
(* given there, which it answers nobody.                                   *)
(***************************************************************************)
EXTENDS FastConfirmation

NoVote == -1
NoRegistry == [epoch |-> -1]
NoCheckpoint == [epoch |-> 0, root |-> -1]

-----------------------------------------------------------------------------
(* The rule.  Its state is the block confirmed, the checkpoints observed   *)
(* with the balances at each, and the balances of the head.                *)

\* A block and what it descends from, of those in the store.
Ancestry(store) ==
    LET of[root \in DOMAIN store] ==
            {root} \cup (IF store[root].parent \in DOMAIN store
                         THEN of[store[root].parent] ELSE {})
    IN of

\* on_fast_confirmation, what moves with the slot.
MovedTo(rule, view) ==
    LET moved == [rule EXCEPT
            !.previous_slot_head = rule.current_slot_head,
            !.current_slot_head = view.head,
            !.head_balances = IF view.head_balances = NoRegistry THEN @ ELSE view.head_balances,
            !.greatest_unrealized = IF (view.slot + 1) % SlotCount = 0
                                    THEN view.unrealized ELSE @,
            !.last_update_slot = view.slot]
    IN IF view.slot % SlotCount # 0 THEN moved
       ELSE [moved EXCEPT
               !.previous_observed = rule.current_observed,
               !.current_observed.checkpoint = rule.greatest_unrealized,
               !.current_observed.balances = IF view.checkpoint_balances = NoRegistry
                                             THEN @ ELSE view.checkpoint_balances]

\* The balance of the latest votes for a block, of those assigned since its
\* parent.
RuleSupport(view, balances, block) ==
    LET from == view.store[view.store[block].parent].slot + 1
        above == {root \in DOMAIN view.store : block \in Ancestry(view.store)[root]}
    IN SumOf([v \in {x \in DOMAIN view.votes :
                       /\ ~balances.slashed[x] /\ view.votes[x].root \in above
                       /\ \E e \in EpochOf(from) .. EpochOf(view.slot - 1) :
                             /\ x \in DOMAIN view.assigned[e]
                             /\ view.assigned[e][x] \in from .. view.slot - 1} |->
                 balances.balances[v]])

\* The last block, from the one confirmed or finalized, that every block up to
\* it has the support for.
LatestConfirmed(view, rule) ==
    LET chain == Ancestry(view.store)[view.head]
        start == IF rule.confirmed \in chain THEN rule.confirmed ELSE view.finalized.root
        after == {b \in chain : view.store[b].slot > view.store[start].slot}
        total == rule.head_balances.total
        supported(b) ==
            LET maximum == estimate_committee_weight_between_slots(
                               total, view.store[view.store[b].parent].slot + 1, view.slot - 1)
            IN is_one_confirmed(RuleSupport(view, rule.head_balances, b),
                   safety_threshold(maximum, compute_proposer_score(total),
                                    max_adversarial_weight(maximum), 0))
    IN Max({start} \cup {b \in after : \A c \in after : c <= b => supported(c)})

on_fast_confirmation(rule, view) ==
    LET moved == MovedTo(rule, view)
    IN [moved EXCEPT !.confirmed = LatestConfirmed(view, moved)]

\* The rule at its start.
RuleAt(finalized, balances) ==
    LET observed == [checkpoint |-> finalized, balances |-> balances]
    IN [confirmed |-> finalized.root, previous_observed |-> observed,
        current_observed |-> observed, greatest_unrealized |-> finalized,
        previous_slot_head |-> finalized.root, current_slot_head |-> finalized.root,
        head_balances |-> balances, last_update_slot |-> -1]

-----------------------------------------------------------------------------
(* The guest.  Registries are named by their index in the witness.         *)

\* Witness::registry: the first one with a later one's changes.
registry_in(w, idx) ==
    LET r == w.registries[idx]
    IN [epoch |-> r.epoch, total |-> r.total,
        balances |-> [v \in DOMAIN w.balances |->
            IF v \in DOMAIN r.balance_changes THEN r.balance_changes[v] ELSE w.balances[v]],
        slashed |-> [v \in DOMAIN w.slashed |-> (v \in r.slashed_toggles) # w.slashed[v]]]

active_indices(w, idx) ==
    LET balances == registry_in(w, idx).balances
    IN InOrder({v \in DOMAIN balances : balances[v] > 0})

\* 0 where the witness has none: the guest panics.
registry_by_epoch(w, epoch) ==
    SelectInSeq(w.registries, LAMBDA r : r.epoch = epoch)

\* The parent is an index into the blocks.
Store(blocks) ==
    [root \in {b.root : b \in ToSet(blocks)} |->
        LET b == CHOOSE x \in ToSet(blocks) : x.root = root
        IN [slot |-> b.slot,
            parent |-> IF b.parent = 0 THEN -1 ELSE blocks[b.parent].root]]

\* A vote's root is an index into the blocks and the other roots.
VoteView(w) ==
    LET table == [i \in DOMAIN w.blocks |-> w.blocks[i].root] \o w.extra_roots
    IN [v \in DOMAIN w.vote_roots |->
          [root |-> IF w.vote_roots[v] = NoVote THEN NoVote ELSE table[w.vote_roots[v]],
           slot |-> w.vote_slots[v]]]

\* LazyAssignments: the active set an epoch's seed names, shuffled.
LazyAssignments(w) ==
    [epoch \in {s.epoch : s \in ToSet(w.epoch_seeds)} |->
        LET s == CHOOSE x \in ToSet(w.epoch_seeds) : x.epoch = epoch
            table == assignment_table(active_indices(w, s.registry), s.seed)
        IN [v \in DOMAIN table |-> (epoch * SlotCount) + table[v]]]

Named(w, idx) == IF idx = 0 THEN NoRegistry ELSE registry_in(w, idx)

\* run, the rule rebuilt from the state, and what it is shown.
from_parts(w) ==
    LET st == w.state
        at(checkpoint, idx) == [checkpoint |-> checkpoint, balances |-> registry_in(w, idx)]
    IN [confirmed |-> st.confirmed,
        previous_observed |-> at(st.previous_observed, st.previous_observed_registry),
        current_observed |-> at(st.current_observed, st.current_observed_registry),
        greatest_unrealized |-> st.greatest_unrealized,
        previous_slot_head |-> st.previous_slot_head,
        current_slot_head |-> st.current_slot_head,
        head_balances |-> registry_in(w, st.head_balance_registry),
        last_update_slot |-> st.last_update_slot]

WitnessView(w) ==
    [slot |-> w.slot, head |-> w.head, finalized |-> w.finalized,
     unrealized |-> w.unrealized, store |-> Store(w.blocks), votes |-> VoteView(w),
     assigned |-> LazyAssignments(w),
     head_balances |-> Named(w, w.head_balance_update),
     checkpoint_balances |-> Named(w, w.checkpoint_balance_update)]

\* run, the state left behind.
PostState(w, rule) ==
    [confirmed |-> rule.confirmed,
     previous_observed |-> rule.previous_observed.checkpoint,
     previous_observed_registry |-> registry_by_epoch(w, rule.previous_observed.balances.epoch),
     current_observed |-> rule.current_observed.checkpoint,
     current_observed_registry |-> registry_by_epoch(w, rule.current_observed.balances.epoch),
     greatest_unrealized |-> rule.greatest_unrealized,
     previous_slot_head |-> rule.previous_slot_head,
     current_slot_head |-> rule.current_slot_head,
     head_balance_registry |-> registry_by_epoch(w, rule.head_balances.epoch),
     last_update_slot |-> rule.last_update_slot]

run(w) == PostState(w, on_fast_confirmation(from_parts(w), WitnessView(w)))

-----------------------------------------------------------------------------
(* The generator.                                                          *)

\* Every validator's balance, and who of them is slashed.
registry_at(validators, epoch, n) ==
    LET known == DOMAIN validators
    IN [epoch |-> epoch, total |-> TotalActive(validators, epoch),
        balances |-> [v \in Indices(n) |-> IF v \in known
                         THEN active_effective_balance(validators[v], epoch) ELSE 0],
        slashed |-> [v \in Indices(n) |-> v \in known /\ validators[v].slashed]]

\* Whoever an attestation's bits name, of the node's committees.
attesters(att, committees) ==
    LET table == committees[EpochOf(att.data.slot)][att.data.slot % SlotCount]
    IN att.bits \cap UNION {table[c] : c \in att.committees \cap DOMAIN table}

Later(best, epoch, root) == IF epoch > best.epoch THEN [epoch |-> epoch, root |-> root] ELSE best

\* The store's checkpoints as of a slot, pulled up at the epoch's start.
checkpoints_at(nodes, t) ==
    LET start == EpochOf(t) * SlotCount
    IN FoldLeft(LAMBDA best, n :
            LET realized == Later(best.finalized, n.finalized.epoch, n.finalized.root)
            IN [finalized |-> IF n.slot < start
                              THEN Later(realized, n.unrealized_finalized.epoch,
                                         n.unrealized_finalized.root)
                              ELSE realized,
                unrealized |-> Later(best.unrealized, n.unrealized_justified.epoch,
                                     n.unrealized_justified.root)],
            [finalized |-> NoCheckpoint, unrealized |-> NoCheckpoint],
            SelectSeq(nodes, LAMBDA n : n.slot <= t))

\* Parents before children.
Blocks(nodes) ==
    [i \in DOMAIN nodes |->
        [root |-> nodes[i].root, slot |-> nodes[i].slot,
         parent |-> SelectInSeq(nodes, LAMBDA n : n.root = nodes[i].parent)]]

\* The last canonical block at or before a slot, the chain being the target's
\* head's.
head_at(nodes, t) == Max({n.root : n \in {x \in ToSet(nodes) : x.slot <= t}})

\* Each registry as its changes from the first.
RegistryHeaders(registries) ==
    LET base == registries[1]
        changed(r) == {v \in DOMAIN base.balances : r.balances[v] # base.balances[v]}
    IN [i \in DOMAIN registries |->
          [epoch |-> registries[i].epoch, total |-> registries[i].total,
           balance_changes |-> Restrict(registries[i].balances, changed(registries[i])),
           slashed_toggles |-> {v \in DOMAIN base.slashed :
                                  registries[i].slashed[v] # base.slashed[v]}]]

\* process_attestation: the newest slot wins, the first of a tie stays.
ingest_votes(votes, attestations, blocks, committees) ==
    FoldLeft(LAMBDA held, att :
        LET known == SelectInSeq(blocks, LAMBDA b : b.root = att.data.head)
            gone == SelectInSeq(held.extra, LAMBDA r : r = att.data.head)
            name == IF known # 0 THEN known
                    ELSE IF gone # 0 THEN Len(blocks) + gone
                    ELSE Len(blocks) + Len(held.extra) + 1
            moved == {v \in attesters(att, committees) :
                        \/ att.data.slot > held.slots[v]
                        \/ held.roots[v] = NoVote /\ held.slots[v] = 0}
        IN [roots |-> [v \in DOMAIN held.roots |-> IF v \in moved THEN name ELSE held.roots[v]],
            slots |-> [v \in DOMAIN held.slots |->
                         IF v \in moved THEN att.data.slot ELSE held.slots[v]],
            extra |-> IF known = 0 /\ gone = 0 THEN Append(held.extra, att.data.head)
                      ELSE held.extra],
        votes, attestations)

\* What the generator has of a node before it replays.
Fetched(node, target) ==
    LET finalized == checkpoints_at(node.nodes, target).finalized
        epochs == [i \in 1 .. (EpochOf(target) - finalized.epoch) + 1 |->
                      (finalized.epoch + i) - 1]
        n == Max({0} \cup UNION {{v + 1 : v \in DOMAIN node.registry[e]} : e \in ToSet(epochs)})
        registries == [i \in DOMAIN epochs |->
                          registry_at(node.registry[epochs[i]], epochs[i], n)]
    IN [node |-> node, target |-> target, finalized |-> finalized, count |-> n,
        registries |-> registries,
        first_slot |-> finalized.epoch * SlotCount,
        blocks |-> Blocks(node.nodes),
        seeds |-> [i \in DOMAIN epochs |->
                     [epoch |-> epochs[i], seed |-> node.seed[epochs[i]], registry |-> i]]]

reg_idx(has, epoch) == SelectInSeq(has.registries, LAMBDA r : r.epoch = epoch)

StartState(has) ==
    [confirmed |-> has.finalized.root,
     previous_observed |-> has.finalized, previous_observed_registry |-> 1,
     current_observed |-> has.finalized, current_observed_registry |-> 1,
     greatest_unrealized |-> has.finalized,
     previous_slot_head |-> has.finalized.root, current_slot_head |-> has.finalized.root,
     head_balance_registry |-> 1, last_update_slot |-> -1]

\* Whether a slot moves the checkpoint's balances.
MovesCheckpoint(state, t) ==
    t % SlotCount = 0 /\ state.greatest_unrealized # state.current_observed

header_for(has, t, state, votes) ==
    LET at == checkpoints_at(has.node.nodes, t)
    IN [slot |-> t, head |-> head_at(has.node.nodes, t),
        finalized |-> at.finalized, unrealized |-> at.unrealized,
        state |-> state, blocks |-> has.blocks, extra_roots |-> votes.extra,
        vote_roots |-> votes.roots, vote_slots |-> votes.slots,
        balances |-> has.registries[1].balances, slashed |-> has.registries[1].slashed,
        registries |-> RegistryHeaders(has.registries), epoch_seeds |-> has.seeds,
        head_balance_update |->
            IF EpochOf(t) # has.registries[state.head_balance_registry].epoch
            THEN reg_idx(has, EpochOf(t)) ELSE 0,
        checkpoint_balance_update |->
            IF MovesCheckpoint(state, t) THEN reg_idx(has, state.greatest_unrealized.epoch)
            ELSE 0]

\* The generator panics on a checkpoint older than the epochs it fetched.
Served(has, state, t) ==
    MovesCheckpoint(state, t) => reg_idx(has, state.greatest_unrealized.epoch) # 0

\* From an epoch before the finalized one, as blocks carry earlier votes.
VotesBefore(has) ==
    FoldLeft(LAMBDA votes, slot :
                ingest_votes(votes, has.node.heard[slot], has.blocks, has.node.committees),
             [roots |-> [v \in Indices(has.count) |-> NoVote],
              slots |-> [v \in Indices(has.count) |-> 0], extra |-> <<>>],
             [i \in 1 .. SlotCount |-> (has.first_slot - SlotCount) + i - 1])

\* The node's committees of the epoch are the ones the guest derives.
AssignmentsMatch(has, w) ==
    LET epoch == EpochOf(has.target)
        table == LazyAssignments(w)[epoch]
        committees == has.node.committees[epoch]
    IN \A s \in DOMAIN committees : \A c \in DOMAIN committees[s] :
          \A v \in committees[s][c] : v \in DOMAIN table /\ table[v] = (epoch * SlotCount) + s

-----------------------------------------------------------------------------
(* What the node's own rule would see and say, with no witness in between. *)

LatestVote(node, v, from, t) ==
    LET heard == {att \in UNION {ToSet(node.heard[s]) : s \in from .. t} :
                     v \in attesters(att, node.committees)}
        last == CHOOSE att \in heard : \A b \in heard : b.data.slot <= att.data.slot
    IN IF heard = {} THEN [root |-> NoVote, slot |-> 0]
       ELSE [root |-> last.data.head, slot |-> last.data.slot]

NodeView(has, t, rule) ==
    LET node == has.node
        balances(epoch) == registry_at(node.registry[epoch], epoch, has.count)
    IN [slot |-> t, head |-> node.sees[t].head,
        finalized |-> node.sees[t].finalized, unrealized |-> node.sees[t].unrealized,
        store |-> [root \in {b.root : b \in ToSet(node.nodes)} |->
                     LET b == CHOOSE x \in ToSet(node.nodes) : x.root = root
                     IN [slot |-> b.slot, parent |-> b.parent]],
        votes |-> [v \in Indices(has.count) |->
                     LatestVote(node, v, has.first_slot - SlotCount, t)],
        assigned |-> [e \in DOMAIN node.committees |->
            LET table == node.committees[e]
            IN [v \in UNION {UNION {table[s][c] : c \in DOMAIN table[s]} : s \in DOMAIN table} |->
                 (e * SlotCount) + CHOOSE s \in DOMAIN table :
                                      \E c \in DOMAIN table[s] : v \in table[s][c]]],
        head_balances |-> balances(EpochOf(t)),
        checkpoint_balances |-> IF rule.greatest_unrealized = rule.current_observed.checkpoint
                                THEN NoRegistry ELSE balances(rule.greatest_unrealized.epoch)]

\* The guest's rule is shown what the node's own is, and ends where it does.
RuleAccepts(w, view, after) ==
    LET shown == WitnessView(w)
    IN /\ \A part \in {"head", "finalized", "unrealized", "votes"} : shown[part] = view[part]
       /\ from_parts([w EXCEPT !.state = run(w)]) = after
=============================================================================
