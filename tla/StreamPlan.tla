---------------------------- MODULE StreamPlan ----------------------------
(***************************************************************************)
(* The plan of a streamed epoch (streaming.rs): which slots go into which  *)
(* group proof, which groups are folded while the epoch still runs, which  *)
(* ones and which slots the final proof takes itself, with every proof on  *)
(* a lane and on the clock.                                                *)
(*                                                                         *)
(* Time is whole ticks.  What a stage costs is linear in what it opens,    *)
(* pairs and verifies, in a model's prices.                                *)
(***************************************************************************)
EXTENDS Complements

CONSTANTS
    Prover,          \* ProverModel: the price of each kind of work
    SecondsPerSlot   \* ticks between blocks

ASSUME ProverAssumption ==
    /\ DOMAIN Prover = {"stage_floor", "per_validator", "per_member", "acc_node",
                        "message", "fp12", "final_exp", "wrap", "recursion_verify",
                        "first_child", "acc_depth", "committee_depth"}
    /\ \A price \in DOMAIN Prover : Prover[price] \in Nat
    /\ SecondsPerSlot \in Nat \ {0}

CeilDiv(a, b) == (a + b - 1) \div b
Largest(a, b) == IF a > b THEN a ELSE b

-----------------------------------------------------------------------------
(* ProverModel.                                                            *)

\* Internal nodes that scattered leaves touch, every path apart.
scattered_nodes(leaves, depth) ==
    SumOf([k \in 1 .. depth |-> Min({leaves, 2^(depth - k)})])

contiguous_nodes(leaves, depth) == SumOf([k \in 1 .. depth |-> CeilDiv(leaves, 2^k)])

open_scattered(leaves, depth) ==
    (leaves * Prover.per_validator) + (scattered_nodes(leaves, depth) * Prover.acc_node)

named_s(named) == open_scattered(named, Prover.acc_depth)

open_contiguous(leaves, depth) ==
    (leaves * Prover.per_member) + (contiguous_nodes(leaves, depth) * Prover.acc_node)

committee_tree == (2^(Prover.committee_depth + 1) - 1) * Prover.acc_node

complement_s(named, slots, messages) ==
    named_s(named) + open_scattered(slots, Prover.committee_depth)
    + (messages * Prover.message)

group_s(named, slots, messages) ==
    Prover.stage_floor + complement_s(named, slots, messages)

\* The fold that opens an epoch verifies the diff and the committee proof.
fold_s(groups, opening) ==
    Prover.stage_floor + Prover.first_child
    + ((groups + (IF opening THEN 2 ELSE 1)) * Prover.recursion_verify)
    + (groups * Prover.fp12)

final_s(named, slots, messages, absorbed, folded) ==
    Prover.stage_floor + Prover.final_exp + Prover.first_child
    + (IF slots > 0 THEN complement_s(named, slots, messages) ELSE 0)
    + ((absorbed + (IF folded THEN 2 ELSE 3)) * Prover.recursion_verify)
    + ((absorbed + 1) * Prover.fp12)

committee_chunk_s(validators, chunks) ==
    Prover.stage_floor + open_contiguous(CeilDiv(validators, chunks), Prover.acc_depth)
    + (IF chunks = 1 THEN committee_tree ELSE 0)

committee_fold_s(chunks) ==
    Prover.stage_floor + Prover.first_child
    + ((chunks + 1) * Prover.recursion_verify) + committee_tree

-----------------------------------------------------------------------------
(* StreamPolicy: the threshold, a lane budget, how lanes are pooled, and   *)
(* the committee proof owed to the next epoch.                             *)

Policies == [lanes : Nat, pool : {"fungible", "specialised"},
             numerator : Nat, denominator : Nat \ {0},
             validators : Nat, committee_chunks : Nat \ {0}]

target_balance(policy, total) == CeilDiv(total * policy.numerator, policy.denominator)
quorum_balance(total) == CeilDiv(total * 2, 3)

\* The lanes a stage may run on, the ones it prefers first.
eligible(policy, stage) ==
    LET last == Largest(policy.lanes - 1, 0)
        fold == Largest(last - 1, 0)
        committee == stage \in {"committee", "committee_fold"}
        lanes == IF policy.pool = "fungible" THEN Upto(policy.lanes)
                 ELSE IF stage \in {"group", "committee"} THEN Upto(Largest(fold, 1))
                 ELSE IF stage \in {"fold", "committee_fold"} THEN <<fold>>
                 ELSE <<last>>
    IN IF committee THEN Reverse(lanes) ELSE lanes

-----------------------------------------------------------------------------
(* Lanes: each one's busy windows, in order of their starts.               *)

earliest(windows, release, duration) ==
    FoldLeft(LAMBDA start, w :
                IF w[1] < start + duration /\ start < w[2] THEN w[2] ELSE start,
             release, windows)

\* The lane that could start it first, the first listed among equals.
LanePeek(lanes, listed, release, duration) ==
    LET start(i) == earliest(lanes[listed[i]], release, duration)
        best == CHOOSE i \in DOMAIN listed : \A j \in DOMAIN listed :
                    start(i) < start(j) \/ (start(i) = start(j) /\ i <= j)
    IN [lane |-> listed[best], start |-> start(best)]

LaneCommit(lanes, lane, start, duration) ==
    [lanes EXCEPT ![lane] =
        SeqAt(@, {i \in DOMAIN @ : @[i][1] < start}) \o <<<<start, start + duration>>>>
            \o SeqAt(@, {i \in DOMAIN @ : @[i][1] >= start})]

PlaceAt(held, at, stage, covers, duration) ==
    [lanes |-> LaneCommit(held.lanes, at.lane, at.start, duration),
     proofs |-> Append(held.proofs,
        [stage |-> stage, covers |-> covers, lane |-> at.lane,
         start |-> at.start, end |-> at.start + duration])]

\* Place a stage's next proof: covers is what it takes in, for its kind.
Place(held, policy, stage, covers, release, duration) ==
    PlaceAt(held, LanePeek(held.lanes, eligible(policy, stage), release, duration),
            stage, covers, duration)

EndOf(held) == Last(held.proofs).end

-----------------------------------------------------------------------------
(* Units are complements in slot order; a group is the units in it.        *)

arrival(units, i) == (units[i].slot - units[1].slot) * SecondsPerSlot

NamedBy(units, members) == SumOf([i \in members |-> Cardinality(units[i].named)])
MessagesOf(units, members) ==
    SumOf([i \in members |-> 1 + Cardinality(units[i].secondary)])

GroupCost(units, members) ==
    group_s(NamedBy(units, members), Cardinality(members), MessagesOf(units, members))

LastOf(members) == CHOOSE i \in members : \A j \in members : j <= i

\* States nothing earlier in order of prover time beats on every lane.
prune(states) ==
    LET byPrice == StableSort(states, [i \in DOMAIN states |-> states[i].prover])
        beats(a, b) == \A k \in DOMAIN a.ends : a.ends[k] <= b.ends[k]
    IN FoldLeft(LAMBDA kept, state :
                  IF \E other \in ToSet(kept) : beats(other, state)
                  THEN kept ELSE Append(kept, state), <<>>, byPrice)

\* Extend a state cut up to unit at by the group of units at + 1 .. end.
CutTo(units, state, at, end) ==
    LET members == at + 1 .. end
        duration == GroupCost(units, members)
        first == Largest(arrival(units, end), Head(state.ends)) + duration
        ends == <<first>> \o Tail(state.ends)
    IN [ends |-> StableSort(ends, ends), prover |-> state.prover + duration,
        groups |-> Append(state.groups, members)]

\* The partitions of units 1 .. head worth simulating, cut for width lanes.
cuts(units, head, width) ==
    LET start == [ends |-> [l \in 1 .. width |-> 0], prover |-> 0, groups |-> <<>>]
        level[end \in 0 .. head] ==
            IF end = 0 THEN <<start>>
            ELSE FlattenSeq([at \in 1 .. end |->
                    LET states == prune(level[at - 1])
                    IN [k \in DOMAIN states |-> CutTo(units, states[k], at - 1, end)]])
        found == prune(level[head])
    IN [k \in DOMAIN found |-> found[k].groups]

search(units, head, policy) ==
    IF head = 0 THEN <<<<>>>>
    ELSE FlattenSeq([width \in 1 .. Len(eligible(policy, "group")) |->
                        cuts(units, head, width)])

-----------------------------------------------------------------------------
(* simulate: every proof of one partition, placed in the code's order.     *)

PlaceGroups(units, groups, policy) ==
    FoldLeft(LAMBDA held, g :
                Place(held, policy, "group", {g},
                      arrival(units, LastOf(groups[g])), GroupCost(units, groups[g])),
             [lanes |-> [l \in Indices(policy.lanes) |-> <<>>], proofs |-> <<>>],
             [g \in DOMAIN groups |-> g])

\* The groups come first: group g is proof g.
GroupEnd(held, g) == held.proofs[g].end

Folded(held, placed, covers, deadline) ==
    IF EndOf(placed) > deadline THEN [held EXCEPT !.late = TRUE]
    ELSE [held EXCEPT !.lanes = placed.lanes, !.proofs = placed.proofs,
                      !.cursor = @ + Cardinality(covers), !.chainFree = EndOf(placed),
                      !.folds = Append(@, covers)]

\* One fold over everything finished when it may start.
PlaceFold(held, policy, ready, deadline) ==
    LET covers == {held.order[i] : i \in {k \in held.cursor .. Len(held.order) :
                                            GroupEnd(held, held.order[k]) <= ready}}
    IN Folded(held,
              Place([lanes |-> held.lanes, proofs |-> held.proofs], policy, "fold", covers,
                    ready, fold_s(Cardinality(covers), held.folds = <<>>)),
              covers, deadline)

\* Fold what has finished since the last fold, until one would land too late.
PlaceFolds(placed, policy, deadline) ==
    FoldLeft(LAMBDA held, round :
                IF held.late \/ held.cursor > Len(held.order) THEN held
                ELSE PlaceFold(held, policy,
                               Largest(GroupEnd(held, held.order[held.cursor]), held.chainFree),
                               deadline),
             [lanes |-> placed.lanes, proofs |-> placed.proofs, cursor |-> 1,
              chainFree |-> 0, late |-> FALSE, folds |-> <<>>,
              order |-> StableOrder([g \in DOMAIN placed.proofs |-> GroupEnd(placed, g)])],
             placed.proofs)

\* Mutant: the final proof does not wait for the groups it absorbs.
ReleaseAtDeadline(deadline, chainFree, ends) == Max({deadline, chainFree})

FinalRelease(deadline, chainFree, ends) == Max({deadline, chainFree} \cup ends)

\* The final proof, and its wrap right after it on its lane.
Wrapped(held, last) ==
    [held EXCEPT !.lanes = LaneCommit(@, last.lane, last.end, Prover.wrap),
                 !.proofs = Append(@, [stage |-> "wrap", covers |-> {}, lane |-> last.lane,
                                       start |-> last.end, end |-> last.end + Prover.wrap])]

PlaceFinal(held, units, tail, policy, deadline) ==
    LET absorbed == ToSet(SubSeq(held.order, held.cursor, Len(held.order)))
        placed == Place([lanes |-> held.lanes, proofs |-> held.proofs], policy, "final", absorbed,
                        FinalRelease(deadline, held.chainFree,
                                     {GroupEnd(held, g) : g \in absorbed}),
                        final_s(NamedBy(units, tail), Cardinality(tail), MessagesOf(units, tail),
                                Cardinality(absorbed), held.folds # <<>>))
        wrapped == Wrapped(placed, Last(placed.proofs))
    IN [lanes |-> wrapped.lanes, proofs |-> wrapped.proofs,
        folds |-> held.folds, absorbed |-> absorbed]

Committed(chunked, policy, ready) ==
    IF policy.committee_chunks = 1 THEN chunked
    ELSE Place(chunked, policy, "committee_fold", Indices(policy.committee_chunks), ready,
               committee_fold_s(policy.committee_chunks))

\* The committee proof the next epoch needs takes what the rest leaves.
PlaceCommittee(held, policy) ==
    IF policy.validators = 0 THEN held
    ELSE LET chunked == FoldLeft(LAMBDA h, c :
                          Place(h, policy, "committee", {c}, 0,
                                committee_chunk_s(policy.validators, policy.committee_chunks)),
                          held, Upto(policy.committee_chunks))
         IN Committed(chunked, policy,
                Max({p.end : p \in {x \in ToSet(chunked.proofs) : x.stage = "committee"}}))

EndOfStages(proofs, stages) ==
    Max({0} \cup {p.end : p \in {x \in ToSet(proofs) : x.stage \in stages}})

Schedule(wrapped, proofs, groups, tail, threshold) ==
    [groups |-> groups, folds |-> wrapped.folds, absorbed |-> wrapped.absorbed,
     tail |-> tail, attesting_balance |-> 0, threshold_reached |-> FALSE,
     proofs |-> StableSort(proofs, [i \in DOMAIN proofs |-> proofs[i].start]),
     lanes |-> Cardinality({p.lane : p \in ToSet(proofs)}),
     threshold |-> threshold, postable |-> EndOfStages(proofs, {"wrap"}),
     committee_done |-> EndOfStages(proofs, {"committee", "committee_fold"}),
     total_prover |-> FoldLeft(LAMBDA sum, p : (sum + p.end) - p.start, 0, proofs)]

simulate(units, groups, tail, threshold, policy) ==
    LET deadline == Max({0} \cup {arrival(units, i) : i \in tail \cup UNION ToSet(groups)})
        wrapped == PlaceFinal(PlaceFolds(PlaceGroups(units, groups, policy), policy, deadline),
                              units, tail, policy, deadline)
    IN Schedule(wrapped,
                PlaceCommittee([lanes |-> wrapped.lanes, proofs |-> wrapped.proofs],
                               policy).proofs,
                groups, tail, threshold)

\* The objective: the committee's overrun, latency, lanes, prover time.
Objective(s) ==
    <<Largest(s.committee_done - (SlotCount * SecondsPerSlot), 0),
      s.postable - s.threshold, s.lanes, s.total_prover>>

better(a, b) ==
    \E k \in 1 .. 4 : /\ Objective(a)[k] < Objective(b)[k]
                      /\ \A j \in 1 .. k - 1 : Objective(a)[j] = Objective(b)[j]

BestOf(schedules) ==
    FoldLeft(LAMBDA best, s : IF better(s, best) THEN s ELSE best,
             schedules[1], schedules)

Accrued(units, i) == SumOf([j \in 1 .. i |-> units[j].marginal_balance])

\* The first unit that reaches a balance, or the last when none does.
FirstReaching(units, balance) ==
    LET reached == {i \in DOMAIN units : Accrued(units, i) >= balance}
    IN IF reached = {} THEN Len(units) ELSE CHOOSE i \in reached : \A j \in reached : i <= j

\* The best schedule of the units up to last, with any of them inline.
BestUpto(units, last, threshold, policy, max_tail) ==
    BestOf(FlattenSeq(
        [k \in 1 .. Min({max_tail, last}) + 1 |->
            LET found == search(units, last - (k - 1), policy)
            IN [i \in DOMAIN found |->
                  simulate(units, found[i], (last - k) + 2 .. last, threshold, policy)]]))

\* When two thirds of the balance had been heard, if it was.
ThresholdAt(units, last, total) ==
    LET quorum == FirstReaching(SubSeq(units, 1, last), quorum_balance(total))
    IN arrival(units, IF Accrued(units, quorum) >= quorum_balance(total)
                      THEN quorum ELSE Len(units))

with_lanes(units, total, policy, max_tail) ==
    LET last == FirstReaching(units, target_balance(policy, total))
    IN [BestUpto(units, last, ThresholdAt(units, last, total), policy, max_tail) EXCEPT
           !.attesting_balance = Accrued(units, last),
           !.threshold_reached = Accrued(units, last) >= target_balance(policy, total)]

\* Every lane count up to the budget is tried.
schedule_capped(units, total, policy, max_tail) ==
    BestOf([lanes \in 1 .. Largest(policy.lanes, 1) |->
              with_lanes(units, total, [policy EXCEPT !.lanes = lanes], max_tail)])

MaxTail == 24

schedule(units, total, policy) == schedule_capped(units, total, policy, MaxTail)

-----------------------------------------------------------------------------
(* What run_native relies on: nothing is proven twice or left out, and no  *)
(* proof starts before what it is made of is there.                        *)

Runnable(units, plan) ==
    LET proof(stage, covers) == CHOOSE p \in ToSet(plan.proofs) :
                                    p.stage = stage /\ p.covers = covers
        group(g) == proof("group", {g})
        fold(k) == proof("fold", plan.folds[k])
        final == proof("final", plan.absorbed)
        members == UNION ToSet(plan.groups)
        once(parts, i) == Cardinality({k \in DOMAIN parts : i \in parts[k]}) = 1
    IN /\ \A i \in 1 .. LastOf(members \cup plan.tail) :
             once(Append(plan.groups, plan.tail), i)
       /\ \A g \in DOMAIN plan.groups : once(Append(plan.folds, plan.absorbed), g)
       /\ \A i, j \in DOMAIN plan.proofs :
             (i < j /\ plan.proofs[i].lane = plan.proofs[j].lane) =>
                \/ plan.proofs[i].end <= plan.proofs[j].start
                \/ plan.proofs[j].end <= plan.proofs[i].start
       /\ \A g \in DOMAIN plan.groups :
             group(g).start >= arrival(units, LastOf(plan.groups[g]))
       /\ \A k \in DOMAIN plan.folds :
             /\ \A g \in plan.folds[k] : fold(k).start >= group(g).end
             /\ k > 1 => fold(k).start >= fold(k - 1).end
       /\ \A g \in plan.absorbed : final.start >= group(g).end
       /\ plan.folds # <<>> => final.start >= fold(Len(plan.folds)).end
       /\ final.start >= arrival(units, LastOf(members \cup plan.tail))
=============================================================================
