---------------------------- MODULE StreamEpoch ----------------------------
(***************************************************************************)
(* One epoch of the streaming pipeline (orchestrator/stream.rs) against the *)
(* gossip source that feeds it (gossip.rs) and the chain it repairs from.  *)
(*                                                                         *)
(* A tick is three steps, because it awaits twice: it absorbs gossip and   *)
(* repairs from blocks, it settles the proof in flight and looks for a     *)
(* reorg, and it absorbs again and decides.  Votes are cast, the link      *)
(* drops, the chain grows and reorgs between any two of them.              *)
(*                                                                         *)
(* A vote weighs one; a slot's complement is the slot and the votes heard  *)
(* for it when it was closed.  A proof is the slots its output's slots_mask *)
(* names.  Units are counted from one.                                     *)
(***************************************************************************)
EXTENDS Integers, FiniteSets, SequencesExt, Sorting

CONSTANTS
    SlotCount,      \* the slots of the epoch
    Members,        \* the committee members of each slot
    ScanEnd,        \* the slot whose head ends the wait, from the lookahead
    MaxWaits,       \* bound: intervals the trigger may hold, max_wait_s
    MaxReorgs,      \* bound: reorgs of the epoch's boundary
    MaxOutages,     \* bound: times the event stream drops
    MaxCrashes      \* bound: crashes that are not the program's own errors

ASSUME SlotCountAssumption == SlotCount \in Nat \ {0}
ASSUME MembersAssumption == IsFiniteSet(Members) /\ Members # {}
ASSUME ScanEndAssumption == ScanEnd \in Nat /\ SlotCount <= ScanEnd
ASSUME BoundsAssumption ==
    /\ MaxWaits \in Nat
    /\ MaxReorgs \in Nat
    /\ MaxOutages \in Nat
    /\ MaxCrashes \in Nat

\* Slots are counted from the epoch's first.
Slots == 0 .. SlotCount - 1
Votes == Slots \X Members
Roots == 0 .. MaxReorgs
None == -1

\* StreamPolicy::target_balance: two thirds, rounded up
Target == (2 * Cardinality(Votes) + 2) \div 3

VARIABLES
    \* the chain
    head,       \* the head's slot, counted from the epoch's first
    canon,      \* the epoch's canonical target root
    cast,       \* the root each vote is for, once cast
    included,   \* the votes in canonical blocks
    \* the gossip source
    link,       \* whether the event stream is connected
    inbox,      \* votes delivered and not drained
    gapped,     \* the flag took_gap consumes
    reorgEvent, \* the flag took_reorg consumes
    missed,     \* history: the votes gossiped while the link was down
    outages,
    \* the daemon
    agg,        \* the StreamAggregator, or NoAggregator
    pending,    \* the proof in flight, or NoProof
    pc,         \* where the tick is
    outcome,    \* what became of the epoch
    crashes

chainVars == <<head, canon, cast, included>>
sourceVars == <<link, inbox, gapped, reorgEvent, missed, outages>>
daemonVars == <<agg, pending, pc, outcome, crashes>>
vars == <<chainVars, sourceVars, daemonVars>>

\* proved and unfolded count units; aggregate and group are the proofs held.
NoAggregator ==
    [root |-> None, heard |-> {}, units |-> <<>>, proved |-> 0, unfolded |-> 0,
     aggregate |-> {}, group |-> {},
     gap |-> FALSE, reorged |-> FALSE, waits |-> 0]

\* kind is a Pending variant; aggregate and group are the proofs it verifies
\* and slots the units it attests itself, through the unit end, in their order.
NoProof ==
    [kind |-> "none", aggregate |-> {}, group |-> {}, slots |-> <<>>, end |-> 0,
     landed |-> FALSE]

-----------------------------------------------------------------------------
(* The collector and the trigger's view.                                   *)

\* The votes of the units, one by one: the sum of their weights, of which none is
\* over a committee.
Weight(units) ==
    Cardinality({vote \in (DOMAIN units) \X (1 .. Cardinality(Members)) :
                    vote[2] <= units[vote[1]].weight})

\* The slots the collector has been told to forget: those closed into units.
Closed(a) == {a.units[i].slot : i \in DOMAIN a.units}

\* Mutants: a closed slot collects again; the target root is not looked at.
IngestLate(a, votes) == [a EXCEPT !.heard = @ \cup {v \in votes : cast[v] = a.root}]
IngestAnyRoot(a, votes) ==
    [a EXCEPT !.heard = @ \cup {v \in votes : v[1] \notin Closed(a)}]

\* SlotStream::ingest, of votes from either source.
Ingest(a, votes) ==
    [a EXCEPT !.heard = @ \cup
        {v \in votes : cast[v] = a.root /\ v[1] \notin Closed(a)}]

\* absorb_gossip: the inbox and both flags are consumed together.
Absorb(a) ==
    [Ingest(a, inbox) EXCEPT !.reorged = @ \/ reorgEvent,
                             !.gap = @ \/ gapped]

Drained == inbox' = {} /\ reorgEvent' = FALSE /\ gapped' = FALSE

\* Mutant: a slot nobody was heard of in is open too.
OpenUnitsAll(a) ==
    [i \in 1 .. SlotCount |->
       [slot |-> i - 1, weight |-> Cardinality({v \in a.heard : v[1] = i - 1})]]

\* open_slots and peek: every slot heard of and not closed, in slot order,
\* priced as if it closed now.
OpenUnits(a) ==
    LET slots == InOrder({v[1] : v \in a.heard})
    IN [i \in DOMAIN slots |->
          [slot |-> slots[i],
           weight |-> Cardinality({v \in a.heard : v[1] = slots[i]})]]

\* The unit that carries the epoch over the target, 0 when none does.
Crossing(units) ==
    LET over == {i \in DOMAIN units : Weight(SubSeq(units, 1, i)) >= Target}
    IN IF over = {} THEN 0 ELSE CHOOSE i \in over : \A j \in over : i <= j

\* Mutant: a head past the slot does not finish it.
FillingWhileLast(units, open) ==
    open # <<>> /\ Crossing(units \o open) \in {0, Len(units) + Len(open)}

\* Whether the last open slot is still filling: nothing later has arrived and
\* the threshold, if it is crossed, still needs it.
Filling(units, open) ==
    /\ open # <<>>
    /\ Last(open).slot >= head
    /\ Crossing(units \o open) \in {0, Len(units) + Len(open)}

\* Mutants: the group held is forgotten; the range ends one early.
InlineTailFromAggregate(a, units) == <<a.proved, Crossing(units)>>
InlineTailShort(a, units) ==
    <<IF a.unfolded # 0 THEN a.unfolded ELSE a.proved, Crossing(units) - 1>>

\* StreamAggregator::tail: the units after the aggregate's, or after those of
\* the group held, through the one that crosses.
InlineTail(a, units) ==
    LET crossing == Crossing(units)
        start == IF a.unfolded # 0 THEN a.unfolded ELSE a.proved
    IN <<IF start < crossing THEN start ELSE crossing, crossing>>

SlotsOf(units, first, last) == [i \in 1 .. last - first + 1 |-> units[first + i - 1].slot]

\* start_group, over what no proof covers
StartGroup(a) ==
    [NoProof EXCEPT !.kind = "group", !.end = Len(a.units),
                    !.slots = SlotsOf(a.units, a.proved + 1, Len(a.units))]

\* start_fold of the group held
StartFold(a) ==
    [NoProof EXCEPT !.kind = "fold", !.end = a.unfolded,
                    !.aggregate = a.aggregate, !.group = a.group]

\* start_final, absorbing the group held if there is one
StartFinal(a) ==
    LET tail == InlineTail(a, a.units)
    IN [NoProof EXCEPT !.kind = "final", !.end = tail[2],
                       !.aggregate = a.aggregate, !.group = a.group,
                       !.slots = SlotsOf(a.units, tail[1] + 1, tail[2])]

\* What the guests assert: slots attested together strictly ascend, and no
\* slot is counted twice.
Ascending(slots) == \A i, j \in DOMAIN slots : i < j => slots[i] < slots[j]

Provable(proof) ==
    /\ Ascending(proof.slots)
    /\ proof.aggregate \cap proof.group = {}
    /\ Range(proof.slots) \cap (proof.aggregate \cup proof.group) = {}

Fired == pending.kind = "final"

-----------------------------------------------------------------------------
Init ==
    /\ head = 0
    /\ canon = 0
    /\ cast = [v \in Votes |-> None]
    /\ included = {}
    /\ link = TRUE
    /\ inbox = {}
    /\ gapped = FALSE
    /\ reorgEvent = FALSE
    /\ missed = {}
    /\ outages = 0
    /\ agg = NoAggregator
    /\ pending = NoProof
    /\ pc = "idle"
    /\ outcome = "open"
    /\ crashes = 0

(* The chain and the network.                                              *)

\* A member of a committee whose slot has come votes for the checkpoint it
\* sees, once, and the node gossips it to whoever is connected.
Attest(v) ==
    /\ outcome = "open"
    /\ cast[v] = None
    /\ v[1] <= head
    /\ cast' = [cast EXCEPT ![v] = canon]
    /\ IF link THEN inbox' = inbox \cup {v} /\ UNCHANGED missed
               ELSE missed' = missed \cup {v} /\ UNCHANGED inbox
    /\ UNCHANGED <<head, canon, included, link, gapped, reorgEvent, outages, daemonVars>>

\* A slot passes, and its block carries what was cast before it.
ChainGrows ==
    /\ head < ScanEnd
    /\ head' = head + 1
    /\ included' = {v \in Votes : cast[v] = canon}
    /\ UNCHANGED <<canon, cast, sourceVars, daemonVars>>

\* The boundary block reorgs out, and with it every block of the epoch.
Reorg ==
    /\ outcome = "open"
    /\ canon < MaxReorgs
    /\ canon' = canon + 1
    /\ included' = {}
    /\ reorgEvent' = (reorgEvent \/ link)
    /\ UNCHANGED <<head, cast, link, inbox, gapped, missed, outages, daemonVars>>

\* follow: the connection ends, the gap is reported, and only then does the
\* source try again.  A try that fails reports the gap once more.
Disconnect ==
    /\ link
    /\ outages < MaxOutages
    /\ link' = FALSE
    /\ gapped' = TRUE
    /\ outages' = outages + 1
    /\ UNCHANGED <<chainVars, inbox, reorgEvent, missed, daemonVars>>

ConnectFails ==
    /\ ~link
    /\ gapped' = TRUE
    /\ UNCHANGED <<chainVars, link, inbox, reorgEvent, missed, outages, daemonVars>>

Reconnect ==
    /\ ~link
    /\ link' = TRUE
    /\ UNCHANGED <<chainVars, inbox, gapped, reorgEvent, missed, outages, daemonVars>>

-----------------------------------------------------------------------------
(* The daemon.                                                             *)

\* The process ends and is started again: the source connects anew and has
\* nothing, and no flag survives.
Down ==
    /\ agg' = NoAggregator
    /\ pending' = NoProof
    /\ pc' = "idle"
    /\ link' = FALSE
    /\ inbox' = {}
    /\ gapped' = FALSE
    /\ reorgEvent' = FALSE

Crash ==
    /\ outcome = "open"
    /\ crashes < MaxCrashes
    /\ crashes' = crashes + 1
    /\ Down
    /\ UNCHANGED <<chainVars, missed, outages, outcome>>

\* StreamPipeline::open: the root is resolved, and what was gossiped before is
\* to be repaired from blocks.
Open ==
    /\ outcome = "open"
    /\ pc = "idle"
    /\ agg = NoAggregator
    /\ agg' = [NoAggregator EXCEPT !.root = canon, !.gap = TRUE]
    /\ pending' = NoProof
    /\ UNCHANGED <<chainVars, sourceVars, pc, outcome, crashes>>

\* The top of drive_epoch: absorb, and repair_from_blocks unless the trigger
\* has fired.
Collect ==
    /\ outcome = "open"
    /\ pc = "idle"
    /\ agg # NoAggregator
    /\ LET a == Absorb(agg)
       IN agg' = IF a.gap /\ ~Fired
                 THEN [Ingest(a, included) EXCEPT !.gap = FALSE]
                 ELSE a
    /\ Drained
    /\ pc' = "settle"
    /\ UNCHANGED <<chainVars, link, missed, outages, pending, outcome, crashes>>

ProverLands ==
    /\ pending # NoProof
    /\ ~pending.landed
    /\ pending' = [pending EXCEPT !.landed = TRUE]
    /\ UNCHANGED <<chainVars, sourceVars, agg, pc, outcome, crashes>>

\* settle ran out of the trigger interval: the tick is over.
SettleWaits ==
    /\ pc = "settle"
    /\ pending # NoProof
    /\ ~pending.landed
    /\ pc' = "idle"
    /\ UNCHANGED <<chainVars, sourceVars, agg, pending, outcome, crashes>>

Settled(kind) ==
    /\ pc = "settle"
    /\ pending.kind = kind
    /\ pending.landed

\* A landed group is held, and the tick goes on.
CollectGroup ==
    /\ Settled("group")
    /\ Provable(pending)
    /\ agg' = [agg EXCEPT !.unfolded = pending.end, !.group = Range(pending.slots)]
    /\ pending' = NoProof
    /\ UNCHANGED <<chainVars, sourceVars, pc, outcome, crashes>>

\* Mutant: the aggregate counts for every unit closed by now.
CollectFoldOfAllUnits ==
    /\ Settled("fold")
    /\ Provable(pending)
    /\ agg' = [agg EXCEPT !.proved = Len(agg.units),
                          !.aggregate = pending.aggregate \cup pending.group]
    /\ pending' = NoProof
    /\ pc' = "idle"
    /\ UNCHANGED <<chainVars, sourceVars, outcome, crashes>>

\* finish_fold: the aggregate covers what the fold was started over.
CollectFold ==
    /\ Settled("fold")
    /\ Provable(pending)
    /\ agg' = [agg EXCEPT !.proved = pending.end,
                          !.aggregate = pending.aggregate \cup pending.group]
    /\ pending' = NoProof
    /\ pc' = "idle"
    /\ UNCHANGED <<chainVars, sourceVars, outcome, crashes>>

\* Mutant: the epoch goes on, with the root it was opened on, when it reorged.
CollectFinalKeepsEpoch ==
    /\ Settled("final")
    /\ Provable(pending)
    /\ outcome' = IF canon = agg.root THEN "published" ELSE "open"
    /\ agg' = IF canon = agg.root THEN NoAggregator ELSE agg
    /\ pending' = NoProof
    /\ pc' = "idle"
    /\ UNCHANGED <<chainVars, sourceVars, crashes>>

\* finish_final: published if the checkpoint still stands, discarded if not.
CollectFinal ==
    /\ Settled("final")
    /\ Provable(pending)
    /\ outcome' = IF canon = agg.root THEN "published" ELSE "open"
    /\ agg' = NoAggregator
    /\ pending' = NoProof
    /\ pc' = "idle"
    /\ UNCHANGED <<chainVars, sourceVars, crashes>>

\* The prover ran the guest and the guest refused: the tick fails.
ProverRefuses ==
    /\ pc = "settle"
    /\ pending.landed
    /\ ~Provable(pending)
    /\ Down
    /\ UNCHANGED <<chainVars, missed, outages, outcome, crashes>>

\* The prover is free.  A reorg the node reported is looked into, and if the
\* checkpoint moved the epoch is reopened.
CheckReorg ==
    /\ pc = "settle"
    /\ pending = NoProof
    /\ IF agg.reorged /\ canon # agg.root
       THEN agg' = NoAggregator /\ pc' = "idle"
       ELSE agg' = [agg EXCEPT !.reorged = FALSE] /\ pc' = "decide"
    /\ UNCHANGED <<chainVars, sourceVars, pending, outcome, crashes>>

\* Not fired: the slots gossip has finished with are closed.
Close(a, open) ==
    [a EXCEPT !.units = @ \o open,
              !.heard = {v \in @ : \A i \in DOMAIN open : open[i].slot # v[1]}]

\* Below the target the next proof is started: the fold of a group that landed,
\* else a group of what no proof covers.
Hold(a, open, filling, enough) ==
    LET closed == Close(a, IF filling THEN Front(open) ELSE open)
        fold == ~enough /\ a.unfolded # 0
        group == ~enough /\ a.unfolded = 0 /\ a.proved < Len(closed.units)
    IN /\ agg' = [closed EXCEPT !.unfolded = IF fold THEN 0 ELSE @,
                                !.group = IF fold THEN {} ELSE @,
                                !.waits = IF enough THEN @ + 1 ELSE @]
       /\ pending' = IF fold THEN StartFold(closed)
                     ELSE IF group THEN StartGroup(closed)
                     ELSE NoProof

\* The trigger does not fire: below the target, or worth another interval.
Wait ==
    /\ pc = "decide"
    /\ LET a == Absorb(agg)
           open == OpenUnits(a)
           filling == Filling(a.units, open)
           enough == Weight(a.units \o open) >= Target
       IN /\ enough => filling /\ a.waits < MaxWaits
          /\ head < ScanEnd
          /\ Hold(a, open, filling, enough)
    /\ Drained
    /\ pc' = "idle"
    /\ UNCHANGED <<chainVars, link, missed, outages, outcome, crashes>>

\* ... and the scan window is behind the head: the epoch is given up, with
\* whatever was just started for it.
GiveUp ==
    /\ pc = "decide"
    /\ LET a == Absorb(agg)
           open == OpenUnits(a)
           filling == Filling(a.units, open)
           enough == Weight(a.units \o open) >= Target
       IN enough => filling /\ a.waits < MaxWaits
    /\ head >= ScanEnd
    /\ agg' = NoAggregator
    /\ pending' = NoProof
    /\ outcome' = "abandoned"
    /\ Drained
    /\ pc' = "idle"
    /\ UNCHANGED <<chainVars, link, missed, outages, crashes>>

\* Fire: everything heard is closed, the tail is cut at the crossing, and a
\* group held from this tick is absorbed by the final proof.
Fire ==
    /\ pc = "decide"
    /\ LET a == Absorb(agg)
           closed == Close(a, OpenUnits(a))
       IN /\ Weight(closed.units) >= Target
          /\ agg' = [closed EXCEPT !.unfolded = 0, !.group = {}]
          /\ pending' = StartFinal(closed)
    /\ Drained
    /\ pc' = "idle"
    /\ UNCHANGED <<chainVars, link, missed, outages, outcome, crashes>>

Environment ==
    \/ \E v \in Votes : Attest(v)
    \/ Reorg
    \/ Disconnect
    \/ ConnectFails
    \/ Reconnect
    \/ Crash

Tick ==
    \/ Open
    \/ Collect
    \/ SettleWaits
    \/ CollectGroup
    \/ CollectFold
    \/ CollectFinal
    \/ ProverRefuses
    \/ CheckReorg
    \/ Wait
    \/ GiveUp
    \/ Fire

Next == Environment \/ ChainGrows \/ ProverLands \/ Tick

Spec == Init /\ [][Next]_vars

\* The loop always takes the next tick, a proof always ends, slots pass.
FairSpec ==
    /\ Spec
    /\ WF_vars(Tick)
    /\ WF_vars(ProverLands)
    /\ WF_vars(ChainGrows)

-----------------------------------------------------------------------------
(* Properties.                                                             *)

Units == [slot : Slots, weight : 1 .. Cardinality(Members)]

TypeOK ==
    /\ head \in 0 .. ScanEnd
    /\ canon \in Roots
    /\ cast \in [Votes -> Roots \cup {None}]
    /\ included \subseteq Votes
    /\ link \in BOOLEAN
    /\ inbox \subseteq Votes
    /\ gapped \in BOOLEAN
    /\ reorgEvent \in BOOLEAN
    /\ missed \subseteq Votes
    /\ outages \in 0 .. MaxOutages
    /\ agg.root \in Roots \cup {None}
    /\ agg.heard \subseteq Votes
    /\ \A i \in DOMAIN agg.units : agg.units[i] \in Units
    /\ agg.proved \in 0 .. Len(agg.units)
    /\ agg.unfolded \in 0 .. Len(agg.units)
    /\ agg.aggregate \subseteq Slots /\ agg.group \subseteq Slots
    /\ agg.gap \in BOOLEAN
    /\ agg.reorged \in BOOLEAN
    /\ agg.waits \in 0 .. MaxWaits
    /\ pending.kind \in {"none", "group", "fold", "final"}
    /\ pending.aggregate \subseteq Slots /\ pending.group \subseteq Slots
    /\ pending.slots \in Seq(Slots) /\ pending.end \in Nat
    /\ pc \in {"idle", "settle", "decide"}
    /\ outcome \in {"open", "published", "abandoned"}
    /\ crashes \in 0 .. MaxCrashes

\* attestation_collector.rs:182-189: votes for a slot keep arriving after it
\* was closed, from gossip and from every block a repair reads again; no slot is
\* ever closed into a second unit, which the aggregation circuit would refuse.
EachSlotOnce ==
    \A i, j \in DOMAIN agg.units : agg.units[i].slot = agg.units[j].slot => i = j

\* assumptions.md:456-459, "the weight is honest at every instant": what the
\* units add up to was cast for the root the epoch is bound to, whatever
\* reorged, repeated or was repaired meanwhile.
WeightIsCast ==
    \A i \in DOMAIN agg.units :
        agg.units[i].weight <=
            Cardinality({v \in Votes : v[1] = agg.units[i].slot /\ cast[v] = agg.root})

\* stream.rs:336-342: an aggregate, a group and a tail assembled over several
\* ticks leave no unit under two children and none under no child: what the
\* final proof counts is exactly the units up to the crossing, each once.
UnitSlots(first, last) == Range(SlotsOf(agg.units, first, last))

FinalCoversEveryUnitOnce ==
    pending.kind = "final" =>
        LET tail == Range(pending.slots)
        IN /\ pending.aggregate \cap pending.group = {}
           /\ tail \cap (pending.aggregate \cup pending.group) = {}
           /\ pending.aggregate \cup pending.group \cup tail
                = UnitSlots(1, Crossing(agg.units))

\* stream.rs:266-268 and 1480-1483: the tail always carries the unit that
\* crosses, so that the slot a latency is measured from is the crossing's even
\* when the prover was busy while the chain crossed.
TailCarriesTheCrossing ==
    pending.kind = "final" =>
        agg.units[Crossing(agg.units)].slot \in Range(pending.slots)

\* stream.rs:748-753 and 1210-1253: a group, its fold and the units closed beside
\* it move in different ticks, and still the two counters the next proof is cut
\* by say exactly what the proofs held are over.
CountersMatchTheProofs ==
    /\ agg.aggregate = UnitSlots(1, agg.proved)
    /\ agg.unfolded # 0 => agg.group = UnitSlots(agg.proved + 1, agg.unfolded)
    /\ pending.kind = "group" =>
         /\ agg.unfolded = 0
         /\ Range(pending.slots) = UnitSlots(agg.proved + 1, pending.end)
    /\ pending.kind = "fold" =>
         /\ pending.aggregate = agg.aggregate
         /\ pending.group = UnitSlots(agg.proved + 1, pending.end)

\* stream.rs:775: the give-up test is on the head alone, under an evaluation
\* that may have chosen to wait.  An epoch is never given up while what is
\* held, and what this tick drained, reaches the target.
NeverGivesUpOnEnough ==
    [][outcome' = "abandoned" =>
         LET a == Absorb(agg)
         IN Weight(a.units \o OpenUnits(a)) < Target]_vars

\* Whatever drops, reorgs or crashes, the epoch gets a verdict: no tick waits
\* for a proof nobody collects, and no reopening goes on for ever.
EpochEnds == <>(outcome # "open")

\* gossip.rs:37-40: the source "reconnects, reports the outage, and the
\* orchestrator repairs it from blocks".  Once the stream is back, a vote it did
\* not carry and a canonical block does, for a slot that is still open, is held,
\* or a repair is still due.
OutageIsRepaired ==
    agg # NoAggregator /\ ~Fired /\ link =>
        \A v \in missed \cap included :
            cast[v] = agg.root /\ v[1] \notin Closed(agg) =>
                v \in agg.heard \/ gapped \/ agg.gap

\* streaming.rs:953: "Units must be in ascending attestation-slot order", which
\* the guests assert of every group and of the tail.
UnitsAscend == Ascending(SlotsOf(agg.units, 1, Len(agg.units)))
=============================================================================
