------------------------------ MODULE Shuffle ------------------------------
(***************************************************************************)
(* The slot each active validator attests in, in every form the repository *)
(* computes it: the swap-or-not shuffle of one index, forwards and         *)
(* backwards, of the whole list, of slot labels and of bit planes          *)
(* (shuffle-bench-guest), of the committee proof (fcr-committee-guest) and *)
(* of the fast confirmation rule (fcr-rule-guest).                         *)
(*                                                                         *)
(* A seed is what its hashes are: a pivot for each round and a source bit  *)
(* for each round and position.  The active set is 0 .. n - 1, a list is a *)
(* function of it, and a source is read a byte at a time out of blocks.    *)
(***************************************************************************)
EXTENDS Integers, SequencesExt, FiniteSetsExt

CONSTANTS
    Rounds,          \* SHUFFLE_ROUND_COUNT
    SlotCount,       \* SLOTS_PER_EPOCH
    CommitteeSize,   \* TARGET_COMMITTEE_SIZE
    CommitteeLimit,  \* MAX_COMMITTEES_PER_SLOT
    ByteBits,        \* bits of a source byte
    BlockBits,       \* bits of one source hash
    WordBits,        \* bits of a plane's word
    LabelBits        \* bit planes of a slot label

ASSUME ShuffleAssumption ==
    /\ {Rounds, SlotCount, CommitteeSize, CommitteeLimit} \subseteq Nat \ {0}
    /\ {ByteBits, BlockBits, WordBits, LabelBits} \subseteq Nat \ {0}
    /\ BlockBits % ByteBits = 0 /\ BlockBits % WordBits = 0
    /\ SlotCount <= 2^LabelBits

NoSlot == -1

Indices(n) == 0 .. n - 1
Upto(k) == [i \in 1 .. k |-> i - 1]
Forwards == Upto(Rounds)
Backwards == Reverse(Forwards)

Pivot(seed, r, n) == seed.pivot[r] % n

(***************************************************************************)
(* One index.                                                              *)
(***************************************************************************)
flip(pivot, index, n) ==
    LET f == pivot + n - index IN IF f >= n THEN f - n ELSE f

\* An index through the rounds in order; Bit(r, position) reads the source.
Trajectory(index, n, seed, order, Bit(_, _)) ==
    FoldLeft(LAMBDA x, r :
                LET other == flip(Pivot(seed, r, n), x, n)
                IN IF Bit(r, IF x > other THEN x ELSE other) THEN other ELSE x,
             index, order)

shuffled_index(index, n, seed) ==
    Trajectory(index, n, seed, Forwards, LAMBDA r, p : seed.bit[r][p])

traj_hashed(index, n, seed) ==
    Trajectory(index, n, seed, Backwards, LAMBDA r, p : seed.bit[r][p])

committee_position(index, n, seed) ==
    Trajectory(index, n, seed, Backwards, LAMBDA r, p : seed.bit[r][p])

slot_of_position(p, n) ==
    LET s == (SlotCount * (p + 1) - 1) \div n
    IN IF s >= SlotCount THEN SlotCount - 1 ELSE s

(***************************************************************************)
(* A round over the whole list is two mirror runs, each pairing i + k with *)
(* j - k for k below its count.                                            *)
(***************************************************************************)
round_plan(pivot, n) ==
    <<[i |-> 0, j |-> pivot, count |-> (pivot + 1) \div 2],
      [i |-> pivot + 1, j |-> n - 1,
       count |-> ((pivot + n + 1) \div 2) - (pivot + 1)]>>

Swap(list, a, b) == [list EXCEPT ![a] = list[b], ![b] = list[a]]

\* The source bits a run of singles reads, a byte being loaded at its first
\* position and wherever a byte is entered from above.
SwapSingles(list, run, ks, bits) ==
    FoldLeft(LAMBDA held, k :
                LET j == run.j - k
                    byte == IF held.byte = NoSlot \/ j % ByteBits = ByteBits - 1
                            THEN j \div ByteBits ELSE held.byte
                IN [list |-> IF bits[byte * ByteBits + (j % ByteBits)]
                             THEN Swap(held.list, run.i + k, j) ELSE held.list,
                    byte |-> byte],
             [list |-> list, byte |-> NoSlot], ks).list

\* Every run of every round, in the order given.
OverRuns(list, n, seed, order, Run(_, _, _)) ==
    FoldLeft(LAMBDA held, r :
                FoldLeft(LAMBDA l, run : Run(l, run, seed.bit[r]), held,
                         round_plan(Pivot(seed, r, n), n)),
             list, order)

\* fcr-rule-guest's list, whose block is refreshed at a block's last position
\* and whose byte at a byte's; the result at i is input[shuffled_index(i)].
shuffle_list(input, n, seed) ==
    OverRuns(input, n, seed, Backwards, LAMBDA list, run, bits :
        FoldLeft(LAMBDA held, k :
                    LET j == run.j - k
                        block == IF j % BlockBits = BlockBits - 1
                                 THEN j \div BlockBits ELSE held.block
                        byte == IF j % ByteBits = ByteBits - 1
                                THEN block * BlockBits
                                     + ((j % BlockBits) \div ByteBits) * ByteBits
                                ELSE held.byte
                    IN [list |-> IF bits[byte + (j % ByteBits)]
                                 THEN Swap(held.list, run.i + k, j)
                                 ELSE held.list,
                        block |-> block, byte |-> byte],
                 [list |-> list, block |-> run.j \div BlockBits,
                  byte |-> (run.j \div ByteBits) * ByteBits],
                 Upto(run.count)).list)

whole_set_shuffle(list, n, seed) ==
    OverRuns(list, n, seed, Forwards, LAMBDA l, run, bits :
                SwapSingles(l, run, Upto(run.count), bits))

label_array(n) == [p \in Indices(n) |-> slot_of_position(p, n)]

(***************************************************************************)
(* Bit planes: positions below the run's first whole word are swapped one  *)
(* at a time, then a word of pairs at once, then what is left.  A block    *)
(* reads its words first and writes the descending one, then the two the   *)
(* ascending window lies in.                                               *)
(***************************************************************************)
bitslice_init(n) ==
    [plane \in 0 .. LabelBits - 1 |->
        [p \in Indices(n) |-> (slot_of_position(p, n) \div 2^plane) % 2]]

bitslice_get(planes, p) ==
    FoldLeft(LAMBDA label, plane : label + (planes[plane][p] * 2^plane),
             0, Upto(LabelBits))

\* The pairs ilo + t, jhi - t of a block, t below WordBits, where mask allows.
bitslice_block(plane, ilo, jhi, mask) ==
    LET exchanged(p) ==
            IF p \in ilo .. ilo + WordBits - 1
            THEN IF mask[p - ilo] THEN plane[jhi - (p - ilo)] ELSE plane[p]
            ELSE plane[p]
        descending(p) ==
            IF mask[jhi - p] THEN plane[ilo + (jhi - p)] ELSE plane[p]
        ascending == {ilo \div WordBits, (ilo + WordBits - 1) \div WordBits}
    IN [p \in DOMAIN plane |->
            IF p \div WordBits \in ascending THEN exchanged(p)
            ELSE IF p \div WordBits = jhi \div WordBits THEN descending(p)
            ELSE plane[p]]

HeadOf(run) == Min({(run.j + 1) % WordBits, run.count})
BlocksOf(run) == (run.count - HeadOf(run)) \div WordBits
MaskAt(run, bits, b) ==
    [t \in 0 .. WordBits - 1 |-> bits[run.j - HeadOf(run) - WordBits * b - t]]

\* One plane's walk over a run's blocks.
bitslice_run(plane, run, bits) ==
    FoldLeft(LAMBDA pl, b :
                bitslice_block(pl, run.i + HeadOf(run) + WordBits * b,
                               run.j - HeadOf(run) - WordBits * b,
                               MaskAt(run, bits, b)),
             plane, Upto(BlocksOf(run)))

bitslice_shuffle_planes(n, seed) ==
    OverRuns(bitslice_init(n), n, seed, Forwards, LAMBDA planes, run, bits :
        LET rest == [k \in 1 .. run.count - HeadOf(run) - WordBits * BlocksOf(run) |->
                        HeadOf(run) + WordBits * BlocksOf(run) + k - 1]
        IN [plane \in DOMAIN planes |->
                SwapSingles(
                    bitslice_run(
                        SwapSingles(planes[plane], run, Upto(HeadOf(run)), bits),
                        run, bits),
                    run, rest, bits)])

\* Block-major: every plane's block before the next block.
bitslice_shuffle(n, seed) ==
    OverRuns(bitslice_init(n), n, seed, Forwards, LAMBDA planes, run, bits :
        LET singles(pl, from, to) ==
                [plane \in DOMAIN pl |->
                    SwapSingles(pl[plane], run,
                                [k \in 1 .. to - from |-> from + k - 1], bits)]
            ends == HeadOf(run) + WordBits * BlocksOf(run)
        IN singles(
            FoldLeft(LAMBDA pl, b :
                        [plane \in DOMAIN pl |->
                            bitslice_block(pl[plane],
                                run.i + HeadOf(run) + WordBits * b,
                                run.j - HeadOf(run) - WordBits * b,
                                MaskAt(run, bits, b))],
                     singles(planes, 0, HeadOf(run)), Upto(BlocksOf(run))),
            ends, run.count))

(***************************************************************************)
(* The sampled scheme: the source bits of every round, hashed only in the  *)
(* blocks the descending sides reach and zero elsewhere.                   *)
(***************************************************************************)
bitmaps(n, seed) ==
    [r \in 0 .. Rounds - 1 |->
        LET hashed == UNION {(run.j + 1 - run.count) \div BlockBits
                                .. run.j \div BlockBits :
                             run \in {x \in ToSet(round_plan(Pivot(seed, r, n), n)) :
                                        x.count # 0}}
        IN [p \in Indices(n) |-> p \div BlockBits \in hashed /\ seed.bit[r][p]]]

traj_bitmap(index, n, seed) ==
    LET maps == bitmaps(n, seed)
    IN Trajectory(index, n, seed, Backwards, LAMBDA r, p : maps[r][p])

(***************************************************************************)
(* What consumers read.                                                    *)
(***************************************************************************)
\* The chain's committees: position p of the shuffled order is validator
\* shuffled_index(p), and a slot's committees are an equal slice of it.
selftest_reference(n, seed) ==
    [v \in Indices(n) |->
        slot_of_position(
            CHOOSE p \in Indices(n) : shuffled_index(p, n, seed) = v, n)]

\* The rule's table over an active list of validators, slots within the epoch.
assignment_table(active, seed) ==
    LET len == Len(active)
        per_slot == Min({Max({(len \div SlotCount) \div CommitteeSize, 1}),
                         CommitteeLimit})
        count == per_slot * SlotCount
        shuffled == shuffle_list([i \in Indices(len) |-> active[i + 1]], len, seed)
        committee(i) == CHOOSE c \in 0 .. count - 1 :
                            i \in (len * c) \div count .. (len * (c + 1)) \div count - 1
    IN [v \in ToSet(active) |->
            committee(CHOOSE i \in Indices(len) : shuffled[i] = v) \div per_slot]

\* The committee proof's slot for each validator of an active list.
committee_slots(active, seed) ==
    LET n == Len(active)
    IN [v \in ToSet(active) |->
            slot_of_position(
                committee_position((CHOOSE i \in 1 .. n : active[i] = v) - 1, n, seed),
                n)]

\* Every form's assignment of 0 .. n - 1.
Assignments(n, seed) ==
    LET labels == whole_set_shuffle(label_array(n), n, seed)
        positions == whole_set_shuffle([v \in Indices(n) |-> v], n, seed)
        planes == bitslice_shuffle(n, seed)
        walked == bitslice_shuffle_planes(n, seed)
        active == Upto(n)
    IN {[v \in Indices(n) |-> slot_of_position(traj_hashed(v, n, seed), n)],
        [v \in Indices(n) |-> slot_of_position(traj_bitmap(v, n, seed), n)],
        [v \in Indices(n) |-> slot_of_position(positions[v], n)],
        [v \in Indices(n) |-> labels[v]],
        [v \in Indices(n) |-> bitslice_get(planes, v)],
        [v \in Indices(n) |-> bitslice_get(walked, v)],
        assignment_table(active, seed),
        committee_slots(active, seed)}
=============================================================================
