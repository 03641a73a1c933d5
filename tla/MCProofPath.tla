---------------------------- MODULE MCProofPath ----------------------------
(***************************************************************************)
(* Three epochs of three slots over at most eight validators.              *)
(***************************************************************************)
EXTENDS ProofPath

FarFuture == 99

Held(balance, activation, exit, other) ==
    [balance |-> balance, activation |-> activation, exit |-> exit, slashed |-> FALSE,
     other |-> other]

\* Before epoch 2: 5 activates, 0 is topped up, 1 asks to exit.  Before epoch
\* 3: 1 is gone, 7 is deposited and active, 2 changes where it withdraws to, 3 is
\* slashed.
Registries ==
    LET first == [v \in 0 .. 6 |-> Held(IF v < 4 THEN 2 ELSE 1,
                                        IF v = 5 THEN 2 ELSE 0, FarFuture, 0)]
        second == [first EXCEPT ![0].balance = 3, ![1].exit = 3]
        third == [second EXCEPT ![2].other = 1, ![3].slashed = TRUE] @@ (7 :> Held(1, 3, FarFuture, 0))
    IN <<first, second, third>>

\* Nothing changes before epoch 2: an init point of epoch 1 opens as one of it.
Quiet ==
    LET first == [Registries[1] EXCEPT ![5].activation = 0]
    IN <<first, first, Registries[3]>>

Bits(Of(_, _)) == [r \in 0 .. 1 |-> [p \in 0 .. 15 |-> Of(r, p)]]

Unshuffled == [pivot |-> [r \in 0 .. 1 |-> 0], bit |-> Bits(LAMBDA r, p : FALSE)]
\* The heavier validators attest last.
Turned == [pivot |-> [r \in 0 .. 1 |-> 4 * r], bit |-> Bits(LAMBDA r, p : TRUE)]
Mixed == [pivot |-> [r \in 0 .. 1 |-> 4 + r], bit |-> Bits(LAMBDA r, p : (p + r) % 2 = 0)]

MCBenchSizes == {1, 4, 5, 8, 11}
MCBenchSeeds ==
    {[pivot |-> [r \in 0 .. 1 |-> IF r = 0 THEN a ELSE b], bit |-> bits] :
        a \in {0, 3, 10}, b \in {1, 6},
        bits \in {Bits(LAMBDA r, p : TRUE), Bits(LAMBDA r, p : p % 3 = r),
                  Bits(LAMBDA r, p : (p \div 2) % 2 = r)}}

MCProver == [stage_floor |-> 2, per_validator |-> 1, per_member |-> 1, acc_node |-> 1,
             message |-> 1, fp12 |-> 1, final_exp |-> 1, wrap |-> 1,
             recursion_verify |-> 1, first_child |-> 1, acc_depth |-> 3,
             committee_depth |-> 2]

Policy(lanes, pool, numerator, denominator, validators, chunks) ==
    [lanes |-> lanes, pool |-> pool, numerator |-> numerator, denominator |-> denominator,
     validators |-> validators, committee_chunks |-> chunks]

OneLane == Policy(1, "fungible", 2, 3, 0, 1)
Apart == Policy(3, "specialised", 2, 3, 8, 1)
Beyond == Policy(2, "fungible", 5, 6, 8, 2)
Crowded == Policy(3, "fungible", 2, 3, 40, 2)

AnchoredWorld(serves, first, pipeline, widths, missed, orphaned, seed, policy, bodies, confirms) ==
    [serves |-> serves, registry |-> Registries, missed |-> missed, seed |-> [e \in 1 .. 3 |-> IF e = 1 THEN first ELSE seed],
     pipeline |-> pipeline, policy |-> policy, group_width |-> widths[1],
     fold_width |-> widths[2], orphaned |-> orphaned, bodies |-> bodies,
     confirms |-> confirms]

SeededWorld(first, pipeline, widths, missed, orphaned, seed, policy, bodies, confirms) ==
    AnchoredWorld(1, first, pipeline, widths, missed, orphaned, seed, policy, bodies, confirms)

World(pipeline, widths, missed, orphaned, seed, policy, bodies, confirms) ==
    SeededWorld(seed, pipeline, widths, missed, orphaned, seed, policy, bodies, confirms)

Batches == <<"batch", "batch", "batch">>
BatchThenStream == <<"batch", "batch", "stream">>
Streams == <<"batch", "stream", "stream">>

InBlocks == {"whole", "split", "stale", "wrong", "absent", "late", "overlap"}
Gossiped == {"singles", "split", "absent", "overlap", "wrong"}
Few == {"singles", "absent", "late"}

MCWorlds ==
    {World(Batches, <<1, 1>>, {}, 0, Unshuffled, OneLane, InBlocks, FALSE),
     World(Batches, <<2, 1>>, {}, 0, Mixed, OneLane, InBlocks, FALSE),
     World(Batches, <<1, 2>>, {2, 4}, 0, Mixed, OneLane, InBlocks, FALSE),
     World(Batches, <<1, 1>>, {3}, 2, Unshuffled, OneLane, InBlocks, FALSE),
     World(BatchThenStream, <<1, 1>>, {}, 0, Unshuffled, OneLane, Gossiped, TRUE),
     World(Streams, <<1, 1>>, {3}, 0, Mixed, Apart, Few, TRUE),
     SeededWorld(Turned, Streams, <<1, 1>>, {}, 0, Unshuffled, OneLane, {"absent"}, TRUE),
     AnchoredWorld(2, Unshuffled, Batches, <<1, 1>>, {}, 2, Unshuffled, OneLane, {"whole"}, FALSE),
     World(Batches, <<1, 1>>, {}, 1, Unshuffled, OneLane, {"whole"}, FALSE),
     World(Streams, <<1, 1>>, {4}, 0, Mixed, Crowded, Few, FALSE),
     World(Streams, <<1, 1>>, {}, 2, Unshuffled, Beyond, Few, FALSE),
     [World(Batches, <<1, 1>>, {}, 0, Unshuffled, OneLane, {"whole"}, FALSE)
         EXCEPT !.registry = Quiet]}
=============================================================================
