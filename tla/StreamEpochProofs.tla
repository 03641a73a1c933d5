-------------------------- MODULE StreamEpochProofs --------------------------
(***************************************************************************)
(* Proofs about StreamEpoch, for any number of slots, any committee, any   *)
(* order of the votes, and any number of reorgs, outages and crashes.      *)
(***************************************************************************)
EXTENDS StreamEpoch, SortingTheorems, SequenceTheorems

-----------------------------------------------------------------------------
(* The sets the variables range over.                                      *)

Kinds == {"none", "group", "fold", "final"}
Aggregators ==
    [root : Roots \cup {None}, heard : SUBSET Votes, units : Seq(Units),
     proved : Nat, unfolded : Nat, aggregate : SUBSET Slots, group : SUBSET Slots,
     gap : BOOLEAN, reorged : BOOLEAN, waits : 0 .. MaxWaits]
Proofs ==
    [kind : Kinds, aggregate : SUBSET Slots, group : SUBSET Slots, slots : Seq(Slots),
     end : Nat, landed : BOOLEAN]

ChainTypes ==
    /\ head \in 0 .. ScanEnd
    /\ canon \in Roots
    /\ cast \in [Votes -> Roots \cup {None}]
    /\ included \in SUBSET Votes

SourceTypes ==
    /\ link \in BOOLEAN /\ gapped \in BOOLEAN /\ reorgEvent \in BOOLEAN
    /\ inbox \in SUBSET Votes /\ missed \in SUBSET Votes
    /\ outages \in 0 .. MaxOutages

DaemonTypes ==
    /\ agg \in Aggregators
    /\ pending \in Proofs
    /\ pc \in {"idle", "settle", "decide"}
    /\ outcome \in {"open", "published", "abandoned"}
    /\ crashes \in 0 .. MaxCrashes

Types == ChainTypes /\ SourceTypes /\ DaemonTypes

-----------------------------------------------------------------------------
(* The invariant.                                                          *)

\* A slot is heard of or closed, not both, and what is held is for the root.
Heard(a) ==
    /\ a.root = None => a = NoAggregator
    /\ \A v \in a.heard : v[1] \notin Closed(a) /\ cast[v] = a.root
    /\ \A i, j \in 1 .. Len(a.units) : a.units[i].slot = a.units[j].slot => i = j
    /\ \A i \in 1 .. Len(a.units) :
         a.units[i].weight <=
            Cardinality({v \in Votes : v[1] = a.units[i].slot /\ cast[v] = a.root})

\* The target is not reached by the first n units.
Below(units, n) == Weight(SubSeq(units, 1, n)) < Target

SlotsFrom(units, first, last) == {units[i].slot : i \in first .. last}

\* The proofs held are of the units the counters say, short of the target.
Counters(a) ==
    /\ a.proved <= Len(a.units) /\ a.aggregate = SlotsFrom(a.units, 1, a.proved)
    /\ Below(a.units, a.proved)
    /\ a.unfolded = 0 => a.group = {}
    /\ a.unfolded # 0 =>
         /\ a.proved < a.unfolded /\ a.unfolded <= Len(a.units)
         /\ a.group = SlotsFrom(a.units, a.proved + 1, a.unfolded)
         /\ Below(a.units, a.unfolded)

\* What is being proved is of the units after those.
InFlight(a, p) ==
    /\ p.kind = "none" => p = NoProof
    /\ p.kind \in {"group", "fold"} =>
         /\ a.unfolded = 0 /\ a.proved < p.end /\ p.end <= Len(a.units)
         /\ Below(a.units, p.end)
    /\ p.kind = "group" => Range(p.slots) = SlotsFrom(a.units, a.proved + 1, p.end)
    /\ p.kind = "fold" =>
         /\ p.aggregate = a.aggregate
         /\ p.group = SlotsFrom(a.units, a.proved + 1, p.end)
    /\ p.kind = "final" =>
         /\ a.unfolded = 0
         /\ Crossing(a.units) \in 1 .. Len(a.units)
         /\ a.units[Crossing(a.units)].slot \in Range(p.slots)
         /\ p.aggregate \cap p.group = {}
         /\ Range(p.slots) \cap (p.aggregate \cup p.group) = {}
         /\ p.aggregate \cup p.group \cup Range(p.slots)
              = SlotsFrom(a.units, 1, Crossing(a.units))

\* A tick is of an epoch that is open, and decides only when the prover is free.
Ticking ==
    /\ pc # "idle" \/ pending # NoProof => agg.root # None
    /\ pc = "decide" => pending = NoProof

Inv == Types /\ Heard(agg) /\ Counters(agg) /\ InFlight(agg, pending) /\ Ticking

-----------------------------------------------------------------------------
(* Votes, units and their weight.                                          *)

LEMMA VotesAreFinite ==
    /\ Slots \in SUBSET Int /\ IsFiniteSet(Slots) /\ Slots # {}
    /\ IsFiniteSet(Votes) /\ Cardinality(Votes) \in Nat
    /\ Cardinality(Members) \in Nat \ {0}
    /\ Target \in Nat \ {0}
<1>1. SlotCount \in Nat \ {0} /\ 0 \in Slots /\ Slots \in SUBSET Int
  BY SlotCountAssumption DEF Slots
<1>2. IsFiniteSet(Slots)
  BY <1>1, FS_Interval DEF Slots
<1>3. IsFiniteSet(Members) /\ Cardinality(Members) \in Nat /\ Cardinality(Members) # 0
  BY MembersAssumption, FS_CardinalityType, FS_EmptySet
<1>4. Cardinality(Slots) \in Nat /\ Cardinality(Slots) # 0
  BY <1>1, <1>2, FS_CardinalityType, FS_EmptySet
<1>5. IsFiniteSet(Votes) /\ Cardinality(Votes) \in Nat
  BY <1>2, <1>3, FS_Product, FS_CardinalityType DEF Votes
<1>6. Votes # {}
  <2>1. PICK m \in Members : TRUE
    BY MembersAssumption
  <2>2. <<0, m>> \in Votes
    BY <1>1 DEF Votes
  <2> QED
    BY <2>2
<1>7. Cardinality(Votes) # 0
  BY <1>5, <1>6, FS_EmptySet
<1>8. \A n \in Nat : n # 0 => (2 * n + 2) \div 3 \in Nat \ {0}
  OBVIOUS
<1> QED
  BY <1>1, <1>2, <1>3, <1>5, <1>7, <1>8 DEF Target

\* A sequence weighs no less than what it begins with.
Begins(s, t) == Len(s) <= Len(t) /\ \A i \in 1 .. Len(s) : s[i] = t[i]

LEMMA WeightGrows ==
    ASSUME NEW s \in Seq(Units), NEW t \in Seq(Units), Begins(s, t)
    PROVE  Weight(s) \in Nat /\ Weight(t) \in Nat /\ Weight(s) <= Weight(t)
<1> DEFINE C == 1 .. Cardinality(Members)
           S == {vote \in (DOMAIN s) \X C : vote[2] <= s[vote[1]].weight}
           T == {vote \in (DOMAIN t) \X C : vote[2] <= t[vote[1]].weight}
<1>1. /\ DOMAIN s = 1 .. Len(s) /\ DOMAIN t = 1 .. Len(t)
      /\ Len(s) \in Nat /\ Len(t) \in Nat
  BY LenProperties
<1>2. IsFiniteSet(DOMAIN t) /\ IsFiniteSet(C)
  BY <1>1, VotesAreFinite, FS_Interval
<1>3. IsFiniteSet((DOMAIN t) \X C)
  BY <1>2, FS_Product
<1>4. T \in SUBSET ((DOMAIN t) \X C)
  OBVIOUS
<1>5. IsFiniteSet(T)
  BY <1>3, <1>4, FS_Subset
<1>6. S \in SUBSET T
  BY <1>1 DEF Begins
<1>7. IsFiniteSet(S) /\ Cardinality(S) <= Cardinality(T)
  BY <1>5, <1>6, FS_Subset
<1>8. Cardinality(S) \in Nat /\ Cardinality(T) \in Nat
  BY <1>5, <1>7, FS_CardinalityType
<1> QED
  BY <1>7, <1>8 DEF Weight

LEMMA WeightOfNone == Weight(<<>>) = 0
<1>1. {vote \in (DOMAIN <<>>) \X (1 .. Cardinality(Members)) : vote[2] <= <<>>[vote[1]].weight} = {}
  OBVIOUS
<1> QED
  BY <1>1, FS_EmptySet DEF Weight

\* What the first units are, and that those that follow do not change it.
LEMMA FirstUnits ==
    ASSUME NEW s \in Seq(Units), NEW n \in 0 .. Len(s)
    PROVE  /\ SubSeq(s, 1, n) \in Seq(Units) /\ Len(SubSeq(s, 1, n)) = n
           /\ Begins(SubSeq(s, 1, n), s)
           /\ \A m \in 0 .. n : Begins(SubSeq(s, 1, m), SubSeq(s, 1, n))
           /\ \A t \in Seq(Units) : Begins(s, t) => SubSeq(t, 1, n) = SubSeq(s, 1, n)
<1>1. Len(s) \in Nat /\ \A i \in 1 .. Len(s) : s[i] \in Units
  BY LenProperties, ElementOfSeq
<1>2. ASSUME NEW m \in 0 .. Len(s)
      PROVE  /\ SubSeq(s, 1, m) \in Seq(Units) /\ Len(SubSeq(s, 1, m)) = m
             /\ \A i \in 1 .. m : SubSeq(s, 1, m)[i] = s[i]
  <2>1. \A i \in 1 .. m : s[i] \in Units
    BY <1>1, <1>2
  <2>2. /\ SubSeq(s, 1, m) \in Seq(Units)
        /\ Len(SubSeq(s, 1, m)) = IF 1 <= m THEN m - 1 + 1 ELSE 0
        /\ \A i \in 1 .. m - 1 + 1 : SubSeq(s, 1, m)[i] = s[1 + i - 1]
    BY <1>1, <2>1, SubSeqProperties
  <2> QED
    BY <1>1, <2>2
<1>3. \A m \in 0 .. n : m \in 0 .. Len(s)
  BY <1>1
<1>4. ASSUME NEW t \in Seq(Units), Begins(s, t)
      PROVE  SubSeq(t, 1, n) = SubSeq(s, 1, n)
  <2>1. \A i \in 1 .. n : t[i] = s[i] /\ t[i] \in Units
    BY <1>1, <1>4 DEF Begins
  <2>2. /\ SubSeq(t, 1, n) \in Seq(Units)
        /\ Len(SubSeq(t, 1, n)) = IF 1 <= n THEN n - 1 + 1 ELSE 0
        /\ \A i \in 1 .. n - 1 + 1 : SubSeq(t, 1, n)[i] = t[1 + i - 1]
    BY <1>1, <2>1, SubSeqProperties
  <2>3. Len(SubSeq(t, 1, n)) = n /\ \A i \in 1 .. n : SubSeq(t, 1, n)[i] = s[i]
    BY <1>1, <2>1, <2>2
  <2> QED
    BY <1>2, <2>2, <2>3, SeqEqual
<1> QED
  BY <1>1, <1>2, <1>3, <1>4 DEF Begins

\* Once the target is reached a unit crosses it, after all that stay below.
LEMMA CrossingIsReached ==
    ASSUME NEW units \in Seq(Units), Weight(units) >= Target
    PROVE  /\ Crossing(units) \in 1 .. Len(units)
           /\ \A n \in 0 .. Len(units) : Below(units, n) => n < Crossing(units)
<1> DEFINE over == {i \in DOMAIN units : Weight(SubSeq(units, 1, i)) >= Target}
<1>1. Len(units) \in Nat /\ DOMAIN units = 1 .. Len(units) /\ Target \in Nat \ {0}
  BY LenProperties, VotesAreFinite
<1>2. Len(units) # 0
  <2>1. Len(units) = 0 => units = <<>>
    BY EmptySeq
  <2> QED
    BY <1>1, <2>1, WeightOfNone
<1>3. SubSeq(units, 1, Len(units)) = units
  BY SubSeqFull
<1>4. Len(units) \in over /\ over \in SUBSET Nat
  <2>1. Len(units) \in DOMAIN units /\ DOMAIN units \in SUBSET Nat
    BY <1>1, <1>2
  <2>2. Weight(SubSeq(units, 1, Len(units))) >= Target
    BY <1>3
  <2> QED
    BY <2>1, <2>2
<1>5. \E i \in over : \A j \in over : i <= j
  BY <1>4, LeastNatural
<1>6. Crossing(units) \in over
  BY <1>4, <1>5 DEF Crossing
<1>7. ASSUME NEW n \in 0 .. Len(units), Below(units, n), ~(n < Crossing(units))
      PROVE  FALSE
  <2> DEFINE c == Crossing(units)
  <2> HIDE DEF c
  <2>1. c \in 1 .. Len(units) /\ c <= n /\ Weight(SubSeq(units, 1, c)) >= Target
    BY <1>1, <1>6, <1>7 DEF c
  <2>2. c \in 0 .. n
    BY <1>1, <2>1
  <2>3. /\ SubSeq(units, 1, n) \in Seq(Units) /\ SubSeq(units, 1, c) \in Seq(Units)
        /\ Begins(SubSeq(units, 1, c), SubSeq(units, 1, n))
    BY <2>1, <2>2, FirstUnits
  <2>4. /\ Weight(SubSeq(units, 1, c)) \in Nat /\ Weight(SubSeq(units, 1, n)) \in Nat
        /\ Weight(SubSeq(units, 1, c)) <= Weight(SubSeq(units, 1, n))
    BY <2>3, WeightGrows
  <2> QED
    BY <1>1, <1>7, <2>1, <2>4 DEF Below
<1> QED
  BY <1>1, <1>6, <1>7

-----------------------------------------------------------------------------
(* What the operators of a tick return.                                    *)

\* The votes heard for a slot are some of its committee, and at least one.
LEMMA HeardOfASlot ==
    ASSUME NEW heard \in SUBSET Votes, NEW s \in {v[1] : v \in heard}
    PROVE  /\ Cardinality({v \in heard : v[1] = s}) \in 1 .. Cardinality(Members)
           /\ s \in Slots
<1> DEFINE of == {v \in heard : v[1] = s}
<1>1. PICK v \in heard : v[1] = s
  OBVIOUS
<1>2. v \in of /\ s \in Slots
  BY <1>1 DEF Votes
<1>3. of \in SUBSET ({s} \X Members)
  BY DEF Votes
<1>4. /\ IsFiniteSet({s}) /\ Cardinality({s}) = 1 /\ IsFiniteSet(Members)
      /\ Cardinality(Members) \in Nat
  BY FS_Singleton, MembersAssumption, VotesAreFinite
<1>5. IsFiniteSet({s} \X Members) /\ Cardinality({s} \X Members) = Cardinality(Members)
  BY <1>4, FS_Product
<1>6. IsFiniteSet(of) /\ Cardinality(of) <= Cardinality(Members)
  BY <1>3, <1>5, FS_Subset
<1>7. Cardinality(of) \in Nat /\ Cardinality(of) # 0
  BY <1>2, <1>6, FS_CardinalityType, FS_EmptySet
<1> QED
  BY <1>2, <1>4, <1>6, <1>7

\* The open units are one for each slot heard of, of what was heard for it.
Opens(open, a) ==
    /\ open \in Seq(Units)
    /\ {open[i].slot : i \in 1 .. Len(open)} = {v[1] : v \in a.heard}
    /\ \A i, j \in 1 .. Len(open) : open[i].slot = open[j].slot => i = j
    /\ \A i \in 1 .. Len(open) :
         open[i].weight = Cardinality({v \in a.heard : v[1] = open[i].slot})

LEMMA OpenUnitsAre ==
    ASSUME NEW a \in Aggregators, NEW open, open = OpenUnits(a)
    PROVE  Opens(open, a)
<1> DEFINE S == {v[1] : v \in a.heard}
           n == Cardinality(S)
           slots == InOrder(S)
<1>1. a.heard \in SUBSET Votes /\ S \in SUBSET Slots
  BY HeardOfASlot DEF Aggregators
<1>2. S \in SUBSET Int /\ IsFiniteSet(S)
  BY <1>1, VotesAreFinite, FS_Subset
<1> HIDE DEF S
<1>3. /\ slots \in [1 .. n -> S] /\ n \in Nat
      /\ \A i, j \in 1 .. n : i < j => slots[i] < slots[j]
      /\ \A x \in S : \E i \in 1 .. n : slots[i] = x
  BY <1>2, InOrderSorts
<1>4. open = [i \in 1 .. n |-> [slot |-> slots[i],
                               weight |-> Cardinality({v \in a.heard : v[1] = slots[i]})]]
  BY <1>3 DEF OpenUnits, S
<1> HIDE DEF slots, n
<1>5. \A i \in 1 .. n : slots[i] \in Slots /\ slots[i] \in Int
                        /\ Cardinality({v \in a.heard : v[1] = slots[i]}) \in 1 .. Cardinality(Members)
  BY <1>1, <1>2, <1>3, HeardOfASlot DEF S
<1>6. open \in [1 .. n -> Units]
  BY <1>4, <1>5 DEF Units
<1>7. open \in Seq(Units) /\ Len(open) = n
  BY <1>3, <1>6
<1>8. \A i \in 1 .. n : /\ open[i].slot = slots[i]
                        /\ open[i].weight = Cardinality({v \in a.heard : v[1] = slots[i]})
  BY <1>4
<1>9. \A i \in 1 .. n : slots[i] \in S /\ slots[i] \in Int
  BY <1>2, <1>3
<1>10. \A i, j \in 1 .. n : slots[i] = slots[j] => i = j
  <2> SUFFICES ASSUME NEW i \in 1 .. n, NEW j \in 1 .. n, slots[i] = slots[j], i # j
               PROVE  FALSE
    OBVIOUS
  <2>1. i < j \/ j < i
    BY <1>3
  <2>2. slots[i] < slots[j] \/ slots[j] < slots[i]
    BY <1>3, <2>1
  <2> QED
    BY <1>9, <2>2
<1>11. {open[i].slot : i \in 1 .. n} = S
  <2>1. ASSUME NEW x \in S PROVE x \in {open[i].slot : i \in 1 .. n}
    <3>1. PICK i \in 1 .. n : slots[i] = x
      BY <1>3
    <3> QED
      BY <1>8, <3>1
  <2>2. \A i \in 1 .. n : open[i].slot \in S
    BY <1>8, <1>9
  <2> QED
    BY <2>1, <2>2
<1>12. ASSUME NEW i \in 1 .. n
       PROVE  open[i].weight = Cardinality({v \in a.heard : v[1] = open[i].slot})
  <2>1. open[i].slot = slots[i]
    BY <1>8
  <2> QED
    BY <1>8, <2>1, Zenon
<1>13. \A i, j \in 1 .. n : open[i].slot = open[j].slot => i = j
  BY <1>8, <1>10
<1>14. Len(open) = n
  BY <1>7
<1>15. {open[i].slot : i \in 1 .. Len(open)} = {v[1] : v \in a.heard}
  BY <1>11, <1>14 DEF S
<1> QED
  BY <1>7, <1>12, <1>13, <1>14, <1>15 DEF Opens

\* What is ingested is for the root, and for slots that are open.
LEMMA IngestDoes ==
    ASSUME NEW a \in Aggregators, NEW votes \in SUBSET Votes
    PROVE  /\ Ingest(a, votes) \in Aggregators
           /\ Ingest(a, votes).heard = a.heard \cup
                {v \in votes : cast[v] = a.root /\ v[1] \notin Closed(a)}
           /\ \A field \in {"root", "units", "proved", "unfolded", "aggregate", "group",
                            "gap", "reorged", "waits"} :
                Ingest(a, votes)[field] = a[field]
<1> DEFINE more == a.heard \cup {v \in votes : cast[v] = a.root /\ v[1] \notin Closed(a)}
<1>1. more \in SUBSET Votes
  BY DEF Aggregators
<1>2. Ingest(a, votes) = [a EXCEPT !.heard = more]
  BY DEF Ingest
<1> HIDE DEF more
<1> QED
  BY <1>1, <1>2 DEF Aggregators, more

\* The fields of an aggregator.
LEMMA Fields ==
    ASSUME NEW a \in Aggregators
    PROVE  /\ a.root \in Roots \cup {None} /\ a.heard \in SUBSET Votes
           /\ a.units \in Seq(Units) /\ Len(a.units) \in Nat
           /\ \A i \in 1 .. Len(a.units) : a.units[i] \in Units /\ a.units[i].slot \in Slots
           /\ DOMAIN a.units = 1 .. Len(a.units)
           /\ a.proved \in Nat /\ a.unfolded \in Nat
           /\ a.aggregate \in SUBSET Slots /\ a.group \in SUBSET Slots
           /\ a.waits \in 0 .. MaxWaits
<1>1. a.units \in Seq(Units)
  BY DEF Aggregators
<1>2. \A i \in 1 .. Len(a.units) : a.units[i] \in Units
  BY <1>1, ElementOfSeq
<1> QED
  BY <1>1, <1>2, LenProperties DEF Aggregators, Units

LEMMA AbsorbDoes ==
    ASSUME Types, NEW a \in Aggregators
    PROVE  /\ Absorb(a) \in Aggregators
           /\ Absorb(a).heard = a.heard \cup
                {v \in inbox : cast[v] = a.root /\ v[1] \notin Closed(a)}
           /\ \A field \in {"root", "units", "proved", "unfolded", "aggregate", "group", "waits"} :
                Absorb(a)[field] = a[field]
<1> DEFINE b == Ingest(a, inbox)
<1>1. inbox \in SUBSET Votes
  BY DEF Types, SourceTypes
<1>2. b \in Aggregators
  BY <1>1, IngestDoes
<1>3. \A x, y \in BOOLEAN : [b EXCEPT !.reorged = x, !.gap = y] \in Aggregators
  <2> HIDE DEF b
  <2>1. ASSUME NEW x \in BOOLEAN, NEW y \in BOOLEAN
        PROVE  [b EXCEPT !.reorged = x, !.gap = y] \in Aggregators
    BY <1>2 DEF Aggregators
  <2> QED
    BY <2>1
<1>4. (b.reorged \/ reorgEvent) \in BOOLEAN /\ (b.gap \/ gapped) \in BOOLEAN
  BY Zenon
<1> DEFINE x == b.reorged \/ reorgEvent
           y == b.gap \/ gapped
<1>5. Absorb(a) = [b EXCEPT !.reorged = x, !.gap = y]
  BY DEF Absorb
<1>6. \A field \in {"root", "heard", "units", "proved", "unfolded", "aggregate", "group", "waits"} :
        Absorb(a)[field] = b[field]
  <2> HIDE DEF b, x, y
  <2> QED
    BY <1>2, <1>5 DEF Aggregators
<1>7. Absorb(a) \in Aggregators
  BY <1>3, <1>4, <1>5
<1> HIDE DEF b, x, y
<1> QED
  BY <1>1, <1>6, <1>7, IngestDoes DEF b

\* What was heard stays for the root, and open, as more is absorbed.
LEMMA AbsorbKeepsHeard ==
    ASSUME Types, NEW a \in Aggregators, Heard(a), a.root # None,
           NEW votes \in SUBSET Votes, NEW b \in Aggregators,
           b.root = a.root, b.units = a.units,
           b.heard = a.heard \cup {v \in votes : cast[v] = a.root /\ v[1] \notin Closed(a)}
    PROVE  Heard(b)
<1>1. Closed(b) = Closed(a)
  BY DEF Closed
<1> QED
  BY <1>1 DEF Heard

\* Closing moves what was heard for those slots into units.
LEMMA CloseDoes ==
    ASSUME Types, NEW a \in Aggregators, Heard(a), a.root # None,
           NEW open, open = OpenUnits(a), NEW closing \in Seq(Units), Begins(closing, open),
           NEW c, c = Close(a, closing)
    PROVE  /\ c \in Aggregators /\ c.units = a.units \o closing
           /\ Begins(a.units, c.units) /\ Begins(c.units, a.units \o open)
           /\ a.units \o open \in Seq(Units)
           /\ \A field \in {"root", "proved", "unfolded", "aggregate", "group", "gap", "reorged",
                            "waits"} : c[field] = a[field]
           /\ Heard(c)
<1> DEFINE units == a.units \o closing
           left == {v \in a.heard : \A i \in DOMAIN closing : closing[i].slot # v[1]}
           n == Len(a.units)
           k == Len(closing)
<1>1. /\ open \in Seq(Units) /\ Len(open) \in Nat
      /\ {open[i].slot : i \in 1 .. Len(open)} = {v[1] : v \in a.heard}
      /\ \A i, j \in 1 .. Len(open) : open[i].slot = open[j].slot => i = j
      /\ \A i \in 1 .. Len(open) :
           open[i].weight = Cardinality({v \in a.heard : v[1] = open[i].slot})
  <2>1. Opens(open, a)
    BY OpenUnitsAre
  <2>2. open \in Seq(Units)
    BY <2>1 DEF Opens
  <2>3. Len(open) \in Nat
    BY <2>2, LenProperties
  <2> QED
    BY <2>1, <2>3 DEF Opens
<1>2. /\ a.units \in Seq(Units) /\ n \in Nat /\ k \in Nat /\ k <= Len(open)
      /\ DOMAIN closing = 1 .. k /\ a.heard \in SUBSET Votes
      /\ \A i \in 1 .. k : closing[i] = open[i]
      /\ \A i \in 1 .. n : a.units[i] \in Units
  BY LenProperties, Fields DEF Begins
<1>3. /\ units \in Seq(Units) /\ Len(units) = n + k
      /\ \A i \in 1 .. n + k : units[i] = IF i <= n THEN a.units[i] ELSE closing[i - n]
  BY <1>2, ConcatProperties
<1>4. /\ a.units \o open \in Seq(Units) /\ Len(a.units \o open) = n + Len(open)
      /\ \A i \in 1 .. n + Len(open) :
           (a.units \o open)[i] = IF i <= n THEN a.units[i] ELSE open[i - n]
  BY <1>1, <1>2, ConcatProperties
<1>5. c = [a EXCEPT !.units = units, !.heard = left]
  BY DEF Close
<1>6. left \in SUBSET Votes
  BY <1>2
<1> HIDE DEF units, left
<1>7. /\ c \in Aggregators /\ c.units = units /\ c.heard = left
      /\ \A field \in {"root", "proved", "unfolded", "aggregate", "group", "gap", "reorged",
                       "waits"} : c[field] = a[field]
  BY <1>3, <1>5, <1>6 DEF Aggregators
<1> HIDE DEF n, k
<1>8. \A i \in 1 .. n : units[i] = a.units[i]
  BY <1>2, <1>3
<1>9. \A i \in 1 .. k : units[n + i] = closing[i] /\ units[n + i] = open[i]
  <2>1. ASSUME NEW i \in 1 .. k PROVE units[n + i] = closing[i]
    <3>1. PICK j \in 1 .. n + k : j = n + i /\ ~(j <= n) /\ j - n = i
      BY <1>2
    <3>2. units[j] = closing[j - n]
      BY <1>3, <3>1
    <3>3. closing[j - n] = closing[i]
      BY <3>1, Zenon
    <3> QED
      BY <3>1, <3>2, <3>3, Zenon
  <2> QED
    BY <1>2, <2>1
<1>10. Begins(a.units, units)
  BY <1>2, <1>3, <1>8 DEF Begins, n
<1>11. Begins(units, a.units \o open)
  <2>1. n + k <= n + Len(open)
    BY <1>1, <1>2
  <2>2. ASSUME NEW i \in 1 .. n + k PROVE units[i] = (a.units \o open)[i]
    <3>1. i \in 1 .. n + Len(open)
      BY <1>1, <1>2
    <3>2. CASE i <= n
      BY <1>3, <1>4, <3>1, <3>2
    <3>3. CASE ~(i <= n)
      <4>1. i - n \in 1 .. k
        BY <1>2, <3>3
      <4> QED
        BY <1>2, <1>3, <1>4, <3>1, <3>3, <4>1
    <3> QED
      BY <3>2, <3>3
  <2> QED
    BY <1>3, <1>4, <2>1, <2>2 DEF Begins
\* The slots that were closed before are not heard of, and those closed now are.
<1>12. \A i \in 1 .. n : a.units[i].slot \in Closed(a)
  BY <1>2, Fields DEF Closed, n
<1>13. \A i \in 1 .. k : open[i].slot \in {v[1] : v \in a.heard}
  <2>1. \A i \in 1 .. Len(open) : open[i].slot \in {open[j].slot : j \in 1 .. Len(open)}
    OBVIOUS
  <2>2. \A i \in 1 .. Len(open) : open[i].slot \in {v[1] : v \in a.heard}
    BY <1>1, <2>1
  <2>3. \A i \in 1 .. k : i \in 1 .. Len(open)
    BY <1>1, <1>2
  <2> QED
    BY <2>2, <2>3
<1>14. \A i \in 1 .. k : open[i].slot \notin Closed(a)
  BY <1>13 DEF Heard
<1>15. \A i \in 1 .. n + k : i \in 1 .. n \/ \E j \in 1 .. k : i = n + j
  <2>1. TAKE i \in 1 .. n + k
  <2>2. i <= n => i \in 1 .. n
    BY <1>2
  <2>3. ~(i <= n) => i - n \in 1 .. k /\ i = n + (i - n)
    BY <1>2
  <2> QED
    BY <2>2, <2>3
<1>16. ASSUME NEW i \in 1 .. n + k, NEW j \in 1 .. n + k, units[i].slot = units[j].slot
       PROVE  i = j
  <2>1. CASE i \in 1 .. n /\ j \in 1 .. n
    BY <1>8, <1>16, <2>1 DEF Heard, n
  <2>2. CASE \E x, y \in 1 .. k : i = n + x /\ j = n + y
    <3>1. PICK x \in 1 .. k, y \in 1 .. k : i = n + x /\ j = n + y
      BY <2>2
    <3>2. open[x].slot = open[y].slot /\ x \in 1 .. Len(open) /\ y \in 1 .. Len(open)
      BY <1>1, <1>2, <1>9, <1>16, <3>1
    <3> QED
      BY <1>1, <3>1, <3>2
  <2>3. CASE i \in 1 .. n /\ \E y \in 1 .. k : j = n + y
    BY <1>8, <1>9, <1>12, <1>14, <1>16, <2>3
  <2>4. CASE j \in 1 .. n /\ \E x \in 1 .. k : i = n + x
    BY <1>8, <1>9, <1>12, <1>14, <1>16, <2>4
  <2> QED
    BY <1>15, <2>1, <2>2, <2>3, <2>4
<1>17. ASSUME NEW v \in left
       PROVE  v[1] \notin Closed(c) /\ cast[v] = a.root
  <2>1. v \in a.heard /\ \A i \in 1 .. k : closing[i].slot # v[1]
    BY <1>2 DEF left
  <2>2. v[1] \notin Closed(a) /\ cast[v] = a.root
    BY <2>1 DEF Heard
  <2>3. \A i \in 1 .. n + k : units[i].slot # v[1]
    BY <1>8, <1>9, <1>12, <1>15, <2>1, <2>2
  <2>4. DOMAIN units = 1 .. n + k
    BY <1>3, LenProperties
  <2> QED
    BY <1>7, <2>2, <2>3, <2>4 DEF Closed
<1>18. ASSUME NEW i \in 1 .. n + k
       PROVE  units[i].weight <=
                Cardinality({v \in Votes : v[1] = units[i].slot /\ cast[v] = a.root})
  <2>1. CASE i \in 1 .. n
    <3>1. units[i] = a.units[i]
      BY <1>8, <2>1
    <3>2. a.units[i].weight <=
            Cardinality({v \in Votes : v[1] = a.units[i].slot /\ cast[v] = a.root})
      BY <2>1 DEF Heard, n
    <3> QED
      BY <3>1, <3>2, Zenon
  <2>2. CASE \E j \in 1 .. k : i = n + j
    <3>1. PICK j \in 1 .. k : i = n + j
      BY <2>2
    <3> DEFINE s == open[j].slot
               of == {v \in a.heard : v[1] = s}
               all == {v \in Votes : v[1] = s /\ cast[v] = a.root}
    <3>2. units[i] = open[j] /\ j \in 1 .. Len(open)
      BY <1>1, <1>2, <1>9, <3>1
    <3>3. units[i].weight = Cardinality(of)
      BY <1>1, <3>2
    <3>4. of \in SUBSET all
      BY <1>2 DEF Heard
    <3>5. all \in SUBSET Votes /\ IsFiniteSet(Votes)
      BY VotesAreFinite
    <3>6. Cardinality(of) <= Cardinality(all)
      <4> HIDE DEF of, all
      <4> QED
        BY <3>4, <3>5, FS_Subset
    <3>7. units[i].slot = s
      BY <3>2
    <3>8. all = {v \in Votes : v[1] = units[i].slot /\ cast[v] = a.root}
      BY <3>7
    <3> HIDE DEF of, all
    <3> QED
      BY <3>3, <3>6, <3>8
  <2> QED
    BY <1>15, <2>1, <2>2
<1>19. Heard(c)
  BY <1>3, <1>7, <1>16, <1>17, <1>18 DEF Heard
<1> QED
  BY <1>4, <1>7, <1>10, <1>11, <1>19 DEF units

\* The slots of a range of units, in the order of the units.
LEMMA SlotsOfType ==
    ASSUME NEW units \in Seq(Units), NEW first \in Nat \ {0}, NEW last \in Nat,
           last <= Len(units)
    PROVE  /\ SlotsOf(units, first, last) \in Seq(Slots)
           /\ Range(SlotsOf(units, first, last)) = SlotsFrom(units, first, last)
<1> DEFINE slots == SlotsOf(units, first, last)
           n == last - first + 1
<1>1. Len(units) \in Nat /\ \A i \in 1 .. Len(units) : units[i] \in Units
  BY LenProperties, ElementOfSeq
<1>2. \A i \in first .. last : units[i].slot \in Slots
  <2>1. \A i \in first .. last : i \in 1 .. Len(units)
    BY <1>1
  <2> QED
    BY <1>1, <2>1 DEF Units
<1>3. \A i \in 1 .. n : first + i - 1 \in first .. last
  OBVIOUS
<1>4. slots = [i \in 1 .. n |-> units[first + i - 1].slot]
  BY DEF SlotsOf
<1>5. \A i \in 1 .. n : slots[i] = units[first + i - 1].slot
  BY <1>4
<1>6. slots \in Seq(Slots)
  <2> DEFINE m == IF n < 0 THEN 0 ELSE n
  <2>1. m \in Nat /\ 1 .. n = 1 .. m
    OBVIOUS
  <2>2. \A i \in 1 .. n : slots[i] \in Slots
    BY <1>2, <1>3, <1>5
  <2>3. slots \in [1 .. n -> Slots]
    <3> HIDE DEF n
    <3> QED
      BY <1>4, <2>2
  <2>4. slots \in [1 .. m -> Slots]
    BY <2>1, <2>3
  <2> HIDE DEF m, slots
  <2> QED
    BY <2>1, <2>4
<1>7. Range(slots) = {slots[i] : i \in 1 .. n}
  <2>1. DOMAIN slots = 1 .. n
    BY <1>4
  <2> HIDE DEF slots, n
  <2> QED
    BY <2>1 DEF Range
<1>8. ASSUME NEW j \in first .. last
      PROVE  units[j].slot \in {slots[i] : i \in 1 .. n}
  <2>1. PICK i \in 1 .. n : first + i - 1 = j
    <3>1. j - first + 1 \in 1 .. n /\ first + (j - first + 1) - 1 = j
      OBVIOUS
    <3> QED
      BY <3>1
  <2>2. slots[i] = units[j].slot
    BY <1>5, <2>1, Zenon
  <2> QED
    BY <2>2
<1>9. ASSUME NEW i \in 1 .. n
      PROVE  slots[i] \in SlotsFrom(units, first, last)
  BY <1>3, <1>5 DEF SlotsFrom
<1>10. SlotsFrom(units, first, last) \in SUBSET {slots[i] : i \in 1 .. n}
  <2> HIDE DEF slots, n
  <2> QED
    BY <1>8 DEF SlotsFrom
<1>11. {slots[i] : i \in 1 .. n} \in SUBSET SlotsFrom(units, first, last)
  <2> HIDE DEF slots, n
  <2> QED
    BY <1>9
<1> QED
  BY <1>6, <1>7, <1>10, <1>11

\* Units that follow change nothing of what the first are.
LEMMA FirstStay ==
    ASSUME NEW s \in Seq(Units), NEW t \in Seq(Units), Begins(s, t)
    PROVE  /\ \A i \in Nat, j \in Nat : 1 <= i /\ j <= Len(s) => SlotsFrom(t, i, j) = SlotsFrom(s, i, j)
           /\ \A n \in Nat : n <= Len(s) => (Below(s, n) <=> Below(t, n))
<1>1. Len(s) \in Nat
  BY LenProperties
<1>2. ASSUME NEW i \in Nat, NEW j \in Nat, 1 <= i, j <= Len(s)
      PROVE  SlotsFrom(t, i, j) = SlotsFrom(s, i, j)
  <2>1. \A x \in i .. j : t[x] = s[x]
    BY <1>1, <1>2 DEF Begins
  <2> QED
    BY <2>1 DEF SlotsFrom
<1>3. ASSUME NEW n \in Nat, n <= Len(s)
      PROVE  Below(s, n) <=> Below(t, n)
  <2>1. n \in 0 .. Len(s)
    BY <1>1, <1>3
  <2>2. SubSeq(t, 1, n) = SubSeq(s, 1, n)
    BY <2>1, FirstUnits
  <2> QED
    BY <2>2 DEF Below
<1> QED
  BY <1>2, <1>3

\* The counters say the same of the proofs held when units are closed.
LEMMA CountersStay ==
    ASSUME NEW a \in Aggregators, NEW b \in Aggregators, Counters(a), Begins(a.units, b.units),
           b.proved = a.proved, b.unfolded = a.unfolded, b.aggregate = a.aggregate,
           b.group = a.group
    PROVE  Counters(b)
<1> DEFINE s == a.units
           t == b.units
<1>1. s \in Seq(Units) /\ t \in Seq(Units) /\ Len(s) \in Nat /\ Len(t) \in Nat
      /\ a.proved \in Nat /\ a.unfolded \in Nat /\ Len(s) <= Len(t)
  BY Fields DEF Begins
<1>2. /\ \A i \in Nat, j \in Nat : 1 <= i /\ j <= Len(s) => SlotsFrom(t, i, j) = SlotsFrom(s, i, j)
      /\ \A n \in Nat : n <= Len(s) => (Below(s, n) <=> Below(t, n))
  BY <1>1, FirstStay
<1>3. /\ a.proved <= Len(s) /\ a.aggregate = SlotsFrom(s, 1, a.proved) /\ Below(s, a.proved)
  BY DEF Counters
<1>4. b.proved <= Len(t) /\ b.aggregate = SlotsFrom(t, 1, b.proved) /\ Below(t, b.proved)
  BY <1>1, <1>2, <1>3
<1>5. b.unfolded = 0 => b.group = {}
  BY DEF Counters
<1>6. ASSUME b.unfolded # 0
      PROVE  /\ b.proved < b.unfolded /\ b.unfolded <= Len(t)
             /\ b.group = SlotsFrom(t, b.proved + 1, b.unfolded)
             /\ Below(t, b.unfolded)
  <2>1. /\ a.proved < a.unfolded /\ a.unfolded <= Len(s)
        /\ a.group = SlotsFrom(s, a.proved + 1, a.unfolded)
        /\ Below(s, a.unfolded)
    BY <1>6 DEF Counters
  <2>2. a.proved + 1 \in Nat /\ 1 <= a.proved + 1
    BY <1>1
  <2>3. SlotsFrom(t, a.proved + 1, a.unfolded) = SlotsFrom(s, a.proved + 1, a.unfolded)
    BY <1>1, <1>2, <2>1, <2>2
  <2>4. Below(t, a.unfolded)
    BY <1>1, <1>2, <2>1
  <2> QED
    BY <1>1, <2>1, <2>3, <2>4
<1> QED
  BY <1>4, <1>5, <1>6 DEF Counters

\* So does what is said of the group or the fold in flight.
LEMMA InFlightStays ==
    ASSUME NEW a \in Aggregators, NEW b \in Aggregators, NEW p \in Proofs, InFlight(a, p),
           Begins(a.units, b.units), p.kind # "final" \/ b.units = a.units,
           b.proved = a.proved, b.unfolded = a.unfolded, b.aggregate = a.aggregate
    PROVE  InFlight(b, p)
<1> DEFINE s == a.units
           t == b.units
<1>1. s \in Seq(Units) /\ t \in Seq(Units) /\ Len(s) \in Nat /\ Len(t) \in Nat
      /\ a.proved \in Nat /\ Len(s) <= Len(t) /\ p.end \in Nat
  BY Fields DEF Begins, Proofs
<1>2. /\ \A i \in Nat, j \in Nat : 1 <= i /\ j <= Len(s) => SlotsFrom(t, i, j) = SlotsFrom(s, i, j)
      /\ \A n \in Nat : n <= Len(s) => (Below(s, n) <=> Below(t, n))
  BY <1>1, FirstStay
<1>3. CASE p.kind \in {"group", "fold"}
  <2>1. /\ a.unfolded = 0 /\ a.proved < p.end /\ p.end <= Len(s) /\ Below(s, p.end)
        /\ p.kind = "group" => Range(p.slots) = SlotsFrom(s, a.proved + 1, p.end)
        /\ p.kind = "fold" =>
             /\ p.aggregate = a.aggregate
             /\ p.group = SlotsFrom(s, a.proved + 1, p.end)
    BY <1>3 DEF InFlight
  <2>2. a.proved + 1 \in Nat /\ 1 <= a.proved + 1
    BY <1>1
  <2>3. SlotsFrom(t, a.proved + 1, p.end) = SlotsFrom(s, a.proved + 1, p.end)
    BY <1>1, <1>2, <2>1, <2>2
  <2>4. Below(t, p.end) /\ p.end <= Len(t)
    BY <1>1, <1>2, <2>1
  <2> QED
    BY <1>3, <2>1, <2>3, <2>4 DEF InFlight
<1>4. CASE p.kind = "none"
  BY <1>4 DEF InFlight
<1>5. CASE p.kind = "final"
  BY <1>5 DEF InFlight
<1> QED
  BY <1>3, <1>4, <1>5 DEF Proofs, Kinds

-----------------------------------------------------------------------------
(* The invariant, step by step.                                            *)

\* Nothing collected, nothing proved.
LEMMA NothingYet ==
    /\ NoAggregator \in Aggregators /\ NoProof \in Proofs
    /\ Heard(NoAggregator) /\ Counters(NoAggregator) /\ InFlight(NoAggregator, NoProof)
    /\ NoAggregator.root = None
<1>1. <<>> \in Seq(Units) /\ <<>> \in Seq(Slots) /\ Len(<<>>) = 0 /\ 0 \in 0 .. MaxWaits
  BY EmptySeq, BoundsAssumption
<1>2. NoAggregator \in Aggregators
  BY <1>1 DEF NoAggregator, Aggregators
<1>3. NoProof \in Proofs
  BY <1>1 DEF NoProof, Proofs, Kinds
<1>4. NoAggregator.heard = {} /\ NoAggregator.units = <<>> /\ NoAggregator.root = None
  BY DEF NoAggregator
<1>5. Heard(NoAggregator)
  BY <1>1, <1>4 DEF Heard
<1>6. Below(<<>>, 0)
  <2> DEFINE none == <<>>
  <2>1. none \in Seq(Units) /\ 0 \in 0 .. Len(none)
    BY <1>1
  <2> HIDE DEF none
  <2>2. SubSeq(none, 1, 0) \in Seq(Units) /\ Len(SubSeq(none, 1, 0)) = 0
    BY <2>1, FirstUnits
  <2>3. SubSeq(none, 1, 0) = <<>>
    BY <2>2, EmptySeq
  <2>4. Weight(SubSeq(none, 1, 0)) = 0
    BY <2>3, WeightOfNone, Zenon
  <2>5. Below(none, 0)
    BY <2>4, VotesAreFinite DEF Below
  <2> QED
    BY <2>5, Zenon DEF none
<1>7. SlotsFrom(<<>>, 1, 0) = {}
  BY DEF SlotsFrom
<1>8. Counters(NoAggregator)
  BY <1>1, <1>6, <1>7 DEF Counters, NoAggregator
<1>9. InFlight(NoAggregator, NoProof)
  BY DEF InFlight, NoProof
<1> QED
  BY <1>2, <1>3, <1>4, <1>5, <1>8, <1>9

\* What was heard stays so while no vote is cast.
LEMMA HeardStays ==
    ASSUME cast' = cast, Heard(agg')
    PROVE  Heard(agg)'
BY DEF Heard, Closed

\* A step of the chain or of the event stream.
LEMMA OutsideKeeps ==
    ASSUME Inv, ChainTypes', SourceTypes', daemonVars' = daemonVars, cast' = cast
    PROVE  Inv'
<1>1. /\ agg' = agg /\ pending' = pending /\ pc' = pc /\ outcome' = outcome
      /\ crashes' = crashes
  BY DEF daemonVars
<1>2. Types'
  BY <1>1 DEF Inv, Types, DaemonTypes
<1>3. Heard(agg)'
  BY <1>1, HeardStays DEF Inv
<1>4. Counters(agg)' /\ InFlight(agg, pending)' /\ Ticking'
  BY <1>1 DEF Inv, Ticking
<1> QED
  BY <1>2, <1>3, <1>4 DEF Inv

\* A step that ends the epoch, or what is held of it.
LEMMA EndingKeeps ==
    ASSUME Inv, Types', agg' = NoAggregator, pending' = NoProof, pc' = "idle", cast' = cast
    PROVE  Inv'
<1>1. Heard(agg)'
  BY NothingYet, HeardStays
<1>2. Counters(agg)' /\ InFlight(agg, pending)'
  BY NothingYet
<1>3. Ticking'
  BY DEF Ticking
<1> QED
  BY <1>1, <1>2, <1>3 DEF Inv

\* A vote changes nothing of those cast before it.
LEMMA AttestKeeps ==
    ASSUME Inv, NEW v \in Votes, Attest(v)
    PROVE  Inv'
<1>1. /\ cast[v] = None /\ cast' = [cast EXCEPT ![v] = canon] /\ canon \in Roots
      /\ cast \in [Votes -> Roots \cup {None}]
  BY DEF Inv, Types, ChainTypes, Attest
<1>2. /\ agg' = agg /\ pending' = pending /\ pc' = pc /\ outcome' = outcome
      /\ crashes' = crashes
  BY DEF Attest, daemonVars
<1>3. ChainTypes'
  BY <1>1 DEF Inv, Types, ChainTypes, Attest
<1>4. SourceTypes'
  BY DEF Inv, Types, SourceTypes, Attest
<1>5. DaemonTypes'
  BY <1>2 DEF Inv, Types, DaemonTypes
<1>6. \A w \in Votes : cast[w] # None => cast'[w] = cast[w]
  BY <1>1
<1>7. agg \in Aggregators /\ Heard(agg)
  BY DEF Inv, Types, DaemonTypes
<1>8. CASE agg.root = None
  <2>1. agg = NoAggregator /\ NoAggregator.heard = {} /\ Len(NoAggregator.units) = 0
    BY <1>7, <1>8, EmptySeq DEF Heard, NoAggregator
  <2>2. Heard(agg)'
    BY <1>2, <2>1 DEF Heard
  <2> QED
    BY <1>2, <1>3, <1>4, <1>5, <2>2 DEF Inv, Types, Ticking
<1>9. CASE agg.root # None
  <2>1. \A w \in agg.heard : w[1] \notin Closed(agg) /\ cast'[w] = agg.root
    BY <1>6, <1>7, <1>9, Fields DEF Heard
  <2>2. ASSUME NEW i \in 1 .. Len(agg.units)
        PROVE  agg.units[i].weight <=
                 Cardinality({w \in Votes : w[1] = agg.units[i].slot /\ cast'[w] = agg.root})
    <3> DEFINE s == agg.units[i].slot
               old == {w \in Votes : w[1] = s /\ cast[w] = agg.root}
               new == {w \in Votes : w[1] = s /\ cast'[w] = agg.root}
    <3>1. old \in SUBSET new
      BY <1>6, <1>9
    <3>2. new \in SUBSET Votes /\ IsFiniteSet(Votes)
      BY VotesAreFinite
    <3>3. agg.units[i].weight <= Cardinality(old)
      BY <1>7 DEF Heard
    <3>4. agg.units[i].weight \in Int
      BY <1>7, Fields, VotesAreFinite DEF Units
    <3> HIDE DEF old, new
    <3>5. IsFiniteSet(new) /\ IsFiniteSet(old) /\ Cardinality(old) <= Cardinality(new)
      BY <3>1, <3>2, FS_Subset
    <3>6. Cardinality(old) \in Nat /\ Cardinality(new) \in Nat
      BY <3>5, FS_CardinalityType
    <3>7. agg.units[i].weight <= Cardinality(new)
      BY <3>3, <3>4, <3>5, <3>6
    <3> QED
      BY <3>7 DEF new
  <2>3. \A i, j \in 1 .. Len(agg.units) : agg.units[i].slot = agg.units[j].slot => i = j
    BY <1>7 DEF Heard
  <2>4. Heard(agg)'
    BY <1>2, <1>9, <2>1, <2>2, <2>3 DEF Heard, Closed
  <2> QED
    BY <1>2, <1>3, <1>4, <1>5, <2>4 DEF Inv, Types, Ticking
<1> QED
  BY <1>8, <1>9

LEMMA ReorgKeeps == Inv /\ Reorg => Inv'
<1> SUFFICES ASSUME Inv, Reorg PROVE Inv'
  OBVIOUS
<1>1. canon \in 0 .. MaxReorgs /\ canon < MaxReorgs /\ canon' = canon + 1 /\ MaxReorgs \in Nat
  BY BoundsAssumption DEF Reorg, Inv, Types, ChainTypes, Roots
<1>2. ChainTypes'
  BY <1>1 DEF Reorg, Inv, Types, ChainTypes, Roots
<1>3. SourceTypes'
  <2>1. reorgEvent' \in BOOLEAN
    BY Zenon DEF Reorg
  <2> QED
    BY <2>1 DEF Reorg, Inv, Types, SourceTypes
<1> QED
  BY <1>2, <1>3, OutsideKeeps DEF Reorg

LEMMA LinkKeeps == Inv /\ (Disconnect \/ ConnectFails \/ Reconnect) => Inv'
<1> SUFFICES ASSUME Inv, Disconnect \/ ConnectFails \/ Reconnect PROVE Inv'
  OBVIOUS
<1>1. ChainTypes' /\ cast' = cast /\ daemonVars' = daemonVars
  BY DEF Disconnect, ConnectFails, Reconnect, Inv, Types, ChainTypes, chainVars
<1>2. SourceTypes'
  <2>1. SourceTypes
    BY DEF Inv, Types
  <2>2. CASE Disconnect
    <3>1. outages' \in 0 .. MaxOutages
      BY <2>1, <2>2, BoundsAssumption DEF Disconnect, SourceTypes
    <3> QED
      BY <2>1, <2>2, <3>1 DEF Disconnect, SourceTypes
  <2>3. CASE ConnectFails
    BY <2>1, <2>3 DEF ConnectFails, SourceTypes
  <2>4. CASE Reconnect
    BY <2>1, <2>4 DEF Reconnect, SourceTypes
  <2> QED
    BY <2>2, <2>3, <2>4
<1> QED
  BY <1>1, <1>2, OutsideKeeps

LEMMA ChainGrowsKeeps == Inv /\ ChainGrows => Inv'
<1> SUFFICES ASSUME Inv, ChainGrows PROVE Inv'
  OBVIOUS
<1>1. ChainTypes'
  BY ScanEndAssumption DEF ChainGrows, Inv, Types, ChainTypes
<1>2. SourceTypes'
  BY DEF ChainGrows, Inv, Types, SourceTypes, sourceVars
<1> QED
  BY <1>1, <1>2, OutsideKeeps DEF ChainGrows

LEMMA CrashKeeps == Inv /\ Crash => Inv'
<1> SUFFICES ASSUME Inv, Crash PROVE Inv'
  OBVIOUS
<1>1. ChainTypes' /\ cast' = cast
  BY DEF Crash, Inv, Types, ChainTypes, chainVars
<1>2. SourceTypes'
  BY DEF Crash, Down, Inv, Types, SourceTypes
<1>3. DaemonTypes'
  BY NothingYet, BoundsAssumption DEF Crash, Down, Inv, Types, DaemonTypes
<1> QED
  BY <1>1, <1>2, <1>3, EndingKeeps DEF Crash, Down, Types

\* A step of the daemon alone leaves the chain, and the source but for its inbox.
LEMMA ChainStays ==
    ASSUME Inv, chainVars' = chainVars
    PROVE  ChainTypes' /\ cast' = cast
BY DEF Inv, Types, ChainTypes, chainVars

LEMMA SourceStays ==
    ASSUME Inv, sourceVars' = sourceVars \/ (Drained /\ UNCHANGED <<link, missed, outages>>)
    PROVE  SourceTypes'
<1>1. SourceTypes
  BY DEF Inv, Types
<1>2. CASE sourceVars' = sourceVars
  BY <1>1, <1>2 DEF SourceTypes, sourceVars
<1>3. CASE Drained /\ UNCHANGED <<link, missed, outages>>
  BY <1>1, <1>3 DEF SourceTypes, Drained
<1> QED
  BY <1>2, <1>3

LEMMA OpenKeeps == Inv /\ Open => Inv'
<1> SUFFICES ASSUME Inv, Open PROVE Inv'
  OBVIOUS
<1>1. ChainTypes' /\ cast' = cast /\ SourceTypes' /\ canon \in Roots
  BY ChainStays, SourceStays DEF Open, Inv, Types, ChainTypes
<1> DEFINE a == [NoAggregator EXCEPT !.root = canon, !.gap = TRUE]
<1>2. /\ a \in Aggregators /\ a.root = canon /\ a.heard = {} /\ a.units = <<>>
      /\ a.proved = 0 /\ a.unfolded = 0 /\ a.aggregate = {} /\ a.group = {}
  BY <1>1, NothingYet DEF NoAggregator, Aggregators
<1>3. agg' = a /\ pending' = NoProof /\ pc' = pc /\ outcome' = outcome /\ crashes' = crashes
      /\ pc = "idle"
  BY DEF Open
<1> HIDE DEF a
<1>4. canon # None
  BY <1>1, BoundsAssumption DEF Roots, None
<1>5. Heard(a)
  BY <1>2, <1>4, EmptySeq DEF Heard
<1>6. Counters(a)
  BY <1>2, NothingYet, Zenon DEF Counters, NoAggregator
<1>7. InFlight(a, NoProof)
  BY DEF InFlight, NoProof
<1>8. DaemonTypes'
  BY <1>2, <1>3, NothingYet DEF Inv, Types, DaemonTypes
<1>9. Heard(agg)'
  BY <1>1, <1>3, <1>5, HeardStays
<1>10. Ticking'
  BY <1>2, <1>3, <1>4 DEF Ticking
<1> QED
  BY <1>1, <1>3, <1>6, <1>7, <1>8, <1>9, <1>10 DEF Inv, Types

LEMMA ProverLandsKeeps == Inv /\ ProverLands => Inv'
<1> SUFFICES ASSUME Inv, ProverLands PROVE Inv'
  OBVIOUS
<1>1. ChainTypes' /\ cast' = cast /\ SourceTypes'
  BY ChainStays, SourceStays DEF ProverLands
<1>2. /\ pending \in Proofs /\ pending # NoProof /\ pending' = [pending EXCEPT !.landed = TRUE]
      /\ agg' = agg /\ pc' = pc /\ outcome' = outcome /\ crashes' = crashes
  BY DEF ProverLands, Inv, Types, DaemonTypes
<1>3. /\ pending' \in Proofs /\ pending'.kind = pending.kind /\ pending'.end = pending.end
      /\ pending'.aggregate = pending.aggregate /\ pending'.group = pending.group
      /\ pending'.slots = pending.slots
  BY <1>2 DEF Proofs
<1>4. DaemonTypes'
  BY <1>2, <1>3 DEF Inv, Types, DaemonTypes
<1>5. Heard(agg)' /\ Counters(agg)'
  BY <1>1, <1>2, HeardStays DEF Inv
<1>6. InFlight(agg, pending)'
  <2>1. InFlight(agg, pending) /\ pending.kind # "none"
    BY <1>2 DEF Inv, InFlight
  <2>2. InFlight(agg, pending')
    BY <1>3, <2>1 DEF InFlight
  <2> QED
    BY <1>2, <2>2
<1>7. Ticking'
  BY <1>2 DEF Inv, Ticking, ProverLands
<1> QED
  BY <1>1, <1>4, <1>5, <1>6, <1>7 DEF Inv, Types

LEMMA SettleWaitsKeeps == Inv /\ SettleWaits => Inv'
<1> SUFFICES ASSUME Inv, SettleWaits PROVE Inv'
  OBVIOUS
<1>1. ChainTypes' /\ cast' = cast /\ SourceTypes'
  BY ChainStays, SourceStays DEF SettleWaits
<1>2. agg' = agg /\ pending' = pending /\ DaemonTypes'
  BY DEF SettleWaits, Inv, Types, DaemonTypes
<1>3. Heard(agg)'
  BY <1>1, <1>2, HeardStays DEF Inv
<1>4. Counters(agg)' /\ InFlight(agg, pending)' /\ Ticking'
  BY <1>2 DEF Inv, Ticking, SettleWaits
<1> QED
  BY <1>1, <1>2, <1>3, <1>4 DEF Inv, Types

\* What is heard is not changed by what is proved.
LEMMA HeardAlone ==
    ASSUME NEW a \in Aggregators, NEW b \in Aggregators, Heard(a), a.root # None,
           b.root = a.root, b.heard = a.heard, b.units = a.units
    PROVE  Heard(b)
<1>1. Closed(b) = Closed(a)
  BY DEF Closed
<1> QED
  BY <1>1 DEF Heard

LEMMA CollectGroupKeeps == Inv /\ CollectGroup => Inv'
<1> SUFFICES ASSUME Inv, CollectGroup PROVE Inv'
  OBVIOUS
<1>1. ChainTypes' /\ cast' = cast /\ SourceTypes'
  BY ChainStays, SourceStays DEF CollectGroup
<1>2. /\ agg \in Aggregators /\ pending \in Proofs /\ Heard(agg) /\ Counters(agg)
      /\ InFlight(agg, pending) /\ Ticking
  BY DEF Inv, Types, DaemonTypes
<1>3. /\ pending.kind = "group" /\ pc = "settle" /\ pending' = NoProof /\ pc' = pc
      /\ agg' = [agg EXCEPT !.unfolded = pending.end, !.group = Range(pending.slots)]
      /\ outcome' = outcome /\ crashes' = crashes
  BY DEF CollectGroup, Settled
<1>4. /\ agg.unfolded = 0 /\ agg.proved < pending.end /\ pending.end <= Len(agg.units)
      /\ Below(agg.units, pending.end)
      /\ Range(pending.slots) = SlotsFrom(agg.units, agg.proved + 1, pending.end)
  BY <1>2, <1>3 DEF InFlight
<1>5. Range(pending.slots) \in SUBSET Slots /\ pending.end \in Nat
  <2>1. pending.slots \in Seq(Slots) /\ pending.end \in Nat
    BY <1>2 DEF Proofs
  <2>2. \A i \in DOMAIN pending.slots : pending.slots[i] \in Slots
    BY <2>1, ElementOfSeq, LenProperties
  <2> QED
    BY <2>1, <2>2 DEF Range
<1> DEFINE a == [agg EXCEPT !.unfolded = pending.end, !.group = Range(pending.slots)]
<1>6. /\ a \in Aggregators /\ a.root = agg.root /\ a.heard = agg.heard /\ a.units = agg.units
      /\ a.proved = agg.proved /\ a.aggregate = agg.aggregate
      /\ a.unfolded = pending.end /\ a.group = Range(pending.slots)
  <2> DEFINE group == Range(pending.slots)
             end == pending.end
  <2>1. group \in SUBSET Slots /\ end \in Nat
    BY <1>5
  <2> HIDE DEF group, end
  <2>2. LET b == [agg EXCEPT !.unfolded = end, !.group = group]
        IN /\ b \in Aggregators /\ b.root = agg.root /\ b.heard = agg.heard
           /\ b.units = agg.units /\ b.proved = agg.proved /\ b.aggregate = agg.aggregate
           /\ b.unfolded = end /\ b.group = group
    BY <1>2, <2>1 DEF Aggregators
  <2> QED
    BY <2>2 DEF group, end
<1>7. agg' = a
  BY <1>3
<1> HIDE DEF a
<1>8. agg.root # None
  BY <1>2, <1>3 DEF Ticking
<1>9. Heard(agg)'
  BY <1>1, <1>2, <1>6, <1>7, <1>8, HeardAlone, HeardStays
<1>10. agg.proved \in Nat
  BY <1>2, Fields
<1>11. Counters(a)
  BY <1>2, <1>4, <1>5, <1>6, <1>10 DEF Counters
<1>12. InFlight(a, NoProof)
  BY DEF InFlight, NoProof
<1>13. DaemonTypes'
  BY <1>3, <1>6, <1>7, NothingYet DEF Inv, Types, DaemonTypes
<1>14. Ticking'
  BY <1>3, <1>6, <1>7, <1>8 DEF Ticking
<1> QED
  BY <1>1, <1>3, <1>7, <1>9, <1>11, <1>12, <1>13, <1>14 DEF Inv, Types

LEMMA CollectFoldKeeps == Inv /\ CollectFold => Inv'
<1> SUFFICES ASSUME Inv, CollectFold PROVE Inv'
  OBVIOUS
<1>1. ChainTypes' /\ cast' = cast /\ SourceTypes'
  BY ChainStays, SourceStays DEF CollectFold
<1>2. /\ agg \in Aggregators /\ pending \in Proofs /\ Heard(agg) /\ Counters(agg)
      /\ InFlight(agg, pending) /\ Ticking
  BY DEF Inv, Types, DaemonTypes
<1> DEFINE aggregate == pending.aggregate \cup pending.group
           end == pending.end
           a == [agg EXCEPT !.proved = end, !.aggregate = aggregate]
<1>3. /\ pending.kind = "fold" /\ pc = "settle" /\ pending' = NoProof /\ pc' = "idle"
      /\ agg' = a /\ outcome' = outcome /\ crashes' = crashes
  BY DEF CollectFold, Settled
<1>4. /\ agg.unfolded = 0 /\ agg.proved < end /\ end <= Len(agg.units) /\ Below(agg.units, end)
      /\ pending.aggregate = agg.aggregate
      /\ pending.group = SlotsFrom(agg.units, agg.proved + 1, end)
  BY <1>2, <1>3 DEF InFlight
<1>5. aggregate \in SUBSET Slots /\ end \in Nat /\ agg.proved \in Nat
  BY <1>2, Fields DEF Proofs
<1>6. agg.aggregate = SlotsFrom(agg.units, 1, agg.proved) /\ agg.group = {}
  BY <1>2, <1>4 DEF Counters
<1>7. aggregate = SlotsFrom(agg.units, 1, end)
  <2>1. \A i \in 1 .. end : i \in 1 .. agg.proved \/ i \in agg.proved + 1 .. end
    BY <1>4, <1>5
  <2>2. \A i \in 1 .. agg.proved : i \in 1 .. end
    BY <1>4, <1>5
  <2>3. \A i \in agg.proved + 1 .. end : i \in 1 .. end
    BY <1>4, <1>5
  <2> HIDE DEF end
  <2> QED
    BY <1>4, <1>6, <2>1, <2>2, <2>3 DEF SlotsFrom
<1> HIDE DEF end, aggregate
<1>8. /\ a \in Aggregators /\ a.root = agg.root /\ a.heard = agg.heard /\ a.units = agg.units
      /\ a.proved = end /\ a.aggregate = aggregate
      /\ a.unfolded = agg.unfolded /\ a.group = agg.group
  BY <1>2, <1>5 DEF Aggregators
<1> HIDE DEF a
<1>9. agg.root # None
  BY <1>2, <1>3 DEF Ticking
<1>10. Heard(agg)'
  BY <1>1, <1>2, <1>3, <1>8, <1>9, HeardAlone, HeardStays
<1>11. Counters(a)
  BY <1>4, <1>6, <1>7, <1>8 DEF Counters
<1>12. InFlight(a, NoProof)
  BY DEF InFlight, NoProof
<1>13. DaemonTypes'
  BY <1>3, <1>8, NothingYet DEF Inv, Types, DaemonTypes
<1>14. Ticking'
  BY <1>3 DEF Ticking
<1> QED
  BY <1>1, <1>3, <1>10, <1>11, <1>12, <1>13, <1>14 DEF Inv, Types

LEMMA EndsKeep == Inv /\ (CollectFinal \/ ProverRefuses \/ GiveUp) => Inv'
<1> SUFFICES ASSUME Inv, CollectFinal \/ ProverRefuses \/ GiveUp PROVE Inv'
  OBVIOUS
<1>1. ChainTypes' /\ cast' = cast
  BY ChainStays DEF CollectFinal, ProverRefuses, GiveUp
<1>2. SourceTypes'
  <2>1. CASE CollectFinal
    BY <2>1, SourceStays DEF CollectFinal
  <2>2. CASE ProverRefuses
    BY <2>2 DEF ProverRefuses, Down, Inv, Types, SourceTypes
  <2>3. CASE GiveUp
    BY <2>3, SourceStays DEF GiveUp
  <2> QED
    BY <2>1, <2>2, <2>3
<1>3. /\ agg' = NoAggregator /\ pending' = NoProof /\ pc' = "idle" /\ crashes' = crashes
      /\ outcome' \in {outcome, "open", "published", "abandoned"}
  BY DEF CollectFinal, ProverRefuses, GiveUp, Down
<1>4. DaemonTypes'
  BY <1>3, NothingYet DEF Inv, Types, DaemonTypes
<1> QED
  BY <1>1, <1>2, <1>3, <1>4, EndingKeeps DEF Types

LEMMA CheckReorgKeeps == Inv /\ CheckReorg => Inv'
<1> SUFFICES ASSUME Inv, CheckReorg PROVE Inv'
  OBVIOUS
<1>1. ChainTypes' /\ cast' = cast /\ SourceTypes'
  BY ChainStays, SourceStays DEF CheckReorg
<1>2. /\ agg \in Aggregators /\ Heard(agg) /\ Counters(agg) /\ Ticking
      /\ pc = "settle" /\ pending = NoProof /\ pending' = NoProof
      /\ outcome' = outcome /\ crashes' = crashes
  BY DEF Inv, Types, DaemonTypes, CheckReorg
<1>3. CASE agg.reorged /\ canon # agg.root
  <2>1. agg' = NoAggregator /\ pc' = "idle"
    BY <1>3 DEF CheckReorg
  <2>2. DaemonTypes'
    BY <1>2, <2>1, NothingYet DEF Inv, Types, DaemonTypes
  <2> QED
    BY <1>1, <1>2, <2>1, <2>2, EndingKeeps DEF Types
<1>4. CASE ~(agg.reorged /\ canon # agg.root)
  <2> DEFINE a == [agg EXCEPT !.reorged = FALSE]
  <2>1. agg' = a /\ pc' = "decide"
    BY <1>4 DEF CheckReorg
  <2>2. /\ a \in Aggregators /\ a.root = agg.root /\ a.heard = agg.heard /\ a.units = agg.units
        /\ a.proved = agg.proved /\ a.aggregate = agg.aggregate
        /\ a.unfolded = agg.unfolded /\ a.group = agg.group
    BY <1>2 DEF Aggregators
  <2> HIDE DEF a
  <2>3. agg.root # None
    BY <1>2 DEF Ticking
  <2>4. Heard(agg)'
    BY <1>1, <1>2, <2>1, <2>2, <2>3, HeardAlone, HeardStays
  <2>5. Counters(a)
    BY <1>2, <2>2 DEF Counters
  <2>6. InFlight(a, NoProof)
    BY DEF InFlight, NoProof
  <2>7. DaemonTypes'
    BY <1>2, <2>1, <2>2, NothingYet DEF Inv, Types, DaemonTypes
  <2>8. Ticking'
    BY <1>2, <2>1, <2>2, <2>3 DEF Ticking
  <2> QED
    BY <1>1, <1>2, <2>1, <2>4, <2>5, <2>6, <2>7, <2>8 DEF Inv, Types
<1> QED
  BY <1>3, <1>4

\* A unit sequence begins with itself.
LEMMA BeginsItself == \A s : Len(s) \in Nat => Begins(s, s)
BY DEF Begins

\* What is absorbed changes neither the units nor the proofs held.
LEMMA Absorbed ==
    ASSUME Inv, agg.root # None, NEW a, a = Absorb(agg)
    PROVE  /\ a \in Aggregators /\ a.root = agg.root /\ a.units = agg.units
           /\ a.proved = agg.proved /\ a.unfolded = agg.unfolded
           /\ a.aggregate = agg.aggregate /\ a.group = agg.group /\ a.waits = agg.waits
           /\ Heard(a) /\ Counters(a) /\ InFlight(a, pending)
<1>1. /\ Types /\ agg \in Aggregators /\ pending \in Proofs /\ inbox \in SUBSET Votes
      /\ Heard(agg) /\ Counters(agg) /\ InFlight(agg, pending)
  BY DEF Inv, Types, DaemonTypes, SourceTypes
<1>2. /\ a \in Aggregators
      /\ a.heard = agg.heard \cup {v \in inbox : cast[v] = agg.root /\ v[1] \notin Closed(agg)}
      /\ \A field \in {"root", "units", "proved", "unfolded", "aggregate", "group", "waits"} :
           a[field] = agg[field]
  BY <1>1, AbsorbDoes
<1>3. /\ a.root = agg.root /\ a.units = agg.units
      /\ a.proved = agg.proved /\ a.unfolded = agg.unfolded
      /\ a.aggregate = agg.aggregate /\ a.group = agg.group /\ a.waits = agg.waits
  BY <1>2
<1>4. Heard(a)
  BY <1>1, <1>2, <1>3, AbsorbKeepsHeard
<1>5. Begins(agg.units, a.units)
  BY <1>1, <1>3, Fields, BeginsItself
<1>6. Counters(a)
  BY <1>1, <1>2, <1>3, <1>5, CountersStay
<1>7. InFlight(a, pending)
  BY <1>1, <1>2, <1>3, <1>5, InFlightStays
<1> QED
  BY <1>2, <1>3, <1>4, <1>6, <1>7

LEMMA CollectKeeps == Inv /\ Collect => Inv'
<1> SUFFICES ASSUME Inv, Collect PROVE Inv'
  OBVIOUS
<1>1. ChainTypes' /\ cast' = cast /\ SourceTypes'
  BY ChainStays, SourceStays DEF Collect
<1>2. /\ Types /\ agg \in Aggregators /\ pending \in Proofs /\ included \in SUBSET Votes
      /\ Heard(agg) /\ agg # NoAggregator /\ pc' = "settle" /\ pending' = pending
      /\ outcome' = outcome /\ crashes' = crashes
  BY DEF Inv, Types, DaemonTypes, ChainTypes, Collect
<1>3. agg.root # None
  BY <1>2 DEF Heard
<1> DEFINE a == Absorb(agg)
           b == Ingest(a, included)
           c == [b EXCEPT !.gap = FALSE]
<1>4. agg' \in {a, c}
  BY DEF Collect
<1>5. /\ a \in Aggregators /\ a.root = agg.root /\ a.units = agg.units
      /\ Heard(a) /\ Counters(a) /\ InFlight(a, pending)
  BY <1>3, Absorbed
<1> HIDE DEF a
<1>6. /\ b \in Aggregators
      /\ b.heard = a.heard \cup {v \in included : cast[v] = a.root /\ v[1] \notin Closed(a)}
      /\ b.root = a.root /\ b.units = a.units /\ b.proved = a.proved
      /\ b.unfolded = a.unfolded /\ b.aggregate = a.aggregate /\ b.group = a.group
  BY <1>2, <1>5, IngestDoes
<1> HIDE DEF b
<1>7. /\ c \in Aggregators /\ c.heard = b.heard /\ c.root = b.root /\ c.units = b.units
      /\ c.proved = b.proved /\ c.unfolded = b.unfolded /\ c.aggregate = b.aggregate
      /\ c.group = b.group
  BY <1>6 DEF Aggregators
<1> HIDE DEF c
<1>8. Heard(c)
  <2>1. /\ c.heard = a.heard \cup {v \in included : cast[v] = a.root /\ v[1] \notin Closed(a)}
        /\ c.root = a.root /\ c.units = a.units
    BY <1>6, <1>7
  <2> QED
    BY <1>2, <1>3, <1>5, <1>7, <2>1, AbsorbKeepsHeard
<1>9. Begins(a.units, c.units) /\ c.units = a.units
  BY <1>5, <1>6, <1>7, Fields, BeginsItself
<1>10. Counters(c)
  BY <1>5, <1>6, <1>7, <1>9, CountersStay
<1>11. InFlight(c, pending)
  BY <1>2, <1>5, <1>6, <1>7, <1>9, InFlightStays
<1>12. /\ agg' \in Aggregators /\ agg'.root # None /\ Heard(agg') /\ Counters(agg')
       /\ InFlight(agg', pending)
  BY <1>3, <1>4, <1>5, <1>6, <1>7, <1>8, <1>10, <1>11
<1>13. Heard(agg)'
  BY <1>1, <1>12, HeardStays
<1>14. DaemonTypes'
  BY <1>2, <1>12 DEF Inv, Types, DaemonTypes
<1>15. Ticking'
  BY <1>2, <1>12 DEF Ticking
<1> QED
  BY <1>1, <1>2, <1>12, <1>13, <1>14, <1>15 DEF Inv, Types

\* What is closed by a tick that does not fire, and by one that does.
LEMMA FrontBegins ==
    ASSUME NEW open \in Seq(Units), open # <<>>
    PROVE  Front(open) \in Seq(Units) /\ Begins(Front(open), open)
<1>1. Len(open) \in Nat /\ Len(open) # 0
  BY LenProperties, EmptySeq
<1>2. /\ Front(open) = SubSeq(open, 1, Len(open) - 1)
      /\ Len(open) - 1 \in 0 .. Len(open)
  BY <1>1 DEF Front
<1> QED
  BY <1>2, FirstUnits

\* The proofs a tick starts.
LEMMA FoldStarted ==
    ASSUME NEW a \in Aggregators
    PROVE  /\ StartFold(a) \in Proofs /\ StartFold(a).kind = "fold"
           /\ StartFold(a).aggregate = a.aggregate /\ StartFold(a).group = a.group
           /\ StartFold(a).end = a.unfolded
<1> DEFINE aggregate == a.aggregate
           group == a.group
           end == a.unfolded
<1>1. /\ aggregate \in SUBSET Slots /\ group \in SUBSET Slots /\ end \in Nat
      /\ NoProof \in Proofs
  BY Fields, NothingYet
<1>2. StartFold(a) = [NoProof EXCEPT !.kind = "fold", !.end = end,
                        !.aggregate = aggregate, !.group = group]
  BY DEF StartFold
<1> HIDE DEF aggregate, group, end
<1>3. /\ StartFold(a) \in Proofs /\ StartFold(a).kind = "fold"
      /\ StartFold(a).aggregate = aggregate /\ StartFold(a).group = group
      /\ StartFold(a).end = end
  BY <1>1, <1>2 DEF Proofs, Kinds
<1> QED
  BY <1>3 DEF aggregate, group, end

LEMMA GroupStarted ==
    ASSUME NEW a \in Aggregators, a.proved < Len(a.units)
    PROVE  /\ StartGroup(a) \in Proofs /\ StartGroup(a).kind = "group"
           /\ StartGroup(a).end = Len(a.units)
           /\ Range(StartGroup(a).slots) = SlotsFrom(a.units, a.proved + 1, Len(a.units))
<1> DEFINE slots == SlotsOf(a.units, a.proved + 1, Len(a.units))
           end == Len(a.units)
<1>1. a.units \in Seq(Units) /\ end \in Nat /\ a.proved + 1 \in Nat \ {0} /\ NoProof \in Proofs
  BY Fields, NothingYet
<1>2. slots \in Seq(Slots) /\ Range(slots) = SlotsFrom(a.units, a.proved + 1, Len(a.units))
  BY <1>1, SlotsOfType
<1>3. StartGroup(a) = [NoProof EXCEPT !.kind = "group", !.end = end, !.slots = slots]
  BY DEF StartGroup
<1> HIDE DEF slots, end
<1>4. /\ StartGroup(a) \in Proofs /\ StartGroup(a).kind = "group"
      /\ StartGroup(a).end = end /\ StartGroup(a).slots = slots
  BY <1>1, <1>2, <1>3 DEF Proofs, Kinds
<1> QED
  BY <1>2, <1>4 DEF end

LEMMA WaitKeeps == Inv /\ Wait => Inv'
<1> SUFFICES ASSUME Inv, Wait PROVE Inv'
  OBVIOUS
<1>1. ChainTypes' /\ cast' = cast /\ SourceTypes'
  BY ChainStays, SourceStays DEF Wait
<1>2. /\ Types /\ Ticking /\ pc = "decide" /\ pc' = "idle"
      /\ outcome' = outcome /\ crashes' = crashes
  BY DEF Inv, Wait
<1>3. agg.root # None
  BY <1>2 DEF Ticking
<1> DEFINE a == Absorb(agg)
           open == OpenUnits(a)
           filling == Filling(a.units, open)
           enough == Weight(a.units \o open) >= Target
           closing == IF filling THEN Front(open) ELSE open
           closed == Close(a, closing)
           fold == ~enough /\ a.unfolded # 0
           group == ~enough /\ a.unfolded = 0 /\ a.proved < Len(closed.units)
           unfolded == IF fold THEN 0 ELSE closed.unfolded
           held == IF fold THEN {} ELSE closed.group
           waits == IF enough THEN closed.waits + 1 ELSE closed.waits
           b == [closed EXCEPT !.unfolded = unfolded, !.group = held, !.waits = waits]
           p == IF fold THEN StartFold(closed) ELSE IF group THEN StartGroup(closed) ELSE NoProof
<1>4. enough => a.waits < MaxWaits
  BY DEF Wait
<1>5. Hold(a, open, filling, enough)
  BY DEF Wait
<1>6. agg' = b /\ pending' = p
  BY <1>5 DEF Hold
<1>7. /\ a \in Aggregators /\ a.root = agg.root /\ Heard(a) /\ Counters(a)
  BY <1>3, Absorbed
<1> HIDE DEF a
<1>8. open \in Seq(Units)
  BY <1>7, OpenUnitsAre DEF Opens
<1>9. filling => open # <<>>
  BY DEF Filling
<1> HIDE DEF filling
<1>10. closing \in Seq(Units) /\ Begins(closing, open)
  <2>1. CASE filling
    <3> HIDE DEF open
    <3> QED
      BY <1>8, <1>9, <2>1, FrontBegins
  <2>2. CASE ~filling
    <3> HIDE DEF open
    <3> QED
      BY <1>8, <2>2, BeginsItself, LenProperties
  <2> QED
    BY <2>1, <2>2
<1>11. open = OpenUnits(a) /\ closed = Close(a, closing)
  OBVIOUS
<1> HIDE DEF open, closing, closed
<1>12. /\ closed \in Aggregators /\ Begins(a.units, closed.units)
       /\ Begins(closed.units, a.units \o open) /\ a.units \o open \in Seq(Units)
       /\ \A field \in {"root", "proved", "unfolded", "aggregate", "group", "gap", "reorged",
                        "waits"} : closed[field] = a[field]
       /\ Heard(closed)
  BY <1>2, <1>3, <1>7, <1>10, <1>11, CloseDoes
<1>13. /\ closed.root = a.root /\ closed.proved = a.proved /\ closed.unfolded = a.unfolded
       /\ closed.aggregate = a.aggregate /\ closed.group = a.group /\ closed.waits = a.waits
  BY <1>12
<1>14. Counters(closed)
  BY <1>7, <1>12, <1>13, CountersStay
<1>15. /\ closed.units \in Seq(Units) /\ Len(closed.units) \in Nat
       /\ closed.proved \in Nat /\ closed.unfolded \in Nat /\ closed.group \in SUBSET Slots
       /\ closed.waits \in 0 .. MaxWaits
  BY <1>12, Fields
<1>16. ~enough => Below(closed.units, Len(closed.units))
  <2>1. /\ Weight(closed.units) \in Nat /\ Weight(a.units \o open) \in Nat
        /\ Weight(closed.units) <= Weight(a.units \o open)
    BY <1>12, <1>15, WeightGrows
  <2>2. SubSeq(closed.units, 1, Len(closed.units)) = closed.units
    BY <1>15, SubSeqFull
  <2>3. Weight(SubSeq(closed.units, 1, Len(closed.units))) = Weight(closed.units)
    BY <2>2, Zenon
  <2> DEFINE x == Weight(a.units \o open)
             y == Weight(closed.units)
             z == Weight(SubSeq(closed.units, 1, Len(closed.units)))
  <2>4. x \in Nat /\ y \in Nat /\ y <= x /\ z = y
    BY <2>1, <2>3
  <2>5. ~enough <=> ~(x >= Target)
    OBVIOUS
  <2>6. z < Target <=> Below(closed.units, Len(closed.units))
    BY DEF Below
  <2> HIDE DEF x, y, z, enough
  <2> QED
    BY <2>4, <2>5, <2>6, VotesAreFinite
<1>17. unfolded \in Nat /\ held \in SUBSET Slots /\ waits \in 0 .. MaxWaits
  BY <1>4, <1>13, <1>15, BoundsAssumption
<1> HIDE DEF enough, fold, group, unfolded, held, waits
<1>a. b = [closed EXCEPT !.unfolded = unfolded, !.group = held, !.waits = waits]
  OBVIOUS
<1> HIDE DEF b
<1>18. /\ b \in Aggregators /\ b.root = closed.root /\ b.heard = closed.heard
       /\ b.units = closed.units /\ b.proved = closed.proved
       /\ b.aggregate = closed.aggregate /\ b.unfolded = unfolded /\ b.group = held
  <2>1. closed \in Aggregators
    BY <1>12
  <2> QED
    BY <2>1, <1>17, <1>a DEF Aggregators
<1>19. /\ closed.proved <= Len(closed.units)
       /\ closed.aggregate = SlotsFrom(closed.units, 1, closed.proved)
       /\ Below(closed.units, closed.proved)
       /\ closed.unfolded = 0 => closed.group = {}
       /\ closed.unfolded # 0 =>
            /\ closed.proved < closed.unfolded /\ closed.unfolded <= Len(closed.units)
            /\ closed.group = SlotsFrom(closed.units, closed.proved + 1, closed.unfolded)
            /\ Below(closed.units, closed.unfolded)
  BY <1>14 DEF Counters
<1>20. Counters(b)
  BY <1>18, <1>19 DEF Counters, unfolded, held
<1> USE DEF fold, group, unfolded
<1>21. p \in Proofs /\ InFlight(b, p)
  <2>1. CASE fold
    <3>1. p = StartFold(closed)
      BY <2>1
    <3>2. closed.unfolded # 0 /\ b.unfolded = 0
      BY <1>13, <1>18, <2>1
    <3> HIDE DEF p, fold, unfolded
    <3> QED
      BY <1>12, <1>18, <1>19, <3>1, <3>2, FoldStarted DEF InFlight
  <2>2. CASE group
    <3>1. p = StartGroup(closed) /\ ~enough
      BY <2>2
    <3>2. closed.proved < Len(closed.units) /\ b.unfolded = 0
      BY <1>13, <1>18, <2>2
    <3> HIDE DEF p, fold, group, unfolded
    <3> QED
      BY <1>12, <1>15, <1>16, <1>18, <3>1, <3>2, GroupStarted DEF InFlight
  <2>3. CASE ~fold /\ ~group
    <3>1. p = NoProof
      BY <2>3
    <3> HIDE DEF p
    <3> QED
      BY <3>1, NothingYet DEF InFlight, NoProof
  <2> QED
    BY <2>1, <2>2, <2>3
<1> HIDE DEF p
<1>22. Heard(b)
  BY <1>3, <1>7, <1>12, <1>13, <1>18, HeardAlone
<1>23. Heard(agg)'
  BY <1>1, <1>6, <1>22, HeardStays
<1>24. DaemonTypes'
  BY <1>2, <1>6, <1>18, <1>21 DEF Types, DaemonTypes
<1>25. Ticking'
  BY <1>2, <1>3, <1>6, <1>7, <1>13, <1>18 DEF Ticking
<1> QED
  BY <1>1, <1>6, <1>20, <1>21, <1>23, <1>24, <1>25 DEF Inv, Types

\* The final proof counts what the proofs held do and the units after them,
\* through the one that crosses the target.
LEMMA FinalStarted ==
    ASSUME NEW a \in Aggregators, Heard(a), Counters(a), Weight(a.units) >= Target,
           NEW p, p = StartFinal(a)
    PROVE  /\ p \in Proofs /\ p.kind = "final"
           /\ Crossing(a.units) \in 1 .. Len(a.units)
           /\ a.units[Crossing(a.units)].slot \in Range(p.slots)
           /\ p.aggregate \cap p.group = {}
           /\ Range(p.slots) \cap (p.aggregate \cup p.group) = {}
           /\ p.aggregate \cup p.group \cup Range(p.slots)
                = SlotsFrom(a.units, 1, Crossing(a.units))
<1> DEFINE units == a.units
           crossing == Crossing(units)
           start == IF a.unfolded # 0 THEN a.unfolded ELSE a.proved
           slots == SlotsOf(units, start + 1, crossing)
           tail == InlineTail(a, a.units)
<1>1. /\ units \in Seq(Units) /\ Len(units) \in Nat /\ a.proved \in Nat /\ a.unfolded \in Nat
      /\ a.aggregate \in SUBSET Slots /\ a.group \in SUBSET Slots /\ NoProof \in Proofs
  BY Fields, NothingYet
<1>2. /\ crossing \in 1 .. Len(units)
      /\ \A n \in 0 .. Len(units) : Below(units, n) => n < crossing
  BY <1>1, CrossingIsReached
<1>3. /\ a.proved <= Len(units) /\ a.aggregate = SlotsFrom(units, 1, a.proved)
      /\ Below(units, a.proved)
      /\ a.unfolded = 0 => a.group = {}
      /\ a.unfolded # 0 =>
           /\ a.proved < a.unfolded /\ a.unfolded <= Len(units)
           /\ a.group = SlotsFrom(units, a.proved + 1, a.unfolded)
           /\ Below(units, a.unfolded)
  BY DEF Counters
<1>4. start \in Nat /\ start < crossing /\ a.proved <= start /\ crossing \in Nat
  <2>1. start \in 0 .. Len(units) /\ Below(units, start) /\ a.proved <= start
    BY <1>1, <1>3
  <2> HIDE DEF start, crossing
  <2> QED
    BY <1>1, <1>2, <2>1
<1>5. a.group = SlotsFrom(units, a.proved + 1, start)
  <2>1. CASE a.unfolded # 0
    BY <1>3, <2>1
  <2>2. CASE a.unfolded = 0
    <3>1. a.proved + 1 .. a.proved = {}
      BY <1>1
    <3>2. SlotsFrom(units, a.proved + 1, a.proved) = {}
      BY <3>1 DEF SlotsFrom
    <3> QED
      BY <1>3, <2>2, <3>2
  <2> QED
    BY <2>1, <2>2
<1>6. tail = <<start, crossing>>
  BY <1>4 DEF InlineTail
<1>7. tail[1] = start /\ tail[2] = crossing
  <2> HIDE DEF tail, start, crossing
  <2> QED
    BY <1>6
<1>8. StartFinal(a) = [NoProof EXCEPT !.kind = "final", !.end = tail[2],
                         !.aggregate = a.aggregate, !.group = a.group,
                         !.slots = SlotsOf(a.units, tail[1] + 1, tail[2])]
  BY DEF StartFinal
<1> HIDE DEF tail, start, crossing
<1>9. p = [NoProof EXCEPT !.kind = "final", !.end = crossing, !.aggregate = a.aggregate,
                          !.group = a.group, !.slots = slots]
  BY <1>7, <1>8, Zenon DEF units
<1>10. slots \in Seq(Slots) /\ Range(slots) = SlotsFrom(units, start + 1, crossing)
  <2>1. start + 1 \in Nat \ {0} /\ crossing <= Len(units)
    BY <1>1, <1>2, <1>4
  <2> QED
    BY <1>1, <1>4, <2>1, SlotsOfType
<1> HIDE DEF slots, units
<1>11. /\ p \in Proofs /\ p.kind = "final" /\ p.slots = slots
       /\ p.aggregate = a.aggregate /\ p.group = a.group
  <2> DEFINE aggregate == a.aggregate
             group == a.group
  <2>1. aggregate \in SUBSET Slots /\ group \in SUBSET Slots
    BY <1>1
  <2>2. p = [NoProof EXCEPT !.kind = "final", !.end = crossing, !.aggregate = aggregate,
                            !.group = group, !.slots = slots]
    BY <1>9
  <2> HIDE DEF aggregate, group
  <2>3. /\ p \in Proofs /\ p.kind = "final" /\ p.slots = slots
        /\ p.aggregate = aggregate /\ p.group = group
    BY <1>1, <1>4, <1>10, <2>1, <2>2 DEF Proofs, Kinds
  <2> QED
    BY <2>3 DEF aggregate, group
<1>12. \A i, j \in 1 .. Len(units) : units[i].slot = units[j].slot => i = j
  BY DEF Heard, units
\* The three ranges are apart and are all of them.
<1>13. \A i \in 1 .. crossing : \/ i \in 1 .. a.proved
                                \/ i \in a.proved + 1 .. start
                                \/ i \in start + 1 .. crossing
  BY <1>1, <1>4
<1>14. /\ \A i \in 1 .. a.proved : i \in 1 .. crossing /\ i \in 1 .. start
       /\ \A i \in a.proved + 1 .. start : i \in 1 .. crossing /\ i \in 1 .. start
                                           /\ i \notin 1 .. a.proved
       /\ \A i \in start + 1 .. crossing : i \in 1 .. crossing /\ i \notin 1 .. start
       /\ \A i \in 1 .. crossing : i \in 1 .. Len(units)
  BY <1>1, <1>2, <1>4
<1> DEFINE first == SlotsFrom(units, 1, a.proved)
           second == SlotsFrom(units, a.proved + 1, start)
           third == SlotsFrom(units, start + 1, crossing)
<1>15. first \cap second = {}
  <2>1. ASSUME NEW i \in 1 .. a.proved, NEW j \in a.proved + 1 .. start,
               units[i].slot = units[j].slot
        PROVE  FALSE
    <3>1. i \in 1 .. Len(units) /\ j \in 1 .. Len(units) /\ i # j
      BY <1>14
    <3> QED
      BY <1>12, <2>1, <3>1
  <2> QED
    BY <2>1 DEF SlotsFrom
<1>16. third \cap (first \cup second) = {}
  <2>1. ASSUME NEW i \in 1 .. a.proved \cup (a.proved + 1 .. start),
               NEW j \in start + 1 .. crossing, units[i].slot = units[j].slot
        PROVE  FALSE
    <3>1. i \in 1 .. start /\ j \notin 1 .. start /\ i \in 1 .. crossing /\ j \in 1 .. crossing
      BY <1>14
    <3>2. i \in 1 .. Len(units) /\ j \in 1 .. Len(units) /\ i # j
      BY <1>14, <3>1
    <3> QED
      BY <1>12, <2>1, <3>2
  <2> QED
    BY <2>1 DEF SlotsFrom
<1>17. first \cup second \cup third = SlotsFrom(units, 1, crossing)
  BY <1>13, <1>14 DEF SlotsFrom
<1>18. units[crossing].slot \in third
  <2>1. crossing \in start + 1 .. crossing
    BY <1>4
  <2> QED
    BY <2>1 DEF SlotsFrom
<1>19. p.aggregate = first /\ p.group = second /\ Range(p.slots) = third
  BY <1>3, <1>5, <1>10, <1>11
<1> HIDE DEF first, second, third
<1>20. /\ units[crossing].slot \in Range(p.slots) /\ p.aggregate \cap p.group = {}
       /\ Range(p.slots) \cap (p.aggregate \cup p.group) = {}
       /\ p.aggregate \cup p.group \cup Range(p.slots) = SlotsFrom(units, 1, crossing)
  BY <1>15, <1>16, <1>17, <1>18, <1>19
<1> QED
  BY <1>2, <1>11, <1>20 DEF units, crossing

LEMMA FireKeeps == Inv /\ Fire => Inv'
<1> SUFFICES ASSUME Inv, Fire PROVE Inv'
  OBVIOUS
<1>1. ChainTypes' /\ cast' = cast /\ SourceTypes'
  BY ChainStays, SourceStays DEF Fire
<1>2. /\ Types /\ Ticking /\ pc = "decide" /\ pc' = "idle"
      /\ outcome' = outcome /\ crashes' = crashes
  BY DEF Inv, Fire
<1>3. agg.root # None
  BY <1>2 DEF Ticking
<1> DEFINE a == Absorb(agg)
           open == OpenUnits(a)
           closed == Close(a, open)
           b == [closed EXCEPT !.unfolded = 0, !.group = {}]
           p == StartFinal(closed)
<1>4. Weight(closed.units) >= Target /\ agg' = b /\ pending' = p
  BY DEF Fire
<1>5. /\ a \in Aggregators /\ a.root = agg.root /\ Heard(a) /\ Counters(a)
  BY <1>3, Absorbed
<1> HIDE DEF a
<1>6. open \in Seq(Units)
  BY <1>5, OpenUnitsAre DEF Opens
<1>7. Begins(open, open)
  <2> HIDE DEF open
  <2> QED
    BY <1>6, BeginsItself, LenProperties
<1>8. open = OpenUnits(a) /\ closed = Close(a, open)
  OBVIOUS
<1> HIDE DEF open, closed
<1>9. /\ closed \in Aggregators /\ Begins(a.units, closed.units)
      /\ \A field \in {"root", "proved", "unfolded", "aggregate", "group", "gap", "reorged",
                       "waits"} : closed[field] = a[field]
      /\ Heard(closed)
  BY <1>2, <1>3, <1>5, <1>6, <1>7, <1>8, CloseDoes
<1>10. /\ closed.root = a.root /\ closed.proved = a.proved /\ closed.unfolded = a.unfolded
       /\ closed.aggregate = a.aggregate /\ closed.group = a.group
  BY <1>9
<1>11. Counters(closed)
  BY <1>5, <1>9, <1>10, CountersStay
<1>12. p = StartFinal(closed)
  OBVIOUS
<1> HIDE DEF p
<1>13. /\ p \in Proofs /\ p.kind = "final"
       /\ Crossing(closed.units) \in 1 .. Len(closed.units)
       /\ closed.units[Crossing(closed.units)].slot \in Range(p.slots)
       /\ p.aggregate \cap p.group = {}
       /\ Range(p.slots) \cap (p.aggregate \cup p.group) = {}
       /\ p.aggregate \cup p.group \cup Range(p.slots)
            = SlotsFrom(closed.units, 1, Crossing(closed.units))
  BY <1>4, <1>9, <1>11, <1>12, FinalStarted
<1>14. /\ b \in Aggregators /\ b.root = closed.root /\ b.heard = closed.heard
       /\ b.units = closed.units /\ b.proved = closed.proved
       /\ b.aggregate = closed.aggregate /\ b.unfolded = 0 /\ b.group = {}
  <2>1. closed \in Aggregators
    BY <1>9
  <2> QED
    BY <2>1 DEF Aggregators
<1> HIDE DEF b
<1>15. Heard(b)
  BY <1>3, <1>5, <1>9, <1>10, <1>14, HeardAlone
<1>16. Counters(b)
  BY <1>11, <1>14 DEF Counters
<1>17. InFlight(b, p)
  BY <1>13, <1>14 DEF InFlight
<1>18. Heard(agg)'
  BY <1>1, <1>4, <1>15, HeardStays
<1>19. DaemonTypes'
  BY <1>2, <1>4, <1>13, <1>14 DEF Types, DaemonTypes
<1>20. Ticking'
  BY <1>2, <1>3, <1>4, <1>5, <1>10, <1>14 DEF Ticking
<1> QED
  BY <1>1, <1>4, <1>16, <1>17, <1>18, <1>19, <1>20 DEF Inv, Types

\* A step that changes nothing.
LEMMA NothingKeeps == Inv /\ UNCHANGED vars => Inv'
<1> SUFFICES ASSUME Inv, UNCHANGED vars PROVE Inv'
  OBVIOUS
<1>1. chainVars' = chainVars /\ sourceVars' = sourceVars /\ daemonVars' = daemonVars
  BY DEF vars
<1> QED
  BY <1>1, ChainStays, SourceStays, OutsideKeeps

LEMMA InvStarts == Init => Inv
<1> SUFFICES ASSUME Init PROVE Inv
  OBVIOUS
<1>1. ChainTypes
  <2>1. 0 \in 0 .. ScanEnd /\ 0 \in Roots
    BY ScanEndAssumption, BoundsAssumption DEF Roots
  <2> QED
    BY <2>1 DEF Init, ChainTypes
<1>2. SourceTypes
  <2>1. link \in BOOLEAN /\ gapped \in BOOLEAN /\ reorgEvent \in BOOLEAN
    BY Zenon DEF Init
  <2>2. inbox \in SUBSET Votes /\ missed \in SUBSET Votes /\ outages \in 0 .. MaxOutages
    BY BoundsAssumption DEF Init
  <2> QED
    BY <2>1, <2>2 DEF SourceTypes
<1>3. DaemonTypes
  BY NothingYet, BoundsAssumption DEF Init, DaemonTypes
<1>4. Heard(agg) /\ Counters(agg) /\ InFlight(agg, pending)
  BY NothingYet DEF Init
<1>5. Ticking
  BY DEF Init, Ticking
<1> QED
  BY <1>1, <1>2, <1>3, <1>4, <1>5 DEF Inv, Types

\* The invariant of one epoch: whatever is cast, lost, repaired, reorged or
\* crashes, what drive_epoch holds is what its counters say it holds.
THEOREM EpochInvariant == Spec => []Inv
<1>1. Inv /\ [Next]_vars => Inv'
  <2> SUFFICES ASSUME Inv, [Next]_vars PROVE Inv'
    OBVIOUS
  <2>1. CASE Environment
    BY <2>1, AttestKeeps, ReorgKeeps, LinkKeeps, CrashKeeps DEF Environment
  <2>2. CASE ChainGrows
    BY <2>2, ChainGrowsKeeps
  <2>3. CASE ProverLands
    BY <2>3, ProverLandsKeeps
  <2>4. CASE Tick
    BY <2>4, OpenKeeps, CollectKeeps, SettleWaitsKeeps, CollectGroupKeeps, CollectFoldKeeps,
       EndsKeep, CheckReorgKeeps, WaitKeeps, FireKeeps DEF Tick
  <2>5. CASE UNCHANGED vars
    BY <2>5, NothingKeeps
  <2> QED
    BY <2>1, <2>2, <2>3, <2>4, <2>5 DEF Next
<1> QED
  BY <1>1, InvStarts, PTL DEF Spec

-----------------------------------------------------------------------------
(* What it gives.                                                          *)

\* What is collected, proved and in flight stays within its ranges, and no
\* counter of an epoch goes past its units (StreamAggregator, gossip flags).
THEOREM TypeCorrect == Spec => []TypeOK
<1>1. ASSUME Inv PROVE TypeOK
  <2>1. /\ agg \in Aggregators /\ pending \in Proofs /\ Counters(agg)
        /\ ChainTypes /\ SourceTypes
        /\ pc \in {"idle", "settle", "decide"}
        /\ outcome \in {"open", "published", "abandoned"} /\ crashes \in 0 .. MaxCrashes
    BY <1>1 DEF Inv, Types, DaemonTypes
  <2>2. /\ agg.root \in Roots \cup {None} /\ agg.heard \subseteq Votes
        /\ \A i \in DOMAIN agg.units : agg.units[i] \in Units
        /\ agg.aggregate \subseteq Slots /\ agg.group \subseteq Slots
        /\ agg.waits \in 0 .. MaxWaits
    BY <2>1, Fields
  <2>3. agg.proved \in 0 .. Len(agg.units) /\ agg.unfolded \in 0 .. Len(agg.units)
    <3>1. agg.proved \in Nat /\ agg.unfolded \in Nat /\ Len(agg.units) \in Nat
      BY <2>1, Fields
    <3> QED
      BY <2>1, <3>1 DEF Counters
  <2>4. agg.gap \in BOOLEAN /\ agg.reorged \in BOOLEAN
    BY <2>1 DEF Aggregators
  <2>5. /\ pending.kind \in {"none", "group", "fold", "final"}
        /\ pending.aggregate \subseteq Slots /\ pending.group \subseteq Slots
        /\ pending.slots \in Seq(Slots) /\ pending.end \in Nat
    BY <2>1 DEF Proofs, Kinds
  <2>6. /\ head \in 0 .. ScanEnd /\ canon \in Roots /\ cast \in [Votes -> Roots \cup {None}]
        /\ included \subseteq Votes /\ link \in BOOLEAN /\ inbox \subseteq Votes
        /\ gapped \in BOOLEAN /\ reorgEvent \in BOOLEAN /\ missed \subseteq Votes
        /\ outages \in 0 .. MaxOutages
    BY <2>1 DEF ChainTypes, SourceTypes
  <2> QED
    BY <2>1, <2>2, <2>3, <2>4, <2>5, <2>6 DEF TypeOK
<1> QED
  BY <1>1, EpochInvariant, PTL

\* attestation_collector.rs:182-189: a slot closed once collects no more, so
\* that no vote is counted in two units.
THEOREM SlotsClosedOnce == Spec => []EachSlotOnce
<1>1. ASSUME Inv PROVE EachSlotOnce
  <2>1. DOMAIN agg.units = 1 .. Len(agg.units)
    BY <1>1, Fields DEF Inv, Types, DaemonTypes
  <2> QED
    BY <1>1, <2>1 DEF Inv, Heard, EachSlotOnce
<1> QED
  BY <1>1, EpochInvariant, PTL

\* assumptions.md:456-459: what a unit weighs was cast for the epoch's root, by
\* members of its slot's committee, however it reached the collector.
THEOREM WeightIsHonest == Spec => []WeightIsCast
<1>1. ASSUME Inv PROVE WeightIsCast
  <2>1. DOMAIN agg.units = 1 .. Len(agg.units)
    BY <1>1, Fields DEF Inv, Types, DaemonTypes
  <2> QED
    BY <1>1, <2>1 DEF Inv, Heard, WeightIsCast
<1> QED
  BY <1>1, EpochInvariant, PTL

\* The slots of the epoch's units from one to another.
LEMMA UnitSlotsAre ==
    ASSUME Inv, NEW first \in Nat \ {0}, NEW last \in Nat, last <= Len(agg.units)
    PROVE  UnitSlots(first, last) = SlotsFrom(agg.units, first, last)
<1>1. agg.units \in Seq(Units)
  BY Fields DEF Inv, Types, DaemonTypes
<1> QED
  BY <1>1, SlotsOfType DEF UnitSlots

\* stream.rs:748-753 and 1210-1253: what the aggregate, the group held and the
\* proof in flight are over is what proved, unfolded and its end say.
THEOREM CountersCorrect == Spec => []CountersMatchTheProofs
<1>1. ASSUME Inv PROVE CountersMatchTheProofs
  <2>1. /\ agg \in Aggregators /\ pending \in Proofs /\ Counters(agg) /\ InFlight(agg, pending)
    BY <1>1 DEF Inv, Types, DaemonTypes
  <2>2. /\ agg.proved \in Nat /\ agg.unfolded \in Nat /\ Len(agg.units) \in Nat
        /\ pending.end \in Nat /\ agg.proved + 1 \in Nat \ {0} /\ 1 \in Nat \ {0}
    BY <2>1, Fields DEF Proofs
  <2>3. agg.aggregate = UnitSlots(1, agg.proved)
    BY <1>1, <2>1, <2>2, UnitSlotsAre DEF Counters
  <2>4. agg.unfolded # 0 => agg.group = UnitSlots(agg.proved + 1, agg.unfolded)
    BY <1>1, <2>1, <2>2, UnitSlotsAre DEF Counters
  <2>5. pending.kind \in {"group", "fold"} =>
          /\ agg.unfolded = 0
          /\ UnitSlots(agg.proved + 1, pending.end)
               = SlotsFrom(agg.units, agg.proved + 1, pending.end)
    BY <1>1, <2>1, <2>2, UnitSlotsAre DEF InFlight
  <2>6. /\ pending.kind = "group" =>
             Range(pending.slots) = SlotsFrom(agg.units, agg.proved + 1, pending.end)
        /\ pending.kind = "fold" =>
             /\ pending.aggregate = agg.aggregate
             /\ pending.group = SlotsFrom(agg.units, agg.proved + 1, pending.end)
    BY <2>1 DEF InFlight
  <2> QED
    BY <2>3, <2>4, <2>5, <2>6 DEF CountersMatchTheProofs
<1> QED
  BY <1>1, EpochInvariant, PTL

\* stream.rs:336-342: the aggregate, the group and the tail of a final proof
\* share no unit, and are all of those up to the crossing.
THEOREM FinalCovers == Spec => []FinalCoversEveryUnitOnce
<1>1. ASSUME Inv PROVE FinalCoversEveryUnitOnce
  <2> SUFFICES ASSUME pending.kind = "final"
               PROVE  /\ pending.aggregate \cap pending.group = {}
                      /\ Range(pending.slots) \cap (pending.aggregate \cup pending.group) = {}
                      /\ pending.aggregate \cup pending.group \cup Range(pending.slots)
                           = UnitSlots(1, Crossing(agg.units))
    BY DEF FinalCoversEveryUnitOnce
  <2>1. /\ Crossing(agg.units) \in 1 .. Len(agg.units)
        /\ pending.aggregate \cap pending.group = {}
        /\ Range(pending.slots) \cap (pending.aggregate \cup pending.group) = {}
        /\ pending.aggregate \cup pending.group \cup Range(pending.slots)
             = SlotsFrom(agg.units, 1, Crossing(agg.units))
    BY <1>1 DEF Inv, InFlight
  <2>2. Len(agg.units) \in Nat
    BY <1>1, Fields DEF Inv, Types, DaemonTypes
  <2>3. Crossing(agg.units) \in Nat /\ Crossing(agg.units) <= Len(agg.units)
    BY <2>1, <2>2
  <2>4. UnitSlots(1, Crossing(agg.units)) = SlotsFrom(agg.units, 1, Crossing(agg.units))
    BY <1>1, <2>3, UnitSlotsAre
  <2> QED
    BY <2>1, <2>4
<1> QED
  BY <1>1, EpochInvariant, PTL

\* stream.rs:266-268: the tail of a final proof carries the unit that crosses.
THEOREM TailCrosses == Spec => []TailCarriesTheCrossing
<1>1. Inv => TailCarriesTheCrossing
  BY DEF Inv, InFlight, TailCarriesTheCrossing
<1> QED
  BY <1>1, EpochInvariant, PTL

\* An epoch that has its verdict collects nothing, and what is delivered was cast.
Over ==
    /\ outcome # "open" => agg = NoAggregator
    /\ \A v \in inbox : cast[v] # None

LEMMA OverInvariant == Spec => []Over
<1>1. Init => Over
  BY DEF Init, Over
<1>2. Inv /\ Over /\ [Next]_vars => Over'
  <2> SUFFICES ASSUME Inv, Over, [Next]_vars PROVE Over'
    OBVIOUS
  <2>1. \A v \in inbox' : cast'[v] # None
    <3>1. CASE \E v \in Votes : Attest(v)
      <4>1. PICK v \in Votes : Attest(v)
        BY <3>1
      <4>2. /\ cast' = [cast EXCEPT ![v] = canon] /\ inbox' \in SUBSET (inbox \cup {v})
            /\ cast \in [Votes -> Roots \cup {None}] /\ canon \in Roots /\ inbox \in SUBSET Votes
        BY <4>1 DEF Attest, Inv, Types, ChainTypes, SourceTypes
      <4>3. canon # None
        BY <4>2, BoundsAssumption DEF Roots, None
      <4> QED
        BY <4>2, <4>3 DEF Over
    <3>2. CASE ~\E v \in Votes : Attest(v)
      <4>1. cast' = cast /\ inbox' \in SUBSET inbox
        BY <3>2 DEF Next, Environment, Tick, Reorg, Disconnect, ConnectFails, Reconnect, Crash,
           ChainGrows, ProverLands, Open, Collect, SettleWaits, CollectGroup, CollectFold,
           CollectFinal, ProverRefuses, CheckReorg, Wait, GiveUp, Fire, Down, Drained, vars,
           chainVars, sourceVars
      <4> QED
        BY <4>1 DEF Over
    <3> QED
      BY <3>1, <3>2
  <2>2. ASSUME outcome' # "open" PROVE agg' = NoAggregator
    <3>1. CASE outcome = "open"
      <4>1. CollectFinal \/ GiveUp
        BY <2>2, <3>1 DEF Next, Environment, Tick, Attest, Reorg, Disconnect, ConnectFails,
           Reconnect, Crash, ChainGrows, ProverLands, Open, Collect, SettleWaits, CollectGroup,
           CollectFold, ProverRefuses, CheckReorg, Wait, Fire, vars, daemonVars
      <4> QED
        BY <4>1 DEF CollectFinal, GiveUp
    <3>2. CASE outcome # "open"
      <4>1. agg = NoAggregator /\ pc = "idle" /\ pending = NoProof
        BY <3>2, NothingYet DEF Over, Inv, Ticking
      <4>2. agg' = agg
        BY <3>2, <4>1 DEF Next, Environment, Tick, Attest, Reorg, Disconnect, ConnectFails,
           Reconnect, Crash, ChainGrows, ProverLands, Open, Collect, SettleWaits, CollectGroup,
           CollectFold, CollectFinal, ProverRefuses, CheckReorg, Wait, GiveUp, Fire, Settled,
           vars, daemonVars
      <4> QED
        BY <4>1, <4>2
    <3> QED
      BY <3>1, <3>2
  <2> QED
    BY <2>1, <2>2 DEF Over
<1> QED
  BY <1>1, <1>2, EpochInvariant, PTL DEF Spec

\* Nothing is held of an epoch that has its verdict.
LEMMA NothingAfter ==
    ASSUME Inv, Over, outcome # "open", NEW a, a = Absorb(agg)
    PROVE  Weight(a.units \o OpenUnits(a)) < Target
<1>1. /\ agg = NoAggregator /\ agg \in Aggregators /\ Types /\ agg.root = None
      /\ agg.heard = {} /\ agg.units = <<>>
  <2>1. agg = NoAggregator /\ Types
    BY DEF Over, Inv
  <2> QED
    BY <2>1, NothingYet DEF NoAggregator
<1>2. /\ a \in Aggregators /\ a.units = <<>>
      /\ a.heard = agg.heard \cup {v \in inbox : cast[v] = agg.root /\ v[1] \notin Closed(agg)}
  BY <1>1, AbsorbDoes
<1>3. a.heard = {}
  BY <1>1, <1>2 DEF Over
<1> DEFINE open == OpenUnits(a)
<1>4. open \in Seq(Units) /\ {open[i].slot : i \in 1 .. Len(open)} = {v[1] : v \in a.heard}
  BY <1>2, OpenUnitsAre DEF Opens
<1> HIDE DEF open
<1>5. Len(open) = 0
  <2>1. Len(open) \in Nat
    BY <1>4, LenProperties
  <2>2. \A i \in 1 .. Len(open) : open[i].slot \in {v[1] : v \in a.heard}
    BY <1>4
  <2> QED
    BY <1>3, <2>1, <2>2
<1>6. open = <<>>
  BY <1>4, <1>5, EmptySeq
<1>7. a.units \o open = <<>>
  BY <1>2, <1>6
<1>8. Weight(a.units \o open) = 0
  BY <1>7, WeightOfNone, Zenon
<1> QED
  BY <1>8, VotesAreFinite DEF open

\* stream.rs:775: an epoch is given up only below the target, though the test is
\* of the head alone: once the scan window is behind it no slot is filling, and
\* what then reaches the target has fired.
THEOREM GivesUpBelowTheTarget == Spec => NeverGivesUpOnEnough
<1> DEFINE a == Absorb(agg)
           open == OpenUnits(a)
           Short == Weight(a.units \o open) < Target
           Step == outcome' = "abandoned" => Short
<1>1. ASSUME Inv, Over, Next, outcome' = "abandoned" PROVE Short
  <2> SUFFICES ASSUME outcome = "open" PROVE Short
    BY <1>1, NothingAfter
  <2>1. GiveUp
    <3>1. ~Environment /\ ~ChainGrows /\ ~ProverLands
      BY <1>1 DEF Environment, Attest, Reorg, Disconnect, ConnectFails, Reconnect, Crash, ChainGrows,
             ProverLands, daemonVars
    <3>2. ~Open /\ ~Collect /\ ~SettleWaits /\ ~CollectGroup /\ ~CollectFold
          /\ ~CollectFinal /\ ~ProverRefuses /\ ~CheckReorg /\ ~Wait /\ ~Fire
      BY <1>1 DEF Open, Collect, SettleWaits, CollectGroup, CollectFold, CollectFinal, ProverRefuses,
             CheckReorg, Wait, Fire
    <3> QED
      BY <1>1, <3>1, <3>2 DEF Next, Tick
  <2>2. head >= ScanEnd /\ (Weight(a.units \o open) >= Target => Filling(a.units, open))
        /\ pc = "decide"
    BY <2>1 DEF GiveUp
  <2>3. agg.root # None
    BY <1>1, <2>2 DEF Inv, Ticking
  <2>4. a \in Aggregators
    BY <1>1, <2>3, Absorbed
  <2> HIDE DEF a
  <2>5. open \in Seq(Units)
    BY <2>4, OpenUnitsAre DEF Opens
  <2> HIDE DEF open
  <2>6. ~Filling(a.units, open)
    <3> SUFFICES ASSUME open # <<>>, Last(open).slot >= head PROVE FALSE
      BY DEF Filling
    <3>1. Len(open) \in 1 .. Len(open)
      BY <2>5, LenProperties, EmptySeq
    <3>2. open[Len(open)] \in Units
      BY <2>5, <3>1, ElementOfSeq
    <3>3. Last(open).slot \in Slots
      BY <3>2 DEF Last, Units
    <3>4. head \in 0 .. ScanEnd
      BY <1>1 DEF Inv, Types, ChainTypes
    <3> QED
      BY <2>2, <3>3, <3>4, SlotCountAssumption, ScanEndAssumption DEF Slots
  <2>7. a.units \o open \in Seq(Units)
    BY <2>4, <2>5, Fields, ConcatProperties
  <2>8. Weight(a.units \o open) \in Nat
    BY <2>7, WeightGrows, BeginsItself, LenProperties
  <2> QED
    BY <2>2, <2>6, <2>8, VotesAreFinite
<1>2. Inv /\ Over /\ [Next]_vars => [Step]_vars
  BY <1>1
<1>3. Spec => [][Step]_vars
  BY <1>2, EpochInvariant, OverInvariant, PTL DEF Spec
<1> QED
  BY <1>3 DEF NeverGivesUpOnEnough
=============================================================================
