--------------------------- MODULE PublisherProofs ---------------------------
(***************************************************************************)
(* Proofs about Publisher, for any epochs, any capacities and any budgets  *)
(* of what goes wrong.                                                     *)
(***************************************************************************)
EXTENDS Publisher, SortingTheorems, SequenceTheorems

-----------------------------------------------------------------------------
(* What the handlers of EpochIndex do to an index, for any epochs, any     *)
(* ring and batches of any length.                                         *)

-----------------------------------------------------------------------------
(* What an index holds and what it is sent.                                *)

EventKinds == {"stage", "opened", "landed", "closed", "abandoned"}
Events == [kind : EventKinds, epoch : Epochs, seq : Nat \ {0}, bytes : BOOLEAN]
Manifests == [kind : {"status"}, epoch : Epochs, seq : Nat \ {0}]
Batches == [events : Seq(Events), status : Manifests \cup {NoStatus}]
Sources == {"daemon", "status", "stranded"}
Rows == [status : Statuses, bytes : BOOLEAN]
LogRows == [id : Nat \ {0}, source : Sources, key : Nat, epoch : Nat]
Indexes == [log : SUBSET LogRows, next : Nat \ {0}, row : [Epochs -> Rows],
            snapshot : Nat, highest : Nat, stored : [Epochs -> Backends]]

\* What an index always is: every row of its log has an id it gave out, and of
\* the last Ring ids none is missing.
IndexOK(index) ==
    /\ index \in Indexes
    /\ \A entry \in index.log : entry.id < index.next
    /\ \A id \in 1 .. (index.next - 1) :
          id >= index.next - Ring => \E entry \in index.log : entry.id = id

\* What every request does to an index, and any number of them.
Grows(before, after) ==
    /\ IndexOK(after)
    /\ before.next <= after.next
    /\ \A entry \in before.log : entry \in after.log \/ entry.id < after.next - Ring
    /\ \A entry \in after.log : entry \in before.log \/ entry.id >= before.next
    /\ \A e \in Epochs : before.stored[e] # "none" => after.stored[e] # "none"

-----------------------------------------------------------------------------
(* Induction along a finite run of steps, and the two folds of the index.  *)

\* The recursive function a fold is, over events as over stranded epochs.
Step(sort, index, item) ==
    CASE sort = "event" -> IngestEvent(index, item)
      [] sort = "epoch" -> Strand(index, item)

IsFold(f, sort, index, items, n) ==
    f = [s \in SUBSET (1 .. n) |->
            IF s = {} THEN index ELSE Step(sort, f[s \ {Max(s)}], items[Max(s)])]

Folded(sort, index, items, n) ==
    (CHOOSE f : IsFold(f, sort, index, items, n))[1 .. n]

\* There is such a function: a state may be added to the one that is there.
LEMMA FoldExists ==
    ASSUME NEW sort, NEW index, NEW items, NEW n \in Nat
    PROVE  \E f : IsFold(f, sort, index, items, n)
<1> DEFINE Bad == {k \in Nat : ~ \E f : IsFold(f, sort, index, items, k)}
<1> SUFFICES ASSUME Bad # {} PROVE FALSE
  OBVIOUS
<1>1. Bad \in SUBSET Nat
  OBVIOUS
<1>2. PICK k \in Bad : \A j \in Bad : k <= j
  BY <1>1, LeastNatural
<1>3. k # 0
  <2> DEFINE f == [s \in SUBSET (1 .. 0) |-> index]
  <2>1. \A s \in SUBSET (1 .. 0) : s = {}
    OBVIOUS
  <2>2. f = [s \in SUBSET (1 .. 0) |->
              IF s = {} THEN index ELSE Step(sort, f[s \ {Max(s)}], items[Max(s)])]
    BY <2>1
  <2>3. IsFold(f, sort, index, items, 0)
    BY <2>2 DEF IsFold
  <2> QED
    BY <2>3
<1>4. k - 1 \in Nat /\ k - 1 \notin Bad
  BY <1>2, <1>3
<1>5. PICK f : IsFold(f, sort, index, items, k - 1)
  BY <1>4
<1> DEFINE g == [s \in SUBSET (1 .. k) |->
                   IF s \in SUBSET (1 .. (k - 1)) THEN f[s]
                   ELSE Step(sort, f[s \ {k}], items[k])]
<1>6. \A s \in SUBSET (1 .. k) :
         g[s] = IF s = {} THEN index ELSE Step(sort, g[s \ {Max(s)}], items[Max(s)])
  <2> SUFFICES ASSUME NEW s \in SUBSET (1 .. k)
               PROVE  g[s] = IF s = {} THEN index
                             ELSE Step(sort, g[s \ {Max(s)}], items[Max(s)])
    OBVIOUS
  <2>1. CASE s \in SUBSET (1 .. (k - 1))
    <3>1. g[s] = f[s]
      BY <2>1
    <3>2. f[s] = IF s = {} THEN index ELSE Step(sort, f[s \ {Max(s)}], items[Max(s)])
      BY <1>5, <2>1 DEF IsFold
    <3>3. ASSUME s # {} PROVE g[s \ {Max(s)}] = f[s \ {Max(s)}]
      <4>1. s \ {Max(s)} \in SUBSET (1 .. (k - 1)) /\ s \ {Max(s)} \in SUBSET (1 .. k)
        BY <1>4, <2>1, <3>3, MaxOfFirst
      <4> QED
        BY <4>1
    <3> HIDE DEF g
    <3> QED
      BY <3>1, <3>2, <3>3
  <2>2. CASE s \notin SUBSET (1 .. (k - 1))
    <3>1. k \in s
      BY <1>4, <2>2
    <3>2. Max(s) = k /\ s \ {k} \in SUBSET (1 .. (k - 1))
      <4>1. \A m \in Nat : m + 1 \in s /\ s \in SUBSET (1 .. (m + 1)) =>
               Max(s) = m + 1 /\ s \ {m + 1} \in SUBSET (1 .. m)
        BY MaxOfFirst
      <4>2. (k - 1) + 1 = k /\ k - 1 \in Nat
        BY <1>4
      <4> QED
        BY <3>1, <4>1, <4>2, Zenon
    <3>3. s \ {k} \in SUBSET (1 .. k) /\ s # {}
      BY <3>1
    <3>4. g[s \ {k}] = f[s \ {k}]
      BY <3>2, <3>3
    <3>5. g[s] = Step(sort, f[s \ {k}], items[k])
      BY <2>2
    <3> HIDE DEF g
    <3> QED
      BY <3>2, <3>3, <3>4, <3>5
  <2> QED
    BY <2>1, <2>2
<1>7. IsFold(g, sort, index, items, k)
  <2>1. g = [s \in SUBSET (1 .. k) |-> g[s]]
    OBVIOUS
  <2> HIDE DEF g
  <2> QED
    BY <1>6, <2>1 DEF IsFold
<1> HIDE DEF g
<1> QED
  BY <1>2, <1>7

\* The values along a fold.
LEMMA FoldSteps ==
    ASSUME NEW sort, NEW index, NEW items, NEW n \in Nat
    PROVE  \E s : /\ s[0] = index
                  /\ s[n] = Folded(sort, index, items, n)
                  /\ \A k \in 1 .. n : s[k] = Step(sort, s[k - 1], items[k])
<1> DEFINE f == CHOOSE g : IsFold(g, sort, index, items, n)
           s == [k \in 0 .. n |-> f[1 .. k]]
<1>2. IsFold(f, sort, index, items, n)
  BY FoldExists
<1> HIDE DEF f
<1>3. s[0] = index
  <2>1. 1 .. 0 = {} /\ {} \in SUBSET (1 .. n)
    OBVIOUS
  <2>2. f[{}] = index
    BY <1>2, <2>1 DEF IsFold
  <2> QED
    BY <2>1, <2>2
<1>4. ASSUME NEW k \in 1 .. n PROVE s[k] = Step(sort, s[k - 1], items[k])
  <2>1. Max(1 .. k) = k /\ (1 .. k) \ {k} = 1 .. (k - 1) /\ 1 .. k # {}
    <3>1. k \in Nat \ {0}
      OBVIOUS
    <3> QED
      BY <3>1, MaxOfFirst
  <2>2. 1 .. k \in SUBSET (1 .. n) /\ k - 1 \in 0 .. n /\ k \in 0 .. n
    OBVIOUS
  <2>3. f[1 .. k] = Step(sort, f[1 .. (k - 1)], items[k])
    BY <1>2, <2>1, <2>2 DEF IsFold
  <2> QED
    BY <2>2, <2>3
<1>5. s[n] = Folded(sort, index, items, n)
  BY DEF f, Folded
<1> HIDE DEF s
<1> QED
  BY <1>3, <1>4, <1>5

\* What the index is after the events of a batch, and after the epochs the reaper
\* takes.
Heard(index, events) == FoldLeft(IngestEvent, index, events)
Reaped(index, order) == FoldLeft(Strand, index, order)

\* The index after each event of a batch, and after each epoch the reaper takes.
LEMMA HearsInTurn ==
    ASSUME NEW index, NEW events, NEW n \in Nat, DOMAIN events = 1 .. n
    PROVE  \E s : /\ s[0] = index /\ s[n] = Heard(index, events)
                  /\ \A k \in 1 .. n : s[k] = IngestEvent(s[k - 1], events[k])
<1>1. Heard(index, events)
      = Folded("event", index, events, n)
  BY SMT DEF Heard, Reaped, FoldLeft, MapThenFoldSet, Folded, IsFold, Step
<1>2. \A i, x : Step("event", i, x) = IngestEvent(i, x)
  BY DEF Step
<1>3. PICK s : /\ s[0] = index
               /\ s[n] = Folded("event", index, events, n)
               /\ \A k \in 1 .. n : s[k] = Step("event", s[k - 1], events[k])
  BY FoldSteps
<1>4. \A k \in 1 .. n : s[k] = IngestEvent(s[k - 1], events[k])
  BY <1>2, <1>3
<1> QED
  BY <1>1, <1>3, <1>4, Zenon

LEMMA StrandsInTurn ==
    ASSUME NEW index, NEW order, NEW n \in Nat, DOMAIN order = 1 .. n
    PROVE  \E s : /\ s[0] = index /\ s[n] = Reaped(index, order)
                  /\ \A k \in 1 .. n : s[k] = Strand(s[k - 1], order[k])
<1>1. Reaped(index, order)
      = Folded("epoch", index, order, n)
  BY SMT DEF Heard, Reaped, FoldLeft, MapThenFoldSet, Folded, IsFold, Step
<1>2. \A i, x : Step("epoch", i, x) = Strand(i, x)
  BY DEF Step
<1>3. PICK s : /\ s[0] = index
               /\ s[n] = Folded("epoch", index, order, n)
               /\ \A k \in 1 .. n : s[k] = Step("epoch", s[k - 1], order[k])
  BY FoldSteps
<1>4. \A k \in 1 .. n : s[k] = Strand(s[k - 1], order[k])
  BY <1>2, <1>3
<1> QED
  BY <1>1, <1>3, <1>4, Zenon

-----------------------------------------------------------------------------
(* What each handler of the index does.                                    *)

LEMMA GrowsReflexive ==
    ASSUME NEW index, IndexOK(index)
    PROVE  Grows(index, index)
<1>1. index.next \in Nat
  BY DEF IndexOK, Indexes
<1>2. index.next <= index.next
  BY <1>1
<1> QED
  BY <1>2 DEF Grows

LEMMA GrowsTransitive ==
    ASSUME NEW a, NEW b, NEW c, IndexOK(a), Grows(a, b), Grows(b, c)
    PROVE  Grows(a, c)
<1>1. IndexOK(b) /\ IndexOK(c)
  BY DEF Grows
<1>2. /\ a.next \in Nat /\ b.next \in Nat /\ c.next \in Nat /\ Ring \in Nat
      /\ \A entry \in a.log \cup b.log \cup c.log : entry.id \in Nat
  BY <1>1, RingAssumption DEF IndexOK, Indexes, LogRows
<1>3. a.next <= c.next
  BY <1>2 DEF Grows
<1>4. ASSUME NEW entry \in a.log PROVE entry \in c.log \/ entry.id < c.next - Ring
  <2>1. entry \in b.log \/ entry.id < b.next - Ring
    BY DEF Grows
  <2>2. b.next <= c.next
    BY DEF Grows
  <2>3. CASE entry \in b.log
    BY <2>3 DEF Grows
  <2>4. CASE entry.id < b.next - Ring
    BY <1>2, <2>2, <2>4
  <2> QED
    BY <2>1, <2>3, <2>4
<1>5. ASSUME NEW entry \in c.log PROVE entry \in a.log \/ entry.id >= a.next
  <2>1. entry \in b.log \/ entry.id >= b.next
    BY DEF Grows
  <2>2. a.next <= b.next
    BY DEF Grows
  <2>3. CASE entry \in b.log
    BY <2>3 DEF Grows
  <2>4. CASE entry.id >= b.next
    BY <1>2, <2>2, <2>4
  <2> QED
    BY <2>1, <2>3, <2>4
<1>6. \A e \in Epochs : a.stored[e] # "none" => c.stored[e] # "none"
  BY DEF Grows
<1> QED
  BY <1>1, <1>3, <1>4, <1>5, <1>6 DEF Grows

LEMMA RecordGrows ==
    ASSUME NEW index, IndexOK(index),
           NEW source \in Sources, NEW key \in Nat, NEW epoch \in Nat
    PROVE  LET after == Record(index, source, key, epoch)
               new == [id |-> index.next, source |-> source, key |-> key, epoch |-> epoch]
           IN  /\ Grows(index, after)
               /\ after.log = index.log \cup {new} /\ after.next = index.next + 1
               /\ after.row = index.row /\ after.snapshot = index.snapshot
               /\ after.highest = index.highest /\ after.stored = index.stored
<1> DEFINE after == Record(index, source, key, epoch)
           new == [id |-> index.next, source |-> source, key |-> key, epoch |-> epoch]
<1>1. index \in Indexes /\ Ring \in Nat
  BY RingAssumption DEF IndexOK
<1>2. new \in LogRows /\ new.id = index.next
  BY <1>1 DEF LogRows, Indexes
<1>3. /\ after.log = index.log \cup {new} /\ after.next = index.next + 1
      /\ after.row = index.row /\ after.snapshot = index.snapshot
      /\ after.highest = index.highest /\ after.stored = index.stored
      /\ after \in Indexes
  <2>1. index.log \cup {new} \in SUBSET LogRows /\ index.next + 1 \in Nat \ {0}
    BY <1>1, <1>2 DEF Indexes
  <2>2. after = [index EXCEPT !.log = index.log \cup {new}, !.next = index.next + 1]
    BY <1>1 DEF Record, Indexes
  <2> HIDE DEF new, after
  <2> QED
    BY <1>1, <2>1, <2>2 DEF Indexes
<1> HIDE DEF after, new
<1>4. index.next \in Nat \ {0} /\ \A entry \in index.log : entry.id \in Nat /\ entry.id < index.next
  BY <1>1 DEF IndexOK, Indexes, LogRows
<1>5. IndexOK(after)
  <2>1. \A entry \in after.log : entry.id < after.next
    BY <1>2, <1>3, <1>4
  <2>2. ASSUME NEW id \in 1 .. (after.next - 1), id >= after.next - Ring
        PROVE  \E entry \in after.log : entry.id = id
    <3>1. CASE id = index.next
      BY <1>2, <1>3, <3>1
    <3>2. CASE id # index.next
      <4>1. id \in 1 .. (index.next - 1) /\ id >= index.next - Ring
        BY <1>1, <1>3, <1>4, <2>2, <3>2
      <4>2. \E entry \in index.log : entry.id = id
        BY <4>1 DEF IndexOK
      <4> QED
        BY <1>3, <4>2
    <3> QED
      BY <3>1, <3>2
  <2> QED
    BY <1>3, <2>1, <2>2 DEF IndexOK
<1>6. Grows(index, after)
  <2>1. index.next <= after.next
    BY <1>3, <1>4
  <2>2. \A entry \in after.log : entry \in index.log \/ entry.id >= index.next
    BY <1>2, <1>3, <1>4
  <2> QED
    BY <1>3, <1>5, <2>1, <2>2 DEF Grows
<1> QED
  BY <1>3, <1>6 DEF after, new

\* A change of the rows and of nothing else.
LEMMA RowsGrow ==
    ASSUME NEW index, IndexOK(index), NEW rows \in [Epochs -> Rows]
    PROVE  LET after == [index EXCEPT !.row = rows]
           IN  /\ Grows(index, after) /\ after.row = rows
               /\ after.log = index.log /\ after.next = index.next
               /\ after.snapshot = index.snapshot
               /\ after.highest = index.highest /\ after.stored = index.stored
<1> DEFINE after == [index EXCEPT !.row = rows]
<1>1. index \in Indexes /\ index.next \in Nat
  BY DEF IndexOK, Indexes
<1>2. /\ after.row = rows
      /\ after.log = index.log /\ after.next = index.next
      /\ after.snapshot = index.snapshot
      /\ after.highest = index.highest /\ after.stored = index.stored
      /\ after \in Indexes
  BY <1>1 DEF Indexes
<1> HIDE DEF after
<1>3. IndexOK(after)
  BY <1>2 DEF IndexOK
<1>4. index.next <= after.next
  BY <1>1, <1>2
<1>5. Grows(index, after)
  BY <1>2, <1>3, <1>4 DEF Grows
<1> QED
  BY <1>2, <1>5 DEF after

LEMMA ApplyType ==
    ASSUME NEW row \in Rows, NEW event \in Events
    PROVE  /\ Apply(row, event) \in Rows
           /\ event.kind \in {"landed", "closed"} =>
                Apply(row, event).status = StatusForProof(event.bytes)
           /\ event.kind = "abandoned" => Apply(row, event).status = "abandoned"
           /\ event.kind \in {"stage", "opened"} =>
                Apply(row, event).status = IF row.status = NoRow THEN "proving" ELSE row.status
<1>1. CASE event.kind \in {"stage", "opened"}
  BY <1>1 DEF Apply, Touch, Rows, Statuses, NoRow
<1>2. CASE event.kind \in {"landed", "closed"}
  BY <1>2 DEF Apply, StatusForProof, Rows, Statuses, Events
<1>3. CASE event.kind = "abandoned"
  BY <1>3 DEF Apply, Touch, Rows, Statuses, NoRow
<1> QED
  BY <1>1, <1>2, <1>3 DEF Events, EventKinds

LEMMA IngestEventFacts ==
    ASSUME NEW index, IndexOK(index), NEW event \in Events
    PROVE  LET after == IngestEvent(index, event)
               new == [id |-> index.next, source |-> "daemon",
                       key |-> event.seq, epoch |-> event.epoch]
           IN  /\ Grows(index, after)
               /\ after.snapshot = index.snapshot
               /\ after.highest = index.highest /\ after.stored = index.stored
               /\ Known(index, "daemon", event.seq) => after = index
               /\ ~Known(index, "daemon", event.seq) =>
                    /\ after.log = index.log \cup {new} /\ after.next = index.next + 1
                    /\ after.row = [index.row EXCEPT ![event.epoch] = Apply(@, event)]
<1> DEFINE after == IngestEvent(index, event)
           recorded == Record(index, "daemon", event.seq, event.epoch)
           rows == [index.row EXCEPT ![event.epoch] = Apply(@, event)]
<1>1. event.seq \in Nat /\ event.epoch \in Nat /\ event.epoch \in Epochs /\ "daemon" \in Sources
  BY EpochsAssumption DEF Events, Sources
<1>2. CASE Known(index, "daemon", event.seq)
  <2>1. after = index
    BY <1>2 DEF IngestEvent
  <2> QED
    BY <1>2, <2>1, GrowsReflexive
<1>3. CASE ~Known(index, "daemon", event.seq)
  <2>1. /\ Grows(index, recorded)
        /\ recorded.log = index.log \cup
              {[id |-> index.next, source |-> "daemon", key |-> event.seq, epoch |-> event.epoch]}
        /\ recorded.next = index.next + 1
        /\ recorded.row = index.row /\ recorded.snapshot = index.snapshot
        /\ recorded.highest = index.highest /\ recorded.stored = index.stored
    BY <1>1, RecordGrows
  <2>2. IndexOK(recorded)
    BY <2>1 DEF Grows
  <2>3. recorded.row \in [Epochs -> Rows]
    BY <2>2 DEF IndexOK, Indexes
  <2>4. rows \in [Epochs -> Rows]
    BY <1>1, <2>1, <2>3, ApplyType
  <2>5. after = [recorded EXCEPT !.row = rows]
    <3>1. after = [recorded EXCEPT !.row[event.epoch] = Apply(@, event)]
      BY <1>3 DEF IngestEvent
    <3>2. recorded \in Indexes
      BY <2>2 DEF IndexOK
    <3> HIDE DEF recorded, after
    <3> QED
      BY <2>1, <3>1, <3>2 DEF Indexes
  <2> HIDE DEF recorded, after, rows
  <2>6. /\ Grows(recorded, after) /\ after.row = rows
        /\ after.log = recorded.log /\ after.next = recorded.next
        /\ after.snapshot = recorded.snapshot
        /\ after.highest = recorded.highest /\ after.stored = recorded.stored
    BY <2>2, <2>4, <2>5, RowsGrow
  <2>7. Grows(index, after)
    BY <2>1, <2>6, GrowsTransitive
  <2> QED
    BY <1>3, <2>1, <2>6, <2>7 DEF rows, after
<1> QED
  BY <1>2, <1>3

\* What an index owes to the first k events of a batch.
HeardBy(before, events, k, after) ==
    /\ Grows(before, after)
    /\ after.snapshot = before.snapshot
    /\ after.highest = before.highest /\ after.stored = before.stored
    /\ after.next <= before.next + k
    /\ \A entry \in after.log : entry \in before.log \/ entry.source = "daemon"
    /\ \A e \in Epochs :
         /\ after.row[e].status = "stranded" => before.row[e].status = "stranded"
         /\ after.row[e].status = "proven" =>
              \/ before.row[e].status = "proven"
              \/ \E j \in 1 .. k : events[j].epoch = e /\ events[j].bytes

LEMMA HeardFacts ==
    ASSUME NEW index, IndexOK(index), NEW events \in Seq(Events)
    PROVE  HeardBy(index, events, Len(events), Heard(index, events))
<1> DEFINE n == Len(events)
           S == [k \in 0 .. n |-> {i \in Indexes : HeardBy(index, events, k, i)}]
<1>1. n \in Nat /\ DOMAIN events = 1 .. n /\ index \in Indexes /\ index.next \in Nat
  BY LenProperties DEF IndexOK, Indexes
<1> HIDE DEF n
<1>2. PICK s : /\ s[0] = index /\ s[n] = Heard(index, events)
               /\ \A k \in 1 .. n : s[k] = IngestEvent(s[k - 1], events[k])
  BY <1>1, HearsInTurn
<1>3. s[0] \in S[0]
  <2>1. Grows(index, index)
    BY GrowsReflexive
  <2>2. HeardBy(index, events, 0, index)
    BY <1>1, <2>1 DEF HeardBy
  <2> QED
    BY <1>1, <1>2, <2>2
<1>4. ASSUME NEW k \in 1 .. n, s[k - 1] \in S[k - 1] PROVE s[k] \in S[k]
  <2> DEFINE b == s[k - 1]
             a == s[k]
  <2>1. b \in Indexes /\ HeardBy(index, events, k - 1, b) /\ IndexOK(b)
    BY <1>1, <1>4 DEF HeardBy, Grows
  <2>2. events[k] \in Events /\ a = IngestEvent(b, events[k])
    BY <1>1, <1>2, ElementOfSeq DEF n
  <2> HIDE DEF a, b
  <2>3. /\ Grows(b, a)
        /\ a.snapshot = b.snapshot /\ a.highest = b.highest /\ a.stored = b.stored
        /\ a = b \/ /\ a.log = b.log \cup {[id |-> b.next, source |-> "daemon",
                                            key |-> events[k].seq, epoch |-> events[k].epoch]}
                    /\ a.next = b.next + 1
                    /\ a.row = [b.row EXCEPT ![events[k].epoch] = Apply(@, events[k])]
    BY <2>1, <2>2, IngestEventFacts
  <2>4. Grows(index, a) /\ a \in Indexes
    BY <2>1, <2>3, GrowsTransitive DEF HeardBy, Grows, IndexOK
  <2>5. a.next <= index.next + k
    <3>1. b.next \in Nat /\ b.next <= index.next + (k - 1)
      BY <2>1 DEF HeardBy, Indexes
    <3> QED
      BY <1>1, <2>3, <3>1
  <2>6. \A entry \in a.log : entry \in index.log \/ entry.source = "daemon"
    BY <2>1, <2>3 DEF HeardBy
  <2>7. ASSUME NEW e \in Epochs
        PROVE  /\ a.row[e].status = "stranded" => index.row[e].status = "stranded"
               /\ a.row[e].status = "proven" =>
                    \/ index.row[e].status = "proven"
                    \/ \E j \in 1 .. k : events[j].epoch = e /\ events[j].bytes
    <3>1. /\ b.row[e].status = "stranded" => index.row[e].status = "stranded"
          /\ b.row[e].status = "proven" =>
               \/ index.row[e].status = "proven"
               \/ \E j \in 1 .. (k - 1) : events[j].epoch = e /\ events[j].bytes
      BY <2>1 DEF HeardBy
    <3>2. 1 .. (k - 1) \subseteq 1 .. k /\ k \in 1 .. k
      OBVIOUS
    <3>3. CASE a.row[e] = b.row[e]
      BY <3>1, <3>2, <3>3
    <3>4. CASE a.row[e] # b.row[e]
      <4>1. b.row \in [Epochs -> Rows]
        BY <2>1 DEF Indexes
      <4>2. events[k].epoch = e /\ a.row[e] = Apply(b.row[e], events[k]) /\ b.row[e] \in Rows
        BY <2>3, <3>4, <4>1
      <4>3. a.row[e].status = "stranded" => b.row[e].status = "stranded"
        BY <2>2, <4>2, ApplyType DEF Events, EventKinds, StatusForProof
      <4>4. a.row[e].status = "proven" => b.row[e].status = "proven" \/ events[k].bytes
        BY <2>2, <4>2, ApplyType DEF Events, EventKinds, StatusForProof
      <4> QED
        BY <3>1, <3>2, <4>2, <4>3, <4>4
    <3> QED
      BY <3>3, <3>4
  <2>8. HeardBy(index, events, k, a)
    <3>1. /\ a.snapshot = index.snapshot
          /\ a.highest = index.highest /\ a.stored = index.stored
      BY <2>1, <2>3 DEF HeardBy
    <3> QED
      BY <2>4, <2>5, <2>6, <2>7, <3>1 DEF HeardBy
  <2> QED
    BY <2>4, <2>8 DEF a
<1>5. \A k \in 0 .. n : s[k] \in S[k]
  <2> HIDE DEF S
  <2> QED
    BY <1>1, <1>3, <1>4, Along
<1>6. n \in 0 .. n
  BY <1>1
<1> QED
  BY <1>2, <1>5, <1>6 DEF n

\* A batch the index has seen changes nothing.
LEMMA HeardTwice ==
    ASSUME NEW index, NEW events \in Seq(Events),
           \A j \in 1 .. Len(events) : Known(index, "daemon", events[j].seq)
    PROVE  Heard(index, events) = index
<1> DEFINE n == Len(events)
           S == [k \in 0 .. n |-> {index}]
<1>1. n \in Nat /\ DOMAIN events = 1 .. n
  BY LenProperties
<1>2. PICK s : /\ s[0] = index /\ s[n] = Heard(index, events)
               /\ \A k \in 1 .. n : s[k] = IngestEvent(s[k - 1], events[k])
  BY <1>1, HearsInTurn
<1>3. s[0] \in S[0]
  BY <1>1, <1>2
<1>4. ASSUME NEW k \in 1 .. n, s[k - 1] \in S[k - 1] PROVE s[k] \in S[k]
  <2>1. s[k - 1] = index
    BY <1>1, <1>4
  <2>2. s[k] = IngestEvent(index, events[k])
    BY <1>2, <2>1
  <2>3. IngestEvent(index, events[k]) = index
    BY <1>1 DEF IngestEvent
  <2> QED
    BY <1>1, <2>2, <2>3
<1>5. \A k \in 0 .. n : s[k] \in S[k]
  <2> HIDE DEF S, n
  <2> QED
    BY <1>1, <1>3, <1>4, Along
<1>6. n \in 0 .. n
  BY <1>1
<1> QED
  BY <1>2, <1>5, <1>6

\* The keys of the daemon's events grow with the ids they were given.
InOrderLog(log) ==
    \A a, b \in log :
        a.source = "daemon" /\ b.source = "daemon" /\ a.id < b.id => a.key < b.key

Ascending(events) ==
    \A i, j \in 1 .. Len(events) : i < j => events[i].seq < events[j].seq

\* The index holds nothing of the daemon's as late as these events.
Precedes(log, events) ==
    \A entry \in log : entry.source = "daemon" =>
        \A j \in 1 .. Len(events) : entry.key < events[j].seq

\* An event that says what became of its epoch, and what it says.
Decides(event, e) == event.epoch = e /\ event.kind \in {"landed", "closed", "abandoned"}
Verdict(event) ==
    IF event.kind = "abandoned" THEN "abandoned" ELSE StatusForProof(event.bytes)

\* What the first k events of a new batch make of an index.
HeardInTurn(before, events, k, after) ==
    /\ Grows(before, after) /\ InOrderLog(after.log)
    /\ \A entry \in after.log : entry.source = "daemon" =>
          entry \in before.log \/ \E j \in 1 .. k : entry.key = events[j].seq
    /\ \A j \in 1 .. k : \E entry \in after.log :
          entry.source = "daemon" /\ entry.key = events[j].seq /\ entry.id >= before.next
    /\ \A e \in Epochs :
          /\ (\A j \in 1 .. k : ~Decides(events[j], e)) =>
                \/ after.row[e].status = before.row[e].status
                \/ before.row[e].status = NoRow
          /\ \A j \in 1 .. k :
                Decides(events[j], e) /\ (\A i \in (j + 1) .. k : ~Decides(events[i], e))
                    => after.row[e].status = Verdict(events[j])

LEMMA HeardFresh ==
    ASSUME NEW index, IndexOK(index), InOrderLog(index.log),
           NEW events \in Seq(Events), Ascending(events), Precedes(index.log, events)
    PROVE  HeardInTurn(index, events, Len(events), Heard(index, events))
<1> DEFINE n == Len(events)
           S == [k \in 0 .. n |-> {i \in Indexes : HeardInTurn(index, events, k, i)}]
<1>1. n \in Nat /\ DOMAIN events = 1 .. n /\ index \in Indexes /\ index.next \in Nat
  BY LenProperties DEF IndexOK, Indexes
<1>e. \A j \in 1 .. n : events[j] \in Events /\ events[j].seq \in Nat /\ events[j].epoch \in Nat
  <2>1. \A j \in 1 .. n : events[j] \in Events
    BY ElementOfSeq
  <2>2. \A event \in Events : event.seq \in Nat /\ event.epoch \in Nat
    BY EpochsAssumption DEF Events
  <2> QED
    BY <2>1, <2>2
<1>a. \A i, j \in 1 .. n : i < j => events[i].seq < events[j].seq
  BY DEF Ascending
<1>p. \A entry \in index.log : entry.source = "daemon" =>
          \A j \in 1 .. n : entry.key < events[j].seq
  BY DEF Precedes
<1> HIDE DEF n
<1>2. PICK s : /\ s[0] = index /\ s[n] = Heard(index, events)
               /\ \A k \in 1 .. n : s[k] = IngestEvent(s[k - 1], events[k])
  BY <1>1, HearsInTurn
<1>3. s[0] \in S[0]
  <2>1. Grows(index, index)
    BY GrowsReflexive
  <2>2. HeardInTurn(index, events, 0, index)
    BY <1>1, <2>1 DEF HeardInTurn
  <2> QED
    BY <1>1, <1>2, <2>2
<1>4. ASSUME NEW k \in 1 .. n, s[k - 1] \in S[k - 1] PROVE s[k] \in S[k]
  <2> DEFINE b == s[k - 1]
             a == s[k]
             new == [id |-> b.next, source |-> "daemon",
                     key |-> events[k].seq, epoch |-> events[k].epoch]
  <2>1. b \in Indexes /\ HeardInTurn(index, events, k - 1, b) /\ IndexOK(b)
    <3>1. b \in Indexes /\ HeardInTurn(index, events, k - 1, b)
      BY <1>1, <1>4
    <3> QED
      BY <3>1 DEF HeardInTurn, Grows
  <2>2. events[k] \in Events /\ a = IngestEvent(b, events[k])
    BY <1>1, <1>2, <1>e
  <2> HIDE DEF a, b
  <2>3. /\ b.next \in Nat /\ b.next >= index.next
        /\ \A entry \in b.log : /\ entry \in LogRows /\ entry.id \in Nat /\ entry.key \in Nat
                                /\ entry.id < b.next
    BY <1>1, <2>1 DEF HeardInTurn, Grows, IndexOK, Indexes, LogRows
  <2>4. \A entry \in b.log : entry.source = "daemon" => entry.key < events[k].seq
    <3> SUFFICES ASSUME NEW entry \in b.log, entry.source = "daemon"
                 PROVE  entry.key < events[k].seq
      OBVIOUS
    <3>1. CASE entry \in index.log
      BY <1>p, <3>1
    <3>2. ASSUME NEW j \in 1 .. (k - 1), entry.key = events[j].seq
          PROVE  entry.key < events[k].seq
      <4>1. j \in 1 .. n /\ j < k
        BY <1>1
      <4> QED
        BY <1>a, <3>2, <4>1
    <3> QED
      BY <2>1, <3>1, <3>2 DEF HeardInTurn
  <2>5. ~Known(b, "daemon", events[k].seq)
    <3>1. \A entry \in b.log : entry.source = "daemon" => entry.key # events[k].seq
      BY <1>e, <2>3, <2>4
    <3> QED
      BY <3>1 DEF Known
  <2>6. /\ Grows(b, a)
        /\ a.log = b.log \cup {new} /\ a.next = b.next + 1
        /\ a.row = [b.row EXCEPT ![events[k].epoch] = Apply(@, events[k])]
    BY <2>1, <2>2, <2>5, IngestEventFacts
  <2>7. /\ new.id = b.next /\ new.source = "daemon" /\ new.key = events[k].seq
    OBVIOUS
  <2> HIDE DEF new
  <2>8. Grows(index, a) /\ a \in Indexes
    BY <2>1, <2>6, GrowsTransitive DEF HeardInTurn, Grows, IndexOK
  <2>9. InOrderLog(a.log)
    <3> SUFFICES ASSUME NEW x \in a.log, NEW y \in a.log,
                        x.source = "daemon", y.source = "daemon", x.id < y.id
                 PROVE  x.key < y.key
      BY DEF InOrderLog
    <3>1. CASE x \in b.log /\ y \in b.log
      BY <2>1, <3>1 DEF HeardInTurn, InOrderLog
    <3>2. CASE x = new
      BY <2>3, <2>6, <2>7, <3>2
    <3>3. CASE x \in b.log /\ y = new
      BY <2>4, <2>7, <3>3
    <3> QED
      BY <2>6, <3>1, <3>2, <3>3
  <2>10. ASSUME NEW entry \in a.log, entry.source = "daemon"
         PROVE  entry \in index.log \/ \E j \in 1 .. k : entry.key = events[j].seq
    <3>1. 1 .. (k - 1) \subseteq 1 .. k /\ k \in 1 .. k
      OBVIOUS
    <3> QED
      BY <2>1, <2>6, <2>7, <2>10, <3>1 DEF HeardInTurn
  <2>11. ASSUME NEW j \in 1 .. k
         PROVE  \E entry \in a.log : /\ entry.source = "daemon" /\ entry.key = events[j].seq
                                     /\ entry.id >= index.next
    <3>1. CASE j = k
      BY <2>3, <2>6, <2>7, <3>1
    <3>2. CASE j # k
      <4>1. j \in 1 .. (k - 1)
        BY <3>2
      <4> QED
        BY <2>1, <2>6, <4>1 DEF HeardInTurn
    <3> QED
      BY <3>1, <3>2
  <2>12. ASSUME NEW e \in Epochs
         PROVE  /\ (\A j \in 1 .. k : ~Decides(events[j], e)) =>
                      \/ a.row[e].status = index.row[e].status
                      \/ index.row[e].status = NoRow
                /\ \A j \in 1 .. k :
                      Decides(events[j], e) /\ (\A i \in (j + 1) .. k : ~Decides(events[i], e))
                          => a.row[e].status = Verdict(events[j])
    <3>1. /\ b.row \in [Epochs -> Rows] /\ b.row[e] \in Rows
          /\ index.row \in [Epochs -> Rows] /\ index.row[e] \in Rows
      BY <1>1, <2>1 DEF Indexes
    <3>2. /\ (\A j \in 1 .. (k - 1) : ~Decides(events[j], e)) =>
                \/ b.row[e].status = index.row[e].status
                \/ index.row[e].status = NoRow
          /\ \A j \in 1 .. (k - 1) :
                Decides(events[j], e) /\ (\A i \in (j + 1) .. (k - 1) : ~Decides(events[i], e))
                    => b.row[e].status = Verdict(events[j])
      BY <2>1 DEF HeardInTurn
    <3>3. 1 .. (k - 1) \subseteq 1 .. k /\ k \in 1 .. k
      OBVIOUS
    <3>4. CASE Decides(events[k], e)
      <4>1. a.row[e] = Apply(b.row[e], events[k])
        BY <2>6, <3>1, <3>4 DEF Decides
      <4>2. a.row[e].status = Verdict(events[k])
        BY <2>2, <3>1, <3>4, <4>1, ApplyType DEF Decides, Verdict
      <4>3. ASSUME NEW j \in 1 .. k, \A i \in (j + 1) .. k : ~Decides(events[i], e)
            PROVE  j = k
        <5>1. j # k => k \in (j + 1) .. k
          OBVIOUS
        <5> QED
          BY <3>4, <4>3, <5>1
      <4> QED
        BY <3>3, <3>4, <4>2, <4>3
    <3>5. CASE ~Decides(events[k], e)
      <4>1. b.row[e].status # NoRow => a.row[e].status = b.row[e].status
        <5>1. CASE events[k].epoch = e
          <6>1. events[k].kind \in {"stage", "opened"}
            BY <2>2, <3>5, <5>1 DEF Decides, Events, EventKinds
          <6>2. a.row[e] = Apply(b.row[e], events[k])
            BY <2>6, <3>1, <5>1
          <6> QED
            BY <2>2, <3>1, <6>1, <6>2, ApplyType
        <5>2. CASE events[k].epoch # e
          BY <2>6, <3>1, <5>2
        <5> QED
          BY <5>1, <5>2
      <4>2. (\A j \in 1 .. k : ~Decides(events[j], e)) =>
                \/ a.row[e].status = index.row[e].status
                \/ index.row[e].status = NoRow
        BY <3>2, <3>3, <4>1
      <4>3. ASSUME NEW j \in 1 .. k, Decides(events[j], e),
                   \A i \in (j + 1) .. k : ~Decides(events[i], e)
            PROVE  a.row[e].status = Verdict(events[j])
        <5>1. j \in 1 .. (k - 1) /\ (j + 1) .. (k - 1) \subseteq (j + 1) .. k
          BY <3>5, <4>3
        <5>2. b.row[e].status = Verdict(events[j])
          BY <3>2, <4>3, <5>1
        <5>3. Verdict(events[j]) # NoRow
          BY DEF Verdict, StatusForProof, NoRow
        <5> QED
          BY <4>1, <5>2, <5>3
      <4> QED
        BY <4>2, <4>3
    <3> QED
      BY <3>4, <3>5
  <2>13. HeardInTurn(index, events, k, a)
    BY <2>8, <2>9, <2>10, <2>11, <2>12 DEF HeardInTurn
  <2> QED
    BY <2>8, <2>13 DEF a
<1>5. \A k \in 0 .. n : s[k] \in S[k]
  <2> HIDE DEF S
  <2> QED
    BY <1>1, <1>3, <1>4, Along
<1>6. n \in 0 .. n
  BY <1>1
<1> QED
  BY <1>2, <1>5, <1>6 DEF n

LEMMA StrandFacts ==
    ASSUME NEW index, IndexOK(index), NEW e \in Epochs
    PROVE  LET after == Strand(index, e)
           IN  /\ Grows(index, after)
               /\ after.snapshot = index.snapshot
               /\ after.highest = index.highest /\ after.stored = index.stored
               /\ after.next <= index.next + 1
               /\ \A entry \in after.log : entry \in index.log \/ entry.source = "stranded"
               /\ after.row[e].status = "stranded"
               /\ \A f \in Epochs : f # e => after.row[f] = index.row[f]
<1> DEFINE rows == [index.row EXCEPT ![e] = [@ EXCEPT !.status = "stranded"]]
           marked == [index EXCEPT !.row = rows]
           after == Strand(index, e)
<1>1. /\ index \in Indexes /\ index.next \in Nat /\ index.row \in [Epochs -> Rows]
      /\ e \in Nat /\ "stranded" \in Sources
  BY EpochsAssumption DEF IndexOK, Indexes, Sources
<1>2. [index.row[e] EXCEPT !.status = "stranded"] \in Rows
  BY <1>1 DEF Rows, Statuses
<1>3. /\ rows \in [Epochs -> Rows] /\ rows[e].status = "stranded"
      /\ \A f \in Epochs : f # e => rows[f] = index.row[f]
  BY <1>1, <1>2 DEF Rows
<1>4. marked = [index EXCEPT !.row[e].status = "stranded"]
  BY <1>1 DEF Indexes
<1>5. after = IF Known(marked, "stranded", e) THEN marked
              ELSE Record(marked, "stranded", e, e)
  <2> HIDE DEF marked
  <2> QED
    BY <1>4, SMT DEF Strand, Known, Record
<1> HIDE DEF rows
<1>6. /\ Grows(index, marked) /\ marked.row = rows
      /\ marked.log = index.log /\ marked.next = index.next
      /\ marked.snapshot = index.snapshot
      /\ marked.highest = index.highest /\ marked.stored = index.stored
  BY <1>3, RowsGrow
<1> HIDE DEF marked, after
<1>7. IndexOK(marked)
  BY <1>6 DEF Grows
<1>8. CASE Known(marked, "stranded", e)
  <2>1. after = marked /\ index.next <= index.next + 1
    BY <1>1, <1>5, <1>8
  <2> QED
    BY <1>3, <1>6, <2>1 DEF after
<1>9. CASE ~Known(marked, "stranded", e)
  <2> DEFINE new == [id |-> marked.next, source |-> "stranded", key |-> e, epoch |-> e]
  <2>1. /\ Grows(marked, after)
        /\ after.log = marked.log \cup {new} /\ after.next = marked.next + 1
        /\ after.row = marked.row /\ after.snapshot = marked.snapshot
        /\ after.highest = marked.highest /\ after.stored = marked.stored
    <3>1. after = Record(marked, "stranded", e, e)
      BY <1>5, <1>9
    <3> QED
      BY <1>1, <1>7, <3>1, RecordGrows
  <2>2. new.source = "stranded"
    OBVIOUS
  <2> HIDE DEF new
  <2>3. Grows(index, after) /\ after.next <= index.next + 1
    BY <1>1, <1>6, <2>1, GrowsTransitive
  <2> QED
    BY <1>3, <1>6, <2>1, <2>2, <2>3 DEF after
<1> QED
  BY <1>8, <1>9

StrandedIn(index) == {e \in Epochs : index.row[e].status = "stranded"}

\* What the reaper has done after k of the epochs it takes.
ReapedBy(before, order, k, after) ==
    /\ Grows(before, after)
    /\ after.snapshot = before.snapshot
    /\ after.highest = before.highest /\ after.stored = before.stored
    /\ after.next <= before.next + k
    /\ \A entry \in after.log : entry \in before.log \/ entry.source = "stranded"
    /\ \A e \in Epochs :
          /\ (\E j \in 1 .. k : order[j] = e) => after.row[e].status = "stranded"
          /\ (\A j \in 1 .. k : order[j] # e) => after.row[e] = before.row[e]

LEMMA ReapedFacts ==
    ASSUME NEW index, IndexOK(index), NEW order \in Seq(Epochs)
    PROVE  ReapedBy(index, order, Len(order), Reaped(index, order))
<1> DEFINE n == Len(order)
           S == [k \in 0 .. n |-> {i \in Indexes : ReapedBy(index, order, k, i)}]
<1>1. n \in Nat /\ DOMAIN order = 1 .. n /\ index \in Indexes /\ index.next \in Nat
  BY LenProperties DEF IndexOK, Indexes
<1>e. \A j \in 1 .. n : order[j] \in Epochs
  BY ElementOfSeq
<1> HIDE DEF n
<1>2. PICK s : /\ s[0] = index /\ s[n] = Reaped(index, order)
               /\ \A k \in 1 .. n : s[k] = Strand(s[k - 1], order[k])
  BY <1>1, StrandsInTurn
<1>3. s[0] \in S[0]
  <2>1. Grows(index, index)
    BY GrowsReflexive
  <2>2. ReapedBy(index, order, 0, index)
    BY <1>1, <2>1 DEF ReapedBy
  <2> QED
    BY <1>1, <1>2, <2>2
<1>4. ASSUME NEW k \in 1 .. n, s[k - 1] \in S[k - 1] PROVE s[k] \in S[k]
  <2> DEFINE b == s[k - 1]
             a == s[k]
             e == order[k]
  <2>1. b \in Indexes /\ ReapedBy(index, order, k - 1, b)
    BY <1>1, <1>4
  <2>2. IndexOK(b) /\ b.next \in Nat
    BY <2>1 DEF ReapedBy, Grows, Indexes
  <2>3. e \in Epochs /\ a = Strand(b, e)
    BY <1>1, <1>2, <1>e
  <2> HIDE DEF a, b
  <2>4. /\ Grows(b, a)
        /\ a.snapshot = b.snapshot
        /\ a.highest = b.highest /\ a.stored = b.stored
        /\ a.next <= b.next + 1
        /\ \A entry \in a.log : entry \in b.log \/ entry.source = "stranded"
        /\ a.row[e].status = "stranded"
        /\ \A f \in Epochs : f # e => a.row[f] = b.row[f]
    BY <2>2, <2>3, StrandFacts
  <2>5. Grows(index, a) /\ a \in Indexes
    BY <2>1, <2>4, GrowsTransitive DEF ReapedBy, Grows, IndexOK
  <2>6. a.next <= index.next + k
    <3>1. b.next <= index.next + (k - 1)
      BY <2>1 DEF ReapedBy
    <3>2. a.next \in Nat
      BY <2>5 DEF Indexes
    <3> QED
      BY <1>1, <2>2, <2>4, <3>1, <3>2
  <2>7. \A entry \in a.log : entry \in index.log \/ entry.source = "stranded"
    BY <2>1, <2>4 DEF ReapedBy
  <2>8. ASSUME NEW f \in Epochs
        PROVE  /\ (\E j \in 1 .. k : order[j] = f) => a.row[f].status = "stranded"
               /\ (\A j \in 1 .. k : order[j] # f) => a.row[f] = index.row[f]
    <3>1. 1 .. k = (1 .. (k - 1)) \cup {k}
      OBVIOUS
    <3>2. /\ (\E j \in 1 .. (k - 1) : order[j] = f) => b.row[f].status = "stranded"
          /\ (\A j \in 1 .. (k - 1) : order[j] # f) => b.row[f] = index.row[f]
      BY <2>1 DEF ReapedBy
    <3> QED
      BY <2>4, <3>1, <3>2
  <2>9. ReapedBy(index, order, k, a)
    <3>1. /\ a.snapshot = index.snapshot
          /\ a.highest = index.highest /\ a.stored = index.stored
      BY <2>1, <2>4 DEF ReapedBy
    <3> QED
      BY <2>5, <2>6, <2>7, <2>8, <3>1 DEF ReapedBy
  <2> QED
    BY <2>5, <2>9 DEF a
<1>5. \A k \in 0 .. n : s[k] \in S[k]
  <2> HIDE DEF S
  <2> QED
    BY <1>1, <1>3, <1>4, Along
<1>6. n \in 0 .. n
  BY <1>1
<1> QED
  BY <1>2, <1>5, <1>6 DEF n

\* What a sweep of the reaper does: it strands epochs that are open, below the
\* newest and not the one the daemon names, and records each at most once.
Sweeps(before, after) ==
    /\ Grows(before, after)
    /\ after.snapshot = before.snapshot /\ after.stored = before.stored
    /\ after.next - before.next
          <= Cardinality(StrandedIn(after)) - Cardinality(StrandedIn(before))
    /\ \A entry \in after.log : entry \in before.log \/ entry.source = "stranded"
    /\ \A e \in Epochs :
          \/ after.row[e] = before.row[e]
          \/ /\ before.row[e].status = "proving" /\ after.row[e].status = "stranded"
             /\ e # before.snapshot

LEMMA ReapStrandedFacts ==
    ASSUME NEW index, IndexOK(index)
    PROVE  /\ Sweeps(index, ReapStranded(index))
           /\ ReapStranded(index).highest = index.highest
<1> DEFINE E == {e \in Epochs : IsStranded(index, e)}
           order == InOrder(E)
           n == Cardinality(E)
           after == ReapStranded(index)
<1>1. E \in SUBSET Epochs /\ IsFiniteSet(Epochs) /\ Epochs \in SUBSET Int
  BY EpochsAssumption
<1>2. IsFiniteSet(E) /\ E \in SUBSET Int
  BY <1>1, FS_Subset
<1> HIDE DEF E
<1>3. /\ order \in Seq(E) /\ Len(order) = n /\ n \in Nat /\ order \in [1 .. n -> E]
      /\ \A e \in E : \E i \in 1 .. n : order[i] = e
  BY <1>2, InOrderSorts
<1>4. order \in Seq(Epochs)
  BY <1>1, <1>3, SeqMonotonic
<1>5. after = Reaped(index, order)
  BY DEF ReapStranded, Reaped, E
<1> HIDE DEF order, n, after
<1>6. ReapedBy(index, order, n, after)
  BY <1>3, <1>4, <1>5, ReapedFacts
<1>7. \A e \in E : after.row[e].status = "stranded"
  BY <1>1, <1>3, <1>6 DEF ReapedBy
<1>8. \A e \in Epochs : e \notin E => after.row[e] = index.row[e]
  BY <1>3, <1>6 DEF ReapedBy
<1>9. \A e \in E : index.row[e].status = "proving" /\ e # index.snapshot
  BY DEF E, IsStranded
<1>10. n = Cardinality(StrandedIn(after)) - Cardinality(StrandedIn(index))
  <2>1. StrandedIn(after) = StrandedIn(index) \cup E /\ StrandedIn(index) \cap E = {}
    BY <1>1, <1>7, <1>8, <1>9 DEF StrandedIn
  <2>2. IsFiniteSet(StrandedIn(index))
    BY <1>1, FS_Subset DEF StrandedIn
  <2>3. Cardinality(StrandedIn(index)) \in Nat
    BY <2>2, FS_CardinalityType
  <2>4. Cardinality(StrandedIn(index) \cup E)
        = Cardinality(StrandedIn(index)) + Cardinality(E) - Cardinality(StrandedIn(index) \cap E)
    BY <1>2, <2>2, FS_Union
  <2>5. Cardinality({}) = 0
    BY FS_EmptySet
  <2>6. Cardinality(StrandedIn(after)) = Cardinality(StrandedIn(index)) + n - 0
    <3> HIDE DEF StrandedIn
    <3> QED
      BY <2>1, <2>4, <2>5, Zenon DEF n
  <2> QED
    BY <1>3, <2>3, <2>6
<1>11. /\ after.next <= index.next + n /\ after.next \in Nat /\ index.next \in Nat
  BY <1>6 DEF ReapedBy, Grows, IndexOK, Indexes
<1>12. after.next - index.next <= n
  BY <1>3, <1>11
<1>13. \A e \in Epochs : \/ after.row[e] = index.row[e]
                         \/ /\ index.row[e].status = "proving" /\ after.row[e].status = "stranded"
                            /\ e # index.snapshot
  BY <1>7, <1>8, <1>9
<1> QED
  BY <1>6, <1>10, <1>12, <1>13 DEF Sweeps, ReapedBy, after

LEMMA HighestType ==
    ASSUME NEW index PROVE HighestEpoch(index) \in Nat
<1> DEFINE T == {e \in Epochs : index.row[e].status # NoRow}
<1>1. IsFiniteSet(T) /\ T \in SUBSET Nat
  BY EpochsAssumption, FS_Subset
<1>2. IsFiniteSet(T \cup {0})
  BY <1>1, FS_AddElement
<1>3. Max(T \cup {0}) \in T \cup {0}
  <2> HIDE DEF T
  <2>1. T \cup {0} \in SUBSET Int /\ T \cup {0} # {}
    BY <1>1
  <2> QED
    BY <1>2, <2>1, FiniteMax
<1>4. HighestEpoch(index) = Max(T \cup {0})
  BY Zenon DEF HighestEpoch
<1>5. T \cup {0} \subseteq Nat
  BY <1>1
<1> HIDE DEF T
<1> QED
  BY <1>3, <1>4, <1>5, Zenon

LEMMA StatusFacts ==
    ASSUME NEW index, IndexOK(index), NEW manifest \in Manifests \cup {NoStatus}
    PROVE  LET after == IngestStatus(index, manifest)
               new == [id |-> index.next, source |-> "status",
                       key |-> manifest.seq, epoch |-> manifest.epoch]
           IN  /\ Grows(index, after)
               /\ after.row = index.row /\ after.stored = index.stored
               /\ manifest = NoStatus => after = index
               /\ manifest # NoStatus => after.snapshot = manifest.epoch
               /\ \/ /\ after.log = index.log /\ after.next = index.next
                     /\ manifest # NoStatus => Known(index, "status", manifest.seq)
                  \/ /\ ~Known(index, "status", manifest.seq) /\ manifest # NoStatus
                     /\ after.log = index.log \cup {new} /\ after.next = index.next + 1
<1> DEFINE after == IngestStatus(index, manifest)
           named == [index EXCEPT !.snapshot = manifest.epoch]
<1>1. CASE manifest.epoch = 0
  <2>1. manifest = NoStatus
    BY <1>1, EpochsAssumption DEF Manifests
  <2>2. after = index
    BY <1>1 DEF IngestStatus
  <2> QED
    BY <2>1, <2>2, GrowsReflexive
<1>2. CASE manifest.epoch # 0
  <2>1. manifest \in Manifests /\ manifest # NoStatus
    BY <1>2 DEF NoStatus
  <2>2. manifest.epoch \in Nat /\ manifest.seq \in Nat /\ "status" \in Sources
    BY <2>1, EpochsAssumption DEF Manifests, Sources
  <2>3. /\ named.log = index.log /\ named.next = index.next /\ named.row = index.row
        /\ named.stored = index.stored /\ named.highest = index.highest
        /\ named.snapshot = manifest.epoch /\ named \in Indexes
    BY <2>2 DEF IndexOK, Indexes
  <2>4. after = IF Known(index, "status", manifest.seq) THEN named
                ELSE Record(named, "status", manifest.seq, manifest.epoch)
    BY <1>2 DEF IngestStatus
  <2> HIDE DEF named, after
  <2>5. IndexOK(named) /\ index.next <= named.next
    BY <2>3 DEF IndexOK, Indexes
  <2>6. Grows(index, named)
    BY <2>3, <2>5 DEF Grows
  <2>7. CASE Known(index, "status", manifest.seq)
    BY <2>1, <2>3, <2>4, <2>6, <2>7 DEF after
  <2>8. CASE ~Known(index, "status", manifest.seq)
    <3> DEFINE new == [id |-> named.next, source |-> "status",
                       key |-> manifest.seq, epoch |-> manifest.epoch]
    <3>1. after = Record(named, "status", manifest.seq, manifest.epoch)
      BY <2>4, <2>8
    <3>2. /\ Grows(named, after)
          /\ after.log = named.log \cup {new} /\ after.next = named.next + 1
          /\ after.row = named.row /\ after.snapshot = named.snapshot
          /\ after.highest = named.highest /\ after.stored = named.stored
      BY <2>2, <2>5, <3>1, RecordGrows
    <3>3. Grows(index, after)
      BY <2>6, <3>2, GrowsTransitive
    <3> QED
      BY <2>1, <2>3, <2>8, <3>2, <3>3 DEF after
  <2> QED
    BY <2>7, <2>8
<1> QED
  BY <1>1, <1>2

LEMMA SweepsNothing ==
    ASSUME NEW index, IndexOK(index)
    PROVE  Sweeps(index, index)
<1>1. index.next \in Nat
  BY DEF IndexOK, Indexes
<1>2. IsFiniteSet(StrandedIn(index))
  BY EpochsAssumption, FS_Subset DEF StrandedIn
<1>3. Cardinality(StrandedIn(index)) \in Nat
  BY <1>2, FS_CardinalityType
<1>4. index.next - index.next <= Cardinality(StrandedIn(index)) - Cardinality(StrandedIn(index))
  BY <1>1, <1>3
<1> QED
  BY <1>4, GrowsReflexive DEF Sweeps

LEMMA SweepFacts ==
    ASSUME NEW index, IndexOK(index)
    PROVE  Sweeps(index, Reap(index)) /\ Sweeps(index, ReapOnDemand(index))
<1> DEFINE marked == [index EXCEPT !.highest = HighestEpoch(index)]
<1>1. HighestEpoch(index) \in Nat
  BY HighestType
<1>2. /\ marked.log = index.log /\ marked.next = index.next /\ marked.row = index.row
      /\ marked.stored = index.stored /\ marked.snapshot = index.snapshot
      /\ marked \in Indexes
  BY <1>1 DEF IndexOK, Indexes
<1>3. /\ Reap(index) = IF HighestEpoch(index) <= index.highest THEN index
                       ELSE ReapStranded(marked)
      /\ ReapOnDemand(index) = IF HighestEpoch(index) = 0 THEN index ELSE ReapStranded(marked)
  BY DEF Reap, ReapOnDemand
<1> HIDE DEF marked
<1>4. IndexOK(marked) /\ index.next <= marked.next
  BY <1>2 DEF IndexOK, Indexes
<1>5. Grows(index, marked)
  BY <1>2, <1>4 DEF Grows
<1>6. Sweeps(marked, ReapStranded(marked))
  BY <1>4, ReapStrandedFacts
<1>7. Grows(index, ReapStranded(marked))
  BY <1>5, <1>6, GrowsTransitive DEF Sweeps
<1>8. StrandedIn(marked) = StrandedIn(index)
  BY <1>2 DEF StrandedIn
<1>9. Sweeps(index, ReapStranded(marked))
  BY <1>2, <1>6, <1>7, <1>8 DEF Sweeps
<1> QED
  BY <1>3, <1>9, SweepsNothing

LEMMA TrimFacts ==
    ASSUME NEW index, IndexOK(index)
    PROVE  LET after == Trim(index)
           IN  /\ Grows(index, after)
               /\ after.next = index.next /\ after.row = index.row
               /\ after.snapshot = index.snapshot /\ after.stored = index.stored
               /\ after.log = {entry \in index.log : entry.id >= index.next - Ring}
<1> DEFINE after == Trim(index)
<1>1. /\ after.next = index.next /\ after.row = index.row
      /\ after.snapshot = index.snapshot /\ after.stored = index.stored
      /\ after.log = {entry \in index.log : entry.id >= index.next - Ring}
      /\ after \in Indexes
  BY DEF Trim, IndexOK, Indexes
<1> HIDE DEF after
<1>2. /\ index.next \in Nat /\ Ring \in Nat /\ \A entry \in index.log : entry.id \in Nat
  BY RingAssumption DEF IndexOK, Indexes, LogRows
<1>3. IndexOK(after) /\ index.next <= after.next
  BY <1>1, <1>2 DEF IndexOK
<1>4. \A entry \in index.log : entry \in after.log \/ entry.id < after.next - Ring
  BY <1>1, <1>2
<1>5. Grows(index, after)
  BY <1>1, <1>3, <1>4 DEF Grows
<1> QED
  BY <1>1, <1>5 DEF after

LEMMA IngestSteps ==
    ASSUME NEW index, NEW batch
    PROVE  Ingest(index, batch) =
             Trim(Reap(IngestStatus(Heard(index, batch.events), batch.status)))
BY Zenon DEF Ingest, Heard

\* What a batch does to an index, handler by handler.
LEMMA IngestFacts ==
    ASSUME NEW index, IndexOK(index), NEW batch \in Batches
    PROVE  LET h == Heard(index, batch.events)
               t == IngestStatus(h, batch.status)
               r == Reap(t)
           IN  /\ HeardBy(index, batch.events, Len(batch.events), h)
               /\ IndexOK(h) /\ IndexOK(t) /\ IndexOK(r)
               /\ Grows(h, t) /\ Sweeps(t, r) /\ Grows(r, Ingest(index, batch))
               /\ Ingest(index, batch) = Trim(r)
               /\ Grows(index, Ingest(index, batch))
<1> DEFINE h == Heard(index, batch.events)
           t == IngestStatus(h, batch.status)
           r == Reap(t)
           after == Ingest(index, batch)
<1>1. batch.events \in Seq(Events) /\ batch.status \in Manifests \cup {NoStatus}
  BY DEF Batches
<1>2. HeardBy(index, batch.events, Len(batch.events), h)
  BY <1>1, HeardFacts
<1>3. after = Trim(r)
  BY IngestSteps
<1> HIDE DEF h
<1>4. IndexOK(h) /\ Grows(index, h)
  BY <1>2 DEF HeardBy, Grows
<1>5. Grows(h, t)
  BY <1>1, <1>4, StatusFacts
<1> HIDE DEF t
<1>6. IndexOK(t)
  BY <1>5 DEF Grows
<1>7. Sweeps(t, r)
  BY <1>6, SweepFacts
<1> HIDE DEF r
<1>8. Grows(t, r) /\ IndexOK(r)
  BY <1>7 DEF Sweeps, Grows
<1>9. Grows(r, after)
  BY <1>3, <1>8, TrimFacts
<1> HIDE DEF after
<1>10. Grows(index, t)
  BY <1>4, <1>5, GrowsTransitive
<1>11. Grows(index, r)
  BY <1>8, <1>10, GrowsTransitive
<1>12. Grows(index, after)
  BY <1>9, <1>11, GrowsTransitive
<1> QED
  BY <1>2, <1>3, <1>4, <1>5, <1>6, <1>7, <1>8, <1>9, <1>12 DEF h, t, r, after

\* No batch strands the epoch its manifest names, and none makes an epoch proven
\* but with the word of one of its events.
LEMMA IngestRows ==
    ASSUME NEW index, IndexOK(index), NEW batch \in Batches, NEW e \in Epochs
    PROVE  LET after == Ingest(index, batch)
           IN  /\ after.row[e].status = "stranded" /\ index.row[e].status # "stranded"
                     => e # after.snapshot
               /\ after.row[e].status = "proven" =>
                     \/ index.row[e].status = "proven"
                     \/ \E j \in 1 .. Len(batch.events) :
                           batch.events[j].epoch = e /\ batch.events[j].bytes
<1> DEFINE h == Heard(index, batch.events)
           t == IngestStatus(h, batch.status)
           r == Reap(t)
           after == Ingest(index, batch)
<1>1. /\ HeardBy(index, batch.events, Len(batch.events), h)
      /\ IndexOK(h) /\ IndexOK(r) /\ Sweeps(t, r) /\ after = Trim(r)
  BY IngestFacts
<1>2. batch.status \in Manifests \cup {NoStatus}
  BY DEF Batches
<1> HIDE DEF h
<1>3. t.row = h.row
  BY <1>1, <1>2, StatusFacts
<1> HIDE DEF t, r
<1>4. after.row = r.row /\ after.snapshot = r.snapshot
  BY <1>1, TrimFacts
<1> HIDE DEF after
<1>5. /\ h.row[e].status = "stranded" => index.row[e].status = "stranded"
      /\ h.row[e].status = "proven" =>
           \/ index.row[e].status = "proven"
           \/ \E j \in 1 .. Len(batch.events) :
                 batch.events[j].epoch = e /\ batch.events[j].bytes
  BY <1>1 DEF HeardBy
<1>6. /\ r.snapshot = t.snapshot
      /\ \/ r.row[e] = t.row[e]
         \/ /\ t.row[e].status = "proving" /\ r.row[e].status = "stranded"
            /\ e # t.snapshot
  BY <1>1 DEF Sweeps
<1> QED
  BY <1>3, <1>4, <1>5, <1>6 DEF after

LEMMA PutProofFacts ==
    ASSUME NEW index, IndexOK(index), NEW b \in BOOLEAN, NEW e \in Epochs
    PROVE  LET after == PutProof(index, b, e)
           IN  /\ Grows(index, after)
               /\ after.log = index.log /\ after.next = index.next
               /\ after.snapshot = index.snapshot
               /\ after.stored[e] # "none"
               /\ \A f \in Epochs :
                    \/ after.row[f].status = index.row[f].status
                    \/ /\ f = e /\ index.row[f].status = "unproven"
                       /\ after.row[f].status = "proven"
                    \/ /\ f = e /\ index.row[f].status = NoRow
                       /\ after.row[f].status = "proving"
<1> DEFINE after == PutProof(index, b, e)
<1>1. /\ index \in Indexes /\ index.row \in [Epochs -> Rows] /\ index.next \in Nat
      /\ index.stored \in [Epochs -> Backends]
  BY DEF IndexOK, Indexes
<1>2. ASSUME NEW rows \in [Epochs -> Rows], NEW backends \in [Epochs -> Backends],
             after = [index EXCEPT !.stored = backends, !.row = rows],
             \A f \in Epochs : index.stored[f] # "none" => backends[f] # "none"
      PROVE  /\ Grows(index, after)
             /\ after.log = index.log /\ after.next = index.next
             /\ after.snapshot = index.snapshot
             /\ after.stored = backends /\ after.row = rows
  <2> HIDE DEF after
  <2>1. /\ after.log = index.log /\ after.next = index.next
        /\ after.snapshot = index.snapshot
        /\ after.stored = backends /\ after.row = rows /\ after \in Indexes
    BY <1>1, <1>2 DEF Indexes
  <2>2. IndexOK(after) /\ index.next <= after.next
    BY <1>1, <2>1 DEF IndexOK
  <2> QED
    BY <1>2, <2>1, <2>2 DEF Grows
<1>3. CASE b
  <2> DEFINE rows == [index.row EXCEPT ![e] = LandProof(@)]
             backends == [index.stored EXCEPT ![e] = "r2"]
  <2>1. /\ LandProof(index.row[e]) \in Rows
        /\ \/ LandProof(index.row[e]).status = index.row[e].status
           \/ index.row[e].status = "unproven" /\ LandProof(index.row[e]).status = "proven"
           \/ index.row[e].status = NoRow /\ LandProof(index.row[e]).status = "proving"
    <3>1. index.row[e] \in Rows
      BY <1>1
    <3> QED
      BY <3>1 DEF LandProof, Touch, Rows, Statuses, NoRow
  <2>2. rows \in [Epochs -> Rows] /\ backends \in [Epochs -> Backends]
    BY <1>1, <2>1 DEF Backends
  <2>3. backends[e] # "none" /\ \A f \in Epochs : index.stored[f] # "none" => backends[f] # "none"
    BY <1>1
  <2>4. after = [index EXCEPT !.stored = backends, !.row = rows]
    BY <1>1, <1>3 DEF PutProof, PutProofMeta, Indexes
  <2>5. \A f \in Epochs : IF f = e THEN rows[f] = LandProof(index.row[e]) ELSE rows[f] = index.row[f]
    BY <1>1
  <2>6. \A f \in Epochs :
          \/ rows[f].status = index.row[f].status
          \/ f = e /\ index.row[f].status = "unproven" /\ rows[f].status = "proven"
          \/ f = e /\ index.row[f].status = NoRow /\ rows[f].status = "proving"
    <3> HIDE DEF rows
    <3> QED
      BY <2>1, <2>5
  <2> HIDE DEF rows, backends, after
  <2>7. /\ Grows(index, after)
        /\ after.log = index.log /\ after.next = index.next
        /\ after.snapshot = index.snapshot
        /\ after.stored = backends /\ after.row = rows
    BY <1>2, <2>2, <2>3, <2>4
  <2>8. after.stored[e] # "none"
    BY <2>3, <2>7
  <2> QED
    BY <2>6, <2>7, <2>8 DEF after
<1>4. CASE ~b
  <2> DEFINE put == [index EXCEPT !.stored = [index.stored EXCEPT ![e] = "inline"]]
             gone == {f \in Inline(put) :
                        Cardinality({o \in Inline(put) : o < f})
                           < Cardinality(Inline(put)) - InlineCap}
             backends == [f \in Epochs |-> IF f \in gone THEN "evicted" ELSE put.stored[f]]
  <2>1. /\ put.stored = [index.stored EXCEPT ![e] = "inline"] /\ put \in Indexes
        /\ put.stored \in [Epochs -> Backends] /\ put.row = index.row
    BY <1>1 DEF Indexes, Backends
  <2>2. put = [index EXCEPT !.stored[e] = "inline"]
    BY <1>1 DEF Indexes
  <2> HIDE DEF put
  <2>3. backends \in [Epochs -> Backends] /\ gone \in SUBSET Epochs
    BY <2>1 DEF Backends, Inline
  <2>4. /\ backends[e] # "none"
        /\ \A f \in Epochs : index.stored[f] # "none" => backends[f] # "none"
    BY <1>1, <2>1
  <2>5. after = [put EXCEPT !.stored = backends]
    BY <1>4, <2>1, <2>2 DEF PutProof, PutProofInline, Evict, Indexes
  <2>6. after = [index EXCEPT !.stored = backends, !.row = index.row]
    <3> HIDE DEF backends, after
    <3> QED
      BY <1>1, <2>1, <2>5 DEF put, Indexes
  <2> HIDE DEF backends, after, gone
  <2> QED
    BY <1>1, <1>2, <2>3, <2>4, <2>6 DEF after
<1> QED
  BY <1>3, <1>4

-----------------------------------------------------------------------------
(* The sets the variables range over.                                      *)

Uploads == [kind : {"proof"}, epoch : Epochs, seq : Nat \ {0}]
Flushes == [kind : {"flush"}, epoch : {0}, seq : {0}]
Messages == Events \cup Manifests \cup Uploads \cup Flushes

\* What is put on the spool, and what is sent.
Entries ==
    [type : {"batch"}, batch : {b \in Batches : Len(b.events) <= MaxBatch}]
        \cup [type : {"proof"}, proof : Uploads]

Phases == {"done", "opening", "work", "land", "close", "save", "stopped"}
Daemons == [up : BOOLEAN, epoch : Nat, phase : Phases, seq : Nat \ {0},
            manifest : Nat, proof : BOOLEAN]

DaemonTypes ==
    /\ daemon \in Daemons
    /\ daemon.epoch \in (Min(Epochs) - 1) .. MaxEpoch
    /\ daemon.phase \notin {"done", "stopped"} => daemon.epoch \in Epochs

QueueTypes ==
    /\ chan \in Seq(Messages) /\ Len(chan) <= QueueCapacity
    /\ held \in Batches /\ Len(held.events) <= MaxBatch
    /\ task \in {"receive", "flush", "drain", "leave", "exit"}
    /\ task # "flush" => Len(held.events) < MaxBatch

SpoolTypes == spool \in Seq(Entries) /\ Len(spool) <= SpoolCapacity

HistoryTypes ==
    /\ said \in [Epochs -> Statuses \cup {"nothing"}]
    /\ taken \in SUBSET Messages /\ counted \in SUBSET Messages
    /\ excused \in SUBSET Messages

Types ==
    /\ DaemonTypes /\ QueueTypes /\ SpoolTypes /\ HistoryTypes
    /\ IndexOK(api) /\ bucket \in BOOLEAN

-----------------------------------------------------------------------------
(* Sequences as sets, and the epochs as an interval.                       *)

LEMMA AppendSet ==
    ASSUME NEW S, NEW s \in Seq(S), NEW m \in S
    PROVE  /\ Append(s, m) \in Seq(S) /\ Len(Append(s, m)) = Len(s) + 1
           /\ ToSet(Append(s, m)) = ToSet(s) \cup {m}
<1> DEFINE t == Append(s, m)
<1>1. /\ t \in Seq(S) /\ Len(t) = Len(s) + 1
      /\ \A i \in 1 .. Len(s) : t[i] = s[i]
      /\ t[Len(s) + 1] = m
  BY AppendProperties
<1>2. DOMAIN s = 1 .. Len(s) /\ DOMAIN t = 1 .. (Len(s) + 1) /\ Len(s) \in Nat
  BY <1>1, LenProperties
<1> HIDE DEF t
<1>3. \A x \in ToSet(t) : x \in ToSet(s) \/ x = m
  <2> SUFFICES ASSUME NEW i \in 1 .. (Len(s) + 1) PROVE t[i] \in ToSet(s) \/ t[i] = m
    BY <1>2 DEF ToSet
  <2>1. CASE i = Len(s) + 1
    BY <1>1, <2>1
  <2>2. CASE i \in 1 .. Len(s)
    BY <1>1, <1>2, <2>2 DEF ToSet
  <2> QED
    BY <1>2, <2>1, <2>2
<1>4. \A x \in ToSet(s) : x \in ToSet(t)
  <2> SUFFICES ASSUME NEW i \in 1 .. Len(s) PROVE s[i] \in ToSet(t)
    BY <1>2 DEF ToSet
  <2>1. i \in 1 .. (Len(s) + 1) /\ t[i] = s[i]
    BY <1>1, <1>2
  <2> QED
    BY <1>2, <2>1 DEF ToSet
<1>5. m \in ToSet(t)
  <2>1. Len(s) + 1 \in DOMAIN t
    BY <1>2
  <2> QED
    BY <1>1, <2>1 DEF ToSet
<1>6. ToSet(t) = ToSet(s) \cup {m}
  BY <1>3, <1>4, <1>5
<1> QED
  BY <1>1, <1>6 DEF t

LEMMA TailSet ==
    ASSUME NEW S, NEW s \in Seq(S), s # <<>>
    PROVE  /\ Head(s) \in S /\ Tail(s) \in Seq(S) /\ Len(Tail(s)) = Len(s) - 1
           /\ ToSet(s) = {Head(s)} \cup ToSet(Tail(s))
           /\ Head(s) = s[1] /\ Len(s) \in Nat \ {0}
           /\ \A i \in 1 .. Len(Tail(s)) : Tail(s)[i] = s[i + 1]
<1> DEFINE t == Tail(s)
<1>1. /\ Head(s) \in S /\ t \in Seq(S) /\ Len(t) = Len(s) - 1
      /\ \A i \in 1 .. Len(t) : t[i] = s[i + 1]
  BY HeadTailProperties
<1>2. /\ DOMAIN s = 1 .. Len(s) /\ DOMAIN t = 1 .. Len(t)
      /\ Len(s) \in Nat \ {0} /\ Len(t) \in Nat
  BY <1>1, LenProperties, EmptySeq
<1>3. Head(s) = s[1]
  BY SMT
<1> HIDE DEF t
<1>4. \A x \in ToSet(s) : x = s[1] \/ x \in ToSet(t)
  <2> SUFFICES ASSUME NEW i \in 1 .. Len(s) PROVE s[i] = s[1] \/ s[i] \in ToSet(t)
    BY <1>2 DEF ToSet
  <2>1. CASE i # 1
    <3>1. i - 1 \in 1 .. Len(t) /\ t[i - 1] = s[i - 1 + 1] /\ i - 1 + 1 = i
      BY <1>1, <1>2, <2>1
    <3> QED
      BY <1>2, <3>1 DEF ToSet
  <2> QED
    BY <2>1
<1>5. \A x \in ToSet(t) : x \in ToSet(s)
  <2> SUFFICES ASSUME NEW i \in 1 .. Len(t) PROVE t[i] \in ToSet(s)
    BY <1>2 DEF ToSet
  <2>1. i + 1 \in 1 .. Len(s) /\ t[i] = s[i + 1]
    BY <1>1, <1>2
  <2> QED
    BY <1>2, <2>1 DEF ToSet
<1>6. s[1] \in ToSet(s)
  <2>1. 1 \in 1 .. Len(s)
    BY <1>2
  <2> QED
    BY <1>2, <2>1 DEF ToSet
<1>7. ToSet(s) = {s[1]} \cup ToSet(t)
  BY <1>4, <1>5, <1>6
<1> QED
  BY <1>1, <1>2, <1>3, <1>7 DEF t

LEMMA EmptySet ==
    ToSet(<<>>) = {}
BY DEF ToSet

LEMMA InSet ==
    ASSUME NEW S, NEW s \in Seq(S)
    PROVE  /\ ToSet(s) \in SUBSET S
           /\ \A x \in ToSet(s) : \E i \in 1 .. Len(s) : x = s[i]
           /\ \A i \in 1 .. Len(s) : s[i] \in ToSet(s)
<1>1. DOMAIN s = 1 .. Len(s)
  BY LenProperties
<1>2. \A i \in 1 .. Len(s) : s[i] \in S
  BY ElementOfSeq
<1> QED
  BY <1>1, <1>2 DEF ToSet

LEMMA FiniteMin ==
    ASSUME NEW S \in SUBSET Nat, S # {}
    PROVE  Min(S) \in S /\ \A x \in S : Min(S) <= x
BY LeastNatural DEF Min

\* The epoch after any but the last is one of the epochs.
LEMMA NextEpoch ==
    /\ Min(Epochs) \in Epochs /\ MaxEpoch \in Epochs
    /\ Min(Epochs) \in Nat \ {0} /\ MaxEpoch \in Nat
    /\ \A e \in Epochs : e \in Min(Epochs) .. MaxEpoch
    /\ \A n \in (Min(Epochs) - 1) .. MaxEpoch :
          n \in Nat /\ (n < MaxEpoch => n + 1 \in Epochs /\ n + 1 \in (Min(Epochs) - 1) .. MaxEpoch)
<1>1. Epochs \in SUBSET Nat /\ Epochs \in SUBSET Int /\ Epochs # {} /\ IsFiniteSet(Epochs)
  BY EpochsAssumption
<1>2. Min(Epochs) \in Epochs /\ \A e \in Epochs : Min(Epochs) <= e
  BY <1>1, FiniteMin
<1>3. MaxEpoch \in Epochs /\ \A e \in Epochs : e <= MaxEpoch
  BY <1>1, FiniteMax DEF MaxEpoch
<1>4. Min(Epochs) \in Nat \ {0} /\ MaxEpoch \in Nat
  BY <1>2, <1>3, EpochsAssumption
<1>5. Min(Epochs) .. MaxEpoch \in SUBSET Epochs
  BY <1>2, <1>3, EpochsAssumption
<1>6. ASSUME NEW n \in (Min(Epochs) - 1) .. MaxEpoch
      PROVE  n \in Nat /\ (n < MaxEpoch => n + 1 \in Epochs /\ n + 1 \in (Min(Epochs) - 1) .. MaxEpoch)
  BY <1>4, <1>5
<1>7. \A e \in Epochs : e \in Min(Epochs) .. MaxEpoch
  BY <1>1, <1>2, <1>3, <1>4
<1> QED
  BY <1>2, <1>3, <1>4, <1>6, <1>7

-----------------------------------------------------------------------------
(* Where a message is, from the moment the daemon announces it.            *)

Accounted == taken \cup Unsent \cup counted \cup excused

\* The messages of a spool.
Holds(s) == UNION {InEntry(s[i]) : i \in 1 .. Len(s)}

LEMMA HoldsFacts ==
    ASSUME NEW s \in Seq(Entries), NEW entry \in Entries
    PROVE  /\ Holds(Append(s, entry)) = Holds(s) \cup InEntry(entry)
           /\ s # <<>> => Holds(s) = InEntry(Head(s)) \cup Holds(Tail(s))
<1>1. ASSUME NEW t \in Seq(Entries)
      PROVE  Holds(t) = UNION {InEntry(x) : x \in ToSet(t)}
  <2>1. /\ \A x \in ToSet(t) : \E i \in 1 .. Len(t) : x = t[i]
        /\ \A i \in 1 .. Len(t) : t[i] \in ToSet(t)
    BY InSet
  <2> QED
    BY <2>1 DEF Holds
<1>2. Holds(Append(s, entry)) = Holds(s) \cup InEntry(entry)
  <2> DEFINE t == Append(s, entry)
  <2>1. t \in Seq(Entries) /\ ToSet(t) = ToSet(s) \cup {entry}
    BY AppendSet
  <2> HIDE DEF t
  <2>2. Holds(t) = UNION {InEntry(x) : x \in ToSet(s) \cup {entry}}
    BY <1>1, <2>1
  <2>3. Holds(s) = UNION {InEntry(x) : x \in ToSet(s)}
    BY <1>1
  <2>4. Holds(t) = Holds(s) \cup InEntry(entry)
    BY <2>2, <2>3
  <2> QED
    BY <2>4 DEF t
<1>3. ASSUME s # <<>>
      PROVE  Holds(s) = InEntry(Head(s)) \cup Holds(Tail(s))
  <2>1. Tail(s) \in Seq(Entries) /\ ToSet(s) = {Head(s)} \cup ToSet(Tail(s))
    BY <1>3, TailSet
  <2>2. Holds(s) = UNION {InEntry(x) : x \in {Head(s)} \cup ToSet(Tail(s))}
    BY <1>1, <2>1
  <2>3. Holds(Tail(s)) = UNION {InEntry(x) : x \in ToSet(Tail(s))}
    BY <1>1, <2>1
  <2> QED
    BY <2>2, <2>3
<1> QED
  BY <1>2, <1>3

LEMMA BatchMessages ==
    ASSUME NEW b \in Batches
    PROVE  /\ InBatch(b) \in SUBSET (Events \cup Manifests)
           /\ ToSet(b.events) \in SUBSET Events
           /\ \A m \in InBatch(b) : m \in Events => m \in ToSet(b.events)
<1>1. b.events \in Seq(Events) /\ b.status \in Manifests \cup {NoStatus}
  BY DEF Batches
<1>2. ToSet(b.events) \in SUBSET Events
  BY <1>1, InSet
<1>3. \A m \in Manifests : m \notin Events
  BY DEF Manifests, Events, EventKinds
<1> QED
  BY <1>1, <1>2, <1>3 DEF InBatch

LEMMA EntryMessages ==
    ASSUME NEW entry \in Entries
    PROVE  InEntry(entry) \in SUBSET (Events \cup Manifests \cup Uploads)
<1>1. CASE entry.type = "proof"
  BY <1>1 DEF Entries, InEntry
<1>2. CASE entry.type # "proof"
  <2>1. entry.batch \in Batches
    BY <1>2 DEF Entries
  <2> QED
    BY <1>2, <2>1, BatchMessages DEF InEntry
<1> QED
  BY <1>1, <1>2

LEMMA NothingHeldType ==
    NothingHeld \in Batches /\ InBatch(NothingHeld) = {} /\ Len(NothingHeld.events) = 0
<1>1. NothingHeld.events = <<>> /\ NothingHeld.status = NoStatus
  BY DEF NothingHeld
<1>2. <<>> \in Seq(Events) /\ Len(<<>>) = 0
  BY EmptySeq
<1>3. NothingHeld \in Batches
  BY <1>2 DEF NothingHeld, Batches
<1> QED
  BY <1>1, <1>2, <1>3, EmptySet DEF InBatch

LEMMA SendFacts ==
    ASSUME QueueTypes, HistoryTypes, NEW m \in Messages, NEW left, Send(m, left)
    PROVE  /\ chan' \in Seq(Messages) /\ Len(chan') <= QueueCapacity
           /\ counted' \in SUBSET Messages
           /\ ToSet(chan') \cup counted' = ToSet(chan) \cup counted \cup {m}
           /\ chan' = chan \/ chan' = Append(chan, m)
<1>1. /\ chan \in Seq(Messages) /\ Len(chan) <= QueueCapacity /\ Len(chan) \in Nat
      /\ counted \in SUBSET Messages /\ QueueCapacity \in Nat
  BY LenProperties, CapacityAssumption DEF QueueTypes, HistoryTypes
<1>2. CASE chan' = Append(chan, m) /\ counted' = counted /\ Len(chan) < QueueCapacity
  BY <1>1, <1>2, AppendSet
<1>3. CASE chan' = chan /\ counted' = counted \cup {m}
  BY <1>1, <1>3
<1> QED
  BY <1>2, <1>3 DEF Send

\* A request for an entry was made, or none reached the API.
Reaches(entry) ==
    \/ api' = api /\ taken' = taken
    \/ api' = Effect(entry) /\ taken' = taken \cup InEntry(entry)

LEMMA EffectGrows ==
    ASSUME IndexOK(api), bucket \in BOOLEAN, NEW entry \in Entries
    PROVE  Grows(api, Effect(entry))
<1>1. CASE entry.type = "proof"
  <2>1. entry.proof.epoch \in Epochs
    BY <1>1 DEF Entries, Uploads
  <2> QED
    BY <1>1, <2>1, PutProofFacts DEF Effect
<1>2. CASE entry.type # "proof"
  <2>1. entry.batch \in Batches
    BY <1>2 DEF Entries
  <2> QED
    BY <1>2, <2>1, IngestFacts DEF Effect
<1> QED
  BY <1>1, <1>2

LEMMA RequestFacts ==
    ASSUME Types, NEW entry \in Entries, NEW fate, Request(entry, fate)
    PROVE  /\ Reaches(entry) /\ Grows(api, api')
           /\ viewer' = Broadcast(api, api')
           /\ taken' \in SUBSET Messages /\ excused' \in SUBSET Messages
           /\ taken \in SUBSET taken' /\ excused \in SUBSET excused'
           /\ taken' \cup excused' \in SUBSET (taken \cup excused \cup InEntry(entry))
           /\ Posted(fate) => InEntry(entry) \in SUBSET (taken' \cup excused')
<1>1. InEntry(entry) \in SUBSET Messages
  BY EntryMessages DEF Messages
<1>2. Reaches(entry)
  BY DEF Request, Reaches
<1>3. Grows(api, api')
  BY <1>2, EffectGrows, GrowsReflexive DEF Types, Reaches
<1>4. taken \in SUBSET Messages /\ excused \in SUBSET Messages
  BY DEF Types, HistoryTypes
<1> QED
  BY <1>1, <1>2, <1>3, <1>4 DEF Request, Arrives, Posted

\* What the task no longer holds: posted, spooled, or accounted for as lost.
Behind == taken \cup Spooled \cup counted \cup excused

LEMMA BehindIs ==
    Behind = taken \cup Holds(spool) \cup counted \cup excused
BY DEF Behind, Spooled, Holds

LEMMA PushFacts ==
    ASSUME Types, NEW entry \in Entries, Push(entry)
    PROVE  /\ spool' \in Seq(Entries) /\ Len(spool') <= SpoolCapacity
           /\ counted' \in SUBSET Messages /\ counted \in SUBSET counted'
           /\ Holds(spool') \cup counted' = Holds(spool) \cup counted \cup InEntry(entry)
<1>1. /\ spool \in Seq(Entries) /\ Len(spool) <= SpoolCapacity /\ Len(spool) \in Nat
      /\ counted \in SUBSET Messages /\ SpoolCapacity \in Nat \ {0}
  BY LenProperties, CapacityAssumption DEF Types, SpoolTypes, HistoryTypes
<1>2. CASE spool' = Append(spool, entry) /\ counted' = counted /\ Len(spool) < SpoolCapacity
  <2>1. spool' \in Seq(Entries) /\ Len(spool') = Len(spool) + 1
    BY <1>1, <1>2, AppendSet
  <2>2. Holds(spool') = Holds(spool) \cup InEntry(entry)
    BY <1>1, <1>2, HoldsFacts
  <2> QED
    BY <1>1, <1>2, <2>1, <2>2
<1>3. CASE /\ spool' = Append(Tail(spool), entry) /\ Len(spool) >= SpoolCapacity
           /\ counted' = counted \cup InEntry(Head(spool))
  <2>1. spool # <<>>
    BY <1>1, <1>3, EmptySeq
  <2>2. /\ Head(spool) \in Entries /\ Tail(spool) \in Seq(Entries)
        /\ Len(Tail(spool)) = Len(spool) - 1
    BY <1>1, <2>1, TailSet
  <2>3. spool' \in Seq(Entries) /\ Len(spool') = Len(Tail(spool)) + 1
    BY <1>3, <2>2, AppendSet
  <2>4. Holds(spool') = Holds(Tail(spool)) \cup InEntry(entry)
    BY <1>3, <2>2, HoldsFacts
  <2>5. Holds(spool) = InEntry(Head(spool)) \cup Holds(Tail(spool))
    BY <1>1, <2>1, HoldsFacts
  <2>6. InEntry(Head(spool)) \in SUBSET Messages
    BY <2>2, EntryMessages DEF Messages
  <2> QED
    BY <1>1, <1>3, <2>2, <2>3, <2>4, <2>5, <2>6
<1> QED
  BY <1>1, <1>2, <1>3 DEF Push

\* One entry posted, or put on the spool.
LEMMA PostFacts ==
    ASSUME Types, NEW entry \in Entries, PostOrSpool(entry)
    PROVE  /\ Reaches(entry) /\ Grows(api, api')
           /\ viewer' = Broadcast(api, api') \/ (viewer' = viewer /\ api' = api)
           /\ SpoolTypes'
           /\ taken' \in SUBSET Messages /\ counted' \in SUBSET Messages
           /\ excused' \in SUBSET Messages
           /\ taken \in SUBSET taken' /\ counted \in SUBSET counted'
           /\ excused \in SUBSET excused'
           /\ Behind' = Behind \cup InEntry(entry)
<1>1. /\ spool \in Seq(Entries) /\ Len(spool) <= SpoolCapacity
      /\ counted \in SUBSET Messages /\ taken \in SUBSET Messages
      /\ excused \in SUBSET Messages /\ IndexOK(api)
  BY DEF Types, SpoolTypes, HistoryTypes
<1>2. Behind = taken \cup Holds(spool) \cup counted \cup excused
  BY BehindIs
<1>3. Behind' = taken' \cup Holds(spool') \cup counted' \cup excused'
  BY DEF Behind, Spooled, Holds
<1>4. CASE Push(entry) /\ UNCHANGED <<api, taken, excused, viewer>>
  <2>1. /\ spool' \in Seq(Entries) /\ Len(spool') <= SpoolCapacity
        /\ counted' \in SUBSET Messages /\ counted \in SUBSET counted'
        /\ Holds(spool') \cup counted' = Holds(spool) \cup counted \cup InEntry(entry)
    BY <1>4, PushFacts
  <2>2. Grows(api, api')
    BY <1>1, <1>4, GrowsReflexive
  <2>3. Behind' = Behind \cup InEntry(entry)
    BY <1>2, <1>3, <1>4, <2>1
  <2> QED
    BY <1>1, <1>4, <2>1, <2>2, <2>3 DEF SpoolTypes, Reaches
<1>5. ASSUME NEW fate, Request(entry, fate),
             IF Posted(fate) THEN UNCHANGED <<spool, counted>> ELSE Push(entry)
      PROVE  /\ Reaches(entry) /\ Grows(api, api')
             /\ viewer' = Broadcast(api, api')
             /\ SpoolTypes'
             /\ taken' \in SUBSET Messages /\ counted' \in SUBSET Messages
             /\ excused' \in SUBSET Messages
             /\ taken \in SUBSET taken' /\ counted \in SUBSET counted'
             /\ excused \in SUBSET excused'
             /\ Behind' = Behind \cup InEntry(entry)
  <2>1. /\ Reaches(entry) /\ Grows(api, api')
        /\ viewer' = Broadcast(api, api')
        /\ taken' \in SUBSET Messages /\ excused' \in SUBSET Messages
        /\ taken \in SUBSET taken' /\ excused \in SUBSET excused'
        /\ taken' \cup excused' \in SUBSET (taken \cup excused \cup InEntry(entry))
        /\ Posted(fate) => InEntry(entry) \in SUBSET (taken' \cup excused')
    BY <1>5, RequestFacts
  <2>2. CASE Posted(fate)
    <3>1. spool' = spool /\ counted' = counted
      BY <1>5, <2>2
    <3>2. Behind' = Behind \cup InEntry(entry)
      BY <1>2, <1>3, <2>1, <2>2, <3>1
    <3> QED
      BY <1>1, <2>1, <3>1, <3>2 DEF SpoolTypes
  <2>3. CASE ~Posted(fate)
    <3>1. Push(entry)
      BY <1>5, <2>3
    <3>2. /\ spool' \in Seq(Entries) /\ Len(spool') <= SpoolCapacity
          /\ counted' \in SUBSET Messages /\ counted \in SUBSET counted'
          /\ Holds(spool') \cup counted' = Holds(spool) \cup counted \cup InEntry(entry)
      BY <3>1, PushFacts
    <3>3. Behind' = Behind \cup InEntry(entry)
      BY <1>2, <1>3, <2>1, <3>2
    <3> QED
      BY <2>1, <3>2, <3>3 DEF SpoolTypes
  <2> QED
    BY <2>2, <2>3
<1> QED
  BY <1>4, <1>5 DEF PostOrSpool

-----------------------------------------------------------------------------
(* What the daemon says in a step, and what it remembers.                  *)

\* The daemon's next message, with what entitles it to one that speaks of bytes.
Speaks(m) ==
    \/ /\ m \in Events /\ m.seq = daemon.seq /\ daemon'.seq = daemon.seq + 1
       /\ m.bytes => /\ m.epoch = daemon.epoch /\ daemon.proof
                     /\ daemon.phase \in {"land", "close"}
    \/ m \in Manifests \cup Uploads \cup Flushes /\ daemon'.seq = daemon.seq

Mute == chan' = chan /\ counted' = counted /\ daemon'.seq = daemon.seq

\* The daemon has a final proof for the epoch it is at.
HasProof == daemon.phase \in {"land", "close"} /\ daemon.proof

DaemonSays ==
    /\ \/ \E m \in Messages : \E left : Send(m, left) /\ Speaks(m)
       \/ Mute
    /\ HasProof' =>
          \/ HasProof /\ daemon'.epoch = daemon.epoch
          \/ \E m \in Uploads : \E left : Send(m, left) /\ Speaks(m) /\ m.epoch = daemon'.epoch
    /\ DaemonTypes'
    /\ said' \in [Epochs -> Statuses \cup {"nothing"}]
    /\ TaskUnchanged /\ bucket' = bucket

LEMMA EventSaid ==
    ASSUME DaemonTypes, NEW kind \in EventKinds, NEW e \in Epochs, NEW bytes \in BOOLEAN,
           NEW next \in Daemons, next.seq = daemon.seq, NEW left,
           SendEvent(kind, e, bytes, next, left),
           bytes => HasProof /\ e = daemon.epoch
    PROVE  /\ \E m \in Messages : \E l : Send(m, l) /\ Speaks(m)
           /\ daemon' \in Daemons /\ daemon' = [next EXCEPT !.seq = @ + 1]
           /\ daemon'.epoch = next.epoch /\ daemon'.phase = next.phase
           /\ daemon'.proof = next.proof
<1> DEFINE m == Event(kind, e, bytes)
<1>1. daemon.seq \in Nat \ {0}
  BY DEF DaemonTypes, Daemons
<1>2. /\ m \in Events /\ m.seq = daemon.seq /\ m.bytes = bytes /\ m.epoch = e
  BY <1>1 DEF Event, Events
<1>3. Send(m, left) /\ daemon' = [next EXCEPT !.seq = @ + 1]
  BY DEF SendEvent
<1>4. /\ daemon'.seq = daemon.seq + 1 /\ daemon' \in Daemons
      /\ daemon'.epoch = next.epoch /\ daemon'.phase = next.phase
      /\ daemon'.proof = next.proof
  BY <1>1, <1>3 DEF Daemons
<1>5. Speaks(m)
  BY <1>2, <1>4 DEF Speaks, HasProof
<1> QED
  BY <1>2, <1>3, <1>4, <1>5 DEF Messages

LEMMA WordSaid ==
    ASSUME DaemonTypes, NEW kind \in EventKinds, NEW e \in Epochs,
           NEW next \in Daemons, next.seq = daemon.seq, NEW left,
           SendEvent(kind, e, FALSE, next, left)
    PROVE  /\ \E m \in Messages : \E l : Send(m, l) /\ Speaks(m)
           /\ daemon' \in Daemons /\ daemon' = [next EXCEPT !.seq = @ + 1]
           /\ daemon'.epoch = next.epoch /\ daemon'.phase = next.phase
           /\ daemon'.proof = next.proof
<1>1. FALSE \in BOOLEAN /\ (FALSE => HasProof /\ e = daemon.epoch)
  OBVIOUS
<1> QED
  BY <1>1, EventSaid, Zenon

LEMMA DaemonStep ==
    ASSUME Types, Daemon
    PROVE  DaemonSays
<1>1. /\ daemon \in Daemons /\ daemon.epoch \in (Min(Epochs) - 1) .. MaxEpoch
      /\ daemon.phase \notin {"done", "stopped"} => daemon.epoch \in Epochs
      /\ daemon.epoch \in Nat /\ daemon.proof \in BOOLEAN /\ daemon.seq \in Nat \ {0}
      /\ said \in [Epochs -> Statuses \cup {"nothing"}]
      /\ DaemonTypes
  BY DEF Types, DaemonTypes, Daemons, HistoryTypes
<1>e. \A e \in Epochs : e \in (Min(Epochs) - 1) .. MaxEpoch /\ e \in Nat
  BY NextEpoch
<1>2. CASE AdvanceEpoch
  <2> DEFINE next == [daemon EXCEPT !.epoch = @ + 1, !.phase = "opening"]
  <2>1. daemon.epoch + 1 \in Epochs
    BY <1>1, <1>2, NextEpoch DEF AdvanceEpoch
  <2>2. /\ next \in Daemons /\ next.seq = daemon.seq /\ next.phase = "opening"
        /\ next.epoch = daemon.epoch + 1
    BY <1>1, <1>e, <2>1 DEF Daemons, Phases
  <2>3. /\ \E left : SendEvent("stage", daemon.epoch + 1, FALSE, next, left)
        /\ UNCHANGED <<bucket, said>> /\ TaskUnchanged
    BY <1>2 DEF AdvanceEpoch
  <2> HIDE DEF next
  <2>4. /\ \E m \in Messages : \E l : Send(m, l) /\ Speaks(m)
        /\ daemon' \in Daemons
        /\ daemon'.epoch = daemon.epoch + 1 /\ daemon'.phase = "opening"
    <3>1. "stage" \in EventKinds
      BY DEF EventKinds
    <3>2. /\ \E m \in Messages : \E l : Send(m, l) /\ Speaks(m)
          /\ daemon' \in Daemons
          /\ daemon'.epoch = next.epoch /\ daemon'.phase = next.phase
      BY <1>1, <2>1, <2>2, <2>3, <3>1, WordSaid, Zenon
    <3> QED
      BY <2>2, <3>2
  <2> QED
    BY <1>1, <1>e, <2>1, <2>3, <2>4 DEF DaemonSays, HasProof, DaemonTypes
<1>3. CASE OpenEpoch
  <2> DEFINE next == [daemon EXCEPT !.phase = "work"]
  <2>1. daemon.epoch \in Epochs
    BY <1>1, <1>3 DEF OpenEpoch
  <2>2. /\ next \in Daemons /\ next.seq = daemon.seq /\ next.phase = "work"
        /\ next.epoch = daemon.epoch
    BY <1>1 DEF Daemons, Phases
  <2>3. /\ \E left : SendEvent("opened", daemon.epoch, FALSE, next, left)
        /\ UNCHANGED <<bucket, said>> /\ TaskUnchanged
    BY <1>3 DEF OpenEpoch
  <2> HIDE DEF next
  <2>4. /\ \E m \in Messages : \E l : Send(m, l) /\ Speaks(m)
        /\ daemon' \in Daemons
        /\ daemon'.epoch = daemon.epoch /\ daemon'.phase = "work"
    <3>1. "opened" \in EventKinds
      BY DEF EventKinds
    <3>2. /\ \E m \in Messages : \E l : Send(m, l) /\ Speaks(m)
          /\ daemon' \in Daemons
          /\ daemon'.epoch = next.epoch /\ daemon'.phase = next.phase
      BY <1>1, <2>1, <2>2, <2>3, <3>1, WordSaid, Zenon
    <3> QED
      BY <2>2, <3>2
  <2> QED
    BY <1>1, <1>e, <2>1, <2>3, <2>4 DEF DaemonSays, HasProof, DaemonTypes
<1>4. CASE Speculate
  <2>1. daemon.epoch + 1 \in Epochs /\ daemon.epoch \in Epochs /\ daemon.phase = "work"
    BY <1>1, <1>4, NextEpoch DEF Speculate
  <2>2. /\ \E left : SendEvent("stage", daemon.epoch + 1, FALSE, daemon, left)
        /\ UNCHANGED <<bucket, said>> /\ TaskUnchanged
    BY <1>4 DEF Speculate
  <2>3. /\ \E m \in Messages : \E l : Send(m, l) /\ Speaks(m)
        /\ daemon' \in Daemons
        /\ daemon'.epoch = daemon.epoch /\ daemon'.phase = "work"
    BY <1>1, <2>1, <2>2, WordSaid DEF EventKinds
  <2> QED
    BY <1>1, <1>e, <2>1, <2>2, <2>3 DEF DaemonSays, HasProof, DaemonTypes
<1>5. CASE ProofBytes
  <2> DEFINE m == [kind |-> "proof", epoch |-> daemon.epoch, seq |-> daemon.seq]
  <2>1. daemon.epoch \in Epochs /\ said' = said /\ bucket' = bucket /\ TaskUnchanged
    BY <1>1, <1>5 DEF ProofBytes
  <2>2. m \in Uploads /\ m \in Messages /\ m.epoch = daemon.epoch
    BY <1>1, <2>1 DEF Uploads, Messages
  <2>3. CASE /\ Send(m, budget)
             /\ daemon' = [daemon EXCEPT !.phase = "land", !.proof = TRUE]
    <3>1. /\ daemon' \in Daemons /\ daemon'.seq = daemon.seq
          /\ daemon'.epoch = daemon.epoch
      BY <1>1, <2>3 DEF Daemons, Phases
    <3> HIDE DEF m
    <3>2. Speaks(m)
      BY <2>2, <3>1 DEF Speaks
    <3> QED
      BY <1>1, <1>e, <2>1, <2>2, <2>3, <3>1, <3>2 DEF DaemonSays, DaemonTypes
  <2>4. CASE /\ daemon' = [daemon EXCEPT !.phase = "land", !.proof = FALSE]
             /\ UNCHANGED <<chan, counted, budget>>
    <3>1. /\ daemon' \in Daemons /\ daemon'.seq = daemon.seq /\ daemon'.proof = FALSE
          /\ daemon'.epoch = daemon.epoch
      BY <1>1, <2>4 DEF Daemons, Phases
    <3> QED
      BY <1>1, <1>e, <2>1, <2>4, <3>1 DEF DaemonSays, DaemonTypes, HasProof, Mute
  <2> QED
    BY <1>5, <2>3, <2>4 DEF ProofBytes
<1>6. CASE ProofLanded
  <2> DEFINE next == [daemon EXCEPT !.phase = "close"]
  <2>1. daemon.epoch \in Epochs /\ daemon.phase = "land"
    BY <1>1, <1>6 DEF ProofLanded
  <2>2. /\ next \in Daemons /\ next.seq = daemon.seq /\ next.phase = "close"
        /\ next.epoch = daemon.epoch /\ next.proof = daemon.proof
    BY <1>1 DEF Daemons, Phases
  <2>3. /\ SendEvent("landed", daemon.epoch, daemon.proof, next, budget)
        /\ said' = [said EXCEPT ![daemon.epoch] = EpochStatus(daemon.proof)]
        /\ bucket' = bucket /\ TaskUnchanged
    BY <1>6 DEF ProofLanded
  <2> HIDE DEF next
  <2>4. daemon.proof => HasProof /\ daemon.epoch = daemon.epoch
    BY <2>1 DEF HasProof
  <2>5. /\ \E m \in Messages : \E l : Send(m, l) /\ Speaks(m)
        /\ daemon' \in Daemons /\ daemon'.proof = daemon.proof
        /\ daemon'.epoch = daemon.epoch /\ daemon'.phase = "close"
    BY <1>1, <2>1, <2>2, <2>3, <2>4, EventSaid DEF EventKinds
  <2>6. said' \in [Epochs -> Statuses \cup {"nothing"}]
    BY <1>1, <2>3 DEF EpochStatus, Statuses
  <2> QED
    BY <1>1, <1>e, <2>1, <2>3, <2>5, <2>6 DEF DaemonSays, HasProof, DaemonTypes
<1>7. CASE EpochClosed
  <2> DEFINE next == [daemon EXCEPT !.phase = "save"]
  <2>1. daemon.epoch \in Epochs /\ daemon.phase = "close"
    BY <1>1, <1>7 DEF EpochClosed
  <2>2. /\ next \in Daemons /\ next.seq = daemon.seq /\ next.phase = "save"
        /\ next.epoch = daemon.epoch /\ next.proof = daemon.proof
    BY <1>1 DEF Daemons, Phases
  <2>3. /\ SendEvent("closed", daemon.epoch, daemon.proof, next, budget)
        /\ said' = said /\ bucket' = bucket /\ TaskUnchanged
    BY <1>7 DEF EpochClosed
  <2> HIDE DEF next
  <2>4. daemon.proof => HasProof /\ daemon.epoch = daemon.epoch
    BY <2>1 DEF HasProof
  <2>5. /\ \E m \in Messages : \E l : Send(m, l) /\ Speaks(m)
        /\ daemon' \in Daemons
        /\ daemon'.epoch = daemon.epoch /\ daemon'.phase = "save"
    BY <1>1, <2>1, <2>2, <2>3, <2>4, EventSaid DEF EventKinds
  <2> QED
    BY <1>1, <1>e, <2>1, <2>3, <2>5 DEF DaemonSays, HasProof, DaemonTypes
<1>8. ASSUME NEW next \in Daemons, next.seq = daemon.seq, next.epoch = daemon.epoch,
             next.phase \in {"save", "opening"}, daemon.epoch \in Epochs,
             NEW left, EpochAbandoned(next, left)
      PROVE  DaemonSays
  <2>1. /\ SendEvent("abandoned", daemon.epoch, FALSE, next, left)
        /\ said' = [said EXCEPT ![daemon.epoch] = "abandoned"]
        /\ bucket' = bucket /\ TaskUnchanged
    BY <1>8 DEF EpochAbandoned
  <2>2. /\ \E m \in Messages : \E l : Send(m, l) /\ Speaks(m)
        /\ daemon' \in Daemons
        /\ daemon'.epoch = daemon.epoch /\ daemon'.phase = next.phase
    BY <1>1, <1>8, <2>1, WordSaid DEF EventKinds
  <2>3. said' \in [Epochs -> Statuses \cup {"nothing"}]
    BY <1>1, <2>1 DEF Statuses
  <2> QED
    BY <1>1, <1>e, <1>8, <2>1, <2>2, <2>3 DEF DaemonSays, HasProof, DaemonTypes
<1>9. CASE GiveUp
  <2> DEFINE next == [daemon EXCEPT !.phase = "save"]
  <2>1. next \in Daemons /\ next.seq = daemon.seq /\ next.epoch = daemon.epoch /\ next.phase = "save"
    BY <1>1 DEF Daemons, Phases
  <2>2. daemon.epoch \in Epochs /\ EpochAbandoned(next, budget)
    BY <1>1, <1>9 DEF GiveUp
  <2> HIDE DEF next
  <2> QED
    BY <1>8, <2>1, <2>2
<1>10. CASE ReorgedOut
  <2> DEFINE next == [daemon EXCEPT !.phase = "opening"]
  <2>1. next \in Daemons /\ next.seq = daemon.seq /\ next.epoch = daemon.epoch /\ next.phase = "opening"
    BY <1>1 DEF Daemons, Phases
  <2>2. daemon.epoch \in Epochs /\ \E left : EpochAbandoned(next, left)
    BY <1>1, <1>10 DEF ReorgedOut
  <2> HIDE DEF next
  <2> QED
    BY <1>8, <2>1, <2>2
<1>11. CASE SaveStore
  <2>1. /\ daemon' = [daemon EXCEPT !.phase = "done"]
        /\ UNCHANGED <<chan, bucket, said, counted>> /\ TaskUnchanged
    BY <1>11 DEF SaveStore
  <2>2. /\ daemon' \in Daemons /\ daemon'.seq = daemon.seq
        /\ daemon'.epoch = daemon.epoch /\ daemon'.phase = "done"
    BY <1>1, <2>1 DEF Daemons, Phases
  <2> QED
    BY <1>1, <2>1, <2>2 DEF DaemonSays, HasProof, DaemonTypes, Mute
<1>12. CASE PublishStatus
  <2> DEFINE m == [kind |-> "status", epoch |-> daemon.epoch, seq |-> daemon.seq]
  <2>1. /\ daemon.epoch \in Epochs /\ Send(m, budget)
        /\ daemon' = [daemon EXCEPT !.manifest = daemon.epoch]
        /\ UNCHANGED <<bucket, said>> /\ TaskUnchanged
        /\ daemon.phase \in {"opening", "work", "done"}
    BY <1>12 DEF PublishStatus
  <2>2. m \in Manifests /\ m \in Messages
    BY <1>1, <2>1 DEF Manifests, Messages
  <2>3. /\ daemon' \in Daemons /\ daemon'.seq = daemon.seq /\ daemon'.phase = daemon.phase
        /\ daemon'.epoch = daemon.epoch
    BY <1>1, <2>1 DEF Daemons
  <2> HIDE DEF m
  <2>4. Speaks(m)
    BY <2>2, <2>3 DEF Speaks
  <2> QED
    BY <1>1, <2>1, <2>2, <2>3, <2>4 DEF DaemonSays, HasProof, DaemonTypes
<1>13. CASE Stop
  <2> DEFINE m == [kind |-> "flush", epoch |-> 0, seq |-> 0]
  <2>1. /\ Len(chan) < QueueCapacity /\ chan' = Append(chan, m)
        /\ daemon' = [daemon EXCEPT !.phase = "stopped"]
        /\ UNCHANGED <<bucket, budget, said, counted>> /\ TaskUnchanged
    BY <1>13 DEF Stop
  <2>2. m \in Flushes /\ m \in Messages
    BY DEF Flushes, Messages
  <2>3. /\ daemon' \in Daemons /\ daemon'.seq = daemon.seq /\ daemon'.phase = "stopped"
        /\ daemon'.epoch = daemon.epoch
    BY <1>1, <2>1 DEF Daemons, Phases
  <2> HIDE DEF m
  <2>4. Speaks(m) /\ Send(m, budget)
    BY <2>1, <2>2, <2>3 DEF Speaks, Send
  <2> QED
    BY <1>1, <2>1, <2>2, <2>3, <2>4 DEF DaemonSays, HasProof, DaemonTypes
<1> QED
  BY <1>2, <1>3, <1>4, <1>5, <1>6, <1>7, <1>9, <1>10, <1>11, <1>12, <1>13 DEF Daemon

-----------------------------------------------------------------------------
(* What every other step does.                                             *)

\* The daemon says nothing; what was accounted for still is, but for a manifest
\* that a newer one replaces and the flush that was received; and the API saw
\* nothing, one entry, or a sweep made by hand.
TaskDoes ==
    /\ daemon'.seq = daemon.seq
    /\ HasProof' => HasProof /\ daemon'.epoch = daemon.epoch
    /\ bucket' = bucket /\ said' = said
    /\ \A m \in Accounted : m.kind \notin {"status", "flush"} => m \in Accounted'
    /\ Accounted' \in SUBSET Accounted
    /\ Grows(api, api')
    /\ \/ api' = api /\ taken' = taken
       \/ \E entry \in Entries : Reaches(entry) /\ InEntry(entry) \in SUBSET Accounted
       \/ api' = ReapOnDemand(api) /\ taken' = taken

LEMMA AccountedIs ==
    Accounted = Behind \cup ToSet(chan) \cup InBatch(held)
BY DEF Accounted, Unsent, Behind

LEMMA ReceivedFacts ==
    ASSUME QueueTypes, chan # <<>>, Received
    PROVE  /\ Head(chan) \in Messages /\ chan' \in Seq(Messages)
           /\ Len(chan') <= QueueCapacity
           /\ ToSet(chan) = {Head(chan)} \cup ToSet(chan')
<1>1. chan \in Seq(Messages) /\ Len(chan) <= QueueCapacity /\ Len(chan) \in Nat
      /\ QueueCapacity \in Nat
  BY LenProperties, CapacityAssumption DEF QueueTypes
<1>2. /\ Head(chan) \in Messages /\ Tail(chan) \in Seq(Messages)
      /\ Len(Tail(chan)) = Len(chan) - 1
      /\ ToSet(chan) = {Head(chan)} \cup ToSet(Tail(chan))
  BY <1>1, TailSet
<1> QED
  BY <1>1, <1>2 DEF Received

LEMMA ReceiveEventStep ==
    ASSUME Types, ReceiveEvent
    PROVE  Types' /\ TaskDoes
<1>1. /\ chan # <<>> /\ Head(chan).kind \notin {"status", "proof", "flush"} /\ Received
      /\ held' = [held EXCEPT !.events = Append(@, Head(chan))]
      /\ task' = IF Len(held'.events) >= MaxBatch THEN "flush" ELSE task
      /\ UNCHANGED <<daemon, spool, api, bucket, said, taken, counted, excused>>
      /\ task = "receive"
  BY DEF ReceiveEvent
<1>2. /\ Head(chan) \in Messages /\ chan' \in Seq(Messages) /\ Len(chan') <= QueueCapacity
      /\ ToSet(chan) = {Head(chan)} \cup ToSet(chan')
  BY <1>1, ReceivedFacts DEF Types
<1>3. Head(chan) \in Events
  BY <1>1, <1>2 DEF Messages, Manifests, Uploads, Flushes
<1>4. /\ held \in Batches /\ held.events \in Seq(Events) /\ MaxBatch \in Nat
      /\ Len(held.events) < MaxBatch /\ Len(held.events) \in Nat
  BY <1>1, LenProperties, CapacityAssumption DEF Types, QueueTypes, Batches
<1>5. /\ held'.events = Append(held.events, Head(chan)) /\ held'.status = held.status
      /\ held' = [events |-> Append(held.events, Head(chan)), status |-> held.status]
  BY <1>1, <1>4 DEF Batches
<1>6. /\ held'.events \in Seq(Events) /\ Len(held'.events) = Len(held.events) + 1
      /\ ToSet(held'.events) = ToSet(held.events) \cup {Head(chan)}
  BY <1>3, <1>4, <1>5, AppendSet
<1>7. held' \in Batches
  BY <1>4, <1>5, <1>6 DEF Batches
<1>8. InBatch(held') = InBatch(held) \cup {Head(chan)}
  BY <1>5, <1>6 DEF InBatch
<1>9. QueueTypes'
  BY <1>1, <1>2, <1>4, <1>6, <1>7 DEF QueueTypes
<1>10. Types'
  BY <1>1, <1>9 DEF Types, DaemonTypes, SpoolTypes, HistoryTypes, IndexOK
<1>11. Accounted' = Accounted
  <2>1. Behind' = Behind
    BY <1>1 DEF Behind, Spooled
  <2>2. Accounted' = Behind' \cup ToSet(chan') \cup InBatch(held')
    BY DEF Accounted, Unsent, Behind
  <2> QED
    BY <1>2, <1>8, <2>1, <2>2, AccountedIs
<1>12. Grows(api, api')
  BY <1>1, GrowsReflexive DEF Types
<1> QED
  BY <1>1, <1>10, <1>11, <1>12 DEF TaskDoes, HasProof

LEMMA ReceiveStatusStep ==
    ASSUME Types, ReceiveStatus
    PROVE  Types' /\ TaskDoes
<1>1. /\ chan # <<>> /\ Head(chan).kind = "status" /\ Received
      /\ held' = [held EXCEPT !.status = Head(chan)]
      /\ UNCHANGED <<daemon, task, spool, api, bucket, said, taken, counted, excused>>
  BY DEF ReceiveStatus
<1>2. /\ Head(chan) \in Messages /\ chan' \in Seq(Messages) /\ Len(chan') <= QueueCapacity
      /\ ToSet(chan) = {Head(chan)} \cup ToSet(chan')
  BY <1>1, ReceivedFacts DEF Types
<1>3. Head(chan) \in Manifests /\ Head(chan) # NoStatus
  BY <1>1, <1>2, EpochsAssumption DEF Messages, Events, EventKinds, Manifests, Uploads, Flushes, NoStatus
<1>4. held \in Batches /\ held.status \in Manifests \cup {NoStatus}
  BY DEF Types, QueueTypes, Batches
<1>5. /\ held'.events = held.events /\ held'.status = Head(chan)
      /\ held' \in Batches
  BY <1>1, <1>3, <1>4 DEF Batches
<1>6. /\ \A m \in InBatch(held) : m.kind # "status" => m \in InBatch(held')
      /\ InBatch(held') \in SUBSET (InBatch(held) \cup {Head(chan)})
      /\ Head(chan) \in InBatch(held')
  BY <1>3, <1>4, <1>5 DEF InBatch, Manifests
<1>7. QueueTypes'
  BY <1>1, <1>2, <1>5 DEF Types, QueueTypes
<1>8. Types'
  BY <1>1, <1>7 DEF Types, DaemonTypes, SpoolTypes, HistoryTypes, IndexOK
<1>9. /\ \A m \in Accounted : m.kind \notin {"status", "flush"} => m \in Accounted'
      /\ Accounted' \in SUBSET Accounted
  BY <1>1, <1>2, <1>6 DEF Accounted, Unsent, Spooled
<1>10. Grows(api, api')
  BY <1>1, GrowsReflexive DEF Types
<1> QED
  BY <1>1, <1>8, <1>9, <1>10 DEF TaskDoes, HasProof

LEMMA ReceiveProofStep ==
    ASSUME Types, ReceiveProof
    PROVE  Types' /\ TaskDoes
<1> DEFINE entry == Proof(Head(chan))
<1>1. /\ chan # <<>> /\ Head(chan).kind = "proof" /\ Received /\ PostOrSpool(entry)
      /\ UNCHANGED <<daemon, held, task, bucket, said>>
  BY DEF ReceiveProof
<1>2. /\ Head(chan) \in Messages /\ chan' \in Seq(Messages) /\ Len(chan') <= QueueCapacity
      /\ ToSet(chan) = {Head(chan)} \cup ToSet(chan')
  BY <1>1, ReceivedFacts DEF Types
<1>3. Head(chan) \in Uploads
  BY <1>1, <1>2 DEF Messages, Events, EventKinds, Manifests, Flushes
<1>4. entry \in Entries /\ InEntry(entry) = {Head(chan)}
  BY <1>3 DEF Proof, Entries, InEntry
<1> HIDE DEF entry
<1>5. /\ Reaches(entry) /\ Grows(api, api') /\ SpoolTypes'
      /\ taken' \in SUBSET Messages /\ counted' \in SUBSET Messages
      /\ excused' \in SUBSET Messages
      /\ Behind' = Behind \cup InEntry(entry)
  BY <1>1, <1>4, PostFacts
<1>6. QueueTypes'
  BY <1>1, <1>2 DEF Types, QueueTypes
<1>7. Types'
  BY <1>1, <1>5, <1>6 DEF Types, DaemonTypes, HistoryTypes, Grows
<1>8. Accounted' = Behind' \cup ToSet(chan') \cup InBatch(held')
  BY DEF Accounted, Unsent, Behind
<1>9. Accounted' = Accounted
  BY <1>1, <1>2, <1>4, <1>5, <1>8, AccountedIs
<1>10. InEntry(entry) \in SUBSET Accounted
  BY <1>2, <1>4, AccountedIs
<1> QED
  BY <1>1, <1>4, <1>5, <1>7, <1>9, <1>10 DEF TaskDoes, HasProof

LEMMA ReceiveFlushStep ==
    ASSUME Types, ReceiveFlush
    PROVE  Types' /\ TaskDoes
<1>1. /\ chan # <<>> /\ Head(chan).kind = "flush" /\ Received
      /\ task' = "leave" /\ task = "receive"
      /\ UNCHANGED <<daemon, held, spool, api, bucket, said, taken, counted, excused>>
  BY DEF ReceiveFlush
<1>2. /\ Head(chan) \in Messages /\ chan' \in Seq(Messages) /\ Len(chan') <= QueueCapacity
      /\ ToSet(chan) = {Head(chan)} \cup ToSet(chan')
  BY <1>1, ReceivedFacts DEF Types
<1>3. QueueTypes'
  BY <1>1, <1>2 DEF Types, QueueTypes
<1>4. Types'
  BY <1>1, <1>3 DEF Types, DaemonTypes, SpoolTypes, HistoryTypes, IndexOK
<1>5. /\ \A m \in Accounted : m.kind \notin {"status", "flush"} => m \in Accounted'
      /\ Accounted' \in SUBSET Accounted
  <2>1. Behind' = Behind
    BY <1>1 DEF Behind, Spooled
  <2>2. Accounted' = Behind' \cup ToSet(chan') \cup InBatch(held')
    BY DEF Accounted, Unsent, Behind
  <2> QED
    BY <1>1, <1>2, <2>1, <2>2, AccountedIs
<1>6. Grows(api, api')
  BY <1>1, GrowsReflexive DEF Types
<1> QED
  BY <1>1, <1>4, <1>5, <1>6 DEF TaskDoes, HasProof

LEMMA FlushStep ==
    ASSUME Types, Flush
    PROVE  Types' /\ TaskDoes
<1> DEFINE entry == Batch(held)
<1>1. /\ PostOrSpool(entry) /\ held' = NothingHeld
      /\ task' = IF task = "leave" THEN task ELSE "receive"
      /\ UNCHANGED <<daemon, chan, bucket, said>>
  BY DEF Flush
<1>2. entry \in Entries /\ InEntry(entry) = InBatch(held)
  BY DEF Types, QueueTypes, Batch, Entries, InEntry
<1> HIDE DEF entry
<1>3. /\ Reaches(entry) /\ Grows(api, api') /\ SpoolTypes'
      /\ taken' \in SUBSET Messages /\ counted' \in SUBSET Messages
      /\ excused' \in SUBSET Messages
      /\ Behind' = Behind \cup InEntry(entry)
  BY <1>1, <1>2, PostFacts
<1>4. QueueTypes'
  BY <1>1, NothingHeldType, CapacityAssumption DEF Types, QueueTypes
<1>5. Types'
  BY <1>1, <1>3, <1>4 DEF Types, DaemonTypes, HistoryTypes, Grows
<1>6. Accounted' = Behind' \cup ToSet(chan') \cup InBatch(held')
  BY DEF Accounted, Unsent, Behind
<1>7. Accounted' = Accounted
  BY <1>1, <1>2, <1>3, <1>6, AccountedIs, NothingHeldType
<1>8. InEntry(entry) \in SUBSET Accounted
  BY <1>2, AccountedIs
<1> QED
  BY <1>1, <1>2, <1>3, <1>5, <1>7, <1>8 DEF TaskDoes, HasProof

LEMMA DrainStep ==
    ASSUME Types, Drain
    PROVE  Types' /\ TaskDoes
<1> DEFINE entry == Head(spool)
<1>1. PICK fate : /\ Request(entry, fate)
                  /\ spool' = IF Posted(fate) THEN Tail(spool) ELSE spool
                  /\ task' \in {"leave", "exit", "drain", "receive"}
  BY DEF Drain
<1>2. /\ spool # <<>> /\ task # "flush"
      /\ UNCHANGED <<daemon, chan, held, bucket, said, counted>>
  BY DEF Drain
<1>3. /\ spool \in Seq(Entries) /\ Len(spool) <= SpoolCapacity
      /\ counted \in SUBSET Messages
  BY DEF Types, SpoolTypes, HistoryTypes
<1>4. /\ entry \in Entries /\ Tail(spool) \in Seq(Entries) /\ Len(spool) \in Nat \ {0}
      /\ Len(Tail(spool)) = Len(spool) - 1 /\ SpoolCapacity \in Nat
  BY <1>2, <1>3, TailSet, CapacityAssumption
<1>5. Holds(spool) = InEntry(entry) \cup Holds(Tail(spool))
  BY <1>2, <1>3, <1>4, HoldsFacts
<1> HIDE DEF entry
<1>6. /\ Reaches(entry) /\ Grows(api, api')
      /\ taken' \in SUBSET Messages /\ excused' \in SUBSET Messages
      /\ taken \in SUBSET taken' /\ excused \in SUBSET excused'
      /\ taken' \cup excused' \in SUBSET (taken \cup excused \cup InEntry(entry))
      /\ Posted(fate) => InEntry(entry) \in SUBSET (taken' \cup excused')
  BY <1>1, <1>4, RequestFacts
<1>7. SpoolTypes'
  BY <1>1, <1>3, <1>4 DEF SpoolTypes
<1>8. QueueTypes'
  BY <1>1, <1>2 DEF Types, QueueTypes
<1>9. Types'
  BY <1>2, <1>3, <1>6, <1>7, <1>8 DEF Types, DaemonTypes, HistoryTypes, Grows
<1>10. Behind' = Behind
  <2>1. Behind' = taken' \cup Holds(spool') \cup counted' \cup excused'
    BY DEF Behind, Spooled, Holds
  <2>2. Behind = taken \cup Holds(spool) \cup counted \cup excused
    BY BehindIs
  <2>3. CASE Posted(fate)
    BY <1>1, <1>2, <1>5, <1>6, <2>1, <2>2, <2>3
  <2>4. CASE ~Posted(fate)
    BY <1>1, <1>2, <1>5, <1>6, <2>1, <2>2, <2>4
  <2> QED
    BY <2>3, <2>4
<1>11. Accounted' = Accounted
  <2>1. Accounted' = Behind' \cup ToSet(chan') \cup InBatch(held')
    BY DEF Accounted, Unsent, Behind
  <2> QED
    BY <1>2, <1>10, <2>1, AccountedIs
<1>12. InEntry(entry) \in SUBSET Accounted
  BY <1>5, AccountedIs, BehindIs
<1> QED
  BY <1>2, <1>4, <1>6, <1>9, <1>11, <1>12 DEF TaskDoes, HasProof

LEMMA ProcessStep ==
    ASSUME Types, Exit \/ Crash \/ Start
    PROVE  Types' /\ TaskDoes
<1>1. /\ daemon \in Daemons /\ IndexOK(api)
      /\ daemon.epoch \in (Min(Epochs) - 1) .. MaxEpoch
      /\ daemon.phase \notin {"done", "stopped"} => daemon.epoch \in Epochs
  BY DEF Types, DaemonTypes
<1>2. CASE Exit
  <2>1. /\ daemon' = [daemon EXCEPT !.up = FALSE] /\ task' = "receive"
        /\ task # "flush"
        /\ UNCHANGED <<chan, held, spool, api, bucket, said, taken, counted, excused>>
    BY <1>2 DEF Exit
  <2>2. /\ daemon' \in Daemons /\ daemon'.seq = daemon.seq /\ daemon'.phase = daemon.phase
        /\ daemon'.epoch = daemon.epoch /\ daemon'.proof = daemon.proof
    BY <1>1, <2>1 DEF Daemons
  <2>3. Types'
    BY <1>1, <2>1, <2>2 DEF Types, DaemonTypes, QueueTypes, SpoolTypes, HistoryTypes, IndexOK
  <2>4. Accounted' = Accounted
    BY <2>1 DEF Accounted, Unsent, Spooled
  <2> QED
    BY <1>1, <2>1, <2>2, <2>3, <2>4, GrowsReflexive DEF TaskDoes, HasProof
<1>3. CASE Crash
  <2>1. /\ daemon' = [daemon EXCEPT !.up = FALSE] /\ task' = "receive"
        /\ excused' = excused \cup ToSet(chan) \cup InBatch(held)
        /\ chan' = <<>> /\ held' = NothingHeld
        /\ UNCHANGED <<spool, api, bucket, said, taken, counted>>
    BY <1>3 DEF Crash
  <2>2. /\ daemon' \in Daemons /\ daemon'.seq = daemon.seq /\ daemon'.phase = daemon.phase
        /\ daemon'.epoch = daemon.epoch /\ daemon'.proof = daemon.proof
    BY <1>1, <2>1 DEF Daemons
  <2>3. excused' \in SUBSET Messages
    <3>1. ToSet(chan) \in SUBSET Messages
      BY InSet DEF Types, QueueTypes
    <3>2. InBatch(held) \in SUBSET Messages
      BY BatchMessages DEF Types, QueueTypes, Messages
    <3> QED
      BY <2>1, <3>1, <3>2 DEF Types, HistoryTypes
  <2>4. QueueTypes'
    BY <2>1, NothingHeldType, EmptySeq, CapacityAssumption DEF QueueTypes
  <2>5. Types'
    BY <1>1, <2>1, <2>2, <2>3, <2>4 DEF Types, DaemonTypes, SpoolTypes, HistoryTypes, IndexOK
  <2>6. Accounted' = Accounted
    <3>1. Accounted' = taken' \cup Spooled' \cup counted' \cup excused'
                         \cup ToSet(chan') \cup InBatch(held')
      BY DEF Accounted, Unsent
    <3>2. Spooled' = Spooled
      BY <2>1 DEF Spooled
    <3> QED
      BY <2>1, <3>1, <3>2, EmptySet, NothingHeldType DEF Accounted, Unsent
  <2> QED
    BY <1>1, <2>1, <2>2, <2>5, <2>6, GrowsReflexive DEF TaskDoes, HasProof
<1>4. CASE Start
  <2>1. /\ daemon' = [daemon EXCEPT !.up = TRUE, !.manifest = 0,
                       !.phase = IF @ \in {"done", "stopped"} THEN "done" ELSE "opening"]
        /\ UNCHANGED <<chan, held, task, spool, api, bucket, said, taken, counted, excused>>
    BY <1>4 DEF Start
  <2>2. /\ daemon' \in Daemons /\ daemon'.seq = daemon.seq
        /\ daemon'.epoch = daemon.epoch
        /\ daemon'.phase = IF daemon.phase \in {"done", "stopped"} THEN "done" ELSE "opening"
    BY <1>1, <2>1 DEF Daemons, Phases
  <2>3. Types'
    BY <1>1, <2>1, <2>2 DEF Types, DaemonTypes, QueueTypes, SpoolTypes, HistoryTypes, IndexOK
  <2>4. Accounted' = Accounted
    BY <2>1 DEF Accounted, Unsent, Spooled
  <2> QED
    BY <1>1, <2>1, <2>2, <2>3, <2>4, GrowsReflexive DEF TaskDoes, HasProof
<1> QED
  BY <1>2, <1>3, <1>4

LEMMA OutsideStep ==
    ASSUME Types, ReapByHand \/ Connect \/ Deliver \/ Drop
    PROVE  Types' /\ TaskDoes
<1>1. IndexOK(api)
  BY DEF Types
<1>2. CASE ReapByHand
  <2>1. /\ api' = ReapOnDemand(api)
        /\ UNCHANGED <<daemon, chan, held, task, spool, bucket, said, taken, counted, excused>>
    BY <1>2 DEF ReapByHand
  <2>2. Grows(api, api') /\ IndexOK(api')
    BY <1>1, <2>1, SweepFacts DEF Sweeps, Grows
  <2>3. Types'
    BY <2>1, <2>2 DEF Types, DaemonTypes, QueueTypes, SpoolTypes, HistoryTypes
  <2>4. Accounted' = Accounted
    BY <2>1 DEF Accounted, Unsent, Spooled
  <2> QED
    BY <2>1, <2>2, <2>3, <2>4 DEF TaskDoes, HasProof
<1>3. CASE ViewerUnchanged
  <2>1. Types'
    BY <1>3 DEF ViewerUnchanged, Types, DaemonTypes, QueueTypes, SpoolTypes, HistoryTypes, IndexOK
  <2>2. Accounted' = Accounted
    BY <1>3 DEF ViewerUnchanged, Accounted, Unsent, Spooled
  <2> QED
    BY <1>1, <1>3, <2>1, <2>2, GrowsReflexive DEF ViewerUnchanged, TaskDoes, HasProof
<1> QED
  BY <1>2, <1>3 DEF Connect, Deliver, Drop

\* Every step that is not the daemon's.
LEMMA OtherStep ==
    ASSUME Types, Next, ~Daemon
    PROVE  Types' /\ TaskDoes
BY ReceiveEventStep, ReceiveStatusStep, ReceiveProofStep, ReceiveFlushStep, FlushStep,
   DrainStep, ProcessStep, OutsideStep DEF Next, Task

\* What a step of the daemon does to the messages accounted for: it adds what
\* the daemon says.
DaemonDoes ==
    /\ Accounted \in SUBSET Accounted'
    /\ \A m \in Accounted' : m \in Accounted \/ (m \in Messages /\ Speaks(m))
    /\ \/ daemon'.seq = daemon.seq
       \/ /\ daemon'.seq = daemon.seq + 1
          /\ \E m \in Accounted' : m \in Events /\ m.seq = daemon.seq
    /\ HasProof' =>
          \/ HasProof /\ daemon'.epoch = daemon.epoch
          \/ \E m \in Accounted' : m \in Uploads /\ m.epoch = daemon'.epoch
    /\ api' = api /\ taken' = taken

LEMMA DaemonAccounts ==
    ASSUME Types, Daemon
    PROVE  Types' /\ DaemonDoes
<1>1. DaemonSays
  BY DaemonStep
<1>2. /\ QueueTypes /\ HistoryTypes /\ chan \in Seq(Messages) /\ Len(chan) <= QueueCapacity
      /\ counted \in SUBSET Messages
  BY DEF Types, QueueTypes, HistoryTypes
<1>3. UNCHANGED <<held, task, spool, api, bucket, viewer, taken, excused>>
  BY <1>1 DEF DaemonSays, TaskUnchanged
<1>4. /\ Accounted = (ToSet(chan) \cup counted) \cup (InBatch(held) \cup Spooled \cup taken \cup excused)
      /\ Accounted' = (ToSet(chan') \cup counted') \cup (InBatch(held) \cup Spooled \cup taken \cup excused)
  <2>1. Spooled' = Spooled
    BY <1>3 DEF Spooled
  <2>2. Accounted' = taken' \cup (ToSet(chan') \cup InBatch(held') \cup Spooled') \cup counted' \cup excused'
    BY DEF Accounted, Unsent
  <2> QED
    BY <1>3, <2>1, <2>2 DEF Accounted, Unsent
<1>5. ASSUME NEW m \in Messages, NEW left, Send(m, left)
      PROVE  /\ chan' \in Seq(Messages) /\ Len(chan') <= QueueCapacity
             /\ counted' \in SUBSET Messages
             /\ Accounted' = Accounted \cup {m}
  <2>1. /\ chan' \in Seq(Messages) /\ Len(chan') <= QueueCapacity
        /\ counted' \in SUBSET Messages
        /\ ToSet(chan') \cup counted' = ToSet(chan) \cup counted \cup {m}
    BY <1>2, <1>5, SendFacts
  <2> QED
    BY <1>4, <2>1
<1>6. CASE \E m \in Messages : \E left : Send(m, left) /\ Speaks(m)
  <2>1. PICK m \in Messages : \E left : Send(m, left) /\ Speaks(m)
    BY <1>6
  <2>2. /\ chan' \in Seq(Messages) /\ Len(chan') <= QueueCapacity
        /\ counted' \in SUBSET Messages
        /\ Accounted' = Accounted \cup {m}
    BY <1>5, <2>1
  <2>3. QueueTypes' /\ HistoryTypes'
    BY <1>1, <1>3, <2>2 DEF DaemonSays, Types, QueueTypes, HistoryTypes
  <2>4. \/ daemon'.seq = daemon.seq
        \/ /\ daemon'.seq = daemon.seq + 1
           /\ \E a \in Accounted' : a \in Events /\ a.seq = daemon.seq
    BY <2>1, <2>2 DEF Speaks
  <2>5. \/ ~HasProof'
        \/ HasProof /\ daemon'.epoch = daemon.epoch
        \/ \E a \in Accounted' : a \in Uploads /\ a.epoch = daemon'.epoch
    <3>1. ASSUME NEW a \in Uploads, NEW l, Send(a, l), a.epoch = daemon'.epoch
          PROVE  \E b \in Accounted' : b \in Uploads /\ b.epoch = daemon'.epoch
      <4>1. Accounted' = Accounted \cup {a}
        BY <1>5, <3>1 DEF Messages
      <4> QED
        BY <3>1, <4>1
    <3> QED
      BY <1>1, <3>1 DEF DaemonSays
  <2> QED
    BY <1>1, <1>3, <2>1, <2>2, <2>3, <2>4, <2>5
       DEF DaemonDoes, DaemonSays, Types, SpoolTypes, IndexOK
<1>7. CASE Mute
  <2>1. Accounted' = Accounted
    BY <1>4, <1>7 DEF Mute
  <2>2. QueueTypes' /\ HistoryTypes'
    BY <1>1, <1>2, <1>3, <1>7 DEF DaemonSays, Types, QueueTypes, HistoryTypes, Mute
  <2>3. \/ ~HasProof'
        \/ HasProof /\ daemon'.epoch = daemon.epoch
        \/ \E a \in Accounted' : a \in Uploads /\ a.epoch = daemon'.epoch
    <3>1. ASSUME NEW a \in Uploads, NEW l, Send(a, l), a.epoch = daemon'.epoch
          PROVE  \E b \in Accounted' : b \in Uploads /\ b.epoch = daemon'.epoch
      <4>1. Accounted' = Accounted \cup {a}
        BY <1>5, <3>1 DEF Messages
      <4> QED
        BY <3>1, <4>1
    <3> QED
      BY <1>1, <3>1 DEF DaemonSays
  <2> QED
    BY <1>1, <1>3, <1>7, <2>1, <2>2, <2>3
       DEF DaemonDoes, DaemonSays, Types, SpoolTypes, IndexOK, Mute
<1> QED
  BY <1>1, <1>6, <1>7 DEF DaemonSays

-----------------------------------------------------------------------------
(* The types, always.                                                      *)

LEMMA EmptyIndexOK ==
    IndexOK(EmptyIndex)
<1>1. /\ EmptyIndex \in Indexes /\ EmptyIndex.log = {} /\ EmptyIndex.next = 1
  BY DEF EmptyIndex, Indexes, Rows, Statuses, NoRow, Backends
<1> QED
  BY <1>1 DEF IndexOK

LEMMA TypesInit ==
    Init => Types
<1> SUFFICES ASSUME Init PROVE Types
  OBVIOUS
<1>1. Min(Epochs) \in Nat \ {0} /\ MaxEpoch \in Nat /\ Min(Epochs) \in Min(Epochs) .. MaxEpoch
  BY NextEpoch
<1>2. /\ daemon = [up |-> TRUE, epoch |-> Min(Epochs) - 1, phase |-> "done",
                   seq |-> 1, manifest |-> 0, proof |-> FALSE]
      /\ chan = <<>> /\ held = NothingHeld /\ task = "receive" /\ spool = <<>>
      /\ api = EmptyIndex /\ bucket \in BOOLEAN
      /\ said = [e \in Epochs |-> "nothing"]
      /\ taken = {} /\ counted = {} /\ excused = {}
  BY DEF Init
<1>3. DaemonTypes
  BY <1>1, <1>2 DEF DaemonTypes, Daemons, Phases
<1>4. QueueTypes
  BY <1>2, NothingHeldType, EmptySeq, CapacityAssumption DEF QueueTypes
<1>5. SpoolTypes
  BY <1>2, EmptySeq, CapacityAssumption DEF SpoolTypes
<1>6. HistoryTypes
  BY <1>2 DEF HistoryTypes
<1> QED
  BY <1>2, <1>3, <1>4, <1>5, <1>6, EmptyIndexOK DEF Types

LEMMA TypesStep ==
    Types /\ [Next]_vars => Types'
<1> SUFFICES ASSUME Types, [Next]_vars PROVE Types'
  OBVIOUS
<1>1. CASE UNCHANGED vars
  BY <1>1 DEF vars, Types, DaemonTypes, QueueTypes, SpoolTypes, HistoryTypes, IndexOK
<1>2. CASE Next
  BY <1>2, DaemonAccounts, OtherStep
<1> QED
  BY <1>1, <1>2

LEMMA TypesHold ==
    Spec => []Types
BY TypesInit, TypesStep, PTL DEF Spec

\* What the state is made of: the daemon's place, the bounds of the queue, of a
\* batch and of the spool, and an index whose rows have ids it gave out.
THEOREM TypeCorrect ==
    Spec => []TypeOK
<1>1. Types => TypeOK
  <2> SUFFICES ASSUME Types PROVE TypeOK
    OBVIOUS
  <2>1. daemon.up \in BOOLEAN /\ daemon.epoch \in 0 .. MaxEpoch /\ daemon.seq \in Nat
    BY NextEpoch DEF Types, DaemonTypes, Daemons
  <2>2. \A e \in Epochs : api.row[e].status \in Statuses /\ api.stored[e] \in Backends
    BY DEF Types, IndexOK, Indexes, Rows
  <2>3. \A entry \in api.log : entry.id \in 1 .. (api.next - 1)
    BY DEF Types, IndexOK, Indexes, LogRows
  <2> QED
    BY <2>1, <2>2, <2>3 DEF Types, QueueTypes, SpoolTypes, TypeOK
<1> QED
  BY <1>1, TypesHold, PTL

-----------------------------------------------------------------------------
(* Nothing is lost silently.                                               *)

SeqsAccounted ==
    \A n \in 1 .. (daemon.seq - 1) : \E m \in Accounted : m \in Events /\ m.seq = n

LEMMA EventKindOf ==
    /\ \A m \in Events : m.kind \notin {"proof", "status", "flush"}
    /\ \A m \in Uploads : m.kind = "proof"
BY DEF Events, EventKinds, Uploads

LEMMA SeqsStep ==
    Types /\ SeqsAccounted /\ [Next]_vars => SeqsAccounted'
<1> SUFFICES ASSUME Types, SeqsAccounted, [Next]_vars PROVE SeqsAccounted'
  OBVIOUS
<1>1. daemon.seq \in Nat
  BY DEF Types, DaemonTypes, Daemons
<1>2. CASE UNCHANGED vars
  <2>1. Accounted' = Accounted /\ daemon' = daemon
    BY <1>2 DEF vars, Accounted, Unsent, Spooled
  <2> QED
    BY <2>1 DEF SeqsAccounted
<1>3. CASE Daemon
  <2>1. DaemonDoes
    BY <1>3, DaemonAccounts
  <2> QED
    BY <1>1, <2>1 DEF DaemonDoes, SeqsAccounted
<1>4. CASE Next /\ ~Daemon
  <2>1. TaskDoes
    BY <1>4, OtherStep
  <2> QED
    BY <2>1, EventKindOf DEF TaskDoes, SeqsAccounted
<1> QED
  BY <1>2, <1>3, <1>4

\* An event the daemon announced is at the API or on its way, counted as dropped,
\* lost to a crash, or rejected.
THEOREM NothingIsLostSilently ==
    Spec => []NothingLostSilently
<1>1. Init => SeqsAccounted
  BY DEF Init, SeqsAccounted
<1>2. SeqsAccounted => NothingLostSilently
  <2> SUFFICES ASSUME SeqsAccounted, NEW n \in 1 .. (daemon.seq - 1)
               PROVE  \E m \in Accounted : m.kind \notin {"proof", "status"} /\ m.seq = n
    BY DEF NothingLostSilently, Accounted
  <2> QED
    BY EventKindOf DEF SeqsAccounted
<1> QED
  BY <1>1, <1>2, SeqsStep, TypesHold, PTL DEF Spec

-----------------------------------------------------------------------------
(* A proven epoch has its bytes, and the epoch the daemon names stands.     *)

\* The bytes of the epoch were handed to the publisher.
Pledged(e) == \E m \in Accounted : m \in Uploads /\ m.epoch = e

\* Whatever speaks of bytes does so of bytes that were handed over, and what was
\* handed over to the API is there.
Claims ==
    /\ \A m \in Accounted : m \in Events /\ m.bytes => Pledged(m.epoch)
    /\ HasProof => Pledged(daemon.epoch)
    /\ \A e \in Epochs : api.row[e].status = "proven" => Pledged(e)
    /\ \A m \in taken : m \in Uploads => api.stored[m.epoch] # "none"

LEMMA KindsDiffer ==
    /\ \A m \in Events : m \notin Manifests /\ m \notin Uploads /\ m \notin Flushes
    /\ \A m \in Uploads : m \notin Manifests /\ m \notin Events /\ m \notin Flushes
BY DEF Events, EventKinds, Manifests, Uploads, Flushes

LEMMA ClaimsOfDaemon ==
    ASSUME Types, Claims, Daemon
    PROVE  Claims'
<1>1. DaemonDoes
  BY DaemonAccounts
<1>2. \A e : Pledged(e) => Pledged(e)'
  BY <1>1 DEF DaemonDoes, Pledged
<1>3. ASSUME NEW m \in Accounted', m \in Events, m.bytes
      PROVE  Pledged(m.epoch)'
  <2>1. CASE m \in Accounted
    BY <1>2, <1>3, <2>1 DEF Claims
  <2>2. CASE Speaks(m)
    <3>1. m.epoch = daemon.epoch /\ HasProof
      BY <1>3, <2>2, KindsDiffer DEF Speaks, HasProof
    <3> QED
      BY <1>2, <3>1 DEF Claims
  <2> QED
    BY <1>1, <1>3, <2>1, <2>2 DEF DaemonDoes
<1>4. HasProof' => Pledged(daemon.epoch)'
  BY <1>1, <1>2 DEF DaemonDoes, Claims, Pledged
<1> QED
  BY <1>1, <1>2, <1>3, <1>4 DEF DaemonDoes, Claims

\* The rows after one entry or a sweep: an epoch becomes proven by the word of an
\* event or by the bytes themselves, and is not stranded while the manifest
\* names it.
LEMMA RowsAfter ==
    ASSUME Types, NEW e \in Epochs,
           \/ api' = api /\ taken' = taken
           \/ \E entry \in Entries : Reaches(entry) /\ InEntry(entry) \in SUBSET Accounted
           \/ api' = ReapOnDemand(api) /\ taken' = taken
    PROVE  /\ api'.row[e].status = "proven" =>
                \/ api.row[e].status = "proven"
                \/ \E m \in Accounted : m \in Events /\ m.bytes /\ m.epoch = e
                \/ \E m \in Accounted : m \in Uploads /\ m.epoch = e
           /\ api'.row[e].status = "stranded" /\ api.row[e].status # "stranded"
                => e # api'.snapshot
           /\ \A m \in taken' : m \in Uploads =>
                m \in taken \/ api'.stored[m.epoch] # "none"
<1>1. IndexOK(api) /\ bucket \in BOOLEAN
  BY DEF Types
<1>2. CASE api' = api /\ taken' = taken
  BY <1>2
<1>3. CASE api' = ReapOnDemand(api) /\ taken' = taken
  <2>1. Sweeps(api, api')
    BY <1>1, <1>3, SweepFacts
  <2> QED
    BY <1>3, <2>1 DEF Sweeps
<1>4. ASSUME NEW entry \in Entries, api' = Effect(entry),
             taken' = taken \cup InEntry(entry), InEntry(entry) \in SUBSET Accounted
      PROVE  /\ api'.row[e].status = "proven" =>
                  \/ api.row[e].status = "proven"
                  \/ \E m \in Accounted : m \in Events /\ m.bytes /\ m.epoch = e
                  \/ \E m \in Accounted : m \in Uploads /\ m.epoch = e
             /\ api'.row[e].status = "stranded" /\ api.row[e].status # "stranded"
                  => e # api'.snapshot
             /\ \A m \in taken' : m \in Uploads =>
                  m \in taken \/ api'.stored[m.epoch] # "none"
  <2>1. CASE entry.type = "proof"
    <3>1. /\ entry.proof \in Uploads /\ entry.proof.epoch \in Epochs
          /\ InEntry(entry) = {entry.proof} /\ api' = PutProof(api, bucket, entry.proof.epoch)
      BY <1>4, <2>1 DEF Entries, Uploads, InEntry, Effect
    <3>2. /\ api'.stored[entry.proof.epoch] # "none"
          /\ \/ api'.row[e].status = api.row[e].status
             \/ /\ e = entry.proof.epoch /\ api.row[e].status = "unproven"
                /\ api'.row[e].status = "proven"
             \/ e = entry.proof.epoch /\ api'.row[e].status = "proving"
      BY <1>1, <3>1, PutProofFacts
    <3>3. \A m \in taken' : m \in taken \/ m = entry.proof
      BY <1>4, <3>1
    <3>4. entry.proof \in Accounted
      BY <1>4, <3>1
    <3> QED
      BY <3>1, <3>2, <3>3, <3>4
  <2>2. CASE entry.type # "proof"
    <3> DEFINE b == entry.batch
    <3>1. /\ b \in Batches /\ b.events \in Seq(Events) /\ InEntry(entry) = InBatch(b)
          /\ api' = Ingest(api, b)
      BY <1>4, <2>2 DEF Entries, Batches, InEntry, Effect
    <3> HIDE DEF b
    <3>2. /\ api'.row[e].status = "stranded" /\ api.row[e].status # "stranded"
               => e # api'.snapshot
          /\ api'.row[e].status = "proven" =>
               \/ api.row[e].status = "proven"
               \/ \E j \in 1 .. Len(b.events) : b.events[j].epoch = e /\ b.events[j].bytes
      BY <1>1, <3>1, IngestRows
    <3>3. \A j \in 1 .. Len(b.events) : b.events[j] \in Events /\ b.events[j] \in Accounted
      <4>1. \A j \in 1 .. Len(b.events) : b.events[j] \in ToSet(b.events)
        BY <3>1, InSet
      <4>2. ToSet(b.events) \in SUBSET Events
        BY <3>1, BatchMessages
      <4> QED
        BY <1>4, <3>1, <4>1, <4>2 DEF InBatch
    <3>4. \A m \in InEntry(entry) : m \notin Uploads
      BY <3>1, BatchMessages, KindsDiffer
    <3> QED
      BY <1>4, <3>2, <3>3, <3>4
  <2> QED
    BY <2>1, <2>2
<1> QED
  BY <1>2, <1>3, <1>4 DEF Reaches

LEMMA ClaimsOfOthers ==
    ASSUME Types, Claims, Next, ~Daemon
    PROVE  Claims'
<1>1. TaskDoes /\ Types'
  BY OtherStep
<1>2. \A e : Pledged(e) => Pledged(e)'
  BY <1>1, EventKindOf DEF TaskDoes, Pledged
<1>3. \A m \in Accounted' : m \in Events /\ m.bytes => Pledged(m.epoch)'
  BY <1>1, <1>2 DEF TaskDoes, Claims
<1>4. HasProof' => Pledged(daemon.epoch)'
  BY <1>1, <1>2 DEF TaskDoes, Claims
<1>5. ASSUME NEW e \in Epochs, api'.row[e].status = "proven" PROVE Pledged(e)'
  <2>1. \/ api.row[e].status = "proven"
        \/ \E m \in Accounted : m \in Events /\ m.bytes /\ m.epoch = e
        \/ \E m \in Accounted : m \in Uploads /\ m.epoch = e
    BY <1>1, <1>5, RowsAfter DEF TaskDoes
  <2> QED
    BY <1>2, <2>1 DEF Claims, Pledged
<1>6. ASSUME NEW m \in taken', m \in Uploads PROVE api'.stored[m.epoch] # "none"
  <2>1. Min(Epochs) \in Epochs /\ m.epoch \in Epochs
    BY <1>6, NextEpoch DEF Uploads
  <2>2. m \in taken \/ api'.stored[m.epoch] # "none"
    BY <1>1, <1>6, <2>1, RowsAfter DEF TaskDoes
  <2>3. m \in taken => api.stored[m.epoch] # "none"
    BY <1>6 DEF Claims
  <2>4. api.stored[m.epoch] # "none" => api'.stored[m.epoch] # "none"
    BY <1>1, <2>1 DEF TaskDoes, Grows
  <2> QED
    BY <2>2, <2>3, <2>4
<1> QED
  BY <1>3, <1>4, <1>5, <1>6 DEF Claims

LEMMA ClaimsHold ==
    Spec => []Claims
<1>1. Init => Claims
  <2> SUFFICES ASSUME Init PROVE Claims
    OBVIOUS
  <2>1. taken = {} /\ Accounted = {}
    BY EmptySet, NothingHeldType DEF Init, Accounted, Unsent, Spooled
  <2>2. daemon.phase = "done"
    BY DEF Init
  <2>3. \A e \in Epochs : api.row[e].status = NoRow
    BY DEF Init, EmptyIndex
  <2> QED
    BY <2>1, <2>2, <2>3 DEF Claims, HasProof, NoRow
<1>2. Types /\ Claims /\ [Next]_vars => Claims'
  <2> SUFFICES ASSUME Types, Claims, [Next]_vars PROVE Claims'
    OBVIOUS
  <2>1. CASE UNCHANGED vars
    <3>1. Accounted' = Accounted /\ daemon' = daemon /\ api' = api /\ taken' = taken
      BY <2>1 DEF vars, Accounted, Unsent, Spooled
    <3> QED
      BY <3>1 DEF Claims, HasProof, Pledged
  <2> QED
    BY <2>1, ClaimsOfDaemon, ClaimsOfOthers
<1> QED
  BY <1>1, <1>2, TypesHold, PTL DEF Spec

\* `proven` means bytes: the API has them, or they are on their way, or their
\* loss is accounted for.
THEOREM ProvenMeansBytes ==
    Spec => []ProvenHasBytes
<1>1. Types /\ Claims => ProvenHasBytes
  <2> SUFFICES ASSUME Types, Claims, NEW e \in Epochs, api.row[e].status = "proven",
                      api.stored[e] = "none"
               PROVE  \E message \in Unsent \cup counted \cup excused :
                          message.kind = "proof" /\ message.epoch = e
    BY DEF ProvenHasBytes
  <2>1. PICK m \in Accounted : m \in Uploads /\ m.epoch = e
    BY DEF Claims, Pledged
  <2>2. m \notin taken
    BY <2>1 DEF Claims
  <2> QED
    BY <2>1, <2>2, EventKindOf DEF Accounted
<1> QED
  BY <1>1, ClaimsHold, TypesHold, PTL

\* No step strands the epoch the newest manifest names.
THEOREM NamedNeverStranded ==
    Spec => NamedIsNotStranded
<1> DEFINE A == \A e \in Epochs :
                   (api'.row[e].status = "stranded" /\ api.row[e].status # "stranded")
                       => e # api'.snapshot
<1>1. Types /\ [Next]_vars => [A]_vars
  <2> SUFFICES ASSUME Types, [Next]_vars PROVE [A]_vars
    OBVIOUS
  <2>1. CASE UNCHANGED vars
    BY <2>1
  <2>2. CASE Daemon
    <3>1. api' = api
      BY <2>2, DaemonAccounts DEF DaemonDoes
    <3> QED
      BY <3>1
  <2>3. CASE Next /\ ~Daemon
    BY <2>3, OtherStep, RowsAfter DEF TaskDoes
  <2> QED
    BY <2>1, <2>2, <2>3
<1> QED
  BY <1>1, TypesHold, PTL DEF Spec, NamedIsNotStranded

-----------------------------------------------------------------------------
(* The viewer of the live stream.                                          *)

\* The id is out of the ring's reach, or one of a stranding swept by hand.
Lost(index, id) ==
    \/ id < index.next - Ring
    \/ \E entry \in index.log : entry.id = id /\ entry.source = "stranded"

\* All rows of the log are within Ring ids of its newest, but for strandings a
\* sweep by hand added without a trim.
Spans(index) ==
    \A a, b \in index.log : b.source # "stranded" => a.id > b.id - Ring

LEMMA LostStays ==
    ASSUME NEW before, NEW after, IndexOK(before), Grows(before, after),
           NEW id \in Nat, Lost(before, id)
    PROVE  Lost(after, id)
<1>1. /\ before.next \in Nat /\ after.next \in Nat /\ Ring \in Nat
      /\ before.next <= after.next
  BY RingAssumption DEF Grows, IndexOK, Indexes
<1>2. \A entry \in before.log : entry \in after.log \/ entry.id < after.next - Ring
  BY DEF Grows
<1> QED
  BY <1>1, <1>2 DEF Lost

LEMMA SpansAfter ==
    ASSUME Types, Spans(api),
           \/ api' = api /\ taken' = taken
           \/ \E entry \in Entries : Reaches(entry) /\ InEntry(entry) \in SUBSET Accounted
           \/ api' = ReapOnDemand(api) /\ taken' = taken
    PROVE  Spans(api')
<1>1. /\ IndexOK(api) /\ bucket \in BOOLEAN /\ Ring \in Nat \ {0} /\ api.next \in Nat
      /\ \A entry \in api.log : entry.id \in Nat /\ entry.id < api.next
  BY RingAssumption DEF Types, IndexOK, Indexes, LogRows
<1>2. CASE api' = ReapOnDemand(api)
  <2>1. /\ IndexOK(api')
        /\ \A entry \in api'.log : entry \in api.log \/ entry.id >= api.next
        /\ \A entry \in api'.log : entry \in api.log \/ entry.source = "stranded"
    BY <1>1, <1>2, SweepFacts DEF Sweeps, Grows
  <2>2. \A entry \in api'.log : entry.id \in Nat
    BY <2>1 DEF IndexOK, Indexes, LogRows
  <2> SUFFICES ASSUME NEW a \in api'.log, NEW b \in api'.log, b.source # "stranded"
               PROVE  a.id > b.id - Ring
    BY DEF Spans
  <2>3. b \in api.log
    BY <2>1
  <2>4. CASE a \in api.log
    BY <2>3, <2>4 DEF Spans
  <2>5. CASE a.id >= api.next
    BY <1>1, <2>2, <2>3, <2>5
  <2> QED
    BY <2>1, <2>4, <2>5
<1>3. ASSUME NEW entry \in Entries, api' = Effect(entry)
      PROVE  Spans(api')
  <2>1. CASE entry.type = "proof"
    <3>1. entry.proof.epoch \in Epochs /\ api' = PutProof(api, bucket, entry.proof.epoch)
      BY <1>3, <2>1 DEF Entries, Uploads, Effect
    <3>2. api'.log = api.log
      BY <1>1, <3>1, PutProofFacts
    <3> QED
      BY <3>2 DEF Spans
  <2>2. CASE entry.type # "proof"
    <3>1. entry.batch \in Batches /\ api' = Ingest(api, entry.batch)
      BY <1>3, <2>2 DEF Entries, Effect
    <3>2. PICK r : IndexOK(r) /\ api' = Trim(r)
      BY <1>1, <3>1, IngestFacts
    <3>3. /\ api'.log = {row \in r.log : row.id >= r.next - Ring}
          /\ r.next \in Nat /\ \A row \in r.log : row.id \in Nat /\ row.id < r.next
      BY <3>2, TrimFacts DEF IndexOK, Indexes, LogRows
    <3> QED
      BY <1>1, <3>3 DEF Spans
  <2> QED
    BY <2>1, <2>2
<1> QED
  BY <1>2, <1>3 DEF Reaches

\* A replay gives the ids past `since` in order, and misses none but those that
\* are lost.
LEMMA ReplayFacts ==
    ASSUME NEW index, IndexOK(index), Spans(index), NEW since \in Nat
    PROVE  LET r == Replay(index, since)
           IN  /\ r \in Seq(Nat)
               /\ \A i \in 1 .. Len(r) : r[i] > since /\ r[i] < index.next
               /\ \A i, j \in 1 .. Len(r) : i < j => r[i] < r[j]
               /\ \A id \in (since + 1) .. (index.next - 1) :
                     (\E i \in 1 .. Len(r) : r[i] = id) \/ Lost(index, id)
<1> DEFINE later == {entry.id : entry \in {row \in index.log : row.id > since}}
           kept == {id \in later : Rank(later, id) < Ring}
           r == Replay(index, since)
<1>1. /\ index.next \in Nat /\ Ring \in Nat \ {0}
      /\ \A row \in index.log : row.id \in Nat /\ row.id < index.next
      /\ \A id \in 1 .. (index.next - 1) :
            id >= index.next - Ring => \E row \in index.log : row.id = id
  BY RingAssumption DEF IndexOK, Indexes, LogRows
<1>2. later \in SUBSET ((since + 1) .. (index.next - 1))
  BY <1>1
<1>3. IsFiniteSet(later) /\ later \in SUBSET Int /\ later \in SUBSET Nat
  <2> DEFINE window == (since + 1) .. (index.next - 1)
  <2>1. since + 1 \in Int /\ index.next - 1 \in Int
    BY <1>1
  <2>2. IsFiniteSet(window)
    BY <2>1, FS_Interval
  <2>3. window \in SUBSET Nat
    BY <1>1
  <2> HIDE DEF later, window
  <2>4. later \in SUBSET window
    BY <1>2 DEF window
  <2>5. IsFiniteSet(later)
    BY <2>2, <2>4, FS_Subset
  <2> QED
    BY <2>3, <2>4, <2>5
<1>4. IsFiniteSet(kept) /\ kept \in SUBSET later /\ kept \in SUBSET Int /\ kept \in SUBSET Nat
  BY <1>3, FS_Subset
<1>5. r = InOrder(kept)
  BY DEF Replay
<1>6. \A row \in index.log : row.id > since => row.id \in later
  OBVIOUS
<1>7. \A id \in later : \E row \in index.log : row.id = id /\ row.id > since
  OBVIOUS
<1>8. \A id \in kept : id \in later
  OBVIOUS
<1>9. \A id \in later : Rank(later, id) < Ring => id \in kept
  OBVIOUS
<1> HIDE DEF r, kept, later
<1>10. /\ r \in Seq(kept) /\ DOMAIN r = 1 .. Len(r) /\ Len(r) = Cardinality(kept)
       /\ \A i, j \in 1 .. Len(r) : i < j => r[i] < r[j]
       /\ \A id \in kept : \E i \in 1 .. Len(r) : r[i] = id
  BY <1>4, <1>5, InOrderSorts, LenProperties
<1>11. r \in Seq(Nat) /\ \A i \in 1 .. Len(r) : r[i] \in kept
  BY <1>4, <1>10, SeqMonotonic, ElementOfSeq
<1>12. \A i \in 1 .. Len(r) : r[i] > since /\ r[i] < index.next
  BY <1>1, <1>2, <1>8, <1>11
<1>13. ASSUME NEW id \in (since + 1) .. (index.next - 1), ~Lost(index, id)
       PROVE  \E i \in 1 .. Len(r) : r[i] = id
  <2>1. PICK b \in index.log : b.id = id
    BY <1>1, <1>13 DEF Lost
  <2>2. id \in later /\ b.source # "stranded" /\ id \in Nat
    BY <1>6, <1>13, <2>1 DEF Lost
  <2>3. \A o \in later : o > id - Ring
    BY <1>7, <2>1, <2>2 DEF Spans
  <2> DEFINE before == {o \in later : o < id}
             window == (id - Ring + 1) .. (id - 1)
  <2>4. before \in SUBSET window
    <3> SUFFICES ASSUME NEW o \in later, o < id PROVE o \in window
      OBVIOUS
    <3>1. o \in Nat /\ o > id - Ring
      BY <1>3, <2>3
    <3> QED
      BY <1>1, <2>2, <3>1
  <2>5. IsFiniteSet(window) /\ Cardinality(window) = Ring - 1
    <3>1. id - Ring + 1 \in Int /\ id - 1 \in Int
      BY <1>1, <2>2
    <3>2. /\ IsFiniteSet(window)
          /\ Cardinality(window) = IF id - Ring + 1 > id - 1 THEN 0
                                   ELSE (id - 1) - (id - Ring + 1) + 1
      BY <3>1, FS_Interval
    <3> HIDE DEF window
    <3> QED
      BY <1>1, <2>2, <3>2
  <2>6. Cardinality(before) <= Cardinality(window)
    BY <2>4, <2>5, FS_Subset
  <2>7. Cardinality(before) \in Nat
    BY <2>4, <2>5, FS_Subset, FS_CardinalityType
  <2>8. Rank(later, id) = Cardinality(before)
    BY DEF Rank
  <2> HIDE DEF before, window
  <2>9. Rank(later, id) < Ring
    BY <1>1, <2>5, <2>6, <2>7, <2>8
  <2> QED
    BY <1>9, <1>10, <2>2, <2>9
<1> QED
  BY <1>10, <1>11, <1>12, <1>13 DEF r

\* The frames of a stream.
FrameSet == [kind : {"hello", "event"}, id : Nat]
Viewers == [on : BOOLEAN, last : Nat, since : Nat, pipe : Seq(FrameSet), got : SUBSET Nat]

\* Where the stream resumes: at its hello frame, or at what was last received.
Base(v) ==
    IF v.pipe # <<>> /\ v.pipe[1].kind = "hello" THEN v.pipe[1].id ELSE v.last

\* A connected viewer is sent ids that increase, and every one past its base that
\* is not lost.
PipeOK(v, index) ==
    /\ v.pipe # <<>> /\ v.pipe[1].kind = "hello" =>
           v.pipe[1].id = IF v.last = 0 THEN v.since ELSE v.last
    /\ \A i \in 1 .. Len(v.pipe) :
          /\ v.pipe[i].id < index.next
          /\ v.pipe[i].kind = "hello" => i = 1
          /\ v.pipe[i].kind = "event" => v.pipe[i].id > Base(v)
    /\ \A i, j \in 1 .. Len(v.pipe) : i < j => v.pipe[i].id < v.pipe[j].id
    /\ \A id \in (Base(v) + 1) .. (index.next - 1) :
          \/ \E i \in 1 .. Len(v.pipe) : v.pipe[i].kind = "event" /\ v.pipe[i].id = id
          \/ Lost(index, id)

Missed(v, index) ==
    \A id \in (v.since + 1) .. v.last : id \in v.got \/ Lost(index, id)

ViewerOK ==
    /\ viewer \in Viewers /\ viewer.last < api.next
    /\ Missed(viewer, api)
    /\ viewer.on => PipeOK(viewer, api)

LEMMA SameInterval ==
    ASSUME NEW a \in Nat, NEW b \in Nat, 1 .. a = 1 .. b
    PROVE  a = b
<1>1. CASE a < b
  <2>1. b \in 1 .. b /\ b \notin 1 .. a
    BY <1>1
  <2> QED
    BY <2>1
<1>2. CASE b < a
  <2>1. a \in 1 .. a /\ a \notin 1 .. b
    BY <1>2
  <2> QED
    BY <2>1
<1> QED
  BY <1>1, <1>2

LEMMA FramesFacts ==
    ASSUME NEW ids \in Seq(Nat)
    PROVE  /\ Frames(ids) \in Seq(FrameSet) /\ Len(Frames(ids)) = Len(ids)
           /\ \A i \in 1 .. Len(ids) :
                 Frames(ids)[i].kind = "event" /\ Frames(ids)[i].id = ids[i]
<1> DEFINE n == Len(ids)
           f == Frames(ids)
<1>1. n \in Nat /\ \A i \in 1 .. n : ids[i] \in Nat
  BY LenProperties, ElementOfSeq
<1>2. f = [i \in 1 .. n |-> [kind |-> "event", id |-> ids[i]]]
  BY DEF Frames, Frame
<1> HIDE DEF n, f
<1>3. f \in [1 .. n -> FrameSet]
  BY <1>1, <1>2 DEF FrameSet
<1>4. f \in Seq(FrameSet)
  BY <1>1, <1>3, SeqDef
<1>5. Len(f) = n
  <2>1. DOMAIN f = 1 .. Len(f) /\ DOMAIN f = 1 .. n /\ Len(f) \in Nat
    BY <1>3, <1>4, LenProperties
  <2> QED
    BY <1>1, <2>1, SameInterval
<1>6. \A i \in 1 .. n : f[i].kind = "event" /\ f[i].id = ids[i]
  BY <1>2
<1> QED
  BY <1>4, <1>5, <1>6 DEF n, f

\* Whatever the index takes on is sent to a connected viewer.
LEMMA ViewerHears ==
    ASSUME IndexOK(api), Grows(api, api'), ViewerOK, viewer' = Broadcast(api, api')
    PROVE  ViewerOK'
<1> DEFINE a == api.next
           b == api'.next
           ids == Outgoing(api, api')
           new == Frames(ids)
           n == Len(viewer.pipe)
           m == b - a
           pipe == viewer.pipe \o new
<1>1. /\ a \in Nat \ {0} /\ b \in Nat \ {0} /\ a <= b
  BY DEF Grows, IndexOK, Indexes
<1>2. /\ viewer.pipe \in Seq(FrameSet) /\ viewer \in Viewers
      /\ viewer.since \in Nat /\ viewer.last \in Nat
  BY DEF ViewerOK, Viewers
<1>3. \A id \in Nat : Lost(api, id) => Lost(api', id)
  BY LostStays
<1>4. CASE ~viewer.on
  <2>1. viewer' = viewer
    BY <1>4 DEF Broadcast
  <2>2. viewer.last < api'.next
    BY <1>1, <1>2 DEF ViewerOK
  <2> QED
    BY <1>2, <1>3, <1>4, <2>1, <2>2 DEF ViewerOK, Missed
<1>5. CASE viewer.on
  <2>1. viewer' = [viewer EXCEPT !.pipe = pipe]
    BY <1>5 DEF Broadcast
  <2>2. ids \in Seq(Nat) /\ Len(ids) = m /\ \A i \in 1 .. m : ids[i] = a + i - 1
    <3>1. ids = [i \in 1 .. m |-> a + i - 1] /\ m \in Nat
      BY <1>1 DEF Outgoing
    <3> HIDE DEF ids, a, b
    <3>2. ids \in [1 .. m -> Nat]
      BY <1>1, <3>1
    <3>3. ids \in Seq(Nat)
      BY <3>1, <3>2, SeqDef
    <3>4. DOMAIN ids = 1 .. Len(ids) /\ DOMAIN ids = 1 .. m /\ Len(ids) \in Nat
      BY <3>2, <3>3, LenProperties
    <3> QED
      BY <3>1, <3>3, <3>4
  <2> HIDE DEF ids
  <2>3. /\ new \in Seq(FrameSet) /\ Len(new) = m
        /\ \A i \in 1 .. m : new[i].kind = "event" /\ new[i].id = a + i - 1
    BY <2>2, FramesFacts
  <2> HIDE DEF new
  <2>4. /\ pipe \in Seq(FrameSet) /\ Len(pipe) = n + m /\ n \in Nat /\ m \in Nat
        /\ \A i \in 1 .. n : pipe[i] = viewer.pipe[i]
        /\ \A i \in 1 .. m : pipe[n + i] = new[i]
    <3>1. /\ pipe \in Seq(FrameSet) /\ Len(pipe) = n + Len(new) /\ n \in Nat
          /\ \A i \in 1 .. n + Len(new) :
                pipe[i] = IF i <= n THEN viewer.pipe[i] ELSE new[i - n]
      BY <1>2, <2>3, ConcatProperties, LenProperties
    <3> HIDE DEF pipe, n, a, b
    <3>2. m \in Nat
      BY <1>1
    <3> HIDE DEF m
    <3>3. \A i \in 1 .. m : n + i \in 1 .. n + m /\ ~(n + i <= n) /\ n + i - n = i
      BY <3>1, <3>2
    <3> QED
      BY <2>3, <3>1, <3>2, <3>3
  <2> HIDE DEF pipe
  <2>5. \A i \in 1 .. (n + m) : i \in 1 .. n \/ \E k \in 1 .. m : i = n + k
    <3> SUFFICES ASSUME NEW i \in 1 .. (n + m), i \notin 1 .. n
                 PROVE  i - n \in 1 .. m /\ i = n + (i - n)
      OBVIOUS
    <3> HIDE DEF n, m
    <3> QED
      BY <2>4
  <2>6. /\ viewer'.pipe = pipe /\ viewer'.last = viewer.last /\ viewer'.since = viewer.since
        /\ viewer'.got = viewer.got /\ viewer' \in Viewers
    BY <1>2, <2>1, <2>4 DEF Viewers
  <2>7. PipeOK(viewer, api)
    BY <1>5 DEF ViewerOK
  <2>8. \A i \in 1 .. n : viewer.pipe[i] \in FrameSet /\ viewer.pipe[i].id \in Nat
    <3>1. \A i \in 1 .. n : viewer.pipe[i] \in FrameSet
      BY <1>2, ElementOfSeq
    <3> QED
      BY <3>1 DEF FrameSet
  <2>9. /\ Base(viewer') = Base(viewer) /\ Base(viewer) \in Nat /\ Base(viewer) < a
        /\ pipe # <<>> /\ pipe[1].kind = "hello" =>
              viewer.pipe # <<>> /\ pipe[1] = viewer.pipe[1]
    <3> HIDE DEF m, a, b
    <3>1. CASE viewer.pipe # <<>>
      <4>1. 1 \in 1 .. n /\ n # 0
        BY <1>2, <3>1, EmptySeq DEF n
      <4> HIDE DEF n
      <4>2. pipe # <<>> /\ pipe[1] = viewer.pipe[1]
        <5>1. Len(pipe) # 0
          BY <2>4, <4>1
        <5> QED
          BY <2>4, <4>1, <5>1, EmptySeq
      <4>3. viewer.pipe[1].id \in Nat /\ viewer.pipe[1].id < a
        BY <2>7, <2>8, <4>1 DEF PipeOK, n, a
      <4>4. viewer.last < a
        BY DEF ViewerOK, a
      <4> QED
        BY <1>2, <2>6, <3>1, <4>2, <4>3, <4>4 DEF Base
    <3>2. CASE viewer.pipe = <<>>
      <4>1. n = 0
        BY <3>2, EmptySeq DEF n
      <4> HIDE DEF n
      <4>2. pipe # <<>> => pipe[1].kind = "event"
        <5> SUFFICES ASSUME pipe # <<>> PROVE pipe[1].kind = "event"
          OBVIOUS
        <5>1. Len(pipe) \in Nat \ {0}
          BY <2>4, EmptySeq
        <5>2. 1 \in 1 .. m /\ n + 1 = 1
          BY <2>4, <4>1, <5>1
        <5>3. pipe[n + 1] = new[1] /\ new[1].kind = "event"
          BY <2>3, <2>4, <5>2
        <5> QED
          BY <5>2, <5>3
      <4>3. viewer.last < a
        BY DEF ViewerOK, a
      <4> QED
        BY <1>2, <2>6, <3>2, <4>2, <4>3 DEF Base
    <3> QED
      BY <3>1, <3>2
  <2> DEFINE base == Base(viewer)
  <2>10. /\ \A i \in 1 .. n : pipe[i].id \in Nat /\ pipe[i].id < a
                /\ (pipe[i].kind = "hello" => i = 1)
                /\ (pipe[i].kind = "event" => pipe[i].id > base)
         /\ \A i, j \in 1 .. n : i < j => pipe[i].id < pipe[j].id
    BY <2>4, <2>7, <2>8 DEF PipeOK
  <2>11. \A k \in 1 .. m : pipe[n + k].kind = "event" /\ pipe[n + k].id = a + k - 1
    BY <2>3, <2>4
  <2>12. base \in Nat /\ base < a
    BY <2>9
  <2>13. \A i \in 1 .. (n + m) :
           /\ pipe[i].id < b
           /\ pipe[i].kind = "hello" => i = 1
           /\ pipe[i].kind = "event" => pipe[i].id > base
    <3> HIDE DEF base, n
    <3> SUFFICES ASSUME NEW i \in 1 .. (n + m)
                 PROVE  /\ pipe[i].id < b
                        /\ pipe[i].kind = "hello" => i = 1
                        /\ pipe[i].kind = "event" => pipe[i].id > base
      OBVIOUS
    <3>1. CASE i \in 1 .. n
      BY <1>1, <2>10, <3>1
    <3>2. ASSUME NEW k \in 1 .. m, i = n + k
          PROVE  /\ pipe[i].id < b
                 /\ pipe[i].kind = "hello" => i = 1
                 /\ pipe[i].kind = "event" => pipe[i].id > base
      BY <1>1, <2>11, <2>12, <3>2
    <3> QED
      BY <2>5, <3>1, <3>2
  <2>14. \A i, j \in 1 .. (n + m) : i < j => pipe[i].id < pipe[j].id
    <3> HIDE DEF base, n
    <3> SUFFICES ASSUME NEW i \in 1 .. (n + m), NEW j \in 1 .. (n + m), i < j
                 PROVE  pipe[i].id < pipe[j].id
      OBVIOUS
    <3>1. CASE j \in 1 .. n
      BY <2>4, <2>10, <3>1
    <3>2. ASSUME NEW k \in 1 .. m, j = n + k
          PROVE  pipe[i].id < pipe[j].id
      <4>1. CASE i \in 1 .. n
        BY <1>1, <2>10, <2>11, <3>2, <4>1
      <4>2. ASSUME NEW l \in 1 .. m, i = n + l
            PROVE  pipe[i].id < pipe[j].id
        BY <1>1, <2>4, <2>11, <3>2, <4>2
      <4> QED
        BY <2>5, <4>1, <4>2
    <3> QED
      BY <2>5, <3>1, <3>2
  <2>15. ASSUME NEW id \in (base + 1) .. (b - 1)
         PROVE  \/ \E i \in 1 .. (n + m) : pipe[i].kind = "event" /\ pipe[i].id = id
                \/ Lost(api', id)
    <3>1. CASE id < a
      <4>1. id \in (base + 1) .. (a - 1) /\ id \in Nat
        BY <1>1, <2>12, <2>15, <3>1
      <4>2. \/ \E i \in 1 .. n : viewer.pipe[i].kind = "event" /\ viewer.pipe[i].id = id
            \/ Lost(api, id)
        BY <2>7, <4>1 DEF PipeOK
      <4>3. ASSUME NEW i \in 1 .. n, viewer.pipe[i].kind = "event", viewer.pipe[i].id = id
            PROVE  i \in 1 .. (n + m) /\ pipe[i].kind = "event" /\ pipe[i].id = id
        <5>1. i \in 1 .. (n + m)
          <6> HIDE DEF n, m
          <6> QED
            BY <2>4
        <5> QED
          BY <2>4, <4>3, <5>1
      <4> HIDE DEF n, m
      <4> QED
        BY <1>3, <4>1, <4>2, <4>3
    <3>2. CASE id >= a
      <4>1. id - a + 1 \in 1 .. m /\ a + (id - a + 1) - 1 = id /\ n + (id - a + 1) \in 1 .. (n + m)
        <5>1. m = b - a /\ n \in Nat /\ base \in Nat
          BY <2>4, <2>12
        <5> HIDE DEF n, m, base, a, b
        <5> QED
          BY <1>1, <2>15, <3>2, <5>1
      <4> QED
        BY <2>11, <4>1
    <3> QED
      BY <1>1, <2>12, <2>15, <3>1, <3>2
  <2>16. PipeOK(viewer', api')
    <3>1. Len(viewer'.pipe) = n + m /\ viewer'.pipe = pipe /\ Base(viewer') = base /\ api'.next = b
      BY <2>4, <2>6, <2>9
    <3>2. viewer'.pipe # <<>> /\ viewer'.pipe[1].kind = "hello" =>
             viewer'.pipe[1].id = IF viewer'.last = 0 THEN viewer'.since ELSE viewer'.last
      BY <2>6, <2>7, <2>9 DEF PipeOK
    <3> HIDE DEF base, n, m, b
    <3> QED
      BY <2>13, <2>14, <2>15, <3>1, <3>2 DEF PipeOK
  <2>17. Missed(viewer', api')
    <3>1. Missed(viewer, api)
      BY DEF ViewerOK
    <3> QED
      BY <1>2, <1>3, <2>6, <3>1 DEF Missed
  <2>18. viewer'.last < api'.next
    BY <1>1, <1>2, <2>6 DEF ViewerOK
  <2> QED
    BY <2>6, <2>16, <2>17, <2>18 DEF ViewerOK
<1> QED
  BY <1>4, <1>5

LEMMA ConnectStep ==
    ASSUME Types, Spans(api), ViewerOK, Connect
    PROVE  ViewerOK'
<1> DEFINE anchor == IF viewer.last = 0 THEN api.next - 1 ELSE viewer.last
           replay == IF viewer.last = 0 THEN <<>> ELSE Replay(api, viewer.last)
           new == Frames(replay)
           pipe == <<Hello(anchor)>> \o new
           m == Len(replay)
<1>1. /\ viewer' = [viewer EXCEPT !.on = TRUE,
                                  !.since = IF viewer.last = 0 THEN anchor ELSE @,
                                  !.pipe = pipe]
      /\ api' = api
  BY DEF Connect, ViewerUnchanged
<1>2. /\ IndexOK(api) /\ api.next \in Nat \ {0}
      /\ viewer \in Viewers /\ viewer.last \in Nat /\ viewer.since \in Nat
      /\ viewer.last < api.next
  BY DEF Types, IndexOK, Indexes, ViewerOK, Viewers
<1>3. anchor \in Nat /\ anchor < api.next /\ (viewer.last # 0 => anchor = viewer.last)
  BY <1>2
<1>4. /\ replay \in Seq(Nat) /\ m \in Nat
      /\ \A i \in 1 .. m : replay[i] > anchor /\ replay[i] < api.next
      /\ \A i, j \in 1 .. m : i < j => replay[i] < replay[j]
      /\ \A id \in (anchor + 1) .. (api.next - 1) :
            (\E i \in 1 .. m : replay[i] = id) \/ Lost(api, id)
  <2>1. CASE viewer.last = 0
    <3>1. replay = <<>> /\ anchor = api.next - 1
      BY <2>1
    <3>2. <<>> \in Seq(Nat) /\ m = 0
      BY <3>1, EmptySeq
    <3> HIDE DEF replay, m, anchor
    <3> QED
      BY <1>2, <3>1, <3>2
  <2>2. CASE viewer.last # 0
    <3>1. replay = Replay(api, viewer.last) /\ anchor = viewer.last
      BY <2>2
    <3> HIDE DEF replay, anchor
    <3>2. /\ replay \in Seq(Nat)
          /\ \A i \in 1 .. Len(replay) : replay[i] > anchor /\ replay[i] < api.next
          /\ \A i, j \in 1 .. Len(replay) : i < j => replay[i] < replay[j]
          /\ \A id \in (anchor + 1) .. (api.next - 1) :
                (\E i \in 1 .. Len(replay) : replay[i] = id) \/ Lost(api, id)
      BY <1>2, <3>1, ReplayFacts
    <3> QED
      BY <3>2, LenProperties
  <2> QED
    BY <2>1, <2>2
<1> HIDE DEF replay, anchor
<1>5. /\ new \in Seq(FrameSet) /\ Len(new) = m
      /\ \A i \in 1 .. m : new[i].kind = "event" /\ new[i].id = replay[i]
  BY <1>4, FramesFacts
<1> HIDE DEF new
<1>6. /\ pipe \in Seq(FrameSet) /\ Len(pipe) = 1 + m
      /\ pipe[1].kind = "hello" /\ pipe[1].id = anchor
      /\ \A i \in 1 .. m : pipe[1 + i] = new[i]
  <2> DEFINE first == <<Hello(anchor)>>
  <2>1. Hello(anchor) \in FrameSet /\ Hello(anchor).kind = "hello" /\ Hello(anchor).id = anchor
    BY <1>3 DEF Hello, FrameSet
  <2>2. first \in Seq(FrameSet) /\ Len(first) = 1 /\ first[1] = Hello(anchor)
    BY <2>1
  <2>3. pipe = first \o new
    OBVIOUS
  <2> HIDE DEF first, pipe, m
  <2>4. /\ pipe \in Seq(FrameSet) /\ Len(pipe) = 1 + m
        /\ \A i \in 1 .. 1 + m : pipe[i] = IF i <= 1 THEN first[i] ELSE new[i - 1]
    BY <1>5, <2>2, <2>3, ConcatProperties
  <2>5. /\ 1 \in 1 .. 1 + m
        /\ \A i \in 1 .. m : 1 + i \in 1 .. 1 + m /\ ~(1 + i <= 1) /\ 1 + i - 1 = i
    BY <1>4
  <2> QED
    BY <2>1, <2>2, <2>4, <2>5
<1> HIDE DEF pipe
<1>7. /\ viewer'.pipe = pipe /\ viewer'.last = viewer.last /\ viewer'.got = viewer.got
      /\ viewer'.since = (IF viewer.last = 0 THEN anchor ELSE viewer.since)
      /\ viewer' \in Viewers
  BY <1>1, <1>2, <1>3, <1>6 DEF Viewers
<1>8. pipe # <<>> /\ Base(viewer') = anchor
  <2>1. pipe # <<>>
    BY <1>4, <1>6, EmptySeq
  <2> QED
    BY <1>6, <1>7, <2>1 DEF Base
<1>9. \A i \in 1 .. (1 + m) : i = 1 \/ \E k \in 1 .. m : i = 1 + k
  <2> SUFFICES ASSUME NEW i \in 1 .. (1 + m), i # 1 PROVE i - 1 \in 1 .. m /\ i = 1 + (i - 1)
    OBVIOUS
  <2> QED
    BY <1>4
<1>10. \A k \in 1 .. m : /\ pipe[1 + k].kind = "event" /\ pipe[1 + k].id = replay[k]
                         /\ replay[k] \in Nat
  BY <1>4, <1>5, <1>6, ElementOfSeq
<1> HIDE DEF m
<1>11. \A i \in 1 .. (1 + m) :
          /\ pipe[i].id < api.next
          /\ pipe[i].kind = "hello" => i = 1
          /\ pipe[i].kind = "event" => pipe[i].id > anchor
  <2> SUFFICES ASSUME NEW i \in 1 .. (1 + m)
               PROVE  /\ pipe[i].id < api.next
                      /\ pipe[i].kind = "hello" => i = 1
                      /\ pipe[i].kind = "event" => pipe[i].id > anchor
    OBVIOUS
  <2>1. CASE i = 1
    BY <1>3, <1>6, <2>1
  <2>2. ASSUME NEW k \in 1 .. m, i = 1 + k
        PROVE  /\ pipe[i].id < api.next
               /\ pipe[i].kind = "hello" => i = 1
               /\ pipe[i].kind = "event" => pipe[i].id > anchor
    BY <1>4, <1>10, <2>2
  <2> QED
    BY <1>9, <2>1, <2>2
<1>12. \A i, j \in 1 .. (1 + m) : i < j => pipe[i].id < pipe[j].id
  <2> SUFFICES ASSUME NEW i \in 1 .. (1 + m), NEW j \in 1 .. (1 + m), i < j
               PROVE  pipe[i].id < pipe[j].id
    OBVIOUS
  <2>1. PICK k \in 1 .. m : j = 1 + k
    BY <1>4, <1>9
  <2>2. CASE i = 1
    BY <1>3, <1>4, <1>6, <1>10, <2>1, <2>2
  <2>3. ASSUME NEW l \in 1 .. m, i = 1 + l
        PROVE  pipe[i].id < pipe[j].id
    <3>1. l < k
      BY <2>1, <2>3
    <3>2. replay[l] < replay[k]
      BY <1>4, <3>1
    <3> QED
      BY <1>10, <2>1, <2>3, <3>2
  <2> QED
    BY <1>9, <2>2, <2>3
<1>13. ASSUME NEW id \in (anchor + 1) .. (api.next - 1)
       PROVE  \/ \E i \in 1 .. (1 + m) : pipe[i].kind = "event" /\ pipe[i].id = id
              \/ Lost(api, id)
  <2>1. \A k \in 1 .. m : 1 + k \in 1 .. (1 + m)
    BY <1>4
  <2> QED
    BY <1>4, <1>10, <1>13, <2>1
<1>14. PipeOK(viewer', api')
  <2>1. pipe[1].id = IF viewer'.last = 0 THEN viewer'.since ELSE viewer'.last
    BY <1>3, <1>6, <1>7
  <2> QED
    BY <1>1, <1>6, <1>7, <1>8, <1>11, <1>12, <1>13, <2>1 DEF PipeOK
<1>15. Missed(viewer', api')
  <2>1. Missed(viewer, api)
    BY DEF ViewerOK
  <2>2. CASE viewer.last = 0
    BY <1>3, <1>7, <2>2 DEF Missed
  <2>3. CASE viewer.last # 0
    BY <1>1, <1>7, <2>1, <2>3 DEF Missed
  <2> QED
    BY <2>2, <2>3
<1> QED
  BY <1>1, <1>2, <1>7, <1>14, <1>15 DEF ViewerOK

LEMMA DeliverStep ==
    ASSUME Types, ViewerOK, Deliver
    PROVE  ViewerOK'
<1> DEFINE h == viewer.pipe[1]
           pipe == Tail(viewer.pipe)
           n == Len(viewer.pipe)
<1>1. /\ viewer.on /\ viewer.pipe # <<>> /\ api' = api
      /\ viewer' = [viewer EXCEPT
                       !.pipe = pipe, !.last = Head(viewer.pipe).id,
                       !.got = IF Head(viewer.pipe).kind = "event"
                               THEN @ \cup {Head(viewer.pipe).id} ELSE @]
  BY DEF Deliver, ViewerUnchanged
<1>2. /\ viewer \in Viewers /\ viewer.last \in Nat /\ viewer.since \in Nat
      /\ viewer.pipe \in Seq(FrameSet) /\ viewer.got \in SUBSET Nat
      /\ viewer.last < api.next /\ api.next \in Nat
      /\ Missed(viewer, api) /\ PipeOK(viewer, api)
  BY <1>1 DEF Types, IndexOK, Indexes, ViewerOK, Viewers
<1>3. /\ Head(viewer.pipe) = h /\ pipe \in Seq(FrameSet) /\ Len(pipe) = n - 1
      /\ n \in Nat \ {0} /\ h \in FrameSet
      /\ \A i \in 1 .. (n - 1) : pipe[i] = viewer.pipe[i + 1]
  <2>1. /\ Head(viewer.pipe) = h /\ pipe \in Seq(FrameSet) /\ Len(pipe) = n - 1
        /\ n \in Nat \ {0} /\ Head(viewer.pipe) \in FrameSet
        /\ \A i \in 1 .. Len(pipe) : pipe[i] = viewer.pipe[i + 1]
    BY <1>1, <1>2, TailSet
  <2> QED
    BY <2>1
<1>4. h.id \in Nat /\ h.kind \in {"hello", "event"}
  BY <1>3 DEF FrameSet
<1> HIDE DEF pipe
<1>5. /\ viewer'.pipe = pipe /\ viewer'.last = h.id /\ viewer'.since = viewer.since
      /\ viewer'.got = (IF h.kind = "event" THEN viewer.got \cup {h.id} ELSE viewer.got)
      /\ viewer' \in Viewers
  BY <1>1, <1>2, <1>3, <1>4 DEF Viewers
<1> DEFINE base == Base(viewer)
<1>6. /\ h.kind = "hello" => base = h.id
      /\ h.kind = "event" => base = viewer.last /\ h.id > base
      /\ h.id < api.next
  <2>1. 1 \in 1 .. n
    BY <1>3
  <2>2. h.id < api.next /\ (h.kind = "event" => h.id > base)
    BY <1>2, <2>1 DEF PipeOK
  <2>3. base = IF h.kind = "hello" THEN h.id ELSE viewer.last
    BY <1>1 DEF Base
  <2> QED
    BY <2>2, <2>3
<1>7. \A i \in 1 .. n : viewer.pipe[i] \in FrameSet /\ viewer.pipe[i].id \in Nat
  <2>1. \A i \in 1 .. n : viewer.pipe[i] \in FrameSet
    BY <1>2, ElementOfSeq
  <2> QED
    BY <2>1 DEF FrameSet
<1>8. /\ \A i \in 1 .. n : /\ viewer.pipe[i].id < api.next
                           /\ viewer.pipe[i].kind = "hello" => i = 1
      /\ \A i, j \in 1 .. n : i < j => viewer.pipe[i].id < viewer.pipe[j].id
      /\ \A id \in (base + 1) .. (api.next - 1) :
            \/ \E i \in 1 .. n : viewer.pipe[i].kind = "event" /\ viewer.pipe[i].id = id
            \/ Lost(api, id)
  BY <1>2 DEF PipeOK
<1>9. base \in Nat /\ base <= h.id
  BY <1>2, <1>4, <1>6
<1> HIDE DEF base, n
<1>10. \A i \in 1 .. (n - 1) : i + 1 \in 1 .. n /\ i + 1 # 1
  BY <1>3
<1>11. \A i \in 1 .. (n - 1) :
          /\ pipe[i].id \in Nat /\ pipe[i].id < api.next
          /\ pipe[i].kind = "event" /\ pipe[i].id > h.id
  <2> SUFFICES ASSUME NEW i \in 1 .. (n - 1)
               PROVE  /\ pipe[i].id \in Nat /\ pipe[i].id < api.next
                      /\ pipe[i].kind = "event" /\ pipe[i].id > h.id
    OBVIOUS
  <2>1. pipe[i] = viewer.pipe[i + 1] /\ i + 1 \in 1 .. n /\ 1 \in 1 .. n /\ 1 < i + 1
    BY <1>3, <1>10
  <2>2. h.id < viewer.pipe[i + 1].id
    BY <1>8, <2>1
  <2>3. viewer.pipe[i + 1].kind = "event"
    BY <1>7, <1>8, <1>10, <2>1 DEF FrameSet
  <2> QED
    BY <1>4, <1>7, <1>8, <2>1, <2>2, <2>3
<1>12. \A i, j \in 1 .. (n - 1) : i < j => pipe[i].id < pipe[j].id
  <2> SUFFICES ASSUME NEW i \in 1 .. (n - 1), NEW j \in 1 .. (n - 1), i < j
               PROVE  pipe[i].id < pipe[j].id
    OBVIOUS
  <2>1. i + 1 < j + 1 /\ i + 1 \in 1 .. n /\ j + 1 \in 1 .. n
    BY <1>10
  <2> QED
    BY <1>3, <1>8, <2>1
<1>13. ASSUME NEW id \in (h.id + 1) .. (api.next - 1), ~Lost(api, id)
       PROVE  \E i \in 1 .. (n - 1) : pipe[i].kind = "event" /\ pipe[i].id = id
  <2>1. id \in (base + 1) .. (api.next - 1)
    BY <1>2, <1>4, <1>9, <1>13
  <2>2. PICK i \in 1 .. n : viewer.pipe[i].kind = "event" /\ viewer.pipe[i].id = id
    BY <1>8, <1>13, <2>1
  <2>3. i # 1
    BY <1>4, <1>13, <2>2
  <2>4. i - 1 \in 1 .. (n - 1) /\ i - 1 + 1 = i
    BY <1>3, <2>3
  <2> QED
    BY <1>3, <2>2, <2>4
<1>14. Base(viewer') = h.id
  <2>1. CASE pipe = <<>>
    BY <1>5, <2>1 DEF Base
  <2>2. CASE pipe # <<>>
    <3>1. Len(pipe) \in Nat \ {0}
      BY <1>3, <2>2, EmptySeq
    <3>2. 1 \in 1 .. (n - 1)
      BY <1>3, <3>1
    <3>3. pipe[1].kind = "event"
      BY <1>11, <3>2
    <3> QED
      BY <1>5, <3>3 DEF Base
  <2> QED
    BY <2>1, <2>2
<1>15. PipeOK(viewer', api')
  <2>1. viewer'.pipe # <<>> => viewer'.pipe[1].kind # "hello"
    <3> SUFFICES ASSUME pipe # <<>> PROVE pipe[1].kind # "hello"
      BY <1>5
    <3>1. Len(pipe) \in Nat \ {0}
      BY <1>3, EmptySeq
    <3>2. 1 \in 1 .. (n - 1)
      BY <1>3, <3>1
    <3> QED
      BY <1>11, <3>2
  <2>2. \A i \in 1 .. (n - 1) : pipe[i].kind # "hello"
    BY <1>11
  <2> HIDE DEF h
  <2> QED
    BY <1>1, <1>3, <1>5, <1>11, <1>12, <1>13, <1>14, <2>1, <2>2 DEF PipeOK
<1>16. Missed(viewer', api')
  <2> SUFFICES ASSUME NEW id \in (viewer.since + 1) .. h.id
               PROVE  id \in viewer'.got \/ Lost(api, id)
    BY <1>1, <1>5 DEF Missed
  <2>1. id \in Nat /\ id <= h.id
    BY <1>2, <1>4
  <2>2. CASE id <= viewer.last
    <3>1. id \in (viewer.since + 1) .. viewer.last
      BY <1>2, <1>4, <2>2
    <3>2. id \in viewer.got \/ Lost(api, id)
      BY <1>2, <3>1 DEF Missed
    <3> QED
      BY <1>5, <3>2
  <2>3. CASE id > viewer.last /\ h.kind = "hello"
    <3>1. h.id = IF viewer.last = 0 THEN viewer.since ELSE viewer.last
      BY <1>1, <1>2, <2>3 DEF PipeOK
    <3> QED
      BY <1>2, <1>4, <2>1, <2>3, <3>1
  <2>4. CASE id > viewer.last /\ h.kind = "event" /\ id = h.id
    BY <1>5, <2>4
  <2>5. CASE id > viewer.last /\ h.kind = "event" /\ id < h.id
    <3>1. id \in (base + 1) .. (api.next - 1)
      BY <1>2, <1>4, <1>6, <2>1, <2>5
    <3>2. ASSUME NEW i \in 1 .. n, viewer.pipe[i].id = id PROVE FALSE
      <4>1. CASE i = 1
        BY <1>4, <2>1, <2>5, <3>2, <4>1
      <4>2. CASE i # 1
        <5>1. 1 \in 1 .. n /\ 1 < i
          BY <1>3, <4>2
        <5>2. h.id < viewer.pipe[i].id
          BY <1>8, <5>1
        <5> QED
          BY <1>4, <2>1, <2>5, <3>2, <5>2
      <4> QED
        BY <4>1, <4>2
    <3> QED
      BY <1>8, <3>1, <3>2
  <2> QED
    BY <1>2, <1>4, <2>1, <2>2, <2>3, <2>4, <2>5
<1> QED
  BY <1>1, <1>2, <1>5, <1>6, <1>15, <1>16 DEF ViewerOK

LEMMA ViewerInit ==
    Init => ViewerOK /\ Spans(api)
<1> SUFFICES ASSUME Init PROVE ViewerOK /\ Spans(api)
  OBVIOUS
<1>1. /\ viewer = [on |-> FALSE, last |-> 0, since |-> 0, pipe |-> <<>>, got |-> {}]
      /\ api.log = {} /\ api.next = 1
  BY DEF Init, EmptyIndex
<1>2. viewer \in Viewers
  BY <1>1, EmptySeq DEF Viewers
<1> QED
  BY <1>1, <1>2 DEF ViewerOK, Missed, Spans

\* A step with which the index takes something on is broadcast.
LEMMA Broadcasts ==
    ASSUME Types, Next, ~Daemon, ~(Connect \/ Deliver \/ Drop)
    PROVE  viewer' = Broadcast(api, api') \/ (viewer' = viewer /\ api' = api)
<1>1. CASE ReceiveProof
  <2>1. chan # <<>> /\ Head(chan).kind = "proof" /\ PostOrSpool(Proof(Head(chan)))
    BY <1>1 DEF ReceiveProof
  <2>2. Head(chan) \in Messages
    BY <2>1, TailSet DEF Types, QueueTypes
  <2>3. Proof(Head(chan)) \in Entries
    BY <2>1, <2>2 DEF Messages, Events, EventKinds, Manifests, Flushes, Proof, Entries
  <2> QED
    BY <2>1, <2>3, PostFacts
<1>2. CASE Flush
  <2>1. PostOrSpool(Batch(held)) /\ Batch(held) \in Entries
    BY <1>2 DEF Flush, Types, QueueTypes, Batch, Entries
  <2> QED
    BY <2>1, PostFacts
<1>3. CASE Drain
  BY <1>3 DEF Drain, Request
<1>4. CASE ReapByHand
  BY <1>4 DEF ReapByHand
<1>5. CASE ReceiveEvent \/ ReceiveStatus \/ ReceiveFlush \/ Exit \/ Crash \/ Start
  BY <1>5 DEF ReceiveEvent, ReceiveStatus, ReceiveFlush, Exit, Crash, Start
<1> QED
  BY <1>1, <1>2, <1>3, <1>4, <1>5 DEF Next, Task

LEMMA ViewerStep ==
    Types /\ Spans(api) /\ ViewerOK /\ [Next]_vars => ViewerOK' /\ Spans(api)'
<1> SUFFICES ASSUME Types, Spans(api), ViewerOK, [Next]_vars
             PROVE  ViewerOK' /\ Spans(api')
  BY DEF Spans
<1>1. ASSUME viewer' = viewer, api' = api PROVE ViewerOK' /\ Spans(api')
  BY <1>1 DEF ViewerOK, Missed, PipeOK, Base, Lost, Viewers
<1>2. CASE UNCHANGED vars
  BY <1>1, <1>2 DEF vars
<1>3. CASE Daemon
  <2>1. viewer' = viewer /\ api' = api
    BY <1>3, DaemonStep DEF DaemonSays, TaskUnchanged
  <2> QED
    BY <1>1, <2>1
<1>4. CASE Next /\ ~Daemon
  <2>1. TaskDoes
    BY <1>4, OtherStep
  <2>2. Spans(api') /\ Grows(api, api') /\ IndexOK(api)
    BY <2>1, SpansAfter DEF TaskDoes, Types
  <2>3. CASE Connect
    BY <2>2, <2>3, ConnectStep
  <2>4. CASE Deliver
    BY <2>2, <2>4, DeliverStep
  <2>5. CASE Drop
    <3>1. /\ api' = api /\ viewer' = [viewer EXCEPT !.on = FALSE, !.pipe = <<>>]
          /\ viewer \in Viewers
      BY <2>5 DEF Drop, ViewerUnchanged, ViewerOK
    <3>2. /\ viewer' \in Viewers /\ viewer'.on = FALSE /\ viewer'.last = viewer.last
          /\ viewer'.since = viewer.since /\ viewer'.got = viewer.got
      BY <3>1, EmptySeq DEF Viewers
    <3> QED
      BY <2>2, <3>1, <3>2 DEF ViewerOK, Missed
  <2>6. CASE ~(Connect \/ Deliver \/ Drop)
    <3>1. viewer' = Broadcast(api, api') \/ (viewer' = viewer /\ api' = api)
      BY <1>4, <2>6, Broadcasts
    <3> QED
      BY <1>1, <2>2, <3>1, ViewerHears
  <2> QED
    BY <2>3, <2>4, <2>5, <2>6
<1> QED
  BY <1>2, <1>3, <1>4

\* What a viewer received since it first connected has no hole, but for what left
\* the ring and the strandings of a sweep by hand.
THEOREM ViewerMissesNothingEver ==
    Spec => []ViewerMissesNothing
<1>1. ViewerOK => ViewerMissesNothing
  BY DEF ViewerOK, Missed, Lost, ViewerMissesNothing
<1> QED
  BY <1>1, ViewerInit, ViewerStep, TypesHold, PTL DEF Spec

-----------------------------------------------------------------------------
(* The order of the daemon's events, from the channel to the log.          *)

\* The ring holds the rows of a batch and of the sweep after it: MAX_BATCH events,
\* a manifest, and at worst a stranding of every epoch.
RingHoldsBatch == Ring >= MaxBatch + Cardinality(Epochs) + 1

Room(index) == MaxBatch + Cardinality(StrandedIn(index))

Recent(index, source, key, room) ==
    \E row \in index.log : row.source = source /\ row.key = key /\ row.id + room >= index.next

\* The index took the batch, and nothing but sweeps came since: its events are all
\* in the log, as near its head as strandings and its manifest leave them.
Repeated(index, b) ==
    \/ \A j \in 1 .. Len(b.events) :
          Recent(index, "daemon", b.events[j].seq, Room(index))
    \/ /\ Recent(index, "status", b.status.seq, Room(index) + 1)
       /\ \A j \in 1 .. Len(b.events) :
             Recent(index, "daemon", b.events[j].seq, Room(index) + 1)

LEMMA RoomFits ==
    ASSUME NEW index
    PROVE  /\ Room(index) \in Nat /\ MaxBatch <= Room(index) /\ MaxBatch \in Nat
           /\ Room(index) = MaxBatch + Cardinality(StrandedIn(index))
           /\ Cardinality(StrandedIn(index)) \in Nat
           /\ RingHoldsBatch => Room(index) + 1 <= Ring
<1>1. StrandedIn(index) \in SUBSET Epochs /\ IsFiniteSet(Epochs)
  BY EpochsAssumption DEF StrandedIn
<1>2. IsFiniteSet(StrandedIn(index)) /\ Cardinality(StrandedIn(index)) <= Cardinality(Epochs)
  BY <1>1, FS_Subset
<1>3. Cardinality(StrandedIn(index)) \in Nat /\ Cardinality(Epochs) \in Nat
  BY <1>1, <1>2, FS_CardinalityType
<1>4. MaxBatch \in Nat /\ Ring \in Nat
  BY CapacityAssumption, RingAssumption
<1> QED
  BY <1>2, <1>3, <1>4 DEF Room, RingHoldsBatch

LEMMA RecentStays ==
    ASSUME NEW before, NEW after, IndexOK(before), Grows(before, after),
           NEW room \in Nat, NEW more \in Nat, more <= Ring,
           after.next - before.next <= more - room,
           NEW source, NEW key, Recent(before, source, key, room)
    PROVE  Recent(after, source, key, more)
<1>1. PICK row \in before.log :
         row.source = source /\ row.key = key /\ row.id + room >= before.next
  BY DEF Recent
<1>2. /\ before.next \in Nat /\ after.next \in Nat /\ row.id \in Nat /\ Ring \in Nat
  BY RingAssumption DEF Grows, IndexOK, Indexes, LogRows
<1>3. row.id + more >= after.next
  BY <1>1, <1>2
<1>4. row \in after.log
  <2>1. row \in after.log \/ row.id < after.next - Ring
    BY DEF Grows
  <2> QED
    BY <1>2, <1>3, <2>1
<1> QED
  BY <1>1, <1>3, <1>4 DEF Recent

\* A sweep adds no event, and leaves a repeated batch one.
LEMMA SweepsKeep ==
    ASSUME RingHoldsBatch, NEW before, NEW after, IndexOK(before), Sweeps(before, after),
           NEW b
    PROVE  /\ InOrderLog(before.log) => InOrderLog(after.log)
           /\ \A row \in after.log : row.source = "daemon" => row \in before.log
           /\ Repeated(before, b) => Repeated(after, b)
<1>1. /\ Grows(before, after)
      /\ after.next - before.next
            <= Cardinality(StrandedIn(after)) - Cardinality(StrandedIn(before))
      /\ \A row \in after.log : row.source = "daemon" => row \in before.log
  BY DEF Sweeps
<1>2. /\ Room(before) \in Nat /\ Room(after) \in Nat /\ Room(after) + 1 <= Ring
      /\ Ring \in Nat /\ before.next \in Nat /\ after.next \in Nat
      /\ after.next - before.next <= Room(after) - Room(before)
      /\ after.next - before.next <= (Room(after) + 1) - (Room(before) + 1)
  <2>1. /\ Room(before) \in Nat /\ Room(after) \in Nat /\ Room(after) + 1 <= Ring
        /\ MaxBatch \in Nat
        /\ Room(before) = MaxBatch + Cardinality(StrandedIn(before))
        /\ Room(after) = MaxBatch + Cardinality(StrandedIn(after))
        /\ Cardinality(StrandedIn(before)) \in Nat /\ Cardinality(StrandedIn(after)) \in Nat
    BY RoomFits
  <2>2. Ring \in Nat /\ before.next \in Nat /\ after.next \in Nat
    BY <1>1, RingAssumption DEF Grows, IndexOK, Indexes
  <2> QED
    BY <1>1, <2>1, <2>2
<1>3. ASSUME NEW source, NEW key, Recent(before, source, key, Room(before))
      PROVE  Recent(after, source, key, Room(after))
  <2>1. Room(after) <= Ring
    BY <1>2
  <2> QED
    BY <1>1, <1>2, <1>3, <2>1, RecentStays
<1>4. ASSUME NEW source, NEW key, Recent(before, source, key, Room(before) + 1)
      PROVE  Recent(after, source, key, Room(after) + 1)
  <2>1. Room(before) + 1 \in Nat /\ Room(after) + 1 \in Nat
    BY <1>2
  <2> QED
    BY <1>1, <1>2, <1>4, <2>1, RecentStays
<1>5. Repeated(before, b) => Repeated(after, b)
  BY <1>3, <1>4 DEF Repeated
<1>6. InOrderLog(before.log) => InOrderLog(after.log)
  BY <1>1 DEF InOrderLog
<1> QED
  BY <1>1, <1>5, <1>6

LEMMA TrimKeeps ==
    ASSUME RingHoldsBatch, NEW before, IndexOK(before), NEW b
    PROVE  /\ InOrderLog(before.log) => InOrderLog(Trim(before).log)
           /\ \A row \in Trim(before).log : row \in before.log
           /\ Repeated(before, b) => Repeated(Trim(before), b)
<1> DEFINE after == Trim(before)
<1>1. /\ Grows(before, after) /\ after.next = before.next /\ after.row = before.row
      /\ after.log = {row \in before.log : row.id >= before.next - Ring}
  BY TrimFacts
<1> HIDE DEF after
<1>2. Room(after) = Room(before)
  BY <1>1 DEF Room, StrandedIn
<1>3. /\ Room(before) \in Nat /\ Room(before) + 1 \in Nat /\ Room(before) + 1 <= Ring
      /\ Room(before) <= Ring /\ before.next \in Nat
  <2>1. /\ Room(before) \in Nat /\ Room(before) + 1 <= Ring /\ Ring \in Nat
        /\ before.next \in Nat
    BY RoomFits, RingAssumption DEF IndexOK, Indexes
  <2> QED
    BY <2>1
<1>4. ASSUME NEW source, NEW key, NEW room \in {Room(before), Room(before) + 1},
             Recent(before, source, key, room)
      PROVE  Recent(after, source, key, room)
  <2>1. after.next - before.next <= room - room /\ room \in Nat /\ room <= Ring
    BY <1>1, <1>3
  <2> QED
    BY <1>1, <1>4, <2>1, RecentStays
<1>5. Repeated(before, b) => Repeated(after, b)
  BY <1>2, <1>4 DEF Repeated
<1>6. InOrderLog(before.log) => InOrderLog(after.log)
  BY <1>1 DEF InOrderLog
<1> QED
  BY <1>1, <1>5, <1>6 DEF after

\* A batch taken, for the first time or again, leaves the log in order and can be
\* taken again.
LEMMA IngestOrder ==
    ASSUME RingHoldsBatch, NEW index, IndexOK(index), InOrderLog(index.log),
           NEW b \in Batches, Len(b.events) <= MaxBatch, Ascending(b.events),
           Precedes(index.log, b.events) \/ Repeated(index, b)
    PROVE  LET after == Ingest(index, b)
           IN  /\ InOrderLog(after.log) /\ Repeated(after, b)
               /\ \A row \in after.log : row.source = "daemon" =>
                     row \in index.log \/ \E j \in 1 .. Len(b.events) : row.key = b.events[j].seq
<1> DEFINE h == Heard(index, b.events)
           t == IngestStatus(h, b.status)
           r == Reap(t)
           after == Ingest(index, b)
           n == Len(b.events)
<1>1. /\ HeardBy(index, b.events, n, h)
      /\ IndexOK(h) /\ IndexOK(t) /\ IndexOK(r) /\ Grows(h, t) /\ Sweeps(t, r)
      /\ after = Trim(r)
  BY IngestFacts
<1>2. /\ b.events \in Seq(Events) /\ b.status \in Manifests \cup {NoStatus} /\ n \in Nat
  BY LenProperties DEF Batches
<1>3. /\ \/ t.log = h.log /\ t.next = h.next
         \/ /\ t.next = h.next + 1 /\ ~Known(h, "status", b.status.seq)
            /\ t.log = h.log \cup {[id |-> h.next, source |-> "status",
                                    key |-> b.status.seq, epoch |-> b.status.epoch]}
      /\ t.row = h.row
  BY <1>1, <1>2, StatusFacts
<1>4. /\ MaxBatch \in Nat /\ Room(h) \in Nat /\ MaxBatch <= Room(h) /\ Room(h) + 1 <= Ring
      /\ Ring \in Nat /\ h.next \in Nat /\ t.next \in Nat /\ index.next \in Nat
  BY <1>1, RoomFits, RingAssumption DEF IndexOK, Indexes
<1> HIDE DEF t, h, r, after
<1>5. /\ InOrderLog(h.log)
      /\ \A row \in h.log : row.source = "daemon" =>
            row \in index.log \/ \E j \in 1 .. n : row.key = b.events[j].seq
      /\ Repeated(h, b)
  <2>1. CASE Precedes(index.log, b.events)
    <3>1. HeardInTurn(index, b.events, n, h)
      BY <1>2, <2>1, HeardFresh DEF h
    <3>2. \A j \in 1 .. n : \E row \in h.log :
             row.source = "daemon" /\ row.key = b.events[j].seq /\ row.id >= index.next
      BY <3>1 DEF HeardInTurn
    <3>3. h.next <= index.next + n
      BY <1>1 DEF HeardBy
    <3>4. \A row \in h.log : row.id \in Nat
      BY <1>1 DEF IndexOK, Indexes, LogRows
    <3>5. ASSUME NEW j \in 1 .. n
          PROVE  Recent(h, "daemon", b.events[j].seq, Room(h))
      <4>1. PICK row \in h.log :
               row.source = "daemon" /\ row.key = b.events[j].seq /\ row.id >= index.next
        BY <3>2
      <4>2. row.id + Room(h) >= h.next
        BY <1>2, <1>4, <3>3, <3>4, <4>1
      <4> QED
        BY <4>1, <4>2 DEF Recent
    <3>6. Repeated(h, b)
      BY <3>5 DEF Repeated
    <3> QED
      BY <3>1, <3>6 DEF HeardInTurn
  <2>2. CASE Repeated(index, b)
    <3>1. \A j \in 1 .. n : Known(index, "daemon", b.events[j].seq)
      BY <2>2 DEF Repeated, Recent, Known
    <3>2. h = index
      BY <1>2, <3>1, HeardTwice DEF h
    <3> QED
      BY <2>2, <3>2
  <2> QED
    BY <2>1, <2>2
<1>6. Room(t) = Room(h)
  BY <1>3 DEF Room, StrandedIn
<1>7. /\ InOrderLog(t.log)
      /\ \A row \in t.log : row.source = "daemon" => row \in h.log
  BY <1>3, <1>5 DEF InOrderLog
<1>8. Repeated(t, b)
  <2>1. CASE t.log = h.log /\ t.next = h.next
    BY <1>5, <1>6, <2>1 DEF Repeated, Recent
  <2>2. CASE /\ t.next = h.next + 1 /\ ~Known(h, "status", b.status.seq)
             /\ t.log = h.log \cup {[id |-> h.next, source |-> "status",
                                     key |-> b.status.seq, epoch |-> b.status.epoch]}
    <3>1. Recent(t, "status", b.status.seq, Room(t) + 1)
      <4> DEFINE row == [id |-> h.next, source |-> "status",
                         key |-> b.status.seq, epoch |-> b.status.epoch]
      <4>1. row \in t.log /\ row.source = "status" /\ row.key = b.status.seq
            /\ row.id + (Room(t) + 1) >= t.next
        BY <1>4, <1>6, <2>2
      <4> QED
        BY <4>1 DEF Recent
    <3>2. \A row \in h.log : row.id \in Nat
      BY <1>1 DEF IndexOK, Indexes, LogRows
    <3>3. ASSUME NEW j \in 1 .. n, Recent(h, "daemon", b.events[j].seq, Room(h))
          PROVE  Recent(t, "daemon", b.events[j].seq, Room(t) + 1)
      <4>1. PICK row \in h.log : /\ row.source = "daemon" /\ row.key = b.events[j].seq
                                 /\ row.id + Room(h) >= h.next
        BY <3>3 DEF Recent
      <4>2. row \in t.log /\ row.id + (Room(t) + 1) >= t.next
        BY <1>4, <1>6, <2>2, <3>2, <4>1
      <4> QED
        BY <4>1, <4>2 DEF Recent
    <3>4. CASE \A j \in 1 .. n : Recent(h, "daemon", b.events[j].seq, Room(h))
      BY <3>1, <3>3, <3>4 DEF Repeated
    <3>5. ~Recent(h, "status", b.status.seq, Room(h) + 1)
      BY <2>2 DEF Recent, Known
    <3> QED
      BY <1>5, <3>4, <3>5 DEF Repeated
  <2> QED
    BY <1>3, <2>1, <2>2
<1>9. /\ InOrderLog(r.log) /\ Repeated(r, b)
      /\ \A row \in r.log : row.source = "daemon" => row \in t.log
  BY <1>1, <1>7, <1>8, SweepsKeep
<1>10. /\ InOrderLog(after.log) /\ Repeated(after, b)
       /\ \A row \in after.log : row \in r.log
  BY <1>1, <1>9, TrimKeeps
<1> QED
  BY <1>5, <1>7, <1>9, <1>10 DEF after

\* Every event of A was announced before every event of B.
InTurn(A, B) ==
    \A a \in A, b \in B : a \in Events /\ b \in Events => a.seq < b.seq

\* The log holds only what was announced before the events of B.
KeysBelow(log, B) ==
    \A row \in log, b \in B :
        row.source = "daemon" /\ b \in Events => row.key < b.seq

\* Neither the log nor what the API has recorded is as late as the events of B.
Below(index, T, B) == KeysBelow(index.log, B) /\ InTurn(T, B)

BatchInOrder(entry) == entry.type = "batch" => Ascending(entry.batch.events)

\* The head of the spool may have been taken, with its answer lost.
HeadOK(index, T, entry) ==
    \/ Below(index, T, InEntry(entry))
    \/ /\ entry.type = "batch" /\ Repeated(index, entry.batch)
       /\ \A m \in InEntry(entry) : m \in Events => m \in T

\* The log and what the API recorded (T), then a spool, then the messages R.
InLine(s, R, index, T) ==
    /\ InOrderLog(index.log) /\ Below(index, T, R)
    /\ \A i \in 1 .. Len(s) : BatchInOrder(s[i]) /\ InTurn(InEntry(s[i]), R)
    /\ \A i, j \in 1 .. Len(s) : i < j => InTurn(InEntry(s[i]), InEntry(s[j]))
    /\ \A i \in 2 .. Len(s) : Below(index, T, InEntry(s[i]))
    /\ s # <<>> => HeadOK(index, T, s[1])

LEMMA InLineFewer ==
    ASSUME NEW s, NEW R, NEW Q, NEW index, NEW T, InLine(s, R, index, T),
           \A m \in Q : m \in Events => m \in R
    PROVE  InLine(s, Q, index, T)
<1>1. Below(index, T, Q)
  BY DEF InLine, Below, KeysBelow, InTurn
<1>2. \A i \in 1 .. Len(s) : InTurn(InEntry(s[i]), Q)
  BY DEF InLine, InTurn
<1> QED
  BY <1>1, <1>2 DEF InLine

LEMMA InLineTail ==
    ASSUME NEW s \in Seq(Entries), s # <<>>, NEW R, NEW index, NEW T, InLine(s, R, index, T)
    PROVE  InLine(Tail(s), R, index, T)
<1> DEFINE t == Tail(s)
           n == Len(s)
<1>1. /\ Len(t) = n - 1 /\ n \in Nat \ {0} /\ t \in Seq(Entries)
      /\ \A i \in 1 .. (n - 1) : t[i] = s[i + 1]
  <2>1. /\ Len(t) = n - 1 /\ n \in Nat \ {0} /\ t \in Seq(Entries)
        /\ \A i \in 1 .. Len(t) : t[i] = s[i + 1]
    BY TailSet
  <2> QED
    BY <2>1
<1>2. /\ \A i \in 1 .. n : BatchInOrder(s[i]) /\ InTurn(InEntry(s[i]), R)
      /\ \A i, j \in 1 .. n : i < j => InTurn(InEntry(s[i]), InEntry(s[j]))
      /\ \A i \in 2 .. n : Below(index, T, InEntry(s[i]))
  BY DEF InLine
<1> HIDE DEF t, n
<1>3. \A i \in 1 .. (n - 1) : i + 1 \in 1 .. n /\ i + 1 \in 2 .. n
  BY <1>1
<1>4. \A i \in 1 .. (n - 1) :
         BatchInOrder(t[i]) /\ InTurn(InEntry(t[i]), R) /\ Below(index, T, InEntry(t[i]))
  BY <1>1, <1>2, <1>3
<1>5. \A i, j \in 1 .. (n - 1) : i < j => InTurn(InEntry(t[i]), InEntry(t[j]))
  <2> SUFFICES ASSUME NEW i \in 1 .. (n - 1), NEW j \in 1 .. (n - 1), i < j
               PROVE  InTurn(InEntry(t[i]), InEntry(t[j]))
    OBVIOUS
  <2>1. i + 1 < j + 1
    OBVIOUS
  <2> QED
    BY <1>1, <1>2, <1>3, <2>1
<1>6. t # <<>> => HeadOK(index, T, t[1])
  <2> SUFFICES ASSUME t # <<>> PROVE HeadOK(index, T, t[1])
    OBVIOUS
  <2>1. 1 \in 1 .. (n - 1)
    BY <1>1, EmptySeq
  <2> QED
    BY <1>4, <2>1 DEF HeadOK
<1>7. \A i \in 2 .. (n - 1) : i \in 1 .. (n - 1)
  BY <1>1
<1> QED
  BY <1>1, <1>4, <1>5, <1>6, <1>7 DEF InLine, t

LEMMA InLineAppend ==
    ASSUME NEW s \in Seq(Entries), NEW entry \in Entries, NEW R, NEW index, NEW T,
           InLine(s, R \cup InEntry(entry), index, T),
           InTurn(InEntry(entry), R), BatchInOrder(entry)
    PROVE  InLine(Append(s, entry), R, index, T)
<1> DEFINE t == Append(s, entry)
           n == Len(s)
           E == InEntry(entry)
<1>1. /\ Len(t) = n + 1 /\ n \in Nat
      /\ \A i \in 1 .. n : t[i] = s[i]
      /\ t[n + 1] = entry
  BY AppendProperties, LenProperties
<1>2. /\ InOrderLog(index.log) /\ Below(index, T, R) /\ Below(index, T, E)
      /\ \A i \in 1 .. n : /\ BatchInOrder(s[i]) /\ InTurn(InEntry(s[i]), R)
                           /\ InTurn(InEntry(s[i]), E)
      /\ \A i, j \in 1 .. n : i < j => InTurn(InEntry(s[i]), InEntry(s[j]))
      /\ \A i \in 2 .. n : Below(index, T, InEntry(s[i]))
      /\ s # <<>> => HeadOK(index, T, s[1])
  <2>1. Below(index, T, R \cup E)
    BY DEF InLine
  <2>2. \A i \in 1 .. n : InTurn(InEntry(s[i]), R \cup E)
    BY DEF InLine
  <2>3. Below(index, T, R) /\ Below(index, T, E)
    BY <2>1 DEF Below, KeysBelow, InTurn
  <2>4. \A i \in 1 .. n : InTurn(InEntry(s[i]), R) /\ InTurn(InEntry(s[i]), E)
    BY <2>2 DEF InTurn
  <2> QED
    BY <2>3, <2>4 DEF InLine
<1> HIDE DEF t
<1>3. s = <<>> => n = 0
  BY EmptySeq
<1>4. s # <<>> => n \in Nat \ {0}
  BY EmptySeq
<1> HIDE DEF n
<1>5. \A i \in 1 .. (n + 1) : i \in 1 .. n \/ i = n + 1
  BY <1>1
<1>6. \A i \in 1 .. (n + 1) : BatchInOrder(t[i]) /\ InTurn(InEntry(t[i]), R)
  BY <1>1, <1>2, <1>5
<1>7. \A i, j \in 1 .. (n + 1) : i < j => InTurn(InEntry(t[i]), InEntry(t[j]))
  <2> SUFFICES ASSUME NEW i \in 1 .. (n + 1), NEW j \in 1 .. (n + 1), i < j
               PROVE  InTurn(InEntry(t[i]), InEntry(t[j]))
    OBVIOUS
  <2>1. i \in 1 .. n
    BY <1>1
  <2>2. CASE j \in 1 .. n
    BY <1>1, <1>2, <2>1, <2>2
  <2>3. CASE j = n + 1
    BY <1>1, <1>2, <2>1, <2>3
  <2> QED
    BY <1>5, <2>2, <2>3
<1>8. \A i \in 2 .. (n + 1) : Below(index, T, InEntry(t[i]))
  <2> SUFFICES ASSUME NEW i \in 2 .. (n + 1) PROVE Below(index, T, InEntry(t[i]))
    OBVIOUS
  <2>1. CASE i = n + 1
    BY <1>1, <1>2, <2>1
  <2>2. CASE i \in 2 .. n
    <3>1. i \in 1 .. n
      BY <2>2
    <3> QED
      BY <1>1, <1>2, <2>2, <3>1
  <2> QED
    BY <1>1, <2>1, <2>2
<1>9. HeadOK(index, T, t[1])
  <2>1. CASE s = <<>>
    BY <1>1, <1>2, <1>3, <2>1 DEF HeadOK
  <2>2. CASE s # <<>>
    <3>1. 1 \in 1 .. n
      BY <1>4, <2>2
    <3> QED
      BY <1>1, <1>2, <2>2, <3>1
  <2> QED
    BY <2>1, <2>2
<1> QED
  BY <1>1, <1>2, <1>6, <1>7, <1>8, <1>9 DEF InLine, t

\* The head of the spool reaches the API: what follows it stays behind the log.
LEMMA InLineEffect ==
    ASSUME RingHoldsBatch, Types, NEW s \in Seq(Entries), s # <<>>, NEW R,
           InLine(s, R, api, taken)
    PROVE  InLine(s, R, Effect(s[1]), taken \cup InEntry(s[1]))
<1> DEFINE entry == s[1]
           after == Effect(entry)
           T == taken \cup InEntry(entry)
           n == Len(s)
<1>1. /\ entry \in Entries /\ 1 \in 1 .. n /\ n \in Nat
      /\ IndexOK(api) /\ bucket \in BOOLEAN
  <2>1. n \in Nat \ {0}
    BY EmptySeq
  <2>2. 1 \in 1 .. n
    BY <2>1
  <2> QED
    BY <2>1, <2>2, ElementOfSeq DEF Types
<1>2. /\ InOrderLog(api.log) /\ Below(api, taken, R)
      /\ \A i \in 1 .. n : BatchInOrder(s[i]) /\ InTurn(InEntry(s[i]), R)
      /\ \A i, j \in 1 .. n : i < j => InTurn(InEntry(s[i]), InEntry(s[j]))
      /\ \A i \in 2 .. n : Below(api, taken, InEntry(s[i]))
      /\ HeadOK(api, taken, entry)
  BY DEF InLine
<1>3. CASE entry.type = "proof"
  <2>1. after = PutProof(api, bucket, entry.proof.epoch) /\ entry.proof.epoch \in Epochs
        /\ entry.proof \in Uploads /\ InEntry(entry) = {entry.proof}
    BY <1>1, <1>3 DEF Effect, Entries, Uploads, InEntry
  <2>2. after.log = api.log
    BY <1>1, <2>1, PutProofFacts
  <2>3. \A m \in InEntry(entry) : m \notin Events
    BY <2>1, KindsDiffer
  <2> HIDE DEF after, entry, n
  <2>4. \A B : Below(api, taken, B) => Below(after, T, B)
    BY <2>2, <2>3 DEF Below, KeysBelow, InTurn
  <2>5. HeadOK(after, T, entry)
    BY <2>3 DEF HeadOK, Below, KeysBelow, InTurn
  <2> HIDE DEF T
  <2> QED
    BY <1>2, <2>2, <2>4, <2>5 DEF InLine, after, entry, n, T
<1>4. CASE entry.type # "proof"
  <2> DEFINE b == entry.batch
  <2>1. /\ after = Ingest(api, b) /\ b \in Batches /\ Len(b.events) <= MaxBatch
        /\ InEntry(entry) = InBatch(b) /\ entry.type = "batch"
    BY <1>1, <1>4 DEF Effect, Entries, InEntry
  <2>2. Ascending(b.events)
    BY <1>1, <1>2, <2>1 DEF BatchInOrder
  <2> HIDE DEF b, after, entry, n
  <2>3. b.events \in Seq(Events)
    BY <2>1 DEF Batches
  <2>4. \A j \in 1 .. Len(b.events) : b.events[j] \in Events /\ b.events[j] \in InEntry(entry)
    <3>1. \A j \in 1 .. Len(b.events) : b.events[j] \in ToSet(b.events) /\ b.events[j] \in Events
      BY <2>3, InSet, ElementOfSeq
    <3> QED
      BY <2>1, <3>1 DEF InBatch
  <2>5. Precedes(api.log, b.events) \/ Repeated(api, b)
    <3>1. CASE Below(api, taken, InEntry(entry))
      BY <2>4, <3>1 DEF Below, KeysBelow, Precedes
    <3>2. CASE Repeated(api, b)
      BY <3>2
    <3> QED
      BY <1>2, <3>1, <3>2 DEF HeadOK, b
  <2>6. /\ InOrderLog(after.log) /\ Repeated(after, b)
        /\ \A row \in after.log : row.source = "daemon" =>
              row \in api.log \/ \E j \in 1 .. Len(b.events) : row.key = b.events[j].seq
    BY <1>1, <1>2, <2>1, <2>2, <2>5, IngestOrder
  <2>7. ASSUME NEW B, InTurn(InEntry(entry), B), Below(api, taken, B)
        PROVE  Below(after, T, B)
    <3>0. InTurn(T, B)
      BY <2>7 DEF Below, InTurn
    <3> SUFFICES ASSUME NEW row \in after.log, NEW m \in B,
                        row.source = "daemon", m \in Events
                 PROVE  row.key < m.seq
      BY <3>0 DEF Below, KeysBelow
    <3>1. CASE row \in api.log
      BY <2>7, <3>1 DEF Below, KeysBelow
    <3>2. ASSUME NEW j \in 1 .. Len(b.events), row.key = b.events[j].seq
          PROVE  row.key < m.seq
      BY <2>4, <2>7, <3>2 DEF InTurn
    <3> QED
      BY <2>6, <3>1, <3>2
  <2>8. Below(after, T, R)
    BY <1>1, <1>2, <2>7 DEF entry
  <2>9. ASSUME NEW i \in 2 .. n PROVE Below(after, T, InEntry(s[i]))
    <3>1. i \in 1 .. n /\ 1 < i
      BY <1>1
    <3>2. InTurn(InEntry(entry), InEntry(s[i]))
      BY <1>1, <1>2, <3>1 DEF entry
    <3> QED
      BY <1>2, <2>7, <3>2
  <2>10. HeadOK(after, T, entry)
    BY <2>1, <2>6 DEF HeadOK, b
  <2> HIDE DEF T
  <2> QED
    BY <1>2, <2>6, <2>8, <2>9, <2>10 DEF InLine, entry, after, n, T
<1> QED
  BY <1>3, <1>4

LEMMA InLineSwept ==
    ASSUME RingHoldsBatch, Types, NEW s \in Seq(Entries), NEW R, InLine(s, R, api, taken)
    PROVE  InLine(s, R, ReapOnDemand(api), taken)
<1> DEFINE after == ReapOnDemand(api)
<1>1. IndexOK(api) /\ Sweeps(api, after)
  BY SweepFacts DEF Types
<1> HIDE DEF after
<1>2. /\ InOrderLog(api.log) => InOrderLog(after.log)
      /\ \A row \in after.log : row.source = "daemon" => row \in api.log
  BY <1>1, SweepsKeep
<1>3. \A b : Repeated(api, b) => Repeated(after, b)
  BY <1>1, SweepsKeep
<1>4. \A B : Below(api, taken, B) => Below(after, taken, B)
  BY <1>2 DEF Below, KeysBelow
<1>5. \A entry : HeadOK(api, taken, entry) => HeadOK(after, taken, entry)
  BY <1>3, <1>4 DEF HeadOK
<1> QED
  BY <1>2, <1>4, <1>5 DEF InLine, after

LEMMA PostInLine ==
    ASSUME RingHoldsBatch, Types, NEW entry \in Entries, PostOrSpool(entry), NEW R,
           InLine(spool, R \cup InEntry(entry), api, taken),
           InTurn(InEntry(entry), R), BatchInOrder(entry)
    PROVE  InLine(spool', R, api', taken')
<1>1. /\ spool \in Seq(Entries) /\ Len(spool) \in Nat /\ SpoolCapacity \in Nat \ {0}
  BY LenProperties, CapacityAssumption DEF Types, SpoolTypes
<1>2. CASE spool # <<>>
  <2>1. Push(entry) /\ api' = api /\ taken' = taken
    BY <1>2 DEF PostOrSpool
  <2>2. CASE Len(spool) >= SpoolCapacity
    <3>1. spool' = Append(Tail(spool), entry)
      BY <2>1, <2>2 DEF Push
    <3>2. Tail(spool) \in Seq(Entries)
      BY <1>1, <1>2, TailSet
    <3>3. InLine(Tail(spool), R \cup InEntry(entry), api, taken)
      BY <1>1, <1>2, InLineTail
    <3>4. InLine(Append(Tail(spool), entry), R, api, taken)
      BY <3>2, <3>3, InLineAppend
    <3> QED
      BY <2>1, <3>1, <3>4
  <2>3. CASE ~(Len(spool) >= SpoolCapacity)
    <3>1. spool' = Append(spool, entry)
      BY <2>1, <2>3 DEF Push
    <3>2. InLine(Append(spool, entry), R, api, taken)
      BY <1>1, InLineAppend
    <3> QED
      BY <2>1, <3>1, <3>2
  <2> QED
    BY <2>2, <2>3
<1>3. CASE spool = <<>>
  <2>1. PICK fate : /\ Request(entry, fate)
                    /\ IF Posted(fate) THEN UNCHANGED <<spool, counted>> ELSE Push(entry)
    BY <1>3 DEF PostOrSpool
  <2> DEFINE u == Append(spool, entry)
  <2>2. /\ u \in Seq(Entries) /\ u # <<>> /\ u[1] = entry /\ Len(u) = 1 /\ Len(spool) = 0
    <3>1. Len(spool) = 0
      BY <1>3, EmptySeq
    <3>2. /\ u \in Seq(Entries) /\ u # <<>> /\ Len(u) = Len(spool) + 1
          /\ u[Len(spool) + 1] = entry
      BY <1>1, AppendProperties
    <3> HIDE DEF u
    <3> QED
      BY <3>1, <3>2
  <2>3. InLine(u, R, api, taken)
    BY <1>1, InLineAppend
  <2> HIDE DEF u
  <2>4. InLine(u, R, Effect(entry), taken \cup InEntry(entry))
    BY <2>2, <2>3, InLineEffect
  <2>5. InLine(u, R, api', taken')
    BY <2>1, <2>3, <2>4 DEF Request
  <2>6. CASE Posted(fate)
    <3>1. spool' = spool
      BY <2>1, <2>6
    <3>2. Tail(u) \in Seq(Entries) /\ Len(Tail(u)) = 0
      BY <2>2, TailSet
    <3>3. Tail(u) = <<>>
      BY <3>2, EmptySeq
    <3>4. InLine(Tail(u), R, api', taken')
      BY <2>2, <2>5, InLineTail
    <3> QED
      BY <1>3, <3>1, <3>3, <3>4
  <2>7. CASE ~Posted(fate)
    <3>1. Push(entry) /\ ~(Len(spool) >= SpoolCapacity)
      BY <1>1, <2>1, <2>2, <2>7
    <3>2. spool' = u
      BY <3>1 DEF Push, u
    <3> QED
      BY <2>5, <3>2
  <2> QED
    BY <2>6, <2>7
<1> QED
  BY <1>2, <1>3

LEMMA DrainInLine ==
    ASSUME RingHoldsBatch, Types, Drain, NEW R, InLine(spool, R, api, taken)
    PROVE  InLine(spool', R, api', taken')
<1>1. PICK fate : /\ Request(Head(spool), fate)
                  /\ spool' = IF Posted(fate) THEN Tail(spool) ELSE spool
  BY DEF Drain
<1>2. spool \in Seq(Entries) /\ spool # <<>>
  BY DEF Drain, Types, SpoolTypes
<1>3. Head(spool) = spool[1]
  BY <1>2, TailSet
<1>4. InLine(spool, R, Effect(spool[1]), taken \cup InEntry(spool[1]))
  BY <1>2, InLineEffect
<1>5. InLine(spool, R, api', taken')
  BY <1>1, <1>3, <1>4 DEF Request
<1>6. InLine(Tail(spool), R, api', taken')
  BY <1>2, <1>5, InLineTail
<1> QED
  BY <1>1, <1>5, <1>6

\* The events that are yet to be announced.
Future == {m \in Events : m.seq >= daemon.seq}
Ahead == ToSet(chan) \cup Future

Sorted(s) ==
    \A i, j \in 1 .. Len(s) :
        i < j /\ s[i] \in Events /\ s[j] \in Events => s[i].seq < s[j].seq

\* The log, the spool, what the task holds, the channel and what the daemon has
\* still to say, in the order it happened.
Orderly ==
    /\ Sorted(chan) /\ InTurn(ToSet(chan), Future)
    /\ Ascending(held.events) /\ InTurn(InBatch(held), Ahead)
    /\ InLine(spool, InBatch(held) \cup Ahead, api, taken)

LEMMA OrderlyInit ==
    Init => Orderly
<1> SUFFICES ASSUME Init PROVE Orderly
  OBVIOUS
<1>1. /\ chan = <<>> /\ held = NothingHeld /\ spool = <<>> /\ api.log = {}
      /\ held.events = <<>> /\ taken = {}
  BY DEF Init, EmptyIndex, NothingHeld
<1>2. ToSet(chan) = {} /\ InBatch(held) = {} /\ Len(chan) = 0
      /\ Len(held.events) = 0 /\ Len(spool) = 0
  BY <1>1, EmptySet, NothingHeldType, EmptySeq
<1> QED
  BY <1>1, <1>2 DEF Orderly, Sorted, InTurn, Ascending, InLine, InOrderLog, Below, KeysBelow

LEMMA OrderlyOfDaemon ==
    ASSUME Types, Orderly, Daemon
    PROVE  Orderly'
<1>1. DaemonSays
  BY DaemonStep
<1>2. /\ held' = held /\ spool' = spool /\ api' = api /\ taken' = taken
  BY <1>1 DEF DaemonSays, TaskUnchanged
<1>3. /\ chan \in Seq(Messages) /\ daemon.seq \in Nat /\ QueueTypes /\ HistoryTypes
      /\ DaemonTypes
  BY DEF Types, QueueTypes, DaemonTypes, Daemons
<1>4. daemon'.seq \in Nat
  BY <1>1 DEF DaemonSays, DaemonTypes, Daemons
<1>5. ASSUME \A m \in Future' : m \in Future,
             ToSet(chan') \in SUBSET Messages,
             \A m \in ToSet(chan') : m \in Events => m \in Ahead,
             Sorted(chan'), InTurn(ToSet(chan'), Future')
      PROVE  Orderly'
  <2>1. \A m \in Ahead' : m \in Events => m \in Ahead
    BY <1>5 DEF Ahead
  <2>2. InTurn(InBatch(held'), Ahead')
    BY <1>2, <2>1 DEF Orderly, InTurn
  <2>3. \A m \in InBatch(held') \cup Ahead' : m \in Events => m \in InBatch(held) \cup Ahead
    BY <1>2, <2>1
  <2>4. InLine(spool, InBatch(held') \cup Ahead', api, taken)
    BY <2>3, InLineFewer DEF Orderly
  <2> QED
    BY <1>2, <1>5, <2>2, <2>4 DEF Orderly
<1>6. CASE Mute
  <2>1. chan' = chan /\ Future' = Future
    BY <1>6 DEF Mute, Future
  <2>2. ToSet(chan) \in SUBSET Messages
    BY <1>3, InSet
  <2> QED
    BY <1>5, <2>1, <2>2 DEF Orderly, Ahead
<1>7. ASSUME NEW m \in Messages, NEW left, Send(m, left), Speaks(m)
      PROVE  Orderly'
  <2>1. chan' = chan \/ chan' = Append(chan, m)
    BY <1>3, <1>7, SendFacts
  <2>2. daemon'.seq = daemon.seq \/ daemon'.seq = daemon.seq + 1
    BY <1>7 DEF Speaks
  <2>3. \A x \in Events : x.seq \in Nat
    BY DEF Events
  <2>4. \A x \in Future' : x \in Future
    BY <1>3, <2>2, <2>3 DEF Future
  <2>5. m \in Events => /\ m \in Future
                        /\ \A x \in Future' : m.seq < x.seq
    <3> SUFFICES ASSUME m \in Events
                 PROVE  m \in Future /\ \A x \in Future' : m.seq < x.seq
      OBVIOUS
    <3>1. m.seq = daemon.seq /\ daemon'.seq = daemon.seq + 1
      BY <1>7, KindsDiffer DEF Speaks
    <3> QED
      BY <1>3, <2>3, <3>1 DEF Future
  <2>6. /\ Sorted(chan) /\ InTurn(ToSet(chan), Future) /\ ToSet(chan) \in SUBSET Messages
    BY <1>3, InSet DEF Orderly
  <2>7. InTurn(ToSet(chan), Future')
    BY <2>4, <2>6 DEF InTurn
  <2>8. CASE chan' = chan
    BY <1>5, <2>4, <2>6, <2>7, <2>8 DEF Ahead
  <2>9. CASE chan' = Append(chan, m)
    <3>1. ToSet(chan') = ToSet(chan) \cup {m}
      BY <1>3, <2>9, AppendSet
    <3>2. InTurn(ToSet(chan'), Future')
      BY <2>5, <2>7, <3>1 DEF InTurn
    <3>3. /\ Len(chan') = Len(chan) + 1 /\ Len(chan) \in Nat /\ chan'[Len(chan) + 1] = m
          /\ \A i \in 1 .. Len(chan) : chan'[i] = chan[i] /\ chan[i] \in ToSet(chan)
      BY <1>3, <2>9, AppendProperties, LenProperties, InSet
    <3>4. Sorted(chan')
      <4> SUFFICES ASSUME NEW i \in 1 .. Len(chan'), NEW j \in 1 .. Len(chan'), i < j,
                          chan'[i] \in Events, chan'[j] \in Events
                   PROVE  chan'[i].seq < chan'[j].seq
        BY DEF Sorted
      <4>1. i \in 1 .. Len(chan)
        BY <3>3
      <4>2. CASE j \in 1 .. Len(chan)
        BY <2>6, <3>3, <4>1, <4>2 DEF Sorted
      <4>3. CASE j = Len(chan) + 1
        <5>1. m \in Future /\ chan'[j] = m /\ chan'[i] \in ToSet(chan)
          BY <2>5, <3>3, <4>1, <4>3
        <5> QED
          BY <2>6, <5>1 DEF InTurn
      <4> QED
        BY <3>3, <4>2, <4>3
    <3>5. \A x \in ToSet(chan') : x \in Events => x \in Ahead
      BY <2>5, <3>1 DEF Ahead
    <3> QED
      BY <1>5, <2>4, <2>6, <3>1, <3>2, <3>4, <3>5
  <2> QED
    BY <2>1, <2>8, <2>9
<1> QED
  BY <1>1, <1>6, <1>7 DEF DaemonSays

\* The channel loses its head, which keeps it in order.
LEMMA ReceivedInOrder ==
    ASSUME Types, Orderly, chan # <<>>, Received, daemon' = daemon
    PROVE  /\ Head(chan) \in Messages /\ Sorted(chan') /\ Future' = Future
           /\ InTurn(ToSet(chan'), Future') /\ InTurn({Head(chan)}, Ahead')
           /\ Ahead' \in SUBSET Ahead /\ Head(chan) \in Ahead
           /\ \A m \in Ahead : m = Head(chan) \/ m \in Ahead'
<1>1. chan \in Seq(Messages) /\ Sorted(chan) /\ InTurn(ToSet(chan), Future)
  BY DEF Types, QueueTypes, Orderly
<1>2. chan' = Tail(chan) /\ Future' = Future
  BY DEF Received, Future
<1>3. /\ Head(chan) \in Messages /\ chan' \in Seq(Messages) /\ Len(chan') = Len(chan) - 1
      /\ ToSet(chan) = {Head(chan)} \cup ToSet(chan')
      /\ Head(chan) = chan[1] /\ Len(chan) \in Nat \ {0}
      /\ \A i \in 1 .. Len(chan') : chan'[i] = chan[i + 1]
  BY <1>1, <1>2, TailSet
<1>4. Sorted(chan')
  <2> SUFFICES ASSUME NEW i \in 1 .. Len(chan'), NEW j \in 1 .. Len(chan'), i < j,
                      chan'[i] \in Events, chan'[j] \in Events
               PROVE  chan'[i].seq < chan'[j].seq
    BY DEF Sorted
  <2>1. i + 1 \in 1 .. Len(chan) /\ j + 1 \in 1 .. Len(chan) /\ i + 1 < j + 1
    BY <1>3
  <2>2. chan'[i] = chan[i + 1] /\ chan'[j] = chan[j + 1]
    BY <1>3
  <2> QED
    BY <1>1, <2>1, <2>2 DEF Sorted
<1>5. InTurn({Head(chan)}, ToSet(chan'))
  <2> SUFFICES ASSUME NEW b \in ToSet(chan'), Head(chan) \in Events, b \in Events
               PROVE  Head(chan).seq < b.seq
    BY DEF InTurn
  <2>1. PICK i \in 1 .. Len(chan') : b = chan'[i]
    BY <1>3, InSet
  <2>2. i + 1 \in 1 .. Len(chan) /\ 1 \in 1 .. Len(chan) /\ 1 < i + 1
    BY <1>3
  <2>3. b = chan[i + 1]
    BY <1>3, <2>1
  <2> QED
    BY <1>1, <1>3, <2>2, <2>3 DEF Sorted
<1>6. InTurn(ToSet(chan'), Future') /\ InTurn({Head(chan)}, Ahead')
  BY <1>1, <1>2, <1>3, <1>5 DEF InTurn, Ahead
<1> QED
  BY <1>2, <1>3, <1>4, <1>6 DEF Ahead

LEMMA OrderlyReceiveEvent ==
    ASSUME Types, Orderly, ReceiveEvent
    PROVE  Orderly'
<1> DEFINE m == Head(chan)
<1>1. /\ chan # <<>> /\ Received /\ daemon' = daemon /\ spool' = spool /\ api' = api
      /\ held' = [held EXCEPT !.events = Append(@, m)] /\ taken' = taken
      /\ m.kind \notin {"status", "proof", "flush"}
  BY DEF ReceiveEvent
<1>2. /\ m \in Messages /\ Sorted(chan') /\ Future' = Future
      /\ InTurn(ToSet(chan'), Future') /\ InTurn({m}, Ahead')
      /\ Ahead' \in SUBSET Ahead /\ m \in Ahead
  BY <1>1, ReceivedInOrder
<1>3. m \in Events /\ held \in Batches /\ held.events \in Seq(Events)
  BY <1>1, <1>2 DEF Messages, Manifests, Uploads, Flushes, Types, QueueTypes, Batches
<1>4. /\ held' \in Batches /\ held'.events = Append(held.events, m)
      /\ held'.status = held.status
  BY <1>1, <1>3, AppendProperties DEF Batches
<1> HIDE DEF m
<1>5. /\ ToSet(held'.events) = ToSet(held.events) \cup {m}
      /\ Len(held'.events) = Len(held.events) + 1 /\ Len(held.events) \in Nat
      /\ held'.events[Len(held.events) + 1] = m
      /\ \A i \in 1 .. Len(held.events) :
            held'.events[i] = held.events[i] /\ held.events[i] \in ToSet(held.events)
            /\ held.events[i] \in Events
  BY <1>3, <1>4, AppendSet, AppendProperties, LenProperties, InSet, ElementOfSeq
<1>6. InBatch(held') = InBatch(held) \cup {m} /\ ToSet(held.events) \in SUBSET InBatch(held)
  BY <1>4, <1>5 DEF InBatch
<1>7. Ascending(held.events) /\ InTurn(InBatch(held), Ahead)
      /\ InLine(spool, InBatch(held) \cup Ahead, api, taken)
  BY DEF Orderly
<1>8. Ascending(held'.events)
  <2> SUFFICES ASSUME NEW i \in 1 .. Len(held'.events), NEW j \in 1 .. Len(held'.events),
                      i < j
               PROVE  held'.events[i].seq < held'.events[j].seq
    BY DEF Ascending
  <2>1. i \in 1 .. Len(held.events)
    BY <1>5
  <2>2. CASE j \in 1 .. Len(held.events)
    BY <1>5, <1>7, <2>1, <2>2 DEF Ascending
  <2>3. CASE j = Len(held.events) + 1
    <3>1. held'.events[i] \in InBatch(held) /\ held'.events[i] \in Events
          /\ held'.events[j] = m
      BY <1>5, <1>6, <2>1, <2>3
    <3> QED
      BY <1>2, <1>3, <1>7, <3>1 DEF InTurn
  <2> QED
    BY <1>5, <2>2, <2>3
<1>9. InTurn(InBatch(held'), Ahead')
  BY <1>2, <1>6, <1>7 DEF InTurn
<1>10. \A x \in InBatch(held') \cup Ahead' : x \in Events => x \in InBatch(held) \cup Ahead
  BY <1>2, <1>6
<1>11. InLine(spool, InBatch(held') \cup Ahead', api, taken)
  BY <1>7, <1>10, InLineFewer
<1> QED
  BY <1>1, <1>2, <1>8, <1>9, <1>11 DEF Orderly

\* What the task holds and the channel have no event they did not have.
LEMMA OrderlyFewer ==
    ASSUME Types, Orderly, Sorted(chan'), InTurn(ToSet(chan'), Future'),
           Ascending(held'.events),
           \A m \in InBatch(held') : m \in Events => m \in InBatch(held),
           Ahead' \in SUBSET Ahead,
           InLine(spool, InBatch(held) \cup Ahead, api, taken)
              => InLine(spool', InBatch(held) \cup Ahead, api', taken')
    PROVE  Orderly'
<1>1. InTurn(InBatch(held'), Ahead')
  BY DEF Orderly, InTurn
<1>2. InLine(spool', InBatch(held) \cup Ahead, api', taken')
  BY DEF Orderly
<1>3. \A m \in InBatch(held') \cup Ahead' : m \in Events => m \in InBatch(held) \cup Ahead
  OBVIOUS
<1>4. InLine(spool', InBatch(held') \cup Ahead', api', taken')
  BY <1>2, <1>3, InLineFewer
<1> QED
  BY <1>1, <1>4 DEF Orderly

LEMMA OrderlyReceives ==
    ASSUME RingHoldsBatch, Types, Orderly, ReceiveStatus \/ ReceiveProof \/ ReceiveFlush
    PROVE  Orderly'
<1> DEFINE m == Head(chan)
<1>1. chan # <<>> /\ Received /\ daemon' = daemon
  BY DEF ReceiveStatus, ReceiveProof, ReceiveFlush
<1>2. /\ m \in Messages /\ Sorted(chan') /\ Future' = Future
      /\ InTurn(ToSet(chan'), Future') /\ Ahead' \in SUBSET Ahead
  BY <1>1, ReceivedInOrder
<1>3. /\ Ascending(held.events) /\ InTurn(InBatch(held), Ahead)
      /\ InLine(spool, InBatch(held) \cup Ahead, api, taken) /\ held \in Batches
  BY DEF Orderly, Types, QueueTypes
<1>4. CASE ReceiveStatus
  <2>1. held' = [held EXCEPT !.status = m] /\ spool' = spool /\ api' = api
        /\ m.kind = "status" /\ taken' = taken
    BY <1>4 DEF ReceiveStatus
  <2>2. m \notin Events /\ held'.events = held.events /\ held'.status = m
    BY <1>3, <2>1 DEF Events, EventKinds, Batches
  <2>3. \A x \in InBatch(held') : x \in Events => x \in InBatch(held)
    BY <2>2 DEF InBatch
  <2> QED
    BY <1>2, <1>3, <2>1, <2>2, <2>3, OrderlyFewer
<1>5. CASE ReceiveFlush
  <2>1. held' = held /\ spool' = spool /\ api' = api /\ taken' = taken
    BY <1>5 DEF ReceiveFlush
  <2> QED
    BY <1>2, <1>3, <2>1, OrderlyFewer
<1>6. CASE ReceiveProof
  <2>1. held' = held /\ m.kind = "proof" /\ PostOrSpool(Proof(m))
    BY <1>6 DEF ReceiveProof
  <2>2. m \in Uploads
    BY <1>2, <2>1 DEF Messages, Events, EventKinds, Manifests, Flushes
  <2> DEFINE entry == Proof(m)
             R == InBatch(held) \cup Ahead
  <2>3. entry \in Entries /\ entry.type = "proof" /\ InEntry(entry) = {m}
    BY <2>2 DEF Proof, Entries, InEntry
  <2>4. m \notin Events
    BY <2>2, KindsDiffer
  <2>5. InTurn(InEntry(entry), R) /\ BatchInOrder(entry)
    BY <2>3, <2>4 DEF InTurn, BatchInOrder
  <2> HIDE DEF m, R
  <2>6. InLine(spool, R \cup InEntry(entry), api, taken)
    <3>1. \A x \in R \cup InEntry(entry) : x \in Events => x \in R
      BY <2>3, <2>4
    <3>2. InLine(spool, R, api, taken)
      BY <1>3 DEF R
    <3> HIDE DEF entry
    <3> QED
      BY <3>1, <3>2, InLineFewer
  <2>7. PostOrSpool(entry)
    BY <2>1
  <2> HIDE DEF entry
  <2>8. InLine(spool', R, api', taken')
    BY <2>3, <2>5, <2>6, <2>7, PostInLine
  <2> QED
    BY <1>2, <1>3, <2>1, <2>8, OrderlyFewer DEF R
<1> QED
  BY <1>4, <1>5, <1>6

LEMMA OrderlyFlush ==
    ASSUME RingHoldsBatch, Types, Orderly, Flush
    PROVE  Orderly'
<1> DEFINE entry == Batch(held)
<1>1. PostOrSpool(entry) /\ held' = NothingHeld /\ daemon' = daemon /\ chan' = chan
  BY DEF Flush
<1>2. /\ Sorted(chan) /\ InTurn(ToSet(chan), Future)
      /\ Ascending(held.events) /\ InTurn(InBatch(held), Ahead)
      /\ InLine(spool, InBatch(held) \cup Ahead, api, taken)
      /\ held \in Batches /\ Len(held.events) <= MaxBatch
  BY DEF Orderly, Types, QueueTypes
<1>3. /\ entry \in Entries /\ InEntry(entry) = InBatch(held) /\ entry.type = "batch"
      /\ entry.batch = held
  BY <1>2 DEF Batch, Entries, InEntry
<1> HIDE DEF entry
<1>4. BatchInOrder(entry) /\ InTurn(InEntry(entry), Ahead)
      /\ InLine(spool, Ahead \cup InEntry(entry), api, taken)
  <2>1. InBatch(held) \cup Ahead = Ahead \cup InEntry(entry)
    BY <1>3
  <2> QED
    BY <1>2, <1>3, <2>1 DEF BatchInOrder
<1>5. InLine(spool', Ahead, api', taken')
  BY <1>1, <1>3, <1>4, PostInLine
<1>6. Ahead' = Ahead /\ Future' = Future
  BY <1>1 DEF Ahead, Future
<1>7. InBatch(held') = {} /\ Len(held'.events) = 0
  BY <1>1, NothingHeldType
<1>8. InBatch(held') \cup Ahead' = Ahead /\ InTurn(InBatch(held'), Ahead')
      /\ Ascending(held'.events)
  BY <1>6, <1>7 DEF InTurn, Ascending
<1> QED
  BY <1>1, <1>2, <1>5, <1>6, <1>8 DEF Orderly

LEMMA OrderlyOfOthers ==
    ASSUME RingHoldsBatch, Types, Orderly, Next, ~Daemon
    PROVE  Orderly'
<1>1. /\ Sorted(chan) /\ InTurn(ToSet(chan), Future) /\ Ascending(held.events)
  BY DEF Orderly
<1>2. CASE Drain
  <2>1. daemon' = daemon /\ chan' = chan /\ held' = held
    BY <1>2 DEF Drain
  <2>2. Ahead' = Ahead /\ Future' = Future
    BY <2>1 DEF Ahead, Future
  <2> QED
    BY <1>1, <1>2, <2>1, <2>2, DrainInLine, OrderlyFewer
<1>3. CASE Exit \/ Start \/ Connect \/ Deliver \/ Drop
  <2>1. daemon \in Daemons
    BY DEF Types, DaemonTypes
  <2>2. daemon'.seq = daemon.seq /\ chan' = chan /\ held' = held /\ spool' = spool
        /\ api' = api /\ taken' = taken
    BY <1>3, <2>1 DEF Exit, Start, Connect, Deliver, Drop, ViewerUnchanged, Daemons
  <2>3. Ahead' = Ahead /\ Future' = Future
    BY <2>2 DEF Ahead, Future
  <2> QED
    BY <1>1, <2>2, <2>3, OrderlyFewer
<1>4. CASE Crash
  <2>1. daemon \in Daemons
    BY DEF Types, DaemonTypes
  <2>2. daemon'.seq = daemon.seq /\ chan' = <<>> /\ held' = NothingHeld
        /\ spool' = spool /\ api' = api /\ taken' = taken
    BY <1>4, <2>1 DEF Crash, Daemons
  <2>3. /\ Future' = Future /\ ToSet(chan') = {} /\ Len(chan') = 0
        /\ InBatch(held') = {} /\ Len(held'.events) = 0
    BY <2>2, NothingHeldType, EmptySet, EmptySeq DEF Future
  <2>4. Ahead' \in SUBSET Ahead
    BY <2>3 DEF Ahead
  <2>5. Sorted(chan') /\ InTurn(ToSet(chan'), Future') /\ Ascending(held'.events)
    BY <2>3 DEF Sorted, InTurn, Ascending
  <2> QED
    BY <2>2, <2>3, <2>4, <2>5, OrderlyFewer
<1>5. CASE ReapByHand
  <2>1. /\ daemon' = daemon /\ chan' = chan /\ held' = held /\ spool' = spool
        /\ api' = ReapOnDemand(api) /\ taken' = taken
    BY <1>5 DEF ReapByHand
  <2>2. Ahead' = Ahead /\ Future' = Future /\ spool \in Seq(Entries)
    BY <2>1 DEF Ahead, Future, Types, SpoolTypes
  <2> QED
    BY <1>1, <2>1, <2>2, InLineSwept, OrderlyFewer
<1> QED
  BY <1>2, <1>3, <1>4, <1>5, OrderlyReceiveEvent, OrderlyReceives, OrderlyFlush
  DEF Next, Task

-----------------------------------------------------------------------------
(* The mirror.  The daemon's last word on an epoch is its latest event that  *)
(* decides one, and the row follows the latest of those the API recorded.    *)

Latest(S, e, m) ==
    /\ m \in S /\ m \in Events /\ Decides(m, e)
    /\ \A x \in S : x \in Events /\ Decides(x, e) => x.seq <= m.seq

\* What is said of an epoch is in an event that was announced, and no later one
\* says anything else.
LastWord ==
    /\ \A e \in Epochs :
          said[e] # "nothing" => \E m : Latest(Accounted, e, m) /\ Verdict(m) = said[e]
    /\ \A m \in Accounted : m \in Events => m.seq < daemon.seq
    /\ daemon.phase = "close" => said[daemon.epoch] = EpochStatus(daemon.proof)

\* The row says what the event said, or its bytes came late.
Agrees(index, e, verdict) ==
    \/ index.row[e].status = verdict
    \/ /\ verdict = "unproven" /\ index.stored[e] # "none"
       /\ index.row[e].status = "proven"

Follows(index, T) ==
    \A e \in Epochs : \A m : Latest(T, e, m) => Agrees(index, e, Verdict(m))

LEMMA SendAccounts ==
    ASSUME Types, TaskUnchanged, NEW m \in Messages, NEW left, Send(m, left)
    PROVE  Accounted' = Accounted \cup {m}
<1>1. ToSet(chan') \cup counted' = ToSet(chan) \cup counted \cup {m}
  BY SendFacts DEF Types
<1>2. Spooled' = Spooled /\ taken' = taken /\ held' = held /\ excused' = excused
  BY DEF TaskUnchanged, Spooled
<1>3. /\ Accounted = taken \cup (ToSet(chan) \cup InBatch(held) \cup Spooled)
                       \cup counted \cup excused
      /\ Accounted' = taken' \cup (ToSet(chan') \cup InBatch(held') \cup Spooled')
                       \cup counted' \cup excused'
  BY DEF Accounted, Unsent
<1> QED
  BY <1>1, <1>2, <1>3

LEMMA EventAccounts ==
    ASSUME Types, TaskUnchanged, NEW kind \in EventKinds, NEW e \in Epochs,
           NEW bytes \in BOOLEAN, NEW next, NEW left,
           SendEvent(kind, e, bytes, next, left)
    PROVE  \E m \in Events :
              /\ m.kind = kind /\ m.epoch = e /\ m.bytes = bytes /\ m.seq = daemon.seq
              /\ Accounted' = Accounted \cup {m}
<1> DEFINE m == Event(kind, e, bytes)
<1>1. daemon.seq \in Nat \ {0}
  BY DEF Types, DaemonTypes, Daemons
<1>2. m \in Events /\ m.kind = kind /\ m.epoch = e /\ m.bytes = bytes /\ m.seq = daemon.seq
  BY <1>1 DEF Event, Events
<1>3. Send(m, left)
  BY DEF SendEvent
<1> HIDE DEF m
<1>4. Accounted' = Accounted \cup {m}
  BY <1>2, <1>3, SendAccounts DEF Messages
<1> QED
  BY <1>2, <1>4

LEMMA SilentEvent ==
    ASSUME Types, TaskUnchanged, NEW kind \in EventKinds, NEW e \in Epochs,
           NEW next, NEW left, SendEvent(kind, e, FALSE, next, left)
    PROVE  \E m \in Events :
              /\ m.kind = kind /\ m.epoch = e /\ m.seq = daemon.seq
              /\ Accounted' = Accounted \cup {m}
<1>1. FALSE \in BOOLEAN
  OBVIOUS
<1>2. \E m \in Events :
         /\ m.kind = kind /\ m.epoch = e /\ m.bytes = FALSE /\ m.seq = daemon.seq
         /\ Accounted' = Accounted \cup {m}
  BY <1>1, EventAccounts, Zenon
<1> QED
  BY <1>2

\* What a step of the daemon adds: a word on the epoch it is at, or no word.
SaysNothingOf ==
    /\ said' = said
    /\ \A x \in Accounted' : x \in Accounted \/ x \notin Events \/ x.kind \in {"stage", "opened"}

SaysOf(m) ==
    /\ m \in Events /\ m \in Accounted' /\ daemon.epoch \in Epochs
    /\ m.seq = daemon.seq /\ Decides(m, daemon.epoch)
    /\ said' = [said EXCEPT ![daemon.epoch] = Verdict(m)]
    /\ \A x \in Accounted' : x \in Accounted \/ x = m

LEMMA WordOfDaemon ==
    ASSUME Types, LastWord, Daemon
    PROVE  /\ SaysNothingOf \/ \E m : SaysOf(m)
           /\ daemon'.phase = "close" =>
                 said'[daemon'.epoch] = EpochStatus(daemon'.proof)
<1>1. /\ daemon \in Daemons /\ daemon.proof \in BOOLEAN
      /\ daemon.phase \notin {"done", "stopped"} => daemon.epoch \in Epochs
      /\ daemon.epoch \in Nat
      /\ said \in [Epochs -> Statuses \cup {"nothing"}]
  BY DEF Types, DaemonTypes, Daemons, HistoryTypes
<1>2. TaskUnchanged
  BY DaemonStep DEF DaemonSays
<1>3. CASE AdvanceEpoch \/ OpenEpoch \/ Speculate
  <2>1. PICK kind \in {"stage", "opened"}, e \in Epochs :
           \E next, left : SendEvent(kind, e, FALSE, next, left)
    <3>1. CASE AdvanceEpoch
      <4>1. daemon.epoch + 1 \in Epochs
        BY <3>1, NextEpoch DEF AdvanceEpoch, Types, DaemonTypes
      <4> QED
        BY <1>1, <3>1, <4>1 DEF AdvanceEpoch, SendEvent, Daemons
    <3>2. CASE OpenEpoch
      BY <1>1, <3>2 DEF OpenEpoch, SendEvent, Daemons
    <3>3. CASE Speculate
      <4>1. daemon.epoch + 1 \in Epochs
        BY <1>1, <3>3, NextEpoch DEF Speculate, Types, DaemonTypes
      <4> QED
        BY <1>1, <3>3, <4>1 DEF Speculate, SendEvent, Daemons
    <3> QED
      BY <1>3, <3>1, <3>2, <3>3
  <2>2. kind \in EventKinds
    BY DEF EventKinds
  <2>3. PICK m \in Events : m.kind = kind /\ Accounted' = Accounted \cup {m}
    BY <1>2, <2>1, <2>2, SilentEvent
  <2>4. said' = said
    BY <1>3 DEF AdvanceEpoch, OpenEpoch, Speculate
  <2>5. daemon'.phase # "close"
    <3>1. CASE AdvanceEpoch
      BY <1>1, <3>1 DEF AdvanceEpoch, SendEvent, Daemons
    <3>2. CASE OpenEpoch
      BY <1>1, <3>2 DEF OpenEpoch, SendEvent, Daemons
    <3>3. CASE Speculate
      BY <1>1, <3>3 DEF Speculate, SendEvent, Daemons
    <3> QED
      BY <1>3, <3>1, <3>2, <3>3
  <2> QED
    BY <2>3, <2>4, <2>5 DEF SaysNothingOf
<1>4. CASE ProofLanded
  <2>1. /\ daemon.epoch \in Epochs /\ \E next, left :
              SendEvent("landed", daemon.epoch, daemon.proof, next, left)
        /\ said' = [said EXCEPT ![daemon.epoch] = EpochStatus(daemon.proof)]
        /\ daemon'.epoch = daemon.epoch /\ daemon'.proof = daemon.proof
    BY <1>1, <1>4 DEF ProofLanded, SendEvent, Daemons
  <2>2. "landed" \in EventKinds
    BY DEF EventKinds
  <2>3. PICK m \in Events : /\ m.kind = "landed" /\ m.epoch = daemon.epoch
                            /\ m.bytes = daemon.proof /\ m.seq = daemon.seq
                            /\ Accounted' = Accounted \cup {m}
    BY <1>1, <1>2, <2>1, <2>2, EventAccounts
  <2>4. Decides(m, daemon.epoch) /\ Verdict(m) = EpochStatus(daemon.proof)
    BY <2>3 DEF Decides, Verdict, StatusForProof, EpochStatus
  <2> QED
    BY <1>1, <2>1, <2>3, <2>4 DEF SaysOf
<1>5. CASE EpochClosed
  <2>1. /\ daemon.epoch \in Epochs /\ \E next, left :
              SendEvent("closed", daemon.epoch, daemon.proof, next, left)
        /\ said' = said /\ daemon'.phase # "close"
        /\ said[daemon.epoch] = EpochStatus(daemon.proof)
    BY <1>1, <1>5 DEF EpochClosed, SendEvent, Daemons, LastWord
  <2>2. "closed" \in EventKinds
    BY DEF EventKinds
  <2>3. PICK m \in Events : /\ m.kind = "closed" /\ m.epoch = daemon.epoch
                            /\ m.bytes = daemon.proof /\ m.seq = daemon.seq
                            /\ Accounted' = Accounted \cup {m}
    BY <1>1, <1>2, <2>1, <2>2, EventAccounts
  <2>4. Decides(m, daemon.epoch) /\ Verdict(m) = EpochStatus(daemon.proof)
    BY <2>3 DEF Decides, Verdict, StatusForProof, EpochStatus
  <2>5. said' = [said EXCEPT ![daemon.epoch] = Verdict(m)]
    BY <1>1, <2>1, <2>4
  <2> QED
    BY <2>1, <2>3, <2>4, <2>5 DEF SaysOf
<1>6. CASE GiveUp \/ ReorgedOut
  <2>1. /\ daemon.epoch \in Epochs /\ \E next, left :
              SendEvent("abandoned", daemon.epoch, FALSE, next, left)
        /\ said' = [said EXCEPT ![daemon.epoch] = "abandoned"]
        /\ daemon'.phase # "close"
    BY <1>1, <1>6 DEF GiveUp, ReorgedOut, EpochAbandoned, SendEvent, Daemons
  <2>2. "abandoned" \in EventKinds
    BY DEF EventKinds
  <2>3. PICK m \in Events : /\ m.kind = "abandoned" /\ m.epoch = daemon.epoch
                            /\ m.seq = daemon.seq /\ Accounted' = Accounted \cup {m}
    BY <1>2, <2>1, <2>2, SilentEvent
  <2>4. Decides(m, daemon.epoch) /\ Verdict(m) = "abandoned"
    BY <2>3 DEF Decides, Verdict
  <2> QED
    BY <2>1, <2>3, <2>4 DEF SaysOf
<1>7. CASE ProofBytes \/ SaveStore \/ PublishStatus \/ Stop
  <2>1. said' = said /\ (daemon'.phase = "close" => FALSE)
    BY <1>1, <1>7 DEF ProofBytes, SaveStore, PublishStatus, Stop, Daemons
  <2>2. \/ chan' = chan /\ counted' = counted
        \/ \E m \in Messages : \E left : Send(m, left) /\ m \notin Events
    <3>1. CASE ProofBytes
      <4> DEFINE m == [kind |-> "proof", epoch |-> daemon.epoch, seq |-> daemon.seq]
      <4>1. Send(m, budget) \/ (chan' = chan /\ counted' = counted)
        BY <3>1 DEF ProofBytes
      <4>2. daemon.epoch \in Epochs /\ daemon.seq \in Nat \ {0}
        BY <1>1, <3>1 DEF ProofBytes, Daemons
      <4>3. m \in Messages /\ m \notin Events
        BY <4>2 DEF Messages, Uploads, Events, EventKinds
      <4> QED
        BY <4>1, <4>3
    <3>2. CASE SaveStore
      BY <3>2 DEF SaveStore
    <3>3. CASE PublishStatus
      <4> DEFINE m == [kind |-> "status", epoch |-> daemon.epoch, seq |-> daemon.seq]
      <4>1. Send(m, budget) /\ daemon.epoch \in Epochs /\ daemon.seq \in Nat \ {0}
        BY <1>1, <3>3 DEF PublishStatus, Daemons
      <4>2. m \in Messages /\ m \notin Events
        BY <4>1 DEF Messages, Manifests, Events, EventKinds
      <4> QED
        BY <4>1, <4>2
    <3>4. CASE Stop
      <4> DEFINE m == [kind |-> "flush", epoch |-> 0, seq |-> 0]
      <4>1. Send(m, budget)
        BY <3>4 DEF Stop, Send
      <4>2. m \in Messages /\ m \notin Events
        BY DEF Messages, Flushes, Events, EventKinds
      <4> QED
        BY <4>1, <4>2
    <3> QED
      BY <1>7, <3>1, <3>2, <3>3, <3>4
  <2>3. CASE chan' = chan /\ counted' = counted
    <3>1. Accounted' = Accounted
      BY <1>2, <2>3 DEF TaskUnchanged, Accounted, Unsent, Spooled
    <3> QED
      BY <2>1, <3>1 DEF SaysNothingOf
  <2>4. CASE \E m \in Messages : \E left : Send(m, left) /\ m \notin Events
    <3>1. PICK m \in Messages : m \notin Events /\ Accounted' = Accounted \cup {m}
      BY <1>2, <2>4, SendAccounts
    <3> QED
      BY <2>1, <3>1 DEF SaysNothingOf
  <2> QED
    BY <2>2, <2>3, <2>4
<1> QED
  BY <1>3, <1>4, <1>5, <1>6, <1>7 DEF Daemon

LEMMA KindOfEvents ==
    \A m \in Events : m.kind \notin {"status", "flush"}
BY DEF Events, EventKinds

LEMMA LastWordHolds ==
    Spec => []LastWord
<1>1. Init => LastWord
  <2> SUFFICES ASSUME Init PROVE LastWord
    OBVIOUS
  <2>1. Accounted = {}
    BY EmptySet, NothingHeldType DEF Init, Accounted, Unsent, Spooled
  <2>2. daemon.phase = "done" /\ \A e \in Epochs : said[e] = "nothing"
    BY DEF Init
  <2> QED
    BY <2>1, <2>2 DEF LastWord
<1>2. ASSUME Types, LastWord, Daemon PROVE LastWord'
  <2>1. /\ SaysNothingOf \/ \E m : SaysOf(m)
        /\ daemon'.phase = "close" => said'[daemon'.epoch] = EpochStatus(daemon'.proof)
    BY <1>2, WordOfDaemon
  <2>2. /\ Accounted \in SUBSET Accounted'
        /\ \A x \in Accounted' : x \in Accounted \/ (x \in Messages /\ Speaks(x))
        /\ daemon'.seq \in {daemon.seq, daemon.seq + 1} /\ daemon.seq \in Nat
    BY <1>2, DaemonAccounts DEF DaemonDoes, Types, DaemonTypes, Daemons
  <2>3. \A x \in Events : x.seq \in Nat
    BY DEF Events
  <2>4. ASSUME NEW x \in Accounted', x \in Events PROVE x.seq < daemon'.seq
    <3>1. CASE x \in Accounted
      <4>1. x.seq < daemon.seq
        BY <1>2, <2>4, <3>1 DEF LastWord
      <4> QED
        BY <2>2, <2>3, <2>4, <4>1
    <3>2. CASE Speaks(x)
      <4>1. x.seq = daemon.seq /\ daemon'.seq = daemon.seq + 1
        BY <2>4, <3>2, KindsDiffer DEF Speaks
      <4> QED
        BY <2>2, <4>1
    <3> QED
      BY <2>2, <2>4, <3>1, <3>2
  <2>5. ASSUME NEW e \in Epochs, said'[e] # "nothing"
        PROVE  \E m : Latest(Accounted', e, m) /\ Verdict(m) = said'[e]
    <3>1. ASSUME said'[e] = said[e],
                 \A x \in Accounted' : x \in Accounted \/ x \notin Events \/ ~Decides(x, e)
          PROVE  \E m : Latest(Accounted', e, m) /\ Verdict(m) = said'[e]
      <4>1. PICK m : Latest(Accounted, e, m) /\ Verdict(m) = said[e]
        BY <1>2, <2>5, <3>1 DEF LastWord
      <4>2. Latest(Accounted', e, m)
        BY <2>2, <3>1, <4>1 DEF Latest
      <4> QED
        BY <3>1, <4>1, <4>2
    <3>2. CASE SaysNothingOf
      BY <3>1, <3>2 DEF SaysNothingOf, Decides
    <3>3. ASSUME NEW m, SaysOf(m)
          PROVE  \E y : Latest(Accounted', e, y) /\ Verdict(y) = said'[e]
      <4>1. said \in [Epochs -> Statuses \cup {"nothing"}]
        BY <1>2 DEF Types, HistoryTypes
      <4>2. CASE e = daemon.epoch
        <5>1. \A x \in Accounted' : x \in Events => x.seq <= m.seq
          <6>1. \A x \in Accounted : x \in Events => x.seq < daemon.seq
            BY <1>2 DEF LastWord
          <6> QED
            BY <2>2, <2>3, <3>3, <6>1 DEF SaysOf
        <5>2. Latest(Accounted', e, m) /\ Verdict(m) = said'[e]
          BY <3>3, <4>1, <4>2, <5>1 DEF SaysOf, Latest
        <5> QED
          BY <5>2
      <4>3. CASE e # daemon.epoch
        <5>1. said'[e] = said[e] /\ ~Decides(m, e)
          BY <3>3, <4>1, <4>3 DEF SaysOf, Decides
        <5>2. \A x \in Accounted' : x \in Accounted \/ x \notin Events \/ ~Decides(x, e)
          BY <3>3, <5>1 DEF SaysOf
        <5> QED
          BY <3>1, <5>1, <5>2
      <4> QED
        BY <4>2, <4>3
    <3> QED
      BY <2>1, <3>2, <3>3
  <2> QED
    BY <2>1, <2>4, <2>5 DEF LastWord
<1>3. ASSUME Types, LastWord, Next, ~Daemon PROVE LastWord'
  <2>1. /\ daemon'.seq = daemon.seq /\ said' = said
        /\ \A m \in Accounted : m \in Events => m \in Accounted'
        /\ Accounted' \in SUBSET Accounted
    BY <1>3, OtherStep, KindOfEvents DEF TaskDoes
  <2>2. \A e, m : Latest(Accounted, e, m) => Latest(Accounted', e, m)
    BY <2>1 DEF Latest
  <2>3. daemon'.phase = "close" =>
           daemon.phase = "close" /\ daemon'.epoch = daemon.epoch /\ daemon'.proof = daemon.proof
    <3>1. daemon \in Daemons
      BY <1>3 DEF Types, DaemonTypes
    <3>2. CASE Exit \/ Crash \/ Start
      BY <3>1, <3>2 DEF Exit, Crash, Start, Daemons
    <3>3. CASE ~(Exit \/ Crash \/ Start)
      BY <1>3, <3>3 DEF Next, Task, ReceiveEvent, ReceiveStatus, ReceiveProof,
         ReceiveFlush, Flush, Drain, ReapByHand, Connect, Deliver, Drop, ViewerUnchanged
    <3> QED
      BY <3>2, <3>3
  <2> QED
    BY <1>3, <2>1, <2>2, <2>3 DEF LastWord
<1>4. Types /\ LastWord /\ [Next]_vars => LastWord'
  <2> SUFFICES ASSUME Types, LastWord, [Next]_vars PROVE LastWord'
    OBVIOUS
  <2>1. CASE UNCHANGED vars
    <3>1. Accounted' = Accounted /\ daemon' = daemon /\ said' = said
      BY <2>1 DEF vars, Accounted, Unsent, Spooled
    <3> QED
      BY <3>1 DEF LastWord, Latest
  <2> QED
    BY <2>1, <1>2, <1>3
<1> QED
  BY <1>1, <1>4, TypesHold, PTL DEF Spec

-----------------------------------------------------------------------------
(* The row of an epoch follows the events recorded.                        *)

Verdicts == {"proven", "unproven", "abandoned"}

\* What agreed with an event still does after anything but a later event.
LEMMA AgreesStays ==
    ASSUME NEW before, NEW after, NEW e \in Epochs, NEW verdict \in Verdicts,
           Agrees(before, e, verdict),
           before.stored[e] # "none" => after.stored[e] # "none",
           \/ after.row[e].status = before.row[e].status
           \/ before.row[e].status \in {NoRow, "proving"}
           \/ /\ before.row[e].status = "unproven" /\ after.row[e].status = "proven"
              /\ after.stored[e] # "none"
    PROVE  Agrees(after, e, verdict)
BY DEF Agrees, Verdicts, NoRow

LEMMA VerdictType ==
    \A m : Verdict(m) \in Verdicts
BY DEF Verdict, StatusForProof, Verdicts

\* An entry taken in turn, or again.
LEMMA FollowsEffect ==
    ASSUME Types, NEW entry \in Entries, Follows(api, taken), InOrderLog(api.log),
           BatchInOrder(entry), HeadOK(api, taken, entry)
    PROVE  Follows(Effect(entry), taken \cup InEntry(entry))
<1> DEFINE E == InEntry(entry)
           T == taken \cup E
           after == Effect(entry)
<1>1. IndexOK(api) /\ bucket \in BOOLEAN
  BY DEF Types
<1> SUFFICES ASSUME NEW e \in Epochs, NEW m, Latest(T, e, m)
             PROVE  Agrees(after, e, Verdict(m))
  BY DEF Follows
<1>2. ASSUME \A x \in E : x \in Events => ~Decides(x, e) \/ x \in taken
      PROVE  Agrees(api, e, Verdict(m))
  <2>1. Latest(taken, e, m)
    BY <1>2 DEF Latest
  <2> QED
    BY <2>1 DEF Follows
<1>3. Verdict(m) \in Verdicts
  BY VerdictType
<1>4. CASE entry.type = "proof"
  <2>1. after = PutProof(api, bucket, entry.proof.epoch) /\ entry.proof.epoch \in Epochs
        /\ entry.proof \in Uploads /\ E = {entry.proof}
    BY <1>4 DEF Effect, Entries, Uploads, InEntry
  <2> HIDE DEF after, E
  <2>2. Agrees(api, e, Verdict(m))
    BY <1>2, <2>1, KindsDiffer
  <2>3. /\ Grows(api, after) /\ after.stored[entry.proof.epoch] # "none"
        /\ \/ after.row[e].status = api.row[e].status
           \/ /\ e = entry.proof.epoch /\ api.row[e].status = "unproven"
              /\ after.row[e].status = "proven"
           \/ e = entry.proof.epoch /\ api.row[e].status = NoRow
    BY <1>1, <2>1, PutProofFacts
  <2>4. api.stored[e] # "none" => after.stored[e] # "none"
    BY <2>3 DEF Grows
  <2> QED
    BY <1>3, <2>2, <2>3, <2>4, AgreesStays
<1>5. CASE entry.type # "proof"
  <2> DEFINE b == entry.batch
             n == Len(b.events)
             h == Heard(api, b.events)
             t == IngestStatus(h, b.status)
             r == Reap(t)
  <2>1. /\ after = Ingest(api, b) /\ b \in Batches /\ E = InBatch(b)
        /\ entry.type = "batch"
    BY <1>5 DEF Effect, Entries, InEntry
  <2> HIDE DEF after, E, b
  <2>2. /\ b.events \in Seq(Events) /\ b.status \in Manifests \cup {NoStatus}
        /\ Ascending(b.events)
    BY <2>1 DEF Batches, BatchInOrder, b
  <2>3. /\ HeardBy(api, b.events, n, h) /\ IndexOK(h) /\ IndexOK(t) /\ IndexOK(r)
        /\ Sweeps(t, r) /\ after = Trim(r)
    BY <1>1, <2>1, IngestFacts
  <2>4. t.row = h.row /\ t.stored = h.stored
    BY <2>2, <2>3, StatusFacts
  <2>5. after.row = r.row /\ after.stored = r.stored
    BY <2>3, TrimFacts
  <2>6. /\ n \in Nat
        /\ \A j \in 1 .. n : b.events[j] \in E /\ b.events[j] \in Events
        /\ \A x \in E : x \in Events => \E j \in 1 .. n : x = b.events[j]
    <3>1. \A j \in 1 .. n : b.events[j] \in ToSet(b.events) /\ b.events[j] \in Events
      BY <2>2, InSet, ElementOfSeq
    <3>2. \A x \in E : x \in Events => x \in ToSet(b.events)
      BY <2>1, BatchMessages
    <3>3. \A x \in ToSet(b.events) : \E j \in 1 .. n : x = b.events[j]
      BY <2>2, InSet
    <3>4. ToSet(b.events) \in SUBSET E
      BY <2>1 DEF InBatch
    <3> QED
      BY <2>2, <3>1, <3>2, <3>3, <3>4, LenProperties
  <2>7. Agrees(h, e, Verdict(m)) => Agrees(after, e, Verdict(m))
    <3> SUFFICES ASSUME Agrees(h, e, Verdict(m)) PROVE Agrees(after, e, Verdict(m))
      OBVIOUS
    <3>1. Agrees(t, e, Verdict(m))
      BY <2>4 DEF Agrees
    <3>2. r.stored = t.stored /\ (r.row[e] = t.row[e] \/ t.row[e].status = "proving")
      BY <2>3 DEF Sweeps
    <3> HIDE DEF h, t, r
    <3>3. Agrees(r, e, Verdict(m))
      BY <1>3, <3>1, <3>2, AgreesStays
    <3> QED
      BY <2>5, <3>3 DEF Agrees
  <2>8. CASE /\ Repeated(api, b)
             /\ \A x \in E : x \in Events => x \in taken
    <3>1. \A j \in 1 .. n : Known(api, "daemon", b.events[j].seq)
      BY <2>8 DEF Repeated, Recent, Known
    <3>2. h = api
      BY <2>2, <3>1, HeardTwice
    <3> QED
      BY <1>2, <2>7, <2>8, <3>2
  <2>9. CASE Below(api, taken, E)
    <3>1. Precedes(api.log, b.events) /\ InTurn(taken, E)
      BY <2>6, <2>9 DEF Below, KeysBelow, Precedes
    <3>2. HeardInTurn(api, b.events, n, h)
      BY <1>1, <2>2, <3>1, HeardFresh
    <3> HIDE DEF h, t, r, n
    <3>3. CASE \A j \in 1 .. n : ~Decides(b.events[j], e)
      <4>1. Agrees(api, e, Verdict(m))
        BY <1>2, <2>6, <3>3
      <4>2. h.row[e].status = api.row[e].status \/ api.row[e].status = NoRow
        BY <3>2, <3>3 DEF HeardInTurn
      <4>3. h.stored = api.stored
        BY <2>3 DEF HeardBy
      <4>4. Agrees(h, e, Verdict(m))
        BY <1>3, <4>1, <4>2, <4>3, AgreesStays
      <4> QED
        BY <2>7, <4>4
    <3>4. ASSUME NEW j \in 1 .. n, Decides(b.events[j], e)
          PROVE  Agrees(after, e, Verdict(m))
      <4>0. \A x \in Events : x.seq \in Nat
        BY DEF Events
      <4>1. b.events[j] \in T /\ b.events[j] \in Events /\ b.events[j] \in E
        BY <2>6
      <4>2. b.events[j].seq <= m.seq /\ m \in T /\ m \in Events /\ Decides(m, e)
        BY <3>4, <4>1 DEF Latest
      <4>3. m \in taken => m.seq < b.events[j].seq
        BY <3>1, <4>1, <4>2 DEF InTurn
      <4>4. m \in E
        BY <4>0, <4>1, <4>2, <4>3
      <4>5. PICK k \in 1 .. n : m = b.events[k]
        BY <2>6, <4>2, <4>4
      <4>6. ASSUME NEW i \in (k + 1) .. n PROVE ~Decides(b.events[i], e)
        <5>1. i \in 1 .. n /\ k < i
          BY <2>6
        <5>2. m.seq < b.events[i].seq
          BY <2>2, <4>5, <5>1 DEF Ascending, n
        <5>3. b.events[i] \in T /\ b.events[i] \in Events
          BY <2>6, <5>1
        <5>4. Decides(b.events[i], e) => b.events[i].seq <= m.seq
          BY <5>3 DEF Latest
        <5> QED
          BY <4>0, <4>2, <5>2, <5>3, <5>4
      <4>7. h.row[e].status = Verdict(m)
        BY <3>2, <4>2, <4>5, <4>6 DEF HeardInTurn
      <4> QED
        BY <2>7, <4>7 DEF Agrees
    <3> QED
      BY <3>3, <3>4
  <2> QED
    BY <2>8, <2>9 DEF HeadOK, b, E
<1> QED
  BY <1>4, <1>5

LEMMA FollowsSwept ==
    ASSUME Types, Follows(api, taken)
    PROVE  Follows(ReapOnDemand(api), taken)
<1> DEFINE after == ReapOnDemand(api)
<1>1. Sweeps(api, after)
  BY SweepFacts DEF Types
<1> HIDE DEF after
<1>2. ASSUME NEW e \in Epochs, NEW verdict \in Verdicts, Agrees(api, e, verdict)
      PROVE  Agrees(after, e, verdict)
  <2>1. /\ after.stored = api.stored
        /\ after.row[e] = api.row[e] \/ api.row[e].status = "proving"
    BY <1>1 DEF Sweeps
  <2> QED
    BY <1>2, <2>1, AgreesStays
<1> QED
  BY <1>2, VerdictType DEF Follows, after

\* What the API does not yet have of the daemon's events comes to it in turn.
LEMMA ReachesInOrder ==
    ASSUME Types, Orderly, Next, ~Daemon
    PROVE  \/ api' = api /\ taken' = taken
           \/ api' = ReapOnDemand(api) /\ taken' = taken
           \/ \E entry \in Entries :
                 /\ api' = Effect(entry) /\ taken' = taken \cup InEntry(entry)
                 /\ BatchInOrder(entry) /\ HeadOK(api, taken, entry)
<1>1. /\ InLine(spool, InBatch(held) \cup Ahead, api, taken) /\ Ascending(held.events)
      /\ spool \in Seq(Entries) /\ held \in Batches /\ Len(held.events) <= MaxBatch
      /\ chan \in Seq(Messages)
  BY DEF Orderly, Types, QueueTypes, SpoolTypes
<1>2. CASE Drain
  <2>1. spool # <<>> /\ \E fate : Request(Head(spool), fate)
    BY <1>2 DEF Drain
  <2>2. Head(spool) = spool[1] /\ Head(spool) \in Entries /\ 1 \in 1 .. Len(spool)
    <3>1. Head(spool) = spool[1] /\ Head(spool) \in Entries /\ Len(spool) \in Nat \ {0}
      BY <1>1, <2>1, TailSet
    <3> QED
      BY <3>1
  <2>3. BatchInOrder(Head(spool)) /\ HeadOK(api, taken, Head(spool))
    BY <1>1, <2>1, <2>2 DEF InLine
  <2> QED
    BY <2>1, <2>2, <2>3 DEF Request
<1>3. CASE ReceiveProof
  <2> DEFINE entry == Proof(Head(chan))
  <2>1. PostOrSpool(entry) /\ Head(chan) \in Uploads
    <3>1. chan # <<>> /\ Head(chan).kind = "proof" /\ PostOrSpool(entry)
      BY <1>3 DEF ReceiveProof
    <3>2. Head(chan) \in Messages
      BY <1>1, <3>1, TailSet
    <3> QED
      BY <3>1, <3>2 DEF Messages, Events, EventKinds, Manifests, Flushes
  <2>2. entry \in Entries /\ entry.type = "proof" /\ InEntry(entry) = {Head(chan)}
    BY <2>1 DEF Proof, Entries, InEntry
  <2> HIDE DEF entry
  <2>3. BatchInOrder(entry) /\ HeadOK(api, taken, entry)
    BY <2>1, <2>2, KindsDiffer DEF BatchInOrder, HeadOK, Below, KeysBelow, InTurn
  <2>4. Reaches(entry)
    BY <2>1, <2>2, PostFacts
  <2> QED
    BY <2>2, <2>3, <2>4 DEF Reaches
<1>4. CASE Flush
  <2> DEFINE entry == Batch(held)
  <2>1. /\ PostOrSpool(entry) /\ entry \in Entries /\ InEntry(entry) = InBatch(held)
        /\ BatchInOrder(entry)
    BY <1>1, <1>4 DEF Flush, Batch, Entries, InEntry, BatchInOrder
  <2> HIDE DEF entry
  <2>2. HeadOK(api, taken, entry)
    BY <1>1, <2>1 DEF InLine, HeadOK, Below, KeysBelow, InTurn
  <2>3. Reaches(entry)
    BY <2>1, PostFacts
  <2> QED
    BY <2>1, <2>2, <2>3 DEF Reaches
<1>5. CASE ReceiveEvent \/ ReceiveStatus \/ ReceiveFlush \/ Exit
  BY <1>5 DEF ReceiveEvent, ReceiveStatus, ReceiveFlush, Exit
<1>6. CASE Crash \/ Start \/ ReapByHand \/ Connect \/ Deliver \/ Drop
  BY <1>6 DEF Crash, Start, ReapByHand, Connect, Deliver, Drop, ViewerUnchanged
<1> QED
  BY <1>2, <1>3, <1>4, <1>5, <1>6 DEF Next, Task

LEMMA OrderlyHolds ==
    ASSUME RingHoldsBatch
    PROVE  Spec => []Orderly
<1>1. Types /\ Orderly /\ [Next]_vars => Orderly'
  <2>1. ASSUME Types, Orderly, UNCHANGED vars PROVE Orderly'
    BY <2>1 DEF vars, Orderly, Ahead, Future, InBatch
  <2> QED
    BY <2>1, OrderlyOfDaemon, OrderlyOfOthers
<1> QED
  BY <1>1, OrderlyInit, TypesHold, PTL DEF Spec

\* The daemon's events are in the index once each and in the order they happened,
\* when the ring is large enough for one batch and what sweeping it may strand.
THEOREM EventsStayInOrder ==
    RingHoldsBatch => (Spec => []EventsInOrder)
<1> SUFFICES ASSUME RingHoldsBatch PROVE Spec => []EventsInOrder
  OBVIOUS
<1>1. Orderly => EventsInOrder
  BY DEF Orderly, InLine, InOrderLog, EventsInOrder, DaemonLog
<1> QED
  BY <1>1, OrderlyHolds, PTL

\* Once everything has arrived and nothing was lost, each epoch's row is the
\* daemon's last word on it, whatever the reaper concluded in between.
THEOREM TheMirrorAgrees ==
    RingHoldsBatch => (Spec => []MirrorAgrees)
<1> SUFFICES ASSUME RingHoldsBatch PROVE Spec => []MirrorAgrees
  OBVIOUS
<1>1. Init => Follows(api, taken)
  BY DEF Init, Follows, Latest
<1>2. Types /\ Orderly /\ Follows(api, taken) /\ [Next]_vars => Follows(api, taken)'
  <2> SUFFICES ASSUME Types, Orderly, Follows(api, taken), [Next]_vars
               PROVE  Follows(api', taken')
    BY DEF Follows, Agrees, Latest
  <2>1. CASE api' = api /\ taken' = taken
    BY <2>1
  <2>2. CASE api' = ReapOnDemand(api) /\ taken' = taken
    BY <2>2, FollowsSwept
  <2>3. ASSUME NEW entry \in Entries, api' = Effect(entry),
               taken' = taken \cup InEntry(entry),
               BatchInOrder(entry), HeadOK(api, taken, entry)
        PROVE  Follows(api', taken')
    <3>1. InOrderLog(api.log)
      BY DEF Orderly, InLine
    <3> QED
      BY <2>3, <3>1, FollowsEffect
  <2>4. CASE Daemon
    <3>1. api' = api /\ taken' = taken
      BY <2>4, DaemonStep DEF DaemonSays, TaskUnchanged
    <3> QED
      BY <2>1, <3>1
  <2>5. CASE Next /\ ~Daemon
    BY <2>1, <2>2, <2>3, <2>5, ReachesInOrder
  <2>6. CASE UNCHANGED vars
    BY <2>1, <2>6 DEF vars
  <2> QED
    BY <2>4, <2>5, <2>6
<1>3. LastWord /\ Follows(api, taken) => MirrorAgrees
  <2> SUFFICES ASSUME LastWord, Follows(api, taken),
                      Unsent = {} /\ counted = {} /\ excused = {},
                      NEW e \in Epochs, said[e] # "nothing"
               PROVE  \/ said[e] = api.row[e].status
                      \/ /\ said[e] = "unproven" /\ api.stored[e] # "none"
                         /\ api.row[e].status = "proven"
    BY DEF MirrorAgrees
  <2>1. Accounted = taken
    BY DEF Accounted
  <2>2. PICK m : Latest(taken, e, m) /\ Verdict(m) = said[e]
    BY <2>1 DEF LastWord
  <2> QED
    BY <2>2 DEF Follows, Agrees
<1> QED
  BY <1>1, <1>2, <1>3, OrderlyHolds, LastWordHolds, TypesHold, PTL DEF Spec
=============================================================================
