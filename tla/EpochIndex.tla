----------------------------- MODULE EpochIndex -----------------------------
(***************************************************************************)
(* The public API's index (api/src/index-do.ts): one Durable Object whose  *)
(* requests run one after the other, so each handler is an operator from   *)
(* its tables to its tables.  An index is the record                       *)
(*   log       the rows of the `events` table: the newest Ring events      *)
(*   next      the stream id the next event gets                           *)
(*   row       the `epochs` table: status and proof column, by epoch       *)
(*   snapshot  the epoch the last status manifest named, 0 before any      *)
(*   highest   the high-water mark of the reaper                           *)
(*   stored    the `proofs` table: which backend holds an epoch's bytes    *)
(* Timings, checkpoints, public inputs and the other columns are copied    *)
(* through and are left out.                                               *)
(***************************************************************************)
EXTENDS Integers, Sequences, SequencesExt, FiniteSets, FiniteSetsExt, Sorting

CONSTANTS
    Epochs,      \* the epochs the daemon may come to, an interval of Nat
    Ring,        \* RING_EVENTS
    InlineCap    \* proofs the inline backend holds (INLINE_TOTAL_CAP bytes)

ASSUME EpochsAssumption ==
    /\ Epochs \subseteq Nat \ {0} /\ Epochs # {} /\ IsFiniteSet(Epochs)
    /\ \A e, f \in Epochs : e .. f \subseteq Epochs
ASSUME RingAssumption == Ring \in Nat \ {0} /\ InlineCap \in Nat \ {0}

NoRow == "absent"
Statuses == {NoRow, "proving", "proven", "unproven", "abandoned", "stranded"}
Backends == {"none", "r2", "inline", "evicted"}

EmptyIndex ==
    [log |-> {}, next |-> 1,
     row |-> [e \in Epochs |-> [status |-> NoRow, bytes |-> FALSE]],
     snapshot |-> 0, highest |-> 0,
     stored |-> [e \in Epochs |-> "none"]]

(* INSERT INTO epochs ... DO NOTHING: `status` defaults to 'proving'. *)
Touch(row) == IF row.status = NoRow THEN [row EXCEPT !.status = "proving"] ELSE row

(* Mutant of StatusForProof: the literal "proven" of before 2026-08-19.     *)
StatusAlwaysProven(available) == "proven"

(* A proof reference is a claim that bytes exist; nothing else is `proven`. *)
StatusForProof(available) == IF available THEN "proven" ELSE "unproven"

(* Mutant of Apply: a row that once settled is left alone.                 *)
ApplyUnlessSettled(row, event) ==
    CASE row.status \notin {NoRow, "proving"} -> row
      [] event.kind \in {"stage", "opened"} -> Touch(row)
      [] event.kind \in {"landed", "closed"} ->
            [status |-> StatusForProof(event.bytes), bytes |-> event.bytes]
      [] OTHER -> [Touch(row) EXCEPT !.status = "abandoned"]

(* What an event does to its epoch's row. *)
Apply(row, event) ==
    CASE event.kind \in {"stage", "opened"} -> Touch(row)
      [] event.kind \in {"landed", "closed"} ->
            [status |-> StatusForProof(event.bytes), bytes |-> event.bytes]
      [] event.kind = "abandoned" -> [Touch(row) EXCEPT !.status = "abandoned"]

(* INSERT OR IGNORE under UNIQUE (daemon_id, daemon_seq). *)
Known(index, source, key) ==
    \E entry \in index.log : entry.source = source /\ entry.key = key

Record(index, source, key, epoch) ==
    [index EXCEPT
        !.log = @ \cup {[id |-> index.next, source |-> source,
                         key |-> key, epoch |-> epoch]},
        !.next = @ + 1]

IngestEvent(index, event) ==
    IF Known(index, "daemon", event.seq) THEN index
    ELSE LET recorded == Record(index, "daemon", event.seq, event.epoch)
         IN  [recorded EXCEPT !.row[event.epoch] = Apply(@, event)]

(* The manifest replaces the stored one even when its event is a replay. *)
IngestStatus(index, manifest) ==
    IF manifest.epoch = 0 THEN index
    ELSE LET stored == [index EXCEPT !.snapshot = manifest.epoch]
         IN  IF Known(index, "status", manifest.seq) THEN stored
             ELSE Record(stored, "status", manifest.seq, manifest.epoch)

HighestEpoch(index) ==
    Max({e \in Epochs : index.row[e].status # NoRow} \cup {0})

(* An epoch left `proving` below the newest one, unless the daemon's last  *)
(* manifest names it.                                                      *)
IsStranded(index, e) ==
    /\ e # index.snapshot
    /\ index.row[e].status = "proving"
    /\ e < HighestEpoch(index)

Strand(index, e) ==
    LET stranded == [index EXCEPT !.row[e].status = "stranded"]
    IN  IF Known(index, "stranded", e) THEN stranded
        ELSE Record(stranded, "stranded", e, e)

ReapStranded(index) ==
    FoldLeft(Strand, index, InOrder({e \in Epochs : IsStranded(index, e)}))

Reap(index) ==
    IF HighestEpoch(index) <= index.highest THEN index
    ELSE ReapStranded([index EXCEPT !.highest = HighestEpoch(index)])

Trim(index) ==
    [index EXCEPT !.log = {entry \in @ : entry.id >= index.next - Ring}]

(* Mutant of Ingest: the reaper runs before the manifest is stored.        *)
IngestReapsFirst(index, batch) ==
    Trim(IngestStatus(Reap(FoldLeft(IngestEvent, index, batch.events)),
                      batch.status))

(* POST /v1/ingest: the events in order, then the manifest, then the reaper. *)
Ingest(index, batch) ==
    Trim(Reap(IngestStatus(FoldLeft(IngestEvent, index, batch.events),
                           batch.status)))

(* POST /v1/ingest/reap sweeps whatever the high-water mark says. *)
ReapOnDemand(index) ==
    IF HighestEpoch(index) = 0 THEN index
    ELSE ReapStranded([index EXCEPT !.highest = HighestEpoch(index)])

(* POST /v1/ingest/proof with a bucket bound: late bytes promote an epoch   *)
(* that closed without them.                                               *)
LandProof(row) ==
    [status |-> IF row.status = "unproven" THEN "proven" ELSE Touch(row).status,
     bytes |-> TRUE]

PutProofMeta(index, e) ==
    [index EXCEPT !.stored[e] = "r2", !.row[e] = LandProof(@)]

(* Without a bucket the bytes live in the index, the oldest epochs evicted. *)
Inline(index) == {e \in Epochs : index.stored[e] = "inline"}

Evict(index) ==
    LET excess == Cardinality(Inline(index)) - InlineCap
        oldest == {e \in Inline(index) :
                     Cardinality({o \in Inline(index) : o < e}) < excess}
    IN  [index EXCEPT !.stored = [e \in Epochs |->
                                    IF e \in oldest THEN "evicted" ELSE @[e]]]

PutProofInline(index, e) == Evict([index EXCEPT !.stored[e] = "inline"])

PutProof(index, bucket, e) ==
    IF bucket THEN PutProofMeta(index, e) ELSE PutProofInline(index, e)

(* The ids a stream opened at `since` replays: the first Ring rows past it. *)
Replay(index, since) ==
    LET later == {entry.id : entry \in {row \in index.log : row.id > since}}
    IN  InOrder({id \in later : Rank(later, id) < Ring})

(* The ids the requests between two indexes broadcast to open streams. *)
Outgoing(before, after) == [i \in 1..(after.next - before.next) |-> before.next + i - 1]
=============================================================================
