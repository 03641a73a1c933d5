------------------------------ MODULE Publisher ------------------------------
(***************************************************************************)
(* The daemon's mirror to the public API: what one daemon announces while  *)
(* it walks the epochs, the bounded queue and the posting task behind it   *)
(* (crates/witness-gen/src/publish.rs), the spool on disk, the requests    *)
(* and their fates, the index they land in (EpochIndex) and one viewer of  *)
(* its live stream.                                                        *)
(*                                                                         *)
(* The daemon and the posting task run on threads of their own: the daemon *)
(* may announce between any two requests of the task.  A request is one    *)
(* step, with the outcome the client sees: accepted, accepted with the     *)
(* answer lost, lost before the API, or rejected with a 4xx.               *)
(***************************************************************************)
EXTENDS EpochIndex

CONSTANTS
    QueueCapacity,  \* messages the channel holds
    MaxBatch,       \* events in one POST
    SpoolCapacity,  \* entries held on disk
    Budgets         \* bounds: how often each thing that may go wrong does

(* A budget bounds the epochs of the run, the messages a full queue drops,  *)
(* the requests that fail, the starts after a crash or an exit, the         *)
(* crashes, the reorgs under a final proof, the stages of a later epoch     *)
(* speculated on, and the connections of the live viewer.                  *)
ASSUME CapacityAssumption ==
    /\ {QueueCapacity, MaxBatch, SpoolCapacity} \subseteq Nat \ {0}
    /\ Budgets \subseteq [epochs : Nat, full : Nat, faults : Nat, starts : Nat,
                          crashes : Nat, reorgs : Nat, ahead : Nat, views : Nat]

VARIABLES
    daemon,    \* what the orchestrator is doing
    chan,      \* Publisher.tx: messages not yet received
    held,      \* the posting task's `events` and `status`
    task,      \* the posting task: receiving, draining, or leaving
    spool,     \* the entries on disk, oldest first
    api,       \* the index
    bucket,    \* is the API deployed with an R2 bucket
    viewer,    \* a client of /v1/live
    budget,    \* what may still go wrong
    \* history
    said,      \* the last word on each epoch
    taken,     \* the seqs the API has recorded
    counted,   \* the messages the `dropped` counter stands for
    excused    \* messages lost to a crash or rejected by the API

vars == <<daemon, chan, held, task, spool, api, bucket, viewer, budget,
          said, taken, counted, excused>>

NoStatus == [kind |-> "status", epoch |-> 0, seq |-> 0]
NothingHeld == [events |-> <<>>, status |-> NoStatus]
MaxEpoch == Max(Epochs)

Event(kind, e, bytes) ==
    [kind |-> kind, epoch |-> e, seq |-> daemon.seq, bytes |-> bytes]

(* The messages of a batch, and those an entry of the spool holds. *)
InBatch(batch) ==
    ToSet(batch.events)
        \cup (IF batch.status = NoStatus THEN {} ELSE {batch.status})
InEntry(entry) == IF entry.type = "proof" THEN {entry.proof} ELSE InBatch(entry.batch)
Spooled == UNION {InEntry(spool[i]) : i \in 1..Len(spool)}
Unsent == ToSet(chan) \cup InBatch(held) \cup Spooled

(* try_send: the newest message is dropped, and counted, when the queue is  *)
(* full.                                                                   *)
Send(message, left) ==
    \/ /\ Len(chan) < QueueCapacity
       /\ chan' = Append(chan, message)
       /\ budget' = left
       /\ UNCHANGED counted
    \/ /\ Len(chan) = QueueCapacity /\ left.full > 0
       /\ counted' = counted \cup {message}
       /\ budget' = [left EXCEPT !.full = @ - 1]
       /\ UNCHANGED chan

SendEvent(kind, e, bytes, next, left) ==
    /\ Send(Event(kind, e, bytes), left)
    /\ daemon' = [next EXCEPT !.seq = @ + 1]

TaskUnchanged == UNCHANGED <<held, task, spool, api, viewer, taken, excused>>

Init ==
    /\ daemon = [up |-> TRUE, epoch |-> Min(Epochs) - 1, phase |-> "done",
                 seq |-> 1, manifest |-> 0, proof |-> FALSE]
    /\ chan = <<>> /\ held = NothingHeld /\ task = "receive" /\ spool = <<>>
    /\ api = EmptyIndex /\ bucket \in BOOLEAN
    /\ viewer = [on |-> FALSE, last |-> 0, since |-> 0, pipe |-> <<>>, got |-> {}]
    /\ budget \in Budgets
    /\ said = [e \in Epochs |-> "nothing"]
    /\ taken = {} /\ counted = {} /\ excused = {}

-----------------------------------------------------------------------------
(* The daemon.                                                             *)

(* The accumulator moves to the next epoch; its stage is announced.        *)
AdvanceEpoch ==
    /\ daemon.up /\ daemon.phase = "done" /\ daemon.epoch < MaxEpoch /\ budget.epochs > 0
    /\ SendEvent("stage", daemon.epoch + 1, FALSE,
                 [daemon EXCEPT !.epoch = @ + 1, !.phase = "opening"],
                 [budget EXCEPT !.epochs = @ - 1])
    /\ UNCHANGED <<bucket, said>> /\ TaskUnchanged

OpenEpoch ==
    /\ daemon.up /\ daemon.phase = "opening"
    /\ SendEvent("opened", daemon.epoch, FALSE, [daemon EXCEPT !.phase = "work"], budget)
    /\ UNCHANGED <<bucket, said>> /\ TaskUnchanged

(* A stage of the next epoch, started while this one is open.              *)
Speculate ==
    /\ daemon.up /\ daemon.phase = "work"
    /\ daemon.epoch < MaxEpoch /\ budget.ahead > 0
    /\ SendEvent("stage", daemon.epoch + 1, FALSE, daemon,
                 [budget EXCEPT !.ahead = @ - 1])
    /\ UNCHANGED <<bucket, said>> /\ TaskUnchanged

(* The final proof is back; a witness-only or spooled proof has no words,   *)
(* and uploads nothing.                                                    *)
ProofBytes ==
    /\ daemon.up /\ daemon.phase = "work"
    /\ \/ /\ Send([kind |-> "proof", epoch |-> daemon.epoch, seq |-> daemon.seq], budget)
          /\ daemon' = [daemon EXCEPT !.phase = "land", !.proof = TRUE]
       \/ /\ daemon' = [daemon EXCEPT !.phase = "land", !.proof = FALSE]
          /\ UNCHANGED <<chan, counted, budget>>
    /\ UNCHANGED <<bucket, said>> /\ TaskUnchanged

(* What the daemon closes an epoch as: a claim about bytes and nothing else. *)
EpochStatus(bytes) == IF bytes THEN "proven" ELSE "unproven"

ProofLanded ==
    /\ daemon.up /\ daemon.phase = "land"
    /\ SendEvent("landed", daemon.epoch, daemon.proof,
                 [daemon EXCEPT !.phase = "close"], budget)
    /\ said' = [said EXCEPT ![daemon.epoch] = EpochStatus(daemon.proof)]
    /\ UNCHANGED bucket /\ TaskUnchanged

EpochClosed ==
    /\ daemon.up /\ daemon.phase = "close"
    /\ SendEvent("closed", daemon.epoch, daemon.proof,
                 [daemon EXCEPT !.phase = "save"], budget)
    /\ UNCHANGED <<bucket, said>> /\ TaskUnchanged

EpochAbandoned(next, left) ==
    /\ SendEvent("abandoned", daemon.epoch, FALSE, next, left)
    /\ said' = [said EXCEPT ![daemon.epoch] = "abandoned"]
    /\ UNCHANGED bucket /\ TaskUnchanged

(* The threshold was never reached: the epoch is given up.                 *)
GiveUp ==
    /\ daemon.up /\ daemon.phase = "work"
    /\ EpochAbandoned([daemon EXCEPT !.phase = "save"], budget)

(* The checkpoint reorged out: the same epoch is opened again.             *)
ReorgedOut ==
    /\ daemon.up /\ daemon.phase = "work" /\ budget.reorgs > 0
    /\ EpochAbandoned([daemon EXCEPT !.phase = "opening"],
                      [budget EXCEPT !.reorgs = @ - 1])

(* store.save: from here on a restart does not redo the epoch.             *)
SaveStore ==
    /\ daemon.up /\ daemon.phase = "save"
    /\ daemon' = [daemon EXCEPT !.phase = "done"]
    /\ UNCHANGED <<chan, bucket, budget, said, counted>> /\ TaskUnchanged

(* A manifest, which names the cursor.  The interval between two of them   *)
(* lets an epoch have one.                                                 *)
PublishStatus ==
    /\ daemon.up /\ daemon.epoch \in Epochs /\ daemon.manifest # daemon.epoch
    /\ daemon.phase \in {"opening", "work", "done"}
    /\ Send([kind |-> "status", epoch |-> daemon.epoch, seq |-> daemon.seq], budget)
    /\ daemon' = [daemon EXCEPT !.manifest = daemon.epoch]
    /\ UNCHANGED <<bucket, said>> /\ TaskUnchanged

(* The run is over: flush() is the last message, and waits for room.       *)
Stop ==
    /\ daemon.up /\ daemon.phase = "done" /\ budget.epochs = 0
    /\ daemon.manifest = daemon.epoch
    /\ Len(chan) < QueueCapacity
    /\ chan' = Append(chan, [kind |-> "flush", epoch |-> 0, seq |-> 0])
    /\ daemon' = [daemon EXCEPT !.phase = "stopped"]
    /\ UNCHANGED <<bucket, budget, said, counted>> /\ TaskUnchanged

-----------------------------------------------------------------------------
(* The posting task (post_loop).                                           *)

Batch(batch) == [type |-> "batch", batch |-> batch]
Proof(message) == [type |-> "proof", proof |-> message]

(* What the API does with an entry once it arrives.                        *)
Effect(entry) ==
    IF entry.type = "proof" THEN PutProof(api, bucket, entry.proof.epoch)
    ELSE Ingest(api, entry.batch)

(* The fates of a request, and which of them the client takes for success:  *)
(* a 4xx will not fix itself, so it is dropped as if it had been posted.    *)
Fates == {"accepted"}
    \cup IF budget.faults > 0 THEN {"unanswered", "unreachable", "rejected"} ELSE {}
(* Mutant of Posted: every request counts as posted.                       *)
PostedWhatever(fate) == TRUE

Arrives(fate) == fate \in {"accepted", "unanswered"}
Posted(fate) == fate \in {"accepted", "rejected"}

(* Mutant of Hello: anchored at the head of the stream.                    *)
HelloAtHead(id) == [kind |-> "hello", id |-> api.next - 1]

Hello(id) == [kind |-> "hello", id |-> id]
Frame(id) == [kind |-> "event", id |-> id]
Frames(ids) == [i \in 1..Len(ids) |-> Frame(ids[i])]

Broadcast(before, after) ==
    IF ~viewer.on THEN viewer
    ELSE [viewer EXCEPT !.pipe = @ \o Frames(Outgoing(before, after))]

Request(entry, fate) ==
    /\ api' = IF Arrives(fate) THEN Effect(entry) ELSE api
    /\ taken' = IF Arrives(fate) THEN taken \cup InEntry(entry) ELSE taken
    /\ excused' = IF fate = "rejected" THEN excused \cup InEntry(entry) ELSE excused
    /\ viewer' = Broadcast(api, api')
    /\ budget' = IF fate = "accepted" THEN budget ELSE [budget EXCEPT !.faults = @ - 1]

(* Mutant of Push: the oldest is only counted, not dropped.                *)
PushUnbounded(entry) ==
    /\ spool' = Append(spool, entry)
    /\ counted' = IF Len(spool) >= SpoolCapacity
                  THEN counted \cup InEntry(Head(spool)) ELSE counted

(* Spool::push_*: room is made by dropping the oldest, which is counted.   *)
Push(entry) ==
    LET full == Len(spool) >= SpoolCapacity
    IN  /\ spool' = Append(IF full THEN Tail(spool) ELSE spool, entry)
        /\ counted' = IF full THEN counted \cup InEntry(Head(spool)) ELSE counted

(* Mutant of PostOrSpool: a new batch does not wait for the spool.         *)
PostFirst(entry) ==
    \E fate \in Fates :
        /\ Request(entry, fate)
        /\ IF Posted(fate) THEN UNCHANGED <<spool, counted>> ELSE Push(entry)

(* Once anything is spooled, everything is spooled.                        *)
PostOrSpool(entry) ==
    IF spool # <<>>
    THEN Push(entry) /\ UNCHANGED <<api, taken, excused, viewer, budget>>
    ELSE \E fate \in Fates :
            /\ Request(entry, fate)
            /\ IF Posted(fate) THEN UNCHANGED <<spool, counted>> ELSE Push(entry)

Received == chan' = Tail(chan)

ReceiveEvent ==
    /\ daemon.up /\ task = "receive" /\ chan # <<>>
    /\ Head(chan).kind \notin {"status", "proof", "flush"}
    /\ Received
    /\ held' = [held EXCEPT !.events = Append(@, Head(chan))]
    /\ task' = IF Len(held'.events) >= MaxBatch THEN "flush" ELSE task
    /\ UNCHANGED <<daemon, spool, api, bucket, viewer, budget, said, taken,
                   counted, excused>>

ReceiveStatus ==
    /\ daemon.up /\ task = "receive" /\ chan # <<>> /\ Head(chan).kind = "status"
    /\ Received
    /\ held' = [held EXCEPT !.status = Head(chan)]
    /\ UNCHANGED <<daemon, task, spool, api, bucket, viewer, budget, said,
                   taken, counted, excused>>

(* A proof goes out at once, ahead of the events still held.               *)
ReceiveProof ==
    /\ daemon.up /\ task = "receive" /\ chan # <<>> /\ Head(chan).kind = "proof"
    /\ Received
    /\ PostOrSpool(Proof(Head(chan)))
    /\ UNCHANGED <<daemon, held, task, bucket, said>>

ReceiveFlush ==
    /\ daemon.up /\ task = "receive" /\ chan # <<>> /\ Head(chan).kind = "flush"
    /\ Received
    /\ task' = "leave"
    /\ UNCHANGED <<daemon, held, spool, api, bucket, viewer, budget, said,
                   taken, counted, excused>>

(* flush(): on the batch interval, on a full batch, and before leaving.    *)
Flush ==
    /\ daemon.up /\ task \in {"receive", "flush", "leave"} /\ held # NothingHeld
    /\ PostOrSpool(Batch(held))
    /\ held' = NothingHeld
    /\ task' = IF task = "leave" THEN task ELSE "receive"
    /\ UNCHANGED <<daemon, chan, bucket, said>>

(* Mutant of Drain: what was sent goes back to the end of the spool.       *)
DrainRequeues ==
    /\ daemon.up /\ spool # <<>>
    /\ task \in {"receive", "drain"} \/ (task = "leave" /\ held = NothingHeld)
    /\ \E fate \in Fates : Request(Head(spool), fate)
    /\ spool' = Append(Tail(spool), Head(spool))
    /\ UNCHANGED <<daemon, chan, held, task, bucket, said, counted>>

(* drain(): one entry, oldest first; the first failure ends it.            *)
Drain ==
    /\ daemon.up /\ spool # <<>>
    /\ task \in {"receive", "drain"} \/ (task = "leave" /\ held = NothingHeld)
    /\ \E fate \in Fates :
        /\ Request(Head(spool), fate)
        /\ spool' = IF Posted(fate) THEN Tail(spool) ELSE spool
        /\ task' = CASE task = "leave" -> IF Posted(fate) THEN "leave" ELSE "exit"
                     [] task # "leave" /\ Posted(fate) /\ spool' # <<>> -> "drain"
                     [] OTHER -> "receive"
    /\ UNCHANGED <<daemon, chan, held, bucket, said, counted>>

(* The flush is acknowledged and the process ends.                         *)
Exit ==
    /\ daemon.up
    /\ \/ task = "exit"
       \/ task = "leave" /\ held = NothingHeld /\ spool = <<>>
    /\ daemon' = [daemon EXCEPT !.up = FALSE]
    /\ task' = "receive"
    /\ UNCHANGED <<chan, held, spool, api, bucket, viewer, budget, said, taken,
                   counted, excused>>

(* The process dies: what was in memory goes, the spool and the store stay. *)
Crash ==
    /\ daemon.up /\ budget.crashes > 0
    /\ daemon' = [daemon EXCEPT !.up = FALSE]
    /\ budget' = [budget EXCEPT !.crashes = @ - 1]
    /\ excused' = excused \cup ToSet(chan) \cup InBatch(held)
    /\ chan' = <<>> /\ held' = NothingHeld /\ task' = "receive"
    /\ UNCHANGED <<spool, api, bucket, viewer, said, taken, counted>>

(* The next run: the spool is read back, the epoch that was not saved is    *)
(* opened again, and sequence numbers go on from the clock.                *)
Start ==
    /\ ~daemon.up /\ budget.starts > 0
    /\ daemon' = [daemon EXCEPT
         !.up = TRUE, !.manifest = 0,
         !.phase = IF @ \in {"done", "stopped"} THEN "done" ELSE "opening"]
    /\ budget' = [budget EXCEPT !.starts = @ - 1]
    /\ UNCHANGED <<chan, held, task, spool, api, bucket, viewer, said, taken,
                   counted, excused>>

(* An operator sweeps the index by hand.                                   *)
ReapByHand ==
    /\ ReapOnDemand(api) # api
    /\ api' = ReapOnDemand(api)
    /\ viewer' = Broadcast(api, api')
    /\ UNCHANGED <<daemon, chan, held, task, spool, bucket, budget, said, taken,
                   counted, excused>>

-----------------------------------------------------------------------------
(* A client of /v1/live.  A frame is a stream id; the hello frame carries   *)
(* the id the stream resumes from.                                         *)

ViewerUnchanged ==
    UNCHANGED <<daemon, chan, held, task, spool, api, bucket, said, taken,
                counted, excused>>

(* A first connection starts at the head; a later one sends Last-Event-ID.  *)
Connect ==
    /\ ~viewer.on /\ budget.views > 0
    /\ budget' = [budget EXCEPT !.views = @ - 1]
    /\ LET anchor == IF viewer.last = 0 THEN api.next - 1 ELSE viewer.last
           replay == IF viewer.last = 0 THEN <<>> ELSE Replay(api, viewer.last)
       IN  viewer' = [viewer EXCEPT
                        !.on = TRUE,
                        !.since = IF viewer.last = 0 THEN anchor ELSE @,
                        !.pipe = <<Hello(anchor)>> \o Frames(replay)]
    /\ ViewerUnchanged

Deliver ==
    /\ viewer.on /\ viewer.pipe # <<>>
    /\ viewer' = [viewer EXCEPT
                    !.pipe = Tail(@),
                    !.last = Head(viewer.pipe).id,
                    !.got = IF Head(viewer.pipe).kind = "event"
                            THEN @ \cup {Head(viewer.pipe).id} ELSE @]
    /\ UNCHANGED budget /\ ViewerUnchanged

(* The connection is lost with every frame still on its way.               *)
Drop ==
    /\ viewer.on
    /\ viewer' = [viewer EXCEPT !.on = FALSE, !.pipe = <<>>]
    /\ UNCHANGED budget /\ ViewerUnchanged

Daemon ==
    \/ AdvanceEpoch \/ OpenEpoch \/ Speculate \/ ProofBytes \/ ProofLanded
    \/ EpochClosed \/ GiveUp \/ ReorgedOut \/ SaveStore \/ PublishStatus \/ Stop

Task ==
    \/ ReceiveEvent \/ ReceiveStatus \/ ReceiveProof \/ ReceiveFlush
    \/ Flush \/ Drain \/ Exit

Next ==
    \/ Daemon \/ Task \/ Crash \/ Start \/ ReapByHand
    \/ Connect \/ Deliver \/ Drop

Spec == Init /\ [][Next]_vars

(* The posting task is a task of a running process: its receive, its batch  *)
(* interval and its drain timer all come round.  This is WF_vars(Task) with  *)
(* ENABLED <<Task>>_vars spelled out as TaskReady.                          *)
TaskReady ==
    /\ daemon.up
    /\ \/ task = "receive" /\ chan # <<>>
       \/ held # NothingHeld
       \/ spool # <<>>
       \/ task \in {"leave", "exit"}

FairSpec == Spec /\ (<>[]TaskReady => []<><<Task>>_vars)

-----------------------------------------------------------------------------
TypeOK ==
    /\ daemon.up \in BOOLEAN /\ daemon.epoch \in 0..MaxEpoch /\ daemon.seq \in Nat
    /\ Len(chan) <= QueueCapacity /\ Len(held.events) <= MaxBatch
    /\ Len(spool) <= SpoolCapacity
    /\ task \in {"receive", "flush", "drain", "leave", "exit"}
    /\ \A e \in Epochs : api.row[e].status \in Statuses /\ api.stored[e] \in Backends
    /\ \A entry \in api.log : entry.id \in 1..(api.next - 1)

(* publish.rs:12-15 and UNIQUE (daemon_id, daemon_seq): through outages,    *)
(* retries of requests whose answer was lost, restarts and replays of the   *)
(* spool, the index holds the daemon's events once each and in the order    *)
(* they happened: late rather than reordered.                              *)
DaemonLog == {entry \in api.log : entry.source = "daemon"}

EventsInOrder ==
    \A a, b \in DaemonLog : a.id < b.id => a.key < b.key

(* publish.rs:17-19: an event that was announced is at the API or on its    *)
(* way, unless the dropped counter speaks of it, the process died with it   *)
(* in memory, or the API rejected it.                                      *)
NothingLostSilently ==
    LET accounted == taken \cup Unsent \cup counted \cup excused
    IN  1..(daemon.seq - 1) \subseteq
            {message.seq : message \in {m \in accounted : m.kind \notin {"proof", "status"}}}

(* status.ts:16-29: `proven` means bytes.  A consumer of a proven epoch      *)
(* finds them, or they are on their way, or their loss is accounted for.    *)
ProvenHasBytes ==
    \A e \in Epochs :
        api.row[e].status = "proven" =>
            \/ api.stored[e] # "none"
            \/ \E message \in Unsent \cup counted \cup excused :
                    message.kind = "proof" /\ message.epoch = e

(* index-do.ts:14-20, the API is a mirror: once everything arrived, nothing *)
(* having been lost, each epoch's status is the daemon's last word on it,   *)
(* whatever the reaper concluded in the meantime; or the epoch closed       *)
(* without a proof and its bytes came late.                                *)
MirrorAgrees ==
    (Unsent = {} /\ counted = {} /\ excused = {}) =>
        \A e \in Epochs :
            \/ said[e] \in {"nothing", api.row[e].status}
            \/ /\ said[e] = "unproven" /\ api.stored[e] # "none"
               /\ api.row[e].status = "proven"

(* status.ts:73-78: the epoch the daemon's newest manifest names is never   *)
(* stranded, however many later epochs speculation has touched.            *)
NamedIsNotStranded ==
    [][\A e \in Epochs :
          (api'.row[e].status = "stranded" /\ api.row[e].status # "stranded")
              => e # api'.snapshot]_vars

(* index-do.ts serveLive: a stream resumed from the last id a client saw     *)
(* leaves no hole, also when it drops in the middle of a replay, unless the *)
(* ring has gone past it.  The one exception: a sweep made by hand does not *)
(* trim, so the newest rows a replay of Ring rows leaves out may be its      *)
(* strandings.                                                             *)
ViewerMissesNothing ==
    \A id \in (viewer.since + 1)..viewer.last :
        \/ id \in viewer.got \/ id < api.next - Ring
        \/ \E entry \in api.log : entry.id = id /\ entry.source = "stranded"

(* publish.rs:453-463: whatever is queued is posted in the end, while the    *)
(* daemon lives.                                                           *)
EverythingIsSent == (Unsent # {}) ~> (Unsent = {} \/ ~daemon.up)
=============================================================================
