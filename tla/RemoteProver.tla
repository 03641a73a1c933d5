---------------------------- MODULE RemoteProver ----------------------------
(***************************************************************************)
(* The link between the daemon and the machine that proves for it           *)
(* (remote_prover.rs), with the keys the server holds for committee          *)
(* witnesses (committee_cache.rs).                                          *)
(*                                                                         *)
(* A job is one call of a Prover method: a witness, asked for once, on a    *)
(* thread of its own.  The jobs and the backfill thread share one           *)
(* connection under a mutex; what a job does between two holds of it        *)
(* interleaves with everything else.  The server answers one request after  *)
(* another on a connection, and goes on with the request of a connection    *)
(* its client gave up.                                                      *)
(*                                                                         *)
(* A member table is the sequence of validators whose keys went into it,    *)
(* which is what its chained digest stands for.                             *)
(***************************************************************************)
EXTENDS Integers, FiniteSets, SequencesExt, Sorting

CONSTANTS
    Jobs,           \* the witnesses asked for
    Committee,      \* the jobs that are committee witnesses
    Persisted,      \* the jobs of a stage the store keeps (Stage::is_persisted)
    Oversized,      \* the jobs whose witness is over the frame's cap
    Children,       \* the jobs whose proofs a job's witness carries
    Members,        \* the validators a committee job's witness names
    LinkRetries,    \* LINK_RETRIES
    SpoolCapacity,
    TablesHeld,     \* TABLES_HELD
    MaxEvents,      \* bound: faults, restarts, and tables of other clients
    MaxDiskFaults   \* bound: writes and reads under the spool that fail

Backfill == "backfill"
Threads == Jobs \cup {Backfill}
Nobody == "nobody"

ASSUME JobsAssumption ==
    /\ IsFiniteSet(Jobs)
    /\ Backfill \notin Jobs /\ Nobody \notin Jobs
    /\ Committee \subseteq Jobs /\ Persisted \subseteq Jobs /\ Oversized \subseteq Jobs
    /\ Children \in [Jobs -> SUBSET Jobs]
    /\ Members \in [Committee -> SUBSET (Nat \ {0})]
    /\ \A job \in Committee : IsFiniteSet(Members[job])
ASSUME BoundsAssumption ==
    /\ {LinkRetries, MaxEvents, MaxDiskFaults} \subseteq Nat
    /\ {SpoolCapacity, TablesHeld} \subseteq Nat \ {0}

VARIABLES
    \* the daemon's threads
    pc,         \* where each thread is
    request,    \* what it is asking
    result,     \* what came of its last attempt
    phase,      \* which of deliver's asks a job is at
    tries,      \* the times its link was asked again
    outcome,    \* what its caller got
    \* what the threads share
    holder,     \* the thread that has the connection's mutex
    link,       \* the connection, and the attempt in progress
    outage,     \* since when the prover fails, and whether it is gone
    belief,     \* TableBelief
    spool,      \* the witnesses on disk, oldest first
    peeked,     \* the path the backfill read
    \* the server
    tables,     \* MemberCache.held, least recently used first
    orphans,    \* requests of connections their client gave up
    faults,     \* drops, crashes, silences and sick answers
    clients,    \* tables other clients made the server take
    restarts,   \* times the daemon was started again
    diskFaults,
    \* history: the witnesses
    spooled,    \* ... handed to the spool
    recovered,  \* ... it got a proof of
    rejected,   \* ... the server refused it
    dropped,    \* ... it gave up for room
    undercut,   \* ... it gave up for room while the backfill was at them
    damaged,    \* ... the disk did not take, or did not give back
    overlapped, \* ... of committees asked for while another one was
    silence     \* attempts in a row that nobody answered

threadVars == <<pc, request, result, phase, tries, outcome>>
sharedVars == <<holder, link, outage, belief, spool, peeked>>
serverVars == <<tables, orphans>>
bounds == <<faults, clients, restarts, diskFaults>>
history == <<recovered, dropped, rejected, spooled, damaged, undercut, overlapped>>
vars == <<threadVars, sharedVars, serverVars, bounds, history, silence>>

\* A table is none, or the validators in it in the order they were added.
NoTable == <<-1>>
Foreign == <<0>>
NoRequest == [job |-> Nobody, base |-> NoTable, added |-> <<>>]
NoResult == [kind |-> "none", job |-> Nobody]

\* Request::Prove, and ProveCommittee with MemberTable::Full (no base) or Append.
Whole(job) == [job |-> job, base |-> NoTable, added |-> <<>>]
Naming(job, base, added) == [job |-> job, base |-> base, added |-> added]
CarriesTable(req) == req.base # NoTable
Full(job) == Naming(job, <<>>, InOrder(Members[job]))
ResultingDigest(req) == req.base \o req.added

FreshLink == [stream |-> TRUE, broken |-> FALSE, backoff |-> FALSE,
              requests |-> <<>>, replies |-> <<>>,
              round |-> 1, first |-> "none", sent |-> FALSE]
Answering == [failing |-> FALSE, gone |-> FALSE]
NoBelief == [digest |-> NoTable, sent |-> {}]

MayHappen == faults + clients + restarts < MaxEvents
DiskFails == diskFaults < MaxDiskFaults /\ diskFaults' = diskFaults + 1

-----------------------------------------------------------------------------
(* The server.                                                             *)

\* The circuit takes a witness whose children were proved.
Accepts(job) == \A child \in Children[job] : outcome[child] = "proved"

\* MemberCache::rebuild, on the tables: Full finds the table or takes a slot
\* from the least recently used, Append finds its base or nothing; what is used
\* goes last.
Room(held) == IF Len(held) >= TablesHeld THEN Tail(held) ELSE held

Rebuilt(held, req) ==
    LET resulting == ResultingDigest(req)
    IN IF req.base = <<>>
       THEN IF Contains(held, resulting)
            THEN Append(RemoveFirst(held, resulting), resulting)
            ELSE Append(Room(held), resulting)
       ELSE Append(RemoveFirst(held, req.base), resulting)

NeedsTable(held, req) ==
    CarriesTable(req) /\ req.base # <<>> /\ ~Contains(held, req.base)

\* decode finds every member's key in the table
Decodes(req) == Members[req.job] \subseteq Range(ResultingDigest(req))

\* What serve_client answers.  A sick prover refuses what the circuit takes.
Answers(held, req) ==
    LET proves == Accepts(req.job) /\ (CarriesTable(req) => Decodes(req))
    IN IF NeedsTable(held, req) THEN {[kind |-> "need_table", job |-> req.job]}
       ELSE {[kind |-> "failed", job |-> req.job]} \cup
            (IF proves THEN {[kind |-> "proved", job |-> req.job]} ELSE {})

Sick(held, req, reply) ==
    /\ reply.kind = "failed"
    /\ [reply EXCEPT !.kind = "proved"] \in Answers(held, req)

TablesAfter(held, req) ==
    IF ~CarriesTable(req) \/ NeedsTable(held, req) THEN held ELSE Rebuilt(held, req)

\* One turn of serve_client's loop, on the connection the client holds.
ServeClient ==
    /\ link.requests # <<>>
    /\ LET req == Head(link.requests)
       IN \E reply \in Answers(tables, req) :
            /\ faults' = IF Sick(tables, req, reply) THEN faults + 1 ELSE faults
            /\ faults' + clients + restarts <= MaxEvents
            /\ tables' = TablesAfter(tables, req)
            /\ link' = [link EXCEPT !.requests = Tail(@), !.replies = Append(@, reply)]
    /\ UNCHANGED <<threadVars, holder, outage, belief, spool, peeked, orphans,
                   clients, restarts, diskFaults, history, silence>>

\* ... and on one it gave up, where the answer goes nowhere.
ServeOrphan ==
    \E req \in orphans :
        /\ tables' = TablesAfter(tables, req)
        /\ orphans' = orphans \ {req}
        /\ UNCHANGED <<threadVars, sharedVars, bounds, history, silence>>

\* Another daemon sends its own keys.
OtherClient ==
    /\ MayHappen
    /\ clients' = clients + 1
    /\ tables' = Rebuilt(tables, Naming(Nobody, <<>>, Foreign))
    /\ UNCHANGED <<threadVars, sharedVars, orphans, faults, restarts, diskFaults,
                   history, silence>>

\* The server's process is started again, with no table and no connection.
ServerRestarts ==
    /\ MayHappen
    /\ faults' = faults + 1
    /\ tables' = <<>>
    /\ orphans' = {}
    /\ link' = [link EXCEPT !.broken = TRUE, !.requests = <<>>, !.replies = <<>>]
    /\ UNCHANGED <<threadVars, holder, outage, belief, spool, peeked,
                   clients, restarts, diskFaults, history, silence>>

\* The connection goes: the tunnel drops, or idle_timeout closes it.
LinkDrops ==
    /\ MayHappen
    /\ ~link.broken
    /\ faults' = faults + 1
    /\ link' = [link EXCEPT !.broken = TRUE, !.requests = <<>>, !.replies = <<>>]
    /\ orphans' = orphans \cup Range(link.requests)
    /\ UNCHANGED <<threadVars, holder, outage, belief, spool, peeked, tables,
                   clients, restarts, diskFaults, history, silence>>

-----------------------------------------------------------------------------
(* One attempt: Inner::attempt, under the connection's mutex.              *)

Attempting(t) == holder = t /\ pc[t] = "attempt"

\* Mutant: the connection is kept after a failure.
GivenUpNever(l) == [l EXCEPT !.sent = FALSE]

\* The connection is given up: what was sent on it the server still has, and
\* what it answers nobody reads.
GivenUp(l) == [l EXCEPT !.stream = FALSE, !.broken = FALSE, !.sent = FALSE,
                        !.requests = <<>>, !.replies = <<>>]

\* Mutant: a job holds the mutex while it makes up its mind.
AttemptEndsHolding(t, outcomeOfIt) ==
    /\ pc' = [pc EXCEPT ![t] = "answered"]
    /\ result' = [result EXCEPT ![t] = outcomeOfIt]
    /\ holder' = t
    /\ silence' = silence

\* The attempt is over; the backfill holds the mutex until it has dealt with it.
AttemptEnds(t, outcomeOfIt) ==
    /\ pc' = [pc EXCEPT ![t] = "answered"]
    /\ result' = [result EXCEPT ![t] = outcomeOfIt]
    /\ holder' = IF t = Backfill THEN t ELSE Nobody
    /\ silence' = IF outcomeOfIt.kind \in {"unanswered", "timeout"}
                  THEN IF silence < 2 THEN silence + 1 ELSE silence
                  ELSE 0

\* The first failure starts the clock; a later one may find it past give_up.
NoteFailure ==
    \E runOut \in {FALSE, outage.failing} :
        outage' = [failing |-> TRUE, gone |-> outage.gone \/ runOut]

\* A round trip failed.  The first is tried again on a fresh connection; after
\* the second the attempt fails with the first's error.
RoundFails(t, kind, l) ==
    /\ IF l.round = 1
       THEN /\ link' = [GivenUp(l) EXCEPT !.round = 2, !.first = kind]
            /\ UNCHANGED <<pc, result, holder, outage, silence>>
       ELSE /\ link' = [GivenUp(l) EXCEPT !.round = 1, !.first = "none"]
            /\ AttemptEnds(t, [kind |-> l.first, job |-> Nobody])
            /\ NoteFailure
    /\ orphans' = orphans \cup Range(l.requests)
    /\ UNCHANGED <<request, phase, tries, outcome, belief, spool, peeked,
                   tables, clients, restarts, diskFaults, history>>

\* The handshake on a fresh connection.  Only a server that holds no table at
\* all makes this end forget (TableBelief::reconcile).
Dial(t) ==
    /\ Attempting(t)
    /\ ~link.stream /\ ~link.backoff
    /\ link' = [link EXCEPT !.stream = TRUE]
    /\ belief' = IF tables = <<>> THEN NoBelief ELSE belief
    /\ UNCHANGED <<threadVars, holder, outage, spool, peeked, serverVars, bounds, history, silence>>

\* It fails, and the next one waits reconnect_backoff.
DialFails(t) ==
    /\ Attempting(t)
    /\ ~link.stream /\ ~link.backoff
    /\ MayHappen
    /\ faults' = faults + 1
    /\ RoundFails(t, "unanswered", [link EXCEPT !.backoff = TRUE])

Send(t) ==
    /\ Attempting(t)
    /\ link.stream /\ ~link.broken /\ ~link.sent
    /\ link' = [link EXCEPT !.requests = Append(@, request[t]), !.sent = TRUE]
    /\ UNCHANGED <<threadVars, holder, outage, belief, spool, peeked,
                   serverVars, bounds, history, silence>>

\* A dial that has to wait, or a connection the write or the read finds dead.
LinkFails(t) ==
    /\ Attempting(t)
    /\ IF link.stream THEN link.broken ELSE link.backoff
    /\ RoundFails(t, "unanswered", link)
    /\ UNCHANGED faults

\* The server says nothing for request_timeout.
TimesOut(t) ==
    /\ Attempting(t)
    /\ link.sent
    /\ MayHappen
    /\ faults' = faults + 1
    /\ RoundFails(t, "timeout", link)

\* Any frame is an answer (note_reachable).
Read(t) ==
    /\ Attempting(t)
    /\ link.sent /\ link.replies # <<>>
    /\ link' = [link EXCEPT !.replies = Tail(@), !.sent = FALSE,
                            !.round = 1, !.first = "none"]
    /\ AttemptEnds(t, Head(link.replies))
    /\ outage' = [outage EXCEPT !.failing = FALSE]
    /\ UNCHANGED <<request, phase, tries, outcome, belief, spool, peeked,
                   serverVars, bounds, history>>

\* reconnect_backoff is over.
BackoffEnds ==
    /\ link.backoff
    /\ link' = [link EXCEPT !.backoff = FALSE]
    /\ UNCHANGED <<threadVars, holder, outage, belief, spool, peeked,
                   serverVars, bounds, history, silence>>

\* A job's thread takes the mutex.
Acquire(job) ==
    /\ pc[job] = "ask" /\ holder = Nobody
    /\ holder' = job
    /\ pc' = [pc EXCEPT ![job] = "attempt"]
    /\ UNCHANGED <<request, result, phase, tries, outcome, link, outage, belief,
                   spool, peeked, serverVars, bounds, history, silence>>

-----------------------------------------------------------------------------
(* A job: prove, prove_committee and deliver.                              *)

\* A caller goes on with a proof or an empty one, and not with an error.
ChildrenBack(job) == \A child \in Children[job] : outcome[child] \in {"proved", "empty"}

\* TableBelief::plan
Plan(job) ==
    IF belief.digest = NoTable THEN Full(job)
    ELSE Naming(job, belief.digest, InOrder(Members[job] \ belief.sent))

\* TableBelief::adopt
Adopt(req) ==
    [digest |-> ResultingDigest(req),
     sent |-> Range(req.added) \cup (IF req.base = <<>> THEN {} ELSE belief.sent)]

\* A second ask names the table the first left, with nothing to add (settled).
Settled(job, b) ==
    IF job \in Committee /\ b.digest # NoTable THEN Naming(job, b.digest, <<>>)
    ELSE request[job]

\* The prover is gone: an error, whatever this ask might have got.
Refuse(job) ==
    /\ pc[job] = "new"
    /\ ChildrenBack(job)
    /\ outage.gone
    /\ pc' = [pc EXCEPT ![job] = "done"]
    /\ outcome' = [outcome EXCEPT ![job] = "gone"]
    /\ UNCHANGED <<request, result, phase, tries, sharedVars, serverVars, bounds, history, silence>>

\* A witness no frame carries is never sent: it goes unproven.
TooLarge(job) ==
    /\ pc[job] = "new"
    /\ ChildrenBack(job)
    /\ ~outage.gone /\ job \in Oversized
    /\ pc' = [pc EXCEPT ![job] = "done"]
    /\ outcome' = [outcome EXCEPT ![job] = "empty"]
    /\ UNCHANGED <<request, result, phase, tries, sharedVars, serverVars, bounds, history, silence>>

Ask(job) ==
    /\ pc[job] = "new"
    /\ ChildrenBack(job)
    /\ ~outage.gone /\ job \notin Oversized
    /\ pc' = [pc EXCEPT ![job] = "ask"]
    /\ request' = [request EXCEPT ![job] = IF job \in Committee THEN Plan(job) ELSE Whole(job)]
    /\ overlapped' = overlapped \cup
         (IF job \in Committee
          THEN LET others == {j \in Committee : pc[j] \in {"ask", "attempt", "answered"}}
               IN IF others = {} THEN {} ELSE others \cup {job}
          ELSE {})
    /\ UNCHANGED <<result, phase, tries, outcome, sharedVars, serverVars, bounds,
                   recovered, dropped, rejected, spooled, damaged, undercut, silence>>

Answered(job) == pc[job] = "answered"
Failed(job) == result[job].kind \in {"unanswered", "timeout"}

\* Whether deliver's loop asks a link again: only for a stage the store keeps,
\* never after a timeout, and a bounded number of times.
WorthAskingAgain(job) ==
    /\ phase[job] = "first" /\ job \in Persisted
    /\ result[job].kind = "unanswered"
    /\ tries[job] < LinkRetries /\ ~outage.gone

AskLinkAgain(job) ==
    /\ Answered(job)
    /\ WorthAskingAgain(job)
    /\ tries' = [tries EXCEPT ![job] = @ + 1]
    /\ pc' = [pc EXCEPT ![job] = "ask"]
    /\ UNCHANGED <<request, result, phase, outcome, sharedVars, serverVars,
                   bounds, history, silence>>

\* NeedMemberTable, to a request that left keys out: they are sent, once.
SendKeys(job) ==
    /\ Answered(job)
    /\ phase[job] = "first" /\ result[job].kind = "need_table"
    /\ request[job].base # <<>>
    /\ request' = [request EXCEPT ![job] = Full(job)]
    /\ phase' = [phase EXCEPT ![job] = "keys"]
    /\ pc' = [pc EXCEPT ![job] = "ask"]
    /\ UNCHANGED <<result, tries, outcome, sharedVars, serverVars, bounds, history, silence>>

\* Any answer but NeedMemberTable says that the server took the keys.
Took(job) ==
    IF job \in Committee /\ phase[job] # "again"
       /\ result[job].kind \in {"proved", "failed"}
    THEN Adopt(request[job]) ELSE belief

\* Mutant: the second ask is the first one over again.
AskRefusedAgainVerbatim(job) ==
    /\ Answered(job)
    /\ phase[job] # "again" /\ result[job].kind = "failed"
    /\ belief' = Took(job)
    /\ phase' = [phase EXCEPT ![job] = "again"]
    /\ pc' = [pc EXCEPT ![job] = "ask"]
    /\ UNCHANGED <<request, result, tries, outcome, holder, link, outage, spool,
                   peeked, serverVars, bounds, history, silence>>

\* A witness refused once is offered once more.
AskRefusedAgain(job) ==
    /\ Answered(job)
    /\ phase[job] # "again" /\ result[job].kind = "failed"
    /\ belief' = Took(job)
    /\ request' = [request EXCEPT ![job] = Settled(job, belief')]
    /\ phase' = [phase EXCEPT ![job] = "again"]
    /\ pc' = [pc EXCEPT ![job] = "ask"]
    /\ UNCHANGED <<result, tries, outcome, holder, link, outage, spool, peeked,
                   serverVars, bounds, history, silence>>

Finish(job, what) ==
    /\ pc' = [pc EXCEPT ![job] = "done"]
    /\ outcome' = [outcome EXCEPT ![job] = what]
    /\ UNCHANGED <<request, result, phase, tries>>

\* The proof is checked against the job's own outputs before it is one.
Proved(job) ==
    /\ Answered(job)
    /\ result[job].kind = "proved"
    /\ Finish(job, IF result[job].job = job THEN "proved" ELSE "mismatch")
    /\ belief' = Took(job)
    /\ UNCHANGED <<holder, link, outage, spool, peeked, serverVars, bounds, history, silence>>

RefusedTwice(job) ==
    /\ Answered(job)
    /\ phase[job] = "again" /\ result[job].kind = "failed"
    /\ Finish(job, "refused")
    /\ UNCHANGED <<sharedVars, serverVars, bounds, history, silence>>

\* Asked for a table it was just given.
TableTwice(job) ==
    /\ Answered(job)
    /\ result[job].kind = "need_table"
    /\ phase[job] # "first" \/ request[job].base = <<>>
    /\ Finish(job, "table")
    /\ UNCHANGED <<sharedVars, serverVars, bounds, history, silence>>

\* Mutant: a push makes no room.
PushedBeyond(queue, job) == Append(queue, job)

\* The oldest goes to make room.
Overflow(queue) == IF Len(queue) >= SpoolCapacity THEN {Head(queue)} ELSE {}
WithRoom(queue) == IF Len(queue) >= SpoolCapacity THEN Tail(queue) ELSE queue
Pushed(queue, job) == Append(WithRoom(queue), job)

\* Spool::push.  Room is made before the write, which may fail.
Push(job) ==
    /\ \/ spool' = Pushed(spool, job) /\ UNCHANGED <<diskFaults, damaged>>
       \/ DiskFails /\ spool' = WithRoom(spool) /\ damaged' = damaged \cup {job}
    /\ dropped' = dropped \cup Overflow(spool)
    /\ undercut' = undercut \cup (Overflow(spool) \cap {peeked})
    /\ spooled' = spooled \cup {job}

\* Mutant: an unproven stage is empty whatever the stage.
UnprovenAlwaysEmpty(job) == IF outage.gone THEN "gone" ELSE "empty"

\* What the caller gets of a witness nobody answered for.
Unproven(job) ==
    IF outage.gone THEN "gone" ELSE IF job \in Persisted THEN "lost" ELSE "empty"

\* The witness is spooled whole, and the run goes on where it can.
Unanswered(job) ==
    /\ Answered(job)
    /\ Failed(job) /\ ~WorthAskingAgain(job)
    /\ Finish(job, Unproven(job))
    /\ Push(job)
    /\ UNCHANGED <<holder, link, outage, belief, peeked, serverVars, faults, clients,
                   restarts, recovered, rejected, overlapped, silence>>

-----------------------------------------------------------------------------
(* The backfill.                                                           *)

\* backfill_once reads the front and finds the foreground quiet.
Peek ==
    /\ pc[Backfill] = "new"
    /\ spool # <<>>
    /\ peeked' = Head(spool)
    /\ pc' = [pc EXCEPT ![Backfill] = "peeked"]
    /\ UNCHANGED <<request, result, phase, tries, outcome, holder, link, outage,
                   belief, spool, serverVars, bounds, history, silence>>

\* The connection is not free: it is left alone.
TryLockFails ==
    /\ pc[Backfill] = "peeked"
    /\ holder # Nobody
    /\ pc' = [pc EXCEPT ![Backfill] = "new"]
    /\ peeked' = Nobody
    /\ UNCHANGED <<request, result, phase, tries, outcome, holder, link, outage,
                   belief, spool, serverVars, bounds, history, silence>>

\* The file is read, and asked for whole.
TryLock ==
    /\ pc[Backfill] = "peeked"
    /\ holder = Nobody
    /\ peeked \in Range(spool)
    /\ holder' = Backfill
    /\ pc' = [pc EXCEPT ![Backfill] = "attempt"]
    /\ request' = [request EXCEPT ![Backfill] = Whole(peeked)]
    /\ UNCHANGED <<result, phase, tries, outcome, link, outage, belief, spool,
                   peeked, serverVars, bounds, history, silence>>

\* It cannot be read, dropped meanwhile or damaged, and the front is popped,
\* whatever is there by now.
Unreadable ==
    /\ pc[Backfill] = "peeked"
    /\ holder = Nobody
    /\ IF peeked \in Range(spool)
       THEN DiskFails /\ damaged' = damaged \cup {peeked}
       ELSE UNCHANGED <<diskFaults, damaged>>
    /\ spool' = IF spool = <<>> THEN spool ELSE Tail(spool)
    /\ pc' = [pc EXCEPT ![Backfill] = "new"]
    /\ peeked' = Nobody
    /\ UNCHANGED <<request, result, phase, tries, outcome, holder, link, outage,
                   belief, serverVars, faults, clients, restarts, recovered, dropped,
                   rejected, spooled, undercut, overlapped, silence>>

\* What backfill_once does with the attempt.
Backfilled(next, kept, ofRecovered, ofRejected) ==
    /\ pc[Backfill] = "answered"
    /\ pc' = [pc EXCEPT ![Backfill] = next]
    /\ holder' = Nobody
    /\ peeked' = Nobody
    /\ spool' = IF kept \/ spool = <<>> THEN spool ELSE Tail(spool)
    /\ recovered' = recovered \cup ofRecovered
    /\ rejected' = rejected \cup ofRejected
    /\ UNCHANGED <<request, result, phase, tries, outcome, link, outage, belief,
                   serverVars, faults, clients, restarts, dropped, spooled,
                   damaged, undercut, overlapped, silence>>

\* A proof is written under recovered/, and the front is popped.
Recover ==
    /\ result[Backfill].kind = "proved"
    /\ UNCHANGED diskFaults
    /\ Backfilled("new", FALSE, {peeked}, {})

\* What the circuit rejects it will reject again.
Reject ==
    /\ result[Backfill].kind \in {"failed", "need_table"}
    /\ UNCHANGED diskFaults
    /\ Backfilled("new", FALSE, {}, {peeked})

NoProof ==
    \/ Failed(Backfill) /\ UNCHANGED diskFaults
    \/ result[Backfill].kind = "proved" /\ DiskFails

\* Mutant: the entry is popped before its proof is there.
KeepPopsFront == NoProof /\ Backfilled(IF outage.gone THEN "done" ELSE "new", FALSE, {}, {})

\* Mutant: any failure ends the backfill.
KeepEnds == NoProof /\ Backfilled("done", TRUE, {}, {})

\* No answer, or a proof that cannot be written: the entry keeps its place, and
\* a prover that is gone ends the thread.
Keep == NoProof /\ Backfilled(IF outage.gone THEN "done" ELSE "new", TRUE, {}, {})

-----------------------------------------------------------------------------
\* A handshake and a connection, and what the constructor starts from; the
\* spool is what the directory holds.
Init ==
    /\ pc = [t \in Threads |-> "new"]
    /\ request = [t \in Threads |-> NoRequest]
    /\ result = [t \in Threads |-> NoResult]
    /\ phase = [job \in Jobs |-> "first"]
    /\ tries = [job \in Jobs |-> 0]
    /\ outcome = [job \in Jobs |-> "none"]
    /\ holder = Nobody
    /\ link = FreshLink
    /\ outage = Answering
    /\ belief = NoBelief
    /\ spool = <<>>
    /\ peeked = Nobody
    /\ tables = <<>>
    /\ orphans = {}
    /\ faults = 0 /\ clients = 0 /\ restarts = 0 /\ diskFaults = 0
    /\ recovered = {} /\ dropped = {} /\ rejected = {} /\ spooled = {}
    /\ damaged = {} /\ undercut = {} /\ overlapped = {}
    /\ silence = 0

\* The process ends, killed or on an error, and connect runs again: only the
\* spool is left.
Restart ==
    /\ MayHappen
    /\ restarts' = restarts + 1
    /\ LET inFlight == {job \in Jobs : pc[job] \notin {"new", "done"}}
       IN /\ outcome' = [job \in Jobs |-> IF job \in inFlight THEN "died" ELSE outcome[job]]
          /\ pc' = [t \in Threads |-> IF t \in inFlight THEN "done"
                                      ELSE IF t = Backfill THEN "new" ELSE pc[t]]
    /\ orphans' = orphans \cup Range(link.requests)
    /\ link' = FreshLink
    /\ holder' = Nobody
    /\ outage' = Answering
    /\ belief' = NoBelief
    /\ peeked' = Nobody
    /\ silence' = 0
    /\ UNCHANGED <<request, result, phase, tries, spool, tables, faults, clients,
                   diskFaults, history>>

JobStep(job) ==
    \/ Refuse(job) \/ TooLarge(job) \/ Ask(job) \/ Acquire(job)
    \/ AskLinkAgain(job) \/ SendKeys(job) \/ AskRefusedAgain(job)
    \/ Proved(job) \/ RefusedTwice(job) \/ TableTwice(job) \/ Unanswered(job)

BackfillStep ==
    Peek \/ TryLockFails \/ TryLock \/ Unreadable \/ Recover \/ Reject \/ Keep

AttemptStep(t) == Dial(t) \/ Send(t) \/ LinkFails(t) \/ Read(t)

ServerStep == ServeClient \/ ServeOrphan

Environment ==
    \/ OtherClient \/ ServerRestarts \/ LinkDrops \/ Restart
    \/ \E t \in Threads : DialFails(t) \/ TimesOut(t)

Next ==
    \/ \E job \in Jobs : JobStep(job)
    \/ BackfillStep
    \/ \E t \in Threads : AttemptStep(t)
    \/ ServerStep
    \/ BackoffEnds
    \/ Environment

Spec == Init /\ [][Next]_vars

\* Every thread goes on, the server answers or the deadline passes, and a
\* backoff ends.
FairSpec ==
    /\ Spec
    /\ \A job \in Jobs : WF_vars(JobStep(job))
    /\ WF_vars(BackfillStep)
    /\ \A t \in Threads : WF_vars(AttemptStep(t))
    /\ WF_vars(ServeClient)
    /\ WF_vars(BackoffEnds)

-----------------------------------------------------------------------------
(* Properties.                                                             *)

Requests == [job : Jobs \cup {Nobody}, base : Seq(Int), added : Seq(Int)]
Outcomes == {"none", "proved", "empty", "gone", "lost", "refused", "table",
             "mismatch", "died"}

TypeOK ==
    /\ pc \in [Threads -> {"new", "ask", "attempt", "answered", "peeked", "done"}]
    /\ \A t \in Threads : request[t] \in Requests
    /\ phase \in [Jobs -> {"first", "keys", "again"}]
    /\ tries \in [Jobs -> 0 .. LinkRetries]
    /\ outcome \in [Jobs -> Outcomes]
    /\ holder \in Threads \cup {Nobody}
    /\ Range(link.requests) \subseteq Requests /\ Len(link.requests) <= 1
    /\ link.round \in 1 .. 2
    /\ outage \in [failing : BOOLEAN, gone : BOOLEAN]
    /\ belief.sent \subseteq Nat
    /\ Range(spool) \subseteq Jobs /\ Len(spool) <= SpoolCapacity
    /\ peeked \in Jobs \cup {Nobody}
    /\ Len(tables) <= TablesHeld
    /\ orphans \subseteq Requests
    /\ faults + clients + restarts \in 0 .. MaxEvents /\ diskFaults \in 0 .. MaxDiskFaults

\* remote_prover.rs:1233-1265 and 1737-1746: a reply that comes late, of a
\* request this end gave up and sent again, is never read as the answer to
\* another one, so a proof from an honest server never fails the check.
RepliesAreToTheRequest ==
    \A t \in Threads :
        pc[t] = "answered" /\ result[t].kind \in {"proved", "failed", "need_table"} =>
            result[t].job = request[t].job

\* prover.rs:105-127, remote_prover.rs:1421-1429 and 1695-1703: of the stages the
\* store keeps, an outage leaves none without a proof and none with a proof over
\* one that is missing, whatever failed while it and its children were made: the
\* epoch ends in an error and not in the store.  The one empty proof that gets
\* there is of a witness no frame carries.
OutageSparesTheStore ==
    \A job \in Persisted :
        /\ outcome[job] = "empty" => job \in Oversized
        /\ outcome[job] = "proved" => \A child \in Children[job] : outcome[child] = "proved"

\* prover.rs:107-113, with no exception.  deliver hands back an empty proof of a
\* witness over the cap before it asks what stage it is of (remote_prover.rs:1421),
\* so this does not hold.
StoreKeepsRealProofs == \A job \in Persisted : outcome[job] # "empty"

\* remote_prover.rs:1535-1550: one refusal cannot tell a bad witness from a sick
\* prover and two can.  With one sick answer, and any evictions and restarts on
\* the way, a refusal that stops the run is of a witness the circuit does not
\* take; and one thing that goes wrong does not end in a quarrel over the keys.
\* For committee witnesses as long as no two were ever asked for at once: two
\* that overlap leave a belief that marks keys its table does not have, and a
\* later one is refused for it, with nothing sick.
RefusalIsOfTheWitness ==
    \A job \in {j \in Jobs : j \in Committee => overlapped = {}} :
        /\ outcome[job] = "refused" => ~Accepts(job) \/ faults > 1
        /\ outcome[job] = "table" => ~Accepts(job) \/ faults + clients + restarts > 1

\* What the spool was handed and has nothing to show for.
Lost == spooled \ (Range(spool) \cup recovered \cup rejected \cup dropped \cup damaged)

\* remote_prover.rs:860, 909-946, 1777-1850: a witness the server never took is
\* kept until it is proved, refused, dropped for room or failed by the disk,
\* whoever pushes while the backfill pops.  But the backfill pops whatever is at the
\* front when it is done (1801, 1821, 1836, 1848): when the entry it was at has been
\* dropped meanwhile, another goes without a trace.  Each costs one at most.
UndercutCostsOne == Cardinality(Lost) <= Cardinality(undercut)

\* remote_prover.rs:69-84: the prover is declared gone only after failing
\* continuously: an attempt before this one failed, and none was answered since.
GoneOnlyAfterSilence == [][outage'.gone /\ ~outage.gone => silence > 0]_vars

\* remote_prover.rs:39-41: an outage costs a bounded time.  Whatever the link and
\* the server do, every ask comes back to its caller.
EveryAskEnds == \A job \in Jobs : pc[job] = "ask" ~> pc[job] = "done"

\* remote_prover.rs:58-59: once nothing more fails, the spool drains, unless the
\* prover was declared gone.
SpoolDrains == <>[](spool = <<>> \/ outage.gone)
=============================================================================
