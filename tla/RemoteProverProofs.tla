-------------------------- MODULE RemoteProverProofs --------------------------
(***************************************************************************)
(* Proofs about RemoteProver, for any set of jobs and children, any        *)
(* committees, any number of retries, any capacity of the spool and of the *)
(* server's cache, and any number of faults.                               *)
(***************************************************************************)
EXTENDS RemoteProver, SortingTheorems, SequenceTheorems

-----------------------------------------------------------------------------
(* The sets the variables range over.                                      *)

States == {"new", "ask", "attempt", "answered", "peeked", "done"}
ReplyKinds == {"proved", "failed", "need_table"}
SilentKinds == {"unanswered", "timeout"}
Asks == [job : Jobs \cup {Nobody}, base : Seq(Int), added : Seq(Nat)]
Replies == [kind : ReplyKinds, job : Jobs \cup {Nobody}]
Results == [kind : ReplyKinds \cup SilentKinds \cup {"none"}, job : Jobs \cup {Nobody}]
Links == [stream : BOOLEAN, broken : BOOLEAN, backoff : BOOLEAN,
          requests : Seq(Asks), replies : Seq(Replies),
          round : 1 .. 2, first : SilentKinds \cup {"none"}, sent : BOOLEAN]
Beliefs == [digest : Seq(Int), sent : SUBSET Nat]

ThreadTypes ==
    /\ pc \in [Threads -> States]
    /\ request \in [Threads -> Asks]
    /\ result \in [Threads -> Results]
    /\ phase \in [Jobs -> {"first", "keys", "again"}]
    /\ tries \in [Jobs -> 0 .. LinkRetries]
    /\ outcome \in [Jobs -> Outcomes]

SharedTypes ==
    /\ holder \in Threads \cup {Nobody}
    /\ link \in Links
    /\ outage \in [failing : BOOLEAN, gone : BOOLEAN]
    /\ belief \in Beliefs
    /\ spool \in Seq(Jobs) /\ Len(spool) <= SpoolCapacity
    /\ peeked \in Jobs \cup {Nobody}

ServerTypes ==
    /\ tables \in Seq(Seq(Int)) /\ Len(tables) <= TablesHeld
    /\ orphans \subseteq Asks

CountTypes ==
    /\ faults \in Nat /\ clients \in Nat /\ restarts \in Nat
    /\ faults + clients + restarts <= MaxEvents
    /\ diskFaults \in 0 .. MaxDiskFaults

Types == ThreadTypes /\ SharedTypes /\ ServerTypes /\ CountTypes

-----------------------------------------------------------------------------
(* What is on the wire.                                                    *)

\* A reply to a request is for its job; only a request that names a table is
\* asked for one, and only what the circuit takes is proved.
AnswerTo(reply, req) ==
    /\ reply.job = req.job
    /\ reply.kind = "need_table" => CarriesTable(req)
    /\ reply.kind = "proved" /\ req.job \in Jobs => Accepts(req.job)

\* One thread at a time attempts, and while a request of its is out, what is on
\* the connection is that request or its answer, or nothing any more.
OneAttempt ==
    /\ \A t \in Threads : pc[t] = "attempt" => holder = t
    /\ link.sent => holder \in Threads /\ pc[holder] = "attempt"
    /\ pc[Backfill] \in {"attempt", "answered"} => holder = Backfill

Nothing == link.requests = <<>> /\ link.replies = <<>>
Asking == link.requests = <<request[holder]>> /\ link.replies = <<>>
Replying ==
    /\ link.requests = <<>>
    /\ \E reply \in Replies : link.replies = <<reply>> /\ AnswerTo(reply, request[holder])

OnTheWire ==
    /\ ~link.sent => Nothing
    /\ link.sent => Nothing \/ Asking \/ Replying

\* What a job asks is its own, and only a committee witness names a table.
OwnRequests ==
    /\ \A job \in Jobs :
          /\ CarriesTable(request[job]) => job \in Committee
          /\ pc[job] \in {"ask", "attempt", "answered"} => request[job].job = job
    /\ ~CarriesTable(request[Backfill])

OwnAnswers ==
    \A t \in Threads :
        pc[t] = "answered" /\ result[t].kind \in ReplyKinds => AnswerTo(result[t], request[t])

\* The first error is kept for as long as the second round lasts.
Rounds ==
    \/ link.round = 1 /\ link.first = "none"
    \/ link.round = 2 /\ link.first \in SilentKinds

\* An outcome is the last of a job.
OutcomesLast == \A job \in Jobs : outcome[job] # "none" => pc[job] = "done"

Wire == OneAttempt /\ OnTheWire /\ OwnRequests /\ OwnAnswers /\ Rounds /\ OutcomesLast

Inv1 == Types /\ Wire

-----------------------------------------------------------------------------
(* What the shared state says of the jobs.                                 *)

\* Only proofs over proofs are proofs, and only a stage the store does not keep
\* goes unproven in silence.
Store ==
    \A job \in Jobs :
        /\ pc[job] # "new" => ChildrenBack(job)
        /\ outcome[job] = "proved" => Accepts(job)
        /\ outcome[job] = "empty" => job \notin Persisted \/ job \in Oversized
        /\ outcome[job] # "mismatch"

\* While the outage lasts no attempt was answered.
Silent == silence \in Nat /\ (outage.failing => silence > 0)

\* A witness is handed to the spool once, when its job ends, and is not there
\* any more once it was dropped.
HandedOver ==
    /\ \A job \in spooled : job \in Jobs /\ pc[job] = "done"
    /\ Range(spool) \cup undercut \subseteq spooled
    /\ Range(spool) \cap undercut = {}
    /\ IsInjective(spool)

\* The front is what the backfill peeked, until that is dropped.
FrontIsPeeked ==
    pc[Backfill] \in {"peeked", "attempt", "answered"} =>
        peeked \in undercut \/ (spool # <<>> /\ peeked = Head(spool))

\* A witness dropped under the backfill is paid for when the backfill is done.
AtStake == IF peeked \in undercut THEN 1 ELSE 0
Paid == Cardinality(Lost) + AtStake <= Cardinality(undercut)

Spooled == HandedOver /\ FrontIsPeeked /\ Paid

-----------------------------------------------------------------------------
(* The types are kept.                                                     *)

\* A record of the sets above, member by member.
LEMMA ConstantAsks ==
    /\ NoRequest \in Asks /\ NoResult \in Results
    /\ FreshLink \in Links /\ NoBelief \in Beliefs
    /\ \A job \in Jobs \cup {Nobody} : Whole(job) \in Asks
    /\ Naming(Nobody, <<>>, Foreign) \in Asks
<1>1. NoTable \in Seq(Int) /\ Foreign \in Seq(Nat)
  BY DEF NoTable, Foreign
<1>2. <<>> \in Seq(Nat) /\ <<>> \in Seq(Int) /\ <<>> \in Seq(Asks) /\ <<>> \in Seq(Replies)
  BY EmptySeq
<1> HIDE DEF NoTable
<1> QED
  BY <1>1, <1>2 DEF NoRequest, NoResult, FreshLink, NoBelief, Whole, Naming, Asks, Results,
     Links, Beliefs, SilentKinds

\* The keys a committee witness is sent with are its members', in order.
LEMMA KeysType ==
    ASSUME NEW job \in Committee, NEW without
    PROVE  LET keys == InOrder(Members[job] \ without)
           IN  keys \in Seq(Nat) /\ Range(keys) = Members[job] \ without
<1> DEFINE S == Members[job] \ without
           keys == InOrder(S)
<1>1. Members[job] \in SUBSET Nat /\ IsFiniteSet(Members[job])
  BY JobsAssumption
<1>2. S \in SUBSET Int /\ S \in SUBSET Nat /\ IsFiniteSet(S)
  BY <1>1, FS_Subset
<1> HIDE DEF S
<1>3. /\ keys \in [1 .. Cardinality(S) -> S] /\ keys \in Seq(S)
      /\ \A x \in S : \E i \in 1 .. Cardinality(S) : keys[i] = x
  BY <1>2, InOrderSorts
<1>4. Range(keys) = S
  BY <1>3 DEF Range
<1>5. keys \in Seq(Nat)
  BY <1>2, <1>3, SeqMonotonic
<1> QED
  BY <1>4, <1>5 DEF S

LEMMA FullType ==
    ASSUME NEW job \in Committee
    PROVE  /\ Full(job) \in Asks
           /\ Full(job).job = job /\ Full(job).base = <<>>
           /\ Range(Full(job).added) = Members[job]
<1>1. Members[job] \ {} = Members[job]
  OBVIOUS
<1>2. InOrder(Members[job]) \in Seq(Nat) /\ Range(InOrder(Members[job])) = Members[job]
  BY <1>1, KeysType
<1>3. <<>> \in Seq(Int) /\ job \in Jobs
  BY JobsAssumption, EmptySeq
<1> QED
  BY <1>2, <1>3 DEF Full, Naming, Asks

LEMMA PlanType ==
    ASSUME NEW job \in Committee, belief \in Beliefs
    PROVE  Plan(job) \in Asks /\ Plan(job).job = job
<1>1. InOrder(Members[job] \ belief.sent) \in Seq(Nat)
  BY KeysType
<1>2. belief.digest \in Seq(Int) /\ job \in Jobs
  BY JobsAssumption DEF Beliefs
<1>3. Naming(job, belief.digest, InOrder(Members[job] \ belief.sent)) \in Asks
  BY <1>1, <1>2 DEF Naming, Asks
<1> QED
  BY <1>3, FullType DEF Plan, Naming

LEMMA DigestType ==
    ASSUME NEW req \in Asks
    PROVE  /\ ResultingDigest(req) \in Seq(Int)
           /\ Range(ResultingDigest(req)) = Range(req.base) \cup Range(req.added)
           /\ Range(req.added) \in SUBSET Nat
<1>1. req.base \in Seq(Int) /\ req.added \in Seq(Nat)
  BY DEF Asks
<1>2. req.added \in Seq(Int)
  BY <1>1, SeqMonotonic
<1> QED
  BY <1>1, <1>2, ConcatProperties, RangeConcatenation, RangeOfSeq DEF ResultingDigest

LEMMA AdoptType ==
    ASSUME NEW req \in Asks, belief \in Beliefs
    PROVE  Adopt(req) \in Beliefs
<1>1. Range(req.added) \in SUBSET Nat /\ belief.sent \in SUBSET Nat
  BY DigestType DEF Beliefs
<1>2. ResultingDigest(req) \in Seq(Int)
  BY DigestType
<1> QED
  BY <1>1, <1>2 DEF Adopt, Beliefs

\* What is used goes last, and of the rest only the least recently used goes.
LEMMA RemoveFirstKeeps ==
    ASSUME NEW S, NEW s \in Seq(S), NEW e, Contains(s, e)
    PROVE  /\ RemoveFirst(s, e) \in Seq(S)
           /\ Len(RemoveFirst(s, e)) = Len(s) - 1
<1> DEFINE I == {i \in 1 .. Len(s) : s[i] = e}
           k == Min(I)
<1>1. Len(s) \in Nat
  BY LenProperties
<1>2. I # {} /\ I \in SUBSET Nat
  BY <1>1 DEF Contains
<1>3. \E x \in I : \A y \in I : x <= y
  BY <1>2, LeastNatural
<1>4. k \in I
  BY <1>3 DEF Min
<1>5. RemoveFirst(s, e) = SubSeq(s, 1, k - 1) \o SubSeq(s, k + 1, Len(s))
  BY <1>2 DEF RemoveFirst, RemoveAt, SelectInSeq, Contains
<1> HIDE DEF k
<1>6. k \in 1 .. Len(s)
  BY <1>4
<1>7. /\ SubSeq(s, 1, k - 1) \in Seq(S) /\ Len(SubSeq(s, 1, k - 1)) = k - 1
      /\ SubSeq(s, k + 1, Len(s)) \in Seq(S) /\ Len(SubSeq(s, k + 1, Len(s))) = Len(s) - k
  BY <1>1, <1>6, ElementOfSeq, SubSeqProperties
<1> DEFINE before == SubSeq(s, 1, k - 1)
           after == SubSeq(s, k + 1, Len(s))
<1>8. before \o after \in Seq(S) /\ Len(before \o after) = Len(before) + Len(after)
  <2> HIDE DEF before, after
  <2>1. before \in Seq(S) /\ after \in Seq(S)
    BY <1>7 DEF before, after
  <2> QED
    BY <2>1, ConcatProperties
<1>9. Len(before \o after) = Len(s) - 1
  <2> HIDE DEF before, after
  <2>1. Len(before) = k - 1 /\ Len(after) = Len(s) - k
    BY <1>7 DEF before, after
  <2> QED
    BY <1>1, <1>6, <1>8, <2>1
<1> QED
  BY <1>5, <1>8, <1>9

LEMMA TablesAfterType ==
    ASSUME NEW held \in Seq(Seq(Int)), Len(held) <= TablesHeld, NEW req \in Asks
    PROVE  TablesAfter(held, req) \in Seq(Seq(Int)) /\ Len(TablesAfter(held, req)) <= TablesHeld
<1> DEFINE digest == ResultingDigest(req)
<1>1. digest \in Seq(Int) /\ TablesHeld \in Nat \ {0} /\ Len(held) \in Nat
  BY DigestType, BoundsAssumption, LenProperties
<1> HIDE DEF digest
<1>2. ASSUME NEW e, Contains(held, e)
      PROVE  /\ Append(RemoveFirst(held, e), digest) \in Seq(Seq(Int))
             /\ Len(Append(RemoveFirst(held, e), digest)) <= TablesHeld
  <2>1. RemoveFirst(held, e) \in Seq(Seq(Int)) /\ Len(RemoveFirst(held, e)) = Len(held) - 1
    BY <1>2, RemoveFirstKeeps
  <2> QED
    BY <1>1, <2>1, AppendProperties
<1>3. /\ Append(Room(held), digest) \in Seq(Seq(Int))
      /\ Len(Append(Room(held), digest)) <= TablesHeld
  <2>1. Room(held) \in Seq(Seq(Int)) /\ Len(Room(held)) < TablesHeld
    <3>1. CASE Len(held) >= TablesHeld
      <4>1. held # <<>>
        BY <1>1, <3>1
      <4> QED
        BY <1>1, <3>1, <4>1, HeadTailProperties DEF Room
    <3> QED
      BY <1>1, <3>1 DEF Room
  <2>2. Len(Room(held)) \in Nat
    BY <2>1, LenProperties
  <2> QED
    BY <1>1, <2>1, <2>2, AppendProperties
<1> QED
  BY <1>2, <1>3 DEF TablesAfter, NeedsTable, Rebuilt, digest

LEMMA InitTypes == Init => Types
<1> SUFFICES ASSUME Init PROVE Types
  OBVIOUS
<1>1. /\ <<>> \in Seq(Jobs) /\ Len(<<>>) = 0
      /\ <<>> \in Seq(Seq(Int))
  BY EmptySeq
<1>2. LinkRetries \in Nat /\ MaxEvents \in Nat /\ SpoolCapacity \in Nat /\ TablesHeld \in Nat
      /\ MaxDiskFaults \in Nat
  BY BoundsAssumption
<1>3. ThreadTypes
  BY <1>2, ConstantAsks DEF Init, ThreadTypes, States, Outcomes
<1>4. SharedTypes
  BY <1>1, <1>2, ConstantAsks DEF Init, SharedTypes, Answering
<1>5. ServerTypes /\ CountTypes
  BY <1>1, <1>2 DEF Init, ServerTypes, CountTypes
<1> QED
  BY <1>3, <1>4, <1>5 DEF Types

\* What an answer is, of whichever request.
LEMMA AnswersType ==
    ASSUME NEW held, NEW req \in Asks, NEW reply \in Answers(held, req)
    PROVE  reply \in Replies /\ reply.job = req.job
<1>1. req.job \in Jobs \cup {Nobody}
  BY DEF Asks
<1> QED
  BY <1>1 DEF Answers, Replies, ReplyKinds

\* The server's steps.
LEMMA ServerKeepsTypes ==
    ASSUME Types, ServerStep \/ OtherClient \/ ServerRestarts \/ LinkDrops
    PROVE  Types'
<1> USE DEF Types
<1>1. link \in Links /\ link.requests \in Seq(Asks) /\ link.replies \in Seq(Replies)
  BY DEF SharedTypes, Links
<1>2. MaxEvents \in Nat
  BY BoundsAssumption
<1>3. <<>> \in Seq(Asks) /\ <<>> \in Seq(Replies) /\ <<>> \in Seq(Seq(Int)) /\ Len(<<>>) = 0
  BY EmptySeq
<1>4. tables \in Seq(Seq(Int)) /\ Len(tables) <= TablesHeld /\ orphans \subseteq Asks
  BY DEF ServerTypes
<1>5. CASE ServeClient
  <2> DEFINE req == Head(link.requests)
  <2>1. /\ UNCHANGED <<threadVars, holder, outage, belief, spool, peeked, orphans, clients,
                       restarts, diskFaults>>
        /\ link.requests # <<>>
    BY <1>5 DEF ServeClient
  <2>2. PICK reply \in Answers(tables, req) :
          /\ faults' = IF Sick(tables, req, reply) THEN faults + 1 ELSE faults
          /\ faults' + clients + restarts <= MaxEvents
          /\ tables' = TablesAfter(tables, req)
          /\ link' = [link EXCEPT !.requests = Tail(@), !.replies = Append(@, reply)]
    BY <1>5 DEF ServeClient
  <2>3. req \in Asks /\ Tail(link.requests) \in Seq(Asks)
    BY <1>1, <2>1, HeadTailProperties
  <2>4. Append(link.replies, reply) \in Seq(Replies)
    <3>1. reply \in Replies
      BY <2>3, AnswersType
    <3> QED
      BY <1>1, <3>1, AppendProperties
  <2> HIDE DEF req
  <2>5. link' \in Links
    BY <1>1, <2>2, <2>3, <2>4 DEF Links
  <2>6. SharedTypes'
    BY <2>1, <2>5 DEF SharedTypes
  <2>7. ServerTypes'
    BY <1>4, <2>1, <2>2, <2>3, TablesAfterType DEF ServerTypes
  <2>8. ThreadTypes' /\ CountTypes'
    BY <2>1, <2>2 DEF ThreadTypes, threadVars, CountTypes
  <2> QED
    BY <2>6, <2>7, <2>8
<1>6. CASE ServeOrphan
  <2>1. PICK req \in orphans :
          /\ tables' = TablesAfter(tables, req)
          /\ orphans' = orphans \ {req}
          /\ UNCHANGED <<threadVars, sharedVars, bounds>>
    BY <1>6 DEF ServeOrphan
  <2>2. req \in Asks
    BY <1>4
  <2>3. ServerTypes'
    BY <1>4, <2>1, <2>2, TablesAfterType DEF ServerTypes
  <2>4. ThreadTypes' /\ SharedTypes' /\ CountTypes'
    BY <2>1 DEF ThreadTypes, threadVars, SharedTypes, sharedVars, CountTypes, bounds
  <2> QED
    BY <2>3, <2>4
<1>7. CASE OtherClient
  <2> DEFINE req == Naming(Nobody, <<>>, Foreign)
  <2>1. /\ tables' = Rebuilt(tables, req)
        /\ MayHappen /\ clients' = clients + 1
        /\ UNCHANGED <<threadVars, sharedVars, orphans, faults, restarts, diskFaults>>
    BY <1>7 DEF OtherClient
  <2>2. Rebuilt(tables, req) = TablesAfter(tables, req)
    <3>1. req.base = <<>> /\ <<>> # <<-1>>
      BY DEF Naming
    <3> QED
      BY <3>1 DEF TablesAfter, CarriesTable, NeedsTable, NoTable
  <2>3. ServerTypes'
    BY <1>4, <2>1, <2>2, ConstantAsks, TablesAfterType DEF ServerTypes
  <2>4. ThreadTypes' /\ SharedTypes'
    BY <2>1 DEF ThreadTypes, threadVars, SharedTypes, sharedVars
  <2>5. CountTypes'
    BY <1>2, <2>1 DEF CountTypes, MayHappen
  <2> QED
    BY <2>3, <2>4, <2>5
<1>8. CASE ServerRestarts \/ LinkDrops
  <2>1. /\ link' = [link EXCEPT !.broken = TRUE, !.requests = <<>>, !.replies = <<>>]
        /\ tables' \in {tables, <<>>}
        /\ orphans' \in {{}, orphans \cup Range(link.requests)}
        /\ MayHappen /\ faults' = faults + 1
        /\ UNCHANGED <<threadVars, holder, outage, belief, spool, peeked, clients, restarts,
                       diskFaults>>
    BY <1>8 DEF ServerRestarts, LinkDrops
  <2>2. link' \in Links
    BY <1>1, <1>3, <2>1 DEF Links
  <2>3. ServerTypes'
    <3>1. Range(link.requests) \subseteq Asks
      BY <1>1, RangeOfSeq
    <3>2. 0 <= TablesHeld
      BY BoundsAssumption
    <3> QED
      BY <1>3, <1>4, <2>1, <3>1, <3>2 DEF ServerTypes
  <2>4. ThreadTypes' /\ SharedTypes'
    BY <2>1, <2>2 DEF ThreadTypes, threadVars, SharedTypes
  <2>5. CountTypes'
    BY <1>2, <2>1 DEF CountTypes, MayHappen
  <2> QED
    BY <2>3, <2>4, <2>5
<1> QED
  BY <1>5, <1>6, <1>7, <1>8 DEF ServerStep

\* The steps of an attempt, and what they make of the link.
LEMMA LinkUpdates ==
    ASSUME NEW l \in Links
    PROVE  /\ GivenUp(l) \in Links
           /\ \A kind \in SilentKinds : [GivenUp(l) EXCEPT !.round = 2, !.first = kind] \in Links
           /\ [GivenUp(l) EXCEPT !.round = 1, !.first = "none"] \in Links
           /\ \A replies \in Seq(Replies) :
                 [l EXCEPT !.replies = replies, !.sent = FALSE,
                           !.round = 1, !.first = "none"] \in Links
           /\ \A requests \in Seq(Asks) :
                 [l EXCEPT !.requests = requests, !.sent = TRUE] \in Links
           /\ [l EXCEPT !.stream = TRUE] \in Links
           /\ [l EXCEPT !.backoff = TRUE] \in Links
           /\ [l EXCEPT !.backoff = FALSE] \in Links
<1>1. <<>> \in Seq(Asks) /\ <<>> \in Seq(Replies)
  BY EmptySeq
<1>2. GivenUp(l) \in Links
  BY <1>1 DEF GivenUp, Links
<1>3. \A m \in Links : /\ \A kind \in SilentKinds : [m EXCEPT !.round = 2, !.first = kind] \in Links
                       /\ [m EXCEPT !.round = 1, !.first = "none"] \in Links
  <2>1. ASSUME NEW m \in Links, NEW kind \in SilentKinds \cup {"none"}, NEW round \in 1 .. 2
        PROVE  [m EXCEPT !.round = round, !.first = kind] \in Links
    BY DEF Links
  <2>2. 1 \in 1 .. 2 /\ 2 \in 1 .. 2
    OBVIOUS
  <2> QED
    BY <2>1, <2>2, Zenon
<1>4. \A replies \in Seq(Replies) : [l EXCEPT !.replies = replies, !.sent = FALSE] \in Links
  BY DEF Links
<1>5. ASSUME NEW replies \in Seq(Replies)
      PROVE  [l EXCEPT !.replies = replies, !.sent = FALSE, !.round = 1, !.first = "none"] \in Links
  <2> DEFINE m == [l EXCEPT !.replies = replies, !.sent = FALSE]
  <2>1. [m EXCEPT !.round = 1, !.first = "none"]
          = [l EXCEPT !.replies = replies, !.sent = FALSE, !.round = 1, !.first = "none"]
    OBVIOUS
  <2> QED
    BY <1>3, <1>4, <2>1
<1>6. \A requests \in Seq(Asks) : [l EXCEPT !.requests = requests, !.sent = TRUE] \in Links
  BY DEF Links
<1>7. /\ [l EXCEPT !.stream = TRUE] \in Links
      /\ [l EXCEPT !.backoff = TRUE] \in Links
      /\ [l EXCEPT !.backoff = FALSE] \in Links
  BY DEF Links
<1> QED
  BY <1>2, <1>3, <1>5, <1>6, <1>7

LEMMA RoundFailsTypes ==
    ASSUME Types, NEW t \in Threads, NEW kind \in SilentKinds, NEW l \in Links,
           RoundFails(t, kind, l)
    PROVE  ThreadTypes' /\ SharedTypes' /\ ServerTypes'
<1> USE DEF Types
<1>1. /\ [GivenUp(l) EXCEPT !.round = 2, !.first = kind] \in Links
      /\ [GivenUp(l) EXCEPT !.round = 1, !.first = "none"] \in Links
  BY LinkUpdates
<1>3. link' \in Links
  <2>1. \/ link' = [GivenUp(l) EXCEPT !.round = 2, !.first = kind]
        \/ link' = [GivenUp(l) EXCEPT !.round = 1, !.first = "none"]
    BY Zenon DEF RoundFails
  <2> QED
    BY <1>1, <2>1
<1>4. ThreadTypes'
  <2>1. [kind |-> l.first, job |-> Nobody] \in Results
    BY DEF Links, Results
  <2> QED
    BY <2>1 DEF ThreadTypes, RoundFails, AttemptEnds, States
<1>5. SharedTypes'
  <2>1. outage' \in [failing : BOOLEAN, gone : BOOLEAN]
    <3>1. outage \in [failing : BOOLEAN, gone : BOOLEAN]
      BY DEF SharedTypes
    <3>2. outage' = outage \/ NoteFailure
      BY Zenon DEF RoundFails
    <3>3. CASE NoteFailure
      <4>1. PICK runOut \in {FALSE, outage.failing} :
              outage' = [failing |-> TRUE, gone |-> outage.gone \/ runOut]
        BY <3>3 DEF NoteFailure
      <4>2. (outage.gone \/ runOut) \in BOOLEAN
        BY Zenon
      <4> QED
        BY <4>1, <4>2
    <3> QED
      BY <3>1, <3>2, <3>3
  <2>2. holder' \in Threads \cup {Nobody}
    BY DEF SharedTypes, RoundFails, AttemptEnds
  <2> QED
    BY <1>3, <2>1, <2>2 DEF SharedTypes, RoundFails
<1>6. ServerTypes'
  <2>1. l.requests \in Seq(Asks)
    BY DEF Links
  <2>2. Range(l.requests) \subseteq Asks
    BY <2>1, RangeOfSeq
  <2> QED
    BY <2>2 DEF ServerTypes, RoundFails
<1> QED
  BY <1>4, <1>5, <1>6

LEMMA AttemptKeepsTypes ==
    ASSUME Types, NEW t \in Threads, AttemptStep(t) \/ DialFails(t) \/ TimesOut(t)
    PROVE  Types'
<1> USE DEF Types
<1>1. link \in Links
  BY DEF SharedTypes
<1>2. MaxEvents \in Nat
  BY BoundsAssumption
<1>3. CASE Dial(t)
  <2>1. link' \in Links /\ belief' \in Beliefs
    BY <1>1, <1>3, ConstantAsks DEF Dial, Links, SharedTypes
  <2> QED
    BY <1>3, <2>1 DEF Dial, ThreadTypes, threadVars, SharedTypes, ServerTypes, serverVars,
       CountTypes, bounds
<1>4. CASE Send(t)
  <2>1. request[t] \in Asks /\ link.requests \in Seq(Asks)
    BY <1>1 DEF ThreadTypes, Links
  <2>2. Append(link.requests, request[t]) \in Seq(Asks)
    BY <2>1, AppendProperties
  <2>3. link' \in Links
    BY <1>1, <1>4, <2>2 DEF Send, Links
  <2>4. SharedTypes'
    BY <1>4, <2>3 DEF Send, SharedTypes
  <2> QED
    BY <1>4, <2>4 DEF Send, ThreadTypes, threadVars, ServerTypes, serverVars,
       CountTypes, bounds
<1>5. CASE Read(t)
  <2>1. link.replies \in Seq(Replies) /\ link.replies # <<>>
    BY <1>1, <1>5 DEF Read, Links
  <2>2. Tail(link.replies) \in Seq(Replies) /\ Head(link.replies) \in Replies
    BY <2>1, HeadTailProperties
  <2>3. link' \in Links
    <3>1. link' = [link EXCEPT !.replies = Tail(link.replies), !.sent = FALSE,
                               !.round = 1, !.first = "none"]
      BY <1>5 DEF Read
    <3> QED
      BY <1>1, <2>2, <3>1, LinkUpdates
  <2>4. Head(link.replies) \in Results
    BY <2>2 DEF Replies, Results
  <2>5. ThreadTypes'
    BY <1>5, <2>4 DEF Read, AttemptEnds, ThreadTypes, States
  <2>6. outage' \in [failing : BOOLEAN, gone : BOOLEAN] /\ holder' \in Threads \cup {Nobody}
    BY <1>5 DEF Read, AttemptEnds, SharedTypes
  <2> QED
    BY <1>5, <2>3, <2>5, <2>6 DEF Read, SharedTypes, ServerTypes, serverVars, CountTypes, bounds
<1>6. CASE LinkFails(t)
  <2>1. RoundFails(t, "unanswered", link) /\ UNCHANGED faults
    BY <1>6 DEF LinkFails
  <2> QED
    BY <1>1, <2>1, RoundFailsTypes DEF SilentKinds, CountTypes, RoundFails
<1>7. CASE DialFails(t)
  <2>1. /\ RoundFails(t, "unanswered", [link EXCEPT !.backoff = TRUE])
        /\ MayHappen /\ faults' = faults + 1
    BY <1>7 DEF DialFails
  <2>2. [link EXCEPT !.backoff = TRUE] \in Links
    BY <1>1 DEF Links
  <2>3. CountTypes'
    BY <1>2, <2>1 DEF CountTypes, MayHappen, RoundFails
  <2> QED
    BY <2>1, <2>2, <2>3, RoundFailsTypes DEF SilentKinds
<1>8. CASE TimesOut(t)
  <2>1. RoundFails(t, "timeout", link) /\ MayHappen /\ faults' = faults + 1
    BY <1>8 DEF TimesOut
  <2>2. CountTypes'
    BY <1>2, <2>1 DEF CountTypes, MayHappen, RoundFails
  <2> QED
    BY <1>1, <2>1, <2>2, RoundFailsTypes DEF SilentKinds
<1> QED
  BY <1>3, <1>4, <1>5, <1>6, <1>7, <1>8 DEF AttemptStep

LEMMA DiskCount ==
    ASSUME CountTypes, UNCHANGED diskFaults \/ DiskFails
    PROVE  diskFaults' \in 0 .. MaxDiskFaults
<1>1. MaxDiskFaults \in Nat /\ diskFaults \in 0 .. MaxDiskFaults
  BY BoundsAssumption DEF CountTypes
<1> QED
  BY <1>1 DEF DiskFails

\* The steps of a job's thread.
LEMMA JobKeepsTypes ==
    ASSUME Types, OwnRequests, OwnAnswers, NEW job \in Jobs, JobStep(job)
    PROVE  Types'
<1> USE DEF Types
<1>1. job \in Threads /\ request[job] \in Asks /\ belief \in Beliefs
  BY DEF Threads, ThreadTypes, SharedTypes
<1>2. LinkRetries \in Nat /\ SpoolCapacity \in Nat /\ SpoolCapacity > 0
  BY BoundsAssumption
<1>3. ASSUME UNCHANGED <<sharedVars, serverVars, bounds>>
      PROVE  SharedTypes' /\ ServerTypes' /\ CountTypes'
  BY <1>3 DEF SharedTypes, sharedVars, ServerTypes, serverVars, CountTypes, bounds
<1>4. Took(job) \in Beliefs
  BY <1>1, AdoptType DEF Took
<1>5. ASSUME NEW b \in Beliefs, b.digest # NoTable
      PROVE  Naming(job, b.digest, <<>>) \in Asks
  <2>1. b.digest \in Seq(Int) /\ <<>> \in Seq(Nat)
    BY EmptySeq DEF Beliefs
  <2> QED
    BY <2>1 DEF Naming, Asks
<1>6. CASE Acquire(job)
  BY <1>1, <1>6 DEF Acquire, ThreadTypes, States, SharedTypes, ServerTypes, serverVars,
     CountTypes, bounds
<1>7. CASE Refuse(job) \/ TooLarge(job) \/ RefusedTwice(job) \/ TableTwice(job)
  <2>1. /\ pc' = [pc EXCEPT ![job] = "done"]
        /\ \E what \in Outcomes : outcome' = [outcome EXCEPT ![job] = what]
        /\ UNCHANGED <<request, result, phase, tries, sharedVars, serverVars, bounds>>
    BY <1>7 DEF Refuse, TooLarge, RefusedTwice, TableTwice, Finish, Outcomes
  <2>2. ThreadTypes'
    BY <2>1 DEF ThreadTypes, States
  <2> QED
    BY <1>3, <2>1, <2>2
<1>8. CASE Ask(job)
  <2>1. /\ pc' = [pc EXCEPT ![job] = "ask"]
        /\ request' = [request EXCEPT ![job] = IF job \in Committee THEN Plan(job) ELSE Whole(job)]
        /\ UNCHANGED <<result, phase, tries, outcome, sharedVars, serverVars, bounds>>
    BY <1>8 DEF Ask
  <2>2. (IF job \in Committee THEN Plan(job) ELSE Whole(job)) \in Asks
    BY <1>1, PlanType, ConstantAsks
  <2>3. ThreadTypes'
    BY <2>1, <2>2 DEF ThreadTypes, States
  <2> QED
    BY <1>3, <2>1, <2>3
<1>9. CASE AskLinkAgain(job)
  <2>1. tries[job] \in 0 .. LinkRetries /\ tries[job] < LinkRetries
    BY <1>9 DEF AskLinkAgain, WorthAskingAgain, ThreadTypes
  <2>2. tries[job] + 1 \in 0 .. LinkRetries
    BY <1>2, <2>1
  <2>3. ThreadTypes'
    BY <1>9, <2>2 DEF AskLinkAgain, ThreadTypes, States
  <2> QED
    BY <1>3, <1>9, <2>3 DEF AskLinkAgain
<1>10. CASE SendKeys(job)
  <2>1. job \in Committee => Full(job) \in Asks
    BY FullType
  <2>2. Full(job) \in Asks
    <3>1. job \in Committee
      BY <1>1, <1>10 DEF SendKeys, Answered, OwnAnswers, OwnRequests, AnswerTo, ReplyKinds
    <3> QED
      BY <2>1, <3>1
  <2>3. ThreadTypes'
    BY <1>10, <2>2 DEF SendKeys, ThreadTypes, States
  <2> QED
    BY <1>3, <1>10, <2>3 DEF SendKeys
<1>11. CASE AskRefusedAgain(job)
  <2>1. belief' \in Beliefs
    BY <1>4, <1>11 DEF AskRefusedAgain
  <2>2. Settled(job, belief') \in Asks
    BY <1>1, <1>5, <2>1 DEF Settled
  <2>3. ThreadTypes'
    BY <1>11, <2>2 DEF AskRefusedAgain, ThreadTypes, States
  <2> QED
    BY <1>11, <2>1, <2>3 DEF AskRefusedAgain, SharedTypes, ServerTypes, serverVars,
       CountTypes, bounds
<1>12. CASE Proved(job)
  <2>1. belief' \in Beliefs
    BY <1>4, <1>12 DEF Proved
  <2>2. ThreadTypes'
    BY <1>12 DEF Proved, Finish, ThreadTypes, States, Outcomes
  <2> QED
    BY <1>12, <2>1, <2>2 DEF Proved, SharedTypes, ServerTypes, serverVars, CountTypes, bounds
<1>13. CASE Unanswered(job)
  <2>1. /\ Pushed(spool, job) \in Seq(Jobs) /\ Len(Pushed(spool, job)) <= SpoolCapacity
        /\ WithRoom(spool) \in Seq(Jobs) /\ Len(WithRoom(spool)) <= SpoolCapacity
    <3>1. spool \in Seq(Jobs) /\ Len(spool) <= SpoolCapacity /\ Len(spool) \in Nat
      BY LenProperties DEF SharedTypes
    <3>2. WithRoom(spool) \in Seq(Jobs) /\ Len(WithRoom(spool)) <= SpoolCapacity - 1
      <4>1. CASE Len(spool) >= SpoolCapacity
        <5>1. spool # <<>>
          BY <1>2, <3>1, <4>1
        <5>2. Tail(spool) \in Seq(Jobs) /\ Len(Tail(spool)) = Len(spool) - 1
          BY <3>1, <5>1, HeadTailProperties
        <5> QED
          BY <1>2, <3>1, <4>1, <5>2 DEF WithRoom
      <4>2. CASE ~(Len(spool) >= SpoolCapacity)
        BY <1>2, <3>1, <4>2 DEF WithRoom
      <4> QED
        BY <4>1, <4>2
    <3>3. /\ Pushed(spool, job) \in Seq(Jobs)
          /\ Len(Pushed(spool, job)) = Len(WithRoom(spool)) + 1
      BY <3>2, AppendProperties DEF Pushed
    <3>4. Len(WithRoom(spool)) \in Nat
      BY <3>2, LenProperties
    <3> QED
      BY <1>2, <3>2, <3>3, <3>4
  <2>2. ThreadTypes'
    BY <1>13 DEF Unanswered, Finish, Unproven, ThreadTypes, States, Outcomes
  <2>3. spool' \in {Pushed(spool, job), WithRoom(spool)}
    BY <1>13 DEF Unanswered, Push
  <2>4. CountTypes'
    BY <1>13, DiskCount DEF Unanswered, Push, CountTypes
  <2> QED
    BY <1>13, <2>1, <2>2, <2>3, <2>4 DEF Unanswered, SharedTypes, ServerTypes, serverVars
<1> QED
  BY <1>6, <1>7, <1>8, <1>9, <1>10, <1>11, <1>12, <1>13 DEF JobStep

\* The steps of the backfill: what they change, and how.
BackfillMoves(next) ==
    /\ pc[Backfill] \in {"new", "peeked", "answered"}
    /\ pc' = [pc EXCEPT ![Backfill] = next]
    /\ next = "attempt" => /\ holder = Nobody /\ holder' = Backfill
                           /\ request' = [request EXCEPT ![Backfill] = Whole(peeked)]
    /\ next # "attempt" => /\ request' = request
                           /\ holder' = holder \/ (pc[Backfill] = "answered" /\ holder' = Nobody)
    /\ peeked' \in {peeked, Nobody} \/ (spool # <<>> /\ peeked' = Head(spool))
    /\ spool' = spool \/ (spool # <<>> /\ spool' = Tail(spool))
    /\ UNCHANGED diskFaults \/ DiskFails
    /\ UNCHANGED <<result, phase, tries, outcome, link, outage, belief, serverVars,
                   faults, clients, restarts, dropped, undercut, spooled, overlapped,
                   silence>>

LEMMA BackfillDoes ==
    ASSUME BackfillStep
    PROVE  \E next \in {"new", "peeked", "attempt", "done"} : BackfillMoves(next)
<1>1. ASSUME NEW next \in {"new", "done"}, NEW kept, NEW ofRecovered, NEW ofRejected,
             Backfilled(next, kept, ofRecovered, ofRejected), UNCHANGED diskFaults \/ DiskFails
      PROVE  BackfillMoves(next)
  BY <1>1 DEF Backfilled, BackfillMoves, serverVars
<1>2. CASE Recover
  <2>1. Backfilled("new", FALSE, {peeked}, {}) /\ UNCHANGED diskFaults
    BY <1>2 DEF Recover
  <2> QED
    BY <1>1, <2>1
<1>3. CASE Reject
  <2>1. Backfilled("new", FALSE, {}, {peeked}) /\ UNCHANGED diskFaults
    BY <1>3 DEF Reject
  <2> QED
    BY <1>1, <2>1
<1>4. CASE Keep
  <2>1. /\ Backfilled("done", TRUE, {}, {}) \/ Backfilled("new", TRUE, {}, {})
        /\ UNCHANGED diskFaults \/ DiskFails
    BY <1>4 DEF Keep, NoProof
  <2> QED
    BY <1>1, <2>1
<1>5. CASE Peek
  <2>1. BackfillMoves("peeked")
    BY <1>5 DEF Peek, BackfillMoves, serverVars, bounds, history
  <2> QED
    BY <2>1
<1>6. CASE TryLockFails
  <2>1. BackfillMoves("new")
    BY <1>6 DEF TryLockFails, BackfillMoves, serverVars, bounds, history
  <2> QED
    BY <2>1
<1>7. CASE TryLock
  <2>1. BackfillMoves("attempt")
    BY <1>7 DEF TryLock, BackfillMoves, serverVars, bounds, history
  <2> QED
    BY <2>1
<1>8. CASE Unreadable
  <2>1. BackfillMoves("new")
    BY <1>8 DEF Unreadable, BackfillMoves, serverVars, bounds, history
  <2> QED
    BY <2>1
<1> QED
  BY <1>2, <1>3, <1>4, <1>5, <1>6, <1>7, <1>8 DEF BackfillStep

LEMMA BackfillKeepsTypes ==
    ASSUME Types, BackfillStep
    PROVE  Types'
<1> USE DEF Types
<1>1. /\ spool \in Seq(Jobs) /\ Len(spool) <= SpoolCapacity /\ Len(spool) \in Nat
      /\ peeked \in Jobs \cup {Nobody}
      /\ SpoolCapacity \in Nat
  BY LenProperties, BoundsAssumption DEF SharedTypes
<1>2. spool # <<>> => /\ Head(spool) \in Jobs
                      /\ Tail(spool) \in Seq(Jobs) /\ Len(Tail(spool)) = Len(spool) - 1
  BY <1>1, HeadTailProperties
<1>3. Backfill \in Threads
  BY DEF Threads
<1>4. PICK next \in {"new", "peeked", "attempt", "done"} : BackfillMoves(next)
  BY BackfillDoes
<1>5. ThreadTypes'
  BY <1>1, <1>3, <1>4, ConstantAsks DEF ThreadTypes, BackfillMoves, States
<1>6. SharedTypes'
  <2>1. holder' \in Threads \cup {Nobody}
    BY <1>3, <1>4 DEF SharedTypes, BackfillMoves
  <2>2. spool' \in Seq(Jobs) /\ Len(spool') <= SpoolCapacity /\ peeked' \in Jobs \cup {Nobody}
    BY <1>1, <1>2, <1>4 DEF BackfillMoves
  <2> QED
    BY <1>4, <2>1, <2>2 DEF SharedTypes, BackfillMoves
<1>7. CountTypes'
  BY <1>4, DiskCount DEF BackfillMoves, CountTypes
<1> QED
  BY <1>4, <1>5, <1>6, <1>7 DEF BackfillMoves, ServerTypes, serverVars

LEMMA OtherStepsKeepTypes ==
    ASSUME Types, BackoffEnds \/ Restart
    PROVE  Types'
<1> USE DEF Types
<1>1. link \in Links
  BY DEF SharedTypes
<1>2. CASE BackoffEnds
  <2>1. link' \in Links
    BY <1>1, <1>2, LinkUpdates DEF BackoffEnds
  <2> QED
    BY <1>2, <2>1 DEF BackoffEnds, ThreadTypes, threadVars, SharedTypes, ServerTypes,
       serverVars, CountTypes, bounds
<1>3. CASE Restart
  <2>1. link.requests \in Seq(Asks)
    BY <1>1 DEF Links
  <2>2. Range(link.requests) \subseteq Asks
    BY <2>1, RangeOfSeq
  <2>3. ServerTypes'
    BY <1>3, <2>2 DEF Restart, ServerTypes
  <2>4. ThreadTypes'
    BY <1>3 DEF Restart, ThreadTypes, States, Outcomes
  <2>5. SharedTypes'
    BY <1>3, ConstantAsks DEF Restart, SharedTypes, Answering
  <2>6. MaxEvents \in Nat /\ faults \in Nat /\ clients \in Nat /\ restarts \in Nat
    BY BoundsAssumption DEF CountTypes
  <2>7. CountTypes'
    BY <1>3, <2>6 DEF Restart, CountTypes, MayHappen
  <2> QED
    BY <2>3, <2>4, <2>5, <2>7
<1> QED
  BY <1>2, <1>3

-----------------------------------------------------------------------------
(* What is on the wire belongs to whoever asked.                           *)

\* The steps of a job's thread: what they change, and how.
JobMoves(job, next) ==
    /\ pc[job] \in {"new", "ask", "answered"}
    /\ pc' = [pc EXCEPT ![job] = next]
    /\ next = "attempt" => holder = Nobody /\ holder' = job
    /\ next # "attempt" => holder' = holder
    /\ \A other \in Threads \ {job} : request'[other] = request[other]
    /\ CarriesTable(request'[job]) => job \in Committee
    /\ next \in {"ask", "attempt"} => request'[job].job = job
    /\ \A other \in Jobs \ {job} : outcome'[other] = outcome[other]
    /\ next # "done" => outcome' = outcome
    /\ UNCHANGED <<result, link, outage, peeked, tables, orphans, faults, clients,
                   restarts, silence>>

LEMMA JobDoes ==
    ASSUME Types, OwnRequests, OwnAnswers, NEW job \in Jobs, JobStep(job)
    PROVE  \E next \in {"ask", "attempt", "done"} : JobMoves(job, next)
<1>1. /\ job \in Threads
      /\ request \in [Threads -> Asks]
      /\ outcome \in [Jobs -> Outcomes]
      /\ CarriesTable(request[job]) => job \in Committee
      /\ pc[job] \in {"ask", "attempt", "answered"} => request[job].job = job
  BY DEF Threads, Types, ThreadTypes, OwnRequests
<1>2. CASE Refuse(job) \/ TooLarge(job) \/ RefusedTwice(job) \/ TableTwice(job) \/ Unanswered(job)
                       \/ Proved(job)
  <2>1. JobMoves(job, "done")
    BY <1>1, <1>2 DEF Refuse, TooLarge, RefusedTwice, TableTwice, Unanswered, Proved, Finish,
       Answered, JobMoves, sharedVars, serverVars, bounds
  <2> QED
    BY <2>1
<1>3. CASE Acquire(job)
  <2>1. JobMoves(job, "attempt")
    BY <1>1, <1>3 DEF Acquire, JobMoves, serverVars, bounds
  <2> QED
    BY <2>1
<1>4. ASSUME pc[job] \in {"new", "answered"},
             pc' = [pc EXCEPT ![job] = "ask"],
             NEW req, request' = [request EXCEPT ![job] = req],
             req.job = job, CarriesTable(req) => job \in Committee,
             UNCHANGED <<result, outcome, holder, link, outage, peeked, tables, orphans,
                         faults, clients, restarts, silence>>
      PROVE  JobMoves(job, "ask")
  BY <1>1, <1>4 DEF JobMoves
<1>5. CASE Ask(job)
  <2> DEFINE req == IF job \in Committee THEN Plan(job) ELSE Whole(job)
  <2>1. req.job = job
    BY DEF Plan, Full, Naming, Whole
  <2>2. CarriesTable(req) => job \in Committee
    BY DEF CarriesTable, Whole
  <2> HIDE DEF req
  <2>3. /\ pc[job] = "new" /\ pc' = [pc EXCEPT ![job] = "ask"]
        /\ request' = [request EXCEPT ![job] = req]
        /\ UNCHANGED <<result, outcome, holder, link, outage, peeked, tables, orphans,
                       faults, clients, restarts, silence>>
    BY <1>5 DEF Ask, req, sharedVars, serverVars, bounds
  <2> QED
    BY <1>4, <2>1, <2>2, <2>3
<1>6. CASE AskLinkAgain(job)
  <2>1. JobMoves(job, "ask")
    BY <1>1, <1>6 DEF AskLinkAgain, Answered, JobMoves, sharedVars, serverVars, bounds
  <2> QED
    BY <2>1
<1>7. CASE SendKeys(job)
  <2>1. job \in Committee
    BY <1>1, <1>7 DEF SendKeys, Answered, OwnAnswers, OwnRequests, AnswerTo, ReplyKinds
  <2>2. Full(job).job = job
    BY DEF Full, Naming
  <2>3. /\ pc[job] = "answered" /\ pc' = [pc EXCEPT ![job] = "ask"]
        /\ request' = [request EXCEPT ![job] = Full(job)]
        /\ UNCHANGED <<result, outcome, holder, link, outage, peeked, tables, orphans,
                       faults, clients, restarts, silence>>
    BY <1>7 DEF SendKeys, Answered, sharedVars, serverVars, bounds
  <2> QED
    BY <1>4, <2>1, <2>2, <2>3
<1>8. CASE AskRefusedAgain(job)
  <2> DEFINE req == Settled(job, belief')
  <2>1. /\ pc[job] = "answered" /\ pc' = [pc EXCEPT ![job] = "ask"]
        /\ request' = [request EXCEPT ![job] = req]
        /\ UNCHANGED <<result, outcome, holder, link, outage, peeked, tables, orphans,
                       faults, clients, restarts, silence>>
    BY <1>8 DEF AskRefusedAgain, Answered, serverVars, bounds
  <2>2. req.job = job /\ (CarriesTable(req) => job \in Committee)
    BY <1>1, <2>1 DEF Settled, Naming
  <2> HIDE DEF req
  <2> QED
    BY <1>4, <2>1, <2>2
<1> QED
  BY <1>2, <1>3, <1>5, <1>6, <1>7, <1>8 DEF JobStep

\* The steps of the server and of the network do not touch a thread.
LEMMA ServerMoves ==
    ASSUME ServerStep \/ OtherClient \/ ServerRestarts \/ LinkDrops
    PROVE  UNCHANGED <<pc, request, result, phase, tries, outcome, holder, outage, belief,
                       spool, peeked, history, silence>>
  BY DEF ServerStep, ServeClient, ServeOrphan, OtherClient, ServerRestarts, LinkDrops,
     threadVars, sharedVars

\* An attempt goes on, or ends; either way it is its own thread's.
AttemptMoves(t) ==
    /\ holder = t /\ pc[t] = "attempt"
    /\ UNCHANGED <<request, phase, tries, outcome, spool, peeked, clients, restarts, history>>
    /\ \/ UNCHANGED <<pc, result, holder, silence>>
       \/ \E ending : AttemptEnds(t, ending)

LEMMA AttemptDoes ==
    ASSUME NEW t \in Threads, AttemptStep(t) \/ DialFails(t) \/ TimesOut(t)
    PROVE  AttemptMoves(t)
<1>1. ASSUME NEW kind, NEW l, RoundFails(t, kind, l), holder = t, pc[t] = "attempt"
      PROVE  AttemptMoves(t)
  <2>1. CASE l.round = 1
    BY <1>1, <2>1 DEF RoundFails, AttemptMoves, history
  <2>2. CASE l.round # 1
    <3>1. AttemptEnds(t, [kind |-> l.first, job |-> Nobody])
      BY <1>1, <2>2 DEF RoundFails
    <3> QED
      BY <1>1, <3>1 DEF RoundFails, AttemptMoves, history
  <2> QED
    BY <2>1, <2>2
<1>2. CASE Dial(t) \/ Send(t)
  BY <1>2 DEF Dial, Send, Attempting, AttemptMoves, threadVars, bounds
<1>3. CASE Read(t)
  <2>1. AttemptEnds(t, Head(link.replies))
    BY <1>3 DEF Read
  <2> QED
    BY <1>3, <2>1 DEF Read, Attempting, AttemptMoves, bounds
<1>4. CASE LinkFails(t)
  BY <1>1, <1>4 DEF LinkFails, Attempting
<1>5. CASE DialFails(t)
  BY <1>1, <1>5 DEF DialFails, Attempting
<1>6. CASE TimesOut(t)
  BY <1>1, <1>6 DEF TimesOut, Attempting
<1> QED
  BY <1>2, <1>3, <1>4, <1>5, <1>6 DEF AttemptStep

\* Whatever the step, an outcome stands; so does what the circuit takes.
LEMMA OutcomesStay ==
    ASSUME Types, OwnRequests, OwnAnswers, OutcomesLast, Next
    PROVE  \A job \in Jobs : outcome[job] # "none" => outcome'[job] = outcome[job]
<1> SUFFICES ASSUME NEW job \in Jobs, outcome[job] # "none"
             PROVE  outcome'[job] = outcome[job]
  OBVIOUS
<1>1. pc[job] = "done" /\ job \in Threads
  BY DEF OutcomesLast, Threads
<1>2. CASE \E other \in Jobs : JobStep(other)
  <2>1. PICK other \in Jobs, next \in {"ask", "attempt", "done"} : JobMoves(other, next)
    BY <1>2, JobDoes
  <2> QED
    BY <1>1, <2>1 DEF JobMoves
<1>3. CASE BackfillStep
  BY <1>3, BackfillDoes DEF BackfillMoves
<1>4. CASE \E t \in Threads : AttemptStep(t) \/ DialFails(t) \/ TimesOut(t)
  BY <1>4, AttemptDoes DEF AttemptMoves
<1>5. CASE ServerStep \/ OtherClient \/ ServerRestarts \/ LinkDrops
  BY <1>5, ServerMoves
<1>6. CASE BackoffEnds
  BY <1>6 DEF BackoffEnds, threadVars
<1>7. CASE Restart
  BY <1>1, <1>7 DEF Restart
<1> QED
  BY <1>2, <1>3, <1>4, <1>5, <1>6, <1>7 DEF Next, Environment

LEMMA AcceptsStays ==
    ASSUME Types, OwnRequests, OwnAnswers, OutcomesLast, Next
    PROVE  \A job \in Jobs :
             /\ Accepts(job) => Accepts(job)'
             /\ ChildrenBack(job) => ChildrenBack(job)' /\ (Accepts(job)' => Accepts(job))
<1> SUFFICES ASSUME NEW job \in Jobs
             PROVE  /\ Accepts(job) => Accepts(job)'
                    /\ ChildrenBack(job) => ChildrenBack(job)' /\ (Accepts(job)' => Accepts(job))
  OBVIOUS
<1>1. \A child \in Children[job] : outcome[child] # "none" => outcome'[child] = outcome[child]
  BY OutcomesStay, JobsAssumption
<1> QED
  BY <1>1 DEF Accepts, ChildrenBack

LEMMA AnswerStays ==
    ASSUME Types, OwnRequests, OwnAnswers, OutcomesLast, Next,
           NEW reply, NEW req, AnswerTo(reply, req)
    PROVE  AnswerTo(reply, req)'
  BY AcceptsStays DEF AnswerTo

-----------------------------------------------------------------------------

LEMMA InitWire == Init => Wire
<1> SUFFICES ASSUME Init PROVE Wire
  OBVIOUS
<1>1. \A t \in Threads : pc[t] = "new" /\ request[t] = NoRequest
  BY DEF Init
<1>2. Backfill \in Threads /\ Jobs \subseteq Threads
  BY DEF Threads
<1>3. OneAttempt /\ OnTheWire /\ Rounds
  BY <1>1, <1>2 DEF Init, OneAttempt, OnTheWire, Rounds, Nothing, FreshLink
<1>4. OwnRequests /\ OwnAnswers /\ OutcomesLast
  BY <1>1, <1>2 DEF Init, OwnRequests, OwnAnswers, OutcomesLast, CarriesTable, NoRequest
<1> QED
  BY <1>3, <1>4 DEF Wire

\* What the server answers is an answer to the request.
LEMMA ServerAnswers ==
    ASSUME Types, NEW req \in Asks, NEW reply \in Answers(tables, req)
    PROVE  /\ reply \in Replies /\ AnswerTo(reply, req)
           /\ reply.kind = "need_table" =>
                req.base # <<>> /\ CarriesTable(req) /\ ~Contains(tables, req.base)
           /\ reply.kind # "need_table" => ~NeedsTable(tables, req)
<1>1. reply \in Replies /\ reply.job = req.job
  BY AnswersType
<1>2. /\ reply.kind = "need_table" => NeedsTable(tables, req)
      /\ reply.kind # "need_table" => ~NeedsTable(tables, req)
      /\ reply.kind = "proved" => Accepts(req.job)
  BY DEF Answers
<1> QED
  BY <1>1, <1>2 DEF AnswerTo, NeedsTable

LEMMA ServerKeepsWire ==
    ASSUME Types, Wire, Next, ServerStep \/ OtherClient \/ ServerRestarts \/ LinkDrops
    PROVE  Wire'
<1> USE DEF Wire
<1>1. /\ UNCHANGED <<pc, request, result, phase, tries, outcome, holder, outage, belief,
                     spool, peeked, history, silence>>
  BY ServerMoves
<1>2. link \in Links /\ request \in [Threads -> Asks]
  BY DEF Types, SharedTypes, ThreadTypes
<1>3. link' = link \/ (link'.requests = <<>> /\ link'.replies = <<>>)
                   \/ (ServeClient /\ link.requests # <<>>)
  BY <1>2 DEF ServerStep, ServeClient, ServeOrphan, OtherClient, ServerRestarts, LinkDrops,
     sharedVars, Links
<1>4. link'.sent = link.sent /\ link'.round = link.round /\ link'.first = link.first
  BY <1>2 DEF ServerStep, ServeClient, ServeOrphan, OtherClient, ServerRestarts, LinkDrops,
     sharedVars, Links
<1>5. OneAttempt' /\ OwnRequests' /\ OwnAnswers' /\ Rounds' /\ OutcomesLast'
  BY <1>1, <1>4 DEF OneAttempt, OwnRequests, OwnAnswers, Rounds, OutcomesLast, AnswerTo,
     Accepts, CarriesTable
<1>6. OnTheWire'
  <2>1. CASE link' = link
    BY <1>1, <2>1 DEF OnTheWire, Nothing, Asking, Replying, AnswerTo, Accepts
  <2>2. CASE link'.requests = <<>> /\ link'.replies = <<>>
    BY <2>2 DEF OnTheWire, Nothing
  <2>3. CASE ServeClient /\ link.requests # <<>>
    <3>1. link.sent /\ link.requests = <<request[holder]>> /\ link.replies = <<>>
      BY <2>3 DEF OnTheWire, Nothing, Asking, Replying
    <3>2. holder \in Threads
      BY <3>1 DEF OneAttempt
    <3>3. request[holder] \in Asks /\ Head(link.requests) = request[holder]
      BY <1>2, <3>1, <3>2
    <3>4. PICK reply \in Answers(tables, request[holder]) :
            link' = [link EXCEPT !.requests = Tail(@), !.replies = Append(@, reply)]
      BY <2>3, <3>3 DEF ServeClient
    <3>5. link'.requests = <<>> /\ link'.replies = <<reply>>
      <4>1. Tail(link.requests) = <<>> /\ Append(link.replies, reply) = <<reply>>
        BY <3>1
      <4> QED
        BY <1>2, <3>4, <4>1 DEF Links
    <3>6. reply \in Replies /\ AnswerTo(reply, request[holder])
      BY <3>3, ServerAnswers
    <3>7. AnswerTo(reply, request[holder])'
      BY <1>1, <3>6 DEF AnswerTo, CarriesTable, Accepts
    <3> QED
      BY <1>4, <3>1, <3>5, <3>6, <3>7 DEF OnTheWire, Replying
  <2> QED
    BY <1>3, <2>1, <2>2, <2>3
<1> QED
  BY <1>5, <1>6

LEMMA JobKeepsWire ==
    ASSUME Types, Wire, Next, NEW job \in Jobs, JobStep(job)
    PROVE  Wire'
<1> USE DEF Wire
<1>1. PICK next \in {"ask", "attempt", "done"} : JobMoves(job, next)
  BY JobDoes
<1>2. /\ job \in Threads /\ job # Backfill /\ Backfill \in Threads
      /\ pc \in [Threads -> States] /\ Nobody \notin Threads
  BY JobsAssumption DEF Threads, Types, ThreadTypes, Backfill, Nobody
<1>3. /\ pc'[job] = next
      /\ \A t \in Threads \ {job} : pc'[t] = pc[t] /\ request'[t] = request[t]
      /\ UNCHANGED <<result, link>>
  BY <1>1, <1>2 DEF JobMoves
<1>4. OneAttempt'
  <2>1. CASE next = "attempt"
    <3>1. holder = Nobody /\ holder' = job
      BY <1>1, <2>1 DEF JobMoves
    <3>2. \A t \in Threads : pc[t] # "attempt"
      BY <1>2, <3>1 DEF OneAttempt
    <3>3. pc[Backfill] # "answered"
      BY <1>2, <3>1 DEF OneAttempt
    <3> QED
      BY <1>2, <1>3, <2>1, <3>1, <3>2, <3>3 DEF OneAttempt
  <2>2. CASE next # "attempt"
    <3>1. holder' = holder
      BY <1>1, <2>2 DEF JobMoves
    <3>2. pc[job] # "attempt"
      BY <1>1 DEF JobMoves
    <3> QED
      BY <1>2, <1>3, <2>2, <3>1, <3>2 DEF OneAttempt
  <2> QED
    BY <2>1, <2>2
<1>5. OnTheWire'
  <2>1. CASE ~link.sent
    BY <1>3, <2>1 DEF OnTheWire, Nothing
  <2>2. CASE link.sent
    <3>1. holder \in Threads /\ pc[holder] = "attempt"
      BY <2>2 DEF OneAttempt
    <3>2. holder' = holder /\ holder # job
      BY <1>1, <1>2, <3>1 DEF JobMoves
    <3>3. request'[holder] = request[holder]
      BY <1>3, <3>1, <3>2
    <3>4. ASSUME NEW reply \in Replies, link.replies = <<reply>>, AnswerTo(reply, request[holder])
          PROVE  AnswerTo(reply, request[holder])'
      BY <3>2, <3>3, <3>4, AcceptsStays DEF AnswerTo, CarriesTable
    <3>5. Replying => Replying'
      BY <1>3, <3>4 DEF Replying
    <3> QED
      BY <1>3, <2>2, <3>2, <3>3, <3>5 DEF OnTheWire, Nothing, Asking
  <2> QED
    BY <2>1, <2>2
<1>6. OwnRequests'
  <2>1. /\ CarriesTable(request'[job]) => job \in Committee
        /\ next \in {"ask", "attempt"} => request'[job].job = job
    BY <1>1 DEF JobMoves
  <2>2. \A other \in Jobs : (CarriesTable(request[other]) => other \in Committee)'
    BY <1>3, <2>1 DEF OwnRequests, Threads, CarriesTable
  <2>3. \A other \in Jobs : (pc[other] \in {"ask", "attempt", "answered"} => request[other].job = other)'
    BY <1>3, <2>1 DEF OwnRequests, Threads
  <2>4. ~CarriesTable(request[Backfill])'
    BY <1>2, <1>3 DEF OwnRequests, CarriesTable
  <2> QED
    BY <2>2, <2>3, <2>4 DEF OwnRequests
<1>7. OwnAnswers'
  <2> SUFFICES ASSUME NEW t \in Threads, pc'[t] = "answered", result'[t].kind \in ReplyKinds
               PROVE  AnswerTo(result[t], request[t])'
    BY DEF OwnAnswers
  <2>1. t # job /\ pc[t] = "answered" /\ result[t].kind \in ReplyKinds
    BY <1>3
  <2>2. AnswerTo(result[t], request[t])
    BY <2>1 DEF OwnAnswers
  <2> QED
    BY <1>3, <2>1, <2>2, AcceptsStays DEF AnswerTo, CarriesTable
<1>8. Rounds'
  BY <1>3 DEF Rounds
<1>9. OutcomesLast'
  <2> SUFFICES ASSUME NEW other \in Jobs, outcome'[other] # "none", pc'[other] # "done"
               PROVE  FALSE
    BY DEF OutcomesLast
  <2>1. CASE other = job
    <3>1. next # "done" /\ pc[job] # "done"
      BY <1>1, <1>3, <2>1 DEF JobMoves
    <3> QED
      BY <1>1, <2>1, <3>1 DEF JobMoves, OutcomesLast
  <2>2. CASE other # job
    BY <1>1, <1>3, <2>2 DEF JobMoves, OutcomesLast, Threads
  <2> QED
    BY <2>1, <2>2
<1> QED
  BY <1>4, <1>5, <1>6, <1>7, <1>8, <1>9

LEMMA BackfillKeepsWire ==
    ASSUME Types, Wire, Next, BackfillStep
    PROVE  Wire'
<1> USE DEF Wire
<1>1. PICK next \in {"new", "peeked", "attempt", "done"} : BackfillMoves(next)
  BY BackfillDoes
<1>2. /\ Backfill \in Threads /\ Nobody \notin Threads /\ Jobs \subseteq Threads /\ Backfill \notin Jobs
      /\ pc \in [Threads -> States] /\ request \in [Threads -> Asks]
  BY JobsAssumption DEF Threads, Types, ThreadTypes, Backfill, Nobody
<1>3. /\ pc'[Backfill] = next
      /\ \A t \in Threads \ {Backfill} : pc'[t] = pc[t] /\ request'[t] = request[t]
      /\ UNCHANGED <<result, link, outcome>>
      /\ pc[Backfill] # "attempt"
  BY <1>1, <1>2 DEF BackfillMoves
<1>4. OneAttempt'
  <2>1. CASE next = "attempt"
    <3>1. holder = Nobody /\ holder' = Backfill
      BY <1>1, <2>1 DEF BackfillMoves
    <3>2. \A t \in Threads : pc[t] # "attempt"
      BY <1>2, <3>1 DEF OneAttempt
    <3> QED
      BY <1>2, <1>3, <2>1, <3>1, <3>2 DEF OneAttempt
  <2>2. CASE next # "attempt"
    <3>1. holder' = holder \/ (pc[Backfill] = "answered" /\ holder' = Nobody)
      BY <1>1, <2>2 DEF BackfillMoves
    <3>2. CASE holder' = holder
      BY <1>2, <1>3, <2>2, <3>2 DEF OneAttempt
    <3>3. CASE pc[Backfill] = "answered" /\ holder' = Nobody
      <4>1. holder = Backfill /\ ~link.sent
        BY <1>3, <3>3 DEF OneAttempt
      <4>2. \A t \in Threads : pc[t] # "attempt"
        BY <1>3, <4>1 DEF OneAttempt
      <4> QED
        BY <1>2, <1>3, <2>2, <4>1, <4>2 DEF OneAttempt
    <3> QED
      BY <3>1, <3>2, <3>3
  <2> QED
    BY <2>1, <2>2
<1>5. OnTheWire'
  <2>1. CASE ~link.sent
    BY <1>3, <2>1 DEF OnTheWire, Nothing
  <2>2. CASE link.sent
    <3>1. holder \in Threads /\ pc[holder] = "attempt"
      BY <2>2 DEF OneAttempt
    <3>2. holder' = holder /\ holder # Backfill
      BY <1>1, <1>2, <1>3, <3>1 DEF BackfillMoves, OneAttempt
    <3>3. request'[holder] = request[holder]
      BY <1>3, <3>1, <3>2
    <3>4. Replying => Replying'
      BY <1>3, <3>2, <3>3 DEF Replying, AnswerTo, CarriesTable, Accepts
    <3> QED
      BY <1>3, <2>2, <3>2, <3>3, <3>4 DEF OnTheWire, Nothing, Asking
  <2> QED
    BY <2>1, <2>2
<1>6. OwnRequests'
  <2>1. ~CarriesTable(request[Backfill])'
    BY <1>1, <1>2 DEF BackfillMoves, OwnRequests, CarriesTable, Whole
  <2>2. \A other \in Jobs : pc'[other] = pc[other] /\ request'[other] = request[other]
    BY <1>2, <1>3
  <2> QED
    BY <2>1, <2>2 DEF OwnRequests, CarriesTable
<1>7. OwnAnswers'
  BY <1>3 DEF OwnAnswers, AnswerTo, CarriesTable, Accepts
<1>8. Rounds'
  BY <1>3 DEF Rounds
<1>9. OutcomesLast'
  BY <1>2, <1>3 DEF OutcomesLast
<1> QED
  BY <1>4, <1>5, <1>6, <1>7, <1>8, <1>9

\* A round that failed leaves nothing on the wire, and only the second ends the
\* attempt, with the error of the first.
LEMMA RoundFailsDoes ==
    ASSUME NEW t \in Threads, NEW kind \in SilentKinds, NEW l \in Links, RoundFails(t, kind, l),
           l.round = 1 \/ (l.round = 2 /\ l.first \in SilentKinds)
    PROVE  /\ ~link'.sent /\ ~link'.stream /\ ~link'.broken
           /\ link'.requests = <<>> /\ link'.replies = <<>>
           /\ orphans' = orphans \cup Range(l.requests)
           /\ UNCHANGED <<request, phase, tries, outcome, belief, spool, peeked, tables,
                          clients, restarts, history>>
           /\ \/ /\ l.round = 1 /\ link'.round = 2 /\ link'.first = kind
                 /\ UNCHANGED <<pc, result, holder, outage, silence>>
              \/ /\ l.round = 2 /\ link'.round = 1 /\ link'.first = "none"
                 /\ AttemptEnds(t, [kind |-> l.first, job |-> Nobody])
                 /\ NoteFailure
<1> DEFINE again == [GivenUp(l) EXCEPT !.round = 2, !.first = kind]
           over == [GivenUp(l) EXCEPT !.round = 1, !.first = "none"]
<1>1. /\ ~again.sent /\ ~again.stream /\ ~again.broken
      /\ again.requests = <<>> /\ again.replies = <<>>
      /\ again.round = 2 /\ again.first = kind
  BY DEF GivenUp, Links
<1>2. /\ ~over.sent /\ ~over.stream /\ ~over.broken
      /\ over.requests = <<>> /\ over.replies = <<>>
      /\ over.round = 1 /\ over.first = "none"
  BY DEF GivenUp, Links
<1>3. CASE l.round = 1
  <2>1. link' = again /\ UNCHANGED <<pc, result, holder, outage, silence>>
    BY <1>3 DEF RoundFails
  <2> HIDE DEF again
  <2> QED
    BY <1>1, <1>3, <2>1 DEF RoundFails
<1>4. CASE l.round = 2 /\ l.first \in SilentKinds
  <2>1. /\ link' = over
        /\ AttemptEnds(t, [kind |-> l.first, job |-> Nobody]) /\ NoteFailure
    BY <1>4 DEF RoundFails
  <2> HIDE DEF over
  <2> QED
    BY <1>2, <1>4, <2>1 DEF RoundFails
<1> QED
  BY <1>3, <1>4

LEMMA AttemptKeepsWire ==
    ASSUME Types, Wire, NEW t \in Threads, AttemptStep(t) \/ DialFails(t) \/ TimesOut(t)
    PROVE  Wire'
<1> USE DEF Wire
<1>1. AttemptMoves(t)
  BY AttemptDoes
<1>2. /\ link \in Links /\ request \in [Threads -> Asks]
      /\ pc \in [Threads -> States] /\ result \in [Threads -> Results]
  BY DEF Types, SharedTypes, ThreadTypes
<1>3. /\ holder = t /\ pc[t] = "attempt"
      /\ UNCHANGED <<request, outcome>>
      /\ \A other \in Threads \ {t} : pc[other] # "attempt"
      /\ pc[Backfill] = "answered" => t = Backfill
      /\ Nobody \notin Threads
      /\ Backfill \in Threads
  BY <1>1, JobsAssumption DEF AttemptMoves, OneAttempt, Threads, Backfill, Nobody
<1>4. ASSUME UNCHANGED <<pc, result, holder>>
      PROVE  /\ OwnRequests' /\ OwnAnswers' /\ OutcomesLast'
             /\ link'.sent \in BOOLEAN => OneAttempt'
  BY <1>3, <1>4 DEF OwnRequests, OwnAnswers, OutcomesLast, OneAttempt, AnswerTo, CarriesTable, Accepts
<1>5. ASSUME NEW ending, AttemptEnds(t, ending), ~link'.sent,
             ending.kind \in ReplyKinds => AnswerTo(ending, request[t])
      PROVE  OwnRequests' /\ OwnAnswers' /\ OutcomesLast' /\ OneAttempt'
  <2>1. /\ pc'[t] = "answered" /\ result'[t] = ending
        /\ \A other \in Threads \ {t} : pc'[other] = pc[other] /\ result'[other] = result[other]
        /\ t = Backfill => holder' = t
    BY <1>2, <1>5 DEF AttemptEnds
  <2>2. OneAttempt'
    BY <1>3, <1>5, <2>1 DEF OneAttempt
  <2>3. OwnAnswers'
    BY <1>3, <1>5, <2>1 DEF OwnAnswers, AnswerTo, CarriesTable, Accepts
  <2>4. OwnRequests' /\ OutcomesLast'
    BY <1>3, <2>1 DEF OwnRequests, OutcomesLast, CarriesTable, Threads
  <2> QED
    BY <2>2, <2>3, <2>4
<1>6. ASSUME NEW kind \in SilentKinds, NEW l \in Links, RoundFails(t, kind, l),
             l.round = link.round, l.first = link.first
      PROVE  Wire'
  <2>1. l.round = 1 \/ (l.round = 2 /\ l.first \in SilentKinds)
    BY <1>6 DEF Rounds
  <2>2. ~link'.sent /\ link'.requests = <<>> /\ link'.replies = <<>>
    BY <1>6, <2>1, RoundFailsDoes
  <2>3. \/ link'.round = 2 /\ link'.first = kind /\ UNCHANGED <<pc, result, holder>>
        \/ /\ link'.round = 1 /\ link'.first = "none" /\ l.first \in SilentKinds
           /\ AttemptEnds(t, [kind |-> l.first, job |-> Nobody])
    BY <1>6, <2>1, RoundFailsDoes
  <2>4. OnTheWire' /\ Rounds'
    BY <2>2, <2>3 DEF OnTheWire, Nothing, Rounds
  <2>5. CASE UNCHANGED <<pc, result, holder>>
    BY <1>4, <2>2, <2>4, <2>5 DEF OneAttempt
  <2>6. CASE l.first \in SilentKinds /\ AttemptEnds(t, [kind |-> l.first, job |-> Nobody])
    <3>1. [kind |-> l.first, job |-> Nobody].kind \notin ReplyKinds
      BY <2>6 DEF SilentKinds, ReplyKinds
    <3> QED
      BY <1>5, <2>2, <2>4, <2>6, <3>1
  <2> QED
    BY <2>3, <2>5, <2>6
<1>7. CASE Dial(t)
  <2>1. /\ UNCHANGED <<pc, result, holder>>
        /\ link'.requests = link.requests /\ link'.replies = link.replies /\ link'.sent = link.sent
        /\ link'.round = link.round /\ link'.first = link.first
    BY <1>2, <1>7 DEF Dial, threadVars, Links
  <2>2. OnTheWire' /\ Rounds'
    BY <1>3, <2>1 DEF OnTheWire, Nothing, Asking, Replying, Rounds, AnswerTo, CarriesTable, Accepts
  <2>3. OneAttempt'
    BY <2>1 DEF OneAttempt
  <2> QED
    BY <1>4, <2>1, <2>2, <2>3
<1>8. CASE Send(t)
  <2>1. link.requests = <<>> /\ link.replies = <<>>
    BY <1>8 DEF Send, OnTheWire, Nothing
  <2>2. Append(link.requests, request[t]) = <<request[t]>>
    BY <2>1
  <2>3. /\ UNCHANGED <<pc, result, holder>>
        /\ link'.requests = <<request[t]>> /\ link'.replies = <<>> /\ link'.sent
        /\ link'.round = link.round /\ link'.first = link.first
    BY <1>2, <1>8, <2>1, <2>2 DEF Send, threadVars, Links
  <2>4. OnTheWire' /\ Rounds'
    BY <1>3, <2>3 DEF OnTheWire, Asking, Rounds
  <2>5. OneAttempt'
    BY <1>3, <2>3 DEF OneAttempt
  <2> QED
    BY <1>4, <2>3, <2>4, <2>5
<1>9. CASE Read(t)
  <2>1. link.sent /\ link.replies # <<>>
    BY <1>9 DEF Read
  <2>2. PICK reply \in Replies : link.replies = <<reply>> /\ AnswerTo(reply, request[t])
    BY <1>3, <2>1 DEF OnTheWire, Nothing, Asking, Replying
  <2>3. link.requests = <<>>
    BY <2>1, <2>2 DEF OnTheWire, Nothing, Asking, Replying
  <2>4. Head(link.replies) = reply /\ Tail(link.replies) = <<>>
    BY <2>2
  <2>5. /\ AttemptEnds(t, reply)
        /\ ~link'.sent /\ link'.requests = <<>> /\ link'.replies = <<>>
        /\ link'.round = 1 /\ link'.first = "none"
    BY <1>2, <1>9, <2>3, <2>4 DEF Read, Links
  <2>6. OnTheWire' /\ Rounds'
    BY <2>5 DEF OnTheWire, Nothing, Rounds
  <2> QED
    BY <1>5, <2>2, <2>5, <2>6
<1>10. CASE LinkFails(t)
  BY <1>2, <1>6, <1>10 DEF LinkFails, SilentKinds
<1>11. CASE DialFails(t)
  <2> DEFINE l == [link EXCEPT !.backoff = TRUE]
  <2>1. l \in Links /\ l.round = link.round /\ l.first = link.first
    BY <1>2, LinkUpdates DEF Links
  <2>2. RoundFails(t, "unanswered", l)
    BY <1>11 DEF DialFails
  <2> HIDE DEF l
  <2> QED
    BY <1>6, <2>1, <2>2 DEF SilentKinds
<1>12. CASE TimesOut(t)
  BY <1>2, <1>6, <1>12 DEF TimesOut, SilentKinds
<1> QED
  BY <1>7, <1>8, <1>9, <1>10, <1>11, <1>12 DEF AttemptStep

LEMMA OtherStepsKeepWire ==
    ASSUME Types, Wire, BackoffEnds \/ Restart
    PROVE  Wire'
<1> USE DEF Wire
<1>1. /\ link \in Links /\ pc \in [Threads -> States]
      /\ Backfill \in Threads /\ Jobs \subseteq Threads /\ Backfill \notin Jobs
  BY JobsAssumption DEF Types, SharedTypes, ThreadTypes, Threads
<1>2. CASE BackoffEnds
  <2>1. /\ link'.requests = link.requests /\ link'.replies = link.replies /\ link'.sent = link.sent
        /\ link'.round = link.round /\ link'.first = link.first
    BY <1>1, <1>2 DEF BackoffEnds, Links
  <2>2. UNCHANGED <<pc, request, result, outcome, holder>>
    BY <1>2 DEF BackoffEnds, threadVars
  <2> QED
    BY <2>1, <2>2 DEF OneAttempt, OnTheWire, Nothing, Asking, Replying, OwnRequests, OwnAnswers,
       Rounds, OutcomesLast, AnswerTo, CarriesTable, Accepts
<1>3. CASE Restart
  <2>1. /\ \A job \in Jobs : pc'[job] \in {"new", "done"}
        /\ \A job \in Jobs : pc[job] = "done" => pc'[job] = "done"
        /\ \A job \in Jobs : outcome'[job] # "none" => pc'[job] = "done"
        /\ pc'[Backfill] = "new"
    BY <1>1, <1>3 DEF Restart, OutcomesLast
  <2>2. link' = FreshLink /\ UNCHANGED <<request, result>>
    BY <1>3 DEF Restart
  <2>3. \A t \in Threads : pc'[t] \in {"new", "done"}
    BY <2>1 DEF Threads
  <2>4. OneAttempt' /\ OnTheWire' /\ Rounds'
    BY <1>1, <2>2, <2>3 DEF OneAttempt, OnTheWire, Nothing, Rounds, FreshLink
  <2>5. OwnRequests' /\ OwnAnswers'
    BY <1>1, <2>2, <2>3 DEF OwnRequests, OwnAnswers, CarriesTable
  <2> QED
    BY <2>1, <2>4, <2>5 DEF OutcomesLast
<1> QED
  BY <1>2, <1>3

LEMMA NextKeepsWire ==
    ASSUME Types, Wire, Next
    PROVE  Types' /\ Wire'
<1>1. CASE \E job \in Jobs : JobStep(job)
  BY <1>1, JobKeepsTypes, JobKeepsWire DEF Wire
<1>2. CASE BackfillStep
  BY <1>2, BackfillKeepsTypes, BackfillKeepsWire
<1>3. CASE \E t \in Threads : AttemptStep(t) \/ DialFails(t) \/ TimesOut(t)
  BY <1>3, AttemptKeepsTypes, AttemptKeepsWire
<1>4. CASE ServerStep \/ OtherClient \/ ServerRestarts \/ LinkDrops
  BY <1>4, ServerKeepsTypes, ServerKeepsWire
<1>5. CASE BackoffEnds \/ Restart
  BY <1>5, OtherStepsKeepTypes, OtherStepsKeepWire
<1> QED
  BY <1>1, <1>2, <1>3, <1>4, <1>5 DEF Next, Environment

LEMMA StutterKeepsWire ==
    ASSUME Types, Wire, UNCHANGED vars
    PROVE  Types' /\ Wire'
<1>1. UNCHANGED <<pc, request, result, phase, tries, outcome, holder, link, outage, belief,
                  spool, peeked, tables, orphans, faults, clients, restarts, diskFaults>>
  BY DEF vars, threadVars, sharedVars, serverVars, bounds
<1>2. Types'
  BY <1>1 DEF Types, ThreadTypes, SharedTypes, ServerTypes, CountTypes
<1>3. Wire'
  BY <1>1 DEF Wire, OneAttempt, OnTheWire, Nothing, Asking, Replying, OwnRequests, OwnAnswers,
     Rounds, OutcomesLast, AnswerTo, CarriesTable, Accepts
<1> QED
  BY <1>2, <1>3

\* The types and the wire, in every state.
THEOREM WireInvariant == Spec => []Inv1
<1>1. Init => Inv1
  BY InitTypes, InitWire DEF Inv1
<1>2. Inv1 /\ [Next]_vars => Inv1'
  BY NextKeepsWire, StutterKeepsWire DEF Inv1
<1> QED
  BY <1>1, <1>2, PTL DEF Spec

\* Every variable keeps its type, for any jobs, committees and bounds.
THEOREM TypeCorrect == Spec => []TypeOK
<1>1. Inv1 => TypeOK
  <2> SUFFICES ASSUME Inv1 PROVE TypeOK
    OBVIOUS
  <2> USE DEF Inv1, Types
  <2>1. Asks \subseteq Requests
    <3>1. Seq(Nat) \subseteq Seq(Int)
      BY SeqMonotonic
    <3> QED
      BY <3>1 DEF Asks, Requests
  <2>2. /\ pc \in [Threads -> {"new", "ask", "attempt", "answered", "peeked", "done"}]
        /\ \A t \in Threads : request[t] \in Requests
        /\ phase \in [Jobs -> {"first", "keys", "again"}]
        /\ tries \in [Jobs -> 0 .. LinkRetries]
        /\ outcome \in [Jobs -> Outcomes]
    BY <2>1 DEF ThreadTypes, States
  <2>3. Range(link.requests) \subseteq Requests /\ Len(link.requests) <= 1
    <3>1. link.requests \in Seq(Asks)
      BY DEF SharedTypes, Links
    <3>2. Range(link.requests) \subseteq Asks
      BY <3>1, RangeOfSeq
    <3>3. link.requests = <<>> \/ link.requests = <<request[holder]>>
      BY DEF Wire, OnTheWire, Nothing, Asking, Replying
    <3>4. Len(link.requests) <= 1
      <4>1. Len(<<>>) = 0 /\ \A req : Len(<<req>>) = 1
        OBVIOUS
      <4>2. Len(link.requests) \in {0, 1}
        BY <3>3, <4>1, Zenon
      <4>3. \A n \in {0, 1} : n <= 1
        OBVIOUS
      <4> QED
        BY <4>2, <4>3, Zenon
    <3> QED
      BY <2>1, <3>2, <3>4
  <2>4. /\ holder \in Threads \cup {Nobody}
        /\ link.round \in 1 .. 2
        /\ outage \in [failing : BOOLEAN, gone : BOOLEAN]
        /\ belief.sent \subseteq Nat
        /\ Len(spool) <= SpoolCapacity
        /\ peeked \in Jobs \cup {Nobody}
    BY DEF SharedTypes, Links, Beliefs
  <2>5. Range(spool) \subseteq Jobs
    BY RangeOfSeq DEF SharedTypes
  <2>6. Len(tables) <= TablesHeld /\ orphans \subseteq Requests
    BY <2>1 DEF ServerTypes
  <2>7. faults + clients + restarts \in 0 .. MaxEvents /\ diskFaults \in 0 .. MaxDiskFaults
    BY BoundsAssumption DEF CountTypes
  <2> QED
    BY <2>2, <2>3, <2>4, <2>5, <2>6, <2>7 DEF TypeOK
<1> QED
  BY <1>1, WireInvariant, PTL

\* No answer is ever read as the answer to another request, for any number of
\* jobs on the connection and whatever was given up and sent again before.
THEOREM RepliesCorrect == Spec => []RepliesAreToTheRequest
<1>1. Inv1 => RepliesAreToTheRequest
  BY DEF Inv1, Wire, OwnAnswers, AnswerTo, RepliesAreToTheRequest, ReplyKinds
<1> QED
  BY <1>1, WireInvariant, PTL

-----------------------------------------------------------------------------
(* The store.                                                              *)

LEMMA JobOutcome ==
    ASSUME Types, Wire, NEW job \in Jobs, JobStep(job)
    PROVE  /\ pc[job] = "new" => ChildrenBack(job)
           /\ \/ outcome'[job] = outcome[job]
              \/ outcome'[job] \in {"gone", "refused", "table", "lost"}
              \/ outcome'[job] = "empty" /\ (job \notin Persisted \/ job \in Oversized)
              \/ outcome'[job] = "proved" /\ Accepts(job)
<1> USE DEF Wire
<1>1. /\ job \in Threads /\ outcome \in [Jobs -> Outcomes]
  BY DEF Threads, Types, ThreadTypes
<1>2. pc[job] = "new" => ChildrenBack(job)
  BY DEF JobStep, Refuse, TooLarge, Ask, Acquire, AskLinkAgain, SendKeys, AskRefusedAgain, Proved,
     RefusedTwice, TableTwice, Unanswered, Answered
<1>3. CASE Refuse(job) \/ TooLarge(job)
  BY <1>1, <1>2, <1>3 DEF Refuse, TooLarge
<1>4. CASE Ask(job) \/ Acquire(job) \/ AskLinkAgain(job) \/ SendKeys(job) \/ AskRefusedAgain(job)
  BY <1>2, <1>4 DEF Ask, Acquire, AskLinkAgain, SendKeys, AskRefusedAgain
<1>5. CASE Proved(job)
  <2>1. AnswerTo(result[job], request[job]) /\ request[job].job = job /\ result[job].kind = "proved"
    BY <1>1, <1>5 DEF Proved, Answered, OwnAnswers, OwnRequests, ReplyKinds
  <2>2. result[job].job = job /\ Accepts(job)
    BY <2>1 DEF AnswerTo
  <2> QED
    BY <1>1, <1>2, <1>5, <2>2 DEF Proved, Finish
<1>6. CASE RefusedTwice(job) \/ TableTwice(job)
  BY <1>1, <1>2, <1>6 DEF RefusedTwice, TableTwice, Finish
<1>7. CASE Unanswered(job)
  <2>1. outcome'[job] = Unproven(job)
    BY <1>1, <1>7 DEF Unanswered, Finish
  <2> QED
    BY <1>2, <2>1 DEF Unproven
<1> QED
  BY <1>3, <1>4, <1>5, <1>6, <1>7 DEF JobStep

LEMMA NextKeepsStore ==
    ASSUME Types, Wire, Store, Next
    PROVE  Store'
<1> SUFFICES ASSUME NEW job \in Jobs
             PROVE  /\ pc'[job] # "new" => ChildrenBack(job)'
                    /\ outcome'[job] = "proved" => Accepts(job)'
                    /\ outcome'[job] = "empty" => job \notin Persisted \/ job \in Oversized
                    /\ outcome'[job] # "mismatch"
  BY DEF Store
<1>1. /\ Accepts(job) => Accepts(job)'
      /\ ChildrenBack(job) => ChildrenBack(job)'
  BY AcceptsStays DEF Wire
<1>2. /\ pc[job] # "new" => ChildrenBack(job)
      /\ outcome[job] = "proved" => Accepts(job)
      /\ outcome[job] = "empty" => job \notin Persisted \/ job \in Oversized
      /\ outcome[job] # "mismatch"
  BY DEF Store
<1>3. job \in Threads /\ job # Backfill /\ Backfill \in Threads /\ pc \in [Threads -> States]
  BY JobsAssumption DEF Threads, Types, ThreadTypes
<1>4. ASSUME pc'[job] = "new" => pc[job] = "new", pc[job] = "new" => pc'[job] = "new",
             outcome'[job] = outcome[job]
      PROVE  /\ pc'[job] # "new" => ChildrenBack(job)'
             /\ outcome'[job] = "proved" => Accepts(job)'
             /\ outcome'[job] = "empty" => job \notin Persisted \/ job \in Oversized
             /\ outcome'[job] # "mismatch"
  BY <1>1, <1>2, <1>4
<1>5. CASE \E other \in Jobs : JobStep(other)
  <2>1. PICK other \in Jobs : JobStep(other)
    BY <1>5
  <2>2. PICK next \in {"ask", "attempt", "done"} : JobMoves(other, next)
    BY <2>1, JobDoes DEF Wire
  <2>3. CASE other # job
    BY <1>3, <1>4, <2>2, <2>3 DEF JobMoves
  <2>4. CASE other = job
    BY <1>1, <1>2, <2>1, <2>4, JobOutcome
  <2> QED
    BY <2>3, <2>4
<1>6. CASE BackfillStep
  <2>1. PICK next \in {"new", "peeked", "attempt", "done"} : BackfillMoves(next)
    BY <1>6, BackfillDoes
  <2> QED
    BY <1>3, <1>4, <2>1 DEF BackfillMoves
<1>7. CASE \E t \in Threads : AttemptStep(t) \/ DialFails(t) \/ TimesOut(t)
  <2>1. PICK t \in Threads : AttemptMoves(t)
    BY <1>7, AttemptDoes
  <2>2. UNCHANGED outcome
    BY <2>1 DEF AttemptMoves
  <2>3. pc'[job] = "new" <=> pc[job] = "new"
    BY <1>3, <2>1 DEF AttemptMoves, AttemptEnds
  <2> QED
    BY <1>4, <2>2, <2>3
<1>8. CASE ServerStep \/ OtherClient \/ ServerRestarts \/ LinkDrops
  BY <1>4, <1>8, ServerMoves
<1>9. CASE BackoffEnds
  BY <1>4, <1>9 DEF BackoffEnds, threadVars
<1>10. CASE Restart
  <2>1. pc'[job] = "new" <=> pc[job] = "new"
    BY <1>3, <1>10 DEF Restart
  <2>2. outcome'[job] \in {outcome[job], "died"}
    BY <1>10 DEF Restart
  <2> QED
    BY <1>1, <1>2, <2>1, <2>2
<1> QED
  BY <1>5, <1>6, <1>7, <1>8, <1>9, <1>10 DEF Next, Environment

LEMMA StoreInvariant == Spec => []Store
<1>1. Init => Store
  BY DEF Init, Store, Threads
<1>2. Inv1 /\ Store /\ [Next]_vars => Store'
  <2>1. ASSUME Store, UNCHANGED vars PROVE Store'
    BY <2>1 DEF Store, ChildrenBack, Accepts, vars, threadVars
  <2> QED
    BY <2>1, NextKeepsStore DEF Inv1
<1> QED
  BY <1>1, <1>2, WireInvariant, PTL DEF Spec

\* Of the stages the store keeps, only a witness over the frame's cap ends with
\* an empty proof, and none ends with a proof over a child that has none: for
\* any tree of witnesses and any faults.
THEOREM StoreCorrect == Spec => []OutageSparesTheStore
<1>1. Store => OutageSparesTheStore
  BY JobsAssumption DEF Store, OutageSparesTheStore, Accepts
<1> QED
  BY <1>1, StoreInvariant, PTL

\* No proof that came back was ever of another witness than its job's: the
\* check a proof is put to on arrival never fails on this account.
ProofsAreTheJobs == \A job \in Jobs : outcome[job] # "mismatch"

\* The check of a proof's outputs never fails, whatever was sent again.
THEOREM NoMismatch == Spec => []ProofsAreTheJobs
<1>1. Store => ProofsAreTheJobs
  BY DEF Store, ProofsAreTheJobs
<1> QED
  BY <1>1, StoreInvariant, PTL

-----------------------------------------------------------------------------
(* The outage.                                                             *)

LEMMA NextKeepsSilent ==
    ASSUME Types, Wire, Silent, Next
    PROVE  Silent' /\ (outage'.gone /\ ~outage.gone => silence > 0)
<1> USE DEF Silent
<1>1. outage \in [failing : BOOLEAN, gone : BOOLEAN] /\ link \in Links
  BY DEF Types, SharedTypes
<1>2. ASSUME NEW t \in Threads, NEW kind \in SilentKinds, NEW l \in Links, RoundFails(t, kind, l),
             l.round = link.round, l.first = link.first
      PROVE  Silent' /\ (outage'.gone /\ ~outage.gone => silence > 0)
  <2>1. l.round = 1 \/ (l.round = 2 /\ l.first \in SilentKinds)
    BY <1>2 DEF Wire, Rounds
  <2>2. CASE UNCHANGED <<outage, silence>>
    BY <2>2
  <2>3. CASE l.first \in SilentKinds /\ AttemptEnds(t, [kind |-> l.first, job |-> Nobody]) /\ NoteFailure
    <3>1. silence' = IF silence < 2 THEN silence + 1 ELSE silence
      BY <2>3 DEF AttemptEnds, SilentKinds
    <3>2. silence' \in Nat /\ silence' > 0
      BY <3>1
    <3>3. PICK runOut \in {FALSE, outage.failing} :
            outage' = [failing |-> TRUE, gone |-> outage.gone \/ runOut]
      BY <2>3 DEF NoteFailure
    <3>4. outage'.gone = (outage.gone \/ runOut)
      BY <3>3
    <3>5. outage'.gone /\ ~outage.gone => outage.failing
      BY <3>3, <3>4, Zenon
    <3> QED
      BY <3>2, <3>5
  <2> QED
    BY <1>2, <2>1, <2>2, <2>3, RoundFailsDoes
<1>3. CASE \E job \in Jobs : JobStep(job)
  BY <1>3, JobDoes DEF JobMoves, Wire
<1>4. CASE BackfillStep
  BY <1>4, BackfillDoes DEF BackfillMoves
<1>5. CASE ServerStep \/ OtherClient \/ ServerRestarts \/ LinkDrops
  BY <1>5, ServerMoves
<1>6. CASE BackoffEnds
  BY <1>6 DEF BackoffEnds
<1>7. CASE Restart
  BY <1>7 DEF Restart, Answering
<1>8. CASE \E t \in Threads : AttemptStep(t) \/ DialFails(t) \/ TimesOut(t)
  <2>1. PICK t \in Threads : AttemptStep(t) \/ DialFails(t) \/ TimesOut(t)
    BY <1>8
  <2>2. CASE Dial(t) \/ Send(t)
    BY <2>2 DEF Dial, Send
  <2>3. CASE Read(t)
    <3>1. outage' = [outage EXCEPT !.failing = FALSE]
      BY <2>3 DEF Read
    <3>2. silence' \in Nat
      <4>1. AttemptEnds(t, Head(link.replies))
        BY <2>3 DEF Read
      <4> QED
        BY <4>1 DEF AttemptEnds
    <3>3. outage'.failing = FALSE /\ outage'.gone = outage.gone
      BY <1>1, <3>1
    <3> QED
      BY <3>2, <3>3
  <2>4. CASE LinkFails(t)
    BY <1>1, <1>2, <2>4 DEF LinkFails, SilentKinds
  <2>5. CASE DialFails(t)
    <3> DEFINE l == [link EXCEPT !.backoff = TRUE]
    <3>1. l \in Links /\ l.round = link.round /\ l.first = link.first
      BY <1>1, LinkUpdates DEF Links
    <3>2. RoundFails(t, "unanswered", l)
      BY <2>5 DEF DialFails
    <3> HIDE DEF l
    <3> QED
      BY <1>2, <3>1, <3>2 DEF SilentKinds
  <2>6. CASE TimesOut(t)
    BY <1>1, <1>2, <2>6 DEF TimesOut, SilentKinds
  <2> QED
    BY <2>1, <2>2, <2>3, <2>4, <2>5, <2>6 DEF AttemptStep
<1> QED
  BY <1>3, <1>4, <1>5, <1>6, <1>7, <1>8 DEF Next, Environment

\* The prover is declared gone only on a failure that follows failures, with no
\* answer between them.
THEOREM GoneCorrect == Spec => GoneOnlyAfterSilence
<1>1. Init => Silent
  BY DEF Init, Silent, Answering
<1>2. Inv1 /\ Silent /\ [Next]_vars => Silent' /\ [outage'.gone /\ ~outage.gone => silence > 0]_vars
  <2>1. ASSUME Silent, UNCHANGED vars PROVE Silent'
    BY <2>1 DEF Silent, vars, sharedVars
  <2> QED
    BY <2>1, NextKeepsSilent DEF Inv1
<1> QED
  BY <1>1, <1>2, WireInvariant, PTL DEF Spec, GoneOnlyAfterSilence

-----------------------------------------------------------------------------
(* The spool.                                                              *)

\* What a sequence has after a push or a pop.
LEMMA PushedAndPopped ==
    ASSUME NEW queue \in Seq(Jobs), NEW job \in Jobs
    PROVE  /\ Range(Append(queue, job)) = Range(queue) \cup {job}
           /\ queue # <<>> => /\ Append(queue, job) # <<>>
                             /\ Head(Append(queue, job)) = Head(queue)
                             /\ Head(queue) \in Range(queue)
                             /\ Range(queue) = {Head(queue)} \cup Range(Tail(queue))
<1>1. Len(queue) \in Nat /\ queue \in [1 .. Len(queue) -> Jobs]
  BY LenProperties
<1>2. /\ Append(queue, job) \in Seq(Jobs) /\ Len(Append(queue, job)) = Len(queue) + 1
      /\ \A i \in 1 .. Len(queue) : Append(queue, job)[i] = queue[i]
      /\ Append(queue, job)[Len(queue) + 1] = job
      /\ DOMAIN Append(queue, job) = 1 .. Len(queue) + 1
  BY <1>1, AppendProperties
<1>3. Range(Append(queue, job)) = Range(queue) \cup {job}
  <2>1. ASSUME NEW x \in Range(Append(queue, job)) PROVE x \in Range(queue) \cup {job}
    <3>1. PICK i \in 1 .. Len(queue) + 1 : Append(queue, job)[i] = x
      BY <1>2 DEF Range
    <3>2. i \in 1 .. Len(queue) \/ i = Len(queue) + 1
      BY <1>1
    <3> QED
      BY <1>1, <1>2, <3>1, <3>2 DEF Range
  <2>2. ASSUME NEW x \in Range(queue) \cup {job} PROVE x \in Range(Append(queue, job))
    <3>1. CASE x = job
      BY <1>1, <1>2, <3>1 DEF Range
    <3>2. CASE x \in Range(queue)
      <4>1. PICK i \in 1 .. Len(queue) : queue[i] = x
        BY <1>1, <3>2 DEF Range
      <4>2. i \in 1 .. Len(queue) + 1
        BY <1>1
      <4> QED
        BY <1>2, <4>1, <4>2 DEF Range
    <3> QED
      BY <3>1, <3>2
  <2> QED
    BY <2>1, <2>2
<1>4. ASSUME queue # <<>>
      PROVE  /\ Append(queue, job) # <<>>
             /\ Head(Append(queue, job)) = Head(queue)
             /\ Head(queue) \in Range(queue)
             /\ Range(queue) = {Head(queue)} \cup Range(Tail(queue))
  <2>1. Len(queue) >= 1 /\ Head(queue) = queue[1] /\ 1 \in 1 .. Len(queue)
    BY <1>1, <1>4
  <2>2. Head(queue) \in Range(queue)
    BY <1>1, <2>1 DEF Range
  <2>3. Append(queue, job) # <<>> /\ Head(Append(queue, job)) = Head(queue)
    <3>1. Append(queue, job)[1] = queue[1]
      BY <1>2, <2>1
    <3>2. Len(Append(queue, job)) # 0
      BY <1>1, <1>2
    <3> QED
      BY <1>2, <2>1, <3>1, <3>2
  <2>4. /\ Tail(queue) \in Seq(Jobs) /\ Len(Tail(queue)) = Len(queue) - 1
        /\ \A i \in 1 .. Len(queue) - 1 : Tail(queue)[i] = queue[i + 1]
        /\ DOMAIN Tail(queue) = 1 .. Len(queue) - 1
    BY <1>1, <1>4, HeadTailProperties
  <2>5. ASSUME NEW x \in Range(queue) PROVE x \in {Head(queue)} \cup Range(Tail(queue))
    <3>1. PICK i \in 1 .. Len(queue) : queue[i] = x
      BY <1>1 DEF Range
    <3>2. CASE i = 1
      BY <2>1, <3>1, <3>2
    <3>3. CASE i # 1
      <4>1. i - 1 \in 1 .. Len(queue) - 1 /\ (i - 1) + 1 = i
        BY <1>1, <3>3
      <4>2. Tail(queue)[i - 1] = x
        BY <2>4, <3>1, <4>1
      <4> QED
        BY <2>4, <4>1, <4>2 DEF Range
    <3> QED
      BY <3>2, <3>3
  <2>6. ASSUME NEW x \in Range(Tail(queue)) PROVE x \in Range(queue)
    <3>1. PICK i \in 1 .. Len(queue) - 1 : Tail(queue)[i] = x
      BY <2>4 DEF Range
    <3>2. i + 1 \in 1 .. Len(queue) /\ queue[i + 1] = x
      BY <1>1, <2>4, <3>1
    <3> QED
      BY <1>1, <3>2 DEF Range
  <2> QED
    BY <2>2, <2>3, <2>5, <2>6
<1> QED
  BY <1>3, <1>4

\* ... and what is in it once stays so.
LEMMA OnceEach ==
    ASSUME NEW queue \in Seq(Jobs), IsInjective(queue), NEW job \in Jobs
    PROVE  /\ job \notin Range(queue) => IsInjective(Append(queue, job))
           /\ queue # <<>> => IsInjective(Tail(queue)) /\ Head(queue) \notin Range(Tail(queue))
<1>1. Len(queue) \in Nat /\ queue \in [1 .. Len(queue) -> Jobs]
  BY LenProperties
<1>2. \A i, j \in 1 .. Len(queue) : queue[i] = queue[j] => i = j
  BY <1>1 DEF IsInjective
<1>3. ASSUME job \notin Range(queue) PROVE IsInjective(Append(queue, job))
  <2>1. /\ \A i \in 1 .. Len(queue) : Append(queue, job)[i] = queue[i]
        /\ Append(queue, job)[Len(queue) + 1] = job
        /\ DOMAIN Append(queue, job) = 1 .. Len(queue) + 1
    BY <1>1, AppendProperties
  <2>2. \A i \in 1 .. Len(queue) : queue[i] # job
    BY <1>1, <1>3 DEF Range
  <2>3. \A i \in 1 .. Len(queue) + 1 : i \in 1 .. Len(queue) \/ i = Len(queue) + 1
    BY <1>1
  <2> QED
    BY <1>2, <2>1, <2>2, <2>3 DEF IsInjective
<1>4. ASSUME queue # <<>>
      PROVE  IsInjective(Tail(queue)) /\ Head(queue) \notin Range(Tail(queue))
  <2>1. /\ \A i \in 1 .. Len(queue) - 1 : Tail(queue)[i] = queue[i + 1]
        /\ DOMAIN Tail(queue) = 1 .. Len(queue) - 1
        /\ Head(queue) = queue[1]
    BY <1>1, <1>4, HeadTailProperties
  <2>2. \A i \in 1 .. Len(queue) - 1 : i + 1 \in 1 .. Len(queue) /\ i + 1 # 1 /\ i \in Nat
    BY <1>1
  <2>3. 1 \in 1 .. Len(queue)
    BY <1>1, <1>4
  <2>4. IsInjective(Tail(queue))
    <3>1. ASSUME NEW i \in 1 .. Len(queue) - 1, NEW j \in 1 .. Len(queue) - 1,
                 Tail(queue)[i] = Tail(queue)[j]
          PROVE  i = j
      <4>1. i + 1 = j + 1
        BY <1>2, <2>1, <2>2, <3>1
      <4> QED
        BY <2>2, <4>1
    <3> QED
      BY <2>1, <3>1 DEF IsInjective
  <2>5. Head(queue) \notin Range(Tail(queue))
    <3>1. ASSUME NEW i \in 1 .. Len(queue) - 1, Tail(queue)[i] = queue[1] PROVE FALSE
      BY <1>2, <2>1, <2>2, <2>3, <3>1
    <3> QED
      BY <2>1, <3>1 DEF Range
  <2> QED
    BY <2>4, <2>5
<1> QED
  BY <1>3, <1>4

LEMMA OneMoreAtMost ==
    ASSUME NEW S, NEW T, NEW x, IsFiniteSet(S), T \subseteq S \cup {x}
    PROVE  /\ Cardinality(S) \in Nat /\ Cardinality(T) \in Nat
           /\ Cardinality(T) <= Cardinality(S) + 1
           /\ T \subseteq S => Cardinality(T) <= Cardinality(S)
<1>1. /\ IsFiniteSet(S \cup {x})
      /\ Cardinality(S \cup {x}) = IF x \in S THEN Cardinality(S) ELSE Cardinality(S) + 1
  BY FS_AddElement
<1>2. IsFiniteSet(T) /\ Cardinality(T) <= Cardinality(S \cup {x})
  BY <1>1, FS_Subset
<1>3. Cardinality(S) \in Nat /\ Cardinality(T) \in Nat
  BY <1>2, FS_CardinalityType
<1>4. T \subseteq S => Cardinality(T) <= Cardinality(S)
  BY FS_Subset
<1> QED
  BY <1>1, <1>2, <1>3, <1>4

\* What the spool is accountable for is finite.
LEMMA SpoolIsFinite ==
    ASSUME HandedOver
    PROVE  /\ IsFiniteSet(Lost) /\ IsFiniteSet(undercut)
           /\ Cardinality(Lost) \in Nat /\ Cardinality(undercut) \in Nat
           /\ undercut \subseteq Jobs /\ Nobody \notin undercut
<1>1. spooled \subseteq Jobs /\ undercut \subseteq Jobs /\ Lost \subseteq spooled
  BY DEF HandedOver, Lost
<1>2. IsFiniteSet(Lost) /\ IsFiniteSet(undercut)
  BY <1>1, FS_Subset, JobsAssumption
<1> QED
  BY <1>1, <1>2, FS_CardinalityType, JobsAssumption

\* A push: what goes to make room is on record, and so is what was pushed.
LEMMA PushKeepsSpooled ==
    ASSUME Types, Spooled, NEW job \in Jobs, Push(job), pc[job] # "done",
           pc' = [pc EXCEPT ![job] = "done"], UNCHANGED <<peeked, recovered, rejected>>
    PROVE  Spooled'
<1> USE DEF Spooled
<1>1. /\ spool \in Seq(Jobs) /\ Len(spool) \in Nat /\ pc \in [Threads -> States]
      /\ Backfill \in Threads /\ Backfill # job /\ Jobs \subseteq Threads
      /\ peeked \in Jobs \cup {Nobody}
  BY LenProperties, JobsAssumption DEF Types, SharedTypes, ThreadTypes, Threads
<1>2. /\ dropped' = dropped \cup Overflow(spool)
      /\ undercut' = undercut \cup (Overflow(spool) \cap {peeked})
      /\ spooled' = spooled \cup {job}
      /\ \/ spool' = Append(WithRoom(spool), job) /\ damaged' = damaged
         \/ spool' = WithRoom(spool) /\ damaged' = damaged \cup {job}
  BY DEF Push, Pushed
<1>3. /\ job \notin spooled /\ job \notin Range(spool) /\ job \notin undercut
  BY DEF HandedOver
<1>4. /\ WithRoom(spool) \in Seq(Jobs) /\ IsInjective(WithRoom(spool))
      /\ Range(spool) = Overflow(spool) \cup Range(WithRoom(spool))
      /\ Overflow(spool) \cap Range(WithRoom(spool)) = {}
  <2>1. CASE Len(spool) >= SpoolCapacity
    <3>1. spool # <<>>
      BY <1>1, <2>1, BoundsAssumption
    <3>2. /\ WithRoom(spool) = Tail(spool) /\ Overflow(spool) = {Head(spool)}
      BY <2>1 DEF WithRoom, Overflow
    <3>3. Tail(spool) \in Seq(Jobs)
      BY <1>1, <3>1, HeadTailProperties
    <3>4. IsInjective(Tail(spool)) /\ Head(spool) \notin Range(Tail(spool))
      BY <1>1, <3>1, OnceEach DEF HandedOver
    <3>5. Range(spool) = {Head(spool)} \cup Range(Tail(spool))
      BY <1>1, <3>1, PushedAndPopped
    <3> QED
      BY <3>2, <3>3, <3>4, <3>5
  <2>2. CASE ~(Len(spool) >= SpoolCapacity)
    BY <1>1, <2>2 DEF WithRoom, Overflow, HandedOver
  <2> QED
    BY <2>1, <2>2
<1>5. /\ IsInjective(spool')
      /\ Range(spool') \subseteq Range(WithRoom(spool)) \cup {job}
      /\ Range(WithRoom(spool)) \subseteq Range(spool')
      /\ job \in Range(spool') \cup damaged'
  <2>1. Range(Append(WithRoom(spool), job)) = Range(WithRoom(spool)) \cup {job}
    BY <1>4, PushedAndPopped
  <2>2. IsInjective(Append(WithRoom(spool), job))
    <3>1. job \notin Range(WithRoom(spool))
      BY <1>3, <1>4
    <3> QED
      BY <1>4, <3>1, OnceEach
  <2> QED
    BY <1>2, <1>4, <2>1, <2>2
<1>6. HandedOver'
  <2>1. \A other \in spooled' : other \in Jobs /\ pc'[other] = "done"
    BY <1>1, <1>2 DEF HandedOver
  <2>2. Range(spool') \cup undercut' \subseteq spooled'
    BY <1>2, <1>4, <1>5 DEF HandedOver
  <2>3. Range(spool') \cap undercut' = {}
    BY <1>2, <1>3, <1>4, <1>5 DEF HandedOver
  <2> QED
    BY <1>5, <2>1, <2>2, <2>3 DEF HandedOver
<1>7. FrontIsPeeked'
  <2> SUFFICES ASSUME pc[Backfill] \in {"peeked", "attempt", "answered"}, peeked \notin undercut'
               PROVE  spool' # <<>> /\ peeked = Head(spool')
    BY <1>1 DEF FrontIsPeeked
  <2>1. spool # <<>> /\ peeked = Head(spool)
    BY <1>2 DEF FrontIsPeeked
  <2>2. WithRoom(spool) = spool
    BY <1>2, <2>1 DEF Overflow, WithRoom
  <2>3. Append(spool, job) # <<>> /\ Head(Append(spool, job)) = Head(spool)
    BY <1>1, <2>1, PushedAndPopped
  <2> QED
    BY <1>2, <2>1, <2>2, <2>3
<1>8. Lost' \subseteq Lost
  <2>1. Range(spool) \subseteq Range(spool') \cup dropped' /\ job \in Range(spool') \cup damaged'
    BY <1>2, <1>4, <1>5
  <2> QED
    BY <1>2, <2>1 DEF Lost
<1>9. Paid'
  <2>1. Cardinality(Lost') <= Cardinality(Lost) /\ Cardinality(Lost') \in Nat
    BY <1>8, SpoolIsFinite, OneMoreAtMost
  <2>2. Cardinality(Lost)' = Cardinality(Lost')
    OBVIOUS
  <2>3. CASE peeked \in undercut' /\ peeked \notin undercut
    <3>1. undercut' = undercut \cup {peeked}
      BY <1>2, <2>3
    <3>2. Cardinality(undercut') = Cardinality(undercut) + 1
      BY <2>3, <3>1, SpoolIsFinite, FS_AddElement
    <3> QED
      BY <2>1, <2>2, <2>3, <3>2, SpoolIsFinite DEF Paid, AtStake
  <2>4. CASE ~(peeked \in undercut' /\ peeked \notin undercut)
    <3>1. undercut' = undercut
      BY <1>2, <2>4
    <3> QED
      BY <2>1, <2>2, <3>1, SpoolIsFinite DEF Paid, AtStake
  <2> QED
    BY <2>3, <2>4
<1> QED
  BY <1>6, <1>7, <1>9

\* A pop: it takes what the backfill was at, or what a drop under it pays for.
LEMMA PopKeepsSpooled ==
    ASSUME Types, Spooled, NEW next \in {"new", "done"},
           pc[Backfill] \in {"peeked", "answered"}, pc' = [pc EXCEPT ![Backfill] = next],
           peeked' = Nobody, spool' = IF spool = <<>> THEN spool ELSE Tail(spool),
           UNCHANGED <<spooled, dropped, undercut>>,
           recovered \subseteq recovered', rejected \subseteq rejected', damaged \subseteq damaged',
           peeked \in Range(spool) => peeked \in recovered' \cup rejected' \cup damaged'
    PROVE  Spooled'
<1> USE DEF Spooled
<1>1. /\ spool \in Seq(Jobs) /\ pc \in [Threads -> States]
      /\ Backfill \in Threads /\ Backfill \notin Jobs /\ Jobs \subseteq Threads
  BY JobsAssumption DEF Types, SharedTypes, ThreadTypes, Threads
<1>2. spool # <<>> => /\ Head(spool) \in Range(spool)
                      /\ Range(spool) = {Head(spool)} \cup Range(Tail(spool))
                      /\ IsInjective(Tail(spool))
  <2>1. ASSUME spool # <<>>
        PROVE  /\ Head(spool) \in Range(spool)
               /\ Range(spool) = {Head(spool)} \cup Range(Tail(spool))
               /\ IsInjective(Tail(spool))
    <3>1. Head(spool) \in Jobs
      BY <1>1, <2>1, HeadTailProperties
    <3> QED
      BY <1>1, <2>1, <3>1, PushedAndPopped, OnceEach DEF HandedOver
  <2> QED
    BY <2>1
<1>3. HandedOver'
  <2>1. \A job \in spooled : job \in Jobs /\ pc'[job] = "done"
    BY <1>1 DEF HandedOver
  <2>2. Range(spool') \subseteq Range(spool) /\ IsInjective(spool')
    BY <1>2 DEF HandedOver
  <2> QED
    BY <2>1, <2>2 DEF HandedOver
<1>4. FrontIsPeeked'
  BY <1>1 DEF FrontIsPeeked
<1>5. AtStake' = 0
  BY SpoolIsFinite DEF AtStake
<1>6. Cardinality(Lost') + 0 <= Cardinality(undercut)
  <2>1. CASE peeked \in undercut
    <3>1. PICK x : Range(spool) \subseteq Range(spool') \cup {x}
      BY <1>2
    <3>2. Lost' \subseteq Lost \cup {x}
      BY <3>1 DEF Lost
    <3>3. Cardinality(Lost') \in Nat /\ Cardinality(Lost') <= Cardinality(Lost) + 1
      BY <3>2, SpoolIsFinite, OneMoreAtMost
    <3>4. AtStake = 1
      BY <2>1 DEF AtStake
    <3> QED
      BY <3>3, <3>4, SpoolIsFinite DEF Paid
  <2>2. CASE peeked \notin undercut
    <3>1. spool # <<>> /\ peeked = Head(spool)
      BY <2>2 DEF FrontIsPeeked
    <3>2. Range(spool) \subseteq Range(spool') \cup recovered' \cup rejected' \cup damaged'
      BY <1>2, <3>1
    <3>3. Lost' \subseteq Lost
      BY <3>2 DEF Lost
    <3>4. Cardinality(Lost') \in Nat /\ Cardinality(Lost') <= Cardinality(Lost)
      BY <3>3, SpoolIsFinite, OneMoreAtMost
    <3>5. AtStake = 0
      BY <2>2 DEF AtStake
    <3> QED
      BY <3>4, <3>5, SpoolIsFinite DEF Paid
  <2> QED
    BY <2>1, <2>2
<1>7. Paid'
  BY <1>5, <1>6 DEF Paid
<1> QED
  BY <1>3, <1>4, <1>7

\* What leaves the spool and the record alone keeps both.
LEMMA OthersKeepSpooled ==
    ASSUME Spooled, UNCHANGED <<spool, dropped, undercut, spooled, recovered, rejected, damaged>>,
           \A job \in Jobs : pc[job] = "done" => pc'[job] = "done",
           \/ peeked' = Nobody
           \/ spool # <<>> /\ peeked' = Head(spool) /\ Head(spool) \in Range(spool)
           \/ peeked' = peeked,
           \/ pc'[Backfill] \notin {"peeked", "attempt", "answered"}
           \/ spool # <<>> /\ peeked' = Head(spool)
           \/ peeked' = peeked /\ pc[Backfill] \in {"peeked", "attempt", "answered"}
    PROVE  Spooled'
<1> USE DEF Spooled
<1>1. HandedOver'
  BY DEF HandedOver
<1>2. FrontIsPeeked'
  BY DEF FrontIsPeeked
<1>3. Lost' = Lost
  BY DEF Lost
<1>4. AtStake' \in {0, AtStake} /\ AtStake \in {0, 1}
  BY SpoolIsFinite DEF AtStake, HandedOver
<1>5. Paid'
  BY <1>3, <1>4, SpoolIsFinite DEF Paid
<1> QED
  BY <1>1, <1>2, <1>5

LEMMA BackfillKeepsSpooled ==
    ASSUME Types, Wire, Spooled, BackfillStep
    PROVE  Spooled'
<1>1. /\ spool \in Seq(Jobs) /\ pc \in [Threads -> States]
      /\ Backfill \in Threads /\ Backfill \notin Jobs /\ Jobs \subseteq Threads
  BY JobsAssumption DEF Types, SharedTypes, ThreadTypes, Threads
<1>2. CASE Peek
  <2>1. spool # <<>> /\ peeked' = Head(spool)
    BY <1>2 DEF Peek
  <2>2. Head(spool) \in Range(spool)
    <3>1. Head(spool) \in Jobs
      BY <1>1, <2>1, HeadTailProperties
    <3> QED
      BY <1>1, <2>1, <3>1, PushedAndPopped
  <2>3. /\ UNCHANGED <<spool, dropped, undercut, spooled, recovered, rejected, damaged>>
        /\ \A job \in Jobs : pc[job] = "done" => pc'[job] = "done"
    BY <1>1, <1>2 DEF Peek, history
  <2> QED
    BY <2>1, <2>2, <2>3, OthersKeepSpooled
<1>3. CASE TryLockFails
  <2>1. /\ UNCHANGED <<spool, dropped, undercut, spooled, recovered, rejected, damaged>>
        /\ \A job \in Jobs : pc[job] = "done" => pc'[job] = "done"
        /\ pc'[Backfill] = "new" /\ peeked' = Nobody
    BY <1>1, <1>3 DEF TryLockFails, history
  <2> QED
    BY <2>1, OthersKeepSpooled
<1>4. CASE TryLock
  <2>1. /\ UNCHANGED <<spool, dropped, undercut, spooled, recovered, rejected, damaged>>
        /\ \A job \in Jobs : pc[job] = "done" => pc'[job] = "done"
        /\ pc[Backfill] = "peeked" /\ peeked' = peeked
    BY <1>1, <1>4 DEF TryLock, history
  <2> QED
    BY <2>1, OthersKeepSpooled
<1>5. CASE Unreadable
  <2>1. /\ pc[Backfill] \in {"peeked", "answered"} /\ pc' = [pc EXCEPT ![Backfill] = "new"]
        /\ peeked' = Nobody /\ spool' = IF spool = <<>> THEN spool ELSE Tail(spool)
        /\ UNCHANGED <<spooled, dropped, undercut, recovered, rejected>>
        /\ damaged \subseteq damaged' /\ (peeked \in Range(spool) => peeked \in damaged')
    BY <1>5 DEF Unreadable
  <2> QED
    BY <2>1, PopKeepsSpooled
<1>6. CASE Recover \/ Reject
  <2>1. /\ pc[Backfill] \in {"peeked", "answered"} /\ pc' = [pc EXCEPT ![Backfill] = "new"]
        /\ peeked' = Nobody /\ spool' = IF spool = <<>> THEN spool ELSE Tail(spool)
        /\ UNCHANGED <<spooled, dropped, undercut, damaged>>
        /\ recovered \subseteq recovered' /\ rejected \subseteq rejected'
        /\ peeked \in recovered' \cup rejected'
    BY <1>6 DEF Recover, Reject, Backfilled
  <2> QED
    BY <2>1, PopKeepsSpooled
<1>7. CASE Keep
  <2>1. /\ UNCHANGED <<spool, dropped, undercut, spooled, recovered, rejected, damaged>>
        /\ \A job \in Jobs : pc[job] = "done" => pc'[job] = "done"
        /\ pc'[Backfill] \in {"new", "done"} /\ peeked' = Nobody
    BY <1>1, <1>7 DEF Keep, Backfilled
  <2> QED
    BY <2>1, OthersKeepSpooled
<1> QED
  BY <1>2, <1>3, <1>4, <1>5, <1>6, <1>7 DEF BackfillStep

LEMMA NextKeepsSpooled ==
    ASSUME Types, Wire, Spooled, Next
    PROVE  Spooled'
<1>1. /\ spool \in Seq(Jobs) /\ pc \in [Threads -> States]
      /\ Backfill \in Threads /\ Backfill \notin Jobs /\ Jobs \subseteq Threads
  BY JobsAssumption DEF Types, SharedTypes, ThreadTypes, Threads
<1>2. ASSUME UNCHANGED <<spool, peeked, dropped, undercut, spooled, recovered, rejected, damaged>>,
             \A job \in Jobs : pc[job] = "done" => pc'[job] = "done",
             pc'[Backfill] \in {"peeked", "attempt", "answered"} =>
               pc[Backfill] \in {"peeked", "attempt", "answered"}
      PROVE  Spooled'
  BY <1>2, OthersKeepSpooled
<1>3. CASE \E job \in Jobs : JobStep(job)
  <2>1. PICK job \in Jobs : JobStep(job)
    BY <1>3
  <2>2. PICK next \in {"ask", "attempt", "done"} : JobMoves(job, next)
    BY <2>1, JobDoes DEF Wire
  <2>3. CASE Unanswered(job)
    <3>1. /\ pc[job] # "done" /\ pc' = [pc EXCEPT ![job] = "done"] /\ Push(job)
          /\ UNCHANGED <<peeked, recovered, rejected>>
      BY <2>3 DEF Unanswered, Answered, Finish
    <3> QED
      BY <3>1, PushKeepsSpooled
  <2>4. CASE ~Unanswered(job)
    <3>1. UNCHANGED <<spool, dropped, undercut, spooled, recovered, rejected, damaged>>
      BY <2>1, <2>4 DEF JobStep, Refuse, TooLarge, Ask, Acquire, AskLinkAgain, SendKeys,
         AskRefusedAgain, Proved, RefusedTwice, TableTwice, sharedVars, history
    <3>2. /\ peeked' = peeked /\ pc'[Backfill] = pc[Backfill]
          /\ \A other \in Jobs : pc[other] = "done" => pc'[other] = "done"
      BY <1>1, <2>2 DEF JobMoves
    <3> QED
      BY <1>2, <3>1, <3>2
  <2> QED
    BY <2>3, <2>4
<1>4. CASE BackfillStep
  BY <1>4, BackfillKeepsSpooled
<1>5. CASE \E t \in Threads : AttemptStep(t) \/ DialFails(t) \/ TimesOut(t)
  <2>1. PICK t \in Threads : AttemptMoves(t)
    BY <1>5, AttemptDoes
  <2>2. pc'[Backfill] = pc[Backfill] \/ pc[Backfill] = "attempt"
    BY <1>1, <2>1 DEF AttemptMoves, AttemptEnds
  <2>3. /\ UNCHANGED <<spool, peeked, dropped, undercut, spooled, recovered, rejected, damaged>>
        /\ \A job \in Jobs : pc[job] = "done" => pc'[job] = "done"
    BY <1>1, <2>1 DEF AttemptMoves, AttemptEnds, history
  <2> QED
    BY <1>2, <2>2, <2>3
<1>6. CASE ServerStep \/ OtherClient \/ ServerRestarts \/ LinkDrops
  BY <1>2, <1>6, ServerMoves DEF history
<1>7. CASE BackoffEnds
  BY <1>2, <1>7 DEF BackoffEnds, threadVars, history
<1>8. CASE Restart
  <2>1. /\ UNCHANGED <<spool, dropped, undercut, spooled, recovered, rejected, damaged>>
        /\ \A job \in Jobs : pc[job] = "done" => pc'[job] = "done"
        /\ pc'[Backfill] = "new" /\ peeked' = Nobody
    BY <1>1, <1>8 DEF Restart, history
  <2> QED
    BY <2>1, OthersKeepSpooled
<1> QED
  BY <1>3, <1>4, <1>5, <1>6, <1>7, <1>8 DEF Next, Environment

\* Whatever is pushed, evicted, popped or damaged, by whomever and whenever the
\* daemon is restarted, the spool loses at most one witness for each that was
\* dropped for room while the backfill was at it.
THEOREM SpoolCorrect == Spec => []UndercutCostsOne
<1>1. Init => Spooled
  <2> SUFFICES ASSUME Init PROVE Spooled
    OBVIOUS
  <2>1. Range(<<>>) = {} /\ IsInjective(<<>>)
    BY DEF Range, IsInjective
  <2>2. Backfill \in Threads
    BY DEF Threads
  <2>3. Lost = {} /\ undercut = {}
    BY DEF Init, Lost
  <2>4. Paid
    BY <2>3, FS_EmptySet DEF Paid, AtStake
  <2> QED
    BY <2>1, <2>2, <2>4 DEF Init, Spooled, HandedOver, FrontIsPeeked
<1>2. Inv1 /\ Spooled /\ [Next]_vars => Spooled'
  <2>1. ASSUME Spooled, UNCHANGED vars PROVE Spooled'
    BY <2>1 DEF Spooled, HandedOver, FrontIsPeeked, Paid, AtStake, Lost, vars, threadVars, sharedVars,
       history
  <2> QED
    BY <2>1, NextKeepsSpooled DEF Inv1
<1>3. Spooled => UndercutCostsOne
  BY SpoolIsFinite DEF Spooled, Paid, AtStake, UndercutCostsOne
<1> QED
  BY <1>1, <1>2, <1>3, WireInvariant, PTL DEF Spec
-----------------------------------------------------------------------------
(* Why a refusal that stops the run is of the witness: what the two ends   *)
(* hold of the members' keys agrees as long as no two committee witnesses  *)
(* are asked for at once, so that an answer of refusal to a witness the    *)
(* circuit takes is a fault, and two of them are two.                      *)

\* An answer of this kind has come for the thread, or waits on the connection.
Pending(t, kind) ==
    \/ pc[t] = "answered" /\ result[t].kind = kind
    \/ holder = t /\ link.sent /\ link.replies # <<>> /\ Head(link.replies).kind = kind

Events == faults + clients + restarts
Active(job) == pc[job] \in {"ask", "attempt", "answered"}

\* As long as no two committee witnesses were asked for at once.
Clean(job) == job \in Committee => overlapped = {}

\* A witness the circuit takes was refused.
Sickened(job) ==
    Clean(job) /\ Accepts(job) /\ (phase[job] = "again" \/ Pending(job, "failed"))

Connection ==
    /\ link.broken => Nothing
    /\ link.sent => link.stream
    /\ orphans # {} => Events >= 1

\* The belief marks no key that its table does not have, and a request of a
\* committee witness names or carries all of its members' keys.
Keys ==
    overlapped = {} =>
      /\ \A i, j \in Committee : Active(i) /\ Active(j) => i = j
      /\ belief.sent \subseteq Range(belief.digest)
      /\ \A job \in Committee : Active(job) =>
           /\ CarriesTable(request[job]) /\ Decodes(request[job])
           /\ request[job].base # <<>> => belief.sent \subseteq Range(request[job].base)

\* A second ask of a refused witness carries no keys, and a request that carries
\* them all is not asked for them.
Phases ==
    \A job \in Jobs :
        /\ pc[job] = "new" => phase[job] = "first"
        /\ Active(job) =>
             /\ phase[job] = "keys" => request[job].base = <<>>
             /\ phase[job] = "again" /\ CarriesTable(request[job]) => request[job].added = <<>>
             /\ Pending(job, "need_table") => request[job].base # <<>>

\* Sick answers are counted, and what an answer found in the cache stays there
\* unless something else happens.
Counted ==
    \A job \in Jobs :
        /\ Sickened(job) => faults >= 1
        /\ Sickened(job) /\ phase[job] = "again" /\ Pending(job, "failed") => faults >= 2
        /\ Sickened(job) /\ orphans # {} => Events >= 2
        /\ Sickened(job) /\ Active(job) /\ job \in Committee =>
             Contains(tables, ResultingDigest(request[job])) \/ Events >= 2
        /\ Sickened(job) /\ phase[job] = "again" /\ Pending(job, "need_table") => Events >= 2

Inv2 == Connection /\ Keys /\ Phases /\ Counted

-----------------------------------------------------------------------------
(* What a step may do to an answer that is pending, and to the counts.     *)

\* Three counts, that no step lowers.
LEMMA Sums ==
    \A x, y, z, u, v, w \in Nat :
        x <= u /\ y <= v /\ z <= w =>
            /\ x + y + z \in Nat /\ u + v + w \in Nat /\ x + y + z <= u + v + w
            /\ x <= x + y + z /\ u <= u + v + w
            /\ x < u \/ y < v \/ z < w => x + y + z + 1 <= u + v + w
  OBVIOUS

LEMMA EventsGrow ==
    ASSUME Types, Wire, Next
    PROVE  /\ faults' \in Nat /\ clients' \in Nat /\ restarts' \in Nat
           /\ faults \in Nat /\ clients \in Nat /\ restarts \in Nat
           /\ faults <= faults' /\ Events <= Events' /\ Events \in Nat /\ Events' \in Nat
           /\ faults <= Events /\ faults' <= Events'
           /\ faults < faults' \/ clients < clients' \/ restarts < restarts' => Events + 1 <= Events'
<1>1. /\ faults' \in Nat /\ clients' \in Nat /\ restarts' \in Nat
      /\ faults \in Nat /\ clients \in Nat /\ restarts \in Nat
  BY NextKeepsWire DEF Types, CountTypes
<1>2. \/ UNCHANGED <<faults, clients, restarts>>
      \/ faults' = faults + 1 /\ UNCHANGED <<clients, restarts>>
      \/ clients' = clients + 1 /\ UNCHANGED <<faults, restarts>>
      \/ restarts' = restarts + 1 /\ UNCHANGED <<faults, clients>>
  <2>1. CASE \E job \in Jobs : JobStep(job)
    BY <2>1, JobDoes DEF JobMoves, Wire
  <2>2. CASE BackfillStep
    BY <2>2, BackfillDoes DEF BackfillMoves, bounds
  <2>3. CASE ServerStep \/ OtherClient \/ ServerRestarts \/ LinkDrops
    BY <2>3 DEF ServerStep, ServeClient, ServeOrphan, OtherClient, ServerRestarts, LinkDrops, bounds
  <2>4. CASE BackoffEnds \/ Restart
    BY <2>4 DEF BackoffEnds, Restart, bounds
  <2>5. CASE \E t \in Threads : AttemptStep(t) \/ DialFails(t) \/ TimesOut(t)
    BY <2>5 DEF AttemptStep, Dial, Send, LinkFails, Read, DialFails, TimesOut, RoundFails, bounds
  <2> QED
    BY <2>1, <2>2, <2>3, <2>4, <2>5 DEF Next, Environment
<1>3. /\ faults' >= faults /\ clients' >= clients /\ restarts' >= restarts
  BY <1>1, <1>2
<1> QED
  BY <1>1, <1>3, Sums DEF Events

\* Only the server brings an answer, and only to the thread that asked.
LEMMA PendingBefore ==
    ASSUME Types, Wire, Next, NEW t \in Threads, NEW kind \in ReplyKinds, Pending(t, kind)'
    PROVE  \/ Pending(t, kind)
           \/ ServeClient /\ holder = t /\ link.sent /\ pc[t] = "attempt"
<1> USE DEF Wire
<1>1. /\ link \in Links /\ pc \in [Threads -> States] /\ result \in [Threads -> Results]
      /\ Nobody \notin Threads /\ Backfill \in Threads /\ Jobs \subseteq Threads
  BY JobsAssumption DEF Types, SharedTypes, ThreadTypes, Threads, Backfill, Nobody
<1>2. CASE \E job \in Jobs : JobStep(job)
  <2>1. PICK job \in Jobs, next \in {"ask", "attempt", "done"} : JobMoves(job, next)
    BY <1>2, JobDoes
  <2>2. CASE pc'[t] = "answered" /\ result'[t].kind = kind
    BY <1>1, <2>1, <2>2 DEF JobMoves, Pending
  <2>3. CASE holder' = t /\ link'.sent /\ link'.replies # <<>> /\ Head(link'.replies).kind = kind
    <3>1. holder = t
      BY <1>1, <2>1, <2>3 DEF JobMoves, OneAttempt
    <3> QED
      BY <2>1, <2>3, <3>1 DEF JobMoves, Pending
  <2> QED
    BY <2>2, <2>3 DEF Pending
<1>3. CASE BackfillStep
  <2>1. PICK next \in {"new", "peeked", "attempt", "done"} : BackfillMoves(next)
    BY <1>3, BackfillDoes
  <2>2. CASE pc'[t] = "answered" /\ result'[t].kind = kind
    BY <1>1, <2>1, <2>2 DEF BackfillMoves, Pending
  <2>3. CASE holder' = t /\ link'.sent /\ link'.replies # <<>> /\ Head(link'.replies).kind = kind
    <3>1. holder = t
      BY <1>1, <2>1, <2>3 DEF BackfillMoves, OneAttempt
    <3> QED
      BY <2>1, <2>3, <3>1 DEF BackfillMoves, Pending
  <2> QED
    BY <2>2, <2>3 DEF Pending
<1>4. CASE ServerStep \/ OtherClient \/ ServerRestarts \/ LinkDrops
  <2>1. UNCHANGED <<pc, result, holder>> /\ link'.sent = link.sent
    BY <1>1, <1>4, ServerMoves DEF ServerStep, ServeClient, ServeOrphan, OtherClient, ServerRestarts,
       LinkDrops, sharedVars, Links
  <2>2. CASE ServeClient
    BY <2>1, <2>2 DEF Pending, OneAttempt
  <2>3. CASE ~ServeClient
    <3>1. link' = link \/ link'.replies = <<>>
      BY <1>1, <1>4, <2>3 DEF ServerStep, ServeOrphan, OtherClient, ServerRestarts, LinkDrops,
         sharedVars, Links
    <3> QED
      BY <2>1, <3>1 DEF Pending
  <2> QED
    BY <2>2, <2>3
<1>5. CASE BackoffEnds
  BY <1>1, <1>5 DEF BackoffEnds, threadVars, Links, Pending
<1>6. CASE Restart
  <2>1. pc'[t] # "answered" /\ ~link'.sent
    BY <1>1, <1>6 DEF Restart, Threads, FreshLink
  <2> QED
    BY <2>1 DEF Pending
<1>7. CASE \E other \in Threads : AttemptStep(other) \/ DialFails(other) \/ TimesOut(other)
  <2>1. PICK other \in Threads : AttemptStep(other) \/ DialFails(other) \/ TimesOut(other)
    BY <1>7
  <2>2. AttemptMoves(other)
    BY <2>1, AttemptDoes
  <2>3. CASE t # other
    <3>1. pc'[t] = pc[t] /\ result'[t] = result[t] /\ (holder' = t => holder = t) /\ holder = other
      BY <1>1, <2>2, <2>3 DEF AttemptMoves, AttemptEnds
    <3> QED
      BY <2>3, <3>1 DEF Pending
  <2>4. CASE t = other
    <3>1. ASSUME NEW k \in SilentKinds, NEW l \in Links, RoundFails(t, k, l),
                 l.round = link.round, l.first = link.first
          PROVE  FALSE
      <4>1. l.round = 1 \/ (l.round = 2 /\ l.first \in SilentKinds)
        BY <3>1 DEF Rounds
      <4>2. ~link'.sent
        BY <3>1, <4>1, RoundFailsDoes
      <4>3. pc'[t] = "answered" /\ result'[t].kind = kind
        BY <4>2 DEF Pending
      <4>4. pc[t] = "attempt"
        BY <2>2, <2>4 DEF AttemptMoves
      <4>5. result'[t].kind \in SilentKinds
        BY <1>1, <3>1, <4>1, <4>3, <4>4, RoundFailsDoes DEF AttemptEnds
      <4> QED
        BY <4>3, <4>5 DEF ReplyKinds, SilentKinds
    <3>2. CASE Dial(t)
      BY <1>1, <3>2 DEF Dial, threadVars, Links, Pending
    <3>3. CASE Send(t)
      <4>1. link.replies = <<>>
        BY <3>3 DEF Send, OnTheWire, Nothing
      <4>2. link'.replies = <<>> /\ UNCHANGED <<pc, result>>
        BY <1>1, <3>3, <4>1 DEF Send, threadVars, Links
      <4> QED
        BY <4>2 DEF Pending
    <3>4. CASE Read(t)
      <4>1. /\ ~link'.sent /\ link.sent /\ link.replies # <<>> /\ holder = t
            /\ AttemptEnds(t, Head(link.replies))
        BY <1>1, <3>4 DEF Read, Attempting, Links
      <4>2. pc'[t] = "answered" /\ result'[t].kind = kind
        BY <4>1 DEF Pending
      <4>3. result'[t] = Head(link.replies)
        BY <1>1, <4>1 DEF AttemptEnds
      <4> QED
        BY <4>1, <4>2, <4>3 DEF Pending
    <3>5. CASE LinkFails(t)
      BY <1>1, <3>1, <3>5 DEF LinkFails, SilentKinds
    <3>6. CASE DialFails(t)
      <4> DEFINE l == [link EXCEPT !.backoff = TRUE]
      <4>1. l \in Links /\ l.round = link.round /\ l.first = link.first
        BY <1>1, LinkUpdates DEF Links
      <4>2. RoundFails(t, "unanswered", l)
        BY <3>6 DEF DialFails
      <4> HIDE DEF l
      <4> QED
        BY <3>1, <4>1, <4>2 DEF SilentKinds
    <3>7. CASE TimesOut(t)
      BY <1>1, <3>1, <3>7 DEF TimesOut, SilentKinds
    <3> QED
      BY <2>1, <2>4, <3>2, <3>3, <3>4, <3>5, <3>6, <3>7 DEF AttemptStep
  <2> QED
    BY <2>3, <2>4
<1> QED
  BY <1>2, <1>3, <1>4, <1>5, <1>6, <1>7 DEF Next, Environment

\* The attempt's round that failed: what it was, for what and over which link.
LEMMA RoundsThatFail ==
    ASSUME Types, Wire, Connection, NEW t \in Threads, LinkFails(t) \/ DialFails(t) \/ TimesOut(t)
    PROVE  /\ ~link'.sent /\ ~link'.broken
           /\ link'.requests = <<>> /\ link'.replies = <<>>
           /\ UNCHANGED <<request, phase, tries, outcome, belief, tables, clients, restarts, history>>
           /\ orphans' = orphans \/ faults' = faults + 1
           /\ faults' \in {faults, faults + 1}
<1> USE DEF Wire
<1>1. link \in Links
  BY DEF Types, SharedTypes
<1>2. ASSUME NEW kind \in SilentKinds, NEW l \in Links, RoundFails(t, kind, l),
             l.round = link.round, l.first = link.first
      PROVE  /\ ~link'.sent /\ ~link'.broken
             /\ link'.requests = <<>> /\ link'.replies = <<>>
             /\ UNCHANGED <<request, phase, tries, outcome, belief, tables, clients, restarts, history>>
             /\ orphans' = orphans \cup Range(l.requests)
  <2>1. l.round = 1 \/ (l.round = 2 /\ l.first \in SilentKinds)
    BY <1>2 DEF Rounds
  <2> QED
    BY <1>2, <2>1, RoundFailsDoes
<1>3. CASE LinkFails(t)
  <2>1. RoundFails(t, "unanswered", link) /\ faults' = faults
    BY <1>3 DEF LinkFails
  <2>2. link.requests = <<>>
    BY <1>3 DEF LinkFails, Connection, OnTheWire, Nothing
  <2>3. Range(link.requests) = {}
    BY <2>2 DEF Range
  <2> QED
    BY <1>1, <1>2, <2>1, <2>3 DEF SilentKinds
<1>4. CASE DialFails(t)
  <2> DEFINE l == [link EXCEPT !.backoff = TRUE]
  <2>1. l \in Links /\ l.round = link.round /\ l.first = link.first
    BY <1>1, LinkUpdates DEF Links
  <2>2. RoundFails(t, "unanswered", l) /\ faults' = faults + 1
    BY <1>4 DEF DialFails
  <2> HIDE DEF l
  <2> QED
    BY <1>2, <2>1, <2>2 DEF SilentKinds
<1>5. CASE TimesOut(t)
  BY <1>1, <1>2, <1>5 DEF TimesOut, SilentKinds
<1> QED
  BY <1>3, <1>4, <1>5

\* A request is left to a server that nobody listens to only when something went
\* wrong.
LEMMA OrphansCost ==
    ASSUME Types, Wire, Connection, Next
    PROVE  orphans' \subseteq orphans \/ Events + 1 <= Events'
<1>1. /\ faults < faults' \/ clients < clients' \/ restarts < restarts' => Events + 1 <= Events'
      /\ faults \in Nat /\ restarts \in Nat
  BY EventsGrow
<1>2. CASE \E job \in Jobs : JobStep(job)
  BY <1>2, JobDoes DEF JobMoves, Wire
<1>3. CASE BackfillStep
  BY <1>3, BackfillDoes DEF BackfillMoves, serverVars
<1>4. CASE ServerStep \/ OtherClient \/ ServerRestarts \/ LinkDrops
  <2>1. CASE ServerStep \/ OtherClient \/ ServerRestarts
    BY <2>1 DEF ServerStep, ServeClient, ServeOrphan, OtherClient, ServerRestarts
  <2>2. CASE LinkDrops
    <3>1. faults' = faults + 1
      BY <2>2 DEF LinkDrops
    <3> QED
      BY <1>1, <3>1
  <2> QED
    BY <1>4, <2>1, <2>2
<1>5. CASE BackoffEnds \/ Restart
  BY <1>1, <1>5 DEF BackoffEnds, Restart, serverVars
<1>6. CASE \E t \in Threads : AttemptStep(t) \/ DialFails(t) \/ TimesOut(t)
  <2>1. PICK t \in Threads : AttemptStep(t) \/ DialFails(t) \/ TimesOut(t)
    BY <1>6
  <2>2. CASE Dial(t) \/ Send(t) \/ Read(t)
    BY <2>2 DEF Dial, Send, Read, serverVars
  <2>3. CASE LinkFails(t) \/ DialFails(t) \/ TimesOut(t)
    BY <1>1, <2>3, RoundsThatFail
  <2> QED
    BY <2>1, <2>2, <2>3 DEF AttemptStep
<1> QED
  BY <1>2, <1>3, <1>4, <1>5, <1>6 DEF Next, Environment

LEMMA NextKeepsConnection ==
    ASSUME Types, Wire, Connection, Next
    PROVE  Connection'
<1> USE DEF Wire
<1>1. link \in Links
  BY DEF Types, SharedTypes
<1>2. orphans' # {} => Events' >= 1
  <2>1. Events \in Nat /\ Events' \in Nat /\ Events <= Events'
    BY EventsGrow
  <2> QED
    BY <2>1, OrphansCost DEF Connection
<1>3. (link'.broken => Nothing') /\ (link'.sent => link'.stream)
  <2>1. CASE \E job \in Jobs : JobStep(job)
    BY <2>1, JobDoes DEF JobMoves, Connection, Nothing
  <2>2. CASE BackfillStep
    BY <2>2, BackfillDoes DEF BackfillMoves, Connection, Nothing
  <2>3. CASE ServeClient
    <3>1. link.requests # <<>> /\ link'.broken = link.broken /\ link'.sent = link.sent
          /\ link'.stream = link.stream
      BY <1>1, <2>3 DEF ServeClient, Links
    <3> QED
      BY <3>1 DEF Connection, Nothing
  <2>4. CASE ServeOrphan \/ OtherClient
    BY <2>4 DEF ServeOrphan, OtherClient, sharedVars, Connection, Nothing
  <2>5. CASE ServerRestarts \/ LinkDrops
    <3>1. /\ link'.requests = <<>> /\ link'.replies = <<>> /\ link'.sent = link.sent
          /\ link'.stream = link.stream
      BY <1>1, <2>5 DEF ServerRestarts, LinkDrops, Links
    <3> QED
      BY <3>1 DEF Connection, Nothing
  <2>6. CASE BackoffEnds
    BY <1>1, <2>6 DEF BackoffEnds, Connection, Nothing, Links
  <2>7. CASE Restart
    BY <2>7 DEF Restart, FreshLink
  <2>8. CASE \E t \in Threads : AttemptStep(t) \/ DialFails(t) \/ TimesOut(t)
    <3>1. PICK t \in Threads : AttemptStep(t) \/ DialFails(t) \/ TimesOut(t)
      BY <2>8
    <3>2. CASE Dial(t) \/ Send(t)
      BY <1>1, <3>2 DEF Dial, Send, Connection, Nothing, Links
    <3>3. CASE Read(t)
      <4>1. ~link'.sent /\ link'.broken = link.broken /\ link.replies # <<>>
        BY <1>1, <3>3 DEF Read, Links
      <4> QED
        BY <4>1 DEF Connection, Nothing
    <3>4. CASE LinkFails(t) \/ DialFails(t) \/ TimesOut(t)
      BY <3>4, RoundsThatFail
    <3> QED
      BY <3>1, <3>2, <3>3, <3>4 DEF AttemptStep
  <2> QED
    BY <2>1, <2>2, <2>3, <2>4, <2>5, <2>6, <2>7, <2>8 DEF Next, Environment, ServerStep
<1> QED
  BY <1>2, <1>3 DEF Connection

-----------------------------------------------------------------------------
(* A job's own steps, and everything else.                                 *)

\* A step of the job's thread leaves no answer pending for it.
LEMMA NothingPending ==
    ASSUME Types, Wire, NEW job \in Jobs, JobStep(job), NEW kind
    PROVE  ~Pending(job, kind)'
<1> USE DEF Wire
<1>1. pc \in [Threads -> States] /\ job \in Threads /\ Nobody \notin Threads
  BY JobsAssumption DEF Types, ThreadTypes, Threads, Nobody, Backfill
<1>2. PICK next \in {"ask", "attempt", "done"} : JobMoves(job, next)
  BY JobDoes
<1>3. pc'[job] # "answered"
  BY <1>1, <1>2 DEF JobMoves
<1>4. holder' = job => ~link'.sent
  <2>1. link.sent => holder # Nobody /\ holder # job
    BY <1>1, <1>2 DEF JobMoves, OneAttempt
  <2> QED
    BY <1>2, <2>1 DEF JobMoves
<1> QED
  BY <1>3, <1>4 DEF Pending

\* The steps of others leave the job its request and the ask it is at.
LEMMA OthersKeep ==
    ASSUME Types, Wire, Next, NEW job \in Jobs, ~JobStep(job)
    PROVE  /\ request'[job] = request[job] /\ phase'[job] = phase[job]
           /\ Active(job)' => Active(job)
           /\ pc'[job] = "new" => pc[job] = "new"
<1> USE DEF Wire
<1>1. /\ pc \in [Threads -> States] /\ request \in [Threads -> Asks] /\ job \in Threads
      /\ phase \in [Jobs -> {"first", "keys", "again"}] /\ job # Backfill
  BY JobsAssumption DEF Types, ThreadTypes, Threads
<1>2. CASE \E other \in Jobs : JobStep(other)
  <2>1. PICK other \in Jobs : JobStep(other)
    BY <1>2
  <2>2. PICK next \in {"ask", "attempt", "done"} : JobMoves(other, next)
    BY <2>1, JobDoes
  <2>3. job # other
    BY <2>1
  <2>4. phase' = phase \/ \E now : phase' = [phase EXCEPT ![other] = now]
    BY <2>1 DEF JobStep, Refuse, TooLarge, Ask, Acquire, AskLinkAgain, SendKeys, AskRefusedAgain,
       Proved, RefusedTwice, TableTwice, Unanswered, Finish
  <2>5. phase'[job] = phase[job]
    BY <1>1, <2>3, <2>4
  <2> QED
    BY <1>1, <2>2, <2>3, <2>5 DEF JobMoves, Active
<1>3. CASE BackfillStep
  <2>1. PICK next \in {"new", "peeked", "attempt", "done"} : BackfillMoves(next)
    BY <1>3, BackfillDoes
  <2>2. request' = request \/ request' = [request EXCEPT ![Backfill] = Whole(peeked)]
    BY <2>1 DEF BackfillMoves
  <2> QED
    BY <1>1, <2>1, <2>2 DEF BackfillMoves, Active
<1>4. CASE ServerStep \/ OtherClient \/ ServerRestarts \/ LinkDrops
  BY <1>4, ServerMoves DEF Active
<1>5. CASE BackoffEnds
  BY <1>5 DEF BackoffEnds, threadVars, Active
<1>6. CASE Restart
  BY <1>1, <1>6 DEF Restart, Active
<1>7. CASE \E t \in Threads : AttemptStep(t) \/ DialFails(t) \/ TimesOut(t)
  <2>1. PICK t \in Threads : AttemptMoves(t)
    BY <1>7, AttemptDoes
  <2>2. pc' = pc \/ pc' = [pc EXCEPT ![t] = "answered"]
    BY <2>1 DEF AttemptMoves, AttemptEnds
  <2> QED
    BY <1>1, <2>1, <2>2 DEF AttemptMoves, Active
<1> QED
  BY <1>2, <1>3, <1>4, <1>5, <1>6, <1>7 DEF Next, Environment

\* A table that a request names is the table it leaves the server with.
LEMMA DigestIsATable ==
    ASSUME NEW req \in Asks, CarriesTable(req)
    PROVE  ResultingDigest(req) # NoTable
<1>1. req.base \in Seq(Int) /\ req.added \in Seq(Nat) /\ req.added \in Seq(Int)
  BY SeqMonotonic DEF Asks
<1> DEFINE base == req.base
           added == req.added
<1> HIDE DEF base, added
<1>2. /\ base \in Seq(Int) /\ added \in Seq(Nat) /\ added \in Seq(Int)
  BY <1>1 DEF base, added
<1>3. /\ Len(base \o added) = Len(base) + Len(added)
      /\ \A i \in 1 .. Len(base) + Len(added) :
            (base \o added)[i] = IF i <= Len(base) THEN base[i] ELSE added[i - Len(base)]
  BY <1>2, ConcatProperties
<1>4. SUFFICES ASSUME base \o added = <<-1>> PROVE FALSE
  BY DEF ResultingDigest, NoTable, base, added
<1>5. Len(base) + Len(added) = 1 /\ Len(base) \in Nat /\ Len(added) \in Nat
  BY <1>2, <1>3, <1>4, LenProperties
<1>6. CASE Len(base) = 1 /\ Len(added) = 0
  <2>1. base[1] = -1
    BY <1>3, <1>4, <1>6
  <2>2. base = <<-1>>
    BY <1>2, <1>6, <2>1, SeqEqual
  <2> QED
    BY <2>2 DEF CarriesTable, NoTable, base
<1>7. CASE Len(base) = 0 /\ Len(added) = 1
  <2>1. added[1] = -1
    BY <1>3, <1>4, <1>7
  <2>2. added[1] \in Nat
    BY <1>2, <1>7
  <2> QED
    BY <2>1, <2>2
<1>8. \A m, n \in Nat : m + n = 1 => (m = 1 /\ n = 0) \/ (m = 0 /\ n = 1)
  OBVIOUS
<1> QED
  BY <1>5, <1>6, <1>7, <1>8

LEMMA FullCarries ==
    ASSUME NEW job \in Committee
    PROVE  CarriesTable(Full(job)) /\ Decodes(Full(job))
<1>1. Full(job) \in Asks /\ Full(job).job = job /\ Full(job).base = <<>>
      /\ Range(Full(job).added) = Members[job]
  BY FullType
<1>2. <<>> # NoTable
  BY DEF NoTable
<1> QED
  BY <1>1, <1>2, DigestType DEF CarriesTable, Decodes

\* What the plan leaves out the named table has.
LEMMA PlanCarries ==
    ASSUME NEW job \in Committee, belief \in Beliefs, belief.sent \subseteq Range(belief.digest)
    PROVE  /\ CarriesTable(Plan(job)) /\ Decodes(Plan(job))
           /\ Plan(job).base # <<>> => belief.sent \subseteq Range(Plan(job).base)
<1>1. CASE belief.digest = NoTable
  <2>1. Plan(job) = Full(job)
    BY <1>1 DEF Plan
  <2> QED
    BY <2>1, FullCarries, FullType
<1>2. CASE belief.digest # NoTable
  <2> DEFINE req == Plan(job)
  <2>1. /\ req.job = job /\ req.base = belief.digest
        /\ req.added = InOrder(Members[job] \ belief.sent)
    BY <1>2 DEF Plan, Naming
  <2>2. Range(req.added) = Members[job] \ belief.sent
    BY <2>1, KeysType
  <2>3. Range(ResultingDigest(req)) = Range(belief.digest) \cup (Members[job] \ belief.sent)
    BY <2>1, <2>2, PlanType, DigestType
  <2> HIDE DEF req
  <2> QED
    BY <1>2, <2>1, <2>3 DEF CarriesTable, Decodes, req
<1> QED
  BY <1>1, <1>2

-----------------------------------------------------------------------------
(* The keys.                                                               *)

\* Whoever goes on asking for what it asked keeps what the belief marks, as a
\* belief given up does.
LEMMA KeysStay ==
    ASSUME Keys, overlapped' = overlapped, belief' = belief \/ belief' = NoBelief,
           \A job \in Committee : Active(job)' => Active(job) /\ request'[job] = request[job]
    PROVE  Keys'
<1>1. \/ belief'.sent \subseteq belief.sent /\ belief'.sent \subseteq Range(belief'.digest)
      \/ overlapped # {}
  BY DEF Keys, NoBelief
<1>2. ASSUME overlapped = {}, NEW job \in Committee, Active(job)'
      PROVE  /\ CarriesTable(request[job])' /\ Decodes(request[job])'
             /\ request'[job].base # <<>> => belief'.sent \subseteq Range(request'[job].base)
  <2>1. Active(job) /\ request'[job] = request[job]
    BY <1>2
  <2>2. /\ CarriesTable(request[job]) /\ Decodes(request[job])
        /\ request[job].base # <<>> => belief.sent \subseteq Range(request[job].base)
    BY <1>2, <2>1 DEF Keys
  <2> QED
    BY <1>1, <1>2, <2>1, <2>2 DEF CarriesTable, Decodes, ResultingDigest
<1>3. ASSUME overlapped = {}, NEW i \in Committee, NEW j \in Committee, Active(i)', Active(j)'
      PROVE  i = j
  BY <1>3 DEF Keys
<1> QED
  BY <1>1, <1>2, <1>3 DEF Keys

\* An answer of refusal or a proof says that the server took the keys: the
\* belief names what the request left, and marks what it has.
LEMMA AdoptKeeps ==
    ASSUME NEW req \in Asks, CarriesTable(req), belief \in Beliefs,
           req.base # <<>> => belief.sent \subseteq Range(req.base)
    PROVE  /\ Adopt(req).digest = ResultingDigest(req) /\ Adopt(req).digest # NoTable
           /\ Adopt(req).sent \subseteq Range(Adopt(req).digest)
           /\ Adopt(req) \in Beliefs
<1>1. Range(ResultingDigest(req)) = Range(req.base) \cup Range(req.added)
  BY DigestType
<1>2. ResultingDigest(req) # NoTable
  BY DigestIsATable
<1> QED
  BY <1>1, <1>2, AdoptType DEF Adopt

\* The second ask of a committee witness is for the same table.
LEMMA SettledAsk ==
    ASSUME Types, Wire, NEW job \in Jobs, AskRefusedAgain(job)
    PROVE  /\ job \notin Committee => belief' = belief /\ ~CarriesTable(request'[job])
           /\ job \in Committee => belief' = Adopt(request[job])
           /\ job \in Committee /\ CarriesTable(request[job]) =>
                request'[job] = Naming(job, ResultingDigest(request[job]), <<>>)
           /\ ~CarriesTable(request[job]) => ~CarriesTable(request'[job]) \/ job \in Committee
<1>1. /\ request \in [Threads -> Asks] /\ job \in Threads
      /\ CarriesTable(request[job]) => job \in Committee
  BY DEF Types, ThreadTypes, Threads, Wire, OwnRequests
<1>2. /\ belief' = IF job \in Committee THEN Adopt(request[job]) ELSE belief
      /\ request'[job] = Settled(job, belief')
  BY <1>1 DEF AskRefusedAgain, Took
<1>3. ASSUME job \in Committee, CarriesTable(request[job])
      PROVE  request'[job] = Naming(job, ResultingDigest(request[job]), <<>>)
  <2>1. belief'.digest = ResultingDigest(request[job])
    BY <1>2, <1>3 DEF Adopt
  <2>2. belief'.digest # NoTable
    BY <1>1, <1>3, <2>1, DigestIsATable
  <2> QED
    BY <1>2, <1>3, <2>1, <2>2 DEF Settled
<1>4. job \notin Committee => request'[job] = request[job]
  BY <1>2 DEF Settled
<1> QED
  BY <1>1, <1>2, <1>3, <1>4

LEMMA JobKeepsKeys ==
    ASSUME Types, Wire, Keys, NEW job \in Jobs, JobStep(job)
    PROVE  Keys'
<1> USE DEF Wire
<1>1. /\ pc \in [Threads -> States] /\ request \in [Threads -> Asks] /\ belief \in Beliefs
      /\ job \in Threads /\ Committee \subseteq Jobs /\ Jobs \subseteq Threads
  BY JobsAssumption DEF Types, ThreadTypes, SharedTypes, Threads
<1>2. PICK next \in {"ask", "attempt", "done"} : JobMoves(job, next)
  BY JobDoes
<1>3. \A other \in Jobs \ {job} :
        request'[other] = request[other] /\ Active(other)' = Active(other)
  BY <1>1, <1>2 DEF JobMoves, Active
<1>4. CASE Refuse(job) \/ TooLarge(job) \/ Acquire(job) \/ AskLinkAgain(job)
           \/ RefusedTwice(job) \/ TableTwice(job) \/ Unanswered(job)
  <2>1. overlapped' = overlapped /\ belief' = belief /\ request' = request
    BY <1>4 DEF Refuse, TooLarge, Acquire, AskLinkAgain, RefusedTwice, TableTwice, Unanswered,
       Finish, sharedVars, history
  <2>2. Active(job)' => Active(job)
    BY <1>1, <1>4 DEF Refuse, TooLarge, Acquire, AskLinkAgain, RefusedTwice, TableTwice, Unanswered,
       Finish, Answered, Active
  <2> QED
    BY <1>1, <1>3, <2>1, <2>2, KeysStay
\* Of the job and the others it is enough to say what holds when none overlap.
<1>5. ASSUME overlapped' = {} => overlapped = {},
             job \in Committee,
             overlapped' = {} =>
               /\ \A other \in Committee \ {job} : ~Active(other)
               /\ belief'.sent \subseteq Range(belief'.digest)
               /\ CarriesTable(request'[job]) /\ Decodes(request'[job])
               /\ request'[job].base # <<>> => belief'.sent \subseteq Range(request'[job].base)
      PROVE  Keys'
  <2>1. overlapped' = {} => \A other \in Committee : Active(other)' => other = job
    BY <1>1, <1>3, <1>5
  <2>2. CarriesTable(request'[job]) <=> CarriesTable(request[job])'
    BY DEF CarriesTable
  <2>3. Decodes(request'[job]) <=> Decodes(request[job])'
    BY DEF Decodes, ResultingDigest
  <2> QED
    BY <1>5, <2>1, <2>2, <2>3 DEF Keys
<1>6. CASE Ask(job)
  <2>1. belief' = belief /\ (overlapped' = {} => overlapped = {})
    BY <1>6 DEF Ask, sharedVars
  <2>2. CASE job \in Committee
    <3>1. overlapped' = {} => \A other \in Committee \ {job} : ~Active(other)
      BY <1>6, <2>2 DEF Ask, Active
    <3>2. request'[job] = Plan(job)
      BY <1>1, <1>6, <2>2 DEF Ask
    <3>3. overlapped' = {} => belief.sent \subseteq Range(belief.digest)
      BY <2>1 DEF Keys
    <3> QED
      BY <1>1, <1>5, <2>1, <2>2, <3>1, <3>2, <3>3, PlanCarries
  <2>3. CASE job \notin Committee
    <3>1. overlapped' = overlapped
      BY <1>6, <2>3 DEF Ask
    <3> QED
      BY <1>1, <1>3, <2>1, <2>3, <3>1, KeysStay
  <2> QED
    BY <2>2, <2>3
<1>7. CASE SendKeys(job)
  <2>1. belief' = belief /\ overlapped' = overlapped /\ request'[job] = Full(job) /\ Active(job)
    BY <1>1, <1>7 DEF SendKeys, Answered, sharedVars, history, Active
  <2>2. job \in Committee
    BY <1>1, <1>7 DEF SendKeys, Answered, OwnAnswers, OwnRequests, AnswerTo, ReplyKinds
  <2> QED
    BY <1>5, <2>1, <2>2, FullCarries, FullType DEF Keys
<1>8. CASE AskRefusedAgain(job)
  <2>1. overlapped' = overlapped /\ Active(job)
    BY <1>8 DEF AskRefusedAgain, Answered, history, Active
  <2>2. CASE job \in Committee
    <3> DEFINE req == request[job]
    <3>1. overlapped = {} =>
            /\ \A other \in Committee \ {job} : ~Active(other)
            /\ CarriesTable(req) /\ Decodes(req)
            /\ req.base # <<>> => belief.sent \subseteq Range(req.base)
      BY <2>1, <2>2 DEF Keys
    <3>2. belief' = Adopt(req)
      BY <1>8, <2>2, SettledAsk
    <3>3. overlapped = {} =>
            /\ request'[job] = Naming(job, ResultingDigest(req), <<>>)
            /\ belief'.digest = ResultingDigest(req) /\ ResultingDigest(req) # NoTable
            /\ belief'.sent \subseteq Range(ResultingDigest(req))
      BY <1>1, <1>8, <2>2, <3>1, <3>2, SettledAsk, AdoptKeeps
    <3> DEFINE digest == ResultingDigest(req)
    <3>4. digest \in Seq(Int) /\ req.job = job
      BY <1>1, <1>8, DigestType DEF AskRefusedAgain, Answered, OwnRequests
    <3>5. overlapped = {} => Members[job] \subseteq Range(digest)
      BY <3>1, <3>4 DEF Decodes
    <3>6. digest # NoTable =>
            /\ CarriesTable(Naming(job, digest, <<>>))
            /\ ResultingDigest(Naming(job, digest, <<>>)) = digest
            /\ Naming(job, digest, <<>>).base = digest
            /\ Naming(job, digest, <<>>).job = job
      <4> HIDE DEF digest
      <4>1. digest \o <<>> = digest
        BY <3>4, ConcatEmptySeq
      <4> QED
        BY <4>1 DEF Naming, CarriesTable, ResultingDigest
    <3> HIDE DEF digest, req
    <3>7. overlapped = {} =>
            /\ CarriesTable(request'[job]) /\ Decodes(request'[job])
            /\ belief'.sent \subseteq Range(request'[job].base)
      BY <3>3, <3>5, <3>6 DEF Decodes, digest
    <3> QED
      BY <1>5, <2>1, <2>2, <3>1, <3>3, <3>7
  <2>3. CASE job \notin Committee
    BY <1>1, <1>3, <1>8, <2>1, <2>3, SettledAsk, KeysStay
  <2> QED
    BY <2>2, <2>3
<1>9. CASE Proved(job)
  <2>1. overlapped' = overlapped /\ belief' = Took(job) /\ request' = request
        /\ ~Active(job)' /\ Active(job)
    BY <1>1, <1>9 DEF Proved, Finish, Answered, history, Active
  <2>2. CASE belief' = belief
    BY <1>1, <1>3, <2>1, <2>2, KeysStay
  <2>3. CASE job \in Committee /\ belief' = Adopt(request[job])
    <3>1. overlapped = {} =>
            /\ \A other \in Committee \ {job} : ~Active(other)
            /\ CarriesTable(request[job]) /\ Decodes(request[job])
            /\ request[job].base # <<>> => belief.sent \subseteq Range(request[job].base)
      BY <2>1, <2>3 DEF Keys
    <3>2. overlapped = {} => belief'.sent \subseteq Range(belief'.digest)
      BY <1>1, <2>3, <3>1, AdoptKeeps
    <3>3. overlapped = {} => \A other \in Committee : ~Active(other)'
      BY <1>1, <1>3, <2>1, <3>1
    <3> QED
      BY <2>1, <3>2, <3>3 DEF Keys
  <2> QED
    BY <2>1, <2>2, <2>3 DEF Took
<1> QED
  BY <1>4, <1>6, <1>7, <1>8, <1>9 DEF JobStep

LEMMA NextKeepsKeys ==
    ASSUME Types, Wire, Keys, Next
    PROVE  Keys'
<1> USE DEF Wire
<1>1. Committee \subseteq Jobs /\ Jobs \subseteq Threads
  BY JobsAssumption DEF Threads
<1>2. CASE \E job \in Jobs : JobStep(job)
  BY <1>2, JobKeepsKeys
<1>3. CASE ~\E job \in Jobs : JobStep(job)
  <2>1. \A job \in Committee : Active(job)' => Active(job) /\ request'[job] = request[job]
    BY <1>1, <1>3, OthersKeep
  <2>2. overlapped' = overlapped /\ (belief' = belief \/ belief' = NoBelief)
    <3>1. CASE BackfillStep
      BY <3>1, BackfillDoes DEF BackfillMoves
    <3>2. CASE ServerStep \/ OtherClient \/ ServerRestarts \/ LinkDrops
      BY <3>2, ServerMoves DEF history
    <3>3. CASE BackoffEnds \/ Restart
      BY <3>3 DEF BackoffEnds, Restart, history
    <3>4. CASE \E t \in Threads : AttemptStep(t) \/ DialFails(t) \/ TimesOut(t)
      <4>1. PICK t \in Threads : AttemptStep(t) \/ DialFails(t) \/ TimesOut(t)
        BY <3>4
      <4>2. overlapped' = overlapped
        BY <4>1, AttemptDoes DEF AttemptMoves, history
      <4>3. belief' = belief \/ belief' = NoBelief
        BY <4>1 DEF AttemptStep, Dial, Send, LinkFails, Read, DialFails, TimesOut, RoundFails
      <4> QED
        BY <4>2, <4>3
    <3> QED
      BY <1>3, <3>1, <3>2, <3>3, <3>4 DEF Next, Environment
  <2> QED
    BY <2>1, <2>2, KeysStay
<1> QED
  BY <1>2, <1>3

-----------------------------------------------------------------------------
(* The asks.                                                               *)

\* What the server does for the client that has the connection.
LEMMA Served ==
    ASSUME Types, Wire, ServeClient
    PROVE  /\ link.sent /\ holder \in Threads /\ pc[holder] = "attempt"
           /\ request[holder] \in Asks
           /\ \E reply \in Answers(tables, request[holder]) :
                /\ link'.replies # <<>> /\ Head(link'.replies) = reply
                /\ faults' = IF Sick(tables, request[holder], reply) THEN faults + 1 ELSE faults
           /\ tables' = TablesAfter(tables, request[holder])
           /\ UNCHANGED <<orphans, clients, restarts, overlapped, pc, request, phase, outcome, holder>>
<1> USE DEF Wire
<1>1. link \in Links /\ request \in [Threads -> Asks]
  BY DEF Types, SharedTypes, ThreadTypes
<1>2. link.sent /\ Asking /\ holder \in Threads /\ pc[holder] = "attempt"
  BY DEF ServeClient, OnTheWire, Nothing, Replying, OneAttempt
<1>3. Head(link.requests) = request[holder] /\ link.replies = <<>>
  BY <1>2 DEF Asking
<1>4. PICK reply \in Answers(tables, request[holder]) :
        /\ faults' = IF Sick(tables, request[holder], reply) THEN faults + 1 ELSE faults
        /\ tables' = TablesAfter(tables, request[holder])
        /\ link' = [link EXCEPT !.requests = Tail(@), !.replies = Append(@, reply)]
  BY <1>3 DEF ServeClient
<1>5. link'.replies = <<reply>>
  BY <1>1, <1>3, <1>4 DEF Links
<1>6. link'.replies # <<>> /\ Head(link'.replies) = reply
  BY <1>5
<1>7. UNCHANGED <<orphans, clients, restarts, overlapped, pc, request, phase, outcome, holder>>
  BY DEF ServeClient, threadVars, history
<1> QED
  BY <1>1, <1>2, <1>4, <1>6, <1>7

LEMMA NextKeepsPhases ==
    ASSUME Types, Wire, Phases, Next
    PROVE  Phases'
<1> USE DEF Wire
<1> SUFFICES ASSUME NEW job \in Jobs
             PROVE  /\ pc'[job] = "new" => phase'[job] = "first"
                    /\ Active(job)' =>
                         /\ phase'[job] = "keys" => request'[job].base = <<>>
                         /\ phase'[job] = "again" /\ CarriesTable(request'[job]) =>
                              request'[job].added = <<>>
                         /\ Pending(job, "need_table")' => request'[job].base # <<>>
  BY DEF Phases, CarriesTable
<1>1. /\ pc \in [Threads -> States] /\ request \in [Threads -> Asks] /\ job \in Threads
      /\ phase \in [Jobs -> {"first", "keys", "again"}] /\ Committee \subseteq Jobs
  BY JobsAssumption DEF Types, ThreadTypes, Threads
<1>2. /\ pc[job] = "new" => phase[job] = "first"
      /\ Active(job) =>
           /\ phase[job] = "keys" => request[job].base = <<>>
           /\ phase[job] = "again" /\ CarriesTable(request[job]) => request[job].added = <<>>
           /\ Pending(job, "need_table") => request[job].base # <<>>
  BY DEF Phases
<1>3. CASE JobStep(job)
  <2>1. ~Pending(job, "need_table")'
    BY <1>3, NothingPending
  <2>2. CASE pc'[job] = "done"
    BY <2>2 DEF Active
  <2>3. CASE Acquire(job) \/ AskLinkAgain(job)
    <3>1. Active(job) /\ request' = request /\ phase' = phase /\ pc'[job] # "new"
      BY <1>1, <2>3 DEF Acquire, AskLinkAgain, Answered, Active
    <3> QED
      BY <1>2, <2>1, <3>1
  <2>4. CASE Ask(job)
    <3>1. phase'[job] = "first" /\ pc'[job] # "new"
      BY <1>1, <1>2, <2>4 DEF Ask
    <3> QED
      BY <2>1, <3>1
  <2>5. CASE SendKeys(job)
    <3>1. phase'[job] = "keys" /\ pc'[job] # "new" /\ request'[job] = Full(job)
      BY <1>1, <2>5 DEF SendKeys
    <3>2. request'[job].base = <<>>
      BY <3>1 DEF Full, Naming
    <3> QED
      BY <2>1, <3>1, <3>2
  <2>6. CASE AskRefusedAgain(job)
    <3>1. phase'[job] = "again" /\ pc'[job] # "new"
      BY <1>1, <2>6 DEF AskRefusedAgain
    <3>2. CASE CarriesTable(request[job])
      <4>1. job \in Committee
        BY <3>2 DEF OwnRequests
      <4>2. request'[job] = Naming(job, ResultingDigest(request[job]), <<>>)
        BY <2>6, <3>2, <4>1, SettledAsk
      <4>3. request'[job].added = <<>>
        BY <4>2 DEF Naming
      <4> QED
        BY <2>1, <3>1, <4>3
    <3>3. CASE ~CarriesTable(request[job]) /\ job \in Committee
      <4>1. request'[job].added = <<>> \/ ~CarriesTable(request'[job])
        BY <1>1, <2>6, <3>3 DEF AskRefusedAgain, Settled, Naming
      <4> QED
        BY <2>1, <3>1, <4>1
    <3>4. CASE job \notin Committee
      BY <2>1, <2>6, <3>1, <3>4, SettledAsk
    <3> QED
      BY <3>2, <3>3, <3>4
  <2> QED
    BY <1>1, <1>3, <2>2, <2>3, <2>4, <2>5, <2>6 DEF JobStep, Refuse, TooLarge, RefusedTwice,
       TableTwice, Unanswered, Proved, Finish
<1>4. CASE ~JobStep(job)
  <2>1. /\ request'[job] = request[job] /\ phase'[job] = phase[job]
        /\ Active(job)' => Active(job)
        /\ pc'[job] = "new" => pc[job] = "new"
    BY <1>4, OthersKeep
  <2>2. ASSUME Pending(job, "need_table")', Active(job)
        PROVE  request[job].base # <<>>
    <3>1. CASE Pending(job, "need_table")
      BY <1>2, <2>2, <3>1
    <3>2. CASE ServeClient /\ holder = job
      <4>1. PICK reply \in Answers(tables, request[job]) : Head(link'.replies) = reply
        BY <3>2, Served
      <4>2. pc'[job] # "answered"
        BY <3>2, Served
      <4>3. reply.kind = "need_table"
        BY <2>2, <4>1, <4>2 DEF Pending
      <4> QED
        BY <1>1, <4>1, <4>3, ServerAnswers
    <3> QED
      BY <1>1, <2>2, <3>1, <3>2, PendingBefore DEF ReplyKinds
  <2> QED
    BY <1>2, <2>1, <2>2
<1> QED
  BY <1>3, <1>4

-----------------------------------------------------------------------------
(* The counts.                                                             *)

\* What the server used it has.
LEMMA UsedIsHeld ==
    ASSUME NEW held \in Seq(Seq(Int)), NEW req \in Asks, CarriesTable(req), ~NeedsTable(held, req)
    PROVE  Contains(TablesAfter(held, req), ResultingDigest(req))
<1> DEFINE digest == ResultingDigest(req)
<1>1. \A s \in Seq(Seq(Int)) : Contains(Append(s, digest), digest)
  <2>1. digest \in Seq(Int)
    BY DigestType
  <2> HIDE DEF digest
  <2>2. TAKE s \in Seq(Seq(Int))
  <2>3. Len(s) \in Nat
    BY LenProperties
  <2>4. Len(Append(s, digest)) = Len(s) + 1 /\ Append(s, digest)[Len(s) + 1] = digest
    BY <2>1, <2>3
  <2>5. Len(s) + 1 \in 1 .. Len(Append(s, digest))
    BY <2>3, <2>4
  <2> QED
    BY <2>4, <2>5 DEF Contains
<1>2. \A e : Contains(held, e) => RemoveFirst(held, e) \in Seq(Seq(Int))
  BY RemoveFirstKeeps
<1>3. Room(held) \in Seq(Seq(Int))
  <2>1. Len(held) \in Nat /\ TablesHeld \in Nat \ {0}
    BY LenProperties, BoundsAssumption
  <2>2. held # <<>> => Tail(held) \in Seq(Seq(Int))
    BY HeadTailProperties
  <2>3. held = <<>> => Len(held) = 0
    OBVIOUS
  <2> QED
    BY <2>1, <2>2, <2>3 DEF Room
<1>4. TablesAfter(held, req) = Rebuilt(held, req)
  BY DEF TablesAfter
<1>5. req.base # <<>> => Contains(held, req.base)
  BY DEF NeedsTable
<1> QED
  BY <1>1, <1>2, <1>3, <1>4, <1>5 DEF Rebuilt

\* That two overlapped is not forgotten.
LEMMA OverlapsStay ==
    ASSUME Types, Wire, Next
    PROVE  overlapped \subseteq overlapped'
<1> USE DEF Wire
<1>1. CASE \E j \in Jobs : JobStep(j)
  BY <1>1 DEF JobStep, Refuse, TooLarge, Ask, Acquire, AskLinkAgain, SendKeys, AskRefusedAgain,
     Proved, RefusedTwice, TableTwice, Unanswered, history
<1>2. CASE BackfillStep
  BY <1>2, BackfillDoes DEF BackfillMoves
<1>3. CASE ServerStep \/ OtherClient \/ ServerRestarts \/ LinkDrops
  BY <1>3, ServerMoves DEF history
<1>4. CASE BackoffEnds \/ Restart
  BY <1>4 DEF BackoffEnds, Restart, history
<1>5. CASE \E t \in Threads : AttemptStep(t) \/ DialFails(t) \/ TimesOut(t)
  BY <1>5, AttemptDoes DEF AttemptMoves, history
<1> QED
  BY <1>1, <1>2, <1>3, <1>4, <1>5 DEF Next, Environment

\* A witness the circuit takes was refused before, or is now by a sick prover.
LEMMA SickensNext ==
    ASSUME Inv1, Store, Inv2, Next, NEW job \in Jobs, Sickened(job)'
    PROVE  /\ Clean(job) /\ Accepts(job)
           /\ \/ Sickened(job)
              \/ ServeClient /\ holder = job /\ faults' = faults + 1
           /\ ServeClient /\ holder = job /\ pc[job] = "attempt" /\ Pending(job, "failed")' =>
                faults' = faults + 1
<1> USE DEF Inv1, Inv2, Wire
<1>1. /\ pc \in [Threads -> States] /\ request \in [Threads -> Asks] /\ job \in Threads
      /\ phase \in [Jobs -> {"first", "keys", "again"}] /\ Committee \subseteq Jobs
  BY JobsAssumption DEF Types, ThreadTypes, Threads
<1>2. overlapped \subseteq overlapped'
  BY OverlapsStay
<1>3. Clean(job)
  BY <1>2 DEF Sickened, Clean
<1>4. phase'[job] = "again" => phase[job] = "again" \/ (AskRefusedAgain(job) /\ Pending(job, "failed"))
  <2>1. CASE JobStep(job)
    BY <1>1, <2>1 DEF JobStep, Refuse, TooLarge, Ask, Acquire, AskLinkAgain, SendKeys,
       AskRefusedAgain, Proved, RefusedTwice, TableTwice, Unanswered, Finish, Answered, Pending
  <2>2. CASE ~JobStep(job)
    BY <2>2, OthersKeep
  <2> QED
    BY <2>1, <2>2
<1>5. Pending(job, "failed")' =>
        Pending(job, "failed") \/ (ServeClient /\ holder = job /\ link.sent /\ pc[job] = "attempt")
  BY <1>1, PendingBefore DEF ReplyKinds
<1>6. \/ phase[job] = "again"
      \/ Pending(job, "failed")
      \/ ServeClient /\ holder = job /\ pc[job] = "attempt" /\ Pending(job, "failed")'
  BY <1>4, <1>5 DEF Sickened
<1>7. Accepts(job)
  <2>1. pc[job] # "new"
    BY <1>1, <1>6 DEF Phases, Pending, OneAttempt
  <2>2. ChildrenBack(job)
    BY <2>1 DEF Store
  <2> QED
    BY <2>2, AcceptsStays DEF Sickened
<1>8. ASSUME ServeClient, holder = job, pc[job] = "attempt", Pending(job, "failed")'
      PROVE  faults' = faults + 1
  <2> DEFINE req == request[job]
  <2>1. PICK reply \in Answers(tables, req) :
          /\ Head(link'.replies) = reply
          /\ faults' = IF Sick(tables, req, reply) THEN faults + 1 ELSE faults
    BY <1>8, Served
  <2>2. reply.kind = "failed"
    <3>1. pc'[job] # "answered"
      BY <1>8, Served
    <3> QED
      BY <1>8, <2>1, <3>1 DEF Pending
  <2>3. CarriesTable(req) => Decodes(req)
    <3>1. ASSUME CarriesTable(req) PROVE Decodes(req)
      <4>1. job \in Committee
        BY <3>1 DEF OwnRequests
      <4>2. overlapped = {}
        BY <1>3, <4>1 DEF Clean
      <4> QED
        BY <1>8, <4>1, <4>2 DEF Keys, Active
    <3> QED
      BY <3>1
  <2>4. req.job = job /\ req \in Asks
    BY <1>1, <1>8 DEF OwnRequests
  <2>5. ~NeedsTable(tables, req)
    BY <2>1, <2>2, <2>4, ServerAnswers
  <2>6. reply = [kind |-> "failed", job |-> job]
    BY <2>1, <2>2, <2>4, <2>5 DEF Answers
  <2>7. [kind |-> "proved", job |-> job] \in Answers(tables, req)
    BY <1>7, <2>3, <2>4, <2>5 DEF Answers
  <2>8. [reply EXCEPT !.kind = "proved"] = [kind |-> "proved", job |-> job]
    BY <2>6
  <2> HIDE DEF req
  <2> QED
    BY <2>1, <2>2, <2>7, <2>8 DEF Sick
<1>9. Sickened(job) \/ (ServeClient /\ holder = job /\ faults' = faults + 1)
  BY <1>3, <1>6, <1>7, <1>8 DEF Sickened
<1> QED
  BY <1>3, <1>7, <1>8, <1>9

\* An answer that comes to a job while it is asked for finds it where it was.
LEMMA AnswerComes ==
    ASSUME Inv1, Next, NEW job \in Jobs, NEW kind \in ReplyKinds, Pending(job, kind)'
    PROVE  /\ request'[job] = request[job] /\ phase'[job] = phase[job]
           /\ Pending(job, kind) \/ (ServeClient /\ holder = job /\ pc[job] = "attempt")
<1> USE DEF Inv1
<1>1. ~JobStep(job)
  BY NothingPending
<1>2. job \in Threads
  BY DEF Threads
<1> QED
  BY <1>1, <1>2, OthersKeep, PendingBefore

\* While nothing more happens, a table the server was found to have it keeps, for
\* nobody but the witness's own job asks for one.
LEMMA TableStays ==
    ASSUME Inv1, Store, Inv2, Next, NEW job \in Committee,
           Sickened(job), Active(job), Active(job)', Events < 2, Events' < 2
    PROVE  Contains(tables', ResultingDigest(request'[job]))
<1> USE DEF Inv1, Inv2, Wire
<1>1. /\ pc \in [Threads -> States] /\ request \in [Threads -> Asks]
      /\ job \in Threads /\ job \in Jobs /\ job # Backfill
      /\ tables \in Seq(Seq(Int))
  BY JobsAssumption DEF Types, ThreadTypes, ServerTypes, Threads
<1>2. /\ faults \in Nat /\ clients \in Nat /\ restarts \in Nat
      /\ faults' \in Nat /\ clients' \in Nat /\ restarts' \in Nat
      /\ faults <= Events /\ Events \in Nat /\ Events' \in Nat /\ Events <= Events'
      /\ faults < faults' \/ clients < clients' \/ restarts < restarts' => Events + 1 <= Events'
  BY EventsGrow
<1>3. faults >= 1 /\ orphans = {} /\ Contains(tables, ResultingDigest(request[job]))
  BY <1>1, <1>2 DEF Counted
<1>4. ~(faults < faults' \/ clients < clients' \/ restarts < restarts')
  BY <1>2, <1>3
<1>5. overlapped = {}
  BY DEF Sickened, Clean
<1>6. CarriesTable(request[job])
  BY <1>5 DEF Keys
<1>7. CASE JobStep(job)
  <2>1. tables' = tables
    BY <1>1, <1>7, JobDoes DEF JobMoves
  <2>2. ~SendKeys(job)
    <3>1. SUFFICES ASSUME SendKeys(job) PROVE FALSE
      OBVIOUS
    <3>2. phase[job] = "first" /\ pc[job] = "answered" /\ result[job].kind = "need_table"
      BY <3>1 DEF SendKeys, Answered
    <3> QED
      BY <3>2 DEF Sickened, Pending, OneAttempt
  <2>3. CASE AskRefusedAgain(job)
    <3> DEFINE digest == ResultingDigest(request[job])
    <3>1. request'[job] = Naming(job, digest, <<>>)
      BY <1>1, <1>6, <2>3, SettledAsk
    <3>2. digest \in Seq(Int)
      BY <1>1, DigestType
    <3> HIDE DEF digest
    <3>3. digest \o <<>> = digest
      BY <3>2, ConcatEmptySeq
    <3>4. ResultingDigest(request'[job]) = digest
      BY <3>1, <3>3 DEF Naming, ResultingDigest
    <3> QED
      BY <1>3, <2>1, <3>4 DEF digest
  <2>4. CASE Acquire(job) \/ AskLinkAgain(job)
    <3>1. request' = request
      BY <2>4 DEF Acquire, AskLinkAgain
    <3> QED
      BY <1>3, <2>1, <3>1
  <2>5. CASE Refuse(job) \/ TooLarge(job) \/ Ask(job)
    BY <2>5 DEF Refuse, TooLarge, Ask, Active
  <2>6. CASE Proved(job) \/ RefusedTwice(job) \/ TableTwice(job) \/ Unanswered(job)
    BY <1>1, <2>6 DEF Proved, RefusedTwice, TableTwice, Unanswered, Finish, Active
  <2> QED
    BY <1>7, <2>2, <2>3, <2>4, <2>5, <2>6 DEF JobStep
<1>8. CASE ~JobStep(job)
  <2>1. request'[job] = request[job]
    BY <1>1, <1>8, OthersKeep
  <2>2. tables' = tables \/ ServeClient
    <3>1. CASE \E other \in Jobs : JobStep(other)
      BY <3>1, JobDoes DEF JobMoves
    <3>2. CASE BackfillStep
      BY <3>2, BackfillDoes DEF BackfillMoves, serverVars
    <3>3. CASE ServerStep \/ OtherClient \/ ServerRestarts \/ LinkDrops
      <4>1. CASE ServeOrphan
        BY <1>3, <4>1 DEF ServeOrphan
      <4>2. CASE OtherClient
        <5>1. clients' = clients + 1
          BY <4>2 DEF OtherClient
        <5> QED
          BY <1>2, <1>4, <5>1
      <4>3. CASE ServerRestarts
        <5>1. faults' = faults + 1
          BY <4>3 DEF ServerRestarts
        <5> QED
          BY <1>2, <1>4, <5>1
      <4>4. CASE LinkDrops
        BY <4>4 DEF LinkDrops
      <4> QED
        BY <3>3, <4>1, <4>2, <4>3, <4>4 DEF ServerStep
    <3>4. CASE BackoffEnds \/ Restart
      BY <3>4 DEF BackoffEnds, Restart, serverVars
    <3>5. CASE \E t \in Threads : AttemptStep(t) \/ DialFails(t) \/ TimesOut(t)
      BY <3>5 DEF AttemptStep, Dial, Send, LinkFails, Read, DialFails, TimesOut, RoundFails, serverVars
    <3> QED
      BY <3>1, <3>2, <3>3, <3>4, <3>5 DEF Next, Environment
  <2>3. CASE ServeClient
    <3> DEFINE req == request[holder]
    <3>1. tables' = TablesAfter(tables, req) /\ holder \in Threads /\ pc[holder] = "attempt"
          /\ req \in Asks
      BY <2>3, Served
    <3>2. CASE ~CarriesTable(req) \/ NeedsTable(tables, req)
      BY <1>3, <2>1, <3>1, <3>2 DEF TablesAfter
    <3>3. CASE CarriesTable(req) /\ ~NeedsTable(tables, req)
      <4>1. holder \in Committee
        BY <3>1, <3>3 DEF OwnRequests, Threads
      <4>2. holder = job
        BY <1>5, <3>1, <4>1 DEF Keys, Active
      <4> QED
        BY <1>1, <2>1, <3>1, <3>3, <4>2, UsedIsHeld
    <3> QED
      BY <3>2, <3>3
  <2> QED
    BY <1>3, <2>1, <2>2, <2>3
<1> QED
  BY <1>7, <1>8

LEMMA NextKeepsCounted ==
    ASSUME Inv1, Store, Inv2, Next
    PROVE  Counted'
<1> USE DEF Inv1, Inv2, Wire
<1>1. /\ faults \in Nat /\ faults' \in Nat /\ faults <= faults'
      /\ Events \in Nat /\ Events' \in Nat /\ Events <= Events'
      /\ faults <= Events /\ faults' <= Events'
      /\ faults < faults' => Events + 1 <= Events'
  BY EventsGrow
<1> SUFFICES ASSUME NEW job \in Jobs, Sickened(job)'
             PROVE  /\ faults' >= 1
                    /\ phase'[job] = "again" /\ Pending(job, "failed")' => faults' >= 2
                    /\ orphans' # {} => Events' >= 2
                    /\ Active(job)' /\ job \in Committee =>
                         Contains(tables', ResultingDigest(request'[job])) \/ Events' >= 2
                    /\ phase'[job] = "again" /\ Pending(job, "need_table")' => Events' >= 2
  BY DEF Counted, Contains, ResultingDigest
<1>2. /\ request \in [Threads -> Asks] /\ job \in Threads /\ Committee \subseteq Jobs
      /\ tables \in Seq(Seq(Int))
  BY JobsAssumption DEF Types, ThreadTypes, ServerTypes, Threads
<1>3. /\ Clean(job) /\ Accepts(job)
      /\ Sickened(job) \/ (ServeClient /\ holder = job /\ faults' = faults + 1)
      /\ ServeClient /\ holder = job /\ pc[job] = "attempt" /\ Pending(job, "failed")' =>
           faults' = faults + 1
  BY SickensNext
<1>4. /\ Sickened(job) => faults >= 1
      /\ Sickened(job) /\ phase[job] = "again" /\ Pending(job, "failed") => faults >= 2
      /\ Sickened(job) /\ orphans # {} => Events >= 2
      /\ Sickened(job) /\ phase[job] = "again" /\ Pending(job, "need_table") => Events >= 2
  BY DEF Counted
<1>5. faults' >= 1
  BY <1>1, <1>3, <1>4
<1>6. ASSUME phase'[job] = "again", Pending(job, "failed")'
      PROVE  faults' >= 2
  <2>1. /\ phase[job] = "again"
        /\ Pending(job, "failed") \/ (ServeClient /\ holder = job /\ pc[job] = "attempt")
    BY <1>6, AnswerComes DEF ReplyKinds
  <2>2. Sickened(job)
    BY <1>3, <2>1 DEF Sickened
  <2> QED
    BY <1>1, <1>3, <1>4, <1>6, <2>1, <2>2
<1>7. ASSUME orphans' # {}
      PROVE  Events' >= 2
  <2>1. orphans' \subseteq orphans \/ Events + 1 <= Events'
    BY OrphansCost
  <2>2. CASE Sickened(job)
    BY <1>1, <1>4, <1>7, <2>1, <2>2
  <2>3. CASE ServeClient /\ faults' = faults + 1
    <3>1. orphans # {}
      BY <1>7, <2>3, Served
    <3>2. Events >= 1
      BY <3>1 DEF Connection
    <3> QED
      BY <1>1, <2>3, <3>2
  <2> QED
    BY <1>3, <2>2, <2>3
<1>8. ASSUME Active(job)', job \in Committee, Events' < 2
      PROVE  Contains(tables', ResultingDigest(request'[job]))
  <2>1. CASE ServeClient /\ holder = job /\ faults' = faults + 1 /\ ~Sickened(job)
    <3> DEFINE req == request[job]
    <3>1. /\ req \in Asks /\ request'[job] = req /\ tables' = TablesAfter(tables, req)
          /\ pc[job] = "attempt"
      BY <2>1, Served
    <3>2. CarriesTable(req)
      BY <1>3, <1>8, <3>1 DEF Clean, Keys, Active
    <3>3. ~NeedsTable(tables, req)
      <4>1. PICK reply \in Answers(tables, req) :
              faults' = IF Sick(tables, req, reply) THEN faults + 1 ELSE faults
        BY <2>1, Served
      <4>2. reply.kind = "failed"
        BY <1>1, <2>1, <4>1 DEF Sick
      <4> QED
        BY <3>1, <4>1, <4>2, ServerAnswers
    <3> QED
      BY <1>2, <3>1, <3>2, <3>3, UsedIsHeld
  <2>2. CASE Sickened(job)
    <3>1. Active(job)
      <4>1. CASE JobStep(job)
        <5>1. ~Ask(job)
          BY <2>2 DEF Ask, Sickened, Pending, OneAttempt, Phases
        <5> QED
          BY <1>8, <4>1, <5>1, <1>2 DEF JobStep, Refuse, TooLarge, Acquire, AskLinkAgain, SendKeys,
             AskRefusedAgain, Proved, RefusedTwice, TableTwice, Unanswered, Answered, Active,
             Types, ThreadTypes
      <4>2. CASE ~JobStep(job)
        BY <1>8, <4>2, OthersKeep
      <4> QED
        BY <4>1, <4>2
    <3>2. Events < 2
      BY <1>1, <1>8
    <3> QED
      BY <1>8, <2>2, <3>1, <3>2, TableStays
  <2> QED
    BY <1>3, <2>1, <2>2
<1>9. ASSUME phase'[job] = "again", Pending(job, "need_table")'
      PROVE  Events' >= 2
  <2>1. /\ phase[job] = "again"
        /\ Pending(job, "need_table") \/ (ServeClient /\ holder = job /\ pc[job] = "attempt")
    BY <1>9, AnswerComes DEF ReplyKinds
  <2>2. Sickened(job)
    BY <1>3, <2>1 DEF Sickened
  <2>3. CASE Pending(job, "need_table")
    BY <1>1, <1>4, <2>1, <2>2, <2>3
  <2>4. CASE ServeClient /\ holder = job /\ pc[job] = "attempt"
    <3> DEFINE req == request[job]
    <3>1. PICK reply \in Answers(tables, req) : Head(link'.replies) = reply
      BY <2>4, Served
    <3>2. pc'[job] # "answered"
      BY <2>4, Served
    <3>3. reply.kind = "need_table"
      BY <1>9, <3>1, <3>2 DEF Pending
    <3>4. CarriesTable(req) /\ ~Contains(tables, req.base)
      BY <1>2, <3>1, <3>3, ServerAnswers
    <3>5. req.added = <<>> /\ job \in Committee
      BY <2>1, <2>4, <3>4 DEF Phases, Active, OwnRequests
    <3>6. ResultingDigest(req) = req.base
      <4>1. req.base \in Seq(Int)
        BY <1>2 DEF Asks
      <4>2. req.base \o <<>> = req.base
        BY <4>1, ConcatEmptySeq
      <4> QED
        BY <3>5, <4>2 DEF ResultingDigest
    <3>7. Contains(tables, ResultingDigest(req)) \/ Events >= 2
      BY <2>2, <2>4, <3>5 DEF Counted, Active
    <3> QED
      BY <1>1, <3>4, <3>6, <3>7
  <2> QED
    BY <2>1, <2>3, <2>4
<1> QED
  BY <1>1, <1>5, <1>6, <1>7, <1>8, <1>9

-----------------------------------------------------------------------------

LEMMA StutterKeepsAgreement ==
    ASSUME Inv2, UNCHANGED vars
    PROVE  Inv2'
<1> USE DEF vars, threadVars, sharedVars, serverVars, bounds, history
<1>1. Connection'
  BY DEF Inv2, Connection, Nothing, Events
<1>2. Keys'
  BY DEF Inv2, Keys, Active, CarriesTable, Decodes, ResultingDigest
<1>3. \A t, kind : Pending(t, kind)' <=> Pending(t, kind)
  BY DEF Pending
<1>4. \A job : Active(job)' = Active(job) /\ Sickened(job)' = Sickened(job)
  BY <1>3 DEF Active, Sickened, Clean, Accepts
<1>5. Phases'
  BY <1>3, <1>4 DEF Inv2, Phases, CarriesTable
<1>6. Counted'
  BY <1>3, <1>4 DEF Inv2, Counted, Contains, ResultingDigest, Events
<1> QED
  BY <1>1, <1>2, <1>5, <1>6 DEF Inv2

\* What the two ends hold of the keys agrees, and every sick answer is counted.
LEMMA AgreementInvariant == Spec => []Inv2
<1>1. Init => Inv2
  <2> SUFFICES ASSUME Init PROVE Inv2
    OBVIOUS
  <2>1. /\ \A t \in Threads : pc[t] = "new"
        /\ \A job \in Jobs : phase[job] = "first" /\ pc[job] = "new"
        /\ ~link.broken /\ ~link.sent /\ orphans = {} /\ belief.sent = {}
        /\ Committee \subseteq Jobs /\ Jobs \subseteq Threads
    BY JobsAssumption DEF Init, FreshLink, NoBelief, Threads
  <2>2. \A job \in Jobs : ~Active(job) /\ \A kind : ~Pending(job, kind)
    BY <2>1 DEF Active, Pending
  <2>3. \A job \in Jobs : ~Sickened(job)
    BY <2>1, <2>2 DEF Sickened
  <2>4. Connection
    BY <2>1 DEF Connection
  <2>5. Keys
    BY <2>1, <2>2 DEF Keys
  <2>6. Phases
    BY <2>1, <2>2 DEF Phases
  <2>7. Counted
    BY <2>3 DEF Counted
  <2> QED
    BY <2>4, <2>5, <2>6, <2>7 DEF Inv2
<1>2. Inv1 /\ Store /\ Inv2 /\ [Next]_vars => Inv2'
  <2> SUFFICES ASSUME Inv1, Store, Inv2, [Next]_vars PROVE Inv2'
    OBVIOUS
  <2>1. CASE Next
    BY <2>1, NextKeepsConnection, NextKeepsKeys, NextKeepsPhases, NextKeepsCounted DEF Inv1, Inv2
  <2>2. CASE UNCHANGED vars
    BY <2>2, StutterKeepsAgreement
  <2> QED
    BY <2>1, <2>2
<1> QED
  BY <1>1, <1>2, WireInvariant, StoreInvariant, PTL DEF Spec

\* remote_prover.rs:1535-1550: a refusal that stops the run with at most one sick
\* answer is of a witness the circuit does not take, and one event of whatever
\* kind is not enough for a quarrel over the keys, whatever was evicted, dropped,
\* started again or answered too late on the way.
THEOREM RefusalCorrect == Spec => []RefusalIsOfTheWitness
<1>1. Init => RefusalIsOfTheWitness
  BY DEF Init, RefusalIsOfTheWitness
<1>2. Inv1 /\ Store /\ Inv2 /\ RefusalIsOfTheWitness /\ [Next]_vars => RefusalIsOfTheWitness'
  <2> SUFFICES ASSUME Inv1, Store, Inv2, RefusalIsOfTheWitness, [Next]_vars
               PROVE  RefusalIsOfTheWitness'
    OBVIOUS
  <2>1. CASE UNCHANGED vars
    BY <2>1 DEF RefusalIsOfTheWitness, Accepts, vars, threadVars, sharedVars, bounds, history
  <2>2. CASE Next
    <3> USE DEF Inv1, Wire
    <3>1. /\ faults \in Nat /\ faults' \in Nat /\ faults <= faults'
          /\ Events \in Nat /\ Events' \in Nat /\ Events <= Events'
      BY <2>2, EventsGrow
    <3>2. SUFFICES ASSUME NEW job \in Jobs, job \in Committee => overlapped' = {}, Accepts(job)'
                   PROVE  /\ outcome'[job] = "refused" => faults' > 1
                          /\ outcome'[job] = "table" => Events' > 1
      BY DEF RefusalIsOfTheWitness, Events
    <3>3. /\ outcome \in [Jobs -> Outcomes] /\ job \in Threads
          /\ phase \in [Jobs -> {"first", "keys", "again"}]
      BY DEF Types, ThreadTypes, Threads
    <3>4. job \in Committee => overlapped = {}
      BY <2>2, <3>2, OverlapsStay
    <3>5. ChildrenBack(job) => Accepts(job)
      BY <2>2, <3>2, AcceptsStays
    <3>6. CASE outcome[job] # "none"
      <4>1. outcome'[job] = outcome[job]
        BY <2>2, <3>6, OutcomesStay
      <4>2. Accepts(job)
        BY <3>5, <3>6 DEF OutcomesLast, Store
      <4>3. /\ outcome[job] = "refused" => faults > 1
            /\ outcome[job] = "table" => Events > 1
        BY <3>4, <4>2 DEF RefusalIsOfTheWitness, Events
      <4> QED
        BY <3>1, <4>1, <4>3
    <3>7. CASE RefusedTwice(job)
      <4>1. /\ phase[job] = "again" /\ Pending(job, "failed") /\ pc[job] = "answered"
            /\ outcome'[job] = "refused"
        BY <3>3, <3>7 DEF RefusedTwice, Answered, Pending, Finish
      <4>2. Sickened(job)
        BY <3>4, <3>5, <4>1 DEF Store, Sickened, Clean
      <4>3. faults >= 2
        BY <4>1, <4>2 DEF Inv2, Counted
      <4> QED
        BY <3>1, <4>1, <4>3
    <3>8. CASE TableTwice(job)
      <4>1. /\ Pending(job, "need_table") /\ pc[job] = "answered" /\ outcome'[job] = "table"
            /\ phase[job] # "first" \/ request[job].base = <<>>
        BY <3>3, <3>8 DEF TableTwice, Answered, Pending, Finish
      <4>2. phase[job] = "again"
        BY <3>3, <4>1 DEF Inv2, Phases, Active
      <4>3. Sickened(job)
        BY <3>4, <3>5, <4>1, <4>2 DEF Store, Sickened, Clean
      <4>4. Events >= 2
        BY <4>1, <4>2, <4>3 DEF Inv2, Counted
      <4> QED
        BY <3>1, <4>1, <4>4
    <3>9. CASE outcome[job] = "none" /\ ~RefusedTwice(job) /\ ~TableTwice(job)
      <4>1. outcome'[job] \notin {"refused", "table"}
        <5>1. CASE JobStep(job)
          BY <3>3, <3>9, <5>1 DEF JobStep, Refuse, TooLarge, Ask, Acquire, AskLinkAgain, SendKeys,
             AskRefusedAgain, Proved, Unanswered, Unproven, Finish
        <5>2. CASE \E other \in Jobs \ {job} : JobStep(other)
          BY <3>9, <5>2, JobDoes DEF JobMoves
        <5>3. CASE BackfillStep
          BY <3>9, <5>3, BackfillDoes DEF BackfillMoves
        <5>4. CASE ServerStep \/ OtherClient \/ ServerRestarts \/ LinkDrops
          BY <3>9, <5>4, ServerMoves
        <5>5. CASE BackoffEnds \/ Restart
          BY <3>9, <5>5 DEF BackoffEnds, Restart, threadVars
        <5>6. CASE \E t \in Threads : AttemptStep(t) \/ DialFails(t) \/ TimesOut(t)
          BY <3>9, <5>6, AttemptDoes DEF AttemptMoves
        <5> QED
          BY <2>2, <5>1, <5>2, <5>3, <5>4, <5>5, <5>6 DEF Next, Environment
      <4> QED
        BY <4>1
    <3> QED
      BY <3>6, <3>7, <3>8, <3>9
  <2> QED
    BY <2>1, <2>2
<1> QED
  BY <1>1, <1>2, WireInvariant, StoreInvariant, AgreementInvariant, PTL DEF Spec
=============================================================================
